CONSTANTS
    a = a
    b = b
    c = c
    Nothing = Nothing
    Panic = Panic
    Node = {a, b, c}
    Contributors = {c}
    MODEL_LAYERS = 4
    MaxOffer = 5
SPECIFICATION PlacementSpec
INVARIANTS SuggestionIsBest GreenMeansNearlyServed
PROPERTIES PromiseKept
