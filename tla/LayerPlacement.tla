--------------------------- MODULE LayerPlacement ---------------------------
(***************************************************************************)
(* Which layers a new worker should serve.  The registry keeps the range   *)
(* of every worker of a model (crates/registry/src/server/                 *)
(* session_manager.rs) and answers two queries: the distribution, how      *)
(* often each layer is served, from which a contributor's own server       *)
(* selects a range (client/layers_selection.rs, bin/openai-server          *)
(* api_control.rs), and the swarm's health, from which the monitor page    *)
(* tells whether a model can be used (desktop-app, health.tsx).            *)
(*                                                                         *)
(* A suggestion is worked out from the distribution as it was, and taken   *)
(* up whenever the contributor starts; others come and go in between.      *)
(***************************************************************************)
EXTENDS Integers, FiniteSets, FiniteSetsExt

CONSTANTS
    Node,          \* node ids of workers
    Contributors,  \* those that ask which layers to serve; others are told by
                   \*   whoever starts them
    MODEL_LAYERS,  \* layers of the model, the query's max_layers
    MaxOffer,      \* bound: layers a contributor has room for
    Panic,         \* a failed assertion of sum_in_window
    Nothing

ASSUME PlacementAssumption ==
    /\ MODEL_LAYERS \in Nat \ {0} /\ MaxOffer \in Nat
    /\ IsFiniteSet(Node) /\ Contributors \subseteq Node

Layers == 0 .. MODEL_LAYERS - 1

Range0(r) == r.start .. r.end - 1

Ranges == {r \in [start : 0 .. MODEL_LAYERS, end : 0 .. MODEL_LAYERS] : r.start <= r.end}

ASSUME NothingAssumption ==
    /\ Nothing \notin Ranges \cup Nat
    /\ Panic \notin Ranges \cup [min_layers : Nat]

VARIABLES
    nodes,      \* SessionManager.nodes: the range of each registered worker, or
                \*   Nothing until it reports one
    suggestion, \* suggestion[n]: the layers n offered and what it was told, or Nothing
    promise     \* history: promise[n]: the layers n was told to bring, unless the
                \*   registry lost a worker's range since, or Nothing

pvars == <<nodes, suggestion, promise>>

-----------------------------------------------------------------------------
Reported == {n \in DOMAIN nodes : nodes[n] # Nothing}

Count(l) == Cardinality({n \in Reported : l \in Range0(nodes[n])})

(* SessionManager::get_distribution: up to the last layer anyone serves.   *)
GetDistribution ==
    LET max_layer == Max({0} \cup {nodes[n].end : n \in Reported})
    IN  [l \in 0 .. max_layer - 1 |-> Count(l)]

(* p2p_suggest_layers pads the distribution to the length of the model.    *)
Pad(dist) == [l \in DOMAIN dist \cup Layers |-> IF l \in DOMAIN dist THEN dist[l] ELSE 0]

(* sum_in_window: the sums of all windows, by their first layer.           *)
(* Faulty, here and below: not the code but a mistake it could have made,  *)
(* kept to show that a property would notice it.  Here: the last window is *)
(* left out.                                                               *)
SumInWindowShort(data, size) ==
    [i \in 0 .. Cardinality(DOMAIN data) - size - 1 |->
        MapThenSumSet(LAMBDA j : data[j], i .. i + size - 1)]

SumInWindow(data, size) ==
    [i \in 0 .. Cardinality(DOMAIN data) - size |->
        MapThenSumSet(LAMBDA j : data[j], i .. i + size - 1)]

(* LayerSelectionRes: a range, or the number of layers it would take.      *)
(* Faulty: one less than that.                                             *)
NotEnoughByOne(min_layers) == [min_layers |-> min_layers - 1]

Enough(start, end) == [start |-> start, end |-> end]

NotEnough(min_layers) == [min_layers |-> min_layers]

IsShort(res) == res \in [min_layers : Nat]

(* select_layers.  sum_in_window asserts that the window is neither empty  *)
(* nor as long as the model.                                               *)
RoomForAll(len, layers) == layers >= len

SelectLayers(dist, layers) ==
    LET len  == Cardinality(DOMAIN dist)
        gaps == {l \in DOMAIN dist : dist[l] = 0}
        min_layers == Max(gaps) - Min(gaps) + 1
        sums == SumInWindow(dist, layers)
        least == {i \in DOMAIN sums : \A j \in DOMAIN sums : sums[i] <= sums[j]}
    IN  IF gaps # {} /\ min_layers > layers THEN NotEnough(min_layers)
        ELSE IF RoomForAll(len, layers) THEN Enough(0, len)
        ELSE IF ~(layers > 0 /\ layers < len)
        THEN Panic
        ELSE Enough(Min(least), Min(least) + layers)

(* isModelComplete: the ranges in the order of their starts, a worker that *)
(* has not reported as an empty one at 0.  A range leaves no gap when it   *)
(* starts at the first layer not covered or, as the page has it, one       *)
(* further on.  Faulty: two further on.                                    *)
NoGapWide(start, covered_until) == start <= covered_until + 2

NoGap(start, covered_until) == start <= covered_until + 1

IsModelComplete ==
    LET range == [n \in DOMAIN nodes |-> IF nodes[n] = Nothing THEN Enough(0, 0) ELSE nodes[n]]
        covered(s) == Max({0} \cup {range[n].end : n \in {m \in DOMAIN nodes : range[m].start < s}})
    IN  /\ DOMAIN nodes # {}
        /\ \A n \in DOMAIN nodes : NoGap(range[n].start, covered(range[n].start))
        /\ covered(MODEL_LAYERS + 1) = MODEL_LAYERS

-----------------------------------------------------------------------------
NoPromises == [n \in Contributors |-> Nothing]

PlacementInit ==
    /\ nodes = <<>>
    /\ suggestion = [n \in Contributors |-> Nothing]
    /\ promise = NoPromises

(* on_start: a worker connects, or connects again. *)
Start(n) ==
    /\ nodes' = [m \in DOMAIN nodes \cup {n} |-> IF m = n THEN Nothing ELSE nodes[m]]
    /\ promise' = IF n \in Reported THEN NoPromises ELSE promise
    /\ UNCHANGED suggestion

(* update.from_layer..update.to_layer *)
NodeLayers(update) == [start |-> update.start, end |-> update.end]

(* on_event, an Update: the range is the one suggested, or one of the      *)
(* operator's choice.  A worker reports once a connection.                 *)
Report(n, r) ==
    /\ n \in DOMAIN nodes /\ nodes[n] = Nothing
    /\ n \in Contributors => suggestion[n] # Nothing /\ suggestion[n].res = r
    /\ nodes' = [nodes EXCEPT ![n] = NodeLayers(r)]
    /\ suggestion' = IF n \in Contributors THEN [suggestion EXCEPT ![n] = Nothing] ELSE suggestion
    /\ UNCHANGED promise

(* on_end *)
End(n) ==
    /\ n \in DOMAIN nodes
    /\ nodes' = [m \in DOMAIN nodes \ {n} |-> nodes[m]]
    /\ promise' = IF n \in Reported THEN NoPromises ELSE promise
    /\ UNCHANGED suggestion

(* p2p_suggest_layers: the distribution of this moment, and what           *)
(* select_layers makes of it.                                              *)
P2pSuggestLayers(n, layers) ==
    LET res == SelectLayers(Pad(GetDistribution), layers)
    IN  /\ n \notin DOMAIN nodes
        /\ suggestion' = [suggestion EXCEPT ![n] = [layers |-> layers, res |-> res]]
        /\ promise' = IF IsShort(res) THEN [promise EXCEPT ![n] = res.min_layers] ELSE promise
        /\ UNCHANGED nodes

PlacementNext ==
    \E n \in Node :
        \/ Start(n) \/ End(n)
        \/ \E r \in Ranges : Report(n, r)
        \/ n \in Contributors /\ \E k \in 0 .. MaxOffer : P2pSuggestLayers(n, k)

PlacementSpec == PlacementInit /\ [][PlacementNext]_pvars

-----------------------------------------------------------------------------
Answers == Ranges \cup [min_layers : 0 .. MODEL_LAYERS] \cup {Panic}

(* Every variable has its type. *)
PlacementTypes ==
    /\ DOMAIN nodes \subseteq Node
    /\ \A n \in DOMAIN nodes : nodes[n] \in Ranges \cup {Nothing}
    /\ suggestion \in [Contributors -> [layers : 0 .. MaxOffer, res : Answers] \cup {Nothing}]
    /\ promise \in [Contributors -> 0 .. MODEL_LAYERS \cup {Nothing}]

(* The ranges that whoever has room for k layers could serve.  It is to be *)
(* turned away when each of them leaves out a layer nobody serves.         *)
Fitting(k) == {r \in Ranges : r.end - r.start = IF k < MODEL_LAYERS THEN k ELSE MODEL_LAYERS}

TurnedAway(k) == \A r \in Fitting(k) : \E l \in Layers \ Range0(r) : Count(l) = 0

(* Whoever asks now is told the best there is, by the definition.  It is   *)
(* turned away just when no range it has room for holds all the layers     *)
(* nobody serves.  Otherwise it gets as many layers as it has room for: no *)
(* other such range is served less in all, and none of those served as     *)
(* little comes earlier.  (The range of layers served least need not hold  *)
(* the ones nobody serves.)  One request fails instead: room for no layer, *)
(* asked for a model of which every layer is served, is met by the         *)
(* assertion at layers_selection.rs:50; no other fails one.                *)
SuggestionIsBest ==
    \A k \in 0 .. MaxOffer :
        LET res == SelectLayers(Pad(GetDistribution), k)
            Served(r) == MapThenSumSet(Count, Range0(r))
        IN  /\ IsShort(res) <=> TurnedAway(k)
            /\ res = Panic <=> k = 0 /\ \A l \in Layers : Count(l) > 0
            /\ ~IsShort(res) /\ res # Panic =>
                  /\ res \in Fitting(k)
                  /\ \A r \in Fitting(k) :
                        \/ Served(res) < Served(r)
                        \/ Served(res) = Served(r) /\ res.start <= r.start

(* A contributor that was told to bring more layers, and comes back with   *)
(* that many, is not turned away again, whoever joined meanwhile -- unless *)
(* a worker was lost.                                                      *)
PromiseKept ==
    [][\A n \in Contributors :
          suggestion'[n] # suggestion[n] /\ suggestion'[n] # Nothing /\ promise[n] # Nothing
             /\ suggestion'[n].layers >= promise[n]
                => ~IsShort(suggestion'[n].res)]_pvars

(* The monitor page shows every model that can be used as complete; of     *)
(* those that cannot, only such where every layer nobody serves comes      *)
(* right before the start of a reported range, be it an empty one: the     *)
(* comparison with coveredUntil + 1 lets such a gap pass (health.tsx:58).  *)
GreenMeansNearlyServed ==
    /\ (\A l \in Layers : Count(l) > 0) => IsModelComplete
    /\ IsModelComplete =>
           \A l \in Layers : Count(l) > 0 \/ \E n \in Reported : nodes[n].start = l + 1
=============================================================================
