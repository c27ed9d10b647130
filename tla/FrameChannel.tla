---------------------------- MODULE FrameChannel ----------------------------
(***************************************************************************)
(* What a connection promises its node: whole frames, each once, in the    *)
(* order they were sent among the small ones and among the big ones.       *)
(* Small frames may overtake big ones.                                     *)
(***************************************************************************)
EXTENDS Integers, Sequences

CONSTANTS Ends, Lengths, MaxFrames, CHUNK_SIZE

VARIABLES
    transit,   \* transit[e]: the frames on their way from e
    arrived,   \* arrived[e]: the frames e received
    count      \* count[e]: how many frames e sent

fvars == <<transit, arrived, count>>

Small(f) == f.len <= CHUNK_SIZE

FInit ==
    /\ transit = [e \in Ends |-> {}]
    /\ arrived = [e \in Ends |-> <<>>]
    /\ count = [e \in Ends |-> 0]

FSend(e, len) ==
    /\ count[e] < MaxFrames
    /\ transit' = [transit EXCEPT ![e] = @ \cup {[id |-> count[e], len |-> len]}]
    /\ count' = [count EXCEPT ![e] = @ + 1]
    /\ UNCHANGED arrived

(* r receives f from e: of the small or of the big frames, the oldest. *)
FDeliver(e, r, f) ==
    /\ e # r
    /\ \A g \in transit[e] : (Small(g) <=> Small(f)) => f.id <= g.id
    /\ arrived' = [arrived EXCEPT ![r] = Append(@, f)]
    /\ transit' = [transit EXCEPT ![e] = @ \ {f}]
    /\ UNCHANGED count

FNext ==
    \/ \E e \in Ends : \E len \in Lengths[e] : FSend(e, len)
    \/ \E e, r \in Ends : \E f \in transit[e] : FDeliver(e, r, f)

FSpec == FInit /\ [][FNext]_fvars
=============================================================================
