----------------------------- MODULE RouteTable -----------------------------
(***************************************************************************)
(* The routing table of one worker (crates/model-router/src/table.rs) and  *)
(* the wire form of the advertisement it broadcasts                        *)
(* (crates/protocol/src/lib.rs).                                           *)
(*                                                                         *)
(* A table is a value: the operations that change it return the set of     *)
(* tables the call may leave behind.  The only nondeterminism is           *)
(* update_best: `min_by` over a HashMap keeps the first of several         *)
(* cheapest remotes in an iteration order the program does not control.    *)
(*                                                                         *)
(* Operators whose comment begins with "Faulty" are not the code: each is  *)
(* a mistake the code could have made, kept to show that a property would  *)
(* notice it.                                                              *)
(***************************************************************************)
EXTENDS Integers

CONSTANTS
    Node,               \* identities of the workers
    MODEL_LAYERS,       \* number of layers of the model
    ROUTE_TIMEOUT_MS,   \* age at which an entry is dropped
    None                \* Option::None

ASSUME LayersAssumption == MODEL_LAYERS \in Nat \ {0}
ASSUME TimeoutAssumption == ROUTE_TIMEOUT_MS \in Nat

Layers == 0 .. (MODEL_LAYERS - 1)

LayerRemoteInfo == [cost : Nat, last_updated : Nat]

(* One entry of `remotes` per neighbour, None where the HashMap has no key. *)
Remotes == [Node -> LayerRemoteInfo \cup {None}]

NextHop == [dest : Node, info : LayerRemoteInfo]

(* The answer of select_next: the layers to run here, and the hop to ask   *)
(* for the layers from `from` on.                                          *)
RemotePart == [hop : NextHop, from : Layers]

RoutePath == [local : (Nat \X Nat) \cup {None}, remote : RemotePart \cup {None}]

ASSUME NoneAssumption ==
    /\ None \notin LayerRemoteInfo
    /\ None \notin NextHop
    /\ None \notin RemotePart
    /\ None \notin RoutePath

Tables == [remotes : [Layers -> Remotes], next : [Layers -> NextHop \cup {None}]]

(* The half-open range `local_layers` of a worker; a gateway's is empty.   *)
LocalRanges == [start : 0 .. MODEL_LAYERS, end : 0 .. MODEL_LAYERS]

InLocal(range, layer) == range.start <= layer /\ layer < range.end

-----------------------------------------------------------------------------
(* LayerRemotePaths::update_best: the values `next` may take.              *)
Known(remotes) == {m \in Node : remotes[m] # None}

(* Faulty: the comparison is the wrong way round. *)
Dearer(info, other) == info.cost >= other.cost

Cheaper(info, other) == info.cost <= other.cost

UpdateBest(remotes) ==
    IF Known(remotes) = {}
    THEN {None}
    ELSE {[dest |-> m, info |-> remotes[m]] :
              m \in {b \in Known(remotes) :
                        \A k \in Known(remotes) : Cheaper(remotes[b], remotes[k])}}

(* The tables with these remotes in which update_best ran on the layers of *)
(* `changed` and no other.  (`best` ranges over a singleton: a name for    *)
(* the function that TLC evaluates once.)                                  *)
Refreshed(table, remotes, changed) ==
    {[remotes |-> remotes, next |-> nx] :
        nx \in UNION {{f \in [Layers -> UNION {best[l] : l \in Layers}] :
                          \A l \in Layers : f[l] \in best[l]} :
                      best \in {[l \in Layers |-> IF l \in changed
                                                THEN UpdateBest(remotes[l])
                                                ELSE {table.next[l]}]}}}

-----------------------------------------------------------------------------
New == [remotes |-> [l \in Layers |-> [m \in Node |-> None]],
        next    |-> [l \in Layers |-> None]]

SelectNext(table, range, layer) ==
    IF InLocal(range, layer)
    THEN IF range.end = MODEL_LAYERS
         THEN [local |-> <<layer, MODEL_LAYERS>>, remote |-> None]
         ELSE IF table.next[range.end] = None
              THEN None
              ELSE [local  |-> <<layer, range.end>>,
                    remote |-> [hop |-> table.next[range.end], from |-> range.end]]
    ELSE IF table.next[layer] = None
         THEN None
         ELSE [local  |-> None,
               remote |-> [hop |-> table.next[layer], from |-> layer]]

Ready(table, range) == SelectNext(table, range, 0) # None

(* RoutePath::cost and RoutePath::last_updated. *)
Cost(path) == IF path.remote = None THEN 0 ELSE path.remote.hop.info.cost

(* Faulty: a route is advertised as if it had just been heard of. *)
LastUpdatedNow(path, now_ms) == now_ms

LastUpdated(path, now_ms) ==
    IF path.remote = None THEN now_ms ELSE path.remote.hop.info.last_updated

CreateSync(table, range, now_ms) ==
    [layer \in Layers |->
        LET path == SelectNext(table, range, layer)
        IN  IF path = None
            THEN None
            ELSE [cost |-> Cost(path), last_updated |-> LastUpdated(path, now_ms)]]

(* Faulty: the hop costs nothing, or is subtracted. *)
HopCostFree(cost, rtt) == cost
HopCostSubtracted(cost, rtt) == cost - rtt

HopCost(cost, rtt) == cost + rtt

ApplySync(table, from, rtt, sync) ==
    LET remotes ==
            [l \in Layers |->
                [table.remotes[l] EXCEPT ![from] =
                    IF sync[l] = None
                    THEN None
                    ELSE [cost         |-> HopCost(sync[l].cost, rtt),
                          last_updated |-> sync[l].last_updated]]]
    IN  Refreshed(table, remotes, Layers)

(* Faulty: update_best does not run when remotes expire. *)
UnchangedLayers(table, remotes) == {}

ChangedLayers(table, remotes) == {l \in Layers : remotes[l] # table.remotes[l]}

OnTick(table, now_ms) ==
    LET live(info) == info # None /\ info.last_updated + ROUTE_TIMEOUT_MS > now_ms
        remotes ==
            [l \in Layers |->
                [m \in Node |-> IF live(table.remotes[l][m])
                                THEN table.remotes[l][m]
                                ELSE None]]
    IN  Refreshed(table, remotes, ChangedLayers(table, remotes))

(* Faulty: the routes through a lost neighbour wait for their timeout. *)
OnDisconnectedIgnored(table, node) == {table}

OnDisconnected(table, node) ==
    LET remotes == [l \in Layers |-> [table.remotes[l] EXCEPT ![node] = None]]
    IN  Refreshed(table, remotes, {l \in Layers : table.remotes[l][node] # None})

-----------------------------------------------------------------------------
(* The protobuf message: an `enable` flag stands for the Option, and a     *)
(* disabled layer carries zeros.                                           *)
SyncReqs == [Layers -> [enable : BOOLEAN, cost : Nat, last_updated : Nat]]

ToSyncReq(sync) ==
    [l \in Layers |->
        IF sync[l] = None
        THEN [enable |-> FALSE, cost |-> 0, last_updated |-> 0]
        ELSE [enable       |-> TRUE,
              cost         |-> sync[l].cost,
              last_updated |-> sync[l].last_updated]]

FromSyncReq(req) ==
    [l \in Layers |->
        IF req[l].enable
        THEN [cost |-> req[l].cost, last_updated |-> req[l].last_updated]
        ELSE None]
=============================================================================
