------------------------------ MODULE Routing -------------------------------
(***************************************************************************)
(* The workers' routing protocol: every worker keeps a RouteTable, sends   *)
(* an advertisement of its own best routes over every open connection once *)
(* per tick, and folds in what its neighbours advertise                    *)
(* (crates/worker/src/communication.rs, crates/model-router/src/table.rs). *)
(*                                                                         *)
(* Workers start, stop without notice, and restart with an empty table;    *)
(* connections open, and each end learns of a loss in its own time.  The   *)
(* opening handshake and the fragmentation of messages are other modules'  *)
(* business: here a connection is a pair of FIFO queues of SyncReqs.       *)
(***************************************************************************)
EXTENDS RouteTable, Sequences, FiniteSets

CONSTANTS
    Peers,         \* the pairs of workers the registry introduces
    Local,         \* Local[n]: the range of layers worker n serves
    Skew,          \* Skew[n]: n's wall clock runs Skew[n] ms ahead
    FAKE_RTT,      \* the cost of a hop
    Dist,          \* Dist[n][l]: the cheapest any chain from n through the
                   \*   layers l, l + 1, ... can be
    Period,        \* what the clock advances by, in ms
    MaxTime,       \* bound: the clock stops here
    MaxInFlight,   \* bound: advertisements in flight on one connection
    MaxCost,       \* bound: a cost saturates here (the code's u32 goes on)
    MaxFaults      \* bound: stops and lost connections in a behaviour

ASSUME RoutingAssumption ==
    /\ Peers \subseteq SUBSET Node
    /\ Local \in [Node -> LocalRanges]
    /\ Skew \in [Node -> Nat]
    /\ FAKE_RTT \in Nat
    /\ Period \in Nat \ {0}
    /\ MaxCost \in Nat /\ FAKE_RTT <= MaxCost

(* Dist obeys the triangle inequality of the chains: running the layers    *)
(* one has and asking m for the rest costs a hop more than m's chain.      *)
After(n, l) == IF InLocal(Local[n], l) THEN Local[n].end ELSE l

ASSUME DistAssumption ==
    /\ Dist \in [Node -> [Layers -> Nat]]
    /\ \A n \in Node, l \in Layers :
           IF After(n, l) = MODEL_LAYERS
           THEN Dist[n][l] = 0
           ELSE \A m \in Node :
                    {n, m} \in Peers => Dist[n][l] <= FAKE_RTT + Dist[m][After(n, l)]
    /\ \A n \in Node, l \in Layers : Dist[n][l] + FAKE_RTT <= MaxCost

VARIABLES
    now,      \* real time in ms
    up,       \* the workers that run
    table,    \* table[n]: n's RouteTable
    conns,    \* <<n, m>> \in conns: n holds a connection to m
    stale,    \* <<n, m>> \in stale: n has yet to notice the loss of an
              \*   earlier connection to m that a newer one replaced
    syncs,    \* syncs[n][m]: the SyncReqs on their way from n to m
    faults,   \* number of faults so far
    emitted   \* history: emitted[n] = n's clock when it last advertised

vars == <<now, up, table, conns, stale, syncs, faults, emitted>>

NowMs(n) == now + Skew[n]

(* The workers that run the model's last layers: routes start there. *)
Terminals == {n \in Node : Local[n].end = MODEL_LAYERS}

-----------------------------------------------------------------------------
Init ==
    /\ now = 0
    /\ up = Node
    /\ table = [n \in Node |-> New]
    /\ conns = {}
    /\ stale = {}
    /\ syncs = [n \in Node |-> [m \in Node |-> <<>>]]
    /\ faults = 0
    /\ emitted = [n \in Node |-> 0]

(* The ticker branch of WorkerCommunication::recv: the advertisement is    *)
(* made and broadcast first, expired entries are dropped after that.  What *)
(* is sent to an end that is gone is lost.                                 *)
Tick(n) ==
    /\ n \in up
    /\ \A m \in Node : Len(syncs[n][m]) < MaxInFlight
    /\ emitted' = [emitted EXCEPT ![n] = NowMs(n)]
    /\ UNCHANGED <<now, up, conns, stale, faults>>
    /\ LET req == ToSyncReq(CreateSync(table[n], Local[n], NowMs(n)))
       IN  syncs' = [syncs EXCEPT ![n] =
                        [m \in Node |-> IF /\ <<n, m>> \in conns
                                           /\ <<m, n>> \in conns
                                        THEN Append(syncs[n][m], req)
                                        ELSE syncs[n][m]]]
    /\ \E t \in OnTick(table[n], NowMs(n)) : table' = [table EXCEPT ![n] = t]

(* The bound on costs: beyond any honest cost, one is as good as another. *)
Capped(sync) ==
    [l \in Layers |-> IF sync[l] # None /\ sync[l].cost + FAKE_RTT > MaxCost
                      THEN [sync[l] EXCEPT !.cost = MaxCost - FAKE_RTT]
                      ELSE sync[l]]

(* NodeMsg carrying a SyncReq. *)
RecvSync(n, m) ==
    /\ n \in up
    /\ <<n, m>> \in conns
    /\ syncs[m][n] # <<>>
    /\ syncs' = [syncs EXCEPT ![m][n] = Tail(@)]
    /\ UNCHANGED <<now, up, conns, stale, faults, emitted>>
    /\ \E t \in ApplySync(table[n], m, FAKE_RTT, Capped(FromSyncReq(Head(syncs[m][n])))) :
           table' = [table EXCEPT ![n] = t]

(* NodeDisconnected for the connection in use: whatever was on its way to  *)
(* this end is gone with it.  The other end is alive or not, and finds out *)
(* by itself.                                                              *)
Disconnected(n, m) ==
    /\ n \in up
    /\ <<n, m>> \in conns
    /\ \/ <<m, n>> \in conns /\ faults < MaxFaults /\ faults' = faults + 1
       \/ <<m, n>> \notin conns /\ faults' = faults
    /\ conns' = conns \ {<<n, m>>}
    /\ syncs' = [syncs EXCEPT ![m][n] = <<>>]
    /\ \E t \in OnDisconnected(table[n], m) : table' = [table EXCEPT ![n] = t]
    /\ UNCHANGED <<now, up, stale, emitted>>

(* NodeDisconnected for a connection a newer one has replaced: the table   *)
(* is keyed by node, so the newer connection's routes go too.              *)
StaleDisconnected(n, m) ==
    /\ n \in up
    /\ <<n, m>> \in stale
    /\ stale' = stale \ {<<n, m>>}
    /\ \E t \in OnDisconnected(table[n], m) : table' = [table EXCEPT ![n] = t]
    /\ UNCHANGED <<now, up, conns, syncs, faults, emitted>>

(* n, which holds no connection to m, opens one: the exchange of offer and *)
(* answer, as a whole.  m may still hold the end of an earlier connection. *)
Connect(n, m) ==
    /\ {n, m} \in Peers
    /\ {n, m} \subseteq up
    /\ <<n, m>> \notin conns
    /\ stale' = IF <<m, n>> \in conns THEN stale \cup {<<m, n>>} ELSE stale
    /\ conns' = conns \cup {<<n, m>>, <<m, n>>}
    /\ UNCHANGED <<now, up, table, syncs, faults, emitted>>

(* The process ends; nothing of it is persistent. *)
Stop(n) ==
    /\ n \in up
    /\ faults < MaxFaults
    /\ faults' = faults + 1
    /\ up' = up \ {n}
    /\ table' = [table EXCEPT ![n] = New]
    /\ conns' = {c \in conns : c[1] # n}
    /\ stale' = {c \in stale : c[1] # n}
    /\ syncs' = [m \in Node |-> [syncs[m] EXCEPT ![n] = <<>>]]
    /\ UNCHANGED <<now, emitted>>

(* A new process with the same node id and the same layers. *)
Start(n) ==
    /\ n \notin up
    /\ up' = up \cup {n}
    /\ UNCHANGED <<now, table, conns, stale, syncs, faults, emitted>>

Clock ==
    /\ now + Period <= MaxTime
    /\ now' = now + Period
    /\ UNCHANGED <<up, table, conns, stale, syncs, faults, emitted>>

Next ==
    \/ \E n \in Node : Tick(n) \/ Stop(n) \/ Start(n)
    \/ \E n, m \in Node : \/ RecvSync(n, m)
                          \/ Disconnected(n, m)
                          \/ StaleDisconnected(n, m)
                          \/ Connect(n, m)
    \/ Clock

Spec == Init /\ [][Next]_vars

-----------------------------------------------------------------------------
(* Every variable has its type. *)
TypeOK ==
    /\ now \in Nat
    /\ up \subseteq Node
    /\ table \in [Node -> Tables]
    /\ conns \subseteq Node \X Node
    /\ stale \subseteq Node \X Node
    /\ syncs \in [Node -> [Node -> Seq(SyncReqs)]]
    /\ faults \in Nat
    /\ emitted \in [Node -> Nat]

(* select_next reads the cached `next`, never `remotes`: whatever the      *)
(* order of syncs, ticks, disconnections and restarts, the cached hop is   *)
(* one of the cheapest live entries, with that entry's cost and time, and  *)
(* there is one whenever an entry exists.                                  *)
NextIsBest ==
    \A n \in Node, l \in Layers : table[n].next[l] \in UpdateBest(table[n].remotes[l])

(* A worker keeps routes only through a neighbour it holds a connection    *)
(* to: on_disconnected leaves nothing behind, and no advertisement that    *)
(* was on its way when the connection went down is applied after it.       *)
RoutesAreConnected ==
    \A n \in Node, l \in Layers, m \in Node :
        table[n].remotes[l][m] # None => n \in up /\ <<n, m>> \in conns

(* An advertisement may travel in circles (there is no split horizon), but *)
(* it is never rejuvenated on the way: the time a route carries is one at  *)
(* which some worker with the last layers advertised them.  This is what   *)
(* makes dropping entries by age a way to forget a dead provider.          *)
Witnessed(info, times) == \E t \in Terminals : info.last_updated <= times[t]

NeverRejuvenated ==
    \A n \in Node, l \in Layers, m \in Node :
        /\ table[n].remotes[l][m] # None => Witnessed(table[n].remotes[l][m], emitted)
        /\ \A i \in 1 .. Len(syncs[m][n]) :
               syncs[m][n][i][l].enable => Witnessed(syncs[m][n][i][l], emitted)

(* However stale the tables it was computed from, and whatever stopped,    *)
(* restarted or lost its connections meanwhile, an advertised cost never   *)
(* promises a chain cheaper than the cheapest one the layers allow.        *)
NeverUnderestimates ==
    \A n \in Node, l \in Layers, m \in Node :
        /\ table[n].remotes[l][m] # None =>
               table[n].remotes[l][m].cost >= Dist[m][l] + FAKE_RTT
        /\ \A i \in 1 .. Len(syncs[m][n]) :
               syncs[m][n][i][l].enable => syncs[m][n][i][l].cost >= Dist[m][l]

-----------------------------------------------------------------------------
(* Every worker's ticker fires every second, and its select loop takes     *)
(* what its connections deliver.                                           *)
Fairness ==
    \A n \in Node :
        /\ WF_vars(Tick(n))
        /\ \A m \in {k \in Node : {n, k} \in Peers} : WF_vars(RecvSync(n, m))

FairSpec == Spec /\ Fairness

AllConnected ==
    /\ up = Node
    /\ \A n, m \in Node : {n, m} \in Peers => <<n, m>> \in conns

AdvertisedCost(n, l) == CreateSync(table[n], Local[n], NowMs(n))[l].cost

Settled ==
    \A n \in Node, l \in Layers :
        /\ SelectNext(table[n], Local[n], l) # None
        /\ AdvertisedCost(n, l) = Dist[n][l]

(* Once every worker runs and is connected to its peers, the tables         *)
(* forget whatever they held before -- entries of the previous             *)
(* incarnation, mutual ghosts of a lost provider -- and settle for good on *)
(* a cheapest chain from every worker and every layer.                     *)
Convergence == (<>[]AllConnected) => <>[]Settled
=============================================================================
