--------------------------- MODULE RoutingProofs ----------------------------
(***************************************************************************)
(* Proofs that the invariants of Routing hold for every set of workers,    *)
(* every assignment of layers, every clock skew and every topology.        *)
(*                                                                         *)
(* The order is: what each RouteTable operation guarantees of the table it *)
(* returns, then the inductive invariant, action by action.                *)
(***************************************************************************)
EXTENDS Routing, TLAPS

-----------------------------------------------------------------------------
(* The values update_best may pick: a hop of the remotes, or None exactly  *)
(* when there is none.                                                     *)
LEMMA UpdateBestPick ==
    ASSUME NEW r \in Remotes, NEW x \in UpdateBest(r)
    PROVE  /\ x \in NextHop \cup {None}
           /\ x # None => x.dest \in Node /\ r[x.dest] # None /\ x.info = r[x.dest]
<1>1. CASE Known(r) = {}
  BY <1>1 DEF UpdateBest
<1>2. CASE Known(r) # {}
  <2>1. PICK m \in Known(r) : x = [dest |-> m, info |-> r[m]]
    BY <1>2 DEF UpdateBest
  <2>2. m \in Node /\ r[m] # None /\ r[m] \in LayerRemoteInfo
    BY <2>1 DEF Known, Remotes
  <2> QED
    BY <2>1, <2>2 DEF NextHop
<1> QED
  BY <1>1, <1>2

(* Refreshing keeps the remotes given, recomputes the hop of the changed   *)
(* layers and leaves the other hops alone.                                 *)
LEMMA RefreshedTable ==
    ASSUME NEW t \in Tables, NEW remotes \in [Layers -> Remotes],
           NEW changed \in SUBSET Layers, NEW u \in Refreshed(t, remotes, changed)
    PROVE  /\ u \in Tables
           /\ u.remotes = remotes
           /\ \A l \in Layers : IF l \in changed THEN u.next[l] \in UpdateBest(remotes[l])
                                                 ELSE u.next[l] = t.next[l]
<1> DEFINE best == [l \in Layers |-> IF l \in changed THEN UpdateBest(remotes[l])
                                                  ELSE {t.next[l]}]
           picks(b) == {f \in [Layers -> UNION {b[l] : l \in Layers}] :
                           \A l \in Layers : f[l] \in b[l]}
<1>0. PICK nx \in UNION {picks(b) : b \in {best}} : u = [remotes |-> remotes, next |-> nx]
  BY DEF Refreshed
<1>1. nx \in picks(best)
  <2> HIDE DEF best, picks
  <2> QED
    BY <1>0
<1>2. \A l \in Layers : IF l \in changed THEN nx[l] \in UpdateBest(remotes[l])
                                         ELSE nx[l] = t.next[l]
  BY <1>1
<1>3. \A l \in Layers : nx[l] \in NextHop \cup {None}
  <2> TAKE l \in Layers
  <2>1. CASE l \in changed
    BY <2>1, <1>2, UpdateBestPick
  <2>2. CASE l \notin changed
    BY <2>2, <1>2 DEF Tables
  <2> QED
    BY <2>1, <2>2
<1>4. nx \in [Layers -> NextHop \cup {None}]
  BY <1>1, <1>3
<1> QED
  BY <1>0, <1>2, <1>4 DEF Tables

(* The cached hop of every layer is a best one: NextIsBest for one table.  *)
BestCached(t) == \A l \in Layers : t.next[l] \in UpdateBest(t.remotes[l])

Syncs == [Layers -> LayerRemoteInfo \cup {None}]

(* apply_sync: the sender's entries are replaced by what it advertised, a  *)
(* hop dearer; all other entries stay; every hop is a best one again.      *)
LEMMA ApplySyncTable ==
    ASSUME NEW t \in Tables, NEW m \in Node, NEW rtt \in Nat, NEW sync \in Syncs,
           NEW u \in ApplySync(t, m, rtt, sync)
    PROVE  /\ u \in Tables
           /\ BestCached(u)
           /\ \A l \in Layers, k \in Node : k # m => u.remotes[l][k] = t.remotes[l][k]
           /\ \A l \in Layers : sync[l] = None => u.remotes[l][m] = None
           /\ \A l \in Layers :
                 sync[l] # None =>
                     u.remotes[l][m] = [cost         |-> sync[l].cost + rtt,
                                        last_updated |-> sync[l].last_updated]
<1> DEFINE entry(l) == IF sync[l] = None THEN None
                       ELSE [cost         |-> sync[l].cost + rtt,
                             last_updated |-> sync[l].last_updated]
           remotes == [l \in Layers |-> [t.remotes[l] EXCEPT ![m] = entry(l)]]
<1>1. \A l \in Layers : entry(l) \in LayerRemoteInfo \cup {None}
  BY DEF Syncs, LayerRemoteInfo
<1>2. t.remotes \in [Layers -> Remotes]
  BY DEF Tables
<1>3. remotes \in [Layers -> Remotes]
  BY <1>1, <1>2 DEF Remotes
<1>4. u \in Refreshed(t, remotes, Layers)
  BY DEF ApplySync, HopCost
<1>5. u \in Tables /\ u.remotes = remotes /\ BestCached(u)
  BY <1>3, <1>4, RefreshedTable DEF BestCached
<1>6. /\ \A l \in Layers, k \in Node : k # m => remotes[l][k] = t.remotes[l][k]
      /\ \A l \in Layers : remotes[l][m] = entry(l)
  BY <1>2 DEF Remotes
<1> HIDE DEF remotes
<1> QED
  BY <1>5, <1>6

(* on_tick only forgets entries, and keeps every hop a best one.           *)
LEMMA OnTickTable ==
    ASSUME NEW t \in Tables, BestCached(t), NEW now_ms \in Nat, NEW u \in OnTick(t, now_ms)
    PROVE  /\ u \in Tables
           /\ BestCached(u)
           /\ \A l \in Layers, k \in Node : u.remotes[l][k] \in {t.remotes[l][k], None}
<1> DEFINE live(info) == info # None /\ info.last_updated + ROUTE_TIMEOUT_MS > now_ms
           remotes == [l \in Layers |-> [k \in Node |-> IF live(t.remotes[l][k])
                                                       THEN t.remotes[l][k] ELSE None]]
           changed == {l \in Layers : remotes[l] # t.remotes[l]}
<1>1. t.remotes \in [Layers -> Remotes]
  BY DEF Tables
<1>2. \A l \in Layers, k \in Node : remotes[l][k] \in {t.remotes[l][k], None}
  OBVIOUS
<1>3. remotes \in [Layers -> Remotes]
  <2>1. \A l \in Layers, k \in Node : t.remotes[l][k] \in LayerRemoteInfo \cup {None}
    BY <1>1 DEF Remotes
  <2> QED
    BY <2>1 DEF Remotes
<1>4. u \in Refreshed(t, remotes, changed)
  BY DEF OnTick, ChangedLayers
<1> HIDE DEF remotes, changed
<1>5. /\ u \in Tables
      /\ u.remotes = remotes
      /\ \A l \in Layers : IF l \in changed THEN u.next[l] \in UpdateBest(remotes[l])
                                            ELSE u.next[l] = t.next[l]
  <2>1. changed \in SUBSET Layers
    BY DEF changed
  <2> QED
    BY <2>1, <1>3, <1>4, RefreshedTable
<1>6. BestCached(u)
  BY <1>5 DEF BestCached, changed
<1> QED
  BY <1>2, <1>5, <1>6

(* on_disconnected forgets exactly the entries of that node.               *)
LEMMA OnDisconnectedTable ==
    ASSUME NEW t \in Tables, BestCached(t), NEW m \in Node, NEW u \in OnDisconnected(t, m)
    PROVE  /\ u \in Tables
           /\ BestCached(u)
           /\ \A l \in Layers, k \in Node :
                  u.remotes[l][k] = IF k = m THEN None ELSE t.remotes[l][k]
<1> DEFINE remotes == [l \in Layers |-> [t.remotes[l] EXCEPT ![m] = None]]
           changed == {l \in Layers : t.remotes[l][m] # None}
<1>1. t.remotes \in [Layers -> Remotes]
  BY DEF Tables
<1>2. \A l \in Layers, k \in Node :
          remotes[l][k] = IF k = m THEN None ELSE t.remotes[l][k]
  BY <1>1 DEF Remotes
<1>3. remotes \in [Layers -> Remotes]
  BY <1>1 DEF Remotes
<1>4. \A l \in Layers : l \notin changed => remotes[l] = t.remotes[l]
  BY <1>1 DEF Remotes
<1>5. u \in Refreshed(t, remotes, changed)
  BY DEF OnDisconnected
<1> HIDE DEF remotes
<1>6. /\ u \in Tables
      /\ u.remotes = remotes
      /\ \A l \in Layers : IF l \in changed THEN u.next[l] \in UpdateBest(remotes[l])
                                            ELSE u.next[l] = t.next[l]
  <2>1. changed \in SUBSET Layers
    OBVIOUS
  <2> QED
    BY <2>1, <1>3, <1>5, RefreshedTable
<1>7. BestCached(u)
  BY <1>4, <1>6 DEF BestCached
<1> QED
  BY <1>2, <1>6, <1>7

(* A new table is empty, and None is the best of nothing.                  *)
LEMMA NewTable ==
    /\ New \in Tables
    /\ BestCached(New)
    /\ \A l \in Layers, k \in Node : New.remotes[l][k] = None
<1>1. New.remotes \in [Layers -> Remotes]
  BY DEF New, Remotes
<1>2. \A l \in Layers : Known(New.remotes[l]) = {}
  BY DEF New, Known
<1>3. BestCached(New)
  BY <1>2 DEF BestCached, UpdateBest, New
<1> QED
  BY <1>1, <1>3 DEF New, Tables

(* create_sync: an advertised layer is one this worker finishes itself, at *)
(* cost 0 and stamped now, or one of its best hops passed on unchanged.    *)
LEMMA CreateSyncEntry ==
    ASSUME NEW t \in Tables, NEW r \in LocalRanges, NEW now_ms \in Nat, NEW l \in Layers
    PROVE  LET a == IF InLocal(r, l) THEN r.end ELSE l
               s == CreateSync(t, r, now_ms)[l]
           IN  IF a = MODEL_LAYERS
               THEN s = [cost |-> 0, last_updated |-> now_ms]
               ELSE /\ a \in Layers
                    /\ s = IF t.next[a] = None THEN None ELSE t.next[a].info
<1> DEFINE a == IF InLocal(r, l) THEN r.end ELSE l
           path == SelectNext(t, r, l)
<1>1. l \in Nat /\ l < MODEL_LAYERS /\ r.end \in 0 .. MODEL_LAYERS
  BY LayersAssumption DEF Layers, LocalRanges
<1>2. CreateSync(t, r, now_ms)[l] =
          IF path = None THEN None
          ELSE [cost |-> Cost(path), last_updated |-> LastUpdated(path, now_ms)]
  BY DEF CreateSync
<1>3. CASE a = MODEL_LAYERS
  <2>1. path = [local |-> <<l, MODEL_LAYERS>>, remote |-> None]
    BY <1>1, <1>3 DEF SelectNext
  <2>2. path \in RoutePath
    BY <2>1, <1>1, LayersAssumption DEF RoutePath
  <2>3. path # None /\ path.remote = None
    BY <2>1, <2>2, NoneAssumption
  <2> QED
    BY <1>2, <1>3, <2>3 DEF Cost, LastUpdated
<1>4. CASE a # MODEL_LAYERS
  <2>1. a \in Layers
    BY <1>1, <1>4, LayersAssumption DEF Layers
  <2>2. CASE t.next[a] = None
    <3>1. path = None
      BY <2>2, <1>1, <1>4 DEF SelectNext
    <3> QED
      BY <1>2, <1>4, <2>1, <2>2, <3>1
  <2>3. CASE t.next[a] # None
    <3>1. t.next[a] \in NextHop
      BY <2>1, <2>3 DEF Tables
    <3> DEFINE loc == IF InLocal(r, l) THEN <<l, r.end>> ELSE None
    <3>2. /\ path = [local |-> loc, remote |-> [hop |-> t.next[a], from |-> a]]
          /\ loc \in (Nat \X Nat) \cup {None}
      <4>1. CASE InLocal(r, l)
        BY <4>1, <2>3, <1>1, <1>4 DEF SelectNext
      <4>2. CASE ~InLocal(r, l)
        BY <4>2, <2>3 DEF SelectNext
      <4> QED
        BY <4>1, <4>2
    <3>3. path.remote \in RemotePart /\ path.remote.hop = t.next[a]
      BY <2>1, <3>1, <3>2 DEF RemotePart
    <3>4. path \in RoutePath
      BY <3>2, <3>3 DEF RoutePath
    <3>5. path # None /\ path.remote # None
      BY <3>3, <3>4, NoneAssumption
    <3>6. Cost(path) = t.next[a].info.cost /\ LastUpdated(path, now_ms) = t.next[a].info.last_updated
      BY <3>3, <3>5 DEF Cost, LastUpdated
    <3>7. t.next[a].info = [cost |-> Cost(path), last_updated |-> LastUpdated(path, now_ms)]
      BY <3>1, <3>6 DEF NextHop, LayerRemoteInfo
    <3> QED
      BY <1>2, <1>4, <2>1, <2>3, <3>5, <3>7
  <2> QED
    BY <2>2, <2>3
<1> QED
  BY <1>3, <1>4

(* An advertisement is well typed.                                         *)
LEMMA CreateSyncType ==
    ASSUME NEW t \in Tables, NEW r \in LocalRanges, NEW now_ms \in Nat
    PROVE  CreateSync(t, r, now_ms) \in Syncs
<1>1. ASSUME NEW l \in Layers
      PROVE  CreateSync(t, r, now_ms)[l] \in LayerRemoteInfo \cup {None}
  <2> DEFINE a == IF InLocal(r, l) THEN r.end ELSE l
             s == CreateSync(t, r, now_ms)[l]
  <2>1. IF a = MODEL_LAYERS
        THEN s = [cost |-> 0, last_updated |-> now_ms]
        ELSE a \in Layers /\ s = IF t.next[a] = None THEN None ELSE t.next[a].info
    BY CreateSyncEntry
  <2>2. a \in Layers => t.next[a] \in NextHop \cup {None}
    BY DEF Tables
  <2> HIDE DEF a, s
  <2> QED
    BY <2>1, <2>2 DEF LayerRemoteInfo, NextHop, s
<1>2. CreateSync(t, r, now_ms) = [l \in Layers |-> CreateSync(t, r, now_ms)[l]]
  BY DEF CreateSync
<1> QED
  BY <1>1, <1>2 DEF Syncs

(* The protobuf form has the advertisement's type and loses nothing.       *)
LEMMA WireForm ==
    /\ \A sync \in Syncs :
          /\ ToSyncReq(sync) \in SyncReqs
          /\ \A l \in Layers :
                ToSyncReq(sync)[l].enable =>
                    /\ sync[l] # None
                    /\ ToSyncReq(sync)[l].cost = sync[l].cost
                    /\ ToSyncReq(sync)[l].last_updated = sync[l].last_updated
    /\ \A req \in SyncReqs :
          /\ FromSyncReq(req) \in Syncs
          /\ \A l \in Layers :
                FromSyncReq(req)[l] # None =>
                    /\ req[l].enable
                    /\ FromSyncReq(req)[l] = [cost         |-> req[l].cost,
                                              last_updated |-> req[l].last_updated]
<1>1. ASSUME NEW sync \in Syncs
      PROVE  /\ ToSyncReq(sync) \in SyncReqs
             /\ \A l \in Layers :
                   ToSyncReq(sync)[l].enable =>
                       /\ sync[l] # None
                       /\ ToSyncReq(sync)[l].cost = sync[l].cost
                       /\ ToSyncReq(sync)[l].last_updated = sync[l].last_updated
  <2>1. \A l \in Layers : sync[l] # None => sync[l].cost \in Nat /\ sync[l].last_updated \in Nat
    BY DEF Syncs, LayerRemoteInfo
  <2> QED
    BY <2>1 DEF ToSyncReq, SyncReqs
<1>2. ASSUME NEW req \in SyncReqs
      PROVE  /\ FromSyncReq(req) \in Syncs
             /\ \A l \in Layers :
                   FromSyncReq(req)[l] # None =>
                       /\ req[l].enable
                       /\ FromSyncReq(req)[l] = [cost         |-> req[l].cost,
                                                 last_updated |-> req[l].last_updated]
  BY DEF FromSyncReq, SyncReqs, Syncs, LayerRemoteInfo
<1> QED
  BY <1>1, <1>2

(* Capping leaves the time alone and lowers a cost no further than to the  *)
(* cap, which lies beyond every entry of Dist.                             *)
LEMMA CappedSync ==
    ASSUME NEW sync \in Syncs
    PROVE  /\ Capped(sync) \in Syncs
           /\ \A l \in Layers :
                 Capped(sync)[l] # None =>
                     /\ sync[l] # None
                     /\ Capped(sync)[l].last_updated = sync[l].last_updated
                     /\ \/ Capped(sync)[l].cost = sync[l].cost
                        \/ Capped(sync)[l].cost = MaxCost - FAKE_RTT
<1>1. MaxCost - FAKE_RTT \in Nat
  BY RoutingAssumption
<1>2. \A l \in Layers : sync[l] # None => sync[l] \in LayerRemoteInfo
  BY DEF Syncs
<1> QED
  BY <1>1, <1>2, NoneAssumption DEF Capped, Syncs, LayerRemoteInfo

-----------------------------------------------------------------------------
(* What the invariants need besides each other: connections join peers,    *)
(* and no worker advertised at a time its clock has not reached.           *)
ConnsJoinPeers == \A c \in conns : {c[1], c[2]} \in Peers

ClocksRun == \A n \in Node : emitted[n] <= NowMs(n)

(* One worker's table.                                                     *)
TableGood(n) ==
    /\ BestCached(table[n])
    /\ \A l \in Layers, m \in Node :
          table[n].remotes[l][m] # None =>
              /\ n \in up /\ <<n, m>> \in conns
              /\ Witnessed(table[n].remotes[l][m], emitted)
              /\ table[n].remotes[l][m].cost >= Dist[m][l] + FAKE_RTT

(* One advertisement sent by m.                                            *)
ReqGood(m, req, times) ==
    \A l \in Layers : req[l].enable => Witnessed(req[l], times) /\ req[l].cost >= Dist[m][l]

QueuesGood ==
    \A m, n \in Node : \A i \in 1 .. Len(syncs[m][n]) : ReqGood(m, syncs[m][n][i], emitted)

(* The inductive invariant, sorted by tables and advertisements.           *)
IInv ==
    /\ TypeOK
    /\ \A n \in Node : TableGood(n)
    /\ QueuesGood
    /\ ConnsJoinPeers
    /\ ClocksRun

(* The inductive invariant contains the invariants of Routing.             *)
LEMMA IInvSuffices ==
    IInv => TypeOK /\ NextIsBest /\ RoutesAreConnected /\ NeverRejuvenated /\ NeverUnderestimates
<1> SUFFICES ASSUME IInv
             PROVE  TypeOK /\ NextIsBest /\ RoutesAreConnected
                    /\ NeverRejuvenated /\ NeverUnderestimates
  OBVIOUS
<1>1. TypeOK /\ NextIsBest /\ RoutesAreConnected
  BY DEF IInv, TableGood, BestCached, NextIsBest, RoutesAreConnected
<1>2. NeverRejuvenated
  BY DEF IInv, TableGood, QueuesGood, ReqGood, NeverRejuvenated
<1>3. NeverUnderestimates
  BY DEF IInv, TableGood, QueuesGood, ReqGood, NeverUnderestimates
<1> QED
  BY <1>1, <1>2, <1>3

(* The initial state satisfies the invariant: every table is new, nothing  *)
(* is in flight and no one is connected.                                   *)
LEMMA InitIInv == Init => IInv
<1> SUFFICES ASSUME Init PROVE IInv
  OBVIOUS
<1> USE DEF Init
<1>1. TypeOK
  BY NewTable DEF TypeOK
<1>2. \A n \in Node : TableGood(n)
  BY NewTable DEF TableGood
<1>3. QueuesGood
  BY DEF QueuesGood
<1>4. ConnsJoinPeers /\ ClocksRun
  BY RoutingAssumption DEF ConnsJoinPeers, ClocksRun, NowMs
<1> QED
  BY <1>1, <1>2, <1>3, <1>4 DEF IInv

-----------------------------------------------------------------------------
(* What a worker broadcasts: each layer it enables was witnessed no later  *)
(* than now and costs no less than the layers allow.                       *)
LEMMA BroadcastGood ==
    ASSUME IInv, NEW n \in Node,
           NEW l \in Layers, CreateSync(table[n], Local[n], NowMs(n))[l] # None
    PROVE  LET s == CreateSync(table[n], Local[n], NowMs(n))[l]
           IN  /\ s.cost >= Dist[n][l]
               /\ \/ Witnessed(s, emitted)
                  \/ n \in Terminals /\ s.last_updated = NowMs(n)
<1> DEFINE s == CreateSync(table[n], Local[n], NowMs(n))[l]
           a == After(n, l)
<1>1. /\ table[n] \in Tables /\ Local[n] \in LocalRanges /\ NowMs(n) \in Nat
      /\ TableGood(n)
  BY RoutingAssumption DEF IInv, TypeOK, NowMs
<1>2. IF a = MODEL_LAYERS
      THEN s = [cost |-> 0, last_updated |-> NowMs(n)]
      ELSE /\ a \in Layers
           /\ s = IF table[n].next[a] = None THEN None ELSE table[n].next[a].info
  BY <1>1, CreateSyncEntry DEF After
<1>3. CASE a = MODEL_LAYERS
  <2>1. Local[n].end = MODEL_LAYERS
    BY <1>3, LayersAssumption DEF After, Layers
  <2>2. Dist[n][l] = 0
    BY <1>3, DistAssumption
  <2> QED
    BY <1>2, <1>3, <2>1, <2>2 DEF Terminals
<1>4. CASE a # MODEL_LAYERS
  <2> DEFINE x == table[n].next[a]
  <2>1. a \in Layers /\ x # None /\ s = x.info
    BY <1>2, <1>4
  <2>2. x \in UpdateBest(table[n].remotes[a]) /\ table[n].remotes[a] \in Remotes
    BY <1>1, <2>1 DEF TableGood, BestCached, Tables
  <2>3. x.dest \in Node /\ table[n].remotes[a][x.dest] # None /\ s = table[n].remotes[a][x.dest]
    BY <2>1, <2>2, UpdateBestPick
  <2>4. /\ <<n, x.dest>> \in conns
        /\ Witnessed(s, emitted)
        /\ s.cost >= Dist[x.dest][a] + FAKE_RTT
    BY <1>1, <2>1, <2>3 DEF TableGood
  <2>5. Dist[n][l] <= FAKE_RTT + Dist[x.dest][a]
    <3>1. {n, x.dest} \in Peers
      BY <2>4 DEF IInv, ConnsJoinPeers
    <3> QED
      BY <3>1, <2>3, <1>4, DistAssumption
  <2>6. s.cost \in Nat /\ Dist[n][l] \in Nat /\ Dist[x.dest][a] \in Nat /\ FAKE_RTT \in Nat
    BY <2>1, <2>2, <2>3, NoneAssumption, DistAssumption, RoutingAssumption
       DEF Remotes, LayerRemoteInfo
  <2> QED
    BY <2>4, <2>5, <2>6
<1> QED
  BY <1>3, <1>4

(* The ticker's step.                                                      *)
LEMMA TickPreserves ==
    ASSUME IInv, NEW n \in Node, Tick(n)
    PROVE  IInv'
<1> DEFINE req == ToSyncReq(CreateSync(table[n], Local[n], NowMs(n)))
<1>1. /\ table[n] \in Tables /\ Local[n] \in LocalRanges /\ NowMs(n) \in Nat
      /\ TableGood(n)
  BY RoutingAssumption DEF IInv, TypeOK, NowMs
<1>2. PICK u \in OnTick(table[n], NowMs(n)) : table' = [table EXCEPT ![n] = u]
  BY DEF Tick
<1>3. /\ u \in Tables
      /\ BestCached(u)
      /\ \A l \in Layers, k \in Node : u.remotes[l][k] \in {table[n].remotes[l][k], None}
  BY <1>1, <1>2, OnTickTable DEF TableGood
<1>4. /\ emitted' = [emitted EXCEPT ![n] = NowMs(n)]
      /\ UNCHANGED <<now, up, conns, stale, faults>>
  BY DEF Tick
<1>5. \A info : Witnessed(info, emitted) /\ info.last_updated \in Nat => Witnessed(info, emitted')
  <2>1. \A t \in Node : emitted[t] \in Nat /\ emitted'[t] \in Nat /\ emitted[t] <= emitted'[t]
    BY <1>1, <1>4 DEF IInv, TypeOK, ClocksRun
  <2>2. Terminals \subseteq Node
    BY DEF Terminals
  <2> QED
    BY <2>1, <2>2 DEF Witnessed
<1>6. req \in SyncReqs /\ ReqGood(n, req, emitted')
  <2>1. CreateSync(table[n], Local[n], NowMs(n)) \in Syncs
    BY <1>1, CreateSyncType
  <2>2. req \in SyncReqs
    BY <2>1, WireForm
  <2>3. ASSUME NEW l \in Layers, req[l].enable
        PROVE  Witnessed(req[l], emitted') /\ req[l].cost >= Dist[n][l]
    <3> DEFINE s == CreateSync(table[n], Local[n], NowMs(n))[l]
    <3>1. s # None /\ req[l].cost = s.cost /\ req[l].last_updated = s.last_updated
      BY <2>1, <2>3, WireForm
    <3>2. /\ s.cost >= Dist[n][l]
          /\ \/ Witnessed(s, emitted)
             \/ n \in Terminals /\ s.last_updated = NowMs(n)
      BY <3>1, BroadcastGood
    <3> HIDE DEF s, req
    <3>3. CASE Witnessed(s, emitted)
      <4>1. Witnessed(req[l], emitted) /\ req[l].last_updated \in Nat
        BY <3>1, <3>3, <2>2 DEF Witnessed, SyncReqs
      <4> QED
        BY <4>1, <3>1, <3>2, <1>5
    <3>4. CASE n \in Terminals /\ s.last_updated = NowMs(n)
      <4>1. req[l].last_updated <= emitted'[n]
        BY <3>1, <3>4, <1>1, <1>4 DEF IInv, TypeOK
      <4> QED
        BY <4>1, <3>1, <3>2, <3>4 DEF Witnessed
    <3> QED
      BY <3>2, <3>3, <3>4
  <2> QED
    BY <2>2, <2>3 DEF ReqGood
<1>7. \A m \in Node : \/ syncs'[n][m] = syncs[n][m]
                      \/ syncs'[n][m] = Append(syncs[n][m], req)
  BY DEF Tick, IInv, TypeOK
<1>8. \A k \in Node : k # n => syncs'[k] = syncs[k]
  BY DEF Tick, IInv, TypeOK
<1>9. \A k, m \in Node : syncs[k][m] \in Seq(SyncReqs)
  BY DEF IInv, TypeOK
<1> HIDE DEF req
<1>10. TypeOK'
  <2>1. syncs' \in [Node -> [Node -> Seq(SyncReqs)]]
    BY <1>6, <1>9 DEF Tick, IInv, TypeOK, req
  <2>2. table' \in [Node -> Tables]
    BY <1>2, <1>3 DEF IInv, TypeOK
  <2>3. emitted' \in [Node -> Nat]
    BY <1>1, <1>4 DEF IInv, TypeOK
  <2> QED
    BY <2>1, <2>2, <2>3, <1>4 DEF IInv, TypeOK
<1>11. ASSUME NEW k \in Node PROVE TableGood(k)'
  <2>1. TableGood(k) /\ table[k] \in Tables
    BY DEF IInv, TypeOK
  <2>2. \A l \in Layers, m \in Node : table'[k].remotes[l][m] \in {table[k].remotes[l][m], None}
    BY <1>2, <1>3 DEF IInv, TypeOK
  <2>3. BestCached(table'[k])
    BY <1>2, <1>3, <2>1 DEF IInv, TypeOK, TableGood
  <2>4. ASSUME NEW l \in Layers, NEW m \in Node, table'[k].remotes[l][m] # None
        PROVE  /\ k \in up' /\ <<k, m>> \in conns'
               /\ Witnessed(table'[k].remotes[l][m], emitted')
               /\ table'[k].remotes[l][m].cost >= Dist[m][l] + FAKE_RTT
    <3> DEFINE info == table[k].remotes[l][m]
    <3>1. table'[k].remotes[l][m] = info /\ info # None
      BY <2>2, <2>4
    <3>2. info.last_updated \in Nat
      BY <2>1, <3>1 DEF Tables, Remotes, LayerRemoteInfo
    <3>3. /\ k \in up /\ <<k, m>> \in conns
          /\ Witnessed(info, emitted)
          /\ info.cost >= Dist[m][l] + FAKE_RTT
      BY <2>1, <3>1 DEF TableGood
    <3>4. Witnessed(info, emitted')
      BY <3>2, <3>3, <1>5
    <3> QED
      BY <3>1, <3>3, <3>4, <1>4
  <2> QED
    BY <2>3, <2>4 DEF TableGood, BestCached
<1>12. QueuesGood'
  <2> SUFFICES ASSUME NEW k \in Node, NEW m \in Node, NEW i \in 1 .. Len(syncs'[k][m])
               PROVE  ReqGood(k, syncs'[k][m][i], emitted')
    BY DEF QueuesGood
  <2>1. \A j \in 1 .. Len(syncs[k][m]) : ReqGood(k, syncs[k][m][j], emitted')
    <3> SUFFICES ASSUME NEW j \in 1 .. Len(syncs[k][m]), NEW l \in Layers,
                        syncs[k][m][j][l].enable
                 PROVE  /\ Witnessed(syncs[k][m][j][l], emitted')
                        /\ syncs[k][m][j][l].cost >= Dist[k][l]
      BY DEF ReqGood
    <3>1. /\ Witnessed(syncs[k][m][j][l], emitted)
          /\ syncs[k][m][j][l].cost >= Dist[k][l]
      BY DEF IInv, QueuesGood, ReqGood
    <3>2. syncs[k][m][j][l].last_updated \in Nat
      <4>1. syncs[k][m][j] \in SyncReqs
        BY <1>9
      <4> QED
        BY <4>1 DEF SyncReqs
    <3> QED
      BY <3>1, <3>2, <1>5
  <2>2. CASE syncs'[k][m] = syncs[k][m]
    BY <2>1, <2>2
  <2>3. CASE k = n /\ syncs'[k][m] = Append(syncs[k][m], req)
    <3>1. \/ i \in 1 .. Len(syncs[k][m]) /\ syncs'[k][m][i] = syncs[k][m][i]
          \/ syncs'[k][m][i] = req
      BY <2>3, <1>9, <1>6
    <3> QED
      BY <3>1, <2>1, <2>3, <1>6
  <2> QED
    BY <2>2, <2>3, <1>7, <1>8
<1>13. ConnsJoinPeers' /\ ClocksRun'
  BY <1>1, <1>4 DEF IInv, TypeOK, ConnsJoinPeers, ClocksRun, NowMs
<1> QED
  BY <1>10, <1>11, <1>12, <1>13 DEF IInv

(* Taking an advertisement off a connection.                               *)
LEMMA RecvSyncPreserves ==
    ASSUME IInv, NEW n \in Node, NEW m \in Node, RecvSync(n, m)
    PROVE  IInv'
<1> DEFINE req == Head(syncs[m][n])
           sync == Capped(FromSyncReq(req))
<1>1. /\ n \in up /\ <<n, m>> \in conns
      /\ syncs[m][n] # <<>>
      /\ syncs' = [syncs EXCEPT ![m][n] = Tail(syncs[m][n])]
      /\ UNCHANGED <<now, up, conns, stale, faults, emitted>>
  BY DEF RecvSync
<1>2. \A k, j \in Node : syncs[k][j] \in Seq(SyncReqs)
  BY DEF IInv, TypeOK
<1>3. req \in SyncReqs /\ ReqGood(m, req, emitted)
  <2>1. 1 \in 1 .. Len(syncs[m][n]) /\ req = syncs[m][n][1]
    BY <1>1, <1>2
  <2> QED
    BY <2>1, <1>2 DEF IInv, QueuesGood
<1>4. PICK u \in ApplySync(table[n], m, FAKE_RTT, sync) : table' = [table EXCEPT ![n] = u]
  BY DEF RecvSync
<1>5. table[n] \in Tables /\ FAKE_RTT \in Nat /\ TableGood(n)
  BY RoutingAssumption DEF IInv, TypeOK
<1>6. /\ sync \in Syncs
      /\ \A l \in Layers :
            sync[l] # None =>
                /\ Witnessed(sync[l], emitted)
                /\ sync[l].cost >= Dist[m][l]
  <2>1. FromSyncReq(req) \in Syncs
    BY <1>3, WireForm
  <2>2. sync \in Syncs
    BY <2>1, CappedSync
  <2>3. ASSUME NEW l \in Layers, sync[l] # None
        PROVE  Witnessed(sync[l], emitted) /\ sync[l].cost >= Dist[m][l]
    <3>1. /\ FromSyncReq(req)[l] # None
          /\ sync[l].last_updated = FromSyncReq(req)[l].last_updated
          /\ \/ sync[l].cost = FromSyncReq(req)[l].cost
             \/ sync[l].cost = MaxCost - FAKE_RTT
      BY <2>1, <2>3, CappedSync
    <3>2. /\ req[l].enable
          /\ FromSyncReq(req)[l] = [cost |-> req[l].cost, last_updated |-> req[l].last_updated]
      BY <3>1, <1>3, WireForm
    <3>3. Witnessed(req[l], emitted) /\ req[l].cost >= Dist[m][l]
      BY <3>2, <1>3 DEF ReqGood
    <3>4. Witnessed(sync[l], emitted)
      BY <3>1, <3>2, <3>3 DEF Witnessed
    <3>5. MaxCost - FAKE_RTT >= Dist[m][l]
      BY DistAssumption, RoutingAssumption
    <3> QED
      BY <3>1, <3>2, <3>3, <3>4, <3>5
  <2> QED
    BY <2>2, <2>3
<1> HIDE DEF sync, req
<1>7. /\ u \in Tables
      /\ BestCached(u)
      /\ \A l \in Layers, k \in Node : k # m => u.remotes[l][k] = table[n].remotes[l][k]
      /\ \A l \in Layers : sync[l] = None => u.remotes[l][m] = None
      /\ \A l \in Layers :
            sync[l] # None =>
                u.remotes[l][m] = [cost         |-> sync[l].cost + FAKE_RTT,
                                   last_updated |-> sync[l].last_updated]
  <2>1. sync \in Syncs
    BY <1>6
  <2> QED
    BY <2>1, <1>4, <1>5, ApplySyncTable
<1>8. TypeOK'
  <2>1. syncs' \in [Node -> [Node -> Seq(SyncReqs)]]
    BY <1>1, <1>2 DEF IInv, TypeOK
  <2>2. table' \in [Node -> Tables]
    BY <1>4, <1>7 DEF IInv, TypeOK
  <2> QED
    BY <2>1, <2>2, <1>1 DEF IInv, TypeOK
<1>9. ASSUME NEW k \in Node PROVE TableGood(k)'
  <2>1. CASE k # n
    <3>1. table'[k] = table[k]
      BY <2>1, <1>4 DEF IInv, TypeOK
    <3> QED
      BY <3>1, <1>1 DEF IInv, TableGood
  <2>2. CASE k = n
    <3>1. table'[k] = u
      BY <2>2, <1>4 DEF IInv, TypeOK
    <3>2. ASSUME NEW l \in Layers, NEW j \in Node, u.remotes[l][j] # None
          PROVE  /\ n \in up /\ <<n, j>> \in conns
                 /\ Witnessed(u.remotes[l][j], emitted)
                 /\ u.remotes[l][j].cost >= Dist[j][l] + FAKE_RTT
      <4>1. CASE j # m
        <5>1. u.remotes[l][j] = table[n].remotes[l][j]
          BY <4>1, <1>7
        <5> QED
          BY <5>1, <3>2, <1>5 DEF TableGood
      <4>2. CASE j = m
        <5>1. /\ sync[l] # None
              /\ u.remotes[l][j] = [cost |-> sync[l].cost + FAKE_RTT,
                                    last_updated |-> sync[l].last_updated]
          BY <4>2, <3>2, <1>7
        <5>2. sync[l].cost \in Nat /\ Dist[m][l] \in Nat
          BY <5>1, <1>6, DistAssumption DEF Syncs, LayerRemoteInfo
        <5>3. Witnessed(u.remotes[l][j], emitted)
          BY <5>1, <1>6 DEF Witnessed
        <5> QED
          BY <5>1, <5>2, <5>3, <4>2, <1>1, <1>5, <1>6
      <4> QED
        BY <4>1, <4>2
    <3> QED
      BY <2>2, <3>1, <3>2, <1>1, <1>7 DEF TableGood, BestCached
  <2> QED
    BY <2>1, <2>2
<1>10. QueuesGood'
  <2> SUFFICES ASSUME NEW k \in Node, NEW j \in Node, NEW i \in 1 .. Len(syncs'[k][j])
               PROVE  ReqGood(k, syncs'[k][j][i], emitted)
    BY <1>1 DEF QueuesGood
  <2>1. CASE k = m /\ j = n
    <3>1. syncs'[k][j] = Tail(syncs[k][j])
      BY <2>1, <1>1 DEF IInv, TypeOK
    <3>2. i + 1 \in 1 .. Len(syncs[k][j]) /\ syncs'[k][j][i] = syncs[k][j][i + 1]
      BY <2>1, <3>1, <1>1, <1>2
    <3> QED
      BY <3>2 DEF IInv, QueuesGood
  <2>2. CASE ~(k = m /\ j = n)
    <3>1. syncs'[k][j] = syncs[k][j]
      BY <2>2, <1>1 DEF IInv, TypeOK
    <3> QED
      BY <3>1 DEF IInv, QueuesGood
  <2> QED
    BY <2>1, <2>2
<1>11. ConnsJoinPeers' /\ ClocksRun'
  BY <1>1 DEF IInv, ConnsJoinPeers, ClocksRun, NowMs
<1> QED
  BY <1>8, <1>9, <1>10, <1>11 DEF IInv

(* A connection is reported lost, whether the one in use or one a newer    *)
(* connection replaced: the table forgets the neighbour, and nothing is    *)
(* added to what is in flight.                                             *)
LEMMA DisconnectedPreserves ==
    ASSUME IInv, NEW n \in Node, NEW m \in Node,
           Disconnected(n, m) \/ StaleDisconnected(n, m)
    PROVE  IInv'
<1>1. PICK u \in OnDisconnected(table[n], m) : table' = [table EXCEPT ![n] = u]
  BY DEF Disconnected, StaleDisconnected
<1>2. /\ UNCHANGED <<now, up, emitted>>
      /\ conns' \subseteq conns
      /\ conns \ {<<n, m>>} \subseteq conns'
      /\ stale' \subseteq stale
      /\ faults' \in {faults, faults + 1}
      /\ syncs' = syncs \/ syncs' = [syncs EXCEPT ![m][n] = <<>>]
  <2>1. CASE Disconnected(n, m)
    BY <2>1 DEF Disconnected
  <2>2. CASE StaleDisconnected(n, m)
    BY <2>2 DEF StaleDisconnected
  <2> QED
    BY <2>1, <2>2
<1>3. table[n] \in Tables /\ TableGood(n)
  BY DEF IInv, TypeOK
<1>4. /\ u \in Tables
      /\ BestCached(u)
      /\ \A l \in Layers, k \in Node :
            u.remotes[l][k] = IF k = m THEN None ELSE table[n].remotes[l][k]
  BY <1>1, <1>3, OnDisconnectedTable DEF TableGood
<1>5. /\ syncs' \in [Node -> [Node -> Seq(SyncReqs)]]
      /\ \A k, j \in Node : syncs'[k][j] = syncs[k][j] \/ syncs'[k][j] = <<>>
  <2>1. syncs \in [Node -> [Node -> Seq(SyncReqs)]]
    BY DEF IInv, TypeOK
  <2>2. CASE syncs' = syncs
    BY <2>1, <2>2
  <2>3. CASE syncs' = [syncs EXCEPT ![m][n] = <<>>]
    <3>1. <<>> \in Seq(SyncReqs)
      OBVIOUS
    <3> QED
      BY <2>1, <2>3, <3>1
  <2> QED
    BY <2>2, <2>3, <1>2
<1>6. TypeOK'
  <2>1. table' \in [Node -> Tables]
    BY <1>1, <1>4 DEF IInv, TypeOK
  <2>2. now' \in Nat /\ up' \subseteq Node /\ emitted' \in [Node -> Nat] /\ faults' \in Nat
    BY <1>2 DEF IInv, TypeOK
  <2>3. conns' \subseteq Node \X Node /\ stale' \subseteq Node \X Node
    <3>1. conns \subseteq Node \X Node /\ stale \subseteq Node \X Node
      BY DEF IInv, TypeOK
    <3> QED
      BY <3>1, <1>2
  <2> QED
    BY <2>1, <2>2, <2>3, <1>5 DEF TypeOK
<1>7. ASSUME NEW k \in Node PROVE TableGood(k)'
  <2>1. CASE k # n
    <3>1. table'[k] = table[k]
      BY <2>1, <1>1 DEF IInv, TypeOK
    <3>2. \A j \in Node : <<k, j>> \in conns => <<k, j>> \in conns'
      BY <2>1, <1>2
    <3> QED
      BY <3>1, <3>2, <1>2 DEF IInv, TableGood
  <2>2. CASE k = n
    <3>1. table'[k] = u
      BY <2>2, <1>1 DEF IInv, TypeOK
    <3>2. ASSUME NEW l \in Layers, NEW j \in Node, u.remotes[l][j] # None
          PROVE  /\ n \in up /\ <<n, j>> \in conns'
                 /\ Witnessed(u.remotes[l][j], emitted)
                 /\ u.remotes[l][j].cost >= Dist[j][l] + FAKE_RTT
      <4>1. j # m /\ u.remotes[l][j] = table[n].remotes[l][j]
        BY <3>2, <1>4
      <4> QED
        BY <4>1, <3>2, <1>2, <1>3 DEF TableGood
    <3> QED
      BY <2>2, <3>1, <3>2, <1>2, <1>4 DEF TableGood, BestCached
  <2> QED
    BY <2>1, <2>2
<1>8. QueuesGood'
  <2> SUFFICES ASSUME NEW k \in Node, NEW j \in Node, NEW i \in 1 .. Len(syncs'[k][j])
               PROVE  ReqGood(k, syncs'[k][j][i], emitted)
    BY <1>2 DEF QueuesGood
  <2>1. syncs'[k][j] = syncs[k][j]
    BY <1>5
  <2> QED
    BY <2>1 DEF IInv, QueuesGood
<1>9. ConnsJoinPeers' /\ ClocksRun'
  BY <1>2 DEF IInv, ConnsJoinPeers, ClocksRun, NowMs
<1> QED
  BY <1>6, <1>7, <1>8, <1>9 DEF IInv

(* A connection opens between peers.                                       *)
LEMMA ConnectPreserves ==
    ASSUME IInv, NEW n \in Node, NEW m \in Node, Connect(n, m)
    PROVE  IInv'
<1>1. /\ {n, m} \in Peers
      /\ conns' = conns \cup {<<n, m>>, <<m, n>>}
      /\ stale' = stale \/ stale' = stale \cup {<<m, n>>}
      /\ UNCHANGED <<now, up, table, syncs, faults, emitted>>
  BY DEF Connect
<1>2. TypeOK'
  BY <1>1 DEF IInv, TypeOK
<1>3. \A k \in Node : TableGood(k)'
  BY <1>1 DEF IInv, TableGood
<1>4. QueuesGood' /\ ClocksRun'
  BY <1>1 DEF IInv, QueuesGood, ClocksRun, NowMs
<1>5. ConnsJoinPeers'
  <2> SUFFICES ASSUME NEW c \in conns' PROVE {c[1], c[2]} \in Peers
    BY DEF ConnsJoinPeers
  <2>1. CASE c \in conns
    BY <2>1 DEF IInv, ConnsJoinPeers
  <2>2. CASE c = <<n, m>>
    BY <2>2, <1>1
  <2>3. CASE c = <<m, n>>
    <3>1. {c[1], c[2]} = {n, m}
      BY <2>3
    <3> QED
      BY <3>1, <1>1
  <2> QED
    BY <2>1, <2>2, <2>3, <1>1
<1> QED
  BY <1>2, <1>3, <1>4, <1>5 DEF IInv

(* A worker stops and its table with it.                                   *)
LEMMA StopPreserves ==
    ASSUME IInv, NEW n \in Node, Stop(n)
    PROVE  IInv'
<1>1. /\ up' = up \ {n}
      /\ table' = [table EXCEPT ![n] = New]
      /\ conns' = {c \in conns : c[1] # n}
      /\ stale' = {c \in stale : c[1] # n}
      /\ syncs' = [k \in Node |-> [syncs[k] EXCEPT ![n] = <<>>]]
      /\ faults' = faults + 1
      /\ UNCHANGED <<now, emitted>>
  BY DEF Stop
<1>2. \A k, j \in Node : syncs'[k][j] = syncs[k][j] \/ syncs'[k][j] = <<>>
  BY <1>1 DEF IInv, TypeOK
<1>3. TypeOK'
  <2>1. table' \in [Node -> Tables]
    BY <1>1, NewTable DEF IInv, TypeOK
  <2>2. syncs' \in [Node -> [Node -> Seq(SyncReqs)]]
    <3>1. <<>> \in Seq(SyncReqs)
      OBVIOUS
    <3> QED
      BY <3>1, <1>1 DEF IInv, TypeOK
  <2> QED
    BY <2>1, <2>2, <1>1 DEF IInv, TypeOK
<1>4. ASSUME NEW k \in Node PROVE TableGood(k)'
  <2>1. CASE k = n
    <3>1. table'[k] = New
      BY <2>1, <1>1 DEF IInv, TypeOK
    <3> QED
      BY <3>1, NewTable DEF TableGood, BestCached
  <2>2. CASE k # n
    <3>1. table'[k] = table[k] /\ (k \in up => k \in up')
      BY <2>2, <1>1 DEF IInv, TypeOK
    <3>2. \A j \in Node : <<k, j>> \in conns => <<k, j>> \in conns'
      BY <2>2, <1>1
    <3> QED
      BY <3>1, <3>2, <1>1 DEF IInv, TableGood
  <2> QED
    BY <2>1, <2>2
<1>5. QueuesGood'
  <2> SUFFICES ASSUME NEW k \in Node, NEW j \in Node, NEW i \in 1 .. Len(syncs'[k][j])
               PROVE  ReqGood(k, syncs'[k][j][i], emitted)
    BY <1>1 DEF QueuesGood
  <2>1. syncs'[k][j] = syncs[k][j]
    BY <1>2
  <2> QED
    BY <2>1 DEF IInv, QueuesGood
<1>6. ConnsJoinPeers' /\ ClocksRun'
  BY <1>1 DEF IInv, ConnsJoinPeers, ClocksRun, NowMs
<1> QED
  BY <1>3, <1>4, <1>5, <1>6 DEF IInv

(* A worker starts again, or time passes.                                  *)
LEMMA StartOrClockPreserves ==
    ASSUME IInv, Clock \/ (\E n \in Node : Start(n))
    PROVE  IInv'
<1>1. /\ UNCHANGED <<table, conns, stale, syncs, faults, emitted>>
      /\ up \subseteq up' /\ up' \subseteq Node
      /\ now' \in Nat /\ now <= now'
  BY RoutingAssumption DEF Clock, Start, IInv, TypeOK
<1>2. TypeOK'
  BY <1>1 DEF IInv, TypeOK
<1>3. \A k \in Node : TableGood(k)'
  BY <1>1 DEF IInv, TableGood
<1>4. QueuesGood' /\ ConnsJoinPeers'
  BY <1>1 DEF IInv, QueuesGood, ConnsJoinPeers
<1>5. ClocksRun'
  BY <1>1, RoutingAssumption DEF IInv, TypeOK, ClocksRun, NowMs
<1> QED
  BY <1>2, <1>3, <1>4, <1>5 DEF IInv

-----------------------------------------------------------------------------
(* No step of any worker or of the network breaks the invariant.           *)
LEMMA StepIInv == IInv /\ [Next]_vars => IInv'
<1> SUFFICES ASSUME IInv, [Next]_vars PROVE IInv'
  OBVIOUS
<1>1. ASSUME NEW n \in Node, Tick(n) PROVE IInv'
  BY <1>1, TickPreserves
<1>2. ASSUME NEW n \in Node, Stop(n) PROVE IInv'
  BY <1>2, StopPreserves
<1>3. ASSUME Clock \/ (\E n \in Node : Start(n)) PROVE IInv'
  BY <1>3, StartOrClockPreserves
<1>4. ASSUME NEW n \in Node, NEW m \in Node, RecvSync(n, m) PROVE IInv'
  BY <1>4, RecvSyncPreserves
<1>5. ASSUME NEW n \in Node, NEW m \in Node,
             Disconnected(n, m) \/ StaleDisconnected(n, m)
      PROVE  IInv'
  BY <1>5, DisconnectedPreserves
<1>6. ASSUME NEW n \in Node, NEW m \in Node, Connect(n, m) PROVE IInv'
  BY <1>6, ConnectPreserves
<1>7. CASE UNCHANGED vars
  BY <1>7 DEF vars, IInv, TypeOK, TableGood, QueuesGood, ConnsJoinPeers, ClocksRun, NowMs
<1> QED
  BY <1>1, <1>2, <1>3, <1>4, <1>5, <1>6, <1>7 DEF Next

(* The inductive invariant holds throughout.                               *)
THEOREM RoutingInvariant == Spec => []IInv
  BY InitIInv, StepIInv, PTL DEF Spec

(* Every variable keeps its type, whatever the workers, layers and faults. *)
THEOREM RoutingTypeCorrect == Spec => []TypeOK
  BY RoutingInvariant, IInvSuffices, PTL

(* The hop select_next reads from its cache is always a cheapest live      *)
(* entry of the table, however syncs, ticks and losses interleave.         *)
THEOREM RoutingNextIsBest == Spec => []NextIsBest
  BY RoutingInvariant, IInvSuffices, PTL

(* A table holds routes only through connections its worker holds.         *)
THEOREM RoutingRoutesAreConnected == Spec => []RoutesAreConnected
  BY RoutingInvariant, IInvSuffices, PTL

(* No route, in a table or in flight, is younger than the last time a      *)
(* worker with the final layers advertised them.                           *)
THEOREM RoutingNeverRejuvenated == Spec => []NeverRejuvenated
  BY RoutingInvariant, IInvSuffices, PTL

(* No route promises a chain cheaper than the layers and hops allow.       *)
THEOREM RoutingNeverUnderestimates == Spec => []NeverUnderestimates
  BY RoutingInvariant, IInvSuffices, PTL
=============================================================================
