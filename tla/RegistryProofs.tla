--------------------------- MODULE RegistryProofs ---------------------------
(***************************************************************************)
(* Proofs about Registry, for any number of connections, queries and       *)
(* workers and any capacities.  What the main loop knows lags behind the   *)
(* connections by what is in the channel, so the invariant relates three:  *)
(* the connections, the channel, and the sessions.                         *)
(***************************************************************************)
EXTENDS Registry, SequenceTheorems, TLAPS

(* Connections of which the channel holds an event, the Start or the End.  *)
Speaking == {w \in Ws : \E i \in DOMAIN stream : stream[i].ws = w}
Starting == {w \in Ws : \E i \in DOMAIN stream :
                            stream[i].ws = w /\ stream[i].event.type = "Start"}
Ending   == {w \in Ws : \E i \in DOMAIN stream :
                            stream[i].ws = w /\ stream[i].event.type = "End"}

(* Of what the channel holds of a connection, Start is first and End last. *)
InOrder ==
    \A i, j \in DOMAIN stream :
        i < j /\ stream[i].ws = stream[j].ws /\ stream[i].ws \in Ws
            => stream[j].event.type # "Start" /\ stream[i].event.type # "End"

(* The channel and the connections: nothing comes from a connection before *)
(* it is accepted, and its End is the last of it.                          *)
Orderly ==
    /\ InOrder
    /\ \A w \in Ws : /\ phase[w] = "closed" => w \notin Speaking
                     /\ w \in Ending => phase[w] = "gone"
                     /\ phase[w] = "gone" /\ w \in Speaking => w \in Ending

(* Connections that the main loop knows of or will hear of. *)
Live == {w \in Ws : phase[w] = "run"} \cup Speaking

(* The sessions, while no worker has two live connections: a live one is   *)
(* registered exactly when its Start was taken from the channel, and who   *)
(* is registered has a live connection, which the main loop writes to.     *)
Tracked ==
    /\ ~panicked
    /\ \A v, w \in Live : NodeOf[v] = NodeOf[w] => v = w
    /\ \A w \in Live :
          IF w \in Starting THEN NodeOf[w] \notin nodes
          ELSE NodeOf[w] \in nodes /\ streams_tx[NodeOf[w]] = w
    /\ \A n \in nodes :
          /\ streams_tx[n] \in Live /\ NodeOf[streams_tx[n]] = n
          /\ streams_tx[n] \notin Starting
    /\ \A n \in Node \ nodes : streams_tx[n] = None

IInv == TypeOK /\ EveryPairIntroduced /\ Orderly /\ (~overlapped => Tracked)

-----------------------------------------------------------------------------
(* The channel.                                                            *)

LEMMA NoneLeft == \A S : <<>> \in Seq(S) /\ DOMAIN <<>> = {} /\ Len(<<>>) = 0
OBVIOUS

LEMMA HeadTail ==
    ASSUME NEW S, NEW q \in Seq(S), q # <<>>
    PROVE  /\ 1 \in DOMAIN q /\ Head(q) = q[1] /\ Head(q) \in S
           /\ Tail(q) \in Seq(S)
           /\ \A i \in DOMAIN Tail(q) : i + 1 \in DOMAIN q /\ Tail(q)[i] = q[i + 1]
           /\ \A i \in DOMAIN q : i # 1 => i - 1 \in DOMAIN Tail(q) /\ Tail(q)[i - 1] = q[i]
OBVIOUS

LEMMA Appended ==
    ASSUME NEW S, NEW q \in Seq(S), NEW e \in S
    PROVE  /\ Append(q, e) \in Seq(S)
           /\ \A i \in DOMAIN q : i \in DOMAIN Append(q, e) /\ Append(q, e)[i] = q[i]
           /\ Len(q) + 1 \in DOMAIN Append(q, e) /\ Append(q, e)[Len(q) + 1] = e
           /\ \A i \in DOMAIN Append(q, e) :
                 i \in Nat /\ (i \in DOMAIN q \/ i = Len(q) + 1)
           /\ \A i \in DOMAIN q : i \in Nat /\ i < Len(q) + 1
           /\ Len(q) \in Nat
OBVIOUS

LEMMA Removed ==
    ASSUME NEW S, NEW q \in Seq(S), NEW d \in DOMAIN q
    PROVE  /\ RemoveAt(q, d) \in Seq(S)
           /\ \A i \in DOMAIN RemoveAt(q, d) :
                 /\ i \in Nat
                 /\ i < d => i \in DOMAIN q /\ RemoveAt(q, d)[i] = q[i]
                 /\ ~(i < d) => i + 1 \in DOMAIN q /\ RemoveAt(q, d)[i] = q[i + 1]
           /\ \A i \in DOMAIN q :
                 /\ i \in Nat
                 /\ i < d => i \in DOMAIN RemoveAt(q, d) /\ RemoveAt(q, d)[i] = q[i]
                 /\ i > d => i - 1 \in DOMAIN RemoveAt(q, d) /\ RemoveAt(q, d)[i - 1] = q[i]
<1> DEFINE a == SubSeq(q, 1, d - 1)
           b == SubSeq(q, d + 1, Len(q))
<1>1. d \in Nat /\ 1 <= d /\ d <= Len(q) /\ Len(q) \in Nat /\ DOMAIN q = 1 .. Len(q)
  OBVIOUS
<1>2. a \in Seq(S) /\ Len(a) = d - 1 /\ \A i \in 1 .. d - 1 : a[i] = q[i]
  BY <1>1
<1>3. b \in Seq(S) /\ Len(b) = Len(q) - d /\ \A i \in 1 .. Len(q) - d : b[i] = q[i + d]
  BY <1>1
<1> HIDE DEF a, b
<1>4. /\ a \o b \in Seq(S) /\ Len(a \o b) = Len(q) - 1
      /\ \A i \in 1 .. Len(q) - 1 :
            (a \o b)[i] = IF i <= d - 1 THEN a[i] ELSE b[i - (d - 1)]
  <2>1. /\ a \o b \in Seq(S) /\ Len(a \o b) = Len(a) + Len(b)
        /\ \A i \in 1 .. Len(a) + Len(b) :
              (a \o b)[i] = IF i <= Len(a) THEN a[i] ELSE b[i - Len(a)]
    BY <1>2, <1>3, ConcatProperties
  <2>2. Len(a) = d - 1 /\ Len(a) + Len(b) = Len(q) - 1
    BY <1>1, <1>2, <1>3
  <2> QED
    BY <2>1, <2>2
<1> DEFINE c == a \o b
<1>5. c \in Seq(S) /\ Len(c) = Len(q) - 1 /\ DOMAIN c = 1 .. Len(q) - 1
  BY <1>4
<1>6. \A i \in 1 .. Len(q) - 1 : c[i] = IF i <= d - 1 THEN a[i] ELSE b[i - (d - 1)]
  BY <1>4
<1>7. RemoveAt(q, d) = c
  BY DEF RemoveAt, a, b
<1> HIDE DEF c
<1>8. \A i \in 1 .. Len(q) - 1 : c[i] = IF i < d THEN q[i] ELSE q[i + 1]
  <2> SUFFICES ASSUME NEW i \in 1 .. Len(q) - 1
               PROVE  c[i] = IF i < d THEN q[i] ELSE q[i + 1]
    OBVIOUS
  <2>1. CASE i < d
    BY <1>1, <1>2, <1>6, <2>1
  <2>2. CASE ~(i < d)
    <3>1. i - (d - 1) \in 1 .. Len(q) - d /\ (i - (d - 1)) + d = i + 1 /\ ~(i <= d - 1)
      BY <1>1, <2>2
    <3>2. b[i - (d - 1)] = q[i + 1]
      BY <1>3, <3>1
    <3> QED
      BY <1>6, <2>2, <3>1, <3>2
  <2> QED
    BY <2>1, <2>2
<1>9. ASSUME NEW i \in 1 .. Len(q) - 1
      PROVE  /\ i < d => i \in DOMAIN q /\ c[i] = q[i]
             /\ ~(i < d) => i + 1 \in DOMAIN q /\ c[i] = q[i + 1]
  BY <1>1, <1>8
<1>10. ASSUME NEW i \in 1 .. Len(q)
       PROVE  /\ i < d => i \in DOMAIN c /\ c[i] = q[i]
              /\ i > d => i - 1 \in DOMAIN c /\ c[i - 1] = q[i]
  <2>1. CASE i < d
    BY <1>1, <1>5, <1>8, <2>1
  <2>2. CASE i > d
    <3>1. i - 1 \in 1 .. Len(q) - 1 /\ ~(i - 1 < d) /\ (i - 1) + 1 = i
      BY <1>1, <2>2
    <3> QED
      BY <1>1, <1>5, <1>8, <2>2, <3>1
  <2> QED
    BY <2>1, <2>2
<1> QED
  BY <1>1, <1>5, <1>7, <1>9, <1>10

LEMMA EventFacts ==
    ASSUME NEW x \in StreamEvent
    PROVE  /\ x.ws \in Ws \cup Queries
           /\ x.event.type \in {"Start", "Update", "Stats", "Relay", "End", "Query"}
           /\ x.ws \in Ws <=> x.event.type # "Query"
           /\ x.event.type = "Relay" => x.event.dest \in Node
BY RegistryAssumption DEF StreamEvent, Events
(* A task or a handler sends to the main loop. *)
LEMMA SentEvent ==
    ASSUME TypeOK, NEW w \in Ws, NEW e \in Events \cup [type : {"Start", "End"}], Send(w, e)
    PROVE  /\ stream' \in Seq(StreamEvent)
           /\ Speaking' = Speaking \cup {w}
           /\ Starting' = IF e.type = "Start" THEN Starting \cup {w} ELSE Starting
           /\ Ending' = IF e.type = "End" THEN Ending \cup {w} ELSE Ending
           /\ InOrder /\ w \notin Ending /\ (e.type = "Start" => w \notin Speaking) => InOrder'
<1> DEFINE x == [ws |-> w, event |-> e]
<1>1. /\ x \in StreamEvent /\ stream \in Seq(StreamEvent) /\ stream' = Append(stream, x)
      /\ x.ws = w /\ x.event = e
  BY DEF StreamEvent, TypeOK, Send
<1> HIDE DEF x
<1>2. /\ stream' \in Seq(StreamEvent)
      /\ \A i \in DOMAIN stream : i \in DOMAIN stream' /\ stream'[i] = stream[i]
      /\ Len(stream) + 1 \in DOMAIN stream' /\ stream'[Len(stream) + 1] = x
      /\ \A i \in DOMAIN stream' : i \in Nat /\ (i \in DOMAIN stream \/ i = Len(stream) + 1)
      /\ \A i \in DOMAIN stream : i \in Nat /\ i < Len(stream) + 1
      /\ Len(stream) \in Nat
  BY <1>1, Appended
<1>3. Speaking' = Speaking \cup {w}
  BY <1>1, <1>2 DEF Speaking
<1>4. Starting' = IF e.type = "Start" THEN Starting \cup {w} ELSE Starting
  BY <1>1, <1>2 DEF Starting
<1>5. Ending' = IF e.type = "End" THEN Ending \cup {w} ELSE Ending
  BY <1>1, <1>2 DEF Ending
<1>6. ASSUME InOrder, w \notin Ending, e.type = "Start" => w \notin Speaking
      PROVE  InOrder'
  <2> SUFFICES ASSUME NEW i \in DOMAIN stream', NEW j \in DOMAIN stream', i < j,
                      stream'[i].ws = stream'[j].ws, stream'[i].ws \in Ws
               PROVE  stream'[j].event.type # "Start" /\ stream'[i].event.type # "End"
    BY DEF InOrder
  <2>1. i \in DOMAIN stream
    BY <1>2
  <2>2. CASE j \in DOMAIN stream
    BY <1>2, <1>6, <2>1, <2>2 DEF InOrder
  <2>3. CASE j = Len(stream) + 1
    <3>1. stream[i].ws = w /\ stream'[j].event = e
      BY <1>1, <1>2, <2>1, <2>3
    <3> QED
      BY <1>2, <1>6, <2>1, <3>1 DEF Speaking, Ending
  <2> QED
    BY <1>2, <2>2, <2>3
<1> QED
  BY <1>2, <1>3, <1>4, <1>5, <1>6

LEMMA SentQuery ==
    ASSUME TypeOK, NEW q \in Queries, Send(q, [type |-> "Query"])
    PROVE  /\ stream' \in Seq(StreamEvent)
           /\ Speaking' = Speaking /\ Starting' = Starting /\ Ending' = Ending
           /\ InOrder => InOrder'
<1> DEFINE x == [ws |-> q, event |-> [type |-> "Query"]]
<1>1. /\ x \in StreamEvent /\ stream \in Seq(StreamEvent) /\ stream' = Append(stream, x)
      /\ x.ws \notin Ws
  BY RegistryAssumption DEF StreamEvent, TypeOK, Send
<1> HIDE DEF x
<1>2. /\ stream' \in Seq(StreamEvent)
      /\ \A i \in DOMAIN stream : i \in DOMAIN stream' /\ stream'[i] = stream[i]
      /\ Len(stream) + 1 \in DOMAIN stream' /\ stream'[Len(stream) + 1] = x
      /\ \A i \in DOMAIN stream' : i \in Nat /\ (i \in DOMAIN stream \/ i = Len(stream) + 1)
  BY <1>1, Appended
<1>3. Speaking' = Speaking /\ Starting' = Starting /\ Ending' = Ending
  BY <1>1, <1>2 DEF Speaking, Starting, Ending
<1>4. InOrder => InOrder'
  BY <1>1, <1>2 DEF InOrder
<1> QED
  BY <1>2, <1>3, <1>4

(* A handler that is dropped while its send waits takes its event along.   *)
LEMMA UndoneQuery ==
    ASSUME TypeOK, NEW d \in DOMAIN stream, stream[d].ws \notin Ws, stream' = RemoveAt(stream, d)
    PROVE  /\ stream' \in Seq(StreamEvent)
           /\ Speaking' = Speaking /\ Starting' = Starting /\ Ending' = Ending
           /\ InOrder => InOrder'
<1>1. stream \in Seq(StreamEvent) /\ d \in Nat
  BY DEF TypeOK
<1>2. /\ stream' \in Seq(StreamEvent)
      /\ \A i \in DOMAIN stream' :
            /\ i \in Nat
            /\ i < d => i \in DOMAIN stream /\ stream'[i] = stream[i]
            /\ ~(i < d) => i + 1 \in DOMAIN stream /\ stream'[i] = stream[i + 1]
      /\ \A i \in DOMAIN stream :
            /\ i \in Nat
            /\ i < d => i \in DOMAIN stream' /\ stream'[i] = stream[i]
            /\ i > d => i - 1 \in DOMAIN stream' /\ stream'[i - 1] = stream[i]
  BY <1>1, Removed
<1>3. \A i \in DOMAIN stream' : \E k \in DOMAIN stream : stream'[i] = stream[k]
  BY <1>2
<1>4. \A k \in DOMAIN stream : k = d \/ \E i \in DOMAIN stream' : stream'[i] = stream[k]
  BY <1>1, <1>2
<1>5. Speaking' = Speaking
  BY <1>3, <1>4 DEF Speaking
<1>6. Starting' = Starting /\ Ending' = Ending
  BY <1>3, <1>4 DEF Starting, Ending
<1>7. InOrder => InOrder'
  <2> SUFFICES ASSUME InOrder, NEW i \in DOMAIN stream', NEW j \in DOMAIN stream', i < j,
                      stream'[i].ws = stream'[j].ws, stream'[i].ws \in Ws
               PROVE  stream'[j].event.type # "Start" /\ stream'[i].event.type # "End"
    BY DEF InOrder
  <2>1. PICK k, l \in DOMAIN stream : k < l /\ stream'[i] = stream[k] /\ stream'[j] = stream[l]
    BY <1>1, <1>2
  <2> QED
    BY <2>1 DEF InOrder
<1> QED
  BY <1>2, <1>5, <1>6, <1>7

(* The main loop takes an event from the channel: Start is the first event *)
(* of its connection there, and End the last.                              *)
LEMMA TakenEvent ==
    ASSUME TypeOK, InOrder, stream # <<>>, stream' = Tail(stream)
    PROVE  /\ stream' \in Seq(StreamEvent) /\ Head(stream) \in StreamEvent
           /\ InOrder'
           /\ Head(stream).ws \in Ws => Head(stream).ws \in Speaking
           /\ Speaking \ {Head(stream).ws} \subseteq Speaking' /\ Speaking' \subseteq Speaking
           /\ Starting' = IF Head(stream).event.type = "Start"
                          THEN Starting \ {Head(stream).ws} ELSE Starting
           /\ Ending' = IF Head(stream).event.type = "End"
                        THEN Ending \ {Head(stream).ws} ELSE Ending
           /\ Head(stream).event.type = "Start" => Head(stream).ws \in Starting
           /\ Head(stream).event.type \in {"Update", "Stats", "Relay", "End"} =>
                 Head(stream).ws \notin Starting
           /\ Head(stream).event.type = "End" =>
                 Head(stream).ws \in Ending /\ Head(stream).ws \notin Speaking'
<1> DEFINE x == Head(stream)
<1>1. stream \in Seq(StreamEvent)
  BY DEF TypeOK
<1>2. /\ 1 \in DOMAIN stream /\ x = stream[1] /\ x \in StreamEvent
      /\ stream' \in Seq(StreamEvent)
      /\ \A i \in DOMAIN stream' : i + 1 \in DOMAIN stream /\ stream'[i] = stream[i + 1]
      /\ \A i \in DOMAIN stream : i # 1 => i - 1 \in DOMAIN stream' /\ stream'[i - 1] = stream[i]
  BY <1>1, HeadTail
<1>3. /\ \A i \in DOMAIN stream' : i \in Nat /\ 1 < i + 1
      /\ \A i \in DOMAIN stream : i \in Nat /\ (i # 1 => 1 < i)
  BY <1>1, <1>2
<1>4. x.ws \in Ws <=> x.event.type # "Query"
  BY <1>2, EventFacts
<1> HIDE DEF x
<1>5. InOrder'
  <2> SUFFICES ASSUME NEW i \in DOMAIN stream', NEW j \in DOMAIN stream', i < j,
                      stream'[i].ws = stream'[j].ws, stream'[i].ws \in Ws
               PROVE  stream'[j].event.type # "Start" /\ stream'[i].event.type # "End"
    BY DEF InOrder
  <2>1. i + 1 < j + 1
    BY <1>3
  <2> QED
    BY <1>2, <2>1 DEF InOrder
<1>6. x.ws \in Ws => x.ws \in Speaking
  BY <1>2 DEF Speaking
<1>7. \A i \in DOMAIN stream' : \E k \in DOMAIN stream : k # 1 /\ 1 < k /\ stream'[i] = stream[k]
  BY <1>2, <1>3
<1>8. \A k \in DOMAIN stream : k = 1 \/ \E i \in DOMAIN stream' : stream'[i] = stream[k]
  BY <1>2
<1>9. Speaking \ {x.ws} \subseteq Speaking' /\ Speaking' \subseteq Speaking
  <2>1. ASSUME NEW v \in Speaking, v # x.ws PROVE v \in Speaking'
    <3>1. PICK k \in DOMAIN stream : stream[k].ws = v
      BY DEF Speaking
    <3> QED
      BY <1>2, <1>8, <2>1, <3>1 DEF Speaking
  <2>2. Speaking' \subseteq Speaking
    BY <1>7 DEF Speaking
  <2> QED
    BY <2>1, <2>2
<1>10. \A k \in DOMAIN stream : k # 1 /\ stream[k].ws = x.ws /\ x.ws \in Ws =>
          stream[k].event.type # "Start" /\ x.event.type # "End"
  BY <1>2, <1>3 DEF InOrder
<1>11. Starting' = IF x.event.type = "Start" THEN Starting \ {x.ws} ELSE Starting
  <2>1. ASSUME NEW v \in Starting, ~(x.event.type = "Start" /\ v = x.ws) PROVE v \in Starting'
    <3>1. PICK k \in DOMAIN stream : stream[k].ws = v /\ stream[k].event.type = "Start"
      BY DEF Starting
    <3>2. k # 1
      BY <1>2, <2>1, <3>1
    <3> QED
      BY <1>8, <3>1, <3>2 DEF Starting
  <2>2. ASSUME NEW v \in Starting' PROVE v \in Starting /\ ~(x.event.type = "Start" /\ v = x.ws)
    <3>1. PICK i \in DOMAIN stream' : stream'[i].ws = v /\ stream'[i].event.type = "Start"
      BY DEF Starting
    <3>2. PICK k \in DOMAIN stream : k # 1 /\ stream'[i] = stream[k]
      BY <1>7
    <3> QED
      BY <1>10, <3>1, <3>2 DEF Starting
  <2> QED
    BY <2>1, <2>2
<1>12. Ending' = IF x.event.type = "End" THEN Ending \ {x.ws} ELSE Ending
  <2>1. ASSUME NEW v \in Ending, ~(x.event.type = "End" /\ v = x.ws) PROVE v \in Ending'
    <3>1. PICK k \in DOMAIN stream : stream[k].ws = v /\ stream[k].event.type = "End"
      BY DEF Ending
    <3>2. k # 1
      BY <1>2, <2>1, <3>1
    <3> QED
      BY <1>8, <3>1, <3>2 DEF Ending
  <2>2. ASSUME NEW v \in Ending' PROVE v \in Ending /\ ~(x.event.type = "End" /\ v = x.ws)
    <3>1. PICK i \in DOMAIN stream' : stream'[i].ws = v /\ stream'[i].event.type = "End"
      BY DEF Ending
    <3>2. PICK k \in DOMAIN stream : k # 1 /\ stream'[i] = stream[k]
      BY <1>7
    <3> QED
      BY <1>10, <3>1, <3>2 DEF Ending
  <2> QED
    BY <2>1, <2>2
<1>13. x.event.type = "Start" => x.ws \in Starting
  BY <1>2, <1>4 DEF Starting
<1>14. x.event.type \in {"Update", "Stats", "Relay", "End"} => x.ws \notin Starting
  BY <1>2, <1>10 DEF Starting
<1>15. x.event.type = "End" => x.ws \in Ending /\ x.ws \notin Speaking'
  <2>1. x.event.type = "End" => x.ws \in Ending
    BY <1>2, <1>4 DEF Ending
  <2>2. x.event.type = "End" => x.ws \notin Speaking'
    BY <1>2, <1>7, <1>10 DEF Speaking
  <2> QED
    BY <2>1, <2>2
<1> QED
  BY <1>2, <1>5, <1>6, <1>9, <1>11, <1>12, <1>13, <1>14, <1>15 DEF x
-----------------------------------------------------------------------------
(* Init and the steps.                                                     *)

LEMMA RegistryInit == Init => IInv
<1> SUFFICES ASSUME Init PROVE IInv
  OBVIOUS
<1> USE RegistryAssumption
<1>1. TypeOK
  <2>1. rx \in [Ws -> Seq(SUBSET Node)] /\ stream \in Seq(StreamEvent)
    BY NoneLeft DEF Init
  <2>2. msgs \in [Ws -> Nat] /\ \A w \in Ws : msgs[w] <= MaxMsgs[w]
    BY DEF Init
  <2> QED
    BY <2>1, <2>2 DEF Init, TypeOK
<1>2. Speaking = {} /\ Starting = {} /\ Ending = {} /\ InOrder
  BY NoneLeft DEF Init, Speaking, Starting, Ending, InOrder
<1>3. EveryPairIntroduced /\ Orderly /\ Tracked
  BY <1>2 DEF Init, EveryPairIntroduced, Orderly, Tracked, Live
<1> QED
  BY <1>1, <1>3 DEF IInv

(* A step that touches neither connections nor sessions, nor what the      *)
(* channel holds of them.                                                  *)
LEMMA QuietStep ==
    ASSUME IInv, TypeOK', InOrder',
           Speaking' = Speaking, Starting' = Starting, Ending' = Ending,
           UNCHANGED <<phase, nodes, updated, streams_tx, panicked, introduced, overlapped>>
    PROVE  IInv'
<1>1. EveryPairIntroduced' /\ Orderly'
  BY DEF IInv, EveryPairIntroduced, Orderly
<1>2. Live' = Live
  BY DEF Live
<1>3. ~overlapped' => Tracked'
  BY <1>2 DEF IInv, Tracked
<1> QED
  BY <1>1, <1>3 DEF IInv

LEMMA UnchangedChannel ==
    ASSUME UNCHANGED stream
    PROVE  /\ Speaking' = Speaking /\ Starting' = Starting /\ Ending' = Ending
           /\ InOrder => InOrder'
BY DEF Speaking, Starting, Ending, InOrder

LEMMA AcceptStep ==
    ASSUME IInv, NEW w \in Ws, Accept(w)
    PROVE  IInv'
<1> DEFINE e == [type |-> "Start"]
<1>1. e \in Events \cup [type : {"Start", "End"}] /\ e.type = "Start" /\ Send(w, e)
  BY DEF Accept
<1>2. w \notin Speaking /\ w \notin Ending /\ phase[w] = "closed"
  BY DEF IInv, Orderly, Accept
<1>3. /\ stream' \in Seq(StreamEvent) /\ Speaking' = Speaking \cup {w}
      /\ Starting' = Starting \cup {w} /\ Ending' = Ending /\ InOrder'
  BY <1>1, <1>2, SentEvent DEF IInv, Orderly
<1>4. \A v \in Ws : phase'[v] = IF v = w THEN "run" ELSE phase[v]
  BY DEF Accept, IInv, TypeOK
<1>5. TypeOK'
  BY <1>3 DEF IInv, TypeOK, Accept
<1>6. EveryPairIntroduced'
  BY DEF IInv, EveryPairIntroduced, Accept
<1>7. Orderly'
  BY <1>2, <1>3, <1>4 DEF IInv, Orderly
<1>8. ASSUME ~overlapped' PROVE Tracked'
  <2>1. Tracked /\ w \notin Live
    BY <1>2, <1>8 DEF IInv, Accept, Live
  <2>2. \A v \in Live : NodeOf[v] # NodeOf[w]
    BY <1>8, <2>1 DEF Accept, Live, Speaking
  <2>3. Live' = Live \cup {w}
    BY <1>3, <1>4 DEF Live
  <2>4. NodeOf[w] \in Node /\ NodeOf[w] \notin nodes
    BY <2>1, <2>2, RegistryAssumption DEF Tracked
  <2>5. UNCHANGED <<nodes, streams_tx, panicked>>
    BY DEF Accept
  <2> QED
    BY <1>3, <2>1, <2>2, <2>3, <2>4, <2>5 DEF Tracked
<1> QED
  BY <1>5, <1>6, <1>7, <1>8 DEF IInv

LEMMA ReadStep ==
    ASSUME IInv, NEW w \in Ws, NEW e \in Events, Read(w, e)
    PROVE  IInv'
<1>1. e \in Events \cup [type : {"Start", "End"}] /\ e.type \notin {"Start", "End"} /\ Send(w, e)
  BY DEF Read, Events
<1>2. w \notin Ending /\ phase[w] = "run"
  BY DEF IInv, Orderly, Read, Polling
<1>3. /\ stream' \in Seq(StreamEvent) /\ Speaking' = Speaking \cup {w}
      /\ Starting' = Starting /\ Ending' = Ending /\ InOrder'
  BY <1>1, <1>2, SentEvent DEF IInv, Orderly
<1>4. TypeOK'
  <2>1. msgs' \in [Ws -> Nat] /\ \A v \in Ws : msgs'[v] <= MaxMsgs[v]
    <3>1. /\ msgs' = [msgs EXCEPT ![w] = msgs[w] + 1] /\ msgs[w] < MaxMsgs[w]
          /\ msgs \in [Ws -> Nat] /\ \A v \in Ws : msgs[v] <= MaxMsgs[v]
          /\ MaxMsgs \in [Ws -> Nat]
      BY RegistryAssumption DEF IInv, TypeOK, Read
    <3>2. \A v \in Ws : msgs'[v] = IF v = w THEN msgs[w] + 1 ELSE msgs[v]
      BY <3>1
    <3>3. msgs[w] + 1 <= MaxMsgs[w]
      BY <3>1
    <3> QED
      BY <3>1, <3>2, <3>3
  <2> QED
    BY <1>3, <2>1 DEF IInv, TypeOK, Read
<1>5. EveryPairIntroduced' /\ Orderly'
  BY <1>2, <1>3 DEF IInv, EveryPairIntroduced, Orderly, Read
<1>6. Live' = Live
  BY <1>2, <1>3 DEF Live, Read
<1>7. ~overlapped' => Tracked'
  BY <1>3, <1>6 DEF IInv, Tracked, Read
<1> QED
  BY <1>4, <1>5, <1>7 DEF IInv

LEMMA WriteStep ==
    ASSUME IInv, NEW w \in Ws, Write(w)
    PROVE  IInv'
<1>1. rx[w] \in Seq(SUBSET Node) /\ rx[w] # <<>>
  BY DEF IInv, TypeOK, Write
<1>2. Tail(rx[w]) \in Seq(SUBSET Node)
  BY <1>1, HeadTail
<1>3. TypeOK'
  BY <1>2 DEF IInv, TypeOK, Write
<1> QED
  BY <1>3, QuietStep, UnchangedChannel DEF Write, IInv, Orderly

LEMMA LeaveStep ==
    ASSUME IInv, NEW w \in Ws, phase[w] = "run", Leave(w)
    PROVE  IInv'
<1> DEFINE e == [type |-> "End"]
<1>1. e \in Events \cup [type : {"Start", "End"}] /\ e.type = "End" /\ Send(w, e)
  BY DEF Leave
<1>2. w \notin Ending
  BY DEF IInv, Orderly
<1>3. /\ stream' \in Seq(StreamEvent) /\ Speaking' = Speaking \cup {w}
      /\ Starting' = Starting /\ Ending' = Ending \cup {w} /\ InOrder'
  BY <1>1, <1>2, SentEvent DEF IInv, Orderly
<1>4. \A v \in Ws : phase'[v] = IF v = w THEN "gone" ELSE phase[v]
  BY DEF Leave, IInv, TypeOK
<1>5. TypeOK'
  BY <1>3, NoneLeft DEF IInv, TypeOK, Leave
<1>6. EveryPairIntroduced' /\ Orderly'
  BY <1>3, <1>4 DEF IInv, EveryPairIntroduced, Orderly, Leave
<1>7. Live' = Live
  BY <1>3, <1>4 DEF Live
<1>8. ~overlapped' => Tracked'
  BY <1>3, <1>7 DEF IInv, Tracked, Leave
<1> QED
  BY <1>5, <1>6, <1>8 DEF IInv

LEMMA QueryStep ==
    ASSUME IInv, NEW q \in Queries, Ask(q) \/ GiveUp(q)
    PROVE  IInv'
<1>1. /\ stream' \in Seq(StreamEvent)
      /\ Speaking' = Speaking /\ Starting' = Starting /\ Ending' = Ending /\ InOrder'
  <2>1. CASE Ask(q)
    BY <2>1, SentQuery DEF Ask, IInv, Orderly
  <2>2. CASE GiveUp(q) /\ UNCHANGED stream
    BY <2>2, UnchangedChannel DEF IInv, TypeOK, Orderly
  <2>3. CASE GiveUp(q) /\ \E i \in DOMAIN stream :
                              stream[i].ws = q /\ stream' = RemoveAt(stream, i)
    BY <2>3, UndoneQuery, RegistryAssumption DEF IInv, Orderly
  <2> QED
    BY <2>1, <2>2, <2>3 DEF GiveUp
<1>2. TypeOK'
  BY <1>1 DEF IInv, TypeOK, Ask, GiveUp
<1> QED
  BY <1>1, <1>2, QuietStep DEF Ask, GiveUp

LEMMA MainSendStep ==
    ASSUME IInv, MainSend
    PROVE  IInv'
<1> DEFINE w == streams_tx[out.dest]
<1>1. /\ out \in [dest : Node, reply : SUBSET Node] /\ out.reply \in SUBSET Node /\ out.dest \in Node
      /\ rx \in [Ws -> Seq(SUBSET Node)]
  BY DEF IInv, TypeOK, MainSend
<1>2. w \in Ws \cup {None}
  BY <1>1 DEF IInv, TypeOK
<1>3. rx' \in [Ws -> Seq(SUBSET Node)]
  <2>1. \/ rx' = rx
        \/ w \in Ws /\ rx' = [rx EXCEPT ![w] = Append(@, out.reply)]
    BY <1>2 DEF MainSend
  <2>2. w \in Ws => Append(rx[w], out.reply) \in Seq(SUBSET Node)
    BY <1>1, Appended
  <2> HIDE DEF w
  <2> QED
    BY <1>1, <2>1, <2>2
<1>4. TypeOK'
  BY <1>3 DEF IInv, TypeOK, MainSend
<1> QED
  BY <1>4, QuietStep, UnchangedChannel DEF MainSend, IInv, Orderly
-----------------------------------------------------------------------------
(* The main loop takes an event.  Taking one of a worker that is known     *)
(* leaves the connection live: End was the last of it.                     *)
LEMMA TakenLive ==
    ASSUME IInv, stream # <<>>, stream' = Tail(stream), UNCHANGED phase
    PROVE  /\ Orderly'
           /\ Head(stream).ws \in Ws => Head(stream).ws \in Live
           /\ Live' = IF Head(stream).event.type = "End" THEN Live \ {Head(stream).ws} ELSE Live
<1> DEFINE w == Head(stream).ws
           t == Head(stream).event.type
<1>1. TypeOK /\ InOrder
  BY DEF IInv, Orderly
<1>2. /\ InOrder' /\ (w \in Ws => w \in Speaking)
      /\ Speaking \ {w} \subseteq Speaking' /\ Speaking' \subseteq Speaking
      /\ Ending' = IF t = "End" THEN Ending \ {w} ELSE Ending
      /\ t = "End" => w \in Ending /\ w \notin Speaking'
  BY <1>1, TakenEvent
<1> HIDE DEF w, t
<1>3. Orderly'
  BY <1>2 DEF IInv, Orderly
<1>4. w \in Ws => w \in Live
  BY <1>2 DEF Live
<1>5. /\ Ending \subseteq Ws /\ Speaking \subseteq Ws /\ Ending' \subseteq Speaking'
      /\ \A v \in Ws : phase[v] \in {"closed", "run", "gone"}
  BY DEF Ending, Speaking, IInv, TypeOK
<1>6. \A v \in Ws : /\ phase[v] = "closed" => v \notin Speaking
                    /\ v \in Ending => phase[v] = "gone"
                    /\ phase[v] = "gone" /\ v \in Speaking => v \in Ending
  BY DEF IInv, Orderly
<1> DEFINE Up == {v \in Ws : phase[v] = "run"}
<1>7. Live = Up \cup Speaking /\ Live' = Up \cup Speaking'
  BY DEF Live
<1>8. Live' = IF t = "End" THEN Live \ {w} ELSE Live
  <2>1. CASE t = "End"
    <3>1. w \notin Up /\ w \notin Speaking'
      BY <1>2, <1>5, <1>6, <2>1
    <3> HIDE DEF Up
    <3> QED
      BY <1>2, <1>7, <2>1, <3>1
  <2>2. CASE t # "End"
    <3>1. \A v \in Speaking \ Up : v \in Ending
      BY <1>5, <1>6
    <3> HIDE DEF Up
    <3> QED
      BY <1>2, <1>5, <1>7, <2>2, <3>1
  <2> QED
    BY <2>1, <2>2
<1> QED
  BY <1>3, <1>4, <1>8 DEF w, t

LEMMA MainRecvStep ==
    ASSUME IInv, MainRecv
    PROVE  IInv'
<1> USE RegistryAssumption
<1> DEFINE x == Head(stream)
           w == x.ws
           t == x.event.type
<1>1. /\ stream # <<>> /\ stream' = Tail(stream) /\ UNCHANGED <<phase, msgs, overlapped>>
      /\ ~panicked /\ TypeOK /\ InOrder
  BY DEF MainRecv, IInv, Orderly
<1>2. /\ stream' \in Seq(StreamEvent) /\ x \in StreamEvent /\ InOrder'
      /\ Starting' = IF t = "Start" THEN Starting \ {w} ELSE Starting
      /\ t = "Start" => w \in Starting
      /\ t \in {"Update", "Stats", "Relay", "End"} => w \notin Starting
  BY <1>1, TakenEvent
<1>3. /\ Orderly' /\ (w \in Ws => w \in Live)
      /\ Live' = IF t = "End" THEN Live \ {w} ELSE Live
  BY <1>1, TakenLive
<1>4. /\ w \in Ws \cup Queries /\ (w \in Ws <=> t # "Query")
      /\ t \in {"Start", "Update", "Stats", "Relay", "End", "Query"}
      /\ t = "Relay" => x.event.dest \in Node
  BY <1>2, EventFacts
<1>5. rx' \in [Ws -> Seq(SUBSET Node)]
  <2>1. rx \in [Ws -> Seq(SUBSET Node)] /\ (rx' = rx \/ \E v : rx' = [rx EXCEPT ![v] = <<>>])
    BY DEF MainRecv, IInv, TypeOK
  <2> QED
    BY <2>1, NoneLeft
<1>6. CASE t = "Query"
  <2>1. query' = Answered(w) /\ UNCHANGED <<nodes, updated, streams_tx, out, panicked, introduced>>
    BY <1>6 DEF MainRecv
  <2>2. TypeOK'
    BY <1>1, <1>2, <1>5, <2>1 DEF TypeOK, Answered
  <2>3. EveryPairIntroduced'
    BY <2>1 DEF IInv, EveryPairIntroduced
  <2>4. ~overlapped' => Tracked'
    BY <1>1, <1>2, <1>3, <1>6, <2>1 DEF IInv, Tracked
  <2> QED
    BY <1>3, <2>2, <2>3, <2>4 DEF IInv
<1>7. CASE t = "Start"
  <2>1. query' = query /\ OnStart(w) /\ w \in Ws /\ NodeOf[w] \in Node
    BY <1>4, <1>7 DEF MainRecv
  <2> HIDE DEF w, t
  <2>2. TypeOK'
    BY <1>1, <1>2, <1>5, <2>1 DEF TypeOK, OnStart
  <2>3. EveryPairIntroduced'
    BY <2>1 DEF IInv, TypeOK, EveryPairIntroduced, OnStart
  <2>4. ASSUME ~overlapped' PROVE Tracked'
    <3>1. Tracked /\ w \in Starting /\ w \in Live /\ Starting' = Starting \ {w} /\ Live' = Live
      BY <1>1, <1>2, <1>3, <1>7, <2>1, <2>4 DEF IInv
    <3>2. \A v \in Live : v # w => NodeOf[v] # NodeOf[w]
      BY <3>1 DEF Tracked
    <3>3. /\ \A n \in Node : streams_tx'[n] = IF n = NodeOf[w] THEN w ELSE streams_tx[n]
          /\ nodes' = nodes \cup {NodeOf[w]} /\ nodes \subseteq Node /\ ~panicked'
          /\ Live \subseteq Ws
      BY <1>1, <2>1 DEF OnStart, TypeOK, Live, Speaking
    <3> QED
      BY <3>1, <3>2, <3>3 DEF Tracked
  <2> QED
    BY <1>3, <2>2, <2>3, <2>4 DEF IInv
<1>8. CASE t \in {"Update", "Stats", "Relay"}
  <2>0. /\ w \in Ws /\ NodeOf[w] \in Node /\ query' = query
        /\ t = "Update" => OnUpdate(NodeOf[w])
        /\ t = "Stats" => OnStats(NodeOf[w])
        /\ t = "Relay" => OnRelay(NodeOf[w], x.event.dest)
    BY <1>4, <1>8 DEF MainRecv
  <2> DEFINE n == NodeOf[w]
  <2> HIDE DEF w, t, n
  <2>1. n \in Node
    BY <2>0 DEF n
  <2>2. UNCHANGED <<nodes, streams_tx>>
    BY <1>8, <2>0 DEF OnUpdate, OnStats, OnRelay, UnknownNode
  <2>3. \/ UNCHANGED <<updated, introduced>>
        \/ /\ updated' = updated \cup {n} /\ n \in nodes
           /\ introduced' = introduced \cup {<<n, m>> : m \in nodes \ {n}}
    BY <1>8, <2>0 DEF OnUpdate, OnStats, OnRelay, UnknownNode, n
  <2>4. out' \in [dest : Node, reply : SUBSET Node] \cup {None}
    <3>1. nodes \subseteq Node /\ out \in [dest : Node, reply : SUBSET Node] \cup {None}
      BY <1>1 DEF TypeOK
    <3>2. CASE t = "Update"
      BY <2>0, <2>1, <3>1, <3>2 DEF OnUpdate, UnknownNode, n
    <3>3. CASE t = "Stats"
      BY <2>0, <3>1, <3>3 DEF OnStats, UnknownNode
    <3>4. CASE t = "Relay"
      BY <1>4, <2>0, <2>1, <3>1, <3>4 DEF OnRelay, n
    <3> QED
      BY <1>8, <3>2, <3>3, <3>4
  <2>5. panicked' \in BOOLEAN /\ (n \in nodes => ~panicked')
    <3>1. panicked' = panicked \/ (n \notin nodes /\ panicked' = TRUE)
      BY <1>8, <2>0 DEF OnUpdate, OnStats, OnRelay, UnknownNode, n
    <3>2. panicked \in BOOLEAN /\ ~panicked
      BY <1>1 DEF TypeOK
    <3>3. CASE panicked' = panicked
      BY <3>2, <3>3
    <3>4. CASE n \notin nodes /\ panicked' = TRUE
      BY <3>4
    <3> QED
      BY <3>1, <3>3, <3>4
  <2>6. introduced' \subseteq Node \X Node /\ updated' \subseteq nodes
    BY <1>1, <2>1, <2>3 DEF TypeOK
  <2>7. TypeOK'
    BY <1>1, <1>2, <1>5, <2>0, <2>2, <2>4, <2>5, <2>6 DEF TypeOK
  <2>8. EveryPairIntroduced'
    <3> SUFFICES ASSUME NEW k \in updated', NEW m \in updated', k # m
                 PROVE  <<k, m>> \in introduced' \/ <<m, k>> \in introduced'
      BY DEF EveryPairIntroduced
    <3>1. introduced \subseteq introduced'
      BY <2>3
    <3>2. CASE k \in updated /\ m \in updated
      BY <3>1, <3>2 DEF IInv, EveryPairIntroduced
    <3>3. CASE ~(k \in updated /\ m \in updated)
      <4>1. /\ introduced' = introduced \cup {<<n, o>> : o \in nodes \ {n}}
            /\ k \in nodes /\ m \in nodes /\ (k = n \/ m = n)
        BY <1>1, <2>3, <3>3 DEF TypeOK
      <4> QED
        BY <4>1
    <3> QED
      BY <3>2, <3>3
  <2>9. ASSUME ~overlapped' PROVE Tracked'
    <3>1. Tracked /\ w \notin Starting /\ w \in Live /\ Starting' = Starting /\ Live' = Live
      BY <1>1, <1>2, <1>3, <1>8, <2>0, <2>9 DEF IInv
    <3>2. n \in nodes
      BY <3>1 DEF Tracked, n
    <3> QED
      BY <2>2, <2>5, <3>1, <3>2 DEF Tracked
  <2> QED
    BY <1>3, <2>7, <2>8, <2>9 DEF IInv
<1>9. CASE t = "End"
  <2>1. query' = query /\ OnEnd(NodeOf[w]) /\ w \in Ws /\ NodeOf[w] \in Node
    BY <1>4, <1>9 DEF MainRecv
  <2> HIDE DEF w, t
  <2>2. TypeOK'
    BY <1>1, <1>2, <1>5, <2>1 DEF TypeOK, OnEnd
  <2>3. EveryPairIntroduced'
    BY <2>1 DEF IInv, TypeOK, EveryPairIntroduced, OnEnd
  <2>4. ASSUME ~overlapped' PROVE Tracked'
    <3>1. /\ Tracked /\ w \notin Starting /\ w \in Live /\ Starting' = Starting
          /\ Live' = Live \ {w}
      BY <1>1, <1>2, <1>3, <1>9, <2>1, <2>4 DEF IInv
    <3>2. \A v \in Live : v # w => NodeOf[v] # NodeOf[w]
      BY <3>1 DEF Tracked
    <3>3. /\ \A n \in Node : streams_tx'[n] = IF n = NodeOf[w] THEN None ELSE streams_tx[n]
          /\ nodes' = nodes \ {NodeOf[w]} /\ nodes \subseteq Node /\ ~panicked'
      BY <1>1, <2>1 DEF OnEnd, TypeOK
    <3>4. Live \subseteq Ws
      BY DEF Live, Speaking
    <3> QED
      BY <3>1, <3>2, <3>3, <3>4 DEF Tracked
  <2> QED
    BY <1>3, <2>2, <2>3, <2>4 DEF IInv
<1> QED
  BY <1>4, <1>6, <1>7, <1>8, <1>9

-----------------------------------------------------------------------------
(* The inductive invariant behind the results below. *)
THEOREM RegistryInvariant == Spec => []IInv
<1>1. Init => IInv
  BY RegistryInit
<1>2. IInv /\ [Next]_vars => IInv'
  <2> SUFFICES ASSUME IInv, [Next]_vars PROVE IInv'
    OBVIOUS
  <2>1. CASE MainRecv \/ MainSend
    BY <2>1, MainRecvStep, MainSendStep
  <2>2. ASSUME NEW w \in Ws, Accept(w) \/ Write(w) PROVE IInv'
    BY <2>2, AcceptStep, WriteStep
  <2>3. ASSUME NEW w \in Ws, SocketClosed(w) \/ SenderDropped(w) PROVE IInv'
    BY <2>3, LeaveStep DEF SocketClosed, SenderDropped, Polling
  <2>4. ASSUME NEW w \in Ws, NEW e \in Events, Read(w, e) PROVE IInv'
    BY <2>4, ReadStep
  <2>5. ASSUME NEW q \in Queries, Ask(q) \/ GiveUp(q) PROVE IInv'
    BY <2>5, QueryStep
  <2>6. CASE UNCHANGED vars
    <3>1. TypeOK'
      BY <2>6 DEF IInv, TypeOK, vars
    <3> QED
      BY <2>6, <3>1, QuietStep, UnchangedChannel DEF vars, IInv, Orderly
  <2> QED
    BY <2>1, <2>2, <2>3, <2>4, <2>5, <2>6 DEF Next
<1> QED
  BY <1>1, <1>2, PTL DEF Spec

(* Of two workers that reported their layers one was told of the other, in *)
(* whatever order connections come, report, end and come back.             *)
THEOREM RegistryEveryPairIntroduced == Spec => []EveryPairIntroduced
<1>1. IInv => EveryPairIntroduced
  BY DEF IInv
<1> QED
  BY <1>1, RegistryInvariant, PTL

(* The main loop's sessions are the connections, once the channel is       *)
(* empty, and it does not panic, until a worker comes back too early.      *)
THEOREM RegistryRegisteredAreConnected == Spec => []RegisteredAreConnected
<1>1. IInv => RegisteredAreConnected
  <2> SUFFICES ASSUME IInv, ~overlapped PROVE
           /\ ~panicked
           /\ stream = <<>> =>
               \A n \in Node :
                   /\ n \in nodes <=> \E w \in Ws : NodeOf[w] = n /\ phase[w] = "run"
                   /\ n \in nodes => streams_tx[n] # None /\ phase[streams_tx[n]] = "run"
                   /\ n \notin nodes => streams_tx[n] = None
    BY DEF RegisteredAreConnected
  <2>1. Tracked
    BY DEF IInv
  <2>2. stream = <<>> => Live = {w \in Ws : phase[w] = "run"} /\ Starting = {}
    BY NoneLeft DEF Live, Speaking, Starting
  <2>3. None \notin Ws
    BY RegistryAssumption
  <2> QED
    BY <2>1, <2>2, <2>3 DEF Tracked
<1> QED
  BY <1>1, RegistryInvariant, PTL
=============================================================================
