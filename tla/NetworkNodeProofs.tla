-------------------------- MODULE NetworkNodeProofs --------------------------
(***************************************************************************)
(* Proofs about NetworkNode, for any number of workers and faults.  What   *)
(* could lead an entry astray is a ConnId that comes back, so the          *)
(* invariant says that an offer on its way is the only one of its          *)
(* connection, and that its receiver has not seen the connection before.   *)
(***************************************************************************)
EXTENDS NetworkNode, FiniteSetTheorems, SequenceTheorems, TLAPS

(* The connections n has, or has yet to take the end of. *)
Seen == [n \in Node |-> DOMAIN conns[n] \cup {events[n][i].conn : i \in DOMAIN events[n]}]

(* Connections to which a ufrag or an address leads. *)
Routed == [n \in Node |-> ufrags[n] \cup {r.conn : r \in remotes[n]}]

Drawn == 1 .. seed

(* Every connection seen was drawn, and so was every one that is offered;  *)
(* who is offered it has not seen it.  Nobody is his own neighbour.        *)
FreshOffers ==
    /\ \A n \in Node : Seen[n] \subseteq Drawn
    /\ \A n \in Node : \A i \in DOMAIN queue[n] :
          queue[n][i].type = "Offer" =>
              queue[n][i].conn \in Drawn \ Seen[queue[n][i].dest]
    /\ \A n \in Node : \A i \in DOMAIN inbox[n] :
          /\ inbox[n][i].type = "Offer" => inbox[n][i].conn \in Drawn \ Seen[n]
          /\ inbox[n][i].type = "Neighbours" => n \notin inbox[n][i].nodes

(* No connection is offered twice. *)
SingleOffers ==
    /\ \A n, m \in Node : \A i \in DOMAIN queue[n], j \in DOMAIN queue[m] :
          queue[n][i].type = "Offer" /\ queue[m][j].type = "Offer"
              /\ queue[n][i].conn = queue[m][j].conn => n = m /\ i = j
    /\ \A n, m \in Node : \A i \in DOMAIN inbox[n], j \in DOMAIN inbox[m] :
          inbox[n][i].type = "Offer" /\ inbox[m][j].type = "Offer"
              /\ inbox[n][i].conn = inbox[m][j].conn => n = m /\ i = j
    /\ \A n, m \in Node : \A i \in DOMAIN queue[n], j \in DOMAIN inbox[m] :
          queue[n][i].type = "Offer" /\ inbox[m][j].type = "Offer"
              => queue[n][i].conn # inbox[m][j].conn

(* A NodeDisconnected names the worker its connection leads to. *)
EventsName ==
    \A n \in Node : \A i \in DOMAIN events[n] :
        events[n][i].conn \in Ids(n) => conns[n][events[n][i].conn].remote = events[n][i].node

(* Who entered no connection too early has taken the ends of all others.   *)
EndsTaken ==
    \A n, m \in Node :
        <<n, m>> \notin doubled =>
            \A c \in ConnsTo(n, m) : \A i \in DOMAIN events[n] :
                events[n][i].node = m => events[n][i].conn = c

Offers == FreshOffers /\ SingleOffers

Entries == EventsName /\ NodesLeadToConns /\ EntryLostOnlyByReplacement /\ EndsTaken

IInv == TypeOK /\ Offers /\ Entries /\ PortsLeadToLiveConns
------------------------------------------------------------------------------
(* Sequences.                                                              *)

LEMMA NoneLeft == \A S : <<>> \in Seq(S) /\ DOMAIN <<>> = {} /\ Len(<<>>) = 0
OBVIOUS

LEMMA HeadTail ==
    ASSUME NEW S, NEW q \in Seq(S), q # <<>>
    PROVE  /\ 1 \in DOMAIN q /\ Head(q) = q[1] /\ Head(q) \in S
           /\ Tail(q) \in Seq(S)
           /\ \A i \in DOMAIN Tail(q) :
                 i \in Nat /\ i + 1 # 1 /\ i + 1 \in DOMAIN q /\ Tail(q)[i] = q[i + 1]
OBVIOUS

LEMMA Appended ==
    ASSUME NEW S, NEW q \in Seq(S), NEW e \in S
    PROVE  /\ Append(q, e) \in Seq(S)
           /\ Len(q) + 1 \notin DOMAIN q /\ Len(q) + 1 \in DOMAIN Append(q, e)
           /\ \A i \in DOMAIN q : i \in DOMAIN Append(q, e)
           /\ \A i \in DOMAIN Append(q, e) :
                 \/ i \in DOMAIN q /\ Append(q, e)[i] = q[i]
                 \/ i = Len(q) + 1 /\ Append(q, e)[i] = e
OBVIOUS

LEMMA Indices == ASSUME NEW S, NEW q \in Seq(S) PROVE \A i \in DOMAIN q : i \in Nat /\ q[i] \in S
OBVIOUS

LEMMA Ordered ==
    ASSUME NEW S, IsFiniteSet(S)
    PROVE  /\ Cardinality(S) \in Nat /\ SetToSeq(S) \in [1 .. Cardinality(S) -> S]
           /\ \A i, j \in 1 .. Cardinality(S) : SetToSeq(S)[i] = SetToSeq(S)[j] => i = j
           /\ \A e \in S : \E i \in 1 .. Cardinality(S) : SetToSeq(S)[i] = e
<1> DEFINE k == Cardinality(S)
           q == SetToSeq(S)
<1>1. k \in Nat /\ ExistsBijection(1 .. k, S)
  BY FS_CardinalityType
<1>2. \E f \in [1 .. k -> S] : IsInjective(f)
  BY <1>1 DEF ExistsBijection, Bijection, Injection
<1>3. q \in [1 .. k -> S] /\ IsInjective(q)
  BY <1>2 DEF SetToSeq
<1> HIDE DEF q
<1>4. q \in Injection(1 .. k, S)
  BY <1>3 DEF Injection
<1>5. Cardinality(1 .. k) = k
  BY <1>1, FS_Interval
<1> HIDE DEF k
<1>6. q \in Surjection(1 .. k, S)
  BY <1>4, <1>5, FS_Injection DEF k
<1>7. \A e \in S : \E i \in 1 .. k : q[i] = e
  BY <1>6 DEF Surjection
<1> QED
  BY <1>1, <1>3, <1>7 DEF IsInjective, k, q

------------------------------------------------------------------------------
(* What travels through the registry.                                      *)

LEMMA Cancel ==
    ASSUME NEW i \in Nat, NEW j \in Nat, NEW k \in Nat, i + k = j + k
    PROVE  i = j
OBVIOUS

(* Offers that are left when some were taken from the front of queues and  *)
(* inboxes, while nobody sees another connection.                          *)
LEMMA OffersLeft ==
    ASSUME TypeOK, Offers, UNCHANGED seed,
           \A n \in Node : Seen'[n] \subseteq Seen[n],
           NEW K \in [Node -> Nat], NEW J \in [Node -> Nat],
           \A n \in Node : \A i \in DOMAIN queue'[n] :
               i \in Nat /\ i + K[n] \in DOMAIN queue[n] /\ queue'[n][i] = queue[n][i + K[n]],
           \A n \in Node : \A i \in DOMAIN inbox'[n] :
               i \in Nat /\ i + J[n] \in DOMAIN inbox[n] /\ inbox'[n][i] = inbox[n][i + J[n]]
    PROVE  Offers'
<1>1. FreshOffers'
  <2>1. Drawn' = Drawn
    BY DEF Drawn
  <2>2. \A n \in Node : Seen'[n] \subseteq Drawn
    BY DEF Offers, FreshOffers
  <2>3. ASSUME NEW n \in Node, NEW i \in DOMAIN queue'[n], queue'[n][i].type = "Offer"
        PROVE  queue'[n][i].conn \in Drawn \ Seen'[queue'[n][i].dest]
    <3>1. queue'[n][i].conn \in Drawn \ Seen[queue'[n][i].dest]
      BY <2>3 DEF Offers, FreshOffers
    <3>2. queue[n][i + K[n]] \in Request
      BY DEF TypeOK
    <3>3. queue'[n][i].dest \in Node
      BY <2>3, <3>2 DEF Request
    <3> QED
      BY <3>1, <3>3
  <2>4. ASSUME NEW n \in Node, NEW i \in DOMAIN inbox'[n]
        PROVE  /\ inbox'[n][i].type = "Offer" => inbox'[n][i].conn \in Drawn \ Seen'[n]
               /\ inbox'[n][i].type = "Neighbours" => n \notin inbox'[n][i].nodes
    BY DEF Offers, FreshOffers
  <2> QED
    BY <2>1, <2>2, <2>3, <2>4 DEF FreshOffers
<1>2. SingleOffers'
  <2>1. ASSUME NEW n \in Node, NEW m \in Node,
               NEW i \in DOMAIN queue'[n], NEW j \in DOMAIN queue'[m],
               queue'[n][i].type = "Offer", queue'[m][j].type = "Offer",
               queue'[n][i].conn = queue'[m][j].conn
        PROVE  n = m /\ i = j
    <3>1. n = m /\ i + K[n] = j + K[m]
      BY <2>1 DEF Offers, SingleOffers
    <3>2. i \in Nat /\ j \in Nat
      OBVIOUS
    <3>3. K[n] \in Nat /\ i + K[n] = j + K[n]
      BY <3>1
    <3> QED
      BY <3>1, <3>2, <3>3, Cancel
  <2>2. ASSUME NEW n \in Node, NEW m \in Node,
               NEW i \in DOMAIN inbox'[n], NEW j \in DOMAIN inbox'[m],
               inbox'[n][i].type = "Offer", inbox'[m][j].type = "Offer",
               inbox'[n][i].conn = inbox'[m][j].conn
        PROVE  n = m /\ i = j
    <3>1. n = m /\ i + J[n] = j + J[m]
      BY <2>2 DEF Offers, SingleOffers
    <3>2. i \in Nat /\ j \in Nat /\ J[n] \in Nat /\ i + J[n] = j + J[n]
      BY <3>1
    <3> QED
      BY <3>1, <3>2
  <2>3. \A n, m \in Node : \A i \in DOMAIN queue'[n], j \in DOMAIN inbox'[m] :
          queue'[n][i].type = "Offer" /\ inbox'[m][j].type = "Offer"
              => queue'[n][i].conn # inbox'[m][j].conn
    BY DEF Offers, SingleOffers
  <2> QED
    BY <2>1, <2>2, <2>3 DEF SingleOffers
<1> QED
  BY <1>1, <1>2 DEF Offers

(* A step that takes a message from a queue, or from an inbox, or none.    *)
LEMMA OffersTaken ==
    ASSUME TypeOK, Offers, UNCHANGED seed, NEW n \in Node,
           \A m \in Node : Seen'[m] \subseteq Seen[m],
           \/ UNCHANGED queue
           \/ queue[n] # <<>> /\ queue' = [queue EXCEPT ![n] = Tail(@)]
           \/ queue' = [queue EXCEPT ![n] = <<>>],
           \/ UNCHANGED inbox
           \/ inbox[n] # <<>> /\ inbox' = [inbox EXCEPT ![n] = Tail(@)]
           \/ inbox' = [inbox EXCEPT ![n] = <<>>]
    PROVE  Offers'
<1>1. /\ queue \in [Node -> Seq(Request)] /\ inbox \in [Node -> Seq(Message)]
  BY DEF TypeOK
<1>2. PICK K \in [Node -> Nat] : \A m \in Node : \A i \in DOMAIN queue'[m] :
               i \in Nat /\ i + K[m] \in DOMAIN queue[m] /\ queue'[m][i] = queue[m][i + K[m]]
  <2>1. \A m \in Node : \A i \in DOMAIN queue[m] : i \in Nat /\ i + 0 = i
    BY <1>1, Indices
  <2> DEFINE Same == [m \in Node |-> 0]
             Next1 == [m \in Node |-> IF m = n THEN 1 ELSE 0]
  <2>2. CASE UNCHANGED queue \/ queue' = [queue EXCEPT ![n] = <<>>]
    <3>1. Same \in [Node -> Nat] /\ \A m \in Node : Same[m] = 0
      OBVIOUS
    <3> HIDE DEF Same
    <3>2. \A m \in Node : queue'[m] = queue[m] \/ queue'[m] = <<>>
      BY <1>1, <2>2
    <3>3. \A m \in Node : \A i \in DOMAIN queue'[m] :
            i \in Nat /\ i + Same[m] \in DOMAIN queue[m] /\ queue'[m][i] = queue[m][i + Same[m]]
      BY <2>1, <3>1, <3>2, NoneLeft
    <3> QED
      BY <3>1, <3>3
  <2>3. CASE queue[n] # <<>> /\ queue' = [queue EXCEPT ![n] = Tail(@)]
    <3>1. /\ Next1 \in [Node -> Nat] /\ Next1[n] = 1 /\ \A m \in Node \ {n} : Next1[m] = 0
      OBVIOUS
    <3> HIDE DEF Next1
    <3>2. queue'[n] = Tail(queue[n]) /\ \A m \in Node \ {n} : queue'[m] = queue[m]
      BY <1>1, <2>3
    <3>3. \A i \in DOMAIN Tail(queue[n]) :
              i \in Nat /\ i + 1 \in DOMAIN queue[n] /\ Tail(queue[n])[i] = queue[n][i + 1]
      BY <1>1, <2>3, HeadTail
    <3>4. \A m \in Node : \A i \in DOMAIN queue'[m] :
            i \in Nat /\ i + Next1[m] \in DOMAIN queue[m] /\ queue'[m][i] = queue[m][i + Next1[m]]
      BY <2>1, <3>1, <3>2, <3>3
    <3> QED
      BY <3>1, <3>4
  <2> QED
    BY <2>2, <2>3
<1>3. PICK J \in [Node -> Nat] : \A m \in Node : \A i \in DOMAIN inbox'[m] :
               i \in Nat /\ i + J[m] \in DOMAIN inbox[m] /\ inbox'[m][i] = inbox[m][i + J[m]]
  <2>1. \A m \in Node : \A i \in DOMAIN inbox[m] : i \in Nat /\ i + 0 = i
    BY <1>1, Indices
  <2> DEFINE Same == [m \in Node |-> 0]
             Next1 == [m \in Node |-> IF m = n THEN 1 ELSE 0]
  <2>2. CASE UNCHANGED inbox \/ inbox' = [inbox EXCEPT ![n] = <<>>]
    <3>1. Same \in [Node -> Nat] /\ \A m \in Node : Same[m] = 0
      OBVIOUS
    <3> HIDE DEF Same
    <3>2. \A m \in Node : inbox'[m] = inbox[m] \/ inbox'[m] = <<>>
      BY <1>1, <2>2
    <3>3. \A m \in Node : \A i \in DOMAIN inbox'[m] :
            i \in Nat /\ i + Same[m] \in DOMAIN inbox[m] /\ inbox'[m][i] = inbox[m][i + Same[m]]
      BY <2>1, <3>1, <3>2, NoneLeft
    <3> QED
      BY <3>1, <3>3
  <2>3. CASE inbox[n] # <<>> /\ inbox' = [inbox EXCEPT ![n] = Tail(@)]
    <3>1. /\ Next1 \in [Node -> Nat] /\ Next1[n] = 1 /\ \A m \in Node \ {n} : Next1[m] = 0
      OBVIOUS
    <3> HIDE DEF Next1
    <3>2. inbox'[n] = Tail(inbox[n]) /\ \A m \in Node \ {n} : inbox'[m] = inbox[m]
      BY <1>1, <2>3
    <3>3. \A i \in DOMAIN Tail(inbox[n]) :
              i \in Nat /\ i + 1 \in DOMAIN inbox[n] /\ Tail(inbox[n])[i] = inbox[n][i + 1]
      BY <1>1, <2>3, HeadTail
    <3>4. \A m \in Node : \A i \in DOMAIN inbox'[m] :
            i \in Nat /\ i + Next1[m] \in DOMAIN inbox[m] /\ inbox'[m][i] = inbox[m][i + Next1[m]]
      BY <2>1, <3>1, <3>2, <3>3
    <3> QED
      BY <3>1, <3>4
  <2> QED
    BY <2>2, <2>3
<1> QED
  BY <1>2, <1>3, OffersLeft
------------------------------------------------------------------------------
(* Steps that leave everybody's connections as they are, but for their     *)
(* stage, and entries and ends too.                                        *)

LEMMA ConnsKept ==
    ASSUME IInv, TypeOK', Offers', UNCHANGED <<nodes, events, doubled>>,
           \A n \in Node : /\ DOMAIN conns'[n] = DOMAIN conns[n]
                           /\ \A c \in DOMAIN conns[n] :
                                 /\ conns'[n][c].remote = conns[n][c].remote
                                 /\ conns'[n][c].lost = conns[n][c].lost
                           /\ Routed'[n] \subseteq Routed[n]
    PROVE  IInv'
<1>1. EventsName' /\ NodesLeadToConns'
  BY DEF IInv, Entries, EventsName, NodesLeadToConns, Ids, ConnsTo
<1>2. EntryLostOnlyByReplacement' /\ EndsTaken'
  BY DEF IInv, Entries, EntryLostOnlyByReplacement, EndsTaken, Ids, ConnsTo
<1>3. PortsLeadToLiveConns'
  BY DEF IInv, PortsLeadToLiveConns, Routed, Ids
<1> QED
  BY <1>1, <1>2, <1>3 DEF IInv, Entries

LEMMA SameSeen ==
    ASSUME \A n \in Node : DOMAIN conns'[n] = DOMAIN conns[n], UNCHANGED events
    PROVE  \A n \in Node : Seen'[n] = Seen[n]
BY DEF Seen

LEMMA SamePorts ==
    ASSUME UNCHANGED ports
    PROVE  \A n \in Node : Routed'[n] \subseteq Routed[n]
BY DEF Routed, ports

LEMMA NetworkInit == Init => IInv
<1> SUFFICES ASSUME Init PROVE IInv
  OBVIOUS
<1>1. TypeOK
  <2>1. \A n \in Node : DOMAIN conns[n] = {}
    BY NoneLeft DEF Init
  <2>2. /\ events \in [Node -> Seq([conn : Nat, node : Node])]
        /\ queue \in [Node -> Seq(Request)] /\ inbox \in [Node -> Seq(Message)]
    BY NoneLeft DEF Init
  <2> QED
    <3>1. inc \in [Node -> Nat] /\ nodes \in [Node -> [Node -> Nat \cup {None}]]
      BY DEF Init
    <3>2. /\ ufrags \in [Node -> SUBSET Nat]
          /\ remotes \in [Node -> SUBSET [addr : Node \X Nat, conn : Nat]]
      BY DEF Init
    <3>3. /\ DOMAIN conns = Node
          /\ \A n \in Node : Ids(n) \subseteq Nat /\ \A c \in Ids(n) : conns[n][c] \in RemoteConnType
      BY <2>1 DEF Init, Ids
    <3>4. panicked \in BOOLEAN
      BY DEF Init
    <3>5. /\ doubled \subseteq Node \X Node
          /\ glared \subseteq SUBSET Node /\ cut \subseteq SUBSET Node
      BY DEF Init
    <3>6. /\ up \subseteq Node /\ seed \in Nat /\ shut \subseteq Nat
          /\ faults \in 0 .. MaxFaults
      BY NetworkAssumption DEF Init
    <3> QED
      BY <2>2, <3>1, <3>2, <3>3, <3>4, <3>5, <3>6 DEF TypeOK
<1>2. Offers
  BY NoneLeft DEF Init, Offers, FreshOffers, SingleOffers, Seen
<1>3. Entries /\ PortsLeadToLiveConns
  BY NoneLeft DEF Init, Entries, EventsName, NodesLeadToConns, EntryLostOnlyByReplacement,
                  EndsTaken, PortsLeadToLiveConns, Ids, ConnsTo
<1> QED
  BY <1>1, <1>2, <1>3 DEF IInv

LEMMA StartStep ==
    ASSUME IInv, NEW n \in Node, Start(n)
    PROVE  IInv'
<1>1. <<[type |-> "Update"]>> \in Seq(Request)
  BY DEF Request
<1>2. TypeOK'
  BY <1>1 DEF IInv, TypeOK, Start, Ids, ports, history
<1>3. Offers'
  <2>1. \A i \in DOMAIN queue'[n] : queue'[n][i].type # "Offer"
    BY DEF IInv, TypeOK, Start
  <2>2. \A m \in Node \ {n} : queue'[m] = queue[m]
    BY DEF IInv, TypeOK, Start
  <2>3. UNCHANGED <<inbox, conns, events, seed>>
    BY DEF Start
  <2>4. FreshOffers'
    <3>1. Seen' = Seen /\ Drawn' = Drawn
      BY <2>3 DEF Seen, Drawn
    <3> QED
      BY <2>1, <2>2, <2>3, <3>1 DEF IInv, Offers, FreshOffers
  <2>5. SingleOffers'
    BY <2>1, <2>2, <2>3 DEF IInv, Offers, SingleOffers
  <2> QED
    BY <2>4, <2>5 DEF Offers
<1> QED
  BY <1>2, <1>3, ConnsKept, SamePorts DEF Start, history

LEMMA RegistryWriteStep ==
    ASSUME IInv, NEW n \in Node, RegistryWrite(n)
    PROVE  IInv'
<1> DEFINE req == Head(queue[n])
<1>0. /\ queue[n] \in Seq(Request) /\ queue[n] # <<>>
      /\ queue' = [queue EXCEPT ![n] = Tail(@)] /\ queue \in [Node -> Seq(Request)]
      /\ inbox \in [Node -> Seq(Message)]
      /\ up \subseteq Node
      /\ UNCHANGED <<process, conns, nodes, ports, events, seed, panicked, history>>
  BY DEF IInv, TypeOK, RegistryWrite
<1>1. /\ 1 \in DOMAIN queue[n] /\ req = queue[n][1] /\ req \in Request
      /\ Tail(queue[n]) \in Seq(Request)
      /\ \A i \in DOMAIN Tail(queue[n]) : i \in Nat /\ i + 1 # 1 /\ i + 1 \in DOMAIN queue[n]
                                          /\ Tail(queue[n])[i] = queue[n][i + 1]
  BY <1>0, HeadTail
<1>2. \/ req.type = "Update"
      \/ req.dest \in Node /\ req.conn \in Nat /\ req.type \in {"Offer", "Answer"}
  BY <1>1 DEF Request
<1>3. CASE UNCHANGED inbox
  <2>1. TypeOK'
    BY <1>0, <1>1, <1>3 DEF IInv, TypeOK, Ids, process, ports, history
  <2>2. Offers'
    BY <1>0, <1>3, SameSeen, OffersTaken DEF IInv
  <2> QED
    BY <1>0, <2>1, <2>2, ConnsKept, SamePorts DEF history
<1>4. CASE ~UNCHANGED inbox
  <2>1. PICK d \in Node, x \in Message :
            /\ inbox' = [inbox EXCEPT ![d] = Append(@, x)]
            /\ x.type = "Offer" => /\ req.type = "Offer" /\ d = req.dest /\ x.conn = req.conn
            /\ x.type = "Neighbours" => d \notin x.nodes
    <3>1. CASE req.type = "Update"
      <4> DEFINE x == [type |-> "Neighbours", nodes |-> up \ {n}]
      <4>1. x \in Message /\ x.type = "Neighbours" /\ n \notin x.nodes
        BY <1>0 DEF Message
      <4>2. inbox' = [inbox EXCEPT ![n] = Append(@, x)]
        BY <3>1 DEF RegistryWrite
      <4> HIDE DEF x
      <4> QED
        BY <4>1, <4>2
    <3>2. CASE req.type # "Update"
      <4> DEFINE x == [type |-> req.type, from |-> n, conn |-> req.conn]
      <4>1. x \in Message /\ x.type = req.type /\ x.conn = req.conn /\ x.type # "Neighbours"
        BY <1>2, <3>2 DEF Message
      <4>2. inbox' = [inbox EXCEPT ![req.dest] = Append(@, x)]
        BY <1>4, <3>2 DEF RegistryWrite
      <4> HIDE DEF x
      <4> QED
        BY <1>2, <3>2, <4>1, <4>2
    <3> QED
      BY <3>1, <3>2
  <2> HIDE DEF req
  <2>2. /\ Append(inbox[d], x) \in Seq(Message)
        /\ \A i \in DOMAIN inbox[d] : i # Len(inbox[d]) + 1
        /\ \A i \in DOMAIN Append(inbox[d], x) :
              \/ i \in DOMAIN inbox[d] /\ Append(inbox[d], x)[i] = inbox[d][i]
              \/ i = Len(inbox[d]) + 1 /\ Append(inbox[d], x)[i] = x
    BY <1>0, Appended
  <2>3. inbox'[d] = Append(inbox[d], x) /\ \A m \in Node \ {d} : inbox'[m] = inbox[m]
    BY <1>0, <2>1
  <2>4. queue'[n] = Tail(queue[n]) /\ \A m \in Node \ {n} : queue'[m] = queue[m]
    BY <1>0
  <2>5. TypeOK'
    <3>1. inbox' \in [Node -> Seq(Message)] /\ queue' \in [Node -> Seq(Request)]
      BY <1>0, <1>1, <2>1, <2>2
    <3> QED
      BY <1>0, <3>1 DEF IInv, TypeOK, Ids, process, ports, history
  <2>6. \A m \in Node : \A i \in DOMAIN queue'[m] :
           \E j \in DOMAIN queue[m] : /\ queue'[m][i] = queue[m][j] /\ (m = n => j # 1 /\ j = i + 1)
                                      /\ (m # n => j = i) /\ i \in Nat
    BY <1>0, <1>1, <2>4, Indices
  <2>7. \A m \in Node : \A i \in DOMAIN inbox'[m] :
           \/ i \in DOMAIN inbox[m] /\ inbox'[m][i] = inbox[m][i]
           \/ m = d /\ i = Len(inbox[d]) + 1 /\ inbox'[m][i] = x
    BY <2>2, <2>3
  <2>8. FreshOffers'
    <3>1. Drawn' = Drawn /\ \A m \in Node : Seen'[m] = Seen[m] /\ Seen[m] \subseteq Drawn
      BY <1>0, SameSeen DEF Drawn, IInv, Offers, FreshOffers
    <3>2. req.type = "Offer" => req.conn \in Drawn \ Seen[req.dest]
      BY <1>1 DEF IInv, Offers, FreshOffers
    <3>3. ASSUME NEW m \in Node, NEW i \in DOMAIN queue'[m], queue'[m][i].type = "Offer"
          PROVE  queue'[m][i].conn \in Drawn \ Seen'[queue'[m][i].dest]
      <4>1. PICK j \in DOMAIN queue[m] : queue'[m][i] = queue[m][j]
        BY <2>6
      <4>2. queue[m][j].dest \in Node
        BY <3>3, <4>1 DEF IInv, TypeOK, Request
      <4> QED
        BY <3>1, <3>3, <4>1, <4>2 DEF IInv, Offers, FreshOffers
    <3>4. ASSUME NEW m \in Node, NEW i \in DOMAIN inbox'[m]
          PROVE  /\ inbox'[m][i].type = "Offer" => inbox'[m][i].conn \in Drawn \ Seen'[m]
                 /\ inbox'[m][i].type = "Neighbours" => m \notin inbox'[m][i].nodes
      <4>1. CASE i \in DOMAIN inbox[m] /\ inbox'[m][i] = inbox[m][i]
        BY <3>1, <4>1 DEF IInv, Offers, FreshOffers
      <4>2. CASE m = d /\ inbox'[m][i] = x
        BY <2>1, <3>1, <3>2, <4>2
      <4> QED
        BY <2>7, <4>1, <4>2
    <3> QED
      BY <3>1, <3>3, <3>4 DEF FreshOffers
  <2>9. SingleOffers'
    <3>0. SingleOffers
      BY DEF IInv, Offers
    <3>1. ASSUME NEW k \in Node, NEW m \in Node,
                 NEW i \in DOMAIN queue'[k], NEW j \in DOMAIN queue'[m],
                 queue'[k][i].type = "Offer", queue'[m][j].type = "Offer",
                 queue'[k][i].conn = queue'[m][j].conn
          PROVE  k = m /\ i = j
      <4>1. PICK i1 \in DOMAIN queue[k] : /\ queue'[k][i] = queue[k][i1] /\ i \in Nat
                                          /\ i1 = IF k = n THEN i + 1 ELSE i
        BY <2>6
      <4>2. PICK j1 \in DOMAIN queue[m] : /\ queue'[m][j] = queue[m][j1] /\ j \in Nat
                                          /\ j1 = IF m = n THEN j + 1 ELSE j
        BY <2>6
      <4>3. k = m /\ i1 = j1
        BY <3>0, <3>1, <4>1, <4>2 DEF SingleOffers
      <4> QED
        BY <4>1, <4>2, <4>3
    <3>2. ASSUME NEW k \in Node, NEW m \in Node,
                 NEW i \in DOMAIN inbox'[k], NEW j \in DOMAIN inbox'[m],
                 inbox'[k][i].type = "Offer", inbox'[m][j].type = "Offer",
                 inbox'[k][i].conn = inbox'[m][j].conn
          PROVE  k = m /\ i = j
      <4>1. \A l \in Node : \A h \in DOMAIN inbox[l] :
               inbox[l][h].type = "Offer" /\ x.type = "Offer" => inbox[l][h].conn # x.conn
        BY <1>1, <2>1, <3>0 DEF SingleOffers
      <4> QED
        BY <2>7, <3>0, <3>2, <4>1 DEF SingleOffers
    <3>3. ASSUME NEW k \in Node, NEW m \in Node,
                 NEW i \in DOMAIN queue'[k], NEW j \in DOMAIN inbox'[m],
                 queue'[k][i].type = "Offer", inbox'[m][j].type = "Offer"
          PROVE  queue'[k][i].conn # inbox'[m][j].conn
      <4>1. PICK i1 \in DOMAIN queue[k] : queue'[k][i] = queue[k][i1] /\ (k = n => i1 # 1)
        BY <2>6
      <4>2. CASE j \in DOMAIN inbox[m] /\ inbox'[m][j] = inbox[m][j]
        BY <3>0, <3>3, <4>1, <4>2 DEF SingleOffers
      <4>3. CASE inbox'[m][j] = x
        BY <1>1, <2>1, <3>0, <3>3, <4>1, <4>3 DEF SingleOffers
      <4> QED
        BY <2>7, <4>2, <4>3
    <3> QED
      BY <3>1, <3>2, <3>3 DEF SingleOffers
  <2> QED
    BY <1>0, <2>5, <2>8, <2>9, ConnsKept, SamePorts DEF history, Offers
<1> QED
  BY <1>3, <1>4
LEMMA WriteCancelledStep ==
    ASSUME IInv, NEW n \in Node, WriteCancelled(n)
    PROVE  IInv'
<1>0. /\ queue[n] \in Seq(Request) /\ queue[n] # <<>>
      /\ queue' = [queue EXCEPT ![n] = Tail(@)] /\ queue \in [Node -> Seq(Request)]
      /\ up \subseteq Node
      /\ UNCHANGED <<up, inc, shut, conns, nodes, ports, events, inbox, seed, panicked, doubled,
                     glared>>
  BY DEF IInv, TypeOK, WriteCancelled
<1>1. Head(queue[n]) \in Request /\ Tail(queue[n]) \in Seq(Request)
  BY <1>0, HeadTail
<1>2. queue' \in [Node -> Seq(Request)] /\ faults' \in 0 .. MaxFaults
  BY <1>0, <1>1, NetworkAssumption DEF IInv, TypeOK, WriteCancelled
<1>3. cut' \subseteq SUBSET Node
  <2>1. PICK D : D \subseteq Node /\ cut' = cut \cup {{n, m} : m \in D}
    <3> DEFINE D == IF Head(queue[n]).type = "Update" THEN up \ {n} ELSE {Head(queue[n]).dest}
    <3>1. Head(queue[n]).type # "Update" => Head(queue[n]).dest \in Node
      BY <1>1 DEF Request
    <3>2. D \subseteq Node
      BY <1>0, <3>1
    <3>3. cut' = cut \cup {{n, m} : m \in D}
      BY DEF WriteCancelled
    <3> QED
      BY <3>2, <3>3
  <2>2. cut \subseteq SUBSET Node
    BY DEF IInv, TypeOK
  <2> QED
    BY <2>1, <2>2
<1>4. TypeOK'
  BY <1>0, <1>2, <1>3 DEF IInv, TypeOK, Ids, ports
<1>5. Offers'
  BY <1>0, SameSeen, OffersTaken DEF IInv
<1> QED
  BY <1>0, <1>4, <1>5, ConnsKept, SamePorts

(* A connection of n changes its stage, and nothing else of it. *)
LEMMA Restaged ==
    ASSUME TypeOK, NEW n \in Node, NEW c \in DOMAIN conns[n], NEW conn \in RemoteConnType,
           conn.remote = conns[n][c].remote,
           conns' = [conns EXCEPT ![n] = [conns[n] EXCEPT ![c] = conn]]
    PROVE  /\ DOMAIN conns' = Node
           /\ \A m \in Node : DOMAIN conns'[m] = DOMAIN conns[m] /\ DOMAIN conns[m] \subseteq Nat
           /\ \A m \in Node : \A d \in DOMAIN conns[m] :
                 /\ conns'[m][d] \in RemoteConnType
                 /\ conns'[m][d].remote = conns[m][d].remote
                 /\ m # n \/ d # c => conns'[m][d] = conns[m][d]
           /\ conns'[n][c] = conn
<1>1. /\ DOMAIN conns = Node
      /\ \A m \in Node : /\ DOMAIN conns[m] \subseteq Nat
                         /\ \A d \in DOMAIN conns[m] : conns[m][d] \in RemoteConnType
  BY DEF TypeOK, Ids
<1>2. /\ DOMAIN conns' = Node /\ conns'[n] = [conns[n] EXCEPT ![c] = conn]
      /\ \A m \in Node \ {n} : conns'[m] = conns[m]
  BY <1>1
<1>3. /\ DOMAIN conns'[n] = DOMAIN conns[n] /\ conns'[n][c] = conn
      /\ \A d \in DOMAIN conns[n] : d # c => conns'[n][d] = conns[n][d]
  BY <1>2
<1> QED
  BY <1>1, <1>2, <1>3

LEMMA OnAnswerStep ==
    ASSUME IInv, NEW n \in Node, OnAnswer(n)
    PROVE  IInv'
<1> DEFINE c == Head(inbox[n]).conn
           conn == [conns[n][c] EXCEPT !.pending = FALSE]
<1>0. /\ inbox[n] \in Seq(Message) /\ inbox[n] # <<>>
      /\ inbox' = [inbox EXCEPT ![n] = Tail(@)] /\ inbox \in [Node -> Seq(Message)]
      /\ UNCHANGED <<process, nodes, ports, events, queue, seed, panicked, history>>
  BY DEF IInv, TypeOK, OnAnswer, Take
<1>1. Tail(inbox[n]) \in Seq(Message)
  BY <1>0, HeadTail
<1>2. inbox' \in [Node -> Seq(Message)]
  BY <1>0, <1>1
<1>3. /\ DOMAIN conns' = Node
      /\ \A m \in Node : DOMAIN conns'[m] = DOMAIN conns[m] /\ DOMAIN conns[m] \subseteq Nat
      /\ \A m \in Node : \A d \in DOMAIN conns[m] :
            /\ conns'[m][d] \in RemoteConnType
            /\ conns'[m][d].remote = conns[m][d].remote
            /\ conns'[m][d].lost = conns[m][d].lost
  <2>1. CASE conns' = conns
    BY <2>1 DEF IInv, TypeOK, Ids
  <2>2. CASE conns' # conns
    <3>1. c \in DOMAIN conns[n] /\ conns' = [conns EXCEPT ![n] = [conns[n] EXCEPT ![c] = conn]]
      BY <2>2 DEF OnAnswer, ConnsTo, Ids
    <3>2. conns[n][c] \in RemoteConnType
      BY <3>1 DEF IInv, TypeOK, Ids
    <3>3. /\ conn \in RemoteConnType /\ conn.remote = conns[n][c].remote
          /\ conn.lost = conns[n][c].lost
      BY <3>2 DEF RemoteConnType
    <3> HIDE DEF c, conn
    <3> QED
      BY <3>1, <3>3, Restaged DEF IInv
  <2> QED
    BY <2>1, <2>2
<1>4. TypeOK'
  BY <1>0, <1>2, <1>3 DEF IInv, TypeOK, Ids, process, ports, history
<1>5. Offers'
  BY <1>0, <1>3, SameSeen, OffersTaken DEF IInv
<1> QED
  BY <1>0, <1>3, <1>4, <1>5, ConnsKept, SamePorts DEF history

LEMMA CheckArrivesStep ==
    ASSUME IInv, NEW n \in Node, NEW c \in DOMAIN conns[n], CheckArrives(n, c)
    PROVE  IInv'
<1> DEFINE addr == Address(conns[n][c].remote)
           task == MapRemote(n, addr, c)
           conn == [conns[n][c] EXCEPT !.heard = TRUE]
<1>0. /\ UNCHANGED <<process, nodes, ufrags, events, client, seed, panicked, history>>
      /\ remotes' = [remotes EXCEPT ![n] = @ \cup [addr : {addr}, conn : task]]
      /\ remotes \in [Node -> SUBSET [addr : Node \X Nat, conn : Nat]]
      /\ ufrags \in [Node -> SUBSET Nat]
      /\ conns' = conns \/ conns' = [conns EXCEPT ![n] = [conns[n] EXCEPT ![c] = conn]]
  BY DEF IInv, TypeOK, CheckArrives
<1>1. conns[n][c] \in RemoteConnType
  BY DEF IInv, TypeOK, Ids
<1>2. /\ conn \in RemoteConnType /\ conn.remote = conns[n][c].remote
      /\ conn.lost = conns[n][c].lost
  BY <1>1 DEF RemoteConnType
<1>3. addr \in Node \X Nat
  <2>1. conns[n][c].remote \in Node
    BY <1>1 DEF RemoteConnType
  <2> QED
    BY <2>1 DEF IInv, TypeOK, Address
<1>4. task \subseteq Nat /\ task \subseteq Routed[n]
  <2>1. Mapped(n, addr) \subseteq {r.conn : r \in remotes[n]}
    BY DEF Mapped
  <2>2. {r.conn : r \in remotes[n]} \subseteq Nat
    BY <1>0
  <2>3. Routed[n] = ufrags[n] \cup {r.conn : r \in remotes[n]}
    BY DEF Routed
  <2>4. task \subseteq Mapped(n, addr) \cup ufrags[n]
    BY DEF MapRemote
  <2> HIDE DEF task, addr
  <2> QED
    BY <1>0, <2>1, <2>2, <2>3, <2>4
<1> HIDE DEF addr, task
<1>5. /\ remotes' \in [Node -> SUBSET [addr : Node \X Nat, conn : Nat]]
      /\ \A m \in Node : Routed'[m] \subseteq Routed[m]
  <2>1. [addr : {addr}, conn : task] \subseteq [addr : Node \X Nat, conn : Nat]
    BY <1>3, <1>4
  <2>2. remotes' \in [Node -> SUBSET [addr : Node \X Nat, conn : Nat]]
    BY <1>0, <2>1
  <2>3. remotes'[n] = remotes[n] \cup [addr : {addr}, conn : task]
    BY <1>0
  <2>4. \A r \in [addr : {addr}, conn : task] : r.conn \in task
    OBVIOUS
  <2>5. Routed'[n] \subseteq Routed[n]
    BY <1>0, <1>4, <2>3, <2>4 DEF Routed
  <2>6. \A m \in Node \ {n} : Routed'[m] = Routed[m]
    BY <1>0 DEF Routed
  <2> QED
    BY <2>2, <2>5, <2>6
<1>6. /\ DOMAIN conns' = Node
      /\ \A m \in Node : DOMAIN conns'[m] = DOMAIN conns[m] /\ DOMAIN conns[m] \subseteq Nat
      /\ \A m \in Node : \A d \in DOMAIN conns[m] :
            /\ conns'[m][d] \in RemoteConnType
            /\ conns'[m][d].remote = conns[m][d].remote
            /\ conns'[m][d].lost = conns[m][d].lost
  <2>1. CASE conns' = conns
    BY <2>1 DEF IInv, TypeOK, Ids
  <2>2. CASE conns' = [conns EXCEPT ![n] = [conns[n] EXCEPT ![c] = conn]]
    <3> HIDE DEF conn
    <3> QED
      BY <1>2, <2>2, Restaged DEF IInv
  <2> QED
    BY <1>0, <2>1, <2>2
<1>7. TypeOK'
  BY <1>0, <1>5, <1>6 DEF IInv, TypeOK, Ids, process, client, history
<1>8. Offers'
  BY <1>0, <1>6, SameSeen, OffersTaken DEF IInv, client
<1> QED
  BY <1>0, <1>5, <1>6, <1>7, <1>8, ConnsKept DEF history

LEMMA ChannelOpenStep ==
    ASSUME IInv, NEW n \in Node, NEW c \in DOMAIN conns[n], ChannelOpen(n, c)
    PROVE  IInv'
<1> DEFINE conn == [conns[n][c] EXCEPT !.channel = "open"]
<1>0. /\ UNCHANGED <<process, nodes, ports, events, client, seed, panicked, history>>
      /\ conns' = [conns EXCEPT ![n] = [conns[n] EXCEPT ![c] = conn]]
  BY DEF ChannelOpen
<1>1. conns[n][c] \in RemoteConnType
  BY DEF IInv, TypeOK, Ids
<1>2. /\ conn \in RemoteConnType /\ conn.remote = conns[n][c].remote
      /\ conn.lost = conns[n][c].lost
  BY <1>1 DEF RemoteConnType
<1> HIDE DEF conn
<1>3. /\ DOMAIN conns' = Node
      /\ \A m \in Node : DOMAIN conns'[m] = DOMAIN conns[m] /\ DOMAIN conns[m] \subseteq Nat
      /\ \A m \in Node : \A d \in DOMAIN conns[m] :
            /\ conns'[m][d] \in RemoteConnType
            /\ conns'[m][d].remote = conns[m][d].remote
            /\ conns'[m][d].lost = conns[m][d].lost
  BY <1>0, <1>2, Restaged DEF IInv
<1>4. TypeOK'
  BY <1>0, <1>3 DEF IInv, TypeOK, Ids, process, ports, client, history
<1>5. Offers'
  BY <1>0, <1>3, SameSeen, OffersTaken DEF IInv, client
<1> QED
  BY <1>0, <1>3, <1>4, <1>5, ConnsKept, SamePorts DEF history
------------------------------------------------------------------------------
(* A connection of n ends: it leaves the port, and its end is to be taken. *)
LEMMA DisconnectedStep ==
    ASSUME IInv, NEW n \in Node, NEW c \in DOMAIN conns[n], NEW conn \in RemoteConnType,
           conn.remote = conns[n][c].remote,
           conns' = [conns EXCEPT ![n] = [conns[n] EXCEPT ![c] = conn]],
           Disconnected(n, c), UNCHANGED <<up, inc, shut, nodes, client, seed, panicked, doubled>>,
           faults' \in 0 .. MaxFaults, glared' = glared, cut' \subseteq SUBSET Node
    PROVE  IInv'
<1> DEFINE ended == [conn |-> c, node |-> conns[n][c].remote]
<1>0. /\ ufrags' = [ufrags EXCEPT ![n] = @ \ {c}]
      /\ remotes' = [remotes EXCEPT ![n] = {r \in @ : r.conn # c}]
      /\ events' = [events EXCEPT ![n] = Append(@, ended)]
      /\ ufrags \in [Node -> SUBSET Nat]
      /\ remotes \in [Node -> SUBSET [addr : Node \X Nat, conn : Nat]]
      /\ events \in [Node -> Seq([conn : Nat, node : Node])]
  BY DEF Disconnected, RemoveTask, IInv, TypeOK
<1>1. /\ DOMAIN conns' = Node
      /\ \A m \in Node : DOMAIN conns'[m] = DOMAIN conns[m] /\ DOMAIN conns[m] \subseteq Nat
      /\ \A m \in Node : \A d \in DOMAIN conns[m] :
            /\ conns'[m][d] \in RemoteConnType
            /\ conns'[m][d].remote = conns[m][d].remote
            /\ m # n \/ d # c => conns'[m][d] = conns[m][d]
  BY Restaged DEF IInv
<1>2. ended \in [conn : Nat, node : Node] /\ ended.conn = c /\ ended.node = conns[n][c].remote
  <2>1. c \in Nat /\ conns[n][c] \in RemoteConnType
    BY DEF IInv, TypeOK, Ids
  <2>2. conns[n][c].remote \in Node
    BY <2>1 DEF RemoteConnType
  <2> QED
    BY <2>1, <2>2
<1> HIDE DEF ended
<1>3. /\ Append(events[n], ended) \in Seq([conn : Nat, node : Node])
      /\ Len(events[n]) + 1 \in DOMAIN Append(events[n], ended)
      /\ \A i \in DOMAIN events[n] : i \in DOMAIN Append(events[n], ended)
      /\ \A i \in DOMAIN Append(events[n], ended) :
            \/ i \in DOMAIN events[n] /\ Append(events[n], ended)[i] = events[n][i]
            \/ i = Len(events[n]) + 1 /\ Append(events[n], ended)[i] = ended
  BY <1>0, <1>2, Appended
<1>4. events'[n] = Append(events[n], ended) /\ \A m \in Node \ {n} : events'[m] = events[m]
  BY <1>0
<1>5. \A m \in Node : \A i \in DOMAIN events'[m] :
          \/ i \in DOMAIN events[m] /\ events'[m][i] = events[m][i]
          \/ m = n /\ events'[m][i].conn = c /\ events'[m][i].node = conns[n][c].remote
  BY <1>2, <1>3, <1>4
<1>6. TypeOK'
  <2>1. /\ events' \in [Node -> Seq([conn : Nat, node : Node])]
        /\ ufrags' \in [Node -> SUBSET Nat]
    BY <1>0, <1>3
  <2>2. remotes' \in [Node -> SUBSET [addr : Node \X Nat, conn : Nat]]
    BY <1>0
  <2> QED
    BY <1>1, <2>1, <2>2 DEF IInv, TypeOK, Ids, client
<1>7. Offers'
  <2>1. \A m \in Node : Seen'[m] \subseteq Seen[m]
    BY <1>1, <1>5 DEF Seen
  <2> QED
    BY <2>1, OffersTaken DEF IInv, client
<1>8. EventsName' /\ NodesLeadToConns'
  BY <1>1, <1>5 DEF IInv, Entries, EventsName, NodesLeadToConns, Ids, ConnsTo
<1>9. EntryLostOnlyByReplacement'
  BY <1>1 DEF IInv, Entries, EntryLostOnlyByReplacement, Ids, ConnsTo
<1>10. EndsTaken'
  <2> SUFFICES ASSUME NEW k \in Node, NEW m \in Node, <<k, m>> \notin doubled,
                      NEW d \in DOMAIN conns[k], conns[k][d].remote = m,
                      NEW i \in DOMAIN events'[k], events'[k][i].node = m
               PROVE  events'[k][i].conn = d
    BY <1>1 DEF EndsTaken, ConnsTo, Ids
  <2>1. CASE i \in DOMAIN events[k] /\ events'[k][i] = events[k][i]
    BY <2>1 DEF IInv, Entries, EndsTaken, ConnsTo, Ids
  <2>2. CASE k = n /\ events'[k][i].conn = c /\ events'[k][i].node = conns[n][c].remote
    <3>1. nodes[k][m] = d /\ nodes[k][m] = c
      BY <2>2 DEF IInv, Entries, EntryLostOnlyByReplacement, ConnsTo, Ids
    <3> QED
      BY <2>2, <3>1
  <2> QED
    BY <1>5, <2>1, <2>2
<1>11. PortsLeadToLiveConns'
  <2> SUFFICES ASSUME NEW m \in Node, NEW d \in Routed'[m]
               PROVE  /\ d \in DOMAIN conns'[m] /\ ~conns'[m][d].lost
                      /\ \A i \in DOMAIN events'[m] : events'[m][i].conn # d
    BY DEF PortsLeadToLiveConns, Routed, Ids
  <2>1. d \in Routed[m] /\ (m = n => d # c)
    BY <1>0 DEF Routed
  <2>2. /\ d \in DOMAIN conns[m] /\ ~conns[m][d].lost
        /\ \A i \in DOMAIN events[m] : events[m][i].conn # d
    BY <2>1 DEF IInv, PortsLeadToLiveConns, Routed, Ids
  <2> QED
    BY <1>1, <1>5, <2>1, <2>2
<1> QED
  BY <1>6, <1>7, <1>8, <1>9, <1>10, <1>11 DEF IInv, Entries

LEMMA ConnectionEnds ==
    ASSUME IInv, NEW n \in Node, NEW c \in DOMAIN conns[n],
           ChannelClose(n, c) \/ GiveUp(n, c) \/ Cut(n, c)
    PROVE  IInv'
<1>1. conns[n][c] \in RemoteConnType
  BY DEF IInv, TypeOK, Ids
<1>2. CASE ChannelClose(n, c)
  <2> DEFINE conn == [conns[n][c] EXCEPT !.channel = "closed"]
  <2>1. conn \in RemoteConnType /\ conn.remote = conns[n][c].remote
    BY <1>1 DEF RemoteConnType
  <2>2. conns' = [conns EXCEPT ![n] = [conns[n] EXCEPT ![c] = conn]] /\ Disconnected(n, c)
    BY <1>2 DEF ChannelClose
  <2>3. /\ UNCHANGED <<up, inc, shut, nodes, client, seed, panicked, doubled>>
        /\ faults' \in 0 .. MaxFaults /\ glared' = glared /\ cut' \subseteq SUBSET Node
    BY <1>2 DEF ChannelClose, IInv, TypeOK, process, history
  <2> HIDE DEF conn
  <2> QED
    BY <2>1, <2>2, <2>3, DisconnectedStep
<1>3. CASE GiveUp(n, c) \/ Cut(n, c)
  <2> DEFINE conn == [conns[n][c] EXCEPT !.lost = TRUE]
  <2>1. conn \in RemoteConnType /\ conn.remote = conns[n][c].remote
    BY <1>1 DEF RemoteConnType
  <2>2. conns' = [conns EXCEPT ![n] = [conns[n] EXCEPT ![c] = conn]] /\ Disconnected(n, c)
    BY <1>3 DEF GiveUp, Cut, IceDisconnected
  <2>3. UNCHANGED <<up, inc, shut, nodes, client, seed, panicked, doubled, glared>>
    BY <1>3 DEF GiveUp, Cut, IceDisconnected
  <2>4. faults' \in 0 .. MaxFaults
    BY <1>3, NetworkAssumption DEF GiveUp, Cut, IInv, TypeOK
  <2>5. cut' \subseteq SUBSET Node
    <3>1. conns[n][c].remote \in Node
      BY <1>1 DEF RemoteConnType
    <3>2. {n, conns[n][c].remote} \in SUBSET Node
      BY <3>1
    <3>3. cut' = cut \/ cut' = cut \cup {{n, conns[n][c].remote}}
      BY <1>3 DEF GiveUp, Cut
    <3>4. cut \subseteq SUBSET Node
      BY DEF IInv, TypeOK
    <3> QED
      BY <3>2, <3>3, <3>4
  <2> HIDE DEF conn
  <2> QED
    BY <2>1, <2>2, <2>3, <2>4, <2>5, DisconnectedStep
<1> QED
  BY <1>2, <1>3

LEMMA RecvStep ==
    ASSUME IInv, NEW n \in Node, Recv(n)
    PROVE  IInv'
<1> DEFINE c == Head(events[n]).conn
           m == Head(events[n]).node
<1>0. /\ events[n] # <<>> /\ events' = [events EXCEPT ![n] = Tail(@)]
      /\ conns' = [conns EXCEPT ![n] = Without(@, c)]
      /\ nodes' = [nodes EXCEPT ![n][m] = None]
      /\ events \in [Node -> Seq([conn : Nat, node : Node])]
      /\ DOMAIN conns = Node /\ nodes \in [Node -> [Node -> Nat \cup {None}]]
      /\ UNCHANGED <<process, ports, client, seed, panicked, history>>
  BY DEF Recv, Forget, IInv, TypeOK
<1>1. /\ 1 \in DOMAIN events[n] /\ Head(events[n]) = events[n][1]
      /\ Head(events[n]) \in [conn : Nat, node : Node]
      /\ Tail(events[n]) \in Seq([conn : Nat, node : Node])
      /\ \A i \in DOMAIN Tail(events[n]) :
            i \in Nat /\ i + 1 \in DOMAIN events[n] /\ Tail(events[n])[i] = events[n][i + 1]
  <2>1. events[n] \in Seq([conn : Nat, node : Node]) /\ events[n] # <<>>
    BY <1>0
  <2> QED
    BY <2>1, HeadTail
<1>2. c = events[n][1].conn /\ m = events[n][1].node /\ m \in Node
  BY <1>1
<1> HIDE DEF c, m
<1>3. /\ DOMAIN conns' = Node
      /\ DOMAIN conns'[n] = DOMAIN conns[n] \ {c}
      /\ \A d \in DOMAIN conns'[n] : conns'[n][d] = conns[n][d]
      /\ \A k \in Node \ {n} : conns'[k] = conns[k]
  BY <1>0 DEF Without
<1>4. \A k \in Node : \A i \in DOMAIN events'[k] :
          \E j \in DOMAIN events[k] : events'[k][i] = events[k][j]
  BY <1>0, <1>1
<1>5. \A k, l \in Node : nodes'[k][l] = IF k = n /\ l = m THEN None ELSE nodes[k][l]
  BY <1>0, <1>2
<1>6. TypeOK'
  <2>1. events' \in [Node -> Seq([conn : Nat, node : Node])]
    BY <1>0, <1>1
  <2>2. nodes' \in [Node -> [Node -> Nat \cup {None}]]
    BY <1>0, <1>2
  <2>3. \A k \in Node : /\ DOMAIN conns'[k] \subseteq Nat
                        /\ \A d \in DOMAIN conns'[k] : conns'[k][d] \in RemoteConnType
    BY <1>3 DEF IInv, TypeOK, Ids
  <2> QED
    BY <1>0, <1>3, <2>1, <2>2, <2>3 DEF IInv, TypeOK, Ids, process, ports, client, history
<1>7. Offers'
  <2>1. \A k \in Node : Seen'[k] \subseteq Seen[k]
    BY <1>3, <1>4 DEF Seen
  <2> QED
    BY <1>0, <2>1, OffersTaken DEF IInv, client
<1>8. EventsName'
  BY <1>3, <1>4 DEF IInv, Entries, EventsName, Ids
<1>9. NodesLeadToConns'
  <2> SUFFICES ASSUME NEW k \in Node, NEW l \in Node, nodes'[k][l] # None
               PROVE  nodes'[k][l] \in DOMAIN conns'[k] /\ conns'[k][nodes'[k][l]].remote = l
    BY DEF NodesLeadToConns, ConnsTo, Ids
  <2>1. /\ nodes'[k][l] = nodes[k][l] /\ ~(k = n /\ l = m)
        /\ nodes[k][l] \in DOMAIN conns[k] /\ conns[k][nodes[k][l]].remote = l
    BY <1>5 DEF IInv, Entries, NodesLeadToConns, ConnsTo, Ids
  <2>2. k = n => nodes[k][l] # c
    BY <1>1, <1>2, <2>1 DEF IInv, Entries, EventsName, Ids
  <2> QED
    BY <1>3, <2>1, <2>2
<1>10. EntryLostOnlyByReplacement'
  <2> SUFFICES ASSUME NEW k \in Node, NEW l \in Node, <<k, l>> \notin doubled,
                      NEW d \in DOMAIN conns'[k], conns'[k][d].remote = l
               PROVE  nodes'[k][l] = d
    BY <1>0 DEF EntryLostOnlyByReplacement, ConnsTo, Ids, history
  <2>1. d \in DOMAIN conns[k] /\ conns[k][d].remote = l /\ (k = n => d # c)
    BY <1>3
  <2>2. nodes[k][l] = d
    BY <2>1 DEF IInv, Entries, EntryLostOnlyByReplacement, ConnsTo, Ids
  <2>3. ~(k = n /\ l = m)
    BY <1>1, <1>2, <2>1 DEF IInv, Entries, EndsTaken, ConnsTo, Ids
  <2> QED
    BY <1>5, <2>2, <2>3
<1>11. EndsTaken'
  <2> SUFFICES ASSUME NEW k \in Node, NEW l \in Node, <<k, l>> \notin doubled',
                      NEW d \in DOMAIN conns'[k], conns'[k][d].remote = l,
                      NEW i \in DOMAIN events'[k], events'[k][i].node = l
               PROVE  events'[k][i].conn = d
    BY DEF EndsTaken, ConnsTo, Ids
  <2>1. d \in DOMAIN conns[k] /\ conns[k][d].remote = l
    BY <1>3
  <2>2. PICK j \in DOMAIN events[k] : events'[k][i] = events[k][j]
    BY <1>4
  <2>3. <<k, l>> \notin doubled
    BY <1>0 DEF history
  <2> QED
    BY <2>1, <2>2, <2>3 DEF IInv, Entries, EndsTaken, ConnsTo, Ids
<1>12. PortsLeadToLiveConns'
  <2> SUFFICES ASSUME NEW k \in Node, NEW d \in Routed'[k]
               PROVE  /\ d \in DOMAIN conns'[k] /\ ~conns'[k][d].lost
                      /\ \A i \in DOMAIN events'[k] : events'[k][i].conn # d
    BY DEF PortsLeadToLiveConns, Routed, Ids
  <2>1. d \in Routed[k]
    BY <1>0 DEF Routed, ports
  <2>2. /\ d \in DOMAIN conns[k] /\ ~conns[k][d].lost
        /\ \A i \in DOMAIN events[k] : events[k][i].conn # d
    BY <2>1 DEF IInv, PortsLeadToLiveConns, Routed, Ids
  <2>3. k = n => d # c
    BY <1>1, <1>2, <2>2
  <2> QED
    BY <1>3, <1>4, <2>2, <2>3
<1> QED
  BY <1>6, <1>7, <1>8, <1>9, <1>10, <1>11, <1>12 DEF IInv, Entries

(* A process that ends takes all it has along. *)
LEMMA StopStep ==
    ASSUME IInv, NEW n \in Node, Stop(n)
    PROVE  IInv'
<1>0. /\ conns' = [conns EXCEPT ![n] = <<>>]
      /\ nodes' = [nodes EXCEPT ![n] = [m \in Node |-> None]]
      /\ ufrags' = [ufrags EXCEPT ![n] = {}]
      /\ remotes' = [remotes EXCEPT ![n] = {}]
      /\ events' = [events EXCEPT ![n] = <<>>]
      /\ queue' = [queue EXCEPT ![n] = <<>>]
      /\ inbox' = [inbox EXCEPT ![n] = <<>>]
      /\ doubled' = {p \in doubled : p[1] # n}
      /\ UNCHANGED <<seed, panicked>>
  BY DEF Stop
<1>1. /\ DOMAIN conns = Node
      /\ nodes \in [Node -> [Node -> Nat \cup {None}]]
      /\ ufrags \in [Node -> SUBSET Nat]
      /\ remotes \in [Node -> SUBSET [addr : Node \X Nat, conn : Nat]]
      /\ events \in [Node -> Seq([conn : Nat, node : Node])]
      /\ queue \in [Node -> Seq(Request)]
      /\ inbox \in [Node -> Seq(Message)]
  BY DEF IInv, TypeOK
<1>2. /\ DOMAIN conns' = Node /\ DOMAIN conns'[n] = {} /\ DOMAIN events'[n] = {}
      /\ ufrags'[n] = {} /\ remotes'[n] = {} /\ \A m \in Node : nodes'[n][m] = None
  BY <1>0, <1>1, NoneLeft
<1>3. \A k \in Node \ {n} :
          /\ conns'[k] = conns[k] /\ nodes'[k] = nodes[k] /\ events'[k] = events[k]
          /\ ufrags'[k] = ufrags[k] /\ remotes'[k] = remotes[k]
  BY <1>0, <1>1
<1>4. \A k \in Node \ {n}, m \in Node : <<k, m>> \notin doubled' => <<k, m>> \notin doubled
  BY <1>0
<1>5. TypeOK'
  <2>1. /\ up' \subseteq Node /\ inc' \in [Node -> Nat] /\ faults' \in 0 .. MaxFaults
    BY NetworkAssumption DEF Stop, IInv, TypeOK
  <2>2. /\ events' \in [Node -> Seq([conn : Nat, node : Node])]
        /\ queue' \in [Node -> Seq(Request)] /\ inbox' \in [Node -> Seq(Message)]
    BY <1>0, <1>1, NoneLeft
  <2>3. /\ nodes' \in [Node -> [Node -> Nat \cup {None}]]
        /\ ufrags' \in [Node -> SUBSET Nat]
        /\ remotes' \in [Node -> SUBSET [addr : Node \X Nat, conn : Nat]]
    BY <1>0, <1>1
  <2>4. shut' \subseteq Nat
    BY DEF Stop, IInv, TypeOK
  <2>5. \A m \in Node : /\ DOMAIN conns'[m] \subseteq Nat
                        /\ \A d \in DOMAIN conns'[m] : conns'[m][d] \in RemoteConnType
    BY <1>2, <1>3 DEF IInv, TypeOK, Ids
  <2>6. /\ doubled' \subseteq Node \X Node
        /\ glared' \subseteq SUBSET Node /\ cut' \subseteq SUBSET Node
    BY DEF Stop, IInv, TypeOK
  <2>7. seed' \in Nat
    BY <1>0 DEF IInv, TypeOK
  <2>8. panicked' \in BOOLEAN
    BY <1>0 DEF IInv, TypeOK
  <2> QED
    BY <1>2, <2>1, <2>2, <2>3, <2>4, <2>5, <2>6, <2>7, <2>8 DEF TypeOK, Ids
<1>6. Offers'
  <2>1. \A k \in Node : Seen'[k] \subseteq Seen[k]
    BY <1>2, <1>3 DEF Seen
  <2> QED
    BY <1>0, <2>1, OffersTaken DEF IInv
<1>7. EventsName' /\ NodesLeadToConns'
  BY <1>2, <1>3 DEF IInv, Entries, EventsName, NodesLeadToConns, ConnsTo, Ids
<1>8. EntryLostOnlyByReplacement'
  BY <1>2, <1>3, <1>4 DEF IInv, Entries, EntryLostOnlyByReplacement, ConnsTo, Ids
<1>9. EndsTaken'
  BY <1>2, <1>3, <1>4 DEF IInv, Entries, EndsTaken, ConnsTo, Ids
<1>10. PortsLeadToLiveConns'
  BY <1>2, <1>3 DEF IInv, PortsLeadToLiveConns, Ids
<1> QED
  BY <1>5, <1>6, <1>7, <1>8, <1>9, <1>10 DEF IInv, Entries
------------------------------------------------------------------------------
(* New connections.                                                        *)

(* The offer that is at the front of an inbox is of a connection that is   *)
(* new to its receiver, and it is the only one.                            *)
LEMMA FrontOffer ==
    ASSUME IInv, NEW n \in Node, Take(n, "Offer")
    PROVE  /\ inbox[n] # <<>> /\ Head(inbox[n]) = inbox[n][1]
           /\ Head(inbox[n]).conn \in Drawn /\ Head(inbox[n]).conn \in Nat
           /\ Head(inbox[n]).conn \notin Seen[n]
           /\ Head(inbox[n]).from \in Node
           /\ \A k \in Node : \A i \in DOMAIN queue[k] :
                 queue[k][i].type = "Offer" => queue[k][i].conn # Head(inbox[n]).conn
           /\ \A k \in Node : \A i \in DOMAIN inbox[k] :
                 inbox[k][i].type = "Offer" /\ inbox[k][i].conn = Head(inbox[n]).conn
                     => k = n /\ i = 1
<1>1. inbox[n] \in Seq(Message) /\ inbox[n] # <<>> /\ Head(inbox[n]).type = "Offer"
  BY DEF IInv, TypeOK, Take
<1>2. 1 \in DOMAIN inbox[n] /\ Head(inbox[n]) = inbox[n][1] /\ Head(inbox[n]) \in Message
  BY <1>1, HeadTail
<1>3. Head(inbox[n]).conn \in Nat /\ Head(inbox[n]).from \in Node
  BY <1>1, <1>2 DEF Message
<1>4. Head(inbox[n]).conn \in Drawn /\ Head(inbox[n]).conn \notin Seen[n]
  BY <1>1, <1>2 DEF IInv, Offers, FreshOffers
<1>5. SingleOffers
  BY DEF IInv, Offers
<1> QED
  BY <1>1, <1>2, <1>3, <1>4, <1>5 DEF SingleOffers

LEMMA OnOfferStep ==
    ASSUME IInv, NEW n \in Node, OnOffer(n)
    PROVE  IInv' /\ panicked' = panicked
<1> DEFINE c == Head(inbox[n]).conn
           m == Head(inbox[n]).from
           answer == [type |-> "Answer", dest |-> m, conn |-> c]
<1>0. Take(n, "Offer")
  BY DEF OnOffer
<1>1. /\ inbox[n] # <<>> /\ c \in Drawn /\ c \in Nat /\ c \notin Seen[n] /\ m \in Node
      /\ \A k \in Node : \A i \in DOMAIN queue[k] :
            queue[k][i].type = "Offer" => queue[k][i].conn # c
      /\ \A k \in Node : \A i \in DOMAIN inbox[k] :
            inbox[k][i].type = "Offer" /\ inbox[k][i].conn = c => k = n /\ i = 1
  BY <1>0, FrontOffer
<1>2. c \notin DOMAIN conns[n] /\ \A i \in DOMAIN events[n] : events[n][i].conn # c
  BY <1>1 DEF Seen
<1>3. /\ inbox' = [inbox EXCEPT ![n] = Tail(@)]
      /\ AcceptOffer(n, c, m)
      /\ queue' = [queue EXCEPT ![n] = Append(@, answer)]
      /\ doubled' = doubled \cup ({<<n, m>>} \cap Unsettled(n))
      /\ glared' = glared \/ glared' = glared \cup {{n, m}}
      /\ UNCHANGED <<process, remotes, events, seed, cut, panicked>>
  BY <1>2 DEF OnOffer, Ids
<1>4. /\ conns' = [conns EXCEPT ![n] = With(@, c, RemoteConn(m, FALSE))]
      /\ ufrags' = [ufrags EXCEPT ![n] = @ \cup {c}]
      /\ nodes' = [nodes EXCEPT ![n][m] = c]
  BY <1>3 DEF AcceptOffer
<1>5. answer \in Request /\ answer.type = "Answer"
  BY <1>1 DEF Request
<1> HIDE DEF c, m, answer
<1>6. /\ DOMAIN conns = Node
      /\ nodes \in [Node -> [Node -> Nat \cup {None}]]
      /\ ufrags \in [Node -> SUBSET Nat]
      /\ events \in [Node -> Seq([conn : Nat, node : Node])]
      /\ queue \in [Node -> Seq(Request)]
      /\ inbox \in [Node -> Seq(Message)]
  BY DEF IInv, TypeOK
<1>7. /\ RemoteConn(m, FALSE) \in RemoteConnType
      /\ RemoteConn(m, FALSE).remote = m /\ RemoteConn(m, FALSE).lost = FALSE
  BY <1>1 DEF RemoteConn, RemoteConnType
<1>8. /\ DOMAIN conns' = Node /\ DOMAIN conns'[n] = DOMAIN conns[n] \cup {c}
      /\ conns'[n][c] = RemoteConn(m, FALSE)
      /\ \A d \in DOMAIN conns[n] : conns'[n][d] = conns[n][d]
      /\ \A k \in Node \ {n} : conns'[k] = conns[k]
  BY <1>2, <1>4, <1>6 DEF With
<1>9. \A k, l \in Node : nodes'[k][l] = IF k = n /\ l = m THEN c ELSE nodes[k][l]
  BY <1>1, <1>4, <1>6
<1>10. \A k \in Node : \A i \in DOMAIN queue'[k] :
          \/ i \in DOMAIN queue[k] /\ queue'[k][i] = queue[k][i]
          \/ queue'[k][i] = answer
  BY <1>3, <1>5, <1>6, Appended
<1>11. /\ Tail(inbox[n]) \in Seq(Message)
       /\ \A i \in DOMAIN Tail(inbox[n]) :
            i \in Nat /\ i + 1 # 1 /\ i + 1 \in DOMAIN inbox[n] /\ Tail(inbox[n])[i] = inbox[n][i + 1]
  BY <1>1, <1>6, HeadTail
<1>12. \A k \in Node : \A i \in DOMAIN inbox'[k] :
          \E j \in DOMAIN inbox[k] :
             /\ inbox'[k][i] = inbox[k][j] /\ (k = n => j # 1) /\ i \in Nat
             /\ j = IF k = n THEN i + 1 ELSE i
  BY <1>3, <1>6, <1>11, Indices
<1>13. TypeOK'
  <2>1. queue' \in [Node -> Seq(Request)] /\ inbox' \in [Node -> Seq(Message)]
    BY <1>3, <1>5, <1>6, <1>11, Appended
  <2>2. nodes' \in [Node -> [Node -> Nat \cup {None}]] /\ ufrags' \in [Node -> SUBSET Nat]
    BY <1>1, <1>4, <1>6
  <2>3. \A k \in Node : /\ DOMAIN conns'[k] \subseteq Nat
                        /\ \A d \in DOMAIN conns'[k] : conns'[k][d] \in RemoteConnType
    <3>1. \A k \in Node : /\ DOMAIN conns[k] \subseteq Nat
                          /\ \A d \in DOMAIN conns[k] : conns[k][d] \in RemoteConnType
      BY DEF IInv, TypeOK, Ids
    <3>2. /\ DOMAIN conns'[n] \subseteq Nat
          /\ \A d \in DOMAIN conns'[n] : conns'[n][d] \in RemoteConnType
      <4>1. /\ DOMAIN conns[n] \subseteq Nat
            /\ \A d \in DOMAIN conns[n] : conns[n][d] \in RemoteConnType
        BY <3>1
      <4> QED
        BY <1>1, <1>7, <1>8, <4>1
    <3> QED
      BY <1>8, <3>1, <3>2
  <2>4. doubled' \subseteq Node \X Node
    BY <1>1, <1>3 DEF IInv, TypeOK
  <2>5. glared' \subseteq SUBSET Node
    <3>1. {n, m} \in SUBSET Node /\ glared \subseteq SUBSET Node
      BY <1>1 DEF IInv, TypeOK
    <3> QED
      BY <1>3, <3>1
  <2> QED
    BY <1>3, <1>8, <2>1, <2>2, <2>3, <2>4, <2>5 DEF IInv, TypeOK, Ids, process
<1>14. Seen'[n] = Seen[n] \cup {c} /\ \A k \in Node \ {n} : Seen'[k] = Seen[k]
  BY <1>3, <1>8 DEF Seen
<1>15. FreshOffers'
  <2>1. Drawn' = Drawn /\ \A k \in Node : Seen'[k] \subseteq Drawn
    BY <1>1, <1>3, <1>14 DEF Drawn, IInv, Offers, FreshOffers
  <2>2. ASSUME NEW k \in Node, NEW i \in DOMAIN queue'[k], queue'[k][i].type = "Offer"
        PROVE  queue'[k][i].conn \in Drawn \ Seen'[queue'[k][i].dest]
    <3>1. i \in DOMAIN queue[k] /\ queue'[k][i] = queue[k][i]
      BY <1>5, <1>10, <2>2
    <3>2. queue[k][i].dest \in Node
      BY <2>2, <3>1 DEF IInv, TypeOK, Request
    <3>3. queue[k][i].conn \in Drawn \ Seen[queue[k][i].dest] /\ queue[k][i].conn # c
      BY <1>1, <2>2, <3>1 DEF IInv, Offers, FreshOffers
    <3> QED
      BY <1>14, <3>1, <3>2, <3>3
  <2>3. ASSUME NEW k \in Node, NEW i \in DOMAIN inbox'[k]
        PROVE  /\ inbox'[k][i].type = "Offer" => inbox'[k][i].conn \in Drawn \ Seen'[k]
               /\ inbox'[k][i].type = "Neighbours" => k \notin inbox'[k][i].nodes
    <3>1. PICK j \in DOMAIN inbox[k] : inbox'[k][i] = inbox[k][j] /\ (k = n => j # 1)
      BY <1>12
    <3>2. /\ inbox[k][j].type = "Offer" => inbox[k][j].conn \in Drawn \ Seen[k]
          /\ inbox[k][j].type = "Neighbours" => k \notin inbox[k][j].nodes
      BY DEF IInv, Offers, FreshOffers
    <3>3. inbox[k][j].type = "Offer" /\ k = n => inbox[k][j].conn # c
      BY <1>1, <3>1
    <3> QED
      BY <1>14, <3>1, <3>2, <3>3
  <2> QED
    BY <2>1, <2>2, <2>3 DEF FreshOffers
<1>16. SingleOffers'
  <2>0. SingleOffers
    BY DEF IInv, Offers
  <2>1. \A k \in Node : \A i \in DOMAIN queue'[k] : queue'[k][i].type = "Offer" =>
            i \in DOMAIN queue[k] /\ queue'[k][i] = queue[k][i]
    BY <1>5, <1>10
  <2>2. ASSUME NEW k \in Node, NEW l \in Node,
               NEW i \in DOMAIN inbox'[k], NEW j \in DOMAIN inbox'[l],
               inbox'[k][i].type = "Offer", inbox'[l][j].type = "Offer",
               inbox'[k][i].conn = inbox'[l][j].conn
        PROVE  k = l /\ i = j
    <3>1. PICK i1 \in DOMAIN inbox[k] : /\ inbox'[k][i] = inbox[k][i1] /\ i \in Nat
                                        /\ i1 = IF k = n THEN i + 1 ELSE i
      BY <1>12
    <3>2. PICK j1 \in DOMAIN inbox[l] : /\ inbox'[l][j] = inbox[l][j1] /\ j \in Nat
                                        /\ j1 = IF l = n THEN j + 1 ELSE j
      BY <1>12
    <3>3. k = l /\ i1 = j1
      BY <2>0, <2>2, <3>1, <3>2 DEF SingleOffers
    <3> QED
      BY <3>1, <3>2, <3>3
  <2>3. \A k, l \in Node : \A i \in DOMAIN queue'[k], j \in DOMAIN inbox'[l] :
          queue'[k][i].type = "Offer" /\ inbox'[l][j].type = "Offer"
              => queue'[k][i].conn # inbox'[l][j].conn
    BY <1>12, <2>0, <2>1 DEF SingleOffers
  <2>4. \A k, l \in Node : \A i \in DOMAIN queue'[k], j \in DOMAIN queue'[l] :
          queue'[k][i].type = "Offer" /\ queue'[l][j].type = "Offer"
              /\ queue'[k][i].conn = queue'[l][j].conn => k = l /\ i = j
    BY <2>0, <2>1 DEF SingleOffers
  <2> QED
    BY <2>2, <2>3, <2>4 DEF SingleOffers
<1>17. EventsName' /\ NodesLeadToConns'
  <2>1. EventsName'
    BY <1>2, <1>3, <1>8 DEF IInv, Entries, EventsName, Ids
  <2>2. ASSUME NEW k \in Node, NEW l \in Node, nodes'[k][l] # None
        PROVE  nodes'[k][l] \in DOMAIN conns'[k] /\ conns'[k][nodes'[k][l]].remote = l
    <3>1. CASE k = n /\ l = m
      BY <1>7, <1>8, <1>9, <3>1
    <3>2. CASE ~(k = n /\ l = m)
      <4>1. /\ nodes'[k][l] = nodes[k][l]
            /\ nodes[k][l] \in DOMAIN conns[k] /\ conns[k][nodes[k][l]].remote = l
        BY <1>9, <2>2, <3>2 DEF IInv, Entries, NodesLeadToConns, ConnsTo, Ids
      <4> QED
        BY <1>8, <4>1
    <3> QED
      BY <3>1, <3>2
  <2> QED
    BY <2>1, <2>2 DEF NodesLeadToConns, ConnsTo, Ids
<1>18. ASSUME NEW k \in Node, NEW l \in Node, <<k, l>> \notin doubled',
              NEW d \in DOMAIN conns'[k], conns'[k][d].remote = l
       PROVE  /\ nodes'[k][l] = d
              /\ \A i \in DOMAIN events'[k] : events'[k][i].node = l => events'[k][i].conn = d
  <2>1. <<k, l>> \notin doubled
    BY <1>3, <1>18
  <2>2. CASE k = n /\ l = m
    <3>1. /\ \A e \in DOMAIN conns[n] : conns[n][e].remote # m
          /\ \A i \in DOMAIN events[n] : events[n][i].node # m
      BY <1>3, <1>18, <2>2 DEF Unsettled, Ids
    <3> QED
      BY <1>3, <1>8, <1>9, <1>18, <2>2, <3>1
  <2>3. CASE ~(k = n /\ l = m)
    <3>1. d \in DOMAIN conns[k] /\ conns[k][d].remote = l
      BY <1>7, <1>8, <1>18, <2>3
    <3>2. nodes[k][l] = d
      BY <2>1, <3>1 DEF IInv, Entries, EntryLostOnlyByReplacement, ConnsTo, Ids
    <3>3. \A i \in DOMAIN events[k] : events[k][i].node = l => events[k][i].conn = d
      BY <2>1, <3>1 DEF IInv, Entries, EndsTaken, ConnsTo, Ids
    <3> QED
      BY <1>3, <1>9, <2>3, <3>2, <3>3
  <2> QED
    BY <2>2, <2>3
<1>19. EntryLostOnlyByReplacement' /\ EndsTaken'
  BY <1>18 DEF EntryLostOnlyByReplacement, EndsTaken, ConnsTo, Ids
<1>20. PortsLeadToLiveConns'
  <2> SUFFICES ASSUME NEW k \in Node, NEW d \in Routed'[k]
               PROVE  /\ d \in DOMAIN conns'[k] /\ ~conns'[k][d].lost
                      /\ \A i \in DOMAIN events'[k] : events'[k][i].conn # d
    BY DEF PortsLeadToLiveConns, Routed, Ids
  <2>1. CASE k = n /\ d = c
    BY <1>2, <1>3, <1>7, <1>8, <2>1
  <2>2. CASE ~(k = n /\ d = c)
    <3>1. d \in Routed[k]
      BY <1>3, <1>4, <1>6, <2>2 DEF Routed
    <3>2. /\ d \in DOMAIN conns[k] /\ ~conns[k][d].lost
          /\ \A i \in DOMAIN events[k] : events[k][i].conn # d
      BY <3>1 DEF IInv, PortsLeadToLiveConns, Routed, Ids
    <3> QED
      BY <1>3, <1>8, <3>2
  <2> QED
    BY <2>1, <2>2
<1> QED
  BY <1>3, <1>13, <1>15, <1>16, <1>17, <1>19, <1>20 DEF IInv, Offers, Entries

(* What n does when it connects to each of dests, in the order of order.   *)
Connecting(n, dests, L, order) ==
    /\ \A i, j \in 1 .. L : order[i] = order[j] => i = j
    /\ inbox[n] # <<>> /\ inbox' = [inbox EXCEPT ![n] = Tail(@)]
    /\ nodes' \in [Node -> [Node -> Nat \cup {None}]]
    /\ \A m \in dests : \E i \in 1 .. L : order[i] = m /\ nodes'[n][m] = seed + i
    /\ \A k, m \in Node : k # n \/ m \notin dests => nodes'[k][m] = nodes[k][m]
    /\ DOMAIN conns' = Node
    /\ DOMAIN conns'[n] = DOMAIN conns[n] \cup {seed + i : i \in 1 .. L}
    /\ \A i \in 1 .. L : conns'[n][seed + i] = RemoteConn(order[i], TRUE)
    /\ \A d \in DOMAIN conns[n] : conns'[n][d] = conns[n][d]
    /\ \A k \in Node \ {n} : conns'[k] = conns[k]
    /\ ufrags' = [ufrags EXCEPT ![n] = @ \cup {seed + i : i \in 1 .. L}]
    /\ queue' = [queue EXCEPT ![n] = @ \o
          [i \in 1 .. L |-> [type |-> "Offer", dest |-> order[i], conn |-> seed + i]]]
    /\ seed' = seed + L
    /\ doubled' = doubled \cup (({n} \X dests) \cap Unsettled(n))
    /\ UNCHANGED <<process, remotes, events, panicked, glared, cut>>

LEMMA Connects ==
    ASSUME IInv, NEW n \in Node, OnNeighbours(n)
    PROVE  \E dests \in SUBSET (Node \ {n}), L \in Nat : \E order \in [1 .. L -> dests] :
              Connecting(n, dests, L, order)
<1> DEFINE x     == Head(inbox[n])
           dests == {m \in x.nodes : nodes[n][m] = None}
           order == SetToSeq(dests)
           L     == Cardinality(dests)
           id    == [i \in DOMAIN order |-> RandId(n, i)]
           place == Inverse(order, DOMAIN order, dests)
           new   == Inverse(id, DOMAIN order, Range(id))
<1>1. /\ nodes' = [nodes EXCEPT ![n] =
                           [m \in Node |-> IF m \in dests THEN id[place[m]] ELSE @[m]]]
      /\ conns' = [conns EXCEPT ![n] =
                           [c \in DOMAIN @ \cup DOMAIN new |->
                               IF c \in DOMAIN new THEN RemoteConn(order[new[c]], TRUE) ELSE @[c]]]
      /\ ufrags' = [ufrags EXCEPT ![n] = @ \cup Range(id)]
      /\ queue' = [queue EXCEPT ![n] = @ \o
                           [i \in DOMAIN order |->
                               [type |-> "Offer", dest |-> order[i], conn |-> id[i]]]]
      /\ seed' = seed + Len(order)
      /\ doubled' = doubled \cup (({n} \X dests) \cap Unsettled(n))
      /\ Take(n, "Neighbours") /\ inbox' = [inbox EXCEPT ![n] = Tail(@)]
      /\ UNCHANGED <<process, remotes, events, panicked, glared, cut>>
  BY DEF OnNeighbours
<1>2. /\ inbox[n] \in Seq(Message) /\ inbox[n] # <<>> /\ x.type = "Neighbours"
      /\ DOMAIN conns = Node /\ nodes \in [Node -> [Node -> Nat \cup {None}]] /\ seed \in Nat
  BY <1>1 DEF IInv, TypeOK, Take
<1>3. 1 \in DOMAIN inbox[n] /\ x = inbox[n][1] /\ x \in Message
  BY <1>2, HeadTail
<1>4. x.nodes \subseteq Node /\ n \notin x.nodes
  BY <1>2, <1>3 DEF Message, IInv, Offers, FreshOffers
<1>5. dests \subseteq Node \ {n} /\ IsFiniteSet(dests)
  BY <1>4, NetworkAssumption, FS_Subset
<1> HIDE DEF x, dests
<1>6. /\ L \in Nat /\ order \in [1 .. L -> dests]
      /\ \A i, j \in 1 .. L : order[i] = order[j] => i = j
      /\ \A e \in dests : \E i \in 1 .. L : order[i] = e
  BY <1>5, Ordered
<1> HIDE DEF order, L
<1>7. DOMAIN order = 1 .. L /\ Len(order) = L
  BY <1>6
<1>8. id = [i \in 1 .. L |-> seed + i] /\ Range(id) = {seed + i : i \in 1 .. L}
  BY <1>7 DEF RandId, Range
<1>9. \A m \in dests : place[m] \in 1 .. L /\ order[place[m]] = m
  <2> SUFFICES ASSUME NEW m \in dests PROVE place[m] \in 1 .. L /\ order[place[m]] = m
    OBVIOUS
  <2>1. m \in Range(order)
    BY <1>6, <1>7 DEF Range
  <2>2. place[m] = CHOOSE i \in 1 .. L : m \in Range(order) => order[i] = m
    BY <1>7 DEF Inverse
  <2>3. \E i \in 1 .. L : m \in Range(order) => order[i] = m
    BY <1>6
  <2> HIDE DEF place
  <2> QED
    BY <2>1, <2>2, <2>3
<1> HIDE DEF place
<1>10. /\ DOMAIN new = {seed + i : i \in 1 .. L}
       /\ \A i \in 1 .. L : new[seed + i] = i
  <2>1. DOMAIN new = {seed + i : i \in 1 .. L}
    BY <1>8 DEF Inverse
  <2> SUFFICES ASSUME NEW i \in 1 .. L PROVE new[seed + i] = i
    BY <2>1
  <2>2. seed + i \in Range(id)
    BY <1>8
  <2>3. new[seed + i] = CHOOSE j \in 1 .. L : seed + i \in Range(id) => id[j] = seed + i
    BY <1>7, <2>2 DEF Inverse
  <2>4. id[i] = seed + i /\ \A j \in 1 .. L : id[j] = seed + j
    BY <1>8
  <2> HIDE DEF new, id
  <2>5. new[seed + i] \in 1 .. L /\ id[new[seed + i]] = seed + i
    BY <2>2, <2>3, <2>4
  <2> QED
    BY <1>2, <1>6, <2>4, <2>5
<1>11. \A d \in DOMAIN conns[n] : d \notin {seed + i : i \in 1 .. L}
  <2>1. Seen[n] \subseteq 1 .. seed
    BY DEF IInv, Offers, FreshOffers, Drawn
  <2>2. DOMAIN conns[n] \subseteq 1 .. seed
    BY <2>1 DEF Seen
  <2> QED
    BY <1>2, <1>6, <2>2
<1> HIDE DEF new
<1>12. /\ DOMAIN conns' = Node
       /\ DOMAIN conns'[n] = DOMAIN conns[n] \cup {seed + i : i \in 1 .. L}
       /\ \A i \in 1 .. L : conns'[n][seed + i] = RemoteConn(order[i], TRUE)
       /\ \A d \in DOMAIN conns[n] : conns'[n][d] = conns[n][d]
       /\ \A k \in Node \ {n} : conns'[k] = conns[k]
  BY <1>1, <1>2, <1>10, <1>11
<1>13. /\ \A m \in dests : \E i \in 1 .. L : order[i] = m /\ nodes'[n][m] = seed + i
       /\ \A k, m \in Node : k # n \/ m \notin dests => nodes'[k][m] = nodes[k][m]
       /\ nodes' \in [Node -> [Node -> Nat \cup {None}]]
  <2>1. \A m \in dests : id[place[m]] = seed + place[m]
    BY <1>8, <1>9
  <2> HIDE DEF id
  <2>2. \A m \in dests : nodes'[n][m] = seed + place[m]
    BY <1>1, <1>2, <1>5, <2>1
  <2>3. \A k, m \in Node : k # n \/ m \notin dests => nodes'[k][m] = nodes[k][m]
    BY <1>1, <1>2
  <2>4. \A m \in dests : seed + place[m] \in Nat
    BY <1>2, <1>9
  <2>5. nodes' \in [Node -> [Node -> Nat \cup {None}]]
    BY <1>1, <1>2, <2>1, <2>4
  <2> QED
    BY <1>9, <2>2, <2>3, <2>5
<1>14. queue' = [queue EXCEPT ![n] = @ \o
          [i \in 1 .. L |-> [type |-> "Offer", dest |-> order[i], conn |-> seed + i]]]
  <2>1. [i \in DOMAIN order |-> [type |-> "Offer", dest |-> order[i], conn |-> id[i]]]
            = [i \in 1 .. L |-> [type |-> "Offer", dest |-> order[i], conn |-> seed + i]]
    BY <1>7, <1>8
  <2> QED
    BY <1>1, <2>1
<1>15. ufrags' = [ufrags EXCEPT ![n] = @ \cup {seed + i : i \in 1 .. L}] /\ seed' = seed + L
  BY <1>1, <1>7, <1>8
<1> HIDE DEF id
<1>16. /\ inbox[n] # <<>> /\ inbox' = [inbox EXCEPT ![n] = Tail(@)]
       /\ doubled' = doubled \cup (({n} \X dests) \cap Unsettled(n))
       /\ UNCHANGED <<process, remotes, events, panicked, glared, cut>>
  BY <1>1, <1>2
<1>17. Connecting(n, dests, L, order)
  BY <1>6, <1>12, <1>13, <1>14, <1>15, <1>16 DEF Connecting
<1> QED
  BY <1>5, <1>6, <1>17

LEMMA OnNeighboursStep ==
    ASSUME IInv, NEW n \in Node, OnNeighbours(n)
    PROVE  IInv'
<1>1. PICK dests \in SUBSET (Node \ {n}), L \in Nat : \E order \in [1 .. L -> dests] :
          Connecting(n, dests, L, order)
  BY Connects
<1>2. PICK order \in [1 .. L -> dests] : Connecting(n, dests, L, order)
  BY <1>1
<1> DEFINE New == {seed + i : i \in 1 .. L}
           offer == [i \in 1 .. L |-> [type |-> "Offer", dest |-> order[i], conn |-> seed + i]]
<1>3. /\ inbox[n] # <<>> /\ inbox' = [inbox EXCEPT ![n] = Tail(@)]
      /\ ufrags' = [ufrags EXCEPT ![n] = @ \cup New]
      /\ seed' = seed + L
      /\ doubled' = doubled \cup (({n} \X dests) \cap Unsettled(n))
      /\ UNCHANGED <<process, remotes, events, panicked, glared, cut>>
  BY <1>2 DEF Connecting
<1>3n. /\ \A i, j \in 1 .. L : order[i] = order[j] => i = j
       /\ nodes' \in [Node -> [Node -> Nat \cup {None}]]
       /\ \A m \in dests : \E i \in 1 .. L : order[i] = m /\ nodes'[n][m] = seed + i
       /\ \A k, m \in Node : k # n \/ m \notin dests => nodes'[k][m] = nodes[k][m]
  BY <1>2 DEF Connecting
<1>3c. /\ DOMAIN conns' = Node
       /\ DOMAIN conns'[n] = DOMAIN conns[n] \cup New
       /\ \A i \in 1 .. L : conns'[n][seed + i] = RemoteConn(order[i], TRUE)
       /\ \A d \in DOMAIN conns[n] : conns'[n][d] = conns[n][d]
       /\ \A k \in Node \ {n} : conns'[k] = conns[k]
  BY <1>2 DEF Connecting
<1>3q. queue' = [queue EXCEPT ![n] = @ \o offer]
  BY <1>2 DEF Connecting
<1>4. /\ ufrags \in [Node -> SUBSET Nat]
      /\ events \in [Node -> Seq([conn : Nat, node : Node])]
      /\ queue \in [Node -> Seq(Request)] /\ inbox \in [Node -> Seq(Message)]
      /\ seed \in Nat
  BY DEF IInv, TypeOK
<1>5. /\ offer \in Seq(Request) /\ Len(offer) = L
      /\ \A i \in 1 .. L : /\ offer[i].type = "Offer" /\ offer[i].dest = order[i]
                            /\ offer[i].conn = seed + i
  <2>1. \A i \in 1 .. L : seed + i \in Nat /\ order[i] \in Node
    BY <1>4
  <2>2. \A i \in 1 .. L : offer[i] \in Request
    BY <2>1 DEF Request
  <2> QED
    BY <2>2
<1>6. /\ New \subseteq Nat /\ New \subseteq Drawn' /\ Drawn \subseteq Drawn'
      /\ New \cap Drawn = {}
  BY <1>3, <1>4 DEF Drawn
<1>7. \A c \in New : \E i \in 1 .. L : c = seed + i
  OBVIOUS
<1>8. \A i \in 1 .. L : seed + i \in New
  OBVIOUS
<1> HIDE DEF New, offer
<1>9. \A i \in 1 .. L : /\ RemoteConn(order[i], TRUE) \in RemoteConnType
                        /\ RemoteConn(order[i], TRUE).remote = order[i]
                        /\ RemoteConn(order[i], TRUE).lost = FALSE
  BY DEF RemoteConn, RemoteConnType
<1>10. \A c \in New : /\ conns'[n][c] \in RemoteConnType /\ ~conns'[n][c].lost
                      /\ \E i \in 1 .. L : c = seed + i /\ conns'[n][c].remote = order[i]
  <2> SUFFICES ASSUME NEW c \in New
               PROVE  /\ conns'[n][c] \in RemoteConnType /\ ~conns'[n][c].lost
                      /\ \E i \in 1 .. L : c = seed + i /\ conns'[n][c].remote = order[i]
    OBVIOUS
  <2>1. PICK i \in 1 .. L : c = seed + i
    BY <1>7
  <2>2. conns'[n][c] = RemoteConn(order[i], TRUE)
    BY <1>3c, <2>1
  <2> QED
    BY <1>9, <2>1, <2>2
<1>11. /\ queue'[n] \in Seq(Request)
       /\ \A i \in DOMAIN queue'[n] :
             \/ i \in DOMAIN queue[n] /\ queue'[n][i] = queue[n][i]
             \/ \E j \in 1 .. L : i = Len(queue[n]) + j /\ queue'[n][i] = offer[j]
       /\ \A k \in Node \ {n} : queue'[k] = queue[k]
  <2>1. queue'[n] = queue[n] \o offer /\ \A k \in Node \ {n} : queue'[k] = queue[k]
    BY <1>3q, <1>4
  <2>2. /\ queue[n] \o offer \in Seq(Request)
        /\ Len(queue[n] \o offer) = Len(queue[n]) + L
        /\ \A i \in 1 .. Len(queue[n]) + L : (queue[n] \o offer)[i] =
               IF i <= Len(queue[n]) THEN queue[n][i] ELSE offer[i - Len(queue[n])]
    <3>1. queue[n] \in Seq(Request) /\ offer \in Seq(Request) /\ Len(offer) = L
      BY <1>4, <1>5
    <3> HIDE DEF offer
    <3> QED
      BY <3>1, ConcatProperties
  <2>3. DOMAIN (queue[n] \o offer) = 1 .. Len(queue[n]) + L
    BY <2>2
  <2>4. DOMAIN queue[n] = 1 .. Len(queue[n]) /\ Len(queue[n]) \in Nat
    BY <1>4
  <2>5. ASSUME NEW i \in 1 .. Len(queue[n]) + L
        PROVE  \/ i \in DOMAIN queue[n] /\ (queue[n] \o offer)[i] = queue[n][i]
               \/ \E j \in 1 .. L : i = Len(queue[n]) + j /\ (queue[n] \o offer)[i] = offer[j]
    <3>1. CASE i <= Len(queue[n])
      BY <2>2, <2>4, <3>1
    <3>2. CASE ~(i <= Len(queue[n]))
      <4>1. i - Len(queue[n]) \in 1 .. L /\ i = Len(queue[n]) + (i - Len(queue[n]))
        BY <2>4, <3>2
      <4>2. (queue[n] \o offer)[i] = offer[i - Len(queue[n])]
        BY <2>2, <3>2
      <4> QED
        BY <4>1, <4>2
    <3> QED
      BY <3>1, <3>2
  <2> QED
    BY <2>1, <2>2, <2>3, <2>5
<1>12. \A k \in Node : \A i \in DOMAIN queue'[k] :
          \/ i \in DOMAIN queue[k] /\ queue'[k][i] = queue[k][i]
          \/ /\ k = n /\ queue'[k][i].dest \in dests
             /\ \E j \in 1 .. L : i = Len(queue[n]) + j /\ queue'[k][i].conn = seed + j
  BY <1>5, <1>11
<1>13. /\ Tail(inbox[n]) \in Seq(Message)
       /\ \A i \in DOMAIN Tail(inbox[n]) :
            i \in Nat /\ i + 1 \in DOMAIN inbox[n] /\ Tail(inbox[n])[i] = inbox[n][i + 1]
  BY <1>3, <1>4, HeadTail
<1>14. \A k \in Node : \A i \in DOMAIN inbox'[k] :
          \E j \in DOMAIN inbox[k] :
             /\ inbox'[k][i] = inbox[k][j] /\ i \in Nat
             /\ j = IF k = n THEN i + 1 ELSE i
  BY <1>3, <1>4, <1>13, Indices
<1>15. TypeOK'
  <2>1. queue' \in [Node -> Seq(Request)] /\ inbox' \in [Node -> Seq(Message)]
    BY <1>3, <1>3q, <1>4, <1>11, <1>13
  <2>2. ufrags' \in [Node -> SUBSET Nat] /\ seed' \in Nat
    <3>1. ufrags[n] \cup New \in SUBSET Nat
      BY <1>4, <1>6
    <3> QED
      BY <1>3, <1>4, <3>1
  <2>3. \A k \in Node : /\ DOMAIN conns'[k] \subseteq Nat
                        /\ \A d \in DOMAIN conns'[k] : conns'[k][d] \in RemoteConnType
    <3>1. \A k \in Node : /\ DOMAIN conns[k] \subseteq Nat
                          /\ \A d \in DOMAIN conns[k] : conns[k][d] \in RemoteConnType
      BY DEF IInv, TypeOK, Ids
    <3>2. /\ DOMAIN conns'[n] \subseteq Nat
          /\ \A d \in DOMAIN conns'[n] : conns'[n][d] \in RemoteConnType
      BY <1>3c, <1>6, <1>10, <3>1
    <3> QED
      BY <1>3c, <3>1, <3>2
  <2>4. doubled' \subseteq Node \X Node
    BY <1>3 DEF IInv, TypeOK
  <2> QED
    BY <1>3, <1>3n, <1>3c, <2>1, <2>2, <2>3, <2>4 DEF IInv, TypeOK, Ids, process
<1>16. /\ Seen'[n] = Seen[n] \cup New /\ \A k \in Node \ {n} : Seen'[k] = Seen[k]
       /\ \A k \in Node : Seen[k] \subseteq Drawn
  <2>1. Seen'[n] = Seen[n] \cup New /\ \A k \in Node \ {n} : Seen'[k] = Seen[k]
    BY <1>3, <1>3c DEF Seen
  <2> QED
    BY <2>1 DEF IInv, Offers, FreshOffers
<1>17. FreshOffers'
  <2>1. \A k \in Node : Seen'[k] \subseteq Drawn'
    BY <1>6, <1>16
  <2>2. ASSUME NEW k \in Node, NEW i \in DOMAIN queue'[k], queue'[k][i].type = "Offer"
        PROVE  queue'[k][i].conn \in Drawn' \ Seen'[queue'[k][i].dest]
    <3>1. CASE i \in DOMAIN queue[k] /\ queue'[k][i] = queue[k][i]
      <4>1. queue[k][i].dest \in Node
        BY <2>2, <3>1 DEF IInv, TypeOK, Request
      <4>2. queue[k][i].conn \in Drawn \ Seen[queue[k][i].dest]
        BY <2>2, <3>1 DEF IInv, Offers, FreshOffers
      <4> QED
        BY <1>6, <1>16, <3>1, <4>1, <4>2
    <3>2. CASE queue'[k][i].dest \in dests /\ \E j \in 1 .. L : queue'[k][i].conn = seed + j
      <4>1. queue'[k][i].conn \in New /\ queue'[k][i].dest \in Node \ {n}
        BY <1>8, <3>2
      <4> QED
        BY <1>6, <1>16, <4>1
    <3> QED
      BY <1>12, <3>1, <3>2
  <2>3. ASSUME NEW k \in Node, NEW i \in DOMAIN inbox'[k]
        PROVE  /\ inbox'[k][i].type = "Offer" => inbox'[k][i].conn \in Drawn' \ Seen'[k]
               /\ inbox'[k][i].type = "Neighbours" => k \notin inbox'[k][i].nodes
    <3>1. PICK j \in DOMAIN inbox[k] : inbox'[k][i] = inbox[k][j]
      BY <1>14
    <3>2. /\ inbox[k][j].type = "Offer" => inbox[k][j].conn \in Drawn \ Seen[k]
          /\ inbox[k][j].type = "Neighbours" => k \notin inbox[k][j].nodes
      BY DEF IInv, Offers, FreshOffers
    <3> QED
      BY <1>6, <1>16, <3>1, <3>2
  <2> QED
    BY <2>1, <2>2, <2>3 DEF FreshOffers
<1>18. SingleOffers'
  <2>0. SingleOffers
    BY DEF IInv, Offers
  <2>1. \A k \in Node : \A i \in DOMAIN queue'[k] : queue'[k][i].type = "Offer" =>
            \/ i \in DOMAIN queue[k] /\ queue'[k][i] = queue[k][i] /\ queue[k][i].conn \in Drawn
            \/ /\ k = n /\ queue'[k][i].conn \in New
               /\ \E j \in 1 .. L : i = Len(queue[n]) + j /\ queue'[k][i].conn = seed + j
    BY <1>8, <1>12 DEF IInv, Offers, FreshOffers
  <2>2. \A k \in Node : \A i \in DOMAIN inbox[k] :
            inbox[k][i].type = "Offer" => inbox[k][i].conn \in Drawn
    BY DEF IInv, Offers, FreshOffers
  <2>3. ASSUME NEW k \in Node, NEW l \in Node,
               NEW i \in DOMAIN queue'[k], NEW j \in DOMAIN queue'[l],
               queue'[k][i].type = "Offer", queue'[l][j].type = "Offer",
               queue'[k][i].conn = queue'[l][j].conn
        PROVE  k = l /\ i = j
    <3>1. CASE queue'[k][i].conn \in Drawn
      <4>1. /\ i \in DOMAIN queue[k] /\ queue'[k][i] = queue[k][i]
            /\ j \in DOMAIN queue[l] /\ queue'[l][j] = queue[l][j]
        BY <1>6, <2>1, <2>3, <3>1
      <4> QED
        BY <2>0, <2>3, <4>1 DEF SingleOffers
    <3>2. CASE queue'[k][i].conn \notin Drawn
      <4>1. PICK i1 \in 1 .. L : /\ k = n /\ i = Len(queue[n]) + i1
                                 /\ queue'[k][i].conn = seed + i1
        BY <2>1, <2>3, <3>2
      <4>2. PICK j1 \in 1 .. L : /\ l = n /\ j = Len(queue[n]) + j1
                                 /\ queue'[l][j].conn = seed + j1
        BY <2>1, <2>3, <3>2
      <4>3. i1 = j1
        BY <1>4, <2>3, <4>1, <4>2
      <4> QED
        BY <4>1, <4>2, <4>3
    <3> QED
      BY <3>1, <3>2
  <2>4. ASSUME NEW k \in Node, NEW l \in Node,
               NEW i \in DOMAIN inbox'[k], NEW j \in DOMAIN inbox'[l],
               inbox'[k][i].type = "Offer", inbox'[l][j].type = "Offer",
               inbox'[k][i].conn = inbox'[l][j].conn
        PROVE  k = l /\ i = j
    <3>1. PICK i1 \in DOMAIN inbox[k] : /\ inbox'[k][i] = inbox[k][i1] /\ i \in Nat
                                        /\ i1 = IF k = n THEN i + 1 ELSE i
      BY <1>14
    <3>2. PICK j1 \in DOMAIN inbox[l] : /\ inbox'[l][j] = inbox[l][j1] /\ j \in Nat
                                        /\ j1 = IF l = n THEN j + 1 ELSE j
      BY <1>14
    <3>3. k = l /\ i1 = j1
      BY <2>0, <2>4, <3>1, <3>2 DEF SingleOffers
    <3> QED
      BY <3>1, <3>2, <3>3
  <2>5. ASSUME NEW k \in Node, NEW l \in Node,
               NEW i \in DOMAIN queue'[k], NEW j \in DOMAIN inbox'[l],
               queue'[k][i].type = "Offer", inbox'[l][j].type = "Offer"
        PROVE  queue'[k][i].conn # inbox'[l][j].conn
    <3>1. PICK j1 \in DOMAIN inbox[l] : inbox'[l][j] = inbox[l][j1]
      BY <1>14
    <3>2. CASE i \in DOMAIN queue[k] /\ queue'[k][i] = queue[k][i]
      BY <2>0, <2>5, <3>1, <3>2 DEF SingleOffers
    <3>3. CASE queue'[k][i].conn \in New
      BY <1>6, <2>2, <2>5, <3>1, <3>3
    <3> QED
      BY <2>1, <2>5, <3>2, <3>3
  <2> QED
    BY <2>3, <2>4, <2>5 DEF SingleOffers
<1>19. \A i \in DOMAIN events[n] : events[n][i].conn \notin New
  <2>1. \A i \in DOMAIN events[n] : events[n][i].conn \in Seen[n]
    BY DEF Seen
  <2> QED
    BY <1>6, <1>16, <2>1
<1>20. EventsName' /\ NodesLeadToConns'
  <2>1. EventsName'
    <3> SUFFICES ASSUME NEW k \in Node, NEW i \in DOMAIN events[k],
                        events[k][i].conn \in DOMAIN conns'[k]
                 PROVE  conns'[k][events[k][i].conn].remote = events[k][i].node
      BY <1>3 DEF EventsName, Ids
    <3>1. /\ events[k][i].conn \in DOMAIN conns[k]
          /\ conns'[k][events[k][i].conn] = conns[k][events[k][i].conn]
      BY <1>3c, <1>19
    <3> QED
      BY <3>1 DEF IInv, Entries, EventsName, Ids
  <2>2. ASSUME NEW k \in Node, NEW l \in Node, nodes'[k][l] # None
        PROVE  nodes'[k][l] \in DOMAIN conns'[k] /\ conns'[k][nodes'[k][l]].remote = l
    <3>1. CASE k = n /\ l \in dests
      <4>1. PICK i \in 1 .. L : order[i] = l /\ nodes'[n][l] = seed + i
        BY <1>3n, <3>1
      <4>2. conns'[n][seed + i].remote = l /\ seed + i \in DOMAIN conns'[n]
        BY <1>3c, <1>8, <1>9, <4>1
      <4> QED
        BY <3>1, <4>1, <4>2
    <3>2. CASE ~(k = n /\ l \in dests)
      <4>1. /\ nodes'[k][l] = nodes[k][l]
            /\ nodes[k][l] \in DOMAIN conns[k] /\ conns[k][nodes[k][l]].remote = l
        BY <1>3n, <2>2, <3>2 DEF IInv, Entries, NodesLeadToConns, ConnsTo, Ids
      <4> QED
        BY <1>3c, <4>1
    <3> QED
      BY <3>1, <3>2
  <2> QED
    BY <2>1, <2>2 DEF NodesLeadToConns, ConnsTo, Ids
<1>21. ASSUME NEW k \in Node, NEW l \in Node, <<k, l>> \notin doubled',
              NEW d \in DOMAIN conns'[k], conns'[k][d].remote = l
       PROVE  /\ nodes'[k][l] = d
              /\ \A i \in DOMAIN events'[k] : events'[k][i].node = l => events'[k][i].conn = d
  <2>1. <<k, l>> \notin doubled
    BY <1>3, <1>21
  <2>2. CASE k = n /\ l \in dests
    <3>1. /\ \A e \in DOMAIN conns[n] : conns[n][e].remote # l
          /\ \A i \in DOMAIN events[n] : events[n][i].node # l
      BY <1>3, <1>21, <2>2 DEF Unsettled, Ids
    <3>2. d \in New
      BY <1>3c, <1>21, <2>2, <3>1
    <3>3. PICK i \in 1 .. L : d = seed + i /\ l = order[i]
      BY <1>10, <1>21, <2>2, <3>2
    <3>4. PICK j \in 1 .. L : order[j] = l /\ nodes'[n][l] = seed + j
      BY <1>3n, <2>2
    <3>5. nodes'[k][l] = d
      BY <1>3n, <2>2, <3>3, <3>4
    <3> QED
      BY <1>3, <2>2, <3>1, <3>5
  <2>3. CASE ~(k = n /\ l \in dests)
    <3>1. d \in DOMAIN conns[k] /\ conns[k][d].remote = l
      BY <1>3c, <1>10, <1>21, <2>3
    <3>2. nodes[k][l] = d
      BY <2>1, <3>1 DEF IInv, Entries, EntryLostOnlyByReplacement, ConnsTo, Ids
    <3>3. \A i \in DOMAIN events[k] : events[k][i].node = l => events[k][i].conn = d
      BY <2>1, <3>1 DEF IInv, Entries, EndsTaken, ConnsTo, Ids
    <3> QED
      BY <1>3, <1>3n, <2>3, <3>2, <3>3
  <2> QED
    BY <2>2, <2>3
<1>22. EntryLostOnlyByReplacement' /\ EndsTaken'
  BY <1>21 DEF EntryLostOnlyByReplacement, EndsTaken, ConnsTo, Ids
<1>23. PortsLeadToLiveConns'
  <2> SUFFICES ASSUME NEW k \in Node, NEW d \in Routed'[k]
               PROVE  /\ d \in DOMAIN conns'[k] /\ ~conns'[k][d].lost
                      /\ \A i \in DOMAIN events'[k] : events'[k][i].conn # d
    BY DEF PortsLeadToLiveConns, Routed, Ids
  <2>1. CASE k = n /\ d \in New
    BY <1>3, <1>3c, <1>10, <1>19, <2>1
  <2>2. CASE ~(k = n /\ d \in New)
    <3>1. d \in Routed[k]
      BY <1>3, <1>4, <2>2 DEF Routed
    <3>2. /\ d \in DOMAIN conns[k] /\ ~conns[k][d].lost
          /\ \A i \in DOMAIN events[k] : events[k][i].conn # d
      BY <3>1 DEF IInv, PortsLeadToLiveConns, Routed, Ids
    <3> QED
      BY <1>3, <1>3c, <3>2
  <2> QED
    BY <2>1, <2>2
<1> QED
  BY <1>15, <1>17, <1>18, <1>20, <1>22, <1>23 DEF IInv, Offers, Entries
------------------------------------------------------------------------------
LEMMA NetworkStep ==
    ASSUME IInv, Next
    PROVE  IInv' /\ panicked' = panicked
<1>1. PICK n \in Node : Start(n) \/ Progress(n) \/ Fault(n)
  BY DEF Next
<1>2. CASE Start(n)
  BY <1>2, StartStep DEF Start
<1>3. CASE RegistryWrite(n)
  BY <1>3, RegistryWriteStep DEF RegistryWrite
<1>4. CASE OnNeighbours(n)
  BY <1>4, OnNeighboursStep DEF OnNeighbours
<1>5. CASE OnOffer(n)
  BY <1>5, OnOfferStep
<1>6. CASE OnAnswer(n)
  BY <1>6, OnAnswerStep DEF OnAnswer
<1>7. CASE Recv(n)
  BY <1>7, RecvStep DEF Recv
<1>8. ASSUME NEW c \in DOMAIN conns[n], CheckArrives(n, c) \/ ChannelOpen(n, c)
      PROVE  IInv' /\ panicked' = panicked
  BY <1>8, CheckArrivesStep, ChannelOpenStep DEF CheckArrives, ChannelOpen
<1>9. ASSUME NEW c \in DOMAIN conns[n], ChannelClose(n, c) \/ GiveUp(n, c) \/ Cut(n, c)
      PROVE  IInv' /\ panicked' = panicked
  BY <1>9, ConnectionEnds DEF ChannelClose, GiveUp, Cut, IceDisconnected
<1>10. CASE Stop(n)
  BY <1>10, StopStep DEF Stop
<1>11. CASE WriteCancelled(n)
  BY <1>11, WriteCancelledStep DEF WriteCancelled
<1> QED
  BY <1>1, <1>2, <1>3, <1>4, <1>5, <1>6, <1>7, <1>8, <1>9, <1>10, <1>11
     DEF Progress, Fault, Ids

LEMMA NetworkStutters ==
    ASSUME IInv, UNCHANGED vars
    PROVE  IInv'
<1>1. TypeOK'
  BY DEF IInv, TypeOK, Ids, vars
<1>2. Offers'
  <2>1. Seen' = Seen /\ Drawn' = Drawn
    BY DEF Seen, Drawn, vars
  <2>2. FreshOffers'
    BY <2>1 DEF IInv, Offers, FreshOffers, vars
  <2>3. SingleOffers'
    BY DEF IInv, Offers, SingleOffers, vars
  <2> QED
    BY <2>2, <2>3 DEF Offers
<1> QED
  BY <1>1, <1>2, ConnsKept, SamePorts DEF vars, ports

(* Offers on their way are of connections new to who is offered them, and  *)
(* entries, ports and ends of connections agree: the invariant, for any    *)
(* finite number of workers.                                               *)
THEOREM NetworkInvariant == Spec => []IInv
<1>1. IInv /\ [Next]_vars => IInv'
  BY NetworkStep, NetworkStutters
<1> QED
  BY <1>1, NetworkInit, PTL DEF Spec

(* However connections are replaced and end, NetworkNode::send finds the   *)
(* connection that `nodes` names, and it leads to that worker.             *)
THEOREM NetworkNodesLeadToConns == Spec => []NodesLeadToConns
<1>1. IInv => NodesLeadToConns
  BY DEF IInv, Entries
<1> QED
  BY <1>1, NetworkInvariant, PTL

(* Taking a NodeDisconnected costs no worker the entry of another          *)
(* connection, unless two to the same worker had overlapped.               *)
THEOREM NetworkEntryLostOnlyByReplacement == Spec => []EntryLostOnlyByReplacement
<1>1. IInv => EntryLostOnlyByReplacement
  BY DEF IInv, Entries
<1> QED
  BY <1>1, NetworkInvariant, PTL

(* SharedUdpPort routes nothing to a connection that has ended.            *)
THEOREM NetworkPortsLeadToLiveConns == Spec => []PortsLeadToLiveConns
<1>1. IInv => PortsLeadToLiveConns
  BY DEF IInv
<1> QED
  BY <1>1, NetworkInvariant, PTL

(* RegistryClient::answer unwraps what on_offer returns, and never an      *)
(* error: no worker is offered a ConnId that it has in use, as long as     *)
(* ConnId::rand draws none twice.                                          *)
THEOREM NetworkEveryOfferIsAccepted == Spec => [](~panicked)
<1>1. Init => ~panicked
  BY DEF Init
<1>2. IInv /\ ~panicked /\ [Next]_vars => ~panicked'
  BY NetworkStep DEF vars
<1> QED
  BY <1>1, <1>2, NetworkInvariant, PTL DEF Spec
==============================================================================
