---------------------------- MODULE ChatChainProofs ----------------------------
(***************************************************************************)
(* Proofs about ChatChain, for any workers, chats, routes and faults.      *)
(* What a chat has at its hops is described by operators on values, which  *)
(* hold before a step of the state and after it of the next one.           *)
(***************************************************************************)
EXTENDS ChatChain, FiniteSetTheorems, TLAPS

Hops == 0 .. MaxHops - 1

(* The sessions of c are those of the hops from k to l, each of which but  *)
(* the last hands on to the next.                                          *)
ChainTo(ss, c, k, l) ==
    \A i \in Hops : /\ ss[<<c, i>>] # None <=> k <= i /\ i <= l
                    /\ k <= i /\ i <= l => (ss[<<c, i>>].dest = None <=> i = l)

Chain(ss, c, k) == \E l \in Hops : k <= l /\ ChainTo(ss, c, k, l)

(* START has come as far as hop k, and every hop before it hands on.       *)
Building(ss, c, k) ==
    \A i \in Hops : /\ ss[<<c, i>>] # None <=> i < k
                    /\ i < k => ss[<<c, i>>].dest # None

Gone(ss, c) == \A i \in Hops : ss[<<c, i>>] = None

Unawaited(ww, c) == \A i \in Hops : ww[<<c, i>>] = None

(* Who waits behind a command that has come to hop k. *)
Behind(ww, c, k, cmd) ==
    \A i \in Hops : ww[<<c, i>>] # None => i < k /\ ww[<<c, i>>].cmd = cmd

(* What the sessions of c are while m is on its way. *)
Flight(m, c, k, ss) ==
    /\ m.type = "RpcReq" => /\ m.cmd = "START" => Building(ss, c, k)
                            /\ m.cmd = "FORWARD" => Chain(ss, c, 0)
                            /\ m.cmd = "END" => Chain(ss, c, k)
    /\ m.type = "RpcRes" => /\ m.cmd = "START" /\ m.success => Chain(ss, c, 0)
                            /\ m.cmd = "FORWARD" => Chain(ss, c, 0)
                            /\ m.cmd = "END" => Gone(ss, c)

AtRest == {"idle", "ready", "done"}

Of(c, ms) == {m \in ms : m.session[1] = c}

ChatInv(c, ch, ss, ww, ms) ==
    /\ \A m1, m2 \in Of(c, ms) : m1 = m2
    /\ ch.pc \in AtRest => Of(c, ms) = {} /\ Unawaited(ww, c)
    /\ ch.pc \in {"idle", "done"} => Gone(ss, c)
    /\ ch.pc = "ready" => Chain(ss, c, 0)
    /\ \A m \in Of(c, ms) : /\ m.session[2] > 0
                             /\ Behind(ww, c, m.session[2], m.cmd)
                             /\ Flight(m, c, m.session[2], ss)

(* A hop that hands on has a next one, and a cache belongs to a session.   *)
Held ==
    /\ \A s \in Sessions : sessions[s] # None /\ sessions[s].dest # None => s[2] + 1 < MaxHops
    /\ \A s \in caches : sessions[s] # None /\ sessions[s].local

IInv ==
    /\ TypeOK /\ Held
    /\ \A c \in Chats : ChatInv(c, chat[c], sessions, waits, msgs)
--------------------------------------------------------------------------------
LEMMA ZeroIsHop == 0 \in Hops /\ MaxHops \in Nat /\ \A i \in Hops : i \in Nat /\ i < MaxHops
BY ChainAssumption DEF Hops

LEMMA IsSession == \A c \in Chats, k \in Hops : <<c, k>> \in Sessions
BY DEF Sessions, Hops

LEMMA SessionIs ==
    ASSUME NEW s \in Sessions
    PROVE  s[1] \in Chats /\ s[2] \in Hops /\ s = <<s[1], s[2]>>
BY DEF Sessions, Hops

LEMMA ChainInit == Init => IInv
<1> SUFFICES ASSUME Init PROVE IInv
  OBVIOUS
<1>1. TypeOK
  <2>1. chat \in [Chats -> Loop] /\ faults \in 0 .. MaxFaults
    BY ChainAssumption DEF Init, Loop
  <2>2. /\ sessions \in [Sessions -> SessionContainer \cup {None}]
        /\ waits \in [Sessions -> Waiting \cup {None}]
    BY DEF Init
  <2>3. /\ spending \in [Chats -> Nat] /\ earning \in [Node -> [Chats -> Nat]]
        /\ checkpoints \in [Node -> [Chats -> Nat \cup {None}]]
        /\ ledger \in [Chats -> Seq(Node) \cup {None}]
        /\ root_pks \in [Node -> SUBSET Chats]
    BY DEF Init
  <2> QED
    BY <2>1, <2>2, <2>3 DEF TypeOK, Init
<1>2. Held
  BY DEF Init, Held
<1>3. ASSUME NEW c \in Chats PROVE ChatInv(c, chat[c], sessions, waits, msgs)
  <2>1. chat[c].pc = "idle" /\ Of(c, msgs) = {}
    BY DEF Init, Of
  <2>2. Gone(sessions, c) /\ Unawaited(waits, c)
    BY IsSession DEF Init, Gone, Unawaited
  <2> QED
    BY <2>1, <2>2 DEF ChatInv
<1> QED
  BY <1>1, <1>2, <1>3 DEF IInv
--------------------------------------------------------------------------------
(* How a handler of chat c, at its hop k, ends.  Of the messages, `left`   *)
(* are in flight meanwhile, and none of them is of c.                      *)

Idle(c, left) ==
    /\ left \subseteq msgs /\ Of(c, left) = {}
    /\ \A m \in msgs : m.session[1] # c => m \in left

(* What is not c's stays. *)
Spares(c) == \A d \in Chats \ {c} : chat'[d] = chat[d] /\ Of(d, msgs') = Of(d, msgs)

LEMMA Sparing ==
    ASSUME NEW c \in Chats, NEW left, Idle(c, left),
           \A d \in Chats \ {c} : chat'[d] = chat[d],
           NEW new, msgs' = left \cup new, \A m \in new : m.session[1] = c
    PROVE  Spares(c) /\ Of(c, msgs') = new
<1>1. \A d \in Chats \ {c} : Of(d, msgs') = Of(d, msgs)
  BY DEF Idle, Of
<1>2. Of(c, msgs') = new
  BY DEF Idle, Of
<1> QED
  BY <1>1, <1>2 DEF Spares

LEMMA Replies ==
    ASSUME TypeOK, NEW c \in Chats, NEW k \in Hops, NEW n \in Node, NEW left, Idle(c, left),
           NEW cmd \in Cmd, NEW success \in BOOLEAN, NEW metadata \in Metadata \cup {Empty},
           Reply(left, n, <<c, k>>, cmd, success, metadata), NEW ss, NEW ww,
           k = 0 => Unawaited(ww, c),
           k # 0 => chat[c].pc \notin AtRest /\ Behind(ww, c, k, cmd),
           cmd = "START" /\ success => Chain(ss, c, 0),
           cmd = "FORWARD" => Chain(ss, c, 0),
           cmd = "END" => Gone(ss, c)
    PROVE  /\ chat' \in [Chats -> Loop] /\ msgs' \subseteq RpcReq \cup RpcRes /\ Spares(c)
           /\ ChatInv(c, chat'[c], ss, ww, msgs')
<1>0. chat \in [Chats -> Loop] /\ msgs \subseteq RpcReq \cup RpcRes /\ <<c, k>> \in Sessions
  BY IsSession DEF TypeOK
<1>1. CASE k = 0
  <2>1. chat' = [chat EXCEPT ![c] = Resumed(chat[c], cmd, success)] /\ msgs' = left
    BY <1>1 DEF Reply
  <2>2. /\ Resumed(chat[c], cmd, success) \in Loop
        /\ Resumed(chat[c], cmd, success).pc \in {"done", "ended", "ready", "failed"}
        /\ Resumed(chat[c], cmd, success).pc = "done" => cmd = "END"
        /\ Resumed(chat[c], cmd, success).pc = "ready" => cmd # "END" /\ success
    BY <1>0 DEF Resumed, Loop, Cmd
  <2>3. chat' \in [Chats -> Loop] /\ chat'[c] = Resumed(chat[c], cmd, success)
    BY <1>0, <2>1, <2>2
  <2>4. Spares(c) /\ Of(c, msgs') = {}
    <3>1. \A d \in Chats \ {c} : chat'[d] = chat[d]
      BY <1>0, <2>1
    <3>2. msgs' = left \cup {}
      BY <2>1
    <3> QED
      BY <3>1, <3>2, Sparing
  <2>5. ChatInv(c, chat'[c], ss, ww, msgs')
    BY <1>1, <2>2, <2>3, <2>4 DEF ChatInv, Cmd
  <2> QED
    BY <1>0, <2>1, <2>3, <2>4, <2>5 DEF Idle
<1>2. CASE k # 0
  <2> DEFINE res == [type |-> "RpcRes", cmd |-> cmd, session |-> <<c, k>>, success |-> success,
                     metadata |-> metadata]
             new == Answer(n, <<c, k>>, cmd, success, metadata)
  <2>1. chat' = chat /\ msgs' = left \cup new /\ (new = {} \/ new = {res})
    BY <1>2 DEF Reply, Answer
  <2>2. /\ res \in RpcRes /\ res.type = "RpcRes" /\ res.cmd = cmd /\ res.success = success
        /\ res.session = <<c, k>>
    BY <1>0 DEF RpcRes
  <2> HIDE DEF res, new
  <2>3. res.session[1] = c /\ res.session[2] = k
    BY <2>2
  <2>4. Spares(c) /\ Of(c, msgs') = new
    <3>1. \A m \in new : m.session[1] = c
      BY <2>1, <2>3
    <3> QED
      BY <2>1, <3>1, Sparing
  <2>5. Flight(res, c, k, ss) /\ Behind(ww, c, k, res.cmd) /\ k > 0 /\ chat'[c].pc \notin AtRest
    <3>1. Flight(res, c, k, ss)
      BY <2>2 DEF Flight
    <3>2. Behind(ww, c, k, res.cmd)
      BY <1>2, <2>2
    <3> QED
      BY <1>2, <2>1, <3>1, <3>2, ZeroIsHop
  <2>6. ChatInv(c, chat'[c], ss, ww, msgs')
    BY <2>1, <2>3, <2>4, <2>5 DEF ChatInv, AtRest
  <2> QED
    BY <1>0, <2>1, <2>2, <2>4, <2>6 DEF Idle
<1> QED
  BY <1>1, <1>2

LEMMA Panicking ==
    ASSUME TypeOK, NEW c \in Chats, NEW k \in Hops, NEW left, Idle(c, left),
           Panic(left, <<c, k>>), k # 0 => chat[c].pc \notin AtRest, NEW ss, NEW ww
    PROVE  /\ chat' \in [Chats -> Loop] /\ msgs' \subseteq RpcReq \cup RpcRes /\ Spares(c)
           /\ panics' \subseteq Sessions
           /\ ChatInv(c, chat'[c], ss, ww, msgs')
<1>0. chat \in [Chats -> Loop] /\ msgs \subseteq RpcReq \cup RpcRes /\ <<c, k>> \in Sessions
  BY IsSession DEF TypeOK
<1>1. /\ msgs' = left /\ panics' = panics \cup {<<c, k>>}
      /\ chat' = IF k = 0 THEN [chat EXCEPT ![c].pc = "failed"] ELSE chat
  BY DEF Panic
<1>2. /\ chat' \in [Chats -> Loop] /\ \A d \in Chats \ {c} : chat'[d] = chat[d]
      /\ chat'[c].pc \notin AtRest
  <2>1. CASE k = 0
    <3>1. [chat[c] EXCEPT !.pc = "failed"] \in Loop /\ [chat[c] EXCEPT !.pc = "failed"].pc = "failed"
      BY <1>0 DEF Loop
    <3>2. chat' = [chat EXCEPT ![c] = [chat[c] EXCEPT !.pc = "failed"]]
      BY <1>0, <1>1, <2>1
    <3> QED
      BY <1>0, <3>1, <3>2 DEF AtRest
  <2>2. CASE k # 0
    BY <1>0, <1>1, <2>2
  <2> QED
    BY <2>1, <2>2
<1>3. Spares(c) /\ Of(c, msgs') = {}
  <2>1. msgs' = left \cup {}
    BY <1>1
  <2> QED
    BY <1>2, <2>1, Sparing
<1>4. ChatInv(c, chat'[c], ss, ww, msgs')
  BY <1>2, <1>3 DEF ChatInv, AtRest
<1> QED
  BY <1>0, <1>1, <1>2, <1>3, <1>4 DEF Idle, TypeOK

LEMMA Requesting ==
    ASSUME TypeOK, NEW c \in Chats, NEW k \in Hops, k + 1 \in Hops, NEW n \in Node, NEW left,
           Idle(c, left), NEW dest \in Node, NEW cmd \in Cmd, NEW from \in Nat \cup {None},
           NEW metadata \in Metadata,
           Request(left, n, <<c, k>>, dest, cmd, from, metadata), NEW ss,
           Behind(waits, c, k, cmd), k # 0 => chat[c].pc \notin AtRest,
           cmd = "START" => Building(ss, c, k + 1),
           cmd = "FORWARD" => Chain(ss, c, 0),
           cmd = "END" => Chain(ss, c, k + 1)
    PROVE  /\ chat' \in [Chats -> Loop] /\ msgs' \subseteq RpcReq \cup RpcRes /\ Spares(c)
           /\ waits' \in [Sessions -> Waiting \cup {None}]
           /\ \A s \in Sessions : s # <<c, k>> => waits'[s] = waits[s]
           /\ ChatInv(c, chat'[c], ss, waits', msgs')
<1> DEFINE req == [type |-> "RpcReq", cmd |-> cmd, session |-> <<c, k + 1>>, to |-> dest,
                   from_layer |-> from, metadata |-> metadata]
           wait == [node |-> n, cmd |-> cmd, metadata |-> metadata]
<1>0. /\ chat \in [Chats -> Loop] /\ msgs \subseteq RpcReq \cup RpcRes /\ <<c, k>> \in Sessions
      /\ <<c, k + 1>> \in Sessions /\ waits \in [Sessions -> Waiting \cup {None}]
      /\ k \in Nat
  BY IsSession, ZeroIsHop DEF TypeOK
<1>1. /\ msgs' = left \cup {req} /\ waits' = [waits EXCEPT ![<<c, k>>] = wait]
      /\ chat' = IF k = 0 THEN [chat EXCEPT ![c].pc = "waiting"] ELSE chat
  BY DEF Request
<1>2. /\ req \in RpcReq /\ req.type = "RpcReq" /\ req.cmd = cmd /\ req.session[1] = c
      /\ req.session[2] = k + 1
  BY <1>0 DEF RpcReq
<1>3. wait \in Waiting /\ wait.cmd = cmd
  BY DEF Waiting
<1> HIDE DEF req, wait
<1>4. /\ chat' \in [Chats -> Loop] /\ \A d \in Chats \ {c} : chat'[d] = chat[d]
      /\ chat'[c].pc \notin AtRest
  <2>1. CASE k = 0
    <3>1. [chat[c] EXCEPT !.pc = "waiting"] \in Loop /\ [chat[c] EXCEPT !.pc = "waiting"].pc = "waiting"
      BY <1>0 DEF Loop
    <3>2. chat' = [chat EXCEPT ![c] = [chat[c] EXCEPT !.pc = "waiting"]]
      BY <1>0, <1>1, <2>1
    <3> QED
      BY <1>0, <3>1, <3>2 DEF AtRest
  <2>2. CASE k # 0
    BY <1>0, <1>1, <2>2
  <2> QED
    BY <2>1, <2>2
<1>5. Spares(c) /\ Of(c, msgs') = {req}
  BY <1>1, <1>2, <1>4, Sparing
<1>6. Behind(waits', c, k + 1, cmd)
  <2> SUFFICES ASSUME NEW i \in Hops, waits'[<<c, i>>] # None
               PROVE  i < k + 1 /\ waits'[<<c, i>>].cmd = cmd
    BY DEF Behind
  <2>1. <<c, i>> \in Sessions /\ i \in Nat
    BY IsSession, ZeroIsHop
  <2>2. CASE i = k
    BY <1>0, <1>1, <1>3, <2>2
  <2>3. CASE i # k
    <3>1. waits'[<<c, i>>] = waits[<<c, i>>]
      BY <1>0, <1>1, <2>1, <2>3
    <3> QED
      BY <1>0, <2>1, <3>1 DEF Behind
  <2> QED
    BY <2>2, <2>3
<1>7. Flight(req, c, k + 1, ss)
  BY <1>2 DEF Flight
<1>8. ChatInv(c, chat'[c], ss, waits', msgs')
  BY <1>0, <1>2, <1>4, <1>5, <1>6, <1>7 DEF ChatInv, AtRest
<1> QED
  BY <1>0, <1>1, <1>2, <1>3, <1>4, <1>5, <1>8 DEF Idle
--------------------------------------------------------------------------------
(* The handlers.                                                           *)

LEMMA SameChat ==
    ASSUME NEW d, NEW ch, NEW ss1, NEW ss2, NEW ww1, NEW ww2, NEW ms1, NEW ms2,
           ChatInv(d, ch, ss1, ww1, ms1), Of(d, ms1) = Of(d, ms2),
           \A i \in Hops : ss2[<<d, i>>] = ss1[<<d, i>>] /\ ww2[<<d, i>>] = ww1[<<d, i>>]
    PROVE  ChatInv(d, ch, ss2, ww2, ms2)
<1>1. \A k : Building(ss1, d, k) => Building(ss2, d, k)
  BY DEF Building
<1>2. \A k : Chain(ss1, d, k) => Chain(ss2, d, k)
  BY DEF Chain, ChainTo
<1>3. Gone(ss1, d) => Gone(ss2, d)
  BY DEF Gone
<1>4. Unawaited(ww1, d) => Unawaited(ww2, d)
  BY DEF Unawaited
<1>5. \A k, cmd : Behind(ww1, d, k, cmd) => Behind(ww2, d, k, cmd)
  BY DEF Behind
<1> QED
  BY <1>1, <1>2, <1>3, <1>4, <1>5 DEF ChatInv, Flight

(* A step that concerns c alone. *)
LEMMA OneChatStep ==
    ASSUME IInv, NEW c \in Chats, TypeOK', Held', Spares(c),
           \A d \in Chats \ {c}, i \in Hops : /\ sessions'[<<d, i>>] = sessions[<<d, i>>]
                                             /\ waits'[<<d, i>>] = waits[<<d, i>>],
           ChatInv(c, chat'[c], sessions', waits', msgs')
    PROVE  IInv'
<1>1. ASSUME NEW d \in Chats \ {c} PROVE ChatInv(d, chat'[d], sessions', waits', msgs')
  <2>1. ChatInv(d, chat[d], sessions, waits, msgs)
    BY DEF IInv
  <2>2. chat'[d] = chat[d] /\ Of(d, msgs') = Of(d, msgs)
    BY DEF Spares
  <2>3. ChatInv(d, chat[d], sessions', waits', msgs')
    BY <2>1, <2>2, SameChat
  <2> QED
    BY <2>2, <2>3
<1>2. \A d \in Chats : ChatInv(d, chat'[d], sessions', waits', msgs')
  BY <1>1
<1> QED
  BY <1>2 DEF IInv

LEMMA FreshType == \A count \in Nat \cup {None} : Fresh(count) \in Metadata
BY DEF Fresh, Metadata

LEMMA RouteType ==
    ASSUME NEW n \in Node, NEW l \in Nat \cup {None}, NEW k \in Hops,
           NEW r \in Routes(n, l, k) \ {None}
    PROVE  /\ r.local \in BOOLEAN /\ r.dest \in Node \cup {None} /\ r.from \in Nat \cup {None}
           /\ r.dest # None => r.dest \in Node /\ k + 1 \in Hops
<1> DEFINE mine  == Local[n].start <= l /\ l < Local[n].end
           after == IF mine THEN Local[n].end ELSE l
<1>1. after \in Nat \cup {None}
  BY ChainAssumption
<1>2. \/ r = [local |-> TRUE, dest |-> None, from |-> after]
      \/ \E m \in {j \in Neighbours[n] : k + 1 < MaxHops} :
             r = [local |-> mine, dest |-> m, from |-> after]
  BY DEF Routes
<1>3. mine \in BOOLEAN
  OBVIOUS
<1> HIDE DEF mine, after
<1>4. CASE r = [local |-> TRUE, dest |-> None, from |-> after]
  BY <1>1, <1>4
<1>5. CASE \E m \in {j \in Neighbours[n] : k + 1 < MaxHops} :
             r = [local |-> mine, dest |-> m, from |-> after]
  <2>1. PICK m \in {j \in Neighbours[n] : k + 1 < MaxHops} :
             r = [local |-> mine, dest |-> m, from |-> after]
    BY <1>5
  <2>2. m \in Node /\ k + 1 \in Hops
    <3>1. m \in Neighbours[n] /\ k + 1 < MaxHops
      OBVIOUS
    <3>2. m \in Node
      BY <3>1, ChainAssumption
    <3> QED
      BY <3>1, <3>2, ZeroIsHop DEF Hops
  <2>3. r.local = mine /\ r.dest = m /\ r.from = after
    BY <2>1
  <2> QED
    BY <1>1, <1>3, <2>2, <2>3
<1> QED
  BY <1>2, <1>4, <1>5

(* A session at hop k ends the chain or hands on. *)
LEMMA Built ==
    ASSUME NEW c \in Chats, NEW k \in Hops, NEW box \in SessionContainer, NEW ss1, NEW ss2,
           Building(ss1, c, k), ss2[<<c, k>>] = box,
           \A i \in Hops \ {k} : ss2[<<c, i>>] = ss1[<<c, i>>]
    PROVE  /\ box.dest = None => Chain(ss2, c, 0)
           /\ box.dest # None => Building(ss2, c, k + 1)
<1>1. box # None
  BY NoneAssumption
<1>2. \A i \in Hops : i \in Nat
  BY ZeroIsHop
<1>3. ASSUME box.dest = None PROVE ChainTo(ss2, c, 0, k)
  <2> SUFFICES ASSUME NEW i \in Hops
               PROVE  /\ ss2[<<c, i>>] # None <=> 0 <= i /\ i <= k
                      /\ 0 <= i /\ i <= k => (ss2[<<c, i>>].dest = None <=> i = k)
    BY DEF ChainTo
  <2>1. CASE i = k
    BY <1>1, <1>2, <1>3, <2>1
  <2>2. CASE i # k
    <3>1. ss2[<<c, i>>] = ss1[<<c, i>>]
      BY <2>2
    <3>2. ss1[<<c, i>>] # None <=> i < k
      BY DEF Building
    <3>3. i < k => ss1[<<c, i>>].dest # None
      BY DEF Building
    <3> QED
      BY <1>2, <2>2, <3>1, <3>2, <3>3
  <2> QED
    BY <2>1, <2>2
<1>4. ASSUME box.dest # None PROVE Building(ss2, c, k + 1)
  <2> SUFFICES ASSUME NEW i \in Hops
               PROVE  /\ ss2[<<c, i>>] # None <=> i < k + 1
                      /\ i < k + 1 => ss2[<<c, i>>].dest # None
    BY DEF Building
  <2>1. CASE i = k
    BY <1>1, <1>2, <1>4, <2>1
  <2>2. CASE i # k
    <3>1. ss2[<<c, i>>] = ss1[<<c, i>>]
      BY <2>2
    <3>2. ss1[<<c, i>>] # None <=> i < k
      BY DEF Building
    <3>3. i < k => ss1[<<c, i>>].dest # None
      BY DEF Building
    <3> QED
      BY <1>2, <2>2, <3>1, <3>2, <3>3
  <2> QED
    BY <2>1, <2>2
<1> QED
  BY <1>2, <1>3, <1>4 DEF Chain

LEMMA PostStartTypes ==
    ASSUME TypeOK, NEW c \in Chats, NEW k \in Hops, NEW n \in Node, NEW left,
           NEW success, NEW metadata \in Metadata \cup {Empty},
           PostStart(left, n, <<c, k>>, success, metadata)
    PROVE  ledger' \in [Chats -> Seq(Node) \cup {None}] /\ panics' \subseteq Sessions
<1>0. /\ ledger \in [Chats -> Seq(Node) \cup {None}] /\ panics \subseteq Sessions
      /\ <<c, k>> \in Sessions
  BY IsSession DEF TypeOK
<1>1. CASE metadata = Empty \/ k # 0
  BY <1>0, <1>1 DEF PostStart, Panic
<1>2. CASE metadata # Empty /\ k = 0
  <2>1. panics' = panics /\ CreateSession(left, n, <<c, k>>, success, metadata)
    BY <1>2 DEF PostStart
  <2>2. metadata.addresses \in Seq(Node)
    BY <1>2 DEF Metadata
  <2> QED
    BY <1>0, <2>1, <2>2 DEF CreateSession
<1> QED
  BY <1>1, <1>2

LEMMA PostStarting ==
    ASSUME TypeOK, NEW c \in Chats, NEW k \in Hops, NEW n \in Node, NEW left, Idle(c, left),
           NEW success \in BOOLEAN, NEW metadata \in Metadata \cup {Empty},
           PostStart(left, n, <<c, k>>, success, metadata), NEW ss, NEW ww,
           k = 0 => Unawaited(ww, c),
           k # 0 => chat[c].pc \notin AtRest /\ Behind(ww, c, k, "START"),
           success => Chain(ss, c, 0)
    PROVE  /\ chat' \in [Chats -> Loop] /\ msgs' \subseteq RpcReq \cup RpcRes /\ Spares(c)
           /\ ledger' \in [Chats -> Seq(Node) \cup {None}] /\ panics' \subseteq Sessions
           /\ ChatInv(c, chat'[c], ss, ww, msgs')
<1>0. ledger' \in [Chats -> Seq(Node) \cup {None}] /\ panics' \subseteq Sessions
  BY PostStartTypes
<1>1. CASE metadata = Empty
  <2>1. Panic(left, <<c, k>>)
    BY <1>1 DEF PostStart
  <2> QED
    BY <1>0, <2>1, Panicking
<1>2. CASE metadata # Empty /\ k = 0
  <2>1. CreateSession(left, n, <<c, k>>, success, metadata)
    BY <1>2 DEF PostStart
  <2>2. CASE Reply(left, n, <<c, k>>, "START", success, metadata)
    <3>1. /\ chat' \in [Chats -> Loop] /\ msgs' \subseteq RpcReq \cup RpcRes /\ Spares(c)
          /\ ChatInv(c, chat'[c], ss, ww, msgs')
      BY <1>2, <2>2, Replies DEF Cmd
    <3> QED
      BY <1>0, <3>1
  <2>3. CASE Reply(left, n, <<c, k>>, "START", FALSE, metadata)
    <3>1. /\ chat' \in [Chats -> Loop] /\ msgs' \subseteq RpcReq \cup RpcRes /\ Spares(c)
          /\ ChatInv(c, chat'[c], ss, ww, msgs')
      BY <1>2, <2>3, Replies DEF Cmd
    <3> QED
      BY <1>0, <3>1
  <2> QED
    BY <2>1, <2>2, <2>3 DEF CreateSession
<1>3. CASE metadata # Empty /\ k # 0
  <2> DEFINE md == [addresses |-> Append(metadata.addresses, n), checkpoint |-> None]
  <2>1. Reply(left, n, <<c, k>>, "START", success, md)
    BY <1>3 DEF PostStart
  <2>2. metadata.addresses \in Seq(Node)
    BY <1>3 DEF Metadata
  <2>3. md \in Metadata
    BY <2>2 DEF Metadata
  <2> HIDE DEF md
  <2>4. /\ chat' \in [Chats -> Loop] /\ msgs' \subseteq RpcReq \cup RpcRes /\ Spares(c)
        /\ ChatInv(c, chat'[c], ss, ww, msgs')
    BY <1>3, <2>1, <2>3, Replies DEF Cmd
  <2> QED
    BY <1>0, <2>4
<1> QED
  BY <1>1, <1>2, <1>3

LEMMA PostEndTypes ==
    ASSUME TypeOK, NEW c \in Chats, NEW k \in Hops, NEW n \in Node, NEW left,
           NEW success, NEW metadata, PostEnd(left, n, <<c, k>>, success, metadata)
    PROVE  /\ earning' \in [Node -> [Chats -> Nat]] /\ panics' \subseteq Sessions
           /\ claims' \subseteq [node : Node, chat : Chats, token_count : Nat, signed : Nat]
<1> DEFINE signed == checkpoints[n][c]
           claim == [node |-> n, chat |-> c, token_count |-> earning[n][c], signed |-> signed]
<1>0. /\ earning \in [Node -> [Chats -> Nat]] /\ panics \subseteq Sessions
      /\ claims \subseteq [node : Node, chat : Chats, token_count : Nat, signed : Nat]
      /\ signed \in Nat \cup {None} /\ <<c, k>> \in Sessions
  BY IsSession DEF TypeOK
<1>1. CASE k = 0 \/ metadata = Empty
  BY <1>0, <1>1 DEF PostEnd, Panic
<1>2. CASE k # 0 /\ metadata # Empty
  <2>1. /\ panics' = panics
        /\ earning' = [earning EXCEPT ![n][c] = 0]
        /\ claims' = IF signed = None THEN claims ELSE claims \cup {claim}
    BY <1>2 DEF PostEnd
  <2>2. ASSUME signed # None
        PROVE  claim \in [node : Node, chat : Chats, token_count : Nat, signed : Nat]
    <3>1. earning[n][c] \in Nat /\ signed \in Nat
      BY <1>0, <2>2
    <3> QED
      BY <3>1
  <2>3. earning' \in [Node -> [Chats -> Nat]]
    BY <1>0, <2>1
  <2> HIDE DEF claim, signed
  <2> QED
    BY <1>0, <2>1, <2>2, <2>3
<1> QED
  BY <1>1, <1>2

LEMMA PostEnding ==
    ASSUME TypeOK, NEW c \in Chats, NEW k \in Hops, NEW n \in Node, NEW left, Idle(c, left),
           NEW success \in BOOLEAN, NEW metadata \in Metadata \cup {Empty},
           PostEnd(left, n, <<c, k>>, success, metadata), NEW ss, NEW ww,
           k = 0 => Unawaited(ww, c),
           k # 0 => chat[c].pc \notin AtRest /\ Behind(ww, c, k, "END"),
           Gone(ss, c)
    PROVE  /\ chat' \in [Chats -> Loop] /\ msgs' \subseteq RpcReq \cup RpcRes /\ Spares(c)
           /\ earning' \in [Node -> [Chats -> Nat]] /\ panics' \subseteq Sessions
           /\ claims' \subseteq [node : Node, chat : Chats, token_count : Nat, signed : Nat]
           /\ ChatInv(c, chat'[c], ss, ww, msgs')
<1>0. /\ earning' \in [Node -> [Chats -> Nat]] /\ panics' \subseteq Sessions
      /\ claims' \subseteq [node : Node, chat : Chats, token_count : Nat, signed : Nat]
  BY PostEndTypes
<1>1. CASE k = 0
  <2>1. Reply(left, n, <<c, k>>, "END", success, metadata)
    BY <1>1 DEF PostEnd
  <2>2. /\ chat' \in [Chats -> Loop] /\ msgs' \subseteq RpcReq \cup RpcRes /\ Spares(c)
        /\ ChatInv(c, chat'[c], ss, ww, msgs')
    BY <1>1, <2>1, Replies DEF Cmd
  <2> QED
    BY <1>0, <2>2
<1>2. CASE k # 0 /\ metadata = Empty
  <2>1. Panic(left, <<c, k>>)
    BY <1>2 DEF PostEnd
  <2> QED
    BY <1>0, <1>2, <2>1, Panicking
<1>3. CASE k # 0 /\ metadata # Empty
  <2> DEFINE good == success /\ checkpoints[n][c] # None
  <2>1. good \in BOOLEAN
    OBVIOUS
  <2>2. Reply(left, n, <<c, k>>, "END", good, metadata)
    BY <1>3 DEF PostEnd
  <2> HIDE DEF good
  <2>3. /\ chat' \in [Chats -> Loop] /\ msgs' \subseteq RpcReq \cup RpcRes /\ Spares(c)
        /\ ChatInv(c, chat'[c], ss, ww, msgs')
    BY <1>3, <2>1, <2>2, Replies DEF Cmd
  <2> QED
    BY <1>0, <2>3
<1> QED
  BY <1>1, <1>2, <1>3

(* Where a command is when a handler of it runs at hop k of c. *)
At(c, k, cmd) ==
    /\ Behind(waits, c, k, cmd)
    /\ k = 0 => Unawaited(waits, c)
    /\ k # 0 => chat[c].pc \notin AtRest

LEMMA StartStep ==
    ASSUME IInv, NEW c \in Chats, NEW k \in Hops, NEW n \in Node, NEW left, Idle(c, left),
           NEW l \in Nat \cup {None}, NEW metadata, k # 0 => metadata \in Metadata,
           At(c, k, "START"), Building(sessions, c, k),
           Start(left, n, <<c, k>>, l, metadata)
    PROVE  IInv'
<1> DEFINE md == IF k = 0 THEN Fresh(None) ELSE metadata
<1>1. md \in Metadata
  BY FreshType
<1>2. /\ TypeOK /\ <<c, k>> \in Sessions
      /\ sessions \in [Sessions -> SessionContainer \cup {None}] /\ caches \subseteq Sessions
      /\ waits \in [Sessions -> Waiting \cup {None}]
      /\ ledger \in [Chats -> Seq(Node) \cup {None}] /\ panics \subseteq Sessions
  BY IsSession DEF IInv, TypeOK
<1>3. /\ up' \subseteq Node /\ root_pks' \in [Node -> SUBSET Chats]
      /\ spending' \in [Chats -> Nat] /\ earning' \in [Node -> [Chats -> Nat]]
      /\ checkpoints' \in [Node -> [Chats -> Nat \cup {None}]]
      /\ claims' \subseteq [node : Node, chat : Chats, token_count : Nat, signed : Nat]
      /\ faults' \in 0 .. MaxFaults
  BY <1>2 DEF Start, TypeOK
<1>4. \A d \in Chats, i \in Hops : <<d, i>> \in Sessions /\ (d # c => <<d, i>> # <<c, k>>)
  BY IsSession
<1>5. CASE Reply(left, n, <<c, k>>, "START", FALSE, Empty) /\ UNCHANGED <<service, ledger, panics>>
  <2>1. UNCHANGED <<sessions, caches, waits, ledger, panics>>
    BY <1>5 DEF service
  <2>2. /\ chat' \in [Chats -> Loop] /\ msgs' \subseteq RpcReq \cup RpcRes /\ Spares(c)
        /\ ChatInv(c, chat'[c], sessions, waits, msgs')
    BY <1>2, <1>5, Replies DEF At, Cmd
  <2>3. TypeOK' /\ Held'
    BY <1>2, <1>3, <2>1, <2>2 DEF TypeOK, IInv, Held
  <2> QED
    BY <2>1, <2>2, <2>3, OneChatStep
<1>6. ASSUME NEW r \in Routes(n, l, k) \ {None},
             /\ sessions' = [sessions EXCEPT ![<<c, k>>] =
                                [node |-> n, local |-> r.local, dest |-> r.dest]]
             /\ caches' = IF r.local THEN caches \cup {<<c, k>>} ELSE caches
             /\ IF r.dest = None
                THEN PostStart(left, n, <<c, k>>, TRUE, md) /\ UNCHANGED waits
                ELSE /\ Request(left, n, <<c, k>>, r.dest, "START", r.from, md)
                     /\ UNCHANGED <<ledger, panics>>
      PROVE  IInv'
  <2> DEFINE box == [node |-> n, local |-> r.local, dest |-> r.dest]
  <2>1. /\ r.local \in BOOLEAN /\ r.dest \in Node \cup {None} /\ r.from \in Nat \cup {None}
        /\ r.dest # None => r.dest \in Node /\ k + 1 \in Hops
    BY RouteType
  <2>2. box \in SessionContainer /\ box.dest = r.dest /\ box.local = r.local
    BY <2>1 DEF SessionContainer
  <2>3. sessions' = [sessions EXCEPT ![<<c, k>>] = box]
    BY <1>6
  <2> HIDE DEF md, box
  <2>4. /\ sessions' \in [Sessions -> SessionContainer \cup {None}]
        /\ sessions'[<<c, k>>] = box
        /\ \A s \in Sessions : s # <<c, k>> => sessions'[s] = sessions[s]
    BY <1>2, <2>2, <2>3
  <2>5. /\ r.dest = None => Chain(sessions', c, 0)
        /\ r.dest # None => Building(sessions', c, k + 1)
    <3>1. \A i \in Hops \ {k} : sessions'[<<c, i>>] = sessions[<<c, i>>]
      BY <1>4, <2>4
    <3> QED
      BY <2>2, <2>4, <3>1, Built
  <2>6. caches' \subseteq Sessions
    BY <1>2, <1>6
  <2>7. Held'
    <3>1. ASSUME NEW s \in Sessions, sessions'[s] # None, sessions'[s].dest # None
          PROVE  s[2] + 1 < MaxHops
      <4>1. CASE s = <<c, k>>
        BY <2>1, <2>2, <2>4, <3>1, <4>1, ZeroIsHop
      <4>2. CASE s # <<c, k>>
        BY <2>4, <3>1, <4>2 DEF IInv, Held
      <4> QED
        BY <4>1, <4>2
    <3>2. ASSUME NEW s \in caches' PROVE sessions'[s] # None /\ sessions'[s].local
      <4>1. CASE s = <<c, k>>
        <5>1. box # None
          BY <2>2, NoneAssumption
        <5>2. CASE r.local
          BY <2>2, <2>4, <4>1, <5>1, <5>2
        <5>3. CASE ~r.local
          <6>1. s \in caches
            BY <1>6, <5>3
          <6>2. sessions[<<c, k>>] # None
            BY <4>1, <6>1 DEF IInv, Held
          <6>3. sessions[<<c, k>>] = None
            BY ZeroIsHop DEF Building
          <6> QED
            BY <6>2, <6>3
        <5> QED
          BY <5>2, <5>3
      <4>2. CASE s # <<c, k>>
        <5>1. s \in caches /\ s \in Sessions
          BY <1>2, <1>6, <4>2
        <5> QED
          BY <2>4, <4>2, <5>1 DEF IInv, Held
      <4> QED
        BY <4>1, <4>2
    <3> QED
      BY <3>1, <3>2 DEF Held
  <2>8. CASE r.dest = None
    <3>1. PostStart(left, n, <<c, k>>, TRUE, md) /\ waits' = waits
      BY <1>6, <2>8
    <3>2. /\ chat' \in [Chats -> Loop] /\ msgs' \subseteq RpcReq \cup RpcRes /\ Spares(c)
          /\ ledger' \in [Chats -> Seq(Node) \cup {None}] /\ panics' \subseteq Sessions
          /\ ChatInv(c, chat'[c], sessions', waits, msgs')
      BY <1>1, <1>2, <2>5, <2>8, <3>1, PostStarting DEF At
    <3>3. TypeOK'
      BY <1>2, <1>3, <2>4, <2>6, <3>1, <3>2 DEF TypeOK
    <3> QED
      BY <1>4, <2>4, <2>7, <3>1, <3>2, <3>3, OneChatStep
  <2>9. CASE r.dest # None
    <3>1. /\ Request(left, n, <<c, k>>, r.dest, "START", r.from, md)
          /\ ledger' = ledger /\ panics' = panics
      BY <1>6, <2>9
    <3>2. /\ chat' \in [Chats -> Loop] /\ msgs' \subseteq RpcReq \cup RpcRes /\ Spares(c)
          /\ waits' \in [Sessions -> Waiting \cup {None}]
          /\ \A s \in Sessions : s # <<c, k>> => waits'[s] = waits[s]
          /\ ChatInv(c, chat'[c], sessions', waits', msgs')
      BY <1>1, <1>2, <2>1, <2>5, <2>9, <3>1, Requesting DEF At, Cmd
    <3>3. TypeOK'
      BY <1>2, <1>3, <2>4, <2>6, <3>1, <3>2 DEF TypeOK
    <3> QED
      BY <1>4, <2>4, <2>7, <3>2, <3>3, OneChatStep
  <2> QED
    BY <2>8, <2>9
<1> QED
  BY <1>5, <1>6 DEF Start

LEMMA ForwardStep ==
    ASSUME IInv, NEW c \in Chats, NEW k \in Hops, NEW n \in Node, NEW left, Idle(c, left),
           NEW metadata, k # 0 => metadata \in Metadata,
           At(c, k, "FORWARD"), Chain(sessions, c, 0),
           Forward(left, n, <<c, k>>, metadata)
    PROVE  IInv'
<1> DEFINE md == IF k = 0 THEN Fresh(spending[c] + 1) ELSE metadata
<1>1. /\ TypeOK /\ <<c, k>> \in Sessions
      /\ sessions \in [Sessions -> SessionContainer \cup {None}]
      /\ waits \in [Sessions -> Waiting \cup {None}]
      /\ spending \in [Chats -> Nat] /\ earning \in [Node -> [Chats -> Nat]]
      /\ checkpoints \in [Node -> [Chats -> Nat \cup {None}]]
      /\ root_pks \in [Node -> SUBSET Chats]
  BY IsSession DEF IInv, TypeOK
<1>2. UNCHANGED <<up, sessions, caches, ledger, claims, panics, faults>>
  BY DEF Forward, onchain
<1>3. Held'
  BY <1>2 DEF IInv, Held
<1>4. md \in Metadata
  BY <1>1, FreshType
<1>5. \A d \in Chats, i \in Hops : <<d, i>> \in Sessions /\ (d # c => <<d, i>> # <<c, k>>)
  BY IsSession
<1>6. CASE Refused(n, <<c, k>>, metadata)
  <2>1. /\ Reply(left, n, <<c, k>>, "FORWARD", FALSE, Empty)
        /\ UNCHANGED <<waits, root_pks, spending, earning, checkpoints>>
    BY <1>6 DEF Forward, usage
  <2>2. /\ chat' \in [Chats -> Loop] /\ msgs' \subseteq RpcReq \cup RpcRes /\ Spares(c)
        /\ ChatInv(c, chat'[c], sessions, waits, msgs')
    BY <1>1, <2>1, Replies DEF At, Cmd
  <2>3. TypeOK'
    BY <1>1, <1>2, <2>1, <2>2 DEF TypeOK
  <2> QED
    BY <1>2, <1>3, <2>1, <2>2, <2>3, OneChatStep
<1>7. CASE ~Refused(n, <<c, k>>, metadata)
  <2>1. /\ PreForward(n, <<c, k>>, metadata)
        /\ IF sessions[<<c, k>>].dest = None
           THEN Reply(left, n, <<c, k>>, "FORWARD", TRUE, md) /\ UNCHANGED waits
           ELSE Request(left, n, <<c, k>>, sessions[<<c, k>>].dest, "FORWARD", None, md)
    BY <1>7 DEF Forward
  <2>2. sessions[<<c, k>>] # None /\ (k # 0 => metadata.checkpoint # None)
    BY <1>7 DEF Refused
  <2>3. sessions[<<c, k>>] \in SessionContainer
    BY <1>1, <2>2
  <2>4. /\ root_pks' \in [Node -> SUBSET Chats] /\ spending' \in [Chats -> Nat]
        /\ earning' \in [Node -> [Chats -> Nat]]
        /\ checkpoints' \in [Node -> [Chats -> Nat \cup {None}]]
    <3>1. CASE k = 0
      <4>1. /\ spending' = [spending EXCEPT ![c] = @ + 1]
            /\ checkpoints' = [checkpoints EXCEPT ![n][c] = spending[c] + 1]
            /\ earning' = earning /\ root_pks' = root_pks
        BY <2>1, <3>1 DEF PreForward, Increase, StoreCheckpoint
      <4>2. checkpoints' \in [Node -> [Chats -> Nat \cup {None}]]
        BY <1>1, <4>1
      <4> QED
        BY <1>1, <4>1, <4>2
    <3>2. CASE k # 0
      <4>1. /\ checkpoints' = [checkpoints EXCEPT ![n][c] = metadata.checkpoint]
            /\ earning' = [earning EXCEPT ![n][c] = @ + 1]
            /\ spending' = spending /\ root_pks' = root_pks
        BY <2>1, <3>2 DEF PreForward, StoreCheckpoint
      <4>2. metadata.checkpoint \in Nat
        BY <2>2, <3>2 DEF Metadata
      <4>3. checkpoints' \in [Node -> [Chats -> Nat \cup {None}]]
        BY <1>1, <4>1, <4>2
      <4>4. earning' \in [Node -> [Chats -> Nat]]
        BY <1>1, <4>1
      <4> QED
        BY <1>1, <4>1, <4>3, <4>4
    <3> QED
      BY <3>1, <3>2
  <2> HIDE DEF md
  <2>5. CASE sessions[<<c, k>>].dest = None
    <3>1. Reply(left, n, <<c, k>>, "FORWARD", TRUE, md) /\ waits' = waits
      BY <2>1, <2>5
    <3>2. /\ chat' \in [Chats -> Loop] /\ msgs' \subseteq RpcReq \cup RpcRes /\ Spares(c)
          /\ ChatInv(c, chat'[c], sessions, waits, msgs')
      BY <1>1, <1>4, <3>1, Replies DEF At, Cmd
    <3>3. TypeOK'
      BY <1>1, <1>2, <2>4, <3>1, <3>2 DEF TypeOK
    <3> QED
      BY <1>2, <1>3, <3>1, <3>2, <3>3, OneChatStep
  <2>6. CASE sessions[<<c, k>>].dest # None
    <3>1. Request(left, n, <<c, k>>, sessions[<<c, k>>].dest, "FORWARD", None, md)
      BY <2>1, <2>6
    <3>2. sessions[<<c, k>>].dest \in Node
      BY <2>3, <2>6 DEF SessionContainer
    <3>3. k + 1 \in Hops
      <4>1. k + 1 < MaxHops
        BY <1>1, <2>2, <2>6 DEF IInv, Held
      <4> QED
        BY <4>1, ZeroIsHop DEF Hops
    <3>4. /\ chat' \in [Chats -> Loop] /\ msgs' \subseteq RpcReq \cup RpcRes /\ Spares(c)
          /\ waits' \in [Sessions -> Waiting \cup {None}]
          /\ \A s \in Sessions : s # <<c, k>> => waits'[s] = waits[s]
          /\ ChatInv(c, chat'[c], sessions, waits', msgs')
      BY <1>1, <1>4, <3>1, <3>2, <3>3, Requesting DEF At, Cmd
    <3>5. TypeOK'
      BY <1>1, <1>2, <2>4, <3>4 DEF TypeOK
    <3> QED
      BY <1>2, <1>3, <1>5, <3>4, <3>5, OneChatStep
  <2> QED
    BY <2>5, <2>6
<1> QED
  BY <1>6, <1>7

(* END takes the first session of what is left of a chain. *)
LEMMA Shortened ==
    ASSUME NEW c \in Chats, NEW k \in Hops, NEW ss1, NEW ss2, Chain(ss1, c, k),
           ss2[<<c, k>>] = None, \A i \in Hops \ {k} : ss2[<<c, i>>] = ss1[<<c, i>>]
    PROVE  /\ ss1[<<c, k>>] # None
           /\ ss1[<<c, k>>].dest = None => Gone(ss2, c)
           /\ ss1[<<c, k>>].dest # None => Chain(ss2, c, k + 1)
<1>1. PICK l \in Hops : k <= l /\ ChainTo(ss1, c, k, l)
  BY DEF Chain
<1>2. \A i \in Hops : i \in Nat
  BY ZeroIsHop
<1>3. /\ ss1[<<c, k>>] # None
      /\ ss1[<<c, k>>].dest = None <=> k = l
  BY <1>1, <1>2 DEF ChainTo
<1>4. ASSUME k = l PROVE Gone(ss2, c)
  BY <1>1, <1>2, <1>4 DEF ChainTo, Gone
<1>5. ASSUME k # l PROVE Chain(ss2, c, k + 1)
  <2>1. k + 1 <= l
    BY <1>1, <1>2, <1>5
  <2>2. ChainTo(ss2, c, k + 1, l)
    BY <1>1, <1>2 DEF ChainTo
  <2> QED
    BY <2>1, <2>2 DEF Chain
<1> QED
  BY <1>3, <1>4, <1>5

LEMMA EndStep ==
    ASSUME IInv, NEW c \in Chats, NEW k \in Hops, NEW n \in Node, NEW left, Idle(c, left),
           NEW metadata, k # 0 => metadata \in Metadata,
           At(c, k, "END"), Chain(sessions, c, k),
           End(left, n, <<c, k>>, metadata)
    PROVE  IInv'
<1> DEFINE md == IF k = 0 THEN Fresh(None) ELSE metadata
<1>1. /\ TypeOK /\ <<c, k>> \in Sessions
      /\ sessions \in [Sessions -> SessionContainer \cup {None}] /\ caches \subseteq Sessions
      /\ waits \in [Sessions -> Waiting \cup {None}] /\ spending \in [Chats -> Nat]
  BY IsSession DEF IInv, TypeOK
<1>2. UNCHANGED <<up, root_pks, checkpoints, ledger, faults>>
  BY DEF End
<1>3. md \in Metadata
  BY FreshType
<1>4. \A d \in Chats, i \in Hops : <<d, i>> \in Sessions /\ (d # c => <<d, i>> # <<c, k>>)
  BY IsSession
<1>5. sessions[<<c, k>>] # None
  BY ZeroIsHop DEF Chain, ChainTo
<1>6. /\ sessions' = [sessions EXCEPT ![<<c, k>>] = None]
      /\ spending' = IF k = 0 THEN [spending EXCEPT ![c] = 0] ELSE spending
      /\ caches' = IF sessions[<<c, k>>].local THEN caches \ {<<c, k>>} ELSE caches
      /\ IF sessions[<<c, k>>].dest = None
         THEN PostEnd(left, n, <<c, k>>, TRUE, md) /\ UNCHANGED waits
         ELSE /\ Request(left, n, <<c, k>>, sessions[<<c, k>>].dest, "END", None, md)
              /\ UNCHANGED <<earning, claims, panics>>
  BY <1>5 DEF End, Finish
<1>7. /\ sessions' \in [Sessions -> SessionContainer \cup {None}]
      /\ sessions'[<<c, k>>] = None
      /\ \A s \in Sessions : s # <<c, k>> => sessions'[s] = sessions[s]
  BY <1>1, <1>6
<1>8. /\ sessions[<<c, k>>].dest = None => Gone(sessions', c)
      /\ sessions[<<c, k>>].dest # None => Chain(sessions', c, k + 1)
  <2>1. \A i \in Hops \ {k} : sessions'[<<c, i>>] = sessions[<<c, i>>]
    BY <1>4, <1>7
  <2> QED
    BY <1>7, <2>1, Shortened
<1>9. spending' \in [Chats -> Nat] /\ caches' \subseteq Sessions
  BY <1>1, <1>6
<1>10. Held'
  <2>1. ASSUME NEW s \in Sessions, sessions'[s] # None, sessions'[s].dest # None
        PROVE  s[2] + 1 < MaxHops
    BY <1>7, <2>1 DEF IInv, Held
  <2>2. ASSUME NEW s \in caches' PROVE sessions'[s] # None /\ sessions'[s].local
    <3>1. s \in caches /\ sessions[s] # None /\ sessions[s].local /\ s \in Sessions
      BY <1>1, <1>6 DEF IInv, Held
    <3>2. s # <<c, k>>
      BY <1>6, <3>1
    <3> QED
      BY <1>7, <3>1, <3>2
  <2> QED
    BY <2>1, <2>2 DEF Held
<1> HIDE DEF md
<1>11. CASE sessions[<<c, k>>].dest = None
  <2>1. PostEnd(left, n, <<c, k>>, TRUE, md) /\ waits' = waits
    BY <1>6, <1>11
  <2>2. /\ chat' \in [Chats -> Loop] /\ msgs' \subseteq RpcReq \cup RpcRes /\ Spares(c)
        /\ earning' \in [Node -> [Chats -> Nat]] /\ panics' \subseteq Sessions
        /\ claims' \subseteq [node : Node, chat : Chats, token_count : Nat, signed : Nat]
        /\ ChatInv(c, chat'[c], sessions', waits, msgs')
    BY <1>1, <1>3, <1>8, <1>11, <2>1, PostEnding DEF At
  <2>3. TypeOK'
    BY <1>1, <1>2, <1>7, <1>9, <2>1, <2>2 DEF TypeOK
  <2> QED
    BY <1>4, <1>7, <1>10, <2>1, <2>2, <2>3, OneChatStep
<1>12. CASE sessions[<<c, k>>].dest # None
  <2>1. /\ Request(left, n, <<c, k>>, sessions[<<c, k>>].dest, "END", None, md)
        /\ UNCHANGED <<earning, claims, panics>>
    BY <1>6, <1>12
  <2>2. sessions[<<c, k>>].dest \in Node
    BY <1>1, <1>5, <1>12 DEF SessionContainer
  <2>3. k + 1 \in Hops
    <3>1. k + 1 < MaxHops
      BY <1>1, <1>5, <1>12 DEF IInv, Held
    <3> QED
      BY <3>1, ZeroIsHop DEF Hops
  <2>4. /\ chat' \in [Chats -> Loop] /\ msgs' \subseteq RpcReq \cup RpcRes /\ Spares(c)
        /\ waits' \in [Sessions -> Waiting \cup {None}]
        /\ \A s \in Sessions : s # <<c, k>> => waits'[s] = waits[s]
        /\ ChatInv(c, chat'[c], sessions', waits', msgs')
    BY <1>1, <1>3, <1>8, <1>12, <2>1, <2>2, <2>3, Requesting DEF At, Cmd
  <2>5. TypeOK'
    BY <1>1, <1>2, <1>7, <1>9, <2>1, <2>4 DEF TypeOK
  <2> QED
    BY <1>4, <1>7, <1>10, <2>4, <2>5, OneChatStep
<1> QED
  BY <1>11, <1>12

(* The parts of Continue, by the command that is waited for. *)
LEMMA Continues ==
    ASSUME NEW left, NEW s, NEW success, NEW metadata, Continue(left, s, success, metadata)
    PROVE  /\ waits' = [waits EXCEPT ![s] = None]
           /\ UNCHANGED <<up, sessions, caches, root_pks, spending, checkpoints, faults>>
           /\ waits[s].cmd = "START" =>
                 /\ PostStart(left, waits[s].node, s, success, metadata)
                 /\ UNCHANGED <<earning, claims>>
           /\ waits[s].cmd = "FORWARD" =>
                 /\ Reply(left, waits[s].node, s, "FORWARD", success, metadata)
                 /\ UNCHANGED <<earning, ledger, claims, panics>>
           /\ waits[s].cmd = "END" =>
                 /\ PostEnd(left, waits[s].node, s, success, metadata)
                 /\ ledger' = ledger
BY DEF Continue, onchain

(* What is written on chain and counted has its type, whoever is up.       *)
LEMMA ContinueTypes ==
    ASSUME IInv, NEW c \in Chats, NEW k \in Hops, waits[<<c, k>>] # None, NEW left,
           NEW success \in BOOLEAN, NEW metadata \in Metadata \cup {Empty},
           Continue(left, <<c, k>>, success, metadata)
    PROVE  /\ waits[<<c, k>>] \in Waiting /\ waits' \in [Sessions -> Waiting \cup {None}]
           /\ waits'[<<c, k>>] = None
           /\ \A s \in Sessions : s # <<c, k>> => waits'[s] = waits[s]
           /\ earning' \in [Node -> [Chats -> Nat]] /\ panics' \subseteq Sessions
           /\ claims' \subseteq [node : Node, chat : Chats, token_count : Nat, signed : Nat]
           /\ ledger' \in [Chats -> Seq(Node) \cup {None}]
           /\ Held'
<1>1. /\ TypeOK /\ <<c, k>> \in Sessions /\ waits \in [Sessions -> Waiting \cup {None}]
      /\ earning \in [Node -> [Chats -> Nat]] /\ panics \subseteq Sessions
      /\ claims \subseteq [node : Node, chat : Chats, token_count : Nat, signed : Nat]
      /\ ledger \in [Chats -> Seq(Node) \cup {None}]
  BY IsSession DEF IInv, TypeOK
<1>2. waits[<<c, k>>] \in Waiting
  BY <1>1
<1>3. waits[<<c, k>>].node \in Node /\ waits[<<c, k>>].cmd \in Cmd
  BY <1>2 DEF Waiting
<1>4. /\ waits' \in [Sessions -> Waiting \cup {None}] /\ waits'[<<c, k>>] = None
      /\ \A s \in Sessions : s # <<c, k>> => waits'[s] = waits[s]
  BY <1>1, Continues
<1>5. Held'
  <2>1. sessions' = sessions /\ caches' = caches
    BY Continues
  <2> QED
    BY <2>1 DEF IInv, Held
<1>6. /\ earning' \in [Node -> [Chats -> Nat]] /\ panics' \subseteq Sessions
      /\ claims' \subseteq [node : Node, chat : Chats, token_count : Nat, signed : Nat]
      /\ ledger' \in [Chats -> Seq(Node) \cup {None}]
  <2>1. CASE waits[<<c, k>>].cmd = "START"
    <3>1. /\ PostStart(left, waits[<<c, k>>].node, <<c, k>>, success, metadata)
          /\ UNCHANGED <<earning, claims>>
      BY <2>1, Continues
    <3>2. ledger' \in [Chats -> Seq(Node) \cup {None}] /\ panics' \subseteq Sessions
      BY <1>1, <1>3, <3>1, PostStartTypes
    <3> QED
      BY <1>1, <3>1, <3>2
  <2>2. CASE waits[<<c, k>>].cmd = "FORWARD"
    BY <1>1, <2>2, Continues
  <2>3. CASE waits[<<c, k>>].cmd = "END"
    <3>1. /\ PostEnd(left, waits[<<c, k>>].node, <<c, k>>, success, metadata)
          /\ ledger' = ledger
      BY <2>3, Continues
    <3> QED
      BY <1>1, <1>3, <3>1, PostEndTypes
  <2> QED
    BY <1>3, <2>1, <2>2, <2>3 DEF Cmd
<1> QED
  BY <1>2, <1>4, <1>5, <1>6

LEMMA OneMessage ==
    ASSUME IInv, NEW m \in msgs
    PROVE  /\ m \in RpcReq \cup RpcRes /\ m.session \in Sessions /\ m.cmd \in Cmd
           /\ m.session[1] \in Chats /\ m.session[2] \in Hops /\ m.session[2] > 0
           /\ m.session = <<m.session[1], m.session[2]>>
           /\ Idle(m.session[1], msgs \ {m})
           /\ chat[m.session[1]].pc \notin AtRest
           /\ Behind(waits, m.session[1], m.session[2], m.cmd)
           /\ Flight(m, m.session[1], m.session[2], sessions)
<1>1. m \in RpcReq \cup RpcRes
  BY DEF IInv, TypeOK
<1>2. m.session \in Sessions /\ m.cmd \in Cmd
  BY <1>1 DEF RpcReq, RpcRes
<1> DEFINE c == m.session[1]
<1>3. c \in Chats /\ m.session[2] \in Hops /\ m.session = <<c, m.session[2]>>
  BY <1>2, SessionIs
<1>4. m \in Of(c, msgs)
  BY DEF Of
<1>5. ChatInv(c, chat[c], sessions, waits, msgs)
  BY <1>3 DEF IInv
<1>6. \A m2 \in Of(c, msgs) : m2 = m
  BY <1>4, <1>5 DEF ChatInv
<1>7. Idle(c, msgs \ {m})
  BY <1>6 DEF Idle, Of
<1>8. /\ m.session[2] > 0 /\ Behind(waits, c, m.session[2], m.cmd)
      /\ Flight(m, c, m.session[2], sessions)
  BY <1>4, <1>5 DEF ChatInv
<1>9. chat[c].pc \notin AtRest
  BY <1>4, <1>5 DEF ChatInv
<1> QED
  BY <1>1, <1>2, <1>3, <1>7, <1>8, <1>9

LEMMA RecvResStep ==
    ASSUME IInv, NEW m \in msgs, RecvRes(m)
    PROVE  IInv'
<1> DEFINE c == m.session[1]
           k == m.session[2] - 1
           n == waits[<<c, k>>].node
<1>1. /\ m.type = "RpcRes" /\ waits[<<c, k>>] # None
      /\ Continue(msgs \ {m}, <<c, k>>, m.success, m.metadata)
  BY DEF RecvRes
<1>2. m \in RpcRes
  BY <1>1, OneMessage DEF RpcReq
<1>3. m.success \in BOOLEAN /\ m.metadata \in Metadata \cup {Empty}
  BY <1>2 DEF RpcRes
<1>4. c \in Chats /\ k \in Hops /\ k + 1 = m.session[2]
  <2>1. c \in Chats /\ m.session[2] \in Hops /\ m.session[2] > 0
    BY OneMessage
  <2> QED
    BY <2>1, ChainAssumption DEF Hops
<1>5. /\ Idle(c, msgs \ {m}) /\ chat[c].pc \notin AtRest
      /\ Behind(waits, c, k + 1, m.cmd) /\ Flight(m, c, k + 1, sessions)
  BY <1>4, OneMessage
<1> HIDE DEF c, k
<1>6. /\ waits[<<c, k>>] \in Waiting /\ waits' \in [Sessions -> Waiting \cup {None}]
      /\ waits'[<<c, k>>] = None
      /\ \A s \in Sessions : s # <<c, k>> => waits'[s] = waits[s]
  BY <1>1, <1>3, <1>4, ContinueTypes
<1>7. /\ earning' \in [Node -> [Chats -> Nat]] /\ panics' \subseteq Sessions
      /\ claims' \subseteq [node : Node, chat : Chats, token_count : Nat, signed : Nat]
      /\ ledger' \in [Chats -> Seq(Node) \cup {None}]
      /\ Held'
  BY <1>1, <1>3, <1>4, ContinueTypes
<1>8. n \in Node /\ waits[<<c, k>>].cmd = m.cmd /\ m.cmd \in Cmd
  <2>1. n \in Node /\ waits[<<c, k>>].cmd \in Cmd
    BY <1>6 DEF Waiting
  <2>2. waits[<<c, k>>].cmd = m.cmd
    BY <1>1, <1>4, <1>5 DEF Behind
  <2> QED
    BY <2>1, <2>2
<1>9. UNCHANGED <<up, sessions, caches, root_pks, spending, checkpoints, faults>>
  BY <1>1, Continues
<1> HIDE DEF n
<1>10. \A d \in Chats, i \in Hops : <<d, i>> \in Sessions /\ (d # c => <<d, i>> # <<c, k>>)
  BY IsSession
<1>11. Behind(waits', c, k, m.cmd)
  <2> SUFFICES ASSUME NEW i \in Hops, waits'[<<c, i>>] # None
               PROVE  i < k /\ waits'[<<c, i>>].cmd = m.cmd
    BY DEF Behind
  <2>1. i # k /\ <<c, i>> \in Sessions
    BY <1>4, <1>6, <1>10
  <2>2. waits'[<<c, i>>] = waits[<<c, i>>]
    BY <1>6, <2>1
  <2>3. i < k + 1 /\ waits[<<c, i>>].cmd = m.cmd
    BY <1>5, <2>2 DEF Behind
  <2> QED
    BY <1>4, <2>1, <2>2, <2>3, ZeroIsHop
<1>12. k = 0 => Unawaited(waits', c)
  BY <1>11, ZeroIsHop DEF Behind, Unawaited
<1>13. /\ chat' \in [Chats -> Loop] /\ msgs' \subseteq RpcReq \cup RpcRes /\ Spares(c)
       /\ ChatInv(c, chat'[c], sessions, waits', msgs')
  <2>0. TypeOK
    BY DEF IInv
  <2>1. CASE m.cmd = "START"
    <3>1. PostStart(msgs \ {m}, n, <<c, k>>, m.success, m.metadata)
      BY <1>1, <1>8, <2>1, Continues DEF n
    <3>2. m.success => Chain(sessions, c, 0)
      BY <1>1, <1>5, <2>1 DEF Flight
    <3>3. CASE m.success = TRUE
      <4>1. PostStart(msgs \ {m}, n, <<c, k>>, TRUE, m.metadata) /\ Chain(sessions, c, 0)
        BY <3>1, <3>2, <3>3
      <4> QED
        BY <1>3, <1>4, <1>5, <1>8, <1>11, <1>12, <2>0, <2>1, <4>1, PostStarting
    <3>4. CASE m.success = FALSE
      <4>1. PostStart(msgs \ {m}, n, <<c, k>>, FALSE, m.metadata)
        BY <3>1, <3>4
      <4> QED
        BY <1>3, <1>4, <1>5, <1>8, <1>11, <1>12, <2>0, <2>1, <4>1, PostStarting
    <3> QED
      BY <1>3, <3>3, <3>4
  <2>2. CASE m.cmd = "FORWARD"
    <3>1. Reply(msgs \ {m}, n, <<c, k>>, "FORWARD", m.success, m.metadata)
      BY <1>1, <1>8, <2>2, Continues DEF n
    <3>2. Chain(sessions, c, 0)
      BY <1>1, <1>5, <2>2 DEF Flight
    <3> QED
      BY <1>3, <1>4, <1>5, <1>8, <1>11, <1>12, <2>0, <2>2, <3>1, <3>2, Replies DEF Cmd
  <2>3. CASE m.cmd = "END"
    <3>1. PostEnd(msgs \ {m}, n, <<c, k>>, m.success, m.metadata)
      BY <1>1, <1>8, <2>3, Continues DEF n
    <3>2. Gone(sessions, c)
      BY <1>1, <1>5, <2>3 DEF Flight
    <3> QED
      BY <1>3, <1>4, <1>5, <1>8, <1>11, <1>12, <2>0, <2>3, <3>1, <3>2, PostEnding
  <2> QED
    BY <1>8, <2>1, <2>2, <2>3 DEF Cmd
<1>14. TypeOK'
  BY <1>6, <1>7, <1>9, <1>13 DEF IInv, TypeOK
<1> QED
  BY <1>4, <1>6, <1>7, <1>9, <1>10, <1>13, <1>14, OneChatStep

(* A worker that has left answers nobody; if it is the root, its chat loop *)
(* is told of an error.                                                    *)
LEMMA ErrorReply ==
    ASSUME TypeOK, NEW c \in Chats, NEW k \in Hops, NEW n, n \notin up, NEW cmd \in Cmd,
           NEW metadata, Reply(msgs, n, <<c, k>>, cmd, FALSE, metadata),
           chat[c].pc \notin AtRest
    PROVE  /\ msgs' = msgs /\ chat' \in [Chats -> Loop] /\ chat'[c].pc \notin AtRest
           /\ chat'[c].used = chat[c].used /\ \A d \in Chats \ {c} : chat'[d] = chat[d]
<1>0. chat \in [Chats -> Loop]
  BY DEF TypeOK
<1>1. CASE k = 0
  <2>1. chat' = [chat EXCEPT ![c] = Resumed(chat[c], cmd, FALSE)] /\ msgs' = msgs
    BY <1>1 DEF Reply
  <2>2. /\ Resumed(chat[c], cmd, FALSE) \in Loop /\ Resumed(chat[c], cmd, FALSE).pc \notin AtRest
        /\ Resumed(chat[c], cmd, FALSE).used = chat[c].used
    BY <1>0 DEF Resumed, Loop, AtRest
  <2> QED
    BY <1>0, <2>1, <2>2
<1>2. CASE k # 0
  <2>1. msgs' = msgs \cup Answer(n, <<c, k>>, cmd, FALSE, metadata) /\ chat' = chat
    BY <1>2 DEF Reply
  <2>2. Answer(n, <<c, k>>, cmd, FALSE, metadata) = {}
    BY DEF Answer
  <2> QED
    BY <1>0, <2>1, <2>2
<1> QED
  BY <1>1, <1>2

LEMMA ErrorPanic ==
    ASSUME TypeOK, NEW c \in Chats, NEW k \in Hops, Panic(msgs, <<c, k>>),
           chat[c].pc \notin AtRest
    PROVE  /\ msgs' = msgs /\ chat' \in [Chats -> Loop] /\ chat'[c].pc \notin AtRest
           /\ chat'[c].used = chat[c].used /\ \A d \in Chats \ {c} : chat'[d] = chat[d]
<1>0. chat \in [Chats -> Loop]
  BY DEF TypeOK
<1>1. msgs' = msgs /\ chat' = IF k = 0 THEN [chat EXCEPT ![c].pc = "failed"] ELSE chat
  BY DEF Panic
<1>2. CASE k = 0
  <2>1. /\ [chat[c] EXCEPT !.pc = "failed"] \in Loop
        /\ [chat[c] EXCEPT !.pc = "failed"].pc = "failed"
        /\ [chat[c] EXCEPT !.pc = "failed"].used = chat[c].used
    BY <1>0 DEF Loop
  <2>2. chat' = [chat EXCEPT ![c] = [chat[c] EXCEPT !.pc = "failed"]]
    BY <1>0, <1>1, <1>2
  <2> QED
    BY <1>0, <1>1, <2>1, <2>2 DEF AtRest
<1>3. CASE k # 0
  BY <1>0, <1>1, <1>3
<1> QED
  BY <1>2, <1>3

LEMMA Dropping ==
    ASSUME TypeOK, NEW c \in Chats, NEW k \in Hops, NEW n, n = waits[<<c, k>>].node, n \notin up,
           waits[<<c, k>>].cmd \in Cmd, NEW md, Continue(msgs, <<c, k>>, FALSE, md),
           chat[c].pc \notin AtRest
    PROVE  /\ msgs' = msgs /\ chat' \in [Chats -> Loop] /\ chat'[c].pc \notin AtRest
           /\ chat'[c].used = chat[c].used /\ \A d \in Chats \ {c} : chat'[d] = chat[d]
<1>1. CASE Panic(msgs, <<c, k>>)
  BY <1>1, ErrorPanic
<1>2. ASSUME NEW cmd \in Cmd, NEW m, Reply(msgs, n, <<c, k>>, cmd, FALSE, m)
      PROVE  /\ msgs' = msgs /\ chat' \in [Chats -> Loop] /\ chat'[c].pc \notin AtRest
             /\ chat'[c].used = chat[c].used /\ \A d \in Chats \ {c} : chat'[d] = chat[d]
  BY <1>2, ErrorReply
<1>3. CASE waits[<<c, k>>].cmd = "START"
  <2>1. PostStart(msgs, n, <<c, k>>, FALSE, md)
    BY <1>3, Continues
  <2>2. Panic(msgs, <<c, k>>) \/ \E m : Reply(msgs, n, <<c, k>>, "START", FALSE, m)
    BY <2>1 DEF PostStart, CreateSession
  <2> QED
    BY <1>1, <1>2, <2>2 DEF Cmd
<1>4. CASE waits[<<c, k>>].cmd = "FORWARD"
  <2>1. Reply(msgs, n, <<c, k>>, "FORWARD", FALSE, md)
    BY <1>4, Continues
  <2> QED
    BY <1>2, <2>1 DEF Cmd
<1>5. CASE waits[<<c, k>>].cmd = "END"
  <2>1. PostEnd(msgs, n, <<c, k>>, FALSE, md)
    BY <1>5, Continues
  <2>2. Panic(msgs, <<c, k>>) \/ \E m : Reply(msgs, n, <<c, k>>, "END", FALSE, m)
    <3>1. (FALSE /\ checkpoints[n][c] # None) = FALSE
      OBVIOUS
    <3> QED
      BY <2>1, <3>1 DEF PostEnd
  <2> QED
    BY <1>1, <1>2, <2>2 DEF Cmd
<1> QED
  BY <1>3, <1>4, <1>5 DEF Cmd

LEMMA RpcDroppedStep ==
    ASSUME IInv, NEW s \in Sessions, RpcDropped(s)
    PROVE  IInv'
<1> DEFINE c == s[1]
           k == s[2]
           n == waits[s].node
           md == waits[s].metadata
<1>1. c \in Chats /\ k \in Hops /\ s = <<c, k>>
  BY SessionIs
<1> HIDE DEF c, k
<1>2. waits[<<c, k>>] # None /\ n \notin up /\ Continue(msgs, <<c, k>>, FALSE, md)
  BY <1>1 DEF RpcDropped
<1>3. waits[<<c, k>>] \in Waiting
  BY <1>1, <1>2 DEF IInv, TypeOK
<1>4. n \in Node /\ md \in Metadata /\ waits[<<c, k>>].cmd \in Cmd
  BY <1>1, <1>3 DEF Waiting
<1>5. n = waits[<<c, k>>].node
  BY <1>1
<1> HIDE DEF n, md
<1>6. /\ waits' \in [Sessions -> Waiting \cup {None}]
      /\ waits'[<<c, k>>] = None
      /\ \A x \in Sessions : x # <<c, k>> => waits'[x] = waits[x]
  BY <1>1, <1>2, <1>4, ContinueTypes
<1>7. /\ earning' \in [Node -> [Chats -> Nat]] /\ panics' \subseteq Sessions
      /\ claims' \subseteq [node : Node, chat : Chats, token_count : Nat, signed : Nat]
      /\ ledger' \in [Chats -> Seq(Node) \cup {None}]
      /\ Held'
  BY <1>1, <1>2, <1>4, ContinueTypes
<1>8. UNCHANGED <<up, sessions, caches, root_pks, spending, checkpoints, faults>>
  BY <1>2, Continues
<1>9. \A d \in Chats, i \in Hops : <<d, i>> \in Sessions /\ (d # c => <<d, i>> # <<c, k>>)
  BY IsSession
<1>10. ChatInv(c, chat[c], sessions, waits, msgs) /\ TypeOK
  BY <1>1 DEF IInv
<1>11. chat[c].pc \notin AtRest
  BY <1>1, <1>2, <1>10 DEF ChatInv, Unawaited
<1>12. /\ msgs' = msgs /\ chat' \in [Chats -> Loop] /\ chat'[c].pc \notin AtRest
       /\ \A d \in Chats \ {c} : chat'[d] = chat[d]
  BY <1>1, <1>2, <1>4, <1>5, <1>10, <1>11, Dropping
<1>13. ChatInv(c, chat'[c], sessions', waits', msgs')
  <2>1. \A i \in Hops : waits'[<<c, i>>] # None => waits'[<<c, i>>] = waits[<<c, i>>]
    BY <1>1, <1>6, <1>9
  <2>2. \A j, cmd : Behind(waits, c, j, cmd) => Behind(waits', c, j, cmd)
    BY <2>1 DEF Behind
  <2>3. msgs' = msgs /\ sessions' = sessions
    BY <1>8, <1>12
  <2> QED
    BY <1>10, <1>12, <2>2, <2>3 DEF ChatInv, AtRest
<1>14. Spares(c)
  BY <1>12 DEF Spares
<1>15. TypeOK'
  BY <1>6, <1>7, <1>8, <1>10, <1>12 DEF TypeOK
<1> QED
  BY <1>1, <1>6, <1>7, <1>8, <1>9, <1>13, <1>14, <1>15, OneChatStep

LEMMA RecvReqStep ==
    ASSUME IInv, NEW m \in msgs, RecvReq(m)
    PROVE  IInv'
<1> DEFINE c == m.session[1]
           k == m.session[2]
<1>1. m.type = "RpcReq" /\ m \in RpcReq
  BY OneMessage DEF RecvReq, RpcRes
<1>2. /\ m.to \in Node /\ m.from_layer \in Nat \cup {None} /\ m.metadata \in Metadata
      /\ m.cmd \in Cmd
  BY <1>1 DEF RpcReq
<1>3. c \in Chats /\ k \in Hops /\ k # 0 /\ m.session = <<c, k>>
  <2>1. c \in Chats /\ k \in Hops /\ k > 0 /\ m.session = <<c, k>>
    BY OneMessage
  <2> QED
    BY <2>1, ZeroIsHop
<1>4. Idle(c, msgs \ {m}) /\ At(c, k, m.cmd) /\ Flight(m, c, k, sessions)
  BY <1>3, OneMessage DEF At
<1> HIDE DEF c, k
<1>5. CASE m.cmd = "START"
  <2>1. Start(msgs \ {m}, m.to, <<c, k>>, m.from_layer, m.metadata)
    BY <1>3, <1>5 DEF RecvReq
  <2>2. Building(sessions, c, k)
    BY <1>1, <1>4, <1>5 DEF Flight
  <2> QED
    BY <1>2, <1>3, <1>4, <1>5, <2>1, <2>2, StartStep
<1>6. CASE m.cmd = "FORWARD"
  <2>1. Forward(msgs \ {m}, m.to, <<c, k>>, m.metadata)
    BY <1>3, <1>6 DEF RecvReq
  <2>2. Chain(sessions, c, 0)
    BY <1>1, <1>4, <1>6 DEF Flight
  <2> QED
    BY <1>2, <1>3, <1>4, <1>6, <2>1, <2>2, ForwardStep
<1>7. CASE m.cmd = "END"
  <2>1. End(msgs \ {m}, m.to, <<c, k>>, m.metadata)
    BY <1>3, <1>7 DEF RecvReq
  <2>2. Chain(sessions, c, k)
    BY <1>1, <1>4, <1>7 DEF Flight
  <2> QED
    BY <1>2, <1>3, <1>4, <1>7, <2>1, <2>2, EndStep
<1> QED
  BY <1>2, <1>5, <1>6, <1>7 DEF Cmd

(* The chat loop calls its worker when nothing of the chat is going on. *)
LEMMA ChatLoopStep ==
    ASSUME IInv, NEW c \in Chats, ChatStart(c) \/ ChatForward(c) \/ ChatFinish(c)
    PROVE  IInv'
<1>1. ChatInv(c, chat[c], sessions, waits, msgs) /\ Root[c] \in Node
  BY ChainAssumption DEF IInv
<1>2. chat[c].pc \in AtRest
  BY DEF ChatStart, ChatForward, ChatFinish, AtRest
<1>3. Of(c, msgs) = {} /\ Unawaited(waits, c)
  BY <1>1, <1>2 DEF ChatInv
<1>4. Idle(c, msgs) /\ \A cmd : At(c, 0, cmd)
  BY <1>3 DEF Idle, At, Behind, Unawaited
<1>5. CASE ChatStart(c)
  <2>1. Gone(sessions, c)
    BY <1>1, <1>5 DEF ChatInv, ChatStart
  <2>2. Building(sessions, c, 0)
    BY <2>1, ZeroIsHop DEF Gone, Building
  <2> QED
    BY <1>1, <1>4, <1>5, <2>2, StartStep, ZeroIsHop DEF ChatStart
<1>6. CASE ChatForward(c)
  <2>1. Chain(sessions, c, 0)
    BY <1>1, <1>6 DEF ChatInv, ChatForward
  <2> QED
    BY <1>1, <1>4, <1>6, <2>1, ForwardStep, ZeroIsHop DEF ChatForward
<1>7. CASE ChatFinish(c)
  <2>1. Chain(sessions, c, 0)
    BY <1>1, <1>7 DEF ChatInv, ChatFinish
  <2> QED
    BY <1>1, <1>4, <1>7, <2>1, EndStep, ZeroIsHop DEF ChatFinish
<1> QED
  BY <1>5, <1>6, <1>7

LEMMA AbortStep ==
    ASSUME IInv, NEW c \in Chats, ChatAborted(c)
    PROVE  IInv'
<1>1. /\ chat' = [chat EXCEPT ![c].pc = "failed"] /\ chat \in [Chats -> Loop]
      /\ ChatInv(c, chat[c], sessions, waits, msgs)
  BY DEF ChatAborted, IInv, TypeOK
<1>2. UNCHANGED <<up, sessions, caches, waits, msgs, root_pks, spending, earning, checkpoints,
                  ledger, claims, panics, faults>>
  BY DEF ChatAborted, service, usage, onchain
<1>3. [chat[c] EXCEPT !.pc = "failed"] \in Loop /\ [chat[c] EXCEPT !.pc = "failed"].pc = "failed"
  BY <1>1 DEF Loop
<1>4. chat' = [chat EXCEPT ![c] = [chat[c] EXCEPT !.pc = "failed"]]
  BY <1>1
<1>5. /\ chat' \in [Chats -> Loop] /\ chat'[c].pc = "failed"
      /\ \A d \in Chats \ {c} : chat'[d] = chat[d]
  BY <1>1, <1>3, <1>4
<1>6. TypeOK'
  BY <1>2, <1>5 DEF IInv, TypeOK
<1>7. Held'
  BY <1>2 DEF IInv, Held
<1>8. Spares(c)
  BY <1>2, <1>5 DEF Spares
<1>9. ChatInv(c, chat'[c], sessions', waits', msgs')
  BY <1>1, <1>2, <1>5 DEF ChatInv, AtRest
<1> QED
  BY <1>2, <1>6, <1>7, <1>8, <1>9, OneChatStep

LEMMA LoseStep ==
    ASSUME IInv, NEW m \in msgs, Lose(m)
    PROVE  IInv'
<1>1. UNCHANGED <<up, chat, sessions, caches, waits, root_pks, spending, earning, checkpoints,
                  ledger, claims, panics>>
  BY DEF Lose, service, usage, onchain
<1>2. msgs' \subseteq msgs /\ faults' \in 0 .. MaxFaults
  BY ChainAssumption DEF Lose, IInv, TypeOK
<1>3. TypeOK'
  BY <1>1, <1>2 DEF IInv, TypeOK
<1>4. Held'
  BY <1>1 DEF IInv, Held
<1>5. ASSUME NEW c \in Chats PROVE ChatInv(c, chat'[c], sessions', waits', msgs')
  <2>1. ChatInv(c, chat[c], sessions, waits, msgs)
    BY DEF IInv
  <2>2. Of(c, msgs') \subseteq Of(c, msgs)
    BY <1>2 DEF Of
  <2>3. ChatInv(c, chat[c], sessions, waits, msgs')
    BY <2>1, <2>2 DEF ChatInv
  <2> QED
    BY <1>1, <2>3
<1> QED
  BY <1>3, <1>4, <1>5 DEF IInv

LEMMA UnchangedStep ==
    ASSUME IInv, up' \subseteq up, faults' \in 0 .. MaxFaults,
           UNCHANGED <<chat, service, msgs, usage, onchain, panics>>
    PROVE  IInv'
<1>1. UNCHANGED <<chat, sessions, caches, waits, msgs, root_pks, spending, earning, checkpoints,
                  ledger, claims, panics>>
  BY DEF service, usage, onchain
<1>2. TypeOK'
  BY <1>1 DEF IInv, TypeOK
<1> QED
  BY <1>1, <1>2 DEF IInv, Held

(* The invariant behind the two results below: the workers' loops, the     *)
(* handlers of model_service.rs and the chat loop keep, for every chat,    *)
(* at most one message, and sessions that form the part of the chain which *)
(* the command on its way has built, runs through or has left standing.    *)
THEOREM ChainInvariant == Spec => []IInv
<1>1. Init => IInv
  BY ChainInit
<1>2. IInv /\ [Next]_vars => IInv'
  <2> SUFFICES ASSUME IInv, [Next]_vars PROVE IInv'
    OBVIOUS
  <2>1. ASSUME NEW c \in Chats, ChatStart(c) \/ ChatForward(c) \/ ChatFinish(c) PROVE IInv'
    BY <2>1, ChatLoopStep
  <2>2. ASSUME NEW c \in Chats, ChatAborted(c) PROVE IInv'
    BY <2>2, AbortStep
  <2>3. ASSUME NEW m \in msgs, RecvReq(m) PROVE IInv'
    BY <2>3, RecvReqStep
  <2>4. ASSUME NEW m \in msgs, RecvRes(m) PROVE IInv'
    BY <2>4, RecvResStep
  <2>5. ASSUME NEW m \in msgs, Lose(m) PROVE IInv'
    BY <2>5, LoseStep
  <2>6. ASSUME NEW s \in Sessions, RpcDropped(s) PROVE IInv'
    BY <2>6, RpcDroppedStep
  <2>7. ASSUME NEW n \in Node, Shutdown(n) PROVE IInv'
    <3>1. up' \subseteq up /\ UNCHANGED <<chat, service, msgs, usage, onchain, panics>>
      BY <2>7 DEF Shutdown
    <3>2. faults' \in 0 .. MaxFaults
      BY <2>7, ChainAssumption DEF Shutdown, IInv, TypeOK
    <3> QED
      BY <3>1, <3>2, UnchangedStep
  <2>8. CASE UNCHANGED vars
    <3>1. up' = up /\ faults' = faults /\ UNCHANGED <<chat, service, msgs, usage, onchain, panics>>
      BY <2>8 DEF vars
    <3>2. faults' \in 0 .. MaxFaults
      BY <3>1 DEF IInv, TypeOK
    <3> QED
      BY <3>1, <3>2, UnchangedStep
  <2> QED
    BY <2>1, <2>2, <2>3, <2>4, <2>5, <2>6, <2>7, <2>8 DEF Next
<1> QED
  BY <1>1, <1>2, PTL DEF Spec

LEMMA TurnsAreOne == IInv => OneTurnAtATime
<1> SUFFICES ASSUME IInv, NEW c \in Chats
             PROVE  Cardinality(Of(c, msgs)) + (IF chat[c].pc = "ready" THEN 1 ELSE 0) <= 1
  BY DEF OneTurnAtATime, Of
<1>1. ChatInv(c, chat[c], sessions, waits, msgs)
  BY DEF IInv
<1>2. CASE Of(c, msgs) = {}
  <2>1. Cardinality(Of(c, msgs)) = 0
    BY <1>2, FS_EmptySet
  <2> QED
    BY <2>1
<1>3. CASE Of(c, msgs) # {}
  <2>1. PICK m : m \in Of(c, msgs)
    BY <1>3
  <2>2. Of(c, msgs) = {m}
    BY <1>1, <2>1 DEF ChatInv
  <2>3. Cardinality(Of(c, msgs)) = 1
    BY <2>2, FS_Singleton
  <2>4. chat[c].pc # "ready"
    BY <1>1, <1>3 DEF ChatInv, AtRest
  <2> QED
    BY <2>3, <2>4
<1> QED
  BY <1>2, <1>3

(* What protects the counters of OnChainStorage, read and written back     *)
(* without a lock: whatever is lost and whoever leaves, at most one worker *)
(* has something to do for a chat.                                         *)
THEOREM ChainOneTurnAtATime == Spec => []OneTurnAtATime
BY ChainInvariant, TurnsAreOne, PTL

LEMMA DoneIsClean == IInv => FinishedLeavesNothing
<1> SUFFICES ASSUME IInv, NEW s \in Sessions, chat[s[1]].pc = "done"
             PROVE  sessions[s] = None /\ s \notin caches /\ waits[s] = None
  BY DEF FinishedLeavesNothing
<1>1. s[1] \in Chats /\ s[2] \in Hops /\ s = <<s[1], s[2]>>
  BY SessionIs
<1>2. ChatInv(s[1], chat[s[1]], sessions, waits, msgs)
  BY <1>1 DEF IInv
<1>3. Gone(sessions, s[1]) /\ Unawaited(waits, s[1])
  BY <1>2 DEF ChatInv, AtRest
<1>4. sessions[s] = None /\ waits[s] = None
  BY <1>1, <1>3 DEF Gone, Unawaited
<1> QED
  BY <1>4 DEF IInv, Held

(* ModelService::end that returns success to the chat loop has taken every *)
(* session, cache and waiting task of the chat with it, along a chain of   *)
(* any length.                                                             *)
THEOREM ChainFinishedLeavesNothing == Spec => []FinishedLeavesNothing
BY ChainInvariant, DoneIsClean, PTL

--------------------------------------------------------------------------------
(* What is paid.  The session on chain lists the workers of the hops after *)
(* the root's, the last hop first.  A list a, of the hops after k, names   *)
(* whom each of them hands on to.                                          *)

Named(ss, c, a, k) ==
    \A i \in Hops : i >= k /\ ss[<<c, i>>] # None =>
        /\ i <= k + Len(a)
        /\ ss[<<c, i>>].dest = IF i < k + Len(a) THEN a[k + Len(a) - i] ELSE None

HopNode(lg, i) == lg[Len(lg) - i + 1]

(* How often n is in the chain, and how often among its first j hops.      *)
Times(lg, n) == IF lg = None THEN 0 ELSE Cardinality({i \in DOMAIN lg : lg[i] = n})

Passed(lg, n, j) == Cardinality({i \in DOMAIN lg : lg[i] = n /\ i > Len(lg) - j})

(* Of one chat: lg is its session on chain, ea and ck what each worker has *)
(* counted and was signed last, cl the claims, sp what the root counted.   *)
Covered(lg, ea, ck) ==
    \A n \in Node : ea[n] > 0 => ck[n] # None /\ ea[n] <= Times(lg, n) * ck[n]

Claimed(lg, used, cl) ==
    \A k \in cl : Times(lg, k.node) = 1 => k.token_count = k.signed /\ k.signed = used

Unearned(used, ea, cl, sp) == used = 0 /\ sp = 0 /\ cl = {} /\ \A n \in Node : ea[n] = 0

(* The token after the first `used` has come through j hops.               *)
Counted(lg, used, j, ea, ck) ==
    /\ lg # None
    /\ \A n \in Node : /\ ea[n] = Times(lg, n) * used + Passed(lg, n, j)
                       /\ Passed(lg, n, j) > 0 => ck[n] = used + 1

Settled(lg, used, ea, ck) ==
    /\ lg # None
    /\ \A n \in Node : /\ ea[n] = Times(lg, n) * used
                       /\ Times(lg, n) > 0 /\ used > 0 => ck[n] = used

(* What hop i claims when END comes by, if its worker is in the chain once. *)
Owed(lg, used, i, ea, ck) ==
    LET n == HopNode(lg, i)
    IN  Times(lg, n) = 1 => ea[n] = used /\ ck[n] = used

PayReady(c, ss, used, lg, ea, ck, cl, sp) ==
    Named(ss, c, lg, 0) /\ sp = used /\ cl = {} /\ Settled(lg, used, ea, ck)

PayWait(c, i, w, ss, used, lg, ea, ck, cl, sp) ==
    /\ w.cmd = "START" => /\ Unearned(used, ea, cl, sp)
                          /\ i > 0 => w.node = ss[<<c, i - 1>>].dest
    /\ w.cmd = "END" /\ i > 0 => /\ lg # None /\ i <= Len(lg)
                                 /\ w.node = HopNode(lg, i) /\ Owed(lg, used, i, ea, ck)

PayReq(c, m, k, ss, used, lg, ea, ck, cl, sp) ==
    /\ m.cmd = "START" => /\ Unearned(used, ea, cl, sp)
                          /\ m.metadata.addresses = <<>> /\ m.to = ss[<<c, k - 1>>].dest
    /\ m.cmd # "START" => /\ lg # None /\ Named(ss, c, lg, 0)
                          /\ k <= Len(lg) /\ m.to = HopNode(lg, k)
    /\ m.cmd = "FORWARD" => /\ sp = used + 1 /\ cl = {} /\ m.metadata.checkpoint = used + 1
                            /\ Counted(lg, used, k - 1, ea, ck)
    /\ m.cmd = "END" => \A i \in k .. Len(lg) : Owed(lg, used, i, ea, ck)

PayRes(c, m, k, ss, used, lg, ea, ck, cl, sp) ==
    /\ m.cmd = "START" => /\ Unearned(used, ea, cl, sp)
                          /\ m.success => /\ m.metadata \in Metadata
                                          /\ Named(ss, c, m.metadata.addresses, k - 1)
    /\ m.cmd = "FORWARD" /\ m.success => /\ Named(ss, c, lg, 0) /\ sp = used + 1 /\ cl = {}
                                         /\ Counted(lg, used, Len(lg), ea, ck)

(* What holds whoever has the turn: the counts are covered, the claims     *)
(* right, and those who wait are owed what they will claim.                *)
PayKept(c, ss, ww, used, lg, ea, ck, cl, sp) ==
    /\ Covered(lg, ea, ck) /\ Claimed(lg, used, cl)
    /\ \A i, j \in Hops : ww[<<c, i>>] # None /\ ww[<<c, j>>] # None
                             => ww[<<c, i>>].cmd = ww[<<c, j>>].cmd
    /\ \A i \in Hops : ww[<<c, i>>] # None =>
          PayWait(c, i, ww[<<c, i>>], ss, used, lg, ea, ck, cl, sp)

PayMsg(c, m, ss, used, lg, ea, ck, cl, sp) ==
    /\ m.type = "RpcReq" => PayReq(c, m, m.session[2], ss, used, lg, ea, ck, cl, sp)
    /\ m.type = "RpcRes" => PayRes(c, m, m.session[2], ss, used, lg, ea, ck, cl, sp)

PayInv(c, ch, ss, ww, ms, lg, ea, ck, cl, sp) ==
    /\ PayKept(c, ss, ww, ch.used, lg, ea, ck, cl, sp)
    /\ ch.pc = "idle" => Unearned(ch.used, ea, cl, sp)
    /\ ch.pc = "ready" => PayReady(c, ss, ch.used, lg, ea, ck, cl, sp)
    /\ \A m \in Of(c, ms) : PayMsg(c, m, ss, ch.used, lg, ea, ck, cl, sp)

Column(f, c) == [n \in Node |-> f[n][c]]

ClaimsOf(cl, c) == {k \in cl : k.chat = c}

Pays ==
    \A c \in Chats : PayInv(c, chat[c], sessions, waits, msgs, ledger[c], Column(earning, c),
                            Column(checkpoints, c), ClaimsOf(claims, c), spending[c])

LEMMA PassedHops ==
    ASSUME NEW lg \in Seq(Node), NEW n
    PROVE  /\ lg # None /\ Times(lg, n) \in Nat
           /\ \A j \in Int : Passed(lg, n, j) \in Nat /\ Passed(lg, n, j) <= Times(lg, n)
           /\ Passed(lg, n, 0) = 0
           /\ Passed(lg, n, Len(lg)) = Times(lg, n)
           /\ \A k \in 1 .. Len(lg) :
                 Passed(lg, n, k) = Passed(lg, n, k - 1) + (IF HopNode(lg, k) = n THEN 1 ELSE 0)
<1> DEFINE L == Len(lg)
           S(j) == {i \in DOMAIN lg : lg[i] = n /\ i > L - j}
           T == {i \in DOMAIN lg : lg[i] = n}
<1>1. L \in Nat /\ DOMAIN lg = 1 .. L
  OBVIOUS
<1>2. IsFiniteSet(DOMAIN lg)
  BY <1>1, FS_Interval
<1>3. IsFiniteSet(T) /\ \A j \in Int : IsFiniteSet(S(j)) /\ Cardinality(S(j)) <= Cardinality(T)
  <2>1. IsFiniteSet(T)
    BY <1>2, FS_Subset
  <2>2. \A j \in Int : S(j) \subseteq T
    OBVIOUS
  <2> QED
    BY <2>1, <2>2, FS_Subset
<1>4. lg # None /\ Times(lg, n) = Cardinality(T)
  BY NoneAssumption DEF Times
<1>5. Cardinality(T) \in Nat /\ \A j \in Int : Cardinality(S(j)) \in Nat
  BY <1>3, FS_CardinalityType
<1>6. S(0) = {} /\ S(L) = T
  BY <1>1
<1>7. ASSUME NEW k \in 1 .. L
      PROVE  Cardinality(S(k)) = Cardinality(S(k - 1)) + (IF HopNode(lg, k) = n THEN 1 ELSE 0)
  <2>1. L - k + 1 \in DOMAIN lg /\ k - 1 \in Int /\ L - k + 1 \notin S(k - 1)
    BY <1>1
  <2>2. CASE lg[L - k + 1] = n
    <3>1. S(k) = S(k - 1) \cup {L - k + 1}
      BY <1>1, <2>1, <2>2
    <3> QED
      BY <1>3, <2>1, <2>2, <3>1, FS_AddElement DEF HopNode
  <2>3. CASE lg[L - k + 1] # n
    <3>1. S(k) = S(k - 1)
      BY <1>1, <2>1, <2>3
    <3>2. Cardinality(S(k - 1)) \in Nat
      BY <1>5, <2>1
    <3>3. HopNode(lg, k) # n
      BY <2>3 DEF HopNode
    <3> HIDE DEF S
    <3> QED
      BY <3>1, <3>2, <3>3
  <2> QED
    BY <2>2, <2>3
<1>8. \A j : Passed(lg, n, j) = Cardinality(S(j))
  BY DEF Passed
<1> HIDE DEF S, T
<1> QED
  BY <1>1, <1>3, <1>4, <1>5, <1>6, <1>7, <1>8, FS_EmptySet

(* A worker that is in the chain once has one hop. *)
LEMMA OneHop ==
    ASSUME NEW lg \in Seq(Node), NEW i \in 1 .. Len(lg), NEW k \in 1 .. Len(lg),
           HopNode(lg, i) = HopNode(lg, k), Times(lg, HopNode(lg, k)) = 1
    PROVE  i = k
<1> DEFINE n == HopNode(lg, k)
           T == {j \in DOMAIN lg : lg[j] = n}
<1>1. Len(lg) \in Nat /\ DOMAIN lg = 1 .. Len(lg)
  OBVIOUS
<1>2. IsFiniteSet(T) /\ Cardinality(T) = 1
  <2>0. IsFiniteSet(DOMAIN lg) /\ T \subseteq DOMAIN lg
    BY <1>1, FS_Interval
  <2>1. IsFiniteSet(T)
    BY <2>0, FS_Subset
  <2>2. Cardinality(T) = 1
    BY NoneAssumption DEF Times
  <2> QED
    BY <2>1, <2>2
<1>3. Len(lg) - i + 1 \in T /\ Len(lg) - k + 1 \in T
  BY <1>1 DEF HopNode
<1> HIDE DEF T
<1>4. \E x : T = {x}
  BY <1>2, FS_Singleton
<1>5. Len(lg) - i + 1 = Len(lg) - k + 1
  BY <1>3, <1>4
<1> QED
  BY <1>1, <1>5

LEMMA HopNodeIsNode ==
    ASSUME NEW lg \in Seq(Node), NEW i \in 1 .. Len(lg)
    PROVE  HopNode(lg, i) \in Node /\ HopNode(lg, i) # None /\ Times(lg, HopNode(lg, i)) \in Nat
BY NoneAssumption, PassedHops DEF HopNode

(* Arithmetic of a round. *)
LEMMA RoundOver ==
    ASSUME NEW lg \in Seq(Node), NEW used \in Nat, NEW ea, NEW ck,
           Counted(lg, used, Len(lg), ea, ck)
    PROVE  Settled(lg, used + 1, ea, ck)
<1> SUFFICES ASSUME NEW n \in Node
             PROVE  /\ ea[n] = Times(lg, n) * (used + 1)
                    /\ Times(lg, n) > 0 /\ used + 1 > 0 => ck[n] = used + 1
  BY DEF Counted, Settled
<1>1. Times(lg, n) \in Nat /\ Passed(lg, n, Len(lg)) = Times(lg, n)
  BY PassedHops
<1>2. ea[n] = Times(lg, n) * used + Times(lg, n)
  BY <1>1 DEF Counted
<1>3. Times(lg, n) > 0 => ck[n] = used + 1
  BY <1>1 DEF Counted
<1> QED
  BY <1>1, <1>2, <1>3

LEMMA RoundBegins ==
    ASSUME NEW lg \in Seq(Node), NEW used \in Nat, NEW ea, NEW ck, NEW ck2,
           Settled(lg, used, ea, ck)
    PROVE  Counted(lg, used, 0, ea, ck2)
<1> SUFFICES ASSUME NEW n \in Node
             PROVE  ea[n] = Times(lg, n) * used + Passed(lg, n, 0) /\ ~(Passed(lg, n, 0) > 0)
  BY DEF Counted, Settled
<1>1. Times(lg, n) \in Nat /\ Passed(lg, n, 0) = 0 /\ ea[n] = Times(lg, n) * used
  BY PassedHops DEF Settled
<1> QED
  BY <1>1

LEMMA OneMore ==
    ASSUME NEW a \in Nat, NEW b \in Nat
    PROVE  a * b \in Nat /\ a * (b + 1) = a * b + a
OBVIOUS

(* Hop k counts a token. *)
LEMMA HopCounts ==
    ASSUME NEW lg \in Seq(Node), NEW used \in Nat, NEW ea \in [Node -> Nat],
           NEW ck \in [Node -> Nat \cup {None}], NEW k \in 1 .. Len(lg),
           Counted(lg, used, k - 1, ea, ck), Covered(lg, ea, ck),
           NEW n, n = HopNode(lg, k), NEW ea2, ea2 = [ea EXCEPT ![n] = ea[n] + 1],
           NEW ck2, ck2 = [ck EXCEPT ![n] = used + 1]
    PROVE  Counted(lg, used, k, ea2, ck2) /\ Covered(lg, ea2, ck2)
<1>0. n \in Node
  BY HopNodeIsNode
<1>1. ASSUME NEW x \in Node
      PROVE  /\ ea2[x] = Times(lg, x) * used + Passed(lg, x, k)
             /\ Passed(lg, x, k) > 0 => ck2[x] = used + 1
             /\ ea2[x] > 0 => ck2[x] # None /\ ea2[x] <= Times(lg, x) * ck2[x]
  <2>1. /\ Times(lg, x) \in Nat /\ Passed(lg, x, k) \in Nat /\ Passed(lg, x, k - 1) \in Nat
        /\ Passed(lg, x, k) <= Times(lg, x)
        /\ Passed(lg, x, k) = Passed(lg, x, k - 1) + (IF n = x THEN 1 ELSE 0)
    <3>1. k \in Int /\ k - 1 \in Int
      OBVIOUS
    <3>2. Passed(lg, x, k) = Passed(lg, x, k - 1) + (IF HopNode(lg, k) = x THEN 1 ELSE 0)
      BY PassedHops
    <3> QED
      BY <3>1, <3>2, PassedHops
  <2>2. /\ ea[x] = Times(lg, x) * used + Passed(lg, x, k - 1)
        /\ Passed(lg, x, k - 1) > 0 => ck[x] = used + 1
        /\ ea[x] > 0 => ck[x] # None /\ ea[x] <= Times(lg, x) * ck[x]
    BY DEF Counted, Covered
  <2>3. CASE x = n
    <3>1. ea2[x] = ea[x] + 1 /\ ck2[x] = used + 1 /\ used + 1 # None
      BY <1>0, <2>3, NoneAssumption
    <3>2. Times(lg, x) * used \in Nat
          /\ Times(lg, x) * (used + 1) = Times(lg, x) * used + Times(lg, x)
      BY <2>1, OneMore
    <3>3. ea2[x] = Times(lg, x) * used + Passed(lg, x, k)
      BY <2>1, <2>2, <2>3, <3>1, <3>2
    <3>4. ea2[x] <= Times(lg, x) * (used + 1)
      BY <2>1, <3>2, <3>3
    <3> QED
      BY <3>1, <3>3, <3>4
  <2>4. CASE x # n
    <3>1. ea2[x] = ea[x] /\ ck2[x] = ck[x]
      BY <1>0, <2>4
    <3>2. Passed(lg, x, k) = Passed(lg, x, k - 1)
      BY <2>1, <2>4
    <3> QED
      BY <2>2, <3>1, <3>2
  <2> QED
    BY <2>3, <2>4
<1>2. lg # None
  BY PassedHops
<1> QED
  BY <1>1, <1>2 DEF Counted, Covered

(* How a handler's end leaves what is paid.                                *)

(* What hop k may answer. *)
Telling(c, k, cmd, success, metadata, ss, used, lg, ea, ck, cl, sp) ==
    /\ k = 0 /\ cmd = "START" /\ success => PayReady(c, ss, used, lg, ea, ck, cl, sp)
    /\ k = 0 /\ cmd = "FORWARD" /\ success => PayReady(c, ss, used + 1, lg, ea, ck, cl, sp)
    /\ k # 0 /\ cmd = "START" => Unearned(used, ea, cl, sp)
    /\ k # 0 /\ cmd = "START" /\ success =>
          metadata \in Metadata /\ Named(ss, c, metadata.addresses, k - 1)
    /\ k # 0 /\ cmd = "FORWARD" /\ success =>
          /\ Named(ss, c, lg, 0) /\ sp = used + 1 /\ cl = {}
          /\ Counted(lg, used, Len(lg), ea, ck)

LEMMA PayReplied ==
    ASSUME TypeOK, NEW c \in Chats, NEW k \in Hops, NEW n, NEW left, Idle(c, left),
           NEW cmd \in Cmd, NEW success, NEW metadata,
           Reply(left, n, <<c, k>>, cmd, success, metadata),
           NEW ss, NEW ww, NEW lg, NEW ea, NEW ck, NEW cl, NEW sp,
           PayKept(c, ss, ww, chat[c].used, lg, ea, ck, cl, sp),
           k = 0 => Unawaited(ww, c), k # 0 => chat[c].pc \notin AtRest,
           Telling(c, k, cmd, success, metadata, ss, chat[c].used, lg, ea, ck, cl, sp)
    PROVE  PayInv(c, chat'[c], ss, ww, msgs', lg, ea, ck, cl, sp) /\ Spares(c)
<1>0. chat \in [Chats -> Loop]
  BY DEF TypeOK
<1>1. CASE k = 0
  <2> DEFINE ch == Resumed(chat[c], cmd, success)
  <2>1. chat' = [chat EXCEPT ![c] = ch] /\ msgs' = left \cup {}
    BY <1>1 DEF Reply
  <2>2. /\ ch.pc \notin {"idle"}
        /\ ch.pc = "ready" => success /\ cmd \in {"START", "FORWARD"}
        /\ ch.used = IF cmd = "FORWARD" /\ success THEN chat[c].used + 1 ELSE chat[c].used
    BY DEF Resumed, Cmd
  <2>3. chat'[c] = ch /\ \A d \in Chats \ {c} : chat'[d] = chat[d]
    BY <1>0, <2>1
  <2> HIDE DEF ch
  <2>4. Spares(c) /\ Of(c, msgs') = {}
    BY <2>1, <2>3, Sparing
  <2>5. ch.pc = "ready" => PayReady(c, ss, ch.used, lg, ea, ck, cl, sp)
    BY <1>1, <2>2 DEF Telling
  <2>6. PayKept(c, ss, ww, ch.used, lg, ea, ck, cl, sp)
    <3>1. CASE ch.used = chat[c].used
      BY <3>1
    <3>2. CASE cmd = "FORWARD" /\ success
      <4>1. cl = {}
        BY <1>1, <3>2 DEF PayReady, Telling
      <4>2. Claimed(lg, ch.used, cl)
        BY <4>1 DEF Claimed
      <4>3. \A i \in Hops : ww[<<c, i>>] = None
        BY <1>1 DEF Unawaited
      <4> QED
        BY <4>2, <4>3 DEF PayKept
    <3> QED
      BY <2>2, <3>1, <3>2
  <2> QED
    BY <2>2, <2>3, <2>4, <2>5, <2>6 DEF PayInv
<1>2. CASE k # 0
  <2> DEFINE res == [type |-> "RpcRes", cmd |-> cmd, session |-> <<c, k>>, success |-> success,
                     metadata |-> metadata]
             new == Answer(n, <<c, k>>, cmd, success, metadata)
  <2>1. chat' = chat /\ msgs' = left \cup new /\ new \subseteq {res}
    BY <1>2 DEF Reply, Answer
  <2>2. /\ res.type = "RpcRes" /\ res.cmd = cmd /\ res.success = success
        /\ res.metadata = metadata /\ res.session[1] = c /\ res.session[2] = k
    OBVIOUS
  <2> HIDE DEF res, new
  <2>3. Spares(c) /\ Of(c, msgs') = new
    <3>1. \A m \in new : m.session[1] = c
      BY <2>1, <2>2
    <3> QED
      BY <2>1, <3>1, Sparing
  <2>4. PayMsg(c, res, ss, chat[c].used, lg, ea, ck, cl, sp)
    BY <1>2, <2>2 DEF PayMsg, PayRes, Telling
  <2>5. \A m \in Of(c, msgs') : PayMsg(c, m, ss, chat[c].used, lg, ea, ck, cl, sp)
    BY <2>1, <2>3, <2>4
  <2> QED
    BY <1>2, <2>1, <2>3, <2>5 DEF PayInv, AtRest
<1> QED
  BY <1>1, <1>2

LEMMA PayPanicked ==
    ASSUME TypeOK, NEW c \in Chats, NEW k \in Hops, NEW left, Idle(c, left), Panic(left, <<c, k>>),
           k # 0 => chat[c].pc \notin AtRest,
           NEW ss, NEW ww, NEW lg, NEW ea, NEW ck, NEW cl, NEW sp,
           PayKept(c, ss, ww, chat[c].used, lg, ea, ck, cl, sp)
    PROVE  PayInv(c, chat'[c], ss, ww, msgs', lg, ea, ck, cl, sp) /\ Spares(c)
<1>0. chat \in [Chats -> Loop]
  BY DEF TypeOK
<1>1. /\ msgs' = left \cup {}
      /\ chat' = IF k = 0 THEN [chat EXCEPT ![c].pc = "failed"] ELSE chat
  BY DEF Panic
<1>2. /\ \A d \in Chats \ {c} : chat'[d] = chat[d]
      /\ chat'[c].pc \notin AtRest /\ chat'[c].used = chat[c].used
  <2>1. CASE k = 0
    <3>1. /\ [chat[c] EXCEPT !.pc = "failed"].used = chat[c].used
          /\ [chat[c] EXCEPT !.pc = "failed"].pc = "failed"
      BY <1>0 DEF Loop
    <3>2. chat' = [chat EXCEPT ![c] = [chat[c] EXCEPT !.pc = "failed"]]
      BY <1>0, <1>1, <2>1
    <3> QED
      BY <1>0, <3>1, <3>2 DEF AtRest
  <2>2. CASE k # 0
    BY <1>0, <1>1, <2>2
  <2> QED
    BY <2>1, <2>2
<1>3. Spares(c) /\ Of(c, msgs') = {}
  BY <1>1, <1>2, Sparing
<1> QED
  BY <1>2, <1>3 DEF PayInv, AtRest

(* What the worker n at hop k may pass on to dest. *)
Asking(c, k, n, dest, cmd, metadata, ss, used, lg, ea, ck, cl, sp) ==
    /\ cmd = "START" => /\ Unearned(used, ea, cl, sp)
                        /\ metadata.addresses = <<>> /\ dest = ss[<<c, k>>].dest
                        /\ k > 0 => n = ss[<<c, k - 1>>].dest
    /\ cmd # "START" => /\ lg # None /\ Named(ss, c, lg, 0)
                        /\ k + 1 <= Len(lg) /\ dest = HopNode(lg, k + 1)
    /\ cmd = "FORWARD" => /\ sp = used + 1 /\ cl = {} /\ metadata.checkpoint = used + 1
                          /\ Counted(lg, used, k, ea, ck)
    /\ cmd = "END" => /\ \A i \in k + 1 .. Len(lg) : Owed(lg, used, i, ea, ck)
                      /\ k > 0 => /\ k <= Len(lg) /\ n = HopNode(lg, k)
                                  /\ Owed(lg, used, k, ea, ck)

LEMMA PayRequested ==
    ASSUME TypeOK, NEW c \in Chats, NEW k \in Hops, NEW n, NEW left, Idle(c, left),
           NEW dest, NEW cmd \in Cmd, NEW from, NEW metadata,
           Request(left, n, <<c, k>>, dest, cmd, from, metadata),
           Behind(waits, c, k, cmd), k # 0 => chat[c].pc \notin AtRest,
           NEW ss, NEW lg, NEW ea, NEW ck, NEW cl, NEW sp,
           PayKept(c, ss, waits, chat[c].used, lg, ea, ck, cl, sp),
           Asking(c, k, n, dest, cmd, metadata, ss, chat[c].used, lg, ea, ck, cl, sp)
    PROVE  PayInv(c, chat'[c], ss, waits', msgs', lg, ea, ck, cl, sp) /\ Spares(c)
<1> DEFINE req == [type |-> "RpcReq", cmd |-> cmd, session |-> <<c, k + 1>>, to |-> dest,
                   from_layer |-> from, metadata |-> metadata]
           wait == [node |-> n, cmd |-> cmd, metadata |-> metadata]
<1>0. /\ chat \in [Chats -> Loop] /\ <<c, k>> \in Sessions
      /\ waits \in [Sessions -> Waiting \cup {None}] /\ k \in Nat
  BY IsSession, ZeroIsHop DEF TypeOK
<1>1. /\ msgs' = left \cup {req} /\ waits' = [waits EXCEPT ![<<c, k>>] = wait]
      /\ chat' = IF k = 0 THEN [chat EXCEPT ![c].pc = "waiting"] ELSE chat
  BY DEF Request
<1>2. /\ req.type = "RpcReq" /\ req.cmd = cmd /\ req.session[1] = c /\ req.to = dest
      /\ req.session[2] = k + 1 /\ req.metadata = metadata
  OBVIOUS
<1>3. wait.cmd = cmd /\ wait.node = n
  OBVIOUS
<1> HIDE DEF req, wait
<1>4. /\ \A d \in Chats \ {c} : chat'[d] = chat[d]
      /\ chat'[c].pc \notin AtRest /\ chat'[c].used = chat[c].used
  <2>1. CASE k = 0
    <3>1. /\ [chat[c] EXCEPT !.pc = "waiting"].used = chat[c].used
          /\ [chat[c] EXCEPT !.pc = "waiting"].pc = "waiting"
      BY <1>0 DEF Loop
    <3>2. chat' = [chat EXCEPT ![c] = [chat[c] EXCEPT !.pc = "waiting"]]
      BY <1>0, <1>1, <2>1
    <3> QED
      BY <1>0, <3>1, <3>2 DEF AtRest
  <2>2. CASE k # 0
    BY <1>0, <1>1, <2>2
  <2> QED
    BY <2>1, <2>2
<1>5. Spares(c) /\ Of(c, msgs') = {req}
  <2>1. \A m \in {req} : m.session[1] = c
    BY <1>2
  <2> QED
    BY <1>1, <1>4, <2>1, Sparing
<1>6. waits'[<<c, k>>] = wait /\ \A i \in Hops \ {k} : waits'[<<c, i>>] = waits[<<c, i>>]
  <2>1. \A i \in Hops \ {k} : <<c, i>> \in Sessions /\ <<c, i>> # <<c, k>>
    BY IsSession
  <2> QED
    BY <1>0, <1>1, <2>1
<1>7. PayMsg(c, req, ss, chat[c].used, lg, ea, ck, cl, sp)
  <2> DEFINE j == k + 1
             used == chat[c].used
  <2>1. j - 1 = k /\ req.session[2] = j
    BY <1>0, <1>2
  <2>2. /\ cmd # "START" => /\ lg # None /\ Named(ss, c, lg, 0)
                            /\ j <= Len(lg) /\ dest = HopNode(lg, j)
        /\ cmd = "START" => /\ Unearned(used, ea, cl, sp)
                            /\ metadata.addresses = <<>> /\ dest = ss[<<c, k>>].dest
        /\ cmd = "FORWARD" => /\ sp = used + 1 /\ cl = {} /\ metadata.checkpoint = used + 1
                              /\ Counted(lg, used, k, ea, ck)
    BY DEF Asking
  <2>3. cmd = "END" => \A i \in j .. Len(lg) : Owed(lg, used, i, ea, ck)
    BY DEF Asking
  <2> HIDE DEF j, used
  <2>4. cmd = "FORWARD" => Counted(lg, used, j - 1, ea, ck)
    BY <2>1, <2>2
  <2>5. cmd = "START" => req.to = ss[<<c, j - 1>>].dest
    BY <1>2, <2>1, <2>2
  <2>6. PayReq(c, req, j, ss, used, lg, ea, ck, cl, sp)
    BY <1>2, <2>2, <2>3, <2>4, <2>5 DEF PayReq
  <2> QED
    BY <1>2, <2>1, <2>6 DEF PayMsg, used
<1>8. PayWait(c, k, wait, ss, chat[c].used, lg, ea, ck, cl, sp)
  BY <1>3 DEF PayWait, Asking
<1>9. PayKept(c, ss, waits', chat[c].used, lg, ea, ck, cl, sp)
  <2>1. \A i \in Hops : waits'[<<c, i>>] # None => waits'[<<c, i>>].cmd = cmd
    BY <1>3, <1>6 DEF Behind
  <2>2. \A i \in Hops : waits'[<<c, i>>] # None =>
            PayWait(c, i, waits'[<<c, i>>], ss, chat[c].used, lg, ea, ck, cl, sp)
    BY <1>6, <1>8 DEF PayKept
  <2> QED
    BY <2>1, <2>2 DEF PayKept
<1> QED
  BY <1>4, <1>5, <1>7, <1>9 DEF PayInv, AtRest

LEMMA SamePays ==
    ASSUME NEW d, NEW ch, NEW ss1, NEW ss2, NEW ww1, NEW ww2, NEW ms1, NEW ms2,
           NEW lg, NEW ea, NEW ck, NEW cl, NEW sp,
           PayInv(d, ch, ss1, ww1, ms1, lg, ea, ck, cl, sp), Of(d, ms1) = Of(d, ms2),
           \A m \in Of(d, ms1) : m.session[2] - 1 \in Hops,
           \A i \in Hops : ss2[<<d, i>>] = ss1[<<d, i>>] /\ ww2[<<d, i>>] = ww1[<<d, i>>]
    PROVE  PayInv(d, ch, ss2, ww2, ms2, lg, ea, ck, cl, sp)
<1>1. \A a, k : Named(ss1, d, a, k) => Named(ss2, d, a, k)
  BY DEF Named
<1>2. ASSUME NEW i \in Hops, NEW w, PayWait(d, i, w, ss1, ch.used, lg, ea, ck, cl, sp)
      PROVE  PayWait(d, i, w, ss2, ch.used, lg, ea, ck, cl, sp)
  <2>1. i > 0 => i - 1 \in Hops
    BY ChainAssumption DEF Hops
  <2> QED
    BY <1>2, <2>1 DEF PayWait
<1>3. ASSUME NEW m \in Of(d, ms1), PayMsg(d, m, ss1, ch.used, lg, ea, ck, cl, sp)
      PROVE  PayMsg(d, m, ss2, ch.used, lg, ea, ck, cl, sp)
  <2>1. ss2[<<d, m.session[2] - 1>>] = ss1[<<d, m.session[2] - 1>>]
    OBVIOUS
  <2>2. \A k : PayRes(d, m, k, ss1, ch.used, lg, ea, ck, cl, sp)
                  => PayRes(d, m, k, ss2, ch.used, lg, ea, ck, cl, sp)
    BY <1>1 DEF PayRes
  <2>3. PayReq(d, m, m.session[2], ss1, ch.used, lg, ea, ck, cl, sp)
           => PayReq(d, m, m.session[2], ss2, ch.used, lg, ea, ck, cl, sp)
    BY <1>1, <2>1 DEF PayReq
  <2> QED
    BY <1>3, <2>2, <2>3 DEF PayMsg
<1>4. PayKept(d, ss2, ww2, ch.used, lg, ea, ck, cl, sp)
  <2>1. PayKept(d, ss1, ww1, ch.used, lg, ea, ck, cl, sp)
    BY DEF PayInv
  <2> QED
    BY <1>2, <2>1 DEF PayKept
<1>5. ch.pc = "ready" => PayReady(d, ss2, ch.used, lg, ea, ck, cl, sp)
  BY <1>1 DEF PayInv, PayReady
<1>6. \A m \in Of(d, ms2) : PayMsg(d, m, ss2, ch.used, lg, ea, ck, cl, sp)
  BY <1>3 DEF PayInv
<1> QED
  BY <1>4, <1>5, <1>6 DEF PayInv

(* A step that concerns c alone. *)
LEMMA OneChatPays ==
    ASSUME IInv, Pays, NEW c \in Chats, Spares(c),
           \A d \in Chats \ {c}, i \in Hops : /\ sessions'[<<d, i>>] = sessions[<<d, i>>]
                                             /\ waits'[<<d, i>>] = waits[<<d, i>>],
           \A d \in Chats \ {c} : /\ ledger'[d] = ledger[d] /\ spending'[d] = spending[d]
                                  /\ Column(earning', d) = Column(earning, d)
                                  /\ Column(checkpoints', d) = Column(checkpoints, d)
                                  /\ ClaimsOf(claims', d) = ClaimsOf(claims, d),
           PayInv(c, chat'[c], sessions', waits', msgs', ledger'[c], Column(earning', c),
                  Column(checkpoints', c), ClaimsOf(claims', c), spending'[c])
    PROVE  Pays'
<1>1. ASSUME NEW d \in Chats \ {c}
      PROVE  PayInv(d, chat'[d], sessions', waits', msgs', ledger'[d], Column(earning', d),
                    Column(checkpoints', d), ClaimsOf(claims', d), spending'[d])
  <2>1. PayInv(d, chat[d], sessions, waits, msgs, ledger[d], Column(earning, d),
               Column(checkpoints, d), ClaimsOf(claims, d), spending[d])
    BY DEF Pays
  <2>2. chat'[d] = chat[d] /\ Of(d, msgs) = Of(d, msgs')
    BY DEF Spares
  <2>3. \A m \in Of(d, msgs) : m.session[2] - 1 \in Hops
    <3> SUFFICES ASSUME NEW m \in Of(d, msgs) PROVE m.session[2] - 1 \in Hops
      OBVIOUS
    <3>1. m.session[2] \in Hops /\ m.session[2] > 0
      BY OneMessage DEF Of
    <3> QED
      BY <3>1, ChainAssumption DEF Hops
  <2>4. PayInv(d, chat[d], sessions', waits', msgs', ledger[d], Column(earning, d),
               Column(checkpoints, d), ClaimsOf(claims, d), spending[d])
    BY <2>1, <2>2, <2>3, SamePays
  <2> QED
    BY <2>2, <2>4
<1>2. \A d \in Chats :
         PayInv(d, chat'[d], sessions', waits', msgs', ledger'[d], Column(earning', d),
                Column(checkpoints', d), ClaimsOf(claims', d), spending'[d])
  BY <1>1
<1> QED
  BY <1>2 DEF Pays

(* While nothing is earned, the session on chain may be any.               *)
LEMMA UnearnedKept ==
    ASSUME NEW c, NEW ss, NEW ww, NEW used, NEW lg, NEW ea, NEW ck, NEW cl, NEW sp,
           Unearned(used, ea, cl, sp), Unawaited(ww, c)
    PROVE  PayKept(c, ss, ww, used, lg, ea, ck, cl, sp)
BY DEF Unearned, Unawaited, PayKept, Covered, Claimed

LEMMA PayPostStart ==
    ASSUME TypeOK, NEW c \in Chats, NEW k \in Hops, NEW n \in Node, NEW left, Idle(c, left),
           NEW success \in BOOLEAN, NEW metadata \in Metadata \cup {Empty},
           PostStart(left, n, <<c, k>>, success, metadata),
           NEW ss, NEW ww, NEW ea, NEW ck, NEW cl, NEW sp,
           Unearned(chat[c].used, ea, cl, sp),
           PayKept(c, ss, ww, chat[c].used, ledger[c], ea, ck, cl, sp),
           k = 0 => Unawaited(ww, c), k # 0 => chat[c].pc \notin AtRest,
           success => metadata \in Metadata /\ Named(ss, c, metadata.addresses, k),
           k # 0 => n = ss[<<c, k - 1>>].dest
    PROVE  /\ PayInv(c, chat'[c], ss, ww, msgs', ledger'[c], ea, ck, cl, sp) /\ Spares(c)
           /\ \A d \in Chats \ {c} : ledger'[d] = ledger[d]
<1>0. ledger \in [Chats -> Seq(Node) \cup {None}] /\ "START" \in Cmd
  BY DEF TypeOK, Cmd
<1>1. CASE metadata = Empty
  <2>1. Panic(left, <<c, k>>) /\ ledger' = ledger
    BY <1>1 DEF PostStart
  <2>2. PayInv(c, chat'[c], ss, ww, msgs', ledger[c], ea, ck, cl, sp) /\ Spares(c)
    BY <2>1, PayPanicked
  <2> QED
    BY <2>1, <2>2
<1>2. CASE metadata # Empty /\ k = 0
  <2>0. metadata.addresses \in Seq(Node)
    BY <1>2 DEF Metadata
  <2>1. CreateSession(left, n, <<c, k>>, success, metadata)
    BY <1>2 DEF PostStart
  <2>2. CASE /\ ledger' = [ledger EXCEPT ![c] = metadata.addresses]
             /\ Reply(left, n, <<c, k>>, "START", success, metadata)
    <3> DEFINE lg == metadata.addresses
    <3>1. ledger'[c] = lg /\ \A d \in Chats \ {c} : ledger'[d] = ledger[d]
      BY <1>0, <2>2
    <3> HIDE DEF lg
    <3>2. PayKept(c, ss, ww, chat[c].used, lg, ea, ck, cl, sp)
      BY <1>2, UnearnedKept
    <3>3. success => PayReady(c, ss, chat[c].used, lg, ea, ck, cl, sp)
      <4>1. success => Named(ss, c, lg, 0)
        BY <1>2 DEF lg
      <4>2. chat[c].used = 0 /\ sp = 0 /\ cl = {} /\ \A x \in Node : ea[x] = 0
        BY DEF Unearned
      <4>3. lg \in Seq(Node)
        BY <2>0 DEF lg
      <4>4. lg # None /\ \A x \in Node : Times(lg, x) \in Nat
        BY <4>3, PassedHops
      <4>5. Settled(lg, chat[c].used, ea, ck)
        BY <4>2, <4>4 DEF Settled
      <4> QED
        BY <4>1, <4>2, <4>5 DEF PayReady
    <3>4. Telling(c, k, "START", success, metadata, ss, chat[c].used, lg, ea, ck, cl, sp)
      BY <1>2, <3>3 DEF Telling
    <3>5. PayInv(c, chat'[c], ss, ww, msgs', lg, ea, ck, cl, sp) /\ Spares(c)
      BY <1>0, <1>2, <2>2, <3>2, <3>4, PayReplied
    <3> QED
      BY <3>1, <3>5
  <2>3. CASE /\ ledger' = ledger
             /\ Reply(left, n, <<c, k>>, "START", FALSE, metadata)
    <3>0. Telling(c, k, "START", FALSE, metadata, ss, chat[c].used, ledger[c], ea, ck, cl, sp)
      BY <1>2 DEF Telling
    <3>1. PayInv(c, chat'[c], ss, ww, msgs', ledger[c], ea, ck, cl, sp) /\ Spares(c)
      BY <1>0, <1>2, <2>3, <3>0, PayReplied
    <3> QED
      BY <2>3, <3>1
  <2> QED
    BY <2>1, <2>2, <2>3 DEF CreateSession
<1>3. CASE metadata # Empty /\ k # 0
  <2> DEFINE a == metadata.addresses
             md == [addresses |-> Append(a, n), checkpoint |-> None]
  <2>1. Reply(left, n, <<c, k>>, "START", success, md) /\ ledger' = ledger
    BY <1>3 DEF PostStart
  <2>2. a \in Seq(Node)
    BY <1>3 DEF Metadata
  <2>3. md \in Metadata /\ md.addresses = Append(a, n)
    BY <2>2 DEF Metadata
  <2>4. k \in Nat /\ k > 0
    BY <1>3, ZeroIsHop
  <2> HIDE DEF md, a
  <2>5. success => Named(ss, c, Append(a, n), k - 1)
    <3> SUFFICES ASSUME Named(ss, c, a, k), NEW i \in Hops, i >= k - 1, ss[<<c, i>>] # None
                 PROVE  /\ i <= k - 1 + Len(Append(a, n))
                        /\ ss[<<c, i>>].dest = IF i < k - 1 + Len(Append(a, n))
                                               THEN Append(a, n)[k - 1 + Len(Append(a, n)) - i]
                                               ELSE None
      BY DEF Named, a
    <3>1. /\ Len(a) \in Nat /\ Len(Append(a, n)) = Len(a) + 1 /\ Append(a, n)[Len(a) + 1] = n
          /\ \A j \in 1 .. Len(a) : Append(a, n)[j] = a[j]
      BY <2>2
    <3>2. k - 1 + Len(Append(a, n)) = k + Len(a) /\ i \in Nat
      BY <2>4, <3>1, ZeroIsHop
    <3>3. CASE i = k - 1
      BY <1>3, <2>4, <3>1, <3>2, <3>3
    <3>4. CASE i >= k
      <4>1. /\ i <= k + Len(a)
            /\ ss[<<c, i>>].dest = IF i < k + Len(a) THEN a[k + Len(a) - i] ELSE None
        BY <3>4 DEF Named
      <4>2. i < k + Len(a) => k + Len(a) - i \in 1 .. Len(a)
        BY <2>4, <3>1, <3>2, <3>4
      <4> QED
        BY <3>1, <3>2, <4>1, <4>2
    <3> QED
      BY <2>4, <3>2, <3>3, <3>4
  <2>6. success => md \in Metadata /\ Named(ss, c, md.addresses, k - 1)
    BY <2>3, <2>5
  <2>7. PayInv(c, chat'[c], ss, ww, msgs', ledger[c], ea, ck, cl, sp) /\ Spares(c)
    <3>1. Telling(c, k, "START", success, md, ss, chat[c].used, ledger[c], ea, ck, cl, sp)
      BY <1>3, <2>6 DEF Telling
    <3> QED
      BY <1>0, <1>3, <2>1, <3>1, PayReplied
  <2> QED
    BY <2>1, <2>7
<1> QED
  BY <1>1, <1>2, <1>3

(* A handler of cmd at hop k changes its own session: those who wait are   *)
(* before it.                                                              *)
LEMMA KeptElsewhere ==
    ASSUME NEW c, NEW k \in Hops, NEW cmd, NEW ss1, NEW ss2, NEW ww, Behind(ww, c, k, cmd),
           NEW used, NEW lg, NEW ea, NEW ck, NEW cl, NEW sp,
           PayKept(c, ss1, ww, used, lg, ea, ck, cl, sp),
           \A i \in Hops \ {k} : ss2[<<c, i>>] = ss1[<<c, i>>]
    PROVE  PayKept(c, ss2, ww, used, lg, ea, ck, cl, sp)
<1>1. ASSUME NEW i \in Hops, ww[<<c, i>>] # None
      PROVE  PayWait(c, i, ww[<<c, i>>], ss2, used, lg, ea, ck, cl, sp)
  <2>1. i < k /\ PayWait(c, i, ww[<<c, i>>], ss1, used, lg, ea, ck, cl, sp)
    BY <1>1 DEF Behind, PayKept
  <2>2. i > 0 => i - 1 \in Hops \ {k}
    BY <2>1, ChainAssumption DEF Hops
  <2> QED
    BY <2>1, <2>2 DEF PayWait
<1> QED
  BY <1>1 DEF PayKept

LEMMA StartPays ==
    ASSUME IInv, Pays, NEW c \in Chats, NEW k \in Hops, NEW n \in Node, NEW left, Idle(c, left),
           NEW l \in Nat \cup {None}, NEW metadata,
           At(c, k, "START"), Building(sessions, c, k),
           Start(left, n, <<c, k>>, l, metadata),
           Unearned(chat[c].used, Column(earning, c), ClaimsOf(claims, c), spending[c]),
           k # 0 => /\ metadata \in Metadata /\ metadata.addresses = <<>>
                    /\ n = sessions[<<c, k - 1>>].dest
    PROVE  Pays'
<1> DEFINE md == IF k = 0 THEN Fresh(None) ELSE metadata
           ea == Column(earning, c)
           ck == Column(checkpoints, c)
           cl == ClaimsOf(claims, c)
           sp == spending[c]
<1>1. md \in Metadata /\ md.addresses = <<>>
  BY FreshType DEF Fresh
<1>2. /\ TypeOK /\ <<c, k>> \in Sessions /\ "START" \in Cmd
      /\ sessions \in [Sessions -> SessionContainer \cup {None}]
  BY IsSession DEF IInv, TypeOK, Cmd
<1>3. UNCHANGED <<spending, earning, checkpoints, claims>>
  BY DEF Start
<1>4. \A d \in Chats, i \in Hops : <<d, i>> \in Sessions /\ (d # c \/ i # k => <<d, i>> # <<c, k>>)
  BY IsSession
<1>5. PayKept(c, sessions, waits, chat[c].used, ledger[c], ea, ck, cl, sp)
  BY DEF Pays, PayInv
<1>6. /\ Behind(waits, c, k, "START") /\ (k = 0 => Unawaited(waits, c))
      /\ (k # 0 => chat[c].pc \notin AtRest)
  BY DEF At
<1>7. Unearned(chat[c].used, ea, cl, sp)
  OBVIOUS
<1> HIDE DEF ea, ck, cl, sp
<1>8. ASSUME Spares(c), \A d \in Chats \ {c} : ledger'[d] = ledger[d],
             \A d \in Chats \ {c}, i \in Hops : /\ sessions'[<<d, i>>] = sessions[<<d, i>>]
                                               /\ waits'[<<d, i>>] = waits[<<d, i>>],
             PayInv(c, chat'[c], sessions', waits', msgs', ledger'[c], ea, ck, cl, sp)
      PROVE  Pays'
  BY <1>3, <1>8, OneChatPays DEF ea, ck, cl, sp
<1>9. CASE Reply(left, n, <<c, k>>, "START", FALSE, Empty) /\ UNCHANGED <<service, ledger, panics>>
  <2>1. sessions' = sessions /\ waits' = waits /\ ledger' = ledger
    BY <1>9 DEF service
  <2>2. PayInv(c, chat'[c], sessions, waits, msgs', ledger[c], ea, ck, cl, sp) /\ Spares(c)
    <3>1. Telling(c, k, "START", FALSE, Empty, sessions, chat[c].used, ledger[c], ea, ck, cl, sp)
      BY <1>7 DEF Telling
    <3> QED
      BY <1>2, <1>5, <1>6, <1>9, <3>1, PayReplied
  <2> QED
    BY <1>8, <2>1, <2>2
<1>10. ASSUME NEW r \in Routes(n, l, k) \ {None},
              /\ sessions' = [sessions EXCEPT ![<<c, k>>] =
                                 [node |-> n, local |-> r.local, dest |-> r.dest]]
              /\ IF r.dest = None
                 THEN PostStart(left, n, <<c, k>>, TRUE, md) /\ UNCHANGED waits
                 ELSE /\ Request(left, n, <<c, k>>, r.dest, "START", r.from, md)
                      /\ UNCHANGED <<ledger, panics>>
       PROVE  Pays'
  <2> DEFINE box == [node |-> n, local |-> r.local, dest |-> r.dest]
  <2>1. box.dest = r.dest
    OBVIOUS
  <2>2. sessions' = [sessions EXCEPT ![<<c, k>>] = box]
    BY <1>10
  <2> HIDE DEF md, box
  <2>3. /\ sessions'[<<c, k>>] = box
        /\ \A i \in Hops \ {k} : sessions'[<<c, i>>] = sessions[<<c, i>>]
        /\ \A d \in Chats \ {c}, i \in Hops : sessions'[<<d, i>>] = sessions[<<d, i>>]
    BY <1>2, <1>4, <2>2
  <2>4. PayKept(c, sessions', waits, chat[c].used, ledger[c], ea, ck, cl, sp)
    BY <1>5, <1>6, <2>3, KeptElsewhere
  <2>5. k # 0 => n = sessions'[<<c, k - 1>>].dest
    <3>1. k # 0 => k - 1 \in Hops \ {k}
      BY ChainAssumption DEF Hops
    <3> QED
      BY <2>3, <3>1
  <2>6. CASE r.dest = None
    <3>1. PostStart(left, n, <<c, k>>, TRUE, md) /\ waits' = waits
      BY <1>10, <2>6
    <3>2. Named(sessions', c, md.addresses, k)
      <4> SUFFICES ASSUME NEW i \in Hops, i >= k, sessions'[<<c, i>>] # None
                   PROVE  i <= k + 0 /\ sessions'[<<c, i>>].dest = None /\ ~(i < k + 0)
        BY <1>1 DEF Named
      <4>1. i \in Nat /\ k \in Nat
        BY ZeroIsHop
      <4>2. i = k
        BY <2>3, <4>1 DEF Building
      <4> QED
        BY <2>1, <2>3, <2>6, <4>1, <4>2
    <3>3. /\ PayInv(c, chat'[c], sessions', waits, msgs', ledger'[c], ea, ck, cl, sp) /\ Spares(c)
          /\ \A d \in Chats \ {c} : ledger'[d] = ledger[d]
      BY <1>1, <1>2, <1>6, <1>7, <2>4, <2>5, <3>1, <3>2, PayPostStart
    <3> QED
      BY <1>8, <2>3, <3>1, <3>3
  <2>7. CASE r.dest # None
    <3>1. Request(left, n, <<c, k>>, r.dest, "START", r.from, md) /\ ledger' = ledger
      BY <1>10, <2>7
    <3>2. r.dest = sessions'[<<c, k>>].dest
      BY <2>1, <2>3
    <3>3. PayInv(c, chat'[c], sessions', waits', msgs', ledger[c], ea, ck, cl, sp) /\ Spares(c)
      <4>1. k > 0 => n = sessions'[<<c, k - 1>>].dest
        BY <2>5, ZeroIsHop
      <4>2. Asking(c, k, n, r.dest, "START", md, sessions', chat[c].used, ledger[c],
                   ea, ck, cl, sp)
        BY <1>1, <1>7, <3>2, <4>1 DEF Asking
      <4> QED
        BY <1>2, <1>6, <2>4, <3>1, <4>2, PayRequested
    <3>4. \A d \in Chats \ {c}, i \in Hops : waits'[<<d, i>>] = waits[<<d, i>>]
      <4>1. waits \in [Sessions -> Waiting \cup {None}]
        BY <1>2 DEF TypeOK
      <4>2. waits' = [waits EXCEPT ![<<c, k>>] = [node |-> n, cmd |-> "START", metadata |-> md]]
        BY <3>1 DEF Request
      <4> QED
        BY <1>4, <4>1, <4>2
    <3> QED
      BY <1>8, <2>3, <3>1, <3>3, <3>4
  <2> QED
    BY <2>6, <2>7
<1> QED
  BY <1>9, <1>10 DEF Start

(* Whom hop k hands on to, going by the session on chain. *)
LEMMA Handing ==
    ASSUME NEW c, NEW k \in Hops, NEW ss, NEW lg \in Seq(Node), Named(ss, c, lg, 0),
           ss[<<c, k>>] # None
    PROVE  /\ k <= Len(lg) /\ Len(lg) \in Nat
           /\ ss[<<c, k>>].dest = None => k = Len(lg)
           /\ ss[<<c, k>>].dest # None => k + 1 <= Len(lg) /\ ss[<<c, k>>].dest = HopNode(lg, k + 1)
<1>1. k \in Nat /\ Len(lg) \in Nat
  BY ZeroIsHop
<1>2. /\ k <= 0 + Len(lg)
      /\ ss[<<c, k>>].dest = IF k < 0 + Len(lg) THEN lg[0 + Len(lg) - k] ELSE None
  BY <1>1 DEF Named
<1>3. CASE k < Len(lg)
  <2>1. Len(lg) - k \in 1 .. Len(lg) /\ 0 + Len(lg) - k = Len(lg) - k
        /\ Len(lg) - (k + 1) + 1 = Len(lg) - k
    BY <1>1, <1>3
  <2>2. lg[Len(lg) - k] # None
    BY <2>1, NoneAssumption
  <2>3. HopNode(lg, k + 1) = lg[Len(lg) - k]
    BY <2>1 DEF HopNode
  <2>4. ss[<<c, k>>].dest = lg[Len(lg) - k] /\ k + 1 <= Len(lg)
    BY <1>1, <1>2, <1>3, <2>1
  <2> QED
    BY <1>1, <1>2, <2>2, <2>3, <2>4
<1>4. CASE ~(k < Len(lg))
  BY <1>1, <1>2, <1>4
<1> QED
  BY <1>3, <1>4

(* A count of n for chat c is written. *)
Written(f, g, n, c, v) ==
    f \in [Node -> [Chats -> Nat \cup {None}]] /\ g = [f EXCEPT ![n][c] = v]

LEMMA ColumnOne ==
    ASSUME NEW n \in Node, NEW c \in Chats, NEW v, NEW f, NEW g, Written(f, g, n, c, v)
    PROVE  /\ Column(g, c) = [Column(f, c) EXCEPT ![n] = v]
           /\ \A d \in Chats \ {c} : Column(g, d) = Column(f, d)
<1>1. /\ f \in [Node -> [Chats -> Nat \cup {None}]]
      /\ g = [f EXCEPT ![n] = [f[n] EXCEPT ![c] = v]]
  BY DEF Written
<1>2. \A x \in Node : g[x][c] = IF x = n THEN v ELSE f[x][c]
  BY <1>1
<1>3. \A d \in Chats \ {c}, x \in Node : g[x][d] = f[x][d]
  BY <1>1
<1> QED
  BY <1>2, <1>3 DEF Column

LEMMA KeptForward ==
    ASSUME NEW c, NEW k, NEW ss, NEW ww, Behind(ww, c, k, "FORWARD"),
           NEW used, NEW lg, NEW ea, NEW ck, NEW cl, NEW sp,
           Covered(lg, ea, ck), Claimed(lg, used, cl)
    PROVE  PayKept(c, ss, ww, used, lg, ea, ck, cl, sp)
BY DEF PayKept, PayWait, Behind

(* The root counts a token. *)
LEMMA RootCounts ==
    ASSUME NEW lg \in Seq(Node), NEW used \in Nat, NEW ea, NEW ck \in [Node -> Nat \cup {None}],
           Settled(lg, used, ea, ck), Covered(lg, ea, ck), NEW n \in Node,
           NEW ck2, ck2 = [ck EXCEPT ![n] = used + 1]
    PROVE  Counted(lg, used, 0, ea, ck2) /\ Covered(lg, ea, ck2)
<1>1. Counted(lg, used, 0, ea, ck2)
  BY RoundBegins
<1>2. ASSUME NEW x \in Node, ea[x] > 0
      PROVE  ck2[x] # None /\ ea[x] <= Times(lg, x) * ck2[x]
  <2>1. Times(lg, x) \in Nat /\ ea[x] = Times(lg, x) * used
    BY PassedHops DEF Settled
  <2>2. CASE x = n
    <3>1. ck2[x] = used + 1 /\ used + 1 # None
      BY <2>2, NoneAssumption
    <3>2. Times(lg, x) * (used + 1) = Times(lg, x) * used + Times(lg, x)
      BY <2>1
    <3>3. Times(lg, x) * used \in Nat
      BY <2>1
    <3> QED
      BY <2>1, <3>1, <3>2, <3>3
  <2>3. CASE x # n
    BY <1>2, <2>3 DEF Covered
  <2> QED
    BY <2>2, <2>3
<1> QED
  BY <1>1, <1>2 DEF Covered

(* What hop k knows when FORWARD comes by. *)
Told(c, k, n, metadata, ss, used, lg, ea, ck, cl, sp) ==
    /\ lg # None /\ Named(ss, c, lg, 0) /\ k <= Len(lg) /\ n = HopNode(lg, k)
    /\ sp = used + 1 /\ cl = {} /\ metadata.checkpoint = used + 1
    /\ Counted(lg, used, k - 1, ea, ck)

Due(c, k, n, metadata, ss, used, lg, ea, ck, cl, sp) ==
    /\ k = 0 => PayReady(c, ss, used, lg, ea, ck, cl, sp)
    /\ k # 0 => Told(c, k, n, metadata, ss, used, lg, ea, ck, cl, sp)

LEMMA PreForwardPays ==
    ASSUME TypeOK, NEW c \in Chats, NEW k \in Hops, NEW n \in Node, NEW metadata,
           PreForward(n, <<c, k>>, metadata), ledger[c] \in Seq(Node),
           Covered(ledger[c], Column(earning, c), Column(checkpoints, c)),
           Due(c, k, n, metadata, sessions, chat[c].used, ledger[c], Column(earning, c),
               Column(checkpoints, c), ClaimsOf(claims, c), spending[c])
    PROVE  /\ Counted(ledger[c], chat[c].used, k, Column(earning', c), Column(checkpoints', c))
           /\ Covered(ledger[c], Column(earning', c), Column(checkpoints', c))
           /\ spending'[c] = chat[c].used + 1 /\ ClaimsOf(claims, c) = {}
           /\ Named(sessions, c, ledger[c], 0)
           /\ \A d \in Chats \ {c} : /\ spending'[d] = spending[d]
                                     /\ Column(earning', d) = Column(earning, d)
                                     /\ Column(checkpoints', d) = Column(checkpoints, d)
<1> DEFINE ea == Column(earning, c)
           ck == Column(checkpoints, c)
           cl == ClaimsOf(claims, c)
           lg == ledger[c]
           used == chat[c].used
           ss == sessions
<1>0. used \in Nat /\ lg \in Seq(Node) /\ Covered(lg, ea, ck)
      /\ Due(c, k, n, metadata, ss, used, lg, ea, ck, cl, spending[c])
  BY DEF TypeOK, Loop
<1> HIDE DEF used, lg, cl
<1>1. /\ spending \in [Chats -> Nat] /\ earning \in [Node -> [Chats -> Nat]]
      /\ checkpoints \in [Node -> [Chats -> Nat \cup {None}]]
      /\ earning \in [Node -> [Chats -> Nat \cup {None}]]
  BY DEF TypeOK
<1>2. ea \in [Node -> Nat] /\ ck \in [Node -> Nat \cup {None}]
  BY <1>1 DEF Column
<1>3. CASE k = 0
  <2>1. /\ spending' = [spending EXCEPT ![c] = @ + 1]
        /\ checkpoints' = [checkpoints EXCEPT ![n][c] = spending[c] + 1]
        /\ earning' = earning
    BY <1>3 DEF PreForward, Increase, StoreCheckpoint
  <2>2. /\ Named(ss, c, lg, 0) /\ spending[c] = used /\ cl = {} /\ Settled(lg, used, ea, ck)
    BY <1>0, <1>3 DEF PayReady, Due
  <2>3. spending'[c] = used + 1 /\ \A d \in Chats \ {c} : spending'[d] = spending[d]
    BY <1>1, <2>1, <2>2
  <2>4. /\ Column(checkpoints', c) = [ck EXCEPT ![n] = used + 1]
        /\ \A d \in Chats \ {c} : Column(checkpoints', d) = Column(checkpoints, d)
    <3> DEFINE g == checkpoints'
               v == used + 1
    <3>1. Written(checkpoints, g, n, c, v)
      BY <1>1, <2>1, <2>2 DEF Written
    <3> HIDE DEF g, v
    <3>2. /\ Column(g, c) = [Column(checkpoints, c) EXCEPT ![n] = v]
          /\ \A d \in Chats \ {c} : Column(g, d) = Column(checkpoints, d)
      BY <3>1, ColumnOne
    <3> QED
      BY <3>2 DEF g, v
  <2>5. /\ Counted(lg, used, 0, ea, Column(checkpoints', c))
        /\ Covered(lg, ea, Column(checkpoints', c))
    BY <1>0, <1>2, <2>2, <2>4, RootCounts
  <2> QED
    BY <1>3, <2>1, <2>2, <2>3, <2>4, <2>5 DEF used, lg, cl
<1>4. CASE k # 0
  <2>1. /\ checkpoints' = [checkpoints EXCEPT ![n][c] = metadata.checkpoint]
        /\ earning' = [earning EXCEPT ![n][c] = @ + 1]
        /\ spending' = spending
    BY <1>4 DEF PreForward, StoreCheckpoint
  <2>2. Told(c, k, n, metadata, ss, used, lg, ea, ck, cl, spending[c])
    BY <1>0, <1>4 DEF Due
  <2>3. /\ k <= Len(lg) /\ n = HopNode(lg, k) /\ Counted(lg, used, k - 1, ea, ck)
        /\ metadata.checkpoint = used + 1
        /\ spending[c] = used + 1 /\ cl = {} /\ Named(ss, c, lg, 0)
    BY <2>2 DEF Told
  <2>4. /\ Column(checkpoints', c) = [ck EXCEPT ![n] = used + 1]
        /\ \A d \in Chats \ {c} : Column(checkpoints', d) = Column(checkpoints, d)
    <3> DEFINE g == checkpoints'
               v == used + 1
    <3>1. Written(checkpoints, g, n, c, v)
      BY <1>1, <2>1, <2>3 DEF Written
    <3> HIDE DEF g, v
    <3>2. /\ Column(g, c) = [Column(checkpoints, c) EXCEPT ![n] = v]
          /\ \A d \in Chats \ {c} : Column(g, d) = Column(checkpoints, d)
      BY <3>1, ColumnOne
    <3> QED
      BY <3>2 DEF g, v
  <2>5. /\ Column(earning', c) = [ea EXCEPT ![n] = ea[n] + 1]
        /\ \A d \in Chats \ {c} : Column(earning', d) = Column(earning, d)
    <3> DEFINE g == earning'
               v == ea[n] + 1
    <3>1. Written(earning, g, n, c, v)
      BY <1>1, <2>1 DEF Column, Written
    <3> HIDE DEF g, v
    <3>2. /\ Column(g, c) = [Column(earning, c) EXCEPT ![n] = v]
          /\ \A d \in Chats \ {c} : Column(g, d) = Column(earning, d)
      BY <3>1, ColumnOne
    <3> QED
      BY <3>2 DEF g, v
  <2>6. k \in 1 .. Len(lg)
    BY <1>4, <2>3, ZeroIsHop
  <2>7. /\ Counted(lg, used, k, Column(earning', c), Column(checkpoints', c))
        /\ Covered(lg, Column(earning', c), Column(checkpoints', c))
    <3> DEFINE ea2 == Column(earning', c)
               ck2 == Column(checkpoints', c)
    <3>1. ea2 = [ea EXCEPT ![n] = ea[n] + 1] /\ ck2 = [ck EXCEPT ![n] = used + 1]
      BY <2>4, <2>5
    <3> HIDE DEF ea2, ck2
    <3>2. Counted(lg, used, k, ea2, ck2) /\ Covered(lg, ea2, ck2)
      BY <1>0, <1>2, <2>3, <2>6, <3>1, HopCounts
    <3> QED
      BY <3>2 DEF ea2, ck2
  <2> QED
    BY <2>1, <2>3, <2>4, <2>5, <2>7 DEF used, lg, cl
<1> QED
  BY <1>3, <1>4

LEMMA WaitsElse ==
    ASSUME TypeOK, NEW c \in Chats, NEW k \in Hops, NEW w,
           waits' = [waits EXCEPT ![<<c, k>>] = w]
    PROVE  \A d \in Chats \ {c}, i \in Hops : waits'[<<d, i>>] = waits[<<d, i>>]
<1>1. \A d \in Chats \ {c}, i \in Hops : <<d, i>> \in Sessions /\ <<d, i>> # <<c, k>>
  BY IsSession
<1> QED
  BY <1>1 DEF TypeOK

LEMMA ForwardPays ==
    ASSUME IInv, Pays, NEW c \in Chats, NEW k \in Hops, NEW n \in Node, NEW left, Idle(c, left),
           NEW metadata, At(c, k, "FORWARD"), Forward(left, n, <<c, k>>, metadata),
           k = 0 => PayReady(c, sessions, chat[c].used, ledger[c], Column(earning, c),
                             Column(checkpoints, c), ClaimsOf(claims, c), spending[c]),
           k # 0 => Told(c, k, n, metadata, sessions, chat[c].used, ledger[c], Column(earning, c),
                         Column(checkpoints, c), ClaimsOf(claims, c), spending[c])
    PROVE  Pays'
<1> DEFINE md == IF k = 0 THEN Fresh(spending[c] + 1) ELSE metadata
           ea == Column(earning, c)
           ck == Column(checkpoints, c)
           cl == ClaimsOf(claims, c)
           lg == ledger[c]
           used == chat[c].used
           ea2 == Column(earning', c)
           ck2 == Column(checkpoints', c)
           sp2 == spending'[c]
<1>1. /\ TypeOK /\ "FORWARD" \in Cmd /\ used \in Nat
      /\ ledger \in [Chats -> Seq(Node) \cup {None}]
  BY DEF IInv, TypeOK, Loop, Cmd
<1>2. sessions' = sessions /\ ledger' = ledger /\ claims' = claims
  BY DEF Forward, onchain
<1>3. lg \in Seq(Node)
  BY <1>1 DEF PayReady, Settled, Told
<1>4. PayKept(c, sessions, waits, used, lg, ea, ck, cl, spending[c])
  BY DEF Pays, PayInv
<1>5. /\ Behind(waits, c, k, "FORWARD") /\ (k = 0 => Unawaited(waits, c))
      /\ (k # 0 => chat[c].pc \notin AtRest)
  BY DEF At
<1> HIDE DEF used, lg
<1>6. CASE Refused(n, <<c, k>>, metadata)
  <2>1. /\ Reply(left, n, <<c, k>>, "FORWARD", FALSE, Empty)
        /\ UNCHANGED <<waits, spending, earning, checkpoints>>
    BY <1>6 DEF Forward, usage
  <2>2. Telling(c, k, "FORWARD", FALSE, Empty, sessions, used, lg, ea, ck, cl, spending[c])
    BY DEF Telling
  <2>3. PayInv(c, chat'[c], sessions, waits, msgs', lg, ea, ck, cl, spending[c]) /\ Spares(c)
    BY <1>1, <1>4, <1>5, <2>1, <2>2, PayReplied DEF used
  <2> QED
    BY <1>2, <2>1, <2>3, OneChatPays DEF lg
<1>7. CASE ~Refused(n, <<c, k>>, metadata)
  <2>1. /\ PreForward(n, <<c, k>>, metadata)
        /\ IF sessions[<<c, k>>].dest = None
           THEN Reply(left, n, <<c, k>>, "FORWARD", TRUE, md) /\ UNCHANGED waits
           ELSE Request(left, n, <<c, k>>, sessions[<<c, k>>].dest, "FORWARD", None, md)
    BY <1>7 DEF Forward
  <2>2. sessions[<<c, k>>] # None
    BY <1>7 DEF Refused
  <2>3. Covered(lg, ea, ck) /\ Claimed(lg, used, cl)
    BY <1>4 DEF PayKept
  <2>4. /\ k = 0 => PayReady(c, sessions, used, lg, ea, ck, cl, spending[c])
        /\ k # 0 => Told(c, k, n, metadata, sessions, used, lg, ea, ck, cl, spending[c])
    BY DEF used, lg
  <2>5. md.checkpoint = used + 1
    BY <2>4 DEF Fresh, PayReady, Told
  <2> HIDE DEF md, ea, ck, cl
  <2>6. /\ Counted(lg, used, k, ea2, ck2) /\ Covered(lg, ea2, ck2)
        /\ sp2 = used + 1 /\ cl = {} /\ Named(sessions, c, lg, 0)
        /\ \A d \in Chats \ {c} : /\ spending'[d] = spending[d]
                                  /\ Column(earning', d) = Column(earning, d)
                                  /\ Column(checkpoints', d) = Column(checkpoints, d)
    <3>1. Due(c, k, n, metadata, sessions, used, lg, ea, ck, cl, spending[c])
      BY <2>4 DEF Due
    <3>2. PreForward(n, <<c, k>>, metadata)
      BY <2>1
    <3> QED
      BY <1>1, <1>3, <2>3, <3>1, <3>2, PreForwardPays DEF used, lg, ea, ck, cl
  <2> HIDE DEF ea2, ck2, sp2
  <2>7. PayKept(c, sessions, waits, used, lg, ea2, ck2, cl, sp2)
    BY <1>5, <2>3, <2>6, KeptForward
  <2>8. /\ k <= Len(lg) /\ Len(lg) \in Nat
        /\ sessions[<<c, k>>].dest = None => k = Len(lg)
        /\ sessions[<<c, k>>].dest # None =>
              k + 1 <= Len(lg) /\ sessions[<<c, k>>].dest = HopNode(lg, k + 1)
    BY <1>3, <2>2, <2>6, Handing
  <2>9. CASE sessions[<<c, k>>].dest = None
    <3>1. Reply(left, n, <<c, k>>, "FORWARD", TRUE, md) /\ waits' = waits
      BY <2>1, <2>9
    <3>2. Counted(lg, used, Len(lg), ea2, ck2)
      BY <2>6, <2>8, <2>9
    <3>3. PayReady(c, sessions, used + 1, lg, ea2, ck2, cl, sp2)
      <4>1. Settled(lg, used + 1, ea2, ck2)
        BY <1>1, <1>3, <3>2, RoundOver
      <4> QED
        BY <2>6, <4>1 DEF PayReady
    <3>4. Telling(c, k, "FORWARD", TRUE, md, sessions, used, lg, ea2, ck2, cl, sp2)
      BY <2>6, <3>2, <3>3 DEF Telling
    <3>5. PayInv(c, chat'[c], sessions, waits, msgs', lg, ea2, ck2, cl, sp2) /\ Spares(c)
      BY <1>1, <1>5, <2>7, <3>1, <3>4, PayReplied DEF used
    <3>6. /\ PayInv(c, chat'[c], sessions', waits', msgs', ledger'[c], Column(earning', c),
                    Column(checkpoints', c), ClaimsOf(claims', c), spending'[c])
          /\ Spares(c)
      BY <1>2, <3>1, <3>5 DEF lg, ea2, ck2, cl, sp2
    <3> QED
      BY <1>2, <2>6, <3>1, <3>6, OneChatPays
  <2>10. CASE sessions[<<c, k>>].dest # None
    <3> DEFINE dest == sessions[<<c, k>>].dest
    <3>1. Request(left, n, <<c, k>>, dest, "FORWARD", None, md)
      BY <2>1, <2>10
    <3>2. k + 1 <= Len(lg) /\ dest = HopNode(lg, k + 1)
      BY <2>8, <2>10
    <3> HIDE DEF dest
    <3>3. lg # None
      BY <1>3, PassedHops
    <3>4. Asking(c, k, n, dest, "FORWARD", md, sessions, used, lg, ea2, ck2, cl, sp2)
      BY <2>5, <2>6, <3>2, <3>3 DEF Asking
    <3>5. PayInv(c, chat'[c], sessions, waits', msgs', lg, ea2, ck2, cl, sp2) /\ Spares(c)
      BY <1>1, <1>5, <2>7, <3>1, <3>4, PayRequested DEF used
    <3>6. \A d \in Chats \ {c}, i \in Hops : waits'[<<d, i>>] = waits[<<d, i>>]
      BY <1>1, <3>1, WaitsElse DEF Request
    <3>7. /\ PayInv(c, chat'[c], sessions', waits', msgs', ledger'[c], Column(earning', c),
                    Column(checkpoints', c), ClaimsOf(claims', c), spending'[c])
          /\ Spares(c)
      BY <1>2, <3>5 DEF lg, ea2, ck2, cl, sp2
    <3> QED
      BY <1>2, <2>6, <3>6, <3>7, OneChatPays
  <2> QED
    BY <2>9, <2>10
<1> QED
  BY <1>6, <1>7

(* What hop k knows when END comes by. *)
Owing(k, n, used, lg, ea, ck) ==
    k # 0 => /\ lg \in Seq(Node) /\ k \in 1 .. Len(lg)
             /\ n = HopNode(lg, k) /\ Owed(lg, used, k, ea, ck)

(* n is no longer owed what it counted: it has claimed it. *)
Billed(n, ck, ea, cl, ea2, cl2) ==
    /\ ea \in [Node -> Nat] /\ ea2 = [ea EXCEPT ![n] = 0]
    /\ \A k \in cl2 : k \in cl \/ (k.node = n /\ k.token_count = ea[n] /\ k.signed = ck[n])

(* Hop k claims what it is owed, and the others are owed what they were.   *)
LEMMA HopClaims ==
    ASSUME NEW lg \in Seq(Node), NEW used, NEW ea, NEW ck, NEW cl, NEW k \in 1 .. Len(lg),
           Owed(lg, used, k, ea, ck), Covered(lg, ea, ck), Claimed(lg, used, cl),
           NEW ea2, NEW cl2, Billed(HopNode(lg, k), ck, ea, cl, ea2, cl2)
    PROVE  /\ Covered(lg, ea2, ck) /\ Claimed(lg, used, cl2)
           /\ \A i \in 1 .. Len(lg) : i # k /\ Owed(lg, used, i, ea, ck) => Owed(lg, used, i, ea2, ck)
<1> DEFINE n == HopNode(lg, k)
<1>0. n \in Node /\ ea \in [Node -> Nat] /\ ea2 = [ea EXCEPT ![n] = 0]
  BY HopNodeIsNode DEF Billed
<1>1. Covered(lg, ea2, ck)
  BY <1>0 DEF Covered
<1>2. Times(lg, n) = 1 => ea[n] = used /\ ck[n] = used
  BY DEF Owed
<1>3. Claimed(lg, used, cl2)
  BY <1>2 DEF Claimed, Billed
<1>4. ASSUME NEW i \in 1 .. Len(lg), i # k, Owed(lg, used, i, ea, ck) PROVE Owed(lg, used, i, ea2, ck)
  <2> DEFINE x == HopNode(lg, i)
  <2> SUFFICES ASSUME Times(lg, x) = 1 PROVE ea2[x] = used /\ ck[x] = used
    BY DEF Owed
  <2>1. x \in Node /\ ea[x] = used /\ ck[x] = used
    BY <1>4, HopNodeIsNode DEF Owed
  <2>2. x # n
    BY <1>4, OneHop
  <2> HIDE DEF x
  <2> QED
    BY <1>0, <2>1, <2>2
<1> QED
  BY <1>1, <1>3, <1>4

(* Behind END, a hop that waits is owed what it will claim, wherever the   *)
(* sessions are.                                                           *)
LEMMA KeptEnd ==
    ASSUME NEW c, NEW k, NEW ss1, NEW ss2, NEW ww, NEW used, NEW lg, NEW ea1, NEW ea2, NEW ck,
           NEW cl1, NEW cl2, NEW sp1, NEW sp2, PayKept(c, ss1, ww, used, lg, ea1, ck, cl1, sp1),
           \A i \in Hops : ww[<<c, i>>] # None => i # k /\ ww[<<c, i>>].cmd = "END",
           Covered(lg, ea2, ck), Claimed(lg, used, cl2),
           lg # None => \A i \in 1 .. Len(lg) :
                           i # k /\ Owed(lg, used, i, ea1, ck) => Owed(lg, used, i, ea2, ck)
    PROVE  PayKept(c, ss2, ww, used, lg, ea2, ck, cl2, sp2)
<1>1. ASSUME NEW i \in Hops, ww[<<c, i>>] # None
      PROVE  PayWait(c, i, ww[<<c, i>>], ss2, used, lg, ea2, ck, cl2, sp2)
  <2>1. i # k /\ ww[<<c, i>>].cmd = "END"
        /\ PayWait(c, i, ww[<<c, i>>], ss1, used, lg, ea1, ck, cl1, sp1)
    BY <1>1 DEF PayKept
  <2>2. i > 0 => /\ lg # None /\ i <= Len(lg) /\ ww[<<c, i>>].node = HopNode(lg, i)
                 /\ Owed(lg, used, i, ea1, ck)
    BY <2>1 DEF PayWait
  <2>3. i > 0 /\ i <= Len(lg) /\ lg # None /\ Owed(lg, used, i, ea1, ck) => Owed(lg, used, i, ea2, ck)
    <3>1. i \in Nat
      BY ZeroIsHop
    <3> SUFFICES ASSUME i > 0, i <= Len(lg), lg # None, Owed(lg, used, i, ea1, ck)
                 PROVE  Owed(lg, used, i, ea2, ck)
      OBVIOUS
    <3>2. i \in 1 .. Len(lg)
      BY <3>1
    <3> QED
      BY <2>1, <3>2
  <2> QED
    BY <2>1, <2>2, <2>3 DEF PayWait
<1> QED
  BY <1>1 DEF PayKept

(* post_end at a hop: its own count and claim change. *)
LEMMA PostEndKeeps ==
    ASSUME TypeOK, NEW c \in Chats, NEW k \in Hops, NEW n \in Node, NEW left, NEW success,
           NEW metadata, PostEnd(left, n, <<c, k>>, success, metadata), NEW ss, NEW ww, NEW sp,
           \A i \in Hops : ww[<<c, i>>] # None => i # k /\ ww[<<c, i>>].cmd = "END",
           PayKept(c, ss, ww, chat[c].used, ledger[c], Column(earning, c),
                   Column(checkpoints, c), ClaimsOf(claims, c), sp),
           Owing(k, n, chat[c].used, ledger[c], Column(earning, c), Column(checkpoints, c))
    PROVE  /\ PayKept(c, ss, ww, chat[c].used, ledger[c], Column(earning', c),
                      Column(checkpoints, c), ClaimsOf(claims', c), sp)
           /\ ledger[c] # None => \A i \in 1 .. Len(ledger[c]) :
                 i # k /\ Owed(ledger[c], chat[c].used, i, Column(earning, c), Column(checkpoints, c))
                    => Owed(ledger[c], chat[c].used, i, Column(earning', c), Column(checkpoints, c))
           /\ \A d \in Chats \ {c} : /\ Column(earning', d) = Column(earning, d)
                                     /\ ClaimsOf(claims', d) = ClaimsOf(claims, d)
<1> DEFINE ea == Column(earning, c)
           ck == Column(checkpoints, c)
           cl == ClaimsOf(claims, c)
           lg == ledger[c]
           used == chat[c].used
           ea2 == Column(earning', c)
           cl2 == ClaimsOf(claims', c)
<1>1. CASE k = 0 \/ metadata = Empty
  <2>1. earning' = earning /\ claims' = claims
    BY <1>1 DEF PostEnd
  <2> QED
    BY <2>1
<1>2. CASE k # 0 /\ metadata # Empty
  <2> DEFINE signed == checkpoints[n][c]
             claim == [node |-> n, chat |-> c, token_count |-> earning[n][c], signed |-> signed]
  <2>1. /\ earning \in [Node -> [Chats -> Nat]]
        /\ checkpoints \in [Node -> [Chats -> Nat \cup {None}]]
        /\ earning \in [Node -> [Chats -> Nat \cup {None}]]
    BY DEF TypeOK
  <2>2. /\ earning' = [earning EXCEPT ![n][c] = 0]
        /\ claims' = IF signed = None THEN claims ELSE claims \cup {claim}
    BY <1>2 DEF PostEnd
  <2>3. /\ ea2 = [ea EXCEPT ![n] = 0]
        /\ \A d \in Chats \ {c} : Column(earning', d) = Column(earning, d)
    <3> DEFINE g == earning'
    <3>1. Written(earning, g, n, c, 0)
      BY <2>1, <2>2 DEF Written
    <3> HIDE DEF g
    <3>2. /\ Column(g, c) = [Column(earning, c) EXCEPT ![n] = 0]
          /\ \A d \in Chats \ {c} : Column(g, d) = Column(earning, d)
      BY <3>1, ColumnOne
    <3> QED
      BY <3>2 DEF g
  <2>4. claim.node = n /\ claim.chat = c /\ claim.token_count = ea[n] /\ claim.signed = ck[n]
    BY DEF Column
  <2>5. ea \in [Node -> Nat] /\ ck \in [Node -> Nat \cup {None}]
    BY <2>1 DEF Column
  <2> HIDE DEF claim, signed
  <2>6. cl2 \subseteq cl \cup {claim}
    BY <2>2 DEF ClaimsOf
  <2>7. \A d \in Chats \ {c} : ClaimsOf(claims', d) = ClaimsOf(claims, d)
    BY <2>2, <2>4 DEF ClaimsOf
  <2>8. /\ lg \in Seq(Node) /\ k \in 1 .. Len(lg)
        /\ n = HopNode(lg, k) /\ Owed(lg, used, k, ea, ck)
    BY <1>2 DEF Owing
  <2>9. PayKept(c, ss, ww, used, lg, ea, ck, cl, sp) /\ Covered(lg, ea, ck) /\ Claimed(lg, used, cl)
    BY DEF PayKept
  <2> HIDE DEF ea, ck, cl, lg, used, ea2, cl2
  <2>10. Billed(HopNode(lg, k), ck, ea, cl, ea2, cl2)
    BY <2>3, <2>4, <2>5, <2>6, <2>8 DEF Billed
  <2>11. /\ Covered(lg, ea2, ck) /\ Claimed(lg, used, cl2)
         /\ \A i \in 1 .. Len(lg) : i # k /\ Owed(lg, used, i, ea, ck) => Owed(lg, used, i, ea2, ck)
    BY <2>8, <2>9, <2>10, HopClaims
  <2>12. PayKept(c, ss, ww, used, lg, ea2, ck, cl2, sp)
    BY <2>9, <2>11, KeptEnd
  <2> QED
    BY <2>3, <2>7, <2>11, <2>12 DEF ea, ck, cl, lg, used, ea2, cl2
<1> QED
  BY <1>1, <1>2

LEMMA PayPostEnd ==
    ASSUME TypeOK, NEW c \in Chats, NEW k \in Hops, NEW n \in Node, NEW left, Idle(c, left),
           NEW success, NEW metadata, PostEnd(left, n, <<c, k>>, success, metadata),
           NEW ss, NEW ww, NEW sp, Behind(ww, c, k, "END"),
           k = 0 => Unawaited(ww, c), k # 0 => chat[c].pc \notin AtRest,
           PayKept(c, ss, ww, chat[c].used, ledger[c], Column(earning, c),
                   Column(checkpoints, c), ClaimsOf(claims, c), sp),
           Owing(k, n, chat[c].used, ledger[c], Column(earning, c), Column(checkpoints, c))
    PROVE  /\ PayInv(c, chat'[c], ss, ww, msgs', ledger[c], Column(earning', c),
                     Column(checkpoints, c), ClaimsOf(claims', c), sp)
           /\ Spares(c)
           /\ \A d \in Chats \ {c} : /\ Column(earning', d) = Column(earning, d)
                                     /\ ClaimsOf(claims', d) = ClaimsOf(claims, d)
<1> DEFINE ck == Column(checkpoints, c)
           lg == ledger[c]
           ea2 == Column(earning', c)
           cl2 == ClaimsOf(claims', c)
<1>0. \A i \in Hops : ww[<<c, i>>] # None => i # k /\ ww[<<c, i>>].cmd = "END"
  BY ZeroIsHop DEF Behind
<1>1. /\ PayKept(c, ss, ww, chat[c].used, lg, ea2, ck, cl2, sp)
      /\ \A d \in Chats \ {c} : /\ Column(earning', d) = Column(earning, d)
                                /\ ClaimsOf(claims', d) = ClaimsOf(claims, d)
  BY <1>0, PostEndKeeps
<1>2. Panic(left, <<c, k>>) \/ \E good, md : Reply(left, n, <<c, k>>, "END", good, md)
  BY DEF PostEnd
<1> HIDE DEF ck, lg, ea2, cl2
<1>3. "END" \in Cmd
  BY DEF Cmd
<1>4. CASE Panic(left, <<c, k>>)
  <2>1. PayInv(c, chat'[c], ss, ww, msgs', lg, ea2, ck, cl2, sp) /\ Spares(c)
    BY <1>1, <1>4, PayPanicked
  <2> QED
    BY <1>1, <2>1 DEF ck, lg, ea2, cl2
<1>5. ASSUME NEW good, NEW md, Reply(left, n, <<c, k>>, "END", good, md)
      PROVE  PayInv(c, chat'[c], ss, ww, msgs', lg, ea2, ck, cl2, sp) /\ Spares(c)
  <2>1. Telling(c, k, "END", good, md, ss, chat[c].used, lg, ea2, ck, cl2, sp)
    BY DEF Telling
  <2> QED
    BY <1>1, <1>3, <1>5, <2>1, PayReplied
<1>6. CASE \E good, md : Reply(left, n, <<c, k>>, "END", good, md)
  <2>1. PayInv(c, chat'[c], ss, ww, msgs', lg, ea2, ck, cl2, sp) /\ Spares(c)
    BY <1>5, <1>6
  <2> QED
    BY <1>1, <2>1 DEF ck, lg, ea2, cl2
<1> QED
  BY <1>2, <1>4, <1>6

(* When every token has come through, everybody is owed his. *)
LEMMA SettledOwes ==
    ASSUME NEW lg \in Seq(Node), NEW used \in Nat, used > 0, NEW ea, NEW ck,
           Settled(lg, used, ea, ck), NEW i \in 1 .. Len(lg)
    PROVE  Owed(lg, used, i, ea, ck)
<1> DEFINE n == HopNode(lg, i)
<1>1. n \in Node
  BY HopNodeIsNode
<1> HIDE DEF n
<1>2. Times(lg, n) = 1 => ea[n] = 1 * used /\ ck[n] = used
  BY <1>1 DEF Settled
<1>3. 1 * used = used
  OBVIOUS
<1> QED
  BY <1>2, <1>3 DEF Owed, n

(* What is known of the hops from k on when END comes to k. *)
Ending(c, k, n, ss, used, lg, ea, ck) ==
    /\ lg \in Seq(Node) /\ Named(ss, c, lg, 0)
    /\ k # 0 => k <= Len(lg) /\ n = HopNode(lg, k)
    /\ \A i \in 1 .. Len(lg) : i >= k => Owed(lg, used, i, ea, ck)

LEMMA EndPays ==
    ASSUME IInv, Pays, NEW c \in Chats, NEW k \in Hops, NEW n \in Node, NEW left, Idle(c, left),
           NEW metadata, At(c, k, "END"), Chain(sessions, c, k), End(left, n, <<c, k>>, metadata),
           Ending(c, k, n, sessions, chat[c].used, ledger[c], Column(earning, c),
                  Column(checkpoints, c))
    PROVE  Pays'
<1> DEFINE md == IF k = 0 THEN Fresh(None) ELSE metadata
           ea == Column(earning, c)
           ck == Column(checkpoints, c)
           cl == ClaimsOf(claims, c)
           lg == ledger[c]
           used == chat[c].used
           sp2 == spending'[c]
           ss2 == sessions'
<1>1. /\ TypeOK /\ <<c, k>> \in Sessions /\ "END" \in Cmd /\ spending \in [Chats -> Nat]
      /\ sessions \in [Sessions -> SessionContainer \cup {None}]
  BY IsSession DEF IInv, TypeOK, Cmd
<1>2. checkpoints' = checkpoints /\ ledger' = ledger
  BY DEF End
<1>3. \A d \in Chats, i \in Hops : <<d, i>> \in Sessions /\ (d # c \/ i # k => <<d, i>> # <<c, k>>)
  BY IsSession
<1>4. sessions[<<c, k>>] # None
  BY ZeroIsHop DEF Chain, ChainTo
<1>5. /\ sessions' = [sessions EXCEPT ![<<c, k>>] = None]
      /\ spending' = IF k = 0 THEN [spending EXCEPT ![c] = 0] ELSE spending
      /\ IF sessions[<<c, k>>].dest = None
         THEN PostEnd(left, n, <<c, k>>, TRUE, md) /\ UNCHANGED waits
         ELSE /\ Request(left, n, <<c, k>>, sessions[<<c, k>>].dest, "END", None, md)
              /\ UNCHANGED <<earning, claims, panics>>
  BY <1>4 DEF End
<1>6. /\ ss2[<<c, k>>] = None
      /\ \A i \in Hops \ {k} : ss2[<<c, i>>] = sessions[<<c, i>>]
      /\ \A d \in Chats \ {c}, i \in Hops : sessions'[<<d, i>>] = sessions[<<d, i>>]
      /\ \A d \in Chats \ {c} : spending'[d] = spending[d]
  BY <1>1, <1>3, <1>5
<1>7. /\ Behind(waits, c, k, "END") /\ (k = 0 => Unawaited(waits, c))
      /\ (k # 0 => chat[c].pc \notin AtRest)
  BY DEF At
<1>8. /\ Ending(c, k, n, sessions, used, lg, ea, ck)
      /\ PayKept(c, sessions, waits, used, lg, ea, ck, cl, spending[c])
  BY DEF Pays, PayInv
<1> HIDE DEF md, ea, ck, cl, lg, used, sp2, ss2
<1>9. /\ lg \in Seq(Node) /\ Named(sessions, c, lg, 0)
      /\ k # 0 => k <= Len(lg) /\ n = HopNode(lg, k)
      /\ \A i \in 1 .. Len(lg) : i >= k => Owed(lg, used, i, ea, ck)
  BY <1>8 DEF Ending
<1>10. /\ k <= Len(lg) /\ Len(lg) \in Nat /\ k \in Nat
       /\ sessions[<<c, k>>].dest # None =>
              k + 1 <= Len(lg) /\ sessions[<<c, k>>].dest = HopNode(lg, k + 1)
  BY <1>4, <1>9, Handing, ZeroIsHop
<1>11. Named(ss2, c, lg, 0)
  BY <1>6, <1>9 DEF Named
<1>12. PayKept(c, ss2, waits, used, lg, ea, ck, cl, sp2)
  <2>1. \A i \in Hops : waits[<<c, i>>] # None => i # k /\ waits[<<c, i>>].cmd = "END"
    BY <1>7, ZeroIsHop DEF Behind
  <2>2. Covered(lg, ea, ck) /\ Claimed(lg, used, cl)
    BY <1>8 DEF PayKept
  <2> QED
    BY <1>8, <2>1, <2>2, KeptEnd
<1>13. Owing(k, n, used, lg, ea, ck)
  BY <1>9, <1>10 DEF Owing
<1>14. CASE sessions[<<c, k>>].dest = None
  <2>1. PostEnd(left, n, <<c, k>>, TRUE, md) /\ waits' = waits
    BY <1>5, <1>14
  <2>2. /\ PayKept(c, ss2, waits, chat[c].used, ledger[c], Column(earning, c),
                   Column(checkpoints, c), ClaimsOf(claims, c), sp2)
        /\ Owing(k, n, chat[c].used, ledger[c], Column(earning, c), Column(checkpoints, c))
    BY <1>12, <1>13 DEF ea, ck, cl, lg, used
  <2>3. /\ PayInv(c, chat'[c], ss2, waits, msgs', ledger[c], Column(earning', c),
                  Column(checkpoints, c), ClaimsOf(claims', c), sp2)
        /\ Spares(c)
        /\ \A d \in Chats \ {c} : /\ Column(earning', d) = Column(earning, d)
                                  /\ ClaimsOf(claims', d) = ClaimsOf(claims, d)
    BY <1>1, <1>7, <2>1, <2>2, PayPostEnd
  <2>4. PayInv(c, chat'[c], sessions', waits', msgs', ledger'[c], Column(earning', c),
               Column(checkpoints', c), ClaimsOf(claims', c), spending'[c])
    BY <1>2, <2>1, <2>3 DEF ss2, sp2
  <2> QED
    BY <1>2, <1>6, <2>1, <2>3, <2>4, OneChatPays
<1>15. CASE sessions[<<c, k>>].dest # None
  <2> DEFINE dest == sessions[<<c, k>>].dest
  <2>1. Request(left, n, <<c, k>>, dest, "END", None, md) /\ earning' = earning /\ claims' = claims
    BY <1>5, <1>15
  <2>2. k + 1 <= Len(lg) /\ dest = HopNode(lg, k + 1)
    BY <1>10, <1>15
  <2> HIDE DEF dest
  <2>3. lg # None
    BY <1>9, PassedHops
  <2>4. Asking(c, k, n, dest, "END", md, ss2, used, lg, ea, ck, cl, sp2)
    <3>1. \A i \in k + 1 .. Len(lg) : Owed(lg, used, i, ea, ck)
      BY <1>9, <1>10
    <3>2. k > 0 => k <= Len(lg) /\ n = HopNode(lg, k) /\ Owed(lg, used, k, ea, ck)
      BY <1>9, <1>10
    <3> QED
      BY <1>11, <2>2, <2>3, <3>1, <3>2 DEF Asking
  <2>5. PayInv(c, chat'[c], ss2, waits', msgs', lg, ea, ck, cl, sp2) /\ Spares(c)
    BY <1>1, <1>7, <1>12, <2>1, <2>4, PayRequested DEF used
  <2>6. \A d \in Chats \ {c}, i \in Hops : waits'[<<d, i>>] = waits[<<d, i>>]
    BY <1>1, <2>1, WaitsElse DEF Request
  <2>7. PayInv(c, chat'[c], sessions', waits', msgs', ledger'[c], Column(earning', c),
               Column(checkpoints', c), ClaimsOf(claims', c), spending'[c])
    BY <1>2, <2>1, <2>5 DEF ss2, sp2, ea, ck, cl, lg
  <2> QED
    BY <1>2, <1>6, <2>1, <2>5, <2>6, <2>7, OneChatPays
<1> QED
  BY <1>14, <1>15

LEMMA KeptFewer ==
    ASSUME NEW c, NEW ss, NEW ww1, NEW ww2, NEW used, NEW lg, NEW ea, NEW ck, NEW cl, NEW sp,
           PayKept(c, ss, ww1, used, lg, ea, ck, cl, sp),
           \A i \in Hops : ww2[<<c, i>>] # None => ww2[<<c, i>>] = ww1[<<c, i>>]
    PROVE  PayKept(c, ss, ww2, used, lg, ea, ck, cl, sp)
BY DEF PayKept

LEMMA RecvResPays ==
    ASSUME IInv, Pays, NEW m \in msgs, RecvRes(m)
    PROVE  Pays'
<1> DEFINE c == m.session[1]
           k == m.session[2] - 1
           n == waits[<<c, k>>].node
<1>1. /\ m.type = "RpcRes" /\ waits[<<c, k>>] # None
      /\ Continue(msgs \ {m}, <<c, k>>, m.success, m.metadata)
  BY DEF RecvRes
<1>2. m \in RpcRes
  BY <1>1, OneMessage DEF RpcReq
<1>3. m.success \in BOOLEAN /\ m.metadata \in Metadata \cup {Empty} /\ TypeOK
  BY <1>2 DEF RpcRes, IInv
<1>4. c \in Chats /\ k \in Hops /\ k + 1 = m.session[2] /\ k = m.session[2] - 1
  <2>1. c \in Chats /\ m.session[2] \in Hops /\ m.session[2] > 0
    BY OneMessage
  <2> QED
    BY <2>1, ChainAssumption DEF Hops
<1>5. /\ Idle(c, msgs \ {m}) /\ chat[c].pc \notin AtRest
      /\ Behind(waits, c, k + 1, m.cmd)
  BY <1>4, OneMessage
<1>6. /\ PayKept(c, sessions, waits, chat[c].used, ledger[c], Column(earning, c),
                 Column(checkpoints, c), ClaimsOf(claims, c), spending[c])
      /\ PayRes(c, m, m.session[2], sessions, chat[c].used, ledger[c], Column(earning, c),
                Column(checkpoints, c), ClaimsOf(claims, c), spending[c])
  <2>1. m \in Of(c, msgs)
    BY DEF Of
  <2> QED
    BY <1>1, <1>4, <2>1 DEF Pays, PayInv, PayMsg
<1> HIDE DEF c, k
<1>7. /\ waits[<<c, k>>] \in Waiting /\ waits'[<<c, k>>] = None
      /\ \A s \in Sessions : s # <<c, k>> => waits'[s] = waits[s]
  BY <1>1, <1>3, <1>4, ContinueTypes, ZenonT(40)
<1>8. n \in Node /\ waits[<<c, k>>].cmd = m.cmd /\ m.cmd \in Cmd
  <2>1. n \in Node /\ waits[<<c, k>>].cmd \in Cmd
    BY <1>7 DEF Waiting
  <2>2. waits[<<c, k>>].cmd = m.cmd
    BY <1>1, <1>4, <1>5 DEF Behind
  <2> QED
    BY <2>1, <2>2
<1>9. UNCHANGED <<sessions, spending, checkpoints>>
  BY <1>1, Continues
<1>10. \A d \in Chats, i \in Hops : <<d, i>> \in Sessions /\ (d # c \/ i # k => <<d, i>> # <<c, k>>)
  BY IsSession
<1> DEFINE ea == Column(earning, c)
           ck == Column(checkpoints, c)
           cl == ClaimsOf(claims, c)
           lg == ledger[c]
           used == chat[c].used
           sp == spending[c]
<1>11. PayWait(c, k, waits[<<c, k>>], sessions, used, lg, ea, ck, cl, sp)
  BY <1>1, <1>4, <1>6 DEF PayKept
<1> HIDE DEF n
<1>12. Behind(waits', c, k, m.cmd)
  <2> SUFFICES ASSUME NEW i \in Hops, waits'[<<c, i>>] # None
               PROVE  i < k /\ waits'[<<c, i>>].cmd = m.cmd
    BY DEF Behind
  <2>1. i # k /\ <<c, i>> \in Sessions
    BY <1>4, <1>7, <1>10
  <2>2. waits'[<<c, i>>] = waits[<<c, i>>]
    BY <1>7, <2>1
  <2>3. i < k + 1 /\ waits[<<c, i>>].cmd = m.cmd
    BY <1>5, <2>2 DEF Behind
  <2> QED
    BY <1>4, <2>1, <2>2, <2>3, ZeroIsHop
<1>13. k = 0 => Unawaited(waits', c)
  BY <1>12, ZeroIsHop DEF Behind, Unawaited
<1>14. PayKept(c, sessions, waits', used, lg, ea, ck, cl, sp)
  <2>1. \A i \in Hops : waits'[<<c, i>>] # None => waits'[<<c, i>>] = waits[<<c, i>>]
    BY <1>4, <1>7, <1>10
  <2> QED
    BY <1>6, <2>1, KeptFewer
<1>15. \A d \in Chats \ {c}, i \in Hops : waits'[<<d, i>>] = waits[<<d, i>>]
  BY <1>4, <1>7, <1>10
<1>16. CASE m.cmd = "START"
  <2>1. PostStart(msgs \ {m}, n, <<c, k>>, m.success, m.metadata) /\ UNCHANGED <<earning, claims>>
    BY <1>1, <1>8, <1>16, Continues DEF n
  <2>2. Unearned(used, ea, cl, sp) /\ (k > 0 => n = sessions[<<c, k - 1>>].dest)
    BY <1>8, <1>11, <1>16 DEF PayWait, n
  <2>3. m.success => m.metadata \in Metadata /\ Named(sessions, c, m.metadata.addresses, k)
    BY <1>4, <1>6, <1>16 DEF PayRes
  <2>4. k # 0 => n = sessions[<<c, k - 1>>].dest
    BY <1>4, <2>2, ZeroIsHop
  <2> HIDE DEF ea, ck, cl, sp, used
  <2>5. /\ PayInv(c, chat'[c], sessions, waits', msgs', ledger'[c], ea, ck, cl, sp) /\ Spares(c)
        /\ \A d \in Chats \ {c} : ledger'[d] = ledger[d]
    <3>1. CASE m.success = TRUE
      <4>1. /\ PostStart(msgs \ {m}, n, <<c, k>>, TRUE, m.metadata)
            /\ m.metadata \in Metadata /\ Named(sessions, c, m.metadata.addresses, k)
        BY <2>1, <2>3, <3>1
      <4> QED
        BY <1>3, <1>4, <1>5, <1>8, <1>13, <1>14, <2>2, <2>4, <4>1, PayPostStart, ZenonT(40) DEF used
    <3>2. CASE m.success = FALSE
      <4>1. PostStart(msgs \ {m}, n, <<c, k>>, FALSE, m.metadata)
        BY <2>1, <3>2
      <4> QED
        BY <1>3, <1>4, <1>5, <1>8, <1>13, <1>14, <2>2, <2>4, <4>1, PayPostStart, ZenonT(40) DEF used
    <3> QED
      BY <1>3, <3>1, <3>2
  <2>6. PayInv(c, chat'[c], sessions', waits', msgs', ledger'[c], Column(earning', c),
               Column(checkpoints', c), ClaimsOf(claims', c), spending'[c])
    BY <1>9, <2>1, <2>5 DEF ea, ck, cl, sp
  <2> QED
    BY <1>4, <1>9, <1>15, <2>1, <2>5, <2>6, OneChatPays
<1>17. CASE m.cmd = "FORWARD"
  <2>1. /\ Reply(msgs \ {m}, n, <<c, k>>, "FORWARD", m.success, m.metadata)
        /\ UNCHANGED <<earning, ledger, claims>>
    BY <1>1, <1>8, <1>17, Continues DEF n
  <2>2. m.success => /\ Named(sessions, c, lg, 0) /\ sp = used + 1 /\ cl = {}
                     /\ Counted(lg, used, Len(lg), ea, ck)
    BY <1>6, <1>17 DEF PayRes
  <2>3. used \in Nat /\ lg \in Seq(Node) \cup {None}
    BY <1>3, <1>4 DEF TypeOK, Loop
  <2> HIDE DEF ea, ck, cl, sp, used, lg
  <2>4. m.success => PayReady(c, sessions, used + 1, lg, ea, ck, cl, sp)
    <3> SUFFICES ASSUME m.success PROVE PayReady(c, sessions, used + 1, lg, ea, ck, cl, sp)
      OBVIOUS
    <3>1. Counted(lg, used, Len(lg), ea, ck)
      BY <2>2
    <3>2. lg \in Seq(Node)
      BY <2>3, <3>1 DEF Counted
    <3>3. Settled(lg, used + 1, ea, ck)
      BY <2>3, <3>1, <3>2, RoundOver
    <3> QED
      BY <2>2, <3>3 DEF PayReady
  <2>5. Telling(c, k, "FORWARD", m.success, m.metadata, sessions, used, lg, ea, ck, cl, sp)
    BY <2>2, <2>4 DEF Telling
  <2>6. PayInv(c, chat'[c], sessions, waits', msgs', lg, ea, ck, cl, sp) /\ Spares(c)
    BY <1>3, <1>4, <1>5, <1>8, <1>13, <1>14, <1>17, <2>1, <2>5, PayReplied, ZenonT(40) DEF used
  <2>7. PayInv(c, chat'[c], sessions', waits', msgs', ledger'[c], Column(earning', c),
               Column(checkpoints', c), ClaimsOf(claims', c), spending'[c])
    BY <1>9, <2>1, <2>6 DEF ea, ck, cl, sp, lg
  <2> QED
    BY <1>4, <1>9, <1>15, <2>1, <2>6, <2>7, OneChatPays
<1>18. CASE m.cmd = "END"
  <2>1. PostEnd(msgs \ {m}, n, <<c, k>>, m.success, m.metadata) /\ ledger' = ledger
    BY <1>1, <1>8, <1>18, Continues DEF n
  <2>2. Owing(k, n, used, lg, ea, ck)
    <3>1. k # 0 => /\ lg # None /\ k <= Len(lg) /\ n = HopNode(lg, k)
                   /\ Owed(lg, used, k, ea, ck) /\ k \in Nat
      BY <1>4, <1>8, <1>11, <1>18, ZeroIsHop DEF PayWait, n
    <3>2. lg \in Seq(Node) \cup {None}
      BY <1>3, <1>4 DEF TypeOK
    <3> HIDE DEF lg
    <3>3. k # 0 => lg \in Seq(Node) /\ k \in 1 .. Len(lg)
      BY <3>1, <3>2
    <3> QED
      BY <3>1, <3>3 DEF Owing
  <2>3. /\ PayInv(c, chat'[c], sessions, waits', msgs', ledger[c], Column(earning', c),
                  Column(checkpoints, c), ClaimsOf(claims', c), sp)
        /\ Spares(c)
        /\ \A d \in Chats \ {c} : /\ Column(earning', d) = Column(earning, d)
                                  /\ ClaimsOf(claims', d) = ClaimsOf(claims, d)
    <3>1. Behind(waits', c, k, "END")
      BY <1>12, <1>18
    <3> QED
      BY <1>3, <1>4, <1>5, <1>8, <1>13, <1>14, <2>1, <2>2, <3>1, PayPostEnd
  <2>4. PayInv(c, chat'[c], sessions', waits', msgs', ledger'[c], Column(earning', c),
               Column(checkpoints', c), ClaimsOf(claims', c), spending'[c])
    BY <1>9, <2>1, <2>3
  <2> QED
    BY <1>4, <1>9, <1>15, <2>1, <2>3, <2>4, OneChatPays
<1> QED
  BY <1>8, <1>16, <1>17, <1>18 DEF Cmd

(* The root may open a session on chain though START failed behind it:     *)
(* nobody has counted anything yet.                                        *)
LEMMA KeptStart ==
    ASSUME NEW c, NEW ss, NEW ww, NEW used, NEW lg1, NEW lg2, NEW ea, NEW ck, NEW cl, NEW sp,
           PayKept(c, ss, ww, used, lg1, ea, ck, cl, sp), Unearned(used, ea, cl, sp),
           \A i \in Hops : ww[<<c, i>>] # None => ww[<<c, i>>].cmd = "START"
    PROVE  PayKept(c, ss, ww, used, lg2, ea, ck, cl, sp)
<1>1. Covered(lg2, ea, ck) /\ Claimed(lg2, used, cl)
  BY DEF Unearned, Covered, Claimed
<1>2. \A i \in Hops : ww[<<c, i>>] # None => PayWait(c, i, ww[<<c, i>>], ss, used, lg2, ea, ck, cl, sp)
  BY DEF PayKept, PayWait
<1> QED
  BY <1>1, <1>2 DEF PayKept

LEMMA RpcDroppedPays ==
    ASSUME IInv, Pays, NEW s \in Sessions, RpcDropped(s)
    PROVE  Pays'
<1> DEFINE c == s[1]
           k == s[2]
           n == waits[s].node
           md == waits[s].metadata
<1>1. c \in Chats /\ k \in Hops /\ s = <<c, k>>
  BY SessionIs
<1> HIDE DEF c, k
<1>2. waits[<<c, k>>] # None /\ n \notin up /\ Continue(msgs, <<c, k>>, FALSE, md)
  BY <1>1 DEF RpcDropped
<1>3. waits[<<c, k>>] \in Waiting /\ TypeOK /\ ledger[c] \in Seq(Node) \cup {None}
  BY <1>1, <1>2 DEF IInv, TypeOK
<1>4. n \in Node /\ md \in Metadata /\ waits[<<c, k>>].cmd \in Cmd
  BY <1>1, <1>3 DEF Waiting
<1>5. n = waits[<<c, k>>].node
  BY <1>1
<1> HIDE DEF n, md
<1>6. waits'[<<c, k>>] = None /\ \A x \in Sessions : x # <<c, k>> => waits'[x] = waits[x]
  BY <1>1, <1>2, <1>4, ContinueTypes
<1>7. UNCHANGED <<sessions, spending, checkpoints>>
  BY <1>2, Continues
<1>8. \A d \in Chats, i \in Hops : <<d, i>> \in Sessions /\ (d # c \/ i # k => <<d, i>> # <<c, k>>)
  BY IsSession
<1>9. ChatInv(c, chat[c], sessions, waits, msgs)
  BY <1>1 DEF IInv
<1>10. chat[c].pc \notin AtRest
  BY <1>1, <1>2, <1>9 DEF ChatInv, Unawaited
<1>11. /\ msgs' = msgs /\ chat'[c].pc \notin AtRest /\ chat'[c].used = chat[c].used
       /\ \A d \in Chats \ {c} : chat'[d] = chat[d]
  BY <1>1, <1>2, <1>3, <1>4, <1>5, <1>10, Dropping
<1>12. Spares(c)
  BY <1>11 DEF Spares
<1> DEFINE ea == Column(earning, c)
           ck == Column(checkpoints, c)
           cl == ClaimsOf(claims, c)
           lg == ledger[c]
           used == chat[c].used
           sp == spending[c]
           cmd == waits[<<c, k>>].cmd
           ea2 == Column(earning', c)
           cl2 == ClaimsOf(claims', c)
           lg2 == ledger'[c]
<1>13. /\ PayKept(c, sessions, waits, used, lg, ea, ck, cl, sp)
       /\ \A m \in Of(c, msgs) : PayMsg(c, m, sessions, used, lg, ea, ck, cl, sp)
  BY <1>1 DEF Pays, PayInv
<1>14. PayWait(c, k, waits[<<c, k>>], sessions, used, lg, ea, ck, cl, sp)
  BY <1>1, <1>2, <1>13 DEF PayKept
<1>15. \A i \in Hops : waits'[<<c, i>>] # None =>
           i # k /\ waits'[<<c, i>>] = waits[<<c, i>>] /\ waits'[<<c, i>>].cmd = cmd
  <2>1. \A i \in Hops : waits'[<<c, i>>] # None => i # k /\ waits'[<<c, i>>] = waits[<<c, i>>]
    BY <1>1, <1>6, <1>8
  <2> QED
    BY <1>1, <1>2, <1>13, <2>1 DEF PayKept
<1>16. PayKept(c, sessions, waits', used, lg, ea, ck, cl, sp)
  <2>1. \A i \in Hops : waits'[<<c, i>>] # None => waits'[<<c, i>>] = waits[<<c, i>>]
    BY <1>15
  <2> HIDE DEF used, lg, ea, ck, cl, sp
  <2> QED
    BY <1>13, <2>1, KeptFewer
<1>17. \A m \in Of(c, msgs) : m.cmd = cmd /\ k < m.session[2]
  BY <1>1, <1>2, <1>9 DEF ChatInv, Behind
<1>18. \A d \in Chats \ {c}, i \in Hops : waits'[<<d, i>>] = waits[<<d, i>>]
  BY <1>1, <1>6, <1>8
<1>19. ASSUME PayKept(c, sessions, waits', used, lg2, ea2, ck, cl2, sp),
              \A m \in Of(c, msgs) : PayMsg(c, m, sessions, used, lg2, ea2, ck, cl2, sp),
              \A d \in Chats \ {c} : /\ ledger'[d] = ledger[d]
                                     /\ Column(earning', d) = Column(earning, d)
                                     /\ ClaimsOf(claims', d) = ClaimsOf(claims, d)
       PROVE  Pays'
  <2>1. PayInv(c, chat'[c], sessions, waits', msgs', lg2, ea2, ck, cl2, sp)
    <3> HIDE DEF ea2, ck, cl2, lg2, sp
    <3> QED
      BY <1>11, <1>19 DEF PayInv, AtRest
  <2>2. PayInv(c, chat'[c], sessions', waits', msgs', ledger'[c], Column(earning', c),
               Column(checkpoints', c), ClaimsOf(claims', c), spending'[c])
    BY <1>7, <2>1
  <2> QED
    BY <1>1, <1>7, <1>12, <1>18, <1>19, <2>2, OneChatPays
<1>20. CASE cmd = "START"
  <2>1. PostStart(msgs, n, <<c, k>>, FALSE, md) /\ earning' = earning /\ claims' = claims
    BY <1>2, <1>5, <1>20, Continues
  <2>2. Unearned(used, ea, cl, sp)
    BY <1>14, <1>20 DEF PayWait
  <2>3. \A d \in Chats \ {c} : ledger'[d] = ledger[d]
    <3>1. ledger \in [Chats -> Seq(Node) \cup {None}]
      BY <1>3 DEF TypeOK
    <3>2. ledger' = ledger \/ ledger' = [ledger EXCEPT ![c] = md.addresses]
      BY <2>1 DEF PostStart, CreateSession
    <3> QED
      BY <3>1, <3>2
  <2>4. ea2 = ea /\ cl2 = cl
    BY <2>1
  <2>5. \A i \in Hops : waits'[<<c, i>>] # None => waits'[<<c, i>>].cmd = "START"
    BY <1>15, <1>20
  <2> HIDE DEF used, lg, ea, ck, cl, sp, ea2, cl2, lg2
  <2>6. PayKept(c, sessions, waits', used, lg2, ea, ck, cl, sp)
    BY <1>16, <2>2, <2>5, KeptStart
  <2>7. ASSUME NEW m \in Of(c, msgs) PROVE PayMsg(c, m, sessions, used, lg2, ea, ck, cl, sp)
    <3>1. m.cmd = "START" /\ PayMsg(c, m, sessions, used, lg, ea, ck, cl, sp)
      BY <1>13, <1>17, <1>20
    <3> QED
      BY <3>1 DEF PayMsg, PayReq, PayRes
  <2>8. \A d \in Chats \ {c} : /\ Column(earning', d) = Column(earning, d)
                               /\ ClaimsOf(claims', d) = ClaimsOf(claims, d)
    BY <2>1
  <2> QED
    BY <1>19, <2>3, <2>4, <2>6, <2>7, <2>8
<1>21. CASE cmd = "FORWARD"
  <2>1. UNCHANGED <<earning, ledger, claims>>
    BY <1>2, <1>21, Continues
  <2>2. ea2 = ea /\ cl2 = cl /\ lg2 = lg
    BY <2>1
  <2> HIDE DEF used, lg, ea, ck, cl, sp, ea2, cl2, lg2
  <2> QED
    BY <1>13, <1>16, <1>19, <2>1, <2>2
<1>22. CASE cmd = "END"
  <2>1. PostEnd(msgs, n, <<c, k>>, FALSE, md) /\ ledger' = ledger
    BY <1>2, <1>5, <1>22, Continues
  <2>2. Owing(k, n, used, lg, ea, ck)
    <3>1. k # 0 => /\ lg # None /\ k <= Len(lg) /\ n = HopNode(lg, k)
                   /\ Owed(lg, used, k, ea, ck) /\ k \in Nat
      BY <1>1, <1>5, <1>14, <1>22, ZeroIsHop DEF PayWait
    <3>2. lg \in Seq(Node) \cup {None}
      BY <1>3
    <3> HIDE DEF lg
    <3>3. k # 0 => lg \in Seq(Node) /\ k \in 1 .. Len(lg)
      BY <3>1, <3>2
    <3> QED
      BY <3>1, <3>3 DEF Owing
  <2>3. \A i \in Hops : waits'[<<c, i>>] # None => i # k /\ waits'[<<c, i>>].cmd = "END"
    BY <1>15, <1>22
  <2>4. /\ PayKept(c, sessions, waits', used, lg, ea2, ck, cl2, sp)
        /\ lg # None => \A i \in 1 .. Len(lg) :
              i # k /\ Owed(lg, used, i, ea, ck) => Owed(lg, used, i, ea2, ck)
        /\ \A d \in Chats \ {c} : /\ Column(earning', d) = Column(earning, d)
                                  /\ ClaimsOf(claims', d) = ClaimsOf(claims, d)
    BY <1>1, <1>3, <1>4, <1>16, <2>1, <2>2, <2>3, PostEndKeeps
  <2>5. lg2 = lg /\ \A d \in Chats \ {c} : ledger'[d] = ledger[d]
    BY <2>1
  <2> HIDE DEF used, lg, ea, ck, cl, sp, ea2, cl2, lg2
  <2>6. ASSUME NEW m \in Of(c, msgs) PROVE PayMsg(c, m, sessions, used, lg, ea2, ck, cl2, sp)
    <3> DEFINE j == m.session[2]
    <3>1. m.cmd = "END" /\ k < j /\ PayMsg(c, m, sessions, used, lg, ea, ck, cl, sp)
      BY <1>13, <1>17, <1>22
    <3>2. j \in Nat /\ j > 0 /\ k \in Nat
      BY <1>1, OneMessage, ZeroIsHop DEF Of
    <3> HIDE DEF j
    <3>3. PayRes(c, m, j, sessions, used, lg, ea2, ck, cl2, sp)
      BY <3>1 DEF PayRes
    <3>4. ASSUME m.type = "RpcReq" PROVE PayReq(c, m, j, sessions, used, lg, ea2, ck, cl2, sp)
      <4>1. /\ lg # None /\ Named(sessions, c, lg, 0) /\ j <= Len(lg) /\ m.to = HopNode(lg, j)
            /\ \A i \in j .. Len(lg) : Owed(lg, used, i, ea, ck)
        BY <3>1, <3>4 DEF PayMsg, PayReq, j
      <4>2. \A i \in j .. Len(lg) : i \in 1 .. Len(lg) /\ i # k
        BY <3>1, <3>2
      <4>3. \A i \in j .. Len(lg) : Owed(lg, used, i, ea2, ck)
        BY <2>4, <4>1, <4>2
      <4> QED
        BY <3>1, <4>1, <4>3 DEF PayReq
    <3> QED
      BY <3>3, <3>4 DEF PayMsg, j
  <2> QED
    BY <1>19, <2>4, <2>5, <2>6
<1> QED
  BY <1>4, <1>20, <1>21, <1>22 DEF Cmd

LEMMA RecvReqPays ==
    ASSUME IInv, Pays, NEW m \in msgs, RecvReq(m)
    PROVE  Pays'
<1> DEFINE c == m.session[1]
           k == m.session[2]
<1>1. m.type = "RpcReq" /\ m \in RpcReq
  BY OneMessage DEF RecvReq, RpcRes
<1>2. /\ m.to \in Node /\ m.from_layer \in Nat \cup {None} /\ m.metadata \in Metadata
      /\ m.cmd \in Cmd
  BY <1>1 DEF RpcReq
<1>3. c \in Chats /\ k \in Hops /\ k # 0 /\ k \in Nat /\ m.session = <<c, k>>
  <2>1. c \in Chats /\ k \in Hops /\ k > 0 /\ m.session = <<c, k>>
    BY OneMessage
  <2> QED
    BY <2>1, ZeroIsHop
<1>4. Idle(c, msgs \ {m}) /\ At(c, k, m.cmd) /\ Flight(m, c, k, sessions)
  BY <1>3, OneMessage DEF At
<1>5. PayReq(c, m, k, sessions, chat[c].used, ledger[c], Column(earning, c),
             Column(checkpoints, c), ClaimsOf(claims, c), spending[c])
  <2>1. m \in Of(c, msgs)
    BY DEF Of
  <2> QED
    BY <1>1, <1>3, <2>1 DEF Pays, PayInv, PayMsg
<1>6. ledger[c] \in Seq(Node) \cup {None}
  BY <1>3 DEF IInv, TypeOK
<1> HIDE DEF c, k
<1>7. CASE m.cmd = "START"
  <2>1. Start(msgs \ {m}, m.to, <<c, k>>, m.from_layer, m.metadata)
    BY <1>3, <1>7 DEF RecvReq
  <2>2. Building(sessions, c, k)
    BY <1>1, <1>4, <1>7 DEF Flight
  <2>3. /\ Unearned(chat[c].used, Column(earning, c), ClaimsOf(claims, c), spending[c])
        /\ m.metadata.addresses = <<>> /\ m.to = sessions[<<c, k - 1>>].dest
    BY <1>5, <1>7 DEF PayReq
  <2> QED
    BY <1>2, <1>3, <1>4, <1>7, <2>1, <2>2, <2>3, StartPays
<1>8. CASE m.cmd = "FORWARD"
  <2>1. Forward(msgs \ {m}, m.to, <<c, k>>, m.metadata)
    BY <1>3, <1>8 DEF RecvReq
  <2>2. Told(c, k, m.to, m.metadata, sessions, chat[c].used, ledger[c], Column(earning, c),
             Column(checkpoints, c), ClaimsOf(claims, c), spending[c])
    BY <1>5, <1>8 DEF PayReq, Told
  <2> QED
    BY <1>2, <1>3, <1>4, <1>8, <2>1, <2>2, ForwardPays
<1>9. CASE m.cmd = "END"
  <2>1. End(msgs \ {m}, m.to, <<c, k>>, m.metadata)
    BY <1>3, <1>9 DEF RecvReq
  <2>2. Chain(sessions, c, k)
    BY <1>1, <1>4, <1>9 DEF Flight
  <2>3. Ending(c, k, m.to, sessions, chat[c].used, ledger[c], Column(earning, c),
               Column(checkpoints, c))
    <3> DEFINE lg == ledger[c]
               ea == Column(earning, c)
               ck == Column(checkpoints, c)
    <3>1. /\ lg # None /\ Named(sessions, c, lg, 0) /\ k <= Len(lg) /\ m.to = HopNode(lg, k)
          /\ \A i \in k .. Len(lg) : Owed(lg, chat[c].used, i, ea, ck)
      BY <1>5, <1>9 DEF PayReq
    <3>2. lg \in Seq(Node)
      BY <1>6, <3>1
    <3> HIDE DEF lg, ea, ck
    <3>3. \A i \in 1 .. Len(lg) : i >= k => Owed(lg, chat[c].used, i, ea, ck)
      BY <1>3, <3>1, <3>2
    <3>4. Ending(c, k, m.to, sessions, chat[c].used, lg, ea, ck)
      BY <3>1, <3>2, <3>3 DEF Ending
    <3> QED
      BY <3>4 DEF lg, ea, ck
  <2> QED
    BY <1>2, <1>3, <1>4, <1>9, <2>1, <2>2, <2>3, EndPays
<1> QED
  BY <1>2, <1>7, <1>8, <1>9 DEF Cmd

LEMMA ChatLoopPays ==
    ASSUME IInv, Pays, NEW c \in Chats, ChatStart(c) \/ ChatForward(c) \/ ChatFinish(c)
    PROVE  Pays'
<1> DEFINE ea == Column(earning, c)
           ck == Column(checkpoints, c)
           cl == ClaimsOf(claims, c)
           lg == ledger[c]
           used == chat[c].used
           sp == spending[c]
<1>1. ChatInv(c, chat[c], sessions, waits, msgs) /\ Root[c] \in Node
  BY ChainAssumption DEF IInv
<1>2. chat[c].pc \in AtRest
  BY DEF ChatStart, ChatForward, ChatFinish, AtRest
<1>3. Of(c, msgs) = {} /\ Unawaited(waits, c)
  BY <1>1, <1>2 DEF ChatInv
<1>4. Idle(c, msgs) /\ \A cmd : At(c, 0, cmd)
  BY <1>3 DEF Idle, At, Behind, Unawaited
<1>5. /\ chat[c].pc = "idle" => Unearned(used, ea, cl, sp)
      /\ chat[c].pc = "ready" => PayReady(c, sessions, used, lg, ea, ck, cl, sp)
  BY DEF Pays, PayInv
<1>6. CASE ChatStart(c)
  <2>1. Gone(sessions, c)
    BY <1>1, <1>6 DEF ChatInv, ChatStart
  <2>2. Building(sessions, c, 0)
    BY <2>1, ZeroIsHop DEF Gone, Building
  <2>3. Start(msgs, Root[c], <<c, 0>>, 0, Empty) /\ Unearned(used, ea, cl, sp)
    BY <1>5, <1>6 DEF ChatStart
  <2> QED
    BY <1>1, <1>4, <2>2, <2>3, StartPays, ZeroIsHop
<1>7. CASE ChatForward(c)
  <2>1. /\ Forward(msgs, Root[c], <<c, 0>>, Empty)
        /\ PayReady(c, sessions, used, lg, ea, ck, cl, sp)
    BY <1>5, <1>7 DEF ChatForward
  <2> QED
    BY <1>1, <1>4, <2>1, ForwardPays, ZeroIsHop
<1>8. CASE ChatFinish(c)
  <2>1. Chain(sessions, c, 0)
    BY <1>1, <1>8 DEF ChatInv, ChatFinish
  <2>2. /\ End(msgs, Root[c], <<c, 0>>, Empty) /\ used >= Prompt
        /\ PayReady(c, sessions, used, lg, ea, ck, cl, sp)
    BY <1>5, <1>8 DEF ChatFinish
  <2>3. used \in Nat /\ used > 0 /\ lg \in Seq(Node) \cup {None}
    <3>1. used \in Nat /\ lg \in Seq(Node) \cup {None}
      BY DEF IInv, TypeOK, Loop
    <3> QED
      BY <2>2, <3>1, ChainAssumption
  <2> HIDE DEF used, lg, ea, ck
  <2>4. lg \in Seq(Node) /\ Named(sessions, c, lg, 0) /\ Settled(lg, used, ea, ck)
    BY <2>2, <2>3 DEF PayReady, Settled
  <2>5. \A i \in 1 .. Len(lg) : Owed(lg, used, i, ea, ck)
    BY <2>3, <2>4, SettledOwes
  <2>6. Ending(c, 0, Root[c], sessions, used, lg, ea, ck)
    BY <2>4, <2>5 DEF Ending
  <2> QED
    BY <1>1, <1>4, <2>1, <2>2, <2>6, EndPays, ZeroIsHop DEF used, lg, ea, ck
<1> QED
  BY <1>6, <1>7, <1>8

LEMMA AbortPays ==
    ASSUME IInv, Pays, NEW c \in Chats, ChatAborted(c)
    PROVE  Pays'
<1>1. /\ chat' = [chat EXCEPT ![c].pc = "failed"] /\ chat \in [Chats -> Loop]
      /\ ChatInv(c, chat[c], sessions, waits, msgs) /\ chat[c].pc = "ready"
  BY DEF ChatAborted, IInv, TypeOK
<1>2. UNCHANGED <<sessions, waits, msgs, spending, earning, checkpoints, ledger, claims>>
  BY DEF ChatAborted, service, usage, onchain
<1>3. /\ [chat[c] EXCEPT !.pc = "failed"].used = chat[c].used
      /\ [chat[c] EXCEPT !.pc = "failed"].pc = "failed"
  BY <1>1 DEF Loop
<1>4. chat' = [chat EXCEPT ![c] = [chat[c] EXCEPT !.pc = "failed"]]
  BY <1>1
<1>5. /\ chat'[c].pc = "failed" /\ chat'[c].used = chat[c].used
      /\ \A d \in Chats \ {c} : chat'[d] = chat[d]
  BY <1>1, <1>3, <1>4
<1>6. Spares(c)
  BY <1>2, <1>5 DEF Spares
<1>7. Of(c, msgs) = {}
  BY <1>1 DEF ChatInv, AtRest
<1>8. PayKept(c, sessions, waits, chat[c].used, ledger[c], Column(earning, c),
              Column(checkpoints, c), ClaimsOf(claims, c), spending[c])
  BY DEF Pays, PayInv
<1>9. PayInv(c, chat'[c], sessions, waits, msgs, ledger[c], Column(earning, c),
             Column(checkpoints, c), ClaimsOf(claims, c), spending[c])
  BY <1>5, <1>7, <1>8 DEF PayInv
<1> QED
  BY <1>2, <1>6, <1>9, OneChatPays

(* Messages may be lost, and workers leave, without anything else changing. *)
LEMMA FewerPays ==
    ASSUME Pays, msgs' \subseteq msgs,
           UNCHANGED <<chat, sessions, waits, spending, earning, checkpoints, ledger, claims>>
    PROVE  Pays'
<1>1. ASSUME NEW c \in Chats
      PROVE  PayInv(c, chat[c], sessions, waits, msgs', ledger[c], Column(earning, c),
                    Column(checkpoints, c), ClaimsOf(claims, c), spending[c])
  <2>1. PayInv(c, chat[c], sessions, waits, msgs, ledger[c], Column(earning, c),
               Column(checkpoints, c), ClaimsOf(claims, c), spending[c])
    BY DEF Pays
  <2>2. Of(c, msgs') \subseteq Of(c, msgs)
    BY DEF Of
  <2> QED
    BY <2>1, <2>2 DEF PayInv
<1>2. \A c \in Chats :
         PayInv(c, chat'[c], sessions', waits', msgs', ledger'[c], Column(earning', c),
                Column(checkpoints', c), ClaimsOf(claims', c), spending'[c])
  BY <1>1
<1> QED
  BY <1>2 DEF Pays

LEMMA PaysInit == Init => Pays
<1> SUFFICES ASSUME Init, NEW c \in Chats
             PROVE  PayInv(c, chat[c], sessions, waits, msgs, ledger[c], Column(earning, c),
                           Column(checkpoints, c), ClaimsOf(claims, c), spending[c])
  BY DEF Pays
<1>1. /\ chat[c] = [pc |-> "idle", used |-> 0] /\ spending[c] = 0
      /\ Of(c, msgs) = {} /\ ClaimsOf(claims, c) = {}
      /\ \A n \in Node : Column(earning, c)[n] = 0
  BY DEF Init, Of, ClaimsOf, Column
<1>2. Unawaited(waits, c)
  BY IsSession DEF Init, Unawaited
<1>3. Unearned(chat[c].used, Column(earning, c), ClaimsOf(claims, c), spending[c])
  BY <1>1 DEF Unearned
<1>4. PayKept(c, sessions, waits, chat[c].used, ledger[c], Column(earning, c),
              Column(checkpoints, c), ClaimsOf(claims, c), spending[c])
  BY <1>2, <1>3, UnearnedKept
<1> QED
  BY <1>1, <1>3, <1>4 DEF PayInv

(* The invariant behind the three results below: what the workers of a     *)
(* chain have counted in OnChainStorage, what the root signed and what the *)
(* session on chain lists agree, hop by hop, with how far the command on   *)
(* its way has come; and END finds every hop owed the tokens of the chat.  *)
THEOREM ChainPays == Spec => []Pays
<1>1. Init => Pays
  BY PaysInit
<1>2. IInv /\ Pays /\ [Next]_vars => Pays'
  <2> SUFFICES ASSUME IInv, Pays, [Next]_vars PROVE Pays'
    OBVIOUS
  <2>1. ASSUME NEW c \in Chats, ChatStart(c) \/ ChatForward(c) \/ ChatFinish(c) PROVE Pays'
    BY <2>1, ChatLoopPays
  <2>2. ASSUME NEW c \in Chats, ChatAborted(c) PROVE Pays'
    BY <2>2, AbortPays
  <2>3. ASSUME NEW m \in msgs, RecvReq(m) PROVE Pays'
    BY <2>3, RecvReqPays
  <2>4. ASSUME NEW m \in msgs, RecvRes(m) PROVE Pays'
    BY <2>4, RecvResPays
  <2>5. ASSUME NEW m \in msgs, Lose(m) PROVE Pays'
    BY <2>5, FewerPays DEF Lose, service, usage, onchain
  <2>6. ASSUME NEW s \in Sessions, RpcDropped(s) PROVE Pays'
    BY <2>6, RpcDroppedPays
  <2>7. ASSUME NEW n \in Node, Shutdown(n) PROVE Pays'
    BY <2>7, FewerPays DEF Shutdown, service, usage, onchain
  <2>8. CASE UNCHANGED vars
    BY <2>8, FewerPays DEF vars, service, usage, onchain
  <2> QED
    BY <2>1, <2>2, <2>3, <2>4, <2>5, <2>6, <2>7, <2>8 DEF Next
<1> QED
  BY <1>1, <1>2, ChainInvariant, PTL DEF Spec

LEMMA JoinedIs == \A n \in Node, c \in Chats : Joined(n, c) = Times(ledger[c], n)
BY DEF Joined, Times

LEMMA PaysCovers ==
    ASSUME Pays, NEW n \in Node, NEW c \in Chats, earning[n][c] > 0
    PROVE  checkpoints[n][c] # None /\ earning[n][c] <= Joined(n, c) * checkpoints[n][c]
<1>1. Covered(ledger[c], Column(earning, c), Column(checkpoints, c))
  BY DEF Pays, PayInv, PayKept
<1>2. Column(earning, c)[n] = earning[n][c] /\ Column(checkpoints, c)[n] = checkpoints[n][c]
  BY DEF Column
<1> QED
  BY <1>1, <1>2, JoinedIs DEF Covered

LEMMA PaysEarns == Pays => EarnsWhatIsSigned
BY PaysCovers DEF EarnsWhatIsSigned

(* What OnChainService counts at a worker is covered by the last count the *)
(* root signed for it, along any chain, one that runs through the worker   *)
(* more than once included, whatever is lost and whoever leaves.           *)
THEOREM ChainEarnsWhatIsSigned == Spec => []EarnsWhatIsSigned
BY ChainPays, PaysEarns, PTL

LEMMA PaysParticipants == IInv /\ Pays => WorkersAreParticipants
<1> SUFFICES ASSUME IInv, Pays, NEW n \in Node, NEW c \in Chats, earning[n][c] > 0
             PROVE  Joined(n, c) > 0
  BY DEF WorkersAreParticipants
<1>1. /\ earning[n][c] \in Nat /\ checkpoints[n][c] \in Nat \cup {None}
      /\ ledger[c] \in Seq(Node) \cup {None}
  BY DEF IInv, TypeOK
<1>2. checkpoints[n][c] # None /\ earning[n][c] <= Joined(n, c) * checkpoints[n][c]
  BY PaysCovers
<1>3. Joined(n, c) \in Nat
  <2>1. CASE ledger[c] = None
    BY <2>1 DEF Joined
  <2>2. CASE ledger[c] \in Seq(Node)
    <3>1. Times(ledger[c], n) \in Nat
      BY <2>2, PassedHops
    <3> QED
      BY <3>1, JoinedIs
  <2> QED
    BY <1>1, <2>1, <2>2
<1>4. Joined(n, c) = 0 => Joined(n, c) * checkpoints[n][c] = 0
  BY <1>1, <1>2
<1> QED
  BY <1>1, <1>2, <1>3, <1>4

(* pre_forward never counts a token at a worker that the session created   *)
(* on chain does not name.                                                 *)
THEOREM ChainWorkersAreParticipants == Spec => []WorkersAreParticipants
BY ChainInvariant, ChainPays, PaysParticipants, PTL

LEMMA PaysClaims == IInv /\ Pays => ClaimsAreSigned
<1> SUFFICES ASSUME IInv, Pays, NEW k \in claims, Joined(k.node, k.chat) = 1
             PROVE  k.token_count = k.signed /\ k.signed = chat[k.chat].used
  BY DEF ClaimsAreSigned
<1>1. k.node \in Node /\ k.chat \in Chats
  BY DEF IInv, TypeOK
<1>2. Claimed(ledger[k.chat], chat[k.chat].used, ClaimsOf(claims, k.chat))
  BY <1>1 DEF Pays, PayInv, PayKept
<1>3. k \in ClaimsOf(claims, k.chat) /\ Times(ledger[k.chat], k.node) = 1
  BY <1>1, JoinedIs DEF ClaimsOf
<1> QED
  BY <1>2, <1>3 DEF Claimed

(* What post_end claims on chain is what the root signed and the chat      *)
(* used, for every worker the chain runs through once.                     *)
THEOREM ChainClaimsAreSigned == Spec => []ClaimsAreSigned
BY ChainInvariant, ChainPays, PaysClaims, PTL
================================================================================
