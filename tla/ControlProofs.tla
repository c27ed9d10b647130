--------------------------- MODULE ControlProofs ----------------------------
(***************************************************************************)
(* Proofs about Control, for every set of requests, models and chats and   *)
(* every capacity.  The argument is the lock's: while a handler holds it,  *)
(* what it read of `models` stays as it was, over all of its waits.        *)
(* Then about LayerPlacement, for every set of workers and layers: who is  *)
(* asked to serve which of them.                                           *)
(***************************************************************************)
EXTENDS Control, LayerPlacement, FiniteSetTheorems, WellFoundedInduction, TLAPS

(* What a handler behind the lock relies on: a start that the model is not *)
(* there, a stop or a status that the models it has yet to ask are, and a  *)
(* stop that was answered that the worker entered is on its way out.       *)
Relied ==
    \A r \in Request :
        /\ phase[r] = "init" => Op[r] = "start" /\ models[ModelOf[r]] = None
        /\ phase[r] \in {"send", "wait", "answered"} =>
              \A m \in todo[r] : models[m] # None /\ (Op[r] = "stop" => m = ModelOf[r])
        /\ phase[r] = "answered" /\ Op[r] = "stop" =>
              /\ models[ModelOf[r]] # None
              /\ worker[models[ModelOf[r]]] \in {"leaving", "gone"}

(* A stop in a worker's channel got there by being sent, and while it is   *)
(* waited for, that worker is the one entered for its model.               *)
StopsAddressed ==
    \A w \in Request : \A i \in DOMAIN control[w] :
        Op[control[w][i]] = "stop" =>
            /\ phase[control[w][i]] \notin {"new", "lock", "init", "send"}
            /\ phase[control[w][i]] = "wait" => models[ModelOf[control[w][i]]] = w

(* A worker that runs while another of its model leaves was added then.    *)
Overtakers ==
    \A v, w \in Request :
        worker[v] = "leaving" /\ worker[w] = "running" /\ ModelOf[v] = ModelOf[w]
            => w \in overtaken

Core == Relied /\ StopsAddressed /\ RunningCanBeStopped /\ Overtakers
           /\ ServedUnlessOvertaken /\ NoEntryOfStopped

IInv == TypeOK /\ Core

LEMMA NoneLeft == \A S : <<>> \in Seq(S) /\ DOMAIN <<>> = {} /\ Len(<<>>) = 0
OBVIOUS

LEMMA HeadTail ==
    ASSUME NEW S, NEW q \in Seq(S), q # <<>>
    PROVE  /\ 1 \in DOMAIN q /\ Head(q) = q[1] /\ Head(q) \in S
           /\ Tail(q) \in Seq(S) /\ Len(Tail(q)) = Len(q) - 1
           /\ \A i \in DOMAIN Tail(q) : i + 1 \in DOMAIN q /\ Tail(q)[i] = q[i + 1]
OBVIOUS

LEMMA Appended ==
    ASSUME NEW S, NEW q \in Seq(S), NEW e \in S
    PROVE  /\ Append(q, e) \in Seq(S) /\ Len(Append(q, e)) = Len(q) + 1
           /\ \A i \in DOMAIN Append(q, e) :
                 \/ i \in DOMAIN q /\ Append(q, e)[i] = q[i]
                 \/ Append(q, e)[i] = e
OBVIOUS

LEMMA ControlInit == Init => IInv
<1> SUFFICES ASSUME Init PROVE IInv
  OBVIOUS
<1> USE ControlAssumption
<1>1. TypeOK
  BY NoneLeft DEF Init, TypeOK, Holding
<1>2. Core
  BY NoneLeft DEF Init, Core, Relied, StopsAddressed, RunningCanBeStopped, Overtakers,
                  ServedUnlessOvertaken, NoEntryOfStopped
<1> QED
  BY <1>1, <1>2 DEF IInv

(* A step of a chat leaves all that the invariants are about alone.        *)
LEMMA ChatsOnly ==
    ASSUME IInv, UNCHANGED <<handlers, models, worker, control, store, history>>, TypeOK'
    PROVE  IInv'
BY DEF IInv, Core, Relied, StopsAddressed, RunningCanBeStopped, Overtakers,
       ServedUnlessOvertaken, NoEntryOfStopped, handlers, history

LEMMA ArriveStep ==
    ASSUME IInv, NEW r \in Request, Arrive(r)
    PROVE  IInv'
<1>1. TypeOK'
  BY DEF IInv, TypeOK, Arrive, Holding, chats, history
<1>2. Relied'
  BY DEF IInv, TypeOK, Core, Relied, Arrive
<1>3. StopsAddressed'
  BY DEF IInv, TypeOK, Core, StopsAddressed, Arrive
<1>4. RunningCanBeStopped' /\ Overtakers' /\ ServedUnlessOvertaken' /\ NoEntryOfStopped'
  BY DEF IInv, TypeOK, Core, RunningCanBeStopped, Overtakers, ServedUnlessOvertaken,
         NoEntryOfStopped, Arrive, history
<1> QED
  BY <1>1, <1>2, <1>3, <1>4 DEF IInv, Core

(* A handler that returns leaves nobody behind the lock. *)
LEMMA Returning ==
    ASSUME TypeOK, NEW r \in Request, Return(r), \A q \in Request \ {r} : phase[q] \notin Holding
    PROVE  /\ phase' \in [Request -> Holding \cup {"new", "lock", "done", "left"}] /\ lock' = None
           /\ \A q \in Request : phase'[q] \notin Holding
<1>1. phase' = [phase EXCEPT ![r] = "done"] /\ lock' = None
  BY DEF Return
<1>2. phase \in [Request -> Holding \cup {"new", "lock", "done", "left"}]
  BY DEF TypeOK
<1>3. "done" \notin Holding
  BY DEF Holding
<1> QED
  BY <1>1, <1>2, <1>3

LEMMA LockStep ==
    ASSUME IInv, NEW r \in Request, Lock(r)
    PROVE  IInv'
<1> USE ControlAssumption
<1>1. TypeOK'
  <2>1. \A q \in Request : phase[q] \notin Holding
    BY DEF IInv, TypeOK, Lock
  <2>2. CASE NothingToDo(r)
    <3>1. Return(r) /\ UNCHANGED <<todo, models, worker, control, store, faults, chats>>
      BY <2>2 DEF Lock
    <3>2. /\ phase' \in [Request -> Holding \cup {"new", "lock", "done", "left"}] /\ lock' = None
          /\ \A q \in Request : phase'[q] \notin Holding
      BY <2>1, <3>1, Returning DEF IInv
    <3> QED
      BY <3>1, <3>2 DEF IInv, TypeOK, chats
  <2>3. CASE ~NothingToDo(r)
    <3>1. todo' \in [Request -> SUBSET Model]
      <4>1. Asked(r) \in SUBSET Model
        BY DEF Asked
      <4>2. todo' = [todo EXCEPT ![r] = Asked(r)] /\ todo \in [Request -> SUBSET Model]
        BY <2>3 DEF IInv, TypeOK, Lock
      <4> QED
        BY <4>1, <4>2
    <3>2. /\ phase' \in [Request -> Holding \cup {"new", "lock", "done", "left"}]
          /\ \A q \in Request \ {r} : phase'[q] = phase[q]
      BY <2>3 DEF IInv, TypeOK, Lock, Holding
    <3> QED
      BY <2>1, <2>3, <3>1, <3>2 DEF IInv, TypeOK, Lock, chats, history
  <2> QED
    BY <2>2, <2>3
<1>2. Relied'
  BY DEF IInv, TypeOK, Core, Relied, Lock, Return, Asked, NothingToDo, Holding
<1>3. StopsAddressed'
  BY DEF IInv, TypeOK, Core, StopsAddressed, Lock, Return
<1>4. RunningCanBeStopped' /\ Overtakers' /\ ServedUnlessOvertaken' /\ NoEntryOfStopped'
  BY DEF IInv, TypeOK, Core, RunningCanBeStopped, Overtakers, ServedUnlessOvertaken,
         NoEntryOfStopped, Lock, Return, history
<1> QED
  BY <1>1, <1>2, <1>3, <1>4 DEF IInv, Core

LEMMA P2pStartStep ==
    ASSUME IInv, NEW r \in Request, P2pStart(r)
    PROVE  IInv'
<1> USE ControlAssumption
<1>0. /\ r \in Workers /\ models[ModelOf[r]] = None /\ lock = r
      /\ \A q \in Request \ {r} : phase[q] \notin Holding
  BY DEF IInv, TypeOK, Core, Relied, P2pStart, Holding, Workers
<1>1. TypeOK'
  <2>1. /\ Return(r) /\ UNCHANGED <<todo, control, store, faults, chats>>
        /\ worker' = [worker EXCEPT ![r] = "loading"] /\ models' = [models EXCEPT ![ModelOf[r]] = r]
    BY DEF P2pStart
  <2>2. /\ phase' \in [Request -> Holding \cup {"new", "lock", "done", "left"}] /\ lock' = None
        /\ \A q \in Request : phase'[q] \notin Holding
    BY <1>0, <2>1, Returning DEF IInv
  <2>3. /\ worker' \in [Request -> {"none", "loading", "running", "leaving", "gone"}]
        /\ models' \in [Model -> Workers \cup {None}]
        /\ \A m \in Model : models'[m] # None => ModelOf[models'[m]] = m
    BY <1>0, <2>1 DEF IInv, TypeOK
  <2> QED
    BY <2>1, <2>2, <2>3 DEF IInv, TypeOK, chats
<1>2. Relied'
  <2>1. Return(r)
    BY DEF P2pStart
  <2>2. \A q \in Request : phase'[q] \notin Holding
    BY <1>0, <2>1, Returning DEF IInv
  <2> QED
    BY <2>2 DEF Relied, Holding
<1>3. StopsAddressed'
  <2>1. control' = control /\ phase' = [phase EXCEPT ![r] = "done"]
    BY DEF P2pStart, Return
  <2>2. control \in [Request -> Seq(Request)]
    BY DEF IInv, TypeOK
  <2>4. \A q \in Request : phase'[q] = IF q = r THEN "done" ELSE phase[q]
    BY <2>1 DEF IInv, TypeOK
  <2>3. ASSUME NEW w \in Request, NEW i \in DOMAIN control[w], Op[control[w][i]] = "stop"
        PROVE  phase'[control[w][i]] \notin {"new", "lock", "init", "send", "wait"}
    <3>1. control[w][i] \in Request
      BY <2>2
    <3>2. phase[control[w][i]] \notin {"new", "lock", "init", "send"}
      BY <2>3 DEF IInv, Core, StopsAddressed
    <3>3. control[w][i] # r => phase[control[w][i]] # "wait"
      BY <1>0, <3>1 DEF Holding
    <3> QED
      BY <2>4, <3>1, <3>2, <3>3
  <2> QED
    BY <2>1, <2>3 DEF StopsAddressed
<1>4. RunningCanBeStopped'
  <2>1. /\ \A w \in Request \ {r} : worker'[w] = worker[w]
        /\ \A m \in Model : models'[m] = IF m = ModelOf[r] THEN r ELSE models[m]
    BY DEF IInv, TypeOK, P2pStart
  <2>2. \A w \in Request : worker[w] \in {"loading", "running"} => models[ModelOf[w]] = w
    BY DEF IInv, Core, RunningCanBeStopped
  <2>3. \A w \in Request : ModelOf[w] \in Model /\ w # None
    BY <1>0 DEF IInv, TypeOK
  <2> QED
    BY <1>0, <2>1, <2>2, <2>3 DEF RunningCanBeStopped
<1>5. Overtakers' /\ ServedUnlessOvertaken'
  BY <1>0 DEF IInv, TypeOK, Core, Overtakers, ServedUnlessOvertaken, P2pStart, history
<1>6. NoEntryOfStopped'
  BY <1>0 DEF IInv, TypeOK, Core, NoEntryOfStopped, P2pStart, Return, Holding, history
<1> QED
  BY <1>1, <1>2, <1>3, <1>4, <1>5, <1>6 DEF IInv, Core

LEMMA SendStep ==
    ASSUME IInv, NEW r \in Request, Send(r)
    PROVE  IInv'
<1> USE ControlAssumption
<1>1. PICK m \in todo[r] :
          \/ Return(r) /\ UNCHANGED <<todo, control>>
          \/ /\ Room(control[models[m]], CONTROL_CAP)
             /\ control' = [control EXCEPT ![models[m]] = Append(@, r)]
             /\ todo' = [todo EXCEPT ![r] = @ \ {m}]
             /\ phase' = [phase EXCEPT ![r] = "wait"]
             /\ UNCHANGED lock
  BY DEF Send
<1> DEFINE w == models[m]
<1>2. /\ phase[r] = "send" /\ m \in Model /\ w \in Request /\ (Op[r] = "stop" => m = ModelOf[r])
      /\ UNCHANGED <<models, worker, store, chats, faults, history>>
  BY DEF IInv, TypeOK, Core, Relied, Send, Workers
<1>3. CASE Return(r) /\ UNCHANGED <<todo, control>>
  <2>1. TypeOK'
    BY <1>2, <1>3 DEF IInv, TypeOK, Return, Holding, chats
  <2>2. Core'
    BY <1>2, <1>3 DEF IInv, TypeOK, Core, Relied, StopsAddressed, RunningCanBeStopped, Overtakers,
                      ServedUnlessOvertaken, NoEntryOfStopped, Return, history
  <2> QED
    BY <2>1, <2>2 DEF IInv
<1>4. CASE /\ Room(control[w], CONTROL_CAP)
           /\ control' = [control EXCEPT ![w] = Append(@, r)]
           /\ todo' = [todo EXCEPT ![r] = @ \ {m}]
           /\ phase' = [phase EXCEPT ![r] = "wait"]
           /\ UNCHANGED lock
  <2>1. /\ control[w] \in Seq(Request) /\ Append(control[w], r) \in Seq(Request)
        /\ Len(control[w]) \in Nat
        /\ Len(Append(control[w], r)) = Len(control[w]) + 1
        /\ \A i \in DOMAIN Append(control[w], r) :
              \/ i \in DOMAIN control[w] /\ Append(control[w], r)[i] = control[w][i]
              \/ Append(control[w], r)[i] = r
    <3>1. control[w] \in Seq(Request)
      BY <1>2 DEF IInv, TypeOK
    <3> QED
      BY <3>1, Appended
  <2>2. TypeOK'
    <3>1. control' \in [Request -> Seq(Request)] /\ \A v \in Request : Len(control'[v]) <= CONTROL_CAP
      BY <1>2, <1>4, <2>1 DEF IInv, TypeOK, Room
    <3> QED
      BY <1>2, <1>4, <3>1 DEF IInv, TypeOK, Holding, chats
  <2>3. Relied'
    BY <1>2, <1>4 DEF IInv, TypeOK, Core, Relied
  <2>4. StopsAddressed'
    <3> SUFFICES ASSUME NEW v \in Request, NEW i \in DOMAIN control'[v],
                        Op[control'[v][i]] = "stop"
                 PROVE  /\ phase'[control'[v][i]] \notin {"new", "lock", "init", "send"}
                        /\ phase'[control'[v][i]] = "wait" => models'[ModelOf[control'[v][i]]] = v
      BY DEF StopsAddressed
    <3>1. CASE i \in DOMAIN control[v] /\ control'[v][i] = control[v][i]
      <4>1. control[v][i] \in Request
        BY <3>1 DEF IInv, TypeOK
      <4>2. control[v][i] # r
        BY <1>2, <3>1 DEF IInv, Core, StopsAddressed
      <4>3. phase'[control[v][i]] = phase[control[v][i]] /\ models' = models
        BY <1>2, <1>4, <4>1, <4>2 DEF IInv, TypeOK
      <4> QED
        BY <3>1, <4>3 DEF IInv, Core, StopsAddressed
    <3>2. CASE v = w /\ control'[v][i] = r
      BY <1>2, <1>4, <3>2 DEF IInv, TypeOK
    <3> QED
      BY <1>2, <1>4, <2>1, <3>1, <3>2 DEF IInv, TypeOK
  <2>5. RunningCanBeStopped' /\ Overtakers' /\ ServedUnlessOvertaken' /\ NoEntryOfStopped'
    BY <1>2, <1>4 DEF IInv, TypeOK, Core, RunningCanBeStopped, Overtakers, ServedUnlessOvertaken,
                      NoEntryOfStopped, history
  <2> QED
    BY <2>2, <2>3, <2>4, <2>5 DEF IInv, Core
<1> QED
  BY <1>1, <1>3, <1>4

LEMMA AnsweredStep ==
    ASSUME IInv, NEW r \in Request, Answered(r)
    PROVE  IInv'
<1> USE ControlAssumption
<1>0. /\ phase[r] = "answered" /\ lock = r
      /\ \A q \in Request \ {r} : phase[q] \notin Holding
      /\ UNCHANGED <<todo, worker, control, store, chats, faults, history>>
  BY DEF IInv, TypeOK, Answered, Holding
<1>1. CASE Op[r] = "stop" /\ Stopped(ModelOf[r]) /\ Return(r)
  <2>1. TypeOK'
    BY <1>0, <1>1 DEF IInv, TypeOK, Return, Stopped, Holding, chats
  <2>2. Relied' /\ StopsAddressed'
    BY <1>0, <1>1 DEF IInv, TypeOK, Core, Relied, StopsAddressed, Return, Stopped, Holding
  <2>3. RunningCanBeStopped'
    BY <1>0, <1>1 DEF IInv, TypeOK, Core, Relied, RunningCanBeStopped, Stopped
  <2>4. Overtakers' /\ ServedUnlessOvertaken'
    BY <1>0 DEF IInv, Core, Overtakers, ServedUnlessOvertaken, history
  <2>5. NoEntryOfStopped'
    BY <1>0, <1>1 DEF IInv, TypeOK, Core, NoEntryOfStopped, Return, Stopped, history
  <2> QED
    BY <2>1, <2>2, <2>3, <2>4, <2>5 DEF IInv, Core
<1>2. CASE Op[r] = "status" /\ UNCHANGED models
  <2>1. phase' \in {[phase EXCEPT ![r] = "done"], [phase EXCEPT ![r] = "send"]}
    BY <1>2 DEF Answered, Return
  <2>2. TypeOK'
    <3>1. phase' \in [Request -> Holding \cup {"new", "lock", "done", "left"}]
      BY <2>1 DEF IInv, TypeOK, Holding
    <3>2. \A q \in Request \ {r} : phase'[q] = phase[q]
      BY <2>1 DEF IInv, TypeOK
    <3>3. /\ lock' \in Request \cup {None}
          /\ \A q \in Request : phase'[q] \in Holding => lock' = q
      <4>1. \A q \in Request \ {r} : phase[q] \notin Holding
        BY <1>0 DEF IInv, TypeOK, Holding
      <4>2. CASE Return(r)
        BY <3>2, <4>1, <4>2, Returning DEF IInv
      <4>3. CASE lock' = lock
        <5>1. lock = r
          BY <1>0 DEF IInv, TypeOK, Holding
        <5> QED
          BY <3>2, <4>1, <4>3, <5>1
      <4> QED
        BY <1>2, <4>2, <4>3 DEF Answered
    <3>4. UNCHANGED <<todo, worker, models, control, store, faults, chats>>
      BY <1>2 DEF Answered
    <3> QED
      BY <3>1, <3>3, <3>4 DEF IInv, TypeOK, chats
  <2>3. Relied'
    BY <1>0, <1>2, <2>1 DEF IInv, TypeOK, Core, Relied
  <2>6. StopsAddressed'
    BY <1>0, <1>2, <2>1 DEF IInv, TypeOK, Core, StopsAddressed
  <2>4. RunningCanBeStopped' /\ Overtakers' /\ ServedUnlessOvertaken'
    BY <1>0, <1>2 DEF IInv, Core, RunningCanBeStopped, Overtakers, ServedUnlessOvertaken, history
  <2>5. NoEntryOfStopped'
    BY <1>0, <1>2, <2>1 DEF IInv, TypeOK, Core, NoEntryOfStopped, history
  <2> QED
    BY <2>2, <2>3, <2>4, <2>5, <2>6 DEF IInv, Core
<1> QED
  BY <1>1, <1>2 DEF Answered

LEMMA BrokenStep ==
    ASSUME IInv, NEW r \in Request, Broken(r)
    PROVE  IInv'
<1>1. TypeOK'
  BY DEF IInv, TypeOK, Broken, Return, Holding, chats, history
<1>2. Relied' /\ StopsAddressed'
  BY DEF IInv, TypeOK, Core, Relied, StopsAddressed, Broken, Return
<1>3. RunningCanBeStopped' /\ Overtakers' /\ ServedUnlessOvertaken' /\ NoEntryOfStopped'
  BY DEF IInv, TypeOK, Core, RunningCanBeStopped, Overtakers, ServedUnlessOvertaken,
         NoEntryOfStopped, Broken, Return, history
<1> QED
  BY <1>1, <1>2, <1>3 DEF IInv, Core

LEMMA ClientLeavesStep ==
    ASSUME IInv, NEW r \in Request, ClientLeaves(r)
    PROVE  IInv'
<1> USE ControlAssumption
<1>1. TypeOK'
  BY DEF IInv, TypeOK, ClientLeaves, Holding, chats
<1>2. Relied' /\ StopsAddressed'
  BY DEF IInv, TypeOK, Core, Relied, StopsAddressed, ClientLeaves
<1>3. RunningCanBeStopped' /\ Overtakers' /\ ServedUnlessOvertaken'
  BY DEF IInv, TypeOK, Core, RunningCanBeStopped, Overtakers, ServedUnlessOvertaken, ClientLeaves
<1>4. NoEntryOfStopped'
  BY DEF IInv, TypeOK, Core, NoEntryOfStopped, ClientLeaves
<1> QED
  BY <1>1, <1>2, <1>3, <1>4 DEF IInv, Core

-----------------------------------------------------------------------------
(* The end of a worker: its channel is emptied, and those that wait for it *)
(* are told.  What handlers rely on is not touched.                        *)
LEMMA GoneStep ==
    ASSUME IInv, NEW w \in Workers, Gone(w), worker[w] # "none",
           UNCHANGED <<lock, todo, models, queue, sending>>
    PROVE  /\ phase' \in [Request -> Holding \cup {"new", "lock", "done", "left"}]
           /\ \A r \in Request : \/ phase'[r] = phase[r]
                                 \/ phase[r] = "wait" /\ phase'[r] = "broken"
           /\ worker' \in [Request -> {"none", "loading", "running", "leaving", "gone"}]
           /\ control' \in [Request -> Seq(Request)] /\ chat_rx' \in [Request -> Seq(Chat)]
           /\ \A v \in Request : Len(control'[v]) <= CONTROL_CAP /\ Len(chat_rx'[v]) <= 1
           /\ chat' \in [Chat -> {"new", "queued", "run", "dropped"}]
           /\ Relied' /\ StopsAddressed'
<1> USE ControlAssumption
<1>0. w \in Request
  BY DEF Workers
<1>1. /\ phase' \in [Request -> Holding \cup {"new", "lock", "done", "left"}]
      /\ \A r \in Request : \/ phase'[r] = phase[r]
                            \/ phase[r] = "wait" /\ phase'[r] = "broken"
  BY DEF IInv, TypeOK, Gone, Holding
<1>2. /\ worker' \in [Request -> {"none", "loading", "running", "leaving", "gone"}]
      /\ \A v \in Request : worker'[v] = IF v = w THEN "gone" ELSE worker[v]
  BY <1>0 DEF IInv, TypeOK, Gone
<1>3. /\ control' \in [Request -> Seq(Request)]
      /\ chat_rx' \in [Request -> Seq(Chat)]
      /\ \A v \in Request : Len(control'[v]) <= CONTROL_CAP /\ Len(chat_rx'[v]) <= 1
  BY <1>0, NoneLeft DEF IInv, TypeOK, Gone
<1>4. chat' \in [Chat -> {"new", "queued", "run", "dropped"}]
  BY DEF IInv, TypeOK, Gone
<1>5. Relied'
  BY <1>1, <1>2 DEF IInv, TypeOK, Core, Relied, Workers
<1>6. StopsAddressed'
  <2> SUFFICES ASSUME NEW v \in Request, NEW i \in DOMAIN control'[v],
                      Op[control'[v][i]] = "stop"
               PROVE  /\ phase'[control'[v][i]] \notin {"new", "lock", "init", "send"}
                      /\ phase'[control'[v][i]] = "wait" => models'[ModelOf[control'[v][i]]] = v
    BY DEF StopsAddressed
  <2>1. v # w /\ control'[v] = control[v]
    BY <1>0, NoneLeft DEF IInv, TypeOK, Gone
  <2>2. control[v][i] \in Request
    BY <2>1 DEF IInv, TypeOK
  <2> QED
    BY <1>1, <2>1, <2>2 DEF IInv, Core, StopsAddressed
<1> QED
  BY <1>1, <1>2, <1>3, <1>4, <1>5, <1>6

(* A worker that ends by failing. *)
LEMMA FailedStep ==
    ASSUME IInv, NEW w \in Workers, Gone(w), worker[w] \in {"loading", "running"},
           failed' = failed \cup {w}, faults' \in 0 .. MaxFaults,
           UNCHANGED <<lock, todo, models, store, queue, sending, overtaken>>
    PROVE  IInv'
<1> USE ControlAssumption
<1>0. w \in Request /\ \A v \in Request : worker'[v] = IF v = w THEN "gone" ELSE worker[v]
  BY DEF Workers, IInv, TypeOK, Gone
<1>1. TypeOK'
  BY GoneStep DEF IInv, TypeOK, Holding
<1>2. Relied' /\ StopsAddressed'
  BY GoneStep
<1>3. RunningCanBeStopped' /\ Overtakers' /\ ServedUnlessOvertaken'
  BY <1>0 DEF IInv, TypeOK, Core, RunningCanBeStopped, Overtakers, ServedUnlessOvertaken
<1>4. NoEntryOfStopped'
  <2>1. \A r \in Request : phase[r] = "answered" => phase'[r] = "answered"
    BY GoneStep
  <2> QED
    BY <1>0, <2>1 DEF IInv, TypeOK, Core, NoEntryOfStopped, Workers
<1> QED
  BY <1>1, <1>2, <1>3, <1>4 DEF IInv, Core

LEMMA CrashStep ==
    ASSUME IInv, NEW w \in Workers, Crash(w)
    PROVE  IInv'
<1>1. faults' \in 0 .. MaxFaults
  BY ControlAssumption DEF IInv, TypeOK, Crash
<1> QED
  BY <1>1, FailedStep DEF Crash

LEMMA FinishedStep ==
    ASSUME IInv, NEW w \in Workers, Finished(w)
    PROVE  IInv'
<1> USE ControlAssumption
<1>0. /\ w \in Request /\ \A v \in Request : worker'[v] = IF v = w THEN "gone" ELSE worker[v]
      /\ worker[w] = "leaving" /\ Gone(w)
      /\ UNCHANGED <<lock, todo, models, queue, sending, faults, history>>
      /\ store' = [store EXCEPT ![ModelOf[w]] = None]
  BY DEF Workers, IInv, TypeOK, Gone, Finished, RemoveModel
<1>1. TypeOK'
  BY <1>0, GoneStep DEF IInv, TypeOK, Holding
<1>2. Relied' /\ StopsAddressed'
  BY <1>0, GoneStep
<1>3. RunningCanBeStopped' /\ Overtakers'
  BY <1>0 DEF IInv, TypeOK, Core, RunningCanBeStopped, Overtakers, history
<1>4. ServedUnlessOvertaken'
  BY <1>0 DEF IInv, TypeOK, Core, Overtakers, ServedUnlessOvertaken, history
<1>5. NoEntryOfStopped'
  <2>1. \A r \in Request : phase[r] = "answered" => phase'[r] = "answered"
    BY <1>0, GoneStep
  <2> QED
    BY <1>0, <2>1 DEF IInv, TypeOK, Core, NoEntryOfStopped, Workers, history
<1> QED
  BY <1>1, <1>2, <1>3, <1>4, <1>5 DEF IInv, Core

LEMMA LoadStep ==
    ASSUME IInv, NEW w \in Workers, Load(w)
    PROVE  IInv'
<1> USE ControlAssumption
<1>0. w \in Request /\ \A v \in Request : worker'[v] = IF v = w THEN "running" ELSE worker[v]
  BY DEF Workers, IInv, TypeOK, Load
<1>1. TypeOK'
  <2>1. /\ store' \in [Model -> Workers \cup {None}]
        /\ \A m \in Model : store'[m] # None => ModelOf[store'[m]] = m
    <3>1. store' = [store EXCEPT ![ModelOf[w]] = w] /\ ModelOf[w] \in Model
      BY <1>0 DEF Load, AddModel
    <3>2. /\ store \in [Model -> Workers \cup {None}]
          /\ \A m \in Model : store[m] # None => ModelOf[store[m]] = m
      BY DEF IInv, TypeOK
    <3>3. \A m \in Model : store'[m] = IF m = ModelOf[w] THEN w ELSE store[m]
      BY <3>1, <3>2
    <3>4. store' \in [Model -> Workers \cup {None}]
      BY <3>1, <3>2
    <3> QED
      BY <3>2, <3>3, <3>4
  <2>2. worker' \in [Request -> {"none", "loading", "running", "leaving", "gone"}]
    BY <1>0 DEF IInv, TypeOK, Load
  <2> QED
    BY <2>1, <2>2 DEF IInv, TypeOK, Load, handlers, chats
<1>2. Relied' /\ StopsAddressed'
  BY <1>0 DEF IInv, TypeOK, Core, Relied, StopsAddressed, Load, handlers, Workers
<1>3. RunningCanBeStopped'
  BY <1>0 DEF IInv, TypeOK, Core, RunningCanBeStopped, Load
<1>4. Overtakers'
  BY <1>0 DEF IInv, TypeOK, Core, Overtakers, Load
<1>5. ServedUnlessOvertaken'
  <2> SUFFICES ASSUME NEW v \in Request, worker'[v] = "running", v \notin overtaken'
               PROVE  store'[ModelOf[v]] = v
    BY DEF ServedUnlessOvertaken
  <2>1. store' = [store EXCEPT ![ModelOf[w]] = w] /\ worker[w] = "loading"
    BY DEF Load, AddModel
  <2>2. CASE v = w
    BY <1>0, <2>1, <2>2 DEF IInv, TypeOK
  <2>3. CASE v # w
    <3>1. worker[v] = "running" /\ v \notin overtaken
      BY <1>0, <2>3 DEF Load
    <3>2. ModelOf[v] # ModelOf[w]
      BY <1>0, <2>1, <2>3, <3>1 DEF IInv, Core, RunningCanBeStopped
    <3> QED
      BY <2>1, <3>1, <3>2 DEF IInv, TypeOK, Core, ServedUnlessOvertaken
  <2> QED
    BY <2>2, <2>3
<1>6. NoEntryOfStopped'
  BY <1>0 DEF IInv, TypeOK, Core, NoEntryOfStopped, Load, AddModel, handlers, Workers
<1> QED
  BY <1>1, <1>2, <1>3, <1>4, <1>5, <1>6 DEF IInv, Core

LEMMA LeavingStep ==
    ASSUME IInv, NEW w \in Workers, Leaving(w), faults' \in 0 .. MaxFaults
    PROVE  IInv'
<1> USE ControlAssumption
<1>0. w \in Request /\ \A v \in Request : worker'[v] = IF v = w THEN "leaving" ELSE worker[v]
  BY DEF Workers, IInv, TypeOK, Leaving
<1>1. TypeOK'
  BY <1>0 DEF IInv, TypeOK, Leaving, handlers, chats
<1>2. Relied' /\ StopsAddressed'
  BY <1>0 DEF IInv, TypeOK, Core, Relied, StopsAddressed, Leaving, handlers, Workers
<1>3. RunningCanBeStopped' /\ ServedUnlessOvertaken'
  BY <1>0 DEF IInv, TypeOK, Core, RunningCanBeStopped, ServedUnlessOvertaken, Leaving
<1>4. Overtakers'
  BY <1>0 DEF IInv, TypeOK, Core, Overtakers, RunningCanBeStopped, Leaving
<1>5. NoEntryOfStopped'
  BY <1>0 DEF IInv, TypeOK, Core, NoEntryOfStopped, Leaving, handlers, Workers
<1> QED
  BY <1>1, <1>2, <1>3, <1>4, <1>5 DEF IInv, Core

LEMMA OnControlStep ==
    ASSUME IInv, NEW w \in Workers, OnControl(w)
    PROVE  IInv'
<1> USE ControlAssumption
<1> DEFINE r == Head(control[w])
<1>0. /\ w \in Request /\ worker[w] = "running" /\ control[w] \in Seq(Request) /\ control[w] # <<>>
      /\ UNCHANGED <<lock, todo, models, store, queue, sending, faults, overtaken>>
  BY DEF Workers, IInv, TypeOK, OnControl
<1>1. /\ 1 \in DOMAIN control[w] /\ r = control[w][1] /\ r \in Request
      /\ Tail(control[w]) \in Seq(Request) /\ Len(Tail(control[w])) = Len(control[w]) - 1
      /\ \A i \in DOMAIN Tail(control[w]) :
            i + 1 \in DOMAIN control[w] /\ Tail(control[w])[i] = control[w][i + 1]
  BY <1>0, HeadTail
<1>2. CASE phase[r] # "wait"
  <2>1. Gone(w) /\ failed' = failed \cup {w} /\ faults' \in 0 .. MaxFaults
    BY <1>2, <1>0 DEF OnControl, IInv, TypeOK
  <2> QED
    BY <1>0, <2>1, FailedStep
<1>3. CASE phase[r] = "wait"
  <2>0. /\ control' = [control EXCEPT ![w] = Tail(@)]
        /\ phase' = [phase EXCEPT ![r] = "answered"]
        /\ worker' = [worker EXCEPT ![w] = IF Op[r] = "stop" THEN "leaving" ELSE @]
        /\ UNCHANGED <<chat, chat_rx, failed>>
    BY <1>3 DEF OnControl
  <2>1. /\ Op[r] = "stop" => models[ModelOf[r]] = w
        /\ lock = r /\ models[ModelOf[w]] = w
    BY <1>0, <1>1, <1>3 DEF IInv, TypeOK, Core, StopsAddressed, RunningCanBeStopped, Holding
  <2> HIDE DEF r
  <2>2. TypeOK'
    <3>1. /\ control' \in [Request -> Seq(Request)]
          /\ \A v \in Request : Len(control'[v]) <= CONTROL_CAP
      BY <1>0, <1>1, <2>0 DEF IInv, TypeOK
    <3> QED
      BY <1>0, <1>1, <2>0, <2>1, <3>1 DEF IInv, TypeOK, Holding
  <2>3. \A v \in Request : worker'[v] = IF v = w /\ Op[r] = "stop" THEN "leaving" ELSE worker[v]
    BY <1>0, <2>0 DEF IInv, TypeOK
  <2>4. Relied'
    BY <1>0, <1>1, <1>3, <2>0, <2>1, <2>3 DEF IInv, TypeOK, Core, Relied, Workers
  <2>5. StopsAddressed'
    <3> SUFFICES ASSUME NEW v \in Request, NEW i \in DOMAIN control'[v],
                        Op[control'[v][i]] = "stop"
                 PROVE  /\ phase'[control'[v][i]] \notin {"new", "lock", "init", "send"}
                        /\ phase'[control'[v][i]] = "wait" => models'[ModelOf[control'[v][i]]] = v
      BY DEF StopsAddressed
    <3>1. PICK j \in DOMAIN control[v] : control'[v][i] = control[v][j]
      <4>1. CASE v = w
        BY <4>1, <1>0, <1>1, <2>0 DEF IInv, TypeOK
      <4>2. CASE v # w
        BY <4>2, <1>0, <2>0 DEF IInv, TypeOK
      <4> QED
        BY <4>1, <4>2
    <3>2. control[v][j] \in Request
      BY DEF IInv, TypeOK
    <3> QED
      <4>1. phase'[control[v][j]] \in {phase[control[v][j]], "answered"}
        BY <2>0, <3>2 DEF IInv, TypeOK
      <4> QED
        BY <1>0, <3>1, <4>1 DEF IInv, Core, StopsAddressed
  <2>6. RunningCanBeStopped' /\ ServedUnlessOvertaken'
    BY <1>0, <2>3 DEF IInv, Core, RunningCanBeStopped, ServedUnlessOvertaken
  <2>7. Overtakers'
    BY <1>0, <2>1, <2>3 DEF IInv, Core, Overtakers, RunningCanBeStopped
  <2>8. NoEntryOfStopped'
    <3>1. \A q \in Request : phase[q] = "answered" => phase'[q] = "answered"
      BY <1>1, <2>0 DEF IInv, TypeOK
    <3>2. phase'[r] = "answered" /\ (Op[r] = "stop" => ModelOf[r] = ModelOf[w])
      BY <1>0, <1>1, <2>0, <2>1 DEF IInv, TypeOK
    <3>3. NoEntryOfStopped
      BY DEF IInv, Core
    <3> QED
      BY <1>0, <1>1, <2>0, <2>3, <3>1, <3>2, <3>3 DEF IInv, TypeOK, NoEntryOfStopped, Workers
  <2> QED
    BY <2>2, <2>4, <2>5, <2>6, <2>7, <2>8 DEF IInv, Core
<1> QED
  BY <1>2, <1>3

-----------------------------------------------------------------------------
LEMMA OnChatStep ==
    ASSUME IInv, NEW w \in Workers, OnChat(w)
    PROVE  IInv'
<1>1. w \in Request /\ chat_rx[w] \in Seq(Chat) /\ chat_rx[w] # <<>> /\ Len(chat_rx[w]) <= 1
  BY DEF IInv, TypeOK, OnChat, Workers
<1>2. /\ Head(chat_rx[w]) \in Chat /\ Tail(chat_rx[w]) \in Seq(Chat)
      /\ Len(Tail(chat_rx[w])) <= 1
  BY <1>1, HeadTail
<1>3. /\ chat_rx' \in [Request -> Seq(Chat)] /\ \A v \in Request : Len(chat_rx'[v]) <= 1
      /\ chat' \in [Chat -> {"new", "queued", "run", "dropped"}]
  BY <1>1, <1>2 DEF IInv, TypeOK, OnChat
<1>4. TypeOK'
  BY <1>3 DEF IInv, TypeOK, OnChat, handlers
<1> QED
  BY <1>4, ChatsOnly DEF OnChat

LEMMA ChatCompletionsStep ==
    ASSUME IInv, NEW c \in Chat, ChatCompletions(c)
    PROVE  IInv'
<1>1. /\ queue' \in Seq(Chat) /\ Len(queue') <= CHAT_CAP
      /\ chat' \in [Chat -> {"new", "queued", "run", "dropped"}]
  BY ControlAssumption DEF IInv, TypeOK, ChatCompletions, Room
<1>2. TypeOK'
  BY <1>1 DEF IInv, TypeOK, ChatCompletions, handlers
<1> QED
  BY <1>2, ChatsOnly DEF ChatCompletions

LEMMA DispatchStep ==
    ASSUME IInv, Dispatch
    PROVE  IInv'
<1> DEFINE c == Head(queue)
           w == store[ChatModel[c]]
<1>1. c \in Chat /\ queue' \in Seq(Chat) /\ Len(queue') <= CHAT_CAP
  BY HeadTail, ControlAssumption DEF IInv, TypeOK, Dispatch
<1>2. w \in Workers \cup {None}
  BY <1>1, ControlAssumption DEF IInv, TypeOK
<1>3. \/ w = None /\ chat' = [chat EXCEPT ![c] = "dropped"] /\ UNCHANGED sending
      \/ w # None /\ sending' = [chat |-> c, to |-> w] /\ UNCHANGED chat
  BY DEF Dispatch
<1> HIDE DEF c, w
<1>4. /\ chat' \in [Chat -> {"new", "queued", "run", "dropped"}]
      /\ sending' \in [chat : Chat, to : Workers] \cup {None}
  <2>1. /\ chat \in [Chat -> {"new", "queued", "run", "dropped"}]
        /\ sending \in [chat : Chat, to : Workers] \cup {None}
    BY DEF IInv, TypeOK
  <2>2. CASE w = None
    BY <1>1, <1>3, <2>1, <2>2
  <2>3. CASE w # None
    <3>1. sending' = [chat |-> c, to |-> w] /\ chat' = chat
      BY <1>3, <2>3
    <3>2. [chat |-> c, to |-> w] \in [chat : Chat, to : Workers]
      BY <1>1, <1>2, <2>3
    <3> QED
      BY <2>1, <3>1, <3>2
  <2> QED
    BY <2>2, <2>3
<1>5. TypeOK'
  BY <1>1, <1>4 DEF IInv, TypeOK, Dispatch, handlers
<1> QED
  BY <1>5, ChatsOnly DEF Dispatch

LEMMA SendModelStep ==
    ASSUME IInv, SendModel
    PROVE  IInv'
<1> DEFINE w == sending.to
           c == sending.chat
<1>1. w \in Request /\ c \in Chat /\ chat_rx[w] \in Seq(Chat)
  BY DEF IInv, TypeOK, SendModel, Workers
<1>2. /\ chat' \in [Chat -> {"new", "queued", "run", "dropped"}] /\ sending' = None
      /\ \/ UNCHANGED chat_rx
         \/ Len(chat_rx[w]) < 1 /\ chat_rx' = [chat_rx EXCEPT ![w] = Append(@, c)]
  <2>0. chat \in [Chat -> {"new", "queued", "run", "dropped"}]
    BY DEF IInv, TypeOK
  <2>1. CASE SendFails(c) /\ UNCHANGED chat_rx
    BY <1>1, <2>0, <2>1 DEF SendFails
  <2>2. CASE /\ Room(chat_rx[w], 1) /\ chat_rx' = [chat_rx EXCEPT ![w] = Append(@, c)]
             /\ sending' = None /\ UNCHANGED chat
    BY <2>0, <2>2 DEF Room
  <2> QED
    BY <2>1, <2>2 DEF SendModel
<1>3. chat_rx' \in [Request -> Seq(Chat)] /\ \A v \in Request : Len(chat_rx'[v]) <= 1
  <2>1. Append(chat_rx[w], c) \in Seq(Chat) /\ Len(Append(chat_rx[w], c)) = Len(chat_rx[w]) + 1
    BY <1>1, Appended
  <2>2. Len(chat_rx[w]) \in Nat
    BY <1>1
  <2>3. chat_rx \in [Request -> Seq(Chat)] /\ \A v \in Request : Len(chat_rx[v]) <= 1
    BY DEF IInv, TypeOK
  <2> HIDE DEF w, c
  <2>4. CASE UNCHANGED chat_rx
    BY <2>3, <2>4
  <2>5. CASE Len(chat_rx[w]) < 1 /\ chat_rx' = [chat_rx EXCEPT ![w] = Append(@, c)]
    <3>1. \A v \in Request : chat_rx'[v] = IF v = w THEN Append(chat_rx[w], c) ELSE chat_rx[v]
      BY <1>1, <2>3, <2>5
    <3>2. chat_rx' \in [Request -> Seq(Chat)]
      BY <1>1, <2>1, <2>3, <2>5
    <3>3. Len(Append(chat_rx[w], c)) <= 1
      BY <2>1, <2>2, <2>5
    <3> QED
      BY <2>3, <3>1, <3>2, <3>3
  <2> QED
    BY <1>2, <2>4, <2>5
<1>4. TypeOK'
  BY <1>2, <1>3 DEF IInv, TypeOK, SendModel, handlers
<1> QED
  BY <1>4, ChatsOnly DEF SendModel

-----------------------------------------------------------------------------
(* The inductive invariant behind the results below. *)
THEOREM ControlInvariant == Spec => []IInv
<1>1. Init => IInv
  BY ControlInit
<1>2. IInv /\ [Next]_vars => IInv'
  <2> SUFFICES ASSUME IInv, [Next]_vars PROVE IInv'
    OBVIOUS
  <2>1. ASSUME NEW r \in Request, Arrive(r) \/ Handle(r) \/ ClientLeaves(r) PROVE IInv'
    BY <2>1, ArriveStep, LockStep, P2pStartStep, SendStep, AnsweredStep, BrokenStep,
       ClientLeavesStep DEF Handle
  <2>2. ASSUME NEW w \in Workers, Work(w) \/ Closed(w) \/ Crash(w) PROVE IInv'
    <3>1. CASE Load(w) \/ OnControl(w) \/ OnChat(w) \/ Finished(w) \/ Crash(w)
      BY <3>1, LoadStep, OnControlStep, OnChatStep, FinishedStep, CrashStep
    <3>2. CASE ChatClosed(w) \/ Closed(w)
      <4>1. Leaving(w) /\ faults' \in 0 .. MaxFaults
        BY <3>2, ControlAssumption DEF IInv, TypeOK, ChatClosed, Closed
      <4> QED
        BY <4>1, LeavingStep
    <3> QED
      BY <2>2, <3>1, <3>2 DEF Work
  <2>3. ASSUME NEW c \in Chat, ChatCompletions(c) PROVE IInv'
    BY <2>3, ChatCompletionsStep
  <2>4. CASE Dispatcher
    BY <2>4, DispatchStep, SendModelStep DEF Dispatcher
  <2>5. CASE UNCHANGED vars
    <3>1. TypeOK'
      BY <2>5 DEF IInv, TypeOK, vars
    <3> QED
      BY <2>5, <3>1, ChatsOnly DEF vars, handlers, history
  <2> QED
    BY <2>1, <2>2, <2>3, <2>4, <2>5 DEF Next
<1> QED
  BY <1>1, <1>2, PTL DEF Spec

(* Whatever starts, stops and clients that leave interleave, a model has   *)
(* at most one worker that loads or runs, and a stop reaches it.           *)
THEOREM ControlRunningCanBeStopped == Spec => []RunningCanBeStopped
<1>1. IInv => RunningCanBeStopped
  BY DEF IInv, Core
<1> QED
  BY <1>1, ControlInvariant, PTL

(* A worker that runs is the one ModelStore leads to, unless it was added  *)
(* while its predecessor had yet to leave.                                 *)
THEOREM ControlServedUnlessOvertaken == Spec => []ServedUnlessOvertaken
<1>1. IInv => ServedUnlessOvertaken
  BY DEF IInv, Core
<1> QED
  BY <1>1, ControlInvariant, PTL

(* Entries of workers that are gone are those of workers that failed or    *)
(* whose stop was abandoned, and no others.                                *)
THEOREM ControlNoEntryOfStopped == Spec => []NoEntryOfStopped
<1>1. IInv => NoEntryOfStopped
  BY DEF IInv, Core
<1> QED
  BY <1>1, ControlInvariant, PTL

-----------------------------------------------------------------------------
(* Which layers p2p_suggest_layers tells a contributor to serve, and what  *)
(* the registry's answers say of a model, for any workers, layers and      *)
(* offers (LayerPlacement).                                                *)

Served == {l \in Layers : \E n \in Reported : l \in Range0(nodes[n])}

Gaps == Layers \ Served

(* What a worker has to bring to hold every layer nobody serves. *)
HoldsGaps(k) == \A i, j \in Gaps : i - j + 1 <= k

Types ==
    /\ DOMAIN nodes \subseteq Node
    /\ \A n \in DOMAIN nodes : nodes[n] \in Ranges \cup {Nothing}
    /\ suggestion = [n \in Contributors |-> suggestion[n]]
    /\ promise \in [Contributors -> Nat \cup {Nothing}]

(* A promise, while it stands, is enough for the gaps there are now. *)
Promises ==
    \A n \in Contributors : promise[n] # Nothing => \A i, j \in Gaps : i - j + 1 <= promise[n]

PlacementIInv == Types /\ Promises

-----------------------------------------------------------------------------
(* The least and the greatest of a bounded set of numbers.                 *)

LEMMA LeastOf ==
    ASSUME NEW S \in SUBSET Nat, S # {}
    PROVE  \E x \in S : \A y \in S : x <= y
<1>1. PICK x \in S : \A y \in S : <<y, x>> \notin OpToRel(<, Nat)
  BY NatLessThanWellFounded, WFMin
<1>2. \A y \in S : ~(y < x)
  BY <1>1, Zenon DEF OpToRel
<1>3. \A y \in S : x <= y
  BY <1>2
<1> QED
  BY <1>3

LEMMA MinOf ==
    ASSUME NEW S \in SUBSET Nat, S # {}
    PROVE  Min(S) \in S /\ \A y \in S : Min(S) <= y
BY LeastOf DEF Min

LEMMA MaxOf ==
    ASSUME NEW b \in Nat, NEW S \in SUBSET (0 .. b), S # {}
    PROVE  Max(S) \in S /\ \A y \in S : Max(S) >= y
<1> DEFINE T == {b - x : x \in S}
<1>1. T \in SUBSET Nat /\ T # {}
  <2>1. PICK x \in S : TRUE
    OBVIOUS
  <2>2. b - x \in T
    OBVIOUS
  <2> QED
    BY <2>2
<1>2. PICK t \in T : \A u \in T : t <= u
  BY <1>1, LeastOf
<1>3. PICK x \in S : t = b - x
  BY <1>2
<1>4. \A y \in S : x >= y
  <2> TAKE y \in S
  <2>1. b - x <= b - y
    BY <1>2, <1>3
  <2> QED
    BY <2>1
<1> QED
  BY <1>4 DEF Max

-----------------------------------------------------------------------------
(* The distribution.                                                       *)

LEMMA CountZero ==
    ASSUME Types, NEW l \in Layers
    PROVE  Count(l) \in Nat /\ (Count(l) = 0 <=> l \in Gaps) /\ (Count(l) > 0 <=> l \in Served)
<1> DEFINE S == {n \in Reported : l \in Range0(nodes[n])}
<1>1. IsFiniteSet(S)
  BY PlacementAssumption, FS_Subset DEF Types, Reported
<1>2. Cardinality(S) \in Nat /\ (Cardinality(S) = 0 <=> S = {})
  BY <1>1, FS_CardinalityType, FS_EmptySet
<1>3. S # {} <=> l \in Served
  BY DEF Served
<1> QED
  BY <1>2, <1>3 DEF Count, Gaps

LEMMA PadIsCount ==
    ASSUME Types
    PROVE  /\ DOMAIN Pad(GetDistribution) = Layers
           /\ \A l \in Layers : Pad(GetDistribution)[l] = Count(l)
<1> DEFINE ends == {0} \cup {nodes[n].end : n \in Reported}
           last == Max(ends)
           dist == [l \in 0 .. last - 1 |-> Count(l)]
<1>1. \A n \in Reported : nodes[n] \in Ranges
  BY DEF Types, Reported
<1>2. ends \in SUBSET (0 .. MODEL_LAYERS) /\ ends # {}
  BY <1>1, PlacementAssumption DEF Ranges
<1>3. last \in 0 .. MODEL_LAYERS /\ \A e \in ends : last >= e
  BY <1>2, MaxOf, PlacementAssumption
<1>4. GetDistribution = dist
  BY DEF GetDistribution
<1>5. ASSUME NEW l \in Layers, l \notin 0 .. last - 1 PROVE Count(l) = 0
  <2>1. l >= last
    BY <1>3, <1>5, PlacementAssumption DEF Layers
  <2>2. \A n \in Reported : l \notin Range0(nodes[n])
    BY <1>1, <1>3, <2>1, PlacementAssumption DEF Range0, Ranges, Layers
  <2>3. l \in Gaps
    BY <2>2 DEF Gaps, Served
  <2> QED
    BY <2>3, CountZero
<1> HIDE DEF last
<1>6. DOMAIN dist \cup Layers = Layers
  BY <1>3, PlacementAssumption DEF Layers
<1>7. \A l \in Layers : (IF l \in DOMAIN dist THEN dist[l] ELSE 0) = Count(l)
  BY <1>5
<1> QED
  BY <1>4, <1>6, <1>7 DEF Pad

-----------------------------------------------------------------------------
(* Whether select_layers turns a contributor away.                         *)

LEMMA Answer ==
    ASSUME Types, NEW k \in Int
    PROVE  LET res == SelectLayers(Pad(GetDistribution), k)
           IN  /\ IsShort(res) <=> ~HoldsGaps(k)
               /\ IsShort(res) => res.min_layers \in Nat /\ HoldsGaps(res.min_layers)
<1> DEFINE dist == Pad(GetDistribution)
           gaps == {l \in DOMAIN dist : dist[l] = 0}
           sums == SumInWindow(dist, k)
           least == {i \in DOMAIN sums : \A j \in DOMAIN sums : sums[i] <= sums[j]}
           min_layers == Max(gaps) - Min(gaps) + 1
           len == Cardinality(DOMAIN dist)
<1>1. gaps = Gaps
  BY PadIsCount, CountZero DEF Gaps
<1>2. gaps # {} => /\ min_layers \in Nat
                   /\ \A q \in Int : min_layers <= q <=> HoldsGaps(q)
  <2> SUFFICES ASSUME gaps # {}
               PROVE  min_layers \in Nat /\ \A q \in Int : min_layers <= q <=> HoldsGaps(q)
    OBVIOUS
  <2>1. gaps \in SUBSET (0 .. MODEL_LAYERS) /\ gaps \in SUBSET Nat
    BY <1>1, PlacementAssumption DEF Gaps, Layers
  <2>2. /\ Max(gaps) \in gaps /\ \A y \in gaps : Max(gaps) >= y
        /\ Min(gaps) \in gaps /\ \A y \in gaps : Min(gaps) <= y
    BY <2>1, MaxOf, MinOf, PlacementAssumption
  <2> DEFINE hi == Max(gaps)
             lo == Min(gaps)
  <2> HIDE DEF gaps, hi, lo
  <2>3. hi \in Nat /\ lo \in Nat /\ lo <= hi /\ min_layers = hi - lo + 1
    BY <2>1, <2>2 DEF hi, lo
  <2>4. ASSUME NEW q \in Int, hi - lo + 1 <= q, NEW i \in gaps, NEW j \in gaps
        PROVE  i - j + 1 <= q
    <3>1. i \in Nat /\ j \in Nat /\ i <= hi /\ lo <= j
      BY <2>1, <2>2 DEF hi, lo
    <3> QED
      BY <2>3, <2>4, <3>1
  <2>5. ASSUME NEW q \in Int, \A i, j \in gaps : i - j + 1 <= q
        PROVE  hi - lo + 1 <= q
    BY <2>2, <2>5 DEF hi, lo
  <2> QED
    BY <1>1, <2>3, <2>4, <2>5 DEF HoldsGaps
<1>0. gaps = {} => HoldsGaps(k)
  BY <1>1 DEF HoldsGaps
<1> HIDE DEF dist, gaps, sums, least, min_layers, len
<1>3. SelectLayers(dist, k) =
         IF gaps # {} /\ min_layers > k THEN NotEnough(min_layers)
         ELSE IF RoomForAll(len, k) THEN Enough(0, len)
         ELSE IF ~(k > 0 /\ k < len) THEN Panic
         ELSE Enough(Min(least), Min(least) + k)
  BY DEF SelectLayers, dist, gaps, sums, least, min_layers, len
<1>4. gaps # {} => IsShort(NotEnough(min_layers)) /\ NotEnough(min_layers).min_layers = min_layers
  BY <1>2 DEF IsShort, NotEnough
<1>5. \A s, e : ~IsShort(Enough(s, e))
  BY DEF IsShort, Enough
<1>6. ~IsShort(Panic)
  BY NothingAssumption DEF IsShort
<1>7. CASE gaps # {} /\ min_layers > k
  <2>1. SelectLayers(dist, k) = NotEnough(min_layers)
    BY <1>3, <1>7
  <2>2. ~HoldsGaps(k) /\ HoldsGaps(min_layers)
    BY <1>2, <1>7
  <2> QED
    BY <1>2, <1>4, <1>7, <2>1, <2>2 DEF dist
<1>8. CASE ~(gaps # {} /\ min_layers > k)
  <2>1. ~IsShort(SelectLayers(dist, k))
    BY <1>3, <1>5, <1>6, <1>8
  <2>2. HoldsGaps(k)
    BY <1>0, <1>2, <1>8
  <2> QED
    BY <2>1, <2>2 DEF dist
<1> QED
  BY <1>7, <1>8

-----------------------------------------------------------------------------
(* Steps.                                                                  *)

LEMMA InitIInv == PlacementInit => PlacementIInv
<1> SUFFICES ASSUME PlacementInit PROVE PlacementIInv
  OBVIOUS
<1>1. Types
  BY DEF PlacementInit, NoPromises, Types
<1>2. Promises
  BY DEF PlacementInit, NoPromises, Promises
<1> QED
  BY <1>1, <1>2 DEF PlacementIInv

(* A worker's entry goes or is emptied: whoever was promised something     *)
(* keeps it only if the worker served nothing.                             *)
LEMMA EntryGoes ==
    ASSUME PlacementIInv, NEW n \in Node, Start(n) \/ End(n)
    PROVE  PlacementIInv'
<1>1. Types'
  BY DEF PlacementIInv, Types, Start, End, NoPromises
<1>2. CASE n \in Reported
  BY <1>1, <1>2 DEF PlacementIInv, Promises, Start, End, NoPromises
<1>3. CASE n \notin Reported
  <2>1. \A m \in Reported : m \in Reported' /\ nodes'[m] = nodes[m]
    BY <1>3 DEF Reported, Start, End
  <2>2. Gaps' \subseteq Gaps
    BY <2>1 DEF Gaps, Served
  <2>3. UNCHANGED promise
    BY <1>3 DEF Start, End
  <2> QED
    BY <1>1, <2>2, <2>3 DEF PlacementIInv, Promises
<1> QED
  BY <1>1, <1>2, <1>3 DEF PlacementIInv

LEMMA ReportStep ==
    ASSUME PlacementIInv, NEW n \in Node, NEW r \in Ranges, Report(n, r)
    PROVE  PlacementIInv'
<1>1. NodeLayers(r) = r
  BY DEF NodeLayers, Ranges
<1>2. Types'
  BY <1>1 DEF PlacementIInv, Types, Report
<1>3. \A m \in Reported : m \in Reported' /\ nodes'[m] = nodes[m]
  BY DEF Reported, Report
<1>4. Gaps' \subseteq Gaps
  BY <1>3 DEF Gaps, Served
<1> QED
  BY <1>2, <1>4 DEF PlacementIInv, Promises, Report

LEMMA SuggestStep ==
    ASSUME PlacementIInv, NEW n \in Contributors, NEW k \in 0 .. MaxOffer, P2pSuggestLayers(n, k)
    PROVE  /\ PlacementIInv'
           /\ suggestion'[n] = [layers |-> k, res |-> SelectLayers(Pad(GetDistribution), k)]
           /\ \A m \in Contributors \ {n} : suggestion'[m] = suggestion[m]
<1> DEFINE res == SelectLayers(Pad(GetDistribution), k)
<1>1. IsShort(res) => res.min_layers \in Nat /\ HoldsGaps(res.min_layers)
  BY Answer, PlacementAssumption DEF PlacementIInv
<1> HIDE DEF res
<1>2. /\ suggestion' = [suggestion EXCEPT ![n] = [layers |-> k, res |-> res]]
      /\ promise' = IF IsShort(res) THEN [promise EXCEPT ![n] = res.min_layers] ELSE promise
      /\ UNCHANGED nodes
  BY DEF P2pSuggestLayers, res
<1>3. Gaps' = Gaps
  BY <1>2 DEF Gaps, Served, Reported
<1>4. Types'
  BY <1>1, <1>2 DEF PlacementIInv, Types
<1>5. Promises'
  <2> SUFFICES ASSUME NEW m \in Contributors, promise'[m] # Nothing, NEW i \in Gaps, NEW j \in Gaps
               PROVE  i - j + 1 <= promise'[m]
    BY <1>3 DEF Promises
  <2>1. CASE IsShort(res) /\ m = n
    BY <1>1, <1>2, <2>1 DEF HoldsGaps, PlacementIInv, Types
  <2>2. CASE ~(IsShort(res) /\ m = n)
    BY <1>2, <2>2 DEF PlacementIInv, Types, Promises
  <2> QED
    BY <2>1, <2>2
<1>6. /\ suggestion'[n] = [layers |-> k, res |-> res]
      /\ \A m \in Contributors \ {n} : suggestion'[m] = suggestion[m]
  BY <1>2 DEF PlacementIInv, Types
<1> QED
  BY <1>4, <1>5, <1>6 DEF PlacementIInv, res

LEMMA NextIInv == PlacementIInv /\ [PlacementNext]_pvars => PlacementIInv'
<1> SUFFICES ASSUME PlacementIInv, [PlacementNext]_pvars PROVE PlacementIInv'
  OBVIOUS
<1>1. ASSUME NEW n \in Node, Start(n) \/ End(n) PROVE PlacementIInv'
  BY <1>1, EntryGoes
<1>2. ASSUME NEW n \in Node, NEW r \in Ranges, Report(n, r) PROVE PlacementIInv'
  BY <1>2, ReportStep
<1>3. ASSUME NEW n \in Contributors, NEW k \in 0 .. MaxOffer, P2pSuggestLayers(n, k) PROVE PlacementIInv'
  BY <1>3, SuggestStep
<1>4. CASE UNCHANGED pvars
  BY <1>4 DEF pvars, PlacementIInv, Types, Promises, Gaps, Served, Reported
<1> QED
  BY <1>1, <1>2, <1>3, <1>4 DEF PlacementNext

(* Whatever was promised to a contributor and still stands is enough for   *)
(* the layers nobody serves now: suggest_layers turns someone away only    *)
(* with a promise that workers who join cannot break.                      *)
THEOREM PlacementInvariant == PlacementSpec => []PlacementIInv
BY InitIInv, NextIInv, PTL DEF PlacementSpec

(* A contributor that comes back with as many layers as select_layers      *)
(* asked for is not turned away, unless the registry lost a worker's range *)
(* since.                                                                  *)
THEOREM PlacementPromiseKept == PlacementSpec => PromiseKept
<1> DEFINE Kept(n) ==
        suggestion'[n] # suggestion[n] /\ suggestion'[n] # Nothing /\ promise[n] # Nothing
             /\ suggestion'[n].layers >= promise[n]
                => ~IsShort(suggestion'[n].res)
<1>1. PlacementIInv /\ [PlacementNext]_pvars => [\A n \in Contributors : Kept(n)]_pvars
  <2> SUFFICES ASSUME PlacementIInv, PlacementNext, NEW n \in Contributors PROVE Kept(n)
    BY Zenon
  <2>1. ASSUME NEW m \in Node, Start(m) \/ End(m) PROVE Kept(n)
    BY <2>1 DEF Start, End
  <2>2. ASSUME NEW m \in Node, NEW r \in Ranges, Report(m, r) PROVE Kept(n)
    <3>1. suggestion'[n] = suggestion[n] \/ suggestion'[n] = Nothing
      BY <2>2 DEF Report, PlacementIInv, Types
    <3> QED
      BY <3>1
  <2>3. ASSUME NEW m \in Contributors, NEW k \in 0 .. MaxOffer, P2pSuggestLayers(m, k) PROVE Kept(n)
    <3> DEFINE res == SelectLayers(Pad(GetDistribution), k)
    <3>1. /\ suggestion'[m] = [layers |-> k, res |-> res]
          /\ \A q \in Contributors \ {m} : suggestion'[q] = suggestion[q]
      BY <2>3, SuggestStep
    <3>2. IsShort(res) <=> ~HoldsGaps(k)
      BY Answer, PlacementAssumption DEF PlacementIInv
    <3> HIDE DEF res
    <3>3. CASE n = m
      <4> SUFFICES ASSUME promise[n] # Nothing, k >= promise[n] PROVE ~IsShort(res)
        BY <3>1, <3>3
      <4>1. promise[n] \in Nat
        BY DEF PlacementIInv, Types
      <4>2. HoldsGaps(k)
        BY <4>1, PlacementAssumption DEF PlacementIInv, Promises, HoldsGaps, Gaps, Layers
      <4> QED
        BY <3>2, <4>2
    <3>4. CASE n # m
      BY <3>1, <3>4
    <3> QED
      BY <3>3, <3>4
  <2> QED
    BY <2>1, <2>2, <2>3 DEF PlacementNext
<1> QED
  BY <1>1, PlacementInvariant, PTL DEF PlacementSpec, PromiseKept

-----------------------------------------------------------------------------
(* Some range of k layers holds the gaps just when they lie within k.      *)
LEMMA RangeForGaps ==
    ASSUME Types, NEW k \in Nat \ {0}
    PROVE  TurnedAway(k) <=> ~HoldsGaps(k)
<1> DEFINE M == MODEL_LAYERS
           size == IF k < M THEN k ELSE M
<1>1. /\ M \in Nat \ {0} /\ size \in Nat /\ size <= k /\ size <= M
      /\ size = k \/ size = M
  BY PlacementAssumption
<1>2. Gaps \in SUBSET Nat /\ \A l \in Gaps : l < M
  BY PlacementAssumption DEF Gaps, Layers
<1>3. TurnedAway(k) <=> \A r \in Fitting(k) : ~(Gaps \subseteq Range0(r))
  <2>1. \A l \in Layers : Count(l) = 0 <=> l \in Gaps
    BY CountZero
  <2> QED
    BY <2>1 DEF TurnedAway, Gaps
<1> HIDE DEF M, size
<1>4. ASSUME NEW r \in Fitting(k), Gaps \subseteq Range0(r) PROVE HoldsGaps(k)
  <2>1. r.start \in Nat /\ r.end \in Nat /\ r.end - r.start = size
    BY <1>1 DEF Fitting, Ranges, size, M
  <2>2. \A l \in Gaps : r.start <= l /\ l <= r.end - 1
    BY <1>4, <2>1 DEF Range0
  <2> SUFFICES ASSUME NEW i \in Gaps, NEW j \in Gaps PROVE i - j + 1 <= k
    BY DEF HoldsGaps
  <2> QED
    BY <1>1, <1>2, <2>1, <2>2
<1>5. ASSUME HoldsGaps(k) PROVE \E r \in Fitting(k) : Gaps \subseteq Range0(r)
  <2>1. SUFFICES ASSUME NEW s \in Nat, s + size <= M, \A l \in Gaps : s <= l /\ l < s + size
                 PROVE  \E r \in Fitting(k) : Gaps \subseteq Range0(r)
    <3>1. CASE Gaps = {}
      BY <1>1, <2>1, <3>1
    <3>2. CASE Gaps # {}
      <4>1. PICK lo \in Gaps : \A l \in Gaps : lo <= l
        BY <1>2, <3>2, LeastOf
      <4>2. lo \in Nat /\ lo < M /\ \A l \in Gaps : l \in Nat /\ l < M /\ lo <= l /\ l < lo + k
        BY <1>2, <1>5, <4>1 DEF HoldsGaps
      <4>3. CASE lo + size <= M /\ size = k
        BY <2>1, <4>2, <4>3
      <4>4. CASE ~(lo + size <= M /\ size = k)
        <5>1. M - size \in Nat /\ M - size + size <= M
          BY <1>1
        <5>2. \A l \in Gaps : M - size <= l /\ l < M - size + size
          BY <1>1, <4>2, <4>4
        <5> QED
          BY <2>1, <5>1, <5>2
      <4> QED
        BY <4>3, <4>4
    <3> QED
      BY <3>1, <3>2
  <2> DEFINE r == [start |-> s, end |-> s + size]
  <2>2. r \in Ranges /\ r.end - r.start = size
    BY <1>1, <2>1 DEF Ranges, M
  <2>3. r \in Fitting(k)
    BY <2>2 DEF Fitting, size, M
  <2>4. Gaps \subseteq Range0(r)
    BY <1>1, <1>2, <2>1 DEF Range0
  <2> QED
    BY <2>3, <2>4
<1> QED
  BY <1>3, <1>4, <1>5

-----------------------------------------------------------------------------
(* What select_layers adds up over a window.  MapThenSumSet takes the      *)
(* elements of a set one by one; data[x] is what x counts for.             *)

Some(s) == CHOOSE x \in s : TRUE

Adds(data, S, h) ==
    h = [s \in SUBSET S |-> IF s = {} THEN 0 ELSE data[Some(s)] + h[s \ {Some(s)}]]

AddUp(data, S) == (CHOOSE h : Adds(data, S, h))[S]

LEMMA SumOfFunction ==
    ASSUME NEW data, NEW S
    PROVE  MapThenSumSet(LAMBDA j : data[j], S) = AddUp(data, S)
BY Zenon DEF MapThenSumSet, MapThenFoldSet, AddUp, Adds, Some

LEMMA SumOfCount ==
    ASSUME NEW data, NEW S, \A l \in S : data[l] = Count(l)
    PROVE  MapThenSumSet(Count, S) = AddUp(data, S)
<1> DEFINE A(h) == h = [s \in SUBSET S |-> IF s = {} THEN 0 ELSE Count(Some(s)) + h[s \ {Some(s)}]]
           B(h) == Adds(data, S, h)
<1>1. ASSUME NEW s \in SUBSET S, s # {} PROVE Count(Some(s)) = data[Some(s)]
  <2>1. Some(s) \in s
    BY <1>1 DEF Some
  <2> QED
    BY <2>1
<1>2. \A h : [s \in SUBSET S |-> IF s = {} THEN 0 ELSE Count(Some(s)) + h[s \ {Some(s)}]]
           = [s \in SUBSET S |-> IF s = {} THEN 0 ELSE data[Some(s)] + h[s \ {Some(s)}]]
  BY <1>1
<1>3. \A h : A(h) <=> B(h)
  BY <1>2 DEF Adds
<1>4. MapThenSumSet(Count, S) = (CHOOSE h : A(h))[S]
  BY Zenon DEF MapThenSumSet, MapThenFoldSet, Some
<1>5. AddUp(data, S) = (CHOOSE h : B(h))[S]
  BY Zenon DEF AddUp
<1> HIDE DEF A, B
<1>6. (CHOOSE h : A(h)) = (CHOOSE h : B(h))
  BY <1>3, Zenon
<1> QED
  BY <1>4, <1>5, <1>6

(* The sums exist: on the subsets of at most n elements, for every n. *)
AtMost(S, n) == {s \in SUBSET S : Cardinality(s) <= n}

AddsTo(data, S, n, h) ==
    /\ h \in [AtMost(S, n) -> Nat]
    /\ \A s \in AtMost(S, n) : h[s] = IF s = {} THEN 0 ELSE data[Some(s)] + h[s \ {Some(s)}]

LEMMA OneLess ==
    ASSUME NEW S, IsFiniteSet(S), NEW s \in SUBSET S
    PROVE  /\ Cardinality(s) \in Nat /\ (Cardinality(s) = 0 <=> s = {})
           /\ s # {} => /\ Some(s) \in s /\ s \ {Some(s)} \in SUBSET S
                        /\ Cardinality(s \ {Some(s)}) = Cardinality(s) - 1
<1>1. IsFiniteSet(s)
  BY FS_Subset
<1>2. Cardinality(s) \in Nat /\ (Cardinality(s) = 0 <=> s = {})
  BY <1>1, FS_CardinalityType, FS_EmptySet
<1>3. ASSUME s # {} PROVE Some(s) \in s /\ s \ {Some(s)} \in SUBSET S
  BY <1>3 DEF Some
<1>4. ASSUME s # {} PROVE Cardinality(s \ {Some(s)}) = Cardinality(s) - 1
  BY <1>1, <1>3, <1>4, FS_RemoveElement
<1> QED
  BY <1>2, <1>3, <1>4

LEMMA AddsExist ==
    ASSUME NEW S, IsFiniteSet(S), NEW data, \A x \in S : data[x] \in Nat, NEW m \in Nat
    PROVE  \E h : AddsTo(data, S, m, h)
<1> DEFINE Bad == {n \in Nat : ~\E h : AddsTo(data, S, n, h)}
<1> SUFFICES ASSUME Bad # {} PROVE FALSE
  OBVIOUS
<1>1. PICK n \in Bad : \A j \in Bad : n <= j
  BY LeastOf
<1>2. n # 0
  <2>1. ASSUME NEW s \in AtMost(S, 0) PROVE s = {}
    <3>1. s \in SUBSET S /\ Cardinality(s) <= 0
      BY DEF AtMost
    <3>2. Cardinality(s) \in Nat /\ (Cardinality(s) = 0 <=> s = {})
      BY <3>1, OneLess
    <3> QED
      BY <3>1, <3>2
  <2>2. AddsTo(data, S, 0, [s \in AtMost(S, 0) |-> 0])
    BY <2>1 DEF AddsTo
  <2> QED
    BY <2>2
<1>3. n - 1 \in Nat /\ n - 1 \notin Bad
  BY <1>1, <1>2
<1>4. PICK h : AddsTo(data, S, n - 1, h)
  BY <1>3
<1> DEFINE g == [s \in AtMost(S, n) |->
                    IF Cardinality(s) <= n - 1 THEN h[s] ELSE data[Some(s)] + h[s \ {Some(s)}]]
<1>5. ASSUME NEW s \in AtMost(S, n)
      PROVE  /\ Cardinality(s) \in Nat /\ (Cardinality(s) = 0 <=> s = {})
             /\ Cardinality(s) <= n - 1 => s \in AtMost(S, n - 1)
             /\ s # {} => /\ data[Some(s)] \in Nat /\ s \ {Some(s)} \in AtMost(S, n - 1)
                          /\ s \ {Some(s)} \in AtMost(S, n) /\ Cardinality(s \ {Some(s)}) <= n - 1
  <2>1. s \in SUBSET S /\ Cardinality(s) <= n
    BY DEF AtMost
  <2>2. Cardinality(s) \in Nat /\ (Cardinality(s) = 0 <=> s = {})
    BY <2>1, OneLess
  <2>3. ASSUME s # {}
        PROVE  /\ Some(s) \in S /\ s \ {Some(s)} \in SUBSET S
               /\ Cardinality(s \ {Some(s)}) = Cardinality(s) - 1
    BY <2>1, <2>3, OneLess
  <2> QED
    BY <1>1, <2>1, <2>2, <2>3 DEF AtMost
<1>6. ASSUME NEW s \in AtMost(S, n) PROVE g[s] \in Nat
  <2>1. CASE Cardinality(s) <= n - 1
    BY <1>4, <1>5, <2>1 DEF AddsTo
  <2>2. CASE ~(Cardinality(s) <= n - 1)
    <3>1. s # {}
      BY <1>3, <1>5, <2>2
    <3>2. data[Some(s)] \in Nat /\ h[s \ {Some(s)}] \in Nat
      BY <1>4, <1>5, <3>1 DEF AddsTo
    <3> QED
      BY <2>2, <3>2
  <2> QED
    BY <2>1, <2>2
<1>7. ASSUME NEW s \in AtMost(S, n)
      PROVE  g[s] = IF s = {} THEN 0 ELSE data[Some(s)] + g[s \ {Some(s)}]
  <2>1. CASE s = {}
    <3>0. Cardinality(s) = 0
      BY <1>5, <2>1
    <3>1. Cardinality(s) = 0 /\ 0 <= n - 1
      <4> HIDE DEF Bad
      <4> QED
        BY <1>3, <3>0
    <3>2. Cardinality(s) <= n - 1 /\ s \in AtMost(S, n - 1)
      BY <1>5, <3>1
    <3> QED
      BY <1>4, <2>1, <3>2 DEF AddsTo
  <2>2. CASE s # {}
    <3>1. g[s \ {Some(s)}] = h[s \ {Some(s)}]
      BY <1>5, <2>2
    <3>2. CASE Cardinality(s) <= n - 1
      <4>1. h[s] = data[Some(s)] + h[s \ {Some(s)}]
        BY <1>4, <1>5, <2>2, <3>2 DEF AddsTo
      <4> QED
        BY <2>2, <3>1, <3>2, <4>1
    <3>3. CASE ~(Cardinality(s) <= n - 1)
      BY <2>2, <3>1, <3>3
    <3> QED
      BY <3>2, <3>3
  <2> QED
    BY <2>1, <2>2
<1>8. g \in [AtMost(S, n) -> Nat]
  <2>1. g = [s \in AtMost(S, n) |-> g[s]]
    OBVIOUS
  <2> HIDE DEF g
  <2> QED
    BY <1>6, <2>1
<1> HIDE DEF g
<1>9. AddsTo(data, S, n, g)
  BY <1>7, <1>8 DEF AddsTo
<1> QED
  BY <1>1, <1>9

LEMMA AddUpNat ==
    ASSUME NEW S, IsFiniteSet(S), NEW data, \A x \in S : data[x] \in Nat
    PROVE  AddUp(data, S) \in Nat
<1> DEFINE m == Cardinality(S)
           f == CHOOSE h : Adds(data, S, h)
<1>1. m \in Nat
  BY FS_CardinalityType
<1>2. AtMost(S, m) = SUBSET S
  <2>1. \A s \in SUBSET S : Cardinality(s) <= m
    BY FS_Subset
  <2> QED
    BY <2>1 DEF AtMost
<1>3. PICK h : AddsTo(data, S, m, h)
  BY <1>1, AddsExist
<1>4. Adds(data, S, h)
  BY <1>2, <1>3 DEF AddsTo, Adds
<1>5. Adds(data, S, f)
  BY <1>4
<1> HIDE DEF f
<1>6. \A s \in SUBSET S : f[s] = IF s = {} THEN 0 ELSE data[Some(s)] + f[s \ {Some(s)}]
  BY <1>5, Zenon DEF Adds
<1> DEFINE Bad == {Cardinality(s) : s \in {t \in SUBSET S : f[t] \notin Nat}}
<1>7. Bad = {}
  <2> SUFFICES ASSUME Bad # {} PROVE FALSE
    OBVIOUS
  <2>1. Bad \in SUBSET Nat
    <3>1. \A s \in SUBSET S : Cardinality(s) \in Nat
      BY OneLess
    <3> QED
      BY <3>1
  <2>2. PICK c \in Bad : \A j \in Bad : c <= j
    BY <2>1, LeastOf
  <2>3. PICK s \in SUBSET S : f[s] \notin Nat /\ Cardinality(s) = c
    BY <2>2
  <2>4. s # {}
    BY <1>6, <2>3
  <2>5. /\ Some(s) \in S /\ s \ {Some(s)} \in SUBSET S
        /\ Cardinality(s \ {Some(s)}) = Cardinality(s) - 1 /\ Cardinality(s) \in Nat
    BY <2>3, <2>4, OneLess
  <2>6. f[s \ {Some(s)}] \in Nat
    <3>1. c - 1 \notin Bad
      BY <2>2, <2>3, <2>5
    <3> QED
      BY <2>3, <2>5, <3>1
  <2>7. f[s] = data[Some(s)] + f[s \ {Some(s)}] /\ data[Some(s)] \in Nat
    BY <1>6, <2>3, <2>4, <2>5
  <2> QED
    BY <2>3, <2>6, <2>7
<1>8. f[S] \in Nat
  BY <1>7
<1> QED
  BY <1>8 DEF AddUp, f

(* The distribution's windows: as many layers as the model has, k at a     *)
(* time.                                                                   *)
LEMMA WindowSums ==
    ASSUME Types, NEW k \in 1 .. MODEL_LAYERS - 1
    PROVE  LET dist == Pad(GetDistribution)
               sums == SumInWindow(dist, k)
           IN  /\ DOMAIN sums = 0 .. MODEL_LAYERS - k
               /\ \A i \in 0 .. MODEL_LAYERS - k :
                     sums[i] = MapThenSumSet(Count, i .. i + k - 1) /\ sums[i] \in Nat
<1> DEFINE dist == Pad(GetDistribution)
           sums == SumInWindow(dist, k)
           M == MODEL_LAYERS
<1>1. M \in Nat \ {0} /\ k \in Nat /\ M - k \in Nat
  BY PlacementAssumption
<1>2. DOMAIN dist = Layers /\ \A l \in Layers : dist[l] = Count(l) /\ dist[l] \in Nat
  BY PadIsCount, CountZero
<1>3. Cardinality(Layers) = M
  BY <1>1, FS_Interval DEF Layers
<1>4. sums = [i \in 0 .. M - k |-> MapThenSumSet(LAMBDA j : dist[j], i .. i + k - 1)]
  BY <1>2, <1>3, Zenon DEF SumInWindow
<1> HIDE DEF dist
<1>5. ASSUME NEW i \in 0 .. M - k
      PROVE  sums[i] = MapThenSumSet(Count, i .. i + k - 1) /\ sums[i] \in Nat
  <2> DEFINE S == i .. i + k - 1
  <2>1. S \subseteq Layers
    BY <1>1 DEF Layers
  <2>2. IsFiniteSet(S)
    BY <1>1, FS_Interval
  <2>3. sums[i] = MapThenSumSet(LAMBDA j : dist[j], S)
    BY <1>4
  <2>4. MapThenSumSet(LAMBDA j : dist[j], S) = AddUp(dist, S)
    BY SumOfFunction, Zenon
  <2> HIDE DEF S, sums
  <2>5. \A l \in S : dist[l] = Count(l) /\ dist[l] \in Nat
    BY <1>2, <2>1
  <2>6. MapThenSumSet(Count, S) = AddUp(dist, S)
    BY <2>5, SumOfCount
  <2>7. AddUp(dist, S) \in Nat
    BY <2>2, <2>5, AddUpNat
  <2>8. sums[i] = MapThenSumSet(Count, S) /\ sums[i] \in Nat
    BY <2>3, <2>4, <2>6, <2>7, Zenon
  <2> QED
    BY <2>8, Zenon DEF S
<1>6. DOMAIN sums = 0 .. M - k
  BY <1>4
<1> HIDE DEF sums
<1> QED
  BY <1>5, <1>6 DEF sums, dist

(* The answer is the first of the windows served least. *)
LEMMA BestWindow ==
    ASSUME Types, NEW k \in 1 .. MaxOffer, ~IsShort(SelectLayers(Pad(GetDistribution), k))
    PROVE  LET res == SelectLayers(Pad(GetDistribution), k)
           IN  /\ res \in Fitting(k)
               /\ \A r \in Fitting(k) :
                     \/ MapThenSumSet(Count, Range0(res)) < MapThenSumSet(Count, Range0(r))
                     \/ /\ MapThenSumSet(Count, Range0(res)) = MapThenSumSet(Count, Range0(r))
                        /\ res.start <= r.start
<1> DEFINE dist == Pad(GetDistribution)
           gaps == {l \in DOMAIN dist : dist[l] = 0}
           sums == SumInWindow(dist, k)
           least == {i \in DOMAIN sums : \A j \in DOMAIN sums : sums[i] <= sums[j]}
           min_layers == Max(gaps) - Min(gaps) + 1
           len == Cardinality(DOMAIN dist)
           res == SelectLayers(dist, k)
           M == MODEL_LAYERS
           Sum(r) == MapThenSumSet(Count, Range0(r))
<1>1. M \in Nat \ {0} /\ k \in Nat \ {0}
  BY PlacementAssumption
<1>2. len = M
  BY <1>1, PadIsCount, FS_Interval DEF Layers
<1>3. res = IF gaps # {} /\ min_layers > k THEN NotEnough(min_layers)
            ELSE IF RoomForAll(len, k) THEN Enough(0, len)
            ELSE IF ~(k > 0 /\ k < len) THEN Panic
            ELSE Enough(Min(least), Min(least) + k)
  BY DEF SelectLayers
<1>4. gaps # {} => min_layers \in Nat
  <2> SUFFICES ASSUME gaps # {} PROVE min_layers \in Nat
    OBVIOUS
  <2>1. gaps \in SUBSET (0 .. M) /\ gaps \in SUBSET Nat
    BY <1>1, PadIsCount DEF Layers
  <2>2. /\ Max(gaps) \in gaps /\ \A y \in gaps : Max(gaps) >= y
        /\ Min(gaps) \in gaps
    BY <1>1, <2>1, MaxOf, MinOf
  <2> DEFINE hi == Max(gaps)
             lo == Min(gaps)
  <2> HIDE DEF gaps, hi, lo
  <2>3. hi \in Nat /\ lo \in Nat /\ lo <= hi
    BY <2>1, <2>2 DEF hi, lo
  <2>4. hi - lo + 1 \in Nat
    BY <2>3
  <2> QED
    BY <2>4 DEF hi, lo
<1>5. ~IsShort(res)
  OBVIOUS
<1> HIDE DEF dist, gaps, least, min_layers, len, res, M
<1>6. ~(gaps # {} /\ min_layers > k)
  <2> SUFFICES ASSUME gaps # {}, min_layers > k PROVE FALSE
    OBVIOUS
  <2>1. res = NotEnough(min_layers)
    BY <1>3
  <2> QED
    BY <1>4, <1>5, <2>1 DEF IsShort, NotEnough
<1>7. res = IF k >= M THEN Enough(0, M) ELSE Enough(Min(least), Min(least) + k)
  BY <1>1, <1>2, <1>3, <1>6 DEF RoomForAll
<1>8. CASE k >= M
  <2>1. res = [start |-> 0, end |-> M]
    BY <1>7, <1>8 DEF Enough
  <2>2. \A r : r \in Fitting(k) <=> r \in Ranges /\ r.end - r.start = M
    BY <1>1, <1>8 DEF Fitting, M
  <2>3. res \in Fitting(k)
    BY <1>1, <2>1, <2>2 DEF Ranges, M
  <2>4. ASSUME NEW r \in Fitting(k) PROVE r = res
    <3>1. r \in [start : 0 .. M, end : 0 .. M] /\ r.end - r.start = M
      BY <2>2 DEF Ranges, M
    <3>2. r.start \in Nat /\ r.end \in Nat /\ r.end <= M
      BY <1>1, <3>1
    <3>3. r.start = 0 /\ r.end = M
      BY <1>1, <3>1, <3>2
    <3> QED
      BY <2>1, <3>1, <3>3
  <2>5. \A r \in Fitting(k) : Sum(res) = Sum(r) /\ res.start <= r.start
    BY <1>1, <2>1, <2>4
  <2> QED
    BY <2>3, <2>5 DEF res, dist
<1>9. CASE k < M
  <2> DEFINE W == 0 .. M - k
  <2>1. k \in 1 .. MODEL_LAYERS - 1
    BY <1>1, <1>9 DEF M
  <2>2. /\ DOMAIN sums = W
        /\ \A i \in W : sums[i] = MapThenSumSet(Count, i .. i + k - 1) /\ sums[i] \in Nat
    BY <2>1, WindowSums DEF M, dist
  <2> HIDE DEF sums
  <2>3. 0 \in W /\ W \in SUBSET Nat
    BY <1>1, <1>9
  <2> HIDE DEF W
  <2>4. least # {}
    <3> DEFINE V == {sums[i] : i \in W}
    <3>1. V \in SUBSET Nat /\ V # {}
      BY <2>2, <2>3
    <3>2. PICK v \in V : \A u \in V : v <= u
      BY <3>1, LeastOf
    <3>3. PICK i \in W : v = sums[i]
      BY <3>2
    <3>4. \A j \in W : sums[i] <= sums[j]
      BY <3>2, <3>3
    <3>5. i \in least
      BY <2>2, <3>3, <3>4 DEF least
    <3> QED
      BY <3>5
  <2> DEFINE b == Min(least)
  <2>5. b \in least /\ \A y \in least : b <= y
    <3>1. least \in SUBSET Nat
      BY <2>2, <2>3 DEF least
    <3> QED
      BY <2>4, <3>1, MinOf
  <2> HIDE DEF b
  <2>6. b \in W /\ \A j \in W : sums[b] <= sums[j]
    BY <2>2, <2>5 DEF least
  <2>7. res = [start |-> b, end |-> b + k]
    <3>1. ~(k >= M)
      BY <1>1, <1>9
    <3> QED
      BY <1>7, <3>1 DEF Enough, b
  <2>8. b \in Nat /\ b <= M - k
    BY <1>1, <1>9, <2>6 DEF W
  <2>9. res \in Fitting(k)
    <3>1. res \in Ranges /\ res.end - res.start = k
      BY <1>1, <1>9, <2>7, <2>8 DEF Ranges, M
    <3> QED
      BY <1>9, <3>1 DEF Fitting, M
  <2>10. Sum(res) = sums[b]
    <3>0. res.start = b /\ res.end = b + k
      BY <2>7
    <3>1. Range0(res) = b .. b + k - 1
      BY <1>1, <2>8, <3>0 DEF Range0
    <3> QED
      BY <2>2, <2>6, <3>1
  <2>11. ASSUME NEW r \in Fitting(k)
         PROVE  Sum(res) < Sum(r) \/ (Sum(res) = Sum(r) /\ res.start <= r.start)
    <3>1. r.start \in 0 .. M /\ r.end \in 0 .. M /\ r.end - r.start = k
      BY <1>9 DEF Fitting, Ranges, M
    <3>2. r.start \in W /\ r.end = r.start + k
      BY <1>1, <1>9, <3>1 DEF W
    <3>3. Sum(r) = sums[r.start]
      <4>1. Range0(r) = r.start .. r.start + k - 1
        BY <1>1, <3>1, <3>2 DEF Range0
      <4> QED
        BY <2>2, <3>2, <4>1
    <3> DEFINE q == r.start
    <3>4. q \in W /\ sums[q] \in Nat /\ sums[b] \in Nat /\ sums[b] <= sums[q]
      BY <2>2, <2>6, <3>2
    <3> HIDE DEF q
    <3>5. CASE sums[b] = sums[q]
      <4>1. q \in least
        BY <2>2, <2>6, <3>4, <3>5 DEF least
      <4>2. b <= q
        BY <2>5, <4>1
      <4> QED
        BY <2>7, <2>10, <3>3, <3>5, <4>2 DEF q
    <3>6. CASE sums[b] # sums[q]
      <4>1. sums[b] < sums[q]
        BY <3>4, <3>6
      <4> QED
        BY <2>10, <3>3, <4>1 DEF q
    <3> QED
      BY <3>5, <3>6
  <2> QED
    BY <2>9, <2>11 DEF res, dist
<1> QED
  BY <1>1, <1>8, <1>9

(* Whoever offers no layer: short of any layer nobody serves, and met by   *)
(* the assertion of sum_in_window when there is none.                      *)
LEMMA NoneOffered ==
    ASSUME Types
    PROVE  /\ TurnedAway(0) <=> Gaps # {}
           /\ IsShort(SelectLayers(Pad(GetDistribution), 0)) <=> Gaps # {}
           /\ SelectLayers(Pad(GetDistribution), 0) = Panic <=> Gaps = {}
<1> DEFINE dist == Pad(GetDistribution)
           gaps == {l \in DOMAIN dist : dist[l] = 0}
           sums == SumInWindow(dist, 0)
           least == {i \in DOMAIN sums : \A j \in DOMAIN sums : sums[i] <= sums[j]}
           min_layers == Max(gaps) - Min(gaps) + 1
           len == Cardinality(DOMAIN dist)
           res == SelectLayers(dist, 0)
<1>1. MODEL_LAYERS \in Nat \ {0}
  BY PlacementAssumption
<1>2. TurnedAway(0) <=> Gaps # {}
  <2>1. \A l \in Layers : Count(l) = 0 <=> l \in Gaps
    BY CountZero
  <2>2. \A r \in Fitting(0) : Range0(r) = {}
    <3> SUFFICES ASSUME NEW r \in Fitting(0) PROVE Range0(r) = {}
      OBVIOUS
    <3>1. r.start \in Nat /\ r.end \in Nat /\ r.end - r.start = 0
      BY <1>1 DEF Fitting, Ranges
    <3> QED
      BY <3>1 DEF Range0
  <2>3. [start |-> 0, end |-> 0] \in Fitting(0)
    BY <1>1 DEF Fitting, Ranges
  <2> QED
    BY <2>1, <2>2, <2>3 DEF TurnedAway, Gaps
<1>3. gaps = Gaps
  BY PadIsCount, CountZero DEF Gaps
<1>4. IsShort(res) <=> Gaps # {}
  <2>1. HoldsGaps(0) <=> Gaps = {}
    <3>1. \A i \in Gaps : i \in Int /\ ~(i - i + 1 <= 0)
      BY <1>1 DEF Gaps, Layers
    <3> QED
      BY <3>1 DEF HoldsGaps
  <2> QED
    BY <2>1, Answer
<1>5. len = MODEL_LAYERS
  BY <1>1, PadIsCount, FS_Interval DEF Layers
<1>6. res = IF gaps # {} /\ min_layers > 0 THEN NotEnough(min_layers)
            ELSE IF RoomForAll(len, 0) THEN Enough(0, len)
            ELSE IF ~(0 > 0 /\ 0 < len) THEN Panic
            ELSE Enough(Min(least), Min(least) + 0)
  BY DEF SelectLayers
<1> HIDE DEF dist, gaps, least, min_layers, len, res
<1>7. Gaps = {} => res = Panic
  BY <1>1, <1>3, <1>5, <1>6 DEF RoomForAll
<1>8. ~IsShort(Panic)
  BY NothingAssumption DEF IsShort
<1>9. res = Panic <=> Gaps = {}
  BY <1>4, <1>7, <1>8
<1> QED
  BY <1>2, <1>4, <1>9 DEF res, dist

(* Whoever asks is told the best there is: select_layers turns it away     *)
(* just when no range it has room for holds all the layers nobody serves,  *)
(* and otherwise answers with the first of the ranges that long which are  *)
(* served least in all.  The one request that fails an assertion of        *)
(* sum_in_window offers no layer to a model that is served throughout.     *)
THEOREM PlacementSuggestionIsBest == PlacementSpec => []SuggestionIsBest
<1>1. PlacementIInv => SuggestionIsBest
  <2> SUFFICES ASSUME PlacementIInv, NEW k \in 0 .. MaxOffer
               PROVE  LET res == SelectLayers(Pad(GetDistribution), k)
                          Sum(r) == MapThenSumSet(Count, Range0(r))
                      IN  /\ IsShort(res) <=> TurnedAway(k)
                          /\ res = Panic <=> k = 0 /\ \A l \in Layers : Count(l) > 0
                          /\ ~IsShort(res) /\ res # Panic =>
                                /\ res \in Fitting(k)
                                /\ \A r \in Fitting(k) :
                                      \/ Sum(res) < Sum(r)
                                      \/ Sum(res) = Sum(r) /\ res.start <= r.start
    BY Zenon DEF SuggestionIsBest
  <2>1. Types
    BY DEF PlacementIInv
  <2>2. CASE k = 0
    <3>1. (\A l \in Layers : Count(l) > 0) <=> Gaps = {}
      BY <2>1, CountZero DEF Gaps
    <3>2. /\ TurnedAway(k) <=> Gaps # {}
          /\ IsShort(SelectLayers(Pad(GetDistribution), k)) <=> Gaps # {}
          /\ SelectLayers(Pad(GetDistribution), k) = Panic <=> Gaps = {}
      BY <2>1, <2>2, NoneOffered
    <3> QED
      BY <2>2, <3>1, <3>2, Zenon
  <2>3. CASE k # 0
    <3>1. k \in 1 .. MaxOffer /\ k \in Nat \ {0} /\ k \in Int
      BY <2>3, PlacementAssumption
    <3>2. IsShort(SelectLayers(Pad(GetDistribution), k)) <=> TurnedAway(k)
      BY <2>1, <3>1, Answer, RangeForGaps
    <3>3. SelectLayers(Pad(GetDistribution), k) # Panic
      <4>1. CASE IsShort(SelectLayers(Pad(GetDistribution), k))
        BY <4>1, NothingAssumption, Zenon DEF IsShort
      <4>2. CASE ~IsShort(SelectLayers(Pad(GetDistribution), k))
        <5>1. SelectLayers(Pad(GetDistribution), k) \in Fitting(k)
          BY <2>1, <3>1, <4>2, BestWindow, Zenon
        <5> QED
          BY <5>1, NothingAssumption, Zenon DEF Fitting
      <4> QED
        BY <4>1, <4>2
    <3> QED
      BY <2>1, <2>3, <3>1, <3>2, <3>3, BestWindow, Zenon
  <2> QED
    BY <2>2, <2>3
<1> QED
  BY <1>1, PlacementInvariant, PTL

-----------------------------------------------------------------------------
(* The monitor page.                                                       *)

RangeOf(n) == IF nodes[n] = Nothing THEN Enough(0, 0) ELSE nodes[n]

CoveredUntil(s) ==
    Max({0} \cup {RangeOf(n).end : n \in {m \in DOMAIN nodes : RangeOf(m).start < s}})

LEMMA RangeOfType ==
    ASSUME Types, NEW n \in DOMAIN nodes
    PROVE  /\ RangeOf(n).start \in 0 .. MODEL_LAYERS /\ RangeOf(n).end \in 0 .. MODEL_LAYERS
           /\ RangeOf(n).start <= RangeOf(n).end
           /\ n \in Reported => RangeOf(n) = nodes[n]
           /\ n \notin Reported => RangeOf(n).start = 0 /\ RangeOf(n).end = 0
BY PlacementAssumption DEF Types, RangeOf, Reported, Enough, Ranges

LEMMA CompleteMeans ==
    IsModelComplete <=>
        /\ DOMAIN nodes # {}
        /\ \A n \in DOMAIN nodes : NoGap(RangeOf(n).start, CoveredUntil(RangeOf(n).start))
        /\ CoveredUntil(MODEL_LAYERS + 1) = MODEL_LAYERS
<1> DEFINE range == [n \in DOMAIN nodes |-> IF nodes[n] = Nothing THEN Enough(0, 0) ELSE nodes[n]]
           covered(s) == Max({0} \cup {range[n].end : n \in {m \in DOMAIN nodes : range[m].start < s}})
<1>1. \A n \in DOMAIN nodes : range[n] = RangeOf(n)
  BY DEF RangeOf
<1>2. ASSUME NEW s
      PROVE  {range[n].end : n \in {m \in DOMAIN nodes : range[m].start < s}}
                = {RangeOf(n).end : n \in {m \in DOMAIN nodes : RangeOf(m).start < s}}
  BY <1>1
<1>3. \A s : covered(s) = CoveredUntil(s)
  BY <1>2 DEF CoveredUntil
<1>4. IsModelComplete <=>
        /\ DOMAIN nodes # {}
        /\ \A n \in DOMAIN nodes : NoGap(range[n].start, covered(range[n].start))
        /\ covered(MODEL_LAYERS + 1) = MODEL_LAYERS
  BY DEF IsModelComplete
<1> HIDE DEF range, covered
<1> QED
  BY <1>1, <1>3, <1>4

LEMMA CoveredIsMax ==
    ASSUME Types, NEW s
    PROVE  /\ CoveredUntil(s) \in 0 .. MODEL_LAYERS
           /\ \A n \in DOMAIN nodes : RangeOf(n).start < s => RangeOf(n).end <= CoveredUntil(s)
           /\ \/ CoveredUntil(s) = 0
              \/ \E n \in DOMAIN nodes : RangeOf(n).start < s /\ RangeOf(n).end = CoveredUntil(s)
<1> DEFINE ends == {0} \cup {RangeOf(n).end : n \in {m \in DOMAIN nodes : RangeOf(m).start < s}}
<1>1. ends \in SUBSET (0 .. MODEL_LAYERS) /\ ends # {}
  BY RangeOfType, PlacementAssumption
<1>2. Max(ends) \in ends /\ \A e \in ends : Max(ends) >= e
  BY <1>1, MaxOf, PlacementAssumption
<1>3. \A e \in ends : e \in 0 .. MODEL_LAYERS
  BY <1>1
<1>4. \A n \in DOMAIN nodes : RangeOf(n).start < s => RangeOf(n).end \in ends
  OBVIOUS
<1>5. Max(ends) = 0 \/ \E n \in DOMAIN nodes : RangeOf(n).start < s /\ RangeOf(n).end = Max(ends)
  BY <1>2
<1>6. CoveredUntil(s) = Max(ends)
  BY DEF CoveredUntil
<1> HIDE DEF ends
<1>7. \A n \in DOMAIN nodes : RangeOf(n).start < s => RangeOf(n).end <= Max(ends)
  BY <1>2, <1>3, <1>4, PlacementAssumption
<1> QED
  BY <1>2, <1>3, <1>5, <1>6, <1>7

LEMMA ServedIsComplete ==
    ASSUME Types, \A l \in Layers : l \in Served
    PROVE  IsModelComplete
<1> DEFINE M == MODEL_LAYERS
<1>0. M \in Nat /\ M > 0
  BY PlacementAssumption
<1>1. ASSUME NEW l \in Layers
      PROVE  \E n \in DOMAIN nodes : RangeOf(n).start <= l /\ l + 1 <= RangeOf(n).end
  <2>1. PICK n \in Reported : l \in Range0(nodes[n])
    BY DEF Served
  <2>2. n \in DOMAIN nodes /\ RangeOf(n) = nodes[n]
    BY RangeOfType DEF Reported
  <2> QED
    BY <2>1, <2>2, RangeOfType, <1>0 DEF Range0, Layers
<1>2. ASSUME NEW n \in DOMAIN nodes
      PROVE  NoGap(RangeOf(n).start, CoveredUntil(RangeOf(n).start))
  <2> DEFINE s == RangeOf(n).start
  <2>1. s \in 0 .. M
    BY RangeOfType
  <2>2. CoveredUntil(s) \in 0 .. M /\ \A m \in DOMAIN nodes : RangeOf(m).start < s => RangeOf(m).end <= CoveredUntil(s)
    BY CoveredIsMax
  <2> HIDE DEF s
  <2>3. CASE s = 0
    BY <2>2, <2>3, <1>0 DEF NoGap, s
  <2>4. CASE s # 0
    <3>1. s - 1 \in Layers
      BY <1>0, <2>1, <2>4 DEF Layers
    <3>2. PICK m \in DOMAIN nodes : RangeOf(m).start <= s - 1 /\ s - 1 + 1 <= RangeOf(m).end
      BY <1>1, <3>1
    <3>3. RangeOf(m).start \in Nat /\ RangeOf(m).end \in Nat
      BY RangeOfType, <1>0
    <3>4. RangeOf(m).start < s /\ s <= RangeOf(m).end
      BY <2>1, <3>2, <3>3, <1>0
    <3> QED
      BY <1>0, <2>1, <2>2, <3>3, <3>4 DEF NoGap, s
  <2> QED
    BY <2>3, <2>4
<1>3. M - 1 \in Layers
  BY <1>0 DEF Layers
<1>4. PICK n \in DOMAIN nodes : RangeOf(n).start <= M - 1 /\ M - 1 + 1 <= RangeOf(n).end
  BY <1>1, <1>3
<1>5. RangeOf(n).start < M + 1 /\ RangeOf(n).end = M
  BY <1>0, <1>4, RangeOfType
<1>6. CoveredUntil(M + 1) \in 0 .. M /\ M <= CoveredUntil(M + 1)
  BY <1>5, CoveredIsMax
<1>7. CoveredUntil(M + 1) = M
  BY <1>0, <1>6
<1> QED
  BY <1>2, <1>4, <1>7, CompleteMeans

LEMMA CompleteIsNearlyServed ==
    ASSUME Types, IsModelComplete, NEW l \in Gaps
    PROVE  \E n \in Reported : nodes[n].start = l + 1
<1> DEFINE M == MODEL_LAYERS
           S == {i \in Nat : i > l /\ \E n \in DOMAIN nodes : RangeOf(n).start = i}
<1>0. M \in Nat /\ M > 0 /\ l \in Nat /\ l < M
  BY PlacementAssumption DEF Gaps, Layers
<1>1. ASSUME NEW n \in DOMAIN nodes
      PROVE  /\ RangeOf(n).start \in Nat /\ RangeOf(n).end \in Nat
             /\ RangeOf(n).start <= RangeOf(n).end
             /\ RangeOf(n).start > l \/ RangeOf(n).end <= l
  <2>1. /\ RangeOf(n).start \in Nat /\ RangeOf(n).end \in Nat
        /\ RangeOf(n).start <= RangeOf(n).end
    BY RangeOfType, <1>0
  <2>2. CASE n \in Reported
    <3>1. l \notin RangeOf(n).start .. RangeOf(n).end - 1
      BY <2>2, RangeOfType DEF Gaps, Served, Range0
    <3> QED
      BY <1>0, <2>1, <3>1
  <2>3. CASE n \notin Reported
    BY <1>0, <2>1, <2>3, RangeOfType
  <2> QED
    BY <2>1, <2>2, <2>3
<1>2. S # {}
  <2>1. CoveredUntil(M + 1) = M
    BY CompleteMeans
  <2>2. PICK n \in DOMAIN nodes : RangeOf(n).end = M
    BY <1>0, <2>1, CoveredIsMax
  <2>3. RangeOf(n).start \in S
    BY <1>0, <1>1, <2>2
  <2> QED
    BY <2>3
<1>3. PICK s \in S : \A i \in S : s <= i
  BY <1>2, LeastOf
<1>4. PICK n \in DOMAIN nodes : RangeOf(n).start = s
  BY <1>3
<1>5. s \in Nat /\ s > l
  BY <1>3
<1>6. \A m \in DOMAIN nodes : RangeOf(m).start < s => RangeOf(m).end <= l
  <2> SUFFICES ASSUME NEW m \in DOMAIN nodes, RangeOf(m).start < s, RangeOf(m).end > l PROVE FALSE
    BY <1>0, <1>1
  <2>1. RangeOf(m).start \in S
    BY <1>0, <1>1
  <2> QED
    BY <1>1, <1>3, <1>5, <2>1
<1>7. CoveredUntil(s) <= l
  BY <1>0, <1>6, CoveredIsMax
<1>8. s <= CoveredUntil(s) + 1
  BY <1>4, CompleteMeans DEF NoGap
<1>9. s = l + 1
  <2>1. CoveredUntil(s) \in Nat
    BY <1>0, CoveredIsMax
  <2> QED
    BY <1>0, <1>5, <1>7, <1>8, <2>1
<1>10. n \in Reported /\ nodes[n].start = s
  BY <1>0, <1>4, <1>5, RangeOfType
<1> QED
  BY <1>9, <1>10

(* The monitor page shows every model that can be used as complete, and of *)
(* the others only those whose every gap is one layer, right before the    *)
(* start of a reported range: what isModelComplete's coveredUntil + 1 lets *)
(* through, whatever ranges workers reported.                              *)
THEOREM PlacementGreenMeansNearlyServed == PlacementSpec => []GreenMeansNearlyServed
<1>1. PlacementIInv => GreenMeansNearlyServed
  <2> SUFFICES ASSUME Types PROVE GreenMeansNearlyServed
    BY DEF PlacementIInv
  <2>1. \A l \in Layers : Count(l) > 0 <=> l \in Served
    BY CountZero
  <2>2. (\A l \in Layers : Count(l) > 0) => IsModelComplete
    BY <2>1, ServedIsComplete
  <2>3. ASSUME IsModelComplete, NEW l \in Layers, ~(Count(l) > 0)
        PROVE  \E n \in Reported : nodes[n].start = l + 1
    BY <2>1, <2>3, CompleteIsNearlyServed DEF Gaps
  <2> QED
    BY <2>2, <2>3 DEF GreenMeansNearlyServed
<1> QED
  BY <1>1, PlacementInvariant, PTL
=============================================================================
