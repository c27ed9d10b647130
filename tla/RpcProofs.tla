----------------------------- MODULE RpcProofs ------------------------------
(***************************************************************************)
(* Proofs about Rpc, for every number of requests, servers, restarts and   *)
(* faults.  AnswersMatch is about what tasks have been told; that it stays *)
(* true needs the same of what is on its way: it carries a number its own  *)
(* process gave out, and nobody else of that process waits for it.         *)
(***************************************************************************)
EXTENDS Rpc, TLAPS

Tasks == [process : 0 .. process \cup {None},
          stage : {"idle", "queued", "waiting", "done", "dead"},
          told : [req : Requests, success : BOOLEAN] \cup {None}]

(* A message carries a request that was made.  If the process that made it *)
(* still runs, the number is one given out already, and whoever waits for  *)
(* it is the request itself.                                               *)
Genuine ==
    {p \in Nat \X Requests :
        /\ Stage(p[2]) # "idle"
        /\ tasks[p[2]].process = process =>
              /\ p[1] <= seq_seed
              /\ p[1] \in DOMAIN waits => waits[p[1]] = p[2]}

FlightGenuine ==
    \A s \in Server :
        /\ \A i \in DOMAIN requests[s] : <<requests[s][i].seq, requests[s][i].req>> \in Genuine
        /\ \A i \in DOMAIN answers[s] : <<answers[s][i].seq, answers[s][i].req>> \in Genuine
        /\ \A h \in handlers[s] : <<h.seq, h.req>> \in Genuine

(* A task belongs to a process once it has asked; what is queued or waited *)
(* for is the running process's.                                           *)
TasksOwned ==
    /\ \A r \in Requests :
          /\ Stage(r) # "idle" => tasks[r].process \in 0 .. process
          /\ tasks[r].told # None => Stage(r) # "idle" /\ Stage(tasks[r].told.req) # "idle"
                                       /\ tasks[r].told \in [req : Requests, success : BOOLEAN]
    /\ \A i \in DOMAIN queue : Stage(queue[i]) # "idle" /\ tasks[queue[i]].process = process
    /\ \A i \in DOMAIN waits : Stage(waits[i]) # "idle" /\ tasks[waits[i]].process = process

IInv == TypeOK /\ TasksOwned /\ FlightGenuine /\ AnswersMatch

(* What is left of a sequence without its head, and with one more at its   *)
(* end.                                                                    *)
LEMMA HeadTail ==
    ASSUME NEW S, NEW q \in Seq(S), q # <<>>
    PROVE  /\ 1 \in DOMAIN q /\ Head(q) = q[1] /\ Head(q) \in S
           /\ Tail(q) \in Seq(S)
           /\ \A i \in DOMAIN Tail(q) : i + 1 \in DOMAIN q /\ Tail(q)[i] = q[i + 1]
OBVIOUS

LEMMA NoneLeft == \A S : <<>> \in Seq(S) /\ DOMAIN <<>> = {}
OBVIOUS

LEMMA Appended ==
    ASSUME NEW S, NEW q \in Seq(S), NEW e \in S
    PROVE  /\ Append(q, e) \in Seq(S)
           /\ \A i \in DOMAIN Append(q, e) :
                 \/ i \in DOMAIN q /\ Append(q, e)[i] = q[i]
                 \/ Append(q, e)[i] = e
OBVIOUS

LEMMA RpcInit == Init => IInv
<1> SUFFICES ASSUME Init PROVE IInv
  OBVIOUS
<1> USE RpcAssumption
<1>1. TypeOK
  BY DEF Init, TypeOK, Requests, Empty
<1>2. TasksOwned
  BY DEF Init, TasksOwned, Stage
<1>3. FlightGenuine
  BY DEF Init, FlightGenuine, Empty
<1>4. AnswersMatch
  BY DEF Init, AnswersMatch
<1> QED
  BY <1>1, <1>2, <1>3, <1>4 DEF IInv

LEMMA RequestStep ==
    ASSUME IInv, NEW r \in Requests, Request(r)
    PROVE  IInv'
<1> USE RpcAssumption
<1>1. TypeOK'
  <2>1. tasks \in [Requests -> Tasks] /\ process \in 0 .. process
    BY DEF IInv, TypeOK, Tasks
  <2>2. [tasks[r] EXCEPT !.process = process, !.stage = "queued"] \in Tasks
    BY <2>1 DEF Tasks
  <2>3. tasks' = [tasks EXCEPT ![r] = [tasks[r] EXCEPT !.process = process, !.stage = "queued"]]
    BY <2>1 DEF Request
  <2>4. tasks' \in [Requests -> Tasks]
    BY <2>1, <2>2, <2>3
  <2>5. queue' \in Seq(Requests)
    BY DEF IInv, TypeOK, Request
  <2> QED
    BY <2>4, <2>5 DEF IInv, TypeOK, Request, Tasks, network
<1>2. TasksOwned'
  BY DEF IInv, TypeOK, TasksOwned, Request, Stage, network
<1>3. FlightGenuine'
  <2>1. Genuine \subseteq Genuine'
    BY DEF IInv, TypeOK, Genuine, Request, Stage, network
  <2> QED
    BY <2>1 DEF IInv, FlightGenuine, Request, network
<1>4. AnswersMatch'
  BY DEF IInv, TypeOK, AnswersMatch, TasksOwned, Request, Stage, network
<1> QED
  BY <1>1, <1>2, <1>3, <1>4 DEF IInv

LEMMA SendRequestStep ==
    ASSUME IInv, SendRequest
    PROVE  IInv'
<1> DEFINE r == Head(queue)
           s == Dest[r]
           msg == [seq |-> Seq1, req |-> r]
<1> USE RpcAssumption
<1>0. /\ r \in Requests /\ s \in Server /\ Stage(r) # "idle" /\ tasks[r].process = process
      /\ Seq1 \in Nat /\ Seq1 = seq_seed + 1
      /\ tasks \in [Requests -> Tasks]
  <2>1. queue # <<>> /\ queue \in Seq(Requests)
    BY DEF IInv, TypeOK, SendRequest
  <2>2. 1 \in DOMAIN queue /\ r = queue[1] /\ r \in Requests
    BY <2>1
  <2> QED
    BY <2>2 DEF IInv, TypeOK, TasksOwned, Requests, Seq1, Tasks
<1>1. /\ queue' = Tail(queue)
      /\ seq_seed' = Seq1
      /\ waits' = [i \in DOMAIN waits \cup {Seq1} |-> IF i = Seq1 THEN r ELSE waits[i]]
      /\ tasks' = [tasks EXCEPT ![r].stage = "waiting"]
      /\ requests' = IF s \in link THEN [requests EXCEPT ![s] = Append(@, msg)] ELSE requests
      /\ unlucky' = IF s \in link THEN unlucky ELSE unlucky \cup {r}
      /\ UNCHANGED <<process, link, answers, handlers, faults>>
  BY DEF SendRequest, Seq1
<1> HIDE DEF r, s
<1>2. /\ tasks' = [tasks EXCEPT ![r] = [tasks[r] EXCEPT !.stage = "waiting"]]
      /\ [tasks[r] EXCEPT !.stage = "waiting"] \in Tasks
  BY <1>0, <1>1 DEF Tasks
<1>3. TypeOK'
  <2>1. tasks' \in [Requests -> Tasks]
    BY <1>0, <1>2
  <2>2. queue' \in Seq(Requests)
    BY <1>1 DEF IInv, TypeOK, SendRequest
  <2>3. requests' \in [Server -> Seq([seq : Nat, req : Requests])]
    BY <1>0, <1>1 DEF IInv, TypeOK
  <2>4. DOMAIN waits' \subseteq 1 .. seq_seed' /\ waits' \in [DOMAIN waits' -> Requests]
    BY <1>0, <1>1 DEF IInv, TypeOK
  <2> QED
    BY <1>0, <1>1, <2>1, <2>2, <2>3, <2>4 DEF IInv, TypeOK, Tasks
<1>4. \A q \in Requests : /\ tasks'[q].process = tasks[q].process
                          /\ tasks'[q].told = tasks[q].told
                          /\ Stage(q) # "idle" <=> Stage(q)' # "idle"
  BY <1>0, <1>1 DEF Stage, Tasks
<1>5. TasksOwned'
  <2>1. \A i \in DOMAIN queue' : queue'[i] \in Requests /\ i + 1 \in DOMAIN queue
                                    /\ queue'[i] = queue[i + 1]
    BY <1>1 DEF IInv, TypeOK, SendRequest
  <2>2. \A i \in DOMAIN queue' : Stage(queue[i])' # "idle" /\ tasks'[queue'[i]].process = process'
    BY <1>1, <1>4, <2>1 DEF IInv, TasksOwned, Stage
  <2>3. \A i \in DOMAIN waits' : Stage(waits[i])' # "idle" /\ tasks'[waits'[i]].process = process'
    BY <1>0, <1>1, <1>4 DEF IInv, TypeOK, TasksOwned, Stage
  <2>4. \A q \in Requests : Stage(q)' # "idle" => tasks'[q].process \in 0 .. process'
    BY <1>1, <1>4 DEF IInv, TasksOwned
  <2>5. \A q \in Requests : tasks'[q].told # None =>
            /\ Stage(q)' # "idle" /\ Stage(tasks[q].told.req)' # "idle"
            /\ tasks'[q].told \in [req : Requests, success : BOOLEAN]
    <3> TAKE q \in Requests
    <3> HAVE tasks'[q].told # None
    <3>1. tasks'[q].told = tasks[q].told /\ tasks[q].told.req \in Requests
      BY <1>4 DEF IInv, TasksOwned
    <3> QED
      BY <3>1, <1>4 DEF IInv, TasksOwned, Stage
  <2> QED
    BY <2>2, <2>3, <2>4, <2>5 DEF TasksOwned
<1>6. FlightGenuine'
  <2>1. Genuine \subseteq Genuine'
    BY <1>0, <1>1, <1>4 DEF IInv, TypeOK, Genuine, Stage
  <2>2. <<Seq1, r>> \in Genuine'
    BY <1>0, <1>1, <1>4 DEF Genuine, Stage, IInv, TypeOK
  <2>3. \A t \in Server : \A i \in DOMAIN requests'[t] :
            <<requests'[t][i].seq, requests'[t][i].req>> \in Genuine'
    <3> TAKE t \in Server
    <3> TAKE i \in DOMAIN requests'[t]
    <3>1. CASE t # s \/ s \notin link
      BY <3>1, <1>0, <1>1, <2>1 DEF IInv, TypeOK, FlightGenuine
    <3>2. CASE t = s /\ s \in link
      <4>1. requests'[t] = Append(requests[t], msg) /\ requests[t] \in Seq([seq : Nat, req : Requests])
        BY <3>2, <1>0, <1>1 DEF IInv, TypeOK
      <4>2. \/ i \in DOMAIN requests[t] /\ requests'[t][i] = requests[t][i]
            \/ requests'[t][i] = msg
        BY <4>1
      <4> QED
        BY <4>2, <2>1, <2>2 DEF IInv, FlightGenuine
    <3> QED
      BY <3>1, <3>2
  <2> QED
    BY <1>1, <2>1, <2>3 DEF IInv, FlightGenuine
<1>7. AnswersMatch'
  BY <1>1, <1>4 DEF IInv, AnswersMatch, TypeOK, TasksOwned
<1> QED
  BY <1>3, <1>5, <1>6, <1>7 DEF IInv

(* The steps of the servers and of the connections leave the tasks alone:  *)
(* only what is on its way changes.                                        *)
LEMMA ClientUntouched ==
    ASSUME IInv, UNCHANGED client, TypeOK', FlightGenuine'
    PROVE  IInv'
<1>1. TasksOwned'
  BY DEF IInv, TasksOwned, Stage, client
<1>2. AnswersMatch'
  BY DEF IInv, AnswersMatch, client
<1> QED
  BY <1>1, <1>2 DEF IInv

LEMMA GenuineUntouched ==
    ASSUME UNCHANGED client
    PROVE  Genuine' = Genuine
BY DEF Genuine, Stage, client

LEMMA OnReqStep ==
    ASSUME IInv, NEW s \in Server, OnReq(s)
    PROVE  IInv'
<1>1. /\ requests[s] \in Seq([seq : Nat, req : Requests]) /\ requests[s] # <<>>
      /\ UNCHANGED client
  BY DEF IInv, TypeOK, OnReq
<1>2. /\ Head(requests[s]) = requests[s][1] /\ 1 \in DOMAIN requests[s]
      /\ Head(requests[s]) \in [seq : Nat, req : Requests]
      /\ Tail(requests[s]) \in Seq([seq : Nat, req : Requests])
      /\ \A i \in DOMAIN Tail(requests[s]) :
            i + 1 \in DOMAIN requests[s] /\ Tail(requests[s])[i] = requests[s][i + 1]
  BY <1>1, HeadTail
<1>3. TypeOK'
  <2>1. requests' \in [Server -> Seq([seq : Nat, req : Requests])]
    BY <1>2 DEF IInv, TypeOK, OnReq
  <2>2. handlers' \in [Server -> SUBSET [seq : Nat, req : Requests]]
    BY <1>2 DEF IInv, TypeOK, OnReq
  <2> QED
    BY <1>1, <2>1, <2>2 DEF IInv, TypeOK, OnReq, client
<1>4. FlightGenuine'
  BY <1>1, <1>2, GenuineUntouched DEF IInv, TypeOK, FlightGenuine, OnReq
<1> QED
  BY <1>1, <1>3, <1>4, ClientUntouched

LEMMA AnswerStep ==
    ASSUME IInv, NEW s \in Server, NEW h \in handlers[s], NEW success \in BOOLEAN,
           Answer(s, h, success)
    PROVE  IInv'
<1> DEFINE res == [seq |-> h.seq, req |-> h.req, success |-> success]
           Ress == [seq : Nat, req : Requests, success : BOOLEAN]
<1>1. /\ h \in [seq : Nat, req : Requests] /\ <<h.seq, h.req>> \in Genuine
      /\ answers[s] \in Seq(Ress) /\ res \in Ress
      /\ UNCHANGED client
  <2>1. h \in [seq : Nat, req : Requests] /\ <<h.seq, h.req>> \in Genuine
    BY DEF IInv, TypeOK, FlightGenuine
  <2>2. answers[s] \in Seq(Ress)
    BY DEF IInv, TypeOK
  <2> QED
    BY <2>1, <2>2 DEF Answer
<1>2. /\ Append(answers[s], res) \in Seq(Ress)
      /\ \A i \in DOMAIN Append(answers[s], res) :
            \/ i \in DOMAIN answers[s] /\ Append(answers[s], res)[i] = answers[s][i]
            \/ Append(answers[s], res)[i] = res
  BY <1>1, Appended
<1>3. TypeOK'
  <2>1. answers' \in [Server -> Seq(Ress)]
    BY <1>1, <1>2 DEF IInv, TypeOK, Answer
  <2>2. handlers' \in [Server -> SUBSET [seq : Nat, req : Requests]] /\ unlucky' \subseteq Requests
    BY <1>1 DEF IInv, TypeOK, Answer
  <2> QED
    BY <1>1, <2>1, <2>2 DEF IInv, TypeOK, Answer, client
<1>4. FlightGenuine'
  <2>1. Genuine' = Genuine
    BY <1>1, GenuineUntouched
  <2>2. \A t \in Server : \A i \in DOMAIN answers'[t] :
            <<answers'[t][i].seq, answers'[t][i].req>> \in Genuine
    <3> TAKE t \in Server
    <3> TAKE i \in DOMAIN answers'[t]
    <3>1. CASE answers'[t] = answers[t]
      BY <3>1 DEF IInv, FlightGenuine
    <3>2. CASE t = s /\ answers'[t] = Append(answers[t], res)
      <4>1. \/ i \in DOMAIN answers[t] /\ answers'[t][i] = answers[t][i]
            \/ answers'[t][i] = res
        BY <3>2, <1>2
      <4>2. res.seq = h.seq /\ res.req = h.req
        OBVIOUS
      <4> QED
        BY <1>1, <4>1, <4>2 DEF IInv, FlightGenuine
    <3> QED
      BY <3>1, <3>2 DEF IInv, TypeOK, Answer
  <2> QED
    BY <2>1, <2>2 DEF IInv, TypeOK, FlightGenuine, Answer
<1> QED
  BY <1>1, <1>3, <1>4, ClientUntouched

LEMMA HandlerPanicsStep ==
    ASSUME IInv, NEW s \in Server, NEW h \in handlers[s], HandlerPanics(s, h)
    PROVE  IInv'
<1> USE RpcAssumption
<1>1. UNCHANGED client /\ h.req \in Requests
  BY DEF HandlerPanics, IInv, TypeOK
<1>2. TypeOK'
  <2>1. handlers' \in [Server -> SUBSET [seq : Nat, req : Requests]]
    BY DEF IInv, TypeOK, HandlerPanics
  <2>2. faults' \in 0 .. MaxFaults /\ unlucky' \subseteq Requests
    BY <1>1 DEF IInv, TypeOK, HandlerPanics
  <2> QED
    BY <1>1, <2>1, <2>2 DEF IInv, TypeOK, HandlerPanics, client, network
<1>3. FlightGenuine'
  BY <1>1, GenuineUntouched DEF IInv, TypeOK, FlightGenuine, HandlerPanics, network
<1> QED
  BY <1>1, <1>2, <1>3, ClientUntouched

LEMMA DisconnectedStep ==
    ASSUME IInv, NEW s \in Server, Disconnected(s)
    PROVE  IInv'
<1> USE RpcAssumption
<1>1. UNCHANGED client
  BY DEF Disconnected
<1>2. TypeOK'
  <2>1. /\ requests' \in [Server -> Seq([seq : Nat, req : Requests])]
        /\ answers' \in [Server -> Seq([seq : Nat, req : Requests, success : BOOLEAN])]
    BY NoneLeft DEF IInv, TypeOK, Disconnected
  <2>2. faults' \in 0 .. MaxFaults /\ unlucky' \subseteq Requests /\ link' \subseteq Server
    BY DEF IInv, TypeOK, Disconnected, Pending
  <2> QED
    BY <1>1, <2>1, <2>2 DEF IInv, TypeOK, Disconnected, client
<1>3. FlightGenuine'
  BY <1>1, GenuineUntouched DEF IInv, TypeOK, FlightGenuine, Disconnected
<1> QED
  BY <1>1, <1>2, <1>3, ClientUntouched

LEMMA ConnectedStep ==
    ASSUME IInv, NEW s \in Server, Connected(s)
    PROVE  IInv'
<1>1. UNCHANGED client
  BY DEF Connected
<1>2. TypeOK'
  BY <1>1 DEF IInv, TypeOK, Connected, client
<1>3. FlightGenuine'
  BY <1>1, GenuineUntouched DEF IInv, TypeOK, FlightGenuine, Connected
<1> QED
  BY <1>1, <1>2, <1>3, ClientUntouched

LEMMA OnResStep ==
    ASSUME IInv, NEW s \in Server, OnRes(s)
    PROVE  IInv'
<1> DEFINE res == Head(answers[s])
           r == waits[res.seq]
           told == [req |-> res.req, success |-> res.success]
           Ress == [seq : Nat, req : Requests, success : BOOLEAN]
<1>1. /\ answers[s] \in Seq(Ress) /\ answers[s] # <<>>
      /\ answers' = [answers EXCEPT ![s] = Tail(@)]
      /\ tasks \in [Requests -> Tasks]
      /\ UNCHANGED <<process, queue, seq_seed, link, requests, handlers, faults, unlucky>>
  BY DEF IInv, TypeOK, OnRes, Tasks
<1>2. /\ res \in Ress /\ <<res.seq, res.req>> \in Genuine
      /\ Tail(answers[s]) \in Seq(Ress)
      /\ \A i \in DOMAIN Tail(answers[s]) :
            i + 1 \in DOMAIN answers[s] /\ Tail(answers[s])[i] = answers[s][i + 1]
  <2>1. /\ res \in Ress /\ res = answers[s][1] /\ 1 \in DOMAIN answers[s]
        /\ Tail(answers[s]) \in Seq(Ress)
        /\ \A i \in DOMAIN Tail(answers[s]) :
              i + 1 \in DOMAIN answers[s] /\ Tail(answers[s])[i] = answers[s][i + 1]
    BY <1>1, HeadTail
  <2> QED
    BY <2>1 DEF IInv, FlightGenuine
<1>3. answers' \in [Server -> Seq(Ress)]
  BY <1>1, <1>2 DEF IInv, TypeOK
<1>4. CASE ~Concerns(res)
  <2>1. UNCHANGED client
    BY <1>1, <1>4 DEF OnRes, client
  <2>2. TypeOK'
    BY <1>1, <1>3, <2>1 DEF IInv, TypeOK, client
  <2>3. FlightGenuine'
    BY <1>1, <1>2, <2>1, GenuineUntouched DEF IInv, TypeOK, FlightGenuine
  <2> QED
    BY <2>1, <2>2, <2>3, ClientUntouched
<1>5. CASE Concerns(res)
  <2>1. /\ res.seq \in DOMAIN waits /\ r \in Requests
        /\ Stage(r) # "idle" /\ tasks[r].process = process
    BY <1>5 DEF Concerns, IInv, TypeOK, TasksOwned
  <2>2. /\ waits' = [i \in DOMAIN waits \ {res.seq} |-> waits[i]]
        /\ tasks' = [tasks EXCEPT ![r].stage = "done", ![r].told = told]
    BY <1>5 DEF OnRes, Asker
  <2>3. /\ told \in [req : Requests, success : BOOLEAN]
        /\ Stage(told.req) # "idle"
        /\ told.req = r \/ tasks[told.req].process < process
    <3>1. res.req \in Requests /\ Stage(res.req) # "idle"
      BY <1>2 DEF Genuine
    <3>2. res.req = r \/ tasks[res.req].process # process
      BY <1>2, <2>1 DEF Genuine
    <3>3. tasks[res.req].process \in 0 .. process /\ process \in Nat
      BY <3>1 DEF IInv, TypeOK, TasksOwned
    <3> QED
      BY <1>2, <3>1, <3>2, <3>3
  <2> HIDE DEF res, r, told, Ress
  <2>4. /\ tasks' = [tasks EXCEPT ![r] = [tasks[r] EXCEPT !.stage = "done", !.told = told]]
        /\ [tasks[r] EXCEPT !.stage = "done", !.told = told] \in Tasks
    BY <1>1, <2>1, <2>2, <2>3 DEF Tasks
  <2>5. \A q \in Requests : /\ tasks'[q].process = tasks[q].process
                            /\ Stage(q) # "idle" <=> Stage(q)' # "idle"
                            /\ tasks'[q].told = IF q = r THEN told ELSE tasks[q].told
    BY <1>1, <2>1, <2>4 DEF Stage, Tasks
  <2>6. TypeOK'
    <3>1. tasks' \in [Requests -> Tasks]
      BY <1>1, <2>1, <2>4
    <3>2. DOMAIN waits' \subseteq 1 .. seq_seed' /\ waits' \in [DOMAIN waits' -> Requests]
      BY <1>1, <2>2 DEF IInv, TypeOK
    <3> QED
      BY <1>1, <1>3, <3>1, <3>2 DEF IInv, TypeOK, Tasks, Ress
  <2>7. TasksOwned'
    <3>1. \A q \in Requests : Stage(q)' # "idle" => tasks'[q].process \in 0 .. process'
      BY <1>1, <2>5 DEF IInv, TasksOwned
    <3>2. \A q \in Requests : tasks'[q].told # None =>
              /\ Stage(q)' # "idle" /\ Stage(tasks[q].told.req)' # "idle"
              /\ tasks'[q].told \in [req : Requests, success : BOOLEAN]
      <4> TAKE q \in Requests
      <4> HAVE tasks'[q].told # None
      <4>1. CASE q = r
        BY <4>1, <2>1, <2>3, <2>5 DEF Stage
      <4>2. CASE q # r
        <5>1. tasks'[q].told = tasks[q].told /\ tasks[q].told.req \in Requests
          BY <4>2, <2>5 DEF IInv, TasksOwned
        <5> QED
          BY <5>1, <2>5 DEF IInv, TasksOwned, Stage
      <4> QED
        BY <4>1, <4>2
    <3>3. \A i \in DOMAIN queue' : Stage(queue[i])' # "idle" /\ tasks'[queue'[i]].process = process'
      BY <1>1, <2>5 DEF IInv, TypeOK, TasksOwned, Stage
    <3>4. \A i \in DOMAIN waits' : Stage(waits[i])' # "idle" /\ tasks'[waits'[i]].process = process'
      BY <1>1, <2>2, <2>5 DEF IInv, TypeOK, TasksOwned, Stage
    <3> QED
      BY <3>1, <3>2, <3>3, <3>4 DEF TasksOwned
  <2>8. FlightGenuine'
    <3>1. Genuine \subseteq Genuine'
      BY <1>1, <2>2, <2>5 DEF Genuine, Stage
    <3> QED
      BY <1>1, <1>2, <3>1 DEF IInv, TypeOK, FlightGenuine
  <2>9. AnswersMatch'
    <3> SUFFICES ASSUME NEW q \in Requests, tasks'[q].told # None
                 PROVE  \/ tasks'[q].told.req = q
                        \/ tasks'[tasks'[q].told.req].process < tasks'[q].process
      BY DEF AnswersMatch
    <3>1. CASE q = r
      BY <3>1, <2>1, <2>3, <2>5
    <3>2. CASE q # r
      <4>1. tasks'[q].told = tasks[q].told /\ tasks[q].told.req \in Requests
        BY <3>2, <2>5 DEF IInv, TasksOwned
      <4> QED
        BY <4>1, <2>5 DEF IInv, AnswersMatch
    <3> QED
      BY <3>1, <3>2
  <2> QED
    BY <2>6, <2>7, <2>8, <2>9 DEF IInv
<1> QED
  BY <1>4, <1>5

LEMMA RestartStep ==
    ASSUME IInv, Restart
    PROVE  IInv'
<1> USE RpcAssumption
<1>1. process \in Nat /\ process' = process + 1 /\ process' \in 0 .. MaxRestarts
  BY DEF IInv, TypeOK, Restart
<1>2. /\ tasks' = [r \in Requests |-> IF r \in Pending THEN [tasks[r] EXCEPT !.stage = "dead"]
                                      ELSE tasks[r]]
      /\ tasks \in [Requests -> Tasks]
  BY DEF IInv, TypeOK, Restart, Tasks
<1>3. \A q \in Requests : /\ tasks'[q].process = tasks[q].process
                          /\ tasks'[q].told = tasks[q].told
                          /\ Stage(q) # "idle" <=> Stage(q)' # "idle"
                          /\ tasks'[q] \in Tasks'
  BY <1>1, <1>2 DEF Stage, Tasks, Pending
<1>4. TypeOK'
  <2>1. tasks' \in [Requests -> Tasks']
    BY <1>2, <1>3
  <2>2. /\ requests' \in [Server -> Seq([seq : Nat, req : Requests])]
        /\ answers' \in [Server -> Seq([seq : Nat, req : Requests, success : BOOLEAN])]
        /\ queue' \in Seq(Requests)
    BY NoneLeft DEF Restart, Empty
  <2>3. waits' \in [DOMAIN waits' -> Requests] /\ DOMAIN waits' \subseteq 1 .. seq_seed'
    BY NoneLeft DEF Restart
  <2> QED
    BY <1>1, <2>1, <2>2, <2>3 DEF IInv, TypeOK, Tasks, Restart
<1>5. \A q \in Requests : Stage(q)' # "idle" => tasks'[q].process \in 0 .. process
  BY <1>3 DEF IInv, TasksOwned
<1>6. TasksOwned'
  <2>1. \A q \in Requests : tasks'[q].told # None =>
            /\ Stage(q)' # "idle" /\ Stage(tasks[q].told.req)' # "idle"
            /\ tasks'[q].told \in [req : Requests, success : BOOLEAN]
    <3> TAKE q \in Requests
    <3> HAVE tasks'[q].told # None
    <3>1. tasks'[q].told = tasks[q].told /\ tasks[q].told.req \in Requests
      BY <1>3 DEF IInv, TasksOwned
    <3> QED
      BY <3>1, <1>3 DEF IInv, TasksOwned, Stage
  <2> QED
    BY <1>1, <1>5, <2>1, NoneLeft DEF TasksOwned, Restart
<1>7. FlightGenuine'
  <2>1. Genuine \subseteq Genuine'
    BY <1>1, <1>3, <1>5 DEF Genuine, Stage
  <2> QED
    BY <2>1, NoneLeft DEF IInv, FlightGenuine, Restart, Empty
<1>8. AnswersMatch'
  BY <1>3 DEF IInv, AnswersMatch, TasksOwned
<1> QED
  BY <1>4, <1>6, <1>7, <1>8 DEF IInv

(* The invariant behind the two results below: types, whose process a task *)
(* is of, and that what is on its way is genuine.                          *)
THEOREM RpcInvariant == Spec => []IInv
<1>1. Init => IInv
  BY RpcInit
<1>2. IInv /\ [Next]_vars => IInv'
  <2> SUFFICES ASSUME IInv, [Next]_vars PROVE IInv'
    OBVIOUS
  <2>1. ASSUME NEW r \in Requests, Request(r) PROVE IInv'
    BY <2>1, RequestStep
  <2>2. CASE SendRequest
    BY <2>2, SendRequestStep
  <2>3. ASSUME NEW s \in Server,
               OnReq(s) \/ OnRes(s) \/ Disconnected(s) \/ Connected(s)
        PROVE  IInv'
    BY <2>3, OnReqStep, OnResStep, DisconnectedStep, ConnectedStep
  <2>4. ASSUME NEW s \in Server, NEW h \in handlers[s],
               HandlerPanics(s, h) \/ \E ok \in BOOLEAN : Answer(s, h, ok)
        PROVE  IInv'
    BY <2>4, HandlerPanicsStep, AnswerStep
  <2>5. CASE Restart
    BY <2>5, RestartStep
  <2>6. CASE UNCHANGED vars
    <3>1. UNCHANGED client /\ UNCHANGED <<network, handlers, faults, unlucky>>
      BY <2>6 DEF vars
    <3>2. TypeOK'
      BY <3>1 DEF IInv, TypeOK, client, network
    <3>3. FlightGenuine'
      BY <3>1, GenuineUntouched DEF IInv, FlightGenuine, network
    <3> QED
      BY <3>1, <3>2, <3>3, ClientUntouched
  <2> QED
    BY <2>1, <2>2, <2>3, <2>4, <2>5, <2>6 DEF Next
<1> QED
  BY <1>1, <1>2, PTL DEF Spec

(* rpc.rs: an answer reaches the task that asked for it, in whatever order *)
(* handlers finish and over however many restarts -- or, the numbers being *)
(* the process's own, a task of a later process.                           *)
THEOREM RpcAnswersMatch == Spec => []AnswersMatch
<1>1. IInv => AnswersMatch
  BY DEF IInv
<1> QED
  BY <1>1, RpcInvariant, PTL
=============================================================================
