-------------------------------- MODULE Rpc ---------------------------------
(***************************************************************************)
(* Requests between workers (crates/worker/src/rpc.rs, and the RPC         *)
(* branches of WorkerCommunication::recv).  A task of the asking worker    *)
(* hands a request to the worker's main loop, which numbers it, notes who  *)
(* waits for that number, and sends it.  The asked worker answers each     *)
(* request from a task of its own, addressed to the node id it came from.  *)
(*                                                                         *)
(* There is no timeout, no list of requests to a worker that is gone, and  *)
(* the numbers start again with every process.  What is asked and answered *)
(* is ChatChain's; here an answer is known by the request it was made for. *)
(***************************************************************************)
EXTENDS Integers, Sequences, FiniteSets

CONSTANTS
    Server,        \* the workers that are asked
    Dest,          \* Dest[r]: the worker request r is for; its domain, the
                   \*   requests, bounds their number
    MaxRestarts,   \* bound: restarts of the asking process
    MaxFaults,     \* bound: connections that are lost, handlers that panic
    None

ASSUME RpcAssumption ==
    /\ Dest \in [DOMAIN Dest -> Server]
    /\ MaxRestarts \in Nat /\ MaxFaults \in Nat

Requests == DOMAIN Dest

VARIABLES
    process,    \* which process of the asking worker runs
    tasks,      \* tasks[r]: the process r is of, its stage, and what it was told
    queue,      \* the channel from the tasks to the main loop
    seq_seed,   \* RpcClientRx.seq_seed
    waits,      \* RpcClientRx.waits: the request that waits for a number
    link,       \* the servers the asking worker is connected to
    requests,   \* requests[s]: RpcReqs on their way to s
    answers,    \* answers[s]: RpcRess on their way from s
    handlers,   \* handlers[s]: the requests s's tasks work on
    faults,     \* number of faults so far
    unlucky     \* history: requests that a fault may have cost their answer

client == <<process, tasks, queue, seq_seed, waits>>
network == <<link, requests, answers>>
vars == <<client, network, handlers, faults, unlucky>>

Stage(r) == tasks[r].stage

Pending == {r \in Requests : Stage(r) \in {"queued", "waiting"}}

Empty == [s \in Server |-> <<>>]

Init ==
    /\ process = 0
    /\ tasks = [r \in Requests |-> [process |-> None, stage |-> "idle", told |-> None]]
    /\ queue = <<>>
    /\ seq_seed = 0
    /\ waits = <<>>
    /\ link = Server
    /\ requests = Empty
    /\ answers = Empty
    /\ handlers = [s \in Server |-> {}]
    /\ faults = 0
    /\ unlucky = {}

-----------------------------------------------------------------------------
(* RpcClientTx::request, up to its wait for the answer. *)
Request(r) ==
    /\ Stage(r) = "idle"
    /\ tasks' = [tasks EXCEPT ![r].process = process, ![r].stage = "queued"]
    /\ queue' = Append(queue, r)
    /\ UNCHANGED <<process, seq_seed, waits, network, handlers, faults, unlucky>>

(* The next number. *)
Seq1 == seq_seed + 1

(* RpcClientRx::recv, and network.send: without a connection the request   *)
(* is only logged, and its task keeps waiting.                             *)
SendRequest ==
    /\ queue # <<>>
    /\ LET r == Head(queue)
           s == Dest[r]
       IN  /\ queue' = Tail(queue)
           /\ seq_seed' = seq_seed + 1
           /\ waits' = [i \in DOMAIN waits \cup {Seq1} |-> IF i = Seq1 THEN r ELSE waits[i]]
           /\ tasks' = [tasks EXCEPT ![r].stage = "waiting"]
           /\ requests' = IF s \in link
                          THEN [requests EXCEPT ![s] = Append(@, [seq |-> Seq1, req |-> r])]
                          ELSE requests
           /\ unlucky' = IF s \in link THEN unlucky ELSE unlucky \cup {r}
    /\ UNCHANGED <<process, link, answers, handlers, faults>>

(* RpcReq: a task of its own for each request. *)
OnReq(s) ==
    /\ requests[s] # <<>>
    /\ handlers' = [handlers EXCEPT ![s] = @ \cup {Head(requests[s])}]
    /\ requests' = [requests EXCEPT ![s] = Tail(@)]
    /\ UNCHANGED <<client, link, answers, faults, unlucky>>

(* The task is done, well or badly: its answer goes to whatever process is *)
(* connected under the node id the request came from.                      *)
Answer(s, h, success) ==
    /\ handlers' = [handlers EXCEPT ![s] = @ \ {h}]
    /\ answers' = IF s \in link
                  THEN [answers EXCEPT ![s] = Append(@, [seq |-> h.seq, req |-> h.req,
                                                         success |-> success])]
                  ELSE answers
    /\ unlucky' = IF s \in link THEN unlucky ELSE unlucky \cup {h.req}
    /\ UNCHANGED <<client, link, requests, faults>>

(* A panic of the handler: its answer never comes. *)
HandlerPanics(s, h) ==
    /\ faults < MaxFaults
    /\ faults' = faults + 1
    /\ handlers' = [handlers EXCEPT ![s] = @ \ {h}]
    /\ unlucky' = unlucky \cup {h.req}
    /\ UNCHANGED <<client, network>>

(* What is told the task: the answer, or RPC_ERROR.  Faulty, here and      *)
(* below: not the code but a mistake it could have made, kept to show that *)
(* a property would notice it.  Here: only answers of success are passed   *)
(* on.                                                                     *)
ConcernsSuccess(res) == res.success /\ res.seq \in DOMAIN waits

Concerns(res) == res.seq \in DOMAIN waits

(* Who is told.  Faulty: the one that has waited longest. *)
AskerFirst(res) == waits[CHOOSE i \in DOMAIN waits : \A j \in DOMAIN waits : i <= j]

Asker(res) == waits[res.seq]

(* RpcClientRx::on_res: whoever waits for the number is told, whoever it   *)
(* is that answers.                                                        *)
OnRes(s) ==
    /\ answers[s] # <<>>
    /\ LET res == Head(answers[s])
       IN  IF Concerns(res)
           THEN LET r == Asker(res)
                IN  /\ waits' = [i \in DOMAIN waits \ {res.seq} |-> waits[i]]
                    /\ tasks' = [tasks EXCEPT ![r].stage = "done",
                                              ![r].told = [req |-> res.req, success |-> res.success]]
           ELSE UNCHANGED <<waits, tasks>>
    /\ answers' = [answers EXCEPT ![s] = Tail(@)]
    /\ UNCHANGED <<process, queue, seq_seed, link, requests, handlers, faults, unlucky>>

-----------------------------------------------------------------------------
(* The connection to s is lost, and what was on its way with it.  The      *)
(* tasks are not told.                                                     *)
Disconnected(s) ==
    /\ s \in link /\ faults < MaxFaults
    /\ faults' = faults + 1
    /\ link' = link \ {s}
    /\ requests' = [requests EXCEPT ![s] = <<>>]
    /\ answers' = [answers EXCEPT ![s] = <<>>]
    /\ unlucky' = unlucky \cup {r \in Pending : Dest[r] = s}
    /\ UNCHANGED <<client, handlers>>

Connected(s) ==
    /\ s \notin link
    /\ link' = link \cup {s}
    /\ UNCHANGED <<client, requests, answers, handlers, faults, unlucky>>

(* The asking process ends, with its tasks, and a new one starts under the *)
(* same node id.  The handlers at the servers work on.                     *)
Restart ==
    /\ process < MaxRestarts
    /\ process' = process + 1
    /\ tasks' = [r \in Requests |-> IF r \in Pending THEN [tasks[r] EXCEPT !.stage = "dead"]
                                    ELSE tasks[r]]
    /\ queue' = <<>>
    /\ seq_seed' = 0
    /\ waits' = <<>>
    /\ link' = {}
    /\ requests' = Empty
    /\ answers' = Empty
    /\ UNCHANGED <<handlers, faults, unlucky>>

Next ==
    \/ \E r \in Requests : Request(r)
    \/ SendRequest
    \/ \E s \in Server :
          \/ OnReq(s) \/ OnRes(s) \/ Disconnected(s) \/ Connected(s)
          \/ \E h \in handlers[s] : HandlerPanics(s, h) \/ \E ok \in BOOLEAN : Answer(s, h, ok)
    \/ Restart

Spec == Init /\ [][Next]_vars

(* Both main loops go on, and a handler that does not panic returns.       *)
FairSpec ==
    /\ Spec
    /\ WF_vars(SendRequest)
    /\ \A s \in Server :
          /\ WF_vars(OnReq(s)) /\ WF_vars(OnRes(s))
          /\ \A r \in Requests :
                WF_vars(\E h \in handlers[s] : h.req = r /\ \E ok \in BOOLEAN : Answer(s, h, ok))

-----------------------------------------------------------------------------
(* Every variable has its type. *)
TypeOK ==
    /\ process \in 0 .. MaxRestarts /\ faults \in 0 .. MaxFaults
    /\ tasks \in [Requests -> [process : 0 .. process \cup {None},
                              stage : {"idle", "queued", "waiting", "done", "dead"},
                              told : [req : Requests, success : BOOLEAN] \cup {None}]]
    /\ queue \in Seq(Requests)
    /\ seq_seed \in Nat
    /\ DOMAIN waits \subseteq 1 .. seq_seed
    /\ waits \in [DOMAIN waits -> Requests]
    /\ link \subseteq Server /\ unlucky \subseteq Requests
    /\ requests \in [Server -> Seq([seq : Nat, req : Requests])]
    /\ answers \in [Server -> Seq([seq : Nat, req : Requests, success : BOOLEAN])]
    /\ handlers \in [Server -> SUBSET [seq : Nat, req : Requests]]

(* The answer a task is told is the one to its own request, in whatever    *)
(* order the handlers finish -- or one to a request of an earlier process: *)
(* the numbers start again, and a handler that outlives the asking process *)
(* answers to its successor (rpc.rs:52, communication.rs:135).             *)
AnswersMatch ==
    \A r \in Requests :
        tasks[r].told # None =>
            \/ tasks[r].told.req = r
            \/ tasks[tasks[r].told.req].process < tasks[r].process

(* A request is answered, or fails, unless a fault came in between: the    *)
(* connection was lost, there was none, a handler panicked, or the asking  *)
(* process ended.  After one of those, nothing ends the wait.              *)
RequestsEnd ==
    \A r \in Requests :
        Stage(r) \in {"queued", "waiting"} ~> (Stage(r) \in {"done", "dead"} \/ r \in unlucky)
=============================================================================
