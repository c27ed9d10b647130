------------------------------ MODULE Control -------------------------------
(***************************************************************************)
(* A contributor's control plane: the handlers of p2p_start, p2p_stop and  *)
(* p2p_status (bin/openai-server/src/api_control.rs), which hold the lock  *)
(* of `models` while they wait; one worker task per started model          *)
(* (worker.rs); and the way of a chat through the dispatcher and           *)
(* `ModelStore` to a worker (lib.rs, crates/openai-http).                  *)
(*                                                                         *)
(* A worker is named by the request that started it.  A handler whose      *)
(* client disconnects is dropped where it waits, and its lock with it; a   *)
(* handler or a worker that panics ends, and what it owned is dropped.     *)
(***************************************************************************)
EXTENDS Integers, Sequences, SequencesExt

CONSTANTS
    Request,      \* control requests
    Op,           \* Op[r]: "start", "stop" or "status"
    Model,
    ModelOf,      \* ModelOf[r]: the model r names; of no account in a status
    Chat,
    ChatModel,    \* ChatModel[c]: the model that chat c asks for
    CONTROL_CAP,  \* capacity of a worker's control channel; 10 in the code
    CHAT_CAP,     \* capacity of the dispatcher's channel; 10 in the code
    MaxFaults,    \* bound: clients that leave, workers that fail
    None

ASSUME ControlAssumption ==
    /\ Op \in [Request -> {"start", "stop", "status"}]
    /\ ModelOf \in [Request -> Model]
    /\ ChatModel \in [Chat -> Model]
    /\ CONTROL_CAP \in Nat \ {0}
    /\ CHAT_CAP \in Nat \ {0}
    /\ MaxFaults \in Nat
    /\ None \notin Request \cup Model

VARIABLES
    phase,      \* phase[r]: where the handler of r is
    lock,       \* the request that holds the lock of `models`, or None
    todo,       \* todo[r]: the models r has yet to ask
    models,     \* models[m]: the worker entered for m, or None
    worker,     \* worker[w]: none, loading, running, leaving or gone
    control,    \* control[w]: the requests in w's control channel
    store,      \* store[m]: the worker whose sender ModelStore has for m
    chat,       \* chat[c]: new, queued, run or dropped
    queue,      \* the dispatcher's channel
    sending,    \* what the dispatcher sends: a chat and a worker, or None
    chat_rx,    \* chat_rx[w]: the chats in w's channel, of capacity 1
    faults,     \* number of faults so far
    failed,     \* history: workers that ended otherwise than by an answered stop
    overtaken   \* history: workers added while an older one was leaving

vars == <<phase, lock, todo, models, worker, control, store, chat, queue, sending,
          chat_rx, faults, failed, overtaken>>

handlers == <<phase, lock, todo>>
chats    == <<chat, queue, sending, chat_rx>>
history  == <<failed, overtaken>>

Init ==
    /\ phase = [r \in Request |-> "new"]
    /\ lock = None
    /\ todo = [r \in Request |-> {}]
    /\ models = [m \in Model |-> None]
    /\ worker = [w \in Request |-> "none"]
    /\ control = [w \in Request |-> <<>>]
    /\ store = [m \in Model |-> None]
    /\ chat = [c \in Chat |-> "new"]
    /\ queue = <<>>
    /\ sending = None
    /\ chat_rx = [w \in Request |-> <<>>]
    /\ faults = 0
    /\ failed = {} /\ overtaken = {}

-----------------------------------------------------------------------------
(* The handlers.                                                           *)

(* Stages at which a handler has the lock. *)
Holding == {"init", "send", "wait", "answered", "broken"}

(* Faulty: a handler that panics leaves the lock locked. *)
ReturnKeepsLock(r) ==
    /\ phase' = [phase EXCEPT ![r] = "done"]
    /\ lock' = IF phase[r] = "broken" THEN lock ELSE None

(* The end of a handler, with a response or a panic: the guard is dropped. *)
Return(r) ==
    /\ phase' = [phase EXCEPT ![r] = "done"]
    /\ lock' = None

Arrive(r) ==
    /\ phase[r] = "new"
    /\ phase' = [phase EXCEPT ![r] = "lock"]
    /\ UNCHANGED <<lock, todo, models, worker, control, store, chats, faults, history>>

(* The models a stop or a status has to ask the workers of. *)
Asked(r) ==
    {m \in Model : models[m] # None /\ (Op[r] = "status" \/ m = ModelOf[r])}

(* Faulty: a start does not look whether the model is there. *)
NothingToDoStartsAnyway(r) == Op[r] # "start" /\ Asked(r) = {}

(* A start of what is there and a stop of what is not are refused, and a   *)
(* status of nothing is empty.                                             *)
NothingToDo(r) == (Op[r] = "start") = (Asked(r) # {})

(* models.lock().await, up to the first wait behind it. *)
Lock(r) ==
    /\ phase[r] = "lock" /\ lock = None
    /\ IF NothingToDo(r)
       THEN Return(r) /\ UNCHANGED todo
       ELSE /\ lock' = r
            /\ todo' = [todo EXCEPT ![r] = Asked(r)]
            /\ phase' = [phase EXCEPT ![r] = IF Op[r] = "start" THEN "init" ELSE "send"]
    /\ UNCHANGED <<models, worker, control, store, chats, faults, history>>

(* p2p_start, once OnChainService::init is done: the worker is spawned and *)
(* entered.                                                                *)
P2pStart(r) ==
    /\ phase[r] = "init"
    /\ worker' = [worker EXCEPT ![r] = "loading"]
    /\ models' = [models EXCEPT ![ModelOf[r]] = r]
    /\ Return(r)
    /\ UNCHANGED <<todo, control, store, chats, faults, history>>

Room(ch, cap) == Len(ch) < cap

(* query_tx.send(..).await.unwrap() *)
Send(r) ==
    /\ phase[r] = "send"
    /\ \E m \in todo[r] :
          LET w == models[m]
          IN  \/ /\ worker[w] = "gone"
                 /\ Return(r)
                 /\ UNCHANGED <<todo, control>>
              \/ /\ worker[w] # "gone" /\ Room(control[w], CONTROL_CAP)
                 /\ control' = [control EXCEPT ![w] = Append(@, r)]
                 /\ todo' = [todo EXCEPT ![r] = @ \ {m}]
                 /\ phase' = [phase EXCEPT ![r] = "wait"]
                 /\ UNCHANGED lock
    /\ UNCHANGED <<models, worker, store, chats, faults, history>>

(* Faulty: the entry of a stopped model stays. *)
StoppedKeepsEntry(m) == models' = models

Stopped(m) == models' = [models EXCEPT ![m] = None]

(* rx.await.unwrap(), answered: p2p_stop removes the model, p2p_status     *)
(* asks the next one.                                                      *)
Answered(r) ==
    /\ phase[r] = "answered"
    /\ \/ Op[r] = "stop" /\ Stopped(ModelOf[r]) /\ Return(r)
       \/ Op[r] = "status" /\ todo[r] = {} /\ Return(r) /\ UNCHANGED models
       \/ /\ Op[r] = "status" /\ todo[r] # {}
          /\ phase' = [phase EXCEPT ![r] = "send"]
          /\ UNCHANGED <<lock, models>>
    /\ UNCHANGED <<todo, worker, control, store, chats, faults, history>>

(* rx.await.unwrap(), when the worker dropped the sender. *)
Broken(r) ==
    /\ phase[r] = "broken"
    /\ Return(r)
    /\ UNCHANGED <<todo, models, worker, control, store, chats, faults, history>>

(* The client disconnects and the server drops the handler. *)
ClientLeaves(r) ==
    /\ phase[r] \in Holding \cup {"lock"}
    /\ faults < MaxFaults
    /\ faults' = faults + 1
    /\ phase' = [phase EXCEPT ![r] = "left"]
    /\ lock' = IF lock = r THEN None ELSE lock
    /\ failed' = IF Op[r] = "stop" /\ phase[r] = "answered"
                 THEN failed \cup {models[ModelOf[r]]} ELSE failed
    /\ UNCHANGED <<todo, models, worker, control, store, chats, overtaken>>

-----------------------------------------------------------------------------
(* The workers.                                                            *)

(* w's task is over: the receivers are dropped, with what is in them. *)
Gone(w) ==
    /\ worker' = [worker EXCEPT ![w] = "gone"]
    /\ control' = [control EXCEPT ![w] = <<>>]
    /\ phase' = [r \in Request |->
                    IF r \in Range(control[w]) /\ phase[r] = "wait" THEN "broken" ELSE phase[r]]
    /\ chat_rx' = [chat_rx EXCEPT ![w] = <<>>]
    /\ chat' = [c \in Chat |-> IF c \in Range(chat_rx[w]) THEN "dropped" ELSE chat[c]]

(* ModelStore::add_model *)
AddModel(w) == store' = [store EXCEPT ![ModelOf[w]] = w]

(* run_model_worker has loaded the model and connected to the registry. *)
Load(w) ==
    /\ worker[w] = "loading"
    /\ worker' = [worker EXCEPT ![w] = "running"]
    /\ AddModel(w)
    /\ overtaken' = IF \E v \in Request : worker[v] = "leaving" /\ ModelOf[v] = ModelOf[w]
                    THEN overtaken \cup {w} ELSE overtaken
    /\ UNCHANGED <<handlers, models, control, chats, faults, failed>>

(* A Status or a Stop: sender.send(..).unwrap() panics if the caller left. *)
OnControl(w) ==
    /\ worker[w] = "running" /\ control[w] # <<>>
    /\ LET r == Head(control[w])
       IN  IF phase[r] = "wait"
           THEN /\ control' = [control EXCEPT ![w] = Tail(@)]
                /\ phase' = [phase EXCEPT ![r] = "answered"]
                /\ worker' = [worker EXCEPT ![w] = IF Op[r] = "stop" THEN "leaving" ELSE @]
                /\ UNCHANGED <<chat, chat_rx, failed>>
           ELSE Gone(w) /\ failed' = failed \cup {w}
    /\ UNCHANGED <<lock, todo, models, store, queue, sending, faults, overtaken>>

(* A chat: it runs in a task of its own. *)
OnChat(w) ==
    /\ worker[w] = "running" /\ chat_rx[w] # <<>>
    /\ chat' = [chat EXCEPT ![Head(chat_rx[w])] = "run"]
    /\ chat_rx' = [chat_rx EXCEPT ![w] = Tail(@)]
    /\ UNCHANGED <<handlers, models, worker, control, store, queue, sending, faults, history>>

Leaving(w) ==
    /\ worker[w] = "running"
    /\ worker' = [worker EXCEPT ![w] = "leaving"]
    /\ failed' = failed \cup {w}
    /\ UNCHANGED <<handlers, models, control, store, chats, overtaken>>

(* chat_rx closed: neither the store nor the dispatcher has its sender.    *)
(* (The control channel is not closed while the worker runs: its sender is *)
(* in `models`, by RunningCanBeStopped.)                                   *)
ChatClosed(w) ==
    /\ chat_rx[w] = <<>> /\ store[ModelOf[w]] # w
    /\ ~(sending # None /\ sending.to = w)
    /\ Leaving(w)
    /\ UNCHANGED faults

(* worker.recv() ends: the socket failed. *)
Closed(w) ==
    /\ faults < MaxFaults
    /\ faults' = faults + 1
    /\ Leaving(w)

(* A panic: the model does not load, or the registry is lost. *)
Crash(w) ==
    /\ worker[w] \in {"loading", "running"}
    /\ faults < MaxFaults
    /\ faults' = faults + 1
    /\ Gone(w)
    /\ failed' = failed \cup {w}
    /\ UNCHANGED <<lock, todo, models, store, queue, sending, overtaken>>

(* Faulty: the store is cleared. *)
RemoveModelAll(m) == store' = [x \in Model |-> None]

(* ModelStore::remove_model: whosever entry it is. *)
RemoveModel(m) == store' = [store EXCEPT ![m] = None]

(* The end of run_model_worker_internal. *)
Finished(w) ==
    /\ worker[w] = "leaving"
    /\ RemoveModel(ModelOf[w])
    /\ Gone(w)
    /\ UNCHANGED <<lock, todo, models, queue, sending, faults, history>>

-----------------------------------------------------------------------------
(* The chats.                                                              *)

ChatCompletions(c) ==
    /\ chat[c] = "new" /\ Room(queue, CHAT_CAP)
    /\ chat' = [chat EXCEPT ![c] = "queued"]
    /\ queue' = Append(queue, c)
    /\ UNCHANGED <<handlers, models, worker, control, store, sending, chat_rx, faults, history>>

(* The dispatcher takes a chat, and send_model looks up the sender. *)
Dispatch ==
    /\ queue # <<>> /\ sending = None
    /\ queue' = Tail(queue)
    /\ LET c == Head(queue)
           w == store[ChatModel[c]]
       IN  IF w = None
           THEN chat' = [chat EXCEPT ![c] = "dropped"] /\ UNCHANGED sending
           ELSE sending' = [chat |-> c, to |-> w] /\ UNCHANGED chat
    /\ UNCHANGED <<handlers, models, worker, control, store, chat_rx, faults, history>>

(* Faulty: nobody is told that the worker is gone. *)
SendFailsSilently(c) == UNCHANGED <<chat, sending>>

(* The error of a send to a worker that is gone: the chat is dropped. *)
SendFails(c) ==
    /\ chat' = [chat EXCEPT ![c] = "dropped"]
    /\ sending' = None

(* tx.send(req).await in send_model: one chat fits. *)
SendModel ==
    /\ sending # None
    /\ \/ /\ worker[sending.to] = "gone"
          /\ SendFails(sending.chat)
          /\ UNCHANGED chat_rx
       \/ /\ worker[sending.to] # "gone" /\ Room(chat_rx[sending.to], 1)
          /\ chat_rx' = [chat_rx EXCEPT ![sending.to] = Append(@, sending.chat)]
          /\ sending' = None
          /\ UNCHANGED chat
    /\ UNCHANGED <<handlers, models, worker, control, store, queue, faults, history>>

-----------------------------------------------------------------------------
Handle(r) == Lock(r) \/ P2pStart(r) \/ Send(r) \/ Answered(r) \/ Broken(r)

Workers == {r \in Request : Op[r] = "start"}

(* A turn of a worker's select! loop, its start or its end. *)
Work(w) == Load(w) \/ OnControl(w) \/ OnChat(w) \/ ChatClosed(w) \/ Finished(w)

Dispatcher == Dispatch \/ SendModel

Next ==
    \/ \E r \in Request : Arrive(r) \/ Handle(r) \/ ClientLeaves(r)
    \/ \E w \in Workers : Work(w) \/ Closed(w) \/ Crash(w)
    \/ \E c \in Chat : ChatCompletions(c)
    \/ Dispatcher

Spec == Init /\ [][Next]_vars

(* Handlers, workers and the dispatcher go on when they can; nobody has to *)
(* come, leave or fail.                                                    *)
FairSpec ==
    /\ Spec
    /\ \A r \in Request : WF_vars(Handle(r))
    /\ \A w \in Workers : WF_vars(Work(w))
    /\ WF_vars(Dispatcher)

-----------------------------------------------------------------------------
(* Every variable has its type, channels keep to their capacity, and only  *)
(* the holder of the lock is behind it.                                    *)
TypeOK ==
    /\ phase \in [Request -> Holding \cup {"new", "lock", "done", "left"}]
    /\ lock \in Request \cup {None}
    /\ \A r \in Request : phase[r] \in Holding => lock = r
    /\ todo \in [Request -> SUBSET Model]
    /\ worker \in [Request -> {"none", "loading", "running", "leaving", "gone"}]
    /\ models \in [Model -> Workers \cup {None}] /\ store \in [Model -> Workers \cup {None}]
    /\ \A m \in Model : /\ models[m] # None => ModelOf[models[m]] = m
                        /\ store[m] # None => ModelOf[store[m]] = m
    /\ control \in [Request -> Seq(Request)] /\ chat_rx \in [Request -> Seq(Chat)]
    /\ \A w \in Request : Len(control[w]) <= CONTROL_CAP /\ Len(chat_rx[w]) <= 1
    /\ chat \in [Chat -> {"new", "queued", "run", "dropped"}]
    /\ queue \in Seq(Chat) /\ Len(queue) <= CHAT_CAP
    /\ sending \in [chat : Chat, to : Workers] \cup {None}
    /\ faults \in 0 .. MaxFaults

(* p2p_start: whatever starts, stops and departures of clients interleave, *)
(* a worker that loads or runs is the one entered in `models`.  There is   *)
(* never a second one for the model, and none that no stop can reach.      *)
RunningCanBeStopped ==
    \A w \in Request : worker[w] \in {"loading", "running"} => models[ModelOf[w]] = w

(* run_model_worker_internal: chats for a model that runs find its worker. *)
(* Only a worker that was added while its predecessor, whose stop was      *)
(* answered already, had yet to leave the store may lose its entry to it.  *)
ServedUnlessOvertaken ==
    \A w \in Request :
        worker[w] = "running" /\ w \notin overtaken => store[ModelOf[w]] = w

(* No entry of a worker that was stopped stays behind: unless the worker   *)
(* failed, or the stop was abandoned, p2p_start can start the model again, *)
(* p2p_status does not panic, and chats are not sent where nobody listens. *)
NoEntryOfStopped ==
    \A m \in Model :
        /\ models[m] # None /\ worker[models[m]] \in {"leaving", "gone"} =>
              \/ models[m] \in failed
              \/ \E r \in Request : Op[r] = "stop" /\ phase[r] = "answered" /\ ModelOf[r] = m
        /\ store[m] # None /\ worker[store[m]] = "gone" => store[m] \in failed

(* The handlers wait for workers with the lock held, and the workers end   *)
(* at any point: every request whose client stays is nevertheless answered *)
(* or fails, so that, requests being finitely many, again and again none   *)
(* waits, and the lock is free.                                            *)
RequestsReturn ==
    []<>(\A r \in Request : phase[r] \in {"new", "done", "left"})

(* There is one dispatcher, and it waits for a worker's channel: every     *)
(* chat it was given is nevertheless run or dropped, whatever worker ends, *)
(* so that again and again none waits.                                     *)
ChatsSettle == []<>(\A c \in Chat : chat[c] # "queued")
=============================================================================
