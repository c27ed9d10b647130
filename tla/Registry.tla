------------------------------ MODULE Registry ------------------------------
(***************************************************************************)
(* The registry server (crates/registry/src/server): one task per          *)
(* websocket connection and one main loop, joined by bounded channels.     *)
(* A connection's task forwards what its worker sends to the main loop     *)
(* (`stream_tx`, shared, STREAM_CAP slots) and writes what the main loop   *)
(* sends it (`tx`, one per connection, OUT_CAP slots); the main loop keeps *)
(* the registered workers and relays between them.                         *)
(*                                                                         *)
(* One model is served: the server keeps models strictly apart.  An HTTP   *)
(* query (a distribution, the health) goes through the main loop as well,  *)
(* which answers into a channel of that query's own; what the answer says  *)
(* is LayerPlacement's.                                                    *)
(***************************************************************************)
EXTENDS Integers, Sequences, FiniteSets, SequencesExt

CONSTANTS
    Ws,           \* websocket connections
    Queries,      \* HTTP requests for the distribution or the health
    Node,         \* node ids of workers
    NodeOf,       \* NodeOf[w]: the node id in w's url
    STREAM_CAP,   \* capacity of the channel to the main loop
    OUT_CAP,      \* capacity of the channel to a connection's task
    MaxMsgs,      \* bound: MaxMsgs[w] messages are read from connection w
    None

ASSUME RegistryAssumption ==
    /\ NodeOf \in [Ws -> Node]
    /\ STREAM_CAP \in Nat \ {0} /\ OUT_CAP \in Nat \ {0}
    /\ MaxMsgs \in [Ws -> Nat]
    /\ None \notin Ws /\ Ws \cap Queries = {}

VARIABLES
    phase,       \* phase[w]: "closed" before the upgrade, "run" in the loop,
                 \*   "gone" once the loop is left
    msgs,        \* msgs[w]: messages w's worker sent
    stream,      \* StreamEvents for the main loop, those of blocked senders
                 \*   (beyond STREAM_CAP) included, in the order of the sends
    rx,          \* rx[w]: what the main loop sent to w's task
    query,       \* query[q]: "new", "asked", "answered", or "left" by its client
    nodes,       \* SessionManager.nodes: the registered workers
    updated,     \* those of them that reported their layers
    streams_tx,  \* streams_tx[n]: the connection the main loop writes to
    out,         \* the event the main loop is about to send, or None
    panicked,    \* the main loop met a worker it does not know
    introduced,  \* history: <<n, m>>, n's update reply named m
    overlapped   \* history: a worker connected again before the end of its
                 \*   earlier connection was processed

vars == <<phase, msgs, stream, rx, query, nodes, updated, streams_tx, out, panicked, introduced,
          overlapped>>

-----------------------------------------------------------------------------
(* tokio's mpsc: a send beyond the capacity leaves its task waiting, and   *)
(* waiting tasks get free slots in turn.                                   *)
Blocked(w) == \E i \in DOMAIN stream : i > STREAM_CAP /\ stream[i].ws = w

(* w's task waits in its select!.  The main loop is the process's main     *)
(* task: its panic ends them all.                                          *)
Polling(w) == ~panicked /\ phase[w] = "run" /\ ~Blocked(w)

Send(w, event) == stream' = Append(stream, [ws |-> w, event |-> event])

(* rx.recv() returns None once the last Sender is gone: replaced or        *)
(* removed in streams_tx, and not still inside a queued Start.             *)
SenderAlive(w) ==
    \/ streams_tx[NodeOf[w]] = w
    \/ \E i \in DOMAIN stream : stream[i] = [ws |-> w, event |-> [type |-> "Start"]]

Events == {[type |-> "Update"], [type |-> "Stats"]} \cup [type : {"Relay"}, dest : Node]

(* What is sent to the main loop, and by whom. *)
StreamEvent ==
    [ws : Ws, event : Events \cup [type : {"Start", "End"}]]
        \cup [ws : Queries, event : [type : {"Query"}]]

Init ==
    /\ phase = [w \in Ws |-> "closed"]
    /\ msgs = [w \in Ws |-> 0]
    /\ stream = <<>>
    /\ rx = [w \in Ws |-> <<>>]
    /\ query = [q \in Queries |-> "new"]
    /\ nodes = {}
    /\ updated = {}
    /\ streams_tx = [n \in Node |-> None]
    /\ out = None
    /\ panicked = FALSE
    /\ introduced = {}
    /\ overlapped = FALSE

(* The upgrade: Start carries the Sender of this connection. *)
Accept(w) ==
    /\ ~panicked /\ phase[w] = "closed"
    /\ overlapped' = (overlapped \/ \E v \in Ws \ {w} :
                                       /\ NodeOf[v] = NodeOf[w]
                                       /\ \/ phase[v] = "run"
                                          \/ \E i \in DOMAIN stream : stream[i].ws = v)
    /\ phase' = [phase EXCEPT ![w] = "run"]
    /\ Send(w, [type |-> "Start"])
    /\ UNCHANGED <<msgs, rx, query, nodes, updated, streams_tx, out, panicked, introduced>>

(* A message of the worker is read and forwarded.  A RegistryClient's      *)
(* first message reports its layers.                                       *)
Read(w, event) ==
    /\ Polling(w)
    /\ msgs[w] < MaxMsgs[w]
    /\ (event.type = "Update") <=> (msgs[w] = 0)
    /\ msgs' = [msgs EXCEPT ![w] = @ + 1]
    /\ Send(w, event)
    /\ UNCHANGED <<phase, rx, query, nodes, updated, streams_tx, out, panicked, introduced,
                   overlapped>>

(* A message from the main loop is written to the socket. *)
Write(w) ==
    /\ Polling(w)
    /\ rx[w] # <<>>
    /\ rx' = [rx EXCEPT ![w] = Tail(@)]
    /\ UNCHANGED <<phase, msgs, stream, query, nodes, updated, streams_tx, out, panicked, introduced,
                   overlapped>>

(* The socket is closed, or the main loop dropped this connection.  The    *)
(* Receiver is dropped when End is in the channel, not before.             *)
Leave(w) ==
    /\ phase' = [phase EXCEPT ![w] = "gone"]
    /\ rx' = IF Len(stream) < STREAM_CAP THEN [rx EXCEPT ![w] = <<>>] ELSE rx
    /\ Send(w, [type |-> "End"])
    /\ UNCHANGED <<msgs, query, nodes, updated, streams_tx, out, panicked, introduced, overlapped>>

SocketClosed(w) == Polling(w) /\ Leave(w)

SenderDropped(w) ==
    /\ Polling(w)
    /\ rx[w] = <<>> /\ ~SenderAlive(w)
    /\ Leave(w)

(* The handlers distribution and health. *)
Ask(q) ==
    /\ ~panicked /\ query[q] = "new"
    /\ query' = [query EXCEPT ![q] = "asked"]
    /\ Send(q, [type |-> "Query"])
    /\ UNCHANGED <<phase, msgs, rx, nodes, updated, streams_tx, out, panicked, introduced,
                   overlapped>>

(* The client closes its connection, and the handler is dropped: a send    *)
(* that waits is undone, one that is done will be answered to no one.      *)
GiveUp(q) ==
    /\ ~panicked /\ query[q] = "asked"
    /\ query' = [query EXCEPT ![q] = "left"]
    /\ \/ ~Blocked(q) /\ UNCHANGED stream
       \/ \E i \in DOMAIN stream :
             i > STREAM_CAP /\ stream[i].ws = q /\ stream' = RemoveAt(stream, i)
    /\ UNCHANGED <<phase, msgs, rx, nodes, updated, streams_tx, out, panicked, introduced,
                   overlapped>>

-----------------------------------------------------------------------------
(* RegistryServer::recv, up to the send it may wait in. *)
OnStart(w) ==
    /\ streams_tx' = [streams_tx EXCEPT ![NodeOf[w]] = w]
    /\ nodes' = nodes \cup {NodeOf[w]}
    /\ updated' = updated \ {NodeOf[w]}
    /\ introduced' = {p \in introduced : NodeOf[w] \notin {p[1], p[2]}}
    /\ UNCHANGED <<out, panicked>>

(* expect("Should have node") *)
UnknownNode ==
    /\ panicked' = TRUE
    /\ UNCHANGED <<nodes, updated, streams_tx, out, introduced>>

(* Faulty: workers that reported before are left out of the reply. *)
OnUpdatePartial(n) ==
    IF n \notin nodes
    THEN UnknownNode
    ELSE /\ updated' = updated \cup {n}
         /\ out' = [dest |-> n, reply |-> nodes \ (updated \cup {n})]
         /\ introduced' = introduced \cup {<<n, m>> : m \in nodes \ (updated \cup {n})}
         /\ UNCHANGED <<nodes, streams_tx, panicked>>

OnUpdate(n) ==
    IF n \notin nodes
    THEN UnknownNode
    ELSE /\ updated' = updated \cup {n}
         /\ out' = [dest |-> n, reply |-> nodes \ {n}]
         /\ introduced' = introduced \cup {<<n, m>> : m \in nodes \ {n}}
         /\ UNCHANGED <<nodes, streams_tx, panicked>>

OnStats(n) ==
    IF n \notin nodes
    THEN UnknownNode
    ELSE UNCHANGED <<nodes, updated, streams_tx, out, panicked, introduced>>

OnRelay(n, dest) ==
    /\ out' = IF dest \in nodes THEN [dest |-> dest, reply |-> {n}] ELSE None
    /\ UNCHANGED <<nodes, updated, streams_tx, panicked, introduced>>

(* Faulty: the worker stays registered. *)
OnEndKeepsNode(n) ==
    /\ streams_tx' = [streams_tx EXCEPT ![n] = None]
    /\ UNCHANGED <<nodes, updated, introduced, out, panicked>>

OnEnd(n) ==
    /\ streams_tx' = [streams_tx EXCEPT ![n] = None]
    /\ nodes' = nodes \ {n}
    /\ updated' = updated \ {n}
    /\ introduced' = {p \in introduced : n \notin {p[1], p[2]}}
    /\ UNCHANGED <<out, panicked>>

(* Faulty: only a swarm with workers is answered. *)
AnsweredIfAny(q) ==
    IF query[q] = "asked" /\ nodes # {} THEN [query EXCEPT ![q] = "answered"] ELSE query

Answered(q) == IF query[q] = "asked" THEN [query EXCEPT ![q] = "answered"] ELSE query

MainRecv ==
    /\ ~panicked /\ out = None
    /\ stream # <<>>
    /\ stream' = Tail(stream)
    /\ LET w     == Head(stream).ws
           event == Head(stream).event
       IN  IF event.type = "Query"
           THEN /\ query' = Answered(w)
                /\ UNCHANGED <<nodes, updated, streams_tx, out, panicked, introduced>>
           ELSE /\ query' = query
                /\ CASE event.type = "Start"  -> OnStart(w)
                     [] event.type = "Update" -> OnUpdate(NodeOf[w])
                     [] event.type = "Stats"  -> OnStats(NodeOf[w])
                     [] event.type = "Relay"  -> OnRelay(NodeOf[w], event.dest)
                     [] event.type = "End"    -> OnEnd(NodeOf[w])
    /\ rx' = IF Len(stream) > STREAM_CAP /\ stream[STREAM_CAP + 1].event.type = "End"
             THEN [rx EXCEPT ![stream[STREAM_CAP + 1].ws] = <<>>]
             ELSE rx
    /\ UNCHANGED <<phase, msgs, overlapped>>

(* w's task still holds the Receiver of its channel. *)
Receives(w) == phase[w] = "run" \/ Blocked(w)

(* Faulty: what a worker that is gone was to be told is kept for it.       *)
MainSendWaits ==
    /\ ~panicked /\ out # None
    /\ streams_tx[out.dest] # None /\ Receives(streams_tx[out.dest])
    /\ Len(rx[streams_tx[out.dest]]) < OUT_CAP
    /\ rx' = [rx EXCEPT ![streams_tx[out.dest]] = Append(@, out.reply)]
    /\ out' = None
    /\ UNCHANGED <<phase, msgs, stream, query, nodes, updated, streams_tx, panicked, introduced,
                   overlapped>>

(* tx.send(out).await: waits for room; what is sent to a task that is gone *)
(* or to no one is dropped.                                                *)
MainSend ==
    /\ ~panicked /\ out # None
    /\ LET w == streams_tx[out.dest]
       IN  IF w # None /\ Receives(w)
           THEN /\ Len(rx[w]) < OUT_CAP
                /\ rx' = [rx EXCEPT ![w] = Append(@, out.reply)]
           ELSE rx' = rx
    /\ out' = None
    /\ UNCHANGED <<phase, msgs, stream, query, nodes, updated, streams_tx, panicked, introduced,
                   overlapped>>

Next ==
    \/ MainRecv
    \/ MainSend
    \/ \E w \in Ws : \/ Accept(w) \/ Write(w) \/ SocketClosed(w) \/ SenderDropped(w)
                     \/ \E event \in Events : Read(w, event)
    \/ \E q \in Queries : Ask(q) \/ GiveUp(q)

Spec == Init /\ [][Next]_vars

(* The runtime polls every task that can go on, and a worker that stays    *)
(* reads its socket: the write at server/mod.rs:200 completes.             *)
FairSpec ==
    /\ Spec
    /\ WF_vars(MainRecv \/ MainSend)
    /\ \A w \in Ws : WF_vars(Write(w) \/ SenderDropped(w))

-----------------------------------------------------------------------------
(* Every variable has its type. *)
TypeOK ==
    /\ phase \in [Ws -> {"closed", "run", "gone"}]
    /\ msgs \in [Ws -> Nat] /\ \A w \in Ws : msgs[w] <= MaxMsgs[w]
    /\ stream \in Seq(StreamEvent)
    /\ query \in [Queries -> {"new", "asked", "answered", "left"}]
    /\ rx \in [Ws -> Seq(SUBSET Node)]
    /\ updated \subseteq nodes /\ nodes \subseteq Node
    /\ streams_tx \in [Node -> Ws \cup {None}]
    /\ out \in [dest : Node, reply : SUBSET Node] \cup {None}
    /\ panicked \in BOOLEAN /\ overlapped \in BOOLEAN
    /\ introduced \subseteq Node \X Node

(* `expect("Should have node")` in SessionManager::on_event: whoever sends *)
(* an update or statistics is registered.                                  *)
SenderIsRegistered == ~panicked

(* As long as no worker came back before its last end was processed, the   *)
(* main loop does not panic, and when it has caught up it knows exactly    *)
(* the workers whose connection is up, and writes to that connection.      *)
RegisteredAreConnected ==
    ~overlapped =>
        /\ ~panicked
        /\ stream = <<>> =>
               \A n \in Node :
                   /\ n \in nodes <=> \E w \in Ws : NodeOf[w] = n /\ phase[w] = "run"
                   /\ n \in nodes => streams_tx[n] # None /\ phase[streams_tx[n]] = "run"
                   /\ n \notin nodes => streams_tx[n] = None

(* Of two registered workers that both reported their layers, one was told *)
(* of the other, and so will offer it a connection: nobody stays unknown   *)
(* to the swarm, whatever order they start and report in.                  *)
EveryPairIntroduced ==
    \A n, m \in updated : n # m => <<n, m>> \in introduced \/ <<m, n>> \in introduced

(* The main loop waits for room at a task that itself waits for room at    *)
(* the main loop: neither goes on again.                                   *)
Jammed ==
    /\ out # None /\ streams_tx[out.dest] # None
    /\ Blocked(streams_tx[out.dest])
    /\ Len(rx[streams_tx[out.dest]]) = OUT_CAP

(* `expect("Should send req to main")`: a connection's task that hands a   *)
(* message to the main loop gets it there while the process lives.  Two    *)
(* bounded channels in a circle may jam, but only like that: both are full *)
(* at once, and the main loop's reply is for a task that waits for it,     *)
(* perhaps only to say that its worker left.  A full channel alone, and a  *)
(* worker that is gone, never hold the others up (server/mod.rs:92).       *)
SendsReachMain == \A w \in Ws : Blocked(w) ~> (panicked \/ ~Blocked(w) \/ Jammed)

(* A query is answered, in whatever order workers come, report and leave   *)
(* and however small the channel to the main loop is, unless the main loop *)
(* jams or panics.                                                         *)
QueriesAnswered ==
    \A q \in Queries : query[q] = "asked" ~> (query[q] # "asked" \/ panicked \/ Jammed)
=============================================================================
