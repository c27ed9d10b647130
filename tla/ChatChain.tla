----------------------------- MODULE ChatChain ------------------------------
(***************************************************************************)
(* A chat and the chain of workers that computes it.  The model's chat     *)
(* loop drives the root worker's ModelService, which runs its own layers   *)
(* and asks the next worker for the rest, and so on: START builds the      *)
(* chain, one FORWARD per token runs through it, END takes it down         *)
(* (crates/worker: model_service.rs, rpc.rs, virtual_model_layers.rs; the  *)
(* chat loops of crates/models).  OnChainService accounts for the tokens   *)
(* on the way (crates/contract).                                           *)
(*                                                                         *)
(* A request is answered by a task of its own, which waits for the next    *)
(* worker's answer without a timeout.  Each hop of a chat gets a fresh     *)
(* random session id; here the hop of chat c with chain_index i has the    *)
(* session <<c, i>>.                                                       *)
(***************************************************************************)
EXTENDS Integers, Sequences, FiniteSets

CONSTANTS
    Node,           \* the workers
    Chats,          \* chat ids
    Root,           \* Root[c]: the worker chat c was submitted to
    MODEL_LAYERS,   \* number of layers of the model
    Local,          \* Local[n]: the half-open range of layers n serves
    Neighbours,     \* Neighbours[n]: the workers n may hold a route through
    Prompt,         \* number of forwards the prompt takes
    MaxLen,         \* cfg.max_len: forwards a chat may use
    MaxHops,        \* bound: hops of a chain
    MaxFaults,      \* bound: lost messages and workers that leave
    None,           \* Option::None
    Empty           \* vec![]: metadata that does not parse

ASSUME ChainAssumption ==
    /\ Root \in [Chats -> Node]
    /\ MODEL_LAYERS \in Nat \ {0}
    /\ Local \in [Node -> [start : Nat, end : Nat]]
    /\ Neighbours \in [Node -> SUBSET Node]
    /\ {Prompt, MaxHops} \subseteq Nat \ {0} /\ MaxFaults \in Nat
    /\ MaxLen \in Nat /\ Prompt <= MaxLen

Sessions == Chats \X (0 .. MaxHops - 1)

(* OnChainServiceMetadata, as far as it matters: who joined the chain, and *)
(* the count the root signed.                                              *)
Metadata == [addresses : Seq(Node), checkpoint : Nat \cup {None}]

Cmd == {"START", "FORWARD", "END"}

Loop == [pc : {"idle", "waiting", "ready", "failed", "ended", "done"}, used : Nat]

SessionContainer == [node : Node, local : BOOLEAN, dest : Node \cup {None}]

(* A request that is waited for: by whose task, and with what metadata.    *)
Waiting == [node : Node, cmd : Cmd, metadata : Metadata]

RpcReq == [type : {"RpcReq"}, cmd : Cmd, session : Sessions, to : Node,
           from_layer : Nat \cup {None}, metadata : Metadata]
RpcRes == [type : {"RpcRes"}, cmd : Cmd, session : Sessions, success : BOOLEAN,
           metadata : Metadata \cup {Empty}]

ASSUME NoneAssumption ==
    /\ None \notin SessionContainer /\ None \notin Waiting
    /\ None \notin Node \cup Nat /\ None \notin Seq(Node)

VARIABLES
    up,           \* the workers whose loop runs
    chat,         \* chat[c]: where the chat loop is, and its forwards so far
    sessions,     \* sessions[s]: the SessionContainer of s, or None
    caches,       \* the sessions with a KV cache
    waits,        \* waits[s]: the request whose answer s's task awaits, or None
    msgs,         \* RpcReqs and RpcRess on their way
    root_pks,     \* root_pks[n]: the chats whose root key n's validator has
    spending,     \* spending[c]: OnChainService.spending of the root
    earning,      \* earning[n][c]: OnChainService.earning of n
    checkpoints,  \* checkpoints[n][c]: the token count last signed, or None
    ledger,       \* ledger[c]: the session created on chain, or None
    claims,       \* the claims submitted on chain
    panics,       \* sessions whose task panicked over metadata
    faults        \* number of faults so far

service == <<sessions, caches, waits>>
usage == <<root_pks, spending, earning, checkpoints>>
onchain == <<ledger, claims>>
vars == <<up, chat, service, msgs, usage, onchain, panics, faults>>

Fresh(checkpoint) == [addresses |-> <<>>, checkpoint |-> checkpoint]

-----------------------------------------------------------------------------
(* What select_next may return at n for layer l.  The table behind it      *)
(* changes all the time: there may be no route, and any neighbour may be   *)
(* the best next hop, a ghost of a route included.                         *)
Routes(n, l, index) ==
    LET mine  == Local[n].start <= l /\ l < Local[n].end
        after == IF mine THEN Local[n].end ELSE l
    IN  IF after = MODEL_LAYERS
        THEN {[local |-> TRUE, dest |-> None, from |-> after]}
        ELSE {None} \cup {[local |-> mine, dest |-> m, from |-> after] :
                              m \in {k \in Neighbours[n] : index + 1 < MaxHops}}

(* The chat loop goes on once the root's service returns. *)
Resumed(loop, cmd, success) ==
    [pc   |-> IF cmd = "END" THEN (IF success THEN "done" ELSE "ended")
              ELSE IF success THEN "ready" ELSE "failed",
     used |-> IF cmd = "FORWARD" /\ success THEN loop.used + 1 ELSE loop.used]

(* on_req's answer, unless the worker has left meanwhile.  The operators   *)
(* marked as faulty, here and below, are not the code: each is a mistake   *)
(* the code could have made, kept to show that a property would notice it. *)
(* Faulty: a worker that cannot help does not say so.                      *)
AnswerIfGood(n, s, cmd, success, metadata) ==
    IF n \in up /\ success
    THEN {[type |-> "RpcRes", cmd |-> cmd, session |-> s, success |-> success,
           metadata |-> metadata]}
    ELSE {}

Answer(n, s, cmd, success, metadata) ==
    IF n \in up
    THEN {[type |-> "RpcRes", cmd |-> cmd, session |-> s, success |-> success,
           metadata |-> metadata]}
    ELSE {}

(* The task of s is done: the root's returns to the chat loop, another's   *)
(* answers over the network.  `left` are the messages that stay in flight. *)
Reply(left, n, s, cmd, success, metadata) ==
    IF s[2] = 0
    THEN /\ chat' = [chat EXCEPT ![s[1]] = Resumed(@, cmd, success)]
         /\ msgs' = left
    ELSE /\ msgs' = left \cup Answer(n, s, cmd, success, metadata)
         /\ UNCHANGED chat

(* expect("Should be able to parse metadata"): the task dies, and nobody   *)
(* answers.                                                                *)
Panic(left, s) ==
    /\ panics' = panics \cup {s}
    /\ msgs' = left
    /\ chat' = IF s[2] = 0 THEN [chat EXCEPT ![s[1]].pc = "failed"] ELSE chat

(* RpcClientTx::request for the next hop; behind the root's, the chat loop *)
(* waits too.  Faulty: it does not.                                        *)
RequestUnawaited(left, n, s, dest, cmd, from, metadata) ==
    /\ msgs' = left \cup {[type |-> "RpcReq", cmd |-> cmd, session |-> <<s[1], s[2] + 1>>,
                           to |-> dest, from_layer |-> from, metadata |-> metadata]}
    /\ waits' = [waits EXCEPT ![s] = [node |-> n, cmd |-> cmd, metadata |-> metadata]]
    /\ chat' = IF s[2] = 0 THEN [chat EXCEPT ![s[1]].pc = "ready"] ELSE chat

Request(left, n, s, dest, cmd, from, metadata) ==
    /\ msgs' = left \cup {[type |-> "RpcReq", cmd |-> cmd, session |-> <<s[1], s[2] + 1>>,
                           to |-> dest, from_layer |-> from, metadata |-> metadata]}
    /\ waits' = [waits EXCEPT ![s] = [node |-> n, cmd |-> cmd, metadata |-> metadata]]
    /\ chat' = IF s[2] = 0 THEN [chat EXCEPT ![s[1]].pc = "waiting"] ELSE chat

-----------------------------------------------------------------------------
(* OnChainService::create_session: the chain takes it or not.              *)
(* Faulty: the root goes on though it did not.                             *)
CreateSessionUnchecked(left, n, s, success, metadata) ==
    /\ \/ ledger' = [ledger EXCEPT ![s[1]] = metadata.addresses]
       \/ UNCHANGED ledger
    /\ Reply(left, n, s, "START", success, metadata)

CreateSession(left, n, s, success, metadata) ==
    \/ /\ ledger' = [ledger EXCEPT ![s[1]] = metadata.addresses]
       /\ Reply(left, n, s, "START", success, metadata)
    \/ /\ UNCHANGED ledger
       /\ Reply(left, n, s, "START", FALSE, metadata)

(* OnChainService::post_start.  The root opens the session on chain; every *)
(* other hop adds itself to the participants.                              *)
PostStart(left, n, s, success, metadata) ==
    IF metadata = Empty
    THEN Panic(left, s) /\ UNCHANGED ledger
    ELSE /\ UNCHANGED panics
         /\ IF s[2] = 0
            THEN CreateSession(left, n, s, success, metadata)
            ELSE /\ Reply(left, n, s, "START", success,
                          [addresses |-> Append(metadata.addresses, n), checkpoint |-> None])
                 /\ UNCHANGED ledger

(* ModelService::start *)
Start(left, n, s, l, metadata) ==
    LET md == IF s[2] = 0 THEN Fresh(None) ELSE metadata
    IN  /\ root_pks' = IF s[2] = 0 THEN root_pks
                       ELSE [root_pks EXCEPT ![n] = @ \cup {s[1]}]
        /\ UNCHANGED <<up, spending, earning, checkpoints, claims, faults>>
        /\ \/ /\ None \in Routes(n, l, s[2])
              /\ Reply(left, n, s, "START", FALSE, Empty)
              /\ UNCHANGED <<service, ledger, panics>>
           \/ \E r \in Routes(n, l, s[2]) \ {None} :
                 /\ sessions' = [sessions EXCEPT ![s] =
                                    [node |-> n, local |-> r.local, dest |-> r.dest]]
                 /\ caches' = IF r.local THEN caches \cup {s} ELSE caches
                 /\ IF r.dest = None
                    THEN PostStart(left, n, s, TRUE, md) /\ UNCHANGED waits
                    ELSE /\ Request(left, n, s, r.dest, "START", r.from, md)
                         /\ UNCHANGED <<ledger, panics>>

(* OnChainStorage::increase for the root. *)
Increase(c) == spending' = [spending EXCEPT ![c] = @ + 1]

(* OnChainValidator::update_checkpoint and create_checkpoint.              *)
(* Faulty: the first count is kept; none is.                               *)
KeepFirstCheckpoint(n, c, count) ==
    checkpoints' = IF checkpoints[n][c] = None
                   THEN [checkpoints EXCEPT ![n][c] = count] ELSE checkpoints
KeepNoCheckpoint(n, c, count) == UNCHANGED checkpoints

StoreCheckpoint(n, c, count) == checkpoints' = [checkpoints EXCEPT ![n][c] = count]

(* OnChainService::pre_forward: the root counts the token and signs the    *)
(* count; every other hop keeps the signed count, and counts too.          *)
PreForward(n, s, metadata) ==
    IF s[2] = 0
    THEN /\ Increase(s[1])
         /\ StoreCheckpoint(n, s[1], spending[s[1]] + 1)
         /\ UNCHANGED <<earning, root_pks>>
    ELSE /\ StoreCheckpoint(n, s[1], metadata.checkpoint)
         /\ earning' = [earning EXCEPT ![n][s[1]] = @ + 1]
         /\ UNCHANGED <<spending, root_pks>>

(* No such session, no signed count, or none the validator can verify: the *)
(* signature is the root's, so all it takes is the key START brought.      *)
Refused(n, s, metadata) ==
    \/ sessions[s] = None
    \/ s[2] # 0 /\ (metadata.checkpoint = None \/ s[1] \notin root_pks[n])

(* ModelService::forward *)
Forward(left, n, s, metadata) ==
    /\ UNCHANGED <<up, sessions, caches, onchain, panics, faults>>
    /\ IF Refused(n, s, metadata)
       THEN /\ Reply(left, n, s, "FORWARD", FALSE, Empty)
            /\ UNCHANGED <<waits, usage>>
       ELSE LET md == IF s[2] = 0 THEN Fresh(spending[s[1]] + 1) ELSE metadata
            IN  /\ PreForward(n, s, metadata)
                /\ IF sessions[s].dest = None
                   THEN Reply(left, n, s, "FORWARD", TRUE, md) /\ UNCHANGED waits
                   ELSE Request(left, n, s, sessions[s].dest, "FORWARD", None, md)

(* OnChainService::post_end: a hop claims what it counted, with the last   *)
(* signature it was given.                                                 *)
PostEnd(left, n, s, success, metadata) ==
    IF s[2] = 0
    THEN Reply(left, n, s, "END", success, metadata) /\ UNCHANGED <<earning, claims, panics>>
    ELSE IF metadata = Empty
    THEN Panic(left, s) /\ UNCHANGED <<earning, claims>>
    ELSE LET signed == checkpoints[n][s[1]]
         IN  /\ UNCHANGED panics
             /\ earning' = [earning EXCEPT ![n][s[1]] = 0]
             /\ claims' = IF signed = None THEN claims
                          ELSE claims \cup {[node |-> n, chat |-> s[1],
                                             token_count |-> earning[n][s[1]],
                                             signed |-> signed]}
             /\ Reply(left, n, s, "END", success /\ signed # None, metadata)

(* ModelLayersWorker::finish.  Faulty: the layers are not told. *)
FinishSkipped(s) == UNCHANGED caches

Finish(s) == caches' = IF sessions[s].local THEN caches \ {s} ELSE caches

(* ModelService::end, with OnChainService::pre_end. *)
End(left, n, s, metadata) ==
    /\ UNCHANGED <<up, root_pks, checkpoints, ledger, faults>>
    /\ IF sessions[s] = None
       THEN /\ Reply(left, n, s, "END", FALSE, Empty)
            /\ UNCHANGED <<service, spending, earning, claims, panics>>
       ELSE LET md == IF s[2] = 0 THEN Fresh(None) ELSE metadata
            IN  /\ sessions' = [sessions EXCEPT ![s] = None]
                /\ spending' = IF s[2] = 0 THEN [spending EXCEPT ![s[1]] = 0] ELSE spending
                /\ Finish(s)
                /\ IF sessions[s].dest = None
                   THEN PostEnd(left, n, s, TRUE, md) /\ UNCHANGED waits
                   ELSE /\ Request(left, n, s, sessions[s].dest, "END", None, md)
                        /\ UNCHANGED <<earning, claims, panics>>

-----------------------------------------------------------------------------
(* The chat loop.  START goes first; without it there is no chat.          *)
ChatStart(c) ==
    /\ chat[c].pc = "idle"
    /\ Root[c] \in up
    /\ Start(msgs, Root[c], <<c, 0>>, 0, Empty)

(* One forward per token of the prompt, then one per generated token. *)
ChatForward(c) ==
    /\ chat[c].pc = "ready" /\ chat[c].used < MaxLen
    /\ Root[c] \in up
    /\ Forward(msgs, Root[c], <<c, 0>>, Empty)

(* End of text, a client that left, or max_len. *)
ChatFinish(c) ==
    /\ chat[c].pc = "ready" /\ chat[c].used >= Prompt
    /\ Root[c] \in up
    /\ End(msgs, Root[c], <<c, 0>>, Empty)

(* The client left while the prompt was processed (phi3: unwrap), or the   *)
(* worker did: the next request panics.                                    *)
ChatAborted(c) ==
    /\ chat[c].pc = "ready"
    /\ chat[c].used = Prompt \/ Root[c] \notin up
    /\ chat' = [chat EXCEPT ![c].pc = "failed"]
    /\ UNCHANGED <<up, service, msgs, usage, onchain, panics, faults>>

(* on_req, in a task of its own. *)
RecvReq(m) ==
    /\ m \in msgs /\ m.type = "RpcReq"
    /\ m.to \in up
    /\ LET left == msgs \ {m}
       IN  CASE m.cmd = "START"   -> Start(left, m.to, m.session, m.from_layer, m.metadata)
             [] m.cmd = "FORWARD" -> Forward(left, m.to, m.session, m.metadata)
             [] m.cmd = "END"     -> End(left, m.to, m.session, m.metadata)

(* The rest of the handler that waits at hop s, once its request returned. *)
Continue(left, s, success, metadata) ==
    LET n == waits[s].node
    IN  /\ waits' = [waits EXCEPT ![s] = None]
        /\ UNCHANGED <<up, sessions, caches, root_pks, spending, checkpoints, faults>>
        /\ CASE waits[s].cmd = "START" ->
                    PostStart(left, n, s, success, metadata) /\ UNCHANGED <<earning, claims>>
             [] waits[s].cmd = "FORWARD" ->
                    /\ Reply(left, n, s, "FORWARD", success, metadata)
                    /\ UNCHANGED <<earning, onchain, panics>>
             [] waits[s].cmd = "END" ->
                    PostEnd(left, n, s, success, metadata) /\ UNCHANGED ledger

(* RpcClientRx::on_res *)
RecvRes(m) ==
    LET s == <<m.session[1], m.session[2] - 1>>
    IN  /\ m \in msgs /\ m.type = "RpcRes"
        /\ waits[s] # None /\ waits[s].node \in up
        /\ Continue(msgs \ {m}, s, m.success, m.metadata)

(* The worker's loop is gone, and its RpcClientRx with it: the request     *)
(* returns an error, and the handler goes on with what it sent.            *)
RpcDropped(s) ==
    /\ waits[s] # None /\ waits[s].node \notin up
    /\ Continue(msgs, s, FALSE, waits[s].metadata)

(* A message to a worker without a connection is logged and forgotten; one *)
(* in flight goes with its connection.  Nobody tells the task that waits.  *)
Lose(m) ==
    /\ m \in msgs
    /\ faults < MaxFaults
    /\ faults' = faults + 1
    /\ msgs' = msgs \ {m}
    /\ UNCHANGED <<up, chat, service, usage, onchain, panics>>

(* WorkerRunner is dropped (the control API's stop). *)
Shutdown(n) ==
    /\ n \in up
    /\ faults < MaxFaults
    /\ faults' = faults + 1
    /\ up' = up \ {n}
    /\ UNCHANGED <<chat, service, msgs, usage, onchain, panics>>

-----------------------------------------------------------------------------
Init ==
    /\ up = Node
    /\ chat = [c \in Chats |-> [pc |-> "idle", used |-> 0]]
    /\ sessions = [s \in Sessions |-> None]
    /\ caches = {}
    /\ waits = [s \in Sessions |-> None]
    /\ msgs = {}
    /\ root_pks = [n \in Node |-> {}]
    /\ spending = [c \in Chats |-> 0]
    /\ earning = [n \in Node |-> [c \in Chats |-> 0]]
    /\ checkpoints = [n \in Node |-> [c \in Chats |-> None]]
    /\ ledger = [c \in Chats |-> None]
    /\ claims = {}
    /\ panics = {}
    /\ faults = 0

Handler == \E m \in msgs : RecvReq(m) \/ RecvRes(m)

Next ==
    \/ \E c \in Chats : ChatStart(c) \/ ChatForward(c) \/ ChatFinish(c) \/ ChatAborted(c)
    \/ \E m \in msgs : RecvReq(m) \/ RecvRes(m) \/ Lose(m)
    \/ \E s \in Sessions : RpcDropped(s)
    \/ \E n \in Node : Shutdown(n)

Spec == Init /\ [][Next]_vars

(* Every task that can go on does, and a connection that stays up delivers *)
(* what it carries.  Whether a chat starts is up to its client.            *)
FairSpec ==
    /\ Spec
    /\ WF_vars(Handler)
    /\ WF_vars(\E s \in Sessions : RpcDropped(s))
    /\ \A c \in Chats : WF_vars(ChatForward(c) \/ ChatFinish(c) \/ ChatAborted(c))

-----------------------------------------------------------------------------
(* Every variable has its type. *)
TypeOK ==
    /\ up \subseteq Node
    /\ chat \in [Chats -> Loop]
    /\ sessions \in [Sessions -> SessionContainer \cup {None}]
    /\ caches \subseteq Sessions
    /\ waits \in [Sessions -> Waiting \cup {None}]
    /\ msgs \subseteq RpcReq \cup RpcRes
    /\ root_pks \in [Node -> SUBSET Chats]
    /\ spending \in [Chats -> Nat]
    /\ earning \in [Node -> [Chats -> Nat]]
    /\ checkpoints \in [Node -> [Chats -> Nat \cup {None}]]
    /\ ledger \in [Chats -> Seq(Node) \cup {None}]
    /\ claims \subseteq [node : Node, chat : Chats, token_count : Nat, signed : Nat]
    /\ panics \subseteq Sessions
    /\ faults \in 0 .. MaxFaults

(* How often n joined the chain of c, going by the session on chain. *)
Joined(n, c) ==
    IF ledger[c] = None THEN 0
    ELSE Cardinality({i \in DOMAIN ledger[c] : ledger[c][i] = n})

(* Nobody computes a token of a chat before the session that pays for it   *)
(* exists on chain and names him, whatever was lost or left on the way.    *)
WorkersAreParticipants ==
    \A n \in Node, c \in Chats : earning[n][c] > 0 => Joined(n, c) > 0

(* A worker never counts more tokens than the root has signed for, once    *)
(* for each time the chain runs through it.                                *)
EarnsWhatIsSigned ==
    \A n \in Node, c \in Chats :
        earning[n][c] > 0 => /\ checkpoints[n][c] # None
                             /\ earning[n][c] <= Joined(n, c) * checkpoints[n][c]

(* A worker the chain runs through once claims exactly the tokens the root *)
(* signed for and used: the signature that goes with the claim is for the  *)
(* count it claims.                                                        *)
ClaimsAreSigned ==
    \A k \in claims :
        Joined(k.node, k.chat) = 1 =>
            k.token_count = k.signed /\ k.signed = chat[k.chat].used

(* When END returns success to the chat loop, no worker is left with a     *)
(* session, a cache or a waiting task of the chat.                         *)
FinishedLeavesNothing ==
    \A s \in Sessions :
        chat[s[1]].pc = "done" => sessions[s] = None /\ s \notin caches /\ waits[s] = None

(* The counters are read, then written back ("TODO: make this atomic",     *)
(* storage.rs): what protects them is that at any time at most one worker  *)
(* has something to do for a chat -- one message of it is in flight, or    *)
(* the chat loop has its turn, and never two of these.                     *)
OneTurnAtATime ==
    \A c \in Chats :
        LET turns == {m \in msgs : m.session[1] = c}
        IN  Cardinality(turns) + (IF chat[c].pc = "ready" THEN 1 ELSE 0) <= 1

(* The chat loop always hears back from its worker, however long the chain *)
(* and whoever has no route -- unless a message was lost, a worker left or *)
(* a handler panicked: then a wait is for ever, since nothing times out.   *)
EveryChatReturns ==
    \A c \in Chats :
        (chat[c].pc \in {"waiting", "ready"}) ~>
            (chat[c].pc \in {"done", "ended", "failed"} \/ faults > 0 \/ panics # {})
=============================================================================
