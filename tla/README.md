# Decentralized LLM inference: a TLA+ verification project

The repository runs a large language model on a swarm of workers, each of which
holds a contiguous range of the model's layers. A chat submitted to one worker is
computed by a chain of workers; the chain is found by a distance-vector routing
protocol, carried by WebRTC data channels that a registry helps to set up, and
paid for by token counts that the chat's root signs.

The project models the parts whose correctness depends on the order in which
things happen, checks them with TLC on small instances, and proves with TLAPS, for
every instance, every safety property that the runs check and that the code has. `PROJECT.json` gives, for every
definition, the source lines it models.

## 1. Inventory

| Part | State | Operations | Hard because | Right when |
|---|---|---|---|---|
| Routing table (`model-router/table.rs`, `protocol/lib.rs`) | per layer: `remotes` (cost and age per neighbour), cached `next` | `on_tick`, `apply_sync`, `on_disconnected`, `create_sync`, `select_next`, `update_best` | `next` is a cache of `remotes`; ties are broken by HashMap order | the cache is never stale |
| Routing protocol (`worker/communication.rs`) | one table per worker | once a second: advertise, then expire; apply what arrives; forget a lost neighbour | no split horizon; clocks differ; workers come and go; messages are late or lost | routes are connected, never look fresher or cheaper than they are, disappear with their provider, and settle on the cheapest chain |
| Connections (`p2p-network/node.rs`, `shared_port.rs`) | `conns`, `nodes`, the owner of each remote address and ufrag | `connect`, `on_offer`, `on_answer`, `send`, `broadcast`, removal on disconnect | two workers may offer at once, over one pair of sockets; a lost connection is noticed at different times, or twice | `nodes` leads to a connection; workers that stay end connected |
| Framing (`p2p-network/node/remote_conn.rs`) | two priority queues, frames being put together, bytes in the air | `push_frame`, `on_received`, `pop_send`, channel events | flow control in both directions at once; small frames overtake big ones | whole frames, once, in order; the limit holds; everything arrives |
| Registry server (`registry/server`) | registered workers, a sender per worker, bounded channels | accept, read, write and close of a websocket; start, update, stats, relay, end and HTTP queries in the main loop | tasks and the main loop wait for each other; a worker reconnects before its old end is seen | registration follows the connections; everybody is introduced; nobody waits for ever |
| Registry client (`registry/client`) | a queue of messages | `update_layer`, `offer`, `answer`, `recv` | cancelled inside `select!` | nothing queued is lost |
| Layer selection (`registry/client/layers_selection.rs`, `session_manager.rs`, the page `health.tsx`) | the range each worker reported | `get_distribution`, `select_layers`, `isModelComplete` | arithmetic at the edges; a suggestion is old when it is used | the window chosen is a least-served one, and a contributor that brings what it was asked for is taken |
| Requests between workers (`worker/rpc.rs`, `communication.rs`) | a counter, who waits for which number | request, answer, a task per request | answers in any order, no timeout, numbers that start again with the process | an answer finds its request; every request ends |
| Chat chain (`worker/model_service.rs`, `virtual_model_layers.rs`) | sessions per worker | START, FORWARD, END at every hop | a handler waits for the next hop in the middle; any hop may fail, vanish or be visited twice | the chat loop hears back; END leaves nothing behind |
| Usage accounting (`contract`) | spending, earning, root keys, checkpoints; the session on chain | the `pre_` and `post_` hooks of the chain | counters without atomicity; failures between two hooks | nobody works unpaid, nobody claims more than was signed |
| Chat loops (`models/phi3`, `models/llama`, `token_output_stream.rs`, `openai-http/api_chat.rs`) | tokens, position, KV cache, text held back, two channels and a reader's buffer | start, a forward per token, finish; the text's way to the client | two ways of counting positions; text that depends on earlier tokens; early returns, unwraps and a client that leaves | the cache is the context; the client gets the text, whole and in order; the chat ends and leaves nothing behind |
| Control plane (`bin/openai-server`, `openai-http`) | running models, the model store, a worker task per model, the channels between | start, stop, status, chat | handlers wait for workers under a lock; stop answers before it is done; clients leave and workers die in between | one worker per model, which can be stopped and is in the store; nobody waits for ever |
| Tensor computation, STUN, HTTP formatting, the rest of the desktop app, the contract on chain | | | | not modelled, section 6 |

Interactions: the chat loop calls the root's `ModelService`, which reads the
routing table and sends requests through `WorkerCommunication`, the worker's one
`select!` loop; that loop also receives from the connections (advertisements,
requests, answers, disconnections) and from the registry (offers, answers,
neighbours). Every request is handled in a task of its own. The hazards that follow from
this are listed under `hazards` in `PROJECT.json`, each at its line, with the
properties that would notice it going wrong.

## 2. Modules

**RouteTable** is the table of one worker as a value. An operation that changes it
returns the set of tables it may leave behind, since `min_by` over a HashMap
keeps any one of several cheapest remotes (`UpdateBest`). Cost and age are
numbers; `None` is `Option::None`. `ToSyncReq` and `FromSyncReq` are the
conversions to and from the wire, with their `enable` flag.

**Routing** is the protocol: a table, a clock and queues of advertisements per
worker. `Tick` is the whole ticker branch (advertise first, expire after),
`RecvSync` the SyncReq branch, `Disconnected` and `StaleDisconnected` the
NodeDisconnected branch for the connection in use and for one that a newer
connection replaced. `Connect` is the exchange of offer and answer as a whole.
`Stop` and `Start` are a process that ends and one with the same node id that
begins; nothing is persistent. `Skew` lets the clocks differ. `emitted` is a
history variable. `Dist` is a lower bound on the cost of a chain, given by the
instance and checked by `DistAssumption`.

**RouteExpiry** adds ideal timing to Routing (one tick per worker and period,
delivery within the period), to test the bound on the age of routes that
`table.rs` states.

**FrameChannel** says what a connection promises: whole frames, each once, in order
among the small ones and among the big ones. **ConnectionBuffer** is what
`remote_conn.rs` does: a buffer as a value (`PushFrame`, `OnChunk`, `OnAck`,
`PopSend`), and two ends with the three moments at which they use it
(`SendData`, `ChannelOpen`, `ChannelData`). Bytes are pieces of frames with a
length; sizes are small numbers. The data channel is reliable and ordered, as
SCTP is. `ConnectionBuffer` implements `FrameChannel`: the refinement mapping
takes as the frames in transit, a set, those of which a chunk is in a queue or on the
wire, or which are half put together.

**Registry** is the server: one task per websocket and one main loop, with bounded
channels. A send beyond the capacity is in the queue and leaves its task blocked.
`OnStart` to `OnEnd` are the main loop's cases; the send that follows an event
(`MainSend`) is a step of its own, since the loop may wait there. A panic of the
main loop ends the process. An HTTP query takes the same way (`Ask`), is answered
into a channel of its own, and may be given up.

**LayerPlacement** is what the registry keeps of a model's workers and what is made of
it: the distribution, the range `select_layers` suggests from it, and the monitor
page's verdict. `SelectLayers` is the code's; `SuggestionIsBest` compares it with the
definition, over every distribution that workers which join, report and leave produce.
A contributor asks, and joins later with what it was told then. A model has at least
one layer.

**ChatChain** is a chat and its chain. A hop's handler is two steps: up to its
request to the next hop (`Start`, `Forward`, `End`, entered from the chat loop or
from `RecvReq`), and from the answer on (`Continue`). The route of a hop is any
the table could give at that moment (`Routes`): none, straight, a relay, or
through a worker that is already in the chain. `OnChainService` is part of the
handlers. Messages may be lost and workers leave.

**Rpc** is the layer below: the numbers of requests, who waits for which, a task per
request at the asked worker, lost connections, handlers that panic, and a restart of
the asking process under the same node id. What is asked is ChatChain's; an answer is
known by the request it was made for.

**ChatLoop** is one chat as the root runs it, with the chain behind it reduced to
calls that answer, report a failure, or are never answered (`NoAnswer`). The loops of phi3 (`Prefill`, `Bound`, `Phi3Turn`) and
llama (`LlamaTurn`) feed tokens at positions into a cache; a sample is any token. A text
is a sequence of characters of a few kinds: a word, the space before it, a character
of two tokens, the replacement character half of it decodes to. `NextToken` and
`DecodeRest` are TokenOutputStream's. From there a piece goes through `tx` (one slot),
the forwarding task, a second channel and `PollRead`, which hands out as many
bytes as the reader has room for. `2^Width` stands for 2^32.

**NetworkNode** is how workers get connected: `conns`, `nodes` and `SharedUdpPort` of
each, the registry client's queue and what the registry sends back (`OnNeighbours`,
`OnOffer`, `OnAnswer`), and the events of a connection (`ChannelOpen`,
`ChannelClose`, `IceDisconnected`), which end in `NodeDisconnected`s that `Recv` takes
later. The registry is a relay here; its own faults are Registry's. A write to it
may be cancelled by `select!` after the message left the queue (`WriteCancelled`), and a
worker whose websocket is lost panics (`Stop`). str0m is
modelled by what the code relies on: an end that has the other's SDP sends checks, a
channel opens once each heard the other, and an end without contact gives up. A worker
has one address per process, so two connections between the same two processes
share it, and `MapRemote` gives its datagrams to the first. Routing takes the result, a
connection and an end noticed late, as one step each.

**Control** is a contributor's server: a handler per request up to each of its waits
(`Lock`, `P2pStart`, `Send`, `Answered`, `Broken`), a worker task per started
model, named by the request that started it (`Load` to `Finished`), and a chat's
way through the dispatcher (`Dispatch`, `SendModel`). A handler whose client
leaves is dropped where it waits, and with it its lock and the receiving end of the
answer; a worker that panics drops its channels and leaves its entries.

Each module states the types of its variables in `TypeOK`, the base of its proofs;
the runs are about the rest, except `routing`, whose theorem on `TypeOK` is listed too.
Each `MC...` module gives the constants of an instance. Operators whose comment begins with
"Faulty" are mistakes the code could have made; each shows that some property is able
to fail.

The theorems about a module are in the module of its name with `Proofs` added
(**RoutingProofs**, **RpcProofs**, **ControlProofs**, **RegistryProofs**,
**NetworkNodeProofs**, **ConnectionBufferProofs**, **ChatLoopProofs**,
**ChatChainProofs**), those about LayerPlacement in **ControlProofs** with the rest of the
contributor's server; section 5 says what they show and how.

## 3. Runs

| Run | Shows | Instance |
|---|---|---|
| `routing` | `TypeOK`, `NextIsBest`, `RoutesAreConnected`, `NeverRejuvenated`, `NeverUnderestimates` | gateway a - b - c, two layers, one fault, two clock values with a timeout of one, a's clock ahead; 256,906 states |
| `routing_live` | `Convergence`: after any fault, once all are up and connected, every worker settles on a cheapest chain for every layer | the same line, with the clock standing still; 16,225 states |
| `route_expiry` | **violated**: `RemovedAfterTimeout` | the same line under ideal timing, a grace of a whole extra timeout |
| `framing` | `InAirIsWhatIsInAir`, `AirLimit`, `WholeFramesInOrder` (refinement), `FramesArriveOrBothJam` | two frames each way, of one or three chunks; two full chunks fit in the air; 11,708 states |
| `registry` | `RegisteredAreConnected`, `EveryPairIntroduced`, `SendsReachMain` and `QueriesAnswered`: whoever waits for the main loop gets through, unless two full channels jam | two workers, one with a second connection, and a query; channels of one slot; 187,107 states |
| `registry_duplicate` | **violated**: `SenderIsRegistered` | the same, with more room |
| `chat_chain` | `WorkersAreParticipants`, `EarnsWhatIsSigned`, `ClaimsAreSigned`, `FinishedLeavesNothing`, `OneTurnAtATime`, `EveryChatReturns` | two chats with different roots over three workers, chains of up to four hops, two faults; 508,383 states |
| `network` | `NodesLeadToConns`, `EntryLostOnlyByReplacement`, `PortsLeadToLiveConns`, `WorkersLink`: workers end connected, unless both offered at once or the network failed | two workers, each of which may start at any time, and one stop, restart, cut or cancelled write; 50,869 states |
| `control` | `RunningCanBeStopped`, `ServedUnlessOvertaken`, `NoEntryOfStopped`, `RequestsReturn`, `ChatsSettle` | two starts and a stop of one model, a start of another, a status, two chats; one client that leaves or worker that fails; 384,848 states |
| `chat_loop` | `CacheIsContext`, `WithinMaxLen`, `TextInOrder`, `EofMeansWhole`, `LeaksExplained`, `ChatEnds` | one chat of either model, prompts of 1, 2 and 6 tokens, five positions, `max_tokens` of -1, 1 and 4, reads of one or two bytes, any call into the chain failing or unanswered; 803,638 states |
| `placement` | `SuggestionIsBest`, `GreenMeansNearlyServed`, `PromiseKept` | three workers, one of them a contributor that offers 0 to 5 layers, four layers; 25,202 states |
| `rpc` | `AnswersMatch`, `RequestsEnd` | three requests to two workers, one restart, one other fault; 90,501 states |

The violated runs are disagreements between the code and what a comment or an
assertion says of it; `findings` quotes each:

1. A worker advertises before it expires. Two workers keep a dead provider's
   route alive between them past its timeout. Expiring first, nothing survives
   the bound in the same instance.
2. While a worker has two connections, as when it reconnects before its old end is
   processed, the end of either unregisters the worker, and the next message on the other
   makes the registry panic.

Some properties that hold say precisely where the code stops short, and would
fail without their exception: workers that offer each other a connection at
once may both end without one, since nobody tries again (`WorkersLink`); the end of
a connection removes the entry of the one that replaced it
(`EntryLostOnlyByReplacement`); a worker started before its predecessor has left the
store loses its entry to it and then ends (`ServedUnlessOvertaken`); the
entries of a worker that failed stay, and with them "Model already started"
(`NoEntryOfStopped`). Two ends whose acknowledgements wait behind chunks the limit
has no room for never send again (`FramesArriveOrBothJam`: the only way for frames to
stay behind). The registry's main loop and a connection's task may wait in each
other's full channel, even a task that only wants to report its end
(`SendsReachMain`, `QueriesAnswered`). A hop whose next worker has no route panics over
the empty metadata of the answer, and the hops before it wait for ever; so they do when
a connection is lost, since nothing times out (`EveryChatReturns`, `RequestsEnd`). A
handler that outlives the process that asked answers to its successor, whose
requests have the same numbers (`AnswersMatch`). Sessions and caches stay when the
chain fails, when a context fills up, and when a client leaves before phi3's first
text (`LeaksExplained`). A call into the chain that is never answered, because a message was
lost or a worker panicked over it, as over a context that is full, leaves the client
waiting (`ChatEnds`). A prompt longer than `max_len` makes phi3's limit wrap around, or
panic in a debug build (`WithinMaxLen`). The monitor page calls a model complete whose gap is
one layer before some range's start (`GreenMeansNearlyServed`). A contributor that asks for a suggestion and offers no layer, for a
model of which every layer is served, runs into `sum_in_window`'s assertion that its window
is not empty; no other request fails one (`SuggestionIsBest`). A negative `max_tokens` is
a huge limit, and only the model's context ends such a chat.

Other limits seen while modelling, which no property is about: `select_layers` takes
the window served least in all, which need not be one that closes the gap
(`[0,9,9,1,1,1]` with three layers), and in an empty swarm turns away everyone who
cannot serve the whole model; the first token of phi3's answer is not compared with the
end-of-text token; a forward that fails has been signed at the root all the same
(`used` counts those that returned); the server would keep `llama32-vision-11b` in its store
under the id `llama32-11b` (`worker.rs:87`), but that model does not get past loading its
weights, and Control uses one name for both maps; the layer counts given to the
chain are one too high per hop and wrap around at a relay. Routes are chosen by the number of hops, since every hop is
given the same constant round-trip time.

### Bounds, and why they are enough

* `MaxTime`, `Period`, `ROUTE_TIMEOUT_MS`: ages only matter relative to the
  timeout. In `routing` an entry expires in one clock step. `routing_live`
  lets nothing expire: the claim is that convergence does not depend on it.
* `MaxInFlight = 1`: one advertisement per connection and direction; a later one
  overrides an earlier one completely.
* `MaxCost`: costs saturate one hop beyond the dearest honest one. Ghosts
  circulate at the cap instead of counting on; the code's `u32` would take
  days to wrap. It is a parameter of the proofs too.
* `MaxFaults`: one stop, or one lost connection, with the reconnections that
  follow, reaches both ghosts and late disconnections.
* Framing: the limit is two full chunks, the code's is 36; a big frame has three,
  so it never fits at once, and two frames suffice for overtaking.
* Registry: channels of one slot instead of 10, so that all of them fill; three
  messages and a query are enough to fill two at once. The connection that reports may be
  the worker's first or its second. The code's 10 is less than what neighbours may relay.
* Chat loop: five positions, so that prompts and answers end at, before and beyond the
  end of the context; a `u32` of three bits, so that wrapping is seen; a stream of one
  message, so that it fills. Three tokens show every way a character may be cut.
* Placement: with four layers, ranges may be apart, touch, overlap and be empty; two
  other workers are enough for every pattern of one gap between two ranges.
* Rpc: two requests to one worker and one to another are answered in every order; one
  restart is enough for the numbers to be used again.
* Network: two workers. Each pair has its own connections and shares only the
  queue to the registry with others; one fault and the simultaneous start reach
  replaced, doubled and misdelivered connections.
* Control: capacities of 1 instead of 10, so that channels fill; one fault is
  enough to abandon any request or lose any worker at any point. Two chats for one model
  fill its worker's channel and make the dispatcher wait. Chats for another model would
  be queued behind it: what they need, that the dispatcher goes on whatever becomes of
  the worker, is what the run shows.
* Chat chain: three layers on three workers; four hops allow one relay or one
  worker visited twice. One token of prompt and one generated.

### Fairness

Only what the runtime gives. Routing: each ticker fires, each loop takes what its
connections deliver (`WF` of `Tick` and `RecvSync`); faults, reconnections and
the clock owe nothing, and `Convergence` asks that connections be back.
Framing: the channel opens and delivers; nobody has to send. Registry: the main
loop and the connections' tasks go on when they can, which takes workers that read their
sockets while they stay connected (the write at `server/mod.rs:200` is awaited); workers
owe nothing else. Chat
chain: handlers that can go on do, and the chat loop does not pause; a chat
need not start. Network: each worker's loop goes on, which includes str0m's timers;
nobody has to start. Control: handlers, workers and the dispatcher go on when they
can, a model that loads does so in the end or fails; no request or chat has to
come. Chat loop: the loop, the forwarding task and the reader go on when they can; a
client that stays reads; a call into the chain need not return. Rpc: both main loops go on,
and a handler that does not panic
returns; in the code it first waits for its own next hop in the same way, so `RequestsEnd` is
about one hop and `EveryChatReturns` about the chain; connections owe nothing. Losses, departures and failures are not fair.

`CHECK_DEADLOCK FALSE` stands where the system comes to rest: all frames sent,
all messages read, all chats done, all requests answered, every worker connected, or the
bounded clock of `RouteExpiry` at its end.

## 4. What is only model-checked

* Liveness (`Convergence`, `FramesArriveOrBothJam`, `SendsReachMain`, `QueriesAnswered`,
  `EveryChatReturns`, `WorkersLink`, `RequestsReturn`, `ChatsSettle`, `ChatEnds`,
  `RequestsEnd`): TLAPS has no fairness reasoning.
* The two violated runs, which show what the code does not guarantee.
* The models of the tokenizers library, of str0m and of tokio's channels are taken from how
  the code uses them; neither the runs nor the proofs are about those libraries.

## 5. What is proved

Every theorem is for any value of the constants that satisfies the named assumptions of
its module: any number of workers, requests, chats, layers and tokens, chains and
channels of any length, any number of faults. The assumptions beyond the ranges of the
parameters are that `None` is not one of the values it is told apart from
(`NoneAssumption` of each module; `Nothing` and
`Panic`, `NothingAssumption`, in `LayerPlacement`), that there are finitely many workers (`NetworkNode`),
that `2^Width` is a positive number (`ChatLoop`), that a full chunk fits in the limit and
a connection has two ends (`ConnectionBuffer`), that workers and queries are different
things (`Registry`), and that `Dist` is what it says (`DistAssumption` of `Routing`).

Each component has an inductive invariant, `...Invariant` under `theorems`; TLC checked
it on the component's instance before it was proved, by one lemma per action. From it
each property follows as `Spec => []P`. What an invariant adds is the reason why the
property holds:

* **Routing** (`TypeOK`, `NextIsBest`, `RoutesAreConnected`, `NeverRejuvenated`,
  `NeverUnderestimates`). First, what each table operation guarantees (`ApplySyncTable`,
  `OnTickTable`, `OnDisconnectedTable`, `CreateSyncEntry`), whichever of several best
  remotes it picks. Then `IInv`: the properties of tables need the same of the
  advertisements in flight (`QueuesGood`), since one becomes the other;
  `ConnsJoinPeers`, because the bound on costs needs the neighbour to be a peer; and
  `ClocksRun`, so that what a provider advertised before is witnessed by what it
  advertises now. The bound on costs goes round the circle: an advertisement of n is no
  cheaper than its table's entry for m, which is no cheaper than a hop more than m's
  advertisement was, and `Dist` obeys the triangle inequality.
* **Rpc** (`AnswersMatch`). A message or task carries a number that its own process gave
  out (`FlightGenuine`), a task has one owner (`TasksOwned`), and nobody else of that
  process waits for the number: so an answer finds its request, or it was made for an
  earlier process.
* **Control** (`RunningCanBeStopped`, `ServedUnlessOvertaken`, `NoEntryOfStopped`). What a
  handler read under the lock stays true over all of its waits while it holds it
  (`Relied`); a stop on its way is addressed to the worker that was entered
  (`StopsAddressed`); and who overtakes whom in the store is known (`Overtakers`).
* **Registry** (`EveryPairIntroduced`, `RegisteredAreConnected`). In the channel to the
  main loop each connection's start comes first and its end last (`Orderly`); while no
  worker's connections have overlapped, what is registered is what is connected, up to
  the events the channel holds (`Tracked`).
* **NetworkNode** (`NodesLeadToConns`, `EntryLostOnlyByReplacement`,
  `PortsLeadToLiveConns`). An offer on its way is the only one of its connection and new
  to its receiver (`FreshOffers`, `SingleOffers`), what connections reported names them
  (`EventsName`), and an end is taken once (`EndsTaken`). Also `NetworkEveryOfferIsAccepted`: the
  assertion in `on_offer` never fails.
* **ChatLoop** (`CacheIsContext`, `WithinMaxLen`, `LeaksExplained`). Where a loop is tells
  what it has fed, counted and sent (`Stages`, `Fed`), with the limit computed modulo
  `2^Width`; and the forwarding task outlives the loop's sends (`ForwarderStays`).
  On top of that the text (`TextInOrder`, `EofMeansWhole`, `TypeOK`), in three parts.
  `Kept`, of the TokenOutputStream: the tokens it has settled cut no character, and among
  those it decodes again with the next ones there is one that is not skipped. Then the
  text of all tokens is the text settled followed by what is new (`ContextSuffices`,
  `NewTextIs`), and a text that ends in a word or a character keeps this so
  (`EmitsWhole`): that is why waiting for an alphanumeric character is enough.
  `Flowing`, of the loop: the pieces sent are the text settled, but for the piece on its
  way, and after `decode_rest` the whole text, unless the client went and the task dropped
  the channel. `Piped`, of the way to the client: while the client is there, the messages
  of all pieces sent are what it received, what the reader has left, the stream, the
  task's message and the channel's, in this order.
* **ChatChain**, in two layers. `IInv` says of each chat that it has at most one message,
  that those who wait are before it, and that the sessions form the part of the
  chain which the command on its way has built (START), runs through (FORWARD) or has
  left standing (END). It gives `OneTurnAtATime` and `FinishedLeavesNothing`. `Pays`, on top of
  it, says how far the counts have come: the session on chain lists whom each hop hands
  on to (`Named`); when the token after the first u has come through j hops, each worker
  has counted u for every hop it has, and one more for each of its hops among the first j
  (`Counted`); behind END, each hop that is left is owed the tokens of the chat
  (`Owed`). It gives `EarnsWhatIsSigned`, `WorkersAreParticipants` and `ClaimsAreSigned`. A
  chain may visit a worker several times; the lemmas about `Passed` and `Times` count its
  hops, and `OneHop` says that a worker which the list names once has one hop, so nobody
  else's claim touches its count.
* **LayerPlacement** (`PromiseKept`, `SuggestionIsBest`, `GreenMeansNearlyServed`). What a
  contributor was told stays enough for the gaps there are now (`Promises`), because gaps
  only shrink until a worker is lost. `PadIsCount` and `WindowSums` say what the padded
  distribution and the sums over its windows are in terms of the workers' ranges, and from
  them `BestWindow` gets that the window chosen is the first of those served least;
  `NoneOffered` is the case of an offer of no layer.
* **ConnectionBuffer** (`AirLimit`, `InAirIsWhatIsInAir`, and `WholeFramesInOrder`, the
  refinement of `FrameChannel`). Everything is said of the *line* of an end: the wire to
  its peer followed by its two queues. `PopSend` moves chunks along the line, so it leaves
  the line as it is; a chunk enters it when a frame is pushed and leaves it at the front.
  For each direction the invariant has four parts. `Counted`: no chunk is under way twice,
  or together with its own acknowledgement, and the sender remembers the size of each; so
  every acknowledgement takes from `in_air_size` what its chunk added. The sum itself: the
  counter is what is on the wire and what the acknowledgements coming back will take.
  `Framed`: each chunk of an
  unfinished frame is either under way or already at the receiver, and those under way are
  ordered by frame within each class, big and small. `Taken`: what was handed over are
  whole frames. From these follows that the chunk
  which completes a frame completes the oldest of its class, as `FDeliver` demands, and
  that what is handed over are its pieces in order.

Several of these facts are about what a fold over a sequence of any length computes:
`FlattenSeq`, `FoldLeft`, the sums over windows and queues. The library's induction theorems
are out of the provers' reach, since they take a predicate as parameter; the proofs go by
least counterexample instead. `NatLessThanWellFounded` gives the least element of a set of
exceptions, and the functions of partial results that it ranges over (`Parts`, `Sums`,
`AddUp`) are shown to exist, and to be what the recursive function of the fold computes.

## 6. What is not modelled

* Tensors, the distribution samples are drawn from, tokenizers: numerical code. A
  sample may be any token, and of a tokenizer only spaces and split characters matter.
* STUN, HTTP and JSON, the desktop application except its test for a complete model:
  input and output. (`poll_read` would lose its place if called without any room;
  nothing calls it so.)
* The contract on chain: not in the repository; the model records the sessions and
  claims submitted to it. The layer counts that go with a session are read by nothing
  in the repository.
* ICE, DTLS and SCTP: str0m's. The model takes from them a reliable ordered channel
  and a disconnection that each end notices by itself.
* Several addresses of a worker (server-reflexive candidates), and SDP that str0m
  rejects.
* The gateway mode of the server, whose models are fixed when it starts.
* Frames of more than 65535 chunks (256 MiB), whose count is cut to 16 bits.
* Statistics, logs, the registry's neighbours request, which no client sends.
* The fake model: its `build_prompt` is `todo!()`, so that no chat reaches its loop.

## 7. Plan

Done: all the modules and runs above, and the proofs of section 5, which cover every
invariant and every refinement that a passing run checks.

Left: liveness stays with TLC as long as the provers have no rules for fairness. The
enabling conditions behind `FramesArriveOrBothJam` and `SendsReachMain` could be proved as
invariants of their own: that an end which may not send has all its allowance in the
air, and that a task which waits finds its channel full.
