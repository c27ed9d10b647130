---------------------------- MODULE NetworkNode -----------------------------
(***************************************************************************)
(* How workers get connected (crates/p2p-network/src/node.rs): each keeps  *)
(* its connections (`conns`), the one of them it sends to a worker by      *)
(* (`nodes`), and which datagrams belong to which (`SharedUdpPort`).       *)
(* Offers and answers travel through the registry, which tells a worker of *)
(* the others once, when it reports its layers.                            *)
(*                                                                         *)
(* ICE, DTLS and SCTP are str0m's: an end that knows the other's SDP sends *)
(* checks, the channel opens once each end heard the other, and an end     *)
(* that cannot hear the other gives up.  Frames are ConnectionBuffer's.    *)
(***************************************************************************)
EXTENDS Integers, Sequences, SequencesExt, FiniteSets

CONSTANTS
    Node,        \* node ids of workers
    MaxFaults,   \* bound: processes that stop, connections that are cut, and
                 \*   messages to the registry that are lost
    None

ASSUME NetworkAssumption == IsFiniteSet(Node) /\ MaxFaults \in Nat

VARIABLES
    up,         \* the workers that run; the registry knows them
    inc,        \* inc[n]: which process of n runs; each binds its own port
    conns,      \* conns[n]: n's RemoteConns by ConnId
    nodes,      \* nodes[n][m]: the connection n sends to m by, or None
    ufrags,     \* ufrags[n]: the connections with a task in task_ufrags
    remotes,    \* remotes[n]: task_remotes, as pairs of address and connection
    events,     \* events[n]: the NodeDisconnecteds n has not taken
    queue,      \* queue[n]: what n's RegistryClient has yet to write
    inbox,      \* inbox[n]: what the registry sent n
    seed,       \* ConnIds drawn so far
    shut,       \* connections whose channel was closed by NetworkNode::shutdown
    panicked,   \* a worker answered an offer it could not accept
    faults,     \* number of faults so far
    doubled,    \* history: <<n, m>>, n entered a connection to m before the
                \*   end of an earlier one was taken
    glared,     \* history: {n, m}, two connections between the same processes
    cut         \* history: {n, m}, a working connection was lost, or a message
                \*   to the registry that was to bring one about

vars == <<up, inc, conns, nodes, ufrags, remotes, events, queue, inbox, seed, shut,
          panicked, faults, doubled, glared, cut>>

client   == <<queue, inbox>>
ports    == <<ufrags, remotes>>
process  == <<up, inc, shut, faults>>
history  == <<doubled, glared, cut>>

-----------------------------------------------------------------------------
(* A RemoteConn: `pending` until the offerer has the answer, `heard` once  *)
(* a check of the other end arrived, `lost` once ICE gave up.              *)
RemoteConn(remote, pending) ==
    [remote |-> remote, pending |-> pending, heard |-> FALSE, channel |-> "none", lost |-> FALSE]

Ids(n) == DOMAIN conns[n]

ConnsTo(n, m) == {c \in Ids(n) : conns[n][c].remote = m}

With(f, c, conn) == [i \in DOMAIN f \cup {c} |-> IF i = c THEN conn ELSE f[i]]

Without(f, c) == [i \in DOMAIN f \ {c} |-> f[i]]

Address(n) == <<n, inc[n]>>

Mapped(n, addr) == {r.conn : r \in {r \in remotes[n] : r.addr = addr}}

(* ConnId::rand, for the i-th connection of several: never drawn before. *)
RandId(n, i) == seed + i

Init ==
    /\ up = {}
    /\ inc = [n \in Node |-> 0]
    /\ conns = [n \in Node |-> <<>>]
    /\ nodes = [n \in Node |-> [m \in Node |-> None]]
    /\ ufrags = [n \in Node |-> {}]
    /\ remotes = [n \in Node |-> {}]
    /\ events = [n \in Node |-> <<>>]
    /\ queue = [n \in Node |-> <<>>]
    /\ inbox = [n \in Node |-> <<>>]
    /\ seed = 0
    /\ shut = {}
    /\ panicked = FALSE
    /\ faults = 0
    /\ doubled = {} /\ glared = {} /\ cut = {}

(* WorkerCommunication::new: the websocket is up, the report of the layers *)
(* queued.                                                                 *)
Start(n) ==
    /\ n \notin up
    /\ up' = up \cup {n}
    /\ queue' = [queue EXCEPT ![n] = <<[type |-> "Update"]>>]
    /\ UNCHANGED <<inc, conns, nodes, ports, events, inbox, seed, shut, panicked, faults, history>>

(* The process ends, after a shutdown, which closes the open channels, or  *)
(* without one: killed, or by the unwrap of what registry_client.recv()    *)
(* returns once the registry's websocket is lost.                          *)
Stop(n) ==
    /\ n \in up
    /\ faults < MaxFaults
    /\ faults' = faults + 1
    /\ up' = up \ {n}
    /\ inc' = [inc EXCEPT ![n] = @ + 1]
    /\ \/ shut' = shut \cup {c \in Ids(n) : conns[n][c].channel = "open"}
       \/ shut' = shut
    /\ conns' = [conns EXCEPT ![n] = <<>>]
    /\ nodes' = [nodes EXCEPT ![n] = [m \in Node |-> None]]
    /\ ufrags' = [ufrags EXCEPT ![n] = {}]
    /\ remotes' = [remotes EXCEPT ![n] = {}]
    /\ events' = [events EXCEPT ![n] = <<>>]
    /\ queue' = [queue EXCEPT ![n] = <<>>]
    /\ inbox' = [inbox EXCEPT ![n] = <<>>]
    /\ doubled' = {p \in doubled : p[1] # n}
    /\ glared' = {p \in glared : n \notin p}
    /\ cut' = {p \in cut : n \notin p}
    /\ UNCHANGED <<seed, panicked>>

-----------------------------------------------------------------------------
(* The workers n has, or has yet to take the end of, a connection to.      *)
Unsettled(n) ==
    {<<n, m>> : m \in {conns[n][c].remote : c \in Ids(n)}
                          \cup {events[n][i].node : i \in DOMAIN events[n]}}

(* RegistryClient::recv writes what is queued, and the registry acts on    *)
(* it: a report is answered with the other workers, the rest is relayed to *)
(* a worker that is there.                                                 *)
RegistryWrite(n) ==
    /\ queue[n] # <<>>
    /\ queue' = [queue EXCEPT ![n] = Tail(@)]
    /\ LET req == Head(queue[n])
       IN  inbox' =
               IF req.type = "Update"
               THEN [inbox EXCEPT ![n] = Append(@, [type |-> "Neighbours", nodes |-> up \ {n}])]
               ELSE IF req.dest \in up
               THEN [inbox EXCEPT ![req.dest] =
                        Append(@, [type |-> req.type, from |-> n, conn |-> req.conn])]
               ELSE inbox
    /\ UNCHANGED <<process, conns, nodes, ports, events, seed, panicked, history>>

(* RegistryClient::recv has taken a message from the queue, and a branch   *)
(* of the select! around it completes before the write does: the message   *)
(* goes with the future that is dropped.                                   *)
WriteCancelled(n) ==
    /\ queue[n] # <<>> /\ faults < MaxFaults
    /\ faults' = faults + 1
    /\ queue' = [queue EXCEPT ![n] = Tail(@)]
    /\ LET req   == Head(queue[n])
           dests == IF req.type = "Update" THEN up \ {n} ELSE {req.dest}
       IN  cut' = cut \cup {{n, m} : m \in dests}
    /\ UNCHANGED <<up, inc, shut, conns, nodes, ports, events, inbox, seed, panicked, doubled,
                   glared>>

Take(n, type) == inbox[n] # <<>> /\ Head(inbox[n]).type = type

(* Neighbours: connect to every worker there is no entry for, and offer it *)
(* the connection.                                                         *)
OnNeighbours(n) ==
    /\ Take(n, "Neighbours")
    /\ inbox' = [inbox EXCEPT ![n] = Tail(@)]
    /\ LET dests == {m \in Head(inbox[n]).nodes : nodes[n][m] = None}
           order == SetToSeq(dests)
           id    == [i \in DOMAIN order |-> RandId(n, i)]
           place == Inverse(order, DOMAIN order, dests)
           new   == Inverse(id, DOMAIN order, Range(id))
       IN  /\ nodes' = [nodes EXCEPT ![n] =
                           [m \in Node |-> IF m \in dests THEN id[place[m]] ELSE @[m]]]
           /\ conns' = [conns EXCEPT ![n] =
                           [c \in DOMAIN @ \cup DOMAIN new |->
                               IF c \in DOMAIN new THEN RemoteConn(order[new[c]], TRUE) ELSE @[c]]]
           /\ ufrags' = [ufrags EXCEPT ![n] = @ \cup Range(id)]
           /\ queue' = [queue EXCEPT ![n] = @ \o
                           [i \in DOMAIN order |->
                               [type |-> "Offer", dest |-> order[i], conn |-> id[i]]]]
           /\ seed' = seed + Len(order)
           /\ doubled' = doubled \cup (({n} \X dests) \cap Unsettled(n))
    /\ UNCHANGED <<process, remotes, events, panicked, glared, cut>>

(* Faulty: the sender of an offer is not entered in `nodes`; its datagrams *)
(* are not known to belong to the connection.                              *)
AcceptOfferUnnamed(n, c, m) ==
    /\ conns' = [conns EXCEPT ![n] = With(@, c, RemoteConn(m, FALSE))]
    /\ ufrags' = [ufrags EXCEPT ![n] = @ \cup {c}]
    /\ UNCHANGED nodes

AcceptOfferUnmapped(n, c, m) ==
    /\ conns' = [conns EXCEPT ![n] = With(@, c, RemoteConn(m, FALSE))]
    /\ nodes' = [nodes EXCEPT ![n][m] = c]
    /\ UNCHANGED ufrags

(* NetworkNode::on_offer: the newest connection is the one to send by.     *)
AcceptOffer(n, c, m) ==
    /\ conns' = [conns EXCEPT ![n] = With(@, c, RemoteConn(m, FALSE))]
    /\ ufrags' = [ufrags EXCEPT ![n] = @ \cup {c}]
    /\ nodes' = [nodes EXCEPT ![n][m] = c]

(* An offer is answered; one for a ConnId that is in use cannot be, and    *)
(* RegistryClient::answer unwraps the error.                               *)
OnOffer(n) ==
    /\ Take(n, "Offer")
    /\ inbox' = [inbox EXCEPT ![n] = Tail(@)]
    /\ LET c == Head(inbox[n]).conn
           m == Head(inbox[n]).from
       IN  IF c \in Ids(n)
           THEN /\ panicked' = TRUE
                /\ UNCHANGED <<conns, nodes, ufrags, queue, doubled, glared>>
           ELSE /\ AcceptOffer(n, c, m)
                /\ queue' = [queue EXCEPT ![n] =
                                Append(@, [type |-> "Answer", dest |-> m, conn |-> c])]
                /\ doubled' = doubled \cup ({<<n, m>>} \cap Unsettled(n))
                /\ glared' = IF ConnsTo(n, m) \cap Ids(m) # {}
                             THEN glared \cup {{n, m}} ELSE glared
                /\ UNCHANGED panicked
    /\ UNCHANGED <<process, remotes, events, seed, cut>>

(* NetworkNode::on_answer: for a connection that is known, to that worker, *)
(* and still waits for it.                                                 *)
OnAnswer(n) ==
    /\ Take(n, "Answer")
    /\ inbox' = [inbox EXCEPT ![n] = Tail(@)]
    /\ LET c == Head(inbox[n]).conn
           m == Head(inbox[n]).from
       IN  conns' = IF c \in ConnsTo(n, m)
                    THEN [conns EXCEPT ![n][c].pending = FALSE]
                    ELSE conns
    /\ UNCHANGED <<process, nodes, ports, events, queue, seed, panicked, history>>

-----------------------------------------------------------------------------
(* The other end of n's connection c sends checks for it. *)
Checking(n, c) ==
    LET m == conns[n][c].remote
    IN  /\ m \in up /\ c \in ConnsTo(m, n)
        /\ ~conns[m][c].pending /\ ~conns[m][c].lost

(* SharedUdpPort::map_remote: an address belongs to the connection whose   *)
(* datagram was the first to come from it.                                 *)
MapRemote(n, addr, c) ==
    IF Mapped(n, addr) # {} THEN Mapped(n, addr)
    ELSE IF c \in ufrags[n] THEN {c} ELSE {}

(* A connection takes no checks before it knows the other end's SDP. *)
TakesChecks(conn) == ~conn.pending /\ ~conn.lost

(* A check of the other end of c arrives: it goes to the connection its    *)
(* address belongs to, which ignores it when it is another one's.          *)
CheckArrives(n, c) ==
    /\ Checking(n, c)
    /\ LET addr == Address(conns[n][c].remote)
           task == MapRemote(n, addr, c)
       IN  /\ remotes' = [remotes EXCEPT ![n] = @ \cup [addr : {addr}, conn : task]]
           /\ conns' = IF task = {c} /\ TakesChecks(conns[n][c])
                       THEN [conns EXCEPT ![n][c].heard = TRUE]
                       ELSE conns
    /\ UNCHANGED <<process, nodes, ufrags, events, client, seed, panicked, history>>

(* ChannelOpen, once each end heard the other. *)
ChannelOpen(n, c) ==
    /\ Checking(n, c)
    /\ conns[n][c].heard /\ conns[conns[n][c].remote][c].heard
    /\ ~conns[n][c].lost /\ conns[n][c].channel = "none"
    /\ conns' = [conns EXCEPT ![n][c].channel = "open"]
    /\ UNCHANGED <<process, nodes, ports, events, client, seed, panicked, history>>

(* Faulty: the addresses of the connection stay. *)
RemoveTaskKeepsRemotes(n, c) ==
    /\ ufrags' = [ufrags EXCEPT ![n] = @ \ {c}]
    /\ UNCHANGED remotes

(* SharedUdpPort::remove_task *)
RemoveTask(n, c) ==
    /\ ufrags' = [ufrags EXCEPT ![n] = @ \ {c}]
    /\ remotes' = [remotes EXCEPT ![n] = {r \in @ : r.conn # c}]

(* RemoteConnOut::Disconnected, in pop_conn. *)
Disconnected(n, c) ==
    /\ RemoveTask(n, c)
    /\ events' = [events EXCEPT ![n] = Append(@, [conn |-> c, node |-> conns[n][c].remote])]

(* ChannelClose: the other end was shut down. *)
ChannelClose(n, c) ==
    /\ c \in shut
    /\ conns[n][c].channel = "open"
    /\ conns' = [conns EXCEPT ![n][c].channel = "closed"]
    /\ Disconnected(n, c)
    /\ UNCHANGED <<process, nodes, client, seed, panicked, history>>

(* Checks for c from its other end arrive at n, or could. *)
Hears(n, c) ==
    Checking(n, c) /\ c \in MapRemote(n, Address(conns[n][c].remote), c)

(* The other end of c will send checks once it has the answer to its offer. *)
Awaited(n, c) ==
    LET m == conns[n][c].remote
    IN  m \in up /\ c \in ConnsTo(m, n) /\ conns[m][c].pending

Contact(n, c) ==
    \/ Awaited(n, c)
    \/ Hears(n, c) /\ Hears(conns[n][c].remote, c)

(* IceConnectionState::Disconnected: because there is no contact, or with  *)
(* a fault of the network.                                                 *)
IceDisconnected(n, c) ==
    /\ ~conns[n][c].pending /\ ~conns[n][c].lost
    /\ conns' = [conns EXCEPT ![n][c].lost = TRUE]
    /\ Disconnected(n, c)
    /\ UNCHANGED <<up, inc, shut, nodes, client, seed, panicked, doubled, glared>>

GiveUp(n, c) ==
    /\ ~Contact(n, c)
    /\ IceDisconnected(n, c)
    /\ UNCHANGED <<faults, cut>>

Cut(n, c) ==
    /\ Contact(n, c) /\ faults < MaxFaults
    /\ IceDisconnected(n, c)
    /\ faults' = faults + 1
    /\ cut' = cut \cup {{n, conns[n][c].remote}}

(* Faulty: the entry of the node stays. *)
ForgetKeepsNode(n, c, m) ==
    /\ conns' = [conns EXCEPT ![n] = Without(@, c)]
    /\ UNCHANGED nodes

Forget(n, c, m) ==
    /\ conns' = [conns EXCEPT ![n] = Without(@, c)]
    /\ nodes' = [nodes EXCEPT ![n][m] = None]

(* NetworkNode::recv takes a NodeDisconnected. *)
Recv(n) ==
    /\ events[n] # <<>>
    /\ Forget(n, Head(events[n]).conn, Head(events[n]).node)
    /\ events' = [events EXCEPT ![n] = Tail(@)]
    /\ UNCHANGED <<process, ports, client, seed, panicked, history>>

(* What n's select! loop does by itself. *)
Progress(n) ==
    /\ ~panicked
    /\ \/ RegistryWrite(n) \/ OnNeighbours(n) \/ OnOffer(n) \/ OnAnswer(n) \/ Recv(n)
       \/ \E c \in Ids(n) : \/ CheckArrives(n, c) \/ ChannelOpen(n, c)
                            \/ ChannelClose(n, c) \/ GiveUp(n, c)

Fault(n) ==
    /\ ~panicked
    /\ Stop(n) \/ WriteCancelled(n) \/ \E c \in Ids(n) : Cut(n, c)

Next == \E n \in Node : Start(n) \/ Progress(n) \/ Fault(n)

Spec == Init /\ [][Next]_vars

(* Every loop goes on; nobody has to start, stop or fail. *)
FairSpec == Spec /\ \A n \in Node : WF_vars(Progress(n))

-----------------------------------------------------------------------------
RemoteConnType ==
    [remote : Node, pending : BOOLEAN, heard : BOOLEAN,
     channel : {"none", "open", "closed"}, lost : BOOLEAN]

(* What a worker writes to the registry, and what the registry sends it.   *)
Request == [type : {"Update"}] \cup [type : {"Offer", "Answer"}, dest : Node, conn : Nat]
Message == [type : {"Neighbours"}, nodes : SUBSET Node]
               \cup [type : {"Offer", "Answer"}, from : Node, conn : Nat]

(* Every variable has its type. *)
TypeOK ==
    /\ up \subseteq Node
    /\ inc \in [Node -> Nat]
    /\ DOMAIN conns = Node
    /\ \A n \in Node : Ids(n) \subseteq Nat /\ \A c \in Ids(n) : conns[n][c] \in RemoteConnType
    /\ nodes \in [Node -> [Node -> Nat \cup {None}]]
    /\ ufrags \in [Node -> SUBSET Nat]
    /\ remotes \in [Node -> SUBSET [addr : Node \X Nat, conn : Nat]]
    /\ events \in [Node -> Seq([conn : Nat, node : Node])]
    /\ queue \in [Node -> Seq(Request)]
    /\ inbox \in [Node -> Seq(Message)]
    /\ seed \in Nat
    /\ shut \subseteq Nat
    /\ panicked \in BOOLEAN
    /\ faults \in 0 .. MaxFaults
    /\ doubled \subseteq Node \X Node
    /\ glared \subseteq SUBSET Node /\ cut \subseteq SUBSET Node

(* NetworkNode::send: an entry in `nodes` leads to a connection to that    *)
(* very worker, whichever of several connections ended, so that            *)
(* SendError::NoConnection never comes back.                               *)
NodesLeadToConns ==
    \A n, m \in Node : nodes[n][m] # None => nodes[n][m] \in ConnsTo(n, m)

(* NodeDisconnected removes a worker's entry whatever connection ended.    *)
(* That costs a worker an entry it needs only if it entered a connection   *)
(* before the end of an earlier one to the same worker was taken; without  *)
(* that, `send` and `broadcast` use the same connections.                  *)
EntryLostOnlyByReplacement ==
    \A n, m \in Node :
        <<n, m>> \notin doubled => \A c \in ConnsTo(n, m) : nodes[n][m] = c

(* SharedUdpPort: no address and no ufrag leads to a connection that has   *)
(* ended, where it would swallow what a later connection is sent.          *)
PortsLeadToLiveConns ==
    \A n \in Node :
        \A c \in ufrags[n] \cup {r.conn : r \in remotes[n]} :
            /\ c \in Ids(n) /\ ~conns[n][c].lost
            /\ \A i \in DOMAIN events[n] : events[n][i].conn # c

Linked(n, m) ==
    \E c \in ConnsTo(n, m) \cap ConnsTo(m, n) :
        conns[n][c].channel = "open" /\ conns[m][c].channel = "open"

(* "All of which are interconnected": in whatever order workers start,     *)
(* stop and start again, those that stay up end with an open channel       *)
(* between any two of them -- unless both offered one to the other at      *)
(* once, the network failed, or a message to the registry was lost in a    *)
(* cancelled write, after which nobody tries again.                        *)
WorkersLink ==
    <>[](\A n, m \in up : n = m \/ {n, m} \in glared \cup cut \/ Linked(n, m))
=============================================================================
