-------------------------- MODULE ConnectionBuffer --------------------------
(***************************************************************************)
(* The two ends of a connection: each RemoteConn cuts the frames it is     *)
(* given into chunks, keeps at most AIR_LIMIT bytes of unacknowledged      *)
(* chunks on the data channel, lets small frames and acknowledgements      *)
(* overtake the chunks of big ones, and puts the chunks it receives        *)
(* together again (crates/p2p-network/src/node/remote_conn.rs).            *)
(*                                                                         *)
(* A buffer is a value; its operations are those of ConnectionBuffer.  The *)
(* actions are the three moments at which RemoteConn uses it: send_data,   *)
(* and the ChannelOpen and ChannelData events.  The data channel (SCTP in  *)
(* str0m) is reliable and ordered.                                         *)
(***************************************************************************)
EXTENDS Integers, Sequences, FiniteSets, FiniteSetsExt

CONSTANTS
    Ends,         \* the two ends of the connection
    CHUNK_SIZE,   \* payload of a full chunk
    AIR_LIMIT,    \* bytes of chunks on the channel without acknowledgement
    HEADER,       \* bytes the encoding of a chunk adds to its payload
    Lengths,      \* Lengths[e]: the lengths of the frames e may send
    MaxFrames     \* bound: frames each end sends

ASSUME BufferAssumption ==
    /\ \E e \in Ends : \E p \in Ends \ {e} : Ends = {e, p}
    /\ {CHUNK_SIZE, HEADER, MaxFrames} \subseteq Nat
    /\ CHUNK_SIZE > 0 /\ AIR_LIMIT \in Nat /\ CHUNK_SIZE + HEADER <= AIR_LIMIT
    /\ \A e \in Ends : Lengths[e] \subseteq Nat

VARIABLES
    buffer,   \* buffer[e]: e's ConnectionBuffer
    open,     \* the ends whose data channel is open
    wire,     \* wire[e]: encoded chunks on their way to e
    got,      \* got[e]: the frames e handed to its node
    sent      \* history: sent[e] = the lengths of the frames e was given

vars == <<buffer, open, wire, got, sent>>

Peer(e) == CHOOSE p \in Ends : p # e

-----------------------------------------------------------------------------
(* A piece of a frame stands for its bytes: which frame, from where, how   *)
(* many.  The bytes of a frame are its pieces in order.                    *)
Chunk(id, ix, count, len) ==
    [type |-> "Chunk", frame_id |-> id, chunk_id |-> ix, chunk_count |-> count,
     data |-> [frame |-> id, ix |-> ix, len |-> len]]

ChunkAck(c) ==
    [type |-> "ChunkAck", frame_id |-> c.frame_id, chunk_id |-> c.chunk_id,
     chunk_count |-> c.chunk_count]

InAirSize(c) == IF c.type = "Chunk" THEN c.data.len + HEADER ELSE 0

(* data.chunks(CHUNK_SIZE): full chunks, and what is left over. *)
ChunkCount(len) == IF len <= CHUNK_SIZE THEN 1 ELSE (len + CHUNK_SIZE - 1) \div CHUNK_SIZE

Chunks(id, len) ==
    [i \in 1 .. ChunkCount(len) |->
        Chunk(id, i - 1, ChunkCount(len),
              IF i < ChunkCount(len) THEN CHUNK_SIZE
                                     ELSE len - (ChunkCount(len) - 1) * CHUNK_SIZE)]

EmptyBuffer ==
    [frame_id_seed |-> 0, high_priority |-> <<>>, low_priority |-> <<>>,
     incomings |-> <<>>, outgoings |-> <<>>, outs |-> <<>>, in_air_size |-> 0]

Single(len) == len <= CHUNK_SIZE

PushFrame(b, len) ==
    LET id     == b.frame_id_seed
        chunks == Chunks(id, len)
        frame  == [ix \in 0 .. Len(chunks) - 1 |-> InAirSize(chunks[ix + 1])]
    IN  [b EXCEPT !.frame_id_seed = id + 1,
                  !.outgoings     = [f \in DOMAIN @ \cup {id} |->
                                        IF f = id THEN frame ELSE @[f]],
                  !.high_priority = IF Single(len) THEN @ \o chunks ELSE @,
                  !.low_priority  = IF Single(len) THEN @ ELSE @ \o chunks]

(* Faulty: a frame counts as complete with one chunk missing; only frames  *)
(* of one chunk are acknowledged.                                          *)
NearlyComplete(chunks, chunk_count) == Cardinality(DOMAIN chunks) + 1 = chunk_count
AckedSingle(b, c) ==
    IF c.chunk_count = 1 THEN [b EXCEPT !.high_priority = Append(@, ChunkAck(c))] ELSE b

Complete(chunks, chunk_count) == Cardinality(DOMAIN chunks) = chunk_count

Acked(b, c) == [b EXCEPT !.high_priority = Append(@, ChunkAck(c))]

(* A BTreeMap's values: the i-th is the one with i - 1 smaller keys.       *)
IntoIter(chunks) ==
    [i \in 1 .. Cardinality(DOMAIN chunks) |->
        chunks[CHOOSE ix \in DOMAIN chunks :
                   Cardinality({k \in DOMAIN chunks : k < ix}) = i - 1]]

(* on_received, for a chunk: acknowledge it, and pass on the frame once    *)
(* all its chunks are there, in the order of their ids.                    *)
OnChunk(b, c) ==
    LET known  == IF c.frame_id \in DOMAIN b.incomings
                  THEN b.incomings[c.frame_id]
                  ELSE [chunk_count |-> c.chunk_count, chunks |-> <<>>]
        chunks == [ix \in DOMAIN known.chunks \cup {c.chunk_id} |->
                      IF ix = c.chunk_id THEN c.data ELSE known.chunks[ix]]
        acked  == Acked(b, c)
    IN  IF c.chunk_count = 1
        THEN [acked EXCEPT !.outs = Append(@, <<c.data>>)]
        ELSE IF Complete(chunks, known.chunk_count)
        THEN [acked EXCEPT !.incomings = [f \in DOMAIN @ \ {c.frame_id} |-> @[f]],
                           !.outs = Append(@, IntoIter(chunks))]
        ELSE [acked EXCEPT
                 !.incomings = [f \in DOMAIN @ \cup {c.frame_id} |->
                                   IF f = c.frame_id
                                   THEN [known EXCEPT !.chunks = chunks]
                                   ELSE @[f]]]

(* Faulty: acknowledged bytes stay in the air. *)
OnAckKeepsSize(b, a) ==
    IF a.frame_id \notin DOMAIN b.outgoings
    THEN b
    ELSE [b EXCEPT !.outgoings = [f \in DOMAIN @ \ {a.frame_id} |-> @[f]]]

(* on_received, for an acknowledgement; unknown ones are ignored. *)
OnAck(b, a) ==
    IF \/ a.frame_id \notin DOMAIN b.outgoings
       \/ a.chunk_id \notin DOMAIN b.outgoings[a.frame_id]
    THEN b
    ELSE LET frame == b.outgoings[a.frame_id]
             rest  == [ix \in DOMAIN frame \ {a.chunk_id} |-> frame[ix]]
             kept  == IF DOMAIN rest = {} THEN DOMAIN b.outgoings \ {a.frame_id}
                                          ELSE DOMAIN b.outgoings
         IN  [b EXCEPT !.in_air_size = @ - frame[a.chunk_id],
                       !.outgoings   = [f \in kept |-> IF f = a.frame_id THEN rest ELSE @[f]]]

OnReceived(b, c) == IF c.type = "Chunk" THEN OnChunk(b, c) ELSE OnAck(b, c)

(* `while let Some(chunk) = pop_send()`: the queues go out in order, high  *)
(* priority first, up to the first element the limit has no room for --    *)
(* whatever stands behind that one waits too.                              *)
Total(sizes) ==
    LET sum[n \in 0 .. Len(sizes)] == IF n = 0 THEN 0 ELSE sum[n - 1] + sizes[n]
    IN  sum[Len(sizes)]

SizeOf(chunks) == Total([i \in DOMAIN chunks |-> InAirSize(chunks[i])])

(* Faulty: the limit is checked before the size of the next chunk is added. *)
PopSendOver(b) ==
    LET queue == b.high_priority \o b.low_priority
    IN  SubSeq(queue, 1, Max({n \in 0 .. Len(queue) :
                                 \A k \in 1 .. n :
                                     b.in_air_size + SizeOf(SubSeq(queue, 1, k - 1)) <= AIR_LIMIT}))

PopSend(b) ==
    LET queue == b.high_priority \o b.low_priority
    IN  SubSeq(queue, 1, Max({n \in 0 .. Len(queue) :
                                 \A k \in 1 .. n :
                                     b.in_air_size + SizeOf(SubSeq(queue, 1, k)) <= AIR_LIMIT}))

Popped(b, out) ==
    LET high == Len(b.high_priority)
        n    == Len(out)
    IN  [b EXCEPT !.high_priority = SubSeq(@, n + 1, Len(@)),
                  !.low_priority  = IF n > high THEN SubSeq(@, n - high + 1, Len(@)) ELSE @,
                  !.in_air_size   = @ + SizeOf(out)]

(* pop_outgoing_buffer: nothing leaves before the channel is open.         *)
Outgoing(e, b) == IF e \in open THEN PopSend(b) ELSE <<>>

(* e is left with buffer b, but for what it can put on the channel now.    *)
(* (The singletons, here and below, name values TLC computes once.)        *)
Drain(e, b, channel) ==
    \E out \in {Outgoing(e, b)} :
        /\ buffer' = [buffer EXCEPT ![e] = Popped(b, out)]
        /\ wire' = [channel EXCEPT ![Peer(e)] = @ \o out]

-----------------------------------------------------------------------------
Init ==
    /\ buffer = [e \in Ends |-> EmptyBuffer]
    /\ open = {}
    /\ wire = [e \in Ends |-> <<>>]
    /\ got = [e \in Ends |-> <<>>]
    /\ sent = [e \in Ends |-> <<>>]

(* RemoteConn::send_data *)
SendData(e, len) ==
    /\ Len(sent[e]) < MaxFrames
    /\ \E pushed \in {PushFrame(buffer[e], len)} : Drain(e, pushed, wire)
    /\ sent' = [sent EXCEPT ![e] = Append(@, len)]
    /\ UNCHANGED <<open, got>>

(* Event::ChannelOpen: what was queued before stays queued until the next  *)
(* send or the next chunk received.                                        *)
ChannelOpen(e) ==
    /\ e \notin open
    /\ open' = open \cup {e}
    /\ UNCHANGED <<buffer, wire, got, sent>>

(* Event::ChannelData *)
ChannelData(e) ==
    /\ e \in open
    /\ wire[e] # <<>>
    /\ \E received \in {OnReceived(buffer[e], Head(wire[e]))} :
           /\ got' = [got EXCEPT ![e] = @ \o received.outs]
           /\ Drain(e, [received EXCEPT !.outs = <<>>], [wire EXCEPT ![e] = Tail(@)])
    /\ UNCHANGED <<open, sent>>

Next ==
    \E e \in Ends : \/ ChannelOpen(e)
                    \/ ChannelData(e)
                    \/ \E len \in Lengths[e] : SendData(e, len)

Spec == Init /\ [][Next]_vars

(* The worker's loop polls every connection, and the channel is reliable.  *)
FairSpec == Spec /\ \A e \in Ends : WF_vars(ChannelOpen(e)) /\ WF_vars(ChannelData(e))

-----------------------------------------------------------------------------
Pieces == [frame : Nat, ix : Nat, len : Nat]

ChunkType == [type : {"Chunk"}, frame_id : Nat, chunk_id : Nat, chunk_count : Nat, data : Pieces]

AckType == [type : {"ChunkAck"}, frame_id : Nat, chunk_id : Nat, chunk_count : Nat]

(* Every variable has its type: big frames' chunks are in the low-priority *)
(* queue only, the counter does not fall below zero, and received frames   *)
(* do not linger in `outs`.                                                *)
TypeOK ==
    /\ open \subseteq Ends
    /\ wire \in [Ends -> Seq(ChunkType \cup AckType)]
    /\ got \in [Ends -> Seq(Seq(Pieces))]
    /\ sent \in [Ends -> Seq(Nat)]
    /\ DOMAIN buffer = Ends
    /\ \A e \in Ends :
          /\ DOMAIN buffer[e] = DOMAIN EmptyBuffer
          /\ buffer[e].frame_id_seed = Len(sent[e])
          /\ buffer[e].high_priority \in Seq(ChunkType \cup AckType)
          /\ buffer[e].low_priority \in Seq({c \in ChunkType : c.chunk_count > 1})
          /\ buffer[e].in_air_size \in Nat
          /\ buffer[e].outs = <<>>

(* What e is sending, from the end of the channel back into its queues. *)
Line(e) == wire[Peer(e)] \o buffer[e].high_priority \o buffer[e].low_priority

(* What an acknowledgement will take from e's in_air_size. *)
AckSize(e, c) == IF c.type = "ChunkAck" THEN buffer[e].outgoings[c.frame_id][c.chunk_id] ELSE 0

(* in_air_size never drifts from what it counts, and so never underflows:  *)
(* it is the size of the chunks e put on the channel whose acknowledgement *)
(* has not come back -- chunks on the wire, acknowledgements the other end *)
(* has queued, and acknowledgements on the wire.                           *)
InAirIsWhatIsInAir ==
    \A e \in Ends :
        LET returning == Line(Peer(e))
        IN  buffer[e].in_air_size =
                SizeOf(wire[Peer(e)])
                    + Total([i \in DOMAIN returning |-> AckSize(e, returning[i])])

(* The limit on unacknowledged bytes holds whatever is pushed, and         *)
(* whatever order acknowledgements return in.                              *)
AirLimit == \A e \in Ends : buffer[e].in_air_size <= AIR_LIMIT

(* The frames e sent of which a chunk is still queued, on the wire, or     *)
(* waiting at the other end for the rest of its frame.                     *)
Unfinished(e) ==
    {Line(e)[i].frame_id : i \in {j \in DOMAIN Line(e) : Line(e)[j].type = "Chunk"}}
        \cup DOMAIN buffer[Peer(e)].incomings

InTransit(e) == {[id |-> id, len |-> sent[e][id + 1]] : id \in Unfinished(e)}

(* The frame whose bytes these are, if they are exactly one frame's bytes; *)
(* garbled ones are no frame that was sent (its length is below 0).        *)
FrameOf(e, bytes) ==
    LET id    == bytes[1].frame
        whole == [i \in DOMAIN Chunks(id, sent[e][id + 1]) |->
                     Chunks(id, sent[e][id + 1])[i].data]
    IN  [id |-> id, len |-> IF bytes = whole THEN sent[e][id + 1] ELSE -1]

Frames == INSTANCE FrameChannel WITH
              transit <- [e \in Ends |-> InTransit(e)],
              arrived <- [e \in Ends |-> [i \in DOMAIN got[e] |-> FrameOf(Peer(e), got[e][i])]],
              count   <- [e \in Ends |-> Len(sent[e])]

(* Cutting, interleaving, acknowledging and reassembling implement a       *)
(* channel of whole frames: none is lost, doubled, mixed up or garbled,    *)
(* and small frames keep their order, as do big ones.                      *)
WholeFramesInOrder == Frames!FSpec

(* Frames given before the channel opened stay where they are until the    *)
(* next send or the next chunk received; of an end that has put on the     *)
(* channel what the limit allows, all have arrived.                        *)
Arrived(e) ==
    (e \in open /\ Outgoing(e, buffer[e]) = <<>>) => Len(got[Peer(e)]) = Len(sent[e])

(* An acknowledgement is stuck behind a chunk the limit has no room for. *)
Jammed(e) ==
    /\ Outgoing(e, buffer[e]) = <<>>
    /\ \E i \in DOMAIN buffer[e].high_priority : buffer[e].high_priority[i].type = "ChunkAck"

(* The one way in which frames stay behind: both ends hold back the        *)
(* acknowledgements the other is waiting for.  If either does not, all     *)
(* frames arrive.                                                          *)
FramesArriveOrBothJam ==
    <>[]((\A e \in Ends : Arrived(e)) \/ (\A e \in Ends : Jammed(e)))
=============================================================================
