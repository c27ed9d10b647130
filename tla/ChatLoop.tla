------------------------------ MODULE ChatLoop ------------------------------
(***************************************************************************)
(* One chat as the root worker runs it: the token loop of the model        *)
(* (crates/models: phi3/mod.rs, llama/mod.rs), the KV cache its forwards   *)
(* fill (phi3/layers_cache.rs, llama/internal/mod.rs), the                 *)
(* TokenOutputStream that turns tokens into text, and the way of the text  *)
(* to the HTTP client: a channel of one message, a forwarding task, a      *)
(* second channel, and an AsyncRead that hands out the bytes               *)
(* (crates/openai-http/src/api_chat.rs).                                   *)
(*                                                                         *)
(* The chain of workers behind start, forward and finish is ChatChain's    *)
(* and Rpc's; here a call into it answers, reports a failure, or is never  *)
(* answered.  A text is a sequence of characters of which only the kinds   *)
(* matter: a word, the space before it, a character encoded by two tokens, *)
(* and the replacement character half of it decodes to.                    *)
(***************************************************************************)
EXTENDS Integers, Sequences, SequencesExt

CONSTANTS
    Models,        \* the models served, of {"phi3", "llama"}
    PromptLens,    \* bound: lengths of a prompt, in tokens
    MaxTokens,     \* bound: values of max_tokens in a request, an i32
    Width,         \* number of bits of a u32
    CONTEXT,       \* max_seq_len, max_position_embeddings: positions the model has
    STREAM_CAP,    \* capacity of the channel to the reader (10 in the code)
    Rooms          \* bound: sizes of the buffers the HTTP server reads into

ASSUME LoopAssumption ==
    /\ Models \subseteq {"phi3", "llama"}
    /\ PromptLens \subseteq Nat \ {0} /\ Rooms \subseteq Nat \ {0}
    /\ MaxTokens \subseteq Int
    /\ {Width, CONTEXT, STREAM_CAP} \subseteq Nat \ {0}
    /\ 2^Width \in Nat \ {0}       \* follows, but the provers know nothing of ^

VARIABLES
    model, prompt, max_len, plain_text,   \* the request; prompt is its length
    pc,            \* where the loop is
    generated,     \* the tokens sampled so far
    cache,         \* the KV cache: which token was fed, at which index_pos
    index_pos,     \* llama's local of that name
    used,          \* number of forwards that returned: each was signed and is paid for
    held,          \* the chain's sessions and caches exist
    chain,         \* history: "ok", or a call into the chain "failed" or stays "silent"
    tos,           \* TokenOutputStream
    piece,         \* the text a send of the loop waits to deliver
    answer,        \* the channel between the loop and the forwarding task
    forwarder,     \* the forwarding task, and the text its send waits to deliver
    stream,        \* the channel between the task and the reader
    reader,        \* AsyncReadRx: its buffer and offset
    client,        \* "reading", "eof" or "gone"
    received,      \* the bytes the client got
    sent           \* history: the pieces the loop has sent

request == <<model, prompt, max_len, plain_text>>
loop == <<pc, generated, cache, index_pos, used, held, chain, tos, piece, sent>>
pipe == <<forwarder, stream, reader, client, received>>
vars == <<request, loop, answer, pipe>>

Ended == {"finished", "error", "panic"}   \* chat has returned, and dropped tx

(* What sampling may return.  The samplers are not modelled: any token. *)
Tokens == {"word", "half1", "half2", "eos"}

-----------------------------------------------------------------------------
(* Tokenizer::decode, of the tokenizers library, skipping special tokens:  *)
(* the first word of a text loses the space in front of it, and a          *)
(* character of two tokens decodes only with both.                         *)
Joined(tokens, i, j) ==
    /\ i < j /\ tokens[i] = "half1" /\ tokens[j] = "half2"
    /\ \A k \in i + 1 .. j - 1 : tokens[k] = "eos"

TextOf(tokens, i) ==
    CASE tokens[i] = "word"  -> IF \E k \in 1 .. i - 1 : tokens[k] # "eos"
                                THEN <<"space", "w">> ELSE <<"w">>
      [] tokens[i] = "half1" -> IF \E j \in DOMAIN tokens : Joined(tokens, i, j)
                                THEN <<"char">> ELSE <<"?">>
      [] tokens[i] = "half2" -> IF \E j \in DOMAIN tokens : Joined(tokens, j, i)
                                THEN <<>> ELSE <<"?">>
      [] tokens[i] = "eos"   -> <<>>

Decode(tokens) == FlattenSeq([i \in DOMAIN tokens |-> TextOf(tokens, i)])

IsAlphanumeric(char) == char \in {"w", "char"}

(* prev_text, and the text of all tokens from prev_index on. *)
PrevText(s) == Decode(SubSeq(s.tokens, s.prev_index + 1, s.current_index))
FullText(s) == Decode(SubSeq(s.tokens, s.prev_index + 1, Len(s.tokens)))

NewText(s) == SubSeq(FullText(s), Len(PrevText(s)) + 1, Len(FullText(s)))

(* Where the context for the next text begins.                             *)
(* Faulty, here and below: not the code but a mistake it could have made,  *)
(* kept to show that a property would notice it.  Here: the tokens already *)
(* emitted are not kept as context.                                        *)
NoContext(s) == Len(s.tokens)

ContextFrom(s) == s.current_index

(* TokenOutputStream::next_token: the text to emit, <<>> for None, and the *)
(* stream after it.                                                        *)
NextToken(s, token) ==
    LET pushed == [s EXCEPT !.tokens = Append(@, token)]
        emits  == NewText(pushed) # <<>> /\ IsAlphanumeric(Last(FullText(pushed)))
    IN  [text |-> IF emits THEN NewText(pushed) ELSE <<>>,
         tos  |-> IF emits THEN [pushed EXCEPT !.prev_index = ContextFrom(pushed),
                                               !.current_index = Len(pushed.tokens)]
                  ELSE pushed]

(* TokenOutputStream::decode_rest.  Faulty: what is held back is dropped. *)
DecodeRestNothing(s) == <<>>

DecodeRest(s) == NewText(s)

-----------------------------------------------------------------------------
(* The layers' forward of the context tokens from..to: the positions must  *)
(* be ones of the model.  llama's cut of a long cache looks at the number  *)
(* of heads and never happens.                                             *)
Fits(from, to, pos) == pos + (to - from + 1) <= CONTEXT

Positions(from, to, pos) ==
    [i \in 1 .. to - from + 1 |-> [token |-> from + i - 1, pos |-> pos + i - 1]]

Cached(from, to, pos) == cache \o Positions(from, to, pos)

Forward(from, to, pos) ==
    /\ Fits(from, to, pos)
    /\ cache' = Cached(from, to, pos)
    /\ used' = used + 1
    /\ UNCHANGED chain

(* A call into the chain is never answered: its request or its answer is   *)
(* lost with a connection, which is only logged, or a worker on the way    *)
(* panics over it.  RpcClientTx::request waits without a timeout, and the  *)
(* chat with it.                                                           *)
NoAnswer == pc' = "stuck" /\ chain' = "silent"

(* A forward that fails.  It or what a turn computes around it reports an  *)
(* error, and `?` returns it; or the context is full, and the unwrap in    *)
(* ModelService::forward panics, if these layers are the root's own: at    *)
(* another worker the panic is one of the reasons for NoAnswer.            *)
ForwardFails(from, to, pos) ==
    /\ \/ pc' = "error" /\ chain' = "failed"
       \/ ~ Fits(from, to, pos) /\ pc' = "panic" /\ UNCHANGED chain
       \/ NoAnswer
    /\ UNCHANGED <<generated, cache, index_pos, used, held, tos, piece, sent>>

(* The rest of a turn of the loop.  What next_token returns is sent before *)
(* the loop goes on.                                                       *)
Emit(token, next) ==
    LET res == NextToken(tos, token)
    IN  /\ tos' = res.tos
        /\ piece' = [text |-> res.text, next |-> next]
        /\ pc' = IF res.text = <<>> THEN next ELSE "send"

-----------------------------------------------------------------------------
Init ==
    /\ model \in Models
    /\ prompt \in PromptLens
    /\ max_len \in {m % 2^Width : m \in MaxTokens}      \* max_tokens as u32
    /\ plain_text \in BOOLEAN
    /\ pc = "start"
    /\ generated = <<>> /\ cache = <<>> /\ index_pos = 0 /\ used = 0
    /\ held = FALSE /\ chain = "ok"
    /\ tos = [tokens |-> <<>>, prev_index |-> 0, current_index |-> 0]
    /\ piece = [text |-> <<>>, next |-> "loop"]
    /\ answer = <<>>
    /\ forwarder = [pc |-> "recv", out |-> <<>>]
    /\ stream = <<>>
    /\ reader = [buffer |-> <<>>, offset |-> 0]
    /\ client = "reading"
    /\ received = <<>>
    /\ sent = <<>>

(* layers_worker.start: it makes the chain's sessions and caches even when *)
(* it fails further down the chain, but nothing without a route.  A next   *)
(* hop that fails may answer without metadata, which the root's post_start *)
(* expects.                                                                *)
StartChat ==
    /\ pc = "start"
    /\ \/ /\ pc' = (IF model = "phi3" THEN "prompt" ELSE "loop")
          /\ held' = TRUE /\ UNCHANGED chain
       \/ pc' = "error" /\ held' \in BOOLEAN /\ chain' = "failed"
       \/ pc' = "panic" /\ held' = TRUE /\ chain' = "failed"
       \/ NoAnswer /\ held' = TRUE
    /\ UNCHANGED <<generated, cache, index_pos, used, tos, piece, sent>>

(* Phi3Model::chat, the prompt: one forward per token, and the sample      *)
(* after the last is the first token of the answer.  It is not compared    *)
(* with the end-of-text token.                                             *)
Prefill ==
    LET i == Len(cache) + 1
    IN  /\ pc = "prompt"
        /\ \/ ForwardFails(i, i, i - 1)
           \/ /\ Forward(i, i, i - 1)
              /\ UNCHANGED <<index_pos, held, sent>>
              /\ IF i < prompt
                 THEN UNCHANGED <<pc, generated, tos, piece>>
                 ELSE \E token \in Tokens :
                         generated' = <<token>> /\ Emit(token, "bound")

(* 0..(cfg.max_len - tokens.len()): when the prompt is the longer one, a   *)
(* debug build panics and a release build wraps around.                    *)
Bound ==
    /\ pc = "bound"
    /\ pc' \in (IF prompt > max_len THEN {"loop", "panic"} ELSE {"loop"})
    /\ UNCHANGED <<generated, cache, index_pos, used, held, chain, tos, piece, sent>>

(* How many turns the loop may take.  Faulty: phi3 forgets the prompt's.   *)
TurnsFull == max_len

Turns == IF model = "phi3" THEN (max_len - prompt) % 2^Width ELSE max_len

TurnsTaken == IF model = "phi3" THEN Len(generated) - 1 ELSE Len(generated)

(* A turn of phi3's loop: the last token is fed, the next is sampled, and  *)
(* its text is sent before it is compared with the end-of-text token.      *)
Phi3Turn ==
    LET i == prompt + Len(generated)
    IN  /\ model = "phi3" /\ pc = "loop" /\ TurnsTaken < Turns
        /\ \/ ForwardFails(i, i, i - 1)
           \/ /\ Forward(i, i, i - 1)
              /\ UNCHANGED <<index_pos, held, sent>>
              /\ \E token \in Tokens :
                    /\ generated' = Append(generated, token)
                    /\ Emit(token, IF token = "eos" THEN "rest" ELSE "loop")

(* How far index_pos moves.  Faulty: by one a turn. *)
AdvanceOne(from, to) == 1

Advance(from, to) == to - from + 1

(* A turn of llama's loop: the first feeds the whole prompt, and an        *)
(* end-of-text token ends the loop unseen by the TokenOutputStream.        *)
LlamaTurn ==
    LET n    == prompt + Len(generated)
        from == IF generated = <<>> THEN 1 ELSE n
        pos  == IF generated = <<>> THEN 0 ELSE index_pos
    IN  /\ model = "llama" /\ pc = "loop" /\ TurnsTaken < Turns
        /\ \/ ForwardFails(from, n, pos)
           \/ /\ Forward(from, n, pos)
              /\ index_pos' = index_pos + Advance(from, n)
              /\ UNCHANGED <<held, sent>>
              /\ \E token \in Tokens :
                    /\ generated' = Append(generated, token)
                    /\ IF token = "eos" THEN pc' = "rest" /\ UNCHANGED <<tos, piece>>
                       ELSE Emit(token, "loop")

LoopOver ==
    /\ pc = "loop" /\ TurnsTaken >= Turns
    /\ pc' = "rest"
    /\ UNCHANGED <<generated, cache, index_pos, used, held, chain, tos, piece, sent>>

(* decode_rest: what the stream still holds back is sent, too. *)
Rest ==
    /\ pc = "rest"
    /\ piece' = [text |-> DecodeRest(tos), next |-> "finish"]
    /\ pc' = IF DecodeRest(tos) = <<>> THEN "finish" ELSE "send"
    /\ UNCHANGED <<generated, cache, index_pos, used, held, chain, tos, sent>>

(* tx.send(..).await: it waits for room, and gets Err once the receiver is *)
(* dropped.  phi3 unwraps the result of its first send; a later Err ends   *)
(* the loop, and the rest is still tried.                                  *)
SendPiece ==
    /\ pc = "send" /\ forwarder.pc # "ended" /\ answer = <<>>
    /\ answer' = <<piece.text>>
    /\ sent' = Append(sent, piece.text)
    /\ pc' = piece.next
    /\ UNCHANGED <<generated, cache, index_pos, used, held, chain, tos, piece>>

(* Faulty: every send is unwrapped. *)
AfterSendErrUnwrap(next) == "panic"

AfterSendErr(next) == CASE next = "bound"  -> "panic"
                        [] next = "finish" -> "finish"
                        [] OTHER           -> "rest"

SendErr ==
    /\ pc = "send" /\ forwarder.pc = "ended"
    /\ pc' = AfterSendErr(piece.next)
    /\ UNCHANGED <<generated, cache, index_pos, used, held, chain, tos, piece, sent, answer>>

(* layers_worker.finish takes the sessions and caches down, as far as END  *)
(* gets.  That it failed on the way is not looked at.                      *)
FinishChat ==
    /\ pc = "finish"
    /\ \/ pc' = "finished" /\ held' = FALSE /\ UNCHANGED chain
       \/ pc' = "finished" /\ held' \in BOOLEAN /\ chain' = "failed"
       \/ NoAnswer /\ held' \in BOOLEAN
    /\ UNCHANGED <<generated, cache, index_pos, used, tos, piece, sent>>

-----------------------------------------------------------------------------
(* The task chat_completions spawns.  A message is the text, in an object  *)
(* of its own unless plain_text is asked for.                              *)
Message(text) == IF plain_text THEN text ELSE <<"{">> \o text \o <<"}">>

ForwarderRecv ==
    /\ forwarder.pc = "recv" /\ answer # <<>>
    /\ forwarder' = [pc |-> "send", out |-> Message(Head(answer))]
    /\ answer' = Tail(answer)
    /\ UNCHANGED <<request, loop, stream, reader, client, received>>

ForwarderClosed ==
    /\ forwarder.pc = "recv" /\ answer = <<>> /\ pc \in Ended
    /\ forwarder' = [forwarder EXCEPT !.pc = "ended"]
    /\ UNCHANGED <<request, loop, answer, stream, reader, client, received>>

HasRoom == Len(stream) < STREAM_CAP

ForwarderSend ==
    /\ forwarder.pc = "send" /\ client # "gone" /\ HasRoom
    /\ stream' = Append(stream, forwarder.out)
    /\ forwarder' = [pc |-> "recv", out |-> <<>>]
    /\ UNCHANGED <<request, loop, answer, reader, client, received>>

(* The reader is gone: the task ends, and drops the receiver with what is  *)
(* in it.  Faulty: the task waits for better times.                        *)
ForwarderErrIgnored ==
    /\ forwarder.pc = "send" /\ client = "gone"
    /\ UNCHANGED vars

ForwarderErr ==
    /\ forwarder.pc = "send" /\ client = "gone"
    /\ forwarder' = [pc |-> "ended", out |-> <<>>]
    /\ answer' = <<>>
    /\ UNCHANGED <<request, loop, stream, reader, client, received>>

(* AsyncReadRx::poll_read into a buffer with `room` bytes free: the rest   *)
(* of the message at hand, or else the next one, or the end.               *)
PollRead(room) ==
    LET from == IF reader.buffer # <<>> THEN reader ELSE [buffer |-> Head(stream), offset |-> 0]
        end  == IF from.offset + room < Len(from.buffer) THEN from.offset + room
                ELSE Len(from.buffer)
    IN  /\ client = "reading"
        /\ reader.buffer # <<>> \/ stream # <<>>
        /\ stream' = IF reader.buffer # <<>> THEN stream ELSE Tail(stream)
        /\ received' = received \o SubSeq(from.buffer, from.offset + 1, end)
        /\ reader' = IF end = Len(from.buffer) THEN [buffer |-> <<>>, offset |-> 0]
                     ELSE [from EXCEPT !.offset = end]
        /\ UNCHANGED <<request, loop, answer, forwarder, client>>

PollReadEof ==
    /\ client = "reading" /\ reader.buffer = <<>> /\ stream = <<>>
    /\ forwarder.pc = "ended"
    /\ client' = "eof"
    /\ UNCHANGED <<request, loop, answer, forwarder, stream, reader, received>>

(* The client closes its connection: the server drops the body. *)
Leave ==
    /\ client = "reading"
    /\ client' = "gone"
    /\ stream' = <<>>
    /\ reader' = [buffer |-> <<>>, offset |-> 0]
    /\ UNCHANGED <<request, loop, answer, forwarder, received>>

-----------------------------------------------------------------------------
Chat ==
    \/ /\ \/ StartChat \/ Prefill \/ Bound \/ Phi3Turn \/ LlamaTurn
          \/ LoopOver \/ Rest \/ FinishChat
       /\ UNCHANGED <<request, answer, pipe>>
    \/ (SendPiece \/ SendErr) /\ UNCHANGED <<request, pipe>>

Forwarding == ForwarderRecv \/ ForwarderClosed \/ ForwarderSend \/ ForwarderErr

Reading == PollReadEof \/ \E room \in Rooms : PollRead(room)

Next == Chat \/ Forwarding \/ Reading \/ Leave

Spec == Init /\ [][Next]_vars

(* The tasks are scheduled by the runtime, and a client that stays reads.  *)
(* That a call into the chain returns is not assumed: NoAnswer is a step   *)
(* of Chat wherever there is such a call.                                  *)
FairSpec == Spec /\ WF_vars(Chat) /\ WF_vars(Forwarding) /\ WF_vars(Reading)

-----------------------------------------------------------------------------
Text == Seq({"w", "space", "char", "?", "{", "}"})

(* Every variable has its type. *)
TypeOK ==
    /\ model \in Models /\ prompt \in PromptLens /\ plain_text \in BOOLEAN
    /\ max_len \in 0 .. 2^Width - 1
    /\ pc \in Ended \cup {"start", "prompt", "bound", "loop", "send", "rest", "finish", "stuck"}
    /\ generated \in Seq(Tokens)
    /\ cache \in Seq([token : Nat, pos : Nat])
    /\ index_pos \in 0 .. CONTEXT /\ used \in 0 .. CONTEXT
    /\ held \in BOOLEAN /\ chain \in {"ok", "failed", "silent"}
    /\ tos \in [tokens : Seq(Tokens), prev_index : Nat, current_index : Nat]
    /\ piece \in [text : Text, next : {"bound", "loop", "rest", "finish"}]
    /\ answer \in Seq(Text) /\ Len(answer) <= 1
    /\ forwarder \in [pc : {"recv", "send", "ended"}, out : Text]
    /\ stream \in Seq(Text) /\ Len(stream) <= STREAM_CAP
    /\ reader \in [buffer : Text, offset : Nat]
    /\ client \in {"reading", "eof", "gone"}
    /\ received \in Text /\ sent \in Seq(Text)

(* The KV cache holds the context and nothing else: every token of prompt  *)
(* and answer but the last is in it once, in order, at its own position    *)
(* (index_pos of the calls of forward, phi3/mod.rs:130 and 147,            *)
(* llama/mod.rs:157).                                                      *)
CacheIsContext ==
    /\ \A i \in DOMAIN cache : cache[i] = [token |-> i, pos |-> i - 1]
    /\ generated # <<>> => Len(cache) = prompt + Len(generated) - 1

(* A chat uses no more tokens than the max_len its session was opened on   *)
(* chain with (virtual_model_layers.rs:28), unless max_len - tokens.len()  *)
(* wraps around (phi3/mod.rs:144), or is less than the prompt alone.       *)
WithinMaxLen == used <= max_len \/ (model = "phi3" /\ prompt > max_len)

(* The client gets a prefix of the answer's text, each message of it whole *)
(* and in order, however the reads cut the messages; and the pieces sent   *)
(* are a prefix of what all tokens together decode to, spaces and          *)
(* characters of several tokens included (token_output_stream.rs:35,       *)
(* api_chat.rs:37).                                                        *)
TextInOrder ==
    /\ IsPrefix(received, FlattenSeq([i \in DOMAIN sent |-> Message(sent[i])]))
    /\ IsPrefix(FlattenSeq(sent), Decode(generated))

(* A client that saw the end of the stream has the whole answer, unless    *)
(* the loop failed: the stream of a failed chat ends in the same way.      *)
EofMeansWhole ==
    client = "eof" /\ pc = "finished" =>
        /\ FlattenSeq(sent) = Decode(generated)
        /\ received = FlattenSeq([i \in DOMAIN sent |-> Message(sent[i])])

ContextFull == Len(cache) = CONTEXT \/ prompt > CONTEXT

(* A chat that has ended has given back its sessions and caches, except    *)
(* when a call of it failed, the model's context was full, the client left *)
(* before phi3's first text (the unwrap at phi3/mod.rs:140), or the prompt *)
(* was longer than max_len in a debug build.  A client that leaves at any  *)
(* other time costs no memory.                                             *)
LeaksExplained ==
    pc \in Ended /\ held =>
        \/ chain = "failed"
        \/ ContextFull
        \/ model = "phi3" /\ sent = <<>> /\ client = "gone"
        \/ model = "phi3" /\ prompt > max_len

(* Whether the client stays, and however slowly it reads, or leaves at any *)
(* moment, the chat ends and the client is not kept waiting, provided that *)
(* its calls into the chain are answered.  One that is not, because of a   *)
(* lost request or answer or a panic at another worker, as over a context  *)
(* that is full (model_service.rs:208), leaves both hanging: nothing ends  *)
(* the wait at rpc.rs:21.                                                  *)
ChatEnds == <>(\/ pc \in Ended /\ client # "reading"
               \/ chain = "silent")
=============================================================================
