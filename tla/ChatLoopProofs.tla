---------------------------- MODULE ChatLoopProofs ----------------------------
(***************************************************************************)
(* Proofs about ChatLoop, for prompts, answers, limits and contexts of any *)
(* length.  First the loop and its cache, of which the text is no part;    *)
(* then sequences and what decoding makes of them, the TokenOutputStream,  *)
(* the way of the text to the client, and the loop's text along it.        *)
(***************************************************************************)
EXTENDS ChatLoop, SequenceTheorems, WellFoundedInduction, TLAPS

(* The types of what the proofs look at. *)
LoopTypes ==
    /\ model \in Models /\ prompt \in PromptLens
    /\ max_len \in 0 .. 2^Width - 1
    /\ generated \in Seq(Tokens)
    /\ cache \in Seq([token : Nat, pos : Nat])
    /\ index_pos \in Nat /\ used \in Nat
    /\ piece.next \in {"bound", "loop", "rest", "finish"}

(* What has been fed, and what of it was counted: phi3 feeds and counts    *)
(* token by token, llama feeds its prompt at once and counts it as one.    *)
Fed ==
    /\ Len(cache) <= CONTEXT
    /\ model = "phi3" => /\ used = Len(cache)
                         /\ generated = <<>> => Len(cache) <= prompt
    /\ model = "llama" => /\ used = Len(generated) /\ index_pos = Len(cache)
                          /\ generated = <<>> => cache = <<>>

(* Where the loop is tells what it has done: phi3 is past its prompt once  *)
(* it has a first token, and that one's text is the first to be sent.      *)
Stages ==
    /\ pc = "start" => generated = <<>> /\ cache = <<>>
    /\ pc = "prompt" => model = "phi3" /\ generated = <<>> /\ Len(cache) < prompt
    /\ pc = "bound" \/ (pc = "send" /\ piece.next = "bound") => model = "phi3"
    /\ pc \in {"bound", "loop", "send", "rest"} /\ model = "phi3" => generated # <<>>
    /\ pc \in {"start", "prompt"} \/ (pc = "send" /\ piece.next = "bound") => sent = <<>>

(* The task that forwards the text ends before the loop does only because  *)
(* the client has gone.                                                    *)
ForwarderStays == forwarder.pc = "ended" => pc \in Ended \/ client = "gone"

IInv ==
    /\ LoopTypes /\ Fed /\ Stages /\ ForwarderStays
    /\ CacheIsContext /\ WithinMaxLen /\ LeaksExplained
------------------------------------------------------------------------------
LEMMA LoopInit == Init => IInv
<1> SUFFICES ASSUME Init PROVE IInv
  OBVIOUS
<1>1. LoopTypes
  <2>1. max_len \in 0 .. 2^Width - 1
    <3>1. PICK m \in MaxTokens : max_len = m % 2^Width
      BY DEF Init
    <3>2. m \in Int /\ 2^Width \in Nat \ {0}
      BY LoopAssumption
    <3> DEFINE size == 2^Width
    <3>3. max_len = m % size /\ size \in Nat \ {0}
      BY <3>1, <3>2
    <3> HIDE DEF size
    <3>4. max_len \in 0 .. size - 1
      BY <3>2, <3>3
    <3> QED
      BY <3>4 DEF size
  <2> QED
    BY <2>1 DEF LoopTypes, Init
<1>2. Fed
  BY <1>1, LoopAssumption DEF Init, Fed, LoopTypes
<1>3. Stages /\ ForwarderStays
  BY DEF Init, Stages, ForwarderStays, Ended
<1>4. CacheIsContext /\ WithinMaxLen
  BY <1>1, LoopAssumption DEF Init, CacheIsContext, WithinMaxLen, LoopTypes
<1>5. LeaksExplained
  BY DEF Init, LeaksExplained, Ended
<1> QED
  BY <1>1, <1>2, <1>3, <1>4, <1>5 DEF IInv

(* A forward of the tokens that follow those in the cache, at the position *)
(* that follows theirs, leaves the cache in order.                         *)
LEMMA Feeding ==
    ASSUME IInv, NEW to \in Nat, NEW from \in Nat, NEW pos \in Nat,
           from = Len(cache) + 1, pos = Len(cache), to >= from, Forward(from, to, pos)
    PROVE  /\ cache' \in Seq([token : Nat, pos : Nat])
           /\ Len(cache') = to /\ to <= CONTEXT
           /\ \A i \in DOMAIN cache' : cache'[i] = [token |-> i, pos |-> i - 1]
           /\ used' = used + 1
<1> DEFINE k == to - from + 1
           fed == Positions(from, to, pos)
<1>1. /\ cache \in Seq([token : Nat, pos : Nat]) /\ Len(cache) \in Nat
      /\ \A i \in 1 .. Len(cache) : cache[i] = [token |-> i, pos |-> i - 1]
  BY DEF IInv, LoopTypes, CacheIsContext
<1>2. k \in Nat /\ Len(cache) + k = to
  BY <1>1
<1>3. /\ fed \in Seq([token : Nat, pos : Nat]) /\ Len(fed) = k
      /\ \A i \in 1 .. k : fed[i] = [token |-> from + i - 1, pos |-> pos + i - 1]
  <2>1. fed = [i \in 1 .. k |-> [token |-> from + i - 1, pos |-> pos + i - 1]]
    BY DEF Positions
  <2>2. \A i \in 1 .. k : from + i - 1 \in Nat /\ pos + i - 1 \in Nat
    BY <1>2
  <2> HIDE DEF k, fed
  <2>3. \A i \in 1 .. k : [token |-> from + i - 1, pos |-> pos + i - 1] \in [token : Nat, pos : Nat]
    BY <2>2
  <2> QED
    BY <1>2, <2>1, <2>3
<1>4. cache' = cache \o fed /\ used' = used + 1 /\ pos + k <= CONTEXT
  BY DEF Forward, Cached, Fits
<1> HIDE DEF k, fed
<1>5. /\ cache \o fed \in Seq([token : Nat, pos : Nat])
      /\ Len(cache \o fed) = Len(cache) + k
      /\ \A i \in 1 .. Len(cache) + k : (cache \o fed)[i] =
             IF i <= Len(cache) THEN cache[i] ELSE fed[i - Len(cache)]
  BY <1>1, <1>3, ConcatProperties
<1>6. ASSUME NEW i \in 1 .. to PROVE cache'[i] = [token |-> i, pos |-> i - 1]
  <2>1. CASE i <= Len(cache)
    BY <1>1, <1>2, <1>4, <1>5, <2>1
  <2>2. CASE ~(i <= Len(cache))
    <3>1. i - Len(cache) \in 1 .. k
      BY <1>1, <1>2, <2>2
    <3>2. cache'[i] = fed[i - Len(cache)]
      BY <1>2, <1>4, <1>5, <2>2
    <3>3. from + (i - Len(cache)) - 1 = i /\ pos + (i - Len(cache)) - 1 = i - 1
      BY <1>1
    <3> QED
      BY <1>3, <3>1, <3>2, <3>3
  <2> QED
    BY <2>1, <2>2
<1>7. DOMAIN cache' = 1 .. to
  BY <1>2, <1>4, <1>5
<1> QED
  BY <1>1, <1>2, <1>4, <1>5, <1>6, <1>7

(* A step that feeds nothing. *)
LEMMA NothingFed ==
    ASSUME IInv, UNCHANGED <<request, generated, cache, index_pos, used>>,
           piece'.next \in {"bound", "loop", "rest", "finish"}
    PROVE  LoopTypes' /\ Fed' /\ CacheIsContext' /\ WithinMaxLen'
BY DEF IInv, LoopTypes, Fed, CacheIsContext, WithinMaxLen, request

(* A step of the loop that feeds nothing and goes on. *)
LEMMA GoesOn ==
    ASSUME IInv, UNCHANGED <<request, generated, cache, index_pos, used, held>>, pc \notin Ended,
           piece'.next \in {"bound", "loop", "rest", "finish"}, pc' \notin Ended,
           forwarder' = forwarder, client' = client, Stages'
    PROVE  IInv'
<1>1. ForwarderStays' /\ LeaksExplained'
  BY DEF IInv, ForwarderStays, LeaksExplained
<1> QED
  BY <1>1, NothingFed DEF IInv

(* A forward that fails, wherever the loop is.                             *)
LEMMA Failing ==
    ASSUME IInv, NEW to \in Nat, NEW from \in Nat, NEW pos \in Nat, pc \in {"prompt", "loop"},
           ~Fits(from, to, pos) => ContextFull,
           ForwardFails(from, to, pos), UNCHANGED <<request, answer, pipe>>
    PROVE  IInv'
<1>1. LoopTypes' /\ Fed' /\ CacheIsContext' /\ WithinMaxLen'
  <2>1. /\ UNCHANGED <<request, generated, cache, index_pos, used>>
        /\ piece'.next \in {"bound", "loop", "rest", "finish"}
    BY DEF ForwardFails, IInv, LoopTypes
  <2> QED
    BY <2>1, NothingFed
<1>2. pc' \in {"error", "panic", "stuck"}
  BY DEF ForwardFails, NoAnswer
<1>3. Stages'
  BY <1>2 DEF Stages
<1>4. ForwarderStays'
  BY <1>2 DEF IInv, ForwarderStays, Ended, pipe
<1>5. LeaksExplained'
  <2>1. pc' = "panic" => ContextFull
    BY DEF ForwardFails, NoAnswer
  <2>1a. pc' = "error" => chain' = "failed"
    BY DEF ForwardFails, NoAnswer
  <2>2. ContextFull => ContextFull'
    BY DEF ContextFull, ForwardFails, request
  <2> QED
    BY <1>2, <2>1, <2>1a, <2>2 DEF LeaksExplained, Ended
<1> QED
  BY <1>1, <1>3, <1>4, <1>5 DEF IInv
------------------------------------------------------------------------------
(* The steps of the loop.                                                  *)

LEMMA Emitting ==
    ASSUME NEW token, NEW next, Emit(token, next)
    PROVE  piece'.next = next /\ pc' \in {next, "send"}
BY DEF Emit

(* A forward that worked: what it leaves to show.                          *)
LEMMA FeedingDone ==
    ASSUME IInv, UNCHANGED request, generated' \in Seq(Tokens), index_pos' \in Nat,
           cache' \in Seq([token : Nat, pos : Nat]), used' \in Nat,
           piece'.next \in {"bound", "loop", "rest", "finish"},
           Fed', Stages', CacheIsContext', WithinMaxLen',
           pc \notin Ended, pc' \notin Ended, UNCHANGED pipe
    PROVE  IInv'
<1>1. LoopTypes'
  BY DEF IInv, LoopTypes, request
<1>2. ForwarderStays' /\ LeaksExplained'
  BY DEF IInv, ForwarderStays, LeaksExplained, pipe
<1> QED
  BY <1>1, <1>2 DEF IInv

LEMMA PrefillStep ==
    ASSUME IInv, Prefill, UNCHANGED <<request, answer, pipe>>
    PROVE  IInv'
<1> DEFINE i == Len(cache) + 1
<1>0. /\ pc = "prompt" /\ model = "phi3" /\ generated = <<>> /\ Len(cache) < prompt
      /\ sent = <<>> /\ used = Len(cache) /\ Len(cache) <= CONTEXT
  BY DEF IInv, Prefill, Stages, Fed
<1>1. /\ Len(cache) \in Nat /\ i \in Nat /\ i - 1 \in Nat /\ i - 1 = Len(cache)
      /\ prompt \in Nat \ {0} /\ max_len \in Nat /\ index_pos \in Nat
      /\ i >= i /\ CONTEXT \in Nat
  BY LoopAssumption DEF IInv, LoopTypes
<1>2. CASE ForwardFails(i, i, i - 1)
  <2>1. ~Fits(i, i, i - 1) => ContextFull
    BY <1>0, <1>1 DEF Fits, ContextFull
  <2> HIDE DEF i
  <2> QED
    BY <1>0, <1>1, <1>2, <2>1, Failing
<1>3. CASE /\ Forward(i, i, i - 1)
           /\ UNCHANGED <<index_pos, held, sent>>
           /\ IF i < prompt
              THEN UNCHANGED <<pc, generated, tos, piece>>
              ELSE \E token \in Tokens : generated' = <<token>> /\ Emit(token, "bound")
  <2>0. /\ UNCHANGED request /\ model' = model /\ prompt' = prompt /\ max_len' = max_len
        /\ index_pos' = index_pos /\ held' = held /\ sent' = sent
    BY <1>3 DEF request
  <2>1. /\ cache' \in Seq([token : Nat, pos : Nat]) /\ Len(cache') = i /\ i <= CONTEXT
        /\ \A j \in DOMAIN cache' : cache'[j] = [token |-> j, pos |-> j - 1]
        /\ used' = used + 1
    <3>1. Forward(i, i, i - 1) /\ i = Len(cache) + 1
      BY <1>3
    <3> HIDE DEF i
    <3> QED
      BY <1>1, <3>1, Feeding
  <2>2. used' = i /\ used' \in Nat
    BY <1>0, <1>1, <2>1
  <2>3. WithinMaxLen'
    BY <1>0, <1>1, <2>0, <2>2 DEF WithinMaxLen
  <2>4. CASE i < prompt
    <3>0. UNCHANGED <<pc, generated, piece>>
      BY <1>3, <2>4
    <3>1. Fed'
      BY <1>0, <1>1, <2>0, <2>1, <2>2, <2>4, <3>0 DEF Fed
    <3>2. Stages'
      BY <1>0, <2>0, <2>1, <2>4, <3>0 DEF IInv, Stages
    <3>3. CacheIsContext'
      BY <1>0, <2>1, <3>0 DEF CacheIsContext
    <3>4. /\ generated' \in Seq(Tokens) /\ index_pos' \in Nat /\ pc \notin Ended /\ pc' \notin Ended
          /\ piece'.next \in {"bound", "loop", "rest", "finish"}
      BY <1>0, <2>0, <3>0 DEF IInv, LoopTypes, Ended
    <3> QED
      BY <2>0, <2>1, <2>2, <2>3, <3>1, <3>2, <3>3, <3>4, FeedingDone
  <2>5. CASE ~(i < prompt)
    <3>0. PICK token \in Tokens : generated' = <<token>> /\ Emit(token, "bound")
      BY <1>3, <2>5
    <3>1. /\ generated' \in Seq(Tokens) /\ generated' # <<>> /\ Len(generated') = 1
          /\ piece'.next = "bound" /\ pc' \in {"bound", "send"} /\ i = prompt
      BY <1>0, <1>1, <2>5, <3>0, Emitting
    <3>2. Fed'
      BY <1>0, <2>0, <2>1, <2>2, <3>1 DEF Fed
    <3>3. Stages'
      BY <1>0, <2>0, <3>1 DEF Stages
    <3>4. CacheIsContext'
      BY <1>1, <2>0, <2>1, <3>1 DEF CacheIsContext
    <3>5. index_pos' \in Nat /\ pc \notin Ended /\ pc' \notin Ended
      BY <1>0, <1>1, <2>0, <3>1 DEF Ended
    <3> QED
      BY <2>0, <2>1, <2>2, <2>3, <3>1, <3>2, <3>3, <3>4, <3>5, FeedingDone
  <2> QED
    BY <2>4, <2>5
<1> QED
  BY <1>2, <1>3 DEF Prefill

LEMMA Phi3TurnStep ==
    ASSUME IInv, Phi3Turn, UNCHANGED <<request, answer, pipe>>
    PROVE  IInv'
<1> DEFINE i == prompt + Len(generated)
<1>0. /\ pc = "loop" /\ model = "phi3" /\ generated # <<>> /\ TurnsTaken < Turns
      /\ used = Len(cache) /\ Len(cache) <= CONTEXT /\ Len(cache) = prompt + Len(generated) - 1
      /\ generated \in Seq(Tokens)
  BY DEF IInv, Phi3Turn, Stages, Fed, CacheIsContext, LoopTypes
<1>1. /\ Len(cache) \in Nat /\ Len(generated) \in Nat /\ i \in Nat /\ i - 1 \in Nat
      /\ i - 1 = Len(cache) /\ i = Len(cache) + 1
      /\ prompt \in Nat \ {0} /\ max_len \in Nat /\ index_pos \in Nat
      /\ i >= i /\ CONTEXT \in Nat
  <2>1. /\ Len(cache) \in Nat /\ Len(generated) \in Nat
        /\ prompt \in Nat \ {0} /\ max_len \in Nat /\ index_pos \in Nat /\ CONTEXT \in Nat
    <3>1. max_len \in 0 .. 2^Width - 1 /\ 2^Width \in Nat
      BY LoopAssumption DEF IInv, LoopTypes
    <3>2. max_len \in Nat
      BY <3>1
    <3> QED
      BY <1>0, <3>2, LoopAssumption DEF IInv, LoopTypes
  <2> QED
    BY <1>0, <2>1
<1>2. CASE ForwardFails(i, i, i - 1)
  <2>1. ~Fits(i, i, i - 1) => ContextFull
    BY <1>0, <1>1 DEF Fits, ContextFull
  <2> HIDE DEF i
  <2> QED
    BY <1>0, <1>1, <1>2, <2>1, Failing
<1>3. CASE /\ Forward(i, i, i - 1)
           /\ UNCHANGED <<index_pos, held, sent>>
           /\ \E token \in Tokens :
                 /\ generated' = Append(generated, token)
                 /\ Emit(token, IF token = "eos" THEN "rest" ELSE "loop")
  <2>0. /\ UNCHANGED request /\ model' = model /\ prompt' = prompt /\ max_len' = max_len
        /\ index_pos' = index_pos /\ held' = held /\ sent' = sent
    BY <1>3 DEF request
  <2>1. /\ cache' \in Seq([token : Nat, pos : Nat]) /\ Len(cache') = i /\ i <= CONTEXT
        /\ \A j \in DOMAIN cache' : cache'[j] = [token |-> j, pos |-> j - 1]
        /\ used' = used + 1
    <3>1. Forward(i, i, i - 1)
      BY <1>3
    <3> HIDE DEF i
    <3> QED
      BY <1>1, <3>1, Feeding
  <2>2. used' = i /\ used' \in Nat
    BY <1>0, <1>1, <2>1
  <2>3. PICK token \in Tokens :
                 /\ generated' = Append(generated, token)
                 /\ Emit(token, IF token = "eos" THEN "rest" ELSE "loop")
    BY <1>3
  <2>4. /\ generated' \in Seq(Tokens) /\ generated' # <<>> /\ Len(generated') = Len(generated) + 1
        /\ piece'.next \in {"rest", "loop"} /\ pc' \in {"rest", "loop", "send"}
    BY <1>0, <2>3, Emitting
  <2>5. WithinMaxLen'
    <3>1. CASE prompt > max_len
      BY <1>0, <2>0, <3>1 DEF WithinMaxLen
    <3>2. CASE ~(prompt > max_len)
      <4>1. max_len - prompt \in 0 .. 2^Width - 1 /\ 2^Width \in Nat \ {0}
        BY <1>1, <3>2, LoopAssumption DEF IInv, LoopTypes
      <4> DEFINE size == 2^Width
      <4>2. /\ max_len - prompt \in 0 .. size - 1 /\ size \in Nat \ {0}
            /\ Len(generated) - 1 < (max_len - prompt) % size
        BY <1>0, <4>1 DEF Turns, TurnsTaken
      <4> HIDE DEF size
      <4>3. Len(generated) - 1 < max_len - prompt
        BY <4>2
      <4> QED
        BY <1>1, <2>0, <2>2, <4>3 DEF WithinMaxLen
    <3> QED
      BY <3>1, <3>2
  <2>6. Fed'
    BY <1>0, <2>0, <2>1, <2>2, <2>4 DEF Fed
  <2>7. Stages'
    BY <1>0, <2>0, <2>4 DEF Stages
  <2>8. CacheIsContext'
    BY <1>1, <2>0, <2>1, <2>4 DEF CacheIsContext
  <2>9. index_pos' \in Nat /\ pc \notin Ended /\ pc' \notin Ended
    BY <1>0, <1>1, <2>0, <2>4 DEF Ended
  <2> QED
    BY <2>0, <2>1, <2>2, <2>4, <2>5, <2>6, <2>7, <2>8, <2>9, FeedingDone
<1> QED
  BY <1>2, <1>3 DEF Phi3Turn

LEMMA LlamaTurnStep ==
    ASSUME IInv, LlamaTurn, UNCHANGED <<request, answer, pipe>>
    PROVE  IInv'
<1> DEFINE n    == prompt + Len(generated)
           from == IF generated = <<>> THEN 1 ELSE n
           pos  == IF generated = <<>> THEN 0 ELSE index_pos
<1>0. /\ pc = "loop" /\ model = "llama" /\ TurnsTaken < Turns
      /\ used = Len(generated) /\ Len(cache) <= CONTEXT /\ index_pos = Len(cache)
      /\ generated = <<>> => cache = <<>>
      /\ generated # <<>> => Len(cache) = prompt + Len(generated) - 1
      /\ generated \in Seq(Tokens)
  BY DEF IInv, LlamaTurn, Fed, CacheIsContext, LoopTypes
<1>1. /\ Len(cache) \in Nat /\ Len(generated) \in Nat /\ n \in Nat
      /\ prompt \in Nat \ {0} /\ max_len \in Nat /\ index_pos \in Nat /\ CONTEXT \in Nat
      /\ generated = <<>> => Len(generated) = 0 /\ Len(cache) = 0
  BY <1>0, LoopAssumption DEF IInv, LoopTypes
<1>2. /\ from \in Nat /\ pos \in Nat /\ from = Len(cache) + 1 /\ pos = Len(cache) /\ n >= from
      /\ generated # <<>> => n = Len(cache) + 1
      /\ generated = <<>> => n = prompt
      /\ n = prompt + (Len(generated) + 1) - 1
  BY <1>0, <1>1
<1>2a. \/ ForwardFails(from, n, pos)
       \/ /\ Forward(from, n, pos)
          /\ index_pos' = index_pos + Advance(from, n)
          /\ UNCHANGED <<held, sent>>
          /\ \E token \in Tokens :
                /\ generated' = Append(generated, token)
                /\ IF token = "eos" THEN pc' = "rest" /\ UNCHANGED <<tos, piece>>
                   ELSE Emit(token, "loop")
  BY DEF LlamaTurn
<1> HIDE DEF n, from, pos
<1>3. CASE ForwardFails(from, n, pos)
  <2>1. ~Fits(from, n, pos) => ContextFull
    <3>1. ~Fits(from, n, pos) => ~(n <= CONTEXT)
      BY <1>1, <1>2 DEF Fits
    <3> QED
      BY <1>0, <1>1, <1>2, <3>1 DEF ContextFull
  <2> QED
    BY <1>0, <1>1, <1>2, <1>3, <2>1, Failing
<1>4. CASE /\ Forward(from, n, pos)
           /\ index_pos' = index_pos + Advance(from, n)
           /\ UNCHANGED <<held, sent>>
           /\ \E token \in Tokens :
                 /\ generated' = Append(generated, token)
                 /\ IF token = "eos" THEN pc' = "rest" /\ UNCHANGED <<tos, piece>>
                    ELSE Emit(token, "loop")
  <2>0. /\ UNCHANGED request /\ model' = model /\ prompt' = prompt /\ max_len' = max_len
        /\ held' = held /\ sent' = sent
    BY <1>4 DEF request
  <2>1. /\ cache' \in Seq([token : Nat, pos : Nat]) /\ Len(cache') = n /\ n <= CONTEXT
        /\ \A j \in DOMAIN cache' : cache'[j] = [token |-> j, pos |-> j - 1]
        /\ used' = used + 1
    <3>1. Forward(from, n, pos)
      BY <1>4
    <3> QED
      BY <1>1, <1>2, <3>1, Feeding
  <2>2. used' = Len(generated) + 1 /\ used' \in Nat
    BY <1>0, <1>1, <2>1
  <2>3. PICK token \in Tokens :
                 /\ generated' = Append(generated, token)
                 /\ IF token = "eos" THEN pc' = "rest" /\ UNCHANGED <<tos, piece>>
                    ELSE Emit(token, "loop")
    BY <1>4
  <2>4. generated' \in Seq(Tokens) /\ generated' # <<>> /\ Len(generated') = Len(generated) + 1
    BY <1>0, <2>3
  <2>5. /\ piece'.next \in {"bound", "loop", "rest", "finish"} /\ pc' \in {"rest", "loop", "send"}
        /\ pc' = "send" => piece'.next = "loop"
    <3>1. piece.next \in {"bound", "loop", "rest", "finish"}
      BY DEF IInv, LoopTypes
    <3> QED
      BY <2>3, <3>1, Emitting
  <2>6. index_pos' = n
    BY <1>0, <1>1, <1>2, <1>4 DEF Advance
  <2>7. WithinMaxLen'
    BY <1>0, <1>1, <2>0, <2>2 DEF WithinMaxLen, Turns, TurnsTaken
  <2>8. Fed'
    BY <1>0, <2>0, <2>1, <2>2, <2>4, <2>6 DEF Fed
  <2>9. Stages'
    BY <1>0, <2>0, <2>4, <2>5 DEF Stages
  <2>10. CacheIsContext'
    BY <1>1, <1>2, <2>0, <2>1, <2>4 DEF CacheIsContext
  <2>11. index_pos' \in Nat /\ pc \notin Ended /\ pc' \notin Ended
    BY <1>0, <1>1, <2>5, <2>6 DEF Ended
  <2> QED
    BY <2>0, <2>1, <2>2, <2>4, <2>5, <2>7, <2>8, <2>9, <2>10, <2>11, FeedingDone
<1> QED
  BY <1>3, <1>2a, <1>4

LEMMA ChatStep ==
    ASSUME IInv, Chat
    PROVE  IInv'
<1>0. UNCHANGED <<request, pipe>>
  BY DEF Chat
<1>1. CASE Prefill /\ UNCHANGED answer
  BY <1>0, <1>1, PrefillStep
<1>2. CASE Phi3Turn /\ UNCHANGED answer
  BY <1>0, <1>2, Phi3TurnStep
<1>3. CASE LlamaTurn /\ UNCHANGED answer
  BY <1>0, <1>3, LlamaTurnStep
<1>4. ASSUME StartChat \/ Bound \/ LoopOver \/ Rest \/ SendPiece \/ SendErr \/ FinishChat
      PROVE  /\ UNCHANGED <<request, generated, cache, index_pos, used>> /\ pc \notin Ended
             /\ piece'.next \in {"bound", "loop", "rest", "finish"}
             /\ forwarder' = forwarder /\ client' = client /\ model' = model
  BY <1>0, <1>4 DEF StartChat, Bound, LoopOver, Rest, SendPiece, SendErr, FinishChat, IInv,
                    LoopTypes, pipe, request, Ended
<1>5. CASE StartChat
  <2>1. LoopTypes' /\ Fed' /\ CacheIsContext' /\ WithinMaxLen'
    BY <1>4, <1>5, NothingFed
  <2>2. pc = "start" /\ generated = <<>> /\ cache = <<>> /\ sent = <<>>
    BY <1>5 DEF IInv, Stages, StartChat
  <2>3. Stages'
    <3>1. /\ pc' \in {"prompt", "loop", "error", "panic", "stuck"} /\ sent' = sent
          /\ pc' = "prompt" => model = "phi3"
          /\ pc' = "loop" => model # "phi3"
      BY <1>5 DEF StartChat, NoAnswer
    <3>2. Len(<<>>) = 0 /\ prompt \in Nat \ {0} /\ prompt' = prompt
      BY <1>0, LoopAssumption DEF IInv, LoopTypes, request
    <3> QED
      BY <1>4, <1>5, <2>2, <3>1, <3>2 DEF Stages
  <2>4. ForwarderStays' /\ LeaksExplained'
    BY <1>4, <1>5, <2>2 DEF IInv, ForwarderStays, LeaksExplained, StartChat, NoAnswer, Ended
  <2> QED
    BY <2>1, <2>3, <2>4 DEF IInv
<1>6. CASE FinishChat
  <2>1. LoopTypes' /\ Fed' /\ CacheIsContext' /\ WithinMaxLen'
    BY <1>4, <1>6, NothingFed
  <2>2. Stages' /\ ForwarderStays' /\ LeaksExplained'
    BY <1>4, <1>6 DEF IInv, Stages, ForwarderStays, LeaksExplained, FinishChat, NoAnswer, Ended
  <2> QED
    BY <2>1, <2>2 DEF IInv
<1>7. CASE Bound
  <2>1. LoopTypes' /\ Fed' /\ CacheIsContext' /\ WithinMaxLen'
    BY <1>4, <1>7, NothingFed
  <2>2. model = "phi3" /\ generated # <<>> /\ pc' \in {"loop", "panic"}
    BY <1>7 DEF IInv, Stages, Bound
  <2>3. Stages'
    BY <1>4, <1>7, <2>2 DEF Stages
  <2>4. ForwarderStays' /\ LeaksExplained'
    BY <1>0, <1>4, <1>7, <2>2 DEF IInv, ForwarderStays, LeaksExplained, Bound, Ended, request
  <2> QED
    BY <2>1, <2>3, <2>4 DEF IInv
<1>8. CASE SendErr
  <2>1. LoopTypes' /\ Fed' /\ CacheIsContext' /\ WithinMaxLen'
    BY <1>4, <1>8, NothingFed
  <2>2. pc' \in {"panic", "finish", "rest"} /\ (pc' = "panic" => piece.next = "bound")
    BY <1>8 DEF SendErr, AfterSendErr
  <2>3. Stages'
    <3>1. model = "phi3" => generated # <<>>
      BY <1>8 DEF IInv, Stages, SendErr
    <3> QED
      BY <1>4, <1>8, <2>2, <3>1 DEF Stages
  <2>4. pc = "send" /\ client = "gone" /\ client' = "gone" /\ sent' = sent
    BY <1>4, <1>8 DEF IInv, ForwarderStays, SendErr, Ended
  <2>5. ForwarderStays'
    BY <2>4 DEF ForwarderStays
  <2>6. LeaksExplained'
    BY <1>4, <1>8, <2>2, <2>4 DEF IInv, Stages, LeaksExplained, Ended
  <2> QED
    BY <2>1, <2>3, <2>5, <2>6 DEF IInv
<1>9. CASE LoopOver \/ Rest
  <2>1. held' = held /\ pc' \in {"rest", "finish", "send"} /\ (pc' = "send" => piece'.next = "finish")
    BY <1>9 DEF LoopOver, Rest
  <2>2. Stages'
    <3>1. model = "phi3" => generated # <<>>
      BY <1>9 DEF IInv, Stages, LoopOver, Rest
    <3> QED
      BY <1>4, <1>9, <2>1, <3>1 DEF Stages
  <2> QED
    BY <1>4, <1>9, <2>1, <2>2, GoesOn DEF Ended
<1>10. CASE SendPiece
  <2>1. /\ held' = held /\ pc = "send" /\ pc' = piece.next
        /\ piece.next \in {"bound", "loop", "rest", "finish"}
    BY <1>10 DEF SendPiece, IInv, LoopTypes
  <2>2. Stages'
    BY <1>4, <1>10, <2>1 DEF IInv, Stages
  <2> QED
    BY <1>4, <1>10, <2>1, <2>2, GoesOn DEF Ended
<1> QED
  BY <1>1, <1>2, <1>3, <1>5, <1>6, <1>7, <1>8, <1>9, <1>10 DEF Chat
------------------------------------------------------------------------------
LEMMA LoopStep ==
    ASSUME IInv, [Next]_vars
    PROVE  IInv'
<1>1. CASE Chat
  BY <1>1, ChatStep
<1>2. CASE Forwarding \/ Reading \/ Leave \/ UNCHANGED vars
  <2>1. UNCHANGED <<request, loop>>
    BY <1>2 DEF Forwarding, ForwarderRecv, ForwarderClosed, ForwarderSend, ForwarderErr,
                Reading, PollReadEof, PollRead, Leave, vars
  <2>2. LoopTypes' /\ Fed' /\ CacheIsContext' /\ WithinMaxLen'
    BY <2>1, NothingFed DEF loop, IInv, LoopTypes
  <2>3. Stages'
    BY <2>1 DEF IInv, Stages, loop, request
  <2>4. client = "gone" => client' = "gone"
    BY <1>2 DEF Forwarding, ForwarderRecv, ForwarderClosed, ForwarderSend, ForwarderErr,
                Reading, PollReadEof, PollRead, Leave, vars, pipe
  <2>5. forwarder'.pc = "ended" => forwarder.pc = "ended" \/ pc \in Ended \/ client = "gone"
    BY <1>2 DEF Forwarding, ForwarderRecv, ForwarderClosed, ForwarderSend, ForwarderErr,
                Reading, PollReadEof, PollRead, Leave, vars, pipe
  <2>6. ForwarderStays'
    BY <2>1, <2>4, <2>5 DEF IInv, ForwarderStays, loop
  <2>7. LeaksExplained'
    BY <2>1, <2>4 DEF IInv, LeaksExplained, ContextFull, loop, request
  <2> QED
    BY <2>2, <2>3, <2>6, <2>7 DEF IInv
<1> QED
  BY <1>1, <1>2 DEF Next

(* The loop, its cache and the task that forwards its text go together:    *)
(* the invariant, for requests of any size.                                *)
THEOREM LoopInvariant == Spec => []IInv
<1>1. IInv /\ [Next]_vars => IInv'
  BY LoopStep
<1> QED
  BY <1>1, LoopInit, PTL DEF Spec

(* However long prompt and answer are, every forward of phi3's and llama's *)
(* chat finds the cache filled with exactly the tokens before its own.     *)
THEOREM LoopCacheIsContext == Spec => []CacheIsContext
<1>1. IInv => CacheIsContext
  BY DEF IInv
<1> QED
  BY <1>1, LoopInvariant, PTL

(* A chat counts no more tokens than the max_len of its session, whatever  *)
(* i32 the request gave, but for the subtraction that wraps around.        *)
THEOREM LoopWithinMaxLen == Spec => []WithinMaxLen
<1>1. IInv => WithinMaxLen
  BY DEF IInv
<1> QED
  BY <1>1, LoopInvariant, PTL

(* Whenever the client leaves, a chat that ends with its sessions and      *)
(* caches still held does so for one of the four reasons.                  *)
THEOREM LoopLeaksExplained == Spec => []LeaksExplained
<1>1. IInv => LeaksExplained
  BY DEF IInv
<1> QED
  BY <1>1, LoopInvariant, PTL

------------------------------------------------------------------------------
(* Flattening.  Induction is by the least number that would be an          *)
(* exception.                                                              *)

LEMMA LeastNat ==
    ASSUME NEW S \in SUBSET Nat, S # {}
    PROVE  \E x \in S : \A y \in S : x <= y
<1>1. PICK x \in S : \A y \in S : <<y, x>> \notin OpToRel(<, Nat)
  BY NatLessThanWellFounded, WFMin
<1>2. \A y \in S : ~(y < x)
  BY <1>1, Zenon DEF OpToRel
<1> QED
  BY <1>2

Three(S, a, b, c) == a \in Seq(S) /\ b \in Seq(S) /\ c \in Seq(S)

Regrouped(a, b, c) == (a \o b) \o c = a \o (b \o c)

LEMMA Regroup ==
    ASSUME NEW S, NEW a, NEW b, NEW c, Three(S, a, b, c)
    PROVE  Regrouped(a, b, c)
BY ConcatAssociative DEF Three, Regrouped

(* f[n] is what the first n members of s make together.                    *)
Parts(S, s, m, f) ==
    /\ f \in [0 .. m -> Seq(S)]
    /\ f[0] = <<>>
    /\ \A n \in 1 .. m : f[n] = f[n - 1] \o s[n]

LEMMA PartsExist ==
    ASSUME NEW S, NEW s \in Seq(Seq(S))
    PROVE  \E f : Parts(S, s, Len(s), f)
<1> DEFINE Bad == {k \in 0 .. Len(s) : ~\E f : Parts(S, s, k, f)}
<1>a. Len(s) \in Nat /\ \A i \in 1 .. Len(s) : s[i] \in Seq(S)
  BY LenProperties, ElementOfSeq
<1> SUFFICES ASSUME Bad # {} PROVE FALSE
  BY <1>a
<1>0. Bad \in SUBSET Nat
  OBVIOUS
<1>1. PICK k \in Bad : \A j \in Bad : k <= j
  BY <1>0, LeastNat
<1>2. k # 0
  <2>1. Parts(S, s, 0, [n \in 0 .. 0 |-> <<>>])
    BY DEF Parts
  <2> QED
    BY <2>1
<1>3. k \in 1 .. Len(s) /\ k - 1 \in 0 .. Len(s) /\ k - 1 \notin Bad
  <2>1. k \in 0 .. Len(s)
    OBVIOUS
  <2> HIDE DEF Bad
  <2> QED
    BY <1>1, <1>2, <1>a, <2>1
<1>4. PICK f : Parts(S, s, k - 1, f)
  BY <1>3
<1> DEFINE g == [n \in 0 .. k |-> IF n < k THEN f[n] ELSE f[k - 1] \o s[k]]
<1>5. Parts(S, s, k, g)
  <2>1. /\ k \in Nat /\ k > 0 /\ s[k] \in Seq(S) /\ f \in [0 .. k - 1 -> Seq(S)] /\ f[0] = <<>>
        /\ \A n \in 1 .. k - 1 : f[n] = f[n - 1] \o s[n]
    <3>1. k \in Nat /\ k > 0 /\ s[k] \in Seq(S)
      <4> HIDE DEF Bad
      <4> QED
        BY <1>a, <1>3
    <3> QED
      BY <1>4, <3>1, Zenon DEF Parts
  <2>2. f[k - 1] \in Seq(S)
    BY <2>1
  <2>3. f[k - 1] \o s[k] \in Seq(S)
    BY <2>1, <2>2, ConcatProperties
  <2> DEFINE last == f[k - 1] \o s[k]
  <2>4. last \in Seq(S) /\ g = [n \in 0 .. k |-> IF n < k THEN f[n] ELSE last] /\ last = f[k - 1] \o s[k]
    BY <2>3
  <2> HIDE DEF last, g
  <2>5. g \in [0 .. k -> Seq(S)]
    BY <2>1, <2>4
  <2>6. g[0] = <<>> /\ g[k] = last
    <3>1. 0 \in 0 .. k /\ k \in 0 .. k /\ 0 < k /\ ~(k < k)
      BY <2>1
    <3> QED
      BY <2>1, <2>4, <3>1, Zenon
  <2>7. ASSUME NEW n \in 1 .. k PROVE g[n] = g[n - 1] \o s[n]
    <3>1. CASE n < k
      <4>1. g[n] = f[n] /\ g[n - 1] = f[n - 1] /\ n \in 1 .. k - 1
        BY <2>1, <2>4, <3>1
      <4> QED
        BY <2>1, <4>1
    <3>2. CASE n = k
      <4>1. g[n - 1] = f[k - 1]
        BY <2>1, <2>4, <3>2
      <4> QED
        BY <2>4, <2>6, <3>2, <4>1
    <3>3. n < k \/ n = k
      <4>1. k \in Nat
        BY <2>1
      <4> HIDE DEF Bad
      <4> QED
        BY <4>1
    <3> QED
      BY <3>1, <3>2, <3>3
  <2> QED
    BY <2>5, <2>6, <2>7 DEF Parts
<1> QED
  BY <1>1, <1>5

LEMMA PartsFlatten ==
    ASSUME NEW S, NEW s \in Seq(Seq(S)), NEW f, Parts(S, s, Len(s), f)
    PROVE  FlattenSeq(s) = f[Len(s)] /\ FlattenSeq(s) \in Seq(S)
<1>0. /\ Len(s) \in Nat /\ f \in [0 .. Len(s) -> Seq(S)] /\ f[0] = <<>>
      /\ \A n \in 1 .. Len(s) : f[n] = f[n - 1] \o s[n]
      /\ \A i \in 1 .. Len(s) : s[i] \in Seq(S)
  BY LenProperties, ElementOfSeq DEF Parts
<1>a. f[Len(s)] \in Seq(S)
  BY <1>0
<1>b. CASE Len(s) = 0
  <2>1. s = <<>>
    BY <1>b
  <2>2. FlattenSeq(s) = s
    BY <1>b DEF FlattenSeq
  <2> QED
    BY <1>0, <1>a, <1>b, <2>1, <2>2
<1>c. CASE Len(s) # 0
  <2> DEFINE Is(h) == h = [i \in 1 .. Len(s) |-> IF i = 1 THEN s[i] ELSE h[i - 1] \o s[i]]
             flat == CHOOSE h : Is(h)
             g == [i \in 1 .. Len(s) |-> f[i]]
  <2>1. Is(g)
    <3>1. ASSUME NEW i \in 1 .. Len(s)
          PROVE  f[i] = IF i = 1 THEN s[i] ELSE g[i - 1] \o s[i]
      <4>1. CASE i = 1
        <5>0. 1 \in 1 .. Len(s) /\ 1 - 1 = 0
          BY <4>1
        <5>1. f[1] = <<>> \o s[1] /\ s[1] \in Seq(S)
          BY <1>0, <5>0
        <5> QED
          BY <4>1, <5>1, ConcatEmptySeq
      <4>2. CASE i # 1
        <5>1. i - 1 \in 1 .. Len(s)
          BY <1>0, <4>2
        <5>2. g[i - 1] = f[i - 1]
          BY <5>1
        <5> QED
          BY <1>0, <4>2, <5>2
      <4> QED
        BY <4>1, <4>2
    <3> QED
      BY <3>1, Zenon
  <2>2. Is(flat)
    BY <2>1, Zenon
  <2>3. FlattenSeq(s) = flat[Len(s)]
    BY <1>c DEF FlattenSeq
  <2> HIDE DEF flat
  <2>4. \A n \in 1 .. Len(s) : flat[n] = f[n]
    <3> DEFINE Bad == {k \in 1 .. Len(s) : flat[k] # f[k]}
    <3> SUFFICES ASSUME Bad # {} PROVE FALSE
      OBVIOUS
    <3>0. Bad \in SUBSET Nat
      OBVIOUS
    <3>1. PICK k \in Bad : \A j \in Bad : k <= j
      BY <3>0, LeastNat
    <3>2. flat[k] = IF k = 1 THEN s[k] ELSE flat[k - 1] \o s[k]
      <4> HIDE DEF Bad
      <4>1. k \in 1 .. Len(s)
        BY <3>1 DEF Bad
      <4> QED
        BY <2>2, <4>1
    <3>3. g[k] = IF k = 1 THEN s[k] ELSE g[k - 1] \o s[k]
      <4> HIDE DEF Bad, g
      <4>1. k \in 1 .. Len(s)
        BY <3>1 DEF Bad
      <4> QED
        BY <2>1, <4>1
    <3>4. k \in 1 .. Len(s) /\ g[k] = f[k] /\ flat[k] # f[k]
      BY <3>1
    <3>5. CASE k = 1
      BY <3>2, <3>3, <3>4, <3>5
    <3>6. CASE k # 1
      <4>1. k - 1 \in 1 .. Len(s) /\ k - 1 \notin Bad
        <5> HIDE DEF Bad
        <5> QED
          BY <1>0, <3>1, <3>4, <3>6
      <4>2. flat[k - 1] = f[k - 1] /\ g[k - 1] = f[k - 1]
        BY <4>1
      <4> HIDE DEF g
      <4> QED
        BY <3>2, <3>3, <3>4, <3>6, <4>2
    <3> QED
      BY <3>5, <3>6
  <2> QED
    BY <1>0, <1>a, <1>c, <2>3, <2>4
<1> QED
  BY <1>b, <1>c

LEMMA FlattenSeqIn ==
    ASSUME NEW S, NEW s \in Seq(Seq(S))
    PROVE  FlattenSeq(s) \in Seq(S)
BY PartsExist, PartsFlatten

LEMMA FlattenEmpties ==
    ASSUME NEW S, NEW s \in Seq(Seq(S)), \A i \in 1 .. Len(s) : s[i] = <<>>
    PROVE  FlattenSeq(s) = <<>>
<1> DEFINE f == [n \in 0 .. Len(s) |-> <<>>]
<1>0. Len(s) \in Nat /\ <<>> \in Seq(S)
  BY LenProperties, EmptySeq
<1>1. <<>> \o <<>> = <<>>
  BY <1>0, ConcatEmptySeq
<1>2. f \in [0 .. Len(s) -> Seq(S)] /\ f[0] = <<>> /\ f[Len(s)] = <<>>
  BY <1>0
<1>3. ASSUME NEW n \in 1 .. Len(s) PROVE f[n] = f[n - 1] \o s[n]
  <2>1. f[n] = <<>> /\ f[n - 1] = <<>>
    BY <1>0
  <2> QED
    BY <1>1, <2>1
<1> HIDE DEF f
<1>4. Parts(S, s, Len(s), f)
  BY <1>2, <1>3 DEF Parts
<1> QED
  BY <1>2, <1>4, PartsFlatten

LEMMA FlattenNothing == FlattenSeq(<<>>) = <<>>
<1>1. <<>> \in Seq(Seq({})) /\ \A i \in 1 .. Len(<<>>) : <<>>[i] = <<>>
  BY EmptySeq
<1> QED
  BY <1>1, FlattenEmpties

LEMMA FlattenOne ==
    ASSUME NEW S, NEW x \in Seq(S)
    PROVE  FlattenSeq(<<x>>) = x
<1> DEFINE s == <<x>>
           f == [n \in 0 .. 1 |-> IF n = 0 THEN <<>> ELSE x]
<1>1. s \in Seq(Seq(S)) /\ Len(s) = 1 /\ s[1] = x
  OBVIOUS
<1>2. <<>> \o x = x /\ <<>> \in Seq(S)
  BY ConcatEmptySeq, EmptySeq
<1>3. f \in [0 .. 1 -> Seq(S)] /\ f[0] = <<>> /\ f[1] = x
  BY <1>2
<1> HIDE DEF s, f
<1>4. \A n \in 1 .. 1 : f[n] = f[n - 1] \o s[n]
  BY <1>1, <1>2, <1>3
<1>5. Parts(S, s, Len(s), f)
  BY <1>1, <1>3, <1>4 DEF Parts
<1> QED
  BY <1>1, <1>3, <1>5, PartsFlatten DEF s

LEMMA FlattenConcat ==
    ASSUME NEW S, NEW s \in Seq(Seq(S)), NEW t \in Seq(Seq(S))
    PROVE  FlattenSeq(s \o t) = FlattenSeq(s) \o FlattenSeq(t)
<1>1. PICK f : Parts(S, s, Len(s), f)
  BY PartsExist
<1>2. PICK g : Parts(S, t, Len(t), g)
  BY PartsExist
<1> DEFINE m == Len(s)
           k == Len(t)
           st == s \o t
<1>3. m \in Nat /\ k \in Nat /\ st \in Seq(Seq(S)) /\ Len(st) = m + k
  BY LenProperties, ConcatProperties
<1>4. ASSUME NEW i \in 1 .. m + k PROVE st[i] = IF i <= m THEN s[i] ELSE t[i - m]
  BY ConcatProperties
<1>5. /\ f \in [0 .. m -> Seq(S)] /\ f[0] = <<>> /\ g \in [0 .. k -> Seq(S)] /\ g[0] = <<>>
      /\ \A n \in 1 .. m : f[n] = f[n - 1] \o s[n]
      /\ \A n \in 1 .. k : g[n] = g[n - 1] \o t[n]
  BY <1>1, <1>2 DEF Parts
<1>6. \A n \in 1 .. k : t[n] \in Seq(S)
  BY ElementOfSeq
<1>7. FlattenSeq(s) = f[m] /\ FlattenSeq(t) = g[k]
  BY <1>1, <1>2, PartsFlatten
<1> DEFINE h == [n \in 0 .. m + k |-> IF n <= m THEN f[n] ELSE f[m] \o g[n - m]]
<1> HIDE DEF m, k, st
<1>8. f[m] \in Seq(S)
  BY <1>3, <1>5
<1> DEFINE first == f[m]
<1>9. first \in Seq(S) /\ first = f[m]
  BY <1>8
<1>10. \A n \in 0 .. m + k : h[n] = IF n <= m THEN f[n] ELSE first \o g[n - m]
  OBVIOUS
<1>11. h \in [0 .. m + k -> Seq(S)]
  <2>1. ASSUME NEW n \in 0 .. m + k
        PROVE  (IF n <= m THEN f[n] ELSE f[m] \o g[n - m]) \in Seq(S)
    <3>1. CASE n <= m
      <4>1. n \in 0 .. m
        BY <1>3, <3>1
      <4> QED
        BY <1>5, <3>1, <4>1
    <3>2. CASE ~(n <= m)
      <4>1. n - m \in 0 .. k
        BY <1>3, <3>2
      <4>2. g[n - m] \in Seq(S)
        BY <1>5, <4>1
      <4>3. f[m] \o g[n - m] \in Seq(S)
        BY <1>8, <4>2, ConcatProperties
      <4> QED
        BY <3>2, <4>3
    <3> QED
      BY <3>1, <3>2
  <2> QED
    BY <2>1
<1> HIDE DEF h, first
<1>12. h[0] = <<>>
  BY <1>3, <1>5, <1>10
<1>13. ASSUME NEW n \in 1 .. m + k PROVE h[n] = h[n - 1] \o st[n]
  <2>0. n \in 0 .. m + k /\ n - 1 \in 0 .. m + k
    BY <1>3
  <2>1. CASE n <= m
    <3>1. n - 1 <= m /\ n \in 1 .. m
      BY <1>3, <2>1
    <3>2. h[n] = f[n] /\ h[n - 1] = f[n - 1] /\ st[n] = s[n]
      BY <1>4, <1>10, <2>0, <2>1, <3>1
    <3> QED
      BY <1>5, <3>1, <3>2
  <2>2. CASE n = m + 1
    <3>1. n - 1 = m /\ n - m = 1 /\ 1 \in 1 .. k /\ ~(n <= m) /\ n - 1 <= m
      BY <1>3, <2>2
    <3>2. h[n] = first \o g[1] /\ h[n - 1] = first /\ st[n] = t[1]
      BY <1>4, <1>9, <1>10, <2>0, <3>1
    <3>0. 1 - 1 = 0
      OBVIOUS
    <3>3. g[1] = g[0] \o t[1] /\ t[1] \in Seq(S)
      BY <1>5, <1>6, <3>0, <3>1
    <3>4. g[1] = t[1]
      BY <1>5, <3>3, ConcatEmptySeq
    <3> QED
      BY <3>2, <3>4
  <2>3. CASE n > m + 1
    <3>1. ~(n <= m) /\ ~(n - 1 <= m) /\ n - m \in 1 .. k /\ n - 1 - m \in 0 .. k /\ (n - m) - 1 = n - 1 - m
      BY <1>3, <2>3
    <3>2. h[n] = first \o g[n - m] /\ h[n - 1] = first \o g[n - 1 - m] /\ st[n] = t[n - m]
      BY <1>4, <1>10, <2>0, <3>1
    <3>3. g[n - m] = g[n - 1 - m] \o t[n - m]
      BY <1>5, <3>1
    <3>4. g[n - 1 - m] \in Seq(S) /\ t[n - m] \in Seq(S)
      BY <1>5, <1>6, <3>1
    <3>5. (first \o g[n - 1 - m]) \o t[n - m] = first \o (g[n - 1 - m] \o t[n - m])
      <4>1. Three(S, first, g[n - 1 - m], t[n - m])
        BY <1>9, <3>4 DEF Three
      <4>2. Regrouped(first, g[n - 1 - m], t[n - m])
        BY <4>1, Regroup
      <4> QED
        BY <4>2 DEF Regrouped
    <3> QED
      BY <3>2, <3>3, <3>5
  <2> QED
    BY <1>3, <2>1, <2>2, <2>3
<1>14. Parts(S, st, Len(st), h)
  BY <1>3, <1>11, <1>12, <1>13 DEF Parts
<1>15. FlattenSeq(st) = h[m + k]
  BY <1>3, <1>14, PartsFlatten
<1>16. h[m + k] = first \o g[k]
  <2>1. CASE k = 0
    <3>1. h[m + k] = first /\ g[k] = <<>>
      BY <1>3, <1>5, <1>9, <1>10, <2>1
    <3> QED
      BY <1>9, <3>1, ConcatEmptySeq
  <2>2. CASE k # 0
    <3>1. PICK n \in 0 .. m + k : n = m + k
      BY <1>3
    <3>2. ~(n <= m) /\ n - m = k
      BY <1>3, <2>2, <3>1
    <3>3. h[n] = first \o g[n - m]
      BY <1>10, <3>2
    <3> QED
      BY <3>1, <3>2, <3>3
  <2> QED
    BY <2>1, <2>2
<1> QED
  BY <1>7, <1>9, <1>15, <1>16 DEF st

LEMMA FlattenAppend ==
    ASSUME NEW S, NEW s \in Seq(Seq(S)), NEW x \in Seq(S)
    PROVE  FlattenSeq(Append(s, x)) = FlattenSeq(s) \o x
<1>1. Append(s, x) = s \o <<x>> /\ <<x>> \in Seq(Seq(S))
  BY AppendIsConcat
<1>2. FlattenSeq(<<x>>) = x
  BY FlattenOne
<1>3. FlattenSeq(s \o <<x>>) = FlattenSeq(s) \o FlattenSeq(<<x>>)
  BY <1>1, FlattenConcat
<1> QED
  BY <1>1, <1>2, <1>3

LEMMA FlattenHead ==
    ASSUME NEW S, NEW s \in Seq(Seq(S)), s # <<>>
    PROVE  FlattenSeq(s) = Head(s) \o FlattenSeq(Tail(s))
<1>1. Head(s) \in Seq(S) /\ Tail(s) \in Seq(Seq(S))
  BY HeadTailProperties
<1>2. s = <<Head(s)>> \o Tail(s) /\ <<Head(s)>> \in Seq(Seq(S))
  BY <1>1
<1>3. FlattenSeq(<<Head(s)>>) = Head(s)
  BY <1>1, FlattenOne
<1>4. FlattenSeq(<<Head(s)>> \o Tail(s)) = FlattenSeq(<<Head(s)>>) \o FlattenSeq(Tail(s))
  BY <1>1, <1>2, FlattenConcat
<1> QED
  BY <1>2, <1>3, <1>4

------------------------------------------------------------------------------
(* Decoding.  What a token decodes to depends on the tokens around it, but *)
(* not on those beyond the nearest that is seen.                           *)

LEMMA TextIn ==
    ASSUME NEW ts \in Seq(Tokens), NEW i \in 1 .. Len(ts)
    PROVE  TextOf(ts, i) \in Text
<1>1. ts[i] \in Tokens
  BY ElementOfSeq
<1>2. /\ <<"space", "w">> \in Text /\ <<"w">> \in Text /\ <<"char">> \in Text /\ <<"?">> \in Text
      /\ <<>> \in Text
  BY DEF Text
<1>3. CASE ts[i] = "word"
  BY <1>2, <1>3 DEF TextOf
<1>4. CASE ts[i] = "half1"
  BY <1>2, <1>4 DEF TextOf
<1>5. CASE ts[i] = "half2"
  BY <1>2, <1>5 DEF TextOf
<1>6. CASE ts[i] = "eos"
  BY <1>2, <1>6 DEF TextOf
<1> QED
  BY <1>1, <1>3, <1>4, <1>5, <1>6 DEF Tokens

(* The texts of the tokens after the first c. *)
TextsAfter(ts, c) == [i \in 1 .. Len(ts) - c |-> TextOf(ts, c + i)]

After(ts, c) == FlattenSeq(TextsAfter(ts, c))

LEMMA TextsIn ==
    ASSUME NEW ts \in Seq(Tokens), NEW c \in 0 .. Len(ts)
    PROVE  TextsAfter(ts, c) \in Seq(Text) /\ Len(TextsAfter(ts, c)) = Len(ts) - c
<1>1. Len(ts) \in Nat
  BY LenProperties
<1>2. Len(ts) - c \in Nat
  BY <1>1
<1>3. ASSUME NEW i \in 1 .. Len(ts) - c PROVE TextOf(ts, c + i) \in Text
  <2>1. c + i \in 1 .. Len(ts)
    BY <1>1
  <2> QED
    BY <2>1, TextIn
<1>4. TextsAfter(ts, c) \in [1 .. Len(ts) - c -> Text]
  BY <1>3 DEF TextsAfter
<1> QED
  BY <1>2, <1>4

LEMMA AfterIn ==
    ASSUME NEW ts \in Seq(Tokens), NEW c \in 0 .. Len(ts)
    PROVE  After(ts, c) \in Text
<1>1. TextsAfter(ts, c) \in Seq(Text)
  BY TextsIn
<1> QED
  BY <1>1, FlattenSeqIn DEF After, Text

LEMMA DecodeIsAfter ==
    ASSUME NEW ts \in Seq(Tokens)
    PROVE  Decode(ts) = After(ts, 0) /\ Decode(ts) \in Text
<1>1. Len(ts) \in Nat /\ DOMAIN ts = 1 .. Len(ts)
  BY LenProperties
<1>2. [i \in DOMAIN ts |-> TextOf(ts, i)] = TextsAfter(ts, 0)
  <2>1. Len(ts) - 0 = Len(ts) /\ \A i \in 1 .. Len(ts) : 0 + i = i
    BY <1>1
  <2> QED
    BY <1>1, <2>1 DEF TextsAfter
<1>3. Decode(ts) = After(ts, 0)
  BY <1>2 DEF Decode, After
<1>4. 0 \in 0 .. Len(ts)
  BY <1>1
<1> QED
  BY <1>3, <1>4, AfterIn

(* No character of two tokens is cut after the first c.                    *)
Unbroken(ts, c) ==
    \A i \in 1 .. c : ts[i] = "half1" => \E k \in i + 1 .. c : ts[k] # "eos"

(* u is what ts begins with. *)
Begins(u, ts) ==
    /\ u \in Seq(Tokens) /\ ts \in Seq(Tokens) /\ Len(u) <= Len(ts)
    /\ \A i \in 1 .. Len(u) : u[i] = ts[i]

LEMMA TextBefore ==
    ASSUME NEW u, NEW ts, Begins(u, ts), NEW i \in 1 .. Len(u),
           ts[i] = "half1" =>
               \A j \in Len(u) + 1 .. Len(ts) : ~Joined(ts, i, j)
    PROVE  TextOf(u, i) = TextOf(ts, i)
<1>0. /\ Len(u) \in Nat /\ Len(ts) \in Nat /\ Len(u) <= Len(ts)
      /\ DOMAIN u = 1 .. Len(u) /\ DOMAIN ts = 1 .. Len(ts)
      /\ \A k \in 1 .. Len(u) : u[k] = ts[k]
      /\ u[i] \in Tokens /\ u[i] = ts[i]
  BY LenProperties, ElementOfSeq DEF Begins
<1>1. CASE u[i] = "word"
  <2>1. (\E k \in 1 .. i - 1 : u[k] # "eos") <=> (\E k \in 1 .. i - 1 : ts[k] # "eos")
    BY <1>0
  <2> QED
    BY <1>0, <1>1, <2>1 DEF TextOf
<1>2. CASE u[i] = "eos"
  BY <1>0, <1>2 DEF TextOf
<1>3. \A a, b \in 1 .. Len(u) : Joined(u, a, b) <=> Joined(ts, a, b)
  BY <1>0 DEF Joined
<1>4. CASE u[i] = "half1"
  <2>1. (\E j \in DOMAIN u : Joined(u, i, j)) <=> (\E j \in DOMAIN ts : Joined(ts, i, j))
    <3>1. ASSUME NEW j \in DOMAIN ts, Joined(ts, i, j) PROVE j \in DOMAIN u
      BY <1>0, <1>4, <3>1
    <3>2. DOMAIN u \subseteq DOMAIN ts
      BY <1>0
    <3> QED
      BY <1>0, <1>3, <3>1, <3>2
  <2> QED
    BY <1>0, <1>4, <2>1 DEF TextOf
<1>5. CASE u[i] = "half2"
  <2>1. (\E j \in DOMAIN u : Joined(u, j, i)) <=> (\E j \in DOMAIN ts : Joined(ts, j, i))
    <3>1. ASSUME NEW j \in DOMAIN ts, Joined(ts, j, i) PROVE j \in DOMAIN u
      BY <1>0, <3>1 DEF Joined
    <3>2. DOMAIN u \subseteq DOMAIN ts
      BY <1>0
    <3> QED
      BY <1>0, <1>3, <3>1, <3>2
  <2> QED
    BY <1>0, <1>5, <2>1 DEF TextOf
<1> QED
  BY <1>0, <1>1, <1>2, <1>4, <1>5 DEF Tokens

(* The text of all tokens is the text of the first c and of those after.   *)
LEMMA DecodeSplit ==
    ASSUME NEW ts, NEW u, Begins(u, ts), Unbroken(ts, Len(u))
    PROVE  Decode(ts) = Decode(u) \o After(ts, Len(u))
<1> DEFINE c == Len(u)
           a == TextsAfter(u, 0)
           b == TextsAfter(ts, c)
           all == TextsAfter(ts, 0)
<1>0. /\ u \in Seq(Tokens) /\ ts \in Seq(Tokens) /\ c \in Nat /\ Len(ts) \in Nat
      /\ c \in 0 .. Len(ts) /\ 0 \in 0 .. Len(ts) /\ 0 \in 0 .. c
  BY LenProperties DEF Begins
<1>1. /\ a \in Seq(Text) /\ Len(a) = c /\ b \in Seq(Text) /\ Len(b) = Len(ts) - c
      /\ all \in Seq(Text) /\ Len(all) = Len(ts)
  BY <1>0, TextsIn
<1>2. ASSUME NEW i \in 1 .. c PROVE TextOf(u, i) = TextOf(ts, i)
  <2>1. ASSUME NEW j \in c + 1 .. Len(ts), Joined(ts, i, j), ts[i] = "half1" PROVE FALSE
    <3>1. PICK k \in i + 1 .. c : ts[k] # "eos"
      BY <2>1 DEF Unbroken
    <3>2. k \in i + 1 .. j - 1
      BY <1>0
    <3> QED
      BY <2>1, <3>1, <3>2 DEF Joined
  <2> QED
    BY <2>1, TextBefore
<1>3. \A i \in 1 .. c : a[i] = TextOf(u, i)
  BY <1>0 DEF TextsAfter
<1>4. \A i \in 1 .. Len(ts) - c : b[i] = TextOf(ts, c + i)
  BY DEF TextsAfter
<1>5. \A i \in 1 .. Len(ts) : all[i] = TextOf(ts, i)
  BY <1>0 DEF TextsAfter
<1> HIDE DEF a, b, all, c
<1>6. /\ a \o b \in Seq(Text) /\ Len(a \o b) = Len(ts)
  <2>1. a \o b \in Seq(Text) /\ Len(a \o b) = Len(a) + Len(b)
    BY <1>1, ConcatProperties
  <2> QED
    BY <1>0, <1>1, <2>1
<1>7. ASSUME NEW i \in 1 .. Len(ts) PROVE all[i] = (a \o b)[i]
  <2>1. (a \o b)[i] = IF i <= c THEN a[i] ELSE b[i - c]
    BY <1>0, <1>1, ConcatProperties
  <2>2. CASE i <= c
    <3>1. i \in 1 .. c
      BY <1>0, <2>2
    <3> QED
      BY <1>2, <1>3, <1>5, <2>1, <2>2, <3>1
  <2>3. CASE ~(i <= c)
    <3>1. i - c \in 1 .. Len(ts) - c /\ c + (i - c) = i
      BY <1>0, <2>3
    <3>2. b[i - c] = TextOf(ts, i)
      BY <1>4, <3>1
    <3> QED
      BY <1>5, <2>1, <2>3, <3>2
  <2> QED
    BY <2>2, <2>3
<1>8. all = a \o b
  <2>1. Len(all) = Len(a \o b)
    BY <1>1, <1>6
  <2> DEFINE ab == a \o b
  <2>2. ab \in Seq(Text) /\ Len(all) = Len(ab) /\ \A i \in 1 .. Len(all) : all[i] = ab[i]
    BY <1>1, <1>6, <1>7
  <2> HIDE DEF ab
  <2>3. all = ab
    BY <1>1, <2>2, SeqEqual
  <2> QED
    BY <2>3 DEF ab
<1>9. FlattenSeq(all) = FlattenSeq(a) \o FlattenSeq(b)
  BY <1>1, <1>8, FlattenConcat DEF Text
<1>10. Decode(ts) = FlattenSeq(all) /\ Decode(u) = FlattenSeq(a) /\ After(ts, Len(u)) = FlattenSeq(b)
  BY <1>0, DecodeIsAfter DEF After, all, a, b, c
<1> QED
  BY <1>9, <1>10

(* u is what ts has after the first p. *)
Ends(u, ts, p) ==
    /\ u \in Seq(Tokens) /\ ts \in Seq(Tokens) /\ p \in 0 .. Len(ts) /\ Len(u) = Len(ts) - p
    /\ \A i \in 1 .. Len(u) : u[i] = ts[p + i]

(* A token behind a seen one decodes to the same with all tokens before    *)
(* that left out.                                                          *)
LEMMA TextBehind ==
    ASSUME NEW u, NEW ts, NEW p, Ends(u, ts, p), NEW i \in 1 .. Len(u),
           p = 0 \/ \E k \in 1 .. i - 1 : u[k] # "eos"
    PROVE  TextOf(u, i) = TextOf(ts, p + i)
<1>0. /\ Len(u) \in Nat /\ Len(ts) \in Nat /\ p \in Nat /\ Len(u) = Len(ts) - p
      /\ DOMAIN u = 1 .. Len(u) /\ DOMAIN ts = 1 .. Len(ts)
      /\ \A k \in 1 .. Len(u) : u[k] = ts[p + k]
      /\ u[i] \in Tokens /\ u[i] = ts[p + i]
  BY LenProperties, ElementOfSeq DEF Ends
<1>1. CASE u[i] = "word"
  <2>1. (\E k \in 1 .. i - 1 : u[k] # "eos") <=> (\E k \in 1 .. (p + i) - 1 : ts[k] # "eos")
    <3>1. ASSUME NEW k \in 1 .. i - 1, u[k] # "eos"
          PROVE  p + k \in 1 .. (p + i) - 1 /\ ts[p + k] # "eos"
      <4>1. k \in 1 .. Len(u) /\ p + k \in 1 .. (p + i) - 1
        BY <1>0
      <4> QED
        BY <1>0, <3>1, <4>1
    <3>2. ASSUME p = 0, NEW k \in 1 .. (p + i) - 1, ts[k] # "eos"
          PROVE  k \in 1 .. i - 1 /\ u[k] # "eos"
      <4>1. k \in 1 .. Len(u) /\ p + k = k /\ k \in 1 .. i - 1
        BY <1>0, <3>2
      <4> QED
        BY <1>0, <3>2, <4>1
    <3> QED
      BY <3>1, <3>2
  <2> QED
    BY <1>0, <1>1, <2>1 DEF TextOf
<1>2. CASE u[i] = "eos"
  BY <1>0, <1>2 DEF TextOf
<1>3. ASSUME NEW a \in 1 .. Len(u), NEW b \in 1 .. Len(u)
      PROVE  Joined(u, a, b) <=> Joined(ts, p + a, p + b)
  <2>1. u[a] = ts[p + a] /\ u[b] = ts[p + b] /\ (a < b <=> p + a < p + b)
    BY <1>0
  <2>2. (\A k \in a + 1 .. b - 1 : u[k] = "eos") <=> (\A k \in p + a + 1 .. (p + b) - 1 : ts[k] = "eos")
    <3>1. ASSUME NEW k \in a + 1 .. b - 1
          PROVE  p + k \in p + a + 1 .. (p + b) - 1 /\ u[k] = ts[p + k]
      BY <1>0
    <3>2. ASSUME NEW k \in p + a + 1 .. (p + b) - 1
          PROVE  k - p \in a + 1 .. b - 1 /\ u[k - p] = ts[k]
      <4>1. k - p \in 1 .. Len(u) /\ p + (k - p) = k /\ k - p \in a + 1 .. b - 1
        BY <1>0
      <4> QED
        BY <1>0, <4>1
    <3> QED
      BY <3>1, <3>2
  <2>3. Joined(u, a, b) <=> /\ a < b /\ u[a] = "half1" /\ u[b] = "half2"
                            /\ \A k \in a + 1 .. b - 1 : u[k] = "eos"
    BY DEF Joined
  <2>4. Joined(ts, p + a, p + b) <=> /\ p + a < p + b /\ ts[p + a] = "half1" /\ ts[p + b] = "half2"
                                     /\ \A k \in p + a + 1 .. (p + b) - 1 : ts[k] = "eos"
    BY Zenon DEF Joined
  <2> QED
    BY <2>1, <2>2, <2>3, <2>4, Zenon
<1>4. ASSUME NEW j \in 1 .. Len(ts), ~(j <= p)
      PROVE  j - p \in 1 .. Len(u) /\ p + (j - p) = j
  BY <1>0, <1>4
<1>5. ASSUME NEW j \in 1 .. Len(u) PROVE p + j \in 1 .. Len(ts)
  BY <1>0
<1>6. CASE u[i] = "half1"
  <2>1. (\E j \in DOMAIN u : Joined(u, i, j)) <=> (\E j \in DOMAIN ts : Joined(ts, p + i, j))
    <3>1. ASSUME NEW j \in DOMAIN ts, Joined(ts, p + i, j) PROVE \E k \in DOMAIN u : Joined(u, i, k)
      <4>1. ~(j <= p)
        BY <1>0, <3>1 DEF Joined
      <4>2. j - p \in 1 .. Len(u) /\ p + (j - p) = j
        BY <1>0, <1>4, <4>1
      <4>3. Joined(u, i, j - p) <=> Joined(ts, p + i, p + (j - p))
        BY <1>3, <4>2
      <4> QED
        BY <1>0, <3>1, <4>2, <4>3
    <3> QED
      BY <1>0, <1>3, <1>5, <3>1
  <2> QED
    BY <1>0, <1>6, <2>1 DEF TextOf
<1>7. CASE u[i] = "half2"
  <2>1. (\E j \in DOMAIN u : Joined(u, j, i)) <=> (\E j \in DOMAIN ts : Joined(ts, j, p + i))
    <3>1. ASSUME NEW j \in DOMAIN ts, Joined(ts, j, p + i) PROVE \E k \in DOMAIN u : Joined(u, k, i)
      <4>1. ~(j <= p)
        <5>1. SUFFICES ASSUME j <= p PROVE FALSE
          OBVIOUS
        <5>2. p # 0
          BY <1>0, <5>1
        <5>3. PICK k \in 1 .. i - 1 : u[k] # "eos"
          BY <5>2
        <5>4. k \in 1 .. Len(u) /\ p + k \in j + 1 .. (p + i) - 1
          BY <1>0, <5>1
        <5> QED
          BY <1>0, <3>1, <5>3, <5>4 DEF Joined
      <4>2. j - p \in 1 .. Len(u) /\ p + (j - p) = j
        BY <1>0, <1>4, <4>1
      <4>3. Joined(u, j - p, i) <=> Joined(ts, p + (j - p), p + i)
        BY <1>3, <4>2
      <4> QED
        BY <1>0, <3>1, <4>2, <4>3
    <3> QED
      BY <1>0, <1>3, <1>5, <3>1
  <2> QED
    BY <1>0, <1>7, <2>1 DEF TextOf
<1> QED
  BY <1>0, <1>1, <1>2, <1>6, <1>7 DEF Tokens

LEMMA AfterBehind ==
    ASSUME NEW u, NEW ts, NEW p, Ends(u, ts, p), NEW c \in p .. Len(ts),
           p = 0 \/ \E k \in p + 1 .. c : ts[k] # "eos"
    PROVE  After(u, c - p) = After(ts, c)
<1>0. /\ Len(u) \in Nat /\ Len(ts) \in Nat /\ p \in Nat /\ c \in Nat /\ Len(u) = Len(ts) - p
      /\ \A k \in 1 .. Len(u) : u[k] = ts[p + k]
  BY LenProperties DEF Ends
<1>1. Len(u) - (c - p) = Len(ts) - c
  BY <1>0
<1>2. ASSUME NEW i \in 1 .. Len(ts) - c PROVE TextOf(u, (c - p) + i) = TextOf(ts, c + i)
  <2>1. (c - p) + i \in 1 .. Len(u) /\ p + ((c - p) + i) = c + i
    BY <1>0
  <2>2. p = 0 \/ \E k \in 1 .. ((c - p) + i) - 1 : u[k] # "eos"
    <3>1. ASSUME NEW k \in p + 1 .. c, ts[k] # "eos"
          PROVE  k - p \in 1 .. ((c - p) + i) - 1 /\ u[k - p] # "eos"
      <4>1. k - p \in 1 .. Len(u) /\ p + (k - p) = k /\ k - p \in 1 .. ((c - p) + i) - 1
        BY <1>0
      <4> QED
        BY <1>0, <3>1, <4>1
    <3> QED
      BY <3>1
  <2> DEFINE q == (c - p) + i
  <2>3. q \in 1 .. Len(u) /\ p + q = c + i /\ (p = 0 \/ \E k \in 1 .. q - 1 : u[k] # "eos")
    BY <2>1, <2>2, Zenon
  <2> HIDE DEF q
  <2>4. TextOf(u, q) = TextOf(ts, p + q)
    BY <2>3, TextBehind
  <2> QED
    BY <2>3, <2>4 DEF q
<1>3. TextsAfter(u, c - p) = TextsAfter(ts, c)
  BY <1>1, <1>2 DEF TextsAfter
<1> QED
  BY <1>3 DEF After

(* Tokens that are not seen have no text. *)
LEMMA AfterSeen ==
    ASSUME NEW ts \in Seq(Tokens), NEW c \in 0 .. Len(ts), \A k \in c + 1 .. Len(ts) : ts[k] = "eos"
    PROVE  After(ts, c) = <<>>
<1>0. Len(ts) \in Nat /\ TextsAfter(ts, c) \in Seq(Text) /\ Len(TextsAfter(ts, c)) = Len(ts) - c
  BY LenProperties, TextsIn
<1>1. ASSUME NEW i \in 1 .. Len(ts) - c PROVE TextsAfter(ts, c)[i] = <<>>
  <2>1. c + i \in c + 1 .. Len(ts)
    BY <1>0
  <2>2. TextOf(ts, c + i) = <<>>
    BY <2>1 DEF TextOf
  <2> QED
    BY <2>2 DEF TextsAfter
<1> QED
  BY <1>0, <1>1, FlattenEmpties DEF After, Text

(* An end-of-text token more changes nothing. *)
LEMMA DecodeEos ==
    ASSUME NEW ts \in Seq(Tokens)
    PROVE  Decode(Append(ts, "eos")) = Decode(ts)
<1> DEFINE more == Append(ts, "eos")
<1>0. /\ more \in Seq(Tokens) /\ Len(more) = Len(ts) + 1 /\ more[Len(ts) + 1] = "eos"
      /\ \A i \in 1 .. Len(ts) : more[i] = ts[i]
      /\ Len(ts) \in Nat
  BY AppendProperties, LenProperties DEF Tokens
<1> HIDE DEF more
<1>1. Begins(ts, more)
  BY <1>0 DEF Begins
<1>2. ASSUME NEW i \in 1 .. Len(ts) PROVE TextOf(ts, i) = TextOf(more, i)
  <2>1. ASSUME NEW j \in Len(ts) + 1 .. Len(more) PROVE ~Joined(more, i, j)
    BY <1>0 DEF Joined
  <2> QED
    BY <1>1, <2>1, TextBefore
<1> DEFINE a == TextsAfter(ts, 0)
           all == TextsAfter(more, 0)
<1>3. /\ a \in Seq(Text) /\ Len(a) = Len(ts) /\ all \in Seq(Text) /\ Len(all) = Len(ts) + 1
  BY <1>0, TextsIn
<1>4. /\ \A i \in 1 .. Len(ts) : a[i] = TextOf(ts, i)
      /\ \A i \in 1 .. Len(ts) + 1 : all[i] = TextOf(more, i)
  BY <1>0 DEF TextsAfter
<1>5. TextOf(more, Len(ts) + 1) = <<>>
  BY <1>0 DEF TextOf
<1>6. <<>> \in Text
  BY DEF Text
<1>7. Decode(ts) = FlattenSeq(a) /\ Decode(more) = FlattenSeq(all) /\ Decode(ts) \in Text
  BY <1>0, DecodeIsAfter DEF After
<1> HIDE DEF a, all
<1>8. all = Append(a, <<>>)
  <2> DEFINE ap == Append(a, <<>>)
  <2>1. /\ ap \in Seq(Text) /\ Len(ap) = Len(ts) + 1 /\ ap[Len(ts) + 1] = <<>>
        /\ \A i \in 1 .. Len(ts) : ap[i] = a[i]
    BY <1>3, <1>6, AppendProperties
  <2> HIDE DEF ap
  <2>2. \A i \in 1 .. Len(all) : all[i] = ap[i]
    BY <1>0, <1>2, <1>3, <1>4, <1>5, <2>1
  <2>3. all = ap
    BY <1>3, <2>1, <2>2, SeqEqual
  <2> QED
    BY <2>3 DEF ap
<1>9. FlattenSeq(Append(a, <<>>)) = FlattenSeq(a) \o <<>>
  BY <1>3, <1>6, FlattenAppend DEF Text
<1>10. FlattenSeq(a) \o <<>> = FlattenSeq(a)
  BY <1>7, ConcatEmptySeq DEF Text
<1> QED
  BY <1>7, <1>8, <1>9, <1>10 DEF more

(* A text that ends with half a character ends with the replacement for it. *)
LEMMA BrokenEnd ==
    ASSUME NEW ts \in Seq(Tokens), NEW i \in 1 .. Len(ts), ts[i] = "half1",
           \A k \in i + 1 .. Len(ts) : ts[k] = "eos"
    PROVE  Last(Decode(ts)) = "?"
<1>0. Len(ts) \in Nat /\ DOMAIN ts = 1 .. Len(ts)
  BY LenProperties
<1>1. TextOf(ts, i) = <<"?">>
  <2>1. ASSUME NEW j \in DOMAIN ts PROVE ~Joined(ts, i, j)
    BY <1>0 DEF Joined
  <2> QED
    BY <2>1 DEF TextOf
<1> DEFINE all == TextsAfter(ts, 0)
           a == SubSeq(all, 1, i - 1)
           b == SubSeq(all, i + 1, Len(ts))
<1>2. all \in Seq(Text) /\ Len(all) = Len(ts) /\ Decode(ts) = FlattenSeq(all)
  BY <1>0, TextsIn, DecodeIsAfter DEF After
<1>3. \A k \in 1 .. Len(ts) : all[k] = TextOf(ts, k)
  BY <1>0 DEF TextsAfter
<1>4. all[i] = <<"?">> /\ \A k \in i + 1 .. Len(ts) : all[k] = <<>>
  <2>1. \A k \in i + 1 .. Len(ts) : TextOf(ts, k) = <<>>
    BY DEF TextOf
  <2> QED
    BY <1>0, <1>1, <1>3, <2>1
<1> HIDE DEF all
<1>5. \A k \in 1 .. Len(ts) : all[k] \in Text
  BY <1>2, ElementOfSeq
<1>6. a \in Seq(Text) /\ b \in Seq(Text)
  <2>1. /\ i - 1 \in Int /\ i + 1 \in Int /\ Len(ts) \in Int
        /\ \A k \in 1 .. i - 1 : all[k] \in Text
        /\ \A k \in i + 1 .. Len(ts) : all[k] \in Text
    BY <1>0, <1>5
  <2> QED
    BY <2>1, SubSeqProperties
<1>7. \A k \in 1 .. Len(b) : b[k] = <<>>
  <2>1. /\ Len(b) = IF i + 1 <= Len(ts) THEN Len(ts) - (i + 1) + 1 ELSE 0
        /\ \A k \in 1 .. Len(ts) - (i + 1) + 1 : b[k] = all[(i + 1) + k - 1]
    <3>1. /\ i + 1 \in Int /\ Len(ts) \in Int
          /\ \A k \in i + 1 .. Len(ts) : all[k] \in Text
      BY <1>0, <1>5
    <3> QED
      BY <3>1, SubSeqProperties
  <2> HIDE DEF b
  <2>2. ASSUME NEW k \in 1 .. Len(b) PROVE b[k] = <<>>
    <3>1. k \in 1 .. Len(ts) - (i + 1) + 1 /\ (i + 1) + k - 1 \in i + 1 .. Len(ts)
      <4>1. CASE i + 1 <= Len(ts)
        BY <1>0, <2>1, <4>1
      <4>2. CASE ~(i + 1 <= Len(ts))
        BY <1>0, <2>1, <4>2
      <4> QED
        BY <4>1, <4>2
    <3> QED
      BY <1>4, <2>1, <3>1
  <2> QED
    BY <2>2
<1>8. all = (a \o <<all[i]>>) \o b
  <2>1. /\ 1 \in 1 .. Len(all) + 1 /\ i - 1 \in 0 .. Len(all) /\ i \in 1 .. Len(all)
        /\ i \in i - 1 .. Len(all) /\ i \in 0 .. Len(all) /\ Len(all) \in i .. Len(all)
        /\ i \in 1 .. i /\ 1 - 1 = 0
    BY <1>0, <1>2
  <2>2. SubSeq(all, 1, i) = SubSeq(all, 1, i - 1) \o <<all[i]>>
    BY <1>2, <2>1, SubSeqRecursiveSecond
  <2>3. SubSeq(all, 1, i) \o SubSeq(all, i + 1, Len(all)) = SubSeq(all, 1, Len(all))
    BY <1>2, <2>1, ConcatAdjacentSubSeq
  <2>4. SubSeq(all, 1, Len(all)) = all
    BY <1>2, SubSeqFull
  <2> QED
    BY <1>2, <2>2, <2>3, <2>4
<1> HIDE DEF a, b
<1>9. <<"?">> \in Text /\ <<<<"?">>>> \in Seq(Text)
  BY DEF Text
<1>10. FlattenSeq(b) = <<>>
  BY <1>6, <1>7, FlattenEmpties DEF Text
<1>11. FlattenSeq(<<<<"?">>>>) = <<"?">>
  BY <1>9, FlattenOne DEF Text
<1> DEFINE one == <<<<"?">>>>
<1>12. one \in Seq(Text) /\ all = (a \o one) \o b /\ FlattenSeq(one) = <<"?">>
  BY <1>4, <1>8, <1>9, <1>11
<1> HIDE DEF one
<1>13. a \o one \in Seq(Text)
  BY <1>6, <1>12, ConcatProperties
<1>14. FlattenSeq(a \o one) = FlattenSeq(a) \o <<"?">>
  BY <1>6, <1>12, FlattenConcat DEF Text
<1>15. FlattenSeq(all) = FlattenSeq(a \o one) \o FlattenSeq(b)
  BY <1>6, <1>12, <1>13, FlattenConcat DEF Text
<1> DEFINE fa == FlattenSeq(a)
<1>16. fa \in Text
  BY <1>6, FlattenSeqIn DEF Text
<1>17. FlattenSeq(all) = (fa \o <<"?">>) \o <<>>
  BY <1>10, <1>14, <1>15
<1> HIDE DEF fa
<1>18. (fa \o <<"?">>) \in Text
  BY <1>9, <1>16, ConcatProperties DEF Text
<1>19. (fa \o <<"?">>) \o <<>> = fa \o <<"?">>
  BY <1>18, ConcatEmptySeq DEF Text
<1>20. Len(fa \o <<"?">>) = Len(fa) + 1 /\ (fa \o <<"?">>)[Len(fa) + 1] = "?"
  <2> DEFINE C == {"w", "space", "char", "?", "{", "}"}
  <2>1. fa \in Seq(C) /\ "?" \in C
    BY <1>16 DEF Text
  <2> HIDE DEF C
  <2>2. Append(fa, "?") = fa \o <<"?">>
    BY <2>1, AppendIsConcat
  <2>3. Len(Append(fa, "?")) = Len(fa) + 1 /\ Append(fa, "?")[Len(fa) + 1] = "?"
    BY <2>1, AppendProperties
  <2> QED
    BY <2>2, <2>3
<1> QED
  BY <1>2, <1>17, <1>19, <1>20 DEF Last

------------------------------------------------------------------------------
(* TokenOutputStream.  Of ts, the first c tokens are emitted: they cut no  *)
(* character, and at least one of those from p on, which are decoded again *)
(* with what follows, is seen.                                             *)
Kept(ts, p, c) ==
    /\ ts \in Seq(Tokens) /\ p \in Nat /\ c \in Nat /\ p <= c /\ c <= Len(ts)
    /\ Unbroken(ts, c)
    /\ p = 0 \/ \E k \in p + 1 .. c : ts[k] # "eos"

LEMMA PartOf ==
    ASSUME NEW ts \in Seq(Tokens), NEW p \in Nat, NEW c \in Nat, p <= c, c <= Len(ts)
    PROVE  /\ SubSeq(ts, p + 1, c) \in Seq(Tokens) /\ Len(SubSeq(ts, p + 1, c)) = c - p
           /\ \A i \in 1 .. c - p : SubSeq(ts, p + 1, c)[i] = ts[p + i]
<1>1. Len(ts) \in Nat /\ \A i \in 1 .. Len(ts) : ts[i] \in Tokens
  BY LenProperties, ElementOfSeq
<1>2. p + 1 \in Int /\ c \in Int /\ \A i \in p + 1 .. c : ts[i] \in Tokens
  BY <1>1
<1> DEFINE w == SubSeq(ts, p + 1, c)
<1>3. /\ w \in Seq(Tokens) /\ Len(w) = IF p + 1 <= c THEN c - (p + 1) + 1 ELSE 0
      /\ \A i \in 1 .. c - (p + 1) + 1 : w[i] = ts[(p + 1) + i - 1]
  BY <1>2, SubSeqProperties
<1> HIDE DEF w
<1>4. Len(w) = c - p /\ c - (p + 1) + 1 = c - p
  BY <1>3
<1>5. ASSUME NEW i \in 1 .. c - p PROVE w[i] = ts[p + i]
  <2>1. w[i] = ts[(p + 1) + i - 1] /\ (p + 1) + i - 1 = p + i
    BY <1>3, <1>4
  <2> QED
    BY <2>1
<1> QED
  BY <1>3, <1>4, <1>5 DEF w

(* What follows the first c, decoded with the context from p on. *)
Follows(ts, p, c) ==
    Decode(SubSeq(ts, p + 1, Len(ts))) = Decode(SubSeq(ts, p + 1, c)) \o After(ts, c)

LEMMA ContextSuffices ==
    ASSUME NEW ts, NEW p, NEW c, Kept(ts, p, c)
    PROVE  Follows(ts, p, c)
<1> DEFINE w == SubSeq(ts, p + 1, Len(ts))
           v == SubSeq(ts, p + 1, c)
<1>0. /\ ts \in Seq(Tokens) /\ p \in Nat /\ c \in Nat /\ p <= c /\ c <= Len(ts) /\ Len(ts) \in Nat
      /\ p <= Len(ts) /\ Unbroken(ts, c) /\ (p = 0 \/ \E k \in p + 1 .. c : ts[k] # "eos")
      /\ Len(ts) <= Len(ts)
  BY LenProperties DEF Kept
<1>1. /\ w \in Seq(Tokens) /\ Len(w) = Len(ts) - p /\ \A i \in 1 .. Len(ts) - p : w[i] = ts[p + i]
      /\ v \in Seq(Tokens) /\ Len(v) = c - p /\ \A i \in 1 .. c - p : v[i] = ts[p + i]
  BY <1>0, PartOf
<1> HIDE DEF w, v
<1>2. Ends(w, ts, p)
  BY <1>0, <1>1 DEF Ends
<1>3. Begins(v, w)
  BY <1>0, <1>1 DEF Begins
<1>4. Unbroken(w, Len(v))
  <2>1. ASSUME NEW i \in 1 .. c - p, w[i] = "half1" PROVE \E k \in i + 1 .. c - p : w[k] # "eos"
    <3>1. p + i \in 1 .. c /\ ts[p + i] = "half1"
      BY <1>0, <1>1, <2>1
    <3>2. PICK k \in p + i + 1 .. c : ts[k] # "eos"
      BY <1>0, <3>1 DEF Unbroken
    <3>3. k - p \in i + 1 .. c - p /\ k - p \in 1 .. Len(ts) - p /\ p + (k - p) = k
      BY <1>0
    <3> QED
      BY <1>1, <3>2, <3>3
  <2> QED
    BY <1>1, <2>1 DEF Unbroken
<1>5. Decode(w) = Decode(v) \o After(w, c - p)
  BY <1>1, <1>3, <1>4, DecodeSplit
<1>6. After(w, c - p) = After(ts, c)
  <2>1. c \in p .. Len(ts)
    BY <1>0
  <2> QED
    BY <1>0, <1>2, <2>1, AfterBehind
<1> QED
  BY <1>5, <1>6 DEF Follows, w, v

LEMMA AllFollows ==
    ASSUME NEW ts, NEW p, NEW c, Kept(ts, p, c)
    PROVE  Decode(ts) = Decode(SubSeq(ts, 1, c)) \o After(ts, c)
<1>0. ts \in Seq(Tokens) /\ c \in Nat /\ c <= Len(ts) /\ 0 <= c /\ 0 \in Nat /\ Unbroken(ts, c)
  BY DEF Kept
<1> DEFINE u == SubSeq(ts, 1, c)
<1>1. u \in Seq(Tokens) /\ Len(u) = c /\ \A i \in 1 .. c : u[i] = ts[i]
  <2>1. 0 + 1 = 1 /\ c - 0 = c /\ \A i \in 1 .. c : 0 + i = i
    BY <1>0
  <2> QED
    BY <1>0, <2>1, PartOf
<1> HIDE DEF u
<1>2. Begins(u, ts) /\ Unbroken(ts, Len(u))
  BY <1>0, <1>1 DEF Begins
<1>3. Decode(ts) = Decode(u) \o After(ts, Len(u))
  BY <1>2, DecodeSplit
<1> QED
  BY <1>1, <1>3 DEF u

LEMMA CutOff ==
    ASSUME NEW S, NEW a \in Seq(S), NEW b \in Seq(S)
    PROVE  SubSeq(a \o b, Len(a) + 1, Len(a \o b)) = b
<1> DEFINE ab == a \o b
           m == Len(a)
           n == Len(b)
<1>1. ab \in Seq(S) /\ Len(ab) = m + n /\ m \in Nat /\ n \in Nat
  BY ConcatProperties, LenProperties
<1>2. \A i \in 1 .. m + n : ab[i] = IF i <= m THEN a[i] ELSE b[i - m]
  BY ConcatProperties
<1>3. \A i \in 1 .. m + n : ab[i] \in S
  BY <1>1, ElementOfSeq
<1> HIDE DEF ab, m, n
<1> DEFINE r == SubSeq(ab, m + 1, m + n)
<1>4. /\ r \in Seq(S) /\ Len(r) = IF m + 1 <= m + n THEN (m + n) - (m + 1) + 1 ELSE 0
      /\ \A i \in 1 .. (m + n) - (m + 1) + 1 : r[i] = ab[(m + 1) + i - 1]
  <2>1. m + 1 \in Int /\ m + n \in Int /\ \A i \in m + 1 .. m + n : ab[i] \in S
    BY <1>1, <1>3
  <2> QED
    BY <2>1, SubSeqProperties
<1> HIDE DEF r
<1>5. Len(r) = n /\ (m + n) - (m + 1) + 1 = n
  BY <1>1, <1>4
<1>6. ASSUME NEW i \in 1 .. n PROVE r[i] = b[i]
  <2>1. r[i] = ab[(m + 1) + i - 1] /\ (m + 1) + i - 1 = m + i
    BY <1>1, <1>4, <1>5
  <2>2. m + i \in 1 .. m + n /\ ~(m + i <= m) /\ (m + i) - m = i
    BY <1>1
  <2>3. ab[m + i] = b[(m + i) - m]
    BY <1>2, <2>2, Zenon
  <2> QED
    BY <2>1, <2>2, <2>3
<1>7. r = b
  BY <1>4, <1>5, <1>6, SeqEqual DEF n
<1> QED
  BY <1>1, <1>7 DEF r, ab, m

(* What was emitted with an alphanumeric end is emitted for good. *)
LEMMA EmitsWhole ==
    ASSUME NEW ts, NEW p, NEW c, Kept(ts, p, c), After(ts, c) # <<>>,
           Last(Decode(SubSeq(ts, p + 1, Len(ts)))) # "?"
    PROVE  Kept(ts, c, Len(ts))
<1>0. /\ ts \in Seq(Tokens) /\ p \in Nat /\ c \in Nat /\ p <= c /\ c <= Len(ts) /\ Len(ts) \in Nat
      /\ p <= Len(ts) /\ Len(ts) <= Len(ts) /\ c \in 0 .. Len(ts)
  BY LenProperties DEF Kept
<1>1. PICK s \in c + 1 .. Len(ts) : ts[s] # "eos"
  BY <1>0, AfterSeen
<1>2. Unbroken(ts, Len(ts))
  <2> SUFFICES ASSUME NEW i \in 1 .. Len(ts), ts[i] = "half1",
                      \A k \in i + 1 .. Len(ts) : ts[k] = "eos"
               PROVE  FALSE
    BY DEF Unbroken
  <2>1. s <= i
    BY <1>0, <1>1
  <2> DEFINE w == SubSeq(ts, p + 1, Len(ts))
  <2>2. w \in Seq(Tokens) /\ Len(w) = Len(ts) - p /\ \A j \in 1 .. Len(ts) - p : w[j] = ts[p + j]
    BY <1>0, PartOf
  <2>3. i - p \in 1 .. Len(ts) - p /\ p + (i - p) = i
    BY <1>0, <2>1
  <2> HIDE DEF w
  <2>4. w[i - p] = "half1"
    BY <2>2, <2>3
  <2>5. ASSUME NEW k \in (i - p) + 1 .. Len(w) PROVE w[k] = "eos"
    <3>1. k \in 1 .. Len(ts) - p /\ p + k \in i + 1 .. Len(ts)
      BY <1>0, <2>2, <2>3
    <3> QED
      BY <2>2, <3>1
  <2> DEFINE q == i - p
  <2>6. q \in 1 .. Len(w) /\ w[q] = "half1" /\ \A k \in q + 1 .. Len(w) : w[k] = "eos"
    BY <2>2, <2>3, <2>4, <2>5
  <2> HIDE DEF q
  <2>7. Last(Decode(w)) = "?"
    BY <2>2, <2>6, BrokenEnd
  <2> QED
    BY <2>7 DEF w
<1> QED
  BY <1>0, <1>1, <1>2 DEF Kept

LEMMA KeptMore ==
    ASSUME NEW ts, NEW p, NEW c, Kept(ts, p, c), NEW token \in Tokens
    PROVE  /\ Kept(Append(ts, token), p, c)
           /\ SubSeq(Append(ts, token), 1, c) = SubSeq(ts, 1, c)
<1> DEFINE more == Append(ts, token)
<1>0. /\ ts \in Seq(Tokens) /\ p \in Nat /\ c \in Nat /\ p <= c /\ c <= Len(ts) /\ Len(ts) \in Nat
      /\ Unbroken(ts, c) /\ (p = 0 \/ \E k \in p + 1 .. c : ts[k] # "eos")
  BY LenProperties DEF Kept
<1>1. /\ more \in Seq(Tokens) /\ Len(more) = Len(ts) + 1
      /\ \A i \in 1 .. Len(ts) : more[i] = ts[i]
  BY <1>0, AppendProperties
<1> HIDE DEF more
<1>2. \A i \in 1 .. c : more[i] = ts[i]
  BY <1>0, <1>1
<1>3. Unbroken(more, c)
  BY <1>0, <1>2 DEF Unbroken
<1>4. p = 0 \/ \E k \in p + 1 .. c : more[k] # "eos"
  BY <1>0, <1>2
<1>5. Kept(more, p, c)
  BY <1>0, <1>1, <1>3, <1>4 DEF Kept
<1>6. SubSeq(more, 1, c) = SubSeq(ts, 1, c)
  <2> DEFINE u == SubSeq(ts, 1, c)
             v == SubSeq(more, 1, c)
  <2>0. 0 + 1 = 1 /\ c - 0 = c /\ (\A i \in 1 .. c : 0 + i = i) /\ 0 \in Nat /\ 0 <= c /\ c <= Len(more)
    BY <1>0, <1>1
  <2>1. u \in Seq(Tokens) /\ Len(u) = c /\ \A i \in 1 .. c : u[i] = ts[i]
    BY <1>0, <2>0, PartOf
  <2>2. v \in Seq(Tokens) /\ Len(v) = c /\ \A i \in 1 .. c : v[i] = more[i]
    BY <1>0, <1>1, <2>0, PartOf
  <2> HIDE DEF u, v
  <2>3. u = v
    BY <1>2, <2>1, <2>2, SeqEqual
  <2> QED
    BY <2>3 DEF u, v
<1> QED
  BY <1>5, <1>6 DEF more

(* The same of a TokenOutputStream s, and the text of what it emitted. *)
Streaming(s) ==
    /\ s \in [tokens : Seq(Tokens), prev_index : Nat, current_index : Nat]
    /\ Kept(s.tokens, s.prev_index, s.current_index)

Settled(s) == Decode(SubSeq(s.tokens, 1, s.current_index))

LEMMA SettledIn ==
    ASSUME NEW s, Streaming(s)
    PROVE  Settled(s) \in Text
<1> DEFINE ts == s.tokens
           c == s.current_index
<1>1. ts \in Seq(Tokens) /\ c \in Nat /\ 0 <= c /\ c <= Len(ts) /\ 0 \in Nat
  BY DEF Streaming, Kept
<1> HIDE DEF ts, c
<1>2. SubSeq(ts, 0 + 1, c) \in Seq(Tokens)
  BY <1>1, PartOf
<1>3. 0 + 1 = 1
  OBVIOUS
<1>4. SubSeq(ts, 1, c) \in Seq(Tokens)
  BY <1>2, <1>3
<1> QED
  BY <1>4, DecodeIsAfter DEF Settled, ts, c

LEMMA NewTextIs ==
    ASSUME NEW s, Streaming(s)
    PROVE  /\ NewText(s) = After(s.tokens, s.current_index)
           /\ NewText(s) \in Text
           /\ Settled(s) \o NewText(s) = Decode(s.tokens)
<1> DEFINE ts == s.tokens
           p == s.prev_index
           c == s.current_index
           prev == PrevText(s)
           full == FullText(s)
           new == After(ts, c)
<1>1. Kept(ts, p, c)
  BY DEF Streaming
<1>2. /\ prev = Decode(SubSeq(ts, p + 1, c)) /\ full = Decode(SubSeq(ts, p + 1, Len(ts)))
      /\ NewText(s) = SubSeq(full, Len(prev) + 1, Len(full))
      /\ Settled(s) = Decode(SubSeq(ts, 1, c)) /\ Decode(s.tokens) = Decode(ts)
  BY DEF PrevText, FullText, NewText, Settled
<1> HIDE DEF ts, p, c, prev, full, new
<1>3. /\ ts \in Seq(Tokens) /\ c \in 0 .. Len(ts) /\ p \in Nat /\ c \in Nat /\ p <= c /\ c <= Len(ts)
      /\ Len(ts) \in Nat
  BY <1>1, LenProperties DEF Kept
<1>4. new \in Text
  BY <1>3, AfterIn DEF new
<1>5. prev \in Text
  <2>1. SubSeq(ts, p + 1, c) \in Seq(Tokens)
    BY <1>3, PartOf
  <2> QED
    BY <1>2, <2>1, DecodeIsAfter
<1>6. full = prev \o new
  BY <1>1, <1>2, ContextSuffices DEF Follows, new
<1>7. SubSeq(full, Len(prev) + 1, Len(full)) = new
  BY <1>4, <1>5, <1>6, CutOff DEF Text
<1>8. Decode(ts) = Decode(SubSeq(ts, 1, c)) \o new
  BY <1>1, AllFollows DEF new
<1>9. NewText(s) = new /\ NewText(s) \in Text /\ Settled(s) \o NewText(s) = Decode(s.tokens)
  BY <1>2, <1>4, <1>7, <1>8
<1> QED
  BY <1>9 DEF new, ts, c

(* What next_token returns follows what was emitted before, and the text   *)
(* after it is again one to which later tokens only add.                   *)
Hands(s, token, res) ==
    /\ Streaming(res.tos) /\ res.tos.tokens = Append(s.tokens, token) /\ res.text \in Text
    /\ Settled(s) \o res.text = Settled(res.tos)

LEMMA NextTokenHands ==
    ASSUME NEW s, Streaming(s), NEW token \in Tokens
    PROVE  Hands(s, token, NextToken(s, token))
<1> DEFINE pushed == [s EXCEPT !.tokens = Append(@, token)]
           moved == [pushed EXCEPT !.prev_index = ContextFrom(pushed),
                                   !.current_index = Len(pushed.tokens)]
           emits == NewText(pushed) # <<>> /\ IsAlphanumeric(Last(FullText(pushed)))
           more == Append(s.tokens, token)
           p == s.prev_index
           c == s.current_index
<1>0. /\ s \in [tokens : Seq(Tokens), prev_index : Nat, current_index : Nat]
      /\ Kept(s.tokens, p, c)
  BY DEF Streaming
<1>1. more \in Seq(Tokens) /\ p \in Nat /\ c \in Nat /\ Len(more) \in Nat
  <2>1. s.tokens \in Seq(Tokens) /\ p \in Nat /\ c \in Nat
    BY <1>0
  <2>2. more \in Seq(Tokens)
    BY <2>1, AppendProperties
  <2> QED
    BY <2>1, <2>2, LenProperties
<1>2. /\ pushed \in [tokens : Seq(Tokens), prev_index : Nat, current_index : Nat]
      /\ pushed.tokens = more /\ pushed.prev_index = p /\ pushed.current_index = c
  BY <1>0, <1>1
<1>3. Kept(more, p, c) /\ SubSeq(more, 1, c) = SubSeq(s.tokens, 1, c)
  BY <1>0, KeptMore
<1>4. /\ moved \in [tokens : Seq(Tokens), prev_index : Nat, current_index : Nat]
      /\ moved.tokens = more /\ moved.prev_index = c /\ moved.current_index = Len(more)
  <2>1. ContextFrom(pushed) = c /\ Len(pushed.tokens) = Len(more)
    BY <1>2 DEF ContextFrom
  <2> HIDE DEF pushed, more, c
  <2>2. moved = [pushed EXCEPT !.prev_index = c, !.current_index = Len(more)]
    BY <2>1
  <2> HIDE DEF moved
  <2> QED
    BY <1>1, <1>2, <2>2
<1>5. /\ NextToken(s, token).tos = IF emits THEN moved ELSE pushed
      /\ NextToken(s, token).text = IF emits THEN NewText(pushed) ELSE <<>>
  BY DEF NextToken
<1> HIDE DEF pushed, moved
<1>6. Streaming(pushed) /\ Settled(pushed) = Settled(s)
  BY <1>2, <1>3 DEF Streaming, Settled
<1>7. /\ NewText(pushed) = After(more, c) /\ NewText(pushed) \in Text
      /\ Settled(pushed) \o NewText(pushed) = Decode(more)
  BY <1>2, <1>6, NewTextIs
<1>8. CASE emits
  <2>1. /\ NextToken(s, token).tos = moved /\ NextToken(s, token).text = NewText(pushed)
    BY <1>5, <1>8
  <2>2. FullText(pushed) = Decode(SubSeq(more, p + 1, Len(more)))
    BY <1>2 DEF FullText
  <2>3. Last(Decode(SubSeq(more, p + 1, Len(more)))) # "?"
    BY <1>8, <2>2 DEF IsAlphanumeric
  <2>4. After(more, c) # <<>>
    BY <1>7, <1>8
  <2> HIDE DEF more, emits, p, c
  <2>5. Kept(more, c, Len(more))
    BY <1>3, <2>3, <2>4, EmitsWhole
  <2>6. Streaming(moved)
    BY <1>4, <2>5 DEF Streaming
  <2>7. Settled(moved) = Decode(more)
    <3>1. SubSeq(more, 1, Len(more)) = more
      BY <1>1, SubSeqFull
    <3> QED
      BY <1>4, <3>1 DEF Settled
  <2>8. moved.tokens = Append(s.tokens, token)
    BY <1>4 DEF more
  <2>9. Settled(s) \o NewText(pushed) = Settled(moved)
    BY <1>6, <1>7, <2>7
  <2> QED
    BY <1>7, <2>1, <2>6, <2>8, <2>9 DEF Hands
<1>9. CASE ~emits
  <2>1. NextToken(s, token).tos = pushed /\ NextToken(s, token).text = <<>>
    BY <1>5, <1>9
  <2>2. Settled(s) \in Text /\ <<>> \in Text
    <3>1. <<>> \in Text
      BY DEF Text
    <3> QED
      BY <3>1, SettledIn
  <2>3. Settled(s) \o <<>> = Settled(s)
    BY <2>2, ConcatEmptySeq DEF Text
  <2>4. pushed.tokens = Append(s.tokens, token)
    BY <1>2
  <2> QED
    BY <1>6, <2>1, <2>2, <2>3, <2>4 DEF Hands
<1> QED
  BY <1>8, <1>9

------------------------------------------------------------------------------
(* The way of the text: what was sent is what the client received, what    *)
(* the reader holds, what is in the stream, what the task is about to put  *)
(* there, and what it has yet to take.                                     *)

LEMMA TextConcat ==
    ASSUME NEW a \in Text, NEW b \in Text
    PROVE  a \o b \in Text
BY ConcatProperties DEF Text

LEMMA TextNone == <<>> \in Text /\ \A a \in Text : a \o <<>> = a /\ <<>> \o a = a
BY ConcatEmptySeq DEF Text

LEMMA TextRegroup ==
    ASSUME NEW a \in Text, NEW b \in Text, NEW c \in Text
    PROVE  Regrouped(a, b, c)
BY Regroup DEF Text, Three

LEMMA PrefixConcat ==
    ASSUME NEW a \in Text, NEW b \in Text
    PROVE  IsPrefix(a, a \o b)
<1> DEFINE C == {"w", "space", "char", "?", "{", "}"}
           ab == a \o b
<1>0. a \in Seq(C) /\ b \in Seq(C)
  BY DEF Text
<1> HIDE DEF C
<1>1. /\ Len(a) \in Nat /\ Len(b) \in Nat /\ Len(ab) = Len(a) + Len(b)
      /\ ab \in Seq(C)
  BY <1>0, ConcatProperties, LenProperties
<1>2. SubSeq(ab, 1, Len(a)) = SubSeq(a, 1, Len(a))
  <2>1. CASE Len(a) = 0
    <3>1. Len(a) < 1 /\ 1 \in Int /\ Len(a) \in Int
      BY <2>1
    <3> QED
      BY <3>1, SubSeqEmpty
  <2>2. CASE Len(a) # 0
    <3>1. 1 \in 1 .. Len(a) /\ Len(a) \in 1 .. Len(a)
      BY <1>1, <2>2
    <3> QED
      BY <1>0, <3>1, SubSeqOfConcat1
  <2> QED
    BY <2>1, <2>2
<1> HIDE DEF ab
<1>3. Len(a) <= Len(ab)
  BY <1>1
<1> QED
  BY <1>2, <1>3 DEF IsPrefix, ab

LEMMA PrefixRest ==
    ASSUME NEW a \in Text, NEW b \in Text, IsPrefix(a, b)
    PROVE  \E d \in Text : b = a \o d
<1> DEFINE C == {"w", "space", "char", "?", "{", "}"}
           d == SubSeq(b, Len(a) + 1, Len(b))
<1>0. a \in Seq(C) /\ b \in Seq(C)
  BY DEF Text
<1>a. \A x : x \in Seq(C) => x \in Text
  BY DEF Text
<1> HIDE DEF C
<1>1. Len(a) \in Nat /\ Len(b) \in Nat /\ Len(a) <= Len(b) /\ SubSeq(a, 1, Len(a)) = SubSeq(b, 1, Len(a))
  BY <1>0, LenProperties DEF IsPrefix
<1>2. SubSeq(a, 1, Len(a)) = a /\ SubSeq(b, 1, Len(b)) = b
  BY <1>0, SubSeqFull
<1>3. SubSeq(b, 1, Len(a)) \o SubSeq(b, Len(a) + 1, Len(b)) = SubSeq(b, 1, Len(b))
  <2>1. 1 \in 1 .. Len(b) + 1 /\ Len(a) \in 1 - 1 .. Len(b) /\ Len(b) \in Len(a) .. Len(b)
    BY <1>1
  <2> QED
    BY <1>0, <2>1, ConcatAdjacentSubSeq
<1>4. d \in Seq(C)
  <2>1. /\ Len(a) + 1 \in Int /\ Len(b) \in Int
        /\ \A i \in Len(a) + 1 .. Len(b) : b[i] \in C
    <3>1. \A i \in 1 .. Len(b) : b[i] \in C
      BY <1>0, ElementOfSeq
    <3> QED
      BY <1>1, <3>1
  <2> QED
    BY <2>1, SubSeqProperties
<1> QED
  BY <1>1, <1>2, <1>3, <1>4, <1>a

LEMMA PrefixMore ==
    ASSUME NEW a \in Text, NEW b \in Text, NEW x \in Text, IsPrefix(a, b)
    PROVE  IsPrefix(a, b \o x)
<1>1. PICK d \in Text : b = a \o d
  BY PrefixRest
<1>2. Regrouped(a, d, x)
  BY TextRegroup
<1>3. (a \o d) \o x = a \o (d \o x)
  BY <1>2 DEF Regrouped
<1>4. d \o x \in Text
  BY TextConcat
<1>5. IsPrefix(a, a \o (d \o x))
  BY <1>4, PrefixConcat
<1> QED
  BY <1>1, <1>3, <1>5

Whole(r, u, s, o, m) == (((r \o u) \o s) \o o) \o m

AllText(r, u, s, o, m) == r \in Text /\ u \in Text /\ s \in Text /\ o \in Text /\ m \in Text

LEMMA WholeIn ==
    ASSUME NEW r, NEW u, NEW s, NEW o, NEW m, AllText(r, u, s, o, m)
    PROVE  Whole(r, u, s, o, m) \in Text /\ IsPrefix(r, Whole(r, u, s, o, m))
<1>0. r \in Text /\ u \in Text /\ s \in Text /\ o \in Text /\ m \in Text
  BY DEF AllText
<1>1. r \o u \in Text /\ IsPrefix(r, r \o u)
  BY <1>0, TextConcat, PrefixConcat
<1>2. (r \o u) \o s \in Text /\ IsPrefix(r, (r \o u) \o s)
  BY <1>0, <1>1, TextConcat, PrefixMore
<1>3. ((r \o u) \o s) \o o \in Text /\ IsPrefix(r, ((r \o u) \o s) \o o)
  BY <1>0, <1>2, TextConcat, PrefixMore
<1>4. (((r \o u) \o s) \o o) \o m \in Text /\ IsPrefix(r, (((r \o u) \o s) \o o) \o m)
  BY <1>0, <1>3, TextConcat, PrefixMore
<1> QED
  BY <1>4 DEF Whole

(* The task takes h from its channel. *)
LEMMA WholeRecv ==
    ASSUME NEW r, NEW u, NEW s, NEW h, NEW t, AllText(r, u, s, h, t)
    PROVE  Whole(r, u, s, <<>>, h \o t) = Whole(r, u, s, h, t)
<1>0. r \in Text /\ u \in Text /\ s \in Text /\ h \in Text /\ t \in Text
  BY DEF AllText
<1> DEFINE x == (r \o u) \o s
<1>1. x \in Text
  BY <1>0, TextConcat
<1> HIDE DEF x
<1>2. Regrouped(x, h, t) /\ x \o <<>> = x
  BY <1>0, <1>1, TextRegroup, TextNone
<1>3. (x \o <<>>) \o (h \o t) = (x \o h) \o t
  BY <1>2 DEF Regrouped
<1> QED
  BY <1>3 DEF Whole, x

(* The task puts what it has on the stream. *)
LEMMA WholeSend ==
    ASSUME NEW r, NEW u, NEW s, NEW o, NEW m, AllText(r, u, s, o, m)
    PROVE  Whole(r, u, s \o o, <<>>, m) = Whole(r, u, s, o, m)
<1>0. r \in Text /\ u \in Text /\ s \in Text /\ o \in Text /\ m \in Text
  BY DEF AllText
<1> DEFINE x == r \o u
<1>1. x \in Text /\ s \o o \in Text
  BY <1>0, TextConcat
<1> HIDE DEF x
<1>2. Regrouped(x, s, o) /\ x \o (s \o o) \in Text
  BY <1>0, <1>1, TextRegroup, TextConcat
<1>3. (x \o (s \o o)) \o <<>> = x \o (s \o o)
  BY <1>2, TextNone
<1>4. (x \o s) \o o = (x \o (s \o o)) \o <<>>
  BY <1>2, <1>3 DEF Regrouped
<1> QED
  BY <1>4 DEF Whole, x

(* The reader hands out a of what it holds. *)
LEMMA WholeRead ==
    ASSUME NEW r, NEW a, NEW b, NEW s, NEW o, NEW m, r \in Text, a \in Text, b \in Text
    PROVE  Whole(r \o a, b, s, o, m) = Whole(r, a \o b, s, o, m)
<1>1. Regrouped(r, a, b)
  BY TextRegroup
<1> QED
  BY <1>1 DEF Whole, Regrouped

(* The reader takes h from the stream. *)
LEMMA WholeNext ==
    ASSUME NEW r, NEW h, NEW s, NEW o, NEW m, r \in Text, h \in Text, s \in Text
    PROVE  Whole(r, h, s, o, m) = Whole(r, <<>>, h \o s, o, m)
<1>1. Regrouped(r, h, s) /\ r \o <<>> = r
  BY TextRegroup, TextNone
<1> QED
  BY <1>1 DEF Whole, Regrouped

(* The loop sends x. *)
LEMMA WholeAdd ==
    ASSUME NEW r, NEW u, NEW s, NEW o, NEW x, AllText(r, u, s, o, x)
    PROVE  Whole(r, u, s, o, <<>>) \o x = Whole(r, u, s, o, x)
<1>0. r \in Text /\ u \in Text /\ s \in Text /\ o \in Text /\ x \in Text
  BY DEF AllText
<1> DEFINE z == ((r \o u) \o s) \o o
<1>1. z \in Text
  BY <1>0, TextConcat
<1> HIDE DEF z
<1>2. z \o <<>> = z
  BY <1>1, TextNone
<1>3. (z \o <<>>) \o x = z \o x
  BY <1>2
<1> QED
  BY <1>3 DEF Whole, z

LEMMA WholeOver ==
    ASSUME NEW r \in Text
    PROVE  Whole(r, <<>>, <<>>, <<>>, <<>>) = r
BY TextNone DEF Whole

(* The messages of some texts. *)
MessageOf(plain, text) == IF plain THEN text ELSE <<"{">> \o text \o <<"}">>

MessagesOf(plain, texts) == FlattenSeq([i \in DOMAIN texts |-> MessageOf(plain, texts[i])])

LEMMA MessageIn ==
    ASSUME NEW plain, NEW text \in Text
    PROVE  MessageOf(plain, text) \in Text
<1>0. \A S : \A x \in S : <<x>> \in Seq(S)
  OBVIOUS
<1>1. <<"{">> \in Text /\ <<"}">> \in Text
  BY <1>0, Zenon DEF Text
<1>2. <<"{">> \o text \in Text
  BY <1>1, TextConcat
<1>3. (<<"{">> \o text) \o <<"}">> \in Text
  BY <1>1, <1>2, TextConcat
<1> QED
  BY <1>3 DEF MessageOf

Wrapped(plain, texts) == [i \in DOMAIN texts |-> MessageOf(plain, texts[i])]

LEMMA WrappedIn ==
    ASSUME NEW plain, NEW texts \in Seq(Text)
    PROVE  /\ Wrapped(plain, texts) \in Seq(Text) /\ Len(Wrapped(plain, texts)) = Len(texts)
           /\ \A i \in 1 .. Len(texts) : Wrapped(plain, texts)[i] = MessageOf(plain, texts[i])
<1>1. Len(texts) \in Nat /\ DOMAIN texts = 1 .. Len(texts) /\ \A i \in 1 .. Len(texts) : texts[i] \in Text
  BY LenProperties, ElementOfSeq
<1>2. \A i \in 1 .. Len(texts) : MessageOf(plain, texts[i]) \in Text
  BY <1>1, MessageIn
<1>3. Wrapped(plain, texts) \in [1 .. Len(texts) -> Text]
  BY <1>1, <1>2 DEF Wrapped
<1>4. \A i \in 1 .. Len(texts) : Wrapped(plain, texts)[i] = MessageOf(plain, texts[i])
  BY <1>1 DEF Wrapped
<1> QED
  BY <1>1, <1>3, <1>4

LEMMA MessagesIn ==
    ASSUME NEW plain, NEW texts \in Seq(Text)
    PROVE  MessagesOf(plain, texts) = FlattenSeq(Wrapped(plain, texts)) /\ MessagesOf(plain, texts) \in Text
<1>1. Wrapped(plain, texts) \in Seq(Text)
  BY WrappedIn
<1>2. FlattenSeq(Wrapped(plain, texts)) \in Text
  BY <1>1, FlattenSeqIn DEF Text
<1> QED
  BY <1>2 DEF MessagesOf, Wrapped

LEMMA MessagesNone ==
    ASSUME NEW plain
    PROVE  MessagesOf(plain, <<>>) = <<>>
<1>1. <<>> \in Seq(Text) /\ Len(<<>>) = 0
  OBVIOUS
<1> DEFINE w == Wrapped(plain, <<>>)
<1>2. w \in Seq(Text) /\ Len(w) = 0
  BY <1>1, WrappedIn
<1> HIDE DEF w
<1>3. w = <<>>
  BY <1>2
<1> QED
  BY <1>1, <1>3, MessagesIn, FlattenNothing DEF w

LEMMA MessagesAppend ==
    ASSUME NEW plain, NEW texts \in Seq(Text), NEW x \in Text
    PROVE  MessagesOf(plain, Append(texts, x)) = MessagesOf(plain, texts) \o MessageOf(plain, x)
<1> DEFINE more == Append(texts, x)
           a == Wrapped(plain, texts)
           b == Wrapped(plain, more)
           y == MessageOf(plain, x)
           ay == Append(a, y)
<1>1. /\ more \in Seq(Text) /\ Len(more) = Len(texts) + 1 /\ more[Len(texts) + 1] = x
      /\ \A i \in 1 .. Len(texts) : more[i] = texts[i]
      /\ Len(texts) \in Nat
  BY AppendProperties, LenProperties
<1> HIDE DEF more
<1>2. y \in Text
  BY MessageIn
<1>3. /\ a \in Seq(Text) /\ Len(a) = Len(texts)
      /\ \A i \in 1 .. Len(texts) : a[i] = MessageOf(plain, texts[i])
  BY WrappedIn
<1>4. /\ b \in Seq(Text) /\ Len(b) = Len(texts) + 1
      /\ \A i \in 1 .. Len(texts) + 1 : b[i] = MessageOf(plain, more[i])
  BY <1>1, WrappedIn
<1>y. y = MessageOf(plain, x)
  OBVIOUS
<1> HIDE DEF a, b, y
<1>5. /\ ay \in Seq(Text) /\ Len(ay) = Len(texts) + 1 /\ ay[Len(texts) + 1] = y
      /\ \A i \in 1 .. Len(texts) : ay[i] = a[i]
  BY <1>2, <1>3, AppendProperties
<1> HIDE DEF ay
<1>6. ASSUME NEW i \in 1 .. Len(b) PROVE b[i] = ay[i]
  <2>1. CASE i \in 1 .. Len(texts)
    BY <1>1, <1>3, <1>4, <1>5, <2>1
  <2>2. CASE i = Len(texts) + 1
    BY <1>1, <1>4, <1>5, <1>y, <2>2
  <2> QED
    BY <1>1, <1>4, <2>1, <2>2
<1>7. b = ay
  BY <1>4, <1>5, <1>6, SeqEqual
<1>8. FlattenSeq(ay) = FlattenSeq(a) \o y
  BY <1>2, <1>3, FlattenAppend DEF ay, Text
<1>9. MessagesOf(plain, texts) = FlattenSeq(a) /\ MessagesOf(plain, more) = FlattenSeq(b)
  BY <1>1, MessagesIn DEF a, b
<1> QED
  BY <1>7, <1>8, <1>9 DEF more, y

LEMMA MessagesHead ==
    ASSUME NEW plain, NEW texts \in Seq(Text), texts # <<>>
    PROVE  MessagesOf(plain, texts) = MessageOf(plain, Head(texts)) \o MessagesOf(plain, Tail(texts))
<1> DEFINE rest == Tail(texts)
           a == Wrapped(plain, texts)
           b == Wrapped(plain, rest)
           ta == Tail(a)
<1>1. /\ rest \in Seq(Text) /\ Len(rest) = Len(texts) - 1
      /\ \A i \in 1 .. Len(rest) : rest[i] = texts[i + 1]
      /\ Len(texts) \in Nat \ {0} /\ Head(texts) = texts[1]
  BY HeadTailProperties, EmptySeq
<1> HIDE DEF rest
<1>3. /\ a \in Seq(Text) /\ Len(a) = Len(texts)
      /\ \A i \in 1 .. Len(texts) : a[i] = MessageOf(plain, texts[i])
  BY WrappedIn
<1>4. /\ b \in Seq(Text) /\ Len(b) = Len(rest)
      /\ \A i \in 1 .. Len(rest) : b[i] = MessageOf(plain, rest[i])
  BY <1>1, WrappedIn
<1> HIDE DEF a, b
<1>5. a # <<>> /\ Head(a) = MessageOf(plain, Head(texts))
  BY <1>1, <1>3
<1>6. /\ ta \in Seq(Text) /\ Len(ta) = Len(texts) - 1
      /\ \A i \in 1 .. Len(ta) : ta[i] = a[i + 1]
  BY <1>3, <1>5, HeadTailProperties
<1> HIDE DEF ta
<1>7. ASSUME NEW i \in 1 .. Len(b) PROVE b[i] = ta[i]
  <2>1. i \in 1 .. Len(rest) /\ i \in 1 .. Len(ta) /\ i + 1 \in 1 .. Len(texts)
    BY <1>1, <1>4, <1>6
  <2>2. b[i] = MessageOf(plain, texts[i + 1])
    BY <1>1, <1>4, <2>1
  <2> QED
    BY <1>3, <1>6, <2>1, <2>2
<1>8. b = ta
  BY <1>1, <1>4, <1>6, <1>7, SeqEqual
<1>9. FlattenSeq(a) = Head(a) \o FlattenSeq(ta)
  BY <1>3, <1>5, FlattenHead DEF ta, Text
<1>10. MessagesOf(plain, texts) = FlattenSeq(a) /\ MessagesOf(plain, rest) = FlattenSeq(b)
  BY <1>1, MessagesIn DEF a, b
<1> QED
  BY <1>5, <1>8, <1>9, <1>10 DEF rest

(* What of its buffer a reader has not handed out. *)
Unread(rd) == SubSeq(rd.buffer, rd.offset + 1, Len(rd.buffer))

LEMMA UnreadIn ==
    ASSUME NEW b \in Text, NEW o \in Nat, NEW e \in Nat, o <= e, e <= Len(b)
    PROVE  /\ SubSeq(b, o + 1, e) \in Text /\ SubSeq(b, e + 1, Len(b)) \in Text
           /\ SubSeq(b, o + 1, e) \o SubSeq(b, e + 1, Len(b)) = SubSeq(b, o + 1, Len(b))
           /\ e = Len(b) => SubSeq(b, e + 1, Len(b)) = <<>>
<1> DEFINE C == {"w", "space", "char", "?", "{", "}"}
<1>0. b \in Seq(C) /\ \A x : x \in Seq(C) => x \in Text
  BY DEF Text
<1> HIDE DEF C
<1>1. Len(b) \in Nat /\ \A i \in 1 .. Len(b) : b[i] \in C
  BY <1>0, LenProperties, ElementOfSeq
<1>2. /\ o + 1 \in Int /\ e \in Int /\ e + 1 \in Int /\ Len(b) \in Int
      /\ \A i \in o + 1 .. e : b[i] \in C
      /\ \A i \in e + 1 .. Len(b) : b[i] \in C
  BY <1>1
<1>3. SubSeq(b, o + 1, e) \in Seq(C) /\ SubSeq(b, e + 1, Len(b)) \in Seq(C)
  BY <1>2, SubSeqProperties
<1>4. SubSeq(b, o + 1, e) \o SubSeq(b, e + 1, Len(b)) = SubSeq(b, o + 1, Len(b))
  <2>1. o + 1 \in 1 .. Len(b) + 1 /\ e \in (o + 1) - 1 .. Len(b) /\ Len(b) \in e .. Len(b)
    BY <1>1
  <2> QED
    BY <1>0, <2>1, ConcatAdjacentSubSeq
<1>5. e = Len(b) => SubSeq(b, e + 1, Len(b)) = <<>>
  <2>1. e = Len(b) => Len(b) < e + 1
    BY <1>1
  <2> QED
    BY <1>2, <2>1, SubSeqEmpty
<1> QED
  BY <1>0, <1>3, <1>4, <1>5

PipeTypes ==
    /\ answer \in Seq(Text) /\ Len(answer) <= 1
    /\ forwarder \in [pc : {"recv", "send", "ended"}, out : Text]
    /\ stream \in Seq(Text) /\ Len(stream) <= STREAM_CAP
    /\ reader \in [buffer : Text, offset : Nat] /\ reader.offset <= Len(reader.buffer)
    /\ client \in {"reading", "eof", "gone"}
    /\ received \in Text /\ sent \in Seq(Text)

(* Nothing is lost on the way before the client has gone. *)
Piped ==
    /\ client = "gone" => IsPrefix(received, MessagesOf(plain_text, sent))
    /\ client # "gone" =>
          MessagesOf(plain_text, sent) =
              Whole(received, Unread(reader), FlattenSeq(stream), forwarder.out,
                    MessagesOf(plain_text, answer))
    /\ forwarder.pc # "send" => forwarder.out = <<>>
    /\ forwarder.pc = "ended" => answer = <<>>
    /\ client = "eof" => forwarder.pc = "ended" /\ stream = <<>> /\ reader.buffer = <<>>

PipeInv == PipeTypes /\ Piped

LEMMA UnreadText ==
    ASSUME NEW rd \in [buffer : Text, offset : Nat], rd.offset <= Len(rd.buffer)
    PROVE  Unread(rd) \in Text /\ (rd.buffer = <<>> => Unread(rd) = <<>>)
<1> DEFINE b == rd.buffer
           o == rd.offset
<1>1. b \in Text /\ o \in Nat /\ o <= Len(b)
  OBVIOUS
<1> HIDE DEF b, o
<1>0. Len(b) \in Nat
  BY <1>1, LenProperties DEF Text
<1>2. Len(b) \in Nat /\ Len(b) <= Len(b)
  BY <1>0
<1>3. SubSeq(b, o + 1, Len(b)) \in Text
  BY <1>1, <1>2, UnreadIn
<1>4. b = <<>> => SubSeq(b, o + 1, Len(b)) = <<>>
  <2>1. b = <<>> => Len(b) = 0
    OBVIOUS
  <2>2. b = <<>> => o = Len(b)
    BY <1>1, <2>1
  <2> QED
    BY <1>1, <1>2, <2>2, UnreadIn
<1> QED
  BY <1>3, <1>4 DEF Unread, b, o

LEMMA PipeTexts ==
    ASSUME PipeTypes
    PROVE  /\ AllText(received, Unread(reader), FlattenSeq(stream), forwarder.out,
                      MessagesOf(plain_text, answer))
           /\ MessagesOf(plain_text, sent) \in Text
<1>1. Unread(reader) \in Text
  BY UnreadText DEF PipeTypes
<1>2. FlattenSeq(stream) \in Text
  BY FlattenSeqIn DEF PipeTypes, Text
<1>3. MessagesOf(plain_text, answer) \in Text /\ MessagesOf(plain_text, sent) \in Text
  BY MessagesIn DEF PipeTypes
<1>4. received \in Text /\ forwarder.out \in Text
  BY DEF PipeTypes
<1> QED
  BY <1>1, <1>2, <1>3, <1>4 DEF AllText

LEMMA PipeInit == Init => PipeInv
<1> SUFFICES ASSUME Init PROVE PipeInv
  OBVIOUS
<1>1. PipeTypes
  <2>1. <<>> \in Text /\ <<>> \in Seq(Text) /\ Len(<<>>) = 0 /\ STREAM_CAP \in Nat
    BY LoopAssumption DEF Text
  <2> QED
    BY <2>1 DEF Init, PipeTypes
<1>2. FlattenSeq(stream) = <<>> /\ MessagesOf(plain_text, sent) = <<>> /\ MessagesOf(plain_text, answer) = <<>>
  BY FlattenNothing, MessagesNone DEF Init
<1>3. Unread(reader) = <<>>
  BY <1>1, UnreadText DEF Init, PipeTypes
<1>4. Whole(<<>>, <<>>, <<>>, <<>>, <<>>) = <<>>
  BY TextNone, WholeOver
<1> QED
  BY <1>1, <1>2, <1>3, <1>4 DEF PipeInv, Piped, Init

(* A step that leaves the way of the text alone. *)
LEMMA PipeRests ==
    ASSUME PipeInv, UNCHANGED <<plain_text, answer, pipe, sent>>
    PROVE  PipeInv'
BY DEF PipeInv, PipeTypes, Piped, pipe

LEMMA PipeSendPiece ==
    ASSUME PipeInv, piece.text \in Text, SendPiece, UNCHANGED <<request, pipe>>
    PROVE  PipeInv'
<1> DEFINE x == piece.text
           y == MessageOf(plain_text, x)
           M == MessagesOf(plain_text, sent)
<1>0. /\ answer = <<>> /\ answer' = <<x>> /\ sent' = Append(sent, x) /\ forwarder.pc # "ended"
      /\ plain_text' = plain_text /\ UNCHANGED pipe
  BY DEF SendPiece, request
<1>1. x \in Text /\ y \in Text /\ sent \in Seq(Text)
  BY MessageIn DEF PipeInv, PipeTypes
<1>2. PipeTypes'
  <2>1. <<x>> \in Seq(Text) /\ Len(<<x>>) <= 1 /\ Append(sent, x) \in Seq(Text)
    BY <1>1, AppendProperties
  <2> HIDE DEF x
  <2> QED
    BY <1>0, <2>1 DEF PipeInv, PipeTypes, pipe
<1>3. MessagesOf(plain_text', sent') = M \o y
  BY <1>0, <1>1, MessagesAppend
<1>4. MessagesOf(plain_text', answer') = y
  <2>1. <<>> \in Seq(Text) /\ <<x>> = Append(<<>>, x)
    OBVIOUS
  <2>2. MessagesOf(plain_text, Append(<<>>, x)) = MessagesOf(plain_text, <<>>) \o y
    BY <1>1, <2>1, MessagesAppend
  <2> QED
    BY <1>0, <1>1, <2>1, <2>2, MessagesNone, TextNone
<1>5. PipeTypes /\ Piped
  BY DEF PipeInv
<1>6. M \in Text /\ received \in Text
  BY <1>5, PipeTexts DEF PipeTypes
<1> HIDE DEF x, y, M
<1>7. client = "gone" => IsPrefix(received, M \o y)
  <2>1. client = "gone" => IsPrefix(received, M)
    BY <1>5 DEF Piped, M
  <2> QED
    BY <1>1, <1>6, <2>1, PrefixMore
<1>8. client # "gone" => M \o y = Whole(received, Unread(reader), FlattenSeq(stream), forwarder.out, y)
  <2>1. client # "gone" => M = Whole(received, Unread(reader), FlattenSeq(stream), forwarder.out, <<>>)
    BY <1>0, <1>5, MessagesNone DEF Piped, M
  <2>2. AllText(received, Unread(reader), FlattenSeq(stream), forwarder.out, y)
    BY <1>1, <1>5, PipeTexts DEF AllText
  <2>3. Whole(received, Unread(reader), FlattenSeq(stream), forwarder.out, <<>>) \o y
            = Whole(received, Unread(reader), FlattenSeq(stream), forwarder.out, y)
    BY <2>2, WholeAdd
  <2> QED
    BY <2>1, <2>3
<1>9. Piped'
  BY <1>0, <1>3, <1>4, <1>5, <1>7, <1>8 DEF Piped, pipe
<1> QED
  BY <1>2, <1>9 DEF PipeInv

LEMMA PipeForwarderRecv ==
    ASSUME PipeInv, ForwarderRecv
    PROVE  PipeInv'
<1> DEFINE h == MessageOf(plain_text, Head(answer))
           t == MessagesOf(plain_text, Tail(answer))
           s == FlattenSeq(stream)
           u == Unread(reader)
<1>0. /\ answer # <<>> /\ answer' = Tail(answer) /\ forwarder.pc = "recv"
      /\ forwarder' = [pc |-> "send", out |-> h]
      /\ UNCHANGED <<plain_text, sent, stream, reader, client, received>>
  BY DEF ForwarderRecv, request, loop, Message, MessageOf
<1>1. PipeTypes /\ Piped
  BY DEF PipeInv
<1>2. answer \in Seq(Text) /\ Len(answer) <= 1
  BY <1>1 DEF PipeTypes
<1>3. /\ Head(answer) \in Text /\ Tail(answer) \in Seq(Text) /\ Len(Tail(answer)) = Len(answer) - 1
      /\ Len(answer) \in Nat
  BY <1>0, <1>2, HeadTailProperties, LenProperties
<1>4. h \in Text /\ t \in Text
  BY <1>3, MessageIn, MessagesIn
<1>5. MessagesOf(plain_text, answer) = h \o t
  BY <1>0, <1>2, MessagesHead
<1>6. AllText(received, u, s, h, t)
  BY <1>1, <1>4, PipeTexts DEF AllText
<1>7. client # "gone" => MessagesOf(plain_text, sent) = Whole(received, u, s, <<>>, h \o t)
  BY <1>0, <1>1, <1>5 DEF Piped
<1> HIDE DEF h, t, s, u
<1>8. Whole(received, u, s, <<>>, h \o t) = Whole(received, u, s, h, t)
  BY <1>6, WholeRecv
<1>9. PipeTypes'
  <2>1. [pc |-> "send", out |-> h] \in [pc : {"recv", "send", "ended"}, out : Text]
    BY <1>4
  <2>2. Len(Tail(answer)) <= 1
    BY <1>2, <1>3
  <2> QED
    BY <1>0, <1>1, <1>3, <2>1, <2>2 DEF PipeTypes
<1>10. Piped'
  <2>1. forwarder'.pc = "send" /\ forwarder'.out = h
    BY <1>0
  <2>2. client # "gone" => MessagesOf(plain_text', sent') =
              Whole(received', Unread(reader'), FlattenSeq(stream'), forwarder'.out,
                    MessagesOf(plain_text', answer'))
    BY <1>0, <1>7, <1>8, <2>1 DEF t, s, u
  <2>3. client # "eof"
    BY <1>0, <1>1 DEF Piped
  <2> QED
    BY <1>0, <1>1, <2>1, <2>2, <2>3 DEF Piped
<1> QED
  BY <1>9, <1>10 DEF PipeInv

LEMMA PipeForwarderSend ==
    ASSUME PipeInv, ForwarderSend
    PROVE  PipeInv'
<1> DEFINE o == forwarder.out
           m == MessagesOf(plain_text, answer)
           s == FlattenSeq(stream)
           u == Unread(reader)
<1>0. /\ forwarder.pc = "send" /\ client # "gone" /\ Len(stream) < STREAM_CAP
      /\ stream' = Append(stream, o) /\ forwarder' = [pc |-> "recv", out |-> <<>>]
      /\ UNCHANGED <<plain_text, sent, answer, reader, client, received>>
  BY DEF ForwarderSend, request, loop, HasRoom
<1>1. PipeTypes /\ Piped
  BY DEF PipeInv
<1>2. stream \in Seq(Text) /\ o \in Text
  BY <1>1 DEF PipeTypes
<1>3. FlattenSeq(stream') = s \o o
  BY <1>0, <1>2, FlattenAppend DEF Text
<1>4. AllText(received, u, s, o, m)
  BY <1>1, PipeTexts
<1>5. MessagesOf(plain_text, sent) = Whole(received, u, s, o, m)
  BY <1>0, <1>1 DEF Piped
<1>6. stream' \in Seq(Text) /\ Len(stream') <= STREAM_CAP
  <2>1. stream' \in Seq(Text) /\ Len(stream') = Len(stream) + 1 /\ Len(stream) \in Nat /\ STREAM_CAP \in Nat
    BY <1>0, <1>2, AppendProperties, LenProperties, LoopAssumption
  <2> QED
    BY <1>0, <2>1
<1> HIDE DEF o, m, s, u
<1>7. Whole(received, u, s \o o, <<>>, m) = Whole(received, u, s, o, m)
  BY <1>4, WholeSend
<1>8. PipeTypes'
  <2>1. [pc |-> "recv", out |-> <<>>] \in [pc : {"recv", "send", "ended"}, out : Text]
    BY TextNone
  <2> QED
    BY <1>0, <1>1, <1>6, <2>1 DEF PipeTypes
<1>9. Piped'
  <2>1. forwarder'.pc = "recv" /\ forwarder'.out = <<>>
    BY <1>0
  <2>2. MessagesOf(plain_text', sent') =
              Whole(received', Unread(reader'), FlattenSeq(stream'), forwarder'.out,
                    MessagesOf(plain_text', answer'))
    BY <1>0, <1>3, <1>5, <1>7, <2>1 DEF m, u
  <2>3. client # "eof"
    BY <1>0, <1>1 DEF Piped
  <2> QED
    BY <1>0, <1>1, <2>1, <2>2, <2>3 DEF Piped
<1> QED
  BY <1>8, <1>9 DEF PipeInv

LEMMA PipeForwarderEnds ==
    ASSUME PipeInv, ForwarderClosed \/ ForwarderErr
    PROVE  PipeInv'
<1>1. PipeTypes /\ Piped
  BY DEF PipeInv
<1>2. /\ UNCHANGED <<plain_text, sent, stream, reader, client, received>>
      /\ forwarder'.pc = "ended" /\ forwarder'.out = <<>> /\ answer' = <<>>
      /\ answer' = answer \/ client = "gone"
      /\ forwarder'.out = forwarder.out \/ client = "gone"
      /\ forwarder' \in [pc : {"recv", "send", "ended"}, out : Text]
  <2>1. CASE ForwarderErr
    BY <2>1, TextNone DEF ForwarderErr, request, loop
  <2>2. CASE ForwarderClosed
    <3>1. forwarder' = [forwarder EXCEPT !.pc = "ended"] /\ forwarder.pc = "recv"
      BY <2>2 DEF ForwarderClosed
    <3>2. forwarder \in [pc : {"recv", "send", "ended"}, out : Text] /\ forwarder.out = <<>>
      BY <1>1, <3>1 DEF PipeTypes, Piped
    <3> QED
      BY <2>2, <3>1, <3>2 DEF ForwarderClosed, request, loop
  <2> QED
    BY <2>1, <2>2
<1>3. PipeTypes'
  <2>1. <<>> \in Seq(Text) /\ Len(<<>>) <= 1
    OBVIOUS
  <2> QED
    BY <1>1, <1>2, <2>1 DEF PipeTypes
<1>4. Piped'
  BY <1>1, <1>2 DEF Piped
<1> QED
  BY <1>3, <1>4 DEF PipeInv

LEMMA PipeLeave ==
    ASSUME PipeInv, Leave
    PROVE  PipeInv'
<1>0. /\ client # "gone" /\ client' = "gone" /\ stream' = <<>> /\ reader' = [buffer |-> <<>>, offset |-> 0]
      /\ UNCHANGED <<plain_text, sent, answer, forwarder, received>>
  BY DEF Leave, request, loop
<1>1. PipeTypes /\ Piped
  BY DEF PipeInv
<1>2. PipeTypes'
  <2>1. /\ <<>> \in Seq(Text) /\ Len(<<>>) = 0 /\ STREAM_CAP \in Nat
        /\ reader' \in [buffer : Text, offset : Nat] /\ reader'.offset = 0 /\ reader'.buffer = <<>>
    BY <1>0, TextNone, LoopAssumption
  <2> QED
    BY <1>0, <1>1, <2>1 DEF PipeTypes
<1>3. IsPrefix(received, MessagesOf(plain_text, sent))
  <2>1. AllText(received, Unread(reader), FlattenSeq(stream), forwarder.out,
                MessagesOf(plain_text, answer))
    BY <1>1, PipeTexts
  <2>2. IsPrefix(received, Whole(received, Unread(reader), FlattenSeq(stream), forwarder.out,
                                 MessagesOf(plain_text, answer)))
    BY <2>1, WholeIn
  <2> QED
    BY <1>0, <1>1, <2>2 DEF Piped
<1>4. Piped'
  BY <1>0, <1>1, <1>3 DEF Piped
<1> QED
  BY <1>2, <1>4 DEF PipeInv

LEMMA PipePollReadEof ==
    ASSUME PipeInv, PollReadEof
    PROVE  PipeInv'
<1>0. /\ client = "reading" /\ client' = "eof" /\ reader.buffer = <<>> /\ stream = <<>>
      /\ forwarder.pc = "ended"
      /\ UNCHANGED <<plain_text, sent, answer, forwarder, stream, reader, received>>
  BY DEF PollReadEof, request, loop
<1>1. PipeTypes'
  BY <1>0 DEF PipeInv, PipeTypes
<1>2. Piped'
  BY <1>0 DEF PipeInv, Piped
<1> QED
  BY <1>1, <1>2 DEF PipeInv

(* A read: the reader has the text `b`, of which `o` bytes are handed out, *)
(* and hands out up to the byte `e`.                                       *)
LEMMA PipePollRead ==
    ASSUME PipeInv, NEW room \in Rooms, PollRead(room)
    PROVE  PipeInv'
<1> DEFINE from == IF reader.buffer # <<>> THEN reader ELSE [buffer |-> Head(stream), offset |-> 0]
           b == from.buffer
           o == from.offset
           e == IF o + room < Len(b) THEN o + room ELSE Len(b)
           u == Unread(reader)
           s == FlattenSeq(stream)
           s2 == FlattenSeq(stream')
           m == MessagesOf(plain_text, answer)
           out == forwarder.out
<1>0. /\ client = "reading" /\ (reader.buffer # <<>> \/ stream # <<>>)
      /\ stream' = IF reader.buffer # <<>> THEN stream ELSE Tail(stream)
      /\ received' = received \o SubSeq(b, o + 1, e)
      /\ reader' = IF e = Len(b) THEN [buffer |-> <<>>, offset |-> 0] ELSE [from EXCEPT !.offset = e]
      /\ UNCHANGED <<plain_text, sent, answer, forwarder, client>>
  BY DEF PollRead, request, loop
<1>1. PipeTypes /\ Piped
  BY DEF PipeInv
<1>2. /\ reader \in [buffer : Text, offset : Nat] /\ reader.offset <= Len(reader.buffer)
      /\ stream \in Seq(Text) /\ Len(stream) <= STREAM_CAP
      /\ received \in Text /\ room \in Nat /\ STREAM_CAP \in Nat
  BY <1>1, LoopAssumption DEF PipeTypes
<1>3. /\ from \in [buffer : Text, offset : Nat] /\ o <= Len(b)
      /\ stream' \in Seq(Text) /\ Len(stream') <= STREAM_CAP
  <2>1. CASE reader.buffer # <<>>
    BY <1>0, <1>2, <2>1
  <2>2. CASE reader.buffer = <<>>
    <3>1. /\ Head(stream) \in Text /\ Tail(stream) \in Seq(Text) /\ Len(Tail(stream)) = Len(stream) - 1
          /\ Len(stream) \in Nat
      BY <1>0, <1>2, <2>2, HeadTailProperties, LenProperties
    <3>2. from = [buffer |-> Head(stream), offset |-> 0] /\ stream' = Tail(stream)
      BY <1>0, <2>2
    <3>3. Len(Head(stream)) \in Nat
      BY <3>1, LenProperties DEF Text
    <3> HIDE DEF from
    <3> QED
      BY <1>2, <3>1, <3>2, <3>3
  <2> QED
    BY <2>1, <2>2
<1>4. u \in Text /\ s \in Text /\ out \in Text /\ m \in Text /\ s2 \in Text
  <2>1. AllText(received, u, s, out, m)
    BY <1>1, PipeTexts
  <2>2. s2 \in Text
    BY <1>3, FlattenSeqIn DEF Text
  <2> QED
    BY <2>1, <2>2 DEF AllText
<1>5. Whole(received, u, s, out, m) = Whole(received, Unread(from), s2, out, m)
  <2>1. CASE reader.buffer # <<>>
    BY <1>0, <2>1
  <2>2. CASE reader.buffer = <<>>
    <3>1. from = [buffer |-> Head(stream), offset |-> 0] /\ stream' = Tail(stream) /\ stream # <<>>
      BY <1>0, <2>2
    <3>2. u = <<>>
      BY <1>2, <2>2, UnreadText
    <3>3. s = Head(stream) \o s2
      BY <1>2, <3>1, FlattenHead DEF Text
    <3>4. Head(stream) \in Text
      BY <1>2, <3>1, HeadTailProperties
    <3>5. Unread(from) = Head(stream)
      <4> DEFINE h == Head(stream)
      <4>1. h \in Text /\ from.buffer = h /\ from.offset = 0 /\ 0 + 1 = 1
        BY <3>1, <3>4
      <4> HIDE DEF h, from
      <4>2. SubSeq(h, 1, Len(h)) = h
        BY <4>1, SubSeqFull DEF Text
      <4>3. Unread(from) = SubSeq(h, 0 + 1, Len(h))
        BY <4>1 DEF Unread
      <4> QED
        BY <4>1, <4>2, <4>3 DEF h
    <3> DEFINE h == Head(stream)
    <3>6. h \in Text /\ Unread(from) = h /\ s = h \o s2 /\ u = <<>>
      BY <3>2, <3>3, <3>4, <3>5
    <3> HIDE DEF h, from, s, s2, u
    <3>7. Whole(received, h, s2, out, m) = Whole(received, <<>>, h \o s2, out, m)
      BY <1>2, <1>4, <3>6, WholeNext
    <3> QED
      BY <3>6, <3>7
  <2> QED
    BY <2>1, <2>2
<1>6. b \in Text /\ o \in Nat /\ o <= Len(b) /\ Len(b) \in Nat
  <2>1. b \in Text /\ o \in Nat /\ o <= Len(b)
    <3> HIDE DEF from
    <3> QED
      BY <1>3
  <2>2. Len(b) \in Nat
    <3> HIDE DEF b
    <3> QED
      BY <2>1, LenProperties DEF Text
  <2> QED
    BY <2>1, <2>2
<1>u. Unread(from) = SubSeq(b, o + 1, Len(b))
  BY DEF Unread
<1>r. e # Len(b) => /\ [from EXCEPT !.offset = e].buffer = b /\ [from EXCEPT !.offset = e].offset = e
                    /\ ([from EXCEPT !.offset = e] \in [buffer : Text, offset : Nat] <=> e \in Nat)
  <2> HIDE DEF e
  <2>1. from \in [buffer : Text, offset : Nat]
    BY <1>3
  <2> HIDE DEF from
  <2> QED
    BY <2>1
<1>c. e \in Nat /\ o <= e /\ e <= Len(b)
  <2> HIDE DEF b, o, from
  <2> QED
    BY <1>2, <1>6
<1> HIDE DEF from, b, o, e
<1>7. /\ SubSeq(b, o + 1, e) \in Text /\ SubSeq(b, e + 1, Len(b)) \in Text
      /\ SubSeq(b, o + 1, e) \o SubSeq(b, e + 1, Len(b)) = SubSeq(b, o + 1, Len(b))
      /\ e = Len(b) => SubSeq(b, e + 1, Len(b)) = <<>>
  BY <1>6, <1>c, UnreadIn
<1>8. /\ reader' \in [buffer : Text, offset : Nat] /\ reader'.offset <= Len(reader'.buffer)
      /\ Unread(reader') = SubSeq(b, e + 1, Len(b))
  <2>1. CASE e = Len(b)
    <3>1. reader' = [buffer |-> <<>>, offset |-> 0]
      BY <1>0, <2>1
    <3>2. /\ reader' \in [buffer : Text, offset : Nat] /\ reader'.offset <= Len(reader'.buffer)
          /\ reader'.buffer = <<>>
      BY <3>1, TextNone
    <3>3. Unread(reader') = <<>>
      BY <3>2, UnreadText
    <3> QED
      BY <1>7, <2>1, <3>2, <3>3
  <2>2. CASE e # Len(b)
    <3>1. /\ reader' \in [buffer : Text, offset : Nat] /\ reader'.buffer = b /\ reader'.offset = e
      BY <1>0, <1>c, <1>r, <2>2
    <3> QED
      BY <1>c, <3>1 DEF Unread
  <2> QED
    BY <2>1, <2>2
<1> DEFINE x == SubSeq(b, o + 1, e)
           y == SubSeq(b, e + 1, Len(b))
<1>9. x \in Text /\ y \in Text /\ x \o y = Unread(from) /\ Unread(reader') = y /\ received' = received \o x
  BY <1>0, <1>7, <1>8, <1>u
<1> HIDE DEF x, y, u, s, s2, out, m
<1>10. Whole(received \o x, y, s2, out, m) = Whole(received, x \o y, s2, out, m)
  <2>1. received \in Text /\ x \in Text /\ y \in Text
    BY <1>2, <1>9
  <2>2. s2 \in Text /\ out \in Text /\ m \in Text
    BY <1>2, <1>4
  <2> QED
    BY <2>1, <2>2, WholeRead
<1>11. received' \in Text
  BY <1>2, <1>9, TextConcat
<1>12. PipeTypes'
  BY <1>0, <1>1, <1>3, <1>8, <1>11 DEF PipeTypes
<1>13. MessagesOf(plain_text, sent) = Whole(received', Unread(reader'), s2, out, m)
  <2>1. MessagesOf(plain_text, sent) = Whole(received, u, s, out, m)
    BY <1>0, <1>1 DEF Piped, u, s, out, m
  <2> QED
    BY <1>5, <1>9, <1>10, <2>1
<1>14. Piped'
  BY <1>0, <1>1, <1>13 DEF Piped, s2, out, m
<1> QED
  BY <1>12, <1>14 DEF PipeInv

------------------------------------------------------------------------------
(* The loop and its text.  What was sent is what the TokenOutputStream has *)
(* settled, but for the piece on its way; at the end it is all there is,   *)
(* unless the client went and the task dropped the channel.                *)
Emitted == FlattenSeq(sent)

Dropped == client = "gone" /\ forwarder.pc = "ended"

Places == Ended \cup {"start", "prompt", "bound", "loop", "send", "rest", "finish", "stuck"}

TokenTypes ==
    /\ plain_text \in BOOLEAN /\ held \in BOOLEAN
    /\ pc \in Places
    /\ Streaming(tos)
    /\ piece \in [text : Text, next : {"bound", "loop", "rest", "finish"}]
    /\ model = "phi3" => index_pos = 0

Flowing ==
    /\ pc \in {"start", "prompt", "bound", "loop"} => Emitted = Settled(tos)
    /\ pc = "send" /\ piece.next # "finish" => Emitted \o piece.text = Settled(tos)
    /\ pc = "rest" => Emitted = Settled(tos) \/ Dropped
    /\ pc = "send" /\ piece.next = "finish" => Emitted \o piece.text = Decode(tos.tokens) \/ Dropped
    /\ pc \in {"finish", "finished"} => Emitted = Decode(tos.tokens) \/ Dropped
    /\ IsPrefix(Emitted, Decode(tos.tokens))

(* The stream has seen every token sampled, but for the end-of-text token  *)
(* with which llama leaves its loop.                                       *)
Closing == pc \in {"rest", "finish", "finished", "stuck"} \/ (pc = "send" /\ piece.next = "finish")

Sampled ==
    \/ generated = tos.tokens
    \/ Closing /\ generated = Append(tos.tokens, "eos")

TextInv == TokenTypes /\ Flowing /\ Sampled

(* The texts that play a part, by name. *)
LEMMA FlowTexts ==
    ASSUME PipeInv, TokenTypes
    PROVE  /\ Emitted \in Text /\ Settled(tos) \in Text /\ NewText(tos) \in Text
           /\ Decode(tos.tokens) \in Text /\ Settled(tos) \o NewText(tos) = Decode(tos.tokens)
           /\ piece.text \in Text
<1>1. Emitted \in Text
  BY FlattenSeqIn DEF PipeInv, PipeTypes, Text, Emitted
<1>2. Settled(tos) \in Text
  BY SettledIn DEF TokenTypes
<1>3. NewText(tos) \in Text /\ Settled(tos) \o NewText(tos) = Decode(tos.tokens)
  BY NewTextIs DEF TokenTypes
<1>4. Decode(tos.tokens) \in Text
  <2> HIDE DEF TokenTypes
  <2>1. Settled(tos) \o NewText(tos) \in Text
    BY <1>2, <1>3, TextConcat
  <2> QED
    BY <1>3, <2>1
<1>5. piece.text \in Text
  BY DEF TokenTypes
<1> QED
  BY <1>1, <1>2, <1>3, <1>4, <1>5

LEMMA TextInit == Init => TextInv
<1> SUFFICES ASSUME Init PROVE TextInv
  OBVIOUS
<1> DEFINE s == [tokens |-> <<>>, prev_index |-> 0, current_index |-> 0]
<1>1. tos = s /\ sent = <<>> /\ pc = "start" /\ generated = <<>>
  BY DEF Init
<1>2. s \in [tokens : Seq(Tokens), prev_index : Nat, current_index : Nat] /\ Kept(<<>>, 0, 0)
  <2>1. <<>> \in Seq(Tokens) /\ Len(<<>>) = 0
    OBVIOUS
  <2>2. Unbroken(<<>>, 0)
    BY DEF Unbroken
  <2> QED
    BY <2>1, <2>2 DEF Kept
<1>3. Streaming(s)
  BY <1>2 DEF Streaming
<1>4. Settled(s) = <<>> /\ Decode(<<>>) = <<>>
  <2>1. SubSeq(<<>>, 1, 0) = <<>>
    BY SubSeqEmpty
  <2>2. Decode(<<>>) = <<>>
    <3>1. [i \in DOMAIN <<>> |-> TextOf(<<>>, i)] = <<>>
      OBVIOUS
    <3> QED
      BY <3>1, FlattenNothing DEF Decode
  <2> QED
    BY <2>1, <2>2 DEF Settled
<1>5. Emitted = <<>>
  BY <1>1, FlattenNothing DEF Emitted
<1>6. TokenTypes
  BY <1>1, <1>3, TextNone DEF TokenTypes, Init, Places
<1>7. Flowing
  <2>1. IsPrefix(<<>>, <<>>)
    BY TextNone, PrefixConcat
  <2>2. tos.tokens = <<>>
    BY <1>1
  <2> QED
    BY <1>1, <1>4, <1>5, <2>1, <2>2 DEF Flowing
<1>8. Sampled
  BY <1>1 DEF Sampled
<1> QED
  BY <1>6, <1>7, <1>8 DEF TextInv

(* The rest of a turn: the text of the token is sent, or there is none.    *)
LEMMA EmitFlows ==
    ASSUME PipeInv, TokenTypes, Emitted = Settled(tos), generated = tos.tokens,
           NEW token \in Tokens, NEW next \in {"bound", "loop", "rest"}, Emit(token, next),
           generated' = Append(generated, token),
           UNCHANGED <<request, sent, held>>, model = "phi3" => index_pos' = index_pos
    PROVE  TextInv'
<1> DEFINE res == NextToken(tos, token)
           text == res.text
           old == Settled(tos)
           new == Settled(res.tos)
           more == NewText(res.tos)
           all == Decode(res.tos.tokens)
<1>1. /\ tos' = res.tos /\ piece' = [text |-> text, next |-> next]
      /\ pc' = (IF text = <<>> THEN next ELSE "send")
  BY DEF Emit
<1>2. /\ Streaming(res.tos) /\ res.tos.tokens = Append(tos.tokens, token) /\ text \in Text
      /\ old \o text = new
  <2>1. Hands(tos, token, NextToken(tos, token))
    BY NextTokenHands DEF TokenTypes
  <2> QED
    BY <2>1 DEF Hands
<1>3. piece'.text = text /\ piece'.next = next
  <2> HIDE DEF res, text
  <2> QED
    BY <1>1
<1>4. TokenTypes'
  <2> HIDE DEF res, text
  <2>1. piece' \in [text : Text, next : {"bound", "loop", "rest", "finish"}]
    BY <1>1, <1>2
  <2>2. pc' \in Places
    BY <1>1 DEF Places
  <2>3. /\ plain_text' \in BOOLEAN /\ held' \in BOOLEAN
        /\ model' = "phi3" => index_pos' = 0
    BY DEF TokenTypes, request
  <2> QED
    BY <1>1, <1>2, <2>1, <2>2, <2>3 DEF TokenTypes
<1>5. Emitted' = old /\ old \in Text
  BY FlowTexts DEF Emitted
<1>6. new \in Text /\ more \in Text /\ new \o more = all
  BY <1>2, SettledIn, NewTextIs
<1>7. IsPrefix(old, all)
  <2> HIDE DEF text, old, new, more, all
  <2>1. IsPrefix(old, new)
    BY <1>2, <1>5, PrefixConcat
  <2>2. IsPrefix(old, new \o more)
    BY <1>5, <1>6, <2>1, PrefixMore
  <2> QED
    BY <1>6, <2>2
<1>8. old \o <<>> = old
  BY <1>5, TextNone
<1>9. Settled(tos)' = new /\ Decode(tos.tokens)' = all
  BY <1>1
<1>10. Flowing'
  <2> HIDE DEF res, text, old, new, more, all
  <2>1. CASE text = <<>>
    BY <1>1, <1>2, <1>3, <1>5, <1>7, <1>8, <1>9, <2>1 DEF Flowing
  <2>2. CASE text # <<>>
    BY <1>1, <1>2, <1>3, <1>5, <1>7, <1>9, <2>2 DEF Flowing
  <2> QED
    BY <2>1, <2>2
<1>11. Sampled'
  BY <1>1, <1>2 DEF Sampled
<1> QED
  BY <1>4, <1>10, <1>11 DEF TextInv

(* A forward that fails leaves what was sent.                              *)
LEMMA FailFlows ==
    ASSUME TextInv, pc \in {"prompt", "loop"}, NEW from, NEW to, NEW pos,
           ForwardFails(from, to, pos), UNCHANGED request
    PROVE  TextInv' /\ sent' = sent
<1>1. /\ pc' \in {"error", "panic", "stuck"}
      /\ UNCHANGED <<generated, index_pos, held, tos, piece, sent>>
  BY DEF ForwardFails, NoAnswer
<1>2. TokenTypes'
  BY <1>1 DEF TextInv, TokenTypes, Places, Ended, request
<1>3. Flowing'
  BY <1>1 DEF TextInv, Flowing, Emitted
<1>4. Sampled'
  BY <1>1 DEF TextInv, Sampled, Closing
<1> QED
  BY <1>1, <1>2, <1>3, <1>4 DEF TextInv

LEMMA PrefillFlows ==
    ASSUME IInv, PipeInv, TextInv, Prefill, UNCHANGED <<request, answer, pipe>>
    PROVE  TextInv' /\ sent' = sent
<1> DEFINE i == Len(cache) + 1
<1>1. pc = "prompt" /\ (ForwardFails(i, i, i - 1) \/ ~ForwardFails(i, i, i - 1))
  BY DEF Prefill
<1>2. CASE ForwardFails(i, i, i - 1)
  BY <1>1, <1>2, FailFlows
<1>3. CASE ~ForwardFails(i, i, i - 1)
  <2>1. /\ UNCHANGED <<index_pos, held, sent>>
        /\ \/ UNCHANGED <<pc, generated, tos, piece>>
           \/ \E token \in Tokens : generated' = <<token>> /\ Emit(token, "bound")
    BY <1>3 DEF Prefill
  <2>2. CASE UNCHANGED <<pc, generated, tos, piece>>
    <3>1. TokenTypes'
      BY <2>1, <2>2 DEF TextInv, TokenTypes, request
    <3>2. Flowing'
      BY <2>1, <2>2 DEF TextInv, Flowing, Emitted, Dropped, pipe
    <3>3. Sampled'
      BY <2>1, <2>2 DEF TextInv, Sampled, Closing
    <3> QED
      BY <2>1, <3>1, <3>2, <3>3 DEF TextInv
  <2>3. CASE \E token \in Tokens : generated' = <<token>> /\ Emit(token, "bound")
    <3>1. PICK token \in Tokens : generated' = <<token>> /\ Emit(token, "bound")
      BY <2>3
    <3>2. generated = <<>> /\ generated = tos.tokens /\ Emitted = Settled(tos)
      BY <1>1 DEF IInv, Stages, TextInv, Sampled, Closing, Flowing
    <3>3. generated' = Append(generated, token)
      BY <3>1, <3>2
    <3> QED
      BY <2>1, <3>1, <3>2, <3>3, EmitFlows DEF TextInv
  <2> QED
    BY <2>1, <2>2, <2>3
<1> QED
  BY <1>2, <1>3

LEMMA Phi3TurnFlows ==
    ASSUME IInv, PipeInv, TextInv, Phi3Turn, UNCHANGED <<request, answer, pipe>>
    PROVE  TextInv' /\ sent' = sent
<1> DEFINE i == prompt + Len(generated)
<1>1. pc = "loop" /\ generated = tos.tokens /\ Emitted = Settled(tos)
  BY DEF Phi3Turn, TextInv, Sampled, Closing, Flowing
<1>2. CASE ForwardFails(i, i, i - 1)
  BY <1>1, <1>2, FailFlows
<1>3. CASE ~ForwardFails(i, i, i - 1)
  <2>1. /\ UNCHANGED <<index_pos, held, sent>>
        /\ \E token \in Tokens :
              /\ generated' = Append(generated, token)
              /\ Emit(token, IF token = "eos" THEN "rest" ELSE "loop")
    BY <1>3 DEF Phi3Turn
  <2>2. PICK token \in Tokens :
              /\ generated' = Append(generated, token)
              /\ Emit(token, IF token = "eos" THEN "rest" ELSE "loop")
    BY <2>1
  <2> DEFINE next == IF token = "eos" THEN "rest" ELSE "loop"
  <2>3. next \in {"bound", "loop", "rest"} /\ Emit(token, next)
    BY <2>2
  <2> HIDE DEF next
  <2> QED
    BY <1>1, <2>1, <2>2, <2>3, EmitFlows DEF TextInv
<1> QED
  BY <1>2, <1>3

LEMMA LlamaTurnFlows ==
    ASSUME IInv, PipeInv, TextInv, LlamaTurn, UNCHANGED <<request, answer, pipe>>
    PROVE  TextInv' /\ sent' = sent
<1> DEFINE n == prompt + Len(generated)
           from == IF generated = <<>> THEN 1 ELSE n
           pos == IF generated = <<>> THEN 0 ELSE index_pos
<1>1. model = "llama" /\ pc = "loop" /\ generated = tos.tokens /\ Emitted = Settled(tos)
  BY DEF LlamaTurn, TextInv, Sampled, Closing, Flowing
<1>2. CASE ForwardFails(from, n, pos)
  BY <1>1, <1>2, FailFlows
<1>3. CASE ~ForwardFails(from, n, pos)
  <2>1. /\ UNCHANGED <<held, sent>>
        /\ \E token \in Tokens :
              /\ generated' = Append(generated, token)
              /\ IF token = "eos" THEN pc' = "rest" /\ UNCHANGED <<tos, piece>>
                 ELSE Emit(token, "loop")
    BY <1>3 DEF LlamaTurn
  <2>2. PICK token \in Tokens :
              /\ generated' = Append(generated, token)
              /\ IF token = "eos" THEN pc' = "rest" /\ UNCHANGED <<tos, piece>>
                 ELSE Emit(token, "loop")
    BY <2>1
  <2>3. CASE token = "eos"
    <3>1. TokenTypes'
      BY <1>1, <2>1, <2>2, <2>3 DEF TextInv, TokenTypes, request, Places
    <3>2. Flowing'
      BY <1>1, <2>1, <2>2, <2>3 DEF TextInv, Flowing, Emitted
    <3>3. Sampled'
      BY <1>1, <2>2, <2>3 DEF Sampled, Closing
    <3> QED
      BY <2>1, <3>1, <3>2, <3>3 DEF TextInv
  <2>4. CASE token # "eos"
    BY <1>1, <2>1, <2>2, <2>4, EmitFlows DEF TextInv
  <2> QED
    BY <2>3, <2>4
<1> QED
  BY <1>2, <1>3

(* decode_rest: what is sent with it is all there is.                      *)
LEMMA RestFlows ==
    ASSUME IInv, PipeInv, TextInv, Rest, UNCHANGED <<request, answer, pipe>>
    PROVE  TextInv' /\ sent' = sent
<1> DEFINE rest == NewText(tos)
           old == Settled(tos)
           all == Decode(tos.tokens)
<1>1. /\ pc = "rest" /\ piece' = [text |-> rest, next |-> "finish"]
      /\ pc' = (IF rest = <<>> THEN "finish" ELSE "send")
      /\ UNCHANGED <<generated, index_pos, held, tos, sent>>
  BY DEF Rest, DecodeRest
<1>2. rest \in Text /\ old \in Text /\ old \o rest = all /\ old \o <<>> = old
  BY FlowTexts, TextNone DEF TextInv
<1>3. /\ Emitted = old \/ Dropped
      /\ IsPrefix(Emitted, all)
  BY <1>1 DEF TextInv, Flowing
<1>4. /\ Emitted' = Emitted /\ (Dropped => Dropped')
      /\ Settled(tos)' = old /\ Decode(tos.tokens)' = all
  BY <1>1 DEF Emitted, Dropped, pipe
<1> HIDE DEF rest, old, all
<1>5. piece'.text = rest /\ piece'.next = "finish"
  BY <1>1
<1>6. TokenTypes'
  BY <1>1, <1>2 DEF TextInv, TokenTypes, request, Places
<1>7. Flowing'
  <2>1. CASE rest = <<>>
    BY <1>1, <1>2, <1>3, <1>4, <1>5, <2>1 DEF Flowing
  <2>2. CASE rest # <<>>
    BY <1>1, <1>2, <1>3, <1>4, <1>5, <2>2 DEF Flowing
  <2> QED
    BY <2>1, <2>2
<1>8. Sampled'
  BY <1>1, <1>5 DEF TextInv, Sampled, Closing
<1> QED
  BY <1>1, <1>6, <1>7, <1>8 DEF TextInv

LEMMA SendPieceFlows ==
    ASSUME IInv, PipeInv, TextInv, SendPiece, UNCHANGED <<request, pipe>>
    PROVE  TextInv'
<1> DEFINE x == piece.text
           e == Emitted
           old == Settled(tos)
           more == NewText(tos)
           all == Decode(tos.tokens)
<1>1. /\ pc = "send" /\ forwarder.pc # "ended" /\ sent' = Append(sent, x) /\ pc' = piece.next
      /\ UNCHANGED <<generated, index_pos, held, tos, piece>>
  BY DEF SendPiece
<1>2. e \in Text /\ x \in Text /\ old \in Text /\ more \in Text /\ all \in Text /\ old \o more = all
  BY FlowTexts DEF TextInv
<1>3. Emitted' = e \o x
  <2>1. sent \in Seq(Text)
    BY DEF PipeInv, PipeTypes
  <2> HIDE DEF x
  <2>2. FlattenSeq(Append(sent, x)) = FlattenSeq(sent) \o x
    BY <1>2, <2>1, FlattenAppend DEF Text
  <2> QED
    BY <1>1, <2>2 DEF Emitted
<1>4. /\ piece.next # "finish" => e \o x = old
      /\ piece.next = "finish" => e \o x = all
  BY <1>1 DEF TextInv, Flowing, Dropped
<1>5. Settled(tos)' = old /\ Decode(tos.tokens)' = all
  BY <1>1
<1>6. piece.next \in {"bound", "loop", "rest", "finish"}
  BY DEF TextInv, TokenTypes
<1>7. TokenTypes'
  BY <1>1, <1>6 DEF TextInv, TokenTypes, request, Places
<1> HIDE DEF x, e, old, more, all
<1>8. IsPrefix(old, all) /\ IsPrefix(all, all)
  <2>1. IsPrefix(old, old \o more) /\ IsPrefix(all, all \o <<>>) /\ all \o <<>> = all
    BY <1>2, PrefixConcat, TextNone
  <2> QED
    BY <1>2, <2>1
<1>9. Flowing'
  <2>1. CASE piece.next = "finish"
    BY <1>1, <1>3, <1>4, <1>5, <1>8, <2>1 DEF Flowing
  <2>2. CASE piece.next # "finish"
    BY <1>1, <1>3, <1>4, <1>5, <1>6, <1>8, <2>2 DEF Flowing
  <2> QED
    BY <2>1, <2>2
<1>10. Sampled'
  BY <1>1, <1>6 DEF TextInv, Sampled, Closing
<1> QED
  BY <1>7, <1>9, <1>10 DEF TextInv

(* The loop's other steps, and the end of a send whose receiver has gone.  *)
LEMMA QuietFlows ==
    ASSUME IInv, PipeInv, TextInv, StartChat \/ Bound \/ LoopOver \/ FinishChat \/ SendErr,
           UNCHANGED <<request, answer, pipe>>
    PROVE  TextInv' /\ sent' = sent
<1>1. UNCHANGED <<generated, index_pos, tos, piece, sent>> /\ held' \in BOOLEAN
  BY DEF StartChat, Bound, LoopOver, FinishChat, SendErr, TextInv, TokenTypes
<1>2. pc' \in Places
  BY DEF StartChat, Bound, LoopOver, FinishChat, SendErr, AfterSendErr, NoAnswer, Places, Ended
<1>3. TokenTypes'
  BY <1>1, <1>2 DEF TextInv, TokenTypes, request
<1>4. Emitted' = Emitted /\ (Dropped => Dropped') /\ Settled(tos)' = Settled(tos)
      /\ Decode(tos.tokens)' = Decode(tos.tokens) /\ piece' = piece
  BY <1>1 DEF Emitted, Dropped, pipe
<1>5. \/ pc \in {"start", "bound", "loop"} /\ pc' \in {"prompt", "loop", "error", "panic", "stuck", "rest"}
      \/ pc = "finish" /\ pc' \in {"finished", "stuck"}
      \/ pc = "send" /\ Dropped /\ pc' \in {"panic", "finish", "rest"}
         /\ (piece.next = "finish" => pc' = "finish")
  BY DEF StartChat, Bound, LoopOver, FinishChat, SendErr, AfterSendErr, NoAnswer, IInv, ForwarderStays,
         Dropped, Ended
<1>6. Flowing'
  BY <1>4, <1>5 DEF TextInv, Flowing
<1>7. Sampled'
  BY <1>1, <1>5 DEF TextInv, Sampled, Closing
<1> QED
  BY <1>1, <1>3, <1>6, <1>7 DEF TextInv

(* The task and the reader leave the loop alone, and what was dropped      *)
(* stays so.                                                               *)
LEMMA PipeFlows ==
    ASSUME TextInv, Forwarding \/ Reading \/ Leave \/ UNCHANGED vars
    PROVE  TextInv'
<1>1. UNCHANGED <<request, loop>>
  BY DEF Forwarding, ForwarderRecv, ForwarderClosed, ForwarderSend, ForwarderErr,
         Reading, PollReadEof, PollRead, Leave, vars
<1>2. Dropped => Dropped'
  BY DEF Forwarding, ForwarderRecv, ForwarderClosed, ForwarderSend, ForwarderErr,
         Reading, PollReadEof, PollRead, Leave, vars, pipe, Dropped
<1>3. TokenTypes' /\ Sampled'
  BY <1>1 DEF TextInv, TokenTypes, Sampled, Closing, request, loop
<1>4. Flowing'
  BY <1>1, <1>2 DEF TextInv, Flowing, Emitted, loop
<1> QED
  BY <1>3, <1>4 DEF TextInv

(* Every step keeps the text in order, at both ends of the way.            *)
LEMMA TextStep ==
    ASSUME IInv, PipeInv, TextInv, [Next]_vars
    PROVE  PipeInv' /\ TextInv'
<1>1. CASE (\/ StartChat \/ Prefill \/ Bound \/ Phi3Turn \/ LlamaTurn \/ LoopOver \/ Rest \/ FinishChat
            \/ SendErr) /\ UNCHANGED <<request, answer, pipe>>
  <2>1. TextInv' /\ sent' = sent
    BY <1>1, PrefillFlows, Phi3TurnFlows, LlamaTurnFlows, RestFlows, QuietFlows
  <2> QED
    BY <1>1, <2>1, PipeRests DEF request
<1>2. CASE SendPiece /\ UNCHANGED <<request, pipe>>
  <2>1. piece.text \in Text
    BY DEF TextInv, TokenTypes
  <2> QED
    BY <1>2, <2>1, SendPieceFlows, PipeSendPiece
<1>3. CASE Forwarding \/ Reading \/ Leave \/ UNCHANGED vars
  <2>1. CASE Forwarding
    BY <2>1, PipeForwarderRecv, PipeForwarderSend, PipeForwarderEnds, PipeFlows DEF Forwarding
  <2>2. CASE Reading
    <3>1. CASE PollReadEof
      BY <2>2, <3>1, PipePollReadEof, PipeFlows
    <3>2. CASE \E room \in Rooms : PollRead(room)
      <4>1. PICK room \in Rooms : PollRead(room)
        BY <3>2
      <4> QED
        BY <2>2, <4>1, PipePollRead, PipeFlows
    <3> QED
      BY <2>2, <3>1, <3>2 DEF Reading
  <2>3. CASE Leave
    BY <2>3, PipeLeave, PipeFlows
  <2>4. CASE UNCHANGED vars
    <3>1. UNCHANGED <<plain_text, answer, pipe, sent>>
      BY <2>4 DEF vars, request, loop
    <3> QED
      BY <2>4, <3>1, PipeRests, PipeFlows
  <2> QED
    BY <1>3, <2>1, <2>2, <2>3, <2>4
<1>4. SendErr => UNCHANGED answer
  BY DEF SendErr
<1> QED
  BY <1>1, <1>2, <1>3, <1>4 DEF Next, Chat

(* Loop, TokenOutputStream and the way to the client agree on the text.    *)
THEOREM LoopTextInvariant == Spec => [](IInv /\ PipeInv /\ TextInv)
<1>1. IInv /\ PipeInv /\ TextInv /\ [Next]_vars => IInv' /\ PipeInv' /\ TextInv'
  BY LoopStep, TextStep
<1>2. Init => IInv /\ PipeInv /\ TextInv
  BY LoopInit, PipeInit, TextInit
<1> QED
  BY <1>1, <1>2, PTL DEF Spec

(* Only a call that fails or is not answered changes chain.                *)
LEMMA ChainStep ==
    ASSUME [Next]_vars
    PROVE  chain' \in {chain, "failed", "silent"}
<1>1. CASE StartChat \/ FinishChat
  BY <1>1 DEF StartChat, FinishChat, NoAnswer
<1>2. CASE Prefill
  BY <1>2 DEF Prefill, Forward, ForwardFails, NoAnswer
<1>3. CASE Phi3Turn
  BY <1>3 DEF Phi3Turn, Forward, ForwardFails, NoAnswer
<1>4. CASE LlamaTurn
  BY <1>4 DEF LlamaTurn, Forward, ForwardFails, NoAnswer
<1>5. CASE Bound \/ LoopOver \/ Rest \/ SendPiece \/ SendErr
  BY <1>5 DEF Bound, LoopOver, Rest, SendPiece, SendErr
<1>6. CASE Forwarding \/ Reading \/ Leave \/ UNCHANGED vars
  BY <1>6 DEF Forwarding, ForwarderRecv, ForwarderClosed, ForwarderSend, ForwarderErr,
              Reading, PollReadEof, PollRead, Leave, vars, loop
<1> QED
  BY <1>1, <1>2, <1>3, <1>4, <1>5, <1>6 DEF Next, Chat

ChainTypes == chain \in {"ok", "failed", "silent"}

LEMMA ChainTyped == Spec => []ChainTypes
<1>1. Init => ChainTypes
  BY DEF Init, ChainTypes
<1>2. ChainTypes /\ [Next]_vars => ChainTypes'
  BY ChainStep DEF ChainTypes
<1> QED
  BY <1>1, <1>2, PTL DEF Spec

(* Every variable of a chat has its type, whatever is asked for and        *)
(* however long the answer gets: indices and counts stay in the context.   *)
THEOREM LoopTypesHold == Spec => []TypeOK
<1>1. ASSUME IInv, PipeInv, TextInv, ChainTypes PROVE TypeOK
  <2>1. /\ model \in Models /\ prompt \in PromptLens /\ max_len \in 0 .. 2^Width - 1
        /\ generated \in Seq(Tokens) /\ cache \in Seq([token : Nat, pos : Nat])
        /\ index_pos \in Nat /\ used \in Nat
    BY <1>1 DEF IInv, LoopTypes
  <2>2. index_pos \in 0 .. CONTEXT /\ used \in 0 .. CONTEXT
    <3>1. /\ Len(cache) \in Nat /\ Len(generated) \in Nat /\ Len(cache) <= CONTEXT
          /\ prompt \in Nat \ {0} /\ CONTEXT \in Nat /\ model \in {"phi3", "llama"}
          /\ generated = <<>> => Len(generated) = 0
      BY <1>1, <2>1, LenProperties, LoopAssumption DEF IInv, Fed
    <3>2. model = "phi3" => index_pos = 0 /\ used = Len(cache)
      BY <1>1 DEF IInv, Fed, TextInv, TokenTypes
    <3>3. model = "llama" => index_pos = Len(cache) /\ used = Len(generated)
      BY <1>1 DEF IInv, Fed
    <3>4. generated # <<>> => Len(cache) = prompt + Len(generated) - 1
      BY <1>1 DEF IInv, CacheIsContext
    <3> QED
      BY <2>1, <3>1, <3>2, <3>3, <3>4
  <2>3. tos \in [tokens : Seq(Tokens), prev_index : Nat, current_index : Nat]
    BY <1>1 DEF TextInv, TokenTypes, Streaming
  <2>4. /\ plain_text \in BOOLEAN /\ held \in BOOLEAN /\ pc \in Places
        /\ piece \in [text : Text, next : {"bound", "loop", "rest", "finish"}]
    BY <1>1 DEF TextInv, TokenTypes
  <2>5. /\ answer \in Seq(Text) /\ Len(answer) <= 1
        /\ forwarder \in [pc : {"recv", "send", "ended"}, out : Text]
        /\ stream \in Seq(Text) /\ Len(stream) <= STREAM_CAP
        /\ reader \in [buffer : Text, offset : Nat]
        /\ client \in {"reading", "eof", "gone"}
        /\ received \in Text /\ sent \in Seq(Text)
    BY <1>1 DEF PipeInv, PipeTypes
  <2> QED
    BY <1>1, <2>1, <2>2, <2>3, <2>4, <2>5 DEF TypeOK, Places, ChainTypes
<1> QED
  BY <1>1, LoopTextInvariant, ChainTyped, PTL

(* The messages of the properties are those of the proofs, and the         *)
(* end-of-text token adds nothing to the text.                             *)
LEMMA MessagesSame == FlattenSeq([i \in DOMAIN sent |-> Message(sent[i])]) = MessagesOf(plain_text, sent)
BY DEF Message, MessagesOf, MessageOf

LEMMA GeneratedText ==
    ASSUME TextInv
    PROVE  Decode(generated) = Decode(tos.tokens)
<1>1. tos.tokens \in Seq(Tokens)
  BY DEF TextInv, TokenTypes, Streaming
<1>2. generated = tos.tokens \/ generated = Append(tos.tokens, "eos")
  BY DEF TextInv, Sampled
<1> QED
  BY <1>1, <1>2, DecodeEos

(* However the tokens split words and characters, and however the reads    *)
(* split the messages, the client has a prefix of the messages, in order,  *)
(* and the loop has sent a prefix of what the whole answer decodes to.     *)
THEOREM LoopTextInOrder == Spec => []TextInOrder
<1>1. ASSUME IInv, PipeInv, TextInv PROVE TextInOrder
  <2>1. IsPrefix(FlattenSeq(sent), Decode(generated))
    BY <1>1, GeneratedText DEF TextInv, Flowing, Emitted
  <2>2. IsPrefix(received, MessagesOf(plain_text, sent))
    <3>1. CASE client = "gone"
      BY <1>1, <3>1 DEF PipeInv, Piped
    <3>2. CASE client # "gone"
      <4>1. AllText(received, Unread(reader), FlattenSeq(stream), forwarder.out,
                    MessagesOf(plain_text, answer))
        BY <1>1, PipeTexts DEF PipeInv
      <4>2. IsPrefix(received, Whole(received, Unread(reader), FlattenSeq(stream), forwarder.out,
                                     MessagesOf(plain_text, answer)))
        BY <4>1, WholeIn
      <4> QED
        BY <1>1, <3>2, <4>2 DEF PipeInv, Piped
    <3> QED
      BY <3>1, <3>2
  <2> QED
    BY <2>1, <2>2, MessagesSame DEF TextInOrder
<1> QED
  BY <1>1, LoopTextInvariant, PTL

(* A client that reads to the end of a chat that finished has every        *)
(* message, and the messages hold all that the answer's tokens decode to.  *)
THEOREM LoopEofMeansWhole == Spec => []EofMeansWhole
<1>1. ASSUME IInv, PipeInv, TextInv PROVE EofMeansWhole
  <2> SUFFICES ASSUME client = "eof", pc = "finished"
               PROVE  /\ FlattenSeq(sent) = Decode(generated)
                      /\ received = FlattenSeq([i \in DOMAIN sent |-> Message(sent[i])])
    BY DEF EofMeansWhole
  <2>1. FlattenSeq(sent) = Decode(generated)
    BY <1>1, GeneratedText DEF TextInv, Flowing, Emitted, Dropped
  <2>2. /\ forwarder.pc = "ended" /\ stream = <<>> /\ reader.buffer = <<>> /\ answer = <<>>
        /\ forwarder.out = <<>> /\ received \in Text
        /\ MessagesOf(plain_text, sent) =
              Whole(received, Unread(reader), FlattenSeq(stream), forwarder.out,
                    MessagesOf(plain_text, answer))
    BY <1>1 DEF PipeInv, PipeTypes, Piped
  <2>3. Unread(reader) = <<>>
    BY <1>1, <2>2, UnreadText DEF PipeInv, PipeTypes
  <2>4. FlattenSeq(stream) = <<>> /\ MessagesOf(plain_text, answer) = <<>>
    BY <2>2, FlattenNothing, MessagesNone
  <2>5. MessagesOf(plain_text, sent) = received
    BY <2>2, <2>3, <2>4, WholeOver
  <2> QED
    BY <2>1, <2>5, MessagesSame
<1> QED
  BY <1>1, LoopTextInvariant, PTL
===============================================================================
