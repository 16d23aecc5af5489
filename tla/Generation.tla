----------------------------- MODULE Generation -----------------------------
(* Text generation on one context, as R drives it through                    *)
(* src/r_llama_interface.cpp: streamed generations (llama_gen_begin,          *)
(* _begin_at, _next, _end), whole ones (llama_generate) and batches of        *)
(* prompts (llama_generate_batch).  R calls one of them at a time, in any     *)
(* order, and every one of them uses the one context: its memory and the      *)
(* rows of logits that its last decode left.                                  *)
(*                                                                            *)
(* For the context a token is who sampled it and its number there; for the    *)
(* text it is its piece, a sequence of bytes (see Utf8Text).  A row of logits *)
(* is the sequence whose whole memory it follows, Stale if there is none.     *)
(* Each sequence has cells of its own, as kv_unified is off in every context  *)
(* that R makes.                                                              *)
EXTENDS Utf8Text, FiniteSets

CONSTANTS
  Seqs,            \* 0 .. n_seq_max - 1
  Room,            \* n_ctx_seq, the cells of one sequence
  NBatch,          \* n_batch, the most tokens one decode takes
  NUbatch,         \* n_ubatch, the most tokens one computation takes
  Gens,            \* handles of streamed generations, each begun once
  Uses             \* what R does with the context: vocab and budgets, for each
                   \* handle it uses the pieces it may sample and its limits,
                   \* prompts, the lists of prompts for batches and their
                   \* limits, and whether other calls come in between

ASSUME SeqsAssumption == /\ Seqs # {} /\ IsFiniteSet(Seqs)
                         /\ Seqs = 0 .. Cardinality(Seqs) - 1
ASSUME SizesAssumption == /\ {Room, NBatch, NUbatch} \subseteq Nat \ {0}
                          /\ Cardinality(Seqs) <= NUbatch /\ NUbatch <= NBatch
\* A prompt without tokens is an error before the context is used.
Prompt(p) == p # <<>> /\ p \in Seq(ToSet(p))

ASSUME UsesAssumption ==
  \A u \in Uses :
    /\ DOMAIN u.vocab \subseteq Gens
    /\ \A g \in DOMAIN u.vocab : u.vocab[g] \subseteq Seq(Bytes)
    /\ \A p \in u.prompts : Prompt(p)
    /\ \A ps \in u.lists : /\ DOMAIN ps # {}
                           /\ DOMAIN ps = 0 .. Cardinality(DOMAIN ps) - 1
                           /\ DOMAIN ps \subseteq Seqs
                           /\ \A s \in DOMAIN ps : Prompt(ps[s])
    /\ u.limits \subseteq Int
ASSUME GensAssumption == "none" \notin Gens

VARIABLES
  use,    \* which of Uses
  ctx,    \* the context: mem, and the output rows of its last decode
  gens,   \* the states behind the handles
  job,    \* the batch of prompts being generated
  dead,   \* why the process was aborted
  sole,   \* the generation that alone has used the context since it began,
          \* and the tokens in memory then
  blank   \* no decode was made yet, or the last one failed in the middle

vars == <<use, ctx, gens, job, dead, sole, blank>>

Stale == -1
Eog  == <<"eog">>

\* The first n tokens of generation g.
Own(g, n) == [i \in 1 .. n |-> <<g, i>>]

Nobody == [gen |-> "none"]
Alone(g, base) == [gen |-> g, base |-> base]
Idle == [on |-> FALSE]
NoGen == [live |-> FALSE]

Rows == 1 .. Cardinality(Seqs)

-----------------------------------------------------------------------------
(* llama_decode().  A batch is a sequence of entries.                         *)

Entry(s, t, out) == [seq |-> s, tok |-> t, out |-> out]

\* llama_batch_get_one(): sequence 0, output for the last token only.
GetOne(toks) == [i \in 1 .. Len(toks) |-> Entry(0, toks[i], i = Len(toks))]

Outputs(b) == {i \in 1 .. Len(b) : b[i].out}

\* The place of entry i among those of its sequence.
Place(b, i) == Cardinality({j \in 1 .. i : b[j].seq = b[i].seq})

Count(b) == [s \in Seqs |-> Cardinality({i \in 1 .. Len(b) : b[i].seq = s})]

\* split_equal(): of the tokens left of each sequence, a ubatch takes as many of
\* the first one that is not finished as of those next to it.
AfterUbatch(left) ==
  LET live == {s \in Seqs : left[s] > 0}
      run  == {s \in live : \A t \in Min(live) .. s : t \in live}
      n    == Min({left[s] : s \in run} \cup {NUbatch \div Cardinality(run)})
  IN IF live = {} THEN left
     ELSE [s \in Seqs |-> left[s] - (IF s \in run THEN n ELSE 0)]

\* Tokens not computed after k ubatches.
Left(b) ==
  LET left[k \in 0 .. Len(b)] ==
        IF k = 0 THEN Count(b) ELSE AfterUbatch(left[k - 1])
  IN left

NUbatches(b) ==
  LET left == Left(b) IN Min({k \in 0 .. Len(b) : \A s \in Seqs : left[k][s] = 0})

\* The ubatch that computes entry i.
UbatchOf(b, i) ==
  LET left == Left(b)
      s    == b[i].seq
  IN Min({k \in 1 .. Len(b) : Place(b, i) <= Count(b)[s] - left[k][s]})

\* What the first k ubatches have of sequence s.
Tokens(b, s, k) ==
  LET n == Count(b)[s] - Left(b)[k][s]
  IN FlattenSeq([i \in 1 .. Len(b) |->
       IF b[i].seq = s /\ Place(b, i) <= n THEN <<b[i].tok>> ELSE <<>>])

\* The memory once k ubatches of the batch are stored.
Stored(mem, b, k) == [s \in Seqs |-> mem[s] \o Tokens(b, s, k)]

\* The rows once the memory is `mem`.
Aged(c, mem) ==
  [r \in Rows |-> IF c.rows[r] # Stale /\ mem[c.rows[r]] = c.mem[c.rows[r]]
                  THEN c.rows[r] ELSE Stale]

\* The rows of the outputs E: in the order of the batch, and in the order in
\* which they were computed.
InOrder(E) == [i \in E |-> Cardinality({j \in E : j <= i})]
NoLater(b, j, i) == \/ UbatchOf(b, j) < UbatchOf(b, i)
                    \/ UbatchOf(b, j) = UbatchOf(b, i) /\ j <= i
AsComputed(b, E) == [i \in E |-> Cardinality({j \in E : NoLater(b, j, i)})]

\* The rows once the memory is `mem` and the outputs are written to the rows
\* `row`.  Entry i follows the tokens up to its own.
Written(c, b, row, mem) ==
  [r \in Rows |->
     IF \A i \in DOMAIN row : row[i] # r THEN Aged(c, mem)[r]
     ELSE LET e == CHOOSE i \in DOMAIN row : row[i] = r
              s == b[e].seq
          IN IF Len(mem[s]) = Len(c.mem[s]) + Place(b, e) THEN s ELSE Stale]

\* Every sequence of the batch finds cells for its tokens.
Fits(c, b) == \A s \in Seqs : Len(c.mem[s]) + Count(b)[s] <= Room

\* Mutant: the rows stay in the order in which they were computed.
DecodedUnsorted(c, b) ==
  LET mem == Stored(c.mem, b, NUbatches(b))
  IN [mem  |-> mem,
      rows |-> Written(c, b, AsComputed(b, Outputs(b)), mem),
      nOut |-> Cardinality(Outputs(b)),
      ids  |-> [i \in 1 .. NBatch |-> IF i \in Outputs(b) THEN InOrder(Outputs(b))[i] ELSE 0]]

\* Success: the rows stand in the order of the batch.
Decoded(c, b) ==
  LET mem == Stored(c.mem, b, NUbatches(b))
  IN [mem  |-> mem,
      rows |-> Written(c, b, InOrder(Outputs(b)), mem),
      nOut |-> Cardinality(Outputs(b)),
      ids  |-> [i \in 1 .. NBatch |-> IF i \in Outputs(b) THEN InOrder(Outputs(b))[i] ELSE 0]]

\* Mutant: what the failed ubatch stored stays.
CleanedUpNothing(mem, c, b, k) == mem

\* The cleanup after a failed ubatch k: the positions it stored are removed.
CleanedUp(mem, c, b, k) ==
  [s \in Seqs |-> SubSeq(mem[s], 1, Len(Stored(c.mem, b, k - 1)[s]))]

\* The k-th ubatch fails or is aborted: n_outputs is that of this ubatch, the
\* rows of the earlier ones are written, no id is valid.
Broken(c, b, k) ==
  LET early == {i \in Outputs(b) : UbatchOf(b, i) < k}
      mem   == CleanedUp(Stored(c.mem, b, k), c, b, k)
  IN [mem  |-> mem,
      rows |-> Written(c, b, AsComputed(b, early), mem),
      nOut |-> Cardinality({i \in Outputs(b) : UbatchOf(b, i) = k}),
      ids  |-> [i \in 1 .. NBatch |-> 0]]

\* output_resolve_row(): -1 is the last row.
Row(c, i) == IF i < 0 THEN c.nOut + 1 + i ELSE c.ids[i]
HasRow(c, i) == Row(c, i) \in 1 .. c.nOut

\* The tokens of some sequences are removed.
Without(c, S) == LET mem == [s \in Seqs |-> IF s \in S THEN <<>> ELSE c.mem[s]]
                 IN [c EXCEPT !.mem = mem, !.rows = Aged(c, mem)]
Cleared(c) == Without(c, Seqs)

\* The memory is restored, with p in sequence 0 and nothing else.  The saved
\* state has no logits: the rows stay as they are.
Restored(c, p) ==
  LET mem == [s \in Seqs |-> IF s = 0 THEN p ELSE <<>>]
  IN [c EXCEPT !.mem = mem, !.rows = Aged(c, mem)]

-----------------------------------------------------------------------------
(* Prefill of a prompt in chunks of n_batch tokens, on a cleared memory.      *)

Chunks(p) == [i \in 1 .. (Len(p) + NBatch - 1) \div NBatch |->
                SubSeq(p, (i - 1) * NBatch + 1, Min({i * NBatch, Len(p)}))]

\* Mutant: the memory is not cleared first.
PrefilledOnTop(p, n) ==
  LET after[k \in 0 .. n] == IF k = 0 THEN ctx
                              ELSE Decoded(after[k - 1], GetOne(Chunks(p)[k]))
  IN after[n]

\* The context once the first n chunks are decoded.
Prefilled(p, n) ==
  LET after[k \in 0 .. n] == IF k = 0 THEN Cleared(ctx)
                              ELSE Decoded(after[k - 1], GetOne(Chunks(p)[k]))
  IN after[n]

ChunkFits(p, n) == Fits(Prefilled(p, n - 1), GetOne(Chunks(p)[n]))

PrefillDone(p) == /\ \A n \in 1 .. Len(Chunks(p)) : ChunkFits(p, n)
                  /\ ctx' = Prefilled(p, Len(Chunks(p)))
                  /\ blank' = FALSE

\* Chunk n finds no cells, or one of its ubatches fails.
PrefillFails(p) ==
  \E n \in 1 .. Len(Chunks(p)) :
    /\ \A m \in 1 .. n - 1 : ChunkFits(p, m)
    /\ \/ /\ ~ChunkFits(p, n)
          /\ ctx' = Prefilled(p, n - 1)
          /\ blank' = (blank /\ n = 1)
       \/ /\ ChunkFits(p, n)
          /\ \E k \in 1 .. NUbatches(GetOne(Chunks(p)[n])) :
               ctx' = Broken(Prefilled(p, n - 1), GetOne(Chunks(p)[n]), k)
          /\ blank' = TRUE

\* The assertion on the size of a batch.
TooLarge(p) == \E n \in 1 .. Len(Chunks(p)) : Len(Chunks(p)[n]) > NBatch

-----------------------------------------------------------------------------
(* Streamed generations.  Bound: each handle is begun once.                   *)

Free(g) == gens[g] = NoGen
Calm    == dead = "" /\ ~job.on

\* `failed`, `took` and `said` are for the properties: whether a decode failed,
\* the pieces of the tokens sampled, the text handed out.
NewGen(budget) ==
  [live |-> TRUE, accepted |-> <<>>, remaining |-> budget, done |-> FALSE, buf |-> <<>>,
   failed |-> FALSE, took |-> <<>>, said |-> <<>>]

Begin(g, p, budget) ==
  /\ Calm /\ Free(g)
  /\ IF TooLarge(p)
     THEN dead' = "stream too large" /\ UNCHANGED <<ctx, gens, sole, blank>>
     ELSE /\ UNCHANGED dead
          /\ \/ /\ PrefillDone(p)
                /\ gens' = [gens EXCEPT ![g] = NewGen(budget)]
                /\ sole' = Alone(g, p)
             \/ /\ PrefillFails(p)
                /\ sole' = Nobody
                /\ UNCHANGED gens
  /\ UNCHANGED <<use, job>>

\* On the context as it is, filled or not: nothing is asked of it.
BeginAt(g, budget) ==
  /\ Calm /\ Free(g)
  /\ gens' = [gens EXCEPT ![g] = NewGen(budget)]
  /\ sole' = IF HasRow(ctx, -1) /\ ctx.rows[Row(ctx, -1)] = 0
             THEN Alone(g, ctx.mem[0]) ELSE Nobody
  /\ UNCHANGED <<use, ctx, job, dead, blank>>

\* llama_gen_next() on a generation that has ended.
NextEnded(g) ==
  /\ Calm /\ ~Free(g)
  /\ gens[g].done \/ gens[g].remaining <= 0
  /\ gens' = [gens EXCEPT ![g].done = TRUE]
  /\ UNCHANGED <<use, ctx, job, dead, sole, blank>>

Samples(g) == /\ Calm /\ ~Free(g)
              /\ ~gens[g].done /\ gens[g].remaining > 0

NextAborts(g) ==
  /\ Samples(g) /\ ~HasRow(ctx, -1)
  /\ dead' = "no row"
  /\ UNCHANGED <<use, ctx, gens, job, sole, blank>>

NextEog(g) ==
  /\ Samples(g) /\ HasRow(ctx, -1)
  /\ gens' = [gens EXCEPT ![g].accepted = Append(@, Eog), ![g].done = TRUE]
  /\ UNCHANGED <<use, ctx, job, dead, sole, blank>>

\* The token sampled next.
Fresh(g) == <<g, Len(gens[g].took) + 1>>

\* The state once the next token is sampled and its piece is in the buffer.
Sampled(g, piece) ==
  [gens[g] EXCEPT !.accepted  = Append(@, Fresh(g)),
                  !.remaining = @ - 1,
                  !.took      = Append(@, piece),
                  !.buf       = @ \o piece]

\* What the call hands out.
Spoken(st) == [st EXCEPT !.said = @ \o Sanitized(Emitted(st.buf)),
                         !.buf  = Held(@)]

\* The context after another generation used it is no longer the own one.
Mine(g) == IF sole.gen = g THEN sole ELSE Nobody

NextToken(g, piece) ==
  /\ Samples(g) /\ HasRow(ctx, -1)
  /\ Fits(ctx, GetOne(<<Fresh(g)>>))
  /\ ctx' = Decoded(ctx, GetOne(<<Fresh(g)>>))
  /\ gens' = [gens EXCEPT ![g] = Spoken(Sampled(g, piece))]
  /\ sole' = Mine(g)
  /\ blank' = FALSE
  /\ UNCHANGED <<use, job, dead>>

\* The decode fails: an error, nothing is handed out.
NextFails(g, piece) ==
  /\ Samples(g) /\ HasRow(ctx, -1)
  /\ IF Fits(ctx, GetOne(<<Fresh(g)>>))
     THEN ctx' = Broken(ctx, GetOne(<<Fresh(g)>>), 1) /\ blank' = TRUE
     ELSE UNCHANGED <<ctx, blank>>
  /\ gens' = [gens EXCEPT ![g] = [Sampled(g, piece) EXCEPT !.done = TRUE, !.failed = TRUE]]
  /\ sole' = Mine(g)
  /\ UNCHANGED <<use, job, dead>>

\* llama_gen_end(): what is still held will not be completed.
End(g) ==
  /\ Calm /\ ~Free(g)
  /\ gens' = [gens EXCEPT ![g].done = TRUE,
                          ![g].said = @ \o Sanitized(gens[g].buf),
                          ![g].buf  = <<>>]
  /\ UNCHANGED <<use, ctx, job, dead, sole, blank>>

-----------------------------------------------------------------------------
(* Whole generations: one call.                                               *)

\* llama_memory_clear() from R.
Clear ==
  /\ Calm /\ use.others
  /\ ctx' = Cleared(ctx)
  /\ sole' = Nobody
  /\ UNCHANGED <<use, gens, job, dead, blank>>

\* llama_state_load(), of a state in which p alone was decoded.
Load(p) ==
  /\ Calm /\ use.others /\ Len(p) <= Room
  /\ ctx' = Restored(ctx, p)
  /\ sole' = Nobody
  /\ UNCHANGED <<use, gens, job, dead, blank>>

\* llama_generate(): prefill, then one decode for each token until the end of
\* generation.  Bound: it samples the end at once.
Generate(p) ==
  /\ Calm /\ use.others /\ ~TooLarge(p)
  /\ PrefillDone(p) \/ PrefillFails(p)
  /\ sole' = Nobody
  /\ UNCHANGED <<use, gens, job, dead>>

-----------------------------------------------------------------------------
(* Batches of prompts.                                                        *)

\* All prompts in one batch, the last token of each with output.
PromptBatch(ps) ==
  FlattenSeq([i \in 1 .. Cardinality(DOMAIN ps) |->
    LET p == ps[i - 1]
    IN [j \in 1 .. Len(p) |-> Entry(i - 1, p[j], j = Len(p))]])

\* last_logits_idx: where the last token of each prompt is in the batch.
LastIndex(ps) == LET b == PromptBatch(ps)
                 IN [s \in DOMAIN ps |-> Max({i \in 1 .. Len(b) : b[i].seq = s})]

\* One token of each running sequence, in the order of the sequences.
Nth(S, i) == CHOOSE s \in S : Cardinality({t \in S : t <= s}) = i
StepBatch(toks, active) ==
  [i \in 1 .. Cardinality(active) |->
     LET s == Nth(active, i) IN Entry(s, Last(toks[s]), TRUE)]

\* Mutant: the number of the sequence is taken for its place in the batch.
StepIndexBySeq(active) == [s \in active |-> s + 1]

\* idx_in_batch: the count of running sequences up to this one.
StepIndex(active) == [s \in active |-> Cardinality({t \in active : t <= s})]

\* Every running sequence samples its row of context c; those in `eog` sample
\* the end, idx is where the token was in the batch.  A sequence that ends is
\* removed from the memory.
SampleEach(c, j, eog, idx) ==
  LET took(s)  == s \in j.active \ eog /\ j.max > 0
      toks     == [s \in DOMAIN j.toks |->
                     IF took(s) THEN Append(j.toks[s], <<s, Len(j.toks[s]) + 1>>)
                     ELSE j.toks[s]]
      ends     == {s \in j.active : ~took(s) \/ Len(toks[s]) >= j.max}
      \* After the first token the loop does not look at the limit.
      stops    == IF j.first THEN {s \in j.active : ~took(s)} ELSE ends
  IN /\ job' = IF j.active = stops THEN Idle
               ELSE [j EXCEPT !.toks = toks, !.active = @ \ stops, !.first = FALSE,
                              !.read = [s \in DOMAIN @ |->
                                 IF s \in j.active THEN c.rows[Row(c, idx[s])] ELSE @[s]]]
     /\ ctx' = Without(c, stops)

NeededCells(ps, max) == Len(PromptBatch(ps)) + Cardinality(DOMAIN ps) * max

\* One decode of a batch and the sampling that follows it; an error frees the
\* samplers and ends the call.
DecodeAndSample(c, j, b, idx) ==
  \/ /\ Fits(c, b)
     /\ IF \A s \in j.active : HasRow(Decoded(c, b), idx[s])
        THEN /\ \E eog \in SUBSET j.active : SampleEach(Decoded(c, b), j, eog, idx)
             /\ UNCHANGED dead
        ELSE dead' = "no row" /\ UNCHANGED <<ctx, job>>
     /\ blank' = FALSE
  \/ /\ Fits(c, b)
     /\ \E k \in 1 .. NUbatches(b) : ctx' = Broken(c, b, k)
     /\ job' = Idle /\ blank' = TRUE
     /\ UNCHANGED dead
  \/ /\ ~Fits(c, b)
     /\ ctx' = c /\ job' = Idle
     /\ UNCHANGED <<blank, dead>>

BatchBegin(ps, max) ==
  /\ Calm
  /\ NeededCells(ps, max) <= Room * Cardinality(Seqs)
  /\ sole' = Nobody
  /\ IF Len(PromptBatch(ps)) > NBatch
     THEN dead' = "prompts too large" /\ UNCHANGED <<ctx, job, blank>>
     ELSE DecodeAndSample(Cleared(ctx),
            [on |-> TRUE, prompts |-> ps, max |-> max, active |-> DOMAIN ps, first |-> TRUE,
             toks |-> [s \in DOMAIN ps |-> <<>>], read |-> [s \in DOMAIN ps |-> Stale]],
            PromptBatch(ps), LastIndex(ps))
  /\ UNCHANGED <<use, gens>>

BatchStep ==
  /\ dead = "" /\ job.on
  /\ DecodeAndSample(ctx, job, StepBatch(job.toks, job.active), StepIndex(job.active))
  /\ UNCHANGED <<use, gens, sole>>

-----------------------------------------------------------------------------
Init ==
  /\ use \in Uses
  /\ ctx = [mem |-> [s \in Seqs |-> <<>>], rows |-> [r \in Rows |-> Stale],
            nOut |-> 0, ids |-> [i \in 1 .. NBatch |-> 0]]
  /\ gens = [g \in Gens |-> NoGen]
  /\ job = Idle /\ dead = "" /\ sole = Nobody /\ blank = TRUE

Handles == DOMAIN use.vocab

Next ==
  \/ \E g \in Handles : \/ NextEnded(g) \/ NextAborts(g) \/ NextEog(g)
                        \/ \E t \in use.vocab[g] : NextToken(g, t) \/ NextFails(g, t)
                        \/ End(g)
  \/ \E g \in Handles : \E n \in use.budgets[g] :
       BeginAt(g, n) \/ \E p \in use.prompts : Begin(g, p, n)
  \/ Clear
  \/ \E p \in use.prompts : Load(p) \/ Generate(p)
  \/ \E ps \in use.lists, n \in use.limits : BatchBegin(ps, n)
  \/ BatchStep

Spec == Init /\ [][Next]_vars
-----------------------------------------------------------------------------
(* Properties.                                                                *)

\* A generation that alone used the context samples after exactly its own
\* text: the memory, the row it will read and what its sampler accepted agree
\* with the tokens it has handed out, whatever failed or was begun before.
Exact ==
  \A g \in Gens :
    sole.gen = g /\ ~gens[g].done =>
      /\ ctx.mem[0] = sole.base \o Own(g, Len(gens[g].took))
      /\ HasRow(ctx, -1) /\ ctx.rows[Row(ctx, -1)] = 0
      /\ gens[g].accepted = Own(g, Len(gens[g].took))

\* Bytes can be held back only while they may still become a character: some
\* continuation bytes are missing to complete it.
Completable(buf) ==
  \E n \in 1 .. 3 : buf # <<>> => WholeAt(buf \o [i \in 1 .. n |-> "c"], 1)

\* The chunks of a stream are the text of its tokens, however the bytes of
\* characters are spread over tokens and calls and broken: nothing is lost,
\* doubled or replaced because of where it was cut, and no byte waits for what
\* cannot come.
TextWhole ==
  \A g \in Gens : ~Free(g) =>
    /\ gens[g].said \o Sanitized(gens[g].buf) = Sanitized(Pieces(gens[g].took))
    /\ ~gens[g].failed => Completable(gens[g].buf)

\* The sequences of a batch of prompts are generated apart: each samples the
\* row that follows its own prompt and tokens, one that has ended has left no
\* token in the memory, and none runs over its limit (by one token if the
\* limit is one).
SeqsApart ==
  job.on /\ dead = "" =>
    \A s \in DOMAIN job.prompts :
      /\ s \in job.active =>
           /\ ctx.mem[s] = job.prompts[s] \o Front(job.toks[s])
           /\ job.read[s] = s
      /\ s \notin job.active => ctx.mem[s] = <<>>
      /\ Len(job.toks[s]) <= (IF job.max = 1 THEN 2 ELSE job.max)

\* The process is aborted in three cases only: for prompts that together exceed
\* n_batch; for a call that samples on a context in which nothing was decoded
\* yet (llama_gen_begin_at() begins there all the same, also when a state was
\* loaded); and for one that samples after a decode failed in the middle.
\* Streams never exceed n_batch, the batches of prompts never sample a missing
\* row, and clearing or loading the memory takes no row away.
KnownAborts == \/ dead \in {"", "prompts too large"}
               \/ dead = "no row" /\ blank

\* A decode that fails in llama_gen_next() changes neither the memory nor the
\* logits of a generation that is alone: llama_gen_begin_at() can go on from
\* there.  The decode before it must have left one row: after a batch of four
\* prompts that failed, n_outputs may count two rows, and then one.
Resumes ==
  [][\A g \in Gens :
       sole.gen = g /\ ctx.nOut = 1 /\ ~gens[g].failed /\ gens'[g].failed =>
         /\ ctx'.mem = ctx.mem
         /\ HasRow(ctx', -1) /\ ctx'.rows[Row(ctx', -1)] = 0]_vars
=============================================================================
