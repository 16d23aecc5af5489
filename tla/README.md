# A TLA+ model of llamaR

llamaR is an R package around llama.cpp: it loads a GGUF model, creates a
context, tokenises, decodes batches, samples, streams generations, and serves
them over two HTTP APIs. These modules model the parts of it that keep state
whose correctness depends on the order of operations. TLC checks them on small
instances; for the cell array of the KV cache, the sampler handles, the log, the
splits of a batch, the generations and both servers, TLAPS proves the main
invariants for every value of the constants.

All source paths are relative to the repository root (`src/...` is C++ in the
package's `src` directory, `R/...` its R code); PROJECT.json maps every
definition to the lines it models.

## 1. The system

```
 R/serve.R, R/serve_anthropic.R        HTTP handlers, streams pumped by the event loop
        |  gen_begin / gen_next / gen_end, apply_template, parse
 src/r_llama_interface.cpp, r_chat_interface.cpp
        |  llama_decode, llama_memory_*, samplers, state files
 src/llama-context.cpp                 decode(): batch -> ubatches -> outputs
        |            \
 src/llama-batch.cpp  src/llama-memory-*.cpp, llama-kv-cache*.cpp, llama-kv-cells.h
 (checks, splits)     (where tokens live: cells, streams, recurrent states)
```

Calls on one context come from the R main thread, one at a time. Concurrency
enters in five places: the R event loop interleaves the steps of several HTTP
streams; the log has a worker thread; R's collector runs finalizers at any
allocation; a computation may fail or be aborted between the ubatches of one
decode; and operations on the cache are deferred (K-shifts, stream copies) to a
later decode.

| Component | State it keeps | Operations | What is hard |
|---|---|---|---|
| KV cells (`llama-kv-cells.h`) | per cell: position, pending shift, sequence set; cached: used set, position counts per sequence | rm, seq_rm, seq_keep, seq_add, pos_set, pos_add, pos_div, cp/set, reset | two representations of one thing that every method must keep equal |
| KV cache (`llama-kv-cache.cpp`) | one cell array and search head per stream, pending stream copies | seq_rm/cp/keep/add/div, find_slot, prepare, apply_ubatch, update | trial placement and rollback; sharing; sliding window reuse; deferred work |
| Batch allocator (`llama-batch.cpp`) | the batch, what is used | init, split_simple, split_equal, split_seq | layouts that later stages assert; order of outputs |
| Context (`llama-context.cpp`) | output buffers and row map | decode, encode, outputs, state save/restore | partial failure; lazy reordering |
| iSWA, recurrent and hybrid memories | two KV caches; cells with tails and copy sources; both | the same memory interface | two halves that must agree; an abort between two changes |
| R interface (`r_llama_interface.cpp`) | external pointers, generation states, sampler handles, LoRA and abort globals | gen_*, generate, embed, samplers, state files | object lifetimes across R's collector; two generations on one context |
| OpenAI and Anthropic servers (`R/serve*.R`) | per-request stream state; a queue of tickets (Anthropic) | handle, pump, cancel | interleaved streams on one context; incremental parsing |
| Chat layer (`chat*.cpp`, `json-partial.cpp`, `regex-partial.cpp`) | parser position | templates, incremental parsing | partial input must never be misread |
| Log (`log.cpp`) | ring of entries, worker thread | add, pause, resume, worker loop | queue wrap, stop protocol |
| Grammar and sampling (`llama-grammar.cpp`, `llama-sampling.cpp`) | rules, stacks, the begun character, the trigger buffer; chains | parse, accept, apply, reset, clone | sets of stacks; characters cut by tokens; text replayed when a lazy grammar wakes |
| Loader, mmap, quantisation | file offsets, thread work shares | load, quantise | offsets and shapes; threads |

What must hold of each, in one line: the cells' cached indices equal the
cells; the cache behaves like a bag of tokens whatever the placement; the splits
hand out each token once, in order, in the layout the cache asserts; a decode
that fails leaves what it says it leaves; a stream of a request only carries
that request's text; the one context serves one request at a time, in order;
every log line is written once and a pause returns; a handle that R keeps never
outlives what it names; a grammar lets through what it describes and nothing
else.

PROJECT.json lists, under "hazards", each place where this code can go wrong in
a way tests hardly reach, with the properties that cover it or the reason why
none does yet.

## 2. Plan

Order: the innermost component first, since all others read its answers.

| # | Modules | What | State |
|---|---|---|---|
| 1 | `KVCells`, `KVCellArray`, `KVCellsProofs` | cell array, and its proofs | done |
| 2 | `BatchOps`, `BatchSplit` | batch checks, splits, output order | done |
| 3 | `KVCacheOps`, `KVCache`, `SeqMemory` | the cache as a whole, shown to implement an abstract bag of tokens | done |
| 4 | `LogQueue` | the asynchronous log | done |
| 5 | `SamplerHandles`, `SamplerHandlesProofs` | ownership of samplers, and its proofs | done |
| 6 | `ReplyParse`, `OpenAIServer` | streams of the OpenAI server | done |
| 7 | `AnthropicServer`, `AnthropicServerProofs` | queue and streams of the Anthropic server, and proofs about the queue | done |
| 8 | `KVStreams` | a stream per sequence, and the contents of the K and V buffers: queued copies and pending shifts, snapshots taken and restored while they are pending, a failed update | done |
| 9 | `RecurrentOps`, `SeqStates`, `Memories` | the recurrent memory, shown to keep one state per sequence; sliding-window pairs and hybrids, composed of the operators of 3 and of the recurrent memory | done |
| 10 | `Utf8Text`, `Generation` | streamed, whole and batched generations on one context; the cutting of text into characters | done |
| 11 | `GrammarRules`, `GrammarStacks`, `GrammarLanguage`, `Grammar` | from the items of a grammar to rules and stacks, against the meaning of the notation | done |
| 12 | `LogQueueProofs`, `SequenceFacts`, `OpenAIServerProofs`, `GenerationProofs`, `BatchSplitProofs` | for every bound: the order of the log; when parsed content only grows; the form and the text of the streams of both servers; the text of a generation, and its context; the splits of a batch and its outputs | done |
| 13 | `JsonPartial` | the healing of partial JSON, against a reference definition | |
| 14 | `Lifetimes` | contexts and generation states under the collector, the tables keyed by the address of a context, the abort callback | |

`KVCache` is built on `KVCacheOps`, which is built on `KVCells`; `KVCacheOps`
takes batches and ubatches from `BatchOps`. `KVStreams` extends `KVCache`.
`Memories` instantiates `KVCacheOps` twice (base and window), `RecurrentOps` and
`SeqStates`. Both servers take what a parse reveals from `ReplyParse`; `Generation`
takes the cutting of text from `Utf8Text`. `Grammar` extends the walk
(`GrammarStacks` over `GrammarRules`) and the reference (`GrammarLanguage`).

## 3. The modules and the code

**KVCells** is the class `llama_kv_cells` as operators on a record: one
operator per method. `used` and `seqPos` are the caches `used` and `seq_pos`;
the row of a position counts its holders. **KVCellArray** turns each method into
an action, with the calls' preconditions (the asserts) as guards: what the class
asks of its callers. R builds compile the asserts out, and the cache does not
always keep to the one of `seq_add` (`llama-kv-cells.h:308`); `KVCacheOps` therefore uses the
operators of `KVCells` without these guards. The module adds two
history variables: the position the data of a cell was computed for, and the
cells whose position was divided.

**BatchOps** has `llama_batch_allocr`: the checks of `init`, the positions it
fills in, the four ways to split. **BatchSplit** sends one batch through
`decode`: init, splitting, one output row per output token, the selection sort
that maps rows to tokens, and the lazy reordering of rows on first access.

**KVCacheOps** has the methods of `llama_kv_cache` over one record
`[cells, head]` of streams: sequence operations, `find_slot` (search from the
head, wrap, reuse of masked cells), `apply_ubatch` with its purge, `prepare`
with its trial and restore. **KVCache** has the calls as actions; a decode is
`DecodeBegin` (checks, splits, `prepare`), then one `UbatchDone` or
`UbatchFails` per ubatch. `call` is history: the last call and its arguments.
**SeqMemory** is what callers may rely on: a bag of
tokens, each with a position and a set of sequences. Each of its actions is one call
with its arguments, and it has the variables `call` and `ret` too, so that the
refinement maps a call of the cache to the effect promised for THIS call: a removal
that removed something else, or a failed ubatch that stayed, is no step of it. Its
`KeepOnly` removes all other sequences, as the documentation says.

**KVStreams** adds what KVCache has no need of: the buffers behind the cells,
the queue of copies between streams (`sc_info`) that the update before the next
decode works off, and the state files. What a buffer holds for a cell is the
token it was computed for and the position its K was rotated to. `means` is a
history variable, the token a cell stands for to the callers; `spoiled` names the
streams that lost the agreement of both through one of the known causes.

**RecurrentOps** is the class `llama_memory_recurrent`: cells with a position, a
copy source and a set of sequences; a tail per sequence; `find_slot` with its
search, its exchange of cells and the choice of the zero cell; and `Computed`,
which cells the computation of a ubatch reads and writes. **SeqStates** is the
promise: each sequence has at most one state, known by its last position and the
tokens it was computed from, and sequences share a state until one goes on.
**Memories** has one variable `kind` for the class a model gets (recurrent, a
pair with sliding window, a hybrid of either) and sends each call to the parts in
the order of the code; the answers (`PosMin`, `PosMax`, a refusal) are combined as
there. The failed assertion of `find_slot` ends the process (`Aborts`).

**Utf8Text** has the two functions that cut text: `utf8_incomplete_tail`, which
holds back an unfinished character, and `utf8_sanitize`. A byte is one of the
classes they tell apart. **Generation** has the entry points that generate:
`llama_gen_begin`, `_begin_at`, `_next`, `_end`, `llama_generate`,
`llama_generate_batch` and the memory calls, on one context. A context is the
tokens of each sequence and the rows of logits of its last decode; a row is
abstracted to the sequence whose whole memory it follows, or Stale. Every decode
may fail at any of its ubatches (`Left`, `UbatchOf`). Each handle is begun once; a
model may end a generation at any token. `Uses` chooses between one stream with
every cut of its bytes, and two streams with everything else in between; `sole`,
`blank` and the fields `took`, `said`, `failed` of a stream are history. `BeginAt`
asks nothing of the context, as the code; `Load` puts back a memory without rows. Building
samplers and its errors, embeddings, and NUL bytes are left out.

**GrammarRules** is `llama_grammar_parser` from the items of a parsed grammar on
(literals, classes, references, groups, repetitions, token elements): the numbers
of symbols, the rules it invents, the limit on repetitions, undefined rules, the
search for left recursion. A character class is one element; names of rules do
not clash with invented ones, and a repetition has its limits in order.
**GrammarStacks** has `decode_utf8`, the `match_` functions, `advance_stack`,
rejection and acceptance; stacks form a set, candidates are rejected one by one.
**Grammar** is the sampler: `apply` and `accept` for each sampled token, the wait of
a lazy grammar for a token or a word, the replay of the buffered text, errors and
aborts, `reset`. A trigger pattern is a word searched anywhere, which is how the
package uses them. `forced` says that some token was sampled while every one was
barred. **GrammarLanguage** is the reference the sampler is compared with: which
texts are sentences, which can still become one, defined over the items and not
over rules and stacks.

**LogQueue** is `struct common_log`: callers of `add`, the worker (takes under
the mutex, prints outside of it) and a controller that calls pause, resume,
flush and set_file. A message is its number.

**SamplerHandles** is ownership only: samplers are allocations, chains contain
samplers, R handles hold them; `r_llama_sampler_*` and the finalizer are the
actions.

**ReplyParse** is the text as the servers see it: `llama_chat_parse()` for three
formats (without tools; Mistral Nemo, whose calls follow a mark in the prose; Generic, whose whole text
is one JSON object) and `.strip_thinking()`. A text is a sequence of
pieces, and a token adds none, one or more of them; `<think>` and `</think>` are two pieces
each, the mark of a call is two, a call and a reply have a beginning and an end, and
a character may be two tokens, so that each can be cut where a token ends. The
partial and the final parse are two functions. A partial one holds back a begun
mark and has a call as soon as its name is complete; a final one that finds the JSON unfinished
gives up the calls, goes back to the beginning and adds the whole text to the content it
had (`Abandoned`, `chat-parser.cpp:1632-1634`). `Generable` is what the grammar of a request lets
the model say. A parse may raise an error (`ParseFails`, `TextFails`).
`.strip_thinking()` is its four substitutions, each on what the one before left.
**OpenAIServer** has the handler and, call by call, the generator of each
stream; a call may take several tokens, and between two calls other requests
run. **AnthropicServer** has the queue of tickets, the phases of `next_chunk`,
and the events sent. In both, the generation below is its budget and what the
KV cache holds of each request.

The HTTP layer (drogonR) is outside of the repository. The servers use it in
one way: it calls the generator of a stream again and again until it says done,
or once more with `cancelled = TRUE`.

## 4. The runs

| Run | Question | Instance | Why it is enough |
|---|---|---|---|
| kv_cells | do the caches of the cell array agree with the cells, and does the shift account for every move | 2 cells, 2 sequences (symmetric), positions 0..2, shifts up to 2 | a cell and another one, a sequence and another one; the proofs cover the rest |
| batch_split | is each token computed once, in order, in the layout find_slot asserts; are output rows found again | all batches of up to 3 tokens over 3 sequences, with coupled ones, and all of 4 uncoupled tokens; ubatches of 1..3 | a set split over ubatches, three sets of different length, two swaps |
| kv_unified | does the shared cache implement the bag of tokens, through moves, divisions, and refused, failed and aborted decodes | 3 cells, 2 sequences, positions 0..2, ubatches of 2, batches of up to 3, one with a token of both sequences; wrong counts are checked when they arise and not followed (`InScope`) | scattered free cells, shared cells and one shared again, a second ubatch that fails |
| kv_streams | with a stream per sequence (what llamaR contexts use): do the buffers hold what the cells stand for, through queued copies, shifts and state files | 2 streams of 2 cells, positions 0..1, 2 tokens; snapshots of everything and of sequence 0, one call between a snapshot and its use; 2 queued copies | a chain of two copies, a copy of a shifted stream, a snapshot and a call that spoils it |
| kv_restore (violation) | is a snapshot of the whole context restored as it was | same | the counterexample |
| memories | does the recurrent memory keep the state of each sequence; do the parts of a pair or a hybrid stay in step | recurrent: 3 sequences; hybrid: 2; with a window: 1 sequence, 6 base cells, 4 window cells, window 2; ubatches of 2; positions as they come, up to 5 | a third cell between the two of a ubatch; a window that wraps over its cells; a shared state of which one goes on |
| log_queue | is a message lost, doubled, overtaken or sent to another file; does pause end | a ring of 2 that grows to 4 and 8, 5 messages, 3 controller calls | growth at every offset of head, a second pause after a resume |
| sampler_handles | is a sampler freed twice or leaked; does a stale handle pass | 4 samplers, 3 handles (symmetric), generations up to 2 | a chain in a chain with a member, a handle to each; the proofs cover the rest |
| generation | does a stream continue its own text, is its text cut without loss, are the sequences of a batch kept apart, when is the process aborted | 2 sequences of 6 cells, n_batch 3, n_ubatch 2; two streams, prompts of 2 and 4 tokens, limits 0..2, restored states; one stream of 3 tokens over four pieces of bytes | a prompt of two decodes, a decode of two ubatches of which either fails, one stream in the way of another, characters over three tokens |
| server | is what a stream sent the answer; does every stream end | 2 requests: one of 3 tokens in any format, over 9 tokens that cut tags, marks and JSON; one of half a character; context of 4, with prompts that leave room and that do not | reasoning around a word, a tag over two tokens, a call after prose that stays unfinished, a request in the way of another |
| anthropic | who has the context, in which order; are the events well formed; is the text that of the final parse | 3 requests: a stream of 4 tokens in the two formats with tools, over 8 tokens that cut tags, marks and JSON; a blocking one; a stream of half a character; context of 6, prompts that fit exactly and that do not | a waiter behind a waiter; a block, a call that freezes it and a tail; a tag within a tag; the proofs cover the rest |
| grammar | does the sampler offer exactly the tokens the grammar allows, and when does it fail | 13 grammars (nesting, ranges, negated classes, wide characters, dead ends, nested repetitions, token elements, lazy ones, refused ones), up to 8 tokens each, some of which cut a character; 5 sampled tokens | each kind of item in at least one grammar, each place a character can be cut, a trigger inside a token |

Every bound is a constant of a configuration; `MaxPos`, `MaxShift`, `MaxAdds`,
`MaxPauses`, `MaxGeneration`, `MaxPending`, `MaxBetween` and `MaxTokens` only stop
counters that the code lets grow. `Followed` in `Memories` is a bound as well:
once the states of a recurrent memory are mixed up (which only the causes below
do), only `clear` and `decode` are followed; `InScope` stops kv_unified likewise at wrong
counts, which would grow without end. A throttle of the servers, 8 tokens in
the code, is `ParseEvery`, 2 or 3 here, so that both the boundary rule and the
forced parse happen; the margin of 8 tokens is `Margin`; the limit of repetitions,
2000 in the code, is `MAX_REPETITION_THRESHOLD`, 28 here. Symmetry is used
where the values are only compared, and in runs without liveness. Three runs
have a VIEW that hides what neither an action nor a property reads: the last
answer, and in kv_streams the contents of streams that are spoiled.

Deadlock is not checked where the system may stop: a batch whose rows were
read, a log whose callers are done, samplers used up, all requests answered, a
process that was aborted. The cell array and the KV cache never stop, so their
runs check it.

### What the properties leave out

Each exception below is a place where the code does not do what one would like
to claim; the property says so by name instead of hiding it.

- `DataMatches` excepts `spoiled` streams: a snapshot taken while a copy or a
  shift is pending, a restore into a stream that a queued copy is still to
  overwrite, and an input that ended early.
- `ImplementsStates` and `SoundKept` start from `Sound` recurrent memories:
  tails that name their cell, and empty cells that stand for the zero state. A failed
  ubatch and a removal with negative sequence break that (below).
- `EndsAgree` is claimed for hybrids without `seq_keep`, `seq_add` and removals
  of all sequences: the attention part has one stream per sequence and keeps the
  other streams, the recurrent part drops them.
- `WindowKept` is about computing the ubatches, not about the trial that
  precedes them.
- `UbatchUndone`, and `Fail` of `SeqMemory`, leave out the further sequences of a
  coupled token: the cleanup looks at the first one only.
- `ImplementsMemory` claims nothing while a position is counted too often, and says
  that only a repeated share brings that about. `StreamsImplementMemory` lets `seq_keep`
  leave everything as it is.
- `SendsAnswer`, `StreamReassembles` and `TextMatches` leave out the contents that are
  not `Regular`: a parse was made when a token ended in the `<` of `<think>`, which is then
  sent, and the parse that finds the tag complete takes it back; a closing tag without an
  opening one takes back all before it; what is left around a pair of tags
  joins to a new tag. In each case nothing that follows is ever sent. TLC shows that
  each of the three has to be named.
- `Exact` is about a stream that was alone on its context; `KnownAborts` names the
  three causes of an abort. `Resumes` is about a generation that finds one row in the
  output, as every decode of its own leaves it (section 5 says what fails otherwise).
- `OffersExactly` leaves out tokens that end in a begun character which could become
  one that a class excludes; and it says of a refused grammar that it bars nothing; it ends when a barred token
  is sampled, and it does not say whether a text may end while a character is
  incomplete.

### Fairness

- `LogQueue`: the worker thread is scheduled, and so is the controller inside
  a call it has started. Callers of `add` and the start of a controller call
  are not fair: nobody need log or pause.
- `OpenAIServer` and `AnthropicServer`: the event loop calls the generator of
  every open stream again and again (weak fairness of each request's steps).
  That a client goes away, or that a request arrives, is not fair. A model may
  go on until its budget is used up; fairness does not make it stop.
- The other modules state no fairness and no liveness: their callers need not
  call.

### What the violation run shows

*kv_restore*: restoring a snapshot of the whole context reads stream after
stream, and each stream begins with `clear(true)`, which empties all of them
(`llama-kv-cache.cpp:2142`). Only the last stream that held tokens comes back.
`OneStreamExact` and `SeqLoadExact` are the parts that hold.

### Met while modelling, without a run

Each of these shows when a model states more than the properties of the runs
do. Where a module has the stronger formula, its name is given; TLC refutes it.

Memory and state files

- `llama_state_get_data` writes model information and the memory only
  (`llama-context.cpp:2929`), although `llama.R:2448` says "KV cache, logits,
  embeddings".
- An input that ends early leaves cells of a restored sequence in place without
  their data. A snapshot taken, or restored, while copies or shifts are pending
  mixes old and new contents. Restoring an empty snapshot leaves what was there.
- `seq_keep` without a unified cache leaves the other streams alone
  (`llama-kv-cache.cpp:494`), although `llama.R:2300` and `llama.h:741` say that it removes all
  sequences but one (`KVStreams!KeepRemovesOthers`). In llamaR, where a context has
  a stream for each sequence, it removes nothing.
- `pos_div` accumulates the shift with the opposite sign of `pos_add`
  (`llama-kv-cells.h:451`, `:420`), so that K is rotated the wrong way. A repeated
  copy counts a sequence twice, assertions being off (`llama-kv-cells.h:308`): the
  positions that the cache reports are then wrong after the next removal.
- `prepare()` (`llama-kv-cache.cpp:723`) restores the cells it tried, but
  `apply_ubatch()` may purge positions from other cells during the trial, and
  those stay purged (`Memories!TrialKeepsWindow`). The heads of a trial are
  restored from `v_heads_old[s]`, where `s` counts the streams of the ubatch
  instead of naming one (`llama-kv-cache.cpp:732`).
- A failed decode of coupled sequences cleans up the first sequence of each token only
  (`llama-context.cpp:1771`), although the comment at `:1761` speaks of removing all positions of
  the ubatch (`KVCache!UbatchAlwaysUndone`). For recurrent and hybrid memories the recurrent
  part, which cannot go back, refuses the clean-up: the ubatch that failed stays
  in the memory, although by `llama.h:955` only those that were processed do.
- Recurrent memory: a failed ubatch can leave an empty cell with itself as its
  source, from which a new sequence then starts, and states in wrong cells
  between those of the batch; `seq_rm(-1)` leaves stale tails, which an assertion
  of `find_slot` meets later; `seq_add` can leave a cell at position -1;
  `seq_add` and `seq_div` of one sequence move the position of all that share the
  cell; a copy from an empty sequence clears its destination, while an attention
  cache that is shared leaves it.

Batches and generation

- `split_equal` tests the number of sequence sets after it added one
  (`llama-batch.cpp:546`), so with more sets than `n_ubatch` a ubatch has one
  token too many; the checks of `init` for partial subsets and for decreasing
  positions never fire.
- `llama_generate_batch` returns two tokens for `max_new_tokens = 1`
  (`r_llama_interface.cpp:1636`), and aborts the process if the prompts together
  exceed `n_batch` (`llama-context.cpp:1657`), which `llama_generate` avoids by
  cutting its prompt (`:1041`). Its capacity rule (`llama.R:1235`) compares totals,
  although each sequence has cells of its own.
- After a decode that failed before the ubatch of its output, `llama_gen_next` of
  another stream ends in an assertion (`llama-sampling.cpp:845`) instead of an
  error; index -1 may resolve to a row that an earlier decode left. The same
  assertion ends `llama_gen_next` after `llama_gen_begin_at` on a context that decoded nothing
  yet, be it new or just restored: a state has no logits, and nothing checks for them
  (`r_llama_interface.cpp:1350`).
- `utf8_sanitize` lets overlong leads and surrogates through. A piece with a NUL
  byte makes building the R string fail, and the buffer that is held back stays.
- Streamed chunks differ from the text of `llama_generate` for vocabularies that
  add a space at the front (`llama-vocab.cpp:3417`), although `llama.R:1209` says
  that they add up to it.
- The abort callback is one slot for the whole process; a generation state keeps
  the address of its context without keeping the context.

Grammar

- A grammar that is refused gives a null sampler, which the chain stores
  (`r_llama_interface.cpp:624`) and passes over (`llama-sampling.cpp:364`):
  generation goes on without any constraint and without an error.
- Left recursion through a rule that is empty only by way of another
  (`expr ::= ws expr "+" t | t` with `ws ::= " "*`) is not found, and
  `advance_stack` then never ends. `"a"{3,2}` wraps its count around.
- `apply` lets a token pass whose characters run into a token element
  (`llama-grammar.cpp:1041`), `accept` then raises an error, and the next call
  ends in an assertion (`:900`). `FailsOnlyKnown` names this case.
- The end of generation is offered while a character is incomplete. A negated
  class with a character of several bytes rejects every token that ends in its
  first byte, although others could follow and the comment at `llama-grammar.cpp:745` says that
  some continuation is enough (`Grammar!OffersAllThatContinue`).
  Token elements never match a token that cuts a character. If every token is
  barred and one is sampled all the same, a byte that does not continue the begun
  character is skipped and the stacks stay.
- A rule that a user names like an invented one (`root_2`) collides with it.

Log, samplers, servers

- Log: the end mark of `pause()` is pushed without the check for a full ring
  (`log.cpp:299`). With one free slot the ring then reads as empty, the pending
  messages are lost and `join()` never returns (`LogQueue!PauseAlwaysReturns`);
  `PauseReturns` is the part that holds. Messages other threads log during
  `flush()` are dropped.
- Samplers: freeing a chain marks only its own record, though it frees the
  chains inside it as well (`r_llama_interface.cpp:3375`), so a handle to a
  member of an inner chain still passes (`SamplerHandles!HandleSafe`);
  `FlatHandleSafe` is the part that holds. Removing a member from a chain retires
  the handles of the other members as well, and two chains can be added to each
  other, after which both leak.
- OpenAI server: prose generated before a tool call but not sent when the call
  surfaced never reaches the client (`serve.R:442`), although the comment at
  `serve.R:439` says that it goes out at the end; if the template wrote the
  opening `<think>`, reasoning is streamed until the closing tag arrives, after
  which the parse no longer extends what was sent, and the answer is never sent
  (`serve.R:422`); and if a token ends in the `<` of `<think>`, which is a boundary
  (`serve.R:403`), the `<` is sent and nothing after it
  (`OpenAIServer!StreamMatchesBlocking`). A second request clears
  the cache under a running stream (`serve.R:333`).
- Both servers: when the JSON of a call is cut off, by the token limit for one, the final parse adds the
  whole text to the prose it has already (`chat-parser.cpp:1632-1634`): the prose is there twice,
  with the markup behind it. A stream that no call froze sends that (the Anthropic
  server also one that a call froze, whose block is open), although the comments at
  `serve.R:413` and `serve_anthropic.R:659` say that markup never leaks
  (`OpenAIServer!NoMarkupSent`, `AnthropicServer!NoMarkupSent`). A cut reply of the
  Generic format is sent as JSON.
- Anthropic server: a request that gives up while another one generates stays a
  hole in the queue. `drop_ticket()` moves the head only if it is at the head;
  `q_waiting`, where it is taken off, is never read. The head later stops at the
  hole and every request after it waits for ever (`AnthropicServer!WaitersServed`;
  comments at `serve_anthropic.R:419` and `:480`); `OnlyDroppedStalls` is the part
  that holds. A stream that ends before the first parse has no open block, and the
  fallback then sends the raw text, with reasoning and markup, although the final
  parse has content (`serve_anthropic.R:890`) (`AnthropicServer!TextAlwaysMatches`);
  `TextMatches` is the part that holds.

## 5. What is proved

**KVCellsProofs** (any number of cells, any finite or infinite set of
sequences, any largest position): `TypeCorrect`, `IndexCorrect`, `ShiftCorrect`.
The invariant is `TypeOK /\ IndexOK /\ SavedClean`. `TypeOK` alone is not
inductive: that no count goes below zero follows from the counts being the
numbers of holders, which is `IndexOK`; and `set()` writes back cells that `cp()`
saved, so these need to be clean (`SavedClean`: an empty cell has no
sequences). Each method is a lemma `...Sound`; most follow from `OneCell`: if
the counts agreed before, and one cell's contributions are exchanged for its new
ones, they agree after. Assumptions: `KVCellsAssumption` (at least one cell, a
natural largest position) and what `KVCellArray` assumes of the arguments callers
pass.

**SamplerHandlesProofs** (any sets of samplers and handles): `Invariance`,
`SingleOwnerCorrect`, `FlatHandleSafeCorrect`, `RetiredCorrect`. The invariant is
`TypeOK`, `SingleOwner` (a live sampler has one owner, handle or chain),
`Links` (a handle with a parent: while its check passes, its sampler is in that
chain), `ChainsHeld` (a chain that never joined another one and whose record is
alive is owned by the handle it was made with) and `UnbornClean`. `SingleOwner`
makes freeing recursive chains safe; `ChainsHeld` is what ties a record to a
live chain, and fails for nested chains, which is where the code fails.

**AnthropicServerProofs** (any number of requests, any prompts and budgets,
whatever the model says): `Invariance`, `UndisturbedCorrect`,
`OnlyDroppedStallsCorrect`, `InOrderCorrect`. The invariant adds to the types:
tickets are handed out once and without gaps (`Tickets`); the head is the
ticket of whoever generates, nobody who waits is behind it, and who is done
before it got there gave up (`Heads`); the context is marked busy exactly while
a request generates (`Busy`); and its cache and budget fit the context
(`Room`). The calls that end a request at the head share one lemma
(`ServedIInv`).

The second part of the module is about what clients read: `RepliesInvariance`
and `WellFormedCorrect` (the form of a stream does not depend on what a parse
reveals: each state of a reply allows one form of what was sent), then
`TextsInvariance` and `TextMatchesCorrect`. The invariant `SoFar` says that what a
stream sent is what was emitted, and that this is what is shown of a beginning of the
content of the text so far, at one of the lengths in `at`. The content of a partial parse grows with the
text and is a beginning of that of the final parse, which may add to it (a call given up)
but takes nothing of it back; what is SHOWN of a content grows with it by
`ContentGrows`. So the final parse extends what was sent, and closing the stream sends the rest.

**LogQueueProofs** (any size of the ring, any number of messages, files and
pauses): `Invariance`, `FileInOrderCorrect`, `PauseFlushesCorrect`. The invariant
`InRing` gives each message accepted and not yet printed its slot of the ring,
through growth and wrap-around, with the end mark behind them; `InWorker` the one
the worker has in hand; `Fresh` the file of those still to print. The case
`head = tail` after the end mark has filled the ring is part of it: the ring looks
empty, the worker never leaves its loop, and nothing more is printed, so the
order still holds (the missing check is a hazard of `PROJECT.json`).

**SequenceFacts** is the induction these proofs use: over sets of numbers, up
and down; functions defined by steps exist; what flattening gives for an
appended element and for two parts; and that the ranks in a finite set of numbers
count from one (`RanksAre`). Applied to the texts of `ReplyParse` it gives
`ContentGrows`, the fact behind sending the difference between two parses. For a content
and a beginning of it, what is shown of the beginning is a beginning of what is shown
of the whole, provided the cut is not within an opening tag, every closing tag closes an opening one
and no `<` is before a `<` (`Regular`). Each hypothesis is needed: `serve.R:420-421`
says itself that a partial parse can rewrite its tail. The proof shows that then
the four substitutions of `.strip_thinking()` leave what is outside of the tags
(`DropsReasoning`), piece by piece. The properties of the servers carry the hypothesis.

**OpenAIServerProofs** (any requests, any generated text): `AnswersInvariance`,
`SendsAnswerCorrect`, `StreamReassemblesCorrect`. The invariant `Answers` says what
was sent of each request: the generated text itself if nothing is filtered, else what was
emitted, which is what is shown of a beginning of the content, cut where a parse
was made; and all that the final parse shows once the stream ends and no call stopped it.

**GenerationProofs** (any tokens, cut into any bytes, any calls in any order):
`StreamsInvariance`, `TextWholeCorrect`. Two lemmas about the code carry it:
`CutSanitized` (where no character goes over a cut, the two parts are sanitised
apart), by a scan of the text from its end; and `TailIs` (what
`utf8_incomplete_tail` holds back is a character that lacks bytes at the end, or
nothing, and then there is none). The invariant is `Sealed`: what was handed out
may well end in a broken character, but then the bytes that follow begin
with something else than a continuation, so nothing can complete it later. This is
what makes cutting sound, and it is not visible in `TextWhole`.

The second part is about the context: `ContextsInvariance`, `ExactCorrect`,
`KnownAbortsCorrect`, `SeqsApartCorrect`, `ResumesCorrect`, for any number of sequences, any `n_batch`
and `n_ubatch` that hold one token of each, any prompts, and any ubatch that
fails. The chain of lemmas follows a decode: what a ubatch takes of each sequence
(`AfterUbatchIs`; it always takes something, so `LeftIs`: all tokens are taken in
the end; then the memory has exactly the tokens of each sequence, `AllTokens`), what
is stored of tokens of one sequence (`OneStored`) and which row they
leave (`DecodedOne`, `BrokenOne`), and that the chunks of a prefill are the prompt
(`ChunksAre`, `PrefilledFills`). Of a batch of several sequences `Feeds` says which
tokens it has of each, that only the last of each has output, and where that one is;
both batches of `r_llama_generate_batch()` are of this form (`PromptFeeds`, `StepFeeds`:
the index the code counts is the place the token has), and a decode of
such a batch adds its tokens and leaves each sequence a row that follows its own
(`DecodedFeeds`). The invariant `Contexts` adds three parts to the properties: no generation is alone while a batch
of prompts runs (`Jobs`); what `Exact` says holds of a generation that is
not ended, with a base that is a sequence (`Sole`); and a row to sample from exists as
soon as a decode was made, unless one failed in the middle (`Ready`: without it
`KnownAborts` is not inductive, since the abort is a later call's; a restored memory
takes no row away, `RestoredReady`). For `SeqsApart` there is `Apart` next to it: a
sequence that goes on has a token, the last of which is not decoded yet, and
either that one token or fewer than its limit (`Within`: the code does not look
at the limit after the first token, so the bound alone is not inductive).

These proofs rest on
`SeqsAssumption`, `SizesAssumption`, `UsesAssumption` (a prompt without tokens is
refused, and `prompts` is numbered from 0 and within `n_seq_max`, all checked in the
code; limits are integers, of any sign) and `GensAssumption` (no generation is called "none").

The attempt to prove `Resumes` showed that it was false as first stated. When
the decode of four prompts fails in a late ubatch, `n_outputs` may be 2 with the
second row following sequence 0; `llama_gen_begin_at()` accepts that row, and
a failing `llama_gen_next()` sets `n_outputs` to 1, so that its last row is the one of
another sequence. The instance of two sequences that TLC checks is too small
for this; one of four shows it (it is no run of its own). The property now says "if one row was left".

**BatchSplitProofs** (any batch of tokens that list sequence ids, with positions
or without, any `n_ubatch`, each of the four splits, and whatever the memory
reports): `Invariance`, `EachTokenOnceCorrect`, `KeepsOrderCorrect`,
`BlocksMatchStreamsCorrect`, `OutputsResolveCorrect`. The argument has three parts.
- *The splits.* All four satisfy one contract, `Takes`: the tokens of a ubatch were
  not handed out before, are all different, and, if the batch keeps one set of ids per
  sequence (`Tidy`), are in the order of the batch and leave every later token of
  their sequences behind them. The loops of `split_equal` and `split_seq` that go once over the batch
  are instances of one scan (`Scans`), and what a scan picks is stated without its
  recursion (`Picks`: token i is picked if it joins those picked before it). The ubatch of
  an equal split is blocks of one length (`InBlocks`). That a sequential one has its
  blocks in the order of the unique ids comes from `LeadingIdsListed`: ids that
  count up by one are the increasing list of their set, and there is only one
  such list (`ListedOnly`).
- *The batch.* `Handed` carries the contract over the ubatches handed out so far. The
  property `KeepsOrder` alone is not inductive: a later ubatch could hold a token that
  should have come before, unless no token left behind precedes one of its
  sequence that was handed out (`Behind`). `split_simple` needs one thing
  more: it goes on from the first unused token without looking at the later ones, which
  is right since the used ones are always the first of the batch (`FirstTokens`).
- *The outputs.* `SelectionSorts`: the sort puts the ids in increasing order, keeps their set, and the swaps
  it records, replayed on the unsorted ids, give the sorted ones. The rows are those
  ids before the sort (`OutputsInv`), hence the sorted ones after `output_reorder`.

The proofs rest on `BatchSplitAssumption`: sequence ids are natural numbers, every token lists
one at least (`init` fills in sequence 0), `n_ubatch` is not zero. That a token's ids
are below `n_seq_max` is checked by `init` before anything else. They also show
that the acceptance checks of `init` play no part in the four properties: the splits
hand out a batch that `init` would reject just as well.

Proofs of `Spec => []P` combine `Init => IInv`, `IInv /\ [Next]_vars => IInv'` and
`IInv => P`.

### Only model-checked

Liveness (`PauseReturns`, `StreamEnds`), since TLAPS has no fairness here; the cache
operations over ranges of cells and the contents of the buffers, built by
folds over sets and sequences, not proved so far: the correctness of the cache
rests on the proved lemmas about single cells and on TLC for how they are
composed; the refinements of `SeqMemory` and `SeqStates`; `DataMatches`, `SwaWithinBase` and
`EndsAgree`, which rest on these operations; and the grammar (`OffersExactly`), whose modules are recursive where the
code is.

## 6. What is not modelled

- *Values*: logits, attention, what samplers compute, quantisation, vocabulary
  and text. The modelled code depends on them only through a choice (which
  token, which piece). Most of the tree is of this kind, or generated or
  third-party code: model graphs, tables of characters, the JSON library, the
  HTTP client, the image encoder. What is modelled is a small share of the lines.
- *State files*: their format, the model information in front, the list of
  session tokens, and the states of a recurrent memory. `KVStreams` has what they
  do to a KV cache.
- *Lifetimes of models and contexts, LoRA tables, abort callback*: planned (14).
  The tables are keyed by the address of a context, and an entry stays after the
  context is freed.
- *Chat and JSON parsers*: of the formats of `chat-parser.cpp` three are in
  `ReplyParse`; the others, the templates and the healing of unfinished JSON are not; planned (13).
- *Grammar*: the characters of the notation, regular expressions beyond a word
  searched anywhere, characters of four bytes, `clone`, and the converter from
  JSON schemas.
- *Memories*: `seq_add` on pairs and hybrids (it differs from `seq_div` in the new
  position), one sequence per ubatch (embeddings), the optimisations of updates.
- *Request translation, captions of images, blocking JSON bodies, wording of
  errors*: text to text.
- *Downloading, loading, memory mapping, vision, vendored libraries, model
  graphs*: input and output, third-party code, or functions without state.
- Multi-dimensional positions (M-RoPE) of cells and batches.
