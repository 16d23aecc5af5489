---------------------------- MODULE OpenAIServer ----------------------------
(***************************************************************************)
(* llama_serve_openai() of R/serve.R: POST /v1/chat/completions, streaming *)
(* and blocking, over the generation state of r_llama_interface.cpp        *)
(* (r_llama_gen_begin, _next, _end).  All requests share one context.      *)
(*                                                                         *)
(* Handlers run on the R thread, one at a time.  A streaming request       *)
(* leaves a generator behind that the event loop calls until it says done; *)
(* between two calls any other handler may run.  One call may take several *)
(* tokens: `busy' is the request whose call has not returned yet.          *)
(*                                                                         *)
(* The HTTP layer (drogonR) is not in the repository: a stream whose       *)
(* generator raises an error ends there, and a client that goes away makes *)
(* one last call, with cancelled = TRUE.                                   *)
(***************************************************************************)
EXTENDS ReplyParse

CONSTANTS Request,
          Nobody,      \* no request
          Says,        \* the tokens the model may generate for each request
          Offers,      \* the formats of each request ("text": without tools)
          NCtx,        \* ctx_size
          Prompts,     \* lengths of prompts
          MaxTokens,   \* max_tokens of each request
          ParseEvery   \* a parse is forced after as many tokens (8 in the code)

ASSUME ServerAssumption ==
  /\ NCtx \in Nat /\ Prompts \subseteq Nat \ {0} /\ ParseEvery \in Nat \ {0}
  /\ MaxTokens \in [Request -> Nat \ {0}]
  /\ \A r \in Request : Says[r] \subseteq Text \cup {Half}
  /\ Offers \in [Request -> SUBSET Format]
  /\ Nobody \notin Request

VARIABLES strip,  \* strip_thinking, chosen when the server starts
          kv,     \* tokens in the KV cache of the context, by request
          req,    \* the requests
          busy

vars == <<strip, kv, req, busy>>

\* A request that did not arrive.  left, done, buf are of the generation state,
\* out is what the client received, text what was generated (the code keeps it
\* only if it parses).  at is a history: how long the parsed content was, with its
\* reasoning, whenever some of it was sent.
New ==
  [phase |-> "idle", format |-> "text",
   left |-> 0, done |-> FALSE, buf |-> FALSE,
   role |-> FALSE, finishing |-> FALSE, flushed |-> FALSE, n |-> 0,
   text |-> <<>>, emitted |-> <<>>, since |-> 0, frozen |-> FALSE, out |-> <<>>,
   at |-> {}]

Init ==
  /\ strip \in BOOLEAN
  /\ kv = [r \in Request |-> 0]
  /\ req = [r \in Request |-> New]
  /\ busy = Nobody

Cached == FoldFunction(LAMBDA x, y : x + y, 0, kv)

-----------------------------------------------------------------------------
(* A request arrives.                                                      *)

Fits(len, r) == len + MaxTokens[r] <= NCtx

\* r_llama_gen_begin() clears the context and decodes the prompt.
Prefilled(r, len) == [x \in Request |-> IF x = r THEN len ELSE 0]

Refuse(r, len) ==
  /\ req[r].phase = "idle" /\ ~Fits(len, r)
  /\ req' = [req EXCEPT ![r].phase = "refused"]
  /\ UNCHANGED <<strip, kv, busy>>

Open(r, len, format) ==
  /\ req[r].phase = "idle" /\ Fits(len, r)
  /\ kv' = Prefilled(r, len)
  /\ req' = [req EXCEPT ![r] = [New EXCEPT !.phase = "open", !.left = MaxTokens[r],
                                           !.format = format]]
  /\ UNCHANGED <<strip, busy>>

\* A blocking request takes all its tokens in the handler, and gets the answer or
\* the error of the final parse.
Block(r, len, k) ==
  /\ req[r].phase = "idle" /\ Fits(len, r)
  /\ kv' = [Prefilled(r, len) EXCEPT ![r] = len + k]
  /\ req' = [req EXCEPT ![r].phase = "answered"]
  /\ UNCHANGED <<strip, busy>>

Arrive(r, len) ==
  /\ busy = Nobody
  /\ \/ Refuse(r, len)
     \/ \E format \in Offers[r] : Open(r, len, format)
     \/ \E k \in 0 .. MaxTokens[r] : Block(r, len, k)

-----------------------------------------------------------------------------
(* The generator of a streaming request.                                   *)

Frame(kind, delta, why) == [kind |-> kind, delta |-> delta, why |-> why]
Emit(q, kind, delta, why) == [q EXCEPT !.out = Append(@, Frame(kind, delta, why))]

\* The call returns, or it goes on.
Return(r, q)   == req' = [req EXCEPT ![r] = q] /\ busy' = Nobody
Continue(r, q) == req' = [req EXCEPT ![r] = q] /\ busy' = r

Calls(r) == busy \in {Nobody, r} /\ req[r].phase = "open"

RawOk(q) == q.format = "text" /\ ~strip

\* The first call announces the role.
SendRole(r) ==
  /\ Calls(r) /\ ~req[r].role
  /\ Return(r, Emit([req[r] EXCEPT !.role = TRUE], "role", <<>>, ""))
  /\ UNCHANGED <<strip, kv>>

Taken(q, token) ==
  [q EXCEPT !.left = @ - 1, !.buf = token = Half /\ ~@, !.n = @ + 1,
            !.text = @ \o Chunk(q.buf, token)]

\* A parse on a newline, on a boundary or after enough tokens.
Boundary(chunk) == \E i \in DOMAIN chunk : chunk[i] \notin {"w", "u"}
DoParse(q, chunk) ==
  \/ "nl" \in ToSet(chunk)
  \/ Boundary(chunk) /\ q.since + 1 >= 2
  \/ q.since + 1 >= ParseEvery

\* parse_out(), partial and final.
ContentOf(q, final) == Content(q.format, final, q.text)
Parsed(q, final)    == Shown(strip, ContentOf(q, final))

Extends(q, final) == IsStrictPrefix(q.emitted, Parsed(q, final))
Delta(q, final) ==
  SubSeq(Parsed(q, final), Len(q.emitted) + 1, Len(Parsed(q, final)))
SendDelta(q, final) ==
  Emit([q EXCEPT !.emitted = Parsed(q, final), !.at = @ \cup {Len(ContentOf(q, final))}],
       "content", Delta(q, final), "")

\* llama_chat_parse() raises an error when the format does not fit the text.
ParseFails(r, q) ==
  q.format # "text" /\ Return(r, [q EXCEPT !.phase = "failed"])

\* What the loop does with a chunk.  q has it in its text.
Accumulate(q) == q.format = "json" \/ q.frozen
AfterParse(r, q) ==
  IF PartialCall(q.format, q.text) THEN Continue(r, [q EXCEPT !.frozen = TRUE])
  ELSE IF Extends(q, FALSE) THEN Return(r, SendDelta(q, FALSE))
  ELSE Continue(r, q)

UseChunk(r, q, chunk) ==
  IF RawOk(q) THEN Return(r, Emit(q, "content", chunk, ""))
  ELSE IF Accumulate(q) THEN Continue(r, q)
  ELSE IF DoParse(q, chunk)
       THEN AfterParse(r, [q EXCEPT !.since = 0]) \/ ParseFails(r, q)
  ELSE Continue(r, [q EXCEPT !.since = @ + 1])

Sampling(r) ==
  /\ Calls(r) /\ req[r].role /\ ~req[r].finishing
  /\ ~req[r].done /\ req[r].left > 0

\* gen_next() samples a token, decodes it and returns its chunk.
TakeToken(r) ==
  \E token \in Says[r] :
    /\ Sampling(r) /\ Cached < NCtx
    /\ MayGenerate(req[r].format, req[r].text, req[r].buf, token)
    /\ kv' = [kv EXCEPT ![r] = @ + 1]
    /\ \E q \in {Taken(req[r], token)} : UseChunk(r, q, Chunk(req[r].buf, token))
    /\ UNCHANGED strip

\* The decode finds no room: gen_next() raises an error in the generator.
FailToken(r) ==
  /\ Sampling(r) /\ Cached >= NCtx
  /\ Return(r, [req[r] EXCEPT !.left = @ - 1, !.done = TRUE, !.phase = "failed"])
  /\ UNCHANGED <<strip, kv>>

GenEnd(q) == [q EXCEPT !.done = TRUE, !.buf = FALSE, !.text = @ \o Stub(q.buf)]

\* (mutant) The rest of the content is not sent.
FlushNothing(r, q) == Continue(r, q)

\* (mutant) The loop is not told that the generation ended.
EndTokensOpen(r) ==
  /\ Calls(r) /\ req[r].role /\ ~req[r].finishing
  /\ Continue(r, GenEnd(req[r]))
  /\ UNCHANGED <<strip, kv>>

\* The last content: what the final parse has beyond what was sent.
Flush(r, q) ==
  LET tail == Stub(req[r].buf)
  IN  IF RawOk(q)
      THEN IF tail # <<>> THEN Return(r, Emit(q, "content", tail, "")) ELSE Continue(r, q)
      ELSE IF ~q.frozen /\ Extends(q, TRUE) THEN Return(r, SendDelta(q, TRUE))
      ELSE Continue(r, q)

\* gen_next() returns NULL: an end token, or the budget is used up.
EndTokens(r) ==
  /\ Calls(r) /\ req[r].role /\ ~req[r].finishing
  /\ \E q \in {[GenEnd(req[r]) EXCEPT !.finishing = TRUE]} :
       Flush(r, q) \/ ParseFails(r, q)
  /\ UNCHANGED <<strip, kv>>

FinishReason(r) ==
  IF FinalCall(req[r].format, req[r].text) THEN "tool_calls"
  ELSE IF req[r].n >= MaxTokens[r] THEN "length" ELSE "stop"

SendFinish(r) ==
  /\ Calls(r) /\ req[r].finishing /\ ~req[r].flushed
  /\ Return(r, Emit([req[r] EXCEPT !.flushed = TRUE], "finish", <<>>, FinishReason(r)))
  /\ UNCHANGED <<strip, kv>>

SendDone(r) ==
  /\ Calls(r) /\ req[r].flushed
  /\ Return(r, Emit([req[r] EXCEPT !.phase = "sent"], "done", <<>>, ""))
  /\ UNCHANGED <<strip, kv>>

\* The call with cancelled = TRUE.
Cancel(r) ==
  /\ busy = Nobody /\ req[r].phase = "open"
  /\ Return(r, [req[r] EXCEPT !.phase = "cancelled", !.done = TRUE, !.buf = FALSE])
  /\ UNCHANGED <<strip, kv>>

Generator(r) ==
  \/ SendRole(r) \/ TakeToken(r) \/ FailToken(r)
  \/ EndTokens(r) \/ SendFinish(r) \/ SendDone(r)

Next ==
  \E r \in Request :
    \/ \E len \in Prompts : Arrive(r, len)
    \/ Generator(r)
    \/ Cancel(r)

\* The event loop calls the generator of an open stream again and again.
Spec == Init /\ [][Next]_vars /\ \A r \in Request : WF_vars(Generator(r))

-----------------------------------------------------------------------------
(* Properties.                                                             *)

Sent(q)  == FlattenSeq([i \in DOMAIN q.out |-> q.out[i].delta])

Answer(q) == Parsed(q, q.finishing)

\* No parse takes back what an earlier one gave.
Kept(q) == Regular(strip, ContentOf(q, q.finishing), q.at)

\* What was sent is the beginning of the answer at any time: nothing of the
\* reasoning gets through, and nothing is sent that a later parse takes back, but
\* for the contents that Kept leaves out: those in which a beginning of <think> was
\* sent, a closing tag has no opening one, or tags are nested in tags.
SendsAnswer ==
  \A r \in Request : Kept(req[r]) => IsPrefix(Sent(req[r]), Answer(req[r]))

\* A complete stream reassembles into the answer a blocking request gets, unless
\* a tool call stopped the text or its content is one that Kept leaves out.
StreamReassembles ==
  \A r \in Request :
    req[r].phase = "sent" /\ Kept(req[r]) /\ ~req[r].frozen =>
      Sent(req[r]) = Answer(req[r])

\* Every stream ends, in whatever way the others interleave with it.
StreamEnds ==
  \A r \in Request : req[r].phase = "open" ~> req[r].phase # "open"

\* The same of every complete stream, as the test "a streamed response reassembles
\* into the blocking one" has it.  It does not hold of a stream that a tool call
\* froze before its prose was sent, nor of one that sent the beginning of a tag:
\* the rest of its answer is never sent.  No run checks this formula.
StreamMatchesBlocking ==
  \A r \in Request : req[r].phase = "sent" => Sent(req[r]) = Answer(req[r])

\* No markup gets through ("so the markup never leaks to the client",
\* R/serve.R:413).  It does not hold when the JSON of a call or of a reply is cut
\* off: the final parse then makes content of all the text (chat-parser.cpp:1632-1634).
\* No run checks this formula.
NoMarkupSent ==
  \A r \in Request : ToSet(Sent(req[r])) \cap Json = {}
=============================================================================
