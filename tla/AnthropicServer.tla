--------------------------- MODULE AnthropicServer ---------------------------
(***************************************************************************)
(* llama_serve_anthropic() of R/serve_anthropic.R: POST /v1/messages, with *)
(* and without streaming.  Every request is answered through next_chunk(), *)
(* which the event loop calls again and again; it waits for its turn in a  *)
(* queue of tickets, then takes the one context, generates a token a call  *)
(* and hands the context on.                                               *)
(*                                                                         *)
(* A call is one action: the phases "acquire", "start" and "finalize" are  *)
(* passed within a call.  Waiting calls change nothing and are left out.   *)
(* The HTTP layer (drogonR) is not in the repository: it calls next_chunk  *)
(* until it says done, or once with cancelled = TRUE when the client goes. *)
(***************************************************************************)
EXTENDS ReplyParse

CONSTANTS Request,
          Says,        \* the tokens the model may generate for each request
          Offers,      \* <<stream, format>> of each request
          NCtx,        \* ctx_size
          Margin,      \* tokens kept free (8 in the code)
          Prompts,     \* lengths of prompts
          MaxTokens,   \* max_tokens of each request
          Strip,       \* strip_thinking
          ParseEvery   \* a parse is forced after as many tokens (8 in the code)

ASSUME AnthropicAssumption ==
  /\ NCtx \in Nat /\ Margin \in Nat /\ Prompts \subseteq Nat \ {0}
  /\ MaxTokens \in [Request -> Nat \ {0}]
  /\ \A r \in Request : Says[r] \subseteq Text \cup {Half}
  /\ Offers \in [Request -> SUBSET (BOOLEAN \X Format)]
  /\ Strip \in BOOLEAN /\ ParseEvery \in Nat \ {0}

VARIABLES ctx_busy, q_next, q_head, q_waiting,
          kv,       \* tokens in the KV cache of the context, by request
          phase,    \* "none", "wait", "text", "done" of each request
          ticket,   \* its place in the queue, 0 before it arrived
          left,     \* tokens its generation may still take
          ended,    \* how it ended, "" before
          reply     \* what it generated and what its client received

vars == <<ctx_busy, q_next, q_head, q_waiting, kv, phase, ticket, left, ended, reply>>

\* at is a history: how long the parsed content was, with its reasoning, whenever
\* some of it was sent.
NewReply ==
  [stream |-> FALSE, format |-> "text", text |-> <<>>, buf |-> FALSE,
   emitted |-> <<>>, since |-> 0, frozen |-> FALSE, open |-> FALSE,
   out |-> <<>>, at |-> {}]

Init ==
  /\ ctx_busy = FALSE /\ q_next = 1 /\ q_head = 1 /\ q_waiting = {}
  /\ kv = [r \in Request |-> 0]
  /\ phase = [r \in Request |-> "none"]
  /\ ticket = [r \in Request |-> 0]
  /\ left = [r \in Request |-> 0]
  /\ ended = [r \in Request |-> ""]
  /\ reply = [r \in Request |-> NewReply]

-----------------------------------------------------------------------------
(* The queue.                                                              *)

\* The handler gives the request a ticket.
Enqueue(r, o) ==
  /\ phase[r] = "none"
  /\ ticket' = [ticket EXCEPT ![r] = q_next]
  /\ q_next' = q_next + 1
  /\ q_waiting' = q_waiting \cup {q_next}
  /\ phase' = [phase EXCEPT ![r] = "wait"]
  /\ reply' = [reply EXCEPT ![r] = [NewReply EXCEPT !.stream = o[1],
                                                    !.format = o[2]]]
  /\ UNCHANGED <<ctx_busy, q_head, kv, left, ended>>

\* (mutant) Whoever finds the context free takes it.
MyTurnAnyone(r) == ~ctx_busy

MyTurn(r) == ~ctx_busy /\ q_head = ticket[r]

\* The head moves past the ticket that is released, never back.
Past(r) == IF q_head <= ticket[r] THEN ticket[r] + 1 ELSE q_head

\* (mutant) The next waiter is not let in.
release_ctx_keeps_head(r) == ctx_busy' = FALSE /\ q_head' = q_head

release_ctx(r) == ctx_busy' = FALSE /\ q_head' = Past(r)

\* (mutant) A waiter that gives up releases the context.
drop_ticket_releases(r) ==
  /\ q_waiting' = q_waiting \ {ticket[r]}
  /\ release_ctx(r)

drop_ticket(r) ==
  /\ q_waiting' = q_waiting \ {ticket[r]}
  /\ q_head' = IF q_head = ticket[r] THEN ticket[r] + 1 ELSE q_head
  /\ UNCHANGED ctx_busy

\* The context is taken and given back in one call.
TakenAndReleased(r) ==
  /\ q_waiting' = q_waiting \ {ticket[r]}
  /\ release_ctx(r)

-----------------------------------------------------------------------------
(* The reply.  An event is sent to a streaming client only.                *)

Event(ev, index, delta) == [ev |-> ev, index |-> index, delta |-> delta]

Send(q, evs) == IF q.stream THEN [q EXCEPT !.out = @ \o evs] ELSE q

Start == <<Event("message_start", 0, <<>>)>>
OpenBlock(index)    == Event("content_block_start", index, <<>>)
Delta(index, delta) == Event("content_block_delta", index, delta)
CloseBlock(index)   == Event("content_block_stop", index, <<>>)
Stop == <<Event("message_delta", 0, <<>>), Event("message_stop", 0, <<>>)>>
Whole(index, delta) == <<OpenBlock(index), Delta(index, delta), CloseBlock(index)>>

\* The content of the text of a reply, by a partial parse or by the final one.
ContentOf(q, final) == Content(q.format, final, q.text)
Parsed(q, final)    == Shown(Strip, ContentOf(q, final))
Called(q) == FinalCall(q.format, q.text)

Extends(q, final) == IsStrictPrefix(q.emitted, Parsed(q, final))
Rest(q, final) == SubSeq(Parsed(q, final), Len(q.emitted) + 1, Len(Parsed(q, final)))

\* A parse on a newline, on a boundary after two tokens, or after enough tokens.
Boundary(chunk) == \E i \in DOMAIN chunk : chunk[i] \notin {"w", "u"}
DoParse(q, chunk) ==
  \/ "nl" \in ToSet(chunk)
  \/ Boundary(chunk) /\ q.since + 1 >= 2
  \/ q.since + 1 >= ParseEvery

\* What a parse reveals is sent, in a block that is opened first.
SendRest(q, final) ==
  [Send(q, (IF q.open THEN <<>> ELSE <<OpenBlock(0)>>) \o <<Delta(0, Rest(q, final))>>)
     EXCEPT !.open = TRUE, !.emitted = Parsed(q, final),
            !.at = @ \cup {Len(ContentOf(q, final))}]

AfterParse(q) ==
  IF PartialCall(q.format, q.text) THEN [q EXCEPT !.frozen = TRUE]
  ELSE IF Extends(q, FALSE) THEN SendRest(q, FALSE) ELSE q

\* A token in the text.
Taken(q, token) ==
  LET chunk == Chunk(q.buf, token)
      t == [q EXCEPT !.text = @ \o chunk, !.buf = token = Half /\ ~@]
  IN  IF ~q.stream \/ q.format = "json" \/ q.frozen THEN t
      ELSE IF DoParse(q, chunk) THEN AfterParse([t EXCEPT !.since = 0])
      ELSE [t EXCEPT !.since = @ + 1]

\* gen_end() adds what is left of a character.
Ended(q) == [q EXCEPT !.text = @ \o Stub(q.buf), !.buf = FALSE]

\* (mutant) A block whose tail a tool call held back is not completed.
LastTextUnlessFrozen(q) ==
  IF q.format = "json" /\ Parsed(q, TRUE) # <<>> THEN SendRest(q, TRUE)
  ELSE IF q.open /\ ~q.frozen /\ Extends(q, TRUE) THEN SendRest(q, TRUE) ELSE q

\* The rest of the text: all of it if it was deferred, else what follows in the
\* block that was opened.
LastText(q) ==
  IF q.format = "json" /\ Parsed(q, TRUE) # <<>> THEN SendRest(q, TRUE)
  ELSE IF q.open /\ Extends(q, TRUE) THEN SendRest(q, TRUE) ELSE q

\* Never an empty message: the raw text, or a blank.
Fallback(q) == IF q.text = <<>> THEN <<" ">> ELSE q.text

\* (mutant) The block of text stays open.
LastBlocksUnclosed(q) ==
  (IF Called(q) THEN Whole(IF q.open THEN 1 ELSE 0, <<>>) ELSE <<>>)
  \o (IF ~q.open /\ ~Called(q) THEN Whole(0, Fallback(q)) ELSE <<>>)

\* The block of text is closed, a tool call gets a block of its own, and there is
\* at least one block: the raw text if there would be none.
LastBlocks(q) ==
  (IF q.open THEN <<CloseBlock(0)>> ELSE <<>>)
  \o (IF Called(q) THEN Whole(IF q.open THEN 1 ELSE 0, <<>>) ELSE <<>>)
  \o (IF ~q.open /\ ~Called(q) THEN Whole(0, Fallback(q)) ELSE <<>>)

Finalized(q) ==
  LET t == LastText(q) IN Send(t, LastBlocks(t) \o Stop)

\* The message that says that the prompt is too long.
TooLong(q) == Send(q, Start \o Whole(0, <<"?">>) \o Stop)

Failed(q) == Send(q, <<Event("error", 0, <<>>)>>)

-----------------------------------------------------------------------------
(* The calls of next_chunk().                                              *)

Avail(len) == NCtx - len - Margin
Budget(r, len) == IF MaxTokens[r] <= Avail(len) THEN MaxTokens[r] ELSE Avail(len)

Done(r, why, q) ==
  /\ phase' = [phase EXCEPT ![r] = "done"]
  /\ ended' = [ended EXCEPT ![r] = why]
  /\ reply' = [reply EXCEPT ![r] = q]

\* gen_begin() clears the context first.
Prefilled(r, len) == [x \in Request |-> IF x = r THEN len ELSE 0]

\* The request takes the context, gen_begin() clears it and decodes the prompt.
Acquire(r, len) ==
  /\ phase[r] = "wait" /\ MyTurn(r) /\ Avail(len) >= 1
  /\ ctx_busy' = TRUE
  /\ q_waiting' = q_waiting \ {ticket[r]}
  /\ kv' = Prefilled(r, len)
  /\ left' = [left EXCEPT ![r] = Budget(r, len)]
  /\ phase' = [phase EXCEPT ![r] = "text"]
  /\ reply' = [reply EXCEPT ![r] = Send(@, Start)]
  /\ UNCHANGED <<q_next, q_head, ticket, ended>>

Reject(r, len) ==
  /\ phase[r] = "wait" /\ MyTurn(r) /\ Avail(len) < 1
  /\ TakenAndReleased(r)
  /\ Done(r, "toolong", TooLong(reply[r]))
  /\ UNCHANGED <<q_next, kv, ticket, left>>

\* The prompt cannot be built, tokenised or decoded to its end.
AcquireFails(r) ==
  /\ phase[r] = "wait" /\ MyTurn(r)
  /\ TakenAndReleased(r)
  /\ \/ UNCHANGED kv
     \/ \E len \in Prompts : \E k \in 0 .. len - 1 :
          Avail(len) >= 1 /\ kv' = Prefilled(r, k)
  /\ Done(r, "error", Failed(reply[r]))
  /\ UNCHANGED <<q_next, ticket, left>>

\* gen_next() samples a token and decodes it.
TakeToken(r, token) ==
  /\ phase[r] = "text" /\ left[r] > 0
  /\ MayGenerate(reply[r].format, reply[r].text, reply[r].buf, token)
  /\ kv' = [kv EXCEPT ![r] = @ + 1]
  /\ left' = [left EXCEPT ![r] = @ - 1]
  /\ reply' = [reply EXCEPT ![r] = Taken(@, token)]
  /\ UNCHANGED <<ctx_busy, q_next, q_head, q_waiting, phase, ticket, ended>>

\* gen_next() returns NULL: an end token, or the budget is used up.
Finalize(r) ==
  /\ phase[r] = "text"
  /\ release_ctx(r)
  /\ Done(r, "complete", Finalized(Ended(reply[r])))
  /\ UNCHANGED <<q_next, q_waiting, kv, ticket, left>>

\* gen_next() or the last parse raises an error, or the parse after a token.
TextFails(r) ==
  /\ phase[r] = "text"
  /\ release_ctx(r)
  /\ \/ UNCHANGED kv
     \/ left[r] > 0 /\ kv' = [kv EXCEPT ![r] = @ + 1]
  /\ Done(r, "error", Failed(reply[r]))
  /\ UNCHANGED <<q_next, q_waiting, ticket, left>>

\* The call with cancelled = TRUE, while it generates or while it waits.
CancelText(r) ==
  /\ phase[r] = "text"
  /\ release_ctx(r)
  /\ Done(r, "cancelled", reply[r])
  /\ UNCHANGED <<q_next, q_waiting, kv, ticket, left>>

CancelWait(r) ==
  /\ phase[r] = "wait"
  /\ drop_ticket(r)
  /\ Done(r, "dropped", reply[r])
  /\ UNCHANGED <<q_next, kv, ticket, left>>

next_chunk(r) ==
  \/ \E len \in Prompts : Acquire(r, len) \/ Reject(r, len)
  \/ AcquireFails(r)
  \/ \E token \in Says[r] : TakeToken(r, token)
  \/ Finalize(r) \/ TextFails(r)

Next ==
  \E r \in Request :
    \/ \E o \in Offers[r] : Enqueue(r, o)
    \/ next_chunk(r)
    \/ CancelText(r) \/ CancelWait(r)

\* The event loop calls next_chunk() of every request that is not done.
Spec == Init /\ [][Next]_vars /\ \A r \in Request : WF_vars(next_chunk(r))

-----------------------------------------------------------------------------
(* Properties.                                                             *)

\* While a request generates, no other one does, the context holds its tokens
\* only, and there is room for all it may still take: no decode of a token fails
\* for want of space.
Undisturbed ==
  \A r \in Request : phase[r] = "text" =>
    /\ \A x \in Request \ {r} : phase[x] # "text" /\ kv[x] = 0
    /\ kv[r] + left[r] <= NCtx - Margin

\* The context goes to the requests in the order they arrived: nobody who came
\* before is still waiting or generating.
InOrder ==
  [][\A r \in Request : phase[r] = "wait" /\ phase'[r] = "text" =>
       \A x \in Request : ticket[x] \in 1 .. ticket[r] - 1 => phase[x] = "done"]_vars

\* The head of the queue is a request that gave up while it waited.
HeadDropped ==
  \E x \in Request : ended[x] = "dropped" /\ ticket[x] = q_head

\* While requests wait, one generates, or one may take the context at its next
\* call: the queue stands still only when it reaches a request that gave up.
OnlyDroppedStalls ==
  (\E r \in Request : phase[r] = "wait") =>
    \/ \E r \in Request : phase[r] = "text"
    \/ \E r \in Request : phase[r] = "wait" /\ MyTurn(r)
    \/ HeadDropped

\* A request that waits gets its turn, in whatever order others give up: the
\* comment above drop_ticket() says that a waiter that vanished "must step out
\* of the FIFO so it doesn't wedge waiters behind it".  It does not hold: see
\* HeadDropped; no run checks this formula.
WaitersServed ==
  \A r \in Request : phase[r] = "wait" ~> phase[r] # "wait"

InBlock == {"content_block_start", "content_block_delta"}

\* Event f may follow event e.
MayFollow(e, f) ==
  \/ f.ev = "error"
  \/ e.ev = "message_start" /\ f.ev = "content_block_start" /\ f.index = 0
  \/ e.ev \in InBlock /\ f.index = e.index
     /\ f.ev \in {"content_block_delta", "content_block_stop"}
  \/ e.ev = "content_block_stop" /\ f.ev = "content_block_start" /\ f.index = e.index + 1
  \/ e.ev = "content_block_stop" /\ f.ev = "message_delta"
  \/ e.ev = "message_delta" /\ f.ev = "message_stop"

\* A client reads a well-formed message: blocks numbered from 0, one at a time,
\* each closed before the next and before the end, at least one of them.
WellFormed ==
  \A r \in Request :
    LET out == reply[r].out
    IN  /\ out # <<>> => out[1].ev \in {"message_start", "error"}
        /\ \A i \in 1 .. Len(out) - 1 : MayFollow(out[i], out[i + 1])
        /\ ended[r] \in {"complete", "toolong"} /\ reply[r].stream =>
             Last(out).ev = "message_stop"

Sent(q) == FlattenSeq([i \in DOMAIN q.out |-> q.out[i].delta])

\* No parse takes back what an earlier one gave.
Kept(q) == Regular(Strip, ContentOf(q, TRUE), q.at)

\* Once a block of text was opened, what a complete stream sent is the content
\* of the final parse, also when a tool call stopped the text and when the final
\* parse gives a call up.
TextMatches ==
  \A r \in Request :
    LET q == reply[r]
    IN  ended[r] = "complete" /\ q.stream /\ q.open /\ Kept(q) =>
          Sent(q) = Parsed(q, TRUE)

\* The same of every complete stream with content: the comment at the fallback
\* wants the raw text only "if parsing yielded neither text nor tool calls".  It is
\* false of short streams that were never parsed, and of those that sent the
\* beginning of a tag; no run checks this formula.
TextAlwaysMatches ==
  \A r \in Request :
    LET q == reply[r]
    IN  ended[r] = "complete" /\ q.stream /\ Parsed(q, TRUE) # <<>> =>
          Sent(q) = Parsed(q, TRUE)

\* No markup gets through ("this keeps the markup from ever leaking to the client",
\* R/serve_anthropic.R:659).  It does not hold when the JSON of a call is cut off;
\* no run checks this formula.
NoMarkupSent ==
  \A r \in Request : ToSet(Sent(reply[r])) \cap Json = {}
=============================================================================
