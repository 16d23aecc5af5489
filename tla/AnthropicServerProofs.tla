----------------------- MODULE AnthropicServerProofs -----------------------
(***************************************************************************)
(* Proofs about AnthropicServer, for any number of requests, any prompts   *)
(* and any generated text.  First the queue, where the replies play no     *)
(* part; then the form of what a client receives, where what a parse       *)
(* reveals plays no part; then what it carries, which rests on             *)
(* ContentBegins and ContentGrows of SequenceFacts.                        *)
(***************************************************************************)
EXTENDS AnthropicServer, SequenceFacts

Phases == {"none", "wait", "text", "done"}
Ends   == {"", "complete", "toolong", "error", "cancelled", "dropped"}

TypeOK ==
  /\ ctx_busy \in BOOLEAN /\ q_next \in Nat \ {0} /\ q_head \in Nat \ {0}
  /\ kv \in [Request -> Nat] /\ left \in [Request -> Nat]
  /\ phase \in [Request -> Phases]
  /\ ticket \in [Request -> Nat]
  /\ ended \in [Request -> Ends]

\* Tickets were handed out in order, each to one request.
Tickets ==
  /\ \A r \in Request : ticket[r] < q_next
  /\ \A r \in Request : phase[r] = "none" <=> ticket[r] = 0
  /\ \A r, x \in Request : ticket[r] = ticket[x] /\ ticket[r] # 0 => r = x
  /\ \A k \in 1 .. q_next - 1 : \E r \in Request : ticket[r] = k

\* The head is the ticket of whoever generates; nobody who waits is behind it,
\* and who is done before it was reached gave up.
Heads ==
  /\ q_head <= q_next
  /\ \A r \in Request : phase[r] = "text" => ticket[r] = q_head
  /\ \A r \in Request : phase[r] = "wait" => ticket[r] >= q_head
  /\ \A r \in Request : phase[r] = "done" /\ ticket[r] >= q_head => ended[r] = "dropped"

\* The context is marked busy while a request generates, and only then.
Busy == ctx_busy <=> \E r \in Request : phase[r] = "text"

\* The context of a request that generates.
Room ==
  \A r \in Request : phase[r] = "text" =>
    /\ \A x \in Request \ {r} : kv[x] = 0
    /\ kv[r] + left[r] <= NCtx - Margin

IInv == TypeOK /\ Tickets /\ Heads /\ Busy /\ Room

-----------------------------------------------------------------------------
(* What the invariant says of the requests.                                *)

\* At most one request generates.
LEMMA OneGenerates ==
  ASSUME IInv, NEW r \in Request, NEW x \in Request,
         phase[r] = "text", phase[x] = "text"
  PROVE  r = x
BY DEF IInv, TypeOK, Tickets, Heads

\* The room of the one request that generates is its own.
LEMMA IInvUndisturbed == IInv => Undisturbed
BY OneGenerates DEF IInv, Room, Undisturbed

\* Whoever holds the ticket at the head waits, or is done and gave up.
LEMMA IInvOnlyDroppedStalls == IInv => OnlyDroppedStalls
<1>1. SUFFICES ASSUME IInv, NEW w \in Request, phase[w] = "wait",
                      \A r \in Request : phase[r] # "text"
               PROVE  (\E r \in Request : phase[r] = "wait" /\ MyTurn(r)) \/ HeadDropped
  BY DEF OnlyDroppedStalls
<1>2. q_head \in 1 .. q_next - 1
  BY <1>1 DEF IInv, TypeOK, Tickets, Heads
<1>3. PICK x \in Request : ticket[x] = q_head
  BY <1>1, <1>2 DEF IInv, Tickets
<1>4. phase[x] \in {"wait", "done"}
  BY <1>1, <1>2, <1>3 DEF IInv, TypeOK, Phases, Tickets
<1>5. CASE phase[x] = "wait"
  BY <1>1, <1>3, <1>5 DEF IInv, Busy, MyTurn
<1>6. CASE phase[x] = "done"
  <2>1. ended[x] = "dropped"
    BY <1>1, <1>3, <1>6 DEF IInv, TypeOK, Heads
  <2> QED
    BY <1>3, <2>1 DEF HeadDropped
<1> QED
  BY <1>4, <1>5, <1>6

-----------------------------------------------------------------------------
(* The invariant is inductive.                                             *)

\* No ticket was handed out and nobody generates.
LEMMA InitIInv == Init => IInv
<1> SUFFICES ASSUME Init PROVE IInv
  OBVIOUS
<1>1. q_next = 1 /\ q_head = 1
  BY Zenon DEF Init
<1>2. /\ kv = [r \in Request |-> 0] /\ left = [r \in Request |-> 0]
      /\ ticket = [r \in Request |-> 0]
      /\ phase = [r \in Request |-> "none"] /\ ended = [r \in Request |-> ""]
  BY Zenon DEF Init
<1>3. \A r \in Request : phase[r] = "none" /\ ticket[r] = 0
  BY <1>2
<1>4. TypeOK
  <2>1. ctx_busy \in BOOLEAN
    BY Zenon DEF Init
  <2>2. q_next \in Nat \ {0} /\ q_head \in Nat \ {0}
    BY <1>1
  <2>3. kv \in [Request -> Nat]
    BY <1>2
  <2>4. left \in [Request -> Nat]
    BY <1>2
  <2>5. ticket \in [Request -> Nat]
    BY <1>2
  <2>6. phase \in [Request -> Phases] /\ ended \in [Request -> Ends]
    BY <1>2 DEF Phases, Ends
  <2> QED
    BY <2>1, <2>2, <2>3, <2>4, <2>5, <2>6 DEF TypeOK
<1>5. Tickets
  <2>1. 1 .. q_next - 1 = {}
    BY <1>1
  <2> QED
    BY <2>1, <1>1, <1>3 DEF Tickets
<1>6. Heads
  <2>1. q_head <= q_next
    BY <1>1
  <2> QED
    BY <2>1, <1>3 DEF Heads
<1>7. Busy
  <2>1. \A r \in Request : phase[r] # "text"
    BY <1>3
  <2> QED
    BY <2>1, Zenon DEF Init, Busy
<1>8. Room
  BY <1>3 DEF Room
<1> QED
  BY <1>4, <1>5, <1>6, <1>7, <1>8 DEF IInv

\* A new ticket is behind all others.
LEMMA EnqueueIInv ==
  ASSUME IInv, NEW r \in Request, NEW o \in Offers[r], Enqueue(r, o)
  PROVE  IInv'
<1> USE DEF IInv, Enqueue
<1>1. TypeOK'
  BY DEF TypeOK, Phases
<1>2. ticket'[r] = q_next /\ \A x \in Request \ {r} : ticket'[x] = ticket[x]
  BY DEF TypeOK
<1>3. phase'[r] = "wait" /\ \A x \in Request \ {r} : phase'[x] = phase[x]
  BY DEF TypeOK
<1>4. Tickets'
  <2>1. \A x \in Request : ticket'[x] < q_next'
    BY <1>2 DEF TypeOK, Tickets
  <2>2. \A x \in Request : phase'[x] = "none" <=> ticket'[x] = 0
    BY <1>2, <1>3 DEF TypeOK, Tickets
  <2>3. \A x, y \in Request : ticket'[x] = ticket'[y] /\ ticket'[x] # 0 => x = y
    BY <1>2 DEF TypeOK, Tickets
  <2>4. ASSUME NEW k \in 1 .. q_next' - 1 PROVE \E x \in Request : ticket'[x] = k
    <3>1. CASE k = q_next
      BY <3>1, <1>2
    <3>2. CASE k \in 1 .. q_next - 1
      <4>1. PICK x \in Request : ticket[x] = k
        BY <3>2 DEF Tickets
      <4>2. x # r
        BY <4>1, <3>2 DEF TypeOK, Tickets
      <4> QED
        BY <4>1, <4>2, <1>2
    <3> QED
      BY <3>1, <3>2 DEF TypeOK
  <2> QED
    BY <2>1, <2>2, <2>3, <2>4 DEF Tickets
<1>5. Heads'
  BY <1>2, <1>3 DEF TypeOK, Heads
<1>6. Busy'
  BY <1>3 DEF Busy
<1>7. Room'
  BY <1>3 DEF Room
<1> QED
  BY <1>1, <1>4, <1>5, <1>6, <1>7

\* Whoever takes the context is at the head, alone, and within the budget.
LEMMA AcquireIInv ==
  ASSUME IInv, NEW r \in Request, NEW len \in Prompts, Acquire(r, len)
  PROVE  IInv'
<1> USE DEF IInv, Acquire
<1>1. phase'[r] = "text" /\ \A x \in Request \ {r} : phase'[x] = phase[x]
  BY DEF TypeOK
<1>2. \A x \in Request : phase[x] # "text"
  BY DEF MyTurn, Busy
<1>3. ticket[r] = q_head
  BY DEF MyTurn
<1>4. /\ len \in Nat /\ Budget(r, len) \in Nat
      /\ len + Budget(r, len) <= NCtx - Margin
  <2>1. len \in Nat /\ NCtx \in Nat /\ Margin \in Nat /\ MaxTokens[r] \in Nat
    BY AnthropicAssumption
  <2> QED
    BY <2>1 DEF Budget, Avail
<1>5. TypeOK'
  BY <1>4 DEF TypeOK, Phases, Prefilled
<1>6. Tickets'
  BY <1>1 DEF Tickets
<1>7. Heads'
  BY <1>1, <1>2, <1>3 DEF Heads
<1>8. Busy'
  BY <1>1 DEF Busy
<1>9. Room'
  <2>1. ASSUME NEW x \in Request, phase'[x] = "text" PROVE x = r
    BY <2>1, <1>1, <1>2
  <2>2. kv'[r] = len /\ left'[r] = Budget(r, len) /\ \A x \in Request \ {r} : kv'[x] = 0
    BY DEF TypeOK, Prefilled
  <2> QED
    BY <2>1, <2>2, <1>4 DEF Room
<1> QED
  BY <1>5, <1>6, <1>7, <1>8, <1>9

\* A token moves one unit from the budget to the cache.
LEMMA TakeTokenIInv ==
  ASSUME IInv, NEW r \in Request, NEW token \in Says[r], TakeToken(r, token)
  PROVE  IInv'
<1> USE DEF IInv, TakeToken
<1>1. TypeOK'
  BY DEF TypeOK
<1>2. Tickets' /\ Heads' /\ Busy'
  BY DEF Tickets, Heads, Busy
<1>3. Room'
  <2>1. ASSUME NEW x \in Request, phase'[x] = "text" PROVE x = r
    BY <2>1, OneGenerates
  <2>2. kv'[r] = kv[r] + 1 /\ left'[r] = left[r] - 1
    BY DEF TypeOK
  <2>3. \A x \in Request \ {r} : kv'[x] = 0
    BY DEF TypeOK, Room
  <2>4. kv'[r] + left'[r] <= NCtx - Margin
    BY <2>2, AnthropicAssumption DEF TypeOK, Room
  <2> QED
    BY <2>1, <2>3, <2>4 DEF Room
<1> QED
  BY <1>1, <1>2, <1>3

\* The request at the head is done, and the head moves on.
LEMMA ServedIInv ==
  ASSUME IInv, NEW r \in Request, NEW why \in Ends,
         ticket[r] = q_head, phase[r] # "none",
         \A x \in Request \ {r} : phase[x] # "text",
         release_ctx(r),
         phase' = [phase EXCEPT ![r] = "done"],
         ended' = [ended EXCEPT ![r] = why],
         kv' \in [Request -> Nat],
         UNCHANGED <<q_next, ticket, left>>
  PROVE  IInv'
<1> USE DEF IInv
<1>1. phase'[r] = "done" /\ \A x \in Request \ {r} : phase'[x] = phase[x]
  BY DEF TypeOK
<1>2. q_head' = q_head + 1 /\ ctx_busy' = FALSE
  BY DEF release_ctx, Past, TypeOK
<1>3. \A x \in Request : phase'[x] # "text"
  BY <1>1
<1>4. TypeOK'
  <2>1. ctx_busy' \in BOOLEAN
    BY <1>2, Zenon
  <2>2. q_next' \in Nat \ {0} /\ q_head' \in Nat \ {0}
    BY <1>2, SMT DEF TypeOK
  <2>3. left' \in [Request -> Nat] /\ ticket' \in [Request -> Nat]
    BY SMT DEF TypeOK
  <2>4. phase' \in [Request -> Phases] /\ ended' \in [Request -> Ends]
    BY SMT DEF TypeOK, Phases
  <2> QED
    BY <2>1, <2>2, <2>3, <2>4 DEF TypeOK
<1>5. Tickets'
  BY <1>1 DEF Tickets, TypeOK
<1>6. Heads'
  <2>1. q_head' <= q_next'
    BY <1>2 DEF TypeOK, Tickets
  <2>2. ASSUME NEW x \in Request, phase'[x] = "wait" PROVE ticket'[x] >= q_head'
    <3>1. x # r /\ phase[x] = "wait"
      BY <2>2, <1>1
    <3>2. ticket[x] # ticket[r]
      BY <3>1 DEF Tickets, TypeOK
    <3> QED
      BY <3>1, <3>2, <1>2 DEF Heads, TypeOK
  <2>3. ASSUME NEW x \in Request, phase'[x] = "done", ticket'[x] >= q_head'
        PROVE  ended'[x] = "dropped"
    <3>1. x # r
      BY <2>3, <1>2 DEF TypeOK
    <3> QED
      BY <3>1, <2>3, <1>1, <1>2 DEF Heads, TypeOK
  <2> QED
    BY <1>3, <2>1, <2>2, <2>3 DEF Heads
<1>7. Busy' /\ Room'
  BY <1>2, <1>3 DEF Busy, Room
<1> QED
  BY <1>4, <1>5, <1>6, <1>7

\* The calls that end a request that generates.
LEMMA TextEndsIInv ==
  ASSUME IInv, NEW r \in Request,
         Finalize(r) \/ TextFails(r) \/ CancelText(r)
  PROVE  IInv'
<1>1. phase[r] = "text" /\ release_ctx(r) /\ UNCHANGED <<q_next, ticket, left>>
  BY DEF Finalize, TextFails, CancelText
<1>2. PICK why \in Ends : /\ phase' = [phase EXCEPT ![r] = "done"]
                         /\ ended' = [ended EXCEPT ![r] = why]
  BY DEF Finalize, TextFails, CancelText, Done, Ends
<1>3. ticket[r] = q_head
  BY <1>1 DEF IInv, Heads
<1>4. \A x \in Request \ {r} : phase[x] # "text"
  BY <1>1, OneGenerates
<1>5. kv' \in [Request -> Nat]
  <2>1. kv \in [Request -> Nat]
    BY DEF IInv, TypeOK
  <2>2. UNCHANGED kv \/ kv' = [kv EXCEPT ![r] = @ + 1]
    BY DEF Finalize, TextFails, CancelText
  <2> QED
    BY <2>1, <2>2
<1> QED
  BY <1>1, <1>2, <1>3, <1>4, <1>5, ServedIInv

\* The calls that take the context and end at once.
LEMMA AcquireEndsIInv ==
  ASSUME IInv, NEW r \in Request,
         AcquireFails(r) \/ \E len \in Prompts : Reject(r, len)
  PROVE  IInv'
<1>1. /\ phase[r] = "wait" /\ MyTurn(r) /\ release_ctx(r)
      /\ UNCHANGED <<q_next, ticket, left>>
  BY DEF AcquireFails, Reject, TakenAndReleased
<1>2. PICK why \in Ends : /\ phase' = [phase EXCEPT ![r] = "done"]
                         /\ ended' = [ended EXCEPT ![r] = why]
  BY DEF AcquireFails, Reject, Done, Ends
<1>3. ticket[r] = q_head /\ \A x \in Request \ {r} : phase[x] # "text"
  BY <1>1 DEF MyTurn, IInv, Busy
<1>4. kv' \in [Request -> Nat]
  <2>1. CASE UNCHANGED kv
    BY <2>1 DEF IInv, TypeOK
  <2>2. CASE \E len \in Prompts : \E k \in 0 .. len - 1 : kv' = Prefilled(r, k)
    BY <2>2, AnthropicAssumption DEF Prefilled
  <2> QED
    BY <2>1, <2>2 DEF AcquireFails, Reject
<1> QED
  BY <1>1, <1>2, <1>3, <1>4, ServedIInv

\* A waiter that gives up moves the head by one, if it is at the head.
LEMMA CancelWaitIInv ==
  ASSUME IInv, NEW r \in Request, CancelWait(r)
  PROVE  IInv'
<1> USE DEF IInv, CancelWait, Done
<1>1. phase'[r] = "done" /\ \A x \in Request \ {r} : phase'[x] = phase[x]
  BY DEF TypeOK
<1>2. ended'[r] = "dropped" /\ \A x \in Request \ {r} : ended'[x] = ended[x]
  BY DEF TypeOK
<1>3. /\ q_head' = IF q_head = ticket[r] THEN ticket[r] + 1 ELSE q_head
      /\ ctx_busy' = ctx_busy
  BY DEF drop_ticket
<1>4. TypeOK'
  <2>1. ctx_busy' \in BOOLEAN
    BY <1>3, Zenon DEF TypeOK
  <2>2. /\ q_next' = q_next /\ kv' = kv /\ left' = left /\ ticket' = ticket
        /\ phase' = [phase EXCEPT ![r] = "done"]
        /\ ended' = [ended EXCEPT ![r] = "dropped"]
    OBVIOUS
  <2>3. /\ q_next' \in Nat \ {0} /\ q_head' \in Nat \ {0}
        /\ kv' \in [Request -> Nat] /\ left' \in [Request -> Nat]
        /\ ticket' \in [Request -> Nat]
    BY <1>3, <2>2 DEF TypeOK
  <2>4. phase' \in [Request -> Phases] /\ ended' \in [Request -> Ends]
    BY <2>2 DEF TypeOK, Phases, Ends
  <2> QED
    BY <2>1, <2>2, <2>3, <2>4 DEF TypeOK
<1>5. Tickets'
  BY <1>1 DEF Tickets, TypeOK
<1>6. Heads'
  <2>1. q_head' <= q_next'
    BY <1>3 DEF TypeOK, Tickets, Heads
  <2>2. \A x \in Request \ {r} : phase[x] # "none" => ticket[x] # ticket[r]
    BY DEF Tickets, TypeOK
  <2>3. ASSUME NEW x \in Request, phase'[x] = "text" PROVE ticket'[x] = q_head'
    BY <2>2, <2>3, <1>1, <1>3 DEF Heads, TypeOK
  <2>4. ASSUME NEW x \in Request, phase'[x] = "wait" PROVE ticket'[x] >= q_head'
    BY <2>2, <2>4, <1>1, <1>3 DEF Heads, TypeOK
  <2>5. ASSUME NEW x \in Request, phase'[x] = "done", ticket'[x] >= q_head'
        PROVE  ended'[x] = "dropped"
    BY <2>5, <1>1, <1>2, <1>3 DEF Heads, TypeOK
  <2> QED
    BY <2>1, <2>3, <2>4, <2>5 DEF Heads
<1>7. Busy'
  BY <1>1, <1>3 DEF Busy
<1>8. Room'
  BY <1>1 DEF Room
<1> QED
  BY <1>4, <1>5, <1>6, <1>7, <1>8

\* Every step keeps the invariant.
LEMMA NextIInv == IInv /\ [Next]_vars => IInv'
<1> SUFFICES ASSUME IInv, [Next]_vars PROVE IInv'
  OBVIOUS
<1>1. CASE UNCHANGED vars
  BY <1>1 DEF IInv, TypeOK, Tickets, Heads, Busy, Room, vars
<1>2. CASE Next
  <2> PICK r \in Request : \/ \E o \in Offers[r] : Enqueue(r, o)
                          \/ next_chunk(r)
                          \/ CancelText(r) \/ CancelWait(r)
    BY <1>2 DEF Next
  <2>1. CASE \E o \in Offers[r] : Enqueue(r, o)
    BY <2>1, EnqueueIInv
  <2>2. CASE \E len \in Prompts : Acquire(r, len)
    BY <2>2, AcquireIInv
  <2>3. CASE AcquireFails(r) \/ \E len \in Prompts : Reject(r, len)
    BY <2>3, AcquireEndsIInv
  <2>4. CASE \E token \in Says[r] : TakeToken(r, token)
    BY <2>4, TakeTokenIInv
  <2>5. CASE Finalize(r) \/ TextFails(r) \/ CancelText(r)
    BY <2>5, TextEndsIInv
  <2>6. CASE CancelWait(r)
    BY <2>6, CancelWaitIInv
  <2> QED
    BY <2>1, <2>2, <2>3, <2>4, <2>5, <2>6 DEF next_chunk
<1> QED
  BY <1>1, <1>2

-----------------------------------------------------------------------------
(* The theorems.                                                           *)

\* The queue and the context are in the states described above at any time.
THEOREM Invariance == Spec => []IInv
BY InitIInv, NextIInv, PTL DEF Spec

\* A request that generates is never disturbed by another one, and never runs out
\* of the context: the queue keeps the one context to one request at a time, as
\* the comment above ctx_busy in llama_serve_anthropic() promises.
THEOREM UndisturbedCorrect == Spec => []Undisturbed
BY Invariance, IInvUndisturbed, PTL

\* The queue stands still only when it reaches the ticket of a request that gave
\* up while it waited.
THEOREM OnlyDroppedStallsCorrect == Spec => []OnlyDroppedStalls
BY Invariance, IInvOnlyDroppedStalls, PTL

\* The context goes to the requests in the order of their tickets.
THEOREM InOrderCorrect == Spec => InOrder
<1>1. ASSUME IInv, [Next]_vars
      PROVE  [\A r \in Request : phase[r] = "wait" /\ phase'[r] = "text" =>
                \A x \in Request : ticket[x] \in 1 .. ticket[r] - 1 => phase[x] = "done"]_vars
  <2>1. SUFFICES ASSUME NEW r \in Request, phase[r] = "wait", phase'[r] = "text",
                        NEW x \in Request, ticket[x] \in 1 .. ticket[r] - 1
                 PROVE  phase[x] = "done"
    OBVIOUS
  <2>2. MyTurn(r)
    BY <1>1, <2>1 DEF IInv, TypeOK, vars, Next, next_chunk, Enqueue, Acquire, Reject,
       AcquireFails, TakeToken, Finalize, TextFails, CancelText, CancelWait, Done
  <2>3. phase[x] # "none"
    BY <1>1, <2>1 DEF IInv, TypeOK, Tickets
  <2>4. phase[x] # "text"
    BY <1>1, <2>2 DEF MyTurn, IInv, Busy
  <2>5. phase[x] # "wait"
    BY <1>1, <2>1, <2>2 DEF MyTurn, IInv, TypeOK, Heads
  <2> QED
    BY <1>1, <2>3, <2>4, <2>5 DEF IInv, TypeOK, Phases
<1> QED
  BY <1>1, Invariance, PTL DEF Spec, InOrder

-----------------------------------------------------------------------------
(* The form of the events that a client receives.                          *)

IsSeq(s) == \E S : s \in Seq(S)

\* The fields of a reply, without the sets they come from.
IsReply(q) ==
  /\ q = [stream |-> q.stream, format |-> q.format, text |-> q.text, buf |-> q.buf,
          emitted |-> q.emitted, since |-> q.since,
          frozen |-> q.frozen, open |-> q.open, out |-> q.out, at |-> q.at]
  /\ q.stream \in BOOLEAN /\ q.open \in BOOLEAN /\ IsSeq(q.out)

Starts == {"message_start", "error"}

\* Events that are well formed as far as they go.
Chain(s) == \A i \in 1 .. Len(s) - 1 : MayFollow(s[i], s[i + 1])
Message(s) == Chain(s) /\ (s # <<>> => s[1].ev \in Starts)

\* The last event of a reply that is generated: one of the block of text, if that
\* block was opened.
AtText(q) ==
  /\ q.out # <<>>
  /\ q.open => /\ q.out[Len(q.out)].ev = "content_block_delta"
               /\ q.out[Len(q.out)].index = 0
  /\ ~q.open => q.out[Len(q.out)].ev = "message_start"

\* A reply in each phase of its request.
ReplyOK(q, ph, why) ==
  /\ IsReply(q) /\ Message(q.out)
  /\ ~q.stream => q.out = <<>>
  /\ ph \in {"none", "wait"} => q.out = <<>> /\ ~q.open
  /\ ph = "text" /\ q.stream => AtText(q)
  /\ why \in {"complete", "toolong"} =>
       /\ ph = "done"
       /\ q.stream => q.out # <<>> /\ q.out[Len(q.out)].ev = "message_stop"

Replies ==
  /\ reply = [r \in Request |-> reply[r]]
  /\ phase = [r \in Request |-> phase[r]]
  /\ ended = [r \in Request |-> ended[r]]
  /\ \A r \in Request : ReplyOK(reply[r], phase[r], ended[r])

-----------------------------------------------------------------------------
(* Sequences of events.                                                    *)

LEMMA ConcatSeq ==
  ASSUME NEW s, NEW t, IsSeq(s), IsSeq(t)
  PROVE  /\ IsSeq(s \o t)
         /\ Len(s) \in Nat /\ Len(t) \in Nat
         /\ Len(s \o t) = Len(s) + Len(t)
         /\ \A i \in 1 .. Len(s) : (s \o t)[i] = s[i]
         /\ \A i \in 1 .. Len(t) : (s \o t)[Len(s) + i] = t[i]
         /\ s = <<>> <=> Len(s) = 0
         /\ t = <<>> <=> Len(t) = 0
         /\ s \o t = <<>> <=> s = <<>> /\ t = <<>>
<1>1. PICK S : s \in Seq(S)
  BY DEF IsSeq
<1>2. PICK T : t \in Seq(T)
  BY DEF IsSeq
<1>3. s \in Seq(S \cup T) /\ t \in Seq(S \cup T)
  BY <1>1, <1>2
<1>4. s \o t \in Seq(S \cup T)
  BY <1>3
<1> QED
  BY <1>3, <1>4 DEF IsSeq

LEMMA EventSeqs ==
  ASSUME NEW a, NEW b, NEW c
  PROVE  /\ IsSeq(<<>>) /\ Len(<<>>) = 0
         /\ IsSeq(<<a>>) /\ Len(<<a>>) = 1 /\ <<a>>[1] = a /\ <<a>> # <<>>
         /\ IsSeq(<<a, b>>) /\ Len(<<a, b>>) = 2 /\ <<a, b>>[1] = a
         /\ <<a, b>>[2] = b /\ <<a, b>> # <<>>
         /\ IsSeq(<<a, b, c>>) /\ Len(<<a, b, c>>) = 3 /\ <<a, b, c>>[1] = a
         /\ <<a, b, c>>[2] = b /\ <<a, b, c>>[3] = c /\ <<a, b, c>> # <<>>
<1>1. /\ <<>> \in Seq({a, b, c}) /\ <<a>> \in Seq({a, b, c})
      /\ <<a, b>> \in Seq({a, b, c}) /\ <<a, b, c>> \in Seq({a, b, c})
  OBVIOUS
<1>2. IsSeq(<<>>) /\ IsSeq(<<a>>) /\ IsSeq(<<a, b>>) /\ IsSeq(<<a, b, c>>)
  BY <1>1, Zenon DEF IsSeq
<1> QED
  BY <1>2

LEMMA ConcatIsSeq ==
  ASSUME NEW s, NEW t, IsSeq(s), IsSeq(t)
  PROVE  IsSeq(s \o t)
BY ConcatSeq

\* Events may be added if the first of them may follow the last one there was.
LEMMA ConcatChain ==
  ASSUME NEW s, NEW t, IsSeq(s), IsSeq(t), Chain(s), Chain(t),
         s # <<>> /\ t # <<>> => MayFollow(s[Len(s)], t[1])
  PROVE  /\ Chain(s \o t)
         /\ s = <<>> /\ t # <<>> => (s \o t)[1] = t[1]
         /\ s # <<>> => (s \o t)[1] = s[1] /\ s \o t # <<>>
         /\ t # <<>> => (s \o t)[Len(s \o t)] = t[Len(t)] /\ s \o t # <<>>
         /\ s # <<>> /\ t = <<>> => (s \o t)[Len(s \o t)] = s[Len(s)]
<1>1. /\ IsSeq(s \o t) /\ Len(s) \in Nat /\ Len(t) \in Nat
      /\ Len(s \o t) = Len(s) + Len(t)
      /\ \A i \in 1 .. Len(s) : (s \o t)[i] = s[i]
      /\ \A i \in 1 .. Len(t) : (s \o t)[Len(s) + i] = t[i]
      /\ s = <<>> <=> Len(s) = 0
      /\ t = <<>> <=> Len(t) = 0
      /\ s \o t = <<>> <=> s = <<>> /\ t = <<>>
  BY ConcatSeq
<1>2. ASSUME NEW i \in 1 .. Len(s \o t) - 1
      PROVE  MayFollow((s \o t)[i], (s \o t)[i + 1])
  <2>1. CASE i < Len(s)
    <3>1. i \in 1 .. Len(s) /\ i + 1 \in 1 .. Len(s) /\ i \in 1 .. Len(s) - 1
      BY <1>1, <2>1
    <3> QED
      BY <1>1, <3>1 DEF Chain
  <2>2. CASE i = Len(s)
    <3>1. i \in 1 .. Len(s) /\ 1 \in 1 .. Len(t) /\ s # <<>> /\ t # <<>>
      BY <1>1, <2>2
    <3> QED
      BY <1>1, <2>2, <3>1
  <2>3. CASE i > Len(s)
    <3> DEFINE k == i - Len(s)
    <3>1. k \in 1 .. Len(t) - 1 /\ k \in 1 .. Len(t) /\ k + 1 \in 1 .. Len(t)
      BY <1>1, <2>3
    <3>2. i = Len(s) + k /\ i + 1 = Len(s) + (k + 1)
      BY <1>1, <2>3
    <3>3. MayFollow(t[k], t[k + 1])
      BY <3>1 DEF Chain
    <3> HIDE DEF k
    <3>4. (s \o t)[i] = t[k] /\ (s \o t)[i + 1] = t[k + 1]
      BY <1>1, <3>1, <3>2
    <3> QED
      BY <3>3, <3>4
  <2> QED
    BY <1>1, <2>1, <2>2, <2>3
<1>3. Chain(s \o t)
  BY <1>2 DEF Chain
<1>4. s = <<>> /\ t # <<>> => (s \o t)[1] = t[1]
  <2>1. s = <<>> /\ t # <<>> => 1 \in 1 .. Len(t) /\ Len(s) + 1 = 1
    BY <1>1
  <2> QED
    BY <1>1, <2>1
<1>5. s # <<>> => (s \o t)[1] = s[1]
  BY <1>1
<1>6. t # <<>> => (s \o t)[Len(s \o t)] = t[Len(t)]
  BY <1>1
<1>7. s # <<>> /\ t = <<>> => (s \o t)[Len(s \o t)] = s[Len(s)]
  BY <1>1
<1> QED
  BY <1>1, <1>3, <1>4, <1>5, <1>6, <1>7

\* One event is well formed, and so are those of a whole block, and the end.
LEMMA EventChains ==
  ASSUME NEW e, NEW index, NEW d
  PROVE  /\ Chain(<<>>) /\ Chain(<<e>>) /\ Chain(Stop) /\ Chain(Whole(index, d))
<1>1. Chain(<<>>) /\ Chain(<<e>>)
  BY EventSeqs DEF Chain
<1>2. Chain(Stop)
  <2>1. MayFollow(Event("message_delta", 0, <<>>), Event("message_stop", 0, <<>>))
    BY DEF MayFollow, Event
  <2> QED
    BY <2>1, EventSeqs DEF Chain, Stop
<1>3. MayFollow(OpenBlock(index), Delta(index, d))
  BY DEF MayFollow, OpenBlock, Delta, Event, InBlock
<1>4. MayFollow(Delta(index, d), CloseBlock(index))
  BY DEF MayFollow, CloseBlock, Delta, Event, InBlock
<1>5. Chain(Whole(index, d))
  <2> DEFINE s == Whole(index, d)
  <2>1. /\ Len(s) = 3 /\ s[1] = OpenBlock(index) /\ s[2] = Delta(index, d)
        /\ s[3] = CloseBlock(index)
    BY EventSeqs DEF Whole
  <2> HIDE DEF s
  <2>2. ASSUME NEW i \in 1 .. 2 PROVE MayFollow(s[i], s[i + 1])
    <3>1. i = 1 \/ i = 2
      OBVIOUS
    <3> QED
      BY <1>3, <1>4, <2>1, <3>1
  <2>3. Chain(s)
    BY <2>1, <2>2 DEF Chain
  <2> QED
    BY <2>3 DEF s
<1> QED
  BY <1>1, <1>2, <1>5

\* An event is sent, or the client does not stream.
LEMMA SendReply ==
  ASSUME NEW q, NEW evs, IsReply(q), IsSeq(evs)
  PROVE  /\ IsReply(Send(q, evs))
         /\ Send(q, evs).stream = q.stream /\ Send(q, evs).open = q.open
         /\ Send(q, evs).out = IF q.stream THEN q.out \o evs ELSE q.out
<1>1. IsSeq(q.out) /\ IsSeq(q.out \o evs)
  BY ConcatSeq DEF IsReply
<1> QED
  BY <1>1 DEF Send, IsReply

\* What a reply that is generated looks like.
Generating(q) ==
  /\ IsReply(q) /\ Message(q.out)
  /\ IF q.stream THEN AtText(q) ELSE q.out = <<>>

\* Only the way, the open block and the events of a reply make it so.
LEMMA SameReply ==
  ASSUME NEW q, Generating(q),
         NEW y, IsReply(y), y.stream = q.stream, y.open = q.open, y.out = q.out
  PROVE  Generating(y)
BY DEF Generating, AtText

LEMMA SendRestReply ==
  ASSUME NEW q, NEW final, Generating(q)
  PROVE  /\ Generating(SendRest(q, final))
         /\ SendRest(q, final).stream = q.stream /\ SendRest(q, final).open
<1> DEFINE delta == Delta(0, Rest(q, final))
           evs == (IF q.open THEN <<>> ELSE <<OpenBlock(0)>>) \o <<delta>>
           t == Send(q, evs)
<1>1. IsReply(q) /\ Message(q.out)
  BY DEF Generating
<1>2. MayFollow(OpenBlock(0), delta)
  BY DEF MayFollow, OpenBlock, Delta, Event, InBlock
<1>3. /\ IsSeq(evs) /\ Chain(evs) /\ evs # <<>>
      /\ evs[Len(evs)] = delta
      /\ evs[1] = IF q.open THEN delta ELSE OpenBlock(0)
  <2> DEFINE first == IF q.open THEN <<>> ELSE <<OpenBlock(0)>>
  <2> HIDE DEF delta
  <2>1. /\ IsSeq(first) /\ Chain(first)
        /\ q.open => first = <<>>
        /\ ~q.open => first # <<>> /\ first[Len(first)] = OpenBlock(0) /\ first[1] = OpenBlock(0)
    BY EventSeqs, EventChains
  <2>2. /\ IsSeq(<<delta>>) /\ Chain(<<delta>>) /\ <<delta>> # <<>>
        /\ <<delta>>[1] = delta /\ <<delta>>[Len(<<delta>>)] = delta
    BY EventSeqs, EventChains
  <2>3. evs = first \o <<delta>>
    OBVIOUS
  <2> HIDE DEF first, evs
  <2>4. IsSeq(evs)
    BY <2>1, <2>2, <2>3, ConcatIsSeq
  <2> QED
    BY <1>2, <2>1, <2>2, <2>3, <2>4, ConcatChain
<1>4. delta.ev = "content_block_delta" /\ delta.index = 0
  BY DEF Delta, Event
<1>5. OpenBlock(0).ev = "content_block_start" /\ OpenBlock(0).index = 0
  BY DEF OpenBlock, Event
<1>6. PICK e, at, y :
           y = SendRest(q, final) /\ y = [t EXCEPT !.open = TRUE, !.emitted = e, !.at = at]
  <2>1. SendRest(q, final) = [t EXCEPT !.open = TRUE, !.emitted = Parsed(q, final),
                                       !.at = t.at \cup {Len(ContentOf(q, final))}]
    BY DEF SendRest
  <2> QED
    BY <2>1
<1> HIDE DEF evs, delta
<1>7. /\ IsReply(t) /\ t.stream = q.stream
      /\ t.out = IF q.stream THEN q.out \o evs ELSE q.out
  BY <1>1, <1>3, SendReply
<1> HIDE DEF t
<1>8. /\ IsReply(y) /\ y.stream = q.stream /\ y.open = TRUE
      /\ y.out = t.out
  BY <1>6, <1>7 DEF IsReply
<1>9. CASE q.stream
  <2>1. AtText(q)
    BY <1>9 DEF Generating
  <2>2. MayFollow(q.out[Len(q.out)], evs[1])
    BY <1>1, <1>3, <1>4, <1>5, <2>1 DEF AtText, MayFollow, InBlock, IsReply
  <2>3. IsSeq(q.out) /\ Chain(q.out) /\ q.out # <<>> /\ q.out[1].ev \in Starts
    BY <1>1, <2>1 DEF IsReply, Message, AtText
  <2>4. /\ Chain(q.out \o evs) /\ q.out \o evs # <<>>
        /\ (q.out \o evs)[1] = q.out[1]
        /\ (q.out \o evs)[Len(q.out \o evs)] = delta
    BY <1>3, <2>2, <2>3, ConcatChain
  <2>5. Message(y.out) /\ AtText(y)
    BY <1>4, <1>7, <1>8, <1>9, <2>3, <2>4 DEF Message, AtText
  <2>6. Generating(y)
    BY <1>8, <1>9, <2>5 DEF Generating
  <2> QED
    BY <1>6, <1>8, <2>6
<1>10. CASE ~q.stream
  <2>1. q.out = <<>>
    BY <1>10 DEF Generating
  <2>2. y.out = <<>> /\ Message(y.out)
    BY <1>1, <1>7, <1>8, <1>10, <2>1
  <2>3. Generating(y)
    BY <1>8, <1>10, <2>2 DEF Generating
  <2> QED
    BY <1>6, <1>8, <2>3
<1>11. q.stream \in BOOLEAN
  BY <1>1 DEF IsReply
<1> QED
  BY <1>9, <1>10, <1>11

LEMMA TakenReply ==
  ASSUME NEW q, NEW token, Generating(q)
  PROVE  Generating(Taken(q, token)) /\ Taken(q, token).stream = q.stream
<1>1. ASSUME NEW t, Generating(t)
      PROVE  Generating(AfterParse(t)) /\ AfterParse(t).stream = t.stream
  <2>1. CASE PartialCall(t.format, t.text)
    BY <1>1, <2>1 DEF AfterParse, Generating, IsReply, AtText, Message, Chain
  <2>2. CASE ~PartialCall(t.format, t.text) /\ Extends(t, FALSE)
    BY <1>1, <2>2, SendRestReply DEF AfterParse
  <2>3. CASE ~PartialCall(t.format, t.text) /\ ~Extends(t, FALSE)
    BY <1>1, <2>3 DEF AfterParse
  <2> QED
    BY <2>1, <2>2, <2>3
<1>2. IsReply(q)
  BY DEF Generating
<1>3. PICK t : t = [q EXCEPT !.text = @ \o Chunk(q.buf, token), !.buf = token = Half /\ ~@]
  OBVIOUS
<1>4. IsReply(t) /\ t.stream = q.stream /\ t.open = q.open /\ t.out = q.out
  BY <1>2, <1>3 DEF IsReply
<1>5. PICK t0 : t0 = [t EXCEPT !.since = 0]
  OBVIOUS
<1>6. IsReply(t0) /\ t0.stream = q.stream /\ t0.open = q.open /\ t0.out = q.out
  BY <1>4, <1>5 DEF IsReply
<1>7. PICK t1 : t1 = [t EXCEPT !.since = @ + 1]
  OBVIOUS
<1>8. IsReply(t1) /\ t1.stream = q.stream /\ t1.open = q.open /\ t1.out = q.out
  BY <1>4, <1>7 DEF IsReply
<1>9. Generating(t) /\ Generating(t0) /\ Generating(t1)
  BY <1>4, <1>6, <1>8, SameReply
<1>10. \/ Taken(q, token) = t
       \/ Taken(q, token) = t1
       \/ Taken(q, token) = AfterParse(t0)
  BY <1>3, <1>5, <1>7, Zenon DEF Taken
<1> QED
  BY <1>1, <1>4, <1>6, <1>8, <1>9, <1>10

\* The reply that gen_end() completes.
LEMMA EndedReply ==
  ASSUME NEW q, Generating(q)
  PROVE  Generating(Ended(q)) /\ Ended(q).stream = q.stream
<1>1. PICK y : y = Ended(q)
  OBVIOUS
<1>2. y = [q EXCEPT !.text = @ \o Stub(q.buf), !.buf = FALSE]
  BY <1>1 DEF Ended
<1>3. IsReply(q)
  BY DEF Generating
<1>4. IsReply(y) /\ y.stream = q.stream /\ y.open = q.open /\ y.out = q.out
  BY <1>2, <1>3 DEF IsReply
<1> QED
  BY <1>1, <1>4, SameReply

\* The blocks that close a message, and its end, follow a text.
LEMMA FinalizedReply ==
  ASSUME NEW q, Generating(q)
  PROVE  /\ IsReply(Finalized(q)) /\ Message(Finalized(q).out)
         /\ Finalized(q).stream = q.stream
         /\ ~q.stream => Finalized(q).out = <<>>
         /\ q.stream =>
              /\ Finalized(q).out # <<>>
              /\ Finalized(q).out[Len(Finalized(q).out)].ev = "message_stop"
<1> DEFINE t == LastText(q)
<1>1. Generating(t) /\ t.stream = q.stream
  BY SendRestReply DEF LastText
<1>2. Finalized(q) = Send(t, LastBlocks(t) \o Stop)
  BY DEF Finalized
<1> HIDE DEF t
<1>3. PICK u, v, w : /\ LastBlocks(t) = u \o v \o w
                     /\ u = IF t.open THEN <<CloseBlock(0)>> ELSE <<>>
                     /\ v = IF Called(t) THEN Whole(IF t.open THEN 1 ELSE 0, <<>>) ELSE <<>>
                     /\ w = IF ~t.open /\ ~Called(t) THEN Whole(0, Fallback(t)) ELSE <<>>
  BY DEF LastBlocks
<1>4. /\ CloseBlock(0).ev = "content_block_stop" /\ CloseBlock(0).index = 0
      /\ \A k : OpenBlock(k).ev = "content_block_start" /\ OpenBlock(k).index = k
      /\ \A k : CloseBlock(k).ev = "content_block_stop"
  BY DEF CloseBlock, OpenBlock, Event
<1>5. /\ IsSeq(Stop) /\ Chain(Stop) /\ Stop # <<>>
      /\ Stop[1].ev = "message_delta" /\ Stop[Len(Stop)].ev = "message_stop"
  BY EventSeqs, EventChains DEF Stop, Event
<1>6. \A k, d : /\ IsSeq(Whole(k, d)) /\ Chain(Whole(k, d)) /\ Whole(k, d) # <<>>
                /\ Whole(k, d)[1] = OpenBlock(k)
                /\ Whole(k, d)[Len(Whole(k, d))] = CloseBlock(k)
  <2> TAKE k, d
  <2>1. Chain(Whole(k, d))
    BY EventChains
  <2> QED
    BY <2>1, EventSeqs DEF Whole
\* u closes the block of text.
<1>7. /\ IsSeq(u) /\ Chain(u)
      /\ t.open => /\ u # <<>> /\ u[1] = CloseBlock(0)
                   /\ u[Len(u)] = CloseBlock(0)
      /\ ~t.open => u = <<>>
  BY <1>3, EventSeqs, EventChains
<1>8. /\ IsSeq(v) /\ Chain(v)
      /\ Called(t) => /\ v # <<>>
                      /\ v[1].ev = "content_block_start"
                      /\ v[1].index = IF t.open THEN 1 ELSE 0
                      /\ v[Len(v)].ev = "content_block_stop"
      /\ ~Called(t) => v = <<>>
  <2>1. CASE Called(t)
    <3>1. v = Whole(IF t.open THEN 1 ELSE 0, <<>>)
      BY <1>3, <2>1
    <3> QED
      BY <1>4, <1>6, <2>1, <3>1
  <2>2. CASE ~Called(t)
    BY <1>3, <2>2, EventSeqs, EventChains
  <2> QED
    BY <2>1, <2>2
<1>9. /\ IsSeq(w) /\ Chain(w)
      /\ ~t.open /\ ~Called(t) => /\ w # <<>>
                                  /\ w[1].ev = "content_block_start" /\ w[1].index = 0
                                  /\ w[Len(w)].ev = "content_block_stop"
      /\ t.open \/ Called(t) => w = <<>>
  <2>1. CASE ~t.open /\ ~Called(t)
    <3>1. w = Whole(0, Fallback(t))
      BY <1>3, <2>1
    <3> QED
      BY <1>4, <1>6, <2>1, <3>1
  <2>2. CASE t.open \/ Called(t)
    BY <1>3, <2>2, EventSeqs, EventChains
  <2> QED
    BY <2>1, <2>2
\* The block of a call follows the block of text, or is the first one.
<1>10. /\ IsSeq(u \o v) /\ Chain(u \o v)
       /\ t.open => u \o v # <<>> /\ (u \o v)[1] = CloseBlock(0)
       /\ ~t.open /\ Called(t) => /\ u \o v # <<>>
                                  /\ (u \o v)[1].ev = "content_block_start"
                                  /\ (u \o v)[1].index = 0
       /\ t.open \/ Called(t) => (u \o v)[Len(u \o v)].ev = "content_block_stop"
       /\ ~t.open /\ ~Called(t) => u \o v = <<>>
  <2>1. u # <<>> /\ v # <<>> => MayFollow(u[Len(u)], v[1])
    BY <1>4, <1>7, <1>8 DEF MayFollow
  <2>2. u = <<>> /\ v = <<>> => u \o v = <<>>
    OBVIOUS
  <2>3. IsSeq(u \o v)
    BY <1>7, <1>8, ConcatIsSeq
  <2>4. /\ Chain(u \o v)
        /\ u = <<>> /\ v # <<>> => (u \o v)[1] = v[1]
        /\ u # <<>> => (u \o v)[1] = u[1] /\ u \o v # <<>>
        /\ v # <<>> => (u \o v)[Len(u \o v)] = v[Len(v)] /\ u \o v # <<>>
        /\ u # <<>> /\ v = <<>> => (u \o v)[Len(u \o v)] = u[Len(u)]
    BY <1>7, <1>8, <2>1, ConcatChain
  <2> QED
    BY <1>4, <1>7, <1>8, <2>2, <2>3, <2>4
\* There is at least one block.
<1>11. /\ IsSeq(LastBlocks(t)) /\ Chain(LastBlocks(t)) /\ LastBlocks(t) # <<>>
       /\ t.open => LastBlocks(t)[1] = CloseBlock(0)
       /\ ~t.open => /\ LastBlocks(t)[1].ev = "content_block_start"
                     /\ LastBlocks(t)[1].index = 0
       /\ LastBlocks(t)[Len(LastBlocks(t))].ev = "content_block_stop"
  <2> DEFINE x == u \o v
  <2>1. LastBlocks(t) = x \o w
    BY <1>3
  <2> HIDE DEF x
  <2>2. IsSeq(x) /\ IsSeq(w) /\ IsSeq(x \o w)
    BY <1>9, <1>10, ConcatIsSeq DEF x
  <2>3. x = <<>> \/ w = <<>>
    BY <1>9, <1>10 DEF x
  <2>4. /\ Chain(x \o w)
        /\ x = <<>> /\ w # <<>> => (x \o w)[1] = w[1]
        /\ x # <<>> => (x \o w)[1] = x[1] /\ x \o w # <<>>
        /\ w # <<>> => (x \o w)[Len(x \o w)] = w[Len(w)] /\ x \o w # <<>>
        /\ x # <<>> /\ w = <<>> => (x \o w)[Len(x \o w)] = x[Len(x)]
    BY <1>9, <1>10, <2>2, <2>3, ConcatChain DEF x
  <2> QED
    BY <1>9, <1>10, <2>1, <2>2, <2>4 DEF x
<1> DEFINE evs == LastBlocks(t) \o Stop
<1>12. /\ IsSeq(evs) /\ Chain(evs) /\ evs # <<>>
       /\ evs[1] = LastBlocks(t)[1]
       /\ evs[Len(evs)].ev = "message_stop"
  <2>1. MayFollow(LastBlocks(t)[Len(LastBlocks(t))], Stop[1])
    BY <1>5, <1>11 DEF MayFollow
  <2>2. IsSeq(evs)
    BY <1>5, <1>11, ConcatIsSeq
  <2> QED
    BY <1>5, <1>11, <2>1, <2>2, ConcatChain
<1>13. IsReply(t) /\ Message(t.out)
  BY <1>1 DEF Generating
<1>14. /\ IsReply(Finalized(q)) /\ Finalized(q).stream = q.stream
       /\ Finalized(q).out = IF q.stream THEN t.out \o evs ELSE t.out
  BY <1>1, <1>2, <1>12, <1>13, SendReply
<1> HIDE DEF evs
<1>15. CASE q.stream
  <2>1. AtText(t)
    BY <1>1, <1>15 DEF Generating
  <2>2. MayFollow(t.out[Len(t.out)], evs[1])
    <3>1. CASE t.open
      BY <1>4, <1>11, <1>12, <2>1, <3>1 DEF AtText, MayFollow, InBlock
    <3>2. CASE ~t.open
      BY <1>11, <1>12, <2>1, <3>2 DEF AtText, MayFollow
    <3> QED
      BY <3>1, <3>2
  <2>3. IsSeq(t.out) /\ Chain(t.out) /\ t.out # <<>> /\ t.out[1].ev \in Starts
    BY <1>13, <2>1 DEF IsReply, Message, AtText
  <2>4. /\ Chain(t.out \o evs) /\ t.out \o evs # <<>>
        /\ (t.out \o evs)[1] = t.out[1]
        /\ (t.out \o evs)[Len(t.out \o evs)] = evs[Len(evs)]
    BY <1>12, <2>2, <2>3, ConcatChain
  <2> QED
    BY <1>12, <1>14, <1>15, <2>3, <2>4 DEF Message
<1>16. CASE ~q.stream
  BY <1>1, <1>13, <1>14, <1>16 DEF Generating
<1>17. q.stream \in BOOLEAN
  BY DEF Generating, IsReply
<1> QED
  BY <1>15, <1>16, <1>17

\* The messages of a request that never generates.
LEMMA ShortReply ==
  ASSUME NEW q, IsReply(q), q.out = <<>>
  PROVE  /\ IsReply(TooLong(q)) /\ Message(TooLong(q).out)
         /\ TooLong(q).stream = q.stream
         /\ ~q.stream => TooLong(q).out = <<>>
         /\ q.stream => /\ TooLong(q).out # <<>>
                        /\ TooLong(q).out[Len(TooLong(q).out)].ev = "message_stop"
         /\ ~q.open => Generating(Send(q, Start))
<1>1. /\ IsSeq(Stop) /\ Chain(Stop) /\ Stop # <<>>
      /\ Stop[1].ev = "message_delta" /\ Stop[Len(Stop)].ev = "message_stop"
  BY EventSeqs, EventChains DEF Stop, Event
<1>2. /\ IsSeq(Start) /\ Chain(Start) /\ Start # <<>> /\ Start[1].ev = "message_start"
      /\ Start[Len(Start)].ev = "message_start"
  BY EventSeqs, EventChains DEF Start, Event
<1> DEFINE whole == Whole(0, <<"?">>)
<1>3. /\ IsSeq(whole) /\ Chain(whole) /\ whole # <<>>
      /\ whole[1] = OpenBlock(0) /\ whole[Len(whole)] = CloseBlock(0)
  <2>1. Chain(whole)
    BY EventChains
  <2> QED
    BY <2>1, EventSeqs DEF Whole
<1> HIDE DEF whole
<1>4. /\ OpenBlock(0).ev = "content_block_start" /\ OpenBlock(0).index = 0
      /\ CloseBlock(0).ev = "content_block_stop"
  BY DEF CloseBlock, OpenBlock, Event
<1>5. /\ IsSeq(Start \o whole) /\ Chain(Start \o whole) /\ Start \o whole # <<>>
      /\ (Start \o whole)[1] = Start[1]
      /\ (Start \o whole)[Len(Start \o whole)] = CloseBlock(0)
  <2>1. MayFollow(Start[Len(Start)], whole[1])
    BY <1>2, <1>3, <1>4 DEF MayFollow
  <2> QED
    BY <1>2, <1>3, <2>1, ConcatChain, ConcatIsSeq
<1> DEFINE begin == Start \o whole
           evs == begin \o Stop
<1>6. /\ IsSeq(evs) /\ Chain(evs) /\ evs # <<>>
      /\ evs[1] = Start[1] /\ evs[Len(evs)].ev = "message_stop"
  <2> HIDE DEF begin
  <2>1. MayFollow(begin[Len(begin)], Stop[1])
    BY <1>1, <1>4, <1>5 DEF MayFollow, begin
  <2>2. IsSeq(begin) /\ Chain(begin) /\ begin # <<>> /\ begin[1] = Start[1]
    BY <1>5 DEF begin
  <2>3. IsSeq(evs)
    BY <1>1, <2>2, ConcatIsSeq
  <2> QED
    BY <1>1, <2>1, <2>2, <2>3, ConcatChain
<1>7. TooLong(q) = Send(q, evs)
  BY DEF TooLong, whole
<1> HIDE DEF evs
<1>8. q.out \o evs = evs /\ q.out \o Start = Start
  <2>1. ASSUME NEW e, IsSeq(e) PROVE <<>> \o e = e
    BY <2>1 DEF IsSeq
  <2> QED
    BY <1>2, <1>6, <2>1
<1>9. /\ IsReply(TooLong(q)) /\ TooLong(q).stream = q.stream
      /\ TooLong(q).out = IF q.stream THEN evs ELSE <<>>
  <2>1. /\ IsReply(Send(q, evs)) /\ Send(q, evs).stream = q.stream
        /\ Send(q, evs).out = IF q.stream THEN q.out \o evs ELSE q.out
    BY <1>6, SendReply
  <2> QED
    BY <1>7, <1>8, <2>1
<1>10. Message(<<>>) /\ Message(evs)
  BY <1>2, <1>6, EventChains DEF Message, Starts
<1>11. /\ IsReply(Send(q, Start)) /\ Send(q, Start).stream = q.stream
       /\ Send(q, Start).out = IF q.stream THEN Start ELSE <<>>
  BY <1>2, <1>8, SendReply
<1>12. Message(Start)
  BY <1>2 DEF Message, Starts
<1>13. ~q.open => Generating(Send(q, Start))
  <2> DEFINE t == Send(q, Start)
  <2>1. IsReply(t) /\ t.open = q.open
    BY <1>2, SendReply
  <2>2. t.stream = q.stream /\ t.out = IF q.stream THEN Start ELSE <<>>
    BY <1>11
  <2> HIDE DEF t
  <2>3. ~q.open => Generating(t)
    BY <1>2, <1>10, <1>12, <2>1, <2>2 DEF Generating, AtText
  <2> QED
    BY <2>3 DEF t
<1> QED
  BY <1>2, <1>6, <1>9, <1>10, <1>13 DEF IsReply

LEMMA FailedReply ==
  ASSUME NEW q, IsReply(q), Message(q.out), ~q.stream => q.out = <<>>
  PROVE  /\ IsReply(Failed(q)) /\ Message(Failed(q).out)
         /\ Failed(q).stream = q.stream
         /\ ~q.stream => Failed(q).out = <<>>
<1> DEFINE error == <<Event("error", 0, <<>>)>>
<1>1. /\ IsSeq(error) /\ Chain(error) /\ error # <<>> /\ error[1].ev = "error"
  BY EventSeqs, EventChains DEF Event
<1>2. Failed(q) = Send(q, error)
  BY DEF Failed
<1> HIDE DEF error
<1>3. /\ IsReply(Failed(q)) /\ Failed(q).stream = q.stream
      /\ Failed(q).out = IF q.stream THEN q.out \o error ELSE q.out
  BY <1>1, <1>2, SendReply
<1>4. Message(q.out \o error)
  <2>1. IsSeq(q.out) /\ Chain(q.out) /\ (q.out # <<>> => q.out[1].ev \in Starts)
    BY DEF IsReply, Message
  <2>2. q.out # <<>> => MayFollow(q.out[Len(q.out)], error[1])
    BY <1>1 DEF MayFollow
  <2>3. /\ Chain(q.out \o error)
        /\ q.out = <<>> => (q.out \o error)[1] = error[1]
        /\ q.out # <<>> => (q.out \o error)[1] = q.out[1]
    BY <1>1, <2>1, <2>2, ConcatChain
  <2> QED
    BY <1>1, <2>1, <2>3 DEF Message, Starts
<1> QED
  BY <1>3, <1>4

-----------------------------------------------------------------------------
(* The replies of all requests.                                            *)

LEMMA InitReplies == Init => Replies
<1> SUFFICES ASSUME Init PROVE Replies
  OBVIOUS
<1>1. /\ phase = [r \in Request |-> "none"] /\ ended = [r \in Request |-> ""]
      /\ reply = [r \in Request |-> NewReply]
  BY DEF Init
<1>2. ReplyOK(NewReply, "none", "")
  BY EventSeqs, EventChains DEF ReplyOK, IsReply, NewReply, Message
<1> QED
  BY <1>1, <1>2 DEF Replies

\* A step changes one reply, its phase and how it ended.
LEMMA OneReply ==
  ASSUME Replies, NEW r \in Request, NEW q, NEW ph, NEW why,
         reply' = [reply EXCEPT ![r] = q],
         phase' = [phase EXCEPT ![r] = ph],
         ended' = [ended EXCEPT ![r] = why],
         ReplyOK(q, ph, why)
  PROVE  Replies'
<1>1. /\ reply' = [x \in Request |-> reply'[x]]
      /\ phase' = [x \in Request |-> phase'[x]]
      /\ ended' = [x \in Request |-> ended'[x]]
  BY DEF Replies
<1>2. /\ reply'[r] = q /\ phase'[r] = ph /\ ended'[r] = why
      /\ \A x \in Request \ {r} :
           reply'[x] = reply[x] /\ phase'[x] = phase[x] /\ ended'[x] = ended[x]
  BY DEF Replies
<1>3. \A x \in Request : ReplyOK(reply'[x], phase'[x], ended'[x])
  BY <1>2 DEF Replies
<1> QED
  BY <1>1, <1>3 DEF Replies

LEMMA NextReplies == Replies /\ [Next]_vars => Replies'
<1> SUFFICES ASSUME Replies, [Next]_vars PROVE Replies'
  OBVIOUS
<1>1. CASE UNCHANGED vars
  BY <1>1 DEF Replies, vars
<1>2. CASE Next
  <2> PICK r \in Request : \/ \E o \in Offers[r] : Enqueue(r, o)
                          \/ next_chunk(r)
                          \/ CancelText(r) \/ CancelWait(r)
    BY <1>2 DEF Next
  <2> DEFINE q == reply[r]
  <2>1. ReplyOK(q, phase[r], ended[r]) /\ IsReply(q) /\ Message(q.out)
    BY DEF Replies, ReplyOK
  <2>2. ended = [ended EXCEPT ![r] = ended[r]] /\ phase = [phase EXCEPT ![r] = phase[r]]
    BY DEF Replies
  <2>3. phase[r] = "text" => Generating(q)
    BY <2>1 DEF ReplyOK, Generating
  <2>4. phase[r] = "wait" => q.out = <<>> /\ ~q.open
    BY <2>1 DEF ReplyOK
  <2>5. phase[r] # "done" => ended[r] \notin {"complete", "toolong"}
    BY <2>1 DEF ReplyOK
  <2>6. ~q.stream => q.out = <<>>
    BY <2>1 DEF ReplyOK
  <2>7. ASSUME NEW o \in Offers[r], Enqueue(r, o) PROVE Replies'
    <3> DEFINE n == [NewReply EXCEPT !.stream = o[1], !.format = o[2]]
    <3>1. o[1] \in BOOLEAN
      BY AnthropicAssumption
    <3>2. IsReply(n) /\ n.out = <<>> /\ n.open = FALSE
      <4>1. n.stream = o[1] /\ n.out = <<>> /\ n.open = FALSE
        BY DEF NewReply
      <4>2. DOMAIN n = {"stream", "format", "text", "buf", "emitted", "since",
                        "frozen", "open", "out", "at"}
        BY DEF NewReply
      <4>3. n = [x \in DOMAIN n |-> n[x]]
        BY DEF NewReply
      <4>4. IsSeq(n.out)
        BY <4>1, EventSeqs
      <4> HIDE DEF n
      <4>5. n = [stream |-> n.stream, format |-> n.format, text |-> n.text, buf |-> n.buf,
                 emitted |-> n.emitted, since |-> n.since,
                 frozen |-> n.frozen, open |-> n.open, out |-> n.out, at |-> n.at]
        BY <4>2, <4>3
      <4> QED
        BY <3>1, <4>1, <4>5, <4>4 DEF IsReply
    <3>3. /\ reply' = [reply EXCEPT ![r] = n]
          /\ phase' = [phase EXCEPT ![r] = "wait"] /\ ended' = ended
          /\ phase[r] = "none"
      BY <2>7 DEF Enqueue
    <3> HIDE DEF n
    <3>4. ReplyOK(n, "wait", ended[r])
      BY <2>5, <3>2, <3>3, EventChains DEF ReplyOK, Message
    <3> QED
      BY <2>2, <3>3, <3>4, OneReply
  <2>8. ASSUME NEW len \in Prompts, Acquire(r, len) PROVE Replies'
    <3>1. /\ reply' = [reply EXCEPT ![r] = Send(q, Start)]
          /\ phase' = [phase EXCEPT ![r] = "text"] /\ ended' = ended
          /\ phase[r] = "wait"
      BY <2>8 DEF Acquire
    <3>2. Generating(Send(q, Start))
      BY <2>1, <2>4, <3>1, ShortReply
    <3>3. ReplyOK(Send(q, Start), "text", ended[r])
      BY <2>5, <3>1, <3>2 DEF ReplyOK, Generating
    <3> QED
      BY <2>2, <3>1, <3>3, OneReply
  <2>9. ASSUME NEW len \in Prompts, Reject(r, len) PROVE Replies'
    <3>1. /\ reply' = [reply EXCEPT ![r] = TooLong(q)]
          /\ phase' = [phase EXCEPT ![r] = "done"]
          /\ ended' = [ended EXCEPT ![r] = "toolong"]
          /\ phase[r] = "wait"
      BY <2>9 DEF Reject, Done
    <3>2. ReplyOK(TooLong(q), "done", "toolong")
      BY <2>1, <2>4, <3>1, ShortReply DEF ReplyOK
    <3> QED
      BY <3>1, <3>2, OneReply
  <2>10. ASSUME AcquireFails(r) \/ TextFails(r) PROVE Replies'
    <3>1. /\ reply' = [reply EXCEPT ![r] = Failed(q)]
          /\ phase' = [phase EXCEPT ![r] = "done"]
          /\ ended' = [ended EXCEPT ![r] = "error"]
      BY <2>10 DEF AcquireFails, TextFails, Done
    <3>2. ReplyOK(Failed(q), "done", "error")
      BY <2>1, <2>6, FailedReply DEF ReplyOK
    <3> QED
      BY <3>1, <3>2, OneReply
  <2>11. ASSUME NEW token \in Says[r], TakeToken(r, token) PROVE Replies'
    <3>1. /\ reply' = [reply EXCEPT ![r] = Taken(q, token)]
          /\ phase' = phase /\ ended' = ended /\ phase[r] = "text"
      BY <2>11 DEF TakeToken
    <3>2. Generating(Taken(q, token))
      BY <2>3, <3>1, TakenReply
    <3>3. ReplyOK(Taken(q, token), phase[r], ended[r])
      BY <2>5, <3>1, <3>2 DEF ReplyOK, Generating
    <3> QED
      BY <2>2, <3>1, <3>3, OneReply
  <2>12. ASSUME Finalize(r) PROVE Replies'
    <3>1. PICK t : /\ t = Ended(q) /\ reply' = [reply EXCEPT ![r] = Finalized(t)]
                   /\ phase' = [phase EXCEPT ![r] = "done"]
                   /\ ended' = [ended EXCEPT ![r] = "complete"]
                   /\ phase[r] = "text"
      BY <2>12 DEF Finalize, Done
    <3>2. Generating(t) /\ t.stream = q.stream
      BY <2>3, <3>1, EndedReply
    <3>3. ReplyOK(Finalized(t), "done", "complete")
      BY <3>2, FinalizedReply DEF ReplyOK
    <3> QED
      BY <3>1, <3>3, OneReply
  <2>13. ASSUME CancelText(r) \/ CancelWait(r) PROVE Replies'
    <3>1. PICK why \in {"cancelled", "dropped"} :
             /\ reply' = [reply EXCEPT ![r] = q]
             /\ phase' = [phase EXCEPT ![r] = "done"]
             /\ ended' = [ended EXCEPT ![r] = why]
      BY <2>13 DEF CancelText, CancelWait, Done
    <3>2. ReplyOK(q, "done", why)
      BY <2>1, <3>1 DEF ReplyOK
    <3> QED
      BY <3>1, <3>2, OneReply
  <2> QED
    BY <2>7, <2>8, <2>9, <2>10, <2>11, <2>12, <2>13 DEF next_chunk
<1> QED
  BY <1>1, <1>2

\* What the client of any request reads is well formed as far as it goes, and
\* complete when the request is.
THEOREM RepliesInvariance == Spec => []Replies
  BY InitReplies, NextReplies, PTL DEF Spec

\* A client reads blocks numbered from 0, one at a time, each closed before the
\* next one and before the end, whatever the parses reveal and however the
\* request ends.
THEOREM WellFormedCorrect == Spec => []WellFormed
<1>1. Replies => WellFormed
  BY DEF Replies, ReplyOK, Message, Chain, Starts, WellFormed, Last
<1> QED
  BY <1>1, RepliesInvariance, PTL

-----------------------------------------------------------------------------
(* What the events carry.                                                  *)

Names ==
  {"message_start", "content_block_start", "content_block_delta", "content_block_stop",
   "message_delta", "message_stop", "error"}

EventType == [ev : Names, index : Int, delta : Text]

ReplyType ==
  [stream : BOOLEAN, format : Format, text : Text, buf : BOOLEAN, emitted : Text,
   since : Int, frozen : BOOLEAN, open : BOOLEAN, out : Seq(EventType), at : SUBSET Nat]

\* While a request is not done, what was sent is what is shown of a beginning of its
\* content, in the block that was opened for it.
SoFar(q) ==
  /\ Sent(q) = q.emitted /\ SentOf(Strip, ContentOf(q, FALSE), q.at, q.emitted)
  /\ ~q.open => q.emitted = <<>>
  /\ q.format = "json" => ~q.open

\* Replies of which the same was generated and sent.
Alike(y, q) ==
  /\ y.text = q.text /\ y.out = q.out /\ y.format = q.format /\ y.emitted = q.emitted
  /\ y.at = q.at /\ y.open = q.open /\ y.stream = q.stream

TextOK(q, ph, why) ==
  /\ q \in ReplyType
  /\ ph # "done" => SoFar(q) /\ why # "complete"
  /\ why = "complete" /\ q.stream /\ q.open /\ Kept(q) => Sent(q) = Parsed(q, TRUE)

Texts ==
  /\ reply \in [Request -> ReplyType]
  /\ phase = [r \in Request |-> phase[r]]
  /\ ended = [r \in Request |-> ended[r]]
  /\ \A r \in Request : TextOK(reply[r], phase[r], ended[r])

\* Events that carry the text d.
Carries(s, d) == s \in Seq(EventType) /\ d \in Text /\ Sends(s) = d

LEMMA NoText == <<>> \in Text /\ \A t \in Text : t \o <<>> = t /\ <<>> \o t = t
BY DEF Text

LEMMA EventsCarry == Carry(EventType)
BY DEF Carry, EventType

LEMMA EventIs ==
  ASSUME NEW ev \in Names, NEW k \in Int, NEW d \in Text
  PROVE  Event(ev, k, d) \in EventType /\ Event(ev, k, d).delta = d
BY DEF Event, EventType

LEMMA OneCarries ==
  ASSUME NEW e \in EventType
  PROVE  Carries(<<e>>, e.delta)
<1>1. <<e>> \in Seq(EventType)
  OBVIOUS
<1>2. e.delta \in Text
  BY DEF EventType
<1> QED
  BY <1>1, <1>2, EventsCarry, SendsOne DEF Carries

LEMMA ConcatCarries ==
  ASSUME NEW s, NEW t, NEW c, NEW d, Carries(s, c), Carries(t, d)
  PROVE  Carries(s \o t, c \o d)
<1>1. s \in Seq(EventType) /\ t \in Seq(EventType) /\ c \in Text /\ d \in Text
  BY DEF Carries
<1>2. s \o t \in Seq(EventType)
  BY <1>1
<1>3. c \o d \in Text
  BY <1>1 DEF Text
<1>4. Sends(s \o t) = Sends(s) \o Sends(t)
  BY <1>1, EventsCarry, SendsConcat
<1> QED
  BY <1>2, <1>3, <1>4 DEF Carries

LEMMA Tuples ==
  ASSUME NEW X, NEW a \in X, NEW b \in X, NEW c \in X
  PROVE  <<a, b>> = <<a>> \o <<b>> /\ <<a, b, c>> = <<a, b>> \o <<c>>
<1>1. ASSUME NEW s \in Seq(X), NEW x \in X, NEW t \in Seq(X), Len(t) = Len(s) + 1,
             \A i \in 1 .. Len(s) : t[i] = s[i], t[Len(s) + 1] = x
      PROVE  t = s \o <<x>>
  <2>1. Append(s, x) \in Seq(X) /\ Len(Append(s, x)) = Len(s) + 1
    OBVIOUS
  <2>2. ASSUME NEW i \in 1 .. Len(t) PROVE t[i] = Append(s, x)[i]
    BY <1>1
  <2>3. t = Append(s, x)
    BY <1>1, <2>1, <2>2, SeqEqual
  <2> QED
    BY <2>3, AppendIsConcat
<1>2. /\ <<a>> \in Seq(X) /\ Len(<<a>>) = 1 /\ <<a>>[1] = a
      /\ <<a, b>> \in Seq(X) /\ Len(<<a, b>>) = 2 /\ <<a, b>>[1] = a /\ <<a, b>>[2] = b
      /\ <<a, b, c>> \in Seq(X) /\ Len(<<a, b, c>>) = 3
      /\ <<a, b, c>>[1] = a /\ <<a, b, c>>[2] = b /\ <<a, b, c>>[3] = c
  OBVIOUS
<1>3. PICK s : s = <<a>>
  OBVIOUS
<1>4. PICK t : t = <<a, b>>
  OBVIOUS
<1>5. PICK u : u = <<a, b, c>>
  OBVIOUS
<1>6. t = s \o <<b>>
  <2>1. \A i \in 1 .. Len(s) : t[i] = s[i]
    BY <1>2, <1>3, <1>4
  <2>2. s \in Seq(X) /\ t \in Seq(X) /\ Len(t) = Len(s) + 1 /\ t[Len(s) + 1] = b
    BY <1>2, <1>3, <1>4
  <2> QED
    BY <1>1, <2>1, <2>2
<1>7. u = t \o <<c>>
  <2>1. \A i \in 1 .. Len(t) : u[i] = t[i]
    BY <1>2, <1>4, <1>5
  <2> QED
    BY <1>1, <1>2, <1>4, <1>5, <2>1
<1> QED
  BY <1>3, <1>4, <1>5, <1>6, <1>7

LEMMA NoEvents == Carries(<<>>, <<>>)
<1>1. <<>> \in Seq(EventType)
  OBVIOUS
<1>2. Sends(<<>>) = <<>>
  BY DEF Sends, DeltasOf, FlattenSeq
<1> QED
  BY <1>1, <1>2, NoText DEF Carries

\* The text of a block of its own, and the events that carry none.
LEMMA EventTexts ==
  ASSUME NEW k \in Int, NEW d \in Text
  PROVE  /\ Carries(<<OpenBlock(k)>>, <<>>) /\ Carries(<<CloseBlock(k)>>, <<>>)
         /\ Carries(<<Delta(k, d)>>, d) /\ Carries(Whole(k, d), d)
         /\ Carries(Start, <<>>) /\ Carries(Stop, <<>>)
         /\ Carries(<<Event("error", 0, <<>>)>>, <<>>)
<1>1. ASSUME NEW ev \in Names, NEW i \in Int, NEW t \in Text
      PROVE  Event(ev, i, t) \in EventType /\ Carries(<<Event(ev, i, t)>>, t)
  BY EventIs, OneCarries
<1>2. PICK a \in EventType : a = OpenBlock(k) /\ Carries(<<a>>, <<>>)
  BY <1>1, NoText DEF OpenBlock, Names
<1>3. PICK b \in EventType : b = Delta(k, d) /\ Carries(<<b>>, d)
  BY <1>1 DEF Delta, Names
<1>4. PICK c \in EventType : c = CloseBlock(k) /\ Carries(<<c>>, <<>>)
  BY <1>1, NoText DEF CloseBlock, Names
<1>5. Carries(<<a, b, c>>, d)
  <2>1. Carries(<<a>> \o <<b>>, <<>> \o d)
    BY <1>2, <1>3, ConcatCarries
  <2>2. Carries(<<a, b>>, d)
    BY <2>1, NoText, Tuples
  <2>3. Carries(<<a, b>> \o <<c>>, d \o <<>>)
    BY <1>4, <2>2, ConcatCarries
  <2>4. <<a, b, c>> = <<a, b>> \o <<c>> /\ d \o <<>> = d
    BY NoText, Tuples
  <2> QED
    BY <2>3, <2>4
<1>6. PICK z \in Int : z = 0
  OBVIOUS
<1>7. PICK x \in EventType : x = Event("message_delta", z, <<>>) /\ Carries(<<x>>, <<>>)
  BY <1>1, NoText DEF Names
<1>8. PICK y \in EventType : y = Event("message_stop", z, <<>>) /\ Carries(<<y>>, <<>>)
  BY <1>1, NoText DEF Names
<1>9. Carries(<<x, y>>, <<>>)
  <2>1. Carries(<<x>> \o <<y>>, <<>> \o <<>>)
    BY <1>7, <1>8, ConcatCarries
  <2> QED
    BY <2>1, NoText, Tuples
<1>10. Carries(Start, <<>>) /\ Carries(<<Event("error", 0, <<>>)>>, <<>>)
  BY <1>1, NoText DEF Start, Names
<1> QED
  BY <1>2, <1>3, <1>4, <1>5, <1>7, <1>9, <1>10, <1>8, <1>6 DEF Whole, Stop

\* Reply y is reply q after events that carry d: a client that streams got d.
After(q, d, y) ==
  /\ y \in ReplyType /\ y = [q EXCEPT !.out = y.out]
  /\ q.stream => Sent(y) = Sent(q) \o d
  /\ ~q.stream => y = q

LEMMA SendAfter ==
  ASSUME NEW q \in ReplyType, NEW evs, NEW d, Carries(evs, d)
  PROVE  After(q, d, Send(q, evs)) /\ Sent(q) \in Text
<1>1. PICK out \in Seq(EventType) : out = q.out
  BY DEF ReplyType
<1>2. evs \in Seq(EventType) /\ Sends(evs) = d
  BY DEF Carries
<1>3. out \o evs \in Seq(EventType) /\ Sends(out \o evs) = Sends(out) \o d
  <2>1. out \o evs \in Seq(EventType)
    BY <1>2
  <2> QED
    BY <1>2, <2>1, EventsCarry, SendsConcat
<1>4. Sent(q) = Sends(out) /\ Sends(out) \in Text
  BY <1>1, EventsCarry, DeltasType DEF Sent, Sends, DeltasOf
<1>5. PICK x \in Seq(EventType) : x = out \o evs
  BY <1>3
<1>6. CASE q.stream
  <2>1. PICK y : y = [q EXCEPT !.out = x]
    OBVIOUS
  <2>2. Send(q, evs) = y
    BY <1>1, <1>5, <1>6, <2>1 DEF Send
  <2>3. y \in ReplyType /\ y.out = x
    BY <2>1 DEF ReplyType
  <2>4. Sent(y) = Sends(x)
    BY <2>3 DEF Sent, Sends, DeltasOf
  <2>5. After(q, d, y)
    BY <1>3, <1>4, <1>5, <1>6, <2>1, <2>3, <2>4 DEF After
  <2> QED
    BY <1>4, <2>2, <2>5
<1>7. CASE ~q.stream
  <2>1. Send(q, evs) = q /\ q = [q EXCEPT !.out = q.out]
    BY <1>7 DEF Send, ReplyType
  <2> QED
    BY <1>4, <1>7, <2>1 DEF After
<1> QED
  BY <1>6, <1>7

LEMMA ParsedType ==
  ASSUME AnthropicAssumption, NEW q \in ReplyType, NEW final \in BOOLEAN
  PROVE  ContentOf(q, final) \in Text /\ Parsed(q, final) \in Text
BY ContentType, ShownType DEF AnthropicAssumption, ReplyType, ContentOf, Parsed

\* What the parse has beyond what was sent is sent, in a block that is open then.
LEMMA SendRestTexts ==
  ASSUME AnthropicAssumption, NEW q \in ReplyType, NEW final \in BOOLEAN,
         Sent(q) = q.emitted, IsPrefix(q.emitted, Parsed(q, final))
  PROVE  LET y == SendRest(q, final)
         IN  /\ y \in ReplyType
             /\ y = [q EXCEPT !.out = y.out, !.open = TRUE, !.emitted = y.emitted, !.at = y.at]
             /\ y.emitted = Parsed(q, final)
             /\ q.stream => Sent(y) = Parsed(q, final)
             /\ SentOf(Strip, ContentOf(q, final), y.at, Parsed(q, final))
<1>1. q.emitted \in Text /\ q.at \in SUBSET Nat
  BY DEF ReplyType
<1>2. PICK c \in Text : c = Parsed(q, final)
  BY ParsedType
<1>3. PICK d \in Text : d = Rest(q, final) /\ q.emitted \o d = c
  BY <1>1, <1>2, RestCompletes DEF Rest
<1>4. PICK evs : /\ evs = (IF q.open THEN <<>> ELSE <<OpenBlock(0)>>) \o <<Delta(0, d)>>
                 /\ Carries(evs, d)
  <2>1. PICK z \in Int : z = 0
    OBVIOUS
  <2>2. Carries(<<OpenBlock(z)>>, <<>>) /\ Carries(<<Delta(z, d)>>, d) /\ Carries(<<>>, <<>>)
    BY EventTexts, NoEvents
  <2>3. PICK u : u = (IF q.open THEN <<>> ELSE <<OpenBlock(z)>>) /\ Carries(u, <<>>)
    BY <2>2
  <2>4. Carries(u \o <<Delta(z, d)>>, <<>> \o d) /\ <<>> \o d = d
    BY <2>2, <2>3, ConcatCarries, NoText
  <2> QED
    BY <2>1, <2>3, <2>4
<1>5. PICK x : x = Send(q, evs) /\ After(q, d, x)
  BY <1>4, SendAfter
<1>6. PICK at \in SUBSET Nat : at = q.at \cup {Len(ContentOf(q, final))}
  <2>1. Len(ContentOf(q, final)) \in Nat
    BY ParsedType DEF Text
  <2> QED
    BY <1>1, <2>1
<1>7. PICK y : y = [x EXCEPT !.open = TRUE, !.emitted = c, !.at = at]
  OBVIOUS
<1>8. x.at = q.at
  BY <1>5 DEF After, ReplyType
<1>9. y = SendRest(q, final)
  <2>1. [x EXCEPT !.open = TRUE, !.emitted = c, !.at = @ \cup {Len(ContentOf(q, final))}]
          = SendRest(q, final)
    BY <1>2, <1>3, <1>4, <1>5 DEF SendRest
  <2>2. [x EXCEPT !.open = TRUE, !.emitted = c, !.at = @ \cup {Len(ContentOf(q, final))}] = y
    BY <1>6, <1>7, <1>8
  <2> QED
    BY <2>1, <2>2
<1>10. /\ y \in ReplyType /\ y.emitted = c /\ y.out = x.out /\ y.at = at
      /\ y = [q EXCEPT !.out = y.out, !.open = TRUE, !.emitted = y.emitted, !.at = y.at]
  BY <1>5, <1>7 DEF After, ReplyType
<1>11. q.stream => Sent(y) = c
  BY <1>3, <1>5, <1>10 DEF After, Sent
<1>12. SentOf(Strip, ContentOf(q, final), at, c)
  <2>1. ContentOf(q, final) \in Text /\ c = Shown(Strip, ContentOf(q, final))
    BY <1>2, ParsedType DEF Parsed
  <2> QED
    BY <1>6, <2>1, SentOfNow
<1> QED
  BY <1>2, <1>9, <1>10, <1>11, <1>12

\* More text, or the whole of it.
LEMMA MoreText ==
  ASSUME AnthropicAssumption, NEW q \in ReplyType, NEW c \in Text, NEW y \in ReplyType,
         SoFar(q), y.text = q.text \o c, y.out = q.out, y.format = q.format,
         y.emitted = q.emitted, y.at = q.at, y.open = q.open, NEW final \in BOOLEAN
  PROVE  Sent(y) = y.emitted /\ SentOf(Strip, ContentOf(y, final), y.at, y.emitted)
<1>1. Sent(y) = Sent(q)
  BY DEF Sent
<1>2. /\ q.text \in Text /\ y.text \in Text /\ Begins(q.text, y.text)
      /\ q.format \in Format
  <2>1. q.text \in Seq(Piece) /\ c \in Seq(Piece)
    BY DEF ReplyType, Text
  <2>2. Begins(q.text, q.text \o c)
    BY <2>1, ConcatBegins
  <2> QED
    BY <2>2 DEF ReplyType
<1>3. SentOf(Strip, ContentOf(y, final), y.at, y.emitted)
  <2>1. CASE q.format = "json"
    BY <2>1 DEF SoFar, SentOf
  <2>2. CASE q.format # "json"
    <3>1. q.format \in Format \ {"json"}
      BY <1>2, <2>2
    <3>2. Begins(Content(q.format, FALSE, q.text), Content(q.format, final, y.text))
      BY <1>2, <3>1, ContentBegins
    <3>3. Begins(ContentOf(q, FALSE), ContentOf(y, final))
      BY <3>2 DEF ContentOf
    <3>4. ContentOf(q, FALSE) \in Text /\ ContentOf(y, final) \in Text
      BY ParsedType
    <3>5. SentOf(Strip, ContentOf(q, FALSE), q.at, q.emitted)
      BY DEF SoFar
    <3> QED
      BY <3>3, <3>4, <3>5, SentOfGrows
  <2> QED
    BY <2>1, <2>2
<1> QED
  BY <1>1, <1>3 DEF SoFar

\* The text a token or the end of the generation adds.
LEMMA ChunkType ==
  ASSUME NEW buf \in BOOLEAN, NEW token \in Text \cup {Half}
  PROVE  Chunk(buf, token) \in Text /\ Stub(buf) \in Text
<1>1. "u" \in Piece /\ "?" \in Piece
  BY DEF Piece
<1>2. <<"u">> \in Text /\ <<"?">> \in Text /\ <<>> \in Text
  <2>1. ASSUME NEW x \in Piece PROVE <<x>> \in Text /\ <<>> \in Text
    BY DEF Text
  <2> QED
    BY <1>1, <2>1
<1>3. token # Half => token \in Text
  OBVIOUS
<1>4. token # Half => <<"?">> \o token \in Text /\ <<>> \o token \in Text
  <2>1. ASSUME NEW s \in Text, NEW t \in Text PROVE s \o t \in Text
    BY DEF Text
  <2> QED
    BY <1>2, <1>3, <2>1
<1> QED
  BY <1>2, <1>4 DEF Chunk, Stub

\* A token in the text: what was sent stays what is shown of a beginning of it.
LEMMA TakenTexts ==
  ASSUME AnthropicAssumption, NEW q \in ReplyType, NEW token \in Text \cup {Half}, SoFar(q)
  PROVE  Taken(q, token) \in ReplyType /\ SoFar(Taken(q, token))
<1>1. PICK c \in Text : c = Chunk(q.buf, token)
  BY ChunkType DEF ReplyType
<1>2. PICK tx \in Text, buf \in BOOLEAN : tx = q.text \o c /\ buf = (token = Half /\ ~q.buf)
  <2>1. q.text \in Text
    BY DEF ReplyType
  <2>2. q.text \o c \in Text
    BY <2>1 DEF Text
  <2> QED
    BY <2>2
<1>3. PICK t : t = [q EXCEPT !.text = tx, !.buf = buf]
  OBVIOUS
<1>4. /\ t \in ReplyType /\ t.text = tx /\ t.out = q.out /\ t.format = q.format
      /\ t.emitted = q.emitted /\ t.at = q.at /\ t.open = q.open /\ t.stream = q.stream
  BY <1>3 DEF ReplyType
<1>5. Sent(t) = t.emitted /\ SentOf(Strip, ContentOf(t, FALSE), t.at, t.emitted)
  BY <1>2, <1>4, MoreText
<1>6. ASSUME NEW y \in ReplyType, Alike(y, t) PROVE SoFar(y)
  <2>1. Sent(y) = Sent(t) /\ ContentOf(y, FALSE) = ContentOf(t, FALSE)
    BY <1>6 DEF Sent, ContentOf, Alike
  <2> QED
    BY <1>4, <1>5, <1>6, <2>1 DEF SoFar, Alike
<1>7. ASSUME NEW k \in Int
      PROVE  [t EXCEPT !.since = k] \in ReplyType /\ Alike([t EXCEPT !.since = k], t)
  BY <1>4 DEF ReplyType, Alike
<1>8. t.since + 1 \in Int /\ 0 \in Int
  BY <1>4 DEF ReplyType
<1>9. PICK y : y = [t EXCEPT !.since = 0]
  OBVIOUS
<1>10. y \in ReplyType /\ Alike(y, t) /\ SoFar(y)
  BY <1>6, <1>7, <1>8, <1>9
<1>11. SoFar(t)
  <2>1. Alike(t, t)
    BY DEF Alike
  <2> QED
    BY <1>4, <1>6, <2>1
<1>12. ASSUME q.stream, q.format # "json"
       PROVE  AfterParse(y) \in ReplyType /\ SoFar(AfterParse(y))
  <2>1. CASE PartialCall(y.format, y.text)
    <3>1. PICK z : z = [y EXCEPT !.frozen = TRUE]
      OBVIOUS
    <3>2. z \in ReplyType /\ Alike(z, t)
      BY <1>10, <3>1 DEF ReplyType, Alike
    <3>3. AfterParse(y) = z
      BY <2>1, <3>1 DEF AfterParse
    <3> QED
      BY <1>6, <3>2, <3>3
  <2>2. CASE ~PartialCall(y.format, y.text) /\ Extends(y, FALSE)
    <3>1. IsPrefix(y.emitted, Parsed(y, FALSE)) /\ Sent(y) = y.emitted
      BY <1>10, <2>2 DEF Extends, IsStrictPrefix, SoFar
    <3>2. PICK z : z = SendRest(y, FALSE)
      OBVIOUS
    <3>3. y.stream
      BY <1>4, <1>10, <1>12 DEF Alike
    <3>4. /\ z \in ReplyType
          /\ z = [y EXCEPT !.out = z.out, !.open = TRUE, !.emitted = z.emitted, !.at = z.at]
          /\ z.emitted = Parsed(y, FALSE) /\ Sent(z) = Parsed(y, FALSE)
          /\ SentOf(Strip, ContentOf(y, FALSE), z.at, Parsed(y, FALSE))
      BY <1>10, <3>1, <3>2, <3>3, SendRestTexts
    <3>5. y \in ReplyType /\ y.format # "json"
      BY <1>4, <1>10, <1>12 DEF Alike
    <3>6. z.format = y.format /\ z.text = y.text /\ z.open /\ z.format # "json"
      BY <3>4, <3>5 DEF ReplyType
    <3>7. AfterParse(y) = z /\ ContentOf(z, FALSE) = ContentOf(y, FALSE)
      BY <2>2, <3>2, <3>6 DEF AfterParse, ContentOf
    <3> QED
      BY <3>4, <3>6, <3>7 DEF SoFar
  <2>3. CASE ~PartialCall(y.format, y.text) /\ ~Extends(y, FALSE)
    BY <1>10, <2>3 DEF AfterParse
  <2> QED
    BY <2>1, <2>2, <2>3
<1>13. PICK z : z = [t EXCEPT !.since = t.since + 1]
  OBVIOUS
<1>14. z \in ReplyType /\ SoFar(z)
  BY <1>6, <1>7, <1>8, <1>13
<1>15. Taken(q, token) = IF ~q.stream \/ q.format = "json" \/ q.frozen THEN t
                         ELSE IF DoParse(q, c) THEN AfterParse(y) ELSE z
  <2>1. t = [q EXCEPT !.text = @ \o Chunk(q.buf, token), !.buf = token = Half /\ ~@]
    BY <1>1, <1>2, <1>3
  <2> QED
    BY ONLY <1>1, <1>9, <1>13, <2>1 DEF Taken
<1> QED
  <2>1. q.stream \in BOOLEAN
    BY DEF ReplyType
  <2> QED
    BY <1>4, <1>11, <1>12, <1>14, <1>15, <2>1

\* The last blocks carry no text when the block of text is open.
LEMMA LastBlocksTexts ==
  ASSUME NEW q \in ReplyType
  PROVE  /\ LastBlocks(q) \o Stop \in Seq(EventType)
         /\ \E d \in Text : Carries(LastBlocks(q) \o Stop, d) /\ (q.open => d = <<>>)
<1>1. PICK z, o \in Int : z = 0 /\ o = 1
  OBVIOUS
<1>2. q.open \in BOOLEAN /\ Fallback(q) \in Text
  <2>1. q.text \in Text /\ q.open \in BOOLEAN
    BY DEF ReplyType
  <2>2. <<" ">> \in Text
    BY DEF Text, Piece, Blank
  <2> QED
    BY <2>1, <2>2 DEF Fallback
<1>3. PICK u : u = (IF q.open THEN <<CloseBlock(0)>> ELSE <<>>) /\ Carries(u, <<>>)
  BY <1>1, <1>2, NoText, EventTexts, NoEvents
<1>4. PICK v : /\ v = (IF Called(q) THEN Whole(IF q.open THEN 1 ELSE 0, <<>>) ELSE <<>>)
               /\ Carries(v, <<>>)
  <2>1. PICK k \in Int : k = IF q.open THEN 1 ELSE 0
    BY <1>1
  <2>2. Carries(Whole(k, <<>>), <<>>)
    BY NoText, EventTexts
  <2> QED
    BY <2>1, <2>2, NoEvents
<1>5. PICK w, d : /\ w = (IF ~q.open /\ ~Called(q) THEN Whole(0, Fallback(q)) ELSE <<>>)
                  /\ Carries(w, d) /\ (q.open => d = <<>>)
  <2>1. Carries(Whole(z, Fallback(q)), Fallback(q))
    BY <1>2, EventTexts
  <2>2. CASE ~q.open /\ ~Called(q)
    BY <1>1, <2>1, <2>2
  <2>3. CASE ~(~q.open /\ ~Called(q))
    BY <2>3, NoEvents
  <2> QED
    BY <2>2, <2>3
<1>6. Carries(u \o v, <<>>)
  <2>1. Carries(u \o v, <<>> \o <<>>)
    BY <1>3, <1>4, ConcatCarries
  <2> QED
    BY <2>1, NoText
<1>7. d \in Text /\ <<>> \o d = d /\ d \o <<>> = d
  BY <1>5, NoText DEF Carries
<1>8. Carries((u \o v) \o w, d)
  <2>1. Carries((u \o v) \o w, <<>> \o d)
    BY <1>5, <1>6, ConcatCarries
  <2> QED
    BY <1>7, <2>1
<1>9. PICK x : x = (u \o v) \o w
  OBVIOUS
<1>10. LastBlocks(q) = x
  BY <1>3, <1>4, <1>5, <1>9 DEF LastBlocks
<1>11. Carries(x \o Stop, d)
  <2>1. Carries(Stop, <<>>)
    BY <1>1, NoText, EventTexts
  <2>2. Carries(x \o Stop, d \o <<>>)
    BY <1>8, <1>9, <2>1, ConcatCarries
  <2> QED
    BY <1>7, <2>2
<1> QED
  BY <1>5, <1>7, <1>10, <1>11 DEF Carries

\* The reply that gen_end() completes, or one that is complete.
AllSoFar(q) ==
  /\ Sent(q) = q.emitted /\ SentOf(Strip, ContentOf(q, TRUE), q.at, q.emitted)
  /\ ~q.open => q.emitted = <<>>
  /\ q.format = "json" => ~q.open

LEMMA EndedTexts ==
  ASSUME AnthropicAssumption, NEW q \in ReplyType, SoFar(q)
  PROVE  Ended(q) \in ReplyType /\ AllSoFar(Ended(q))
<1>1. PICK c \in Text : c = Stub(q.buf)
  BY ChunkType, NoText DEF ReplyType
<1>2. PICK y : y = [q EXCEPT !.text = q.text \o c, !.buf = FALSE]
  OBVIOUS
<1>3. y = Ended(q)
  BY <1>1, <1>2 DEF Ended
<1>4. q.text \o c \in Text
  BY DEF ReplyType, Text
<1>5. /\ y \in ReplyType /\ y.text = q.text \o c /\ y.out = q.out /\ y.format = q.format
      /\ y.emitted = q.emitted /\ y.at = q.at /\ y.open = q.open
  BY <1>2, <1>4 DEF ReplyType
<1>6. Sent(y) = y.emitted /\ SentOf(Strip, ContentOf(y, TRUE), y.at, y.emitted)
  BY <1>5, MoreText
<1> QED
  BY <1>3, <1>5, <1>6 DEF AllSoFar, SoFar

\* The end of a reply: what its block of text lacked follows.
LEMMA FinalizedTexts ==
  ASSUME AnthropicAssumption, NEW q \in ReplyType, AllSoFar(q)
  PROVE  TextOK(Finalized(q), "done", "complete")
<1>1. PICK t : t = LastText(q)
  OBVIOUS
<1>2. /\ q.emitted \in Text /\ Strip \in BOOLEAN
      /\ q.open \in BOOLEAN /\ q.stream \in BOOLEAN
      /\ Parsed(q, TRUE) \in Text /\ ContentOf(q, TRUE) \in Text
  BY ParsedType DEF ReplyType, AnthropicAssumption
\* The reply with its last text.
<1>3. /\ t \in ReplyType /\ t.text = q.text /\ t.format = q.format /\ t.stream = q.stream
      /\ q.stream /\ t.open /\ Kept(t) => Sent(t) = Parsed(q, TRUE)
  <2>1. ASSUME IsPrefix(q.emitted, Parsed(q, TRUE)), t = SendRest(q, TRUE)
        PROVE  /\ t \in ReplyType /\ t.text = q.text /\ t.format = q.format
               /\ t.stream = q.stream /\ (q.stream => Sent(t) = Parsed(q, TRUE))
    <3>1. /\ t \in ReplyType
          /\ t = [q EXCEPT !.out = t.out, !.open = TRUE, !.emitted = t.emitted, !.at = t.at]
          /\ q.stream => Sent(t) = Parsed(q, TRUE)
      BY <2>1, SendRestTexts DEF AllSoFar
    <3> QED
      BY <3>1 DEF ReplyType
  <2>2. CASE q.format = "json" /\ Parsed(q, TRUE) # <<>>
    <3>1. q.emitted = <<>>
      BY <2>2 DEF AllSoFar
    <3>2. IsPrefix(q.emitted, Parsed(q, TRUE))
      <4>1. PICK c \in Text : c = Parsed(q, TRUE)
        BY <1>2
      <4>2. Len(<<>>) = 0 /\ Len(c) \in Nat /\ 1 .. 0 = {}
        BY DEF Text
      <4>3. Begins(<<>>, c)
        BY <4>2 DEF Begins
      <4>4. IsPrefix(q.emitted, c)
        BY <1>2, <3>1, <4>3, PrefixBegins DEF Text
      <4> QED
        BY <4>1, <4>4
    <3>3. t = SendRest(q, TRUE)
      BY <1>1, <2>2 DEF LastText
    <3> QED
      BY <2>1, <3>2, <3>3
  <2>3. CASE ~(q.format = "json" /\ Parsed(q, TRUE) # <<>>) /\ q.open /\ Extends(q, TRUE)
    <3>1. IsPrefix(q.emitted, Parsed(q, TRUE)) /\ t = SendRest(q, TRUE)
      BY <1>1, <2>3 DEF LastText, Extends, IsStrictPrefix
    <3> QED
      BY <2>1, <3>1
  <2>4. CASE ~(q.format = "json" /\ Parsed(q, TRUE) # <<>>) /\ ~(q.open /\ Extends(q, TRUE))
    <3>1. t = q
      BY <1>1, <2>4 DEF LastText
    <3>2. q.open /\ Kept(q) => q.emitted = Parsed(q, TRUE)
      <4> SUFFICES ASSUME q.open, Kept(q) PROVE q.emitted = Parsed(q, TRUE)
        OBVIOUS
      <4>1. ~IsStrictPrefix(q.emitted, Shown(Strip, ContentOf(q, TRUE)))
        BY <2>4 DEF Extends, Parsed
      <4>2. /\ SentOf(Strip, ContentOf(q, TRUE), q.at, q.emitted)
            /\ Regular(Strip, ContentOf(q, TRUE), q.at)
        BY DEF AllSoFar, Kept
      <4>3. q.emitted = Shown(Strip, ContentOf(q, TRUE))
        BY <1>2, <4>1, <4>2, SentOfBegins
      <4> QED
        BY <4>3 DEF Parsed
    <3> QED
      BY <3>1, <3>2 DEF AllSoFar
  <2> QED
    BY <2>2, <2>3, <2>4
<1>4. PICK d \in Text : Carries(LastBlocks(t) \o Stop, d) /\ (t.open => d = <<>>)
  BY <1>3, LastBlocksTexts
<1>5. PICK y : y = Finalized(q) /\ After(t, d, y) /\ Sent(t) \in Text
  <2>1. Finalized(q) = Send(t, LastBlocks(t) \o Stop)
    BY <1>1 DEF Finalized
  <2> QED
    BY <1>3, <1>4, <2>1, SendAfter
<1>6. /\ y \in ReplyType /\ y.text = q.text /\ y.format = q.format /\ y.stream = q.stream
      /\ y.open = t.open /\ y.at = t.at
  BY <1>3, <1>5 DEF After, ReplyType
<1>7. y.stream /\ y.open /\ Kept(y) => Sent(y) = Parsed(y, TRUE)
  <2> SUFFICES ASSUME y.stream, y.open, Kept(y) PROVE Sent(y) = Parsed(y, TRUE)
    OBVIOUS
  <2>1. /\ ContentOf(y, TRUE) = ContentOf(t, TRUE) /\ Parsed(y, TRUE) = Parsed(q, TRUE)
        /\ Kept(t)
    BY <1>3, <1>6 DEF ContentOf, Parsed, Kept
  <2>2. Sent(t) = Parsed(q, TRUE) /\ d = <<>> /\ t.stream
    BY <1>3, <1>4, <1>6, <2>1
  <2>3. Sent(y) = Sent(t) \o <<>>
    BY <1>5, <2>2 DEF After
  <2> QED
    BY <1>5, <2>2, <2>3, <2>1, NoText
<1> QED
  BY <1>5, <1>6, <1>7 DEF TextOK

\* The replies of requests that never generate, or fail.
LEMMA ShortTexts ==
  ASSUME NEW q \in ReplyType
  PROVE  /\ TooLong(q) \in ReplyType /\ Failed(q) \in ReplyType
         /\ SoFar(q) => Send(q, Start) \in ReplyType /\ SoFar(Send(q, Start))
<1>1. PICK z \in Int : z = 0
  OBVIOUS
<1>2. /\ Carries(Start, <<>>) /\ Carries(Stop, <<>>)
      /\ Carries(<<Event("error", 0, <<>>)>>, <<>>)
  BY <1>1, NoText, EventTexts
<1>3. PICK d \in Text : d = <<"?">>
  <2>1. ASSUME NEW x \in Piece PROVE <<x>> \in Text
    BY DEF Text
  <2>2. "?" \in Piece
    BY DEF Piece
  <2> QED
    BY <2>1, <2>2
<1>4. Carries(Whole(0, d), d)
  BY <1>1, EventTexts
<1>5. TooLong(q) \in ReplyType
  <2>1. Carries(Start \o Whole(0, d), <<>> \o d)
    BY <1>2, <1>4, ConcatCarries
  <2>2. Carries((Start \o Whole(0, d)) \o Stop, (<<>> \o d) \o <<>>)
    BY <1>2, <2>1, ConcatCarries
  <2>3. TooLong(q) = Send(q, (Start \o Whole(0, d)) \o Stop)
    BY <1>3 DEF TooLong
  <2> QED
    BY <2>2, <2>3, SendAfter DEF After
<1>6. Failed(q) \in ReplyType
  BY <1>2, SendAfter DEF After, Failed
<1>7. ASSUME SoFar(q) PROVE Send(q, Start) \in ReplyType /\ SoFar(Send(q, Start))
  <2>1. PICK y : y = Send(q, Start) /\ After(q, <<>>, y) /\ Sent(q) \in Text
    BY <1>2, SendAfter
  <2>2. /\ y \in ReplyType /\ y.text = q.text /\ y.format = q.format /\ y.open = q.open
        /\ y.emitted = q.emitted /\ y.at = q.at /\ ContentOf(y, FALSE) = ContentOf(q, FALSE)
    BY <2>1 DEF After, ReplyType, ContentOf
  <2>3. Sent(y) = Sent(q)
    <3>1. q.stream \in BOOLEAN
      BY DEF ReplyType
    <3> QED
      BY <2>1, <3>1, NoText DEF After
  <2> QED
    BY <1>7, <2>1, <2>2, <2>3 DEF SoFar
<1> QED
  BY <1>5, <1>6, <1>7

\* A step changes one reply, its phase and how it ended.
LEMMA OneText ==
  ASSUME Texts, NEW r \in Request, NEW q \in ReplyType, NEW ph, NEW why,
         reply' = [reply EXCEPT ![r] = q],
         phase' = [phase EXCEPT ![r] = ph],
         ended' = [ended EXCEPT ![r] = why],
         TextOK(q, ph, why)
  PROVE  Texts'
<1>1. /\ reply' \in [Request -> ReplyType]
      /\ phase' = [x \in Request |-> phase'[x]]
      /\ ended' = [x \in Request |-> ended'[x]]
  BY DEF Texts
<1>2. /\ reply'[r] = q /\ phase'[r] = ph /\ ended'[r] = why
      /\ \A x \in Request \ {r} :
           reply'[x] = reply[x] /\ phase'[x] = phase[x] /\ ended'[x] = ended[x]
  BY DEF Texts
<1>3. \A x \in Request : TextOK(reply'[x], phase'[x], ended'[x])
  BY <1>2 DEF Texts
<1> QED
  BY <1>1, <1>3 DEF Texts

\* A request that was not answered has received nothing.
LEMMA NewTexts ==
  ASSUME NEW q \in ReplyType,
         q.text = <<>>, q.emitted = <<>>, ~q.open, q.out = <<>>
  PROVE  SoFar(q)
<1>1. Sent(q) = <<>>
  BY DEF Sent, FlattenSeq
<1> QED
  BY <1>1 DEF SoFar, SentOf

LEMMA NewReplyType ==
  ASSUME NEW a \in BOOLEAN, NEW b \in Format
  PROVE  LET n == [NewReply EXCEPT !.stream = a, !.format = b]
         IN  n \in ReplyType /\ SoFar(n) /\ NewReply \in ReplyType /\ SoFar(NewReply)
<1>1. PICK n : n = [NewReply EXCEPT !.stream = a, !.format = b]
  OBVIOUS
<1>2. <<>> \in Text /\ <<>> \in Seq(EventType)
  BY NoText
<1>3. /\ NewReply \in ReplyType /\ NewReply.text = <<>> /\ NewReply.emitted = <<>>
      /\ ~NewReply.open /\ NewReply.out = <<>>
  BY <1>2 DEF NewReply, ReplyType, Format
<1>4. n \in ReplyType /\ n.text = <<>> /\ n.emitted = <<>> /\ ~n.open /\ n.out = <<>>
  BY <1>1, <1>3 DEF ReplyType
<1> QED
  BY <1>1, <1>4, <1>3, NewTexts

LEMMA InitTexts == Init => Texts
<1> SUFFICES ASSUME Init PROVE Texts
  OBVIOUS
<1>1. /\ phase = [r \in Request |-> "none"] /\ ended = [r \in Request |-> ""]
      /\ reply = [r \in Request |-> NewReply]
  BY DEF Init
<1>2. NewReply \in ReplyType /\ SoFar(NewReply)
  BY NewReplyType DEF Format
<1>3. TextOK(NewReply, "none", "")
  BY <1>2 DEF TextOK
<1> QED
  BY <1>1, <1>2, <1>3 DEF Texts

LEMMA NextTexts == AnthropicAssumption /\ Texts /\ [Next]_vars => Texts'
<1> SUFFICES ASSUME AnthropicAssumption, Texts, [Next]_vars PROVE Texts'
  OBVIOUS
<1>1. CASE UNCHANGED vars
  BY <1>1 DEF Texts, vars
<1>2. CASE Next
  <2> PICK r \in Request : \/ \E o \in Offers[r] : Enqueue(r, o)
                          \/ next_chunk(r)
                          \/ CancelText(r) \/ CancelWait(r)
    BY <1>2 DEF Next
  <2>1. PICK q \in ReplyType : q = reply[r] /\ TextOK(q, phase[r], ended[r])
    BY DEF Texts
  <2>2. ended = [ended EXCEPT ![r] = ended[r]] /\ phase = [phase EXCEPT ![r] = phase[r]]
    BY DEF Texts
  <2>3. phase[r] # "done" => SoFar(q) /\ ended[r] # "complete"
    BY <2>1 DEF TextOK
  <2>4. ASSUME NEW o \in Offers[r], Enqueue(r, o) PROVE Texts'
    <3>1. PICK n : n = [NewReply EXCEPT !.stream = o[1], !.format = o[2]]
      OBVIOUS
    <3>2. o[1] \in BOOLEAN /\ o[2] \in Format
      BY DEF AnthropicAssumption
    <3>3. n \in ReplyType /\ SoFar(n)
      BY <3>1, <3>2, NewReplyType
    <3>4. /\ reply' = [reply EXCEPT ![r] = n]
          /\ phase' = [phase EXCEPT ![r] = "wait"] /\ ended' = ended
          /\ phase[r] = "none"
      BY <2>4, <3>1 DEF Enqueue
    <3>5. TextOK(n, "wait", ended[r])
      BY <2>3, <3>3, <3>4 DEF TextOK
    <3> QED
      BY <2>2, <3>3, <3>4, <3>5, OneText
  <2>5. ASSUME NEW len \in Prompts, Acquire(r, len) PROVE Texts'
    <3>1. /\ reply' = [reply EXCEPT ![r] = Send(q, Start)]
          /\ phase' = [phase EXCEPT ![r] = "text"] /\ ended' = ended
          /\ phase[r] = "wait"
      BY <2>1, <2>5 DEF Acquire
    <3>2. Send(q, Start) \in ReplyType /\ SoFar(Send(q, Start))
      BY <2>3, <3>1, ShortTexts
    <3>3. TextOK(Send(q, Start), "text", ended[r])
      BY <2>3, <3>1, <3>2 DEF TextOK
    <3> QED
      BY <2>2, <3>1, <3>2, <3>3, OneText
  <2>6. ASSUME NEW len \in Prompts, Reject(r, len) PROVE Texts'
    <3>1. /\ reply' = [reply EXCEPT ![r] = TooLong(q)]
          /\ phase' = [phase EXCEPT ![r] = "done"]
          /\ ended' = [ended EXCEPT ![r] = "toolong"]
      BY <2>1, <2>6 DEF Reject, Done
    <3>2. TooLong(q) \in ReplyType
      BY ShortTexts
    <3>3. TextOK(TooLong(q), "done", "toolong")
      BY <3>2 DEF TextOK
    <3> QED
      BY <3>1, <3>2, <3>3, OneText
  <2>7. ASSUME AcquireFails(r) \/ TextFails(r) PROVE Texts'
    <3>1. /\ reply' = [reply EXCEPT ![r] = Failed(q)]
          /\ phase' = [phase EXCEPT ![r] = "done"]
          /\ ended' = [ended EXCEPT ![r] = "error"]
      BY <2>1, <2>7 DEF AcquireFails, TextFails, Done
    <3>2. Failed(q) \in ReplyType
      BY ShortTexts
    <3>3. TextOK(Failed(q), "done", "error")
      BY <3>2 DEF TextOK
    <3> QED
      BY <3>1, <3>2, <3>3, OneText
  <2>8. ASSUME NEW token \in Says[r], TakeToken(r, token) PROVE Texts'
    <3>1. /\ reply' = [reply EXCEPT ![r] = Taken(q, token)]
          /\ phase' = phase /\ ended' = ended /\ phase[r] = "text"
      BY <2>1, <2>8 DEF TakeToken
    <3>2. token \in Text \cup {Half}
      BY DEF AnthropicAssumption
    <3>3. Taken(q, token) \in ReplyType /\ SoFar(Taken(q, token))
      BY <2>3, <3>1, <3>2, TakenTexts
    <3>4. TextOK(Taken(q, token), phase[r], ended[r])
      BY <2>3, <3>1, <3>3 DEF TextOK
    <3> QED
      BY <2>2, <3>1, <3>3, <3>4, OneText
  <2>9. ASSUME Finalize(r) PROVE Texts'
    <3>1. PICK t : /\ t = Ended(q) /\ reply' = [reply EXCEPT ![r] = Finalized(t)]
                   /\ phase' = [phase EXCEPT ![r] = "done"]
                   /\ ended' = [ended EXCEPT ![r] = "complete"]
                   /\ phase[r] = "text"
      BY <2>1, <2>9 DEF Finalize, Done
    <3>2. t \in ReplyType /\ AllSoFar(t)
      BY <2>3, <3>1, EndedTexts
    <3>3. TextOK(Finalized(t), "done", "complete") /\ Finalized(t) \in ReplyType
      BY <3>2, FinalizedTexts DEF TextOK
    <3> QED
      BY <3>1, <3>3, OneText
  <2>10. ASSUME CancelText(r) \/ CancelWait(r) PROVE Texts'
    <3>1. PICK why \in {"cancelled", "dropped"} :
             /\ reply' = [reply EXCEPT ![r] = q]
             /\ phase' = [phase EXCEPT ![r] = "done"]
             /\ ended' = [ended EXCEPT ![r] = why]
      BY <2>1, <2>10 DEF CancelText, CancelWait, Done
    <3>2. TextOK(q, "done", why)
      BY <2>1, <3>1 DEF TextOK
    <3> QED
      BY <3>1, <3>2, OneText
  <2> QED
    BY <2>4, <2>5, <2>6, <2>7, <2>8, <2>9, <2>10 DEF next_chunk
<1> QED
  BY <1>1, <1>2

\* What was sent of a reply is what is shown of a beginning of its content, and in
\* the end all of it.
THEOREM TextsInvariance == Spec => []Texts
  BY InitTexts, NextTexts, AnthropicAssumption, PTL DEF Spec

\* Once a block of text was opened, a complete stream carries the content of the
\* final parse, however that differs from the partial parses before it, also after
\* a tool call, as long as the content is regular (Kept).
THEOREM TextMatchesCorrect == Spec => []TextMatches
<1>1. Texts => TextMatches
  BY DEF Texts, TextOK, TextMatches
<1> QED
  BY <1>1, TextsInvariance, PTL
=============================================================================
