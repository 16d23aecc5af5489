----------------------------- MODULE SeqMemory -----------------------------
(***************************************************************************)
(* What a KV cache without a sliding window promises to the callers of the *)
(* memory API: a bag of tokens, each with a position and the set of the    *)
(* sequences it belongs to.  Every action is one call with its arguments,  *)
(* which call' records, so that a step of the cache can only be explained  *)
(* by the effect of the call that was made.  Where a token is stored, the  *)
(* search heads, the cached minima and maxima, the pending shifts and the  *)
(* trial placement of a batch are invisible here: a decode is refused as a *)
(* whole or appends its tokens one ubatch after the other.                 *)
(***************************************************************************)
EXTENDS Integers, Sequences, FiniteSets, FiniteSetsExt, SequencesExt, BagsExt

CONSTANTS Seqs,
          Size,     \* tokens that a group of sequences has room for
          Group(_), \* sequences of one group can share tokens
          Froms, Tos, Deltas, Divisors, Batches   \* the arguments callers pass

VARIABLES mem,   \* the bag of the tokens held
          due,   \* the tokens of the decode in progress that are still to come
          call,  \* the call made last, with its arguments
          ret    \* its answer so far

memory == <<mem, due, call, ret>>

IsEntry(e) ==
  e.pos >= 0 /\ e.seqs # {} /\ \A s, t \in e.seqs : Group(s) = Group(t)

NoCall == [op |-> "none", args |-> <<>>]

Init == mem = EmptyBag /\ due = EmptyBag /\ call = NoCall /\ ret = "void"

In(e, s, p0, p1) ==
  s \in e.seqs /\ e.pos >= p0 /\ (p1 < 0 \/ e.pos < p1)

(* The entries of bag m that satisfy P. *)
Only(m, P(_)) == [e \in {x \in DOMAIN m : P(x)} |-> m[e]]

(* Every token e becomes f(e); a token without sequence is removed.         *)
Becomes(f(_)) == Only(BagOfAll(f, mem), IsEntry)
Become(f(_))  == mem' = Becomes(f)

Gone == [pos |-> -1, seqs |-> {}]

Without(e, s) == [e EXCEPT !.seqs = @ \ {s}]

Calling(op, args) ==
  /\ call' = [op |-> op, args |-> args]
  /\ due = EmptyBag

(* A call that is not a decode. *)
Does(op, args) == Calling(op, args) /\ due' = EmptyBag /\ ret' = "void"

Clear == Does("clear", <<>>) /\ Become(LAMBDA e : Gone)

RemoveTokens(s, p0, p1) ==
  /\ Does("rm", <<s, p0, p1>>)
  /\ Become(LAMBDA e : IF In(e, s, p0, p1) THEN Without(e, s) ELSE e)

RemoveAny(p0, p1) ==
  /\ Does("rm_any", <<p0, p1>>)
  /\ Become(LAMBDA e : IF \E s \in e.seqs : In(e, s, p0, p1) THEN Gone ELSE e)

Share(src, dst, p0, p1) ==
  /\ Group(src) = Group(dst)
  /\ Does("cp", <<src, dst, p0, p1>>)
  /\ Become(LAMBDA e : IF In(e, src, p0, p1) THEN [e EXCEPT !.seqs = @ \cup {dst}] ELSE e)

(* The tokens of src replace all tokens of the group of dst.                *)
Replace(src, dst) ==
  /\ Group(src) # Group(dst)
  /\ Does("cp", <<src, dst, -1, -1>>)
  /\ mem' = Only(mem, LAMBDA e : \A t \in e.seqs : Group(t) # Group(dst))
              (+) Becomes(LAMBDA e : IF src \in e.seqs
                                     THEN [e EXCEPT !.seqs = {dst}] ELSE Gone)

(* All other sequences are removed.                                         *)
KeepOnly(s) ==
  /\ Does("keep", <<s>>)
  /\ Become(LAMBDA e : IF s \in e.seqs THEN [e EXCEPT !.seqs = {s}] ELSE Gone)

(* A token moved below position 0 is removed, from every sequence it is in. *)
Shift(s, p0, p1, d) ==
  /\ Does("add", <<s, p0, p1, d>>)
  /\ Become(LAMBDA e : IF In(e, s, p0, p1) THEN [e EXCEPT !.pos = @ + d] ELSE e)

Divide(s, p0, p1, k) ==
  /\ Does("div", <<s, p0, p1, k>>)
  /\ Become(LAMBDA e : IF In(e, s, p0, p1) THEN [e EXCEPT !.pos = @ \div k] ELSE e)

-----------------------------------------------------------------------------
PosOf(m, s) == {e.pos : e \in {x \in DOMAIN m : s \in x.seqs}}
Load(m, s)  == BagCardinality(Only(m, LAMBDA e : \A t \in e.seqs : Group(t) = Group(s)))

(* Sequence s goes on in m where it ended, without a gap.                   *)
GoesOn(m, s) ==
  LET P == PosOf(m, s)
  IN  P # {} => /\ PosOf(mem, s) # {} => Min(P) = Max(PosOf(mem, s)) + 1
                /\ Cardinality(P) = Max(P) - Min(P) + 1

(* The tokens m are the batch b, each in the sequences it lists.            *)
IsBatch(m, b) ==
  /\ BagOfAll(LAMBDA e : e.seqs, m) = ToBag([i \in DOMAIN b |-> ToSet(b[i].ids)])
  /\ \A s \in Seqs : GoesOn(m, s) /\ Load(mem (+) m, s) <= Size

(* decode(): turned away as a whole, or accepted as a whole.                *)
Decode(b) ==
  /\ Calling("decode", b)
  /\ UNCHANGED mem
  /\ \/ ret' \in {"refused", "invalid"} /\ due' = EmptyBag
     \/ ret' = "running" /\ due' # EmptyBag /\ IsBatch(due', b)

(* A ubatch: some of the tokens that were to come are there.                *)
AppendTokens ==
  /\ due # EmptyBag /\ due' \sqsubseteq due /\ due' # due
  /\ mem' (+) due' = mem (+) due
  /\ ret' = IF due' = EmptyBag THEN "ok" ELSE "running"
  /\ UNCHANGED call

(* Sequences that a token of b lists after its first one.                   *)
Further(b) == UNION {ToSet(Tail(b[i].ids)) : i \in DOMAIN b}

(* A ubatch fails: nothing of it stays in the first sequence of its tokens, *)
(* and what was there before stays.                                         *)
Fail ==
  /\ due # EmptyBag /\ due' = EmptyBag
  /\ mem \sqsubseteq mem'
  /\ \A e \in DOMAIN (mem' (-) mem) :
       /\ e.seqs \subseteq Further(call.args)
       /\ \E d \in DOMAIN due : d.pos = e.pos /\ e.seqs \subseteq d.seqs
  /\ ret' = "failed"
  /\ UNCHANGED call

Next ==
  \/ Clear
  \/ \E s \in Seqs, p0 \in Froms, p1 \in Tos :
       \/ RemoveTokens(s, p0, p1)
       \/ \E d \in Seqs : Share(s, d, p0, p1)
       \/ \E k \in Deltas : Shift(s, p0, p1, k)
       \/ \E k \in Divisors : Divide(s, p0, p1, k)
  \/ \E p0 \in Froms, p1 \in Tos : RemoveAny(p0, p1)
  \/ \E s \in Seqs : KeepOnly(s) \/ \E d \in Seqs : Replace(s, d)
  \/ \E b \in Batches : Decode(b)
  \/ AppendTokens
  \/ Fail

Spec == Init /\ [][Next]_memory
=============================================================================
