------------------------------ MODULE KVCache ------------------------------
(***************************************************************************)
(* The KV cache as its callers see it: the sequence operations of the      *)
(* memory API (llama_memory_seq_rm and so on) and decode(), which prepares *)
(* all ubatches of a batch, then applies and computes them one by one.  A  *)
(* computation may fail or be aborted at any ubatch.  Calls on one context *)
(* do not overlap, so no operation runs while a decode is in progress.     *)
(* Copies between streams move data as well: they are in KVStreams.        *)
(***************************************************************************)
EXTENDS KVCacheOps

CONSTANTS Batches,  \* the batches submitted; position -1 of a token leaves it out
          Ops,      \* the sequence operations called
          Froms,    \* values of p0
          Tos,      \* values of p1
          Deltas,   \* shifts passed to seq_add
          Divisors, \* divisors passed to seq_div
          MaxShift  \* bound on the accumulated shift of a cell

VARIABLES kv,   \* the record of KVCacheOps
          job,  \* the decode in progress: ubatches left, with their slots
          call, \* the last call, with its arguments (history)
          ret   \* what the last call returned: "void", "ok", "refused" (1),
                \* "invalid" (-1), "failed" (2, -2, -3), "running"

vars == <<kv, job, call, ret>>

TypeOK ==
  /\ kv \in Cache
  /\ \A k \in DOMAIN job : job[k].sinfo # <<>> /\ job[k].ub # <<>>
  /\ ret \in {"void", "ok", "refused", "invalid", "failed", "running"}
  /\ call.op \in Ops \cup {"none", "decode", "load"}

Init ==
  /\ kv = KVClear
  /\ job = <<>>
  /\ call = [op |-> "none", args |-> <<>>]
  /\ ret = "void"

-----------------------------------------------------------------------------
Calling(op, args) == call' = [op |-> op, args |-> args]

(* Sequence operations. *)
Call(op, args, after) ==
  /\ op \in Ops
  /\ job = <<>>
  /\ kv' = after
  /\ Calling(op, args)
  /\ ret' = "void"
  /\ UNCHANGED job

Clear == Call("clear", <<>>, KVClear)

DoSeqRm(s, p0, p1) == Call("rm", <<s, p0, p1>>, KVSeqRm(kv, s, p0, p1))

DoRmAny(p0, p1) == Call("rm_any", <<p0, p1>>, KVRmAny(kv, p0, p1))

(* Within a stream.  For a cell that has dst already, seq_add() of the      *)
(* cells only sets the bit again but counts the position once more: the     *)
(* assert before it is compiled out.                                        *)
DoShare(src, dst, p0, p1) ==
  /\ StreamOf(src) = StreamOf(dst)
  /\ Call("cp", <<src, dst, p0, p1>>, KVShare(kv, src, dst, p0, p1))

DoSeqKeep(s) == Call("keep", <<s>>, KVSeqKeep(kv, s))

(* Positions stay below MaxPos and shifts within MaxShift (bounds).         *)
DoSeqAdd(s, p0, p1, delta) ==
  LET after == KVSeqAdd(kv, s, p0, p1, delta)
      c     == kv.cells[StreamOf(s)]
  IN  /\ \A i \in Ranged(c, p0, p1) : SeqHas(c, i, s) =>
           /\ c.pos[i] + delta <= MaxPos
           /\ c.shift[i] + delta \in -MaxShift .. MaxShift
      /\ Call("add", <<s, p0, p1, delta>>, after)

DoSeqDiv(s, p0, p1, k) ==
  LET c == kv.cells[StreamOf(s)]
  IN  /\ \A i \in Ranged(c, p0, p1) : SeqHas(c, i, s) =>
           c.shift[i] + c.pos[i] <= MaxShift
      /\ Call("div", <<s, p0, p1, k>>, KVSeqDiv(kv, s, p0, p1, k))

-----------------------------------------------------------------------------
(* decode() *)

Mem == [lo |-> [s \in Seqs |-> MinOf(kv, s)], hi |-> [s \in Seqs |-> MaxOf(kv, s)]]

(* memory_update(): the K-shift may fail, and is then still pending.        *)
Updated(x) == {KVShifted(x), x}

Positioned(b) == IF b[1].pos = -1 THEN Batch!AutoPos(b, Mem) ELSE b

InRange(toks) == \A i \in DOMAIN toks : toks[i].pos <= MaxPos   \* bound

DecodeInvalid(b) ==
  LET toks == Positioned(b)
  IN  /\ job = <<>>
      /\ InRange(toks)
      /\ ~Batch!Accepts(toks, Mem)
      /\ Calling("decode", b)
      /\ ret' = "invalid"
      /\ UNCHANGED <<kv, job>>

(* init_batch(): split, then prepare() what could be split completely.      *)
InitBatch(x, u) ==
  IF u.complete THEN Prepare(x, u.ubs) ELSE [ok |-> FALSE, kv |-> x, sinfos |-> <<>>]

(* All ubatches fit and the decode starts, or it is refused.               *)
Begin(p, u) ==
  /\ kv' = p.kv
  /\ job' = IF p.ok THEN [k \in DOMAIN u.ubs |-> [ub |-> u.ubs[k], sinfo |-> p.sinfos[k]]]
            ELSE <<>>
  /\ ret' = IF p.ok THEN "running" ELSE "refused"

(* A batch that found no slot while a shift was pending is tried again: the *)
(* update may succeed this time.                                            *)
DecodeBegin(b) ==
  \E toks \in {Positioned(b)} :
    /\ job = <<>>
    /\ InRange(toks)
    /\ Batch!Accepts(toks, Mem)
    /\ Calling("decode", b)
    /\ \E u \in {Ubatches(toks)}, kv1 \in Updated(kv) :
         \E p \in {InitBatch(kv1, u)} :
           IF HasShift(kv1) /\ ~p.ok
           THEN \E kv2 \in Updated(p.kv) : \E q \in {InitBatch(kv2, u)} :
                  Begin(q, u)
           ELSE Begin(p, u)

(* process_ubatch(): apply() of the memory context, then the computation.   *)
Applied == ApplyUbatch(kv, Head(job).sinfo, Head(job).ub)

UbatchDone ==
  /\ job # <<>>
  /\ kv' = Applied
  /\ job' = Tail(job)
  /\ ret' = IF Len(job) = 1 THEN "ok" ELSE "running"
  /\ UNCHANGED call

UbatchFails ==
  /\ job # <<>>
  /\ kv' = Cleanup(Applied, Head(job).ub)
  /\ job' = <<>>
  /\ ret' = "failed"
  /\ UNCHANGED call

Next ==
  \/ Clear
  \/ \E s \in Seqs, p0 \in Froms, p1 \in Tos :
       \/ DoSeqRm(s, p0, p1)
       \/ \E d \in Seqs : DoShare(s, d, p0, p1)
       \/ \E k \in Deltas : DoSeqAdd(s, p0, p1, k)
       \/ \E k \in Divisors : DoSeqDiv(s, p0, p1, k)
  \/ \E p0 \in Froms, p1 \in Tos : DoRmAny(p0, p1)
  \/ \E s \in Seqs : DoSeqKeep(s)
  \/ \E b \in Batches : DecodeInvalid(b) \/ DecodeBegin(b)
  \/ UbatchDone
  \/ UbatchFails

Spec == Init /\ [][Next]_vars

-----------------------------------------------------------------------------
Stored(x) == [st \in Streams |-> [i \in Cells |->
               [pos |-> x.cells[st].pos[i], seq |-> x.cells[st].seq[i]]]]

Refusing == ret' = "refused"
Trying   == job = <<>> /\ ret' \in {"running", "refused"}
Failing  == job # <<>> /\ ret' = "failed"

(* Trying out whether a batch fits places its ubatches one after the other; *)
(* whether they all fit or not, every cell is then as it was.               *)
TrialRestores == [][Trying => Stored(kv') = Stored(kv)]_vars

(* Without a sliding window a batch of one stream is refused only when it   *)
(* has more tokens than there are free cells: scattered free cells, found   *)
(* from any head, are enough.                                               *)
FreeCells == {i \in Cells : IsEmpty(kv.cells[0], i)}
RefusedOnlyWhenFull ==
  [][Refusing => \A b \in Batches :
       DecodeBegin(b) => Len(b) > Cardinality(FreeCells)]_vars

(* The cells of sequence s, with their positions.                           *)
CellsOf(x, s) ==
  {<<i, x.cells[StreamOf(s)].pos[i]>> : i \in {j \in Cells : SeqHas(x.cells[StreamOf(s)], j, s)}}

(* Sequences that a token of the ubatch lists after its first one.          *)
Further(ub) == UNION {ToSet(Tail(ub[i].ids)) : i \in DOMAIN ub}

(* A ubatch whose computation failed leaves no token in the sequences that  *)
(* its tokens list first, and takes none that was there before from any.    *)
(* What is left out: the cleanup looks at the first sequence of a token     *)
(* only, so a token of several sequences may stay in the others, although   *)
(* the comment at llama-context.cpp:1761 speaks of all positions.           *)
UbatchUndone ==
  [][Failing => \A s \in Seqs :
       IF s \in Further(Head(job).ub) THEN CellsOf(kv, s) \subseteq CellsOf(kv', s)
       ELSE CellsOf(kv', s) = CellsOf(kv, s)]_vars

(* What that comment says; refuted by a ubatch of a token of two sequences. *)
UbatchAlwaysUndone == [][Failing => Stored(kv') = Stored(kv)]_vars

-----------------------------------------------------------------------------
(* The cache implements the bag of tokens of SeqMemory.                     *)
Entry(pos, seqs) == [pos |-> pos, seqs |-> seqs]

Occupied == {<<st, i>> \in Streams \X Cells : ~IsEmpty(kv.cells[st], i)}
Held(at) == Entry(kv.cells[at[1]].pos[at[2]], kv.cells[at[1]].seq[at[2]])

MemBag == [e \in {Held(at) : at \in Occupied} |->
             Cardinality({at \in Occupied : Held(at) = e})]

Expected == FlattenSeq([k \in DOMAIN job |-> job[k].ub])
DueBag   == ToBag([i \in DOMAIN Expected |-> Entry(Expected[i].pos, ToSet(Expected[i].ids))])

Memory == INSTANCE SeqMemory WITH mem <- MemBag, due <- DueBag, Group <- StreamOf

(* The cached counts, which positions are taken from, are right.            *)
CountsRight == \A st \in Streams : SeqPosAgrees(kv.cells[st])

(* A share of a cell that the target has already.                           *)
RepeatsShare ==
  call'.op = "cp" /\ \E st \in Streams, i \in Cells :
    {call'.args[1], call'.args[2]} \subseteq kv.cells[st].seq[i]

(* Without a sliding window every call has the effect SeqMemory gives THIS  *)
(* call, and no other: no reuse of a slot, no refused decode is visible in  *)
(* any sequence, an accepted one appends its tokens where each sequence     *)
(* ended.  Nothing is claimed while a position is counted too often, which  *)
(* only a repeated share can bring about.                                   *)
ImplementsMemory ==
  Memory!Init /\ [][CountsRight => /\ Memory!Next
                                   /\ CountsRight' \/ RepeatsShare]_(Memory!memory)
=============================================================================
