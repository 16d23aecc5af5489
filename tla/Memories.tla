------------------------------ MODULE Memories ------------------------------
(***************************************************************************)
(* The memories that are not one KV cache: the recurrent memory alone, the *)
(* pair of KV caches of a model with sliding windows (iswa), and hybrids   *)
(* of a recurrent memory with either.  Every call goes to all parts, in    *)
(* the order of the code; a batch is split once, must fit in every part,   *)
(* and is applied to all of them.  As in KVCache a computation may fail at *)
(* any ubatch and calls on one context do not overlap.                     *)
(***************************************************************************)
EXTENDS Integers, Sequences, FiniteSets, SequencesExt, FiniteSetsExt

CONSTANTS Seqs, MaxPos, Unified, SwaType, SwaWindow, NUbatch,
          BaseSize, SwaSize, \* cells of a stream in the two KV caches
          Kinds,      \* subset of {"recurrent", "iswa", "hybrid", "hybrid_iswa"}
          BatchesOf(_), \* batches submitted, positions left to the memory
          SeqsOf(_),  \* the sequences used with a memory of a kind
          OpsOf(_),   \* the operations called on a memory of a kind
          Froms, Tos, Divisors, \* their arguments
          MaxShift,   \* bound on the accumulated shift of a cell
          MaxPosOf(_) \* bound on the positions in a memory of a kind

Batch == INSTANCE BatchOps
Base  == INSTANCE KVCacheOps WITH Size <- BaseSize, SwaType <- "none"
Swa   == INSTANCE KVCacheOps WITH Size <- SwaSize
Rec   == INSTANCE RecurrentOps

VARIABLES kind, \* the class of the memory, fixed by the model that is loaded
          mem,  \* its parts: base, swa, rec (those it lacks stay empty)
          job,  \* the decode in progress: ubatches left, with their slots
          ret   \* what the last call returned

vars == <<kind, mem, job, ret>>

HasBase == kind # "recurrent"
HasSwa  == kind \in {"iswa", "hybrid_iswa"}
HasRec  == kind # "iswa"

Parts(m, b, w, r) ==
  [base |-> IF HasBase THEN b ELSE m.base, swa |-> IF HasSwa THEN w ELSE m.swa,
   rec  |-> IF HasRec THEN r ELSE m.rec]

Empty == [base |-> Base!KVClear, swa |-> Swa!KVClear, rec |-> Rec!RClear]

TypeOK ==
  /\ kind \in Kinds
  /\ mem.base \in Base!Cache /\ mem.swa \in Swa!Cache
  /\ ret \in {"void", "yes", "no", "running", "ok", "refused", "failed", "abort"}

Init ==
  /\ kind \in Kinds
  /\ mem = Empty
  /\ job = <<>>
  /\ ret = "void"

-----------------------------------------------------------------------------
(* Sequence operations.  Bound: once the states of a recurrent part are     *)
(* mixed up (see Sound), only clear() and decode() are followed.            *)
Followed(op) == op = "clear" \/ Rec!Sound(mem.rec)

Call(op, after, answer) ==
  /\ op \in OpsOf(kind)
  /\ Followed(op)
  /\ job = <<>>
  /\ ret # "abort"
  /\ mem' = after
  /\ ret' = answer
  /\ UNCHANGED <<kind, job>>

Clear == Call("clear", Empty, "void")

Refused(m, s, p0, p1) == HasRec /\ Rec!RRefuses(m.rec, s, p0, p1)

Removed(m, s, p0, p1) ==
  Parts(m, Base!KVSeqRm(m.base, s, p0, p1), Swa!KVSeqRm(m.swa, s, p0, p1),
        Rec!RSeqRm(m.rec, s, p0, p1))

(* mutant: the attention part is emptied before the recurrent one refuses   *)
AfterRmAttentionFirst(m, s, p0, p1) ==
  IF Refused(m, s, p0, p1) THEN [Removed(m, s, p0, p1) EXCEPT !.rec = m.rec]
  ELSE Removed(m, s, p0, p1)

(* mutant: the window cache is not told                                     *)
AfterRmSwaKept(m, s, p0, p1) ==
  IF Refused(m, s, p0, p1) THEN m ELSE [Removed(m, s, p0, p1) EXCEPT !.swa = m.swa]

(* seq_rm(): the recurrent part first, since it may refuse.                 *)
AfterRm(m, s, p0, p1) ==
  IF Refused(m, s, p0, p1) THEN m ELSE Removed(m, s, p0, p1)

SeqRm(s, p0, p1) ==
  Call("rm", AfterRm(mem, s, p0, p1), IF Refused(mem, s, p0, p1) THEN "no" ELSE "yes")

(* seq_rm() of all sequences *)
RmAny(p0, p1) ==
  LET no == HasRec /\ Rec!RAnyRefuses(p0, p1)
  IN  Call("rm_any",
           IF no THEN mem
           ELSE Parts(mem, Base!KVRmAny(mem.base, p0, p1), Swa!KVRmAny(mem.swa, p0, p1),
                      Rec!RRmAny(mem.rec, p0, p1)),
           IF no THEN "no" ELSE "yes")

(* seq_cp() of a whole sequence *)
SeqCp(s, d) ==
  Call("cp",
       IF s = d THEN mem
       ELSE IF Base!StreamOf(s) = Base!StreamOf(d)
       THEN Parts(mem, Base!KVShare(mem.base, s, d, -1, -1),
                  Swa!KVShare(mem.swa, s, d, -1, -1), Rec!RCopy(mem.rec, s, d))
       ELSE Parts(mem, Base!KVCopyStream(mem.base, s, d),
                  Swa!KVCopyStream(mem.swa, s, d), Rec!RCopy(mem.rec, s, d)),
       "void")

SeqKeep(s) ==
  Call("keep", Parts(mem, Base!KVSeqKeep(mem.base, s), Swa!KVSeqKeep(mem.swa, s),
                     Rec!RKeep(mem.rec, s)), "void")

(* seq_div(); seq_add() differs in the new position only and is left out.   *)
(* Bound: the accumulated shift of a cell stays within MaxShift.            *)
ShiftInBounds(cells) ==
  \A i \in DOMAIN cells.shift : cells.shift[i] \in -MaxShift .. MaxShift

SeqDiv(s, p0, p1, k) ==
  LET base == Base!KVSeqDiv(mem.base, s, p0, p1, k)
      swa  == Swa!KVSeqDiv(mem.swa, s, p0, p1, k)
  IN  /\ ShiftInBounds(base.cells[Base!StreamOf(s)])
      /\ ShiftInBounds(swa.cells[Base!StreamOf(s)])
      /\ Call("div", Parts(mem, base, swa, Rec!RSeqDiv(mem.rec, s, p0, p1, k)), "void")

(* seq_pos_min() and seq_pos_max(): those of the window cache for iswa, the *)
(* innermost of the parts for a hybrid.                                     *)
AttnMin(m, s) == IF HasSwa THEN Swa!MinOf(m.swa, s) ELSE Base!MinOf(m.base, s)
AttnMax(m, s) == IF HasSwa THEN Swa!MaxOf(m.swa, s) ELSE Base!MaxOf(m.base, s)

PosMin(m, s) ==
  CASE kind = "recurrent" -> Rec!RMin(m.rec, s)
    [] kind = "iswa"      -> AttnMin(m, s)
    [] OTHER              -> Max({AttnMin(m, s), Rec!RMin(m.rec, s)})
PosMax(m, s) ==
  CASE kind = "recurrent" -> Rec!RMax(m.rec, s)
    [] kind = "iswa"      -> AttnMax(m, s)
    [] OTHER              -> Min({AttnMax(m, s), Rec!RMax(m.rec, s)})

-----------------------------------------------------------------------------
(* decode() *)
Mem == [lo |-> [s \in Seqs |-> PosMin(mem, s)], hi |-> [s \in Seqs |-> PosMax(mem, s)]]

(* memory_update(): each KV cache applies its own shift, which may fail.    *)
Updated(m) ==
  {Parts(m, b, w, m.rec) : b \in {Base!KVShifted(m.base), m.base},
                           w \in {Swa!KVShifted(m.swa), m.swa}}
Pending(m) == (HasBase /\ Base!HasShift(m.base)) \/ (HasSwa /\ Swa!HasShift(m.swa))

(* The ubatches of one way to split; complete unless tokens are left over.  *)
UbatchesBy(toks, split(_)) ==
  Base!TokensOf(toks, FoldLeftDomain(LAMBDA acc, i : Base!Handed(acc, split(acc.used)),
                                     [used |-> {}, ubs |-> <<>>], toks))

Simple(toks) == UbatchesBy(toks, LAMBDA used : Batch!SplitSimple(toks, used, NUbatch))
Equal(toks, sequential) ==
  UbatchesBy(toks, LAMBDA used : Batch!SplitEqual(toks, used, NUbatch, sequential))

(* prepare() of the KV caches, base first; the recurrent part restores all  *)
(* it had and cannot run out of cells.                                      *)
Nowhere(u) == [k \in DOMAIN u.ubs |-> <<>>]
Try(m, u) ==
  LET b == IF HasBase THEN Base!Prepare(m.base, u.ubs)
           ELSE [ok |-> TRUE, kv |-> m.base, sinfos |-> Nowhere(u)]
      w == IF HasSwa /\ b.ok THEN Swa!Prepare(m.swa, u.ubs)
           ELSE [ok |-> b.ok, kv |-> m.swa, sinfos |-> Nowhere(u)]
  IN  IF ~u.complete THEN [ok |-> FALSE, mem |-> m, job |-> <<>>]
      ELSE [ok |-> w.ok, mem |-> [m EXCEPT !.base = b.kv, !.swa = w.kv],
            job |-> IF w.ok THEN [k \in DOMAIN u.ubs |->
                                    [ub |-> u.ubs[k], base |-> b.sinfos[k], swa |-> w.sinfos[k]]]
                    ELSE <<>>]

(* init_batch(): iswa in one stream tries the simple split first.           *)
InitBatch(m, toks) ==
  LET first == Try(m, Simple(toks))
  IN  IF kind # "iswa" THEN Try(m, Equal(toks, TRUE))
      ELSE IF ~Unified THEN Try(m, Equal(toks, TRUE))
      ELSE IF first.ok THEN first ELSE Try(first.mem, Equal(toks, FALSE))

Begin(p) ==
  /\ mem' = p.mem
  /\ job' = p.job
  /\ ret' = IF p.ok THEN "running" ELSE "refused"
  /\ UNCHANGED kind

(* Bound: positions up to MaxPosOf the memory, and as many tokens in a      *)
(* recurrent state as lie before that.                                      *)
InRange(toks) ==
  /\ \A i \in DOMAIN toks : toks[i].pos <= MaxPosOf(kind)
  /\ HasRec => \A s \in Seqs : mem.rec.tail[s] >= 0 =>
       Len(Rec!StateOf(mem.rec, mem.rec.tail[s]))
         + Cardinality({i \in DOMAIN toks : s \in Batch!SeqSet(toks[i])}) <= MaxPosOf(kind) + 1

Submitted(b) == UNION {Batch!SeqSet(b[i]) : i \in DOMAIN b}

(* find_slot() asserts that a tail points at a cell that lists the sequence. *)
AssertFails(b) ==
  HasRec /\ \E s \in Submitted(b) : LET t == mem.rec.tail[s]
                                     IN  t >= 0 /\ s \notin mem.rec.ids[t]

Ready(b, toks) ==
  /\ job = <<>>
  /\ ret # "abort"
  /\ Submitted(b) \subseteq SeqsOf(kind)
  /\ InRange(toks)
  /\ Batch!Accepts(toks, Mem)

Aborts(b) ==
  \E toks \in {Batch!AutoPos(b, Mem)} :
    /\ Ready(b, toks)
    /\ AssertFails(b)
    /\ ret' = "abort"
    /\ UNCHANGED <<kind, mem, job>>

Decode(b) ==
  \E toks \in {Batch!AutoPos(b, Mem)} :
    /\ Ready(b, toks)
    /\ ~AssertFails(b)
    /\ \E m1 \in Updated(mem) : \E p \in {InitBatch(m1, toks)} :
         IF Pending(m1) /\ ~p.ok
         THEN \E m2 \in Updated(p.mem) : Begin(InitBatch(m2, toks))
         ELSE Begin(p)

(* apply() and the computation of the next ubatch.                          *)
Ub == Head(job).ub
BlockIds == Base!UniqueIds(Ub)
Block(s) == SelectSeq(Ub, LAMBDA t : s \in Batch!SeqSet(t))
LastPos  == [k \in DOMAIN BlockIds |-> Last(Block(BlockIds[k])).pos]
Fed      == [k \in DOMAIN BlockIds |-> [i \in DOMAIN Block(BlockIds[k]) |-> BlockIds[k]]]

RecSlot == Rec!FindRS(mem.rec, BlockIds, LastPos)

AppliedWith(r) ==
  [base |-> IF HasBase THEN Base!ApplyUbatch(mem.base, Head(job).base, Ub) ELSE mem.base,
   swa  |-> IF HasSwa THEN Swa!ApplyUbatch(mem.swa, Head(job).swa, Ub) ELSE mem.swa,
   rec  |-> r]

UbatchDone ==
  /\ job # <<>>
  /\ mem' = AppliedWith(IF HasRec THEN Rec!Computed(RecSlot, BlockIds, Fed) ELSE mem.rec)
  /\ job' = Tail(job)
  /\ ret' = IF Len(job) = 1 THEN "ok" ELSE "running"
  /\ UNCHANGED kind

(* The cleanup asks for the removal of the ubatch; whether the memory       *)
(* refuses is not looked at.                                                *)
FirstPos(s) == Min({t.pos : t \in ToSet(Block(s))})
CleanedUp(m) == FoldLeft(LAMBDA x, s : AfterRm(x, s, FirstPos(s), -1), m,
                         SetToSortSeq({Batch!FirstId(t) : t \in ToSet(Ub)}, <))

UbatchFails ==
  /\ job # <<>>
  /\ mem' = CleanedUp(AppliedWith(IF HasRec THEN Rec!Unfinished(RecSlot, BlockIds) ELSE mem.rec))
  /\ job' = <<>>
  /\ ret' = "failed"
  /\ UNCHANGED kind

Next ==
  \/ Clear
  \/ \E s \in SeqsOf(kind), p0 \in Froms, p1 \in Tos :
       \/ SeqRm(s, p0, p1)
       \/ \E k \in Divisors : SeqDiv(s, p0, p1, k)
  \/ \E p0 \in Froms, p1 \in Tos : RmAny(p0, p1)
  \/ \E s \in SeqsOf(kind) : SeqKeep(s) \/ \E d \in SeqsOf(kind) : SeqCp(s, d)
  \/ \E b \in BatchesOf(kind) : Decode(b) \/ Aborts(b)
  \/ UbatchDone
  \/ UbatchFails

Spec == Init /\ [][Next]_vars

-----------------------------------------------------------------------------
(* The recurrent part implements SeqStates: cells that are shared, moved to *)
(* be neighbours, copied when a sequence leaves them and reused when they   *)
(* are empty never mix up whose state is where, as long as the tails are    *)
(* right and the empty cells stand for the zero state.                      *)
States ==
  {[seqs |-> mem.rec.ids[i], pos |-> mem.rec.pos[i], toks |-> Rec!StateOf(mem.rec, i)] :
     i \in {j \in Rec!Cells : mem.rec.ids[j] # {}}}

Abstract == INSTANCE SeqStates WITH groups <- States, Torn <- Rec!Torn

ImplementsStates ==
  Abstract!Init /\ [][Rec!Sound(mem.rec) => Abstract!Next]_States

(* No call but two breaks that condition: the removal of all sequences,     *)
(* which leaves the tails, and a ubatch that fails, which leaves the empty  *)
(* cells between those of its sequences as if they held a state.            *)
Wiping == ret' = "yes" /\ \E p0 \in Froms, p1 \in Tos : RmAny(p0, p1)
SoundKept ==
  [][HasRec /\ Rec!Sound(mem.rec) =>
       /\ Rec!TailsRight(mem.rec') \/ Wiping
       /\ Rec!FreshEmpty(mem.rec') \/ ret' = "failed" \/ Wiping]_vars

-----------------------------------------------------------------------------
PosIn(kv, s) ==
  LET c == kv.cells[Base!StreamOf(s)]
  IN  {c.pos[i] : i \in {j \in DOMAIN c.pos : s \in c.seq[j]}}

(* What the window cache holds of a sequence, the base cache holds too:     *)
(* only then may the positions of the window cache stand for both.          *)
SwaWithinBase == HasSwa => \A s \in Seqs : PosIn(mem.swa, s) \subseteq PosIn(mem.base, s)

(* No computation of a ubatch, finished or failed, loses a position of the  *)
(* window cache that the next token of the sequence still sees.             *)
Seen(s) == {p \in PosIn(mem.swa, s) : ~Swa!MaskedSWA(p, Swa!MaxOf(mem.swa, s) + 1)}
WindowKept ==
  [][HasSwa /\ job # <<>> => \A s \in Seqs : Seen(s) \subseteq PosIn(mem'.swa, s)]_vars

(* The same of the trial placement that precedes the computation.  It does  *)
(* not hold of a batch of as many ubatches as the window cache has cells,   *)
(* after a suffix was removed; no run checks this formula.                  *)
TrialKeepsWindow ==
  [][HasSwa /\ ret' \in {"running", "refused"} /\ job = <<>> =>
       \A s \in Seqs : Seen(s) \subseteq PosIn(mem'.swa, s)]_vars

(* The two parts of a hybrid agree on where each sequence ends: a batch     *)
(* that continues one continues the other, after failures as well.          *)
EndsAgree ==
  kind \in {"hybrid", "hybrid_iswa"} /\ job = <<>> =>
    \A s \in Seqs : AttnMax(mem, s) = Rec!RMax(mem.rec, s)
=============================================================================
