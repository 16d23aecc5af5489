----------------------------- MODULE KVCacheOps -----------------------------
(***************************************************************************)
(* The methods of class llama_kv_cache (src/src/llama-kv-cache.cpp) as     *)
(* operators.  The cache is a record kv with, for every stream st,         *)
(*   kv.cells[st]  its cell array, a record of KVCells (v_cells[st])       *)
(*   kv.head[st]   where the search for a slot starts (v_heads[st])        *)
(* A slot sinfo is a sequence of entries [strm, idxs], one per stream that *)
(* the ubatch touches, idxs being the cells chosen in order.  A ubatch is  *)
(* a sequence of tokens of BatchOps.                                       *)
(***************************************************************************)
EXTENDS KVCells, Sequences, SequencesExt, FiniteSetsExt

CONSTANTS Unified,   \* one stream for all sequences (kv_unified)
          SwaType,   \* "none", "standard" or "chunked"
          SwaWindow, \* n_swa
          NUbatch    \* n_ubatch

ASSUME KVCacheAssumption ==
  /\ Seqs = 0 .. Cardinality(Seqs) - 1
  /\ Unified \in BOOLEAN
  /\ SwaType \in {"none", "standard", "chunked"}
  /\ SwaWindow \in Nat \ {0}
  /\ NUbatch \in Nat \ {0}

Batch == INSTANCE BatchOps

StreamOf(s) == IF Unified THEN 0 ELSE s
Streams     == {StreamOf(s) : s \in Seqs}

Cache == [cells : [Streams -> CellArray], head : [Streams -> 0 .. Size]]

Put(kv, st, c, h) == [kv EXCEPT !.cells[st] = c, !.head[st] = h]

(* Run op(i, c) on the cells I of c, one after the other. *)
ForCells(op(_, _), c, I) == FoldSet(op, c, I)

(* The same on the cells of stream st. *)
Change(kv, st, op(_, _), I) == [kv EXCEPT !.cells[st] = ForCells(op, @, I)]

Lo(p0) == IF p0 < 0 THEN 0 ELSE p0
Hi(p1) == IF p1 < 0 THEN MaxPos + 1 ELSE p1   \* std::numeric_limits::max()
Ranged(c, p0, p1) == {i \in Cells : PosIn(c, i, Lo(p0), Hi(p1))}
SeqCells(kv, s, p0, p1) ==
  {i \in Ranged(kv.cells[StreamOf(s)], p0, p1) : SeqHas(kv.cells[StreamOf(s)], i, s)}

(* The cells of I that an operation emptied. *)
Freed(kv, st, I) == {i \in I : IsEmpty(kv.cells[st], i)}

(* If a slot was freed before the head, the head moves to it.               *)
FreedHead(h, freed) ==
  IF freed # {} /\ Min(freed) < h THEN Min(freed) ELSE h
HeadBack(kv, st, I) ==
  [kv EXCEPT !.head[st] = FreedHead(@, Freed(kv, st, I))]

-----------------------------------------------------------------------------
(* Sequence operations. *)

(* clear() *)
KVClear == [cells |-> [st \in Streams |-> Reset], head |-> [st \in Streams |-> 0]]

(* mutant of seq_rm(): the whole cell goes                                 *)
RmSeqWholeCell(kv, st, s, I) ==
  HeadBack(Change(kv, st, LAMBDA i, x : Rm(x, i), I), st, I)

(* seq_rm() of one sequence *)
RmSeq(kv, st, s, I) ==
  HeadBack(Change(kv, st, LAMBDA i, x : SeqRm(x, i, s), I), st, I)

KVSeqRm(kv, s, p0, p1) == RmSeq(kv, StreamOf(s), s, SeqCells(kv, s, p0, p1))

(* seq_rm() with sequence -1: every stream, whole cells *)
KVRmAny(kv, p0, p1) ==
  LET I(st) == Ranged(kv.cells[st], p0, p1)
  IN  [cells |-> [st \in Streams |->
                    ForCells(LAMBDA i, x : Rm(x, i), kv.cells[st], I(st))],
       head  |-> [st \in Streams |-> FreedHead(kv.head[st], I(st))]]

(* seq_cp() within a stream: the cells are shared *)
KVShare(kv, src, dst, p0, p1) ==
  IF src = dst THEN kv
  ELSE Change(kv, StreamOf(src), LAMBDA i, x : SeqAdd(x, i, dst),
              SeqCells(kv, src, p0, p1))

(* mutant: the shift is added to the shifted position                       *)
CopyCellShiftsTwice(x, c, i, dst) ==
  LET here == SeqAdd(PosSet(x, i, c.pos[i]), i, dst)
  IN  IF c.shift[i] = 0 THEN here ELSE PosAdd(here, i, c.shift[i])

(* seq_cp() to another stream: its cells are rebuilt at the same indices.   *)
(* A pending shift is undone, set and added again so that it stays pending. *)
CopyCell(x, c, i, dst) ==
  LET sh   == c.shift[i]
      here == SeqAdd(PosSet(x, i, c.pos[i] - sh), i, dst)
  IN  IF sh = 0 THEN here ELSE PosAdd(here, i, sh)

(* mutant: the destination is not reset                                     *)
KVCopyStreamOnTop(kv, src, dst) ==
  Put(kv, StreamOf(dst),
      ForCells(LAMBDA i, x : CopyCell(x, kv.cells[StreamOf(src)], i, dst),
               kv.cells[StreamOf(dst)], SeqCells(kv, src, -1, -1)),
      kv.head[StreamOf(src)])

KVCopyStream(kv, src, dst) ==
  Put(kv, StreamOf(dst),
      ForCells(LAMBDA i, x : CopyCell(x, kv.cells[StreamOf(src)], i, dst),
               Reset, SeqCells(kv, src, -1, -1)),
      kv.head[StreamOf(src)])

(* seq_keep(): the other sequences of the same stream go *)
KeepIn(kv, st, s, I) ==
  HeadBack(Change(kv, st, LAMBDA i, x : SeqKeep(x, i, s), I), st, I)
KVSeqKeep(kv, s) ==
  KeepIn(kv, StreamOf(s), s, Ranged(kv.cells[StreamOf(s)], -1, -1))

(* After a shift the search starts at the first cell that was emptied.      *)
HeadFirstFreed(kv, st, I) ==
  [kv EXCEPT !.head[st] =
     IF Freed(kv, st, I) = {} THEN 0 ELSE Min(Freed(kv, st, I))]

ShiftCells(kv, st, I, delta) ==
  HeadFirstFreed(Change(kv, st, LAMBDA i, x : PosAdd(x, i, delta), I), st, I)

(* seq_add(): returns early for a zero shift and for an empty range         *)
KVSeqAdd(kv, s, p0, p1, delta) ==
  IF delta = 0 \/ Lo(p0) = Hi(p1) THEN kv
  ELSE ShiftCells(kv, StreamOf(s), SeqCells(kv, s, p0, p1), delta)

(* seq_div() *)
KVSeqDiv(kv, s, p0, p1, k) ==
  IF k = 1 \/ Lo(p0) = Hi(p1) THEN kv
  ELSE Change(kv, StreamOf(s), LAMBDA i, x : PosDiv(x, i, k),
              SeqCells(kv, s, p0, p1))

(* seq_pos_min(), seq_pos_max() *)
MinOf(kv, s) == SeqPosMin(kv.cells[StreamOf(s)], s)
MaxOf(kv, s) == SeqPosMax(kv.cells[StreamOf(s)], s)

HasShift(kv) == \E st \in Streams : kv.cells[st].hasShift

(* update() with a pending shift that was applied to the K data             *)
KVShifted(kv) ==
  IF HasShift(kv) THEN [kv EXCEPT !.cells = [st \in Streams |-> ResetShift(@[st])]]
  ELSE kv

-----------------------------------------------------------------------------
(* Placing a batch. *)

(* is_masked_swa(): position p0 is outside the window of a query at p1.     *)
MaskedSWA(p0, p1) ==
  \/ SwaType = "standard" /\ p1 - p0 >= SwaWindow
  \/ SwaType = "chunked"  /\ p0 < (p1 \div SwaWindow) * SwaWindow

(* mutant of the test in find_slot(): a cell of one sequence is free        *)
UsableIgnoresWindow(c, i) == IsEmpty(c, i) \/ Cardinality(c.seq[i]) = 1

(* A cell can be used if it is empty, or holds one sequence and a position  *)
(* that the next token of that sequence no longer sees.                     *)
Usable(c, i) ==
  \/ IsEmpty(c, i)
  \/ /\ Cardinality(c.seq[i]) = 1
     /\ MaskedSWA(c.pos[i], SeqPosMax(c, SeqGet(c, i)) + 1)

(* mutant: the search ends at the last cell                                 *)
TestOrderNoWrap(c, h, len) ==
  LET start == IF h > Cardinality(c.used) + 2 * len THEN 0 ELSE h
  IN  [k \in 1 .. Size - start |-> start + k - 1]

(* The cells in the order they are tested, each once: from the head, or     *)
(* from 0 when enough cells before the head are unused, and round.          *)
TestOrder(c, h, len) ==
  LET start == IF h > Cardinality(c.used) + 2 * len THEN 0 ELSE h
  IN  [k \in 1 .. Size |-> (start + k - 1) % Size]

FirstOf(free, len) ==
  IF len > Size \/ Len(free) < len THEN <<>> ELSE SubSeq(free, 1, len)

SlotIn(c, h, len) ==
  FirstOf(SelectSeq(TestOrder(c, h, len), LAMBDA i : Usable(c, i)), len)

(* find_slot(ubatch, cont = false).  With several streams the ubatch is     *)
(* made of equally long blocks, one per sequence; <<>> if there is no slot. *)
UniqueIds(ub) == SetToSortSeq(UNION {ToSet(ub[i].ids) : i \in DOMAIN ub}, <)

Slots(kv, ids, len) ==
  [k \in DOMAIN ids |->
     [strm |-> StreamOf(ids[k]),
      idxs |-> SlotIn(kv.cells[StreamOf(ids[k])], kv.head[StreamOf(ids[k])], len)]]

IfAll(entry) == IF \E k \in DOMAIN entry : entry[k].idxs = <<>> THEN <<>> ELSE entry

FindSlotFor(kv, ids, n) == IfAll(Slots(kv, ids, n \div Len(ids)))

FindSlot(kv, ub) ==
  FindSlotFor(kv, SubSeq(UniqueIds(ub), 1, IF Unified THEN 1 ELSE Len(UniqueIds(ub))),
              Len(ub))

(* The cell of a slot that token i of the ubatch goes to. *)
CellOf(sinfo, i) ==
  LET len == Len(sinfo[1].idxs)
      k   == ((i - 1) \div len) + 1
  IN  [strm |-> sinfo[k].strm, idx |-> sinfo[k].idxs[((i - 1) % len) + 1]]

(* mutant: the cell is overwritten without being cleared                    *)
EmplaceOver(c, idx, t) ==
  FoldLeft(LAMBDA x, s : SeqAdd(x, idx, s), PosSet(c, idx, t.pos), t.ids)

(* pos_set and seq_add of a token into a cell that was cleared if needed.   *)
Emplace(c, idx, t) ==
  LET c1 == IF IsEmpty(c, idx) THEN c ELSE Rm(c, idx)
  IN  FoldLeft(LAMBDA x, s : SeqAdd(x, idx, s), PosSet(c1, idx, t.pos), t.ids)

(* First part of apply_ubatch(): the tokens go to their cells; gone[s] is   *)
(* the largest position of s that was overwritten.                          *)
GoneWith(gone, c, idx) ==
  IF IsEmpty(c, idx) THEN gone
  ELSE [gone EXCEPT ![SeqGet(c, idx)] = Max({@, c.pos[idx]})]

PlaceToken(acc, at, t) ==
  [kv   |-> [acc.kv EXCEPT !.cells[at.strm] = Emplace(@, at.idx, t)],
   gone |-> GoneWith(acc.gone, acc.kv.cells[at.strm], at.idx)]

PlaceTokens(kv, sinfo, ub) ==
  FoldLeftDomain(LAMBDA acc, i : PlaceToken(acc, CellOf(sinfo, i), ub[i]),
                 [kv |-> kv, gone |-> [s \in Seqs |-> -1]], ub)

(* mutant: the range to remove ends one position too late                   *)
PurgePast(kv, s, p) ==
  IF p # -1 /\ MinOf(kv, s) <= p THEN KVSeqRm(kv, s, MinOf(kv, s), p + 2) ELSE kv

(* Second part: a sequence that lost position p loses all up to p, so that  *)
(* its positions stay contiguous.                                           *)
PurgeTo(kv, s, p) ==
  IF p # -1 /\ MinOf(kv, s) <= p THEN KVSeqRm(kv, s, MinOf(kv, s), p + 1) ELSE kv

Purge(placed) ==
  FoldLeft(LAMBDA x, s : PurgeTo(x, s, placed.gone[s]), placed.kv,
           SetToSortSeq(Seqs, <))

(* mutant: the head moves too far                                           *)
HeadPast(kv, sinfo) ==
  LET past(h, k) == [h EXCEPT ![sinfo[k].strm] = Last(sinfo[k].idxs) + 2]
  IN  [kv EXCEPT !.head = FoldLeftDomain(past, @, sinfo)]

(* The heads move to the end of the slot. *)
HeadAfter(kv, sinfo) ==
  LET after(h, k) == [h EXCEPT ![sinfo[k].strm] = Last(sinfo[k].idxs) + 1]
  IN  [kv EXCEPT !.head = FoldLeftDomain(after, @, sinfo)]

(* apply_ubatch(): place, purge, move the heads                             *)
ApplyUbatch(kv, sinfo, ub) ==
  HeadAfter(Purge(PlaceTokens(kv, sinfo, ub)), sinfo)

-----------------------------------------------------------------------------
(* prepare(): place the ubatches one after the other to see whether they    *)
(* fit, and restore.  Only the cells of the slots are saved.  The head of   *)
(* the s-th entry's stream is restored from v_heads_old[s].                 *)
SaveSlot(kv, sinfo) ==
  [sinfo |-> sinfo, heads |-> kv.head,
   cells |-> [k \in DOMAIN sinfo |->
                Cp(kv.cells[sinfo[k].strm], ToSet(sinfo[k].idxs))]]

RestoreEntry(kv, st, cells, head) ==
  Put(kv, st, ForCells(LAMBDA i, c : SetCell(c, i, cells[i]),
                       kv.cells[st], DOMAIN cells), head)

RestoreSlot(kv, saved) ==
  FoldLeftDomain(LAMBDA x, k : RestoreEntry(x, saved.sinfo[k].strm, saved.cells[k],
                                            saved.heads[k - 1]),
                 kv, saved.sinfo)

(* The trial: every ubatch in turn, up to the first that finds no slot.     *)
TryUbatch(acc, ub, sinfo) ==
  IF ~acc.ok \/ sinfo = <<>> THEN [acc EXCEPT !.ok = FALSE]
  ELSE [ok |-> TRUE, kv |-> ApplyUbatch(acc.kv, sinfo, ub),
        states |-> Append(acc.states, SaveSlot(acc.kv, sinfo))]

TryPlace(kv, ubs) ==
  FoldLeft(LAMBDA acc, ub : TryUbatch(acc, ub, FindSlot(acc.kv, ub)),
           [ok |-> TRUE, kv |-> kv, states |-> <<>>], ubs)

(* mutants: the saved states are restored oldest first; a failure returns   *)
(* before the restore                                                       *)
RestoredForward(t) == FoldLeft(RestoreSlot, t.kv, t.states)
RestoredIfOk(t) ==
  IF t.ok THEN FoldLeft(RestoreSlot, t.kv, Reverse(t.states)) ELSE t.kv

Restored(t) == FoldLeft(RestoreSlot, t.kv, Reverse(t.states))

Outcome(t) ==
  [ok |-> t.ok, kv |-> Restored(t),
   sinfos |-> [k \in DOMAIN t.states |-> t.states[k].sinfo]]

Prepare(kv, ubs) == Outcome(TryPlace(kv, ubs))

(* The split of init_batch(): simple for one stream, sequential equal       *)
(* otherwise.  complete is FALSE when some token could not be split off.    *)
SplitNext(toks, used) ==
  IF Unified THEN Batch!SplitSimple(toks, used, NUbatch)
  ELSE Batch!SplitEqual(toks, used, NUbatch, TRUE)

Handed(acc, ub) ==
  [used |-> acc.used \cup ToSet(ub),
   ubs |-> IF ub = <<>> THEN acc.ubs ELSE Append(acc.ubs, ub)]

TokensOf(toks, split) ==
  [complete |-> split.used = DOMAIN toks,
   ubs |-> [k \in DOMAIN split.ubs |->
              [x \in DOMAIN split.ubs[k] |-> toks[split.ubs[k][x]]]]]

Ubatches(toks) ==
  TokensOf(toks,
    FoldLeftDomain(LAMBDA acc, i : Handed(acc, SplitNext(toks, acc.used)),
                   [used |-> {}, ubs |-> <<>>], toks))

-----------------------------------------------------------------------------
FirstAt(ub, s) == {ub[i].pos : i \in {j \in DOMAIN ub : ub[j].ids[1] = s}}

(* mutant: the smallest position of the ubatch stays                        *)
DropAfter(kv, s, P) == IF P = {} THEN kv ELSE KVSeqRm(kv, s, Min(P) + 1, -1)

DropFrom(kv, s, P) == IF P = {} THEN kv ELSE KVSeqRm(kv, s, Min(P), -1)

(* The cleanup of decode() for a ubatch that failed: for the first sequence *)
(* id of its tokens, everything from its smallest position in the ubatch.   *)
Cleanup(kv, ub) ==
  FoldLeft(LAMBDA x, s : DropFrom(x, s, FirstAt(ub, s)), kv, SetToSortSeq(Seqs, <))
=============================================================================
