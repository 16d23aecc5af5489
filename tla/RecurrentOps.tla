---------------------------- MODULE RecurrentOps ----------------------------
(***************************************************************************)
(* The methods of class llama_memory_recurrent                             *)
(* (src/src/llama-memory-recurrent.cpp) as operators.  A cell holds one    *)
(* state for all the sequences in its set; the memory is a record r,       *)
(*   pos[i]    position of the last token in the state of cell i           *)
(*   src[i]    cell the state is to be copied from, -1 for the zero state  *)
(*   ids[i]    the sequences of cell i                                     *)
(*   tail[s]   cell of sequence s, -1 when it has none                     *)
(*   head, used   hints for the search                                     *)
(*   state[i]  what the buffers hold for cell i: the tokens it was         *)
(*             computed from, or Torn; Torn as well once the cell is given *)
(*             up, since the contents must not matter any more             *)
(* A sequential split hands out ubatches of equal blocks, one per sequence *)
(* and no coupled tokens; embeddings mode (split_seq) is left out.         *)
(***************************************************************************)
EXTENDS Integers, FiniteSets, Sequences, SequencesExt, FiniteSetsExt

CONSTANT Seqs   \* sequence ids 0 .. n_seq_max - 1, as many as cells

Size  == Cardinality(Seqs)
Cells == 0 .. Size - 1
Far   == 1000000          \* std::numeric_limits<llama_pos>::max()

Torn == <<-1>>   \* stands for no tokens: unknown

RClear ==
  [pos |-> [i \in Cells |-> -1], src |-> [i \in Cells |-> -1],
   ids |-> [i \in Cells |-> {}], tail |-> [s \in Seqs |-> -1],
   head |-> 0, used |-> 0, state |-> [i \in Cells |-> <<>>]]

Lo(p0) == IF p0 < 0 THEN 0 ELSE p0
Hi(p1) == IF p1 < 0 THEN Far ELSE p1
Within(r, i, p0, p1) == r.pos[i] >= Lo(p0) /\ r.pos[i] < Hi(p1)

(* The cells of E are given up: pos and src reset, used counted down for    *)
(* those that had a position.                                               *)
GiveUp(r, E) ==
  [r EXCEPT !.pos  = [i \in Cells |-> IF i \in E THEN -1 ELSE @[i]],
            !.src  = [i \in Cells |-> IF i \in E THEN -1 ELSE @[i]],
            !.ids  = [i \in Cells |-> IF i \in E THEN {} ELSE @[i]],
            !.state = [i \in Cells |-> IF i \in E THEN Torn ELSE @[i]],
            !.used = @ - Cardinality({i \in E : r.pos[i] >= 0})]

HeadTo(r, E) == IF E # {} /\ Min(E) < r.head THEN [r EXCEPT !.head = Min(E)] ELSE r

-----------------------------------------------------------------------------
(* seq_rm(): a state cannot be cut before its last token.                   *)
RRefuses(r, s, p0, p1) ==
  /\ r.tail[s] >= 0
  /\ 0 < Lo(p0) /\ Within(r, r.tail[s], p0, p1)

(* mutant: the tail of a sequence that goes is not reset                    *)
RSeqRmKeepsTail(r, s, p0, p1) ==
  LET mine == {i \in Cells : Within(r, i, p0, p1) /\ s \in r.ids[i]}
      gone == {i \in mine : r.ids[i] = {s}}
      less == [r EXCEPT !.ids = [i \in Cells |-> IF i \in mine THEN @[i] \ {s} ELSE @[i]]]
  IN  HeadTo(GiveUp(less, gone), gone)

RSeqRm(r, s, p0, p1) ==
  LET mine == {i \in Cells : Within(r, i, p0, p1) /\ s \in r.ids[i]}
      gone == {i \in mine : r.ids[i] = {s}}
      less == [r EXCEPT
                !.ids  = [i \in Cells |-> IF i \in mine THEN @[i] \ {s} ELSE @[i]],
                !.tail[s] = IF @ >= 0 /\ Within(r, @, p0, p1) THEN -1 ELSE @]
  IN  HeadTo(GiveUp(less, gone), gone)

(* seq_rm() of all sequences: everything or nothing.  The tails stay.       *)
RAnyRefuses(p0, p1) == Lo(p0) # Hi(p1) /\ (Lo(p0) # 0 \/ Hi(p1) # Far)

RRmAny(r, p0, p1) ==
  LET gone == {i \in Cells : Within(r, i, p0, p1)}
  IN  HeadTo(GiveUp(r, gone), gone)

(* Sequence s leaves its cell. *)
Leave(r, s) ==
  LET t == r.tail[s]
      d == [r EXCEPT !.ids[t] = @ \ {s}, !.tail[s] = -1]
  IN  IF t = -1 THEN r
      ELSE IF d.ids[t] # {} THEN d
      ELSE [d EXCEPT !.pos[t] = -1, !.src[t] = -1, !.state[t] = Torn, !.used = @ - 1]

(* mutant of seq_cp(): the destination stays in its old cell as well        *)
RCopyAlso(r, s, d) ==
  LET t == r.tail[s]
  IN  IF s = d \/ t = -1 THEN r
      ELSE [r EXCEPT !.ids[t] = @ \cup {d}, !.tail[d] = t]

(* seq_cp(): the range is ignored, d shares the cell of s.                  *)
RCopy(r, s, d) ==
  LET t == Leave(r, d).tail[s]
  IN  IF s = d THEN r
      ELSE IF t = -1 THEN Leave(r, d)
      ELSE [Leave(r, d) EXCEPT !.ids[t] = @ \cup {d}, !.tail[d] = t]

(* seq_keep() *)
RKeep(r, s) ==
  LET others == {i \in Cells : s \notin r.ids[i]}
      d      == GiveUp(r, others)
  IN  HeadTo([d EXCEPT !.tail = [t \in Seqs |-> IF t = s THEN @[t] ELSE -1],
                       !.ids  = [i \in Cells |-> @[i] \cap {s}]], others)

(* seq_div(): the position of the cell changes, for all the sequences that  *)
(* share it.                                                                *)
RSeqDiv(r, s, p0, p1, k) ==
  LET t == r.tail[s]
  IN  IF t # -1 /\ k # 1 /\ Lo(p0) # Hi(p1) /\ s \in r.ids[t] /\ Within(r, t, p0, p1)
      THEN [r EXCEPT !.pos[t] = @ \div k] ELSE r

(* seq_pos_min() and seq_pos_max() look at every cell of the sequence.      *)
RMin(r, s) ==
  LET P == {r.pos[i] : i \in {j \in Cells : s \in r.ids[j]}} IN IF P = {} THEN -1 ELSE Min(P)
RMax(r, s) ==
  LET P == {r.pos[i] : i \in {j \in Cells : s \in r.ids[j]}} IN Max(P \cup {-1})

-----------------------------------------------------------------------------
(* find_slot() for the sequences ids of a ubatch, in block order; n is the  *)
(* number of tokens of a block and last[k] the last position of block k.    *)

(* The first empty cell at or after i, round the ring.                      *)
EmptyFrom(r, i) ==
  LET free == SelectSeq([k \in 1 .. Size |-> (i + k - 1) % Size], LAMBDA j : r.ids[j] = {})
  IN  IF free = <<>> THEN -1 ELSE free[1]

Owns(r, s) == r.tail[s] >= 0 /\ r.ids[r.tail[s]] = {s}

(* mutant: a sequence that leaves a shared cell takes no note of its state  *)
TakeCellEmpty(r, e, s) ==
  LET t == r.tail[s]
  IN  IF t = -1 THEN [r EXCEPT !.tail[s] = e]
      ELSE [r EXCEPT !.pos[e] = r.pos[t], !.ids[e] = {s}, !.ids[t] = @ \ {s}, !.tail[s] = e]

(* Sequence s takes cell e; out of a shared cell it takes the reference to  *)
(* the state with it.                                                       *)
TakeCell(r, e, s) ==
  LET t == r.tail[s]
  IN  IF t = -1 THEN [r EXCEPT !.tail[s] = e]
      ELSE [r EXCEPT !.pos[e] = r.pos[t], !.src[e] = r.src[t],
                     !.ids[e] = {s}, !.ids[t] = @ \ {s}, !.tail[s] = e]

(* Every sequence of the ubatch gets a cell of its own; next is the next    *)
(* empty cell.                                                              *)
OwnCell(acc, s) ==
  IF Owns(acc.r, s) THEN acc
  ELSE LET r1 == TakeCell(acc.r, acc.next, s)
       IN  [r |-> r1, next |-> EmptyFrom(r1, acc.next + 1)]

OwnCells(r, ids) ==
  LET start == IF r.head > r.used + 2 * Len(ids) THEN 0 ELSE r.head
  IN  FoldLeft(OwnCell, [r |-> [r EXCEPT !.head = start], next |-> EmptyFrom(r, start)], ids).r

(* Cells a and b change places. *)
Other(i, a, b) == IF i = a THEN b ELSE IF i = b THEN a ELSE i
Swap(r, a, b) ==
  [r EXCEPT !.pos  = [i \in Cells |-> @[Other(i, a, b)]],
            !.src  = [i \in Cells |-> @[Other(i, a, b)]],
            !.ids  = [i \in Cells |-> @[Other(i, a, b)]],
            !.tail = [s \in Seqs |-> Other(@[s], a, b)]]

FirstCell(r, ids) == Min({r.tail[s] : s \in ToSet(ids)})
LastCell(r, ids)  == Max({r.tail[s] : s \in ToSet(ids)})

(* mutant: the tails of the sequences that were moved aside stay            *)
GatherTailsStay(r, ids, lo) ==
  FoldLeftDomain(LAMBDA x, k :
      [Swap(x, lo + k - 1, x.tail[ids[k]]) EXCEPT
         !.tail = [x.tail EXCEPT ![ids[k]] = lo + k - 1]], r, ids)

(* The cells of the ubatch become neighbours, in block order, from lo on.   *)
Gather(r, ids, lo) ==
  FoldLeftDomain(LAMBDA x, k : Swap(x, lo + k - 1, x.tail[ids[k]]), r, ids)

Advance(r, ids, lo, last) ==
  FoldLeftDomain(LAMBDA x, k :
      [x EXCEPT !.pos[lo + k - 1] = last[k], !.ids[lo + k - 1] = {ids[k]},
                !.tail[ids[k]] = lo + k - 1], r, ids)

(* rs_z: the first cell of the range that no state is copied from.          *)
ZeroCell(r, range) ==
  LET free == {i \in range : \A j \in Cells : r.src[j] # i} IN IF free = {} THEN -1 ELSE Min(free)

(* src0: where the computation finds the state of each cell of the range.   *)
Sources(r, range) ==
  [i \in range |-> IF r.src[i] < 0 THEN ZeroCell(r, range) ELSE r.src[i]]

(* The slot: the memory after find_slot(), its range of cells, and for the  *)
(* computation rs_z and src0.                                               *)
FindRS(r, ids, last) ==
  LET own   == OwnCells(r, ids)
      lo    == FirstCell(own, ids)
      range == lo .. LastCell(own, ids)
      set   == Advance(Gather(own, ids, lo), ids, lo, last)
      final == [set EXCEPT
                 !.src  = [i \in Cells |-> IF i \in range THEN i ELSE @[i]],
                 !.head = lo,
                 !.used = Cardinality({i \in Cells : set.ids[i] # {}})]
  IN  [r |-> final, lo |-> lo, range |-> range,
       zero |-> ZeroCell(set, range), from |-> Sources(set, range)]

-----------------------------------------------------------------------------
(* build_rs(): the cell rs_z is zeroed, the states of the ubatch are read   *)
(* from src0 and advanced by its tokens, those of the other cells of the    *)
(* range are copied from src0.                                              *)
Zeroed(state, z) == IF z < 0 THEN state ELSE [state EXCEPT ![z] = <<>>]

Fed(t, toks) == IF t = Torn THEN Torn ELSE t \o toks

(* mutant: the other cells of the range are not copied                      *)
ComputedMainOnly(slot, ids, toks) ==
  LET z == Zeroed(slot.r.state, slot.zero)
  IN  [slot.r EXCEPT !.state =
         [i \in Cells |-> IF i \in slot.lo .. slot.lo + Len(ids) - 1
                          THEN Fed(z[slot.from[i]], toks[i - slot.lo + 1]) ELSE z[i]]]

Computed(slot, ids, toks) ==
  LET z == Zeroed(slot.r.state, slot.zero)
  IN  [slot.r EXCEPT !.state =
         [i \in Cells |->
            IF i \notin slot.range THEN z[i]
            ELSE IF i < slot.lo + Len(ids) THEN Fed(z[slot.from[i]], toks[i - slot.lo + 1])
            ELSE z[slot.from[i]]]]

(* A computation that did not finish: the states of the ubatch and those    *)
(* that were to move are neither the old nor the new ones.                  *)
Unfinished(slot, ids) ==
  [slot.r EXCEPT !.state =
     [i \in Cells |->
        IF i \notin slot.range \/ (i >= slot.lo + Len(ids) /\ slot.from[i] = i)
        THEN @[i] ELSE Torn]]

(* The state the next computation starts from. *)
StateOf(r, i) == IF r.src[i] < 0 THEN <<>> ELSE r.state[r.src[i]]

(* What the check in find_slot() wants: the tails point at the cells that   *)
(* list their sequence, and no sequence is in two cells.                    *)
TailsRight(r) == \A s \in Seqs, i \in Cells : s \in r.ids[i] <=> r.tail[s] = i

(* A sequence that takes an empty cell starts from the zero state.          *)
FreshEmpty(r) == \A i \in Cells : r.ids[i] = {} => StateOf(r, i) = <<>>

Sound(r) == TailsRight(r) /\ FreshEmpty(r)
=============================================================================
