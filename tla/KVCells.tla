------------------------------ MODULE KVCells ------------------------------
(***************************************************************************)
(* The cell array of a key/value cache stream: class llama_kv_cells of     *)
(* src/src/llama-kv-cells.h.  One record c holds the whole object:         *)
(*   pos[i]       position stored in cell i, -1 when the cell is empty     *)
(*   shift[i]     position delta not yet applied to the K data             *)
(*   seq[i]       set of the sequences that occupy cell i                  *)
(*   used         cached set of the non-empty cells                        *)
(*   seqPos[s][p] cached number of cells that hold position p for s        *)
(*   hasShift     some shift is pending                                    *)
(* Every method is an operator from the record before to the record after. *)
(* The 2-D position extension (ext) carries no control and is left out.    *)
(***************************************************************************)
EXTENDS Integers, FiniteSets

CONSTANTS Size,     \* number of cells of the array
          Seqs,     \* sequence ids, LLAMA_MAX_SEQ of them in the code
          MaxPos    \* largest position (bounds llama_pos, an int32_t)

ASSUME KVCellsAssumption ==
  /\ Size \in Nat \ {0}
  /\ MaxPos \in Nat

Cells == 0 .. Size - 1
Pos   == 0 .. MaxPos

CellArray ==
  [pos : [Cells -> Pos \cup {-1}], shift : [Cells -> Int],
   seq : [Cells -> SUBSET Seqs], used : SUBSET Cells,
   seqPos : [Seqs -> [Pos -> Nat]], hasShift : BOOLEAN]

(* reset() *)
Reset ==
  [pos |-> [i \in Cells |-> -1], shift |-> [i \in Cells |-> 0],
   seq |-> [i \in Cells |-> {}], used |-> {},
   seqPos |-> [s \in Seqs |-> [p \in Pos |-> 0]], hasShift |-> FALSE]

(* reset_shift() *)
ResetShift(c) == [c EXCEPT !.shift = [i \in Cells |-> 0], !.hasShift = FALSE]

-----------------------------------------------------------------------------
(* Queries. *)

IsEmpty(c, i)   == c.pos[i] = -1
PosIn(c, i, p0, p1) == c.pos[i] >= p0 /\ c.pos[i] < p1
SeqHas(c, i, s) == s \in c.seq[i]
SeqGet(c, i)    == CHOOSE s \in c.seq[i] : TRUE

(* seq_pos_min() and seq_pos_max() read the cached counts: first and last   *)
(* key of the map, -1 when the map of the sequence is empty.                *)
SeqPositions(c, s) == {p \in Pos : c.seqPos[s][p] # 0}
SeqPosMin(c, s) ==
  IF SeqPositions(c, s) = {} THEN -1
  ELSE CHOOSE p \in SeqPositions(c, s) : \A q \in SeqPositions(c, s) : p <= q
SeqPosMax(c, s) ==
  IF SeqPositions(c, s) = {} THEN -1
  ELSE CHOOSE p \in SeqPositions(c, s) : \A q \in SeqPositions(c, s) : p >= q

-----------------------------------------------------------------------------
(* seq_pos_rm() and seq_pos_add(): uncount or count position p for the      *)
(* sequences S of a cell (seq_pos_dec / seq_pos_inc once per sequence).     *)
SeqPosRm(sp, S, p) ==
  [s \in Seqs |-> IF s \in S THEN [sp[s] EXCEPT ![p] = @ - 1] ELSE sp[s]]
SeqPosAdd(sp, S, p) ==
  [s \in Seqs |-> IF s \in S THEN [sp[s] EXCEPT ![p] = @ + 1] ELSE sp[s]]

(* The common tail of every method that leaves cell i empty. *)
Emptied(c, i) ==
  [c EXCEPT !.pos[i] = -1, !.shift[i] = 0, !.seq[i] = {}, !.used = @ \ {i}]

(* rm(): clear a non-empty cell *)
Rm(c, i) ==
  Emptied([c EXCEPT !.seqPos = SeqPosRm(@, c.seq[i], c.pos[i])], i)

(* seq_rm(): called only when the cell has the sequence *)
SeqRm(c, i, s) ==
  LET d == [c EXCEPT !.seq[i] = @ \ {s},
                     !.seqPos = SeqPosRm(@, {s}, c.pos[i])]
  IN  IF d.seq[i] = {} THEN Emptied(d, i) ELSE d

(* mutant of seq_keep(): the kept sequence is uncounted with the others *)
SeqKeepUncountsAll(c, i, s) ==
  IF SeqHas(c, i, s)
  THEN [c EXCEPT !.seq[i] = {s},
                 !.seqPos = SeqPosRm(@, c.seq[i], c.pos[i])]
  ELSE IF c.seq[i] # {} THEN Rm(c, i) ELSE c

(* seq_keep(): keep only s in the cell, or empty the cell *)
SeqKeep(c, i, s) ==
  IF SeqHas(c, i, s)
  THEN [c EXCEPT !.seq[i] = {s},
                 !.seqPos = SeqPosRm(@, c.seq[i] \ {s}, c.pos[i])]
  ELSE IF c.seq[i] # {} THEN Rm(c, i) ELSE c

(* seq_add(): called only when the cell is not empty; a sequence that the  *)
(* cell has already is counted once more                                    *)
SeqAdd(c, i, s) ==
  [c EXCEPT !.seq[i] = @ \cup {s}, !.seqPos = SeqPosAdd(@, {s}, c.pos[i])]

(* pos_set(): called only when the cell is empty *)
PosSet(c, i, p) == [c EXCEPT !.pos[i] = p, !.used = @ \cup {i}]

(* mutants of pos_add(): the old position stays counted; the last delta     *)
(* replaces the shift so far                                                *)
PosAddCountsTwice(c, i, d) ==
  LET moved == [c EXCEPT !.hasShift = TRUE]
  IN  IF c.pos[i] + d < 0 THEN Rm(moved, i)
      ELSE [moved EXCEPT
             !.pos[i] = @ + d, !.shift[i] = @ + d,
             !.seqPos = SeqPosAdd(@, c.seq[i], c.pos[i] + d)]
PosAddOverwritesShift(c, i, d) ==
  LET moved == [c EXCEPT !.hasShift = TRUE]
  IN  IF c.pos[i] + d < 0 THEN Rm(moved, i)
      ELSE [moved EXCEPT
             !.pos[i] = @ + d, !.shift[i] = d,
             !.seqPos = SeqPosAdd(SeqPosRm(@, c.seq[i], c.pos[i]),
                                  c.seq[i], c.pos[i] + d)]

(* pos_add(): a position that becomes negative empties the cell *)
PosAdd(c, i, d) ==
  LET moved == [c EXCEPT !.hasShift = TRUE]
  IN  IF c.pos[i] + d < 0 THEN Rm(moved, i)
      ELSE [moved EXCEPT
             !.pos[i] = @ + d, !.shift[i] = @ + d,
             !.seqPos = SeqPosAdd(SeqPosRm(@, c.seq[i], c.pos[i]),
                                  c.seq[i], c.pos[i] + d)]

(* pos_div(): the shift grows by the old position minus the new one *)
PosDiv(c, i, d) ==
  LET p == c.pos[i] \div d
  IN  [c EXCEPT
        !.pos[i] = p, !.shift[i] = @ + (c.pos[i] - p), !.hasShift = TRUE,
        !.seqPos = SeqPosAdd(SeqPosRm(@, c.seq[i], c.pos[i]), c.seq[i], p)]

-----------------------------------------------------------------------------
(* cp(idxs): the saved cells; shift is not saved, the code asserts it is 0. *)
Cp(c, idxs) == [i \in idxs |-> [pos |-> c.pos[i], seq |-> c.seq[i]]]

(* set(idxs, saved): put saved cells back, one cell at a time *)
SetCell(c, i, saved) ==
  LET without == IF IsEmpty(c, i) THEN c.seqPos
                 ELSE SeqPosRm(c.seqPos, c.seq[i], c.pos[i])
  IN  [c EXCEPT
        !.pos[i] = saved.pos, !.seq[i] = saved.seq,
        !.used = IF saved.pos = -1 THEN @ \ {i} ELSE @ \cup {i},
        !.seqPos = IF saved.pos = -1 THEN without
                   ELSE SeqPosAdd(without, saved.seq, saved.pos)]

-----------------------------------------------------------------------------
(* What the cached fields must say: the number of cells that hold position  *)
(* p for sequence s, counted from the cells themselves.                     *)
Holders(c, s, p) == {i \in Cells : c.pos[i] = p /\ s \in c.seq[i]}

UsedAgrees(c)   == c.used = {i \in Cells : c.pos[i] # -1}
SeqPosAgrees(c) ==
  \A s \in Seqs, p \in Pos : c.seqPos[s][p] = Cardinality(Holders(c, s, p))
EmptyIsClean(c) ==
  \A i \in Cells : c.pos[i] = -1 => c.seq[i] = {} /\ c.shift[i] = 0

IndexAgrees(c) == UsedAgrees(c) /\ SeqPosAgrees(c) /\ EmptyIsClean(c)
=============================================================================
