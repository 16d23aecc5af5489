---------------------------- MODULE KVCellArray ----------------------------
(***************************************************************************)
(* The class llama_kv_cells as a state machine: one action per method,     *)
(* guarded by what the method's note or assertion demands of its caller.   *)
(* Two history variables record what the shift array is for: base[i] is    *)
(* the position cell i's K data is rotated to, and divided the cells whose *)
(* position went through pos_div since the last reset_shift.               *)
(***************************************************************************)
EXTENDS KVCells

CONSTANTS Deltas,    \* position deltas a caller passes to pos_add
          Divisors,  \* divisors a caller passes to pos_div
          MaxShift   \* bound on the accumulated shift of a cell

ASSUME KVCellArrayAssumption ==
  /\ Deltas \subseteq Int
  /\ Divisors \subseteq Nat \ {0}
  /\ MaxShift \in Nat

VARIABLES cells,    \* the record of KVCells
          saved,    \* what cp() returned: a function on the saved indices
          base, divided

vars == <<cells, saved, base, divided>>

Saved == UNION {[I -> [pos : Pos \cup {-1}, seq : SUBSET Seqs]] :
                  I \in SUBSET Cells}

TypeOK ==
  /\ cells \in CellArray
  /\ saved \in Saved
  /\ base \in [Cells -> Pos \cup {-1}]
  /\ divided \in SUBSET Cells

Init ==
  /\ cells = Reset
  /\ saved = Cp(Reset, {})
  /\ base = [i \in Cells |-> -1]
  /\ divided = {}

-----------------------------------------------------------------------------
Keep == UNCHANGED <<saved, base, divided>>

(* Between cp() and set() the only caller, llama_kv_cache::prepare, places  *)
(* batches: it overwrites, purges and fills cells and does nothing else.    *)
Saving == DOMAIN saved # {}

DoReset ==
  /\ ~Saving
  /\ cells' = Reset
  /\ base' = [i \in Cells |-> -1]
  /\ divided' = {}
  /\ UNCHANGED saved

(* The shifts have been applied to the K data. *)
DoResetShift ==
  /\ ~Saving
  /\ cells' = ResetShift(cells)
  /\ base' = cells.pos
  /\ divided' = {}
  /\ UNCHANGED saved

DoRm(i) ==
  /\ ~IsEmpty(cells, i)
  /\ cells' = Rm(cells, i)
  /\ Keep

DoSeqRm(i, s) ==
  /\ ~IsEmpty(cells, i)
  /\ SeqHas(cells, i, s)
  /\ cells' = SeqRm(cells, i, s)
  /\ Keep

DoSeqKeep(i, s) ==
  /\ ~Saving
  /\ cells.seq[i] # {} \/ IsEmpty(cells, i)
  /\ cells' = SeqKeep(cells, i, s)
  /\ Keep

DoSeqAdd(i, s) ==
  /\ ~IsEmpty(cells, i)
  /\ ~SeqHas(cells, i, s)
  /\ cells' = SeqAdd(cells, i, s)
  /\ Keep

(* The data of the cell is computed for position p. *)
DoPosSet(i, p) ==
  /\ IsEmpty(cells, i)
  /\ cells' = PosSet(cells, i, p)
  /\ base' = [base EXCEPT ![i] = p]
  /\ divided' = divided \ {i}
  /\ UNCHANGED saved

DoPosAdd(i, d) ==
  /\ ~Saving
  /\ ~IsEmpty(cells, i)
  /\ cells.pos[i] + d <= MaxPos
  /\ cells.shift[i] + d \in -MaxShift .. MaxShift
  /\ cells' = PosAdd(cells, i, d)
  /\ Keep

DoPosDiv(i, d) ==
  /\ ~Saving
  /\ ~IsEmpty(cells, i)
  /\ cells.shift[i] + cells.pos[i] <= MaxShift
  /\ cells' = PosDiv(cells, i, d)
  /\ divided' = divided \cup {i}
  /\ UNCHANGED <<saved, base>>

NoShift(I) == \A i \in I : cells.shift[i] = 0

DoCp(I) ==
  /\ ~Saving
  /\ NoShift(I)
  /\ saved' = Cp(cells, I)
  /\ UNCHANGED <<cells, base, divided>>

(* set() after cp(): one round of the loop that restores the saved cells.   *)
DoSet(i) ==
  /\ i \in DOMAIN saved
  /\ NoShift({i})
  /\ cells' = SetCell(cells, i, saved[i])
  /\ base' = [base EXCEPT ![i] = saved[i].pos]
  /\ divided' = divided \ {i}
  /\ saved' = [j \in DOMAIN saved \ {i} |-> saved[j]]

CellStep(i) ==
  \/ DoRm(i)
  \/ \E s \in Seqs : DoSeqRm(i, s) \/ DoSeqKeep(i, s) \/ DoSeqAdd(i, s)
  \/ \E p \in Pos : DoPosSet(i, p)
  \/ \E d \in Deltas : DoPosAdd(i, d)
  \/ \E d \in Divisors : DoPosDiv(i, d)
  \/ DoSet(i)

Next ==
  \/ DoReset
  \/ DoResetShift
  \/ \E i \in Cells : CellStep(i)
  \/ \E I \in SUBSET Cells : DoCp(I)

Spec == Init /\ [][Next]_vars

-----------------------------------------------------------------------------
(* The cached set `used' and the cached counts `seq_pos' say exactly what   *)
(* the cells say, whatever sequence of methods was called: seq_pos_min(),   *)
(* seq_pos_max(), get_used() and used_max_p1() read only the cached fields. *)
IndexOK == IndexAgrees(cells)

(* The pending shift of a cell whose position was only ever added to is the *)
(* distance between the position its data was computed for and its present  *)
(* position, so that rotating the K data by the shift brings it in line;    *)
(* and a cell without pending shift flag has no distance to make up.        *)
ShiftAccounts ==
  /\ \A i \in Cells \ divided :
       cells.pos[i] # -1 => cells.pos[i] - cells.shift[i] = base[i]
  /\ ~cells.hasShift =>
       \A i \in Cells : cells.pos[i] # -1 => cells.pos[i] = base[i]
=============================================================================
