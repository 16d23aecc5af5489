----------------------------- MODULE SeqStates -----------------------------
(***************************************************************************)
(* What a recurrent memory promises to the callers of the memory API: each *)
(* sequence has at most one state, known by the position of its last token *)
(* and the tokens it was computed from.  Sequences that were copied share  *)
(* a state until one of them goes on.  In which cell a state is, what is   *)
(* moved to make the cells of a ubatch neighbours, the trial placement and *)
(* the search hints are invisible here.                                    *)
(***************************************************************************)
EXTENDS Integers, Sequences, FiniteSets

CONSTANTS Seqs, Froms, Tos, Divisors, \* the arguments callers pass
          Torn   \* what a computation leaves that did not finish

VARIABLE groups   \* the states: records [seqs, pos, toks]

Init == groups = {}

Of(s)  == {g \in groups : s \in g.seqs}
Has(s) == Of(s) # {}

(* The states that are left when the sequences S leave theirs.              *)
Without(S) == {h \in {[g EXCEPT !.seqs = @ \ S] : g \in groups} : h.seqs # {}}

In(p, p0, p1) == p >= 0 /\ p >= p0 /\ (p1 < 0 \/ p < p1)

Clear == groups' = {}

(* All or nothing; a range that ends before the last token changes nothing. *)
Remove(s, p0, p1) ==
  groups' = IF \E g \in Of(s) : In(g.pos, p0, p1) THEN Without({s}) ELSE groups

Copy(s, d) ==
  /\ s # d
  /\ groups' = {IF s \in g.seqs THEN [g EXCEPT !.seqs = @ \cup {d}] ELSE g :
                  g \in Without({d})}

Keep(s) == groups' = {[g EXCEPT !.seqs = {s}] : g \in Of(s)}

Divide(s, p0, p1, k) ==
  groups' = {IF s \in g.seqs /\ In(g.pos, p0, p1) THEN [g EXCEPT !.pos = @ \div k] ELSE g :
               g \in groups}

(* A ubatch gives each of the sequences S a state of its own.               *)
ToksOf(s) == IF Has(s) THEN (CHOOSE g \in Of(s) : TRUE).toks ELSE <<>>

Grown(old, s, g) ==
  /\ g.seqs = {s}
  /\ IF old = Torn THEN g.toks = Torn
     ELSE \E n \in 1 .. Len(g.toks) : g.toks = old \o [k \in 1 .. n |-> s]

Extend(S) ==
  /\ \A s \in S : \E g \in groups' : Grown(ToksOf(s), s, g)
  /\ {g \in groups' : g.seqs \cap S = {}} = Without(S)

(* A ubatch that failed: its sequences have an unknown state or, when they  *)
(* were at their start, none; other states may be unknown as well.          *)
Unsure(g) == {g, [g EXCEPT !.toks = Torn]}

Fail(S) ==
  /\ \A g \in groups' : g.seqs \cap S # {} => g.seqs \subseteq S /\ g.toks = Torn
  /\ \A g \in Without(S) : Unsure(g) \cap groups' # {}
  /\ \A g \in groups' : g.seqs \cap S = {} => \E h \in Without(S) : g \in Unsure(h)

Next ==
  \/ Clear
  \/ \E s \in Seqs : Keep(s) \/ \E d \in Seqs : Copy(s, d)
  \/ \E s \in Seqs, p0 \in Froms, p1 \in Tos :
       \/ Remove(s, p0, p1)
       \/ \E k \in Divisors : Divide(s, p0, p1, k)
  \/ \E S \in SUBSET Seqs \ {{}} : Extend(S) \/ Fail(S)

Spec == Init /\ [][Next]_groups
=============================================================================
