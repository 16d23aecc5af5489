---------------------------- MODULE MCGeneration ----------------------------
(* Model-checking instance of Generation.                                     *)
EXTENDS Generation

MCSeqs == 0 .. 1

P == Own("p", 2)
Q == Own("q", 4)

\* One stream of three tokens whose bytes are cut in every way.
Text == [vocab   |-> [g1 |-> {<<"c">>, <<"3">>, <<"4", "c">>, <<"x", "2">>}],
         budgets |-> [g1 |-> {0, 3}], prompts |-> {P},
         lists   |-> {}, limits |-> {}, others |-> FALSE]

\* Two streams, and everything else in between.
Mixed == [vocab   |-> [g1 |-> {<<"a">>}, g2 |-> {<<"3">>}],
          budgets |-> [g1 |-> {2}, g2 |-> {1}], prompts |-> {P, Q},
          lists   |-> {[s \in {0} |-> P], 0 :> P @@ 1 :> Own("r", 1), 0 :> Q @@ 1 :> P},
          limits  |-> {0, 1, 2}, others |-> TRUE]

MCUses == {Text, Mixed}
=============================================================================
