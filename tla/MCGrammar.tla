----------------------------- MODULE MCGrammar ------------------------------
(* Grammar on small vocabularies: whole characters, pieces that cut a       *)
(* two-byte character at either end or in the middle, and a lead byte of a  *)
(* three-byte one.                                                          *)
EXTENDS Grammar

A == 97
B == 98
E == 233    \* U+00E9, bytes 195 169

MCPiece == <<
  <<A>>, <<B>>, <<A, B>>, <<40>>, <<41>>, <<40, A>>,     \* 1..6: a b ab ( ) (a
  <<195>>, <<169>>, <<A, 195>>, <<169, B>>, <<168>>,     \* 7..11: parts of U+00E9, U+00E8
  <<224>>, <<>> >>                                       \* 12, 13: a longer lead; end of generation
MCEOG == 13

Plain(ast, vocab) ==
  [ast |-> ast, words |-> <<>>, tokens |-> {}, vocab |-> vocab \cup {MCEOG}]
OnTrigger(ast, words, tokens, vocab) ==
  [ast |-> ast, words |-> words, tokens |-> tokens, vocab |-> vocab \cup {MCEOG}]

(* root ::= "(" root ")" | item{1,2} "a"*     item ::= "a" | "b" *)
Nested == <<
  Rule("root", << <<Lit(<<40>>), Call("root"), Lit(<<41>>)>>,
                  <<Rep(Call("item"), 1, 2), Rep(Lit(<<A>>), 0, NoMax)>> >>),
  Rule("item", << <<Lit(<<A>>)>>, <<Lit(<<B>>)>> >>) >>

(* root ::= [a-\u00e9] "b" | "a\u00e9" *)
Ranges == << Rule("root", << <<Set({<<A, E>>}), Lit(<<B>>)>>, <<Lit(<<A, E>>)>> >>) >>

(* root ::= ([^a\u00e9] "b"?)+ "a" *)
Excluding == << Rule("root",
  << <<Rep(Group(<< <<NotSet({<<A, A>>, <<E, E>>}), Rep(Lit(<<B>>), 0, 1)>> >>), 1, NoMax), Lit(<<A>>)>> >>) >>

(* root ::= [b-\u07ff]{2} | . "a"   with a lead byte that stays out of the range *)
Wide == << Rule("root", << <<Rep(Set({<<B, 2047>>}), 2, 2)>>, <<AnyChar, Lit(<<A>>)>> >>) >>

(* root ::= [\u0800-\u0840] "a" | "b": no token here completes the first character *)
Dead == << Rule("root", << <<Set({<<2048, 2112>>}), Lit(<<A>>)>>, <<Lit(<<B>>)>> >>) >>

(* root ::= ("ab" | ) "b"{1,2}{2} "("{0} "a" *)
Repeated == << Rule("root",
  << <<Group(<< <<Lit(<<A, B>>)>>, <<>> >>), Rep(Rep(Lit(<<B>>), 1, 2), 2, 2),
       Rep(Lit(<<40>>), 0, 0), Lit(<<A>>)>> >>) >>

(* root ::= "a" !<[1]> "b"? | <[2]> "a"{0,2} *)
Elements == << Rule("root",
  << <<Lit(<<A>>), NotTok(1), Rep(Lit(<<B>>), 0, 1)>>, <<Tok(2), Rep(Lit(<<A>>), 0, 2)>> >>) >>

(* root ::= "a" "\u00e9"? *)
Pending == << Rule("root", << <<Lit(<<A>>), Rep(Lit(<<E>>), 0, 1)>> >>) >>

(* root ::= "(" "a"+ ")" | "bb" "a"?     woken by "(a" or by "bb" *)
Woken == << Rule("root", << <<Lit(<<40>>), Rep(Lit(<<A>>), 1, NoMax), Lit(<<41>>)>>,
                         <<Lit(<<B, B>>), Rep(Lit(<<A>>), 0, 1)>> >>) >>

(* root ::= <[4]> ("a" | "b"{2})? ")" *)
TokenWoken == << Rule("root",
  << <<Tok(4), Rep(Group(<< <<Lit(<<A>>)>>, <<Rep(Lit(<<B>>), 2, 2)>> >>), 0, 1), Lit(<<41>>)>> >>) >>

(* Refused: root ::= item? root "a" | "b";  an undefined rule;  ("a"{0,3}){7}: 7 times 4 rules *)
Recursive == << Rule("root", << <<Rep(Lit(<<A>>), 0, 1), Call("root"), Lit(<<A>>)>>, <<Lit(<<B>>)>> >>) >>
Undefined == << Rule("root", << <<Lit(<<A>>), Call("other")>> >>) >>
TooMany   == << Rule("root", << <<Rep(Group(<< <<Rep(Lit(<<A>>), 0, 3)>> >>), 7, 7)>> >>) >>

MCSetups == <<
  Plain(Nested, 1..6),
  Plain(Ranges, {1, 2, 7, 8, 9, 10}),
  Plain(Excluding, {1, 2, 7, 8, 10, 11, 12}),
  Plain(Wide, {1, 2, 7, 8, 9, 12}),
  Plain(Dead, {1, 2, 8, 12}),
  Plain(Repeated, {1, 2, 3, 4}),
  Plain(Elements, {1, 2, 3, 8}),
  Plain(Pending, {1, 7, 8, 9}),
  OnTrigger(Woken, <<<<40, A>>, <<B, B>>>>, {}, {1, 2, 3, 4, 5, 6, 8}),
  OnTrigger(TokenWoken, <<>>, {4}, {1, 2, 3, 4, 5}),
  Plain(Recursive, {1, 2}),
  Plain(Undefined, {1, 2}),
  Plain(TooMany, {1, 2}) >>
=============================================================================
