--------------------------- MODULE GrammarStacks ----------------------------
(* The pushdown stacks a grammar is walked with (llama-grammar.cpp).  A     *)
(* stack is a sequence of positions <<rule, index>>, its top is the last    *)
(* one; the walk keeps a set of stacks, each empty or with a character or   *)
(* token element on top.  Rejecting works on candidates one by one: the     *)
(* code's lists treat each of them alike.                                   *)
EXTENDS GrammarRules

(* decode_utf8(): a lead byte tells how many bytes follow; only a character *)
(* that was begun by an earlier piece has its continuation bytes checked.   *)
Whole == [value |-> 0, n |-> 0]
Invalid == [value |-> 0, n |-> -1]
Following(lead) == CASE lead < 128 -> 0
                     [] lead \in 192..223 -> 1
                     [] lead \in 224..239 -> 2
                     [] lead \in 240..255 -> 3
                     [] OTHER -> -1

DecodeByte(d, b) ==
  LET Got(value, n) ==
        IF n = 0 THEN [d EXCEPT !.cps = Append(@, value), !.partial = Whole, !.resumed = FALSE]
        ELSE [d EXCEPT !.partial = [value |-> value, n |-> n]]
      begun == d.partial.n > 0
  IN IF d.bad THEN d
     ELSE IF begun /\ ~(d.resumed /\ b \div 64 # 2)
     THEN Got(d.partial.value * 64 + (b % 64), d.partial.n - 1)
     ELSE IF begun \/ Following(b) < 0
     THEN [d EXCEPT !.cps = <<>>, !.partial = Invalid, !.bad = TRUE]
     ELSE Got(b % (2 ^ (7 - Following(b))), Following(b))

DecodeUtf8(bytes, partial) ==
  FoldLeft(DecodeByte,
           [cps |-> <<>>, partial |-> partial, resumed |-> partial.n > 0, bad |-> FALSE], bytes)

-----------------------------------------------------------------------------
IsToken(e) == e.type \in {"TOKEN", "TOKEN_NOT"}

(* match_char() *)
MatchChar(e, chr) ==
  \/ e.type = "CHAR_ANY"
  \/ (e.type = "CHAR") = (\E r \in e.arg : r[1] <= chr /\ chr <= r[2])

(* Mutant of MatchPartialChar: overlong forms count as characters. *)
MatchPartialCharOverlong(e, partial) ==
  LET low  == partial.value * 64 ^ partial.n
      high == low + 64 ^ partial.n - 1
  IN /\ partial.n >= 0
     /\ \/ e.type = "CHAR_ANY"
        \/ (e.type = "CHAR") = (\E r \in e.arg : r[1] <= high /\ low <= r[2])

(* match_partial_char(): by the range of code points the begun character    *)
(* can still become.                                                        *)
MatchPartialChar(e, partial) ==
  LET span == 64 ^ partial.n
      from == partial.value * span
      low  == IF from # 0 THEN from
              ELSE IF partial.n = 2 THEN 2 ^ 11 ELSE IF partial.n = 3 THEN 2 ^ 16 ELSE 0
      high == from + span - 1
  IN /\ partial.n >= 0
     /\ ~(partial.n = 1 /\ partial.value < 2)
     /\ \/ e.type = "CHAR_ANY"
        \/ (e.type = "CHAR") = (\E r \in e.arg : r[1] <= high /\ low <= r[2])

(* match_token() *)
MatchToken(e, id) == (e.type = "TOKEN") = (e.arg = id)

-----------------------------------------------------------------------------
At(rules, pos) == rules[pos[1]][pos[2]]
After(pos) == <<pos[1], pos[2] + 1>>
Push(rules, stack, pos) ==
  IF EndOfSequence(At(rules, pos)) THEN stack ELSE Append(stack, pos)
Step(rules, stack) == Push(rules, Front(stack), After(Last(stack)))
Top(rules, stack) == At(rules, Last(stack))

(* One alternative of a rule, put on a stack whose top refers to it. *)
Expansions(rules, stack) ==
  IF stack = <<>> THEN {}
  ELSE IF Top(rules, stack).type # "RULE_REF" THEN {}
  ELSE LET r == Top(rules, stack).arg
       IN {Push(rules, Step(rules, stack), <<r, i>>) :
             i \in {k \in DOMAIN rules[r] : StartsAlternate(rules[r], k)}}

(* advance_stack(): the stacks reached once no top refers to a rule. *)
RECURSIVE AdvanceAll(_, _, _)
AdvanceAll(rules, todo, seen) ==
  IF todo = {} THEN {s \in seen : Expansions(rules, s) = {}}
  ELSE AdvanceAll(rules, (UNION {Expansions(rules, s) : s \in todo}) \ (seen \cup todo), seen \cup todo)

AdvanceStack(rules, stack) == AdvanceAll(rules, {stack}, {})

(* The stacks a grammar starts with: one for each alternative of the root.  *)
InitialStacks(rules, root) ==
  UNION {AdvanceStack(rules, Push(rules, <<>>, <<root, i>>)) :
           i \in {k \in DOMAIN rules[root] : StartsAlternate(rules[root], k)}}

(* accept_chr() over a set of stacks *)
AcceptChr(rules, stacks, chr) ==
  UNION {AdvanceStack(rules, Step(rules, s)) :
           s \in {t \in stacks : /\ t # <<>>
                                 /\ ~IsToken(Top(rules, t))
                                 /\ MatchChar(Top(rules, t), chr)}}

(* reject_candidates_for_stack(), reject_candidates(): a candidate is the   *)
(* code points left of its piece, the character it leaves begun, its id.    *)
RECURSIVE RejectedBy(_, _, _, _, _)
Rejected(rules, stacks, cps, partial, id) ==
  \A s \in stacks : RejectedBy(rules, s, cps, partial, id)

RejectedBy(rules, stack, cps, partial, id) ==
  IF stack = <<>> THEN cps # <<>> \/ partial.n # 0
  ELSE LET e == Top(rules, stack)
       IN CASE cps = <<>> /\ IsToken(e) -> partial.n # 0
            [] cps = <<>> /\ ~IsToken(e) -> partial.n # 0 /\ ~MatchPartialChar(e, partial)
            [] cps # <<>> /\ IsToken(e) -> ~MatchToken(e, id)
            [] OTHER ->
                 \/ ~MatchChar(e, Head(cps))
                 \/ Rejected(rules, AdvanceStack(rules, Step(rules, stack)), Tail(cps), partial, id)

(* accept_token(): a stack waiting for a token takes it by its id, any      *)
(* other takes its characters one by one.                                   *)
AcceptToken(rules, stacks, partial, id, piece) ==
  LET d == DecodeUtf8(piece, partial)
      Accept(s) ==
        CASE s = <<>> -> {}
          [] s # <<>> /\ IsToken(Top(rules, s)) ->
               IF MatchToken(Top(rules, s), id) THEN AdvanceStack(rules, Step(rules, s)) ELSE {}
          [] OTHER -> FoldLeft(LAMBDA S, chr : AcceptChr(rules, S, chr), {s}, d.cps)
  IN [stacks |-> UNION {Accept(s) : s \in stacks}, partial |-> d.partial]
=============================================================================
