---------------------------- MODULE GrammarRules ----------------------------
(* From the text of a grammar to the element rules that the sampler walks:  *)
(* llama_grammar_parser (llama-grammar.cpp) and the checks made when a      *)
(* grammar is initialised.                                                  *)
(*                                                                          *)
(* The text is given parsed: a grammar is a sequence of named rules, a rule *)
(* a sequence of alternatives, an alternative a sequence of items.  What    *)
(* the parser makes of them is kept: the numbering of symbols, the rules it *)
(* invents for groups and repetitions, and every way it can fail.           *)
EXTENDS Integers, Sequences, SequencesExt

CONSTANT MAX_REPETITION_THRESHOLD

NoMax == -1

(* Items.  A range is a pair <<lowest, highest>> of code points. *)
Lit(chars)         == [op |-> "lit", chars |-> chars]
Set(ranges)        == [op |-> "set", ranges |-> ranges]
NotSet(ranges)     == [op |-> "not", ranges |-> ranges]
AnyChar            == [op |-> "any"]
Tok(id)            == [op |-> "token", id |-> id]
NotTok(id)         == [op |-> "not_token", id |-> id]
Call(name)         == [op |-> "ref", name |-> name]
Group(alts)        == [op |-> "group", alts |-> alts]
Rep(of, min, max)  == [op |-> "rep", of |-> of, min |-> min, max |-> max]
Rule(name, alts)   == [name |-> name, alts |-> alts]

(* Elements of the compiled rules; a whole character class is one element. *)
Elem(type, arg) == [type |-> type, arg |-> arg]
RuleRef(id) == Elem("RULE_REF", id)
Alt == Elem("ALT", 0)
End == Elem("END", 0)
EndOfSequence(e) == e.type \in {"ALT", "END"}

(* The parser: its symbols in the order of their numbers, the rules by      *)
(* number (<<>> while undefined), and whether it has thrown.  Names made by *)
(* generate_symbol_id() carry the number of the symbol.                     *)
Parser == [ids |-> <<>>, rules |-> <<>>, ok |-> TRUE]
Symbol(name) == [name |-> name, n |-> 0]
IdOf(p, name) == CHOOSE i \in DOMAIN p.ids : p.ids[i] = Symbol(name)

GetSymbolId(p, name) ==
  IF \E i \in DOMAIN p.ids : p.ids[i] = Symbol(name) THEN p
  ELSE [p EXCEPT !.ids = Append(@, Symbol(name))]

GenerateSymbolId(p, name) ==
  [p EXCEPT !.ids = Append(@, [name |-> name, n |-> Len(@) + 1])]

AddRule(p, id, rule) ==
  [p EXCEPT !.rules = [i \in 1..(IF id > Len(@) THEN id ELSE Len(@)) |->
                         IF i = id THEN rule
                         ELSE IF i \in DOMAIN @ THEN @[i] ELSE <<>>]]

-----------------------------------------------------------------------------
(* What an item compiles to: the parser after it, the elements since        *)
(* last_sym_start, and n_prev_rules.                                        *)
Parsed(p, elems, n) == [p |-> p, elems |-> elems, n |-> n]

(* handle_repetitions(): S{m,n} becomes m copies of S and a chain of n - m  *)
(* optional rules; S{m,} ends in one rule that refers to itself.            *)
HandleRepetitions(r, name, min, max) ==
  LET total == IF max > 0 THEN max ELSE IF min > 0 THEN min ELSE 1
      n_opt == IF max = NoMax THEN 1 ELSE max - min
      AddOptional(s, i) ==
        LET q    == GenerateSymbolId(s.p, name)
            id   == Len(q.ids)
            more == IF max = NoMax THEN <<RuleRef(id)>>
                    ELSE IF i > 1 THEN <<RuleRef(s.last)>> ELSE <<>>
        IN [p |-> AddRule(q, id, r.elems \o more \o <<Alt, End>>), last |-> id]
      opt == FoldLeft(AddOptional, [p |-> r.p, last |-> 0], [i \in 1..n_opt |-> i])
  IN IF r.elems = <<>> \/ r.n * total >= MAX_REPETITION_THRESHOLD
     THEN Parsed([r.p EXCEPT !.ok = FALSE], <<>>, r.n)
     ELSE Parsed(opt.p,
                 FlattenSeq([i \in 1..min |-> r.elems]) \o
                   (IF n_opt > 0 THEN <<RuleRef(opt.last)>> ELSE <<>>),
                 r.n * total)

RECURSIVE ParseItem(_, _, _)

(* A rule in the making: the parser and the elements so far. *)
AddItem(s, r) == [p |-> r.p, rule |-> s.rule \o r.elems]
AddAlt(s) == [s EXCEPT !.rule = Append(@, Alt)]
AddEnd(s, id) == AddRule(s.p, id, Front(s.rule) \o <<End>>)

ParseSequence(s, name, items) ==
  FoldLeft(LAMBDA x, item : AddItem(x, ParseItem(x.p, name, item)), s, items)

ParseAlternates(p, name, id, alts) ==
  AddEnd(FoldLeft(LAMBDA s, items : AddAlt(ParseSequence(s, name, items)),
                  [p |-> p, rule |-> <<>>], alts),
         id)

ParsedGroup(p, id, sub) == Parsed(sub, <<RuleRef(id)>>, Len(sub.ids) - Len(p.ids))

ParseItem(p, name, item) ==
  CASE item.op = "lit" ->
         Parsed(p, [i \in DOMAIN item.chars |-> Elem("CHAR", {<<item.chars[i], item.chars[i]>>})], 1)
    [] item.op = "set"       -> Parsed(p, <<Elem("CHAR", item.ranges)>>, 1)
    [] item.op = "not"       -> Parsed(p, <<Elem("CHAR_NOT", item.ranges)>>, 1)
    [] item.op = "any"       -> Parsed(p, <<Elem("CHAR_ANY", {})>>, 1)
    [] item.op = "token"     -> Parsed(p, <<Elem("TOKEN", item.id)>>, 1)
    [] item.op = "not_token" -> Parsed(p, <<Elem("TOKEN_NOT", item.id)>>, 1)
    [] item.op = "ref" ->
         LET q == GetSymbolId(p, item.name) IN Parsed(q, <<RuleRef(IdOf(q, item.name))>>, 1)
    [] item.op = "group" ->
         ParsedGroup(p, Len(p.ids) + 1,
                     ParseAlternates(GenerateSymbolId(p, name), name, Len(p.ids) + 1, item.alts))
    [] item.op = "rep" -> HandleRepetitions(ParseItem(p, name, item.of), name, item.min, item.max)

(* parse(): all rules in turn, then every rule must be defined. *)
Parse(ast) ==
  FoldLeft(LAMBDA p, rule : LET q == GetSymbolId(p, rule.name)
                            IN ParseAlternates(q, rule.name, IdOf(q, rule.name), rule.alts),
           Parser, ast)

AllDefined(p) ==
  \A i \in DOMAIN p.rules :
     /\ p.rules[i] # <<>>
     /\ \A j \in DOMAIN p.rules[i] :
          p.rules[i][j].type = "RULE_REF" => p.rules[i][j].arg \in DOMAIN p.rules

-----------------------------------------------------------------------------
(* detect_left_recursion(): a rule may be empty for it only if one of its   *)
(* own alternatives has no element at all.                                  *)
StartsAlternate(rule, i) == i = 1 \/ rule[i - 1].type = "ALT"

MayBeEmpty(rules, r) ==
  \E i \in DOMAIN rules[r] : StartsAlternate(rules[r], i) /\ EndOfSequence(rules[r][i])

Leftmost(rules, r, i) ==
  \E s \in 1..i :
     /\ StartsAlternate(rules[r], s)
     /\ \A j \in s..(i - 1) : rules[r][j].type = "RULE_REF" /\ MayBeEmpty(rules, rules[r][j].arg)

RECURSIVE LeftRecursive(_, _, _)
LeftRecursive(rules, r, in_progress) ==
  \/ r \in in_progress
  \/ \E i \in DOMAIN rules[r] :
        /\ rules[r][i].type = "RULE_REF"
        /\ Leftmost(rules, r, i)
        /\ LeftRecursive(rules, rules[r][i].arg, in_progress \cup {r})

(* llama_grammar_init_impl(): the rules and the number of the root, or no   *)
(* rules when the grammar is refused.                                       *)
Checked(p) ==
  IF /\ p.ok
     /\ AllDefined(p)
     /\ \E i \in DOMAIN p.ids : p.ids[i] = Symbol("root")
     /\ \A r \in DOMAIN p.rules : ~LeftRecursive(p.rules, r, {})
  THEN [rules |-> p.rules, root |-> IdOf(p, "root")]
  ELSE [rules |-> <<>>, root |-> 0]

Load(ast) == Checked(Parse(ast))
=============================================================================
