-------------------------- MODULE GrammarLanguage ---------------------------
(* What the notation of llama-grammar means, without rules or stacks: which *)
(* texts are sentences of a grammar, and which can still become one.  A     *)
(* text is a sequence of symbols, the bytes 0..255 and TokenSymbol(id) for  *)
(* a token taken as a whole.  Positions are counted from 0; all operators   *)
(* go from a set of positions to the positions an item may end at.  The     *)
(* grammar has no left recursion and every rule has a sentence.             *)
EXTENDS GrammarRules

TokenSymbol(id) == 1000 + id

(* Well-formed characters of one to three bytes, and their code points. *)
Cont(b) == b \in 128..191
CharLen(lead) == CASE lead \in 0..127 -> 1
                   [] lead \in 194..223 -> 2
                   [] lead \in 224..239 -> 3
                   [] OTHER -> 0
CodePoint(b) ==
  CASE Len(b) = 1 -> b[1]
    [] Len(b) = 2 -> (b[1] - 192) * 64 + b[2] - 128
    [] Len(b) = 3 -> (b[1] - 224) * 4096 + (b[2] - 128) * 64 + b[3] - 128
WellFormed(b) ==
  /\ b # <<>>
  /\ Len(b) = CharLen(b[1])
  /\ \A i \in 2..Len(b) : Cont(b[i])
  /\ Len(b) = 3 => CodePoint(b) >= 2048

Within(ranges, chr) == \E r \in ranges : r[1] <= chr /\ chr <= r[2]
Utf8(chr) ==
  IF chr < 128 THEN <<chr>>
  ELSE IF chr < 2048 THEN <<192 + chr \div 64, 128 + (chr % 64)>>
  ELSE <<224 + chr \div 4096, 128 + ((chr \div 64) % 64), 128 + (chr % 64)>>
Bytes(chars) == FlattenSeq([i \in DOMAIN chars |-> Utf8(chars[i])])

InClass(item, b) ==
  /\ WellFormed(b)
  /\ CASE item.op = "any" -> TRUE
       [] item.op = "set" -> Within(item.ranges, CodePoint(b))
       [] item.op = "not" -> ~Within(item.ranges, CodePoint(b))

(* The characters that begin with the bytes b. *)
Completions(b) ==
  LET missing == CharLen(b[1]) - Len(b)
  IN IF missing \notin 1..2 THEN {} ELSE {c \in {b \o q : q \in [1..missing -> 128..191]} : WellFormed(c)}

(* An incomplete character that some continuation makes a member.           *)
MayBecome(item, b) == \E c \in Completions(b) : InClass(item, c)

-----------------------------------------------------------------------------
Slice(t, i, j) == SubSeq(t, i + 1, j)
IsTok(item, symbol) ==
  /\ symbol >= 1000
  /\ (item.op = "token") = (symbol = TokenSymbol(item.id))
AltsOf(ast, name) == (CHOOSE k \in Range(ast) : k.name = name).alts

RECURSIVE Ends(_, _, _, _)
SeqEnds(ast, items, t, I) == FoldLeft(LAMBDA J, item : Ends(ast, item, t, J), I, items)
AltEnds(ast, alts, t, I) == UNION {SeqEnds(ast, alts[k], t, I) : k \in DOMAIN alts}

RECURSIVE RepEnds(_, _, _, _, _)
RepEnds(ast, item, t, I, times) ==
  IF times = 0 \/ I = {} THEN I ELSE RepEnds(ast, item, t, Ends(ast, item, t, I), times - 1)

RECURSIVE UpToEnds(_, _, _, _, _)
UpToEnds(ast, item, t, I, times) ==
  LET J == I \cup Ends(ast, item, t, I)
  IN IF times = 0 \/ I = {} \/ J = I THEN I ELSE UpToEnds(ast, item, t, J, times - 1)

Ends(ast, item, t, I) ==
  IF I = {} THEN {} ELSE
  CASE item.op = "lit" ->
         {j \in 0..Len(t) : \E i \in I : i <= j /\ Slice(t, i, j) = Bytes(item.chars)}
    [] item.op \in {"set", "not", "any"} ->
         {j \in 1..Len(t) : \E i \in I : i < j /\ j <= i + 3 /\ InClass(item, Slice(t, i, j))}
    [] item.op \in {"token", "not_token"} -> {i + 1 : i \in {k \in I : k < Len(t) /\ IsTok(item, t[k + 1])}}
    [] item.op = "ref" -> AltEnds(ast, AltsOf(ast, item.name), t, I)
    [] item.op = "group" -> AltEnds(ast, item.alts, t, I)
    [] item.op = "rep" ->
         UpToEnds(ast, item.of, t, RepEnds(ast, item.of, t, I, item.min),
                  IF item.max = NoMax THEN -1 ELSE item.max - item.min)

(* Alive: from some position of I the rest of the text begins a sentence of *)
(* the items.                                                               *)
RECURSIVE Alive(_, _, _, _)
SeqAlive(ast, items, t, I) ==
  \/ Len(t) \in I
  \/ \E k \in DOMAIN items : Alive(ast, items[k], t, SeqEnds(ast, SubSeq(items, 1, k - 1), t, I))
AltAlive(ast, alts, t, I) == \E k \in DOMAIN alts : SeqAlive(ast, alts[k], t, I)

Alive(ast, item, t, I) ==
  /\ I # {}
  /\ \/ Len(t) \in I
     \/ /\ item.op = "lit"
        /\ \E i \in I : IsPrefix(Slice(t, i, Len(t)), Bytes(item.chars))
     \/ /\ item.op \in {"set", "not", "any"}
        /\ \E i \in I : \/ InClass(item, Slice(t, i, Len(t)))
                        \/ i < Len(t) /\ t[i + 1] < 256 /\ MayBecome(item, Slice(t, i, Len(t)))
     \/ /\ item.op \in {"token", "not_token"}
        /\ Len(t) - 1 \in I
        /\ IsTok(item, t[Len(t)])
     \/ item.op = "ref" /\ AltAlive(ast, AltsOf(ast, item.name), t, I)
     \/ item.op = "group" /\ AltAlive(ast, item.alts, t, I)
     \/ /\ item.op = "rep"
        /\ item.max # 0
        /\ Alive(ast, item.of, t,
                 UNION {RepEnds(ast, item.of, t, I, k) :
                          k \in 0..(IF item.max = NoMax THEN Len(t) ELSE item.max - 1)})

Root == Call("root")
IsSentence(ast, t) == Len(t) \in Ends(ast, Root, t, {0})
BeginsSentence(ast, t) == Alive(ast, Root, t, {0})

-----------------------------------------------------------------------------
(* The inverse sets of a grammar. *)
RECURSIVE NotSetsOf(_)
NotSetsIn(alts) == UNION {NotSetsOf(item) : item \in UNION {Range(alts[k]) : k \in DOMAIN alts}}
NotSetsOf(item) ==
  CASE item.op = "not" -> {item}
    [] item.op = "group" -> NotSetsIn(item.alts)
    [] item.op = "rep" -> NotSetsOf(item.of)
    [] OTHER -> {}
NotSets(ast) == UNION {NotSetsIn(rule.alts) : rule \in Range(ast)}

(* The text ends inside a character that can still become one that an       *)
(* inverse set of the grammar excludes.                                     *)
EndsNearExcluded(ast, t) ==
  \E i \in 0..(Len(t) - 1) :
    /\ t[i + 1] < 256
    /\ \E c \in Completions(Slice(t, i, Len(t))), item \in NotSets(ast) : ~InClass(item, c)
=============================================================================
