------------------------------ MODULE Grammar -------------------------------
(* The grammar sampler (llama-sampling.cpp, llama-grammar.cpp): it bars the *)
(* tokens that leave the grammar, follows the token that was sampled, and   *)
(* sleeps until a trigger when it is lazy.                                  *)
(*                                                                          *)
(* A setup is what llamar_add_grammar_sampler() gets: a grammar, trigger    *)
(* patterns (here: words searched anywhere in the output) and trigger       *)
(* tokens; and the part of the vocabulary that is looked at.                *)
EXTENDS GrammarStacks, GrammarLanguage, FiniteSets

CONSTANTS
  Piece,       \* the bytes of each token
  EOG,         \* the token that ends a generation
  Setups,      \* a sequence of [ast, words, tokens, vocab]
  MaxTokens    \* bound: tokens sampled since the sampler was built or reset

ASSUME SetupsAssumption ==
  \A i \in DOMAIN Setups : Setups[i].vocab \subseteq DOMAIN Piece /\ EOG \in Setups[i].vocab

VARIABLES
  setup,     \* the setup in use
  g,         \* llama_grammar: stacks, partial_utf8, awaiting_trigger and its buffer
  status,    \* "run", "done", "thrown" (accept raised an error), "abort"
  toks,      \* history: the tokens sampled
  forced     \* history: one of them was barred, as every token was

vars == <<setup, g, status, toks, forced>>

Loaded == [i \in DOMAIN Setups |-> Load(Setups[i].ast)]
Used == Setups[setup]
Rules == Loaded[setup].rules
Lazy(i) == Setups[i].words # <<>> \/ Setups[i].tokens # {}

(* Building the sampler.  A grammar that is refused yields a null sampler,  *)
(* which the chain holds and passes over.                                   *)
Fresh(i) ==
  [stacks   |-> IF Loaded[i].rules = <<>> THEN {} ELSE InitialStacks(Loaded[i].rules, Loaded[i].root),
   partial  |-> Whole,
   awaiting |-> Lazy(i),
   buffer   |-> <<>>,       \* trigger_buffer
   places   |-> <<>>]       \* trigger_buffer_positions: [tok, from, to]

Null == Rules = <<>>

Init ==
  /\ setup \in DOMAIN Setups
  /\ g = Fresh(setup)
  /\ status = "run"
  /\ toks = <<>>
  /\ forced = FALSE

-----------------------------------------------------------------------------
(* llama_grammar_apply_impl() on one token. *)
Allows(t) ==
  \/ Null
  \/ g.awaiting
  \/ t = EOG /\ <<>> \in g.stacks
  \/ /\ t # EOG
     /\ Piece[t] # <<>>
     /\ LET d == DecodeUtf8(Piece[t], g.partial)
        IN ~Rejected(Rules, g.stacks, d.cps, d.partial, t)

Allowed == {t \in Used.vocab : Allows(t)}

(* The first place where the bytes w occur, or -1. *)
Find(bytes, w) ==
  LET places == {k \in 0..(Len(bytes) - Len(w)) : SubSeq(bytes, k + 1, k + Len(w)) = w}
  IN IF places = {} THEN -1 ELSE CHOOSE k \in places : \A j \in places : k <= j

Follow(h, t, piece) ==
  LET r == AcceptToken(Rules, h.stacks, h.partial, t, piece)
  IN [h EXCEPT !.stacks = r.stacks, !.partial = r.partial]

(* Mutant of Replay: the first token is replayed whole. *)
ReplayWhole(h, start) ==
  FoldLeft(LAMBDA x, p : IF p.to <= start THEN x
                         ELSE Follow(x, p.tok, SubSeq(h.buffer, p.from + 1, p.to)),
           [h EXCEPT !.awaiting = FALSE], h.places)

(* The buffered tokens that overlap [start, end), cut at start; an empty    *)
(* set of stacks stays empty, as the error that it raises ends the replay.  *)
Replay(h, start) ==
  FoldLeft(LAMBDA x, p : IF p.to <= start THEN x
                         ELSE Follow(x, p.tok,
                                SubSeq(h.buffer, (IF p.from < start THEN start ELSE p.from) + 1, p.to)),
           [h EXCEPT !.awaiting = FALSE], h.places)

(* llama_grammar_accept_impl() while a trigger is awaited: the token, or    *)
(* the first pattern found in all of the output so far.                     *)
AcceptAwaiting(t) ==
  LET h == [g EXCEPT !.buffer = @ \o Piece[t],
                     !.places = Append(@, [tok  |-> t, from |-> Len(g.buffer),
                                           to   |-> Len(g.buffer) + Len(Piece[t])])]
      hits == {k \in DOMAIN Used.words : Find(h.buffer, Used.words[k]) >= 0}
  IN IF t \in Used.tokens
     THEN Follow([g EXCEPT !.awaiting = FALSE, !.buffer = <<>>], t, Piece[t])
     ELSE IF hits = {} THEN h
     ELSE LET first == CHOOSE k \in hits : \A j \in hits : k <= j
          IN [Replay(h, Find(h.buffer, Used.words[first])) EXCEPT !.buffer = <<>>, !.places = <<>>]

(* One token: apply, the choice, accept.  When every token is barred the    *)
(* choice is among numbers that are not numbers: any token.                 *)
Sample(t) ==
  /\ status = "run"
  /\ Len(toks) < MaxTokens
  /\ t \in (IF Allowed = {} THEN Used.vocab ELSE Allowed)
  /\ g' = IF Null THEN g
          ELSE IF g.awaiting THEN AcceptAwaiting(t)
          ELSE IF t = EOG THEN g ELSE Follow(g, t, Piece[t])
  /\ status' = CASE ~Null /\ g'.stacks = {} -> "thrown"
                 [] ~Null /\ g'.stacks # {} /\ t = EOG /\ ~g.awaiting /\ <<>> \notin g.stacks -> "abort"
                 [] (Null \/ g'.stacks # {}) /\ t = EOG /\ (Null \/ g.awaiting \/ <<>> \in g.stacks) -> "done"
                 [] OTHER -> "run"
  /\ toks' = Append(toks, t)
  /\ forced' = (forced \/ Allowed = {})
  /\ UNCHANGED setup

(* Sampling on after the error meets no stack. *)
SampleAfterThrow ==
  /\ status = "thrown"
  /\ status' = "abort"
  /\ UNCHANGED <<setup, g, toks, forced>>

(* llama_sampler_grammar_reset(): the grammar is built again. *)
Reset ==
  /\ status # "abort"
  /\ toks # <<>>
  /\ g' = Fresh(setup)
  /\ status' = "run"
  /\ toks' = <<>>
  /\ forced' = FALSE
  /\ UNCHANGED setup

Next == (\E t \in Used.vocab : Sample(t)) \/ SampleAfterThrow \/ Reset

Spec == Init /\ [][Next]_vars

-----------------------------------------------------------------------------
(* The same told from the tokens sampled alone. *)
Output(ts) == FlattenSeq([i \in DOMAIN ts |-> Piece[ts[i]]])
Upto(ts, k) == SubSeq(ts, 1, k)
Triggers(ts, k) ==
  \/ ts[k] \in Used.tokens
  \/ \E w \in Range(Used.words) : Find(Output(Upto(ts, k)), w) >= 0
Awaits == Lazy(setup) /\ \A k \in DOMAIN toks : ~Triggers(toks, k)

(* What the grammar has to accept: [tok, piece], the first perhaps cut to   *)
(* begin where the word does that is found in the output up to token k.     *)
AsUnits(ts) == [i \in DOMAIN ts |-> [tok |-> ts[i], piece |-> Piece[ts[i]]]]
FromByte(ts, start) ==
  LET j == CHOOSE n \in DOMAIN ts : /\ Len(Output(Upto(ts, n - 1))) <= start
                                    /\ start < Len(Output(Upto(ts, n)))
  IN <<[tok   |-> ts[j],
        piece |-> SubSeq(Output(Upto(ts, j)), start + 1, Len(Output(Upto(ts, j))))]>>
     \o SubSeq(AsUnits(ts), j + 1, Len(ts))
WordAt(bytes) ==
  LET w == CHOOSE n \in DOMAIN Used.words :
             Find(bytes, Used.words[n]) >= 0 /\ \A m \in 1..(n - 1) : Find(bytes, Used.words[m]) < 0
  IN Find(bytes, Used.words[w])
Constrained(ts) ==
  LET k == CHOOSE n \in DOMAIN ts : Triggers(ts, n) /\ \A m \in 1..(n - 1) : ~Triggers(ts, m)
  IN IF ~Lazy(setup) THEN AsUnits(ts)
     ELSE IF ts[k] \in Used.tokens THEN SubSeq(AsUnits(ts), k, Len(ts))
     ELSE FromByte(ts, WordAt(Output(Upto(ts, k))))

(* A token of whole characters may be read as a symbol of its own. *)
Symbols(u) ==
  {u.piece} \cup (IF DecodeUtf8(u.piece, Whole).partial = Whole THEN {<<TokenSymbol(u.tok)>>} ELSE {})
Readings(units) ==
  FoldLeft(LAMBDA R, u : {r \o s : r \in R, s \in Symbols(u)}, {<<>>}, units)

Begins(units) == \E r \in Readings(units) : BeginsSentence(Used.ast, r)
Continues(t) == Begins(Append(Constrained(toks), [tok |-> t, piece |-> Piece[t]]))

(* The first characters of the piece bring the grammar to a token element   *)
(* that this token matches: apply lets it pass, accept has no stack left.   *)
Crosses(t) ==
  \E r \in Readings(Constrained(toks)), k \in 1..(Len(Piece[t]) - 1) :
     BeginsSentence(Used.ast, r \o SubSeq(Piece[t], 1, k) \o <<TokenSymbol(t)>>)

Complete == \E r \in Readings(Constrained(toks)) : IsSentence(Used.ast, r)

(* The bytes that the output and the piece of t make, from the trigger on.  *)
BytesWith(t) == FlattenSeq([i \in DOMAIN Constrained(toks) |-> Constrained(toks)[i].piece]) \o Piece[t]

(* While a grammar is enforced, the tokens left to the sampler are those    *)
(* after which the output, from its trigger on, still begins a sentence,    *)
(* and those that run into a token element; the generation may end exactly  *)
(* when the output is a sentence, a begun character aside.  Before the      *)
(* trigger, and with a refused grammar, every token is left.  Left out: a   *)
(* token that leaves a character begun which could become one that an       *)
(* inverse set excludes may be barred although another continuation would   *)
(* do, against the comment of match_partial_char (llama-grammar.cpp:745).   *)
OffersExactly ==
  status = "run" /\ ~forced =>
    /\ \A t \in Used.vocab \ {EOG} :
         LET free == Null \/ Awaits
         IN /\ Allows(t) => free \/ Continues(t) \/ Crosses(t)
            /\ free \/ Crosses(t) => Allows(t)
            /\ ~free /\ Continues(t) /\ ~EndsNearExcluded(Used.ast, BytesWith(t)) => Allows(t)
    /\ g.partial = Whole => (Allows(EOG) <=> Null \/ Awaits \/ Complete)

(* Without that exception, as the comment says; refuted by an inverse set   *)
(* and a lead byte of a character it excludes.                              *)
OffersAllThatContinue ==
  status = "run" /\ ~forced /\ ~Null /\ ~Awaits =>
    \A t \in Used.vocab \ {EOG} : Continues(t) => Allows(t)

(* A token is refused after it was sampled only if it is part of the output *)
(* that woke the grammar and that output begins no sentence, or if it runs  *)
(* into a token element (or if no token was left); the process ends only by *)
(* sampling on after that.                                                  *)
FailsOnlyKnown ==
  [][~forced' => /\ status' = "thrown" => \/ g.awaiting /\ ~Begins(Constrained(toks'))
                                          \/ ~g.awaiting /\ Crosses(Last(toks'))
                 /\ status' = "abort" => status = "thrown"]_vars
=============================================================================
