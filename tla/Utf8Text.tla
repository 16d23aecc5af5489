----------------------------- MODULE Utf8Text -----------------------------
(* The text side of generation in src/r_llama_interface.cpp: how the bytes   *)
(* of the tokens become the text that R sees.  A byte is one of the classes  *)
(* the code tells apart:                                                      *)
(*   "a" an ASCII byte, "s" a space, "2" "3" "4" the lead of a character of   *)
(*   so many bytes, "c" a continuation byte, "x" a byte of no character.      *)
(* "R" is the replacement character, which only the sanitiser writes.         *)
EXTENDS Integers, Sequences, SequencesExt

Bytes == {"a", "s", "2", "3", "4", "c", "x"}

\* The bytes of the character that a lead begins, 0 if it begins none.
Need(b) == CASE b \in {"a", "s"} -> 1
             [] b = "2" -> 2
             [] b = "3" -> 3
             [] b = "4" -> 4
             [] OTHER   -> 0

\* A whole character stands at i.
WholeAt(s, i) == /\ Need(s[i]) > 0
                 /\ i + Need(s[i]) - 1 <= Len(s)
                 /\ \A k \in 1 .. Need(s[i]) - 1 : s[i + k] = "c"

\* utf8_sanitize(): whole characters are kept, any other byte is replaced and
\* the scan goes on with the next byte.
Sanitized(s) ==
  LET from[i \in 1 .. Len(s) + 1] ==
        IF i > Len(s) THEN <<>>
        ELSE IF WholeAt(s, i)
             THEN SubSeq(s, i, i + Need(s[i]) - 1) \o from[i + Need(s[i])]
             ELSE <<"R">> \o from[i + 1]
  IN from[1]

\* Mutant: only a lead in the last place counts.
IncompleteLead(s) == IF s # <<>> /\ Need(Last(s)) > 1 THEN 1 ELSE 0

\* utf8_incomplete_tail(): the length of the last character if it still waits
\* for continuation bytes.
IncompleteTail(s) ==
  LET leads == {i \in 1 .. Len(s) : s[i] # "c"}
      last  == CHOOSE i \in leads : \A j \in leads : j <= i
      have  == Len(s) - last + 1
  IN IF leads # {} /\ have < Need(s[last]) THEN have ELSE 0

\* What a step emits of the buffer and what it keeps there.
Emitted(buf) == SubSeq(buf, 1, Len(buf) - IncompleteTail(buf))
Held(buf)    == SubSeq(buf, Len(buf) - IncompleteTail(buf) + 1, Len(buf))

\* llama_token_to_piece() of each token, one after the other: a token is the
\* sequence of its bytes.
Pieces(toks) == FlattenSeq(toks)
=============================================================================
