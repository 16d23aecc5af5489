----------------------------- MODULE ReplyParse -----------------------------
(***************************************************************************)
(* What the servers make of a generated text: llama_chat_parse(), partial  *)
(* and final, of src/src/chat-parser.cpp, and .strip_thinking() of         *)
(* R/serve_anthropic.R.                                                    *)
(*                                                                         *)
(* A text is a sequence of pieces, of which a token adds none, one or more *)
(* at a time: "w" (letters of a word), " ", "nl" (a newline), "u" (a       *)
(* character of two tokens), "?" (U+FFFD); "<", "think>" and "/think>",    *)
(* which make <think> and </think> two by two; "[T" and "C]", which make   *)
(* [TOOL_CALLS]; "call" (the JSON of a tool call up to the end of its      *)
(* name), "res" (the JSON of a reply up to its string), "end" (the rest of *)
(* that JSON).                                                             *)
(*                                                                         *)
(* A request has one of three formats: "text" (no tools: all of the text   *)
(* is content), "calls" (Mistral Nemo: prose, then [TOOL_CALLS] and a JSON *)
(* array), "json" (Generic: the whole text is one JSON object).            *)
(***************************************************************************)
EXTENDS Integers, Sequences, FiniteSets, SequencesExt

Blank  == {" ", "nl"}
Tag    == {"<", "think>", "/think>"}
Json   == {"call", "res", "end"}
Piece  == Blank \cup Tag \cup Json \cup {"w", "u", "?", "[T", "C]"}
Text   == Seq(Piece)
Format == {"text", "calls", "json"}

FirstOf(S) == CHOOSE i \in S : \A j \in S : i <= j

-----------------------------------------------------------------------------
(* .strip_thinking(): each step works on what the one before it left.      *)

Opens(t, i)  == i \in 1 .. Len(t) - 1 /\ t[i] = "<" /\ t[i + 1] = "think>"
Closes(t, i) == i \in 1 .. Len(t) - 1 /\ t[i] = "<" /\ t[i + 1] = "/think>"

\* Piece i comes after an opening tag (or is of one) that was not closed before.
Inside(t, i) ==
  \E o \in 1 .. i : Opens(t, o) /\ \A c \in o .. i - 2 : ~Closes(t, c)

\* gsub("<think>.*?</think>", ""): an opening tag, the text up to the next
\* closing tag, and that tag.
InPair(t, i) == Inside(t, i) /\ \E c \in i - 1 .. Len(t) : Closes(t, c)
DropPairs ==
  [t \in Text |->
    FlattenSeq([i \in 1 .. Len(t) |-> IF InPair(t, i) THEN <<>> ELSE <<t[i]>>])]

\* sub("^.*?</think>", ""): a closing tag without its opening tag, and all
\* before it.
DropDangling ==
  [t \in Text |->
    IF \A c \in 1 .. Len(t) : ~Closes(t, c) THEN t
    ELSE SubSeq(t, FirstOf({c \in 1 .. Len(t) : Closes(t, c)}) + 2, Len(t))]

\* An opening tag that was not closed yet, and all after it.
DropUnclosed ==
  [t \in Text |->
    IF \A o \in 1 .. Len(t) : ~Opens(t, o) THEN t
    ELSE SubSeq(t, 1, FirstOf({o \in 1 .. Len(t) : Opens(t, o)}) - 1)]

DropLeadingBlank ==
  [t \in Text |->
    IF \A i \in 1 .. Len(t) : t[i] \in Blank THEN <<>>
    ELSE SubSeq(t, FirstOf({i \in 1 .. Len(t) : t[i] \notin Blank}), Len(t))]

\* (mutant) The reasoning is dropped only once it is complete.
StripThinkingLate == [t \in Text |-> DropLeadingBlank[DropDangling[DropPairs[t]]]]

StripThinking ==
  [t \in Text |-> DropLeadingBlank[DropUnclosed[DropDangling[DropPairs[t]]]]]

-----------------------------------------------------------------------------
(* llama_chat_parse().                                                     *)

Markup(t, i) == i \in 1 .. Len(t) - 1 /\ t[i] = "[T" /\ t[i + 1] = "C]"
Marked(t)    == \E i \in 1 .. Len(t) : Markup(t, i)
MarkupAt(t)  == FirstOf({i \in 1 .. Len(t) : Markup(t, i)})

\* The text may end in a beginning of [TOOL_CALLS].
EndsInMarkup(t) == t # <<>> /\ Last(t) = "[T"

\* What comes before the markup, whole or begun at the end of the text.
Prelude(t) ==
  IF Marked(t) THEN SubSeq(t, 1, MarkupAt(t) - 1)
  ELSE IF EndsInMarkup(t) THEN Front(t) ELSE t

Closed(t) == t # <<>> /\ Last(t) = "end"

\* With the JSON unfinished the final parse gives up the calls, goes back to the
\* beginning and adds the whole text to the content it has.
Abandoned(t) == Prelude(t) \o t

PartialContent(format, t) == IF format = "calls" THEN Prelude(t) ELSE t

FinalContent(format, t) ==
  CASE format = "text"  -> t
    [] format = "calls" -> IF Marked(t) /\ ~Closed(t) THEN Abandoned(t) ELSE Prelude(t)
    [] format = "json"  -> IF ~Closed(t) THEN t
                           ELSE IF Head(t) = "res" THEN SubSeq(t, 2, Len(t) - 1) ELSE <<>>

Content(format, final, t) ==
  IF final THEN FinalContent(format, t) ELSE PartialContent(format, t)

\* parse_out(): the reasoning is dropped of the content.
Shown(strip, c) == IF strip THEN StripThinking[c] ELSE c

\* A partial parse has a call as soon as its name is complete, the final one only
\* if the JSON is.
PartialCall(format, t) == format = "calls" /\ Marked(t) /\ "call" \in ToSet(t)
FinalCall(format, t)   == format # "text" /\ "call" \in ToSet(t) /\ Closed(t)

-----------------------------------------------------------------------------
(* What a model may generate.  The grammar of a "json" request holds from  *)
(* the first token, that of a "calls" request from [TOOL_CALLS] on.        *)

Prose(t)     == ToSet(t) \cap Json = {}
CallBegins   == {<<>>, <<"call">>, <<"call", "end">>}
ReplyBegins(t) ==
  t # <<>> /\ Head(t) = "res" /\ Prose(SubSeq(t, 2, Len(t) - 1))
  /\ (Len(t) > 1 => Last(t) \notin {"call", "res"})

Generable(format, t) ==
  CASE format = "text"  -> Prose(t)
    [] format = "calls" -> IF Marked(t)
                           THEN Prose(Prelude(t)) /\ SubSeq(t, MarkupAt(t) + 2, Len(t)) \in CallBegins
                           ELSE Prose(t)
    [] format = "json"  -> t \in CallBegins \/ ReplyBegins(t)

\* A token is the pieces it adds, or half of a character, which waits for its
\* other half (buf).
Half == <<"half">>

Chunk(buf, token) ==
  IF token = Half THEN (IF buf THEN <<"u">> ELSE <<>>)
  ELSE (IF buf THEN <<"?">> ELSE <<>>) \o token

\* gen_end() flushes half a character.
Stub(buf) == IF buf THEN <<"?">> ELSE <<>>

\* The text a token leads to may go on.
MayGenerate(format, t, buf, token) ==
  Generable(format, t \o (IF token = Half THEN <<"u">> ELSE Chunk(buf, token)))

-----------------------------------------------------------------------------
(* Contents of which a later parse takes something back.                   *)

\* Every closing tag closes an opening one.
Balanced(t) == \A c \in 1 .. Len(t) : Closes(t, c) => Inside(t, c)

\* A "<" before a "<": when the second begins a pair, its removal may make a new
\* tag of the first and what follows the pair.
Doubled(t) == \E i \in 1 .. Len(t) - 1 : t[i] = "<" /\ t[i + 1] = "<"

\* Content c, of which something was sent at the lengths `at', is none of them.  The
\* servers take no account of this: .strip_thinking() shows the beginning of an
\* opening tag until the tag is complete (R/serve_anthropic.R:231; a parse is made
\* when a token ends in "<", R/serve.R:403), a closing tag without its opening tag
\* takes away all before it (:229), and what is around a pair may join to a tag
\* (:227).
Regular(strip, c, at) ==
  strip => Balanced(c) /\ ~Doubled(c) /\ \A n \in at : ~Opens(c, n)
=============================================================================
