------------------------- MODULE OpenAIServerProofs -------------------------
(***************************************************************************)
(* Proofs about what a client of OpenAIServer receives, for any number of  *)
(* requests, any prompts and any generated text.                           *)
(***************************************************************************)
EXTENDS OpenAIServer, SequenceFacts

Kinds == {"role", "content", "finish", "done"}
Whys  == {"", "tool_calls", "length", "stop"}

FrameType ==
  [kind : Kinds, delta : Text, why : Whys]

Phases == {"idle", "refused", "open", "answered", "failed", "sent", "cancelled"}

ReqType ==
  [phase : Phases, format : Format,
   left : Int, done : BOOLEAN, buf : BOOLEAN,
   role : BOOLEAN, finishing : BOOLEAN, flushed : BOOLEAN, n : Int,
   text : Text, emitted : Text, since : Int, frozen : BOOLEAN, out : Seq(FrameType),
   at : SUBSET Nat]

\* Without tools and with the reasoning left in, the pieces are sent as they are.
Raw(st, q) == q.format = "text" /\ ~st

\* The content of a text that still grows, or of the whole.
Now(q) == Content(q.format, q.finishing, q.text)

\* What a client of request q received: of a raw request all of the text, of another
\* what the parses showed.  Nothing is shown of JSON before it is complete.
Answers(st, q) ==
  /\ q.flushed => q.finishing
  /\ q.phase = "sent" => q.flushed
  /\ Raw(st, q) => Sent(q) = q.text
  /\ ~Raw(st, q) => Sent(q) = q.emitted /\ SentOf(st, Now(q), q.at, q.emitted)
  /\ q.format = "json" /\ ~q.finishing => q.emitted = <<>>
  /\ q.finishing /\ q.phase # "failed" /\ ~q.frozen /\ Regular(st, Now(q), q.at)
       => Sent(q) = Shown(st, Now(q))

\* Requests of which the same was generated and sent.
Alike(y, q) ==
  /\ y.text = q.text /\ y.out = q.out /\ y.format = q.format
  /\ y.emitted = q.emitted /\ y.at = q.at

IInv ==
  /\ strip \in BOOLEAN /\ req \in [Request -> ReqType]
  /\ \A r \in Request : Answers(strip, req[r])

-----------------------------------------------------------------------------
(* Frames.                                                                 *)

LEMMA EmptyText == <<>> \in Text /\ \A t \in Text : t \o <<>> = t /\ <<>> \o t = t
BY DEF Text

LEMMA AppendType ==
  ASSUME NEW X, NEW s \in Seq(X), NEW x \in X
  PROVE  Append(s, x) \in Seq(X) /\ <<x>> \in Seq(X)
OBVIOUS

LEMMA KindsAndWhys ==
  /\ "role" \in Kinds /\ "content" \in Kinds /\ "finish" \in Kinds /\ "done" \in Kinds
  /\ "" \in Whys /\ "tool_calls" \in Whys /\ "length" \in Whys /\ "stop" \in Whys
BY DEF Kinds, Whys

LEMMA FramesCarry == Carry(FrameType)
BY DEF Carry, FrameType

LEMMA FrameIs ==
  ASSUME NEW k \in Kinds, NEW d \in Text,
         NEW w \in Whys
  PROVE  Frame(k, d, w) \in FrameType /\ Frame(k, d, w).delta = d
BY DEF Frame, FrameType

\* Request y is request q after one more frame, that carries d.
Follows(q, d, y) ==
  /\ Sent(q) \in Text /\ y \in ReqType
  /\ y = [q EXCEPT !.out = y.out]
  /\ Sent(y) = Sent(q) \o d

\* What was sent after one more frame.
LEMMA SentEmit ==
  ASSUME NEW q \in ReqType, NEW k \in Kinds,
         NEW d \in Text, NEW w \in Whys
  PROVE  Follows(q, d, Emit(q, k, d, w))
<1>1. PICK f \in FrameType : f = Frame(k, d, w) /\ f.delta = d
  BY FrameIs
<1>2. PICK out \in Seq(FrameType) : out = q.out
  BY DEF ReqType
<1>3. Append(out, f) \in Seq(FrameType) /\ Append(out, f) = out \o <<f>>
  <2>1. Append(out, f) \in Seq(FrameType)
    BY AppendType
  <2>2. Append(out, f) = out \o <<f>>
    BY <1>1, <1>2, AppendIsConcat
  <2> QED
    BY <2>1, <2>2
<1>4. /\ Emit(q, k, d, w) = [q EXCEPT !.out = Append(out, f)]
      /\ Emit(q, k, d, w).out = Append(out, f)
  BY <1>1, <1>2 DEF Emit, ReqType
<1>5. Emit(q, k, d, w) \in ReqType
  BY <1>3, <1>4 DEF ReqType
<1>6. Sent(q) = Sends(out) /\ Sent(Emit(q, k, d, w)) = Sends(out \o <<f>>)
  BY <1>2, <1>3, <1>4 DEF Sent, Sends, DeltasOf
<1>7. Sends(out \o <<f>>) = Sends(out) \o d
  <2>1. <<f>> \in Seq(FrameType)
    BY AppendType
  <2>2. Sends(<<f>>) = d
    BY <1>1, FramesCarry, SendsOne
  <2> QED
    BY <1>2, <2>1, <2>2, FramesCarry, SendsConcat
<1>8. Sends(out) \in Text
  BY <1>2, FramesCarry, DeltasType
<1> QED
  BY <1>4, <1>5, <1>6, <1>7, <1>8 DEF Follows

-----------------------------------------------------------------------------
(* A request that takes a token or ends.                                   *)

\* More text.
LEMMA TextGrows ==
  ASSUME NEW t \in Text, NEW c \in Text
  PROVE  t \o c \in Text /\ Begins(t, t \o c)
BY ConcatBegins DEF Text

LEMMA PiecesText ==
  ASSUME NEW buf \in BOOLEAN, NEW token \in Text \cup {Half}
  PROVE  Chunk(buf, token) \in Text /\ Stub(buf) \in Text
<1>1. "u" \in Piece /\ "?" \in Piece
  BY DEF Piece
<1>2. <<"u">> \in Text /\ <<"?">> \in Text /\ <<>> \in Text
  <2>1. ASSUME NEW x \in Piece PROVE <<x>> \in Text /\ <<>> \in Text
    BY DEF Text
  <2> QED
    BY <1>1, <2>1
<1>3. token # Half => token \in Text
  OBVIOUS
<1>4. token # Half => <<"?">> \o token \in Text /\ <<>> \o token \in Text
  BY <1>2, <1>3, EmptyText, TextGrows
<1> QED
  BY <1>2, <1>4 DEF Chunk, Stub

LEMMA NowType == ASSUME NEW q \in ReqType PROVE Now(q) \in Text
BY ContentType DEF ReqType, Now

\* A chunk is added to the text: q has it, it was not sent yet.
LEMMA TakenText ==
  ASSUME NEW st \in BOOLEAN, NEW q \in ReqType, NEW c \in Text, NEW y \in ReqType,
         Answers(st, q), ~q.finishing,
         y.text = q.text \o c, y.out = q.out, y.format = q.format,
         y.emitted = q.emitted, y.at = q.at
  PROVE  /\ Sent(y) = Sent(q)
         /\ Raw(st, y) => Sent(y) \o c = y.text
         /\ ~Raw(st, y) => Sent(y) = y.emitted /\ SentOf(st, Now(y), y.at, y.emitted)
         /\ y.format = "json" => y.emitted = <<>>
<1>1. Sent(y) = Sent(q)
  BY DEF Sent
<1>2. Raw(st, y) <=> Raw(st, q)
  BY DEF Raw
<1>3. /\ q.text \in Text /\ y.text \in Text /\ Begins(q.text, y.text)
      /\ q.format \in Format /\ y.finishing \in BOOLEAN /\ q.finishing = FALSE
  BY TextGrows DEF ReqType
<1>4. SentOf(st, Now(q), q.at, q.emitted) => SentOf(st, Now(y), y.at, y.emitted)
  <2>1. CASE q.format = "json"
    BY <2>1 DEF Answers, SentOf
  <2>2. CASE q.format # "json"
    <3>1. q.format \in Format \ {"json"}
      BY <1>3, <2>2
    <3>2. Begins(Content(q.format, FALSE, q.text), Content(q.format, y.finishing, y.text))
      BY <1>3, <3>1, ContentBegins
    <3>3. Begins(Now(q), Now(y))
      BY <1>3, <3>2 DEF Now
    <3>4. Now(q) \in Text /\ Now(y) \in Text
      BY NowType
    <3> QED
      BY <3>3, <3>4, SentOfGrows
  <2> QED
    BY <2>1, <2>2
<1> QED
  BY <1>1, <1>2, <1>4 DEF Answers

\* What the parse has beyond what was sent is sent.
LEMMA SendDeltaAnswers ==
  ASSUME strip \in BOOLEAN, NEW q \in ReqType, ~Raw(strip, q), Extends(q, q.finishing),
         Sent(q) = q.emitted, q.format = "json" => q.finishing,
         ~q.flushed, q.phase = "open"
  PROVE  SendDelta(q, q.finishing) \in ReqType /\ Answers(strip, SendDelta(q, q.finishing))
<1>1. PICK f \in BOOLEAN : f = q.finishing
  BY DEF ReqType
<1>2. /\ q.emitted \in Text /\ Now(q) \in Text /\ q.at \in SUBSET Nat
      /\ Shown(strip, Now(q)) \in Text
  BY NowType, ShownType DEF ReqType
<1>3. PICK e \in Text, c \in Text :
        e = q.emitted /\ c = Shown(strip, Now(q))
  BY <1>2
<1>4. PICK at : at = q.at \cup {Len(Now(q))}
  OBVIOUS
<1>5. ContentOf(q, f) = Now(q) /\ Parsed(q, f) = c
  BY <1>1, <1>3 DEF ContentOf, Parsed, Now
<1>6. IsPrefix(e, c)
  BY <1>1, <1>3, <1>5 DEF Extends, IsStrictPrefix
<1>7. PICK d \in Text : d = Delta(q, f) /\ e \o d = c
  <2>1. Delta(q, f) = SubSeq(c, Len(e) + 1, Len(c))
    BY <1>3, <1>5 DEF Delta
  <2> QED
    BY <1>6, <2>1, RestCompletes
<1>8. PICK y : y = [q EXCEPT !.emitted = c, !.at = at]
  OBVIOUS
<1>9. at \in SUBSET Nat
  <2>1. Len(Now(q)) \in Nat
    BY <1>2 DEF Text
  <2> QED
    BY <1>2, <1>4, <2>1
<1>10. /\ y \in ReqType /\ y.out = q.out /\ y.emitted = c /\ y.at = at /\ y.text = q.text
      /\ y.format = q.format /\ y.finishing = f /\ y.flushed = q.flushed /\ y.phase = q.phase
  BY <1>1, <1>3, <1>8, <1>9 DEF ReqType
<1>11. Sent(y) = e
  BY <1>3, <1>10 DEF Sent
<1>12. PICK z : z = Emit(y, "content", d, "")
  OBVIOUS
<1>13. SendDelta(q, f) = z
  BY <1>3, <1>4, <1>5, <1>7, <1>8, <1>12 DEF SendDelta, ReqType
<1>14. Follows(y, d, Emit(y, "content", d, ""))
  <2>1. y \in ReqType
    BY <1>10
  <2> QED
    BY ONLY <2>1, d \in Text, KindsAndWhys, SentEmit, Zenon
<1>15. z \in ReqType /\ z = [y EXCEPT !.out = z.out] /\ Sent(z) = c
  BY <1>7, <1>11, <1>12, <1>14 DEF Follows
<1>16. /\ z.emitted = c /\ z.at = at /\ z.text = q.text /\ z.format = q.format
       /\ z.finishing = f /\ ~z.flushed /\ z.phase = "open"
  BY <1>10, <1>15 DEF ReqType
<1>17. Now(z) = Now(q) /\ ~Raw(strip, z)
  BY <1>1, <1>16 DEF Now, Raw
<1>18. SentOf(strip, Now(z), z.at, z.emitted)
  BY <1>2, <1>3, <1>4, <1>16, <1>17, SentOfNow
<1>19. Answers(strip, z)
  BY <1>1, <1>3, <1>15, <1>16, <1>17, <1>18 DEF Answers
<1> QED
  BY <1>1, <1>13, <1>15, <1>19

LEMMA SinceOnly ==
  ASSUME NEW t \in ReqType, NEW k \in Int
  PROVE  LET y == [t EXCEPT !.since = k]
         IN  /\ y \in ReqType /\ Alike(y, t) /\ y.finishing = t.finishing
             /\ y.flushed = t.flushed /\ y.phase = t.phase
BY DEF ReqType, Alike

\* A token is used: its chunk is sent at once, kept for a later parse, or sent with
\* what the parse reveals.
LEMMA TokenAnswers ==
  ASSUME strip \in BOOLEAN, NEW r \in Request, NEW q \in ReqType,
         NEW token \in Text \cup {Half},
         Answers(strip, q), ~q.finishing, q.phase = "open",
         UseChunk(r, Taken(q, token), Chunk(q.buf, token))
  PROVE  \E y \in ReqType : req' = [req EXCEPT ![r] = y] /\ Answers(strip, y)
<1>1. PICK c \in Text : c = Chunk(q.buf, token)
  BY PiecesText DEF ReqType
<1>2. PICK t : t = Taken(q, token)
  OBVIOUS
<1>3. q.text \o c \in Text
  BY <1>1, TextGrows DEF ReqType
<1>4. /\ t \in ReqType /\ t.text = q.text \o c /\ t.out = q.out /\ t.format = q.format
      /\ t.emitted = q.emitted /\ t.at = q.at /\ t.finishing = FALSE /\ ~t.flushed
      /\ t.phase = "open"
  <2>1. t = [q EXCEPT !.left = q.left - 1, !.buf = token = Half /\ ~q.buf, !.n = q.n + 1,
                      !.text = q.text \o c]
    BY <1>1, <1>2 DEF Taken
  <2>2. q.left - 1 \in Int /\ q.n + 1 \in Int /\ (token = Half /\ ~q.buf) \in BOOLEAN
    BY DEF ReqType
  <2>3. ~q.flushed /\ q.finishing = FALSE
    BY DEF Answers, ReqType
  <2> QED
    BY <1>3, <2>1, <2>2, <2>3 DEF ReqType
<1>5. /\ Sent(t) = Sent(q)
      /\ Raw(strip, t) => Sent(t) \o c = t.text
      /\ ~Raw(strip, t) => Sent(t) = t.emitted /\ SentOf(strip, Now(t), t.at, t.emitted)
      /\ t.format = "json" => t.emitted = <<>>
  BY <1>4, TakenText
\* The request with another count of tokens since a parse, frozen, or failed.
<1>6. ASSUME NEW y \in ReqType, ~Raw(strip, t), Alike(y, t),
             ~y.finishing, ~y.flushed, y.phase # "sent"
      PROVE  Answers(strip, y) /\ Sent(y) = y.emitted
  <2>1. Sent(y) = Sent(t)
    BY <1>6 DEF Sent, Alike
  <2>2. Now(y) = Now(t) /\ ~Raw(strip, y) /\ y.at = t.at /\ y.emitted = t.emitted
        /\ y.format = t.format
    <3>1. y.finishing = FALSE
      BY <1>6 DEF ReqType
    <3> QED
      BY <1>4, <1>6, <3>1 DEF Now, Raw, Alike
  <2>3. SentOf(strip, Now(y), y.at, y.emitted)
    BY <1>5, <1>6, <2>2
  <2> QED
    BY <1>5, <1>6, <2>1, <2>2, <2>3 DEF Answers
<1>7. CASE RawOk(t)
  <2>1. Raw(strip, t) /\ t.format = "text"
    BY <1>7 DEF RawOk, Raw
  <2>2. PICK y : y = Emit(t, "content", c, "")
    OBVIOUS
  <2>3. req' = [req EXCEPT ![r] = y]
    BY <1>1, <1>2, <1>7, <2>2 DEF UseChunk, Return
  <2>4. Follows(t, c, Emit(t, "content", c, ""))
    BY ONLY <1>4, c \in Text, KindsAndWhys, SentEmit, Zenon
  <2>5. y \in ReqType /\ Sent(y) = Sent(t) \o c /\ y = [t EXCEPT !.out = y.out]
    BY <2>2, <2>4 DEF Follows
  <2>6. /\ y.text = t.text /\ y.format = "text" /\ ~y.finishing /\ ~y.flushed
        /\ y.phase = "open" /\ Raw(strip, y)
    BY <1>4, <2>1, <2>5 DEF ReqType, Raw
  <2>7. Answers(strip, y)
    BY <1>4, <1>5, <2>1, <2>5, <2>6 DEF Answers
  <2> QED
    BY <2>3, <2>5, <2>7
<1>8. CASE ~RawOk(t)
  <2>1. ~Raw(strip, t)
    BY <1>8 DEF RawOk, Raw
  <2>2. PICK y : y = [t EXCEPT !.since = 0]
    OBVIOUS
  <2>3. /\ y \in ReqType /\ Alike(y, t) /\ y.finishing = FALSE /\ ~y.flushed
        /\ y.phase = "open"
    <3>1. PICK k \in Int : k = 0
      OBVIOUS
    <3>2. y = [t EXCEPT !.since = k]
      BY <2>2, <3>1
    <3> QED
      BY <1>4, <3>2, SinceOnly
  <2>4. CASE req' = [req EXCEPT ![r] = t]
    <3>1. Alike(t, t)
      BY DEF Alike
    <3> QED
      BY <1>4, <1>6, <2>1, <2>4, <3>1
  <2>5. CASE req' = [req EXCEPT ![r] = [t EXCEPT !.since = t.since + 1]]
    <3>1. PICK z : z = [t EXCEPT !.since = t.since + 1]
      OBVIOUS
    <3>2. z \in ReqType /\ Alike(z, t) /\ ~z.finishing /\ ~z.flushed /\ z.phase = "open"
      <4>1. t.since + 1 \in Int
        BY <1>4 DEF ReqType
      <4> QED
        BY <1>4, <3>1, <4>1, SinceOnly
    <3> QED
      BY <1>6, <2>1, <2>5, <3>1, <3>2
  <2>6. CASE req' = [req EXCEPT ![r] = y]
    BY <1>6, <2>1, <2>3, <2>6
  <2>7. CASE req' = [req EXCEPT ![r] = [y EXCEPT !.frozen = TRUE]]
    <3>1. PICK z : z = [y EXCEPT !.frozen = TRUE]
      OBVIOUS
    <3>2. z \in ReqType /\ Alike(z, t) /\ ~z.finishing /\ ~z.flushed /\ z.phase = "open"
      BY <2>3, <3>1 DEF ReqType, Alike
    <3> QED
      BY <1>6, <2>1, <2>7, <3>1, <3>2
  <2>8. CASE ~Accumulate(t) /\ Extends(y, FALSE) /\ req' = [req EXCEPT ![r] = SendDelta(y, FALSE)]
    <3>1. ~Raw(strip, y) /\ y.format # "json"
      BY <2>1, <2>3, <2>8 DEF Raw, Alike, Accumulate
    <3>2. Sent(y) = y.emitted
      BY <1>6, <2>1, <2>3
    <3>3. /\ SendDelta(y, y.finishing) \in ReqType
          /\ Answers(strip, SendDelta(y, y.finishing))
      BY <2>3, <2>8, <3>1, <3>2, SendDeltaAnswers
    <3> QED
      BY <2>3, <2>8, <3>3
  <2>9. CASE req' = [req EXCEPT ![r] = [t EXCEPT !.phase = "failed"]]
    <3>1. PICK z : z = [t EXCEPT !.phase = "failed"]
      OBVIOUS
    <3>2. z \in ReqType /\ Alike(z, t) /\ ~z.finishing /\ ~z.flushed /\ z.phase = "failed"
      BY <1>4, <3>1 DEF ReqType, Alike, Phases
    <3> QED
      BY <1>6, <2>1, <2>9, <3>1, <3>2
  <2>10. UseChunk(r, t, c)
    BY <1>1, <1>2
  <2>11. CASE Accumulate(t)
    BY <1>8, <2>4, <2>10, <2>11 DEF UseChunk, Continue
  <2>12. CASE ~Accumulate(t) /\ DoParse(t, c)
    <3>1. AfterParse(r, y) \/ ParseFails(r, t)
      BY <1>8, <2>2, <2>10, <2>12 DEF UseChunk
    <3>2. CASE ParseFails(r, t)
      BY <2>9, <3>2 DEF ParseFails, Return
    <3>3. CASE AfterParse(r, y)
      BY <2>6, <2>7, <2>8, <2>12, <3>3 DEF AfterParse, Return, Continue
    <3> QED
      BY <3>1, <3>2, <3>3
  <2>13. CASE ~Accumulate(t) /\ ~DoParse(t, c)
    BY <1>8, <2>5, <2>10, <2>13 DEF UseChunk, Continue
  <2> QED
    BY <2>11, <2>12, <2>13
<1> QED
  BY <1>7, <1>8

\* The generation ended: what was held back is flushed, or the last parse fails.
LEMMA EndAnswers ==
  ASSUME strip \in BOOLEAN, NEW r \in Request, req[r] \in ReqType,
         Answers(strip, req[r]), ~req[r].finishing, req[r].phase = "open",
         NEW t, t = [GenEnd(req[r]) EXCEPT !.finishing = TRUE],
         Flush(r, t) \/ ParseFails(r, t)
  PROVE  \E y \in ReqType : req' = [req EXCEPT ![r] = y] /\ Answers(strip, y)
<1>1. PICK q \in ReqType : q = req[r]
  OBVIOUS
<1>2. PICK c \in Text : c = Stub(q.buf)
  BY EmptyText, PiecesText DEF ReqType
<1>3. q.text \o c \in Text /\ (c = <<>> => q.text \o c = q.text)
  BY <1>2, EmptyText, TextGrows DEF ReqType
<1>4. /\ t \in ReqType /\ t.text = q.text \o c /\ t.out = q.out /\ t.format = q.format
      /\ t.emitted = q.emitted /\ t.at = q.at /\ t.finishing = TRUE /\ ~t.flushed
      /\ t.phase = "open"
  <2>1. t = [q EXCEPT !.done = TRUE, !.buf = FALSE, !.text = q.text \o c, !.finishing = TRUE]
    BY <1>1, <1>2 DEF GenEnd, ReqType
  <2>2. ~q.flushed /\ q.phase = "open"
    BY <1>1 DEF Answers
  <2> QED
    BY <1>3, <2>1, <2>2 DEF ReqType
<1>5. /\ Sent(t) = Sent(q)
      /\ Raw(strip, t) => Sent(t) \o c = t.text
      /\ ~Raw(strip, t) => Sent(t) = t.emitted /\ SentOf(strip, Now(t), t.at, t.emitted)
  <2>1. Answers(strip, q) /\ ~q.finishing /\ t \in ReqType
    BY <1>1, <1>4
  <2> QED
    BY ONLY strip \in BOOLEAN, q \in ReqType, c \in Text, <1>4, <2>1, TakenText, Zenon
<1>6. t.text \in Text /\ t.emitted \in Text /\ Now(t) \in Text
  BY <1>4, NowType DEF ReqType
<1>7. CASE RawOk(t)
  <2>1. Raw(strip, t) /\ t.format = "text" /\ ~strip
    BY <1>7 DEF RawOk, Raw
  <2>2. \A y : y.text = t.text /\ y.format = "text" => Shown(strip, Now(y)) = t.text
    BY <1>4, <2>1 DEF Now, Shown, Content, FinalContent, PartialContent
  <2>3. Flush(r, t)
    BY <2>1 DEF ParseFails
  <2>4. CASE c = <<>>
    <3>1. req' = [req EXCEPT ![r] = t]
      BY <1>1, <1>2, <1>7, <2>3, <2>4 DEF Flush, Continue
    <3>2. Sent(t) = t.text
      BY <1>1, <1>3, <1>4, <1>5, <2>1, <2>4 DEF Answers, Raw
    <3> QED
      BY <1>4, <2>1, <2>2, <3>1, <3>2 DEF Answers
  <2>5. CASE c # <<>>
    <3>1. PICK y : y = Emit(t, "content", c, "")
      OBVIOUS
    <3>2. req' = [req EXCEPT ![r] = y]
      BY <1>1, <1>2, <1>7, <2>3, <2>5, <3>1 DEF Flush, Return
    <3>3. Follows(t, c, Emit(t, "content", c, ""))
      BY ONLY <1>4, c \in Text, KindsAndWhys, SentEmit, Zenon
    <3>4. y \in ReqType /\ Sent(y) = Sent(t) \o c /\ y = [t EXCEPT !.out = y.out]
      BY <3>1, <3>3 DEF Follows
    <3>5. /\ y.text = t.text /\ y.format = "text" /\ y.finishing /\ ~y.flushed
          /\ y.phase = "open" /\ Raw(strip, y)
      BY <1>4, <2>1, <3>4 DEF ReqType, Raw
    <3>6. Sent(y) = y.text
      BY <1>4, <1>5, <2>1, <3>4, <3>5
    <3>7. Answers(strip, y)
      BY <2>1, <2>2, <3>4, <3>5, <3>6 DEF Answers
    <3> QED
      BY <3>2, <3>4, <3>7
  <2> QED
    BY <2>4, <2>5
<1>8. CASE ~RawOk(t)
  <2>1. ~Raw(strip, t)
    BY <1>8 DEF RawOk, Raw
  <2>2. Sent(t) = t.emitted /\ SentOf(strip, Now(t), t.at, t.emitted)
    BY <1>5, <2>1
  <2>3. CASE Flush(r, t) /\ ~t.frozen /\ Extends(t, TRUE)
    <3>1. req' = [req EXCEPT ![r] = SendDelta(t, TRUE)]
      BY <1>8, <2>3 DEF Flush, Return
    <3>2. SendDelta(t, t.finishing) \in ReqType /\ Answers(strip, SendDelta(t, t.finishing))
      BY <1>4, <2>1, <2>2, <2>3, SendDeltaAnswers
    <3> QED
      BY <1>4, <3>1, <3>2
  <2>4. CASE Flush(r, t) /\ ~(~t.frozen /\ Extends(t, TRUE))
    <3>1. req' = [req EXCEPT ![r] = t]
      BY <1>8, <2>4 DEF Flush, Continue
    <3>2. ~t.frozen /\ Regular(strip, Now(t), t.at) => Sent(t) = Shown(strip, Now(t))
      <4>1. SUFFICES ASSUME ~t.frozen, Regular(strip, Now(t), t.at)
                     PROVE  t.emitted = Shown(strip, Now(t))
        BY <2>2
      <4>2. ~IsStrictPrefix(t.emitted, Shown(strip, Now(t)))
        BY <1>4, <2>4, <4>1 DEF Extends, Parsed, ContentOf, Now
      <4> QED
        BY <1>6, <2>2, <4>1, <4>2, SentOfBegins
    <3> QED
      BY <1>4, <2>1, <2>2, <3>1, <3>2 DEF Answers
  <2>5. CASE ParseFails(r, t)
    <3>1. PICK y : y = [t EXCEPT !.phase = "failed"]
      OBVIOUS
    <3>2. t \in ReqType /\ "failed" \in Phases
      BY <1>4 DEF Phases
    <3>3. y \in ReqType /\ y.finishing = t.finishing /\ y.flushed = t.flushed /\ y.phase = "failed"
      BY <3>1, <3>2 DEF ReqType
    <3>4. Alike(y, t)
      BY <3>1, <3>2 DEF ReqType, Alike
    <3>5. y \in ReqType /\ Alike(y, t) /\ y.finishing = TRUE /\ ~y.flushed /\ y.phase = "failed"
      BY <1>4, <3>3, <3>4
    <3>6. Sent(y) = Sent(t) /\ Now(y) = Now(t) /\ ~Raw(strip, y)
      BY <1>4, <2>1, <3>5 DEF Sent, Now, Raw, Alike
    <3>7. Answers(strip, y)
      BY <2>2, <3>5, <3>6 DEF Answers, Alike
    <3> QED
      BY <2>5, <3>1, <3>5, <3>7 DEF ParseFails, Return
  <2> QED
    BY <2>3, <2>4, <2>5
<1> QED
  BY <1>7, <1>8

-----------------------------------------------------------------------------
(* The invariant.                                                          *)

LEMMA EmptyEmit ==
  ASSUME NEW y \in ReqType, NEW k \in Kinds, NEW w \in Whys
  PROVE  /\ Emit(y, k, <<>>, w) \in ReqType
         /\ Emit(y, k, <<>>, w) = [y EXCEPT !.out = Emit(y, k, <<>>, w).out]
         /\ Sent(Emit(y, k, <<>>, w)) = Sent(y)
<1>1. PICK d \in Text : d = <<>>
  BY EmptyText
<1>2. Follows(y, d, Emit(y, k, d, w))
  BY SentEmit, Zenon
<1>3. /\ Sent(y) \in Text /\ Emit(y, k, d, w) \in ReqType
      /\ Emit(y, k, d, w) = [y EXCEPT !.out = Emit(y, k, d, w).out]
      /\ Sent(Emit(y, k, d, w)) = Sent(y) \o d
  BY <1>2 DEF Follows
<1> QED
  BY <1>1, <1>3, EmptyText

\* A frame that carries no text.
LEMMA EmptyFrame ==
  ASSUME NEW st \in BOOLEAN, NEW q \in ReqType, Answers(st, q), NEW y \in ReqType,
         NEW k \in Kinds,
         NEW w \in Whys,
         Alike(y, q), y.finishing = q.finishing, y.frozen = q.frozen,
         y.flushed => y.finishing, y.phase = "sent" => y.flushed,
         q.phase = "failed" => y.phase = "failed"
  PROVE  Emit(y, k, <<>>, w) \in ReqType /\ Answers(st, Emit(y, k, <<>>, w))
<1> DEFINE z == Emit(y, k, <<>>, w)
<1>1. /\ z \in ReqType /\ z = [y EXCEPT !.out = z.out] /\ Sent(z) = Sent(y)
  BY EmptyEmit
<1> HIDE DEF z
<1>2. Sent(y) = Sent(q)
  BY DEF Sent, Alike
<1>3. Sent(z) = Sent(q)
  BY <1>1, <1>2
<1>4. /\ z.text = q.text /\ z.format = q.format /\ z.emitted = q.emitted /\ z.at = q.at
      /\ z.finishing = q.finishing /\ z.frozen = q.frozen
      /\ z.flushed = y.flushed /\ z.phase = y.phase
  BY <1>1 DEF ReqType, Alike
<1>5. Now(z) = Now(q) /\ (Raw(st, z) <=> Raw(st, q))
  BY <1>4 DEF Now, Raw
<1>6. Answers(st, z)
  BY <1>1, <1>3, <1>4, <1>5 DEF Answers
<1> QED
  BY <1>1, <1>6 DEF z

\* A request that ends without another frame.
LEMMA NoFrame ==
  ASSUME NEW st \in BOOLEAN, NEW q \in ReqType, Answers(st, q), NEW y \in ReqType,
         Alike(y, q), y.finishing = q.finishing, y.frozen = q.frozen,
         y.flushed = q.flushed, y.phase # "sent", q.phase # "failed"
  PROVE  Answers(st, y)
<1>1. Sent(y) = Sent(q) /\ Now(y) = Now(q) /\ (Raw(st, y) <=> Raw(st, q))
  BY DEF Sent, Now, Raw, Alike
<1> QED
  BY <1>1 DEF Answers, Alike

LEMMA OneRequest ==
  ASSUME IInv, NEW r \in Request, NEW y \in ReqType, Answers(strip, y),
         req' = [req EXCEPT ![r] = y], UNCHANGED strip
  PROVE  IInv'
BY DEF IInv

\* A request that did not arrive has received nothing.
LEMMA NothingSent ==
  ASSUME NEW st \in BOOLEAN, NEW y \in ReqType,
         y.text = <<>>, y.out = <<>>, y.emitted = <<>>, ~y.finishing, ~y.flushed,
         y.phase # "sent"
  PROVE  Answers(st, y)
<1>1. Sent(y) = Sends(<<>>)
  BY DEF Sent, Sends, DeltasOf
<1>2. Sends(<<>>) = <<>>
  BY DEF Sends, DeltasOf, FlattenSeq
<1> QED
  BY <1>1, <1>2 DEF Answers, SentOf

LEMMA NewType ==
  New \in ReqType /\ New.text = <<>> /\ New.out = <<>> /\ New.emitted = <<>>
  /\ ~New.finishing /\ ~New.flushed /\ New.phase = "idle"
<1>1. <<>> \in Text /\ <<>> \in Seq(FrameType)
  BY EmptyText
<1> QED
  BY <1>1 DEF New, ReqType, Phases, Format

LEMMA InitAnswers == Init => IInv
<1> SUFFICES ASSUME Init PROVE IInv
  OBVIOUS
<1>1. strip \in BOOLEAN /\ req = [r \in Request |-> New]
  BY DEF Init
<1>2. Answers(strip, New)
  BY <1>1, NewType, NothingSent
<1> QED
  BY <1>1, <1>2, NewType DEF IInv

\* A request that arrives.  Until then it has received nothing.
LEMMA ArriveAnswers ==
  ASSUME ServerAssumption, IInv, NEW r \in Request, NEW len \in Prompts, Arrive(r, len)
  PROVE  IInv'
<1>1. PICK q \in ReqType : q = req[r] /\ Answers(strip, q)
  BY DEF IInv
<1>2. UNCHANGED strip /\ strip \in BOOLEAN
  BY DEF IInv, Arrive, Refuse, Open, Block
<1>3. ASSUME NEW ph \in {"refused", "answered"}, q.phase = "idle",
             req' = [req EXCEPT ![r].phase = ph]
      PROVE  IInv'
  <2>1. PICK y : y = [q EXCEPT !.phase = ph]
    OBVIOUS
  <2>2. /\ y \in ReqType /\ Alike(y, q) /\ y.finishing = q.finishing
        /\ y.frozen = q.frozen /\ y.flushed = q.flushed /\ y.phase # "sent"
    BY <2>1 DEF ReqType, Phases, Alike
  <2>3. Answers(strip, y)
    BY <1>1, <1>2, <1>3, <2>2, NoFrame
  <2>4. req' = [req EXCEPT ![r] = y]
    BY <1>1, <1>3, <2>1
  <2> QED
    BY <1>2, <2>2, <2>3, <2>4, OneRequest
<1>4. ASSUME NEW format \in Offers[r], Open(r, len, format) PROVE IInv'
  <2>1. PICK y : y = [New EXCEPT !.phase = "open", !.left = MaxTokens[r],
                                 !.format = format]
    OBVIOUS
  <2>2. format \in Format /\ MaxTokens[r] \in Int
    BY DEF ServerAssumption
  <2>3. /\ y \in ReqType /\ y.text = <<>> /\ y.out = <<>> /\ y.emitted = <<>>
        /\ ~y.finishing /\ ~y.flushed /\ y.phase # "sent"
    BY <2>1, <2>2, NewType DEF ReqType, Phases
  <2>4. req' = [req EXCEPT ![r] = y]
    BY <1>4, <2>1 DEF Open
  <2> QED
    BY <1>2, <2>3, <2>4, NothingSent, OneRequest
<1> QED
  BY <1>1, <1>3, <1>4 DEF Arrive, Refuse, Block

LEMMA GeneratorAnswers ==
  ASSUME ServerAssumption, IInv, NEW r \in Request, Generator(r)
  PROVE  IInv'
<1>1. PICK q \in ReqType : q = req[r] /\ Answers(strip, q)
  BY DEF IInv
<1>2. UNCHANGED strip /\ strip \in BOOLEAN /\ q.phase = "open"
  BY <1>1 DEF IInv, Generator, SendRole, TakeToken, FailToken, EndTokens, SendFinish,
              SendDone, Sampling, Calls
<1>3. ASSUME NEW y \in ReqType, NEW k \in Kinds,
             NEW w \in Whys,
             Return(r, Emit(y, k, <<>>, w)),
             Alike(y, q), y.finishing = q.finishing, y.frozen = q.frozen,
             y.flushed => y.finishing, y.phase = "sent" => y.flushed
      PROVE  IInv'
  <2>1. PICK z : z = Emit(y, k, <<>>, w)
    OBVIOUS
  <2>2. z \in ReqType /\ Answers(strip, z)
    BY <1>1, <1>2, <1>3, <2>1, EmptyFrame
  <2>3. req' = [req EXCEPT ![r] = z]
    BY <1>3, <2>1 DEF Return
  <2> QED
    BY <1>2, <2>2, <2>3, OneRequest
<1>4. CASE SendRole(r)
  <2>1. PICK y : y = [q EXCEPT !.role = TRUE]
    OBVIOUS
  <2>2. /\ y \in ReqType /\ Alike(y, q) /\ y.finishing = q.finishing
        /\ y.frozen = q.frozen /\ y.flushed = q.flushed /\ y.phase = q.phase
    BY <2>1 DEF ReqType, Alike
  <2>3. Return(r, Emit(y, "role", <<>>, ""))
    BY <1>1, <1>4, <2>1 DEF SendRole
  <2> QED
    BY <1>1, <1>2, <1>3, <2>2, <2>3, KindsAndWhys DEF Answers
<1>5. CASE TakeToken(r)
  <2>1. PICK token \in Says[r] : UseChunk(r, Taken(q, token), Chunk(q.buf, token))
    BY <1>1, <1>5 DEF TakeToken
  <2>2. token \in Text \cup {Half}
    BY DEF ServerAssumption
  <2>3. ~q.finishing
    BY <1>1, <1>5 DEF TakeToken, Sampling
  <2>4. \E y \in ReqType : req' = [req EXCEPT ![r] = y] /\ Answers(strip, y)
    BY <1>1, <1>2, <2>1, <2>2, <2>3, TokenAnswers
  <2> QED
    BY <1>2, <2>4, OneRequest
<1>6. CASE FailToken(r)
  <2>1. PICK y : y = [q EXCEPT !.left = q.left - 1, !.done = TRUE, !.phase = "failed"]
    OBVIOUS
  <2>2. q.left - 1 \in Int
    BY DEF ReqType
  <2>3. /\ y \in ReqType /\ Alike(y, q) /\ y.finishing = q.finishing
        /\ y.frozen = q.frozen /\ y.flushed = q.flushed /\ y.phase # "sent"
    BY <2>1, <2>2 DEF ReqType, Phases, Alike
  <2>4. Answers(strip, y)
    BY <1>1, <1>2, <2>3, NoFrame
  <2>5. req' = [req EXCEPT ![r] = y]
    BY <1>1, <1>6, <2>1 DEF FailToken, Return
  <2> QED
    BY <1>2, <2>3, <2>4, <2>5, OneRequest
<1>7. CASE EndTokens(r)
  <2>1. PICK t : /\ t = [GenEnd(req[r]) EXCEPT !.finishing = TRUE]
                 /\ Flush(r, t) \/ ParseFails(r, t)
    BY <1>7 DEF EndTokens
  <2>2. ~req[r].finishing
    BY <1>7 DEF EndTokens
  <2>3. \E y \in ReqType : req' = [req EXCEPT ![r] = y] /\ Answers(strip, y)
    BY <1>1, <1>2, <2>1, <2>2, EndAnswers
  <2> QED
    BY <1>2, <2>3, OneRequest
<1>8. CASE SendFinish(r)
  <2>1. PICK y : y = [q EXCEPT !.flushed = TRUE]
    OBVIOUS
  <2>2. q.finishing
    BY <1>1, <1>8 DEF SendFinish
  <2>3. /\ y \in ReqType /\ Alike(y, q) /\ y.finishing = q.finishing
        /\ y.frozen = q.frozen /\ y.phase = q.phase
    BY <2>1 DEF ReqType, Alike
  <2>4. PICK w \in Whys : w = FinishReason(r)
    BY KindsAndWhys DEF FinishReason
  <2>5. Return(r, Emit(y, "finish", <<>>, w))
    BY <1>1, <1>8, <2>1, <2>4 DEF SendFinish
  <2> QED
    BY <1>2, <1>3, <2>2, <2>3, <2>5, KindsAndWhys
<1>9. CASE SendDone(r)
  <2>1. PICK y : y = [q EXCEPT !.phase = "sent"]
    OBVIOUS
  <2>2. q.flushed
    BY <1>1, <1>9 DEF SendDone
  <2>3. /\ y \in ReqType /\ Alike(y, q) /\ y.finishing = q.finishing
        /\ y.frozen = q.frozen /\ y.flushed = q.flushed
    BY <2>1 DEF ReqType, Phases, Alike
  <2>4. Return(r, Emit(y, "done", <<>>, ""))
    BY <1>1, <1>9, <2>1 DEF SendDone
  <2> QED
    BY <1>1, <1>3, <2>2, <2>3, <2>4, KindsAndWhys DEF Answers
<1> QED
  BY <1>4, <1>5, <1>6, <1>7, <1>8, <1>9 DEF Generator

LEMMA CancelAnswers ==
  ASSUME IInv, NEW r \in Request, Cancel(r)
  PROVE  IInv'
<1>1. PICK q \in ReqType : q = req[r] /\ Answers(strip, q)
  BY DEF IInv
<1>2. PICK y : y = [q EXCEPT !.phase = "cancelled", !.done = TRUE, !.buf = FALSE]
  OBVIOUS
<1>3. /\ y \in ReqType /\ Alike(y, q) /\ y.finishing = q.finishing
      /\ y.frozen = q.frozen /\ y.flushed = q.flushed /\ y.phase # "sent"
  BY <1>2 DEF ReqType, Phases, Alike
<1>4. Answers(strip, y)
  <2>1. q.phase # "failed" /\ strip \in BOOLEAN
    BY <1>1 DEF Cancel, IInv
  <2> QED
    BY <1>1, <1>3, <2>1, NoFrame
<1>5. req' = [req EXCEPT ![r] = y] /\ UNCHANGED strip
  BY <1>1, <1>2 DEF Cancel, Return
<1> QED
  BY <1>3, <1>4, <1>5, OneRequest

LEMMA NextAnswers == ServerAssumption /\ IInv /\ [Next]_vars => IInv'
<1> SUFFICES ASSUME ServerAssumption, IInv, [Next]_vars PROVE IInv'
  OBVIOUS
<1>1. CASE UNCHANGED vars
  BY <1>1 DEF IInv, vars
<1>2. CASE Next
  BY <1>2, ArriveAnswers, GeneratorAnswers, CancelAnswers DEF Next
<1> QED
  BY <1>1, <1>2

\* What was sent of a request is its text, or what is shown of a beginning of its
\* content; once it ends, all of that unless a tool call stopped the text, the last
\* parse failed, or the content is not regular.
THEOREM AnswersInvariance == Spec => []IInv
  BY InitAnswers, NextAnswers, ServerAssumption, PTL DEF Spec

\* What was sent is the beginning of the answer at any time, in the partial parses
\* and in the final one, as long as the content is regular (Kept).
THEOREM SendsAnswerCorrect == Spec => []SendsAnswer
<1>1. IInv => SendsAnswer
  <2> SUFFICES ASSUME IInv, NEW r \in Request, Kept(req[r])
               PROVE  IsPrefix(Sent(req[r]), Answer(req[r]))
    BY DEF SendsAnswer
  <2>1. PICK q \in ReqType : q = req[r] /\ Answers(strip, q)
    BY DEF IInv
  <2>2. strip \in BOOLEAN /\ q.text \in Text /\ q.emitted \in Text /\ Now(q) \in Text
    BY NowType DEF IInv, ReqType
  <2>3. Answer(q) = Shown(strip, Now(q)) /\ Regular(strip, Now(q), q.at)
    BY <2>1 DEF Answer, Parsed, ContentOf, Now, Kept
  <2>4. CASE Raw(strip, q)
    <3>1. Shown(strip, Now(q)) = q.text /\ Sent(q) = q.text
      BY <2>1, <2>4
         DEF Raw, Answers, Now, Shown, Content, FinalContent, PartialContent
    <3>2. IsPrefix(q.text, q.text)
      BY <2>2, PrefixBegins DEF Begins, Text
    <3> QED
      BY <2>1, <2>3, <3>1, <3>2
  <2>5. CASE ~Raw(strip, q)
    <3>1. Sent(q) = q.emitted /\ SentOf(strip, Now(q), q.at, q.emitted)
      BY <2>1, <2>5 DEF Answers
    <3> QED
      BY <2>1, <2>2, <2>3, <3>1, SentOfBegins
  <2> QED
    BY <2>4, <2>5
<1> QED
  BY <1>1, AnswersInvariance, PTL

\* A complete stream reassembles into the answer a blocking request gets, unless a
\* tool call stopped the text or the content is not regular.
THEOREM StreamReassemblesCorrect == Spec => []StreamReassembles
<1>1. IInv => StreamReassembles
  <2> SUFFICES ASSUME IInv, NEW r \in Request, req[r].phase = "sent", Kept(req[r]),
                      ~req[r].frozen
               PROVE  Sent(req[r]) = Answer(req[r])
    BY DEF StreamReassembles
  <2>1. PICK q \in ReqType : q = req[r] /\ Answers(strip, q)
    BY DEF IInv
  <2>2. q.finishing /\ q.phase # "failed" /\ Regular(strip, Now(q), q.at)
    BY <2>1 DEF Answers, Kept, ContentOf, Now
  <2>3. Answer(q) = Shown(strip, Now(q))
    BY DEF Answer, Parsed, ContentOf, Now
  <2> QED
    BY <2>1, <2>2, <2>3 DEF Answers
<1> QED
  BY <1>1, AnswersInvariance, PTL
=============================================================================
