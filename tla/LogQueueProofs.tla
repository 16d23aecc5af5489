--------------------------- MODULE LogQueueProofs ---------------------------
(***************************************************************************)
(* The log prints in order and pause() flushes it, for every capacity of   *)
(* the ring and every number of messages and calls.                        *)
(*                                                                         *)
(* The invariant accounts for every accepted message: it is printed, or in *)
(* the worker's hand, or in the ring, in this order.  While pause() waits, *)
(* the last entry of the ring is the end mark, unless that mark has filled *)
(* the ring: then the ring looks empty, the worker finishes the message it *)
(* has and never leaves its loop, and nothing more is printed.             *)
(***************************************************************************)
EXTENDS LogQueue, TLAPS

Live == worker \in {"wait", "print"}

TypeOK ==
  /\ entries \in Seq(Entry) /\ size > 0
  /\ head \in 0 .. size - 1
  /\ tail \in 0 .. size - 1
  /\ running \in BOOLEAN
  /\ worker \in {"wait", "print", "exited", "off"}
  /\ cur \in Entry
  /\ control \in {"idle", "joining", "paused", "closed"}
  /\ request \in Request
  /\ file \in File
  /\ adds \in 0 .. MaxAdds
  /\ pauses \in 0 .. MaxPauses
  /\ accepted \in Seq(Entry \X File)
  /\ printed \in Seq(Entry \X File)

\* Who is alive when: the worker runs while the log does and until it has met
\* the end mark, and the file is closed only with the worker gone.
Modes ==
  /\ running => control = "idle" /\ Live
  /\ control = "joining" => ~running /\ worker # "off"
  /\ control \in {"paused", "closed"} => ~running
  /\ control # "joining" /\ ~running => worker = "off"
  /\ file = Closed => control = "closed"

\* The length of the ring, and the place of the k-th entry after head.
Queued == IF head <= tail THEN tail - head ELSE size + tail - head
Slot(k) == IF head + k < size THEN head + k + 1 ELSE head + k - size + 1

\* The messages of the ring: all its entries, but for the end mark.
Pending == IF running THEN Queued ELSE Queued - 1
InHand  == IF worker = "print" THEN 1 ELSE 0

\* The place in `accepted' of the first message of the ring.
First == Len(printed) + InHand + 1

Order ==
  /\ Len(printed) <= Len(accepted)
  /\ \A i \in 1 .. Len(printed) : printed[i] = accepted[i]
  /\ \A i \in 1 .. Len(accepted) : accepted[i][1] # EndMark
  /\ ~Live => head = tail /\ printed = accepted

\* What is accepted and not yet printed was accepted for the present file.
Fresh ==
  Live => \A i \in Len(printed) + 1 .. Len(accepted) : accepted[i][2] = file

InWorker ==
  worker = "print" =>
    Len(printed) < Len(accepted) /\ accepted[Len(printed) + 1] = <<cur, file>>

InRing ==
  Live =>
    /\ running \/ head # tail => First + Pending = Len(accepted) + 1
    /\ \A k \in 0 .. Pending - 1 : entries[Slot(k)] = accepted[First + k][1]
    /\ ~running /\ head # tail => entries[Slot(Pending)] = EndMark

IInv == TypeOK /\ Modes /\ Order /\ Fresh /\ InWorker /\ InRing

-----------------------------------------------------------------------------
(* The ring.                                                               *)

\* The places of the ring are those of the array of entries.
LEMMA SlotType ==
  ASSUME TypeOK
  PROVE  /\ size \in Nat \ {0}
         /\ Queued \in 0 .. size - 1
         /\ \A k \in 0 .. size - 1 : Slot(k) \in 1 .. size
         /\ Slot(Queued) = tail + 1
  BY DEF TypeOK, size, Queued, Slot

\* A message written at tail leaves the ring as it was, one entry longer.
LEMMA EnqueueRing ==
  ASSUME TypeOK, NEW m \in Entry, Enqueue(m)
  PROVE  /\ entries' \in Seq(Entry) /\ size' > 0
         /\ head' \in 0 .. size' - 1
         /\ tail' \in 0 .. size' - 1
         /\ head' # tail'
         /\ Queued' = Queued + 1
         /\ \A k \in 0 .. Queued :
               entries'[Slot(k)'] = IF k = Queued THEN m ELSE entries[Slot(k)]
<1> DEFINE ents == [entries EXCEPT ![tail + 1] = m]
           next == (tail + 1) % size
<1>1. /\ size \in Nat \ {0}
      /\ head \in 0 .. size - 1 /\ tail \in 0 .. size - 1
  BY DEF TypeOK, size
<1>2. next = IF tail + 1 < size THEN tail + 1 ELSE 0
  BY <1>1, SMT
<1>3. ents \in Seq(Entry) /\ Len(ents) = size /\ DOMAIN ents = 1 .. size
  BY <1>1 DEF TypeOK, size
<1>4. \A i \in 1 .. size : ents[i] = IF i = tail + 1 THEN m ELSE entries[i]
  BY <1>1 DEF TypeOK, size
<1>5. CASE next # head
  <2>1. entries' = ents /\ tail' = next /\ head' = head /\ size' = size
    BY <1>3, <1>5 DEF Enqueue, size
  <2>2. Queued' = Queued + 1
    BY <1>1, <1>2, <1>5, <2>1 DEF Queued
  <2>3. \A k \in 0 .. size - 1 : Slot(k)' = Slot(k)
    BY <2>1 DEF Slot
  <2> HIDE DEF ents, next
  <2>4. head' # tail' /\ tail' \in 0 .. size - 1
    BY <1>1, <1>2, <1>5, <2>1
  <2>5. Queued \in 0 .. size - 1 /\ Slot(Queued) = tail + 1
    BY SlotType
  <2>6. \A k \in 0 .. Queued - 1 : Slot(k) \in 1 .. size /\ Slot(k) # tail + 1
    BY <1>1 DEF Slot, Queued
  <2>7. \A k \in 0 .. Queued - 1 : entries'[Slot(k)'] = entries[Slot(k)]
    BY <1>1, <1>4, <2>1, <2>3, <2>5, <2>6
  <2>8. \A k \in 0 .. size - 1 : k = Queued => entries'[Slot(k)'] = m
    BY <1>1, <1>4, <2>1, <2>3, <2>5
  <2> QED
    BY <1>1, <1>3, <2>1, <2>2, <2>4, <2>5, <2>7, <2>8
<1>6. CASE next = head
  <2>1. entries' = Expand(ents, head) /\ head' = 0 /\ tail' = size
    BY <1>6 DEF Enqueue
  <2>2. \A i \in 1 .. size : ((head + i - 1) % size) + 1 = Slot(i - 1)
    <3> TAKE i \in 1 .. size
    <3>1. (head + i - 1) % size =
            IF head + i - 1 < size THEN head + i - 1 ELSE head + i - 1 - size
      BY <1>1, SMT
    <3> QED
      BY <1>1, <3>1 DEF Slot
  <2> HIDE DEF ents, next
  <2>3. /\ entries' \in Seq(Entry) /\ size' = 2 * size
        /\ \A i \in 1 .. size : entries'[i] = ents[Slot(i - 1)]
    <3>1. \A i \in 1 .. size : Slot(i - 1) \in 1 .. size
      BY <1>1 DEF Slot
    <3>2. Expand(ents, head) =
            [i \in 1 .. 2 * size |->
               IF i <= size THEN ents[((head + i - 1) % size) + 1] ELSE EndMark]
      BY <1>3 DEF Expand
    <3>3. \A i \in 1 .. 2 * size : Expand(ents, head)[i] =
            IF i <= size THEN ents[Slot(i - 1)] ELSE EndMark
      BY <1>1, <2>2, <3>2
    <3>4. \A i \in 1 .. 2 * size : Expand(ents, head)[i] \in Entry
      <4>1. EndMark \in Entry
        BY LogAssumption DEF Entry, EndMark
      <4>2. \A i \in 1 .. size : ents[Slot(i - 1)] \in Entry
        BY <1>1, <1>3, <3>1
      <4> QED
        BY <1>1, <3>3, <4>1, <4>2
    <3>5. Expand(ents, head) \in Seq(Entry) /\ Len(Expand(ents, head)) = 2 * size
      BY <1>1, <3>2, <3>4
    <3> QED
      BY <1>1, <2>1, <3>3, <3>5 DEF size
  <2>4. Queued = size - 1 /\ Queued' = size
    BY <1>1, <1>2, <1>6, <2>1, <2>3 DEF Queued
  <2>5. \A k \in 0 .. size - 1 : Slot(k)' = k + 1
    BY <1>1, <2>1, <2>3 DEF Slot
  <2>6. \A k \in 0 .. size - 2 : Slot(k) # tail + 1
    BY <1>1, <1>2, <1>6 DEF Slot
  <2>7. Slot(size - 1) = tail + 1
    BY <1>1, <1>2, <1>6 DEF Slot
  <2>8. \A k \in 0 .. size - 1 : entries'[Slot(k)'] = ents[Slot(k)]
    BY <1>1, <2>3, <2>5
  <2>9. \A k \in 0 .. size - 1 : Slot(k) \in 1 .. size
    BY <1>1 DEF Slot
  <2>10. \A k \in 0 .. Queued - 1 : entries'[Slot(k)'] = entries[Slot(k)]
    BY <1>1, <1>4, <2>4, <2>6, <2>8, <2>9
  <2>11. \A k \in 0 .. size - 1 : k = Queued => entries'[Slot(k)'] = m
    BY <1>1, <1>4, <2>4, <2>7, <2>8, <2>9
  <2> QED
    BY <1>1, <2>1, <2>3, <2>4, <2>10, <2>11
<1> QED
  BY <1>5, <1>6

-----------------------------------------------------------------------------
(* The invariant.                                                          *)

LEMMA InitIInv == Init => IInv
<1> SUFFICES ASSUME Init PROVE IInv
  OBVIOUS
<1>1. entries \in Seq(Entry) /\ size = Capacity
  BY LogAssumption DEF Init, size, Entry, EndMark
<1>2. TypeOK
  BY <1>1, LogAssumption DEF Init, TypeOK, Entry, EndMark, File, Request
<1>3. Modes
  BY DEF Init, Modes, Live, Closed
<1>4. Order /\ Fresh /\ InWorker
  BY DEF Init, Order, Fresh, InWorker, Live
<1>5. InRing
  BY DEF Init, InRing, Live, Pending, Queued, First, InHand
<1> QED
  BY <1>2, <1>3, <1>4, <1>5 DEF IInv

LEMMA AddIInv == IInv /\ Add => IInv'
<1> SUFFICES ASSUME IInv, Add PROVE IInv'
  OBVIOUS
<1> DEFINE m == adds + 1
<1>0. TypeOK /\ Modes /\ Order /\ Fresh /\ InWorker /\ InRing
  BY DEF IInv
<1>1. m \in Entry /\ m # EndMark /\ adds' \in 0 .. MaxAdds
  BY <1>0, LogAssumption DEF Add, TypeOK, Entry, EndMark
<1>2. Enqueue(m) /\ accepted' = Append(accepted, <<m, file>>) /\ running
  BY DEF Add
<1> HIDE DEF m
<1>3. /\ entries' \in Seq(Entry) /\ size' > 0
      /\ head' \in 0 .. size' - 1
      /\ tail' \in 0 .. size' - 1
      /\ head' # tail'
      /\ Queued' = Queued + 1
      /\ \A k \in 0 .. Queued :
            entries'[Slot(k)'] = IF k = Queued THEN m ELSE entries[Slot(k)]
  BY <1>0, <1>1, <1>2, EnqueueRing
<1>4. Queued \in Nat
  BY <1>0, SlotType
<1>5. /\ accepted' \in Seq(Entry \X File)
      /\ Len(accepted') = Len(accepted) + 1
      /\ \A i \in 1 .. Len(accepted) : accepted'[i] = accepted[i]
      /\ accepted'[Len(accepted) + 1] = <<m, file>>
  BY <1>0, <1>1, <1>2 DEF TypeOK
<1>6. Len(accepted) \in Nat /\ Len(printed) \in Nat
  BY <1>0 DEF TypeOK
<1>7. UNCHANGED <<running, worker, cur, control, request, file, pauses, printed>>
  BY DEF Add
<1>8. Live /\ Live'
  BY <1>0, <1>2, <1>7 DEF Modes, Live
<1>9. TypeOK'
  BY <1>0, <1>1, <1>3, <1>5, <1>7 DEF TypeOK
<1>10. Modes'
  BY <1>0, <1>7 DEF Modes, Live
<1>11. Order'
  BY <1>0, <1>1, <1>5, <1>6, <1>7, <1>8, SMTT(30) DEF Order
<1>12. Fresh'
  BY <1>0, <1>5, <1>6, <1>7, <1>8 DEF Fresh
<1>13. InWorker'
  BY <1>0, <1>5, <1>6, <1>7 DEF InWorker
<1>14. InRing'
  <2>1. Pending = Queued /\ Pending' = Queued + 1
    BY <1>2, <1>3, <1>7 DEF Pending
  <2>2. First' = First /\ First \in Nat \ {0}
    BY <1>6, <1>7 DEF First, InHand
  <2>3. First + Queued = Len(accepted) + 1
    BY <1>0, <1>2, <1>8, <2>1 DEF InRing
  <2>4. \A k \in 0 .. Queued - 1 : entries[Slot(k)] = accepted[First + k][1]
    BY <1>0, <1>8, <2>1 DEF InRing
  <2>5. ASSUME NEW k \in 0 .. Queued
        PROVE  entries'[Slot(k)'] = accepted'[First + k][1]
    <3>1. CASE k = Queued
      BY <1>3, <1>4, <1>5, <2>3, <3>1
    <3>2. CASE k # Queued
      <4>1. First + k \in 1 .. Len(accepted) /\ k \in 0 .. Queued - 1
        BY <1>4, <1>6, <2>2, <2>3, <3>2
      <4> QED
        BY <1>3, <1>5, <2>4, <3>2, <4>1
    <3> QED
      BY <3>1, <3>2
  <2>6. First' + Pending' = Len(accepted') + 1
    BY <1>4, <1>5, <1>6, <2>1, <2>2, <2>3
  <2> QED
    BY <1>2, <1>4, <1>7, <2>1, <2>2, <2>5, <2>6 DEF InRing
<1> QED
  BY <1>9, <1>10, <1>11, <1>12, <1>13, <1>14 DEF IInv

LEMMA TakeIInv == IInv /\ Take => IInv'
<1> SUFFICES ASSUME IInv, Take PROVE IInv'
  OBVIOUS
<1>0. TypeOK /\ Modes /\ Order /\ Fresh /\ InWorker /\ InRing
  BY DEF IInv
<1>1. /\ worker = "wait" /\ head # tail
      /\ cur' = entries[head + 1]
      /\ head' = (head + 1) % size
      /\ worker' = IF cur' = EndMark THEN "exited" ELSE "print"
      /\ UNCHANGED <<entries, tail, running, control, request, file, adds,
                     pauses, accepted, printed>>
  BY DEF Take
<1>2. size \in Nat \ {0} /\ head \in 0 .. size - 1 /\ tail \in 0 .. size - 1
  BY <1>0, SlotType DEF TypeOK
<1>3. head' = IF head + 1 < size THEN head + 1 ELSE 0
  BY <1>1, <1>2, SMT
<1>4. size' = size
  BY <1>1 DEF size
<1>5. cur' \in Entry
  BY <1>0, <1>1, <1>2 DEF TypeOK, size
<1>6. Queued \in 1 .. size - 1 /\ Queued' = Queued - 1
  BY <1>1, <1>2, <1>3, <1>4 DEF Queued
<1>7. Slot(0) = head + 1
  BY <1>2 DEF Slot
<1>8. \A k \in 0 .. Queued - 1 : Slot(k)' = Slot(k + 1)
  BY <1>2, <1>3, <1>4, <1>6 DEF Slot
<1>9. Len(accepted) \in Nat /\ Len(printed) \in Nat
  BY <1>0 DEF TypeOK
<1>10. First = Len(printed) + 1
  BY <1>1, <1>9 DEF First, InHand
<1>11. First + Pending = Len(accepted) + 1
  BY <1>0, <1>1 DEF InRing, Live
<1>12. TypeOK'
  BY <1>0, <1>1, <1>2, <1>3, <1>4, <1>5 DEF TypeOK
<1>13. CASE Pending > 0
  <2>1. accepted[First][1] = cur'
    BY <1>0, <1>1, <1>7, <1>9, <1>10, <1>13, <1>6 DEF InRing, Live, Pending
  <2>2. First \in Len(printed) + 1 .. Len(accepted)
    BY <1>6, <1>9, <1>10, <1>11, <1>13 DEF Pending
  <2>3. cur' # EndMark
    BY <1>0, <1>9, <2>1, <2>2 DEF Order
  <2>4. worker' = "print"
    BY <1>1, <2>3
  <2>5. accepted[First] = <<cur', file>>
    <3>1. accepted[First] \in Entry \X File
      BY <1>0, <1>9, <2>2 DEF TypeOK
    <3>2. accepted[First][2] = file
      BY <1>0, <1>1, <2>2 DEF Fresh, Live
    <3> QED
      BY <2>1, <3>1, <3>2
  <2>6. Modes' /\ Order' /\ Fresh'
    BY <1>0, <1>1, <2>4 DEF Modes, Order, Fresh, Live
  <2>7. InWorker'
    BY <1>1, <1>9, <1>10, <2>2, <2>5 DEF InWorker
  <2>8. Pending' = Pending - 1 /\ First' = First + 1
    BY <1>1, <1>6, <1>9, <2>4 DEF Pending, First, InHand
  <2>9. Pending \in 1 .. Queued
    BY <1>6, <1>13 DEF Pending
  <2>10. First' + Pending' = Len(accepted') + 1
    BY <1>1, <1>9, <1>10, <1>11, <2>8, <2>9
  <2>11. \A k \in 0 .. Pending - 2 : entries'[Slot(k)'] = accepted'[First' + k][1]
    <3>1. \A k \in 0 .. Pending - 1 : entries[Slot(k)] = accepted[First + k][1]
      BY <1>0, <1>1 DEF InRing, Live
    <3>2. TAKE k \in 0 .. Pending - 2
    <3>3. k + 1 \in 0 .. Pending - 1 /\ k \in 0 .. Queued - 1 /\ First' + k = First + (k + 1)
      BY <1>6, <1>9, <1>10, <2>8, <2>9
    <3> QED
      BY <1>1, <1>8, <3>1, <3>3
  <2>12. ASSUME ~running PROVE (entries[Slot(Pending)])' = EndMark
    <3>1. Pending' \in 0 .. Queued - 1 /\ Pending' + 1 = Pending
      BY <1>6, <2>8, <2>9
    <3>2. entries[Slot(Pending)] = EndMark
      BY <1>0, <1>1, <2>12 DEF InRing, Live
    <3>3. \A k \in 0 .. Queued - 1 : k + 1 = Pending => entries'[Slot(k)'] = EndMark
      BY <1>1, <1>8, <3>2
    <3> QED
      BY <3>1, <3>3
  <2>13. InRing'
    <3>1. (First + Pending = Len(accepted) + 1)'
      BY <2>10
    <3>2. (\A k \in 0 .. Pending - 1 : entries[Slot(k)] = accepted[First + k][1])'
      BY <1>6, <2>8, <2>9, <2>11
    <3>3. (~running /\ head # tail => entries[Slot(Pending)] = EndMark)'
      BY <1>1, <2>12
    <3> QED
      BY <3>1, <3>2, <3>3 DEF InRing
  <2> QED
    BY <1>12, <2>6, <2>7, <2>13 DEF IInv
<1>14. CASE ~(Pending > 0)
  <2>1. Pending = 0 /\ Queued = 1 /\ ~running
    BY <1>6, <1>14 DEF Pending
  <2>2. entries[Slot(0)] = EndMark
    BY <1>0, <1>1, <2>1 DEF InRing, Live
  <2>3. cur' = EndMark /\ worker' = "exited"
    BY <1>1, <1>7, <2>2
  <2>4. head' = tail
    BY <1>1, <1>2, <1>3, <2>1 DEF Queued
  <2>5. Len(printed) = Len(accepted)
    BY <1>9, <1>10, <1>11, <2>1
  <2>6. printed = accepted
    BY <1>0, <2>5 DEF TypeOK, Order
  <2>7. Modes'
    BY <1>0, <1>1, <2>1, <2>3 DEF Modes, Live
  <2>8. Order'
    BY <1>0, <1>1, <2>4, <2>6 DEF Order
  <2>9. Fresh' /\ InWorker' /\ InRing'
    BY <2>3 DEF Fresh, InWorker, InRing, Live
  <2> QED
    BY <1>12, <2>7, <2>8, <2>9 DEF IInv
<1> QED
  BY <1>13, <1>14

LEMMA PrintIInv == IInv /\ PrintCur => IInv'
<1> SUFFICES ASSUME IInv, PrintCur PROVE IInv'
  OBVIOUS
<1>0. TypeOK /\ Modes /\ Order /\ Fresh /\ InWorker /\ InRing
  BY DEF IInv
<1>1. /\ worker = "print" /\ worker' = "wait"
      /\ printed' = Append(printed, <<cur, file>>)
      /\ UNCHANGED <<ring, running, cur, control, request, file, adds, pauses,
                     accepted>>
  BY DEF PrintCur
<1>2. UNCHANGED <<entries, head, tail, size>>
  BY <1>1 DEF ring, size
<1>3. Len(accepted) \in Nat /\ Len(printed) \in Nat
  BY <1>0 DEF TypeOK
<1>4. Len(printed) < Len(accepted) /\ accepted[Len(printed) + 1] = <<cur, file>>
  BY <1>0, <1>1 DEF InWorker
<1>5. /\ printed' \in Seq(Entry \X File)
      /\ Len(printed') = Len(printed) + 1
      /\ \A i \in 1 .. Len(printed) : printed'[i] = printed[i]
      /\ printed'[Len(printed) + 1] = <<cur, file>>
  BY <1>0, <1>1 DEF TypeOK
<1>6. TypeOK'
  BY <1>0, <1>1, <1>2, <1>5 DEF TypeOK
<1>7. Live /\ Live'
  BY <1>1 DEF Live
<1>8. Modes'
  BY <1>0, <1>1 DEF Modes, Live
<1>9. Order'
  BY <1>0, <1>1, <1>3, <1>4, <1>5, <1>7 DEF Order
<1>10. Fresh'
  BY <1>0, <1>1, <1>3, <1>5, <1>7 DEF Fresh
<1>11. InWorker'
  BY <1>1 DEF InWorker
<1>12. First' = First
  BY <1>1, <1>3, <1>5 DEF First, InHand
<1>13. InRing'
  BY <1>0, <1>1, <1>2, <1>7, <1>12 DEF InRing, Pending, Queued, Slot
<1> QED
  BY <1>6, <1>8, <1>9, <1>10, <1>11, <1>13 DEF IInv

\* The end mark becomes the last entry of the ring, or makes it look empty.
LEMMA PauseIInv ==
  ASSUME IInv, NEW r \in Request, Pause(r)
  PROVE  IInv'
<1>0. TypeOK /\ Modes /\ Order /\ Fresh /\ InWorker /\ InRing
  BY DEF IInv
<1>1. /\ control = "idle" /\ pauses' \in 0 .. MaxPauses /\ request' = r
      /\ UNCHANGED <<worker, cur, file, adds, accepted, printed>>
  BY <1>0, LogAssumption DEF Pause, TypeOK
<1>2. CASE running /\ running' = FALSE /\ PushEnd /\ control' = "joining"
  <2>1. /\ entries' = [entries EXCEPT ![tail + 1] = EndMark]
        /\ tail' = (tail + 1) % size
        /\ head' = head
    BY <1>2 DEF PushEnd
  <2>2. size \in Nat \ {0} /\ head \in 0 .. size - 1 /\ tail \in 0 .. size - 1
    BY <1>0, SlotType DEF TypeOK
  <2>3. tail' = IF tail + 1 < size THEN tail + 1 ELSE 0
    BY <2>1, <2>2, SMT
  <2>4. EndMark \in Entry
    BY LogAssumption DEF EndMark, Entry
  <2>5. entries' \in Seq(Entry) /\ size' = size
    BY <1>0, <2>1, <2>2, <2>4 DEF TypeOK, size
  <2>6. \A i \in 1 .. size :
          entries'[i] = IF i = tail + 1 THEN EndMark ELSE entries[i]
    BY <1>0, <2>1, <2>2 DEF TypeOK, size
  <2>7. TypeOK'
    <3>1. tail' \in 0 .. size' - 1 /\ head' \in 0 .. size' - 1 /\ size' > 0
      BY <2>1, <2>2, <2>3, <2>5
    <3> QED
      BY <1>0, <1>1, <1>2, <2>5, <3>1 DEF TypeOK
  <2>8. Live /\ Live'
    BY <1>0, <1>1, <1>2 DEF Modes, Live
  <2>9. Modes'
    BY <1>0, <1>1, <1>2, <2>8 DEF Modes, Live
  <2>10. Order' /\ Fresh' /\ InWorker'
    BY <1>0, <1>1, <2>8 DEF Order, Fresh, InWorker
  <2>11. InRing'
    <3>1. CASE tail' = head
      <4>1. Queued' = 0 /\ Pending' = -1
        BY <1>2, <2>1, <2>2, <2>5, <3>1 DEF Queued, Pending
      <4> QED
        BY <1>2, <2>1, <3>1, <4>1 DEF InRing
    <3>2. CASE tail' # head
      <4>1. Queued' = Queued + 1
        BY <2>1, <2>2, <2>3, <2>5, <3>2 DEF Queued
      <4>2. Queued \in 0 .. size - 1 /\ Slot(Queued) = tail + 1
        BY <1>0, SlotType
      <4>3. Pending = Queued /\ Pending' = Queued
        BY <1>2, <4>1, <4>2 DEF Pending
      <4>4. \A k \in 0 .. size - 1 : Slot(k)' = Slot(k)
        BY <2>1, <2>5 DEF Slot
      <4>5. \A k \in 0 .. Queued - 1 : Slot(k) \in 1 .. size /\ Slot(k) # tail + 1
        BY <2>2 DEF Slot, Queued
      <4>6. \A k \in 0 .. Queued - 1 : entries'[Slot(k)'] = entries[Slot(k)]
        BY <2>2, <2>6, <4>2, <4>4, <4>5
      <4>7. \A k \in 0 .. size - 1 : k = Queued => entries'[Slot(k)'] = EndMark
        BY <2>2, <2>6, <4>2, <4>4
      <4>8. First' = First
        BY <1>1 DEF First, InHand
      <4>9. First + Pending = Len(accepted) + 1
        BY <1>0, <1>2, <2>8 DEF InRing
      <4>10. \A k \in 0 .. Pending - 1 : entries[Slot(k)] = accepted[First + k][1]
        BY <1>0, <2>8 DEF InRing
      <4> QED
        BY <1>1, <4>2, <4>3, <4>6, <4>7, <4>8, <4>9, <4>10 DEF InRing
    <3> QED
      BY <3>1, <3>2
  <2> QED
    BY <2>7, <2>9, <2>10, <2>11 DEF IInv
<1>3. CASE ~running /\ control' = "paused" /\ UNCHANGED <<ring, running>>
  <2>1. UNCHANGED <<entries, head, tail, size, running>>
    BY <1>3 DEF ring, size
  <2>2. TypeOK'
    BY <1>0, <1>1, <1>3, <2>1 DEF TypeOK
  <2>3. worker = "off"
    BY <1>0, <1>1, <1>3 DEF Modes
  <2>4. ~Live /\ ~Live'
    BY <1>1, <2>3 DEF Live
  <2>5. Modes'
    BY <1>0, <1>1, <1>3, <2>3 DEF Modes, Live
  <2>6. Order' /\ Fresh' /\ InWorker' /\ InRing'
    BY <1>0, <1>1, <2>1, <2>3, <2>4 DEF Order, Fresh, InWorker, InRing
  <2> QED
    BY <2>2, <2>5, <2>6 DEF IInv
<1> QED
  BY <1>2, <1>3 DEF Pause

\* The other steps of the controller are taken with the worker gone.
LEMMA ControlIInv ==
  IInv /\ (Discard \/ Join \/ Rest \/ CloseFile \/ OpenFile \/ Resume) => IInv'
<1> SUFFICES ASSUME IInv, Discard \/ Join \/ Rest \/ CloseFile \/ OpenFile \/ Resume
             PROVE  IInv'
  OBVIOUS
<1>0. TypeOK /\ Modes /\ Order /\ Fresh /\ InWorker /\ InRing
  BY DEF IInv
<1>1. UNCHANGED <<entries, head, tail, size, cur, request, pauses, accepted, printed>>
  BY DEF Discard, Join, Rest, CloseFile, OpenFile, Resume, ring, size
<1>2. TypeOK'
  <2>1. Closed \in File /\ pauses + 1 \in File
    BY <1>0, LogAssumption DEF TypeOK, Closed, File
  <2>2. /\ running' \in BOOLEAN /\ file' \in File
        /\ worker' \in {"wait", "print", "exited", "off"}
        /\ control' \in {"idle", "joining", "paused", "closed"}
    BY <1>0, <2>1
    DEF TypeOK, Discard, Join, Rest, CloseFile, OpenFile, Resume
  <2>3. request' = request /\ adds' \in 0 .. MaxAdds
    BY <1>0, LogAssumption
    DEF TypeOK, Discard, Join, Rest, CloseFile, OpenFile, Resume
  <2> QED
    BY <1>0, <1>1, <2>2, <2>3 DEF TypeOK
<1>3. CASE Discard
  <2>1. UNCHANGED <<worker, running, control, file>>
    BY <1>3 DEF Discard
  <2> QED
    BY <1>0, <1>1, <1>2, <2>1
    DEF IInv, Modes, Order, Fresh, InWorker, InRing, Live, Pending, Queued,
        Slot, First, InHand
<1>4. CASE Join \/ Rest \/ CloseFile \/ OpenFile
  <2>1. worker \in {"exited", "off"} /\ worker' = "off"
    BY <1>0, <1>4 DEF Join, Rest, CloseFile, OpenFile, Modes
  <2>2. ~Live /\ ~Live'
    BY <2>1 DEF Live
  <2>3. Modes'
    BY <1>0, <1>4, LogAssumption
    DEF Modes, Live, Join, Rest, CloseFile, OpenFile, Closed, TypeOK
  <2>4. Order' /\ Fresh' /\ InWorker' /\ InRing'
    BY <1>0, <1>1, <2>1, <2>2 DEF Order, Fresh, InWorker, InRing
  <2> QED
    BY <1>2, <2>3, <2>4 DEF IInv
<1>5. CASE Resume
  <2>1. /\ ~running /\ running' /\ worker' = "wait" /\ control' = "idle"
        /\ control # "joining" /\ file' = file
        /\ control = "closed" => file # Closed
    BY <1>5 DEF Resume
  <2>2. worker = "off" /\ head = tail /\ printed = accepted
    BY <1>0, <2>1 DEF Modes, Order, Live
  <2>3. Modes'
    BY <1>0, <2>1 DEF Modes, Live
  <2>4. Order' /\ Fresh' /\ InWorker'
    BY <1>0, <1>1, <2>1, <2>2 DEF Order, Fresh, InWorker, Live, TypeOK
  <2>5. InRing'
    <3>1. Queued' = 0 /\ Pending' = 0 /\ First' = Len(accepted) + 1
      BY <1>0, <1>1, <2>1, <2>2 DEF TypeOK, Queued, Pending, First, InHand
    <3> QED
      BY <1>0, <1>1, <2>1, <3>1 DEF InRing, TypeOK
  <2> QED
    BY <1>2, <2>3, <2>4, <2>5 DEF IInv
<1> QED
  BY <1>3, <1>4, <1>5

LEMMA NextIInv == IInv /\ [Next]_vars => IInv'
<1> SUFFICES ASSUME IInv, [Next]_vars PROVE IInv'
  OBVIOUS
<1>1. CASE Add
  BY <1>1, AddIInv
<1>2. CASE Take
  BY <1>2, TakeIInv
<1>3. CASE PrintCur
  BY <1>3, PrintIInv
<1>4. CASE \E r \in Request : Pause(r)
  BY <1>4, PauseIInv
<1>5. CASE Discard \/ Join \/ Rest \/ CloseFile \/ OpenFile \/ Resume
  BY <1>5, ControlIInv
<1>6. CASE UNCHANGED vars
  <2>1. UNCHANGED <<entries, head, tail, size, running, worker, cur, control,
                    request, file, adds, pauses, accepted, printed>>
    BY <1>6 DEF vars, size
  <2> QED
    BY <2>1 DEF IInv, TypeOK, Modes, Order, Fresh, InWorker, InRing, Live,
                Pending, Queued, Slot, First, InHand
<1> QED
  BY <1>1, <1>2, <1>3, <1>4, <1>5, <1>6 DEF Next

\* The ring, the worker and the controller stay in the states described above.
THEOREM Invariance == Spec => []IInv
  BY InitIInv, NextIInv, PTL DEF Spec

\* What the log has printed is a prefix of what it has accepted, each message
\* to the file that was set when it was logged, whatever the ring grows to and
\* however often the log is paused, flushed and redirected.
THEOREM FileInOrderCorrect == Spec => []FileInOrder
<1>1. IInv => FileInOrder
  <2> SUFFICES ASSUME IInv PROVE FileInOrder
    OBVIOUS
  <2>1. /\ printed \in Seq(Entry \X File) /\ accepted \in Seq(Entry \X File)
        /\ Len(printed) <= Len(accepted)
        /\ \A i \in 1 .. Len(printed) : printed[i] = accepted[i]
    BY DEF IInv, TypeOK, Order
  <2>2. SubSeq(printed, 1, Len(printed)) = SubSeq(accepted, 1, Len(printed))
    BY <2>1
  <2> QED
    BY <2>1, <2>2 DEF FileInOrder, IsPrefix
<1> QED
  BY <1>1, Invariance, PTL

\* A worker that has left its loop, and so a pause() that returned, has printed
\* every message accepted before.
THEOREM PauseFlushesCorrect == Spec => []PauseFlushes
<1>1. IInv => PauseFlushes
  BY DEF IInv, Order, PauseFlushes, Live
<1> QED
  BY <1>1, Invariance, PTL
=============================================================================
