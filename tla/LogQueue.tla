------------------------------ MODULE LogQueue ------------------------------
(***************************************************************************)
(* The asynchronous log: struct common_log of src/src/log.cpp.  Any thread *)
(* adds messages to a ring buffer under a mutex; a worker thread takes     *)
(* them out under the mutex and prints them outside of it.  One controller *)
(* thread (the header calls these functions not thread-safe) pauses,       *)
(* resumes, flushes and redirects the log to another file.                 *)
(*                                                                         *)
(* A message is the number of the call of add() that brought it.  An entry *)
(* of the ring is a message, or EndMark for the entry by which pause()     *)
(* asks the worker to stop.  The history variables `accepted' and          *)
(* `printed' pair each message with the file the log had at that moment.   *)
(***************************************************************************)
EXTENDS Integers, Sequences, SequencesExt

CONSTANTS Capacity,  \* initial number of entries of the ring
          MaxAdds,   \* bound on the calls of add()
          MaxPauses  \* bound on the calls of pause(), flush() and set_file()

ASSUME LogAssumption ==
  /\ Capacity \in Nat \ {0}
  /\ MaxAdds \in Nat
  /\ MaxPauses \in Nat

EndMark == 0
Closed  == 0        \* the file between fclose() and fopen()
Entry   == 0 .. MaxAdds
File    == 0 .. MaxPauses + 1
Request == {"pause", "flush", "set_file"}

VARIABLES entries, head, tail,  \* the ring: entries[i] of the code is here
                                \* entries[i + 1]; all three under mtx
          running,              \* add() accepts messages
          worker,               \* "wait", "print", "exited", "off" (joined)
          cur,                  \* the entry the worker copied out
          control,              \* "idle", "joining", "paused", "closed"
          request,              \* what the controller is doing
          file,                 \* the file the worker prints to
          adds, pauses,         \* counters, for the bounds only
          accepted, printed

ring == <<entries, head, tail>>
vars == <<entries, head, tail, running, worker, cur, control, request, file,
          adds, pauses, accepted, printed>>

size == Len(entries)

Init ==
  /\ entries = [i \in 1 .. Capacity |-> EndMark]
  /\ head = 0 /\ tail = 0
  /\ running = TRUE
  /\ worker = "wait" /\ cur = EndMark
  /\ control = "idle" /\ request = "pause"
  /\ file = 1
  /\ adds = 0 /\ pauses = 0
  /\ accepted = <<>> /\ printed = <<>>

-----------------------------------------------------------------------------
(* The callers of add().                                                   *)

\* (mutant) Doubles the ring and leaves the entries where they were.
ExpandInPlace(ents, h) ==
  [i \in 1 .. 2 * Len(ents) |-> IF i <= Len(ents) THEN ents[i] ELSE EndMark]

\* Doubles a ring that the entry written at tail has filled, and turns it so
\* that the oldest entry comes first.
Expand(ents, h) ==
  [i \in 1 .. 2 * Len(ents) |->
     IF i <= Len(ents) THEN ents[((h + i - 1) % Len(ents)) + 1] ELSE EndMark]

\* Writes a message at tail, and expands the ring if tail has caught head.
Enqueue(m) ==
  LET ents == [entries EXCEPT ![tail + 1] = m]
      next == (tail + 1) % size
  IN  IF next = head
      THEN entries' = Expand(ents, head) /\ head' = 0 /\ tail' = size
      ELSE entries' = ents /\ tail' = next /\ head' = head

Add ==
  /\ adds < MaxAdds
  /\ adds' = adds + 1
  /\ running
  /\ Enqueue(adds + 1)
  /\ accepted' = Append(accepted, <<adds + 1, file>>)
  /\ UNCHANGED <<running, worker, cur, control, request, file, pauses, printed>>

\* A message that comes while the log is paused is discarded.
Discard ==
  /\ adds < MaxAdds
  /\ adds' = adds + 1
  /\ ~running
  /\ UNCHANGED <<ring, running, worker, cur, control, request, file, pauses,
                 accepted, printed>>

-----------------------------------------------------------------------------
(* The worker.                                                             *)

\* (mutant) The worker leaves as soon as the log is paused.
TakeUnlessPaused ==
  /\ worker = "wait"
  /\ head # tail
  /\ cur' = entries[head + 1]
  /\ head' = (head + 1) % size
  /\ worker' = IF running THEN "print" ELSE "exited"
  /\ UNCHANGED <<entries, tail, running, control, request, file, adds, pauses,
                 accepted, printed>>

Take ==
  /\ worker = "wait"
  /\ head # tail
  /\ cur' = entries[head + 1]
  /\ head' = (head + 1) % size
  /\ worker' = IF cur' = EndMark THEN "exited" ELSE "print"
  /\ UNCHANGED <<entries, tail, running, control, request, file, adds, pauses,
                 accepted, printed>>

\* Prints to the standard streams and to the file, without the mutex.
PrintCur ==
  /\ worker = "print"
  /\ printed' = Append(printed, <<cur, file>>)
  /\ worker' = "wait"
  /\ UNCHANGED <<ring, running, cur, control, request, file, adds, pauses,
                 accepted>>

-----------------------------------------------------------------------------
(* The controller.                                                         *)

\* (mutant) pause() leaves no end mark.
PushNothing == UNCHANGED ring

\* The critical section of pause(): the end mark goes in at tail, and nothing
\* looks whether tail has caught head.
PushEnd ==
  /\ entries' = [entries EXCEPT ![tail + 1] = EndMark]
  /\ tail' = (tail + 1) % size
  /\ head' = head

Pause(r) ==
  /\ control = "idle"
  /\ pauses < MaxPauses
  /\ pauses' = pauses + 1
  /\ request' = r
  /\ \/ /\ running
        /\ running' = FALSE
        /\ PushEnd
        /\ control' = "joining"
     \/ /\ ~running             \* already paused: returns at once
        /\ control' = "paused"
        /\ UNCHANGED <<ring, running>>
  /\ UNCHANGED <<worker, cur, file, adds, accepted, printed>>

\* thrd.join(): returns when the worker has left its loop.
Join ==
  /\ control = "joining"
  /\ worker = "exited"
  /\ worker' = "off"
  /\ control' = "paused"
  /\ UNCHANGED <<ring, running, cur, request, file, adds, pauses, accepted,
                 printed>>

\* pause() was all that was asked for.
Rest ==
  /\ control = "paused" /\ request = "pause"
  /\ control' = "idle"
  /\ UNCHANGED <<ring, running, worker, cur, request, file, adds, pauses,
                 accepted, printed>>

\* (mutant) set_file() does not wait for the worker.
CloseFileEarly ==
  /\ control \in {"joining", "paused"} /\ request = "set_file"
  /\ control' = "closed"
  /\ file' = Closed
  /\ UNCHANGED <<ring, running, worker, cur, request, adds, pauses, accepted,
                 printed>>

\* set_file() closes the file it had ...
CloseFile ==
  /\ control = "paused" /\ request = "set_file"
  /\ control' = "closed"
  /\ file' = Closed
  /\ UNCHANGED <<ring, running, worker, cur, request, adds, pauses, accepted,
                 printed>>

\* ... and opens the next one.
OpenFile ==
  /\ control = "closed" /\ file = Closed
  /\ file' = pauses + 1
  /\ UNCHANGED <<ring, running, worker, cur, control, request, adds, pauses,
                 accepted, printed>>

\* resume(), alone or at the end of flush() and set_file().
Resume ==
  /\ ~running
  /\ \/ control = "idle"
     \/ control = "paused" /\ request = "flush"
     \/ control = "closed" /\ file # Closed
  /\ running' = TRUE
  /\ worker' = "wait"
  /\ control' = "idle"
  /\ UNCHANGED <<ring, cur, request, file, adds, pauses, accepted, printed>>

Next ==
  \/ Add \/ Discard
  \/ Take \/ PrintCur
  \/ \E r \in Request : Pause(r)
  \/ Join \/ Rest \/ CloseFile \/ OpenFile \/ Resume

\* The worker thread keeps running, and a call of the controller that can go
\* on goes on; nobody has to add, pause or resume.
Fairness ==
  /\ WF_vars(Take) /\ WF_vars(PrintCur)
  /\ WF_vars(Join) /\ WF_vars(Rest) /\ WF_vars(CloseFile) /\ WF_vars(OpenFile)
  /\ WF_vars(control # "idle" /\ Resume)

Spec == Init /\ [][Next]_vars /\ Fairness

-----------------------------------------------------------------------------
(* Properties.                                                             *)

\* Messages are printed in the order in which add() took them, none skipped or
\* doubled, also across expansions of the ring and pauses; and each to the file
\* that was set when it was logged: set_file() never redirects a pending message,
\* nor closes the file under the worker.
FileInOrder == IsPrefix(printed, accepted)

\* When pause() returns, every message accepted before it has been printed,
\* which is what flush() and a new file rely on.
PauseFlushes == worker \in {"exited", "off"} => printed = accepted

\* A pause(), flush() or set_file() whose end mark fitted in the ring comes to
\* its end, however long the ring was.
PauseReturns == (control = "joining" /\ head # tail) ~> (control = "idle")

\* The header promises that flush() flushes all pending messages, and pause()
\* that its entry signals the worker to stop: so every pause() ends.  It does
\* not when the end mark brings tail onto head; no run checks this formula.
PauseAlwaysReturns == (control = "joining") ~> (control = "idle")
=============================================================================
