---------------------------- MODULE RecoveryCase ----------------------------
(***************************************************************************)
(* A recovery case (recovery_api.c, recovery_engine.c, checkpoint.c): the  *)
(* threads of a front end create it, pause, resume and cancel it, poll its *)
(* progress and save and load its checkpoint file, and the machine may     *)
(* stop at any time.                                                       *)
(*                                                                         *)
(* The flags are written under state_lock and read without it: a data race *)
(* on plain loads.  Of the report's two flags paused is read first, as the *)
(* code has it and compilers leave it.  The two loads of is_running, which *)
(* no store separates, come in either order, and either of them may be the *)
(* value already loaded for the flag: builds without and with optimisation *)
(* differ there.                                                           *)
(***************************************************************************)
EXTENDS Naturals, FiniteSets

CONSTANTS
  Threads,      \* threads of the front end
  MaxRestarts   \* bound: times the program is started again

ASSUME CaseParameters == MaxRestarts \in Nat

VARIABLES
  initialized,   \* RecoveryContext.initialized: there is an open case
  paused,        \* RecoveryEngine.paused
  cancelled,     \* RecoveryEngine.cancelled
  pc,            \* of each thread
  progress,      \* the RecoveryProgress each thread fills
  answer,        \* what the last call of each thread returned
  ckpt,          \* the checkpoint file as programs see it
  disk,          \* and as it is after a power failure
  restarts,
  cancel_returned, \* history: recovery_cancel has returned on this case
  window,        \* history: the phases of the case since the thread's poll began
  after_cancel,  \* history: the thread's poll began when cancel had returned
  flushed        \* history: a save has written its whole header

engine == <<initialized, paused, cancelled, cancel_returned>>
calls == <<pc, progress, answer, after_cancel>>
file == <<ckpt, disk, flushed>>
cvars == <<engine, calls, window, file, restarts>>

Phase == IF cancelled THEN "CANCELLED" ELSE IF paused THEN "PAUSED" ELSE "RUNNING"

NoReport == [is_paused |-> FALSE, is_cancelled |-> FALSE, is_running |-> FALSE,
             current_phase |-> "none"]

\* A new value of the flags is seen by every poll that is under way.
Observe == window' = [t \in Threads |-> IF window[t] = {} THEN {} ELSE window[t] \cup {Phase'}]

-----------------------------------------------------------------------------
(* The life of a case. *)

Answer(t, a) ==
  /\ pc' = [pc EXCEPT ![t] = "idle"]
  /\ answer' = [answer EXCEPT ![t] = a]

\* recovery_create_case: calloc() zeroes the flags.  It may fail, and so may
\* recovery_engine_init, without an image or a directory.
CreateCase(t) ==
  /\ pc[t] = "idle" /\ ~ initialized
  /\ \/ /\ initialized' = TRUE
        /\ paused' = FALSE /\ cancelled' = FALSE /\ cancel_returned' = FALSE
        /\ Answer(t, "OK")
     \/ /\ \E a \in {"ALLOC", "INVALID_ARG"} : Answer(t, a)
        /\ UNCHANGED engine
  /\ UNCHANGED <<progress, after_cancel, window, file, restarts>>

\* recovery_close_case, when no other call is under way: it frees the context.
CloseCase ==
  /\ initialized
  /\ \A t \in Threads : pc[t] = "idle"
  /\ initialized' = FALSE
  /\ paused' = FALSE /\ cancelled' = FALSE /\ cancel_returned' = FALSE
  /\ UNCHANGED <<calls, window, file, restarts>>

\* A call without an open case, recovery_start with one: its three phases do
\* nothing yet, whether the case is paused or cancelled.
Start(t) ==
  /\ pc[t] = "idle"
  /\ Answer(t, IF initialized THEN "OK" ELSE "INVALID_ARG")
  /\ UNCHANGED <<engine, progress, after_cancel, window, file, restarts>>

Pause(t) ==
  /\ pc[t] = "idle" /\ initialized
  /\ paused' = TRUE
  /\ Answer(t, "OK")
  /\ UNCHANGED <<initialized, cancelled, cancel_returned, progress, after_cancel, file, restarts>>
  /\ Observe

Resume(t) ==
  /\ pc[t] = "idle" /\ initialized
  /\ paused' = FALSE
  /\ Answer(t, "OK")
  /\ UNCHANGED <<initialized, cancelled, cancel_returned, progress, after_cancel, file, restarts>>
  /\ Observe

Cancel(t) ==
  /\ pc[t] = "idle" /\ initialized
  /\ cancelled' = TRUE
  /\ cancel_returned' = TRUE
  /\ Answer(t, "OK")
  /\ UNCHANGED <<initialized, paused, progress, after_cancel, file, restarts>>
  /\ Observe

-----------------------------------------------------------------------------
(* recovery_get_progress: three reads of paused and cancelled, the report. *)

Poll(t) ==
  /\ pc[t] = "idle" /\ initialized
  /\ pc' = [pc EXCEPT ![t] = "read_paused"]
  /\ window' = [window EXCEPT ![t] = {Phase}]
  /\ after_cancel' = [after_cancel EXCEPT ![t] = cancel_returned]
  /\ UNCHANGED <<engine, progress, answer, file, restarts>>

ReadStep(t, from, to) ==
  /\ pc[t] = from
  /\ pc' = [pc EXCEPT ![t] = to]
  /\ UNCHANGED <<engine, answer, after_cancel, window, file, restarts>>

\* Mutant of ReadFlags: cancelled is read before paused.
ReadFlagsSwapped(t) ==
  \/ /\ ReadStep(t, "read_paused", "read_cancelled")
     /\ progress' = [progress EXCEPT ![t].is_cancelled = cancelled]
  \/ /\ ReadStep(t, "read_cancelled", "read_running")
     /\ progress' = [progress EXCEPT ![t].is_paused = paused]

ReadFlags(t) ==
  \/ /\ ReadStep(t, "read_paused", "read_cancelled")
     /\ progress' = [progress EXCEPT ![t].is_paused = paused]
  \/ /\ ReadStep(t, "read_cancelled", "read_running")
     /\ progress' = [progress EXCEPT ![t].is_cancelled = cancelled]

\* is_running is set when neither flag is: the first that is set decides, and
\* each is loaded now, or is what was loaded for the report.
ReadRunning(t) ==
  LET Paused    == {paused, progress[t].is_paused}
      Cancelled == {cancelled, progress[t].is_cancelled}
  IN  \/ /\ \E p \in Paused :
              ReadStep(t, "read_running", IF p THEN "report" ELSE "still_cancelled")
         /\ UNCHANGED progress
      \/ /\ \E c \in Cancelled :
              ReadStep(t, "read_running", IF c THEN "report" ELSE "still_paused")
         /\ UNCHANGED progress
      \/ /\ ReadStep(t, "still_cancelled", "report")
         /\ \E c \in Cancelled : progress' = [progress EXCEPT ![t].is_running = ~ c]
      \/ /\ ReadStep(t, "still_paused", "report")
         /\ \E p \in Paused : progress' = [progress EXCEPT ![t].is_running = ~ p]

Report(t) ==
  /\ pc[t] = "report"
  /\ progress' = [progress EXCEPT ![t].current_phase =
                    IF progress[t].is_cancelled THEN "CANCELLED"
                    ELSE IF progress[t].is_paused THEN "PAUSED" ELSE "RUNNING"]
  /\ pc' = [pc EXCEPT ![t] = "reported"]
  /\ UNCHANGED <<engine, answer, after_cancel, window, file, restarts>>

\* The thread has shown the report, and its variable goes out of scope.
Shown(t) ==
  /\ pc[t] = "reported"
  /\ Answer(t, "OK")
  /\ progress' = [progress EXCEPT ![t] = NoReport]
  /\ window' = [window EXCEPT ![t] = {}]
  /\ after_cancel' = [after_cancel EXCEPT ![t] = FALSE]
  /\ UNCHANGED <<engine, file, restarts>>

-----------------------------------------------------------------------------
(* checkpoint_save and checkpoint_load. *)

\* fopen("wb") truncates what was saved before.
SaveOpen(t) ==
  /\ pc[t] = "idle" /\ initialized
  /\ \/ /\ ckpt' = "empty"
        /\ pc' = [pc EXCEPT ![t] = "saving"]
        /\ UNCHANGED answer
     \/ Answer(t, "IO") /\ UNCHANGED ckpt
  /\ UNCHANGED <<engine, progress, after_cancel, window, disk, flushed, restarts>>

\* fwrite() leaves the header in the buffer, and fclose() writes it: what
\* fclose() returns is not looked at.  When there is no buffer fwrite() writes,
\* and fails.
SaveClose(t) ==
  /\ pc[t] = "saving"
  /\ \/ /\ ckpt' = "whole"
        /\ flushed' = TRUE
        /\ Answer(t, "OK")
     \/ /\ ckpt' \in {ckpt, IF ckpt = "empty" THEN "short" ELSE ckpt}
        /\ \E a \in {"OK", "IO"} : Answer(t, a)
        /\ UNCHANGED flushed
  /\ UNCHANGED <<engine, progress, after_cancel, window, disk, restarts>>

LoadOpen(t) ==
  /\ pc[t] = "idle"
  /\ \/ ckpt # "absent" /\ pc' = [pc EXCEPT ![t] = "loading"] /\ UNCHANGED answer
     \/ Answer(t, "IO")
  /\ UNCHANGED <<engine, progress, after_cancel, window, file, restarts>>

\* Mutant of Load: the version is not compared.
LoadAnyVersion ==
  [whole |-> "LOADED", other |-> "LOADED", zeros |-> "GENERIC", short |-> "IO", empty |-> "IO",
   absent |-> "IO"]

\* fread() of a whole header, its magic and its version.
Load ==
  [whole |-> "LOADED", other |-> "GENERIC", zeros |-> "GENERIC", short |-> "IO", empty |-> "IO",
   absent |-> "IO"]

LoadRead(t) ==
  /\ pc[t] = "loading"
  /\ \E a \in {Load[ckpt], "IO"} : Answer(t, a)
  /\ UNCHANGED <<engine, progress, after_cancel, window, file, restarts>>

-----------------------------------------------------------------------------
(* The machine. *)

\* The kernel writes the file back, its size before its data or with it.
Writeback ==
  /\ disk' \in {ckpt, IF ckpt = "whole" THEN "zeros" ELSE ckpt}
  /\ disk' # disk
  /\ UNCHANGED <<engine, calls, window, ckpt, flushed, restarts>>

\* The program is killed, or the power fails: then what was not written back
\* is lost.
Stop(power) ==
  /\ restarts < MaxRestarts
  /\ restarts' = restarts + 1
  /\ ckpt' = IF power THEN disk ELSE ckpt
  /\ initialized' = FALSE
  /\ paused' = FALSE /\ cancelled' = FALSE /\ cancel_returned' = FALSE
  /\ pc' = [t \in Threads |-> "idle"]
  /\ progress' = [t \in Threads |-> NoReport]
  /\ answer' = [t \in Threads |-> "none"]
  /\ window' = [t \in Threads |-> {}]
  /\ after_cancel' = [t \in Threads |-> FALSE]
  /\ UNCHANGED <<disk, flushed>>

-----------------------------------------------------------------------------
Init ==
  /\ initialized = FALSE /\ paused = FALSE /\ cancelled = FALSE /\ cancel_returned = FALSE
  /\ pc = [t \in Threads |-> "idle"]
  /\ progress = [t \in Threads |-> NoReport]
  /\ answer = [t \in Threads |-> "none"]
  /\ ckpt \in {"absent", "other"} /\ disk = ckpt
  /\ restarts = 0
  /\ window = [t \in Threads |-> {}]
  /\ after_cancel = [t \in Threads |-> FALSE]
  /\ flushed = FALSE

Next ==
  \/ \E t \in Threads :
       \/ CreateCase(t) \/ Start(t) \/ Pause(t) \/ Resume(t) \/ Cancel(t)
       \/ Poll(t) \/ ReadFlags(t) \/ ReadRunning(t) \/ Report(t) \/ Shown(t)
       \/ SaveOpen(t) \/ SaveClose(t) \/ LoadOpen(t) \/ LoadRead(t)
  \/ CloseCase \/ Writeback \/ \E power \in BOOLEAN : Stop(power)

Spec == Init /\ [][Next]_cvars

-----------------------------------------------------------------------------
(* What a case must guarantee. *)

CaseTypeOK ==
  /\ {initialized, paused, cancelled, cancel_returned, flushed} \subseteq BOOLEAN
  /\ \A t \in Threads : /\ pc[t] \in {"idle", "read_paused", "read_cancelled", "read_running",
                                      "still_cancelled", "still_paused", "report", "reported",
                                      "saving", "loading"}
                        /\ answer[t] \in {"none", "OK", "LOADED", "IO", "GENERIC", "INVALID_ARG",
                                          "ALLOC"}
  /\ {ckpt, disk} \subseteq {"absent", "other", "empty", "short", "zeros", "whole"}

\* A poll that begins after recovery_cancel has returned never shows the case
\* running or paused again, whatever the other threads call.
CancelIsReported ==
  \A t \in Threads : after_cancel[t] /\ progress[t].current_phase # "none" =>
    progress[t].current_phase = "CANCELLED" /\ ~ progress[t].is_running

\* Although the flags are read one by one and without the lock, a report says
\* something that was so: the case was in the phase it names at some time during
\* the call (recovery_api.c:123-133).  is_running is worth less: the case was
\* running, or it was cancelled during the call out of a pause, between the two
\* loads.  A report that names the phase CANCELLED never has is_running beside
\* it, and what was cancelled before the call is reported so.
ReportWasTrue ==
  /\ CaseTypeOK
  /\ \A t \in Threads : progress[t].current_phase # "none" =>
       /\ progress[t].current_phase \in window[t]
       /\ progress[t].is_running =>
            /\ "RUNNING" \in window[t] \/ {"PAUSED", "CANCELLED"} \subseteq window[t]
            /\ progress[t].current_phase # "CANCELLED"
  /\ CancelIsReported

\* A checkpoint loads only when a save has written all of it: neither the file
\* of another version nor what a crash, a full disk or a save that is under way
\* has left is taken for one (checkpoint.c:8-44).
LoadedWasSaved ==
  \A t \in Threads : answer[t] = "LOADED" => flushed
=============================================================================
