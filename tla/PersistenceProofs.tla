------------------------- MODULE PersistenceProofs --------------------------
(***************************************************************************)
(* What outlives a call, a process or a machine: the reports and the       *)
(* checkpoints of RecoveryCase, the chain of AuditLog, and the directories *)
(* that FolderErase walks while another process changes them; for any      *)
(* number of threads, writers, records, restarts, directories and files.   *)
(***************************************************************************)
EXTENDS RecoveryCase, AuditLog, FolderErase, SequenceTheorems, WellFoundedInduction, TLAPS

-----------------------------------------------------------------------------
(* The case: what its variables hold. *)

Phases == {"RUNNING", "PAUSED", "CANCELLED"}
Reports == [is_paused: BOOLEAN, is_cancelled: BOOLEAN, is_running: BOOLEAN,
            current_phase: Phases \cup {"none"}]
Points == {"idle", "read_paused", "read_cancelled", "read_running", "still_cancelled",
           "still_paused", "report", "reported", "saving", "loading"}
Answers == {"none", "OK", "LOADED", "IO", "GENERIC", "INVALID_ARG", "ALLOC"}
Contents == {"absent", "other", "empty", "short", "zeros", "whole"}

Typed ==
  /\ initialized \in BOOLEAN /\ paused \in BOOLEAN /\ cancelled \in BOOLEAN
  /\ cancel_returned \in BOOLEAN /\ flushed \in BOOLEAN
  /\ pc \in [Threads -> Points]
  /\ progress \in [Threads -> Reports]
  /\ answer \in [Threads -> Answers]
  /\ window \in [Threads -> SUBSET Phases]
  /\ after_cancel \in [Threads -> BOOLEAN]
  /\ ckpt \in Contents /\ disk \in Contents

\* A file with a whole header, in the cache or on the disk, was saved.
Saved ==
  /\ ckpt = "whole" \/ disk = "whole" => flushed
  /\ \A t \in Threads : answer[t] = "LOADED" => flushed

-----------------------------------------------------------------------------
(* Checkpoints. *)

LEMMA TypedInit == ASSUME Init PROVE Typed
  BY DEF Init, Typed, NoReport, Reports, Points, Answers, Contents, Phases

LEMMA TypedNext ==
  ASSUME Typed, [Next]_cvars
  PROVE  Typed'
<1> USE DEF Typed, Points, Answers
<1>1. Phase \in Phases /\ Phase' \in Phases
  BY DEF Phase, Phases
<1>2. NoReport \in Reports
  BY DEF NoReport, Reports
<1>3. ASSUME NEW t \in Threads, CreateCase(t) \/ Start(t) \/ Poll(t) \/ Shown(t)
      PROVE  Typed'
  <2> USE DEF Answer, engine, file
  <2>1. CASE CreateCase(t)
    <3>1. /\ pc' = [pc EXCEPT ![t] = "idle"]
          /\ \E a \in Answers : answer' = [answer EXCEPT ![t] = a]
          /\ {initialized', paused', cancelled', cancel_returned'} \subseteq BOOLEAN
          /\ UNCHANGED <<progress, after_cancel, window, file>>
      BY <2>1 DEF CreateCase
    <3> QED
      BY <3>1
  <2>2. CASE Start(t)
    BY <2>2 DEF Start
  <2>3. CASE Poll(t)
    BY <2>3, <1>1 DEF Poll
  <2>4. CASE Shown(t)
    BY <2>4, <1>2 DEF Shown
  <2> QED
    BY <1>3, <2>1, <2>2, <2>3, <2>4
<1>4. ASSUME NEW t \in Threads, Pause(t) \/ Resume(t) \/ Cancel(t)
      PROVE  Typed'
  <2>1. Observe => window' \in [Threads -> SUBSET Phases]
    BY <1>1 DEF Observe
  <2> USE <2>1 DEF Answer, file
  <2>2. CASE Pause(t)
    BY <2>2 DEF Pause
  <2>3. CASE Resume(t)
    BY <2>3 DEF Resume
  <2>4. CASE Cancel(t)
    BY <2>4 DEF Cancel
  <2> QED
    BY <1>4, <2>2, <2>3, <2>4
<1>5. ASSUME NEW t \in Threads, ReadFlags(t) \/ ReadRunning(t)
      PROVE  Typed'
  <2>1. /\ pc' = [pc EXCEPT ![t] = pc'[t]] /\ pc'[t] \in Points
        /\ UNCHANGED <<engine, answer, after_cancel, window, file>>
    BY <1>5 DEF ReadFlags, ReadRunning, ReadStep
  <2>2. progress[t].is_paused \in BOOLEAN /\ progress[t].is_cancelled \in BOOLEAN
    BY DEF Reports
  <2>3. ASSUME NEW v \in BOOLEAN
        PROVE  /\ [progress[t] EXCEPT !.is_paused = v] \in Reports
               /\ [progress[t] EXCEPT !.is_cancelled = v] \in Reports
               /\ [progress[t] EXCEPT !.is_running = v] \in Reports
    BY DEF Reports
  <2>4. progress' = [progress EXCEPT ![t] = progress'[t]] /\ progress'[t] \in Reports
    BY <1>5, <2>2, <2>3 DEF ReadFlags, ReadRunning, ReadStep
  <2> QED
    BY <2>1, <2>4 DEF engine, file
<1>6. ASSUME NEW t \in Threads, Report(t)
      PROVE  Typed'
  BY <1>6 DEF Report, engine, file, Reports, Phases
<1>7. ASSUME NEW t \in Threads, SaveOpen(t) \/ SaveClose(t)
      PROVE  Typed'
  <2> USE DEF Answer, engine, Contents
  <2>1. CASE SaveOpen(t)
    BY <2>1 DEF SaveOpen
  <2>2. CASE SaveClose(t)
    <3>1. /\ ckpt' \in Contents /\ flushed' \in BOOLEAN
          /\ pc' = [pc EXCEPT ![t] = "idle"]
          /\ \E a \in Answers : answer' = [answer EXCEPT ![t] = a]
      BY <2>2 DEF SaveClose
    <3>2. UNCHANGED <<initialized, paused, cancelled, cancel_returned, progress, after_cancel,
                      window, disk>>
      BY <2>2 DEF SaveClose
    <3>3. pc' \in [Threads -> Points] /\ answer' \in [Threads -> Answers]
      BY <3>1
    <3> QED
      BY <3>1, <3>2, <3>3
  <2> QED
    BY <1>7, <2>1, <2>2
<1>8. ASSUME NEW t \in Threads, LoadOpen(t) \/ LoadRead(t)
      PROVE  Typed'
  <2>1. Load[ckpt] \in Answers
    BY DEF Load, Contents
  <2> QED
    BY <1>8, <2>1 DEF LoadOpen, LoadRead, Answer, engine, file
<1>9. CASE CloseCase
  BY <1>9 DEF CloseCase, calls, file
<1>10. CASE Writeback
  BY <1>10 DEF Writeback, engine, calls, Contents
<1>11. ASSUME NEW power \in BOOLEAN, Stop(power)
       PROVE  Typed'
  BY <1>11, <1>2 DEF Stop
<1>12. CASE UNCHANGED cvars
  BY <1>12 DEF cvars, engine, calls, file
<1> QED
  BY <1>3, <1>4, <1>5, <1>6, <1>7, <1>8, <1>9, <1>10, <1>11, <1>12 DEF Next

LEMMA SavedNext ==
  ASSUME Typed, Saved, [Next]_cvars
  PROVE  Saved'
<1> USE DEF Typed, Saved
<1>1. ASSUME NEW t \in Threads, CreateCase(t) \/ Start(t) \/ Shown(t)
      PROVE  Saved'
  BY <1>1 DEF CreateCase, Start, Shown, Answer, file
<1>2. ASSUME NEW t \in Threads, Pause(t) \/ Resume(t) \/ Cancel(t)
      PROVE  Saved'
  BY <1>2 DEF Pause, Resume, Cancel, Answer, file
<1>3. ASSUME NEW t \in Threads, Poll(t) \/ ReadFlags(t) \/ ReadRunning(t) \/ Report(t)
      PROVE  Saved'
  BY <1>3 DEF Poll, ReadFlags, ReadRunning, ReadStep, Report, file
<1>4. ASSUME NEW t \in Threads, SaveOpen(t) \/ SaveClose(t)
      PROVE  Saved'
  BY <1>4 DEF SaveOpen, SaveClose, Answer
<1>5. ASSUME NEW t \in Threads, LoadOpen(t) \/ LoadRead(t)
      PROVE  Saved'
  <2>1. Load[ckpt] = "LOADED" => flushed
    BY DEF Load, Contents
  <2> QED
    BY <1>5, <2>1 DEF LoadOpen, LoadRead, Answer, file
<1>6. CASE CloseCase \/ Writeback
  BY <1>6 DEF CloseCase, Writeback, calls, file
<1>7. ASSUME NEW power \in BOOLEAN, Stop(power)
      PROVE  Saved'
  BY <1>7 DEF Stop
<1>8. CASE UNCHANGED cvars
  BY <1>8 DEF cvars, calls, file
<1> QED
  BY <1>1, <1>2, <1>3, <1>4, <1>5, <1>6, <1>7, <1>8 DEF Next

\* checkpoint_load succeeds only on a file that a checkpoint_save has written
\* whole, through crashes at any moment.
THEOREM LoadIsOfSave == Spec => []LoadedWasSaved
<1>1. Init => Typed /\ Saved
  BY TypedInit DEF Init, Saved
<1>2. Typed /\ Saved /\ [Next]_cvars => (Typed /\ Saved)'
  BY TypedNext, SavedNext
<1>3. Saved => LoadedWasSaved
  BY DEF Saved, LoadedWasSaved
<1> QED
  BY <1>1, <1>2, <1>3, PTL DEF Spec

-----------------------------------------------------------------------------
(* Reports. *)

Reading == {"read_paused", "read_cancelled", "read_running", "still_cancelled", "still_paused"}
Polling == Reading \cup {"report", "reported"}

\* What a poll has found so far.  cancelled is never cleared while a poll is
\* under way, so paused as it was read tells the phase of that moment, or the
\* case is cancelled by now.  A poll that began before any cancellation has seen
\* the case running or paused, and one that found paused clear not only paused.
NotOnlyPaused(t) == "RUNNING" \in window[t] \/ "CANCELLED" \in window[t]

Found(t) ==
  LET r == progress[t]
      read == IF r.is_paused THEN "PAUSED" ELSE "RUNNING"
  IN  /\ pc[t] = "read_paused" => r = NoReport
      /\ pc[t] = "read_cancelled" => read \in window[t] \/ cancelled
      /\ pc[t] \in Polling \ {"read_paused", "read_cancelled"} =>
           /\ (IF r.is_cancelled THEN "CANCELLED" ELSE read) \in window[t]
           /\ after_cancel[t] => r.is_cancelled
           /\ ~ r.is_paused => NotOnlyPaused(t)
      /\ r.is_cancelled => cancelled
      /\ pc[t] \in Reading => ~ r.is_running
      /\ pc[t] = "still_cancelled" => NotOnlyPaused(t)
      /\ pc[t] = "still_paused" => ~ r.is_cancelled
      /\ r.is_running => NotOnlyPaused(t) /\ ~ r.is_cancelled
      /\ r.current_phase = IF pc[t] # "reported" THEN "none"
                           ELSE IF r.is_cancelled THEN "CANCELLED" ELSE read

PollOK(t) ==
  IF pc[t] \in Polling
    THEN /\ initialized
         /\ Phase \in window[t]
         /\ IF after_cancel[t] THEN cancelled
            ELSE "RUNNING" \in window[t] \/ "PAUSED" \in window[t]
         /\ Found(t)
    ELSE progress[t] = NoReport /\ window[t] = {} /\ ~ after_cancel[t]

Polls ==
  /\ cancel_returned = cancelled
  /\ \A t \in Threads : PollOK(t)

\* The steps of other threads that leave the flags alone.
LEMMA PollUndisturbed ==
  ASSUME Polls, NEW u \in Threads, UNCHANGED engine,
         pc'[u] = pc[u], progress'[u] = progress[u], window'[u] = window[u],
         after_cancel'[u] = after_cancel[u]
  PROVE  PollOK(u)'
BY DEF Polls, PollOK, Found, NotOnlyPaused, Phase, engine

\* Pause, resume and cancel: every poll observes the new phase.
LEMMA PollObserves ==
  ASSUME Typed, Polls, NEW t \in Threads, Pause(t) \/ Resume(t) \/ Cancel(t)
  PROVE  Polls'
<1>1. /\ initialized' = initialized /\ (cancelled => cancelled')
      /\ UNCHANGED <<progress, after_cancel>> /\ Observe
      /\ pc' = [pc EXCEPT ![t] = "idle"] /\ pc[t] = "idle"
      /\ cancel_returned' = cancelled'
  BY DEF Pause, Resume, Cancel, Answer, Polls, Typed
<1>2. pc' = pc
  BY <1>1 DEF Typed
<1>3. ASSUME NEW u \in Threads
      PROVE  PollOK(u)'
  <2>1. CASE pc[u] \in Polling
    <3>1. Phase \in window[u] /\ window'[u] = window[u] \cup {Phase'}
      BY <1>1, <2>1 DEF Polls, PollOK, Observe
    <3> QED
      BY <1>1, <1>2, <2>1, <3>1 DEF Polls, PollOK, Found, NotOnlyPaused
  <2>2. CASE pc[u] \notin Polling
    BY <1>1, <1>2, <2>2 DEF Polls, PollOK, Observe
  <2> QED
    BY <2>1, <2>2
<1> QED
  BY <1>1, <1>3 DEF Polls

\* A poll: its first step, its reads and its report.
LEMMA PollProceeds ==
  ASSUME Typed, Polls, NEW t \in Threads,
         Poll(t) \/ ReadFlags(t) \/ ReadRunning(t) \/ Report(t) \/ Shown(t)
  PROVE  Polls'
<1>1. UNCHANGED engine /\ cancel_returned = cancelled
  BY DEF Poll, ReadFlags, ReadRunning, ReadStep, Report, Shown, Polls
<1>2. ASSUME NEW u \in Threads, u # t
      PROVE  PollOK(u)'
  <2>1. /\ pc'[u] = pc[u] /\ progress'[u] = progress[u] /\ window'[u] = window[u]
        /\ after_cancel'[u] = after_cancel[u]
    BY <1>2 DEF Poll, ReadFlags, ReadRunning, ReadStep, Report, Shown, Answer, Typed
  <2> QED
    BY <1>1, <2>1, PollUndisturbed
<1>3. PollOK(t)'
  <2> USE <1>1 DEF Typed, Polls, PollOK, NotOnlyPaused, Polling, Reading, engine
  <2>1. CASE Poll(t)
    BY <2>1 DEF Poll, Found, Phase, NoReport
  <2>2. CASE ReadFlags(t)
    <3>1. CASE /\ ReadStep(t, "read_paused", "read_cancelled")
               /\ progress' = [progress EXCEPT ![t].is_paused = paused]
      BY <3>1 DEF ReadStep, Found, Phase, NoReport, Reports
    <3>2. CASE /\ ReadStep(t, "read_cancelled", "read_running")
               /\ progress' = [progress EXCEPT ![t].is_cancelled = cancelled]
      BY <3>2 DEF ReadStep, Found, Phase, Reports
    <3> QED
      BY <2>2, <3>1, <3>2 DEF ReadFlags
  <2>3. CASE ReadRunning(t)
    <3>1. ASSUME NEW p \in {paused, progress[t].is_paused},
                 ReadStep(t, "read_running", IF p THEN "report" ELSE "still_cancelled"),
                 UNCHANGED progress
          PROVE  PollOK(t)'
      BY <3>1 DEF ReadStep, Found, Phase
    <3>2. ASSUME NEW c \in {cancelled, progress[t].is_cancelled},
                 ReadStep(t, "read_running", IF c THEN "report" ELSE "still_paused"),
                 UNCHANGED progress
          PROVE  PollOK(t)'
      BY <3>2 DEF ReadStep, Found, Phase
    <3>3. ASSUME NEW c \in {cancelled, progress[t].is_cancelled},
                 ReadStep(t, "still_cancelled", "report"),
                 progress' = [progress EXCEPT ![t].is_running = ~ c]
          PROVE  PollOK(t)'
      BY <3>3 DEF ReadStep, Found, Phase, Reports
    <3>4. ASSUME NEW p \in {paused, progress[t].is_paused},
                 ReadStep(t, "still_paused", "report"),
                 progress' = [progress EXCEPT ![t].is_running = ~ p]
          PROVE  PollOK(t)'
      BY <3>4 DEF ReadStep, Found, Phase, Reports
    <3> QED
      BY <2>3, <3>1, <3>2, <3>3, <3>4 DEF ReadRunning
  <2>4. CASE Report(t)
    BY <2>4 DEF Report, Found, Phase, Reports
  <2>5. CASE Shown(t)
    BY <2>5 DEF Shown, Answer
  <2> QED
    BY <2>1, <2>2, <2>3, <2>4, <2>5
<1> QED
  BY <1>1, <1>2, <1>3 DEF Polls, engine

LEMMA PollsNext ==
  ASSUME Typed, Polls, [Next]_cvars
  PROVE  Polls'
<1>1. ASSUME NEW t \in Threads, CreateCase(t)
      PROVE  Polls'
  <2>1. \A u \in Threads : pc[u] \notin Polling
    BY <1>1 DEF CreateCase, Polls, PollOK
  <2>2. \A u \in Threads : pc'[u] \notin Polling
    BY <1>1, <2>1 DEF CreateCase, Answer, Typed, Polling, Reading
  <2>3. cancel_returned' = cancelled' /\ UNCHANGED <<progress, window, after_cancel>>
    BY <1>1 DEF CreateCase, Polls, engine
  <2> QED
    BY <2>1, <2>2, <2>3 DEF Polls, PollOK
<1>2. ASSUME NEW t \in Threads,
             Start(t) \/ SaveOpen(t) \/ SaveClose(t) \/ LoadOpen(t) \/ LoadRead(t)
      PROVE  Polls'
  <2>1. /\ UNCHANGED <<engine, progress, window, after_cancel>>
        /\ pc[t] \notin Polling /\ pc'[t] \notin Polling
        /\ \A u \in Threads \ {t} : pc'[u] = pc[u]
    BY <1>2 DEF Start, SaveOpen, SaveClose, LoadOpen, LoadRead, Answer, Typed, Polling, Reading
  <2>2. \A u \in Threads \ {t} : PollOK(u)'
    BY <2>1, PollUndisturbed
  <2> QED
    BY <2>1, <2>2 DEF Polls, PollOK, engine
<1>3. CASE CloseCase
  BY <1>3 DEF CloseCase, calls, Polls, PollOK, Polling, Reading
<1>4. CASE Writeback \/ UNCHANGED cvars
  <2>1. UNCHANGED <<engine, calls, window>>
    BY <1>4 DEF Writeback, cvars
  <2>2. \A u \in Threads : PollOK(u)'
    BY <2>1, PollUndisturbed DEF calls
  <2> QED
    BY <2>1, <2>2 DEF Polls, engine
<1>5. ASSUME NEW power \in BOOLEAN, Stop(power)
      PROVE  Polls'
  BY <1>5 DEF Stop, Polls, PollOK, Polling, Reading
<1> QED
  BY <1>1, <1>2, <1>3, <1>4, <1>5, PollObserves, PollProceeds DEF Next

\* The phase that recovery_get_progress reports was the phase at some time of
\* the call, is_running means that the case ran or left a pause by a
\* cancellation then, and a cancellation that came before the call is reported,
\* however many threads pause, resume and cancel between its reads.
THEOREM ReportsAreTrue == Spec => []ReportWasTrue
<1>1. Init => Typed /\ Polls
  BY TypedInit DEF Init, Polls, PollOK, Polling, Reading
<1>2. Typed /\ Polls /\ [Next]_cvars => (Typed /\ Polls)'
  BY TypedNext, PollsNext
<1>3. Typed /\ Polls => ReportWasTrue
  <2> SUFFICES ASSUME Typed, Polls PROVE ReportWasTrue
    OBVIOUS
  <2>1. CaseTypeOK
    BY DEF Typed, CaseTypeOK, Points, Answers, Contents
  <2>2. ASSUME NEW t \in Threads, progress[t].current_phase # "none"
        PROVE  /\ pc[t] = "reported"
               /\ progress[t].current_phase \in window[t]
               /\ progress[t].is_running =>
                    /\ ~ after_cancel[t] /\ progress[t].current_phase # "CANCELLED"
                    /\ NotOnlyPaused(t)
                    /\ "RUNNING" \in window[t] \/ "PAUSED" \in window[t]
               /\ after_cancel[t] => progress[t].current_phase = "CANCELLED"
    BY <2>2 DEF Polls, PollOK, Found, NoReport, Polling, Reading
  <2> QED
    BY <2>1, <2>2 DEF ReportWasTrue, CancelIsReported, NotOnlyPaused
<1> QED
  BY <1>1, <1>2, <1>3, PTL DEF Spec

-----------------------------------------------------------------------------
(* The chain of the audit log. *)

\* A piece of a record; its hash names the one before it, unless the text of
\* a hash was changed.
PieceOK(p) ==
  /\ p = [fields |-> p.fields, prev |-> p.prev, hash |-> p.hash, extent |-> p.extent]
  /\ p.fields \in Fields /\ p.extent \in Extents

Linked(p, I) == "relink" \notin I => p.hash # NoHash /\ p.hash[2] = p.prev

Pieces(P, I) == \A p \in P : PieceOK(p) /\ Linked(p, I)
Lines(P) == Seq(P) \ {<<>>}

\* A line goes on only after a piece that is cut.
CutInside(line) == \A j \in 1 .. Len(line) - 1 : line[j].extent # "whole"

LogTyped ==
  /\ \E P : Pieces(P, incidents) /\ log \in Seq(Lines(P))
  /\ \A i \in 1 .. Len(log) : CutInside(log[i])
  /\ written \in 0 .. MaxRecords
  /\ behind \subseteq Writers /\ incidents \subseteq Incidents
  /\ DOMAIN record = Writers /\ DOMAIN known = Writers
  /\ \A w \in Writers : record[w] # NoRecord =>
       /\ record[w].fields \in Fields
       /\ record[w].prev = known[w]
       /\ record[w].hash = Hash(record[w].fields, record[w].prev)

\* A log that nothing has happened to: one whole record to a line, each with
\* the hash of the one before it, and a writer that is not behind knows the last.
Honest ==
  incidents = {} =>
    /\ \A i \in 1 .. Len(log) : Len(log[i]) = 1 /\ log[i][1].extent = "whole"
    /\ \A i \in 2 .. Len(log) : log[i][1].prev = log[i - 1][1].hash
    /\ \A w \in Writers \ behind : known[w] = LastHash

LEMMA SeqGrows ==
  ASSUME NEW S, NEW T, S \subseteq T
  PROVE  Seq(S) \subseteq Seq(T)
<1> SUFFICES ASSUME NEW s \in Seq(S) PROVE s \in Seq(T)
  OBVIOUS
<1>1. Len(s) \in Nat /\ s \in [1 .. Len(s) -> S]
  BY LenProperties
<1>2. s \in [1 .. Len(s) -> T]
  BY <1>1
<1> QED
  BY <1>1, <1>2

\* What strstr finds in a line of one piece.
LEMMA OnePiece ==
  ASSUME NEW line, DOMAIN line = {1}, line[1].extent \in Extents
  PROVE  /\ StoredHash(line) = IF line[1].extent \in {"whole", "no end"} THEN line[1].hash
                               ELSE NoHash
         /\ StoredPrev(line) = IF line[1].extent # "no links" THEN line[1].prev ELSE NoHash
<1>1. Min({1}) = 1
  BY DEF Min
<1>2. ASSUME NEW extents
      PROVE  FirstWith(line, extents) = IF line[1].extent \in extents THEN <<line[1]>> ELSE NoHash
  <2> DEFINE with == {j \in DOMAIN line : line[j].extent \in extents}
  <2>1. with = IF line[1].extent \in extents THEN {1} ELSE {}
    OBVIOUS
  <2>2. FirstWith(line, extents) = IF with = {} THEN NoHash ELSE <<line[Min(with)]>>
    BY DEF FirstWith
  <2> HIDE DEF with
  <2> QED
    BY <1>1, <2>1, <2>2
<1>3. <<line[1]>> # NoHash /\ <<line[1]>>[1] = line[1]
  BY DEF NoHash
<1>4. StoredHash(line) = IF line[1].extent \in {"whole", "no end"} THEN line[1].hash ELSE NoHash
  <2> DEFINE p == FirstWith(line, {"whole", "no end", "part of hash"})
  <2>1. p = IF line[1].extent \in {"whole", "no end", "part of hash"} THEN <<line[1]>> ELSE NoHash
    BY <1>2
  <2>2. StoredHash(line) = IF p = NoHash \/ p[1].extent = "part of hash" THEN NoHash ELSE p[1].hash
    BY DEF StoredHash
  <2> HIDE DEF p
  <2> QED
    BY <1>3, <2>1, <2>2 DEF Extents
<1>5. StoredPrev(line) = IF line[1].extent # "no links" THEN line[1].prev ELSE NoHash
  <2> DEFINE p == FirstWith(line, Extents \ {"no links"})
  <2>1. p = IF line[1].extent \in Extents \ {"no links"} THEN <<line[1]>> ELSE NoHash
    BY <1>2
  <2>2. StoredPrev(line) = IF p = NoHash THEN NoHash ELSE p[1].prev
    BY DEF StoredPrev
  <2> HIDE DEF p
  <2> QED
    BY <1>3, <2>1, <2>2
<1> QED
  BY <1>4, <1>5

\* The lines of the log and their last pieces.
LEMMA LinesOfLog ==
  ASSUME NEW P, NEW I, Pieces(P, I), log \in Seq(Lines(P))
  PROVE  /\ Len(log) \in Nat /\ DOMAIN log = 1 .. Len(log)
         /\ log # <<>> <=> Len(log) # 0
         /\ \A i \in 1 .. Len(log) :
              /\ log[i] \in Seq(P) /\ log[i] # <<>> /\ Len(log[i]) \in Nat \ {0}
              /\ DOMAIN log[i] = 1 .. Len(log[i])
              /\ \A j \in 1 .. Len(log[i]) : log[i][j] \in P /\ PieceOK(log[i][j]) /\ Linked(log[i][j], I)
<1>1. Len(log) \in Nat /\ DOMAIN log = 1 .. Len(log)
  BY LenProperties
<1>2. log # <<>> <=> Len(log) # 0
  BY <1>1, EmptySeq
<1>3. ASSUME NEW i \in 1 .. Len(log)
      PROVE  /\ log[i] \in Seq(P) /\ log[i] # <<>> /\ Len(log[i]) \in Nat \ {0}
             /\ DOMAIN log[i] = 1 .. Len(log[i])
             /\ \A j \in 1 .. Len(log[i]) :
                  log[i][j] \in P /\ PieceOK(log[i][j]) /\ Linked(log[i][j], I)
  <2>1. log[i] \in Lines(P)
    BY ElementOfSeq
  <2>2. log[i] \in Seq(P) /\ log[i] # <<>>
    BY <2>1 DEF Lines
  <2>3. Len(log[i]) \in Nat \ {0} /\ DOMAIN log[i] = 1 .. Len(log[i])
    BY <2>2, EmptySeq, LenProperties
  <2>4. \A j \in 1 .. Len(log[i]) : log[i][j] \in P
    BY <2>2, ElementOfSeq
  <2> QED
    BY <2>2, <2>3, <2>4 DEF Pieces
<1> QED
  BY <1>1, <1>2, <1>3

\* In a log that nothing has happened to the last hash is that of the last record.
LEMMA HonestLog ==
  ASSUME LogTyped, Honest, incidents = {}
  PROVE  /\ Len(log) \in Nat /\ (log # <<>> <=> Len(log) # 0)
         /\ \A i \in 1 .. Len(log) :
              /\ StoredHash(log[i]) = log[i][1].hash /\ StoredHash(log[i]) # NoHash
              /\ StoredPrev(log[i]) = log[i][1].prev
         /\ log # <<>> => LastHash = log[Len(log)][1].hash
         /\ ~ Open
<1>1. PICK P : Pieces(P, incidents) /\ log \in Seq(Lines(P))
  BY DEF LogTyped
<1>2. Len(log) \in Nat /\ (log # <<>> <=> Len(log) # 0)
  BY <1>1, LinesOfLog
<1>3. ASSUME NEW i \in 1 .. Len(log)
      PROVE  /\ StoredHash(log[i]) = log[i][1].hash /\ StoredHash(log[i]) # NoHash
             /\ StoredPrev(log[i]) = log[i][1].prev
             /\ Last(log[i]).extent = "whole"
  <2>1. Len(log[i]) = 1 /\ log[i][1].extent = "whole"
    BY DEF Honest
  <2>2. DOMAIN log[i] = {1} /\ PieceOK(log[i][1]) /\ Linked(log[i][1], incidents)
    <3>1. DOMAIN log[i] = 1 .. 1 /\ 1 \in 1 .. 1
      BY <1>1, <2>1, LinesOfLog
    <3> QED
      BY <1>1, <2>1, <3>1, LinesOfLog
  <2>3. log[i][1].extent \in Extents /\ log[i][1].hash # NoHash
    BY <2>2 DEF PieceOK, Linked
  <2> QED
    BY <2>1, <2>2, <2>3, OnePiece DEF Last
<1>4. ASSUME log # <<>>
      PROVE  /\ LastHash = log[Len(log)][1].hash
             /\ Last(Last(log)).extent = "whole"
  <2>1. Len(log) \in 1 .. Len(log)
    BY <1>2, <1>4
  <2>2. LastHash = StoredHash(log[Len(log)]) /\ Last(log) = log[Len(log)]
    BY <1>4 DEF LastHash, Last
  <2> QED
    BY <1>3, <2>1, <2>2
<1> QED
  BY <1>2, <1>3, <1>4 DEF Open

\* What an append leaves, of a record that was finalised.
LEMMA AppendedTyped ==
  ASSUME LogTyped, NEW w \in Writers, record[w] # NoRecord, NEW extent \in Extents,
         log' = Appended(record[w], extent)
  PROVE  /\ \E P : Pieces(P, incidents) /\ log' \in Seq(Lines(P))
         /\ \A i \in 1 .. Len(log') : CutInside(log'[i])
<1>1. PICK P : Pieces(P, incidents) /\ log \in Seq(Lines(P))
  BY DEF LogTyped
<1> DEFINE piece == [fields |-> record[w].fields, prev |-> record[w].prev,
                     hash |-> record[w].hash, extent |-> extent]
           Q == P \cup {piece}
<1>2. PieceOK(piece) /\ Linked(piece, incidents) /\ piece.extent = extent
  <2>1. record[w].fields \in Fields /\ record[w].hash = <<record[w].fields, record[w].prev>>
    BY DEF LogTyped, Hash
  <2>2. /\ <<record[w].fields, record[w].prev>> # NoHash
        /\ <<record[w].fields, record[w].prev>>[2] = record[w].prev
    BY DEF NoHash
  <2> QED
    BY <2>1, <2>2 DEF PieceOK, Linked
<1>3. log' = IF Open THEN [log EXCEPT ![Len(log)] = Append(@, piece)] ELSE Append(log, <<piece>>)
  BY DEF Appended
<1> HIDE DEF piece
<1>4. Pieces(Q, incidents) /\ piece \in Q
  BY <1>1, <1>2 DEF Pieces
<1>5. log \in Seq(Lines(Q))
  <2>1. Seq(P) \subseteq Seq(Q)
    BY SeqGrows
  <2>2. Lines(P) \subseteq Lines(Q)
    BY <2>1 DEF Lines
  <2> QED
    BY <1>1, <2>2, SeqGrows
<1> HIDE DEF Q
<1>6. /\ Len(log) \in Nat
      /\ \A i \in 1 .. Len(log) : log[i] \in Seq(Q) /\ Len(log[i]) \in Nat \ {0} /\ CutInside(log[i])
  BY <1>4, <1>5, LinesOfLog DEF LogTyped
<1>7. CASE Open
  <2>1. Len(log) \in 1 .. Len(log) /\ Last(log[Len(log)]).extent # "whole"
    BY <1>4, <1>5, <1>7, LinesOfLog DEF Open, Last
  <2> DEFINE line == Append(log[Len(log)], piece)
  <2>2. /\ line \in Lines(Q) /\ Len(line) = Len(log[Len(log)]) + 1
        /\ \A j \in 1 .. Len(log[Len(log)]) : line[j] = log[Len(log)][j]
    BY <1>4, <1>6, <2>1, AppendProperties DEF Lines
  <2>3. CutInside(line)
    <3> SUFFICES ASSUME NEW j \in 1 .. Len(line) - 1 PROVE line[j].extent # "whole"
      BY DEF CutInside
    <3>1. j \in 1 .. Len(log[Len(log)]) /\ line[j] = log[Len(log)][j]
      BY <1>6, <2>1, <2>2
    <3>2. CASE j = Len(log[Len(log)])
      BY <2>1, <3>1, <3>2 DEF Last
    <3>3. CASE j # Len(log[Len(log)])
      <4>1. j \in 1 .. Len(log[Len(log)]) - 1
        BY <1>6, <2>1, <3>1, <3>3
      <4> QED
        BY <1>6, <2>1, <3>1, <4>1 DEF CutInside
    <3> QED
      BY <3>2, <3>3
  <2>4. log' = [log EXCEPT ![Len(log)] = line]
    BY <1>3, <1>7
  <2> HIDE DEF line
  <2>5. /\ log' \in Seq(Lines(Q)) /\ Len(log') = Len(log)
        /\ \A j \in 1 .. Len(log) : log'[j] = IF j = Len(log) THEN line ELSE log[j]
    BY <1>5, <2>1, <2>2, <2>4, ExceptSeq
  <2> QED
    BY <1>4, <1>6, <2>3, <2>5
<1>8. CASE ~ Open
  <2>1. <<piece>> \in Lines(Q) /\ Len(<<piece>>) = 1
    BY <1>4, EmptySeq DEF Lines
  <2>2. log' = Append(log, <<piece>>)
    BY <1>3, <1>8
  <2>3. CutInside(<<piece>>)
    BY <2>1 DEF CutInside
  <2> DEFINE line == <<piece>>
  <2> HIDE DEF line
  <2>4. /\ log' \in Seq(Lines(Q)) /\ Len(log') = Len(log) + 1
        /\ \A j \in 1 .. Len(log) : log'[j] = log[j]
        /\ log'[Len(log) + 1] = line
    BY <1>5, <2>1, <2>2, AppendProperties DEF line
  <2>5. \A i \in 1 .. Len(log') : i \in 1 .. Len(log) \/ i = Len(log) + 1
    BY <1>6, <2>4
  <2> QED
    BY <1>4, <1>6, <2>3, <2>4, <2>5 DEF line
<1> QED
  BY <1>7, <1>8

\* What was known of the pieces stays known when something happens.
LEMMA PiecesStay ==
  ASSUME NEW P, NEW I, NEW J, Pieces(P, I), I \subseteq J
  PROVE  Pieces(P, J)
BY DEF Pieces, Linked

LEMMA LogTypedNext ==
  ASSUME LogTyped, [AuditNext]_vars
  PROVE  LogTyped'
<1>1. PICK P : Pieces(P, incidents) /\ log \in Seq(Lines(P))
  BY DEF LogTyped
<1>2. /\ Len(log) \in Nat /\ DOMAIN log = 1 .. Len(log)
      /\ \A i \in 1 .. Len(log) :
           /\ log[i] \in Seq(P) /\ log[i] # <<>> /\ Len(log[i]) \in Nat \ {0}
           /\ \A j \in 1 .. Len(log[i]) :
                log[i][j] \in P /\ PieceOK(log[i][j]) /\ Linked(log[i][j], incidents)
           /\ CutInside(log[i])
  BY <1>1, LinesOfLog DEF LogTyped
<1>3. ASSUME NEW w \in Writers, Attach(w) \/ \E f \in Fields : Finalize(w, f)
      PROVE  LogTyped'
  <2>1. UNCHANGED <<log, written, incidents>> /\ behind' \subseteq Writers
    BY <1>3 DEF Attach, Finalize, LogTyped
  <2>2. /\ DOMAIN record' = Writers /\ DOMAIN known' = Writers
        /\ \A v \in Writers : record'[v] # NoRecord =>
             /\ record'[v].fields \in Fields
             /\ record'[v].prev = known'[v]
             /\ record'[v].hash = Hash(record'[v].fields, record'[v].prev)
    BY <1>3 DEF Attach, Finalize, LogTyped
  <2>3. \A i \in 1 .. Len(log') : CutInside(log'[i])
    BY <2>1 DEF LogTyped
  <2> QED
    BY <1>1, <2>1, <2>2, <2>3 DEF LogTyped
<1>4. ASSUME NEW w \in Writers, NEW e \in Extents, Puts(w, e),
             UNCHANGED <<known, record>> \/ \E h : GoesOnFrom(w, h)
      PROVE  LogTyped'
  <2>1. log' = Appended(record[w], e) /\ record[w] # NoRecord
    BY <1>4 DEF Puts
  <2>2. incidents \subseteq incidents' /\ incidents' \subseteq Incidents /\ behind' \subseteq Writers
    BY <1>4 DEF Puts, LogTyped, Incidents
  <2>3. /\ \E Q : Pieces(Q, incidents') /\ log' \in Seq(Lines(Q))
        /\ \A i \in 1 .. Len(log') : CutInside(log'[i])
    BY <2>1, <2>2, AppendedTyped, PiecesStay
  <2>4. written' \in 0 .. MaxRecords
    BY <1>4, AuditParameters DEF Puts, LogTyped
  <2>5. /\ DOMAIN record' = Writers /\ DOMAIN known' = Writers
        /\ \A v \in Writers : record'[v] # NoRecord =>
             /\ record'[v].fields \in Fields
             /\ record'[v].prev = known'[v]
             /\ record'[v].hash = Hash(record'[v].fields, record'[v].prev)
    BY <1>4 DEF GoesOnFrom, LogTyped
  <2> QED
    BY <2>2, <2>3, <2>4, <2>5 DEF LogTyped
<1>5. ASSUME NEW i \in DOMAIN log, LoseLine(i)
      PROVE  LogTyped'
  <2>1. /\ UNCHANGED <<record, known, behind, written>>
        /\ incidents \subseteq incidents' /\ incidents' \subseteq Incidents
    BY <1>5 DEF LoseLine, Suffers, LogTyped, Incidents
  <2> DEFINE front == SubSeq(log, 1, i - 1)
             back == SubSeq(log, i + 1, Len(log))
             ok == {line \in Lines(P) : CutInside(line)}
  <2>2. i \in 1 .. Len(log) /\ i - 1 \in Int /\ i + 1 \in Int /\ Len(log) \in Int /\ 1 \in Int
    BY <1>2
  <2>3. \A k \in 1 .. Len(log) : log[k] \in ok
    BY <1>2 DEF Lines
  <2>4. front \in Seq(ok)
    <3>1. \A k \in 1 .. i - 1 : log[k] \in ok
      BY <2>2, <2>3
    <3> HIDE DEF ok
    <3> QED
      BY <2>2, <3>1, SubSeqProperties
  <2>5. back \in Seq(ok)
    <3>1. \A k \in i + 1 .. Len(log) : log[k] \in ok
      BY <2>2, <2>3
    <3> HIDE DEF ok
    <3> QED
      BY <2>2, <3>1, SubSeqProperties
  <2>6. log' = front \o back
    BY <1>5 DEF LoseLine, RemoveAt
  <2>7. ok \subseteq Lines(P) /\ \A line \in ok : CutInside(line)
    OBVIOUS
  <2> HIDE DEF front, back, ok
  <2>8. log' \in Seq(ok)
    BY <2>4, <2>5, <2>6, ConcatProperties
  <2>9. log' \in Seq(Lines(P)) /\ \A k \in 1 .. Len(log') : CutInside(log'[k])
    BY <2>7, <2>8, SeqGrows, ElementOfSeq
  <2> QED
    BY <1>1, <2>1, <2>9, PiecesStay DEF LogTyped
<1>6. ASSUME NEW i \in DOMAIN log, NEW field \in {"fields", "prev", "hash"}, NEW text,
             field = "fields" => text \in Fields,
             log' = [log EXCEPT ![i][1][field] = text],
             Suffers(IF field = "fields" THEN "damage" ELSE "relink")
      PROVE  LogTyped'
  <2>1. /\ UNCHANGED <<record, known, behind, written>>
        /\ incidents \subseteq incidents' /\ incidents' \subseteq Incidents
        /\ field # "fields" => "relink" \in incidents'
    BY <1>6 DEF Suffers, LogTyped, Incidents
  <2> DEFINE piece == [log[i][1] EXCEPT ![field] = text]
             line == [log[i] EXCEPT ![1] = piece]
             Q == P \cup {piece}
  <2>2. /\ i \in 1 .. Len(log) /\ 1 \in 1 .. Len(log[i]) /\ log[i] \in Seq(P)
        /\ PieceOK(log[i][1]) /\ Linked(log[i][1], incidents)
    BY <1>2
  <2>3. PieceOK(piece) /\ Linked(piece, incidents') /\ piece.extent = log[i][1].extent
    <3> DEFINE old == log[i][1]
    <3>1. old = [fields |-> old.fields, prev |-> old.prev, hash |-> old.hash, extent |-> old.extent]
      BY <2>2 DEF PieceOK
    <3>2. CASE field = "fields"
      <4>1. piece = [fields |-> text, prev |-> old.prev, hash |-> old.hash, extent |-> old.extent]
        BY <3>1, <3>2
      <4>2. old.extent \in Extents /\ text \in Fields /\ Linked(old, incidents')
        BY <1>6, <2>1, <2>2, <3>2 DEF PieceOK, Linked
      <4> HIDE DEF piece, old
      <4> QED
        BY <4>1, <4>2 DEF PieceOK, Linked, old
    <3>3. CASE field = "prev"
      <4>1. piece = [fields |-> old.fields, prev |-> text, hash |-> old.hash, extent |-> old.extent]
        BY <3>1, <3>3
      <4> HIDE DEF piece
      <4> QED
        BY <2>1, <2>2, <3>3, <4>1 DEF PieceOK, Linked
    <3>4. CASE field = "hash"
      <4>1. piece = [fields |-> old.fields, prev |-> old.prev, hash |-> text, extent |-> old.extent]
        BY <3>1, <3>4
      <4> HIDE DEF piece
      <4> QED
        BY <2>1, <2>2, <3>4, <4>1 DEF PieceOK, Linked
    <3> QED
      BY <3>2, <3>3, <3>4
  <2>4. log' = [log EXCEPT ![i] = line]
    BY <1>6
  <2> HIDE DEF piece
  <2>5. Pieces(Q, incidents') /\ piece \in Q /\ P \subseteq Q
    <3>1. Pieces(P, incidents')
      BY <1>1, <2>1, PiecesStay
    <3> QED
      BY <2>3, <3>1 DEF Pieces
  <2> HIDE DEF Q
  <2>6. /\ log[i] \in Seq(Q) /\ log \in Seq(Lines(Q))
    <3>1. Seq(P) \subseteq Seq(Q)
      BY <2>5, SeqGrows
    <3>2. Lines(P) \subseteq Lines(Q)
      BY <3>1 DEF Lines
    <3> QED
      BY <1>1, <2>2, <3>1, <3>2, SeqGrows
  <2>7. /\ line \in Seq(Q) /\ Len(line) = Len(log[i])
        /\ \A j \in 1 .. Len(log[i]) : line[j] = IF j = 1 THEN piece ELSE log[i][j]
    BY <2>2, <2>5, <2>6, ExceptSeq
  <2> HIDE DEF line
  <2>8. line \in Lines(Q) /\ CutInside(line)
    <3>1. line # <<>>
      BY <2>2, <2>7, EmptySeq
    <3>2. \A j \in 1 .. Len(line) - 1 : line[j].extent # "whole"
      BY <1>2, <2>2, <2>3, <2>7 DEF CutInside
    <3> QED
      BY <2>7, <3>1, <3>2 DEF Lines, CutInside
  <2>9. /\ log' \in Seq(Lines(Q)) /\ Len(log') = Len(log)
        /\ \A k \in 1 .. Len(log) : log'[k] = IF k = i THEN line ELSE log[k]
    BY <2>2, <2>4, <2>6, <2>8, ExceptSeq
  <2>10. \A k \in 1 .. Len(log') : CutInside(log'[k])
    BY <1>2, <2>8, <2>9
  <2> QED
    BY <2>1, <2>5, <2>9, <2>10 DEF LogTyped
<1>7. ASSUME NEW w \in Writers,
             \/ AppendRecord(w)
             \/ \E e \in Extents \ {"whole"} :
                  AppendCut(w, e) \/ AppendFails(w, e) \/ CrashInAppend(w, e)
      PROVE  LogTyped'
  <2>1. "whole" \in Extents
    BY DEF Extents
  <2> QED
    BY <1>4, <1>7, <2>1 DEF AppendRecord, AppendCut, AppendFails, CrashInAppend
<1>8. ASSUME NEW i \in DOMAIN log,
             \/ \E f \in Fields : ChangeFields(i, f)
             \/ \E link \in {"prev", "hash"}, text \in Texts : ChangeLink(i, link, text)
      PROVE  LogTyped'
  <2>1. ASSUME NEW f \in Fields, ChangeFields(i, f)
        PROVE  LogTyped'
    <3>1. log' = [log EXCEPT ![i][1]["fields"] = f] /\ Suffers("damage")
      BY <2>1 DEF ChangeFields
    <3> QED
      BY <1>6, <3>1
  <2>2. ASSUME NEW link \in {"prev", "hash"}, NEW text, ChangeLink(i, link, text)
        PROVE  LogTyped'
    <3>1. log' = [log EXCEPT ![i][1][link] = text] /\ Suffers("relink")
      BY <2>2 DEF ChangeLink
    <3>2. link \in {"fields", "prev", "hash"} /\ link # "fields"
      OBVIOUS
    <3> QED
      BY <1>6, <3>1, <3>2
  <2> QED
    BY <1>8, <2>1, <2>2
<1>9. CASE UNCHANGED vars
  BY <1>9 DEF vars, LogTyped
<1> QED
  BY <1>3, <1>5, <1>7, <1>8, <1>9 DEF AuditNext

\* A record that links to the last one, at the end of a log that nothing has
\* happened to.
LEMMA HonestAppend ==
  ASSUME LogTyped, Honest, incidents = {}, NEW w \in Writers, record[w] # NoRecord,
         known[w] = LastHash, log' = Appended(record[w], "whole")
  PROVE  /\ \A i \in 1 .. Len(log') : Len(log'[i]) = 1 /\ log'[i][1].extent = "whole"
         /\ \A i \in 2 .. Len(log') : log'[i][1].prev = log'[i - 1][1].hash
         /\ LastHash' = record[w].hash
<1> DEFINE piece == [fields |-> record[w].fields, prev |-> record[w].prev,
                     hash |-> record[w].hash, extent |-> "whole"]
           line == <<piece>>
<1>1. Len(log) \in Nat /\ (log # <<>> <=> Len(log) # 0) /\ ~ Open
      /\ (log # <<>> => LastHash = log[Len(log)][1].hash)
  BY HonestLog
<1>2. log' = Append(log, line)
  BY <1>1 DEF Appended
<1>3. Len(line) = 1 /\ line[1] = piece
  OBVIOUS
<1>4. piece.extent = "whole" /\ piece.prev = LastHash /\ piece.hash = record[w].hash
  BY DEF LogTyped
<1> HIDE DEF line, piece
<1>5. /\ Len(log') = Len(log) + 1
      /\ \A i \in 1 .. Len(log) : log'[i] = log[i]
      /\ log'[Len(log) + 1] = line
  <2>1. PICK P : log \in Seq(Lines(P))
    BY DEF LogTyped
  <2> DEFINE Q == Lines(P) \cup {line}
  <2>2. log \in Seq(Q) /\ line \in Q
    <3>1. Lines(P) \subseteq Q /\ line \in Q
      OBVIOUS
    <3> HIDE DEF Q
    <3> QED
      BY <2>1, <3>1, SeqGrows
  <2> HIDE DEF Q
  <2> QED
    BY <1>2, <2>2, AppendProperties
<1>6. \A i \in 1 .. Len(log') : i \in 1 .. Len(log) \/ i = Len(log) + 1
  BY <1>1, <1>5
<1>7. \A i \in 1 .. Len(log') : Len(log'[i]) = 1 /\ log'[i][1].extent = "whole"
  BY <1>3, <1>4, <1>5, <1>6 DEF Honest
<1>8. ASSUME NEW i \in 2 .. Len(log')
      PROVE  log'[i][1].prev = log'[i - 1][1].hash
  <2>1. i - 1 \in 1 .. Len(log) /\ i \in 1 .. Len(log')
    BY <1>1, <1>5
  <2>2. CASE i = Len(log) + 1
    <3>1. i - 1 = Len(log) /\ log # <<>>
      BY <1>1, <2>1, <2>2
    <3> QED
      BY <1>1, <1>3, <1>4, <1>5, <2>1, <2>2, <3>1
  <2>3. CASE i # Len(log) + 1
    <3>1. i \in 2 .. Len(log) /\ i \in 1 .. Len(log)
      BY <1>1, <1>6, <2>1, <2>3
    <3> QED
      BY <1>5, <2>1, <3>1 DEF Honest
  <2> QED
    BY <2>2, <2>3
<1>9. LastHash' = record[w].hash
  <2>1. log' # <<>> /\ Last(log') = line
    BY <1>1, <1>5, EmptySeq DEF Last
  <2>2. DOMAIN line = {1}
    BY DEF line
  <2>3. StoredHash(line) = record[w].hash
    BY <1>3, <1>4, <2>2, OnePiece DEF Extents
  <2> QED
    BY <2>1, <2>3 DEF LastHash
<1> QED
  BY <1>7, <1>8, <1>9

LEMMA HonestNext ==
  ASSUME LogTyped, Honest, [AuditNext]_vars
  PROVE  Honest'
<1> SUFFICES ASSUME incidents' = {}
             PROVE  /\ \A i \in 1 .. Len(log') : Len(log'[i]) = 1 /\ log'[i][1].extent = "whole"
                    /\ \A i \in 2 .. Len(log') : log'[i][1].prev = log'[i - 1][1].hash
                    /\ \A w \in Writers \ behind' : known'[w] = LastHash'
  BY DEF Honest
<1>1. ASSUME UNCHANGED <<log, incidents>>, \A w \in Writers \ behind' : known'[w] = LastHash
      PROVE  Honest'
  BY <1>1 DEF Honest, LastHash
<1>2. ASSUME NEW w \in Writers, Attach(w) \/ \E f \in Fields : Finalize(w, f)
      PROVE  UNCHANGED <<log, incidents>> /\ \A v \in Writers \ behind' : known'[v] = LastHash
  BY <1>2 DEF Attach, Finalize, Honest, LogTyped
<1>3. ASSUME NEW w \in Writers, AppendRecord(w)
      PROVE  /\ \A i \in 1 .. Len(log') : Len(log'[i]) = 1 /\ log'[i][1].extent = "whole"
             /\ \A i \in 2 .. Len(log') : log'[i][1].prev = log'[i - 1][1].hash
             /\ \A v \in Writers \ behind' : known'[v] = LastHash'
  <2>1. /\ record[w] # NoRecord /\ log' = Appended(record[w], "whole")
        /\ behind' = behind \cup (Writers \ {w})
        /\ known' = [known EXCEPT ![w] = record[w].hash]
        /\ incidents = {} /\ w \notin behind
    BY <1>3 DEF AppendRecord, Puts, GoesOnFrom
  <2>2. known[w] = LastHash
    BY <2>1 DEF Honest
  <2>3. \A v \in Writers \ behind' : v = w /\ known'[v] = record[w].hash
    BY <2>1 DEF LogTyped
  <2> QED
    BY <2>1, <2>2, <2>3, HonestAppend
<1>4. ASSUME NEW w \in Writers, NEW e \in Extents \ {"whole"},
             AppendCut(w, e) \/ AppendFails(w, e) \/ CrashInAppend(w, e)
      PROVE  FALSE
  BY <1>4 DEF AppendCut, AppendFails, CrashInAppend, Puts
<1>5. ASSUME NEW i \in DOMAIN log,
             \/ LoseLine(i)
             \/ \E f \in Fields : ChangeFields(i, f)
             \/ \E link \in {"prev", "hash"}, text \in Texts : ChangeLink(i, link, text)
      PROVE  FALSE
  BY <1>5 DEF LoseLine, ChangeFields, ChangeLink, Suffers
<1>6. ASSUME UNCHANGED vars
      PROVE  UNCHANGED <<log, incidents>> /\ \A v \in Writers \ behind' : known'[v] = LastHash
  BY <1>6 DEF vars, Honest
<1>7. CASE UNCHANGED vars
  BY <1>1, <1>6, <1>7 DEF Honest
<1> QED
  BY <1>1, <1>2, <1>3, <1>4, <1>5, <1>7 DEF AuditNext, Honest

AuditInv == LogTyped /\ Honest

LEMMA AuditInvInit == ASSUME AuditInit PROVE AuditInv
<1>1. Pieces({}, {}) /\ <<>> \in Seq(Lines({})) /\ Len(<<>>) = 0
  BY EmptySeq DEF Pieces
<1>2. log = <<>> /\ written = 0 /\ behind = {} /\ incidents = {}
  BY DEF AuditInit
<1>3. /\ \A i \in 1 .. Len(log) : CutInside(log[i]) /\ Len(log[i]) = 1 /\ log[i][1].extent = "whole"
      /\ \A i \in 2 .. Len(log) : log[i][1].prev = log[i - 1][1].hash
  BY <1>1, <1>2
<1>4. /\ DOMAIN record = Writers /\ DOMAIN known = Writers
      /\ \A w \in Writers : record[w] = NoRecord /\ known[w] = LastHash
  BY DEF AuditInit, LastHash
<1>5. \E P : Pieces(P, incidents) /\ log \in Seq(Lines(P))
  BY <1>1, <1>2
<1>6. written \in 0 .. MaxRecords /\ behind \subseteq Writers /\ incidents \subseteq Incidents
  BY <1>2, AuditParameters
<1>7. LogTyped
  BY <1>3, <1>4, <1>5, <1>6 DEF LogTyped
<1>8. Honest
  BY <1>3, <1>4 DEF Honest
<1> QED
  BY <1>7, <1>8 DEF AuditInv

LEMMA AuditInvHolds == AuditSpec => []AuditInv
<1>1. AuditInv /\ [AuditNext]_vars => AuditInv'
  BY LogTypedNext, HonestNext DEF AuditInv
<1> QED
  BY <1>1, AuditInvInit, PTL DEF AuditSpec

\* audit_log_validate_chain never reports a log as tampered with in which each
\* record was appended by a writer that had looked for the end since another
\* wrote, and nothing was cut, lost or changed, however long it is and however
\* many writers took turns.
THEOREM HonestLogsAreValid == AuditSpec => []HonestIsValid
<1>1. ASSUME AuditInv PROVE HonestIsValid
  <2> USE <1>1 DEF AuditInv
  <2>1. PICK P : Pieces(P, incidents) /\ log \in Seq(Lines(P))
    BY DEF LogTyped
  <2>2. TypeOK
    <3>1. \A i \in DOMAIN log : \A j \in DOMAIN log[i] :
            /\ log[i][j].fields \in Fields
            /\ log[i][j].extent \in Extents
            /\ j < Len(log[i]) => log[i][j].extent # "whole"
      <4> SUFFICES ASSUME NEW i \in DOMAIN log, NEW j \in DOMAIN log[i]
                   PROVE  /\ log[i][j].fields \in Fields
                          /\ log[i][j].extent \in Extents
                          /\ j < Len(log[i]) => log[i][j].extent # "whole"
        OBVIOUS
      <4>1. /\ i \in 1 .. Len(log) /\ j \in 1 .. Len(log[i]) /\ Len(log[i]) \in Nat
            /\ PieceOK(log[i][j]) /\ CutInside(log[i])
        BY <2>1, LinesOfLog DEF LogTyped
      <4>2. j < Len(log[i]) => j \in 1 .. Len(log[i]) - 1
        BY <4>1
      <4> QED
        BY <4>1, <4>2 DEF PieceOK, CutInside
    <3> QED
      BY <3>1 DEF LogTyped, TypeOK
  <2>3. ASSUME incidents = {} PROVE ChainStatus \in {"EMPTY", "VALID"}
    <3>1. \A i \in DOMAIN log : LineOK(i)
      <4> SUFFICES ASSUME NEW i \in DOMAIN log PROVE LineOK(i)
        OBVIOUS
      <4>1. /\ i \in 1 .. Len(log) /\ Len(log) \in Nat
            /\ i > 1 => i \in 2 .. Len(log) /\ i - 1 \in 1 .. Len(log)
        <5>1. i \in 1 .. Len(log) /\ Len(log) \in Nat
          BY <2>1, LinesOfLog
        <5> QED
          BY <5>1
      <4>2. StoredHash(log[i]) # NoHash
        BY <2>3, <4>1, HonestLog
      <4>3. ASSUME i > 1 PROVE StoredPrev(log[i]) = StoredHash(log[i - 1])
        <5>1. log[i][1].prev = log[i - 1][1].hash
          BY <2>3, <4>1, <4>3 DEF Honest
        <5> QED
          BY <2>3, <4>1, <4>3, <5>1, HonestLog
      <4> QED
        BY <4>2, <4>3 DEF LineOK
    <3> QED
      BY <3>1 DEF ChainStatus
  <2> QED
    BY <2>2, <2>3 DEF HonestIsValid
<1> QED
  BY <1>1, AuditInvHolds, PTL

\* A log that is reported valid, has no line on which a cut record was
\* continued, and in which nobody changed the text of a hash, is the one its
\* last hash names: each line has the hash that the next was computed from,
\* however long the log is, whichever lines were lost or written again and
\* whichever fields were changed.
THEOREM ValidLogsAreUnbroken == AuditSpec => []ValidMeansUnbroken
<1>1. ASSUME AuditInv, "relink" \notin incidents, ChainStatus = "VALID",
             \A i \in DOMAIN log : Len(log[i]) = 1
      PROVE  \A i \in DOMAIN log : StoredHash(log[i]) = Ancestor[Len(log) - i]
  <2>1. PICK P : Pieces(P, incidents) /\ log \in Seq(Lines(P))
    BY <1>1 DEF AuditInv, LogTyped
  <2>2. Len(log) \in Nat \ {0} /\ DOMAIN log = 1 .. Len(log)
    <3>1. log # <<>>
      BY <1>1 DEF ChainStatus
    <3> QED
      BY <2>1, <3>1, LinesOfLog
  <2>3. ASSUME NEW i \in 1 .. Len(log)
        PROVE  /\ StoredHash(log[i]) # NoHash
               /\ i > 1 => StoredHash(log[i])[2] = StoredHash(log[i - 1])
    <3>1. LineOK(i)
      BY <1>1, <2>2 DEF ChainStatus
    <3>2. DOMAIN log[i] = {1} /\ PieceOK(log[i][1]) /\ Linked(log[i][1], incidents)
      <4>1. Len(log[i]) = 1 /\ DOMAIN log[i] = 1 .. 1 /\ 1 \in 1 .. 1
        BY <1>1, <2>1, <2>2, LinesOfLog
      <4> QED
        BY <2>1, <4>1, LinesOfLog
    <3>3. /\ StoredHash(log[i]) = log[i][1].hash /\ StoredPrev(log[i]) = log[i][1].prev
      BY <3>1, <3>2, OnePiece DEF PieceOK, LineOK
    <3> QED
      BY <1>1, <3>1, <3>2, <3>3 DEF LineOK, Linked
  <2> DEFINE N == 0 .. Len(log) - 1
             Body(f) == [n \in N |-> IF n = 0 THEN LastHash
                                     ELSE IF f[n - 1] = NoHash THEN NoHash ELSE f[n - 1][2]]
             chain == [n \in N |-> StoredHash(log[Len(log) - n])]
  <2>4. chain = Body(chain)
    <3>1. \A n \in N : Len(log) - n \in 1 .. Len(log)
      BY <2>2
    <3>2. ASSUME NEW n \in N, n # 0
          PROVE  chain[n - 1] # NoHash /\ chain[n] = chain[n - 1][2]
      <4>1. /\ n - 1 \in N /\ Len(log) - (n - 1) \in 1 .. Len(log) /\ Len(log) - (n - 1) > 1
            /\ Len(log) - (n - 1) - 1 = Len(log) - n
        BY <2>2, <3>2
      <4> QED
        BY <2>3, <4>1
    <3>3. 0 \in N /\ chain[0] = LastHash
      <4>1. LastHash = StoredHash(log[Len(log)]) /\ 0 \in N /\ Len(log) - 0 = Len(log)
        BY <2>2, EmptySeq DEF LastHash, Last
      <4> QED
        BY <4>1
    <3>4. \A n \in N : chain[n] = Body(chain)[n]
      BY <3>2, <3>3
    <3> QED
      BY <3>4
  <2>5. Ancestor = CHOOSE f : f = Body(f)
    BY SMT DEF Ancestor
  <2>6. Ancestor = Body(Ancestor)
    <3> HIDE DEF Body, chain
    <3> QED
      BY <2>4, <2>5
  <2> DEFINE Wrong == {n \in N : Ancestor[n] # chain[n]}
             Less == {p \in Nat \X Nat : p[1] < p[2]}
  <2>7. ASSUME Wrong # {} PROVE FALSE
    <3>1. IsWellFoundedOn(Less, Nat) /\ Wrong \in SUBSET Nat
      BY <2>2, NatLessThanWellFounded DEF OpToRel
    <3>2. PICK n \in Wrong : \A k \in Wrong : <<k, n>> \notin Less
      <4> HIDE DEF Wrong, Less
      <4> QED
        BY <2>7, <3>1, WFMin
    <3>3. /\ Ancestor[n] = Body(Ancestor)[n] /\ chain[n] = Body(chain)[n]
          /\ Ancestor[n] # chain[n] /\ n \in N
      <4> HIDE DEF Body, chain
      <4> QED
        BY <2>4, <2>6, <3>2
    <3>4. CASE n = 0
      <4> HIDE DEF chain
      <4> QED
        BY <3>3, <3>4
    <3>5. CASE n # 0
      <4>1. n - 1 \in N /\ <<n - 1, n>> \in Less
        BY <2>2, <3>3, <3>5
      <4>2. n - 1 \notin Wrong
        <5> HIDE DEF Wrong, Less
        <5> QED
          BY <3>2, <4>1
      <4>3. Ancestor[n - 1] = chain[n - 1]
        BY <4>1, <4>2
      <4> HIDE DEF chain
      <4> QED
        BY <3>3, <3>5, <4>3
    <3> QED
      BY <3>4, <3>5
  <2> QED
    <3> SUFFICES ASSUME NEW i \in DOMAIN log
                 PROVE  StoredHash(log[i]) = Ancestor[Len(log) - i]
      OBVIOUS
    <3>1. Len(log) - i \in N /\ Len(log) - (Len(log) - i) = i
      BY <2>2
    <3> QED
      BY <2>7, <3>1
<1>2. AuditInv => ValidMeansUnbroken
  BY <1>1 DEF ValidMeansUnbroken
<1> QED
  BY <1>2, AuditInvHolds, PTL

-----------------------------------------------------------------------------
(* What folder_erase leaves of a directory. *)

Activation == [dir: Dirs, listed: SUBSET Nodes, done: SUBSET Nodes]
FolderOptions == [remove_dirs: BOOLEAN, follow_mount: BOOLEAN, max_depth: Nat, passes: Nat,
                  remove_file: BOOLEAN]
FolderResults == [code: {"none", "OK", "FAILED", "DANGEROUS_PATH", "CYCLE_DETECTED"},
                  processed: Nat, succeeded: Nat, failed: Nat, dirs_removed: Nat,
                  symlinks_skipped: Nat]

\* FolderTypeOK, and what at and the stack hold in each phase.
FolderTyped ==
  /\ entries \in [Dirs -> SUBSET Nodes]
  /\ content \in [Files -> {"data", "erased"}]
  /\ relinked \in SUBSET (Dirs \X Dirs)
  /\ touched \in SUBSET Nodes
  /\ changes \in 0 .. MaxChanges
  /\ inside \in SUBSET Files
  /\ phase \in {"idle", "enter", "open", "read", "file", "done"}
  /\ opts \in FolderOptions
  /\ stack \in Seq(Activation)
  /\ at \in Nodes \cup {"none"}
  /\ seen \in SUBSET Dirs
  /\ result \in FolderResults
  /\ result.processed = result.succeeded + result.failed
  /\ phase \in {"enter", "open"} => at \in Dirs
  /\ phase = "file" => at \in Files
  /\ phase \in {"read", "file"} => stack # <<>>
  /\ phase \in {"idle", "done"} => stack = <<>>

Active == {stack[i].dir : i \in 1 .. Len(stack)}

\* The cycle detection knows the directory, or has no room for it.
Recorded(d) == d \in seen \/ ~ (Cardinality(seen) < MaxSeen)

Stays(d) == opts.follow_mount \/ ~ CrossMount(d)

\* The walk goes down from the root, on its device, and knows where it is.
OnCourse ==
  /\ stack # <<>> => stack[1].dir = Root
  /\ phase \in {"enter", "open"} /\ stack = <<>> => at = Root
  /\ Len(stack) <= opts.max_depth + 1
  /\ \A d \in Active : Recorded(d) /\ Stays(d)
  /\ \A i, j \in 1 .. Len(stack) :
       stack[i].dir = stack[j].dir => i = j \/ stack[i].dir \notin seen
  /\ phase = "open" =>
       /\ Len(stack) <= opts.max_depth
       /\ Recorded(at) /\ Stays(at)
       /\ at \in seen => at \notin Active

\* What was done to a file that was below the root.
Dealt(f) == content[f] = "erased" \/ f \in touched

\* No file below the root is lost before it is overwritten; the root goes last.
NothingLost ==
  /\ phase = "idle" => Root \in entries[Outside] \/ Root \in touched
  /\ phase # "idle" /\ opts.passes > 0 =>
       /\ \A f \in inside : Dealt(f) \/ f \in Below(Root)
       /\ Root \notin entries[Outside] /\ Root \notin touched => \A f \in inside : Dealt(f)

\* The files and directories that names lead to are below; so is what they name.
LEMMA BelowIsClosed ==
  ASSUME FolderTyped, NEW d \in Dirs
  PROVE  /\ Below(d) \in SUBSET Nodes
         /\ entries[d] \subseteq Below(d)
         /\ \A x \in Below(d) \cap Dirs : entries[x] \subseteq Below(d)
<1>1. \A x \in Dirs : entries[x] \in SUBSET Nodes
  BY DEF FolderTyped
<1>2. Below(d) \in SUBSET Nodes
  BY DEF Below
<1>3. entries[d] \subseteq Below(d)
  BY <1>1 DEF Below
<1>4. ASSUME NEW x \in Below(d) \cap Dirs, NEW n \in entries[x]
      PROVE  n \in Below(d)
  <2>1. n \in Nodes
    BY <1>1
  <2>2. ASSUME NEW S \in SUBSET Nodes, entries[d] \subseteq S,
               \A y \in S \cap Dirs : entries[y] \subseteq S
        PROVE  n \in S
    <3>1. x \in S
      BY <2>2 DEF Below
    <3> QED
      BY <2>2, <3>1
  <2> QED
    BY <2>1, <2>2 DEF Below
<1> QED
  BY <1>2, <1>3, <1>4

\* When names of a set of nodes that leads nowhere else are taken away, what
\* was below the root is still there, or in the set.
LEMMA BelowKeeps ==
  ASSUME FolderTyped, FolderTyped', NEW lost \in SUBSET Nodes,
         \A x \in Dirs : entries[x] \subseteq entries'[x] \cup lost,
         \A x \in lost \cap Dirs : entries[x] \subseteq lost
  PROVE  Below(Root) \subseteq Below(Root)' \cup lost
<1>1. Root \in Dirs
  BY FolderParameters
<1>2. SUFFICES ASSUME NEW n \in Below(Root), n \notin lost,
                      NEW S \in SUBSET Nodes, entries'[Root] \subseteq S,
                      \A x \in S \cap Dirs : entries'[x] \subseteq S
               PROVE  n \in S
  <2>1. \A n \in Below(Root) : n \in Nodes
    BY DEF Below
  <2> QED
    BY <2>1 DEF Below
<1> DEFINE T == S \cup lost
<1>3. T \in SUBSET Nodes
  OBVIOUS
<1>4. entries[Root] \subseteq T
  BY <1>1, <1>2
<1>5. \A x \in T \cap Dirs : entries[x] \subseteq T
  BY <1>2
<1>6. n \in T
  <2> HIDE DEF T
  <2> QED
    BY <1>2, <1>3, <1>4, <1>5 DEF Below
<1> QED
  BY <1>2, <1>6

\* Nodes holds the files and the directories.
LEMMA FolderConstants ==
  /\ Outside \in Dirs /\ Root \in Dirs /\ Outside # Root
  /\ Dirs \in SUBSET Nodes /\ Files \in SUBSET Nodes /\ Files \cap Dirs = {}
  /\ \A d \in Depths \cup PassCounts : d \in Nat
  /\ MaxSeen \in Nat /\ MaxChanges \in Nat
BY FolderParameters DEF Nodes

\* The stack without its last activation.
LEMMA PoppedStack ==
  ASSUME stack \in Seq(Activation), stack # <<>>
  PROVE  LET rest == SubSeq(stack, 1, Len(stack) - 1)
         IN /\ rest \in Seq(Activation)
            /\ Len(rest) = Len(stack) - 1
            /\ \A i \in 1 .. Len(stack) - 1 : rest[i] = stack[i]
            /\ rest = <<>> <=> Len(stack) = 1
<1>1. Len(stack) \in Nat \ {0}
  BY EmptySeq, LenProperties
<1>2. \A i \in 1 .. Len(stack) - 1 : stack[i] \in Activation
  BY <1>1, LenProperties
<1> DEFINE n == Len(stack) - 1
           rest == SubSeq(stack, 1, n)
<1>3. rest \in Seq(Activation) /\ Len(rest) = n /\ \A i \in 1 .. n : rest[i] = stack[i]
  <2>1. n \in Nat /\ 1 \in Int
    BY <1>1
  <2>2. \A i \in 1 .. n : stack[i] \in Activation
    BY <1>2
  <2> HIDE DEF n
  <2>3. /\ rest \in Seq(Activation)
        /\ Len(rest) = IF 1 <= n THEN n - 1 + 1 ELSE 0
        /\ \A i \in 1 .. n - 1 + 1 : rest[i] = stack[1 + i - 1]
    BY <2>1, <2>2, SubSeqProperties
  <2> HIDE DEF rest
  <2>4. n - 1 + 1 = n /\ \A i \in 1 .. n : 1 + i - 1 = i
    BY <2>1
  <2> QED
    BY <2>1, <2>3, <2>4
<1> HIDE DEF rest
<1>4. rest = <<>> <=> Len(rest) = 0
  BY <1>3, EmptySeq
<1>5. rest = <<>> <=> Len(stack) = 1
  BY <1>1, <1>3, <1>4
<1> QED
  BY <1>3, <1>5 DEF rest

\* One more of what the result counts, with or without the code.
LEMMA CountedTyped ==
  ASSUME result \in FolderResults, result.processed = result.succeeded + result.failed,
         \/ result' = [result EXCEPT !.processed = @ + 1, !.succeeded = @ + 1]
         \/ result' = [result EXCEPT !.processed = @ + 1, !.failed = @ + 1]
         \/ result' = [result EXCEPT !.dirs_removed = @ + 1]
         \/ result' = [result EXCEPT !.dirs_removed = @ + 1, !.code = "OK"]
  PROVE  result' \in FolderResults /\ result'.processed = result'.succeeded + result'.failed
<1>1. ASSUME NEW r \in FolderResults
      PROVE  /\ [r EXCEPT !.processed = @ + 1] \in FolderResults
             /\ [r EXCEPT !.succeeded = @ + 1] \in FolderResults
             /\ [r EXCEPT !.failed = @ + 1] \in FolderResults
             /\ [r EXCEPT !.dirs_removed = @ + 1] \in FolderResults
             /\ [r EXCEPT !.code = "OK"] \in FolderResults
  BY DEF FolderResults
<1>2. result' \in FolderResults
  <2> DEFINE processed == [result EXCEPT !.processed = @ + 1]
             removed == [result EXCEPT !.dirs_removed = @ + 1]
  <2>1. processed \in FolderResults /\ removed \in FolderResults
    BY <1>1
  <2>2. /\ [result EXCEPT !.processed = @ + 1, !.succeeded = @ + 1] =
              [processed EXCEPT !.succeeded = @ + 1]
        /\ [result EXCEPT !.processed = @ + 1, !.failed = @ + 1] =
              [processed EXCEPT !.failed = @ + 1]
        /\ [result EXCEPT !.dirs_removed = @ + 1, !.code = "OK"] = [removed EXCEPT !.code = "OK"]
    BY DEF FolderResults
  <2>3. result' = removed \/ result' # [result EXCEPT !.dirs_removed = @ + 1]
    OBVIOUS
  <2> HIDE DEF processed, removed
  <2>4. /\ [processed EXCEPT !.succeeded = @ + 1] \in FolderResults
        /\ [processed EXCEPT !.failed = @ + 1] \in FolderResults
        /\ [removed EXCEPT !.code = "OK"] \in FolderResults
    BY <1>1, <2>1
  <2> QED
    BY <2>1, <2>2, <2>3, <2>4
<1>3. result'.processed = result'.succeeded + result'.failed
  <2>1. \/ /\ result'.processed = result.processed + 1
           /\ \/ result'.succeeded = result.succeeded + 1 /\ result'.failed = result.failed
              \/ result'.succeeded = result.succeeded /\ result'.failed = result.failed + 1
        \/ /\ result'.processed = result.processed
           /\ result'.succeeded = result.succeeded /\ result'.failed = result.failed
    BY DEF FolderResults
  <2>2. result.processed \in Nat /\ result.succeeded \in Nat /\ result.failed \in Nat
    BY DEF FolderResults
  <2> QED
    BY <2>1, <2>2
<1> QED
  BY <1>2, <1>3

\* Return leaves an activation, or answers the caller.
LEMMA ReturnTyped ==
  ASSUME FolderTyped, NEW st \in Seq(Activation),
         NEW code \in {"OK", "FAILED", "CYCLE_DETECTED"}, Return(st, code)
  PROVE  /\ stack' = st
         /\ at' \in Nodes \cup {"none"}
         /\ phase' \in {"read", "done"}
         /\ phase' = "read" <=> st # <<>>
         /\ result' \in FolderResults
         /\ result'.processed = result'.succeeded + result'.failed
BY DEF Return, FolderTyped, FolderResults

LEMMA FolderTypedInit == ASSUME FolderInit PROVE FolderTyped
<1>1. entries \in [Dirs -> SUBSET Nodes]
  BY FolderParameters DEF FolderInit
<1>2. <<>> \in Seq(Activation)
  BY EmptySeq
<1> QED
  BY <1>1, <1>2, FolderConstants DEF FolderInit, FolderTyped, FolderOptions, FolderResults, NoResult

LEMMA FolderTypedNext ==
  ASSUME FolderTyped, [FolderNext]_dvars
  PROVE  FolderTyped'
<1> USE FolderConstants
<1>1. ASSUME NEW dangerous \in BOOLEAN, NEW o \in Options, Call(dangerous, o)
      PROVE  FolderTyped'
  <2>1. o \in FolderOptions
    BY DEF Options, FolderOptions
  <2>2. /\ inside' \in SUBSET Files /\ opts' \in FolderOptions
        /\ UNCHANGED <<entries, content, relinked, touched, changes, stack, seen>>
        /\ stack = <<>>
    BY <1>1, <2>1 DEF Call, env, FolderTyped
  <2>3. /\ phase' \in {"done", "enter"} /\ at' \in Nodes \cup {"none"}
        /\ phase' = "enter" => at' \in Dirs
    BY <1>1 DEF Call, FolderTyped
  <2>4. result' \in FolderResults /\ result'.processed = result'.succeeded + result'.failed
    BY <1>1 DEF Call, FolderTyped, FolderResults
  <2> QED
    BY <2>2, <2>3, <2>4 DEF FolderTyped
<1>2. CASE Enter
  <2>1. /\ UNCHANGED <<entries, content, relinked, touched, changes, inside, opts>>
        /\ at \in Dirs
    BY <1>2 DEF Enter, env, FolderTyped
  <2>2. CASE Verdict # "none" /\ Return(stack, Verdict) /\ UNCHANGED seen
    <3>1. Verdict \in {"OK", "FAILED", "CYCLE_DETECTED"}
      BY <2>2 DEF Verdict
    <3>2. stack \in Seq(Activation)
      BY DEF FolderTyped
    <3>3. /\ stack' = stack /\ at' \in Nodes \cup {"none"}
          /\ phase' \in {"read", "done"} /\ (phase' = "read" <=> stack # <<>>)
          /\ result' \in FolderResults
          /\ result'.processed = result'.succeeded + result'.failed
      BY <2>2, <3>1, <3>2, ReturnTyped
    <3> QED
      BY <2>1, <2>2, <3>3 DEF FolderTyped
  <2>3. CASE phase' = "open" /\ UNCHANGED <<stack, at, result>>
    <3>1. seen' \in SUBSET Dirs
      BY <1>2, <2>1, <2>2, <2>3 DEF Enter, FolderTyped, Return
    <3> QED
      BY <2>1, <2>3, <3>1 DEF FolderTyped
  <2> QED
    BY <1>2, <2>2, <2>3 DEF Enter
<1>3. CASE OpenDir
  <2>1. /\ UNCHANGED <<entries, content, relinked, touched, changes, inside, opts, seen>>
        /\ at \in Dirs
    BY <1>3 DEF OpenDir, env, FolderTyped
  <2>2. CASE Return(stack, "FAILED")
    <3>2. stack \in Seq(Activation)
      BY DEF FolderTyped
    <3>3. /\ stack' = stack /\ at' \in Nodes \cup {"none"}
          /\ phase' \in {"read", "done"} /\ (phase' = "read" <=> stack # <<>>)
          /\ result' \in FolderResults
          /\ result'.processed = result'.succeeded + result'.failed
      BY <2>2, <3>2, ReturnTyped
    <3> QED
      BY <2>1, <3>3 DEF FolderTyped
  <2>3. CASE /\ stack' = Append(stack, [dir |-> at, listed |-> Names(at), done |-> {}])
             /\ at' = "none" /\ phase' = "read" /\ UNCHANGED result
    <3>1. [dir |-> at, listed |-> Names(at), done |-> {}] \in Activation
      BY <2>1 DEF Activation, FolderTyped, Names
    <3>2. stack' \in Seq(Activation) /\ stack' # <<>>
      BY <2>3, <3>1, AppendProperties DEF FolderTyped
    <3> QED
      BY <2>1, <2>3, <3>2 DEF FolderTyped
  <2> QED
    BY <1>3, <2>2, <2>3 DEF OpenDir
<1>4. CASE ReadEntry
  <2>1. /\ UNCHANGED <<entries, content, relinked, touched, changes, inside, opts, seen>>
        /\ stack # <<>>
    BY <1>4 DEF ReadEntry, env, FolderTyped
  <2>2. Len(stack) \in 1 .. Len(stack) /\ Top \in Activation
    BY <2>1, EmptySeq, LenProperties, ElementOfSeq DEF FolderTyped, Top
  <2>3. PICK n \in (Top.listed \cup Names(Top.dir)) \ Top.done :
          /\ stack' = [stack EXCEPT ![Len(stack)].done = @ \cup {n}]
          /\ \/ UNCHANGED <<phase, at, result>>
             \/ /\ result' = [result EXCEPT !.symlinks_skipped = @ + 1]
                /\ UNCHANGED <<phase, at>>
             \/ /\ n \in Files \cup Dirs
                /\ phase' = IF n \in Files THEN "file" ELSE "enter"
                /\ at' = n
                /\ UNCHANGED result
    BY <1>4 DEF ReadEntry
  <2>4. n \in Nodes
    BY <2>2 DEF Activation, FolderTyped, Names
  <2>5. [Top EXCEPT !.done = @ \cup {n}] \in Activation
    BY <2>2, <2>4 DEF Activation
  <2>6. stack' = [stack EXCEPT ![Len(stack)] = [Top EXCEPT !.done = @ \cup {n}]]
    BY <2>3 DEF Top
  <2>7. stack' \in Seq(Activation) /\ Len(stack') = Len(stack)
    BY <2>2, <2>5, <2>6, ExceptSeq DEF FolderTyped
  <2>8. stack' # <<>>
    BY <2>2, <2>7
  <2>9. result' \in FolderResults /\ result'.processed = result'.succeeded + result'.failed
    BY <2>3 DEF FolderTyped, FolderResults
  <2>10. /\ phase' \in {"read", "file", "enter"}
         /\ at' \in Nodes \cup {"none"}
         /\ phase' = "enter" => at' \in Dirs
         /\ phase' = "file" => at' \in Files
    BY <1>4, <2>3, <2>4 DEF FolderTyped, ReadEntry
  <2> QED
    BY <2>1, <2>7, <2>8, <2>9, <2>10 DEF FolderTyped
<1>5. CASE EraseEntry
  <2>1. /\ UNCHANGED <<relinked, touched, changes, inside, opts, stack, seen>>
        /\ phase' = "read" /\ at' = "none" /\ stack # <<>>
    BY <1>5 DEF EraseEntry, FolderTyped
  <2>2. content' \in [Files -> {"data", "erased"}]
    BY <1>5 DEF EraseEntry, FolderTyped
  <2>3. entries' \in [Dirs -> SUBSET Nodes]
    BY <1>5 DEF EraseEntry, FolderTyped
  <2>4. result' \in FolderResults /\ result'.processed = result'.succeeded + result'.failed
    <3>1. \/ result' = [result EXCEPT !.processed = @ + 1, !.succeeded = @ + 1]
          \/ result' = [result EXCEPT !.processed = @ + 1, !.failed = @ + 1]
      BY <1>5 DEF EraseEntry
    <3> QED
      BY <3>1, CountedTyped DEF FolderTyped
  <2> QED
    BY <2>1, <2>2, <2>3, <2>4 DEF FolderTyped
<1>6. ASSUME NEW at_end \in BOOLEAN, Leave(at_end)
      PROVE  FolderTyped'
  <2>1. /\ UNCHANGED <<content, relinked, touched, changes, inside, opts, seen>> /\ stack # <<>>
    BY <1>6 DEF Leave, FolderTyped
  <2> DEFINE rest == SubSeq(stack, 1, Len(stack) - 1)
  <2>2. /\ rest \in Seq(Activation)
        /\ rest = <<>> <=> Len(stack) = 1
    BY <2>1, PoppedStack DEF FolderTyped
  <2> HIDE DEF rest
  <2>3. CASE UNCHANGED entries /\ Return(rest, "OK")
    <3>1. /\ stack' = rest /\ at' \in Nodes \cup {"none"}
          /\ phase' \in {"read", "done"} /\ (phase' = "read" <=> rest # <<>>)
          /\ result' \in FolderResults
          /\ result'.processed = result'.succeeded + result'.failed
      BY <2>2, <2>3, ReturnTyped
    <3> QED
      BY <2>1, <2>2, <2>3, <3>1 DEF FolderTyped
  <2>4. CASE /\ entries' \in [Dirs -> SUBSET Nodes]
             /\ stack' = rest
             /\ at' = "none"
             /\ phase' = IF Len(stack) = 1 THEN "done" ELSE "read"
             /\ result' = [result EXCEPT !.dirs_removed = @ + 1,
                                         !.code = IF Len(stack) = 1 THEN "OK" ELSE @]
    <3>1. result' \in FolderResults /\ result'.processed = result'.succeeded + result'.failed
      <4>1. [result EXCEPT !.dirs_removed = @ + 1, !.code = @] =
          [result EXCEPT !.dirs_removed = @ + 1]
        BY DEF FolderTyped, FolderResults
      <4> QED
        BY <2>4, <4>1, CountedTyped DEF FolderTyped
    <3> QED
      BY <2>1, <2>2, <2>4, <3>1 DEF FolderTyped
  <2>5. \A d : [entries EXCEPT ![d] = @ \ {Top.dir}] \in [Dirs -> SUBSET Nodes]
    BY DEF FolderTyped
  <2> QED
    BY <1>6, <2>3, <2>4, <2>5 DEF Leave, rest
<1>7. ASSUME NEW n \in Nodes, NEW d \in Dirs, NEW e \in Dirs, Rename(n, d, e),
             relinked' \in SUBSET (Dirs \X Dirs)
      PROVE  FolderTyped'
  <2>1. n \in Dirs => Below(n) \in SUBSET Nodes
    BY DEF Below
  <2> QED
    BY <1>7, <2>1 DEF Rename, Change, walk, FolderTyped
<1>8. ASSUME NEW f \in Files, NEW d \in Dirs, Create(f, d) \/ Unlink(f, d)
      PROVE  FolderTyped'
  BY <1>8 DEF Create, Unlink, Change, walk, FolderTyped
<1>9. ASSUME NEW f \in Files, Write(f)
      PROVE  FolderTyped'
  BY <1>9 DEF Write, Change, walk, FolderTyped
<1>10. CASE UNCHANGED dvars
  BY <1>10 DEF dvars, env, walk, FolderTyped
<1>11. ASSUME NEW n \in Nodes, NEW d \in Dirs, NEW e \in Dirs,
              Move(n, d, e) \/ (n \in Dirs /\ Relocate(n, d, e))
       PROVE  FolderTyped'
  <2>1. Rename(n, d, e) /\ relinked' \in SUBSET (Dirs \X Dirs)
    BY <1>11 DEF Move, Relocate, FolderTyped
  <2> QED
    BY <1>7, <2>1
<1> QED
  <2>1. ASSUME NEW n \in Dirs, NEW d \in Dirs, NEW e \in Dirs, Relocate(n, d, e)
        PROVE  FolderTyped'
    BY <1>11, <2>1
  <2> QED
    BY <1>1, <1>2, <1>3, <1>4, <1>5, <1>6, <1>8, <1>9, <1>10, <1>11, <2>1 DEF FolderNext

-----------------------------------------------------------------------------
(* The walk keeps its course. *)

\* The directories of a stack that has one activation less.
LEMMA PoppedActive ==
  ASSUME FolderTyped, stack # <<>>, stack' = SubSeq(stack, 1, Len(stack) - 1)
  PROVE  /\ Len(stack') = Len(stack) - 1
         /\ \A i \in 1 .. Len(stack') : i \in 1 .. Len(stack) /\ stack'[i] = stack[i]
         /\ Active' \subseteq Active
<1>1. /\ Len(stack') = Len(stack) - 1
      /\ \A i \in 1 .. Len(stack) - 1 : stack'[i] = stack[i]
  BY PoppedStack DEF FolderTyped
<1>2. Len(stack) \in Nat
  BY LenProperties DEF FolderTyped
<1>3. \A i \in 1 .. Len(stack') : i \in 1 .. Len(stack) /\ stack'[i] = stack[i]
  BY <1>1, <1>2
<1> QED
  BY <1>1, <1>3 DEF Active

\* A return to an activation of the stack, or to the caller.
LEMMA ReturnOnCourse ==
  ASSUME FolderTyped, FolderTyped', OnCourse, UNCHANGED <<opts, seen>>,
         phase' \in {"read", "done"},
         \/ stack' = stack
         \/ stack # <<>> /\ stack' = SubSeq(stack, 1, Len(stack) - 1)
  PROVE  OnCourse'
<1>1. Len(stack) \in Nat /\ Len(stack') \in Nat /\ opts.max_depth \in Nat
  BY LenProperties DEF FolderTyped, FolderOptions
<1>2. /\ Len(stack') <= Len(stack)
      /\ \A i \in 1 .. Len(stack') : i \in 1 .. Len(stack) /\ stack'[i] = stack[i]
      /\ Active' \subseteq Active
  BY <1>1, PoppedActive DEF Active
<1>3. \A d : (Recorded(d)' <=> Recorded(d)) /\ (Stays(d)' <=> Stays(d))
  BY DEF Recorded, Stays, CrossMount
<1>4. stack' # <<>> => stack # <<>> /\ stack'[1] = stack[1]
  <2>1. stack' # <<>> => 1 \in 1 .. Len(stack')
    BY EmptySeq DEF FolderTyped
  <2> QED
    BY <1>2, <2>1, EmptySeq, <1>1
<1>5. Len(stack') <= opts'.max_depth + 1
  BY <1>1, <1>2 DEF OnCourse
<1>6. \A d \in Active' : Recorded(d)' /\ Stays(d)'
  BY <1>2, <1>3 DEF OnCourse
<1>7. \A i, j \in 1 .. Len(stack') :
        stack'[i].dir = stack'[j].dir => i = j \/ stack'[i].dir \notin seen'
  BY <1>2 DEF OnCourse
<1> QED
  BY <1>4, <1>5, <1>6, <1>7 DEF OnCourse

LEMMA OnCourseNext ==
  ASSUME FolderTyped, FolderTyped', OnCourse, [FolderNext]_dvars
  PROVE  OnCourse'
<1> USE FolderConstants
<1>0. Len(stack) \in Nat /\ Len(stack') \in Nat /\ opts.max_depth \in Nat /\ opts'.max_depth \in Nat
  BY LenProperties DEF FolderTyped, FolderOptions
<1>1. ASSUME NEW dangerous \in BOOLEAN, NEW o \in Options, Call(dangerous, o)
      PROVE  OnCourse'
  <2>1. stack = <<>> /\ stack' = stack /\ phase' # "open" /\ (phase' = "enter" => at' = Root)
    BY <1>1 DEF Call, FolderTyped
  <2>2. Len(stack') = 0 /\ Active' = {}
    BY <2>1, EmptySeq DEF Active
  <2> QED
    BY <1>0, <2>1, <2>2 DEF OnCourse
<1>2. CASE Enter
  <2>1. UNCHANGED opts
    BY <1>2 DEF Enter
  <2>2. CASE Verdict # "none" /\ Return(stack, Verdict) /\ UNCHANGED seen
    BY <2>1, <2>2, ReturnOnCourse DEF Return
  <2>3. CASE /\ Verdict = "none"
             /\ seen' = IF Cardinality(seen) < MaxSeen THEN seen \cup {at} ELSE seen
             /\ phase' = "open"
             /\ UNCHANGED <<stack, at, result>>
    <3>1. ~ (Len(stack) > opts.max_depth) /\ Stays(at) /\ at \notin seen
      BY <2>3 DEF Verdict, Stays
    <3>2. Active' = Active /\ \A d : Stays(d)' <=> Stays(d)
      BY <2>1, <2>3 DEF Active, Stays, CrossMount
    <3>3. at \in Active => ~ (Cardinality(seen) < MaxSeen)
      BY <3>1 DEF OnCourse, Recorded
    <3>4. \A d : Recorded(d) => Recorded(d)'
      BY <2>3 DEF Recorded
    <3>5. Recorded(at)'
      BY <2>3 DEF Recorded
    <3>6. at' \in seen' => at' \notin Active'
      BY <2>3, <3>1, <3>2, <3>3
    <3>7. ASSUME NEW i \in 1 .. Len(stack), NEW j \in 1 .. Len(stack),
                 stack[i].dir = stack[j].dir, i # j
          PROVE  stack[i].dir \notin seen'
      <4>1. stack[i].dir \in Active
        BY DEF Active
      <4>2. stack[i].dir \notin seen
        BY <3>7 DEF OnCourse
      <4> QED
        BY <2>3, <3>3, <4>1, <4>2
    <3>8. phase = "enter" /\ Len(stack') = Len(stack)
      BY <1>2, <2>3 DEF Enter
    <3> QED
      BY <1>0, <2>1, <2>3, <3>1, <3>2, <3>4, <3>5, <3>6, <3>7, <3>8 DEF OnCourse
  <2> QED
    BY <1>2, <2>2, <2>3 DEF Enter
<1>3. CASE OpenDir
  <2>1. UNCHANGED <<opts, seen>> /\ phase = "open"
    BY <1>3 DEF OpenDir
  <2>2. CASE Return(stack, "FAILED")
    BY <2>1, <2>2, ReturnOnCourse DEF Return
  <2>3. CASE /\ stack' = Append(stack, [dir |-> at, listed |-> Names(at), done |-> {}])
             /\ at' = "none" /\ phase' = "read"
    <3>1. at \in Dirs
      BY <2>1 DEF FolderTyped
    <3> DEFINE new == [dir |-> at, listed |-> Names(at), done |-> {}]
    <3>2. new \in Activation /\ new.dir = at
      BY <3>1 DEF Activation, FolderTyped, Names
    <3> HIDE DEF new
    <3>3. stack \in Seq(Activation) /\ stack' = Append(stack, new)
      BY <2>3 DEF FolderTyped, new
    <3>4. /\ Len(stack') = Len(stack) + 1
          /\ \A i \in 1 .. Len(stack) : stack'[i] = stack[i]
          /\ stack'[Len(stack) + 1] = new
      BY <3>2, <3>3, AppendProperties
    <3>5. \A i \in 1 .. Len(stack') :
            \/ i \in 1 .. Len(stack) /\ stack'[i] = stack[i]
            \/ i = Len(stack) + 1 /\ stack'[i] = new
      BY <1>0, <3>4
    <3>6. Active' = Active \cup {at}
      <4>1. Len(stack) + 1 \in 1 .. Len(stack')
        BY <1>0, <3>4
      <4>2. \A i \in 1 .. Len(stack) : i \in 1 .. Len(stack')
        BY <1>0, <3>4
      <4> QED
        BY <3>2, <3>4, <3>5, <4>1, <4>2 DEF Active
    <3>7. \A d : (Recorded(d)' <=> Recorded(d)) /\ (Stays(d)' <=> Stays(d))
      BY <2>1 DEF Recorded, Stays, CrossMount
    <3>8. stack'[1].dir = Root
      <4>1. CASE stack = <<>>
        BY <2>1, <3>2, <3>4, <4>1, EmptySeq DEF OnCourse
      <4>2. CASE stack # <<>>
        <5>1. 1 \in 1 .. Len(stack)
          BY <3>3, <4>2, EmptySeq
        <5> QED
          BY <3>4, <4>2, <5>1 DEF OnCourse
      <4> QED
        BY <4>1, <4>2
    <3>9. \A d \in Active' : Recorded(d)' /\ Stays(d)'
      BY <2>1, <3>6, <3>7 DEF OnCourse
    <3>10. \A i, j \in 1 .. Len(stack') :
             stack'[i].dir = stack'[j].dir => i = j \/ stack'[i].dir \notin seen'
      <4>1. at \in seen => \A i \in 1 .. Len(stack) : stack[i].dir # at
        BY <2>1 DEF OnCourse, Active
      <4>2. \A i, j \in 1 .. Len(stack) :
              stack[i].dir = stack[j].dir => i = j \/ stack[i].dir \notin seen
        BY DEF OnCourse
      <4> QED
        BY <2>1, <3>2, <3>5, <4>1, <4>2
    <3>11. Len(stack') <= opts'.max_depth + 1
      BY <1>0, <2>1, <3>4 DEF OnCourse
    <3> QED
      BY <2>3, <3>8, <3>9, <3>10, <3>11 DEF OnCourse
  <2> QED
    BY <1>3, <2>2, <2>3 DEF OpenDir
<1>4. CASE ReadEntry
  <2>1. UNCHANGED <<opts, seen>> /\ phase' # "open" /\ stack # <<>>
    BY <1>4 DEF ReadEntry, FolderTyped
  <2>2. PICK n : stack' = [stack EXCEPT ![Len(stack)].done = @ \cup {n}]
    BY <1>4 DEF ReadEntry
  <2>3. /\ Len(stack) \in 1 .. Len(stack) /\ stack # <<>>
        /\ stack \in [1 .. Len(stack) -> Activation]
    BY <2>1, EmptySeq, LenProperties DEF FolderTyped
  <2>4. Len(stack') = Len(stack) /\ \A i \in 1 .. Len(stack) : stack'[i].dir = stack[i].dir
    <3>1. stack' \in [1 .. Len(stack) -> Activation]
      <4>1. DOMAIN stack' = DOMAIN stack
        BY <2>2
      <4> QED
        BY <2>3, <4>1, LenProperties DEF FolderTyped
    <3>2. Len(stack') = Len(stack)
      BY <1>0, <2>3, <3>1, LenProperties DEF FolderTyped
    <3>3. \A i \in 1 .. Len(stack) : stack'[i].dir = stack[i].dir
      BY <2>2, <2>3 DEF Activation
    <3> QED
      BY <3>2, <3>3
  <2>5. Active' = Active /\ \A d : (Recorded(d)' <=> Recorded(d)) /\ (Stays(d)' <=> Stays(d))
    BY <2>1, <2>4 DEF Active, Recorded, Stays, CrossMount
  <2>6. stack' # <<>> /\ stack'[1].dir = Root
    <3>1. 1 \in 1 .. Len(stack)
      BY <1>0, <2>3
    <3> QED
      BY <2>3, <2>4, <3>1, EmptySeq DEF OnCourse
  <2>7. \A i, j \in 1 .. Len(stack') :
          stack'[i].dir = stack'[j].dir => i = j \/ stack'[i].dir \notin seen'
    BY <2>1, <2>4 DEF OnCourse
  <2> QED
    BY <2>1, <2>4, <2>5, <2>6, <2>7 DEF OnCourse
<1>5. CASE EraseEntry
  <2>1. UNCHANGED <<opts, stack, seen>> /\ phase' = "read"
    BY <1>5 DEF EraseEntry
  <2> QED
    BY <2>1, ReturnOnCourse
<1>6. ASSUME NEW at_end \in BOOLEAN, Leave(at_end)
      PROVE  OnCourse'
  <2>1. /\ UNCHANGED <<opts, seen>> /\ phase' \in {"read", "done"} /\ stack # <<>>
        /\ stack' = SubSeq(stack, 1, Len(stack) - 1)
    BY <1>6 DEF Leave, FolderTyped, Return
  <2> QED
    BY <2>1, ReturnOnCourse
<1>7. CASE UNCHANGED walk
  BY <1>7 DEF walk, OnCourse, Active, Recorded, Stays, CrossMount
<1>8. CASE \/ \E n \in Nodes, d, e \in Dirs : Move(n, d, e)
           \/ \E n, d, e \in Dirs : Relocate(n, d, e)
           \/ \E f \in Files, d \in Dirs : Create(f, d) \/ Unlink(f, d)
           \/ \E f \in Files : Write(f)
           \/ UNCHANGED dvars
  BY <1>7, <1>8 DEF Move, Relocate, Rename, Create, Unlink, Write, Change, dvars
<1> QED
  BY <1>1, <1>2, <1>3, <1>4, <1>5, <1>6, <1>8 DEF FolderNext

-----------------------------------------------------------------------------
(* Nothing below the root is lost. *)

\* A step after the call, or of the other process: what it takes away is a set
\* of nodes that leads nowhere else, of which the files have been dealt with,
\* and which the root is in only when it is empty or taken by that process.
LEMMA NothingLostBy ==
  ASSUME FolderTyped, FolderTyped', NothingLost, NEW lost \in SUBSET Nodes,
         UNCHANGED <<inside, opts>>, phase = "idle" <=> phase' = "idle",
         touched \subseteq touched',
         \A x \in Dirs : entries[x] \subseteq entries'[x] \cup lost,
         \A x \in lost \cap Dirs : entries[x] \subseteq lost,
         opts.passes > 0 => \A f \in Files : Dealt(f) => Dealt(f)',
         opts.passes > 0 => \A f \in lost \cap Files : Dealt(f)',
         Root \in lost => Root \in touched' \/ (entries[Root] = {} /\ phase # "idle")
  PROVE  NothingLost'
<1> USE FolderConstants
<1>1. Below(Root) \subseteq Below(Root)' \cup lost
  BY BelowKeeps
<1>2. entries[Root] = {} => Below(Root) = {}
  <2>1. ASSUME entries[Root] = {}, NEW n \in Below(Root)
        PROVE  FALSE
    <3>1. {} \in SUBSET Nodes /\ entries[Root] \subseteq {} /\
          \A x \in {} \cap Dirs : entries[x] \subseteq {}
      BY <2>1
    <3>2. n \in {}
      BY <3>1 DEF Below
    <3> QED
      BY <3>2
  <2> QED
    BY <2>1
<1>3. Root \in entries[Outside] => Root \in entries'[Outside] \/ Root \in lost
  OBVIOUS
<1>4. ASSUME phase' = "idle"
      PROVE  Root \in entries'[Outside] \/ Root \in touched'
  BY <1>3, <1>4 DEF NothingLost
<1>5. ASSUME phase' # "idle", opts'.passes > 0
      PROVE  /\ \A f \in inside' : Dealt(f)' \/ f \in Below(Root)'
             /\ Root \notin entries'[Outside] /\ Root \notin touched' =>
                  \A f \in inside' : Dealt(f)'
  <2>1. inside' = inside /\ inside \in SUBSET Files
    BY DEF FolderTyped
  <2>2. \A f \in inside : Dealt(f) \/ f \in Below(Root)
    BY <1>5 DEF NothingLost
  <2>3. /\ \A f \in Files : Dealt(f) => Dealt(f)'
        /\ \A f \in lost \cap Files : Dealt(f)'
    BY <1>5
  <2>4. \A f \in inside' : Dealt(f)' \/ f \in Below(Root)'
    BY <1>1, <2>1, <2>2, <2>3
  <2>5. ASSUME Root \notin entries'[Outside], Root \notin touched'
        PROVE  \A f \in inside' : Dealt(f)'
    <3>1. CASE Root \notin entries[Outside]
      <4>1. \A f \in inside : Dealt(f)
        BY <1>5, <2>5, <3>1 DEF NothingLost
      <4> QED
        BY <2>1, <2>3, <4>1
    <3>2. CASE Root \in entries[Outside]
      <4>1. Below(Root) = {}
        BY <1>2, <1>3, <2>5, <3>2
      <4> QED
        BY <2>1, <2>2, <2>3, <4>1
    <3> QED
      BY <3>1, <3>2
  <2> QED
    BY <2>4, <2>5
<1> QED
  BY <1>4, <1>5 DEF NothingLost

LEMMA NothingLostNext ==
  ASSUME FolderTyped, FolderTyped', NothingLost, [FolderNext]_dvars
  PROVE  NothingLost'
<1> USE FolderConstants
<1>1. ASSUME NEW dangerous \in BOOLEAN, NEW o \in Options, Call(dangerous, o)
      PROVE  NothingLost'
  <2>1. /\ phase = "idle" /\ phase' # "idle"
        /\ inside' = Below(Root) \cap Files
        /\ UNCHANGED <<entries, content, touched>>
    BY <1>1 DEF Call, env
  <2>2. Below(Root)' = Below(Root)
    BY <2>1 DEF Below
  <2>3. Root \notin entries'[Outside] => Root \in touched'
    BY <2>1 DEF NothingLost
  <2> QED
    BY <2>1, <2>2, <2>3 DEF NothingLost
<1>2. ASSUME UNCHANGED <<entries, content, touched, inside, opts>>,
             phase = "idle" <=> phase' = "idle"
      PROVE  NothingLost'
  <2>1. Below(Root)' = Below(Root) /\ \A f : Dealt(f)' <=> Dealt(f)
    BY <1>2 DEF Below, Dealt
  <2> QED
    BY <1>2, <2>1 DEF NothingLost
<1>3. CASE Enter \/ OpenDir \/ ReadEntry \/ UNCHANGED dvars
  <2>1. UNCHANGED <<entries, content, touched, inside, opts>>
    BY <1>3 DEF Enter, OpenDir, ReadEntry, env, walk, dvars
  <2>2. phase = "idle" <=> phase' = "idle"
    BY <1>3 DEF Enter, OpenDir, ReadEntry, Return, walk, dvars
  <2> QED
    BY <1>2, <2>1, <2>2
<1>4. CASE EraseEntry
  <2>1. /\ UNCHANGED <<touched, inside, opts>> /\ phase = "file" /\ phase' = "read"
        /\ at \in Files
    BY <1>4 DEF EraseEntry, FolderTyped
  <2>2. /\ content \in [Files -> {"data", "erased"}]
        /\ \/ content' = content
           \/ content' = [content EXCEPT ![at] = "erased"]
           \/ opts.passes = 0
    BY <1>4 DEF EraseEntry, FolderTyped, FolderOptions
  <2>3. opts.passes > 0 => \A f \in Files : Dealt(f) => Dealt(f)'
    BY <2>1, <2>2 DEF Dealt
  <2>4. CASE UNCHANGED entries
    BY <2>1, <2>3, <2>4, NothingLostBy, {} \in SUBSET Nodes
  <2>5. CASE /\ entries' = [entries EXCEPT ![Top.dir] = @ \ {at}]
             /\ content' = [content EXCEPT ![at] = IF opts.passes > 0 THEN "erased" ELSE @]
    <3> DEFINE lost == {at}
    <3>1. lost \in SUBSET Nodes /\ lost \cap Dirs = {}
      BY <2>1
    <3>2. \A x \in Dirs : entries[x] \subseteq entries'[x] \cup lost
      BY <2>5 DEF FolderTyped
    <3>3. opts.passes > 0 => \A f \in lost \cap Files : Dealt(f)'
      BY <2>1, <2>2, <2>5 DEF Dealt
    <3> HIDE DEF lost
    <3> QED
      BY <2>1, <2>3, <3>1, <3>2, <3>3, NothingLostBy
  <2> QED
    BY <1>4, <2>4, <2>5 DEF EraseEntry
<1>5. ASSUME NEW at_end \in BOOLEAN, Leave(at_end)
      PROVE  NothingLost'
  <2>1. UNCHANGED <<content, touched, inside, opts>> /\ phase = "read" /\ stack # <<>>
    BY <1>5 DEF Leave, FolderTyped
  <2>2. phase' # "idle"
    BY <1>5 DEF Leave, Return
  <2>3. CASE UNCHANGED entries
    BY <1>2, <2>1, <2>2, <2>3
  <2>4. ASSUME NEW parent, entries[Top.dir] = {},
               entries' = [entries EXCEPT ![parent] = @ \ {Top.dir}]
        PROVE  NothingLost'
    <3> DEFINE lost == {Top.dir}
    <3>1. Top.dir \in Dirs
      <4>1. Top \in Activation
        BY <2>1, EmptySeq, LenProperties, ElementOfSeq DEF FolderTyped, Top
      <4> QED
        BY <4>1 DEF Activation
    <3>2. lost \in SUBSET Nodes /\ lost \cap Files = {}
      BY <3>1
    <3>3. \A x \in lost \cap Dirs : entries[x] \subseteq lost
      BY <2>4
    <3>4. \A x \in Dirs : entries[x] \subseteq entries'[x] \cup lost
      BY <2>4 DEF FolderTyped
    <3>5. Root \in lost => entries[Root] = {}
      BY <2>4
    <3>6. \A f \in Files : Dealt(f) => Dealt(f)'
      BY <2>1 DEF Dealt
    <3> HIDE DEF lost
    <3> QED
      BY <2>1, <2>2, <3>2, <3>3, <3>4, <3>5, <3>6, NothingLostBy
  <2> QED
    BY <1>5, <2>3, <2>4 DEF Leave, Names
<1>6. ASSUME NEW nodes \in SUBSET Nodes, Change(nodes)
      PROVE  touched' = touched \cup nodes /\ UNCHANGED <<inside, opts, phase>>
  BY <1>6 DEF Change, walk
<1>7. ASSUME NEW n \in Nodes, NEW d \in Dirs, NEW e \in Dirs, Rename(n, d, e)
      PROVE  NothingLost'
  <2> DEFINE lost == {n} \cup IF n \in Dirs THEN Below(n) ELSE {}
  <2>1. /\ lost \in SUBSET Nodes /\ n \in lost
        /\ \A x \in lost \cap Dirs : entries[x] \subseteq lost
    BY BelowIsClosed
  <2>2. content' = content /\ Change(lost)
    BY <1>7 DEF Rename
  <2>3. \A x \in Dirs : entries[x] \subseteq entries'[x] \cup lost
    <3>1. entries' = [entries EXCEPT ![d] = @ \ {n}, ![e] = @ \cup {n}]
      BY <1>7 DEF Rename
    <3>2. \A x \in Dirs : entries[x] \subseteq entries'[x] \cup {n}
      BY <3>1 DEF FolderTyped
    <3> QED
      BY <2>1, <3>2
  <2> HIDE DEF lost
  <2>4. touched' = touched \cup lost /\ UNCHANGED <<inside, opts, phase>>
    BY <1>6, <2>1, <2>2
  <2>5. /\ \A f \in Files : Dealt(f) => Dealt(f)'
        /\ \A f \in lost : Dealt(f)'
    BY <2>2, <2>4 DEF Dealt
  <2> QED
    BY <2>1, <2>3, <2>4, <2>5, NothingLostBy
<1>8. ASSUME NEW f \in Files, NEW d \in Dirs, Create(f, d) \/ Unlink(f, d)
      PROVE  NothingLost'
  <2> DEFINE lost == {f}
  <2>1. lost \in SUBSET Nodes /\ lost \cap Dirs = {}
    OBVIOUS
  <2>2. touched' = touched \cup lost /\ UNCHANGED <<inside, opts, phase>>
    BY <1>6, <1>8 DEF Create, Unlink
  <2>3. \A x \in Dirs : entries[x] \subseteq entries'[x] \cup lost
    BY <1>8 DEF Create, Unlink, FolderTyped
  <2>4. /\ \A g \in Files : Dealt(g) => Dealt(g)'
        /\ \A g \in lost : Dealt(g)'
    BY <1>8, <2>2 DEF Create, Unlink, Dealt, FolderTyped
  <2> HIDE DEF lost
  <2> QED
    BY <2>1, <2>2, <2>3, <2>4, NothingLostBy
<1>9. ASSUME NEW f \in Files, Write(f)
      PROVE  NothingLost'
  <2>1. touched' = touched \cup {f} /\ UNCHANGED <<entries, inside, opts, phase>>
    BY <1>6, <1>9 DEF Write
  <2>2. \A g \in Files : Dealt(g) => Dealt(g)'
    BY <1>9, <2>1 DEF Write, Dealt, FolderTyped
  <2> QED
    BY <2>1, <2>2, NothingLostBy, {} \in SUBSET Nodes
<1> QED
  BY <1>1, <1>3, <1>4, <1>5, <1>7, <1>8, <1>9 DEF FolderNext, Move, Relocate

FolderInv == FolderTyped /\ OnCourse /\ NothingLost

LEMMA FolderInvInit == ASSUME FolderInit PROVE FolderInv
<1>1. FolderTyped
  BY FolderTypedInit
<1>2. stack = <<>> /\ phase = "idle" /\ Root \in entries[Outside]
  BY FolderParameters DEF FolderInit
<1>3. OnCourse
  <2>1. Len(stack) = 0 /\ Active = {} /\ opts.max_depth \in Nat
    BY <1>1, <1>2, EmptySeq DEF Active, FolderTyped, FolderOptions
  <2> QED
    BY <1>2, <2>1 DEF OnCourse
<1> QED
  BY <1>1, <1>2, <1>3 DEF FolderInv, NothingLost

LEMMA FolderInvNext ==
  ASSUME FolderInv, [FolderNext]_dvars
  PROVE  FolderInv'
BY FolderTypedNext, OnCourseNext, NothingLostNext DEF FolderInv

LEMMA FolderInvHolds == FolderSpec => []FolderInv
BY FolderInvInit, FolderInvNext, PTL DEF FolderSpec

\* When folder_erase is done and the root is gone, every file that was below
\* it was overwritten, or moved, removed or written by the other process: for
\* any tree, whatever fails below, and whatever that process does meanwhile.
THEOREM GoneRootWasErased == FolderSpec => []RootGoneMeansErased
<1>1. FolderInv => RootGoneMeansErased
  BY DEF FolderInv, NothingLost, Dealt, RootGoneMeansErased
<1> QED
  BY <1>1, FolderInvHolds, PTL

\* folder_erase_recursive goes no deeper than max_depth, and is not called for
\* a directory it is in, while the inode table has room for it.
THEOREM NoDirectoryReentered == FolderSpec => []NoReentry
<1>1. FolderInv => NoReentry
  <2> SUFFICES ASSUME FolderTyped, OnCourse PROVE NoReentry
    BY DEF FolderInv
  <2>1. \A i \in 1 .. Len(stack) : stack[i] \in [dir: Dirs, listed: SUBSET Nodes, done: SUBSET Nodes]
    BY ElementOfSeq DEF FolderTyped, Activation
  <2>2. FolderTypeOK
    BY <2>1 DEF FolderTyped, FolderTypeOK, FolderResults
  <2> QED
    BY <2>2 DEF OnCourse, NoReentry
<1> QED
  BY <1>1, FolderInvHolds, PTL

\* The path of an entry that is no link resolves when the innermost directory
\* of the stack names the entry, and each of the others names the next or has
\* a link in its place.
LEMMA ResolvedPath ==
  ASSUME FolderTyped, stack # <<>>, NEW n \in Nodes, Resolves(PathOf(n))
  PROVE  /\ (\A i \in 2 .. Len(stack) : ~ IsLink(PathTo(Len(stack)), i)) =>
              \A i \in 1 .. Len(stack) - 1 : stack[i + 1].dir \in entries[stack[i].dir]
         /\ n \in entries[Top.dir]
<1> USE FolderConstants
<1> DEFINE dirs == [i \in 1 .. Len(stack) |-> stack[i].dir]
           path == <<Outside>> \o dirs
<1>1. Len(stack) \in Nat \ {0}
  BY EmptySeq DEF FolderTyped
<1>2. dirs \in Seq(Nodes) /\ Len(dirs) = Len(stack)
  <2>1. \A i \in 1 .. Len(stack) : stack[i].dir \in Nodes
    <3>1. \A i \in 1 .. Len(stack) : stack[i] \in Activation
      BY ElementOfSeq DEF FolderTyped
    <3> QED
      BY <3>1 DEF Activation
  <2>2. dirs \in [1 .. Len(stack) -> Nodes]
    BY <2>1
  <2> QED
    BY <1>1, <2>2
<1>3. <<Outside>> \in Seq(Nodes) /\ Len(<<Outside>>) = 1 /\ <<Outside>>[1] = Outside
  OBVIOUS
<1>4. \A i \in 1 .. Len(stack) : dirs[i] = stack[i].dir
  OBVIOUS
<1> HIDE DEF dirs
<1>5. /\ path \in Seq(Nodes) /\ Len(path) = 1 + Len(stack)
      /\ \A i \in 1 .. 1 + Len(stack) : path[i] = IF i <= 1 THEN <<Outside>>[i] ELSE dirs[i - 1]
  BY <1>2, <1>3, ConcatProperties
<1> HIDE DEF path
<1>6. \A i \in 1 .. Len(stack) : path[i + 1] = stack[i].dir
  <2> SUFFICES ASSUME NEW i \in 1 .. Len(stack) PROVE path[i + 1] = stack[i].dir
    OBVIOUS
  <2>1. i + 1 \in 1 .. 1 + Len(stack) /\ ~ (i + 1 <= 1) /\ i + 1 - 1 = i
    BY <1>1
  <2> QED
    BY <1>4, <1>5, <2>1
<1> DEFINE full == Append(path, n)
<1>7. /\ Len(full) = Len(stack) + 2
      /\ \A i \in 1 .. 1 + Len(stack) : full[i] = path[i]
      /\ full[Len(stack) + 2] = n
  <2>1. Len(path) + 1 = Len(stack) + 2
    BY <1>1, <1>5
  <2> QED
    BY <1>5, <2>1, AppendProperties
<1>8. /\ \A i \in 1 .. Len(full) - 1 :
           full[i + 1] \in entries[full[i]] \/ <<full[i], full[i + 1]>> \in relinked
      /\ <<full[Len(full) - 1], full[Len(full) - 1 + 1]>> \notin relinked
  <2>1. PathOf(n) = full
    BY DEF PathOf, PathTo, path, dirs
  <2> HIDE DEF full
  <2> QED
    BY <2>1 DEF Resolves, Leads, IsLink
<1> HIDE DEF full
<1>9. ASSUME NEW i \in 1 .. Len(stack) - 1,
             \A j \in 2 .. Len(stack) : ~ IsLink(PathTo(Len(stack)), j)
      PROVE  stack[i + 1].dir \in entries[stack[i].dir]
  <2>1. /\ i \in 1 .. Len(stack) /\ i + 1 \in 1 .. Len(stack)
        /\ i + 1 \in 1 .. Len(full) - 1
        /\ i + 1 \in 1 .. 1 + Len(stack) /\ i + 1 + 1 \in 1 .. 1 + Len(stack)
    BY <1>1, <1>7
  <2>2. full[i + 1] = stack[i].dir /\ full[i + 1 + 1] = stack[i + 1].dir
    BY <1>6, <1>7, <2>1
  <2>3. <<full[i + 1], full[i + 1 + 1]>> \notin relinked
    <3>1. i + 1 \in 2 .. Len(stack) /\ PathTo(Len(stack)) = path
      BY <1>1 DEF PathTo, path, dirs
    <3>2. <<path[i + 1], path[i + 1 + 1]>> \notin relinked
      BY <1>9, <3>1 DEF IsLink
    <3> QED
      BY <1>7, <2>1, <3>2
  <2> QED
    BY <1>8, <2>1, <2>2, <2>3
<1>10. n \in entries[Top.dir]
  <2>1. /\ Len(stack) \in 1 .. Len(stack) /\ Len(stack) + 1 \in 1 .. 1 + Len(stack)
        /\ Len(stack) + 1 \in 1 .. Len(full) - 1 /\ Len(stack) + 1 + 1 = Len(stack) + 2
        /\ Len(full) - 1 = Len(stack) + 1
    BY <1>1, <1>7
  <2>2. full[Len(stack) + 1] = Top.dir /\ full[Len(stack) + 1 + 1] = n
    BY <1>6, <1>7, <2>1 DEF Top
  <2> QED
    BY <1>8, <2>1, <2>2
<1> QED
  BY <1>9, <1>10

\* When each directory of the stack names the next, the innermost is below the
\* root.
LEMMA TopIsBelow ==
  ASSUME FolderTyped, OnCourse, stack # <<>>,
         \A i \in 1 .. Len(stack) - 1 : stack[i + 1].dir \in entries[stack[i].dir]
  PROVE  Top.dir \in Dirs /\ (Top.dir = Root \/ Top.dir \in Below(Root))
<1> USE FolderConstants
<1> DEFINE Reached(d) == d = Root \/ d \in Below(Root)
           Lost == {i \in 1 .. Len(stack) : ~ Reached(stack[i].dir)}
           Less == {p \in Nat \X Nat : p[1] < p[2]}
<1>1. Len(stack) \in Nat \ {0}
  BY EmptySeq DEF FolderTyped
<1>2. \A i \in 1 .. Len(stack) : stack[i].dir \in Dirs
  <2>1. \A i \in 1 .. Len(stack) : stack[i] \in Activation
    BY ElementOfSeq DEF FolderTyped
  <2> QED
    BY <2>1 DEF Activation
<1>3. /\ entries[Root] \subseteq Below(Root)
      /\ \A x \in Below(Root) \cap Dirs : entries[x] \subseteq Below(Root)
  BY BelowIsClosed
<1>4. ASSUME Lost # {} PROVE FALSE
  <2>1. IsWellFoundedOn(Less, Nat) /\ Lost \in SUBSET Nat
    BY <1>1, NatLessThanWellFounded DEF OpToRel
  <2>2. PICK k \in Lost : \A j \in Lost : <<j, k>> \notin Less
    <3> HIDE DEF Lost, Less
    <3> QED
      BY <1>4, <2>1, WFMin
  <2>3. k # 1
    BY <2>2 DEF OnCourse
  <2>4. k - 1 \in 1 .. Len(stack) - 1 /\ k - 1 \in 1 .. Len(stack) /\ k - 1 + 1 = k
    BY <1>1, <2>2, <2>3
  <2>5. Reached(stack[k - 1].dir)
    <3>1. <<k - 1, k>> \in Less
      <4>1. k \in Nat /\ k - 1 \in Nat /\ k - 1 < k
        BY <1>1, <2>2, <2>4
      <4> QED
        BY <4>1
    <3>2. k - 1 \notin Lost
      <4> HIDE DEF Lost, Less
      <4> QED
        BY <2>2, <3>1
    <3> QED
      BY <2>4, <3>2
  <2>6. stack[k].dir \in entries[stack[k - 1].dir]
    BY <2>4
  <2>7. Reached(stack[k].dir)
    BY <1>2, <1>3, <2>4, <2>5, <2>6
  <2> QED
    BY <2>2, <2>7
<1>5. Len(stack) \in 1 .. Len(stack)
  BY <1>1
<1> QED
  BY <1>2, <1>4, <1>5 DEF Top

\* Only folder_erase overwrites, and only a file that its path leads to.
LEMMA OverwritesBelow ==
  ASSUME FolderInv, [FolderNext]_dvars, NEW f \in Files,
         content[f] = "data", content'[f] = "erased"
  PROVE  \E d \in Dirs :
           /\ Overwrites(f, d)
           /\ \/ d = Root \/ d \in Below(Root)
              \/ \E i \in 2 .. Len(stack) : IsLink(PathTo(Len(stack)), i)
<1> USE FolderConstants DEF FolderInv
<1>1. CASE EraseEntry
  <2>1. stack # <<>> /\ at \in Files /\ content \in [Files -> {"data", "erased"}]
    BY <1>1 DEF EraseEntry, FolderTyped
  <2>2. Resolves(PathOf(at)) /\ f = at
    BY <1>1, <2>1 DEF EraseEntry
  <2>3. /\ (\A i \in 2 .. Len(stack) : ~ IsLink(PathTo(Len(stack)), i)) =>
             \A i \in 1 .. Len(stack) - 1 : stack[i + 1].dir \in entries[stack[i].dir]
        /\ at \in entries[Top.dir]
    BY <2>1, <2>2, ResolvedPath
  <2>4. \/ Top.dir = Root \/ Top.dir \in Below(Root)
        \/ \E i \in 2 .. Len(stack) : IsLink(PathTo(Len(stack)), i)
    BY <2>1, <2>3, TopIsBelow
  <2>5. Top.dir \in Active
    <3>1. Len(stack) \in 1 .. Len(stack)
      BY <2>1, EmptySeq DEF FolderTyped
    <3> QED
      BY <3>1 DEF Active, Top
  <2>6. Top.dir \in Dirs
    <3>1. Top \in Activation
      BY <2>1, EmptySeq, LenProperties, ElementOfSeq DEF FolderTyped, Top
    <3> QED
      BY <3>1 DEF Activation
  <2>7. opts.follow_mount \/ ~ CrossMount(Top.dir)
    BY <2>5 DEF OnCourse, Stays
  <2>8. Overwrites(f, Top.dir)
    BY <2>2, <2>3, <2>7 DEF Overwrites
  <2> QED
    BY <2>4, <2>6, <2>8
<1>2. CASE UNCHANGED content
  BY <1>2
<1>3. \A n \in Nodes, d, e \in Dirs : Move(n, d, e) \/ Relocate(n, d, e) => UNCHANGED content
  BY DEF Move, Relocate, Rename
<1>4. \A d \in Dirs, g \in Files : Create(g, d) \/ Unlink(g, d) => content'[f] # "erased" \/ content' = content
  BY DEF Create, Unlink, FolderTyped
<1>5. \A g \in Files : Write(g) => content'[f] = "data"
  BY DEF Write, FolderTyped
<1>6. \A n, d, e \in Dirs : Relocate(n, d, e) => UNCHANGED content
  BY <1>3
<1> QED
  BY <1>1, <1>2, <1>3, <1>4, <1>5, <1>6
     DEF FolderNext, Call, Enter, OpenDir, ReadEntry, Leave, env, dvars

\* Whatever is moved while folder_erase runs, it overwrites only files that
\* are below the root at that moment, or are reached through a link that was
\* left for a directory on the path; it leaves other devices alone unless
\* follow_mount is set.
THEOREM OnlyFilesBelowRoot == FolderSpec => OnlyBelowRoot
<1>1. FolderInv /\ [FolderNext]_dvars =>
        [\A f \in Files : content[f] = "data" /\ content'[f] = "erased" =>
           \E d \in Dirs :
             /\ Overwrites(f, d)
             /\ \/ d = Root \/ d \in Below(Root)
                \/ \E i \in 2 .. Len(stack) : IsLink(PathTo(Len(stack)), i)]_dvars
  BY OverwritesBelow
<1> QED
  BY <1>1, FolderInvHolds, PTL DEF FolderSpec, OnlyBelowRoot
=============================================================================
