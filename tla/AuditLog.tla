------------------------------- MODULE AuditLog -----------------------------
(***************************************************************************)
(* The audit trail (audit/audit.c, audit/audit_log.c): records that carry  *)
(* the hash of their predecessor, appended to a file of JSON lines, and    *)
(* the validation of the file.                                             *)
(*                                                                         *)
(* Several processes write the log.  The caller hands audit_record_finalize*)
(* the hash it believes to be the last one: that of its own last record,   *)
(* or the one it found in the file when it started.  Appends do not exclude*)
(* one another, are not synced, and report success when fclose fails.      *)
(*                                                                         *)
(* A hash is what it was computed from, so equal hashes have equal         *)
(* preimages.  A record is short enough for one write(2) of stdio, so the  *)
(* pieces of two records never interleave; an append may be cut short, and *)
(* what is appended next then stands on the same line.  The texts in a     *)
(* record are written as they are (audit.c:109-159): that they hold no     *)
(* newline and no key of the record is assumed.                            *)
(***************************************************************************)
EXTENDS Naturals, SequencesExt

CONSTANTS
  Writers,     \* the processes that write the log
  Fields,      \* what a record says, as far as its hash covers it
  MaxRecords   \* bound on the records ever written to the file

ASSUME AuditParameters == MaxRecords \in Nat

VARIABLES
  log,         \* the file: lines, each a sequence of pieces
  record,      \* the finalised record each writer holds, or none
  known,       \* the hash each writer believes to be the last
  behind,      \* history: writers that have not looked since another one wrote
  written,     \* how many records were ever written to the file
  incidents    \* history: what has happened to the file

vars == <<log, record, known, behind, written, incidents>>

\* A writer that was behind appended a record; a record was cut short, lost or
\* changed; the text of a stored hash was changed.
Incidents == {"fork", "damage", "relink"}

\* The empty string in a hash field.
NoHash == <<>>

\* SHA-256 of the canonical string of the fields and the previous hash.
Hash(fields, prev) == <<fields, prev>>

NoRecord == [fields |-> NoHash]

\* How much of a record a piece has: all of it; all but its end; a part of
\* this_record_hash; previous_record_hash but not its own; neither.
Extents == {"whole", "no end", "part of hash", "no hash", "no links"}

-----------------------------------------------------------------------------
(* Validation.                                                             *)

\* The first piece of a line that has the key, as strstr finds it.
FirstWith(line, extents) ==
  LET with == {j \in DOMAIN line : line[j].extent \in extents}
  IN IF with = {} THEN NoHash ELSE <<line[Min(with)]>>

\* The hash a line is taken to have; NoHash if it is missing or too short.
StoredHash(line) ==
  LET p == FirstWith(line, {"whole", "no end", "part of hash"})
  IN IF p = NoHash \/ p[1].extent = "part of hash" THEN NoHash ELSE p[1].hash

StoredPrev(line) ==
  LET p == FirstWith(line, Extents \ {"no links"})
  IN IF p = NoHash THEN NoHash ELSE p[1].prev

\* Mutant of LineOK: lines are looked at one by one.
LineOKAlone(i) == StoredHash(log[i]) # NoHash

\* The tests of the loop for line i, given that the lines before it passed.
LineOK(i) ==
  /\ i > 1 => StoredPrev(log[i]) = StoredHash(log[i - 1])
  /\ StoredHash(log[i]) # NoHash

\* What audit_log_validate_chain says of the file as it is.
ChainStatus ==
  IF log = <<>> THEN "EMPTY"
  ELSE IF \A i \in DOMAIN log : LineOK(i) THEN "VALID" ELSE "TAMPERED"

-----------------------------------------------------------------------------
AuditInit ==
  /\ log = <<>>
  /\ record = [w \in Writers |-> NoRecord]
  /\ known = [w \in Writers |-> NoHash]
  /\ behind = {} /\ written = 0 /\ incidents = {}

\* The hash of the last line of the file.
LastHash == IF log = <<>> THEN NoHash ELSE StoredHash(Last(log))

\* A caller that starts, or starts again, looks the last hash up in the file.
Attach(w) ==
  /\ known' = [known EXCEPT ![w] = LastHash]
  /\ record' = [record EXCEPT ![w] = NoRecord]
  /\ behind' = behind \ {w}
  /\ UNCHANGED <<log, written, incidents>>

\* Mutant of Finalize: the hash is computed before the link is stored.
FinalizeUnlinked(w, fields) ==
  /\ written < MaxRecords
  /\ record' = [record EXCEPT ![w] = [fields |-> fields, prev |-> NoHash,
                                      hash |-> Hash(fields, known[w])]]
  /\ UNCHANGED <<log, known, behind, written, incidents>>

\* audit_record_finalize; the caller may finalise again, as after a failure.
Finalize(w, fields) ==
  /\ written < MaxRecords
  /\ record' = [record EXCEPT ![w] = [fields |-> fields, prev |-> known[w],
                                      hash |-> Hash(fields, known[w])]]
  /\ UNCHANGED <<log, known, behind, written, incidents>>

\* The last line has no newline: the next append continues it.
Open == log # <<>> /\ Last(Last(log)).extent # "whole"

\* The file with the record, or as much of it as extent says, at its end.
Appended(r, extent) ==
  LET piece == [fields |-> r.fields, prev |-> r.prev, hash |-> r.hash, extent |-> extent]
  IN IF Open THEN [log EXCEPT ![Len(log)] = Append(@, piece)]
             ELSE Append(log, <<piece>>)

\* fopen, fprintf and fclose put the record, or a part of it, into the file.
Puts(w, extent) ==
  /\ record[w] # NoRecord /\ written < MaxRecords
  /\ log' = Appended(record[w], extent)
  /\ written' = written + 1
  /\ behind' = behind \cup (Writers \ {w})
  /\ incidents' = incidents \cup (IF w \in behind THEN {"fork"} ELSE {})
                             \cup (IF extent # "whole" THEN {"damage"} ELSE {})

\* The writer goes on from the hash of its record, and holds none.
GoesOnFrom(w, hash) ==
  /\ known' = [known EXCEPT ![w] = hash]
  /\ record' = [record EXCEPT ![w] = NoRecord]

\* audit_log_append_file returns ERASECURE_OK.
AppendRecord(w) == Puts(w, "whole") /\ GoesOnFrom(w, record[w].hash)

\* It returns ERASECURE_OK although not all was written: fprintf to a stream
\* succeeds in its buffer, and fclose, which fails, is not looked at.
AppendCut(w, extent) == Puts(w, extent) /\ GoesOnFrom(w, record[w].hash)

\* It returns ERASECURE_ERR_WRITE_FAILED when fprintf itself has to write and
\* cannot: the caller has its record still, and may append it again.
AppendFails(w, extent) == Puts(w, extent) /\ UNCHANGED <<known, record>>

\* A process that stops in the middle of the write leaves a cut line behind.
CrashInAppend(w, extent) == Puts(w, extent) /\ GoesOnFrom(w, NoHash)

\* The storage, or an editor, does something to the file.
Suffers(incident) ==
  /\ incidents' = incidents \cup {incident}
  /\ UNCHANGED <<record, known, behind, written>>

LoseLine(i) == log' = RemoveAt(log, i) /\ Suffers("damage")

\* What a record says changes.
ChangeFields(i, fields) == log' = [log EXCEPT ![i][1].fields = fields] /\ Suffers("damage")

\* The text of one of its hashes changes, to another of the file or to nothing;
\* once, which is the bound.
ChangeLink(i, link, text) ==
  /\ "relink" \notin incidents
  /\ log' = [log EXCEPT ![i][1][link] = text]
  /\ Suffers("relink")

Texts == {NoHash} \cup {log[i][1].prev : i \in DOMAIN log} \cup {log[i][1].hash : i \in DOMAIN log}

AuditNext ==
  \/ \E w \in Writers :
       \/ Attach(w) \/ AppendRecord(w)
       \/ \E f \in Fields : Finalize(w, f)
       \/ \E e \in Extents \ {"whole"} : AppendCut(w, e) \/ AppendFails(w, e) \/ CrashInAppend(w, e)
  \/ \E i \in DOMAIN log :
       \/ LoseLine(i)
       \/ \E f \in Fields : ChangeFields(i, f)
       \/ \E link \in {"prev", "hash"}, text \in Texts : ChangeLink(i, link, text)

AuditSpec == AuditInit /\ [][AuditNext]_vars

-----------------------------------------------------------------------------
TypeOK ==
  /\ \A i \in DOMAIN log : \A j \in DOMAIN log[i] :
       /\ log[i][j].fields \in Fields
       /\ log[i][j].extent \in Extents
       /\ j < Len(log[i]) => log[i][j].extent # "whole"
  /\ written \in 0 .. MaxRecords
  /\ \A w \in Writers :
       record[w] # NoRecord => record[w].hash = Hash(record[w].fields, record[w].prev)
  /\ behind \subseteq Writers
  /\ incidents \subseteq Incidents

\* A log that was written record after record, by one process or by several
\* of which none appends when another has written since it last looked for the
\* end, is never reported as tampered with (audit_log.c:135-162).
HonestIsValid ==
  /\ TypeOK
  /\ incidents = {} => ChainStatus \in {"EMPTY", "VALID"}

\* The nth predecessor of the last hash of the file, as its preimage tells.
Ancestor[n \in 0 .. Len(log) - 1] ==
  IF n = 0 THEN LastHash
  ELSE LET next == Ancestor[n - 1] IN IF next = NoHash THEN NoHash ELSE next[2]

\* The last hash of a log that is reported valid, and has no line on which a
\* cut record was continued, fixes the hashes of all its lines: no record
\* between two others is missing, repeated or out of place, whichever lines
\* were lost, cut or written again and whatever fields were changed
\* (audit_log.c:135-141).  The text of the hashes themselves must be the one
\* that was written: nobody computes it again.
ValidMeansUnbroken ==
  (/\ "relink" \notin incidents
   /\ ChainStatus = "VALID" /\ \A i \in DOMAIN log : Len(log[i]) = 1) =>
    \A i \in DOMAIN log : StoredHash(log[i]) = Ancestor[Len(log) - i]
=============================================================================
