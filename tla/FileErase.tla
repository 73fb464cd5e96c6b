----------------------------- MODULE FileErase ------------------------------
(***************************************************************************)
(* file_erase and file_verify_pattern: a file is overwritten through its   *)
(* descriptor, read back through its path, and unlinked through its path,  *)
(* beside a process that may put something else there at any time: another *)
(* file, a symbolic link to a third one, a directory, or nothing.          *)
(*                                                                         *)
(* Contents are functions on the sectors of a file, of which a chunk of    *)
(* CHUNK_SIZE bytes has Chunk.                                             *)
(***************************************************************************)
EXTENDS Naturals

CONSTANTS
  Chunk,        \* CHUNK_SIZE, in sectors
  Sizes,        \* the sizes files have at first
  MaxSize,      \* bound: the other process does not grow a file beyond this
  PassCounts,   \* the values of FileEraseOptions.passes
  Patterns      \* the values of FileEraseOptions.pattern

ASSUME FileParameters ==
  /\ Chunk \in Nat \ {0}
  /\ MaxSize \in Nat
  /\ Sizes \subseteq 0 .. MaxSize
  /\ PassCounts \subseteq Nat
  /\ Patterns \subseteq {"zero", "one", "random"}

\* What a sector may hold: the owner's data, a pattern, or, when RAND_bytes
\* fails, whatever the buffer held.
Content == {"data", "zero", "one", "random", "stale"}

\* The file at the path, the one the other process may replace it by, and the
\* one outside that a symbolic link may lead to.
Files == {"victim", "replacement", "outside"}

VARIABLES
  content,     \* of each file
  path,        \* what the path names
  foreign,     \* sectors of a file the other process wrote since they were erased
  swapped,     \* the path was changed since the call's lstat()
  pc,
  opts,        \* FileEraseOptions
  fd,          \* the file that is open for writing, or "none"
  bytes_left,
  pass_no,
  read_pos,    \* how far the verification has read
  reading,     \* the file that is open for reading, or "none"
  result       \* FileEraseResult

fvars == <<content, path, foreign, swapped, pc, opts, fd, bytes_left, pass_no,
           read_pos, reading, result>>

Size(f) == CHOOSE n \in 0 .. MaxSize : DOMAIN content[f] = 0 .. n - 1

NoResult == [code |-> "none", original_size |-> 0, bytes_written |-> 0,
             passes_completed |-> 0, removed |-> "none", verified |-> FALSE,
             passed |-> FALSE, bytes_checked |-> 0, mismatched |-> 0]

DefaultOpts == [pattern |-> "random", passes |-> 3, verify_after |-> TRUE,
                remove_file |-> TRUE]

TypeOK ==
  /\ \A f \in Files : \E n \in 0 .. MaxSize : content[f] \in [0 .. n - 1 -> Content]
  /\ path \in {"victim", "replacement", "link", "directory", "none"}
  /\ foreign \subseteq Files \X (0 .. MaxSize - 1)
  /\ swapped \in BOOLEAN
  /\ pc \in {"idle", "open", "pass", "write", "verify", "read", "unlink", "done"}
  /\ opts \in [pattern: {"zero", "one", "random"}, passes: Nat, verify_after: BOOLEAN,
               remove_file: BOOLEAN]
  /\ fd \in {"none", "victim", "replacement"}
  /\ bytes_left \in Nat
  /\ pass_no \in Nat
  /\ read_pos \in Nat
  /\ reading \in {"none", "victim", "replacement"}
  /\ result \in [code: {"none", "OK", "FAILED", "DANGEROUS_PATH", "SYMLINK_ATTACK"},
                 original_size: Nat, bytes_written: Nat, passes_completed: Nat,
                 removed: {"none", "link", "victim", "replacement"}, verified: BOOLEAN,
                 passed: BOOLEAN, bytes_checked: Nat, mismatched: Nat]

-----------------------------------------------------------------------------
(* file_erase. *)

IsFile == path \in Files

Return(r) ==
  /\ pc' = "done"
  /\ result' = r
  /\ fd' = "none"
  /\ reading' = "none"
  /\ bytes_left' = 0
  /\ pass_no' = 0
  /\ read_pos' = 0

Outcome(code) == [result EXCEPT !.code = code]

\* Entry: the path's prefix, then what lstat() says of the path.
Call(dangerous, o) ==
  /\ pc \in {"idle", "done"}
  /\ opts' = o
  /\ swapped' = FALSE
  /\ \/ dangerous /\ Return([NoResult EXCEPT !.code = "DANGEROUS_PATH"])
     \/ /\ ~ dangerous
        /\ path = "none"
        /\ Return([NoResult EXCEPT !.code = "FAILED"])
     \/ /\ ~ dangerous
        /\ path \in {"link", "directory"}
        /\ Return([NoResult EXCEPT !.code = "SYMLINK_ATTACK"])
     \/ /\ ~ dangerous
        /\ IsFile
        /\ pc' = "open"
        /\ result' = [NoResult EXCEPT !.original_size = Size(path)]
        /\ UNCHANGED <<fd, bytes_left, pass_no, read_pos, reading>>
  /\ UNCHANGED <<content, path, foreign>>

\* Mutant of OpenFile: without O_NOFOLLOW a link is followed.
OpenFollowing ==
  /\ pc = "open"
  /\ \/ /\ IsFile \/ path = "link"
        /\ fd' = IF path = "link" THEN "outside" ELSE path
        /\ pc' = "pass"
        /\ UNCHANGED <<result, bytes_left, pass_no, read_pos, reading>>
     \/ Return(Outcome("FAILED"))
  /\ UNCHANGED <<content, path, foreign, swapped, opts>>

\* open(O_WRONLY | O_NOFOLLOW), and malloc.
OpenFile ==
  /\ pc = "open"
  /\ \/ /\ IsFile
        /\ fd' = path
        /\ pc' = "pass"
        /\ UNCHANGED <<result, bytes_left, pass_no, read_pos, reading>>
     \/ Return(Outcome("FAILED"))
  /\ UNCHANGED <<content, path, foreign, swapped, opts>>

\* The head of the pass loop.  After the last pass the descriptor is closed.
NextPass ==
  /\ pc = "pass"
  /\ IF pass_no < opts.passes
       THEN /\ pc' = "write"
            /\ bytes_left' = result.original_size
            /\ UNCHANGED fd
       ELSE /\ pc' = IF opts.verify_after THEN "verify" ELSE "unlink"
            /\ fd' = "none"
            /\ UNCHANGED bytes_left
  /\ UNCHANGED <<content, path, foreign, swapped, opts, pass_no, read_pos, reading, result>>

\* What a chunk is filled with: RAND_bytes' return value is not looked at.
Fill == IF opts.pattern = "random" THEN {"random", "stale"} ELSE {opts.pattern}

\* A file written with n sectors of content x from `at', which extends a file
\* that has become shorter.
Written(f, at, n, x) ==
  [s \in DOMAIN content[f] \cup 0 .. at + n - 1 |->
     IF s \in at .. at + n - 1 THEN x
     ELSE IF s \in DOMAIN content[f] THEN content[f][s] ELSE "zero"]

\* Mutant of WriteSome: a partial write taken for the whole chunk.
WriteOnce ==
  /\ pc = "write"
  /\ bytes_left > 0
  /\ LET at == result.original_size - bytes_left
         to_write == IF bytes_left < Chunk THEN bytes_left ELSE Chunk
     IN  \E w \in 1 .. to_write, x \in Fill :
           /\ content' = [content EXCEPT ![fd] = Written(fd, at, w, x)]
           /\ foreign' = {q \in foreign : ~ (q[1] = fd /\ q[2] \in at .. at + w - 1)}
           /\ bytes_left' = bytes_left - to_write
           /\ result' = [result EXCEPT !.bytes_written = @ + to_write]
  /\ UNCHANGED <<path, swapped, pc, opts, fd, pass_no, read_pos, reading>>

\* One write(), of which the kernel takes w sectors.
WriteSome ==
  /\ pc = "write"
  /\ bytes_left > 0
  /\ LET at == result.original_size - bytes_left
         to_write == IF bytes_left < Chunk THEN bytes_left ELSE Chunk
     IN  \E w \in 1 .. to_write, x \in Fill :
           /\ content' = [content EXCEPT ![fd] = Written(fd, at, w, x)]
           /\ foreign' = {q \in foreign : ~ (q[1] = fd /\ q[2] \in at .. at + w - 1)}
           /\ bytes_left' = bytes_left - w
           /\ result' = [result EXCEPT !.bytes_written = @ + w]
  /\ UNCHANGED <<path, swapped, pc, opts, fd, pass_no, read_pos, reading>>

\* write() fails, an interrupted one included.
WriteFails ==
  /\ pc = "write"
  /\ bytes_left > 0
  /\ Return(Outcome("FAILED"))
  /\ UNCHANGED <<content, path, foreign, swapped, opts>>

\* fsync, whose result is not looked at, and the count.
EndPass ==
  /\ pc = "write"
  /\ bytes_left = 0
  /\ pc' = "pass"
  /\ pass_no' = pass_no + 1
  /\ result' = [result EXCEPT !.passes_completed = @ + 1]
  /\ UNCHANGED <<content, path, foreign, swapped, opts, fd, bytes_left, read_pos, reading>>

-----------------------------------------------------------------------------
(* file_verify_pattern, called by file_erase on the path. *)

AfterVerify(passed) ==
  /\ pc' = "unlink"
  /\ reading' = "none"
  /\ read_pos' = 0
  /\ result' = [result EXCEPT !.verified = TRUE, !.passed = passed]

\* Random content passes unread; a path that cannot be opened fails.
VerifyOpen ==
  /\ pc = "verify"
  /\ \/ opts.pattern = "random" /\ AfterVerify(TRUE)
     \/ opts.pattern # "random" /\ AfterVerify(FALSE)
     \/ /\ opts.pattern # "random"
        /\ IsFile
        /\ reading' = path
        /\ pc' = "read"
        /\ UNCHANGED <<read_pos, result>>
  /\ UNCHANGED <<content, path, foreign, swapped, opts, fd, bytes_left, pass_no>>

\* Mutant of VerifyRead: what a read() returns replaces the count.
VerifyReadLast ==
  /\ pc = "read"
  /\ read_pos < Size(reading)
  /\ \E n \in 1 .. Chunk :
       /\ read_pos + n <= Size(reading)
       /\ result' = [result EXCEPT
                       !.bytes_checked = @ + n,
                       !.mismatched = IF \E s \in read_pos .. read_pos + n - 1 :
                                           content[reading][s] # opts.pattern
                                        THEN 1 ELSE 0]
       /\ read_pos' = read_pos + n
  /\ UNCHANGED <<content, path, foreign, swapped, pc, opts, fd, bytes_left, pass_no, reading>>

\* One read() and the comparison.  The mismatches are counted up to one.
VerifyRead ==
  /\ pc = "read"
  /\ read_pos < Size(reading)
  /\ \E n \in 1 .. Chunk :
       /\ read_pos + n <= Size(reading)
       /\ result' = [result EXCEPT
                       !.bytes_checked = @ + n,
                       !.mismatched = IF \E s \in read_pos .. read_pos + n - 1 :
                                           content[reading][s] # opts.pattern
                                        THEN 1 ELSE @]
       /\ read_pos' = read_pos + n
  /\ UNCHANGED <<content, path, foreign, swapped, pc, opts, fd, bytes_left, pass_no, reading>>

\* The loop ends where read() returns 0, and also where it fails.
VerifyEnd(at_end) ==
  /\ pc = "read"
  /\ at_end => read_pos >= Size(reading)
  /\ AfterVerify(result.mismatched = 0)
  /\ UNCHANGED <<content, path, foreign, swapped, opts, fd, bytes_left, pass_no>>

-----------------------------------------------------------------------------
\* unlink of whatever the path names by now, the fsync of its directory, and
\* success, whether or not there was anything to remove or the verification
\* has passed.
Finish ==
  /\ pc = "unlink"
  /\ \/ /\ opts.remove_file
        /\ path \in {"victim", "replacement", "link"}
        /\ path' = "none"
        /\ Return([result EXCEPT !.code = "OK", !.removed = path])
     \/ UNCHANGED path /\ Return(Outcome("OK"))
  /\ UNCHANGED <<content, foreign, swapped, opts>>

-----------------------------------------------------------------------------
(* The other process. *)

\* It renames something to the path, or removes what is there.
Swap(what) ==
  /\ path # what
  /\ path' = what
  /\ swapped' = TRUE
  /\ UNCHANGED <<content, foreign, pc, opts, fd, bytes_left, pass_no, read_pos, reading, result>>

\* It writes a sector of a file, or appends one.
ForeignWrite(f, s) ==
  /\ s <= Size(f)
  /\ content' = [content EXCEPT ![f] = [t \in DOMAIN @ \cup {s} |-> IF t = s THEN "data" ELSE @[t]]]
  /\ foreign' = foreign \cup {<<f, s>>}
  /\ UNCHANGED <<path, swapped, pc, opts, fd, bytes_left, pass_no, read_pos, reading, result>>

-----------------------------------------------------------------------------
Init ==
  /\ \E n \in Sizes : content = [f \in Files |-> [s \in 0 .. n - 1 |-> "data"]]
  /\ path = "victim"
  /\ foreign = {}
  /\ swapped = FALSE
  /\ pc = "idle"
  /\ opts = DefaultOpts
  /\ fd = "none"
  /\ bytes_left = 0
  /\ pass_no = 0
  /\ read_pos = 0
  /\ reading = "none"
  /\ result = NoResult

Options == [pattern: Patterns, passes: PassCounts, verify_after: BOOLEAN, remove_file: BOOLEAN]

Next ==
  \/ \E dangerous \in BOOLEAN, o \in Options : Call(dangerous, o)
  \/ OpenFile \/ NextPass \/ WriteSome \/ WriteFails \/ EndPass
  \/ VerifyOpen \/ VerifyRead \/ \E at_end \in BOOLEAN : VerifyEnd(at_end)
  \/ Finish
  \/ \E what \in {"replacement", "link", "directory", "none"} : Swap(what)
  \/ \E f \in {"victim", "replacement"}, s \in 0 .. MaxSize - 1 : ForeignWrite(f, s)

Spec == Init /\ [][Next]_fvars

-----------------------------------------------------------------------------
(* What file_erase must guarantee. *)

\* A sector of a file that is overwritten, or that the other process wrote later.
Gone(f, s) == content[f][s] # "data" \/ <<f, s>> \in foreign

\* A completed pass left none of the owner's data in the file that is open,
\* up to the size lstat() saw: what was not written stays in bytes_left.  What a
\* larger file that was put at the path before the open has beyond that size is
\* not overwritten, as file_erase asks the open file for no size of its own.
PassesOverwrite ==
  /\ TypeOK
  /\ fd # "none" /\ pass_no > 0 =>
       \A s \in 0 .. result.original_size - 1 : Gone(fd, s)
  /\ pc = "write" =>
       \A s \in 0 .. (result.original_size - bytes_left) - 1 :
         s \in DOMAIN content[fd] => Gone(fd, s)

\* What file_erase unlinks it has overwritten before, unless the other process
\* put something else at the path meanwhile.
RemovedWasErased ==
  pc = "done" /\ result.removed # "none" /\ ~ swapped /\ opts.passes > 0 =>
    \A s \in 0 .. result.original_size - 1 : Gone(result.removed, s)

\* A symbolic link at the path is never written through, whenever it appears.
OutsideUntouched ==
  [][content'["outside"] = content["outside"]]_fvars

\* A verification that has read all of the file and passed has seen the
\* pattern in it: what differs was written by the other process.  A read error
\* ends a verification with the same verdict (file_verify.c:38), a random
\* pattern is not read at all, and a file that was put at the path is another:
\* of these nothing is said.
PassedMeansPattern ==
  pc = "unlink" /\ result.passed /\ opts.pattern # "random" /\ ~ swapped
      /\ result.bytes_checked >= result.original_size =>
    \A s \in 0 .. result.original_size - 1 :
      content[path][s] = opts.pattern \/ <<path, s>> \in foreign
=============================================================================
