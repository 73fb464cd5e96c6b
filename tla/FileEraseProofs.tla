--------------------------- MODULE FileEraseProofs ---------------------------
(***************************************************************************)
(* What file_erase has overwritten, verified and removed, for files and    *)
(* chunks of any size and any number of passes, whatever the other process *)
(* puts at the path.                                                       *)
(***************************************************************************)
EXTENDS FileErase, TLAPS

Opened == {"victim", "replacement"}

\* What a file may hold; its sectors are numbered from 0.
Contents == UNION {[0 .. n - 1 -> Content] : n \in 0 .. MaxSize}
Sectors(f) == DOMAIN content[f]

Points == {"idle", "open", "pass", "write", "verify", "read", "unlink", "done"}
Paths == {"victim", "replacement", "link", "directory", "none"}
OptionSet == [pattern: {"zero", "one", "random"}, passes: Nat, verify_after: BOOLEAN,
              remove_file: BOOLEAN]
Results == [code: {"none", "OK", "FAILED", "DANGEROUS_PATH", "SYMLINK_ATTACK"},
            original_size: Nat, bytes_written: Nat, passes_completed: Nat,
            removed: {"none", "link", "victim", "replacement"}, verified: BOOLEAN,
            passed: BOOLEAN, bytes_checked: Nat, mismatched: Nat]

\* TypeOK, and that content is a function on the files.
Typed ==
  /\ content \in [Files -> Contents]
  /\ path \in Paths
  /\ foreign \subseteq Files \X (0 .. MaxSize - 1)
  /\ swapped \in BOOLEAN
  /\ pc \in Points
  /\ opts \in OptionSet
  /\ fd \in Opened \cup {"none"} /\ reading \in Opened \cup {"none"}
  /\ bytes_left \in Nat /\ pass_no \in Nat /\ read_pos \in Nat
  /\ result \in Results

\* A sector the file has, and that is overwritten or was written since.
Erased(f, s) == s \in Sectors(f) /\ Gone(f, s)
ErasedTo(f, n) == \A s \in 0 .. n - 1 : Erased(f, s)

\* What was erased in the file the path names, if the path is as it was.
ErasedPath == ~ swapped /\ opts.passes > 0 => ErasedTo(path, result.original_size)

\* The file that is open for writing, and how far it is overwritten.
Writing ==
  /\ pc \in {"pass", "write"} <=> fd # "none"
  /\ pc \in {"idle", "open", "done"} => bytes_left = 0 /\ pass_no = 0 /\ read_pos = 0
  /\ result.original_size <= MaxSize /\ bytes_left <= result.original_size
  /\ pc = "write" => ErasedTo(fd, result.original_size - bytes_left)
  /\ fd # "none" /\ pass_no > 0 => ErasedTo(fd, result.original_size)
  /\ fd # "none" /\ ~ swapped => path = fd

\* The path is still what lstat() saw, as long as nobody changed it.
Unswapped ==
  pc \in {"open", "pass", "write", "verify", "read", "unlink"} /\ ~ swapped => path \in Opened

\* A sector that holds the pattern, or that the other process wrote.
Holds(f, s) == s \in Sectors(f) /\ (content[f][s] = opts.pattern \/ <<f, s>> \in foreign)
HoldsTo(f, n) == \A s \in 0 .. n - 1 : Holds(f, s)

Verifying ==
  /\ pc = "read" <=> reading # "none"
  /\ pc = "read" => /\ result.bytes_checked = read_pos /\ ~ result.passed
                    /\ ~ swapped => path = reading
                    /\ result.mismatched = 0 => HoldsTo(reading, read_pos)
  /\ pc \in {"open", "pass", "write", "verify"} =>
       result.bytes_checked = 0 /\ read_pos = 0 /\ result.mismatched = 0 /\ ~ result.passed
  /\ pc = "unlink" /\ result.passed /\ opts.pattern # "random" /\ ~ swapped =>
       HoldsTo(path, result.bytes_checked)

Removing ==
  /\ pc \in {"verify", "read", "unlink"} => ErasedPath
  /\ pc # "done" => result.removed = "none"
  /\ result.removed # "none" /\ ~ swapped /\ opts.passes > 0 =>
       result.removed \in Opened /\ ErasedTo(result.removed, result.original_size)

EraseInv == Typed /\ Writing /\ Unswapped /\ Verifying /\ Removing

-----------------------------------------------------------------------------
(* Contents. *)

\* An interval from 0 has one length: the size of a file is well defined.
LEMMA IntervalsDiffer ==
  ASSUME NEW m \in Nat, NEW n \in Nat, 0 .. m - 1 = 0 .. n - 1
  PROVE  m = n
<1>1. ~ (m < n)
  <2>1. m < n => m \in 0 .. n - 1 /\ m \notin 0 .. m - 1
    OBVIOUS
  <2> QED
    BY <2>1
<1>2. ~ (n < m)
  <2>1. n < m => n \in 0 .. m - 1 /\ n \notin 0 .. n - 1
    OBVIOUS
  <2> QED
    BY <2>1
<1> QED
  BY <1>1, <1>2

\* The size of a file is the number of its sectors.
LEMMA SizeOfFile ==
  ASSUME Typed, NEW f \in Files
  PROVE  Size(f) \in 0 .. MaxSize /\ Sectors(f) = 0 .. Size(f) - 1
<1>1. content[f] \in Contents
  BY DEF Typed
<1>2. PICK n \in 0 .. MaxSize : content[f] \in [0 .. n - 1 -> Content]
  BY <1>1 DEF Contents
<1>3. DOMAIN content[f] = 0 .. n - 1
  BY <1>2
<1> QED
  BY <1>3 DEF Size, Sectors

\* What write() leaves of a file.
LEMMA WrittenContent ==
  ASSUME Typed, NEW f \in Files, NEW at \in Nat, NEW n \in Nat \ {0}, NEW x \in Content,
         at <= Size(f), at + n <= MaxSize
  PROVE  /\ Written(f, at, n, x) \in Contents
         /\ DOMAIN Written(f, at, n, x) = Sectors(f) \cup at .. at + n - 1
         /\ \A s \in Sectors(f) \cup at .. at + n - 1 :
              Written(f, at, n, x)[s] = IF s \in at .. at + n - 1 THEN x ELSE content[f][s]
<1> DEFINE top == IF Size(f) > at + n THEN Size(f) ELSE at + n
<1>1. /\ MaxSize \in Nat /\ Size(f) \in 0 .. MaxSize /\ Sectors(f) = 0 .. Size(f) - 1
      /\ content[f] \in Contents
  BY SizeOfFile, FileParameters DEF Typed
<1>2. top \in 0 .. MaxSize
  BY <1>1
<1>3. /\ DOMAIN content[f] \cup 0 .. at + n - 1 = 0 .. top - 1
      /\ Sectors(f) \cup at .. at + n - 1 = 0 .. top - 1
  BY <1>1 DEF Sectors
<1>4. \A s \in Sectors(f) : content[f][s] \in Content
  BY <1>1 DEF Contents, Sectors
<1>5. Written(f, at, n, x) =
        [s \in 0 .. top - 1 |-> IF s \in at .. at + n - 1 THEN x ELSE content[f][s]]
  <2>1. \A s \in 0 .. top - 1 : s \notin at .. at + n - 1 => s \in DOMAIN content[f]
    BY <1>3 DEF Sectors
  <2> QED
    BY <1>3, <2>1 DEF Written
<1>6. \A s \in 0 .. top - 1 : (IF s \in at .. at + n - 1 THEN x ELSE content[f][s]) \in Content
  BY <1>3, <1>4
<1>7. Written(f, at, n, x) \in [0 .. top - 1 -> Content]
  BY <1>5, <1>6
<1>8. Written(f, at, n, x) \in Contents
  BY <1>2, <1>7 DEF Contents
<1> QED
  BY <1>3, <1>5, <1>8

\* A chunk is never filled with the owner's data.
LEMMA FillIsNoData == Typed => Fill \subseteq Content \ {"data"}
BY DEF Typed, Fill, OptionSet, Content

-----------------------------------------------------------------------------
(* Type correctness. *)

\* Return leaves a typed state when its record is one.
LEMMA ReturnTyped ==
  ASSUME NEW r \in Results, Return(r)
  PROVE  /\ pc' \in Points /\ fd' \in Opened \cup {"none"} /\ reading' \in Opened \cup {"none"}
         /\ bytes_left' \in Nat /\ pass_no' \in Nat /\ read_pos' \in Nat
         /\ result' \in Results
BY DEF Return, Points

\* The first state is typed.
LEMMA InitTyped == Init => Typed
<1> SUFFICES ASSUME Init PROVE Typed
  OBVIOUS
<1>1. content \in [Files -> Contents]
  <2>1. PICK n \in Sizes : content = [f \in Files |-> [s \in 0 .. n - 1 |-> "data"]]
    BY DEF Init
  <2>2. n \in 0 .. MaxSize
    BY FileParameters
  <2>3. [s \in 0 .. n - 1 |-> "data"] \in [0 .. n - 1 -> Content]
    BY DEF Content
  <2> QED
    BY <2>1, <2>2, <2>3 DEF Contents
<1>2. opts \in OptionSet /\ result \in Results
  BY DEF Init, DefaultOpts, NoResult, OptionSet, Results
<1> QED
  BY <1>1, <1>2 DEF Init, Typed, Paths, Points, Opened

\* What one write() does: w more sectors of the open file hold x.
WriteDoes(w, x) ==
  LET at == result.original_size - bytes_left
  IN  /\ w <= bytes_left /\ at \in Nat /\ at + w <= MaxSize /\ at <= Size(fd)
      /\ content' = [content EXCEPT ![fd] = Written(fd, at, w, x)]
      /\ foreign' = {q \in foreign : ~ (q[1] = fd /\ q[2] \in at .. at + w - 1)}
      /\ bytes_left' = bytes_left - w
      /\ result' = [result EXCEPT !.bytes_written = @ + w]
      /\ UNCHANGED <<path, swapped, pc, opts, fd, pass_no, read_pos, reading>>

\* What WriteSome does is one such write, and it makes progress.
LEMMA WriteEffect ==
  ASSUME Typed, Writing, WriteSome
  PROVE  /\ \E w \in Nat \ {0}, x \in Content \ {"data"} : WriteDoes(w, x)
         /\ pc = "write" /\ fd \in Opened /\ fd \in Files /\ bytes_left' # bytes_left
<1> DEFINE at == result.original_size - bytes_left
           to_write == IF bytes_left < Chunk THEN bytes_left ELSE Chunk
<1>1. PICK w \in 1 .. to_write, x \in Fill :
        /\ content' = [content EXCEPT ![fd] = Written(fd, at, w, x)]
        /\ foreign' = {q \in foreign : ~ (q[1] = fd /\ q[2] \in at .. at + w - 1)}
        /\ bytes_left' = bytes_left - w
        /\ result' = [result EXCEPT !.bytes_written = @ + w]
  BY DEF WriteSome
<1>2. /\ result.original_size \in Nat /\ bytes_left \in Nat /\ bytes_left <= result.original_size
      /\ result.original_size <= MaxSize /\ MaxSize \in Nat /\ Chunk \in Nat
  BY FileParameters DEF Typed, Results, Writing
<1>3. w \in Nat \ {0} /\ w <= bytes_left /\ at \in Nat /\ at + w <= MaxSize
  BY <1>2
<1>4. x \in Content \ {"data"}
  BY FillIsNoData
<1>5. at <= Size(fd)
  <2>1. pc = "write" /\ fd \in Files
    BY DEF WriteSome, Writing, Typed, Opened, Files
  <2>2. at > 0 => at - 1 \in Sectors(fd)
    BY <1>3, <2>1 DEF Writing, ErasedTo, Erased
  <2> QED
    BY <1>3, <2>1, <2>2, SizeOfFile
<1>6. pc = "write" /\ fd \in Opened /\ fd \in Files
  BY DEF WriteSome, Writing, Typed, Opened, Files
<1>7. bytes_left' # bytes_left
  BY <1>1, <1>2, <1>3
<1> QED
  BY <1>1, <1>3, <1>4, <1>5, <1>6, <1>7 DEF WriteDoes, WriteSome

\* A sector written by the other process.
LEMMA ForeignContent ==
  ASSUME Typed, NEW f \in Opened, NEW s \in 0 .. MaxSize - 1, ForeignWrite(f, s)
  PROVE  /\ content' \in [Files -> Contents]
         /\ foreign' = foreign \cup {<<f, s>>} /\ foreign' \subseteq Files \X (0 .. MaxSize - 1)
         /\ \A g \in Files : Sectors(g) \subseteq Sectors(g)'
         /\ s \in Sectors(f)'
         /\ \A g \in Files : \A t \in Sectors(g) :
              <<g, t>> # <<f, s>> => content'[g][t] = content[g][t]
         /\ content'["outside"] = content["outside"]
<1> DEFINE new == [t \in DOMAIN content[f] \cup {s} |-> IF t = s THEN "data" ELSE content[f][t]]
           top == IF s < Size(f) THEN Size(f) ELSE s + 1
<1>1. /\ f \in Files /\ "outside" \in Files /\ f # "outside"
      /\ content \in [Files -> Contents] /\ content' = [content EXCEPT ![f] = new]
      /\ s \in Nat /\ s <= Size(f) /\ foreign' = foreign \cup {<<f, s>>}
  BY DEF ForeignWrite, Typed, Opened, Files
<1>2. Size(f) \in 0 .. MaxSize /\ Sectors(f) = 0 .. Size(f) - 1 /\ MaxSize \in Nat
  BY <1>1, SizeOfFile, FileParameters
<1>3. top \in 0 .. MaxSize /\ DOMAIN content[f] \cup {s} = 0 .. top - 1
  BY <1>1, <1>2 DEF Sectors
<1>4. \A t \in Sectors(f) : content[f][t] \in Content
  <2>1. content[f] \in Contents
    BY <1>1
  <2> QED
    BY <2>1 DEF Contents, Sectors
<1>5. new \in [0 .. top - 1 -> Content]
  BY <1>3, <1>4 DEF Sectors, Content
<1>6. new \in Contents
  BY <1>3, <1>5 DEF Contents
<1>7. content'[f] = new /\ \A g \in Files \ {f} : content'[g] = content[g]
  BY <1>1
<1>8. DOMAIN new = Sectors(f) \cup {s} /\ \A t \in Sectors(f) : t # s => new[t] = content[f][t]
  BY DEF Sectors
<1> HIDE DEF new
<1>9. content' \in [Files -> Contents]
  BY <1>1, <1>6
<1>10. foreign' \subseteq Files \X (0 .. MaxSize - 1)
  BY <1>1 DEF Typed
<1>11. Sectors(f)' = Sectors(f) \cup {s} /\ \A g \in Files \ {f} : Sectors(g)' = Sectors(g)
  BY <1>7, <1>8 DEF Sectors
<1>12. \A g \in Files : \A t \in Sectors(g) :
         <<g, t>> # <<f, s>> => content'[g][t] = content[g][t]
  BY <1>7, <1>8
<1> QED
  BY <1>1, <1>7, <1>9, <1>10, <1>11, <1>12

\* What write() leaves of the files.
LEMMA WriteContent ==
  ASSUME Typed, fd \in Files, NEW w \in Nat \ {0}, NEW x \in Content, WriteDoes(w, x)
  PROVE  LET from == result.original_size - bytes_left
             now == from .. from + w - 1
         IN  /\ content' \in [Files -> Contents]
             /\ foreign' \subseteq foreign
             /\ \A g \in Files \ {fd} : content'[g] = content[g]
             /\ Sectors(fd)' = Sectors(fd) \cup now
             /\ \A s \in now : content'[fd][s] = x
             /\ \A s \in Sectors(fd) \ now : content'[fd][s] = content[fd][s]
             /\ \A q \in foreign : q[1] # fd \/ q[2] \notin now => q \in foreign'
<1> DEFINE from == result.original_size - bytes_left
           now == from .. from + w - 1
           new == Written(fd, from, w, x)
<1>1. /\ from \in Nat /\ from + w <= MaxSize /\ from <= Size(fd)
      /\ content' = [content EXCEPT ![fd] = new] /\ content \in [Files -> Contents]
      /\ foreign' = {q \in foreign : ~ (q[1] = fd /\ q[2] \in now)}
  BY DEF WriteDoes, Typed
<1> HIDE DEF from
<1>2. /\ new \in Contents
      /\ DOMAIN new = Sectors(fd) \cup now
      /\ \A s \in Sectors(fd) \cup now : new[s] = IF s \in now THEN x ELSE content[fd][s]
  BY <1>1, WrittenContent
<1> HIDE DEF new, now
<1>3. content'[fd] = new /\ \A g \in Files \ {fd} : content'[g] = content[g]
  BY <1>1
<1>4. content' \in [Files -> Contents]
  BY <1>1, <1>2
<1>5. Sectors(fd)' = Sectors(fd) \cup now
  <2>1. Sectors(fd)' = DOMAIN content'[fd']
    BY DEF Sectors
  <2>2. fd' = fd
    BY DEF WriteDoes
  <2> QED
    BY <1>2, <1>3, <2>1, <2>2
<1> QED
  BY <1>1, <1>2, <1>3, <1>4, <1>5 DEF from, now

-----------------------------------------------------------------------------
(* What is erased stays erased. *)

\* A step that writes no file.
Quiet == UNCHANGED <<content, foreign>>

\* Only write() and the other process change what files hold.
LEMMA Writers ==
  ASSUME [Next]_fvars
  PROVE  Quiet \/ WriteSome \/ \E f \in Opened, s \in 0 .. MaxSize - 1 : ForeignWrite(f, s)
BY DEF Next, fvars, Quiet, Call, OpenFile, NextPass, WriteFails, EndPass, VerifyOpen, VerifyRead,
       VerifyEnd, Finish, Swap, Opened

\* The sectors a write() covers are erased, and those that were stay so.
LEMMA WriteErases ==
  ASSUME Typed, fd \in Files, NEW w \in Nat \ {0}, NEW x \in Content \ {"data"}, WriteDoes(w, x)
  PROVE  LET from == result.original_size - bytes_left
         IN  /\ \A s \in from .. from + w - 1 : Erased(fd, s)'
             /\ \A g \in Files : \A s : Erased(g, s) => Erased(g, s)'
<1> DEFINE from == result.original_size - bytes_left
           now == from .. from + w - 1
<1>1. /\ foreign' \subseteq foreign
      /\ \A g \in Files \ {fd} : content'[g] = content[g]
      /\ Sectors(fd)' = Sectors(fd) \cup now
      /\ \A s \in now : content'[fd][s] = x
      /\ \A s \in Sectors(fd) \ now : content'[fd][s] = content[fd][s]
      /\ \A q \in foreign : q[1] # fd \/ q[2] \notin now => q \in foreign'
  BY WriteContent
<1>2. fd' = fd
  BY DEF WriteDoes
<1> HIDE DEF now
<1>3. Sectors(fd)' = DOMAIN content'[fd]
  BY <1>2 DEF Sectors
<1>4. \A s \in now : Erased(fd, s)'
  BY <1>1, <1>2 DEF Erased, Gone
<1>5. ASSUME NEW s, Erased(fd, s), s \notin now
      PROVE  s \in DOMAIN content'[fd] /\ (content'[fd][s] # "data" \/ <<fd, s>> \in foreign')
  BY <1>1, <1>3, <1>5 DEF Erased, Gone
<1>6. ASSUME NEW g \in Files, NEW s, Erased(g, s)
      PROVE  Erased(g, s)'
  <2>1. CASE g # fd
    BY <1>1, <1>6, <2>1 DEF Erased, Gone, Sectors
  <2>2. CASE g = fd /\ s \in now
    BY <1>2, <1>4, <2>2 DEF Erased, Gone, Sectors
  <2>3. CASE g = fd /\ s \notin now
    BY <1>5, <1>6, <2>3 DEF Erased, Gone, Sectors
  <2> QED
    BY <2>1, <2>2, <2>3
<1> QED
  BY <1>4, <1>6 DEF now

\* No step takes a sector of a file out of those that are erased.
LEMMA ErasedStays ==
  ASSUME Typed, Writing, [Next]_fvars, NEW g \in Files, NEW n, ErasedTo(g, n)
  PROVE  ErasedTo(g, n)'
<1>1. CASE Quiet
  BY <1>1 DEF Quiet, ErasedTo, Erased, Gone, Sectors
<1>2. CASE WriteSome
  BY <1>2, WriteEffect, WriteErases DEF ErasedTo
<1>3. ASSUME NEW f \in Opened, NEW s \in 0 .. MaxSize - 1, ForeignWrite(f, s)
      PROVE  ErasedTo(g, n)'
  <2>1. ASSUME NEW t, Erased(g, t)
        PROVE  Erased(g, t)'
    BY <1>3, <2>1, ForeignContent DEF Erased, Gone, Sectors
  <2> QED
    BY <2>1 DEF ErasedTo
<1> QED
  BY <1>1, <1>2, <1>3, Writers

\* A sector that holds the pattern keeps it until file_erase writes again.
LEMMA HoldsStays ==
  ASSUME Typed, [Next]_fvars, ~ WriteSome, opts' = opts, NEW g \in Files, NEW s, Holds(g, s)
  PROVE  Holds(g, s)'
<1>1. CASE Quiet
  BY <1>1 DEF Quiet, Holds, Sectors
<1>2. ASSUME NEW f \in Opened, NEW t \in 0 .. MaxSize - 1, ForeignWrite(f, t)
      PROVE  Holds(g, s)'
  BY <1>2, ForeignContent DEF Holds, Sectors
<1> QED
  BY <1>1, <1>2, Writers

-----------------------------------------------------------------------------
(* Every step leaves a typed state. *)

\* What one read() does: n more sectors are counted, and m says whether one differed.
ReadDoes(n, m) ==
  /\ pc = "read" /\ read_pos + n <= Size(reading) /\ read_pos' = read_pos + n
  /\ result' = [result EXCEPT !.bytes_checked = @ + n, !.mismatched = m]
  /\ m = 0 => /\ result.mismatched = 0
              /\ \A s \in read_pos .. read_pos + n - 1 : content[reading][s] = opts.pattern
  /\ UNCHANGED <<content, path, foreign, swapped, pc, opts, fd, bytes_left, pass_no, reading>>

\* What VerifyRead does is one such read.
LEMMA ReadEffect ==
  ASSUME Typed, VerifyRead
  PROVE  \E n \in Nat \ {0}, m \in Nat : ReadDoes(n, m)
<1>1. Chunk \in Nat /\ result.mismatched \in Nat
  BY FileParameters DEF Typed, Results
<1> DEFINE differs(n) == \E s \in read_pos .. read_pos + n - 1 : content[reading][s] # opts.pattern
           m(n) == IF differs(n) THEN 1 ELSE result.mismatched
<1>2. PICK n \in 1 .. Chunk :
        /\ pc = "read" /\ read_pos + n <= Size(reading) /\ read_pos' = read_pos + n
        /\ result' = [result EXCEPT !.bytes_checked = @ + n, !.mismatched = m(n)]
        /\ UNCHANGED <<content, path, foreign, swapped, pc, opts, fd, bytes_left, pass_no, reading>>
  BY DEF VerifyRead
<1>3. m(n) \in Nat
  BY <1>1
<1>4. m(n) = 0 => result.mismatched = 0 /\ ~ differs(n)
  OBVIOUS
<1> HIDE DEF m
<1>5. ReadDoes(n, m(n))
  BY <1>2, <1>4 DEF ReadDoes
<1> QED
  BY <1>1, <1>3, <1>5

\* Typed is preserved, given that no write goes beyond the size of the call.
LEMMA TypedNext ==
  ASSUME Typed, Writing, Unswapped, [Next]_fvars
  PROVE  Typed'
<1>1. CASE UNCHANGED fvars
  BY <1>1 DEF fvars, Typed
<1>2. ASSUME NEW dangerous \in BOOLEAN, NEW o \in Options, Call(dangerous, o)
      PROVE  Typed'
  <2>1. o \in OptionSet
    BY FileParameters DEF Options, OptionSet
  <2>2. \A c \in {"DANGEROUS_PATH", "FAILED", "SYMLINK_ATTACK"} : [NoResult EXCEPT !.code = c] \in Results
    BY DEF NoResult, Results
  <2>3. IsFile => [NoResult EXCEPT !.original_size = Size(path)] \in Results
    <3>1. IsFile => Size(path) \in Nat
      BY SizeOfFile, FileParameters DEF IsFile
    <3> QED
      BY <3>1 DEF NoResult, Results
  <2>4. /\ pc' \in Points /\ fd' \in Opened \cup {"none"} /\ reading' \in Opened \cup {"none"}
        /\ bytes_left' \in Nat /\ pass_no' \in Nat /\ read_pos' \in Nat
        /\ result' \in Results
    <3>1. CASE IsFile /\ pc' = "open" /\ result' = [NoResult EXCEPT !.original_size = Size(path)]
               /\ UNCHANGED <<fd, bytes_left, pass_no, read_pos, reading>>
      BY <2>3, <3>1 DEF Typed, Points
    <3>2. CASE Return([NoResult EXCEPT !.code = "DANGEROUS_PATH"])
      BY <2>2, <3>2, ReturnTyped
    <3>3. CASE Return([NoResult EXCEPT !.code = "FAILED"])
      BY <2>2, <3>3, ReturnTyped
    <3>4. CASE Return([NoResult EXCEPT !.code = "SYMLINK_ATTACK"])
      BY <2>2, <3>4, ReturnTyped
    <3> QED
      BY <1>2, <3>1, <3>2, <3>3, <3>4 DEF Call
  <2> QED
    BY <1>2, <2>1, <2>4 DEF Call, Typed
<1>3. \A c \in {"FAILED", "OK"} : Outcome(c) \in Results
  BY DEF Outcome, Typed, Results
<1>4. CASE OpenFile
  <2>1. CASE IsFile /\ fd' = path /\ pc' = "pass"
             /\ UNCHANGED <<result, bytes_left, pass_no, read_pos, reading>>
    <3>1. fd' \in Opened
      BY <2>1 DEF IsFile, Typed, Paths, Files, Opened
    <3> QED
      BY <1>4, <2>1, <3>1 DEF OpenFile, Typed, Points
  <2>2. CASE Return(Outcome("FAILED"))
    BY <1>3, <1>4, <2>2, ReturnTyped DEF OpenFile, Typed
  <2> QED
    BY <1>4, <2>1, <2>2 DEF OpenFile
<1>5. CASE NextPass
  BY <1>5 DEF NextPass, Typed, Points, Results
<1>6. CASE WriteSome
  <2>1. PICK w \in Nat \ {0}, x \in Content \ {"data"} : WriteDoes(w, x)
    BY <1>6, WriteEffect
  <2>2. fd \in Files /\ content' \in [Files -> Contents] /\ foreign' \subseteq foreign
    BY <1>6, <2>1, WriteEffect, WriteContent
  <2>3. bytes_left' \in Nat /\ result' \in Results
    BY <2>1 DEF WriteDoes, Typed, Results
  <2> QED
    BY <2>1, <2>2, <2>3 DEF WriteDoes, Typed
<1>7. CASE WriteFails
  BY <1>3, <1>7, ReturnTyped DEF WriteFails, Typed
<1>8. CASE EndPass
  BY <1>8 DEF EndPass, Typed, Points, Results
<1>9. ASSUME NEW b \in BOOLEAN, AfterVerify(b)
      PROVE  /\ pc' \in Points /\ reading' \in Opened \cup {"none"}
             /\ read_pos' \in Nat /\ result' \in Results
  BY <1>9 DEF AfterVerify, Typed, Points, Results
<1>10. CASE VerifyOpen
  <2>1. CASE IsFile /\ reading' = path /\ pc' = "read" /\ UNCHANGED <<read_pos, result>>
    <3>1. reading' \in Opened
      BY <2>1 DEF IsFile, Typed, Paths, Files, Opened
    <3> QED
      BY <1>10, <2>1, <3>1 DEF VerifyOpen, Typed, Points
  <2>2. ASSUME NEW b \in BOOLEAN, AfterVerify(b)
        PROVE  Typed'
    BY <1>9, <1>10, <2>2 DEF VerifyOpen, Typed
  <2> QED
    BY <1>10, <2>1, <2>2 DEF VerifyOpen
<1>11. CASE VerifyRead
  <2>1. PICK n \in Nat \ {0}, m \in Nat : ReadDoes(n, m)
    BY <1>11, ReadEffect
  <2>2. result \in Results /\ result.bytes_checked + n \in Nat /\ read_pos + n \in Nat
    BY DEF Typed, Results
  <2>3. \A k \in Nat : [result EXCEPT !.bytes_checked = k, !.mismatched = m] \in Results
    BY <2>2 DEF Results
  <2> QED
    BY <2>1, <2>2, <2>3 DEF ReadDoes, Typed
<1>12. ASSUME NEW at_end \in BOOLEAN, VerifyEnd(at_end)
       PROVE  Typed'
  BY <1>9, <1>12 DEF VerifyEnd, Typed
<1>13. CASE Finish
  <2>1. ASSUME path \in {"victim", "replacement", "link"}
        PROVE  [result EXCEPT !.code = "OK", !.removed = path] \in Results
    BY <2>1 DEF Typed, Results
  <2>2. /\ path' \in Paths
        /\ pc' \in Points /\ fd' \in Opened \cup {"none"} /\ reading' \in Opened \cup {"none"}
        /\ bytes_left' \in Nat /\ pass_no' \in Nat /\ read_pos' \in Nat
        /\ result' \in Results
    <3>1. CASE path \in {"victim", "replacement", "link"} /\ path' = "none"
               /\ Return([result EXCEPT !.code = "OK", !.removed = path])
      BY <2>1, <3>1, ReturnTyped DEF Paths
    <3>2. CASE UNCHANGED path /\ Return(Outcome("OK"))
      BY <1>3, <3>2, ReturnTyped DEF Typed
    <3> QED
      BY <1>13, <3>1, <3>2 DEF Finish
  <2> QED
    BY <1>13, <2>2 DEF Finish, Typed
<1>14. ASSUME NEW what \in {"replacement", "link", "directory", "none"}, Swap(what)
       PROVE  Typed'
  BY <1>14 DEF Swap, Typed, Paths
<1>15. ASSUME NEW f \in Opened, NEW s \in 0 .. MaxSize - 1, ForeignWrite(f, s)
       PROVE  Typed'
  BY <1>15, ForeignContent DEF ForeignWrite, Typed
<1> QED
  BY <1>1, <1>2, <1>4, <1>5, <1>6, <1>7, <1>8, <1>10, <1>11, <1>12, <1>13, <1>14, <1>15
     DEF Next, Opened

-----------------------------------------------------------------------------
(* How far the open file is overwritten. *)

\* ErasedTo, of the state after a step.
ErasedNext(f, n) ==
  \A s \in 0 .. n - 1 :
    s \in DOMAIN content'[f] /\ (content'[f][s] # "data" \/ <<f, s>> \in foreign')

\* What is erased before a step is so after it, for the files the invariant names.
LEMMA ErasedKept ==
  ASSUME Typed, Writing, [Next]_fvars
  PROVE  /\ \A f \in Files : \A n : ErasedTo(f, n) => ErasedNext(f, n)
         /\ fd' \in Files => (ErasedTo(fd, result.original_size - bytes_left)' <=>
                              ErasedNext(fd', result'.original_size - bytes_left'))
         /\ fd' \in Files => (ErasedTo(fd, result.original_size)' <=>
                              ErasedNext(fd', result'.original_size))
         /\ ErasedTo(path, result.original_size)' <=> ErasedNext(path', result'.original_size)
         /\ ErasedTo(result.removed, result.original_size)' <=>
              ErasedNext(result'.removed, result'.original_size)
<1>1. ASSUME NEW f \in Files, NEW n, ErasedTo(f, n)
      PROVE  ErasedNext(f, n)
  <2>1. ErasedTo(f, n)'
    BY <1>1, ErasedStays
  <2> QED
    BY <2>1 DEF ErasedNext, ErasedTo, Erased, Gone, Sectors
<1> QED
  BY <1>1 DEF ErasedNext, ErasedTo, Erased, Gone, Sectors

\* Every return of file_erase closes the file.
LEMMA ReturnWriting ==
  ASSUME NEW r \in Results, Return(r), r.original_size <= MaxSize
  PROVE  Writing'
BY DEF Return, Writing, Results

\* Every step keeps what the passes have overwritten.
LEMMA WritingNext ==
  ASSUME Typed, Writing, Unswapped, [Next]_fvars, Typed'
  PROVE  Writing'
<1>1. /\ \A f \in Files : \A n : ErasedTo(f, n) => ErasedNext(f, n)
      /\ fd' \in Files => (ErasedTo(fd, result.original_size - bytes_left)' <=>
                           ErasedNext(fd', result'.original_size - bytes_left'))
      /\ fd' \in Files => (ErasedTo(fd, result.original_size)' <=>
                           ErasedNext(fd', result'.original_size))
  BY ErasedKept
<1>2. /\ result \in Results /\ result.original_size \in Nat /\ bytes_left \in Nat /\ pass_no \in Nat
      /\ (fd # "none" => fd \in Files)
      /\ MaxSize \in Nat
  BY FileParameters DEF Typed, Results, Opened, Files
<1>3. /\ result' \in Results
      /\ (fd' # "none" => fd' \in Files)
  BY DEF Typed, Opened, Files
<1>4. ASSUME UNCHANGED <<pc, fd, bytes_left, pass_no, read_pos>>,
             result'.original_size = result.original_size,
             fd # "none" /\ ~ swapped' => path' = fd
      PROVE  Writing'
  BY <1>1, <1>2, <1>4 DEF Writing
<1>5. CASE UNCHANGED fvars
  BY <1>4, <1>5 DEF fvars, Writing
<1>6. ASSUME NEW r \in Results, Return(r), r.original_size <= MaxSize
      PROVE  Writing'
  BY <1>6, ReturnWriting
<1>7. \A c \in {"OK", "FAILED"} : Outcome(c) \in Results /\ Outcome(c).original_size <= MaxSize
  BY DEF Outcome, Typed, Results, Writing
<1>8. ASSUME NEW dangerous \in BOOLEAN, NEW o \in Options, Call(dangerous, o)
      PROVE  Writing'
  <2>1. CASE IsFile /\ pc' = "open" /\ result' = [NoResult EXCEPT !.original_size = Size(path)]
             /\ UNCHANGED <<fd, bytes_left, pass_no, read_pos, reading>>
    <3>1. Size(path) \in 0 .. MaxSize
      BY <2>1, SizeOfFile DEF IsFile
    <3>2. result'.original_size = Size(path)
      BY <2>1 DEF NoResult
    <3>3. pc \in {"idle", "done"}
      BY <1>8 DEF Call
    <3> QED
      BY <1>2, <2>1, <3>1, <3>2, <3>3 DEF Writing
  <2>2. ASSUME NEW c \in {"DANGEROUS_PATH", "FAILED", "SYMLINK_ATTACK"}
        PROVE  /\ [NoResult EXCEPT !.code = c] \in Results
               /\ [NoResult EXCEPT !.code = c].original_size <= MaxSize
    <3>1. NoResult \in Results /\ NoResult.original_size = 0
      BY DEF NoResult, Results
    <3>2. [NoResult EXCEPT !.code = c] \in Results
      BY <3>1 DEF Results
    <3>3. [NoResult EXCEPT !.code = c].original_size = 0
      BY <3>1 DEF Results
    <3> QED
      BY <1>2, <3>2, <3>3
  <2>3. CASE Return([NoResult EXCEPT !.code = "DANGEROUS_PATH"])
    BY <1>6, <2>2, <2>3
  <2>4. CASE Return([NoResult EXCEPT !.code = "FAILED"])
    BY <1>6, <2>2, <2>4
  <2>5. CASE Return([NoResult EXCEPT !.code = "SYMLINK_ATTACK"])
    BY <1>6, <2>2, <2>5
  <2> QED
    BY <1>8, <2>1, <2>3, <2>4, <2>5 DEF Call
<1>9. CASE OpenFile
  <2>1. CASE IsFile /\ fd' = path /\ pc' = "pass"
             /\ UNCHANGED <<result, bytes_left, pass_no, read_pos, reading>>
    BY <1>2, <1>9, <2>1 DEF OpenFile, Writing, IsFile, Files
  <2> QED
    BY <1>6, <1>7, <1>9, <2>1 DEF OpenFile
<1>10. CASE NextPass
  <2>1. CASE pass_no < opts.passes
    <3>1. /\ pc = "pass" /\ pc' = "write" /\ bytes_left' = result.original_size
          /\ UNCHANGED <<fd, pass_no, result, path, swapped>>
      BY <1>10, <2>1 DEF NextPass
    <3>2. ErasedNext(fd', 0)
      BY DEF ErasedNext
    <3> QED
      BY <1>1, <1>2, <3>1, <3>2 DEF Writing
  <2>2. CASE ~ (pass_no < opts.passes)
    BY <1>2, <1>10, <2>2 DEF NextPass, Writing
  <2> QED
    BY <2>1, <2>2
<1>11. CASE WriteSome
  <2>1. PICK w \in Nat \ {0}, x \in Content \ {"data"} : WriteDoes(w, x)
    BY <1>11, WriteEffect
  <2>2. /\ pc = "write" /\ fd \in Files /\ bytes_left' = bytes_left - w /\ w <= bytes_left
        /\ result'.original_size = result.original_size
        /\ UNCHANGED <<path, swapped, pc, fd, pass_no>>
    BY <1>2, <1>11, <2>1, WriteEffect DEF WriteDoes, Results
  <2>3. ErasedNext(fd, result.original_size - bytes_left')
    <3>1. \A s \in result.original_size - bytes_left .. result.original_size - bytes_left + w - 1 :
            Erased(fd, s)'
      BY <2>1, <2>2, WriteErases
    <3>2. ErasedNext(fd, result.original_size - bytes_left)
      BY <1>1, <2>2 DEF Writing
    <3> QED
      BY <1>2, <2>2, <3>1, <3>2 DEF ErasedNext, Erased, Gone, Sectors
  <2> QED
    BY <1>1, <1>2, <2>2, <2>3 DEF Writing
<1>12. CASE WriteFails
  BY <1>6, <1>7, <1>12 DEF WriteFails
<1>13. CASE EndPass
  <2>1. /\ pc = "write" /\ pc' = "pass" /\ bytes_left = 0
        /\ result'.original_size = result.original_size
        /\ UNCHANGED <<path, swapped, fd, bytes_left>>
    BY <1>2, <1>13 DEF EndPass, Results
  <2>2. ErasedTo(fd, result.original_size) /\ fd # "none"
    <3>1. result.original_size - bytes_left = result.original_size
      BY <1>2, <2>1
    <3> QED
      BY <2>1, <3>1 DEF Writing
  <2> QED
    BY <1>1, <1>2, <2>1, <2>2 DEF Writing
<1>14. ASSUME pc \in {"verify", "read"}, pc' \in {"read", "unlink"},
              UNCHANGED <<path, swapped, fd, bytes_left>>,
              result'.original_size = result.original_size
       PROVE  Writing'
  BY <1>2, <1>14 DEF Writing
<1>15. \A b : AfterVerify(b) => pc' = "unlink" /\ result'.original_size = result.original_size
  BY <1>2 DEF AfterVerify, Results
<1>16. CASE VerifyOpen
  BY <1>14, <1>15, <1>16 DEF VerifyOpen
<1>17. CASE VerifyRead
  <2>1. PICK n \in Nat \ {0}, m \in Nat : ReadDoes(n, m)
    BY <1>17, ReadEffect
  <2>2. result'.original_size = result.original_size
    BY <1>2, <2>1 DEF ReadDoes, Results
  <2> QED
    BY <1>14, <2>1, <2>2 DEF ReadDoes
<1>18. ASSUME NEW at_end \in BOOLEAN, VerifyEnd(at_end)
       PROVE  Writing'
  BY <1>14, <1>15, <1>18 DEF VerifyEnd
<1>19. CASE Finish
  <2>1. ASSUME path \in {"victim", "replacement", "link"}
        PROVE  LET r == [result EXCEPT !.code = "OK", !.removed = path]
               IN  r \in Results /\ r.original_size <= MaxSize
    BY <2>1 DEF Typed, Results, Writing
  <2> QED
    BY <1>6, <1>7, <1>19, <2>1 DEF Finish
<1>20. ASSUME NEW what \in {"replacement", "link", "directory", "none"}, Swap(what)
       PROVE  Writing'
  BY <1>4, <1>20 DEF Swap
<1>21. ASSUME NEW f \in Opened, NEW s \in 0 .. MaxSize - 1, ForeignWrite(f, s)
       PROVE  Writing'
  BY <1>4, <1>21 DEF ForeignWrite, Writing
<1> QED
  BY <1>5, <1>8, <1>9, <1>10, <1>11, <1>12, <1>13, <1>16, <1>17, <1>18, <1>19, <1>20, <1>21
     DEF Next, Opened

-----------------------------------------------------------------------------
(* What the path names, and what the verification has seen. *)

\* Only the other process and unlink() change what the path names.
LEMMA UnswappedNext ==
  ASSUME Typed, Unswapped, [Next]_fvars
  PROVE  Unswapped'
<1>1. CASE UNCHANGED fvars
  BY <1>1 DEF fvars, Unswapped
<1>2. ASSUME NEW dangerous \in BOOLEAN, NEW o \in Options, Call(dangerous, o)
      PROVE  Unswapped'
  <2>1. IsFile => path \in Opened
    BY DEF IsFile, Files, Typed, Paths, Opened
  <2> QED
    BY <1>2, <2>1 DEF Call, Return, Unswapped
<1>3. CASE OpenFile \/ WriteFails \/ Finish
  BY <1>3 DEF OpenFile, WriteFails, Finish, Return, Unswapped
<1>4. CASE NextPass \/ WriteSome \/ EndPass
  BY <1>4 DEF NextPass, WriteSome, EndPass, Unswapped
<1>5. CASE VerifyOpen \/ VerifyRead \/ \E at_end \in BOOLEAN : VerifyEnd(at_end)
  BY <1>5 DEF VerifyOpen, VerifyRead, VerifyEnd, AfterVerify, Unswapped
<1>6. CASE \E what \in {"replacement", "link", "directory", "none"} : Swap(what)
  BY <1>6 DEF Swap, Unswapped
<1>7. ASSUME NEW f \in Opened, NEW s \in 0 .. MaxSize - 1, ForeignWrite(f, s)
      PROVE  Unswapped'
  BY <1>7 DEF ForeignWrite, Unswapped
<1> QED
  BY <1>1, <1>2, <1>3, <1>4, <1>5, <1>6, <1>7 DEF Next, Opened

\* HoldsTo, of the state after a step.
HoldsNext(f, n) ==
  \A s \in 0 .. n - 1 :
    s \in DOMAIN content'[f] /\ (content'[f][s] = opts'.pattern \/ <<f, s>> \in foreign')

\* A sector seen with the pattern has it while file_erase does not write.
LEMMA HoldsKept ==
  ASSUME Typed, [Next]_fvars, ~ WriteSome, opts' = opts
  PROVE  /\ \A f \in Files : \A n : HoldsTo(f, n) => HoldsNext(f, n)
         /\ HoldsTo(reading, read_pos)' <=> HoldsNext(reading', read_pos')
         /\ HoldsTo(path, result.bytes_checked)' <=> HoldsNext(path', result'.bytes_checked)
<1>1. ASSUME NEW f \in Files, NEW n, HoldsTo(f, n)
      PROVE  HoldsNext(f, n)
  <2>1. \A s \in 0 .. n - 1 : Holds(f, s)'
    BY <1>1, HoldsStays DEF HoldsTo
  <2> QED
    BY <2>1 DEF HoldsNext, Holds, Sectors
<1> QED
  BY <1>1 DEF HoldsNext, HoldsTo, Holds, Sectors

\* Every step keeps what the verification has counted true.
LEMMA VerifyingNext ==
  ASSUME Typed, Writing, Unswapped, Verifying, [Next]_fvars
  PROVE  Verifying'
<1>1. /\ result \in Results /\ result.bytes_checked \in Nat /\ read_pos \in Nat
      /\ (reading # "none" => reading \in Files)
      /\ (path \in Opened => path \in Files)
  BY DEF Typed, Results, Opened, Files
<1>2. ASSUME pc' \in {"open", "pass", "write", "verify"}, reading' = "none", read_pos' = 0,
             result'.bytes_checked = 0, result'.mismatched = 0, ~ result'.passed
      PROVE  Verifying'
  BY <1>2 DEF Verifying
<1>3. ASSUME pc' = "done", reading' = "none"
      PROVE  Verifying'
  BY <1>3 DEF Verifying
<1>4. ASSUME pc \in {"open", "pass", "write"}, pc' \in {"pass", "write", "verify"},
             UNCHANGED <<reading, read_pos>>,
             UNCHANGED <<result.bytes_checked, result.mismatched, result.passed>>
      PROVE  Verifying'
  BY <1>2, <1>4 DEF Verifying
<1>5. ASSUME UNCHANGED <<pc, opts, read_pos, reading, result>>, ~ WriteSome,
             ~ swapped' => ~ swapped /\ path' = path
      PROVE  Verifying'
  <2>1. /\ \A f \in Files : \A n : HoldsTo(f, n) => HoldsNext(f, n)
        /\ HoldsTo(reading, read_pos)' <=> HoldsNext(reading', read_pos')
        /\ HoldsTo(path, result.bytes_checked)' <=> HoldsNext(path', result'.bytes_checked)
    BY <1>5, HoldsKept
  <2> QED
    BY <1>1, <1>5, <2>1 DEF Verifying, Unswapped
<1>6. CASE UNCHANGED fvars
  BY <1>5, <1>6, WriteEffect DEF fvars
<1>7. ASSUME NEW dangerous \in BOOLEAN, NEW o \in Options, Call(dangerous, o)
      PROVE  Verifying'
  <2>1. CASE IsFile /\ pc' = "open" /\ result' = [NoResult EXCEPT !.original_size = Size(path)]
             /\ UNCHANGED <<fd, bytes_left, pass_no, read_pos, reading>>
    <3>1. pc \in {"idle", "done"}
      BY <1>7 DEF Call
    <3> QED
      BY <1>2, <2>1, <3>1 DEF NoResult, Writing, Verifying
  <2> QED
    BY <1>3, <1>7, <2>1 DEF Call, Return
<1>8. CASE OpenFile
  BY <1>3, <1>4, <1>8 DEF OpenFile, Return
<1>9. CASE NextPass
  <2>1. pc' = "unlink" => reading' = "none" /\ ~ result'.passed
    BY <1>9 DEF NextPass, Verifying
  <2>2. CASE pc' = "unlink"
    BY <2>1, <2>2 DEF Verifying
  <2> QED
    BY <1>4, <1>9, <2>2 DEF NextPass
<1>10. CASE WriteSome
  <2>1. PICK w \in Nat \ {0}, x \in Content \ {"data"} : WriteDoes(w, x)
    BY <1>10, WriteEffect
  <2>2. UNCHANGED <<result.bytes_checked, result.mismatched, result.passed>>
    BY <1>1, <2>1 DEF WriteDoes, Results
  <2> QED
    BY <1>4, <1>10, <2>2 DEF WriteSome
<1>11. CASE WriteFails
  BY <1>3, <1>11 DEF WriteFails, Return
<1>12. CASE EndPass
  <2>1. UNCHANGED <<result.bytes_checked, result.mismatched, result.passed>>
    BY <1>1, <1>12 DEF EndPass, Results
  <2> QED
    BY <1>4, <1>12, <2>1 DEF EndPass
<1>13. \A b \in BOOLEAN : AfterVerify(b) =>
         /\ pc' = "unlink" /\ reading' = "none" /\ result'.passed = b
         /\ result'.bytes_checked = result.bytes_checked
  BY <1>1 DEF AfterVerify, Results
<1>14. CASE VerifyOpen
  <2>1. CASE IsFile /\ opts.pattern # "random" /\ reading' = path /\ pc' = "read"
             /\ UNCHANGED <<read_pos, result>>
    <3>1. reading' # "none" /\ pc = "verify" /\ UNCHANGED <<path, swapped>>
      BY <1>14, <2>1 DEF VerifyOpen, IsFile, Files
    <3>2. HoldsTo(reading, read_pos)'
      BY <2>1, <3>1 DEF HoldsTo, Verifying
    <3> QED
      BY <2>1, <3>1, <3>2 DEF Verifying
  <2>2. CASE AfterVerify(TRUE) /\ opts.pattern = "random"
    BY <1>13, <1>14, <2>2 DEF VerifyOpen, Verifying
  <2>3. CASE AfterVerify(FALSE)
    BY <1>13, <2>3 DEF Verifying
  <2> QED
    BY <1>14, <2>1, <2>2, <2>3 DEF VerifyOpen
<1>15. CASE VerifyRead
  <2>1. PICK n \in Nat \ {0}, m \in Nat : ReadDoes(n, m)
    BY <1>15, ReadEffect
  <2>2. /\ pc = "read" /\ read_pos + n <= Size(reading) /\ read_pos' = read_pos + n
        /\ UNCHANGED <<content, foreign, path, swapped, pc, opts, reading>>
    BY <2>1 DEF ReadDoes
  <2>3. /\ result'.bytes_checked = result.bytes_checked + n /\ result'.mismatched = m
        /\ result'.passed = result.passed
    BY <1>1, <2>1 DEF ReadDoes, Results
  <2>4. ASSUME m = 0
        PROVE  HoldsTo(reading, read_pos)'
    <3>1. /\ result.mismatched = 0
          /\ \A s \in read_pos .. read_pos + n - 1 : content[reading][s] = opts.pattern
      BY <2>1, <2>4 DEF ReadDoes
    <3>2. HoldsTo(reading, read_pos) /\ reading \in Files
      BY <1>1, <2>2, <3>1 DEF Verifying
    <3>3. Size(reading) \in Nat /\ Sectors(reading) = 0 .. Size(reading) - 1
      BY <3>2, SizeOfFile, FileParameters
    <3>4. \A s \in 0 .. read_pos + n - 1 : Holds(reading, s)
      BY <1>1, <2>2, <3>1, <3>2, <3>3 DEF HoldsTo, Holds
    <3>5. ~ WriteSome
      BY <2>2 DEF WriteSome
    <3>6. HoldsTo(reading, read_pos + n)
      BY <1>1, <3>4 DEF HoldsTo
    <3>7. HoldsNext(reading, read_pos + n)
      BY <2>2, <3>2, <3>5, <3>6, HoldsKept
    <3> QED
      BY <2>2, <3>5, <3>7, HoldsKept
  <2> QED
    BY <1>1, <2>2, <2>3, <2>4 DEF Verifying
<1>16. ASSUME NEW at_end \in BOOLEAN, VerifyEnd(at_end)
       PROVE  Verifying'
  <2>1. /\ pc = "read" /\ AfterVerify(result.mismatched = 0)
        /\ UNCHANGED <<content, path, foreign, swapped, opts>>
    BY <1>16 DEF VerifyEnd
  <2>2. /\ pc' = "unlink" /\ reading' = "none" /\ result'.passed = (result.mismatched = 0)
        /\ result'.bytes_checked = result.bytes_checked
    BY <1>13, <2>1
  <2>3. result.mismatched = 0 => HoldsTo(reading, result.bytes_checked)
    BY <2>1 DEF Verifying
  <2>4. ~ swapped => path = reading
    BY <2>1 DEF Verifying
  <2>5. result'.passed /\ ~ swapped' => HoldsTo(path, result.bytes_checked)'
    BY <2>1, <2>2, <2>3, <2>4 DEF HoldsTo, Holds, Sectors
  <2> QED
    BY <2>2, <2>5 DEF Verifying
<1>17. CASE Finish
  BY <1>3, <1>17 DEF Finish, Return
<1>18. ASSUME NEW what \in {"replacement", "link", "directory", "none"}, Swap(what)
       PROVE  Verifying'
  <2>1. ~ WriteSome
    BY <1>18 DEF Swap, WriteSome
  <2> QED
    BY <1>5, <1>18, <2>1 DEF Swap
<1>19. ASSUME NEW f \in Opened, NEW s \in 0 .. MaxSize - 1, ForeignWrite(f, s)
       PROVE  Verifying'
  <2>1. ~ WriteSome
    BY <1>19, WriteEffect DEF ForeignWrite
  <2> QED
    BY <1>5, <1>19, <2>1 DEF ForeignWrite
<1> QED
  BY <1>6, <1>7, <1>8, <1>9, <1>10, <1>11, <1>12, <1>14, <1>15, <1>16, <1>17, <1>18, <1>19
     DEF Next, Opened

-----------------------------------------------------------------------------
(* What is removed was erased. *)

\* The passes hand what they erased on to unlink().
LEMMA RemovingNext ==
  ASSUME Typed, Writing, Unswapped, Removing, [Next]_fvars
  PROVE  Removing'
<1>1. /\ result \in Results /\ pass_no \in Nat /\ opts.passes \in Nat
      /\ \A f \in Opened : f \in Files /\ f # "none"
  BY DEF Typed, Results, OptionSet, Opened, Files
<1>2. /\ \A f \in Files : \A n : ErasedTo(f, n) => ErasedNext(f, n)
      /\ ErasedTo(path, result.original_size)' <=> ErasedNext(path', result'.original_size)
      /\ ErasedTo(result.removed, result.original_size)' <=>
           ErasedNext(result'.removed, result'.original_size)
  BY ErasedKept
<1>3. ASSUME UNCHANGED <<pc, opts>>, UNCHANGED <<result.removed, result.original_size>>,
             ~ swapped' => ~ swapped /\ path' = path
      PROVE  Removing'
  BY <1>1, <1>2, <1>3 DEF Removing, ErasedPath, Unswapped
<1>4. ASSUME pc # "done", pc' # "done", pc' \notin {"verify", "read", "unlink"},
             result'.removed = result.removed
      PROVE  Removing'
  BY <1>4 DEF Removing
<1>5. ASSUME result'.removed = "none", pc' \in {"open", "done"}
      PROVE  Removing'
  BY <1>5 DEF Removing
<1>6. ASSUME pc \in {"verify", "read"}, pc' \in {"read", "unlink"}, UNCHANGED <<path, swapped, opts>>,
             UNCHANGED <<result.removed, result.original_size>>
      PROVE  Removing'
  BY <1>1, <1>2, <1>6 DEF Removing, ErasedPath, Unswapped
<1>7. CASE UNCHANGED fvars
  BY <1>3, <1>7 DEF fvars
<1>8. ASSUME NEW dangerous \in BOOLEAN, NEW o \in Options, Call(dangerous, o)
      PROVE  Removing'
  BY <1>5, <1>8 DEF Call, Return, NoResult
<1>9. pc # "done" => Outcome("FAILED").removed = "none" /\ Outcome("OK").removed = "none"
  BY <1>1 DEF Outcome, Results, Removing
<1>10. CASE OpenFile
  BY <1>4, <1>5, <1>9, <1>10 DEF OpenFile, Return
<1>11. CASE NextPass
  <2>1. CASE pass_no < opts.passes
    BY <1>4, <1>11, <2>1 DEF NextPass
  <2>2. CASE ~ (pass_no < opts.passes)
    <3>1. /\ pc = "pass" /\ pc' \in {"verify", "unlink"} /\ fd # "none"
          /\ UNCHANGED <<path, swapped, opts, result>>
      BY <1>11, <2>2 DEF NextPass, Writing
    <3>2. ~ swapped /\ opts.passes > 0 => ErasedTo(path, result.original_size) /\ path \in Opened
      BY <1>1, <2>2, <3>1 DEF Writing, Unswapped
    <3> QED
      BY <1>1, <1>2, <3>1, <3>2 DEF Removing, ErasedPath
  <2> QED
    BY <2>1, <2>2
<1>12. CASE WriteSome
  <2>1. PICK w \in Nat \ {0}, x \in Content \ {"data"} : WriteDoes(w, x)
    BY <1>12, WriteEffect
  <2>2. result'.removed = result.removed
    BY <1>1, <2>1 DEF WriteDoes, Results
  <2> QED
    BY <1>4, <1>12, <2>2 DEF WriteSome
<1>13. CASE WriteFails
  BY <1>5, <1>9, <1>13 DEF WriteFails, Return
<1>14. CASE EndPass
  <2>1. result'.removed = result.removed
    BY <1>1, <1>14 DEF EndPass, Results
  <2> QED
    BY <1>4, <1>14, <2>1 DEF EndPass
<1>15. \A b \in BOOLEAN : AfterVerify(b) =>
         pc' = "unlink" /\ UNCHANGED <<result.removed, result.original_size>>
  BY <1>1 DEF AfterVerify, Results
<1>16. CASE VerifyOpen
  BY <1>6, <1>15, <1>16 DEF VerifyOpen
<1>17. CASE VerifyRead
  <2>1. PICK n \in Nat \ {0}, m \in Nat : ReadDoes(n, m)
    BY <1>17, ReadEffect
  <2>2. UNCHANGED <<result.removed, result.original_size>>
    BY <1>1, <2>1 DEF ReadDoes, Results
  <2> QED
    BY <1>6, <2>1, <2>2 DEF ReadDoes
<1>18. ASSUME NEW at_end \in BOOLEAN, VerifyEnd(at_end)
       PROVE  Removing'
  BY <1>6, <1>15, <1>18 DEF VerifyEnd
<1>19. CASE Finish
  <2>1. CASE /\ path \in {"victim", "replacement", "link"}
             /\ Return([result EXCEPT !.code = "OK", !.removed = path])
    <3>1. /\ pc = "unlink" /\ pc' = "done" /\ result'.removed = path
          /\ result'.original_size = result.original_size
          /\ UNCHANGED <<swapped, opts>>
      BY <1>1, <1>19, <2>1 DEF Finish, Return, Results
    <3>2. ~ swapped => path \in Opened
      BY <3>1 DEF Unswapped
    <3>3. ~ swapped /\ opts.passes > 0 => ErasedTo(path, result.original_size)
      BY <3>1 DEF Removing, ErasedPath
    <3> QED
      BY <1>1, <1>2, <3>1, <3>2, <3>3 DEF Removing
  <2>2. CASE Return(Outcome("OK"))
    BY <1>5, <1>9, <1>19, <2>2 DEF Finish, Return
  <2> QED
    BY <1>19, <2>1, <2>2 DEF Finish
<1>20. ASSUME NEW what \in {"replacement", "link", "directory", "none"}, Swap(what)
       PROVE  Removing'
  BY <1>3, <1>20 DEF Swap
<1>21. ASSUME NEW f \in Opened, NEW s \in 0 .. MaxSize - 1, ForeignWrite(f, s)
       PROVE  Removing'
  BY <1>3, <1>21 DEF ForeignWrite
<1> QED
  BY <1>7, <1>8, <1>10, <1>11, <1>12, <1>13, <1>14, <1>16, <1>17, <1>18, <1>19, <1>20, <1>21
     DEF Next, Opened

-----------------------------------------------------------------------------
(* The invariant, and what follows from it. *)

\* The first state satisfies the invariant.
LEMMA InitEraseInv == Init => EraseInv
<1>1. Init => Typed
  BY InitTyped
<1>2. Init => Writing /\ Unswapped /\ Verifying /\ Removing
  BY FileParameters DEF Init, NoResult, Writing, Unswapped, Verifying, Removing
<1> QED
  BY <1>1, <1>2 DEF EraseInv

\* Every step preserves it.
LEMMA NextEraseInv == EraseInv /\ [Next]_fvars => EraseInv'
BY TypedNext, WritingNext, UnswappedNext, VerifyingNext, RemovingNext DEF EraseInv

\* The inductive invariant holds of every state.
LEMMA EraseInvariant == Spec => []EraseInv
BY InitEraseInv, NextEraseInv, PTL DEF Spec

\* TypeOK is what Typed says, file by file.
LEMMA TypeOKFollows == Typed => TypeOK
<1> SUFFICES ASSUME Typed PROVE TypeOK
  OBVIOUS
<1>1. \A f \in Files : \E n \in 0 .. MaxSize : content[f] \in [0 .. n - 1 -> Content]
  BY DEF Typed, Contents
<1> QED
  BY <1>1 DEF Typed, TypeOK, Paths, Points, OptionSet, Opened, Results

\* A completed pass has overwritten the open file up to the size lstat() saw,
\* and during a pass what bytes_left does not count is overwritten: however
\* short the writes are and whatever the other process writes meanwhile.
THEOREM PassesHaveOverwritten == Spec => []PassesOverwrite
<1>1. EraseInv => PassesOverwrite
  BY TypeOKFollows DEF EraseInv, Writing, ErasedTo, Erased, PassesOverwrite
<1> QED
  BY <1>1, EraseInvariant, PTL

\* The file that unlink() removes was overwritten in all of its passes, unless
\* the path was changed after the lstat() of the call.
THEOREM RemovedFilesWereErased == Spec => []RemovedWasErased
<1>1. EraseInv => RemovedWasErased
  BY DEF EraseInv, Removing, ErasedTo, Erased, RemovedWasErased
<1> QED
  BY <1>1, EraseInvariant, PTL

\* A verification that passes after reading as much as lstat() saw has seen the
\* pattern in every sector that the other process has not written.
THEOREM PassedVerificationSawPattern == Spec => []PassedMeansPattern
<1>1. EraseInv => PassedMeansPattern
  <2> SUFFICES ASSUME EraseInv, pc = "unlink", result.passed, opts.pattern # "random", ~ swapped,
                      result.bytes_checked >= result.original_size,
                      NEW s \in 0 .. result.original_size - 1
               PROVE  content[path][s] = opts.pattern \/ <<path, s>> \in foreign
    BY DEF PassedMeansPattern
  <2>1. HoldsTo(path, result.bytes_checked)
    BY DEF EraseInv, Verifying
  <2>2. s \in 0 .. result.bytes_checked - 1
    BY DEF EraseInv, Typed, Results
  <2> QED
    BY <2>1, <2>2 DEF HoldsTo, Holds
<1> QED
  BY <1>1, EraseInvariant, PTL

\* No step writes the file a symbolic link at the path leads to: O_NOFOLLOW
\* refuses the link whenever it appears, and the descriptor never leaves the
\* file it was opened on.
THEOREM LinksAreNotFollowed == Spec => OutsideUntouched
<1>1. EraseInv /\ [Next]_fvars => [content'["outside"] = content["outside"]]_fvars
  <2> SUFFICES ASSUME EraseInv, [Next]_fvars
               PROVE  content'["outside"] = content["outside"]
    OBVIOUS
  <2>1. Typed /\ Writing /\ "outside" \in Files
    BY DEF EraseInv, Files
  <2>2. CASE Quiet
    BY <2>2 DEF Quiet
  <2>3. CASE WriteSome
    <3>1. PICK w \in Nat \ {0}, x \in Content \ {"data"} : WriteDoes(w, x)
      BY <2>1, <2>3, WriteEffect
    <3>2. fd \in Files /\ fd # "outside"
      BY <2>1, <2>3, WriteEffect DEF Opened
    <3> QED
      BY <2>1, <3>1, <3>2, WriteContent
  <2>4. ASSUME NEW f \in Opened, NEW s \in 0 .. MaxSize - 1, ForeignWrite(f, s)
        PROVE  content'["outside"] = content["outside"]
    BY <2>1, <2>4, ForeignContent
  <2> QED
    BY <2>2, <2>3, <2>4, Writers
<1> QED
  BY <1>1, EraseInvariant, PTL DEF Spec, OutsideUntouched
=============================================================================
