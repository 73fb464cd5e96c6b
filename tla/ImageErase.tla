----------------------------- MODULE ImageErase -----------------------------
(***************************************************************************)
(* block_erase_image: overwriting a disk-image file through stdio.         *)
(*                                                                         *)
(* A sector that fwrite has taken passes through three places: the stdio   *)
(* buffer of the FILE, the page cache (what any process reads), and the    *)
(* disk (what a power failure leaves).  fflush moves it from the first to  *)
(* the second, fsync from the second to the third; both may also happen    *)
(* earlier, a sector at a time.  Another process has the image open too:   *)
(* it may store data in it and append to it at any time.                   *)
(***************************************************************************)
EXTENDS EraseOptions

CONSTANTS
  Sizes,        \* the sizes the image may have at first, in sectors
  MaxSize,      \* bound: the other process does not grow the image beyond this
  BlockSizes,   \* the values of BlockEraseOptions.block_size
  PassCounts,   \* the values of BlockEraseOptions.passes
  Patterns      \* the values of BlockEraseOptions.pattern

ASSUME ImageParameters ==
  /\ MaxSize \in Nat
  /\ Sizes \subseteq 0 .. MaxSize
  /\ BlockSizes \subseteq Nat
  /\ PassCounts \subseteq Nat
  /\ Patterns \subseteq ErasePattern

VARIABLES
  cache,             \* the image as processes read it, a function on its sectors
  disk,              \* the image as it is stored durably
  buffered,          \* sectors in the stdio buffer of the open FILE
  foreign,           \* sectors the other process wrote since the eraser last synced them
  pc,                \* where the call to block_erase_image is
  opts,              \* BlockEraseOptions, clamped
  file_size,         \* the size stat() reported
  remaining,         \* sectors of the pass still to be written
  passes_completed,
  bytes_written,     \* bytes_written_total, in sectors
  ret,               \* the call's return value, "none" before it returns
  promise            \* what the last ERASECURE_OK vouches for: sectors and pattern

image  == <<cache, disk, buffered, foreign>>
call   == <<opts, file_size, remaining>>
result == <<passes_completed, bytes_written>>
evars  == <<image, pc, call, result, ret, promise>>

Sectors == DOMAIN cache

NoPromise == [sectors |-> 0, pattern |-> ZERO]

\* block_erase_options_init.
DefaultOpts == [pattern    |-> ZERO,
                block_size |-> DefaultBlock,
                passes     |-> DefaultPasses]

Refusals == {"REAL_DEVICE_PATH", "STAT_FAILED", "INVALID_ARG", "ALLOC"}
Failures == {"OPEN_FAILED", "CRYPTO", "WRITE_FAILED", "SYNC_FAILED"}

TypeOK ==
  /\ \E n \in 0 .. MaxSize : /\ cache \in [0 .. n - 1 -> Content]
                             /\ disk \in [0 .. n - 1 -> Content]
  /\ buffered \subseteq Sectors
  /\ foreign \subseteq Sectors
  /\ pc \in {"idle", "open", "chunk", "close", "done"}
  /\ opts \in [pattern: ErasePattern, block_size: Nat \ {0}, passes: Nat \ {0}]
  /\ file_size \in Nat
  /\ remaining \in Nat
  /\ passes_completed \in Nat
  /\ bytes_written \in Nat
  /\ ret \in {"none", "OK"} \cup Refusals \cup Failures
  /\ promise \in [sectors: Nat, pattern: ErasePattern]

-----------------------------------------------------------------------------
(* The eraser. *)

\* free(buf) and return: the result record stays, the call's locals go.
Return(code) ==
  /\ pc' = "done"
  /\ ret' = code
  /\ opts' = DefaultOpts
  /\ file_size' = 0
  /\ remaining' = 0

\* What the checks before the pass loop may answer for a path of each kind.
PathCheck(path) ==
  CASE path = "device"    -> {"REAL_DEVICE_PATH"}
    [] path = "missing"   -> {"STAT_FAILED"}
    [] path = "irregular" -> {"INVALID_ARG"}
    [] path = "image"     -> IF Sectors = {} THEN {"INVALID_ARG"} ELSE {"OK", "ALLOC"}

Paths == {"device", "missing", "irregular", "image"}

\* The number of sectors of the image now.
Length(f) == CHOOSE n \in 0 .. MaxSize : DOMAIN f = 0 .. n - 1

\* Entry: clear the result, check the path, clamp the options, stat the file.
Call(path, pattern, block_size, passes) ==
  /\ pc \in {"idle", "done"}
  /\ passes_completed' = 0
  /\ bytes_written' = 0
  /\ \E outcome \in PathCheck(path) :
       IF outcome = "OK"
         THEN /\ pc' = "open"
              /\ ret' = "none"
              /\ promise' = NoPromise
              /\ opts' = [pattern    |-> pattern,
                          block_size |-> ClampBlockSize(block_size),
                          passes     |-> ClampPasses(passes)]
              /\ file_size' = Length(cache)
              /\ UNCHANGED remaining
         ELSE Return(outcome) /\ UNCHANGED promise
  /\ UNCHANGED image

\* The head of the pass loop: fopen "r+b", at offset 0.
OpenPass ==
  /\ pc = "open"
  /\ \/ /\ pc' = "chunk"
        /\ remaining' = file_size
        /\ UNCHANGED <<ret, opts, file_size>>
     \/ Return("OPEN_FAILED")
  /\ UNCHANGED <<image, result, promise>>

\* Leave the pass with an error; fclose is still to come.
Fail(code) ==
  /\ pc' = "close"
  /\ ret' = code

\* Mutant of NextSectors: the position is off by one.
NextSectorsShifted(n) ==
  LET at == file_size - remaining + 1 IN {s \in Sectors : s >= at /\ s < at + n}

\* The sectors of the next n from the position of the pass.
NextSectors(n) ==
  LET at == file_size - remaining IN {s \in Sectors : s >= at /\ s < at + n}

\* One turn of the chunk loop: fill the buffer, fwrite it, count it.  A short
\* fwrite leaves w sectors in the stdio buffer.
WriteChunk ==
  /\ pc = "chunk"
  /\ remaining > 0
  /\ LET chunk == ChunkSize(remaining, opts.block_size) IN
       \/ /\ buffered' = buffered \cup NextSectors(chunk)
          /\ bytes_written' = bytes_written + chunk
          /\ remaining' = remaining - chunk
          /\ UNCHANGED <<pc, ret>>
       \/ \E w \in 0 .. chunk - 1 :
            /\ buffered' = buffered \cup NextSectors(w)
            /\ Fail("WRITE_FAILED")
            /\ UNCHANGED <<bytes_written, remaining>>
       \/ /\ "CRYPTO" \in FillOutcomes(opts.pattern)
          /\ Fail("CRYPTO")
          /\ UNCHANGED <<buffered, bytes_written, remaining>>
  /\ UNCHANGED <<cache, disk, foreign, opts, file_size, passes_completed, promise>>

\* The content of the file once the stdio buffer is written out.
Flushed == [s \in Sectors |-> IF s \in buffered THEN opts.pattern ELSE cache[s]]

\* fclose after a pass without error, the count, and the next turn of the loop.
EndPass ==
  /\ passes_completed' = passes_completed + 1
  /\ IF passes_completed' < opts.passes
       THEN pc' = "open" /\ UNCHANGED <<ret, call, promise>>
       ELSE /\ Return("OK")
            /\ promise' = [sectors |-> file_size, pattern |-> opts.pattern]

\* Mutant of SyncPass: fsync of the descriptor without fflush of the stream,
\* whose buffer fclose then writes out.
SyncUnflushed ==
  /\ pc = "chunk"
  /\ remaining = 0
  /\ cache' = Flushed
  /\ disk' = cache
  /\ buffered' = {}
  /\ foreign' = {s \in foreign : cache[s] = DATA}
  /\ EndPass
  /\ UNCHANGED bytes_written

\* The tail of the pass: fflush and fsync, either of which may fail.
SyncPass ==
  /\ pc = "chunk"
  /\ remaining = 0
  /\ \/ /\ cache' = Flushed
        /\ disk' = Flushed
        /\ buffered' = {}
        /\ foreign' = {s \in foreign : Flushed[s] = DATA}
        /\ EndPass
     \/ Fail("SYNC_FAILED") /\ UNCHANGED <<image, call, passes_completed, promise>>
  /\ UNCHANGED bytes_written

\* fclose of a failed pass: what it can still write out it does, unchecked.
CloseFailed ==
  /\ pc = "close"
  /\ cache' \in {cache, Flushed}
  /\ buffered' = {}
  /\ Return(ret)
  /\ UNCHANGED <<disk, foreign, result, promise>>

Erase == OpenPass \/ WriteChunk \/ SyncPass \/ CloseFailed

-----------------------------------------------------------------------------
(* The C library, the kernel, the other process and the power supply. *)

\* stdio writes out the oldest sector of its buffer.
FlushOne(s) ==
  /\ s \in buffered
  /\ \A t \in buffered : s <= t
  /\ cache' = [cache EXCEPT ![s] = opts.pattern]
  /\ buffered' = buffered \ {s}
  /\ UNCHANGED <<disk, foreign, pc, call, result, ret, promise>>

\* The kernel writes a dirty page back.
WriteBack(s) ==
  /\ disk[s] # cache[s]
  /\ disk' = [disk EXCEPT ![s] = cache[s]]
  /\ UNCHANGED <<cache, buffered, foreign, pc, call, result, ret, promise>>

\* The other process stores data in the image.
ForeignWrite(s) ==
  /\ cache' = [cache EXCEPT ![s] = DATA]
  /\ foreign' = foreign \cup {s}
  /\ UNCHANGED <<disk, buffered, pc, call, result, ret, promise>>

\* The other process appends to the image.
ForeignAppend ==
  /\ Length(cache) < MaxSize
  /\ cache' = [s \in 0 .. Length(cache) |-> IF s \in Sectors THEN cache[s] ELSE DATA]
  /\ disk' = [s \in 0 .. Length(cache) |-> IF s \in Sectors THEN disk[s] ELSE DATA]
  /\ foreign' = foreign \cup {Length(cache)}
  /\ UNCHANGED <<buffered, pc, call, result, ret, promise>>

\* Power fails: the buffer, the page cache and the call are gone.  What an
\* earlier call reported is not.
PowerFailure ==
  /\ cache' = disk
  /\ buffered' = {}
  /\ pc' = "idle"
  /\ ret' = "none"
  /\ opts' = DefaultOpts
  /\ file_size' = 0
  /\ remaining' = 0
  /\ passes_completed' = 0
  /\ bytes_written' = 0
  /\ UNCHANGED <<disk, foreign, promise>>

-----------------------------------------------------------------------------
Init ==
  /\ \E n \in Sizes : cache = [s \in 0 .. n - 1 |-> DATA]
  /\ disk = cache
  /\ buffered = {}
  /\ foreign = {}
  /\ pc = "idle"
  /\ opts = DefaultOpts
  /\ file_size = 0
  /\ remaining = 0
  /\ passes_completed = 0
  /\ bytes_written = 0
  /\ ret = "none"
  /\ promise = NoPromise

Surroundings ==
  \/ \E s \in Sectors : FlushOne(s) \/ WriteBack(s) \/ ForeignWrite(s)
  \/ ForeignAppend

Start ==
  \E path \in Paths, p \in Patterns, b \in BlockSizes, n \in PassCounts :
    Call(path, p, b, n)

Next == Start \/ Erase \/ Surroundings \/ PowerFailure

Spec == Init /\ [][Next]_evars

-----------------------------------------------------------------------------
(* What the code must guarantee. *)

\* A sector, as read and as stored, holds the pattern, or the other process
\* wrote it after the eraser did.
Wiped(s, pattern) ==
  (cache[s] = pattern /\ disk[s] = pattern) \/ s \in foreign

\* During a pass, what it has passed is on its way to the image or in it.
PassInProgress ==
  /\ pc \in {"chunk", "close"} => remaining <= file_size
  /\ pc \notin {"chunk", "close"} => buffered = {}
  /\ pc = "close" => ret \in Failures
  /\ pc = "chunk" =>
       \A s \in Sectors : s < file_size - remaining =>
         \/ s \in buffered
         \/ cache[s] = opts.pattern
         \/ cache[s] = DATA /\ s \in foreign

\* A completed pass is on the disk, where no failure of a later one undoes it.
CompletedPassDurable ==
  passes_completed > 0 /\ pc \in {"open", "chunk", "close"} =>
    \A s \in Sectors : s < file_size => Wiped(s, opts.pattern)

\* passes_completed never runs ahead of the disk: not between a pass and its
\* fsync, not in the course of a later pass, not when a later pass fails.
PassesDurable == PassInProgress /\ CompletedPassDurable

\* The promise of an earlier call is withdrawn for as long as a call runs.
NoPromiseMeanwhile == pc \in {"open", "chunk", "close"} => promise.sectors = 0

\* Whenever block_erase_image has returned ERASECURE_OK the image is
\* overwritten on the disk, for all of the size stat() reported: a power
\* failure right after the return does not bring the data back.
OkMeansDurable ==
  /\ NoPromiseMeanwhile
  /\ \A s \in Sectors : s < promise.sectors => Wiped(s, promise.pattern)
=============================================================================
