-------------------------- MODULE ImageEraseProofs --------------------------
(***************************************************************************)
(* The eraser of images and its callers, for images, blocks, samples and   *)
(* pass counts of any size: durability first (Inv, of ImageErase), then    *)
(* what a verification has read (VerifyInv), then what sanitizer_run and   *)
(* the command line make of both (CliInv, of Cli).                         *)
(***************************************************************************)
EXTENDS Cli, TLAPS

\* Whatever block_size and passes the caller gives, the loops of the erase
\* run with a block size and a number of passes that are not zero.
LEMMA ClampsArePositive ==
  /\ \A n \in Nat : ClampBlockSize(n) \in Nat \ {0}
  /\ \A n \in Nat : ClampPasses(n) \in Nat \ {0}
BY BlockSizeLimits, PassLimits DEF ClampBlockSize, ClampPasses

\* A chunk is never empty and never exceeds what is left of the pass.
LEMMA ChunkFits ==
  \A r, b \in Nat \ {0} : /\ ChunkSize(r, b) \in Nat \ {0}
                          /\ ChunkSize(r, b) <= r
BY DEF ChunkSize

\* stat() sees the size of the image.
LEMMA LengthIsSize ==
  ASSUME TypeOK
  PROVE  Length(cache) \in 0 .. MaxSize /\ Sectors = 0 .. Length(cache) - 1
<1>1. \E n \in 0 .. MaxSize : Sectors = 0 .. n - 1
  BY DEF TypeOK, Sectors
<1> QED
  BY <1>1 DEF Length, Sectors

\* Types, in terms of the sectors the image has.
LEMMA ImageTypes ==
  ASSUME TypeOK
  PROVE  cache \in [Sectors -> Content] /\ disk \in [Sectors -> Content] /\ DOMAIN disk = Sectors
BY DEF TypeOK, Sectors

Inv == TypeOK /\ PassesDurable /\ OkMeansDurable

\* A step that keeps the image's sectors keeps the types of its content.
LEMMA SameSectors ==
  ASSUME TypeOK, cache' \in [Sectors -> Content], disk' \in [Sectors -> Content]
  PROVE  /\ Sectors' = Sectors
         /\ \E n \in 0 .. MaxSize : /\ cache' \in [0 .. n - 1 -> Content]
                                    /\ disk' \in [0 .. n - 1 -> Content]
BY DEF TypeOK, Sectors

\* block_erase_options_init gives options that need no clamping.
LEMMA DefaultsTyped ==
  DefaultOpts \in [pattern: ErasePattern, block_size: Nat \ {0}, passes: Nat \ {0}]
BY BlockSizeLimits, PassLimits DEF DefaultOpts, ErasePattern, ZERO

\* The image as it is found satisfies the invariant.
LEMMA InitInv == Init => Inv
<1> SUFFICES ASSUME Init PROVE Inv
  OBVIOUS
<1> USE DEF Init
<1>1. TypeOK
  <2>1. PICK n \in Sizes : cache = [s \in 0 .. n - 1 |-> DATA]
    OBVIOUS
  <2>2. n \in 0 .. MaxSize
    BY ImageParameters
  <2>3. cache \in [0 .. n - 1 -> Content] /\ disk \in [0 .. n - 1 -> Content]
    BY <2>1 DEF Content, DATA
  <2>4. promise \in [sectors: Nat, pattern: ErasePattern]
    BY DEF NoPromise, ErasePattern, ZERO
  <2> QED
    BY <2>2, <2>3, <2>4, DefaultsTyped DEF TypeOK
<1>2. PassesDurable
  BY DEF PassesDurable, PassInProgress, CompletedPassDurable
<1>3. OkMeansDurable
  BY ImageTypes, <1>1 DEF OkMeansDurable, NoPromiseMeanwhile, NoPromise, TypeOK, Sectors
<1> QED
  BY <1>1, <1>2, <1>3 DEF Inv

\* A return without success, from before or after the pass loop.
LEMMA ReturnInv ==
  ASSUME Inv, NEW code \in Refusals \cup Failures, Return(code),
         UNCHANGED <<disk, foreign, promise>>,
         cache' \in {cache, Flushed}, buffered' = {},
         cache' = cache \/ pc = "close",
         passes_completed' \in Nat, bytes_written' \in Nat
  PROVE  Inv'
<1> USE DEF Inv
<1>1. cache' \in [Sectors -> Content] /\ disk' \in [Sectors -> Content]
  BY ImageTypes DEF Flushed, TypeOK, Content
<1>2. Sectors' = Sectors
  BY <1>1, SameSectors
<1>3. TypeOK'
  BY <1>1, <1>2, SameSectors, DefaultsTyped DEF TypeOK, Return
<1>4. PassesDurable'
  BY DEF PassesDurable, PassInProgress, CompletedPassDurable, Return
<1>5. OkMeansDurable'
  <2>1. CASE cache' = cache
    BY <1>2, <2>1 DEF OkMeansDurable, NoPromiseMeanwhile, Wiped, Return
  <2>2. CASE pc = "close"
    BY <1>2, <2>2, ImageTypes, LengthIsSize
       DEF OkMeansDurable, NoPromiseMeanwhile, Return
  <2> QED
    BY <2>1, <2>2
<1> QED
  BY <1>3, <1>4, <1>5

\* Entry of a call: a promise is withdrawn, or nothing happens.
LEMMA CallInv ==
  ASSUME Inv, NEW path \in Paths, NEW p \in ErasePattern, NEW b \in Nat, NEW n \in Nat,
         Call(path, p, b, n)
  PROVE  Inv'
<1> USE DEF Inv, Call, image
<1>1. buffered = {}
  BY DEF PassesDurable, PassInProgress
<1>2. CASE \E outcome \in PathCheck(path) :
             outcome # "OK" /\ Return(outcome) /\ UNCHANGED promise
  <2>1. PICK outcome \in PathCheck(path) :
          outcome # "OK" /\ Return(outcome) /\ UNCHANGED promise
    BY <1>2
  <2>2. outcome \in Refusals
    BY <2>1 DEF PathCheck, Paths, Refusals
  <2> QED
    BY <1>1, <2>1, <2>2, ReturnInv
<1>3. CASE /\ pc' = "open"
           /\ ret' = "none"
           /\ promise' = NoPromise
           /\ opts' = [pattern    |-> p,
                       block_size |-> ClampBlockSize(b),
                       passes     |-> ClampPasses(n)]
           /\ file_size' = Length(cache)
           /\ UNCHANGED remaining
  <2>1. TypeOK'
    <3>1. opts' \in [pattern: ErasePattern, block_size: Nat \ {0}, passes: Nat \ {0}]
      BY <1>3, ClampsArePositive
    <3>2. file_size' \in Nat
      BY <1>3, LengthIsSize, ImageParameters
    <3>3. promise' \in [sectors: Nat, pattern: ErasePattern]
      BY <1>3 DEF NoPromise, ErasePattern, ZERO
    <3> QED
      BY <1>3, <3>1, <3>2, <3>3 DEF TypeOK, Sectors
  <2>2. PassesDurable'
    BY <1>1, <1>3 DEF PassesDurable, PassInProgress, CompletedPassDurable
  <2>3. OkMeansDurable'
    BY <1>3, LengthIsSize, ImageParameters
       DEF OkMeansDurable, NoPromiseMeanwhile, NoPromise, Sectors
  <2> QED
    BY <2>1, <2>2, <2>3
<1> QED
  BY <1>2, <1>3

\* The head of the pass loop.
LEMMA OpenPassInv == Inv /\ OpenPass => Inv'
<1> SUFFICES ASSUME Inv, OpenPass PROVE Inv'
  OBVIOUS
<1> USE DEF Inv, OpenPass, image, result
<1>1. CASE Return("OPEN_FAILED")
  <2>1. buffered = {}
    BY DEF PassesDurable, PassInProgress
  <2> QED
    BY <1>1, <2>1, ReturnInv DEF Failures, TypeOK
<1>2. CASE /\ pc' = "chunk"
           /\ remaining' = file_size
           /\ UNCHANGED <<ret, opts, file_size>>
  <2>1. TypeOK'
    BY <1>2 DEF TypeOK, Sectors
  <2>2. PassesDurable'
    BY <1>2 DEF PassesDurable, PassInProgress, CompletedPassDurable, Wiped, Sectors, TypeOK
  <2>3. OkMeansDurable'
    BY <1>2 DEF OkMeansDurable, NoPromiseMeanwhile, Wiped, Sectors
  <2> QED
    BY <2>1, <2>2, <2>3
<1> QED
  BY <1>1, <1>2

\* The chunk loop: the sectors it passes are in the stdio buffer.
LEMMA WriteChunkInv == Inv /\ WriteChunk => Inv'
<1> SUFFICES ASSUME Inv, WriteChunk PROVE Inv'
  OBVIOUS
<1> USE DEF Inv, WriteChunk
<1> DEFINE chunk == ChunkSize(remaining, opts.block_size)
<1>1. /\ chunk \in Nat \ {0} /\ chunk <= remaining
      /\ remaining <= file_size
  BY ChunkFits DEF TypeOK, PassesDurable, PassInProgress
<1> HIDE DEF chunk
<1>2. Sectors' = Sectors
  BY DEF Sectors
<1>3. buffered \subseteq buffered' /\ buffered' \subseteq Sectors
  BY DEF TypeOK, NextSectors
<1>4. CASE /\ buffered' = buffered \cup NextSectors(chunk)
           /\ bytes_written' = bytes_written + chunk
           /\ remaining' = remaining - chunk
           /\ UNCHANGED <<pc, ret>>
  <2>1. TypeOK'
    BY <1>1, <1>2, <1>3, <1>4 DEF TypeOK
  <2>2. PassInProgress'
    <3> SUFFICES ASSUME NEW s \in Sectors, s < file_size - remaining'
                 PROVE  \/ s \in buffered'
                        \/ cache[s] = opts.pattern
                        \/ cache[s] = DATA /\ s \in foreign
      BY <1>1, <1>2, <1>4 DEF PassInProgress, TypeOK
    <3>1. s \in Nat
      BY LengthIsSize
    <3>2. CASE s < file_size - remaining
      BY <1>3, <3>2 DEF PassesDurable, PassInProgress
    <3>3. CASE ~(s < file_size - remaining)
      BY <1>1, <1>4, <3>1, <3>3 DEF NextSectors, TypeOK
    <3> QED
      BY <3>2, <3>3
  <2> QED
    BY <1>2, <1>4, <2>1, <2>2
       DEF PassesDurable, CompletedPassDurable, OkMeansDurable, NoPromiseMeanwhile, Wiped
<1>5. CASE \E code \in Failures : Fail(code) /\ UNCHANGED <<bytes_written, remaining>>
  <2>1. TypeOK'
    BY <1>2, <1>3, <1>5 DEF TypeOK, Fail
  <2>2. PassInProgress'
    BY <1>1, <1>5 DEF PassInProgress, Fail
  <2> QED
    BY <1>2, <1>5, <2>1, <2>2
       DEF PassesDurable, CompletedPassDurable, OkMeansDurable, NoPromiseMeanwhile, Wiped, Fail
<1> QED
  BY <1>4, <1>5 DEF Failures, chunk

\* The end of a pass: once synced, all of it is on the disk.
LEMMA SyncPassInv == Inv /\ SyncPass => Inv'
<1> SUFFICES ASSUME Inv, SyncPass PROVE Inv'
  OBVIOUS
<1> USE DEF Inv, SyncPass
<1>1. CASE Fail("SYNC_FAILED") /\ UNCHANGED <<image, call, passes_completed, promise>>
  <2>1. TypeOK'
    BY <1>1 DEF TypeOK, Fail, image, call, Sectors, Failures
  <2>2. PassesDurable'
    BY <1>1 DEF PassesDurable, PassInProgress, CompletedPassDurable, Wiped, Fail, Failures,
                image, call, Sectors
  <2>3. OkMeansDurable'
    BY <1>1 DEF OkMeansDurable, NoPromiseMeanwhile, Wiped, Fail, image, call, Sectors
  <2> QED
    BY <2>1, <2>2, <2>3
<1>2. CASE /\ cache' = Flushed
           /\ disk' = Flushed
           /\ buffered' = {}
           /\ foreign' = {s \in foreign : Flushed[s] = DATA}
           /\ EndPass
  <2>1. Flushed \in [Sectors -> Content]
    BY ImageTypes DEF Flushed, TypeOK, Content
  <2>2. Sectors' = Sectors
    BY <1>2, <2>1, SameSectors
  <2>3. ASSUME NEW s \in Sectors, s < file_size
        PROVE  Flushed[s] = opts.pattern \/ s \in foreign'
    BY <1>2, <2>3, LengthIsSize DEF PassesDurable, PassInProgress, Flushed, TypeOK
  <2>4. TypeOK'
    <3>1. opts' \in [pattern: ErasePattern, block_size: Nat \ {0}, passes: Nat \ {0}]
      BY <1>2, DefaultsTyped DEF EndPass, Return, call, TypeOK
    <3>2. promise' \in [sectors: Nat, pattern: ErasePattern]
      BY <1>2 DEF EndPass, TypeOK
    <3>3. file_size' \in Nat /\ remaining' \in Nat /\ passes_completed' \in Nat
      BY <1>2 DEF EndPass, TypeOK, Return, call
    <3>4. pc' \in {"open", "done"} /\ ret' \in {ret, "OK"}
      BY <1>2 DEF EndPass, Return
    <3>5. foreign' \subseteq Sectors
      BY <1>2 DEF TypeOK
    <3>6. \E n \in 0 .. MaxSize : /\ cache' \in [0 .. n - 1 -> Content]
                                  /\ disk' \in [0 .. n - 1 -> Content]
      BY <1>2, <2>1, SameSectors
    <3> QED
      BY <1>2, <2>2, <3>1, <3>2, <3>3, <3>4, <3>5, <3>6 DEF TypeOK
  <2>5. CASE pc' = "open" /\ UNCHANGED <<ret, call, promise>>
    <3>1. PassInProgress'
      BY <1>2, <2>5 DEF PassInProgress
    <3>2. \A s \in Sectors' : s < file_size' => Wiped(s, opts.pattern)'
      BY <1>2, <2>2, <2>3, <2>5 DEF Wiped, call
    <3>3. NoPromiseMeanwhile'
      BY <2>5 DEF OkMeansDurable, NoPromiseMeanwhile
    <3>4. OkMeansDurable'
      <4>1. promise'.sectors = 0
        BY <2>5 DEF OkMeansDurable, NoPromiseMeanwhile
      <4>2. \A s \in Sectors : ~(s < 0)
        BY LengthIsSize
      <4> QED
        BY <2>2, <3>3, <4>1, <4>2 DEF OkMeansDurable
    <3> QED
      BY <2>4, <3>1, <3>2, <3>4 DEF PassesDurable, CompletedPassDurable
  <2>6. CASE Return("OK") /\ promise' = [sectors |-> file_size, pattern |-> opts.pattern]
    <3>1. PassesDurable'
      BY <1>2, <2>6 DEF PassesDurable, PassInProgress, CompletedPassDurable, Return
    <3>2. promise'.sectors = file_size /\ promise'.pattern = opts.pattern
      BY <2>6
    <3>3. \A s \in Sectors' : s < promise'.sectors => Wiped(s, promise.pattern)'
      BY <1>2, <2>2, <2>3, <3>2 DEF Wiped
    <3>4. NoPromiseMeanwhile'
      BY <2>6 DEF NoPromiseMeanwhile, Return
    <3> QED
      BY <2>4, <3>1, <3>3, <3>4 DEF OkMeansDurable
  <2> QED
    BY <1>2, <2>5, <2>6 DEF EndPass
<1> QED
  BY <1>1, <1>2

\* fclose after an error.
LEMMA CloseFailedInv == Inv /\ CloseFailed => Inv'
<1> SUFFICES ASSUME Inv, CloseFailed PROVE Inv'
  OBVIOUS
<1>1. ret \in Refusals \cup Failures
  BY DEF CloseFailed, Inv, PassesDurable, PassInProgress
<1> QED
  BY <1>1, ReturnInv DEF CloseFailed, result, Inv, TypeOK

\* stdio writes a sector of its buffer out.
LEMMA FlushOneInv ==
  ASSUME Inv, NEW s \in Sectors, FlushOne(s)
  PROVE  Inv'
<1> USE DEF Inv, FlushOne, call, result
<1>1. cache' \in [Sectors -> Content] /\ disk' \in [Sectors -> Content]
  BY ImageTypes DEF TypeOK, Content
<1>2. Sectors' = Sectors
  BY <1>1, SameSectors
<1>3. TypeOK'
  BY <1>1, <1>2, SameSectors DEF TypeOK
<1>4. PassesDurable'
  BY <1>2, ImageTypes
     DEF PassesDurable, PassInProgress, CompletedPassDurable, Wiped
<1>5. OkMeansDurable'
  BY <1>2, LengthIsSize, ImageTypes
     DEF OkMeansDurable, NoPromiseMeanwhile, PassesDurable, PassInProgress
<1> QED
  BY <1>3, <1>4, <1>5

\* The kernel writes a page back.
LEMMA WriteBackInv ==
  ASSUME Inv, NEW s \in Sectors, WriteBack(s)
  PROVE  Inv'
<1> USE DEF Inv, WriteBack, call, result
<1>1. cache' \in [Sectors -> Content] /\ disk' \in [Sectors -> Content]
  BY ImageTypes
<1>2. Sectors' = Sectors
  BY <1>1, SameSectors
<1>3. TypeOK'
  BY <1>1, <1>2, SameSectors DEF TypeOK
<1>4. \A t \in Sectors, p \in ErasePattern : Wiped(t, p) => Wiped(t, p)'
  BY ImageTypes DEF Wiped
<1>5. PassesDurable'
  BY <1>2, <1>4 DEF PassesDurable, PassInProgress, CompletedPassDurable, TypeOK
<1>6. OkMeansDurable'
  BY <1>2, <1>4 DEF OkMeansDurable, NoPromiseMeanwhile, TypeOK
<1> QED
  BY <1>3, <1>5, <1>6

\* The other process stores data.
LEMMA ForeignWriteInv ==
  ASSUME Inv, NEW s \in Sectors, ForeignWrite(s)
  PROVE  Inv'
<1> USE DEF Inv, ForeignWrite, call, result
<1>1. cache' \in [Sectors -> Content] /\ disk' \in [Sectors -> Content]
  BY ImageTypes DEF Content
<1>2. Sectors' = Sectors
  BY <1>1, SameSectors
<1>3. TypeOK'
  BY <1>1, <1>2, SameSectors DEF TypeOK
<1>4. \A t \in Sectors, p \in ErasePattern : Wiped(t, p) => Wiped(t, p)'
  BY ImageTypes DEF Wiped
<1>5. PassesDurable'
  BY <1>2, <1>4, ImageTypes DEF PassesDurable, PassInProgress, CompletedPassDurable, TypeOK
<1>6. OkMeansDurable'
  BY <1>2, <1>4 DEF OkMeansDurable, NoPromiseMeanwhile, TypeOK
<1> QED
  BY <1>3, <1>5, <1>6

\* The other process appends a sector, beyond everything a call has measured
\* and everything a promise covers, or marked as its own.
LEMMA ForeignAppendInv == Inv /\ ForeignAppend => Inv'
<1> SUFFICES ASSUME Inv, ForeignAppend PROVE Inv'
  OBVIOUS
<1> DEFINE n == Length(cache)
<1>1. n \in Nat /\ n < MaxSize /\ Sectors = 0 .. n - 1
  BY LengthIsSize, ImageParameters DEF Inv, ForeignAppend
<1>2. /\ cache' = [s \in 0 .. n |-> IF s \in Sectors THEN cache[s] ELSE DATA]
      /\ disk' = [s \in 0 .. n |-> IF s \in Sectors THEN disk[s] ELSE DATA]
      /\ foreign' = foreign \cup {n}
      /\ UNCHANGED <<buffered, pc, opts, file_size, remaining>>
      /\ UNCHANGED <<passes_completed, bytes_written, ret, promise>>
  BY DEF ForeignAppend, call, result
<1> HIDE DEF n
<1> USE DEF Inv
<1>3. Sectors' = 0 .. n /\ Sectors \subseteq Sectors' /\ n \in Sectors'
  <2>1. DOMAIN cache' = 0 .. n
    BY <1>2
  <2>2. 0 .. n - 1 \subseteq 0 .. n /\ n \in 0 .. n
    BY <1>1
  <2> QED
    BY <1>1, <2>1, <2>2 DEF Sectors
<1>4. TypeOK'
  <2>1. cache' \in [0 .. n -> Content] /\ disk' \in [0 .. n -> Content]
    BY <1>2, ImageTypes DEF Content
  <2>2. n + 1 \in 0 .. MaxSize /\ 0 .. n = 0 .. (n + 1) - 1
    BY <1>1, ImageParameters
  <2>3. \E m \in 0 .. MaxSize : /\ cache' \in [0 .. m - 1 -> Content]
                                /\ disk' \in [0 .. m - 1 -> Content]
    BY <2>1, <2>2
  <2>4. buffered' \subseteq Sectors' /\ foreign' \subseteq Sectors'
    BY <1>2, <1>3 DEF TypeOK
  <2> QED
    BY <1>2, <2>3, <2>4 DEF TypeOK
<1>5. \A s \in Sectors' : s \in Sectors \/ s = n
  BY <1>1, <1>3
<1>6. \A s \in Sectors : cache'[s] = cache[s] /\ disk'[s] = disk[s]
  BY <1>2, <1>3
<1>7. n \in foreign' /\ cache'[n] = DATA
  <2>1. n \in 0 .. n /\ n \notin Sectors
    BY <1>1
  <2> QED
    BY <1>2, <2>1
<1>8. \A s \in Sectors, p \in ErasePattern : Wiped(s, p) => Wiped(s, p)'
  BY <1>2, <1>6 DEF Wiped
<1>9. PassesDurable'
  <2>1. PassInProgress'
    BY <1>2, <1>5, <1>6, <1>7 DEF PassesDurable, PassInProgress
  <2>2. CompletedPassDurable'
    <3> SUFFICES ASSUME passes_completed > 0, pc \in {"open", "chunk", "close"},
                        NEW s \in Sectors', s < file_size
                 PROVE  Wiped(s, opts.pattern)'
      BY <1>2 DEF CompletedPassDurable
    <3>1. opts.pattern \in ErasePattern /\ opts' = opts
      BY <1>2 DEF TypeOK
    <3>2. CASE s \in Sectors
      <4>1. Wiped(s, opts.pattern)
        BY <3>2 DEF PassesDurable, CompletedPassDurable
      <4> QED
        BY <1>2, <1>6, <3>1, <3>2, <4>1 DEF Wiped
    <3>3. CASE s = n
      BY <1>7, <3>3 DEF Wiped
    <3> QED
      BY <1>5, <3>2, <3>3
  <2> QED
    BY <2>1, <2>2 DEF PassesDurable
<1>10. OkMeansDurable'
  <2>1. NoPromiseMeanwhile'
    BY <1>2 DEF OkMeansDurable, NoPromiseMeanwhile
  <2>2. ASSUME NEW s \in Sectors', s < promise.sectors
        PROVE  Wiped(s, promise.pattern)'
    <3>1. CASE s \in Sectors
      <4>1. Wiped(s, promise.pattern)
        BY <2>2, <3>1 DEF OkMeansDurable
      <4> QED
        BY <1>2, <1>6, <3>1, <4>1 DEF Wiped
    <3>2. CASE s = n
      BY <1>7, <3>2 DEF Wiped
    <3> QED
      BY <1>5, <3>1, <3>2
  <2> QED
    BY <1>2, <2>1, <2>2 DEF OkMeansDurable
<1> QED
  BY <1>4, <1>9, <1>10

\* Power fails: what a promise covers is on the disk.
LEMMA PowerFailureInv == Inv /\ PowerFailure => Inv'
<1> SUFFICES ASSUME Inv, PowerFailure PROVE Inv'
  OBVIOUS
<1> USE DEF Inv, PowerFailure
<1>1. cache' \in [Sectors -> Content] /\ disk' \in [Sectors -> Content]
  BY ImageTypes
<1>2. Sectors' = Sectors
  BY <1>1, SameSectors
<1>3. TypeOK'
  BY <1>1, <1>2, SameSectors, DefaultsTyped DEF TypeOK
<1>4. PassesDurable'
  BY DEF PassesDurable, PassInProgress, CompletedPassDurable
<1>5. OkMeansDurable'
  BY <1>2 DEF OkMeansDurable, NoPromiseMeanwhile, Wiped
<1> QED
  BY <1>3, <1>4, <1>5

\* A step that leaves the call and the image alone keeps it.
LEMMA UnchangedInv == Inv /\ UNCHANGED evars => Inv'
BY DEF Inv, evars, image, call, result, TypeOK, PassesDurable, PassInProgress,
       CompletedPassDurable, OkMeansDurable, NoPromiseMeanwhile, Wiped, Sectors

\* Every step of the system preserves the invariant.
LEMMA NextInv == Inv /\ [Next]_evars => Inv'
<1> SUFFICES ASSUME Inv, [Next]_evars PROVE Inv'
  OBVIOUS
<1>1. CASE Start
  BY <1>1, CallInv, ImageParameters DEF Start
<1>2. CASE Erase
  BY <1>2, OpenPassInv, WriteChunkInv, SyncPassInv, CloseFailedInv DEF Erase
<1>3. CASE Surroundings
  BY <1>3, FlushOneInv, WriteBackInv, ForeignWriteInv, ForeignAppendInv DEF Surroundings
<1>4. CASE PowerFailure
  BY <1>4, PowerFailureInv
<1>5. CASE UNCHANGED evars
  BY <1>5, UnchangedInv
<1> QED
  BY <1>1, <1>2, <1>3, <1>4, <1>5 DEF Next

\* The invariant of the eraser alone.
LEMMA InvHolds == Spec => []Inv
BY InitInv, NextInv, PTL DEF Spec

-----------------------------------------------------------------------------
\* Every variable stays within its type, whatever the sizes and options.
THEOREM TypeCorrect == Spec => []TypeOK
BY InvHolds, PTL DEF Inv

\* passes_completed counts passes that are on the disk, at every moment.
THEOREM PassesAreDurable == Spec => []PassesDurable
BY InvHolds, PTL DEF Inv

\* After ERASECURE_OK the image stays overwritten across power failures.
THEOREM OkIsDurable == Spec => []OkMeansDurable
BY InvHolds, PTL DEF Inv
-----------------------------------------------------------------------------
(* The arithmetic of the block loop. *)

\* A product grows with its first factor.
LEMMA TimesGrow ==
  ASSUME NEW x \in Nat, NEW y \in Nat, NEW z \in Nat, x <= y
  PROVE  x * z \in Nat /\ x * z <= y * z
<1>1. PICK d \in Nat : y = x + d
  <2>1. y - x \in Nat /\ y = x + (y - x)
    OBVIOUS
  <2> QED
    BY <2>1
<1>2. y * z = x * z + d * z
  BY <1>1
<1>3. x * z \in Nat /\ d * z \in Nat
  OBVIOUS
<1> QED
  BY <1>2, <1>3

\* What is left of a division.
LEMMA Division ==
  ASSUME NEW n \in Nat, NEW k \in Nat \ {0}
  PROVE  /\ n \div k \in Nat /\ n % k \in 0 .. k - 1
         /\ n = (n \div k) * k + (n % k)
OBVIOUS

\* The blocks of an image, the partial one at the end included, cover it.
LEMMA BlocksCover ==
  ASSUME NEW size \in Nat \ {0}, NEW k \in Nat \ {0}
  PROVE  /\ TotalBlocks(size, k) \in Nat \ {0}
         /\ \A s \in 0 .. size - 1 : \E b \in 0 .. TotalBlocks(size, k) - 1 :
              s \in BlockSectors(b, k, size)
<1> DEFINE total == TotalBlocks(size, k)
<1>1. total \in Nat /\ size <= total * k
  <2>1. size + k - 1 \in Nat /\ total = (size + k - 1) \div k
    BY DEF TotalBlocks
  <2>2. /\ total \in Nat /\ (size + k - 1) % k \in 0 .. k - 1
        /\ size + k - 1 = total * k + ((size + k - 1) % k)
    BY <2>1, Division
  <2>3. total * k \in Nat
    BY <2>2
  <2> QED
    BY <2>2, <2>3
<1> HIDE DEF total
<1>2. total # 0
  BY <1>1
<1>3. ASSUME NEW s \in 0 .. size - 1
      PROVE  \E b \in 0 .. total - 1 : s \in BlockSectors(b, k, size)
  <2> DEFINE b == s \div k
  <2>1. b \in Nat /\ s % k \in 0 .. k - 1 /\ s = b * k + (s % k)
    BY Division
  <2> HIDE DEF b
  <2>2. b * k <= s /\ s < (b + 1) * k
    <3>1. (b + 1) * k = b * k + k /\ b * k \in Nat
      BY <2>1
    <3> QED
      BY <2>1, <3>1
  <2>3. b < total
    <3> SUFFICES ASSUME total <= b PROVE FALSE
      BY <1>1, <2>1
    <3>1. total * k <= b * k
      BY <1>1, <2>1, TimesGrow
    <3>2. total * k \in Nat /\ b * k \in Nat
      BY <1>1, <2>1
    <3> QED
      BY <1>1, <2>2, <3>1, <3>2
  <2>4. b \in 0 .. total - 1 /\ s \in 0 .. size - 1 /\ s >= b * k
    BY <1>1, <2>1, <2>2, <2>3
  <2> QED
    BY <2>2, <2>4 DEF BlockSectors
<1> QED
  BY <1>1, <1>2, <1>3 DEF total

\* A multiple of the step below the next position is at this one or before it.
LEMMA NextMultiple ==
  ASSUME NEW c \in Nat, NEW k \in Nat \ {0}, NEW n \in Nat, n % k = 0, n < (c + 1) * k
  PROVE  n = c * k \/ n < c * k
<1> DEFINE q == n \div k
<1>1. q \in Nat /\ n = q * k
  BY Division
<1> HIDE DEF q
<1>2. q <= c
  <2> SUFFICES ASSUME c + 1 <= q PROVE FALSE
    BY <1>1
  <2>1. (c + 1) * k <= q * k
    BY <1>1, TimesGrow
  <2> QED
    BY <1>1, <2>1
<1>3. q * k <= c * k /\ c * k \in Nat
  BY <1>1, <1>2, TimesGrow
<1> QED
  BY <1>1, <1>3

\* The step of a sample is positive; a full verification takes every block, and
\* a sample that has come to the end no fewer than its size.
LEMMA StepOfSample ==
  ASSUME NEW mode, NEW total \in Nat \ {0}
  PROVE  LET k == SampleStep(mode, total)
         IN  /\ k \in Nat \ {0}
             /\ mode # "SAMPLE" => k = 1
             /\ \A c \in Nat : total <= c * k /\ c * k < total + k =>
                                 c = total \/ c >= SampleBlocks
<1> DEFINE k == SampleStep(mode, total)
<1>1. CASE mode = "SAMPLE" /\ total > SampleBlocks
  <2>1. k = total \div SampleBlocks /\ SampleBlocks \in Nat \ {0}
    BY <1>1, VerifyParameters DEF SampleStep
  <2>2. k \in Nat /\ k * SampleBlocks <= total /\ total < (k + 1) * SampleBlocks
    <3>1. k \in Nat /\ total = k * SampleBlocks + (total % SampleBlocks)
          /\ total % SampleBlocks \in 0 .. SampleBlocks - 1
      BY <2>1, Division
    <3>2. (k + 1) * SampleBlocks = k * SampleBlocks + SampleBlocks /\ k * SampleBlocks \in Nat
      BY <2>1, <3>1
    <3> QED
      BY <2>1, <3>1, <3>2
  <2> HIDE DEF k
  <2>3. k # 0
    BY <1>1, <2>1, <2>2
  <2>4. ASSUME NEW c \in Nat, total <= c * k, c < SampleBlocks
        PROVE  FALSE
    <3>1. (c + 1) * k <= SampleBlocks * k
      BY <2>1, <2>2, <2>4, TimesGrow
    <3>2. (c + 1) * k = c * k + k /\ SampleBlocks * k = k * SampleBlocks
          /\ c * k \in Nat /\ k * SampleBlocks \in Nat
      BY <2>1, <2>2
    <3> QED
      BY <2>2, <2>4, <3>1, <3>2
  <2> QED
    BY <1>1, <2>1, <2>2, <2>3, <2>4 DEF k
<1>2. CASE ~(mode = "SAMPLE" /\ total > SampleBlocks)
  <2>1. k = 1
    BY <1>2 DEF SampleStep
  <2> QED
    BY <2>1
<1> QED
  BY <1>1, <1>2

-----------------------------------------------------------------------------
(* Verification. *)

Verifying == vpc = "read" \/ Finished

\* The step of the loop over the blocks, and how far it has come.
Stride == SampleStep(vargs.mode, vresult.blocks_total)
Position == vresult.blocks_checked * Stride

\* A block held the pattern when it was read.
Seen(b) ==
  \A s \in BlockSectors(b, vargs.block_size, vargs.size) :
    cache[s] = vargs.pattern \/ s \in changed

\* Before the loop begins there is nothing in the records of a verification.
Unread ==
  /\ vpc = "idle" => vargs = NoArgs
  /\ vpc \in {"idle", "stat"} => vresult = ClearResult
  /\ vpc = "read" => vresult.result_code = "GENERIC"

\* Where the loop is.
Counting ==
  Verifying =>
    /\ vargs.size # 0 /\ 0 .. vargs.size - 1 \subseteq Sectors
    /\ vresult.blocks_total = TotalBlocks(vargs.size, vargs.block_size)
    /\ Position < vresult.blocks_total + Stride
    /\ IF vpc = "read" THEN blk = Position ELSE vresult.blocks_total <= Position

\* What it has found.
Reading ==
  Verifying =>
    /\ Finished => vresult.verification_passed = (vresult.blocks_failed = 0)
    /\ vresult.blocks_failed = 0 =>
         \A b \in 0 .. vresult.blocks_total - 1 : b % Stride = 0 /\ b < Position => Seen(b)
    /\ promise.pattern = vargs.pattern /\ promise.sectors = vargs.size /\ foreign = {} =>
         vresult.blocks_failed = 0

VerifyInv == VerifyTypeOK /\ Unread /\ Counting /\ Reading

\* The types of vargs and vresult.
Args == [pattern: ErasePattern, block_size: Nat \ {0}, mode: {"SAMPLE", "FULL"}, size: Nat]
Results == [scope: {"NOT_APPLICABLE", "LOGICAL_BLOCKS", "SAMPLED"},
            blocks_total: Nat, blocks_checked: Nat, blocks_failed: Nat,
            verification_passed: BOOLEAN,
            result_code: {"GENERIC", "OK", "UNSUPPORTED", "SEEK_FAILED", "READ_FAILED"}]

\* The cleared records have the types of records.
LEMMA ResultsTyped ==
  /\ NoArgs \in Args
  /\ ClearResult \in Results
BY BlockSizeLimits DEF NoArgs, ClearResult, ErasePattern, ZERO, Args, Results

\* What a step needs to find in the records once the loop runs.
LEMMA Loop ==
  ASSUME VerifyInv, Verifying
  PROVE  /\ vargs.size \in Nat \ {0} /\ vargs.block_size \in Nat \ {0}
         /\ vresult.blocks_total \in Nat \ {0} /\ vresult.blocks_checked \in Nat
         /\ Stride \in Nat \ {0} /\ Position \in Nat
<1>1. /\ vargs.size \in Nat \ {0} /\ vargs.block_size \in Nat \ {0}
      /\ vresult.blocks_checked \in Nat
  BY DEF VerifyInv, VerifyTypeOK, Counting
<1>2. vresult.blocks_total \in Nat \ {0}
  BY <1>1, BlocksCover DEF VerifyInv, Counting
<1>3. Stride \in Nat \ {0}
  BY <1>2, StepOfSample DEF Stride
<1> QED
  BY <1>1, <1>2, <1>3 DEF Position

\* The records are cleared when a caller begins anew.
LEMMA ClearKeeps ==
  ASSUME VerifyInv, TypeOK', vpc' = "idle", vargs' = NoArgs, vresult' = ClearResult,
         changed' = {}, blk' \in Nat
  PROVE  VerifyInv'
<1>1. ~ Verifying'
  BY DEF Verifying, Finished
<1> QED
  BY <1>1, ResultsTyped DEF VerifyInv, VerifyTypeOK, Unread, Counting, Reading, Args, Results

\* The entry of verify_image_pattern.
LEMMA VerifyCallKeeps ==
  ASSUME Inv, VerifyInv, NEW p \in ErasePattern, NEW b \in Nat, NEW m \in {"SAMPLE", "FULL"},
         VerifyCall(p, b, m)
  PROVE  /\ VerifyInv' /\ UNCHANGED evars /\ pc \in {"idle", "done"}
         /\ vpc' \in {"stat", "done"} /\ vargs'.pattern = p
<1> USE DEF VerifyCall
<1>1. TypeOK' /\ Sectors' = Sectors
  BY UnchangedInv DEF Inv, evars, image, Sectors
<1>2. ~ Verifying'
  BY DEF Verifying, Finished, ClearResult
<1>3. vargs' \in Args
  BY ClampsArePositive DEF Args
<1>4. vresult' \in Results
  <2>1. CASE vresult' = ClearResult
    BY <2>1, ResultsTyped
  <2>2. CASE vresult' = [ClearResult EXCEPT !.result_code = "UNSUPPORTED"]
    BY <2>2, ResultsTyped DEF Results
  <2> QED
    BY <2>1, <2>2
<1>5. VerifyTypeOK'
  BY <1>1, <1>3, <1>4 DEF VerifyTypeOK, VerifyInv, Args, Results
<1> QED
  BY <1>2, <1>5 DEF VerifyInv, Unread, Counting, Reading

\* stat and open: the loop begins at the first block, or not at all.
LEMMA VerifyOpenKeeps ==
  ASSUME Inv, VerifyInv, VerifyOpen
  PROVE  VerifyInv'
<1> USE DEF VerifyOpen
<1> DEFINE size == Length(cache)
           counted == [vresult EXCEPT !.blocks_total = TotalBlocks(size, vargs.block_size)]
<1>1. /\ TypeOK' /\ Sectors' = Sectors
      /\ size \in Nat /\ Sectors = 0 .. size - 1
      /\ vargs.block_size \in Nat \ {0} /\ vresult = ClearResult
  BY UnchangedInv, LengthIsSize, ImageParameters
     DEF Inv, evars, image, Sectors, VerifyInv, VerifyTypeOK, Unread
<1>2. ASSUME size > 0
      PROVE  TotalBlocks(size, vargs.block_size) \in Nat \ {0}
  BY <1>1, <1>2, BlocksCover
<1> HIDE DEF size
<1>3. CASE vpc' = "done" /\ UNCHANGED vargs /\ vresult' \in {vresult, counted} /\ (vresult' = vresult \/ size > 0)
  <2>1. vresult'.result_code = "GENERIC"
    BY <1>1, <1>3 DEF ClearResult
  <2>2. vresult' \in Results
    BY <1>1, <1>2, <1>3, ResultsTyped DEF ClearResult, Results
  <2>3. VerifyTypeOK'
    BY <1>1, <1>3, <2>2 DEF VerifyInv, VerifyTypeOK, Results
  <2> QED
    BY <1>3, <2>1, <2>3 DEF VerifyInv, Unread, Counting, Reading, Verifying, Finished
<1>4. CASE size > 0 /\ vpc' = "read" /\ vresult' = counted /\ vargs' = [vargs EXCEPT !.size = size]
  <2>1. /\ vresult'.blocks_total = TotalBlocks(size, vargs.block_size)
        /\ vresult'.blocks_checked = 0 /\ vresult'.blocks_failed = 0
        /\ vresult'.result_code = "GENERIC"
    BY <1>1, <1>4 DEF ClearResult
  <2>2. vresult' \in Results
    BY <1>1, <1>2, <1>4 DEF ClearResult, Results
  <2>3. /\ vargs' \in Args
        /\ vargs'.size = size /\ vargs'.block_size = vargs.block_size
    BY <1>1, <1>4 DEF VerifyInv, VerifyTypeOK, Args
  <2>4. VerifyTypeOK'
    BY <1>1, <1>4, <2>2, <2>3 DEF VerifyTypeOK, Args, Results
  <2>5. Stride' \in Nat \ {0} /\ Position' = 0
    <3>1. Stride' \in Nat \ {0}
      BY <1>2, <1>4, <2>1, StepOfSample DEF Stride
    <3> QED
      BY <2>1, <3>1 DEF Position
  <2>6. Counting'
    BY <1>1, <1>2, <1>4, <2>1, <2>3, <2>5 DEF Counting
  <2>7. Reading'
    BY <1>4, <2>1, <2>5 DEF Reading, Finished
  <2> QED
    BY <1>4, <2>1, <2>4, <2>6, <2>7 DEF VerifyInv, Unread
<1> QED
  BY <1>3, <1>4 DEF size

\* One turn of the loop: a block is read, and remembered if it differs.
LEMMA VerifyBlockKeeps ==
  ASSUME Inv, VerifyInv, VerifyBlock
  PROVE  VerifyInv'
<1> DEFINE block == BlockSectors(blk, vargs.block_size, vargs.size)
           bad   == \E s \in block : cache[s] # vargs.pattern
<1>1. /\ vpc = "read" /\ vpc' = "read" /\ blk < vresult.blocks_total
      /\ vresult' = [vresult EXCEPT !.blocks_checked = @ + 1,
                                    !.blocks_failed = IF bad THEN @ + 1 ELSE @]
      /\ changed' = changed \ block
      /\ blk' = blk + Stride
      /\ UNCHANGED evars /\ vargs' = vargs
  BY DEF VerifyBlock, Stride
<1>2. UNCHANGED <<cache, foreign, promise>> /\ TypeOK' /\ Sectors' = Sectors
  BY <1>1, UnchangedInv DEF Inv, evars, image, Sectors
<1>3. Verifying /\ Verifying'
  BY <1>1 DEF Verifying
<1>4. /\ vargs.size \in Nat \ {0} /\ vargs.block_size \in Nat \ {0}
      /\ vresult.blocks_total \in Nat \ {0} /\ vresult.blocks_checked \in Nat
      /\ Stride \in Nat \ {0} /\ Position \in Nat /\ blk = Position
      /\ vresult \in Results /\ vresult.blocks_failed \in Nat /\ vresult.result_code = "GENERIC"
  BY <1>1, <1>3, Loop DEF VerifyInv, Counting, VerifyTypeOK, Results, Unread
<1> HIDE DEF bad
<1>5. /\ vresult' \in Results
      /\ vresult'.blocks_checked = vresult.blocks_checked + 1
      /\ vresult'.blocks_total = vresult.blocks_total
      /\ vresult'.result_code = vresult.result_code
      /\ vresult'.blocks_failed = IF bad THEN vresult.blocks_failed + 1 ELSE vresult.blocks_failed
  <2> DEFINE failed == IF bad THEN vresult.blocks_failed + 1 ELSE vresult.blocks_failed
           once == [vresult EXCEPT !.blocks_checked = vresult.blocks_checked + 1]
  <2>1. vresult' = [once EXCEPT !.blocks_failed = failed]
    BY <1>1, <1>4 DEF Results
  <2>2. failed \in Nat
    BY <1>4
  <2>3. /\ once \in Results
        /\ once.blocks_checked = vresult.blocks_checked + 1
        /\ once.blocks_total = vresult.blocks_total
        /\ once.result_code = vresult.result_code
    BY <1>4 DEF Results
  <2> HIDE DEF failed, once
  <2>4. /\ vresult' \in Results
        /\ vresult'.blocks_checked = once.blocks_checked
        /\ vresult'.blocks_failed = failed
        /\ vresult'.blocks_total = once.blocks_total
        /\ vresult'.result_code = once.result_code
    BY <2>1, <2>2, <2>3 DEF Results
  <2> QED
    BY <2>3, <2>4 DEF failed
<1>6. Stride' = Stride /\ Position' = Position + Stride
  <2>1. Stride' = Stride
    BY <1>1, <1>5 DEF Stride
  <2>2. (vresult.blocks_checked + 1) * Stride = vresult.blocks_checked * Stride + Stride
    BY <1>4
  <2> QED
    BY <1>5, <2>1, <2>2 DEF Position
<1>7. VerifyTypeOK'
  BY <1>1, <1>2, <1>4, <1>5 DEF VerifyInv, VerifyTypeOK, Results
<1>8. Counting'
  BY <1>1, <1>2, <1>3, <1>4, <1>5, <1>6 DEF VerifyInv, Counting
<1>9. ASSUME vresult'.blocks_failed = 0
      PROVE  vresult.blocks_failed = 0 /\ \A s \in block : cache[s] = vargs.pattern
  BY <1>4, <1>5, <1>9 DEF bad
<1> HIDE DEF block
<1>10. ASSUME vresult'.blocks_failed = 0, NEW b \in 0 .. vresult.blocks_total - 1,
              b % Stride = 0, b < Position + Stride
       PROVE  Seen(b)'
  <2>1. BlockSectors(b, vargs.block_size, vargs.size)' = BlockSectors(b, vargs.block_size, vargs.size)
    BY <1>1 DEF BlockSectors
  <2> SUFFICES ASSUME NEW s \in BlockSectors(b, vargs.block_size, vargs.size)
               PROVE  cache[s] = vargs.pattern \/ s \in changed'
    BY <1>1, <1>2, <2>1 DEF Seen
  <2>2. CASE s \in block
    BY <1>9, <1>10, <2>2
  <2>3. CASE s \notin block
    <3>1. b # Position
      BY <1>4, <2>3 DEF block
    <3>2. b = Position \/ b < Position
      <4>1. b < (vresult.blocks_checked + 1) * Stride
        BY <1>4, <1>5, <1>6, <1>10 DEF Position
      <4>2. vresult.blocks_checked \in Nat /\ Stride \in Nat \ {0} /\ b \in Nat /\ b % Stride = 0
        BY <1>4, <1>10
      <4> HIDE DEF Stride
      <4> QED
        BY <4>1, <4>2, NextMultiple DEF Position
    <3>3. Seen(b)
      BY <1>3, <1>9, <1>10, <3>1, <3>2 DEF VerifyInv, Reading
    <3> QED
      BY <1>1, <2>3, <3>3 DEF Seen
  <2> QED
    BY <2>2, <2>3
<1>11. ASSUME promise.pattern = vargs.pattern, promise.sectors = vargs.size, foreign = {}
       PROVE  vresult'.blocks_failed = 0
  <2>1. \A s \in 0 .. vargs.size - 1 : cache[s] = vargs.pattern
    BY <1>3, <1>4, <1>11 DEF VerifyInv, Counting, Inv, OkMeansDurable, Wiped
  <2>2. ~bad
    BY <2>1 DEF bad, block, BlockSectors
  <2> QED
    BY <1>3, <1>5, <1>11, <2>2 DEF VerifyInv, Reading
<1>12. Reading'
  BY <1>1, <1>2, <1>5, <1>6, <1>10, <1>11 DEF Reading, Finished
<1> QED
  BY <1>1, <1>4, <1>5, <1>7, <1>8, <1>12 DEF VerifyInv, Unread

\* The verdict.
LEMMA VerifyReturnKeeps ==
  ASSUME Inv, VerifyInv, VerifyBreak \/ VerifyEnd
  PROVE  VerifyInv'
<1>1. PICK code \in {"OK", "SEEK_FAILED", "READ_FAILED"} :
        /\ VerifyReturn(code)
        /\ code = "OK" => blk >= vresult.blocks_total
  BY DEF VerifyBreak, VerifyEnd
<1>2. vpc = "read" /\ UNCHANGED evars /\ changed' = changed
  BY DEF VerifyBreak, VerifyEnd
<1>3. UNCHANGED <<cache, foreign, promise>> /\ TypeOK' /\ Sectors' = Sectors
  BY <1>2, UnchangedInv DEF Inv, evars, image, Sectors
<1>4. Verifying /\ vargs' = vargs /\ vpc' = "done" /\ blk' = 0
  BY <1>1, <1>2 DEF Verifying, VerifyReturn
<1>5. /\ vresult \in Results /\ blk = Position /\ Stride \in Nat \ {0} /\ Position \in Nat
      /\ vresult.blocks_total \in Nat \ {0}
  BY <1>2, <1>4, Loop DEF VerifyInv, Counting, VerifyTypeOK, Results
<1>6. /\ vresult' \in Results
      /\ vresult'.result_code = code
      /\ vresult'.verification_passed = (vresult.blocks_failed = 0)
      /\ vresult'.blocks_total = vresult.blocks_total
      /\ vresult'.blocks_checked = vresult.blocks_checked
      /\ vresult'.blocks_failed = vresult.blocks_failed
  BY <1>1, <1>5 DEF VerifyReturn, Results
<1>7. Stride' = Stride /\ Position' = Position
  BY <1>4, <1>6 DEF Stride, Position
<1>8. VerifyTypeOK'
  BY <1>2, <1>3, <1>4, <1>6 DEF VerifyInv, VerifyTypeOK, Results
<1>9. Counting'
  BY <1>1, <1>3, <1>4, <1>5, <1>6, <1>7 DEF VerifyInv, Counting, Verifying, Finished
<1>10. \A b : Seen(b)' <=> Seen(b)
  BY <1>2, <1>3, <1>4 DEF Seen, BlockSectors
<1>11. Reading'
  BY <1>3, <1>4, <1>6, <1>7, <1>10 DEF VerifyInv, Reading
<1> QED
  BY <1>4, <1>8, <1>9, <1>11 DEF VerifyInv, Unread

\* A step of verify_image_pattern, with what it leaves to its caller.
LEMMA VerifyKeeps ==
  ASSUME Inv, VerifyInv, Verify
  PROVE  /\ VerifyInv' /\ UNCHANGED evars /\ vpc \in {"stat", "read"}
         /\ vpc' \in {"read", "done"} /\ vargs'.pattern = vargs.pattern
<1>1. VerifyInv'
  BY VerifyOpenKeeps, VerifyBlockKeeps, VerifyReturnKeeps DEF Verify
<1>2. vargs'.pattern = vargs.pattern
  <2>1. vargs \in Args
    BY DEF VerifyInv, VerifyTypeOK, Args
  <2>2. vargs' = vargs \/ \E n : vargs' = [vargs EXCEPT !.size = n]
    BY DEF Verify, VerifyOpen, VerifyBlock, VerifyBreak, VerifyEnd, VerifyReturn
  <2> QED
    BY <2>1, <2>2 DEF Args
<1> QED
  BY <1>1, <1>2 DEF Verify, VerifyOpen, VerifyBlock, VerifyBreak, VerifyEnd, VerifyReturn

\* As long as nothing happens.
LEMMA RestKeeps ==
  ASSUME Inv, VerifyInv, UNCHANGED <<evars, vvars>>
  PROVE  VerifyInv'
<1>1. TypeOK'
  BY UnchangedInv DEF Inv
<1>2. UNCHANGED <<cache, foreign, promise, vpc, vargs, blk, vresult, changed>>
  BY DEF evars, image, vvars
<1>3. \A b : Seen(b)' <=> Seen(b)
  BY <1>2 DEF Seen, BlockSectors
<1>4. /\ (Verifying' <=> Verifying) /\ (Finished' <=> Finished)
      /\ Stride' = Stride /\ Position' = Position /\ Sectors' = Sectors
  BY <1>2 DEF Verifying, Finished, Stride, Position, Sectors
<1>5. VerifyTypeOK' /\ Unread'
  BY <1>1, <1>2, <1>4 DEF VerifyInv, VerifyTypeOK, Unread
<1>6. Counting' /\ Reading'
  BY <1>2, <1>3, <1>4 DEF VerifyInv, Counting, Reading
<1> QED
  BY <1>5, <1>6 DEF VerifyInv

\* Meanwhile others write: what changes is remembered.
LEMMA NoteKeeps ==
  ASSUME VerifyInv, TypeOK', NoteChanges, UNCHANGED <<vpc, vargs, blk, vresult>>,
         Sectors \subseteq Sectors',
         vpc = "idle" \/ (UNCHANGED promise /\ foreign \subseteq foreign')
  PROVE  VerifyInv'
<1>1. VerifyTypeOK' /\ Unread'
  BY DEF VerifyInv, VerifyTypeOK, Unread, NoteChanges, Sectors
<1>2. CASE ~ Verifying
  BY <1>1, <1>2 DEF VerifyInv, Counting, Reading, Verifying, Finished
<1>3. CASE Verifying
  <2>1. vpc # "idle" /\ Verifying' /\ (Finished' <=> Finished)
    BY <1>3 DEF Verifying, Finished
  <2>2. Stride' = Stride /\ Position' = Position
    BY DEF Stride, Position
  <2>3. Counting'
    BY <1>3, <2>2 DEF VerifyInv, Counting
  <2>4. ASSUME NEW b, Seen(b)
        PROVE  Seen(b)'
    <3>1. BlockSectors(b, vargs.block_size, vargs.size) \subseteq Sectors
      BY <1>3 DEF BlockSectors, VerifyInv, Counting
    <3> QED
      BY <2>1, <2>4, <3>1 DEF Seen, NoteChanges, BlockSectors, Sectors
  <2>5. Reading'
    BY <1>3, <2>1, <2>2, <2>4 DEF VerifyInv, Reading
  <2> QED
    BY <1>1, <2>3, <2>5 DEF VerifyInv
<1> QED
  BY <1>2, <1>3

-----------------------------------------------------------------------------
(* The callers. *)

Busy == {"open", "chunk", "close"}

CallersTyped ==
  /\ spc \in {"idle", "erase", "verify", "done"}
  /\ request \in [path: Paths, pattern: ErasePattern, block_size: Nat,
                  verify_mode: VerifyModes \cup {NoVerify}]
  /\ sret \in {"none", "UNSUPPORTED", "NOT_IMPLEMENTED"} \cup Refusals \cup Failures \cup DeviceCodes
  /\ cpc \in {"none", "erase", "check", "verify", "exit"}
  /\ argv \in [pattern: ErasePattern, passes: PassCounts \cup {0},
               block_size: BlockSizes \cup {0}, verify_mode: VerifyModes \cup {NoVerify}]
  /\ exit \in {NoExit, 0, 1, 2}

\* There is one thread, so at most one call is under way.
Turns ==
  /\ spc \in {"erase", "verify"} => cpc = "none" /\ sret = "none"
  /\ cpc \in {"erase", "check", "verify"} => spc = "idle" /\ exit = NoExit
  /\ pc \in Busy => spc = "erase" \/ cpc = "erase"
  /\ vpc \in {"stat", "read"} => spc = "verify" \/ cpc \in {"check", "verify"}
  /\ spc = "erase" \/ cpc = "erase" => pc # "idle" /\ vpc = "idle"
  /\ spc = "verify" \/ cpc = "check" => pc = "done" /\ ret = "OK"
  /\ spc = "verify" \/ cpc \in {"check", "verify"} => vpc # "idle"

\* The erasure under way, or done, has the pattern that was asked for, ...
Patterned(pattern) ==
  /\ pc \in Busy => opts.pattern = pattern
  /\ pc = "done" /\ ret = "OK" => promise.pattern = pattern /\ promise.sectors > 0

\* ... and the number of passes.
Passed(n) ==
  /\ pc \in Busy => opts.passes = n /\ passes_completed < n
  /\ pc = "done" /\ ret = "OK" => passes_completed = n

\* What the callers hold against what the calls are at.
Ordered ==
  /\ pc \in Busy => file_size > 0
  /\ spc \in {"erase", "verify"} => Patterned(request.pattern)
  /\ cpc \in {"erase", "check"} => Patterned(argv.pattern) /\ Passed(Passes(argv.passes))
  /\ spc = "verify" => vargs.pattern = request.pattern
  /\ cpc = "verify" => vargs.pattern = argv.pattern
  /\ spc = "done" /\ vpc # "idle" =>
       sret = "OK" /\ vargs.pattern = promise.pattern /\ promise.sectors > 0

CliInv == Inv /\ VerifyInv /\ CallersTyped /\ Turns /\ Ordered

\* What a call of block_erase_image begins with.
LEMMA CallEffect ==
  ASSUME Inv, NEW path \in Paths, NEW p \in ErasePattern, NEW b \in Nat, NEW n \in Nat,
         Call(path, p, b, n)
  PROVE  /\ Inv' /\ UNCHANGED image
         /\ pc' \in {"open", "done"}
         /\ pc' = "open" => /\ opts'.pattern = p /\ opts'.passes = ClampPasses(n)
                            /\ passes_completed' = 0 /\ file_size' > 0
         /\ pc' = "done" => ret' \in Refusals
<1>1. PICK outcome \in PathCheck(path) :
        IF outcome = "OK"
          THEN /\ pc' = "open"
               /\ opts' = [pattern |-> p, block_size |-> ClampBlockSize(b),
                           passes |-> ClampPasses(n)]
               /\ file_size' = Length(cache)
          ELSE Return(outcome)
  BY DEF Call
<1>2. outcome = "OK" => Length(cache) > 0
  <2>1. outcome = "OK" => Sectors # {}
    BY DEF PathCheck, Paths
  <2>2. Length(cache) \in Nat /\ Sectors = 0 .. Length(cache) - 1
    BY LengthIsSize, ImageParameters DEF Inv
  <2> QED
    BY <2>1, <2>2
<1>3. outcome # "OK" => outcome \in Refusals
  BY DEF PathCheck, Paths, Refusals
<1>4. Inv'
  BY CallInv
<1> QED
  BY <1>1, <1>2, <1>3, <1>4 DEF Call, Return

\* What a step of the erasure comes to.
LEMMA EraseEffect ==
  ASSUME Inv, Erase
  PROVE  /\ Inv' /\ Sectors' = Sectors
         /\ pc \in Busy /\ pc' \in Busy \cup {"done"}
         /\ pc' \in Busy => /\ UNCHANGED <<opts, file_size>>
                            /\ \/ UNCHANGED passes_completed
                               \/ passes_completed' < opts.passes
         /\ pc' = "done" /\ ret' = "OK" =>
              /\ promise' = [sectors |-> file_size, pattern |-> opts.pattern]
              /\ passes_completed' = passes_completed + 1
              /\ ~(passes_completed' < opts.passes)
         /\ pc' = "done" => ret' \in Failures \cup {"OK"}
<1>1. Inv'
  BY NextInv DEF Next
<1>2. CASE OpenPass
  BY <1>1, <1>2 DEF OpenPass, Return, image, result, Sectors, Busy, Failures
<1>3. CASE WriteChunk
  BY <1>1, <1>3 DEF WriteChunk, Fail, Sectors, Busy, Failures
<1>4. CASE SyncPass
  <2>1. Sectors' = Sectors
    BY <1>4 DEF SyncPass, Sectors, Flushed, image
  <2> QED
    BY <1>1, <1>4, <2>1 DEF SyncPass, EndPass, Fail, Return, call, Busy, Failures, image
<1>5. CASE CloseFailed
  <2>1. Sectors' = Sectors
    BY <1>5 DEF CloseFailed, Sectors, Flushed
  <2>2. ret \in Failures
    BY <1>5 DEF CloseFailed, Inv, PassesDurable, PassInProgress
  <2> QED
    BY <1>1, <1>5, <2>1, <2>2 DEF CloseFailed, Return, Busy, Failures
<1> QED
  BY <1>2, <1>3, <1>4, <1>5 DEF Erase

\* What happens around the calls changes the image and nothing of theirs.
LEMMA SurroundingEffect ==
  ASSUME Inv, Surroundings
  PROVE  /\ Inv' /\ Sectors \subseteq Sectors' /\ foreign \subseteq foreign'
         /\ UNCHANGED <<pc, opts, file_size, remaining, passes_completed, bytes_written, ret, promise>>
<1>1. Inv'
  BY NextInv DEF Next
<1>2. CASE \E s \in Sectors : FlushOne(s) \/ WriteBack(s) \/ ForeignWrite(s)
  BY <1>1, <1>2 DEF FlushOne, WriteBack, ForeignWrite, call, result, Sectors
<1>3. CASE ForeignAppend
  <2>1. Length(cache) \in Nat /\ Sectors = 0 .. Length(cache) - 1
    BY LengthIsSize, ImageParameters DEF Inv
  <2>2. Sectors' = 0 .. Length(cache)
    BY <1>3 DEF ForeignAppend, Sectors
  <2> QED
    BY <1>1, <1>3, <2>1, <2>2 DEF ForeignAppend, call, result
<1> QED
  BY <1>2, <1>3 DEF Surroundings

\* Both clamps of a number of passes come to the first.
LEMMA PassesAreClamped ==
  ASSUME NEW n \in Nat
  PROVE  Passes(n) \in Nat \ {0} /\ ClampPasses(Passes(n)) = Passes(n)
BY PassLimits DEF Passes, ClampPasses

\* Options of a command become those of a call.
LEMMA ArgumentsTyped ==
  ASSUME NEW r \in Requests
  PROVE  /\ r.path \in Paths /\ r.pattern \in ErasePattern
         /\ r.block_size \in Nat /\ BlockSize(r.block_size) \in Nat /\ r.passes \in Nat
         /\ r.block_size \in BlockSizes /\ r.passes \in PassCounts
         /\ r.verify_mode \in VerifyModes \cup {NoVerify}
BY ImageParameters, BlockSizeLimits DEF Requests, BlockSize

-----------------------------------------------------------------------------
(* The steps of the callers. *)

\* So have the empty command line and the empty request.
LEMMA NoArgvTyped ==
  /\ NoArgv \in [pattern: ErasePattern, passes: PassCounts \cup {0},
                 block_size: BlockSizes \cup {0}, verify_mode: VerifyModes \cup {NoVerify}]
  /\ NoRequest \in [path: Paths, pattern: ErasePattern, block_size: Nat,
                    verify_mode: VerifyModes \cup {NoVerify}]
BY DEF NoArgv, NoRequest, ErasePattern, ZERO, Paths

\* The program ends; what is left is the image.
LEMMA ExitKeeps ==
  ASSUME CliInv, NEW code \in {0, 1, 2}, Exit(code), pc \notin Busy,
         spc \notin {"erase", "verify"}
  PROVE  CliInv'
<1> USE DEF CliInv, Exit
<1>1. buffered = {}
  BY DEF Inv, PassesDurable, PassInProgress, Busy
<1>2. Sectors' = Sectors
  BY DEF image, Sectors
<1>3. TypeOK'
  BY <1>2 DEF Inv, TypeOK, image, call
<1>4. Inv'
  BY <1>1, <1>2, <1>3 DEF Inv, PassesDurable, PassInProgress, CompletedPassDurable, OkMeansDurable,
         NoPromiseMeanwhile, Wiped, image
<1>5. VerifyInv'
  BY <1>3, ClearKeeps DEF ClearSubresults, VerifyInv, VerifyTypeOK
<1>6. CallersTyped'
  BY NoArgvTyped DEF CallersTyped
<1>7. Turns' /\ Ordered'
  BY DEF ClearSubresults, Turns, Ordered, Busy
<1> QED
  BY <1>4, <1>5, <1>6, <1>7

\* A command line that is refused.
LEMMA UsageKeeps == CliInv /\ Usage => CliInv'
<1> SUFFICES ASSUME CliInv, Usage PROVE CliInv'
  OBVIOUS
<1>1. pc \notin Busy /\ spc \notin {"erase", "verify"}
  BY DEF Usage, NoCommand, Ready, CliInv, Turns
<1> QED
  BY <1>1, ExitKeeps DEF Usage

\* An erasure on the command line begins.
LEMMA EraseCommandKeeps ==
  ASSUME CliInv, NEW r \in Requests,
         EraseCommand(r.path, r.pattern, r.passes, r.block_size, r.verify_mode)
  PROVE  CliInv'
<1> USE DEF CliInv, EraseCommand
<1>1. /\ r.path \in Paths /\ r.pattern \in ErasePattern
      /\ BlockSize(r.block_size) \in Nat /\ Passes(r.passes) \in Nat \ {0}
      /\ ClampPasses(Passes(r.passes)) = Passes(r.passes)
      /\ argv' \in [pattern: ErasePattern, passes: PassCounts \cup {0},
                    block_size: BlockSizes \cup {0}, verify_mode: VerifyModes \cup {NoVerify}]
      /\ argv'.pattern = r.pattern /\ argv'.passes = r.passes
  BY ArgumentsTyped, PassesAreClamped
<1>2. /\ Inv'
      /\ pc' \in {"open", "done"}
      /\ pc' = "open" => /\ opts'.pattern = r.pattern /\ opts'.passes = Passes(r.passes)
                         /\ passes_completed' = 0 /\ file_size' > 0
      /\ pc' = "done" => ret' \in Refusals
  BY <1>1, CallEffect
<1>3. VerifyInv'
  BY <1>2, ClearKeeps DEF ClearSubresults, VerifyInv, VerifyTypeOK, Inv
<1>4. CallersTyped'
  BY <1>1 DEF CallersTyped, NewProcess
<1>5. Turns'
  BY <1>2 DEF Turns, NewProcess, ClearSubresults, Busy, Refusals
<1>6. Ordered'
  <2>1. ret' # "OK" \/ pc' # "done"
    BY <1>2 DEF Refusals
  <2>2. Patterned(argv.pattern)' /\ Passed(Passes(argv.passes))'
    BY <1>1, <1>2, <2>1 DEF Patterned, Passed, Busy, Passes
  <2> QED
    BY <1>2, <2>2 DEF Ordered, NewProcess, ClearSubresults, Busy
<1> QED
  BY <1>2, <1>3, <1>4, <1>5, <1>6

\* A command whose erasure has returned goes on to the verification, or ends.
LEMMA AfterErasureKeeps == CliInv /\ AfterErasure => CliInv'
<1> SUFFICES ASSUME CliInv, AfterErasure PROVE CliInv'
  OBVIOUS
<1> USE DEF CliInv
<1>1. pc = "done" /\ pc \notin Busy /\ cpc = "erase" /\ spc = "idle"
  BY DEF AfterErasure, Turns, Busy
<1>2. CASE \E code \in {0, 1, 2} : Exit(code)
  BY <1>1, <1>2, ExitKeeps
<1>3. CASE /\ ret = "OK" /\ argv.verify_mode # NoVerify
           /\ VerifyCall(argv.pattern, BlockSize(argv.block_size), argv.verify_mode)
           /\ cpc' = "check"
           /\ UNCHANGED <<argv, exit, spc, request, sret>>
  <2>1. /\ argv.pattern \in ErasePattern /\ argv.verify_mode \in VerifyModes
        /\ BlockSize(argv.block_size) \in Nat
    <3>1. /\ argv.pattern \in ErasePattern /\ argv.block_size \in Nat
          /\ argv.verify_mode \in VerifyModes \cup {NoVerify}
      <4>1. argv \in [pattern: ErasePattern, passes: PassCounts \cup {0},
                      block_size: BlockSizes \cup {0}, verify_mode: VerifyModes \cup {NoVerify}]
        BY DEF CallersTyped
      <4>2. \A n \in BlockSizes \cup {0} : n \in Nat
        BY ImageParameters
      <4>3. argv.pattern \in ErasePattern
        BY <4>1
      <4>4. argv.block_size \in BlockSizes \cup {0}
        BY <4>1
      <4>5. argv.verify_mode \in VerifyModes \cup {NoVerify}
        BY <4>1
      <4> QED
        BY <4>2, <4>3, <4>4, <4>5
    <3> QED
      BY <1>3, <3>1, BlockSizeLimits DEF BlockSize
  <2>2. /\ VerifyInv' /\ UNCHANGED evars /\ vpc' \in {"stat", "done"}
    BY <1>3, <2>1, VerifyCallKeeps, VerifyParameters
  <2>3. Inv' /\ UNCHANGED <<pc, opts, file_size, passes_completed, ret, promise>>
    BY <2>2, UnchangedInv DEF evars, call, result
  <2>4. CallersTyped'
    BY <1>3 DEF CallersTyped
  <2>5. Turns'
    BY <1>1, <1>3, <2>2, <2>3 DEF Turns, Busy
  <2>6. Ordered'
    BY <1>1, <1>3, <2>2, <2>3 DEF Ordered, Patterned, Passed, Passes, Busy
  <2> QED
    BY <2>2, <2>3, <2>4, <2>5, <2>6
<1> QED
  BY <1>2, <1>3 DEF AfterErasure

\* sanitizer_run goes on to the verification, or returns.
LEMMA AfterEraseKeeps ==
  ASSUME CliInv, AfterErase, UNCHANGED <<cpc, argv, exit>>
  PROVE  CliInv'
<1> USE DEF CliInv
<1>1. pc = "done" /\ cpc = "none" /\ spc = "erase" /\ vpc = "idle"
  BY DEF AfterErase, Turns
<1>2. CASE SanitizerReturn(ret) /\ UNCHANGED vars
  <2>1. UNCHANGED evars /\ UNCHANGED vvars
    BY <1>2 DEF vars
  <2>2. Inv' /\ UNCHANGED <<pc, opts, file_size, passes_completed, ret, promise, cache, foreign>>
    BY <2>1, UnchangedInv DEF evars, call, result, image
  <2>4. VerifyInv'
    BY <2>1, RestKeeps
  <2>5. CallersTyped'
    BY <1>2, <2>2, NoArgvTyped DEF CallersTyped, SanitizerReturn, Inv, TypeOK, DeviceCodes
  <2>6. Turns' /\ Ordered'
    BY <1>1, <1>2, <2>1, <2>2 DEF Turns, Ordered, SanitizerReturn, vvars, Busy
  <2> QED
    BY <2>2, <2>4, <2>5, <2>6
<1>3. CASE /\ ret = "OK" /\ WantsVerification
           /\ VerifyCall(request.pattern, request.block_size, request.verify_mode)
           /\ spc' = "verify"
           /\ UNCHANGED <<request, sret>>
  <2>1. /\ request.pattern \in ErasePattern /\ request.verify_mode \in VerifyModes
        /\ request.block_size \in Nat
    BY <1>3 DEF CallersTyped, WantsVerification
  <2>2. /\ VerifyInv' /\ UNCHANGED evars /\ vpc' \in {"stat", "done"}
        /\ vargs'.pattern = request.pattern
    BY <1>3, <2>1, VerifyCallKeeps, VerifyParameters
  <2>3. Inv' /\ UNCHANGED <<pc, opts, file_size, passes_completed, ret, promise>>
    BY <2>2, UnchangedInv DEF evars, call, result
  <2>4. CallersTyped'
    BY <1>3 DEF CallersTyped
  <2>5. Turns' /\ Ordered'
    BY <1>1, <1>3, <2>2, <2>3 DEF Turns, Ordered, Patterned, Busy
  <2> QED
    BY <2>2, <2>3, <2>4, <2>5
<1> QED
  BY <1>2, <1>3 DEF AfterErase

\* The verification of a command has returned, and the command ends.
LEMMA AfterVerificationKeeps == CliInv /\ (AfterCheck \/ AfterVerification) => CliInv'
<1> SUFFICES ASSUME CliInv, AfterCheck \/ AfterVerification PROVE CliInv'
  OBVIOUS
<1>1. cpc \in {"check", "verify"} /\ vpc = "done"
  BY DEF AfterCheck, AfterVerification
<1>2. spc = "idle" /\ pc \notin Busy
  BY <1>1 DEF CliInv, Turns
<1> QED
  BY <1>2, ExitKeeps DEF AfterCheck, AfterVerification

\* sanitizer_run returns the code of the erasure after its verification.
LEMMA AfterVerifyKeeps ==
  ASSUME CliInv, AfterVerify, UNCHANGED <<cpc, argv, exit>>
  PROVE  CliInv'
<1> USE DEF CliInv
<1>1. /\ spc = "verify" /\ vpc = "done" /\ pc = "done" /\ ret = "OK" /\ cpc = "none"
      /\ SanitizerReturn(ret) /\ UNCHANGED evars /\ UNCHANGED vvars
  BY DEF AfterVerify, vars, Turns
<1>2. Inv' /\ UNCHANGED <<pc, opts, file_size, passes_completed, ret, promise, cache, foreign>>
  BY <1>1, UnchangedInv DEF evars, call, result, image
<1>3. VerifyInv'
  BY <1>1, RestKeeps
<1>4. CallersTyped'
  BY <1>1, NoArgvTyped DEF CallersTyped, SanitizerReturn, DeviceCodes
<1>5. Turns' /\ Ordered'
  BY <1>1, <1>2 DEF Turns, Ordered, Patterned, SanitizerReturn, vvars, Busy
<1> QED
  BY <1>2, <1>3, <1>4, <1>5

\* A command that verifies.
LEMMA VerifyCommandKeeps ==
  ASSUME CliInv, NEW p \in Patterns, VerifyCommand(p)
  PROVE  CliInv'
<1> USE DEF CliInv, VerifyCommand
<1>1. p \in ErasePattern /\ DefaultBlock \in Nat
  BY ImageParameters, BlockSizeLimits
<1>2. /\ VerifyInv' /\ UNCHANGED evars /\ pc \in {"idle", "done"} /\ vpc' \in {"stat", "done"}
      /\ vargs'.pattern = p
  BY <1>1, VerifyCallKeeps
<1>3. Inv' /\ UNCHANGED <<pc, opts, file_size, passes_completed, ret, promise>>
  BY <1>2, UnchangedInv DEF evars, call, result
<1>4. CallersTyped' /\ argv'.pattern = p
  BY <1>1, NoArgvTyped DEF CallersTyped, NewProcess
<1>5. Turns' /\ Ordered'
  BY <1>2, <1>3, <1>4 DEF Turns, Ordered, NewProcess, Busy
<1> QED
  BY <1>2, <1>3, <1>4, <1>5

\* The steps of block_erase_image and verify_image_pattern themselves.
LEMMA EraseStepKeeps ==
  ASSUME CliInv, EraseStep, UNCHANGED <<spc, request, sret, cpc, argv, exit>>,
         spc = "erase" \/ cpc = "erase"
  PROVE  CliInv'
<1> USE DEF CliInv, EraseStep
<1>1. /\ Inv' /\ Sectors' = Sectors
      /\ pc \in Busy /\ pc' \in Busy \cup {"done"}
      /\ pc' \in Busy => /\ UNCHANGED <<opts, file_size>>
                         /\ \/ UNCHANGED passes_completed
                            \/ passes_completed' < opts.passes
      /\ pc' = "done" /\ ret' = "OK" =>
           /\ promise' = [sectors |-> file_size, pattern |-> opts.pattern]
           /\ passes_completed' = passes_completed + 1
           /\ ~(passes_completed' < opts.passes)
  BY EraseEffect
<1>2. VerifyInv'
  <2>1. TypeOK' /\ vpc = "idle" /\ Sectors \subseteq Sectors'
    BY <1>1 DEF Inv
  <2>2. VerifyInv /\ NoteChanges /\ UNCHANGED <<vpc, vargs, blk, vresult>>
    OBVIOUS
  <2> HIDE DEF CliInv, EraseStep
  <2> QED
    BY <2>1, <2>2, NoteKeeps
<1>3. CallersTyped'
  BY DEF CallersTyped
<1>4. Turns'
  BY <1>1 DEF Turns, Busy
<1>5. file_size > 0 /\ passes_completed \in Nat /\ opts.passes \in Nat
  BY <1>1 DEF Ordered, Inv, TypeOK
<1>6. ASSUME NEW p, Patterned(p)
      PROVE  Patterned(p)'
  BY <1>1, <1>5, <1>6 DEF Patterned, Busy
<1>7. ASSUME NEW n \in Nat, Passed(n)
      PROVE  Passed(n)'
  BY <1>1, <1>5, <1>7 DEF Passed, Busy
<1>8. spc \notin {"verify", "done"} /\ cpc \notin {"check", "verify"}
  BY DEF Turns
<1>9. cpc = "erase" => Passes(argv.passes) \in Nat
  BY ImageParameters, PassesAreClamped DEF CallersTyped
<1>10. Ordered'
  <2>1. spc = "erase" => Patterned(request.pattern)'
    BY <1>6 DEF Ordered, Patterned
  <2>2. cpc = "erase" => Patterned(argv.pattern)' /\ Passed(Passes(argv.passes))'
    BY <1>6, <1>7, <1>9 DEF Ordered, Patterned, Passed, Passes
  <2> QED
    BY <1>1, <1>5, <1>8, <2>1, <2>2 DEF Ordered, Busy
<1> QED
  BY <1>1, <1>2, <1>3, <1>4, <1>10

\* A step of verify_image_pattern under whichever caller has called it.
LEMMA VerifyStepKeeps ==
  ASSUME CliInv, Verify, UNCHANGED <<spc, request, sret, cpc, argv, exit>>
  PROVE  CliInv'
<1> USE DEF CliInv
<1>1. /\ VerifyInv' /\ UNCHANGED evars /\ vpc \in {"stat", "read"}
      /\ vpc' \in {"read", "done"} /\ vargs'.pattern = vargs.pattern
  BY VerifyKeeps
<1>2. Inv' /\ UNCHANGED <<pc, opts, file_size, passes_completed, ret, promise>>
  BY <1>1, UnchangedInv DEF evars, call, result
<1>3. CallersTyped'
  BY DEF CallersTyped
<1>4. Turns' /\ Ordered'
  BY <1>1, <1>2 DEF Turns, Ordered, Patterned, Passed, Passes, Busy
<1> QED
  BY <1>1, <1>2, <1>3, <1>4

\* sanitizer_run returns at once, or hands an image to block_erase_image.
LEMMA ReturnAtOnceKeeps ==
  ASSUME CliInv, Ready, NoCommand, NEW code, SanitizerReturn(code),
         code \in {"UNSUPPORTED", "NOT_IMPLEMENTED"} \cup DeviceCodes,
         ClearSubresults, UNCHANGED evars, cpc' = "none", argv' = NoArgv, exit' = NoExit
  PROVE  CliInv'
<1> USE DEF CliInv
<1>1. pc \notin Busy /\ UNCHANGED pc /\ vpc' = "idle"
  BY DEF Turns, Ready, NoCommand, Busy, evars, ClearSubresults
<1>2. Inv'
  BY UnchangedInv
<1>3. TypeOK' /\ blk' \in Nat
  BY <1>2 DEF Inv, VerifyInv, VerifyTypeOK, ClearSubresults
<1>4. VerifyInv'
  BY <1>3, ClearKeeps DEF ClearSubresults
<1>5. CallersTyped'
  BY NoArgvTyped DEF CallersTyped, SanitizerReturn
<1>6. Turns' /\ Ordered'
  BY <1>1 DEF Turns, Ordered, SanitizerReturn, Busy
<1> QED
  BY <1>2, <1>4, <1>5, <1>6

\* sanitizer_run in test mode begins with the erasure.
LEMMA RunImageKeeps ==
  ASSUME CliInv, NoCommand, cpc' = "none", argv' = NoArgv, exit' = NoExit,
         NEW t \in DeviceTypes, NEW r \in Requests,
         RunImage(t, r.path, r.pattern, r.block_size, r.passes, r.verify_mode)
  PROVE  CliInv'
<1> USE DEF CliInv, RunImage
<1>1. /\ r.path \in Paths /\ r.pattern \in ErasePattern
      /\ r.block_size \in Nat /\ r.passes \in Nat
      /\ request' \in [path: Paths, pattern: ErasePattern, block_size: Nat,
                       verify_mode: VerifyModes \cup {NoVerify}]
      /\ request'.pattern = r.pattern
  BY ArgumentsTyped
<1>2. /\ Inv'
      /\ pc' \in {"open", "done"}
      /\ pc' = "open" => opts'.pattern = r.pattern /\ file_size' > 0
      /\ pc' = "done" => ret' \in Refusals
  BY <1>1, CallEffect
<1>3. VerifyInv'
  <2>1. TypeOK' /\ blk' \in Nat
    BY <1>2 DEF Inv, VerifyInv, VerifyTypeOK, ClearSubresults
  <2> QED
    BY <2>1, ClearKeeps DEF ClearSubresults
<1>4. CallersTyped'
  BY <1>1, NoArgvTyped DEF CallersTyped
<1>5. Turns' /\ Ordered'
  BY <1>1, <1>2 DEF Turns, Ordered, Patterned, ClearSubresults, Busy, Refusals
<1> QED
  BY <1>2, <1>3, <1>4, <1>5

\* A program that uses the library.
LEMMA LibraryCallKeeps == CliInv /\ LibraryCall => CliInv'
<1> SUFFICES ASSUME CliInv, LibraryCall PROVE CliInv'
  OBVIOUS
<1>1. NoCommand /\ cpc' = "none" /\ argv' = NoArgv /\ exit' = NoExit
  BY DEF LibraryCall
<1>2. ASSUME NEW t \in DeviceTypes, NEW m \in Methods, RunStub(t, m)
      PROVE  CliInv'
  <2>1. PICK code \in StubCode(Handler(t), m) : SanitizerReturn(code)
    BY <1>2 DEF RunStub
  <2>2. code \in {"UNSUPPORTED", "NOT_IMPLEMENTED", "OK"}
    <3>1. Handler(t) \in {"none", "portable", "hdd", "ssd"}
      BY DEF Handler
    <3>2. StubCode(Handler(t), m) \subseteq {"UNSUPPORTED", "NOT_IMPLEMENTED", "OK"}
      BY <1>2, <3>1 DEF StubCode, Methods, RunStub
    <3> QED
      BY <3>2
  <2>3. code \in {"UNSUPPORTED", "NOT_IMPLEMENTED"} \cup DeviceCodes
    BY <2>2 DEF DeviceCodes
  <2> QED
    BY <1>1, <1>2, <2>1, <2>3, ReturnAtOnceKeeps DEF RunStub
<1>3. ASSUME NEW t \in DeviceTypes, RunDevice(t)
      PROVE  CliInv'
  <2>1. PICK code \in {"UNSUPPORTED"} \cup DeviceCodes : SanitizerReturn(code)
    BY <1>3 DEF RunDevice
  <2>2. code \in {"UNSUPPORTED", "NOT_IMPLEMENTED"} \cup DeviceCodes
    OBVIOUS
  <2> QED
    BY <1>1, <1>3, <2>1, <2>2, ReturnAtOnceKeeps DEF RunDevice
<1> QED
  BY <1>1, <1>2, <1>3, RunImageKeeps DEF LibraryCall

\* The other process, the C library and the kernel.
LEMMA ImageStepKeeps ==
  ASSUME CliInv, ImageStep, UNCHANGED <<cpc, argv, exit>>
  PROVE  CliInv'
<1> USE DEF CliInv, ImageStep, SurroundingStep
<1>1. /\ Inv' /\ Sectors \subseteq Sectors' /\ foreign \subseteq foreign'
      /\ UNCHANGED <<pc, opts, file_size, passes_completed, ret, promise>>
  BY SurroundingEffect
<1>2. VerifyInv'
  <2>1. TypeOK'
    BY <1>1 DEF Inv
  <2> QED
    BY <1>1, <2>1, NoteKeeps
<1>3. CallersTyped' /\ Turns' /\ Ordered'
  BY <1>1 DEF CallersTyped, Turns, Ordered, Patterned, Passed, Passes
<1> QED
  BY <1>1, <1>2, <1>3

\* Power fails, and no program is left.
LEMMA PowerLossKeeps ==
  ASSUME CliInv, PowerLoss, cpc' = "none", argv' = NoArgv, exit' = NoExit
  PROVE  CliInv'
<1> USE DEF CliInv, PowerLoss, PowerFailureStep
<1>1. Inv' /\ pc' = "idle"
  BY PowerFailureInv DEF PowerFailure
<1>2. VerifyInv'
  <2>1. TypeOK' /\ blk' \in Nat
    BY <1>1 DEF Inv
  <2> QED
    BY <2>1, ClearKeeps
<1>3. CallersTyped'
  BY NoArgvTyped DEF CallersTyped
<1>4. Turns' /\ Ordered'
  BY <1>1 DEF Turns, Ordered, Busy
<1> QED
  BY <1>1, <1>2, <1>3, <1>4

\* Nothing changes.
LEMMA RestOfAllKeeps == CliInv /\ UNCHANGED cvars => CliInv'
<1> SUFFICES ASSUME CliInv, UNCHANGED cvars PROVE CliInv'
  OBVIOUS
<1> USE DEF CliInv
<1>1. /\ UNCHANGED evars /\ UNCHANGED vvars
      /\ UNCHANGED <<spc, request, sret, cpc, argv, exit>>
  BY DEF cvars, svars, vars
<1>2. Inv' /\ UNCHANGED <<pc, opts, file_size, passes_completed, ret, promise>>
  BY <1>1, UnchangedInv DEF evars, call, result
<1>3. VerifyInv' /\ UNCHANGED <<vpc, vargs>>
  BY <1>1, RestKeeps DEF vvars
<1>4. CallersTyped'
  BY <1>1 DEF CallersTyped
<1>5. Turns' /\ Ordered'
  BY <1>1, <1>2, <1>3 DEF Turns, Ordered, Patterned, Passed, Passes
<1> QED
  BY <1>2, <1>3, <1>4, <1>5

-----------------------------------------------------------------------------
(* The invariant, and what it says of results. *)

\* Before the first command.
LEMMA InitCliInv == CliInit => CliInv
<1> SUFFICES ASSUME CliInit PROVE CliInv
  OBVIOUS
<1> USE DEF CliInit, SanitizerInit, VerifyInit
<1>1. Inv /\ pc = "idle"
  BY InitInv DEF Init
<1>2. VerifyInv
  BY <1>1, ResultsTyped
     DEF Inv, VerifyInv, VerifyTypeOK, Unread, Counting, Reading, Verifying, Finished, Args, Results
<1>3. CallersTyped
  BY NoArgvTyped DEF CallersTyped
<1>4. Turns /\ Ordered
  BY <1>1 DEF Turns, Ordered, Busy
<1> QED
  BY <1>1, <1>2, <1>3, <1>4 DEF CliInv

\* Every step keeps it.
LEMMA NextCliInv == CliInv /\ [CliNext]_cvars => CliInv'
<1> SUFFICES ASSUME CliInv, [CliNext]_cvars PROVE CliInv'
  OBVIOUS
<1>1. CASE Usage
  BY <1>1, UsageKeeps
<1>2. CASE \E r \in Requests :
             EraseCommand(r.path, r.pattern, r.passes, r.block_size, r.verify_mode)
  BY <1>2, EraseCommandKeeps
<1>3. CASE AfterErasure
  BY <1>3, AfterErasureKeeps
<1>4. CASE AfterCheck \/ AfterVerification
  BY <1>4, AfterVerificationKeeps
<1>5. CASE \E p \in Patterns : VerifyCommand(p)
  BY <1>5, VerifyCommandKeeps
<1>6. CASE CommandWork
  BY <1>6, EraseStepKeeps, VerifyStepKeeps DEF CommandWork
<1>7. CASE LibraryCall
  BY <1>7, LibraryCallKeeps
<1>8. CASE LibraryWork
  <2>1. CASE Work
    BY <1>8, <2>1, EraseStepKeeps, VerifyStepKeeps DEF LibraryWork, Work
  <2> QED
    BY <1>8, <2>1, AfterEraseKeeps, AfterVerifyKeeps DEF LibraryWork
<1>9. CASE ImageStep /\ UNCHANGED <<cpc, argv, exit>>
  BY <1>9, ImageStepKeeps
<1>10. CASE PowerLoss /\ cpc' = "none" /\ argv' = NoArgv /\ exit' = NoExit
  BY <1>10, PowerLossKeeps
<1>11. CASE UNCHANGED cvars
  BY <1>11, RestOfAllKeeps
<1> QED
  BY <1>1, <1>2, <1>3, <1>4, <1>5, <1>6, <1>7, <1>8, <1>9, <1>10, <1>11 DEF CliNext

\* The invariant holds always.
LEMMA CliInvariant == CliSpec => []CliInv
BY InitCliInv, NextCliInv, PTL DEF CliSpec

\* The durability of passes and of ERASECURE_OK, whoever calls and whatever is
\* verified in between.
THEOREM DurableForCallers == CliSpec => [](PassesDurable /\ OkMeansDurable)
BY CliInvariant, PTL DEF CliInv, Inv

\* A full verification that ran to its end and passed has read the pattern in
\* every sector: the blocks cover the image, and none is passed over.
THEOREM FullPassIsComplete == CliSpec => []FullPassMeansWiped
<1>1. CliInv => FullPassMeansWiped
  <2> SUFFICES ASSUME CliInv, Finished, vargs.mode = "FULL", vresult.verification_passed,
                      NEW s \in 0 .. vargs.size - 1
               PROVE  cache[s] = vargs.pattern \/ s \in changed
    BY DEF FullPassMeansWiped
  <2>1. VerifyInv /\ Verifying /\ vpc # "read"
    BY DEF CliInv, Verifying, Finished
  <2>2. /\ vargs.size \in Nat \ {0} /\ vargs.block_size \in Nat \ {0}
        /\ vresult.blocks_total \in Nat \ {0} /\ Position \in Nat
        /\ vresult.blocks_total = TotalBlocks(vargs.size, vargs.block_size)
        /\ vresult.blocks_total <= Position
    BY <2>1, Loop DEF VerifyInv, Counting
  <2>3. Stride = 1
    BY <2>2, StepOfSample DEF Stride
  <2>4. PICK b \in 0 .. vresult.blocks_total - 1 :
          s \in BlockSectors(b, vargs.block_size, vargs.size)
    BY <2>2, BlocksCover
  <2>5. b % Stride = 0 /\ b < Position
    BY <2>2, <2>3
  <2>6. Seen(b)
    BY <2>1, <2>5 DEF VerifyInv, Reading
  <2> QED
    BY <2>4, <2>6 DEF Seen
<1> QED
  BY <1>1, CliInvariant, PTL

\* A verdict beside a result of sanitizer_run is about the erasure in it, and
\* what was erased and not written since passes.
THEOREM ResultsAgreeAlways == CliSpec => []ResultsAgree
<1>1. CliInv => CliTypeOK
  <2> SUFFICES ASSUME CliInv PROVE CliTypeOK
    OBVIOUS
  <2>1. request.path \in Paths /\ request.verify_mode \in VerifyModes \cup {NoVerify}
    BY DEF CliInv, CallersTyped
  <2>2. SanitizerTypeOK
    BY <2>1 DEF CliInv, VerifyInv, CallersTyped, SanitizerTypeOK
  <2> QED
    BY <2>2 DEF CliInv, CallersTyped, CliTypeOK
<1>2. CliInv => VerdictIsOfThisErase
  BY DEF CliInv, VerdictIsOfThisErase, Ordered, VerifyInv, Unread, ClearResult
<1>3. CliInv => ErasedPasses
  BY DEF CliInv, ErasedPasses, VerifyInv, Reading, Verifying
<1> QED
  BY <1>1, <1>2, <1>3, CliInvariant, PTL DEF ResultsAgree

\* ERASECURE_OK of sanitizer_run, and the exit code 0 of a command that erases:
\* the image is overwritten on the disk at that moment, with the pattern and as
\* often as was asked for.
THEOREM SuccessIsErased == CliSpec => SuccessMeansErased
<1>1. CliInv /\ [CliNext]_cvars => [OkMeansDestroyed /\ ExitZeroMeansErased]_cvars
  <2> SUFFICES ASSUME CliInv, CliNext PROVE OkMeansDestroyed /\ ExitZeroMeansErased
    OBVIOUS
  <2> USE DEF CliInv
  <2>1. OkMeansDestroyed
    <3> SUFFICES ASSUME sret' = "OK", spc \in {"erase", "verify"}
                 PROVE  /\ promise.sectors > 0 /\ promise.pattern = request.pattern
                        /\ \A s \in Sectors : s < promise.sectors => Wiped(s, request.pattern)
      BY DEF OkMeansDestroyed
    <3>1. sret = "none" /\ cpc = "none" /\ ~Ready
      BY DEF Turns, Ready
    <3>2. AfterErase \/ AfterVerify
      <4>1. ~Usage /\ ~LibraryCall
        BY <3>1 DEF Usage, LibraryCall, RunStub, RunDevice, RunImage
      <4>2. \A r : ~EraseCommand(r.path, r.pattern, r.passes, r.block_size, r.verify_mode)
        BY <3>1 DEF EraseCommand, NewProcess
      <4>3. \A p : ~VerifyCommand(p)
        BY <3>1 DEF VerifyCommand, NewProcess
      <4>4. ~AfterErasure /\ ~AfterCheck /\ ~AfterVerification
        BY <3>1 DEF AfterErasure, AfterCheck, AfterVerification
      <4>5. ~CommandWork /\ ~ImageStep /\ ~PowerLoss /\ ~Work
        BY <3>1 DEF CommandWork, ImageStep, PowerLoss, Work
      <4> QED
        BY <4>1, <4>2, <4>3, <4>4, <4>5 DEF CliNext, LibraryWork
    <3>3. pc = "done" /\ ret = "OK"
      BY <3>1, <3>2 DEF AfterErase, AfterVerify, SanitizerReturn, Turns
    <3>4. promise.sectors > 0 /\ promise.pattern = request.pattern
      BY <3>3 DEF Ordered, Patterned
    <3> QED
      BY <3>4 DEF Inv, OkMeansDurable
  <2>2. ExitZeroMeansErased
    <3> SUFFICES ASSUME exit' = 0, cpc \in {"erase", "check"}
                 PROVE  /\ promise.sectors > 0 /\ promise.pattern = argv.pattern
                        /\ passes_completed =
                             IF argv.passes \in 1 .. MaxPasses THEN argv.passes ELSE 1
                        /\ \A s \in Sectors : s < promise.sectors => Wiped(s, argv.pattern)
      BY DEF ExitZeroMeansErased
    <3>1. exit = NoExit /\ ~NoCommand /\ spc = "idle" /\ NoExit # 0
      BY DEF Turns, NoCommand, NoExit
    <3>2. AfterErasure \/ AfterCheck
      <4>1. ~Usage /\ ~LibraryCall
        BY <3>1 DEF Usage, LibraryCall
      <4>2. \A r : ~EraseCommand(r.path, r.pattern, r.passes, r.block_size, r.verify_mode)
        BY <3>1 DEF EraseCommand, NewProcess
      <4>3. \A p : ~VerifyCommand(p)
        BY <3>1 DEF VerifyCommand, NewProcess
      <4>4. ~AfterVerification
        BY DEF AfterVerification
      <4>5. ~CommandWork /\ ~LibraryWork /\ exit' # NoExit /\ exit' # exit
        BY <3>1 DEF CommandWork, LibraryWork
      <4> QED
        BY <3>1, <4>1, <4>2, <4>3, <4>4, <4>5 DEF CliNext
    <3>3. pc = "done" /\ ret = "OK"
      <4>1. CASE AfterErasure
        <5>1. CASE ret = "REAL_DEVICE_PATH"
          BY <4>1, <5>1 DEF AfterErasure, Exit
        <5>2. CASE ret \notin {"OK", "REAL_DEVICE_PATH"}
          <6>1. Exit(1)
            BY <4>1, <5>2 DEF AfterErasure
          <6> QED
            BY <6>1 DEF Exit
        <5> QED
          BY <4>1, <5>1, <5>2 DEF AfterErasure
      <4>2. CASE AfterCheck
        BY <4>2 DEF AfterCheck, Turns
      <4> QED
        BY <3>2, <4>1, <4>2
    <3>4. Patterned(argv.pattern) /\ Passed(Passes(argv.passes))
      BY DEF Ordered
    <3>5. /\ promise.sectors > 0 /\ promise.pattern = argv.pattern
          /\ passes_completed = Passes(argv.passes)
      BY <3>3, <3>4 DEF Patterned, Passed
    <3> QED
      BY <3>5 DEF Inv, OkMeansDurable, Passes
  <2> QED
    BY <2>1, <2>2
<1> QED
  BY <1>1, CliInvariant, PTL DEF CliSpec, SuccessMeansErased

\* The exit code 0 of a command that verifies: the sample has its size, and all
\* of it held the pattern when it was read.
THEOREM ExitZeroIsVerified == CliSpec => ExitZeroMeansVerified
<1> DEFINE Verified ==
      cpc = "verify" /\ exit' = 0 =>
        /\ vresult.blocks_total > 0
        /\ \/ vresult.blocks_checked = vresult.blocks_total
           \/ vresult.blocks_checked >= SampleBlocks
        /\ \A s \in Sampled : cache[s] = argv.pattern \/ s \in changed
<1>1. CliInv /\ [CliNext]_cvars => [Verified]_cvars
  <2> SUFFICES ASSUME CliInv, CliNext, cpc = "verify", exit' = 0
               PROVE  /\ vresult.blocks_total > 0
                      /\ \/ vresult.blocks_checked = vresult.blocks_total
                         \/ vresult.blocks_checked >= SampleBlocks
                      /\ \A s \in Sampled : cache[s] = argv.pattern \/ s \in changed
    OBVIOUS
  <2> USE DEF CliInv
  <2>1. exit = NoExit /\ ~NoCommand /\ spc = "idle" /\ NoExit # 0
    BY DEF Turns, NoCommand, NoExit
  <2>2. AfterVerification
    <3>1. ~Usage /\ ~LibraryCall
      BY <2>1 DEF Usage, LibraryCall
    <3>2. \A r : ~EraseCommand(r.path, r.pattern, r.passes, r.block_size, r.verify_mode)
      BY <2>1 DEF EraseCommand, NewProcess
    <3>3. \A p : ~VerifyCommand(p)
      BY <2>1 DEF VerifyCommand, NewProcess
    <3>4. ~AfterErasure /\ ~AfterCheck
      BY DEF AfterErasure, AfterCheck
    <3>5. ~CommandWork /\ ~LibraryWork /\ exit' # NoExit /\ exit' # exit
      BY <2>1 DEF CommandWork, LibraryWork
    <3> QED
      BY <2>1, <3>1, <3>2, <3>3, <3>4, <3>5 DEF CliNext
  <2>3. Finished /\ vresult.verification_passed /\ vargs.pattern = argv.pattern
    BY <2>2 DEF AfterVerification, Exit, Finished, Ordered
  <2>4. VerifyInv /\ Verifying /\ vpc # "read"
    BY <2>3 DEF Verifying, Finished
  <2>5. /\ vresult.blocks_total \in Nat \ {0} /\ vresult.blocks_checked \in Nat
        /\ Position \in Nat
        /\ vresult.blocks_total <= Position /\ Position < vresult.blocks_total + Stride
    BY <2>4, Loop DEF VerifyInv, Counting
  <2>6. \/ vresult.blocks_checked = vresult.blocks_total
        \/ vresult.blocks_checked >= SampleBlocks
    BY <2>5, StepOfSample DEF Stride, Position
  <2>7. ASSUME NEW b \in 0 .. vresult.blocks_total - 1, b % Stride = 0
        PROVE  Seen(b)
    <3>1. b < Position
      BY <2>5
    <3>2. vresult.blocks_failed = 0
      BY <2>3, <2>4 DEF VerifyInv, Reading
    <3> QED
      BY <2>4, <2>7, <3>1, <3>2 DEF VerifyInv, Reading
  <2>8. ASSUME NEW s \in Sampled
        PROVE  cache[s] = argv.pattern \/ s \in changed
    <3>1. PICK b \in 0 .. vresult.blocks_total - 1 :
            b % Stride = 0 /\ s \in BlockSectors(b, vargs.block_size, vargs.size)
      BY DEF Sampled, Stride
    <3> QED
      BY <2>3, <2>7, <3>1 DEF Seen
  <2> QED
    BY <2>5, <2>6, <2>8
<1> QED
  BY <1>1, CliInvariant, PTL DEF CliSpec, ExitZeroMeansVerified
=============================================================================
