------------------------- MODULE DeviceEraseProofs --------------------------
(***************************************************************************)
(* The safety properties of DeviceErase, for devices, block sizes and pass *)
(* counts of any size, and those of DeviceInfo, where the caller erases    *)
(* what an earlier read of the device's attributes says there is.          *)
(***************************************************************************)
EXTENDS DeviceInfo, TLAPS

\* Whatever block_size and passes the caller gives, the loops of the erase
\* run with a block size and a number of passes that are not zero.
LEMMA ClampsArePositive ==
  /\ \A n \in Nat : ClampBlockSize(n) \in Nat \ {0}
  /\ \A n \in Nat : ClampPasses(n) \in Nat \ {0}
BY BlockSizeLimits, PassLimits DEF ClampBlockSize, ClampPasses

\* A chunk is never empty and never exceeds what is left of the pass.
LEMMA ChunkFits ==
  \A r, b \in Nat \ {0} : /\ ChunkSize(r, b) \in Nat \ {0}
                          /\ ChunkSize(r, b) <= r
BY DEF ChunkSize

Inv == TypeOK /\ ClaimDiscipline /\ ProgressIsReal

LEMMA InitInv == Init => Inv
<1> SUFFICES ASSUME Init PROVE Inv
  OBVIOUS
<1> USE DEF Init, NoDevice, DefaultOpts
<1>1. TypeOK
  <2>1. media \in [0 .. capacity - 1 -> Content]
    BY DEF Content, DATA
  <2>2. opts \in [pattern: ErasePattern, block_size: Nat \ {0}, passes: Nat \ {0}]
    BY BlockSizeLimits, PassLimits DEF ErasePattern, ZERO
  <2>3. device \in Devices \cup {NoDevice}
    OBVIOUS
  <2> QED
    BY <2>1, <2>2, <2>3 DEF TypeOK
<1>2. ClaimDiscipline
  BY DEF ClaimDiscipline, Erasing
<1>3. ProgressIsReal
  BY DEF ProgressIsReal, LoopAccounts, BehindOffsetErased, PassesErased, Erasing
<1> QED
  BY <1>1, <1>2, <1>3 DEF Inv

\* A return, on whichever path, ends in a state that satisfies the invariant.
LEMMA ReturnInv ==
  ASSUME Inv,
         NEW code \in {"OK"} \cup Refusals \cup Failures,
         Return(code), UNCHANGED <<kernel, media>>,
         bytes_written' \in Nat, passes_completed' \in Nat
  PROVE  Inv'
<1> USE DEF Return, kernel, Inv
<1>1. TypeOK'
  <2>1. opts' \in [pattern: ErasePattern, block_size: Nat \ {0}, passes: Nat \ {0}]
    BY BlockSizeLimits, PassLimits DEF DefaultOpts, ErasePattern, ZERO
  <2>2. device' \in Devices \cup {NoDevice}
    OBVIOUS
  <2> QED
    BY <2>1, <2>2 DEF TypeOK
<1>2. ClaimDiscipline'
  BY DEF ClaimDiscipline, Erasing
<1>3. ProgressIsReal'
  BY DEF ProgressIsReal, LoopAccounts, BehindOffsetErased, PassesErased, Erasing
<1> QED
  BY <1>1, <1>2, <1>3

\* Entry of a call.
LEMMA CallInv ==
  ASSUME Inv, NEW d \in Devices, NEW p \in Patterns, NEW b \in BlockSizes,
         NEW n \in PassCounts, Call(d, p, b, n)
  PROVE  Inv'
<1>1. CASE ArgumentCheck(d) # "OK"
  <2>1. ArgumentCheck(d) \in Refusals
    BY <1>1 DEF ArgumentCheck, Refusals
  <2> QED
    BY <1>1, <2>1, ReturnInv DEF Call
<1>2. CASE ArgumentCheck(d) = "OK"
  <2> USE <1>2 DEF Call, Inv, kernel, locals
  <2>1. TypeOK'
    <3>1. opts' \in [pattern: ErasePattern, block_size: Nat \ {0}, passes: Nat \ {0}]
      BY ClampsArePositive, DeviceParameters
    <3> QED
      BY <3>1 DEF TypeOK
  <2>2. ClaimDiscipline'
    BY DEF ClaimDiscipline, Erasing
  <2>3. ProgressIsReal'
    BY DEF ProgressIsReal, LoopAccounts, BehindOffsetErased, PassesErased, Erasing
  <2> QED
    BY <2>1, <2>2, <2>3
<1> QED
  BY <1>1, <1>2

\* The last look at the mount table.
LEMMA CheckMountsInv == Inv /\ CheckMounts => Inv'
<1> SUFFICES ASSUME Inv, CheckMounts PROVE Inv'
  OBVIOUS
<1>1. CASE Return("DEVICE_MOUNTED")
  BY <1>1, ReturnInv DEF CheckMounts, result, Refusals, Inv, TypeOK
<1>2. CASE Continue("open") /\ UNCHANGED locals
  <2> USE <1>2 DEF CheckMounts, Continue, locals, kernel, result, args, Inv
  <2>1. TypeOK'
    BY DEF TypeOK
  <2>2. ClaimDiscipline'
    BY DEF ClaimDiscipline, Erasing
  <2>3. ProgressIsReal'
    BY DEF ProgressIsReal, LoopAccounts, BehindOffsetErased, PassesErased, Erasing
  <2> QED
    BY <2>1, <2>2, <2>3
<1> QED
  BY <1>1, <1>2 DEF CheckMounts

\* The exclusive open: this is where the mounts are locked out.
LEMMA OpenInv == Inv /\ Open => Inv'
<1> SUFFICES ASSUME Inv, Open PROVE Inv'
  OBVIOUS
<1>1. CASE \E code \in Refusals : Return(code)
  BY <1>1, ReturnInv DEF Open, result, Inv, TypeOK
<1>2. CASE mount = "none" /\ excl' = TRUE /\ pc' = "size" /\ UNCHANGED <<ret, args, locals>>
  <2> USE <1>2 DEF Open, locals, kernel, result, args, Inv
  <2>1. TypeOK'
    BY DEF TypeOK
  <2>2. ClaimDiscipline'
    BY DEF ClaimDiscipline, Erasing
  <2>3. ProgressIsReal'
    BY DEF ProgressIsReal, LoopAccounts, BehindOffsetErased, PassesErased, Erasing
  <2> QED
    BY <2>1, <2>2, <2>3
<1> QED
  BY <1>1, <1>2 DEF Open, Refusals

\* The size of the device.
LEMMA QuerySizeInv == Inv /\ QuerySize => Inv'
<1> SUFFICES ASSUME Inv, QuerySize PROVE Inv'
  OBVIOUS
<1>1. CASE \E code \in Refusals : Return(code)
  BY <1>1, ReturnInv DEF QuerySize, result, Inv, TypeOK
<1>2. CASE \E size \in {capacity, device.capacity_bytes} :
             /\ size > 0
             /\ dev_capacity' = size
             /\ Continue("seek")
             /\ UNCHANGED <<offset, remaining, chunk, chunk_written>>
  <2> USE <1>2 DEF QuerySize, Continue, kernel, result, args, Inv
  <2>1. dev_capacity' \in Nat \ {0}
    BY DeviceParameters DEF TypeOK, Devices, NoDevice
  <2>2. TypeOK'
    BY <2>1 DEF TypeOK, Erasing
  <2>3. ClaimDiscipline'
    BY DEF ClaimDiscipline, Erasing
  <2>4. LoopAccounts'
    <3>1. bytes_written' = 0 /\ passes_completed' = 0 /\ ret' = "none"
      BY DEF ProgressIsReal, LoopAccounts
    <3>2. bytes_written' = passes_completed' * dev_capacity'
      BY <2>1, <3>1
    <3>3. passes_completed' < opts'.passes
      BY <3>1 DEF TypeOK
    <3> QED
      BY <2>1, <3>1, <3>2, <3>3 DEF LoopAccounts
  <2>5. BehindOffsetErased' /\ PassesErased'
    BY DEF ProgressIsReal, LoopAccounts, BehindOffsetErased, PassesErased
  <2> QED
    BY <2>2, <2>3, <2>4, <2>5 DEF ProgressIsReal
<1> QED
  BY <1>1, <1>2 DEF QuerySize, Refusals

\* The head of the pass loop.
LEMMA StartPassInv == Inv /\ StartPass => Inv'
<1> SUFFICES ASSUME Inv, StartPass PROVE Inv'
  OBVIOUS
<1>1. CASE Return("SEEK_FAILED")
  BY <1>1, ReturnInv DEF StartPass, result, Failures, Inv, TypeOK
<1>2. CASE /\ offset' = 0
           /\ remaining' = dev_capacity
           /\ Continue("fill")
           /\ UNCHANGED <<dev_capacity, chunk, chunk_written>>
  <2> USE <1>2 DEF StartPass, Continue, kernel, result, args, Inv
  <2>1. TypeOK'
    BY DEF TypeOK, Erasing
  <2>2. ClaimDiscipline'
    BY DEF ClaimDiscipline, Erasing
  <2>3. LoopAccounts'
    <3>1. bytes_written = passes_completed * dev_capacity
      BY DEF ProgressIsReal, LoopAccounts
    <3>2. bytes_written' = passes_completed' * dev_capacity' + (dev_capacity' - remaining')
      BY <3>1 DEF TypeOK
    <3>3. /\ dev_capacity > 0
          /\ passes_completed < opts.passes
          /\ ret = "none"
      BY DEF ProgressIsReal, LoopAccounts, Erasing
    <3> QED
      BY <3>2, <3>3, DeviceParameters DEF LoopAccounts, TypeOK
  <2>4. BehindOffsetErased'
    BY DEF BehindOffsetErased, TypeOK
  <2>5. PassesErased'
    BY DEF ProgressIsReal, PassesErased, Covered, Erasing
  <2> QED
    BY <2>1, <2>2, <2>3, <2>4, <2>5 DEF ProgressIsReal
<1> QED
  BY <1>1, <1>2 DEF StartPass

\* The head of the chunk loop.
LEMMA FillChunkInv == Inv /\ FillChunk => Inv'
<1> SUFFICES ASSUME Inv, FillChunk PROVE Inv'
  OBVIOUS
<1>1. CASE Return("CRYPTO")
  BY <1>1, ReturnInv DEF FillChunk, result, Failures, Inv, TypeOK
<1>2. CASE /\ chunk' = ChunkSize(remaining, opts.block_size)
           /\ chunk_written' = 0
           /\ Continue("write")
           /\ UNCHANGED <<dev_capacity, offset, remaining>>
  <2> USE <1>2 DEF FillChunk, Continue, kernel, result, args, Inv
  <2>1. chunk' \in Nat \ {0} /\ chunk' <= remaining
    BY ChunkFits DEF TypeOK
  <2>2. TypeOK'
    BY <2>1 DEF TypeOK, Erasing
  <2>3. ClaimDiscipline'
    BY DEF ClaimDiscipline, Erasing
  <2>4. LoopAccounts'
    BY <2>1 DEF ProgressIsReal, LoopAccounts, TypeOK, Erasing
  <2>5. BehindOffsetErased'
    BY DEF ProgressIsReal, BehindOffsetErased
  <2>6. PassesErased'
    BY DEF ProgressIsReal, PassesErased, Covered, Erasing
  <2> QED
    BY <2>2, <2>3, <2>4, <2>5, <2>6 DEF ProgressIsReal
<1> QED
  BY <1>1, <1>2 DEF FillChunk, FillOutcomes

\* A write: the only step of the eraser that changes the media.
LEMMA WriteChunkInv ==
  ASSUME Inv, NEW w \in 1 .. MaxBlock, WriteChunk(w)
  PROVE  Inv'
<1> USE DEF WriteChunk, WriteSectors, kernel, args, Inv
<1>1. w \in Nat \ {0}
  BY BlockSizeLimits
<1>2. TypeOK'
  <2>1. opts.pattern \in Content
    BY DEF TypeOK, Content
  <2>2. media' \in [0 .. capacity - 1 -> Content]
    BY <2>1 DEF TypeOK
  <2>3. pc = "write" => remaining - chunk \in Nat
    BY DEF ProgressIsReal, LoopAccounts, TypeOK
  <2> QED
    BY <1>1, <2>2, <2>3 DEF TypeOK, Erasing
<1>3. ClaimDiscipline'
  BY DEF ClaimDiscipline, Erasing
<1>4. LoopAccounts'
  <2>1. CASE chunk_written' = chunk
    BY <1>1, <2>1 DEF ProgressIsReal, LoopAccounts, TypeOK, Erasing
  <2>2. CASE chunk_written' # chunk
    BY <1>1, <2>2 DEF ProgressIsReal, LoopAccounts, TypeOK, Erasing
  <2> QED
    BY <2>1, <2>2
<1>5. BehindOffsetErased'
  BY <1>1 DEF ProgressIsReal, BehindOffsetErased, TypeOK
<1>6. PassesErased'
  BY <1>1 DEF ProgressIsReal, PassesErased, Covered, Erasing, TypeOK
<1> QED
  BY <1>2, <1>3, <1>4, <1>5, <1>6 DEF ProgressIsReal

\* A write that fails.
LEMMA WriteFailsInv == Inv /\ WriteFails => Inv'
BY ReturnInv DEF WriteFails, result, Failures, Inv, TypeOK

\* Steps that change nothing.
LEMMA UnchangedInv == Inv /\ UNCHANGED vars => Inv'
<1> SUFFICES ASSUME Inv, UNCHANGED vars PROVE Inv'
  OBVIOUS
<1> USE DEF Inv, vars, kernel, args, locals, result
<1>1. TypeOK' /\ ClaimDiscipline'
  BY DEF TypeOK, ClaimDiscipline
<1>2. ProgressIsReal'
  BY DEF ProgressIsReal, LoopAccounts, BehindOffsetErased, PassesErased, Covered
<1> QED
  BY <1>1, <1>2

\* The end of a pass.
LEMMA SyncPassInv == Inv /\ SyncPass => Inv'
<1> SUFFICES ASSUME Inv, SyncPass PROVE Inv'
  OBVIOUS
<1>1. CASE \E code \in {"OK"} \cup Failures : Return(code)
  BY <1>1, ReturnInv DEF SyncPass, Inv, TypeOK
<1>2. CASE /\ passes_completed' = passes_completed + 1
           /\ passes_completed' < opts.passes
           /\ Continue("seek")
           /\ UNCHANGED locals
  <2> USE <1>2 DEF SyncPass, Continue, kernel, locals, args, Inv
  <2>1. TypeOK'
    BY DEF TypeOK, Erasing
  <2>2. ClaimDiscipline'
    BY DEF ClaimDiscipline, Erasing
  <2>3. offset = dev_capacity /\ dev_capacity <= capacity
    BY DEF ProgressIsReal, LoopAccounts, TypeOK
  <2>4. LoopAccounts'
    BY DEF ProgressIsReal, LoopAccounts, TypeOK, Erasing
  <2>5. BehindOffsetErased'
    BY DEF BehindOffsetErased
  <2>6. PassesErased'
    BY <2>3 DEF ProgressIsReal, BehindOffsetErased, PassesErased, Covered, TypeOK
  <2> QED
    BY <2>1, <2>2, <2>4, <2>5, <2>6 DEF ProgressIsReal
<1> QED
  BY <1>1, <1>2 DEF SyncPass, Failures

\* The steps of the rest of the machine: none of them is possible on a device
\* that is being erased.
LEMMA EnvironmentInv ==
  ASSUME Inv,
         \/ \E how \in {"listed", "mapped"} : Mount(how)
         \/ Unmount
         \/ \E s \in 0 .. capacity - 1 : FileSystemWrite(s)
  PROVE  Inv'
<1> USE DEF Inv, kernel, args, locals, result
<1>1. pc \notin Erasing /\ ~excl /\ UNCHANGED <<capacity, excl, pc, args, locals, result, ret>>
  BY DEF ClaimDiscipline, Mount, Unmount, FileSystemWrite
<1>2. TypeOK'
  <2>1. media' \in [0 .. capacity - 1 -> Content]
    BY DEF TypeOK, Mount, Unmount, FileSystemWrite, Content
  <2>2. mount' \in {"none", "listed", "mapped"}
    BY DEF TypeOK, Mount, Unmount, FileSystemWrite
  <2> QED
    BY <1>1, <2>1, <2>2 DEF TypeOK
<1>3. ClaimDiscipline'
  BY <1>1 DEF ClaimDiscipline
<1>4. ProgressIsReal'
  BY <1>1 DEF ProgressIsReal, LoopAccounts, BehindOffsetErased, PassesErased, Erasing
<1> QED
  BY <1>2, <1>3, <1>4

\* Every step of the system preserves the invariant.
LEMMA NextInv == Inv /\ [Next]_vars => Inv'
<1> SUFFICES ASSUME Inv, [Next]_vars PROVE Inv'
  OBVIOUS
<1>1. ASSUME NEW d \in Devices, NEW p \in Patterns, NEW b \in BlockSizes,
             NEW n \in PassCounts, Call(d, p, b, n)
      PROVE  Inv'
  BY <1>1, CallInv
<1>2. CASE Erase
  BY <1>2, CheckMountsInv, OpenInv, QuerySizeInv, StartPassInv, FillChunkInv,
     WriteChunkInv, WriteFailsInv, SyncPassInv DEF Erase
<1>3. CASE WriteInterrupted \/ UNCHANGED vars
  BY <1>3, UnchangedInv DEF WriteInterrupted
<1>4. CASE \/ \E how \in {"listed", "mapped"} : Mount(how)
           \/ Unmount
           \/ \E s \in 0 .. capacity - 1 : FileSystemWrite(s)
  BY <1>4, EnvironmentInv
<1> QED
  BY <1>1, <1>2, <1>3, <1>4 DEF Next

LEMMA InvHolds == Spec => []Inv
BY InitInv, NextInv, PTL DEF Spec

-----------------------------------------------------------------------------
\* Every variable stays within its type, whatever sizes and options occur.
THEOREM TypeCorrect == Spec => []TypeOK
BY InvHolds, PTL DEF Inv

\* The exclusive descriptor is held exactly from the open to the return, on
\* every path of block_erase_device, and keeps every mount out meanwhile.
THEOREM ClaimIsDisciplined == Spec => []ClaimDiscipline
BY InvHolds, PTL DEF Inv

\* bytes_written and passes_completed never exceed what the media shows.
THEOREM ProgressReported == Spec => []ProgressIsReal
BY InvHolds, PTL DEF Inv

\* A write of the eraser finds the device unmounted and leaves it unmounted.
LEMMA WritesUnmounted ==
  Inv /\ [Next]_vars =>
    [pc = "write" /\ media' # media => mount = "none" /\ mount' = "none"]_vars
<1> SUFFICES ASSUME Inv, Next, pc = "write", media' # media
             PROVE  mount = "none" /\ mount' = "none"
  BY DEF vars
<1>1. excl /\ mount = "none"
  BY DEF Inv, ClaimDiscipline, Erasing
<1>2. ASSUME NEW w \in 1 .. MaxBlock, WriteChunk(w)
      PROVE  mount' = mount
  BY <1>2 DEF WriteChunk, WriteSectors, kernel
<1>3. WriteFails \/ WriteInterrupted => media' = media
  BY DEF WriteFails, WriteInterrupted, vars
<1> QED
  BY <1>1, <1>2, <1>3
     DEF Next, Erase, Call, CheckMounts, Open, QuerySize, StartPass, FillChunk,
         SyncPass, Mount, Unmount, FileSystemWrite

\* block_erase_device never writes to a mounted device.
THEOREM MountedNeverWritten == Spec => NeverWritesMounted
BY WritesUnmounted, InvHolds, PTL DEF Spec, NeverWritesMounted

-----------------------------------------------------------------------------
\* What a call that returns ERASECURE_OK has done.
Erased ==
  /\ dev_capacity <= capacity
  /\ \A s \in Covered : media'[s] = opts.pattern
  /\ passes_completed' = opts.passes
  /\ bytes_written' = opts.passes * dev_capacity

\* Only the end of the last pass returns ERASECURE_OK.
LEMMA OkErases ==
  Inv /\ [Next]_vars => [pc # "done" /\ ret' = "OK" => SyncPass /\ Erased]_vars
<1> SUFFICES ASSUME Inv, Next, pc # "done", ret' = "OK"
             PROVE  SyncPass /\ Erased
  BY DEF vars
<1>1. ret = "none"
  BY DEF Inv, ProgressIsReal, LoopAccounts
<1>2. SyncPass
  <2>1. ASSUME NEW d \in Devices, NEW p \in Patterns, NEW b \in BlockSizes,
               NEW n \in PassCounts, Call(d, p, b, n)
        PROVE  FALSE
    BY <1>1, <2>1 DEF Call, Return, ArgumentCheck
  <2>2. ASSUME NEW w \in 1 .. MaxBlock, WriteChunk(w)
        PROVE  FALSE
    BY <1>1, <2>2 DEF WriteChunk, WriteSectors
  <2>3. CASE CheckMounts \/ Open \/ QuerySize \/ StartPass \/ FillChunk \/ WriteFails
    BY <1>1, <2>3 DEF CheckMounts, Open, QuerySize, StartPass, FillChunk,
                      WriteFails, FillOutcomes, Return, Continue
  <2>4. CASE \/ WriteInterrupted
             \/ \E how \in {"listed", "mapped"} : Mount(how)
             \/ Unmount
             \/ \E s \in 0 .. capacity - 1 : FileSystemWrite(s)
    BY <1>1, <2>4 DEF WriteInterrupted, Mount, Unmount, FileSystemWrite, vars
  <2> QED
    BY <2>1, <2>2, <2>3, <2>4 DEF Next, Erase
<1>3. passes_completed' = passes_completed + 1 /\ ~(passes_completed' < opts.passes)
  BY <1>1, <1>2 DEF SyncPass, Return, Continue
<1>4. passes_completed < opts.passes
  BY <1>2 DEF SyncPass, Inv, ProgressIsReal, LoopAccounts, Erasing
<1>5. passes_completed' = opts.passes
  BY <1>3, <1>4 DEF Inv, TypeOK
<1>6. /\ offset = dev_capacity
      /\ offset <= capacity
      /\ bytes_written = passes_completed * dev_capacity + dev_capacity
  BY <1>2 DEF SyncPass, Inv, ProgressIsReal, LoopAccounts, TypeOK
<1>7. bytes_written' = (passes_completed + 1) * dev_capacity
  BY <1>2, <1>6 DEF SyncPass, Inv, TypeOK
<1>8. \A s \in Covered : media'[s] = opts.pattern
  BY <1>2, <1>6 DEF SyncPass, Covered, Inv, ProgressIsReal, BehindOffsetErased
<1> QED
  BY <1>2, <1>3, <1>5, <1>6, <1>7, <1>8 DEF Erased

\* A call that returns ERASECURE_OK overwrote all of the device it saw.
THEOREM OkIsErased == Spec => OkMeansErased
<1>1. Inv /\ [Next]_vars =>
        [pc # "done" /\ ret' = "OK" =>
           /\ dev_capacity <= capacity
           /\ \A s \in Covered : media'[s] = opts.pattern
           /\ passes_completed' = opts.passes
           /\ bytes_written' = opts.passes * dev_capacity]_vars
  BY OkErases DEF Erased
<1> QED
  BY <1>1, InvHolds, PTL DEF Spec, OkMeansErased

-----------------------------------------------------------------------------
(* The erasure of a device the caller has a record of. *)

\* The points of device_get_info.
Reading == {"is_rotational", "is_read_only", "capacity_bytes", "classify"}

\* What the record says of the device, while it is made too.
RecordTrue ==
  ~replugged => /\ dev.capacity_bytes \in {0, capacity}
                /\ dev.is_rotational => disk.rotational
                /\ dev.device_type \in {"HDD", "USB_HDD"} => disk.rotational
                /\ dev.crypto => Capabilities(dev.transport, disk).crypto
                /\ dev.native => Capabilities(dev.transport, disk).native

\* How what it says hangs together.
RecordAgrees ==
  /\ ipc \in {"known", "recheck", "query"} => dev.block = ~dev.is_read_only
  /\ dev.crypto => dev.encrypted
  /\ dev.crypto \/ dev.native => dev.transport \in {"SATA", "NVME"}
  /\ ipc \in Reading => ~dev.crypto /\ ~dev.native
  /\ ipc = "query" => dev.transport \in {"SATA", "NVME"}

\* What a running call has of it: a size of 0, until the ioctl has the real one.
CallKnows ==
  ~replugged => /\ pc \in {"mounts", "open", "size"} => device.capacity_bytes \in {0, capacity}
                /\ pc \in Erasing => dev_capacity = capacity

InfoInv == Inv /\ InfoTypeOK /\ RecordTrue /\ RecordAgrees /\ CallKnows

\* Making a device read-only changes nothing else of what it says of itself.
LEMMA ReadOnlyOnly ==
  ASSUME NEW d \in Disk, NEW t
  PROVE  LET e == [d EXCEPT !.read_only = ~@]
         IN  /\ e \in Disk
             /\ e.rotational = d.rotational
             /\ Capabilities(t, e) = Capabilities(t, d)
<1> DEFINE e == [d EXCEPT !.read_only = ~@]
<1>1. /\ e \in Disk
      /\ e.rotational = d.rotational
      /\ e.security = d.security /\ e.frozen = d.frozen
      /\ e.word59 = d.word59 /\ e.oacs = d.oacs /\ e.fna = d.fna /\ e.sanicap = d.sanicap
  BY DEF Disk
<1>2. Capabilities(t, e) = Capabilities(t, d)
  <2> HIDE DEF e
  <2> QED
    BY <1>1 DEF Capabilities, AtaCapabilities, NvmeCapabilities, NvmeController, Sanitizes
<1> QED
  BY <1>1, <1>2

\* The steps that leave the eraser, the mounts and the media alone.
RecordStep ==
  \/ GetInfo
  \/ \E name \in DOMAIN AfterAttribute : ReadAttribute(name)
  \/ Classify
  \/ Refresh
  \/ Recheck
  \/ Query
  \/ SetReadOnly

\* A step of DeviceErase where a call takes the size that is in the record.
EraserStep ==
  /\ [Next]_vars
  /\ UNCHANGED info
  /\ pc # "mounts" /\ pc' = "mounts" => device'.capacity_bytes = dev.capacity_bytes

\* Every step is one of these or a replacement.
LEMMA StepKinds ==
  InfoTypeOK /\ [InfoNext]_ivars =>
    (RecordStep /\ UNCHANGED vars) \/ EraserStep \/ Replug
<1> SUFFICES ASSUME InfoTypeOK, [InfoNext]_ivars
             PROVE  (RecordStep /\ UNCHANGED vars) \/ EraserStep \/ Replug
  OBVIOUS
<1>1. CASE GetInfo \/ Scan \/ Refresh \/ Recheck \/ Classify \/ Query \/ SetReadOnly
  BY <1>1 DEF RecordStep, GetInfo, Scan, Refresh, Recheck, Classify, Query, SetReadOnly
<1>2. ASSUME NEW name \in DOMAIN AfterAttribute, ReadAttribute(name)
      PROVE  RecordStep /\ UNCHANGED vars
  BY <1>2 DEF RecordStep, ReadAttribute
<1>3. ASSUME NEW c \in BOOLEAN, NEW p \in Patterns, NEW b \in BlockSizes,
             NEW n \in PassCounts, EraseKnown(c, p, b, n)
      PROVE  EraserStep
  <2> DEFINE d == [confirmed |-> c, is_block |-> TRUE, is_read_only |-> dev.is_read_only,
                   capacity_bytes |-> dev.capacity_bytes]
  <2>1. d \in Devices
    BY DEF InfoTypeOK, Devices
  <2>2. Call(d, p, b, n) /\ UNCHANGED info
    BY <1>3 DEF EraseKnown
  <2>3. d.capacity_bytes = dev.capacity_bytes
    OBVIOUS
  <2> HIDE DEF d
  <2>4. pc' = "mounts" => device' = d
    BY <2>2 DEF Call, Return
  <2> QED
    BY <2>1, <2>2, <2>3, <2>4 DEF Next, EraserStep
<1>4. CASE EraseStep
  <2>1. ASSUME NEW w \in 1 .. MaxBlock, WriteChunk(w)
        PROVE  pc' # "mounts"
    BY <2>1 DEF WriteChunk, WriteSectors
  <2>2. Erase => pc' # "mounts"
    BY <2>1 DEF Erase, CheckMounts, Open, QuerySize, StartPass, FillChunk, WriteFails,
                SyncPass, Return, Continue
  <2> QED
    BY <1>4, <2>2 DEF EraseStep, EraserStep, Next
<1>5. CASE (WriteInterrupted /\ UNCHANGED info) \/ Surroundings \/ UNCHANGED ivars
  <2>1. UNCHANGED info /\ pc' = pc
    BY <1>5 DEF WriteInterrupted, Surroundings, Mount, Unmount, FileSystemWrite, vars, ivars
  <2>2. [Next]_vars
    BY <1>5 DEF Surroundings, Next, ivars
  <2> QED
    BY <2>1, <2>2 DEF EraserStep
<1> QED
  BY <1>1, <1>2, <1>3, <1>4, <1>5 DEF InfoNext

LEMMA InfoInit_InfoInv == InfoInit => InfoInv
<1> SUFFICES ASSUME InfoInit PROVE InfoInv
  OBVIOUS
<1>1. Inv
  BY InitInv DEF InfoInit
<1>2. InfoTypeOK
  BY InfoParameters DEF InfoInit, InfoTypeOK, Blank
<1>3. RecordTrue /\ RecordAgrees
  BY DEF InfoInit, Blank, RecordTrue, RecordAgrees, Reading
<1>4. CallKnows
  BY DEF InfoInit, Init, CallKnows, Erasing
<1> QED
  BY <1>1, <1>2, <1>3, <1>4 DEF InfoInv

\* A read of an attribute, of the flag or of the IDENTIFY data.
LEMMA RecordStepInv == InfoInv /\ RecordStep /\ UNCHANGED vars => InfoInv'
<1> SUFFICES ASSUME InfoInv, RecordStep, UNCHANGED vars PROVE InfoInv'
  OBVIOUS
<1>1. Inv'
  BY UnchangedInv DEF InfoInv
<1>2. UNCHANGED <<capacity, pc, device, dev_capacity>>
  BY DEF vars, kernel, args, locals
<1>3. CallKnows'
  BY <1>2 DEF RecordStep, GetInfo, Idle, ReadAttribute, Classify, Refresh, Recheck, Query,
              SetReadOnly, InfoInv, CallKnows, Erasing
<1> USE <1>2 DEF InfoInv
<1>4. CASE GetInfo
  <2> USE <1>4 DEF GetInfo
  <2>1. InfoTypeOK'
    BY InfoParameters DEF InfoTypeOK, Blank
  <2>2. RecordTrue' /\ RecordAgrees'
    BY DEF Blank, RecordTrue, RecordAgrees, Reading
  <2> QED
    BY <1>1, <1>3, <2>1, <2>2
<1>5. ASSUME NEW name \in DOMAIN AfterAttribute, ReadAttribute(name)
      PROVE  InfoInv'
  <2> USE <1>5 DEF ReadAttribute
  <2>1. capacity \in Snapshots /\ disk \in Disk
    BY InfoParameters DEF InfoTypeOK, Inv, TypeOK
  <2>2. CASE name = "is_rotational"
    <3>1. PICK v \in {dev.is_rotational, disk.rotational} :
            dev' = [dev EXCEPT !.is_rotational = v]
      BY <2>2 DEF Attribute
    <3>2. ipc = "is_rotational" /\ ipc' = "is_read_only"
      BY <2>2 DEF AfterAttribute
    <3>3. InfoTypeOK'
      BY <2>1, <3>1, <3>2 DEF InfoTypeOK, Disk
    <3>4. RecordTrue' /\ RecordAgrees'
      BY <3>1, <3>2 DEF RecordTrue, RecordAgrees, Reading, InfoTypeOK
    <3> QED
      BY <1>1, <1>3, <3>3, <3>4
  <2>3. CASE name = "is_read_only"
    <3>1. PICK v \in {dev.is_read_only, disk.read_only} :
            dev' = [dev EXCEPT !.is_read_only = v]
      BY <2>3 DEF Attribute
    <3>2. ipc = "is_read_only" /\ ipc' = "capacity_bytes"
      BY <2>3 DEF AfterAttribute
    <3>3. InfoTypeOK'
      BY <2>1, <3>1, <3>2 DEF InfoTypeOK, Disk
    <3>4. RecordTrue' /\ RecordAgrees'
      BY <3>1, <3>2 DEF RecordTrue, RecordAgrees, Reading, InfoTypeOK
    <3> QED
      BY <1>1, <1>3, <3>3, <3>4
  <2>4. CASE name = "capacity_bytes"
    <3>1. PICK v \in {dev.capacity_bytes, capacity} :
            dev' = [dev EXCEPT !.capacity_bytes = v]
      BY <2>4 DEF Attribute
    <3>2. ipc = "capacity_bytes" /\ ipc' = "classify"
      BY <2>4 DEF AfterAttribute
    <3>3. InfoTypeOK'
      BY <2>1, <3>1, <3>2 DEF InfoTypeOK
    <3>4. RecordTrue' /\ RecordAgrees'
      BY <3>1, <3>2 DEF RecordTrue, RecordAgrees, Reading, InfoTypeOK
    <3> QED
      BY <1>1, <1>3, <3>3, <3>4
  <2> QED
    BY <2>2, <2>3, <2>4 DEF AfterAttribute
<1>6. CASE Classify
  <2> USE <1>6 DEF Classify
  <2>1. PICK t \in Transports(node) :
          dev' = [dev EXCEPT !.transport = t,
                             !.device_type = DeviceType(t, dev.is_rotational),
                             !.is_rotational = @ /\ t \in {"USB", "SATA"},
                             !.block = ~dev.is_read_only]
    OBVIOUS
  <2>2. t \in {"SATA", "USB", "NVME", "SD"}
    BY DEF Transports
  <2>3. /\ DeviceType(t, dev.is_rotational) \in
             {"HDD", "SATA_SSD", "NVME_SSD", "USB_HDD", "USB_FLASH", "SD_CARD"}
        /\ DeviceType(t, dev.is_rotational) \in {"HDD", "USB_HDD"} => dev.is_rotational
    BY <2>2 DEF DeviceType
  <2> DEFINE type     == DeviceType(t, dev.is_rotational)
             rotates  == dev.is_rotational /\ t \in {"USB", "SATA"}
             writable == ~dev.is_read_only
  <2>4. /\ dev' = [dev EXCEPT !.transport = t, !.device_type = type,
                              !.is_rotational = rotates, !.block = writable]
        /\ ipc = "classify" /\ ipc' = "known" /\ UNCHANGED <<node, disk, replugged>>
    BY <2>1
  <2>5. /\ type \in {"HDD", "SATA_SSD", "NVME_SSD", "USB_HDD", "USB_FLASH", "SD_CARD"}
        /\ type \in {"HDD", "USB_HDD"} => dev.is_rotational
        /\ rotates \in BOOLEAN /\ writable \in BOOLEAN
        /\ rotates => dev.is_rotational
        /\ writable = ~dev.is_read_only
    BY <2>3 DEF InfoTypeOK
  <2> HIDE DEF type, rotates, writable, Classify
  <2>6. InfoTypeOK'
    <3> DEFINE moved == [dev EXCEPT !.transport = t, !.device_type = type]
    <3>1. moved \in [is_rotational: BOOLEAN, is_read_only: BOOLEAN, capacity_bytes: Snapshots,
                     transport: {"UNKNOWN", "SATA", "USB", "NVME", "SD"},
                     device_type: {"UNKNOWN", "HDD", "SATA_SSD", "NVME_SSD", "USB_HDD",
                                   "USB_FLASH", "SD_CARD"},
                     encrypted: BOOLEAN, block: BOOLEAN, crypto: BOOLEAN, native: BOOLEAN]
      BY <2>2, <2>5 DEF InfoTypeOK
    <3>2. dev' = [moved EXCEPT !.is_rotational = rotates, !.block = writable]
      BY <2>4 DEF InfoTypeOK
    <3> HIDE DEF moved
    <3> QED
      BY <2>4, <2>5, <3>1, <3>2 DEF InfoTypeOK
  <2>7. RecordTrue' /\ RecordAgrees'
    BY <2>2, <2>4, <2>5 DEF RecordTrue, RecordAgrees, Reading, InfoTypeOK
  <2> QED
    BY <1>1, <1>3, <2>6, <2>7
<1>7. CASE Refresh
  BY <1>1, <1>3, <1>7 DEF Refresh, InfoTypeOK, RecordTrue, RecordAgrees, Reading
<1>8. CASE Recheck
  <2> USE <1>8 DEF Recheck
  <2>1. PICK ro \in {dev.is_read_only, disk.read_only} :
          dev' = [dev EXCEPT !.is_read_only = ro, !.block = ~ro]
    OBVIOUS
  <2>2. ro \in BOOLEAN
    BY DEF InfoTypeOK, Disk
  <2>3. InfoTypeOK'
    BY <2>1, <2>2 DEF InfoTypeOK
  <2>4. RecordTrue' /\ RecordAgrees'
    BY <2>1, <2>2 DEF RecordTrue, RecordAgrees, Reading, InfoTypeOK
  <2> QED
    BY <1>1, <1>3, <2>3, <2>4
<1>9. CASE Query
  <2> USE <1>9 DEF Query
  <2> DEFINE caps == Capabilities(dev.transport, disk)
  <2>1. caps.crypto \in BOOLEAN /\ caps.native \in BOOLEAN
    BY DEF Capabilities, AtaCapabilities, NvmeCapabilities, NvmeController, Sanitizes,
           InfoTypeOK, Disk
  <2>3. \/ dev' = [dev EXCEPT !.crypto = caps.crypto, !.native = caps.native,
                              !.encrypted = @ \/ caps.crypto]
        \/ dev' = dev
    OBVIOUS
  <2>4. ipc = "query" /\ ipc' = "known" /\ UNCHANGED <<node, disk, replugged>>
    OBVIOUS
  <2> HIDE DEF caps, Query
  <2>5. InfoTypeOK'
    BY <2>1, <2>3, <2>4 DEF InfoTypeOK
  <2>6. RecordTrue'
    BY <2>3, <2>4 DEF caps, RecordTrue, InfoTypeOK
  <2>7. RecordAgrees'
    BY <2>1, <2>3, <2>4 DEF RecordAgrees, Reading, InfoTypeOK
  <2> QED
    BY <1>1, <1>3, <2>5, <2>6, <2>7
<1>10. CASE SetReadOnly
  <2> USE <1>10 DEF SetReadOnly
  <2>1. /\ disk' \in Disk
        /\ disk'.rotational = disk.rotational
        /\ Capabilities(dev.transport, disk') = Capabilities(dev.transport, disk)
    <3>1. disk \in Disk
      BY DEF InfoTypeOK
    <3> QED
      BY <3>1, ReadOnlyOnly
  <2>2. InfoTypeOK'
    BY <2>1 DEF InfoTypeOK
  <2>3. RecordTrue' /\ RecordAgrees'
    BY <2>1 DEF RecordTrue, RecordAgrees
  <2> QED
    BY <1>1, <1>3, <2>2, <2>3
<1> QED
  BY <1>4, <1>5, <1>6, <1>7, <1>8, <1>9, <1>10 DEF RecordStep

\* What the steps of a call do to the sizes it works with.
LEMMA SizesKept ==
  ASSUME [Next]_vars
  PROVE  /\ capacity' = capacity
         /\ pc' \in {"mounts", "open", "size"} =>
              \/ pc \in {"mounts", "open", "size"} /\ device' = device
              \/ pc # "mounts" /\ pc' = "mounts"
         /\ pc' \in Erasing =>
              \/ pc \in Erasing /\ dev_capacity' = dev_capacity
              \/ /\ pc = "size"
                 /\ dev_capacity' \in {capacity, device.capacity_bytes} \ {0}
<1> USE DEF kernel, args, locals, Erasing
<1>1. ASSUME NEW d \in Devices, NEW p \in Patterns, NEW b \in BlockSizes,
             NEW n \in PassCounts, Call(d, p, b, n)
      PROVE  capacity' = capacity /\ pc # "mounts" /\ pc' \in {"mounts", "done"}
  BY <1>1 DEF Call, Return
<1>2. ASSUME NEW w \in 1 .. MaxBlock, WriteChunk(w)
      PROVE  /\ capacity' = capacity
             /\ pc \in Erasing /\ pc' \in Erasing /\ dev_capacity' = dev_capacity
  BY <1>2 DEF WriteChunk, WriteSectors
<1>3. CASE CheckMounts \/ Open
  BY <1>3 DEF CheckMounts, Open, Return, Continue
<1>4. CASE QuerySize
  BY <1>4 DEF QuerySize, Return, Continue
<1>5. CASE StartPass \/ FillChunk \/ WriteFails \/ SyncPass
  BY <1>5 DEF StartPass, FillChunk, WriteFails, SyncPass, Return, Continue
<1>6. CASE \/ WriteInterrupted \/ UNCHANGED vars
           \/ \E how \in {"listed", "mapped"} : Mount(how)
           \/ Unmount
           \/ \E s \in 0 .. capacity - 1 : FileSystemWrite(s)
  BY <1>6 DEF WriteInterrupted, Mount, Unmount, FileSystemWrite, vars
<1> QED
  BY <1>1, <1>2, <1>3, <1>4, <1>5, <1>6 DEF Next, Erase

\* A call works with the size in the record, or with the one the ioctl gives.
LEMMA EraserStepInv == InfoInv /\ EraserStep => InfoInv'
<1> SUFFICES ASSUME InfoInv, EraserStep PROVE InfoInv'
  OBVIOUS
<1>1. [Next]_vars /\ UNCHANGED <<node, disk, dev, ipc, replugged>>
  BY DEF EraserStep, info
<1>2. Inv'
  BY <1>1, NextInv DEF InfoInv
<1>3. capacity' = capacity
  BY <1>1, SizesKept
<1>4. InfoTypeOK' /\ RecordTrue' /\ RecordAgrees'
  BY <1>1, <1>3 DEF InfoInv, InfoTypeOK, RecordTrue, RecordAgrees
<1>5. CallKnows'
  <2> SUFFICES ASSUME ~replugged
               PROVE  /\ pc' \in {"mounts", "open", "size"} =>
                           device'.capacity_bytes \in {0, capacity}
                      /\ pc' \in Erasing => dev_capacity' = capacity
    BY <1>1, <1>3 DEF CallKnows, Erasing
  <2>1. /\ dev.capacity_bytes \in {0, capacity}
        /\ pc \in {"mounts", "open", "size"} => device.capacity_bytes \in {0, capacity}
        /\ pc \in Erasing => dev_capacity = capacity
    BY DEF InfoInv, RecordTrue, CallKnows
  <2> QED
    BY <1>1, <2>1, SizesKept DEF EraserStep
<1> QED
  BY <1>2, <1>4, <1>5 DEF InfoInv

\* Only a device that nothing has open and nothing has mounted is replaced.
LEMMA ReplugInv == InfoInv /\ Replug => InfoInv'
<1> SUFFICES ASSUME InfoInv, Replug PROVE InfoInv'
  OBVIOUS
<1> USE DEF InfoInv, Replug
<1>1. UNCHANGED <<mount, excl, pc, args, locals, result, ret>> /\ pc \notin Erasing
  BY DEF Inv, ClaimDiscipline
<1>2. Inv'
  <2>1. TypeOK'
    <3>1. capacity' \in Capacities /\ media' \in [0 .. capacity' - 1 -> Content]
      BY DEF Content
    <3> QED
      BY <1>1, <3>1 DEF Inv, TypeOK, args, locals, result
  <2>2. ClaimDiscipline' /\ ProgressIsReal'
    BY <1>1 DEF Inv, ClaimDiscipline, ProgressIsReal, LoopAccounts, BehindOffsetErased,
                PassesErased, Erasing, args, locals, result
  <2> QED
    BY <2>1, <2>2 DEF Inv
<1>3. InfoTypeOK'
  BY InfoParameters DEF InfoTypeOK
<1>4. RecordTrue' /\ CallKnows'
  BY DEF RecordTrue, CallKnows
<1>5. RecordAgrees'
  BY DEF RecordAgrees
<1> QED
  BY <1>2, <1>3, <1>4, <1>5

LEMMA InfoNextInv == InfoInv /\ [InfoNext]_ivars => InfoInv'
BY StepKinds, RecordStepInv, EraserStepInv, ReplugInv DEF InfoInv

LEMMA InfoInvHolds == InfoSpec => []InfoInv
BY InfoInit_InfoInv, InfoNextInv, PTL DEF InfoSpec

\* Whichever reads of device_get_info and device_refresh_capabilities fail,
\* until the device is replaced the record has its capacity or 0, calls it
\* rotating only if it is, and gives it no crypto or native capability that its
\* IDENTIFY data do not.  That an unread attribute makes it pass for flash, SATA
\* or writable is not excluded.
THEOREM RecordErrsOneWay == InfoSpec => []ReadsErrOneWay
<1>1. InfoInv => ReadsErrOneWay
  BY DEF InfoInv, Inv, RecordTrue, RecordAgrees, ReadsErrOneWay
<1> QED
  BY <1>1, InfoInvHolds, PTL

\* What was proved of block_erase_device holds where the caller takes the
\* device from such a record, and where devices are replaced between the calls.
THEOREM PromisesKept ==
  InfoSpec => /\ []ClaimDiscipline
              /\ []ProgressIsReal
              /\ NeverWritesMounted
              /\ OkMeansErased
<1>1. InfoInv /\ [InfoNext]_ivars =>
        [pc = "write" /\ media' # media => mount = "none" /\ mount' = "none"]_vars
  <2> SUFFICES ASSUME InfoInv, [InfoNext]_ivars
               PROVE  [pc = "write" /\ media' # media =>
                         mount = "none" /\ mount' = "none"]_vars
    OBVIOUS
  <2>1. CASE [Next]_vars
    BY <2>1, WritesUnmounted DEF InfoInv
  <2>2. CASE Replug
    BY <2>2 DEF Replug, InfoInv, Inv, ClaimDiscipline, Erasing
  <2> QED
    BY <2>1, <2>2, StepKinds DEF InfoInv, EraserStep
<1>2. InfoInv /\ [InfoNext]_ivars =>
        [pc # "done" /\ ret' = "OK" =>
           /\ dev_capacity <= capacity
           /\ \A s \in Covered : media'[s] = opts.pattern
           /\ passes_completed' = opts.passes
           /\ bytes_written' = opts.passes * dev_capacity]_vars
  <2> SUFFICES ASSUME InfoInv, [InfoNext]_ivars
               PROVE  [pc # "done" /\ ret' = "OK" => Erased]_vars
    BY DEF Erased
  <2>1. CASE [Next]_vars
    BY <2>1, OkErases DEF InfoInv
  <2>2. CASE Replug
    BY <2>2 DEF Replug, InfoInv, Inv, ProgressIsReal, LoopAccounts
  <2> QED
    BY <2>1, <2>2, StepKinds DEF InfoInv, EraserStep
<1>3. InfoInv => ClaimDiscipline /\ ProgressIsReal
  BY DEF InfoInv, Inv
<1> QED
  BY <1>1, <1>2, <1>3, InfoInvHolds, PTL DEF InfoSpec, NeverWritesMounted, OkMeansErased

\* ERASECURE_OK for a device that is still the one in the record: every sector
\* of it is overwritten, whichever size the call went by.
THEOREM WholeDeviceIsErased == InfoSpec => WholeDeviceErased
<1>1. InfoInv /\ [InfoNext]_ivars =>
        [pc # "done" /\ ret' = "OK" /\ ~replugged =>
           \A s \in DOMAIN media : media'[s] = opts.pattern]_ivars
  <2> SUFFICES ASSUME InfoInv, [InfoNext]_ivars, pc # "done", ret' = "OK", ~replugged
               PROVE  \A s \in DOMAIN media : media'[s] = opts.pattern
    OBVIOUS
  <2>1. ret = "none"
    BY DEF InfoInv, Inv, ProgressIsReal, LoopAccounts
  <2>2. [Next]_vars /\ ret' # ret
    BY <2>1, StepKinds DEF InfoInv, EraserStep, Replug, vars
  <2>3. SyncPass /\ Erased
    BY <2>2, OkErases DEF InfoInv, vars
  <2>4. dev_capacity = capacity
    BY <2>3 DEF SyncPass, Erasing, InfoInv, CallKnows
  <2>5. DOMAIN media = 0 .. capacity - 1
    BY DEF InfoInv, Inv, TypeOK
  <2>6. \A s \in DOMAIN media : s < dev_capacity
    BY <2>4, <2>5, DeviceParameters DEF InfoInv, Inv, TypeOK
  <2> QED
    BY <2>3, <2>6 DEF Erased, Covered
<1> QED
  BY <1>1, InfoInvHolds, PTL DEF InfoSpec, WholeDeviceErased
=============================================================================
