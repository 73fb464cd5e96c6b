---------------------------- MODULE DeviceErase -----------------------------
(***************************************************************************)
(* block_erase_device: overwriting a physical block device, beside a       *)
(* kernel that other processes ask to mount and unmount it.                *)
(*                                                                         *)
(* One process calls block_erase_device again and again.  The other actor  *)
(* is the rest of the machine: it mounts the device (under its own path,   *)
(* which /proc/mounts shows, or through a mapping that device_is_mounted   *)
(* does not recognise), lets the file system write, and unmounts it.       *)
(* A mount and an O_EXCL open exclude one another in the kernel; a look at *)
(* /proc/mounts excludes nothing.                                          *)
(***************************************************************************)
EXTENDS EraseOptions

CONSTANTS
  Capacities,   \* the sizes a device may have, in sectors (not zero)
  Snapshots,    \* the values of StorageDevice.capacity_bytes a caller may hold
  BlockSizes,   \* the values of BlockEraseOptions.block_size
  PassCounts,   \* the values of BlockEraseOptions.passes
  Patterns      \* the values of BlockEraseOptions.pattern

ASSUME DeviceParameters ==
  /\ Capacities \subseteq Nat \ {0}
  /\ Snapshots \subseteq Nat
  /\ BlockSizes \subseteq Nat
  /\ PassCounts \subseteq Nat
  /\ Patterns \subseteq ErasePattern

VARIABLES
  capacity,          \* the sectors the device really has
  media,             \* what each sector holds
  mount,             \* "none", "listed" (in /proc/mounts under its path) or "mapped"
  excl,              \* the eraser holds the device open with O_EXCL
  pc,                \* where the call to block_erase_device is
  device,            \* the caller's StorageDevice snapshot and confirmation
  opts,              \* BlockEraseOptions, clamped where the code clamps them
  dev_capacity,      \* the capacity the pass loop works with
  offset,            \* the file offset of fd
  remaining,         \* sectors of the pass not yet counted as written
  chunk,             \* sectors in the current chunk
  chunk_written,     \* sectors of the chunk written so far
  bytes_written,     \* bytes_written_total, in sectors
  passes_completed,
  ret                \* the call's return value, "none" before it returns

kernel == <<capacity, mount>>
args   == <<device, opts>>
locals == <<dev_capacity, offset, remaining, chunk, chunk_written>>
result == <<bytes_written, passes_completed>>
vars   == <<kernel, media, excl, pc, args, locals, result, ret>>

Devices == [confirmed: BOOLEAN, is_block: BOOLEAN, is_read_only: BOOLEAN,
            capacity_bytes: Snapshots]

\* The codes a call returns before it has written anything.
Refusals == {"CONFIRMATION", "NOT_A_DEVICE", "DEVICE_READ_ONLY", "DEVICE_MOUNTED",
             "PERMISSION_DENIED", "DEVICE_BUSY", "OPEN_FAILED", "DEVICE_SCAN_FAIL",
             "ALLOC"}

\* The codes of a pass loop that stopped half way.
Failures == {"SEEK_FAILED", "CRYPTO", "WRITE_FAILED", "SYNC_FAILED"}

Erasing == {"seek", "fill", "write"}

\* block_erase_options_init.
DefaultOpts == [pattern    |-> ZERO,
                block_size |-> DefaultBlock,
                passes     |-> DefaultPasses]

\* The arguments between two calls.
NoDevice == [confirmed |-> FALSE, is_block |-> FALSE, is_read_only |-> FALSE,
             capacity_bytes |-> 0]

TypeOK ==
  /\ capacity \in Capacities
  /\ media \in [0 .. capacity - 1 -> Content]
  /\ mount \in {"none", "listed", "mapped"}
  /\ excl \in BOOLEAN
  /\ pc \in {"idle", "mounts", "open", "size", "done"} \cup Erasing
  /\ device \in Devices \cup {NoDevice}
  /\ opts \in [pattern: ErasePattern, block_size: Nat \ {0}, passes: Nat \ {0}]
  /\ dev_capacity \in Nat
  /\ offset \in Nat
  /\ remaining \in Nat
  /\ chunk \in Nat
  /\ chunk_written \in Nat
  /\ bytes_written \in Nat
  /\ passes_completed \in Nat
  /\ ret \in {"none", "OK"} \cup Refusals \cup Failures

-----------------------------------------------------------------------------
(* The eraser. *)

\* Mutant of Return: an exit that leaves the descriptor open.
ReturnLeaking(code) ==
  /\ pc' = "done"
  /\ ret' = code
  /\ device' = NoDevice
  /\ opts' = DefaultOpts
  /\ dev_capacity' = 0
  /\ offset' = 0
  /\ remaining' = 0
  /\ chunk' = 0
  /\ chunk_written' = 0
  /\ UNCHANGED excl

\* close(fd), where a descriptor is open, and return.  The result record
\* stays with the caller, the arguments and locals of the call are gone.
Return(code) ==
  /\ pc' = "done"
  /\ ret' = code
  /\ excl' = FALSE
  /\ device' = NoDevice
  /\ opts' = DefaultOpts
  /\ dev_capacity' = 0
  /\ offset' = 0
  /\ remaining' = 0
  /\ chunk' = 0
  /\ chunk_written' = 0

\* Go on with the same arguments.
Continue(label) ==
  /\ pc' = label
  /\ UNCHANGED <<ret, excl, args>>

\* The first failing safety check of the three that look at the arguments only.
ArgumentCheck(d) ==
  IF ~d.confirmed THEN "CONFIRMATION"
  ELSE IF ~d.is_block THEN "NOT_A_DEVICE"
  ELSE IF d.is_read_only THEN "DEVICE_READ_ONLY" ELSE "OK"

\* Entry: the result record is cleared, then checks 1 to 3.
Call(d, pattern, block_size, passes) ==
  /\ pc \in {"idle", "done"}
  /\ bytes_written' = 0
  /\ passes_completed' = 0
  /\ IF ArgumentCheck(d) = "OK"
       THEN /\ pc' = "mounts"
            /\ ret' = "none"
            /\ device' = d
            /\ opts' = [pattern    |-> pattern,
                        block_size |-> ClampBlockSize(block_size),
                        passes     |-> ClampPasses(passes)]
            /\ UNCHANGED <<excl, locals>>
       ELSE Return(ArgumentCheck(d))
  /\ UNCHANGED <<kernel, media>>

\* What device_is_mounted may report: a mount under the device's own path or
\* a partition of it, and "not mounted" when the mount table cannot be opened.
ReportedMounted == {FALSE} \cup {mount = "listed"}

\* Check 4: the mount table is read at one moment, used at later ones.
CheckMounts ==
  /\ pc = "mounts"
  /\ \E is_mounted \in ReportedMounted :
       IF is_mounted
         THEN Return("DEVICE_MOUNTED")
         ELSE Continue("open") /\ UNCHANGED locals
  /\ UNCHANGED <<kernel, media, result>>

\* Mutant of Open: without O_EXCL a device mounted since the check is opened.
OpenShared ==
  /\ pc = "open"
  /\ \/ Continue("size") /\ UNCHANGED locals
     \/ \E code \in {"PERMISSION_DENIED", "OPEN_FAILED"} : Return(code)
  /\ UNCHANGED <<kernel, media, result>>

\* open(O_RDWR | O_SYNC | O_EXCL): the kernel refuses a claimed device.
Open ==
  /\ pc = "open"
  /\ \/ /\ mount = "none"
        /\ excl' = TRUE
        /\ pc' = "size"
        /\ UNCHANGED <<ret, args, locals>>
     \/ /\ mount # "none"
        /\ Return("DEVICE_BUSY")
     \/ \E code \in {"PERMISSION_DENIED", "OPEN_FAILED"} : Return(code)
  /\ UNCHANGED <<kernel, media, result>>

\* BLKGETSIZE64 overrides the snapshot when the ioctl works; then malloc.
QuerySize ==
  /\ pc = "size"
  /\ \E size \in {capacity, device.capacity_bytes} :
       \/ size = 0 /\ Return("DEVICE_SCAN_FAIL")
       \/ size > 0 /\ Return("ALLOC")
       \/ /\ size > 0
          /\ dev_capacity' = size
          /\ Continue("seek")
          /\ UNCHANGED <<offset, remaining, chunk, chunk_written>>
  /\ UNCHANGED <<kernel, media, result>>

\* The head of the pass loop: rewind and start on the whole device.
StartPass ==
  /\ pc = "seek"
  /\ \/ /\ offset' = 0
        /\ remaining' = dev_capacity
        /\ Continue("fill")
        /\ UNCHANGED <<dev_capacity, chunk, chunk_written>>
     \/ Return("SEEK_FAILED")
  /\ UNCHANGED <<kernel, media, result>>

\* The head of the chunk loop: choose the chunk and fill the buffer.
FillChunk ==
  /\ pc = "fill"
  /\ remaining > 0
  /\ \E outcome \in FillOutcomes(opts.pattern) :
       IF outcome = "OK"
         THEN /\ chunk' = ChunkSize(remaining, opts.block_size)
              /\ chunk_written' = 0
              /\ Continue("write")
              /\ UNCHANGED <<dev_capacity, offset, remaining>>
         ELSE Return(outcome)
  /\ UNCHANGED <<kernel, media, result>>

\* One write() takes w sectors of the chunk, as many as it likes and the
\* device has room for.
WriteSectors(w) ==
  /\ pc = "write"
  /\ chunk_written + w <= chunk
  /\ offset + w <= capacity
  /\ media' = [s \in DOMAIN media |->
                 IF s >= offset /\ s < offset + w THEN opts.pattern ELSE media[s]]
  /\ offset' = offset + w
  /\ UNCHANGED <<kernel, excl, args, dev_capacity, chunk, passes_completed, ret>>

\* Mutant of WriteChunk: a partial write taken for the whole chunk.
WriteChunkOnce(w) ==
  /\ WriteSectors(w)
  /\ chunk_written' = chunk
  /\ bytes_written' = bytes_written + chunk
  /\ remaining' = remaining - chunk
  /\ pc' = "fill"

\* The write loop of one chunk, which is counted once it is complete.
WriteChunk(w) ==
  /\ WriteSectors(w)
  /\ chunk_written' = chunk_written + w
  /\ IF chunk_written' = chunk
       THEN /\ bytes_written' = bytes_written + chunk
            /\ remaining' = remaining - chunk
            /\ pc' = "fill"
       ELSE UNCHANGED <<bytes_written, remaining, pc>>

\* write() is interrupted by a signal and tried again.
WriteInterrupted ==
  /\ pc = "write"
  /\ UNCHANGED vars

\* Mutant of WriteFails: a write() that returns 0 is tried again, for ever at
\* the end of the device.
WriteZeroRetried ==
  /\ pc = "write"
  /\ offset < capacity
  /\ Return("WRITE_FAILED")
  /\ UNCHANGED <<kernel, media, result>>

\* write() fails or returns 0, as it must at the end of the device.
WriteFails ==
  /\ pc = "write"
  /\ Return("WRITE_FAILED")
  /\ UNCHANGED <<kernel, media, result>>

\* The tail of the pass: fsync, then the next pass or the end of the loop.
SyncPass ==
  /\ pc = "fill"
  /\ remaining = 0
  /\ \/ /\ passes_completed' = passes_completed + 1
        /\ IF passes_completed' < opts.passes
             THEN Continue("seek") /\ UNCHANGED locals
             ELSE Return("OK")
     \/ Return("SYNC_FAILED") /\ UNCHANGED passes_completed
  /\ UNCHANGED <<kernel, media, bytes_written>>

-----------------------------------------------------------------------------
(* The rest of the machine. *)

\* The kernel mounts a device nobody holds exclusively.
Mount(how) ==
  /\ mount = "none"
  /\ ~excl
  /\ mount' = how
  /\ UNCHANGED <<capacity, media, excl, pc, args, locals, result, ret>>

Unmount ==
  /\ mount # "none"
  /\ mount' = "none"
  /\ UNCHANGED <<capacity, media, excl, pc, args, locals, result, ret>>

\* The mounted file system stores something.
FileSystemWrite(s) ==
  /\ mount # "none"
  /\ media' = [media EXCEPT ![s] = DATA]
  /\ UNCHANGED <<kernel, excl, pc, args, locals, result, ret>>

-----------------------------------------------------------------------------
Init ==
  /\ capacity \in Capacities
  /\ media = [s \in 0 .. capacity - 1 |-> DATA]
  /\ mount = "none"
  /\ excl = FALSE
  /\ pc = "idle"
  /\ device = NoDevice
  /\ opts = DefaultOpts
  /\ dev_capacity = 0
  /\ offset = 0
  /\ remaining = 0
  /\ chunk = 0
  /\ chunk_written = 0
  /\ bytes_written = 0
  /\ passes_completed = 0
  /\ ret = "none"

Erase ==
  \/ CheckMounts
  \/ Open
  \/ QuerySize
  \/ StartPass
  \/ FillChunk
  \/ \E w \in 1 .. MaxBlock : WriteChunk(w)
  \/ WriteFails
  \/ SyncPass

Next ==
  \/ \E d \in Devices, p \in Patterns, b \in BlockSizes, n \in PassCounts :
       Call(d, p, b, n)
  \/ Erase
  \/ WriteInterrupted
  \/ \E how \in {"listed", "mapped"} : Mount(how)
  \/ Unmount
  \/ \E s \in 0 .. capacity - 1 : FileSystemWrite(s)

Spec == Init /\ [][Next]_vars

\* The eraser's thread is scheduled; nothing is assumed of the mounts, and an
\* interrupted write() leaves the write() that follows it possible.
FairSpec == Spec /\ WF_vars(Erase)

-----------------------------------------------------------------------------
(* What the code must guarantee. *)

\* The sectors the pass loop is responsible for.
Covered == {s \in DOMAIN media : s < dev_capacity}

\* The exclusive descriptor is held from open() to the return on whichever
\* path, error paths included, and excludes every mount for that long.
ClaimDiscipline ==
  /\ excl <=> pc \in {"size"} \cup Erasing
  /\ excl => mount = "none"

\* The loop variables, the file offset and the byte count agree.
LoopAccounts ==
  /\ pc # "done" => ret = "none"
  /\ pc \in {"mounts", "open", "size"} => bytes_written = 0 /\ passes_completed = 0
  /\ pc \in Erasing => dev_capacity > 0 /\ passes_completed < opts.passes
  /\ pc = "seek" => bytes_written = passes_completed * dev_capacity
  /\ pc \in {"fill", "write"} =>
       /\ remaining <= dev_capacity
       /\ offset <= capacity
       /\ bytes_written = passes_completed * dev_capacity + (dev_capacity - remaining)
  /\ pc = "fill" => offset = dev_capacity - remaining
  /\ pc = "write" => /\ chunk <= remaining
                     /\ chunk_written < chunk
                     /\ offset = (dev_capacity - remaining) + chunk_written

\* What is behind the file offset holds the pattern.
BehindOffsetErased ==
  pc \in {"fill", "write"} =>
    \A s \in DOMAIN media : s < offset => media[s] = opts.pattern

\* A completed pass covered the whole device.
PassesErased ==
  pc \in Erasing /\ passes_completed > 0 =>
    /\ dev_capacity <= capacity
    /\ \A s \in Covered : media[s] = opts.pattern

\* At every moment of the pass loop the result record overstates nothing: the
\* count of bytes and of passes is matched by pattern on the media.
ProgressIsReal ==
  /\ LoopAccounts
  /\ BehindOffsetErased
  /\ PassesErased

\* No write of block_erase_device reaches a device that is mounted, however
\* the mount got there and whatever the mount table said: the check is made
\* once, early, and only O_EXCL keeps its answer true.
NeverWritesMounted ==
  [][pc = "write" /\ media' # media => mount = "none" /\ mount' = "none"]_vars

\* A call that returns ERASECURE_OK has overwritten every sector it took the
\* device to have, each of the requested number of times.
OkMeansErased ==
  [][pc # "done" /\ ret' = "OK" =>
       /\ dev_capacity <= capacity
       /\ \A s \in Covered : media'[s] = opts.pattern
       /\ passes_completed' = opts.passes
       /\ bytes_written' = opts.passes * dev_capacity]_vars

\* Every call returns, interrupted writes and racing mounts included.
CallReturns == pc \notin {"idle", "done"} ~> pc = "done"

=============================================================================
