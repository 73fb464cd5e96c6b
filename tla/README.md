# A verification project for secure_eraser

TLA+ models of `src/secure_eraser`, a C program that overwrites devices, images
and files, verifies the result, keeps an audit trail, and carves files out of
evidence images. This directory holds the models, the TLC configurations that
check them on small instances, and TLAPS proofs of theorems about them.
`PROJECT.json` lists every run, the lines each definition models, the hazards
and the theorems.

## 1. Inventory

Paths are below `src/secure_eraser/src`.

| Component | State | Operations | What makes it hard | What makes it correct |
|---|---|---|---|---|
| Block erase of devices (`sanitization/block_erase.c:247-443`) | an open descriptor, offset, counters of the pass | `block_erase_device` | other processes mount the device between check and open; short and interrupted writes; a stale capacity; many returns | never writes a mounted device, always closes, `ERASECURE_OK` only for a device that was overwritten, returns |
| Block erase of images (`block_erase.c:96-240`) | a stdio stream per pass | `block_erase_image` | stdio buffer, page cache, power failure; the image grows or is written meanwhile | a counted pass and `ERASECURE_OK` are on the disk |
| Verification (`sanitization/verification.c`) | counters | `verify_image_pattern`, full or sampled | partial last block, sample sizes, read errors in the middle | a completed pass means the pattern was read where the mode promises |
| Sanitizer dispatch (`sanitization/sanitizer.c`, `hdd/`, `ssd/`, `portable/`) | none | `sanitizer_run`, one handler per kind of device | the verdict of one step must reach the result of the whole | the result tells what was done |
| Worker pool (`recovery/worker_pool.c`) | a ring of tasks, `active_tasks`, `shutdown`, three condition variables | submit, wait_idle, destroy, the worker thread | lost wakeups, wakeups of the wrong thread, tasks that submit, shutdown with work queued | each accepted task runs once, in order; bounded; every call returns; nothing is used after free |
| Candidate queue (`recovery/promising_queue.c`) | a heap of candidates, `shutdown`, one condition variable | enqueue, dequeue, requeue, remove, update_priority, shutdown, destroy | removal from the middle, growth, lost wakeups, shutdown | a heap always; the most urgent leaves first; shutdown releases everyone |
| File mirror (`recovery/file_mirror.c`) | mask of covered blocks, `apparent_blocks` | mark, unmark, translate, read | count and mask are kept apart | the two numberings are inverse to each other |
| Block map (`recovery/blockmap.c`) | primary and shadow map, a lock | setters, compute_hashes, find_duplicates, merge, counts | readers without the lock, two critical sections per hash, unstable sort | readers see one committed state, hashes and duplicate links are true |
| Discovery and file types (`recovery/discovery.c`, `file_type_registry.c`) | arrays of types, signatures and hits | register, scan, query by type | failed allocations and reads are passed over in silence; matches at block ends; offsets or searches | every hit is in the image; a scan finds all it could read and store |
| Candidates (`recovery/blockvector.c`, `carve_state.c`) | a growing array of slots with flags | append, go back, mark, clone, free | slots are used again; `realloc` leaves garbage | a vector is a stack of blocks, a clone is independent |
| Recovery case (`recovery/recovery_engine.c`, `recovery_api.c`, `checkpoint.c`) | pause and cancel flags, a checkpoint file | create, start, pause, resume, cancel, progress, close, save, load | flags read without their lock; checkpoints that truncate first | a report says something that was so; a cancelled case is reported so; only a whole checkpoint loads |
| File eraser (`file_eraser/file_eraser.c`, `file_verify.c`) | one descriptor, counters | `file_erase`, `file_verify_pattern` | the path changes between lstat, open, verification and unlink; short writes | overwrites all of the open file; never follows a link; unlinks what it overwrote |
| Folder eraser (`file_eraser/folder_eraser.c`) | a table of directories seen, one activation per directory | `folder_erase` | the tree changes; errors below are dropped; mounts and trees mounted below themselves; bounded table; links put for directories | when the root is gone its files were erased; only what is below the root is overwritten; the walk ends |
| Audit trail (`audit/audit.c`, `audit_log.c`) | a file of JSON lines; a SQLite table | finalize, append, validate_chain, insert | several writers, failing appends, cut lines, lost and changed lines | a log written in turns is valid; a valid log is unbroken |
| Device information (`device/`, `ata/`, `nvme/`) | a `StorageDevice`, which the caller keeps | scan, get_info, classify, refresh | each sysfs read and query may fail; the device is replaced; the record is stale when it is used | what could not be read is not left from another device, and never claims a size, rotation or capability the device has not |
| Command line (`ui/cli.c`) | none that lasts | erase an image, verify one, list, show | the exit code is decided from several results | exit code 0 means erased, or verified |
| Crypto (`crypto/`, `sanitization/crypto_erase.c`), test images (`testing/`) | none that lasts | | | |

The command line calls `block_erase_image` and `verify_image_pattern` itself. The
dispatch calls block erase, then verification, with the caller's
`StorageDevice`, which `device_get_info` made. The folder eraser calls the file
eraser for every file. A program that carves registers the signatures of the
file types with the discovery engine, scans, and begins a candidate at a hit. The
recovery engine owns a mirror, a block map, a candidate queue and a worker pool;
its phases are stubs at this commit, so the components below it are modelled from
their own code, with callers that use them as the headers and `tests/` allow.
`PROJECT.json` ("components") says of every part whether it is modelled.

## 2. Plan

| | Modules | State |
|---|---|---|
| A | `EraseOptions`, `DeviceErase`, `DeviceEraseProofs`, `ImageErase`, `ImageEraseProofs`, `ImageVerify` | done |
| B | `TaskPool` (what `worker_pool.h` promises), `WorkerPool` (refines it) | done |
| C | `PromisingQueue`, `PromisingQueueProofs` | done |
| D | `FileErase` | done |
| E | `FileMirror`, `Blockmap` (extends `FileMirror`) | done |
| F | `AuditLog`, `PersistenceProofs` | done |
| H | `Sanitizer` (extends `ImageVerify`), `Cli` (extends `Sanitizer`) | done |
| I | `FolderErase`, `PersistenceProofs` | done |
| J | `RecoveryCase`, `PersistenceProofs`; `Discovery`, `SlotStack` (what a block vector promises), `Carving` (extends `Discovery`, refines `SlotStack`), `CarvingProofs` | done |
| L | `DeviceInfo` (extends `DeviceErase`): names, types, IDENTIFY data, the record | done |
| G | `WorkerPoolProofs`: the pool's counters, its end, and the refinement of `TaskPool` | done |
| K | `FileEraseProofs`, `BlockmapProofs`; verification, the dispatch and the command line in `ImageEraseProofs` | done |
| M | `DeviceInfo`'s record and the erasure of what it describes, in `DeviceEraseProofs`; `Discovery`'s hits and scans, in `CarvingProofs` | done |
| N | proofs of `AuditLog` and `FolderErase`, beside those of `RecoveryCase`, in `PersistenceProofs` | done |
| O | `Blockmap`'s duplicates, in `BlockmapProofs` | done |

Recursion is by recursive functions and folds throughout, so that every module
can be extended by a module of proofs.

## 3. Models

**EraseOptions** has what both erase loops share: the clamps of block size and
passes, the outcomes of filling a buffer (the random generator may fail), the size of a
chunk. Sizes are counted in sectors.

**DeviceErase** follows `block_erase_device` step by step: `Call` (arguments and
refusals), `CheckMounts` (`/proc/mounts`), `Open` (`O_EXCL`), `QuerySize`,
`StartPass`, `FillChunk`, `WriteChunk`, `WriteInterrupted`, `WriteFails`,
`SyncPass`. The environment mounts, unmounts, and lets a mounted file system
write. A mount may be listed under the device's path or be invisible to
`device_is_mounted` (a mapping, or no mount table). The kernel lets neither
`O_EXCL` open and mount coexist; a look at `/proc/mounts` excludes nothing.

**DeviceInfo** extends it with where the `StorageDevice` comes from. `GetInfo`
(`device_get_info`, also through `Scan`) clears the record, `ReadAttribute` is one
sysfs file, read or not, `Classify` derives the rest from the name and the
rotational flag; `Refresh`, `Recheck` and `Query` are
`device_refresh_capabilities`, with every way an SG_IO or NVMe admin command may
end. `EraseKnown` erases with the record. `Replug` gives the name to another
device, whenever nothing has the old one open; `SetReadOnly` changes the flag that
two of the reads look at. What failed reads leave in a record is the zero of
`device_init`, which errs one way only (`ReadsErrOneWay`): the capacity may be 0, but
a disk that could not be read may also pass for flash, for writable or for SATA.

**ImageErase** follows `block_erase_image` with three places a sector can be:
the stdio buffer of the pass, the page cache, the disk. `FlushOne` and
`WriteBack` move sectors at any time, `Flushed` at `fflush`/`fclose`, `SyncPass`
at `fsync`. `PowerFailure` leaves what is on the disk. `ForeignWrite` and
`ForeignAppend` are another process with the image open.

**ImageVerify** extends `ImageErase` with `verify_image_pattern`: `VerifyCall`
(arguments, `stat`), `VerifyOpen` (block count and sample step), `VerifyBlock`,
`VerifyBreak` (a failed seek or read), `VerifyEnd`.

**Sanitizer** extends `ImageVerify` with `sanitizer_run`. `RunImage` clears the
result and calls `block_erase_image` on the path; `AfterErase` goes on to
`verify_image_pattern` where the erasure was `ERASECURE_OK`, a mode was asked for
and the type of the device is known; `AfterVerify` returns the erasure's code and
leaves the verdict in the result. `RunDevice` is `block_erase_device` as one step
that ends in any of its codes (its steps are `DeviceErase`; it shares no state
with an image), `RunStub` the methods that erase nothing.

**Cli** extends `Sanitizer` with `cli_run`: a process is one command, what it
leaves is the image and an exit code, and commands alternate with programs that
call `sanitizer_run`. `Passes` and `BlockSize` are what the arguments are parsed
to, which is not what `block_erase_image` would make of them. `AfterErasure`,
`AfterCheck` and `AfterVerification` decide the exit code.

**TaskPool** states what `worker_pool.h` promises: a bounded sequence of pending
tasks, each run once, in order of submission; idle means nothing pending and
nothing running. **WorkerPool** is the code: the ring with head, tail and count,
`active_tasks`, and for each thread the condition variable it waits on. Waiting
releases the mutex, so every action is the code between two waits, under the
mutex; `Signal` wakes any one waiter, `Broadcast` all, and waiters may wake
spuriously. `KeepsPromises` is `TaskPool!Spec` with `pending` mapped to the ring's
contents in order and `running` to the tasks in the hands of threads.

**PromisingQueue** is the heap as an array (`HeapifyUp`, `HeapifyDown` as the
loops compare and swap, by recursive functions of an array and an index in it) and the threads in and out of
`promising_queue_dequeue`. `Destroy` waits for nobody, so its owner must: the
model destroys the queue when no thread is inside.

**FileErase** has three files and a path. The other process puts another file, a
link to the third, a directory or nothing at the path, and writes to files, at
any time. `OpenFile` opens with `O_NOFOLLOW`; `WriteSome` writes part of a chunk;
`VerifyOpen` opens the *path* again; `Finish` unlinks the path.

**FolderErase** is the recursion as a stack of activations over a small tree of
directories, files, links and device files. A path resolves name by name at the
moment it is used (`Leads`; `Resolves` where the last component must be no link), so
an entry that was moved meanwhile is missed, unless a link to it was left under its
name (`Relocate`): then the walk goes on where the directory is now. `ReadEntry`
returns what was there at `opendir`, and perhaps what was put in since. `Enter`
is the head of the recursive function: depth, file system, cycle, the table of
directories seen. `Return` drops the code of an inner activation, as the code
does. `EraseEntry` is `file_erase` by its outcomes. Mounts, and directories mounted below
themselves, are part of the initial trees (`Binds`, `Dev`).

**FileMirror** is the mask, the count and the two translations. The loops of the
translations count uncovered blocks, and are modelled by the cardinality they
compute. `file_mirror.c` has no lock, so its callers take turns.
**Blockmap** extends it. Setters are one step each, since each is one critical
section; a merge holds the lock over one step per entry. The engine runs
`blockmap_compute_hashes` (hash and zero flag in separate steps) and
`blockmap_find_duplicates` (any order `qsort` may leave) once; workers cover
blocks and merge.

**AuditLog** has the file as lines of pieces: an append that is cut short leaves
a piece without newline, and the next record continues the line, where `strstr`
finds the first key. A hash is modelled as its preimage. Writers take the
previous hash from the file when they start and from their own record later.
`AppendFails` returns an error and leaves the record with its writer, who may append
it again; `AppendCut` returns `ERASECURE_OK` for a part of one, as `fclose` is not
looked at. `ChangeFields` and `ChangeLink` are edits of what a record says and of the
text of its hashes. `behind` has the writers that append to a predecessor that is no
longer the last record, and `incidents` what happened to the log besides appends in
turn: each property says which incidents it holds through.

**RecoveryCase** has the flags of the engine, the threads of a front end, and the
checkpoint file as programs see it and as it is on the disk. `ReadFlags`,
`ReadRunning` and `Report` are the reads of `recovery_get_progress`, one step
each, since they are not under `state_lock`. They are plain loads: of the two that
are stored in the report `paused` comes first, as the code has it and compilers
leave it (the other order fails, as the mutant of `ReadFlags` shows); the two of
`is_running`, with no store between them, come in either order, and either may be the
value loaded before. `CreateCase` may fail, and then there is no case. `window` is the history that says
what phases a case was in while a poll ran. `SaveOpen` truncates, `SaveClose`
writes the header whole, in part or not at all, and the answer may be
`ERASECURE_OK` in each case; `Writeback` and `Stop` are the machine.

**Discovery** registers the seven built-in types and those of the caller, hands
their signatures on and scans block by block, signature by signature. `Fail` is
an allocation or a read that fails, the scan's buffer among them; the histories `unread` and `lost` say what a
scan had to pass over. `FirstMatch` is `memmem_fallback`. The bytes of the magic
numbers are the code's.

**SlotStack** is what a block vector promises: a stack of blocks, where what is
pushed is neither tried nor valid. **Carving** extends `Discovery` with the
candidate begun at a hit, and has the whole array of each vector: going back
leaves the slots, and `realloc` adds arbitrary ones (`Grow`), also to the array of a
vector that was freed. `VectorIsStack` is
`SlotStack!Spec` with the stack mapped to the slots below the length.

## 4. Runs

| Run | Bounds, and why they are enough | Shows |
|---|---|---|
| `device_erase` (1.0 M states) | devices of 2 and 3 sectors, so that a pass has a whole and a partial chunk; one that encrypts and one that does not; a USB disk and an NVMe partition; passes clamped from 0 and from above the maximum; replaced at any time | failed reads make a record err one way only; the claim of the device is given up on every path; no write hits a mounted device; `ERASECURE_OK` means every sector of the capacity the call found, and of the device, was overwritten; the call returns |
| `sanitizer` (0.3 M) | an image of 0 or 1 sectors that may grow to 2: partial last block, several chunks, growth during the pass; two passes, or more than allowed; one power failure at any point leaves any later one similar; a hard disk, a card and an unknown device, which differ in verification and stubs | durability of passes, of `ERASECURE_OK` and of exit code 0; what a finished verification, and its exit code, is worth; erase and verification agree |
| `worker_pool` (37 k) | two threads, two clients, three tasks of which one submits another, rings of one and two slots: full, empty, wrapped; spurious wakeups | refinement of `TaskPool`, accepted tasks run, calls return, nothing after free |
| `candidate_heap` (45 k) | six candidates, three priorities: the smallest heap in which a removal must sift up; symmetric in candidates | heap order, most urgent first |
| `candidate_queue` (91 k) | three threads, three candidates, initial capacity one, so the array grows | shutdown and enqueue leave no thread asleep |
| `file_erase` (1.2 M) | files of up to two sectors written in one or two writes, none or two passes, all kinds of swaps | what is overwritten, followed, verified and unlinked |
| `folder_erase` (0.2 M) | five trees of two levels: files, a link and a device file, a mounted file system, the root and a subdirectory mounted below themselves; a table of one directory, which the second one fills; depth 0 and 2; one change by the other process, at any moment and anywhere, a directory moved away behind a link among them | when the root is gone its files were erased; what is outside is overwritten only through such a link, what is across a mount that is not followed never; no directory that is in the table is walked twice at once, and the depth is bounded |
| `block_map` (0.4 M) | three blocks, the last perhaps beyond the image; a group of three equal blocks, two groups, a zero block between equals; one worker | atomic commits, true hashes, duplicate links, monotone progress, the two numberings |
| `audit_log` (2.4 M) | two writers, two kinds of records, three records: a fork, a loss in the middle, a continued cut line, an append that failed and is tried again; the text of one hash changes | logs written in turns are valid; a valid log's last hash fixes the others while no hash is edited |
| `recovery_case` (1.4 M) | two threads, so that one changes the flags between any two reads of the other, or loads what the other is saving; one restart | a report was true at some time of the call, and shows a cancellation that came first; what loads was saved whole |
| `carving` (1.7 M) | images of two blocks of eight bytes, the length of the longest signature: each magic number at a block's start and one across the boundary, footers at the end and twice in a block; two scans; arrays that start at two, two and one elements and grow; one failure anywhere; a vector and a clone of up to three blocks, five operations | hits are in the image and one type per block; a scan is complete; vectors are stacks |

`two_waiters` shows a disagreement of the code with its documentation:
the pool signals one thread when it becomes idle (`worker_pool.c:52`), and a
second one stays in `worker_pool_wait_idle`, of which `worker_pool.h:38` says
"Wait for all submitted tasks to complete."

Other sentences differ from the code in what a single branch decides, and the
models do what the code does:

* `block_erase.h:32` says of `VERIFY_FULL` "Read back every block written"; a
  failed seek or read ends the verification with `verification_passed` true, and
  only `result_code` tells (`verification.c:83-109`, `VerifyBreak`).
* `promising_queue.c:30` says "Wait for callers to handle shutdown..." and waits for
  nobody (`Destroy`).
* `audit_log.c:88-90` says "if ANY byte of a record changes, the hash chain breaks. We
  verify that each stored hash matches what we re-compute." (`audit_log.h:42-43` and
  `SECURITY.md` say so too); validation compares stored hashes with each other (`LineOK`)
  and computes none, so that a log stays valid through `ChangeFields`, and through a
  `LoseLine` in the middle when a `ChangeLink` mends the link over it.
* `README.md:90-91` chains the record of every operation to the one before it; nothing
  keeps two processes from linking to the same one (`audit_log.c:48`), and then their log
  validates as tampered with: the exception "fork" of `HonestIsValid`.
* `audit_log.h:34` has `ERASECURE_OK` "on success"; it is returned for a record that
  `fclose` could not write, or only in part (`audit_log.c:66`, `AppendCut`).
* `folder_eraser.h:35` says "erases files in a directory"; when a directory the walk is in is
  moved out of the tree and a link left for it, the files there are erased
  (`folder_eraser.c:72`): the exception of `OnlyBelowRoot`.
* `device.h:87` says of `is_rotational` "false = SSD/flash"; FALSE is also what a failed read
  leaves (`device_info.c:150`), and a disk that rotates becomes an SSD (`ReadAttribute`).
* `tests/file_eraser_tests.c:66` asserts that the default of `file_erase` is one pass of
  zeroes; the code sets random data and three passes (`DefaultOpts`).
* `cli.h:13` says "0 on success, non-zero on error"; a verification after an
  erasure that fails leaves the exit code 0 (`AfterCheck`).
* `recovery_api.h:37` lists the phases "PHASE C", "PHASE F1", "PHASE F2", "IDLE"; the
  code reports RUNNING, PAUSED and CANCELLED (`Report`).
* `hdd_sanitizer.h` says of real devices that `hdd_sanitize` "returns
  HDD_SANITIZE_NOT_IMPLEMENTED", and `portable_sanitizer.h` has "block erase for
  flash/SD card (test mode only)"; outside test mode both call
  `block_erase_device` (`RunDevice`).
* `ata_identify.c:97-103` takes bits 15 and 14 of word 59 both for the mark of a
  valid word and for overwrite and block erase: of a valid word overwrite is never
  reported, block erase always (`Sanitizes`).

Deadlock is checked except where the program really comes to an end: a queue that
was destroyed (`candidate_heap`, `candidate_queue`), a walk that has returned
(`folder_erase`), and a candidate whose operations are used up (`carving`).

Every property of a passing run has a mutant: a plausible slip in one of the
mapped definitions (a dropped guard, a `signal` for a `broadcast`, a missing
flush, reads in another order) under which TLC finds the property violated.
Mutants stand before the definition they change. Types are conjuncts of the first
invariant of a module that needs them, not properties of their own.

### Fairness

* `DeviceErase`, `DeviceInfo`: weak fairness of the call (`Erase`, `EraseStep`), a
  thread the operating system schedules. The environment is under no obligation;
  in particular mounts may come and go for ever. An interrupted write leaves the next write possible,
  and is not itself a step the fairness asks for: signals do not arrive for ever.
* `WorkerPool`: weak fairness of each worker, of each submitting thread, of each
  waiting client, and of the join in destroy: a thread that can take the mutex
  eventually does. No fairness among signals: which waiter wakes is free.
* `PromisingQueue`: weak fairness of each thread inside `promising_queue_dequeue`.

The other specifications state safety only.

## 5. Proofs

TLAPS proves, for every value of the constants:

* `DeviceEraseProofs`: `TypeCorrect`, `ClaimIsDisciplined`, `ProgressReported`,
  `MountedNeverWritten`, `OkIsErased`. The inductive invariant is the conjunction
  of the checked invariants with what the pass loop knows: the sectors below the
  offset are written in this pass, offset + remaining is the capacity, and the
  eraser holds the claim in exactly the program points between open and return.
  `NeverWritesMounted` follows because the claim and a mount exclude each other.
  Of the eraser with the record of `DeviceInfo`: `RecordErrsOneWay`, `PromisesKept`,
  `WholeDeviceIsErased`. `InfoInv` adds what the record says while it is made
  (`RecordTrue`), how what it says hangs together (`RecordAgrees`) and what a running call has
  of it (`CallKnows`): a call whose size ioctl fails goes by the recorded size, which
  is 0, and refused, or that of the device, until the device is replaced; and nothing
  is replaced that the eraser has open. So the sectors `OkMeansErased` speaks of
  are those of the whole device.
* `ImageEraseProofs`: of the eraser alone, `TypeCorrect`, `PassesAreDurable` and
  `OkIsDurable`; `TypeOK /\ PassesDurable /\ OkMeansDurable` is inductive, since the
  history of what each pass has reached is part of the model's state. Of the
  eraser with its callers, as `Cli` composes them: `DurableForCallers`,
  `FullPassIsComplete`, `ResultsAgreeAlways`, `SuccessIsErased` and
  `ExitZeroIsVerified`. Their invariant `CliInv` adds what the verification loop knows
  (`Counting`: `blocks_checked` is the number of sampled blocks below the next one;
  `Reading`: each of those was seen to hold the pattern, or a mismatch is counted), whose
  turn it is (`Turns`: the eraser, the verification and their callers never run at once)
  and what the records say of one another (`Ordered`). The section on the arithmetic
  of the block loop shows that the blocks cover the image, that the sample has its
  size, and that the next block of a stride is the next multiple: without it
  nothing follows for sizes that are no multiple of the block.
* `PersistenceProofs`, in three parts. Of `RecoveryCase`: `ReportsAreTrue`, `LoadIsOfSave`,
  for any number of threads and restarts. The invariant of a poll (`Found`) says for each point between its
  reads what the flags read so far are worth: since `cancelled` is not cleared
  while a poll is under way, a value of `paused` tells the phase of the moment it was
  read, or the case is cancelled by now, which the next read will see. That the code
  reads `paused` first is what makes it work. Of the loads of `is_running` it says
  (`NotOnlyPaused`) which phases the poll must have crossed for both to find nothing set.
  Of `AuditLog`: `HonestLogsAreValid`, `ValidLogsAreUnbroken`. A log without incidents has
  one whole record to a line, each with the hash of the one before it, and every writer
  but those in `behind` knows the last hash (`Honest`); the pieces of any log in which no
  hash was edited carry the hash that was computed from the link they carry, whatever became
  of their fields (`Linked`). That a valid log is the chain of its last hash is an induction along the
  log, by a least line that is not; it starts from the explicit function that
  `Ancestor` must then be.
  Of `FolderErase`: `GoneRootWasErased`, `NoDirectoryReentered`, `OnlyFilesBelowRoot`. A
  step takes away a set of nodes that leads nowhere else: a file, an empty directory, or
  a directory the other process moves, with all that is below it. What was below the
  root stays below it or is in that set (`BelowKeeps`), so if no file of the set is lost
  before it is dealt with, none is (`NothingLost`); and the root itself goes last, since
  `rmdir` takes only an empty directory. `OnCourse` says that a directory of the stack is in
  the inode table unless that was full when it was entered, which is why a directory in
  the table is never entered twice. What is overwritten is below the root as long as no
  component of the path is a link (`TopIsBelow`, by a least directory of the stack that is not).
* `CarvingProofs`: `ScansAreComplete`, `HitsStayInImage` and `HitsStayReal` of
  `Discovery`. The invariant of a scan (`Scanned`) orders the pairs of a block and a
  pattern by the two loops: the pairs it is done with and owes a hit (`SoFar`) are as
  many as the hits since the scan began, each has its hit, and every pair it lost is
  among those it is done with, so that when the loops end nothing is owed. A
  hit is where `Found` found a registered pattern (`HitsFound`, `FromRegistry`), which is the
  first of the places it may be at (`FoundIsFirst`). That no block starts files of two
  types needs that the headers of different types exclude one another
  (`HeadersExclude`, a hypothesis of `HitsStayReal`): `BuiltInExclude` proves it of the
  built-in headers, so it holds in every program whose own types add only footers, as those
  of the run do; a program may register a header that overlaps a built-in one, and
  then it does not. `HitsStayInImage` needs no hypothesis.
  `VectorsAreStacks` is the refinement of `SlotStack` by `Carving`. The
  invariant is that no array is shorter than its vector (`Sized`). Each operation
  gives one vector new slots and a new length (`OneVector`); that only the slots below
  the length count (`UsedEqual`) is why growing, going back and cloning lose nothing
  and reveal nothing, and `AppendSlotPushes` why an old slot is not seen again.
* `WorkerPoolProofs`: `PoolIsConsistent`, `FreedIsUnused` and `PoolKeepsPromises`, for any
  number of threads, clients, tasks and slots. A thread is followed through the
  stages of its call: a wakeup, spurious or not, changes where a thread waits and
  no stage, so that who wakes is immaterial to safety. The invariant `PoolInv` says that
  a task is in one place only (`OnePlace`), that `active_tasks` counts the threads between
  taking and finishing (`Counted`), and that a thread exits only after shutdown with an empty
  ring (`Closing`). `TakeFromRing` and `PutIntoRing` are the arithmetic modulo
  `queue_size`: taking removes the first of the pending tasks, putting appends.
* `FileEraseProofs`: `PassesHaveOverwritten`, `RemovedFilesWereErased`,
  `PassedVerificationSawPattern`, `LinksAreNotFollowed`. `EraseInv` says at each program
  point which file is open, up to where it is overwritten, and what the path names
  if nobody changed it; the other process may act between any two steps.
* `BlockmapProofs`: `ApparentCorrect`, `TranslationsInverse` and `TranslationsInMap` of the
  numbering, `CommitsAreAtomic`, `HashesAreFaithful`, `ProgressNeverFalls` and
  `DuplicatesAlwaysResolve` of the maps.
  `apparent_blocks` follows by induction over marks and unmarks. The translations need
  that the number of uncovered blocks below a block is an injection of the uncovered
  blocks into an interval of the same cardinality, hence onto it. A step of the map
  either leaves the maps, or changes the shadow map outside every merge, or is a step
  of the one merge under way (`MapSteps`); `Locked` says that the entries a merge has
  passed are the shadow map's. `Duplicates` says that the entries are the hashed blocks,
  each once, with equal ones side by side, and that of those the loop has passed exactly
  the ones that equal their predecessor are duplicates, of it (`Marked`). Hence every hop
  leads one entry back, up to the first of the group (`ReachedHops`), which is no duplicate;
  that the recursive function `Origin` follows these hops is shown by a least counterexample.
* `PromisingQueueProofs`: `QueueIsHeap`, `FirstIsMostUrgent`. The loops of the heap are
  recursive functions of an array and an index. That the natural numbers are well
  founded gives every set of them a least element (`Least`); by a least counterexample
  such a function exists where a measure decreases (`LoopEnds`), and returns what an
  invariant of the loop says (`LoopReturns`). The invariants are `MayRise`, a heap but
  for one candidate that may precede its parent, and `Gap`, a heap but for one
  candidate whatever its priority, whose children do not precede its parent. Up from
  `MayRise` makes a heap, down from `Gap` leaves `MayRise` at the index it started
  from, whether it moved anything or not: this is why the code may call down and then up
  at the *same* index after a removal, and why up alone, or down alone, is not enough.

Each inductive invariant was first checked by TLC on the instances of the runs. The
specification that a theorem of a refinement names (`TaskPool`, `SlotStack`) is the
abstract one without fairness.

Assumptions are the named `ASSUME`s on constants (`BlockSizeLimits`, `PassLimits`,
`DeviceParameters`, `InfoParameters`, `ImageParameters`, `VerifyParameters`, `SanitizerParameters`,
`MirrorParameters`, `BlockmapParameters`, `DiscoveryParameters`, `TypeParameters` (the
program's own types are descriptors with one signature that is not empty), `CarvingParameters`, `PoolParameters`,
`FileParameters`, `FolderParameters` (files are no directories, and the directory is there when
`folder_erase` is asked to erase it, unless the other process took it), ...): limits are ordered as `common/constants.h` has them, sizes are natural
numbers, the sets of threads and clients are disjoint from one another and from what
else a variable may hold. TLC evaluates them in every run.

Only model-checked: all liveness (TLAPS does not reason about `ENABLED` and
fairness here).

## 6. Not modelled

* Text: error messages, JSON and SQL, model and serial strings, printing, and the
  commands that only print.
* Digests and keys (`crypto/`): calls of OpenSSL, fills and clears of a buffer. A
  hash is its preimage in the models.
* Format validators and `validator.c`: walks over one buffer without state, which
  nothing calls; test images.
* The engine's phases, reassembly and output of recovered files: stubs, or without
  a caller but a test. Block states: without a caller.
* The metadata eraser (one system call per step, results as flags) and the audit
  database (one SQL statement per call).
* Of the modelled components: the reservations of the block map (a counter nothing
  else reads), the evidence hash of the mirror, `file_erase_batch`,
  `nvme_identify_namespace`, and failures of `pthread_create`.
* `FolderErase`: links to other directories than the one that was moved, or to where it
  was and no longer is (the link follows its directory); moves to another device; paths
  longer than the buffer.
  Its `ERASECURE_OK` promises little when directories are kept, since errors below
  are dropped: the property is about the root being gone.
* `AuditLog`: the characters of a line. Texts are not escaped (`audit.c:109-159`), so that a
  newline, or the key of a hash, in one of them breaks the line it is in.
* `Discovery`: a failed `malloc` or `strdup` while the registry copies a signature
  (`file_type_registry.c:55-60`) is taken for the failed array. `Carving`: `/dev/urandom`
  failing in `carve_state_create`; a vector that could not be created is not used.
* `DeviceInfo`: `is_removable` and the sector sizes. `DeviceErase`: the match of partitions by
  prefix, by which a mount of `/dev/nvme0n10` keeps `/dev/nvme0n1` from being erased
  (`device_detect.c:185-188`). `EraseOptions`: a pattern outside the enumeration
  (`block_erase.c:57-58`). `RecoveryCase`: the counts in a report (`recovery_api.c:118-122`).
* `Blockmap`: a second `blockmap_find_duplicates` on the same map, whose links may
  form a cycle with the first one's.

Some sources do not compile against the headers of this commit: the format
validators and the test image generator, `discovery.c` (calls
`file_mirror_read_block` with five arguments), `carve_state.c`, `blockvector.c`,
`block_state.c`, `file_mirror.c` and `blockmap.c` (an error code that is not
declared, `hash_digest_to_hex` with two arguments), and `recovery_engine.c`,
`recovery_api.c` and `checkpoint.c` (incomplete types). Where they are modelled, it
is by what the code evidently means: the error code is an error, the extra
arguments of a read are the size of the buffer and the number of bytes read.
