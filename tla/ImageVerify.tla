---------------------------- MODULE ImageVerify -----------------------------
(***************************************************************************)
(* verify_image_pattern, beside the eraser and the other process.  The CLI *)
(* calls it on its own; the sanitizers call it after block_erase_image has *)
(* returned ERASECURE_OK.  Both run in the one thread of the program.      *)
(***************************************************************************)
EXTENDS ImageErase

CONSTANTS
  SampleBlocks,  \* ERASECURE_VERIFY_SAMPLE_BLOCKS
  VerifyModes    \* the modes a caller asks for

ASSUME VerifyParameters ==
  /\ SampleBlocks \in Nat \ {0}
  /\ VerifyModes \subseteq {"SAMPLE", "FULL"}

VARIABLES
  vpc,      \* where the call to verify_image_pattern is
  vargs,    \* its pattern, clamped block_size and mode, with the size it stat()ed
  blk,      \* the block the loop is at
  vresult,  \* VerificationResult
  changed   \* sectors that changed since verification stat()ed the image or read them

vvars == <<vpc, vargs, blk, vresult, changed>>
vars  == <<evars, vvars>>

NoArgs == [pattern |-> ZERO, block_size |-> DefaultBlock, mode |-> "FULL", size |-> 0]

\* memset and ERASECURE_ERR_GENERIC.
ClearResult == [scope |-> "NOT_APPLICABLE", blocks_total |-> 0, blocks_checked |-> 0,
                blocks_failed |-> 0, verification_passed |-> FALSE, result_code |-> "GENERIC"]

VerifyTypeOK ==
  /\ TypeOK
  /\ vpc \in {"idle", "stat", "read", "done"}
  /\ vargs \in [pattern: ErasePattern, block_size: Nat \ {0},
                mode: {"SAMPLE", "FULL"}, size: Nat]
  /\ blk \in Nat
  /\ vresult \in [scope: {"NOT_APPLICABLE", "LOGICAL_BLOCKS", "SAMPLED"},
                  blocks_total: Nat, blocks_checked: Nat, blocks_failed: Nat,
                  verification_passed: BOOLEAN,
                  result_code: {"GENERIC", "OK", "UNSUPPORTED", "SEEK_FAILED", "READ_FAILED"}]
  /\ changed \subseteq Sectors

-----------------------------------------------------------------------------
(* Pure parts. *)

\* Mutant of TotalBlocks: the partial block at the end is forgotten.
WholeBlocks(size, block_size) == size \div block_size

TotalBlocks(size, block_size) == (size + block_size - 1) \div block_size

SampleStep(mode, total) ==
  IF mode = "SAMPLE" /\ total > SampleBlocks THEN total \div SampleBlocks ELSE 1

BlockSectors(b, block_size, size) ==
  {s \in 0 .. size - 1 : s >= b * block_size /\ s < (b + 1) * block_size}

-----------------------------------------------------------------------------
\* verify_image_pattern's entry; a random fill cannot be verified.
VerifyCall(pattern, block_size, mode) ==
  /\ pc \in {"idle", "done"}
  /\ vpc \in {"idle", "done"}
  /\ vargs' = [pattern |-> pattern, block_size |-> ClampBlockSize(block_size),
               mode |-> mode, size |-> 0]
  /\ IF pattern = RANDOM
       THEN vpc' = "done" /\ vresult' = [ClearResult EXCEPT !.result_code = "UNSUPPORTED"]
       ELSE vpc' = "stat" /\ vresult' = ClearResult
  /\ UNCHANGED <<evars, blk, changed>>

\* stat, the block arithmetic, malloc and fopen.  The early returns leave the
\* result code at ERASECURE_ERR_GENERIC.
VerifyOpen ==
  /\ vpc = "stat"
  /\ LET size    == Length(cache)
         counted == [vresult EXCEPT !.blocks_total = TotalBlocks(size, vargs.block_size)]
     IN  \/ vpc' = "done" /\ UNCHANGED <<vargs, vresult>>
         \/ size > 0 /\ vpc' = "done" /\ vresult' = counted /\ UNCHANGED vargs
         \/ /\ size > 0
            /\ vpc' = "read"
            /\ vresult' = counted
            /\ vargs' = [vargs EXCEPT !.size = size]
  /\ blk' = 0
  /\ changed' = {}
  /\ UNCHANGED evars

\* The verdict, whether the loop ran to its end or broke out of it.
VerifyReturn(code) ==
  /\ vpc' = "done"
  /\ blk' = 0
  /\ vresult' = [vresult EXCEPT
                   !.verification_passed = (vresult.blocks_failed = 0),
                   !.result_code = code,
                   !.scope = IF vargs.mode = "SAMPLE" THEN "SAMPLED" ELSE "LOGICAL_BLOCKS"]
  /\ UNCHANGED vargs

\* One turn of the block loop.
VerifyBlock ==
  /\ vpc = "read"
  /\ blk < vresult.blocks_total
  /\ LET block == BlockSectors(blk, vargs.block_size, vargs.size)
         bad   == \E s \in block : cache[s] # vargs.pattern
     IN  /\ vresult' = [vresult EXCEPT !.blocks_checked = @ + 1,
                                       !.blocks_failed = IF bad THEN @ + 1 ELSE @]
         /\ changed' = changed \ block
  /\ blk' = blk + SampleStep(vargs.mode, vresult.blocks_total)
  /\ UNCHANGED <<evars, vpc, vargs>>

\* A seek or a read that fails ends the loop.
VerifyBreak ==
  /\ vpc = "read"
  /\ blk < vresult.blocks_total
  /\ \E code \in {"SEEK_FAILED", "READ_FAILED"} : VerifyReturn(code)
  /\ UNCHANGED <<evars, changed>>

VerifyEnd ==
  /\ vpc = "read"
  /\ blk >= vresult.blocks_total
  /\ VerifyReturn("OK")
  /\ UNCHANGED <<evars, changed>>

Verify == VerifyOpen \/ VerifyBlock \/ VerifyBreak \/ VerifyEnd

\* Sectors whose content a step changes are no longer what verification saw.
NoteChanges ==
  changed' = {s \in DOMAIN cache' :
                /\ vpc # "idle"
                /\ s \in changed \/ s \notin Sectors \/ cache'[s] # cache[s]}

\* A new erasure clears the result record (sanitizer_run's memset).
EraseStart ==
  /\ vpc \in {"idle", "done"}
  /\ Start
  /\ vpc' = "idle"
  /\ vargs' = NoArgs
  /\ vresult' = ClearResult
  /\ changed' = {}
  /\ UNCHANGED blk

EraseStep ==
  /\ vpc = "idle"
  /\ Erase
  /\ NoteChanges
  /\ UNCHANGED <<vpc, vargs, blk, vresult>>

SurroundingStep ==
  /\ Surroundings
  /\ NoteChanges
  /\ UNCHANGED <<vpc, vargs, blk, vresult>>

PowerFailureStep ==
  /\ PowerFailure
  /\ vpc' = "idle"
  /\ vargs' = NoArgs
  /\ blk' = 0
  /\ vresult' = ClearResult
  /\ changed' = {}

VerifyInit ==
  /\ Init
  /\ vpc = "idle"
  /\ vargs = NoArgs
  /\ blk = 0
  /\ vresult = ClearResult
  /\ changed = {}

VerifyNext ==
  \/ \E p \in Patterns, b \in BlockSizes, m \in VerifyModes : VerifyCall(p, b, m)
  \/ Verify
  \/ EraseStart
  \/ EraseStep
  \/ SurroundingStep
  \/ PowerFailureStep

VerifySpec == VerifyInit /\ [][VerifyNext]_vars

-----------------------------------------------------------------------------
(* What verification must guarantee. *)

Finished == vpc = "done" /\ vresult.result_code = "OK"

\* A full verification that ran to its end and passed has seen the pattern in
\* every sector the image had when it was stat()ed: what differs now changed
\* after it was read.
FullPassMeansWiped ==
  Finished /\ vargs.mode = "FULL" /\ vresult.verification_passed =>
    \A s \in 0 .. vargs.size - 1 : cache[s] = vargs.pattern \/ s \in changed

\* Erasure and verification agree: what block_erase_image has returned
\* ERASECURE_OK for, and nobody has written since, passes.
ErasedPasses ==
  Finished /\ promise.pattern = vargs.pattern /\ promise.sectors = vargs.size /\ foreign = {}
    => vresult.verification_passed
=============================================================================
