---------------------------- MODULE EraseOptions ----------------------------
(***************************************************************************)
(* What block_erase_image, block_erase_device and verify_image_pattern do  *)
(* with the options a caller hands them: the ranges block_size and passes  *)
(* are clamped to, and the fill patterns.  Sizes are counted in sectors,   *)
(* the smallest unit the properties tell apart, so the 512-byte, 1 MiB and *)
(* 64 MiB limits of constants.h become the constants below.                *)
(***************************************************************************)
EXTENDS Naturals

CONSTANTS
  MinBlock,       \* ERASECURE_MIN_BLOCK_SIZE
  DefaultBlock,   \* ERASECURE_DEFAULT_BLOCK_SIZE
  MaxBlock,       \* ERASECURE_MAX_BLOCK_SIZE
  DefaultPasses,  \* ERASECURE_DEFAULT_PASSES
  MaxPasses       \* ERASECURE_MAX_PASSES

ASSUME BlockSizeLimits ==
  /\ MinBlock \in Nat \ {0}
  /\ DefaultBlock \in Nat
  /\ MaxBlock \in Nat
  /\ MinBlock <= DefaultBlock
  /\ DefaultBlock <= MaxBlock

ASSUME PassLimits ==
  /\ DefaultPasses \in Nat \ {0}
  /\ MaxPasses \in Nat
  /\ DefaultPasses <= MaxPasses

ZERO   == "zero"
ONE    == "one"
RANDOM == "random"

ErasePattern == {ZERO, ONE, RANDOM}

\* The content of a sector: what its owner stored, or a fill pattern.  The
\* bytes of a random fill are not told apart from one another.
DATA == "data"
Content == ErasePattern \cup {DATA}

\* A size below the minimum (0 included) selects the default, never the minimum.
ClampBlockSize(size) ==
  CASE size < MinBlock -> DefaultBlock
    [] size > MaxBlock -> MaxBlock
    [] OTHER           -> size

ClampPasses(passes) ==
  CASE passes = 0         -> DefaultPasses
    [] passes > MaxPasses -> MaxPasses
    [] OTHER              -> passes

\* Only the random fill can fail: RAND_bytes may report an error.
FillOutcomes(pattern) ==
  IF pattern = RANDOM THEN {"OK", "CRYPTO"} ELSE {"OK"}

\* The size of the next chunk of a pass with `remaining' sectors to go.
ChunkSize(remaining, block_size) ==
  IF remaining < block_size THEN remaining ELSE block_size
=============================================================================
