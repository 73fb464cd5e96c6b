------------------------------ MODULE FileMirror ----------------------------
(***************************************************************************)
(* The evidence image as the carver sees it (recovery/file_mirror.c).      *)
(*                                                                         *)
(* The image has total_blocks actual blocks.  A block whose file has been  *)
(* recovered is covered; the others form the apparent image, numbered      *)
(* without gaps.  apparent_blocks is kept beside the mask, and the bounds  *)
(* of every apparent index are tested against it, not against the mask.    *)
(*                                                                         *)
(* file_mirror.c takes no lock: its callers take turns, so an operation is *)
(* one step.  The two translation loops count uncovered blocks in order of *)
(* their number; they are modelled by the cardinality they compute.        *)
(***************************************************************************)
EXTENDS Integers, FiniteSets

CONSTANT Totals   \* the numbers of whole blocks an image may have

ASSUME MirrorParameters == Totals \subseteq Nat

VARIABLES
  total_blocks,     \* image_size / block_size; a tail shorter than a block is left out
  covered_mask,     \* for every actual block, whether it is covered
  apparent_blocks   \* the number of uncovered blocks, kept incrementally

mirror == <<total_blocks, covered_mask, apparent_blocks>>

Blocks    == 0 .. total_blocks - 1
Uncovered == {b \in Blocks : ~covered_mask[b]}

\* (uint64_t)-1, the answer of a translation that fails.
NoBlock == -1

\* apparent_count when either loop has passed the blocks below b.
CountBefore(b) == Cardinality({i \in Uncovered : i < b})

\* file_mirror_actual_to_apparent.
ActualToApparent(b) == IF b \in Uncovered THEN CountBefore(b) ELSE NoBlock

\* file_mirror_apparent_to_actual.
ApparentToActual(a) ==
  IF a < apparent_blocks /\ \E b \in Uncovered : CountBefore(b) = a
    THEN CHOOSE b \in Uncovered : CountBefore(b) = a
    ELSE NoBlock

\* file_mirror_open.
MirrorInit ==
  /\ total_blocks \in Totals
  /\ covered_mask = [b \in Blocks |-> FALSE]
  /\ apparent_blocks = total_blocks

\* file_mirror_mark_covered.
MarkCovered(b) ==
  /\ ~covered_mask[b]
  /\ covered_mask' = [covered_mask EXCEPT ![b] = TRUE]
  /\ apparent_blocks' = IF apparent_blocks > 0 THEN apparent_blocks - 1 ELSE 0
  /\ UNCHANGED total_blocks

\* Mutant of UnmarkCovered: a block that is not covered is counted again.
UnmarkCoveredAgain(b) ==
  /\ covered_mask' = [covered_mask EXCEPT ![b] = FALSE]
  /\ apparent_blocks' = apparent_blocks + 1
  /\ UNCHANGED total_blocks

\* file_mirror_unmark_covered.
UnmarkCovered(b) ==
  /\ covered_mask[b]
  /\ covered_mask' = [covered_mask EXCEPT ![b] = FALSE]
  /\ apparent_blocks' = apparent_blocks + 1
  /\ UNCHANGED total_blocks

MirrorNext == \E b \in Blocks : MarkCovered(b) \/ UnmarkCovered(b)

MirrorSpec == MirrorInit /\ [][MirrorNext]_mirror

-----------------------------------------------------------------------------
MirrorTypeOK ==
  /\ total_blocks \in Totals
  /\ covered_mask \in [Blocks -> BOOLEAN]
  /\ apparent_blocks \in 0 .. total_blocks

\* The count that bounds apparent indexes is the number of uncovered blocks,
\* whatever the order of marks and unmarks (file_mirror.c:66-82).
ApparentCounts == apparent_blocks = Cardinality(Uncovered)

\* Apparent and actual numbers are two names of the same blocks: every index
\* below apparent_blocks names an uncovered block, every uncovered block has
\* such an index, and each translation undoes the other (file_mirror.c:91-116).
Translates ==
  /\ \A a \in 0 .. apparent_blocks - 1 :
       /\ ApparentToActual(a) \in Uncovered
       /\ ActualToApparent(ApparentToActual(a)) = a
  /\ \A b \in Uncovered :
       /\ ActualToApparent(b) \in 0 .. apparent_blocks - 1
       /\ ApparentToActual(ActualToApparent(b)) = b
=============================================================================
