------------------------------- MODULE Blockmap -----------------------------
(***************************************************************************)
(* What the carver knows of every block (recovery/blockmap.c), on top of   *)
(* the mirror it reads the blocks through.                                 *)
(*                                                                         *)
(* Every update goes to the shadow map under the lock; a merge copies the  *)
(* shadow over the primary map, under the lock too, entry after entry.     *)
(* Readers of the primary map take no lock.  One thread, the engine, runs  *)
(* blockmap_compute_hashes and then blockmap_find_duplicates; the worker   *)
(* threads cover blocks and merge beside it.  The evidence does not change *)
(* but any block may fail to be read.  Reservations, a counter per block   *)
(* that nothing else looks at, are left out.                               *)
(*                                                                         *)
(* A critical section that writes one entry is a step that needs the lock  *)
(* to be free; only a merge holds it over several steps.                   *)
(***************************************************************************)
EXTENDS FileMirror, SequencesExt

CONSTANTS
  Workers,           \* the threads beside the engine
  Images,            \* evidence images: the content of each block of the map
  Contents,          \* what a block may hold, as far as its hash tells
  Zero               \* the content of a block of zeros

NoHash == "no_hash"   \* hash_computed is false
Free   == "free"
Engine == "engine"

ASSUME BlockmapParameters ==
  /\ Images \subseteq Seq(Contents) \ {<<>>}
  /\ Zero \in Contents /\ NoHash \notin Contents
  /\ Workers \cap {Engine, Free} = {}

VARIABLES
  image,         \* the evidence image
  primary,       \* what readers see
  shadow,        \* what the next merge will make the primary map
  lock,          \* the thread that holds the lock over several steps, or none
  copied,        \* how many entries the merge in progress has copied
  pc,            \* where the engine is
  block,         \* the loop index of the engine
  digest,        \* the content whose hash the engine has computed
  entries,       \* the blocks find_duplicates sorts, in its order
  committed      \* history: the shadow map when the last merge began

engine == <<pc, block, digest, entries>>
maps   == <<image, primary, shadow, lock, copied, committed>>
vars   == <<mirror, maps, engine>>

Entry == [covered: BOOLEAN, is_duplicate: BOOLEAN, is_exemplar: BOOLEAN,
          is_zero: BOOLEAN, exemplar_block: Nat, hash: Contents \cup {NoHash}]

Empty == [covered |-> FALSE, is_duplicate |-> FALSE, is_exemplar |-> FALSE,
          is_zero |-> FALSE, exemplar_block |-> 0, hash |-> NoHash]

\* blockmap_create refuses a count of 0; the map may go beyond the image.
block_count == Len(image)
MapBlocks   == 0 .. block_count - 1
Content(b)  == image[b + 1]

Init ==
  /\ MirrorInit
  /\ image \in Images
  /\ primary = [b \in MapBlocks |-> Empty]
  /\ shadow = primary
  /\ lock = Free /\ copied = 0
  /\ pc = "idle" /\ block = 0 /\ digest = Zero /\ entries = <<>>
  /\ committed = primary

-----------------------------------------------------------------------------
(* The critical sections.                                                  *)

\* Mutant of Write: the entry is written without the lock.
WriteUnlocked(b, entry) ==
  /\ shadow' = [shadow EXCEPT ![b] = entry]
  /\ UNCHANGED <<image, primary, lock, copied, committed>>

\* A critical section that writes the shadow entry of a block.
Write(b, entry) ==
  /\ lock = Free
  /\ shadow' = [shadow EXCEPT ![b] = entry]
  /\ UNCHANGED <<image, primary, lock, copied, committed>>

\* blockmap_shadow_set_covered for a file that was recovered.
SetCovered(b) == Write(b, [shadow[b] EXCEPT !.covered = TRUE])

\* blockmap_merge_shadow takes the lock.
BeginMerge(t) ==
  /\ lock = Free
  /\ lock' = t
  /\ copied' = 0
  /\ committed' = shadow
  /\ UNCHANGED <<image, primary, shadow>>

\* Mutant of CopyEntry: the maps trade places instead of the one being copied.
SwapEntry(t) ==
  /\ lock = t /\ copied < block_count
  /\ primary' = [primary EXCEPT ![copied] = shadow[copied]]
  /\ shadow' = [shadow EXCEPT ![copied] = primary[copied]]
  /\ copied' = copied + 1
  /\ UNCHANGED <<image, lock, committed>>

\* Its memcpy, an entry at a time.
CopyEntry(t) ==
  /\ lock = t /\ copied < block_count
  /\ primary' = [primary EXCEPT ![copied] = shadow[copied]]
  /\ copied' = copied + 1
  /\ UNCHANGED <<image, shadow, lock, committed>>

EndMerge(t) ==
  /\ lock = t /\ copied = block_count
  /\ lock' = Free /\ copied' = 0
  /\ UNCHANGED <<image, primary, shadow, committed>>

-----------------------------------------------------------------------------
(* blockmap_compute_hashes.                                                *)

ComputeHashes ==
  /\ pc = "idle"
  /\ pc' = "read" /\ block' = 0
  /\ UNCHANGED <<maps, digest, entries>>

\* file_mirror_read_block succeeds: only a whole block of the image does.
ReadBlock ==
  /\ pc = "read" /\ block < block_count /\ block < total_blocks
  /\ pc' = "hash" /\ digest' = Content(block)
  /\ UNCHANGED <<maps, block, entries>>

\* It fails, always beyond the image and perhaps before its end.
ReadFails ==
  /\ pc = "read" /\ block < block_count
  /\ block' = block + 1
  /\ UNCHANGED <<maps, pc, digest, entries>>

SetHash ==
  /\ pc = "hash"
  /\ Write(block, [shadow[block] EXCEPT !.hash = digest])
  /\ pc' = "zero"
  /\ UNCHANGED <<block, digest, entries>>

\* Mutant of SetZero: the flag goes to the block the loop moves on to.
SetZeroNext ==
  /\ pc = "zero"
  /\ LET b == (block + 1) % block_count
     IN Write(b, [shadow[b] EXCEPT !.is_zero = (digest = Zero)])
  /\ pc' = "read" /\ block' = block + 1
  /\ UNCHANGED <<digest, entries>>

SetZero ==
  /\ pc = "zero"
  /\ Write(block, [shadow[block] EXCEPT !.is_zero = (digest = Zero)])
  /\ pc' = "read" /\ block' = block + 1
  /\ UNCHANGED <<digest, entries>>

MergeHashes ==
  /\ pc = "read" /\ block = block_count
  /\ BeginMerge(Engine)
  /\ pc' = "merge_hashes"
  /\ UNCHANGED <<block, digest, entries>>

-----------------------------------------------------------------------------
(* blockmap_find_duplicates.                                               *)

\* The entries it collects: hashed, not zero.
Hashed == {b \in MapBlocks : primary[b].hash # NoHash /\ ~primary[b].is_zero}

\* What qsort may leave: equal hashes side by side, in any order.
Sorted(s) ==
  \A i, j, k \in DOMAIN s :
    (i < j /\ j < k /\ primary[s[i]].hash = primary[s[k]].hash)
      => primary[s[j]].hash = primary[s[i]].hash

\* The unlocked loop over the primary map: a merge that runs meanwhile writes
\* the hashes and zero flags that are there already.
FindDuplicates ==
  /\ pc = "hashed"
  /\ entries' \in {s \in SetToSeqs(Hashed) : Sorted(s)}
  /\ pc' = "pairs" /\ block' = 2
  /\ UNCHANGED <<maps, digest>>

\* Two neighbours with the same hash: the second is a duplicate of the first.
Twins == primary[entries[block]].hash = primary[entries[block - 1]].hash

\* Mutant of MarkPair: the exemplar is the first of all entries.
MarkPairFirst ==
  /\ pc = "pairs" /\ block <= Len(entries) /\ Twins /\ lock = Free
  /\ LET exemplar == entries[1]
         duplicate == entries[block]
     IN shadow' = [shadow EXCEPT ![exemplar].is_exemplar = TRUE,
                                 ![duplicate].is_duplicate = TRUE,
                                 ![duplicate].exemplar_block = exemplar]
  /\ block' = block + 1
  /\ UNCHANGED <<image, primary, lock, copied, committed, pc, digest, entries>>

MarkPair ==
  /\ pc = "pairs" /\ block <= Len(entries) /\ Twins /\ lock = Free
  /\ LET exemplar == entries[block - 1]
         duplicate == entries[block]
     IN shadow' = [shadow EXCEPT ![exemplar].is_exemplar = TRUE,
                                 ![duplicate].is_duplicate = TRUE,
                                 ![duplicate].exemplar_block = exemplar]
  /\ block' = block + 1
  /\ UNCHANGED <<image, primary, lock, copied, committed, pc, digest, entries>>

NextPair ==
  /\ pc = "pairs" /\ block <= Len(entries) /\ ~Twins
  /\ block' = block + 1
  /\ UNCHANGED <<maps, pc, digest, entries>>

MergeDuplicates ==
  /\ pc = "pairs" /\ block > Len(entries)
  /\ BeginMerge(Engine)
  /\ pc' = "merge_duplicates"
  /\ UNCHANGED <<block, digest, entries>>

\* The merge that ends either call.
EngineMerged ==
  /\ EndMerge(Engine)
  /\ pc' = IF pc = "merge_hashes" THEN "hashed" ELSE "found"
  /\ block' = 0
  /\ UNCHANGED <<digest, entries>>

-----------------------------------------------------------------------------
EngineNext ==
  /\ \/ ComputeHashes \/ ReadBlock \/ ReadFails \/ SetHash \/ SetZero \/ MergeHashes
     \/ FindDuplicates \/ MarkPair \/ NextPair \/ MergeDuplicates \/ EngineMerged
     \/ CopyEntry(Engine) /\ UNCHANGED engine
  /\ UNCHANGED mirror

WorkerNext(w) ==
  /\ \/ \E b \in MapBlocks : SetCovered(b)
     \/ BeginMerge(w) \/ CopyEntry(w) \/ EndMerge(w)
  /\ UNCHANGED <<mirror, engine>>

\* The mirror's own operations touch nothing of the map.
MirrorStep == MirrorNext /\ UNCHANGED <<maps, engine>>

Next == EngineNext \/ MirrorStep \/ \E w \in Workers : WorkerNext(w)

Spec == Init /\ [][Next]_vars

-----------------------------------------------------------------------------
TypeOK ==
  /\ MirrorTypeOK
  /\ image \in Images
  /\ primary \in [MapBlocks -> Entry] /\ shadow \in [MapBlocks -> Entry]
  /\ lock \in Workers \cup {Engine, Free}
  /\ copied \in 0 .. block_count
  /\ block \in 0 .. block_count + 1
  /\ entries \in Seq(MapBlocks)

\* Readers between two merges see one state the shadow map really was in,
\* never half of one update and half of another (blockmap.c:95-101).
CommitIsAtomic == TypeOK /\ (lock = Free => primary = committed)

\* Once blockmap_compute_hashes is done the primary map tells the truth about
\* every block that was read, hash and zero flag together, although the two
\* are set in critical sections of their own and workers merge between them.
HashesFaithful ==
  pc \in {"hashed", "pairs", "found"} =>
    \A b \in MapBlocks :
      /\ primary[b].hash \in {NoHash, Content(b)}
      /\ primary[b].is_zero <=> primary[b].hash = Zero
      /\ b >= total_blocks => primary[b].hash = NoHash

\* Blocks a chain of exemplar_block links reaches from b in at most n hops.
Origin[n \in 0 .. block_count] ==
  [b \in MapBlocks |->
     IF n = 0 \/ ~primary[b].is_duplicate THEN b
     ELSE Origin[n - 1][primary[b].exemplar_block]]

\* After blockmap_find_duplicates, of every group of equal blocks exactly one
\* is not a duplicate, and the links of the others lead to it: dropping the
\* duplicates loses no content (blockmap.c:164-175).
DuplicatesResolve ==
  pc = "found" =>
    /\ \A b \in Hashed :
         LET o == Origin[block_count][b]
         IN ~primary[o].is_duplicate /\ Content(o) = Content(b)
    /\ \A a, b \in Hashed :
         Content(a) = Content(b) => Origin[block_count][a] = Origin[block_count][b]
    /\ \A b \in MapBlocks \ Hashed : ~primary[b].is_duplicate

\* blockmap_covered_count: read without the lock, an entry at a time.
CoveredCount == Cardinality({b \in MapBlocks : primary[b].covered})

\* The progress that recovery_get_progress computes from the primary map never
\* goes back while files are being recovered, merges in progress included.
ProgressMonotone == [][CoveredCount' >= CoveredCount]_vars
=============================================================================
