--------------------------- MODULE BlockmapProofs ---------------------------
(***************************************************************************)
(* The block numbering of FileMirror, what readers of the primary map of   *)
(* Blockmap see, and where its duplicate links lead, for images of any     *)
(* content, any number of blocks and any number of workers.                *)
(***************************************************************************)
EXTENDS Blockmap, FiniteSetTheorems, WellFoundedInduction, TLAPS

-----------------------------------------------------------------------------
(* The numbering of the blocks. *)

\* The sets the loops count in are finite.
LEMMA FiniteBlocks ==
  ASSUME MirrorTypeOK
  PROVE  /\ IsFiniteSet(Blocks) /\ Cardinality(Blocks) = total_blocks
         /\ IsFiniteSet(Uncovered) /\ Cardinality(Uncovered) \in Nat
<1>1. total_blocks \in Nat
  BY MirrorParameters DEF MirrorTypeOK
<1>2. IsFiniteSet(Blocks) /\ Cardinality(Blocks) = total_blocks
  BY <1>1, FS_Interval, 0 > total_blocks - 1 <=> total_blocks = 0 DEF Blocks
<1>3. Uncovered \in SUBSET Blocks
  BY DEF Uncovered
<1>4. IsFiniteSet(Uncovered)
  BY <1>2, <1>3, FS_Subset
<1> QED
  BY <1>2, <1>4, FS_CardinalityType

\* What the loops count below an uncovered block is less than they count in
\* all, and less than they count below any later one.
LEMMA CountGrows ==
  ASSUME MirrorTypeOK, NEW b \in Uncovered
  PROVE  /\ CountBefore(b) \in 0 .. Cardinality(Uncovered) - 1
         /\ \A c \in Uncovered : b < c => CountBefore(b) < CountBefore(c)
<1> DEFINE Below(c) == {i \in Uncovered : i < c}
<1>1. \A c \in Uncovered : c \in Int
  BY DEF Uncovered, Blocks
<1>2. \A c : IsFiniteSet(Below(c)) /\ Cardinality(Below(c)) \in Nat
  <2>1. \A c : Below(c) \in SUBSET Uncovered
    OBVIOUS
  <2> QED
    BY <2>1, FiniteBlocks, FS_Subset, FS_CardinalityType
<1>3. CountBefore(b) < Cardinality(Uncovered)
  <2>1. Below(b) \in SUBSET Uncovered /\ Below(b) # Uncovered
    BY <1>1
  <2>2. Cardinality(Below(b)) <= Cardinality(Uncovered) /\ Cardinality(Below(b)) # Cardinality(Uncovered)
    BY <2>1, FiniteBlocks, FS_Subset
  <2> QED
    BY <2>2, <1>2, FiniteBlocks DEF CountBefore
<1>4. ASSUME NEW c \in Uncovered, b < c
      PROVE  CountBefore(b) < CountBefore(c)
  <2>1. Below(b) \in SUBSET Below(c) /\ b \in Below(c) /\ b \notin Below(b)
    BY <1>1, <1>4
  <2>2. Cardinality(Below(b)) <= Cardinality(Below(c)) /\ Cardinality(Below(b)) # Cardinality(Below(c))
    BY <2>1, <1>2, FS_Subset
  <2> QED
    BY <2>2, <1>2 DEF CountBefore
<1>5. CountBefore(b) \in Nat
  BY <1>2 DEF CountBefore
<1>6. CountBefore(b) \in 0 .. Cardinality(Uncovered) - 1
  <2> HIDE DEF Below
  <2> QED BY <1>3, <1>5, FiniteBlocks
<1> QED
  BY <1>4, <1>6

\* Every count below the number of uncovered blocks is reached at one of them:
\* the counts are as many as the blocks, and no two blocks share one.
LEMMA CountReached ==
  ASSUME MirrorTypeOK, NEW a \in 0 .. Cardinality(Uncovered) - 1
  PROVE  \E b \in Uncovered : CountBefore(b) = a
<1> DEFINE Counts == 0 .. Cardinality(Uncovered) - 1
           f == [b \in Uncovered |-> CountBefore(b)]
<1>1. IsFiniteSet(Counts) /\ Cardinality(Counts) = Cardinality(Uncovered)
  BY FiniteBlocks, FS_Interval
<1>2. f \in [Uncovered -> Counts]
  BY CountGrows
<1>3. \A b, c \in Uncovered : f[b] = f[c] => b = c
  <2>1. \A b, c \in Uncovered : b # c => b < c \/ c < b
    BY DEF Uncovered, Blocks
  <2>2. \A b \in Uncovered : f[b] = CountBefore(b) /\ CountBefore(b) \in Int
    BY CountGrows
  <2> QED
    BY <2>1, <2>2, CountGrows
<1>4. f \in Injection(Uncovered, Counts)
  BY <1>2, <1>3 DEF Injection, IsInjective
<1>5. f \in Surjection(Uncovered, Counts)
  <2> HIDE DEF f, Counts
  <2> QED BY <1>1, <1>4, FS_Injection
<1> QED
  BY <1>5 DEF Surjection

-----------------------------------------------------------------------------
(* The mirror. *)

Inv == MirrorTypeOK /\ ApparentCounts

LEMMA InitInv == MirrorInit => Inv
<1> SUFFICES ASSUME MirrorInit PROVE Inv
  OBVIOUS
<1>1. MirrorTypeOK
  BY MirrorParameters DEF MirrorInit, MirrorTypeOK
<1>2. Uncovered = Blocks
  BY DEF MirrorInit, Uncovered
<1> QED
  BY <1>1, <1>2, FiniteBlocks DEF Inv, ApparentCounts, MirrorInit

LEMMA NextInv == Inv /\ [MirrorNext]_mirror => Inv'
<1> SUFFICES ASSUME Inv, [MirrorNext]_mirror PROVE Inv'
  OBVIOUS
<1>0. total_blocks \in Nat /\ apparent_blocks \in Nat
  BY MirrorParameters DEF Inv, MirrorTypeOK
<1>1. ASSUME NEW b \in Blocks, MarkCovered(b) PROVE Inv'
  <2>1. Uncovered' = Uncovered \ {b} /\ b \in Uncovered
    BY <1>1 DEF MarkCovered, Uncovered, Blocks, Inv, MirrorTypeOK
  <2>2. Cardinality(Uncovered') = Cardinality(Uncovered) - 1
    BY <2>1, FiniteBlocks, FS_RemoveElement DEF Inv
  <2>3. ApparentCounts' /\ apparent_blocks' \in 0 .. total_blocks
    <3>1. Cardinality(Uncovered) # 0
      BY <2>1, FiniteBlocks, FS_EmptySet DEF Inv
    <3> QED
      BY <1>0, <1>1, <2>2, <3>1, FiniteBlocks DEF Inv, ApparentCounts, MarkCovered, MirrorTypeOK
  <2> QED
    BY <1>1, <2>3 DEF Inv, MirrorTypeOK, MarkCovered, Blocks
<1>2. ASSUME NEW b \in Blocks, UnmarkCovered(b) PROVE Inv'
  <2>1. Uncovered' = Uncovered \cup {b} /\ b \notin Uncovered
    BY <1>2 DEF UnmarkCovered, Uncovered, Blocks, Inv, MirrorTypeOK
  <2>2. Cardinality(Uncovered') = Cardinality(Uncovered) + 1
    BY <2>1, FiniteBlocks, FS_AddElement DEF Inv
  <2>3. Cardinality(Uncovered') <= total_blocks
    <3>1. Uncovered' \in SUBSET Blocks
      BY <2>1, <1>2 DEF Uncovered
    <3> QED
      BY <3>1, FiniteBlocks, FS_Subset DEF Inv
  <2>4. ApparentCounts' /\ apparent_blocks' \in 0 .. total_blocks
    BY <1>0, <1>2, <2>2, <2>3 DEF Inv, ApparentCounts, UnmarkCovered
  <2> QED
    BY <1>2, <2>4 DEF Inv, MirrorTypeOK, UnmarkCovered, Blocks
<1>3. CASE UNCHANGED mirror
  BY <1>3 DEF mirror, Inv, MirrorTypeOK, ApparentCounts, Uncovered, Blocks
<1> QED
  BY <1>1, <1>2, <1>3 DEF MirrorNext

\* With the count right, the two translations are inverse to one another.
LEMMA InvTranslates == Inv => Translates
<1> SUFFICES ASSUME Inv PROVE Translates
  OBVIOUS
<1>1. apparent_blocks = Cardinality(Uncovered) /\ apparent_blocks \in Nat
  BY FiniteBlocks DEF Inv, ApparentCounts
<1>2. \A b, c \in Uncovered : CountBefore(b) = CountBefore(c) => b = c
  <2>1. \A b, c \in Uncovered : b # c => b < c \/ c < b
    BY DEF Uncovered, Blocks
  <2>2. \A b \in Uncovered : CountBefore(b) \in Int
    BY CountGrows DEF Inv
  <2> QED
    BY <2>1, <2>2, CountGrows DEF Inv
<1>3. ASSUME NEW a \in 0 .. apparent_blocks - 1
      PROVE  /\ ApparentToActual(a) \in Uncovered
             /\ ActualToApparent(ApparentToActual(a)) = a
  <2>1. \E b \in Uncovered : CountBefore(b) = a
    BY <1>1, <1>3, CountReached DEF Inv
  <2>2. ApparentToActual(a) \in Uncovered /\ CountBefore(ApparentToActual(a)) = a
    BY <1>1, <1>3, <2>1 DEF ApparentToActual
  <2> QED
    BY <2>2 DEF ActualToApparent
<1>4. ASSUME NEW b \in Uncovered
      PROVE  /\ ActualToApparent(b) \in 0 .. apparent_blocks - 1
             /\ ApparentToActual(ActualToApparent(b)) = b
  <2>1. ActualToApparent(b) = CountBefore(b) /\ CountBefore(b) \in 0 .. apparent_blocks - 1
    BY <1>1, CountGrows DEF ActualToApparent, Inv
  <2>2. ApparentToActual(CountBefore(b)) \in Uncovered
        /\ CountBefore(ApparentToActual(CountBefore(b))) = CountBefore(b)
    BY <1>1, <2>1 DEF ApparentToActual
  <2> QED
    BY <2>1, <2>2, <1>2
<1> QED
  BY <1>3, <1>4 DEF Translates

\* apparent_blocks counts the uncovered blocks of an image of any size,
\* whatever is marked and unmarked in whatever order.
THEOREM ApparentCorrect == MirrorSpec => [](MirrorTypeOK /\ ApparentCounts)
<1>1. MirrorSpec => []Inv
  BY InitInv, NextInv, PTL DEF MirrorSpec
<1> QED
  BY <1>1, PTL DEF Inv

\* Apparent and actual block numbers translate into one another and back, for
\* images of any size and any set of covered blocks.
THEOREM TranslationsInverse == MirrorSpec => []Translates
<1>1. MirrorSpec => []Inv
  BY InitInv, NextInv, PTL DEF MirrorSpec
<1> QED
  BY <1>1, InvTranslates, PTL

-----------------------------------------------------------------------------
(* The map. *)

Places == {"idle", "read", "hash", "zero", "merge_hashes", "hashed", "pairs",
           "merge_duplicates", "found"}
Merging == {"merge_hashes", "merge_duplicates"}
Maps == [MapBlocks -> Entry]

\* TypeOK but for the mirror, and that the history variable is a map too.
Typed ==
  /\ image \in Images
  /\ primary \in Maps /\ shadow \in Maps /\ committed \in Maps
  /\ lock \in Workers \cup {Engine, Free}
  /\ copied \in 0 .. block_count
  /\ pc \in Places
  /\ block \in 0 .. block_count + 1
  /\ entries \in Seq(MapBlocks) /\ Len(entries) <= block_count

\* A merge that is under way has copied what it has passed, and nobody changes
\* the shadow map under it.
Locked ==
  /\ lock = Free => primary = committed
  /\ lock # Free => /\ shadow = committed
                    /\ \A b \in MapBlocks : b < copied => primary[b] = committed[b]
  /\ lock = Engine <=> pc \in Merging

\* An entry that tells the truth about its block.
True(e, b) ==
  /\ e.hash \in {NoHash, Content(b)}
  /\ e.is_zero <=> e.hash = Zero
  /\ b >= total_blocks => e.hash = NoHash

\* Where the engine is once blockmap_compute_hashes has merged.
Late == {"hashed", "pairs", "merge_duplicates", "found"}

\* The shadow map is true but for the block whose zero flag is still to come,
\* and the primary map is once the first merge of the engine has run.
Hashing ==
  /\ pc \in {"read", "hash", "zero"} => block <= block_count
  /\ pc \in {"hash", "zero"} =>
       block < block_count /\ block < total_blocks /\ digest = Content(block)
  /\ pc = "zero" => shadow[block].hash = digest
  /\ \A b \in MapBlocks : (pc = "zero" => b # block) => True(shadow[b], b)
  /\ pc \in Late => \A b \in MapBlocks : True(primary[b], b)
  /\ pc = "pairs" => block >= 2

\* A file that is covered in the primary map is so in the shadow map.
Covering == \A b \in MapBlocks : primary[b].covered => shadow[b].covered

MapInv == Inv /\ Typed /\ Locked /\ Hashing /\ Covering

-----------------------------------------------------------------------------
(* The critical sections. *)

\* A map has a block at least, numbered from 0.
LEMMA BlocksOfMap ==
  ASSUME Typed
  PROVE  block_count \in Nat \ {0} /\ MapBlocks = 0 .. block_count - 1
         /\ \A b \in MapBlocks : Content(b) \in Contents /\ Content(b) # NoHash
<1>1. image \in Seq(Contents) /\ image # <<>>
  BY BlockmapParameters DEF Typed
<1>2. block_count \in Nat /\ block_count # 0
  BY <1>1 DEF block_count
<1>3. ASSUME NEW b \in MapBlocks
      PROVE  Content(b) \in Contents
  <2>1. b + 1 \in 1 .. Len(image)
    BY <1>2 DEF MapBlocks, block_count
  <2> QED
    BY <1>1, <2>1 DEF Content
<1> QED
  BY <1>2, <1>3, BlockmapParameters DEF MapBlocks

\* Only entries of the shadow map change, and only while nobody merges.
ShadowOnly ==
  lock = Free /\ shadow' \in Maps /\ UNCHANGED <<image, primary, lock, copied, committed>>

\* A setter that writes one entry of the shadow map changes nothing else.
LEMMA WriteEffect ==
  ASSUME Typed, NEW b \in MapBlocks, NEW e \in Entry, Write(b, e)
  PROVE  ShadowOnly /\ shadow'[b] = e /\ \A c \in MapBlocks \ {b} : shadow'[c] = shadow[c]
BY DEF Typed, Write, ShadowOnly, Maps

\* The two entries of a pair get their flags, and what else they say stays.
LEMMA MarkEffect ==
  ASSUME Typed, Hashing, MarkPair
  PROVE  /\ ShadowOnly
         /\ \A c \in MapBlocks : /\ shadow'[c].hash = shadow[c].hash
                                 /\ shadow'[c].is_zero = shadow[c].is_zero
                                 /\ shadow'[c].covered = shadow[c].covered
<1> DEFINE exemplar == entries[block - 1]
           duplicate == entries[block]
<1>1. exemplar \in MapBlocks /\ duplicate \in MapBlocks
  <2>1. block \in Nat /\ block >= 2 /\ block <= Len(entries) /\ entries \in Seq(MapBlocks)
    BY BlocksOfMap DEF MarkPair, Hashing, Typed
  <2> QED
    BY <2>1
<1>2. shadow \in Maps /\ exemplar \in Nat
  BY <1>1, BlocksOfMap DEF Typed
<1>3. shadow' = [shadow EXCEPT ![exemplar].is_exemplar = TRUE,
                               ![duplicate].is_duplicate = TRUE,
                               ![duplicate].exemplar_block = exemplar]
  BY DEF MarkPair
<1> HIDE DEF exemplar, duplicate
<1> DEFINE once == [shadow EXCEPT ![exemplar].is_exemplar = TRUE]
           twice == [once EXCEPT ![duplicate].is_duplicate = TRUE]
<1>4. once \in Maps
  BY <1>1, <1>2 DEF Maps, Entry
<1>5. \A c \in MapBlocks : once[c].hash = shadow[c].hash /\ once[c].is_zero = shadow[c].is_zero
                            /\ once[c].covered = shadow[c].covered
  BY <1>1, <1>2 DEF Maps, Entry
<1>6. shadow' = [twice EXCEPT ![duplicate].exemplar_block = exemplar]
  BY <1>3
<1> HIDE DEF once
<1>7. twice \in Maps
  BY <1>1, <1>4 DEF Maps, Entry
<1>8. \A c \in MapBlocks : twice[c].hash = once[c].hash /\ twice[c].is_zero = once[c].is_zero
                            /\ twice[c].covered = once[c].covered
  BY <1>1, <1>4 DEF Maps, Entry
<1> HIDE DEF twice
<1>9. shadow' \in Maps
  BY <1>1, <1>2, <1>6, <1>7 DEF Maps, Entry
<1>10. \A c \in MapBlocks : shadow'[c].hash = twice[c].hash /\ shadow'[c].is_zero = twice[c].is_zero
                             /\ shadow'[c].covered = twice[c].covered
  BY <1>1, <1>2, <1>6, <1>7 DEF Maps, Entry
<1>11. ShadowOnly
  BY <1>9 DEF MarkPair, ShadowOnly
<1> QED
  BY <1>5, <1>8, <1>10, <1>11

\* What the steps that write one entry leave in it.
LEMMA EntriesTyped ==
  ASSUME Typed, NEW b \in MapBlocks
  PROVE  /\ shadow[b] \in Entry
         /\ [shadow[b] EXCEPT !.covered = TRUE] \in Entry
         /\ \A h \in Contents : [shadow[b] EXCEPT !.hash = h] \in Entry
         /\ \A z \in BOOLEAN : [shadow[b] EXCEPT !.is_zero = z] \in Entry
<1>1. shadow[b] \in Entry
  BY DEF Typed, Maps
<1> QED
  BY <1>1 DEF Entry

\* A call that hashes a block, sets its zero flag or covers it writes one entry.
LEMMA SetHashEffect ==
  ASSUME Typed, Hashing, SetHash
  PROVE  /\ ShadowOnly /\ block \in MapBlocks
         /\ shadow'[block] = [shadow[block] EXCEPT !.hash = digest]
         /\ \A c \in MapBlocks \ {block} : shadow'[c] = shadow[c]
<1>1. block \in MapBlocks /\ digest \in Contents
  BY BlocksOfMap DEF SetHash, Hashing, Typed
<1> QED
  BY <1>1, EntriesTyped, WriteEffect DEF SetHash

\* The zero flag goes to the same block as the hash before it.
LEMMA SetZeroEffect ==
  ASSUME Typed, Hashing, SetZero
  PROVE  /\ ShadowOnly /\ block \in MapBlocks
         /\ shadow'[block] = [shadow[block] EXCEPT !.is_zero = (digest = Zero)]
         /\ \A c \in MapBlocks \ {block} : shadow'[c] = shadow[c]
<1>1. block \in MapBlocks /\ (digest = Zero) \in BOOLEAN
  BY BlocksOfMap DEF SetZero, Hashing, Typed
<1> QED
  BY <1>1, EntriesTyped, WriteEffect DEF SetZero

\* Covering a block keeps what its entry says of its content.
LEMMA SetCoveredEffect ==
  ASSUME Typed, NEW b \in MapBlocks, SetCovered(b)
  PROVE  /\ ShadowOnly
         /\ shadow'[b] = [shadow[b] EXCEPT !.covered = TRUE]
         /\ \A c \in MapBlocks \ {b} : shadow'[c] = shadow[c]
BY EntriesTyped, WriteEffect DEF SetCovered

-----------------------------------------------------------------------------
(* Every step keeps the maps typed and the merges whole. *)

\* The engine's own variables have their types after a step.
EngineTyped ==
  /\ pc' \in Places /\ block' \in 0 .. block_count + 1
  /\ entries' \in Seq(MapBlocks) /\ Len(entries') <= block_count

\* Every step leaves them so.
LEMMA EngineNextTyped ==
  ASSUME Typed, Hashing, EngineNext \/ UNCHANGED engine
  PROVE  EngineTyped
<1>1. /\ block_count \in Nat \ {0} /\ MapBlocks = 0 .. block_count - 1
      /\ block \in Nat /\ block <= block_count + 1 /\ entries \in Seq(MapBlocks)
      /\ Len(entries) <= block_count /\ pc \in Places
  BY BlocksOfMap DEF Typed
<1>2. CASE UNCHANGED engine
  BY <1>1, <1>2 DEF engine, EngineTyped
<1>3. CASE ComputeHashes
  BY <1>1, <1>3 DEF ComputeHashes, EngineTyped, Places
<1>4. CASE ReadBlock
  BY <1>1, <1>4 DEF ReadBlock, EngineTyped, Places
<1>5. CASE ReadFails
  BY <1>1, <1>5 DEF ReadFails, EngineTyped, Places
<1>6. CASE SetHash
  BY <1>1, <1>6 DEF SetHash, EngineTyped, Places
<1>7. CASE SetZero
  BY <1>1, <1>7 DEF SetZero, Hashing, EngineTyped, Places
<1>8. CASE MergeHashes
  BY <1>1, <1>8 DEF MergeHashes, BeginMerge, EngineTyped, Places
<1>9. CASE MergeDuplicates
  BY <1>1, <1>9 DEF MergeDuplicates, BeginMerge, EngineTyped, Places
<1>10. CASE EngineMerged
  BY <1>1, <1>10 DEF EngineMerged, EndMerge, EngineTyped, Places
<1>11. CASE MarkPair
  BY <1>1, <1>11 DEF MarkPair, EngineTyped, Places
<1>12. CASE NextPair
  BY <1>1, <1>12 DEF NextPair, EngineTyped, Places
<1>13. CASE FindDuplicates
  <2>1. Hashed \in SUBSET MapBlocks /\ IsFiniteSet(MapBlocks) /\ Cardinality(MapBlocks) = block_count
    BY <1>1, FS_Interval DEF Hashed
  <2>2. Cardinality(Hashed) \in Nat /\ Cardinality(Hashed) <= block_count
    BY <2>1, FS_Subset, FS_CardinalityType
  <2>3. entries' \in [1 .. Cardinality(Hashed) -> Hashed]
    BY <1>13 DEF FindDuplicates, SetToSeqs
  <2>4. entries' \in Seq(MapBlocks) /\ Len(entries') = Cardinality(Hashed)
    BY <2>1, <2>2, <2>3
  <2> QED
    BY <1>1, <1>13, <2>2, <2>4 DEF FindDuplicates, EngineTyped, Places
<1> QED
  BY <1>2, <1>3, <1>4, <1>5, <1>6, <1>7, <1>8, <1>9, <1>10, <1>11, <1>12, <1>13 DEF EngineNext

Mergers == Workers \cup {Engine}

\* What a step may do to the maps, and the engine to its place with it.
EngineElsewhere == (pc \in Merging <=> pc' \in Merging)
QuietStep == UNCHANGED maps /\ EngineElsewhere
ShadowStep == ShadowOnly /\ EngineElsewhere
BeginStep(t) == BeginMerge(t) /\ IF t = Engine THEN pc' \in Merging ELSE UNCHANGED pc
CopyStep(t) == CopyEntry(t) /\ UNCHANGED pc
EndStep(t) == EndMerge(t) /\ IF t = Engine THEN pc' \notin Merging ELSE UNCHANGED pc
MapStep == QuietStep \/ ShadowStep \/ \E t \in Mergers : BeginStep(t) \/ CopyStep(t) \/ EndStep(t)

\* Every step is one of these kinds: no setter runs while a merge has the lock.
LEMMA MapSteps ==
  ASSUME Typed, Hashing, [Next]_vars
  PROVE  MapStep /\ (EngineNext \/ UNCHANGED engine)
<1>1. ASSUME EngineNext
      PROVE  MapStep
  <2>1. CASE ComputeHashes \/ ReadBlock \/ ReadFails \/ FindDuplicates \/ NextPair
    <3>1. pc \notin Merging /\ pc' \notin Merging /\ UNCHANGED maps
      BY <2>1 DEF ComputeHashes, ReadBlock, ReadFails, FindDuplicates, NextPair, Merging
    <3> QED
      BY <3>1 DEF MapStep, QuietStep, EngineElsewhere
  <2>2. CASE SetHash \/ SetZero \/ MarkPair
    <3>1. pc \notin Merging /\ pc' \notin Merging
      BY <2>2 DEF SetHash, SetZero, MarkPair, Merging
    <3> QED
      BY <2>2, <3>1, SetHashEffect, SetZeroEffect, MarkEffect DEF MapStep, ShadowStep, EngineElsewhere
  <2>3. CASE MergeHashes \/ MergeDuplicates
    BY <2>3 DEF MergeHashes, MergeDuplicates, MapStep, BeginStep, Mergers, Merging
  <2>4. CASE EngineMerged
    BY <2>4 DEF EngineMerged, MapStep, EndStep, Mergers, Merging
  <2>5. CASE CopyEntry(Engine) /\ UNCHANGED engine
    BY <2>5 DEF MapStep, CopyStep, Mergers, engine
  <2> QED
    BY <1>1, <2>1, <2>2, <2>3, <2>4, <2>5 DEF EngineNext
<1>2. ASSUME NEW w \in Workers, WorkerNext(w)
      PROVE  MapStep /\ UNCHANGED engine
  <2>1. w # Engine /\ w \in Mergers /\ UNCHANGED engine /\ UNCHANGED pc
    BY <1>2, BlockmapParameters DEF WorkerNext, engine, Mergers
  <2>2. ASSUME NEW b \in MapBlocks, SetCovered(b)
        PROVE  MapStep
    BY <2>1, <2>2, SetCoveredEffect DEF MapStep, ShadowStep, EngineElsewhere
  <2>3. CASE BeginMerge(w) \/ CopyEntry(w) \/ EndMerge(w)
    BY <2>1, <2>3 DEF MapStep, BeginStep, CopyStep, EndStep
  <2> QED
    BY <1>2, <2>1, <2>2, <2>3 DEF WorkerNext
<1>3. CASE UNCHANGED <<maps, engine>>
  BY <1>3 DEF engine, MapStep, QuietStep, EngineElsewhere
<1> QED
  BY <1>1, <1>2, <1>3 DEF Next, MirrorStep, vars

\* The evidence and its size do not change.
LEMMA EvidenceStays ==
  ASSUME [Next]_vars, MapStep
  PROVE  /\ image' = image /\ total_blocks' = total_blocks
         /\ block_count' = block_count /\ MapBlocks' = MapBlocks /\ Maps' = Maps
<1>1. image' = image
  BY DEF MapStep, QuietStep, ShadowStep, BeginStep, CopyStep, EndStep, maps, ShadowOnly,
         BeginMerge, CopyEntry, EndMerge
<1>2. total_blocks' = total_blocks
  BY DEF Next, EngineNext, WorkerNext, MirrorStep, MirrorNext, MarkCovered, UnmarkCovered,
         vars, mirror
<1> QED
  BY <1>1, <1>2 DEF block_count, MapBlocks, Maps

\* A step keeps the types.
LEMMA TypedNext ==
  ASSUME Typed, Hashing, [Next]_vars
  PROVE  Typed'
<1>1. EngineTyped /\ MapStep
  BY MapSteps, EngineNextTyped
<1>2. image' = image /\ block_count' = block_count /\ MapBlocks' = MapBlocks /\ Maps' = Maps
  BY <1>1, EvidenceStays
<1>3. /\ primary \in Maps /\ shadow \in Maps /\ committed \in Maps
      /\ lock \in Workers \cup {Engine, Free} /\ copied \in 0 .. block_count
      /\ block_count \in Nat /\ MapBlocks = 0 .. block_count - 1
  BY BlocksOfMap DEF Typed
<1> DEFINE Goal == /\ primary' \in Maps /\ shadow' \in Maps /\ committed' \in Maps
                   /\ lock' \in Workers \cup {Engine, Free} /\ copied' \in 0 .. block_count
<1>4. ASSUME QuietStep
      PROVE  Goal
  BY <1>3, <1>4 DEF QuietStep, maps
<1>5. ASSUME ShadowStep
      PROVE  Goal
  BY <1>3, <1>5 DEF ShadowStep, ShadowOnly
<1>6. ASSUME NEW t \in Mergers, BeginStep(t)
      PROVE  Goal
  BY <1>3, <1>6 DEF BeginStep, BeginMerge, Mergers
<1>7. ASSUME NEW t \in Mergers, CopyStep(t)
      PROVE  Goal
  <2>1. copied \in MapBlocks /\ copied + 1 \in 0 .. block_count
    BY <1>3, <1>7 DEF CopyStep, CopyEntry
  <2> QED
    BY <1>3, <1>7, <2>1 DEF CopyStep, CopyEntry, Maps
<1>8. ASSUME NEW t \in Mergers, EndStep(t)
      PROVE  Goal
  BY <1>3, <1>8 DEF EndStep, EndMerge
<1> HIDE DEF Goal
<1>9. Goal
  BY <1>1, <1>4, <1>5, <1>6, <1>7, <1>8 DEF MapStep
<1> QED
  BY <1>1, <1>2, <1>3, <1>9 DEF Goal, Typed, EngineTyped

\* A step keeps the discipline of the lock: what a merge has copied stays copied.
LEMMA LockedNext ==
  ASSUME Typed, Locked, [Next]_vars, MapStep
  PROVE  Locked'
<1>1. image' = image /\ MapBlocks' = MapBlocks
  BY EvidenceStays
<1>2. /\ block_count \in Nat /\ MapBlocks = 0 .. block_count - 1 /\ copied \in Nat
      /\ primary \in Maps /\ committed \in Maps /\ \A t \in Mergers : t # Free
  BY BlocksOfMap, BlockmapParameters DEF Typed, Mergers, Engine, Free
<1>3. CASE QuietStep
  BY <1>1, <1>3 DEF QuietStep, EngineElsewhere, maps, Locked
<1>4. CASE ShadowStep
  BY <1>1, <1>4 DEF ShadowStep, EngineElsewhere, ShadowOnly, Locked, Engine, Free
<1>5. ASSUME NEW t \in Mergers, BeginStep(t)
      PROVE  Locked'
  <2>1. pc \notin Merging /\ lock = Free /\ primary = committed
    BY <1>5 DEF BeginStep, BeginMerge, Locked, Engine, Free
  <2>2. lock' = t /\ copied' = 0 /\ committed' = shadow /\ UNCHANGED <<primary, shadow>>
    BY <1>5 DEF BeginStep, BeginMerge
  <2>3. lock' = Engine <=> pc' \in Merging
    BY <1>5, <2>1, <2>2 DEF BeginStep
  <2> QED
    BY <1>1, <1>2, <2>1, <2>2, <2>3 DEF Locked
<1>6. ASSUME NEW t \in Mergers, CopyStep(t)
      PROVE  Locked'
  <2>1. \A b \in MapBlocks : b < copied' => primary'[b] = committed[b]
    BY <1>2, <1>6 DEF CopyStep, CopyEntry, Locked, Maps
  <2>2. lock = t /\ t # Free /\ UNCHANGED <<shadow, lock, committed, pc>>
    BY <1>2, <1>6 DEF CopyStep, CopyEntry
  <2> QED
    BY <1>1, <2>1, <2>2 DEF Locked
<1>7. ASSUME NEW t \in Mergers, EndStep(t)
      PROVE  Locked'
  <2>1. lock = t /\ copied = block_count /\ lock' = Free /\ UNCHANGED <<primary, committed>>
    BY <1>7 DEF EndStep, EndMerge
  <2>2. \A b \in MapBlocks : primary[b] = committed[b]
    BY <1>2, <2>1 DEF Locked
  <2>3. primary = committed
    BY <1>2, <2>2 DEF Maps
  <2>4. pc' \notin Merging
    BY <1>7, <2>1 DEF EndStep, Locked
  <2> QED
    BY <2>1, <2>3, <2>4 DEF Locked, Engine, Free
<1> QED
  BY <1>3, <1>4, <1>5, <1>6, <1>7 DEF MapStep

-----------------------------------------------------------------------------
(* Every step keeps the maps true. *)

\* What is true of a block stays true of it.
LEMMA TrueStays ==
  ASSUME image' = image, total_blocks' = total_blocks
  PROVE  /\ \A b : True(primary[b], b)' <=> True(primary'[b], b)
         /\ \A b : True(shadow[b], b)' <=> True(shadow'[b], b)
BY DEF True, Content

\* An entry that says the same hash and the same zero flag is as true.
LEMMA SameIsTrue ==
  ASSUME NEW e, NEW f, NEW b, f.hash = e.hash, f.is_zero = e.is_zero, True(e, b)
  PROVE  True(f, b)
BY DEF True

\* The entry a merge copies is true, if the block is hashed to its end.
LEMMA PrimaryStaysTrue ==
  ASSUME Typed, Hashing, MapStep, pc \in Late, NEW b \in MapBlocks
  PROVE  True(primary'[b], b)
<1>1. True(primary[b], b) /\ True(shadow[b], b) /\ primary \in Maps
  BY DEF Hashing, Late, Typed
<1>2. ASSUME NEW t \in Mergers, CopyStep(t)
      PROVE  primary'[b] \in {primary[b], shadow[b]}
  BY <1>1, <1>2 DEF CopyStep, CopyEntry, Maps
<1>3. CASE UNCHANGED primary
  BY <1>1, <1>3
<1>4. \/ UNCHANGED primary
      \/ \E t \in Mergers : CopyStep(t)
  BY DEF MapStep, QuietStep, ShadowStep, BeginStep, EndStep, maps, ShadowOnly, BeginMerge, EndMerge
<1> QED
  BY <1>1, <1>2, <1>3, <1>4

\* A step keeps the hashes true, in the shadow map and where a merge copies them.
LEMMA HashingNext ==
  ASSUME Inv, Typed, Locked, Hashing, [Next]_vars, MapStep
  PROVE  Hashing'
<1>1. image' = image /\ total_blocks' = total_blocks /\ block_count' = block_count
      /\ MapBlocks' = MapBlocks
  BY EvidenceStays
<1>2. /\ \A b : True(primary[b], b)' <=> True(primary'[b], b)
      /\ \A b : True(shadow[b], b)' <=> True(shadow'[b], b)
  BY <1>1, TrueStays
<1>3. pc \in Late => \A b \in MapBlocks : True(primary'[b], b)
  BY PrimaryStaysTrue
<1>4. \A b \in MapBlocks : Content(b)' = Content(b)
  BY <1>1 DEF Content
<1>5. block_count \in Nat \ {0} /\ MapBlocks = 0 .. block_count - 1 /\ block \in Nat
  BY BlocksOfMap DEF Typed
<1>6. (pc # "zero") => \A b \in MapBlocks : True(shadow[b], b)
  BY DEF Hashing
\* A step that leaves the engine where it is, or takes it between two calls.
<1>7. ASSUME UNCHANGED shadow, pc \in Late \/ pc' \notin Late,
             pc' \notin {"read", "hash", "zero", "pairs"}, pc # "zero"
      PROVE  Hashing'
  BY <1>1, <1>2, <1>3, <1>6, <1>7 DEF Hashing
<1>8. ASSUME UNCHANGED <<engine, shadow>>
      PROVE  Hashing'
  BY <1>1, <1>2, <1>3, <1>4, <1>5, <1>8 DEF Hashing, engine
<1>9. ASSUME EngineNext
      PROVE  Hashing'
  <2>1. CASE ComputeHashes
    <3>1. pc = "idle" /\ pc' = "read" /\ block' = 0 /\ UNCHANGED shadow
      BY <2>1 DEF ComputeHashes, maps
    <3> QED
      BY <1>1, <1>2, <1>5, <1>6, <3>1 DEF Hashing, Late
  <2>2. CASE ReadBlock
    <3>1. /\ pc = "read" /\ pc' = "hash" /\ block < block_count /\ block < total_blocks
          /\ digest' = Content(block) /\ UNCHANGED <<shadow, block>>
      BY <2>2 DEF ReadBlock, maps
    <3>2. block \in MapBlocks
      BY <1>5, <3>1
    <3> QED
      BY <1>1, <1>2, <1>4, <1>5, <1>6, <3>1, <3>2 DEF Hashing, Late
  <2>3. CASE ReadFails
    <3>1. /\ pc = "read" /\ pc' = pc /\ block < block_count /\ block' = block + 1
          /\ UNCHANGED shadow
      BY <2>3 DEF ReadFails, maps
    <3> QED
      BY <1>1, <1>2, <1>5, <1>6, <3>1 DEF Hashing, Late
  <2>4. CASE SetHash
    <3>1. /\ pc = "hash" /\ pc' = "zero" /\ UNCHANGED <<block, digest>> /\ block \in MapBlocks
          /\ shadow'[block] = [shadow[block] EXCEPT !.hash = digest]
          /\ \A c \in MapBlocks \ {block} : shadow'[c] = shadow[c]
      BY <2>4, SetHashEffect DEF SetHash
    <3>2. shadow[block] \in Entry
      BY <3>1, EntriesTyped
    <3>3. shadow'[block].hash = digest
      BY <3>1, <3>2 DEF Entry
    <3>4. \A b \in MapBlocks \ {block} : True(shadow'[b], b)
      BY <1>6, <3>1
    <3>5. block < block_count /\ block < total_blocks /\ digest = Content(block)
      BY <3>1 DEF Hashing
    <3> QED
      BY <1>1, <1>2, <1>4, <3>1, <3>3, <3>4, <3>5 DEF Hashing, Late
  <2>5. CASE SetZero
    <3>1. /\ pc = "zero" /\ pc' = "read" /\ block' = block + 1 /\ block \in MapBlocks
          /\ shadow'[block] = [shadow[block] EXCEPT !.is_zero = (digest = Zero)]
          /\ \A c \in MapBlocks \ {block} : shadow'[c] = shadow[c]
      BY <2>5, SetZeroEffect DEF SetZero
    <3>2. /\ shadow[block] \in Entry /\ shadow[block].hash = digest
          /\ block < total_blocks /\ digest = Content(block)
      BY <3>1, EntriesTyped DEF Hashing
    <3>3. shadow'[block].hash = digest /\ shadow'[block].is_zero = (digest = Zero)
      BY <3>1, <3>2 DEF Entry
    <3>4. True(shadow'[block], block)
      <4>1. total_blocks \in Nat
        BY MirrorParameters DEF Inv, MirrorTypeOK
      <4>2. ~ (block >= total_blocks)
        BY <1>5, <3>2, <4>1
      <4>3. shadow'[block].is_zero <=> digest = Zero
        BY <3>3
      <4> QED
        BY <3>2, <3>3, <4>2, <4>3 DEF True
    <3>5. \A b \in MapBlocks : True(shadow'[b], b)
      BY <3>1, <3>4 DEF Hashing
    <3> QED
      BY <1>1, <1>2, <1>5, <3>1, <3>5 DEF Hashing, Late
  <2>6. CASE MergeHashes \/ MergeDuplicates
    BY <1>7, <2>6 DEF MergeHashes, MergeDuplicates, BeginMerge, Late
  <2>7. CASE FindDuplicates
    BY <1>1, <1>2, <1>3, <1>6, <2>7 DEF FindDuplicates, maps, Hashing, Late
  <2>8. CASE MarkPair
    <3>1. /\ pc = "pairs" /\ pc' = pc /\ block' = block + 1
          /\ \A c \in MapBlocks : shadow'[c].hash = shadow[c].hash
                                /\ shadow'[c].is_zero = shadow[c].is_zero
      BY <2>8, MarkEffect DEF MarkPair
    <3>2. \A b \in MapBlocks : True(shadow'[b], b)
      BY <1>6, <3>1, SameIsTrue
    <3> QED
      BY <1>1, <1>2, <1>3, <1>5, <3>1, <3>2 DEF Hashing, Late
  <2>9. CASE NextPair
    BY <1>1, <1>2, <1>3, <1>5, <1>6, <2>9 DEF NextPair, maps, Hashing, Late
  <2>10. CASE EngineMerged
    <3>1. /\ lock = Engine /\ copied = block_count /\ UNCHANGED <<primary, shadow>>
          /\ pc' \in {"hashed", "found"}
      BY <2>10 DEF EngineMerged, EndMerge
    <3>2. pc \in Merging /\ \A b \in MapBlocks : primary[b] = shadow[b]
      BY <1>5, <3>1 DEF Locked, Engine, Free
    <3>3. \A b \in MapBlocks : True(primary'[b], b)
      BY <1>6, <3>1, <3>2 DEF Merging
    <3> QED
      BY <1>1, <1>2, <1>6, <3>1, <3>2, <3>3 DEF Hashing, Merging
  <2>11. CASE CopyEntry(Engine) /\ UNCHANGED engine
    BY <1>8, <2>11 DEF CopyEntry
  <2> QED
    BY <1>9, <2>1, <2>2, <2>3, <2>4, <2>5, <2>6, <2>7, <2>8, <2>9, <2>10, <2>11 DEF EngineNext
<1>10. ASSUME NEW w \in Workers, WorkerNext(w)
       PROVE  Hashing'
  <2>1. UNCHANGED engine
    BY <1>10 DEF WorkerNext
  <2>2. ASSUME NEW b \in MapBlocks, SetCovered(b)
        PROVE  Hashing'
    <3>1. \A c \in MapBlocks : shadow'[c].hash = shadow[c].hash
                              /\ shadow'[c].is_zero = shadow[c].is_zero
      <4>1. /\ shadow[b] \in Entry /\ shadow'[b] = [shadow[b] EXCEPT !.covered = TRUE]
            /\ \A c \in MapBlocks \ {b} : shadow'[c] = shadow[c]
        BY <2>2, SetCoveredEffect, EntriesTyped
      <4>2. shadow'[b].hash = shadow[b].hash /\ shadow'[b].is_zero = shadow[b].is_zero
        BY <4>1 DEF Entry
      <4> QED
        BY <4>1, <4>2
    <3>2. \A c \in MapBlocks : True(shadow[c], c) => True(shadow'[c], c)
      BY <3>1, SameIsTrue
    <3>3. UNCHANGED <<pc, block, digest>>
      BY <2>1 DEF engine
    <3>4. pc = "zero" => block \in MapBlocks
      BY <1>5 DEF Hashing
    <3> QED
      BY <1>1, <1>2, <1>3, <1>4, <1>5, <3>1, <3>2, <3>3, <3>4 DEF Hashing
  <2> QED
    BY <1>8, <1>10, <2>1, <2>2 DEF WorkerNext, BeginMerge, CopyEntry, EndMerge
<1>11. CASE UNCHANGED <<maps, engine>>
  BY <1>8, <1>11 DEF maps
<1> QED
  BY <1>9, <1>10, <1>11 DEF Next, MirrorStep, vars

\* A step keeps the covered blocks of the primary map covered, in both maps.
LEMMA CoveringNext ==
  ASSUME Typed, Locked, Hashing, Covering, [Next]_vars, MapStep
  PROVE  Covering' /\ \A b \in MapBlocks : primary[b].covered => primary'[b].covered
<1>1. MapBlocks' = MapBlocks /\ primary \in Maps /\ shadow \in Maps
  BY EvidenceStays DEF Typed
<1>2. ASSUME UNCHANGED primary,
             \A b \in MapBlocks : shadow[b].covered => shadow'[b].covered
      PROVE  Covering' /\ \A b \in MapBlocks : primary[b].covered => primary'[b].covered
  BY <1>1, <1>2 DEF Covering
<1>3. ASSUME NEW t \in Mergers, CopyEntry(t)
      PROVE  Covering' /\ \A b \in MapBlocks : primary[b].covered => primary'[b].covered
  <2>1. /\ shadow' = shadow
        /\ \A b \in MapBlocks : primary'[b] \in {primary[b], shadow[b]}
    BY <1>1, <1>3 DEF CopyEntry, Maps
  <2> QED
    BY <1>1, <2>1 DEF Covering
<1>4. CASE UNCHANGED maps
  BY <1>2, <1>4 DEF maps
<1>5. ASSUME EngineNext
      PROVE  Covering' /\ \A b \in MapBlocks : primary[b].covered => primary'[b].covered
  <2>1. CASE SetHash
    <3>1. /\ shadow[block] \in Entry /\ shadow'[block] = [shadow[block] EXCEPT !.hash = digest]
          /\ \A c \in MapBlocks \ {block} : shadow'[c] = shadow[c]
          /\ UNCHANGED primary
      BY <2>1, SetHashEffect, EntriesTyped DEF ShadowOnly
    <3>2. shadow'[block].covered = shadow[block].covered
      BY <3>1 DEF Entry
    <3> QED
      BY <1>2, <3>1, <3>2
  <2>2. CASE SetZero
    <3>1. /\ shadow[block] \in Entry
          /\ shadow'[block] = [shadow[block] EXCEPT !.is_zero = (digest = Zero)]
          /\ \A c \in MapBlocks \ {block} : shadow'[c] = shadow[c]
          /\ UNCHANGED primary
      BY <2>2, SetZeroEffect, EntriesTyped DEF ShadowOnly
    <3>2. shadow'[block].covered = shadow[block].covered
      BY <3>1 DEF Entry
    <3> QED
      BY <1>2, <3>1, <3>2
  <2>3. CASE MarkPair
    BY <1>2, <2>3, MarkEffect DEF ShadowOnly
  <2>4. CASE MergeHashes \/ MergeDuplicates \/ EngineMerged
    BY <1>2, <2>4 DEF MergeHashes, MergeDuplicates, EngineMerged, BeginMerge, EndMerge
  <2>5. CASE CopyEntry(Engine)
    BY <1>3, <2>5 DEF Mergers
  <2>6. CASE ComputeHashes \/ ReadBlock \/ ReadFails \/ FindDuplicates \/ NextPair
    BY <1>4, <2>6 DEF ComputeHashes, ReadBlock, ReadFails, FindDuplicates, NextPair
  <2> QED
    BY <1>5, <2>1, <2>2, <2>3, <2>4, <2>5, <2>6 DEF EngineNext
<1>6. ASSUME NEW w \in Workers, WorkerNext(w)
      PROVE  Covering' /\ \A b \in MapBlocks : primary[b].covered => primary'[b].covered
  <2>1. ASSUME NEW b \in MapBlocks, SetCovered(b)
        PROVE  Covering' /\ \A c \in MapBlocks : primary[c].covered => primary'[c].covered
    <3>1. /\ shadow[b] \in Entry /\ shadow'[b] = [shadow[b] EXCEPT !.covered = TRUE]
          /\ \A c \in MapBlocks \ {b} : shadow'[c] = shadow[c]
          /\ UNCHANGED primary
      BY <2>1, SetCoveredEffect, EntriesTyped DEF ShadowOnly
    <3>2. shadow'[b].covered
      BY <3>1 DEF Entry
    <3> QED
      BY <1>2, <3>1, <3>2
  <2>2. CASE BeginMerge(w) \/ EndMerge(w)
    BY <1>2, <2>2 DEF BeginMerge, EndMerge
  <2>3. CASE CopyEntry(w)
    BY <1>3, <2>3 DEF Mergers
  <2> QED
    BY <1>6, <2>1, <2>2, <2>3 DEF WorkerNext
<1> QED
  BY <1>4, <1>5, <1>6 DEF Next, MirrorStep, vars

-----------------------------------------------------------------------------
(* The invariant, and what follows from it. *)

\* The maps that init allocates satisfy the invariant.
LEMMA InitMapInv == Init => MapInv
<1> SUFFICES ASSUME Init PROVE MapInv
  OBVIOUS
<1>1. Inv
  BY InitInv DEF Init
<1>2. Empty \in Entry
  BY DEF Empty, Entry
<1>3. primary \in Maps
  BY <1>2 DEF Init, Maps
<1>4. image \in Seq(Contents) /\ image # <<>>
  BY BlockmapParameters DEF Init
<1>5. block_count \in Nat \ {0}
  BY <1>4 DEF block_count
<1>6. Typed
  BY <1>3, <1>5 DEF Init, Typed, Places
<1>7. Locked
  BY DEF Init, Locked, Merging, Engine, Free
<1>8. \A b \in MapBlocks : shadow[b] = Empty /\ True(Empty, b)
  <2>1. NoHash # Zero
    BY BlockmapParameters
  <2> QED
    BY <2>1 DEF Init, True, Empty
<1>9. Hashing /\ Covering
  BY <1>8 DEF Init, Hashing, Covering, Late, Empty
<1> QED
  BY <1>1, <1>6, <1>7, <1>9 DEF MapInv

\* The invariant is inductive.
LEMMA NextMapInv == MapInv /\ [Next]_vars => MapInv'
<1> SUFFICES ASSUME MapInv, [Next]_vars PROVE MapInv'
  OBVIOUS
<1>1. Inv'
  BY NextInv DEF MapInv, Next, EngineNext, WorkerNext, MirrorStep, vars
<1>2. MapStep
  BY MapSteps DEF MapInv
<1> QED
  BY <1>1, <1>2, TypedNext, LockedNext, HashingNext, CoveringNext DEF MapInv

\* It holds always, and with it the invariant of the mirror.
LEMMA MapInvariant == Spec => []MapInv
BY InitMapInv, NextMapInv, PTL DEF Spec

\* While nobody merges, the primary map is one state the shadow map was in:
\* every update goes through the lock, so none is seen by halves.
THEOREM CommitsAreAtomic == Spec => []CommitIsAtomic
<1>1. MapInv => CommitIsAtomic
  BY DEF MapInv, Inv, Typed, Maps, Locked, CommitIsAtomic, TypeOK
<1> QED
  BY <1>1, MapInvariant, PTL

\* Once blockmap_compute_hashes has returned, every hash in the primary map is
\* that of its block, and the zero flag goes with it, although each is written
\* in a critical section of its own and workers merge in between.
THEOREM HashesAreFaithful == Spec => []HashesFaithful
<1>1. MapInv => HashesFaithful
  BY DEF MapInv, Hashing, Late, True, HashesFaithful
<1> QED
  BY <1>1, MapInvariant, PTL

\* The number of covered blocks that recovery_get_progress reads without the
\* lock never falls, not even while a merge is under way.
THEOREM ProgressNeverFalls == Spec => ProgressMonotone
<1>1. MapInv /\ [Next]_vars => [CoveredCount' >= CoveredCount]_vars
  <2> SUFFICES ASSUME MapInv, [Next]_vars
               PROVE  CoveredCount' >= CoveredCount
    OBVIOUS
  <2> DEFINE Before == {b \in MapBlocks : primary[b].covered}
             After == {b \in MapBlocks : primary'[b].covered}
  <2>1. MapStep
    BY MapSteps DEF MapInv
  <2>2. Before \in SUBSET After /\ MapBlocks' = MapBlocks
    BY <2>1, CoveringNext, EvidenceStays DEF MapInv
  <2>3. IsFiniteSet(MapBlocks)
    BY BlocksOfMap, FS_Interval DEF MapInv
  <2>4. After \in SUBSET MapBlocks
    OBVIOUS
  <2>5. IsFiniteSet(After) /\ IsFiniteSet(Before)
    BY <2>2, <2>3, <2>4, FS_Subset
  <2>6. Cardinality(After) >= Cardinality(Before) /\ Cardinality(After) \in Nat
    BY <2>2, <2>5, FS_Subset, FS_CardinalityType
  <2>7. CoveredCount = Cardinality(Before) /\ CoveredCount' = Cardinality(After)
    BY <2>2 DEF CoveredCount
  <2> QED
    BY <2>6, <2>7
<1> QED
  BY <1>1, MapInvariant, PTL DEF Spec, ProgressMonotone

\* The numberings are inverse to one another while workers cover blocks.
THEOREM TranslationsInMap == Spec => []Translates
BY MapInvariant, InvTranslates, PTL DEF MapInv

-----------------------------------------------------------------------------
(* The duplicates. *)

\* Where the engine is once it has sorted the entries.
Pairing == {"pairs", "merge_duplicates", "found"}

Hash(j) == primary[entries[j]].hash
Twin(j) == j \in 2 .. Len(entries) /\ Hash(j) = Hash(j - 1)

\* The entries are the hashed blocks, each once, equal ones side by side.
Listed ==
  /\ \A j \in 1 .. Len(entries) : entries[j] \in Hashed
  /\ \A b \in Hashed : \E j \in 1 .. Len(entries) : entries[j] = b
  /\ \A i, j \in 1 .. Len(entries) : entries[i] = entries[j] => i = j
  /\ Sorted(entries)

\* Of the entries before the kth those that equal their predecessor link to it,
\* and nothing else is a duplicate.
Marked(k) ==
  /\ \A b \in MapBlocks : shadow[b].is_duplicate =>
       \E j \in 2 .. Len(entries) : j < k /\ Twin(j) /\ entries[j] = b
  /\ \A j \in 2 .. Len(entries) : j < k /\ Twin(j) =>
       /\ shadow[entries[j]].is_duplicate
       /\ shadow[entries[j]].exemplar_block = entries[j - 1]

SameHashes ==
  \A b \in MapBlocks : primary[b].hash = shadow[b].hash /\ primary[b].is_zero = shadow[b].is_zero
SameMarks ==
  \A b \in MapBlocks : /\ primary[b].is_duplicate <=> shadow[b].is_duplicate
                       /\ primary[b].exemplar_block = shadow[b].exemplar_block

\* What find_duplicates has done at each of its places, and that it alone marks.
Duplicates ==
  /\ pc \notin Pairing =>
       \A b \in MapBlocks : ~ primary[b].is_duplicate /\ ~ shadow[b].is_duplicate
  /\ pc \in Late => SameHashes
  /\ pc \in Pairing => Listed
  /\ pc = "pairs" => Marked(block)
  /\ pc \in {"merge_duplicates", "found"} => Marked(Len(entries) + 1)
  /\ pc = "found" => SameMarks

\* What a step leaves of the marks in the shadow map, and of the hashes.
KeepsMarks ==
  \A b \in MapBlocks : /\ shadow'[b].is_duplicate <=> shadow[b].is_duplicate
                       /\ shadow'[b].exemplar_block = shadow[b].exemplar_block
KeepsHashes ==
  \A b \in MapBlocks : shadow'[b].hash = shadow[b].hash /\ shadow'[b].is_zero = shadow[b].is_zero

\* The two entries of a pair get their flags, and no other.
LEMMA MarksOfPair ==
  ASSUME Typed, Hashing, Listed, MarkPair
  PROVE  LET exemplar == entries[block - 1]
             duplicate == entries[block]
         IN /\ exemplar \in MapBlocks /\ duplicate \in MapBlocks /\ exemplar # duplicate
            /\ block \in 2 .. Len(entries)
            /\ \A c \in MapBlocks :
                 /\ shadow'[c].is_duplicate <=> (shadow[c].is_duplicate \/ c = duplicate)
                 /\ shadow'[c].exemplar_block =
                      IF c = duplicate THEN exemplar ELSE shadow[c].exemplar_block
<1> DEFINE exemplar == entries[block - 1]
           duplicate == entries[block]
<1>1. /\ block \in 2 .. Len(entries) /\ block \in Nat
      /\ exemplar \in MapBlocks /\ duplicate \in MapBlocks /\ exemplar # duplicate
  <2>1. block \in Nat /\ block >= 2 /\ block <= Len(entries) /\ entries \in Seq(MapBlocks)
    BY BlocksOfMap DEF MarkPair, Hashing, Typed
  <2>2. block - 1 \in 1 .. Len(entries) /\ block \in 1 .. Len(entries) /\ block - 1 # block
    BY <2>1
  <2> QED
    BY <2>1, <2>2 DEF Listed
<1>2. shadow \in Maps
  BY DEF Typed
<1>3. shadow' = [shadow EXCEPT ![exemplar].is_exemplar = TRUE,
                               ![duplicate].is_duplicate = TRUE,
                               ![duplicate].exemplar_block = exemplar]
  BY DEF MarkPair
<1> HIDE DEF exemplar, duplicate
<1> DEFINE once == [shadow EXCEPT ![exemplar].is_exemplar = TRUE]
           twice == [once EXCEPT ![duplicate].is_duplicate = TRUE]
<1>4. once \in Maps
  BY <1>1, <1>2 DEF Maps, Entry
<1>5. \A c \in MapBlocks : /\ once[c].is_duplicate <=> shadow[c].is_duplicate
                           /\ once[c].exemplar_block = shadow[c].exemplar_block
  BY <1>1, <1>2 DEF Maps, Entry
<1>6. shadow' = [twice EXCEPT ![duplicate].exemplar_block = exemplar]
  BY <1>3
<1> HIDE DEF once
<1>7. twice \in Maps
  BY <1>1, <1>4 DEF Maps, Entry
<1>8. \A c \in MapBlocks : /\ twice[c].is_duplicate <=> (once[c].is_duplicate \/ c = duplicate)
                           /\ twice[c].exemplar_block = once[c].exemplar_block
  BY <1>1, <1>4 DEF Maps, Entry
<1> HIDE DEF twice
<1>9. \A c \in MapBlocks :
        /\ shadow'[c].is_duplicate <=> twice[c].is_duplicate
        /\ shadow'[c].exemplar_block = IF c = duplicate THEN exemplar ELSE twice[c].exemplar_block
  BY <1>1, <1>6, <1>7 DEF Maps, Entry
<1>10. \A c \in MapBlocks :
         /\ shadow'[c].is_duplicate <=> (shadow[c].is_duplicate \/ c = duplicate)
         /\ shadow'[c].exemplar_block = IF c = duplicate THEN exemplar ELSE shadow[c].exemplar_block
  BY <1>5, <1>8, <1>9
<1> QED
  BY <1>1, <1>10 DEF exemplar, duplicate

\* Nothing but a pair changes marks, and nothing after the hashing a hash.
LEMMA MarksKept ==
  ASSUME Typed, Hashing, [Next]_vars
  PROVE  MarkPair \/ (KeepsMarks /\ (pc \in Late => KeepsHashes))
<1>1. CASE UNCHANGED shadow
  BY <1>1 DEF KeepsMarks, KeepsHashes
<1>2. ASSUME NEW b \in MapBlocks, NEW e \in Entry,
             e.is_duplicate = shadow[b].is_duplicate,
             e.exemplar_block = shadow[b].exemplar_block,
             shadow'[b] = e, \A c \in MapBlocks \ {b} : shadow'[c] = shadow[c]
      PROVE  KeepsMarks
  BY <1>2 DEF KeepsMarks
<1>3. ASSUME SetHash PROVE KeepsMarks /\ pc \notin Late
  <2>1. /\ block \in MapBlocks /\ digest \in Contents
        /\ shadow'[block] = [shadow[block] EXCEPT !.hash = digest]
        /\ \A c \in MapBlocks \ {block} : shadow'[c] = shadow[c]
    BY <1>3, SetHashEffect, BlocksOfMap DEF SetHash, Hashing
  <2>2. shadow[block] \in Entry
    BY <2>1, EntriesTyped
  <2>3. /\ shadow'[block].is_duplicate = shadow[block].is_duplicate
        /\ shadow'[block].exemplar_block = shadow[block].exemplar_block
    BY <2>1, <2>2 DEF Entry
  <2> QED
    BY <1>3, <2>1, <2>3 DEF KeepsMarks, SetHash, Late
<1>4. ASSUME SetZero PROVE KeepsMarks /\ pc \notin Late
  <2>1. /\ block \in MapBlocks
        /\ shadow'[block] = [shadow[block] EXCEPT !.is_zero = (digest = Zero)]
        /\ \A c \in MapBlocks \ {block} : shadow'[c] = shadow[c]
    BY <1>4, SetZeroEffect
  <2>2. shadow[block] \in Entry
    BY <2>1, EntriesTyped
  <2>3. /\ shadow'[block].is_duplicate = shadow[block].is_duplicate
        /\ shadow'[block].exemplar_block = shadow[block].exemplar_block
    BY <2>1, <2>2 DEF Entry
  <2> QED
    BY <1>4, <2>1, <2>3 DEF KeepsMarks, SetZero, Late
<1>5. ASSUME NEW b \in MapBlocks, SetCovered(b) PROVE KeepsMarks /\ KeepsHashes
  <2>1. /\ shadow[b] \in Entry /\ shadow'[b] = [shadow[b] EXCEPT !.covered = TRUE]
        /\ \A c \in MapBlocks \ {b} : shadow'[c] = shadow[c]
    BY <1>5, SetCoveredEffect, EntriesTyped
  <2>2. /\ shadow'[b].is_duplicate = shadow[b].is_duplicate
        /\ shadow'[b].exemplar_block = shadow[b].exemplar_block
        /\ shadow'[b].hash = shadow[b].hash /\ shadow'[b].is_zero = shadow[b].is_zero
    BY <2>1 DEF Entry
  <2> QED
    BY <2>1, <2>2 DEF KeepsMarks, KeepsHashes
<1>6. ASSUME NEW t, BeginMerge(t) \/ CopyEntry(t) \/ EndMerge(t)
      PROVE  UNCHANGED shadow
  BY <1>6 DEF BeginMerge, CopyEntry, EndMerge
<1>7. CASE EngineNext
  BY <1>1, <1>3, <1>4, <1>6, <1>7
     DEF EngineNext, ComputeHashes, ReadBlock, ReadFails, MergeHashes, FindDuplicates,
         NextPair, MergeDuplicates, EngineMerged, maps
<1>8. ASSUME NEW w \in Workers, WorkerNext(w)
      PROVE  UNCHANGED shadow \/ (KeepsMarks /\ KeepsHashes)
  BY <1>5, <1>6, <1>8 DEF WorkerNext
<1>9. CASE UNCHANGED maps
  BY <1>1, <1>9 DEF maps
<1> QED
  BY <1>1, <1>7, <1>8, <1>9 DEF Next, MirrorStep, vars

\* Where a step takes the engine once it has hashed the blocks.
LEMMA EngineGoesOn ==
  ASSUME Locked, [Next]_vars
  PROVE  /\ pc \in Late => pc' \in Late
         /\ pc \notin Late /\ pc' \in Late => EngineMerged /\ pc' = "hashed"
         /\ pc \in Pairing => pc' \in Pairing /\ entries' = entries
         /\ pc \notin Pairing /\ pc' \in Pairing => FindDuplicates
         /\ pc = "pairs" /\ pc' = "pairs" => MarkPair \/ NextPair \/ block' = block
         /\ pc = "pairs" /\ pc' # "pairs" => MergeDuplicates
         /\ pc = "merge_duplicates" => pc' = pc \/ EngineMerged
         /\ pc = "found" => pc' = pc
         /\ pc # "merge_duplicates" /\ pc' = "found" => pc = "found"
         /\ MarkPair => pc = "pairs" /\ pc' = "pairs"
<1>1. ASSUME EngineMerged PROVE pc \in Merging
  BY <1>1 DEF EngineMerged, EndMerge, Locked, Engine, Free
<1>2. CASE EngineNext
  <2>1. CASE EngineMerged
    BY <1>1, <2>1 DEF EngineMerged, Late, Pairing, Merging, MarkPair
  <2>2. CASE CopyEntry(Engine) /\ UNCHANGED engine
    BY <2>2 DEF engine, Late, Pairing, MarkPair
  <2>3. CASE FindDuplicates
    BY <2>3 DEF FindDuplicates, Late, Pairing, MarkPair
  <2>4. CASE ComputeHashes \/ ReadBlock \/ ReadFails \/ SetHash \/ SetZero \/ MergeHashes
    BY <2>4 DEF ComputeHashes, ReadBlock, ReadFails, SetHash, SetZero, MergeHashes, Late,
                Pairing, MarkPair
  <2>5. CASE MarkPair \/ NextPair \/ MergeDuplicates
    BY <2>5 DEF MarkPair, NextPair, MergeDuplicates, Late, Pairing
  <2> QED
    BY <1>2, <2>1, <2>2, <2>3, <2>4, <2>5 DEF EngineNext
<1>3. ASSUME UNCHANGED engine
      PROVE  pc' = pc /\ block' = block /\ entries' = entries
  BY <1>3 DEF engine
<1>4. UNCHANGED engine \/ EngineNext
  BY DEF Next, WorkerNext, MirrorStep, vars
<1>5. ASSUME UNCHANGED engine PROVE MarkPair => pc = "pairs" /\ pc' = "pairs"
  BY <1>3, <1>5 DEF MarkPair
<1> QED
  BY <1>2, <1>3, <1>4, <1>5 DEF Pairing

\* A merge copies entries of the shadow map, and nothing else writes the primary.
LEMMA PrimaryIsCopied ==
  ASSUME Typed, MapStep
  PROVE  \A b \in MapBlocks : primary'[b] = primary[b] \/ primary'[b] = shadow[b]
<1>1. ASSUME NEW t \in Mergers, CopyStep(t)
      PROVE  \A b \in MapBlocks : primary'[b] = primary[b] \/ primary'[b] = shadow[b]
  BY <1>1 DEF CopyStep, CopyEntry, Typed, Maps
<1>2. UNCHANGED primary \/ \E t \in Mergers : CopyStep(t)
  BY DEF MapStep, QuietStep, ShadowStep, BeginStep, EndStep, maps, ShadowOnly, BeginMerge, EndMerge
<1> QED
  BY <1>1, <1>2

\* When the engine's merge is done the two maps agree.
LEMMA MergedMapsAgree ==
  ASSUME Typed, Locked, EngineMerged
  PROVE  \A b \in MapBlocks : primary'[b] = shadow'[b] /\ primary'[b] = primary[b]
                              /\ shadow'[b] = shadow[b]
<1>1. /\ lock = Engine /\ copied = block_count /\ UNCHANGED <<primary, shadow>>
  BY DEF EngineMerged, EndMerge
<1>2. \A b \in MapBlocks : b < copied
  BY <1>1, BlocksOfMap
<1> QED
  BY <1>1, <1>2 DEF Locked, Engine, Free

\* Once the blocks are hashed no merge changes what the entries are sorted by.
LEMMA HashesStay ==
  ASSUME Typed, Hashing, MapStep, [Next]_vars, pc \in Late, SameHashes
  PROVE  /\ \A b \in MapBlocks : /\ primary'[b].hash = primary[b].hash
                                 /\ primary'[b].is_zero = primary[b].is_zero
         /\ Hashed' = Hashed
         /\ SameHashes'
<1>1. \A b \in MapBlocks : primary'[b].hash = primary[b].hash /\ primary'[b].is_zero = primary[b].is_zero
  BY PrimaryIsCopied DEF SameHashes
<1>2. KeepsHashes
  BY MarksKept, MarkEffect DEF KeepsHashes
<1>3. MapBlocks' = MapBlocks
  BY EvidenceStays
<1>4. Hashed' = Hashed
  <2>1. Hashed' = {b \in MapBlocks : primary'[b].hash # NoHash /\ ~primary'[b].is_zero}
    BY <1>3 DEF Hashed
  <2>2. \A b \in MapBlocks : (primary'[b].hash # NoHash /\ ~primary'[b].is_zero)
                             <=> (primary[b].hash # NoHash /\ ~primary[b].is_zero)
    BY <1>1
  <2> QED
    BY <2>1, <2>2 DEF Hashed
<1>5. SameHashes'
  <2> SUFFICES ASSUME NEW b \in MapBlocks
               PROVE  primary'[b].hash = shadow'[b].hash /\ primary'[b].is_zero = shadow'[b].is_zero
    BY <1>3 DEF SameHashes
  <2> QED
    BY <1>1, <1>2 DEF SameHashes, KeepsHashes
<1> QED
  BY <1>1, <1>4, <1>5

\* Then the order stays, and which entries equal their predecessor.
LEMMA OrderStays ==
  ASSUME Typed, Hashing, MapStep, [Next]_vars, pc \in Late, SameHashes, entries' = entries
  PROVE  /\ Listed => Listed'
         /\ \A j : Twin(j)' <=> Twin(j)
<1>1. /\ \A b \in MapBlocks : primary'[b].hash = primary[b].hash
      /\ Hashed' = Hashed /\ MapBlocks' = MapBlocks
  BY HashesStay, EvidenceStays
<1>2. /\ Len(entries) \in Nat /\ DOMAIN entries = 1 .. Len(entries)
      /\ \A j \in 1 .. Len(entries) : entries[j] \in MapBlocks
  BY DEF Typed
<1>3. \A j \in 1 .. Len(entries) : primary'[entries[j]].hash = primary[entries[j]].hash
  BY <1>1, <1>2
<1>4. ASSUME NEW j
      PROVE  Twin(j)' <=> Twin(j)
  <2>1. CASE j \in 2 .. Len(entries)
    <3>1. j \in 1 .. Len(entries) /\ j - 1 \in 1 .. Len(entries)
      BY <1>2, <2>1
    <3> QED
      BY <1>3, <3>1 DEF Twin, Hash
  <2>2. CASE j \notin 2 .. Len(entries)
    BY <2>2 DEF Twin
  <2> QED
    BY <2>1, <2>2
<1>5. ASSUME Listed PROVE Listed'
  <2>1. Sorted(entries)'
    BY <1>2, <1>3, <1>5 DEF Listed, Sorted
  <2> QED
    BY <1>1, <1>5, <2>1 DEF Listed
<1> QED
  BY <1>4, <1>5

\* Marks that stay, with an order that stays, are the marks of as many entries.
LEMMA MarkedStays ==
  ASSUME KeepsMarks, MapBlocks' = MapBlocks, entries' = entries, entries \in Seq(MapBlocks),
         \A j : Twin(j)' <=> Twin(j), NEW k, Marked(k)
  PROVE  /\ \A b \in MapBlocks : shadow'[b].is_duplicate =>
              \E j \in 2 .. Len(entries) : j < k /\ Twin(j) /\ entries[j] = b
         /\ \A j \in 2 .. Len(entries) : j < k /\ Twin(j) =>
              /\ shadow'[entries[j]].is_duplicate
              /\ shadow'[entries[j]].exemplar_block = entries[j - 1]
<1>1. \A j \in 2 .. Len(entries) : entries[j] \in MapBlocks
  OBVIOUS
<1> QED
  BY <1>1 DEF KeepsMarks, Marked

\* The sequence qsort leaves lists the hashed blocks, each once.
LEMMA FoundIsListed ==
  ASSUME Typed, FindDuplicates
  PROVE  Listed' /\ UNCHANGED <<image, primary, shadow>>
<1>1. UNCHANGED <<image, primary, shadow>>
  BY DEF FindDuplicates, maps
<1>2. Hashed' = Hashed /\ MapBlocks' = MapBlocks
  BY <1>1 DEF Hashed, MapBlocks, block_count
<1>3. Hashed \in SUBSET MapBlocks /\ IsFiniteSet(Hashed) /\ Cardinality(Hashed) \in Nat
  <2>1. IsFiniteSet(MapBlocks)
    BY BlocksOfMap, FS_Interval
  <2>2. Hashed \in SUBSET MapBlocks
    BY DEF Hashed
  <2> QED
    BY <2>1, <2>2, FS_Subset, FS_CardinalityType
<1> DEFINE Ranks == 1 .. Cardinality(Hashed)
<1>4. /\ entries' \in [Ranks -> Hashed]
      /\ \A i, j \in Ranks : i # j => entries'[i] # entries'[j]
      /\ Sorted(entries')
  BY DEF FindDuplicates, SetToSeqs
<1>5. Len(entries') = Cardinality(Hashed)
  BY <1>3, <1>4
<1>6. IsFiniteSet(Ranks) /\ Cardinality(Ranks) = Cardinality(Hashed)
  BY <1>3, FS_Interval
<1>7. entries' \in Surjection(Ranks, Hashed)
  <2>1. entries' \in Injection(Ranks, Hashed)
    BY <1>4 DEF Injection, IsInjective
  <2> HIDE DEF Ranks
  <2> QED
    BY <1>3, <1>6, <2>1, FS_Injection
<1>8. \A b \in Hashed : \E j \in Ranks : entries'[j] = b
  BY <1>7 DEF Surjection
<1>9. Sorted(entries)'
  BY <1>1, <1>4 DEF Sorted
<1> QED
  BY <1>1, <1>2, <1>4, <1>5, <1>8, <1>9 DEF Listed

\* A pair that is marked makes one more entry of those that are.
LEMMA PairIsMarked ==
  ASSUME Typed, Hashing, Listed, MarkPair, Marked(block),
         MapBlocks' = MapBlocks, \A j : Twin(j)' <=> Twin(j)
  PROVE  Marked(block)'
<1>1. /\ entries[block - 1] \in MapBlocks /\ entries[block] \in MapBlocks
      /\ block \in 2 .. Len(entries)
      /\ \A c \in MapBlocks :
           /\ shadow'[c].is_duplicate <=> (shadow[c].is_duplicate \/ c = entries[block])
           /\ shadow'[c].exemplar_block =
                IF c = entries[block] THEN entries[block - 1] ELSE shadow[c].exemplar_block
  BY MarksOfPair
<1>2. block' = block + 1 /\ entries' = entries /\ Twin(block) /\ block \in Nat
      /\ Len(entries) \in Nat
  BY <1>1 DEF MarkPair, Twins, Twin, Hash, Typed
<1>3. \A j \in 2 .. Len(entries) : j < block' <=> (j < block \/ j = block)
  BY <1>2
<1>4. ASSUME NEW b \in MapBlocks, shadow'[b].is_duplicate
      PROVE  \E j \in 2 .. Len(entries) : j < block' /\ Twin(j) /\ entries[j] = b
  <2>1. CASE b = entries[block]
    BY <1>1, <1>2, <1>3, <2>1
  <2>2. CASE shadow[b].is_duplicate
    BY <1>3, <2>2 DEF Marked
  <2> QED
    BY <1>1, <1>4, <2>1, <2>2
<1>5. ASSUME NEW j \in 2 .. Len(entries), j < block', Twin(j)
      PROVE  /\ shadow'[entries[j]].is_duplicate
             /\ shadow'[entries[j]].exemplar_block = entries[j - 1]
  <2>1. j \in 1 .. Len(entries) /\ block \in 1 .. Len(entries) /\ entries[j] \in MapBlocks
    BY <1>1, <1>2 DEF Typed
  <2>2. CASE j = block
    BY <1>1, <2>2
  <2>3. CASE j < block
    <3>1. entries[j] # entries[block]
      BY <1>2, <2>1, <2>3 DEF Listed
    <3>2. /\ shadow[entries[j]].is_duplicate
          /\ shadow[entries[j]].exemplar_block = entries[j - 1]
      BY <1>5, <2>3 DEF Marked
    <3> QED
      BY <1>1, <2>1, <3>1, <3>2
  <2> QED
    BY <1>3, <1>5, <2>2, <2>3
<1> QED
  BY <1>2, <1>4, <1>5 DEF Marked

\* A step keeps the links what they are to be.
LEMMA DuplicatesNext ==
  ASSUME MapInv, Duplicates, [Next]_vars
  PROVE  Duplicates'
<1>1. /\ Typed /\ Locked /\ Hashing /\ MapStep
      /\ image' = image /\ MapBlocks' = MapBlocks /\ entries \in Seq(MapBlocks)
  BY MapSteps, EvidenceStays DEF MapInv, Typed
<1>2. \A b \in MapBlocks : primary'[b] = primary[b] \/ primary'[b] = shadow[b]
  BY <1>1, PrimaryIsCopied
<1>3. MarkPair \/ KeepsMarks
  BY <1>1, MarksKept
<1>4. pc \in Late => SameHashes
  BY DEF Duplicates
<1>5. ASSUME pc' \notin Pairing, NEW b \in MapBlocks
      PROVE  ~ primary'[b].is_duplicate /\ ~ shadow'[b].is_duplicate
  <2>1. pc \notin Pairing /\ ~MarkPair
    BY <1>1, <1>5, EngineGoesOn DEF Pairing
  <2>2. ~ primary[b].is_duplicate /\ ~ shadow[b].is_duplicate
    BY <2>1 DEF Duplicates
  <2> QED
    BY <1>2, <1>3, <2>1, <2>2 DEF KeepsMarks
<1>6. pc' \in Late => SameHashes'
  <2>1. CASE pc \in Late
    BY <1>1, <1>4, <2>1, HashesStay
  <2>2. CASE pc \notin Late /\ pc' \in Late
    <3>1. EngineMerged
      BY <1>1, <2>2, EngineGoesOn
    <3> QED
      BY <1>1, <3>1, MergedMapsAgree DEF SameHashes
  <2> QED
    BY <2>1, <2>2
<1>7. ASSUME pc \in Pairing
      PROVE  /\ entries' = entries /\ Listed /\ Listed'
             /\ \A j : Twin(j)' <=> Twin(j)
  <2>1. pc \in Late /\ Listed /\ entries' = entries
    BY <1>1, <1>7, EngineGoesOn DEF Pairing, Late, Duplicates
  <2> QED
    BY <1>1, <1>4, <2>1, OrderStays
<1>8. ASSUME pc' \in Pairing, pc \notin Pairing
      PROVE  Listed' /\ Marked(block)' /\ pc' = "pairs"
  <2>1. FindDuplicates
    BY <1>1, <1>8, EngineGoesOn
  <2>2. Listed' /\ UNCHANGED shadow /\ block' = 2 /\ pc' = "pairs"
    BY <1>1, <2>1, FoundIsListed DEF FindDuplicates
  <2>3. \A b \in MapBlocks : ~ shadow'[b].is_duplicate
    BY <1>8, <2>2 DEF Duplicates
  <2>4. \A j \in (2 .. Len(entries))' : ~ (j < block')
    BY <2>2
  <2> QED
    BY <1>1, <2>2, <2>3, <2>4 DEF Marked
<1>9. ASSUME pc \in Pairing, ~MarkPair, NEW k, Marked(k)
      PROVE  /\ \A b \in MapBlocks : shadow'[b].is_duplicate =>
                  \E j \in 2 .. Len(entries) : j < k /\ Twin(j) /\ entries[j] = b
             /\ \A j \in 2 .. Len(entries) : j < k /\ Twin(j) =>
                  /\ shadow'[entries[j]].is_duplicate
                  /\ shadow'[entries[j]].exemplar_block = entries[j - 1]
  BY <1>1, <1>3, <1>7, <1>9, MarkedStays
<1>10. ASSUME pc = "pairs", pc' = "pairs"
       PROVE  Marked(block)'
  <2>1. Marked(block) /\ pc \in Pairing
    BY <1>10 DEF Duplicates, Pairing
  <2>2. CASE MarkPair
    BY <1>1, <1>7, <2>1, <2>2, PairIsMarked
  <2>3. CASE NextPair
    <3>1. block' = block + 1 /\ ~Twin(block) /\ UNCHANGED shadow
      BY <2>3 DEF NextPair, Twins, Twin, Hash, maps
    <3>2. block \in Nat
      BY <1>1, BlocksOfMap DEF Typed
    <3>3. \A j \in 2 .. Len(entries) : (j < block' /\ Twin(j)) <=> (j < block /\ Twin(j))
      BY <3>1, <3>2
    <3> QED
      BY <1>1, <1>7, <2>1, <3>1, <3>3 DEF Marked
  <2>4. CASE block' = block /\ ~MarkPair
    BY <1>1, <1>7, <1>9, <2>1, <2>4 DEF Marked
  <2> QED
    BY <1>1, <1>10, <2>2, <2>3, <2>4, EngineGoesOn
<1>11. ASSUME pc \in Pairing, pc' # "pairs"
       PROVE  Marked(Len(entries) + 1)'
  <2>1. ~MarkPair
    BY <1>1, <1>11, EngineGoesOn
  <2>2. Marked(Len(entries) + 1)
    <3>1. CASE pc = "pairs"
      <4>1. Marked(block) /\ block > Len(entries) /\ Len(entries) \in Nat /\ block \in Nat
        BY <1>1, <1>11, <3>1, EngineGoesOn, BlocksOfMap DEF Duplicates, MergeDuplicates, Typed
      <4>2. \A j \in 2 .. Len(entries) : j < block /\ j < Len(entries) + 1
        BY <4>1
      <4> QED
        BY <4>1, <4>2 DEF Marked
    <3>2. CASE pc # "pairs"
      BY <1>11, <3>2 DEF Pairing, Duplicates
    <3> QED
      BY <3>1, <3>2
  <2> QED
    BY <1>1, <1>7, <1>9, <1>11, <2>1, <2>2 DEF Marked
<1>12. pc' = "found" => SameMarks'
  <2>1. CASE pc = "merge_duplicates" /\ pc' = "found"
    <3>1. EngineMerged
      BY <1>1, <2>1, EngineGoesOn
    <3> QED
      BY <1>1, <3>1, MergedMapsAgree DEF SameMarks
  <2>2. CASE pc = "found"
    <3>1. KeepsMarks /\ SameMarks
      BY <1>1, <1>3, <2>2, EngineGoesOn DEF Duplicates
    <3> SUFFICES ASSUME NEW b \in MapBlocks
                 PROVE  /\ primary'[b].is_duplicate <=> shadow'[b].is_duplicate
                        /\ primary'[b].exemplar_block = shadow'[b].exemplar_block
      BY <1>1 DEF SameMarks
    <3> QED
      BY <1>2, <3>1 DEF SameMarks, KeepsMarks
  <2> QED
    BY <1>1, <2>1, <2>2, EngineGoesOn
<1>13. pc' \in Pairing => Listed'
  BY <1>7, <1>8
<1>14. pc' = "pairs" => Marked(block)'
  BY <1>1, <1>8, <1>10, EngineGoesOn DEF Pairing, EngineMerged
<1>15. pc' \in {"merge_duplicates", "found"} => Marked(Len(entries) + 1)'
  BY <1>8, <1>11 DEF Pairing
<1> QED
  BY <1>1, <1>5, <1>6, <1>12, <1>13, <1>14, <1>15 DEF Duplicates

\* Nothing is a duplicate in the maps that init allocates.
LEMMA DuplicatesInit == Init => Duplicates
BY DEF Init, Duplicates, Pairing, Late, Empty

\* The links are what they are to be at all times.
LEMMA DuplicatesInvariant == Spec => []Duplicates
BY MapInvariant, DuplicatesInit, DuplicatesNext, PTL DEF Spec

\* Where a block is among the entries, and the first entry that equals an entry.
Place(b) == CHOOSE j \in 1 .. Len(entries) : entries[j] = b
First(j) == CHOOSE i \in 1 .. Len(entries) :
              Hash(i) = Hash(j) /\ \A k \in 1 .. Len(entries) : Hash(k) = Hash(j) => i <= k

\* A hashed block has one place.
LEMMA PlaceOfBlock ==
  ASSUME Listed
  PROVE  /\ \A b \in Hashed : Place(b) \in 1 .. Len(entries) /\ entries[Place(b)] = b
         /\ \A j \in 1 .. Len(entries) : Place(entries[j]) = j /\ entries[j] \in Hashed
<1>1. \A b \in Hashed : Place(b) \in 1 .. Len(entries) /\ entries[Place(b)] = b
  BY DEF Listed, Place
<1>2. ASSUME NEW j \in 1 .. Len(entries) PROVE Place(entries[j]) = j /\ entries[j] \in Hashed
  BY <1>1, <1>2 DEF Listed
<1> QED
  BY <1>1, <1>2

\* Of the entries with one hash there is a first.
LEMMA FirstIsLeast ==
  ASSUME Typed, NEW j \in 1 .. Len(entries)
  PROVE  /\ First(j) \in 1 .. Len(entries) /\ Hash(First(j)) = Hash(j)
         /\ \A k \in 1 .. Len(entries) : Hash(k) = Hash(j) => First(j) <= k
<1> DEFINE Equals == {k \in 1 .. Len(entries) : Hash(k) = Hash(j)}
           Less == {p \in Nat \X Nat : p[1] < p[2]}
<1>1. IsWellFoundedOn(Less, Nat) /\ Equals \in SUBSET Nat /\ j \in Equals
  BY NatLessThanWellFounded DEF OpToRel
<1>2. PICK i \in Equals : \A k \in Equals : <<k, i>> \notin Less
  <2> HIDE DEF Equals, Less
  <2> QED
    BY <1>1, WFMin
<1>3. ASSUME NEW k \in Equals PROVE i <= k
  <2>1. i \in Nat /\ k \in Nat
    BY <1>1, <1>2
  <2>2. k < i => <<k, i>> \in Less
    BY <2>1
  <2> QED
    BY <1>2, <2>1, <2>2
<1> QED
  BY <1>2, <1>3 DEF First

\* The first entry of a group has no twin before it, and an entry without one
\* is the first: the sort leaves no gap in a group.
LEMMA GroupsAreUnbroken ==
  ASSUME Typed, Listed, NEW j \in 1 .. Len(entries)
  PROVE  /\ ~Twin(First(j))
         /\ ~Twin(j) => First(j) = j
         /\ Twin(j) => First(j) < j /\ First(j - 1) = First(j)
         /\ \A i \in 1 .. Len(entries) : Hash(i) = Hash(j) => First(i) = First(j)
<1>1. /\ First(j) \in 1 .. Len(entries) /\ Hash(First(j)) = Hash(j)
      /\ \A k \in 1 .. Len(entries) : Hash(k) = Hash(j) => First(j) <= k
  BY FirstIsLeast
<1>2. Len(entries) \in Nat /\ DOMAIN entries = 1 .. Len(entries) /\ j \in Nat /\ First(j) \in Nat
  BY <1>1 DEF Typed
<1>3. ASSUME Twin(First(j)) PROVE FALSE
  <2>1. First(j) - 1 \in 1 .. Len(entries) /\ Hash(First(j) - 1) = Hash(j)
    BY <1>1, <1>2, <1>3 DEF Twin
  <2> QED
    BY <1>1, <1>2, <2>1
<1>4. ASSUME ~Twin(j) PROVE First(j) = j
  <2>1. First(j) <= j
    BY <1>1
  <2>2. ASSUME First(j) < j - 1 PROVE Hash(j - 1) = Hash(j)
    <3>1. /\ First(j) \in DOMAIN entries /\ j - 1 \in DOMAIN entries /\ j \in DOMAIN entries
          /\ First(j) < j - 1 /\ j - 1 < j
      BY <1>1, <1>2, <2>2
    <3> QED
      BY <1>1, <3>1 DEF Listed, Sorted, Hash
  <2>3. ASSUME First(j) < j PROVE FALSE
    <3>1. j \in 2 .. Len(entries) /\ (First(j) < j - 1 \/ First(j) = j - 1)
      BY <1>1, <1>2, <2>3
    <3>2. Hash(j) = Hash(j - 1)
      BY <1>1, <2>2, <3>1
    <3> QED
      BY <1>4, <3>1, <3>2 DEF Twin
  <2> QED
    BY <1>2, <2>1, <2>3
<1>5. ASSUME NEW i \in 1 .. Len(entries), Hash(i) = Hash(j) PROVE First(i) = First(j)
  <2>1. /\ First(i) \in 1 .. Len(entries) /\ Hash(First(i)) = Hash(i)
        /\ \A k \in 1 .. Len(entries) : Hash(k) = Hash(i) => First(i) <= k
    BY FirstIsLeast
  <2>2. First(i) <= First(j) /\ First(j) <= First(i) /\ First(i) \in Nat
    BY <1>1, <1>5, <2>1
  <2> QED
    BY <1>2, <2>2
<1>6. ASSUME Twin(j) PROVE First(j) < j /\ First(j - 1) = First(j)
  <2>1. j - 1 \in 1 .. Len(entries) /\ Hash(j - 1) = Hash(j)
    BY <1>2, <1>6 DEF Twin
  <2>2. First(j) <= j - 1
    BY <1>1, <2>1
  <2> QED
    BY <1>2, <1>5, <2>1, <2>2
<1> QED
  BY <1>3, <1>4, <1>5, <1>6

\* What find_duplicates has made of the primary map when it is done.
Linked ==
  \A j \in 1 .. Len(entries) :
    /\ primary[entries[j]].is_duplicate <=> Twin(j)
    /\ Twin(j) => primary[entries[j]].exemplar_block = entries[j - 1]

\* The links are those of the entries, and no other block is a duplicate.
LEMMA FoundIsLinked ==
  ASSUME Typed, Duplicates, pc = "found"
  PROVE  /\ Listed /\ Linked
         /\ \A b \in MapBlocks \ Hashed : ~primary[b].is_duplicate
<1>1. Listed /\ SameMarks /\ Marked(Len(entries) + 1)
  BY DEF Duplicates, Pairing
<1>2. /\ Len(entries) \in Nat /\ \A j \in 1 .. Len(entries) : entries[j] \in MapBlocks
      /\ \A j \in 2 .. Len(entries) : j < Len(entries) + 1 /\ j \in 1 .. Len(entries)
  BY DEF Typed
<1>3. ASSUME NEW b \in MapBlocks, primary[b].is_duplicate
      PROVE  \E j \in 1 .. Len(entries) : Twin(j) /\ entries[j] = b
  <2>1. shadow[b].is_duplicate
    BY <1>1, <1>3 DEF SameMarks
  <2> QED
    BY <1>1, <1>2, <2>1 DEF Marked
<1>4. ASSUME NEW j \in 1 .. Len(entries), Twin(j)
      PROVE  /\ primary[entries[j]].is_duplicate
             /\ primary[entries[j]].exemplar_block = entries[j - 1]
  <2>1. j \in 2 .. Len(entries) /\ entries[j] \in MapBlocks
    BY <1>2, <1>4 DEF Twin
  <2>2. shadow[entries[j]].is_duplicate /\ shadow[entries[j]].exemplar_block = entries[j - 1]
    BY <1>1, <1>2, <1>4, <2>1 DEF Marked
  <2> QED
    BY <1>1, <2>1, <2>2 DEF SameMarks
<1>5. Linked
  <2>1. ASSUME NEW j \in 1 .. Len(entries), primary[entries[j]].is_duplicate PROVE Twin(j)
    BY <1>1, <1>2, <1>3, <2>1 DEF Listed
  <2> QED
    BY <1>4, <2>1 DEF Linked
<1>6. ASSUME NEW b \in MapBlocks \ Hashed PROVE ~primary[b].is_duplicate
  BY <1>1, <1>3 DEF Listed
<1> QED
  BY <1>1, <1>5, <1>6

\* n hops from an entry lead n entries back, but not past the first of its group.
Reached(n, b) ==
  IF b \in Hashed
  THEN IF Place(b) - n >= First(Place(b)) THEN entries[Place(b) - n] ELSE entries[First(Place(b))]
  ELSE b

\* Reached takes a hop as Origin does.
LEMMA ReachedHops ==
  ASSUME Typed, Listed, Linked, \A b \in MapBlocks \ Hashed : ~primary[b].is_duplicate,
         NEW b \in MapBlocks, NEW n \in Nat
  PROVE  /\ n = 0 \/ ~primary[b].is_duplicate => Reached(n, b) = b
         /\ n # 0 /\ primary[b].is_duplicate =>
              /\ primary[b].exemplar_block \in MapBlocks
              /\ Reached(n, b) = Reached(n - 1, primary[b].exemplar_block)
<1>1. CASE b \notin Hashed
  BY <1>1 DEF Reached
<1>2. CASE b \in Hashed
  <2> DEFINE j == Place(b)
  <2>1. j \in 1 .. Len(entries) /\ entries[j] = b /\ Len(entries) \in Nat
    BY <1>2, PlaceOfBlock DEF Typed
  <2>2. /\ ~Twin(j) => First(j) = j
        /\ Twin(j) => First(j) < j /\ First(j - 1) = First(j)
        /\ First(j) \in 1 .. Len(entries) /\ First(j) <= j
    BY <2>1, GroupsAreUnbroken, FirstIsLeast
  <2>3. /\ primary[b].is_duplicate <=> Twin(j)
        /\ Twin(j) => primary[b].exemplar_block = entries[j - 1]
    BY <2>1 DEF Linked
  <2>4. Reached(n, b) = IF j - n >= First(j) THEN entries[j - n] ELSE entries[First(j)]
    BY <1>2 DEF Reached
  <2> HIDE DEF j
  <2>5. CASE n = 0
    BY <2>1, <2>2, <2>4, <2>5
  <2>6. CASE n # 0 /\ ~Twin(j)
    BY <2>1, <2>2, <2>3, <2>4, <2>6
  <2>7. CASE n # 0 /\ Twin(j)
    <3>1. j - 1 \in 1 .. Len(entries)
      BY <2>1, <2>7 DEF Twin
    <3>2. /\ Place(entries[j - 1]) = j - 1 /\ entries[j - 1] \in Hashed
          /\ entries[j - 1] \in MapBlocks
      BY <3>1, PlaceOfBlock DEF Hashed
    <3>3. Reached(n - 1, entries[j - 1]) =
            IF (j - 1) - (n - 1) >= First(j - 1) THEN entries[(j - 1) - (n - 1)]
            ELSE entries[First(j - 1)]
      BY <3>2 DEF Reached
    <3>4. (j - 1) - (n - 1) = j - n
      BY <2>1
    <3>5. Reached(n - 1, entries[j - 1]) = Reached(n, b)
      BY <2>2, <2>4, <2>7, <3>3, <3>4
    <3> QED
      BY <2>3, <2>7, <3>2, <3>5
  <2> QED
    BY <2>3, <2>5, <2>6, <2>7
<1> QED
  BY <1>1, <1>2

\* So Origin leads where Reached does: the recursion has one solution.
LEMMA OriginIsReached ==
  ASSUME Typed, Listed, Linked, \A b \in MapBlocks \ Hashed : ~primary[b].is_duplicate
  PROVE  \A b \in MapBlocks : Origin[block_count][b] = Reached(block_count, b)
<1> DEFINE D == 0 .. block_count
           Body(f) == [n \in D |-> [b \in MapBlocks |->
                         IF n = 0 \/ ~primary[b].is_duplicate THEN b
                         ELSE f[n - 1][primary[b].exemplar_block]]]
           chain == [n \in D |-> [b \in MapBlocks |-> Reached(n, b)]]
           Less == {p \in Nat \X Nat : p[1] < p[2]}
<1>1. block_count \in Nat /\ D \in SUBSET Nat /\ \A n \in D : n # 0 => n - 1 \in D
  BY BlocksOfMap
<1>2. ASSUME NEW n \in D, NEW b \in MapBlocks
      PROVE  Reached(n, b) = IF n = 0 \/ ~primary[b].is_duplicate THEN b
                             ELSE chain[n - 1][primary[b].exemplar_block]
  <2>1. CASE n = 0 \/ ~primary[b].is_duplicate
    BY <1>1, <2>1, ReachedHops
  <2>2. CASE ~(n = 0 \/ ~primary[b].is_duplicate)
    <3>1. /\ primary[b].exemplar_block \in MapBlocks /\ n - 1 \in D
          /\ Reached(n, b) = Reached(n - 1, primary[b].exemplar_block)
      BY <1>1, <2>2, ReachedHops
    <3> QED
      BY <2>2, <3>1
  <2> QED
    BY <2>1, <2>2
<1>3. chain = Body(chain)
  <2>1. \A n \in D : chain[n] = Body(chain)[n]
    BY <1>2
  <2> QED
    BY <2>1
<1>4. Origin = CHOOSE f : f = Body(f)
  BY SMT DEF Origin
<1>5. Origin = Body(Origin)
  <2> HIDE DEF Body, chain
  <2> QED
    BY <1>3, <1>4
<1> DEFINE Wrong == {n \in D : Origin[n] # chain[n]}
<1>6. ASSUME Wrong # {} PROVE FALSE
  <2>1. IsWellFoundedOn(Less, Nat) /\ Wrong \in SUBSET Nat
    BY <1>1, NatLessThanWellFounded DEF OpToRel
  <2>2. PICK n \in Wrong : \A k \in Wrong : <<k, n>> \notin Less
    <3> HIDE DEF Wrong, Less
    <3> QED
      BY <1>6, <2>1, WFMin
  <2>3. Origin[n] = Body(Origin)[n] /\ chain[n] = Body(chain)[n] /\ Origin[n] # chain[n] /\ n \in D
    <3> HIDE DEF Body, chain
    <3> QED
      BY <1>3, <1>5, <2>2
  <2>4. CASE n = 0
    <3> HIDE DEF chain
    <3> QED
      BY <2>3, <2>4
  <2>5. CASE n # 0
    <3>1. n - 1 \in D /\ <<n - 1, n>> \in Less
      BY <1>1, <2>3, <2>5
    <3>2. n - 1 \notin Wrong
      <4> HIDE DEF Wrong, Less
      <4> QED
        BY <2>2, <3>1
    <3>3. Origin[n - 1] = chain[n - 1]
      BY <3>1, <3>2
    <3> HIDE DEF chain
    <3> QED
      BY <2>3, <2>5, <3>3
  <2> QED
    BY <2>4, <2>5
<1>7. block_count \in D
  BY <1>1
<1>8. Origin[block_count] = chain[block_count]
  BY <1>6, <1>7
<1> QED
  BY <1>7, <1>8

\* Whatever the number of equal blocks and the order qsort leaves them in, the
\* duplicates of a group lead to the one block of it that is none.
THEOREM DuplicatesAlwaysResolve == Spec => []DuplicatesResolve
<1>1. ASSUME MapInv, Duplicates, pc = "found"
      PROVE  /\ \A b \in Hashed :
                  /\ ~primary[Origin[block_count][b]].is_duplicate
                  /\ Content(Origin[block_count][b]) = Content(b)
             /\ \A a, b \in Hashed :
                  Content(a) = Content(b) => Origin[block_count][a] = Origin[block_count][b]
             /\ \A b \in MapBlocks \ Hashed : ~primary[b].is_duplicate
  <2>1. /\ Typed /\ Hashing /\ Listed /\ Linked
        /\ \A b \in MapBlocks \ Hashed : ~primary[b].is_duplicate
        /\ Len(entries) \in Nat /\ Len(entries) <= block_count /\ block_count \in Nat
    BY <1>1, FoundIsLinked, BlocksOfMap DEF MapInv, Typed
  <2>2. ASSUME NEW b \in Hashed
        PROVE  /\ Place(b) \in 1 .. Len(entries) /\ First(Place(b)) \in 1 .. Len(entries)
               /\ primary[b].hash = Content(b) /\ entries[Place(b)] = b
               /\ Origin[block_count][b] = entries[First(Place(b))]
    <3>1. b \in MapBlocks /\ primary[b].hash = Content(b)
      BY <1>1, <2>1 DEF Hashed, Hashing, True, Late
    <3>2. Place(b) \in 1 .. Len(entries) /\ entries[Place(b)] = b
      BY <2>1, PlaceOfBlock
    <3>3. First(Place(b)) \in 1 .. Len(entries)
      BY <2>1, <3>2, FirstIsLeast
    <3>4. ~(Place(b) - block_count >= First(Place(b)))
      BY <2>1, <3>2, <3>3
    <3>5. Reached(block_count, b) = entries[First(Place(b))]
      BY <2>2, <3>4 DEF Reached
    <3> QED
      BY <2>1, <3>1, <3>2, <3>3, <3>5, OriginIsReached
  <2>3. ASSUME NEW b \in Hashed
        PROVE  /\ ~primary[Origin[block_count][b]].is_duplicate
               /\ Content(Origin[block_count][b]) = Content(b)
    <3> DEFINE i == First(Place(b))
    <3>1. i \in 1 .. Len(entries) /\ ~Twin(i) /\ Hash(i) = Hash(Place(b))
      BY <2>1, <2>2, GroupsAreUnbroken, FirstIsLeast
    <3>2. entries[i] \in Hashed
      BY <2>1, <3>1, PlaceOfBlock
    <3>3. ~primary[entries[i]].is_duplicate
      BY <2>1, <3>1 DEF Linked
    <3>4. Content(entries[i]) = Content(b)
      <4>1. primary[entries[i]].hash = Content(entries[i])
        BY <2>2, <3>2
      <4> QED
        BY <2>2, <3>1, <4>1 DEF Hash
    <3> QED
      BY <2>2, <3>3, <3>4
  <2>4. ASSUME NEW a \in Hashed, NEW b \in Hashed, Content(a) = Content(b)
        PROVE  Origin[block_count][a] = Origin[block_count][b]
    <3>1. Hash(Place(a)) = Hash(Place(b))
      BY <2>2, <2>4 DEF Hash
    <3>2. First(Place(a)) = First(Place(b))
      BY <2>1, <2>2, <3>1, GroupsAreUnbroken
    <3> QED
      BY <2>2, <3>2
  <2> QED
    BY <2>1, <2>3, <2>4
<1>2. MapInv /\ Duplicates => DuplicatesResolve
  BY <1>1 DEF DuplicatesResolve
<1> QED
  BY <1>2, MapInvariant, DuplicatesInvariant, PTL
=============================================================================
