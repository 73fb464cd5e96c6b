------------------------------- MODULE Carving ------------------------------
(***************************************************************************)
(* A candidate begun at a header that discovery found: carve_state.c and   *)
(* its block vector, recovery/blockvector.c.  The search for the blocks of *)
(* the file, which is the caller's (reassembly.c is a stub), appends,      *)
(* marks, goes back and saves a copy before it tries a branch.             *)
(*                                                                         *)
(* A vector is its whole array: what lies beyond its length is left from   *)
(* longer times or, where realloc() has just made room, arbitrary.         *)
(***************************************************************************)
EXTENDS Discovery

CONSTANTS
  Vectors,        \* the candidate's vector and the copies of it
  VectorCapacity, \* slots a vector is created with: 16 in the code
  CarveBlocks,    \* the blocks that are tried
  MaxLength,      \* bound: blocks in a vector
  MaxSteps        \* bound: operations on the vectors

ASSUME CarvingParameters ==
  /\ VectorCapacity \in Nat \ {0}
  /\ {MaxLength, MaxSteps} \subseteq Nat

VARIABLES
  slots,    \* Blockvector.slots of each vector
  length,   \* Blockvector.length of each vector
  status,   \* CarveState.status, "none" before carve_state_create
  steps

cvars == <<slots, length, status, steps>>
vars == <<dvars, cvars>>

\* calloc() leaves blocks numbered 0.
Fresh(b) == [block |-> b, valid |-> FALSE, tried |-> FALSE]
Zeroed == [i \in 1 .. VectorCapacity |-> Fresh(0)]

\* What realloc() may hand out, as far as the flags tell.
Garbage == [block |-> 0, valid |-> TRUE, tried |-> TRUE]

Step ==
  /\ pc = "carve" /\ steps < MaxSteps
  /\ steps' = steps + 1
  /\ UNCHANGED <<dvars, status>>

-----------------------------------------------------------------------------
\* carve_state_create for a header that was found, its uuid and its vector.  One
\* that fails, as a clone may, leaves a vector that its owner does not use.
BeginCarve(v) ==
  /\ pc = "idle" /\ scans = MaxScans
  /\ \E h \in ToSet(hits) : ~ h.is_footer
  /\ pc' = "carve"
  /\ status' = "NEW"
  /\ slots' = [slots EXCEPT ![v] = Zeroed]
  /\ length' = [length EXCEPT ![v] = 0]
  /\ UNCHANGED <<image, registry, patterns, hits, capacity, scanning, failures, steps>>

\* Mutant of AppendSlot: the flags of the slot are left as they are.
AppendSlotKeeping(s, n, b) == [s EXCEPT ![n + 1].block = b]

AppendSlot(s, n, b) == [s EXCEPT ![n + 1] = Fresh(b)]

\* realloc() of a full array: twice as many slots, or the first ones.
Grow(s) == s \o [i \in 1 .. IF s = NULL THEN VectorCapacity ELSE Len(s) |-> Garbage]

\* blockvector_append, to a vector in use or to one that was freed.
AppendBlock(v, b) ==
  /\ Step
  /\ length[v] < MaxLength
  /\ LET room == IF length[v] < Len(slots[v]) THEN slots[v] ELSE Grow(slots[v])
     IN  slots' = [slots EXCEPT ![v] = AppendSlot(room, length[v], b)]
  /\ length' = [length EXCEPT ![v] = @ + 1]

\* blockvector_remove_last and blockvector_restore.
Restore(v, n) ==
  /\ Step
  /\ n < length[v]
  /\ length' = [length EXCEPT ![v] = n]
  /\ UNCHANGED slots

\* blockvector_mark_tried and blockvector_mark_valid.
MarkSlot(v, i, flag) ==
  /\ Step
  /\ i <= length[v]
  /\ ~ slots[v][i][flag]
  /\ slots' = [slots EXCEPT ![v][i][flag] = TRUE]
  /\ UNCHANGED length

\* blockvector_clone into a vector that is free.
Clone(v, w) ==
  /\ Step
  /\ slots[v] # NULL /\ slots[w] = NULL
  /\ slots' = [slots EXCEPT ![w] = [i \in 1 .. Len(slots[v]) |->
                                      IF i <= length[v] THEN slots[v][i] ELSE Fresh(0)]]
  /\ length' = [length EXCEPT ![w] = length[v]]

\* blockvector_free.
Free(v) ==
  /\ Step
  /\ slots[v] # NULL
  /\ slots' = [slots EXCEPT ![v] = NULL]
  /\ length' = [length EXCEPT ![v] = 0]

-----------------------------------------------------------------------------
Init ==
  /\ DiscoveryInit
  /\ slots = [v \in Vectors |-> NULL]
  /\ length = [v \in Vectors |-> 0]
  /\ status = "none"
  /\ steps = 0

Next ==
  \/ DiscoveryNext /\ UNCHANGED cvars
  \/ \E v \in Vectors :
       \/ BeginCarve(v) \/ Free(v)
       \/ \E b \in CarveBlocks : AppendBlock(v, b)
       \/ \E n \in 0 .. MaxLength : Restore(v, n)
       \/ \E i \in 1 .. MaxLength, flag \in {"valid", "tried"} : MarkSlot(v, i, flag)
       \/ \E w \in Vectors : Clone(v, w)

Spec == Init /\ [][Next]_vars

-----------------------------------------------------------------------------
\* The vectors implement stacks of blocks: after going back and appending, no
\* block carries the marks of the one that was in its slot before, growing
\* loses none, and a copy keeps its blocks while the original changes.
Stacks == INSTANCE SlotStack WITH
  stack <- [v \in Vectors |-> SubSeq(slots[v], 1, length[v])]

VectorIsStack == Stacks!Spec
=============================================================================
