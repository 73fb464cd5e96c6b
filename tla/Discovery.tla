------------------------------ MODULE Discovery -----------------------------
(***************************************************************************)
(* From the registry of file types to the signatures found in an image     *)
(* (recovery/file_type_registry.c, recovery/discovery.c).  The program     *)
(* that uses the library registers the built-in types and types of its     *)
(* own, hands their signatures to the discovery engine and scans.          *)
(*                                                                         *)
(* Any allocation and any read may fail.  The registry answers success     *)
(* when the copy of a signature failed, and a scan answers success when a  *)
(* block was not read or a hit not stored.                                 *)
(***************************************************************************)
EXTENDS Integers, SequencesExt

CONSTANTS
  BlockSize,        \* bytes in a block
  Images,           \* evidence images, sequences of bytes
  CustomTypes,      \* descriptors registered beside the built-in ones
  TypeCapacity,     \* room in the registry, the pattern and the hit array
  PatternCapacity,  \* when they are created: 16, 16 and 64 in the code
  HitCapacity,
  MaxScans,         \* bound: scans of the image
  MaxFailures       \* bound: allocations and reads that fail

ASSUME DiscoveryParameters ==
  /\ {BlockSize, TypeCapacity, PatternCapacity, HitCapacity} \subseteq Nat \ {0}
  /\ {MaxScans, MaxFailures} \subseteq Nat
  /\ Images \subseteq Seq(0 .. 255)

VARIABLES
  image,             \* what the mirror reads
  types,             \* FileTypeRegistry.types, the first count of them
  patterns,          \* DiscoveryEngine.patterns, the first pattern_count
  hits,              \* DiscoveryEngine.hits, the first hit_count
  capacity,          \* of the three arrays
  pc,
  next_type,         \* the next type to register, then to hand to the engine
  block, pattern,    \* loop indexes of discovery_scan
  scans, failures,
  scan_from,         \* history: hit_count when the last scan began
  unread,            \* history: the blocks it could not read
  lost               \* history: the <<block, pattern>> it could not store

registry == <<types, next_type>>
scanning == <<block, pattern, scan_from, unread, lost, scans>>
dvars == <<image, registry, patterns, hits, capacity, pc, scanning, failures>>

NULL == <<>>

Anywhere == -1   \* a negative offset: anywhere in the block

\* A SignaturePattern.  Bound: the descriptors have one signature each.
Signature == [bytes: Seq(0 .. 255) \ {<<>>}, offset: Nat \cup {Anywhere}, is_footer: BOOLEAN]
TypeNames == {"JPEG", "PNG", "PDF", "ZIP", "GIF", "MP3", "ELF"}
               \cup {CustomTypes[i].name : i \in DOMAIN CustomTypes}
Descriptor == [name: TypeNames, signatures: Seq(Signature)]

ASSUME TypeParameters ==
  /\ CustomTypes \in Seq(Descriptor)
  /\ \A i \in DOMAIN CustomTypes : Len(CustomTypes[i].signatures) = 1

Header(magic) == [bytes |-> magic, offset |-> 0, is_footer |-> FALSE]

\* The types of file_type_registry_register_defaults.
Defaults ==
  << [name |-> "JPEG", signatures |-> <<Header(<<255, 216, 255>>)>>],
     [name |-> "PNG",  signatures |-> <<Header(<<137, 80, 78, 71, 13, 10, 26, 10>>)>>],
     [name |-> "PDF",  signatures |-> <<Header(<<37, 80, 68, 70, 45>>)>>],
     [name |-> "ZIP",  signatures |-> <<Header(<<80, 75, 3, 4>>)>>],
     [name |-> "GIF",  signatures |-> <<Header(<<71, 73, 70, 56, 57, 97>>)>>],
     [name |-> "MP3",  signatures |-> <<Header(<<255, 251>>)>>],
     [name |-> "ELF",  signatures |-> <<Header(<<127, 69, 76, 70>>)>>] >>

ToRegister == Defaults \o CustomTypes

Fail == failures < MaxFailures /\ failures' = failures + 1

\* An array of n elements that is full is doubled before it gets another.
Room(array, n) ==
  capacity' = [capacity EXCEPT ![array] = IF n = @ THEN 2 * @ ELSE @]

-----------------------------------------------------------------------------
(* The registry. *)

\* file_type_registry_register: without room the type is left out; where there
\* is no array for its signatures the pointer is NULL and the type stays.  That
\* the bytes or the name of a signature cannot be copied is left out.
\* file_type_registry_register_defaults goes on in either case.
RegisterType ==
  /\ pc = "types" /\ next_type <= Len(ToRegister)
  /\ next_type' = next_type + 1
  /\ LET desc == ToRegister[next_type]
     IN  \/ /\ types' = Append(types, desc)
            /\ Room("types", Len(types))
            /\ UNCHANGED failures
         \/ /\ Fail
            /\ types' = Append(types, [desc EXCEPT !.signatures = NULL])
            /\ Room("types", Len(types))
         \/ /\ Fail
            /\ Len(types) = capacity["types"]
            /\ UNCHANGED <<types, capacity>>
  /\ UNCHANGED <<image, patterns, hits, pc, scanning>>

TypesDone ==
  /\ pc = "types" /\ next_type > Len(ToRegister)
  /\ pc' = "signatures"
  /\ next_type' = 1
  /\ UNCHANGED <<image, types, patterns, hits, capacity, scanning, failures>>

\* discovery_register_signature for a signature of a type, NULL left out.
RegisterSignature ==
  /\ pc = "signatures" /\ next_type <= Len(types)
  /\ next_type' = next_type + 1
  /\ LET t == types[next_type]
     IN  \/ t.signatures = NULL /\ UNCHANGED <<patterns, capacity, failures>>
         \/ /\ t.signatures # NULL
            /\ patterns' = Append(patterns, [sig |-> t.signatures[1], type_name |-> t.name])
            /\ Room("patterns", Len(patterns))
            /\ UNCHANGED failures
         \/ /\ t.signatures # NULL
            /\ Fail
            /\ Room("patterns", Len(patterns)) \/ UNCHANGED capacity
            /\ UNCHANGED patterns
  /\ UNCHANGED <<image, types, hits, pc, scanning>>

SignaturesDone ==
  /\ pc = "signatures" /\ next_type > Len(types)
  /\ pc' = "idle"
  /\ UNCHANGED <<image, registry, patterns, hits, capacity, scanning, failures>>

-----------------------------------------------------------------------------
(* discovery_scan. *)

total_blocks == Len(image) \div BlockSize

Matches(at, bytes) ==
  at + Len(bytes) <= Len(image) /\ SubSeq(image, at + 1, at + Len(bytes)) = bytes

\* Mutant of FirstMatch: the loop stops before the last place.
FirstMatchShort(b, bytes) ==
  LET places == {i \in 0 .. BlockSize - Len(bytes) - 1 : Matches(b * BlockSize + i, bytes)}
  IN  IF places = {} THEN {} ELSE {Min(places)}

\* memmem_fallback: the offset of the first match in a block, if there is one.
FirstMatch(b, bytes) ==
  LET places == {i \in 0 .. BlockSize - Len(bytes) : Matches(b * BlockSize + i, bytes)}
  IN  IF places = {} THEN {} ELSE {Min(places)}

\* Where in a block a signature is found.
Found(b, sig) ==
  IF sig.offset = Anywhere THEN FirstMatch(b, sig.bytes)
  ELSE {o \in {sig.offset} : /\ o + Len(sig.bytes) <= BlockSize
                             /\ Matches(b * BlockSize + o, sig.bytes)}

\* A scan without its buffer returns at once: it has passed over every block.
StartScan ==
  /\ pc = "idle" /\ scans < MaxScans
  /\ scans' = scans + 1
  /\ scan_from' = Len(hits)
  /\ lost' = {}
  /\ \/ pc' = "read" /\ block' = 0 /\ unread' = {} /\ UNCHANGED failures
     \/ /\ Fail
        /\ block' = total_blocks
        /\ unread' = 0 .. total_blocks - 1
        /\ UNCHANGED pc
  /\ UNCHANGED <<image, registry, patterns, hits, capacity, pattern>>

\* A block that cannot be read is skipped.
ReadBlock ==
  /\ pc = "read" /\ block < total_blocks
  /\ \/ /\ pc' = "match" /\ pattern' = 1
        /\ UNCHANGED <<block, unread, failures>>
     \/ /\ Fail
        /\ block' = block + 1
        /\ unread' = unread \cup {block}
        /\ UNCHANGED <<pc, pattern>>
  /\ UNCHANGED <<image, registry, patterns, hits, capacity, scan_from, lost, scans>>

\* Mutant of NewHit: the offset in the block is not added.
NewHitAtBlock(b, o, p) ==
  [block |-> b, byte_offset |-> b * BlockSize, type_name |-> p.type_name,
   is_footer |-> p.sig.is_footer]

NewHit(b, o, p) ==
  [block |-> b, byte_offset |-> b * BlockSize + o, type_name |-> p.type_name,
   is_footer |-> p.sig.is_footer]

\* One turn of the inner loop; what add_hit answers is not looked at.
MatchPattern ==
  /\ pc = "match" /\ pattern <= Len(patterns)
  /\ pattern' = pattern + 1
  /\ LET p == patterns[pattern]
         found == Found(block, p.sig)
     IN  \/ found = {} /\ UNCHANGED <<hits, capacity, lost, failures>>
         \/ \E o \in found :
              /\ hits' = Append(hits, NewHit(block, o, p))
              /\ Room("hits", Len(hits))
              /\ UNCHANGED <<lost, failures>>
         \/ /\ found # {}
            /\ Fail
            /\ lost' = lost \cup {<<block, pattern>>}
            /\ Room("hits", Len(hits)) \/ UNCHANGED capacity
            /\ UNCHANGED hits
  /\ UNCHANGED <<image, registry, patterns, pc, block, scan_from, unread, scans>>

NextBlock ==
  /\ pc = "match" /\ pattern > Len(patterns)
  /\ pc' = "read"
  /\ block' = block + 1
  /\ UNCHANGED <<image, registry, patterns, hits, capacity, pattern, scan_from, unread, lost,
                 scans, failures>>

EndScan ==
  /\ pc = "read" /\ block = total_blocks
  /\ pc' = "idle"
  /\ UNCHANGED <<image, registry, patterns, hits, capacity, scanning, failures>>

\* What discovery_get_headers_for_type and discovery_get_footers_for_type copy.
HitsFor(type, is_footer) ==
  {h \in ToSet(hits) : h.is_footer = is_footer /\ h.type_name = type}

-----------------------------------------------------------------------------
DiscoveryInit ==
  /\ image \in Images
  /\ types = <<>> /\ patterns = <<>> /\ hits = <<>>
  /\ capacity = [types |-> TypeCapacity, patterns |-> PatternCapacity, hits |-> HitCapacity]
  /\ pc = "types"
  /\ next_type = 1
  /\ block = 0 /\ pattern = 1
  /\ scans = 0 /\ failures = 0
  /\ scan_from = 0 /\ unread = {} /\ lost = {}

DiscoveryNext ==
  \/ RegisterType \/ TypesDone \/ RegisterSignature \/ SignaturesDone
  \/ StartScan \/ ReadBlock \/ MatchPattern \/ NextBlock \/ EndScan

-----------------------------------------------------------------------------
DiscoveryTypeOK ==
  /\ Len(types) <= capacity["types"]
  /\ Len(patterns) <= capacity["patterns"]
  /\ Len(hits) <= capacity["hits"]
  /\ pc \in {"types", "signatures", "idle", "read", "match", "carve"}
  /\ block \in 0 .. total_blocks
  /\ pattern \in 1 .. Len(patterns) + 1
  /\ scan_from \in 0 .. Len(hits)
  /\ failures \in 0 .. MaxFailures

\* The built-in headers exclude one another: a block is never the start of
\* files of two types, even after a second scan.
OneTypePerBlock ==
  \A g, h \in UNION {HitsFor(t.name, FALSE) : t \in ToSet(types)} :
    g.block = h.block => g.type_name = h.type_name

\* Every hit, of this scan or an earlier one, is a registered signature that is
\* in the image at the offset it gives, inside one block, and no block starts
\* files of two types.
HitsAreReal ==
  /\ DiscoveryTypeOK
  /\ \A h \in ToSet(hits) : \E p \in ToSet(patterns) :
       /\ p.type_name = h.type_name /\ p.sig.is_footer = h.is_footer
       /\ Matches(h.byte_offset, p.sig.bytes)
       /\ h.block = h.byte_offset \div BlockSize
       /\ h.byte_offset + Len(p.sig.bytes) <= (h.block + 1) * BlockSize
  /\ OneTypePerBlock

\* Where a signature is to be found in an image, in the order of the places.
Occurrences(sig, b) ==
  {o \in 0 .. BlockSize - Len(sig.bytes) :
     /\ Matches(b * BlockSize + o, sig.bytes)
     /\ sig.offset = o \/ sig.offset = Anywhere}

\* A scan that is done has one hit, in the order of the blocks, for every
\* signature and every block that contains it where it may be, the first place
\* if there are several, except in blocks it could not read and for hits it
\* could not store.  A second scan finds the same again.
ScanComplete ==
  pc = "idle" /\ scans > 0 =>
    LET new == SubSeq(hits, scan_from + 1, Len(hits))
        due == {d \in (0 .. total_blocks - 1) \X DOMAIN patterns :
                  /\ d[1] \notin unread /\ d \notin lost
                  /\ Occurrences(patterns[d[2]].sig, d[1]) # {}}
    IN  /\ Len(new) = Cardinality(due)
        /\ \A i, j \in DOMAIN new : i < j => new[i].block <= new[j].block
        /\ \A d \in due :
             LET p == patterns[d[2]]
             IN  \E h \in ToSet(new) :
                   /\ h.type_name = p.type_name
                   /\ h.is_footer = p.sig.is_footer
                   /\ h.byte_offset = d[1] * BlockSize + Min(Occurrences(p.sig, d[1]))
=============================================================================
