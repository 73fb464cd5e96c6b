---------------------------- MODULE CarvingProofs ---------------------------
(***************************************************************************)
(* What discovery finds is there, and what is there is found, for images,  *)
(* blocks and registered types of any size and number; and block vectors   *)
(* are stacks of blocks: every step of Carving is a step of SlotStack or a *)
(* stutter, for vectors of any length and capacity.                        *)
(***************************************************************************)
EXTENDS Carving, SequenceTheorems, FiniteSetTheorems, WellFoundedInduction, TLAPS

-----------------------------------------------------------------------------
(* Signatures in a block. *)

\* The natural numbers are well founded, so every set of them has a least one.
Below == {p \in Nat \X Nat : p[1] < p[2]}

LEMMA MinIsLeast ==
  ASSUME NEW S \in SUBSET Nat, S # {}
  PROVE  Min(S) \in S /\ \A y \in S : Min(S) <= y
<1>1. IsWellFoundedOn(Below, Nat)
  BY NatLessThanWellFounded DEF Below, OpToRel
<1>2. PICK x \in S : \A y \in S : <<y, x>> \notin Below
  BY <1>1, WFMin
<1>3. \A y \in S : x <= y
  <2> SUFFICES ASSUME NEW y \in S, ~(x <= y) PROVE FALSE
    OBVIOUS
  <2>1. x \in Nat /\ y \in Nat /\ y < x
    OBVIOUS
  <2> QED
    BY <1>2, <2>1 DEF Below
<1> QED
  BY <1>3 DEF Min

\* discovery_scan looks at the places a signature may be at, and takes the first.
LEMMA FoundIsFirst ==
  ASSUME NEW b \in Nat, NEW sig \in Signature
  PROVE  /\ Occurrences(sig, b) \in SUBSET (0 .. BlockSize - Len(sig.bytes))
         /\ Found(b, sig) = {} <=> Occurrences(sig, b) = {}
         /\ \A o \in Found(b, sig) :
              /\ o \in Occurrences(sig, b)
              /\ o = Min(Occurrences(sig, b))
<1>1. /\ BlockSize \in Nat \ {0}
      /\ Len(sig.bytes) \in Nat
      /\ sig.offset \in Nat \cup {-1}
  BY DiscoveryParameters DEF Signature, Anywhere
<1> DEFINE S == Occurrences(sig, b)
<1>2. S \in SUBSET (0 .. BlockSize - Len(sig.bytes))
  BY DEF Occurrences
<1>3. S # {} => Min(S) \in S
  <2>1. S \in SUBSET Nat
    BY <1>1, <1>2
  <2> HIDE DEF S
  <2> QED
    BY <2>1, MinIsLeast
<1>4. CASE sig.offset = Anywhere
  <2>1. Found(b, sig) = IF S = {} THEN {} ELSE {Min(S)}
    <3>1. S = {i \in 0 .. BlockSize - Len(sig.bytes) : Matches(b * BlockSize + i, sig.bytes)}
      BY <1>4 DEF Occurrences
    <3> QED
      BY <1>4, <3>1 DEF Found, FirstMatch
  <2> QED
    BY <1>2, <1>3, <2>1
<1>5. CASE sig.offset # Anywhere
  <2>1. sig.offset \in Nat
    BY <1>1, <1>5 DEF Anywhere
  <2>2. Found(b, sig) = S
    BY <1>1, <1>5, <2>1 DEF Found, Occurrences
  <2>3. S \subseteq {sig.offset}
    BY <1>5 DEF Occurrences
  <2> QED
    BY <1>2, <1>3, <2>2, <2>3
<1> QED
  BY <1>4, <1>5

\* A place in a block, and the block of the place.
LEMMA PlaceInBlock ==
  ASSUME NEW b \in Nat, NEW k \in Nat \ {0}, NEW o \in 0 .. k - 1
  PROVE  b * k + o \in Nat /\ (b * k + o) \div k = b
<1>1. b * k \in Nat
  OBVIOUS
<1> QED
  BY <1>1

-----------------------------------------------------------------------------
(* What the registry, the engine and the scan have. *)

Pattern == [sig: Signature, type_name: TypeNames]
Hit == [block: Nat, byte_offset: Nat, type_name: TypeNames, is_footer: BOOLEAN]

DiscoveryTyped ==
  /\ image \in Seq(0 .. 255)
  /\ types \in Seq(Descriptor)
  /\ patterns \in Seq(Pattern)
  /\ hits \in Seq(Hit)
  /\ capacity \in [{"types", "patterns", "hits"} -> Nat \ {0}]
  /\ next_type \in Nat \ {0}
  /\ scans \in Nat
  /\ unread \in SUBSET Nat
  /\ pc \in {"types", "signatures"} => scans = 0
  /\ pc = "match" => block < total_blocks
  /\ DiscoveryTypeOK

\* A header's signature is one, ...
LEMMA HeaderTyped ==
  ASSUME NEW m \in Seq(0 .. 255), m # <<>>, NEW name \in TypeNames
  PROVE  LET t == [name |-> name, signatures |-> <<Header(m)>>]
         IN  t \in Descriptor /\ Len(t.signatures) = 1
<1>1. Header(m) \in Signature
  BY DEF Header, Signature
<1>2. <<Header(m)>> \in Seq(Signature) /\ Len(<<Header(m)>>) = 1
  BY <1>1
<1> QED
  BY <1>2 DEF Descriptor

\* ... as are those of the built-in types.
LEMMA DefaultsTyped ==
  /\ Defaults \in Seq(Descriptor) /\ Len(Defaults) = 7
  /\ \A i \in 1 .. 7 : Len(Defaults[i].signatures) = 1
<1>1. LET t == [name |-> "JPEG", signatures |-> <<Header(<<255, 216, 255>>)>>]
      IN  t \in Descriptor /\ Len(t.signatures) = 1
  <2>1. /\ <<255, 216, 255>> \in Seq(0 .. 255)
        /\ <<255, 216, 255>> # <<>>
    OBVIOUS
  <2>2. "JPEG" \in TypeNames
    BY DEF TypeNames
  <2> QED
    BY <2>1, <2>2, HeaderTyped
<1>2. LET t == [name |-> "PNG", signatures |-> <<Header(<<137, 80, 78, 71, 13, 10, 26, 10>>)>>]
      IN  t \in Descriptor /\ Len(t.signatures) = 1
  <2>1. /\ <<137, 80, 78, 71, 13, 10, 26, 10>> \in Seq(0 .. 255)
        /\ <<137, 80, 78, 71, 13, 10, 26, 10>> # <<>>
    OBVIOUS
  <2>2. "PNG" \in TypeNames
    BY DEF TypeNames
  <2> QED
    BY <2>1, <2>2, HeaderTyped
<1>3. LET t == [name |-> "PDF", signatures |-> <<Header(<<37, 80, 68, 70, 45>>)>>]
      IN  t \in Descriptor /\ Len(t.signatures) = 1
  <2>1. /\ <<37, 80, 68, 70, 45>> \in Seq(0 .. 255)
        /\ <<37, 80, 68, 70, 45>> # <<>>
    OBVIOUS
  <2>2. "PDF" \in TypeNames
    BY DEF TypeNames
  <2> QED
    BY <2>1, <2>2, HeaderTyped
<1>4. LET t == [name |-> "ZIP", signatures |-> <<Header(<<80, 75, 3, 4>>)>>]
      IN  t \in Descriptor /\ Len(t.signatures) = 1
  <2>1. /\ <<80, 75, 3, 4>> \in Seq(0 .. 255)
        /\ <<80, 75, 3, 4>> # <<>>
    OBVIOUS
  <2>2. "ZIP" \in TypeNames
    BY DEF TypeNames
  <2> QED
    BY <2>1, <2>2, HeaderTyped
<1>5. LET t == [name |-> "GIF", signatures |-> <<Header(<<71, 73, 70, 56, 57, 97>>)>>]
      IN  t \in Descriptor /\ Len(t.signatures) = 1
  <2>1. /\ <<71, 73, 70, 56, 57, 97>> \in Seq(0 .. 255)
        /\ <<71, 73, 70, 56, 57, 97>> # <<>>
    OBVIOUS
  <2>2. "GIF" \in TypeNames
    BY DEF TypeNames
  <2> QED
    BY <2>1, <2>2, HeaderTyped
<1>6. LET t == [name |-> "MP3", signatures |-> <<Header(<<255, 251>>)>>]
      IN  t \in Descriptor /\ Len(t.signatures) = 1
  <2>1. /\ <<255, 251>> \in Seq(0 .. 255)
        /\ <<255, 251>> # <<>>
    OBVIOUS
  <2>2. "MP3" \in TypeNames
    BY DEF TypeNames
  <2> QED
    BY <2>1, <2>2, HeaderTyped
<1>7. LET t == [name |-> "ELF", signatures |-> <<Header(<<127, 69, 76, 70>>)>>]
      IN  t \in Descriptor /\ Len(t.signatures) = 1
  <2>1. /\ <<127, 69, 76, 70>> \in Seq(0 .. 255)
        /\ <<127, 69, 76, 70>> # <<>>
    OBVIOUS
  <2>2. "ELF" \in TypeNames
    BY DEF TypeNames
  <2> QED
    BY <2>1, <2>2, HeaderTyped
<1> QED
  BY <1>1, <1>2, <1>3, <1>4, <1>5, <1>6, <1>7 DEF Defaults

\* What is registered: the built-in types, then the program's own.
LEMMA RegisteredOnes ==
  /\ ToRegister \in Seq(Descriptor)
  /\ \A i \in 1 .. Len(ToRegister) :
       /\ i \in 1 .. 7 => ToRegister[i] = Defaults[i]
       /\ i \notin 1 .. 7 => i - 7 \in DOMAIN CustomTypes /\ ToRegister[i] = CustomTypes[i - 7]
<1>1. /\ Defaults \in Seq(Descriptor) /\ Len(Defaults) = 7
      /\ CustomTypes \in Seq(Descriptor)
  BY DefaultsTyped, TypeParameters
<1>2. Len(CustomTypes) \in Nat /\ DOMAIN CustomTypes = 1 .. Len(CustomTypes)
  BY <1>1
<1>3. ToRegister = Defaults \o CustomTypes
  BY DEF ToRegister
<1>4. /\ Defaults \o CustomTypes \in Seq(Descriptor)
      /\ Len(Defaults \o CustomTypes) = Len(Defaults) + Len(CustomTypes)
      /\ \A i \in 1 .. Len(Defaults) + Len(CustomTypes) : (Defaults \o CustomTypes)[i] =
           IF i <= Len(Defaults) THEN Defaults[i] ELSE CustomTypes[i - Len(Defaults)]
  BY <1>1, ConcatProperties
<1> QED
  BY <1>1, <1>2, <1>3, <1>4

LEMMA ToRegisterTyped ==
  /\ ToRegister \in Seq(Descriptor)
  /\ \A i \in 1 .. Len(ToRegister) :
       /\ ToRegister[i].signatures[1] \in Signature
       /\ ToRegister[i].signatures # NULL
       /\ ToRegister[i].name \in TypeNames
<1>1. ASSUME NEW i \in 1 .. Len(ToRegister)
      PROVE  /\ ToRegister[i].signatures \in Seq(Signature)
             /\ Len(ToRegister[i].signatures) = 1
             /\ ToRegister[i].name \in TypeNames
  <2>1. ToRegister[i] \in Descriptor
    BY RegisteredOnes
  <2>2. Len(ToRegister[i].signatures) = 1
    BY RegisteredOnes, DefaultsTyped, TypeParameters
  <2> QED
    BY <2>1, <2>2 DEF Descriptor
<1>2. ASSUME NEW s \in Seq(Signature), Len(s) = 1
      PROVE  s[1] \in Signature /\ s # NULL
  BY <1>2 DEF NULL
<1> QED
  BY <1>1, <1>2, RegisteredOnes

LEMMA BlocksTyped ==
  ASSUME image \in Seq(0 .. 255)
  PROVE  total_blocks \in Nat
BY DiscoveryParameters DEF total_blocks

LEMMA InitTyped == DiscoveryInit => DiscoveryTyped
<1> SUFFICES ASSUME DiscoveryInit PROVE DiscoveryTyped
  OBVIOUS
<1>1. image \in Seq(0 .. 255) /\ total_blocks \in Nat
  BY DiscoveryParameters, BlocksTyped DEF DiscoveryInit
<1>2. capacity \in [{"types", "patterns", "hits"} -> Nat \ {0}]
  BY DiscoveryParameters DEF DiscoveryInit
<1> QED
  BY <1>1, <1>2, DiscoveryParameters DEF DiscoveryInit, DiscoveryTyped, DiscoveryTypeOK

\* An array has room for one more element after Room.
LEMMA RoomMade ==
  ASSUME capacity \in [{"types", "patterns", "hits"} -> Nat \ {0}],
         NEW a \in {"types", "patterns", "hits"}, NEW n \in Nat, n <= capacity[a], Room(a, n)
  PROVE  /\ capacity' \in [{"types", "patterns", "hits"} -> Nat \ {0}]
         /\ n + 1 <= capacity'[a]
         /\ \A c \in {"types", "patterns", "hits"} : capacity[c] <= capacity'[c]
<1>1. capacity' = [capacity EXCEPT ![a] = IF n = @ THEN 2 * @ ELSE @]
  BY DEF Room
<1>2. capacity[a] \in Nat \ {0}
  OBVIOUS
<1> DEFINE c == IF n = capacity[a] THEN 2 * capacity[a] ELSE capacity[a]
<1>3. c \in Nat \ {0} /\ n + 1 <= c /\ capacity[a] <= c
  BY <1>2
<1>4. capacity' = [capacity EXCEPT ![a] = c]
  BY <1>1
<1> HIDE DEF c
<1> QED
  BY <1>3, <1>4

\* ... and an array that gets an element, or only the room for it, stays inside.
LEMMA Stored ==
  ASSUME capacity \in [{"types", "patterns", "hits"} -> Nat \ {0}],
         NEW a \in {"types", "patterns", "hits"}, NEW S, NEW s \in Seq(S), NEW t,
         Len(s) <= capacity[a],
         \/ (\E x \in S : t = Append(s, x)) /\ Room(a, Len(s))
         \/ t = s /\ Room(a, Len(s))
         \/ t = s /\ UNCHANGED capacity
  PROVE  /\ capacity' \in [{"types", "patterns", "hits"} -> Nat \ {0}]
         /\ \A c \in {"types", "patterns", "hits"} : capacity[c] <= capacity'[c]
         /\ t \in Seq(S) /\ Len(s) <= Len(t) /\ Len(t) <= capacity'[a]
<1>1. Len(s) \in Nat
  OBVIOUS
<1>2. \A c \in {"types", "patterns", "hits"} : capacity[c] \in Nat
  OBVIOUS
<1>3. CASE Room(a, Len(s))
  <2>1. /\ capacity' \in [{"types", "patterns", "hits"} -> Nat \ {0}]
        /\ Len(s) + 1 <= capacity'[a]
        /\ \A c \in {"types", "patterns", "hits"} : capacity[c] <= capacity'[c]
    BY <1>1, <1>3, RoomMade
  <2>2. CASE \E x \in S : t = Append(s, x)
    <3>1. t \in Seq(S) /\ Len(t) = Len(s) + 1
      BY <2>2
    <3> QED
      BY <1>1, <2>1, <3>1
  <2>3. CASE t = s
    BY <1>1, <1>2, <2>1, <2>3
  <2> QED
    BY <2>2, <2>3, <1>1, <1>2
<1>4. CASE t = s /\ UNCHANGED capacity
  BY <1>1, <1>2, <1>4
<1> QED
  BY <1>3, <1>4

\* A step that changes one of the arrays.
LEMMA StillTyped ==
  ASSUME DiscoveryTyped,
         types' \in Seq(Descriptor), patterns' \in Seq(Pattern), hits' \in Seq(Hit),
         capacity' \in [{"types", "patterns", "hits"} -> Nat \ {0}],
         Len(types') <= capacity'["types"],
         Len(patterns') <= capacity'["patterns"],
         Len(hits') <= capacity'["hits"],
         Len(hits) <= Len(hits'),
         next_type' \in Nat \ {0}, pattern' \in 1 .. Len(patterns') + 1,
         UNCHANGED failures \/ Fail,
         UNCHANGED <<image, pc, block, scan_from, unread, scans>>
  PROVE  DiscoveryTyped'
<1>1. total_blocks' = total_blocks
  BY DEF total_blocks
<1>2. scan_from \in 0 .. Len(hits')
  BY DEF DiscoveryTyped, DiscoveryTypeOK
<1>3. failures' \in 0 .. MaxFailures
  <2>1. MaxFailures \in Nat
    BY DiscoveryParameters
  <2>2. failures \in 0 .. MaxFailures
    BY DEF DiscoveryTyped, DiscoveryTypeOK
  <2> QED
    BY <2>1, <2>2 DEF Fail
<1>4. DiscoveryTypeOK'
  BY <1>1, <1>2, <1>3 DEF DiscoveryTyped, DiscoveryTypeOK
<1> QED
  BY <1>1, <1>4 DEF DiscoveryTyped

\* What the steps leave typed.
LEMMA RegisterTypeTyped == DiscoveryTyped /\ RegisterType => DiscoveryTyped'
<1> SUFFICES ASSUME DiscoveryTyped, RegisterType PROVE DiscoveryTyped'
  OBVIOUS
<1> DEFINE desc == ToRegister[next_type]
<1>1. desc \in Descriptor /\ [desc EXCEPT !.signatures = NULL] \in Descriptor
  <2>1. next_type \in 1 .. Len(ToRegister)
    BY ToRegisterTyped DEF RegisterType, DiscoveryTyped
  <2>2. desc \in Descriptor
    BY <2>1, ToRegisterTyped
  <2>3. NULL \in Seq(Signature)
    BY DEF NULL
  <2> HIDE DEF desc
  <2> QED
    BY <2>2, <2>3 DEF Descriptor
<1> HIDE DEF desc
<1>2. /\ \/ (\E t \in Descriptor : types' = Append(types, t)) /\ Room("types", Len(types))
         \/ types' = types /\ Room("types", Len(types))
         \/ types' = types /\ UNCHANGED capacity
      /\ next_type' = next_type + 1
      /\ UNCHANGED failures \/ Fail
      /\ UNCHANGED <<image, patterns, hits, pc, block, pattern, scan_from, unread, scans>>
  BY <1>1 DEF RegisterType, desc, scanning
<1>3. /\ types \in Seq(Descriptor) /\ Len(types) <= capacity["types"]
      /\ capacity \in [{"types", "patterns", "hits"} -> Nat \ {0}]
      /\ next_type \in Nat \ {0}
      /\ patterns \in Seq(Pattern) /\ Len(patterns) <= capacity["patterns"]
      /\ hits \in Seq(Hit) /\ Len(hits) <= capacity["hits"]
      /\ pattern \in 1 .. Len(patterns) + 1
  BY DEF DiscoveryTyped, DiscoveryTypeOK
<1>4. /\ capacity' \in [{"types", "patterns", "hits"} -> Nat \ {0}]
      /\ \A c \in {"types", "patterns", "hits"} : capacity[c] <= capacity'[c]
      /\ types' \in Seq(Descriptor) /\ Len(types') <= capacity'["types"]
  BY <1>2, <1>3, Stored
<1>5. /\ Len(patterns') <= capacity'["patterns"]
      /\ Len(hits') <= capacity'["hits"] /\ Len(hits) <= Len(hits')
  <2>1. Len(patterns) \in Nat /\ Len(hits) \in Nat
    BY <1>3
  <2>2. \A c \in {"types", "patterns", "hits"} : capacity[c] \in Nat /\ capacity'[c] \in Nat
    BY <1>3, <1>4
  <2> QED
    BY <1>2, <1>3, <1>4, <2>1, <2>2
<1>6. next_type' \in Nat \ {0}
  BY <1>2, <1>3
<1> QED
  BY <1>2, <1>3, <1>4, <1>5, <1>6, StillTyped

LEMMA RegisterSignatureTyped == DiscoveryTyped /\ RegisterSignature => DiscoveryTyped'
<1> SUFFICES ASSUME DiscoveryTyped, RegisterSignature PROVE DiscoveryTyped'
  OBVIOUS
<1> DEFINE t == types[next_type]
           p == [sig |-> t.signatures[1], type_name |-> t.name]
<1>1. t.signatures # NULL => p \in Pattern
  <2>1. t \in Descriptor
    BY DEF RegisterSignature, DiscoveryTyped
  <2> HIDE DEF t
  <2>2. t.signatures \in Seq(Signature) /\ t.name \in TypeNames
    BY <2>1 DEF Descriptor
  <2>3. \A s \in Seq(Signature) : s # NULL => s[1] \in Signature
    BY DEF NULL
  <2> QED
    BY <2>2, <2>3 DEF Pattern
<1>2. /\ \/ p \in Pattern /\ patterns' = Append(patterns, p) /\ Room("patterns", Len(patterns))
         \/ patterns' = patterns /\ Room("patterns", Len(patterns))
         \/ patterns' = patterns /\ UNCHANGED capacity
      /\ next_type' = next_type + 1
      /\ UNCHANGED failures \/ Fail
      /\ UNCHANGED <<image, types, hits, pc, block, pattern, scan_from, unread, scans>>
  BY <1>1 DEF RegisterSignature, scanning
<1> HIDE DEF t, p
<1>3. /\ types \in Seq(Descriptor) /\ Len(types) <= capacity["types"]
      /\ capacity \in [{"types", "patterns", "hits"} -> Nat \ {0}]
      /\ next_type \in Nat \ {0}
      /\ patterns \in Seq(Pattern) /\ Len(patterns) <= capacity["patterns"]
      /\ hits \in Seq(Hit) /\ Len(hits) <= capacity["hits"]
      /\ pattern \in 1 .. Len(patterns) + 1
  BY DEF DiscoveryTyped, DiscoveryTypeOK
<1>4. /\ capacity' \in [{"types", "patterns", "hits"} -> Nat \ {0}]
      /\ \A c \in {"types", "patterns", "hits"} : capacity[c] <= capacity'[c]
      /\ patterns' \in Seq(Pattern)
      /\ Len(patterns) <= Len(patterns') /\ Len(patterns') <= capacity'["patterns"]
  BY <1>2, <1>3, Stored
<1>5. /\ Len(types') <= capacity'["types"]
      /\ Len(hits') <= capacity'["hits"] /\ Len(hits) <= Len(hits')
      /\ pattern' \in 1 .. Len(patterns') + 1
  <2>1. Len(types) \in Nat /\ Len(hits) \in Nat /\ Len(patterns) \in Nat /\ Len(patterns') \in Nat
    BY <1>3, <1>4
  <2>2. \A c \in {"types", "patterns", "hits"} : capacity[c] \in Nat /\ capacity'[c] \in Nat
    BY <1>3, <1>4
  <2> QED
    BY <1>2, <1>3, <1>4, <2>1, <2>2
<1>6. next_type' \in Nat \ {0}
  BY <1>2, <1>3
<1> QED
  BY <1>2, <1>3, <1>4, <1>5, <1>6, StillTyped

\* A hit that is found.
LEMMA HitTyped ==
  ASSUME DiscoveryTyped, pc = "match", pattern <= Len(patterns),
         NEW o \in Found(block, patterns[pattern].sig)
  PROVE  NewHit(block, o, patterns[pattern]) \in Hit
<1> DEFINE p == patterns[pattern]
<1>1. p \in Pattern /\ block \in Nat /\ BlockSize \in Nat
  <2>1. patterns \in Seq(Pattern) /\ pattern \in 1 .. Len(patterns) + 1 /\ pattern <= Len(patterns)
    BY DEF DiscoveryTyped, DiscoveryTypeOK
  <2>2. p \in Pattern
    BY <2>1
  <2>3. total_blocks \in Nat /\ block \in 0 .. total_blocks
    BY BlocksTyped DEF DiscoveryTyped, DiscoveryTypeOK
  <2> QED
    BY <2>2, <2>3, DiscoveryParameters
<1>2. o \in Found(block, p.sig)
  OBVIOUS
<1> HIDE DEF p
<1>3. p.sig \in Signature /\ p.type_name \in TypeNames /\ p.sig.is_footer \in BOOLEAN
  BY <1>1 DEF Pattern, Signature
<1>4. o \in Nat
  BY <1>1, <1>2, <1>3, FoundIsFirst
<1>5. block * BlockSize + o \in Nat
  BY <1>1, <1>4
<1> QED
  BY <1>1, <1>3, <1>5 DEF NewHit, Hit, p

LEMMA MatchPatternTyped == DiscoveryTyped /\ MatchPattern => DiscoveryTyped'
<1> SUFFICES ASSUME DiscoveryTyped, MatchPattern PROVE DiscoveryTyped'
  OBVIOUS
<1>1. /\ \/ (\E h \in Hit : hits' = Append(hits, h)) /\ Room("hits", Len(hits))
         \/ hits' = hits /\ Room("hits", Len(hits))
         \/ hits' = hits /\ UNCHANGED capacity
      /\ pattern <= Len(patterns) /\ pattern' = pattern + 1
      /\ UNCHANGED failures \/ Fail
      /\ UNCHANGED <<image, types, next_type, patterns, pc, block, scan_from, unread, scans>>
  BY HitTyped DEF MatchPattern, registry
<1>3. /\ types \in Seq(Descriptor) /\ Len(types) <= capacity["types"]
      /\ capacity \in [{"types", "patterns", "hits"} -> Nat \ {0}]
      /\ next_type \in Nat \ {0}
      /\ patterns \in Seq(Pattern) /\ Len(patterns) <= capacity["patterns"]
      /\ hits \in Seq(Hit) /\ Len(hits) <= capacity["hits"]
      /\ pattern \in 1 .. Len(patterns) + 1
  BY DEF DiscoveryTyped, DiscoveryTypeOK
<1>4. /\ capacity' \in [{"types", "patterns", "hits"} -> Nat \ {0}]
      /\ \A c \in {"types", "patterns", "hits"} : capacity[c] <= capacity'[c]
      /\ hits' \in Seq(Hit)
      /\ Len(hits) <= Len(hits') /\ Len(hits') <= capacity'["hits"]
  BY <1>1, <1>3, Stored
<1>5. /\ Len(types') <= capacity'["types"]
      /\ Len(patterns') <= capacity'["patterns"]
      /\ pattern' \in 1 .. Len(patterns') + 1
  <2>1. Len(types) \in Nat /\ Len(patterns) \in Nat
    BY <1>3
  <2>2. \A c \in {"types", "patterns", "hits"} : capacity[c] \in Nat /\ capacity'[c] \in Nat
    BY <1>3, <1>4
  <2> QED
    BY <1>1, <1>3, <1>4, <2>1, <2>2
<1> QED
  BY <1>1, <1>3, <1>4, <1>5, StillTyped

\* The steps that leave the arrays.
LEMMA OthersTyped ==
  DiscoveryTyped /\ (TypesDone \/ SignaturesDone \/ StartScan \/ ReadBlock \/ NextBlock \/ EndScan)
    => DiscoveryTyped'
<1> SUFFICES ASSUME DiscoveryTyped, TypesDone \/ SignaturesDone \/ StartScan \/ ReadBlock
                                      \/ NextBlock \/ EndScan
             PROVE  DiscoveryTyped'
  OBVIOUS
<1>1. /\ total_blocks \in Nat /\ block \in 0 .. total_blocks
      /\ Len(patterns) \in Nat /\ pattern \in 1 .. Len(patterns) + 1
      /\ Len(hits) \in Nat /\ scan_from \in 0 .. Len(hits)
      /\ MaxFailures \in Nat /\ failures \in 0 .. MaxFailures
      /\ scans \in Nat /\ unread \in SUBSET Nat
      /\ next_type \in Nat \ {0}
      /\ pc \in {"types", "signatures", "idle", "read", "match", "carve"}
      /\ pc \in {"types", "signatures"} => scans = 0
      /\ pc = "match" => block < total_blocks
  <2>1. image \in Seq(0 .. 255) /\ patterns \in Seq(Pattern) /\ hits \in Seq(Hit)
    BY DEF DiscoveryTyped
  <2>2. total_blocks \in Nat /\ Len(patterns) \in Nat /\ Len(hits) \in Nat /\ MaxFailures \in Nat
    BY <2>1, BlocksTyped, DiscoveryParameters
  <2> QED
    BY <2>2 DEF DiscoveryTyped, DiscoveryTypeOK
<1>2. UNCHANGED <<image, patterns, types, hits, capacity>> /\ total_blocks' = total_blocks
  BY DEF TypesDone, SignaturesDone, StartScan, ReadBlock, NextBlock, EndScan, registry, total_blocks
<1>3. /\ block' \in 0 .. total_blocks
      /\ pattern' \in 1 .. Len(patterns) + 1
      /\ scan_from' \in 0 .. Len(hits)
      /\ failures' \in 0 .. MaxFailures
      /\ scans' \in Nat /\ unread' \in SUBSET Nat
      /\ next_type' \in Nat \ {0}
      /\ pc' \in {"types", "signatures", "idle", "read", "match", "carve"}
      /\ pc' \in {"types", "signatures"} => scans' = 0
      /\ pc' = "match" => block' < total_blocks
  <2>1. CASE TypesDone \/ SignaturesDone \/ EndScan
    <3>1. /\ UNCHANGED <<block, pattern, scan_from, unread, scans, failures>>
          /\ next_type' \in {1, next_type}
      BY <2>1 DEF TypesDone, SignaturesDone, EndScan, scanning, registry
    <3>2. \/ pc = "types" /\ pc' = "signatures"
          \/ pc' = "idle"
      BY <2>1 DEF TypesDone, SignaturesDone, EndScan
    <3> QED
      BY <1>1, <3>1, <3>2
  <2>2. CASE StartScan
    <3>1. /\ scans' = scans + 1 /\ scan_from' = Len(hits) /\ UNCHANGED <<pattern, next_type>>
          /\ pc = "idle"
      BY <2>2 DEF StartScan, registry
    <3>2. CASE pc' = "read" /\ block' = 0 /\ unread' = {} /\ UNCHANGED failures
      BY <1>1, <3>1, <3>2
    <3>3. CASE /\ Fail /\ block' = total_blocks /\ unread' = 0 .. total_blocks - 1
               /\ UNCHANGED pc
      BY <1>1, <3>1, <3>3 DEF Fail
    <3> QED
      BY <2>2, <3>2, <3>3 DEF StartScan
  <2>3. CASE ReadBlock
    <3>1. /\ pc = "read" /\ block < total_blocks
          /\ UNCHANGED <<scan_from, scans, next_type>>
      BY <2>3 DEF ReadBlock, registry
    <3>2. CASE pc' = "match" /\ pattern' = 1 /\ UNCHANGED <<block, unread, failures>>
      BY <1>1, <3>1, <3>2
    <3>3. CASE /\ Fail /\ block' = block + 1
               /\ unread' = unread \cup {block} /\ UNCHANGED <<pc, pattern>>
      BY <1>1, <3>1, <3>3 DEF Fail
    <3> QED
      BY <2>3, <3>2, <3>3 DEF ReadBlock
  <2>4. CASE NextBlock
    BY <1>1, <2>4 DEF NextBlock, registry
  <2> QED
    BY <2>1, <2>2, <2>3, <2>4
<1>4. DiscoveryTypeOK'
  BY <1>2, <1>3 DEF DiscoveryTyped, DiscoveryTypeOK
<1> QED
  BY <1>2, <1>3, <1>4 DEF DiscoveryTyped

LEMMA DiscoveryStepTyped == DiscoveryTyped /\ DiscoveryNext => DiscoveryTyped'
BY RegisterTypeTyped, RegisterSignatureTyped, MatchPatternTyped, OthersTyped DEF DiscoveryNext

-----------------------------------------------------------------------------
(* What the hits are. *)

\* What the engine has comes from the types that were registered.
FromRegistry ==
  /\ \A i \in 1 .. Len(types) : \E j \in 1 .. Len(ToRegister) :
       /\ types[i].name = ToRegister[j].name
       /\ types[i].signatures \in {NULL, ToRegister[j].signatures}
  /\ \A i \in 1 .. Len(patterns) : \E j \in 1 .. Len(ToRegister) :
       patterns[i] = [sig |-> ToRegister[j].signatures[1], type_name |-> ToRegister[j].name]

\* Every hit is where the scan has found a pattern in a block.
HitsFound ==
  \A i \in 1 .. Len(hits) : \E b \in 0 .. total_blocks - 1, k \in 1 .. Len(patterns) :
    \E o \in Found(b, patterns[k].sig) : hits[i] = NewHit(b, o, patterns[k])

\* The elements of a sequence that grew.
LEMMA Grown ==
  ASSUME NEW S, NEW s \in Seq(S), NEW x \in S
  PROVE  /\ Len(Append(s, x)) = Len(s) + 1
         /\ \A i \in 1 .. Len(Append(s, x)) :
              \/ i = Len(s) + 1 /\ Append(s, x)[i] = x
              \/ i \in 1 .. Len(s) /\ Append(s, x)[i] = s[i]
BY AppendProperties

LEMMA FromRegistryKept ==
  DiscoveryTyped /\ FromRegistry /\ DiscoveryNext => FromRegistry'
<1> SUFFICES ASSUME DiscoveryTyped, FromRegistry, DiscoveryNext PROVE FromRegistry'
  OBVIOUS
<1>1. CASE RegisterType
  <2>1. next_type \in 1 .. Len(ToRegister) /\ patterns' = patterns
    BY <1>1, ToRegisterTyped DEF RegisterType, DiscoveryTyped
  <2> DEFINE desc == ToRegister[next_type]
             bare == [desc EXCEPT !.signatures = NULL]
  <2>2. types' \in {types, Append(types, desc), Append(types, bare)}
    BY <1>1 DEF RegisterType
  <2>3. /\ desc \in Descriptor /\ bare \in Descriptor
        /\ bare.name = desc.name /\ bare.signatures = NULL
    <3>1. desc \in Descriptor
      BY <2>1, ToRegisterTyped
    <3>2. NULL \in Seq(Signature)
      BY DEF NULL
    <3> HIDE DEF desc
    <3> QED
      BY <3>1, <3>2 DEF Descriptor
  <2>4. \A t \in {desc, bare} : t.name = desc.name /\ t.signatures \in {NULL, desc.signatures}
    BY <2>3
  <2>5. types \in Seq(Descriptor)
    BY DEF DiscoveryTyped
  <2>6. ASSUME NEW t \in {desc, bare}, types' = Append(types, t)
        PROVE  FromRegistry'
    <3>1. ASSUME NEW i \in 1 .. Len(types')
          PROVE  \E j \in 1 .. Len(ToRegister) :
                   /\ types'[i].name = ToRegister[j].name
                   /\ types'[i].signatures \in {NULL, ToRegister[j].signatures}
      <4>1. t \in Descriptor /\ t.name = desc.name /\ t.signatures \in {NULL, desc.signatures}
        BY <2>3, <2>4
      <4> HIDE DEF bare
      <4>2. \/ types'[i] = t
            \/ i \in 1 .. Len(types) /\ types'[i] = types[i]
        BY <2>5, <2>6, <4>1, Grown
      <4>3. CASE types'[i] = t
        BY <2>1, <4>1, <4>3
      <4>4. CASE i \in 1 .. Len(types) /\ types'[i] = types[i]
        BY <4>4 DEF FromRegistry
      <4> QED
        BY <4>2, <4>3, <4>4
    <3> QED
      BY <2>1, <3>1 DEF FromRegistry
  <2>7. CASE types' = types
    BY <2>1, <2>7 DEF FromRegistry
  <2> HIDE DEF desc, bare
  <2> QED
    BY <2>2, <2>6, <2>7
<1>2. CASE RegisterSignature
  <2> DEFINE t == types[next_type]
             p == [sig |-> t.signatures[1], type_name |-> t.name]
  <2>1. /\ next_type \in 1 .. Len(types) /\ types' = types
        /\ patterns' = patterns \/ (t.signatures # NULL /\ patterns' = Append(patterns, p))
    BY <1>2 DEF RegisterSignature, DiscoveryTyped
  <2>2. ASSUME t.signatures # NULL
        PROVE  \E j \in 1 .. Len(ToRegister) :
                 p = [sig |-> ToRegister[j].signatures[1], type_name |-> ToRegister[j].name]
    BY <2>1, <2>2 DEF FromRegistry
  <2>3. ASSUME t.signatures # NULL, patterns' = Append(patterns, p),
               NEW i \in 1 .. Len(patterns')
        PROVE  patterns'[i] = p \/ (i \in 1 .. Len(patterns) /\ patterns'[i] = patterns[i])
    <3>1. patterns \in Seq(Pattern)
      BY DEF DiscoveryTyped
    <3>2. p \in Pattern
      <4>1. types \in Seq(Descriptor)
        BY DEF DiscoveryTyped
      <4>2. t \in Descriptor
        BY <2>1, <4>1
      <4> HIDE DEF t
      <4>3. t.signatures \in Seq(Signature) /\ t.name \in TypeNames
        BY <4>2 DEF Descriptor
      <4>4. t.signatures[1] \in Signature
        BY <2>3, <4>3 DEF NULL
      <4> QED
        BY <4>3, <4>4 DEF Pattern
    <3> HIDE DEF p
    <3> QED
      BY <2>3, <3>1, <3>2, Grown
  <2> HIDE DEF p, t
  <2>4. \A i \in 1 .. Len(types') : \E j \in 1 .. Len(ToRegister) :
          /\ types'[i].name = ToRegister[j].name
          /\ types'[i].signatures \in {NULL, ToRegister[j].signatures}
    BY <2>1 DEF FromRegistry
  <2>5. ASSUME NEW i \in 1 .. Len(patterns')
        PROVE  \E j \in 1 .. Len(ToRegister) :
                 patterns'[i] = [sig |-> ToRegister[j].signatures[1],
                                 type_name |-> ToRegister[j].name]
    <3>1. CASE i \in 1 .. Len(patterns) /\ patterns'[i] = patterns[i]
      BY <3>1 DEF FromRegistry
    <3>2. CASE t.signatures # NULL /\ patterns'[i] = p
      BY <2>2, <3>2
    <3>3. CASE patterns' = patterns
      BY <3>1, <3>3
    <3> QED
      BY <2>1, <2>3, <3>1, <3>2, <3>3
  <2> QED
    BY <2>4, <2>5 DEF FromRegistry
<1>3. CASE UNCHANGED <<types, patterns>>
  BY <1>3 DEF FromRegistry
<1> QED
  BY <1>1, <1>2, <1>3 DEF DiscoveryNext, TypesDone, SignaturesDone, StartScan, ReadBlock,
       MatchPattern, NextBlock, EndScan, registry

LEMMA HitsFoundKept ==
  DiscoveryTyped /\ HitsFound /\ DiscoveryNext => HitsFound'
<1> SUFFICES ASSUME DiscoveryTyped, HitsFound, DiscoveryNext PROVE HitsFound'
  OBVIOUS
<1>1. image' = image
  BY DEF DiscoveryNext, RegisterType, TypesDone, RegisterSignature, SignaturesDone, StartScan,
         ReadBlock, MatchPattern, NextBlock, EndScan
<1>2. /\ total_blocks' = total_blocks
      /\ \A b, sig : Found(b, sig)' = Found(b, sig)
  BY <1>1 DEF total_blocks, Found, FirstMatch, Matches
<1>3. \A i \in 1 .. Len(patterns) : i \in 1 .. Len(patterns') /\ patterns'[i] = patterns[i]
  <2>1. patterns \in Seq(Pattern)
    BY DEF DiscoveryTyped
  <2>2. CASE RegisterSignature
    <3> DEFINE p == [sig |-> types[next_type].signatures[1], type_name |-> types[next_type].name]
    <3>1. patterns' = patterns \/ patterns' = Append(patterns, p)
      BY <2>2 DEF RegisterSignature
    <3> HIDE DEF p
    <3> QED
      BY <2>1, <3>1
  <2>3. CASE UNCHANGED patterns
    BY <2>1, <2>3
  <2> QED
    BY <2>2, <2>3 DEF DiscoveryNext, RegisterType, TypesDone, SignaturesDone, StartScan,
         ReadBlock, MatchPattern, NextBlock, EndScan
<1>4. ASSUME NEW i \in 1 .. Len(hits')
      PROVE  \/ i \in 1 .. Len(hits) /\ hits'[i] = hits[i]
             \/ /\ block \in 0 .. total_blocks - 1 /\ pattern \in 1 .. Len(patterns)
                /\ \E o \in Found(block, patterns[pattern].sig) :
                     hits'[i] = NewHit(block, o, patterns[pattern])
  <2>1. hits \in Seq(Hit)
    BY DEF DiscoveryTyped
  <2>2. CASE MatchPattern
    <3>1. /\ pc = "match" /\ pattern \in 1 .. Len(patterns)
          /\ block \in 0 .. total_blocks - 1
      BY <2>2, BlocksTyped DEF MatchPattern, DiscoveryTyped, DiscoveryTypeOK
    <3>2. \/ hits' = hits
          \/ \E o \in Found(block, patterns[pattern].sig) :
               hits' = Append(hits, NewHit(block, o, patterns[pattern]))
      BY <2>2 DEF MatchPattern
    <3>3. ASSUME NEW o \in Found(block, patterns[pattern].sig),
                 hits' = Append(hits, NewHit(block, o, patterns[pattern]))
          PROVE  \/ i \in 1 .. Len(hits) /\ hits'[i] = hits[i]
                 \/ hits'[i] = NewHit(block, o, patterns[pattern])
      <4>1. NewHit(block, o, patterns[pattern]) \in Hit
        BY <3>1, HitTyped
      <4> QED
        BY <2>1, <3>3, <4>1, Grown
    <3> QED
      BY <2>1, <3>1, <3>2, <3>3
  <2>3. CASE UNCHANGED hits
    BY <2>1, <2>3
  <2> QED
    BY <2>2, <2>3 DEF DiscoveryNext, RegisterType, TypesDone, RegisterSignature, SignaturesDone,
         StartScan, ReadBlock, NextBlock, EndScan
<1>5. \A b, o, p : NewHit(b, o, p)' = NewHit(b, o, p)
  BY DEF NewHit
<1> SUFFICES ASSUME NEW i \in 1 .. Len(hits')
             PROVE  \E b \in 0 .. total_blocks - 1, k \in 1 .. Len(patterns') :
                      \E o \in Found(b, patterns'[k].sig) : hits'[i] = NewHit(b, o, patterns'[k])
  BY <1>2 DEF HitsFound
<1>6. CASE i \in 1 .. Len(hits) /\ hits'[i] = hits[i]
  <2>1. PICK b \in 0 .. total_blocks - 1, k \in 1 .. Len(patterns) :
          \E o \in Found(b, patterns[k].sig) : hits[i] = NewHit(b, o, patterns[k])
    BY <1>6 DEF HitsFound
  <2>2. k \in 1 .. Len(patterns') /\ patterns'[k] = patterns[k]
    BY <1>3
  <2> QED
    BY <1>6, <2>1, <2>2
<1>7. CASE /\ block \in 0 .. total_blocks - 1 /\ pattern \in 1 .. Len(patterns)
           /\ \E o \in Found(block, patterns[pattern].sig) :
                hits'[i] = NewHit(block, o, patterns[pattern])
  <2>1. pattern \in 1 .. Len(patterns') /\ patterns'[pattern] = patterns[pattern]
    BY <1>3, <1>7
  <2> QED
    BY <1>7, <2>1
<1> QED
  BY <1>4, <1>6, <1>7

\* Two headers no block can begin with both: the bytes they ask for differ
\* somewhere.
Exclude(g, h) ==
  /\ g.offset \in Nat /\ h.offset \in Nat
  /\ \E i \in 1 .. Len(g.bytes), j \in 1 .. Len(h.bytes) :
       g.offset + i = h.offset + j /\ g.bytes[i] # h.bytes[j]

\* The headers of different types exclude one another.
HeadersExclude ==
  \A i, j \in 1 .. Len(ToRegister) :
    LET g == ToRegister[i].signatures[1]
        h == ToRegister[j].signatures[1]
    IN  ~g.is_footer /\ ~h.is_footer /\ ToRegister[i].name # ToRegister[j].name => Exclude(g, h)

\* A hit is in the image where it says, inside one block.
HitInImage(h, p) ==
  /\ p.type_name = h.type_name /\ p.sig.is_footer = h.is_footer
  /\ Matches(h.byte_offset, p.sig.bytes)
  /\ h.block = h.byte_offset \div BlockSize
  /\ h.byte_offset + Len(p.sig.bytes) <= (h.block + 1) * BlockSize

LEMMA FoundInImage ==
  ASSUME NEW b \in Nat, NEW p \in Pattern, NEW o \in Found(b, p.sig)
  PROVE  HitInImage(NewHit(b, o, p), p)
<1>1. /\ p.sig \in Signature /\ BlockSize \in Nat \ {0}
  BY DiscoveryParameters DEF Pattern
<1>2. Len(p.sig.bytes) \in Nat \ {0}
  <2>1. p.sig.bytes \in Seq(0 .. 255) \ {<<>>}
    BY <1>1 DEF Signature
  <2> QED
    BY <2>1
<1>3. o \in 0 .. BlockSize - Len(p.sig.bytes) /\ o \in Occurrences(p.sig, b)
  BY <1>1, FoundIsFirst
<1>4. Matches(b * BlockSize + o, p.sig.bytes)
  BY <1>3 DEF Occurrences
<1>5. o \in 0 .. BlockSize - 1
  BY <1>1, <1>2, <1>3
<1>6. (b * BlockSize + o) \div BlockSize = b
  BY <1>1, <1>5, PlaceInBlock
<1>7. b * BlockSize + o + Len(p.sig.bytes) <= (b + 1) * BlockSize
  <2> DEFINE base == b * BlockSize
             last == (b + 1) * BlockSize
  <2>1. base \in Nat /\ last = base + BlockSize
    BY <1>1
  <2> HIDE DEF base, last
  <2>2. base + o + Len(p.sig.bytes) <= last
    <3> DEFINE n == Len(p.sig.bytes)
    <3>1. n \in Nat /\ BlockSize \in Nat /\ o \in 0 .. BlockSize - n
      BY <1>1, <1>2, <1>3
    <3> HIDE DEF n
    <3>2. o \in Nat /\ o + n <= BlockSize
      BY <3>1
    <3>3. base + o + n <= last
      BY <2>1, <3>1, <3>2
    <3> QED
      BY <3>3 DEF n
  <2> QED
    BY <2>2 DEF base, last
<1> QED
  BY <1>4, <1>6, <1>7 DEF HitInImage, NewHit

\* The bytes of the image under a pattern that is found.
LEMMA BytesOfImage ==
  ASSUME image \in Seq(0 .. 255), NEW b \in Nat, NEW sig \in Signature, NEW o \in Found(b, sig),
         NEW i \in 1 .. Len(sig.bytes)
  PROVE  image[b * BlockSize + o + i] = sig.bytes[i]
<1> DEFINE at == b * BlockSize + o
<1>1. o \in Occurrences(sig, b) /\ o \in Nat /\ BlockSize \in Nat
  BY FoundIsFirst, DiscoveryParameters DEF Signature
<1>2. at \in Nat
  <2>1. b * BlockSize \in Nat
    BY <1>1
  <2> QED
    BY <1>1, <2>1
<1>3. Matches(at, sig.bytes)
  BY <1>1 DEF Occurrences
<1> HIDE DEF at
<1>4. sig.bytes \in Seq(0 .. 255)
  BY DEF Signature
<1>5. /\ at + Len(sig.bytes) <= Len(image)
      /\ SubSeq(image, at + 1, at + Len(sig.bytes)) = sig.bytes
  BY <1>3 DEF Matches
<1>6. SubSeq(image, at + 1, at + Len(sig.bytes))[i] = image[at + i]
  <2>1. Len(sig.bytes) \in Nat /\ Len(image) \in Nat /\ i \in Nat
    BY <1>4
  <2> QED
    BY <1>2, <1>5, <2>1
<1>7. image[at + i] = sig.bytes[i]
  BY <1>5, <1>6
<1> QED
  BY <1>7 DEF at

\* The pattern of a header that was found.
LEMMA HeaderOfHit ==
  ASSUME DiscoveryTyped, FromRegistry, HitsFound, NEW h \in ToSet(hits), ~h.is_footer
  PROVE  \E j \in 1 .. Len(ToRegister) :
           /\ ~ToRegister[j].signatures[1].is_footer
           /\ ToRegister[j].name = h.type_name
           /\ h.block \in Nat
           /\ \E o \in Found(h.block, ToRegister[j].signatures[1]) : TRUE
<1>0. PICK i \in 1 .. Len(hits) : h = hits[i]
  <2>1. hits \in Seq(Hit)
    BY DEF DiscoveryTyped
  <2> QED
    BY <2>1 DEF ToSet
<1>1. PICK b \in 0 .. total_blocks - 1, k \in 1 .. Len(patterns) :
        \E o \in Found(b, patterns[k].sig) : h = NewHit(b, o, patterns[k])
  BY <1>0 DEF HitsFound
<1>2. PICK o \in Found(b, patterns[k].sig) : h = NewHit(b, o, patterns[k])
  BY <1>1
<1>3. PICK j \in 1 .. Len(ToRegister) :
        patterns[k] = [sig |-> ToRegister[j].signatures[1], type_name |-> ToRegister[j].name]
  BY DEF FromRegistry
<1>4. total_blocks \in Nat
  BY BlocksTyped DEF DiscoveryTyped
<1>5. h.block = b /\ h.type_name = patterns[k].type_name /\ h.is_footer = patterns[k].sig.is_footer
  BY <1>2 DEF NewHit
<1> DEFINE sig == ToRegister[j].signatures[1]
<1>6. patterns[k].sig = sig /\ patterns[k].type_name = ToRegister[j].name
  BY <1>3
<1>7. ~sig.is_footer /\ ToRegister[j].name = h.type_name /\ o \in Found(h.block, sig)
  BY <1>5, <1>6
<1>8. h.block \in Nat
  BY <1>4, <1>5
<1> QED
  BY <1>7, <1>8

\* Headers that exclude one another are not found in one block.
LEMMA Excluded ==
  ASSUME image \in Seq(0 .. 255), NEW b \in Nat, NEW g \in Signature, NEW h \in Signature,
         Exclude(g, h), NEW o \in Found(b, g), NEW q \in Found(b, h)
  PROVE  FALSE
<1>1. PICK i \in 1 .. Len(g.bytes), j \in 1 .. Len(h.bytes) :
        g.offset + i = h.offset + j /\ g.bytes[i] # h.bytes[j]
  BY DEF Exclude
<1>2. o = g.offset /\ q = h.offset
  BY DEF Exclude, Found, Anywhere
<1>3. image[b * BlockSize + o + i] = g.bytes[i] /\ image[b * BlockSize + q + j] = h.bytes[j]
  BY BytesOfImage
<1>4. b * BlockSize + o + i = b * BlockSize + q + j
  <2> DEFINE base == b * BlockSize
  <2>1. base \in Nat /\ i \in Nat /\ j \in Nat /\ o \in Nat /\ q \in Nat
    <3>1. Len(g.bytes) \in Nat /\ Len(h.bytes) \in Nat
      BY DEF Signature
    <3>2. i \in Nat /\ j \in Nat
      BY <3>1
    <3>3. o \in Nat /\ q \in Nat
      BY <1>2 DEF Exclude
    <3>4. BlockSize \in Nat
      BY DiscoveryParameters
    <3>5. base \in Nat
      BY <3>4
    <3> QED
      BY <3>2, <3>3, <3>5
  <2> HIDE DEF base
  <2>2. o + i = q + j
    BY <1>1, <1>2
  <2>3. base + o + i = base + q + j
    BY <2>1, <2>2
  <2> QED
    BY <2>3 DEF base
<1> QED
  BY <1>1, <1>3, <1>4

\* The headers that were found in a block are of one type.
LEMMA OneType ==
  ASSUME DiscoveryTyped, FromRegistry, HitsFound, HeadersExclude
  PROVE  OneTypePerBlock
<1> SUFFICES ASSUME NEW g \in ToSet(hits), NEW h \in ToSet(hits), ~g.is_footer, ~h.is_footer,
                    g.block = h.block, g.type_name # h.type_name
             PROVE  FALSE
  BY DEF OneTypePerBlock, HitsFor
<1>1. PICK i \in 1 .. Len(ToRegister) :
        /\ ~ToRegister[i].signatures[1].is_footer
        /\ ToRegister[i].name = g.type_name
        /\ g.block \in Nat
        /\ \E o \in Found(g.block, ToRegister[i].signatures[1]) : TRUE
  BY HeaderOfHit
<1>2. PICK j \in 1 .. Len(ToRegister) :
        /\ ~ToRegister[j].signatures[1].is_footer
        /\ ToRegister[j].name = h.type_name
        /\ h.block \in Nat
        /\ \E o \in Found(h.block, ToRegister[j].signatures[1]) : TRUE
  BY HeaderOfHit
<1>3. Exclude(ToRegister[i].signatures[1], ToRegister[j].signatures[1])
  BY <1>1, <1>2 DEF HeadersExclude
<1>4. /\ ToRegister[i].signatures[1] \in Signature
      /\ ToRegister[j].signatures[1] \in Signature
      /\ image \in Seq(0 .. 255)
  BY ToRegisterTyped DEF DiscoveryTyped
<1> QED
  BY <1>1, <1>2, <1>3, <1>4, Excluded

\* The invariants hold what HitsAreReal says, one type per block apart.
LEMMA HitsInImage ==
  ASSUME DiscoveryTyped, HitsFound
  PROVE  \A h \in ToSet(hits) : \E p \in ToSet(patterns) : HitInImage(h, p)
<1> SUFFICES ASSUME NEW h \in ToSet(hits)
             PROVE  \E p \in ToSet(patterns) : HitInImage(h, p)
  OBVIOUS
<1>0. PICK i \in 1 .. Len(hits) : h = hits[i]
  <2>1. hits \in Seq(Hit)
    BY DEF DiscoveryTyped
  <2> QED
    BY <2>1 DEF ToSet
<1>1. PICK b \in 0 .. total_blocks - 1, k \in 1 .. Len(patterns) :
        \E o \in Found(b, patterns[k].sig) : h = NewHit(b, o, patterns[k])
  BY <1>0 DEF HitsFound
<1>2. /\ b \in Nat /\ patterns[k] \in Pattern /\ patterns[k] \in ToSet(patterns)
  BY BlocksTyped DEF DiscoveryTyped, ToSet
<1> QED
  BY <1>1, <1>2, FoundInImage

LEMMA HeaderFields == \A m : Header(m).offset = 0 /\ Header(m).bytes = m
BY DEF Header

\* The first bytes of the built-in headers differ, but for those of JPEG and MP3;
\* these differ in the second.
LEMMA BuiltInBytes ==
  /\ \A k \in 1 .. 7 : LET sig == Defaults[k].signatures[1]
                       IN  sig.offset = 0 /\ {1, 2} \subseteq 1 .. Len(sig.bytes)
  /\ \A k, l \in 1 .. 7 : k # l =>
       \E n \in {1, 2} : Defaults[k].signatures[1].bytes[n] # Defaults[l].signatures[1].bytes[n]
<1> DEFINE Sig(k)  == Defaults[k].signatures[1]
           Byte(k, n) == Sig(k).bytes[n]
<1>1. /\ Sig(1).offset = 0 /\ Len(Sig(1).bytes) = 3
      /\ Byte(1, 1) = 255 /\ Byte(1, 2) = 216
  <2>1. Sig(1) = Header(<<255, 216, 255>>)
    BY DEF Defaults
  <2> HIDE DEF Sig
  <2> QED
    BY <2>1, HeaderFields
<1>2. /\ Sig(2).offset = 0 /\ Len(Sig(2).bytes) = 8
      /\ Byte(2, 1) = 137 /\ Byte(2, 2) = 80
  <2>1. Sig(2) = Header(<<137, 80, 78, 71, 13, 10, 26, 10>>)
    BY DEF Defaults
  <2> HIDE DEF Sig
  <2> QED
    BY <2>1, HeaderFields
<1>3. /\ Sig(3).offset = 0 /\ Len(Sig(3).bytes) = 5
      /\ Byte(3, 1) = 37 /\ Byte(3, 2) = 80
  <2>1. Sig(3) = Header(<<37, 80, 68, 70, 45>>)
    BY DEF Defaults
  <2> HIDE DEF Sig
  <2> QED
    BY <2>1, HeaderFields
<1>4. /\ Sig(4).offset = 0 /\ Len(Sig(4).bytes) = 4
      /\ Byte(4, 1) = 80 /\ Byte(4, 2) = 75
  <2>1. Sig(4) = Header(<<80, 75, 3, 4>>)
    BY DEF Defaults
  <2> HIDE DEF Sig
  <2> QED
    BY <2>1, HeaderFields
<1>5. /\ Sig(5).offset = 0 /\ Len(Sig(5).bytes) = 6
      /\ Byte(5, 1) = 71 /\ Byte(5, 2) = 73
  <2>1. Sig(5) = Header(<<71, 73, 70, 56, 57, 97>>)
    BY DEF Defaults
  <2> HIDE DEF Sig
  <2> QED
    BY <2>1, HeaderFields
<1>6. /\ Sig(6).offset = 0 /\ Len(Sig(6).bytes) = 2
      /\ Byte(6, 1) = 255 /\ Byte(6, 2) = 251
  <2>1. Sig(6) = Header(<<255, 251>>)
    BY DEF Defaults
  <2> HIDE DEF Sig
  <2> QED
    BY <2>1, HeaderFields
<1>7. /\ Sig(7).offset = 0 /\ Len(Sig(7).bytes) = 4
      /\ Byte(7, 1) = 127 /\ Byte(7, 2) = 69
  <2>1. Sig(7) = Header(<<127, 69, 76, 70>>)
    BY DEF Defaults
  <2> HIDE DEF Sig
  <2> QED
    BY <2>1, HeaderFields
<1> HIDE DEF Sig
<1>8. \A k \in 1 .. 7 : Sig(k).offset = 0 /\ {1, 2} \subseteq 1 .. Len(Sig(k).bytes)
  <2>1. \A k \in 1 .. 7 : /\ Sig(k).offset = 0
                          /\ Len(Sig(k).bytes) \in Nat /\ Len(Sig(k).bytes) >= 2
    BY <1>1, <1>2, <1>3, <1>4, <1>5, <1>6, <1>7
  <2> QED
    BY <2>1
<1> HIDE DEF Byte
<1>9. \A k, l \in 1 .. 7 : k # l => Byte(k, 1) # Byte(l, 1) \/ Byte(k, 2) # Byte(l, 2)
  BY <1>1, <1>2, <1>3, <1>4, <1>5, <1>6, <1>7
<1> QED
  BY <1>8, <1>9 DEF Sig, Byte

\* The program's own types only add footers.
OwnFootersOnly == \A i \in DOMAIN CustomTypes : CustomTypes[i].signatures[1].is_footer

\* The built-in headers exclude one another.
LEMMA BuiltInExclude == OwnFootersOnly => HeadersExclude
<1> SUFFICES ASSUME OwnFootersOnly, NEW i \in 1 .. Len(ToRegister), NEW j \in 1 .. Len(ToRegister),
                    ~ToRegister[i].signatures[1].is_footer, ~ToRegister[j].signatures[1].is_footer,
                    ToRegister[i].name # ToRegister[j].name
             PROVE  Exclude(ToRegister[i].signatures[1], ToRegister[j].signatures[1])
  BY DEF HeadersExclude
<1>1. ASSUME NEW k \in 1 .. Len(ToRegister), ~ToRegister[k].signatures[1].is_footer
      PROVE  k \in 1 .. 7 /\ ToRegister[k] = Defaults[k]
  BY <1>1, RegisteredOnes DEF OwnFootersOnly
<1>2. /\ i \in 1 .. 7 /\ ToRegister[i] = Defaults[i]
      /\ j \in 1 .. 7 /\ ToRegister[j] = Defaults[j]
      /\ i # j
  BY <1>1
<1> DEFINE g == Defaults[i].signatures[1]
           h == Defaults[j].signatures[1]
<1>3. /\ g.offset = 0 /\ h.offset = 0
      /\ \E n \in {1, 2} : /\ n \in 1 .. Len(g.bytes) /\ n \in 1 .. Len(h.bytes)
                           /\ g.bytes[n] # h.bytes[n]
  BY <1>2, BuiltInBytes
<1> HIDE DEF g, h
<1>4. Exclude(g, h)
  BY <1>3 DEF Exclude
<1> QED
  BY <1>2, <1>4 DEF g, h

-----------------------------------------------------------------------------
(* What a scan has found. *)

\* The blocks and patterns a scan owes a hit, ...
Due == {d \in (0 .. total_blocks - 1) \X (1 .. Len(patterns)) :
          /\ d[1] \notin unread /\ d \notin lost
          /\ Occurrences(patterns[d[2]].sig, d[1]) # {}}

\* ... those it is done with, ...
Done(d) == d[1] < block \/ (pc = "match" /\ d[1] = block /\ d[2] < pattern)
SoFar == {d \in Due : Done(d)}

\* ... and the hit.
HitAt(d) == NewHit(d[1], Min(Occurrences(patterns[d[2]].sig, d[1])), patterns[d[2]])

Scanning == pc \in {"read", "match"} \/ (pc = "idle" /\ scans > 0)

\* One hit for each of them so far, in the order of the blocks.
HitsSoFar ==
  /\ Len(hits) = scan_from + Cardinality(SoFar)
  /\ \A i \in scan_from + 1 .. Len(hits) : hits[i].block <= block
  /\ \A i, j \in scan_from + 1 .. Len(hits) : i < j => hits[i].block <= hits[j].block
  /\ \A d \in SoFar : \E i \in scan_from + 1 .. Len(hits) : hits[i] = HitAt(d)

Scanned ==
  /\ Scanning => /\ unread \subseteq 0 .. block - 1
                 /\ lost \subseteq Nat \X Nat
                 /\ \A d \in lost : Done(d)
                 /\ HitsSoFar
  /\ pc = "idle" /\ scans > 0 => block = total_blocks

LEMMA SoFarFinite == DiscoveryTyped => IsFiniteSet(SoFar) /\ IsFiniteSet(Due)
<1> SUFFICES ASSUME DiscoveryTyped PROVE IsFiniteSet(SoFar) /\ IsFiniteSet(Due)
  OBVIOUS
<1>1. 0 \in Int /\ 1 \in Int /\ total_blocks - 1 \in Int /\ Len(patterns) \in Int
  BY BlocksTyped DEF DiscoveryTyped
<1>2. IsFiniteSet(0 .. total_blocks - 1) /\ IsFiniteSet(1 .. Len(patterns))
  BY <1>1, FS_Interval
<1>3. IsFiniteSet((0 .. total_blocks - 1) \X (1 .. Len(patterns)))
  BY <1>2, FS_Product
<1>4. /\ Due \in SUBSET ((0 .. total_blocks - 1) \X (1 .. Len(patterns)))
      /\ SoFar \in SUBSET ((0 .. total_blocks - 1) \X (1 .. Len(patterns)))
  BY DEF Due, SoFar
<1> QED
  BY <1>3, <1>4, FS_Subset

\* A step that finds nothing, with the same blocks and patterns to go.
LEMMA QuietScanned ==
  ASSUME HitsSoFar, UNCHANGED <<image, patterns, hits, scan_from>>, SoFar' = SoFar,
         block \in Nat, block' \in Nat, block <= block', hits \in Seq(Hit), scan_from \in Nat
  PROVE  HitsSoFar'
<1>1. \A sig, b : Occurrences(sig, b)' = Occurrences(sig, b)
  BY DEF Occurrences, Matches
<1>2. \A d : HitAt(d)' = HitAt(d)
  BY <1>1 DEF HitAt, NewHit
<1>3. \A i \in scan_from + 1 .. Len(hits) : hits[i].block \in Nat
  <2>1. \A i \in 1 .. Len(hits) : hits[i] \in Hit
    OBVIOUS
  <2>2. \A i \in scan_from + 1 .. Len(hits) : i \in 1 .. Len(hits)
    OBVIOUS
  <2> QED
    BY <2>1, <2>2 DEF Hit
<1>4. \A i \in scan_from + 1 .. Len(hits) : hits[i].block <= block'
  BY <1>3 DEF HitsSoFar
<1> QED
  BY <1>2, <1>4 DEF HitsSoFar

\* The blocks and patterns to go.
LEMMA OccurrencesKept ==
  ASSUME UNCHANGED image
  PROVE  /\ total_blocks' = total_blocks
         /\ \A sig, b : Occurrences(sig, b)' = Occurrences(sig, b)
BY DEF Occurrences, Matches, total_blocks

LEMMA ReadBlockScanned ==
  DiscoveryTyped /\ Scanned /\ ReadBlock => Scanned'
<1> SUFFICES ASSUME DiscoveryTyped, Scanned, ReadBlock PROVE Scanned'
  OBVIOUS
<1>1. /\ pc = "read" /\ block \in Nat /\ block < total_blocks
      /\ UNCHANGED <<image, patterns, hits, scan_from, lost, scans>>
      /\ hits \in Seq(Hit) /\ scan_from \in Nat
  BY BlocksTyped DEF ReadBlock, DiscoveryTyped, DiscoveryTypeOK
<1>2. /\ total_blocks' = total_blocks
      /\ \A sig, b : Occurrences(sig, b)' = Occurrences(sig, b)
  BY <1>1, OccurrencesKept
<1>3. /\ unread \subseteq 0 .. block - 1 /\ HitsSoFar
      /\ lost \subseteq Nat \X Nat /\ \A d \in lost : d[1] \in Nat /\ d[1] < block
  BY <1>1 DEF Scanned, Scanning, Done
<1>4. SoFar = {d \in Due : d[1] < block}
  BY <1>1 DEF SoFar, Done
<1>5. CASE pc' = "match" /\ pattern' = 1 /\ UNCHANGED <<block, unread, failures>>
  <2>1. Due' = Due
    BY <1>1, <1>2, <1>5 DEF Due
  <2>2. \A d \in Due : Done(d)' <=> d[1] < block
    BY <1>1, <1>5 DEF Done, Due
  <2>3. SoFar' = SoFar
    BY <1>4, <2>1, <2>2 DEF SoFar
  <2>4. HitsSoFar'
    BY <1>1, <1>3, <1>5, <2>3, QuietScanned
  <2> QED
    BY <1>1, <1>3, <1>5, <2>4 DEF Scanned, Done
<1>6. CASE /\ Fail /\ block' = block + 1
           /\ unread' = unread \cup {block} /\ UNCHANGED <<pc, pattern>>
  <2>1. Due' = {d \in Due : d[1] # block}
    BY <1>1, <1>2, <1>6 DEF Due
  <2>2. \A d \in Due : d[1] \in Nat /\ (Done(d)' <=> d[1] < block + 1)
    BY <1>1, <1>6 DEF Done, Due
  <2>3. SoFar' = SoFar
    BY <1>1, <1>4, <2>1, <2>2 DEF SoFar
  <2>4. HitsSoFar'
    BY <1>1, <1>3, <1>6, <2>3, QuietScanned
  <2>5. \A d \in lost : d[1] < block + 1
    BY <1>1, <1>3
  <2>6. unread' \subseteq 0 .. block' - 1
    BY <1>1, <1>3, <1>6
  <2> QED
    BY <1>1, <1>3, <1>6, <2>4, <2>5, <2>6 DEF Scanned, Done
<1> QED
  BY <1>5, <1>6 DEF ReadBlock

LEMMA NextBlockScanned ==
  DiscoveryTyped /\ Scanned /\ NextBlock => Scanned'
<1> SUFFICES ASSUME DiscoveryTyped, Scanned, NextBlock PROVE Scanned'
  OBVIOUS
<1>1. /\ pc = "match" /\ pc' = "read" /\ block' = block + 1
      /\ block \in Nat /\ Len(patterns) \in Nat /\ pattern \in Nat /\ pattern > Len(patterns)
      /\ UNCHANGED <<image, patterns, hits, scan_from, lost, unread, scans>>
      /\ hits \in Seq(Hit) /\ scan_from \in Nat
  BY BlocksTyped DEF NextBlock, DiscoveryTyped, DiscoveryTypeOK
<1>2. /\ total_blocks' = total_blocks
      /\ \A sig, b : Occurrences(sig, b)' = Occurrences(sig, b)
  BY <1>1, OccurrencesKept
<1>3. /\ unread \subseteq 0 .. block - 1 /\ HitsSoFar
      /\ lost \subseteq Nat \X Nat
      /\ \A d \in lost : d[1] \in Nat /\ (d[1] < block \/ d[1] = block)
  BY <1>1 DEF Scanned, Scanning, Done
<1>4. Due' = Due
  BY <1>1, <1>2 DEF Due
<1>5. \A d \in Due : Done(d)' <=> Done(d)
  <2>1. \A d \in Due : d[1] \in Nat /\ d[2] \in 1 .. Len(patterns)
    BY <1>1 DEF Due
  <2>2. \A d \in Due : d[2] < pattern
    BY <1>1, <2>1
  <2> QED
    BY <1>1, <2>1, <2>2 DEF Done
<1>6. SoFar' = SoFar
  BY <1>4, <1>5 DEF SoFar
<1>7. HitsSoFar'
  BY <1>1, <1>3, <1>6, QuietScanned
<1>8. \A d \in lost : d[1] < block + 1
  BY <1>1, <1>3
<1>9. unread \subseteq 0 .. block' - 1
  BY <1>1, <1>3
<1> QED
  BY <1>1, <1>3, <1>7, <1>8, <1>9 DEF Scanned, Done

LEMMA EndScanScanned ==
  DiscoveryTyped /\ Scanned /\ EndScan => Scanned'
<1> SUFFICES ASSUME DiscoveryTyped, Scanned, EndScan PROVE Scanned'
  OBVIOUS
<1>1. /\ pc = "read" /\ pc' = "idle" /\ block = total_blocks /\ block \in Nat
      /\ UNCHANGED <<image, patterns, hits, scan_from, lost, unread, scans, block, pattern>>
      /\ hits \in Seq(Hit) /\ scan_from \in Nat
  BY BlocksTyped DEF EndScan, DiscoveryTyped, DiscoveryTypeOK, scanning
<1>2. /\ total_blocks' = total_blocks
      /\ \A sig, b : Occurrences(sig, b)' = Occurrences(sig, b)
  BY <1>1, OccurrencesKept
<1>3. \A d : Done(d)' <=> Done(d)
  BY <1>1 DEF Done
<1>4. SoFar' = SoFar
  <2>1. Due' = Due
    BY <1>1, <1>2 DEF Due
  <2> QED
    BY <1>3, <2>1 DEF SoFar
<1>5. /\ unread \subseteq 0 .. block - 1 /\ HitsSoFar
      /\ lost \subseteq Nat \X Nat /\ \A d \in lost : Done(d)
  BY <1>1 DEF Scanned, Scanning
<1>6. HitsSoFar'
  BY <1>1, <1>4, <1>5, QuietScanned
<1> QED
  BY <1>1, <1>2, <1>3, <1>5, <1>6 DEF Scanned

LEMMA StartScanScanned ==
  DiscoveryTyped /\ StartScan => Scanned'
<1> SUFFICES ASSUME DiscoveryTyped, StartScan PROVE Scanned'
  OBVIOUS
<1>1. /\ \/ pc' = "read" /\ block' = 0 /\ unread' = {}
         \/ /\ pc' = "idle" /\ block' = total_blocks
            /\ unread' = 0 .. total_blocks - 1
      /\ lost' = {} /\ scan_from' = Len(hits)
      /\ UNCHANGED <<hits, image>> /\ Len(hits) \in Nat
  BY DEF StartScan, DiscoveryTyped
<1>2. total_blocks' = total_blocks /\ total_blocks \in Nat
  BY <1>1, BlocksTyped DEF total_blocks, DiscoveryTyped
<1>3. SoFar' = {}
  <2>1. CASE pc' = "read" /\ block' = 0
    <3>1. \A d \in Due' : ~Done(d)'
      BY <1>2, <2>1 DEF Due, Done
    <3> QED
      BY <3>1 DEF SoFar
  <2>2. CASE unread' = 0 .. total_blocks - 1
    <3>1. Due' = {}
      BY <1>2, <2>2 DEF Due
    <3> QED
      BY <3>1 DEF SoFar
  <2> QED
    BY <1>1, <2>1, <2>2
<1>4. Len(hits') = scan_from' + Cardinality(SoFar')
  BY <1>1, <1>3, FS_EmptySet
<1>5. scan_from' + 1 .. Len(hits') = {}
  BY <1>1
<1>6. HitsSoFar'
  BY <1>3, <1>4, <1>5 DEF HitsSoFar
<1>7. unread' \subseteq 0 .. block' - 1
  BY <1>1
<1> QED
  BY <1>1, <1>2, <1>6, <1>7 DEF Scanned

\* A pattern is done with: its hit is the last, or there is none, or it is lost.
LEMMA MatchPatternScanned ==
  DiscoveryTyped /\ Scanned /\ MatchPattern => Scanned'
<1> SUFFICES ASSUME DiscoveryTyped, Scanned, MatchPattern PROVE Scanned'
  OBVIOUS
<1> DEFINE here == <<block, pattern>>
           sig  == patterns[pattern].sig
<1>1. /\ pc = "match" /\ pc' = "match" /\ pattern' = pattern + 1
      /\ UNCHANGED <<image, patterns, block, scan_from, unread, scans>>
      /\ block \in Nat /\ block < total_blocks /\ total_blocks \in Nat
      /\ Len(patterns) \in Nat /\ pattern \in 1 .. Len(patterns)
      /\ hits \in Seq(Hit) /\ scan_from \in Nat /\ scan_from <= Len(hits)
  BY BlocksTyped DEF MatchPattern, DiscoveryTyped, DiscoveryTypeOK
<1>2. /\ total_blocks' = total_blocks
      /\ \A s, b : Occurrences(s, b)' = Occurrences(s, b)
  BY <1>1, OccurrencesKept
<1>3. /\ unread \subseteq 0 .. block - 1 /\ HitsSoFar
      /\ lost \subseteq Nat \X Nat /\ \A d \in lost : Done(d)
  BY <1>1 DEF Scanned, Scanning
<1>4. \A d \in Nat \X Nat : Done(d)' <=> Done(d) \/ d = here
  BY <1>1 DEF Done
<1>5. here \notin SoFar /\ here \notin lost /\ block \notin unread
  BY <1>1, <1>3 DEF SoFar, Done
<1>6. /\ patterns[pattern] \in Pattern /\ sig \in Signature
  <2>1. patterns[pattern] \in Pattern
    BY <1>1 DEF DiscoveryTyped
  <2> QED
    BY <2>1 DEF Pattern
<1>7. Found(block, sig) = {} <=> Occurrences(sig, block) = {}
  BY <1>1, <1>6, FoundIsFirst
<1>8. \A d \in Due : d \in Nat \X Nat
  BY <1>1 DEF Due
<1>9. \A d : HitAt(d)' = HitAt(d)
  BY <1>1, <1>2 DEF HitAt, NewHit
<1>10. \A i \in scan_from + 1 .. Len(hits) : i \in 1 .. Len(hits) /\ hits[i].block \in Nat
  <2>1. \A i \in 1 .. Len(hits) : hits[i] \in Hit
    BY <1>1
  <2>2. \A i \in scan_from + 1 .. Len(hits) : i \in 1 .. Len(hits)
    BY <1>1
  <2> QED
    BY <2>1, <2>2 DEF Hit
<1>11. CASE Found(block, sig) = {} /\ UNCHANGED <<hits, lost>>
  <2>1. Due' = Due
    BY <1>1, <1>2, <1>11 DEF Due
  <2>2. here \notin Due
    BY <1>7, <1>11 DEF Due
  <2>3. SoFar' = SoFar
    BY <1>4, <1>8, <2>1, <2>2 DEF SoFar
  <2>4. HitsSoFar'
    BY <1>1, <1>3, <1>11, <2>3, QuietScanned
  <2> QED
    BY <1>1, <1>3, <1>4, <1>11, <2>4 DEF Scanned
<1>12. CASE Found(block, sig) # {} /\ hits' = hits /\ lost' = lost \cup {here}
  <2>1. Due' = Due \ {here}
    BY <1>1, <1>2, <1>12 DEF Due
  <2>2. SoFar' = SoFar
    BY <1>4, <1>5, <1>8, <2>1 DEF SoFar
  <2>3. HitsSoFar'
    BY <1>1, <1>3, <1>12, <2>2, QuietScanned
  <2>4. here \in Nat \X Nat
    BY <1>1
  <2> QED
    BY <1>1, <1>3, <1>4, <1>12, <2>3, <2>4 DEF Scanned
<1>13. ASSUME NEW o \in Found(block, sig),
              hits' = Append(hits, NewHit(block, o, patterns[pattern])), lost' = lost
       PROVE  Scanned'
  <2> DEFINE h == NewHit(block, o, patterns[pattern])
  <2>1. h \in Hit /\ h.block = block
    BY <1>1, HitTyped DEF NewHit
  <2>2. here \in Due /\ h = HitAt(here)
    <3>1. o = Min(Occurrences(sig, block)) /\ Occurrences(sig, block) # {}
      BY <1>1, <1>6, FoundIsFirst
    <3> QED
      BY <1>1, <1>5, <3>1 DEF Due, HitAt
  <2>3. SoFar' = SoFar \cup {here}
    <3>1. Due' = Due
      BY <1>1, <1>2, <1>13 DEF Due
    <3> QED
      BY <1>4, <1>8, <2>2, <3>1 DEF SoFar
  <2>4. Cardinality(SoFar') = Cardinality(SoFar) + 1 /\ Cardinality(SoFar) \in Nat
    BY <1>5, <2>3, SoFarFinite, FS_AddElement, FS_CardinalityType
  <2>5. hits' = Append(hits, h)
    BY <1>13
  <2> HIDE DEF h, here
  <2>6. /\ Len(hits') = Len(hits) + 1 /\ hits'[Len(hits) + 1] = h
        /\ \A i \in 1 .. Len(hits) : hits'[i] = hits[i]
    BY <1>1, <2>1, <2>5
  <2>7. Len(hits') = scan_from' + Cardinality(SoFar')
    BY <1>1, <1>3, <2>4, <2>6 DEF HitsSoFar
  <2>8. \A i \in scan_from + 1 .. Len(hits') :
          \/ i \in scan_from + 1 .. Len(hits) /\ hits'[i] = hits[i]
          \/ i = Len(hits) + 1 /\ hits'[i] = h
    BY <1>1, <1>10, <2>6
  <2>9. \A i \in scan_from + 1 .. Len(hits') : hits'[i].block <= block
    BY <1>1, <1>3, <2>1, <2>8 DEF HitsSoFar
  <2>10. ASSUME NEW i \in scan_from + 1 .. Len(hits'), NEW j \in scan_from + 1 .. Len(hits'), i < j
         PROVE  hits'[i].block <= hits'[j].block
    <3>1. i \in Nat /\ j \in Nat /\ Len(hits) \in Nat /\ j <= Len(hits) + 1
      BY <1>1, <2>6
    <3>2. i \in scan_from + 1 .. Len(hits) /\ hits'[i] = hits[i]
      BY <2>8, <2>10, <3>1
    <3>3. CASE j \in scan_from + 1 .. Len(hits) /\ hits'[j] = hits[j]
      BY <1>3, <2>10, <3>2, <3>3 DEF HitsSoFar
    <3>4. CASE hits'[j] = h
      BY <1>3, <2>1, <3>2, <3>4 DEF HitsSoFar
    <3> QED
      BY <2>8, <3>3, <3>4
  <2>11. ASSUME NEW d \in SoFar'
         PROVE  \E i \in scan_from + 1 .. Len(hits') : hits'[i] = HitAt(d)
    <3>1. CASE d = here
      <4>1. Len(hits) + 1 \in scan_from + 1 .. Len(hits')
        BY <1>1, <2>6
      <4> QED
        BY <2>2, <2>6, <3>1, <4>1
    <3>2. CASE d \in SoFar
      <4>1. PICK i \in scan_from + 1 .. Len(hits) : hits[i] = HitAt(d)
        BY <1>3, <3>2 DEF HitsSoFar
      <4>2. i \in scan_from + 1 .. Len(hits') /\ hits'[i] = hits[i]
        BY <1>1, <1>10, <2>6
      <4> QED
        BY <4>1, <4>2
    <3> QED
      BY <2>3, <3>1, <3>2
  <2>12. HitsSoFar'
    BY <1>1, <1>9, <2>7, <2>9, <2>10, <2>11 DEF HitsSoFar
  <2> QED
    BY <1>1, <1>3, <1>4, <1>13, <2>12 DEF Scanned
<1> QED
  BY <1>11, <1>12, <1>13 DEF MatchPattern

\* Before the first scan there is nothing to show.
LEMMA RegistrationScanned ==
  DiscoveryTyped /\ (RegisterType \/ TypesDone \/ RegisterSignature \/ SignaturesDone) => Scanned'
<1> SUFFICES ASSUME DiscoveryTyped,
                    RegisterType \/ TypesDone \/ RegisterSignature \/ SignaturesDone
             PROVE  Scanned'
  OBVIOUS
<1>1. pc \in {"types", "signatures"} /\ scans' = scans
  BY DEF RegisterType, TypesDone, RegisterSignature, SignaturesDone, scanning
<1>2. scans' = 0
  BY <1>1 DEF DiscoveryTyped
<1>3. pc' \in {"types", "signatures", "idle"}
  BY <1>1 DEF RegisterType, TypesDone, RegisterSignature, SignaturesDone
<1> QED
  BY <1>2, <1>3 DEF Scanned, Scanning

-----------------------------------------------------------------------------
(* The invariant. *)

DiscoveryInv == DiscoveryTyped /\ FromRegistry /\ HitsFound /\ Scanned

LEMMA DiscoveryInitInv == Init => DiscoveryInv
<1> SUFFICES ASSUME Init PROVE DiscoveryInv
  OBVIOUS
<1>1. DiscoveryTyped
  BY InitTyped DEF Init
<1>2. /\ types = <<>> /\ patterns = <<>> /\ hits = <<>>
      /\ pc = "types"
  BY DEF Init, DiscoveryInit
<1>3. FromRegistry /\ HitsFound
  BY <1>2 DEF FromRegistry, HitsFound
<1>4. Scanned
  BY <1>2 DEF Scanned, Scanning
<1> QED
  BY <1>1, <1>3, <1>4 DEF DiscoveryInv

\* A carve leaves what discovery has.
LEMMA CarveKeeps ==
  ASSUME DiscoveryInv, UNCHANGED <<image, registry, patterns, hits, capacity, scanning, failures>>,
         pc' = pc \/ pc' = "carve"
  PROVE  DiscoveryInv'
<1>1. UNCHANGED <<image, types, next_type, patterns, hits, capacity, failures>>
  BY DEF registry
<1>2. UNCHANGED <<block, pattern, scan_from, unread, lost, scans>>
  BY DEF scanning
<1>3. /\ total_blocks' = total_blocks
      /\ \A sig, b : Occurrences(sig, b)' = Occurrences(sig, b)
  BY <1>1, OccurrencesKept
<1>4. DiscoveryTyped'
  BY <1>1, <1>2, <1>3 DEF DiscoveryInv, DiscoveryTyped, DiscoveryTypeOK
<1>5. FromRegistry'
  BY <1>1 DEF DiscoveryInv, FromRegistry
<1>6. HitsFound'
  <2>1. \A b, sig : Found(b, sig)' = Found(b, sig)
    BY <1>1 DEF Found, FirstMatch, Matches
  <2>2. \A b, o, p : NewHit(b, o, p)' = NewHit(b, o, p)
    BY DEF NewHit
  <2> QED
    BY <1>1, <1>3, <2>1, <2>2 DEF DiscoveryInv, HitsFound
<1>7. Scanned'
  <2>1. CASE pc' = "carve"
    BY <2>1 DEF Scanned, Scanning
  <2>2. CASE pc' = pc
    <3>1. Due' = Due
      BY <1>1, <1>2, <1>3 DEF Due
    <3>2. \A d : Done(d)' <=> Done(d)
      BY <1>2, <2>2 DEF Done
    <3>3. SoFar' = SoFar
      BY <3>1, <3>2 DEF SoFar
    <3>4. HitsSoFar => HitsSoFar'
      BY <1>1, <1>2, <3>3, QuietScanned, BlocksTyped
         DEF DiscoveryInv, DiscoveryTyped, DiscoveryTypeOK
    <3> QED
      BY <1>2, <1>3, <2>2, <3>2, <3>4 DEF DiscoveryInv, Scanned, Scanning
  <2> QED
    BY <2>1, <2>2
<1> QED
  BY <1>4, <1>5, <1>6, <1>7 DEF DiscoveryInv

LEMMA DiscoveryNextInv == DiscoveryInv /\ [Next]_vars => DiscoveryInv'
<1> SUFFICES ASSUME DiscoveryInv, [Next]_vars PROVE DiscoveryInv'
  OBVIOUS
<1>1. CASE DiscoveryNext
  <2>1. DiscoveryTyped' /\ FromRegistry' /\ HitsFound'
    BY <1>1, DiscoveryStepTyped, FromRegistryKept, HitsFoundKept DEF DiscoveryInv
  <2>2. Scanned'
    BY <1>1, RegistrationScanned, StartScanScanned, ReadBlockScanned, MatchPatternScanned,
       NextBlockScanned, EndScanScanned
       DEF DiscoveryInv, DiscoveryNext
  <2> QED
    BY <2>1, <2>2 DEF DiscoveryInv
<1>2. CASE UNCHANGED dvars
  BY <1>2, CarveKeeps DEF dvars
<1>3. ASSUME NEW v \in Vectors, BeginCarve(v)
      PROVE  DiscoveryInv'
  BY <1>3, CarveKeeps DEF BeginCarve
<1> QED
  BY <1>1, <1>2, <1>3 DEF Next, vars, AppendBlock, Restore, MarkSlot, Clone, Free, Step

LEMMA DiscoveryIsSound == Spec => []DiscoveryInv
BY DiscoveryInitInv, DiscoveryNextInv, PTL DEF Spec

\* When a scan is done, nothing is left to find.
LEMMA DoneIsComplete == DiscoveryInv => ScanComplete
<1> SUFFICES ASSUME DiscoveryInv, pc = "idle", scans > 0
             PROVE  LET new == SubSeq(hits, scan_from + 1, Len(hits))
                        due == {d \in (0 .. total_blocks - 1) \X DOMAIN patterns :
                                  /\ d[1] \notin unread /\ d \notin lost
                                  /\ Occurrences(patterns[d[2]].sig, d[1]) # {}}
                    IN  /\ Len(new) = Cardinality(due)
                        /\ \A i, j \in DOMAIN new : i < j => new[i].block <= new[j].block
                        /\ \A d \in due :
                             LET p == patterns[d[2]]
                             IN  \E h \in ToSet(new) :
                                   /\ h.type_name = p.type_name
                                   /\ h.is_footer = p.sig.is_footer
                                   /\ h.byte_offset =
                                        d[1] * BlockSize + Min(Occurrences(p.sig, d[1]))
  BY DEF ScanComplete
<1> DEFINE new == SubSeq(hits, scan_from + 1, Len(hits))
           due == {d \in (0 .. total_blocks - 1) \X DOMAIN patterns :
                     /\ d[1] \notin unread /\ d \notin lost
                     /\ Occurrences(patterns[d[2]].sig, d[1]) # {}}
<1>1. /\ hits \in Seq(Hit) /\ Len(hits) \in Nat /\ scan_from \in 0 .. Len(hits)
      /\ patterns \in Seq(Pattern) /\ total_blocks \in Nat /\ block = total_blocks
      /\ HitsSoFar
  BY BlocksTyped DEF DiscoveryInv, DiscoveryTyped, DiscoveryTypeOK, Scanned, Scanning
<1>2. due = Due
  BY <1>1 DEF Due
<1>3. SoFar = Due
  <2>1. \A d \in Due : Done(d)
    BY <1>1 DEF Due, Done
  <2> QED
    BY <2>1 DEF SoFar
<1>4. Cardinality(Due) \in Nat
  BY SoFarFinite, FS_CardinalityType DEF DiscoveryInv
<1>5. /\ new \in Seq(Hit) /\ Len(new) = Len(hits) - scan_from
      /\ \A i \in 1 .. Len(new) : scan_from + i \in scan_from + 1 .. Len(hits)
                                  /\ new[i] = hits[scan_from + i]
  BY <1>1
<1>6. Len(new) = Cardinality(Due)
  BY <1>1, <1>3, <1>4, <1>5 DEF HitsSoFar
<1> HIDE DEF new, due
<1>7. DOMAIN new = 1 .. Len(new)
  BY <1>5
<1>8. ASSUME NEW i \in DOMAIN new, NEW j \in DOMAIN new, i < j
      PROVE  new[i].block <= new[j].block
  <2>1. /\ scan_from + i \in scan_from + 1 .. Len(hits) /\ new[i] = hits[scan_from + i]
        /\ scan_from + j \in scan_from + 1 .. Len(hits) /\ new[j] = hits[scan_from + j]
        /\ scan_from + i < scan_from + j
    BY <1>1, <1>5, <1>7, <1>8
  <2> QED
    BY <1>1, <2>1 DEF HitsSoFar
<1>9. ASSUME NEW d \in due
      PROVE  \E h \in ToSet(new) : h = HitAt(d)
  <2>1. PICK i \in scan_from + 1 .. Len(hits) : hits[i] = HitAt(d)
    BY <1>1, <1>2, <1>3 DEF HitsSoFar
  <2>2. i - scan_from \in 1 .. Len(new) /\ scan_from + (i - scan_from) = i
    BY <1>1, <1>5
  <2>3. new[i - scan_from] = hits[i]
    BY <1>5, <2>2
  <2> QED
    BY <1>7, <2>1, <2>2, <2>3 DEF ToSet
<1>10. ASSUME NEW d \in due
       PROVE  LET p == patterns[d[2]]
              IN  \E h \in ToSet(new) :
                    /\ h.type_name = p.type_name
                    /\ h.is_footer = p.sig.is_footer
                    /\ h.byte_offset = d[1] * BlockSize + Min(Occurrences(p.sig, d[1]))
  BY <1>9 DEF HitAt, NewHit
<1>11. Len(new) = Cardinality(due)
  BY <1>2, <1>6
<1> QED
  BY <1>8, <1>10, <1>11 DEF new, due

\* What discovery_scan promises: when it is done there is one hit, in the order
\* of the blocks, for every signature and every block that contains it, the
\* first place if there are several, except where a read or an allocation
\* failed; and so again for every later scan.
THEOREM ScansAreComplete == Spec => []ScanComplete
BY DiscoveryIsSound, DoneIsComplete, PTL

\* Whatever the program registers, discovery_scan stores a hit only where a
\* registered signature is in the image, inside one block.
THEOREM HitsStayInImage ==
  Spec => [](\A h \in ToSet(hits) : \E p \in ToSet(patterns) : HitInImage(h, p))
<1>1. DiscoveryInv => \A h \in ToSet(hits) : \E p \in ToSet(patterns) : HitInImage(h, p)
  BY HitsInImage DEF DiscoveryInv
<1> QED
  BY <1>1, DiscoveryIsSound, PTL

\* If the headers of different types exclude one another, as the built-in ones
\* do (BuiltInExclude), the hits also never say that one block starts files of
\* two types, even after a second scan.
THEOREM HitsStayReal == HeadersExclude => (Spec => []HitsAreReal)
<1> SUFFICES ASSUME HeadersExclude PROVE Spec => []HitsAreReal
  OBVIOUS
<1>1. DiscoveryInv => HitsAreReal
  <2> SUFFICES ASSUME DiscoveryInv PROVE HitsAreReal
    OBVIOUS
  <2>1. DiscoveryTyped /\ DiscoveryTypeOK /\ FromRegistry /\ HitsFound
    BY DEF DiscoveryInv, DiscoveryTyped
  <2>2. OneTypePerBlock
    BY <2>1, OneType
  <2> QED
    BY <2>1, <2>2, HitsInImage DEF HitsAreReal, HitInImage
<1> QED
  BY <1>1, DiscoveryIsSound, PTL

-----------------------------------------------------------------------------
(* Block vectors. *)

Slot == [block: CarveBlocks \cup {0}, valid: BOOLEAN, tried: BOOLEAN]

\* The array of a vector is never shorter than the vector.
Sized ==
  /\ slots \in [Vectors -> Seq(Slot)]
  /\ length \in [Vectors -> Nat]
  /\ \A v \in Vectors : length[v] <= Len(slots[v])

\* The slots in use, and the abstract stack.
Used(s, n) == SubSeq(s, 1, n)
Stack == [v \in Vectors |-> Used(slots[v], length[v])]

-----------------------------------------------------------------------------
(* Slots in use. *)

\* The slots in use are the first of the array.
LEMMA UsedSlots ==
  ASSUME NEW s \in Seq(Slot), NEW n \in Nat, n <= Len(s)
  PROVE  /\ Used(s, n) \in Seq(Slot) /\ Len(Used(s, n)) = n
         /\ \A i \in 1 .. n : Used(s, n)[i] = s[i]
BY DEF Used

\* What lies beyond the length of a vector is no part of it.
LEMMA UsedEqual ==
  ASSUME NEW s \in Seq(Slot), NEW t \in Seq(Slot), NEW n \in Nat,
         n <= Len(s), n <= Len(t), \A i \in 1 .. n : s[i] = t[i]
  PROVE  Used(s, n) = Used(t, n)
<1>1. /\ Len(Used(s, n)) = Len(Used(t, n))
      /\ \A i \in 1 .. Len(Used(s, n)) : Used(s, n)[i] = Used(t, n)[i]
  BY UsedSlots
<1> QED
  BY <1>1, UsedSlots, SeqEqual

\* Appending to the array pushes, whatever was in the slot.
LEMMA AppendSlotPushes ==
  ASSUME NEW s \in Seq(Slot), NEW n \in Nat, n < Len(s), NEW b \in CarveBlocks
  PROVE  /\ AppendSlot(s, n, b) \in Seq(Slot) /\ Len(AppendSlot(s, n, b)) = Len(s)
         /\ Used(AppendSlot(s, n, b), n + 1) = Append(Used(s, n), Fresh(b))
<1>1. Fresh(b) \in Slot
  BY DEF Fresh, Slot
<1>2. AppendSlot(s, n, b) \in Seq(Slot) /\ Len(AppendSlot(s, n, b)) = Len(s)
  BY <1>1 DEF AppendSlot
<1>3. Used(AppendSlot(s, n, b), n + 1) = Append(Used(s, n), Fresh(b))
  BY <1>1, <1>2 DEF AppendSlot, Used
<1> QED
  BY <1>2, <1>3

\* Growing keeps the slots in use.
LEMMA GrowthKeeps ==
  ASSUME NEW s \in Seq(Slot)
  PROVE  /\ Grow(s) \in Seq(Slot) /\ Len(s) < Len(Grow(s))
         /\ \A i \in 1 .. Len(s) : Grow(s)[i] = s[i]
<1>1. Garbage \in Slot
  BY DEF Garbage, Slot
<1>2. PICK k \in Nat \ {0} : k = IF s = NULL THEN VectorCapacity ELSE Len(s)
  BY CarvingParameters, EmptySeq DEF NULL
<1>3. [i \in 1 .. k |-> Garbage] \in Seq(Slot) /\ Len([i \in 1 .. k |-> Garbage]) = k
  BY <1>1
<1>4. Grow(s) = s \o [i \in 1 .. k |-> Garbage]
  BY <1>2 DEF Grow
<1> QED
  BY <1>2, <1>3, <1>4

-----------------------------------------------------------------------------
(* The operations. *)

\* A step that gives one vector new slots and a new length.
LEMMA OneVector ==
  ASSUME Sized, NEW v \in Vectors, NEW s \in Seq(Slot), NEW n \in Nat, n <= Len(s),
         slots' = [slots EXCEPT ![v] = s], length' = [length EXCEPT ![v] = n]
  PROVE  Sized' /\ Stack' = [Stack EXCEPT ![v] = Used(s, n)]
BY DEF Sized, Stack

\* blockvector_append pushes, with or without room left.
LEMMA AppendRefines ==
  ASSUME Sized, NEW v \in Vectors, NEW b \in CarveBlocks, AppendBlock(v, b)
  PROVE  Sized' /\ Stack' = [Stack EXCEPT ![v] = Append(@, Fresh(b))]
<1>1. PICK s \in Seq(Slot), n \in Nat : s = slots[v] /\ n = length[v] /\ n <= Len(s)
  BY DEF Sized, AppendBlock
<1>2. PICK room \in Seq(Slot) :
        /\ n < Len(room) /\ \A i \in 1 .. n : room[i] = s[i]
        /\ slots' = [slots EXCEPT ![v] = AppendSlot(room, n, b)]
        /\ length' = [length EXCEPT ![v] = n + 1]
  <2> DEFINE t == Grow(s)
  <2>1. t \in Seq(Slot) /\ Len(s) < Len(t) /\ \A i \in 1 .. Len(s) : t[i] = s[i]
    BY <1>1, GrowthKeeps
  <2>2. Len(s) \in Nat
    BY <1>1
  <2>3. /\ slots' = [slots EXCEPT ![v] = AppendSlot(IF n < Len(s) THEN s ELSE t, n, b)]
        /\ length' = [length EXCEPT ![v] = n + 1]
    BY <1>1 DEF AppendBlock
  <2> HIDE DEF t
  <2>4. CASE n < Len(s)
    BY <2>3, <2>4
  <2>5. CASE ~ (n < Len(s))
    <3>1. n = Len(s) /\ n < Len(t)
      BY <1>1, <2>1, <2>2, <2>5
    <3>2. \A i \in 1 .. n : t[i] = s[i]
      BY <2>1, <3>1
    <3>3. slots' = [slots EXCEPT ![v] = AppendSlot(t, n, b)]
      BY <2>3, <2>5
    <3> QED
      BY <2>1, <2>3, <3>1, <3>2, <3>3
  <2> QED
    BY <2>4, <2>5
<1>3. /\ AppendSlot(room, n, b) \in Seq(Slot) /\ Len(AppendSlot(room, n, b)) = Len(room)
      /\ Used(AppendSlot(room, n, b), n + 1) = Append(Used(room, n), Fresh(b))
  BY <1>2, AppendSlotPushes
<1>4. Used(room, n) = Used(s, n)
  <2>1. Len(room) \in Nat /\ n <= Len(room)
    BY <1>2, LenProperties
  <2>2. n <= Len(s) /\ \A i \in 1 .. n : room[i] = s[i]
    BY <1>1, <1>2
  <2> QED
    BY <2>1, <2>2, UsedEqual
<1>5. n + 1 \in Nat /\ n + 1 <= Len(room)
  BY <1>2
<1>6. Sized' /\ Stack' = [Stack EXCEPT ![v] = Used(AppendSlot(room, n, b), n + 1)]
  BY <1>2, <1>3, <1>5, OneVector
<1> QED
  BY <1>1, <1>3, <1>4, <1>6 DEF Stack

\* blockvector_restore and blockvector_remove_last take the newest blocks away.
LEMMA RestoreRefines ==
  ASSUME Sized, NEW v \in Vectors, NEW n \in Nat, Restore(v, n)
  PROVE  /\ Sized' /\ Stack' = [Stack EXCEPT ![v] = SubSeq(@, 1, n)]
         /\ n \in 0 .. Len(Stack[v]) - 1
<1>1. PICK s \in Seq(Slot), m \in Nat : s = slots[v] /\ m = length[v] /\ m <= Len(s) /\ n < m
  BY DEF Sized, Restore
<1>2. slots' = [slots EXCEPT ![v] = s] /\ length' = [length EXCEPT ![v] = n]
  BY <1>1 DEF Restore, Sized
<1>3. n <= Len(s)
  BY <1>1
<1>4. Sized' /\ Stack' = [Stack EXCEPT ![v] = Used(s, n)]
  BY <1>2, <1>3, OneVector
<1>5. /\ Used(s, m) \in Seq(Slot) /\ Len(Used(s, m)) = m
      /\ \A i \in 1 .. m : Used(s, m)[i] = s[i]
  BY <1>1, UsedSlots
<1>6. Used(s, n) = Used(Used(s, m), n)
  <2>1. \A i \in 1 .. n : s[i] = Used(s, m)[i]
    BY <1>1, <1>5
  <2>2. n <= Len(Used(s, m))
    BY <1>1, <1>5
  <2> QED
    BY <1>3, <1>5, <2>1, <2>2, UsedEqual
<1>7. Stack[v] = Used(s, m)
  BY <1>1 DEF Stack
<1>8. Stack' = [Stack EXCEPT ![v] = Used(Stack[v], n)]
  BY <1>4, <1>6, <1>7
<1>9. n \in 0 .. Len(Stack[v]) - 1
  BY <1>1, <1>5, <1>7
<1> QED
  BY <1>4, <1>8, <1>9 DEF Used

\* A mark is made on a block of the stack, and on no other.
LEMMA MarkRefines ==
  ASSUME Sized, NEW v \in Vectors, NEW i \in Nat \ {0}, NEW flag \in {"valid", "tried"},
         MarkSlot(v, i, flag)
  PROVE  /\ Sized' /\ Stack' = [Stack EXCEPT ![v] = [@ EXCEPT ![i][flag] = TRUE]]
         /\ i \in 1 .. Len(Stack[v])
<1> DEFINE s == slots[v]
           n == length[v]
           t == [s EXCEPT ![i] = [s[i] EXCEPT ![flag] = TRUE]]
<1>1. s \in Seq(Slot) /\ n \in Nat /\ n <= Len(s) /\ i \in 1 .. n
  BY DEF Sized, MarkSlot
<1>2. [s[i] EXCEPT ![flag] = TRUE] \in Slot
  <2>1. s[i] \in Slot
    BY <1>1
  <2> QED
    BY <2>1 DEF Slot
<1>3. t \in Seq(Slot) /\ Len(t) = Len(s)
  BY <1>1, <1>2
<1>4. slots' = [slots EXCEPT ![v] = t] /\ length' = [length EXCEPT ![v] = n]
  BY DEF MarkSlot, Sized
<1>5. Sized' /\ Stack' = [Stack EXCEPT ![v] = Used(t, n)]
  BY <1>1, <1>3, <1>4, OneVector
<1>6. /\ Stack[v] = Used(s, n) /\ Len(Used(s, n)) = n
      /\ Used(s, n)[i] = s[i] /\ Used(s, n) \in Seq(Slot)
  BY <1>1, UsedSlots DEF Stack
<1>7. Used(t, n) = [Used(s, n) EXCEPT ![i] = [s[i] EXCEPT ![flag] = TRUE]]
  <2> DEFINE u == [Used(s, n) EXCEPT ![i] = [s[i] EXCEPT ![flag] = TRUE]]
  <2>1. u \in Seq(Slot) /\ Len(u) = n
    BY <1>1, <1>2, <1>6
  <2>2. Used(t, n) \in Seq(Slot) /\ Len(Used(t, n)) = n
    BY <1>1, <1>3, UsedSlots
  <2>3. \A j \in 1 .. n : Used(t, n)[j] = t[j] /\ Used(s, n)[j] = s[j]
    BY <1>1, <1>3, UsedSlots
  <2>4. \A j \in 1 .. n : u[j] = t[j]
    <3>1. DOMAIN Used(s, n) = 1 .. n /\ DOMAIN s = 1 .. Len(s)
      BY <1>1, <1>6
    <3> QED
      BY <1>1, <3>1, <2>3
  <2> HIDE DEF u, t
  <2>5. Used(t, n) = u
    BY <2>1, <2>2, <2>3, <2>4, SeqEqual
  <2> QED
    BY <2>5 DEF u
<1> QED
  BY <1>1, <1>5, <1>6, <1>7

\* The copy has the blocks of the original, whatever is beyond them.
LEMMA CloneRefines ==
  ASSUME Sized, NEW v \in Vectors, NEW w \in Vectors, Clone(v, w)
  PROVE  Sized' /\ Stack' = [Stack EXCEPT ![w] = Stack[v]]
<1> DEFINE s == slots[v]
           n == length[v]
           t == [i \in 1 .. Len(s) |-> IF i <= n THEN s[i] ELSE Fresh(0)]
<1>1. s \in Seq(Slot) /\ n \in Nat /\ n <= Len(s)
  BY DEF Sized
<1>2. Fresh(0) \in Slot
  BY DEF Fresh, Slot
<1>3. t \in Seq(Slot) /\ Len(t) = Len(s) /\ \A i \in 1 .. n : t[i] = s[i]
  BY <1>1, <1>2
<1>4. slots' = [slots EXCEPT ![w] = t] /\ length' = [length EXCEPT ![w] = n]
  BY DEF Clone
<1>5. Stack[v] = Used(s, n)
  BY DEF Stack
<1>6. PICK u \in Seq(Slot) :
        /\ n <= Len(u) /\ \A i \in 1 .. n : u[i] = s[i]
        /\ slots' = [slots EXCEPT ![w] = u] /\ length' = [length EXCEPT ![w] = n]
  <2> HIDE DEF t, s
  <2> QED
    BY <1>1, <1>3, <1>4
<1> HIDE DEF s, n, t
<1>7. Sized' /\ Stack' = [Stack EXCEPT ![w] = Used(u, n)]
  BY <1>1, <1>6, OneVector
<1>8. Used(u, n) = Used(s, n)
  BY <1>1, <1>6, UsedEqual
<1> QED
  BY <1>7, <1>8, <1>5

\* carve_state_create and blockvector_free leave an empty vector.
LEMMA EmptyRefines ==
  ASSUME Sized, NEW v \in Vectors, BeginCarve(v) \/ Free(v)
  PROVE  Sized' /\ Stack' = [Stack EXCEPT ![v] = <<>>]
<1>1. Zeroed \in Seq(Slot)
  BY CarvingParameters DEF Zeroed, Fresh, Slot
<1>2. PICK s \in Seq(Slot) : slots' = [slots EXCEPT ![v] = s] /\ length' = [length EXCEPT ![v] = 0]
  BY <1>1, EmptySeq DEF BeginCarve, Free, NULL
<1>3. Sized' /\ Stack' = [Stack EXCEPT ![v] = Used(s, 0)]
  <2>1. 0 \in Nat /\ 0 <= Len(s)
    OBVIOUS
  <2> QED
    BY <1>2, <2>1, OneVector
<1>4. Used(s, 0) = <<>>
  BY DEF Used
<1> QED
  BY <1>3, <1>4

-----------------------------------------------------------------------------
(* The refinement. *)

\* Every step of Carving keeps Sized and is a step of the stacks or none.
LEMMA StepRefines ==
  ASSUME Sized, [Next]_vars
  PROVE  Sized' /\ [Stacks!Next]_Stack
<1>1. CASE (DiscoveryNext /\ UNCHANGED cvars) \/ UNCHANGED vars
  BY <1>1 DEF cvars, vars, Sized, Stack
<1>2. ASSUME NEW v \in Vectors, BeginCarve(v) \/ Free(v)
      PROVE  Sized' /\ Stacks!Next
  BY <1>2, EmptyRefines DEF Stacks!Next, Stacks!Clear, Stack, Used
<1>3. ASSUME NEW v \in Vectors, NEW b \in CarveBlocks, AppendBlock(v, b)
      PROVE  Sized' /\ Stacks!Next
  BY <1>3, AppendRefines DEF Stacks!Next, Stacks!Push, Stack, Used, Fresh
<1>4. ASSUME NEW v \in Vectors, NEW n \in 0 .. MaxLength, Restore(v, n)
      PROVE  Sized' /\ Stacks!Next
  <2>1. n \in Nat
    BY <1>4, CarvingParameters
  <2> QED
    BY <1>4, <2>1, RestoreRefines DEF Stacks!Next, Stacks!Truncate, Stack, Used
<1>5. ASSUME NEW v \in Vectors, NEW i \in 1 .. MaxLength, NEW flag \in {"valid", "tried"},
             MarkSlot(v, i, flag)
      PROVE  Sized' /\ Stacks!Next
  <2>1. i \in Nat \ {0}
    BY <1>5, CarvingParameters
  <2>2. /\ Sized' /\ Stack' = [Stack EXCEPT ![v] = [Stack[v] EXCEPT ![i][flag] = TRUE]]
        /\ i \in 1 .. Len(Stack[v])
    BY <1>5, <2>1, MarkRefines
  <2>3. Stacks!Mark(v, i, flag)
    BY <2>2 DEF Stacks!Mark, Stack, Used
  <2>4. i \in 1 .. Len([w \in Vectors |-> SubSeq(slots[w], 1, length[w])][v])
    BY <2>2 DEF Stack, Used
  <2> QED
    BY <1>5, <2>2, <2>3, <2>4 DEF Stacks!Next
<1>6. ASSUME NEW v \in Vectors, NEW w \in Vectors, Clone(v, w)
      PROVE  Sized' /\ Stacks!Next
  BY <1>6, CloneRefines DEF Stacks!Next, Stacks!Copy, Stack, Used
<1> QED
  BY <1>1, <1>2, <1>3, <1>4, <1>5, <1>6 DEF Next

\* The vectors of candidates implement stacks of blocks: going back and
\* appending, growing and cloning, no slot shows what was in it before.
THEOREM VectorsAreStacks == Spec => VectorIsStack
<1>1. Init => Sized /\ Stacks!Init
  BY EmptySeq, SubSeqEmpty DEF Init, Sized, Stacks!Init, NULL
<1>2. Sized /\ [Next]_vars => Sized' /\ [Stacks!Next]_Stack
  BY StepRefines
<1> QED
  BY <1>1, <1>2, PTL DEF Spec, VectorIsStack, Stacks!Spec, Stack, Used
=============================================================================
