---------------------------------- MODULE EmailsProofs ----------------------------------
(***************************************************************************)
(* The invariants of Emails, for every set of inputs and every limit that   *)
(* EmailsAssumption allows.  The argument is about texts, position by       *)
(* position: an accepted address has the shape below, normalization keeps   *)
(* the shape, the length and the letters up to their case, and what is      *)
(* stored is a normalized address.                                          *)
(***************************************************************************)
EXTENDS Emails, SequenceTheorems, FiniteSetTheorems, WellFoundedInduction, TLAPS

Text == Seq(Char)

\* An address with its @ at k: two runs of atoms joined by single dots.
Shape(text, k) ==
    /\ k \in 2 .. Len(text) - 1
    /\ \A i \in 1 .. Len(text) : text[i] # "blank" /\ (text[i] = "@" <=> i = k)
    /\ text[1] # "." /\ text[k - 1] # "." /\ text[k + 1] # "." /\ text[Len(text)] # "."
    /\ \A i \in 1 .. Len(text) - 1 : text[i] # "." \/ text[i + 1] # "."

\* Its domain has a dot.
Dotted(text, k) == \E i \in k + 1 .. Len(text) : text[i] = "."

----------------------------------------------------------------------------
(***************************************************************************)
(* Lemmas on texts.                                                        *)
(***************************************************************************)

\* A text, pointwise.
LEMMA TextFacts ==
    ASSUME NEW text \in Text
    PROVE  Len(text) \in Nat /\ \A i \in 1 .. Len(text) : text[i] \in Char
BY LenProperties, ElementOfSeq DEF Text

\* Lower-casing a character changes nothing but the case of a letter, and is done once.
LEMMA LowerFacts ==
    ASSUME NEW c \in Char
    PROVE  /\ Lower(c) \in Char /\ Lower(Lower(c)) = Lower(c)
           /\ Lower(c) = "@" <=> c = "@"
           /\ Lower(c) = "." <=> c = "."
           /\ Lower(c) = "blank" <=> c = "blank"
BY DEF Lower, Char

LEMMA ToLowerFacts ==
    ASSUME NEW text \in Text
    PROVE  /\ ToLower(text) \in Text /\ Len(ToLower(text)) = Len(text)
           /\ \A i \in 1 .. Len(text) : ToLower(text)[i] = Lower(text[i])
<1>1. \A i \in 1 .. Len(text) : Lower(text[i]) \in Char
  BY TextFacts, LowerFacts
<1>2. ToLower(text) \in [1 .. Len(text) -> Char]
  BY <1>1 DEF ToLower
<1>3. QED
  BY <1>2, TextFacts DEF ToLower, Text

\* A text has at least as many bytes as characters.
LEMMA ByteLenFacts ==
    ASSUME NEW text \in Text
    PROVE  ByteLen(text) \in Nat /\ Len(text) <= ByteLen(text)
<1>1. IsFiniteSet(1 .. Len(text))
  BY TextFacts, FS_Interval
<1>2. MoreThanOneByte(text) \in SUBSET (1 .. Len(text)) /\ ThreeBytes(text) \in SUBSET (1 .. Len(text))
  BY DEF MoreThanOneByte, ThreeBytes
<1>3. IsFiniteSet(MoreThanOneByte(text)) /\ IsFiniteSet(ThreeBytes(text))
  BY <1>1, <1>2, FS_Subset
<1>4. Cardinality(MoreThanOneByte(text)) \in Nat /\ Cardinality(ThreeBytes(text)) \in Nat
  BY <1>3, FS_CardinalityType
<1>5. QED
  BY <1>4, TextFacts DEF ByteLen

\* A part of a text.
LEMMA PartFacts ==
    ASSUME NEW text \in Text, NEW m \in 1 .. Len(text) + 1, NEW n \in 0 .. Len(text)
    PROVE  /\ SubSeq(text, m, n) \in Text
           /\ Len(SubSeq(text, m, n)) = IF m <= n THEN n - m + 1 ELSE 0
           /\ \A i \in 1 .. n - m + 1 : SubSeq(text, m, n)[i] = text[m + i - 1]
<1>1. m \in Int /\ n \in Int /\ \A i \in m .. n : text[i] \in Char
  BY TextFacts
<1>2. QED
  BY <1>1, SubSeqProperties DEF Text

----------------------------------------------------------------------------
(***************************************************************************)
(* Trimming.                                                               *)
(***************************************************************************)

\* A set of natural numbers that is not empty has a least element, and if it is
\* bounded a greatest one.
LEMMA LeastNumber ==
    ASSUME NEW T \in SUBSET Nat, T # {}
    PROVE  \E x \in T : \A y \in T : x <= y
<1>1. PICK x \in T : \A y \in T : ~ (<<y, x>> \in OpToRel(<, Nat))
  BY WFMin, NatLessThanWellFounded
<1>2. \A y \in T : ~ (y < x)
  BY <1>1 DEF OpToRel
<1>3. QED
  BY <1>2

LEMMA Bounds ==
    ASSUME NEW n \in Nat, NEW T \in SUBSET (1 .. n), T # {}
    PROVE  /\ Min(T) \in T /\ \A x \in T : Min(T) <= x
           /\ Max(T) \in T /\ \A x \in T : x <= Max(T)
<1>1. \E x \in T : \A y \in T : x <= y
  BY LeastNumber
<1>2. \E x \in T : \A y \in T : x >= y
  <2> DEFINE mirror == {n - x : x \in T}
  <2>1. mirror \in SUBSET Nat /\ mirror # {}
    <3>1. \A x \in T : n - x \in Nat
      OBVIOUS
    <3>2. QED
      BY <3>1
  <2>2. PICK z \in mirror : \A y \in mirror : z <= y
    BY <2>1, LeastNumber
  <2>3. PICK x \in T : z = n - x
    OBVIOUS
  <2>4. \A y \in T : n - x <= n - y
    BY <2>2, <2>3
  <2>5. QED
    BY <2>4
<1>3. QED
  BY <1>1, <1>2 DEF Min, Max

LEMMA TrimFacts ==
    ASSUME NEW text \in Text
    PROVE  TrimSpace(text) \in Text
<1> DEFINE word == {i \in 1 .. Len(text) : text[i] # "blank"}
<1>1. CASE word = {}
  BY <1>1 DEF TrimSpace, Text
<1>2. CASE word # {}
  <2>1. Min(word) \in word /\ Max(word) \in word
    BY <1>2, Bounds, TextFacts
  <2>2. Min(word) \in 1 .. Len(text) + 1 /\ Max(word) \in 0 .. Len(text)
    BY <2>1, TextFacts
  <2>3. SubSeq(text, Min(word), Max(word)) \in Text
    BY <2>2, PartFacts
  <2>4. QED
    BY <1>2, <2>3 DEF TrimSpace
<1>3. QED
  BY <1>1, <1>2

\* Nothing is trimmed from an address.
LEMMA NothingToTrim ==
    ASSUME NEW text \in Text, NEW k, Shape(text, k)
    PROVE  TrimSpace(text) = text /\ text # <<>>
<1> DEFINE word == {i \in 1 .. Len(text) : text[i] # "blank"}
<1>1. Len(text) \in Nat /\ Len(text) >= 3 /\ word = 1 .. Len(text)
  BY TextFacts DEF Shape
<1>2. Min(word) = 1 /\ Max(word) = Len(text)
  <2>1. /\ Min(word) \in word /\ \A x \in word : Min(word) <= x
        /\ Max(word) \in word /\ \A x \in word : x <= Max(word)
    <3>1. word \in SUBSET (1 .. Len(text)) /\ word # {}
      BY <1>1
    <3>2. QED
      BY <1>1, <3>1, Bounds
  <2>2. QED
    BY <1>1, <2>1
<1>3. SubSeq(text, 1, Len(text)) = text
  BY SubSeqFull DEF Text
<1>4. text # <<>>
  BY <1>1, EmptySeq
<1>5. word # {}
  BY <1>1
<1>6. QED
  BY <1>2, <1>3, <1>4, <1>5 DEF TrimSpace

----------------------------------------------------------------------------
(***************************************************************************)
(* Addresses.                                                              *)
(***************************************************************************)

\* The @ that cuts an address in two is where its shape has it.
LEMMA AtOfShape ==
    ASSUME NEW text \in Text, NEW k, Shape(text, k)
    PROVE  At(text) = k
BY TextFacts DEF Shape, At

\* Where the parts of an address are in it.
LEMMA LocalAndDomain ==
    ASSUME NEW text \in Text, NEW k \in 1 .. Len(text), At(text) = k
    PROVE  /\ Local(text) \in Text /\ Len(Local(text)) = k - 1
           /\ \A i \in 1 .. k - 1 : Local(text)[i] = text[i]
           /\ Domain(text) \in Text /\ Len(Domain(text)) = Len(text) - k
           /\ \A i \in 1 .. Len(text) - k : Domain(text)[i] = text[k + i]
<1>1. Len(text) \in Nat
  BY TextFacts
<1>2. /\ SubSeq(text, 1, k - 1) \in Text /\ Len(SubSeq(text, 1, k - 1)) = k - 1
      /\ \A i \in 1 .. k - 1 : SubSeq(text, 1, k - 1)[i] = text[i]
  <2>1. 1 \in 1 .. Len(text) + 1 /\ k - 1 \in 0 .. Len(text)
    BY <1>1
  <2>2. /\ SubSeq(text, 1, k - 1) \in Text
        /\ Len(SubSeq(text, 1, k - 1)) = IF 1 <= k - 1 THEN k - 1 - 1 + 1 ELSE 0
        /\ \A i \in 1 .. k - 1 - 1 + 1 : SubSeq(text, 1, k - 1)[i] = text[1 + i - 1]
    BY <2>1, PartFacts
  <2>3. QED
    BY <2>2, <1>1
<1>3. /\ SubSeq(text, k + 1, Len(text)) \in Text
      /\ Len(SubSeq(text, k + 1, Len(text))) = Len(text) - k
      /\ \A i \in 1 .. Len(text) - k : SubSeq(text, k + 1, Len(text))[i] = text[k + i]
  <2>1. k + 1 \in 1 .. Len(text) + 1 /\ Len(text) \in 0 .. Len(text)
    BY <1>1
  <2>2. /\ SubSeq(text, k + 1, Len(text)) \in Text
        /\ Len(SubSeq(text, k + 1, Len(text))) =
              IF k + 1 <= Len(text) THEN Len(text) - (k + 1) + 1 ELSE 0
        /\ \A i \in 1 .. Len(text) - (k + 1) + 1 :
              SubSeq(text, k + 1, Len(text))[i] = text[k + 1 + i - 1]
    BY <2>1, PartFacts
  <2>3. QED
    BY <2>2, <1>1
<1>4. QED
  BY <1>2, <1>3 DEF Local, Domain

\* Atoms, pointwise.
LEMMA AtomsFacts ==
    ASSUME NEW text \in Text
    PROVE  Atoms(text) <=>
              /\ Len(text) # 0 /\ text[1] # "." /\ text[Len(text)] # "."
              /\ \A i \in 1 .. Len(text) : text[i] \notin {"blank", "@"}
              /\ \A i \in 1 .. (Len(text) - 1) : text[i] # "." \/ text[i + 1] # "."
<1>1. text # <<>> <=> Len(text) # 0
  BY EmptySeq, TextFacts DEF Text
<1>2. text # <<>> => Head(text) = text[1]
  <2>1. ASSUME text # <<>>
        PROVE  Head(text) = text[1]
    <3>1. 1 \in 1 .. Len(text) /\ Len(text) \in 1 .. Len(text)
      BY <1>1, <2>1, TextFacts
    <3>2. Head(SubSeq(text, 1, Len(text))) = text[1]
      BY <3>1, HeadTailOfSubSeq DEF Text
    <3>3. QED
      BY <3>2, SubSeqFull DEF Text
  <2>2. QED
    BY <2>1
<1>3. QED
  BY <1>1, <1>2 DEF Atoms, Last

\* An accepted address has a shape, and what has a shape is accepted.
LEMMA AddressHasShape ==
    ASSUME NEW text \in Text, ParseAddress(text)
    PROVE  Shape(text, At(text))
<1> DEFINE k == At(text)
<1>1. Len(text) \in Nat /\ k \in 1 .. Len(text) /\ text[k] = "@"
  BY TextFacts DEF ParseAddress, At
<1> HIDE DEF k
<1>2. /\ Local(text) \in Text /\ Len(Local(text)) = k - 1
      /\ \A i \in 1 .. k - 1 : Local(text)[i] = text[i]
      /\ Domain(text) \in Text /\ Len(Domain(text)) = Len(text) - k
      /\ \A i \in 1 .. Len(text) - k : Domain(text)[i] = text[k + i]
  BY <1>1, LocalAndDomain DEF k
<1>3. /\ k - 1 # 0 /\ text[1] # "." /\ text[k - 1] # "."
      /\ \A i \in 1 .. k - 1 : text[i] \notin {"blank", "@"}
      /\ \A i \in 1 .. k - 2 : text[i] # "." \/ text[i + 1] # "."
  <2>1. /\ Len(Local(text)) # 0 /\ Local(text)[1] # "." /\ Local(text)[Len(Local(text))] # "."
        /\ \A i \in 1 .. Len(Local(text)) : Local(text)[i] \notin {"blank", "@"}
        /\ \A i \in 1 .. (Len(Local(text)) - 1) : Local(text)[i] # "." \/ Local(text)[i + 1] # "."
    BY <1>2, AtomsFacts DEF ParseAddress
  <2>2. \A i \in 1 .. k - 2 : Local(text)[i] # "." \/ Local(text)[i + 1] # "."
    BY <1>1, <1>2, <2>1
  <2>3. QED
    BY <1>1, <1>2, <2>1, <2>2
<1>4. /\ Len(text) - k # 0 /\ text[k + 1] # "." /\ text[Len(text)] # "."
      /\ \A i \in 1 .. Len(text) - k : text[k + i] \notin {"blank", "@"}
      /\ \A i \in 1 .. Len(text) - k - 1 : text[k + i] # "." \/ text[k + i + 1] # "."
  <2>1. /\ Len(Domain(text)) # 0 /\ Domain(text)[1] # "." /\ Domain(text)[Len(Domain(text))] # "."
        /\ \A i \in 1 .. Len(Domain(text)) : Domain(text)[i] \notin {"blank", "@"}
        /\ \A i \in 1 .. (Len(Domain(text)) - 1) :
              Domain(text)[i] # "." \/ Domain(text)[i + 1] # "."
    BY <1>2, AtomsFacts DEF ParseAddress
  <2>2. /\ Len(text) - k # 0 /\ text[k + 1] # "."
        /\ \A i \in 1 .. Len(text) - k : text[k + i] \notin {"blank", "@"}
    BY <1>1, <1>2, <2>1
  <2>3. text[Len(text)] # "."
    <3>1. Domain(text)[Len(text) - k] # "." /\ Len(text) - k \in 1 .. Len(text) - k
      BY <1>1, <1>2, <2>1
    <3>2. text[k + (Len(text) - k)] # "."
      BY <1>2, <3>1
    <3>3. k + (Len(text) - k) = Len(text)
      BY <1>1
    <3>4. QED
      BY <3>2, <3>3
  <2>4. ASSUME NEW i \in 1 .. Len(text) - k - 1
        PROVE  text[k + i] # "." \/ text[k + i + 1] # "."
    <3>1. Domain(text)[i] # "." \/ Domain(text)[i + 1] # "."
      BY <1>2, <2>1
    <3>2. i \in 1 .. Len(text) - k /\ i + 1 \in 1 .. Len(text) - k /\ k + (i + 1) = k + i + 1
      BY <1>1
    <3>3. QED
      BY <1>2, <3>1, <3>2
  <2>5. QED
    BY <2>2, <2>3, <2>4
<1>5. k \in 2 .. Len(text) - 1
  BY <1>1, <1>3, <1>4
<1>6. ASSUME NEW i \in 1 .. Len(text)
      PROVE  text[i] # "blank" /\ (text[i] = "@" <=> i = k)
  <2>1. CASE i < k
    BY <1>1, <1>3, <2>1
  <2>2. CASE i = k
    BY <1>1, <2>2
  <2>3. CASE i > k
    <3>1. i - k \in 1 .. Len(text) - k /\ k + (i - k) = i
      BY <1>1, <2>3
    <3>2. text[k + (i - k)] \notin {"blank", "@"}
      BY <1>4, <3>1
    <3>3. QED
      BY <3>1, <3>2, <2>3
  <2>4. QED
    BY <1>1, <2>1, <2>2, <2>3
<1>7. ASSUME NEW i \in 1 .. Len(text) - 1
      PROVE  text[i] # "." \/ text[i + 1] # "."
  <2>1. CASE i <= k - 2
    BY <1>1, <1>3, <2>1
  <2>2. CASE i = k - 1 \/ i = k
    <3>1. i + 1 = k \/ i = k
      BY <1>1, <2>2
    <3>2. QED
      BY <1>1, <3>1
  <2>3. CASE i > k
    <3>1. i - k \in 1 .. Len(text) - k - 1 /\ k + (i - k) = i
      BY <1>1, <2>3
    <3>2. text[k + (i - k)] # "." \/ text[k + (i - k) + 1] # "."
      BY <1>4, <3>1
    <3>3. QED
      BY <3>1, <3>2
  <2>4. QED
    BY <1>1, <2>1, <2>2, <2>3
<1>8. Shape(text, k)
  BY <1>3, <1>4, <1>5, <1>6, <1>7 DEF Shape
<1>9. QED
  BY <1>8 DEF k

LEMMA ShapeIsAddress ==
    ASSUME NEW text \in Text, NEW k, Shape(text, k)
    PROVE  ParseAddress(text)
<1>1. /\ Len(text) \in Nat /\ k \in 2 .. Len(text) - 1 /\ k \in 1 .. Len(text)
      /\ text[k] = "@" /\ At(text) = k
  <2>1. Len(text) \in Nat /\ k \in 2 .. Len(text) - 1
    BY TextFacts DEF Shape
  <2>2. k \in 1 .. Len(text)
    BY <2>1
  <2>3. text[k] = "@"
    BY <2>2 DEF Shape
  <2>4. QED
    BY <2>1, <2>2, <2>3, AtOfShape
<1>2. /\ Local(text) \in Text /\ Len(Local(text)) = k - 1
      /\ \A i \in 1 .. k - 1 : Local(text)[i] = text[i]
      /\ Domain(text) \in Text /\ Len(Domain(text)) = Len(text) - k
      /\ \A i \in 1 .. Len(text) - k : Domain(text)[i] = text[k + i]
  BY <1>1, LocalAndDomain
<1>3. Atoms(Local(text))
  <2>1. /\ Len(Local(text)) # 0 /\ Local(text)[1] # "." /\ Local(text)[Len(Local(text))] # "."
    BY <1>1, <1>2 DEF Shape
  <2>2. \A i \in 1 .. Len(Local(text)) : Local(text)[i] \notin {"blank", "@"}
    BY <1>1, <1>2 DEF Shape
  <2>3. \A i \in 1 .. (Len(Local(text)) - 1) : Local(text)[i] # "." \/ Local(text)[i + 1] # "."
    BY <1>1, <1>2 DEF Shape
  <2>4. QED
    BY <1>2, <2>1, <2>2, <2>3, AtomsFacts
<1>4. Atoms(Domain(text))
  <2>1. Len(Domain(text)) # 0 /\ Domain(text)[1] # "."
    BY <1>1, <1>2 DEF Shape
  <2>2. Domain(text)[Len(Domain(text))] # "."
    <3>1. Len(text) - k \in 1 .. Len(text) - k /\ k + (Len(text) - k) = Len(text)
      BY <1>1
    <3>2. QED
      BY <1>2, <3>1 DEF Shape
  <2>3. ASSUME NEW i \in 1 .. Len(Domain(text))
        PROVE  Domain(text)[i] \notin {"blank", "@"}
    <3>1. k + i \in 1 .. Len(text) /\ k + i # k /\ Domain(text)[i] = text[k + i]
      BY <1>1, <1>2
    <3>2. QED
      BY <3>1 DEF Shape
  <2>4. ASSUME NEW i \in 1 .. (Len(Domain(text)) - 1)
        PROVE  Domain(text)[i] # "." \/ Domain(text)[i + 1] # "."
    <3>1. i \in 1 .. Len(text) - k /\ i + 1 \in 1 .. Len(text) - k
      BY <1>1, <1>2
    <3>2. k + i \in 1 .. Len(text) - 1 /\ k + (i + 1) = (k + i) + 1
      BY <1>1, <3>1
    <3>3. Domain(text)[i] = text[k + i] /\ Domain(text)[i + 1] = text[k + (i + 1)]
      BY <1>2, <3>1
    <3>4. text[k + i] # "." \/ text[(k + i) + 1] # "."
      BY <3>2 DEF Shape
    <3>5. QED
      BY <3>2, <3>3, <3>4
  <2>5. QED
    BY <1>2, <2>1, <2>2, <2>3, <2>4, AtomsFacts
<1>5. QED
  BY <1>1, <1>3, <1>4 DEF ParseAddress

LEMMA DottedFacts ==
    ASSUME NEW text \in Text, NEW k, Shape(text, k)
    PROVE  Contains(Domain(text), ".") <=> Dotted(text, k)
<1>1. Len(text) \in Nat /\ k \in 1 .. Len(text) /\ At(text) = k
  <2>1. Len(text) \in Nat /\ k \in 2 .. Len(text) - 1
    BY TextFacts DEF Shape
  <2>2. QED
    BY <2>1, AtOfShape
<1>2. /\ Len(Domain(text)) = Len(text) - k
      /\ \A i \in 1 .. Len(text) - k : Domain(text)[i] = text[k + i]
  BY <1>1, LocalAndDomain
<1>3. ASSUME NEW i \in k + 1 .. Len(text), text[i] = "."
      PROVE  \E j \in 1 .. Len(Domain(text)) : Domain(text)[j] = "."
  <2>1. i - k \in 1 .. Len(text) - k /\ k + (i - k) = i
    BY <1>1
  <2>2. QED
    BY <1>2, <1>3, <2>1
<1>4. ASSUME NEW i \in 1 .. Len(Domain(text)), Domain(text)[i] = "."
      PROVE  \E j \in k + 1 .. Len(text) : text[j] = "."
  <2>1. k + i \in k + 1 .. Len(text) /\ text[k + i] = "."
    BY <1>1, <1>2, <1>4
  <2>2. QED
    BY <2>1
<1>5. QED
  BY <1>3, <1>4 DEF Contains, Dotted

----------------------------------------------------------------------------
(***************************************************************************)
(* Normalization and the case of letters.                                  *)
(***************************************************************************)
SameButCase(text, other) ==
    /\ Len(text) = Len(other)
    /\ \A i \in 1 .. Len(text) : Lower(text[i]) = Lower(other[i])

\* CITEXT compares letters without their case.
LEMMA CitextFacts ==
    ASSUME NEW text \in Text, NEW other \in Text
    PROVE  Citext(text) = Citext(other) <=> SameButCase(text, other)
<1>1. /\ ToLower(text) \in Text /\ Len(ToLower(text)) = Len(text)
      /\ \A i \in 1 .. Len(text) : ToLower(text)[i] = Lower(text[i])
      /\ ToLower(other) \in Text /\ Len(ToLower(other)) = Len(other)
      /\ \A i \in 1 .. Len(other) : ToLower(other)[i] = Lower(other[i])
  BY ToLowerFacts
<1>2. ASSUME Citext(text) = Citext(other)
      PROVE  SameButCase(text, other)
  <2>1. ToLower(text) = ToLower(other)
    BY <1>2 DEF Citext
  <2>2. Len(text) = Len(other)
    BY <1>1, <2>1
  <2>3. ASSUME NEW i \in 1 .. Len(text)
        PROVE  Lower(text[i]) = Lower(other[i])
    BY <1>1, <2>1, <2>2
  <2>4. QED
    BY <2>2, <2>3 DEF SameButCase
<1>3. ASSUME SameButCase(text, other)
      PROVE  Citext(text) = Citext(other)
  <2>1. /\ Len(ToLower(text)) = Len(ToLower(other))
        /\ \A i \in 1 .. Len(ToLower(text)) : ToLower(text)[i] = ToLower(other)[i]
    BY <1>1, <1>3 DEF SameButCase
  <2>2. QED
    BY <1>1, <2>1, SeqEqual DEF Citext, Text
<1>4. QED
  BY <1>2, <1>3

\* The shape of an address does not depend on case.
LEMMA ShapeUpToCase ==
    ASSUME NEW text \in Text, NEW other \in Text, SameButCase(text, other),
           NEW k, Shape(text, k)
    PROVE  Shape(other, k) /\ (Dotted(text, k) => Dotted(other, k))
<1>1. Len(text) \in Nat /\ Len(other) = Len(text) /\ k \in 2 .. Len(text) - 1
  BY TextFacts DEF SameButCase, Shape
<1>2. ASSUME NEW i \in 1 .. Len(text)
      PROVE  /\ other[i] = "@" <=> text[i] = "@"
             /\ other[i] = "." <=> text[i] = "."
             /\ other[i] = "blank" <=> text[i] = "blank"
  <2>1. text[i] \in Char /\ other[i] \in Char
    BY <1>1, TextFacts
  <2>2. Lower(text[i]) = Lower(other[i])
    BY DEF SameButCase
  <2>3. QED
    BY <2>1, <2>2, LowerFacts
<1>3. \A i \in 1 .. Len(other) : other[i] # "blank" /\ (other[i] = "@" <=> i = k)
  BY <1>1, <1>2 DEF Shape
<1>4. other[1] # "." /\ other[k - 1] # "." /\ other[k + 1] # "." /\ other[Len(other)] # "."
  <2>1. /\ 1 \in 1 .. Len(text) /\ k - 1 \in 1 .. Len(text) /\ k + 1 \in 1 .. Len(text)
        /\ Len(text) \in 1 .. Len(text)
    BY <1>1
  <2>2. QED
    BY <1>1, <1>2, <2>1 DEF Shape
<1>5. ASSUME NEW i \in 1 .. Len(other) - 1
      PROVE  other[i] # "." \/ other[i + 1] # "."
  <2>1. i \in 1 .. Len(text) - 1 /\ i \in 1 .. Len(text) /\ i + 1 \in 1 .. Len(text)
    BY <1>1
  <2>2. text[i] # "." \/ text[i + 1] # "."
    BY <2>1 DEF Shape
  <2>3. QED
    BY <1>2, <2>1, <2>2
<1>6. Shape(other, k)
  BY <1>1, <1>3, <1>4, <1>5 DEF Shape
<1>7. Dotted(text, k) => Dotted(other, k)
  <2>1. ASSUME NEW i \in k + 1 .. Len(text), text[i] = "."
        PROVE  i \in k + 1 .. Len(other) /\ other[i] = "."
    <3>1. i \in 1 .. Len(text)
      BY <1>1
    <3>2. QED
      BY <1>1, <1>2, <2>1, <3>1
  <2>2. QED
    BY <2>1 DEF Dotted
<1>8. QED
  BY <1>6, <1>7

\* Two texts in a row.
LEMMA JoinFacts ==
    ASSUME NEW text \in Text, NEW other \in Text
    PROVE  /\ text \o other \in Text /\ Len(text \o other) = Len(text) + Len(other)
           /\ \A i \in 1 .. Len(text) : (text \o other)[i] = text[i]
           /\ \A i \in 1 .. Len(other) : (text \o other)[Len(text) + i] = other[i]
<1>1. Len(text) \in Nat /\ Len(other) \in Nat
  BY TextFacts
<1>2. /\ text \o other \in Text /\ Len(text \o other) = Len(text) + Len(other)
      /\ \A i \in 1 .. Len(text) + Len(other) :
            (text \o other)[i] = IF i <= Len(text) THEN text[i] ELSE other[i - Len(text)]
  BY ConcatProperties DEF Text
<1>3. ASSUME NEW i \in 1 .. Len(text)
      PROVE  (text \o other)[i] = text[i]
  BY <1>1, <1>2
<1>4. ASSUME NEW i \in 1 .. Len(other)
      PROVE  (text \o other)[Len(text) + i] = other[i]
  <2>1. /\ Len(text) + i \in 1 .. Len(text) + Len(other)
        /\ ~ (Len(text) + i <= Len(text)) /\ (Len(text) + i) - Len(text) = i
    BY <1>1
  <2>2. QED
    BY <1>2, <2>1
<1>5. QED
  BY <1>2, <1>3, <1>4

\* Normalization lower-cases what comes after the @, and changes nothing else.
LEMMA NormalizeFacts ==
    ASSUME NEW input, NEW email \in Text, email = TrimSpace(input),
           NEW k, Shape(email, k)
    PROVE  /\ Normalize(input) \in Text /\ Len(Normalize(input)) = Len(email)
           /\ \A i \in 1 .. Len(email) :
                 Normalize(input)[i] = IF i <= k THEN email[i] ELSE Lower(email[i])
<1> DEFINE local == Local(email)
           at == <<"@">>
           domain == ToLower(Domain(email))
           start == local \o at
           normal == start \o domain
<1>1. Len(email) \in Nat /\ k \in 2 .. Len(email) - 1 /\ k \in 1 .. Len(email) /\ email[k] = "@"
  <2>1. Len(email) \in Nat /\ k \in 2 .. Len(email) - 1
    BY TextFacts DEF Shape
  <2>2. k \in 1 .. Len(email)
    BY <2>1
  <2>3. QED
    BY <2>1, <2>2 DEF Shape
<1>2. /\ local \in Text /\ Len(local) = k - 1
      /\ \A i \in 1 .. k - 1 : local[i] = email[i]
      /\ Domain(email) \in Text /\ Len(Domain(email)) = Len(email) - k
      /\ \A i \in 1 .. Len(email) - k : Domain(email)[i] = email[k + i]
  BY <1>1, AtOfShape, LocalAndDomain
<1>3. /\ domain \in Text /\ Len(domain) = Len(email) - k
      /\ \A i \in 1 .. Len(email) - k : domain[i] = Lower(email[k + i])
  BY <1>2, ToLowerFacts
<1>4. at \in Text /\ Len(at) = 1 /\ at[1] = "@"
  BY DEF Text, Char
<1>5. Normalize(input) = normal
  BY DEF Normalize
<1> HIDE DEF local, at, domain
<1>6. /\ start \in Text /\ Len(start) = k
      /\ \A i \in 1 .. k - 1 : start[i] = email[i]
      /\ start[k] = email[k]
  <2>1. /\ start \in Text /\ Len(start) = Len(local) + Len(at)
        /\ \A i \in 1 .. Len(local) : start[i] = local[i]
        /\ \A i \in 1 .. Len(at) : start[Len(local) + i] = at[i]
    BY <1>2, <1>4, JoinFacts
  <2> HIDE DEF start
  <2>2. 1 \in 1 .. Len(at) /\ Len(local) + 1 = k
    BY <1>1, <1>2, <1>4
  <2>3. start[k] = at[1]
    BY <2>1, <2>2
  <2>4. QED
    BY <1>1, <1>2, <1>4, <2>1, <2>3
<1> HIDE DEF start
<1>7. /\ normal \in Text /\ Len(normal) = Len(start) + Len(domain)
      /\ \A i \in 1 .. Len(start) : normal[i] = start[i]
      /\ \A i \in 1 .. Len(domain) : normal[Len(start) + i] = domain[i]
  BY <1>3, <1>6, JoinFacts
<1> HIDE DEF normal
<1>8. Len(normal) = Len(email)
  BY <1>1, <1>3, <1>6, <1>7
<1>9. ASSUME NEW i \in 1 .. Len(email)
      PROVE  normal[i] = IF i <= k THEN email[i] ELSE Lower(email[i])
  <2>1. CASE i \in 1 .. k
    <3>1. normal[i] = start[i]
      BY <1>6, <1>7, <2>1
    <3>2. i \in 1 .. k - 1 \/ i = k
      BY <1>1, <2>1
    <3>3. start[i] = email[i]
      BY <1>6, <3>2
    <3>4. i <= k
      BY <2>1
    <3>5. QED
      BY <3>1, <3>3, <3>4
  <2>2. CASE i \in k + 1 .. Len(email)
    <3>1. i - k \in 1 .. Len(email) - k /\ k + (i - k) = i /\ ~ (i <= k)
      BY <1>1, <2>2
    <3>2. normal[k + (i - k)] = domain[i - k]
      BY <1>3, <1>6, <1>7, <3>1
    <3>3. domain[i - k] = Lower(email[k + (i - k)])
      BY <1>3, <3>1
    <3>4. QED
      BY <3>1, <3>2, <3>3
  <2>3. i \in 1 .. k \/ i \in k + 1 .. Len(email)
    BY <1>1
  <2>4. QED
    BY <2>1, <2>2, <2>3
<1>10. QED
  BY <1>5, <1>7, <1>8, <1>9

----------------------------------------------------------------------------
(***************************************************************************)
(* Emails as they are stored: short addresses with a lower-cased domain.   *)
(***************************************************************************)
Stored(email) ==
    /\ email \in Text /\ Len(email) <= MaxBytes
    /\ Shape(email, At(email)) /\ Dotted(email, At(email))
    /\ \A i \in At(email) + 1 .. Len(email) : Lower(email[i]) = email[i]

\* What is accepted is stored so, and is the same email up to case.
LEMMA AcceptedIsStored ==
    ASSUME NEW input \in Text, Valid(input)
    PROVE  Stored(Normalize(input)) /\ Citext(Normalize(input)) = Citext(TrimSpace(input))
<1> DEFINE email == TrimSpace(input)
           k == At(email)
           normal == Normalize(input)
<1>1. /\ email \in Text /\ ByteLen(email) <= MaxBytes
      /\ ParseAddress(email) /\ Contains(Domain(email), ".")
  BY TrimFacts DEF Valid
<1> HIDE DEF email
<1>2. Shape(email, k) /\ Dotted(email, k)
  BY <1>1, AddressHasShape, DottedFacts
<1>3. Len(email) \in Nat /\ k \in 2 .. Len(email) - 1
  BY <1>1, <1>2, TextFacts DEF Shape
<1> HIDE DEF k
<1>4. /\ normal \in Text /\ Len(normal) = Len(email)
      /\ \A i \in 1 .. Len(email) : normal[i] = IF i <= k THEN email[i] ELSE Lower(email[i])
  BY <1>1, <1>2, NormalizeFacts DEF email
<1> HIDE DEF normal
<1>5. SameButCase(email, normal)
  <2>1. ASSUME NEW i \in 1 .. Len(email)
        PROVE  Lower(email[i]) = Lower(normal[i])
    <3>1. email[i] \in Char
      BY <1>1, TextFacts
    <3>2. Lower(Lower(email[i])) = Lower(email[i])
      BY <3>1, LowerFacts
    <3>3. QED
      BY <1>4, <3>2
  <2>2. QED
    BY <1>4, <2>1 DEF SameButCase
<1>6. Shape(normal, k) /\ Dotted(normal, k)
  BY <1>1, <1>2, <1>4, <1>5, ShapeUpToCase
<1>7. At(normal) = k
  BY <1>4, <1>6, AtOfShape
<1>8. ASSUME NEW i \in k + 1 .. Len(normal)
      PROVE  Lower(normal[i]) = normal[i]
  <2>1. i \in 1 .. Len(email) /\ ~ (i <= k)
    BY <1>3, <1>4
  <2>2. email[i] \in Char /\ normal[i] = Lower(email[i])
    BY <1>1, <1>4, <2>1, TextFacts
  <2>3. QED
    BY <2>2, LowerFacts
<1>9. Len(normal) <= MaxBytes
  BY <1>1, <1>3, <1>4, ByteLenFacts, EmailsAssumption
<1>10. Stored(normal)
  BY <1>4, <1>6, <1>7, <1>8, <1>9 DEF Stored
<1>11. Citext(normal) = Citext(email)
  BY <1>1, <1>4, <1>5, CitextFacts
<1>12. QED
  BY <1>10, <1>11 DEF email, normal

\* What is stored is an address that fits its column and, within the limit, is
\* accepted and its own normal form.
LEMMA StoredFacts ==
    ASSUME NEW email, Stored(email)
    PROVE  /\ ParseAddress(email) /\ Fits(email)
           /\ ByteLen(email) <= MaxBytes => Valid(email) /\ Normalize(email) = email
<1> DEFINE k == At(email)
<1>1. /\ email \in Text /\ Len(email) \in Nat /\ Len(email) <= MaxBytes
      /\ Shape(email, k) /\ Dotted(email, k)
      /\ \A i \in k + 1 .. Len(email) : Lower(email[i]) = email[i]
  BY TextFacts DEF Stored
<1>2. k \in 2 .. Len(email) - 1
  BY <1>1 DEF Shape
<1> HIDE DEF k
<1>3. ParseAddress(email) /\ TrimSpace(email) = email /\ email # <<>>
  BY <1>1, ShapeIsAddress, NothingToTrim
<1>4. Fits(email)
  BY <1>1, <1>2, EmailsAssumption DEF Fits
<1>5. Contains(Domain(email), ".")
  BY <1>1, DottedFacts
<1>6. ByteLen(email) <= MaxBytes => Valid(email)
  BY <1>3, <1>5 DEF Valid
<1>7. Normalize(email) = email
  <2>1. /\ Normalize(email) \in Text /\ Len(Normalize(email)) = Len(email)
        /\ \A i \in 1 .. Len(email) :
              Normalize(email)[i] = IF i <= k THEN email[i] ELSE Lower(email[i])
    BY <1>1, <1>3, NormalizeFacts
  <2>2. \A i \in 1 .. Len(email) : Normalize(email)[i] = email[i]
    BY <1>1, <1>2, <2>1
  <2>3. QED
    BY <1>1, <2>1, <2>2, SeqEqual DEF Text
<1>8. QED
  BY <1>3, <1>4, <1>6, <1>7

\* A spelling of a stored email is accepted if it is short enough.
LEMMA SpellingIsValid ==
    ASSUME NEW email, Stored(email), NEW input \in Text,
           Citext(TrimSpace(input)) = Citext(email), ByteLen(TrimSpace(input)) <= MaxBytes
    PROVE  Valid(input)
<1> DEFINE spelling == TrimSpace(input)
           k == At(email)
<1>1. spelling \in Text /\ email \in Text /\ Shape(email, k) /\ Dotted(email, k)
  BY TrimFacts DEF Stored
<1> HIDE DEF spelling, k
<1>2. SameButCase(email, spelling)
  <2>1. Citext(email) = Citext(spelling)
    BY DEF spelling
  <2>2. QED
    BY <1>1, <2>1, CitextFacts
<1>3. Shape(spelling, k) /\ Dotted(spelling, k)
  BY <1>1, <1>2, ShapeUpToCase
<1>4. spelling # <<>> /\ ParseAddress(spelling) /\ Contains(Domain(spelling), ".")
  BY <1>1, <1>3, NothingToTrim, ShapeIsAddress, DottedFacts
<1>5. QED
  BY <1>4 DEF Valid, spelling

\* Stored emails that agree in the local part and, up to case, in the domain, are one.
LEMMA SameStoredEmail ==
    ASSUME NEW a, Stored(a), NEW b, Stored(b),
           Citext(a) = Citext(b), Local(a) = Local(b)
    PROVE  a = b
<1> DEFINE k == At(a)
<1>1. a \in Text /\ b \in Text /\ Shape(a, k) /\ Shape(b, At(b))
  BY DEF Stored
<1>2. SameButCase(a, b)
  BY <1>1, CitextFacts
<1>3. Shape(b, k) /\ At(b) = k
  BY <1>1, <1>2, ShapeUpToCase, AtOfShape
<1>4. Len(a) \in Nat /\ Len(b) = Len(a) /\ k \in 2 .. Len(a) - 1
  BY <1>1, <1>2, TextFacts DEF Shape, SameButCase
<1>5. /\ \A i \in k + 1 .. Len(a) : Lower(a[i]) = a[i]
      /\ \A i \in k + 1 .. Len(a) : Lower(b[i]) = b[i]
  BY <1>3, <1>4 DEF Stored
<1> HIDE DEF k
<1>6. \A i \in 1 .. k - 1 : a[i] = b[i]
  <2>1. k \in 1 .. Len(a) /\ k \in 1 .. Len(b)
    BY <1>4
  <2>2. At(a) = k
    BY DEF k
  <2>3. /\ \A i \in 1 .. k - 1 : Local(a)[i] = a[i]
        /\ \A i \in 1 .. k - 1 : Local(b)[i] = b[i]
    BY <1>1, <1>3, <2>1, <2>2, LocalAndDomain
  <2>4. QED
    BY <2>3
<1>7. ASSUME NEW i \in 1 .. Len(a)
      PROVE  a[i] = b[i]
  <2>1. CASE i <= k - 1
    BY <1>4, <1>6, <2>1
  <2>2. CASE i = k
    BY <1>1, <1>3, <1>4, <2>2 DEF Shape
  <2>3. CASE i > k
    <3>1. Lower(a[i]) = a[i] /\ Lower(b[i]) = b[i]
      BY <1>4, <1>5, <2>3
    <3>2. Lower(a[i]) = Lower(b[i])
      BY <1>2 DEF SameButCase
    <3>3. QED
      BY <3>1, <3>2
  <2>4. QED
    BY <1>4, <2>1, <2>2, <2>3
<1>8. QED
  BY <1>1, <1>4, <1>7, SeqEqual DEF Text

----------------------------------------------------------------------------
(***************************************************************************)
(* The inductive invariant.  The ids are the first numbers, so that a new  *)
(* account gets one of its own; emails differ by more than case; a pending *)
(* change is some account's; and every email that was written down is as   *)
(* Normalize leaves it.                                                    *)
(***************************************************************************)
IInv ==
    /\ IsFiniteSet(users) /\ Cardinality(users) <= MaxUsers
    /\ \A u \in users : u.id \in 1 .. Cardinality(users) /\ Stored(u.email)
    /\ \A u, v \in users : u.id = v.id => u = v
    /\ \A u, v \in users : Citext(u.email) = Citext(v.email) => u = v
    /\ \A r \in pending : (\E u \in users : u.id = r.user_id) /\ Stored(r.new_email)
    /\ \A a \in attempts : Stored(a.email)

LEMMA InitIInv ==
    ASSUME Init
    PROVE  IInv
BY FS_EmptySet, EmailsAssumption DEF Init, IInv

LEMMA InputIsText == Input \subseteq Text
BY EmailsAssumption DEF Text

\* A new account has an id and, up to case, an email that no other has.
LEMMA SignUpKeepsIInv ==
    ASSUME IInv, NEW input \in Input, SignUp(input)
    PROVE  IInv'
<1> DEFINE new == [id |-> Cardinality(users) + 1, email |-> Normalize(input)]
<1>1. /\ users' = users \cup {new} /\ Cardinality(users) < MaxUsers
      /\ \A u \in users : Citext(u.email) # Citext(new.email)
      /\ UNCHANGED <<pending, attempts>>
  BY DEF SignUp, GetUserByEmail
<1>2. Stored(new.email) /\ new.id = Cardinality(users) + 1
  BY InputIsText, AcceptedIsStored DEF SignUp
<1> HIDE DEF new
<1>3. Cardinality(users) \in Nat /\ \A u \in users : u.id \in 1 .. Cardinality(users)
  BY FS_CardinalityType DEF IInv
<1>4. \A u \in users : u.id # new.id
  BY <1>2, <1>3
<1>5. IsFiniteSet(users') /\ Cardinality(users') = Cardinality(users) + 1
  <2>1. new \notin users
    BY <1>4
  <2>2. QED
    BY <1>1, <2>1, FS_AddElement DEF IInv
<1>6. Cardinality(users') <= MaxUsers
  BY <1>1, <1>3, <1>5, EmailsAssumption
<1>7. \A u \in users' : u.id \in 1 .. Cardinality(users') /\ Stored(u.email)
  BY <1>1, <1>2, <1>3, <1>5 DEF IInv
<1>8. \A u, v \in users' : u.id = v.id => u = v
  BY <1>1, <1>4 DEF IInv
<1>9. \A u, v \in users' : Citext(u.email) = Citext(v.email) => u = v
  BY <1>1 DEF IInv
<1>10. /\ \A r \in pending' : (\E u \in users' : u.id = r.user_id) /\ Stored(r.new_email)
       /\ \A a \in attempts' : Stored(a.email)
  BY <1>1 DEF IInv
<1>11. QED
  BY <1>5, <1>6, <1>7, <1>8, <1>9, <1>10 DEF IInv

LEMMA RecordKeepsStored ==
    ASSUME IInv, NEW action, NEW email, Stored(email), Record(action, email)
    PROVE  \A a \in attempts' : Stored(a.email)
<1> DEFINE new == [action |-> action, email |-> email]
<1>1. attempts' = attempts \cup {new}
  BY DEF Record
<1>2. new.email = email
  OBVIOUS
<1>3. QED
  BY <1>1, <1>2 DEF IInv

LEMMA AttemptKeepsIInv ==
    ASSUME IInv, NEW action, NEW input \in Input, Attempt(action, input)
    PROVE  IInv'
<1>1. Stored(Normalize(input))
  BY InputIsText, AcceptedIsStored DEF Attempt
<1>2. \A a \in attempts' : Stored(a.email)
  BY <1>1, RecordKeepsStored DEF Attempt
<1>3. QED
  BY <1>2 DEF IInv, Attempt

LEMMA CreateEmailResetRequestKeepsIInv ==
    ASSUME IInv, NEW u \in users, NEW input \in Input, CreateEmailResetRequest(u, input)
    PROVE  IInv'
<1> DEFINE new == [user_id |-> u.id, new_email |-> Normalize(input)]
<1>1. Stored(Normalize(input)) /\ Stored(u.email)
  BY InputIsText, AcceptedIsStored DEF CreateEmailResetRequest, IInv
<1>2. \A a \in attempts' : Stored(a.email)
  BY <1>1, RecordKeepsStored DEF CreateEmailResetRequest
<1>3. users' = users /\ pending' \subseteq pending \cup {new}
  BY DEF CreateEmailResetRequest
<1>4. new.user_id = u.id /\ Stored(new.new_email)
  BY <1>1
<1> HIDE DEF new
<1>5. \A r \in pending' : (\E v \in users' : v.id = r.user_id) /\ Stored(r.new_email)
  BY <1>3, <1>4 DEF IInv
<1>6. QED
  BY <1>2, <1>3, <1>5 DEF IInv

\* The new email replaces the old one of the same account, and no other account has it.
LEMMA ResetEmailKeepsIInv ==
    ASSUME IInv, NEW request \in pending, ResetEmail(request)
    PROVE  IInv'
<1> DEFINE new == [id |-> request.user_id, email |-> request.new_email]
           rest == {u \in users : u.id # request.user_id}
<1>1. /\ users' = rest \cup {new}
      /\ \A u \in users : Citext(u.email) = Citext(new.email) => u.id = new.id
      /\ pending' = pending \ {request} /\ attempts' = attempts
  BY DEF ResetEmail, GetUserByEmail
<1>2. PICK old \in users : old.id = request.user_id
  BY DEF IInv
<1>3. new.id = old.id /\ Stored(new.email)
  BY <1>2 DEF IInv
<1>4. rest = users \ {old}
  BY <1>2 DEF IInv
<1>5. \A u \in rest : u \in users /\ u.id # new.id
  OBVIOUS
<1> HIDE DEF new, rest
<1>6. IsFiniteSet(users') /\ Cardinality(users') = Cardinality(users)
  <2>1. Cardinality(users) \in Nat /\ IsFiniteSet(users)
    BY FS_CardinalityType DEF IInv
  <2>2. IsFiniteSet(rest) /\ Cardinality(rest) = Cardinality(users) - 1
    BY <1>4, <2>1, FS_RemoveElement
  <2>3. new \notin rest
    BY <1>5
  <2>4. IsFiniteSet(users') /\ Cardinality(users') = (Cardinality(users) - 1) + 1
    BY <1>1, <2>2, <2>3, FS_AddElement
  <2>5. QED
    BY <2>1, <2>4
<1>7. \A u \in users' : u.id \in 1 .. Cardinality(users') /\ Stored(u.email)
  BY <1>1, <1>3, <1>5, <1>6 DEF IInv
<1>8. \A u, v \in users' : u.id = v.id => u = v
  BY <1>1, <1>5 DEF IInv
<1>9. \A u, v \in users' : Citext(u.email) = Citext(v.email) => u = v
  BY <1>1, <1>5 DEF IInv
<1>10. ASSUME NEW r \in pending'
       PROVE  (\E u \in users' : u.id = r.user_id) /\ Stored(r.new_email)
  <2>1. PICK u \in users : u.id = r.user_id
    BY <1>1 DEF IInv
  <2>2. CASE u = old
    BY <1>1, <1>3, <2>1, <2>2 DEF IInv
  <2>3. CASE u # old
    BY <1>1, <1>4, <2>1, <2>3 DEF IInv
  <2>4. QED
    BY <2>2, <2>3
<1>11. QED
  BY <1>1, <1>6, <1>7, <1>8, <1>9, <1>10 DEF IInv

LEMMA NextKeepsIInv ==
    ASSUME IInv, [Next]_vars
    PROVE  IInv'
<1>1. ASSUME NEW input \in Input, Refuse(input)
      PROVE  IInv'
  BY <1>1 DEF Refuse, vars, IInv
<1>2. ASSUME NEW input \in Input, SignUp(input)
      PROVE  IInv'
  BY <1>2, SignUpKeepsIInv
<1>3. ASSUME NEW input \in Input, NEW action \in {"login", "password_reset"}, Attempt(action, input)
      PROVE  IInv'
  BY <1>3, AttemptKeepsIInv
<1>4. ASSUME NEW input \in Input, NEW u \in users, CreateEmailResetRequest(u, input)
      PROVE  IInv'
  BY <1>4, CreateEmailResetRequestKeepsIInv
<1>5. ASSUME NEW request \in pending, ResetEmail(request)
      PROVE  IInv'
  BY <1>5, ResetEmailKeepsIInv
<1>6. CASE UNCHANGED vars
  BY <1>6 DEF vars, IInv
<1>7. QED
  BY <1>1, <1>2, <1>3, <1>4, <1>5, <1>6 DEF Next

LEMMA IInvHolds == Spec => []IInv
<1>1. Init => IInv
  BY InitIInv
<1>2. IInv /\ [Next]_vars => IInv'
  BY NextKeepsIInv
<1>3. QED
  BY <1>1, <1>2, PTL DEF Spec

----------------------------------------------------------------------------
(***************************************************************************)
(* The theorems.                                                           *)
(***************************************************************************)

\* What is written down, by any sign-up, attempt or change of email, is an
\* address, whatever is typed.
THEOREM EmailsTypeTheorem == Spec => []TypeOK
<1>1. IInv => TypeOK
  <2> SUFFICES ASSUME IInv PROVE TypeOK
    OBVIOUS
  <2>1. Cardinality(users) \in Nat /\ Cardinality(users) <= MaxUsers
    BY FS_CardinalityType DEF IInv
  <2>2. \A u \in users : u.id \in 1 .. MaxUsers /\ ParseAddress(u.email)
    <3>1. \A u \in users : u.id \in 1 .. Cardinality(users) /\ Stored(u.email)
      BY DEF IInv
    <3>2. \A u \in users : ParseAddress(u.email)
      BY <3>1, StoredFacts
    <3>3. QED
      BY <2>1, <3>1, <3>2, EmailsAssumption
  <2>3. \A r \in pending : r.user_id \in {u.id : u \in users} /\ ParseAddress(r.new_email)
    BY StoredFacts DEF IInv
  <2>4. \A a \in attempts : ParseAddress(a.email)
    BY StoredFacts DEF IInv
  <2>5. QED
    BY <2>2, <2>3, <2>4 DEF IInv, TypeOK
<1>2. QED
  BY <1>1, IInvHolds, PTL

\* However an account's email is typed, in whatever case and between whatever
\* blanks, the normalized input finds that account and no other.
THEOREM SpellingsFindTheAccountTheorem == Spec => []SpellingsFindTheAccount
<1>1. IInv => SpellingsFindTheAccount
  <2> SUFFICES ASSUME IInv, NEW u \in users, NEW input \in Input,
                      Citext(TrimSpace(input)) = Citext(u.email),
                      ByteLen(TrimSpace(input)) <= MaxBytes
               PROVE  Valid(input) /\ GetUserByEmail(Normalize(input)) = {u}
    BY DEF SpellingsFindTheAccount
  <2>1. Stored(u.email) /\ input \in Text
    BY InputIsText DEF IInv
  <2>2. Valid(input)
    BY <2>1, SpellingIsValid
  <2>3. Citext(Normalize(input)) = Citext(u.email)
    BY <2>1, <2>2, AcceptedIsStored
  <2>4. \A v \in users : Citext(v.email) = Citext(u.email) => v = u
    BY DEF IInv
  <2>5. GetUserByEmail(Normalize(input)) = {u}
    BY <2>3, <2>4 DEF GetUserByEmail
  <2>6. QED
    BY <2>2, <2>5
<1>2. QED
  BY <1>1, IInvHolds, PTL

\* No INSERT or UPDATE of an accepted email violates the CHECK on the length of
\* a column, although lower-casing comes after the limit on bytes.
THEOREM AcceptedEmailsFitTheorem == Spec => []AcceptedEmailsFit
<1>1. IInv => AcceptedEmailsFit
  BY StoredFacts DEF IInv, AcceptedEmailsFit
<1>2. QED
  BY <1>1, IInvHolds, PTL

\* Two counts of attempts on one account differ in the spelling of the local part.
THEOREM OneCountPerLocalSpellingTheorem == Spec => []OneCountPerLocalSpelling
<1>1. IInv => OneCountPerLocalSpelling
  BY SameStoredEmail DEF IInv, OneCountPerLocalSpelling
<1>2. QED
  BY <1>1, IInvHolds, PTL

\* An email that is read from a row and normalized again is the same, or was
\* made too long by lower-casing.
THEOREM StoredEmailsAreNormalTheorem == Spec => []StoredEmailsAreNormal
<1>1. IInv => StoredEmailsAreNormal
  <2> SUFFICES ASSUME IInv, NEW email, Stored(email)
               PROVE  \/ Valid(email) /\ Normalize(email) = email
                      \/ ByteLen(email) > MaxBytes
    BY DEF IInv, StoredEmailsAreNormal
  <2>1. ByteLen(email) \in Nat /\ MaxBytes \in Nat
    BY ByteLenFacts, EmailsAssumption DEF Stored
  <2>2. QED
    BY <2>1, StoredFacts
<1>2. QED
  BY <1>1, IInvHolds, PTL
=========================================================================================
