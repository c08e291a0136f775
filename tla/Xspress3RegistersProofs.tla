---------------------- MODULE Xspress3RegistersProofs ----------------------
(***************************************************************************)
(* Lemmas about the register words: a field reads back what was put in it, *)
(* for every number that fits in it.  The proofs about the words the       *)
(* Camera writes rest on them.                                             *)
(***************************************************************************)
EXTENDS Xspress3Registers, FiniteSetTheorems, TLAPS

-----------------------------------------------------------------------------
(* Numbers in fields.  What is put in a field of two, three, four or eight *)
(* bits is what is read from it: the bits of a number tell it.             *)

LEMMA LowOfField ==
    ASSUME NEW l \in Nat, NEW h \in Nat, l <= h
    PROVE  LowBit(l .. h) = l /\ Cardinality(l .. h) = h - l + 1
<1>1. LowBit(l .. h) = l
  BY DEF LowBit
<1>2. Cardinality(l .. h) = h - l + 1
  BY FS_Interval
<1> QED
  BY <1>1, <1>2

(* Bit i of a number, and the number of eight bits.                        *)
Bit(v, i) == (v \div 2 ^ i) % 2
OfBits(b0, b1, b2, b3, b4, b5, b6, b7) ==
    b0 + 2 * b1 + 4 * b2 + 8 * b3 + 16 * b4 + 32 * b5 + 64 * b6 + 128 * b7
SumOfBits(v) == OfBits(Bit(v, 0), Bit(v, 1), Bit(v, 2), Bit(v, 3), Bit(v, 4),
                       Bit(v, 5), Bit(v, 6), Bit(v, 7))

LEMMA BitOf ==
    ASSUME NEW l \in Nat, NEW h \in Nat, NEW i \in Nat, l + i <= h, NEW v
    PROVE  l + i \in Encode(l .. h, v) <=> Bit(v, i) = 1
<1>1. LowBit(l .. h) = l
  BY LowOfField
<1>2. l + i \in l .. h /\ l + i - l = i
  OBVIOUS
<1> QED
  BY <1>1, <1>2 DEF Encode, Bit

LEMMA Powers ==
    /\ 2 ^ 0 = 1 /\ 2 ^ 1 = 2 /\ 2 ^ 2 = 4 /\ 2 ^ 3 = 8 /\ 2 ^ 4 = 16
    /\ 2 ^ 5 = 32 /\ 2 ^ 6 = 64 /\ 2 ^ 7 = 128 /\ 2 ^ 8 = 256
OBVIOUS

LEMMA NumberOfBits == \A v \in 0 .. 255 : v = SumOfBits(v)
<1> SUFFICES ASSUME NEW v \in 0 .. 255 PROVE v = SumOfBits(v)
  OBVIOUS
<1>1. v = OfBits(v % 2, (v \div 2) % 2, (v \div 4) % 2, (v \div 8) % 2,
                 (v \div 16) % 2, (v \div 32) % 2, (v \div 64) % 2,
                 (v \div 128) % 2)
  BY Z3 DEF OfBits
<1>2. v \div 1 = v
  OBVIOUS
<1>3. /\ Bit(v, 0) = v % 2 /\ Bit(v, 1) = (v \div 2) % 2
      /\ Bit(v, 2) = (v \div 4) % 2 /\ Bit(v, 3) = (v \div 8) % 2
      /\ Bit(v, 4) = (v \div 16) % 2 /\ Bit(v, 5) = (v \div 32) % 2
      /\ Bit(v, 6) = (v \div 64) % 2 /\ Bit(v, 7) = (v \div 128) % 2
  BY <1>2, Powers, Zenon DEF Bit
<1> QED
  BY <1>1, <1>3, Zenon DEF SumOfBits

LEMMA SameBits ==
    ASSUME NEW u \in 0 .. 255, NEW v \in 0 .. 255, SumOfBits(u) = SumOfBits(v)
    PROVE  u = v
<1>1. u = SumOfBits(u)
  BY NumberOfBits
<1>2. v = SumOfBits(v)
  BY NumberOfBits
<1> QED
  BY <1>1, <1>2

LEMMA HighBits ==
    \A v \in Nat : /\ \A i \in {0,1,2,3,4,5,6,7} : Bit(v, i) \in {0, 1}
                   /\ v < 4 => \A i \in {2,3,4,5,6,7} : Bit(v, i) = 0
                   /\ v < 8 => \A i \in {3,4,5,6,7} : Bit(v, i) = 0
                   /\ v < 16 => \A i \in {4,5,6,7} : Bit(v, i) = 0
<1>1. ASSUME NEW v \in Nat, NEW d \in {1, 2, 4, 8, 16, 32, 64, 128}
      PROVE  (v \div d) % 2 \in {0, 1} /\ (v < d => (v \div d) % 2 = 0)
  BY Z3
<1> QED
  BY <1>1, Powers DEF Bit

LEMMA ReadsBack ==
    ASSUME NEW l \in Nat, NEW n \in {1, 2, 3, 7}, NEW v \in Nat, v < 2 ^ (n + 1)
    PROVE  \A word : word \cap (l .. l + n) = Encode(l .. l + n, v)
                     => Decode(l .. l + n, word) = v
<1> DEFINE field == l .. l + n
<1>0. 2 ^ (n + 1) = CASE n = 1 -> 4 [] n = 2 -> 8 [] n = 3 -> 16 [] n = 7 -> 256
  <2>1. 1 + 1 = 2 /\ 2 + 1 = 3 /\ 3 + 1 = 4 /\ 7 + 1 = 8
    OBVIOUS
  <2>2. CASE n = 1
    BY <2>1, <2>2, Powers
  <2>3. CASE n = 2
    BY <2>1, <2>3, Powers
  <2>4. CASE n = 3
    BY <2>1, <2>4, Powers
  <2>5. CASE n = 7
    BY <2>1, <2>5, Powers
  <2> QED
    BY <2>2, <2>3, <2>4, <2>5
<1>1. Cardinality(field) = n + 1
  <2>1. l + n \in Nat /\ l <= l + n /\ l + n - l + 1 = n + 1
    OBVIOUS
  <2> QED
    BY <2>1, LowOfField
<1>2. ASSUME NEW u \in 0 .. 2 ^ (n + 1) - 1, Encode(field, u) = Encode(field, v)
      PROVE  u = v
  <2>1. u \in 0 .. 255 /\ v \in 0 .. 255 /\ u < 2 ^ (n + 1) /\ l + n \in Nat
    BY <1>0
  <2>2. ASSUME NEW i \in 0 .. n PROVE Bit(u, i) = 1 <=> Bit(v, i) = 1
    <3>1. i \in Nat /\ l + i <= l + n
      OBVIOUS
    <3>2. /\ l + i \in Encode(field, u) <=> Bit(u, i) = 1
          /\ l + i \in Encode(field, v) <=> Bit(v, i) = 1
      BY <2>1, <3>1, BitOf
    <3> QED
      BY <1>2, <3>2
  <2>3. \A i \in {0,1,2,3,4,5,6,7} : Bit(u, i) = Bit(v, i)
    <3>1. \A i \in {0,1,2,3,4,5,6,7} : Bit(u, i) \in {0, 1} /\ Bit(v, i) \in {0, 1}
      BY <2>1, HighBits
    <3>2. \A i \in {0,1,2,3,4,5,6,7} :
             i \notin 0 .. n => Bit(u, i) = 0 /\ Bit(v, i) = 0
      BY <1>0, <2>1, HighBits
    <3> QED
      BY <2>2, <3>1, <3>2
  <2> QED
    <3>1. /\ Bit(u, 0) = Bit(v, 0) /\ Bit(u, 1) = Bit(v, 1) /\ Bit(u, 2) = Bit(v, 2)
          /\ Bit(u, 3) = Bit(v, 3) /\ Bit(u, 4) = Bit(v, 4) /\ Bit(u, 5) = Bit(v, 5)
          /\ Bit(u, 6) = Bit(v, 6) /\ Bit(u, 7) = Bit(v, 7)
      BY <2>3
    <3>2. SumOfBits(u) = SumOfBits(v)
      BY <3>1 DEF SumOfBits
    <3>3. u \in 0 .. 255 /\ v \in 0 .. 255
      BY <2>1, Zenon
    <3> QED
      BY <3>2, <3>3, SameBits, Zenon
<1>3. \A word : Decode(field, word) =
         CHOOSE u \in 0 .. 2 ^ (n + 1) - 1 : Encode(field, u) = word \cap field
  BY <1>1 DEF Decode
<1>4. v \in 0 .. 2 ^ (n + 1) - 1
  BY <1>0
<1> HIDE DEF field
<1>5. \A word : word \cap field = Encode(field, v) => Decode(field, word) = v
  BY <1>2, <1>3, <1>4
<1> QED
  BY <1>5 DEF field

LEMMA AnyFieldReadsBack ==
    \A l \in Nat, n \in {1, 2, 3, 7}, v \in Nat :
        v < 2 ^ (n + 1) =>
            \A word : word \cap (l .. l + n) = Encode(l .. l + n, v)
                     => Decode(l .. l + n, word) = v
<1>1. ASSUME NEW l \in Nat, NEW n \in {1, 2, 3, 7}, NEW v \in Nat, v < 2 ^ (n + 1)
      PROVE  \A word : word \cap (l .. l + n) = Encode(l .. l + n, v)
                       => Decode(l .. l + n, word) = v
  BY <1>1, ReadsBack, Zenon
<1> QED
  BY <1>1, Zenon
=============================================================================
