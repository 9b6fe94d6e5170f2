-------------------------- MODULE TypedFrames_proofs --------------------------
(***************************************************************************)
(* What one side writes the other reads: for any programs of a spec file   *)
(* whose enums fit a byte and whose structs only grow at their ends, any   *)
(* size of a byte and any number of frames on their way, values, arguments *)
(* and results come out of the bytes of frames as they went in, and the    *)
(* reader of a value node sees what its writer last sent.                  *)
(***************************************************************************)
EXTENDS TypedFrames, SequenceTheorems, WellFoundedInduction, TLAPS

-----------------------------------------------------------------------------
(* Division.  What the solver knows of it is its defining equation.        *)

(* Quotient and rest are the only numbers that make it true.               *)
LEMMA DivisionUnique ==
  ASSUME NEW a \in Int, NEW b \in Nat \ {0}, NEW q \in Int, NEW r \in 0 .. b - 1,
         a = b * q + r
  PROVE  a \div b = q /\ a % b = r
OBVIOUS

(* What is smaller than the divisor is the rest.                           *)
LEMMA RestOfSmall ==
  ASSUME NEW b \in Nat, NEW r \in 0 .. b - 1
  PROVE  r % b = r
OBVIOUS

(* Of a natural number, they are natural numbers.                          *)
LEMMA Division ==
  ASSUME NEW a \in Nat, NEW b \in Nat \ {0}
  PROVE  /\ a \div b \in Nat /\ a % b \in 0 .. b - 1
         /\ a = b * (a \div b) + (a % b)
<1>1. /\ a \div b \in Int /\ a % b \in 0 .. b - 1
      /\ a = b * (a \div b) + (a % b)
  OBVIOUS
<1>2. ASSUME a \div b < 0 PROVE FALSE
  <2>1. b * (a \div b) <= -b BY <1>1, <1>2
  <2> QED BY <2>1, <1>1, <1>2
<1> QED BY <1>1, <1>2

(* Dividing twice is dividing by the product.                              *)
LEMMA DivisionTwice ==
  ASSUME NEW a \in Nat, NEW b \in Nat \ {0}, NEW c \in Nat \ {0}
  PROVE  a \div (b * c) = (a \div b) \div c /\ b * c \in Nat \ {0}
<1> DEFINE q == a \div b
           r == a % b
           p == q \div c
           s == q % c
<1>1. q \in Int /\ r \in 0 .. b - 1 /\ a = b * q + r
  BY Division
<1>2. p \in Int /\ s \in 0 .. c - 1 /\ q = c * p + s
  BY <1>1, Division
<1> HIDE DEF q, r, p, s
<1>3. a = (b * c) * p + (b * s + r)
  BY <1>1, <1>2
<1>4. b * s \in 0 .. b * (c - 1)
  BY <1>2
<1>5. b * s + r \in 0 .. (b * c) - 1
  BY <1>1, <1>4
<1>6. b * c \in Nat \ {0}
  OBVIOUS
<1>7. a \div (b * c) = p
  BY <1>2, <1>3, <1>5, <1>6, DivisionUnique
<1> QED BY <1>6, <1>7 DEF p, q

(* A word is the sum of its bytes, each with its weight.                   *)
LEMMA BytesOfWord ==
  ASSUME NEW b \in Nat \ {0}, NEW w \in Nat
  PROVE  /\ w < b => w % b = w
         /\ w < b * b => (w % b) + ((w \div b) % b) * b = w
         /\ w < b * b * b * b =>
              (w % b) + ((w \div b) % b) * b + ((w \div (b * b)) % b) * (b * b)
                + ((w \div (b * b * b)) % b) * (b * b * b) = w
<1> DEFINE q1 == w \div b
           q2 == q1 \div b
           q3 == q2 \div b
<1>1. q1 \in Nat /\ w % b \in 0 .. b - 1 /\ w = b * q1 + (w % b)
  BY Division, Zenon
<1>2. q2 \in Nat /\ q1 % b \in 0 .. b - 1 /\ q1 = b * q2 + (q1 % b)
  BY <1>1, Division, Zenon
<1>3. q3 \in Nat /\ q2 % b \in 0 .. b - 1 /\ q2 = b * q3 + (q2 % b)
  BY <1>2, Division, Zenon
<1>4. w \div (b * b) = q2 /\ b * b \in Nat \ {0}
  BY DivisionTwice
<1>5. w \div (b * b * b) = q3
  <2>1. w \div ((b * b) * b) = (w \div (b * b)) \div b
    BY <1>4, DivisionTwice, Zenon
  <2> QED BY <2>1, <1>4, Zenon
<1> HIDE DEF q1, q2, q3
<1>6. ASSUME w < b PROVE w % b = w
  <2>1. q1 = 0 BY <1>1, <1>6
  <2> QED BY <2>1, <1>1
<1>7. ASSUME w < b * b PROVE (w % b) + (q1 % b) * b = w
  <2>1. q1 < b BY <1>1, <1>7
  <2>2. q1 % b = q1
    <3>1. q1 \in 0 .. b - 1 BY <2>1, <1>1
    <3> QED BY <3>1, Zenon, RestOfSmall
  <2> QED BY <2>2, <1>1
<1>8. ASSUME w < b * b * b * b
      PROVE (w % b) + (q1 % b) * b + (q2 % b) * (b * b) + (q3 % b) * (b * b * b) = w
  <2>1. q3 < b
    <3>1. SUFFICES ASSUME q3 >= b PROVE FALSE BY <1>3
    <3>2. q2 >= b * b BY <3>1, <1>3
    <3>3. q1 >= b * (b * b) BY <3>2, <1>2
    <3>4. w >= b * (b * (b * b)) BY <3>3, <1>1
    <3> QED BY <3>4, <1>8
  <2>2. q3 % b = q3
    <3>1. q3 \in 0 .. b - 1 BY <2>1, <1>3
    <3> QED BY <3>1, Zenon, RestOfSmall
  <2>3. (q3 % b) * (b * b * b) + (q2 % b) * (b * b) = q2 * (b * b)
    <3> DEFINE s == q2 % b
    <3>1. s \in Nat /\ q3 \in Nat /\ q2 = b * q3 + s BY <1>3
    <3> HIDE DEF s
    <3>2. q3 * (b * b * b) + s * (b * b) = (b * q3 + s) * (b * b) BY <3>1
    <3> QED BY <2>2, <3>1, <3>2, Zenon DEF s
  <2>4. (q1 % b) * b + q2 * (b * b) = q1 * b
    BY <1>2
  <2> QED BY <2>3, <2>4, <1>1, <1>2, <1>3, <2>2
<1> QED BY <1>4, <1>5, <1>6, <1>7, <1>8 DEF q1

-----------------------------------------------------------------------------
(* Induction, over sets of natural numbers.                                *)

(* A set of natural numbers that is not empty has a least one.             *)
LEMMA LeastNatural ==
  ASSUME NEW T \in SUBSET Nat, T # {}
  PROVE  \E m \in T : \A k \in T : ~ (k < m)
<1>1. \E m \in T : \A k \in T : ~ (<<k, m>> \in OpToRel(<, Nat))
  BY WFMin, NatLessThanWellFounded, Zenon
<1> QED BY <1>1, Zenon DEF OpToRel

(* What has 0, and n + 1 with each n, has every natural number.            *)
LEMMA InductiveSet ==
  ASSUME NEW S, 0 \in S, \A n \in Nat : n \in S => n + 1 \in S
  PROVE  \A n \in Nat : n \in S
<1> DEFINE T == Nat \ S
<1>1. SUFFICES ASSUME T # {} PROVE FALSE
  OBVIOUS
<1>2. PICK m \in T : \A k \in T : ~ (k < m)
  BY <1>1, LeastNatural, Zenon
<1>3. m \in Nat /\ m # 0 /\ m \notin S
  BY <1>2
<1>4. m - 1 \in Nat /\ m - 1 < m /\ (m - 1) + 1 = m
  BY <1>3
<1>5. m - 1 \in S
  BY <1>2, <1>4
<1> QED BY <1>3, <1>4, <1>5, Zenon

-----------------------------------------------------------------------------
(* Values and their bytes.                                                 *)

(* A type takes 1, 2 or 4 bytes; all names but the C++ types' take one.    *)
LEMMA Widths ==
  ASSUME NEW type
  PROVE  /\ Width(type) \in {1, 2, 4}
         /\ type \notin CppType => Width(type) = 1
         /\ SignedType \subseteq CppType
BY DEF Width, CppType, getRequiredDataSizeInBytes, SignedType

(* How many words a type has, and that they can be halved.                 *)
LEMMA WordsOfType ==
  ASSUME NEW type
  PROVE  /\ Words(type) \in Nat \ {0}
         /\ Width(type) = 1 => Words(type) = ByteSize
         /\ Width(type) = 2 => Words(type) = ByteSize * ByteSize
         /\ Width(type) = 4 => Words(type) = ByteSize * ByteSize * ByteSize * ByteSize
         /\ Words(type) = (Words(type) \div 2) * 2
         /\ Words(type) \div 2 \in Nat
<1>1. PICK h \in Nat \ {0} : ByteSize = 2 * h
  <2>1. ByteSize = 2 * (ByteSize \div 2) /\ ByteSize \div 2 \in Nat \ {0}
    BY ByteSizeAssumption
  <2> QED BY <2>1
<1>2. /\ Width(type) = 1 => Words(type) = ByteSize
      /\ Width(type) = 2 => Words(type) = ByteSize * ByteSize
      /\ Width(type) = 4 => Words(type) = ByteSize * ByteSize * ByteSize * ByteSize
  BY DEF Words, Weight
<1>3. \E g \in Nat \ {0} : Words(type) = 2 * g
  <2>1. CASE Width(type) = 1
    BY <2>1, <1>1, <1>2
  <2>2. CASE Width(type) = 2
    <3>1. Words(type) = 2 * (h * ByteSize) BY <2>2, <1>1, <1>2
    <3>2. h * ByteSize \in Nat \ {0} BY <1>1
    <3> QED BY <3>1, <3>2
  <2>3. CASE Width(type) = 4
    <3> DEFINE c == ByteSize * ByteSize * ByteSize
    <3>1. c \in Nat \ {0} BY <1>1
    <3>2. Words(type) = c * ByteSize BY <2>3, <1>2
    <3> HIDE DEF c
    <3>3. Words(type) = 2 * (h * c) BY <3>1, <3>2, <1>1
    <3>4. h * c \in Nat \ {0} BY <1>1, <3>1
    <3> QED BY <3>3, <3>4
  <2> QED BY <2>1, <2>2, <2>3, Widths
<1>4. PICK g \in Nat \ {0} : Words(type) = 2 * g
  BY <1>3
<1> QED BY <1>2, <1>4

(* The bytes of a word make up the word.                                   *)
LEMMA WordOfBytes ==
  ASSUME NEW type, NEW w \in Nat, w < Words(type), NEW data,
         \A i \in 1 .. Width(type) : data[i] = (w \div Weight[i]) % ByteSize
  PROVE  Word(type, data) = w
<1> DEFINE b == ByteSize
<1>1. b \in Nat \ {0}
  BY ByteSizeAssumption
<1>2. Weight[1] = 1 /\ Weight[2] = b /\ Weight[3] = b * b /\ Weight[4] = b * b * b
  BY DEF Weight
<1>3. w \div 1 = w
  OBVIOUS
<1>4. CASE Width(type) = 1
  <2>1. data[1] = w % b
    BY <1>2, <1>3, <1>4
  <2>2. Word(type, data) = data[1] * Weight[1]
    <3>1. data[1] * Weight[1] \in Int BY <2>1, <1>2, <1>1
    <3> QED BY <1>4, <3>1 DEF Word
  <2>3. w % b = w
    BY <1>1, <1>4, WordsOfType, BytesOfWord
  <2> QED BY <2>1, <2>2, <2>3, <1>2
<1>5. CASE Width(type) = 2
  <2>1. data[1] = w % b /\ data[2] = (w \div b) % b
    BY <1>2, <1>3, <1>5
  <2>2. Word(type, data) = data[1] + data[2] * b
    <3>1. data[1] * Weight[1] = data[1] /\ data[1] \in Int BY <2>1, <1>2, <1>1
    <3>2. data[2] * Weight[2] = data[2] * b /\ data[2] * b \in Int
      <4>1. (w \div b) % b \in Int BY <1>1
      <4> HIDE DEF b
      <4> QED BY <4>1, <2>1, <1>2, <1>1
    <3>3. Word(type, data) = data[1] * Weight[1] + data[2] * Weight[2] + 0 + 0
      BY <1>5 DEF Word
    <3> QED BY <3>1, <3>2, <3>3
  <2>3. w < b * b
    BY <1>5, WordsOfType
  <2>4. (w % b) + ((w \div b) % b) * b = w
    BY <2>3, <1>1, BytesOfWord, Zenon
  <2> QED BY <2>1, <2>2, <2>4, Zenon
<1>6. CASE Width(type) = 4
  <2>1. /\ data[1] = w % b /\ data[2] = (w \div b) % b
        /\ data[3] = (w \div (b * b)) % b /\ data[4] = (w \div (b * b * b)) % b
    BY <1>2, <1>3, <1>6
  <2>2. Word(type, data) = data[1] + data[2] * b + data[3] * (b * b) + data[4] * (b * b * b)
    <3>1. data[1] * Weight[1] = data[1] /\ data[1] \in Int BY <2>1, <1>2, <1>1
    <3>2. Word(type, data) = data[1] * Weight[1] + data[2] * Weight[2]
                               + data[3] * Weight[3] + data[4] * Weight[4]
      BY <1>6 DEF Word
    <3> QED BY <3>1, <3>2, <1>2, Zenon
  <2>3. w < b * b * b * b
    BY <1>6, WordsOfType
  <2>4. (w % b) + ((w \div b) % b) * b + ((w \div (b * b)) % b) * (b * b)
          + ((w \div (b * b * b)) % b) * (b * b * b) = w
    BY <2>3, <1>1, BytesOfWord, Zenon
  <2> QED BY <2>1, <2>2, <2>4, Zenon
<1> QED BY <1>4, <1>5, <1>6, Widths

(* The values that a type has.                                             *)
Good(type) == Lowest(type) .. Highest(type)

(* readFromData returns the value that writeToData got, for every type of  *)
(* the spec file and each of its values, from any data that begins with    *)
(* what writeToData wrote.                                                 *)
LEMMA RoundTrip ==
  ASSUME NEW type, NEW v \in Int, v \in Good(type), NEW data,
         \A i \in 1 .. Width(type) : data[i] = WriteToData(type, v)[i]
  PROVE  ReadFromData(type, data) = v
<1> DEFINE W == Words(type)
           w == v % W
<1>1. W \in Nat \ {0} /\ W = (W \div 2) * 2 /\ W \div 2 \in Nat
  BY WordsOfType
<1>2. w \in Nat /\ w < W
  BY <1>1
<1>3. w = IF v >= 0 THEN v ELSE v + W
  <2>1. CASE v >= 0
    <3>1. v < W
      BY <1>1, <2>1 DEF Good, Lowest, Highest
    <3>2. v \in 0 .. W - 1
      BY <3>1, <2>1, <1>1
    <3> HIDE DEF W
    <3> QED BY <3>2, <1>1, <2>1, RestOfSmall
  <2>2. CASE v < 0
    <3>1. v + W \in 0 .. W - 1 /\ v = W * (-1) + (v + W)
      BY <1>1, <2>2 DEF Good, Lowest, Highest
    <3> HIDE DEF W
    <3>2. v % W = v + W
      BY <3>1, <1>1, DivisionUnique
    <3> QED BY <3>2, <2>2
  <2> QED BY <2>1, <2>2
<1>4. Word(type, data) = w
  <2>1. \A i \in 1 .. Width(type) : data[i] = (w \div Weight[i]) % ByteSize
    BY DEF WriteToData
  <2> HIDE DEF w
  <2> QED BY <2>1, <1>2, WordOfBytes, Zenon
<1> QED BY <1>1, <1>3, <1>4 DEF ReadFromData, Good, Lowest, Highest

(* writeToData writes as many bytes as the type takes.                     *)
LEMMA BytesOfValue ==
  ASSUME NEW type, NEW v \in Int
  PROVE  /\ WriteToData(type, v) \in Seq(Byte)
         /\ Len(WriteToData(type, v)) = Width(type)
<1> DEFINE w == v % Words(type)
           e(i) == (w \div Weight[i]) % ByteSize
<1>1. w \in Nat
  BY WordsOfType
<1>2. ByteSize \in Nat \ {0} /\ Width(type) \in 1 .. 4
  BY ByteSizeAssumption, Widths
<1>3. /\ Weight[1] \in Nat \ {0} /\ Weight[2] \in Nat \ {0}
      /\ Weight[3] \in Nat \ {0} /\ Weight[4] \in Nat \ {0}
  <2>1. ByteSize * ByteSize \in Nat \ {0}
    BY <1>2
  <2>2. ByteSize * ByteSize * ByteSize \in Nat \ {0}
    <3> DEFINE c == ByteSize * ByteSize
    <3> HIDE DEF c
    <3>1. c \in Nat \ {0} => c * ByteSize \in Nat \ {0} BY <1>2
    <3> QED BY <2>1, <3>1 DEF c
  <2> QED BY <1>2, <2>1, <2>2 DEF Weight
<1> HIDE DEF w
<1>4. ASSUME NEW i \in 1 .. Width(type) PROVE e(i) \in Byte
  <2>1. Weight[i] \in Nat \ {0}
    <3>1. i = 1 \/ i = 2 \/ i = 3 \/ i = 4
      BY <1>2
    <3> QED BY <1>3, <3>1, Zenon
  <2> DEFINE q == w \div Weight[i]
  <2>2. q \in Int
    BY <1>1, <2>1
  <2> HIDE DEF q
  <2>3. q % ByteSize \in Byte
    BY <2>2, <1>2 DEF Byte
  <2> QED BY <2>3 DEF q
<1>5. WriteToData(type, v) = [i \in 1 .. Width(type) |-> e(i)]
  BY DEF WriteToData, w
<1> HIDE DEF e
<1>6. WriteToData(type, v) \in [1 .. Width(type) -> Byte]
  BY <1>4, <1>5
<1> QED BY <1>6, <1>2

-----------------------------------------------------------------------------
(* Structs and their bytes.  The members' offsets and the bytes written are *)
(* recursive functions: that there is one is an induction.                 *)

(* There is a function of the sums of weights before a place.              *)
LEMMA SumsExist ==
  ASSUME NEW w, NEW n \in Nat
  PROVE  \E f : f = [i \in 1 .. n + 1 |-> IF i = 1 THEN 0 ELSE f[i - 1] + w[i - 1]]
<1> DEFINE Sums(f, k) ==
             f = [i \in 1 .. k + 1 |-> IF i = 1 THEN 0 ELSE f[i - 1] + w[i - 1]]
           S == {k \in Nat : \E f : Sums(f, k)}
<1>1. 0 \in S
  <2>1. Sums([i \in 1 .. 1 |-> 0], 0)
    OBVIOUS
  <2> QED BY <2>1
<1>2. ASSUME NEW k \in Nat, k \in S
      PROVE  k + 1 \in S
  <2>1. PICK f : Sums(f, k)
    BY <1>2
  <2> DEFINE g == [i \in 1 .. (k + 1) + 1 |-> IF i <= k + 1 THEN f[i] ELSE f[k + 1] + w[k + 1]]
  <2>2. ASSUME NEW i \in 1 .. (k + 1) + 1
        PROVE  g[i] = IF i = 1 THEN 0 ELSE g[i - 1] + w[i - 1]
    <3>1. CASE i <= k + 1
      <4>1. i \in 1 .. k + 1 /\ (i # 1 => i - 1 \in 1 .. k + 1)
        BY <3>1
      <4> QED BY <4>1, <3>1, <2>1
    <3>2. CASE i = k + 2
      BY <3>2
    <3> QED BY <3>1, <3>2
  <2>3. Sums(g, k + 1)
    <3>2. g = [i \in 1 .. (k + 1) + 1 |-> g[i]]
      OBVIOUS
    <3>3. \A i \in 1 .. (k + 1) + 1 : g[i] = IF i = 1 THEN 0 ELSE g[i - 1] + w[i - 1]
      BY <2>2, Zenon
    <3> HIDE DEF g
    <3>4. g = [i \in 1 .. (k + 1) + 1 |-> IF i = 1 THEN 0 ELSE g[i - 1] + w[i - 1]]
      BY <3>2, <3>3
    <3> QED BY <3>4
  <2>4. \E h : Sums(h, k + 1)
    <3> HIDE DEF g, Sums
    <3> QED BY <2>3, Zenon
  <2> HIDE DEF Sums
  <2> QED BY <2>4
<1>3. n \in S
  <2> HIDE DEF S
  <2> QED BY <1>1, <1>2, InductiveSet, Zenon
<1> QED BY <1>3

(* Each member begins where the one before it ends.                        *)
LEMMA OffsetRule ==
  ASSUME NEW types, Len(types) \in Nat
  PROVE  /\ DOMAIN Offset(types) = 1 .. Len(types) + 1
         /\ Offset(types)[1] = 0
         /\ \A i \in 1 .. Len(types) :
              Offset(types)[i + 1] = Offset(types)[i] + Width(types[i])
<1> DEFINE w == [i \in 1 .. Len(types) |-> Width(types[i])]
           Rule(f) == f = [i \in 1 .. Len(types) + 1 |->
                             IF i = 1 THEN 0 ELSE f[i - 1] + Width(types[i - 1])]
<1>1. PICK f : f = [i \in 1 .. Len(types) + 1 |-> IF i = 1 THEN 0 ELSE f[i - 1] + w[i - 1]]
  BY SumsExist
<1>2. \A i \in 1 .. Len(types) + 1 : 
        i # 1 => i - 1 \in 1 .. Len(types) /\ w[i - 1] = Width(types[i - 1])
  OBVIOUS
<1>3. Rule(f)
  BY <1>1, <1>2
<1>4. Rule(Offset(types))
  <2>1. Offset(types) = CHOOSE g : Rule(g)
    BY DEF Offset
  <2> HIDE DEF Rule
  <2> QED BY <1>3, <2>1, Zenon
<1> QED BY <1>4

(* Members do not overlap: each takes a byte at least.                     *)
LEMMA OffsetsGrow ==
  ASSUME NEW types, Len(types) \in Nat
  PROVE  /\ \A i \in 1 .. Len(types) + 1 : Offset(types)[i] \in Nat /\ i - 1 <= Offset(types)[i]
         /\ \A i, j \in 1 .. Len(types) + 1 :
              i <= j => Offset(types)[i] + (j - i) <= Offset(types)[j]
<1> DEFINE n == Len(types)
           o == Offset(types)
<1>1. o[1] = 0 /\ \A i \in 1 .. n : o[i + 1] = o[i] + Width(types[i])
  BY OffsetRule
<1>2. \A i \in 1 .. n : Width(types[i]) \in Nat /\ Width(types[i]) >= 1
  BY Widths
<1> HIDE DEF o
<1> DEFINE S == {k \in Nat : k <= n =>
                   \A i \in 1 .. k + 1 : o[i] \in Nat /\ o[i] + (k + 1 - i) <= o[k + 1]}
<1>3. 0 \in S
  BY <1>1
<1>4. ASSUME NEW k \in Nat, k \in S PROVE k + 1 \in S
  <2>1. SUFFICES ASSUME k + 1 <= n, NEW i \in 1 .. (k + 1) + 1
                 PROVE  o[i] \in Nat /\ o[i] + (k + 2 - i) <= o[k + 2]
    <3>1. (k + 1) + 1 = k + 2 OBVIOUS
    <3> QED BY <3>1
  <2>2. k + 1 \in 1 .. n /\ (k + 1) + 1 = k + 2 BY <2>1
  <2>3. /\ o[k + 2] = o[k + 1] + Width(types[k + 1])
        /\ Width(types[k + 1]) >= 1 /\ Width(types[k + 1]) \in Nat
    BY <2>2, <1>1, <1>2
  <2>4. \A j \in 1 .. k + 1 : o[j] \in Nat /\ o[j] + (k + 1 - j) <= o[k + 1]
    BY <1>4, <2>1
  <2>5. o[k + 1] \in Nat /\ o[k + 2] \in Nat
    BY <2>3, <2>4
  <2>6. CASE i = k + 2
    BY <2>5, <2>6
  <2>7. CASE i \in 1 .. k + 1
    <3>1. o[i] \in Nat /\ o[i] + (k + 1 - i) <= o[k + 1]
      BY <2>4, <2>7
    <3> QED BY <3>1, <2>3, <2>5, <2>7
  <2> QED BY <2>6, <2>7
<1>5. \A k \in Nat : k \in S
  <2> HIDE DEF S
  <2> QED BY <1>3, <1>4, InductiveSet, Zenon
<1>6. ASSUME NEW i \in 1 .. n + 1, NEW j \in 1 .. n + 1, i <= j
      PROVE  o[i] \in Nat /\ o[j] \in Nat /\ o[i] + (j - i) <= o[j]
  <2> DEFINE k == j - 1
  <2>1. k \in Nat /\ k <= n /\ i \in 1 .. k + 1 /\ j \in 1 .. k + 1 /\ k + 1 = j
    BY <1>6
  <2>2. k \in S
    BY <2>1, <1>5
  <2> HIDE DEF k
  <2>3. \A m \in 1 .. k + 1 : o[m] \in Nat /\ o[m] + (k + 1 - m) <= o[k + 1]
    BY <2>1, <2>2
  <2>4. o[i] \in Nat /\ o[i] + (k + 1 - i) <= o[k + 1] /\ o[j] \in Nat
    BY <2>1, <2>3, Zenon
  <2>5. o[k + 1] = o[j] /\ k + 1 - i = j - i
    BY <2>1
  <2> QED BY <2>4, <2>5, Zenon
<1>7. ASSUME NEW i \in 1 .. n + 1
      PROVE  o[i] \in Nat /\ i - 1 <= o[i]
  <2>1. 1 \in 1 .. n + 1 OBVIOUS
  <2> QED BY <2>1, <1>6, <1>1
<1>8. \A i \in 1 .. n + 1 : o[i] \in Nat /\ i - 1 <= o[i]
  BY <1>7
<1>9. \A i, j \in 1 .. n + 1 : i <= j => o[i] + (j - i) <= o[j]
  BY <1>6
<1> QED BY <1>8, <1>9 DEF o

(* A struct that is another's beginning has its members at the same places. *)
LEMMA OffsetsOfPrefix ==
  ASSUME NEW S, NEW short \in Seq(S), NEW long \in Seq(S), IsPrefix(short, long)
  PROVE  /\ Len(short) <= Len(long)
         /\ \A i \in 1 .. Len(short) : short[i] = long[i]
         /\ \A i \in 1 .. Len(short) + 1 : Offset(short)[i] = Offset(long)[i]
<1>1. Len(short) <= Len(long) /\ \A i \in 1 .. Len(short) : short[i] = long[i]
  <2>1. SubSeq(short, 1, Len(short)) = SubSeq(long, 1, Len(short)) /\ Len(short) <= Len(long)
    BY DEF IsPrefix
  <2>2. \A i \in 1 .. Len(short) : SubSeq(short, 1, Len(short))[i] = short[i]
    OBVIOUS
  <2>3. \A i \in 1 .. Len(short) : SubSeq(long, 1, Len(short))[i] = long[i]
    BY <2>1
  <2> QED BY <2>1, <2>2, <2>3
<1> DEFINE n == Len(short)
           o == Offset(short)
           p == Offset(long)
           T == {k \in Nat : k <= n => o[k + 1] = p[k + 1]}
<1>2. Len(short) \in Nat /\ Len(long) \in Nat
  OBVIOUS
<1>3. /\ o[1] = 0 /\ \A i \in 1 .. n : o[i + 1] = o[i] + Width(short[i])
      /\ p[1] = 0 /\ \A i \in 1 .. Len(long) : p[i + 1] = p[i] + Width(long[i])
  BY <1>2, OffsetRule
<1> HIDE DEF o, p
<1>4. 0 \in T
  BY <1>3
<1>5. ASSUME NEW k \in Nat, k \in T PROVE k + 1 \in T
  <2>1. SUFFICES ASSUME k + 1 <= n PROVE o[(k + 1) + 1] = p[(k + 1) + 1]
    OBVIOUS
  <2>2. k + 1 \in 1 .. n /\ k + 1 \in 1 .. Len(long)
    BY <2>1, <1>1, <1>2
  <2>3. o[k + 1] = p[k + 1]
    BY <2>1, <1>5
  <2>4. /\ o[(k + 1) + 1] = o[k + 1] + Width(short[k + 1])
        /\ p[(k + 1) + 1] = p[k + 1] + Width(long[k + 1])
    BY <2>2, <1>3, Zenon
  <2>5. short[k + 1] = long[k + 1]
    BY <2>2, <1>1, Zenon
  <2> QED BY <2>3, <2>4, <2>5, Zenon
<1>6. \A k \in Nat : k \in T
  <2> HIDE DEF T
  <2> QED BY <1>4, <1>5, InductiveSet, Zenon
<1>7. ASSUME NEW i \in 1 .. n + 1 PROVE o[i] = p[i]
  <2> DEFINE k == i - 1
  <2>1. k \in Nat /\ k <= n /\ k + 1 = i
    BY <1>2
  <2>2. k \in T
    BY <2>1, <1>6
  <2> HIDE DEF k
  <2>3. o[k + 1] = p[k + 1]
    BY <2>1, <2>2
  <2> QED BY <2>1, <2>3, Zenon
<1> QED BY <1>1, <1>7 DEF o, p

(* There is a function of the concatenations up to a place.                *)
LEMMA FlattensExist ==
  ASSUME NEW s, NEW n \in Nat
  PROVE  \E f : f = [i \in 1 .. n |-> IF i = 1 THEN s[i] ELSE f[i - 1] \o s[i]]
<1> DEFINE Flat(f, k) ==
             f = [i \in 1 .. k |-> IF i = 1 THEN s[i] ELSE f[i - 1] \o s[i]]
           S == {k \in Nat : \E f : Flat(f, k)}
<1>1. 0 \in S
  <2>1. Flat([i \in 1 .. 0 |-> 0], 0)
    OBVIOUS
  <2> QED BY <2>1
<1>2. ASSUME NEW k \in Nat, k \in S
      PROVE  k + 1 \in S
  <2>1. PICK f : Flat(f, k)
    BY <1>2
  <2> DEFINE last == IF k = 0 THEN s[1] ELSE f[k] \o s[k + 1]
             g == [i \in 1 .. k + 1 |-> IF i <= k THEN f[i] ELSE last]
  <2>2. ASSUME NEW i \in 1 .. k + 1
        PROVE  g[i] = IF i = 1 THEN s[i] ELSE g[i - 1] \o s[i]
    <3>1. CASE i <= k
      <4>1. i \in 1 .. k /\ (i # 1 => i - 1 \in 1 .. k)
        BY <3>1
      <4>2. f[i] = IF i = 1 THEN s[i] ELSE f[i - 1] \o s[i]
        BY <4>1, <2>1
      <4>3. g[i] = f[i] /\ (i # 1 => g[i - 1] = f[i - 1])
        BY <4>1
      <4> QED BY <4>2, <4>3
    <3>2. CASE i = k + 1
      <4>1. g[i] = last /\ (k # 0 => g[k] = f[k] /\ i - 1 = k /\ i # 1) /\ (k = 0 => i = 1)
        BY <3>2
      <4> HIDE DEF g
      <4> QED BY <4>1, <3>2
    <3> QED BY <3>1, <3>2
  <2>3. Flat(g, k + 1)
    <3>1. g = [i \in 1 .. k + 1 |-> g[i]]
      OBVIOUS
    <3>2. \A i \in 1 .. k + 1 : g[i] = IF i = 1 THEN s[i] ELSE g[i - 1] \o s[i]
      BY <2>2, Zenon
    <3> HIDE DEF g
    <3> QED BY <3>1, <3>2
  <2>4. \E h : Flat(h, k + 1)
    <3> HIDE DEF g, Flat
    <3> QED BY <2>3, Zenon
  <2> HIDE DEF Flat
  <2> QED BY <2>4
<1>3. n \in S
  <2> HIDE DEF S
  <2> QED BY <1>1, <1>2, InductiveSet, Zenon
<1> QED BY <1>3

(* The chained writes of the generated struct leave each member's bytes at *)
(* its offset, and as many bytes as getRequiredDataSizeBytes says.         *)
LEMMA StructBytes ==
  ASSUME NEW T, NEW types \in Seq(T), NEW values,
         \A i \in 1 .. Len(types) : values[i] \in Int
  PROVE  /\ WriteStruct(types, values) \in Seq(Byte)
         /\ Len(WriteStruct(types, values)) = getRequiredDataSizeBytes(types)
         /\ \A i \in 1 .. Len(types) : \A m \in 1 .. Width(types[i]) :
              WriteStruct(types, values)[Offset(types)[i] + m] = WriteToData(types[i], values[i])[m]
<1> DEFINE n == Len(types)
           o == Offset(types)
           s == [i \in DOMAIN types |-> WriteToData(types[i], values[i])]
<1>1. n \in Nat /\ DOMAIN types = 1 .. n
  OBVIOUS
<1>2. \A i \in 1 .. n : s[i] \in Seq(Byte) /\ Len(s[i]) = Width(types[i])
  BY <1>1, BytesOfValue
<1>3. s \in Seq(Seq(Byte)) /\ Len(s) = n
  <2>1. s \in [1 .. n -> Seq(Byte)]
    BY <1>1, <1>2
  <2> HIDE DEF s
  <2> QED BY <2>1, <1>1
<1>4. \A i \in 1 .. n : s[i] = WriteToData(types[i], values[i])
  BY <1>1
<1>5. WriteStruct(types, values) = FlattenSeq(s)
  BY DEF WriteStruct
<1>6. /\ o[1] = 0 /\ \A i \in 1 .. n : o[i + 1] = o[i] + Width(types[i])
      /\ getRequiredDataSizeBytes(types) = o[n + 1]
  BY <1>1, OffsetRule DEF getRequiredDataSizeBytes
<1>7. \A i \in 1 .. n + 1 : o[i] \in Nat
  BY <1>1, OffsetsGrow
<1>8. \A i \in 1 .. n : /\ Width(types[i]) \in Nat
                        /\ o[i] + Width(types[i]) <= o[n + 1]
                        /\ o[i + 1] = o[i] + Width(types[i])
  <2>1. SUFFICES ASSUME NEW i \in 1 .. n
                 PROVE  /\ Width(types[i]) \in Nat
                        /\ o[i] + Width(types[i]) <= o[n + 1]
                        /\ o[i + 1] = o[i] + Width(types[i])
    OBVIOUS
  <2>2. Width(types[i]) \in Nat BY Widths
  <2>3. o[i + 1] = o[i] + Width(types[i]) BY <1>6
  <2>4. o[i + 1] + (n + 1 - (i + 1)) <= o[n + 1]
    <3>1. i + 1 \in 1 .. n + 1 /\ n + 1 \in 1 .. n + 1 /\ i + 1 <= n + 1 BY <1>1
    <3> QED BY <3>1, <1>1, OffsetsGrow
  <2>5. o[i + 1] \in Nat /\ o[n + 1] \in Nat /\ i + 1 \in Nat
    BY <1>1, <1>7
  <2> QED BY <1>1, <2>2, <2>3, <2>4, <2>5
<1> HIDE DEF s, o
<1>9. CASE n = 0
  <2>1. FlattenSeq(s) = << >>
    BY <1>3, <1>9 DEF FlattenSeq
  <2> QED BY <2>1, <1>5, <1>6, <1>9
<1>10. CASE n # 0
  <2> DEFINE Flat(f) == f = [i \in 1 .. Len(s) |-> IF i = 1 THEN s[i] ELSE f[i - 1] \o s[i]]
             f == CHOOSE g : Flat(g)
  <2>1. FlattenSeq(s) = f[n]
    BY <1>3, <1>10 DEF FlattenSeq
  <2>2. Flat(f)
    <3>1. \E g : Flat(g)
      <4>1. Len(s) \in Nat
        BY <1>1, <1>3
      <4> QED BY <4>1, FlattensExist, Zenon
    <3> HIDE DEF Flat
    <3> QED BY <3>1, Zenon
  <2> HIDE DEF f
  <2>3. \A i \in 1 .. n : f[i] = IF i = 1 THEN s[i] ELSE f[i - 1] \o s[i]
    BY <2>2, <1>3
  <2> DEFINE Built(k) ==
               /\ f[k] \in Seq(Byte) /\ Len(f[k]) = o[k + 1]
               /\ \A i \in 1 .. k : \A m \in 1 .. Width(types[i]) : f[k][o[i] + m] = s[i][m]
             S == {k \in Nat : k + 1 <= n => Built(k + 1)}
  <2>4. 0 \in S
    <3>1. f[1] = s[1] /\ 1 \in 1 .. n
      BY <1>1, <1>10, <2>3
    <3>2. s[1] \in Seq(Byte) /\ Len(s[1]) = Width(types[1]) /\ o[2] = Width(types[1]) /\ o[1] = 0
      <4>1. o[1 + 1] = o[1] + Width(types[1]) /\ o[1] = 0
        BY <3>1, <1>6, Zenon
      <4>2. Width(types[1]) \in Nat BY Widths
      <4> QED BY <3>1, <1>2, <4>1, <4>2
    <3>3. \A m \in 1 .. Width(types[1]) : o[1] + m = m
      BY <3>2, Widths
    <3>4. Built(1)
      BY <3>1, <3>2, <3>3
    <3> QED BY <3>4
  <2>5. ASSUME NEW k \in Nat, k \in S PROVE k + 1 \in S
    <3>1. SUFFICES ASSUME (k + 1) + 1 <= n PROVE Built((k + 1) + 1)
      OBVIOUS
    <3> DEFINE j == k + 1
    <3>2. j \in 1 .. n /\ j + 1 \in 1 .. n /\ j \in Nat /\ j + 1 # 1 /\ (j + 1) - 1 = j
      BY <3>1, <1>1
    <3>3. Built(j)
      BY <2>5, <3>1, <1>1
    <3> HIDE DEF j
    <3>4. f[j + 1] = f[j] \o s[j + 1]
      BY <3>2, <2>3
    <3>5. /\ s[j + 1] \in Seq(Byte) /\ Len(s[j + 1]) = Width(types[j + 1])
          /\ Width(types[j + 1]) \in Nat
      BY <3>2, <1>2, Widths
    <3>6. o[(j + 1) + 1] = o[j + 1] + Width(types[j + 1]) /\ o[j + 1] \in Nat
      <4>1. j + 1 \in 1 .. n + 1 BY <3>2, <1>1
      <4> QED BY <3>2, <4>1, <1>6, <1>7, Zenon
    <3>7. /\ f[j + 1] \in Seq(Byte) /\ Len(f[j + 1]) = o[(j + 1) + 1]
          /\ \A x \in 1 .. o[j + 1] + Width(types[j + 1]) :
               f[j + 1][x] = IF x <= o[j + 1] THEN f[j][x] ELSE s[j + 1][x - o[j + 1]]
      <4>1. f[j] \in Seq(Byte) /\ Len(f[j]) = o[j + 1]
        BY <3>3
      <4> DEFINE a == f[j]
                 b == s[j + 1]
      <4>2. /\ a \o b \in Seq(Byte) /\ Len(a \o b) = Len(a) + Len(b)
            /\ \A x \in 1 .. Len(a) + Len(b) :
                 (a \o b)[x] = IF x <= Len(a) THEN a[x] ELSE b[x - Len(a)]
        <5>1. a \in Seq(Byte) /\ b \in Seq(Byte)
          BY <4>1, <3>5
        <5> HIDE DEF a, b
        <5> QED BY <5>1, ConcatProperties, Zenon
      <4>3. Len(a) = o[j + 1] /\ Len(b) = Width(types[j + 1]) /\ f[j + 1] = a \o b
        BY <4>1, <3>5, <3>4
      <4> HIDE DEF a, b
      <4> QED BY <4>2, <4>3, <3>6, Zenon DEF a, b
    <3>8. ASSUME NEW i \in 1 .. j, NEW m \in 1 .. Width(types[i])
          PROVE  f[j + 1][o[i] + m] = s[i][m]
      <4>1. /\ i \in 1 .. n /\ i \in 1 .. n + 1 /\ i + 1 \in 1 .. n + 1
            /\ j + 1 \in 1 .. n + 1 /\ i + 1 <= j + 1
        BY <3>2, <1>1
      <4>2. o[i] \in Nat /\ Width(types[i]) \in Nat /\ o[i + 1] = o[i] + Width(types[i])
        BY <4>1, <1>7, <1>8, Zenon
      <4>3. o[i + 1] + ((j + 1) - (i + 1)) <= o[j + 1]
        BY <4>1, <1>1, OffsetsGrow DEF o
      <4>4. o[i] + m \in 1 .. o[j + 1]
        <5> DEFINE a == o[i]
                   w == Width(types[i])
                   e == o[i + 1]
                   z == o[j + 1]
        <5>1. /\ a \in Nat /\ w \in Nat /\ e = a + w /\ z \in Nat
              /\ e + ((j + 1) - (i + 1)) <= z /\ m \in 1 .. w
          BY <4>2, <4>3, <3>6
        <5>2. j \in Nat /\ i \in 1 .. j
          BY <3>2
        <5> HIDE DEF a, w, e, z
        <5>3. a + m \in 1 .. z
          BY <5>1, <5>2
        <5> QED BY <5>3 DEF a, z
      <4>5. f[j + 1][o[i] + m] = f[j][o[i] + m]
        <5> DEFINE x == o[i] + m
        <5>1. x \in 1 .. o[j + 1] + Width(types[j + 1]) /\ x <= o[j + 1]
          BY <4>4, <3>5, <3>6
        <5> HIDE DEF x
        <5> QED BY <5>1, <3>7, Zenon DEF x
      <4>6. f[j][o[i] + m] = s[i][m]
        BY <3>3
      <4> QED BY <4>5, <4>6
    <3>9. ASSUME NEW m \in 1 .. Width(types[j + 1])
          PROVE  f[j + 1][o[j + 1] + m] = s[j + 1][m]
      <4>1. o[j + 1] + m \in 1 .. o[j + 1] + Width(types[j + 1]) /\ ~ (o[j + 1] + m <= o[j + 1])
            /\ (o[j + 1] + m) - o[j + 1] = m
        BY <3>5, <3>6
      <4> QED BY <4>1, <3>7
    <3>10. ASSUME NEW i \in 1 .. j + 1, NEW m \in 1 .. Width(types[i])
           PROVE  f[j + 1][o[i] + m] = s[i][m]
      <4>1. i \in 1 .. j \/ i = j + 1
        BY <3>2
      <4> QED BY <4>1, <3>8, <3>9
    <3>11. Built(j + 1)
      BY <3>7, <3>10
    <3> HIDE DEF Built
    <3> QED BY <3>11 DEF j
  <2>6. n - 1 \in Nat /\ (n - 1) + 1 = n
    BY <1>1, <1>10
  <2>7. n - 1 \in S
    <3> HIDE DEF S
    <3> QED BY <2>4, <2>5, <2>6, InductiveSet, Zenon
  <2>8. Built(n)
    BY <2>6, <2>7
  <2>9. \A i \in 1 .. n : \A m \in 1 .. Width(types[i]) :
          f[n][o[i] + m] = WriteToData(types[i], values[i])[m]
    BY <2>8, <1>4
  <2> QED BY <2>1, <2>8, <2>9, <1>5, <1>6 DEF o
<1> QED BY <1>9, <1>10

(* The struct that is read has the members of the one that was written, if *)
(* one of them is the other's beginning and the check of the size passes.  *)
LEMMA StructRoundTrip ==
  ASSUME NEW T, NEW sent \in Seq(T), NEW got \in Seq(T),
         IsPrefix(sent, got) \/ IsPrefix(got, sent),
         NEW values,
         \A i \in 1 .. Len(sent) : values[i] \in Int /\ values[i] \in Good(sent[i]),
         NEW data,
         \A k \in 1 .. getRequiredDataSizeBytes(sent) : data[k] = WriteStruct(sent, values)[k],
         getRequiredDataSizeBytes(got) <= getRequiredDataSizeBytes(sent)
  PROVE  /\ Len(got) <= Len(sent)
         /\ DOMAIN ReadStruct(got, data) = 1 .. Len(got)
         /\ \A i \in 1 .. Len(got) : ReadStruct(got, data)[i] = values[i]
<1> DEFINE n == Len(got)
           o == Offset(sent)
           bytes == WriteStruct(sent, values)
<1>1. n \in Nat /\ DOMAIN got = 1 .. n /\ Len(sent) \in Nat
  OBVIOUS
<1>2. n <= Len(sent)
  <2>1. SUFFICES ASSUME Len(sent) < n, IsPrefix(sent, got) PROVE FALSE
    <3>1. IsPrefix(got, sent) => n <= Len(sent)
      BY OffsetsOfPrefix, Zenon
    <3> QED BY <3>1, <1>1
  <2>2. Offset(sent)[Len(sent) + 1] = Offset(got)[Len(sent) + 1]
    <3>1. Len(sent) + 1 \in 1 .. Len(sent) + 1 BY <1>1
    <3> QED BY <2>1, <3>1, OffsetsOfPrefix, Zenon
  <2>3. Offset(got)[Len(sent) + 1] + ((n + 1) - (Len(sent) + 1)) <= Offset(got)[n + 1]
    <3>1. Len(sent) + 1 \in 1 .. n + 1 /\ n + 1 \in 1 .. n + 1 /\ Len(sent) + 1 <= n + 1
      BY <1>1, <2>1
    <3> QED BY <3>1, <1>1, OffsetsGrow, Zenon
  <2>4. Offset(got)[Len(sent) + 1] \in Nat /\ Offset(got)[n + 1] \in Nat
    <3>1. Len(sent) + 1 \in 1 .. n + 1 /\ n + 1 \in 1 .. n + 1
      BY <1>1, <2>1
    <3> QED BY <3>1, <1>1, OffsetsGrow, Zenon
  <2>5. Offset(got)[n + 1] <= Offset(sent)[Len(sent) + 1]
    BY DEF getRequiredDataSizeBytes
  <2> QED BY <1>1, <2>1, <2>2, <2>3, <2>4, <2>5
<1>3. /\ \A i \in 1 .. n : got[i] = sent[i]
      /\ \A i \in 1 .. n : Offset(got)[i] = o[i]
  <2>1. CASE IsPrefix(got, sent)
    <3>1. /\ \A i \in 1 .. n : got[i] = sent[i]
          /\ \A i \in 1 .. n + 1 : Offset(got)[i] = o[i]
      BY <2>1, OffsetsOfPrefix, Zenon
    <3>2. \A i \in 1 .. n : i \in 1 .. n + 1
      BY <1>1
    <3> QED BY <3>1, <3>2, Zenon
  <2>2. CASE IsPrefix(sent, got)
    <3>1. /\ Len(sent) <= n
          /\ \A i \in 1 .. Len(sent) : sent[i] = got[i]
          /\ \A i \in 1 .. Len(sent) + 1 : o[i] = Offset(got)[i]
      BY <2>2, OffsetsOfPrefix, Zenon
    <3>2. \A i \in 1 .. n : i \in 1 .. Len(sent) /\ i \in 1 .. Len(sent) + 1
      BY <1>1, <1>2
    <3> QED BY <3>1, <3>2, Zenon
  <2> QED BY <2>1, <2>2
<1>4. ReadStruct(got, data) =
        [i \in 1 .. n |-> ReadFromData(got[i], SubSeq(data, Offset(got)[i] + 1,
                                                      Offset(got)[i] + Width(got[i])))]
  BY <1>1 DEF ReadStruct
<1>5. ASSUME NEW i \in 1 .. n
      PROVE  ReadStruct(got, data)[i] = values[i]
  <2> DEFINE type == sent[i]
             part == SubSeq(data, o[i] + 1, o[i] + Width(type))
  <2>1. i \in 1 .. Len(sent) /\ i \in 1 .. Len(sent) + 1 /\ i + 1 \in 1 .. Len(sent) + 1
        /\ Len(sent) + 1 \in 1 .. Len(sent) + 1 /\ i + 1 <= Len(sent) + 1
    BY <1>1, <1>2
  <2>2. values[i] \in Int /\ values[i] \in Good(type)
    BY <2>1
  <2>3. Width(type) \in Nat /\ o[i] \in Nat
    <3>1. o[i] \in Nat
      BY <2>1, <1>1, OffsetsGrow, Zenon
    <3> QED BY <3>1, Widths
  <2>4. /\ o[i] + Width(type) <= getRequiredDataSizeBytes(sent)
        /\ getRequiredDataSizeBytes(sent) \in Nat
    <3>1. o[i + 1] + ((Len(sent) + 1) - (i + 1)) <= o[Len(sent) + 1]
          /\ o[i + 1] \in Nat /\ o[Len(sent) + 1] \in Nat
      BY <2>1, <1>1, OffsetsGrow, Zenon
    <3>2. o[i + 1] = o[i] + Width(type)
      BY <2>1, <1>1, OffsetRule, Zenon
    <3>3. getRequiredDataSizeBytes(sent) = o[Len(sent) + 1]
      BY DEF getRequiredDataSizeBytes
    <3> DEFINE size == o[Len(sent) + 1]
               end == o[i + 1]
    <3>4. (Len(sent) + 1) - (i + 1) >= 0
      BY <2>1, <1>1
    <3> HIDE DEF o, type, size
    <3>5. end \in Nat /\ size \in Nat /\ end <= size
      <4> HIDE DEF end
      <4>1. end + ((Len(sent) + 1) - (i + 1)) <= size /\ end \in Nat /\ size \in Nat
        BY <3>1 DEF end, size
      <4> QED BY <4>1, <3>4, <2>1, <1>1
    <3>6. getRequiredDataSizeBytes(sent) = size
      BY <3>3 DEF size
    <3> QED BY <3>2, <3>5, <3>6
  <2>5. /\ bytes \in Seq(Byte) /\ Len(bytes) = getRequiredDataSizeBytes(sent)
        /\ \A m \in 1 .. Width(type) : bytes[o[i] + m] = WriteToData(type, values[i])[m]
    <3>1. \A j \in 1 .. Len(sent) : values[j] \in Int OBVIOUS
    <3>2. /\ bytes \in Seq(Byte)
          /\ Len(bytes) = getRequiredDataSizeBytes(sent)
          /\ \A j \in 1 .. Len(sent) : \A m \in 1 .. Width(sent[j]) :
               bytes[o[j] + m] = WriteToData(sent[j], values[j])[m]
      BY <3>1, StructBytes
    <3>3. i \in 1 .. Len(sent)
      BY <2>1
    <3> HIDE DEF o, bytes
    <3> QED BY <3>2, <3>3, Zenon
  <2> HIDE DEF o, type
  <2>6. \A k \in o[i] + 1 .. o[i] + Width(type) : data[k] = bytes[k] /\ bytes[k] \in Byte
    <3>1. SUFFICES ASSUME NEW k \in o[i] + 1 .. o[i] + Width(type)
                   PROVE  data[k] = bytes[k] /\ bytes[k] \in Byte
      OBVIOUS
    <3>2. k \in 1 .. getRequiredDataSizeBytes(sent)
      BY <2>3, <2>4
    <3>3. bytes[k] \in Byte
      BY <2>5, <3>2, ElementOfSeq, Zenon
    <3> QED BY <3>2, <3>3
  <2>7. \A m \in 1 .. Width(type) : part[m] = data[o[i] + m]
    <3> DEFINE lo == o[i] + 1
               hi == o[i] + Width(type)
    <3>1. lo \in Int /\ hi \in Int /\ hi - lo + 1 = Width(type)
      BY <2>3
    <3>2. \A k \in lo .. hi : data[k] \in Byte
      BY <2>6
    <3>3. \A m \in 1 .. hi - lo + 1 : SubSeq(data, lo, hi)[m] = data[lo + m - 1]
      <4> HIDE DEF lo, hi
      <4> QED BY <3>1, <3>2, SubSeqProperties
    <3>4. \A m \in 1 .. Width(type) : lo + m - 1 = o[i] + m
      BY <2>3
    <3> QED BY <3>1, <3>3, <3>4, Zenon
  <2>8. \A m \in 1 .. Width(type) : part[m] = WriteToData(type, values[i])[m]
    <3>1. \A m \in 1 .. Width(type) : o[i] + m \in o[i] + 1 .. o[i] + Width(type)
      BY <2>3
    <3> QED BY <3>1, <2>5, <2>6, <2>7, Zenon
  <2>9. ReadFromData(type, part) = values[i]
    <3> HIDE DEF part
    <3> QED BY <2>2, <2>8, RoundTrip, ZenonT(60)
  <2>10. ReadStruct(got, data)[i] = ReadFromData(type, part)
    BY <1>3, <1>4 DEF type, o
  <2> QED BY <2>9, <2>10, Zenon
<1> QED BY <1>2, <1>4, <1>5

-----------------------------------------------------------------------------
(* The invariant of the data.  What it needs of the programs: the values of *)
(* enums fit the byte they are cut to, the sides' structs differ only by   *)
(* members at the end, and the master's error code is zeroed.              *)

EnumsFitByte == EnumValues \subseteq Byte
StructsGrowAtEnd ==
  \A v \in Versions : \A struct \in {v.args, v.returns} :
    \/ IsPrefix(struct["master"], struct["client"])
    \/ IsPrefix(struct["client"], struct["master"])
CleanFiles == EnumsFitByte /\ StructsGrowAtEnd /\ RestOfError = {0}

GoodStruct(types) ==
  {values \in Seq(Int) : /\ Len(values) = Len(types)
                         /\ \A i \in 1 .. Len(types) : values[i] \in Good(types[i])}

(* A frame holds the bytes of what the sender's application gave.          *)
ValueFrame == {"WRITE_NODE_VALUE_REQEUST", "READ_NODE_VALUE_RESPONSE"}
ValueFrames ==
  {Frame(type, WriteToData(Type, v), v) : type \in ValueFrame, v \in Good(Type)}
CallFrames ==
  {Frame("REMOTE_CALL_REQUEST", WriteStruct(Args("master"), values), values) :
     values \in GoodStruct(Args("master"))}
ReturnFrames ==
  {Frame("REMOTE_CALL_RETURN ok", WriteStruct(Returns("client"), values), values) :
     values \in GoodStruct(Returns("client"))}
ErrorFrames == {Frame("REMOTE_CALL_RETURN error", <<code>>, code) : code \in Byte}
GenuineFrames ==
  ValueFrames \cup CallFrames \cup ReturnFrames \cup ErrorFrames
    \cup {Frame("READ_NODE_VALUE_REQEUST", << >>, 0)}

(* The parts: the programs, the node, callee and caller, and the frames.   *)
VersionOK == version \in Versions /\ Generated(version)
NodesOK ==
  /\ value \in [Side -> Good(Type)]
  /\ origin = value
  /\ seen \in [Side -> Int]
  /\ receivedValueUpdate \in [Side -> BOOLEAN]
  /\ unsent \in [Side -> BOOLEAN]
CalleeOK ==
  /\ remoteCallCalled \in BOOLEAN
  /\ remoteCallCalled =>
       /\ DOMAIN argumentsData = 1 .. Len(Args("client"))
       /\ Len(Args("client")) <= Len(calledWith)
       /\ calledWith \in Seq(Int)
       /\ \A i \in 1 .. Len(Args("client")) : argumentsData[i] = calledWith[i]
CallerOK ==
  /\ remoteCallReturned \in BOOLEAN
  /\ DOMAIN callReturnData = {"isError", "returnData", "returnError"}
  /\ callReturnData.returnError \in Byte
  /\ remoteCallReturned =>
       IF callReturnData.isError THEN callReturnData.returnError = returnedWith[1]
       ELSE /\ DOMAIN callReturnData.returnData = 1 .. Len(Returns("master"))
            /\ Len(Returns("master")) <= Len(returnedWith)
            /\ returnedWith \in Seq(Int)
            /\ \A i \in 1 .. Len(Returns("master")) :
                 callReturnData.returnData[i] = returnedWith[i]
QueuesOK == queue \in [Side -> Seq(GenuineFrames)]

DataInv == VersionOK /\ NodesOK /\ CalleeOK /\ CallerOK /\ QueuesOK

-----------------------------------------------------------------------------
(* What the programs and the frames are, and how they stay.                *)

(* What applications give is in its type, and kept as it is.               *)
LEMMA GoodValues ==
  ASSUME NEW type
  PROVE  /\ Good(type) \subseteq Int
         /\ 0 \in Good(type)
         /\ Highest(type) \in Int /\ Lowest(type) \in Int /\ Lowest(type) <= Highest(type)
         /\ type \notin CppType => Good(type) = Byte
         /\ EnumsFitByte => SomeValues(type) \subseteq Good(type)
         /\ \A v \in Good(type) : Stored(type, v) = v
<1> DEFINE W == Words(type)
<1>1. W \in Nat \ {0} /\ W = (W \div 2) * 2 /\ W \div 2 \in Nat /\ (Width(type) = 1 => W = ByteSize)
  BY WordsOfType
<1>2. ByteSize \in Nat \ {0}
  BY ByteSizeAssumption
<1>3. Highest(type) \in Int /\ Lowest(type) \in Int /\ Lowest(type) <= 0 /\ 0 <= Highest(type)
  BY <1>1 DEF Lowest, Highest
<1>4. Good(type) \subseteq Int /\ 0 \in Good(type)
  BY <1>3 DEF Good
<1>5. type \notin CppType => Good(type) = Byte
  BY <1>1, <1>2, Widths DEF Good, Byte, Lowest, Highest
<1>6. EnumsFitByte => SomeValues(type) \subseteq Good(type)
  <2>1. CASE type \in CppType
    <3>1. SomeValues(type) = {Lowest(type), Highest(type)}
      BY <2>1 DEF SomeValues
    <3> QED BY <3>1, <1>3 DEF Good
  <2>2. CASE type \notin CppType
    BY <2>2, <1>5 DEF SomeValues, EnumsFitByte
  <2> QED BY <2>1, <2>2
<1>7. ASSUME NEW v \in Good(type) PROVE Stored(type, v) = v
  <2>1. CASE type \in CppType
    BY <2>1 DEF Stored
  <2>2. CASE type \notin CppType
    <3>1. v \in 0 .. ByteSize - 1
      BY <2>2, <1>5, <1>7 DEF Byte
    <3>2. v % ByteSize = v
      BY <3>1, <1>2, RestOfSmall
    <3> QED BY <3>2, <2>2 DEF Stored
  <2> QED BY <2>1, <2>2
<1> QED BY <1>3, <1>4, <1>5, <1>6, <1>7

(* So are the members of the structs they give.                            *)
LEMMA GoodStructs ==
  ASSUME EnumsFitByte, NEW types \in Seq(STRING), NEW values \in SomeStructs(types)
  PROVE  values \in GoodStruct(types)
<1>1. DOMAIN types = 1 .. Len(types) /\ Len(types) \in Nat
  OBVIOUS
<1>2. /\ values \in [1 .. Len(types) -> UNION {SomeValues(t) : t \in Range(types)}]
      /\ \A i \in 1 .. Len(types) : values[i] \in SomeValues(types[i])
  BY <1>1 DEF SomeStructs
<1>3. \A i \in 1 .. Len(types) : values[i] \in Good(types[i])
  BY <1>2, GoodValues
<1>4. \A i \in 1 .. Len(types) : values[i] \in Int
  BY <1>3, GoodValues
<1>5. values \in [1 .. Len(types) -> Int]
  BY <1>2, <1>4
<1>6. values \in Seq(Int) /\ Len(values) = Len(types)
  BY <1>1, <1>5
<1> QED BY <1>3, <1>6 DEF GoodStruct

(* Structs are lists of names, and fit a frame.                            *)
LEMMA FilesOfVersion ==
  ASSUME VersionOK
  PROVE  \A side \in Side :
           /\ Args(side) \in Seq(STRING) /\ Returns(side) \in Seq(STRING)
           /\ getRequiredDataSizeBytes(Args(side)) <= FrameBytes
           /\ getRequiredDataSizeBytes(Returns(side)) <= FrameBytes
<1>1. version \in Versions /\ Generated(version)
  BY DEF VersionOK
<1>2. version.args \in [Side -> Seq(STRING)] /\ version.returns \in [Side -> Seq(STRING)]
  BY <1>1, FilesAssumption
<1>3. \A side \in Side : /\ version.args[side] \in Range(version.args)
                         /\ version.returns[side] \in Range(version.returns)
  BY <1>2 DEF Range
<1> QED BY <1>1, <1>2, <1>3, FramesAssumption DEF Args, Returns

(* Of the sides' structs one is the other's beginning.                     *)
LEMMA StructsOfVersion ==
  ASSUME VersionOK, StructsGrowAtEnd
  PROVE  /\ IsPrefix(Args("master"), Args("client")) \/ IsPrefix(Args("client"), Args("master"))
         /\ \/ IsPrefix(Returns("master"), Returns("client"))
            \/ IsPrefix(Returns("client"), Returns("master"))
BY DEF VersionOK, StructsGrowAtEnd, Args, Returns

(* Each side is the other's other.                                         *)
LEMMA Others == Other("master") = "client" /\ Other("client") = "master"
BY DEF Other, Side

(* What the programs say does not change while they run.                   *)
LEMMA FrameKept ==
  ASSUME version' = version
  PROVE  /\ GenuineFrames' = GenuineFrames
         /\ Type' = Type
         /\ \A side : Args(side)' = Args(side) /\ Returns(side)' = Returns(side)
BY DEF GenuineFrames, ValueFrames, CallFrames, ReturnFrames, ErrorFrames, Type, Args, Returns

(* A step that leaves a part's variables alone keeps the part.             *)
LEMMA KeptParts ==
  ASSUME DataInv, version' = version
  PROVE  /\ VersionOK'
         /\ UNCHANGED nodeVars => NodesOK'
         /\ UNCHANGED calleeVars => CalleeOK'
         /\ UNCHANGED callerVars => CallerOK'
         /\ UNCHANGED queue => QueuesOK'
<1>1. VersionOK'
  BY DEF DataInv, VersionOK
<1>2. ASSUME UNCHANGED nodeVars PROVE NodesOK'
  <2>1. Type' = Type /\ UNCHANGED <<value, receivedValueUpdate, origin, unsent, seen>>
    BY <1>2, FrameKept DEF nodeVars
  <2> QED BY <2>1 DEF DataInv, NodesOK
<1>3. ASSUME UNCHANGED calleeVars PROVE CalleeOK'
  <2>1. /\ Args("client")' = Args("client")
        /\ UNCHANGED <<argumentsData, remoteCallCalled, calledWith>>
    BY <1>3, FrameKept DEF calleeVars
  <2> QED BY <2>1 DEF DataInv, CalleeOK
<1>4. ASSUME UNCHANGED callerVars PROVE CallerOK'
  <2>1. /\ Returns("master")' = Returns("master")
        /\ callReturnData' = callReturnData
        /\ remoteCallReturned' = remoteCallReturned
        /\ returnedWith' = returnedWith
    BY <1>4, FrameKept DEF callerVars
  <2>2. CallerOK
    BY DEF DataInv
  <2> QED BY <2>1, <2>2, Zenon DEF CallerOK
<1>5. ASSUME UNCHANGED queue PROVE QueuesOK'
  BY <1>5, FrameKept DEF DataInv, QueuesOK
<1> QED BY <1>1, <1>2, <1>3, <1>4, <1>5

(* Sending a frame that holds what its sender gave.                        *)
LEMMA SendKeepsQueues ==
  ASSUME QueuesOK, version' = version, NEW to \in Side, NEW frame \in GenuineFrames, Send(to, frame)
  PROVE  QueuesOK'
<1>1. queue' = [queue EXCEPT ![to] = Append(@, frame)]
  BY DEF Send
<1>2. Append(queue[to], frame) \in Seq(GenuineFrames)
  BY DEF QueuesOK
<1>3. queue' \in [Side -> Seq(GenuineFrames)]
  BY <1>1, <1>2 DEF QueuesOK
<1> QED BY <1>3, FrameKept DEF QueuesOK

(* Taking a frame.                                                         *)
LEMMA ReceiveKeepsQueues ==
  ASSUME QueuesOK, version' = version, NEW side \in Side, queue[side] # << >>, Receive(side)
  PROVE  QueuesOK'
<1>1. queue' = [queue EXCEPT ![side] = Tail(@)]
  BY DEF Receive
<1>2. Tail(queue[side]) \in Seq(GenuineFrames)
  BY DEF QueuesOK
<1>3. queue' \in [Side -> Seq(GenuineFrames)]
  BY <1>1, <1>2 DEF QueuesOK
<1> QED BY <1>3, FrameKept DEF QueuesOK

(* Both queues, named one by one.                                          *)
LEMMA PairOfQueues ==
  ASSUME NEW S, NEW a \in S, NEW b \in S
  PROVE  [client |-> a, master |-> b] \in [Side -> S]
<1> DEFINE p == [client |-> a, master |-> b]
<1>1. p = [x \in {"client", "master"} |-> IF x = "client" THEN a ELSE b]
  OBVIOUS
<1>2. Side = {"client", "master"}
  BY DEF Side
<1>3. \A x \in Side : (IF x = "client" THEN a ELSE b) \in S
  OBVIOUS
<1> QED BY <1>1, <1>2, <1>3

(* The next frame is one of them.                                          *)
LEMMA HeadIsGenuine ==
  ASSUME QueuesOK, NEW side \in Side, queue[side] # << >>
  PROVE  Head(queue[side]) \in GenuineFrames
BY DEF QueuesOK

(* A frame of a type is one of the frames of that type.                    *)
LEMMA FramesByType ==
  ASSUME NEW f \in GenuineFrames
  PROVE  /\ f.type \in ValueFrame => f \in ValueFrames
         /\ f.type = "REMOTE_CALL_REQUEST" => f \in CallFrames
         /\ f.type = "REMOTE_CALL_RETURN ok" => f \in ReturnFrames
         /\ f.type = "REMOTE_CALL_RETURN error" => f \in ErrorFrames
         /\ f.type = "READ_NODE_VALUE_REQEUST" => f = Frame("READ_NODE_VALUE_REQEUST", << >>, 0)
<1>1. f \in ValueFrames => f.type \in ValueFrame
  <2>1. ASSUME NEW type \in ValueFrame, NEW v \in Good(Type),
               f = Frame(type, WriteToData(Type, v), v)
        PROVE  f.type \in ValueFrame
    BY <2>1 DEF Frame
  <2> QED BY <2>1 DEF ValueFrames
<1>2. f \in CallFrames => f.type = "REMOTE_CALL_REQUEST"
  BY DEF CallFrames, Frame
<1>3. f \in ReturnFrames => f.type = "REMOTE_CALL_RETURN ok"
  <2>1. ASSUME NEW values \in GoodStruct(Returns("client")),
               f = Frame("REMOTE_CALL_RETURN ok", WriteStruct(Returns("client"), values), values)
        PROVE  f.type = "REMOTE_CALL_RETURN ok"
    BY <2>1 DEF Frame
  <2> QED BY <2>1, Zenon DEF ReturnFrames
<1>4. f \in ErrorFrames => f.type = "REMOTE_CALL_RETURN error"
  <2>1. ASSUME NEW code \in Byte, f = Frame("REMOTE_CALL_RETURN error", <<code>>, code)
        PROVE  f.type = "REMOTE_CALL_RETURN error"
    BY <2>1 DEF Frame
  <2> QED BY <2>1, Zenon DEF ErrorFrames
<1>5. f = Frame("READ_NODE_VALUE_REQEUST", << >>, 0) => f.type = "READ_NODE_VALUE_REQEUST"
  BY DEF Frame
<1> QED BY <1>1, <1>2, <1>3, <1>4, <1>5 DEF GenuineFrames, ValueFrame

(* What is in the buffer where the frame has bytes is the frame's.         *)
LEMMA BufferHoldsFrame ==
  ASSUME NEW side \in Side, NEW stale,
         NEW bytes \in Seq(Byte), Head(queue[side]).data = bytes, Len(bytes) <= FrameBytes
  PROVE  \A k \in 1 .. Len(bytes) : Buffer(side, stale)[k] = bytes[k]
BY FrameAssumption DEF Buffer

(* A frame with a value passes the check of its size and yields the value, *)
(* whatever earlier frames left in the buffer.                             *)
LEMMA ValueReceived ==
  ASSUME NEW side \in Side, NEW stale,
         Head(queue[side]) \in ValueFrames
  PROVE  /\ Fits(side, Width(Type))
         /\ Head(queue[side]).of \in Good(Type)
         /\ ReadFromData(Type, Buffer(side, stale)) = Head(queue[side]).of
<1> DEFINE f == Head(queue[side])
<1>1. PICK type \in ValueFrame, v \in Good(Type) : f = Frame(type, WriteToData(Type, v), v)
  BY DEF ValueFrames
<1>2. f.of = v /\ f.data = WriteToData(Type, v) /\ v \in Int
  BY <1>1, GoodValues DEF Frame
<1>3. f.data \in Seq(Byte) /\ Len(f.data) = Width(Type)
  BY <1>2, BytesOfValue DEF Byte, Byte
<1>4. Width(Type) \in Nat /\ Width(Type) <= FrameBytes
  BY Widths, FrameAssumption
<1>5. Fits(side, Width(Type))
  BY <1>3, <1>4 DEF Fits
<1>6. \A k \in 1 .. Width(Type) : Buffer(side, stale)[k] = WriteToData(Type, v)[k]
  BY <1>2, <1>3, <1>4, BufferHoldsFrame
<1>7. v \in Good(Type)
  BY <1>1 DEF Good
<1>8. ReadFromData(Type, Buffer(side, stale)) = v
  BY <1>2, <1>6, <1>7, RoundTrip, Zenon
<1> QED BY <1>1, <1>2, <1>5, <1>8

(* A frame with a struct that passes the check of its size yields the      *)
(* members that the receiver knows.                                        *)
LEMMA StructReceived ==
  ASSUME NEW side \in Side, NEW stale,
         NEW sent \in Seq(STRING), NEW got \in Seq(STRING),
         IsPrefix(sent, got) \/ IsPrefix(got, sent),
         getRequiredDataSizeBytes(sent) <= FrameBytes,
         NEW values \in GoodStruct(sent),
         Head(queue[side]).data = WriteStruct(sent, values),
         Fits(side, getRequiredDataSizeBytes(got))
  PROVE  /\ Len(got) <= Len(values)
         /\ DOMAIN ReadStruct(got, Buffer(side, stale)) = 1 .. Len(got)
         /\ \A i \in 1 .. Len(got) : ReadStruct(got, Buffer(side, stale))[i] = values[i]
<1> DEFINE bytes == WriteStruct(sent, values)
           data == Buffer(side, stale)
<1>1. /\ values \in Seq(Int) /\ Len(values) = Len(sent)
      /\ \A i \in 1 .. Len(sent) : values[i] \in Good(sent[i])
  BY DEF GoodStruct
<1>2. \A i \in 1 .. Len(sent) : values[i] \in Int /\ values[i] \in Good(sent[i])
  BY <1>1, GoodValues DEF Good
<1>3. bytes \in Seq(Byte) /\ Len(bytes) = getRequiredDataSizeBytes(sent)
  <2>1. \A i \in 1 .. Len(sent) : values[i] \in Int
    BY <1>2
  <2> QED BY <2>1, StructBytes DEF Byte, Byte
<1>4. \A k \in 1 .. getRequiredDataSizeBytes(sent) : data[k] = bytes[k]
  <2> HIDE DEF bytes
  <2>1. Head(queue[side]).data = bytes BY DEF bytes
  <2> QED BY <1>3, <2>1, BufferHoldsFrame
<1>5. getRequiredDataSizeBytes(got) <= getRequiredDataSizeBytes(sent)
  BY <1>3 DEF Fits
<1> HIDE DEF data
<1>6. /\ Len(got) <= Len(sent)
      /\ DOMAIN ReadStruct(got, data) = 1 .. Len(got)
      /\ \A i \in 1 .. Len(got) : ReadStruct(got, data)[i] = values[i]
  BY <1>2, <1>4, <1>5, StructRoundTrip
<1> QED BY <1>1, <1>6 DEF data

-----------------------------------------------------------------------------
(* Each operation keeps the invariant of the data.                         *)

(* The beginning.                                                          *)
LEMMA DataInit ==
  ASSUME CleanFiles, Init
  PROVE  DataInv
<1>1. VersionOK
  BY DEF Init, VersionOK
<1>2. NodesOK
  <2>1. PICK v \in SomeValues(Type) :
          /\ origin = [master |-> 0, client |-> v]
          /\ value = [side \in Side |-> Stored(Type, origin[side])]
    BY DEF Init
  <2>2. v \in Good(Type) /\ 0 \in Good(Type) /\ Good(Type) \subseteq Int
    BY GoodValues DEF CleanFiles
  <2>3. origin \in [Side -> Good(Type)]
    BY <2>1, <2>2 DEF Side
  <2>4. \A side \in Side : Stored(Type, origin[side]) = origin[side]
    BY <2>3, GoodValues
  <2>5. value = origin
    BY <2>1, <2>3, <2>4
  <2>6. seen \in [Side -> Int]
    BY <2>2, <2>3, <2>5 DEF Init
  <2> QED BY <2>3, <2>5, <2>6 DEF NodesOK, Init
<1>3. CalleeOK
  BY DEF CalleeOK, Init
<1>4. CallerOK
  <2>1. PICK rest \in RestOfError :
          callReturnData = [isError |-> FALSE,
                            returnData |-> [i \in DOMAIN Returns("master") |-> 0],
                            returnError |-> rest * ByteSize]
    BY DEF Init
  <2>2. rest * ByteSize = 0 /\ 0 \in Byte
    BY ByteSizeAssumption DEF CleanFiles, Byte
  <2> QED BY <2>1, <2>2 DEF CallerOK, Init
<1>5. QueuesOK
  <2>1. << >> \in Seq(GenuineFrames)
    OBVIOUS
  <2> QED BY <2>1 DEF QueuesOK, Init
<1> QED BY <1>1, <1>2, <1>3, <1>4, <1>5 DEF DataInv

(* An application writes.                                                  *)
LEMMA WritesData ==
  ASSUME DataInv, CleanFiles, NEW side \in Side, Writes(side)
  PROVE  DataInv'
<1>1. version' = version /\ UNCHANGED <<receivedValueUpdate, seen, calleeVars, callerVars, queue>>
  BY DEF Writes
<1>2. VersionOK' /\ CalleeOK' /\ CallerOK' /\ QueuesOK'
  BY <1>1, KeptParts
<1>3. PICK v \in SomeValues(Type) :
        /\ value' = [value EXCEPT ![side] = Stored(Type, v)]
        /\ origin' = [origin EXCEPT ![side] = v]
        /\ unsent' = [unsent EXCEPT ![side] = TRUE]
  BY DEF Writes
<1>4. v \in Good(Type) /\ Stored(Type, v) = v
  BY GoodValues DEF CleanFiles
<1>5. NodesOK'
  BY <1>1, <1>3, <1>4, FrameKept DEF NodesOK, DataInv
<1> QED BY <1>2, <1>5 DEF DataInv

(* A side's own value makes a frame that holds it.                         *)
LEMMA OwnValueFrame ==
  ASSUME DataInv, NEW side \in Side, NEW type \in ValueFrame
  PROVE  Frame(type, WriteToData(Type, value[side]), origin[side]) \in GenuineFrames
<1>1. value[side] = origin[side] /\ value[side] \in Good(Type)
  BY DEF DataInv, NodesOK
<1>2. Frame(type, WriteToData(Type, value[side]), origin[side]) \in ValueFrames
  BY <1>1 DEF ValueFrames
<1> QED BY <1>2 DEF GenuineFrames

(* sendValue.                                                              *)
LEMMA SendsData ==
  ASSUME DataInv, NEW side \in Side, sendValue(side)
  PROVE  DataInv'
<1>1. /\ version' = version
      /\ unsent' = [unsent EXCEPT ![side] = FALSE]
      /\ UNCHANGED <<value, receivedValueUpdate, origin, seen, calleeVars, callerVars>>
  BY DEF sendValue, SendsOwnValue
<1>2. VersionOK' /\ CalleeOK' /\ CallerOK'
  BY <1>1, KeptParts
<1>3. NodesOK'
  BY <1>1, FrameKept DEF NodesOK, DataInv
<1>4. QueuesOK'
  <2> DEFINE frame == Frame("WRITE_NODE_VALUE_REQEUST", WriteToData(Type, value[side]), origin[side])
  <2>1. frame \in GenuineFrames
    BY OwnValueFrame DEF ValueFrame
  <2>2. Send(Other(side), frame)
    BY DEF sendValue, SendsOwnValue
  <2>3. Other(side) \in Side
    BY Others DEF Side
  <2> HIDE DEF frame
  <2> QED BY <2>1, <2>2, <2>3, <1>1, SendKeepsQueues DEF DataInv
<1> QED BY <1>2, <1>3, <1>4 DEF DataInv

(* sendReadValueReq.                                                       *)
LEMMA ReadRequestData ==
  ASSUME DataInv, sendReadValueReq
  PROVE  DataInv'
<1>1. version' = version /\ UNCHANGED <<nodeVars, calleeVars, callerVars>>
  BY DEF sendReadValueReq
<1>2. VersionOK' /\ CalleeOK' /\ CallerOK' /\ NodesOK'
  BY <1>1, KeptParts
<1>3. QueuesOK'
  <2>1. Frame("READ_NODE_VALUE_REQEUST", << >>, 0) \in GenuineFrames
    BY DEF GenuineFrames
  <2>2. Send("client", Frame("READ_NODE_VALUE_REQEUST", << >>, 0))
    BY DEF sendReadValueReq
  <2> QED BY <2>1, <2>2, <1>1, SendKeepsQueues DEF DataInv, Side
<1> QED BY <1>2, <1>3 DEF DataInv

(* The client answers a read.                                              *)
LEMMA AnswersData ==
  ASSUME DataInv, ClientAnswers
  PROVE  DataInv'
<1> DEFINE frame == Frame("READ_NODE_VALUE_RESPONSE", WriteToData(Type, value["client"]), origin["client"])
<1>1. /\ version' = version
      /\ unsent' = [unsent EXCEPT !["client"] = FALSE]
      /\ UNCHANGED <<value, receivedValueUpdate, origin, seen, calleeVars, callerVars>>
  BY DEF ClientAnswers
<1>2. VersionOK' /\ CalleeOK' /\ CallerOK'
  BY <1>1, KeptParts
<1>3. NodesOK'
  BY <1>1, FrameKept DEF NodesOK, DataInv
<1>4. QueuesOK'
  <2>1. frame \in GenuineFrames
    BY OwnValueFrame DEF ValueFrame, Side
  <2>2. /\ queue' = [client |-> Tail(queue["client"]), master |-> Append(queue["master"], frame)]
        /\ queue["client"] # << >>
    BY DEF ClientAnswers, IsNext
  <2> HIDE DEF frame
  <2>3. queue["client"] \in Seq(GenuineFrames) /\ queue["master"] \in Seq(GenuineFrames)
    BY DEF DataInv, QueuesOK, Side
  <2>4. /\ Tail(queue["client"]) \in Seq(GenuineFrames)
        /\ Append(queue["master"], frame) \in Seq(GenuineFrames)
    BY <2>1, <2>2, <2>3
  <2>5. queue' \in [Side -> Seq(GenuineFrames)]
    BY <2>2, <2>4, PairOfQueues
  <2> QED BY <2>5, <1>1, FrameKept DEF QueuesOK
<1> QED BY <1>2, <1>3, <1>4 DEF DataInv

(* A side gets a value: it is the one in the frame, and the flag is set.   *)
LEMMA GetsValueData ==
  ASSUME DataInv, NEW side \in Side, GetsValue(side)
  PROVE  /\ DataInv'
         /\ queue[side] # << >> /\ Head(queue[side]).type \in ValueFrame
         /\ value' = [value EXCEPT ![side] = Head(queue[side]).of]
         /\ receivedValueUpdate' = [receivedValueUpdate EXCEPT ![side] = TRUE]
         /\ Receive(side)
         /\ UNCHANGED <<version, unsent, seen>>
<1>1. /\ version' = version
      /\ UNCHANGED <<unsent, seen, calleeVars, callerVars>>
      /\ queue[side] # << >>
      /\ Head(queue[side]).type \in ValueFrame
      /\ Receive(side)
  BY DEF GetsValue, IsNext, ValueFrame
<1>2. VersionOK' /\ CalleeOK' /\ CallerOK'
  BY <1>1, KeptParts
<1>3. QueuesOK'
  BY <1>1, ReceiveKeepsQueues DEF DataInv
<1>4. Head(queue[side]) \in ValueFrames
  BY <1>1, HeadIsGenuine, FramesByType DEF DataInv
<1>5. Fits(side, Width(Type)) /\ Head(queue[side]).of \in Good(Type)
  BY <1>4, ValueReceived
<1>6. PICK stale \in Stale :
        value' = [value EXCEPT ![side] = ReadFromData(Type, Buffer(side, stale))]
  BY <1>5 DEF GetsValue
<1>7. value' = [value EXCEPT ![side] = Head(queue[side]).of]
  BY <1>4, <1>6, ValueReceived
<1>8. /\ origin' = [origin EXCEPT ![side] = Head(queue[side]).of]
      /\ receivedValueUpdate' = [receivedValueUpdate EXCEPT ![side] = TRUE]
  BY <1>5 DEF GetsValue, FlagAfterRead
<1>9. NodesOK'
  BY <1>1, <1>5, <1>7, <1>8, FrameKept DEF NodesOK, DataInv
<1> QED BY <1>1, <1>2, <1>3, <1>7, <1>8, <1>9 DEF DataInv

(* An application takes the flag.                                          *)
LEMMA TakesUpdateData ==
  ASSUME DataInv, NEW side \in Side, TakesUpdate(side)
  PROVE  DataInv'
<1>1. /\ version' = version
      /\ UNCHANGED <<value, origin, unsent, calleeVars, callerVars, queue>>
      /\ receivedValueUpdate' = [receivedValueUpdate EXCEPT ![side] = FALSE]
      /\ seen' = [seen EXCEPT ![side] = value[side]]
  BY DEF TakesUpdate
<1>2. VersionOK' /\ CalleeOK' /\ CallerOK' /\ QueuesOK'
  BY <1>1, KeptParts
<1>3. value[side] \in Int
  BY GoodValues DEF DataInv, NodesOK
<1>4. NodesOK'
  BY <1>1, <1>3, FrameKept DEF NodesOK, DataInv
<1> QED BY <1>2, <1>4 DEF DataInv

(* sendCall.                                                               *)
LEMMA CallData ==
  ASSUME DataInv, CleanFiles, sendCall
  PROVE  DataInv'
<1>1. UNCHANGED <<version, nodeVars, calleeVars, callerVars>>
  BY DEF sendCall
<1>2. VersionOK' /\ NodesOK' /\ CalleeOK' /\ CallerOK'
  BY <1>1, KeptParts
<1>3. PICK values \in SomeStructs(Args("master")) :
        Send("client", Frame("REMOTE_CALL_REQUEST", WriteStruct(Args("master"), values), values))
  BY DEF sendCall
<1>4. Args("master") \in Seq(STRING)
  BY FilesOfVersion DEF DataInv, Side
<1>5. values \in GoodStruct(Args("master"))
  BY <1>4, GoodStructs DEF CleanFiles
<1>6. Frame("REMOTE_CALL_REQUEST", WriteStruct(Args("master"), values), values) \in GenuineFrames
  BY <1>5 DEF GenuineFrames, CallFrames
<1>7. QueuesOK'
  BY <1>1, <1>3, <1>6, SendKeepsQueues DEF DataInv, Side
<1> QED BY <1>2, <1>7 DEF DataInv

(* The client gets a call: it takes it with all its arguments, or not.     *)
LEMMA GetsCallData ==
  ASSUME DataInv, CleanFiles, ClientGetsCall
  PROVE  DataInv'
<1>1. /\ UNCHANGED <<version, nodeVars, callerVars>>
      /\ queue["client"] # << >> /\ Head(queue["client"]).type = "REMOTE_CALL_REQUEST"
      /\ Receive("client")
  BY DEF ClientGetsCall, IsNext
<1>2. VersionOK' /\ NodesOK' /\ CallerOK'
  BY <1>1, KeptParts
<1>3. QueuesOK'
  BY <1>1, ReceiveKeepsQueues DEF DataInv, Side
<1>4. CalleeOK'
  <2>1. CASE ~ Fits("client", getRequiredDataSizeBytes(Args("client")))
    <3>1. UNCHANGED calleeVars
      BY <2>1 DEF ClientGetsCall
    <3> QED BY <3>1, <1>1, KeptParts
  <2>2. CASE Fits("client", getRequiredDataSizeBytes(Args("client")))
    <3> DEFINE f == Head(queue["client"])
    <3>1. f \in CallFrames
      BY <1>1, HeadIsGenuine, FramesByType DEF DataInv, Side
    <3>2. PICK values \in GoodStruct(Args("master")) :
            f = Frame("REMOTE_CALL_REQUEST", WriteStruct(Args("master"), values), values)
      BY <3>1 DEF CallFrames
    <3>3. f.data = WriteStruct(Args("master"), values) /\ f.of = values
      BY <3>2 DEF Frame
    <3>4. PICK stale \in Stale :
            argumentsData' = ReadStruct(Args("client"), Buffer("client", stale))
      BY <2>2 DEF ClientGetsCall
    <3>5. remoteCallCalled' = TRUE /\ calledWith' = values
      BY <2>2, <3>3 DEF ClientGetsCall
    <3>6. /\ Args("master") \in Seq(STRING) /\ Args("client") \in Seq(STRING)
          /\ getRequiredDataSizeBytes(Args("master")) <= FrameBytes
      BY FilesOfVersion DEF DataInv, Side
    <3>7. IsPrefix(Args("master"), Args("client")) \/ IsPrefix(Args("client"), Args("master"))
      BY StructsOfVersion DEF DataInv, CleanFiles
    <3>8. /\ Len(Args("client")) <= Len(values)
          /\ DOMAIN argumentsData' = 1 .. Len(Args("client"))
          /\ \A i \in 1 .. Len(Args("client")) : argumentsData'[i] = values[i]
      <4> HIDE DEF f
      <4>1. "client" \in Side /\ Head(queue["client"]).data = WriteStruct(Args("master"), values)
        BY <3>3 DEF Side, f
      <4> QED BY <2>2, <3>4, <3>6, <3>7, <4>1, StructReceived
    <3>9. values \in Seq(Int)
      BY DEF GoodStruct
    <3> QED BY <1>1, <3>5, <3>8, <3>9, FrameKept DEF CalleeOK
  <2> QED BY <2>1, <2>2
<1> QED BY <1>2, <1>3, <1>4 DEF DataInv

(* The handler returned.                                                   *)
LEMMA ReturnedData ==
  ASSUME DataInv, NEW frame \in GenuineFrames, Returned(frame)
  PROVE  DataInv'
<1>1. /\ UNCHANGED <<version, nodeVars, argumentsData, calledWith, callerVars>>
      /\ remoteCallCalled' = FALSE
      /\ Send("master", frame)
  BY DEF Returned
<1>2. VersionOK' /\ NodesOK' /\ CallerOK'
  BY <1>1, KeptParts
<1>3. CalleeOK'
  BY <1>1 DEF CalleeOK
<1>4. QueuesOK'
  BY <1>1, SendKeepsQueues DEF DataInv, Side
<1> QED BY <1>2, <1>3, <1>4 DEF DataInv

(* It returned values.                                                     *)
LEMMA ReturnOkData ==
  ASSUME DataInv, CleanFiles, sendReturnOk
  PROVE  DataInv'
<1>1. PICK values \in SomeStructs(Returns("client")) :
        Returned(Frame("REMOTE_CALL_RETURN ok", WriteStruct(Returns("client"), values), values))
  BY DEF sendReturnOk
<1>2. values \in GoodStruct(Returns("client"))
  BY FilesOfVersion, GoodStructs DEF DataInv, CleanFiles, Side
<1>3. Frame("REMOTE_CALL_RETURN ok", WriteStruct(Returns("client"), values), values)
        \in GenuineFrames
  BY <1>2 DEF GenuineFrames, ReturnFrames
<1> QED BY <1>1, <1>3, ReturnedData

(* It returned an error code, of which the frame has one byte.             *)
LEMMA ReturnErrorData ==
  ASSUME DataInv, CleanFiles, sendReturnError
  PROVE  DataInv'
<1>1. PICK code \in EnumValues :
        Returned(Frame("REMOTE_CALL_RETURN error", <<code % ByteSize>>, code))
  BY DEF sendReturnError
<1>2. code \in Byte /\ code \in 0 .. ByteSize - 1
  BY DEF CleanFiles, EnumsFitByte, Byte
<1>3. code % ByteSize = code
  BY <1>2, ByteSizeAssumption, RestOfSmall
<1>4. Frame("REMOTE_CALL_RETURN error", <<code % ByteSize>>, code) \in GenuineFrames
  BY <1>2, <1>3 DEF GenuineFrames, ErrorFrames
<1> QED BY <1>1, <1>4, ReturnedData

(* The master gets the results: it takes them all, or none.                *)
LEMMA GetsReturnData ==
  ASSUME DataInv, CleanFiles, MasterGetsReturn
  PROVE  DataInv'
<1>1. /\ UNCHANGED <<version, nodeVars, calleeVars>>
      /\ queue["master"] # << >> /\ Head(queue["master"]).type = "REMOTE_CALL_RETURN ok"
      /\ Receive("master")
  BY DEF MasterGetsReturn, IsNext
<1>2. VersionOK' /\ NodesOK' /\ CalleeOK'
  BY <1>1, KeptParts
<1>3. QueuesOK'
  BY <1>1, ReceiveKeepsQueues DEF DataInv, Side
<1>4. CallerOK'
  <2>1. CASE ~ Fits("master", getRequiredDataSizeBytes(Returns("master")))
    <3>1. UNCHANGED callerVars
      BY <2>1 DEF MasterGetsReturn
    <3> QED BY <3>1, <1>1, KeptParts
  <2>2. CASE Fits("master", getRequiredDataSizeBytes(Returns("master")))
    <3> DEFINE f == Head(queue["master"])
    <3>1. f \in ReturnFrames
      BY <1>1, HeadIsGenuine, FramesByType DEF DataInv, Side
    <3>2. PICK values \in GoodStruct(Returns("client")) :
            f = Frame("REMOTE_CALL_RETURN ok", WriteStruct(Returns("client"), values), values)
      BY <3>1 DEF ReturnFrames
    <3>3. f.data = WriteStruct(Returns("client"), values) /\ f.of = values
      <4> HIDE DEF f
      <4> QED BY <3>2 DEF Frame
    <3>4. PICK stale \in Stale :
            callReturnData' = [callReturnData EXCEPT
              !.isError = FALSE,
              !.returnData = ReadStruct(Returns("master"), Buffer("master", stale))]
      BY <2>2 DEF MasterGetsReturn
    <3>5. remoteCallReturned' = TRUE /\ returnedWith' = values
      BY <2>2, <3>3 DEF MasterGetsReturn
    <3>6. /\ Returns("master") \in Seq(STRING) /\ Returns("client") \in Seq(STRING)
          /\ getRequiredDataSizeBytes(Returns("client")) <= FrameBytes
      BY FilesOfVersion DEF DataInv, Side
    <3>7. \/ IsPrefix(Returns("client"), Returns("master"))
          \/ IsPrefix(Returns("master"), Returns("client"))
      BY StructsOfVersion DEF DataInv, CleanFiles
    <3> DEFINE read == ReadStruct(Returns("master"), Buffer("master", stale))
    <3>8. /\ Len(Returns("master")) <= Len(values)
          /\ DOMAIN read = 1 .. Len(Returns("master"))
          /\ \A i \in 1 .. Len(Returns("master")) : read[i] = values[i]
      <4> HIDE DEF f
      <4>1. "master" \in Side /\ Head(queue["master"]).data = WriteStruct(Returns("client"), values)
        BY <3>3 DEF Side, f
      <4> QED BY <2>2, <3>6, <3>7, <4>1, StructReceived
    <3> HIDE DEF read
    <3>9. /\ DOMAIN callReturnData' = {"isError", "returnData", "returnError"}
          /\ callReturnData'.isError = FALSE
          /\ callReturnData'.returnData = read
          /\ callReturnData'.returnError \in Byte
      BY <3>4 DEF DataInv, CallerOK, read
    <3>10. values \in Seq(Int)
      BY DEF GoodStruct
    <3>11. Returns("master")' = Returns("master")
      BY <1>1, FrameKept
    <3> HIDE DEF f
    <3> QED BY <3>5, <3>8, <3>9, <3>10, <3>11 DEF CallerOK
  <2> QED BY <2>1, <2>2
<1> QED BY <1>2, <1>3, <1>4 DEF DataInv

(* Of an error code that fits a byte, that byte is all.                    *)
LEMMA FirstByte ==
  ASSUME NEW old \in Byte, NEW byte \in Byte
  PROVE  FirstByteSet(old, byte) = byte
<1>1. old \in 0 .. ByteSize - 1 /\ byte \in Int
  BY ByteSizeAssumption DEF Byte
<1>2. old % ByteSize = old
  BY <1>1, ByteSizeAssumption, RestOfSmall
<1> QED BY <1>1, <1>2 DEF FirstByteSet

(* The master gets an error code.                                          *)
LEMMA GetsErrorData ==
  ASSUME DataInv, MasterGetsError
  PROVE  DataInv'
<1>1. /\ UNCHANGED <<version, nodeVars, calleeVars>>
      /\ queue["master"] # << >> /\ Head(queue["master"]).type = "REMOTE_CALL_RETURN error"
      /\ Receive("master")
  BY DEF MasterGetsError, IsNext
<1>2. VersionOK' /\ NodesOK' /\ CalleeOK'
  BY <1>1, KeptParts
<1>3. QueuesOK'
  BY <1>1, ReceiveKeepsQueues DEF DataInv, Side
<1>4. CallerOK'
  <2> DEFINE f == Head(queue["master"])
  <2>1. f \in ErrorFrames
    BY <1>1, HeadIsGenuine, FramesByType DEF DataInv, Side
  <2>2. PICK code \in Byte : f = Frame("REMOTE_CALL_RETURN error", <<code>>, code)
    BY <2>1 DEF ErrorFrames
  <2>3. f.data = <<code>> /\ f.of = code
    <3> DEFINE bytes == <<code>>
    <3>1. f = Frame("REMOTE_CALL_RETURN error", bytes, code)
      BY <2>2
    <3> HIDE DEF bytes, f
    <3>2. f.data = bytes /\ f.of = code
      BY <3>1 DEF Frame
    <3> QED BY <3>2 DEF bytes
  <2>4. Fits("master", 1)
    <3>1. Len(Head(queue["master"]).data) = 1
      BY <2>3
    <3> DEFINE n == Len(Head(queue["master"]).data)
    <3>2. n = 1 /\ 1 >= 1
      BY <3>1
    <3>3. Fits("master", 1) <=> n >= 1
      BY DEF Fits
    <3> HIDE DEF n
    <3> QED BY <3>2, <3>3
  <2>5. PICK stale \in Stale :
          callReturnData' = [callReturnData EXCEPT
            !.isError = TRUE, !.returnError = FirstByteSet(@, Buffer("master", stale)[1])]
    BY <2>4 DEF MasterGetsError
  <2>6. remoteCallReturned' = TRUE /\ returnedWith' = <<code>>
    BY <2>4, <2>3 DEF MasterGetsError
  <2>7. Buffer("master", stale)[1] = code
    <3>1. <<code>> \in Seq(Byte) /\ Len(<<code>>) = 1 /\ <<code>>[1] = code
      OBVIOUS
    <3>2. Len(<<code>>) <= FrameBytes /\ 1 \in 1 .. Len(<<code>>)
      BY <3>1, FrameAssumption
    <3>3. Buffer("master", stale)[1] = <<code>>[1]
      BY <3>1, <3>2, <2>3, BufferHoldsFrame DEF Side
    <3> QED BY <3>1, <3>3
  <2>8. FirstByteSet(callReturnData.returnError, code) = code
    BY FirstByte DEF DataInv, CallerOK
  <2>9. /\ DOMAIN callReturnData' = {"isError", "returnData", "returnError"}
        /\ callReturnData'.isError = TRUE
        /\ callReturnData'.returnError = code
    BY <2>5, <2>7, <2>8 DEF DataInv, CallerOK
  <2> QED BY <1>1, <2>6, <2>9, FrameKept DEF CallerOK
<1> QED BY <1>2, <1>3, <1>4 DEF DataInv

(* The caller takes the return.                                            *)
LEMMA TakesReturnData ==
  ASSUME DataInv, MasterTakesReturn
  PROVE  DataInv'
<1>1. /\ UNCHANGED <<version, nodeVars, calleeVars, callReturnData, returnedWith, queue>>
      /\ remoteCallReturned' = FALSE
  BY DEF MasterTakesReturn
<1>2. VersionOK' /\ NodesOK' /\ CalleeOK' /\ QueuesOK'
  BY <1>1, KeptParts
<1>3. CallerOK'
  BY <1>1 DEF DataInv, CallerOK
<1> QED BY <1>2, <1>3 DEF DataInv

(* Every step.                                                             *)
LEMMA DataStep ==
  ASSUME CleanFiles, DataInv, [Next]_vars
  PROVE  DataInv'
<1>1. ASSUME NEW side \in Side, Writes(side) PROVE DataInv'
  BY <1>1, WritesData
<1>2. ASSUME NEW side \in Side, sendValue(side) PROVE DataInv'
  BY <1>2, SendsData
<1>3. ASSUME NEW side \in Side, GetsValue(side) PROVE DataInv'
  BY <1>3, GetsValueData
<1>4. ASSUME NEW side \in Side, TakesUpdate(side) PROVE DataInv'
  BY <1>4, TakesUpdateData
<1>5. CASE sendReadValueReq
  BY <1>5, ReadRequestData
<1>6. CASE ClientAnswers
  BY <1>6, AnswersData
<1>7. CASE sendCall
  BY <1>7, CallData
<1>8. CASE ClientGetsCall
  BY <1>8, GetsCallData
<1>9. CASE sendReturnOk
  BY <1>9, ReturnOkData
<1>10. CASE sendReturnError
  BY <1>10, ReturnErrorData
<1>11. CASE MasterGetsReturn
  BY <1>11, GetsReturnData
<1>12. CASE MasterGetsError
  BY <1>12, GetsErrorData
<1>13. CASE MasterTakesReturn
  BY <1>13, TakesReturnData
<1>14. CASE UNCHANGED vars
  BY <1>14, KeptParts DEF vars, DataInv
<1> QED BY <1>1, <1>2, <1>3, <1>4, <1>5, <1>6, <1>7, <1>8, <1>9, <1>10, <1>11,
           <1>12, <1>13, <1>14 DEF Next

(* What is stored and what is on its way are the bytes of what applications *)
(* gave, in any pair of programs of clean files.                           *)
THEOREM TypedData ==
  ASSUME CleanFiles
  PROVE  Spec => []DataInv
<1>1. Init => DataInv
  BY DataInit
<1>2. DataInv /\ [Next]_vars => DataInv'
  BY DataStep
<1> QED BY <1>1, <1>2, PTL DEF Spec

(* A node's value is what an application wrote, here or on the other side. *)
THEOREM ValuesArrive ==
  ASSUME CleanFiles
  PROVE  Spec => []ValueArrives
<1>1. DataInv => ValueArrives
  BY DEF DataInv, NodesOK, ValueArrives
<1> QED BY <1>1, TypedData, PTL

(* A handler finds the arguments that its caller gave.                     *)
THEOREM CallDataArrives ==
  ASSUME CleanFiles
  PROVE  Spec => []ArgumentsArrive
<1>1. DataInv => ArgumentsArrive
  BY DEF DataInv, CalleeOK, ArgumentsArrive
<1> QED BY <1>1, TypedData, PTL

(* The caller finds the results or the error code that the handler gave.   *)
THEOREM ReturnDataArrives ==
  ASSUME CleanFiles
  PROVE  Spec => []ReturnArrives
<1>1. DataInv => ReturnArrives
  BY DEF DataInv, CallerOK, ReturnArrives
<1> QED BY <1>1, TypedData, PTL

-----------------------------------------------------------------------------
(* The order of a value's frames, for a node that one side alone may write. *)
(* The last frame with a value on its way to the reader has the writer's   *)
(* value, once it is sent; none is on its way to the writer.               *)

Reads(side) == Access(side) = "Readable"
NoValueIn(frames) == \A i \in 1 .. Len(frames) : frames[i].type \notin ValueFrame
NoRequestIn(frames) ==
  \A i \in 1 .. Len(frames) : frames[i].type # "READ_NODE_VALUE_REQEUST"
LastValueIs(frames, v) ==
  \A i \in 1 .. Len(frames) :
    (/\ frames[i].type \in ValueFrame
     /\ \A j \in i + 1 .. Len(frames) : frames[j].type \notin ValueFrame) => frames[i].of = v

OneWriter(side) ==
  /\ NoValueIn(queue[Other(side)])
  /\ receivedValueUpdate[side] \/ seen[side] = value[side]
  /\ ~ unsent[Other(side)] =>
       /\ NoValueIn(queue[side]) => value[side] = value[Other(side)]
       /\ LastValueIs(queue[side], value[Other(side)])

(* Reads are for a master that may read; only the client is asked.         *)
OnlyReadersAsk ==
  /\ NoRequestIn(queue["master"])
  /\ MayRead("master") \/ NoRequestIn(queue["client"])

OrderInv == OnlyReadersAsk /\ \A side \in Side : Reads(side) => OneWriter(side)

-----------------------------------------------------------------------------
(* How its parts change with the queues.                                   *)

(* A frame without a value comes behind the others.                        *)
LEMMA SendsOther ==
  ASSUME NEW S, NEW q \in Seq(S), NEW f, f.type \notin ValueFrame, NEW v
  PROVE  /\ NoValueIn(Append(q, f)) <=> NoValueIn(q)
         /\ LastValueIs(q, v) => LastValueIs(Append(q, f), v)
<1> DEFINE r == Append(q, f)
<1>1. /\ Len(q) \in Nat /\ Len(r) = Len(q) + 1
      /\ \A i \in 1 .. Len(q) : r[i] = q[i]
      /\ r[Len(q) + 1] = f
  OBVIOUS
<1> HIDE DEF r
<1>2. NoValueIn(r) <=> NoValueIn(q)
  BY <1>1 DEF NoValueIn
<1>3. ASSUME LastValueIs(q, v), NEW i \in 1 .. Len(r), r[i].type \in ValueFrame,
             \A j \in i + 1 .. Len(r) : r[j].type \notin ValueFrame
      PROVE  r[i].of = v
  <2>1. i \in 1 .. Len(q) /\ r[i] = q[i]
    BY <1>1, <1>3
  <2>2. \A j \in i + 1 .. Len(q) : q[j].type \notin ValueFrame
    <3> TAKE j \in i + 1 .. Len(q)
    <3>1. j \in i + 1 .. Len(r) /\ j \in 1 .. Len(q)
      BY <1>1, <2>1
    <3> QED BY <1>1, <1>3, <3>1
  <2> QED BY <1>3, <2>1, <2>2 DEF LastValueIs
<1> QED BY <1>2, <1>3 DEF LastValueIs, r

(* A frame with a value becomes the last one.                              *)
LEMMA SendsValueFrame ==
  ASSUME NEW S, NEW q \in Seq(S), NEW f, f.type \in ValueFrame
  PROVE  /\ ~ NoValueIn(Append(q, f))
         /\ LastValueIs(Append(q, f), f.of)
<1> DEFINE r == Append(q, f)
<1>1. /\ Len(q) \in Nat /\ Len(r) = Len(q) + 1
      /\ r[Len(q) + 1] = f
  OBVIOUS
<1> HIDE DEF r
<1>2. ~ NoValueIn(r)
  BY <1>1 DEF NoValueIn
<1>3. ASSUME NEW i \in 1 .. Len(r),
             \A j \in i + 1 .. Len(r) : r[j].type \notin ValueFrame
      PROVE  r[i].of = f.of
  <2>1. i = Len(q) + 1
    <3>1. CASE i # Len(q) + 1
      <4>1. Len(q) + 1 \in i + 1 .. Len(r)
        BY <1>1, <3>1
      <4> QED BY <4>1, <1>1, <1>3
    <3> QED BY <3>1
  <2> QED BY <2>1, <1>1
<1> QED BY <1>2, <1>3 DEF LastValueIs, r

(* The first frame leaves.                                                 *)
LEMMA TakesFirst ==
  ASSUME NEW S, NEW q \in Seq(S), q # << >>, NEW v
  PROVE  /\ NoValueIn(q) => NoValueIn(Tail(q))
         /\ NoValueIn(q) => Head(q).type \notin ValueFrame
         /\ Head(q).type \notin ValueFrame /\ NoValueIn(Tail(q)) => NoValueIn(q)
         /\ LastValueIs(q, v) => LastValueIs(Tail(q), v)
         /\ Head(q).type \in ValueFrame /\ NoValueIn(Tail(q)) /\ LastValueIs(q, v) => Head(q).of = v
<1> DEFINE r == Tail(q)
           n == Len(q)
<1>1. /\ n \in Nat \ {0} /\ Len(r) = n - 1
      /\ \A i \in 1 .. n - 1 : r[i] = q[i + 1]
      /\ Head(q) = q[1]
  OBVIOUS
<1>2. \A i \in 2 .. n : q[i] = r[i - 1]
  <2> TAKE i \in 2 .. n
  <2> DEFINE k == i - 1
  <2>1. k \in 1 .. n - 1 /\ k + 1 = i
    BY <1>1
  <2> HIDE DEF k, r, n
  <2>2. r[k] = q[k + 1]
    BY <1>1, <2>1
  <2> QED BY <2>1, <2>2 DEF k
<1> HIDE DEF r
<1>3. NoValueIn(q) => NoValueIn(r)
  BY <1>1 DEF NoValueIn
<1>4. NoValueIn(q) => Head(q).type \notin ValueFrame
  BY <1>1 DEF NoValueIn
<1>5. ASSUME Head(q).type \notin ValueFrame, NoValueIn(r) PROVE NoValueIn(q)
  <2> SUFFICES ASSUME NEW i \in 1 .. n PROVE q[i].type \notin ValueFrame
    BY DEF NoValueIn
  <2>1. CASE i = 1
    BY <2>1, <1>1, <1>5
  <2>2. CASE i # 1
    <3>1. i \in 2 .. n /\ i - 1 \in 1 .. Len(r)
      BY <2>2, <1>1
    <3> QED BY <3>1, <1>2, <1>5 DEF NoValueIn
  <2> QED BY <2>1, <2>2
<1>6. ASSUME LastValueIs(q, v), NEW i \in 1 .. Len(r), r[i].type \in ValueFrame,
             \A j \in i + 1 .. Len(r) : r[j].type \notin ValueFrame
      PROVE  r[i].of = v
  <2> DEFINE k == i + 1
  <2>1. k \in 1 .. n /\ r[i] = q[k] /\ i \in 1 .. n - 1
    BY <1>1
  <2>2. \A j \in k + 1 .. n : q[j].type \notin ValueFrame
    <3> TAKE j \in k + 1 .. n
    <3>1. j \in 2 .. n /\ j - 1 \in i + 1 .. Len(r)
      BY <1>1
    <3> QED BY <3>1, <1>2, <1>6
  <2> HIDE DEF k
  <2>3. q[k].type \in ValueFrame
    BY <2>1, <1>6
  <2>4. q[k].of = v
    BY <1>6, <2>1, <2>2, <2>3 DEF LastValueIs
  <2> QED BY <2>1, <2>4
<1>7. ASSUME Head(q).type \in ValueFrame, NoValueIn(r), LastValueIs(q, v) PROVE Head(q).of = v
  <2>1. \A j \in 1 + 1 .. n : q[j].type \notin ValueFrame
    <3> TAKE j \in 1 + 1 .. n
    <3>1. j \in 2 .. n /\ j - 1 \in 1 .. Len(r)
      BY <1>1
    <3> QED BY <3>1, <1>2, <1>7 DEF NoValueIn
  <2>2. 1 \in 1 .. n
    BY <1>1
  <2> QED BY <1>1, <1>7, <2>1, <2>2 DEF LastValueIs
<1>8. LastValueIs(q, v) => LastValueIs(r, v)
  BY <1>6 DEF LastValueIs
<1> QED BY <1>3, <1>4, <1>5, <1>7, <1>8 DEF r

(* The same for the requests to read.                                      *)
LEMMA RequestsInQueue ==
  ASSUME NEW S, NEW q \in Seq(S)
  PROVE  /\ \A f : f.type # "READ_NODE_VALUE_REQEUST" /\ NoRequestIn(q) => NoRequestIn(Append(q, f))
         /\ q # << >> /\ NoRequestIn(q) =>
              NoRequestIn(Tail(q)) /\ Head(q).type # "READ_NODE_VALUE_REQEUST"
<1>1. ASSUME NEW f, f.type # "READ_NODE_VALUE_REQEUST", NoRequestIn(q)
      PROVE  NoRequestIn(Append(q, f))
  <2> DEFINE r == Append(q, f)
  <2>1. /\ Len(q) \in Nat /\ Len(r) = Len(q) + 1
        /\ \A i \in 1 .. Len(q) : r[i] = q[i]
        /\ r[Len(q) + 1] = f
    OBVIOUS
  <2> HIDE DEF r
  <2>2. NoRequestIn(r)
    BY <1>1, <2>1 DEF NoRequestIn
  <2> QED BY <2>2 DEF r
<1>2. ASSUME q # << >>, NoRequestIn(q)
      PROVE  NoRequestIn(Tail(q)) /\ Head(q).type # "READ_NODE_VALUE_REQEUST"
  <2> DEFINE r == Tail(q)
  <2>1. /\ Len(q) \in Nat \ {0} /\ Len(r) = Len(q) - 1
        /\ \A i \in 1 .. Len(q) - 1 : r[i] = q[i + 1]
        /\ Head(q) = q[1]
    BY <1>2
  <2> HIDE DEF r
  <2>2. NoRequestIn(r) /\ q[1].type # "READ_NODE_VALUE_REQEUST"
    BY <1>2, <2>1 DEF NoRequestIn
  <2> QED BY <2>1, <2>2 DEF r
<1> QED BY <1>1, <1>2

(* The other side of a reader writes and does not read.                    *)
LEMMA AccessRights ==
  ASSUME VersionOK
  PROVE  /\ \A side \in Side : Reads(side) =>
              ~ MayWrite(side) /\ ~ Reads(Other(side)) /\ ~ MayRead(Other(side))
         /\ \A side \in Side : version.access = (IF side = "master" THEN "w" ELSE "r")
              => Reads(Other(side))
<1>1. version.access \in {"r", "w", "rw"}
  BY DEF VersionOK, Generated
<1>2. AccessOfSide("r", "master") = "Readable" /\ AccessOfSide("r", "client") = "Writable"
  BY DEF AccessOfSide
<1>3. AccessOfSide("w", "master") = "Writable" /\ AccessOfSide("w", "client") = "Readable"
  BY DEF AccessOfSide
<1>4. \A side \in Side : AccessOfSide("rw", side) = "ReadWriteable"
  BY DEF AccessOfSide
<1> QED BY <1>1, <1>2, <1>3, <1>4, Others DEF Side, Reads, MayWrite, MayRead, Access

(* Rights do not change.                                                   *)
LEMMA SameRights ==
  ASSUME version' = version
  PROVE  \A side : Reads(side)' = Reads(side) /\ MayRead(side)' = MayRead(side)
BY DEF Reads, MayRead, Access

(* Each side has a queue of frames.                                        *)
LEMMA QueuesAreFrames ==
  ASSUME DataInv
  PROVE  \A side \in Side : queue[side] \in Seq(GenuineFrames) /\ Other(side) \in Side
BY Others DEF DataInv, QueuesOK, Side

(* A step's effect on the queues.                                          *)
Appends(to, f) == queue' = [queue EXCEPT ![to] = Append(@, f)]

-----------------------------------------------------------------------------
(* Each operation keeps the order.                                         *)

(* The beginning.                                                          *)
LEMMA OrderInit ==
  ASSUME Init
  PROVE  OrderInv
<1>1. /\ queue = [side \in Side |-> << >>]
      /\ unsent = [side \in Side |-> TRUE]
      /\ seen = value
  BY DEF Init
<1>2. \A side \in Side : queue[side] = << >> /\ Other(side) \in Side
  BY <1>1, Others DEF Side
<1>3. NoValueIn(<< >>) /\ NoRequestIn(<< >>)
  BY DEF NoValueIn, NoRequestIn
<1>4. OnlyReadersAsk
  BY <1>2, <1>3 DEF OnlyReadersAsk, Side
<1>5. \A side \in Side : OneWriter(side)
  BY <1>1, <1>2, <1>3 DEF OneWriter
<1> QED BY <1>4, <1>5 DEF OrderInv

(* The writer's application writes, and has something unsent.              *)
LEMMA WritesOrder ==
  ASSUME DataInv, OrderInv, NEW writer \in Side, Writes(writer)
  PROVE  OrderInv'
<1>1. /\ MayWrite(writer)
      /\ UNCHANGED <<version, receivedValueUpdate, seen, queue>>
      /\ unsent' = [unsent EXCEPT ![writer] = TRUE]
  BY DEF Writes
<1>2. \A side \in Side : side # writer => value'[side] = value[side]
  BY DEF Writes, DataInv, NodesOK
<1>3. OnlyReadersAsk'
  BY <1>1, SameRights DEF OrderInv, OnlyReadersAsk
<1>4. ASSUME NEW side \in Side, Reads(side) PROVE OneWriter(side)'
  <2>1. OneWriter(side) /\ side # writer /\ Other(side) = writer
    BY <1>1, <1>4, AccessRights, Others DEF OrderInv, DataInv, Side
  <2>2. unsent'[Other(side)] /\ Other(side)' = Other(side)
    BY <1>1, <2>1 DEF DataInv, NodesOK
  <2> QED BY <1>1, <1>2, <2>1, <2>2 DEF OneWriter
<1> QED BY <1>1, <1>3, <1>4, SameRights DEF OrderInv

(* A frame that has no value changes nothing for the node, sent ...        *)
LEMMA SendsOtherOrder ==
  ASSUME DataInv, OrderInv, UNCHANGED <<version, nodeVars>>,
         NEW to \in Side, NEW f, Appends(to, f), f.type \notin ValueFrame,
         f.type = "READ_NODE_VALUE_REQEUST" => to = "client" /\ MayRead("master")
  PROVE  OrderInv'
<1>1. \A side \in Side : queue'[side] = IF side = to THEN Append(queue[side], f) ELSE queue[side]
  BY DEF Appends, DataInv, QueuesOK
<1>2. \A side \in Side :
        /\ NoValueIn(queue'[side]) <=> NoValueIn(queue[side])
        /\ \A v : LastValueIs(queue[side], v) => LastValueIs(queue'[side], v)
        /\ NoRequestIn(queue[side]) /\ (f.type # "READ_NODE_VALUE_REQEUST" \/ side # to)
             => NoRequestIn(queue'[side])
  BY <1>1, QueuesAreFrames, SendsOther, RequestsInQueue
<1>3. OnlyReadersAsk'
  BY <1>2, SameRights DEF OrderInv, OnlyReadersAsk, Side
<1>4. ASSUME NEW side \in Side, Reads(side) PROVE OneWriter(side)'
  <2>1. OneWriter(side) /\ Other(side) \in Side
    BY <1>4, QueuesAreFrames DEF OrderInv
  <2> QED BY <1>2, <2>1 DEF OneWriter, nodeVars
<1> QED BY <1>3, <1>4, SameRights DEF OrderInv

(* ... or taken.                                                           *)
LEMMA TakesOtherOrder ==
  ASSUME DataInv, OrderInv, UNCHANGED <<version, nodeVars>>,
         NEW at \in Side, queue[at] # << >>, Receive(at), Head(queue[at]).type \notin ValueFrame
  PROVE  OrderInv'
<1>1. \A side \in Side : queue'[side] = IF side = at THEN Tail(queue[side]) ELSE queue[side]
  BY DEF Receive, DataInv, QueuesOK
<1>2. \A side \in Side :
        /\ NoValueIn(queue'[side]) <=> NoValueIn(queue[side])
        /\ \A v : LastValueIs(queue[side], v) => LastValueIs(queue'[side], v)
        /\ NoRequestIn(queue[side]) => NoRequestIn(queue'[side])
  BY <1>1, QueuesAreFrames, TakesFirst, RequestsInQueue
<1>3. OnlyReadersAsk'
  BY <1>2, SameRights DEF OrderInv, OnlyReadersAsk, Side
<1>4. ASSUME NEW side \in Side, Reads(side) PROVE OneWriter(side)'
  <2>1. OneWriter(side) /\ Other(side) \in Side
    BY <1>4, QueuesAreFrames DEF OrderInv
  <2> QED BY <1>2, <2>1 DEF OneWriter, nodeVars
<1> QED BY <1>3, <1>4, SameRights DEF OrderInv

(* The writer sends its value to the reader.                               *)
LEMMA SendsValueOrder ==
  ASSUME DataInv, OrderInv, NEW writer \in Side, ~ Reads(writer),
         NEW f, f.type \in ValueFrame, f.of = value[writer],
         queue'[Other(writer)] = Append(queue[Other(writer)], f),
         NoValueIn(queue[writer]) => NoValueIn(queue'[writer]),
         NoRequestIn(queue[writer]) => NoRequestIn(queue'[writer]),
         UNCHANGED <<version, value, receivedValueUpdate, seen>>
  PROVE  OrderInv'
<1>1. Other(writer) \in Side /\ Other(Other(writer)) = writer
  BY Others DEF Side
<1>2. queue[Other(writer)] \in Seq(GenuineFrames)
  BY <1>1, QueuesAreFrames
<1>3. f.type # "READ_NODE_VALUE_REQEUST"
  BY DEF ValueFrame
<1>4. NoRequestIn(queue[Other(writer)]) => NoRequestIn(queue'[Other(writer)])
  BY <1>2, <1>3, RequestsInQueue
<1>5. OnlyReadersAsk'
  BY <1>4, SameRights, Others DEF OrderInv, OnlyReadersAsk, Side
<1>6. ~ NoValueIn(queue'[Other(writer)]) /\ LastValueIs(queue'[Other(writer)], value[writer])
  BY <1>2, SendsValueFrame
<1>7. ASSUME NEW side \in Side, Reads(side) PROVE OneWriter(side)'
  <2>1. OneWriter(side) /\ side = Other(writer) /\ Other(side) = writer
    BY <1>1, <1>7, Others DEF OrderInv, Side
  <2> QED BY <1>6, <2>1 DEF OneWriter
<1> QED BY <1>5, <1>7, SameRights DEF OrderInv

(* sendValue.                                                              *)
LEMMA SendsOrder ==
  ASSUME DataInv, OrderInv, ~ BeyondRights, NEW writer \in Side, sendValue(writer)
  PROVE  OrderInv'
<1> DEFINE f == Frame("WRITE_NODE_VALUE_REQEUST", WriteToData(Type, value[writer]), origin[writer])
<1>1. /\ MayWrite(writer)
      /\ Appends(Other(writer), f)
      /\ UNCHANGED <<version, value, receivedValueUpdate, seen>>
  BY DEF sendValue, SendsOwnValue, Send, Appends
<1>2. f.type \in ValueFrame /\ f.of = value[writer]
  BY DEF Frame, ValueFrame, DataInv, NodesOK
<1> HIDE DEF f
<1>3. Other(writer) \in Side /\ Other(writer) # writer
  BY Others DEF Side
<1>4. /\ queue'[Other(writer)] = Append(queue[Other(writer)], f)
      /\ queue'[writer] = queue[writer]
  BY <1>1, <1>3 DEF Appends, DataInv, QueuesOK
<1>5. ~ Reads(writer)
  BY <1>1, AccessRights DEF DataInv
<1> QED BY <1>1, <1>2, <1>4, <1>5, SendsValueOrder

(* sendReadValueReq.                                                       *)
LEMMA ReadRequestOrder ==
  ASSUME DataInv, OrderInv, ~ BeyondRights, sendReadValueReq
  PROVE  OrderInv'
<1> DEFINE f == Frame("READ_NODE_VALUE_REQEUST", << >>, 0)
<1>1. MayRead("master") /\ Appends("client", f) /\ UNCHANGED <<version, nodeVars>>
  BY DEF sendReadValueReq, Send, Appends
<1>2. f.type = "READ_NODE_VALUE_REQEUST" /\ f.type \notin ValueFrame
  BY DEF Frame, ValueFrame
<1> HIDE DEF f
<1> QED BY <1>1, <1>2, SendsOtherOrder DEF Side

(* The client answers a read: it is the writer.                            *)
LEMMA AnswersOrder ==
  ASSUME DataInv, OrderInv, ClientAnswers
  PROVE  OrderInv'
<1> DEFINE f == Frame("READ_NODE_VALUE_RESPONSE", WriteToData(Type, value["client"]), origin["client"])
<1>1. /\ queue["client"] # << >> /\ Head(queue["client"]).type = "READ_NODE_VALUE_REQEUST"
      /\ queue' = [client |-> Tail(queue["client"]), master |-> Append(queue["master"], f)]
      /\ UNCHANGED <<version, value, receivedValueUpdate, seen>>
  BY DEF ClientAnswers, IsNext
<1>2. f.type \in ValueFrame /\ f.of = value["client"]
  BY DEF Frame, ValueFrame, DataInv, NodesOK
<1> HIDE DEF f
<1>3. queue["client"] \in Seq(GenuineFrames)
  BY QueuesAreFrames DEF Side
<1>4. /\ queue'["client"] = Tail(queue["client"])
      /\ queue'["master"] = Append(queue["master"], f)
  BY <1>1
<1>5. /\ NoValueIn(queue["client"]) => NoValueIn(queue'["client"])
      /\ NoRequestIn(queue["client"]) => NoRequestIn(queue'["client"])
  BY <1>1, <1>3, <1>4, TakesFirst, RequestsInQueue
<1>6. MayRead("master")
  BY <1>1, <1>3, RequestsInQueue DEF OrderInv, OnlyReadersAsk
<1>7. ~ Reads("client")
  BY <1>6, AccessRights, Others DEF DataInv, Side
<1> QED BY <1>1, <1>2, <1>4, <1>5, <1>7, Others, SendsValueOrder DEF Side

(* A side gets a value: if there is one writer, it is the reader.          *)
LEMMA GetsValueOrder ==
  ASSUME DataInv, OrderInv, NEW at \in Side, GetsValue(at)
  PROVE  /\ OrderInv'
         /\ \A side \in Side : Reads(Other(side)) => side # at
<1>1. /\ queue[at] # << >> /\ Head(queue[at]).type \in ValueFrame
      /\ value' = [value EXCEPT ![at] = Head(queue[at]).of]
      /\ receivedValueUpdate' = [receivedValueUpdate EXCEPT ![at] = TRUE]
      /\ Receive(at)
      /\ UNCHANGED <<version, unsent, seen>>
  BY GetsValueData
<1>2. queue'[at] = Tail(queue[at]) /\ \A side \in Side : side # at => queue'[side] = queue[side]
  BY <1>1 DEF Receive, DataInv, QueuesOK
<1>3. queue[at] \in Seq(GenuineFrames)
  BY QueuesAreFrames
<1>4. OnlyReadersAsk'
  <2>1. \A side \in Side : NoRequestIn(queue[side]) => NoRequestIn(queue'[side])
    BY <1>1, <1>2, <1>3, RequestsInQueue
  <2> QED BY <1>1, <2>1, SameRights DEF OrderInv, OnlyReadersAsk, Side
<1>5. ~ NoValueIn(queue[at])
  BY <1>1, <1>3, TakesFirst
<1>6. ASSUME NEW side \in Side, Reads(side)
      PROVE  side = at /\ OneWriter(side)'
  <2>1. OneWriter(side) /\ Other(side) # at /\ Other(side) \in Side
    BY <1>5, <1>6, QueuesAreFrames DEF OrderInv, OneWriter
  <2>2. side = at
    BY <2>1, Others DEF Side
  <2> DEFINE other == Other(side)
  <2> HIDE DEF other
  <2>3. /\ value'[at] = Head(queue[at]).of /\ value'[other] = value[other]
        /\ receivedValueUpdate'[at] = TRUE
        /\ queue'[other] = queue[other]
    BY <1>1, <1>2, <2>1, <2>2 DEF DataInv, NodesOK, other
  <2>4. ~ unsent[other] => LastValueIs(queue[at], value[other])
    BY <2>1, <2>2 DEF OneWriter, other
  <2>5. ~ unsent[other] =>
          /\ NoValueIn(queue'[at]) => Head(queue[at]).of = value[other]
          /\ LastValueIs(queue'[at], value[other])
    BY <1>1, <1>2, <1>3, <2>4, TakesFirst
  <2>6. NoValueIn(queue[other])
    BY <2>1 DEF OneWriter, other
  <2> QED BY <1>1, <2>2, <2>3, <2>5, <2>6 DEF OneWriter, other
<1>7. OrderInv'
  BY <1>1, <1>4, <1>6, SameRights DEF OrderInv
<1>8. \A side \in Side : Reads(Other(side)) => side # at
  BY <1>6, Others DEF Side
<1> QED BY <1>7, <1>8

(* An application takes the flag.                                          *)
LEMMA TakesUpdateOrder ==
  ASSUME DataInv, OrderInv, NEW reader \in Side, TakesUpdate(reader)
  PROVE  OrderInv'
<1>1. /\ UNCHANGED <<version, value, unsent, queue>>
      /\ receivedValueUpdate' = [receivedValueUpdate EXCEPT ![reader] = FALSE]
      /\ seen' = [seen EXCEPT ![reader] = value[reader]]
  BY DEF TakesUpdate
<1>2. OnlyReadersAsk'
  BY <1>1, SameRights DEF OrderInv, OnlyReadersAsk
<1>3. ASSUME NEW side \in Side, Reads(side) PROVE OneWriter(side)'
  <2>1. OneWriter(side)
    BY <1>3 DEF OrderInv
  <2>2. receivedValueUpdate'[side] \/ seen'[side] = value[side]
    BY <1>1, <2>1 DEF OneWriter, DataInv, NodesOK
  <2> QED BY <1>1, <2>1, <2>2 DEF OneWriter
<1> QED BY <1>1, <1>2, <1>3, SameRights DEF OrderInv

(* Every step.                                                             *)
LEMMA OrderStep ==
  ASSUME CleanFiles, ~ BeyondRights, DataInv, OrderInv, [Next]_vars
  PROVE  OrderInv'
<1>1. ASSUME NEW side \in Side, Writes(side) PROVE OrderInv'
  BY <1>1, WritesOrder
<1>2. ASSUME NEW side \in Side, sendValue(side) PROVE OrderInv'
  BY <1>2, SendsOrder
<1>3. ASSUME NEW side \in Side, GetsValue(side) PROVE OrderInv'
  BY <1>3, GetsValueOrder
<1>4. ASSUME NEW side \in Side, TakesUpdate(side) PROVE OrderInv'
  BY <1>4, TakesUpdateOrder
<1>5. CASE sendReadValueReq
  BY <1>5, ReadRequestOrder
<1>6. CASE ClientAnswers
  BY <1>6, AnswersOrder
<1>7. CASE sendCall
  <2>1. PICK values \in SomeStructs(Args("master")) :
          Send("client", Frame("REMOTE_CALL_REQUEST", WriteStruct(Args("master"), values), values))
    BY <1>7 DEF sendCall
  <2> DEFINE f == Frame("REMOTE_CALL_REQUEST", WriteStruct(Args("master"), values), values)
  <2>2. f.type \notin ValueFrame /\ f.type # "READ_NODE_VALUE_REQEUST"
    BY DEF Frame, ValueFrame
  <2>3. Appends("client", f)
    BY <2>1 DEF Send, Appends
  <2> HIDE DEF f
  <2> QED BY <1>7, <2>2, <2>3, SendsOtherOrder DEF sendCall, Side
<1>8. CASE ClientGetsCall
  BY <1>8, TakesOtherOrder DEF ClientGetsCall, IsNext, ValueFrame, Side
<1>9. ASSUME NEW f, Returned(f), f.type \notin ValueFrame, f.type # "READ_NODE_VALUE_REQEUST"
      PROVE  OrderInv'
  <2>1. Appends("master", f) /\ UNCHANGED <<version, nodeVars>>
    BY <1>9 DEF Returned, Send, Appends
  <2> QED BY <1>9, <2>1, SendsOtherOrder DEF Side
<1>10. CASE sendReturnOk
  <2>1. PICK values \in SomeStructs(Returns("client")) :
          Returned(Frame("REMOTE_CALL_RETURN ok", WriteStruct(Returns("client"), values), values))
    BY <1>10 DEF sendReturnOk
  <2> DEFINE f == Frame("REMOTE_CALL_RETURN ok", WriteStruct(Returns("client"), values), values)
  <2>2. f.type \notin ValueFrame /\ f.type # "READ_NODE_VALUE_REQEUST"
    BY DEF Frame, ValueFrame
  <2> HIDE DEF f
  <2> QED BY <1>9, <2>1, <2>2 DEF f
<1>11. CASE sendReturnError
  <2>1. PICK code \in EnumValues :
          Returned(Frame("REMOTE_CALL_RETURN error", <<code % ByteSize>>, code))
    BY <1>11 DEF sendReturnError
  <2> DEFINE f == Frame("REMOTE_CALL_RETURN error", <<code % ByteSize>>, code)
  <2>2. f.type \notin ValueFrame /\ f.type # "READ_NODE_VALUE_REQEUST"
    BY DEF Frame, ValueFrame
  <2> HIDE DEF f
  <2> QED BY <1>9, <2>1, <2>2 DEF f
<1>12. CASE MasterGetsReturn
  BY <1>12, TakesOtherOrder DEF MasterGetsReturn, IsNext, ValueFrame, Side
<1>13. CASE MasterGetsError
  BY <1>13, TakesOtherOrder DEF MasterGetsError, IsNext, ValueFrame, Side
<1>14. CASE MasterTakesReturn \/ UNCHANGED vars
  <2>1. UNCHANGED <<version, value, receivedValueUpdate, unsent, seen, queue>>
    BY <1>14 DEF MasterTakesReturn, vars, nodeVars
  <2> QED BY <2>1, SameRights DEF OrderInv, OnlyReadersAsk, OneWriter
<1> QED BY <1>1, <1>2, <1>3, <1>4, <1>5, <1>6, <1>7, <1>8, <1>10, <1>11, <1>12,
           <1>13, <1>14 DEF Next

(* Only its application changes the writer's value.                        *)
LEMMA WriterStep ==
  ASSUME DataInv, OrderInv, [Next]_vars, NEW side \in Side, Reads(Other(side)),
         value'[side] # value[side]
  PROVE  unsent'[side] /\ queue' = queue
<1>1. ASSUME NEW s \in Side, Writes(s) PROVE unsent'[side] /\ queue' = queue
  <2>1. s = side
    BY <1>1 DEF Writes, DataInv, NodesOK
  <2> QED BY <1>1, <2>1 DEF Writes, DataInv, NodesOK
<1>2. ASSUME NEW s \in Side, GetsValue(s) PROVE FALSE
  <2>1. s # side
    BY <1>2, GetsValueOrder
  <2>2. value' = [value EXCEPT ![s] = Head(queue[s]).of]
    BY <1>2, GetsValueData
  <2> QED BY <2>1, <2>2 DEF DataInv, NodesOK
<1>3. value' # value
  OBVIOUS
<1>4. ~ UNCHANGED vars /\ ~ sendReadValueReq /\ ~ ClientAnswers
  BY <1>3 DEF vars, nodeVars, sendReadValueReq, ClientAnswers
<1>5. /\ ~ sendCall /\ ~ ClientGetsCall
      /\ ~ MasterGetsReturn /\ ~ MasterGetsError /\ ~ MasterTakesReturn
  BY <1>3 DEF nodeVars, sendCall, ClientGetsCall, MasterGetsReturn, MasterGetsError,
              MasterTakesReturn
<1>6. ~ sendReturnOk /\ ~ sendReturnError
  BY <1>3 DEF nodeVars, sendReturnOk, sendReturnError, Returned
<1>7. \A s \in Side : ~ sendValue(s) /\ ~ TakesUpdate(s)
  BY <1>3 DEF sendValue, SendsOwnValue, TakesUpdate
<1> QED BY <1>1, <1>2, <1>4, <1>5, <1>6, <1>7 DEF Next

(* In any programs of clean files whose applications keep to their rights, *)
(* the reader gets the writer's values in the order they were sent.        *)
THEOREM ValuesInOrder ==
  ASSUME CleanFiles, ~ BeyondRights
  PROVE  Spec => []OrderInv
<1>1. Init => OrderInv
  BY OrderInit
<1>2. DataInv /\ OrderInv /\ [Next]_vars => OrderInv'
  BY OrderStep
<1>3. Spec => []DataInv
  BY TypedData
<1> QED BY <1>1, <1>2, <1>3, PTL DEF Spec

(* So a reader whose writer has nothing unsent or on its way has its value, *)
(* and its application, going by receivedValueUpdate, has read it or will. *)
THEOREM UpdatesAreSeen ==
  ASSUME CleanFiles, ~ BeyondRights
  PROVE  Spec => []UpdatesSeen
<1>1. DataInv /\ OrderInv => UpdatesSeen
  <2> SUFFICES ASSUME DataInv, OrderInv, NEW side \in Side,
                      Reads(side), ~ unsent[Other(side)], NoValueOnItsWay(side)
               PROVE  /\ value[side] = value[Other(side)]
                      /\ receivedValueUpdate[side] \/ seen[side] = value[side]
    BY DEF UpdatesSeen, Reads
  <2>1. queue[side] \in Seq(GenuineFrames)
    BY QueuesAreFrames
  <2>2. NoValueIn(queue[side])
    BY <2>1 DEF NoValueIn, NoValueOnItsWay, ValueFrame
  <2> QED BY <2>2 DEF OrderInv, OneWriter
<1> QED BY <1>1, TypedData, ValuesInOrder, PTL

(* And what one side alone may write changes there only by its application. *)
THEOREM WriterKeeps ==
  ASSUME CleanFiles, ~ BeyondRights
  PROVE  Spec => WriterKeepsValue
<1>1. DataInv /\ OrderInv /\ [Next]_vars =>
        [\A side \in Side :
           (version.access = (IF side = "master" THEN "w" ELSE "r")
              /\ value'[side] # value[side]) => (unsent'[side] /\ queue' = queue)]_vars
  BY WriterStep, AccessRights DEF DataInv
<1> QED BY <1>1, TypedData, ValuesInOrder, PTL DEF Spec, WriterKeepsValue
=============================================================================
