-------------------------- MODULE CodeGenerator_proofs --------------------------
(***************************************************************************)
(* The numbers of nodes and calls: that the generated tables lead from     *)
(* each number to what it was given to, for any number of nodes that a     *)
(* byte can hold, and what the look-up does with others.  And the tool     *)
(* that generates them: for object trees of any depth, any edits and       *)
(* programs generated at any time, the tables of each program are          *)
(* complete, and two programs mean the same by a number as long as the     *)
(* author only appends.                                                    *)
(***************************************************************************)
EXTENDS CodeGenerator, FiniteSetTheorems, SequenceTheorems, WellFoundedInduction, TLAPS

-----------------------------------------------------------------------------
(* Numbers and tables.                                                     *)

(* Names without repetition: the compiler refuses two nodes of one path,   *)
(* the tool two calls of one name.                                         *)
Distinct(names) == \A i, j \in 1 .. Len(names) : names[i] = names[j] => i = j

ByName(names) == IdsByName(Numbered(names))

(* The map from names has the names, and each has its place, from 0.       *)
LEMMA NumbersInOrder ==
  ASSUME NEW S, NEW names \in Seq(S), Distinct(names)
  PROVE  /\ DOMAIN ByName(names) = {names[i] : i \in 1 .. Len(names)}
         /\ \A i \in 1 .. Len(names) : ByName(names)[names[i]] = i - 1
<1> DEFINE numbered == Numbered(names)
<1>1. Len(names) \in Nat
  OBVIOUS
<1>2. DOMAIN numbered = 0 .. Len(names) - 1
  BY DEF Numbered
<1>3. \A k \in 0 .. Len(names) - 1 : k + 1 \in 1 .. Len(names) /\ numbered[k] = names[k + 1]
  BY <1>1 DEF Numbered
<1>4. \A i \in 1 .. Len(names) : i - 1 \in 0 .. Len(names) - 1 /\ numbered[i - 1] = names[i]
  BY <1>1, <1>3
<1>5. {numbered[k] : k \in DOMAIN numbered} = {names[i] : i \in 1 .. Len(names)}
  <2>1. {numbered[k] : k \in DOMAIN numbered} \subseteq {names[i] : i \in 1 .. Len(names)}
    BY <1>2, <1>3
  <2>2. {names[i] : i \in 1 .. Len(names)} \subseteq {numbered[k] : k \in DOMAIN numbered}
    BY <1>2, <1>4
  <2> QED BY <2>1, <2>2
<1>6. DOMAIN ByName(names) = {names[i] : i \in 1 .. Len(names)}
  BY <1>5 DEF ByName, IdsByName
<1>7. ASSUME NEW i \in 1 .. Len(names)
      PROVE  ByName(names)[names[i]] = i - 1
  <2> DEFINE LastWith(k) == /\ numbered[k] = names[i]
                            /\ \A j \in DOMAIN numbered : numbered[j] = names[i] => j <= k
  <2>1. \A k \in DOMAIN numbered : numbered[k] = names[i] => k = i - 1
    BY <1>1, <1>2, <1>3 DEF Distinct
  <2>2. i - 1 \in DOMAIN numbered /\ LastWith(i - 1)
    BY <1>1, <1>2, <1>4, <2>1
  <2>3. (CHOOSE k \in DOMAIN numbered : LastWith(k)) = i - 1
    <3>1. \A k \in DOMAIN numbered : LastWith(k) => k = i - 1
      BY <2>1
    <3> HIDE DEF LastWith, numbered
    <3> QED BY <2>2, <3>1
  <2>4. names[i] \in {numbered[k] : k \in DOMAIN numbered}
    BY <1>5
  <2>5. ByName(names)[names[i]] = CHOOSE k \in DOMAIN numbered : LastWith(k)
    BY <2>4 DEF ByName, IdsByName
  <2> QED BY <2>3, <2>5
<1> QED BY <1>6, <1>7

(* There are as many entries as names. *)
LEMMA AsManyAsNames ==
  ASSUME NEW S, NEW names \in Seq(S), Distinct(names)
  PROVE  Cardinality(DOMAIN ByName(names)) = Len(names)
<1> DEFINE T == {names[i] : i \in 1 .. Len(names)}
<1>1. Len(names) \in Nat /\ names \in [1 .. Len(names) -> S]
  OBVIOUS
<1>2. names \in [1 .. Len(names) -> T]
  BY <1>1
<1>3. names \in Bijection(1 .. Len(names), T)
  BY <1>2 DEF Bijection, Injection, Surjection, IsInjective, Distinct
<1>4. ExistsBijection(1 .. Len(names), T)
  BY <1>3 DEF ExistsBijection
<1>5. Cardinality(T) = Len(names)
  BY <1>1, <1>4, FS_CountingElements
<1> QED BY <1>5, NumbersInOrder

(* The table lists the names in the order of the visit. *)
LEMMA TableInOrder ==
  ASSUME NEW S, NEW names \in Seq(S), Distinct(names)
  PROVE  /\ DOMAIN Table(ByName(names)) = 0 .. Len(names) - 1
         /\ \A i \in 1 .. Len(names) : Table(ByName(names))[i - 1] = names[i]
<1> DEFINE byName == ByName(names)
<1>1. Len(names) \in Nat
  OBVIOUS
<1>2. DOMAIN Table(byName) = 0 .. Len(names) - 1
  BY AsManyAsNames DEF Table
<1>3. ASSUME NEW i \in 1 .. Len(names)
      PROVE  Table(byName)[i - 1] = names[i]
  <2>1. i - 1 \in 0 .. Len(names) - 1
    BY <1>1
  <2>2. Table(byName)[i - 1] = EntryWithId(byName, i - 1)
    BY <1>2, <2>1 DEF Table
  <2>3. names[i] \in DOMAIN byName /\ byName[names[i]] = i - 1
    BY NumbersInOrder
  <2>4. \A name \in DOMAIN byName : byName[name] = i - 1 => name = names[i]
    <3> SUFFICES ASSUME NEW name \in DOMAIN byName, byName[name] = i - 1
                 PROVE  name = names[i]
      OBVIOUS
    <3>1. PICK j \in 1 .. Len(names) : name = names[j]
      <4>1. name \in {names[k] : k \in 1 .. Len(names)}
        BY NumbersInOrder, Zenon
      <4> QED BY <4>1
    <3>2. j - 1 = i - 1
      BY <3>1, NumbersInOrder
    <3> QED BY <1>1, <3>1, <3>2
  <2>5. NamesWithId(byName, i - 1) # {}
    BY <2>3 DEF NamesWithId
  <2>6. (CHOOSE name \in DOMAIN byName : byName[name] = i - 1) = names[i]
    <3> HIDE DEF byName
    <3> QED BY <2>3, <2>4
  <2> QED BY <2>2, <2>5, <2>6 DEF EntryWithId
<1> QED BY <1>2, <1>3

(* The size of the table, kept in a byte, is the number of names. *)
LEMMA SizeIsNumberOfNames ==
  ASSUME NEW S, NEW names \in Seq(S), Distinct(names), Len(names) < ByteSize
  PROVE  TableSize(Table(ByName(names))) = Len(names)
<1>1. Len(names) \in Nat
  OBVIOUS
<1>2. Cardinality(0 .. Len(names) - 1) = Len(names)
  <2>1. 0 \in Int /\ Len(names) - 1 \in Int
    BY <1>1
  <2>2. Cardinality(0 .. Len(names) - 1)
          = IF 0 > Len(names) - 1 THEN 0 ELSE Len(names) - 1 - 0 + 1
    BY <2>1, FS_Interval, Zenon
  <2> QED BY <1>1, <2>2
<1>3. DOMAIN Table(ByName(names)) = 0 .. Len(names) - 1
  BY TableInOrder
<1>4. Len(names) % ByteSize = Len(names)
  BY <1>1, ByteAssumption
<1> QED BY <1>2, <1>3, <1>4 DEF TableSize

(* ProtocolDef.h:35: a device that looks up the number which the generated *)
(* code gives a node finds that node.                                      *)
THEOREM NodeIsFound ==
  ASSUME NEW S, NEW names \in Seq(S), Distinct(names), Len(names) < ByteSize,
         NEW i \in 1 .. Len(names)
  PROVE  LookUp(Table(ByName(names)), ByName(names)[names[i]]) = names[i]
<1>1. Len(names) \in Nat /\ i - 1 \in 0 .. Len(names) - 1 /\ ~ (i - 1 > Len(names))
  OBVIOUS
<1>2. ByName(names)[names[i]] = i - 1
  BY NumbersInOrder
<1>3. TableSize(Table(ByName(names))) = Len(names)
  BY SizeIsNumberOfNames
<1>4. /\ i - 1 \in DOMAIN Table(ByName(names))
      /\ Table(ByName(names))[i - 1] = names[i]
  BY <1>1, TableInOrder
<1> QED BY <1>1, <1>2, <1>3, <1>4 DEF LookUp

(* SOTMaster.h:230, SOTClient.h:172: of all numbers that no node has, the  *)
(* look-up lets through exactly the first.                                 *)
THEOREM OnlyTheFirstUnknownPasses ==
  ASSUME NEW S, NEW names \in Seq(S), Distinct(names), Len(names) < ByteSize,
         NEW id \in Nat, id >= Len(names)
  PROVE  LookUp(Table(ByName(names)), id) =
           IF id = Len(names) THEN BehindTable ELSE NotFound
<1>1. Len(names) \in Nat /\ id \notin 0 .. Len(names) - 1
  OBVIOUS
<1>2. id > Len(names) <=> id # Len(names)
  BY <1>1
<1>3. TableSize(Table(ByName(names))) = Len(names)
  BY SizeIsNumberOfNames
<1>4. id \notin DOMAIN Table(ByName(names))
  BY <1>1, TableInOrder
<1> QED BY <1>2, <1>3, <1>4 DEF LookUp

(* SOTCanCommunication.h:199-209: number and return bit come back from the *)
(* byte they share, for every number of a def file.                        *)
THEOREM CallByteKept ==
  ASSUME NEW id \in 0 .. CallLimit - 1, NEW returnOk \in BOOLEAN
  PROVE  /\ remoteCallPackIdAndReturn(id, returnOk) \in 0 .. ByteSize - 1
         /\ getRemoteCallIdFromPackage(remoteCallPackIdAndReturn(id, returnOk)) = id
         /\ getRemoteCallReturnOkFromPackage(remoteCallPackIdAndReturn(id, returnOk)) = returnOk
<1> DEFINE bit == IF returnOk THEN 1 ELSE 0
           byte == remoteCallPackIdAndReturn(id, returnOk)
<1>1. id \in Nat /\ id * 2 + 1 < ByteSize
  BY ByteAssumption DEF CallLimit
<1>2. (id * 2) % ByteSize = id * 2
  BY <1>1, ByteAssumption
<1>3. byte = id * 2 + bit
  BY <1>2 DEF remoteCallPackIdAndReturn
<1>4. bit \in 0 .. 1
  OBVIOUS
<1> HIDE DEF bit, byte
<1>5. byte \in 0 .. ByteSize - 1
  BY <1>1, <1>3, <1>4, ByteAssumption
<1>6. byte \div 2 = id
  BY <1>1, <1>3, <1>4
<1>7. byte % 2 = bit
  BY <1>1, <1>3, <1>4
<1>8. (byte % 2 = 1) = returnOk
  BY <1>7 DEF bit
<1> QED BY <1>5, <1>6, <1>8 DEF byte, getRemoteCallIdFromPackage, getRemoteCallReturnOkFromPackage
-----------------------------------------------------------------------------
(* Induction, over sets of natural numbers.                                *)

(* A set of natural numbers that is not empty has a least one.             *)
LEMMA LeastNatural ==
  ASSUME NEW T \in SUBSET Nat, T # {}
  PROVE  \E m \in T : \A k \in T : ~ (k < m)
<1>1. \E m \in T : \A k \in T : ~ (<<k, m>> \in OpToRel(<, Nat))
  BY WFMin, NatLessThanWellFounded, Zenon
<1> QED BY <1>1, Zenon DEF OpToRel

(* What has 0, and n + 1 with each n, has every natural number.            *)
LEMMA InductiveSet ==
  ASSUME NEW S, 0 \in S, \A n \in Nat : n \in S => n + 1 \in S
  PROVE  \A n \in Nat : n \in S
<1> DEFINE T == Nat \ S
<1>1. SUFFICES ASSUME T # {} PROVE FALSE
  OBVIOUS
<1>2. PICK m \in T : \A k \in T : ~ (k < m)
  BY <1>1, LeastNatural, Zenon
<1>3. m \in Nat /\ m # 0 /\ m \notin S
  BY <1>2
<1>4. m - 1 \in Nat /\ m - 1 < m /\ (m - 1) + 1 = m
  BY <1>3
<1>5. m - 1 \in S
  BY <1>2, <1>4
<1> QED BY <1>3, <1>4, <1>5, Zenon

-----------------------------------------------------------------------------
(* FlattenSeq, a recursive function: that there is one is an induction.    *)

(* There is a function of the concatenations up to a place.                *)
LEMMA FlattensExist ==
  ASSUME NEW s, NEW n \in Nat
  PROVE  \E f : f = [i \in 1 .. n |-> IF i = 1 THEN s[i] ELSE f[i - 1] \o s[i]]
<1> DEFINE Flat(f, k) ==
             f = [i \in 1 .. k |-> IF i = 1 THEN s[i] ELSE f[i - 1] \o s[i]]
           S == {k \in Nat : \E f : Flat(f, k)}
<1>1. 0 \in S
  <2>1. Flat([i \in 1 .. 0 |-> 0], 0)
    OBVIOUS
  <2> QED BY <2>1
<1>2. ASSUME NEW k \in Nat, k \in S
      PROVE  k + 1 \in S
  <2>1. PICK f : Flat(f, k)
    BY <1>2
  <2> DEFINE last == IF k = 0 THEN s[1] ELSE f[k] \o s[k + 1]
             g == [i \in 1 .. k + 1 |-> IF i <= k THEN f[i] ELSE last]
  <2>2. ASSUME NEW i \in 1 .. k + 1
        PROVE  g[i] = IF i = 1 THEN s[i] ELSE g[i - 1] \o s[i]
    <3>1. CASE i <= k
      <4>1. i \in 1 .. k /\ (i # 1 => i - 1 \in 1 .. k)
        BY <3>1
      <4>2. f[i] = IF i = 1 THEN s[i] ELSE f[i - 1] \o s[i]
        BY <4>1, <2>1
      <4>3. g[i] = f[i] /\ (i # 1 => g[i - 1] = f[i - 1])
        BY <4>1
      <4> QED BY <4>2, <4>3
    <3>2. CASE i = k + 1
      <4>1. g[i] = last /\ (k # 0 => g[k] = f[k] /\ i - 1 = k /\ i # 1) /\ (k = 0 => i = 1)
        BY <3>2
      <4> HIDE DEF g
      <4> QED BY <4>1, <3>2
    <3> QED BY <3>1, <3>2
  <2>3. Flat(g, k + 1)
    <3>1. g = [i \in 1 .. k + 1 |-> g[i]]
      OBVIOUS
    <3>2. \A i \in 1 .. k + 1 : g[i] = IF i = 1 THEN s[i] ELSE g[i - 1] \o s[i]
      BY <2>2, Zenon
    <3> HIDE DEF g
    <3> QED BY <3>1, <3>2
  <2>4. \E h : Flat(h, k + 1)
    <3> HIDE DEF g, Flat
    <3> QED BY <2>3, Zenon
  <2> HIDE DEF Flat
  <2> QED BY <2>4
<1>3. n \in S
  <2> HIDE DEF S
  <2> QED BY <1>1, <1>2, InductiveSet, Zenon
<1> QED BY <1>3

(* FlattenSeq as a fold: the concatenation of a sequence's beginnings.     *)
LEMMA FlattenSteps ==
  ASSUME NEW T, NEW s \in Seq(Seq(T))
  PROVE  \E F \in [0 .. Len(s) -> Seq(T)] :
           /\ F[0] = << >>
           /\ F[Len(s)] = FlattenSeq(s)
           /\ \A k \in 0 .. Len(s) - 1 : F[k + 1] = F[k] \o s[k + 1]
<1> DEFINE n == Len(s)
           Rule(f) == f = [i \in 1 .. n |-> IF i = 1 THEN s[i] ELSE f[i - 1] \o s[i]]
           flatten == CHOOSE f : Rule(f)
           F == [k \in 0 .. n |-> IF k = 0 THEN << >> ELSE flatten[k]]
<1>1. n \in Nat /\ \A i \in 1 .. n : s[i] \in Seq(T)
  BY ElementOfSeq
<1>2. Rule(flatten)
  <2>1. \E f : Rule(f)
    BY <1>1, FlattensExist
  <2> HIDE DEF Rule
  <2> QED BY <2>1, Zenon
<1>3. \A i \in 1 .. n : flatten[i] = IF i = 1 THEN s[i] ELSE flatten[i - 1] \o s[i]
  <2> HIDE DEF flatten
  <2> QED BY <1>2
<1>4. FlattenSeq(s) = IF n = 0 THEN s ELSE flatten[n]
  BY DEF FlattenSeq
<1> HIDE DEF flatten
<1>5. F[n] = FlattenSeq(s)
  BY <1>1, <1>4
<1>6. ASSUME NEW k \in 0 .. n - 1
      PROVE  F[k + 1] = F[k] \o s[k + 1]
  <2>1. k + 1 \in 1 .. n /\ F[k + 1] = flatten[k + 1]
    BY <1>1
  <2>2. CASE k = 0
    <3>1. F[1] = s[1] /\ F[0] = << >>
      BY <2>1, <2>2, <1>3
    <3>2. << >> \o s[1] = s[1]
      BY <2>1, <2>2, <1>1, ConcatEmptySeq
    <3> QED BY <3>1, <3>2, <2>2
  <2>3. CASE k # 0
    <3>1. flatten[k + 1] = flatten[(k + 1) - 1] \o s[k + 1]
      <4>1. k + 1 # 1
        BY <2>3, <1>1
      <4> HIDE DEF F
      <4> QED BY <4>1, <2>1, <1>3, Zenon
    <3>2. (k + 1) - 1 = k /\ F[k] = flatten[k]
      BY <2>3, <1>1
    <3> QED BY <3>1, <3>2, <2>1
  <2> QED BY <2>2, <2>3
<1>7. F[0] = << >>
  BY <1>1
<1>8. F \in [0 .. n -> Seq(T)]
  <2> DEFINE S == {k \in Nat : k <= n => F[k] \in Seq(T)}
  <2>1. 0 \in S
    BY <1>7
  <2>2. ASSUME NEW k \in Nat, k \in S PROVE k + 1 \in S
    <3>1. SUFFICES ASSUME k + 1 <= n PROVE F[k + 1] \in Seq(T)
      OBVIOUS
    <3>2. k \in 0 .. n - 1 /\ k + 1 \in 1 .. n /\ F[k] \in Seq(T)
      BY <3>1, <2>2, <1>1
    <3> HIDE DEF F
    <3>3. F[k] \o s[k + 1] \in Seq(T)
      BY <3>2, <1>1, ConcatProperties
    <3> QED BY <3>2, <3>3, <1>6
  <2>3. \A k \in Nat : k \in S
    <3> HIDE DEF S
    <3> QED BY <2>1, <2>2, InductiveSet, Zenon
  <2>4. ASSUME NEW k \in 0 .. n PROVE F[k] \in Seq(T)
    <3>1. k \in Nat /\ k <= n
      BY <1>1
    <3>2. k \in S
      BY <3>1, <2>3
    <3> HIDE DEF F
    <3> QED BY <3>1, <3>2
  <2>5. F = [k \in 0 .. n |-> F[k]]
    OBVIOUS
  <2> HIDE DEF F
  <2> QED BY <2>4, <2>5
<1> QED BY <1>5, <1>6, <1>7, <1>8

(* What two sequences have together at the beginning, their concatenations *)
(* have too.                                                               *)
LEMMA FlattenPrefix ==
  ASSUME NEW T, NEW s \in Seq(Seq(T)), NEW t \in Seq(Seq(T)),
         Len(s) <= Len(t), \A i \in 1 .. Len(s) : s[i] = t[i]
  PROVE  /\ FlattenSeq(s) \in Seq(T) /\ FlattenSeq(t) \in Seq(T)
         /\ Len(FlattenSeq(s)) <= Len(FlattenSeq(t))
         /\ \A x \in 1 .. Len(FlattenSeq(s)) : FlattenSeq(s)[x] = FlattenSeq(t)[x]
<1> DEFINE n == Len(s)
           m == Len(t)
<1>1. n \in Nat /\ m \in Nat /\ n <= m
  OBVIOUS
<1>2. PICK F \in [0 .. n -> Seq(T)] :
        /\ F[0] = << >> /\ F[n] = FlattenSeq(s)
        /\ \A k \in 0 .. n - 1 : F[k + 1] = F[k] \o s[k + 1]
  BY FlattenSteps
<1>3. PICK G \in [0 .. m -> Seq(T)] :
        /\ G[0] = << >> /\ G[m] = FlattenSeq(t)
        /\ \A k \in 0 .. m - 1 : G[k + 1] = G[k] \o t[k + 1]
  BY FlattenSteps
<1>4. F[n] = G[n]
  <2> DEFINE S == {k \in Nat : k <= n => F[k] = G[k]}
  <2>1. 0 \in S
    BY <1>2, <1>3
  <2>2. ASSUME NEW k \in Nat, k \in S PROVE k + 1 \in S
    <3>1. SUFFICES ASSUME k + 1 <= n PROVE F[k + 1] = G[k + 1]
      OBVIOUS
    <3>2. /\ k \in 0 .. n - 1 /\ k \in 0 .. m - 1 /\ k + 1 \in 1 .. n
          /\ F[k] = G[k]
      BY <3>1, <2>2, <1>1
    <3>3. s[k + 1] = t[k + 1]
      BY <3>2
    <3> QED BY <3>2, <3>3, <1>2, <1>3
  <2>3. n \in S
    <3> HIDE DEF S
    <3> QED BY <2>1, <2>2, <1>1, InductiveSet, Zenon
  <2> QED BY <2>3, <1>1
<1>5. \A i \in 1 .. m : t[i] \in Seq(T)
  BY ElementOfSeq
<1>6. /\ Len(G[n]) <= Len(G[m])
      /\ \A x \in 1 .. Len(G[n]) : G[n][x] = G[m][x]
  <2> DEFINE Begins(k) == /\ Len(G[n]) <= Len(G[k])
                          /\ \A x \in 1 .. Len(G[n]) : G[n][x] = G[k][x]
             S == {d \in Nat : n + d <= m => Begins(n + d)}
  <2>1. 0 \in S
    <3>1. n + 0 = n /\ n \in 0 .. m /\ G[n] \in Seq(T)
      BY <1>1
    <3>2. Len(G[n]) \in Nat
      BY <3>1
    <3> QED BY <3>1, <3>2
  <2>2. ASSUME NEW d \in Nat, d \in S PROVE d + 1 \in S
    <3>1. SUFFICES ASSUME n + (d + 1) <= m PROVE Begins(n + (d + 1))
      OBVIOUS
    <3> DEFINE k == n + d
    <3>2. k \in 0 .. m - 1 /\ k \in 0 .. m /\ k + 1 \in 1 .. m /\ n \in 0 .. m /\ n + (d + 1) = k + 1
      BY <3>1, <1>1
    <3>3. Begins(k)
      BY <3>1, <3>2, <2>2
    <3> HIDE DEF k
    <3>4. G[k + 1] = G[k] \o t[k + 1] /\ G[k] \in Seq(T) /\ t[k + 1] \in Seq(T) /\ G[n] \in Seq(T)
      BY <3>2, <1>3, <1>5
    <3> DEFINE a == G[k]
               b == t[k + 1]
               c == G[n]
    <3>5. /\ Len(a \o b) = Len(a) + Len(b) /\ Len(a) \in Nat /\ Len(b) \in Nat /\ Len(c) \in Nat
          /\ \A x \in 1 .. Len(a) + Len(b) :
               (a \o b)[x] = IF x <= Len(a) THEN a[x] ELSE b[x - Len(a)]
      <4>1. a \in Seq(T) /\ b \in Seq(T) /\ c \in Seq(T)
        BY <3>4
      <4> HIDE DEF a, b, c
      <4> QED BY <4>1, ConcatProperties, LenProperties
    <3>6. Len(c) <= Len(a) /\ \A x \in 1 .. Len(c) : c[x] = a[x]
      BY <3>3
    <3> HIDE DEF a, b, c
    <3>7. /\ Len(c) <= Len(a \o b)
          /\ \A x \in 1 .. Len(c) : c[x] = (a \o b)[x]
      BY <3>5, <3>6
    <3>8. Begins(k + 1)
      BY <3>7, <3>4 DEF a, b, c
    <3> QED BY <3>2, <3>8
  <2>3. m - n \in S
    <3>1. m - n \in Nat
      BY <1>1
    <3> HIDE DEF S
    <3> QED BY <2>1, <2>2, <3>1, InductiveSet, Zenon
  <2>4. n + (m - n) = m /\ m <= m
    BY <1>1
  <2>5. Begins(n + (m - n))
    BY <2>3, <2>4
  <2> HIDE DEF Begins
  <2>6. Begins(m)
    BY <2>4, <2>5
  <2> QED BY <2>6 DEF Begins
<1>7. F[n] \in Seq(T) /\ G[m] \in Seq(T)
  <2>1. n \in 0 .. n /\ m \in 0 .. m
    BY <1>1
  <2> HIDE DEF n, m
  <2> QED BY <2>1, <1>2, <1>3
<1> HIDE DEF n, m
<1> QED BY <1>2, <1>3, <1>4, <1>6, <1>7

(* Every element comes from one of the sequences; it comes once if none is *)
(* twice in a sequence or in two of them.                                  *)
LEMMA FlattenDistinct ==
  ASSUME NEW T, NEW s \in Seq(Seq(T)),
         \A i \in 1 .. Len(s) : Distinct(s[i]),
         \A i, j \in 1 .. Len(s) : \A x \in 1 .. Len(s[i]) : \A y \in 1 .. Len(s[j]) :
           s[i][x] = s[j][y] => i = j
  PROVE  Distinct(FlattenSeq(s))
<1> DEFINE n == Len(s)
           From(a, k) == \A x \in 1 .. Len(a) : \E i \in 1 .. k : \E y \in 1 .. Len(s[i]) :
                           a[x] = s[i][y]
<1>1. n \in Nat /\ \A i \in 1 .. n : s[i] \in Seq(T)
  BY ElementOfSeq
<1>2. PICK F \in [0 .. n -> Seq(T)] :
        /\ F[0] = << >> /\ F[n] = FlattenSeq(s)
        /\ \A k \in 0 .. n - 1 : F[k + 1] = F[k] \o s[k + 1]
  <2> HIDE DEF n
  <2>1. \E F \in [0 .. Len(s) -> Seq(T)] :
          /\ F[0] = << >>
          /\ F[Len(s)] = FlattenSeq(s)
          /\ \A k \in 0 .. Len(s) - 1 : F[k + 1] = F[k] \o s[k + 1]
    BY FlattenSteps, ZenonT(60)
  <2> QED BY <2>1, Zenon DEF n
<1> DEFINE S == {k \in Nat : k <= n => Distinct(F[k]) /\ From(F[k], k)}
<1>3. 0 \in S
  <2>1. Len(F[0]) = 0
    BY <1>2
  <2> QED BY <2>1 DEF Distinct
<1>4. ASSUME NEW k \in Nat, k \in S PROVE k + 1 \in S
  <2>1. SUFFICES ASSUME k + 1 <= n PROVE Distinct(F[k + 1]) /\ From(F[k + 1], k + 1)
    OBVIOUS
  <2> DEFINE a == F[k]
             b == s[k + 1]
             c == F[k + 1]
  <2>2. k \in 0 .. n - 1 /\ k \in 0 .. n /\ k + 1 \in 1 .. n /\ k + 1 \in 1 .. k + 1
        /\ \A i \in 1 .. k : i \in 1 .. n /\ i \in 1 .. k + 1 /\ i # k + 1
    BY <2>1, <1>1
  <2>3. a \in Seq(T) /\ b \in Seq(T) /\ c = a \o b
    BY <2>2, <1>1, <1>2
  <2>4. Distinct(a) /\ From(a, k) /\ Distinct(b)
    BY <1>4, <2>1, <2>2
  <2> HIDE DEF a, c
  <2>5. /\ Len(c) = Len(a) + Len(b) /\ Len(a) \in Nat /\ Len(b) \in Nat
        /\ \A x \in 1 .. Len(a) + Len(b) : c[x] = IF x <= Len(a) THEN a[x] ELSE b[x - Len(a)]
    <3> HIDE DEF b
    <3> QED BY <2>3, ConcatProperties, LenProperties
  <2>6. \A x \in 1 .. Len(a) : \A y \in 1 .. Len(b) : a[x] # b[y]
    <3> SUFFICES ASSUME NEW x \in 1 .. Len(a), NEW y \in 1 .. Len(b), a[x] = b[y]
                 PROVE  FALSE
      OBVIOUS
    <3>1. PICK i \in 1 .. k : \E z \in 1 .. Len(s[i]) : a[x] = s[i][z]
      BY <2>4
    <3>2. PICK z \in 1 .. Len(s[i]) : a[x] = s[i][z]
      BY <3>1
    <3>3. i \in 1 .. n /\ k + 1 \in 1 .. n /\ s[i][z] = s[k + 1][y]
      BY <3>2, <2>2
    <3>4. i = k + 1
      BY <3>3
    <3> QED BY <3>4, <2>2
  <2>7. From(c, k + 1)
    <3> SUFFICES ASSUME NEW x \in 1 .. Len(c)
                 PROVE  \E i \in 1 .. k + 1 : \E y \in 1 .. Len(s[i]) : c[x] = s[i][y]
      OBVIOUS
    <3>1. CASE x <= Len(a)
      <4>1. x \in 1 .. Len(a) /\ c[x] = a[x]
        BY <3>1, <2>5
      <4>2. PICK i \in 1 .. k : \E y \in 1 .. Len(s[i]) : a[x] = s[i][y]
        BY <4>1, <2>4
      <4> QED BY <4>1, <4>2, <2>2
    <3>2. CASE ~ (x <= Len(a))
      <4>1. x - Len(a) \in 1 .. Len(b) /\ c[x] = b[x - Len(a)]
        BY <3>2, <2>5
      <4> QED BY <4>1, <2>2, Zenon DEF b
    <3> QED BY <3>1, <3>2
  <2>8. Distinct(c)
    <3> SUFFICES ASSUME NEW x \in 1 .. Len(c), NEW y \in 1 .. Len(c), c[x] = c[y]
                 PROVE  x = y
      BY DEF Distinct
    <3> HIDE DEF b
    <3>1. CASE x <= Len(a) /\ y <= Len(a)
      <4>1. x \in 1 .. Len(a) /\ y \in 1 .. Len(a) /\ a[x] = a[y]
        BY <3>1, <2>5
      <4> QED BY <4>1, <2>4 DEF Distinct
    <3>2. CASE ~ (x <= Len(a)) /\ ~ (y <= Len(a))
      <4>1. /\ x - Len(a) \in 1 .. Len(b) /\ y - Len(a) \in 1 .. Len(b)
            /\ b[x - Len(a)] = b[y - Len(a)]
        BY <3>2, <2>5
      <4>2. x - Len(a) = y - Len(a)
        BY <4>1, <2>4 DEF Distinct
      <4> QED BY <4>2, <2>5
    <3>3. CASE x <= Len(a) /\ ~ (y <= Len(a))
      <4>1. x \in 1 .. Len(a) /\ y - Len(a) \in 1 .. Len(b) /\ a[x] = b[y - Len(a)]
        BY <3>3, <2>5
      <4> QED BY <4>1, <2>6
    <3>4. CASE ~ (x <= Len(a)) /\ y <= Len(a)
      <4>1. y \in 1 .. Len(a) /\ x - Len(a) \in 1 .. Len(b) /\ a[y] = b[x - Len(a)]
        BY <3>4, <2>5
      <4> QED BY <4>1, <2>6
    <3> QED BY <3>1, <3>2, <3>3, <3>4
  <2> QED BY <2>7, <2>8 DEF c
<1>5. n \in S
  <2> HIDE DEF S
  <2> QED BY <1>1, <1>3, <1>4, InductiveSet, Zenon
<1> HIDE DEF From
<1>6. n <= n => Distinct(F[n])
  BY <1>5
<1> QED BY <1>1, <1>2, <1>6

(* Sequences of one element each make up the sequence of the elements.     *)
LEMMA FlattenOneEach ==
  ASSUME NEW T, NEW t \in Seq(T)
  PROVE  FlattenSeq([i \in 1 .. Len(t) |-> <<t[i]>>]) = t
<1> DEFINE n == Len(t)
           s == [i \in 1 .. n |-> <<t[i]>>]
<1>1. n \in Nat /\ \A i \in 1 .. n : t[i] \in T /\ s[i] = <<t[i]>> /\ <<t[i]>> \in Seq(T)
  OBVIOUS
<1>2. s \in Seq(Seq(T)) /\ Len(s) = n
  <2>1. s \in [1 .. n -> Seq(T)]
    BY <1>1
  <2> QED BY <2>1, <1>1
<1> HIDE DEF s
<1>3. PICK F \in [0 .. n -> Seq(T)] :
        /\ F[0] = << >> /\ F[n] = FlattenSeq(s)
        /\ \A k \in 0 .. n - 1 : F[k + 1] = F[k] \o s[k + 1]
  <2> HIDE DEF n
  <2>1. \E F \in [0 .. Len(s) -> Seq(T)] :
          /\ F[0] = << >>
          /\ F[Len(s)] = FlattenSeq(s)
          /\ \A k \in 0 .. Len(s) - 1 : F[k + 1] = F[k] \o s[k + 1]
    BY <1>2, FlattenSteps, Zenon
  <2> QED BY <2>1, <1>2, Zenon
<1> DEFINE S == {k \in Nat : k <= n => Len(F[k]) = k /\ \A x \in 1 .. k : F[k][x] = t[x]}
<1>4. 0 \in S
  <2>1. Len(F[0]) = 0
    BY <1>3
  <2> QED BY <2>1
<1>5. ASSUME NEW k \in Nat, k \in S PROVE k + 1 \in S
  <2>1. SUFFICES ASSUME k + 1 <= n
                 PROVE  Len(F[k + 1]) = k + 1 /\ \A x \in 1 .. k + 1 : F[k + 1][x] = t[x]
    OBVIOUS
  <2> DEFINE a == F[k]
  <2>2. /\ k \in 0 .. n - 1 /\ k \in 0 .. n /\ k + 1 \in 1 .. n
    BY <2>1, <1>1
  <2>3. a \in Seq(T) /\ F[k + 1] = a \o <<t[k + 1]>> /\ <<t[k + 1]>> \in Seq(T)
    BY <2>2, <1>1, <1>3
  <2>4. Len(a) = k /\ \A x \in 1 .. k : a[x] = t[x]
    BY <1>5, <2>1
  <2> HIDE DEF a
  <2> DEFINE b == <<t[k + 1]>>
             c == a \o b
  <2>5. /\ Len(c) = Len(a) + Len(b) /\ Len(b) = 1 /\ b[1] = t[k + 1]
        /\ \A x \in 1 .. Len(a) + Len(b) : c[x] = IF x <= Len(a) THEN a[x] ELSE b[x - Len(a)]
    <3>1. b \in Seq(T) /\ Len(b) = 1 /\ b[1] = t[k + 1]
      BY <2>3
    <3> HIDE DEF b
    <3> QED BY <2>3, <3>1, ConcatProperties
  <2> HIDE DEF b, c
  <2>6. Len(c) = k + 1 /\ \A x \in 1 .. k + 1 : c[x] = t[x]
    BY <2>4, <2>5
  <2> QED BY <2>3, <2>6 DEF b, c
<1>6. n \in S
  <2> HIDE DEF S
  <2> QED BY <1>1, <1>4, <1>5, InductiveSet, Zenon
<1>7. FlattenSeq(s) \in Seq(T) /\ Len(FlattenSeq(s)) = n /\ \A x \in 1 .. n : FlattenSeq(s)[x] = t[x]
  <2>1. F[n] \in Seq(T)
    BY <1>1, <1>3
  <2> QED BY <2>1, <1>1, <1>3, <1>6
<1>8. FlattenSeq(s) = t
  BY <1>7, SeqEqual
<1> QED BY <1>8 DEF s

-----------------------------------------------------------------------------
(* Object trees.  What the visitor and the compiler do with the groups of a *)
(* tree are functions of the depth: that they exist is an induction.       *)

ValueNodes == [name : AnyName]
Groups(depth) == [name : AnyName, entries : Trees[depth - 1]]

(* The trees of each depth: value nodes, and groups of less depth.         *)
LEMMA TreesByDepth ==
  /\ Trees[0] = Seq(ValueNodes)
  /\ \A depth \in 1 .. MaxDepth : Trees[depth] = Seq(ValueNodes \cup Groups(depth))
<1> DEFINE Of(f, d) ==
             Seq([name : AnyName] \cup
                   IF d = 0 THEN {} ELSE [name : AnyName, entries : f[d - 1]])
           Rule(f, k) == f = [d \in 0 .. k |-> Of(f, d)]
           S == {k \in Nat : \E f : Rule(f, k)}
<1>1. 0 \in S
  <2>1. Rule([d \in 0 .. 0 |-> Seq([name : AnyName] \cup {})], 0)
    OBVIOUS
  <2> HIDE DEF Rule
  <2> QED BY <2>1
<1>2. ASSUME NEW k \in Nat, k \in S PROVE k + 1 \in S
  <2>1. PICK f : Rule(f, k)
    BY <1>2
  <2> DEFINE last == Of(f, k + 1)
             g == [d \in 0 .. k + 1 |-> IF d <= k THEN f[d] ELSE last]
  <2>2. ASSUME NEW d \in 0 .. k + 1 PROVE g[d] = Of(g, d)
    <3>1. d # 0 => d - 1 \in 0 .. k /\ g[d - 1] = f[d - 1]
      BY <1>2
    <3>2. Of(g, d) = Of(f, d)
      <4> HIDE DEF g
      <4> QED BY <3>1
    <3>3. CASE d <= k
      <4>1. d \in 0 .. k /\ g[d] = f[d]
        BY <3>3
      <4>2. f[d] = Of(f, d)
        <5> HIDE DEF Of
        <5> QED BY <4>1, <2>1
      <4> QED BY <3>2, <4>1, <4>2, Zenon
    <3>4. CASE d = k + 1
      <4>1. g[d] = last
        BY <3>4
      <4> QED BY <3>2, <3>4, <4>1, Zenon
    <3> QED BY <3>3, <3>4
  <2>3. Rule(g, k + 1)
    <3>1. g = [d \in 0 .. k + 1 |-> g[d]]
      OBVIOUS
    <3> HIDE DEF g, Of
    <3> QED BY <2>2, <3>1
  <2>4. \E h : Rule(h, k + 1)
    <3> HIDE DEF g, Rule
    <3> QED BY <2>3, Zenon
  <2> HIDE DEF Rule
  <2> QED BY <2>4
<1>3. MaxDepth \in S
  <2> HIDE DEF S
  <2> QED BY <1>1, <1>2, TreeAssumption, InductiveSet, Zenon
<1>4. Rule(Trees, MaxDepth)
  <2>1. \E f : Rule(f, MaxDepth)
    BY <1>3
  <2>2. Trees = CHOOSE f : Rule(f, MaxDepth)
    BY DEF Trees
  <2> HIDE DEF Rule
  <2> QED BY <2>1, <2>2, Zenon
<1>5. \A d \in 0 .. MaxDepth : Trees[d] = Of(Trees, d)
  <2> HIDE DEF Of
  <2> QED BY <1>4
<1>6. 0 \in 0 .. MaxDepth /\ \A d \in 1 .. MaxDepth : d \in 0 .. MaxDepth /\ d # 0
  BY TreeAssumption
<1>7. [name : AnyName] \cup {} = [name : AnyName]
  OBVIOUS
<1> QED BY <1>5, <1>6, <1>7 DEF ValueNodes, Groups

(* What the entries of a tree are.                                         *)
LEMMA EntriesOfTree ==
  ASSUME NEW depth \in 0 .. MaxDepth, NEW entries \in Trees[depth]
  PROVE  /\ Len(entries) \in Nat /\ DOMAIN entries = 1 .. Len(entries)
         /\ \A i \in 1 .. Len(entries) :
              /\ entries[i].name \in AnyName
              /\ IsGroup(entries[i]) => /\ depth \in 1 .. MaxDepth
                                        /\ entries[i].entries \in Trees[depth - 1]
<1>1. CASE depth = 0
  <2>1. entries \in Seq(ValueNodes)
    BY <1>1, TreesByDepth
  <2>2. \A i \in 1 .. Len(entries) : entries[i] \in ValueNodes
    BY <2>1
  <2> QED BY <2>1, <2>2 DEF ValueNodes, IsGroup
<1>2. CASE depth # 0
  <2>1. depth \in 1 .. MaxDepth
    BY <1>2, TreeAssumption
  <2>2. entries \in Seq(ValueNodes \cup Groups(depth))
    BY <2>1, TreesByDepth
  <2>3. \A i \in 1 .. Len(entries) : entries[i] \in ValueNodes \cup Groups(depth)
    BY <2>2
  <2> QED BY <2>1, <2>2, <2>3 DEF ValueNodes, Groups, IsGroup
<1> QED BY <1>1, <1>2

(* Where there are no groups, nothing is asked about them.                 *)
LEMMA NoGroups ==
  ASSUME 0 \in 0 .. MaxDepth, NEW entries \in Trees[0], NEW f, NEW g
  PROVE  /\ VisitedEach(f, entries) = VisitedEach(g, entries)
         /\ NamesDistinct(f, entries) = NamesDistinct(g, entries)
<1>1. \A i \in DOMAIN entries : ~ IsGroup(entries[i])
  BY EntriesOfTree
<1>2. [i \in DOMAIN entries |->
         IF IsGroup(entries[i]) THEN Below(entries[i].name, f[entries[i].entries])
         ELSE <<<<entries[i].name>>>>]
      = [i \in DOMAIN entries |->
         IF IsGroup(entries[i]) THEN Below(entries[i].name, g[entries[i].entries])
         ELSE <<<<entries[i].name>>>>]
  BY <1>1
<1> QED BY <1>1, <1>2, Zenon DEF VisitedEach, NamesDistinct

(* Both functions are what their definitions say.                          *)
LEMMA VisitedByDepth ==
  ASSUME NEW depth \in 0 .. MaxDepth, NEW entries \in Trees[depth]
  PROVE  VisitedTo[depth][entries] = VisitedEach(VisitedTo[depth - 1], entries)
<1> DEFINE Of(f, d) == [t \in Trees[d] |-> VisitedEach(f[d - 1], t)]
           Rule(f, k) == f = [d \in 0 .. k |-> Of(f, d)]
           S == {k \in Nat : \E f : Rule(f, k)}
<1>1. MaxDepth \in Nat /\ 0 \in 0 .. MaxDepth
  BY TreeAssumption
<1>2. \A f, g : Of(f, 0) = Of(g, 0)
  BY <1>1, NoGroups
<1> HIDE DEF Of
<1>3. 0 \in S
  <2> DEFINE g == [d \in 0 .. 0 |-> Of(0, 0)]
  <2>1. Of(g, 0) = Of(0, 0)
    BY <1>2, Zenon
  <2>2. Rule(g, 0)
    <3>1. \A d \in 0 .. 0 : d = 0
      OBVIOUS
    <3>2. \A d \in 0 .. 0 : Of(0, 0) = Of(g, d)
      <4> HIDE DEF g
      <4> QED BY <3>1, <2>1, Zenon
    <3>3. [d \in 0 .. 0 |-> Of(0, 0)] = [d \in 0 .. 0 |-> Of(g, d)]
      <4> HIDE DEF g
      <4> QED BY <3>2
    <3> QED BY <3>3, Zenon DEF g
  <2> HIDE DEF Rule
  <2> QED BY <2>2
<1>4. ASSUME NEW k \in Nat, k \in S PROVE k + 1 \in S
  <2>1. PICK f : Rule(f, k)
    BY <1>4
  <2> DEFINE last == Of(f, k + 1)
             g == [d \in 0 .. k + 1 |-> IF d <= k THEN f[d] ELSE last]
  <2>2. ASSUME NEW d \in 0 .. k + 1 PROVE g[d] = Of(g, d)
    <3>1. Of(g, d) = Of(f, d)
      <4>1. CASE d = 0
        BY <4>1, <1>2, Zenon
      <4>2. CASE d # 0
        <5>1. d - 1 \in 0 .. k /\ g[d - 1] = f[d - 1]
          BY <4>2
        <5> HIDE DEF g
        <5> QED BY <5>1, Zenon DEF Of
      <4> QED BY <4>1, <4>2
    <3>2. CASE d <= k
      <4>1. d \in 0 .. k /\ g[d] = f[d]
        BY <3>2
      <4>2. f[d] = Of(f, d)
        BY <4>1, <2>1
      <4> QED BY <3>1, <4>1, <4>2, Zenon
    <3>3. CASE d = k + 1
      <4>1. g[d] = last
        BY <3>3
      <4> QED BY <3>1, <3>3, <4>1, Zenon
    <3> QED BY <3>2, <3>3
  <2>3. Rule(g, k + 1)
    <3>1. g = [d \in 0 .. k + 1 |-> g[d]]
      OBVIOUS
    <3> HIDE DEF g
    <3> QED BY <2>2, <3>1
  <2>4. \E h : Rule(h, k + 1)
    <3> HIDE DEF g, Rule
    <3> QED BY <2>3, Zenon
  <2> HIDE DEF Rule
  <2> QED BY <2>4
<1>5. MaxDepth \in S
  <2> HIDE DEF S
  <2> QED BY <1>1, <1>3, <1>4, InductiveSet, Zenon
<1>6. Rule(VisitedTo, MaxDepth)
  <2>1. \E f : Rule(f, MaxDepth)
    BY <1>5
  <2>2. VisitedTo = CHOOSE f : Rule(f, MaxDepth)
    BY DEF VisitedTo, Of
  <2> HIDE DEF Rule
  <2> QED BY <2>1, <2>2, Zenon
<1>7. VisitedTo[depth] = Of(VisitedTo, depth)
  BY <1>6
<1> QED BY <1>7 DEF Of

(* The same for the names.                                                *)
LEMMA DistinctByDepth ==
  ASSUME NEW depth \in 0 .. MaxDepth, NEW entries \in Trees[depth]
  PROVE  DistinctTo[depth][entries] = NamesDistinct(DistinctTo[depth - 1], entries)
<1> DEFINE Of(f, d) == [t \in Trees[d] |-> NamesDistinct(f[d - 1], t)]
           Rule(f, k) == f = [d \in 0 .. k |-> Of(f, d)]
           S == {k \in Nat : \E f : Rule(f, k)}
<1>1. MaxDepth \in Nat /\ 0 \in 0 .. MaxDepth
  BY TreeAssumption
<1>2. \A f, g : Of(f, 0) = Of(g, 0)
  BY <1>1, NoGroups
<1> HIDE DEF Of
<1>3. 0 \in S
  <2> DEFINE g == [d \in 0 .. 0 |-> Of(0, 0)]
  <2>1. Of(g, 0) = Of(0, 0)
    BY <1>2, Zenon
  <2>2. Rule(g, 0)
    <3>1. \A d \in 0 .. 0 : d = 0
      OBVIOUS
    <3>2. \A d \in 0 .. 0 : Of(0, 0) = Of(g, d)
      <4> HIDE DEF g
      <4> QED BY <3>1, <2>1, Zenon
    <3>3. [d \in 0 .. 0 |-> Of(0, 0)] = [d \in 0 .. 0 |-> Of(g, d)]
      <4> HIDE DEF g
      <4> QED BY <3>2
    <3> QED BY <3>3, Zenon DEF g
  <2> HIDE DEF Rule
  <2> QED BY <2>2
<1>4. ASSUME NEW k \in Nat, k \in S PROVE k + 1 \in S
  <2>1. PICK f : Rule(f, k)
    BY <1>4
  <2> DEFINE last == Of(f, k + 1)
             g == [d \in 0 .. k + 1 |-> IF d <= k THEN f[d] ELSE last]
  <2>2. ASSUME NEW d \in 0 .. k + 1 PROVE g[d] = Of(g, d)
    <3>1. Of(g, d) = Of(f, d)
      <4>1. CASE d = 0
        BY <4>1, <1>2, Zenon
      <4>2. CASE d # 0
        <5>1. d - 1 \in 0 .. k /\ g[d - 1] = f[d - 1]
          BY <4>2
        <5> HIDE DEF g
        <5> QED BY <5>1, Zenon DEF Of
      <4> QED BY <4>1, <4>2
    <3>2. CASE d <= k
      <4>1. d \in 0 .. k /\ g[d] = f[d]
        BY <3>2
      <4>2. f[d] = Of(f, d)
        BY <4>1, <2>1
      <4> QED BY <3>1, <4>1, <4>2, Zenon
    <3>3. CASE d = k + 1
      <4>1. g[d] = last
        BY <3>3
      <4> QED BY <3>1, <3>3, <4>1, Zenon
    <3> QED BY <3>2, <3>3
  <2>3. Rule(g, k + 1)
    <3>1. g = [d \in 0 .. k + 1 |-> g[d]]
      OBVIOUS
    <3> HIDE DEF g
    <3> QED BY <2>2, <3>1
  <2>4. \E h : Rule(h, k + 1)
    <3> HIDE DEF g, Rule
    <3> QED BY <2>3, Zenon
  <2> HIDE DEF Rule
  <2> QED BY <2>4
<1>5. MaxDepth \in S
  <2> HIDE DEF S
  <2> QED BY <1>1, <1>3, <1>4, InductiveSet, Zenon
<1>6. Rule(DistinctTo, MaxDepth)
  <2>1. \E f : Rule(f, MaxDepth)
    BY <1>5
  <2>2. DistinctTo = CHOOSE f : Rule(f, MaxDepth)
    BY DEF DistinctTo, Of
  <2> HIDE DEF Rule
  <2> QED BY <2>1, <2>2, Zenon
<1>7. DistinctTo[depth] = Of(DistinctTo, depth)
  BY <1>6
<1> QED BY <1>7 DEF Of

-----------------------------------------------------------------------------
(* The paths of the value nodes.                                           *)

Path == Seq(AnyName)

(* The paths of a group's nodes begin with its name, and differ as before. *)
LEMMA PathsBelow ==
  ASSUME NEW name \in AnyName, NEW paths \in Seq(Path)
  PROVE  /\ Below(name, paths) \in Seq(Path)
         /\ Len(Below(name, paths)) = Len(paths)
         /\ \A x \in 1 .. Len(paths) : Below(name, paths)[x][1] = name
         /\ Distinct(paths) => Distinct(Below(name, paths))
<1> DEFINE n == Len(paths)
           below == Below(name, paths)
<1>1. n \in Nat /\ DOMAIN paths = 1 .. n /\ \A x \in 1 .. n : paths[x] \in Path
  BY ElementOfSeq
<1>2. <<name>> \in Path /\ Len(<<name>>) = 1 /\ <<name>>[1] = name
  <2>1. \A S : \A e \in S : <<e>> \in Seq(S) /\ Len(<<e>>) = 1 /\ <<e>>[1] = e
    OBVIOUS
  <2> QED BY <2>1, Zenon DEF Path
<1>3. below = [x \in 1 .. n |-> <<name>> \o paths[x]]
  BY <1>1 DEF Below
<1>4. ASSUME NEW x \in 1 .. n
      PROVE  below[x] \in Path /\ below[x][1] = name
  <2>1. below[x] = <<name>> \o paths[x]
    BY <1>3
  <2>2. paths[x] \in Path /\ Len(paths[x]) \in Nat
    BY <1>1 DEF Path
  <2>3. /\ <<name>> \o paths[x] \in Path
        /\ \A k \in 1 .. Len(<<name>>) + Len(paths[x]) :
             (<<name>> \o paths[x])[k] =
               IF k <= Len(<<name>>) THEN <<name>>[k] ELSE paths[x][k - Len(<<name>>)]
    BY <1>2, <2>2, ConcatProperties, Zenon DEF Path
  <2>4. 1 \in 1 .. Len(<<name>>) + Len(paths[x]) /\ 1 <= Len(<<name>>)
    BY <1>2, <2>2
  <2> QED BY <2>1, <2>3, <2>4, <1>2, Zenon
<1>5. below \in Seq(Path) /\ Len(below) = n
  <2>1. below \in [1 .. n -> Path]
    <3> HIDE DEF below
    <3>1. DOMAIN below = 1 .. n /\ below = [x \in 1 .. n |-> below[x]]
      BY <1>3
    <3> QED BY <3>1, <1>4
  <2> HIDE DEF below
  <2> QED BY <2>1, <1>1
<1>6. ASSUME Distinct(paths)
      PROVE  Distinct(below)
  <2> SUFFICES ASSUME NEW x \in 1 .. n, NEW y \in 1 .. n, below[x] = below[y]
               PROVE  x = y
    BY <1>5 DEF Distinct
  <2>1. <<name>> \o paths[x] = <<name>> \o paths[y]
    BY <1>3
  <2>2. paths[x] = paths[y]
    BY <2>1, <1>1, <1>2, ConcatSimplifications DEF Path
  <2> QED BY <2>2, <1>6 DEF Distinct
<1> QED BY <1>4, <1>5, <1>6, Zenon

(* The paths that an entry of a tree contributes.                          *)
PathsOf(depth, entries) ==
  [i \in DOMAIN entries |->
     IF IsGroup(entries[i])
     THEN Below(entries[i].name, VisitedTo[depth - 1][entries[i].entries])
     ELSE <<<<entries[i].name>>>>]

LEMMA VisitedIsFlat ==
  ASSUME NEW depth \in 0 .. MaxDepth, NEW entries \in Trees[depth]
  PROVE  VisitedTo[depth][entries] = FlattenSeq(PathsOf(depth, entries))
BY VisitedByDepth DEF VisitedEach, PathsOf

(* They begin with the entry's name.                                       *)
LEMMA PathsOfEntries ==
  ASSUME NEW depth \in 0 .. MaxDepth, NEW entries \in Trees[depth],
         \A t \in Trees[depth - 1] : depth \in 1 .. MaxDepth =>
           /\ VisitedTo[depth - 1][t] \in Seq(Path)
           /\ DistinctTo[depth - 1][t] => Distinct(VisitedTo[depth - 1][t])
  PROVE  /\ PathsOf(depth, entries) \in Seq(Seq(Path))
         /\ Len(PathsOf(depth, entries)) = Len(entries)
         /\ \A i \in 1 .. Len(entries) :
              /\ \A x \in 1 .. Len(PathsOf(depth, entries)[i]) :
                   PathsOf(depth, entries)[i][x][1] = entries[i].name
              /\ DistinctTo[depth][entries] => Distinct(PathsOf(depth, entries)[i])
<1> DEFINE n == Len(entries)
           paths == PathsOf(depth, entries)
<1>1. n \in Nat /\ DOMAIN entries = 1 .. n
  BY EntriesOfTree
<1>2. ASSUME NEW i \in 1 .. n
      PROVE  /\ paths[i] \in Seq(Path)
             /\ \A x \in 1 .. Len(paths[i]) : paths[i][x][1] = entries[i].name
             /\ DistinctTo[depth][entries] => Distinct(paths[i])
  <2>1. entries[i].name \in AnyName
    BY EntriesOfTree
  <2>2. CASE IsGroup(entries[i])
    <3> DEFINE sub == VisitedTo[depth - 1][entries[i].entries]
    <3>1. depth \in 1 .. MaxDepth /\ entries[i].entries \in Trees[depth - 1]
      BY <2>2, EntriesOfTree
    <3>2. sub \in Seq(Path) /\ (DistinctTo[depth - 1][entries[i].entries] => Distinct(sub))
      BY <3>1
    <3>3. paths[i] = Below(entries[i].name, sub)
      BY <1>1, <2>2 DEF PathsOf
    <3>4. DistinctTo[depth][entries] => DistinctTo[depth - 1][entries[i].entries]
      BY <1>1, <2>2, DistinctByDepth DEF NamesDistinct
    <3> HIDE DEF sub
    <3>5. /\ Below(entries[i].name, sub) \in Seq(Path)
          /\ Len(Below(entries[i].name, sub)) = Len(sub)
          /\ \A x \in 1 .. Len(sub) : Below(entries[i].name, sub)[x][1] = entries[i].name
          /\ Distinct(sub) => Distinct(Below(entries[i].name, sub))
      BY <2>1, <3>2, PathsBelow
    <3> QED BY <3>2, <3>3, <3>4, <3>5, Zenon
  <2>3. CASE ~ IsGroup(entries[i])
    <3>1. paths[i] = <<<<entries[i].name>>>>
      BY <1>1, <2>3 DEF PathsOf
    <3> DEFINE p == <<entries[i].name>>
    <3>2. p \in Path /\ p[1] = entries[i].name
      BY <2>1 DEF Path
    <3> HIDE DEF p
    <3>3. <<p>> \in Seq(Path) /\ Len(<<p>>) = 1 /\ <<p>>[1] = p
      BY <3>2
    <3>4. \A x \in 1 .. 1 : x = 1
      OBVIOUS
    <3> QED BY <3>1, <3>2, <3>3, <3>4, Zenon DEF Distinct, p
  <2> QED BY <2>2, <2>3
<1>3. paths = [i \in 1 .. n |-> paths[i]]
  BY <1>1 DEF PathsOf
<1> HIDE DEF paths
<1>4. \A i \in 1 .. n : paths[i] \in Seq(Path)
  BY <1>2, Zenon
<1>5. paths \in Seq(Seq(Path)) /\ Len(paths) = n
  <2>1. paths \in [1 .. n -> Seq(Path)]
    <3> HIDE DEF n
    <3> QED BY <1>3, <1>4, Zenon
  <2> QED BY <1>1, <2>1
<1> QED BY <1>2, <1>5 DEF paths

(* A tree's paths are different if the names in each group are.            *)
LEMMA VisitedPaths ==
  ASSUME NEW depth \in 0 .. MaxDepth, NEW entries \in Trees[depth]
  PROVE  /\ VisitedTo[depth][entries] \in Seq(Path)
         /\ DistinctTo[depth][entries] => Distinct(VisitedTo[depth][entries])
<1> DEFINE Good(d) == \A t \in Trees[d] :
                        /\ VisitedTo[d][t] \in Seq(Path)
                        /\ DistinctTo[d][t] => Distinct(VisitedTo[d][t])
           S == {d \in Nat : d <= MaxDepth => Good(d)}
<1>1. MaxDepth \in Nat
  BY TreeAssumption
<1>2. ASSUME NEW d \in 0 .. MaxDepth, d \in 1 .. MaxDepth => Good(d - 1)
      PROVE  Good(d)
  <2> SUFFICES ASSUME NEW t \in Trees[d]
               PROVE  /\ VisitedTo[d][t] \in Seq(Path)
                      /\ DistinctTo[d][t] => Distinct(VisitedTo[d][t])
    OBVIOUS
  <2> DEFINE paths == PathsOf(d, t)
             n == Len(t)
  <2>1. /\ paths \in Seq(Seq(Path)) /\ Len(paths) = n
        /\ \A i \in 1 .. n :
             /\ \A x \in 1 .. Len(paths[i]) : paths[i][x][1] = t[i].name
             /\ DistinctTo[d][t] => Distinct(paths[i])
    BY <1>2, PathsOfEntries
  <2>2. VisitedTo[d][t] = FlattenSeq(paths)
    BY VisitedIsFlat
  <2>3. n \in Nat /\ DOMAIN t = 1 .. n
    BY EntriesOfTree
  <2> HIDE DEF paths
  <2>4. FlattenSeq(paths) \in Seq(Path)
    BY <2>1, <2>3, FlattenPrefix
  <2>5. ASSUME DistinctTo[d][t]
        PROVE  Distinct(FlattenSeq(paths))
    <3>1. \A i, j \in 1 .. n : t[i].name = t[j].name => i = j
      <4>1. NamesDistinct(DistinctTo[d - 1], t)
        BY <2>5, DistinctByDepth
      <4>2. \A i, j \in DOMAIN t :
              [k \in DOMAIN t |-> t[k].name][i] = [k \in DOMAIN t |-> t[k].name][j] => i = j
        BY <4>1 DEF NamesDistinct, IsInjective
      <4> QED BY <4>2, <2>3
    <3>2. \A i, j \in 1 .. Len(paths) : \A x \in 1 .. Len(paths[i]) : \A y \in 1 .. Len(paths[j]) :
            paths[i][x] = paths[j][y] => i = j
      <4> SUFFICES ASSUME NEW i \in 1 .. Len(paths), NEW j \in 1 .. Len(paths),
                          NEW x \in 1 .. Len(paths[i]), NEW y \in 1 .. Len(paths[j]),
                          paths[i][x] = paths[j][y]
                   PROVE  i = j
        OBVIOUS
      <4>1. i \in 1 .. n /\ j \in 1 .. n
        BY <2>1
      <4>2. paths[i][x][1] = t[i].name /\ paths[j][y][1] = t[j].name
        BY <2>1, <4>1, Zenon
      <4> QED BY <3>1, <4>1, <4>2, Zenon
    <3>3. \A i \in 1 .. Len(paths) : Distinct(paths[i])
      BY <2>1, <2>5, Zenon
    <3> QED BY <2>1, <3>2, <3>3, FlattenDistinct, Zenon
  <2> QED BY <2>2, <2>4, <2>5
<1> HIDE DEF Good
<1>3. 0 \in S
  <2>1. Good(0)
    BY <1>1, <1>2
  <2> QED BY <2>1
<1>4. ASSUME NEW d \in Nat, d \in S PROVE d + 1 \in S
  <2>1. SUFFICES ASSUME d + 1 <= MaxDepth PROVE Good(d + 1)
    OBVIOUS
  <2>2. d + 1 \in 0 .. MaxDepth /\ d <= MaxDepth /\ (d + 1) - 1 = d
    BY <2>1, <1>1
  <2>3. Good(d)
    BY <2>2, <1>4
  <2> QED BY <2>2, <2>3, <1>2
<1>5. depth \in Nat /\ depth <= MaxDepth
  BY <1>1
<1>6. depth \in S
  <2> HIDE DEF S
  <2> QED BY <1>3, <1>4, <1>5, InductiveSet, Zenon
<1>7. Good(depth)
  BY <1>5, <1>6
<1> QED BY <1>7 DEF Good

LEMMA PrefixElements ==
  ASSUME NEW S, NEW s \in Seq(S), NEW t \in Seq(S), IsPrefix(s, t)
  PROVE  Len(s) <= Len(t) /\ \A i \in 1 .. Len(s) : s[i] = t[i]
<1> DEFINE n == Len(s)
<1>1. n \in Nat /\ Len(t) \in Nat /\ n <= Len(t) /\ SubSeq(s, 1, n) = SubSeq(t, 1, n)
  BY DEF IsPrefix
<1>2. \A i \in 1 .. n : s[i] \in S /\ t[i] \in S
  BY <1>1, ElementOfSeq
<1> HIDE DEF n
<1>3. /\ \A i \in 1 .. n - 1 + 1 : SubSeq(s, 1, n)[i] = s[1 + i - 1]
      /\ \A i \in 1 .. n - 1 + 1 : SubSeq(t, 1, n)[i] = t[1 + i - 1]
  BY <1>1, <1>2, SubSeqProperties
<1>4. \A i \in 1 .. n : i \in 1 .. n - 1 + 1 /\ 1 + i - 1 = i
  BY <1>1
<1>5. \A i \in 1 .. n : s[i] = t[i]
  BY <1>1, <1>3, <1>4, Zenon
<1> QED BY <1>1, <1>5 DEF n

(* What is appended to a tree does not change the paths before it.         *)
LEMMA VisitedPrefix ==
  ASSUME NEW s \in Trees[MaxDepth], NEW t \in Trees[MaxDepth],
         Len(s) <= Len(t), \A i \in 1 .. Len(s) : s[i] = t[i]
  PROVE  /\ Visited(s) \in Seq(Path) /\ Visited(t) \in Seq(Path)
         /\ Len(Visited(s)) <= Len(Visited(t))
         /\ \A x \in 1 .. Len(Visited(s)) : Visited(s)[x] = Visited(t)[x]
<1> DEFINE d == MaxDepth
           a == PathsOf(d, s)
           b == PathsOf(d, t)
<1>1. d \in 0 .. MaxDepth /\ (d \in 1 .. MaxDepth => d - 1 \in 0 .. MaxDepth)
  BY TreeAssumption
<1>2. \A u \in Trees[d - 1] : d \in 1 .. MaxDepth =>
           /\ VisitedTo[d - 1][u] \in Seq(Path)
           /\ DistinctTo[d - 1][u] => Distinct(VisitedTo[d - 1][u])
  BY <1>1, VisitedPaths
<1>3. a \in Seq(Seq(Path)) /\ Len(a) = Len(s) /\ b \in Seq(Seq(Path)) /\ Len(b) = Len(t)
  BY <1>1, <1>2, PathsOfEntries
<1>4. /\ Len(s) \in Nat /\ DOMAIN s = 1 .. Len(s)
      /\ Len(t) \in Nat /\ DOMAIN t = 1 .. Len(t)
  BY <1>1, EntriesOfTree
<1>5. \A i \in 1 .. Len(s) : a[i] = b[i]
  <2>1. \A i \in 1 .. Len(s) : i \in DOMAIN s /\ i \in DOMAIN t /\ s[i] = t[i]
    BY <1>4
  <2> QED BY <2>1 DEF PathsOf
<1>6. Visited(s) = FlattenSeq(a) /\ Visited(t) = FlattenSeq(b)
  BY <1>1, VisitedIsFlat DEF Visited
<1> HIDE DEF a, b
<1>7. Len(a) <= Len(b) /\ \A i \in 1 .. Len(a) : a[i] = b[i]
  BY <1>3, <1>5
<1>8. /\ FlattenSeq(a) \in Seq(Path) /\ FlattenSeq(b) \in Seq(Path)
      /\ Len(FlattenSeq(a)) <= Len(FlattenSeq(b))
      /\ \A x \in 1 .. Len(FlattenSeq(a)) : FlattenSeq(a)[x] = FlattenSeq(b)[x]
  <2>1. a \in Seq(Seq(Path)) /\ b \in Seq(Seq(Path))
    BY <1>3
  <2> HIDE DEF d
  <2> QED BY <2>1, <1>7, FlattenPrefix
<1> QED BY <1>6, <1>8, Zenon

-----------------------------------------------------------------------------
(* The invariant of the files: every def file, and the one each program was *)
(* generated from, is what the tool makes of a tree and of calls that it   *)
(* accepts; the programs are those that compile.                           *)

Calls == [name : CallName, direction : Direction]
SpecFiles == [tree : Trees[MaxDepth], calls : Seq(Calls)]

Accepted(def) ==
  /\ def.tree \in Trees[MaxDepth] /\ def.calls \in Seq(Calls)
  /\ def = DefFile(def.tree, def.calls)
  /\ CallsAccepted(def.calls)
  /\ Len(ValueNodePaths(def.tree)) < NodeLimit

SourceOf(p) == DefFile(p.tree, p.calls)
Compiles(side, def) ==
  /\ Accepted(def)
  /\ DirectionsSupported(def.calls)
  /\ SiblingsDistinct(WithPredefined(def.tree))
  /\ program[side] = Code(side, def)

SpecFileOK == spec \in SpecFiles
DefFileOK == defFile = Nothing \/ Accepted(defFile)
ProgramsOK ==
  /\ DOMAIN program = Side
  /\ \A side \in Side : program[side] = Nothing \/ Compiles(side, SourceOf(program[side]))

ToolInv == SpecFileOK /\ DefFileOK /\ ProgramsOK

(* Inserting keeps sequences.                                              *)
LEMMA InsertKeepsSeq ==
  ASSUME NEW S, NEW s \in Seq(S), NEW e \in S, NEW i \in 1 .. Len(s) + 1
  PROVE  InsertAt(s, i, e) \in Seq(S)
<1>1. Len(s) \in Nat /\ \A k \in 1 .. Len(s) : s[k] \in S
  BY ElementOfSeq
<1>2. i - 1 \in Int /\ (\A k \in 1 .. i - 1 : s[k] \in S) /\ (\A k \in i .. Len(s) : s[k] \in S)
      /\ i \in Int /\ Len(s) \in Int
  BY <1>1
<1>3. SubSeq(s, 1, i - 1) \in Seq(S)
  BY <1>2, SubSeqProperties
<1>4. SubSeq(s, i, Len(s)) \in Seq(S)
  BY <1>2, SubSeqProperties
<1>5. <<e>> \in Seq(S)
  OBVIOUS
<1>6. SubSeq(s, 1, i - 1) \o <<e>> \in Seq(S)
  BY <1>3, <1>5, ConcatProperties
<1>7. (SubSeq(s, 1, i - 1) \o <<e>>) \o SubSeq(s, i, Len(s)) \in Seq(S)
  BY <1>4, <1>6, ConcatProperties
<1> QED BY <1>7 DEF InsertAt

(* A sequence of one element.                                              *)
LEMMA OneElement ==
  \A S : \A e \in S : <<e>> \in Seq(S)
OBVIOUS

LEMMA GroupOfEntries ==
  ASSUME NEW depth, NEW name \in AnyName, NEW entries \in Trees[depth - 1]
  PROVE  Group(name, entries) \in Groups(depth)
BY DEF Group, Groups

(* Entries of a tree of groups within groups.                              *)
LEMMA TreeOfEntries ==
  /\ MaxDepth \in 1 .. MaxDepth /\ MaxDepth \in 0 .. MaxDepth
  /\ Trees[MaxDepth] = Seq(ValueNodes \cup Groups(MaxDepth))
  /\ \A depth \in 0 .. MaxDepth : Seq(ValueNodes) \subseteq Trees[depth]
<1>1. MaxDepth \in 1 .. MaxDepth /\ MaxDepth \in 0 .. MaxDepth
  BY TreeAssumption
<1>2. \A depth \in 1 .. MaxDepth : Seq(ValueNodes) \subseteq Trees[depth]
  <2> SUFFICES ASSUME NEW depth \in 1 .. MaxDepth, NEW s \in Seq(ValueNodes)
               PROVE  s \in Trees[depth]
    OBVIOUS
  <2>1. s \in Seq(ValueNodes \cup Groups(depth))
    OBVIOUS
  <2> QED BY <2>1, TreesByDepth
<1>3. \A depth \in 0 .. MaxDepth : depth = 0 \/ depth \in 1 .. MaxDepth
  OBVIOUS
<1>4. \A depth \in 0 .. MaxDepth : Seq(ValueNodes) \subseteq Trees[depth]
  BY <1>2, <1>3, TreesByDepth
<1> QED BY <1>1, <1>4, TreesByDepth

(* The group of the tool's own makes a tree a tree that begins with it.    *)
LEMMA PredefinedAdded ==
  ASSUME NEW tree \in Trees[MaxDepth]
  PROVE  /\ WithPredefined(tree) \in Trees[MaxDepth]
         /\ Len(tree) <= Len(WithPredefined(tree))
         /\ \A i \in 1 .. Len(tree) : tree[i] = WithPredefined(tree)[i]
<1> DEFINE E == ValueNodes \cup Groups(MaxDepth)
<1>1. <<ValueNode("version")>> \in Seq(ValueNodes)
  <2>1. ValueNode("version") \in ValueNodes
    BY DEF ValueNode, ValueNodes, AnyName
  <2> QED BY <2>1, OneElement, Zenon
<1>2. MaxDepth - 1 \in 0 .. MaxDepth
  BY TreeAssumption
<1>3. <<ValueNode("version")>> \in Trees[MaxDepth - 1]
  BY <1>1, <1>2, TreeOfEntries
<1>4. Predefined \in Groups(MaxDepth)
  <2>1. "cliTool" \in AnyName
    BY DEF AnyName
  <2> QED BY <2>1, <1>3, GroupOfEntries, Zenon DEF Predefined
<1>5. tree \in Seq(E)
  BY TreeOfEntries
<1>6. Predefined \in E
  BY <1>4
<1> HIDE DEF E
<1>7. /\ Append(tree, Predefined) \in Seq(E)
      /\ Len(tree) <= Len(Append(tree, Predefined))
      /\ \A i \in 1 .. Len(tree) : tree[i] = Append(tree, Predefined)[i]
  BY <1>5, <1>6
<1> QED BY <1>7, TreeOfEntries DEF WithPredefined, E

-----------------------------------------------------------------------------
(* The author's edits.                                                     *)

LEMMA InsertsEntryKeeps ==
  ASSUME spec \in SpecFiles, InsertsEntry
  PROVE  spec' \in SpecFiles
<1> DEFINE E == ValueNodes \cup Groups(MaxDepth)
<1>1. PICK i \in 1 .. Len(spec.tree) + 1, entry \in NewEntry :
        spec' = [spec EXCEPT !.tree = InsertAt(@, i, entry)]
  BY DEF InsertsEntry
<1>2. entry \in E
  <2>1. Name \subseteq AnyName /\ MaxDepth - 1 \in 0 .. MaxDepth
    BY TreeAssumption DEF AnyName
  <2>2. \A n \in Name : ValueNode(n) \in ValueNodes /\ <<ValueNode(n)>> \in Seq(ValueNodes)
    <3>1. \A n \in Name : ValueNode(n) \in ValueNodes
      BY <2>1 DEF ValueNode, ValueNodes
    <3> QED BY <3>1, OneElement, Zenon
  <2>3. \A n \in Name : <<ValueNode(n)>> \in Trees[MaxDepth - 1]
    BY <2>1, <2>2, TreeOfEntries
  <2>4. \A g, n \in Name : Group(g, <<ValueNode(n)>>) \in Groups(MaxDepth)
    <3> SUFFICES ASSUME NEW g \in Name, NEW n \in Name
                 PROVE  Group(g, <<ValueNode(n)>>) \in Groups(MaxDepth)
      OBVIOUS
    <3>1. <<ValueNode(n)>> \in Trees[MaxDepth - 1] /\ g \in AnyName
      BY <2>1, <2>3
    <3> QED BY <3>1, GroupOfEntries, Zenon
  <2>5. \/ \E n \in Name : entry = ValueNode(n)
        \/ \E g, n \in Name : entry = Group(g, <<ValueNode(n)>>)
    BY DEF NewEntry
  <2>6. entry \in ValueNodes \/ entry \in Groups(MaxDepth)
    BY <2>2, <2>4, <2>5, Zenon
  <2> QED BY <2>6
<1>3. spec.tree \in Seq(E)
  BY TreeOfEntries DEF SpecFiles
<1>4. InsertAt(spec.tree, i, entry) \in Seq(E)
  <2> HIDE DEF E
  <2> QED BY <1>2, <1>3, InsertKeepsSeq
<1>5. InsertAt(spec.tree, i, entry) \in Trees[MaxDepth]
  BY <1>4, TreeOfEntries
<1> QED BY <1>1, <1>5 DEF SpecFiles

LEMMA InsertsIntoGroupKeeps ==
  ASSUME spec \in SpecFiles, InsertsIntoGroup
  PROVE  spec' \in SpecFiles
<1> DEFINE E == ValueNodes \cup Groups(MaxDepth)
           tree == spec.tree
<1>1. PICK g \in DOMAIN tree : 
        /\ IsGroup(tree[g])
        /\ \E i \in 1 .. Len(tree[g].entries) + 1 : \E n \in Name :
             spec' = [spec EXCEPT !.tree[g].entries = InsertAt(@, i, ValueNode(n))]
  BY DEF InsertsIntoGroup
<1>2. PICK i \in 1 .. Len(tree[g].entries) + 1, n \in Name :
        spec' = [spec EXCEPT !.tree[g].entries = InsertAt(@, i, ValueNode(n))]
  BY <1>1
<1> DEFINE entries == InsertAt(tree[g].entries, i, ValueNode(n))
<1>3. tree \in Trees[MaxDepth] /\ tree \in Seq(E)
  BY TreeOfEntries DEF SpecFiles
<1>4. g \in 1 .. Len(tree) /\ tree[g] \in E
  <2> HIDE DEF E
  <2> QED BY <1>3, ElementOfSeq
<1>5. tree[g] \in Groups(MaxDepth) /\ tree[g].entries \in Trees[MaxDepth - 1]
  BY <1>1, <1>4 DEF IsGroup, ValueNodes, Groups
<1>6. ValueNode(n) \in ValueNodes
  BY DEF ValueNode, ValueNodes, AnyName
<1>7. entries \in Trees[MaxDepth - 1]
  <2>1. CASE MaxDepth - 1 = 0
    <3>1. tree[g].entries \in Seq(ValueNodes)
      BY <1>5, <2>1, TreesByDepth
    <3>2. entries \in Seq(ValueNodes)
      BY <3>1, <1>6, InsertKeepsSeq
    <3> QED BY <3>2, <2>1, TreesByDepth
  <2>2. CASE MaxDepth - 1 # 0
    <3>1. MaxDepth - 1 \in 1 .. MaxDepth
      BY <2>2, TreeAssumption
    <3> DEFINE D == ValueNodes \cup Groups(MaxDepth - 1)
    <3>2. Trees[MaxDepth - 1] = Seq(D)
      BY <3>1, TreesByDepth
    <3>3. ValueNode(n) \in D
      BY <1>6
    <3> HIDE DEF D
    <3> QED BY <3>2, <3>3, <1>5, InsertKeepsSeq
  <2> QED BY <2>1, <2>2
<1> HIDE DEF entries
<1>8. [tree[g] EXCEPT !.entries = entries] \in E
  BY <1>5, <1>7 DEF Groups
<1>9. [tree EXCEPT ![g] = [tree[g] EXCEPT !.entries = entries]] \in Seq(E)
  <2> DEFINE e == [tree[g] EXCEPT !.entries = entries]
  <2>1. e \in E
    BY <1>8
  <2>2. [tree EXCEPT ![g] = e] \in Seq(E)
    <3> HIDE DEF E, e, tree
    <3> QED BY <2>1, <1>3, <1>4, ExceptSeq
  <2> QED BY <2>2
<1>10. spec' = [spec EXCEPT !.tree = [tree EXCEPT ![g] = [tree[g] EXCEPT !.entries = entries]]]
  BY <1>2, <1>4 DEF entries
<1>11. [tree EXCEPT ![g] = [tree[g] EXCEPT !.entries = entries]] \in Trees[MaxDepth]
  BY <1>9, TreeOfEntries
<1> QED BY <1>10, <1>11 DEF SpecFiles

LEMMA AddsCallKeeps ==
  ASSUME spec \in SpecFiles, AddsCall
  PROVE  spec' \in SpecFiles
<1>1. PICK call \in Calls : spec' = [spec EXCEPT !.calls = Append(@, call)]
  BY DEF AddsCall, Calls
<1>2. Append(spec.calls, call) \in Seq(Calls)
  BY DEF SpecFiles
<1> QED BY <1>1, <1>2 DEF SpecFiles

-----------------------------------------------------------------------------
(* The invariant, step by step.                                            *)

LEMMA ToolInvInit ==
  ASSUME ToolInit
  PROVE  ToolInv
<1>1. << >> \in Seq(Calls)
  OBVIOUS
<1>2. SpecFileOK
  BY <1>1, TreeAssumption DEF ToolInit, SpecFileOK, SpecFiles
<1>3. DefFileOK /\ ProgramsOK
  BY DEF ToolInit, DefFileOK, ProgramsOK
<1> QED BY <1>2, <1>3 DEF ToolInv

(* What is said of programs is said of the programs alone.                 *)
LEMMA ProgramsKept ==
  ASSUME ProgramsOK, program' = program
  PROVE  ProgramsOK'
BY DEF ProgramsOK, Compiles

LEMMA EditSpecKeeps ==
  ASSUME ToolInv, EditSpec
  PROVE  ToolInv'
<1>1. spec' \in SpecFiles
  BY InsertsEntryKeeps, InsertsIntoGroupKeeps, AddsCallKeeps
     DEF EditSpec, ToolInv, SpecFileOK
<1>2. defFile' = defFile /\ program' = program
  BY DEF EditSpec
<1>3. DefFileOK' /\ ProgramsOK'
  BY <1>2, ProgramsKept DEF ToolInv, DefFileOK
<1> QED BY <1>1, <1>3 DEF ToolInv, SpecFileOK

LEMMA GenDefFileKeeps ==
  ASSUME ToolInv, genDefFile
  PROVE  ToolInv'
<1> DEFINE def == DefFile(spec.tree, spec.calls)
<1>1. /\ CallsAccepted(spec.calls) /\ Len(ValueNodePaths(spec.tree)) < NodeLimit
      /\ defFile' = def /\ spec' = spec /\ program' = program
  BY DEF genDefFile
<1>2. spec.tree \in Trees[MaxDepth] /\ spec.calls \in Seq(Calls)
  BY DEF ToolInv, SpecFileOK, SpecFiles
<1>3. def.tree = spec.tree /\ def.calls = spec.calls
  BY DEF DefFile
<1> HIDE DEF def
<1>4. def = DefFile(def.tree, def.calls)
  BY <1>3 DEF def
<1>5. Accepted(def)
  BY <1>1, <1>2, <1>3, <1>4, Zenon DEF Accepted
<1>6. DefFileOK'
  BY <1>1, <1>5 DEF DefFileOK
<1>7. SpecFileOK' /\ ProgramsOK'
  BY <1>1, ProgramsKept DEF ToolInv, SpecFileOK
<1> QED BY <1>6, <1>7 DEF ToolInv

LEMMA GenCodeKeeps ==
  ASSUME ToolInv, NEW side \in Side, genCode(side)
  PROVE  ToolInv'
<1>1. /\ defFile # Nothing /\ DirectionsSupported(defFile.calls)
      /\ SiblingsDistinct(WithPredefined(defFile.tree))
      /\ program' = [program EXCEPT ![side] = Code(side, defFile)]
      /\ spec' = spec /\ defFile' = defFile
  BY DEF genCode
<1>2. Accepted(defFile)
  BY <1>1 DEF ToolInv, DefFileOK
<1>3. DOMAIN program = Side /\ DOMAIN program' = Side
  BY <1>1 DEF ToolInv, ProgramsOK
<1>4. program'[side] = Code(side, defFile)
  BY <1>1, <1>3
<1>5. SourceOf(program'[side]) = defFile
  <2>1. Code(side, defFile).tree = defFile.tree /\ Code(side, defFile).calls = defFile.calls
    BY DEF Code
  <2>2. defFile = DefFile(defFile.tree, defFile.calls)
    BY <1>2 DEF Accepted
  <2> QED BY <1>4, <2>1, <2>2, Zenon DEF SourceOf
<1>6. Compiles(side, SourceOf(program[side]))'
  BY <1>1, <1>2, <1>4, <1>5, Zenon DEF Compiles
<1>7. \A other \in Side \ {side} : program'[other] = program[other]
  BY <1>1, <1>3
<1>8. ASSUME NEW other \in Side
      PROVE  (program[other] = Nothing \/ Compiles(other, SourceOf(program[other])))'
  <2>1. CASE other = side
    BY <1>6, <2>1
  <2>2. CASE other # side
    BY <1>7, <2>2 DEF ToolInv, ProgramsOK, Compiles
  <2> QED BY <2>1, <2>2
<1>9. ProgramsOK'
  BY <1>3, <1>8 DEF ProgramsOK
<1>10. SpecFileOK' /\ DefFileOK'
  BY <1>1 DEF ToolInv, SpecFileOK, DefFileOK
<1> QED BY <1>9, <1>10 DEF ToolInv

LEMMA ToolInvStep ==
  ASSUME ToolInv, [ToolNext]_toolVars
  PROVE  ToolInv'
<1>1. CASE EditSpec
  BY <1>1, EditSpecKeeps
<1>2. CASE genDefFile
  BY <1>2, GenDefFileKeeps
<1>3. ASSUME NEW side \in Side, genCode(side) PROVE ToolInv'
  BY <1>3, GenCodeKeeps
<1>4. CASE UNCHANGED toolVars
  BY <1>4, ProgramsKept DEF toolVars, ToolInv, SpecFileOK, DefFileOK
<1> QED BY <1>1, <1>2, <1>3, <1>4 DEF ToolNext

(* The tool's files are made from what it accepts, whatever the author     *)
(* edits and in whatever order def file and programs are generated.        *)
THEOREM GeneratorInvariant == ToolSpec => []ToolInv
<1>1. ToolInit => ToolInv
  BY ToolInvInit
<1>2. ToolInv /\ [ToolNext]_toolVars => ToolInv'
  BY ToolInvStep
<1> QED BY <1>1, <1>2, PTL DEF ToolSpec

-----------------------------------------------------------------------------
(* What the programs do with their tables.                                 *)

NodePaths(p) == ValueNodePaths(p.tree)

LEMMA NodesOfProgram ==
  ASSUME ToolInv, NEW side \in Built
  PROVE  LET p == program[side]
             paths == NodePaths(p)
         IN  /\ paths \in Seq(Path) /\ Distinct(paths) /\ Len(paths) < ByteSize
             /\ DOMAIN p.nodeId = {paths[i] : i \in 1 .. Len(paths)}
             /\ \A i \in 1 .. Len(paths) : p.nodeId[paths[i]] = ByName(paths)[paths[i]]
             /\ p.otNodeIDsTable = Table(ByName(paths))
             /\ p.tree \in Trees[MaxDepth]
<1> DEFINE p == program[side]
           def == SourceOf(p)
           paths == NodePaths(p)
<1>1. side \in Side /\ Compiles(side, def)
  BY DEF Built, ToolInv, ProgramsOK
<1>2. /\ p = Code(side, def) /\ Accepted(def)
      /\ SiblingsDistinct(WithPredefined(def.tree))
  BY <1>1 DEF Compiles
<1>3. def.tree = p.tree /\ def.nodeIds = Numbered(paths)
  BY DEF SourceOf, DefFile, NodePaths
<1> HIDE DEF p, def
<1>4. p.tree \in Trees[MaxDepth] /\ Len(paths) < NodeLimit
  BY <1>2, <1>3 DEF Accepted, NodePaths
<1>5. paths \in Seq(Path) /\ Distinct(paths)
  <2>1. MaxDepth \in 0 .. MaxDepth /\ WithPredefined(p.tree) \in Trees[MaxDepth]
    BY <1>4, TreeOfEntries, PredefinedAdded
  <2>2. paths = VisitedTo[MaxDepth][WithPredefined(p.tree)]
    BY DEF NodePaths, ValueNodePaths, Visited
  <2>3. DistinctTo[MaxDepth][WithPredefined(p.tree)]
    BY <1>2, <1>3 DEF SiblingsDistinct
  <2> QED BY <2>1, <2>2, <2>3, VisitedPaths
<1>6. Len(paths) \in Nat /\ DOMAIN paths = 1 .. Len(paths) /\ Len(paths) < ByteSize
  BY <1>4, <1>5, ByteAssumption DEF NodeLimit
<1>7. /\ p.nodeId = getIdForValueNode(def)
      /\ p.otNodeIDsTable = Table(IdsByName(def.nodeIds))
  BY <1>2 DEF Code
<1>8. p.nodeId = [path \in {paths[i] : i \in 1 .. Len(paths)} |-> ByName(paths)[path]]
  BY <1>3, <1>6, <1>7 DEF getIdForValueNode, ByName, NodePaths, ToSet
<1>9. /\ DOMAIN p.nodeId = {paths[i] : i \in 1 .. Len(paths)}
      /\ \A i \in 1 .. Len(paths) : p.nodeId[paths[i]] = ByName(paths)[paths[i]]
  <2> HIDE DEF paths
  <2> QED BY <1>8
<1>10. p.otNodeIDsTable = Table(ByName(paths))
  BY <1>3, <1>7 DEF ByName
<1> QED BY <1>4, <1>5, <1>6, <1>9, <1>10 DEF p

(* ProtocolDef.h:35: every node of a program is found under its number,    *)
(* and its table has only them, for any object tree.                       *)
THEOREM TablesAreComplete == ToolSpec => []TablesComplete
<1>1. ToolInv => TablesComplete
  <2> SUFFICES ASSUME ToolInv, NEW side \in Built
               PROVE  LET p == program[side]
                      IN  /\ \A path \in DOMAIN p.nodeId :
                               LookUp(p.otNodeIDsTable, p.nodeId[path]) = path
                          /\ \A id \in DOMAIN p.otNodeIDsTable :
                               p.otNodeIDsTable[id] \in DOMAIN p.nodeId
    BY DEF TablesComplete
  <2> DEFINE p == program[side]
             paths == NodePaths(p)
  <2>1. /\ paths \in Seq(Path) /\ Distinct(paths) /\ Len(paths) < ByteSize
        /\ DOMAIN p.nodeId = {paths[i] : i \in 1 .. Len(paths)}
        /\ \A i \in 1 .. Len(paths) : p.nodeId[paths[i]] = ByName(paths)[paths[i]]
        /\ p.otNodeIDsTable = Table(ByName(paths))
    BY NodesOfProgram
  <2> HIDE DEF p, paths
  <2>2. ASSUME NEW path \in DOMAIN p.nodeId
        PROVE  LookUp(p.otNodeIDsTable, p.nodeId[path]) = path
    <3>1. PICK i \in 1 .. Len(paths) : path = paths[i]
      BY <2>1
    <3>2. LookUp(Table(ByName(paths)), ByName(paths)[paths[i]]) = paths[i]
      BY <2>1, NodeIsFound
    <3> QED BY <2>1, <3>1, <3>2
  <2>3. ASSUME NEW id \in DOMAIN p.otNodeIDsTable
        PROVE  p.otNodeIDsTable[id] \in DOMAIN p.nodeId
    <3>1. Len(paths) \in Nat
      BY <2>1
    <3>2. /\ DOMAIN Table(ByName(paths)) = 0 .. Len(paths) - 1
          /\ \A i \in 1 .. Len(paths) : Table(ByName(paths))[i - 1] = paths[i]
      BY <2>1, TableInOrder
    <3>3. id + 1 \in 1 .. Len(paths) /\ (id + 1) - 1 = id
      BY <2>1, <3>1, <3>2
    <3>4. p.otNodeIDsTable[id] = paths[id + 1]
      BY <2>1, <3>2, <3>3
    <3> QED BY <2>1, <3>3, <3>4
  <2> QED BY <2>2, <2>3 DEF p
<1> QED BY <1>1, GeneratorInvariant, PTL

(* Programs of two versions of the spec file, the newer with entries       *)
(* appended to the older's, mean the same node by a number.                *)
THEOREM AppendingKeepsIds == ToolSpec => []AppendKeepsIds
<1>1. ToolInv => AppendKeepsIds
  <2> SUFFICES ASSUME ToolInv, NEW old \in Built, NEW new \in Built,
                      IsPrefix(program[old].tree, program[new].tree),
                      NEW path \in ToSet(Visited(program[old].tree))
               PROVE  program[old].nodeId[path] = program[new].nodeId[path]
    BY DEF AppendKeepsIds
  <2> DEFINE s == program[old].tree
             t == program[new].tree
             a == NodePaths(program[old])
             b == NodePaths(program[new])
  <2>1. /\ s \in Trees[MaxDepth] /\ a \in Seq(Path) /\ Distinct(a)
        /\ \A i \in 1 .. Len(a) : program[old].nodeId[a[i]] = ByName(a)[a[i]]
    BY NodesOfProgram, Zenon
  <2>2. /\ t \in Trees[MaxDepth] /\ b \in Seq(Path) /\ Distinct(b)
        /\ \A i \in 1 .. Len(b) : program[new].nodeId[b[i]] = ByName(b)[b[i]]
    BY NodesOfProgram, Zenon
  <2>3. a = Visited(WithPredefined(s)) /\ b = Visited(WithPredefined(t))
    BY DEF NodePaths, ValueNodePaths
  <2>4. IsPrefix(s, t) /\ path \in ToSet(Visited(s))
    OBVIOUS
  <2> HIDE DEF s, t, a, b
  <2>5. /\ WithPredefined(s) \in Trees[MaxDepth] /\ Len(s) <= Len(WithPredefined(s))
        /\ \A i \in 1 .. Len(s) : s[i] = WithPredefined(s)[i]
    BY <2>1, PredefinedAdded
  <2>6. /\ WithPredefined(t) \in Trees[MaxDepth] /\ Len(t) <= Len(WithPredefined(t))
        /\ \A i \in 1 .. Len(t) : t[i] = WithPredefined(t)[i]
    BY <2>2, PredefinedAdded
  <2>7. /\ Len(s) <= Len(WithPredefined(t))
        /\ \A i \in 1 .. Len(s) : s[i] = WithPredefined(t)[i]
    <3>1. s \in Seq(ValueNodes \cup Groups(MaxDepth)) /\ t \in Seq(ValueNodes \cup Groups(MaxDepth))
      BY <2>1, <2>2, TreeOfEntries
    <3>2. Len(s) <= Len(t) /\ \A i \in 1 .. Len(s) : s[i] = t[i]
      BY <3>1, <2>4, PrefixElements
    <3>3. Len(s) \in Nat /\ Len(t) \in Nat /\ Len(WithPredefined(t)) \in Nat
      BY <3>1, <2>6, TreeOfEntries, EntriesOfTree
    <3>4. \A i \in 1 .. Len(s) : i \in 1 .. Len(t)
      BY <3>2, <3>3
    <3> QED BY <3>2, <3>3, <3>4, <2>6
  <2>8. /\ Visited(s) \in Seq(Path) /\ Len(Visited(s)) <= Len(a)
        /\ \A x \in 1 .. Len(Visited(s)) : Visited(s)[x] = a[x]
    BY <2>1, <2>3, <2>5, VisitedPrefix
  <2>9. /\ Len(Visited(s)) <= Len(b)
        /\ \A x \in 1 .. Len(Visited(s)) : Visited(s)[x] = b[x]
    BY <2>1, <2>3, <2>6, <2>7, VisitedPrefix
  <2>10. PICK x \in 1 .. Len(Visited(s)) : path = Visited(s)[x]
    <3>1. DOMAIN Visited(s) = 1 .. Len(Visited(s))
      BY <2>8
    <3> QED BY <3>1, <2>4 DEF ToSet
  <2>11. x \in 1 .. Len(a) /\ x \in 1 .. Len(b) /\ path = a[x] /\ path = b[x]
    <3>1. Len(Visited(s)) \in Nat /\ Len(a) \in Nat /\ Len(b) \in Nat
      BY <2>1, <2>2, <2>8
    <3> QED BY <3>1, <2>8, <2>9, <2>10
  <2>12. ByName(a)[a[x]] = x - 1 /\ ByName(b)[b[x]] = x - 1
    BY <2>1, <2>2, <2>11, NumbersInOrder
  <2> QED BY <2>1, <2>2, <2>11, <2>12
<1> QED BY <1>1, GeneratorInvariant, PTL

-----------------------------------------------------------------------------
(* Remote calls.                                                           *)

(* A table of calls that leaves none out is the table of all.              *)
LEMMA CallTableOfAll ==
  ASSUME NEW S, NEW names \in Seq(S), Distinct(names), NEW listed,
         \A i \in 1 .. Len(names) : names[i] \in listed
  PROVE  CallTable(ByName(names), listed) = Table(ByName(names))
<1> DEFINE n == Len(names)
           byName == ByName(names)
           kept == [i \in 1 .. n |->
                      IF EntryWithId(byName, i - 1) \in listed
                      THEN <<EntryWithId(byName, i - 1)>> ELSE << >>]
<1>1. n \in Nat
  OBVIOUS
<1>2. Cardinality(DOMAIN byName) = n
  BY AsManyAsNames
<1>3. \A i \in 1 .. n : EntryWithId(byName, i - 1) = names[i]
  <2> SUFFICES ASSUME NEW i \in 1 .. n PROVE EntryWithId(byName, i - 1) = names[i]
    OBVIOUS
  <2>1. i - 1 \in 0 .. n - 1 /\ Table(byName)[i - 1] = names[i]
    BY <1>1, TableInOrder
  <2>2. Table(byName)[i - 1] = EntryWithId(byName, i - 1)
    <3> HIDE DEF byName, n
    <3> QED BY <1>2, <2>1 DEF Table
  <2> QED BY <2>1, <2>2
<1>4. kept = [i \in 1 .. n |-> <<names[i]>>]
  <2> HIDE DEF byName
  <2> QED BY <1>3
<1>5. FlattenSeq(kept) = names
  BY <1>4, FlattenOneEach
<1>6. CallTable(byName, listed) = Numbered(FlattenSeq(kept))
  <2> HIDE DEF byName, n
  <2> QED BY <1>2, Zenon DEF CallTable
<1>7. Numbered(names) = Table(byName)
  <2>1. /\ DOMAIN Table(byName) = 0 .. n - 1
        /\ \A i \in 1 .. n : Table(byName)[i - 1] = names[i]
    BY TableInOrder
  <2>2. Table(byName) = [k \in 0 .. n - 1 |-> Table(byName)[k]]
    BY <2>1 DEF Table
  <2>3. \A k \in 0 .. n - 1 : k + 1 \in 1 .. n /\ (k + 1) - 1 = k
    BY <1>1
  <2>4. \A k \in 0 .. n - 1 : Table(byName)[k] = names[k + 1]
    BY <2>1, <2>3
  <2> HIDE DEF byName
  <2> QED BY <2>2, <2>4 DEF Numbered
<1> QED BY <1>5, <1>6, <1>7

LEMMA CallsOfProgram ==
  ASSUME ToolInv, NEW side \in Built
  PROVE  LET p == program[side]
             names == CallNames(p.calls)
         IN  /\ names \in Seq(CallName) /\ Distinct(names) /\ Len(names) < CallLimit
             /\ p.calls \in Seq(Calls) /\ Len(p.calls) = Len(names)
             /\ \A i \in 1 .. Len(names) : names[i] = p.calls[i].name
             /\ DOMAIN p.callId = {names[i] : i \in 1 .. Len(names)}
             /\ \A i \in 1 .. Len(names) : p.callId[names[i]] = ByName(names)[names[i]]
             /\ side = "master" => p.rcCallerTable = Table(ByName(names))
             /\ side = "client" => p.rcCallableTable = Table(ByName(names))
<1> DEFINE p == program[side]
           def == SourceOf(p)
           names == CallNames(p.calls)
<1>1. side \in Side /\ Compiles(side, def)
  BY DEF Built, ToolInv, ProgramsOK
<1>2. p = Code(side, def) /\ Accepted(def) /\ DirectionsSupported(def.calls)
  BY <1>1 DEF Compiles
<1>3. def.calls = p.calls /\ def.callIds = Numbered(names)
  BY DEF SourceOf, DefFile
<1> HIDE DEF p, def
<1>4. p.calls \in Seq(Calls) /\ CallsAccepted(p.calls) /\ DirectionsSupported(p.calls)
  BY <1>2, <1>3 DEF Accepted
<1>5. /\ Len(p.calls) \in Nat /\ DOMAIN p.calls = 1 .. Len(p.calls)
      /\ \A i \in 1 .. Len(p.calls) : p.calls[i] \in Calls
  BY <1>4, ElementOfSeq
<1>6. names = [i \in 1 .. Len(p.calls) |-> p.calls[i].name]
  BY <1>5 DEF CallNames
<1>7. \A i \in 1 .. Len(p.calls) : p.calls[i].name \in CallName
  BY <1>5 DEF Calls
<1>8. names \in Seq(CallName) /\ Len(names) = Len(p.calls) /\ DOMAIN names = 1 .. Len(names)
  <2>1. names \in [1 .. Len(p.calls) -> CallName]
    BY <1>6, <1>7
  <2> HIDE DEF names
  <2> QED BY <2>1, <1>5
<1>9. Distinct(names) /\ Len(names) < CallLimit
  BY <1>4, <1>8 DEF CallsAccepted, IsInjective, Distinct
<1>10. \A i \in 1 .. Len(names) : names[i] = p.calls[i].name
  BY <1>6, <1>8
<1>11. /\ p.callId = getIdForRemoteCalls(def)
       /\ p.rcCallerTable = CallTable(IdsByName(def.callIds), CallerNames(side, def.calls))
       /\ p.rcCallableTable = CallTable(IdsByName(def.callIds), CallableNames(side, def.calls))
  BY <1>2 DEF Code
<1>12. p.callId = [name \in {names[i] : i \in 1 .. Len(names)} |-> ByName(names)[name]]
  BY <1>3, <1>8, <1>11 DEF getIdForRemoteCalls, ByName, ToSet
<1>13. /\ DOMAIN p.callId = {names[i] : i \in 1 .. Len(names)}
       /\ \A i \in 1 .. Len(names) : p.callId[names[i]] = ByName(names)[names[i]]
  <2> HIDE DEF names
  <2> QED BY <1>12
<1>14. \A i \in 1 .. Len(p.calls) :
         p.calls[i] \in ToSet(p.calls) /\ p.calls[i].direction = "master_to_client"
  BY <1>4, <1>5 DEF DirectionsSupported, ToSet
<1>15. ASSUME side = "master"
       PROVE  p.rcCallerTable = Table(ByName(names))
  <2>1. \A i \in 1 .. Len(names) : names[i] \in CallerNames(side, p.calls)
    BY <1>8, <1>10, <1>14, <1>15 DEF CallerNames
  <2> HIDE DEF names
  <2> QED BY <2>1, <1>3, <1>8, <1>9, <1>11, CallTableOfAll DEF ByName
<1>16. ASSUME side = "client"
       PROVE  p.rcCallableTable = Table(ByName(names))
  <2>1. \A i \in 1 .. Len(names) : names[i] \in CallableNames(side, p.calls)
    BY <1>8, <1>10, <1>14, <1>16 DEF CallableNames
  <2> HIDE DEF names
  <2> QED BY <2>1, <1>3, <1>8, <1>9, <1>11, CallTableOfAll DEF ByName
<1> QED BY <1>4, <1>8, <1>9, <1>10, <1>13, <1>15, <1>16, Zenon DEF p

(* A call that both programs have, one list of calls a beginning of the    *)
(* other, has one number in both.                                          *)
LEMMA SameNumber ==
  ASSUME NEW s \in Seq(Calls), NEW t \in Seq(Calls),
         IsPrefix(s, t) \/ IsPrefix(t, s),
         NEW i \in 1 .. Len(s), NEW j \in 1 .. Len(t), s[i].name = t[j].name,
         \A k, l \in 1 .. Len(s) : s[k].name = s[l].name => k = l,
         \A k, l \in 1 .. Len(t) : t[k].name = t[l].name => k = l
  PROVE  i = j
<1>1. Len(s) \in Nat /\ Len(t) \in Nat
  OBVIOUS
<1>2. CASE IsPrefix(s, t)
  <2>1. Len(s) <= Len(t) /\ \A k \in 1 .. Len(s) : s[k] = t[k]
    BY <1>2, PrefixElements
  <2>2. i \in 1 .. Len(t) /\ s[i] = t[i]
    BY <2>1, <1>1
  <2> QED BY <2>2
<1>3. CASE IsPrefix(t, s)
  <2>1. Len(t) <= Len(s) /\ \A k \in 1 .. Len(t) : t[k] = s[k]
    BY <1>3, PrefixElements
  <2>2. j \in 1 .. Len(s) /\ t[j] = s[j]
    BY <2>1, <1>1
  <2> QED BY <2>2
<1> QED BY <1>2, <1>3

(* A device finds a call under the number that the byte of a frame holds.  *)
LEMMA CallIsFound ==
  ASSUME NEW names \in Seq(CallName), Distinct(names), Len(names) < CallLimit,
         NEW i \in 1 .. Len(names), NEW returnOk \in BOOLEAN
  PROVE  LookUp(Table(ByName(names)),
                getRemoteCallIdFromPackage(remoteCallPackIdAndReturn(i - 1, returnOk))) = names[i]
<1>1. Len(names) \in Nat /\ Len(names) < ByteSize /\ i - 1 \in 0 .. CallLimit - 1
  BY ByteAssumption DEF CallLimit
<1>2. getRemoteCallIdFromPackage(remoteCallPackIdAndReturn(i - 1, returnOk)) = i - 1
  BY <1>1, CallByteKept
<1>3. ByName(names)[names[i]] = i - 1
  BY NumbersInOrder
<1>4. LookUp(Table(ByName(names)), ByName(names)[names[i]]) = names[i]
  BY <1>1, NodeIsFound
<1> QED BY <1>2, <1>3, <1>4

(* ProtocolDef.h:46 and 50: a call that both programs have is found by its *)
(* number in the client's table, its return in the master's.               *)
THEOREM CallsAreFound == ToolSpec => []CallsFindTheirTable
<1>1. ToolInv => CallsFindTheirTable
  <2> DEFINE m == program["master"]
             c == program["client"]
  <2> SUFFICES ASSUME ToolInv, Built = Side,
                      IsPrefix(m.calls, c.calls) \/ IsPrefix(c.calls, m.calls),
                      NEW name \in DOMAIN m.callId \cap DOMAIN c.callId
               PROVE  /\ LookUp(c.rcCallableTable,
                           getRemoteCallIdFromPackage(
                             remoteCallPackIdAndReturn(m.callId[name], FALSE))) = name
                      /\ LookUp(m.rcCallerTable,
                           getRemoteCallIdFromPackage(
                             remoteCallPackIdAndReturn(c.callId[name], TRUE))) = name
    BY DEF CallsFindTheirTable
  <2> DEFINE a == CallNames(m.calls)
             b == CallNames(c.calls)
  <2>1. "master" \in Built /\ "client" \in Built
    BY DEF Side
  <2>2. /\ a \in Seq(CallName) /\ Distinct(a) /\ Len(a) < CallLimit
        /\ m.calls \in Seq(Calls) /\ Len(m.calls) = Len(a)
        /\ \A i \in 1 .. Len(a) : a[i] = m.calls[i].name
        /\ DOMAIN m.callId = {a[i] : i \in 1 .. Len(a)}
        /\ \A i \in 1 .. Len(a) : m.callId[a[i]] = ByName(a)[a[i]]
        /\ m.rcCallerTable = Table(ByName(a))
    BY <2>1, CallsOfProgram, Zenon
  <2>3. /\ b \in Seq(CallName) /\ Distinct(b) /\ Len(b) < CallLimit
        /\ c.calls \in Seq(Calls) /\ Len(c.calls) = Len(b)
        /\ \A i \in 1 .. Len(b) : b[i] = c.calls[i].name
        /\ DOMAIN c.callId = {b[i] : i \in 1 .. Len(b)}
        /\ \A i \in 1 .. Len(b) : c.callId[b[i]] = ByName(b)[b[i]]
        /\ c.rcCallableTable = Table(ByName(b))
    BY <2>1, CallsOfProgram, Zenon
  <2> HIDE DEF m, c, a, b
  <2>4. PICK i \in 1 .. Len(a) : name = a[i]
    BY <2>2
  <2>5. PICK j \in 1 .. Len(b) : name = b[j]
    BY <2>3
  <2>6. i = j
    <3>1. \A k, l \in 1 .. Len(m.calls) : m.calls[k].name = m.calls[l].name => k = l
      BY <2>2 DEF Distinct
    <3>2. \A k, l \in 1 .. Len(c.calls) : c.calls[k].name = c.calls[l].name => k = l
      BY <2>3 DEF Distinct
    <3>3. i \in 1 .. Len(m.calls) /\ j \in 1 .. Len(c.calls) /\ m.calls[i].name = c.calls[j].name
      BY <2>2, <2>3, <2>4, <2>5
    <3> QED BY <3>1, <3>2, <3>3, <2>2, <2>3, SameNumber
  <2>7. m.callId[name] = i - 1 /\ c.callId[name] = i - 1
    <3>1. ByName(a)[a[i]] = i - 1
      BY <2>2, NumbersInOrder
    <3>2. ByName(b)[b[j]] = j - 1
      BY <2>3, NumbersInOrder
    <3> QED BY <3>1, <3>2, <2>2, <2>3, <2>4, <2>5, <2>6
  <2>8. LookUp(Table(ByName(b)),
          getRemoteCallIdFromPackage(remoteCallPackIdAndReturn(j - 1, FALSE))) = b[j]
    BY <2>3, CallIsFound
  <2>9. LookUp(Table(ByName(a)),
          getRemoteCallIdFromPackage(remoteCallPackIdAndReturn(i - 1, TRUE))) = a[i]
    BY <2>2, CallIsFound
  <2> QED BY <2>2, <2>3, <2>4, <2>5, <2>6, <2>7, <2>8, <2>9, Zenon
<1> QED BY <1>1, GeneratorInvariant, PTL
=============================================================================
