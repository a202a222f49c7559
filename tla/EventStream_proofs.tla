--------------------------- MODULE EventStream_proofs ---------------------------
(***************************************************************************)
(* The framing of the event stream, for any messages and any sizes.        *)
(***************************************************************************)
EXTENDS EventStream, SequenceTheorems, WellFoundedInduction, TLAPS

(***************************************************************************)
(* Induction over the natural numbers, for a set instead of a predicate.   *)
(***************************************************************************)
LEMMA SetInduction ==
  ASSUME NEW S, 0 \in S, \A n \in Nat : n \in S => n + 1 \in S
  PROVE  \A n \in Nat : n \in S
<1> SUFFICES ASSUME NEW z \in Nat, z \notin S PROVE FALSE
  OBVIOUS
<1> DEFINE R == OpToRel(<, Nat)
           Out == Nat \ S
<1>1. IsWellFoundedOn(R, Nat)
  BY NatLessThanWellFounded
<1>2. \A x, y \in Nat : y < x => <<y, x>> \in R
  BY DEF OpToRel
<1>3. Out \subseteq Nat /\ Out # {}
  OBVIOUS
<1> HIDE DEF R, Out
<1>4. PICK m \in Out : \A y \in Out : ~ (<<y, m>> \in R)
  BY <1>1, <1>3, WFMin
<1>5. m \in Nat /\ m \notin S /\ m # 0
  BY <1>4 DEF Out
<1>6. m - 1 \in Nat /\ m - 1 < m /\ (m - 1) + 1 = m
  BY <1>5
<1>7. m - 1 \notin Out
  BY <1>2, <1>4, <1>5, <1>6
<1>8. m - 1 \in S
  BY <1>6, <1>7 DEF Out
<1> QED
  BY <1>5, <1>6, <1>8

(***************************************************************************)
(* The function that FlattenSeq builds exists, is unique, and can be       *)
(* extended.                                                               *)
(***************************************************************************)
Joins(f, ss, n) == f = [i \in 1 .. n |-> IF i = 1 THEN ss[i] ELSE f[i - 1] \o ss[i]]
Agree(a, b, m, n) == \A i \in 1 .. m : i \in 1 .. n => a[i] = b[i]

LEMMA JoinExtends ==
  ASSUME NEW ss, NEW n \in Nat, NEW f, Joins(f, ss, n)
  PROVE  Joins([i \in 1 .. n + 1 |-> IF i <= n THEN f[i]
                                     ELSE IF n = 0 THEN ss[1] ELSE f[n] \o ss[n + 1]],
               ss, n + 1)
<1> DEFINE g == [i \in 1 .. n + 1 |-> IF i <= n THEN f[i]
                                      ELSE IF n = 0 THEN ss[1] ELSE f[n] \o ss[n + 1]]
           h == [i \in 1 .. n + 1 |-> IF i = 1 THEN ss[i] ELSE g[i - 1] \o ss[i]]
<1>1. \A i \in 1 .. n : f[i] = IF i = 1 THEN ss[i] ELSE f[i - 1] \o ss[i]
  BY DEF Joins
<1>2. ASSUME NEW i \in 1 .. n + 1
      PROVE  g[i] = IF i = 1 THEN ss[i] ELSE g[i - 1] \o ss[i]
  <2>1. CASE i <= n
    <3>1. i \in 1 .. n /\ (i # 1 => i - 1 \in 1 .. n + 1 /\ i - 1 <= n)
      BY <2>1
    <3> QED
      BY <1>1, <3>1
  <2>2. CASE ~ (i <= n)
    <3>1. i = n + 1 /\ i - 1 = n /\ (i = 1 <=> n = 0) /\ (n # 0 => n \in 1 .. n + 1 /\ n <= n)
      BY <2>2
    <3> QED
      BY <3>1
  <2> QED
    BY <2>1, <2>2
<1>3. g = h
  BY <1>2
<1> QED
  BY <1>3 DEF Joins

LEMMA JoinExists ==
  ASSUME NEW ss
  PROVE  \A n \in Nat : \E f : Joins(f, ss, n)
<1> DEFINE S == {n \in Nat : \E f : Joins(f, ss, n)}
<1>1. 0 \in S
  <2>1. Joins([i \in 1 .. 0 |-> ss], ss, 0)
    BY DEF Joins
  <2> QED
    BY <2>1
<1>2. ASSUME NEW n \in Nat, n \in S PROVE n + 1 \in S
  <2>1. PICK f : Joins(f, ss, n)
    BY <1>2
  <2>2. \E g : Joins(g, ss, n + 1)
    BY <2>1, JoinExtends
  <2> QED
    BY <2>2
<1> HIDE DEF S
<1>3. \A n \in Nat : n \in S
  BY <1>1, <1>2, SetInduction
<1> QED
  BY <1>3 DEF S

LEMMA JoinUnique ==
  ASSUME NEW ss, NEW tt, NEW m \in Nat, NEW n \in Nat, NEW f, NEW g,
         Joins(f, ss, m), Joins(g, tt, n),
         Agree(ss, tt, m, n)
  PROVE  Agree(f, g, m, n)
<1> DEFINE S == {k \in Nat : \A i \in 1 .. k : i \in 1 .. m /\ i \in 1 .. n => f[i] = g[i]}
<1>1. 0 \in S
  OBVIOUS
<1>2. ASSUME NEW k \in Nat, k \in S PROVE k + 1 \in S
  <2>1. ASSUME k + 1 \in 1 .. m, k + 1 \in 1 .. n PROVE f[k + 1] = g[k + 1]
    <3>1. /\ f[k + 1] = IF k + 1 = 1 THEN ss[k + 1] ELSE f[(k + 1) - 1] \o ss[k + 1]
          /\ g[k + 1] = IF k + 1 = 1 THEN tt[k + 1] ELSE g[(k + 1) - 1] \o tt[k + 1]
          /\ ss[k + 1] = tt[k + 1]
      BY <2>1 DEF Joins, Agree
    <3>2. k + 1 # 1 => f[k] = g[k] /\ (k + 1) - 1 = k
      <4>1. k + 1 # 1 => k \in 1 .. k /\ k \in 1 .. m /\ k \in 1 .. n
        BY <2>1
      <4> QED
        BY <1>2, <4>1
    <3> QED
      BY <3>1, <3>2
  <2>2. \A i \in 1 .. k + 1 : i \in 1 .. k \/ i = k + 1
    OBVIOUS
  <2> QED
    BY <1>2, <2>1, <2>2
<1> HIDE DEF S
<1>3. \A k \in Nat : k \in S
  BY <1>1, <1>2, SetInduction
<1>4. m \in S
  BY <1>3
<1> QED
  BY <1>4 DEF S, Agree

LEMMA FlattenIsJoin ==
  ASSUME NEW T, NEW ss \in Seq(T), ss # << >>, NEW f, Joins(f, ss, Len(ss))
  PROVE  FlattenSeq(ss) = f[Len(ss)]
<1> DEFINE h == CHOOSE g : Joins(g, ss, Len(ss))
<1>1. Len(ss) \in Nat /\ Len(ss) # 0 /\ Len(ss) \in 1 .. Len(ss)
  BY EmptySeq, LenProperties
<1>2. FlattenSeq(ss) = h[Len(ss)]
  BY <1>1 DEF FlattenSeq, Joins
<1>3. Joins(h, ss, Len(ss))
  OBVIOUS
<1> HIDE DEF h
<1>4. h[Len(ss)] = f[Len(ss)]
  <2>1. Agree(ss, ss, Len(ss), Len(ss))
    BY DEF Agree
  <2>2. Agree(h, f, Len(ss), Len(ss))
    BY <1>1, <1>3, <2>1, JoinUnique
  <2> QED
    BY <1>1, <2>2 DEF Agree
<1> QED
  BY <1>2, <1>4

LEMMA JoinType ==
  ASSUME NEW T, NEW ss \in Seq(Seq(T)), NEW n \in Nat, n <= Len(ss), NEW f, Joins(f, ss, n)
  PROVE  \A i \in 1 .. n : f[i] \in Seq(T)
<1> DEFINE S == {k \in Nat : k \in 1 .. n => f[k] \in Seq(T)}
<1>1. 0 \in S
  OBVIOUS
<1>2. ASSUME NEW k \in Nat, k \in S PROVE k + 1 \in S
  <2> SUFFICES ASSUME k + 1 \in 1 .. n PROVE f[k + 1] \in Seq(T)
    OBVIOUS
  <2>1. f[k + 1] = IF k + 1 = 1 THEN ss[k + 1] ELSE f[(k + 1) - 1] \o ss[k + 1]
    BY DEF Joins
  <2>2. ss[k + 1] \in Seq(T)
    <3>1. Len(ss) \in Nat
      BY LenProperties
    <3>2. k + 1 \in 1 .. Len(ss)
      BY <3>1
    <3> QED
      BY <3>2, ElementOfSeq
  <2>3. CASE k = 0
    BY <2>1, <2>2, <2>3
  <2>4. CASE k # 0
    <3>1. k \in 1 .. n /\ k + 1 # 1 /\ (k + 1) - 1 = k
      BY <2>4
    <3>2. f[k] \in Seq(T)
      BY <1>2, <3>1
    <3> QED
      BY <2>1, <2>2, <3>1, <3>2, ConcatProperties
  <2> QED
    BY <2>3, <2>4
<1> HIDE DEF S
<1>3. \A k \in Nat : k \in S
  BY <1>1, <1>2, SetInduction
<1> QED
  BY <1>3 DEF S

(***************************************************************************)
(* FlattenSeq: its type, and what it does to a sequence that grows at the  *)
(* end or shrinks at the head.                                             *)
(***************************************************************************)
LEMMA FlattenEmpty == FlattenSeq(<< >>) = << >>
<1>1. Len(<< >>) = 0
  BY EmptySeq
<1> QED
  BY <1>1 DEF FlattenSeq

LEMMA FlattenType ==
  ASSUME NEW T, NEW ss \in Seq(Seq(T))
  PROVE  FlattenSeq(ss) \in Seq(T)
<1>1. CASE ss = << >>
  BY <1>1, FlattenEmpty, EmptySeq
<1>2. CASE ss # << >>
  <2>1. Len(ss) \in Nat /\ Len(ss) \in 1 .. Len(ss) /\ Len(ss) <= Len(ss)
    BY <1>2, EmptySeq, LenProperties
  <2>2. PICK f : Joins(f, ss, Len(ss))
    BY <2>1, JoinExists
  <2>3. \A i \in 1 .. Len(ss) : f[i] \in Seq(T)
    BY <2>1, <2>2, JoinType
  <2> QED
    BY <1>2, <2>1, <2>2, <2>3, FlattenIsJoin
<1> QED
  BY <1>1, <1>2

LEMMA FlattenAppend ==
  ASSUME NEW T, NEW ss \in Seq(Seq(T)), NEW x \in Seq(T)
  PROVE  FlattenSeq(Append(ss, x)) = FlattenSeq(ss) \o x
<1>1. PICK n \in Nat : n = Len(ss)
  BY LenProperties
<1>2. PICK tt : tt = Append(ss, x)
  OBVIOUS
<1>3. /\ tt \in Seq(Seq(T)) /\ Len(tt) = n + 1 /\ tt[n + 1] = x
      /\ \A i \in 1 .. n : tt[i] = ss[i]
  BY <1>1, <1>2
<1>4. PICK m \in Nat : m = n + 1
  OBVIOUS
<1>5. tt # << >> /\ m \in 1 .. m
  BY <1>3, <1>4, EmptySeq
<1>6. PICK g : Joins(g, tt, m)
  BY JoinExists
<1>7. FlattenSeq(tt) = g[m]
  BY <1>3, <1>4, <1>5, <1>6, FlattenIsJoin
<1>8. g[m] = IF m = 1 THEN tt[m] ELSE g[m - 1] \o tt[m]
  BY <1>5, <1>6 DEF Joins
<1>9. CASE n = 0
  <2>1. ss = << >>
    BY <1>1, <1>9, EmptySeq
  <2>2. FlattenSeq(tt) = x
    BY <1>3, <1>4, <1>7, <1>8, <1>9
  <2>3. FlattenSeq(ss) \o x = x
    BY <2>1, FlattenEmpty, ConcatEmptySeq
  <2> QED
    BY <1>2, <2>2, <2>3
<1>10. CASE n # 0
  <2>1. ss # << >> /\ n \in 1 .. n /\ n \in 1 .. m /\ m - 1 = n /\ m # 1
    BY <1>1, <1>4, <1>10, EmptySeq
  <2>2. PICK f : Joins(f, ss, n)
    BY JoinExists
  <2>3. FlattenSeq(ss) = f[n]
    BY <1>1, <2>1, <2>2, FlattenIsJoin
  <2>4. Agree(f, g, n, m)
    <3>1. Agree(ss, tt, n, m)
      BY <1>3 DEF Agree
    <3> QED
      BY <1>6, <2>2, <3>1, JoinUnique
  <2>5. f[n] = g[n]
    BY <2>1, <2>4 DEF Agree
  <2>6. tt[m] = x
    BY <1>3, <1>4
  <2> QED
    BY <1>2, <1>7, <1>8, <2>1, <2>3, <2>5, <2>6
<1> QED
  BY <1>9, <1>10

LEMMA FlattenHead ==
  ASSUME NEW T, NEW ss \in Seq(Seq(T)), ss # << >>
  PROVE  FlattenSeq(ss) = ss[1] \o FlattenSeq(Tail(ss))
<1>1. PICK n \in Nat : Len(ss) = n + 1
  <2>1. Len(ss) \in Nat /\ Len(ss) # 0
    BY EmptySeq, LenProperties
  <2>2. Len(ss) - 1 \in Nat /\ Len(ss) = (Len(ss) - 1) + 1
    BY <2>1
  <2> QED
    BY <2>2
<1>2. PICK m \in Nat : m = n + 1
  OBVIOUS
<1>3. PICK tt : tt = Tail(ss)
  OBVIOUS
<1>4. tt \in Seq(Seq(T)) /\ Len(tt) = n /\ \A i \in 1 .. n : tt[i] = ss[i + 1]
  BY <1>1, <1>3
<1>5. \A i \in 1 .. m : ss[i] \in Seq(T)
  BY <1>1, <1>2, ElementOfSeq
<1>6. PICK f : Joins(f, ss, m)
  BY JoinExists
<1>7. PICK g : Joins(g, tt, n)
  BY JoinExists
<1>8. FlattenSeq(ss) = f[m]
  BY <1>1, <1>2, <1>6, FlattenIsJoin
<1>9. \A i \in 1 .. n : g[i] \in Seq(T)
  <2>1. n <= Len(tt)
    BY <1>4
  <2> QED
    BY <1>4, <1>7, <2>1, JoinType
<1>10. f[1] = ss[1] /\ ss[1] \in Seq(T)
  <2>1. 1 \in 1 .. m
    BY <1>2
  <2> QED
    BY <1>5, <1>6, <2>1 DEF Joins
<1> DEFINE S == {k \in Nat : k \in 1 .. n => f[k + 1] = ss[1] \o g[k]}
<1>11. 0 \in S
  OBVIOUS
<1>12. ASSUME NEW k \in Nat, k \in S PROVE k + 1 \in S
  <2> SUFFICES ASSUME k + 1 \in 1 .. n PROVE f[(k + 1) + 1] = ss[1] \o g[k + 1]
    <3>1. k + 1 \in Nat
      OBVIOUS
    <3> QED
      BY <3>1, Zenon
  <2>1. (k + 1) + 1 \in 1 .. m /\ (k + 1) + 1 # 1 /\ ((k + 1) + 1) - 1 = k + 1 /\ (k + 1) - 1 = k
    BY <1>2
  <2>2. f[(k + 1) + 1] = f[k + 1] \o ss[(k + 1) + 1]
    BY <1>6, <2>1 DEF Joins
  <2>3. tt[k + 1] = ss[(k + 1) + 1]
    BY <1>4
  <2>4. g[k + 1] = IF k + 1 = 1 THEN tt[k + 1] ELSE g[(k + 1) - 1] \o tt[k + 1]
    BY <1>7 DEF Joins
  <2>5. CASE k = 0
    <3>1. k + 1 = 1
      BY <2>5
    <3> QED
      BY <1>10, <2>2, <2>3, <2>4, <3>1
  <2>6. CASE k # 0
    <3>1. k \in 1 .. n /\ k + 1 # 1
      BY <2>6
    <3>2. g[k + 1] = g[k] \o tt[k + 1]
      BY <2>1, <2>4, <3>1
    <3>3. f[k + 1] = ss[1] \o g[k]
      BY <1>12, <3>1
    <3>4. ss[1] \in Seq(T) /\ g[k] \in Seq(T) /\ ss[(k + 1) + 1] \in Seq(T)
      BY <1>5, <1>9, <1>10, <2>1, <3>1
    <3>5. (ss[1] \o g[k]) \o ss[(k + 1) + 1] = ss[1] \o (g[k] \o ss[(k + 1) + 1])
      <4>1. \A a, b, c \in Seq(T) : (a \o b) \o c = a \o (b \o c)
        BY ConcatAssociative, SMTT(30)
      <4> QED
        BY <3>4, <4>1, Zenon
    <3> QED
      BY <2>2, <2>3, <3>2, <3>3, <3>5
  <2> QED
    BY <2>5, <2>6
<1> HIDE DEF S
<1>13. \A k \in Nat : k \in S
  BY <1>11, <1>12, SetInduction
<1>14. CASE n = 0
  <2>1. tt = << >>
    BY <1>4, <1>14, EmptySeq
  <2>2. FlattenSeq(ss) = ss[1]
    BY <1>2, <1>8, <1>10, <1>14
  <2>3. ss[1] \o << >> = ss[1]
    BY <1>10, ConcatEmptySeq
  <2> QED
    BY <1>3, <2>1, <2>2, <2>3, FlattenEmpty
<1>15. CASE n # 0
  <2>1. n \in 1 .. n /\ tt # << >>
    BY <1>4, <1>15, EmptySeq
  <2>2. FlattenSeq(tt) = g[n]
    BY <1>4, <1>7, <2>1, FlattenIsJoin
  <2>3. f[n + 1] = ss[1] \o g[n]
    BY <1>13, <2>1 DEF S
  <2> QED
    BY <1>2, <1>3, <1>8, <2>2, <2>3
<1> QED
  BY <1>14, <1>15, Zenon

-------------------------------------------------------------------------------
(***************************************************************************)
(* A length, written as four bytes and read again.                         *)
(***************************************************************************)
LEMMA Bytes32Type ==
  ASSUME NEW n \in Nat, FitsFourBytes(n)
  PROVE  Bytes32(n) \in Seq(0 .. 255) /\ Len(Bytes32(n)) = 4
<1>1. /\ n % 256 \in 0 .. 255 /\ (n \div 256) % 256 \in 0 .. 255
      /\ (n \div 65536) % 256 \in 0 .. 255 /\ n \div 16777216 \in 0 .. 255
  BY DEF FitsFourBytes
<1> QED
  BY <1>1 DEF Bytes32

LEMMA Bytes32Inverts ==
  ASSUME NEW n \in Nat, FitsFourBytes(n)
  PROVE  Unsigned32(Bytes32(n)) = n
<1>1. (n % 256) + 256 * ((n \div 256) % 256) + 65536 * ((n \div 65536) % 256)
      + 16777216 * (n \div 16777216) = n
  OBVIOUS
<1> QED
  BY <1>1 DEF Bytes32, Unsigned32

(***************************************************************************)
(* What is sent consists of bytes.                                         *)
(***************************************************************************)
Byte == 0 .. 255

LEMMA TailOfConcat ==
  ASSUME NEW T, NEW s \in Seq(T), NEW t \in Seq(T), s # << >>
  PROVE  s \o t # << >> /\ Head(s \o t) = Head(s) /\ Tail(s \o t) = Tail(s) \o t
<1>1. PICK n \in Nat : Len(s) = n + 1
  <2>1. Len(s) \in Nat /\ Len(s) # 0
    BY EmptySeq, LenProperties
  <2>2. Len(s) - 1 \in Nat /\ Len(s) = (Len(s) - 1) + 1
    BY <2>1
  <2> QED
    BY <2>2
<1>2. PICK k \in Nat : Len(t) = k
  BY LenProperties
<1>3. PICK w : w = s \o t
  OBVIOUS
<1>4. /\ w \in Seq(T) /\ Len(w) = (n + 1) + k
      /\ \A i \in 1 .. (n + 1) + k : w[i] = IF i <= n + 1 THEN s[i] ELSE t[i - (n + 1)]
  <2>1. /\ s \o t \in Seq(T)
        /\ Len(s \o t) = Len(s) + Len(t)
        /\ \A i \in 1 .. Len(s) + Len(t) :
              (s \o t)[i] = IF i <= Len(s) THEN s[i] ELSE t[i - Len(s)]
    BY ConcatProperties, Zenon
  <2> QED
    BY <1>1, <1>2, <1>3, <2>1
<1>5. w # << >> /\ Head(w) = Head(s)
  <2>1. w # << >>
    BY <1>4, EmptySeq
  <2>2. w[1] = s[1]
    BY <1>4
  <2> QED
    BY <1>4, <2>1, <2>2
<1>6. /\ Tail(s) \in Seq(T) /\ Len(Tail(s)) = n
      /\ \A i \in 1 .. n : Tail(s)[i] = s[i + 1]
  BY <1>1
<1>7. /\ Tail(w) \in Seq(T) /\ Len(Tail(w)) = n + k
      /\ \A i \in 1 .. n + k : Tail(w)[i] = w[i + 1]
  BY <1>4, <1>5
<1>8. /\ Tail(s) \o t \in Seq(T) /\ Len(Tail(s) \o t) = n + k
      /\ \A i \in 1 .. n + k : (Tail(s) \o t)[i] = IF i <= n THEN Tail(s)[i] ELSE t[i - n]
  BY <1>2, <1>6, ConcatProperties
<1>9. ASSUME NEW i \in 1 .. n + k PROVE Tail(w)[i] = (Tail(s) \o t)[i]
  <2>1. i + 1 \in 1 .. (n + 1) + k /\ (i + 1) - (n + 1) = i - n /\ (i + 1 <= n + 1 <=> i <= n)
    OBVIOUS
  <2>2. w[i + 1] = IF i <= n THEN s[i + 1] ELSE t[i - n]
    BY <1>4, <2>1
  <2>3. i <= n => Tail(s)[i] = s[i + 1]
    BY <1>6
  <2> QED
    BY <1>7, <1>8, <2>2, <2>3
<1>10. Tail(w) = Tail(s) \o t
  BY <1>7, <1>8, <1>9, SeqEqual
<1> QED
  BY <1>3, <1>5, <1>10, Zenon

LEMMA IntervalSeq ==
  ASSUME NEW T, NEW n \in Nat, NEW f \in [1 .. n -> T]
  PROVE  f \in Seq(T) /\ Len(f) = n
<1>1. f \in Seq(T)
  BY SeqDef
<1> QED
  BY <1>1, LenProperties

LEMMA UuidIsBytes == \A u \in Uuids : u \in Seq(Byte) /\ Len(u) = UuidLength
  BY IntervalSeq, LengthsAssumption, UuidsAssumption DEF Byte

LEMMA RecordType ==
  ASSUME NEW m, NEW e, IsEvent(m, e)
  PROVE  Record(m, e) \in Seq(Byte)
<1>1. e.uuid \in Seq(Byte)
  BY UuidIsBytes DEF IsEvent
<1>2. CASE m.type = 2
  <2>1. e.value \in Seq(Byte)
    BY <1>2, IntervalSeq, LengthsAssumption DEF IsEvent, Byte
  <2> QED
    BY <1>1, <1>2, <2>1, ConcatProperties DEF Record
<1>3. CASE m.type # 2
  <2> DEFINE p == CHOOSE p \in 0 .. 3 : (Len(e.text) + p) % 4 = 0
  <2>1. e.text \in Seq(Byte) /\ Len(e.text) \in Nat /\ FitsFourBytes(Len(e.text))
    BY <1>3, LenProperties DEF IsEvent, Byte
  <2>2. Bytes32(Len(e.text)) \in Seq(Byte)
    BY <2>1, Bytes32Type DEF Byte
  <2>3. p \in 0 .. 3
    <3>1. \A n \in Nat : \E q \in 0 .. 3 : (n + q) % 4 = 0
      OBVIOUS
    <3> QED
      BY <2>1, <3>1
  <2> HIDE DEF p
  <2>4. Zeros(p) \in Seq(Byte)
    <3>1. Zeros(p) \in [1 .. p -> Byte] /\ p \in Nat
      BY <2>3 DEF Zeros, Byte
    <3> QED
      BY <3>1, IntervalSeq
  <2>5. e.uuid \o e.uuid \in Seq(Byte)
    BY <1>1, ConcatProperties
  <2>6. e.uuid \o e.uuid \o Bytes32(Len(e.text)) \in Seq(Byte)
    BY <2>2, <2>5, ConcatProperties
  <2>7. e.uuid \o e.uuid \o Bytes32(Len(e.text)) \o e.text \in Seq(Byte)
    BY <2>1, <2>6, ConcatProperties
  <2>8. e.uuid \o e.uuid \o Bytes32(Len(e.text)) \o e.text \o Zeros(p) \in Seq(Byte)
    BY <2>4, <2>7, ConcatProperties
  <2> QED
    BY <1>3, <2>8 DEF Record, p
<1> QED
  BY <1>2, <1>3

LEMMA EncodeType ==
  ASSUME NEW m, IsMessage(m)
  PROVE  Encode(m) \in Seq(Byte) /\ Len(Encode(m)) \in Nat /\ FitsFourBytes(Len(Encode(m)))
<1> DEFINE rs == [i \in DOMAIN m.events |-> Record(m, m.events[i])]
<1>1. rs \in Seq(Seq(Byte))
  <2>1. m.events \in Seq(Range(m.events))
    BY DEF IsMessage
  <2>2. Len(m.events) \in Nat /\ DOMAIN m.events = 1 .. Len(m.events)
    BY <2>1, LenProperties
  <2>3. \A i \in DOMAIN m.events : Record(m, m.events[i]) \in Seq(Byte)
    BY RecordType DEF IsMessage
  <2>4. rs \in [1 .. Len(m.events) -> Seq(Byte)]
    BY <2>2, <2>3
  <2> QED
    BY <2>2, <2>4, IntervalSeq
<1> HIDE DEF rs
<1>2. Records(m) \in Seq(Byte)
  BY <1>1, FlattenType DEF Records, rs
<1>3. Len(Records(m)) \in Nat /\ m.cut \in Nat /\ Len(Records(m)) - m.cut \in Int
      /\ Len(Records(m)) - m.cut <= Len(Records(m))
  BY <1>2, LenProperties DEF IsMessage
<1>4. \A i \in 1 .. Len(Records(m)) - m.cut : Records(m)[i] \in Byte
  BY <1>2, <1>3, ElementOfSeq
<1>5. Encode(m) \in Seq(Byte)
  BY <1>3, <1>4, SubSeqProperties DEF Encode
<1> QED
  BY <1>5, LenProperties DEF IsMessage

(***************************************************************************)
(* The header of a message, read again: its type and the length of its     *)
(* payload, which a keepalive and an empty message do not have.            *)
(***************************************************************************)
Header(m) == <<3, m.type, 0, 0>> \o Bytes32(Len(Encode(m)))

LEMMA FramesAre ==
  ASSUME NEW m, IsMessage(m)
  PROVE  /\ Header(m) \in Seq(Byte)
         /\ Frames(m) \in Seq(Seq(Byte)) /\ Frames(m) # << >>
         /\ HeaderOnly(m) => Frames(m) = <<Header(m)>>
         /\ ~ HeaderOnly(m) => Frames(m) = <<Header(m), Encode(m)>>
<1>1. <<3, m.type, 0, 0>> \in Seq(Byte)
  BY DEF IsMessage, Byte
<1>2. Header(m) \in Seq(Byte)
  BY <1>1, EncodeType, Bytes32Type, ConcatProperties DEF Header, Byte
<1>3. Frames(m) = IF HeaderOnly(m) THEN <<Header(m)>> ELSE <<Header(m), Encode(m)>>
  BY DEF Frames, Header
<1> QED
  BY <1>2, <1>3, EncodeType

LEMMA HeaderIsRead ==
  ASSUME NEW m, IsMessage(m)
  PROVE  /\ ValidHeader(Header(m)) <=> m.type < Len(Types)
         /\ HeaderType(Header(m)) = Types[m.type + 1]
         /\ HeaderLength(Header(m)) = Len(Encode(m))
<1> DEFINE n == Len(Encode(m))
           a == <<3, m.type, 0, 0>>
           b == Bytes32(n)
<1>1. n \in Nat /\ FitsFourBytes(n) /\ m.type \in 0 .. 255
  BY EncodeType DEF IsMessage
<1>2. b \in Seq(Byte) /\ Len(b) = 4
  BY <1>1, Bytes32Type DEF Byte
<1>3. Unsigned32(b) = n
  BY <1>1, Bytes32Inverts
<1>4. a \in Seq(Byte) /\ Len(a) = 4
  BY <1>1 DEF Byte
<1>5. Header(m) = a \o b
  BY DEF Header
<1>11. a[1] = 3 /\ a[2] = m.type
  OBVIOUS
<1> HIDE DEF a, b
<1>6. /\ a \o b \in Seq(Byte)
      /\ Len(a \o b) = Len(a) + Len(b)
      /\ \A i \in 1 .. Len(a) + Len(b) :
            (a \o b)[i] = IF i <= Len(a) THEN a[i] ELSE b[i - Len(a)]
  BY <1>2, <1>4, ConcatProperties, Zenon
<1>7. Header(m) \in Seq(Byte) /\ Len(Header(m)) = 8
  BY <1>2, <1>4, <1>5, <1>6
<1>8. /\ Header(m)[1] = 3 /\ Header(m)[2] = m.type
      /\ Header(m)[5] = b[1] /\ Header(m)[6] = b[2]
      /\ Header(m)[7] = b[3] /\ Header(m)[8] = b[4]
  BY <1>2, <1>4, <1>5, <1>6, <1>11
<1>9. \A i \in 1 .. 4 : Slice(Header(m), 4, 4)[i] = Header(m)[i + 4]
  <2>1. \A i \in 5 .. 8 : Header(m)[i] \in Byte
    <3>1. Header(m) \in [1 .. Len(Header(m)) -> Byte]
      BY <1>7, LenProperties
    <3>2. Header(m) \in [1 .. 8 -> Byte]
      BY <1>7, <3>1
    <3>3. \A i \in 5 .. 8 : i \in 1 .. 8
      OBVIOUS
    <3> QED
      BY <3>2, <3>3
  <2>2. \A i \in 1 .. 4 : SubSeq(Header(m), 5, 8)[i] = Header(m)[5 + i - 1]
    BY <2>1, SubSeqProperties
  <2> QED
    BY <2>2 DEF Slice
<1>10. HeaderLength(Header(m)) = n
  BY <1>3, <1>8, <1>9 DEF HeaderLength, Unsigned32
<1> QED
  BY <1>1, <1>7, <1>8, <1>10 DEF Types, ValidHeader, HeaderType, HEADER_LENGTH

-------------------------------------------------------------------------------
(***************************************************************************)
(* What is left on the wire before a message is handled: the frames of the *)
(* messages of s from the (h+1)-th on.                                     *)
(***************************************************************************)
Pending(s, h) == [i \in 1 .. (Len(s) - h) |-> Frames(s[h + i])]
Left(s, h) == FlattenSeq(Pending(s, h))

LEMMA PendingIs ==
  ASSUME NEW s \in Seq(Messages), NEW h \in 0 .. Len(s)
  PROVE  /\ Pending(s, h) \in Seq(Seq(Seq(Byte)))
         /\ Len(Pending(s, h)) = Len(s) - h
<1>1. Len(s) \in Nat /\ Len(s) - h \in Nat
  BY LenProperties
<1>2. ASSUME NEW i \in 1 .. (Len(s) - h) PROVE Frames(s[h + i]) \in Seq(Seq(Byte))
  <2>1. h + i \in 1 .. Len(s)
    BY <1>1
  <2>2. s[h + i] \in Messages
    BY <2>1, ElementOfSeq
  <2> QED
    BY <2>2, MessagesAssumption, FramesAre
<1>3. Pending(s, h) \in [1 .. (Len(s) - h) -> Seq(Seq(Byte))]
  BY <1>2 DEF Pending
<1> QED
  BY <1>1, <1>3, IntervalSeq

LEMMA LeftType ==
  ASSUME NEW s \in Seq(Messages), NEW h \in 0 .. Len(s)
  PROVE  Left(s, h) \in Seq(Seq(Byte))
BY PendingIs, FlattenType DEF Left

LEMMA LeftEmpty ==
  ASSUME NEW s \in Seq(Messages)
  PROVE  Left(s, Len(s)) = << >>
<1>1. Len(s) \in Nat /\ Len(s) \in 0 .. Len(s) /\ Len(s) - Len(s) = 0
  BY LenProperties
<1>2. Pending(s, Len(s)) = << >>
  BY <1>1, PendingIs, EmptySeq
<1> QED
  BY <1>2, FlattenEmpty DEF Left

LEMMA LeftNext ==
  ASSUME NEW s \in Seq(Messages), NEW h \in 0 .. Len(s), h < Len(s)
  PROVE  /\ s[h + 1] \in Messages /\ h + 1 \in 0 .. Len(s)
         /\ Left(s, h) = Frames(s[h + 1]) \o Left(s, h + 1)
<1>1. PICK n \in Nat : Len(s) - h = n + 1 /\ Len(s) - (h + 1) = n
  <2>1. Len(s) \in Nat
    BY LenProperties
  <2>2. Len(s) - (h + 1) \in Nat /\ Len(s) - h = (Len(s) - (h + 1)) + 1
    BY <2>1
  <2> QED
    BY <2>2
<1>2. h + 1 \in 0 .. Len(s) /\ h + 1 \in 1 .. Len(s)
  BY LenProperties
<1>3. s[h + 1] \in Messages
  BY <1>2, ElementOfSeq
<1>4. /\ Pending(s, h) \in Seq(Seq(Seq(Byte))) /\ Len(Pending(s, h)) = n + 1
      /\ Pending(s, h + 1) \in Seq(Seq(Seq(Byte))) /\ Len(Pending(s, h + 1)) = n
  BY <1>1, <1>2, PendingIs
<1>5. Pending(s, h) # << >> /\ Pending(s, h)[1] = Frames(s[h + 1])
  <2>1. Pending(s, h) # << >>
    BY <1>4, EmptySeq
  <2> QED
    BY <1>1, <2>1 DEF Pending
<1>6. /\ Tail(Pending(s, h)) \in Seq(Seq(Seq(Byte))) /\ Len(Tail(Pending(s, h))) = n
      /\ \A i \in 1 .. n : Tail(Pending(s, h))[i] = Pending(s, h)[i + 1]
  BY <1>4, <1>5
<1>7. \A i \in 1 .. n : Pending(s, h)[i + 1] = Pending(s, h + 1)[i]
  <2> TAKE i \in 1 .. n
  <2>1. i + 1 \in 1 .. (Len(s) - h) /\ i \in 1 .. (Len(s) - (h + 1)) /\ h + (i + 1) = (h + 1) + i
    BY <1>1
  <2>2. Pending(s, h)[i + 1] = Frames(s[h + (i + 1)])
    BY <2>1 DEF Pending
  <2>3. Pending(s, h + 1)[i] = Frames(s[(h + 1) + i])
    BY <2>1 DEF Pending
  <2> QED
    BY <2>1, <2>2, <2>3
<1>8. Tail(Pending(s, h)) = Pending(s, h + 1)
  BY <1>4, <1>6, <1>7, SeqEqual
<1>9. Left(s, h) = Frames(s[h + 1]) \o Left(s, h + 1)
  BY <1>4, <1>5, <1>8, FlattenHead DEF Left
<1> QED
  BY <1>2, <1>3, <1>9, Zenon

LEMMA LeftMore ==
  ASSUME NEW s \in Seq(Messages), NEW h \in 0 .. Len(s), NEW m \in Messages
  PROVE  Left(Append(s, m), h) = Left(s, h) \o Frames(m)
<1>1. PICK n \in Nat : Len(s) - h = n
  <2>1. Len(s) - h \in Nat
    BY LenProperties
  <2> QED
    BY <2>1
<1>2. PICK t : t = Append(s, m)
  OBVIOUS
<1>3. /\ t \in Seq(Messages) /\ Len(t) = Len(s) + 1 /\ Len(s) \in Nat
      /\ \A i \in 1 .. Len(s) : t[i] = s[i]
      /\ t[Len(s) + 1] = m
  BY <1>2, LenProperties
<1>4. h \in 0 .. Len(t) /\ Len(t) - h = n + 1
  BY <1>1, <1>3
<1>5. /\ Pending(s, h) \in Seq(Seq(Seq(Byte))) /\ Len(Pending(s, h)) = n
      /\ Pending(t, h) \in Seq(Seq(Seq(Byte))) /\ Len(Pending(t, h)) = n + 1
  BY <1>1, <1>3, <1>4, PendingIs
<1>6. Frames(m) \in Seq(Seq(Byte))
  BY MessagesAssumption, FramesAre
<1>7. /\ Append(Pending(s, h), Frames(m)) \in Seq(Seq(Seq(Byte)))
      /\ Len(Append(Pending(s, h), Frames(m))) = n + 1
      /\ \A i \in 1 .. n : Append(Pending(s, h), Frames(m))[i] = Pending(s, h)[i]
      /\ Append(Pending(s, h), Frames(m))[n + 1] = Frames(m)
  BY <1>5, <1>6
<1>8. \A i \in 1 .. n : Pending(t, h)[i] = Pending(s, h)[i]
  <2> TAKE i \in 1 .. n
  <2>1. i \in 1 .. (Len(s) - h) /\ i \in 1 .. (Len(t) - h) /\ h + i \in 1 .. Len(s)
    BY <1>1, <1>3, <1>4
  <2> QED
    BY <1>3, <2>1 DEF Pending
<1>9. Pending(t, h)[n + 1] = Frames(m)
  <2>1. n + 1 \in 1 .. (Len(t) - h) /\ h + (n + 1) = Len(s) + 1
    BY <1>1, <1>3, <1>4
  <2> QED
    BY <1>3, <2>1 DEF Pending
<1>10. \A i \in 1 .. n + 1 : Pending(t, h)[i] = Append(Pending(s, h), Frames(m))[i]
  <2>1. \A i \in 1 .. n + 1 : i \in 1 .. n \/ i = n + 1
    OBVIOUS
  <2> QED
    BY <1>7, <1>8, <1>9, <2>1
<1>11. Pending(t, h) = Append(Pending(s, h), Frames(m))
  BY <1>5, <1>7, <1>10, SeqEqual
<1> QED
  BY <1>2, <1>5, <1>6, <1>11, FlattenAppend DEF Left

-------------------------------------------------------------------------------
(***************************************************************************)
(* InStep is inductive once the loop is known to await the payload of the  *)
(* next message, which has one, by the type its header gave.               *)
(***************************************************************************)
Awaiting ==
    awaited # "HEADER" =>
        /\ handled < Len(sent)
        /\ ~ HeaderOnly(sent[handled + 1])
        /\ sent[handled + 1].type < Len(Types)
        /\ awaited = Types[sent[handled + 1].type + 1]

Framed ==
    /\ sent \in Seq(Messages)
    /\ wire \in Seq(Seq(Byte))
    /\ handled \in 0 .. Len(sent)

FramingInv == Framed /\ Awaiting /\ InStep

LEMMA InStepIs ==
  InStep <=> (receiver = "running" =>
                 IF awaited = "HEADER" THEN wire = Left(sent, handled)
                 ELSE wire = Tail(Left(sent, handled)))
BY DEF InStep, Left, Pending

LEMMA InStepNext ==
  InStep' <=> (receiver' = "running" =>
                 IF awaited' = "HEADER" THEN wire' = Left(sent', handled')
                 ELSE wire' = Tail(Left(sent', handled')))
BY DEF InStep, Left, Pending

LEMMA NoTypeIsHeader == \A t \in 0 .. 255 : t < Len(Types) => Types[t + 1] # "HEADER" /\ (Types[t + 1] = "KEEPALIVE" <=> t = 6)
BY DEF Types

LEMMA FramingInit == Init => FramingInv
<1> SUFFICES ASSUME Init PROVE FramingInv
  OBVIOUS
<1>1. sent \in Seq(Messages) /\ Len(sent) = 0 /\ wire \in Seq(Seq(Byte))
  BY EmptySeq DEF Init
<1>2. Left(sent, handled) = << >>
  BY <1>1, LeftEmpty DEF Init
<1> QED
  BY <1>1, <1>2, InStepIs DEF Init, FramingInv, Framed, Awaiting

(***************************************************************************)
(* A message put on the wire is behind everything that is pending.         *)
(***************************************************************************)
LEMMA FramingSend ==
  ASSUME FramingInv, NEW m \in Messages, Send(m)
  PROVE  FramingInv'
<1>1. /\ sent \in Seq(Messages) /\ wire \in Seq(Seq(Byte)) /\ handled \in 0 .. Len(sent)
      /\ Len(sent) \in Nat
  BY LenProperties DEF FramingInv, Framed
<1>2. Frames(m) \in Seq(Seq(Byte))
  BY MessagesAssumption, FramesAre
<1>3. /\ sent' = Append(sent, m) /\ wire' = wire \o Frames(m)
      /\ awaited' = awaited /\ receiver' = receiver /\ handled' = handled
  BY DEF Send
<1>4. Framed'
  <2>1. sent' \in Seq(Messages) /\ Len(sent') = Len(sent) + 1
    BY <1>1, <1>3
  <2>2. wire' \in Seq(Seq(Byte))
    BY <1>1, <1>2, <1>3, ConcatProperties
  <2> QED
    BY <1>1, <1>3, <2>1, <2>2 DEF Framed
<1>5. handled < Len(sent) => handled < Len(sent') /\ sent'[handled + 1] = sent[handled + 1]
  BY <1>1, <1>3
<1>6. Awaiting'
  BY <1>3, <1>5 DEF Awaiting, FramingInv
<1>7. Left(sent', handled') = Left(sent, handled) \o Frames(m)
  BY <1>1, <1>3, LeftMore
<1>8. Left(sent, handled) \in Seq(Seq(Byte))
  BY <1>1, LeftType
<1>9. CASE awaited = "HEADER"
  BY <1>3, <1>4, <1>6, <1>7, <1>9, InStepIs, InStepNext DEF FramingInv
<1>10. CASE awaited # "HEADER"
  <2>1. handled < Len(sent)
    BY <1>10 DEF FramingInv, Awaiting
  <2>2. Left(sent, handled) # << >>
    <3>1. Left(sent, handled) = Frames(sent[handled + 1]) \o Left(sent, handled + 1)
      BY <1>1, <2>1, LeftNext
    <3>2. Frames(sent[handled + 1]) \in Seq(Seq(Byte)) /\ Frames(sent[handled + 1]) # << >>
      BY <1>1, <2>1, LeftNext, MessagesAssumption, FramesAre
    <3>3. Left(sent, handled + 1) \in Seq(Seq(Byte))
      BY <1>1, <2>1, LeftNext, LeftType
    <3> QED
      <4>1. Frames(sent[handled + 1]) \o Left(sent, handled + 1) # << >>
        BY <3>2, <3>3, TailOfConcat
      <4> QED
        BY <3>1, <4>1
  <2>3. Tail(Left(sent, handled) \o Frames(m)) = Tail(Left(sent, handled)) \o Frames(m)
    BY <1>2, <1>8, <2>2, TailOfConcat
  <2> QED
    BY <1>3, <1>4, <1>6, <1>7, <1>10, <2>3, InStepIs, InStepNext DEF FramingInv
<1> QED
  BY <1>9, <1>10

(***************************************************************************)
(* While the loop runs and a frame has arrived, the message it belongs to  *)
(* is the next one: what is pending starts with its frames.                *)
(***************************************************************************)
LEMMA NextMessage ==
  ASSUME FramingInv, Receives
  PROVE  /\ handled < Len(sent) /\ handled + 1 \in 0 .. Len(sent)
         /\ IsMessage(sent[handled + 1])
         /\ Left(sent, handled + 1) \in Seq(Seq(Byte))
         /\ IF awaited = "HEADER"
            THEN wire = Frames(sent[handled + 1]) \o Left(sent, handled + 1)
            ELSE wire = <<Encode(sent[handled + 1])>> \o Left(sent, handled + 1)
<1> DEFINE m == sent[handled + 1]
           rest == Left(sent, handled + 1)
<1>1. /\ sent \in Seq(Messages) /\ wire \in Seq(Seq(Byte)) /\ handled \in 0 .. Len(sent)
      /\ Len(sent) \in Nat
  BY LenProperties DEF FramingInv, Framed
<1>2. /\ receiver = "running" /\ wire # << >>
      /\ IF awaited = "HEADER" THEN wire = Left(sent, handled) ELSE wire = Tail(Left(sent, handled))
  BY InStepIs DEF Receives, FramingInv
<1>3. handled < Len(sent)
  <2>1. CASE awaited = "HEADER"
    <3>1. handled # Len(sent)
      BY <1>1, <1>2, <2>1, LeftEmpty
    <3> QED
      BY <1>1, <3>1
  <2>2. CASE awaited # "HEADER"
    BY <2>2 DEF FramingInv, Awaiting
  <2> QED
    BY <2>1, <2>2
<1>4. /\ m \in Messages /\ handled + 1 \in 0 .. Len(sent)
      /\ Left(sent, handled) = Frames(m) \o rest
  BY <1>1, <1>3, LeftNext
<1>5. IsMessage(m)
  BY <1>4, MessagesAssumption
<1>6. rest \in Seq(Seq(Byte))
  BY <1>1, <1>4, LeftType
<1> HIDE DEF m, rest
<1>7. CASE awaited = "HEADER"
  BY <1>2, <1>3, <1>4, <1>5, <1>6, <1>7 DEF m, rest
<1>8. CASE awaited # "HEADER"
  <2>1. ~ HeaderOnly(m)
    BY <1>8 DEF FramingInv, Awaiting, m
  <2>2. Header(m) \in Seq(Byte) /\ Encode(m) \in Seq(Byte)
    BY <1>5, EncodeType, FramesAre
  <2>3. Frames(m) = <<Header(m), Encode(m)>>
    BY <1>5, <2>1, FramesAre
  <2>4. Tail(<<Header(m), Encode(m)>> \o rest) = <<Encode(m)>> \o rest
    <3>1. /\ <<Header(m), Encode(m)>> \in Seq(Seq(Byte)) /\ <<Header(m), Encode(m)>> # << >>
          /\ Tail(<<Header(m), Encode(m)>>) = <<Encode(m)>>
      BY <2>2
    <3> QED
      BY <1>6, <3>1, TailOfConcat
  <2> QED
    BY <1>2, <1>3, <1>4, <1>5, <1>6, <1>8, <2>3, <2>4 DEF m, rest
<1> QED
  BY <1>7, <1>8

(***************************************************************************)
(* The frame the loop reads as a header is the header of the next message; *)
(* the loop skips a payload exactly when none was sent.                    *)
(***************************************************************************)
LEMMA FramingReadHeader ==
  ASSUME FramingInv, ReadHeader
  PROVE  FramingInv'
<1> DEFINE m == sent[handled + 1]
           rest == Left(sent, handled + 1)
<1>1. /\ sent \in Seq(Messages) /\ wire \in Seq(Seq(Byte)) /\ handled \in 0 .. Len(sent)
      /\ Len(sent) \in Nat
  BY LenProperties DEF FramingInv, Framed
<1>2. Receives /\ awaited = "HEADER" /\ ValidHeader(Head(wire)) /\ wire' = Tail(wire) /\ wire # << >>
  BY DEF ReadHeader, Receives
<1>3. /\ handled < Len(sent) /\ handled + 1 \in 0 .. Len(sent)
      /\ IsMessage(m) /\ rest \in Seq(Seq(Byte))
      /\ wire = Frames(m) \o rest
  BY <1>2, NextMessage
<1> HIDE DEF m, rest
<1>4. /\ Header(m) \in Seq(Byte)
      /\ HeaderOnly(m) => Frames(m) = <<Header(m)>>
      /\ ~ HeaderOnly(m) => Frames(m) = <<Header(m), Encode(m)>>
      /\ Encode(m) \in Seq(Byte)
  BY <1>3, FramesAre, EncodeType
<1>5. /\ Head(wire) = Header(m)
      /\ HeaderOnly(m) => wire' = rest
      /\ ~ HeaderOnly(m) => wire' = <<Encode(m)>> \o rest
  <2>1. CASE HeaderOnly(m)
    <3>1. <<Header(m)>> \in Seq(Seq(Byte)) /\ <<Header(m)>> # << >>
          /\ Head(<<Header(m)>>) = Header(m) /\ Tail(<<Header(m)>>) = << >>
      BY <1>4
    <3>2. wire = <<Header(m)>> \o rest
      BY <1>3, <1>4, <2>1
    <3>3. Head(wire) = Header(m) /\ Tail(wire) = << >> \o rest
      BY <1>3, <3>1, <3>2, TailOfConcat, ZenonT(40)
    <3> QED
      BY <1>2, <1>3, <2>1, <3>3, ConcatEmptySeq
  <2>2. CASE ~ HeaderOnly(m)
    <3>1. /\ <<Header(m), Encode(m)>> \in Seq(Seq(Byte)) /\ <<Header(m), Encode(m)>> # << >>
          /\ Head(<<Header(m), Encode(m)>>) = Header(m)
          /\ Tail(<<Header(m), Encode(m)>>) = <<Encode(m)>>
      BY <1>4
    <3>2. wire = <<Header(m), Encode(m)>> \o rest
      BY <1>3, <1>4, <2>2
    <3>3. Head(wire) = Header(m) /\ Tail(wire) = <<Encode(m)>> \o rest
      BY <1>3, <3>1, <3>2, TailOfConcat
    <3> QED
      BY <1>2, <2>2, <3>3
  <2> QED
    BY <2>1, <2>2
<1>6. /\ m.type \in 0 .. 255 /\ m.type < Len(Types)
      /\ HeaderType(Header(m)) = Types[m.type + 1]
      /\ HeaderLength(Header(m)) = Len(Encode(m))
  BY <1>2, <1>3, <1>5, HeaderIsRead DEF IsMessage
<1>7. (HeaderType(Head(wire)) = "KEEPALIVE" \/ HeaderLength(Head(wire)) = 0) <=> HeaderOnly(m)
  BY <1>5, <1>6, NoTypeIsHeader DEF HeaderOnly
<1>8. /\ awaited' = IF HeaderOnly(m) THEN "HEADER" ELSE Types[m.type + 1]
      /\ handled' = IF HeaderOnly(m) THEN handled + 1 ELSE handled
      /\ sent' = sent /\ receiver' = receiver
  BY <1>5, <1>6, <1>7 DEF ReadHeader
<1>9. Framed'
  <2>1. wire' \in Seq(Seq(Byte))
    BY <1>1, <1>2
  <2> QED
    BY <1>1, <1>3, <1>8, <2>1 DEF Framed
<1>10. Awaiting'
  <2>1. CASE HeaderOnly(m)
    BY <1>8, <2>1 DEF Awaiting
  <2>2. CASE ~ HeaderOnly(m)
    BY <1>3, <1>6, <1>8, <2>2 DEF Awaiting, m
  <2> QED
    BY <2>1, <2>2
<1>11. InStep'
  <2>1. CASE HeaderOnly(m)
    BY <1>5, <1>8, <2>1, InStepNext DEF rest
  <2>2. CASE ~ HeaderOnly(m)
    <3>1. awaited' # "HEADER"
      BY <1>6, <1>8, <2>2, NoTypeIsHeader
    <3>2. Left(sent, handled) = Frames(m) \o rest
      BY <1>1, <1>3, LeftNext DEF m, rest
    <3>3. wire' = Tail(Left(sent, handled))
      BY <1>2, <1>3, <3>2
    <3> QED
      BY <1>8, <2>2, <3>1, <3>3, InStepNext
  <2> QED
    BY <2>1, <2>2
<1> QED
  BY <1>9, <1>10, <1>11 DEF FramingInv

(***************************************************************************)
(* A payload that is read, and accepted, finishes its message.             *)
(***************************************************************************)
LEMMA FramingReadPayload ==
  ASSUME FramingInv, ReadPayload
  PROVE  FramingInv'
<1>1. /\ sent \in Seq(Messages) /\ wire \in Seq(Seq(Byte)) /\ handled \in 0 .. Len(sent)
      /\ Len(sent) \in Nat
  BY LenProperties DEF FramingInv, Framed
<1>2. /\ Receives /\ awaited # "HEADER" /\ wire' = Tail(wire) /\ wire # << >>
      /\ awaited' = "HEADER" /\ handled' = handled + 1 /\ sent' = sent /\ receiver' = receiver
  BY DEF ReadPayload, Receives
<1>3. /\ handled < Len(sent) /\ handled + 1 \in 0 .. Len(sent)
      /\ IsMessage(sent[handled + 1]) /\ Left(sent, handled + 1) \in Seq(Seq(Byte))
      /\ wire = <<Encode(sent[handled + 1])>> \o Left(sent, handled + 1)
  BY <1>2, NextMessage
<1>4. wire' = Left(sent, handled + 1)
  <2>1. /\ <<Encode(sent[handled + 1])>> \in Seq(Seq(Byte)) /\ <<Encode(sent[handled + 1])>> # << >>
        /\ Tail(<<Encode(sent[handled + 1])>>) = << >>
    BY <1>3, EncodeType
  <2>2. Tail(wire) = << >> \o Left(sent, handled + 1)
    BY <1>3, <2>1, TailOfConcat, ZenonT(40)
  <2> QED
    BY <1>2, <1>3, <2>2, ConcatEmptySeq
<1>5. Framed' /\ Awaiting'
  BY <1>1, <1>2, <1>3, <1>4 DEF Framed, Awaiting
<1>6. InStep'
  BY <1>2, <1>4, InStepNext
<1> QED
  BY <1>5, <1>6 DEF FramingInv

(***************************************************************************)
(* A loop that has ended promises nothing of the wire.                     *)
(***************************************************************************)
LEMMA FramingEnd ==
  ASSUME FramingInv, Fail \/ Disconnect
  PROVE  FramingInv'
<1>1. /\ sent' = sent /\ awaited' = awaited /\ handled' = handled
      /\ wire' = wire \/ (wire # << >> /\ wire' = Tail(wire))
      /\ receiver' # "running"
  BY DEF Fail, Disconnect, Receives
<1>2. wire' \in Seq(Seq(Byte))
  <2>1. wire \in Seq(Seq(Byte))
    BY DEF FramingInv, Framed
  <2>2. CASE wire # << >> /\ wire' = Tail(wire)
    BY <2>1, <2>2
  <2> QED
    BY <1>1, <2>1, <2>2
<1> QED
  BY <1>1, <1>2, InStepNext DEF FramingInv, Framed, Awaiting

LEMMA FramingStep == FramingInv /\ [Next]_vars => FramingInv'
<1> SUFFICES ASSUME FramingInv, [Next]_vars PROVE FramingInv'
  OBVIOUS
<1>1. CASE ReadHeader
  BY <1>1, FramingReadHeader
<1>2. CASE ReadPayload
  BY <1>2, FramingReadPayload
<1>3. CASE Fail \/ Disconnect
  BY <1>3, FramingEnd
<1>4. ASSUME NEW m \in Messages, Send(m) PROVE FramingInv'
  BY <1>4, FramingSend
<1>5. CASE UNCHANGED vars
  BY <1>5, InStepIs, InStepNext DEF vars, FramingInv, Framed, Awaiting
<1> QED
  BY <1>1, <1>2, <1>3, <1>4, <1>5 DEF Next, Loop

(***************************************************************************)
(* The loop never takes a payload for a header or a header for a payload   *)
(* (_receive_loop and _read_header, adapter/client.py), whatever messages  *)
(* are sent, of whatever length.                                           *)
(***************************************************************************)
THEOREM StaysInStep == Spec => []InStep
<1>1. Spec => []FramingInv
  BY FramingInit, FramingStep, PTL DEF Spec
<1>2. FramingInv => InStep
  BY DEF FramingInv
<1> QED
  BY <1>1, <1>2, PTL

-------------------------------------------------------------------------------
(***************************************************************************)
(* What FoldLeft computes when it records events: a chain of caches, from  *)
(* the first one to the result, one event at a time.                       *)
(***************************************************************************)
Recorded(kind, d, e) == IF kind = "EVENT_VALUES" THEN SetValue(d, e) ELSE SetText(d, e)

AllRecorded(kind, d, es) ==
    IF kind = "EVENT_VALUES" THEN FoldLeft(SetValue, d, es) ELSE FoldLeft(SetText, d, es)

Iterates(f, kind, d, es, S) ==
    f = [s \in SUBSET S |-> IF s = {} THEN d
                            ELSE Recorded(kind, f[s \ {Max(s)}], es[Max(s)])]

LEMMA MaxOfInterval ==
  ASSUME NEW n \in Nat, NEW s \in SUBSET (1 .. n + 1), n + 1 \in s
  PROVE  Max(s) = n + 1
<1>1. \A y \in s : n + 1 >= y
  OBVIOUS
<1>2. \E x \in s : \A y \in s : x >= y
  BY <1>1
<1>3. Max(s) \in s /\ \A y \in s : Max(s) >= y
  BY <1>2 DEF Max
<1>4. Max(s) >= n + 1 /\ n + 1 >= Max(s) /\ Max(s) \in 1 .. n + 1
  BY <1>1, <1>3
<1> QED
  BY <1>4

LEMMA IterationExists ==
  ASSUME NEW kind, NEW d, NEW es
  PROVE  \A n \in Nat : \E f : Iterates(f, kind, d, es, 1 .. n)
<1> DEFINE S == {n \in Nat : \E f : Iterates(f, kind, d, es, 1 .. n)}
<1>1. 0 \in S
  <2>1. 1 .. 0 = {}
    OBVIOUS
  <2>2. Iterates([s \in SUBSET {} |-> d], kind, d, es, {})
    BY DEF Iterates
  <2> QED
    BY <2>1, <2>2
<1>2. ASSUME NEW n \in Nat, n \in S PROVE n + 1 \in S
  <2>1. PICK f : Iterates(f, kind, d, es, 1 .. n)
    BY <1>2
  <2>2. \A s \in SUBSET (1 .. n) :
           f[s] = IF s = {} THEN d ELSE Recorded(kind, f[s \ {Max(s)}], es[Max(s)])
    BY <2>1 DEF Iterates
  <2> DEFINE g == [s \in SUBSET (1 .. n + 1) |->
                     IF s \in SUBSET (1 .. n) THEN f[s]
                     ELSE Recorded(kind, f[s \ {n + 1}], es[n + 1])]
  <2>3. ASSUME NEW s \in SUBSET (1 .. n + 1)
        PROVE  g[s] = IF s = {} THEN d ELSE Recorded(kind, g[s \ {Max(s)}], es[Max(s)])
    <3>1. CASE s \in SUBSET (1 .. n)
      <4>1. s \ {Max(s)} \in SUBSET (1 .. n) /\ s \ {Max(s)} \in SUBSET (1 .. n + 1)
        BY <3>1
      <4>2. g[s] = f[s] /\ g[s \ {Max(s)}] = f[s \ {Max(s)}]
        BY <3>1, <4>1
      <4> HIDE DEF g
      <4> QED
        BY <2>2, <3>1, <4>2
    <3>2. CASE s \notin SUBSET (1 .. n)
      <4>1. n + 1 \in s
        <5>1. \A i \in 1 .. n + 1 : i \in 1 .. n \/ i = n + 1
          OBVIOUS
        <5> QED
          BY <3>2, <5>1
      <4>2. Max(s) = n + 1 /\ s # {}
        BY <4>1, MaxOfInterval
      <4>3. s \ {n + 1} \in SUBSET (1 .. n) /\ s \ {n + 1} \in SUBSET (1 .. n + 1)
        OBVIOUS
      <4>4. g[s] = Recorded(kind, f[s \ {n + 1}], es[n + 1]) /\ g[s \ {n + 1}] = f[s \ {n + 1}]
        BY <3>2, <4>3
      <4> HIDE DEF g
      <4> QED
        BY <4>2, <4>4
    <3> QED
      BY <3>1, <3>2
  <2>4. Iterates(g, kind, d, es, 1 .. n + 1)
    BY <2>3 DEF Iterates
  <2> QED
    BY <2>4
<1> HIDE DEF S
<1>3. \A n \in Nat : n \in S
  BY <1>1, <1>2, SetInduction
<1> QED
  BY <1>3 DEF S

LEMMA FoldIsIteration ==
  ASSUME NEW kind, NEW d, NEW es, NEW n \in Nat, DOMAIN es = 1 .. n
  PROVE  \E f : Iterates(f, kind, d, es, 1 .. n) /\ AllRecorded(kind, d, es) = f[1 .. n]
<1>1. CASE kind = "EVENT_VALUES"
  <2> DEFINE h == CHOOSE iter : iter = [s \in SUBSET (1 .. n) |->
                    IF s = {} THEN d ELSE SetValue(iter[s \ {Max(s)}], es[Max(s)])]
  <2>1. FoldLeft(SetValue, d, es) = h[1 .. n]
    BY DEF FoldLeft, MapThenFoldSet
  <2>2. \E f : f = [s \in SUBSET (1 .. n) |->
                    IF s = {} THEN d ELSE SetValue(f[s \ {Max(s)}], es[Max(s)])]
    <3>1. PICK f : Iterates(f, kind, d, es, 1 .. n)
      BY IterationExists
    <3>2. \A s : Recorded(kind, f[s \ {Max(s)}], es[Max(s)]) = SetValue(f[s \ {Max(s)}], es[Max(s)])
      BY <1>1 DEF Recorded
    <3>3. \A s : (IF s = {} THEN d ELSE Recorded(kind, f[s \ {Max(s)}], es[Max(s)]))
                 = (IF s = {} THEN d ELSE SetValue(f[s \ {Max(s)}], es[Max(s)]))
      BY <3>2
    <3>4. f = [s \in SUBSET (1 .. n) |->
                    IF s = {} THEN d ELSE SetValue(f[s \ {Max(s)}], es[Max(s)])]
      BY <3>1, <3>3 DEF Iterates
    <3> QED
      BY <3>4, Zenon
  <2>3. h = [s \in SUBSET (1 .. n) |->
                    IF s = {} THEN d ELSE SetValue(h[s \ {Max(s)}], es[Max(s)])]
    BY <2>2
  <2> HIDE DEF h
  <2>4. Iterates(h, kind, d, es, 1 .. n)
    BY <1>1, <2>3 DEF Iterates, Recorded
  <2> QED
    BY <1>1, <2>1, <2>4 DEF AllRecorded
<1>2. CASE kind # "EVENT_VALUES"
  <2> DEFINE h == CHOOSE iter : iter = [s \in SUBSET (1 .. n) |->
                    IF s = {} THEN d ELSE SetText(iter[s \ {Max(s)}], es[Max(s)])]
  <2>1. FoldLeft(SetText, d, es) = h[1 .. n]
    BY DEF FoldLeft, MapThenFoldSet
  <2>2. \E f : f = [s \in SUBSET (1 .. n) |->
                    IF s = {} THEN d ELSE SetText(f[s \ {Max(s)}], es[Max(s)])]
    <3>1. PICK f : Iterates(f, kind, d, es, 1 .. n)
      BY IterationExists
    <3>2. \A s : Recorded(kind, f[s \ {Max(s)}], es[Max(s)]) = SetText(f[s \ {Max(s)}], es[Max(s)])
      BY <1>2 DEF Recorded
    <3>3. \A s : (IF s = {} THEN d ELSE Recorded(kind, f[s \ {Max(s)}], es[Max(s)]))
                 = (IF s = {} THEN d ELSE SetText(f[s \ {Max(s)}], es[Max(s)]))
      BY <3>2
    <3>4. f = [s \in SUBSET (1 .. n) |->
                    IF s = {} THEN d ELSE SetText(f[s \ {Max(s)}], es[Max(s)])]
      BY <3>1, <3>3 DEF Iterates
    <3> QED
      BY <3>4, Zenon
  <2>3. h = [s \in SUBSET (1 .. n) |->
                    IF s = {} THEN d ELSE SetText(h[s \ {Max(s)}], es[Max(s)])]
    BY <2>2
  <2> HIDE DEF h
  <2>4. Iterates(h, kind, d, es, 1 .. n)
    BY <1>2, <2>3 DEF Iterates, Recorded
  <2> QED
    BY <1>2, <2>1, <2>4 DEF AllRecorded
<1> QED
  BY <1>1, <1>2

(***************************************************************************)
(* The chain: r[k] is the cache after k events.                            *)
(***************************************************************************)
Chain(r, kind, d, es, n) ==
    /\ r[0] = d
    /\ \A k \in 1 .. n : r[k] = Recorded(kind, r[k - 1], es[k])

LEMMA FoldIsChain ==
  ASSUME NEW kind, NEW d, NEW es, NEW n \in Nat, DOMAIN es = 1 .. n
  PROVE  \E r : Chain(r, kind, d, es, n) /\ AllRecorded(kind, d, es) = r[n]
<1>1. PICK f : Iterates(f, kind, d, es, 1 .. n) /\ AllRecorded(kind, d, es) = f[1 .. n]
  BY FoldIsIteration
<1>2. \A s \in SUBSET (1 .. n) :
         f[s] = IF s = {} THEN d ELSE Recorded(kind, f[s \ {Max(s)}], es[Max(s)])
  BY <1>1 DEF Iterates
<1> DEFINE r == [k \in 0 .. n |-> f[1 .. k]]
<1>3. r[0] = d
  <2>1. 1 .. 0 = {} /\ 0 \in 0 .. n
    OBVIOUS
  <2> QED
    BY <1>2, <2>1
<1>4. ASSUME NEW k \in 1 .. n PROVE r[k] = Recorded(kind, r[k - 1], es[k])
  <2>1. PICK j \in Nat : k = j + 1 /\ j = k - 1
    <3>1. k - 1 \in Nat /\ k = (k - 1) + 1
      OBVIOUS
    <3> QED
      BY <3>1
  <2>2. 1 .. k \in SUBSET (1 .. n) /\ 1 .. k # {} /\ 1 .. k \in SUBSET (1 .. j + 1) /\ j + 1 \in 1 .. k
    BY <2>1
  <2>3. Max(1 .. k) = k
    BY <2>1, <2>2, MaxOfInterval
  <2>4. (1 .. k) \ {k} = 1 .. j
    BY <2>1
  <2>5. f[1 .. k] = Recorded(kind, f[1 .. j], es[k])
    BY <1>2, <2>2, <2>3, <2>4
  <2>6. k \in 0 .. n /\ j \in 0 .. n
    BY <2>1
  <2> QED
    BY <2>1, <2>5, <2>6
<1>5. Chain(r, kind, d, es, n) /\ AllRecorded(kind, d, es) = r[n]
  <2>1. n \in 0 .. n
    OBVIOUS
  <2> QED
    BY <1>1, <1>3, <1>4, <2>1 DEF Chain
<1> QED
  BY <1>5

(***************************************************************************)
(* The cache keeps its type, event by event.                               *)
(***************************************************************************)
Double == [1 .. ValueLength -> Byte]
Ascii == 0 .. 127
Stored == [value : {Missing} \union Double, text : {Missing} \union Seq(Ascii)]

Storable(kind, e) == IF kind = "EVENT_VALUES" THEN e.value \in Double ELSE e.text \in Seq(Ascii)

LEMMA RecordedType ==
  ASSUME NEW kind, NEW d \in [Uuids -> Stored], NEW e, Storable(kind, e)
  PROVE  Recorded(kind, d, e) \in [Uuids -> Stored]
<1>1. CASE kind = "EVENT_VALUES"
  <2>1. [d EXCEPT ![e.uuid].value = e.value] \in [Uuids -> Stored]
    BY <1>1 DEF Storable, Stored
  <2> QED
    BY <1>1, <2>1 DEF Recorded, SetValue
<1>2. CASE kind # "EVENT_VALUES"
  <2>1. [d EXCEPT ![e.uuid].text = e.text] \in [Uuids -> Stored]
    BY <1>2 DEF Storable, Stored
  <2> QED
    BY <1>2, <2>1 DEF Recorded, SetText
<1> QED
  BY <1>1, <1>2

LEMMA AllRecordedType ==
  ASSUME NEW kind, NEW d \in [Uuids -> Stored], NEW es, NEW n \in Nat, DOMAIN es = 1 .. n,
         \A i \in 1 .. n : Storable(kind, es[i])
  PROVE  AllRecorded(kind, d, es) \in [Uuids -> Stored]
<1>1. PICK r : Chain(r, kind, d, es, n) /\ AllRecorded(kind, d, es) = r[n]
  BY FoldIsChain
<1> DEFINE S == {k \in Nat : k <= n => r[k] \in [Uuids -> Stored]}
<1>2. 0 \in S
  BY <1>1 DEF Chain
<1>3. ASSUME NEW k \in Nat, k \in S PROVE k + 1 \in S
  <2> SUFFICES ASSUME k + 1 <= n PROVE r[k + 1] \in [Uuids -> Stored]
    OBVIOUS
  <2>1. k <= n /\ k + 1 \in 1 .. n /\ (k + 1) - 1 = k
    OBVIOUS
  <2>2. r[k + 1] = Recorded(kind, r[k], es[k + 1])
    BY <1>1, <2>1 DEF Chain
  <2>3. r[k] \in [Uuids -> Stored]
    BY <1>3, <2>1
  <2> QED
    BY <2>1, <2>2, <2>3, RecordedType
<1> HIDE DEF S
<1>4. \A k \in Nat : k \in S
  BY <1>2, <1>3, SetInduction
<1>5. r[n] \in [Uuids -> Stored]
  BY <1>4 DEF S
<1> QED
  BY <1>1, <1>5

(***************************************************************************)
(* Records of one length lie inside the payload they are counted in.       *)
(***************************************************************************)
LEMMA RecordInside ==
  ASSUME NEW a \in Nat, NEW l \in Nat \ {0}, NEW i \in 1 .. (a \div l)
  PROVE  (i - 1) * l \in Nat /\ (i - 1) * l + l <= a
<1>1. PICK q \in Nat : q = a \div l /\ q * l <= a
  OBVIOUS
<1>2. i - 1 \in Nat /\ q - i \in Nat
  BY <1>1
<1>3. \A x, y \in Nat : x * y \in Nat
  OBVIOUS
<1>4. (i - 1) * l \in Nat /\ (q - i) * l \in Nat
  BY <1>2, <1>3
<1>5. (i - 1) * l + l + (q - i) * l = q * l
  BY <1>1
<1> QED
  BY <1>1, <1>4, <1>5

LEMMA SliceIs ==
  ASSUME NEW T, NEW b \in Seq(T), NEW o \in Nat, NEW n \in Nat, o + n <= Len(b)
  PROVE  /\ Slice(b, o, n) \in Seq(T) /\ Len(Slice(b, o, n)) = n
         /\ Slice(b, o, n) \in [1 .. n -> T]
         /\ \A i \in 1 .. n : Slice(b, o, n)[i] = b[o + i]
<1>1. PICK f \in Nat : f = o + 1
  OBVIOUS
<1>2. PICK t \in Nat : t = o + n /\ t <= Len(b) /\ t - f + 1 = n /\ (f <= t <=> n # 0)
  <2>1. o + n \in Nat /\ (o + n) - f + 1 = n /\ (f <= o + n <=> n # 0)
    BY <1>1
  <2> QED
    BY <2>1
<1>3. Len(b) \in Nat /\ \A i \in 1 .. Len(b) : b[i] \in T
  BY LenProperties
<1>4. \A i \in f .. t : b[i] \in T
  <2>1. \A i \in f .. t : i \in 1 .. Len(b)
    BY <1>1, <1>2, <1>3
  <2> QED
    BY <1>3, <2>1
<1>5. f \in Int /\ t \in Int
  OBVIOUS
<1>6. /\ SubSeq(b, f, t) \in Seq(T)
      /\ Len(SubSeq(b, f, t)) = IF f <= t THEN t - f + 1 ELSE 0
      /\ \A i \in 1 .. t - f + 1 : SubSeq(b, f, t)[i] = b[f + i - 1]
  BY <1>4, <1>5, SubSeqProperties
<1>7. Slice(b, o, n) = SubSeq(b, f, t)
  BY <1>1, <1>2 DEF Slice
<1>8. \A i \in 1 .. n : SubSeq(b, f, t)[i] = b[o + i]
  <2> TAKE i \in 1 .. n
  <2>1. i \in 1 .. t - f + 1 /\ f + i - 1 = o + i
    BY <1>1, <1>2
  <2>2. SubSeq(b, f, t)[i] = b[f + i - 1]
    BY <1>6, <2>1
  <2> QED
    BY <2>1, <2>2
<1>9. SubSeq(b, f, t) \in Seq(T) /\ Len(SubSeq(b, f, t)) = n
  BY <1>2, <1>6
<1>10. SubSeq(b, f, t) \in [1 .. n -> T]
  BY <1>9, LenProperties
<1> QED
  BY <1>7, <1>8, <1>9, <1>10

(***************************************************************************)
(* parse_value_events: a double of every record it accepts.                *)
(***************************************************************************)
LEMMA ValuesAreStorable ==
  ASSUME NEW b \in Seq(Byte), ParseValueEvents(b) # Malformed
  PROVE  \E n \in Nat :
            /\ DOMAIN ParseValueEvents(b) = 1 .. n
            /\ \A i \in 1 .. n : Storable("EVENT_VALUES", ParseValueEvents(b)[i])
<1>1. PICK l \in Nat \ {0} : l = ValueEventLength
  BY LengthsAssumption DEF ValueEventLength
<1>2. Len(b) \in Nat
  BY LenProperties
<1>3. PICK n \in Nat : n = Len(b) \div l
  BY <1>2
<1>4. ParseValueEvents(b) =
        [i \in 1 .. n |->
           [uuid |-> Slice(b, (i - 1) * l, UuidLength),
            value |-> Slice(b, (i - 1) * l + UuidLength, ValueLength)]]
  BY <1>1, <1>3 DEF ParseValueEvents
<1>5. ASSUME NEW i \in 1 .. n
      PROVE  Slice(b, (i - 1) * l + UuidLength, ValueLength) \in Double
  <2>1. i \in 1 .. (Len(b) \div l)
    BY <1>3
  <2>2. PICK o \in Nat : o = (i - 1) * l /\ o + l <= Len(b)
    BY <1>2, <2>1, RecordInside
  <2>3. o + UuidLength \in Nat /\ ValueLength \in Nat /\ (o + UuidLength) + ValueLength <= Len(b)
    BY <1>1, <1>2, <2>2, LengthsAssumption DEF ValueEventLength
  <2>4. Slice(b, o + UuidLength, ValueLength) \in [1 .. ValueLength -> Byte]
    BY <2>3, SliceIs
  <2> QED
    BY <2>2, <2>4 DEF Double
<1>6. \A i \in 1 .. n : Storable("EVENT_VALUES", ParseValueEvents(b)[i])
  BY <1>4, <1>5 DEF Storable
<1> QED
  BY <1>4, <1>6

(***************************************************************************)
(* parse_text_events: the function that scans the records exists, since    *)
(* every record has a length, and whatever it accepts is storable.         *)
(***************************************************************************)
ScanFrom(f, b, o) ==
    IF o = Len(b) THEN << >>
    ELSE IF o + TextEventHeaderLength > Len(b) THEN Malformed
    ELSE LET start == o + TextEventHeaderLength
             n == Unsigned32(Slice(b, o + 2 * UuidLength, 4))
             end == start + n + Padding(n)
             text == Slice(b, start, n)
         IN  IF end > Len(b) \/ \E i \in DOMAIN text : text[i] > 127 THEN Malformed
             ELSE IF f[end] = Malformed THEN Malformed
             ELSE <<[uuid |-> Slice(b, o, UuidLength), text |-> text]>> \o f[end]

Scans(f, b) == f = [o \in 0 .. Len(b) |-> ScanFrom(f, b, o)]

TextLength(b, o) == Unsigned32(Slice(b, o + 2 * UuidLength, 4))
TextStart(o) == o + TextEventHeaderLength
TextEnd(b, o) == TextStart(o) + TextLength(b, o) + Padding(TextLength(b, o))
Text(b, o) == Slice(b, TextStart(o), TextLength(b, o))

LEMMA ScanFromIs ==
  ASSUME NEW f, NEW b, NEW o
  PROVE  ScanFrom(f, b, o) =
            IF o = Len(b) THEN << >>
            ELSE IF TextStart(o) > Len(b) THEN Malformed
            ELSE IF TextEnd(b, o) > Len(b) \/ \E i \in DOMAIN Text(b, o) : Text(b, o)[i] > 127
                 THEN Malformed
            ELSE IF f[TextEnd(b, o)] = Malformed THEN Malformed
            ELSE <<[uuid |-> Slice(b, o, UuidLength), text |-> Text(b, o)]>> \o f[TextEnd(b, o)]
BY DEF ScanFrom, TextEnd, TextStart, TextLength, Text

LEMMA Unsigned32Type ==
  ASSUME NEW l \in [1 .. 4 -> Byte]
  PROVE  Unsigned32(l) \in Nat
<1>1. \A i \in 1 .. 4 : l[i] \in Nat
  BY DEF Byte
<1>2. PICK p, q, r, s \in Nat : p = l[1] /\ q = l[2] /\ r = l[3] /\ s = l[4]
  BY <1>1
<1>3. p + 256 * q + 65536 * r + 16777216 * s \in Nat
  OBVIOUS
<1> QED
  BY <1>2, <1>3 DEF Unsigned32

LEMMA TextPlace ==
  ASSUME NEW b \in Seq(Byte), NEW o \in 0 .. Len(b), TextStart(o) <= Len(b)
  PROVE  /\ TextStart(o) \in Nat /\ o < TextStart(o)
         /\ TextLength(b, o) \in Nat
         /\ TextEnd(b, o) \in Nat /\ TextStart(o) + TextLength(b, o) <= TextEnd(b, o)
<1>1. Len(b) \in Nat /\ UuidLength \in Nat /\ 2 * UuidLength \in Nat
  BY LenProperties, LengthsAssumption
<1>2. TextStart(o) = (o + 2 * UuidLength) + 4 /\ o + 2 * UuidLength \in Nat
  BY <1>1 DEF TextStart, TextEventHeaderLength
<1>3. Slice(b, o + 2 * UuidLength, 4) \in [1 .. 4 -> Byte]
  BY <1>1, <1>2, SliceIs
<1>4. TextLength(b, o) \in Nat
  BY <1>3, Unsigned32Type DEF TextLength
<1>5. Padding(TextLength(b, o)) \in 0 .. 3
  BY <1>4 DEF Padding
<1> QED
  BY <1>1, <1>2, <1>4, <1>5 DEF TextEnd

LEMMA ScanDependsOnLater ==
  ASSUME NEW b \in Seq(Byte), NEW o \in 0 .. Len(b), NEW f, NEW g,
         \A p \in 0 .. Len(b) : p > o => f[p] = g[p]
  PROVE  ScanFrom(f, b, o) = ScanFrom(g, b, o)
<1>1. CASE o = Len(b)
  BY <1>1, ScanFromIs
<1>2. CASE TextStart(o) > Len(b)
  BY <1>2, ScanFromIs
<1>3. CASE o # Len(b) /\ ~ (TextStart(o) > Len(b)) /\ TextEnd(b, o) > Len(b)
  BY <1>3, ScanFromIs
<1>4. CASE o # Len(b) /\ ~ (TextStart(o) > Len(b)) /\ ~ (TextEnd(b, o) > Len(b))
  <2>1. Len(b) \in Nat
    BY LenProperties
  <2>2. TextStart(o) <= Len(b)
    BY <1>4, <2>1, LengthsAssumption DEF TextStart, TextEventHeaderLength
  <2>3. TextEnd(b, o) \in 0 .. Len(b) /\ TextEnd(b, o) > o
    BY <1>4, <2>1, <2>2, TextPlace
  <2>4. f[TextEnd(b, o)] = g[TextEnd(b, o)]
    BY <2>3
  <2> QED
    BY <1>4, <2>4, ScanFromIs
<1> QED
  BY <1>1, <1>2, <1>3, <1>4

LEMMA ScanExists ==
  ASSUME NEW b \in Seq(Byte)
  PROVE  \E f : Scans(f, b)
<1>1. Len(b) \in Nat
  BY LenProperties
<1> DEFINE Good(f, k) == \A o \in 0 .. Len(b) : o >= Len(b) - k => f[o] = ScanFrom(f, b, o)
           S == {k \in Nat : \E f : f = [o \in 0 .. Len(b) |-> f[o]] /\ Good(f, k)}
<1>2. 0 \in S
  <2> DEFINE f == [o \in 0 .. Len(b) |-> << >>]
  <2>1. \A o \in 0 .. Len(b) : o >= Len(b) - 0 => o = Len(b)
    BY <1>1
  <2>2. Good(f, 0)
    BY <2>1, ScanFromIs
  <2>3. f = [o \in 0 .. Len(b) |-> f[o]]
    OBVIOUS
  <2> QED
    BY <2>2, <2>3
<1>3. ASSUME NEW k \in Nat, k \in S PROVE k + 1 \in S
  <2>1. PICK f : f = [o \in 0 .. Len(b) |-> f[o]] /\ Good(f, k)
    BY <1>3
  <2> DEFINE g == [o \in 0 .. Len(b) |-> IF o >= Len(b) - k THEN f[o] ELSE ScanFrom(f, b, o)]
  <2>2. ASSUME NEW o \in 0 .. Len(b), o >= Len(b) - (k + 1) PROVE g[o] = ScanFrom(g, b, o)
    <3>1. \A p \in 0 .. Len(b) : p > o => p >= Len(b) - k
      BY <1>1, <2>2
    <3>2. \A p \in 0 .. Len(b) : p > o => f[p] = g[p]
      BY <3>1
    <3>3. g[o] = IF o >= Len(b) - k THEN f[o] ELSE ScanFrom(f, b, o)
      OBVIOUS
    <3> HIDE DEF g
    <3>4. ScanFrom(f, b, o) = ScanFrom(g, b, o)
      BY <3>2, ScanDependsOnLater
    <3>5. o >= Len(b) - k => f[o] = ScanFrom(f, b, o)
      BY <2>1
    <3> QED
      BY <3>3, <3>4, <3>5
  <2>3. g = [o \in 0 .. Len(b) |-> g[o]]
    OBVIOUS
  <2>4. Good(g, k + 1)
    BY <2>2
  <2> HIDE DEF g
  <2>5. \E e : e = [o \in 0 .. Len(b) |-> e[o]] /\ Good(e, k + 1)
    BY <2>3, <2>4
  <2>6. k + 1 \in Nat
    OBVIOUS
  <2> QED
    BY <2>5, <2>6
<1> HIDE DEF S
<1>4. \A k \in Nat : k \in S
  BY <1>2, <1>3, SetInduction
<1>5. PICK f : f = [o \in 0 .. Len(b) |-> f[o]] /\ Good(f, Len(b))
  BY <1>1, <1>4 DEF S
<1>6. \A o \in 0 .. Len(b) : o >= Len(b) - Len(b)
  BY <1>1
<1>7. \A o \in 0 .. Len(b) : f[o] = ScanFrom(f, b, o)
  BY <1>5, <1>6
<1>8. Scans(f, b)
  BY <1>5, <1>7 DEF Scans
<1> QED
  BY <1>8

LEMMA ParseIsScan ==
  ASSUME NEW b \in Seq(Byte)
  PROVE  \E f : Scans(f, b) /\ ParseTextEvents(b) = f[0]
<1> DEFINE h == CHOOSE record : record = [o \in 0 .. Len(b) |-> ScanFrom(record, b, o)]
<1>1. ParseTextEvents(b) = h[0]
  BY DEF ParseTextEvents, ScanFrom
<1>2. \E f : f = [o \in 0 .. Len(b) |-> ScanFrom(f, b, o)]
  BY ScanExists DEF Scans
<1>3. h = [o \in 0 .. Len(b) |-> ScanFrom(h, b, o)]
  BY <1>2
<1> HIDE DEF h
<1> QED
  BY <1>1, <1>3 DEF Scans

LEMMA TextsAreStorable ==
  ASSUME NEW b \in Seq(Byte), ParseTextEvents(b) # Malformed
  PROVE  \E n \in Nat :
            /\ DOMAIN ParseTextEvents(b) = 1 .. n
            /\ \A i \in 1 .. n : Storable("EVENT_TEXT", ParseTextEvents(b)[i])
<1> DEFINE Texts == [uuid : Seq(Byte), text : Seq(Ascii)]
<1>1. Len(b) \in Nat
  BY LenProperties
<1>2. PICK f : Scans(f, b) /\ ParseTextEvents(b) = f[0]
  BY ParseIsScan
<1>3. \A o \in 0 .. Len(b) : f[o] = ScanFrom(f, b, o)
  BY <1>2 DEF Scans
<1> DEFINE S == {k \in Nat : \A o \in 0 .. Len(b) :
                    o >= Len(b) - k => f[o] = Malformed \/ f[o] \in Seq(Texts)}
<1> HIDE DEF Texts
<1>4. ASSUME NEW o \in 0 .. Len(b),
             \A p \in 0 .. Len(b) : p > o => f[p] = Malformed \/ f[p] \in Seq(Texts)
      PROVE  f[o] = Malformed \/ f[o] \in Seq(Texts)
  <2>1. CASE o = Len(b)
    BY <1>3, <2>1, ScanFromIs, EmptySeq
  <2>2. CASE o # Len(b) /\ TextStart(o) > Len(b)
    BY <1>3, <2>2, ScanFromIs
  <2>3. CASE o # Len(b) /\ ~ (TextStart(o) > Len(b)) /\ TextEnd(b, o) > Len(b)
    BY <1>3, <2>3, ScanFromIs
  <2>4. CASE /\ o # Len(b) /\ ~ (TextStart(o) > Len(b)) /\ ~ (TextEnd(b, o) > Len(b))
             /\ f[o] # Malformed
    <3>1. TextStart(o) <= Len(b)
      BY <1>1, <2>4, LengthsAssumption DEF TextStart, TextEventHeaderLength
    <3>2. /\ TextStart(o) \in Nat /\ o < TextStart(o) /\ TextLength(b, o) \in Nat
          /\ TextEnd(b, o) \in Nat /\ TextStart(o) + TextLength(b, o) <= TextEnd(b, o)
      BY <3>1, TextPlace
    <3>3. TextEnd(b, o) \in 0 .. Len(b) /\ TextEnd(b, o) > o
      BY <1>1, <2>4, <3>2
    <3>4. f[o] = IF \E i \in DOMAIN Text(b, o) : Text(b, o)[i] > 127 THEN Malformed
                 ELSE IF f[TextEnd(b, o)] = Malformed THEN Malformed
                 ELSE <<[uuid |-> Slice(b, o, UuidLength), text |-> Text(b, o)]>> \o f[TextEnd(b, o)]
      BY <1>3, <2>4, ScanFromIs
    <3>5. /\ ~ \E i \in DOMAIN Text(b, o) : Text(b, o)[i] > 127
          /\ f[TextEnd(b, o)] # Malformed
          /\ f[o] = <<[uuid |-> Slice(b, o, UuidLength), text |-> Text(b, o)]>> \o f[TextEnd(b, o)]
      BY <2>4, <3>4
    <3>6. f[TextEnd(b, o)] \in Seq(Texts)
      BY <1>4, <3>3, <3>5
    <3>7. Text(b, o) \in [1 .. TextLength(b, o) -> Byte]
      <4>1. TextStart(o) + TextLength(b, o) <= Len(b)
        BY <1>1, <3>2, <3>3
      <4> QED
        BY <3>2, <4>1, SliceIs DEF Text
    <3>8. Text(b, o) \in Seq(Ascii)
      <4>1. Text(b, o) \in [1 .. TextLength(b, o) -> Ascii]
        <5>1. PICK t : t = Text(b, o)
          OBVIOUS
        <5>2. t \in [1 .. TextLength(b, o) -> 0 .. 255] /\ \A i \in DOMAIN t : ~ (t[i] > 127)
          BY <3>5, <3>7, <5>1 DEF Byte
        <5>4. DOMAIN t = 1 .. TextLength(b, o) /\ t = [i \in 1 .. TextLength(b, o) |-> t[i]]
          BY <5>2
        <5>3. ASSUME NEW i \in 1 .. TextLength(b, o) PROVE t[i] \in 0 .. 127
          <6>1. t[i] \in 0 .. 255
            BY <5>2
          <6>2. ~ (t[i] > 127)
            BY <5>2
          <6>3. PICK x \in 0 .. 255 : x = t[i]
            BY <6>1
          <6>4. ~ (x > 127)
            BY <6>2, <6>3
          <6>5. x <= 127
            BY <6>4
          <6>6. x \in 0 .. 127
            BY <6>5
          <6> QED
            BY <6>3, <6>6
        <5> QED
          BY <5>1, <5>3, <5>4 DEF Ascii
      <4> QED
        BY <3>2, <4>1, IntervalSeq
    <3>9. Slice(b, o, UuidLength) \in Seq(Byte)
      <4>1. o + UuidLength <= Len(b) /\ UuidLength \in Nat /\ o \in Nat
        BY <1>1, <3>1, LengthsAssumption DEF TextStart, TextEventHeaderLength
      <4> QED
        BY <4>1, SliceIs
    <3>10. [uuid |-> Slice(b, o, UuidLength), text |-> Text(b, o)] \in Texts
      BY <3>8, <3>9 DEF Texts
    <3>11. <<[uuid |-> Slice(b, o, UuidLength), text |-> Text(b, o)]>> \in Seq(Texts)
      BY <3>10
    <3> QED
      BY <3>5, <3>6, <3>11, ConcatProperties
  <2> QED
    BY <2>1, <2>2, <2>3, <2>4
<1>5. 0 \in S
  <2>1. ASSUME NEW o \in 0 .. Len(b), o >= Len(b) - 0 PROVE f[o] = Malformed \/ f[o] \in Seq(Texts)
    <3>1. \A p \in 0 .. Len(b) : ~ (p > o)
      BY <1>1, <2>1
    <3> QED
      BY <1>4, <3>1
  <2> QED
    BY <2>1
<1>6. ASSUME NEW k \in Nat, k \in S PROVE k + 1 \in S
  <2>1. ASSUME NEW o \in 0 .. Len(b), o >= Len(b) - (k + 1)
        PROVE  f[o] = Malformed \/ f[o] \in Seq(Texts)
    <3>1. \A p \in 0 .. Len(b) : p > o => p >= Len(b) - k
      BY <1>1, <2>1
    <3>2. \A p \in 0 .. Len(b) : p > o => f[p] = Malformed \/ f[p] \in Seq(Texts)
      BY <1>6, <3>1
    <3> QED
      BY <1>4, <3>2
  <2>2. k + 1 \in Nat
    OBVIOUS
  <2> QED
    BY <2>1, <2>2
<1> HIDE DEF S
<1>7. \A k \in Nat : k \in S
  BY <1>5, <1>6, SetInduction
<1>8. f[0] \in Seq(Texts)
  <2>1. 0 \in 0 .. Len(b) /\ 0 >= Len(b) - Len(b)
    BY <1>1
  <2>2. Len(b) \in S
    BY <1>1, <1>7
  <2> QED
    BY <1>2, <2>1, <2>2 DEF S
<1>9. \A i \in 1 .. Len(f[0]) : Storable("EVENT_TEXT", f[0][i])
  <2> TAKE i \in 1 .. Len(f[0])
  <2>1. f[0][i] \in Texts
    BY <1>8, ElementOfSeq
  <2>2. f[0][i].text \in Seq(Ascii)
    BY <2>1 DEF Texts
  <2> QED
    BY <2>2 DEF Storable
<1>10. Len(f[0]) \in Nat /\ DOMAIN f[0] = 1 .. Len(f[0])
  BY <1>8, LenProperties
<1> QED
  BY <1>2, <1>9, <1>10

-------------------------------------------------------------------------------
(***************************************************************************)
(* The type invariant: what the parsers accept is what the cache may hold. *)
(***************************************************************************)
StreamInv ==
    /\ FramingInv
    /\ Len(sent) <= MaxSent
    /\ receiver \in {"running", "failed", "ended"}
    /\ data \in [Uuids -> Stored]

LEMMA StreamInit == Init => StreamInv
<1> SUFFICES ASSUME Init PROVE StreamInv
  OBVIOUS
<1>1. FramingInv
  BY FramingInit
<1>2. Len(sent) <= MaxSent
  BY MaxSentAssumption, EmptySeq DEF Init
<1>3. data \in [Uuids -> Stored]
  BY DEF Init, NoEntry, Stored
<1> QED
  BY <1>1, <1>2, <1>3 DEF Init, StreamInv

LEMMA PayloadStored ==
  ASSUME StreamInv, ReadPayload
  PROVE  data' \in [Uuids -> Stored]
<1>1. Head(wire) \in Seq(Byte)
  BY DEF StreamInv, FramingInv, Framed, ReadPayload, Receives
<1>2. data \in [Uuids -> Stored]
  BY DEF StreamInv
<1>3. CASE /\ ParseValueEvents(Head(wire)) # Malformed
           /\ data' = FoldLeft(SetValue, data, ParseValueEvents(Head(wire)))
  <2>1. PICK es : es = ParseValueEvents(Head(wire))
    OBVIOUS
  <2>2. PICK n \in Nat : DOMAIN es = 1 .. n /\ \A i \in 1 .. n : Storable("EVENT_VALUES", es[i])
    BY <1>1, <1>3, <2>1, ValuesAreStorable
  <2>3. AllRecorded("EVENT_VALUES", data, es) \in [Uuids -> Stored]
    BY <1>2, <2>2, AllRecordedType
  <2>4. AllRecorded("EVENT_VALUES", data, es) = FoldLeft(SetValue, data, es)
    BY DEF AllRecorded
  <2> QED
    BY <1>3, <2>1, <2>3, <2>4
<1>4. CASE /\ ParseTextEvents(Head(wire)) # Malformed
           /\ data' = FoldLeft(SetText, data, ParseTextEvents(Head(wire)))
  <2>1. PICK es : es = ParseTextEvents(Head(wire))
    OBVIOUS
  <2>2. PICK n \in Nat : DOMAIN es = 1 .. n /\ \A i \in 1 .. n : Storable("EVENT_TEXT", es[i])
    BY <1>1, <1>4, <2>1, TextsAreStorable
  <2>3. AllRecorded("EVENT_TEXT", data, es) \in [Uuids -> Stored]
    BY <1>2, <2>2, AllRecordedType
  <2>4. AllRecorded("EVENT_TEXT", data, es) = FoldLeft(SetText, data, es)
    BY DEF AllRecorded
  <2> QED
    BY <1>4, <2>1, <2>3, <2>4
<1>5. CASE data' = data
  BY <1>2, <1>5
<1> QED
  BY <1>3, <1>4, <1>5 DEF ReadPayload

LEMMA StreamStep == StreamInv /\ [Next]_vars => StreamInv'
<1> SUFFICES ASSUME StreamInv, [Next]_vars PROVE StreamInv'
  OBVIOUS
<1>1. FramingInv /\ FramingInv'
  BY FramingStep DEF StreamInv
<1>2. CASE ReadHeader
  BY <1>1, <1>2 DEF ReadHeader, StreamInv
<1>3. CASE ReadPayload
  <2>1. data' \in [Uuids -> Stored]
    BY <1>3, PayloadStored
  <2> QED
    BY <1>1, <1>3, <2>1 DEF ReadPayload, StreamInv
<1>4. CASE Fail
  BY <1>1, <1>4 DEF Fail, StreamInv
<1>5. CASE Disconnect
  BY <1>1, <1>5 DEF Disconnect, StreamInv
<1>6. ASSUME NEW m \in Messages, Send(m) PROVE StreamInv'
  <2>1. sent \in Seq(Messages) /\ Len(sent) \in Nat
    BY <1>1, LenProperties DEF FramingInv, Framed
  <2>2. Len(sent') <= MaxSent
    <3>1. Len(sent') = Len(sent) + 1
      BY <1>6, <2>1 DEF Send
    <3> QED
      BY <1>6, <2>1, <3>1, MaxSentAssumption DEF Send
  <2> QED
    BY <1>1, <1>6, <2>2 DEF Send, StreamInv
<1>7. CASE UNCHANGED vars
  BY <1>1, <1>7 DEF vars, StreamInv
<1> QED
  BY <1>2, <1>3, <1>4, <1>5, <1>6, <1>7 DEF Next, Loop

LEMMA StreamTyped == StreamInv => TypeOK
<1> SUFFICES ASSUME StreamInv PROVE TypeOK
  OBVIOUS
<1>1. /\ sent \in Seq(Messages) /\ wire \in Seq(Seq(Byte)) /\ handled \in 0 .. Len(sent)
      /\ Len(sent) \in Nat
  BY LenProperties DEF StreamInv, FramingInv, Framed
<1>2. awaited \in {"HEADER"} \union {Types[i] : i \in DOMAIN Types}
  <2> SUFFICES ASSUME awaited # "HEADER" PROVE awaited \in {Types[i] : i \in DOMAIN Types}
    OBVIOUS
  <2>1. /\ handled < Len(sent) /\ sent[handled + 1].type < Len(Types)
        /\ awaited = Types[sent[handled + 1].type + 1]
    BY DEF StreamInv, FramingInv, Awaiting
  <2>2. sent[handled + 1] \in Messages
    BY <1>1, <2>1, LeftNext
  <2>3. sent[handled + 1].type \in 0 .. 255
    BY <2>2, MessagesAssumption DEF IsMessage
  <2>4. PICK t \in 0 .. 255 : t = sent[handled + 1].type
    BY <2>3
  <2>5. t + 1 \in DOMAIN Types
    <3>1. t < Len(Types)
      BY <2>1, <2>4
    <3> QED
      BY <3>1 DEF Types
  <2> QED
    BY <2>1, <2>4, <2>5
<1>3. ASSUME NEW u \in Uuids
      PROVE  /\ data[u].value \in {Missing} \union [1 .. ValueLength -> 0 .. 255]
             /\ data[u].text \in {Missing} \union Seq(0 .. 127)
  <2>1. data[u] \in [value : {Missing} \union [1 .. ValueLength -> 0 .. 255],
                      text : {Missing} \union Seq(0 .. 127)]
    BY DEF StreamInv, Stored, Double, Ascii, Byte
  <2> QED
    BY <2>1
<1> QED
  BY <1>1, <1>2, <1>3 DEF StreamInv, TypeOK, Byte

(***************************************************************************)
(* The receive loop, the parsers and the StateStore (client.py,            *)
(* messages.py, state.py) keep their types, whatever messages are sent.    *)
(***************************************************************************)
THEOREM TypeCorrect == Spec => []TypeOK
<1>1. Spec => []StreamInv
  BY StreamInit, StreamStep, PTL DEF Spec
<1> QED
  BY <1>1, StreamTyped, PTL

-------------------------------------------------------------------------------
(***************************************************************************)
(* Where the parts of a flattened sequence lie: o[i] is the number of      *)
(* elements before its i-th part.                                          *)
(***************************************************************************)
Places(o, ss) ==
    /\ o[1] = 0
    /\ o[Len(ss) + 1] = Len(FlattenSeq(ss))
    /\ \A i \in 1 .. Len(ss) + 1 : o[i] \in Nat /\ o[i] <= Len(FlattenSeq(ss))
    /\ \A i \in 1 .. Len(ss) :
          /\ o[i + 1] = o[i] + Len(ss[i])
          /\ \A j \in 1 .. Len(ss[i]) : FlattenSeq(ss)[o[i] + j] = ss[i][j]

LEMMA PlacesAppend ==
  ASSUME NEW T, NEW ss \in Seq(Seq(T)), NEW x \in Seq(T), NEW o, Places(o, ss)
  PROVE  Places([i \in 1 .. Len(ss) + 2 |-> IF i <= Len(ss) + 1 THEN o[i]
                                            ELSE Len(FlattenSeq(ss)) + Len(x)],
                Append(ss, x))
<1>1. PICK n \in Nat : n = Len(ss)
  BY LenProperties
<1>2. PICK tt : tt = Append(ss, x)
  OBVIOUS
<1>3. PICK w : w = FlattenSeq(ss)
  OBVIOUS
<1>4. PICK v : v = FlattenSeq(tt)
  OBVIOUS
<1>5. PICK q : q = [i \in 1 .. Len(ss) + 2 |-> IF i <= Len(ss) + 1 THEN o[i]
                                               ELSE Len(FlattenSeq(ss)) + Len(x)]
  OBVIOUS
<1>6. /\ Len(tt) = n + 1 /\ tt[n + 1] = x
      /\ \A i \in 1 .. n : tt[i] = ss[i]
  BY <1>1, <1>2
<1>7. w \in Seq(T) /\ Len(w) \in Nat /\ Len(x) \in Nat /\ v = w \o x
  BY <1>2, <1>3, <1>4, FlattenType, FlattenAppend, LenProperties
<1>8. /\ Len(v) = Len(w) + Len(x)
      /\ \A i \in 1 .. Len(w) + Len(x) : v[i] = IF i <= Len(w) THEN w[i] ELSE x[i - Len(w)]
  BY <1>7, ConcatProperties, Zenon
<1>9. /\ o[1] = 0
      /\ o[n + 1] = Len(w)
      /\ \A i \in 1 .. n + 1 : o[i] \in Nat /\ o[i] <= Len(w)
      /\ \A i \in 1 .. n : /\ o[i + 1] = o[i] + Len(ss[i])
                           /\ \A j \in 1 .. Len(ss[i]) : w[o[i] + j] = ss[i][j]
  BY <1>1, <1>3 DEF Places
<1>10. /\ \A i \in 1 .. n + 1 : q[i] = o[i]
       /\ q[(n + 1) + 1] = Len(w) + Len(x)
  <2>1. (n + 1) + 1 = n + 2 /\ \A i \in 1 .. n + 1 : i \in 1 .. n + 2
    OBVIOUS
  <2> QED
    BY <1>1, <1>3, <1>5, <2>1
<1>11. q[1] = 0
  BY <1>9, <1>10
<1>12. ASSUME NEW i \in 1 .. (n + 1) + 1 PROVE q[i] \in Nat /\ q[i] <= Len(v)
  <2>1. CASE i \in 1 .. n + 1
    <3>1. PICK a \in Nat : a = o[i] /\ a <= Len(w)
      BY <1>9, <2>1
    <3> QED
      BY <1>7, <1>8, <1>10, <2>1, <3>1
  <2>2. CASE i \notin 1 .. n + 1
    <3>1. i = (n + 1) + 1
      BY <2>2
    <3> QED
      BY <1>7, <1>8, <1>10, <3>1
  <2> QED
    BY <2>1, <2>2
<1>13. ASSUME NEW i \in 1 .. n + 1
       PROVE  /\ q[i + 1] = q[i] + Len(tt[i])
              /\ \A j \in 1 .. Len(tt[i]) : v[q[i] + j] = tt[i][j]
  <2>1. CASE i \in 1 .. n
    <3>1. i + 1 \in 1 .. n + 1
      BY <2>1
    <3>2. q[i] = o[i] /\ q[i + 1] = o[i + 1] /\ tt[i] = ss[i]
      BY <1>6, <1>10, <2>1, <3>1
    <3>3. PICK a, b \in Nat : a = o[i] /\ b = o[i + 1] /\ b <= Len(w)
      BY <1>9, <3>1
    <3>4. PICK l \in Nat : l = Len(ss[i]) /\ b = a + l
      <4>1. ss[i] \in Seq(T)
        BY <1>1, <2>1, ElementOfSeq
      <4>2. Len(ss[i]) \in Nat
        BY <4>1, LenProperties
      <4> QED
        BY <1>9, <2>1, <3>3, <4>2
    <3>5. ASSUME NEW j \in 1 .. l PROVE v[a + j] = ss[i][j]
      <4>1. a + j \in 1 .. Len(w) + Len(x) /\ a + j <= Len(w)
        <5>1. Len(w) \in Nat /\ Len(x) \in Nat /\ a + l <= Len(w)
          BY <1>7, <3>3, <3>4
        <5>2. a + j \in Nat /\ 1 <= a + j /\ a + j <= a + l
          OBVIOUS
        <5> QED
          BY <5>1, <5>2
      <4>2. w[a + j] = ss[i][j]
        BY <1>9, <2>1, <3>3, <3>4
      <4> QED
        BY <1>8, <4>1, <4>2
    <3>6. q[i + 1] = q[i] + Len(tt[i])
      BY <3>2, <3>3, <3>4
    <3>7. \A j \in 1 .. Len(tt[i]) : v[q[i] + j] = tt[i][j]
      BY <3>2, <3>3, <3>4, <3>5
    <3> QED
      BY <3>6, <3>7
  <2>2. CASE i = n + 1
    <3>1. /\ q[n + 1] = Len(w) /\ q[(n + 1) + 1] = Len(w) + Len(x) /\ tt[n + 1] = x
      BY <1>6, <1>9, <1>10
    <3>2. ASSUME NEW j \in 1 .. Len(x) PROVE v[Len(w) + j] = x[j]
      <4>1. Len(w) + j \in 1 .. Len(w) + Len(x) /\ ~ (Len(w) + j <= Len(w)) /\ (Len(w) + j) - Len(w) = j
        BY <1>7
      <4> QED
        BY <1>8, <4>1
    <3> QED
      BY <2>2, <3>1, <3>2
  <2> QED
    BY <2>1, <2>2
<1>14. Places(q, tt)
  <2>1. Len(tt) + 1 = (n + 1) + 1 /\ q[Len(tt) + 1] = Len(v)
    BY <1>6, <1>8, <1>10
  <2> QED
    BY <1>4, <1>6, <1>11, <1>12, <1>13, <2>1 DEF Places
<1> QED
  BY <1>2, <1>5, <1>14

LEMMA PlacesExist ==
  ASSUME NEW T, NEW ss \in Seq(Seq(T))
  PROVE  \E o : Places(o, ss)
<1> DEFINE S == {k \in Nat : \A tt \in Seq(Seq(T)) : Len(tt) = k => \E o : Places(o, tt)}
<1>1. 0 \in S
  <2>1. ASSUME NEW tt \in Seq(Seq(T)), Len(tt) = 0 PROVE \E o : Places(o, tt)
    <3>1. tt = << >>
      BY <2>1, EmptySeq
    <3>2. FlattenSeq(tt) = << >> /\ Len(FlattenSeq(tt)) = 0
      BY <3>1, FlattenEmpty, EmptySeq
    <3>3. Places([i \in {1} |-> 0], tt)
      BY <2>1, <3>2 DEF Places
    <3> QED
      BY <3>3
  <2> QED
    BY <2>1
<1>2. ASSUME NEW k \in Nat, k \in S PROVE k + 1 \in S
  <2>1. ASSUME NEW tt \in Seq(Seq(T)), Len(tt) = k + 1 PROVE \E o : Places(o, tt)
    <3>1. tt # << >>
      BY <2>1, EmptySeq
    <3>2. PICK rr \in Seq(Seq(T)), x \in Seq(T) : tt = Append(rr, x)
      BY <3>1, SequenceEmptyOrAppend
    <3>3. Len(rr) = k
      <4>1. Len(tt) = Len(rr) + 1 /\ Len(rr) \in Nat
        BY <3>2, LenProperties
      <4> QED
        BY <2>1, <4>1
    <3>4. PICK o : Places(o, rr)
      BY <1>2, <3>3
    <3> QED
      BY <3>2, <3>4, PlacesAppend
  <2>2. k + 1 \in Nat
    OBVIOUS
  <2> QED
    BY <2>1, <2>2
<1> HIDE DEF S
<1>3. \A k \in Nat : k \in S
  BY <1>1, <1>2, SetInduction
<1>4. Len(ss) \in S
  BY <1>3, LenProperties
<1> QED
  BY <1>4 DEF S

(***************************************************************************)
(* The encoding of a message: o[i] is where its i-th event starts, and a   *)
(* message that is cut is cut inside its last event.                       *)
(***************************************************************************)
Parts(m) == [i \in DOMAIN m.events |-> Record(m, m.events[i])]

LEMMA PartsAre ==
  ASSUME NEW m, IsMessage(m)
  PROVE  /\ Len(m.events) \in Nat /\ DOMAIN m.events = 1 .. Len(m.events)
         /\ Parts(m) \in Seq(Seq(Byte)) /\ Len(Parts(m)) = Len(m.events)
         /\ \A i \in 1 .. Len(m.events) : IsEvent(m, m.events[i])
         /\ \A i \in 1 .. Len(m.events) : Parts(m)[i] = Record(m, m.events[i])
         /\ Records(m) = FlattenSeq(Parts(m))
<1>1. m.events \in Seq(Range(m.events))
  BY DEF IsMessage
<1>2. Len(m.events) \in Nat /\ DOMAIN m.events = 1 .. Len(m.events)
  BY <1>1, LenProperties
<1>3. \A i \in DOMAIN m.events : Record(m, m.events[i]) \in Seq(Byte)
  BY RecordType DEF IsMessage
<1>4. Parts(m) \in [1 .. Len(m.events) -> Seq(Byte)]
  BY <1>2, <1>3 DEF Parts
<1>5. Parts(m) \in Seq(Seq(Byte)) /\ Len(Parts(m)) = Len(m.events)
  BY <1>2, <1>4, IntervalSeq
<1> QED
  BY <1>2, <1>5 DEF Parts, Records, IsMessage

Encoded(m, o, n, b) ==
    /\ b \in Seq(Byte) /\ Len(b) \in Nat
    /\ Len(b) = o[n + 1] - m.cut
    /\ \A i \in 1 .. n + 1 : o[i] \in Nat
    /\ \A i \in 1 .. n :
          /\ o[i + 1] = o[i] + Len(Record(m, m.events[i]))
          /\ \A j \in 1 .. Len(Record(m, m.events[i])) :
                o[i] + j <= Len(b) => b[o[i] + j] = Record(m, m.events[i])[j]
    /\ m.cut # 0 => n # 0 /\ o[n] < Len(b)

LEMMA EncodeIs ==
  ASSUME NEW m, IsMessage(m), NEW o, Places(o, Parts(m)),
         NEW n \in Nat, n = Len(m.events), NEW b, b = Encode(m)
  PROVE  Encoded(m, o, n, b)
<1> DEFINE w == Records(m)
<1>1. /\ Parts(m) \in Seq(Seq(Byte)) /\ Len(Parts(m)) = n
      /\ \A i \in 1 .. n : IsEvent(m, m.events[i])
      /\ \A i \in 1 .. n : Parts(m)[i] = Record(m, m.events[i])
      /\ w = FlattenSeq(Parts(m))
  BY PartsAre
<1>2. w \in Seq(Byte) /\ Len(w) \in Nat
  BY <1>1, FlattenType, LenProperties
<1>3. /\ o[1] = 0
      /\ o[n + 1] = Len(w)
      /\ \A i \in 1 .. n + 1 : o[i] \in Nat /\ o[i] <= Len(w)
      /\ \A i \in 1 .. n : /\ o[i + 1] = o[i] + Len(Record(m, m.events[i]))
                           /\ \A j \in 1 .. Len(Record(m, m.events[i])) :
                                 w[o[i] + j] = Record(m, m.events[i])[j]
  BY <1>1 DEF Places
<1>4. ASSUME NEW i \in 1 .. n
      PROVE  Record(m, m.events[i]) \in Seq(Byte) /\ Len(Record(m, m.events[i])) \in Nat
  BY <1>1, RecordType, LenProperties
<1> HIDE DEF w
<1>5. b \in Seq(Byte) /\ Len(b) \in Nat /\ m.cut \in Nat
  BY EncodeType DEF IsMessage
<1>6. m.cut # 0 => n # 0 /\ m.cut < Len(Record(m, m.events[n]))
  <2> SUFFICES ASSUME m.cut # 0 PROVE n # 0 /\ m.cut < Len(Record(m, m.events[n]))
    OBVIOUS
  <2>1. m.events # << >> /\ m.cut < Len(Record(m, Last(m.events)))
    BY DEF IsMessage
  <2>2. n # 0
    <3>1. m.events \in Seq(Range(m.events))
      BY DEF IsMessage
    <3> QED
      BY <2>1, <3>1, EmptySeq
  <2>3. Last(m.events) = m.events[n]
    BY DEF Last
  <2> QED
    BY <2>1, <2>2, <2>3
<1>7. m.cut # 0 => o[n] \in Nat /\ o[n] < Len(w) - m.cut
  <2> SUFFICES ASSUME m.cut # 0 PROVE o[n] \in Nat /\ o[n] < Len(w) - m.cut
    OBVIOUS
  <2>1. n \in 1 .. n /\ n \in 1 .. n + 1
    BY <1>6
  <2>2. PICK l \in Nat : l = Len(Record(m, m.events[n])) /\ m.cut < l
    BY <1>4, <1>6, <2>1
  <2>3. Len(w) = o[n] + l /\ o[n] \in Nat
    BY <1>3, <2>1, <2>2
  <2> QED
    BY <1>5, <2>2, <2>3
<1>8. PICK t \in Nat : t = Len(w) - m.cut
  <2>1. Len(w) - m.cut \in Nat
    BY <1>2, <1>5, <1>7
  <2> QED
    BY <2>1
<1>9. t <= Len(w)
  BY <1>2, <1>5, <1>8
<1>10. b = SubSeq(w, 1, t)
  BY <1>8 DEF Encode, w
<1>11. Len(b) = t /\ \A x \in 1 .. t : b[x] = w[x]
  <2>1. \A x \in 1 .. t : w[x] \in Byte
    BY <1>2, <1>9, ElementOfSeq
  <2>2. 1 \in Int /\ t \in Int
    OBVIOUS
  <2>3. /\ Len(SubSeq(w, 1, t)) = IF 1 <= t THEN t - 1 + 1 ELSE 0
        /\ \A x \in 1 .. t - 1 + 1 : SubSeq(w, 1, t)[x] = w[1 + x - 1]
    BY <2>1, <2>2, SubSeqProperties
  <2>4. t - 1 + 1 = t /\ \A x \in 1 .. t : 1 + x - 1 = x
    OBVIOUS
  <2> QED
    BY <1>10, <2>3, <2>4
<1>12. ASSUME NEW i \in 1 .. n, NEW j \in 1 .. Len(Record(m, m.events[i])), o[i] + j <= Len(b)
       PROVE  b[o[i] + j] = Record(m, m.events[i])[j]
  <2>1. o[i] \in Nat /\ j \in Nat \ {0}
    BY <1>3, <1>4
  <2>2. o[i] + j \in 1 .. t
    BY <1>11, <1>12, <2>1
  <2> QED
    BY <1>3, <1>11, <2>2
<1>13. Len(b) = o[n + 1] - m.cut
  BY <1>3, <1>8, <1>11
<1>14. m.cut # 0 => n # 0 /\ o[n] < Len(b)
  BY <1>6, <1>7, <1>8, <1>11
<1> QED
  BY <1>3, <1>5, <1>12, <1>13, <1>14 DEF Encoded

(***************************************************************************)
(* The fields of a record.                                                 *)
(***************************************************************************)
Holds(b, o, s, n) == \A j \in 1 .. n : b[o + j] = s[j]

LEMMA SliceFinds ==
  ASSUME NEW b \in Seq(Byte), NEW s \in Seq(Byte), NEW o \in Nat, NEW n \in Nat,
         Len(s) = n, o + n <= Len(b), Holds(b, o, s, n)
  PROVE  Slice(b, o, n) = s
<1>1. /\ Slice(b, o, n) \in Seq(Byte) /\ Len(Slice(b, o, n)) = n
      /\ \A i \in 1 .. n : Slice(b, o, n)[i] = b[o + i]
  BY SliceIs
<1>2. \A i \in 1 .. n : Slice(b, o, n)[i] = s[i]
  BY <1>1 DEF Holds
<1> QED
  BY <1>1, <1>2, SeqEqual

IsConcat(c, s, t, k, n) ==
    /\ Len(c) = k + n
    /\ \A j \in 1 .. k : c[j] = s[j]
    /\ \A j \in 1 .. n : c[k + j] = t[j]

LEMMA ConcatIs ==
  ASSUME NEW T, NEW s \in Seq(T), NEW t \in Seq(T), NEW k \in Nat, NEW n \in Nat,
         Len(s) = k, Len(t) = n
  PROVE  s \o t \in Seq(T) /\ IsConcat(s \o t, s, t, k, n)
<1>1. /\ s \o t \in Seq(T)
      /\ Len(s \o t) = Len(s) + Len(t)
      /\ \A i \in 1 .. Len(s) + Len(t) :
            (s \o t)[i] = IF i <= Len(s) THEN s[i] ELSE t[i - Len(s)]
  BY ConcatProperties, Zenon
<1>2. ASSUME NEW j \in 1 .. k PROVE (s \o t)[j] = s[j]
  <2>1. j \in 1 .. k + n /\ j <= k
    OBVIOUS
  <2> QED
    BY <1>1, <2>1
<1>3. ASSUME NEW j \in 1 .. n PROVE (s \o t)[k + j] = t[j]
  <2>1. k + j \in 1 .. k + n /\ ~ (k + j <= k) /\ (k + j) - k = j
    OBVIOUS
  <2> QED
    BY <1>1, <2>1
<1> QED
  BY <1>1, <1>2, <1>3 DEF IsConcat

LEMMA ValueRecordIs ==
  ASSUME NEW m, NEW e, IsEvent(m, e), m.type = 2
  PROVE  /\ Len(Record(m, e)) = ValueEventLength
         /\ e = [uuid |-> e.uuid, value |-> e.value]
         /\ e.uuid \in Seq(Byte) /\ Len(e.uuid) = UuidLength
         /\ e.value \in Seq(Byte) /\ Len(e.value) = ValueLength
         /\ \A j \in 1 .. UuidLength : Record(m, e)[j] = e.uuid[j]
         /\ \A j \in 1 .. ValueLength : Record(m, e)[UuidLength + j] = e.value[j]
<1>1. e.uuid \in Seq(Byte) /\ Len(e.uuid) = UuidLength
  BY UuidIsBytes DEF IsEvent
<1>2. e.value \in Seq(Byte) /\ Len(e.value) = ValueLength
  BY IntervalSeq, LengthsAssumption DEF IsEvent, Byte
<1>3. UuidLength \in Nat /\ ValueLength \in Nat
  BY LengthsAssumption
<1>4. IsConcat(e.uuid \o e.value, e.uuid, e.value, UuidLength, ValueLength)
  BY <1>1, <1>2, <1>3, ConcatIs
<1>5. Record(m, e) = e.uuid \o e.value /\ e = [uuid |-> e.uuid, value |-> e.value]
  BY DEF Record, IsEvent
<1> QED
  BY <1>1, <1>2, <1>4, <1>5 DEF IsConcat, ValueEventLength

TextFields(e, n, r, u) ==
    /\ e = [uuid |-> e.uuid, text |-> e.text]
    /\ e.uuid \in Seq(Byte) /\ Len(e.uuid) = UuidLength
    /\ e.text \in Seq(Byte) /\ FitsFourBytes(n)
    /\ Len(r) = u + 4 + n + Padding(n)
    /\ \A j \in 1 .. UuidLength : r[j] = e.uuid[j]
    /\ \A j \in 1 .. 4 : r[u + j] = Bytes32(n)[j]
    /\ \A j \in 1 .. n : r[(u + 4) + j] = e.text[j]

LEMMA TextRecordIs ==
  ASSUME NEW m, NEW e, IsEvent(m, e), m.type # 2, NEW n \in Nat, n = Len(e.text),
         NEW r, r = Record(m, e), NEW u \in Nat, u = 2 * UuidLength
  PROVE  TextFields(e, n, r, u)
<1>1. e.uuid \in Seq(Byte) /\ Len(e.uuid) = UuidLength /\ UuidLength \in Nat
  BY UuidIsBytes, LengthsAssumption DEF IsEvent
<1>2. e.text \in Seq(Byte) /\ FitsFourBytes(n)
  BY DEF IsEvent, Byte
<1>3. Bytes32(n) \in Seq(Byte) /\ Len(Bytes32(n)) = 4
  BY <1>2, Bytes32Type DEF Byte
<1> DEFINE p == CHOOSE p \in 0 .. 3 : (Len(e.text) + p) % 4 = 0
<1>4. p = Padding(n) /\ p \in Nat
  <2>1. \A x \in Nat : \E y \in 0 .. 3 : (x + y) % 4 = 0
    OBVIOUS
  <2>2. p \in 0 .. 3 /\ (n + p) % 4 = 0
    BY <2>1
  <2>3. \A x \in Nat : \A y \in 0 .. 3 : (x + y) % 4 = 0 => y = (4 - (x % 4)) % 4
    OBVIOUS
  <2>4. n \in Nat
    OBVIOUS
  <2> HIDE DEF p
  <2>5. p = (4 - (n % 4)) % 4
    BY <2>2, <2>3, <2>4
  <2>6. p = Padding(n)
    BY <2>5 DEF Padding
  <2>7. \A x \in 0 .. 3 : x \in Nat
    OBVIOUS
  <2> QED
    BY <2>2, <2>6, <2>7
<1> HIDE DEF p
<1>5. Zeros(p) \in Seq(Byte) /\ Len(Zeros(p)) = p
  <2>1. Zeros(p) \in [1 .. p -> Byte]
    BY <1>4 DEF Zeros, Byte
  <2> QED
    BY <1>4, <2>1, IntervalSeq
<1>6. PICK uu : uu = e.uuid \o e.uuid
  OBVIOUS
<1>7. /\ uu \in Seq(Byte) /\ Len(uu) = u
      /\ \A j \in 1 .. UuidLength : uu[j] = e.uuid[j]
  <2>1. UuidLength + UuidLength = u
    BY <1>1
  <2> QED
    BY <1>1, <1>6, <2>1, ConcatIs DEF IsConcat
<1>8. PICK ub : ub = uu \o Bytes32(n)
  OBVIOUS
<1>9. ub \in Seq(Byte) /\ IsConcat(ub, uu, Bytes32(n), u, 4)
  <2>1. 4 \in Nat /\ uu \in Seq(Byte) /\ Len(uu) = u
    BY <1>7
  <2>2. uu \o Bytes32(n) \in Seq(Byte) /\ IsConcat(uu \o Bytes32(n), uu, Bytes32(n), u, 4)
    BY <1>3, <2>1, ConcatIs, Zenon
  <2> QED
    BY <1>8, <2>2
<1>10. PICK h \in Nat : h = u + 4 /\ Len(ub) = h
  BY <1>9 DEF IsConcat
<1>11. PICK ut : ut = ub \o e.text
  OBVIOUS
<1>12. ut \in Seq(Byte) /\ IsConcat(ut, ub, e.text, h, n)
  BY <1>2, <1>9, <1>10, <1>11, ConcatIs
<1>13. PICK g \in Nat : g = h + n /\ Len(ut) = g
  BY <1>12 DEF IsConcat
<1>14. r = ut \o Zeros(p)
  BY <1>6, <1>8, <1>11 DEF Record, p
<1>15. IsConcat(r, ut, Zeros(p), g, p)
  BY <1>4, <1>5, <1>12, <1>13, <1>14, ConcatIs
<1>16. Len(r) = u + 4 + n + Padding(n)
  BY <1>4, <1>10, <1>13, <1>15 DEF IsConcat
<1>17. ASSUME NEW j \in 1 .. UuidLength PROVE r[j] = e.uuid[j]
  <2>1. j \in 1 .. u
    BY <1>1
  <2>2. j \in 1 .. h
    BY <1>10, <2>1
  <2>3. j \in 1 .. g
    BY <1>13, <2>2
  <2> QED
    BY <1>7, <1>9, <1>12, <1>15, <2>1, <2>2, <2>3 DEF IsConcat
<1>18. ASSUME NEW j \in 1 .. 4 PROVE r[u + j] = Bytes32(n)[j]
  <2>1. PICK k \in Nat : k = u + j /\ k \in 1 .. h /\ k \in 1 .. g
    <3>1. u + j \in Nat /\ u + j \in 1 .. h /\ u + j \in 1 .. g
      BY <1>10, <1>13
    <3> QED
      BY <3>1
  <2>2. r[k] = ut[k]
    BY <1>15, <2>1 DEF IsConcat
  <2>3. ut[k] = ub[k]
    BY <1>12, <2>1 DEF IsConcat
  <2>4. ub[u + j] = Bytes32(n)[j]
    BY <1>9 DEF IsConcat
  <2> QED
    BY <2>1, <2>2, <2>3, <2>4
<1>19. ASSUME NEW j \in 1 .. n PROVE r[(u + 4) + j] = e.text[j]
  <2>1. PICK k \in Nat : k = h + j /\ k = (u + 4) + j /\ k \in 1 .. g
    <3>1. h + j \in Nat /\ h + j = (u + 4) + j /\ h + j \in 1 .. g
      BY <1>10, <1>13
    <3> QED
      BY <3>1
  <2>2. r[k] = ut[k]
    BY <1>15, <2>1 DEF IsConcat
  <2>3. ut[h + j] = e.text[j]
    BY <1>12 DEF IsConcat
  <2> QED
    BY <2>1, <2>2, <2>3
<1>20. e = [uuid |-> e.uuid, text |-> e.text]
  BY DEF IsEvent
<1> QED
  BY <1>1, <1>2, <1>16, <1>17, <1>18, <1>19, <1>20 DEF TextFields

(***************************************************************************)
(* parse_value_events inverts the encoding of a whole message, and refuses *)
(* one that is cut.                                                        *)
(***************************************************************************)
LEMMA Multiples ==
  ASSUME NEW l \in Nat \ {0}, NEW k \in Nat, NEW c \in Nat, c < l, NEW x \in Nat, x = k * l - c
  PROVE  /\ x % l = 0 <=> c = 0
         /\ c = 0 => x \div l = k
<1>1. PICK q, r \in Nat : x = q * l + r /\ r < l /\ r = x % l /\ q = x \div l
  OBVIOUS
<1>2. \A a, b \in Nat : a * b \in Nat
  OBVIOUS
<1>3. k * l \in Nat /\ q * l \in Nat /\ k * l = q * l + r + c
  BY <1>1, <1>2
<1>4. CASE k <= q
  <2>1. PICK d \in Nat : q = k + d
    <3>1. q - k \in Nat /\ q = k + (q - k)
      BY <1>4
    <3> QED
      BY <3>1
  <2>2. d * l \in Nat /\ q * l = k * l + d * l
    BY <1>2, <2>1
  <2>3. r = 0 /\ c = 0 /\ d * l = 0
    BY <1>3, <2>2
  <2>4. d = 0
    <3>1. CASE d # 0
      <4>1. PICK f \in Nat : d = f + 1
        <5>1. d - 1 \in Nat /\ d = (d - 1) + 1
          BY <3>1
        <5> QED
          BY <5>1
      <4>2. f * l \in Nat /\ d * l = f * l + l
        BY <1>2, <4>1
      <4> QED
        BY <2>3, <4>2
    <3> QED
      BY <3>1
  <2> QED
    BY <1>1, <2>1, <2>3, <2>4
<1>5. CASE ~ (k <= q)
  <2>1. PICK d \in Nat : k = q + 1 + d
    <3>1. k - q - 1 \in Nat /\ k = q + 1 + (k - q - 1)
      BY <1>5
    <3> QED
      BY <3>1
  <2>2. d * l \in Nat /\ k * l = q * l + l + d * l
    BY <1>2, <2>1
  <2>3. l + d * l = r + c
    BY <1>3, <2>2
  <2>4. c # 0 /\ r # 0
    BY <1>1, <2>2, <2>3
  <2> QED
    BY <1>1, <2>4
<1> QED
  BY <1>4, <1>5

LEMMA ValuePlaces ==
  ASSUME NEW m, IsMessage(m), m.type = 2, NEW o, Places(o, Parts(m)),
         NEW n \in Nat, n = Len(m.events), NEW l \in Nat \ {0}, l = ValueEventLength
  PROVE  \A i \in 1 .. n + 1 : o[i] = (i - 1) * l
<1>1. /\ \A i \in 1 .. n : IsEvent(m, m.events[i])
      /\ \A i \in 1 .. n : Parts(m)[i] = Record(m, m.events[i])
      /\ Len(Parts(m)) = n
  BY PartsAre
<1>2. /\ o[1] = 0
      /\ \A i \in 1 .. n : o[i + 1] = o[i] + l
  BY <1>1, ValueRecordIs DEF Places
<1> DEFINE S == {k \in Nat : k + 1 \in 1 .. n + 1 => o[k + 1] = k * l}
<1>3. 0 \in S
  <2>1. 0 * l = 0 /\ 0 + 1 = 1
    OBVIOUS
  <2> QED
    BY <1>2, <2>1
<1>4. ASSUME NEW k \in Nat, k \in S PROVE k + 1 \in S
  <2> SUFFICES ASSUME (k + 1) + 1 \in 1 .. n + 1 PROVE o[(k + 1) + 1] = (k + 1) * l
    OBVIOUS
  <2>1. k + 1 \in 1 .. n /\ k + 1 \in 1 .. n + 1
    OBVIOUS
  <2>2. o[(k + 1) + 1] = o[k + 1] + l /\ o[k + 1] = k * l
    BY <1>2, <1>4, <2>1
  <2>3. (k + 1) * l = k * l + l
    OBVIOUS
  <2> QED
    BY <2>2, <2>3
<1> HIDE DEF S
<1>5. \A k \in Nat : k \in S
  BY <1>3, <1>4, SetInduction
<1>6. ASSUME NEW i \in 1 .. n + 1 PROVE o[i] = (i - 1) * l
  <2>1. i - 1 \in Nat /\ (i - 1) + 1 = i
    OBVIOUS
  <2> QED
    BY <1>5, <2>1 DEF S
<1> QED
  BY <1>6

(***************************************************************************)
(* parse_value_events (adapter/messages.py) returns exactly the events of  *)
(* the message, in order, and refuses every payload that misses bytes at   *)
(* its end.                                                                *)
(***************************************************************************)
THEOREM ValuesAreRead ==
  ASSUME NEW m, IsMessage(m), m.type = 2
  PROVE  ParseValueEvents(Encode(m)) = IF m.cut = 0 THEN m.events ELSE Malformed
<1>1. PICK n \in Nat : n = Len(m.events)
  BY PartsAre
<1>2. PICK o : Places(o, Parts(m))
  BY PartsAre, PlacesExist
<1>3. PICK b : b = Encode(m)
  OBVIOUS
<1>4. PICK l \in Nat \ {0} : l = ValueEventLength /\ l = UuidLength + ValueLength
  BY LengthsAssumption DEF ValueEventLength
<1>5. UuidLength \in Nat /\ ValueLength \in Nat
  BY LengthsAssumption
<1>6. \A i \in 1 .. n : IsEvent(m, m.events[i])
  BY <1>1, PartsAre
<1>7. /\ b \in Seq(Byte) /\ Len(b) \in Nat
      /\ Len(b) = o[n + 1] - m.cut
      /\ \A i \in 1 .. n :
            \A j \in 1 .. l : o[i] + j <= Len(b) => b[o[i] + j] = Record(m, m.events[i])[j]
      /\ m.cut # 0 => n # 0
  <2>1. \A i \in 1 .. n : Len(Record(m, m.events[i])) = l
    BY <1>4, <1>6, ValueRecordIs
  <2>2. Encoded(m, o, n, b)
    BY <1>1, <1>2, <1>3, EncodeIs
  <2> QED
    BY <2>1, <2>2 DEF Encoded
<1>8. \A i \in 1 .. n + 1 : o[i] = (i - 1) * l
  BY <1>1, <1>2, <1>4, ValuePlaces
<1>9. m.cut \in Nat /\ m.cut < l
  <2>1. m.cut \in Nat
    BY DEF IsMessage
  <2>2. ASSUME m.cut # 0 PROVE m.cut < l
    <3>1. n \in 1 .. n
      BY <1>7, <2>2
    <3>2. m.cut < Len(Record(m, Last(m.events))) /\ Last(m.events) = m.events[n]
      BY <1>1, <2>2 DEF IsMessage, Last
    <3> QED
      BY <1>4, <1>6, <3>1, <3>2, ValueRecordIs
  <2> QED
    BY <2>1, <2>2
<1>10. Len(b) = n * l - m.cut
  <2>1. n + 1 \in 1 .. n + 1 /\ (n + 1) - 1 = n
    OBVIOUS
  <2> QED
    BY <1>7, <1>8, <2>1
<1>11. /\ Len(b) % l = 0 <=> m.cut = 0
       /\ m.cut = 0 => Len(b) \div l = n
  <2>1. PICK x, c \in Nat : x = Len(b) /\ c = m.cut
    BY <1>7, <1>9
  <2>2. c < l /\ x = n * l - c
    BY <1>9, <1>10, <2>1
  <2>3. (x % l = 0 <=> c = 0) /\ (c = 0 => x \div l = n)
    BY <2>2, Multiples
  <2> QED
    BY <2>1, <2>3
<1>13. CASE m.cut # 0
  BY <1>3, <1>4, <1>11, <1>13 DEF ParseValueEvents
<1>14. CASE m.cut = 0
  <2>1. ParseValueEvents(b) =
          [i \in 1 .. n |->
             [uuid |-> Slice(b, (i - 1) * l, UuidLength),
              value |-> Slice(b, (i - 1) * l + UuidLength, ValueLength)]]
    BY <1>4, <1>11, <1>14 DEF ParseValueEvents
  <2>2. ASSUME NEW i \in 1 .. n
        PROVE  [uuid |-> Slice(b, (i - 1) * l, UuidLength),
                value |-> Slice(b, (i - 1) * l + UuidLength, ValueLength)] = m.events[i]
    <3>1. PICK a \in Nat : a = (i - 1) * l /\ a + l <= Len(b) /\ a = o[i]
      <4>1. i \in 1 .. (Len(b) \div l) /\ i \in 1 .. n + 1
        BY <1>11, <1>14
      <4> QED
        BY <1>7, <1>8, <4>1, RecordInside
    <3>2. PICK e : e = m.events[i]
      OBVIOUS
    <3>3. /\ e = [uuid |-> e.uuid, value |-> e.value]
          /\ e.uuid \in Seq(Byte) /\ Len(e.uuid) = UuidLength
          /\ e.value \in Seq(Byte) /\ Len(e.value) = ValueLength
          /\ \A j \in 1 .. UuidLength : Record(m, e)[j] = e.uuid[j]
          /\ \A j \in 1 .. ValueLength : Record(m, e)[UuidLength + j] = e.value[j]
      BY <1>6, <3>2, ValueRecordIs
    <3>4. \A j \in 1 .. l : b[a + j] = Record(m, e)[j]
      <4>1. \A j \in 1 .. l : a + j <= Len(b)
        BY <1>7, <3>1
      <4> QED
        BY <1>7, <3>1, <3>2, <4>1
    <3>5. Slice(b, a, UuidLength) = e.uuid
      <4>1. \A j \in 1 .. UuidLength : j \in 1 .. l
        BY <1>4, <1>5
      <4>2. Holds(b, a, e.uuid, UuidLength)
        BY <3>3, <3>4, <4>1 DEF Holds
      <4>3. a + UuidLength <= Len(b)
        BY <1>4, <1>5, <1>7, <3>1
      <4> QED
        BY <1>5, <1>7, <3>3, <4>2, <4>3, SliceFinds
    <3>6. Slice(b, a + UuidLength, ValueLength) = e.value
      <4>1. PICK c \in Nat : c = a + UuidLength
        BY <1>5
      <4>2. ASSUME NEW j \in 1 .. ValueLength PROVE b[c + j] = e.value[j]
        <5>1. UuidLength + j \in 1 .. l /\ a + (UuidLength + j) = c + j
          BY <1>4, <1>5, <4>1
        <5> QED
          BY <3>3, <3>4, <5>1
      <4>3. c + ValueLength <= Len(b)
        BY <1>4, <1>5, <1>7, <3>1, <4>1
      <4>4. Holds(b, c, e.value, ValueLength)
        BY <4>2 DEF Holds
      <4>5. Slice(b, c, ValueLength) = e.value
        BY <1>5, <1>7, <3>3, <4>3, <4>4, SliceFinds
      <4> QED
        BY <4>1, <4>5
    <3> QED
      BY <3>1, <3>2, <3>3, <3>5, <3>6
  <2>3. m.events = [i \in 1 .. n |-> m.events[i]]
    <3>1. m.events \in Seq(Range(m.events))
      BY DEF IsMessage
    <3>2. m.events \in [1 .. n -> Range(m.events)]
      BY <1>1, <3>1, LenProperties
    <3> QED
      BY <3>2
  <2> QED
    BY <1>3, <1>14, <2>1, <2>2, <2>3
<1> QED
  BY <1>13, <1>14

(***************************************************************************)
(* parse_text_events at the start of an event: it finds the event that was *)
(* encoded there, unless the payload ends before it does.                  *)
(***************************************************************************)
NotUtf8(e) == \E j \in DOMAIN e.text : e.text[j] > 127

LEMMA TextIsRead ==
  ASSUME NEW m, IsMessage(m), m.type # 2, NEW o, NEW n \in Nat, n = Len(m.events),
         NEW b, Encoded(m, o, n, b), NEW f, Scans(f, b),
         NEW i \in 1 .. n, o[i] < Len(b)
  PROVE  f[o[i]] = IF o[i + 1] > Len(b) \/ NotUtf8(m.events[i]) \/ f[o[i + 1]] = Malformed
                   THEN Malformed
                   ELSE <<m.events[i]>> \o f[o[i + 1]]
<1>1. PICK e : e = m.events[i]
  OBVIOUS
<1>2. IsEvent(m, e) /\ e.text \in Seq(0 .. 255)
  BY <1>1, PartsAre DEF IsEvent
<1>3. PICK k \in Nat : k = Len(e.text)
  BY <1>2, LenProperties
<1>4. PICK u \in Nat : u = 2 * UuidLength /\ UuidLength <= u /\ UuidLength \in Nat
  BY LengthsAssumption
<1>5. PICK r : r = Record(m, e)
  OBVIOUS
<1>6. /\ e = [uuid |-> e.uuid, text |-> e.text]
      /\ e.uuid \in Seq(Byte) /\ Len(e.uuid) = UuidLength
      /\ e.text \in Seq(Byte) /\ FitsFourBytes(k)
      /\ Len(r) = u + 4 + k + Padding(k)
      /\ \A j \in 1 .. UuidLength : r[j] = e.uuid[j]
      /\ \A j \in 1 .. 4 : r[u + j] = Bytes32(k)[j]
      /\ \A j \in 1 .. k : r[(u + 4) + j] = e.text[j]
  <2>1. TextFields(e, k, r, u)
    BY <1>2, <1>3, <1>4, <1>5, TextRecordIs
  <2> QED
    BY <2>1 DEF TextFields
<1>7. PICK p \in 0 .. 3 : p = Padding(k)
  <2>1. (4 - (k % 4)) % 4 \in 0 .. 3
    OBVIOUS
  <2> QED
    BY <2>1 DEF Padding
<1>8. PICK a \in Nat : a = o[i]
  BY DEF Encoded
<1>9. b \in Seq(Byte)
  BY DEF Encoded
<1>10. PICK l \in Nat : l = Len(b) /\ a < l
  BY <1>8 DEF Encoded
<1>11. PICK z \in Nat : z = u + 4 + k + p /\ Len(r) = z /\ o[i + 1] = a + z
  <2>1. u + 4 + k + p \in Nat /\ Len(r) = u + 4 + k + p
    BY <1>6, <1>7
  <2>2. o[i + 1] = a + Len(r)
    BY <1>1, <1>5, <1>8 DEF Encoded
  <2> QED
    BY <2>1, <2>2
<1>12. \A j \in 1 .. z : a + j <= l => b[a + j] = r[j]
  BY <1>1, <1>5, <1>8, <1>10, <1>11 DEF Encoded
<1>13. a # Len(b) /\ a \in 0 .. Len(b)
  BY <1>10
<1>14. f[a] = ScanFrom(f, b, a)
  BY <1>13 DEF Scans
<1>15. TextStart(a) = a + u + 4
  BY <1>4 DEF TextStart, TextEventHeaderLength
<1>16. CASE a + u + 4 > l
  <2>1. f[a] = Malformed
    BY <1>10, <1>13, <1>14, <1>15, <1>16, ScanFromIs
  <2>2. o[i + 1] > l
    BY <1>11, <1>16
  <2> QED
    BY <1>8, <1>10, <2>1, <2>2
<1>17. CASE ~ (a + u + 4 > l)
  <2>1. ~ (TextStart(a) > Len(b)) /\ a + u + 4 <= l
    BY <1>10, <1>15, <1>17
  <2>2. Slice(b, a + u, 4) = Bytes32(k)
    <3>1. PICK c \in Nat : c = a + u /\ c + 4 <= Len(b)
      BY <1>10, <2>1
    <3>2. ASSUME NEW j \in 1 .. 4 PROVE b[c + j] = Bytes32(k)[j]
      <4>1. u + j \in 1 .. z /\ a + (u + j) = c + j /\ a + (u + j) <= l
        BY <1>11, <2>1, <3>1
      <4>2. b[a + (u + j)] = r[u + j]
        BY <1>12, <4>1
      <4> QED
        BY <1>6, <4>1, <4>2
    <3>3. Bytes32(k) \in Seq(Byte) /\ Len(Bytes32(k)) = 4
      BY <1>6, Bytes32Type DEF Byte
    <3>4. Holds(b, c, Bytes32(k), 4)
      BY <3>2 DEF Holds
    <3>5. Slice(b, c, 4) = Bytes32(k)
      <4>1. 4 \in Nat
        OBVIOUS
      <4> QED
        BY <1>9, <3>1, <3>3, <3>4, <4>1, SliceFinds
    <3> QED
      BY <3>1, <3>5
  <2>3. TextLength(b, a) = k
    BY <1>4, <1>6, <2>2, Bytes32Inverts DEF TextLength
  <2>4. TextEnd(b, a) = o[i + 1]
    BY <1>7, <1>11, <1>15, <2>3 DEF TextEnd
  <2>5. CASE o[i + 1] > l
    BY <1>8, <1>10, <1>13, <1>14, <2>1, <2>4, <2>5, ScanFromIs
  <2>6. CASE ~ (o[i + 1] > l)
    <3>1. a + z <= l
      BY <1>11, <2>6
    <3>2. \A j \in 1 .. z : b[a + j] = r[j]
      <4>1. \A j \in 1 .. z : a + j <= l
        BY <3>1
      <4> QED
        BY <1>12, <4>1
    <3>3. Text(b, a) = e.text
      <4>1. PICK c \in Nat : c = a + u + 4 /\ c + k <= Len(b)
        BY <1>10, <1>11, <3>1
      <4>2. ASSUME NEW j \in 1 .. k PROVE b[c + j] = e.text[j]
        <5>1. (u + 4) + j \in 1 .. z /\ a + ((u + 4) + j) = c + j
          BY <1>11, <4>1
        <5> QED
          BY <1>6, <3>2, <5>1
      <4>3. Holds(b, c, e.text, k)
        BY <4>2 DEF Holds
      <4>4. Slice(b, c, k) = e.text
        <5>1. e.text \in Seq(Byte) /\ Len(e.text) = k
          BY <1>3, <1>6
        <5> QED
          BY <1>9, <4>1, <4>3, <5>1, SliceFinds
      <4> QED
        BY <1>15, <2>3, <4>1, <4>4 DEF Text
    <3>4. Slice(b, a, UuidLength) = e.uuid
      <4>1. a + UuidLength <= Len(b)
        BY <1>4, <1>10, <1>11, <3>1
      <4>2. \A j \in 1 .. UuidLength : j \in 1 .. z
        BY <1>4, <1>11
      <4>3. Holds(b, a, e.uuid, UuidLength)
        BY <1>6, <3>2, <4>2 DEF Holds
      <4> QED
        <5>1. e.uuid \in Seq(Byte) /\ Len(e.uuid) = UuidLength /\ UuidLength \in Nat
          BY <1>4, <1>6
        <5> QED
          BY <1>9, <4>1, <4>3, <5>1, SliceFinds
    <3>5. f[a] = IF (\E j \in DOMAIN e.text : e.text[j] > 127) THEN Malformed
                 ELSE IF f[o[i + 1]] = Malformed THEN Malformed
                 ELSE <<[uuid |-> e.uuid, text |-> e.text]>> \o f[o[i + 1]]
      <4>1. ~ (TextEnd(b, a) > Len(b))
        BY <1>10, <2>4, <2>6
      <4>2. f[a] = IF \E j \in DOMAIN Text(b, a) : Text(b, a)[j] > 127 THEN Malformed
                   ELSE IF f[TextEnd(b, a)] = Malformed THEN Malformed
                   ELSE <<[uuid |-> Slice(b, a, UuidLength), text |-> Text(b, a)]>>
                        \o f[TextEnd(b, a)]
        BY <1>13, <1>14, <2>1, <4>1, ScanFromIs
      <4> QED
        BY <2>4, <3>3, <3>4, <4>2
    <3>6. CASE NotUtf8(e)
      BY <1>1, <1>8, <3>5, <3>6 DEF NotUtf8
    <3>7. CASE ~ NotUtf8(e)
      <4>1. f[a] = IF f[o[i + 1]] = Malformed THEN Malformed ELSE <<e>> \o f[o[i + 1]]
        BY <1>6, <3>5, <3>7 DEF NotUtf8
      <4> QED
        BY <1>1, <1>8, <1>10, <2>6, <3>7, <4>1
    <3> QED
      BY <3>6, <3>7
  <2> QED
    BY <2>5, <2>6
<1> QED
  BY <1>16, <1>17

(***************************************************************************)
(* parse_text_events inverts the encoding of a whole message of UTF-8      *)
(* texts, and refuses every other one.                                     *)
(***************************************************************************)
LEMMA EventsStartInside ==
  ASSUME NEW m, IsMessage(m), m.type # 2, NEW o, NEW n \in Nat, n = Len(m.events),
         NEW b, Encoded(m, o, n, b)
  PROVE  \A i \in 1 .. n : o[i] < Len(b)
<1>1. ASSUME NEW i \in 1 .. n PROVE o[i] \in Nat /\ o[i + 1] \in Nat /\ o[i] < o[i + 1]
  <2>1. IsEvent(m, m.events[i]) /\ Record(m, m.events[i]) \in Seq(Byte)
    BY PartsAre, RecordType
  <2>2. PICK e, r : e = m.events[i] /\ r = Record(m, e)
    OBVIOUS
  <2>3. PICK k \in Nat : k = Len(e.text)
    <3>1. e.text \in Seq(0 .. 255)
      BY <2>1, <2>2 DEF IsEvent
    <3> QED
      BY <3>1, LenProperties
  <2>4. PICK u \in Nat : u = 2 * UuidLength
    BY LengthsAssumption
  <2>5. TextFields(e, k, r, u)
    BY <2>1, <2>2, <2>3, <2>4, TextRecordIs
  <2>6. PICK p \in 0 .. 3 : p = Padding(k)
    <3>1. (4 - (k % 4)) % 4 \in 0 .. 3
      OBVIOUS
    <3> QED
      BY <3>1 DEF Padding
  <2>7. PICK l \in Nat : l = Len(r) /\ l # 0
    <3>1. Len(r) = u + 4 + k + p
      BY <2>5, <2>6 DEF TextFields
    <3>2. u + 4 + k + p \in Nat /\ u + 4 + k + p # 0
      OBVIOUS
    <3> QED
      BY <3>1, <3>2
  <2>8. PICK a \in Nat : a = o[i]
    BY DEF Encoded
  <2>9. o[i + 1] = a + l
    BY <2>2, <2>7, <2>8 DEF Encoded
  <2> QED
    BY <2>7, <2>8, <2>9
<1>2. PICK l \in Nat : l = Len(b)
  BY DEF Encoded
<1> DEFINE S == {k \in Nat : k < n => o[n - k] < l}
<1>3. 0 \in S
  <2> SUFFICES ASSUME 0 < n PROVE o[n - 0] < l
    OBVIOUS
  <2>1. n \in 1 .. n /\ n - 0 = n
    OBVIOUS
  <2>2. CASE m.cut = 0
    <3>1. l = o[n + 1] - 0
      BY <1>2, <2>2 DEF Encoded
    <3> QED
      BY <1>1, <2>1, <3>1
  <2>3. CASE m.cut # 0
    BY <1>2, <2>1, <2>3 DEF Encoded
  <2> QED
    BY <2>2, <2>3
<1>4. ASSUME NEW k \in Nat, k \in S PROVE k + 1 \in S
  <2>1. ASSUME k + 1 < n PROVE o[n - (k + 1)] < l
    <3>1. PICK i \in 1 .. n : i = n - (k + 1) /\ i + 1 = n - k
      <4>1. n - (k + 1) \in 1 .. n /\ (n - (k + 1)) + 1 = n - k
        BY <2>1
      <4> QED
        BY <4>1
    <3>2. o[i + 1] < l
      BY <1>4, <2>1, <3>1
    <3>3. o[i] < l
      BY <1>1, <3>2
    <3> QED
      BY <3>1, <3>3
  <2>2. k + 1 \in Nat
    OBVIOUS
  <2> QED
    BY <2>1, <2>2
<1> HIDE DEF S
<1>5. \A k \in Nat : k \in S
  BY <1>3, <1>4, SetInduction
<1>6. ASSUME NEW i \in 1 .. n PROVE o[i] < l
  <2>1. PICK k \in Nat : k = n - i /\ k < n /\ n - k = i
    <3>1. n - i \in Nat /\ n - i < n /\ n - (n - i) = i
      OBVIOUS
    <3> QED
      BY <3>1
  <2>2. k \in S
    BY <1>5
  <2> QED
    BY <2>1, <2>2 DEF S
<1> QED
  BY <1>2, <1>6

WellEncoded(m) == m.cut = 0 /\ \A i \in 1 .. Len(m.events) : ~ NotUtf8(m.events[i])

(***************************************************************************)
(* parse_text_events (adapter/messages.py) returns exactly the events of   *)
(* the message, in order and with their padding removed, and refuses every *)
(* payload that misses bytes at its end or has a text that is not UTF-8.   *)
(***************************************************************************)
THEOREM TextsAreRead ==
  ASSUME NEW m \in Messages, m.type # 2
  PROVE  ParseTextEvents(Encode(m)) = IF WellEncoded(m) THEN m.events ELSE Malformed
<1>1. IsMessage(m)
  BY MessagesAssumption
<1>2. PICK n \in Nat : n = Len(m.events)
  BY <1>1, PartsAre
<1>3. PICK o : Places(o, Parts(m))
  BY <1>1, PartsAre, PlacesExist
<1>4. PICK b : b = Encode(m)
  OBVIOUS
<1>5. Encoded(m, o, n, b)
  BY <1>1, <1>2, <1>3, <1>4, EncodeIs
<1>6. b \in Seq(Byte)
  BY <1>5 DEF Encoded
<1>7. PICK f : Scans(f, b) /\ ParseTextEvents(b) = f[0]
  BY <1>6, ParseIsScan
<1>8. ASSUME NEW i \in 1 .. n
      PROVE  f[o[i]] = IF o[i + 1] > Len(b) \/ NotUtf8(m.events[i]) \/ f[o[i + 1]] = Malformed
                       THEN Malformed
                       ELSE <<m.events[i]>> \o f[o[i + 1]]
  <2>1. o[i] < Len(b)
    BY <1>1, <1>2, <1>5, EventsStartInside
  <2> QED
    BY <1>1, <1>2, <1>5, <1>7, <2>1, TextIsRead
<1>9. f[0] = f[o[1]]
  BY <1>3 DEF Places
<1>10. m.events \in Seq(Range(m.events)) /\ \A i \in 1 .. n : m.events[i] \in Range(m.events)
  BY <1>1, <1>2, ElementOfSeq DEF IsMessage
<1>11. ASSUME WellEncoded(m) PROVE f[o[1]] = m.events
  <2>1. Len(b) = o[n + 1] /\ Len(b) \in Nat /\ \A i \in 1 .. n + 1 : o[i] \in Nat
    BY <1>5, <1>11 DEF WellEncoded, Encoded
  <2> DEFINE S == {k \in Nat : k <= n => f[o[(n + 1) - k]] = SubSeq(m.events, (n + 1) - k, n)}
  <2>2. 0 \in S
    <3>1. (n + 1) - 0 = n + 1
      OBVIOUS
    <3>2. f[o[n + 1]] = << >>
      <4>1. Len(b) \in 0 .. Len(b)
        BY <2>1
      <4>2. f[Len(b)] = ScanFrom(f, b, Len(b))
        BY <1>7, <4>1 DEF Scans
      <4>3. ScanFrom(f, b, Len(b)) = << >>
        BY ScanFromIs
      <4> QED
        BY <2>1, <4>2, <4>3
    <3>3. SubSeq(m.events, n + 1, n) = << >>
      <4>1. n + 1 \in Int /\ n \in Int /\ n < n + 1
        OBVIOUS
      <4> QED
        BY <4>1, SubSeqEmpty
    <3> QED
      BY <3>1, <3>2, <3>3
  <2>3. ASSUME NEW k \in Nat, k \in S PROVE k + 1 \in S
    <3>1. ASSUME k + 1 <= n PROVE f[o[(n + 1) - (k + 1)]] = SubSeq(m.events, (n + 1) - (k + 1), n)
      <4>1. PICK i \in 1 .. n : i = (n + 1) - (k + 1) /\ i + 1 = (n + 1) - k
        <5>1. (n + 1) - (k + 1) \in 1 .. n /\ ((n + 1) - (k + 1)) + 1 = (n + 1) - k
          BY <3>1
        <5> QED
          BY <5>1
      <4>2. f[o[i + 1]] = SubSeq(m.events, i + 1, n)
        BY <2>3, <3>1, <4>1
      <4>3. f[o[i + 1]] # Malformed
        <5>1. i + 1 \in 1 .. Len(m.events) + 1
          BY <1>2
        <5> QED
          BY <1>2, <4>2, <5>1, MalformedAssumption
      <4>4. ~ (o[i + 1] > Len(b))
        <5>1. o[i + 1] <= Len(FlattenSeq(Parts(m))) /\ o[n + 1] = Len(FlattenSeq(Parts(m)))
          <6>1. Len(Parts(m)) = n /\ i + 1 \in 1 .. n + 1
            BY <1>1, <1>2, PartsAre
          <6> QED
            BY <1>3, <6>1 DEF Places
        <5>2. PICK x, y \in Nat : x = o[i + 1] /\ y = o[n + 1]
          BY <2>1
        <5> QED
          BY <2>1, <5>1, <5>2
      <4>5. ~ NotUtf8(m.events[i])
        BY <1>2, <1>11 DEF WellEncoded
      <4>6. f[o[i]] = <<m.events[i]>> \o SubSeq(m.events, i + 1, n)
        BY <1>8, <4>2, <4>3, <4>4, <4>5
      <4>7. SubSeq(m.events, i, n) = <<m.events[i]>> \o SubSeq(m.events, i + 1, n)
        <5>1. i \in 1 .. Len(m.events) /\ n \in i .. Len(m.events)
          BY <1>2
        <5> QED
          BY <1>10, <5>1, SubSeqRecursiveFirst
      <4> QED
        BY <4>1, <4>6, <4>7
    <3>2. k + 1 \in Nat
      OBVIOUS
    <3> QED
      BY <3>1, <3>2
  <2> HIDE DEF S
  <2>4. \A k \in Nat : k \in S
    BY <2>2, <2>3, SetInduction
  <2>5. f[o[1]] = SubSeq(m.events, 1, n)
    <3>1. n \in S /\ (n + 1) - n = 1 /\ n <= n
      BY <2>4
    <3> QED
      BY <3>1 DEF S
  <2> QED
    BY <1>2, <1>10, <2>5, SubSeqFull
<1>12. ASSUME ~ WellEncoded(m) PROVE f[o[1]] = Malformed
  <2>1. PICK h \in 1 .. n : f[o[h]] = Malformed
    <3>1. CASE m.cut # 0
      <4>1. n \in 1 .. n
        BY <1>5, <3>1 DEF Encoded
      <4>2. o[n + 1] > Len(b)
        <5>1. PICK x, y, c \in Nat : x = o[n + 1] /\ y = Len(b) /\ c = m.cut
          BY <1>1, <1>5 DEF Encoded, IsMessage
        <5>2. y = x - c
          BY <1>5, <5>1 DEF Encoded
        <5> QED
          BY <3>1, <5>1, <5>2
      <4> QED
        BY <1>8, <4>1, <4>2
    <3>2. CASE m.cut = 0
      <4>1. PICK i \in 1 .. n : NotUtf8(m.events[i])
        BY <1>2, <1>12, <3>2 DEF WellEncoded
      <4> QED
        BY <1>8, <4>1
    <3> QED
      BY <3>1, <3>2
  <2> DEFINE S == {k \in Nat : k < h => f[o[h - k]] = Malformed}
  <2>2. 0 \in S
    <3>1. h - 0 = h
      OBVIOUS
    <3> QED
      BY <2>1, <3>1
  <2>3. ASSUME NEW k \in Nat, k \in S PROVE k + 1 \in S
    <3>1. ASSUME k + 1 < h PROVE f[o[h - (k + 1)]] = Malformed
      <4>1. PICK i \in 1 .. n : i = h - (k + 1) /\ i + 1 = h - k
        <5>1. h - (k + 1) \in 1 .. n /\ (h - (k + 1)) + 1 = h - k
          BY <3>1
        <5> QED
          BY <5>1
      <4>2. f[o[i + 1]] = Malformed
        BY <2>3, <3>1, <4>1
      <4> QED
        BY <1>8, <4>1, <4>2
    <3>2. k + 1 \in Nat
      OBVIOUS
    <3> QED
      BY <3>1, <3>2
  <2> HIDE DEF S
  <2>4. \A k \in Nat : k \in S
    BY <2>2, <2>3, SetInduction
  <2>5. PICK k \in Nat : k = h - 1 /\ k < h /\ h - k = 1
    <3>1. h - 1 \in Nat /\ h - 1 < h /\ h - (h - 1) = 1
      OBVIOUS
    <3> QED
      BY <3>1
  <2>6. k \in S
    BY <2>4
  <2> QED
    BY <2>5, <2>6 DEF S
<1> QED
  BY <1>4, <1>7, <1>9, <1>11, <1>12

-------------------------------------------------------------------------------
(***************************************************************************)
(* After a chain of recordings, the last event about a state decides in    *)
(* its column, and the other column is as it was.                          *)
(***************************************************************************)
Column(kind, x, e) ==
    IF kind = "EVENT_VALUES" THEN [x EXCEPT !.value = e.value] ELSE [x EXCEPT !.text = e.text]

AboutUpTo(es, k, u) == {i \in 1 .. k : es[i].uuid = u}

LastRecorded(kind, x, es, k, u) ==
    IF AboutUpTo(es, k, u) = {} THEN x ELSE Column(kind, x, es[Max(AboutUpTo(es, k, u))])

LEMMA RecordedAt ==
  ASSUME NEW kind, NEW d \in [Uuids -> Stored], NEW e, NEW u \in Uuids
  PROVE  Recorded(kind, d, e)[u] = IF e.uuid = u THEN Column(kind, d[u], e) ELSE d[u]
<1>1. CASE kind = "EVENT_VALUES"
  <2>1. [d EXCEPT ![e.uuid].value = e.value][u] =
          IF e.uuid = u THEN [d[u] EXCEPT !.value = e.value] ELSE d[u]
    OBVIOUS
  <2> QED
    BY <1>1, <2>1 DEF Recorded, SetValue, Column
<1>2. CASE kind # "EVENT_VALUES"
  <2>1. [d EXCEPT ![e.uuid].text = e.text][u] =
          IF e.uuid = u THEN [d[u] EXCEPT !.text = e.text] ELSE d[u]
    OBVIOUS
  <2> QED
    BY <1>2, <2>1 DEF Recorded, SetText, Column
<1> QED
  BY <1>1, <1>2

LEMMA ColumnTwice ==
  ASSUME NEW kind, NEW x \in Stored, NEW e, NEW g
  PROVE  Column(kind, Column(kind, x, e), g) = Column(kind, x, g)
<1>1. PICK v \in {Missing} \union Double, t \in {Missing} \union Seq(Ascii) :
         x = [value |-> v, text |-> t]
  BY DEF Stored
<1>2. CASE kind = "EVENT_VALUES"
  <2>1. Column(kind, x, e) = [value |-> e.value, text |-> t]
    BY <1>1, <1>2 DEF Column
  <2>2. Column(kind, x, g) = [value |-> g.value, text |-> t]
    BY <1>1, <1>2 DEF Column
  <2> QED
    BY <1>2, <2>1, <2>2 DEF Column
<1>3. CASE kind # "EVENT_VALUES"
  <2>1. Column(kind, x, e) = [value |-> v, text |-> e.text]
    BY <1>1, <1>3 DEF Column
  <2>2. Column(kind, x, g) = [value |-> v, text |-> g.text]
    BY <1>1, <1>3 DEF Column
  <2> QED
    BY <1>3, <2>1, <2>2 DEF Column
<1> QED
  BY <1>2, <1>3

LEMMA LastDecides ==
  ASSUME NEW kind, NEW d \in [Uuids -> Stored], NEW es, NEW n \in Nat, DOMAIN es = 1 .. n,
         \A i \in 1 .. n : Storable(kind, es[i]),
         NEW u \in Uuids
  PROVE  AllRecorded(kind, d, es)[u] = LastRecorded(kind, d[u], es, n, u)
<1>1. PICK r : Chain(r, kind, d, es, n) /\ AllRecorded(kind, d, es) = r[n]
  BY FoldIsChain
<1> DEFINE S == {k \in Nat : k <= n => /\ r[k] \in [Uuids -> Stored]
                                       /\ r[k][u] = LastRecorded(kind, d[u], es, k, u)}
<1>2. 0 \in S
  <2>1. AboutUpTo(es, 0, u) = {}
    BY DEF AboutUpTo
  <2>2. r[0] = d
    BY <1>1 DEF Chain
  <2> QED
    BY <2>1, <2>2 DEF LastRecorded
<1>3. ASSUME NEW k \in Nat, k \in S PROVE k + 1 \in S
  <2>1. ASSUME k + 1 <= n
        PROVE  /\ r[k + 1] \in [Uuids -> Stored]
               /\ r[k + 1][u] = LastRecorded(kind, d[u], es, k + 1, u)
    <3>1. k <= n /\ k + 1 \in 1 .. n /\ (k + 1) - 1 = k
      BY <2>1
    <3>2. PICK e : e = es[k + 1]
      OBVIOUS
    <3>3. r[k + 1] = Recorded(kind, r[k], e)
      BY <1>1, <3>1, <3>2 DEF Chain
    <3>4. r[k] \in [Uuids -> Stored] /\ r[k][u] = LastRecorded(kind, d[u], es, k, u)
      BY <1>3, <3>1
    <3>5. r[k + 1] \in [Uuids -> Stored]
      <4>1. Storable(kind, e)
        BY <3>1, <3>2
      <4> HIDE DEF S
      <4> QED
        BY <3>3, <3>4, <4>1, RecordedType
    <3>6. r[k + 1][u] = IF e.uuid = u THEN Column(kind, r[k][u], e) ELSE r[k][u]
      BY <3>3, <3>4, RecordedAt
    <3>7. CASE e.uuid = u
      <4>1. AboutUpTo(es, k + 1, u) \in SUBSET (1 .. k + 1) /\ k + 1 \in AboutUpTo(es, k + 1, u)
        BY <3>2, <3>7 DEF AboutUpTo
      <4>2. Max(AboutUpTo(es, k + 1, u)) = k + 1 /\ AboutUpTo(es, k + 1, u) # {}
        BY <4>1, MaxOfInterval
      <4>3. LastRecorded(kind, d[u], es, k + 1, u) = Column(kind, d[u], e)
        BY <3>2, <4>2 DEF LastRecorded
      <4>4. d[u] \in Stored
        OBVIOUS
      <4>5. Column(kind, r[k][u], e) = Column(kind, d[u], e)
        BY <3>4, <4>4, ColumnTwice DEF LastRecorded
      <4> QED
        BY <3>5, <3>6, <3>7, <4>3, <4>5
    <3>8. CASE e.uuid # u
      <4>1. AboutUpTo(es, k + 1, u) = AboutUpTo(es, k, u)
        BY <3>2, <3>8 DEF AboutUpTo
      <4> QED
        BY <3>4, <3>5, <3>6, <3>8, <4>1 DEF LastRecorded
    <3> QED
      BY <3>7, <3>8
  <2>2. k + 1 \in Nat
    OBVIOUS
  <2> QED
    BY <2>1, <2>2
<1> HIDE DEF S
<1>4. \A k \in Nat : k \in S
  BY <1>2, <1>3, SetInduction
<1>5. r[n][u] = LastRecorded(kind, d[u], es, n, u)
  BY <1>4 DEF S
<1> QED
  BY <1>1, <1>5

(***************************************************************************)
(* A payload of no bytes has no event, and nothing of it is missing.       *)
(***************************************************************************)
LEMMA EmptyHasNoEvent ==
  ASSUME NEW m, IsMessage(m), Len(Encode(m)) = 0
  PROVE  m.cut = 0 /\ DOMAIN m.events = {}
<1>1. PICK n \in Nat : n = Len(m.events)
  BY PartsAre
<1>2. DOMAIN m.events = 1 .. n
  BY <1>1, PartsAre
<1>3. PICK o : Places(o, Parts(m))
  BY PartsAre, PlacesExist
<1>4. PICK b : b = Encode(m)
  OBVIOUS
<1>5. Encoded(m, o, n, b)
  BY <1>1, <1>3, <1>4, EncodeIs
<1>6. m.cut = 0
  <2>1. ASSUME n # 0, o[n] < Len(b) PROVE FALSE
    <3>1. o[n] \in Nat
      BY <1>5, <2>1 DEF Encoded
    <3> QED
      BY <1>4, <2>1, <3>1
  <2> QED
    BY <1>5, <2>1 DEF Encoded
<1>7. CASE m.type = 2
  <2>1. ParseValueEvents(b) = m.events
    BY <1>4, <1>6, <1>7, ValuesAreRead
  <2>2. PICK l \in Nat \ {0} : l = ValueEventLength
    BY LengthsAssumption DEF ValueEventLength
  <2>3. Len(b) = 0 /\ 0 % l = 0 /\ 1 .. (0 \div l) = {}
    BY <1>4
  <2>4. DOMAIN ParseValueEvents(b) = {}
    BY <2>2, <2>3 DEF ParseValueEvents
  <2> QED
    BY <1>6, <2>1, <2>4
<1>8. CASE m.type # 2
  <2>1. ASSUME NEW i \in 1 .. n PROVE FALSE
    <3>1. o[i] < Len(b)
      BY <1>1, <1>5, <1>8, EventsStartInside
    <3>2. o[i] \in Nat
      BY <1>5 DEF Encoded
    <3> QED
      BY <1>4, <3>1, <3>2
  <2> QED
    BY <1>2, <1>6, <2>1
<1> QED
  BY <1>7, <1>8

-------------------------------------------------------------------------------
(***************************************************************************)
(* The refinement. Recording the events of a message, one by one, is what  *)
(* the feed does with the message as a whole.                              *)
(***************************************************************************)
Kind(m) == IF m.type = 2 THEN "EVENT_VALUES" ELSE "EVENT_TEXT"

LEMMA AboutIs ==
  ASSUME NEW m, NEW n \in Nat, DOMAIN m.events = 1 .. n, NEW u
  PROVE  /\ Feed!About(m, u) = AboutUpTo(m.events, n, u)
         /\ Feed!LastAbout(m, u) = m.events[Max(AboutUpTo(m.events, n, u))]
<1>1. Feed!About(m, u) = AboutUpTo(m.events, n, u)
  BY DEF Feed!About, AboutUpTo
<1> QED
  BY <1>1 DEF Feed!LastAbout, Feed!Max, Max

LEMMA EventsAreApplied ==
  ASSUME data \in [Uuids -> Stored],
         NEW m, m.type \in {2, 3},
         NEW n \in Nat, DOMAIN m.events = 1 .. n,
         \A i \in 1 .. n : Storable(Kind(m), m.events[i])
  PROVE  AllRecorded(Kind(m), data, m.events) = [u \in Uuids |-> Feed!After(m, u)]
<1>1. ASSUME NEW u \in Uuids
      PROVE  LastRecorded(Kind(m), data[u], m.events, n, u) = Feed!After(m, u)
  <2>1. /\ Feed!About(m, u) = AboutUpTo(m.events, n, u)
        /\ Feed!LastAbout(m, u) = m.events[Max(AboutUpTo(m.events, n, u))]
    BY AboutIs
  <2>2. PICK a, e : /\ a = AboutUpTo(m.events, n, u)
                    /\ e = m.events[Max(AboutUpTo(m.events, n, u))]
    OBVIOUS
  <2>3. LastRecorded(Kind(m), data[u], m.events, n, u) =
          IF a = {} THEN data[u] ELSE Column(Kind(m), data[u], e)
    BY <2>2 DEF LastRecorded
  <2>4. CASE m.type = 2
    <3>1. Feed!After(m, u) = IF a = {} THEN data[u] ELSE [data[u] EXCEPT !.value = e.value]
      BY <2>1, <2>2, <2>4 DEF Feed!After, Feed!ValueStates, Feed!TextStates
    <3> QED
      BY <2>3, <2>4, <3>1 DEF Column, Kind
  <2>5. CASE m.type = 3
    <3>1. Feed!After(m, u) = IF a = {} THEN data[u] ELSE [data[u] EXCEPT !.text = e.text]
      BY <2>1, <2>2, <2>5 DEF Feed!After, Feed!ValueStates, Feed!TextStates
    <3> QED
      BY <2>3, <2>5, <3>1 DEF Column, Kind
  <2> QED
    BY <2>4, <2>5
<1>2. ASSUME NEW u \in Uuids
      PROVE  AllRecorded(Kind(m), data, m.events)[u] = Feed!After(m, u)
  <2>1. AllRecorded(Kind(m), data, m.events)[u] = LastRecorded(Kind(m), data[u], m.events, n, u)
    BY LastDecides
  <2> QED
    BY <1>1, <2>1
<1>3. AllRecorded(Kind(m), data, m.events) \in [Uuids -> Stored]
  BY AllRecordedType
<1> QED
  BY <1>2, <1>3

\* BEGIN
LEMMA TypesAre ==
  ASSUME NEW t \in 0 .. 255
  PROVE  /\ Len(Types) = 8
         /\ t < 8 => /\ (Types[t + 1] = "EVENT_VALUES" <=> t = 2)
                     /\ (Types[t + 1] = "EVENT_TEXT" <=> t = 3)
                     /\ (Types[t + 1] = "TEXT" <=> t = 0)
BY DEF Types

(***************************************************************************)
(* What the loop receives belongs to the message that follows.             *)
(***************************************************************************)
LEMMA ReceivesFollowing ==
  ASSUME StreamInv, Receives
  PROVE  /\ sent[handled + 1] \in Messages /\ IsMessage(sent[handled + 1])
         /\ handled \in Nat /\ handled < Len(sent)
         /\ Head(wire) = IF awaited = "HEADER" THEN Header(sent[handled + 1])
                         ELSE Encode(sent[handled + 1])
<1> DEFINE m == sent[handled + 1]
           rest == Left(sent, handled + 1)
<1>1. FramingInv /\ sent \in Seq(Messages) /\ handled \in 0 .. Len(sent) /\ Len(sent) \in Nat
  BY LenProperties DEF StreamInv, FramingInv, Framed
<1>2. /\ handled < Len(sent) /\ IsMessage(m) /\ rest \in Seq(Seq(Byte))
      /\ IF awaited = "HEADER" THEN wire = Frames(m) \o rest ELSE wire = <<Encode(m)>> \o rest
  BY <1>1, NextMessage
<1>3. handled \in Nat /\ m \in Messages
  <2>1. handled + 1 \in 1 .. Len(sent)
    BY <1>1, <1>2
  <2> QED
    BY <1>1, <2>1
<1> HIDE DEF m, rest
<1>4. Head(wire) = IF awaited = "HEADER" THEN Header(m) ELSE Encode(m)
  <2>1. Header(m) \in Seq(Byte) /\ Encode(m) \in Seq(Byte)
    BY <1>2, FramesAre, EncodeType
  <2>2. CASE awaited = "HEADER"
    <3>1. Frames(m) \in Seq(Seq(Byte)) /\ Frames(m) # << >> /\ Head(Frames(m)) = Header(m)
      BY <1>2, <2>1, FramesAre
    <3> QED
      BY <1>2, <2>2, <3>1, TailOfConcat
  <2>3. CASE awaited # "HEADER"
    <3>1. <<Encode(m)>> \in Seq(Seq(Byte)) /\ <<Encode(m)>> # << >> /\ Head(<<Encode(m)>>) = Encode(m)
      BY <2>1
    <3> QED
      BY <1>2, <2>3, <3>1, TailOfConcat
  <2> QED
    BY <2>2, <2>3
<1> QED
  BY <1>2, <1>3, <1>4 DEF m

(***************************************************************************)
(* MessageError, or a text that is not UTF-8, is never a list of events.   *)
(***************************************************************************)
LEMMA EventsAreNotMalformed ==
  ASSUME NEW m \in Messages
  PROVE  m.events # Malformed
<1>1. IsMessage(m)
  BY MessagesAssumption
<1>2. m.events \in Seq(Range(m.events)) /\ Len(m.events) \in Nat
  BY <1>1, PartsAre DEF IsMessage
<1>3. 1 \in 1 .. Len(m.events) + 1
  BY <1>2
<1>4. SubSeq(m.events, 1, Len(m.events)) # Malformed
  BY <1>3, MalformedAssumption
<1> QED
  BY <1>2, <1>4, SubSeqFull

LEMMA AsciiBytes == \A v \in 0 .. 255 : (v <= 127) <=> ~ (v > 127)
OBVIOUS

(***************************************************************************)
(* A message is well-formed exactly if its header and its payload parse.   *)
(***************************************************************************)
LEMMA WellFormedIs ==
  ASSUME NEW m \in Messages
  PROVE  Feed!WellFormed(m) <=>
           /\ ValidHeader(Header(m))
           /\ m.type = 0 => Decodes(Encode(m))
           /\ m.type = 2 => ParseValueEvents(Encode(m)) = m.events
           /\ m.type = 3 => ParseTextEvents(Encode(m)) = m.events
<1>1. IsMessage(m) /\ m.events # Malformed
  BY MessagesAssumption, EventsAreNotMalformed
<1>2. m.type \in 0 .. 255
  BY <1>1 DEF IsMessage
<1>3. ValidHeader(Header(m)) <=> m.type \in 0 .. 7
  <2>1. ValidHeader(Header(m)) <=> m.type < 8
    BY <1>1, <1>2, HeaderIsRead, TypesAre
  <2> QED
    BY <1>2, <2>1
<1>4. m.type = 2 => (ParseValueEvents(Encode(m)) = m.events <=> m.cut = 0)
  BY <1>1, ValuesAreRead
<1>5. m.type = 3 => (ParseTextEvents(Encode(m)) = m.events <=> WellEncoded(m))
  BY <1>1, TextsAreRead
<1>6. ASSUME m.type = 3
      PROVE  WellEncoded(m) <=>
               /\ m.cut = 0
               /\ \A i \in DOMAIN m.events : \A j \in DOMAIN m.events[i].text :
                    m.events[i].text[j] <= 127
  <2>1. DOMAIN m.events = 1 .. Len(m.events)
    BY <1>1, PartsAre
  <2>2. ASSUME NEW i \in 1 .. Len(m.events), NEW j \in DOMAIN m.events[i].text
        PROVE  (m.events[i].text[j] <= 127) <=> ~ (m.events[i].text[j] > 127)
    <3>1. IsEvent(m, m.events[i])
      BY <1>1, PartsAre
    <3>2. PICK s \in Seq(0 .. 255) : s = m.events[i].text
      BY <1>6, <3>1 DEF IsEvent
    <3>3. s[j] \in 0 .. 255
      <4>1. j \in 1 .. Len(s) /\ \A k \in 1 .. Len(s) : s[k] \in 0 .. 255
        BY <2>2, <3>2, LenProperties
      <4> QED
        BY <4>1
    <3>4. PICK v \in 0 .. 255 : v = s[j]
      BY <3>3, Zenon
    <3>5. (v <= 127) <=> ~ (v > 127)
      BY AsciiBytes
    <3> QED
      BY <3>2, <3>4, <3>5
  <2>3. \A i \in 1 .. Len(m.events) :
          ~ NotUtf8(m.events[i]) <=> \A j \in DOMAIN m.events[i].text : m.events[i].text[j] <= 127
    BY <2>2 DEF NotUtf8
  <2> QED
    BY <2>1, <2>3 DEF WellEncoded
<1>7. m.utf8 <=> Decodes(Encode(m))
  BY <1>1 DEF IsMessage
<1> QED
  BY <1>3, <1>4, <1>5, <1>6, <1>7
  DEF Feed!WellFormed, Feed!KnownTypes, Feed!Response, Feed!ValueStates, Feed!TextStates

Applies ==
    /\ handled < Len(sent)
    /\ Feed!WellFormed(sent[handled + 1])
    /\ handled' = handled + 1
    /\ data' = [u \in Uuids |-> Feed!After(sent[handled + 1], u)]
    /\ UNCHANGED <<sent, receiver>>

LEMMA AppliesIsApply ==
  ASSUME receiver = "running", Applies
  PROVE  Feed!Apply
BY DEF Applies, Feed!Apply, Feed!Following

(***************************************************************************)
(* A header that ends its message applies a message without events, or of  *)
(* a type whose events are ignored; any other header changes nothing.      *)
(***************************************************************************)
LEMMA FeedReadHeader ==
  ASSUME StreamInv, ReadHeader
  PROVE  Feed!Apply \/ UNCHANGED Feed!vars
<1>0. PICK m : m = sent[handled + 1]
  OBVIOUS
<1>1. /\ Receives /\ awaited = "HEADER" /\ ValidHeader(Head(wire))
      /\ sent' = sent /\ receiver' = receiver /\ data' = data /\ receiver = "running"
  BY DEF ReadHeader, Receives
<1>2. m \in Messages /\ IsMessage(m) /\ handled \in Nat /\ handled < Len(sent)
      /\ Head(wire) = Header(m)
  BY <1>0, <1>1, ReceivesFollowing
<1>3. data \in [Uuids -> Stored]
  BY DEF StreamInv
<1>4. m.type \in 0 .. 255 /\ m.type < 8 /\ HeaderType(Header(m)) = Types[m.type + 1]
      /\ HeaderLength(Header(m)) = Len(Encode(m))
  <2>1. m.type \in 0 .. 255
    BY <1>2 DEF IsMessage
  <2> QED
    BY <1>1, <1>2, <2>1, HeaderIsRead, TypesAre
<1>5. handled' = IF HeaderOnly(m) THEN handled + 1 ELSE handled
  <2>1. (HeaderType(Head(wire)) = "KEEPALIVE" \/ HeaderLength(Head(wire)) = 0) <=> HeaderOnly(m)
    <3>1. Types[m.type + 1] = "KEEPALIVE" <=> m.type = 6
      BY <1>4, NoTypeIsHeader, TypesAre
    <3> QED
      BY <1>2, <1>4, <3>1 DEF HeaderOnly
  <2> QED
    BY <2>1 DEF ReadHeader
<1>6. CASE ~ HeaderOnly(m)
  <2>1. handled' = handled
    BY <1>5, <1>6
  <2> QED
    BY <1>1, <2>1 DEF Feed!vars
<1>7. CASE HeaderOnly(m)
  <2>1. m.type \in {2, 3} => m.cut = 0 /\ DOMAIN m.events = {}
    <3>1. m.type \in {2, 3} => Len(Encode(m)) = 0
      BY <1>4, <1>7 DEF HeaderOnly
    <3> QED
      BY <1>2, <3>1, EmptyHasNoEvent
  <2>2. Feed!WellFormed(m)
    <3>1. m.type \in 0 .. 7
      <4>1. PICK t \in 0 .. 255 : t = m.type /\ t < 8
        BY <1>4
      <4> QED
        BY <4>1
    <3>2. m.type \in {2, 3} => m.cut = 0
      BY <2>1
    <3>3. m.type = 3 => \A i \in DOMAIN m.events :
                          \A j \in DOMAIN m.events[i].text : m.events[i].text[j] <= 127
      <4>1. m.type = 3 => DOMAIN m.events = {}
        BY <2>1
      <4> QED
        BY <4>1
    <3>4. m.type = 0 => m.utf8
      <4>1. m.type = 0 => Len(Encode(m)) = 0
        BY <1>4, <1>7 DEF HeaderOnly
      <4>2. Encode(m) \in Seq(Byte)
        BY <1>2, EncodeType
      <4>3. Len(Encode(m)) = 0 => DOMAIN Encode(m) = {}
        BY <4>2
      <4>4. m.type = 0 => Decodes(Encode(m))
        BY <4>1, <4>3 DEF Decodes
      <4> QED
        BY <1>2, <4>4 DEF IsMessage
    <3> QED
      BY <3>1, <3>2, <3>3, <3>4
      DEF Feed!WellFormed, Feed!KnownTypes, Feed!Response, Feed!ValueStates, Feed!TextStates
  <2>3. ASSUME NEW u \in Uuids PROVE Feed!After(m, u) = data[u]
    <3>1. CASE m.type \in {2, 3}
      <4>1. Feed!About(m, u) = {}
        BY <2>1, <3>1 DEF Feed!About
      <4> QED
        BY <4>1 DEF Feed!After
    <3>2. CASE m.type \notin {2, 3}
      BY <3>2 DEF Feed!After, Feed!ValueStates, Feed!TextStates
    <3> QED
      BY <3>1, <3>2
  <2>4. data = [u \in Uuids |-> Feed!After(m, u)]
    BY <1>3, <2>3
  <2>5. Applies
    BY <1>0, <1>1, <1>2, <1>5, <1>7, <2>2, <2>4 DEF Applies
  <2> QED
    BY <1>1, <2>5, AppliesIsApply
<1> QED
  BY <1>6, <1>7

(***************************************************************************)
(* A payload that is accepted applies its message.                         *)
(***************************************************************************)
LEMMA FeedReadPayload ==
  ASSUME StreamInv, ReadPayload
  PROVE  Feed!Apply
<1>0. PICK m : m = sent[handled + 1]
  OBVIOUS
<1>1. /\ Receives /\ awaited # "HEADER" /\ receiver = "running"
      /\ sent' = sent /\ receiver' = receiver /\ handled' = handled + 1
  BY DEF ReadPayload, Receives
<1>2. m \in Messages /\ IsMessage(m) /\ handled \in Nat /\ handled < Len(sent)
      /\ Head(wire) = Encode(m)
  BY <1>0, <1>1, ReceivesFollowing
<1>3. data \in [Uuids -> Stored]
  BY DEF StreamInv
<1>4. m.type \in 0 .. 255 /\ m.type < 8 /\ awaited = Types[m.type + 1] /\ ValidHeader(Header(m))
  <2>1. m.type \in 0 .. 255
    BY <1>2 DEF IsMessage
  <2>2. m.type < 8 /\ awaited = Types[m.type + 1]
    <3>1. Awaiting
      BY DEF StreamInv, FramingInv
    <3> QED
      BY <1>0, <1>1, <2>1, <3>1, TypesAre DEF Awaiting
  <2> QED
    BY <1>2, <2>1, <2>2, HeaderIsRead, TypesAre
<1>5. /\ (awaited = "EVENT_VALUES" <=> m.type = 2) /\ (awaited = "EVENT_TEXT" <=> m.type = 3)
      /\ (awaited = "TEXT" <=> m.type = 0)
  BY <1>4, TypesAre
<1>6. PICK n \in Nat : DOMAIN m.events = 1 .. n
  BY <1>2, PartsAre
<1>7. Encode(m) \in Seq(Byte)
  BY <1>2, EncodeType
<1>8. CASE m.type = 2
  <2>1. ParseValueEvents(Encode(m)) # Malformed
        /\ data' = FoldLeft(SetValue, data, ParseValueEvents(Encode(m)))
    BY <1>2, <1>5, <1>8 DEF ReadPayload
  <2>2. ParseValueEvents(Encode(m)) = m.events
    BY <1>2, <1>8, <2>1, ValuesAreRead
  <2>3. PICK k \in Nat : /\ DOMAIN m.events = 1 .. k
                         /\ \A i \in 1 .. k : Storable("EVENT_VALUES", m.events[i])
    BY <1>7, <2>1, <2>2, ValuesAreStorable
  <2>4. Kind(m) = "EVENT_VALUES" /\ m.type \in {2, 3} /\ m.type # 3
    BY <1>8 DEF Kind
  <2>5. data' = AllRecorded(Kind(m), data, m.events)
    BY <2>1, <2>2, <2>4 DEF AllRecorded
  <2>6. data' = [u \in Uuids |-> Feed!After(m, u)]
    BY <1>3, <2>3, <2>4, <2>5, EventsAreApplied
  <2>7. Feed!WellFormed(m)
    BY <1>2, <1>4, <2>2, <2>4, WellFormedIs
  <2> QED
    BY <1>0, <1>1, <1>2, <2>6, <2>7, AppliesIsApply DEF Applies
<1>9. CASE m.type = 3
  <2>1. ParseTextEvents(Encode(m)) # Malformed
        /\ data' = FoldLeft(SetText, data, ParseTextEvents(Encode(m)))
    BY <1>2, <1>5, <1>9 DEF ReadPayload
  <2>2. m.type # 2 /\ m.type \in {2, 3} /\ Kind(m) = "EVENT_TEXT"
    BY <1>9 DEF Kind
  <2>3. ParseTextEvents(Encode(m)) = m.events
    BY <1>2, <2>1, <2>2, TextsAreRead
  <2>4. PICK k \in Nat : /\ DOMAIN m.events = 1 .. k
                         /\ \A i \in 1 .. k : Storable("EVENT_TEXT", m.events[i])
    BY <1>7, <2>1, <2>3, TextsAreStorable
  <2>5. data' = AllRecorded(Kind(m), data, m.events)
    BY <2>1, <2>2, <2>3 DEF AllRecorded
  <2>6. data' = [u \in Uuids |-> Feed!After(m, u)]
    BY <1>3, <2>2, <2>4, <2>5, EventsAreApplied
  <2>7. Feed!WellFormed(m)
    BY <1>2, <1>4, <2>2, <2>3, WellFormedIs
  <2> QED
    BY <1>0, <1>1, <1>2, <2>6, <2>7, AppliesIsApply DEF Applies
<1>10. CASE m.type \notin {2, 3}
  <2>1. data' = data
    BY <1>5, <1>10 DEF ReadPayload
  <2>2. \A u \in Uuids : Feed!After(m, u) = data[u]
    BY <1>10 DEF Feed!After, Feed!ValueStates, Feed!TextStates
  <2>3. data' = [u \in Uuids |-> Feed!After(m, u)]
    BY <1>3, <2>1, <2>2
  <2>4. m.type = 0 => Decodes(Encode(m))
    BY <1>2, <1>5, <1>10 DEF ReadPayload
  <2>5. Feed!WellFormed(m)
    BY <1>2, <1>4, <1>10, <2>4, WellFormedIs
  <2> QED
    BY <1>0, <1>1, <1>2, <2>3, <2>5, AppliesIsApply DEF Applies
<1> QED
  BY <1>8, <1>9, <1>10

(***************************************************************************)
(* The loop fails on a message that is malformed.                          *)
(***************************************************************************)
LEMMA FeedFail ==
  ASSUME StreamInv, Fail
  PROVE  Feed!Reject
<1>0. PICK m : m = sent[handled + 1]
  OBVIOUS
<1>1. /\ Receives /\ receiver = "running" /\ receiver' = "failed"
      /\ UNCHANGED <<sent, handled, data>>
  BY DEF Fail, Receives
<1>2. m \in Messages /\ IsMessage(m) /\ handled < Len(sent)
      /\ Head(wire) = IF awaited = "HEADER" THEN Header(m) ELSE Encode(m)
  BY <1>0, <1>1, ReceivesFollowing
<1>3. m.events # Malformed
  BY <1>2, EventsAreNotMalformed
<1>4. m.type \in 0 .. 255
  BY <1>2 DEF IsMessage
<1>5. ~ Feed!WellFormed(m)
  <2>1. CASE awaited = "HEADER"
    <3>1. ~ ValidHeader(Header(m))
      BY <1>2, <2>1 DEF Fail
    <3> QED
      BY <1>2, <3>1, WellFormedIs
  <2>2. CASE awaited # "HEADER"
    <3>1. m.type < 8 /\ awaited = Types[m.type + 1]
      <4>1. Awaiting
        BY DEF StreamInv, FramingInv
      <4> QED
        BY <1>0, <1>4, <2>2, <4>1, TypesAre DEF Awaiting
    <3>2. /\ (awaited = "EVENT_VALUES" <=> m.type = 2) /\ (awaited = "EVENT_TEXT" <=> m.type = 3)
          /\ (awaited = "TEXT" <=> m.type = 0)
      BY <1>4, <3>1, TypesAre
    <3>3. \/ m.type = 2 /\ ParseValueEvents(Encode(m)) = Malformed
          \/ m.type = 3 /\ ParseTextEvents(Encode(m)) = Malformed
          \/ m.type = 0 /\ ~ Decodes(Encode(m))
      BY <1>2, <2>2, <3>2 DEF Fail
    <3>4. Feed!WellFormed(m) <=>
             /\ ValidHeader(Header(m))
             /\ m.type = 0 => Decodes(Encode(m))
             /\ m.type = 2 => ParseValueEvents(Encode(m)) = m.events
             /\ m.type = 3 => ParseTextEvents(Encode(m)) = m.events
      BY <1>2, WellFormedIs, Zenon
    <3> QED
      BY <1>3, <3>3, <3>4, SMTT(20)
  <2> QED
    BY <2>1, <2>2
<1> QED
  BY <1>0, <1>1, <1>2, <1>5 DEF Feed!Reject, Feed!Following

LEMMA FeedInit == Init => Feed!Init
BY DEF Init, Feed!Init, NoEntry

LEMMA FeedStep == StreamInv /\ [Next]_vars => [Feed!Next]_(Feed!vars)
<1> SUFFICES ASSUME StreamInv, [Next]_vars PROVE [Feed!Next]_(Feed!vars)
  OBVIOUS
<1>1. CASE ReadHeader
  BY <1>1, FeedReadHeader DEF Feed!Next
<1>2. CASE ReadPayload
  BY <1>2, FeedReadPayload DEF Feed!Next
<1>3. CASE Fail
  BY <1>3, FeedFail DEF Feed!Next
<1>4. CASE Disconnect
  <2>1. Feed!Lose
    BY <1>4 DEF Disconnect, Feed!Lose
  <2> QED
    BY <2>1 DEF Feed!Next
<1>5. ASSUME NEW m \in Messages, Send(m) PROVE Feed!Next
  <2>1. Feed!Publish(m)
    BY <1>5 DEF Send, Feed!Publish
  <2> QED
    BY <2>1 DEF Feed!Next
<1>6. CASE UNCHANGED vars
  BY <1>6 DEF vars, Feed!vars
<1> QED
  BY <1>1, <1>2, <1>3, <1>4, <1>5, <1>6 DEF Next, Loop

(***************************************************************************)
(* Through the encoding, the frames, the parsers and the store, what the   *)
(* receive loop does to the cache is what StateFeed does: a message is     *)
(* applied in order and as a whole or not at all, and only a malformed     *)
(* one, or the loss of the connection, ends the loop. (That the loop reads *)
(* on is the part of ImplementsFeed that is liveness.)                     *)
(***************************************************************************)
THEOREM FollowsFeed == Spec => Feed!Init /\ [][Feed!Next]_(Feed!vars)
BY StreamInit, StreamStep, FeedInit, FeedStep, PTL DEF Spec
===============================================================================
