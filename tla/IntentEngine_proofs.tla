--------------------------- MODULE IntentEngine_proofs ---------------------------
(***************************************************************************)
(* The conversation buffer of IntentEngine, for any turns, any maximum and *)
(* any iteration cap.                                                      *)
(***************************************************************************)
EXTENDS IntentEngine, FiniteSetTheorems, SequenceTheorems, WellFoundedInduction, TLAPS

(***************************************************************************)
(* The first message from the user exists when any is from the user.       *)
(***************************************************************************)
LEMMA MinIsLeast ==
  ASSUME NEW S \in SUBSET Nat, S # {}
  PROVE  Min(S) \in S /\ \A y \in S : Min(S) <= y
<1> DEFINE R == OpToRel(<, Nat)
<1>1. \E x \in S : \A y \in S : ~ (<<y, x>> \in R)
  <2>1. IsWellFoundedOn(R, Nat)
    BY NatLessThanWellFounded
  <2> HIDE DEF R
  <2> QED
    BY <2>1, WFMin
<1>2. \A x, y \in Nat : y < x => <<y, x>> \in R
  BY DEF OpToRel
<1> HIDE DEF R
<1>3. \E x \in S : \A y \in S : x <= y
  <2>1. PICK x \in S : \A y \in S : ~ (<<y, x>> \in R)
    BY <1>1
  <2>2. ASSUME NEW y \in S PROVE x <= y
    <3>1. x \in Nat /\ y \in Nat /\ ~ (y < x)
      BY <1>2, <2>1
    <3> QED
      BY <3>1
  <2> QED
    BY <2>1, <2>2
<1> QED
  BY <1>3 DEF Min

(***************************************************************************)
(* What a suffix of b without its first k messages is.                     *)
(***************************************************************************)
Suffix(s, b, k) ==
    /\ s \in Seq(Message)
    /\ Len(s) = Len(b) - k
    /\ \A i \in 1 .. Len(b) - k : s[i] = b[i + k]

LEMMA SubSeqIsSuffix ==
  ASSUME NEW b \in Seq(Message), NEW k \in 0 .. Len(b)
  PROVE  Suffix(SubSeq(b, k + 1, Len(b)), b, k)
<1> DEFINE s == SubSeq(b, k + 1, Len(b))
<1>1. Len(b) \in Nat /\ k + 1 \in Int /\ Len(b) \in Int /\ k \in Nat
  BY LenProperties
<1>2. \A i \in k + 1 .. Len(b) : b[i] \in Message
  BY <1>1, ElementOfSeq
<1>3. /\ s \in Seq(Message)
      /\ Len(s) = IF k + 1 <= Len(b) THEN Len(b) - (k + 1) + 1 ELSE 0
      /\ \A i \in 1 .. Len(b) - (k + 1) + 1 : s[i] = b[(k + 1) + i - 1]
  BY <1>1, <1>2, SubSeqProperties
<1> HIDE DEF s
<1>4. Len(s) = Len(b) - k
  BY <1>1, <1>3
<1>5. ASSUME NEW i \in 1 .. Len(b) - k PROVE s[i] = b[i + k]
  <2>1. i \in 1 .. Len(b) - (k + 1) + 1 /\ (k + 1) + i - 1 = i + k
    BY <1>1
  <2> QED
    BY <1>3, <2>1
<1>6. Suffix(s, b, k)
  BY <1>3, <1>4, <1>5 DEF Suffix
<1> QED
  BY <1>6 DEF s

(***************************************************************************)
(* Trimming leaves a suffix of the buffer within the maximum, and the      *)
(* whole buffer or one that is empty or begins with a message of the user. *)
(* It keeps the last message if that is of the user.                       *)
(***************************************************************************)
LEMMA FirstUserIsSuffix ==
  ASSUME NEW b \in Seq(Message)
  PROVE  \E k \in 0 .. Len(b) :
            /\ Suffix(FromFirstUser(b), b, k)
            /\ FromFirstUser(b) # << >> => FromUser(FromFirstUser(b)[1])
            /\ b # << >> /\ FromUser(b[Len(b)]) => k < Len(b)
<1> DEFINE user == {i \in DOMAIN b : FromUser(b[i])}
<1>1. DOMAIN b = 1 .. Len(b) /\ Len(b) \in Nat
  BY LenProperties
<1>2. CASE user = {}
  <2>1. FromFirstUser(b) = << >>
    BY <1>2 DEF FromFirstUser
  <2>2. Suffix(<< >>, b, Len(b))
    BY <1>1, EmptySeq DEF Suffix
  <2>3. b # << >> => Len(b) \in DOMAIN b
    BY <1>1, EmptySeq
  <2> QED
    BY <1>1, <1>2, <2>1, <2>2, <2>3
<1>3. CASE user # {}
  <2> DEFINE m == Min(user)
  <2>1. user \in SUBSET Nat
    BY <1>1
  <2>2. m \in user
    BY <1>3, <2>1, MinIsLeast
  <2>3. FromFirstUser(b) = SubSeq(b, m, Len(b))
    BY <1>3 DEF FromFirstUser
  <2>4. m \in 1 .. Len(b) /\ FromUser(b[m])
    BY <1>1, <2>2
  <2> HIDE DEF m
  <2>5. m - 1 \in 0 .. Len(b) /\ (m - 1) + 1 = m /\ m - 1 < Len(b) /\ 1 \in 1 .. Len(b) - (m - 1)
        /\ 1 + (m - 1) = m
    BY <1>1, <2>4
  <2>6. Suffix(FromFirstUser(b), b, m - 1)
    BY <2>3, <2>5, SubSeqIsSuffix
  <2>7. FromFirstUser(b)[1] = b[m]
    BY <2>5, <2>6 DEF Suffix
  <2> QED
    BY <2>4, <2>5, <2>6, <2>7
<1> QED
  BY <1>2, <1>3

LEMMA TrimIsSuffix ==
  ASSUME NEW b \in Seq(Message)
  PROVE  \E k \in 0 .. Len(b) :
            /\ Suffix(Trim(b), b, k)
            /\ Len(b) - k <= MaxBuffer
            /\ k = 0 \/ Trim(b) = << >> \/ FromUser(Trim(b)[1])
            /\ b # << >> /\ FromUser(b[Len(b)]) => k < Len(b)
<1>1. Len(b) \in Nat /\ MaxBuffer \in Nat /\ MaxBuffer > 0
  BY LenProperties, MaxBufferAssumption
<1>2. CASE Len(b) <= MaxBuffer
  <2>1. Trim(b) = b
    BY <1>2 DEF Trim
  <2>2. Suffix(b, b, 0)
    BY <1>1 DEF Suffix
  <2>3. b # << >> => 0 < Len(b)
    BY <1>1, EmptySeq
  <2> QED
    BY <1>1, <1>2, <2>1, <2>2, <2>3
<1>3. CASE Len(b) > MaxBuffer
  <2> DEFINE d == Len(b) - MaxBuffer
             n == Newest(b)
  <2>1. d \in 0 .. Len(b) /\ n = SubSeq(b, d + 1, Len(b))
    BY <1>1, <1>3 DEF Newest
  <2>2. Suffix(n, b, d)
    BY <2>1, SubSeqIsSuffix
  <2>3. n \in Seq(Message) /\ Len(n) = MaxBuffer /\ Len(b) - d = MaxBuffer
    BY <1>1, <2>2 DEF Suffix
  <2>4. Trim(b) = FromFirstUser(n)
    BY <1>1, <1>3 DEF Trim
  <2> HIDE DEF n
  <2>5. PICK j \in 0 .. Len(n) :
            /\ Suffix(FromFirstUser(n), n, j)
            /\ FromFirstUser(n) # << >> => FromUser(FromFirstUser(n)[1])
            /\ n # << >> /\ FromUser(n[Len(n)]) => j < Len(n)
    BY <2>3, FirstUserIsSuffix
  <2>6. j \in 0 .. MaxBuffer /\ j + d \in 0 .. Len(b) /\ Len(b) - (j + d) = MaxBuffer - j
        /\ Len(b) - (j + d) <= MaxBuffer
    BY <1>1, <1>3, <2>3, <2>5
  <2>7. Suffix(Trim(b), b, j + d)
    <3>1. Trim(b) \in Seq(Message) /\ Len(Trim(b)) = MaxBuffer - j
      BY <2>3, <2>4, <2>5 DEF Suffix
    <3>2. ASSUME NEW i \in 1 .. MaxBuffer - j PROVE Trim(b)[i] = b[i + (j + d)]
      <4>1. Trim(b)[i] = n[i + j]
        BY <2>3, <2>4, <2>5 DEF Suffix
      <4>2. i + j \in 1 .. Len(b) - d /\ (i + j) + d = i + (j + d)
        BY <1>1, <2>3, <2>6
      <4>3. n[i + j] = b[(i + j) + d]
        BY <2>2, <4>2 DEF Suffix
      <4> QED
        BY <4>1, <4>2, <4>3
    <3> QED
      BY <2>6, <3>1, <3>2 DEF Suffix
  <2>8. ASSUME FromUser(b[Len(b)]) PROVE j + d < Len(b)
    <3>1. Len(n) \in 1 .. Len(b) - d /\ Len(n) + d = Len(b) /\ n # << >>
      BY <1>1, <2>3, EmptySeq
    <3>2. n[Len(n)] = b[Len(b)]
      BY <2>2, <3>1 DEF Suffix
    <3>3. j < Len(n)
      BY <2>5, <2>8, <3>1, <3>2
    <3> QED
      BY <1>1, <2>3, <2>6, <3>3
  <2> QED
    BY <2>4, <2>5, <2>6, <2>7, <2>8
<1> QED
  BY <1>1, <1>2, <1>3

-------------------------------------------------------------------------------
(***************************************************************************)
(* Results follow the call they answer, except a first message, and a call *)
(* that is followed is followed by its results.                            *)
(***************************************************************************)
Paired(b) ==
    \A i \in 1 .. Len(b) :
        /\ b[i].kind = "results" /\ i > 1 =>
              b[i - 1].kind = "call" /\ Answers(b[i], b[i - 1])
        /\ b[i].kind = "call" /\ i < Len(b) => Answers(b[i + 1], b[i])

(***************************************************************************)
(* The message m may come next: it answers the call that is last, if there *)
(* is one, and only then may it be results.                                *)
(***************************************************************************)
Fits(b, m) ==
    b # << >> => /\ b[Len(b)].kind = "call" => Answers(m, b[Len(b)])
                 /\ m.kind = "results" => b[Len(b)].kind = "call" /\ Answers(m, b[Len(b)])

LEMMA AppendPaired ==
  ASSUME NEW b \in Seq(Message), NEW m \in Message, Paired(b), Fits(b, m)
  PROVE  Paired(Append(b, m))
<1> DEFINE c == Append(b, m)
<1>1. /\ Len(c) = Len(b) + 1 /\ Len(b) \in Nat
      /\ \A i \in 1 .. Len(b) : c[i] = b[i]
      /\ c[Len(b) + 1] = m
  BY AppendProperties, LenProperties
<1> HIDE DEF c
<1>2. Len(b) > 0 => b # << >>
  BY EmptySeq
<1>3. ASSUME NEW i \in 1 .. Len(c), c[i].kind = "results", i > 1
      PROVE  c[i - 1].kind = "call" /\ Answers(c[i], c[i - 1])
  <2>1. CASE i <= Len(b)
    <3>1. i \in 1 .. Len(b) /\ i - 1 \in 1 .. Len(b)
      BY <1>1, <1>3, <2>1
    <3> QED
      BY <1>1, <1>3, <3>1 DEF Paired
  <2>2. CASE i = Len(b) + 1
    <3>1. i - 1 = Len(b) /\ Len(b) \in 1 .. Len(b) /\ b # << >>
      BY <1>1, <1>2, <1>3, <2>2
    <3>2. c[i] = m /\ c[i - 1] = b[Len(b)]
      BY <1>1, <2>2, <3>1
    <3> QED
      BY <1>3, <3>1, <3>2 DEF Fits
  <2> QED
    BY <1>1, <2>1, <2>2
<1>4. ASSUME NEW i \in 1 .. Len(c), c[i].kind = "call", i < Len(c)
      PROVE  Answers(c[i + 1], c[i])
  <2>1. i \in 1 .. Len(b) /\ c[i] = b[i]
    BY <1>1, <1>4
  <2>2. CASE i < Len(b)
    <3>1. i + 1 \in 1 .. Len(b)
      BY <1>1, <2>1, <2>2
    <3> QED
      BY <1>1, <1>4, <2>1, <2>2, <3>1 DEF Paired
  <2>3. CASE i = Len(b)
    BY <1>1, <1>2, <1>4, <2>1, <2>3 DEF Fits
  <2> QED
    BY <1>1, <2>1, <2>2, <2>3
<1>5. Paired(c)
  BY <1>3, <1>4 DEF Paired
<1> QED
  BY <1>5 DEF c

LEMMA SuffixPaired ==
  ASSUME NEW b \in Seq(Message), NEW k \in 0 .. Len(b), NEW s, Suffix(s, b, k), Paired(b)
  PROVE  Paired(s)
<1>1. Len(b) \in Nat /\ k \in Nat /\ Len(s) = Len(b) - k
      /\ \A i \in 1 .. Len(s) : s[i] = b[i + k]
  BY LenProperties DEF Suffix
<1>2. ASSUME NEW i \in 1 .. Len(s), s[i].kind = "results", i > 1
      PROVE  s[i - 1].kind = "call" /\ Answers(s[i], s[i - 1])
  <2>1. i - 1 \in 1 .. Len(s) /\ i + k \in 1 .. Len(b) /\ i + k > 1 /\ (i - 1) + k = (i + k) - 1
    BY <1>1, <1>2
  <2>2. s[i] = b[i + k] /\ s[i - 1] = b[(i + k) - 1]
    BY <1>1, <2>1
  <2> QED
    BY <1>2, <2>1, <2>2 DEF Paired
<1>3. ASSUME NEW i \in 1 .. Len(s), s[i].kind = "call", i < Len(s)
      PROVE  Answers(s[i + 1], s[i])
  <2>1. i + 1 \in 1 .. Len(s) /\ i + k \in 1 .. Len(b) /\ i + k < Len(b) /\ (i + 1) + k = (i + k) + 1
    BY <1>1, <1>3
  <2>2. s[i] = b[i + k] /\ s[i + 1] = b[(i + k) + 1]
    BY <1>1, <2>1
  <2> QED
    BY <1>3, <2>1, <2>2 DEF Paired
<1> QED
  BY <1>2, <1>3 DEF Paired

(***************************************************************************)
(* What is left of the buffer when m was appended and the buffer trimmed.  *)
(***************************************************************************)
LEMMA TrimmedAppend ==
  ASSUME NEW b \in Seq(Message), NEW m \in Message, NEW c, c = Trim(Append(b, m))
  PROVE  /\ c \in Seq(Message) /\ Len(c) <= MaxBuffer
         /\ c # << >> => c[Len(c)] = m
         /\ FromUser(m) => c # << >>
         /\ Paired(b) /\ Fits(b, m) => Paired(c)
         /\ FromUser(IF b = << >> THEN m ELSE b[1]) => c = << >> \/ FromUser(c[1])
<1> DEFINE d == Append(b, m)
<1>1. /\ d \in Seq(Message) /\ d # << >>
      /\ Len(d) = Len(b) + 1 /\ Len(b) \in Nat
      /\ \A i \in 1 .. Len(b) : d[i] = b[i]
      /\ d[Len(d)] = m
  BY AppendProperties, LenProperties
<1>2. Paired(b) /\ Fits(b, m) => Paired(d)
  BY AppendPaired
<1>3. c = Trim(d)
  OBVIOUS
<1> HIDE DEF d
<1>4. PICK k \in 0 .. Len(d) :
            /\ Suffix(c, d, k)
            /\ Len(d) - k <= MaxBuffer
            /\ k = 0 \/ c = << >> \/ FromUser(c[1])
            /\ d # << >> /\ FromUser(d[Len(d)]) => k < Len(d)
  BY <1>1, <1>3, TrimIsSuffix
<1>5. c \in Seq(Message) /\ Len(c) = Len(d) - k /\ \A i \in 1 .. Len(c) : c[i] = d[i + k]
  BY <1>4 DEF Suffix
<1>6. Len(c) \in Nat /\ (c # << >> => Len(c) > 0)
  BY <1>5, LenProperties, EmptySeq
<1>7. c # << >> => c[Len(c)] = m
  <2>1. SUFFICES ASSUME c # << >> PROVE c[Len(c)] = m
    OBVIOUS
  <2>2. Len(c) \in 1 .. Len(c) /\ Len(c) + k = Len(d)
    BY <1>1, <1>5, <1>6, <2>1
  <2> QED
    BY <1>1, <1>5, <2>2
<1>8. FromUser(m) => c # << >>
  <2>1. SUFFICES ASSUME FromUser(m), c = << >> PROVE FALSE
    OBVIOUS
  <2>2. Len(c) = 0
    BY <2>1, EmptySeq
  <2> QED
    BY <1>1, <1>4, <1>5, <2>1, <2>2
<1>9. ASSUME FromUser(IF b = << >> THEN m ELSE b[1]), k = 0, c # << >> PROVE FromUser(c[1])
  <2>1. 1 \in 1 .. Len(c) /\ c[1] = d[1] /\ Len(c) = Len(d)
    BY <1>1, <1>5, <1>6, <1>9
  <2>2. CASE b = << >>
    BY <1>1, <1>9, <2>1, <2>2, EmptySeq
  <2>3. CASE b # << >>
    <3>1. 1 \in 1 .. Len(b)
      BY <2>3, EmptySeq
    <3> QED
      BY <1>1, <1>9, <2>1, <2>3, <3>1
  <2> QED
    BY <2>2, <2>3
<1> QED
  BY <1>1, <1>2, <1>4, <1>5, <1>7, <1>8, <1>9, SuffixPaired

-------------------------------------------------------------------------------
(***************************************************************************)
(* The type invariant; a turn that has not begun has no iteration and no   *)
(* outcome; only finitely many turns have begun; and the buffer is within  *)
(* its maximum but for the turns that failed or are under way.             *)
(***************************************************************************)
Fresh(t) == pc[t] = "idle" => iter[t] = 0 /\ outcome[t] = "none"

Begun == {t \in Turns : pc[t] # "idle"}
Excess == {t \in Turns : outcome[t] = "failed" \/ Running(t)}

IInv == /\ TypeOK
        /\ \A t \in Turns : Fresh(t)
        /\ IsFiniteSet(Begun)
        /\ GrowsByFailuresOnly

LEMMA Appended ==
  ASSUME TypeOK, NEW t \in Turns, NEW kind \in UserKinds \union AssistantKinds,
         NEW i \in 0 .. MaxIterations
  PROVE  /\ [kind |-> kind, turn |-> t, iter |-> i] \in Message
         /\ iter[t] \in 0 .. MaxIterations
         /\ buffer \in Seq(Message)
BY DEF TypeOK, Message

LEMMA ExcessFinite ==
  ASSUME IInv
  PROVE  /\ IsFiniteSet(Excess) /\ Cardinality(Excess) \in Nat
         /\ Len(buffer) <= MaxBuffer + Cardinality(Excess)
<1>1. Excess \subseteq Begun
  BY DEF Excess, Begun, IInv, Fresh, Running
<1>2. IsFiniteSet(Excess)
  BY <1>1, FS_Subset DEF IInv
<1>3. Len(buffer) <= MaxBuffer + Cardinality(Excess)
  BY DEF IInv, GrowsByFailuresOnly, Excess
<1> QED
  BY <1>2, <1>3, FS_CardinalityType

LEMMA InvInit == Init => IInv
<1> SUFFICES ASSUME Init PROVE IInv
  OBVIOUS
<1>1. TypeOK /\ \A t \in Turns : Fresh(t)
  <2>1. 0 \in 0 .. MaxIterations
    BY MaxIterationsAssumption
  <2>2. buffer \in Seq(Message)
    BY EmptySeq DEF Init
  <2> QED
    BY <2>1, <2>2 DEF Init, TypeOK, Fresh
<1>2. Begun = {} /\ Excess = {}
  BY DEF Init, Begun, Excess, Running
<1>3. Len(buffer) = 0 /\ Cardinality(Excess) = 0 /\ IsFiniteSet(Begun)
  BY <1>2, EmptySeq, FS_EmptySet DEF Init
<1>4. GrowsByFailuresOnly
  BY <1>3, MaxBufferAssumption DEF GrowsByFailuresOnly, Excess
<1> QED
  BY <1>1, <1>3, <1>4 DEF IInv

(***************************************************************************)
(* A message that is appended and trimmed leaves the buffer within its     *)
(* maximum, whatever becomes of the turn.                                  *)
(***************************************************************************)
LEMMA TrimmedIsBounded ==
  ASSUME IInv, NEW t \in Turns, NEW m \in Message, buffer' = Trim(Append(buffer, m)),
         Begun' = Begun
  PROVE  buffer' \in Seq(Message) /\ IsFiniteSet(Begun') /\
         ((\A u \in Turns : Fresh(u)') => GrowsByFailuresOnly')
<1>1. buffer' \in Seq(Message) /\ Len(buffer') <= MaxBuffer
  BY TrimmedAppend DEF IInv, TypeOK
<1>2. ASSUME \A u \in Turns : Fresh(u)' PROVE GrowsByFailuresOnly'
  <2>1. Excess' \subseteq Begun'
    BY <1>2 DEF Excess, Begun, Fresh, Running
  <2>2. IsFiniteSet(Excess')
    BY <2>1, FS_Subset DEF IInv
  <2>3. Cardinality(Excess') \in Nat /\ Len(buffer') \in Nat /\ MaxBuffer \in Nat
    BY <1>1, <2>2, FS_CardinalityType, LenProperties, MaxBufferAssumption
  <2>4. Len(buffer') <= MaxBuffer + Cardinality(Excess')
    BY <1>1, <2>3
  <2> QED
    BY <2>4 DEF GrowsByFailuresOnly, Excess
<1> QED
  BY <1>1, <1>2 DEF IInv

LEMMA InvStep == IInv /\ [Next]_vars => IInv'
<1> SUFFICES ASSUME IInv, [Next]_vars PROVE IInv'
  OBVIOUS
<1> USE DEF IInv
<1>1. ASSUME NEW t \in Turns, Begin(t) PROVE IInv'
  <2> DEFINE m == [kind |-> "text", turn |-> t, iter |-> 0]
  <2>1. m \in Message /\ buffer \in Seq(Message)
    BY Appended, MaxIterationsAssumption DEF UserKinds
  <2> HIDE DEF m
  <2>2. /\ pc[t] = "idle" /\ buffer' = Append(buffer, m)
        /\ overlapped' \in BOOLEAN
        /\ pc' = [pc EXCEPT ![t] = "asking"]
        /\ iter' = [iter EXCEPT ![t] = @ + 1]
        /\ valid' = [valid EXCEPT ![t] = Accepted(buffer')]
        /\ outcome' = outcome
    BY <1>1 DEF Begin, Ask, m
  <2>3. /\ buffer' \in Seq(Message)
        /\ Len(buffer') = Len(buffer) + 1 /\ Len(buffer) \in Nat
    BY <2>1, <2>2, AppendProperties, LenProperties
  <2>4. iter' \in [Turns -> 0 .. MaxIterations]
    BY <2>2, MaxIterationsAssumption DEF TypeOK, Fresh
  <2>5. TypeOK'
    <3>1. Accepted(buffer') \in BOOLEAN
      BY DEF Accepted
    <3> QED
      BY <2>2, <2>3, <2>4, <3>1 DEF TypeOK
  <2>6. \A u \in Turns : Fresh(u)'
    BY <2>2 DEF TypeOK, Fresh
  <2>7. Begun' = Begun \union {t} /\ Excess' = Excess \union {t} /\ t \notin Excess
    BY <2>2 DEF Begun, Excess, TypeOK, Fresh, Running
  <2>8. IsFiniteSet(Begun')
    BY <2>7, FS_AddElement
  <2>9. GrowsByFailuresOnly'
    <3>1. Cardinality(Excess') = Cardinality(Excess) + 1
      BY <2>7, ExcessFinite, FS_AddElement
    <3>2. Len(buffer') <= MaxBuffer + Cardinality(Excess')
      BY <2>3, <3>1, ExcessFinite, MaxBufferAssumption
    <3> QED
      BY <3>2 DEF GrowsByFailuresOnly, Excess
  <2> QED
    BY <2>5, <2>6, <2>8, <2>9
<1>2. ASSUME NEW t \in Turns, NEW kind \in AssistantKinds, Respond(t, kind) PROVE IInv'
  <2> DEFINE m == [kind |-> kind, turn |-> t, iter |-> iter[t]]
  <2>1. iter[t] \in 0 .. MaxIterations
    BY DEF TypeOK
  <2>2. m \in Message
    BY <2>1, Appended
  <2> HIDE DEF m
  <2>3. /\ pc[t] = "asking" /\ buffer' = Trim(Append(buffer, m))
        /\ UNCHANGED <<iter, valid, overlapped>>
        /\ pc' \in {[pc EXCEPT ![t] = "executing"], [pc EXCEPT ![t] = "done"]}
        /\ outcome' \in {outcome, [outcome EXCEPT ![t] = "answered"]}
    BY <1>2 DEF Respond, m
  <2>4. Begun' = Begun
    BY <2>3 DEF Begun, TypeOK
  <2>5. \A u \in Turns : Fresh(u)'
    BY <2>3 DEF TypeOK, Fresh
  <2>6. buffer' \in Seq(Message) /\ IsFiniteSet(Begun') /\ GrowsByFailuresOnly'
    BY <2>2, <2>3, <2>4, <2>5, TrimmedIsBounded
  <2>7. TypeOK'
    BY <2>3, <2>6 DEF TypeOK
  <2> QED
    BY <2>5, <2>6, <2>7
<1>3. ASSUME NEW t \in Turns, RequestFails(t) PROVE IInv'
  <2>1. /\ pc[t] = "asking" /\ pc' = [pc EXCEPT ![t] = "done"]
        /\ outcome' = [outcome EXCEPT ![t] = "failed"]
        /\ UNCHANGED <<buffer, iter, valid, overlapped>>
    BY <1>3 DEF RequestFails
  <2>2. TypeOK' /\ \A u \in Turns : Fresh(u)'
    BY <2>1 DEF TypeOK, Fresh
  <2>3. Begun' = Begun /\ Excess' = Excess
    BY <2>1 DEF Begun, Excess, TypeOK, Running
  <2>4. GrowsByFailuresOnly'
    BY <2>1, <2>3 DEF GrowsByFailuresOnly, Excess
  <2> QED
    BY <2>2, <2>3, <2>4
<1>4. ASSUME NEW t \in Turns, ToolsRan(t) PROVE IInv'
  <2> DEFINE m == [kind |-> "results", turn |-> t, iter |-> iter[t]]
  <2>1. iter[t] \in 0 .. MaxIterations
    BY DEF TypeOK
  <2>2. m \in Message
    BY <2>1, Appended DEF UserKinds
  <2> HIDE DEF m
  <2>3. /\ pc[t] = "executing" /\ buffer' = Trim(Append(buffer, m)) /\ overlapped' = overlapped
        /\ \/ /\ iter[t] < MaxIterations
              /\ pc' = [pc EXCEPT ![t] = "asking"]
              /\ iter' = [iter EXCEPT ![t] = @ + 1]
              /\ valid' = [valid EXCEPT ![t] = Accepted(buffer')]
              /\ outcome' = outcome
           \/ /\ pc' = [pc EXCEPT ![t] = "done"]
              /\ outcome' = [outcome EXCEPT ![t] = "capped"]
              /\ UNCHANGED <<iter, valid>>
    BY <1>4 DEF ToolsRan, Ask, m
  <2>4. Begun' = Begun
    BY <2>3 DEF Begun, TypeOK
  <2>5. \A u \in Turns : Fresh(u)'
    BY <2>3 DEF TypeOK, Fresh
  <2>6. buffer' \in Seq(Message) /\ IsFiniteSet(Begun') /\ GrowsByFailuresOnly'
    BY <2>2, <2>3, <2>4, <2>5, TrimmedIsBounded
  <2>7. /\ pc' \in [Turns -> {"idle", "asking", "executing", "done"}]
        /\ outcome' \in [Turns -> {"none", "answered", "failed", "capped"}]
    BY <2>3 DEF TypeOK
  <2>8. iter' \in [Turns -> 0 .. MaxIterations]
    <3>1. iter \in [Turns -> 0 .. MaxIterations]
      BY DEF TypeOK
    <3>2. iter[t] < MaxIterations => iter[t] + 1 \in 0 .. MaxIterations
      BY <2>1, MaxIterationsAssumption
    <3> QED
      BY <2>3, <3>1, <3>2
  <2>9. valid' \in [Turns -> BOOLEAN]
    <3>1. Accepted(buffer') \in BOOLEAN
      BY DEF Accepted
    <3> QED
      BY <2>3, <3>1 DEF TypeOK
  <2>10. TypeOK'
    BY <2>3, <2>6, <2>7, <2>8, <2>9 DEF TypeOK
  <2> QED
    BY <2>5, <2>6, <2>10
<1>5. CASE Reset
  <2>1. buffer' = << >> /\ UNCHANGED <<pc, iter, valid, outcome, overlapped>>
    BY <1>5 DEF Reset
  <2>2. TypeOK' /\ (\A u \in Turns : Fresh(u)') /\ Begun' = Begun /\ Excess' = Excess
    BY <2>1, EmptySeq DEF TypeOK, Fresh, Begun, Excess, Running
  <2>3. Len(buffer') = 0
    BY <2>1, EmptySeq
  <2>4. Len(buffer') <= MaxBuffer + Cardinality(Excess')
    BY <2>2, <2>3, ExcessFinite, MaxBufferAssumption
  <2> QED
    BY <2>2, <2>4 DEF GrowsByFailuresOnly, Excess
<1>6. CASE UNCHANGED vars
  BY <1>6 DEF vars, TypeOK, Fresh, Begun, GrowsByFailuresOnly, Running
<1> QED
  BY <1>1, <1>2, <1>3, <1>4, <1>5, <1>6 DEF Next, Turn

LEMMA Invariant == Spec => []IInv
BY InvInit, InvStep, PTL DEF Spec

(***************************************************************************)
(* The type invariant holds, for any maximum and any iteration cap.        *)
(***************************************************************************)
THEOREM TypeCorrect == Spec => []TypeOK
<1>1. IInv => TypeOK
  BY DEF IInv
<1> QED
  BY <1>1, Invariant, PTL

(***************************************************************************)
(* Only failed requests make the buffer outgrow its maximum.               *)
(***************************************************************************)
THEOREM GrowthIsExplained == Spec => []GrowsByFailuresOnly
<1>1. IInv => GrowsByFailuresOnly
  BY DEF IInv
<1> QED
  BY <1>1, Invariant, PTL

-------------------------------------------------------------------------------
(***************************************************************************)
(* A text at the end makes no rejected buffer acceptable.                  *)
(***************************************************************************)
LEMMA TextHealsNothing ==
  ASSUME NEW b \in Seq(Message), b # << >>, NEW m \in Message, m.kind = "text",
         Accepted(Append(b, m)), ~ ToolUse(b[Len(b)])
  PROVE  Accepted(b)
<1> DEFINE c == Append(b, m)
<1>1. /\ Len(c) = Len(b) + 1 /\ Len(b) \in Nat /\ Len(b) > 0
      /\ c \in Seq(Message)
      /\ \A i \in 1 .. Len(b) : c[i] = b[i]
  BY AppendProperties, LenProperties, EmptySeq
<1>2. DOMAIN c = 1 .. Len(c) /\ DOMAIN b = 1 .. Len(b)
  BY <1>1, LenProperties
<1>3. Accepted(c)
  OBVIOUS
<1> HIDE DEF c
<1>4. FromUser(b[1])
  BY <1>1, <1>3 DEF Accepted
<1>5. ASSUME NEW i \in DOMAIN b, ToolUse(b[i])
      PROVE  i < Len(b) /\ Answers(b[i + 1], b[i])
  <2>1. i < Len(b) /\ i \in 1 .. Len(b) /\ i + 1 \in 1 .. Len(b) /\ i \in DOMAIN c
    BY <1>1, <1>2, <1>5
  <2>2. c[i] = b[i] /\ c[i + 1] = b[i + 1]
    BY <1>1, <2>1
  <2> QED
    BY <1>3, <1>5, <2>1, <2>2 DEF Accepted
<1>6. ASSUME NEW i \in DOMAIN b, b[i].kind = "results"
      PROVE  i > 1 /\ ToolUse(b[i - 1]) /\ Answers(b[i], b[i - 1])
  <2>1. i \in 1 .. Len(b) /\ i \in DOMAIN c /\ c[i] = b[i]
    BY <1>1, <1>2
  <2>2. i > 1 /\ ToolUse(c[i - 1]) /\ Answers(c[i], c[i - 1])
    BY <1>3, <1>6, <2>1 DEF Accepted
  <2>3. i - 1 \in 1 .. Len(b) /\ c[i - 1] = b[i - 1]
    BY <1>1, <2>1, <2>2
  <2> QED
    BY <2>1, <2>2, <2>3
<1>7. ASSUME NEW i \in DOMAIN b, b[i].kind = "empty" PROVE FALSE
  <2>1. i \in 1 .. Len(b) /\ i \in DOMAIN c /\ c[i] = b[i] /\ i # Len(c)
    BY <1>1, <1>2
  <2> QED
    BY <1>3, <1>7, <2>1 DEF Accepted
<1> QED
  BY <1>4, <1>5, <1>6, <1>7 DEF Accepted

(***************************************************************************)
(* A rejected conversation stays rejected until it is reset: a turn that   *)
(* begins is judged on the rejected buffer and one more text, it gets no   *)
(* response, and nothing else changes the buffer.                          *)
(***************************************************************************)
THEOREM RejectedForEver == Spec => RejectionIsPermanent
<1> DEFINE Text(t) == [kind |-> "text", turn |-> t, iter |-> 0]
           Stays == Rejected => Rejected' \/ buffer' = << >>
<1>1. IInv /\ [Next]_vars => [Stays]_vars
  <2> SUFFICES ASSUME IInv, [Next]_vars, Rejected, buffer' # << >> PROVE Rejected'
    BY Zenon
  <2>1. buffer \in Seq(Message) /\ \A t \in Turns : Text(t) \in Message
    BY Appended, MaxIterationsAssumption DEF IInv, UserKinds, TypeOK
  <2>2. /\ \A t \in Turns : ~ CanTrim(t)
        /\ \A t \in Turns : ~ Accepted(Append(buffer, Text(t)))
    BY DEF Rejected
  <2>3. ASSUME NEW t \in Turns, Begin(t) PROVE Rejected'
    <3>1. /\ buffer' = Append(buffer, Text(t)) /\ pc' = [pc EXCEPT ![t] = "asking"]
          /\ valid' = [valid EXCEPT ![t] = Accepted(buffer')]
      BY <2>3 DEF Begin, Ask
    <3>2. \A u \in Turns : ~ CanTrim(u)'
      BY <2>2, <3>1 DEF CanTrim, IInv, TypeOK
    <3>3. /\ buffer' \in Seq(Message) /\ buffer' # << >>
          /\ buffer'[Len(buffer')] = Text(t)
      BY <2>1, <3>1, AppendProperties
    <3>4. ~ ToolUse(buffer'[Len(buffer')])
      BY <3>3 DEF ToolUse
    <3>5. ASSUME NEW u \in Turns PROVE ~ Accepted(Append(buffer', Text(u)))
      <4>1. Text(u) \in Message /\ Text(u).kind = "text"
        BY <2>1
      <4>2. ~ Accepted(buffer')
        BY <2>2, <3>1
      <4> HIDE DEF Text
      <4> QED
        BY <3>3, <3>4, <4>1, <4>2, TextHealsNothing
    <3> QED
      BY <3>2, <3>5 DEF Rejected
  <2>4. ASSUME NEW t \in Turns, RequestFails(t) PROVE Rejected'
    <3>1. buffer' = buffer /\ valid' = valid /\ pc' = [pc EXCEPT ![t] = "done"]
      BY <2>4 DEF RequestFails
    <3>2. \A u \in Turns : ~ CanTrim(u)'
      BY <2>2, <3>1 DEF CanTrim, IInv, TypeOK
    <3> QED
      BY <2>2, <3>1, <3>2 DEF Rejected
  <2>5. \A t \in Turns : ~ ToolsRan(t) /\ \A kind \in AssistantKinds : ~ Respond(t, kind)
    BY <2>2 DEF CanTrim, ToolsRan, Respond
  <2>6. ~ Reset
    BY DEF Reset
  <2>7. CASE UNCHANGED vars
    BY <2>7 DEF Rejected, CanTrim, vars
  <2> QED
    BY <2>3, <2>4, <2>5, <2>6, <2>7 DEF Next, Turn
<1> QED
  BY <1>1, Invariant, PTL DEF Spec, RejectionIsPermanent

-------------------------------------------------------------------------------
(***************************************************************************)
(* While turns do not overlap: one turn is under way; the buffer is paired *)
(* and begins with the user; a call that is last is being executed, and    *)
(* the turn that executes has its call last, unless trimming took all; a   *)
(* request is sent with the buffer as it is, and judged on it.             *)
(***************************************************************************)
Alone == \A t, u \in Turns : Running(t) /\ Running(u) => t = u

OpenCall == buffer # << >> /\ buffer[Len(buffer)].kind = "call" =>
               pc[buffer[Len(buffer)].turn] = "executing"

CallOf(t) == [kind |-> "call", turn |-> t, iter |-> iter[t]]

Executes == \A t \in Turns :
               pc[t] = "executing" => buffer = << >> \/ buffer[Len(buffer)] = CallOf(t)

Headed == buffer = << >> \/ FromUser(buffer[1])

Judged == \A t \in Turns :
             pc[t] = "asking" => buffer # << >> /\ valid[t] = Accepted(buffer)

Ordered == Alone /\ Paired(buffer) /\ OpenCall /\ Executes /\ Headed /\ Judged

LEMMA OrderedInit == Init => Ordered
<1> SUFFICES ASSUME Init PROVE Ordered
  OBVIOUS
<1>1. Paired(buffer)
  BY EmptySeq DEF Init, Paired
<1> QED
  BY <1>1 DEF Init, Ordered, Alone, OpenCall, Executes, Headed, Judged, Running

LEMMA OrderedStep == IInv /\ (~ overlapped => Ordered) /\ [Next]_vars => (~ overlapped' => Ordered')
<1> SUFFICES ASSUME IInv, ~ overlapped => Ordered, [Next]_vars, ~ overlapped' PROVE Ordered'
  OBVIOUS
<1>0. /\ buffer \in Seq(Message)
      /\ pc \in [Turns -> {"idle", "asking", "executing", "done"}]
      /\ iter \in [Turns -> 0 .. MaxIterations]
      /\ valid \in [Turns -> BOOLEAN]
  BY DEF IInv, TypeOK
<1>t. \A b \in Seq(Message) : b # << >> => b[Len(b)].turn \in Turns
  <2>1. SUFFICES ASSUME NEW b \in Seq(Message), b # << >> PROVE b[Len(b)] \in Message
    BY DEF Message
  <2>2. Len(b) \in 1 .. Len(b)
    BY <2>1, EmptySeq
  <2> QED
    BY <2>2, ElementOfSeq
<1>1. ASSUME NEW t \in Turns, Begin(t) PROVE Ordered'
  <2> DEFINE m == [kind |-> "text", turn |-> t, iter |-> 0]
  <2>1. m \in Message /\ m.kind = "text" /\ FromUser(m)
    BY Appended, MaxIterationsAssumption DEF IInv, UserKinds, FromUser
  <2> HIDE DEF m
  <2>2. /\ pc[t] = "idle" /\ buffer' = Append(buffer, m)
        /\ pc' = [pc EXCEPT ![t] = "asking"]
        /\ valid' = [valid EXCEPT ![t] = Accepted(buffer')]
        /\ overlapped' = (overlapped \/ \E u \in Turns : Running(u))
    BY <1>1 DEF Begin, Ask, m
  <2>3. ~ overlapped /\ \A u \in Turns : ~ Running(u)
    BY <2>2, Zenon
  <2>4. Ordered
    BY <2>3
  <2>5. Fits(buffer, m)
    BY <1>0, <1>t, <2>1, <2>3, <2>4 DEF Fits, Ordered, OpenCall, Running
  <2>6. Paired(buffer')
    BY <1>0, <2>1, <2>2, <2>4, <2>5, AppendPaired DEF Ordered
  <2>7. /\ buffer' # << >> /\ buffer'[Len(buffer')] = m
        /\ Len(buffer') = Len(buffer) + 1
        /\ \A i \in 1 .. Len(buffer) : buffer'[i] = buffer[i]
    BY <1>0, <2>1, <2>2, AppendProperties
  <2>8. Headed'
    <3>1. CASE buffer = << >>
      BY <2>1, <2>7, <3>1, EmptySeq DEF Headed
    <3>2. CASE buffer # << >>
      <4>1. 1 \in 1 .. Len(buffer)
        BY <1>0, <3>2, EmptySeq
      <4> QED
        BY <2>4, <2>7, <3>2, <4>1 DEF Headed, Ordered
    <3> QED
      BY <3>1, <3>2
  <2>9. Alone' /\ Executes' /\ Judged' /\ OpenCall'
    <3>1. \A u \in Turns : pc'[u] \in {"asking", "executing"} => u = t /\ pc'[u] = "asking"
      BY <1>0, <2>2, <2>3 DEF Running
    <3>2. valid'[t] = Accepted(buffer')
      BY <1>0, <2>2
    <3> QED
      BY <2>1, <2>7, <3>1, <3>2 DEF Alone, Executes, Judged, OpenCall, Running
  <2> QED
    BY <2>6, <2>8, <2>9 DEF Ordered
<1>2. ASSUME NEW t \in Turns, NEW kind \in AssistantKinds, Respond(t, kind) PROVE Ordered'
  <2> DEFINE m == [kind |-> kind, turn |-> t, iter |-> iter[t]]
  <2>1. m \in Message /\ m.kind \in AssistantKinds /\ (kind = "call" => m = CallOf(t))
        /\ m.turn = t /\ m.kind = kind
    BY <1>0, Appended DEF IInv, CallOf
  <2> HIDE DEF m
  <2>2. /\ pc[t] = "asking" /\ buffer' = Trim(Append(buffer, m))
        /\ pc' = [pc EXCEPT ![t] = IF kind = "call" THEN "executing" ELSE "done"]
        /\ UNCHANGED <<iter, valid, overlapped>>
    BY <1>2 DEF Respond, m
  <2>3. Ordered /\ buffer # << >>
    BY <2>2 DEF Ordered, Judged
  <2>4. \A u \in Turns : Running(u) => u = t
    BY <2>2, <2>3 DEF Ordered, Alone, Running
  <2>5. buffer[Len(buffer)].kind # "call"
    <3>1. pc[buffer[Len(buffer)].turn] # "executing"
      BY <1>0, <1>t, <2>2, <2>3, <2>4 DEF Running
    <3> QED
      BY <2>3, <3>1 DEF Ordered, OpenCall
  <2>6. Fits(buffer, m)
    BY <2>1, <2>5 DEF Fits, AssistantKinds
  <2>7. /\ Paired(buffer')
        /\ buffer' # << >> => buffer'[Len(buffer')] = m
        /\ Headed'
    <3>1. FromUser(IF buffer = << >> THEN m ELSE buffer[1])
      BY <2>3 DEF Ordered, Headed
    <3>2. Paired(buffer)
      BY <2>3 DEF Ordered
    <3>3. /\ buffer' # << >> => buffer'[Len(buffer')] = m
          /\ Paired(buffer) /\ Fits(buffer, m) => Paired(buffer')
          /\ FromUser(IF buffer = << >> THEN m ELSE buffer[1]) =>
                buffer' = << >> \/ FromUser(buffer'[1])
      <4>1. buffer \in Seq(Message) /\ m \in Message /\ buffer' = Trim(Append(buffer, m))
        BY <1>0, <2>1, <2>2
      <4> QED
        BY <4>1, TrimmedAppend
    <3> QED
      BY <2>6, <3>1, <3>2, <3>3, Zenon DEF Headed
  <2>8. \A u \in Turns : pc'[u] \in {"asking", "executing"} =>
                            u = t /\ pc'[u] = "executing" /\ kind = "call"
    BY <1>0, <2>2, <2>4 DEF Running
  <2>9. Alone' /\ Judged'
    BY <2>8 DEF Alone, Judged, Running
  <2>10. Executes'
    <3>1. CallOf(t)' = CallOf(t)
      BY <2>2 DEF CallOf
    <3> QED
      BY <2>1, <2>7, <2>8, <3>1 DEF Executes
  <2>11. OpenCall'
    <3>1. ASSUME buffer' # << >>, buffer'[Len(buffer')].kind = "call"
          PROVE  pc'[buffer'[Len(buffer')].turn] = "executing"
      BY <1>0, <2>1, <2>2, <2>7, <3>1
    <3> QED
      BY <3>1 DEF OpenCall
  <2> QED
    BY <2>7, <2>9, <2>10, <2>11 DEF Ordered
<1>3. ASSUME NEW t \in Turns, RequestFails(t) PROVE Ordered'
  <2>1. /\ pc[t] = "asking" /\ pc' = [pc EXCEPT ![t] = "done"]
        /\ UNCHANGED <<buffer, iter, valid, overlapped>>
    BY <1>3 DEF RequestFails
  <2>2. Ordered
    BY <2>1
  <2>3. /\ \A u \in Turns : pc'[u] \in {"asking", "executing"} => pc[u] = pc'[u]
        /\ \A u \in Turns : pc[u] = "executing" => pc'[u] = "executing"
    BY <1>0, <2>1
  <2>4. Alone' /\ Executes' /\ Judged'
    BY <2>1, <2>2, <2>3 DEF Ordered, Alone, Executes, Judged, CallOf, Running
  <2>5. OpenCall'
    BY <1>0, <1>t, <2>1, <2>2, <2>3 DEF Ordered, OpenCall
  <2> QED
    BY <2>1, <2>2, <2>4, <2>5 DEF Ordered, Headed
<1>4. ASSUME NEW t \in Turns, ToolsRan(t) PROVE Ordered'
  <2> DEFINE m == [kind |-> "results", turn |-> t, iter |-> iter[t]]
  <2>1. m \in Message /\ m.kind = "results" /\ FromUser(m) /\ Answers(m, CallOf(t))
    BY <1>0, Appended DEF IInv, UserKinds, FromUser, Answers, CallOf
  <2> HIDE DEF m
  <2>2. /\ pc[t] = "executing" /\ buffer' = Trim(Append(buffer, m)) /\ overlapped' = overlapped
        /\ \/ /\ pc' = [pc EXCEPT ![t] = "asking"]
              /\ valid' = [valid EXCEPT ![t] = Accepted(buffer')]
           \/ pc' = [pc EXCEPT ![t] = "done"] /\ UNCHANGED valid
    BY <1>4 DEF ToolsRan, Ask, m
  <2>3. Ordered
    BY <2>2
  <2>4. \A u \in Turns : Running(u) => u = t
    BY <2>2, <2>3 DEF Ordered, Alone, Running
  <2>5. Fits(buffer, m)
    <3>1. buffer # << >> => buffer[Len(buffer)] = CallOf(t)
      BY <2>2, <2>3 DEF Ordered, Executes
    <3>2. CallOf(t).kind = "call"
      BY DEF CallOf
    <3> QED
      BY <2>1, <3>1, <3>2 DEF Fits
  <2>6. /\ Paired(buffer') /\ buffer' # << >> /\ buffer'[Len(buffer')] = m
        /\ Headed'
    <3>1. FromUser(IF buffer = << >> THEN m ELSE buffer[1])
      BY <2>1, <2>3 DEF Ordered, Headed
    <3>2. Paired(buffer)
      BY <2>3 DEF Ordered
    <3> QED
      BY <1>0, <2>1, <2>2, <2>5, <3>1, <3>2, TrimmedAppend DEF Headed
  <2>7. \A u \in Turns : pc'[u] \in {"asking", "executing"} =>
                            u = t /\ pc'[u] = "asking" /\ valid'[u] = Accepted(buffer')
    BY <1>0, <2>2, <2>4 DEF Running
  <2>8. Alone' /\ Executes' /\ Judged' /\ OpenCall'
    BY <2>1, <2>6, <2>7 DEF Alone, Executes, Judged, OpenCall, Running
  <2> QED
    BY <2>6, <2>8 DEF Ordered
<1>5. CASE Reset
  <2>1. buffer' = << >> /\ UNCHANGED <<pc, overlapped>> /\ \A t \in Turns : ~ Running(t)
    BY <1>5 DEF Reset
  <2>2. Paired(buffer')
    BY <2>1, EmptySeq DEF Paired
  <2> QED
    BY <2>1, <2>2 DEF Ordered, Alone, OpenCall, Executes, Headed, Judged, Running
<1>6. CASE UNCHANGED vars
  BY <1>6 DEF vars, Ordered, Alone, Paired, OpenCall, Executes, Headed, Judged, Running, CallOf
<1> QED
  BY <1>1, <1>2, <1>3, <1>4, <1>5, <1>6 DEF Next, Turn

LEMMA OrderedAlways == Spec => [](IInv /\ (~ overlapped => Ordered))
<1>1. Init => (~ overlapped => Ordered)
  BY OrderedInit
<1> QED
  BY <1>1, Invariant, OrderedStep, PTL DEF Spec

(***************************************************************************)
(* While turns do not overlap, results follow the tool use they answer and *)
(* an executed tool use is followed by its results, for any trimming.      *)
(***************************************************************************)
THEOREM ResultsAlwaysFollow == Spec => []ResultsFollowCalls
<1>1. IInv /\ (~ overlapped => Ordered) => ResultsFollowCalls
  <2> SUFFICES ASSUME IInv, Ordered, NEW i \in DOMAIN buffer
               PROVE  /\ buffer[i].kind = "results" /\ i > 1 => Answers(buffer[i], buffer[i - 1])
                      /\ buffer[i].kind = "call" =>
                            \/ i < Len(buffer) /\ Answers(buffer[i + 1], buffer[i])
                            \/ i = Len(buffer) /\ pc[buffer[i].turn] = "executing"
    BY DEF ResultsFollowCalls
  <2>1. DOMAIN buffer = 1 .. Len(buffer) /\ Len(buffer) \in Nat /\ buffer # << >>
    BY LenProperties, EmptySeq DEF IInv, TypeOK
  <2>2. i < Len(buffer) \/ i = Len(buffer)
    BY <2>1
  <2> QED
    BY <2>1, <2>2 DEF Ordered, Paired, OpenCall
<1> QED
  BY <1>1, OrderedAlways, PTL

(***************************************************************************)
(* While turns do not overlap, a request is rejected only for results at   *)
(* the head of the buffer, or for a response kept in it that was cut off   *)
(* or empty.                                                               *)
(***************************************************************************)
THEOREM RejectionsAreExplained == Spec => []RejectionsExplained
<1>1. IInv /\ (~ overlapped => Ordered) => RejectionsExplained
  <2> SUFFICES ASSUME IInv, Ordered, NEW t \in Turns, pc[t] = "asking", ~ valid[t],
                      buffer[1].kind # "results",
                      \A i \in DOMAIN buffer : buffer[i].kind \notin {"cut", "empty"}
               PROVE  FALSE
    BY DEF RejectionsExplained
  <2>1. buffer # << >> /\ ~ Accepted(buffer) /\ FromUser(buffer[1])
    BY DEF Ordered, Judged, Headed
  <2>2. DOMAIN buffer = 1 .. Len(buffer) /\ Len(buffer) \in Nat
    BY LenProperties DEF IInv, TypeOK
  <2>3. ASSUME NEW i \in DOMAIN buffer, ToolUse(buffer[i])
        PROVE  i < Len(buffer) /\ Answers(buffer[i + 1], buffer[i])
    <3>1. buffer[i].kind = "call"
      BY <2>3 DEF ToolUse
    <3>2. i # Len(buffer)
      <4>1. SUFFICES ASSUME i = Len(buffer) PROVE FALSE
        OBVIOUS
      <4>2. buffer[i].turn \in Turns
        <5>1. buffer[i] \in Message
          BY <2>2, ElementOfSeq DEF IInv, TypeOK
        <5> QED
          BY <5>1 DEF Message
      <4>3. pc[buffer[i].turn] = "executing"
        BY <2>1, <3>1, <4>1 DEF Ordered, OpenCall
      <4> QED
        BY <4>2, <4>3 DEF Ordered, Alone, Running
    <3> QED
      BY <2>2, <3>1, <3>2 DEF Ordered, Paired
  <2>4. ASSUME NEW i \in DOMAIN buffer, buffer[i].kind = "results"
        PROVE  i > 1 /\ ToolUse(buffer[i - 1]) /\ Answers(buffer[i], buffer[i - 1])
    <3>1. i > 1
      BY <2>2, <2>4
    <3> QED
      BY <2>2, <2>4, <3>1 DEF Ordered, Paired, ToolUse
  <2> QED
    BY <2>1, <2>3, <2>4 DEF Accepted
<1> QED
  BY <1>1, OrderedAlways, PTL
===============================================================================
