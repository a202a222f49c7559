---------------------------- MODULE Admission_proofs ----------------------------
(***************************************************************************)
(* Proofs about Admission, for any users, limit, window and bounds.        *)
(***************************************************************************)
EXTENDS Admission, FiniteSetTheorems, TLAPS

(***************************************************************************)
(* The parts of the inductive invariant. Time does not run backwards, so   *)
(* the turns of a user are in the order of their timestamps ...            *)
(***************************************************************************)
Sorted ==
    \A u \in Users :
        /\ forgot[u] <= Len(turns[u])
        /\ \A i \in DOMAIN turns[u] :
              /\ turns[u][i] <= now
              /\ \A j \in DOMAIN turns[u] : i <= j => turns[u][i] <= turns[u][j]

(***************************************************************************)
(* ... and pruning never drops a turn of the current window.               *)
(***************************************************************************)
KeepsTheWindow ==
    Limit # 0 =>
        \A u \in Users : \A i \in (forgot[u] + 1) .. Len(turns[u]) :
            turns[u][i] + Window > now => i \in bucket[u]

IInv == TypeOK /\ Sorted /\ KeepsTheWindow /\ Spaced

(***************************************************************************)
(* A bucket is finite, and pruning it keeps it finite and no larger.       *)
(***************************************************************************)
LEMMA BucketFinite ==
  ASSUME TypeOK, NEW u \in Users
  PROVE  /\ IsFiniteSet(bucket[u]) /\ IsFiniteSet(Recent(u))
         /\ Cardinality(Recent(u)) \in Nat
         /\ Cardinality(Recent(u)) <= Cardinality(bucket[u])
<1>1. forgot[u] + 1 \in Int /\ Len(turns[u]) \in Int
  BY DEF TypeOK
<1>2. IsFiniteSet((forgot[u] + 1) .. Len(turns[u]))
  BY <1>1, FS_Interval
<1>3. IsFiniteSet(bucket[u])
  BY <1>2, FS_Subset DEF TypeOK
<1>4. Recent(u) \in SUBSET bucket[u]
  BY DEF Recent
<1> QED
  BY <1>3, <1>4, FS_Subset, FS_CardinalityType

(***************************************************************************)
(* If the turn that came Limit turns ago is still in the window, so are    *)
(* all since, and the bucket is full.                                      *)
(***************************************************************************)
LEMMA FullWindow ==
  ASSUME IInv, Limit # 0, NEW u \in Users,
         NEW i \in (forgot[u] + 1) .. Len(turns[u]),
         i + Limit = Len(turns[u]) + 1,
         turns[u][i] + Window > now
  PROVE  Cardinality(Recent(u)) >= Limit
<1>1. /\ Len(turns[u]) \in Nat /\ forgot[u] \in Nat /\ now \in Nat
      /\ DOMAIN turns[u] = 1 .. Len(turns[u])
      /\ \A j \in DOMAIN turns[u] : turns[u][j] \in Nat
  BY DEF IInv, TypeOK
<1>2. ASSUME NEW j \in i .. Len(turns[u])
      PROVE  j \in Recent(u)
  <2>0. i \in DOMAIN turns[u] /\ j \in DOMAIN turns[u] /\ i <= j
    BY <1>1
  <2>1. turns[u][i] <= turns[u][j]
    BY <2>0 DEF IInv, Sorted
  <2>2. turns[u][j] + Window > now
    <3>1. turns[u][i] \in Nat /\ turns[u][j] \in Nat
      BY <1>1, <2>0
    <3> QED
      BY <1>1, <2>1, <3>1, LimitAssumption
  <2>3. j \in bucket[u]
    BY <1>1, <2>2 DEF IInv, KeepsTheWindow
  <2> QED
    BY <2>2, <2>3 DEF Recent
<1>3. (i .. Len(turns[u])) \in SUBSET Recent(u)
  BY <1>2
<1>4. Cardinality(i .. Len(turns[u])) <= Cardinality(Recent(u))
  BY <1>3, BucketFinite, FS_Subset DEF IInv
<1>5. Cardinality(i .. Len(turns[u])) = Limit
  <2>1. i \in Int /\ Len(turns[u]) \in Int /\ ~ (i > Len(turns[u]))
        /\ Len(turns[u]) - i + 1 = Limit
    BY <1>1, LimitAssumption
  <2> HIDE <1>1
  <2> QED
    BY <2>1, FS_Interval
<1> QED
  BY <1>1, <1>4, <1>5

-------------------------------------------------------------------------------
LEMMA InitEstablishes == Init => IInv
<1> SUFFICES ASSUME Init
             PROVE  IInv
  OBVIOUS
<1>1. \A u \in Users : turns[u] = << >> /\ forgot[u] = 0 /\ bucket[u] = {}
  BY DEF Init
<1>2. TypeOK
  BY <1>1, FS_EmptySet, LimitAssumption DEF Init, TypeOK
<1> QED
  BY <1>1, <1>2 DEF IInv, Sorted, KeepsTheWindow, Spaced

(***************************************************************************)
(* A new turn keeps the invariant.                                         *)
(***************************************************************************)
LEMMA AcceptKeeps ==
  ASSUME IInv, NEW u \in Users, Accept(u)
  PROVE  IInv'
<1> DEFINE n == Len(turns[u])
<1>1. /\ n \in Nat /\ forgot[u] \in Nat /\ now \in Nat /\ now' = now /\ forgot' = forgot
      /\ turns[u] \in Seq(Nat) /\ DOMAIN turns[u] = 1 .. n
      /\ \A j \in 1 .. n : turns[u][j] \in Nat
      /\ turns \in [Users -> Seq(Nat)]
      /\ forgot[u] <= n
  BY DEF IInv, TypeOK, Sorted, Accept
<1>2. /\ turns'[u] = Append(turns[u], now)
      /\ \A v \in Users \ {u} : turns'[v] = turns[v] /\ bucket'[v] = bucket[v]
      /\ turns' \in [Users -> Seq(Nat)]
  BY <1>1 DEF Accept, IInv, TypeOK
<1>3. /\ Len(turns'[u]) = n + 1
      /\ DOMAIN turns'[u] = 1 .. (n + 1)
      /\ turns'[u][n + 1] = now
      /\ \A j \in 1 .. n : turns'[u][j] = turns[u][j]
  BY <1>1, <1>2
<1>4. bucket'[u] = IF Limit = 0 THEN bucket[u] ELSE Recent(u) \union {n + 1}
  BY DEF Accept, IInv, TypeOK
<1>5. Recent(u) \subseteq bucket[u] /\ bucket[u] \subseteq (forgot[u] + 1) .. n
  BY DEF Recent, IInv, TypeOK
<1> HIDE DEF n
<1>6. TypeOK'
  <2>1. bucket'[u] \subseteq (forgot'[u] + 1) .. Len(turns'[u])
    BY <1>1, <1>3, <1>4, <1>5
  <2>2. Cardinality(bucket'[u]) <= Limit
    <3>1. CASE Limit = 0
      BY <3>1, <1>4 DEF IInv, TypeOK
    <3>2. CASE Limit # 0
      <4>1. Cardinality(Recent(u)) < Limit
        BY <3>2 DEF Accept
      <4>2. /\ IsFiniteSet(Recent(u)) /\ Cardinality(Recent(u)) \in Nat
        BY BucketFinite DEF IInv
      <4>3. n + 1 \notin Recent(u)
        BY <1>1, <1>5
      <4>4. Cardinality(Recent(u) \union {n + 1}) = Cardinality(Recent(u)) + 1
        BY <4>2, <4>3, FS_AddElement
      <4> QED
        BY <3>2, <1>4, <4>1, <4>2, <4>4, LimitAssumption
    <3> QED
      BY <3>1, <3>2
  <2>3. \A v \in Users \ {u} : /\ bucket'[v] \subseteq (forgot'[v] + 1) .. Len(turns'[v])
                               /\ Cardinality(bucket'[v]) <= Limit
    BY <1>1, <1>2 DEF IInv, TypeOK
  <2>4. DOMAIN bucket' = Users /\ forgot' \in [Users -> Nat] /\ now' \in Nat
    BY <1>1 DEF IInv, TypeOK, Accept
  <2> QED
    BY <1>2, <2>1, <2>2, <2>3, <2>4 DEF TypeOK
<1>7. Sorted'
  <2>1. /\ forgot'[u] <= Len(turns'[u])
        /\ \A i \in DOMAIN turns'[u] :
              /\ turns'[u][i] <= now'
              /\ \A j \in DOMAIN turns'[u] : i <= j => turns'[u][i] <= turns'[u][j]
    <3>1. \A i \in 1 .. n : /\ turns[u][i] <= now
                            /\ \A j \in 1 .. n : i <= j => turns[u][i] <= turns[u][j]
      BY <1>1 DEF IInv, Sorted
    <3> QED
      BY <3>1, <1>1, <1>3
  <2>2. \A v \in Users \ {u} :
           /\ forgot'[v] <= Len(turns'[v])
           /\ \A i \in DOMAIN turns'[v] :
                 /\ turns'[v][i] <= now'
                 /\ \A j \in DOMAIN turns'[v] : i <= j => turns'[v][i] <= turns'[v][j]
    BY <1>1, <1>2 DEF IInv, Sorted
  <2> QED
    BY <2>1, <2>2 DEF Sorted
<1>8. KeepsTheWindow'
  <2> SUFFICES ASSUME Limit # 0, NEW v \in Users,
                      NEW i \in (forgot'[v] + 1) .. Len(turns'[v]),
                      turns'[v][i] + Window > now'
               PROVE  i \in bucket'[v]
    BY DEF KeepsTheWindow
  <2>1. CASE v # u
    BY <2>1, <1>1, <1>2 DEF IInv, KeepsTheWindow
  <2>2. CASE v = u /\ i = n + 1
    BY <2>2, <1>4
  <2>3. CASE v = u /\ i # n + 1
    <3>1. i \in (forgot[u] + 1) .. n /\ turns[u][i] + Window > now
      BY <2>3, <1>1, <1>3
    <3>2. i \in bucket[u]
      BY <3>1 DEF IInv, KeepsTheWindow, n
    <3> QED
      BY <2>3, <3>1, <3>2, <1>4 DEF Recent
  <2> QED
    BY <2>1, <2>2, <2>3
<1>9. Spaced'
  <2> SUFFICES ASSUME Limit # 0, NEW v \in Users,
                      NEW i \in (forgot'[v] + 1) .. Len(turns'[v]),
                      i + Limit <= Len(turns'[v])
               PROVE  turns'[v][i + Limit] >= turns'[v][i] + Window
    BY DEF Spaced
  <2>0. Limit \in Nat /\ Window \in Nat
    BY LimitAssumption
  <2>1. CASE v # u
    BY <2>1, <1>1, <1>2 DEF IInv, Spaced
  <2>2. CASE v = u /\ i + Limit <= n
    <3>1. i \in (forgot[u] + 1) .. n /\ i + Limit \in 1 .. n
      BY <2>0, <2>2, <1>1, <1>3
    <3>2. turns[u][i + Limit] >= turns[u][i] + Window
      BY <2>2, <3>1 DEF IInv, Spaced, n
    <3> QED
      BY <1>1, <1>3, <2>2, <3>1, <3>2
  <2>3. CASE v = u /\ i + Limit = n + 1
    <3>1. i \in (forgot[u] + 1) .. n
      BY <2>0, <2>3, <1>1, <1>3
    <3>2. Cardinality(Recent(u)) < Limit /\ Cardinality(Recent(u)) \in Nat
      BY BucketFinite DEF Accept, IInv
    <3>3. ~ (turns[u][i] + Window > now)
      BY <2>3, <3>1, <3>2, <2>0, FullWindow DEF n
    <3> QED
      BY <1>1, <1>3, <2>0, <2>3, <3>1, <3>3
  <2> QED
    BY <1>1, <1>3, <2>0, <2>1, <2>2, <2>3
<1> QED
  BY <1>6, <1>7, <1>8, <1>9 DEF IInv

(***************************************************************************)
(* A refused message prunes the bucket and nothing else.                   *)
(***************************************************************************)
LEMMA RefuseKeeps ==
  ASSUME IInv, NEW u \in Users, Refuse(u)
  PROVE  IInv'
<1>1. /\ now' = now /\ turns' = turns /\ forgot' = forgot
      /\ bucket'[u] = Recent(u)
      /\ DOMAIN bucket' = Users
      /\ \A v \in Users \ {u} : bucket'[v] = bucket[v]
  BY DEF Refuse, IInv, TypeOK
<1>2. TypeOK'
  <2>1. Recent(u) \subseteq bucket[u]
    BY DEF Recent
  <2>2. Cardinality(Recent(u)) <= Limit
    <3>1. IsFiniteSet(bucket[u]) /\ Cardinality(Recent(u)) \in Nat
          /\ Cardinality(Recent(u)) <= Cardinality(bucket[u])
      BY BucketFinite DEF IInv
    <3>2. Cardinality(bucket[u]) \in Nat
      BY <3>1, FS_CardinalityType
    <3>3. Cardinality(bucket[u]) <= Limit
      BY DEF IInv, TypeOK
    <3> QED
      BY <3>1, <3>2, <3>3, LimitAssumption
  <2> QED
    BY <1>1, <2>1, <2>2 DEF IInv, TypeOK
<1>3. Sorted' /\ Spaced'
  BY <1>1 DEF IInv, Sorted, Spaced
<1>4. KeepsTheWindow'
  <2> SUFFICES ASSUME Limit # 0, NEW v \in Users,
                      NEW i \in (forgot[v] + 1) .. Len(turns[v]),
                      turns[v][i] + Window > now
               PROVE  i \in bucket'[v]
    BY <1>1 DEF KeepsTheWindow
  <2>1. i \in bucket[v]
    BY DEF IInv, KeepsTheWindow
  <2> QED
    BY <1>1, <2>1 DEF Recent
<1> QED
  BY <1>2, <1>3, <1>4 DEF IInv

LEMMA ResetKeeps ==
  ASSUME IInv, NEW u \in Users, Reset(u)
  PROVE  IInv'
<1>1. /\ now' = now /\ turns' = turns
      /\ forgot'[u] = Len(turns[u]) /\ bucket'[u] = {}
      /\ forgot' \in [Users -> Nat] /\ DOMAIN bucket' = Users
      /\ \A v \in Users \ {u} : forgot'[v] = forgot[v] /\ bucket'[v] = bucket[v]
  BY DEF Reset, IInv, TypeOK
<1>2. Len(turns[u]) \in Nat
  BY DEF IInv, TypeOK
<1>3. TypeOK'
  <2>1. Cardinality(bucket'[u]) <= Limit
    BY <1>1, FS_EmptySet, LimitAssumption
  <2>2. \A v \in Users \ {u} : /\ bucket'[v] \subseteq (forgot'[v] + 1) .. Len(turns'[v])
                               /\ Cardinality(bucket'[v]) <= Limit
    BY <1>1 DEF IInv, TypeOK
  <2>3. now' \in Nat /\ turns' \in [Users -> Seq(Nat)]
    BY <1>1 DEF IInv, TypeOK
  <2> QED
    BY <1>1, <2>1, <2>2, <2>3 DEF TypeOK
<1>4. Sorted'
  BY <1>1, <1>2 DEF IInv, Sorted
<1>5. KeepsTheWindow'
  BY <1>1, <1>2 DEF IInv, KeepsTheWindow
<1>6. Spaced'
  BY <1>1, <1>2 DEF IInv, Spaced
<1> QED
  BY <1>3, <1>4, <1>5, <1>6 DEF IInv

LEMMA TickKeeps ==
  ASSUME IInv, Tick
  PROVE  IInv'
<1>1. now' = now + 1 /\ now \in Nat /\ UNCHANGED <<turns, forgot, bucket>>
  BY DEF Tick, IInv, TypeOK
<1>2. \A u \in Users : \A i \in DOMAIN turns[u] : turns[u][i] \in Nat
  BY DEF IInv, TypeOK
<1>3. \A u \in Users : DOMAIN turns[u] = 1 .. Len(turns[u]) /\ forgot[u] \in Nat
                       /\ Len(turns[u]) \in Nat
  BY DEF IInv, TypeOK
<1>4. TypeOK'
  BY <1>1 DEF IInv, TypeOK
<1>5. Sorted'
  BY <1>1, <1>2 DEF IInv, Sorted
<1>6. KeepsTheWindow'
  <2> SUFFICES ASSUME Limit # 0, NEW u \in Users,
                      NEW i \in (forgot[u] + 1) .. Len(turns[u]),
                      turns[u][i] + Window > now + 1
               PROVE  i \in bucket[u]
    BY <1>1 DEF KeepsTheWindow
  <2>1. turns[u][i] + Window > now
    BY <1>1, <1>2, <1>3, LimitAssumption
  <2> QED
    BY <2>1 DEF IInv, KeepsTheWindow
<1>7. Spaced'
  BY <1>1 DEF IInv, Spaced
<1> QED
  BY <1>4, <1>5, <1>6, <1>7 DEF IInv

(***************************************************************************)
(* The invariant is inductive.                                             *)
(***************************************************************************)
THEOREM InvariantHolds == Spec => []IInv
<1>1. Init => IInv
  BY InitEstablishes
<1>2. IInv /\ [Next]_vars => IInv'
  <2> SUFFICES ASSUME IInv, [Next]_vars
               PROVE  IInv'
    OBVIOUS
  <2>1. ASSUME NEW u \in Users, Accept(u) \/ Refuse(u) \/ Reset(u)
        PROVE  IInv'
    BY <2>1, AcceptKeeps, RefuseKeeps, ResetKeeps
  <2>2. CASE Tick
    BY <2>2, TickKeeps
  <2>3. CASE UNCHANGED vars
    <3>1. /\ now' = now /\ turns' = turns /\ forgot' = forgot /\ bucket' = bucket
      BY <2>3 DEF vars
    <3> QED
      BY <3>1 DEF IInv, TypeOK, Sorted, KeepsTheWindow, Spaced
  <2> QED
    BY <2>1, <2>2, <2>3 DEF Next
<1> QED
  BY <1>1, <1>2, PTL DEF Spec

(***************************************************************************)
(* A bucket never holds more timestamps than the limit.                    *)
(***************************************************************************)
THEOREM BucketBounded == Spec => []TypeOK
<1>1. IInv => TypeOK
  BY DEF IInv
<1> QED
  BY <1>1, InvariantHolds, PTL

(***************************************************************************)
(* No window holds more turns than the limit: _allow_under_rate_limit      *)
(* keeps the promise of rate_limit_per_minute.                             *)
(***************************************************************************)
THEOREM RateIsLimited == Spec => []Spaced
<1>1. IInv => Spaced
  BY DEF IInv
<1> QED
  BY <1>1, InvariantHolds, PTL

(***************************************************************************)
(* What counts against the limit is exactly the turns of the window, so a  *)
(* message is refused only when the window is full.                        *)
(***************************************************************************)
THEOREM WindowIsCounted == Spec => []CountsTheWindow
<1>1. IInv => CountsTheWindow
  <2> SUFFICES ASSUME IInv, Limit # 0, NEW u \in Users
               PROVE  {i \in bucket[u] : turns[u][i] + Window > now}
                        = {i \in (forgot[u] + 1) .. Len(turns[u]) : turns[u][i] + Window > now}
    BY DEF CountsTheWindow
  <2>1. bucket[u] \subseteq (forgot[u] + 1) .. Len(turns[u])
    BY DEF IInv, TypeOK
  <2>2. \A i \in (forgot[u] + 1) .. Len(turns[u]) :
           turns[u][i] + Window > now => i \in bucket[u]
    BY DEF IInv, KeepsTheWindow
  <2> QED
    BY <2>1, <2>2
<1> QED
  BY <1>1, InvariantHolds, PTL
===============================================================================
