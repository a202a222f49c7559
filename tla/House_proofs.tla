------------------------------ MODULE House_proofs ------------------------------
(***************************************************************************)
(* The parser of the structure file and the cut of the prompt, for any     *)
(* file, any categories and any maximum.                                   *)
(***************************************************************************)
EXTENDS House, FiniteSetTheorems, SequenceTheorems, TLAPS

(***************************************************************************)
(* What the file and the dictionary are made of.                           *)
(***************************************************************************)
Entry == Entries \union UNION {Range(e.subs) : e \in Entries}
Item == [entry : Entry, parent : {None} \union {e.uuid : e \in Entry}]
Flat == {Control(item) : item \in Item}

LEMMA EntriesAreShaped ==
  ASSUME NEW e \in Entry
  PROVE  IsEntry(e)
<1>1. CASE e \in Entries
  BY <1>1, EntriesAssumption
<1>2. ASSUME NEW t \in Entries, e \in Range(t.subs) PROVE IsEntry(e)
  <2>1. PICK i \in DOMAIN t.subs : e = t.subs[i]
    BY <1>2 DEF Range
  <2> QED
    BY <2>1, EntriesAssumption
<1> QED
  BY <1>1, <1>2 DEF Entry

LEMMA SubsAreEntries ==
  ASSUME NEW e \in Entries
  PROVE  /\ e \in Entry /\ IsEntry(e)
         /\ Len(e.subs) \in Nat /\ DOMAIN e.subs = 1 .. Len(e.subs)
         /\ \A j \in 1 .. Len(e.subs) : e.subs[j] \in Entry
<1>1. e.subs \in Seq(Range(e.subs))
  BY EntriesAssumption
<1>2. Len(e.subs) \in Nat /\ DOMAIN e.subs = 1 .. Len(e.subs)
  BY <1>1, LenProperties
<1>3. e \in Entry /\ IsEntry(e)
  BY EntriesAssumption DEF Entry
<1>4. ASSUME NEW j \in 1 .. Len(e.subs) PROVE e.subs[j] \in Entry
  <2>1. e.subs[j] \in Range(e.subs)
    BY <1>2 DEF Range
  <2> QED
    BY <2>1 DEF Entry
<1> QED
  BY <1>2, <1>3, <1>4

LEMMA FlatIsShaped ==
  ASSUME NEW c \in Flat
  PROVE  /\ c.name \in Nat /\ c.favorite \in BOOLEAN
         /\ c.category \in Categories /\ c.category # None
<1>1. PICK item \in Item : c = Control(item)
  BY DEF Flat
<1>2. IsEntry(item.entry)
  BY EntriesAreShaped DEF Item
<1>3. Categorize(item.entry.type) \in Categories
  BY DEF Categorize, Categories
<1> QED
  BY <1>1, <1>2, <1>3, CategoryAssumption DEF Control, IsEntry

(***************************************************************************)
(* The sort of the prompt is a strict total order on the places of the     *)
(* dictionary.                                                             *)
(***************************************************************************)
LEMMA BeforeIsOrder ==
  ASSUME NEW c \in Seq(Flat), NEW i \in DOMAIN c, NEW j \in DOMAIN c, NEW k \in DOMAIN c
  PROVE  /\ ~ Before(c, i, i)
         /\ i = j \/ Before(c, i, j) \/ Before(c, j, i)
         /\ Before(c, i, j) /\ Before(c, j, k) => Before(c, i, k)
<1>1. DOMAIN c = 1 .. Len(c) /\ Len(c) \in Nat
  BY LenProperties
<1>2. c[i] \in Flat /\ c[j] \in Flat /\ c[k] \in Flat
  BY <1>1, ElementOfSeq
<1>3. /\ c[i].name \in Nat /\ c[j].name \in Nat /\ c[k].name \in Nat
      /\ c[i].favorite \in BOOLEAN /\ c[j].favorite \in BOOLEAN /\ c[k].favorite \in BOOLEAN
      /\ i \in Nat /\ j \in Nat /\ k \in Nat
  BY <1>1, <1>2, FlatIsShaped
<1> QED
  BY <1>3 DEF Before

(***************************************************************************)
(* The rank of a control: how many come before it.                         *)
(***************************************************************************)
Earlier(c, j) == {k \in DOMAIN c : Before(c, k, j)}
Rank(c, j) == Cardinality(Earlier(c, j))

LEMMA RankFollowsOrder ==
  ASSUME NEW c \in Seq(Flat), NEW i \in DOMAIN c, NEW j \in DOMAIN c
  PROVE  /\ Rank(c, j) \in 0 .. Len(c) - 1
         /\ Before(c, i, j) => Rank(c, i) < Rank(c, j)
<1>1. DOMAIN c = 1 .. Len(c) /\ Len(c) \in Nat
  BY LenProperties
<1>2. IsFiniteSet(DOMAIN c) /\ Cardinality(DOMAIN c) = Len(c)
  <2>1. 1 \in Int /\ Len(c) \in Int /\ (1 > Len(c) => Len(c) = 0) /\ Len(c) - 1 + 1 = Len(c)
    BY <1>1
  <2> QED
    BY <1>1, <2>1, FS_Interval
<1>3. \A k \in DOMAIN c : Earlier(c, k) \subseteq DOMAIN c /\ IsFiniteSet(Earlier(c, k)) /\ Rank(c, k) \in Nat
  BY <1>2, FS_Subset, FS_CardinalityType DEF Earlier, Rank
<1>4. Rank(c, j) \in 0 .. Len(c) - 1
  <2>1. j \notin Earlier(c, j)
    BY BeforeIsOrder DEF Earlier
  <2>2. Earlier(c, j) # DOMAIN c
    BY <2>1
  <2>3. Rank(c, j) <= Len(c) /\ Rank(c, j) # Len(c)
    BY <1>2, <1>3, <2>2, FS_Subset DEF Rank
  <2> QED
    BY <1>1, <1>3, <2>3
<1>5. ASSUME Before(c, i, j) PROVE Rank(c, i) < Rank(c, j)
  <2>1. i \notin Earlier(c, i)
    BY BeforeIsOrder DEF Earlier
  <2>2. Earlier(c, i) \union {i} \subseteq Earlier(c, j)
    BY <1>5, BeforeIsOrder DEF Earlier
  <2>3. Cardinality(Earlier(c, i) \union {i}) = Rank(c, i) + 1
    BY <1>3, <2>1, FS_AddElement DEF Rank
  <2>4. Cardinality(Earlier(c, i) \union {i}) <= Rank(c, j)
    BY <1>3, <2>2, FS_Subset DEF Rank
  <2> QED
    BY <1>3, <2>3, <2>4
<1> QED
  BY <1>4, <1>5

(***************************************************************************)
(* Every number below the length is the rank of one control.               *)
(***************************************************************************)
LEMMA RanksAreAll ==
  ASSUME NEW c \in Seq(Flat)
  PROVE  /\ \A i, j \in DOMAIN c : Rank(c, i) = Rank(c, j) => i = j
         /\ \A r \in 0 .. Len(c) - 1 : \E j \in DOMAIN c : Rank(c, j) = r
<1> DEFINE ranks == 0 .. Len(c) - 1
           f == [j \in DOMAIN c |-> Rank(c, j)]
<1>1. DOMAIN c = 1 .. Len(c) /\ Len(c) \in Nat
  BY LenProperties
<1>2. ASSUME NEW i \in DOMAIN c, NEW j \in DOMAIN c, Rank(c, i) = Rank(c, j) PROVE i = j
  <2>1. Rank(c, i) \in Int
    BY RankFollowsOrder
  <2> QED
    BY <1>2, <2>1, BeforeIsOrder, RankFollowsOrder
<1>3. f \in Injection(DOMAIN c, ranks)
  BY <1>2, RankFollowsOrder DEF Injection, IsInjective
<1>4. /\ IsFiniteSet(DOMAIN c) /\ Cardinality(DOMAIN c) = Len(c)
      /\ IsFiniteSet(ranks) /\ Cardinality(ranks) = Len(c)
  <2>1. 0 \in Int /\ Len(c) - 1 \in Int /\ (0 > Len(c) - 1 => Len(c) = 0) /\ (Len(c) - 1) - 0 + 1 = Len(c)
    BY <1>1
  <2>2. 1 \in Int /\ Len(c) \in Int /\ (1 > Len(c) => Len(c) = 0) /\ Len(c) - 1 + 1 = Len(c)
    BY <1>1
  <2>3. IsFiniteSet(ranks) /\ Cardinality(ranks) = Len(c)
    BY <2>1, FS_Interval
  <2>4. IsFiniteSet(DOMAIN c) /\ Cardinality(DOMAIN c) = Len(c)
    BY <1>1, <2>2, FS_Interval
  <2> QED
    BY <2>3, <2>4
<1>5. f \in Surjection(DOMAIN c, ranks)
  BY <1>3, <1>4, FS_Injection
<1> QED
  BY <1>2, <1>5 DEF Surjection

(***************************************************************************)
(* A prompt that omits a control is full.                                  *)
(***************************************************************************)
Distinct(c) == \A i, j \in DOMAIN c : c[i].uuid = c[j].uuid => i = j

LEMMA CutIsFull ==
  ASSUME NEW c \in Seq(Flat), Distinct(c), MaxControls <= Len(c)
  PROVE  Cardinality(Shown(c)) = MaxControls
<1> DEFINE top == {j \in DOMAIN c : Rank(c, j) < MaxControls}
           below == 0 .. MaxControls - 1
           f == [j \in top |-> Rank(c, j)]
           g == [j \in top |-> c[j].uuid]
<1>1. DOMAIN c = 1 .. Len(c) /\ Len(c) \in Nat /\ MaxControls \in Nat /\ MaxControls > 0
  BY LenProperties, MaxControlsAssumption
<1>2. Shown(c) = {c[j].uuid : j \in top}
  BY DEF Shown, Rank, Earlier
<1>3. f \in Bijection(top, below)
  <2>1. \A j \in top : Rank(c, j) \in below
    BY <1>1, RankFollowsOrder
  <2>2. f \in Injection(top, below)
    BY <2>1, RanksAreAll DEF Injection, IsInjective
  <2>3. ASSUME NEW r \in below PROVE \E j \in top : f[j] = r
    <3>1. r \in 0 .. Len(c) - 1 /\ r < MaxControls
      BY <1>1
    <3>2. PICK j \in DOMAIN c : Rank(c, j) = r
      BY <3>1, RanksAreAll
    <3> QED
      BY <3>1, <3>2
  <2>4. f \in Surjection(top, below)
    BY <2>1, <2>3 DEF Surjection
  <2> QED
    BY <2>2, <2>4 DEF Bijection
<1>4. g \in Bijection(top, Shown(c))
  <2>1. g \in Injection(top, Shown(c))
    BY <1>2 DEF Injection, IsInjective, Distinct
  <2>2. g \in Surjection(top, Shown(c))
    BY <1>2 DEF Surjection
  <2> QED
    BY <2>1, <2>2 DEF Bijection
<1>5. IsFiniteSet(top)
  <2>1. IsFiniteSet(DOMAIN c)
    BY <1>1, FS_Interval
  <2> QED
    BY <2>1, FS_Subset
<1>6. Cardinality(below) = MaxControls
  <2>1. 0 \in Int /\ MaxControls - 1 \in Int /\ ~ (0 > MaxControls - 1) /\ (MaxControls - 1) - 0 + 1 = MaxControls
    BY <1>1
  <2> QED
    BY <2>1, FS_Interval
<1>7. Cardinality(top) = Cardinality(below)
  BY <1>3, <1>5, FS_Bijection DEF ExistsBijection
<1>8. Cardinality(top) = Cardinality(Shown(c))
  BY <1>4, <1>5, FS_Bijection DEF ExistsBijection
<1> QED
  BY <1>6, <1>7, <1>8

(***************************************************************************)
(* What the prompt omits: the maximum is used up, by favourites if it is   *)
(* one, and the control is in one category.                                *)
(***************************************************************************)
LEMMA OmissionHasReason ==
  ASSUME controls \in Seq(Flat), Distinct(controls), prompt = Shown(controls),
         NEW i \in DOMAIN controls, controls[i].uuid \notin prompt
  PROVE  /\ Cardinality(prompt) = MaxControls
         /\ controls[i].favorite =>
               \A j \in DOMAIN controls : controls[j].uuid \in prompt => controls[j].favorite
         /\ Cardinality({k \in Categories : controls[i].uuid \in Listed(None, k)}) = 1
<1>1. DOMAIN controls = 1 .. Len(controls) /\ Len(controls) \in Nat /\ MaxControls \in Nat
  BY LenProperties, MaxControlsAssumption
<1>2. \A j \in DOMAIN controls : controls[j].uuid \in prompt => Rank(controls, j) < MaxControls
  <2>1. prompt = {controls[j].uuid : j \in {k \in DOMAIN controls : Rank(controls, k) < MaxControls}}
    BY DEF Shown, Rank, Earlier
  <2> QED
    BY <2>1 DEF Distinct
<1>3. ~ (Rank(controls, i) < MaxControls)
  BY DEF Shown, Rank, Earlier
<1>4. Rank(controls, i) \in 0 .. Len(controls) - 1
  BY RankFollowsOrder
<1>5. Cardinality(prompt) = MaxControls
  <2>1. MaxControls <= Len(controls)
    BY <1>1, <1>3, <1>4
  <2> QED
    BY <2>1, CutIsFull
<1>6. ASSUME controls[i].favorite, NEW j \in DOMAIN controls, controls[j].uuid \in prompt
      PROVE  controls[j].favorite
  <2>1. SUFFICES ASSUME ~ controls[j].favorite PROVE FALSE
    OBVIOUS
  <2>2. Before(controls, i, j)
    BY <1>6, <2>1 DEF Before
  <2>3. Rank(controls, i) < Rank(controls, j) /\ Rank(controls, j) < MaxControls
    BY <1>2, <1>6, <2>2, RankFollowsOrder
  <2>4. Rank(controls, j) \in 0 .. Len(controls) - 1
    BY RankFollowsOrder
  <2> QED
    BY <1>1, <1>3, <1>4, <2>3, <2>4
<1>7. Cardinality({k \in Categories : controls[i].uuid \in Listed(None, k)}) = 1
  <2>1. controls[i] \in Flat
    BY <1>1, ElementOfSeq
  <2>2. controls[i].category \in Categories
    BY <2>1, FlatIsShaped
  <2>3. ASSUME NEW k \in Categories
        PROVE  controls[i].uuid \in Listed(None, k) <=> k = controls[i].category
    <3>1. k # None
      BY CategoryAssumption
    <3>2. Listed(None, k) = {controls[j].uuid : j \in {x \in DOMAIN controls : controls[x].category = k}}
      BY <3>1 DEF Listed
    <3> QED
      BY <3>2 DEF Distinct
  <2>4. {k \in Categories : controls[i].uuid \in Listed(None, k)} = {controls[i].category}
    BY <2>2, <2>3
  <2> QED
    BY <2>4, FS_Singleton
<1> QED
  BY <1>5, <1>6, <1>7

-------------------------------------------------------------------------------
(***************************************************************************)
(* An assignment to the dictionary leaves every other control where and    *)
(* what it was, and one control of the uuid that was assigned.             *)
(***************************************************************************)
Assigned(cs, c, d) ==
    /\ d \in Seq(Flat) /\ Distinct(d)
    /\ \A i \in DOMAIN cs : /\ i \in DOMAIN d /\ d[i].uuid = cs[i].uuid
                            /\ d[i] = IF cs[i].uuid = c.uuid THEN c ELSE cs[i]
    /\ \A i \in DOMAIN d \ DOMAIN cs : /\ d[i] = c
                                       /\ \A j \in DOMAIN cs : j < i /\ cs[j].uuid # c.uuid
    /\ \E i \in DOMAIN d : d[i] = c

LEMMA PutAssigns ==
  ASSUME NEW cs \in Seq(Flat), Distinct(cs), NEW c \in Flat
  PROVE  Assigned(cs, c, Put(cs, c))
<1> DEFINE d == Put(cs, c)
<1>1. DOMAIN cs = 1 .. Len(cs) /\ Len(cs) \in Nat /\ \A i \in DOMAIN cs : cs[i] \in Flat
  BY LenProperties, ElementOfSeq
<1>2. CASE \E i \in DOMAIN cs : cs[i].uuid = c.uuid
  <2>1. d = [i \in DOMAIN cs |-> IF cs[i].uuid = c.uuid THEN c ELSE cs[i]]
    BY <1>2 DEF Put
  <2>2. DOMAIN d = DOMAIN cs /\ \A i \in DOMAIN cs : d[i] = IF cs[i].uuid = c.uuid THEN c ELSE cs[i]
    BY <2>1
  <2>3. \A i \in DOMAIN cs : d[i].uuid = cs[i].uuid
    BY <2>2
  <2>4. d \in Seq(Flat)
    BY <1>1, <2>1, <2>2
  <2>5. Distinct(d)
    BY <2>2, <2>3 DEF Distinct
  <2> QED
    BY <1>2, <2>2, <2>3, <2>4, <2>5 DEF Assigned
<1>3. CASE ~ \E i \in DOMAIN cs : cs[i].uuid = c.uuid
  <2>1. d = Append(cs, c)
    BY <1>3 DEF Put
  <2>2. d \in Seq(Flat) /\ Len(d) = Len(cs) + 1 /\ DOMAIN d = 1 .. Len(d)
    BY <1>1, <2>1, LenProperties
  <2>3. (\A i \in DOMAIN cs : d[i] = cs[i]) /\ d[Len(cs) + 1] = c
    BY <1>1, <2>1
  <2>4. \A i \in DOMAIN d : i \notin DOMAIN cs => i = Len(cs) + 1
    BY <1>1, <2>2
  <2>5. \A i \in DOMAIN cs : i \in DOMAIN d /\ i < Len(cs) + 1
    BY <1>1, <2>2
  <2>6. Len(cs) + 1 \in DOMAIN d
    BY <1>1, <2>2
  <2>7. Distinct(d)
    BY <1>3, <2>3, <2>4 DEF Distinct
  <2> QED
    BY <1>3, <2>2, <2>3, <2>4, <2>5, <2>6, <2>7 DEF Assigned
<1> QED
  BY <1>2, <1>3

(***************************************************************************)
(* A place is a pair of numbers, and what is there is an item.             *)
(***************************************************************************)
LEMMA PlaceIsPair ==
  ASSUME file \in Seq(Entries)
  PROVE  /\ \A i, j : <<i, j>> \in Places <=> i \in 1 .. Len(file) /\ j \in 0 .. Len(file[i].subs)
         /\ \A p \in Places : /\ p = <<p[1], p[2]>>
                              /\ p[1] \in 1 .. Len(file) /\ p[1] \in Nat
                              /\ p[2] \in 0 .. Len(file[p[1]].subs) /\ p[2] \in Nat
<1>1. DOMAIN file = 1 .. Len(file) /\ Len(file) \in Nat
  BY LenProperties
<1>2. \A i, j : <<i, j>> \in Places <=> i \in 1 .. Len(file) /\ j \in 0 .. Len(file[i].subs)
  BY <1>1 DEF Places
<1>3. ASSUME NEW p \in Places
      PROVE  /\ p = <<p[1], p[2]>>
             /\ p[1] \in 1 .. Len(file) /\ p[1] \in Nat
             /\ p[2] \in 0 .. Len(file[p[1]].subs) /\ p[2] \in Nat
  <2>1. PICK i \in DOMAIN file : p \in {i} \X (0 .. Len(file[i].subs))
    BY DEF Places
  <2>2. p = <<p[1], p[2]>> /\ p[1] = i /\ p[2] \in 0 .. Len(file[i].subs)
    BY <2>1
  <2> QED
    BY <1>1, <2>1, <2>2
<1> QED
  BY <1>2, <1>3

LEMMA ItemAtPlace ==
  ASSUME file \in Seq(Entries), NEW p \in Places
  PROVE  /\ At(p) \in Item /\ Control(At(p)) \in Flat
         /\ Uuid(p) # None /\ Control(At(p)).uuid = Uuid(p)
<1>1. /\ p[1] \in 1 .. Len(file) /\ p[2] \in 0 .. Len(file[p[1]].subs) /\ p[2] \in Nat
  BY PlaceIsPair
<1>2. file[p[1]] \in Entries
  BY <1>1, ElementOfSeq
<1>3. file[p[1]] \in Entry
  BY <1>2, SubsAreEntries
<1>4. At(p) \in Item
  <2>1. CASE p[2] = 0
    BY <1>3, <2>1 DEF At, Item
  <2>2. CASE p[2] # 0
    <3>1. p[2] \in 1 .. Len(file[p[1]].subs)
      BY <1>1, <2>2
    <3>2. file[p[1]].subs[p[2]] \in Entry
      BY <1>2, <3>1, SubsAreEntries
    <3> QED
      BY <1>3, <2>2, <3>2 DEF At, Item
  <2> QED
    BY <2>1, <2>2
<1>5. Control(At(p)) \in Flat
  BY <1>4 DEF Flat
<1>6. Uuid(p) # None /\ Control(At(p)).uuid = Uuid(p)
  <2>1. IsEntry(At(p).entry)
    BY <1>4, EntriesAreShaped DEF Item
  <2> QED
    BY <2>1 DEF Uuid, IsEntry, Control
<1> QED
  BY <1>4, <1>5, <1>6

(***************************************************************************)
(* The dictionary of some places becomes, by the assignment of a later     *)
(* one, the dictionary of these places and that one.                       *)
(***************************************************************************)
LEMMA DictionaryGrows ==
  ASSUME file \in Seq(Entries), UNCHANGED file,
         controls \in Seq(Flat), Distinct(controls),
         NEW S, S \subseteq Places, IsDictionaryOf(S),
         NEW n, n \in Places, \A p \in S : Precedes(p, n),
         controls' = Put(controls, Control(At(n)))
  PROVE  /\ controls' \in Seq(Flat) /\ Distinct(controls')
         /\ IsDictionaryOf(S \union {n})'
<1> DEFINE c == Control(At(n))
<1>1. c \in Flat /\ c.uuid = Uuid(n)
  BY ItemAtPlace
<1>2. Assigned(controls, c, controls')
  <2>1. controls' = Put(controls, c)
    OBVIOUS
  <2> HIDE DEF c
  <2> QED
    BY <1>1, <2>1, PutAssigns
<1>3. \A p : Uuid(p)' = Uuid(p) /\ Control(At(p))' = Control(At(p))
  BY DEF At, Uuid
<1>4. \A p \in S : ~ Precedes(n, p) /\ ~ Precedes(n, n)
  <2>1. \A p \in S \union {n} : p[1] \in Nat /\ p[2] \in Nat
    BY PlaceIsPair
  <2> QED
    BY <2>1 DEF Precedes
<1>5. ~ Precedes(n, n)
  BY PlaceIsPair DEF Precedes
<1>6. DOMAIN controls = 1 .. Len(controls) /\ Len(controls) \in Nat
      /\ DOMAIN controls' = 1 .. Len(controls') /\ Len(controls') \in Nat
  BY <1>2, LenProperties DEF Assigned
<1> HIDE DEF c
<1>7. \A p \in S \union {n} : \E j \in DOMAIN controls' : controls'[j].uuid = Uuid(p)
  BY <1>1, <1>2 DEF IsDictionaryOf, Assigned
<1>8. ASSUME NEW j \in DOMAIN controls'
      PROVE  \E p \in S \union {n} :
                /\ controls'[j] = Control(At(p))
                /\ \A q \in S \union {n} : Uuid(q) = Uuid(p) => ~ Precedes(p, q)
  <2>1. CASE controls'[j] = c
    BY <1>4, <1>5, <2>1 DEF c
  <2>2. CASE controls'[j] # c
    <3>1. j \in DOMAIN controls /\ controls'[j] = controls[j] /\ controls[j].uuid # Uuid(n)
      BY <1>1, <1>2, <2>2 DEF Assigned
    <3>2. PICK p \in S : /\ controls[j] = Control(At(p))
                         /\ \A q \in S : Uuid(q) = Uuid(p) => ~ Precedes(p, q)
      BY <3>1 DEF IsDictionaryOf
    <3>3. controls[j].uuid = Uuid(p)
      BY <3>2, ItemAtPlace
    <3> QED
      BY <3>1, <3>2, <3>3
  <2> QED
    BY <2>1, <2>2
<1>9. ASSUME NEW i \in DOMAIN controls', NEW j \in DOMAIN controls', i < j
      PROVE  \E p \in S \union {n} :
                /\ Uuid(p) = controls'[i].uuid
                /\ \A q \in S \union {n} : Uuid(q) = controls'[j].uuid => Precedes(p, q)
  <2>1. i \in DOMAIN controls
    BY <1>2, <1>6, <1>9 DEF Assigned, Distinct
  <2>2. CASE j \in DOMAIN controls
    <3>1. PICK p \in S : /\ Uuid(p) = controls[i].uuid
                         /\ \A q \in S : Uuid(q) = controls[j].uuid => Precedes(p, q)
      BY <1>9, <2>1, <2>2 DEF IsDictionaryOf
    <3> QED
      BY <1>2, <2>1, <2>2, <3>1 DEF Assigned
  <2>3. CASE j \notin DOMAIN controls
    <3>1. controls'[j] = c /\ \A k \in DOMAIN controls : controls[k].uuid # Uuid(n)
      BY <1>1, <1>2, <2>3 DEF Assigned
    <3>2. \A q \in S : Uuid(q) # Uuid(n)
      BY <3>1 DEF IsDictionaryOf
    <3>3. PICK p \in S : controls[i] = Control(At(p))
      BY <2>1 DEF IsDictionaryOf
    <3>4. Uuid(p) = controls[i].uuid
      BY <3>3, ItemAtPlace
    <3> QED
      BY <1>1, <1>2, <2>1, <3>1, <3>2, <3>4 DEF Assigned
  <2> QED
    BY <2>2, <2>3
<1>10. IsDictionaryOf(S \union {n})'
  <2>1. (\A p \in S \union {n} : \E j \in DOMAIN controls : controls[j].uuid = Uuid(p))'
    BY <1>3, <1>7
  <2>2. (\A j \in DOMAIN controls : \E p \in S \union {n} :
           /\ controls[j] = Control(At(p))
           /\ \A q \in S \union {n} : Uuid(q) = Uuid(p) => ~ Precedes(p, q))'
    BY <1>3, <1>8
  <2>3. (\A i, j \in DOMAIN controls : i < j =>
           \E p \in S \union {n} :
              /\ Uuid(p) = controls[i].uuid
              /\ \A q \in S \union {n} : Uuid(q) = controls[j].uuid => Precedes(p, q))'
    BY <1>3, <1>9
  <2> QED
    BY <2>1, <2>2, <2>3 DEF IsDictionaryOf
<1> QED
  BY <1>2, <1>10 DEF Assigned

-------------------------------------------------------------------------------
(***************************************************************************)
(* The parser has passed the place <<k, m>>: all of the first k - 1        *)
(* controls at the top with what is below them, the k-th one, and m of its *)
(* sub-controls. A control that was skipped is passed with all of them.    *)
(***************************************************************************)
SizeOf(k) == IF k = 0 THEN 0 ELSE Len(file[k].subs)

IsBehind(p, k, m) == p[1] < k \/ (p[1] = k /\ p[2] <= m)

Behind(k, m) == {p \in Kept : IsBehind(p, k, m)}

(***************************************************************************)
(* What todo holds then: the other sub-controls of a control that was      *)
(* kept, and the other controls at the top.                                *)
(***************************************************************************)
Ahead(k, m) ==
    LET rest == SizeOf(k) - m
    IN  /\ Len(todo) = rest + Len(file) - k
        /\ rest > 0 => Parses(file[k])
        /\ \A x \in 1 .. rest : todo[x] = At(<<k, m + x>>)
        /\ \A x \in rest + 1 .. Len(todo) : todo[x] = At(<<k + x - rest, 0>>)

(***************************************************************************)
(* Nothing was passed that the parser looks at and raises for.             *)
(***************************************************************************)
Sound(k, m) == \A p \in Places : IsBehind(p, k, m) /\ LooksAt(p) => ~ Raises(At(p))

Position(k, m) ==
    /\ boot \in {"fetching", "unreachable"} => k = 0
    /\ boot = "parsing" => Ahead(k, m)
    /\ boot = "ready" => k = Len(file) /\ m = SizeOf(k)
    /\ IsDictionaryOf(Behind(k, m))
    /\ Sound(k, m)

(***************************************************************************)
(* The inductive invariant: the dictionary is that of the places passed,   *)
(* until an exception takes it away.                                       *)
(***************************************************************************)
Typed ==
    /\ file \in Seq(Entries)
    /\ boot \in {"fetching", "parsing", "ready", "unreachable", "crashed"}
    /\ todo \in Seq(Item)
    /\ controls \in Seq(Flat) /\ Distinct(controls)

HouseInv ==
    /\ Typed
    /\ boot # "crashed" => \E k \in 0 .. Len(file) : \E m \in 0 .. SizeOf(k) : Position(k, m)
    /\ boot = "crashed" => Unparseable /\ controls = << >>
    /\ prompt = IF boot = "ready" THEN Shown(controls) ELSE {}

(***************************************************************************)
(* The next place below the control at the top.                            *)
(***************************************************************************)
LEMMA SizesAreNat ==
  ASSUME file \in Seq(Entries), NEW k \in 0 .. Len(file)
  PROVE  /\ Len(file) \in Nat /\ SizeOf(k) \in Nat
         /\ k > 0 => file[k] \in Entries /\ SizeOf(k) = Len(file[k].subs)
<1>1. Len(file) \in Nat /\ DOMAIN file = 1 .. Len(file)
  BY LenProperties
<1>2. ASSUME k > 0 PROVE file[k] \in Entries /\ SizeOf(k) = Len(file[k].subs)
  <2>1. k \in 1 .. Len(file) /\ k # 0
    BY <1>1, <1>2
  <2> QED
    BY <2>1, ElementOfSeq DEF SizeOf
<1>3. SizeOf(k) \in Nat
  <2>1. CASE k = 0
    BY <2>1 DEF SizeOf
  <2>2. CASE k # 0
    <3>1. k > 0
      BY <1>1, <2>2
    <3> QED
      BY <1>2, <3>1, SubsAreEntries
  <2> QED
    BY <2>1, <2>2
<1> QED
  BY <1>1, <1>2, <1>3

LEMMA NextBelow ==
  ASSUME file \in Seq(Entries), NEW k \in 0 .. Len(file), NEW m \in 0 .. SizeOf(k),
         m < SizeOf(k), Parses(file[k]), NEW n, n = <<k, m + 1>>
  PROVE  /\ n \in Places /\ m + 1 \in 0 .. SizeOf(k)
         /\ At(n).parent = file[k].uuid /\ file[k].uuid # None
         /\ \A p \in Behind(k, m) : Precedes(p, n)
         /\ Parses(At(n).entry) => Behind(k, m + 1) = Behind(k, m) \union {n}
         /\ ~ Parses(At(n).entry) => Behind(k, m + 1) = Behind(k, m)
         /\ ~ Raises(At(n)) /\ Sound(k, m) => Sound(k, m + 1)
         /\ LooksAt(n)
<1>1. k \in Nat /\ m \in Nat /\ Len(file) \in Nat /\ SizeOf(k) \in Nat /\ k # 0
  BY SizesAreNat DEF SizeOf
<1>2. k \in 1 .. Len(file) /\ file[k] \in Entries /\ SizeOf(k) = Len(file[k].subs)
  BY <1>1, SizesAreNat
<1>3. m + 1 \in 0 .. SizeOf(k) /\ m + 1 # 0 /\ n[1] = k /\ n[2] = m + 1
  BY <1>1
<1>4. n \in Places
  BY <1>2, <1>3, PlaceIsPair
<1>5. At(n).parent = file[k].uuid /\ file[k].uuid # None
  BY <1>2, <1>3, SubsAreEntries DEF At, IsEntry
<1>6. \A p \in Places : /\ p = <<p[1], p[2]>> /\ p[1] \in Nat /\ p[2] \in Nat
                        /\ IsBehind(p, k, m + 1) <=> IsBehind(p, k, m) \/ p = n
  BY <1>1, <1>3, PlaceIsPair DEF IsBehind
<1>7. \A p \in Behind(k, m) : Precedes(p, n)
  BY <1>1, <1>3, <1>6 DEF Behind, Kept, IsBehind, Precedes
<1>8. n \in Kept <=> Parses(At(n).entry)
  BY <1>3, <1>4 DEF Kept
<1>9. Behind(k, m + 1) = Behind(k, m) \union (IF n \in Kept THEN {n} ELSE {})
  BY <1>4, <1>6 DEF Behind, Kept
<1>10. ~ Raises(At(n)) /\ Sound(k, m) => Sound(k, m + 1)
  BY <1>6 DEF Sound
<1>11. LooksAt(n)
  BY <1>3 DEF LooksAt
<1> QED
  BY <1>3, <1>4, <1>5, <1>7, <1>8, <1>9, <1>10, <1>11

(***************************************************************************)
(* The next place at the top.                                              *)
(***************************************************************************)
LEMMA NextAtTop ==
  ASSUME file \in Seq(Entries), NEW k \in 0 .. Len(file), k < Len(file),
         NEW n, n = <<k + 1, 0>>
  PROVE  /\ n \in Places /\ k + 1 \in 0 .. Len(file) /\ SizeOf(k + 1) \in Nat
         /\ At(n) = [entry |-> file[k + 1], parent |-> None]
         /\ \A p \in Behind(k, SizeOf(k)) : Precedes(p, n)
         /\ Parses(file[k + 1]) => Behind(k + 1, 0) = Behind(k, SizeOf(k)) \union {n}
         /\ ~ Parses(file[k + 1]) => Behind(k + 1, SizeOf(k + 1)) = Behind(k, SizeOf(k))
         /\ ~ Raises(At(n)) /\ Sound(k, SizeOf(k)) => Sound(k + 1, 0)
         /\ file[k + 1].form = "malformed" /\ Sound(k, SizeOf(k)) => Sound(k + 1, SizeOf(k + 1))
         /\ LooksAt(n)
<1>1. k \in Nat /\ Len(file) \in Nat /\ SizeOf(k) \in Nat
  BY SizesAreNat
<1>2. /\ k + 1 \in 0 .. Len(file) /\ k + 1 \in 1 .. Len(file) /\ n[1] = k + 1 /\ n[2] = 0
      /\ k + 1 # 0 /\ k + 1 > 0
  BY <1>1
<1>3. SizeOf(k + 1) \in Nat /\ SizeOf(k + 1) = Len(file[k + 1].subs) /\ file[k + 1] \in Entries
  BY <1>2, SizesAreNat
<1>4. n \in Places
  BY <1>2, <1>3, PlaceIsPair
<1>5. At(n) = [entry |-> file[k + 1], parent |-> None]
  BY <1>2 DEF At
<1>6. ASSUME NEW p \in Places
      PROVE  /\ p[1] \in Nat /\ p[2] \in Nat
             /\ IsBehind(p, k, SizeOf(k)) <=> p[1] <= k
             /\ IsBehind(p, k + 1, 0) <=> p[1] <= k \/ p = n
             /\ IsBehind(p, k + 1, SizeOf(k + 1)) <=> p[1] <= k + 1
  <2>1. /\ p = <<p[1], p[2]>> /\ p[1] \in Nat /\ p[2] \in Nat /\ p[1] # 0
        /\ p[2] <= Len(file[p[1]].subs)
    BY PlaceIsPair
  <2>2. p[1] = k => p[2] <= SizeOf(k)
    BY <2>1 DEF SizeOf
  <2>3. p[1] = k + 1 => p[2] <= SizeOf(k + 1)
    BY <1>3, <2>1
  <2> QED
    BY <1>1, <1>2, <1>3, <2>1, <2>2, <2>3 DEF IsBehind
<1>7. \A p \in Behind(k, SizeOf(k)) : Precedes(p, n)
  <2>1. \A p \in Behind(k, SizeOf(k)) : p \in Places /\ p[1] <= k
    BY <1>6 DEF Behind, Kept
  <2> QED
    BY <1>1, <1>2, <1>6, <2>1 DEF Precedes
<1>8. n \in Kept <=> Parses(file[k + 1])
  BY <1>2, <1>4, <1>5 DEF Kept
<1>9. Behind(k + 1, 0) = Behind(k, SizeOf(k)) \union (IF n \in Kept THEN {n} ELSE {})
  BY <1>4, <1>6 DEF Behind, Kept
<1>10. ASSUME ~ Parses(file[k + 1])
       PROVE  Behind(k + 1, SizeOf(k + 1)) = Behind(k, SizeOf(k))
  <2>1. \A p \in Kept : p \in Places /\ p[1] # k + 1
    BY <1>10 DEF Kept
  <2>2. \A p \in Kept : p[1] <= k + 1 <=> p[1] <= k
    BY <1>1, <1>6, <2>1
  <2> QED
    BY <1>6, <2>1, <2>2 DEF Behind
<1>11. ~ Raises(At(n)) /\ Sound(k, SizeOf(k)) => Sound(k + 1, 0)
  BY <1>6 DEF Sound
<1>12. ASSUME file[k + 1].form = "malformed", Sound(k, SizeOf(k))
       PROVE  Sound(k + 1, SizeOf(k + 1))
  <2> SUFFICES ASSUME NEW p \in Places, IsBehind(p, k + 1, SizeOf(k + 1)), LooksAt(p)
               PROVE  ~ Raises(At(p))
    BY DEF Sound
  <2>1. CASE p[1] <= k
    BY <1>6, <1>12, <2>1 DEF Sound
  <2>2. CASE ~ (p[1] <= k)
    <3>1. p[1] = k + 1
      BY <1>1, <1>6, <2>2
    <3>2. p[2] = 0
      <4>1. ~ Parses(file[p[1]])
        BY <1>12, <3>1 DEF Parses
      <4>2. ~ (p[2] > 0) /\ p[2] \in Nat
        BY <1>6, <4>1 DEF LooksAt
      <4> QED
        BY <4>2
    <3> QED
      BY <1>12, <3>1, <3>2 DEF At, Raises
  <2> QED
    BY <2>1, <2>2
<1>13. LooksAt(n)
  BY <1>2 DEF LooksAt
<1> QED
  BY <1>2, <1>3, <1>4, <1>5, <1>7, <1>8, <1>9, <1>10, <1>11, <1>12, <1>13

(***************************************************************************)
(* What the loops have ahead, and what is left of it.                      *)
(***************************************************************************)
LEMMA HeadIsNext ==
  ASSUME Typed, todo # << >>, NEW k \in 0 .. Len(file), NEW m \in 0 .. SizeOf(k), Ahead(k, m)
  PROVE  /\ m < SizeOf(k) => Parses(file[k]) /\ Head(todo) = At(<<k, m + 1>>)
         /\ m = SizeOf(k) => k < Len(file) /\ Head(todo) = At(<<k + 1, 0>>)
<1>1. k \in Nat /\ m \in Nat /\ Len(file) \in Nat /\ SizeOf(k) \in Nat
  BY SizesAreNat DEF Typed
<1>2. Len(todo) \in Nat /\ Len(todo) > 0 /\ Head(todo) = todo[1]
  BY EmptySeq, LenProperties DEF Typed
<1>3. ASSUME m < SizeOf(k) PROVE Parses(file[k]) /\ Head(todo) = At(<<k, m + 1>>)
  <2>1. 1 \in 1 .. SizeOf(k) - m /\ SizeOf(k) - m > 0
    BY <1>1, <1>3
  <2> QED
    BY <1>2, <2>1 DEF Ahead
<1>4. ASSUME m = SizeOf(k) PROVE k < Len(file) /\ Head(todo) = At(<<k + 1, 0>>)
  <2>1. SizeOf(k) - m = 0 /\ Len(todo) = Len(file) - k
    BY <1>1, <1>4 DEF Ahead
  <2>2. 1 \in (SizeOf(k) - m) + 1 .. Len(todo) /\ k + 1 - (SizeOf(k) - m) = k + 1
    BY <1>1, <1>2, <2>1
  <2>3. todo[1] = At(<<k + 1, 0>>)
    BY <2>2 DEF Ahead
  <2> QED
    BY <1>1, <1>2, <2>1, <2>3
<1> QED
  BY <1>3, <1>4

LEMMA TailIsAhead ==
  ASSUME Typed, todo # << >>, UNCHANGED file, todo' = Tail(todo),
         NEW k \in 0 .. Len(file), NEW m \in 0 .. SizeOf(k), Ahead(k, m)
  PROVE  /\ todo' \in Seq(Item)
         /\ m < SizeOf(k) => Ahead(k, m + 1)'
         /\ \A q : m = SizeOf(k) /\ q = SizeOf(k + 1) => Ahead(k + 1, q)'
<1>1. k \in Nat /\ m \in Nat /\ Len(file) \in Nat /\ SizeOf(k) \in Nat
  BY SizesAreNat DEF Typed
<1>2. /\ todo' \in Seq(Item) /\ Len(todo) \in Nat /\ Len(todo') = Len(todo) - 1
      /\ Len(todo') \in Nat /\ \A x \in 1 .. Len(todo') : todo'[x] = todo[x + 1]
  BY HeadTailProperties, LenProperties DEF Typed
<1>3. \A p : At(p)' = At(p)
  BY DEF At
<1>4. \A i : SizeOf(i)' = SizeOf(i)
  BY DEF SizeOf
<1>5. ASSUME m < SizeOf(k) PROVE Ahead(k, m + 1)'
  <2> DEFINE rest == SizeOf(k) - (m + 1)
  <2>1. Len(todo') = rest + Len(file) - k
    BY <1>1, <1>2 DEF Ahead
  <2>2. Parses(file[k])
    BY <1>5, HeadIsNext
  <2>3. ASSUME NEW x \in 1 .. rest PROVE todo'[x] = At(<<k, (m + 1) + x>>)
    <3>1. /\ x + 1 \in 1 .. SizeOf(k) - m /\ m + (x + 1) = (m + 1) + x /\ x \in 1 .. Len(todo')
      BY <1>1, <1>5, <2>1
    <3> QED
      BY <1>2, <3>1 DEF Ahead
  <2>4. ASSUME NEW x \in rest + 1 .. Len(todo') PROVE todo'[x] = At(<<k + x - rest, 0>>)
    <3>1. /\ x + 1 \in (SizeOf(k) - m) + 1 .. Len(todo) /\ k + (x + 1) - (SizeOf(k) - m) = k + x - rest
          /\ x \in 1 .. Len(todo')
      BY <1>1, <1>2, <1>5
    <3> QED
      BY <1>2, <3>1 DEF Ahead
  <2> QED
    BY <1>3, <1>4, <2>1, <2>2, <2>3, <2>4 DEF Ahead
<1>6. ASSUME m = SizeOf(k), NEW q, q = SizeOf(k + 1) PROVE Ahead(k + 1, q)'
  <2>1. k < Len(file) /\ Len(todo) = Len(file) - k /\ k + 1 \in 0 .. Len(file)
    <3>1. SizeOf(k) - m = 0
      BY <1>1, <1>6
    <3> QED
      BY <1>1, <1>6, <3>1, HeadIsNext DEF Ahead
  <2>2. SizeOf(k + 1)' - q = 0
    <3>1. q \in Nat
      BY <1>6, <2>1, SizesAreNat DEF Typed
    <3> QED
      BY <1>4, <1>6, <3>1
  <2>3. Len(todo') = 0 + Len(file) - (k + 1)
    BY <1>1, <1>2, <2>1
  <2>4. ASSUME NEW x \in 0 + 1 .. Len(todo') PROVE todo'[x] = At(<<(k + 1) + x - 0, 0>>)
    <3>1. /\ x + 1 \in (SizeOf(k) - m) + 1 .. Len(todo) /\ k + (x + 1) - (SizeOf(k) - m) = k + 1 + x - 0
          /\ x \in 1 .. Len(todo')
      BY <1>1, <1>2, <1>6
    <3> QED
      BY <1>2, <3>1 DEF Ahead
  <2> QED
    BY <1>3, <1>4, <2>2, <2>3, <2>4 DEF Ahead
<1> QED
  BY <1>2, <1>5, <1>6

(***************************************************************************)
(* A control at the top that is kept puts its sub-controls first.          *)
(***************************************************************************)
LEMMA ItemsOfSubs ==
  ASSUME NEW e \in Entries
  PROVE  LET items == Items(e.subs, e.uuid)
         IN  /\ items \in Seq(Item) /\ Len(items) = Len(e.subs)
             /\ \A x \in 1 .. Len(e.subs) : items[x] = [entry |-> e.subs[x], parent |-> e.uuid]
<1> DEFINE items == Items(e.subs, e.uuid)
<1>1. /\ e \in Entry /\ Len(e.subs) \in Nat /\ DOMAIN e.subs = 1 .. Len(e.subs)
      /\ \A x \in 1 .. Len(e.subs) : e.subs[x] \in Entry
  BY SubsAreEntries
<1>2. items = [x \in 1 .. Len(e.subs) |-> [entry |-> e.subs[x], parent |-> e.uuid]]
  BY <1>1 DEF Items
<1>3. \A x \in 1 .. Len(e.subs) : [entry |-> e.subs[x], parent |-> e.uuid] \in Item
  BY <1>1 DEF Item
<1> HIDE DEF items
<1>4. items \in Seq(Item) /\ Len(items) = Len(e.subs)
  BY <1>1, <1>2, <1>3
<1>5. \A x \in 1 .. Len(e.subs) : items[x] = [entry |-> e.subs[x], parent |-> e.uuid]
  BY <1>2
<1> QED
  BY <1>4, <1>5 DEF items

LEMMA SubsAreAhead ==
  ASSUME Typed, todo # << >>, UNCHANGED file,
         NEW k \in 0 .. Len(file), Ahead(k, SizeOf(k)),
         Parses(file[k + 1]),
         todo' = Items(file[k + 1].subs, file[k + 1].uuid) \o Tail(todo)
  PROVE  todo' \in Seq(Item) /\ Ahead(k + 1, 0)'
<1> DEFINE items == Items(file[k + 1].subs, file[k + 1].uuid)
           size == Len(file[k + 1].subs)
<1>1. k \in Nat /\ Len(file) \in Nat /\ SizeOf(k) \in Nat
  BY SizesAreNat DEF Typed
<1>2. /\ k < Len(file) /\ k + 1 \in 0 .. Len(file) /\ k + 1 > 0 /\ Len(todo) = Len(file) - k
      /\ SizeOf(k) - SizeOf(k) = 0
  <2>1. SizeOf(k) \in 0 .. SizeOf(k) /\ SizeOf(k) - SizeOf(k) = 0
    BY <1>1
  <2>2. k < Len(file) /\ Len(todo) = Len(file) - k
    BY <1>1, <2>1, HeadIsNext DEF Ahead
  <2> QED
    BY <1>1, <2>1, <2>2
<1>3. file[k + 1] \in Entries /\ SizeOf(k + 1) = size /\ size \in Nat
  BY <1>2, SizesAreNat DEF Typed
<1>4. /\ items \in Seq(Item) /\ Len(items) = size
      /\ \A x \in 1 .. size : items[x] = [entry |-> file[k + 1].subs[x], parent |-> file[k + 1].uuid]
  BY <1>3, ItemsOfSubs
<1>5. /\ Tail(todo) \in Seq(Item) /\ Len(Tail(todo)) = Len(todo) - 1
      /\ \A x \in 1 .. Len(Tail(todo)) : Tail(todo)[x] = todo[x + 1]
  BY HeadTailProperties DEF Typed
<1> HIDE DEF items, size
<1>6. todo' = items \o Tail(todo)
  BY DEF items
<1>7. /\ todo' \in Seq(Item) /\ Len(todo') = size + (Len(todo) - 1)
      /\ \A x \in 1 .. size + (Len(todo) - 1) :
            todo'[x] = IF x <= size THEN items[x] ELSE Tail(todo)[x - size]
  <2>1. /\ items \o Tail(todo) \in Seq(Item) /\ Len(items \o Tail(todo)) = size + Len(Tail(todo))
        /\ \A x \in 1 .. size + Len(Tail(todo)) :
              (items \o Tail(todo))[x] = IF x <= size THEN items[x] ELSE Tail(todo)[x - size]
    BY <1>4, <1>5, ConcatProperties
  <2> QED
    BY <1>5, <1>6, <2>1
<1>8. \A p : At(p)' = At(p)
  BY DEF At
<1>9. SizeOf(k + 1)' = size
  <2>1. \A i : SizeOf(i)' = SizeOf(i)
    BY DEF SizeOf
  <2> QED
    BY <1>3, <2>1
<1>10. size - 0 = size /\ Len(todo') = (size - 0) + Len(file) - (k + 1)
  BY <1>1, <1>2, <1>3, <1>7
<1>11. ASSUME NEW x \in 1 .. size PROVE todo'[x] = At(<<k + 1, 0 + x>>)
  <2>1. x \in 1 .. size + (Len(todo) - 1) /\ x <= size /\ 0 + x = x /\ x # 0
    BY <1>1, <1>2, <1>3
  <2> QED
    BY <1>4, <1>7, <2>1 DEF At
<1>12. ASSUME NEW x \in size + 1 .. Len(todo') PROVE todo'[x] = At(<<(k + 1) + x - size, 0>>)
  <2>1. /\ x \in 1 .. size + (Len(todo) - 1) /\ ~ (x <= size) /\ x - size \in 1 .. Len(todo) - 1
        /\ x - size + 1 \in 0 + 1 .. Len(todo) /\ k + (x - size + 1) - 0 = (k + 1) + x - size
    <3>1. PICK l \in Int : l = Len(todo) /\ Len(todo') = size + (l - 1)
      BY <1>1, <1>2, <1>7
    <3>2. PICK z \in Nat : z = size
      BY <1>3
    <3>3. PICK y \in Int : y = x /\ z < y /\ y <= z + (l - 1)
      BY <3>1, <3>2
    <3>4. /\ y \in 1 .. z + (l - 1) /\ ~ (y <= z) /\ y - z \in 1 .. l - 1
          /\ y - z + 1 \in 0 + 1 .. l
      BY <3>3
    <3>5. k + (y - z + 1) - 0 = (k + 1) + y - z
      BY <1>1, <3>3
    <3> QED
      BY <3>1, <3>2, <3>3, <3>4, <3>5
  <2>2. todo'[x] = todo[x - size + 1]
    BY <1>5, <1>7, <2>1
  <2>3. todo[x - size + 1] = At(<<k + (x - size + 1) - 0, 0>>)
    BY <1>2, <2>1 DEF Ahead
  <2> QED
    BY <2>1, <2>2, <2>3
<1>13. Ahead(k + 1, 0)'
  <2>1. \A x \in 1 .. SizeOf(k + 1)' - 0 : todo'[x] = At(<<k + 1, 0 + x>>)'
    BY <1>8, <1>9, <1>10, <1>11
  <2>2. \A x \in (SizeOf(k + 1)' - 0) + 1 .. Len(todo') :
           todo'[x] = At(<<(k + 1) + x - (SizeOf(k + 1) - 0), 0>>)'
    BY <1>8, <1>9, <1>10, <1>12
  <2> QED
    BY <1>9, <1>10, <2>1, <2>2 DEF Ahead
<1> QED
  BY <1>7, <1>13

-------------------------------------------------------------------------------
(***************************************************************************)
(* The file does not change, so places stay what they are.                 *)
(***************************************************************************)
LEMMA FileIsFixed ==
  ASSUME UNCHANGED file
  PROVE  /\ \A k, m : Behind(k, m)' = Behind(k, m)
         /\ \A k : SizeOf(k)' = SizeOf(k)
         /\ \A k, m : Sound(k, m) => Sound(k, m)'
         /\ Unparseable => Unparseable'
<1>1. Places' = Places
  BY DEF Places
<1>2. \A p : At(p)' = At(p)
  BY DEF At
<1>3. Kept' = Kept
  BY <1>1, <1>2 DEF Kept
<1>4. \A k, m : Behind(k, m)' = Behind(k, m)
  BY <1>3 DEF Behind
<1>5. \A k : SizeOf(k)' = SizeOf(k)
  BY DEF SizeOf
<1>6. \A k, m : Sound(k, m) => Sound(k, m)'
  BY <1>1, <1>2 DEF Sound, LooksAt
<1>7. Unparseable => Unparseable'
  BY <1>1, <1>2 DEF Unparseable, LooksAt
<1> QED
  BY <1>4, <1>5, <1>6, <1>7

LEMMA DictionaryIsFixed ==
  ASSUME UNCHANGED <<file, controls>>, NEW k, NEW m, IsDictionaryOf(Behind(k, m))
  PROVE  IsDictionaryOf(Behind(k, m))'
<1>1. Behind(k, m)' = Behind(k, m)
  BY FileIsFixed
<1>2. \A p : Uuid(p)' = Uuid(p) /\ Control(At(p))' = Control(At(p))
  BY DEF At, Uuid
<1> QED
  BY <1>1, <1>2 DEF IsDictionaryOf

LEMMA DictionaryOfBehind ==
  ASSUME NEW T, IsDictionaryOf(T)', NEW k, NEW m, Behind(k, m)' = T
  PROVE  IsDictionaryOf(Behind(k, m))'
BY DEF IsDictionaryOf

(***************************************************************************)
(* The steps.                                                              *)
(***************************************************************************)
LEMMA HouseInvInit == Init => HouseInv
<1> SUFFICES ASSUME Init PROVE HouseInv
  OBVIOUS
<1>1. file \in Seq(Entries)
  BY MaxEntriesAssumption DEF Init
<1>2. Len(file) \in Nat /\ SizeOf(0) = 0 /\ 0 \in 0 .. Len(file) /\ 0 \in 0 .. SizeOf(0)
  BY <1>1, LenProperties DEF SizeOf
<1>3. \A p \in Places : ~ IsBehind(p, 0, 0)
  BY <1>1, PlaceIsPair DEF IsBehind
<1>4. Behind(0, 0) = {} /\ Sound(0, 0)
  BY <1>3 DEF Behind, Kept, Sound
<1>5. controls = << >> /\ todo = << >> /\ DOMAIN << >> = {}
  BY DEF Init
<1>6. IsDictionaryOf(Behind(0, 0))
  BY <1>4, <1>5 DEF IsDictionaryOf
<1>7. Typed
  BY <1>1, <1>5, EmptySeq DEF Typed, Distinct, Init
<1>8. Position(0, 0)
  BY <1>4, <1>6 DEF Position, Init
<1> QED
  BY <1>2, <1>7, <1>8 DEF HouseInv, Init

LEMMA FetchStep ==
  ASSUME HouseInv, Fetch
  PROVE  HouseInv'
<1> PICK k \in 0 .. Len(file) : \E m \in 0 .. SizeOf(k) : Position(k, m)
  BY DEF HouseInv, Fetch
<1>1. PICK m \in 0 .. SizeOf(k) : Position(k, m)
  OBVIOUS
<1>2. UNCHANGED <<file, controls, prompt>> /\ boot = "fetching" /\ Typed
  BY DEF Fetch, HouseInv
<1>3. /\ Len(file) \in Nat /\ DOMAIN file = 1 .. Len(file) /\ \A i \in 1 .. Len(file) : file[i] \in Entries
  BY <1>2, LenProperties, ElementOfSeq DEF Typed
<1>4. k = 0 /\ SizeOf(0) = 0 /\ m = 0
  BY <1>1, <1>2 DEF Position, SizeOf
<1>5. IsDictionaryOf(Behind(k, m))' /\ Sound(k, m)'
  BY <1>1, <1>2, DictionaryIsFixed, FileIsFixed DEF Position
<1>6. k \in 0 .. Len(file') /\ m \in 0 .. SizeOf(k)'
  BY <1>1, <1>2, FileIsFixed
<1>7. CASE boot' = "parsing" /\ todo' = Items(file, None)
  <2>1. todo' = [i \in 1 .. Len(file) |-> [entry |-> file[i], parent |-> None]]
    BY <1>3, <1>7 DEF Items
  <2>2. \A i \in 1 .. Len(file) : [entry |-> file[i], parent |-> None] \in Item
    BY <1>3 DEF Item, Entry
  <2>3. todo' \in Seq(Item) /\ Len(todo') = Len(file)
    BY <1>3, <2>1, <2>2
  <2>4. \A x \in 1 .. Len(file) : todo'[x] = At(<<x, 0>>)'
    BY <1>2, <2>1 DEF At
  <2>5. Ahead(0, 0)'
    <3>1. SizeOf(0)' - 0 = 0
      BY <1>4, <1>2, FileIsFixed
    <3>2. \A x \in (SizeOf(0)' - 0) + 1 .. Len(todo') :
             todo'[x] = At(<<0 + x - (SizeOf(0) - 0), 0>>)'
      <4>1. \A x \in 0 + 1 .. Len(todo') : x \in 1 .. Len(file) /\ 0 + x - 0 = x
        BY <1>3, <2>3
      <4> QED
        BY <2>4, <3>1, <4>1
    <3>3. Len(todo') = (SizeOf(0)' - 0) + Len(file') - 0
      BY <1>2, <1>3, <2>3, <3>1
    <3> QED
      BY <3>1, <3>2, <3>3 DEF Ahead
  <2>6. Position(k, m)'
    BY <1>4, <1>5, <1>7, <2>5 DEF Position
  <2> QED
    BY <1>2, <1>6, <1>7, <2>3, <2>6 DEF HouseInv, Typed
<1>8. CASE boot' = "unreachable" /\ UNCHANGED todo
  <2>1. Position(k, m)'
    BY <1>4, <1>5, <1>8 DEF Position
  <2> QED
    BY <1>2, <1>6, <1>8, <2>1 DEF HouseInv, Typed
<1> QED
  BY <1>7, <1>8 DEF Fetch

LEMMA KeepStep ==
  ASSUME HouseInv, Keep
  PROVE  HouseInv'
<1> PICK k \in 0 .. Len(file) : \E m \in 0 .. SizeOf(k) : Position(k, m)
  BY DEF HouseInv, Keep
<1>1. PICK m \in 0 .. SizeOf(k) : Position(k, m)
  OBVIOUS
<1>2. /\ UNCHANGED <<file, boot, prompt>> /\ boot = "parsing" /\ todo # << >> /\ Typed
      /\ file \in Seq(Entries) /\ controls \in Seq(Flat) /\ Distinct(controls)
      /\ todo \in Seq(Item)
  BY DEF Keep, HouseInv, Typed
<1>3. Ahead(k, m) /\ IsDictionaryOf(Behind(k, m)) /\ Sound(k, m)
  BY <1>1, <1>2 DEF Position
<1>4. PICK S : S = Behind(k, m)
  OBVIOUS
<1>5. S \subseteq Places /\ IsDictionaryOf(S)
  BY <1>3, <1>4 DEF Behind, Kept
<1>6. k \in Nat /\ m \in Nat /\ SizeOf(k) \in Nat /\ Len(file) \in Nat
  BY <1>2, SizesAreNat
<1>7. CASE m < SizeOf(k)
  <2> PICK n : n = <<k, m + 1>>
    OBVIOUS
  <2>1. Head(todo) = At(n) /\ Parses(file[k])
    BY <1>2, <1>3, <1>7, HeadIsNext
  <2>2. Parses(At(n).entry) /\ ~ Raises(At(n)) /\ controls' = Put(controls, Control(At(n)))
    BY <2>1 DEF Keep
  <2>3. /\ n \in Places /\ m + 1 \in 0 .. SizeOf(k)
        /\ At(n).parent = file[k].uuid /\ file[k].uuid # None
        /\ \A p \in Behind(k, m) : Precedes(p, n)
        /\ Behind(k, m + 1) = Behind(k, m) \union {n}
        /\ Sound(k, m + 1)
    <3>1. file \in Seq(Entries) /\ Parses(file[k]) /\ m < SizeOf(k)
      BY <1>2, <1>7, <2>1
    <3> QED
      BY <1>3, <2>2, <3>1, NextBelow
  <2>4. /\ controls' \in Seq(Flat) /\ Distinct(controls')
        /\ IsDictionaryOf(S \union {n})'
    BY <1>2, <1>4, <1>5, <2>2, <2>3, DictionaryGrows
  <2>5. todo' = Tail(todo)
    <3>1. todo' = << >> \o Tail(todo)
      BY <2>1, <2>3 DEF Keep
    <3> QED
      BY <1>2, <3>1, HeadTailProperties, ConcatEmptySeq
  <2>6. todo' \in Seq(Item) /\ Ahead(k, m + 1)'
    BY <1>2, <1>3, <1>7, <2>5, TailIsAhead
  <2>7. IsDictionaryOf(Behind(k, m + 1))'
    <3>1. Behind(k, m + 1)' = S \union {n}
      BY <1>2, <1>4, <2>3, FileIsFixed
    <3> QED
      BY <2>4, <3>1, DictionaryOfBehind
  <2>8. Position(k, m + 1)'
    BY <1>2, <2>3, <2>6, <2>7, FileIsFixed DEF Position
  <2>9. k \in 0 .. Len(file') /\ m + 1 \in 0 .. SizeOf(k)'
    BY <1>2, <2>3, FileIsFixed
  <2> QED
    BY <1>2, <2>4, <2>6, <2>8, <2>9 DEF HouseInv, Typed
<1>8. CASE m = SizeOf(k)
  <2> PICK n : n = <<k + 1, 0>>
    OBVIOUS
  <2>1. Head(todo) = At(n) /\ k < Len(file)
    BY <1>2, <1>3, <1>8, HeadIsNext
  <2>2. Parses(At(n).entry) /\ ~ Raises(At(n)) /\ controls' = Put(controls, Control(At(n)))
    BY <2>1 DEF Keep
  <2>3. At(n) = [entry |-> file[k + 1], parent |-> None] /\ n \in Places
        /\ k + 1 \in 0 .. Len(file) /\ SizeOf(k + 1) \in Nat
    BY <1>2, <2>1, NextAtTop
  <2>4. Parses(file[k + 1])
    BY <2>2, <2>3
  <2>5. /\ \A p \in Behind(k, m) : Precedes(p, n)
        /\ Behind(k + 1, 0) = Behind(k, m) \union {n}
        /\ Sound(k + 1, 0)
    BY <1>2, <1>3, <1>8, <2>1, <2>2, <2>4, NextAtTop
  <2>6. /\ controls' \in Seq(Flat) /\ Distinct(controls')
        /\ IsDictionaryOf(S \union {n})'
    BY <1>2, <1>4, <1>5, <2>2, <2>3, <2>5, DictionaryGrows
  <2>7. todo' = Items(file[k + 1].subs, file[k + 1].uuid) \o Tail(todo)
    <3>1. Head(todo).entry = file[k + 1] /\ Head(todo).parent = None
      BY <2>1, <2>3
    <3> QED
      BY <3>1 DEF Keep
  <2>8. todo' \in Seq(Item) /\ Ahead(k + 1, 0)'
    BY <1>2, <1>3, <1>8, <2>4, <2>7, SubsAreAhead
  <2>9. IsDictionaryOf(Behind(k + 1, 0))'
    <3>1. Behind(k + 1, 0)' = S \union {n}
      BY <1>2, <1>4, <2>5, FileIsFixed
    <3> QED
      BY <2>6, <3>1, DictionaryOfBehind
  <2>10. Position(k + 1, 0)'
    BY <1>2, <2>5, <2>8, <2>9, FileIsFixed DEF Position
  <2>11. k + 1 \in 0 .. Len(file') /\ 0 \in 0 .. SizeOf(k + 1)'
    BY <1>2, <2>3, FileIsFixed
  <2> QED
    BY <1>2, <2>6, <2>8, <2>10, <2>11 DEF HouseInv, Typed
<1> QED
  BY <1>6, <1>7, <1>8

LEMMA SkipStep ==
  ASSUME HouseInv, Skip
  PROVE  HouseInv'
<1> PICK k \in 0 .. Len(file) : \E m \in 0 .. SizeOf(k) : Position(k, m)
  BY DEF HouseInv, Skip
<1>1. PICK m \in 0 .. SizeOf(k) : Position(k, m)
  OBVIOUS
<1>2. /\ UNCHANGED <<file, boot, controls, prompt>> /\ boot = "parsing" /\ todo # << >> /\ Typed
      /\ file \in Seq(Entries) /\ todo' = Tail(todo) /\ Head(todo).entry.form = "malformed"
  BY DEF Skip, HouseInv, Typed
<1>3. Ahead(k, m) /\ IsDictionaryOf(Behind(k, m)) /\ Sound(k, m)
  BY <1>1, <1>2 DEF Position
<1>4. k \in Nat /\ m \in Nat /\ SizeOf(k) \in Nat /\ Len(file) \in Nat
  BY <1>2, SizesAreNat
<1>5. IsDictionaryOf(Behind(k, m))'
  BY <1>2, <1>3, DictionaryIsFixed
<1>6. PICK S : S = Behind(k, m)'
  OBVIOUS
<1>7. S = Behind(k, m)
  BY <1>2, <1>6, FileIsFixed
<1>8. IsDictionaryOf(S)'
  BY <1>5, <1>6 DEF IsDictionaryOf
<1>9. CASE m < SizeOf(k)
  <2> PICK n : n = <<k, m + 1>>
    OBVIOUS
  <2>1. Head(todo) = At(n) /\ Parses(file[k])
    BY <1>2, <1>3, <1>9, HeadIsNext
  <2>2. m + 1 \in 0 .. SizeOf(k) /\ Behind(k, m + 1) = Behind(k, m) /\ Sound(k, m + 1)
    <3>1. ~ Parses(At(n).entry) /\ ~ Raises(At(n))
      BY <1>2, <2>1 DEF Parses, Raises
    <3> QED
      BY <1>2, <1>3, <1>9, <2>1, <3>1, NextBelow
  <2>3. todo' \in Seq(Item) /\ Ahead(k, m + 1)'
    BY <1>2, <1>3, <1>9, TailIsAhead
  <2>4. IsDictionaryOf(Behind(k, m + 1))'
    BY <1>2, <1>7, <1>8, <2>2, FileIsFixed, DictionaryOfBehind
  <2>5. Position(k, m + 1)'
    BY <1>2, <2>2, <2>3, <2>4, FileIsFixed DEF Position
  <2>6. k \in 0 .. Len(file') /\ m + 1 \in 0 .. SizeOf(k)'
    BY <1>2, <2>2, FileIsFixed
  <2> QED
    BY <1>2, <2>3, <2>5, <2>6 DEF HouseInv, Typed
<1>10. CASE m = SizeOf(k)
  <2> PICK n : n = <<k + 1, 0>>
    OBVIOUS
  <2> PICK q : q = SizeOf(k + 1)
    OBVIOUS
  <2>1. Head(todo) = At(n) /\ k < Len(file)
    BY <1>2, <1>3, <1>10, HeadIsNext
  <2>2. /\ k + 1 \in 0 .. Len(file) /\ q \in Nat
        /\ At(n) = [entry |-> file[k + 1], parent |-> None]
    BY <1>2, <2>1, NextAtTop
  <2>3. file[k + 1].form = "malformed"
    BY <1>2, <2>1, <2>2
  <2>4. Behind(k + 1, q) = Behind(k, m) /\ Sound(k + 1, q)
    <3>1. ~ Parses(file[k + 1])
      BY <2>3 DEF Parses
    <3> QED
      BY <1>2, <1>3, <1>10, <2>1, <2>3, <3>1, NextAtTop
  <2>5. todo' \in Seq(Item) /\ Ahead(k + 1, q)'
    BY <1>2, <1>3, <1>10, TailIsAhead
  <2>6. IsDictionaryOf(Behind(k + 1, q))'
    BY <1>2, <1>7, <1>8, <2>4, FileIsFixed, DictionaryOfBehind
  <2>7. Position(k + 1, q)'
    BY <1>2, <2>4, <2>5, <2>6, FileIsFixed DEF Position
  <2>8. k + 1 \in 0 .. Len(file') /\ q \in 0 .. SizeOf(k + 1)'
    BY <1>2, <2>2, FileIsFixed
  <2> QED
    BY <1>2, <2>5, <2>7, <2>8 DEF HouseInv, Typed
<1> QED
  BY <1>4, <1>9, <1>10

LEMMA BreakStep ==
  ASSUME HouseInv, Break
  PROVE  HouseInv'
<1> PICK k \in 0 .. Len(file) : \E m \in 0 .. SizeOf(k) : Position(k, m)
  BY DEF HouseInv, Break
<1>1. PICK m \in 0 .. SizeOf(k) : Position(k, m)
  OBVIOUS
<1>2. /\ UNCHANGED <<file, todo, prompt>> /\ boot = "parsing" /\ boot' = "crashed"
      /\ controls' = << >> /\ todo # << >> /\ Typed /\ file \in Seq(Entries)
      /\ Raises(Head(todo)) /\ prompt = {}
  BY DEF Break, HouseInv, Typed
<1>3. Ahead(k, m)
  BY <1>1, <1>2 DEF Position
<1>4. k \in Nat /\ m \in Nat /\ SizeOf(k) \in Nat /\ Len(file) \in Nat
  BY <1>2, SizesAreNat
<1>5. Unparseable
  <2>1. CASE m < SizeOf(k)
    <3> PICK n : n = <<k, m + 1>>
      OBVIOUS
    <3>1. Head(todo) = At(n) /\ Parses(file[k])
      BY <1>2, <1>3, <2>1, HeadIsNext
    <3>2. n \in Places /\ LooksAt(n)
      BY <1>2, <2>1, <3>1, NextBelow
    <3> QED
      BY <1>2, <3>1, <3>2 DEF Unparseable
  <2>2. CASE m = SizeOf(k)
    <3> PICK n : n = <<k + 1, 0>>
      OBVIOUS
    <3>1. Head(todo) = At(n) /\ k < Len(file)
      BY <1>2, <1>3, <2>2, HeadIsNext
    <3>2. n \in Places /\ LooksAt(n)
      BY <1>2, <3>1, NextAtTop
    <3> QED
      BY <1>2, <3>1, <3>2 DEF Unparseable
  <2> QED
    BY <1>4, <2>1, <2>2
<1>6. Unparseable'
  BY <1>2, <1>5, FileIsFixed
<1>7. << >> \in Seq(Flat) /\ Distinct(<< >>)
  BY EmptySeq DEF Distinct
<1> QED
  BY <1>2, <1>6, <1>7 DEF HouseInv, Typed

LEMMA RenderStep ==
  ASSUME HouseInv, Render
  PROVE  HouseInv'
<1> PICK k \in 0 .. Len(file) : \E m \in 0 .. SizeOf(k) : Position(k, m)
  BY DEF HouseInv, Render
<1>1. PICK m \in 0 .. SizeOf(k) : Position(k, m)
  OBVIOUS
<1>2. /\ UNCHANGED <<file, todo, controls>> /\ boot = "parsing" /\ boot' = "ready"
      /\ todo = << >> /\ Typed /\ file \in Seq(Entries) /\ prompt' = Shown(controls)
  BY DEF Render, HouseInv, Typed
<1>3. Ahead(k, m) /\ IsDictionaryOf(Behind(k, m)) /\ Sound(k, m)
  BY <1>1, <1>2 DEF Position
<1>4. k \in Nat /\ m \in Nat /\ SizeOf(k) \in Nat /\ Len(file) \in Nat
  BY <1>2, SizesAreNat
<1>5. k = Len(file) /\ m = SizeOf(k)
  <2>1. Len(todo) = 0
    BY <1>2, EmptySeq
  <2>2. Len(todo) = SizeOf(k) - m + Len(file) - k
    BY <1>3 DEF Ahead
  <2> QED
    BY <1>4, <2>1, <2>2
<1>6. Position(k, m)'
  <2>1. k = Len(file') /\ m = SizeOf(k)'
    BY <1>2, <1>5, FileIsFixed
  <2> QED
    BY <1>2, <1>3, <2>1, DictionaryIsFixed, FileIsFixed DEF Position
<1>7. k \in 0 .. Len(file') /\ m \in 0 .. SizeOf(k)'
  BY <1>2, FileIsFixed
<1>8. Shown(controls)' = Shown(controls)
  BY <1>2
<1> QED
  BY <1>2, <1>6, <1>7, <1>8 DEF HouseInv, Typed

LEMMA HouseInvStep == HouseInv /\ [Next]_vars => HouseInv'
<1> SUFFICES ASSUME HouseInv, [Next]_vars PROVE HouseInv'
  OBVIOUS
<1>1. CASE Fetch
  BY <1>1, FetchStep
<1>2. CASE Keep
  BY <1>2, KeepStep
<1>3. CASE Skip
  BY <1>3, SkipStep
<1>4. CASE Break
  BY <1>4, BreakStep
<1>5. CASE Render
  BY <1>5, RenderStep
<1>6. CASE UNCHANGED vars
  <2>1. UNCHANGED <<file, boot, todo, controls, prompt>>
    BY <1>6 DEF vars
  <2>2. ASSUME boot # "crashed"
        PROVE  (\E k \in 0 .. Len(file) : \E m \in 0 .. SizeOf(k) : Position(k, m))'
    <3> PICK k \in 0 .. Len(file) : \E m \in 0 .. SizeOf(k) : Position(k, m)
      BY <2>2 DEF HouseInv
    <3>1. PICK m \in 0 .. SizeOf(k) : Position(k, m)
      OBVIOUS
    <3>2. Ahead(k, m)' <=> Ahead(k, m)
      <4>1. (\A p : At(p)' = At(p)) /\ SizeOf(k)' = SizeOf(k)
        BY <2>1 DEF At, SizeOf
      <4> QED
        BY <2>1, <4>1 DEF Ahead
    <3>3. Position(k, m)'
      BY <2>1, <3>1, <3>2, DictionaryIsFixed, FileIsFixed DEF Position
    <3>4. k \in 0 .. Len(file') /\ m \in 0 .. SizeOf(k)'
      BY <2>1, FileIsFixed
    <3> QED
      BY <3>3, <3>4
  <2>3. Unparseable => Unparseable'
    BY <2>1, FileIsFixed
  <2>4. Shown(controls)' = Shown(controls)
    BY <2>1
  <2> QED
    BY <2>1, <2>2, <2>3, <2>4 DEF HouseInv, Typed
<1> QED
  BY <1>1, <1>2, <1>3, <1>4, <1>5, <1>6 DEF Next

LEMMA HouseInvariant == Spec => []HouseInv
BY HouseInvInit, HouseInvStep, PTL DEF Spec

-------------------------------------------------------------------------------
(***************************************************************************)
(* The invariant implies what the runs check.                              *)
(***************************************************************************)
LEMMA InvImpliesTypeOK == HouseInv => TypeOK
<1> SUFFICES ASSUME HouseInv PROVE TypeOK
  OBVIOUS
<1>1. Typed /\ prompt \subseteq {controls[i].uuid : i \in DOMAIN controls}
  BY DEF HouseInv, Shown
<1>2. \A i \in DOMAIN controls : controls[i].category # None
  <2>1. \A i \in DOMAIN controls : controls[i] \in Flat
    BY <1>1, LenProperties, ElementOfSeq DEF Typed
  <2> QED
    BY <2>1, FlatIsShaped
<1> QED
  BY <1>1, <1>2 DEF TypeOK, Typed, Distinct

LEMMA InvImpliesParsed == HouseInv => ParsedIsLastWellFormed
<1> SUFFICES ASSUME HouseInv, boot = "ready" PROVE IsDictionaryOf(Kept)
  BY DEF ParsedIsLastWellFormed
<1> PICK k \in 0 .. Len(file) : \E m \in 0 .. SizeOf(k) : Position(k, m)
  BY DEF HouseInv
<1>1. PICK m \in 0 .. SizeOf(k) : Position(k, m)
  OBVIOUS
<1>2. k = Len(file) /\ m = SizeOf(k) /\ IsDictionaryOf(Behind(k, m)) /\ file \in Seq(Entries)
  BY <1>1 DEF Position, HouseInv, Typed
<1>3. Len(file) \in Nat
  BY <1>2, LenProperties
<1>4. ASSUME NEW p \in Kept PROVE IsBehind(p, k, m)
  <2>1. p[1] \in 1 .. Len(file) /\ p[2] \in 0 .. Len(file[p[1]].subs)
    BY <1>2, <1>4, PlaceIsPair DEF Kept
  <2>2. p[1] = k => p[2] <= m
    BY <1>2, <2>1 DEF SizeOf
  <2> QED
    BY <1>2, <1>3, <2>1, <2>2 DEF IsBehind
<1>5. Behind(k, m) = Kept
  BY <1>4 DEF Behind
<1> QED
  BY <1>2, <1>5

LEMMA InvImpliesParents == HouseInv => ParentsPresent
<1> SUFFICES ASSUME HouseInv, NEW i \in DOMAIN controls, controls[i].parent # None
             PROVE  \E j \in DOMAIN controls : controls[j].uuid = controls[i].parent
  BY DEF ParentsPresent
<1>0. boot # "crashed"
  BY DEF HouseInv
<1> PICK k \in 0 .. Len(file) : \E m \in 0 .. SizeOf(k) : Position(k, m)
  BY <1>0 DEF HouseInv
<1>1. PICK m \in 0 .. SizeOf(k) : Position(k, m)
  OBVIOUS
<1>2. IsDictionaryOf(Behind(k, m)) /\ file \in Seq(Entries)
  BY <1>1 DEF Position, HouseInv, Typed
<1>3. PICK p \in Behind(k, m) : controls[i] = Control(At(p))
  BY <1>2 DEF IsDictionaryOf
<1>4. p \in Kept /\ p \in Places /\ IsBehind(p, k, m)
  BY <1>3 DEF Behind, Kept
<1>5. controls[i].parent = file[p[1]].uuid /\ Parses(file[p[1]])
  BY <1>3, <1>4 DEF Control, At, Kept
<1> PICK q : q = <<p[1], 0>>
  OBVIOUS
<1>6. q[1] = p[1] /\ q[2] = 0 /\ At(q).entry = file[p[1]]
  BY DEF At
<1>7. q \in Places
  <2>1. p[1] \in 1 .. Len(file) /\ p[2] \in 0 .. Len(file[p[1]].subs)
    BY <1>2, <1>4, PlaceIsPair
  <2>2. 0 \in 0 .. Len(file[p[1]].subs)
    BY <2>1
  <2> QED
    BY <1>2, <2>1, <2>2, PlaceIsPair
<1>8. IsBehind(q, k, m)
  BY <1>4, <1>6 DEF IsBehind
<1>9. q \in Behind(k, m)
  BY <1>5, <1>6, <1>7, <1>8 DEF Behind, Kept
<1>10. Uuid(q) = file[p[1]].uuid
  BY <1>6 DEF Uuid
<1> QED
  BY <1>2, <1>5, <1>9, <1>10 DEF IsDictionaryOf

LEMMA InvImpliesFails == HouseInv => FailsOnUncaughtOnly
<1> SUFFICES ASSUME HouseInv, boot = "ready", Unparseable PROVE FALSE
  BY DEF FailsOnUncaughtOnly, HouseInv
<1> PICK k \in 0 .. Len(file) : \E m \in 0 .. SizeOf(k) : Position(k, m)
  BY DEF HouseInv
<1>1. PICK m \in 0 .. SizeOf(k) : Position(k, m)
  OBVIOUS
<1>2. k = Len(file) /\ m = SizeOf(k) /\ Sound(k, m) /\ file \in Seq(Entries)
  BY <1>1 DEF Position, HouseInv, Typed
<1>3. Len(file) \in Nat
  BY <1>2, LenProperties
<1>4. PICK p \in Places : LooksAt(p) /\ Raises(At(p))
  BY DEF Unparseable
<1>5. IsBehind(p, k, m)
  <2>1. p[1] \in 1 .. Len(file) /\ p[2] \in 0 .. Len(file[p[1]].subs)
    BY <1>2, PlaceIsPair
  <2>2. p[1] = k => p[2] <= m
    BY <1>2, <2>1 DEF SizeOf
  <2> QED
    BY <1>2, <1>3, <2>1, <2>2 DEF IsBehind
<1> QED
  BY <1>2, <1>4, <1>5 DEF Sound

LEMMA InvImpliesOmitted == HouseInv => OmittedWithReason
<1> SUFFICES ASSUME HouseInv, boot = "ready",
                    NEW i \in DOMAIN controls, controls[i].uuid \notin prompt
             PROVE  /\ Cardinality(prompt) = MaxControls
                    /\ controls[i].favorite =>
                          \A j \in DOMAIN controls :
                             controls[j].uuid \in prompt => controls[j].favorite
                    /\ Cardinality({k \in Categories : controls[i].uuid \in Listed(None, k)}) = 1
  BY DEF OmittedWithReason
<1>1. controls \in Seq(Flat) /\ Distinct(controls) /\ prompt = Shown(controls)
  BY DEF HouseInv, Typed
<1> QED
  BY <1>1, OmissionHasReason

(***************************************************************************)
(* The dictionary of controls has each uuid once, every control has a      *)
(* category, and the prompt shows controls of the house.                   *)
(***************************************************************************)
THEOREM TypeCorrect == Spec => []TypeOK
<1>1. HouseInv => TypeOK
  BY InvImpliesTypeOK
<1> QED
  BY HouseInvariant, <1>1, PTL

(***************************************************************************)
(* parse_structure_file keeps the well-formed controls, the last of each   *)
(* uuid, in the order of the first, whatever the file holds.               *)
(***************************************************************************)
THEOREM ParsesAsDefined == Spec => []ParsedIsLastWellFormed
<1>1. HouseInv => ParsedIsLastWellFormed
  BY InvImpliesParsed
<1> QED
  BY HouseInvariant, <1>1, PTL

(***************************************************************************)
(* No parent_uuid dangles, also while the file is being parsed.            *)
(***************************************************************************)
THEOREM ParentsArePresent == Spec => []ParentsPresent
<1>1. HouseInv => ParentsPresent
  BY InvImpliesParents
<1> QED
  BY HouseInvariant, <1>1, PTL

(***************************************************************************)
(* The parser skips every malformed entry with all there is below it, and  *)
(* raises exactly when it looks at an entry that is no object, that is     *)
(* well-formed with an empty uuid, or that is well-formed at the top with  *)
(* subControls that are no object.                                         *)
(***************************************************************************)
THEOREM FailsExactlyOnUncaught == Spec => []FailsOnUncaughtOnly
<1>1. HouseInv => FailsOnUncaughtOnly
  BY InvImpliesFails
<1> QED
  BY HouseInvariant, <1>1, PTL

(***************************************************************************)
(* build_system_prompt omits a control only from a full prompt, and a      *)
(* favourite only for favourites; list_controls finds it under its         *)
(* category.                                                               *)
(***************************************************************************)
THEOREM OmitsWithReason == Spec => []OmittedWithReason
<1>1. HouseInv => OmittedWithReason
  BY InvImpliesOmitted
<1> QED
  BY HouseInvariant, <1>1, PTL

===============================================================================
