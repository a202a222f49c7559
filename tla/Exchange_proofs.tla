---------------------------- MODULE Exchange_proofs ----------------------------
(***************************************************************************)
(* Proofs about Exchange, for any set of calls, any keys, any echoes that  *)
(* are stems of the keys and any buffer capacity.                          *)
(***************************************************************************)
EXTENDS Exchange, SequenceTheorems, TLAPS

(***************************************************************************)
(* Removing position i of a sequence shifts the later elements down, as    *)
(* list.pop(i) does.                                                       *)
(***************************************************************************)
LEMMA RemoveAtProperties ==
  ASSUME NEW S, NEW s \in Seq(S), NEW i \in 1 .. Len(s)
  PROVE  /\ RemoveAt(s, i) \in Seq(S)
         /\ Len(RemoveAt(s, i)) = Len(s) - 1
         /\ \A j \in 1 .. (Len(s) - 1) :
               RemoveAt(s, i)[j] = IF j < i THEN s[j] ELSE s[j + 1]
<1> DEFINE a == SubSeq(s, 1, i - 1)
           b == SubSeq(s, i + 1, Len(s))
<1>1. Len(s) \in Nat
  BY LenProperties
<1>2. a \in Seq(S) /\ Len(a) = i - 1 /\ \A j \in 1 .. (i - 1) : a[j] = s[j]
  BY <1>1
<1>3. /\ b \in Seq(S) /\ Len(b) = Len(s) - i
      /\ \A j \in 1 .. (Len(s) - i) : b[j] = s[j + i]
  BY <1>1
<1>4. RemoveAt(s, i) = a \o b
  BY DEF RemoveAt
<1>5. /\ a \o b \in Seq(S) /\ Len(a \o b) = Len(a) + Len(b)
      /\ \A j \in 1 .. (Len(a) + Len(b)) :
            (a \o b)[j] = IF j <= Len(a) THEN a[j] ELSE b[j - Len(a)]
  <2> HIDE DEF a, b
  <2> QED BY <1>2, <1>3, ConcatProperties
<1> HIDE DEF a, b
<1> QED
  BY <1>1, <1>2, <1>3, <1>4, <1>5

(***************************************************************************)
(* What registering call c under key k does to _pending: every entry comes *)
(* from an entry for another key or is the new one, which is there; the    *)
(* entries for other keys all stay.                                        *)
(***************************************************************************)
LEMMA RegisterEffect ==
  ASSUME NEW k \in Keys, NEW c \in Calls, pending \in Seq(Entry), Register(k, c),
         \A i, j \in DOMAIN pending : pending[i].key = pending[j].key => i = j
  PROVE  /\ pending' \in Seq(Entry)
         /\ \A i, j \in DOMAIN pending' : pending'[i].key = pending'[j].key => i = j
         /\ \A i \in DOMAIN pending' : \/ pending'[i] = [key |-> k, call |-> c]
                                       \/ /\ i \in DOMAIN pending
                                          /\ pending'[i] = pending[i]
                                          /\ pending[i].key # k
         /\ \E i \in DOMAIN pending' : pending'[i] = [key |-> k, call |-> c]
         /\ \A i \in DOMAIN pending : 
               pending[i].key # k => i \in DOMAIN pending' /\ pending'[i] = pending[i]
<1>0. /\ Len(pending) \in Nat
      /\ DOMAIN pending = 1 .. Len(pending)
      /\ \A i \in DOMAIN pending : pending[i] \in Entry
  BY LenProperties, ElementOfSeq
<1>1. CASE \E i \in DOMAIN pending : /\ pending[i].key = k
                                     /\ pending' = [pending EXCEPT ![i].call = c]
  <2>1. PICK i \in DOMAIN pending : /\ pending[i].key = k
                                    /\ pending' = [pending EXCEPT ![i].call = c]
    BY <1>1
  <2>2. [pending[i] EXCEPT !.call = c] = [key |-> k, call |-> c]
    BY <1>0, <2>1 DEF Entry
  <2>3. pending' = [pending EXCEPT ![i] = [key |-> k, call |-> c]]
    BY <2>1, <2>2
  <2>4. /\ pending' \in Seq(Entry) /\ DOMAIN pending' = DOMAIN pending
        /\ \A j \in DOMAIN pending : 
              pending'[j] = IF j = i THEN [key |-> k, call |-> c] ELSE pending[j]
    <3>1. [key |-> k, call |-> c] \in Entry
      BY DEF Entry
    <3>2. pending' \in Seq(Entry) /\ Len(pending') = Len(pending)
      BY <1>0, <2>3, <3>1, ExceptSeq
    <3> QED
      BY <1>0, <2>3, <3>2, LenProperties
  <2> QED
    BY <2>1, <2>4
<1>2. CASE /\ \A i \in DOMAIN pending : pending[i].key # k
           /\ pending' = Append(pending, [key |-> k, call |-> c])
  <2>1. [key |-> k, call |-> c] \in Entry
    BY DEF Entry
  <2>2. /\ pending' \in Seq(Entry) /\ Len(pending') = Len(pending) + 1
        /\ pending'[Len(pending) + 1] = [key |-> k, call |-> c]
        /\ \A i \in 1 .. Len(pending) : pending'[i] = pending[i]
    BY <1>0, <1>2, <2>1, AppendProperties
  <2>3. DOMAIN pending' = 1 .. (Len(pending) + 1)
    BY <2>2, LenProperties
  <2> QED
    BY <1>0, <1>2, <2>2, <2>3
<1> QED
  BY <1>1, <1>2 DEF Register

(***************************************************************************)
(* What removing key k does to _pending: exactly the entries for the other *)
(* keys stay.                                                              *)
(***************************************************************************)
LEMMA UnregisterEffect ==
  ASSUME NEW k \in Keys, pending \in Seq(Entry), Unregister(k),
         \A i, j \in DOMAIN pending : pending[i].key = pending[j].key => i = j
  PROVE  /\ pending' \in Seq(Entry)
         /\ \A i, j \in DOMAIN pending' : pending'[i].key = pending'[j].key => i = j
         /\ \A i \in DOMAIN pending' : \E j \in DOMAIN pending :
               pending'[i] = pending[j] /\ pending[j].key # k
         /\ \A j \in DOMAIN pending : 
               pending[j].key # k => \E i \in DOMAIN pending' : pending'[i] = pending[j]
<1>0. /\ Len(pending) \in Nat
      /\ DOMAIN pending = 1 .. Len(pending)
  BY LenProperties
<1>1. CASE \E i \in DOMAIN pending : /\ pending[i].key = k
                                     /\ pending' = RemoveAt(pending, i)
  <2>1. PICK i \in 1 .. Len(pending) : /\ pending[i].key = k
                                       /\ pending' = RemoveAt(pending, i)
    BY <1>0, <1>1
  <2>2. /\ pending' \in Seq(Entry) /\ Len(pending') = Len(pending) - 1
        /\ \A j \in 1 .. (Len(pending) - 1) :
              pending'[j] = IF j < i THEN pending[j] ELSE pending[j + 1]
    BY <2>1, RemoveAtProperties
  <2>3. DOMAIN pending' = 1 .. (Len(pending) - 1)
    BY <2>2, LenProperties
  <2> DEFINE at(j) == IF j < i THEN j ELSE j + 1
  <2>a. ASSUME NEW j \in DOMAIN pending'
        PROVE  at(j) \in DOMAIN pending /\ at(j) # i /\ pending'[j] = pending[at(j)]
    BY <1>0, <2>1, <2>2, <2>3
  <2>b. ASSUME NEW a \in DOMAIN pending', NEW b \in DOMAIN pending', at(a) = at(b)
        PROVE  a = b
    BY <1>0, <2>1, <2>3, <2>b
  <2> HIDE DEF at
  <2>4. ASSUME NEW a \in DOMAIN pending', NEW b \in DOMAIN pending',
               pending'[a].key = pending'[b].key
        PROVE  a = b
    BY <2>a, <2>b, <2>4
  <2>5. ASSUME NEW a \in DOMAIN pending'
        PROVE  \E j \in DOMAIN pending : pending'[a] = pending[j] /\ pending[j].key # k
    <3>1. pending[at(a)].key # k
      BY <1>0, <2>1, <2>a
    <3> QED
      BY <2>a, <3>1
  <2>6. ASSUME NEW j \in DOMAIN pending, pending[j].key # k
        PROVE  \E a \in DOMAIN pending' : pending'[a] = pending[j]
    <3>1. CASE j < i
      BY <1>0, <2>1, <2>2, <2>3, <3>1
    <3>2. CASE j > i
      <4>1. j - 1 \in DOMAIN pending' /\ pending'[j - 1] = pending[j]
        BY <1>0, <2>1, <2>2, <2>3, <3>2
      <4> QED
        BY <4>1
    <3> QED
      BY <1>0, <2>1, <2>6, <3>1, <3>2
  <2> QED
    BY <2>2, <2>4, <2>5, <2>6
<1>2. CASE /\ \A i \in DOMAIN pending : pending[i].key # k
           /\ pending' = pending
  BY <1>2
<1> QED
  BY <1>1, <1>2 DEF Unregister

-------------------------------------------------------------------------------
(***************************************************************************)
(* The types and the registry: inductive together, since removing a key    *)
(* removes one entry only because the keys are distinct.                   *)
(***************************************************************************)
Structure == TypeOK /\ EntriesHaveOwners

LEMMA StructureInit == Init => Structure
<1> SUFFICES ASSUME Init PROVE Structure
  OBVIOUS
<1>1. TypeOK
  <2>1. << >> \in Seq(Entry) /\ << >> \in Seq(Orphan) /\ Len(<< >>) = 0
    BY EmptySeq
  <2>2. Len(orphans) <= MaxOrphans
    BY <2>1, MaxOrphansAssumption DEF Init
  <2> QED
    BY <2>1, <2>2 DEF Init, TypeOK, Phases, Futures, Outcomes
<1>2. EntriesHaveOwners
  BY DEF Init, EntriesHaveOwners
<1> QED
  BY <1>1, <1>2 DEF Structure

LEMMA EntryType ==
  ASSUME TypeOK
  PROVE  \A i \in DOMAIN pending : pending[i].key \in Keys /\ pending[i].call \in Calls
<1>1. \A i \in DOMAIN pending : pending[i] \in Entry
  BY ElementOfSeq, LenProperties DEF TypeOK
<1> QED
  BY <1>1 DEF Entry

LEMMA AbortType ==
  ASSUME TypeOK, Abort
  PROVE  fut' \in [Calls -> Futures]
BY DEF TypeOK, Abort, Futures

LEMMA StructureStep == Structure /\ [Next]_vars => Structure'
<1> SUFFICES ASSUME Structure, [Next]_vars PROVE Structure'
  OBVIOUS
<1> USE DEF Structure, linkVars
<1>a. ASSUME phase' = phase, key' = key, pending' = pending
      PROVE  EntriesHaveOwners'
  BY <1>a DEF EntriesHaveOwners, InProgress
<1>b. ASSUME NEW c \in Calls, phase' = [phase EXCEPT ![c] = "done"], key' = key,
             Unregister(key[c])
      PROVE  EntriesHaveOwners' /\ pending' \in Seq(Entry)
  <2>1. key[c] \in Keys /\ pending \in Seq(Entry) /\ phase \in [Calls -> Phases]
    BY DEF TypeOK
  <2>2. \A i \in DOMAIN pending : pending[i].call \in Calls
    BY EntryType
  <2>3. /\ pending' \in Seq(Entry)
        /\ \A i, j \in DOMAIN pending' : pending'[i].key = pending'[j].key => i = j
        /\ \A i \in DOMAIN pending' : \E j \in DOMAIN pending :
               pending'[i] = pending[j] /\ pending[j].key # key[c]
    BY <1>b, <2>1, UnregisterEffect DEF EntriesHaveOwners
  <2>4. ASSUME NEW i \in DOMAIN pending'
        PROVE  (InProgress(pending[i].call) /\ pending[i].key = key[pending[i].call])'
    <3>1. PICK j \in DOMAIN pending : pending'[i] = pending[j] /\ pending[j].key # key[c]
      BY <2>3
    <3>2. pending[j].call # c /\ pending[j].call \in Calls
      BY <2>2, <3>1 DEF EntriesHaveOwners
    <3> QED
      BY <1>b, <2>1, <3>1, <3>2 DEF EntriesHaveOwners, InProgress
  <2> QED
    BY <2>3, <2>4 DEF EntriesHaveOwners
<1>1. ASSUME NEW c \in Calls, Refuse(c) PROVE Structure'
  <2>1. TypeOK'
    BY <1>1 DEF TypeOK, Refuse, Phases, Outcomes
  <2>2. EntriesHaveOwners'
    <3>1. \A i \in DOMAIN pending : pending[i].call # c
      BY <1>1 DEF EntriesHaveOwners, Refuse, InProgress
    <3> QED
      BY <1>1, <3>1 DEF EntriesHaveOwners, Refuse, InProgress, TypeOK
  <2> QED BY <2>1, <2>2
<1>2. ASSUME NEW c \in Calls, Begin(c) PROVE Structure'
  <2>1. key[c] \in Keys /\ pending \in Seq(Entry) /\ Register(key[c], c)
    BY <1>2 DEF TypeOK, Begin
  <2>2. /\ pending' \in Seq(Entry)
        /\ \A i, j \in DOMAIN pending' : pending'[i].key = pending'[j].key => i = j
        /\ \A i \in DOMAIN pending' : \/ pending'[i] = [key |-> key[c], call |-> c]
                                      \/ /\ i \in DOMAIN pending
                                         /\ pending'[i] = pending[i]
    BY <2>1, RegisterEffect DEF EntriesHaveOwners
  <2>3. orphans' \in Seq(Orphan) /\ Len(orphans') <= MaxOrphans /\ got' \in [Calls -> Calls \union {NoReply}]
    <3>1. CASE \E i \in DOMAIN orphans :
                 got' = [got EXCEPT ![c] = orphans[i].of] /\ orphans' = RemoveAt(orphans, i)
      <4>1. PICK i \in DOMAIN orphans :
                 got' = [got EXCEPT ![c] = orphans[i].of] /\ orphans' = RemoveAt(orphans, i)
        BY <3>1
      <4>2. i \in 1 .. Len(orphans) /\ Len(orphans) \in Nat /\ orphans[i] \in Orphan
        BY LenProperties, ElementOfSeq DEF TypeOK
      <4>3. orphans' \in Seq(Orphan) /\ Len(orphans') = Len(orphans) - 1
        BY <4>1, <4>2, RemoveAtProperties DEF TypeOK
      <4> QED
        BY <4>1, <4>2, <4>3, MaxOrphansAssumption DEF TypeOK, Orphan
    <3>2. CASE UNCHANGED <<got, orphans>>
      BY <3>2 DEF TypeOK
    <3> QED
      BY <1>2, <3>1, <3>2 DEF Begin
  <2>4. phase' = [phase EXCEPT ![c] = "sending"] /\ phase' \in [Calls -> Phases]
    BY <1>2 DEF Begin, TypeOK, Phases
  <2>5. fut' \in [Calls -> Futures]
    BY <1>2 DEF Begin, TypeOK, Futures
  <2>6. crossed' \in BOOLEAN
    <3>1. crossed \in BOOLEAN
      BY DEF TypeOK
    <3>2. (\E d \in Calls : InProgress(d) /\ Confusable(key[c], key[d])) \in BOOLEAN
      OBVIOUS
    <3> QED
      BY <1>2, <3>1, <3>2, ZenonT(30) DEF Begin
  <2>7. TypeOK'
    BY <1>2, <2>2, <2>3, <2>4, <2>5, <2>6 DEF TypeOK, Begin
  <2>8. EntriesHaveOwners'
    <3>1. key' = key /\ phase \in [Calls -> Phases]
      BY <1>2 DEF Begin, TypeOK
    <3>2. \A d : InProgress(d) /\ d \in Calls => InProgress(d)'
      BY <2>4, <3>1 DEF InProgress
    <3>3. InProgress(c)'
      BY <2>4, <3>1 DEF InProgress
    <3>4. \A i \in DOMAIN pending : pending[i].call \in Calls
      BY EntryType
    <3> QED
      BY <2>2, <3>1, <3>2, <3>3, <3>4 DEF EntriesHaveOwners
  <2> QED BY <2>7, <2>8
<1>3. ASSUME NEW c \in Calls, Transmit(c) PROVE Structure'
  <2>1. TypeOK'
    BY <1>3 DEF TypeOK, Transmit, Phases
  <2>2. EntriesHaveOwners'
    BY <1>3 DEF EntriesHaveOwners, Transmit, InProgress, TypeOK, Phases
  <2> QED BY <2>1, <2>2
<1>4. ASSUME NEW c \in Calls, SendFails(c) \/ Cancel(c) PROVE Structure'
  <2>1. EntriesHaveOwners' /\ pending' \in Seq(Entry)
    BY <1>4, <1>b DEF SendFails, Cancel
  <2>2. TypeOK'
    BY <1>4, <2>1 DEF TypeOK, SendFails, Cancel, Phases, Outcomes
  <2> QED BY <2>1, <2>2
<1>5. ASSUME NEW c \in Calls, Await(c) PROVE Structure'
  <2>1. TypeOK'
    BY <1>5 DEF TypeOK, Await, Phases
  <2>2. EntriesHaveOwners'
    BY <1>5 DEF EntriesHaveOwners, Await, InProgress, TypeOK, Phases
  <2> QED BY <2>1, <2>2
<1>6. ASSUME NEW c \in Calls, Expire(c) PROVE Structure'
  <2>1. TypeOK'
    BY <1>6 DEF TypeOK, Expire, Phases, Futures
  <2>2. EntriesHaveOwners'
    BY <1>6 DEF EntriesHaveOwners, Expire, InProgress, TypeOK, Phases
  <2> QED BY <2>1, <2>2
<1>7. ASSUME NEW c \in Calls, Return(c) PROVE Structure'
  <2>1. EntriesHaveOwners' /\ pending' \in Seq(Entry)
    BY <1>7, <1>b DEF Return
  <2>2. TypeOK'
    BY <1>7, <2>1 DEF TypeOK, Return, Phases, Outcomes
  <2> QED BY <2>1, <2>2
<1>8. ASSUME NEW d \in Calls, NEW e \in Echoes[key[d]], Deliver(d, e) PROVE Structure'
  <2>1. TypeOK'
    <3>1. PICK i \in DOMAIN pending :
            /\ fut' = [fut EXCEPT ![pending[i].call] = "result"]
            /\ got' = [got EXCEPT ![pending[i].call] = d]
      BY <1>8 DEF Deliver
    <3> QED
      BY <1>8, <3>1 DEF TypeOK, Deliver, Futures
  <2>2. EntriesHaveOwners'
    BY <1>8, <1>a DEF Deliver
  <2> QED BY <2>1, <2>2
<1>9. ASSUME NEW d \in Calls, NEW e \in Echoes[key[d]], Buffer(d, e) PROVE Structure'
  <2>1. orphans' \in Seq(Orphan) /\ Len(orphans') <= MaxOrphans
    <3>1. [echo |-> e, of |-> d] \in Orphan
      BY DEF Orphan, TypeOK
    <3>2. CASE Len(orphans) < MaxOrphans /\ orphans' = Append(orphans, [echo |-> e, of |-> d])
      BY <3>1, <3>2, AppendProperties, LenProperties, MaxOrphansAssumption DEF TypeOK
    <3>3. CASE orphans' = orphans
      BY <3>3 DEF TypeOK
    <3> QED
      BY <1>9, <3>2, <3>3 DEF Buffer
  <2>2. TypeOK'
    BY <1>9, <2>1 DEF TypeOK, Buffer
  <2>3. EntriesHaveOwners'
    BY <1>9, <1>a DEF Buffer
  <2> QED BY <2>2, <2>3
<1>10. ASSUME NEW d \in Calls, DropUnreadable(d) PROVE Structure'
  BY <1>10, <1>a DEF TypeOK, DropUnreadable
<1>11. CASE PeerCloses
  BY <1>11, <1>a DEF TypeOK, PeerCloses, clientVars
<1>12. CASE ReceiverEnds
  BY <1>12, <1>a, AbortType DEF TypeOK, ReceiverEnds
<1>13. CASE ReceiverFails
  BY <1>13, <1>a, AbortType DEF TypeOK, ReceiverFails
<1>14. CASE TeardownStarts
  BY <1>14, <1>a DEF TypeOK, TeardownStarts, clientVars
<1>15. CASE TeardownEnds
  BY <1>15, <1>a, AbortType DEF TypeOK, TeardownEnds
<1>16. CASE UNCHANGED vars
  BY <1>16, <1>a DEF TypeOK, vars, clientVars
<1> QED
  BY <1>1, <1>2, <1>3, <1>4, <1>5, <1>6, <1>7, <1>8, <1>9, <1>10, <1>11, <1>12,
     <1>13, <1>14, <1>15, <1>16 DEF Next, Call, Answer

LEMMA StructureInvariant == Spec => []Structure
BY StructureInit, StructureStep, PTL DEF Spec

(***************************************************************************)
(* Every state of every behaviour is well typed; in particular the buffer  *)
(* of _dispatch_text never outgrows its cap, whatever the Miniserver does. *)
(***************************************************************************)
THEOREM TypeCorrect == Spec => []TypeOK
<1>1. Structure => TypeOK
  BY DEF Structure
<1> QED
  BY <1>1, StructureInvariant, PTL

(***************************************************************************)
(* The registry holds one entry per key, owned by a call in progress under *)
(* that key, although every caller removes its key whoever owns the entry. *)
(***************************************************************************)
THEOREM RegistryCorrect == Spec => []EntriesHaveOwners
<1>1. Structure => EntriesHaveOwners
  BY DEF Structure
<1> QED
  BY <1>1, StructureInvariant, PTL

-------------------------------------------------------------------------------
(***************************************************************************)
(* Custody of the responses: before its request is transmitted a call has  *)
(* no response anywhere, and afterwards its response is in one place.      *)
(***************************************************************************)
Unsent(d) == phase[d] \in {"idle", "sending"}

Custody ==
    /\ AnsweredOnce
    /\ \A d \in Calls : Unsent(d) => d \notin outstanding /\ ~ Buffered(d) /\ ~ Used(d)
    /\ \A c \in Calls : phase[c] = "idle" => fut[c] = "none"

(***************************************************************************)
(* Taking the response at position i out of the buffer leaves all others,  *)
(* in distinct positions, and no other answer to the same call.            *)
(***************************************************************************)
LEMMA TakeOrphan ==
  ASSUME NEW i \in DOMAIN orphans, orphans \in Seq(Orphan),
         orphans' = RemoveAt(orphans, i),
         \A a, b \in DOMAIN orphans : orphans[a].of = orphans[b].of => a = b
  PROVE  /\ \A a, b \in DOMAIN orphans' : orphans'[a].of = orphans'[b].of => a = b
         /\ \A a \in DOMAIN orphans' : /\ \E b \in DOMAIN orphans : orphans'[a] = orphans[b]
                                       /\ orphans'[a].of # orphans[i].of
         /\ \A b \in DOMAIN orphans : b # i => \E a \in DOMAIN orphans' : orphans'[a] = orphans[b]
<1>0. Len(orphans) \in Nat /\ DOMAIN orphans = 1 .. Len(orphans)
  BY LenProperties
<1>1. /\ orphans' \in Seq(Orphan) /\ Len(orphans') = Len(orphans) - 1
      /\ \A j \in 1 .. (Len(orphans) - 1) :
            orphans'[j] = IF j < i THEN orphans[j] ELSE orphans[j + 1]
  BY <1>0, RemoveAtProperties
<1>2. DOMAIN orphans' = 1 .. (Len(orphans) - 1)
  BY <1>1, LenProperties
<1> DEFINE at(j) == IF j < i THEN j ELSE j + 1
<1>3. ASSUME NEW j \in DOMAIN orphans'
      PROVE  at(j) \in DOMAIN orphans /\ at(j) # i /\ orphans'[j] = orphans[at(j)]
  BY <1>0, <1>1, <1>2
<1>4. ASSUME NEW a \in DOMAIN orphans', NEW b \in DOMAIN orphans', at(a) = at(b)
      PROVE  a = b
  BY <1>0, <1>2, <1>4
<1>5. ASSUME NEW b \in DOMAIN orphans, b # i
      PROVE  \E a \in DOMAIN orphans' : orphans'[a] = orphans[b]
  <2>1. CASE b < i
    BY <1>0, <1>1, <1>2, <2>1
  <2>2. CASE b > i
    <3>1. b - 1 \in DOMAIN orphans' /\ orphans'[b - 1] = orphans[b]
      BY <1>0, <1>1, <1>2, <2>2
    <3> QED
      BY <3>1
  <2> QED
    BY <1>0, <1>5, <2>1, <2>2
<1> HIDE DEF at
<1> QED
  BY <1>3, <1>4, <1>5

LEMMA CustodyInit == Init => Custody
<1> SUFFICES ASSUME Init PROVE Custody
  OBVIOUS
<1>1. DOMAIN orphans = {}
  BY DEF Init
<1> QED
  BY <1>1, NoReplyAssumption
  DEF Init, Custody, AnsweredOnce, Buffered, Used, Unsent

LEMMA CustodyStep == Structure /\ Custody /\ [Next]_vars => Custody'
<1> SUFFICES ASSUME TypeOK, Custody, [Next]_vars PROVE Custody'
  BY DEF Structure
<1> USE DEF linkVars
(***************************************************************************)
(* Most steps move no response; some let a call advance past sending or    *)
(* settle a future.                                                        *)
(***************************************************************************)
<1>a. ASSUME UNCHANGED <<got, orphans>>,
             outstanding' \in SUBSET outstanding,
             \A c \in Calls : Unsent(c)' => Unsent(c),
             \A c \in Calls : phase'[c] = "idle" => phase[c] = "idle" /\ fut'[c] = fut[c]
      PROVE  Custody'
  BY <1>a DEF Custody, AnsweredOnce, Buffered, Used
<1>b. ASSUME Abort, phase' = phase
      PROVE  \A c \in Calls : phase'[c] = "idle" => phase[c] = "idle" /\ fut'[c] = fut[c]
  BY <1>b DEF Abort, Custody
<1>1. ASSUME NEW c \in Calls, Refuse(c) PROVE Custody'
  BY <1>1, <1>a DEF Refuse, Unsent, TypeOK, Phases
<1>2. ASSUME NEW c \in Calls, Begin(c) PROVE Custody'
  <2>1. /\ phase[c] = "idle" /\ phase' = [phase EXCEPT ![c] = "sending"]
        /\ outstanding' = outstanding
    BY <1>2 DEF Begin
  <2>2. \A d \in Calls : Unsent(d)' <=> Unsent(d)
    BY <2>1 DEF Unsent, TypeOK
  <2>3. \A d \in Calls : phase'[d] = "idle" => phase[d] = "idle" /\ fut'[d] = fut[d]
    BY <1>2, <2>1 DEF Begin, TypeOK
  <2>4. CASE UNCHANGED <<got, orphans>>
    BY <2>1, <2>2, <2>3, <2>4, <1>a
  <2>5. CASE \E i \in DOMAIN orphans : /\ got' = [got EXCEPT ![c] = orphans[i].of]
                                       /\ orphans' = RemoveAt(orphans, i)
    <3>1. PICK i \in DOMAIN orphans : /\ got' = [got EXCEPT ![c] = orphans[i].of]
                                      /\ orphans' = RemoveAt(orphans, i)
      BY <2>5
    <3> DEFINE o == orphans[i].of
    <3>2. o \in Calls /\ Buffered(o) /\ o \notin outstanding /\ ~ Used(o) /\ ~ Unsent(o)
      <4>1. orphans[i] \in Orphan
        BY ElementOfSeq, LenProperties DEF TypeOK
      <4>2. o \in Calls /\ Buffered(o)
        BY <4>1 DEF Orphan, Buffered
      <4> QED
        BY <4>2 DEF Custody, AnsweredOnce
    <3>3. /\ \A a, b \in DOMAIN orphans' : orphans'[a].of = orphans'[b].of => a = b
          /\ \A a \in DOMAIN orphans' : /\ \E b \in DOMAIN orphans : orphans'[a] = orphans[b]
                                        /\ orphans'[a].of # o
      BY <3>1, TakeOrphan DEF TypeOK, Custody, AnsweredOnce
    <3>4. \A d \in Calls : Buffered(d)' => Buffered(d) /\ d # o
      BY <3>3 DEF Buffered
    <3>5. \A d \in Calls : got'[d] = IF d = c THEN o ELSE got[d]
      BY <3>1 DEF TypeOK
    <3>6. \A d \in Calls : Used(d)' => Used(d) \/ d = o
      BY <3>5 DEF Used
    <3>7. o # NoReply /\ \A d \in Calls : got[d] # o
      BY <3>2, NoReplyAssumption DEF Used
    <3> HIDE DEF o
    <3>8. AnsweredOnce'
      <4>1. (\A a, d \in Calls : got[a] = got[d] /\ got[a] # NoReply => a = d)'
        BY <3>5, <3>7 DEF Custody, AnsweredOnce
      <4>2. (\A d \in Calls : /\ Buffered(d) => d \notin outstanding /\ ~ Used(d)
                              /\ d \in outstanding => ~ Used(d))'
        BY <2>1, <3>2, <3>4, <3>6 DEF Custody, AnsweredOnce
      <4> QED
        BY <3>3, <4>1, <4>2 DEF AnsweredOnce
    <3> QED
      BY <2>1, <2>2, <2>3, <3>2, <3>4, <3>6, <3>8 DEF Custody
  <2> QED
    BY <1>2, <2>4, <2>5 DEF Begin
<1>3. ASSUME NEW c \in Calls, Transmit(c) PROVE Custody'
  <2>1. /\ phase' = [phase EXCEPT ![c] = "sent"] /\ phase[c] = "sending"
        /\ outstanding' = outstanding \union {c} /\ UNCHANGED <<got, orphans, fut>>
    BY <1>3 DEF Transmit
  <2>2. c \notin outstanding /\ ~ Buffered(c) /\ ~ Used(c)
    BY <2>1 DEF Custody, Unsent
  <2>3. \A d \in Calls : Unsent(d)' => Unsent(d) /\ d # c
    BY <2>1 DEF Unsent, TypeOK
  <2>4. \A d \in Calls : phase'[d] = "idle" => phase[d] = "idle"
    BY <2>1 DEF TypeOK
  <2>5. \A d \in Calls : (Buffered(d)' <=> Buffered(d)) /\ (Used(d)' <=> Used(d))
    BY <2>1 DEF Buffered, Used
  <2> QED
    BY <2>1, <2>2, <2>3, <2>4, <2>5 DEF Custody, AnsweredOnce
<1>4. ASSUME NEW c \in Calls, SendFails(c) \/ Cancel(c) PROVE Custody'
  BY <1>4, <1>a DEF SendFails, Cancel, Unsent, TypeOK, Phases
<1>5. ASSUME NEW c \in Calls, Await(c) PROVE Custody'
  BY <1>5, <1>a DEF Await, Unsent, TypeOK, Phases
<1>6. ASSUME NEW c \in Calls, Expire(c) PROVE Custody'
  BY <1>6, <1>a DEF Expire, Unsent, TypeOK, Phases
<1>7. ASSUME NEW c \in Calls, Return(c) PROVE Custody'
  BY <1>7, <1>a DEF Return, Unsent, TypeOK, Phases
<1>8. ASSUME NEW d \in Calls, NEW e \in Echoes[key[d]], Deliver(d, e) PROVE Custody'
  <2>1. /\ d \in outstanding /\ outstanding' = outstanding \ {d}
        /\ phase' = phase /\ orphans' = orphans
    BY <1>8 DEF Deliver
  <2>2. PICK i \in DOMAIN pending : /\ fut[pending[i].call] = "pending"
                                    /\ fut' = [fut EXCEPT ![pending[i].call] = "result"]
                                    /\ got' = [got EXCEPT ![pending[i].call] = d]
    BY <1>8 DEF Deliver
  <2> DEFINE w == pending[i].call
  <2>3. w \in Calls
    BY EntryType
  <2>4. \A a \in Calls : got'[a] = IF a = w THEN d ELSE got[a]
    BY <2>2, <2>3 DEF TypeOK
  <2>5. ~ Used(d) /\ ~ Buffered(d) /\ ~ Unsent(d) /\ d # NoReply
    BY <2>1, NoReplyAssumption DEF Custody, AnsweredOnce
  <2>6. \A a \in Calls : Used(a)' => Used(a) \/ a = d
    BY <2>4 DEF Used
  <2>7. \A a \in Calls : (Buffered(a)' <=> Buffered(a)) /\ (Unsent(a)' <=> Unsent(a))
    BY <2>1 DEF Buffered, Unsent
  <2>8. \A a \in Calls : phase[a] = "idle" => fut'[a] = fut[a]
    BY <2>2, <2>3 DEF Custody, TypeOK
  <2> HIDE DEF w
  <2>9. (\A a, b \in Calls : got[a] = got[b] /\ got[a] # NoReply => a = b)'
    BY <2>4, <2>5 DEF Custody, AnsweredOnce, Used
  <2>10. AnsweredOnce'
    BY <2>1, <2>5, <2>6, <2>7, <2>9 DEF Custody, AnsweredOnce
  <2> QED
    BY <2>1, <2>5, <2>6, <2>7, <2>8, <2>10 DEF Custody
<1>9. ASSUME NEW d \in Calls, NEW e \in Echoes[key[d]], Buffer(d, e) PROVE Custody'
  <2>1. /\ d \in outstanding /\ outstanding' = outstanding \ {d}
        /\ phase' = phase /\ got' = got /\ fut' = fut
    BY <1>9 DEF Buffer
  <2>2. CASE orphans' = orphans
    BY <2>1, <2>2, <1>a DEF Unsent
  <2>3. CASE orphans' = Append(orphans, [echo |-> e, of |-> d])
    <3>1. ~ Used(d) /\ ~ Buffered(d) /\ ~ Unsent(d)
      BY <2>1 DEF Custody, AnsweredOnce
    <3>2. /\ Len(orphans) \in Nat /\ DOMAIN orphans = 1 .. Len(orphans)
          /\ DOMAIN orphans' = 1 .. (Len(orphans) + 1)
          /\ orphans'[Len(orphans) + 1] = [echo |-> e, of |-> d]
          /\ \A i \in 1 .. Len(orphans) : orphans'[i] = orphans[i]
      <4>1. [echo |-> e, of |-> d] \in Orphan /\ orphans \in Seq(Orphan)
        BY DEF Orphan, TypeOK
      <4>2. orphans' \in Seq(Orphan)
        BY <2>3, <4>1, AppendProperties
      <4> QED
        BY <2>3, <4>1, <4>2, AppendProperties, LenProperties
    <3>3. \A a \in Calls : Buffered(a)' => Buffered(a) \/ a = d
      BY <3>2 DEF Buffered
    <3>4. (\A i, j \in DOMAIN orphans : orphans[i].of = orphans[j].of => i = j)'
      BY <3>1, <3>2 DEF Custody, AnsweredOnce, Buffered
    <3>5. \A a \in Calls : (Used(a)' <=> Used(a)) /\ (Unsent(a)' <=> Unsent(a))
      BY <2>1 DEF Used, Unsent
    <3>6. AnsweredOnce'
      BY <2>1, <3>1, <3>3, <3>4, <3>5 DEF Custody, AnsweredOnce
    <3> QED
      BY <2>1, <3>1, <3>3, <3>5, <3>6 DEF Custody
  <2> QED
    BY <1>9, <2>2, <2>3 DEF Buffer
<1>10. ASSUME NEW d \in Calls, DropUnreadable(d) PROVE Custody'
  BY <1>10, <1>a DEF DropUnreadable, Unsent
<1>11. CASE PeerCloses
  BY <1>11, <1>a DEF PeerCloses, clientVars, Unsent
<1>12. CASE ReceiverEnds
  BY <1>12, <1>a, <1>b DEF ReceiverEnds, Unsent
<1>13. CASE ReceiverFails
  BY <1>13, <1>a, <1>b DEF ReceiverFails, Unsent
<1>14. CASE TeardownStarts
  BY <1>14, <1>a DEF TeardownStarts, clientVars, Unsent
<1>15. CASE TeardownEnds
  BY <1>15, <1>a, <1>b DEF TeardownEnds, Unsent
<1>16. CASE UNCHANGED vars
  BY <1>16, <1>a DEF vars, clientVars, Unsent
<1> QED
  BY <1>1, <1>2, <1>3, <1>4, <1>5, <1>6, <1>7, <1>8, <1>9, <1>10, <1>11, <1>12,
     <1>13, <1>14, <1>15, <1>16 DEF Next, Call, Answer

LEMMA CustodyInvariant == Spec => []Custody
BY StructureInvariant, CustodyInit, CustodyStep, PTL DEF Spec

(***************************************************************************)
(* No response is ever used twice or held in two places, for any           *)
(* interleaving of calls, timeouts, late answers and disconnects.          *)
(***************************************************************************)
THEOREM ResponsesUsedOnce == Spec => []AnsweredOnce
<1>1. Custody => AnsweredOnce
  BY DEF Custody
<1> QED
  BY <1>1, CustodyInvariant, PTL

-------------------------------------------------------------------------------
(***************************************************************************)
(* No step settles a settled future again: set_result never raises in the  *)
(* receive loop, and a caller never sees its response replaced.            *)
(***************************************************************************)
THEOREM FuturesSettledOnce == Spec => SettledOnce
<1>1. Structure /\ Custody /\ [Next]_vars => [KeepsSettled]_vars
  <2> SUFFICES ASSUME TypeOK, Custody, [Next]_vars, NEW a \in Calls, Settled(a)
               PROVE  fut'[a] = fut[a] /\ got'[a] = got[a]
    BY DEF Structure, KeepsSettled
  <2> USE DEF linkVars
  <2>1. phase[a] # "idle" /\ fut[a] # "pending"
    BY DEF Custody, Settled
  <2>a. ASSUME Abort, got' = got PROVE fut'[a] = fut[a] /\ got'[a] = got[a]
    BY <2>1, <2>a DEF Abort
  <2>2. ASSUME NEW c \in Calls, Call(c) PROVE fut'[a] = fut[a] /\ got'[a] = got[a]
    <3>1. CASE Begin(c)
      BY <2>1, <3>1 DEF Begin, TypeOK
    <3>2. CASE Expire(c)
      BY <2>1, <3>2 DEF Expire, TypeOK
    <3> QED
      BY <2>2, <3>1, <3>2 DEF Call, Refuse, Transmit, SendFails, Cancel, Await, Return
  <2>3. ASSUME NEW d \in Calls, Answer(d) PROVE fut'[a] = fut[a] /\ got'[a] = got[a]
    <3>1. ASSUME NEW e \in Echoes[key[d]], Deliver(d, e)
          PROVE  fut'[a] = fut[a] /\ got'[a] = got[a]
      <4>1. PICK i \in DOMAIN pending : /\ fut[pending[i].call] = "pending"
                                        /\ fut' = [fut EXCEPT ![pending[i].call] = "result"]
                                        /\ got' = [got EXCEPT ![pending[i].call] = d]
        BY <3>1 DEF Deliver
      <4> QED
        BY <2>1, <4>1 DEF TypeOK
    <3> QED
      BY <2>3, <3>1 DEF Answer, Buffer, DropUnreadable
  <2> QED
    BY <2>2, <2>3, <2>a DEF Next, PeerCloses, ReceiverEnds, ReceiverFails, TeardownStarts,
                            TeardownEnds, vars, clientVars
<1> QED
  BY <1>1, StructureInvariant, CustodyInvariant, PTL DEF SettledOnce, Spec

-------------------------------------------------------------------------------
(***************************************************************************)
(* After the transport's closed flag is set, every registered call has     *)
(* been answered, aborted or given up: a call can neither begin after the  *)
(* abort nor slip in between the abort and the flag.                       *)
(***************************************************************************)
THEOREM ClosingAborts == Spec => []ClosedAbortsRegistered
<1>1. Init => ClosedAbortsRegistered
  BY DEF Init, ClosedAbortsRegistered
<1>2. Structure /\ ClosedAbortsRegistered /\ [Next]_vars => ClosedAbortsRegistered'
  <2> SUFFICES ASSUME TypeOK, EntriesHaveOwners, ClosedAbortsRegistered, [Next]_vars
               PROVE  ClosedAbortsRegistered'
    BY DEF Structure
  <2> USE DEF linkVars
  <2>0. \A i \in DOMAIN pending : pending[i].call \in Calls
    BY EntryType
  <2>a. ASSUME Abort, pending' = pending PROVE ClosedAbortsRegistered'
    BY <2>0, <2>a DEF Abort, ClosedAbortsRegistered
  <2>b. ASSUME closed' = closed, pending' = pending,
               \A c \in Calls : fut'[c] = "pending" => fut[c] = "pending"
        PROVE  ClosedAbortsRegistered'
    BY <2>0, <2>b DEF ClosedAbortsRegistered
  <2>c. ASSUME NEW c \in Calls, Unregister(key[c]), closed' = closed, fut' = fut
        PROVE  ClosedAbortsRegistered'
    <3>1. \A i \in DOMAIN pending' : \E j \in DOMAIN pending : pending'[i] = pending[j]
      <4>1. key[c] \in Keys /\ pending \in Seq(Entry)
        BY DEF TypeOK
      <4> QED
        BY <2>c, <4>1, UnregisterEffect DEF EntriesHaveOwners
    <3> QED
      BY <2>c, <3>1 DEF ClosedAbortsRegistered
  <2>1. ASSUME NEW c \in Calls, Call(c) PROVE ClosedAbortsRegistered'
    <3>1. CASE Begin(c)
      BY <3>1 DEF Begin, ClosedAbortsRegistered
    <3>2. CASE SendFails(c) \/ Cancel(c) \/ Return(c)
      BY <2>c, <3>2 DEF SendFails, Cancel, Return
    <3>3. CASE Expire(c)
      BY <2>b, <3>3 DEF Expire, TypeOK
    <3> QED
      BY <2>1, <2>b, <3>1, <3>2, <3>3 DEF Call, Refuse, Transmit, Await
  <2>2. ASSUME NEW d \in Calls, Answer(d) PROVE ClosedAbortsRegistered'
    <3>1. ASSUME NEW e \in Echoes[key[d]], Deliver(d, e) PROVE ClosedAbortsRegistered'
      <4>1. PICK i \in DOMAIN pending : fut' = [fut EXCEPT ![pending[i].call] = "result"]
        BY <3>1 DEF Deliver
      <4>2. closed' = closed /\ pending' = pending
        BY <3>1 DEF Deliver
      <4>3. \A c \in Calls : fut'[c] = "pending" => fut[c] = "pending"
        BY <4>1 DEF TypeOK
      <4> QED
        BY <2>b, <4>2, <4>3
    <3> QED
      BY <2>2, <2>b, <3>1 DEF Answer, Buffer, DropUnreadable
  <2>3. CASE ReceiverEnds \/ ReceiverFails \/ TeardownEnds
    BY <2>3, <2>a DEF ReceiverEnds, ReceiverFails, TeardownEnds
  <2>4. CASE PeerCloses \/ TeardownStarts \/ UNCHANGED vars
    BY <2>4, <2>b DEF PeerCloses, TeardownStarts, vars, clientVars
  <2> QED
    BY <2>1, <2>2, <2>3, <2>4 DEF Next
<1> QED
  BY <1>1, <1>2, StructureInvariant, PTL DEF Spec

-------------------------------------------------------------------------------
(***************************************************************************)
(* The strengthening of UndisturbedGetOwnAnswer. As long as nothing has    *)
(* disturbed the calls, those in progress have pairwise different answers, *)
(* nothing was torn down behind the receive loop's back, and a request     *)
(* that may still be answered has its own pending future registered.       *)
(***************************************************************************)
Expecting(d) == phase[d] = "sending" \/ d \in outstanding

Apart == \A c, d \in Calls : InProgress(c) /\ InProgress(d) /\ Confusable(key[c], key[d]) => c = d

Awaited == \A d \in Calls : Expecting(d) => /\ InProgress(d)
                                           /\ fut[d] = "pending"
                                           /\ \E i \in DOMAIN pending : pending[i].call = d

Orderly ==
    /\ teardown # "no" => receiver # "running"
    /\ \A c \in Calls : phase[c] # "done" => outcome[c] = "none"
    /\ Undisturbed => /\ Apart
                      /\ receiver = "running" => Awaited
                      /\ \A c \in Calls : got[c] \in {c, NoReply}
                      /\ orphans = << >>

(***************************************************************************)
(* A key could be confused with itself: the Miniserver may echo a stem.    *)
(***************************************************************************)
LEMMA ConfusableFacts ==
  /\ \A k \in Keys : Confusable(k, k)
  /\ \A k, l \in Keys : Confusable(k, l) <=> Confusable(l, k)
  /\ \A k \in Keys : \A e \in Echoes[k] : Matches(k, e)
<1>1. \A k \in Keys : \A e \in Echoes[k] : Matches(k, e)
  BY EchoesAssumption DEF Matches, IsStrictPrefix
<1>2. \A k \in Keys : Confusable(k, k)
  BY <1>1, EchoesAssumption DEF Confusable
<1> QED
  BY <1>1, <1>2 DEF Confusable

LEMMA OrderlyInit == Init => Orderly
BY EmptySeq DEF Init, Orderly, Undisturbed, Apart, Awaited, Expecting, InProgress

LEMMA OrderlyStep == Structure /\ Custody /\ Orderly /\ [Next]_vars => Orderly'
<1> SUFFICES ASSUME TypeOK, EntriesHaveOwners, Custody, Orderly, [Next]_vars
             PROVE  Orderly'
  BY DEF Structure
<1> USE DEF linkVars
<1>0. /\ \A i \in DOMAIN pending : pending[i].call \in Calls
      /\ \A c \in Calls : key[c] \in Keys
  BY EntryType DEF TypeOK
(***************************************************************************)
(* A step that lets calls advance and forgets requests, no more.           *)
(***************************************************************************)
<1>a. ASSUME UNCHANGED <<key, fut, got, pending, orphans, teardown, receiver>>,
             Undisturbed' => Undisturbed,
             \A c \in Calls : phase'[c] # "done" => phase[c] # "done" /\ outcome'[c] = outcome[c],
             \A c \in Calls : InProgress(c)' <=> InProgress(c),
             \A c \in Calls : Expecting(c)' => Expecting(c)
      PROVE  Orderly'
  <2>1. Undisturbed' => Apart' /\ (receiver' = "running" => Awaited')
    BY <1>a DEF Orderly, Apart, Awaited
  <2> QED
    BY <1>a, <2>1 DEF Orderly
(***************************************************************************)
(* Once the receive loop is over no request is answered any more.          *)
(***************************************************************************)
<1>b. ASSUME UNCHANGED <<phase, key, got, outcome, pending, orphans, crossed>>,
             receiver' # "running"
      PROVE  Orderly'
  <2>1. (Undisturbed' <=> Undisturbed) /\ (Apart' <=> Apart)
    BY <1>b DEF Undisturbed, Apart, InProgress
  <2> QED
    BY <1>b, <2>1 DEF Orderly
(***************************************************************************)
(* A call that fails or times out leaves the calls disturbed.              *)
(***************************************************************************)
<1>c. ASSUME UNCHANGED <<teardown, receiver>>, ~ Undisturbed',
             \A c \in Calls : phase'[c] # "done" => phase[c] # "done" /\ outcome'[c] = outcome[c]
      PROVE  Orderly'
  BY <1>c DEF Orderly
(***************************************************************************)
(* A call that returns its own response takes only its own entry with it.  *)
(***************************************************************************)
<1>d. ASSUME NEW c \in Calls, Undisturbed, Unregister(key[c]), InProgress(c), key' = key,
             NEW d \in Calls, InProgress(d), d # c,
             \E i \in DOMAIN pending : pending[i].call = d
      PROVE  \E i \in DOMAIN pending' : pending'[i].call = d
  <2>1. PICK i \in DOMAIN pending : pending[i].call = d
    BY <1>d
  <2>2. pending[i].key # key[c]
    BY <1>0, <1>d, <2>1, ConfusableFacts DEF Orderly, Apart, EntriesHaveOwners
  <2>3. key[c] \in Keys /\ pending \in Seq(Entry)
    BY DEF TypeOK
  <2>4. \E j \in DOMAIN pending' : pending'[j] = pending[i]
    BY <1>d, <2>2, <2>3, UnregisterEffect DEF EntriesHaveOwners
  <2> QED
    BY <2>1, <2>4
<1>1. ASSUME NEW c \in Calls, Refuse(c) PROVE Orderly'
  <2>1. /\ phase' = [phase EXCEPT ![c] = "done"] /\ phase[c] = "idle"
        /\ outcome' = [outcome EXCEPT ![c] = "refused"] /\ outcome[c] = "none"
        /\ UNCHANGED <<key, fut, got, pending, orphans, outstanding, crossed, teardown, receiver>>
    BY <1>1 DEF Refuse, Orderly
  <2>2. \A d \in Calls : InProgress(d)' <=> InProgress(d)
    BY <2>1 DEF InProgress, TypeOK
  <2>3. \A d \in Calls : Expecting(d)' => Expecting(d)
    BY <2>1 DEF Expecting, TypeOK
  <2>4. Undisturbed' => Undisturbed
    BY <2>1 DEF Undisturbed, TypeOK
  <2>5. \A d \in Calls : phase'[d] # "done" => phase[d] # "done" /\ outcome'[d] = outcome[d]
    BY <2>1 DEF TypeOK
  <2> QED
    BY <2>1, <2>2, <2>3, <2>4, <2>5, <1>a
<1>2. ASSUME NEW c \in Calls, Begin(c) PROVE Orderly'
  <2>1. /\ phase[c] = "idle" /\ phase' = [phase EXCEPT ![c] = "sending"]
        /\ Register(key[c], c)
        /\ crossed' = (crossed \/ \E d \in Calls : InProgress(d) /\ Confusable(key[c], key[d]))
        /\ UNCHANGED <<key, outcome, outstanding, teardown, receiver>>
    BY <1>2 DEF Begin
  <2>2. (\A d \in Calls : phase[d] # "done" => outcome[d] = "none")'
    BY <2>1 DEF Orderly, TypeOK
  <2>3. ASSUME Undisturbed'
        PROVE  /\ Undisturbed
               /\ \A d \in Calls : InProgress(d) => ~ Confusable(key[c], key[d])
    <3>1. ~ crossed /\ \A d \in Calls : InProgress(d) => ~ Confusable(key[c], key[d])
      BY <2>1, <2>3 DEF Undisturbed
    <3> QED
      BY <2>1, <2>3, <3>1 DEF Undisturbed, TypeOK
  <2>4. ASSUME Undisturbed'
        PROVE  /\ fut' = [fut EXCEPT ![c] = "pending"]
               /\ UNCHANGED <<got, orphans>>
    <3>1. orphans = << >>
      BY <2>3, <2>4 DEF Orderly
    <3> QED
      BY <1>2, <3>1, EmptySeq DEF Begin
  <2>5. \A d \in Calls : InProgress(d)' <=> InProgress(d) \/ d = c
    BY <2>1 DEF InProgress, TypeOK
  <2>6. ASSUME Undisturbed' PROVE Apart'
    BY <1>0, <2>1, <2>3, <2>5, <2>6, ConfusableFacts DEF Orderly, Apart
  <2>7. ASSUME Undisturbed', receiver = "running" PROVE Awaited'
    <3>1. SUFFICES ASSUME NEW d \in Calls, Expecting(d)'
                   PROVE  /\ InProgress(d)'
                          /\ fut'[d] = "pending"
                          /\ \E i \in DOMAIN pending' : pending'[i].call = d
      BY DEF Awaited
    <3>2. key[c] \in Keys /\ pending \in Seq(Entry) /\ fut \in [Calls -> Futures]
      BY DEF TypeOK
    <3>3. CASE d = c
      <4>1. \E i \in DOMAIN pending' : pending'[i] = [key |-> key[c], call |-> c]
        BY <2>1, <3>2, RegisterEffect DEF EntriesHaveOwners
      <4> QED
        BY <2>4, <2>5, <2>7, <3>2, <3>3, <4>1
    <3>4. CASE d # c
      <4>1. Expecting(d)
        BY <2>1, <3>1, <3>4 DEF Expecting, TypeOK
      <4>2. InProgress(d) /\ fut[d] = "pending" /\ \E i \in DOMAIN pending : pending[i].call = d
        BY <2>3, <2>7, <4>1 DEF Orderly, Awaited
      <4>3. PICK i \in DOMAIN pending : pending[i].call = d
        BY <4>2
      <4>4. pending[i].key # key[c]
        <5>1. pending[i].key = key[d]
          BY <4>3 DEF EntriesHaveOwners
        <5> QED
          BY <1>0, <2>3, <2>7, <4>2, <5>1, ConfusableFacts
      <4>5. i \in DOMAIN pending' /\ pending'[i] = pending[i]
        BY <2>1, <3>2, <4>4, RegisterEffect DEF EntriesHaveOwners
      <4> QED
        BY <2>4, <2>5, <2>7, <3>2, <3>4, <4>2, <4>3, <4>5
    <3> QED
      BY <3>3, <3>4
  <2> QED
    BY <2>1, <2>2, <2>3, <2>4, <2>6, <2>7 DEF Orderly
<1>3. ASSUME NEW c \in Calls, Transmit(c) PROVE Orderly'
  <2>1. /\ phase[c] = "sending" /\ phase' = [phase EXCEPT ![c] = "sent"]
        /\ outstanding' = outstanding \union {c}
        /\ UNCHANGED <<key, fut, got, outcome, pending, orphans, crossed, teardown, receiver>>
    BY <1>3 DEF Transmit
  <2>2. \A d \in Calls : InProgress(d)' <=> InProgress(d)
    BY <2>1 DEF InProgress, TypeOK
  <2>3. \A d \in Calls : Expecting(d)' => Expecting(d)
    BY <2>1 DEF Expecting, TypeOK
  <2> QED
    BY <1>a, <2>1, <2>2, <2>3 DEF Undisturbed, TypeOK
<1>4. ASSUME NEW c \in Calls, SendFails(c) \/ Cancel(c) PROVE Orderly'
  BY <1>4, <1>c DEF SendFails, Cancel, Undisturbed, TypeOK, Phases, Outcomes
<1>5. ASSUME NEW c \in Calls, Await(c) PROVE Orderly'
  <2>1. /\ phase[c] = "sent" /\ phase' = [phase EXCEPT ![c] = "waiting"]
        /\ UNCHANGED <<key, fut, got, outcome, pending, orphans, outstanding, crossed, teardown, receiver>>
    BY <1>5 DEF Await
  <2>2. \A d \in Calls : InProgress(d)' <=> InProgress(d)
    BY <2>1 DEF InProgress, TypeOK
  <2>3. \A d \in Calls : Expecting(d)' => Expecting(d)
    BY <2>1 DEF Expecting, TypeOK
  <2> QED
    BY <1>a, <2>1, <2>2, <2>3 DEF Undisturbed, TypeOK
<1>6. ASSUME NEW c \in Calls, Expire(c) PROVE Orderly'
  BY <1>6, <1>c DEF Expire, Undisturbed, TypeOK, Phases
<1>7. ASSUME NEW c \in Calls, Return(c) PROVE Orderly'
  <2>1. /\ phase[c] \in {"sent", "waiting", "expired"} /\ phase' = [phase EXCEPT ![c] = "done"]
        /\ Unregister(key[c]) /\ Settled(c)
        /\ outcome' = [outcome EXCEPT ![c] = IF phase[c] = "expired" THEN "abandoned"
                                             ELSE IF fut[c] = "result" THEN "response"
                                             ELSE "failed"]
        /\ UNCHANGED <<key, fut, got, orphans, outstanding, crossed, teardown, receiver>>
    BY <1>7 DEF Return
  <2>2. \A d \in Calls : phase'[d] # "done" => phase[d] # "done" /\ outcome'[d] = outcome[d]
    BY <2>1 DEF TypeOK
  <2>3. CASE ~ Undisturbed'
    BY <1>c, <2>1, <2>2, <2>3
  <2>4. CASE Undisturbed'
    <3>1. phase[c] # "expired"
      BY <2>1, <2>4 DEF Undisturbed, TypeOK
    <3>2. outcome[c] = "none"
      BY <2>1 DEF Orderly
    <3>3. Undisturbed
      BY <2>1, <2>4, <3>1, <3>2 DEF Undisturbed, TypeOK
    <3>4. \A d \in Calls : InProgress(d)' <=> InProgress(d) /\ d # c
      BY <2>1 DEF InProgress, TypeOK
    <3>5. Apart'
      BY <2>1, <3>3, <3>4 DEF Orderly, Apart
    <3>6. ASSUME receiver = "running" PROVE Awaited'
      <4> SUFFICES ASSUME NEW d \in Calls, Expecting(d)'
                   PROVE  /\ InProgress(d)'
                          /\ fut'[d] = "pending"
                          /\ \E i \in DOMAIN pending' : pending'[i].call = d
        BY DEF Awaited
      <4>1. Expecting(d)
        BY <2>1 DEF Expecting, TypeOK
      <4>2. InProgress(d) /\ fut[d] = "pending" /\ \E i \in DOMAIN pending : pending[i].call = d
        BY <3>3, <3>6, <4>1 DEF Orderly, Awaited
      <4>3. d # c
        BY <2>1, <4>2 DEF Settled
      <4>4. InProgress(c)
        BY <2>1 DEF InProgress
      <4> QED
        BY <1>d, <2>1, <3>3, <3>4, <4>2, <4>3, <4>4
    <3> QED
      BY <2>1, <2>2, <3>3, <3>5, <3>6 DEF Orderly
  <2> QED
    BY <2>3, <2>4
<1>8. ASSUME NEW d \in Calls, NEW e \in Echoes[key[d]], receiver = "running", d \in outstanding,
             Undisturbed
      PROVE  \E m \in DOMAIN pending : /\ Located(m, e) /\ pending[m].call = d
                                       /\ fut[d] = "pending"
                                       /\ \A i \in DOMAIN pending : Located(i, e) => i = m
  <2>1. InProgress(d) /\ fut[d] = "pending" /\ \E i \in DOMAIN pending : pending[i].call = d
    BY <1>8 DEF Orderly, Awaited, Expecting
  <2>2. PICK m \in DOMAIN pending : pending[m].call = d
    BY <2>1
  <2>3. pending[m].key = key[d] /\ Matches(key[d], e)
    BY <1>0, <2>2, ConfusableFacts DEF EntriesHaveOwners
  <2>4. ASSUME NEW i \in DOMAIN pending, Matches(pending[i].key, e)
        PROVE  i = m
    <3> DEFINE w == pending[i].call
    <3>1. w \in Calls /\ InProgress(w) /\ pending[i].key = key[w]
      BY <1>0 DEF EntriesHaveOwners
    <3>2. Confusable(key[d], key[w])
      BY <2>4, <3>1 DEF Confusable
    <3>3. w = d
      BY <1>8, <2>1, <3>1, <3>2 DEF Orderly, Apart
    <3> QED
      BY <2>2, <2>3, <3>1, <3>3 DEF EntriesHaveOwners
  <2>5. \A i \in DOMAIN pending : pending[i].key = e => i = m
    BY <2>4 DEF Matches
  <2>6. \A i \in DOMAIN pending : Located(i, e) => i = m
    BY <2>4, <2>5 DEF Located
  <2>7. Located(m, e)
    <3>1. CASE pending[m].key = e
      BY <3>1 DEF Located
    <3>2. CASE pending[m].key # e
      <4>1. \A j \in DOMAIN pending : pending[j].key # e
        BY <2>5, <3>2
      <4>2. \A j \in 1 .. (m - 1) : j \in DOMAIN pending /\ j # m
        BY LenProperties DEF TypeOK
      <4> QED
        BY <2>3, <2>4, <4>1, <4>2 DEF Located
    <3> QED
      BY <3>1, <3>2
  <2> QED
    BY <2>1, <2>2, <2>6, <2>7
<1>9. ASSUME NEW d \in Calls, NEW e \in Echoes[key[d]], Deliver(d, e) PROVE Orderly'
  <2>1. /\ receiver = "running" /\ d \in outstanding /\ outstanding' = outstanding \ {d}
        /\ UNCHANGED <<phase, key, outcome, pending, orphans, crossed, teardown, receiver>>
    BY <1>9 DEF Deliver
  <2>2. (Undisturbed' <=> Undisturbed) /\ (Apart' <=> Apart)
    BY <2>1 DEF Undisturbed, Apart, InProgress
  <2>3. ASSUME Undisturbed
        PROVE  /\ fut' = [fut EXCEPT ![d] = "result"]
               /\ got' = [got EXCEPT ![d] = d]
    BY <1>8, <1>9, <2>1, <2>3 DEF Deliver
  <2>4. ASSUME Undisturbed PROVE Awaited'
    <3> SUFFICES ASSUME NEW a \in Calls, Expecting(a)'
                 PROVE  /\ InProgress(a)'
                        /\ fut'[a] = "pending"
                        /\ \E i \in DOMAIN pending' : pending'[i].call = a
      BY DEF Awaited
    <3>1. Expecting(a) /\ a # d
      BY <2>1 DEF Expecting, Custody, Unsent
    <3> QED
      BY <2>1, <2>3, <2>4, <3>1 DEF Orderly, Awaited, InProgress, TypeOK
  <2>5. Undisturbed => \A c \in Calls : got'[c] \in {c, NoReply}
    BY <2>3 DEF Orderly, TypeOK
  <2> QED
    BY <2>1, <2>2, <2>4, <2>5 DEF Orderly
<1>10. ASSUME NEW d \in Calls, NEW e \in Echoes[key[d]], Buffer(d, e) PROVE Orderly'
  <2>1. /\ receiver = "running" /\ d \in outstanding
        /\ UNCHANGED <<phase, key, fut, got, outcome, pending, crossed, teardown, receiver>>
        /\ \A i \in DOMAIN pending : Located(i, e) => fut[pending[i].call] # "pending"
    BY <1>10 DEF Buffer
  <2>2. ~ Undisturbed
    BY <1>8, <2>1
  <2>3. ~ Undisturbed'
    BY <2>1, <2>2 DEF Undisturbed
  <2> QED
    BY <1>c, <2>1, <2>3
<1>11. ASSUME NEW d \in Calls, DropUnreadable(d) PROVE Orderly'
  BY <1>11, <1>a DEF DropUnreadable, Undisturbed, InProgress, Expecting
<1>12. CASE PeerCloses
  BY <1>12, <1>a DEF PeerCloses, clientVars, Undisturbed, InProgress, Expecting
<1>13. CASE ReceiverEnds
  BY <1>13, <1>b DEF ReceiverEnds
<1>14. CASE ReceiverFails
  BY <1>14, <1>b DEF ReceiverFails
<1>15. CASE TeardownStarts
  BY <1>15, <1>b DEF TeardownStarts, clientVars
<1>16. CASE TeardownEnds
  <2>1. receiver # "running"
    BY <1>16 DEF TeardownEnds, Orderly
  <2> QED
    BY <1>16, <1>b, <2>1 DEF TeardownEnds
<1>17. CASE UNCHANGED vars
  BY <1>17, <1>a DEF vars, clientVars, Undisturbed, InProgress, Expecting
<1> QED
  BY <1>1, <1>2, <1>3, <1>4, <1>5, <1>6, <1>7, <1>9, <1>10, <1>11, <1>12, <1>13,
     <1>14, <1>15, <1>16, <1>17 DEF Next, Call, Answer

(***************************************************************************)
(* Correlation by path keeps its promise for any number of calls on any    *)
(* paths that cannot be confused: as long as no two confusable calls are   *)
(* in progress together and none has failed or timed out, every response a *)
(* call was given is its own, and none is left over in the buffer.         *)
(***************************************************************************)
THEOREM OwnAnswers == Spec => []UndisturbedGetOwnAnswer
<1>1. Orderly => UndisturbedGetOwnAnswer
  BY DEF Orderly, UndisturbedGetOwnAnswer
<1> QED
  BY <1>1, OrderlyInit, OrderlyStep, StructureInvariant, CustodyInvariant, PTL DEF Spec

-------------------------------------------------------------------------------
(***************************************************************************)
(* What is buffered is an echo of the request it answers.                  *)
(***************************************************************************)
Filed == /\ UnrelatedNeverCollide
         /\ \A i \in DOMAIN orphans : orphans[i].echo \in Echoes[key[orphans[i].of]]

(***************************************************************************)
(* A response never reaches a call whose path it does not match at a slash *)
(* boundary, not even through the buffer and after timeouts.               *)
(***************************************************************************)
THEOREM NoCollision == Spec => []UnrelatedNeverCollide
<1>1. Init => Filed
  BY NoReplyAssumption, EmptySeq DEF Init, Filed, UnrelatedNeverCollide
<1>2. Structure /\ Custody /\ Filed /\ [Next]_vars => Filed'
  <2> SUFFICES ASSUME TypeOK, EntriesHaveOwners, Custody, Filed, [Next]_vars PROVE Filed'
    BY DEF Structure
  <2> USE DEF linkVars
  <2>a. ASSUME UNCHANGED <<key, got, orphans>> PROVE Filed'
    BY <2>a DEF Filed, UnrelatedNeverCollide
  <2>b. ASSUME NEW w \in Calls, NEW d \in Calls, NEW e \in Echoes[key[d]],
               Matches(key[w], e), key' = key, got' = [got EXCEPT ![w] = d]
        PROVE  UnrelatedNeverCollide'
    BY <2>b DEF Filed, UnrelatedNeverCollide, TypeOK
  <2>1. ASSUME NEW c \in Calls, Call(c) PROVE Filed'
    <3>1. ASSUME NEW i \in DOMAIN orphans, FirstOrphan(i, key[c]), key' = key,
                 got' = [got EXCEPT ![c] = orphans[i].of], orphans' = RemoveAt(orphans, i)
          PROVE  Filed'
      <4>1. orphans[i] \in Orphan
        BY ElementOfSeq, LenProperties DEF TypeOK
      <4>2. /\ orphans[i].of \in Calls /\ orphans[i].echo \in Echoes[key[orphans[i].of]]
            /\ Matches(key[c], orphans[i].echo)
        BY <3>1, <4>1 DEF Orphan, Filed, FirstOrphan
      <4>3. \A a \in DOMAIN orphans' : \E b \in DOMAIN orphans : orphans'[a] = orphans[b]
        BY <3>1, TakeOrphan DEF TypeOK, Custody, AnsweredOnce
      <4> QED
        BY <2>b, <3>1, <4>2, <4>3 DEF Filed
    <3> QED
      BY <2>1, <2>a, <3>1
      DEF Call, Begin, Refuse, Transmit, SendFails, Cancel, Await, Expire, Return
  <2>2. ASSUME NEW d \in Calls, NEW e \in Echoes[key[d]], Deliver(d, e) PROVE Filed'
    <3>1. PICK i \in DOMAIN pending : /\ Located(i, e)
                                      /\ got' = [got EXCEPT ![pending[i].call] = d]
      BY <2>2 DEF Deliver
    <3>2. pending[i].call \in Calls /\ key' = key /\ orphans' = orphans
      BY <2>2, EntryType DEF Deliver
    <3>3. Matches(pending[i].key, e)
      BY <3>1 DEF Located, Matches
    <3>4. pending[i].key = key[pending[i].call]
      BY DEF EntriesHaveOwners
    <3> QED
      BY <2>b, <3>1, <3>2, <3>3, <3>4 DEF Filed
  <2>3. ASSUME NEW d \in Calls, NEW e \in Echoes[key[d]], Buffer(d, e) PROVE Filed'
    <3>1. key' = key /\ got' = got
      BY <2>3 DEF Buffer
    <3>2. CASE orphans' = Append(orphans, [echo |-> e, of |-> d])
      <4>1. [echo |-> e, of |-> d] \in Orphan /\ orphans \in Seq(Orphan)
        BY DEF Orphan, TypeOK
      <4>2. /\ Len(orphans) \in Nat /\ DOMAIN orphans = 1 .. Len(orphans)
            /\ DOMAIN orphans' = 1 .. (Len(orphans) + 1)
            /\ orphans'[Len(orphans) + 1] = [echo |-> e, of |-> d]
            /\ \A i \in 1 .. Len(orphans) : orphans'[i] = orphans[i]
        BY <3>2, <4>1, AppendProperties, LenProperties
      <4> QED
        BY <3>1, <4>2 DEF Filed, UnrelatedNeverCollide
    <3> QED
      BY <2>3, <2>a, <3>1, <3>2 DEF Buffer
  <2>4. ASSUME NEW d \in Calls, DropUnreadable(d) PROVE Filed'
    BY <2>4, <2>a DEF DropUnreadable
  <2>5. CASE PeerCloses \/ ReceiverEnds \/ ReceiverFails \/ TeardownStarts \/ TeardownEnds
    BY <2>5, <2>a DEF PeerCloses, ReceiverEnds, ReceiverFails, TeardownStarts, TeardownEnds,
                      clientVars
  <2>6. CASE UNCHANGED vars
    BY <2>6, <2>a DEF vars, clientVars
  <2> QED
    BY <2>1, <2>2, <2>3, <2>4, <2>5, <2>6 DEF Next, Answer
<1>3. Filed => UnrelatedNeverCollide
  BY DEF Filed
<1> QED
  BY <1>1, <1>2, <1>3, StructureInvariant, CustodyInvariant, PTL DEF Spec
-------------------------------------------------------------------------------
(***************************************************************************)
(* Exchange implements RequestReply: every step of the client is a step of *)
(* the abstract service, or changes nothing it can see. The lemmas come    *)
(* one per action.                                                         *)
(***************************************************************************)

(***************************************************************************)
(* A future has a result exactly when its call was handed a response.      *)
(***************************************************************************)
Handed == \A c \in Calls : got[c] # NoReply <=> fut[c] = "result"

LEMMA HandedInit == Init => Handed
BY DEF Init, Handed

LEMMA HandedStep == Structure /\ Custody /\ Handed /\ [Next]_vars => Handed'
<1> SUFFICES ASSUME TypeOK, Custody, Handed, [Next]_vars PROVE Handed'
  BY DEF Structure
<1> USE DEF linkVars
<1>a. ASSUME Abort, got' = got PROVE Handed'
  BY <1>a DEF Abort, Handed
<1>1. ASSUME NEW c \in Calls, Call(c) PROVE Handed'
  <2>1. CASE Begin(c)
    <3>1. got[c] = NoReply
      BY <2>1 DEF Begin, Custody, Handed
    <3>2. CASE \E i \in DOMAIN orphans : /\ fut' = [fut EXCEPT ![c] = "result"]
                                         /\ got' = [got EXCEPT ![c] = orphans[i].of]
      <4>1. PICK i \in DOMAIN orphans : /\ fut' = [fut EXCEPT ![c] = "result"]
                                        /\ got' = [got EXCEPT ![c] = orphans[i].of]
        BY <3>2
      <4>2. orphans[i] \in Orphan
        BY ElementOfSeq, LenProperties DEF TypeOK
      <4>3. orphans[i].of # NoReply
        BY <4>2, NoReplyAssumption DEF Orphan
      <4> QED
        BY <4>1, <4>3 DEF Handed, TypeOK
    <3>3. CASE fut' = [fut EXCEPT ![c] = "pending"] /\ got' = got
      BY <3>1, <3>3 DEF Handed, TypeOK
    <3> QED
      BY <2>1, <3>2, <3>3 DEF Begin
  <2>2. CASE Expire(c)
    BY <2>2 DEF Expire, Handed, TypeOK
  <2> QED
    BY <1>1, <2>1, <2>2 DEF Call, Refuse, Transmit, SendFails, Cancel, Await, Return, Handed
<1>2. ASSUME NEW d \in Calls, Answer(d) PROVE Handed'
  <2>1. ASSUME NEW e \in Echoes[key[d]], Deliver(d, e) PROVE Handed'
    <3>1. PICK i \in DOMAIN pending : /\ fut' = [fut EXCEPT ![pending[i].call] = "result"]
                                      /\ got' = [got EXCEPT ![pending[i].call] = d]
      BY <2>1 DEF Deliver
    <3> QED
      BY <3>1, NoReplyAssumption DEF Handed, TypeOK
  <2> QED
    BY <1>2, <2>1 DEF Answer, Buffer, DropUnreadable, Handed
<1> QED
  BY <1>1, <1>2, <1>a DEF Next, PeerCloses, ReceiverEnds, ReceiverFails, TeardownStarts,
                          TeardownEnds, vars, clientVars, Handed

LEMMA HandedInvariant == Spec => []Handed
BY StructureInvariant, CustodyInvariant, HandedInit, HandedStep, PTL DEF Spec

-------------------------------------------------------------------------------
(***************************************************************************)
(* The abstract state, named, so that the provers need not see through the *)
(* instance.                                                               *)
(***************************************************************************)
StatusOf == [c \in Calls |-> Status(c)]
PlaceOf == [d \in Calls |-> Place(d)]

LEMMA RefinesInit == Init => Replies!Init
<1> SUFFICES ASSUME Init PROVE Replies!Init
  OBVIOUS
<1>1. DOMAIN orphans = {}
  BY DEF Init
<1> QED
  BY <1>1, NoReplyAssumption DEF Init, Replies!Init, Status, Place, Buffered, Used

(***************************************************************************)
(* The status changes for the call whose phase changes.                    *)
(***************************************************************************)
LEMMA StatusChange ==
  ASSUME TypeOK, NEW c \in Calls, NEW p, phase' = [phase EXCEPT ![c] = p]
  PROVE  StatusOf' = [StatusOf EXCEPT ![c] = Status(c)']
BY DEF StatusOf, Status, TypeOK

(***************************************************************************)
(* No response moves unless one of three variables changes.                *)
(***************************************************************************)
LEMMA PlacesStay ==
  ASSUME UNCHANGED <<got, orphans, outstanding>>
  PROVE  PlaceOf' = PlaceOf
BY DEF PlaceOf, Place, Buffered, Used

LEMMA RefinesStep ==
  Structure /\ Custody /\ Handed /\ [Next]_vars => [Replies!Next]_(Replies!vars)
<1> SUFFICES ASSUME TypeOK, EntriesHaveOwners, Custody, Handed, [Next]_vars
             PROVE  [Replies!Next]_(Replies!vars)
  BY DEF Structure
<1> USE DEF linkVars
<1>a. ASSUME StatusOf' = StatusOf, PlaceOf' = PlaceOf, got' = got, outcome' = outcome
      PROVE  UNCHANGED Replies!vars
  BY <1>a DEF Replies!vars, StatusOf, PlaceOf
<1>b. ASSUME UNCHANGED <<phase, got, outcome, orphans, outstanding>>
      PROVE  UNCHANGED Replies!vars
  BY <1>a, <1>b, PlacesStay DEF StatusOf, Status
<1>1. ASSUME NEW c \in Calls, Refuse(c) PROVE Replies!Refuse(c)
  <2>1. StatusOf' = [StatusOf EXCEPT ![c] = "done"] /\ StatusOf[c] = "idle"
    BY <1>1, StatusChange DEF Refuse, Status, StatusOf, TypeOK
  <2>2. PlaceOf' = PlaceOf
    BY <1>1, PlacesStay DEF Refuse
  <2> QED
    BY <1>1, <2>1, <2>2 DEF Refuse, Replies!Refuse, StatusOf, PlaceOf
<1>2. ASSUME NEW c \in Calls, Begin(c) PROVE Replies!Start(c)
  <2>1. StatusOf' = [StatusOf EXCEPT ![c] = "asking"] /\ StatusOf[c] = "idle"
    BY <1>2, StatusChange DEF Begin, Status, StatusOf, TypeOK
  <2>2. outcome' = outcome /\ outstanding' = outstanding /\ got[c] = NoReply
    BY <1>2 DEF Begin, Custody, Handed
  <2>3. CASE UNCHANGED <<got, orphans>>
    <3>1. PlaceOf' = PlaceOf
      BY <2>2, <2>3, PlacesStay
    <3> QED
      BY <2>1, <2>2, <2>3, <3>1 DEF Replies!Start, StatusOf, PlaceOf
  <2>4. CASE \E i \in DOMAIN orphans : /\ got' = [got EXCEPT ![c] = orphans[i].of]
                                       /\ orphans' = RemoveAt(orphans, i)
    <3>1. PICK i \in DOMAIN orphans : /\ got' = [got EXCEPT ![c] = orphans[i].of]
                                      /\ orphans' = RemoveAt(orphans, i)
      BY <2>4
    <3> DEFINE o == orphans[i].of
    <3>2. o \in Calls
      <4>1. orphans[i] \in Orphan
        BY ElementOfSeq, LenProperties DEF TypeOK
      <4> QED
        BY <4>1 DEF Orphan
    <3>3. Buffered(o) /\ o \notin outstanding
      BY <3>2 DEF Custody, AnsweredOnce, Buffered
    <3>4. \A d \in Calls : Buffered(d)' <=> Buffered(d) /\ d # o
      <4>1. /\ \A a \in DOMAIN orphans' : /\ \E b \in DOMAIN orphans : orphans'[a] = orphans[b]
                                          /\ orphans'[a].of # o
            /\ \A b \in DOMAIN orphans : b # i => \E a \in DOMAIN orphans' : orphans'[a] = orphans[b]
        BY <3>1, TakeOrphan DEF TypeOK, Custody, AnsweredOnce
      <4> QED
        BY <4>1 DEF Buffered
    <3>5. \A d \in Calls : Used(d)' <=> Used(d) \/ d = o
      <4>1. \A d \in Calls : got'[d] = IF d = c THEN o ELSE got[d]
        BY <3>1 DEF TypeOK
      <4> QED
        BY <2>2, <4>1, NoReplyAssumption DEF Used
    <3> HIDE DEF o
    <3>6. PlaceOf[o] = "kept" /\ PlaceOf' = [PlaceOf EXCEPT ![o] = "used"]
      BY <2>2, <3>2, <3>3, <3>4, <3>5 DEF PlaceOf, Place
    <3>7. got' = [got EXCEPT ![c] = o]
      BY <3>1 DEF o
    <3> QED
      BY <2>1, <2>2, <3>2, <3>6, <3>7 DEF Replies!Start, Replies!Hand, StatusOf, PlaceOf
  <2> QED
    BY <1>2, <2>3, <2>4 DEF Begin
<1>3. ASSUME NEW c \in Calls, Transmit(c) PROVE Replies!Send(c)
  <2>1. StatusOf' = [StatusOf EXCEPT ![c] = "asked"] /\ StatusOf[c] = "asking"
    BY <1>3, StatusChange DEF Transmit, Status, StatusOf, TypeOK
  <2>2. /\ outstanding' = outstanding \union {c} /\ UNCHANGED <<got, orphans, outcome>>
        /\ c \notin outstanding /\ ~ Buffered(c) /\ ~ Used(c)
    BY <1>3 DEF Transmit, Custody, Unsent
  <2>3. PlaceOf[c] = "absent" /\ PlaceOf' = [PlaceOf EXCEPT ![c] = "owed"]
    BY <2>2 DEF PlaceOf, Place, Buffered, Used
  <2> QED
    BY <2>1, <2>2, <2>3 DEF Replies!Send, StatusOf, PlaceOf
<1>4. ASSUME NEW c \in Calls, SendFails(c) \/ Cancel(c) \/ Return(c) PROVE Replies!End(c)
  <2>1. /\ StatusOf' = [StatusOf EXCEPT ![c] = "done"]
        /\ StatusOf[c] \in {"asking", "asked"}
    BY <1>4, StatusChange DEF SendFails, Cancel, Return, Status, StatusOf, TypeOK
  <2>2. PlaceOf' = PlaceOf /\ got' = got
    BY <1>4, PlacesStay DEF SendFails, Cancel, Return
  <2>3. \/ outcome' = [outcome EXCEPT ![c] = "failed"]
        \/ outcome' = [outcome EXCEPT ![c] = "abandoned"]
        \/ got[c] # NoReply /\ outcome' = [outcome EXCEPT ![c] = "response"]
    BY <1>4 DEF SendFails, Cancel, Return, Handed
  <2> QED
    BY <2>1, <2>2, <2>3 DEF Replies!End, StatusOf, PlaceOf
<1>5. ASSUME NEW c \in Calls, Await(c) \/ Expire(c) PROVE UNCHANGED Replies!vars
  <2>1. StatusOf' = StatusOf
    BY <1>5 DEF Await, Expire, Status, StatusOf, TypeOK
  <2>2. PlaceOf' = PlaceOf /\ got' = got /\ outcome' = outcome
    BY <1>5, PlacesStay DEF Await, Expire
  <2> QED
    BY <1>a, <2>1, <2>2
<1>6. ASSUME NEW d \in Calls, NEW e \in Echoes[key[d]], Deliver(d, e) PROVE Replies!Arrive(d)
  <2>1. /\ d \in outstanding /\ outstanding' = outstanding \ {d}
        /\ UNCHANGED <<phase, orphans, outcome>>
    BY <1>6 DEF Deliver
  <2>2. PICK i \in DOMAIN pending : /\ fut[pending[i].call] = "pending"
                                    /\ got' = [got EXCEPT ![pending[i].call] = d]
    BY <1>6 DEF Deliver
  <2> DEFINE w == pending[i].call
  <2>3. w \in Calls /\ got[w] = NoReply /\ StatusOf[w] \in {"asking", "asked"}
    BY <2>2, EntryType DEF Handed, EntriesHaveOwners, InProgress, Status, StatusOf
  <2> HIDE DEF w
  <2>4. got' = [got EXCEPT ![w] = d]
    BY <2>2 DEF w
  <2>5. \A a \in Calls : Used(a)' <=> Used(a) \/ a = d
    <3>1. \A a \in Calls : got'[a] = IF a = w THEN d ELSE got[a]
      BY <2>3, <2>4 DEF TypeOK
    <3> QED
      BY <2>3, <3>1, NoReplyAssumption DEF Used
  <2>6. ~ Buffered(d) /\ \A a \in Calls : Buffered(a)' <=> Buffered(a)
    BY <2>1 DEF Custody, AnsweredOnce, Buffered
  <2>7. PlaceOf[d] = "owed" /\ PlaceOf' = [PlaceOf EXCEPT ![d] = "used"]
    BY <2>1, <2>5, <2>6 DEF PlaceOf, Place
  <2>8. StatusOf' = StatusOf
    BY <2>1 DEF StatusOf, Status
  <2> QED
    BY <2>1, <2>3, <2>4, <2>7, <2>8 DEF Replies!Arrive, Replies!Hand, StatusOf, PlaceOf
<1>7. ASSUME NEW d \in Calls, d \in outstanding, outstanding' = outstanding \ {d},
             UNCHANGED <<phase, got, outcome>>,
             \A a \in Calls \ {d} : Buffered(a)' <=> Buffered(a)
      PROVE  Replies!Arrive(d)
  <2>1. ~ Used(d) /\ \A a \in Calls : Used(a)' <=> Used(a)
    BY <1>7 DEF Custody, AnsweredOnce, Used
  <2>2. PlaceOf[d] = "owed" /\ StatusOf' = StatusOf
    BY <1>7 DEF PlaceOf, Place, StatusOf, Status
  <2>3. \E place \in {"kept", "absent"} : PlaceOf' = [PlaceOf EXCEPT ![d] = place]
    BY <1>7, <2>1 DEF PlaceOf, Place
  <2> QED
    BY <1>7, <2>2, <2>3 DEF Replies!Arrive, StatusOf, PlaceOf
<1>8. ASSUME NEW d \in Calls, NEW e \in Echoes[key[d]], Buffer(d, e) PROVE Replies!Arrive(d)
  <2>1. CASE orphans' = orphans
    BY <1>7, <1>8, <2>1 DEF Buffer, Buffered
  <2>2. CASE orphans' = Append(orphans, [echo |-> e, of |-> d])
    <3>1. [echo |-> e, of |-> d] \in Orphan /\ orphans \in Seq(Orphan)
      BY DEF Orphan, TypeOK
    <3>2. /\ Len(orphans) \in Nat /\ DOMAIN orphans = 1 .. Len(orphans)
          /\ DOMAIN orphans' = 1 .. (Len(orphans) + 1)
          /\ orphans'[Len(orphans) + 1] = [echo |-> e, of |-> d]
          /\ \A i \in 1 .. Len(orphans) : orphans'[i] = orphans[i]
      BY <2>2, <3>1, AppendProperties, LenProperties
    <3>3. \A a \in Calls \ {d} : Buffered(a)' <=> Buffered(a)
      BY <3>2 DEF Buffered
    <3> QED
      BY <1>7, <1>8, <3>3 DEF Buffer
  <2> QED
    BY <1>8, <2>1, <2>2 DEF Buffer
<1>9. ASSUME NEW d \in Calls, DropUnreadable(d) PROVE Replies!Arrive(d)
  BY <1>7, <1>9 DEF DropUnreadable, Buffered
<1>10. CASE \/ PeerCloses \/ ReceiverEnds \/ ReceiverFails
            \/ TeardownStarts \/ TeardownEnds \/ UNCHANGED vars
  BY <1>b, <1>10 DEF PeerCloses, ReceiverEnds, ReceiverFails, TeardownStarts, TeardownEnds,
                     vars, clientVars
<1> QED
  BY <1>1, <1>2, <1>3, <1>4, <1>5, <1>6, <1>8, <1>9, <1>10
  DEF Next, Call, Answer, Replies!Next

(***************************************************************************)
(* Whatever is cancelled, lost, late, buffered or torn down, the client is *)
(* a service that hands each reply out at most once, and a call that       *)
(* returns a response has been handed one.                                 *)
(***************************************************************************)
THEOREM ClientRefinesRequestReply == Spec => ImplementsRequestReply
BY RefinesInit, RefinesStep, StructureInvariant, CustodyInvariant, HandedInvariant, PTL
DEF Spec, ImplementsRequestReply, Replies!Spec
===============================================================================
