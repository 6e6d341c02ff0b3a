-------------------------- MODULE References_proofs --------------------------
(***************************************************************************)
(* What is proved of host references, from the bottom: the slot table, ids *)
(* in the hands of any holders (RefIds), and references between host and   *)
(* guest (References), for any objects, holders, handles, slots,           *)
(* generations, counts and lengths of a transfer.                          *)
(***************************************************************************)
EXTENDS RefIds, References, FiniteSetTheorems, SequenceTheorems, TLAPS

(***************************************************************************)
(* The table: what each operation preserves.  The lemmas mention the table *)
(* only, so that both of the others can cite them.                         *)
(***************************************************************************)

TableInv == TableType /\ TableConsistent

\* The empty table is consistent.
LEMMA TableInvInit == TableInit => TableInv
  BY TableAssumption DEF TableInit, TableInv, TableType, TableConsistent, FreeListed

\* What leaves the table alone keeps it consistent.
LEMMA UnchangedTableInv == TableInv /\ UNCHANGED table => TableInv'
  BY DEF table, TableInv, TableType, TableConsistent, FreeListed

\* A current id is the id of a slot.
LEMMA SlotForIsSlot ==
  ASSUME TableType, NEW id \in Id, SlotFor(id)
  PROVE  /\ id.index \in DOMAIN slots
         /\ id.index \in Index
         /\ slots[id.index] \in Slot
  BY DEF SlotFor, TableType, Id, Index

\* A generation is followed by a generation, never by 0.
LEMMA NextGenerationType ==
  ASSUME NEW gen \in Gen PROVE NextGeneration(gen) \in Gen
  BY TableAssumption DEF Gen, NextGeneration

\* What the parts of a consistent table say of one another.
LEMMA SlotFacts ==
  ASSUME TableType, NEW i \in DOMAIN slots
  PROVE  /\ i \in Index /\ i \in 1 .. Len(slots) /\ Len(slots) \in Nat
         /\ slots[i] \in Slot
         /\ slots[i].addr \in Objs \cup {NoObj}
         /\ slots[i].gen \in Gen
         /\ slots[i].count \in 0 .. MaxCount
<1>1. i \in 1 .. Len(slots) /\ Len(slots) \in Nat /\ slots[i] \in Slot
  BY DEF TableType
<1>2. i \in Index
  BY <1>1, TableAssumption DEF TableType, Index
<1> QED BY <1>1, <1>2 DEF Slot

\* Replacing one slot by another keeps the sequence a sequence of slots.
LEMMA ReplaceSlot ==
  ASSUME TableType, NEW i \in DOMAIN slots, NEW s \in Slot,
         slots' = [slots EXCEPT ![i] = s]
  PROVE  /\ slots' \in Seq(Slot) /\ Len(slots') = Len(slots) /\ DOMAIN slots' = DOMAIN slots
         /\ slots'[i] = s
         /\ \A j \in DOMAIN slots \ {i} : slots'[j] = slots[j]
  BY DEF TableType

\* Changing the count of a slot in use, but not to 0, keeps the table consistent.
LEMMA CountPreservesTable ==
  ASSUME TableInv, NEW i \in DOMAIN slots, NEW n \in 1 .. MaxCount,
         slots[i].count > 0,
         slots' = [slots EXCEPT ![i].count = n], UNCHANGED <<byAddr, free>>
  PROVE  TableInv'
<1> DEFINE s == [slots[i] EXCEPT !.count = n]
<1>0. s \in Slot /\ s.addr = slots[i].addr /\ s.count = n
  BY SlotFacts DEF TableInv, Slot
<1>a. slots' = [slots EXCEPT ![i] = s]
  OBVIOUS
<1>1. /\ slots' \in Seq(Slot) /\ Len(slots') = Len(slots) /\ DOMAIN slots' = DOMAIN slots
      /\ slots'[i] = s
      /\ \A j \in DOMAIN slots \ {i} : slots'[j] = slots[j]
  <2> HIDE DEF s
  <2> QED BY <1>0, <1>a, ReplaceSlot DEF TableInv
<1>2. \A j \in DOMAIN slots : /\ slots'[j].addr = slots[j].addr
                             /\ slots'[j].count = IF j = i THEN n ELSE slots[j].count
  BY <1>0, <1>1
<1>3. TableType'
  BY <1>1 DEF TableInv, TableType
<1>4. TableConsistent'
  BY <1>1, <1>2 DEF TableInv, TableType, TableConsistent, FreeListed, Slot
<1> QED BY <1>3, <1>4 DEF TableInv

\* A slot in use can be vacated: it leaves the index and joins the free list.
LEMMA VacatePreservesTable ==
  ASSUME TableInv, NEW i \in DOMAIN slots, slots[i].count > 0, Vacate(i)
  PROVE  TableInv'
<1> DEFINE s == [addr |-> NoObj, gen |-> NextGeneration(slots[i].gen), count |-> 0]
<1>0. /\ i \in Index /\ slots[i].gen \in Gen
  BY SlotFacts DEF TableInv
<1>a. /\ slots[i].addr \in Objs /\ byAddr[slots[i].addr] = i
      /\ i \notin FreeListed
  BY DEF TableInv, TableConsistent
<1>1. s \in Slot /\ s.addr = NoObj /\ s.count = 0
  BY <1>0, NextGenerationType, TableAssumption DEF Slot
<1>b. slots' = [slots EXCEPT ![i] = s]
  BY DEF Vacate
<1>2. /\ slots' \in Seq(Slot) /\ Len(slots') = Len(slots) /\ DOMAIN slots' = DOMAIN slots
      /\ slots'[i].count = 0 /\ slots'[i].addr = NoObj
      /\ \A j \in DOMAIN slots \ {i} : slots'[j] = slots[j]
  <2> HIDE DEF s
  <2> QED BY <1>1, <1>b, ReplaceSlot DEF TableInv
<1>3. /\ free' \in Seq(Index) /\ Len(free') = Len(free) + 1
      /\ free'[Len(free) + 1] = i
      /\ \A k \in 1 .. Len(free) : free'[k] = free[k]
  BY <1>0 DEF TableInv, TableType, Vacate
<1>4. FreeListed' = FreeListed \cup {i}
  <2>1. DOMAIN free = 1 .. Len(free) /\ DOMAIN free' = 1 .. Len(free) + 1 /\ Len(free) \in Nat
    BY <1>3 DEF TableInv, TableType
  <2>2. ASSUME NEW x \in FreeListed' PROVE x \in FreeListed \cup {i}
    <3>1. PICK k \in 1 .. Len(free) + 1 : x = free'[k]
      BY <2>1 DEF FreeListed
    <3>2. CASE k \in 1 .. Len(free)
      BY <2>1, <3>1, <3>2, <1>3 DEF FreeListed
    <3>3. CASE k = Len(free) + 1
      BY <3>1, <3>3, <1>3
    <3> QED BY <2>1, <3>2, <3>3
  <2>3. ASSUME NEW x \in FreeListed PROVE x \in FreeListed'
    <3>1. PICK k \in 1 .. Len(free) : x = free[k]
      BY <2>1 DEF FreeListed
    <3> QED BY <2>1, <3>1, <1>3 DEF FreeListed
  <2>4. i \in FreeListed'
    BY <2>1, <1>3 DEF FreeListed
  <2> QED BY <2>2, <2>3, <2>4
<1>5. byAddr' \in [Objs -> 0 .. MaxSlots]
  BY <1>a, TableAssumption DEF TableInv, TableType, Vacate
<1>6. TableType'
  BY <1>2, <1>3, <1>5 DEF TableInv, TableType
<1>7. FreeListed' = {j \in DOMAIN slots' : slots'[j].count = 0}
  BY <1>a, <1>2, <1>4 DEF TableInv, TableConsistent
<1>8. \A j, k \in DOMAIN free' : free'[j] = free'[k] => j = k
  <2>1. /\ Len(free) \in Nat /\ DOMAIN free = 1 .. Len(free)
        /\ DOMAIN free' = 1 .. Len(free) \cup {Len(free) + 1}
    BY <1>3 DEF TableInv, TableType
  <2>2. \A k \in 1 .. Len(free) : free'[k] = free[k] /\ free[k] # i
    BY <1>a, <1>3, <2>1 DEF FreeListed
  <2>3. \A j, k \in 1 .. Len(free) : free[j] = free[k] => j = k
    BY <2>1 DEF TableInv, TableConsistent
  <2> QED BY <1>3, <2>1, <2>2, <2>3
<1>9. \A j \in DOMAIN slots' :
        slots'[j].count > 0 => slots'[j].addr \in Objs /\ byAddr'[slots'[j].addr] = j
  <2> SUFFICES ASSUME NEW j \in DOMAIN slots', slots'[j].count > 0
               PROVE  slots'[j].addr \in Objs /\ byAddr'[slots'[j].addr] = j
    OBVIOUS
  <2>1. j \in DOMAIN slots /\ j # i /\ slots'[j] = slots[j]
    BY <1>2
  <2>2. slots[j].addr \in Objs /\ byAddr[slots[j].addr] = j
    BY <2>1 DEF TableInv, TableConsistent
  <2>3. slots[j].addr # slots[i].addr
    BY <1>a, <2>1, <2>2
  <2>4. byAddr' = [byAddr EXCEPT ![slots[i].addr] = 0]
    BY DEF Vacate
  <2> QED BY <1>a, <2>1, <2>2, <2>3, <2>4 DEF TableInv, TableType
<1>10. \A o \in Objs : byAddr'[o] # 0 =>
         byAddr'[o] \in DOMAIN slots' /\ slots'[byAddr'[o]].addr = o /\ slots'[byAddr'[o]].count > 0
  BY <1>0, <1>a, <1>2 DEF TableInv, TableType, TableConsistent, Vacate
<1> QED BY <1>6, <1>7, <1>8, <1>9, <1>10 DEF TableInv, TableConsistent

\* Acquire, of an object that has a slot.
LEMMA AcquireKnownPreservesTable ==
  ASSUME TableInv, NEW obj \in Objs, AcquireKnown(obj)
  PROVE  TableInv'
<1> DEFINE i == byAddr[obj]
<1>1. i \in DOMAIN slots /\ slots[i].count > 0
  BY DEF AcquireKnown, TableInv, TableConsistent
<1>2. slots[i].count + 1 \in 1 .. MaxCount
  BY <1>1, SlotFacts, TableAssumption DEF AcquireKnown, TableInv
<1>3. slots' = [slots EXCEPT ![i].count = slots[i].count + 1]
  BY <1>1 DEF AcquireKnown
<1> HIDE DEF i
<1> QED BY <1>1, <1>2, <1>3, CountPreservesTable DEF AcquireKnown

\* Acquire, into the slot vacated last.
LEMMA AcquireReusedPreservesTable ==
  ASSUME TableInv, NEW obj \in Objs, AcquireReused(obj)
  PROVE  TableInv'
<1> DEFINE n == Len(free)
           i == free[n]
           s == [addr |-> obj, gen |-> slots[i].gen, count |-> 1]
<1>1. /\ n \in Nat \ {0} /\ DOMAIN free = 1 .. n
      /\ \A k \in 1 .. n : free[k] \in Index
  BY DEF AcquireReused, TableInv, TableType
<1>2. i \in FreeListed
  <2>1. n \in DOMAIN free
    BY <1>1
  <2> QED BY <2>1 DEF FreeListed
<1>3. i \in DOMAIN slots /\ slots[i].count = 0
  BY <1>2 DEF TableInv, TableConsistent
<1>4. s \in Slot /\ s.addr = obj /\ s.count = 1
  BY <1>3, SlotFacts, TableAssumption DEF TableInv, Slot
<1>5. slots' = [slots EXCEPT ![i] = s]
  BY DEF AcquireReused
<1>6. /\ slots' \in Seq(Slot) /\ Len(slots') = Len(slots) /\ DOMAIN slots' = DOMAIN slots
      /\ slots'[i] = s
      /\ \A j \in DOMAIN slots \ {i} : slots'[j] = slots[j]
  <2> HIDE DEF s, i
  <2> QED BY <1>3, <1>4, <1>5, ReplaceSlot DEF TableInv
<1>7. /\ free' \in Seq(Index) /\ Len(free') = n - 1 /\ DOMAIN free' = 1 .. n - 1
      /\ \A k \in 1 .. n - 1 : free'[k] = free[k]
  BY <1>1 DEF AcquireReused, TableInv, TableType
<1>8. byAddr' = [byAddr EXCEPT ![obj] = i] /\ byAddr[obj] = 0
  BY DEF AcquireReused
<1>9. i \in Index /\ i \in 0 .. MaxSlots /\ i # 0
  BY <1>1, TableAssumption DEF Index
<1> HIDE DEF s, i, n
<1>10. FreeListed' = FreeListed \ {i}
  <2>1. ASSUME NEW x \in FreeListed' PROVE x \in FreeListed /\ x # i
    <3>1. PICK k \in 1 .. n - 1 : x = free'[k]
      BY <1>7 DEF FreeListed
    <3>2. k \in 1 .. n /\ n \in 1 .. n /\ k # n /\ x = free[k]
      BY <3>1, <1>1, <1>7
    <3> QED BY <3>2, <1>1 DEF FreeListed, TableInv, TableConsistent, i
  <2>2. ASSUME NEW x \in FreeListed, x # i PROVE x \in FreeListed'
    <3>1. PICK k \in 1 .. n : x = free[k]
      BY <1>1 DEF FreeListed
    <3>2. k \in 1 .. n - 1
      BY <3>1, <2>2, <1>1 DEF i
    <3> QED BY <3>1, <3>2, <1>7 DEF FreeListed
  <2> QED BY <2>1, <2>2
<1>11. TableType'
  BY <1>6, <1>7, <1>8, <1>9 DEF TableInv, TableType
<1>12. FreeListed' = {j \in DOMAIN slots' : slots'[j].count = 0}
  <2>1. \A j \in DOMAIN slots : slots'[j].count = 0 <=> (slots[j].count = 0 /\ j # i)
    BY <1>4, <1>6
  <2> QED BY <2>1, <1>6, <1>10 DEF TableInv, TableConsistent
<1>13. \A j, k \in DOMAIN free' : free'[j] = free'[k] => j = k
  BY <1>1, <1>7 DEF TableInv, TableConsistent
<1>14. \A j \in DOMAIN slots' :
         slots'[j].count > 0 => slots'[j].addr \in Objs /\ byAddr'[slots'[j].addr] = j
  <2> SUFFICES ASSUME NEW j \in DOMAIN slots, slots'[j].count > 0
               PROVE  slots'[j].addr \in Objs /\ byAddr'[slots'[j].addr] = j
    BY <1>6
  <2>1. CASE j = i
    BY <2>1, <1>4, <1>6, <1>8 DEF TableInv, TableType
  <2>2. CASE j # i
    <3>1. slots'[j] = slots[j] /\ slots[j].addr \in Objs /\ byAddr[slots[j].addr] = j /\ j # 0
      BY <2>2, <1>6, SlotFacts DEF TableInv, TableConsistent
    <3> QED BY <3>1, <1>8 DEF TableInv, TableType
  <2> QED BY <2>1, <2>2
<1>15. \A o \in Objs : byAddr'[o] # 0 =>
         byAddr'[o] \in DOMAIN slots' /\ slots'[byAddr'[o]].addr = o /\ slots'[byAddr'[o]].count > 0
  BY <1>3, <1>4, <1>6, <1>8, <1>9 DEF TableInv, TableType, TableConsistent
<1> QED BY <1>11, <1>12, <1>13, <1>14, <1>15 DEF TableInv, TableConsistent

\* Acquire, into a new slot.
LEMMA AcquireNewPreservesTable ==
  ASSUME TableInv, NEW obj \in Objs, AcquireNew(obj)
  PROVE  TableInv'
<1> DEFINE n == Len(slots)
           s == [addr |-> obj, gen |-> 1, count |-> 1]
<1>1. n \in Nat /\ n + 1 \in Index /\ DOMAIN slots = 1 .. n /\ slots \in Seq(Slot)
  BY TableAssumption DEF AcquireNew, TableInv, TableType, Index
<1>2. s \in Slot /\ s.addr = obj /\ s.count = 1
  BY TableAssumption DEF Slot, Gen
<1>3. slots' = Append(slots, s)
  BY DEF AcquireNew
<1> HIDE DEF s
<1>4. /\ slots' \in Seq(Slot) /\ Len(slots') = n + 1 /\ DOMAIN slots' = 1 .. n + 1
      /\ slots'[n + 1] = s
      /\ \A j \in 1 .. n : slots'[j] = slots[j]
  BY <1>1, <1>2, <1>3
<1>5. byAddr' = [byAddr EXCEPT ![obj] = n + 1] /\ byAddr[obj] = 0 /\ free' = free /\ free = <<>>
  BY DEF AcquireNew
<1>6. FreeListed = {} /\ FreeListed' = {}
  BY <1>5 DEF FreeListed
<1> HIDE DEF n
<1>7. TableType'
  BY <1>1, <1>4, <1>5, TableAssumption DEF TableInv, TableType, Index
<1>8. FreeListed' = {j \in DOMAIN slots' : slots'[j].count = 0}
  BY <1>1, <1>2, <1>4, <1>6 DEF TableInv, TableConsistent
<1>9. \A j, k \in DOMAIN free' : free'[j] = free'[k] => j = k
  BY <1>5
<1>10. \A j \in DOMAIN slots' :
         slots'[j].count > 0 => slots'[j].addr \in Objs /\ byAddr'[slots'[j].addr] = j
  BY <1>1, <1>2, <1>4, <1>5 DEF TableInv, TableType, TableConsistent
<1>11. \A o \in Objs : byAddr'[o] # 0 =>
         byAddr'[o] \in DOMAIN slots' /\ slots'[byAddr'[o]].addr = o /\ slots'[byAddr'[o]].count > 0
  BY <1>1, <1>2, <1>4, <1>5 DEF TableInv, TableType, TableConsistent
<1> QED BY <1>7, <1>8, <1>9, <1>10, <1>11 DEF TableInv, TableConsistent

\* Acquire, Retain, drop and Free of host/refs.go keep the table consistent.
LEMMA AcquirePreservesTable ==
  ASSUME TableInv, NEW obj \in Objs, Acquire(obj)
  PROVE  TableInv'
  BY AcquireKnownPreservesTable, AcquireReusedPreservesTable, AcquireNewPreservesTable DEF Acquire

\* Retain counts one more.
LEMMA RetainPreservesTable ==
  ASSUME TableInv, NEW id \in Id, Retain(id)
  PROVE  TableInv'
<1> DEFINE i == id.index
<1>1. i \in DOMAIN slots /\ slots[i].count > 0
  BY DEF Retain, CanRetain, SlotFor
<1>2. slots[i].count + 1 \in 1 .. MaxCount
  BY <1>1, SlotFacts, TableAssumption DEF Retain, CanRetain, TableInv
<1>3. slots' = [slots EXCEPT ![i].count = slots[i].count + 1]
  BY <1>1 DEF Retain
<1> HIDE DEF i
<1> QED BY <1>1, <1>2, <1>3, CountPreservesTable DEF Retain

\* drop counts one less, and vacates the slot at the last one.
LEMMA DropPreservesTable ==
  ASSUME TableInv, NEW id \in Id, Drop(id)
  PROVE  TableInv'
<1> DEFINE i == id.index
<1>1. CASE LastOne(id) /\ Vacate(i)
  BY <1>1, VacatePreservesTable DEF LastOne, SlotFor
<1>2. CASE /\ SlotFor(id) /\ slots[i].count > 1
           /\ slots' = [slots EXCEPT ![i].count = @ - 1]
           /\ UNCHANGED <<byAddr, free>>
  <2>1. i \in DOMAIN slots /\ slots[i].count > 0
    BY <1>2 DEF SlotFor
  <2>2. slots[i].count - 1 \in 1 .. MaxCount
    BY <1>2, <2>1, SlotFacts, TableAssumption DEF TableInv
  <2>3. slots' = [slots EXCEPT ![i].count = slots[i].count - 1]
    BY <1>2, <2>1
  <2> HIDE DEF i
  <2> QED BY <1>2, <2>1, <2>2, <2>3, CountPreservesTable
<1>3. CASE UNCHANGED table
  BY <1>3, UnchangedTableInv
<1> QED BY <1>1, <1>2, <1>3 DEF Drop

\* Free vacates the slot at once.
LEMMA FreeAllPreservesTable ==
  ASSUME TableInv, NEW id \in Id, FreeAll(id)
  PROVE  TableInv'
  BY VacatePreservesTable, UnchangedTableInv DEF FreeAll, SlotFor

-----------------------------------------------------------------------------
\* A step of the table that vacates no slot.
KeepsSlots ==
  /\ DOMAIN slots \subseteq DOMAIN slots'
  /\ \A j \in DOMAIN slots :
       /\ slots'[j].gen = slots[j].gen
       /\ slots[j].count > 0 => slots'[j].count > 0 /\ slots'[j].addr = slots[j].addr

\* Counting an acquisition of a slot in use up or down vacates nothing.
LEMMA CountKeepsSlots ==
  ASSUME TableType, NEW i \in DOMAIN slots, NEW n \in 1 .. MaxCount,
         slots' = [slots EXCEPT ![i].count = n]
  PROVE  KeepsSlots
<1> DEFINE s == [slots[i] EXCEPT !.count = n]
<1>1. s \in Slot /\ s.addr = slots[i].addr /\ s.gen = slots[i].gen /\ s.count > 0
  BY SlotFacts DEF Slot
<1>2. slots' = [slots EXCEPT ![i] = s]
  OBVIOUS
<1> HIDE DEF s
<1> QED BY <1>1, <1>2, ReplaceSlot DEF KeepsSlots

\* What Acquire (host/refs.go) returns: an id of the table as it is now, in the
\* slot's own generation, which counts the object.
LEMMA AcquireIssues ==
  ASSUME TableInv, NEW obj \in Objs, Acquire(obj)
  PROVE  /\ KeepsSlots
         /\ IdFor(obj) \in Id
         /\ IdFor(obj).index \in DOMAIN slots'
         /\ slots'[IdFor(obj).index].gen = IdFor(obj).gen
         /\ slots'[IdFor(obj).index].count > 0
         /\ slots'[IdFor(obj).index].addr = obj
<1>1. CASE AcquireKnown(obj)
  <2> DEFINE i == byAddr[obj]
  <2>1. i \in DOMAIN slots /\ slots[i].count > 0 /\ slots[i].addr = obj
    BY <1>1 DEF AcquireKnown, TableInv, TableConsistent
  <2>2. slots[i].count + 1 \in 1 .. MaxCount
    BY <1>1, <2>1, SlotFacts, TableAssumption DEF AcquireKnown, TableInv
  <2>3. slots' = [slots EXCEPT ![i].count = slots[i].count + 1]
    BY <1>1, <2>1 DEF AcquireKnown
  <2>4. IdFor(obj) = [index |-> i, gen |-> slots[i].gen]
    BY <1>1, <2>1 DEF AcquireKnown, IdFor
  <2> HIDE DEF i
  <2>5. KeepsSlots
    BY <2>1, <2>2, <2>3, CountKeepsSlots DEF TableInv
  <2>6. IdFor(obj) \in Id
    BY <2>1, <2>4, SlotFacts DEF TableInv, Id
  <2> QED BY <2>1, <2>4, <2>5, <2>6 DEF KeepsSlots
<1>2. CASE AcquireReused(obj)
  <2> DEFINE i == free[Len(free)]
             s == [addr |-> obj, gen |-> slots[i].gen, count |-> 1]
  <2>1. Len(free) \in DOMAIN free
    BY <1>2 DEF AcquireReused, TableInv, TableType
  <2>2. i \in DOMAIN slots /\ slots[i].count = 0
    BY <2>1 DEF TableInv, TableConsistent, FreeListed
  <2>3. s \in Slot /\ s.addr = obj /\ s.count = 1 /\ s.gen = slots[i].gen
    BY <2>2, SlotFacts, TableAssumption DEF TableInv, Slot
  <2>4. slots' = [slots EXCEPT ![i] = s]
    BY <1>2 DEF AcquireReused
  <2>5. IdFor(obj) = [index |-> i, gen |-> slots[i].gen]
    BY <1>2, <2>2 DEF AcquireReused, IdFor
  <2> HIDE DEF s, i
  <2>6. /\ DOMAIN slots' = DOMAIN slots
        /\ slots'[i] = s
        /\ \A j \in DOMAIN slots \ {i} : slots'[j] = slots[j]
    BY <2>2, <2>3, <2>4, ReplaceSlot DEF TableInv
  <2>7. IdFor(obj) \in Id
    BY <2>2, <2>5, SlotFacts DEF TableInv, Id
  <2>8. KeepsSlots
    BY <2>2, <2>3, <2>6 DEF KeepsSlots
  <2> QED BY <2>2, <2>3, <2>5, <2>6, <2>7, <2>8
<1>3. CASE AcquireNew(obj)
  <2> DEFINE n == Len(slots)
             s == [addr |-> obj, gen |-> 1, count |-> 1]
  <2>1. n \in Nat /\ n + 1 \in Index /\ DOMAIN slots = 1 .. n /\ slots \in Seq(Slot)
    BY <1>3, TableAssumption DEF AcquireNew, TableInv, TableType, Index
  <2>2. s \in Slot /\ s.addr = obj /\ s.count = 1 /\ s.gen = 1 /\ 1 \in Gen
    BY TableAssumption DEF Slot, Gen
  <2>3. slots' = Append(slots, s)
    BY <1>3 DEF AcquireNew
  <2>4. IdFor(obj) = [index |-> n + 1, gen |-> 1]
    BY <1>3, <2>1 DEF AcquireNew, IdFor
  <2> HIDE DEF s
  <2>5. /\ DOMAIN slots' = 1 .. n + 1
        /\ slots'[n + 1] = s
        /\ \A j \in 1 .. n : slots'[j] = slots[j]
    BY <2>1, <2>2, <2>3
  <2> HIDE DEF n
  <2>6. IdFor(obj) \in Id
    BY <2>1, <2>2, <2>4 DEF Id
  <2>7. KeepsSlots
    BY <2>1, <2>5 DEF KeepsSlots
  <2> QED BY <2>1, <2>2, <2>4, <2>5, <2>6, <2>7
<1> QED BY <1>1, <1>2, <1>3 DEF Acquire

-----------------------------------------------------------------------------
\* What each operation leaves in the slots.

\* A slot is vacated: it counts nothing, holds no address, and is a generation on.
LEMMA VacateEffect ==
  ASSUME TableInv, NEW i \in DOMAIN slots, Vacate(i)
  PROVE  /\ DOMAIN slots' = DOMAIN slots
         /\ slots'[i].count = 0 /\ slots'[i].addr = NoObj
         /\ slots'[i].gen = NextGeneration(slots[i].gen)
         /\ \A j \in DOMAIN slots \ {i} : slots'[j] = slots[j]
<1> DEFINE s == [addr |-> NoObj, gen |-> NextGeneration(slots[i].gen), count |-> 0]
<1>1. s \in Slot /\ s.count = 0 /\ s.addr = NoObj /\ s.gen = NextGeneration(slots[i].gen)
  BY SlotFacts, NextGenerationType, TableAssumption DEF TableInv, Slot
<1>2. slots' = [slots EXCEPT ![i] = s]
  BY DEF Vacate
<1> HIDE DEF s
<1> QED BY <1>1, <1>2, ReplaceSlot DEF TableInv

\* A count goes up or down, and nothing else changes.
LEMMA CountEffect ==
  ASSUME TableType, NEW i \in DOMAIN slots, NEW n \in 0 .. MaxCount,
         slots' = [slots EXCEPT ![i].count = n]
  PROVE  /\ DOMAIN slots' = DOMAIN slots
         /\ slots'[i].count = n /\ slots'[i].addr = slots[i].addr /\ slots'[i].gen = slots[i].gen
         /\ \A j \in DOMAIN slots \ {i} : slots'[j] = slots[j]
<1> DEFINE s == [slots[i] EXCEPT !.count = n]
<1>1. s \in Slot /\ s.addr = slots[i].addr /\ s.gen = slots[i].gen /\ s.count = n
  BY SlotFacts DEF Slot
<1>2. slots' = [slots EXCEPT ![i] = s]
  OBVIOUS
<1> HIDE DEF s
<1> QED BY <1>1, <1>2, ReplaceSlot

\* drop, of a slot that others count too.
LEMMA DropCounts ==
  ASSUME TableInv, NEW id \in Id, Drop(id), ~LastOne(id), SlotFor(id)
  PROVE  /\ DOMAIN slots' = DOMAIN slots
         /\ slots[id.index].count > 1
         /\ slots'[id.index].count = slots[id.index].count - 1
         /\ slots'[id.index].addr = slots[id.index].addr
         /\ slots'[id.index].gen = slots[id.index].gen
         /\ \A j \in DOMAIN slots \ {id.index} : slots'[j] = slots[j]
<1>1. /\ id.index \in DOMAIN slots /\ slots[id.index].count > 1
      /\ slots' = [slots EXCEPT ![id.index].count = @ - 1]
  BY DEF Drop, SlotFor
<1>2. slots[id.index].count - 1 \in 0 .. MaxCount
  BY <1>1, SlotFacts, TableAssumption DEF TableInv
<1>3. slots' = [slots EXCEPT ![id.index].count = slots[id.index].count - 1]
  BY <1>1
<1> QED BY <1>1, <1>2, <1>3, CountEffect DEF TableInv

\* Retain.
LEMMA RetainCounts ==
  ASSUME TableInv, NEW id \in Id, Retain(id)
  PROVE  /\ DOMAIN slots' = DOMAIN slots /\ id.index \in DOMAIN slots
         /\ slots[id.index].count > 0 /\ slots[id.index].gen = id.gen
         /\ slots'[id.index].count = slots[id.index].count + 1
         /\ slots'[id.index].addr = slots[id.index].addr
         /\ slots'[id.index].gen = slots[id.index].gen
         /\ \A j \in DOMAIN slots \ {id.index} : slots'[j] = slots[j]
<1>1. /\ id.index \in DOMAIN slots /\ slots[id.index].count > 0 /\ slots[id.index].gen = id.gen
      /\ slots[id.index].count < MaxCount
      /\ slots' = [slots EXCEPT ![id.index].count = @ + 1]
  BY DEF Retain, CanRetain, SlotFor
<1>2. slots[id.index].count + 1 \in 0 .. MaxCount
  BY <1>1, SlotFacts, TableAssumption DEF TableInv
<1>3. slots' = [slots EXCEPT ![id.index].count = slots[id.index].count + 1]
  BY <1>1
<1> QED BY <1>1, <1>2, <1>3, CountEffect DEF TableInv

\* Acquire: one slot counts one more, and holds the object.
LEMMA AcquireCounts ==
  ASSUME TableInv, NEW obj \in Objs, Acquire(obj),
         \A j \in DOMAIN slots : slots[j].count = 0 => slots[j].addr = NoObj
  PROVE  \E i \in DOMAIN slots' :
           /\ IdFor(obj).index = i /\ byAddr'[obj] = i
           /\ DOMAIN slots' = DOMAIN slots \cup {i}
           /\ slots'[i].addr = obj
           /\ i \in DOMAIN slots =>
                /\ slots'[i].count = slots[i].count + 1 /\ slots'[i].gen = slots[i].gen
                /\ slots[i].addr = IF slots[i].count = 0 THEN NoObj ELSE obj
           /\ i \notin DOMAIN slots => slots'[i].count = 1
           /\ \A j \in DOMAIN slots \ {i} : slots'[j] = slots[j]
<1>1. CASE AcquireKnown(obj)
  <2> DEFINE i == byAddr[obj]
  <2>1. i \in DOMAIN slots /\ slots[i].count > 0 /\ slots[i].addr = obj
    BY <1>1 DEF AcquireKnown, TableInv, TableConsistent
  <2>2. slots[i].count + 1 \in 0 .. MaxCount
    BY <1>1, <2>1, SlotFacts, TableAssumption DEF AcquireKnown, TableInv
  <2>3. slots' = [slots EXCEPT ![i].count = slots[i].count + 1] /\ byAddr'[obj] = i
    BY <1>1, <2>1 DEF AcquireKnown
  <2>4. IdFor(obj).index = i
    BY <1>1, <2>1 DEF AcquireKnown, IdFor
  <2> HIDE DEF i
  <2>5. /\ DOMAIN slots' = DOMAIN slots
        /\ slots'[i].count = slots[i].count + 1 /\ slots'[i].addr = slots[i].addr
        /\ slots'[i].gen = slots[i].gen
        /\ \A j \in DOMAIN slots \ {i} : slots'[j] = slots[j]
    BY <2>1, <2>2, <2>3, CountEffect DEF TableInv
  <2>6. i \in DOMAIN slots' /\ DOMAIN slots' = DOMAIN slots \cup {i}
    BY <2>1, <2>5
  <2>7. slots[i].count # 0
    <3>1. slots[i].count \in Nat
      BY <2>1, SlotFacts, TableAssumption DEF TableInv
    <3> QED BY <2>1, <3>1
  <2> WITNESS i \in DOMAIN slots'
  <2> QED BY <2>1, <2>3, <2>4, <2>5, <2>6, <2>7
<1>2. CASE AcquireReused(obj)
  <2> DEFINE i == free[Len(free)]
             s == [addr |-> obj, gen |-> slots[i].gen, count |-> 1]
  <2>1. Len(free) \in DOMAIN free
    BY <1>2 DEF AcquireReused, TableInv, TableType
  <2>2. i \in DOMAIN slots /\ slots[i].count = 0
    BY <2>1 DEF TableInv, TableConsistent, FreeListed
  <2>3. s \in Slot /\ s.addr = obj /\ s.count = 1 /\ s.gen = slots[i].gen
    BY <2>2, SlotFacts, TableAssumption DEF TableInv, Slot
  <2>4. slots' = [slots EXCEPT ![i] = s]
    BY <1>2 DEF AcquireReused
  <2>5. byAddr'[obj] = i
    BY <1>2 DEF AcquireReused, TableInv, TableType
  <2>6. IdFor(obj).index = i
    BY <1>2, <2>2 DEF AcquireReused, IdFor
  <2> HIDE DEF s, i
  <2>7. /\ DOMAIN slots' = DOMAIN slots /\ slots'[i] = s
        /\ \A j \in DOMAIN slots \ {i} : slots'[j] = slots[j]
    BY <2>2, <2>3, <2>4, ReplaceSlot DEF TableInv
  <2>8. i \in DOMAIN slots' /\ DOMAIN slots' = DOMAIN slots \cup {i}
    BY <2>2, <2>7
  <2>9. slots'[i].addr = obj /\ slots'[i].count = slots[i].count + 1 /\ slots'[i].gen = slots[i].gen
    BY <2>2, <2>3, <2>7
  <2>10. slots[i].addr = NoObj
    BY <2>2
  <2> WITNESS i \in DOMAIN slots'
  <2> QED BY <2>2, <2>5, <2>6, <2>7, <2>8, <2>9, <2>10
<1>3. CASE AcquireNew(obj)
  <2> DEFINE n == Len(slots)
             s == [addr |-> obj, gen |-> 1, count |-> 1]
  <2>1. n \in Nat /\ DOMAIN slots = 1 .. n /\ slots \in Seq(Slot)
    BY DEF TableInv, TableType
  <2>2. s \in Slot /\ s.addr = obj /\ s.count = 1
    BY TableAssumption DEF Slot, Gen
  <2>3. slots' = Append(slots, s)
    BY <1>3 DEF AcquireNew
  <2>4. IdFor(obj).index = n + 1
    BY <1>3, <2>1 DEF AcquireNew, IdFor
  <2>5. byAddr'[obj] = n + 1
    BY <1>3 DEF AcquireNew, TableInv, TableType
  <2> HIDE DEF s
  <2>6. /\ DOMAIN slots' = 1 .. n + 1 /\ slots'[n + 1] = s
        /\ \A j \in 1 .. n : slots'[j] = slots[j]
    BY <2>1, <2>2, <2>3
  <2> HIDE DEF n
  <2>7. n + 1 \notin DOMAIN slots /\ DOMAIN slots' = DOMAIN slots \cup {n + 1}
    BY <2>1, <2>6
  <2>8. n + 1 \in DOMAIN slots' /\ slots'[n + 1].addr = obj /\ slots'[n + 1].count = 1
    BY <2>2, <2>6, <2>7
  <2>9. \A j \in DOMAIN slots \ {n + 1} : slots'[j] = slots[j]
    BY <2>1, <2>6
  <2> WITNESS n + 1 \in DOMAIN slots'
  <2> QED BY <2>4, <2>5, <2>7, <2>8, <2>9
<1> QED BY <1>1, <1>2, <1>3 DEF Acquire

-----------------------------------------------------------------------------
(***************************************************************************)
(* Ids: that an id of host/refs.go names the object it was given for.      *)
(*                                                                         *)
(* The property is not inductive: it speaks of ids that are accepted, and  *)
(* a step that vacates a slot changes which ones are.  GenerationsTellAge  *)
(* follows every id instead, accepted or not.                              *)
(***************************************************************************)

IdsInv == IdsTypeOK /\ TableConsistent /\ GenerationsTellAge

\* A ticket says the truth after such a step if it did before.
LEMMA KeptTicketTellsAge ==
  ASSUME KeepsSlots, NEW t, TellsAge(slots, t)
  PROVE  TellsAge(slots', t)
  BY DEF KeepsSlots, TellsAge

\* A new id tells the truth.
LEMMA TicketTellsAge ==
  ASSUME NEW ss, NEW id \in Id, NEW obj, id.index \in DOMAIN ss,
         ss[id.index].gen = id.gen, ss[id.index].count > 0, ss[id.index].addr = obj
  PROVE  TellsAge(ss, TicketFor(id, obj))
<1>1. id.gen \in Nat
  BY TableAssumption DEF Id, Gen
<1> QED BY <1>1 DEF TellsAge, TicketFor

\* Vacating a slot takes it one generation on, and every id for it with it.
LEMMA VacatedTicketTellsAge ==
  ASSUME TableInv, NEW i \in DOMAIN slots, Vacate(i),
         NEW t \in Ticket, TellsAge(slots, t)
  PROVE  AgedTicket(t, i) \in Ticket /\ TellsAge(slots', AgedTicket(t, i))
<1> DEFINE s == [addr |-> NoObj, gen |-> NextGeneration(slots[i].gen), count |-> 0]
<1>1. s \in Slot /\ s.gen = NextGeneration(slots[i].gen)
  BY SlotFacts, NextGenerationType, TableAssumption DEF TableInv, Slot
<1>2. slots' = [slots EXCEPT ![i] = s]
  BY DEF Vacate
<1> HIDE DEF s
<1>3. /\ DOMAIN slots' = DOMAIN slots
      /\ slots'[i].gen = NextGeneration(slots[i].gen)
      /\ \A j \in DOMAIN slots \ {i} : slots'[j] = slots[j]
  BY <1>1, <1>2, ReplaceSlot DEF TableInv
<1>4. slots[i].gen \in Gen /\ t.id.gen \in Gen /\ t.age \in 0 .. GenMask /\ t.used \in BOOLEAN
  BY SlotFacts DEF TableInv, Ticket, Id
<1>5. CASE t.used /\ t.id.index = i /\ t.age < GenMask
  <2> DEFINE u == AgedTicket(t, i)
  <2>1. /\ u \in Ticket /\ u.age = t.age + 1 /\ u.id = t.id /\ u.used = t.used
    <3>1. u = [t EXCEPT !.age = t.age + 1]
      BY <1>5 DEF AgedTicket
    <3>2. t.age + 1 \in 0 .. GenMask
      BY <1>4, <1>5, TableAssumption
    <3> HIDE DEF u
    <3> QED BY <3>1, <3>2 DEF Ticket
  <2>2. slots[i].gen \in {t.id.gen + t.age, t.id.gen + t.age - GenMask}
    BY <1>5 DEF TellsAge
  <2>3. NextGeneration(slots[i].gen) \in {t.id.gen + t.age + 1, t.id.gen + t.age + 1 - GenMask}
    BY <1>4, <1>5, <2>2, TableAssumption DEF NextGeneration, Gen
  <2>4. slots'[i].gen \in {u.id.gen + u.age, u.id.gen + u.age - GenMask} /\ u.age # 0
    BY <1>3, <1>4, <2>1, <2>3, TableAssumption DEF Gen
  <2> HIDE DEF u
  <2>5. TellsAge(slots', u)
    BY <1>3, <1>5, <2>1, <2>4 DEF TellsAge
  <2> QED BY <2>1, <2>5 DEF u
<1>6. CASE ~(t.used /\ t.id.index = i /\ t.age < GenMask)
  <2>1. AgedTicket(t, i) = t
    BY <1>6 DEF AgedTicket
  <2>2. TellsAge(slots', t)
    BY <1>3, <1>4, <1>6, TableAssumption DEF TellsAge
  <2> QED BY <2>1, <2>2
<1> QED BY <1>5, <1>6

-----------------------------------------------------------------------------
\* Nobody holds an id at first.
LEMMA IdsInvInit == IdsInit => IdsInv
<1> SUFFICES ASSUME IdsInit PROVE IdsInv
  OBVIOUS
<1>1. TableInv
  BY TableInvInit DEF IdsInit
<1>2. NoTicket \in Ticket
  BY TableAssumption DEF NoTicket, Ticket, Id, Index, Gen
<1>3. held \in [Holders -> Ticket] /\ GenerationsTellAge
  BY <1>2 DEF IdsInit, GenerationsTellAge, TellsAge, NoTicket
<1> QED BY <1>1, <1>3 DEF IdsInv, IdsTypeOK, TableInv

\* A holder that acquires or retains.
LEMMA IssuePreserves ==
  ASSUME IdsInv, TableInv', KeepsSlots, NEW h \in Holders, NEW t \in Ticket,
         TellsAge(slots', t), held' = [held EXCEPT ![h] = t]
  PROVE  IdsInv'
<1>1. held' \in [Holders -> Ticket]
  BY DEF IdsInv, IdsTypeOK
<1>2. ASSUME NEW k \in Holders PROVE TellsAge(slots', held'[k])
  <2>1. TellsAge(slots, held[k])
    BY DEF IdsInv, GenerationsTellAge
  <2>2. TellsAge(slots', held[k])
    BY <2>1, KeptTicketTellsAge
  <2>3. held'[k] = t \/ held'[k] = held[k]
    BY DEF IdsInv, IdsTypeOK
  <2> QED BY <2>2, <2>3
<1> QED BY <1>1, <1>2 DEF IdsInv, IdsTypeOK, TableInv, GenerationsTellAge

\* A slot is vacated, by the last release or by a free; tickets are what the
\* holders have but for the ages.
LEMMA AgeingPreserves ==
  ASSUME IdsInv, TableInv', NEW i \in DOMAIN slots, Vacate(i),
         NEW tickets \in [Holders -> Ticket],
         \A k \in Holders : TellsAge(slots, tickets[k]),
         held' = AgedTickets(tickets, i)
  PROVE  IdsInv'
<1>1. ASSUME NEW k \in Holders
      PROVE  held'[k] \in Ticket /\ TellsAge(slots', held'[k])
  <2>1. held'[k] = AgedTicket(tickets[k], i)
    BY DEF AgedTickets
  <2>2. TableInv /\ tickets[k] \in Ticket /\ TellsAge(slots, tickets[k])
    BY DEF IdsInv, IdsTypeOK, TableInv
  <2> QED BY <2>1, <2>2, VacatedTicketTellsAge
<1>2. held' \in [Holders -> Ticket]
  BY <1>1 DEF AgedTickets
<1> QED BY <1>1, <1>2 DEF IdsInv, IdsTypeOK, TableInv, GenerationsTellAge

\* One step per operation of host/refs.go.
LEMMA IdsInvNext == IdsInv /\ [IdsNext]_idVars => IdsInv'
<1> SUFFICES ASSUME IdsInv, [IdsNext]_idVars PROVE IdsInv'
  OBVIOUS
<1>0. /\ TableInv /\ held \in [Holders -> Ticket] /\ NoTicket \in Ticket
      /\ \A k \in Holders : TellsAge(slots, held[k])
      /\ \A k \in Holders : held[k] \in Ticket /\ held[k].id \in Id /\ held[k].age \in 0 .. GenMask
  BY TableAssumption
     DEF IdsInv, IdsTypeOK, TableInv, GenerationsTellAge, NoTicket, Ticket, Id, Index, Gen
<1>1. ASSUME NEW h \in Holders, NEW obj \in Objs, HolderAcquires(h, obj) PROVE IdsInv'
  <2>1. Acquire(obj) /\ TableInv'
    BY <1>0, <1>1, AcquirePreservesTable DEF HolderAcquires
  <2>2. /\ KeepsSlots /\ IdFor(obj) \in Id /\ IdFor(obj).index \in DOMAIN slots'
        /\ slots'[IdFor(obj).index].gen = IdFor(obj).gen
        /\ slots'[IdFor(obj).index].count > 0
        /\ slots'[IdFor(obj).index].addr = obj
    BY <1>0, <2>1, AcquireIssues
  <2>3. TicketFor(IdFor(obj), obj) \in Ticket
    BY <2>2, TableAssumption DEF TicketFor, Ticket
  <2>4. TellsAge(slots', TicketFor(IdFor(obj), obj))
    BY <2>2, TicketTellsAge
  <2>5. held' = [held EXCEPT ![h] = TicketFor(IdFor(obj), obj)]
    BY <1>1 DEF HolderAcquires
  <2> QED BY <2>1, <2>2, <2>3, <2>4, <2>5, IssuePreserves
<1>2. ASSUME NEW h \in Holders, NEW from \in Holders, HolderRetains(h, from) PROVE IdsInv'
  <2> DEFINE id == held[from].id
             i == id.index
             t == TicketFor(id, slots[i].addr)
  <2>1. id \in Id /\ Retain(id) /\ held' = [held EXCEPT ![h] = t]
    BY <1>0, <1>2 DEF HolderRetains
  <2>2. TableInv'
    BY <1>0, <2>1, RetainPreservesTable
  <2>3. i \in DOMAIN slots /\ slots[i].count > 0 /\ slots[i].gen = id.gen
    BY <2>1 DEF Retain, CanRetain, SlotFor
  <2>4. slots[i].count + 1 \in 1 .. MaxCount
    BY <1>0, <2>1, <2>3, SlotFacts, TableAssumption DEF Retain, CanRetain, TableInv
  <2>5. slots' = [slots EXCEPT ![i].count = slots[i].count + 1]
    BY <2>1, <2>3 DEF Retain
  <2>6. KeepsSlots
    BY <1>0, <2>3, <2>4, <2>5, CountKeepsSlots DEF TableInv
  <2>7. t \in Ticket
    BY <1>0, <2>1, <2>3, SlotFacts, TableAssumption DEF TicketFor, Ticket, TableInv
  <2>8. TellsAge(slots', t)
    BY <2>1, <2>3, <2>6, TicketTellsAge DEF KeepsSlots
  <2> HIDE DEF t
  <2> QED BY <2>1, <2>2, <2>6, <2>7, <2>8, IssuePreserves
<1>3. ASSUME NEW h \in Holders, HolderReleases(h) PROVE IdsInv'
  <2> DEFINE id == held[h].id
             rest == [held EXCEPT ![h] = NoTicket]
  <2>1. id \in Id /\ Drop(id) /\ TableInv'
    BY <1>0, <1>3, DropPreservesTable DEF HolderReleases
  <2>2. /\ rest \in [Holders -> Ticket]
        /\ \A k \in Holders : TellsAge(slots, rest[k])
    BY <1>0 DEF TellsAge, NoTicket
  <2>3. held' = IF LastOne(id) THEN AgedTickets(rest, id.index) ELSE rest
    BY <1>3 DEF HolderReleases
  <2> HIDE DEF rest
  <2>4. CASE LastOne(id)
    <3>1. id.index \in DOMAIN slots /\ Vacate(id.index)
      BY <2>1, <2>4 DEF Drop, LastOne, SlotFor
    <3> QED BY <2>1, <2>2, <2>3, <2>4, <3>1, AgeingPreserves
  <2>5. CASE ~LastOne(id)
    <3>1. KeepsSlots
      <4>1. CASE /\ SlotFor(id) /\ slots[id.index].count > 1
                 /\ slots' = [slots EXCEPT ![id.index].count = @ - 1]
        <5>1. id.index \in DOMAIN slots
          BY <4>1 DEF SlotFor
        <5>2. slots[id.index].count - 1 \in 1 .. MaxCount
          BY <1>0, <4>1, <5>1, SlotFacts, TableAssumption DEF TableInv
        <5>3. slots' = [slots EXCEPT ![id.index].count = slots[id.index].count - 1]
          BY <4>1, <5>1
        <5> QED BY <1>0, <5>1, <5>2, <5>3, CountKeepsSlots DEF TableInv
      <4>2. CASE UNCHANGED table
        BY <4>2 DEF table, KeepsSlots
      <4> QED BY <2>1, <2>5, <4>1, <4>2 DEF Drop
    <3>2. \A k \in Holders : TellsAge(slots', rest[k])
      BY <2>2, <3>1, KeptTicketTellsAge
    <3> QED BY <2>1, <2>2, <2>3, <2>5, <3>2 DEF IdsInv, IdsTypeOK, TableInv, GenerationsTellAge
  <2> QED BY <2>4, <2>5
<1>4. ASSUME NEW h \in Holders, HolderFrees(h) PROVE IdsInv'
  <2> DEFINE id == held[h].id
  <2>1. id \in Id /\ FreeAll(id) /\ TableInv'
    BY <1>0, <1>4, FreeAllPreservesTable DEF HolderFrees
  <2>2. CASE SlotFor(id)
    <3>1. id.index \in DOMAIN slots /\ Vacate(id.index) /\ held' = AgedTickets(held, id.index)
      BY <1>4, <2>1, <2>2 DEF FreeAll, SlotFor, HolderFrees
    <3> QED BY <1>0, <2>1, <3>1, AgeingPreserves
  <2>3. CASE ~SlotFor(id)
    <3>1. UNCHANGED <<slots, held>>
      BY <1>4, <2>1, <2>3 DEF FreeAll, HolderFrees, table
    <3> QED BY <2>1, <3>1 DEF IdsInv, IdsTypeOK, TableInv, GenerationsTellAge
  <2> QED BY <2>2, <2>3
<1>5. CASE UNCHANGED idVars
  <2>1. TableInv'
    BY <1>0, <1>5, UnchangedTableInv DEF idVars
  <2>2. UNCHANGED <<slots, held>>
    BY <1>5 DEF idVars, table
  <2> QED BY <2>1, <2>2 DEF IdsInv, IdsTypeOK, TableInv, GenerationsTellAge
<1> QED BY <1>1, <1>2, <1>3, <1>4, <1>5 DEF IdsNext

\* IdsInv holds throughout.
THEOREM RefIdsInductive == IdsSpec => []IdsInv
  BY IdsInvInit, IdsInvNext, PTL DEF IdsSpec

\* The table and the ids handed out keep their types.
THEOREM RefIdsTypeCorrect == IdsSpec => []IdsTypeOK
<1>1. IdsInv => IdsTypeOK
  BY DEF IdsInv
<1> QED BY <1>1, RefIdsInductive, PTL

\* The slots, the index by address and the free list of host/refs.go agree
\* after every sequence of Acquire, Retain, Release and Free.
THEOREM RefIdsTableConsistent == IdsSpec => []TableConsistent
<1>1. IdsInv => TableConsistent
  BY DEF IdsInv
<1> QED BY <1>1, RefIdsInductive, PTL

\* The generation of a slot and of an id for it are as far apart as the slot has
\* been vacated in between.
THEOREM RefIdsGenerationsTellAge == IdsSpec => []GenerationsTellAge
<1>1. IdsInv => GenerationsTellAge
  BY DEF IdsInv
<1> QED BY <1>1, RefIdsInductive, PTL

\* An id that slotFor accepts names the object it was given for, up to
\* refGenMask vacations of its slot.
THEOREM RefIdsNameTheirObject == IdsSpec => []IdsNameTheirObject
<1>1. IdsInv => IdsNameTheirObject
  <2> SUFFICES ASSUME IdsInv, NEW h \in Holders, held[h].used, held[h].age < GenMask,
                      SlotFor(held[h].id)
               PROVE  slots[held[h].id.index].addr = held[h].obj
    BY DEF IdsNameTheirObject
  <2>1. TellsAge(slots, held[h])
    BY DEF IdsInv, GenerationsTellAge
  <2>2. held[h].id.gen \in Gen /\ held[h].age \in 0 .. GenMask
    BY DEF IdsInv, IdsTypeOK, Ticket, Id
  <2>3. slots[held[h].id.index].gen = held[h].id.gen
    BY DEF SlotFor
  <2>4. held[h].age = 0
    BY <2>1, <2>2, <2>3, TableAssumption DEF TellsAge, Gen
  <2> QED BY <2>1, <2>4 DEF TellsAge
<1> QED BY <1>1, RefIdsInductive, PTL

-----------------------------------------------------------------------------
(***************************************************************************)
(* References: that no acquisition is lost, leaked or doubled between the  *)
(* table of the host and the root list of the guest.                       *)
(*                                                                         *)
(* The invariant is in three layers.  The first is about shape: which      *)
(* parts of the transfer are in use at which step (InStep), that a queued  *)
(* handle is queued once (Queues).  The second ties pins to slots, with    *)
(* the one slot that is counted and not yet pinned described apart         *)
(* (Pinning).  The third is the balance, which is what keeps a slot from   *)
(* being vacated while the ledger or a handle still has its id.            *)
(***************************************************************************)

\* A handle of this owner that has not been released.
Owned(hs, h) == hs[h].state # "none" /\ hs[h].own

\* The slots that nobody counts hold no address.
Vacant == \A i \in DOMAIN slots : slots[i].count = 0 => slots[i].addr = NoObj

\* ref_add has an acquisition of the object, and it is the first one unless the
\* object is pinned.
Pinning ==
  pc = "pin" =>
    /\ todo # <<>>
    /\ byAddr[Head(todo)] # 0
    /\ PinAt(byAddr[Head(todo)]) =
         IF slots[byAddr[Head(todo)]].count > 1 THEN Head(todo) ELSE NoObj

\* The generation of a slot is that of a handle's id and as many further as the
\* slot has been vacated since.
HandleTellsAge(ss, t) ==
  /\ t.id.index \in DOMAIN ss
  /\ t.age < GenMask => ss[t.id.index].gen \in {t.id.gen + t.age, t.id.gen + t.age - GenMask}
  /\ t.age = 0 => ss[t.id.index].count > 0 /\ ss[t.id.index].addr = t.obj /\ ~t.gone

HandlesTellAge == \A h \in Handles : Owned(handles, h) => HandleTellsAge(slots, handles[h])

Queues ==
  /\ \A k \in DOMAIN batch : Owned(handles, batch[k]) /\ handles[batch[k]].state = "queued"
  /\ \A k \in DOMAIN pending : Owned(handles, pending[k]) /\ handles[pending[k]].state = "queued"
  /\ \A j, k \in DOMAIN batch : batch[j] = batch[k] => j = k
  /\ \A j, k \in DOMAIN pending : pending[j] = pending[k] => j = k
  /\ \A j \in DOMAIN batch, k \in DOMAIN pending : batch[j] # pending[k]

InStep ==
  /\ pc # "drain" => batch = <<>>
  /\ pc \in {"idle", "drain", "ready", "release", "guest", "callback"} => ledger = <<>>
  /\ pc \in {"idle", "drain", "ready", "release"} => lowered = {}
  /\ pc \notin {"decode", "giveback"} => minted = {}
  /\ pc = "decode" => \A h \in minted : handles[h].state = "live"

AgesSeen == ~wrapped => \A h \in Handles : Owned(handles, h) => handles[h].age < GenMask

LedgerIsCurrent == ~wrapped => \A k \in DOMAIN ledger : SlotFor(ledger[k])

LoweredAreOwned ==
  \A h \in lowered : Owned(handles, h) /\ (~wrapped => handles[h].age = 0)

IInv ==
  /\ TypeOK /\ TableConsistent
  /\ Vacant /\ Pinning /\ PinsMatchTable
  /\ HandlesTellAge /\ Queues /\ InStep /\ AgesSeen
  /\ LedgerIsCurrent /\ AcquisitionsBalance /\ LoweredAreOwned

-----------------------------------------------------------------------------
(* The balance, in terms of who owes an acquisition of slot i.             *)

EntriesAt(l, i) == {k \in DOMAIN l : l[k].index = i}
HoldersAt(hs, i) == {h \in Handles : Owned(hs, h) /\ hs[h].id.index = i /\ hs[h].age = 0}
OwedAt(i) ==
  Cardinality(EntriesAt(ledger, i)) + Cardinality(Granted \cap {i})
  + Cardinality(HoldersAt(handles, i))

LEMMA BalanceForm ==
  AcquisitionsBalance <=> (~wrapped => \A i \in DOMAIN slots : slots[i].count = OwedAt(i))
  BY DEF AcquisitionsBalance, OwedAt, EntriesAt, HoldersAt, Owned

LEMMA HoldersAreFinite ==
  ASSUME NEW hs, NEW i
  PROVE  IsFiniteSet(HoldersAt(hs, i)) /\ Cardinality(HoldersAt(hs, i)) \in Nat
<1>1. HoldersAt(hs, i) \in SUBSET Handles
  BY DEF HoldersAt
<1> QED
  BY <1>1, TransferAssumption, FS_Subset, FS_CardinalityType

LEMMA EntriesAreFinite ==
  ASSUME NEW l \in Seq(Id), NEW i
  PROVE  IsFiniteSet(EntriesAt(l, i)) /\ Cardinality(EntriesAt(l, i)) \in Nat
<1>1. Len(l) \in Int /\ DOMAIN l = 1 .. Len(l) /\ 1 \in Int
  OBVIOUS
<1>2. IsFiniteSet(DOMAIN l)
  BY <1>1, FS_Interval
<1>3. EntriesAt(l, i) \in SUBSET DOMAIN l
  BY DEF EntriesAt
<1> QED
  BY <1>2, <1>3, FS_Subset, FS_CardinalityType

LEMMA GrantedCounts ==
  ASSUME NEW i, NEW G
  PROVE  /\ i \in G => Cardinality(G \cap {i}) = 1
         /\ i \notin G => Cardinality(G \cap {i}) = 0
<1>1. i \in G => G \cap {i} = {i}
  OBVIOUS
<1>2. i \notin G => G \cap {i} = {}
  OBVIOUS
<1> QED
  BY <1>1, <1>2, FS_Singleton, FS_EmptySet

\* A set with two members has more than one.
LEMMA TwoMembers ==
  ASSUME NEW S, IsFiniteSet(S), NEW x \in S, NEW y \in S, x # y
  PROVE  Cardinality(S) > 1
<1>1. Cardinality(S \ {x}) = Cardinality(S) - 1 /\ IsFiniteSet(S \ {x})
  BY FS_RemoveElement
<1>2. S \ {x} # {} /\ Cardinality(S \ {x}) \in Nat /\ Cardinality(S) \in Nat
  BY <1>1, FS_CardinalityType
<1>3. Cardinality(S \ {x}) # 0
  BY <1>1, <1>2, FS_EmptySet
<1> QED
  BY <1>1, <1>2, <1>3

LEMMA OneMember ==
  ASSUME NEW S, IsFiniteSet(S), NEW x \in S
  PROVE  Cardinality(S) > 0
<1>1. S # {} /\ Cardinality(S) \in Nat
  BY FS_CardinalityType
<1>2. Cardinality(S) # 0
  BY <1>1, FS_EmptySet
<1> QED
  BY <1>1, <1>2

\* A ledger that has one entry more.
LEMMA LedgerGrows ==
  ASSUME NEW l \in Seq(Id), NEW id \in Id
  PROVE  /\ Append(l, id) \in Seq(Id)
         /\ \A i : Cardinality(EntriesAt(Append(l, id), i)) =
                     Cardinality(EntriesAt(l, i)) + IF id.index = i THEN 1 ELSE 0
         /\ \A k \in DOMAIN Append(l, id) :
              Append(l, id)[k] = id \/ (k \in DOMAIN l /\ Append(l, id)[k] = l[k])
<1> DEFINE m == Append(l, id)
           n == Len(l)
<1>1. /\ n \in Nat /\ DOMAIN l = 1 .. n /\ m \in Seq(Id) /\ DOMAIN m = 1 .. n + 1
      /\ m[n + 1] = id /\ \A k \in 1 .. n : m[k] = l[k]
  OBVIOUS
<1> HIDE DEF m, n
<1>2. ASSUME NEW i
      PROVE  Cardinality(EntriesAt(m, i)) = Cardinality(EntriesAt(l, i)) + IF id.index = i THEN 1 ELSE 0
  <2>1. CASE id.index = i
    <3>1. EntriesAt(m, i) = EntriesAt(l, i) \cup {n + 1} /\ n + 1 \notin EntriesAt(l, i)
      BY <1>1, <2>1 DEF EntriesAt
    <3>2. IsFiniteSet(EntriesAt(l, i)) /\ Cardinality(EntriesAt(l, i)) \in Nat
      BY EntriesAreFinite
    <3>3. Cardinality(EntriesAt(l, i) \cup {n + 1}) = Cardinality(EntriesAt(l, i)) + 1
      BY <3>1, <3>2, FS_AddElement
    <3> QED
      BY <2>1, <3>1, <3>3
  <2>2. CASE id.index # i
    <3>1. EntriesAt(m, i) = EntriesAt(l, i)
      BY <1>1, <2>2 DEF EntriesAt
    <3>2. Cardinality(EntriesAt(l, i)) \in Nat
      BY EntriesAreFinite
    <3> QED
      BY <2>2, <3>1, <3>2
  <2> QED
    BY <2>1, <2>2
<1>3. \A k \in DOMAIN m : m[k] = id \/ (k \in DOMAIN l /\ m[k] = l[k])
  BY <1>1
<1> QED
  BY <1>1, <1>2, <1>3 DEF m

\* A ledger m that is l without its entry k.
Without(l, m, k) ==
  /\ m \in Seq(Id)
  /\ \A j \in DOMAIN m : \E o \in DOMAIN l \ {k} : m[j] = l[o]
  /\ \A i : Cardinality(EntriesAt(m, i)) =
              Cardinality(EntriesAt(l, i)) - IF l[k].index = i THEN 1 ELSE 0

LEMMA LastEntryGoes ==
  ASSUME NEW l \in Seq(Id), l # <<>>
  PROVE  Len(l) \in DOMAIN l /\ Without(l, SubSeq(l, 1, Len(l) - 1), Len(l))
<1> DEFINE m == SubSeq(l, 1, Len(l) - 1)
           n == Len(l)
<1>1. /\ n \in Nat \ {0} /\ DOMAIN l = 1 .. n /\ m \in Seq(Id) /\ DOMAIN m = 1 .. n - 1
      /\ \A k \in 1 .. n - 1 : m[k] = l[k]
  OBVIOUS
<1> HIDE DEF m, n
<1>2. ASSUME NEW j \in DOMAIN m PROVE \E o \in DOMAIN l \ {n} : m[j] = l[o]
  <2>1. j \in DOMAIN l \ {n} /\ m[j] = l[j]
    BY <1>1
  <2> QED
    BY <2>1
<1>3. ASSUME NEW i
      PROVE  Cardinality(EntriesAt(m, i)) = Cardinality(EntriesAt(l, i)) - IF l[n].index = i THEN 1 ELSE 0
  <2>1. EntriesAt(m, i) = EntriesAt(l, i) \ {n} /\ (n \in EntriesAt(l, i) <=> l[n].index = i)
    BY <1>1 DEF EntriesAt
  <2>2. IsFiniteSet(EntriesAt(l, i)) /\ Cardinality(EntriesAt(l, i)) \in Nat
    BY EntriesAreFinite
  <2>3. Cardinality(EntriesAt(l, i) \ {n}) =
          IF n \in EntriesAt(l, i) THEN Cardinality(EntriesAt(l, i)) - 1
          ELSE Cardinality(EntriesAt(l, i))
    BY <2>2, FS_RemoveElement
  <2> QED
    BY <2>1, <2>2, <2>3
<1> QED
  BY <1>1, <1>2, <1>3 DEF Without, m, n

LEMMA EntryGoes ==
  ASSUME NEW l \in Seq(Id), NEW k \in DOMAIN l
  PROVE  Without(l, SubSeq(l, 1, k - 1) \o SubSeq(l, k + 1, Len(l)), k)
<1> DEFINE a == SubSeq(l, 1, k - 1)
           b == SubSeq(l, k + 1, Len(l))
           m == a \o b
           n == Len(l)
           From(j) == IF j < k THEN j ELSE j + 1
<1>1. n \in Nat \ {0} /\ DOMAIN l = 1 .. n /\ k \in 1 .. n
  OBVIOUS
<1>2. a \in Seq(Id) /\ Len(a) = k - 1 /\ \A j \in 1 .. k - 1 : a[j] = l[j]
  OBVIOUS
<1>3. b \in Seq(Id) /\ Len(b) = n - k /\ \A j \in 1 .. n - k : b[j] = l[k + j]
  OBVIOUS
<1> HIDE DEF a, b, n
<1>4. /\ m \in Seq(Id) /\ Len(m) = n - 1 /\ DOMAIN m = 1 .. n - 1
      /\ \A j \in 1 .. n - 1 : m[j] = IF j <= k - 1 THEN a[j] ELSE b[j - (k - 1)]
  <2>1. /\ m \in Seq(Id) /\ Len(m) = Len(a) + Len(b)
        /\ \A j \in 1 .. Len(a) + Len(b) : m[j] = IF j <= Len(a) THEN a[j] ELSE b[j - Len(a)]
    BY <1>2, <1>3, ConcatProperties
  <2>2. Len(a) + Len(b) = n - 1
    BY <1>1, <1>2, <1>3
  <2>3. DOMAIN m = 1 .. Len(m)
    BY <2>1
  <2> QED
    BY <1>2, <2>1, <2>2, <2>3
<1>5. ASSUME NEW j \in 1 .. n - 1
      PROVE  From(j) \in DOMAIN l \ {k} /\ m[j] = l[From(j)]
  <2>1. CASE j < k
    <3>1. j \in 1 .. k - 1 /\ j \in DOMAIN l \ {k} /\ j <= k - 1
      BY <1>1, <2>1
    <3>2. m[j] = a[j]
      BY <1>4, <3>1
    <3> QED
      BY <1>2, <2>1, <3>1, <3>2
  <2>2. CASE j >= k
    <3>1. /\ j - (k - 1) \in 1 .. n - k /\ k + (j - (k - 1)) = j + 1 /\ ~(j <= k - 1)
          /\ ~(j < k) /\ j + 1 \in DOMAIN l \ {k}
      BY <1>1, <2>2
    <3>2. m[j] = b[j - (k - 1)]
      BY <1>4, <3>1
    <3>3. b[j - (k - 1)] = l[k + (j - (k - 1))]
      BY <1>3, <3>1
    <3>4. From(j) = j + 1
      BY <3>1
    <3>5. m[j] = l[j + 1]
      BY <3>1, <3>2, <3>3
    <3> HIDE DEF From
    <3> QED
      BY <3>1, <3>4, <3>5
  <2>3. j < k \/ j >= k
    BY <1>1
  <2> QED
    BY <2>1, <2>2, <2>3
<1> HIDE DEF m
<1>6. ASSUME NEW i
      PROVE  Cardinality(EntriesAt(m, i)) = Cardinality(EntriesAt(l, i)) - IF l[k].index = i THEN 1 ELSE 0
  <2> DEFINE S == EntriesAt(m, i)
             T == EntriesAt(l, i) \ {k}
             f == [j \in S |-> From(j)]
  <2>1. f \in [S -> T] /\ \A x, y \in S : f[x] = f[y] => x = y
    <3>1. S \subseteq 1 .. n - 1
      BY <1>4 DEF EntriesAt
    <3>2. \A j \in S : From(j) \in T
      BY <1>5, <3>1 DEF EntriesAt
    <3>3. \A x, y \in 1 .. n - 1 : From(x) = From(y) => x = y
      BY <1>1
    <3> QED
      BY <3>1, <3>2, <3>3
  <2>2. ASSUME NEW t \in T PROVE \E j \in S : f[j] = t
    <3>1. t \in 1 .. n /\ t # k /\ l[t].index = i
      BY <1>1 DEF EntriesAt
    <3>2. CASE t < k
      <4>1. t \in 1 .. n - 1 /\ From(t) = t
        BY <1>1, <3>1, <3>2
      <4> QED
        BY <1>4, <1>5, <3>1, <4>1 DEF EntriesAt
    <3>3. CASE t > k
      <4>1. t - 1 \in 1 .. n - 1 /\ From(t - 1) = t
        BY <1>1, <3>1, <3>3
      <4> QED
        BY <1>4, <1>5, <3>1, <4>1 DEF EntriesAt
    <3> QED
      BY <1>1, <3>1, <3>2, <3>3
  <2> HIDE DEF f
  <2>3. f \in Bijection(S, T)
    BY <2>1, <2>2 DEF Bijection, Injection, Surjection, IsInjective
  <2>4. ExistsBijection(S, T)
    BY <2>3 DEF ExistsBijection
  <2>5. IsFiniteSet(S) /\ Cardinality(T) = Cardinality(S)
    BY <1>4, <2>4, EntriesAreFinite, FS_Bijection
  <2>6. k \in EntriesAt(l, i) <=> l[k].index = i
    BY <1>1 DEF EntriesAt
  <2>7. IsFiniteSet(EntriesAt(l, i)) /\ Cardinality(EntriesAt(l, i)) \in Nat
    BY EntriesAreFinite
  <2>8. Cardinality(T) = IF k \in EntriesAt(l, i) THEN Cardinality(EntriesAt(l, i)) - 1
                         ELSE Cardinality(EntriesAt(l, i))
    BY <2>7, FS_RemoveElement
  <2> QED
    BY <2>5, <2>6, <2>7, <2>8
<1>7. ASSUME NEW j \in DOMAIN m PROVE \E o \in DOMAIN l \ {k} : m[j] = l[o]
  BY <1>4, <1>5
<1> QED
  BY <1>4, <1>6, <1>7 DEF Without, m, a, b

-----------------------------------------------------------------------------
(* Handles, ages and pins, step by step.                                   *)

\* What vacating slot i does to the handles.
LEMMA AgedFacts ==
  ASSUME NEW hs \in [Handles -> Handle], NEW i
  PROVE  /\ Aged(hs, i) \in [Handles -> Handle]
         /\ \A h \in Handles :
              /\ Owned(Aged(hs, i), h) <=> Owned(hs, h)
              /\ Aged(hs, i)[h].state = hs[h].state
              /\ Aged(hs, i)[h].id = hs[h].id
              /\ Aged(hs, i)[h].obj = hs[h].obj
              /\ Aged(hs, i)[h].gone = hs[h].gone
              /\ Owned(hs, h) =>
                   Aged(hs, i)[h].age = IF hs[h].id.index = i /\ hs[h].age < GenMask
                                        THEN hs[h].age + 1 ELSE hs[h].age
<1>1. ASSUME NEW h \in Handles
      PROVE  /\ Aged(hs, i)[h] \in Handle
             /\ Owned(Aged(hs, i), h) <=> Owned(hs, h)
             /\ Aged(hs, i)[h].state = hs[h].state
             /\ Aged(hs, i)[h].id = hs[h].id
             /\ Aged(hs, i)[h].obj = hs[h].obj
             /\ Aged(hs, i)[h].gone = hs[h].gone
             /\ Owned(hs, h) =>
                  Aged(hs, i)[h].age = IF hs[h].id.index = i /\ hs[h].age < GenMask
                                       THEN hs[h].age + 1 ELSE hs[h].age
  <2> DEFINE t == hs[h]
             u == Aged(hs, i)[h]
  <2>1. t \in Handle /\ t.age \in 0 .. GenMask /\ GenMask \in Nat
    BY TableAssumption DEF Handle
  <2>2. CASE t.state # "none" /\ t.own /\ t.id.index = i /\ t.age < GenMask
    <3>1. u = [t EXCEPT !.age = t.age + 1]
      BY <2>2 DEF Aged
    <3>2. t.age + 1 \in 0 .. GenMask
      BY <2>1, <2>2
    <3> HIDE DEF t, u
    <3>3. /\ u \in Handle /\ u.state = t.state /\ u.id = t.id /\ u.obj = t.obj /\ u.gone = t.gone
          /\ u.own = t.own /\ u.age = t.age + 1
      BY <2>1, <3>1, <3>2 DEF Handle
    <3> QED
      BY <2>2, <3>3 DEF Owned, t, u
  <2>3. CASE ~(t.state # "none" /\ t.own /\ t.id.index = i /\ t.age < GenMask)
    <3>1. u = t
      BY <2>3 DEF Aged
    <3> QED
      BY <2>1, <2>3, <3>1 DEF Owned
  <2> QED
    BY <2>2, <2>3
<1>2. Aged(hs, i) \in [Handles -> Handle]
  BY <1>1 DEF Aged
<1> QED
  BY <1>1, <1>2

\* A handle's id is current exactly as long as its slot has not been vacated.
LEMMA FreshIfCurrent ==
  ASSUME TypeOK, HandlesTellAge, NEW h \in Handles, Owned(handles, h), handles[h].age < GenMask
  PROVE  /\ SlotFor(handles[h].id) <=> handles[h].age = 0
         /\ handles[h].id \in Id /\ handles[h].id.index \in DOMAIN slots
         /\ handles[h].age = 0 => slots[handles[h].id.index].addr = handles[h].obj
<1> DEFINE t == handles[h]
<1>1. t \in Handle /\ t.age \in 0 .. GenMask /\ t.id \in Id /\ t.id.gen \in Gen
  BY DEF TypeOK, Handle, Id
<1>2. HandleTellsAge(slots, t)
  BY DEF HandlesTellAge
<1>3. t.id.index \in DOMAIN slots /\ slots[t.id.index].gen \in Gen
  BY <1>2, SlotFacts DEF HandleTellsAge, TypeOK
<1>4. slots[t.id.index].gen \in {t.id.gen + t.age, t.id.gen + t.age - GenMask}
  BY <1>2 DEF HandleTellsAge
<1>5. t.age = 0 => SlotFor(t.id) /\ slots[t.id.index].addr = t.obj
  <2> SUFFICES ASSUME t.age = 0 PROVE SlotFor(t.id) /\ slots[t.id.index].addr = t.obj
    OBVIOUS
  <2>1. slots[t.id.index].gen = t.id.gen
    BY <1>1, <1>3, <1>4, TableAssumption DEF Gen
  <2> QED
    BY <1>2, <1>3, <2>1 DEF HandleTellsAge, SlotFor
<1>6. SlotFor(t.id) => t.age = 0
  <2> SUFFICES ASSUME SlotFor(t.id) PROVE t.age = 0
    OBVIOUS
  <2>1. slots[t.id.index].gen = t.id.gen
    BY DEF SlotFor
  <2> QED
    BY <1>1, <1>3, <1>4, <2>1, TableAssumption DEF Gen
<1> QED
  BY <1>1, <1>3, <1>5, <1>6

\* A handle is as right after a step that vacates no slot.
LEMMA StillTellsAge ==
  ASSUME NEW t, HandleTellsAge(slots, t), DOMAIN slots' = DOMAIN slots,
         \A j \in DOMAIN slots : /\ slots'[j].gen = slots[j].gen /\ slots'[j].addr = slots[j].addr
                                 /\ slots[j].count > 0 => slots'[j].count > 0
  PROVE  HandleTellsAge(slots', t)
  BY DEF HandleTellsAge

\* One that vacates slot i takes it, and the ids for it, one generation on.
LEMMA VacateTellsAge ==
  ASSUME TypeOK, TableConsistent, NEW i \in DOMAIN slots, Vacate(i),
         NEW hs \in [Handles -> Handle], NEW h \in Handles, Owned(hs, h), HandleTellsAge(slots, hs[h])
  PROVE  HandleTellsAge(slots', Aged(hs, i)[h])
<1> DEFINE t == hs[h]
           u == Aged(hs, i)[h]
<1>1. /\ DOMAIN slots' = DOMAIN slots
      /\ slots'[i].gen = NextGeneration(slots[i].gen)
      /\ \A j \in DOMAIN slots \ {i} : slots'[j] = slots[j]
  BY VacateEffect DEF TableInv, TypeOK
<1>2. slots[i].gen \in Gen /\ t.id.gen \in Gen /\ t.age \in 0 .. GenMask
  BY SlotFacts DEF TypeOK, Handle, Id
<1>3. /\ u.id = t.id /\ u.obj = t.obj /\ u.gone = t.gone
      /\ u.age = IF t.id.index = i /\ t.age < GenMask THEN t.age + 1 ELSE t.age
  BY AgedFacts
<1> HIDE DEF u
<1>4. CASE t.id.index = i /\ t.age < GenMask
  <2>1. slots[i].gen \in {t.id.gen + t.age, t.id.gen + t.age - GenMask}
    BY <1>4 DEF HandleTellsAge
  <2>2. NextGeneration(slots[i].gen) \in {t.id.gen + t.age + 1, t.id.gen + t.age + 1 - GenMask}
    BY <1>2, <1>4, <2>1, TableAssumption DEF NextGeneration, Gen
  <2>3. u.age # 0 /\ u.age = t.age + 1 /\ u.id.index = i /\ i \in DOMAIN slots'
    BY <1>1, <1>2, <1>3, <1>4, TableAssumption
  <2>4. slots'[i].gen \in {u.id.gen + u.age, u.id.gen + u.age - GenMask}
    BY <1>1, <1>2, <1>3, <2>2, <2>3, TableAssumption DEF Gen
  <2> QED
    BY <2>3, <2>4 DEF HandleTellsAge, u
<1>5. CASE t.id.index = i /\ ~(t.age < GenMask)
  <2>1. u.age = t.age /\ ~(u.age < GenMask) /\ u.age # 0 /\ u.id.index \in DOMAIN slots'
    BY <1>1, <1>2, <1>3, <1>5, TableAssumption
  <2> QED
    BY <2>1 DEF HandleTellsAge, u
<1>6. CASE t.id.index # i
  <2>1. u.age = t.age /\ t.id.index \in DOMAIN slots \ {i}
    BY <1>3, <1>6 DEF HandleTellsAge
  <2> QED
    BY <1>1, <1>3, <2>1 DEF HandleTellsAge, u
<1> QED
  BY <1>4, <1>5, <1>6

\* While no reference is between count and pin, a step that moves no address and
\* no pin keeps the two together.
LEMMA PinsStay ==
  ASSUME IInv, DOMAIN slots' = DOMAIN slots,
         \A j \in DOMAIN slots : /\ slots'[j].addr = slots[j].addr
                                 /\ slots'[j].count = 0 => slots[j].count = 0,
         pins' = pins, pc # "pin", pc' # "pin"
  PROVE  Vacant' /\ Pinning' /\ PinsMatchTable'
<1>1. Vacant' /\ Pinning'
  BY DEF IInv, Vacant, Pinning
<1>2. Granted = {} /\ Granted' = {}
  BY DEF Granted
<1> QED
  BY <1>1, <1>2 DEF IInv, PinsMatchTable, PinAt

\* wrapped is up from the first age that reaches GenMask.
LEMMA WrapShows ==
  ASSUME handles' \in [Handles -> Handle], wrapped' = WrapSeen(handles')
  PROVE  AgesSeen' /\ wrapped' \in BOOLEAN /\ (wrapped => wrapped')
<1>1. wrapped' \in BOOLEAN /\ (wrapped => wrapped')
  BY Zenon DEF WrapSeen
<1>2. ASSUME ~wrapped', NEW h \in Handles PROVE handles'[h].age < GenMask
  <2>1. handles'[h].age # GenMask
    BY <1>2, Zenon DEF WrapSeen
  <2>2. handles'[h].age \in 0 .. GenMask
    BY DEF Handle
  <2> QED
    BY <2>1, <2>2, TableAssumption
<1> QED
  BY <1>1, <1>2 DEF AgesSeen

\* A slot is vacated, the pin goes with it, and the handles age.
LEMMA VacateLayers ==
  ASSUME IInv, NEW i \in DOMAIN slots, slots[i].count > 0, Vacate(i),
         NEW hs \in [Handles -> Handle], \A h \in Handles : Owned(hs, h) => hs[h] = handles[h],
         handles' = Aged(hs, i), wrapped' = WrapSeen(handles'),
         pc' # "pin", Granted \subseteq {i},
         PinAt(i)' = NoObj, \A j \in Index \ {i} : PinAt(j)' = PinAt(j)
  PROVE  /\ TableInv' /\ Vacant' /\ Pinning' /\ PinsMatchTable' /\ HandlesTellAge' /\ AgesSeen'
         /\ handles' \in [Handles -> Handle] /\ wrapped' \in BOOLEAN /\ (wrapped => wrapped')
<1>0. TypeOK /\ TableConsistent
  BY DEF IInv
<1>1. TableInv /\ TableInv' /\ i \in Index
  BY VacatePreservesTable, SlotFacts DEF IInv, TypeOK, TableInv
<1>2. /\ DOMAIN slots' = DOMAIN slots
      /\ slots'[i].count = 0 /\ slots'[i].addr = NoObj
      /\ \A j \in DOMAIN slots \ {i} : slots'[j] = slots[j]
  BY <1>1, VacateEffect
<1>3. Vacant' /\ Pinning'
  BY <1>2 DEF IInv, Vacant, Pinning
<1>4. PinsMatchTable'
  <2> SUFFICES ASSUME NEW j \in Index
               PROVE  PinAt(j)' = IF j \in DOMAIN slots' THEN slots'[j].addr ELSE NoObj
    BY DEF PinsMatchTable
  <2>1. CASE j = i
    BY <1>2, <2>1
  <2>2. CASE j # i
    <3>1. PinAt(j) = IF j \in DOMAIN slots THEN slots[j].addr ELSE NoObj
      BY <2>2 DEF IInv, PinsMatchTable
    <3> QED
      BY <1>2, <2>2, <3>1
  <2> QED
    BY <2>1, <2>2
<1>5. /\ handles' \in [Handles -> Handle]
      /\ \A h \in Handles : Owned(handles', h) <=> Owned(hs, h)
  BY AgedFacts
<1>6. HandlesTellAge'
  <2> SUFFICES ASSUME NEW h \in Handles, Owned(handles', h) PROVE HandleTellsAge(slots', handles'[h])
    BY DEF HandlesTellAge, Owned
  <2>1. Owned(hs, h) /\ hs[h] = handles[h] /\ Owned(handles, h)
    BY <1>5 DEF Owned
  <2>2. HandleTellsAge(slots, hs[h])
    BY <2>1 DEF IInv, HandlesTellAge
  <2>3. HandleTellsAge(slots', Aged(hs, i)[h])
    BY <1>0, <2>1, <2>2, VacateTellsAge
  <2>4. handles'[h] = Aged(hs, i)[h]
    OBVIOUS
  <2> QED
    BY <2>3, <2>4
<1>7. AgesSeen' /\ wrapped' \in BOOLEAN /\ (wrapped => wrapped')
  BY <1>5, WrapShows
<1> QED
  BY <1>1, <1>3, <1>4, <1>5, <1>6, <1>7

\* Vacating a slot ends the acquisition of every handle of it, and of no other.
LEMMA HoldersAfter ==
  ASSUME NEW hs \in [Handles -> Handle], NEW i
  PROVE  /\ HoldersAt(Aged(hs, i), i) = {}
         /\ \A j : j # i => HoldersAt(Aged(hs, i), j) = HoldersAt(hs, j)
<1>1. ASSUME NEW h \in Handles, NEW j
      PROVE  h \in HoldersAt(Aged(hs, i), j) <=> h \in HoldersAt(hs, j) /\ j # i
  <2>1. /\ Owned(Aged(hs, i), h) <=> Owned(hs, h)
        /\ Aged(hs, i)[h].id = hs[h].id
        /\ Owned(hs, h) => Aged(hs, i)[h].age = IF hs[h].id.index = i /\ hs[h].age < GenMask
                                                THEN hs[h].age + 1 ELSE hs[h].age
    BY AgedFacts
  <2>2. hs[h].age \in 0 .. GenMask
    BY DEF Handle
  <2>3. Owned(hs, h) => (Aged(hs, i)[h].age = 0 <=> hs[h].age = 0 /\ hs[h].id.index # i)
    BY <2>1, <2>2, TableAssumption
  <2> QED
    BY <2>1, <2>3 DEF HoldersAt
<1>2. \A j : HoldersAt(Aged(hs, i), j) \subseteq Handles /\ HoldersAt(hs, j) \subseteq Handles
  BY DEF HoldersAt
<1> QED
  BY <1>1, <1>2

LEMMA UnpinnedFacts ==
  ASSUME pins \in Seq(Objs \cup {NoObj}), NEW i, pins' = Unpinned(i)
  PROVE  /\ pins' \in Seq(Objs \cup {NoObj})
         /\ PinAt(i)' = NoObj /\ \A j \in Index \ {i} : PinAt(j)' = PinAt(j)
  BY DEF Unpinned, PinAt

\* What giving one acquisition back does to the slots.
OneLess(id) ==
  /\ DOMAIN slots' = DOMAIN slots
  /\ \A j \in DOMAIN slots :
       /\ slots'[j].count = IF SlotFor(id) /\ j = id.index THEN slots[j].count - 1 ELSE slots[j].count
       /\ slots'[j].count > 0 => slots'[j].gen = slots[j].gen

\* ... and to the handles.
HandlesAre(hs, vacated, i) ==
  /\ handles' \in [Handles -> Handle]
  /\ handles' = IF vacated THEN Aged(hs, i) ELSE hs

LEMMA ReleaseLayers ==
  ASSUME IInv, NEW id \in Id, NEW hs \in [Handles -> Handle],
         \A h \in Handles : Owned(hs, h) => hs[h] = handles[h],
         Release(id, hs), pc # "pin", pc' # "pin"
  PROVE  /\ TableInv' /\ Vacant' /\ Pinning' /\ PinsMatchTable' /\ HandlesTellAge' /\ AgesSeen'
         /\ pins' \in Seq(Objs \cup {NoObj}) /\ wrapped' \in BOOLEAN /\ (wrapped => wrapped')
         /\ OneLess(id) /\ HandlesAre(hs, LastOne(id), id.index)
<1> DEFINE i == id.index
<1>0. /\ TypeOK /\ TableInv /\ pins \in Seq(Objs \cup {NoObj}) /\ wrapped' = WrapSeen(handles')
      /\ Drop(id)
  BY DEF IInv, TypeOK, TableInv, Release
<1>1. TableInv'
  BY <1>0, DropPreservesTable
<1>2. CASE LastOne(id)
  <2>1. i \in DOMAIN slots /\ slots[i].count = 1 /\ slots[i].count > 0 /\ Vacate(i) /\ SlotFor(id)
    BY <1>0, <1>2 DEF Drop, LastOne, SlotFor
  <2>2. handles' = Aged(hs, i) /\ pins' = Unpinned(i)
    BY <1>2 DEF Release
  <2>3. /\ pins' \in Seq(Objs \cup {NoObj})
        /\ PinAt(i)' = NoObj /\ \A j \in Index \ {i} : PinAt(j)' = PinAt(j)
    BY <1>0, <2>2, UnpinnedFacts
  <2>4. Granted \subseteq {i}
    BY DEF Granted
  <2>5. /\ Vacant' /\ Pinning' /\ PinsMatchTable' /\ HandlesTellAge' /\ AgesSeen'
        /\ handles' \in [Handles -> Handle] /\ wrapped' \in BOOLEAN /\ (wrapped => wrapped')
    BY <1>0, <2>1, <2>2, <2>3, <2>4, VacateLayers
  <2>6. OneLess(id)
    BY <1>0, <2>1, VacateEffect DEF OneLess
  <2> QED
    BY <1>1, <1>2, <2>2, <2>3, <2>5, <2>6 DEF HandlesAre
<1>3. CASE ~LastOne(id)
  <2>1. handles' = hs /\ pins' = pins
    BY <1>3 DEF Release
  <2>2. /\ DOMAIN slots' = DOMAIN slots
        /\ \A j \in DOMAIN slots :
             /\ slots'[j].addr = slots[j].addr /\ slots'[j].gen = slots[j].gen
             /\ slots'[j].count = 0 => slots[j].count = 0
             /\ slots[j].count > 0 => slots'[j].count > 0
             /\ slots'[j].count = IF SlotFor(id) /\ j = i THEN slots[j].count - 1 ELSE slots[j].count
    <3>1. CASE SlotFor(id)
      <4>1. /\ DOMAIN slots' = DOMAIN slots
            /\ slots[i].count > 1
            /\ slots'[i].count = slots[i].count - 1
            /\ slots'[i].addr = slots[i].addr /\ slots'[i].gen = slots[i].gen
            /\ \A j \in DOMAIN slots \ {i} : slots'[j] = slots[j]
        BY <1>0, <1>3, <3>1, DropCounts
      <4>2. i \in DOMAIN slots /\ slots[i].count \in 0 .. MaxCount
        BY <1>0, <3>1, SlotFacts DEF SlotFor, TableInv
      <4> QED
        BY <3>1, <4>1, <4>2, TableAssumption
    <3>2. CASE ~SlotFor(id)
      <4>1. slots' = slots
        BY <1>0, <1>3, <3>2 DEF Drop, LastOne, table
      <4> QED
        BY <3>2, <4>1
    <3> QED
      BY <3>1, <3>2
  <2>3. Vacant' /\ Pinning' /\ PinsMatchTable'
    BY <2>1, <2>2, PinsStay
  <2>4. HandlesTellAge'
    <3> SUFFICES ASSUME NEW h \in Handles, Owned(handles', h) PROVE HandleTellsAge(slots', handles'[h])
      BY DEF HandlesTellAge, Owned
    <3>1. handles'[h] = handles[h] /\ Owned(handles, h)
      BY <2>1 DEF Owned
    <3>2. HandleTellsAge(slots, handles[h])
      BY <3>1 DEF IInv, HandlesTellAge
    <3>3. HandleTellsAge(slots', handles[h])
      BY <2>2, <3>2, StillTellsAge
    <3> QED
      BY <3>1, <3>3
  <2>5. handles' \in [Handles -> Handle]
    BY <2>1
  <2>6. AgesSeen' /\ wrapped' \in BOOLEAN /\ (wrapped => wrapped')
    BY <1>0, <2>5, WrapShows
  <2>7. OneLess(id)
    BY <2>2 DEF OneLess
  <2> QED
    BY <1>0, <1>1, <1>3, <2>1, <2>3, <2>4, <2>5, <2>6, <2>7 DEF HandlesAre
<1> QED
  BY <1>2, <1>3

-----------------------------------------------------------------------------
(* The steps.                                                              *)

LEMMA HandlesStay ==
  ASSUME NEW hs \in [Handles -> Handle], NEW vacated, NEW i, HandlesAre(hs, vacated, i)
  PROVE  /\ handles' \in [Handles -> Handle]
         /\ \A h \in Handles :
              /\ Owned(handles', h) <=> Owned(hs, h)
              /\ handles'[h].state = hs[h].state
              /\ Owned(hs, h) /\ ~(vacated /\ hs[h].id.index = i) => handles'[h].age = hs[h].age
<1>1. CASE vacated
  <2>1. handles' = Aged(hs, i)
    BY <1>1 DEF HandlesAre
  <2>2. \A h \in Handles :
          /\ Owned(Aged(hs, i), h) <=> Owned(hs, h)
          /\ Aged(hs, i)[h].state = hs[h].state
          /\ Owned(hs, h) =>
               Aged(hs, i)[h].age = IF hs[h].id.index = i /\ hs[h].age < GenMask
                                    THEN hs[h].age + 1 ELSE hs[h].age
    BY AgedFacts
  <2> QED
    BY <1>1, <2>1, <2>2 DEF HandlesAre, Owned
<1>2. CASE ~vacated
  BY <1>2 DEF HandlesAre, Owned
<1> QED
  BY <1>1, <1>2

LEMMA HoldersStay ==
  ASSUME NEW hs \in [Handles -> Handle], NEW vacated, NEW i, HandlesAre(hs, vacated, i)
  PROVE  /\ vacated => HoldersAt(handles', i) = {}
         /\ \A j : ~(vacated /\ j = i) => HoldersAt(handles', j) = HoldersAt(hs, j)
<1>1. CASE vacated
  <2>1. handles' = Aged(hs, i)
    BY <1>1 DEF HandlesAre
  <2> QED
    BY <1>1, <2>1, HoldersAfter
<1>2. CASE ~vacated
  BY <1>2 DEF HandlesAre
<1> QED
  BY <1>1, <1>2

LEMMA BalanceAfter ==
  ASSUME ~wrapped' => \A i \in DOMAIN slots' : slots'[i].count = OwedAt(i)'
  PROVE  AcquisitionsBalance'
  BY DEF AcquisitionsBalance, OwedAt, EntriesAt, HoldersAt, Owned

\* Where nothing is between count and pin, the ledger and the handles owe it all.
LEMMA BalanceAt ==
  ASSUME IInv, ~wrapped, pc # "pin", NEW i \in DOMAIN slots
  PROVE  /\ slots[i].count = Cardinality(EntriesAt(ledger, i)) + Cardinality(HoldersAt(handles, i))
         /\ IsFiniteSet(EntriesAt(ledger, i)) /\ Cardinality(EntriesAt(ledger, i)) \in Nat
         /\ IsFiniteSet(HoldersAt(handles, i)) /\ Cardinality(HoldersAt(handles, i)) \in Nat
<1>1. Granted \cap {i} = {}
  BY DEF Granted
<1>2. Cardinality(Granted \cap {i}) = 0
  BY <1>1, FS_EmptySet
<1>3. slots[i].count = OwedAt(i)
  BY BalanceForm DEF IInv
<1>4. ledger \in Seq(Id)
  BY DEF IInv, TypeOK
<1>5. IsFiniteSet(EntriesAt(ledger, i)) /\ Cardinality(EntriesAt(ledger, i)) \in Nat
  BY <1>4, EntriesAreFinite
<1>6. IsFiniteSet(HoldersAt(handles, i)) /\ Cardinality(HoldersAt(handles, i)) \in Nat
  BY HoldersAreFinite
<1> QED
  BY <1>2, <1>3, <1>5, <1>6 DEF OwedAt

LEMMA OwedAfter ==
  ASSUME NEW i, pc' # "pin", ledger' \in Seq(Id)
  PROVE  /\ OwedAt(i)' = Cardinality(EntriesAt(ledger', i)) + Cardinality(HoldersAt(handles', i))
         /\ Cardinality(EntriesAt(ledger', i)) \in Nat
         /\ Cardinality(HoldersAt(handles', i)) \in Nat
<1>1. Granted' \cap {i} = {}
  BY DEF Granted
<1>2. Cardinality(Granted' \cap {i}) = 0
  BY <1>1, FS_EmptySet
<1>3. Cardinality(EntriesAt(ledger', i)) \in Nat
  BY EntriesAreFinite
<1>4. Cardinality(HoldersAt(handles', i)) \in Nat
  BY HoldersAreFinite
<1>5. OwedAt(i)' = Cardinality(EntriesAt(ledger', i)) + Cardinality(Granted' \cap {i})
                   + Cardinality(HoldersAt(handles', i))
  BY DEF OwedAt, EntriesAt, HoldersAt, Owned
<1> QED
  BY <1>2, <1>3, <1>4, <1>5

\* pending_refs_release and ReleaseRefs: an entry of the ledger is given back.
LEMMA EntryGivenBack ==
  ASSUME IInv, NEW k \in DOMAIN ledger, Release(ledger[k], handles),
         Without(ledger, ledger', k), pc \in {"rollback", "giveback"},
         UNCHANGED <<pending, pc, batch, todo, at, minted, back, lowered>>
  PROVE  IInv'
<1> DEFINE id == ledger[k]
           i == id.index
<1>0. /\ TypeOK /\ ledger \in Seq(Id) /\ ledger' \in Seq(Id) /\ id \in Id
      /\ handles \in [Handles -> Handle] /\ pc # "pin" /\ pc' # "pin" /\ TableInv
      /\ lowered \in SUBSET Handles
  BY DEF IInv, TypeOK, TableInv, Without
<1>1. /\ TableInv' /\ Vacant' /\ Pinning' /\ PinsMatchTable' /\ HandlesTellAge' /\ AgesSeen'
      /\ pins' \in Seq(Objs \cup {NoObj}) /\ wrapped' \in BOOLEAN /\ (wrapped => wrapped')
      /\ OneLess(id) /\ HandlesAre(handles, LastOne(id), i)
  BY <1>0, ReleaseLayers
<1>2. /\ handles' \in [Handles -> Handle]
      /\ \A h \in Handles :
           /\ Owned(handles', h) <=> Owned(handles, h)
           /\ handles'[h].state = handles[h].state
           /\ Owned(handles, h) /\ ~(LastOne(id) /\ handles[h].id.index = i)
                => handles'[h].age = handles[h].age
  BY <1>0, <1>1, HandlesStay
<1>3. ASSUME ~wrapped
      PROVE  /\ SlotFor(id) /\ i \in DOMAIN slots /\ k \in EntriesAt(ledger, i)
             /\ slots[i].count = Cardinality(EntriesAt(ledger, i)) + Cardinality(HoldersAt(handles, i))
             /\ IsFiniteSet(EntriesAt(ledger, i)) /\ Cardinality(EntriesAt(ledger, i)) \in Nat \ {0}
             /\ IsFiniteSet(HoldersAt(handles, i)) /\ Cardinality(HoldersAt(handles, i)) \in Nat
  <2>1. SlotFor(id) /\ i \in DOMAIN slots /\ k \in EntriesAt(ledger, i)
    BY <1>3 DEF IInv, LedgerIsCurrent, SlotFor, EntriesAt
  <2>2. /\ slots[i].count = Cardinality(EntriesAt(ledger, i)) + Cardinality(HoldersAt(handles, i))
        /\ IsFiniteSet(EntriesAt(ledger, i)) /\ Cardinality(EntriesAt(ledger, i)) \in Nat
        /\ IsFiniteSet(HoldersAt(handles, i)) /\ Cardinality(HoldersAt(handles, i)) \in Nat
    BY <1>0, <1>3, <2>1, BalanceAt
  <2>3. Cardinality(EntriesAt(ledger, i)) > 0
    BY <2>1, <2>2, OneMember
  <2> QED
    BY <2>1, <2>2, <2>3
<1>4. AcquisitionsBalance'
  <2> SUFFICES ASSUME ~wrapped', NEW j \in DOMAIN slots' PROVE slots'[j].count = OwedAt(j)'
    BY BalanceAfter
  <2>1. ~wrapped /\ j \in DOMAIN slots
    BY <1>1 DEF OneLess
  <2>2. /\ OwedAt(j)' = Cardinality(EntriesAt(ledger', j)) + Cardinality(HoldersAt(handles', j))
        /\ Cardinality(EntriesAt(ledger', j)) \in Nat /\ Cardinality(HoldersAt(handles', j)) \in Nat
    BY <1>0, OwedAfter
  <2>3. /\ slots[j].count = Cardinality(EntriesAt(ledger, j)) + Cardinality(HoldersAt(handles, j))
        /\ Cardinality(EntriesAt(ledger, j)) \in Nat /\ Cardinality(HoldersAt(handles, j)) \in Nat
    BY <1>0, <2>1, BalanceAt
  <2>4. Cardinality(EntriesAt(ledger', j)) =
          Cardinality(EntriesAt(ledger, j)) - IF i = j THEN 1 ELSE 0
    BY DEF Without
  <2>5. slots'[j].count = IF j = i THEN slots[j].count - 1 ELSE slots[j].count
    BY <1>1, <1>3, <2>1 DEF OneLess
  <2>6. CASE LastOne(id) /\ j = i
    <3>1. slots[j].count = 1 /\ Cardinality(EntriesAt(ledger, j)) \in Nat \ {0}
      BY <1>3, <2>1, <2>6 DEF LastOne
    <3>2. HoldersAt(handles', j) = {}
      BY <1>0, <1>1, <2>6, HoldersStay
    <3>3. Cardinality(HoldersAt(handles', j)) = 0
      BY <3>2, FS_EmptySet
    <3> QED
      BY <2>2, <2>3, <2>4, <2>5, <2>6, <3>1, <3>3
  <2>7. CASE ~(LastOne(id) /\ j = i)
    <3>1. HoldersAt(handles', j) = HoldersAt(handles, j)
      BY <1>0, <1>1, <2>7, HoldersStay
    <3> QED
      BY <2>2, <2>3, <2>4, <2>5, <3>1
  <2> QED
    BY <2>6, <2>7
<1>5. LedgerIsCurrent'
  <2> SUFFICES ASSUME ~wrapped', NEW j \in DOMAIN ledger' PROVE SlotFor(ledger[j])'
    BY DEF LedgerIsCurrent
  <2>1. PICK o \in DOMAIN ledger \ {k} : ledger'[j] = ledger[o]
    BY DEF Without
  <2> DEFINE d == ledger[o]
  <2>2. ~wrapped /\ SlotFor(d) /\ d.index \in DOMAIN slots /\ slots[d.index].count > 0
    BY <1>1, <2>1 DEF IInv, LedgerIsCurrent, SlotFor
  <2>3. slots'[d.index].count > 0
    <3>1. CASE d.index = i
      <4>1. o \in EntriesAt(ledger, i) /\ o # k
        BY <2>1, <3>1 DEF EntriesAt
      <4>2. Cardinality(EntriesAt(ledger, i)) > 1
        BY <1>3, <2>2, <4>1, TwoMembers
      <4>3. slots[i].count > 1 /\ slots[i].count \in Int
        BY <1>3, <2>2, <4>2
      <4> QED
        BY <1>1, <2>2, <3>1, <4>3 DEF OneLess
    <3>2. CASE d.index # i
      BY <1>1, <2>2, <3>2 DEF OneLess
    <3> QED
      BY <3>1, <3>2
  <2>4. slots'[d.index].gen = slots[d.index].gen /\ d.index \in DOMAIN slots'
    BY <1>1, <2>2, <2>3 DEF OneLess
  <2> QED
    BY <2>1, <2>2, <2>3, <2>4 DEF SlotFor
<1>6. LoweredAreOwned'
  <2> SUFFICES ASSUME NEW h \in lowered
               PROVE  Owned(handles', h) /\ (~wrapped' => handles'[h].age = 0)
    BY DEF LoweredAreOwned, Owned
  <2>1. h \in Handles /\ Owned(handles, h) /\ (~wrapped => handles[h].age = 0)
    BY <1>0 DEF IInv, LoweredAreOwned
  <2>2. ASSUME ~wrapped' PROVE handles'[h].age = 0
    <3>1. ~wrapped /\ handles[h].age = 0
      BY <1>1, <2>1, <2>2
    <3>2. ~(LastOne(id) /\ handles[h].id.index = i)
      <4> SUFFICES ASSUME handles[h].id.index = i PROVE ~LastOne(id)
        OBVIOUS
      <4>1. h \in HoldersAt(handles, i)
        BY <2>1, <3>1 DEF HoldersAt
      <4>2. Cardinality(HoldersAt(handles, i)) > 0
        BY <1>3, <3>1, <4>1, OneMember
      <4>3. slots[i].count > 1
        BY <1>3, <3>1, <4>2
      <4> QED
        BY <4>3 DEF LastOne
    <3> QED
      BY <1>2, <2>1, <3>1, <3>2
  <2> QED
    BY <1>2, <2>1, <2>2
<1>7. InStep'
  BY <1>2 DEF IInv, InStep, TypeOK
<1>8. Queues'
  <2>1. \A k2 \in DOMAIN batch : batch[k2] \in Handles
    BY DEF IInv, TypeOK
  <2>2. \A k2 \in DOMAIN pending : pending[k2] \in Handles
    BY DEF IInv, TypeOK
  <2>3. \A h \in Handles : Owned(handles, h)' <=> Owned(handles, h)
    BY <1>2 DEF Owned
  <2> QED
    BY <1>2, <2>1, <2>2, <2>3 DEF IInv, Queues
<1>9. TypeOK'
  <2>1. TableType' /\ TableConsistent'
    BY <1>1 DEF TableInv
  <2> QED
    BY <1>0, <1>1, <1>2, <2>1 DEF TypeOK
<1> QED
  BY <1>1, <1>4, <1>5, <1>6, <1>7, <1>8, <1>9 DEF IInv, TableInv

LEMMA RollbackOneStep == IInv /\ RollbackOne => IInv'
<1> SUFFICES ASSUME IInv, RollbackOne PROVE IInv'
  OBVIOUS
<1>1. ledger \in Seq(Id) /\ ledger # <<>>
  BY DEF IInv, TypeOK, RollbackOne
<1>2. Len(ledger) \in DOMAIN ledger /\ Without(ledger, ledger', Len(ledger))
  BY <1>1, LastEntryGoes DEF RollbackOne
<1> QED
  BY <1>2, EntryGivenBack DEF RollbackOne

LEMMA GiveBackOneStep == IInv /\ GiveBackOne => IInv'
<1> SUFFICES ASSUME IInv, GiveBackOne PROVE IInv'
  OBVIOUS
<1>1. ledger \in Seq(Id)
  BY DEF IInv, TypeOK
<1>2. PICK k \in DOMAIN ledger :
        /\ Release(ledger[k], handles)
        /\ ledger' = SubSeq(ledger, 1, k - 1) \o SubSeq(ledger, k + 1, Len(ledger))
  BY DEF GiveBackOne
<1>3. Without(ledger, ledger', k)
  BY <1>1, <1>2, EntryGoes
<1> QED
  BY <1>2, <1>3, EntryGivenBack DEF GiveBackOne

LEMMA NoHandleType == NoHandle \in Handle /\ NoHandle.state = "none"
  BY TableAssumption DEF NoHandle, Handle, Id, Index, Gen

\* An empty ledger owes nothing.
LEMMA NoEntries ==
  ASSUME NEW i
  PROVE  EntriesAt(<<>>, i) = {} /\ Cardinality(EntriesAt(<<>>, i)) = 0
<1>1. EntriesAt(<<>>, i) = {}
  BY DEF EntriesAt
<1> QED
  BY <1>1, FS_EmptySet

\* Drain: the acquisition of a handle that the Go collector queued.
LEMMA DrainOneStep == IInv /\ DrainOne => IInv'
<1> SUFFICES ASSUME IInv, DrainOne PROVE IInv'
  OBVIOUS
<1> DEFINE h == Head(batch)
           id == handles[h].id
           i == id.index
           hs == [handles EXCEPT ![h] = NoHandle]
<1>0. /\ TypeOK /\ TableInv /\ handles \in [Handles -> Handle]
      /\ batch \in Seq(Handles) /\ batch # <<>> /\ pending \in Seq(Handles)
      /\ pc = "drain" /\ pc' = "drain" /\ pc # "pin" /\ pc' # "pin"
      /\ ledger = <<>> /\ ledger' = <<>> /\ lowered = {} /\ minted = {}
      /\ ledger \in Seq(Id) /\ ledger' \in Seq(Id)
      /\ Release(id, hs)
  BY DEF IInv, TypeOK, TableInv, InStep, DrainOne, transfer
<1>1. /\ h \in Handles /\ 1 \in DOMAIN batch /\ batch[1] = h
      /\ Owned(handles, h)
  BY <1>0 DEF IInv, Queues
<1>2. id \in Id
  BY <1>0, <1>1 DEF Handle
<1>3. /\ hs \in [Handles -> Handle] /\ ~Owned(hs, h)
      /\ \A g \in Handles \ {h} : hs[g] = handles[g] /\ (Owned(hs, g) <=> Owned(handles, g))
  BY <1>0, <1>1, NoHandleType DEF Owned
<1>4. \A g \in Handles : Owned(hs, g) => hs[g] = handles[g]
  BY <1>3
<1> HIDE DEF hs
<1>5. /\ TableInv' /\ Vacant' /\ Pinning' /\ PinsMatchTable' /\ HandlesTellAge' /\ AgesSeen'
      /\ pins' \in Seq(Objs \cup {NoObj}) /\ wrapped' \in BOOLEAN /\ (wrapped => wrapped')
      /\ OneLess(id) /\ HandlesAre(hs, LastOne(id), i)
  BY <1>0, <1>2, <1>3, <1>4, ReleaseLayers
<1>6. /\ handles' \in [Handles -> Handle]
      /\ \A g \in Handles : (Owned(handles', g) <=> Owned(hs, g)) /\ handles'[g].state = hs[g].state
  BY <1>3, <1>5, HandlesStay
<1>7. AcquisitionsBalance'
  <2> SUFFICES ASSUME ~wrapped', NEW j \in DOMAIN slots' PROVE slots'[j].count = OwedAt(j)'
    BY BalanceAfter
  <2>1. ~wrapped /\ j \in DOMAIN slots
    BY <1>5 DEF OneLess
  <2>2. /\ OwedAt(j)' = Cardinality(EntriesAt(ledger', j)) + Cardinality(HoldersAt(handles', j))
        /\ Cardinality(HoldersAt(handles', j)) \in Nat
    BY <1>0, OwedAfter
  <2>3. /\ slots[j].count = Cardinality(EntriesAt(ledger, j)) + Cardinality(HoldersAt(handles, j))
        /\ IsFiniteSet(HoldersAt(handles, j)) /\ Cardinality(HoldersAt(handles, j)) \in Nat
    BY <1>0, <2>1, BalanceAt
  <2>4. Cardinality(EntriesAt(ledger, j)) = 0 /\ Cardinality(EntriesAt(ledger', j)) = 0
    BY <1>0, NoEntries
  <2>5. handles[h].age < GenMask
    BY <1>1, <2>1 DEF IInv, AgesSeen
  <2>6. SlotFor(id) <=> handles[h].age = 0
    BY <1>0, <1>1, <2>5, FreshIfCurrent DEF IInv
  <2>7. h \in HoldersAt(handles, j) <=> SlotFor(id) /\ j = i
    BY <1>1, <2>6 DEF HoldersAt
  <2>8. HoldersAt(hs, j) = HoldersAt(handles, j) \ {h}
    BY <1>3 DEF HoldersAt
  <2>9. Cardinality(HoldersAt(hs, j)) =
          IF SlotFor(id) /\ j = i THEN Cardinality(HoldersAt(handles, j)) - 1
          ELSE Cardinality(HoldersAt(handles, j))
    <3>1. Cardinality(HoldersAt(handles, j) \ {h}) =
            IF h \in HoldersAt(handles, j) THEN Cardinality(HoldersAt(handles, j)) - 1
            ELSE Cardinality(HoldersAt(handles, j))
      BY <2>3, FS_RemoveElement
    <3> QED
      BY <2>7, <2>8, <3>1
  <2>10. slots'[j].count = Cardinality(HoldersAt(hs, j))
    <3>1. slots'[j].count = IF SlotFor(id) /\ j = i THEN slots[j].count - 1 ELSE slots[j].count
      BY <1>5, <2>1 DEF OneLess
    <3> QED
      BY <2>3, <2>4, <2>9, <3>1
  <2>11. CASE LastOne(id) /\ j = i
    <3>1. slots'[j].count = 0
      BY <1>5, <2>1, <2>11 DEF OneLess, LastOne
    <3>2. HoldersAt(handles', j) = {}
      BY <1>3, <1>5, <2>11, HoldersStay
    <3>3. Cardinality(HoldersAt(handles', j)) = 0
      BY <3>2, FS_EmptySet
    <3> QED
      BY <2>2, <2>4, <3>1, <3>3
  <2>12. CASE ~(LastOne(id) /\ j = i)
    <3>1. HoldersAt(handles', j) = HoldersAt(hs, j)
      BY <1>3, <1>5, <2>12, HoldersStay
    <3> QED
      BY <2>2, <2>4, <2>10, <3>1
  <2> QED
    BY <2>11, <2>12
<1>8. LedgerIsCurrent' /\ LoweredAreOwned'
  BY <1>0 DEF LedgerIsCurrent, LoweredAreOwned, DrainOne
<1>9. InStep'
  BY <1>0 DEF InStep, DrainOne, transfer
<1>10. batch' \in Seq(Handles) /\ Len(batch') = Len(batch) - 1 /\ Len(batch) \in Nat
       /\ \A k \in DOMAIN batch' : k + 1 \in DOMAIN batch /\ k + 1 # 1 /\ batch'[k] = batch[k + 1]
  <2>1. batch' = Tail(batch)
    BY DEF DrainOne
  <2>2. /\ Tail(batch) \in Seq(Handles) /\ Len(Tail(batch)) = Len(batch) - 1
        /\ \A k \in 1 .. Len(Tail(batch)) : Tail(batch)[k] = batch[k + 1]
    BY <1>0, HeadTailProperties
  <2>3. Len(batch) \in Nat /\ DOMAIN batch = 1 .. Len(batch) /\ DOMAIN Tail(batch) = 1 .. Len(Tail(batch))
    BY <1>0, <2>2
  <2> QED
    BY <2>1, <2>2, <2>3
<1>11. Queues'
  <2>1. ASSUME NEW g \in Handles, g # h, Owned(handles, g), handles[g].state = "queued"
        PROVE  Owned(handles', g) /\ handles'[g].state = "queued"
    BY <1>3, <1>6, <2>1
  <2>2. ASSUME NEW k \in DOMAIN batch'
        PROVE  batch'[k] \in Handles /\ Owned(handles', batch'[k]) /\ handles'[batch'[k]].state = "queued"
    <3>1. batch[k + 1] # h /\ batch[k + 1] \in Handles
      BY <1>0, <1>1, <1>10 DEF IInv, Queues
    <3>2. Owned(handles, batch[k + 1]) /\ handles[batch[k + 1]].state = "queued"
      BY <1>10 DEF IInv, Queues
    <3> QED
      BY <1>10, <2>1, <3>1, <3>2
  <2>3. pending' = pending
    BY DEF DrainOne
  <2>4. ASSUME NEW k \in DOMAIN pending
        PROVE  Owned(handles', pending[k]) /\ handles'[pending[k]].state = "queued"
    <3>1. pending[k] # h /\ pending[k] \in Handles
      BY <1>0, <1>1 DEF IInv, Queues
    <3>2. Owned(handles, pending[k]) /\ handles[pending[k]].state = "queued"
      BY DEF IInv, Queues
    <3> QED
      BY <2>1, <3>1, <3>2
  <2>5. \A j, k \in DOMAIN batch' : batch'[j] = batch'[k] => j = k
    <3> SUFFICES ASSUME NEW j \in DOMAIN batch', NEW k \in DOMAIN batch', batch'[j] = batch'[k]
                 PROVE  j = k
      OBVIOUS
    <3>1. j + 1 = k + 1
      BY <1>10 DEF IInv, Queues
    <3>2. j \in Nat /\ k \in Nat
      BY <1>10
    <3> QED
      BY <3>1, <3>2
  <2>6. \A j \in DOMAIN batch', k \in DOMAIN pending : batch'[j] # pending[k]
    BY <1>10 DEF IInv, Queues
  <2>7. \A j, k \in DOMAIN pending : pending[j] = pending[k] => j = k
    BY DEF IInv, Queues
  <2> QED
    BY <2>2, <2>3, <2>4, <2>5, <2>6, <2>7 DEF Queues, Owned
<1>12. TypeOK'
  <2>1. TableType'
    BY <1>5 DEF TableInv
  <2>2. UNCHANGED <<pending, pc, back, todo, ledger, at, minted, lowered>>
    BY DEF DrainOne, transfer
  <2> QED
    BY <1>0, <1>5, <1>6, <1>10, <2>1, <2>2 DEF TypeOK
<1> QED
  BY <1>5, <1>7, <1>8, <1>9, <1>11, <1>12 DEF IInv, TableInv

-----------------------------------------------------------------------------
(* The steps that leave the table and the root list alone.                 *)

\* Handles may change state, and lose an object that no acquisition is for.
QuietHandles ==
  /\ handles' \in [Handles -> Handle]
  /\ \A h \in Handles :
       /\ Owned(handles', h) <=> Owned(handles, h)
       /\ Owned(handles, h) =>
            /\ handles'[h].id = handles[h].id /\ handles'[h].obj = handles[h].obj
            /\ handles'[h].age = handles[h].age
            /\ handles'[h].gone = handles[h].gone \/ handles[h].age # 0

Quiet ==
  /\ UNCHANGED <<roots, wrapped, ledger>>
  /\ QuietHandles
  /\ (pc' = pc /\ todo' = todo) \/ (pc # "pin" /\ pc' # "pin")

LEMMA QuietLayers ==
  ASSUME IInv, Quiet
  PROVE  /\ TableInv' /\ pins' \in Seq(Objs \cup {NoObj}) /\ wrapped' \in BOOLEAN /\ ledger' \in Seq(Id)
         /\ handles' \in [Handles -> Handle]
         /\ Vacant' /\ Pinning' /\ PinsMatchTable' /\ HandlesTellAge' /\ AgesSeen'
         /\ LedgerIsCurrent' /\ AcquisitionsBalance'
<1>0. /\ slots' = slots /\ byAddr' = byAddr /\ free' = free /\ pins' = pins
      /\ wrapped' = wrapped /\ ledger' = ledger /\ QuietHandles
      /\ handles' \in [Handles -> Handle]
  BY DEF Quiet, QuietHandles, roots, table
<1>1. TableInv'
  BY <1>0, UnchangedTableInv DEF IInv, TypeOK, TableInv, table
<1>2. Granted' = Granted
  BY <1>0 DEF Quiet, Granted, IdFor
<1>3. Vacant' /\ LedgerIsCurrent'
  BY <1>0 DEF IInv, Vacant, LedgerIsCurrent, SlotFor
<1>4. Pinning'
  BY <1>0 DEF IInv, Quiet, Pinning, PinAt
<1>5. PinsMatchTable'
  BY <1>0, <1>2 DEF IInv, PinsMatchTable, PinAt
<1>6. HandlesTellAge'
  <2> SUFFICES ASSUME NEW h \in Handles, Owned(handles', h) PROVE HandleTellsAge(slots', handles'[h])
    BY DEF HandlesTellAge, Owned
  <2>1. /\ Owned(handles, h)
        /\ handles'[h].id = handles[h].id /\ handles'[h].obj = handles[h].obj
        /\ handles'[h].age = handles[h].age
        /\ handles'[h].gone = handles[h].gone \/ handles[h].age # 0
    BY <1>0 DEF QuietHandles
  <2>2. HandleTellsAge(slots, handles[h])
    BY <2>1 DEF IInv, HandlesTellAge
  <2> QED
    BY <1>0, <2>1, <2>2 DEF HandleTellsAge
<1>7. AgesSeen'
  <2> SUFFICES ASSUME ~wrapped', NEW h \in Handles, Owned(handles', h)
               PROVE  handles'[h].age < GenMask
    BY DEF AgesSeen, Owned
  <2>1. ~wrapped /\ Owned(handles, h) /\ handles'[h].age = handles[h].age
    BY <1>0 DEF QuietHandles
  <2> QED
    BY <2>1 DEF IInv, AgesSeen
<1>8. \A i : HoldersAt(handles', i) = HoldersAt(handles, i)
  BY <1>0 DEF QuietHandles, HoldersAt
<1>9. AcquisitionsBalance'
  <2> SUFFICES ASSUME ~wrapped', NEW i \in DOMAIN slots' PROVE slots'[i].count = OwedAt(i)'
    BY BalanceAfter
  <2>1. OwedAt(i)' = Cardinality(EntriesAt(ledger', i)) + Cardinality(Granted' \cap {i})
                     + Cardinality(HoldersAt(handles', i))
    BY DEF OwedAt, EntriesAt, HoldersAt, Owned
  <2>2. OwedAt(i)' = OwedAt(i)
    BY <1>0, <1>2, <1>8, <2>1 DEF OwedAt
  <2> QED
    BY <1>0, <2>2, BalanceForm DEF IInv
<1>10. ledger' \in Seq(Id) /\ pins' \in Seq(Objs \cup {NoObj}) /\ wrapped' \in BOOLEAN
  BY <1>0 DEF IInv, TypeOK
<1> QED
  BY <1>0, <1>1, <1>3, <1>4, <1>5, <1>6, <1>7, <1>9, <1>10

LEMMA HandlesUnchanged == TypeOK /\ UNCHANGED handles => QuietHandles
  BY DEF TypeOK, QuietHandles, Owned

\* Steps of the operation that only move it on, and change no handle.
OnlyControl ==
  \/ Begin \/ DrainDone \/ ReturnEarly \/ Trap
  \/ AddRefFails \/ RollbackDone \/ CommitDone \/ DecodeDone \/ GiveBackDone
  \/ \E objs \in Transfers, to \in {"idle", "callback"} : Convert(objs, to)

LEMMA ControlIsQuiet == IInv /\ OnlyControl => Quiet /\ UNCHANGED handles
<1> SUFFICES ASSUME IInv, OnlyControl PROVE Quiet /\ UNCHANGED handles
  OBVIOUS
<1>1. UNCHANGED <<roots, wrapped, ledger, handles>> /\ pc # "pin" /\ pc' # "pin"
  <2>1. CASE Begin
    BY <2>1 DEF Begin, transfer
  <2>2. CASE DrainDone
    BY <2>2 DEF DrainDone, transfer
  <2>3. CASE ReturnEarly
    BY <2>3 DEF ReturnEarly, transfer
  <2>4. CASE Trap
    BY <2>4 DEF Trap, transfer
  <2>5. CASE AddRefFails
    BY <2>5 DEF AddRefFails, AcquireRefused, transfer, roots
  <2>6. CASE RollbackDone
    BY <2>6 DEF RollbackDone, AfterFailure
  <2>7. CASE CommitDone
    BY <2>7 DEF CommitDone
  <2>8. CASE DecodeDone
    BY <2>8 DEF DecodeDone, transfer
  <2>9. CASE GiveBackDone
    BY <2>9 DEF GiveBackDone, IInv, TypeOK
  <2>10. ASSUME NEW objs \in Transfers, NEW to \in {"idle", "callback"}, Convert(objs, to)
         PROVE  UNCHANGED <<roots, wrapped, ledger, handles>> /\ pc # "pin" /\ pc' # "pin"
    BY <2>10 DEF Convert
  <2> QED
    BY <2>1, <2>2, <2>3, <2>4, <2>5, <2>6, <2>7, <2>8, <2>9, <2>10 DEF OnlyControl
<1> QED
  BY <1>1, HandlesUnchanged DEF Quiet, IInv

\* Where the transfer and the queue stand after such a step.
LEMMA ControlShape ==
  ASSUME IInv, OnlyControl
  PROVE  /\ pending' \in Seq(Handles) /\ batch' \in Seq(Handles)
         /\ pc' \in PCs /\ back' \in {"idle", "callback", "guest"}
         /\ todo' \in Seq(Objs) /\ at' \in Nat
         /\ minted' \in SUBSET Handles /\ lowered' \in SUBSET Handles
         /\ InStep' /\ Queues' /\ lowered' \subseteq lowered
<1>0. handles' = handles /\ TypeOK /\ InStep /\ Queues
  BY ControlIsQuiet DEF IInv
<1> DEFINE Goal ==
         /\ pending' \in Seq(Handles) /\ batch' \in Seq(Handles)
         /\ pc' \in PCs /\ back' \in {"idle", "callback", "guest"}
         /\ todo' \in Seq(Objs) /\ at' \in Nat
         /\ minted' \in SUBSET Handles /\ lowered' \in SUBSET Handles
         /\ InStep' /\ Queues' /\ lowered' \subseteq lowered
<1>1. CASE Begin
  <2>1. batch' = pending /\ pending' = <<>> /\ batch = <<>>
    BY <1>0, <1>1 DEF Begin, InStep
  <2>2. Queues'
    BY <1>0, <2>1 DEF Queues, Owned
  <2> QED
    BY <1>0, <1>1, <2>1, <2>2 DEF Begin, TypeOK, InStep, PCs, transfer
<1>2. CASE DrainDone
  BY <1>0, <1>2 DEF DrainDone, TypeOK, InStep, Queues, PCs, transfer, Owned
<1>3. CASE ReturnEarly
  BY <1>0, <1>3 DEF ReturnEarly, TypeOK, InStep, Queues, PCs, transfer, Owned
<1>4. CASE Trap
  BY <1>0, <1>4 DEF Trap, TypeOK, InStep, Queues, PCs, transfer, Owned
<1>5. CASE AddRefFails
  BY <1>0, <1>5 DEF AddRefFails, TypeOK, InStep, Queues, PCs, transfer, Owned
<1>6. CASE RollbackDone
  BY <1>0, <1>6 DEF RollbackDone, AfterFailure, TypeOK, InStep, Queues, PCs, Owned
<1>7. CASE CommitDone
  BY <1>0, <1>7 DEF CommitDone, TypeOK, InStep, Queues, PCs, Owned
<1>8. CASE DecodeDone
  BY <1>0, <1>8 DEF DecodeDone, TypeOK, InStep, Queues, PCs, transfer, Owned
<1>9. CASE GiveBackDone
  BY <1>0, <1>9 DEF GiveBackDone, TypeOK, InStep, Queues, PCs, Owned
<1>10. ASSUME NEW objs \in Transfers, NEW to \in {"idle", "callback"}, Convert(objs, to)
       PROVE  Goal
  <2>1. objs \in Seq(Objs)
    BY TransferAssumption DEF Transfers
  <2> QED
    BY <1>0, <1>10, <2>1 DEF Convert, TypeOK, InStep, Queues, PCs, Owned
<1> QED
  BY <1>1, <1>2, <1>3, <1>4, <1>5, <1>6, <1>7, <1>8, <1>9, <1>10 DEF OnlyControl

LEMMA ControlStep == IInv /\ OnlyControl => IInv'
<1> SUFFICES ASSUME IInv, OnlyControl PROVE IInv'
  OBVIOUS
<1>1. Quiet /\ handles' = handles /\ wrapped' = wrapped
  BY ControlIsQuiet DEF Quiet
<1>2. /\ TableInv' /\ pins' \in Seq(Objs \cup {NoObj}) /\ wrapped' \in BOOLEAN /\ ledger' \in Seq(Id)
      /\ handles' \in [Handles -> Handle]
      /\ Vacant' /\ Pinning' /\ PinsMatchTable' /\ HandlesTellAge' /\ AgesSeen'
      /\ LedgerIsCurrent' /\ AcquisitionsBalance'
  BY <1>1, QuietLayers
<1>3. /\ pending' \in Seq(Handles) /\ batch' \in Seq(Handles)
      /\ pc' \in PCs /\ back' \in {"idle", "callback", "guest"}
      /\ todo' \in Seq(Objs) /\ at' \in Nat
      /\ minted' \in SUBSET Handles /\ lowered' \in SUBSET Handles
      /\ InStep' /\ Queues' /\ lowered' \subseteq lowered
  BY ControlShape
<1>4. TypeOK'
  BY <1>2, <1>3 DEF TypeOK, TableInv
<1>5. LoweredAreOwned'
  BY <1>1, <1>3 DEF IInv, LoweredAreOwned, Owned
<1> QED
  BY <1>2, <1>3, <1>4, <1>5 DEF IInv, TableInv

-----------------------------------------------------------------------------
(* The steps that change handles and nothing else.                         *)

\* A pinned object keeps its address: the handles that stand for an acquisition
\* are not those whose object the guest collector takes.
LEMMA CollectStep == ASSUME IInv, NEW o \in Objs, Collect(o) PROVE IInv'
<1>0. /\ TypeOK /\ InStep /\ Queues /\ handles \in [Handles -> Handle]
      /\ pc \in {"guest", "commit", "pin"} /\ \A k \in DOMAIN todo : todo[k] # o
      /\ UNCHANGED <<roots, pending, pc, batch, todo, ledger, at, minted, back, lowered, wrapped>>
  BY DEF IInv, TypeOK, Collect, transfer
<1>1. ASSUME NEW h \in Handles
      PROVE  /\ handles'[h] \in Handle
             /\ handles'[h].state = handles[h].state /\ handles'[h].own = handles[h].own
             /\ handles'[h].id = handles[h].id /\ handles'[h].obj = handles[h].obj
             /\ handles'[h].age = handles[h].age
             /\ handles'[h].gone = handles[h].gone \/ (handles[h].own /\ handles[h].obj = o)
  <2> DEFINE t == handles[h]
  <2>1. t \in Handle /\ handles'[h] = IF t.own /\ t.obj = o THEN [t EXCEPT !.gone = TRUE] ELSE t
    BY <1>0 DEF Collect
  <2> HIDE DEF t
  <2>2. handles'[h] \in Handle
    <3>1. [t EXCEPT !.gone = TRUE] \in Handle
      BY <2>1 DEF Handle
    <3> QED
      BY <2>1, <3>1
  <2> QED
    BY <2>1, <2>2 DEF Handle, t
<1>2. ASSUME NEW h \in Handles, Owned(handles, h), handles[h].obj = o PROVE handles[h].age # 0
  <2> SUFFICES ASSUME handles[h].age = 0 PROVE FALSE
    OBVIOUS
  <2> DEFINE i == handles[h].id.index
  <2>1. HandleTellsAge(slots, handles[h]) /\ handles[h].id \in Id
    BY <1>0, <1>2 DEF IInv, HandlesTellAge, Handle
  <2>2. i \in DOMAIN slots /\ slots[i].addr = o /\ i \in Index
    BY <1>2, <2>1 DEF HandleTellsAge, Id
  <2>3. i \notin Granted
    <3> SUFFICES ASSUME i \in Granted  PROVE FALSE
      OBVIOUS
    <3>1. pc = "pin" /\ i = IdFor(Head(todo)).index
      BY DEF Granted
    <3>2. todo # <<>> /\ byAddr[Head(todo)] # 0
      BY <3>1 DEF IInv, Pinning
    <3>3. i = byAddr[Head(todo)]
      BY <3>1, <3>2 DEF IdFor
    <3>4. Head(todo) \in Objs /\ Head(todo) # o
      BY <1>0, <3>2 DEF TypeOK
    <3>5. slots[byAddr[Head(todo)]].addr = Head(todo)
      BY <3>2, <3>4 DEF IInv, TableInv, TableConsistent
    <3> HIDE DEF i
    <3> QED
      BY <2>2, <3>3, <3>4, <3>5
  <2>5. PinAt(i) = o
    BY <2>2, <2>3 DEF IInv, PinsMatchTable
  <2>4. i \in DOMAIN pins /\ pins[i] = o
    BY <2>5, TableAssumption DEF PinAt
  <2> QED
    BY <2>4 DEF Collect
<1>3. handles' \in [Handles -> Handle]
  <2>1. handles' = [h \in Handles |-> handles'[h]]
    BY DEF Collect
  <2> QED
    BY <1>1, <2>1
<1>4. QuietHandles
  BY <1>1, <1>2, <1>3 DEF QuietHandles, Owned
<1>5. Quiet
  BY <1>0, <1>4 DEF Quiet
<1>6. /\ TableInv' /\ pins' \in Seq(Objs \cup {NoObj}) /\ wrapped' \in BOOLEAN /\ ledger' \in Seq(Id)
      /\ Vacant' /\ Pinning' /\ PinsMatchTable' /\ HandlesTellAge' /\ AgesSeen'
      /\ LedgerIsCurrent' /\ AcquisitionsBalance'
  BY <1>5, QuietLayers
<1>7. TypeOK'
  BY <1>0, <1>3, <1>6 DEF TypeOK, TableInv
<1>8. InStep'
  BY <1>0 DEF InStep
<1>9. ASSUME NEW h \in Handles
      PROVE  /\ Owned(handles', h) <=> Owned(handles, h)
             /\ handles'[h].state = handles[h].state /\ handles'[h].age = handles[h].age
  BY <1>1 DEF Owned
<1>10. Queues'
  <2>1. /\ \A k \in DOMAIN batch : batch[k] \in Handles
        /\ \A k \in DOMAIN pending : pending[k] \in Handles
    BY <1>0 DEF TypeOK
  <2> QED
    BY <1>0, <1>9, <2>1 DEF Queues, Owned
<1>11. LoweredAreOwned'
  BY <1>0, <1>9 DEF IInv, TypeOK, LoweredAreOwned, Owned
<1> QED
  BY <1>6, <1>7, <1>8, <1>10, <1>11 DEF IInv, TableInv

\* The handles in dying, all live, become unreachable.
Dying(dying) ==
  /\ handles' = [h \in Handles |-> IF h \in dying THEN [handles[h] EXCEPT !.state = "dead"]
                                   ELSE handles[h]]

LEMMA DyingIsQuiet ==
  ASSUME TypeOK, NEW dying, \A h \in Handles : h \in dying => handles[h].state = "live", Dying(dying)
  PROVE  /\ QuietHandles
         /\ \A h \in Handles : handles'[h].state = IF h \in dying THEN "dead" ELSE handles[h].state
<1>1. ASSUME NEW h \in Handles
      PROVE  /\ handles'[h] \in Handle
             /\ handles'[h].state = IF h \in dying THEN "dead" ELSE handles[h].state
             /\ handles'[h].own = handles[h].own /\ handles'[h].id = handles[h].id
             /\ handles'[h].obj = handles[h].obj /\ handles'[h].age = handles[h].age
             /\ handles'[h].gone = handles[h].gone
  <2> DEFINE t == handles[h]
  <2>1. t \in Handle /\ handles'[h] = IF h \in dying THEN [t EXCEPT !.state = "dead"] ELSE t
    BY DEF TypeOK, Dying
  <2> HIDE DEF t
  <2>2. handles'[h] \in Handle
    <3>1. [t EXCEPT !.state = "dead"] \in Handle
      BY <2>1 DEF Handle
    <3> QED
      BY <2>1, <3>1
  <2> QED
    BY <2>1, <2>2 DEF Handle, t
<1>2. handles' \in [Handles -> Handle]
  <2>1. handles' = [h \in Handles |-> handles'[h]]
    BY DEF Dying
  <2> QED
    BY <1>1, <2>1
<1> QED
  BY <1>1, <1>2 DEF QuietHandles, Owned

\* What the decode of a transfer, and the program, do to the handles they lose.
LEMMA DyingStep ==
  ASSUME IInv, NEW dying, \A h \in Handles : h \in dying => handles[h].state = "live", Dying(dying),
         UNCHANGED <<roots, pending, batch, todo, ledger, at, minted, lowered, wrapped>>,
         \/ pc' = pc /\ back' = back /\ (pc = "decode" => minted \cap dying = {})
         \/ pc = "decode" /\ pc' = "giveback" /\ back' \in {"idle", "callback", "guest"}
  PROVE  IInv'
<1>0. TypeOK /\ InStep /\ Queues
  BY DEF IInv
<1>1. /\ QuietHandles
      /\ \A h \in Handles : handles'[h].state = IF h \in dying THEN "dead" ELSE handles[h].state
  BY <1>0, DyingIsQuiet
<1>2. Quiet /\ pc' \in PCs /\ back' \in {"idle", "callback", "guest"}
  BY <1>0, <1>1 DEF Quiet, TypeOK, PCs
<1>3. /\ TableInv' /\ pins' \in Seq(Objs \cup {NoObj}) /\ wrapped' \in BOOLEAN /\ ledger' \in Seq(Id)
      /\ handles' \in [Handles -> Handle]
      /\ Vacant' /\ Pinning' /\ PinsMatchTable' /\ HandlesTellAge' /\ AgesSeen'
      /\ LedgerIsCurrent' /\ AcquisitionsBalance'
  BY <1>2, QuietLayers
<1>4. TypeOK'
  BY <1>0, <1>2, <1>3 DEF TypeOK, TableInv
<1>5. InStep'
  <2>1. ASSUME pc' = "decode" PROVE \A h \in minted : handles'[h].state = "live"
    BY <1>0, <1>1, <2>1 DEF InStep, TypeOK
  <2> QED
    BY <1>0, <2>1 DEF InStep
<1>6. \A h \in Handles : Owned(handles', h) <=> Owned(handles, h)
  BY <1>1 DEF QuietHandles
<1>7. Queues'
  <2>1. ASSUME NEW h \in Handles, handles[h].state = "queued" PROVE handles'[h].state = "queued"
    BY <1>1, <2>1
  <2>2. /\ \A k \in DOMAIN batch : batch[k] \in Handles
        /\ \A k \in DOMAIN pending : pending[k] \in Handles
    BY <1>0 DEF TypeOK
  <2> QED
    BY <1>0, <1>6, <2>1, <2>2 DEF Queues, Owned
<1>8. LoweredAreOwned'
  <2> SUFFICES ASSUME NEW h \in lowered
               PROVE  Owned(handles', h) /\ (~wrapped => handles'[h].age = 0)
    BY <1>0 DEF LoweredAreOwned, Owned
  <2>1. h \in Handles /\ Owned(handles, h) /\ (~wrapped => handles[h].age = 0)
    BY <1>0 DEF IInv, LoweredAreOwned, TypeOK
  <2> QED
    BY <1>1, <2>1 DEF QuietHandles
<1> QED
  BY <1>3, <1>4, <1>5, <1>7, <1>8 DEF IInv, TableInv

LEMMA DropHandleStep == ASSUME IInv, NEW h \in Handles, DropHandle(h) PROVE IInv'
<1>1. Dying({h})
  <2>1. handles \in [Handles -> Handle] /\ handles' = [handles EXCEPT ![h] = [@ EXCEPT !.state = "dead"]]
    BY DEF IInv, TypeOK, DropHandle
  <2> QED
    BY <2>1 DEF Dying
<1> QED
  BY <1>1, DyingStep DEF DropHandle, transfer

LEMMA DecodeFailsStep == IInv /\ DecodeFails => IInv'
<1> SUFFICES ASSUME IInv, DecodeFails PROVE IInv'
  OBVIOUS
<1>1. Dying(minted) /\ \A h \in Handles : h \in minted => handles[h].state = "live"
  BY DEF IInv, InStep, DecodeFails, Dying
<1>2. back' \in {"idle", "callback", "guest"}
  BY DEF DecodeFails, AfterFailure
<1> QED
  BY <1>1, <1>2, DyingStep DEF DecodeFails

\* runtime.AddCleanup's callback: a lost handle of this owner joins the queue.
LEMMA CleanupStep == ASSUME IInv, NEW h \in Handles, Cleanup(h) PROVE IInv'
<1>0. /\ TypeOK /\ InStep /\ Queues /\ handles \in [Handles -> Handle] /\ handles[h].state = "dead"
      /\ UNCHANGED <<roots, pc, batch, todo, ledger, at, minted, back, lowered, wrapped>>
      /\ batch \in Seq(Handles) /\ pending \in Seq(Handles)
  BY DEF IInv, TypeOK, Cleanup, transfer
<1>1. /\ QuietHandles
      /\ \A g \in Handles \ {h} : handles'[g] = handles[g]
      /\ handles[h].own => handles'[h].state = "queued" /\ Owned(handles', h)
  <2> DEFINE t == handles[h]
  <2>1. CASE t.own
    <3>1. handles' = [handles EXCEPT ![h] = [t EXCEPT !.state = "queued"]]
      BY <1>0, <2>1 DEF Cleanup
    <3> DEFINE u == [t EXCEPT !.state = "queued"]
    <3>2. /\ u \in Handle /\ u.state = "queued" /\ u.own = t.own /\ u.id = t.id /\ u.obj = t.obj
          /\ u.age = t.age /\ u.gone = t.gone
      <4>1. t \in Handle
        BY <1>0
      <4> HIDE DEF t
      <4> QED
        BY <4>1 DEF Handle
    <3> HIDE DEF u
    <3>3. handles' \in [Handles -> Handle] /\ handles'[h] = u /\ \A g \in Handles \ {h} : handles'[g] = handles[g]
      BY <1>0, <3>1, <3>2 DEF u
    <3> QED
      BY <1>0, <2>1, <3>2, <3>3 DEF QuietHandles, Owned
  <2>2. CASE ~t.own
    <3>1. handles' = [handles EXCEPT ![h] = NoHandle]
      BY <2>2 DEF Cleanup
    <3>2. handles' \in [Handles -> Handle] /\ handles'[h] = NoHandle
          /\ \A g \in Handles \ {h} : handles'[g] = handles[g]
      BY <1>0, <3>1, NoHandleType
    <3> QED
      BY <1>0, <2>2, <3>2, NoHandleType DEF QuietHandles, Owned
  <2> QED
    BY <2>1, <2>2
<1>2. Quiet
  BY <1>0, <1>1 DEF Quiet
<1>3. /\ TableInv' /\ pins' \in Seq(Objs \cup {NoObj}) /\ wrapped' \in BOOLEAN /\ ledger' \in Seq(Id)
      /\ handles' \in [Handles -> Handle]
      /\ Vacant' /\ Pinning' /\ PinsMatchTable' /\ HandlesTellAge' /\ AgesSeen'
      /\ LedgerIsCurrent' /\ AcquisitionsBalance'
  BY <1>2, QuietLayers
<1>4. ASSUME NEW g \in Handles, Owned(handles, g), handles[g].state = "queued"
      PROVE  Owned(handles', g) /\ handles'[g].state = "queued" /\ g # h
  <2>1. g # h
    BY <1>0, <1>4
  <2> QED
    BY <1>1, <1>4, <2>1 DEF Owned
<1>5. ASSUME NEW k \in DOMAIN batch
      PROVE  batch[k] # h /\ Owned(handles', batch[k]) /\ handles'[batch[k]].state = "queued"
  BY <1>0, <1>4 DEF Queues
<1>6. ASSUME NEW k \in DOMAIN pending
      PROVE  pending[k] # h /\ Owned(handles', pending[k]) /\ handles'[pending[k]].state = "queued"
  BY <1>0, <1>4 DEF Queues
<1>7. pending' \in Seq(Handles) /\ Queues'
  <2>1. CASE handles[h].own
    <3>1. pending' = Append(pending, h)
      BY <2>1 DEF Cleanup
    <3>2. /\ Append(pending, h) \in Seq(Handles) /\ Len(pending) \in Nat
          /\ DOMAIN pending = 1 .. Len(pending)
          /\ DOMAIN Append(pending, h) = 1 .. Len(pending) + 1
          /\ \A k \in 1 .. Len(pending) : Append(pending, h)[k] = pending[k]
          /\ Append(pending, h)[Len(pending) + 1] = h
      BY <1>0
    <3> DEFINE p == Append(pending, h)
    <3>3. ASSUME NEW k \in DOMAIN p
          PROVE  \/ k \in DOMAIN pending /\ p[k] = pending[k]
                 \/ k = Len(pending) + 1 /\ p[k] = h
      BY <3>2
    <3>4. /\ p \in Seq(Handles) /\ pending' = p
      BY <3>1, <3>2
    <3> HIDE DEF p
    <3>5. ASSUME NEW k \in DOMAIN p PROVE Owned(handles', p[k]) /\ handles'[p[k]].state = "queued"
      BY <1>1, <1>6, <2>1, <3>3
    <3>6. ASSUME NEW j \in DOMAIN p, NEW k \in DOMAIN p, p[j] = p[k] PROVE j = k
      <4>1. \A m, n \in DOMAIN pending : pending[m] = pending[n] => m = n
        BY <1>0 DEF Queues
      <4>2. \A m \in DOMAIN pending : pending[m] # h
        BY <1>6
      <4> QED
        BY <3>3, <3>6, <4>1, <4>2
    <3>7. ASSUME NEW j \in DOMAIN batch, NEW k \in DOMAIN p PROVE batch[j] # p[k]
      BY <1>0, <1>5, <3>3 DEF Queues
    <3>8. \A j, k \in DOMAIN batch : batch[j] = batch[k] => j = k
      BY <1>0 DEF Queues
    <3>9. batch' = batch
      BY <1>0
    <3> QED
      BY <1>5, <3>4, <3>5, <3>6, <3>7, <3>8, <3>9 DEF Queues, Owned
  <2>2. CASE ~handles[h].own
    <3>1. pending' = pending /\ batch' = batch
      BY <1>0, <2>2 DEF Cleanup
    <3> QED
      BY <1>0, <1>5, <1>6, <3>1 DEF Queues, Owned
  <2> QED
    BY <2>1, <2>2
<1>8. TypeOK'
  BY <1>0, <1>3, <1>7 DEF TypeOK, TableInv
<1>9. InStep'
  <2>1. ASSUME pc' = "decode", NEW g \in minted PROVE handles'[g].state = "live"
    <3>1. handles[g].state = "live" /\ g \in Handles /\ g # h
      BY <1>0, <2>1 DEF InStep, TypeOK
    <3> QED
      BY <1>1, <3>1
  <2> QED
    BY <1>0, <2>1 DEF InStep
<1>10. LoweredAreOwned'
  <2> SUFFICES ASSUME NEW g \in lowered
               PROVE  Owned(handles', g) /\ (~wrapped => handles'[g].age = 0)
    BY <1>0 DEF LoweredAreOwned, Owned
  <2>1. g \in Handles /\ Owned(handles, g) /\ (~wrapped => handles[g].age = 0)
    BY <1>0 DEF IInv, LoweredAreOwned, TypeOK
  <2> QED
    BY <1>1, <2>1 DEF QuietHandles
<1> QED
  BY <1>3, <1>7, <1>8, <1>9, <1>10 DEF IInv, TableInv

\* Handles that Lookup accepts are given to the guest, at the start of an
\* operation or in what a callback returns.
LEMMA LowerStep ==
  ASSUME IInv, NEW hs \in SUBSET Handles, \A h \in hs : handles[h].state = "live" /\ Lookup(h),
         lowered' \in {hs, lowered \cup hs}, pc \in {"ready", "callback"}, pc' = "guest",
         UNCHANGED <<roots, pending, handles, batch, transfer, wrapped>>
  PROVE  IInv'
<1>0. TypeOK /\ InStep /\ Queues /\ HandlesTellAge
  BY DEF IInv
<1>1. /\ QuietHandles
      /\ UNCHANGED <<roots, pending, handles, batch, todo, ledger, at, minted, back, wrapped>>
  BY <1>0, HandlesUnchanged DEF transfer
<1>2. Quiet
  BY <1>1 DEF Quiet
<1>3. /\ TableInv' /\ pins' \in Seq(Objs \cup {NoObj}) /\ wrapped' \in BOOLEAN /\ ledger' \in Seq(Id)
      /\ handles' \in [Handles -> Handle]
      /\ Vacant' /\ Pinning' /\ PinsMatchTable' /\ HandlesTellAge' /\ AgesSeen'
      /\ LedgerIsCurrent' /\ AcquisitionsBalance'
  BY <1>2, QuietLayers
<1>4. lowered' \in SUBSET Handles /\ pc' \in PCs
  BY <1>0 DEF TypeOK, PCs
<1>5. TypeOK'
  BY <1>0, <1>1, <1>3, <1>4 DEF TypeOK, TableInv
<1>6. InStep'
  BY <1>0, <1>1 DEF InStep
<1>7. Queues'
  BY <1>0, <1>1 DEF Queues, Owned
<1>8. ASSUME NEW h \in hs PROVE Owned(handles, h) /\ (~wrapped => handles[h].age = 0)
  <2>1. h \in Handles /\ Owned(handles, h) /\ SlotFor(handles[h].id)
    BY DEF Lookup, Owned
  <2>2. ASSUME ~wrapped PROVE handles[h].age = 0
    <3>1. handles[h].age < GenMask
      BY <2>1, <2>2 DEF IInv, AgesSeen
    <3> QED
      BY <1>0, <2>1, <3>1, FreshIfCurrent
  <2> QED
    BY <2>1, <2>2
<1>9. LoweredAreOwned'
  <2> SUFFICES ASSUME NEW h \in lowered'
               PROVE  Owned(handles, h) /\ (~wrapped => handles[h].age = 0)
    BY <1>1 DEF LoweredAreOwned, Owned
  <2>1. h \in hs \/ h \in lowered
    OBVIOUS
  <2> QED
    BY <1>8, <2>1 DEF IInv, LoweredAreOwned
<1> QED
  BY <1>3, <1>5, <1>6, <1>7, <1>9 DEF IInv, TableInv

LEMMA StutterStep == IInv /\ UNCHANGED vars => IInv'
<1> SUFFICES ASSUME IInv, UNCHANGED vars PROVE IInv'
  OBVIOUS
<1>1. /\ TypeOK /\ QuietHandles
      /\ UNCHANGED <<roots, pending, handles, batch, pc, todo, ledger, at, minted, back, lowered, wrapped>>
  BY HandlesUnchanged DEF IInv, vars, transfer
<1>2. Quiet
  BY <1>1 DEF Quiet
<1>3. /\ TableInv' /\ pins' \in Seq(Objs \cup {NoObj}) /\ wrapped' \in BOOLEAN /\ ledger' \in Seq(Id)
      /\ handles' \in [Handles -> Handle]
      /\ Vacant' /\ Pinning' /\ PinsMatchTable' /\ HandlesTellAge' /\ AgesSeen'
      /\ LedgerIsCurrent' /\ AcquisitionsBalance'
  BY <1>2, QuietLayers
<1>4. TypeOK'
  BY <1>1, <1>3 DEF TypeOK, TableInv
<1>5. InStep' /\ Queues' /\ LoweredAreOwned'
  BY <1>1 DEF IInv, InStep, Queues, LoweredAreOwned, Owned
<1> QED
  BY <1>3, <1>4, <1>5 DEF IInv, TableInv

-----------------------------------------------------------------------------
(* Module.Release: every acquisition of an object at once.                 *)

LEMMA FreeHandleStep == ASSUME IInv, NEW h \in Handles, FreeHandle(h) PROVE IInv'
<1>id. PICK id : id = handles[h].id
  OBVIOUS
<1> DEFINE i == id.index
<1>0. /\ TypeOK /\ TableInv /\ InStep /\ Queues /\ handles \in [Handles -> Handle]
      /\ pc \in {"ready", "release"} /\ pc' = "release"
      /\ ledger = <<>> /\ lowered = {} /\ minted = {} /\ batch = <<>>
      /\ UNCHANGED <<pending, batch, todo, ledger, at, minted, back, lowered>>
      /\ ledger' \in Seq(Id) /\ Granted = {} /\ pins \in Seq(Objs \cup {NoObj})
      /\ pending \in Seq(Handles)
  <2>1. pc \in {"ready", "release"} /\ pc' = "release"
    BY DEF FreeHandle
  <2>2. UNCHANGED <<pending, batch, todo, ledger, at, minted, back, lowered>>
    BY DEF FreeHandle, transfer
  <2>3. TypeOK /\ TableInv /\ InStep /\ Queues
    BY DEF IInv, TypeOK, TableInv
  <2>4. /\ handles \in [Handles -> Handle] /\ pins \in Seq(Objs \cup {NoObj})
        /\ pending \in Seq(Handles) /\ ledger \in Seq(Id)
    BY <2>3 DEF TypeOK
  <2>5. ledger = <<>> /\ lowered = {} /\ minted = {} /\ batch = <<>>
    BY <2>1, <2>3 DEF InStep
  <2>6. Granted = {}
    BY <2>1 DEF Granted
  <2> QED
    BY <2>1, <2>2, <2>3, <2>4, <2>5, <2>6
<1>1. /\ InStep' /\ LoweredAreOwned' /\ LedgerIsCurrent'
  BY <1>0 DEF InStep, LoweredAreOwned, LedgerIsCurrent
<1>2. CASE ~Lookup(h)
  <2>1. UNCHANGED <<roots, handles, wrapped>>
    BY <1>2 DEF FreeHandle
  <2>2. Quiet
    <3>1. QuietHandles
      BY <1>0, <2>1, HandlesUnchanged
    <3>2. ledger' = ledger /\ pc # "pin" /\ pc' # "pin"
      BY <1>0
    <3> QED
      BY <2>1, <3>1, <3>2 DEF Quiet
  <2>3. /\ TableInv' /\ pins' \in Seq(Objs \cup {NoObj}) /\ wrapped' \in BOOLEAN /\ ledger' \in Seq(Id)
        /\ handles' \in [Handles -> Handle]
        /\ Vacant' /\ Pinning' /\ PinsMatchTable' /\ HandlesTellAge' /\ AgesSeen'
        /\ LedgerIsCurrent' /\ AcquisitionsBalance'
    BY <2>2, QuietLayers
  <2>4. TypeOK'
    BY <1>0, <2>3 DEF TypeOK, TableInv, PCs
  <2>5. Queues'
    BY <1>0, <2>1 DEF Queues, Owned
  <2> QED
    BY <1>1, <2>3, <2>4, <2>5 DEF IInv, TableInv
<1>3. CASE Lookup(h)
  <2>1. /\ SlotFor(id) /\ i \in DOMAIN slots /\ slots[i].count > 0
        /\ FreeAll(id) /\ Vacate(i) /\ pins' = Unpinned(i)
        /\ handles' = Aged(handles, i) /\ wrapped' = WrapSeen(handles')
    BY <1>id, <1>3 DEF FreeHandle, Lookup, FreeAll, SlotFor
  <2>2. /\ pins' \in Seq(Objs \cup {NoObj})
        /\ PinAt(i)' = NoObj /\ \A j \in Index \ {i} : PinAt(j)' = PinAt(j)
    BY <1>0, <2>1, UnpinnedFacts
  <2>3. /\ TableInv' /\ Vacant' /\ Pinning' /\ PinsMatchTable' /\ HandlesTellAge' /\ AgesSeen'
        /\ handles' \in [Handles -> Handle] /\ wrapped' \in BOOLEAN /\ (wrapped => wrapped')
    <3>1. pc' # "pin" /\ Granted \subseteq {i}
      BY <1>0
    <3>2. \A g \in Handles : Owned(handles, g) => handles[g] = handles[g]
      OBVIOUS
    <3> QED
      BY <1>0, <2>1, <2>2, <3>1, <3>2, VacateLayers
  <2>4. /\ DOMAIN slots' = DOMAIN slots /\ slots'[i].count = 0
        /\ \A j \in DOMAIN slots \ {i} : slots'[j] = slots[j]
    BY <1>0, <2>1, VacateEffect
  <2>5. AcquisitionsBalance'
    <3> SUFFICES ASSUME ~wrapped', NEW j \in DOMAIN slots' PROVE slots'[j].count = OwedAt(j)'
      BY BalanceAfter
    <3>1. ~wrapped /\ j \in DOMAIN slots
      BY <2>3, <2>4
    <3>2. /\ OwedAt(j)' = Cardinality(EntriesAt(ledger', j)) + Cardinality(HoldersAt(handles', j))
          /\ Cardinality(HoldersAt(handles', j)) \in Nat
      BY <1>0, OwedAfter
    <3>3. Cardinality(EntriesAt(ledger, j)) = 0 /\ Cardinality(EntriesAt(ledger', j)) = 0
      BY <1>0, NoEntries
    <3>4. CASE j = i
      <4>1. HoldersAt(handles', j) = {}
        BY <1>0, <2>1, <3>4, HoldersAfter
      <4>2. Cardinality(HoldersAt(handles', j)) = 0
        BY <4>1, FS_EmptySet
      <4> QED
        BY <2>4, <3>2, <3>3, <3>4, <4>2
    <3>5. CASE j # i
      <4>1. HoldersAt(handles', j) = HoldersAt(handles, j)
        BY <1>0, <2>1, <3>5, HoldersAfter
      <4>2. /\ slots[j].count = Cardinality(EntriesAt(ledger, j)) + Cardinality(HoldersAt(handles, j))
            /\ Cardinality(HoldersAt(handles, j)) \in Nat
        BY <1>0, <3>1, BalanceAt
      <4>3. slots'[j] = slots[j]
        BY <2>4, <3>1, <3>5
      <4> QED
        BY <3>2, <3>3, <4>1, <4>2, <4>3
    <3> QED
      BY <3>4, <3>5
  <2>6. \A g \in Handles : (Owned(handles', g) <=> Owned(handles, g)) /\ handles'[g].state = handles[g].state
    <3>1. \A g \in Handles : /\ Owned(Aged(handles, i), g) <=> Owned(handles, g)
                             /\ Aged(handles, i)[g].state = handles[g].state
      BY <1>0, AgedFacts
    <3> QED
      BY <2>1, <3>1 DEF Owned
  <2>7. Queues'
    <3>1. \A k \in DOMAIN pending : pending[k] \in Handles
      BY <1>0
    <3> QED
      BY <1>0, <2>6, <3>1 DEF Queues, Owned
  <2>8. TypeOK'
    BY <1>0, <2>2, <2>3 DEF TypeOK, TableInv, PCs
  <2> QED
    BY <1>1, <2>3, <2>5, <2>7, <2>8 DEF IInv, TableInv
<1> QED
  BY <1>2, <1>3

-----------------------------------------------------------------------------
(* ref_add: the host counts, then the guest pins.                          *)

LEMMA KeptTellsAge ==
  ASSUME NEW t, HandleTellsAge(slots, t), KeepsSlots
  PROVE  HandleTellsAge(slots', t)
  BY DEF HandleTellsAge, KeepsSlots

LEMMA KeptIsCurrent ==
  ASSUME NEW id, SlotFor(id), KeepsSlots
  PROVE  SlotFor(id)'
  BY DEF SlotFor, KeepsSlots

\* Nobody owes an acquisition of a slot that does not exist.
LEMMA NobodyAt ==
  ASSUME IInv, ~wrapped, NEW i, i \notin DOMAIN slots
  PROVE  Cardinality(EntriesAt(ledger, i)) = 0 /\ Cardinality(HoldersAt(handles, i)) = 0
<1>1. EntriesAt(ledger, i) = {}
  BY DEF IInv, LedgerIsCurrent, SlotFor, EntriesAt
<1>2. HoldersAt(handles, i) = {}
  BY DEF IInv, HandlesTellAge, HandleTellsAge, HoldersAt
<1> QED
  BY <1>1, <1>2, FS_EmptySet

LEMMA AddRefStep == IInv /\ AddRef => IInv'
<1> SUFFICES ASSUME IInv, AddRef PROVE IInv'
  OBVIOUS
<1>obj. PICK obj : obj = Head(todo)
  OBVIOUS
<1>0. /\ pc = "commit" /\ pc' = "pin" /\ todo # <<>> /\ Acquire(obj)
      /\ UNCHANGED <<pins, pending, handles, batch, todo, ledger, at, minted, back, lowered, wrapped>>
  BY <1>obj DEF AddRef, transfer
<1>1. TypeOK /\ TableInv /\ obj \in Objs /\ Vacant /\ InStep /\ ledger \in Seq(Id)
  BY <1>obj, <1>0 DEF IInv, TypeOK, TableInv
<1>2. TableInv' /\ KeepsSlots
  BY <1>0, <1>1, AcquirePreservesTable, AcquireIssues
<1>3. PICK i \in DOMAIN slots' :
           /\ IdFor(obj).index = i /\ byAddr'[obj] = i
           /\ DOMAIN slots' = DOMAIN slots \cup {i}
           /\ slots'[i].addr = obj
           /\ i \in DOMAIN slots =>
                /\ slots'[i].count = slots[i].count + 1 /\ slots'[i].gen = slots[i].gen
                /\ slots[i].addr = IF slots[i].count = 0 THEN NoObj ELSE obj
           /\ i \notin DOMAIN slots => slots'[i].count = 1
           /\ \A j \in DOMAIN slots \ {i} : slots'[j] = slots[j]
  BY <1>0, <1>1, AcquireCounts DEF Vacant
<1>4. i \in Index /\ i # 0 /\ (i \in DOMAIN slots => slots[i].count \in Nat)
  <2>1. TableType' => i \in 1 .. Len(slots') /\ Len(slots') \in Nat /\ Len(slots') <= MaxSlots
    BY DEF TableType
  <2>2. i \in Index /\ i # 0
    BY <1>2, <2>1, TableAssumption DEF TableInv, Index
  <2>3. i \in DOMAIN slots => slots[i].count \in 0 .. MaxCount
    BY <1>1, SlotFacts DEF TableInv
  <2> QED
    BY <2>2, <2>3, TableAssumption
<1>5. Granted = {} /\ Granted' = {i}
  <2>1. Granted' = {IdFor(Head(todo))'.index}
    BY <1>0 DEF Granted
  <2>2. IdFor(Head(todo))'.index = i
    BY <1>obj, <1>0, <1>3, <1>4 DEF IdFor
  <2> QED
    BY <1>0, <2>1, <2>2 DEF Granted
<1>6. Vacant'
  <2> SUFFICES ASSUME NEW j \in DOMAIN slots', slots'[j].count = 0 PROVE slots'[j].addr = NoObj
    BY DEF Vacant
  <2>1. j # i
    <3>1. slots'[i].count # 0
      BY <1>3, <1>4
    <3> QED
      BY <3>1
  <2> QED
    BY <1>1, <1>3, <2>1 DEF Vacant
<1>7. Pinning'
  <2>1. PinAt(i)' = IF i \in DOMAIN slots THEN slots[i].addr ELSE NoObj
    BY <1>0, <1>4, <1>5 DEF IInv, PinsMatchTable, PinAt
  <2>2. PinAt(i)' = IF slots'[i].count > 1 THEN obj ELSE NoObj
    <3>1. CASE i \in DOMAIN slots
      BY <1>3, <1>4, <2>1, <3>1
    <3>2. CASE i \notin DOMAIN slots
      BY <1>3, <2>1, <3>2
    <3> QED
      BY <3>1, <3>2
  <2>3. Head(todo') = obj /\ todo' # <<>> /\ byAddr'[Head(todo')] = i
    BY <1>obj, <1>0, <1>3
  <2> QED
    BY <1>4, <2>2, <2>3 DEF Pinning, PinAt
<1>8. PinsMatchTable'
  <2> SUFFICES ASSUME NEW j \in Index \ {i}
               PROVE  PinAt(j)' = IF j \in DOMAIN slots' THEN slots'[j].addr ELSE NoObj
    BY <1>5 DEF PinsMatchTable
  <2>1. PinAt(j)' = IF j \in DOMAIN slots THEN slots[j].addr ELSE NoObj
    BY <1>0, <1>5 DEF IInv, PinsMatchTable, PinAt
  <2> QED
    BY <1>3, <2>1
<1>9. HandlesTellAge'
  <2> SUFFICES ASSUME NEW h \in Handles, Owned(handles, h) PROVE HandleTellsAge(slots', handles[h])
    BY <1>0 DEF HandlesTellAge, Owned
  <2> QED
    BY <1>2, KeptTellsAge DEF IInv, HandlesTellAge
<1>10. LedgerIsCurrent'
  <2> SUFFICES ASSUME ~wrapped, NEW k \in DOMAIN ledger PROVE SlotFor(ledger[k])'
    BY <1>0 DEF LedgerIsCurrent
  <2>1. PICK d : d = ledger[k]
    OBVIOUS
  <2>2. SlotFor(d)
    BY <2>1 DEF IInv, LedgerIsCurrent
  <2>3. SlotFor(d)'
    BY <1>2, <2>2, KeptIsCurrent
  <2> QED
    BY <1>0, <2>1, <2>3
<1>11. AcquisitionsBalance'
  <2> SUFFICES ASSUME ~wrapped', NEW j \in DOMAIN slots' PROVE slots'[j].count = OwedAt(j)'
    BY BalanceAfter
  <2> DEFINE E == Cardinality(EntriesAt(ledger, j))
             H == Cardinality(HoldersAt(handles, j))
             G == Cardinality({i} \cap {j})
  <2>1. ~wrapped
    BY <1>0
  <2>2. OwedAt(j)' = E + G + H
    BY <1>0, <1>5 DEF OwedAt, EntriesAt, HoldersAt, Owned
  <2>3. G = IF j = i THEN 1 ELSE 0
    <3>1. /\ j \in {i} => Cardinality({i} \cap {j}) = 1
          /\ j \notin {i} => Cardinality({i} \cap {j}) = 0
      BY GrantedCounts
    <3> QED
      BY <3>1
  <2>4. j \in DOMAIN slots => slots[j].count = E + H /\ E \in Nat /\ H \in Nat
    BY <1>0, <2>1, BalanceAt
  <2>5. j \notin DOMAIN slots => E = 0 /\ H = 0 /\ j = i
    BY <1>3, <2>1, NobodyAt
  <2> HIDE DEF E, H, G
  <2>6. CASE j \in DOMAIN slots /\ j = i
    BY <1>3, <2>2, <2>3, <2>4, <2>6
  <2>7. CASE j \in DOMAIN slots /\ j # i
    BY <1>3, <2>2, <2>3, <2>4, <2>7
  <2>8. CASE j \notin DOMAIN slots
    BY <1>3, <2>2, <2>3, <2>5, <2>8
  <2> QED
    BY <2>6, <2>7, <2>8
<1>12. AgesSeen' /\ Queues' /\ LoweredAreOwned'
  BY <1>0 DEF IInv, AgesSeen, Queues, LoweredAreOwned, Owned
<1>13. InStep'
  BY <1>0, <1>1 DEF InStep
<1>14. TypeOK'
  BY <1>0, <1>1, <1>2 DEF TypeOK, TableInv, PCs
<1> QED
  BY <1>2, <1>6, <1>7, <1>8, <1>9, <1>10, <1>11, <1>12, <1>13, <1>14 DEF IInv, TableInv

\* The acquisition that ref_add holds while it pins.
LEMMA PinState ==
  ASSUME IInv, pc = "pin", NEW obj, obj = Head(todo), NEW i, i = byAddr[obj]
  PROVE  /\ obj \in Objs /\ i \in DOMAIN slots /\ i \in Index
         /\ slots[i].addr = obj /\ slots[i].count > 0 /\ slots[i].gen \in Gen
         /\ IdFor(obj) = [index |-> i, gen |-> slots[i].gen] /\ IdFor(obj) \in Id
         /\ SlotFor(IdFor(obj)) /\ Granted = {i}
         /\ PinAt(i) = IF slots[i].count > 1 THEN obj ELSE NoObj
<1>1. TypeOK /\ TableConsistent /\ Pinning /\ TableType
  BY DEF IInv, TypeOK
<1>2. todo # <<>> /\ i # 0 /\ PinAt(i) = IF slots[i].count > 1 THEN obj ELSE NoObj
  BY <1>1 DEF Pinning
<1>3. obj \in Objs
  BY <1>1, <1>2 DEF TypeOK
<1>4. i \in DOMAIN slots /\ slots[i].addr = obj /\ slots[i].count > 0
  BY <1>1, <1>2, <1>3 DEF TableConsistent
<1>5. i \in Index /\ slots[i].gen \in Gen
  BY <1>1, <1>4, SlotFacts
<1>6. IdFor(obj) = [index |-> i, gen |-> slots[i].gen] /\ IdFor(obj) \in Id
  BY <1>2, <1>4, <1>5 DEF IdFor, Id
<1>7. SlotFor(IdFor(obj)) /\ Granted = {i}
  BY <1>4, <1>6 DEF SlotFor, Granted
<1> QED
  BY <1>2, <1>3, <1>4, <1>5, <1>6, <1>7

\* With an acquisition between count and pin, all but that one is owed by the
\* ledger and the handles.
LEMMA BalanceWhilePinning ==
  ASSUME IInv, ~wrapped, NEW i, Granted = {i}, NEW j \in DOMAIN slots
  PROVE  /\ slots[j].count = Cardinality(EntriesAt(ledger, j)) + Cardinality(HoldersAt(handles, j))
                             + IF j = i THEN 1 ELSE 0
         /\ IsFiniteSet(EntriesAt(ledger, j)) /\ Cardinality(EntriesAt(ledger, j)) \in Nat
         /\ IsFiniteSet(HoldersAt(handles, j)) /\ Cardinality(HoldersAt(handles, j)) \in Nat
<1>1. Cardinality(Granted \cap {j}) = IF j = i THEN 1 ELSE 0
  <2>1. /\ j \in {i} => Cardinality({i} \cap {j}) = 1
        /\ j \notin {i} => Cardinality({i} \cap {j}) = 0
    BY GrantedCounts
  <2> QED
    BY <2>1
<1>2. slots[j].count = OwedAt(j)
  BY BalanceForm DEF IInv
<1>3. ledger \in Seq(Id)
  BY DEF IInv, TypeOK
<1>4. IsFiniteSet(EntriesAt(ledger, j)) /\ Cardinality(EntriesAt(ledger, j)) \in Nat
  BY <1>3, EntriesAreFinite
<1>5. IsFiniteSet(HoldersAt(handles, j)) /\ Cardinality(HoldersAt(handles, j)) \in Nat
  BY HoldersAreFinite
<1> QED
  BY <1>1, <1>2, <1>4, <1>5 DEF OwedAt

LEMMA PinRefStep == IInv /\ PinRef => IInv'
<1> SUFFICES ASSUME IInv, PinRef PROVE IInv'
  OBVIOUS
<1>obj. PICK obj : obj = Head(todo)
  OBVIOUS
<1>i. PICK i : i = byAddr[obj]
  OBVIOUS
<1>id. PICK id : id = IdFor(obj)
  OBVIOUS
<1>0. /\ pc = "pin" /\ pc' = "commit" /\ todo' = Tail(todo) /\ ledger' = Append(ledger, id)
      /\ UNCHANGED <<slots, byAddr, free, pending, handles, batch, at, minted, back, lowered, wrapped>>
      /\ pins' = [k \in 1 .. (IF Len(pins) < id.index THEN id.index ELSE Len(pins)) |->
                       IF k = id.index THEN obj ELSE PinAt(k)]
  BY <1>obj, <1>id DEF PinRef, table
<1>1. /\ TypeOK /\ TableInv /\ InStep /\ ledger \in Seq(Id)
      /\ pins \in Seq(Objs \cup {NoObj}) /\ todo \in Seq(Objs) /\ todo # <<>>
  BY <1>0 DEF IInv, TypeOK, TableInv, Pinning
<1>2. /\ obj \in Objs /\ i \in DOMAIN slots /\ i \in Index
      /\ slots[i].addr = obj /\ id.index = i /\ id \in Id
      /\ SlotFor(id) /\ Granted = {i}
  BY <1>obj, <1>i, <1>id, <1>0, PinState
<1>3. Granted' = {}
  BY <1>0 DEF Granted
<1>4. /\ pins' \in Seq(Objs \cup {NoObj})
      /\ \A k \in Index : PinAt(k)' = IF k = i THEN obj ELSE PinAt(k)
  <2> DEFINE m == IF Len(pins) < i THEN i ELSE Len(pins)
  <2>1. /\ Len(pins) \in Nat /\ DOMAIN pins = 1 .. Len(pins) /\ i \in Nat \ {0}
        /\ \A k \in DOMAIN pins : pins[k] \in Objs \cup {NoObj}
    BY <1>1, <1>2, TableAssumption DEF Index
  <2>2. m \in Nat /\ i \in 1 .. m /\ 1 .. Len(pins) \subseteq 1 .. m
    BY <2>1
  <2>3. pins' = [k \in 1 .. m |-> IF k = i THEN obj ELSE PinAt(k)]
    BY <1>0, <1>2
  <2> HIDE DEF m
  <2>4. \A k \in 1 .. m : (IF k = i THEN obj ELSE PinAt(k)) \in Objs \cup {NoObj}
    BY <1>2, <2>1 DEF PinAt
  <2>5. pins' \in Seq(Objs \cup {NoObj})
    BY <2>2, <2>3, <2>4
  <2>6. DOMAIN pins' = 1 .. m
    BY <2>3
  <2>7. ASSUME NEW k \in Index PROVE PinAt(k)' = IF k = i THEN obj ELSE PinAt(k)
    <3>1. PinAt(k)' = IF k \in 1 .. m THEN pins'[k] ELSE NoObj
      BY <2>6 DEF PinAt
    <3>2. k \in 1 .. m => pins'[k] = IF k = i THEN obj ELSE PinAt(k)
      BY <2>3
    <3>3. k \notin 1 .. m => k # i /\ PinAt(k) = NoObj
      BY <2>1, <2>2 DEF PinAt
    <3> QED
      BY <3>1, <3>2, <3>3
  <2> QED
    BY <2>5, <2>7
<1>5. TableInv'
  BY <1>0, <1>1, UnchangedTableInv DEF table
<1>6. Vacant' /\ Pinning'
  BY <1>0 DEF IInv, Vacant, Pinning
<1>7. PinsMatchTable'
  <2> SUFFICES ASSUME NEW j \in Index
               PROVE  PinAt(j)' = IF j \in DOMAIN slots' THEN slots'[j].addr ELSE NoObj
    BY DEF PinsMatchTable
  <2>1. CASE j = i
    BY <1>0, <1>2, <1>4, <2>1
  <2>2. CASE j # i
    <3>1. PinAt(j) = IF j \in DOMAIN slots THEN slots[j].addr ELSE NoObj
      BY <1>2, <2>2 DEF IInv, PinsMatchTable
    <3> QED
      BY <1>0, <1>4, <2>2, <3>1
  <2> QED
    BY <2>1, <2>2
<1>8. HandlesTellAge' /\ AgesSeen' /\ Queues' /\ LoweredAreOwned'
  BY <1>0 DEF IInv, HandlesTellAge, HandleTellsAge, AgesSeen, Queues, LoweredAreOwned, Owned
<1>9. /\ ledger' \in Seq(Id)
      /\ \A j : Cardinality(EntriesAt(ledger', j)) =
                  Cardinality(EntriesAt(ledger, j)) + IF i = j THEN 1 ELSE 0
      /\ \A k \in DOMAIN ledger' : ledger'[k] = id \/ (k \in DOMAIN ledger /\ ledger'[k] = ledger[k])
  BY <1>0, <1>1, <1>2, LedgerGrows
<1>10. LedgerIsCurrent'
  <2> SUFFICES ASSUME ~wrapped, NEW k \in DOMAIN ledger' PROVE SlotFor(ledger[k])'
    BY <1>0 DEF LedgerIsCurrent
  <2>1. PICK d : d = ledger'[k]
    OBVIOUS
  <2>2. SlotFor(d)
    BY <1>2, <1>9, <2>1 DEF IInv, LedgerIsCurrent
  <2> QED
    BY <1>0, <2>1, <2>2 DEF SlotFor
<1>11. AcquisitionsBalance'
  <2> SUFFICES ASSUME ~wrapped', NEW j \in DOMAIN slots' PROVE slots'[j].count = OwedAt(j)'
    BY BalanceAfter
  <2>1. ~wrapped /\ j \in DOMAIN slots /\ slots'[j] = slots[j]
    BY <1>0
  <2>2. OwedAt(j)' = Cardinality(EntriesAt(ledger', j)) + Cardinality(HoldersAt(handles', j))
    BY <1>0, <1>9, OwedAfter
  <2>3. Cardinality(EntriesAt(ledger', j)) =
          Cardinality(EntriesAt(ledger, j)) + IF i = j THEN 1 ELSE 0
    BY <1>9
  <2>4. HoldersAt(handles', j) = HoldersAt(handles, j)
    BY <1>0
  <2>5. /\ slots[j].count = Cardinality(EntriesAt(ledger, j)) + Cardinality(HoldersAt(handles, j))
                            + IF j = i THEN 1 ELSE 0
        /\ Cardinality(EntriesAt(ledger, j)) \in Nat /\ Cardinality(HoldersAt(handles, j)) \in Nat
    BY <1>2, <2>1, BalanceWhilePinning
  <2> QED
    BY <2>1, <2>2, <2>3, <2>4, <2>5
<1>12. InStep'
  BY <1>0, <1>1 DEF InStep
<1>13. todo' \in Seq(Objs)
  BY <1>0, <1>1
<1>14. TypeOK'
  BY <1>0, <1>1, <1>4, <1>5, <1>9, <1>13 DEF TypeOK, TableInv, PCs
<1> QED
  BY <1>5, <1>6, <1>7, <1>8, <1>10, <1>11, <1>12, <1>14 DEF IInv, TableInv

\* The pin could not be made: only an acquisition that is the slot's first has
\* to grow the list, so giving it back vacates the slot.
LEMMA GrowFailsStep == IInv /\ GrowFails => IInv'
<1> SUFFICES ASSUME IInv, GrowFails PROVE IInv'
  OBVIOUS
<1>obj. PICK obj : obj = Head(todo)
  OBVIOUS
<1>i. PICK i : i = byAddr[obj]
  OBVIOUS
<1>id. PICK id : id = IdFor(obj)
  OBVIOUS
<1>0. /\ pc = "pin" /\ pc' = "rollback" /\ id.index > Len(pins) /\ Drop(id)
      /\ handles' = IF LastOne(id) THEN Aged(handles, id.index) ELSE handles
      /\ UNCHANGED <<pending, batch, todo, ledger, at, minted, back, lowered>>
      /\ wrapped' = WrapSeen(handles')
  BY <1>obj, <1>id DEF GrowFails, transfer
<1>n. PICK n \in Len(pins) .. id.index - 1 : pins' = [k \in 1 .. n |-> PinAt(k)]
  BY <1>obj, <1>id DEF GrowFails
<1>1. /\ TypeOK /\ TableInv /\ InStep /\ Queues /\ ledger \in Seq(Id) /\ ledger' \in Seq(Id)
      /\ handles \in [Handles -> Handle]
      /\ pins \in Seq(Objs \cup {NoObj})
      /\ batch \in Seq(Handles) /\ pending \in Seq(Handles) /\ lowered \in SUBSET Handles
  BY <1>0 DEF IInv, TypeOK, TableInv
<1>2. /\ obj \in Objs /\ i \in DOMAIN slots /\ i \in Index
      /\ slots[i].count > 0 /\ id.index = i /\ id \in Id
      /\ SlotFor(id) /\ Granted = {i}
      /\ PinAt(i) = IF slots[i].count > 1 THEN obj ELSE NoObj
  BY <1>obj, <1>i, <1>id, <1>0, PinState
<1>3. /\ n \in Nat /\ i \notin 1 .. n /\ Len(pins) \in Nat /\ DOMAIN pins = 1 .. Len(pins)
      /\ 1 .. Len(pins) \subseteq 1 .. n /\ i \notin DOMAIN pins
  BY <1>0, <1>1, <1>2, <1>n, TableAssumption DEF Index
<1>4. /\ pins' \in Seq(Objs \cup {NoObj})
      /\ PinAt(i)' = NoObj /\ \A j \in Index \ {i} : PinAt(j)' = PinAt(j)
  <2>1. \A k \in 1 .. n : PinAt(k) \in Objs \cup {NoObj}
    BY <1>1, <1>3 DEF PinAt
  <2>2. pins' \in Seq(Objs \cup {NoObj}) /\ DOMAIN pins' = 1 .. n
    BY <1>3, <1>n, <2>1
  <2>3. ASSUME NEW j \in Index PROVE PinAt(j)' = IF j \in 1 .. n THEN PinAt(j) ELSE NoObj
    BY <1>n, <2>2 DEF PinAt
  <2>4. ASSUME NEW j \in Index, j \notin 1 .. n PROVE PinAt(j) = NoObj
    BY <1>3, <2>4 DEF PinAt
  <2> QED
    BY <1>2, <1>3, <2>2, <2>3, <2>4
<1>5. slots[i].count = 1 /\ LastOne(id) /\ Vacate(i)
  <2>1. PinAt(i) = NoObj
    BY <1>3 DEF PinAt
  <2>2. slots[i].count \in 0 .. MaxCount
    BY <1>1, <1>2, SlotFacts DEF TableInv
  <2>3. ~(slots[i].count > 1)
    BY <1>2, <2>1, TableAssumption
  <2>4. slots[i].count = 1
    BY <1>2, <2>2, <2>3, TableAssumption
  <2> QED
    BY <1>0, <1>2, <2>4 DEF LastOne, Drop
<1>6. handles' = Aged(handles, i)
  BY <1>0, <1>2, <1>5
<1>7. /\ TableInv' /\ Vacant' /\ Pinning' /\ PinsMatchTable' /\ HandlesTellAge' /\ AgesSeen'
      /\ handles' \in [Handles -> Handle] /\ wrapped' \in BOOLEAN /\ (wrapped => wrapped')
  <2>1. pc' # "pin" /\ Granted \subseteq {i}
    BY <1>0, <1>2
  <2>2. \A g \in Handles : Owned(handles, g) => handles[g] = handles[g]
    OBVIOUS
  <2> QED
    BY <1>0, <1>1, <1>2, <1>4, <1>5, <1>6, <2>1, <2>2, VacateLayers
<1>8. /\ DOMAIN slots' = DOMAIN slots /\ slots'[i].count = 0
      /\ \A j \in DOMAIN slots \ {i} : slots'[j] = slots[j]
  BY <1>1, <1>2, <1>5, VacateEffect
<1>9. ASSUME ~wrapped, NEW j \in DOMAIN slots
      PROVE  /\ slots[j].count = Cardinality(EntriesAt(ledger, j)) + Cardinality(HoldersAt(handles, j))
                                 + IF j = i THEN 1 ELSE 0
             /\ IsFiniteSet(EntriesAt(ledger, j)) /\ Cardinality(EntriesAt(ledger, j)) \in Nat
             /\ IsFiniteSet(HoldersAt(handles, j)) /\ Cardinality(HoldersAt(handles, j)) \in Nat
  BY <1>2, <1>9, BalanceWhilePinning
<1>10. ASSUME ~wrapped
       PROVE  /\ EntriesAt(ledger, i) = {} /\ HoldersAt(handles, i) = {}
              /\ Cardinality(EntriesAt(ledger, i)) = 0
  <2>1. Cardinality(EntriesAt(ledger, i)) = 0 /\ Cardinality(HoldersAt(handles, i)) = 0
    BY <1>2, <1>5, <1>9, <1>10
  <2>2. IsFiniteSet(EntriesAt(ledger, i)) /\ IsFiniteSet(HoldersAt(handles, i))
    BY <1>2, <1>9, <1>10
  <2> QED
    BY <2>1, <2>2, FS_EmptySet
<1>11. AcquisitionsBalance'
  <2> SUFFICES ASSUME ~wrapped', NEW j \in DOMAIN slots' PROVE slots'[j].count = OwedAt(j)'
    BY BalanceAfter
  <2>1. ~wrapped /\ j \in DOMAIN slots
    BY <1>7, <1>8
  <2>2. OwedAt(j)' = Cardinality(EntriesAt(ledger, j)) + Cardinality(HoldersAt(handles', j))
    <3>1. OwedAt(j)' = Cardinality(EntriesAt(ledger', j)) + Cardinality(HoldersAt(handles', j))
      BY <1>0, <1>1, OwedAfter
    <3> QED
      BY <1>0, <3>1
  <2>3. CASE j = i
    <3>1. HoldersAt(handles', j) = {}
      BY <1>1, <1>6, <2>3, HoldersAfter
    <3>2. Cardinality(HoldersAt(handles', j)) = 0
      BY <3>1, FS_EmptySet
    <3>3. Cardinality(EntriesAt(ledger, j)) = 0
      BY <1>10, <2>1, <2>3
    <3> QED
      BY <1>8, <2>2, <2>3, <3>2, <3>3
  <2>4. CASE j # i
    <3>1. HoldersAt(handles', j) = HoldersAt(handles, j)
      BY <1>1, <1>6, <2>4, HoldersAfter
    <3>2. slots'[j] = slots[j]
      BY <1>8, <2>1, <2>4
    <3>3. slots[j].count = Cardinality(EntriesAt(ledger, j)) + Cardinality(HoldersAt(handles, j))
      BY <1>9, <2>1, <2>4
    <3> QED
      BY <2>2, <3>1, <3>2, <3>3
  <2> QED
    BY <2>3, <2>4
<1>12. LedgerIsCurrent'
  <2> SUFFICES ASSUME ~wrapped', NEW k \in DOMAIN ledger PROVE SlotFor(ledger[k])'
    BY <1>0 DEF LedgerIsCurrent
  <2>1. PICK d : d = ledger[k]
    OBVIOUS
  <2>2. ~wrapped /\ SlotFor(d) /\ d.index \in DOMAIN slots
    BY <1>7, <2>1 DEF IInv, LedgerIsCurrent, SlotFor
  <2>3. d.index # i
    BY <1>10, <2>1, <2>2 DEF EntriesAt
  <2>4. slots'[d.index] = slots[d.index]
    BY <1>8, <2>2, <2>3
  <2> QED
    BY <1>0, <1>8, <2>1, <2>2, <2>4 DEF SlotFor
<1>13. ASSUME NEW h \in Handles
       PROVE  /\ Owned(handles', h) <=> Owned(handles, h)
              /\ handles'[h].state = handles[h].state
              /\ Owned(handles, h) /\ handles[h].id.index # i => handles'[h].age = handles[h].age
  <2>1. /\ Owned(Aged(handles, i), h) <=> Owned(handles, h)
        /\ Aged(handles, i)[h].state = handles[h].state
        /\ Owned(handles, h) =>
             Aged(handles, i)[h].age = IF handles[h].id.index = i /\ handles[h].age < GenMask
                                       THEN handles[h].age + 1 ELSE handles[h].age
    BY <1>1, AgedFacts
  <2> QED
    BY <1>6, <2>1 DEF Owned
<1>14. LoweredAreOwned'
  <2> SUFFICES ASSUME NEW h \in lowered
               PROVE  Owned(handles', h) /\ (~wrapped' => handles'[h].age = 0)
    BY <1>0 DEF LoweredAreOwned, Owned
  <2>1. h \in Handles /\ Owned(handles, h) /\ (~wrapped => handles[h].age = 0)
    BY <1>1 DEF IInv, LoweredAreOwned
  <2>2. ASSUME ~wrapped' PROVE handles'[h].age = 0
    <3>1. ~wrapped /\ handles[h].age = 0
      BY <1>7, <2>1, <2>2
    <3>2. handles[h].id.index # i
      BY <1>10, <2>1, <3>1 DEF HoldersAt
    <3> QED
      BY <1>13, <2>1, <3>1, <3>2
  <2> QED
    BY <1>13, <2>1, <2>2
<1>15. InStep'
  BY <1>0, <1>1 DEF InStep
<1>16. Queues'
  <2>1. /\ \A k \in DOMAIN batch : batch[k] \in Handles
        /\ \A k \in DOMAIN pending : pending[k] \in Handles
    BY <1>1
  <2> QED
    BY <1>0, <1>1, <1>13, <2>1 DEF Queues, Owned
<1>17. TypeOK'
  BY <1>0, <1>1, <1>4, <1>7 DEF TypeOK, TableInv, PCs
<1> QED
  BY <1>7, <1>11, <1>12, <1>14, <1>15, <1>16, <1>17 DEF IInv, TableInv

-----------------------------------------------------------------------------
(* Decode: a handle takes an acquisition of its own.                       *)

LEMMA RetainNextStep == ASSUME IInv, NEW h \in Handles, RetainNext(h) PROVE IInv'
<1>id. PICK id : id = ledger[at + 1]
  OBVIOUS
<1>i. PICK i : i = id.index
  OBVIOUS
<1>r. PICK r : r = [state |-> "live", own |-> TRUE, id |-> id,
                    obj |-> slots[i].addr, age |-> 0, gone |-> FALSE]
  OBVIOUS
<1>0. /\ pc = "decode" /\ pc' = "decode" /\ at < Len(ledger) /\ handles[h].state = "none"
      /\ Retain(id) /\ handles' = [handles EXCEPT ![h] = r]
      /\ at' = at + 1 /\ minted' = minted \cup {h}
      /\ UNCHANGED <<pins, pending, batch, todo, ledger, back, lowered, wrapped>>
  BY <1>id, <1>i, <1>r DEF RetainNext
<1>1. /\ TypeOK /\ TableInv /\ InStep /\ Queues /\ ledger \in Seq(Id) /\ at \in Nat
      /\ handles \in [Handles -> Handle] /\ lowered \in SUBSET Handles /\ minted \in SUBSET Handles
      /\ batch \in Seq(Handles) /\ pending \in Seq(Handles)
  BY DEF IInv, TypeOK, TableInv
<1>2. id \in Id
  <2>1. at + 1 \in DOMAIN ledger
    BY <1>0, <1>1
  <2> QED
    BY <1>id, <1>1, <2>1
<1>3. TableInv'
  BY <1>0, <1>1, <1>2, RetainPreservesTable
<1>4. /\ DOMAIN slots' = DOMAIN slots /\ i \in DOMAIN slots
      /\ slots[i].count > 0 /\ slots[i].gen = id.gen
      /\ slots'[i].count = slots[i].count + 1
      /\ slots'[i].addr = slots[i].addr
      /\ slots'[i].gen = slots[i].gen
      /\ \A j \in DOMAIN slots \ {i} : slots'[j] = slots[j]
  BY <1>i, <1>0, <1>1, <1>2, RetainCounts
<1>5. slots[i].count \in Nat /\ slots[i].addr \in Objs \cup {NoObj} /\ slots[i].gen \in Gen
  BY <1>1, <1>4, SlotFacts, TableAssumption DEF TableInv
<1>6. \A j \in DOMAIN slots :
        /\ slots'[j].gen = slots[j].gen /\ slots'[j].addr = slots[j].addr
        /\ slots'[j].count = 0 => slots[j].count = 0
        /\ slots[j].count > 0 => slots'[j].count > 0
  <2>1. slots'[i].count # 0 /\ slots'[i].count > 0
    BY <1>4, <1>5
  <2> QED
    BY <1>4, <2>1
<1>7. Vacant' /\ Pinning' /\ PinsMatchTable'
  BY <1>0, <1>4, <1>6, PinsStay
<1>8. /\ r \in Handle /\ r.state = "live" /\ r.own /\ r.id = id
      /\ r.obj = slots[i].addr /\ r.age = 0 /\ ~r.gone
  BY <1>r, <1>2, <1>5, TableAssumption DEF Handle
<1>9. /\ handles' \in [Handles -> Handle] /\ handles'[h] = r
      /\ \A g \in Handles \ {h} : handles'[g] = handles[g]
  BY <1>0, <1>1, <1>8
<1>10. HandlesTellAge'
  <2> SUFFICES ASSUME NEW g \in Handles, Owned(handles', g) PROVE HandleTellsAge(slots', handles'[g])
    BY DEF HandlesTellAge, Owned
  <2>1. CASE g = h
    <3>1. slots'[i].gen = r.id.gen + r.age
      BY <1>2, <1>4, <1>8 DEF Id, Gen
    <3>2. slots'[i].count > 0 /\ slots'[i].addr = r.obj /\ i \in DOMAIN slots' /\ r.id.index = i
      BY <1>i, <1>4, <1>6, <1>8
    <3>3. HandleTellsAge(slots', r)
      BY <1>8, <3>1, <3>2 DEF HandleTellsAge
    <3> QED
      BY <1>9, <2>1, <3>3
  <2>2. CASE g # h
    <3>1. handles'[g] = handles[g] /\ Owned(handles, g)
      BY <1>9, <2>2 DEF Owned
    <3>2. HandleTellsAge(slots, handles[g])
      BY <3>1 DEF IInv, HandlesTellAge
    <3>3. HandleTellsAge(slots', handles[g])
      BY <1>4, <1>6, <3>2, StillTellsAge
    <3> QED
      BY <3>1, <3>3
  <2> QED
    BY <2>1, <2>2
<1>11. AgesSeen'
  <2> SUFFICES ASSUME ~wrapped, NEW g \in Handles, Owned(handles', g)
               PROVE  handles'[g].age < GenMask
    BY <1>0 DEF AgesSeen, Owned
  <2>1. CASE g = h
    BY <1>8, <1>9, <2>1, TableAssumption
  <2>2. CASE g # h
    BY <1>9, <2>2 DEF IInv, AgesSeen, Owned
  <2> QED
    BY <2>1, <2>2
<1>12. LedgerIsCurrent'
  <2> SUFFICES ASSUME ~wrapped, NEW k \in DOMAIN ledger PROVE SlotFor(ledger[k])'
    BY <1>0 DEF LedgerIsCurrent
  <2>1. PICK d : d = ledger[k]
    OBVIOUS
  <2>2. SlotFor(d)
    BY <2>1 DEF IInv, LedgerIsCurrent
  <2> QED
    BY <1>0, <1>4, <1>6, <2>1, <2>2 DEF SlotFor
<1>13. AcquisitionsBalance'
  <2> SUFFICES ASSUME ~wrapped', NEW j \in DOMAIN slots' PROVE slots'[j].count = OwedAt(j)'
    BY BalanceAfter
  <2>1. ~wrapped /\ j \in DOMAIN slots
    BY <1>0, <1>4
  <2>2. OwedAt(j)' = Cardinality(EntriesAt(ledger, j)) + Cardinality(HoldersAt(handles', j))
    <3>1. OwedAt(j)' = Cardinality(EntriesAt(ledger', j)) + Cardinality(HoldersAt(handles', j))
      BY <1>0, <1>1, OwedAfter
    <3> QED
      BY <1>0, <3>1
  <2>3. /\ slots[j].count = Cardinality(EntriesAt(ledger, j)) + Cardinality(HoldersAt(handles, j))
        /\ Cardinality(EntriesAt(ledger, j)) \in Nat
        /\ IsFiniteSet(HoldersAt(handles, j)) /\ Cardinality(HoldersAt(handles, j)) \in Nat
    BY <1>0, <2>1, BalanceAt
  <2>4. h \notin HoldersAt(handles, j)
    BY <1>0 DEF HoldersAt, Owned
  <2>5. CASE j = i
    <3>1. HoldersAt(handles', j) = HoldersAt(handles, j) \cup {h}
      BY <1>i, <1>8, <1>9, <2>5 DEF HoldersAt, Owned
    <3>2. Cardinality(HoldersAt(handles, j) \cup {h}) = Cardinality(HoldersAt(handles, j)) + 1
      BY <2>3, <2>4, FS_AddElement
    <3> QED
      BY <1>4, <2>2, <2>3, <2>5, <3>1, <3>2
  <2>6. CASE j # i
    <3>1. HoldersAt(handles', j) = HoldersAt(handles, j)
      BY <1>i, <1>8, <1>9, <2>4, <2>6 DEF HoldersAt, Owned
    <3>2. slots'[j] = slots[j]
      BY <1>4, <2>1, <2>6
    <3> QED
      BY <2>2, <2>3, <3>1, <3>2
  <2> QED
    BY <2>5, <2>6
<1>14. LoweredAreOwned'
  <2> SUFFICES ASSUME NEW g \in lowered
               PROVE  Owned(handles', g) /\ (~wrapped => handles'[g].age = 0)
    BY <1>0 DEF LoweredAreOwned, Owned
  <2>1. g \in Handles /\ Owned(handles, g) /\ (~wrapped => handles[g].age = 0)
    BY <1>1 DEF IInv, LoweredAreOwned
  <2>2. g # h
    BY <1>0, <2>1 DEF Owned
  <2> QED
    BY <1>9, <2>1, <2>2 DEF Owned
<1>15. InStep'
  <2>1. \A g \in minted' : handles'[g].state = "live"
    BY <1>0, <1>1, <1>8, <1>9 DEF InStep
  <2> QED
    BY <1>0, <1>1, <2>1 DEF InStep
<1>16. Queues'
  <2>1. /\ \A k \in DOMAIN batch : batch[k] \in Handles \ {h}
        /\ \A k \in DOMAIN pending : pending[k] \in Handles \ {h}
    BY <1>0, <1>1 DEF Queues
  <2> QED
    BY <1>0, <1>1, <1>9, <2>1 DEF Queues, Owned
<1>17. pins' \in Seq(Objs \cup {NoObj}) /\ at' \in Nat /\ minted' \in SUBSET Handles
  BY <1>0, <1>1 DEF TypeOK
<1>18. TypeOK'
  BY <1>0, <1>1, <1>3, <1>9, <1>17 DEF TypeOK, TableInv
<1> QED
  BY <1>3, <1>7, <1>10, <1>11, <1>12, <1>13, <1>14, <1>15, <1>16, <1>18 DEF IInv, TableInv

-----------------------------------------------------------------------------
(* A new instance, and all of it together.                                 *)

\* Nothing is counted, pinned, queued or held.
Fresh ==
  /\ slots = <<>> /\ byAddr = [o \in Objs |-> 0] /\ free = <<>> /\ pins = <<>>
  /\ pending = <<>> /\ batch = <<>> /\ todo = <<>> /\ ledger = <<>> /\ at = 0
  /\ minted = {} /\ lowered = {} /\ pc = "idle" /\ back = "idle" /\ wrapped = FALSE
  /\ handles \in [Handles -> Handle] /\ \A h \in Handles : ~Owned(handles, h)

LEMMA FreshIsConsistent == Fresh => IInv
<1> SUFFICES ASSUME Fresh PROVE IInv
  OBVIOUS
<1> USE DEF Fresh
<1>1. TableInv
  BY TableInvInit DEF TableInit
<1>2. pins \in Seq(Objs \cup {NoObj}) /\ pending \in Seq(Handles) /\ batch \in Seq(Handles)
      /\ todo \in Seq(Objs) /\ ledger \in Seq(Id)
  OBVIOUS
<1>3. TypeOK
  BY <1>1, <1>2 DEF TypeOK, TableInv, PCs
<1>4. Vacant /\ Pinning /\ LedgerIsCurrent /\ AcquisitionsBalance
  BY DEF Vacant, Pinning, LedgerIsCurrent, AcquisitionsBalance
<1>5. PinsMatchTable
  BY DEF PinsMatchTable, PinAt
<1>6. HandlesTellAge /\ AgesSeen /\ LoweredAreOwned
  BY DEF HandlesTellAge, AgesSeen, LoweredAreOwned
<1>7. Queues /\ InStep
  BY DEF Queues, InStep
<1> QED
  BY <1>1, <1>3, <1>4, <1>5, <1>6, <1>7 DEF IInv, TableInv

LEMMA IInvInit == Init => IInv
<1> SUFFICES ASSUME Init PROVE IInv
  OBVIOUS
<1>1. handles \in [Handles -> Handle] /\ \A h \in Handles : ~Owned(handles, h)
  BY NoHandleType DEF Init, Owned
<1> QED
  BY <1>1, FreshIsConsistent DEF Init, TableInit, Fresh

\* Restore: what is left of the old instance is handles of another owner.
LEMMA RestoreStep == IInv /\ Restore => IInv'
<1> SUFFICES ASSUME IInv, Restore PROVE Fresh'
  BY FreshIsConsistent, PTL
<1>1. ASSUME NEW h \in Handles PROVE handles'[h] \in Handle /\ ~Owned(handles', h)
  <2> DEFINE t == handles[h]
             u == [t EXCEPT !.own = FALSE]
  <2>1. t \in Handle /\ handles'[h] = IF t.state = "live" THEN u ELSE NoHandle
    BY DEF IInv, TypeOK, Restore
  <2>2. u \in Handle /\ ~u.own
    <3> HIDE DEF t
    <3> QED
      BY <2>1 DEF Handle
  <2> HIDE DEF t, u
  <2> QED
    BY <2>1, <2>2, NoHandleType DEF Owned
<1>2. handles' \in [Handles -> Handle]
  <2>1. handles' = [h \in Handles |-> handles'[h]]
    BY DEF Restore
  <2> QED
    BY <1>1, <2>1
<1> QED
  BY <1>1, <1>2 DEF Restore, Fresh, Owned

LEMMA IInvNext == IInv /\ [Next]_vars => IInv'
<1> SUFFICES ASSUME IInv, [Next]_vars PROVE IInv'
  OBVIOUS
<1>1. CASE OpStep
  <2>1. CASE DrainDone \/ AddRefFails \/ CommitDone \/ RollbackDone \/ DecodeDone \/ GiveBackDone
    BY <2>1, ControlStep DEF OnlyControl
  <2>2. CASE DrainOne
    BY <2>2, DrainOneStep
  <2>3. CASE AddRef
    BY <2>3, AddRefStep
  <2>4. CASE PinRef
    BY <2>4, PinRefStep
  <2>5. CASE GrowFails
    BY <2>5, GrowFailsStep
  <2>6. CASE RollbackOne
    BY <2>6, RollbackOneStep
  <2>7. CASE DecodeFails
    BY <2>7, DecodeFailsStep
  <2>8. CASE GiveBackOne
    BY <2>8, GiveBackOneStep
  <2>9. ASSUME NEW h \in Handles, RetainNext(h) PROVE IInv'
    BY <2>9, RetainNextStep
  <2> QED
    BY <1>1, <2>1, <2>2, <2>3, <2>4, <2>5, <2>6, <2>7, <2>8, <2>9 DEF OpStep
<1>2. CASE Begin \/ ReturnEarly \/ Trap
  BY <1>2, ControlStep DEF OnlyControl
<1>3. ASSUME NEW objs \in Transfers, NEW to \in {"idle", "callback"}, Convert(objs, to) PROVE IInv'
  BY <1>3, ControlStep DEF OnlyControl
<1>4. ASSUME NEW h \in Handles, FreeHandle(h) PROVE IInv'
  BY <1>4, FreeHandleStep
<1>5. ASSUME NEW hs \in SUBSET Handles, EnterGuest(hs) PROVE IInv'
  BY <1>5, LowerStep DEF EnterGuest
<1>6. ASSUME NEW hs \in SUBSET Handles, HostReturns(hs) PROVE IInv'
  BY <1>6, LowerStep DEF HostReturns
<1>7. ASSUME NEW o \in Objs, Collect(o) PROVE IInv'
  BY <1>7, CollectStep
<1>8. CASE Restore
  BY <1>8, RestoreStep
<1>9. ASSUME NEW h \in Handles, DropHandle(h) PROVE IInv'
  BY <1>9, DropHandleStep
<1>10. ASSUME NEW h \in Handles, Cleanup(h) PROVE IInv'
  BY <1>10, CleanupStep
<1>11. CASE UNCHANGED vars
  BY <1>11, StutterStep
<1> QED
  BY <1>1, <1>2, <1>3, <1>4, <1>5, <1>6, <1>7, <1>8, <1>9, <1>10, <1>11 DEF Next

LEMMA IInvAlways == Spec => []IInv
  BY IInvInit, IInvNext, PTL DEF Spec

-----------------------------------------------------------------------------
(* The theorems.                                                           *)

\* Every part of the table, the root list, the queue and the transfer keeps its
\* shape, whatever operations, callbacks, traps and restores follow one another.
THEOREM ReferencesTypeCorrect == Spec => []TypeOK
<1>1. IInv => TypeOK
  BY DEF IInv
<1> QED
  BY <1>1, IInvAlways, PTL

\* ref_add and ref_release (build/refs.c) keep the root list of the guest equal
\* to what Acquire and Release (host/refs.go) count, but for the one slot that
\* has been counted and is being pinned.
THEOREM ReferencesPinWhatIsCounted == Spec => []PinsMatchTable
<1>1. IInv => PinsMatchTable
  BY DEF IInv
<1> QED
  BY <1>1, IInvAlways, PTL

\* Every acquisition the table counts is owed by exactly one party: an entry of
\* the ledger of a transfer (pending_refs_commit, ReleaseRefs), the ref_add
\* under way, or a handle that Retain counted and Drain has not yet released.
THEOREM ReferencesBalance == Spec => []AcquisitionsBalance
<1>1. IInv => AcquisitionsBalance
  BY DEF IInv
<1> QED
  BY <1>1, IInvAlways, PTL

\* A handle Lookup accepts names the object it was minted for, not another that
\* has since come to live in the slot or at the address, as long as the slot
\* has been vacated fewer than refGenMask times.
THEOREM ReferencesHandlesName == Spec => []HandlesNameTheirObject
<1>1. ASSUME IInv PROVE HandlesNameTheirObject
  <2> SUFFICES ASSUME NEW h \in Handles,
                      handles[h].state # "none", handles[h].age < GenMask, Lookup(h)
               PROVE  /\ slots[handles[h].id.index].addr = handles[h].obj
                      /\ ~handles[h].gone
    BY DEF HandlesNameTheirObject
  <2>1. Owned(handles, h) /\ SlotFor(handles[h].id)
    BY DEF Lookup, Owned
  <2>2. handles[h].age = 0
    BY <1>1, <2>1, FreshIfCurrent DEF IInv
  <2>3. HandleTellsAge(slots, handles[h])
    BY <1>1, <2>1 DEF IInv, HandlesTellAge
  <2> QED
    BY <2>2, <2>3 DEF HandleTellsAge
<1> QED
  BY <1>1, IInvAlways, PTL

\* An id whose handle went to the guest as an argument, or in the value of a
\* callback, reads its object from the root list (ref_get) until the operation
\* ends, even if the Go collector queues the handle's release meanwhile.
THEOREM ReferencesLoweredStayPinned == Spec => []LoweredRefsStayPinned
<1>1. ASSUME IInv PROVE LoweredRefsStayPinned
  <2> SUFFICES ASSUME ~wrapped, NEW h \in lowered
               PROVE  PinAt(handles[h].id.index) = handles[h].obj
    BY DEF LoweredRefsStayPinned
  <2> DEFINE i == handles[h].id.index
  <2>1. h \in Handles /\ Owned(handles, h) /\ handles[h].age = 0 /\ handles[h].id \in Id
    BY <1>1 DEF IInv, LoweredAreOwned, TypeOK, Handle
  <2>2. i \in DOMAIN slots /\ slots[i].addr = handles[h].obj /\ i \in Index
    BY <1>1, <2>1 DEF IInv, HandlesTellAge, HandleTellsAge, Id
  <2>3. CASE i \notin Granted
    BY <1>1, <2>2, <2>3 DEF IInv, PinsMatchTable
  <2>4. CASE i \in Granted
    <3>1. pc = "pin"
      BY <2>4 DEF Granted
    <3>2. PICK obj : obj = Head(todo)
      OBVIOUS
    <3>3. PICK k : k = byAddr[obj]
      OBVIOUS
    <3>4. /\ slots[k].addr = obj /\ Granted = {k}
          /\ PinAt(k) = IF slots[k].count > 1 THEN obj ELSE NoObj
      BY <1>1, <3>1, <3>2, <3>3, PinState
    <3>5. k = i
      BY <2>4, <3>4
    <3>6. h \in HoldersAt(handles, k)
      BY <2>1, <3>5 DEF HoldersAt
    <3>7. /\ slots[k].count = Cardinality(EntriesAt(ledger, k)) + Cardinality(HoldersAt(handles, k)) + 1
          /\ IsFiniteSet(HoldersAt(handles, k)) /\ Cardinality(HoldersAt(handles, k)) \in Nat
          /\ Cardinality(EntriesAt(ledger, k)) \in Nat
      BY <1>1, <2>2, <3>4, <3>5, BalanceWhilePinning
    <3>8. Cardinality(HoldersAt(handles, k)) > 0
      BY <3>6, <3>7, OneMember
    <3>9. slots[k].count > 1
      BY <3>7, <3>8
    <3> QED
      BY <2>2, <3>4, <3>5, <3>9
  <2> QED
    BY <2>3, <2>4
<1> QED
  BY <1>1, IInvAlways, PTL
=============================================================================
