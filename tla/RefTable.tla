------------------------------ MODULE RefTable ------------------------------
(***************************************************************************)
(* The slot table of host/refs.go, by which the host counts how often each *)
(* guest object has been handed out, and the operations on it.  Modules    *)
(* that extend this one say who calls them.                                *)
(*                                                                         *)
(* A packed id (20 bits of slot index, 12 bits of generation) is a record. *)
(* Slot 0 is reserved by the code and absent here: an index is a position  *)
(* of slots, and 0 stands for "no slot".                                   *)
(***************************************************************************)
EXTENDS Integers, Sequences

CONSTANTS
  Objs,        \* guest heap addresses
  NoObj,       \* address 0: a vacant slot, and MP_OBJ_NULL in the guest
  MaxSlots,    \* refMaxSlots: the highest slot index
  GenMask,     \* refGenMask: generations run from 1 to GenMask
  MaxCount     \* math.MaxUint32: the acquisitions one slot can count

ASSUME TableAssumption ==
  /\ NoObj \notin Objs
  /\ MaxSlots \in Nat \ {0}
  /\ GenMask \in Nat \ {0}
  /\ MaxCount \in Nat \ {0}

VARIABLES
  slots,       \* the slots, from index 1
  byAddr,      \* the slot that holds an address, 0 if none does
  free         \* vacant slots, the last one vacated at the end

table == <<slots, byAddr, free>>

Index == 1 .. MaxSlots
Gen == 1 .. GenMask
Id == [index : Index, gen : Gen]
Slot == [addr : Objs \cup {NoObj}, gen : Gen, count : 0 .. MaxCount]

TableType ==
  /\ slots \in Seq(Slot)
  /\ Len(slots) <= MaxSlots
  /\ byAddr \in [Objs -> 0 .. MaxSlots]
  /\ free \in Seq(Index)

TableInit ==
  /\ slots = <<>>
  /\ byAddr = [o \in Objs |-> 0]
  /\ free = <<>>

-----------------------------------------------------------------------------
\* Seeded faults.
MutKeepGeneration(gen) == gen

NextGeneration(gen) == IF gen = GenMask THEN 1 ELSE gen + 1

\* Seeded fault: the generation is not compared.
MutIgnoreGeneration(id) == id.index \in DOMAIN slots /\ slots[id.index].count > 0

\* An id is current when its slot is in use and the generations agree.
SlotFor(id) ==
  /\ id.index \in DOMAIN slots
  /\ slots[id.index].count > 0
  /\ slots[id.index].gen = id.gen

\* The id Acquire(obj) returns: the slot that knows the address, else the slot
\* vacated last, else a new one in the first generation.
IdFor(obj) ==
  LET i == IF byAddr[obj] # 0 THEN byAddr[obj]
           ELSE IF free # <<>> THEN free[Len(free)] ELSE Len(slots) + 1
  IN  [index |-> i, gen |-> IF i \in DOMAIN slots THEN slots[i].gen ELSE 1]

AcquireKnown(obj) ==
  /\ byAddr[obj] # 0
  /\ slots[byAddr[obj]].count < MaxCount
  /\ slots' = [slots EXCEPT ![byAddr[obj]].count = @ + 1]
  /\ UNCHANGED <<byAddr, free>>

AcquireReused(obj) ==
  /\ byAddr[obj] = 0
  /\ free # <<>>
  /\ LET i == free[Len(free)]
     IN  /\ slots' = [slots EXCEPT ![i] = [addr |-> obj, gen |-> slots[i].gen, count |-> 1]]
         /\ byAddr' = [byAddr EXCEPT ![obj] = i]
  /\ free' = SubSeq(free, 1, Len(free) - 1)

AcquireNew(obj) ==
  /\ byAddr[obj] = 0
  /\ free = <<>>
  /\ Len(slots) < MaxSlots
  /\ slots' = Append(slots, [addr |-> obj, gen |-> 1, count |-> 1])
  /\ byAddr' = [byAddr EXCEPT ![obj] = Len(slots) + 1]
  /\ UNCHANGED free

Acquire(obj) == AcquireKnown(obj) \/ AcquireReused(obj) \/ AcquireNew(obj)

\* Acquire returns -1: the count is at its limit, or the table is full.
AcquireRefused(obj) ==
  /\ IF byAddr[obj] # 0 THEN slots[byAddr[obj]].count = MaxCount
     ELSE free = <<>> /\ Len(slots) = MaxSlots
  /\ UNCHANGED table

\* Retain: one more acquisition of an id that is current.
CanRetain(id) == SlotFor(id) /\ slots[id.index].count < MaxCount

Retain(id) ==
  /\ CanRetain(id)
  /\ slots' = [slots EXCEPT ![id.index].count = @ + 1]
  /\ UNCHANGED <<byAddr, free>>

\* Seeded fault: the address stays in the index.
MutKeepAddress(i) ==
  /\ slots' = [slots EXCEPT ![i] =
       [addr |-> NoObj, gen |-> NextGeneration(slots[i].gen), count |-> 0]]
  /\ byAddr' = byAddr
  /\ free' = Append(free, i)

\* A slot nobody holds leaves the index, takes its next generation and is free.
Vacate(i) ==
  /\ slots' = [slots EXCEPT ![i] =
       [addr |-> NoObj, gen |-> NextGeneration(slots[i].gen), count |-> 0]]
  /\ byAddr' = [byAddr EXCEPT ![slots[i].addr] = 0]
  /\ free' = Append(free, i)

\* drop would report that the last acquisition is gone.
LastOne(id) == SlotFor(id) /\ slots[id.index].count = 1

\* drop: one acquisition goes back; a stale id changes nothing.
Drop(id) ==
  \/ LastOne(id) /\ Vacate(id.index)
  \/ /\ SlotFor(id) /\ slots[id.index].count > 1
     /\ slots' = [slots EXCEPT ![id.index].count = @ - 1]
     /\ UNCHANGED <<byAddr, free>>
  \/ ~SlotFor(id) /\ UNCHANGED table

\* Free: every acquisition at once.
FreeAll(id) ==
  \/ SlotFor(id) /\ Vacate(id.index)
  \/ ~SlotFor(id) /\ UNCHANGED table

-----------------------------------------------------------------------------
\* The parts of the table agree.  The free list holds each vacant slot once and
\* no other, the index finds a slot exactly by the address the slot holds, and
\* no two slots count the same object.  alloc, drop and Free in host/refs.go
\* each update two or three of the four parts by hand.
FreeListed == {free[k] : k \in DOMAIN free}

TableConsistent ==
  /\ FreeListed = {i \in DOMAIN slots : slots[i].count = 0}
  /\ \A j, k \in DOMAIN free : free[j] = free[k] => j = k
  /\ \A i \in DOMAIN slots :
       slots[i].count > 0 => slots[i].addr \in Objs /\ byAddr[slots[i].addr] = i
  /\ \A o \in Objs : byAddr[o] # 0 =>
       byAddr[o] \in DOMAIN slots /\ slots[byAddr[o]].addr = o /\ slots[byAddr[o]].count > 0
=============================================================================
