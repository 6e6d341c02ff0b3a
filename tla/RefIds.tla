------------------------------- MODULE RefIds -------------------------------
(***************************************************************************)
(* The ids of host/refs.go as their holders see them: whoever received an  *)
(* id from Acquire or Retain keeps it as long as it likes, gives its own   *)
(* acquisition back, or frees the object for every holder at once.  This   *)
(* is the id discipline alone, small enough to check at the code's real    *)
(* width of 12 bits for a generation.                                      *)
(*                                                                         *)
(* obj and age are history: the object the id was given for, and how often *)
(* its slot has been vacated since (the count stops at GenMask).           *)
(***************************************************************************)
EXTENDS RefTable

CONSTANT Holders     \* ids that can be held at once (a bound)

VARIABLE held        \* what each holder has

idVars == <<table, held>>

Ticket == [used : BOOLEAN, id : Id, obj : Objs \cup {NoObj}, age : 0 .. GenMask]
NoTicket == [used |-> FALSE, id |-> [index |-> 1, gen |-> 1], obj |-> NoObj, age |-> 0]

TicketFor(id, obj) == [used |-> TRUE, id |-> id, obj |-> obj, age |-> 0]

\* Slot i was vacated: every ticket for it ages.
AgedTicket(t, i) ==
  IF t.used /\ t.id.index = i /\ t.age < GenMask THEN [t EXCEPT !.age = @ + 1] ELSE t

AgedTickets(tickets, i) == [h \in Holders |-> AgedTicket(tickets[h], i)]

IdsInit == TableInit /\ held = [h \in Holders |-> NoTicket]

HolderAcquires(h, obj) ==
  /\ ~held[h].used
  /\ Acquire(obj)
  /\ held' = [held EXCEPT ![h] = TicketFor(IdFor(obj), obj)]

HolderRetains(h, from) ==
  /\ ~held[h].used
  /\ held[from].used
  /\ Retain(held[from].id)
  /\ held' = [held EXCEPT ![h] = TicketFor(held[from].id, slots[held[from].id.index].addr)]

HolderReleases(h) ==
  /\ held[h].used
  /\ Drop(held[h].id)
  /\ LET rest == [held EXCEPT ![h] = NoTicket]
     IN  held' = IF LastOne(held[h].id) THEN AgedTickets(rest, held[h].id.index) ELSE rest

\* The holder that frees keeps its id, which is stale now.
HolderFrees(h) ==
  /\ held[h].used
  /\ FreeAll(held[h].id)
  /\ held' = IF SlotFor(held[h].id) THEN AgedTickets(held, held[h].id.index) ELSE held

IdsNext ==
  \E h \in Holders :
    \/ \E obj \in Objs : HolderAcquires(h, obj)
    \/ \E from \in Holders : HolderRetains(h, from)
    \/ HolderReleases(h)
    \/ HolderFrees(h)

IdsSpec == IdsInit /\ [][IdsNext]_idVars

-----------------------------------------------------------------------------
IdsTypeOK ==
  /\ TableType
  /\ held \in [Holders -> Ticket]

\* An id that is accepted names the object it was given for, as long as its
\* slot has been vacated fewer than refGenMask times since.  This is what the
\* generation in the id is for: slotFor (host/refs.go) accepts an id by its
\* index and generation only.
IdsNameTheirObject ==
  \A h \in Holders :
    held[h].used /\ held[h].age < GenMask /\ SlotFor(held[h].id) =>
      slots[held[h].id.index].addr = held[h].obj

\* The same without the limit, as the comment on Module.Release has it: a
\* handle that names a freed object is stale from then on.
FreedIdsStayStale ==
  \A h \in Holders : held[h].used /\ held[h].age > 0 => ~SlotFor(held[h].id)

\* Why: the generation of a slot is the one in the id plus the times the slot
\* has been vacated since, around the circle of refGenMask generations, and a
\* slot not vacated since still counts the object the id was given for.  This
\* is what nextGeneration, and drop and Free calling it once each time a slot
\* empties, must keep true of every id somebody still holds.
TellsAge(ss, t) ==
  t.used =>
    /\ t.id.index \in DOMAIN ss
    /\ t.age < GenMask =>
         ss[t.id.index].gen \in {t.id.gen + t.age, t.id.gen + t.age - GenMask}
    /\ t.age = 0 => ss[t.id.index].count > 0 /\ ss[t.id.index].addr = t.obj

GenerationsTellAge == \A h \in Holders : TellsAge(slots, held[h])
=============================================================================
