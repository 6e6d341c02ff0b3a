----------------------------- MODULE References -----------------------------
(***************************************************************************)
(* Host references to guest objects, end to end: the slot table of         *)
(* host/refs.go (RefTable), the root list of build/refs.c that pins the    *)
(* objects, the transfer of references in a result or in callback          *)
(* arguments (encode.c commits them, codec/decode.go turns them into Go    *)
(* handles), and the Go collector, which queues the release of an          *)
(* unreachable handle at any moment.                                       *)
(*                                                                         *)
(* One operation runs at a time (api.Instance holds the lock), so the      *)
(* operation is a program counter; only DropHandle and Cleanup belong to   *)
(* other goroutines.                                                       *)
(*                                                                         *)
(* Three fields of a handle are history: obj, the object it was minted     *)
(* for; age, how often its slot has been vacated since (the count stops at *)
(* GenMask); gone, that the guest collector reclaimed that object.         *)
(* wrapped remembers that some age reached GenMask.                        *)
(***************************************************************************)
EXTENDS RefTable, FiniteSets

CONSTANTS
  Handles,     \* Go handles that exist at once (a bound)
  MaxLedger    \* references in one transfer (a bound)

ASSUME TransferAssumption == MaxLedger \in Nat /\ IsFiniteSet(Handles)

VARIABLES
  pins,                  \* host_refs, the guest's root list
  pending,               \* OwnedReferences.pending: handles whose cleanup ran
  handles,               \* the Go handles
  pc, back,              \* where the operation is; where a transfer returns to
  batch,                 \* queued releases Drain has taken and not yet applied
  todo, ledger, at,      \* objects to commit; ids committed; ids retained
  minted,                \* handles the decode in progress has made
  lowered,               \* handles whose id this operation gave to the guest
  wrapped                \* history: some slot was vacated GenMask times

roots == <<table, pins>>
transfer == <<todo, ledger, at, minted, back>>
vars == <<roots, pending, handles, pc, batch, transfer, lowered, wrapped>>

Handle == [state : {"none", "live", "dead", "queued"}, own : BOOLEAN,
           id : Id, obj : Objs \cup {NoObj}, age : 0 .. GenMask, gone : BOOLEAN]

NoHandle == [state |-> "none", own |-> FALSE, id |-> [index |-> 1, gen |-> 1],
             obj |-> NoObj, age |-> 0, gone |-> FALSE]

PCs == {"idle", "drain", "ready", "release", "guest", "commit", "pin", "rollback",
        "decode", "giveback", "callback", "trapped"}

-----------------------------------------------------------------------------
\* Lookup: the handle was minted by this owner and its id is current.
Lookup(h) == handles[h].own /\ SlotFor(handles[h].id)

\* A slot was vacated: every handle minted on it ages.
Aged(hs, i) ==
  [h \in Handles |->
     IF hs[h].state # "none" /\ hs[h].own /\ hs[h].id.index = i /\ hs[h].age < GenMask
     THEN [hs[h] EXCEPT !.age = @ + 1] ELSE hs[h]]

WrapSeen(hs) == wrapped \/ \E h \in Handles : hs[h].age = GenMask

\* ref_get: what the root list holds at an index.
PinAt(i) == IF i \in DOMAIN pins THEN pins[i] ELSE NoObj

\* ref_unpin: harmless for a slot the list does not reach.
Unpinned(i) == IF i \in DOMAIN pins THEN [pins EXCEPT ![i] = NoObj] ELSE pins

\* Seeded fault: the host forgets the object and the guest keeps it pinned.
MutNoUnpin(id, hs) ==
  /\ Drop(id)
  /\ pins' = pins
  /\ handles' = IF LastOne(id) THEN Aged(hs, id.index) ELSE hs
  /\ wrapped' = WrapSeen(handles')

\* One acquisition goes back, and the pin with the last of them: refs.Release
\* calls the guest's release_ref, and ref_release unpins what go_ref_free let
\* go.  hs are the handles but for the ages.
Release(id, hs) ==
  /\ Drop(id)
  /\ pins' = IF LastOne(id) THEN Unpinned(id.index) ELSE pins
  /\ handles' = IF LastOne(id) THEN Aged(hs, id.index) ELSE hs
  /\ wrapped' = WrapSeen(handles')

-----------------------------------------------------------------------------
(* Begin and Drain: queued releases are applied before anything else.      *)

\* Seeded fault: the queue is emptied and what was in it is lost.
MutBeginForgets ==
  /\ pc = "idle"
  /\ pc' = "drain"
  /\ batch' = <<>>
  /\ pending' = <<>>
  /\ UNCHANGED <<roots, handles, transfer, lowered, wrapped>>

Begin ==
  /\ pc = "idle"
  /\ pc' = "drain"
  /\ batch' = pending
  /\ pending' = <<>>
  /\ UNCHANGED <<roots, handles, transfer, lowered, wrapped>>

DrainOne ==
  /\ pc = "drain"
  /\ batch # <<>>
  /\ LET h == Head(batch)
     IN  Release(handles[h].id, [handles EXCEPT ![h] = NoHandle])
  /\ batch' = Tail(batch)
  /\ UNCHANGED <<pending, pc, transfer, lowered>>

DrainDone ==
  /\ pc = "drain"
  /\ batch = <<>>
  /\ pc' = "ready"
  /\ UNCHANGED <<roots, pending, handles, batch, transfer, lowered, wrapped>>

-----------------------------------------------------------------------------
(* What an operation does with its handles before it enters the guest.     *)

\* Module.Release: every acquisition of the object at once; a handle of
\* another owner, or a stale one, is ignored.
FreeHandle(h) ==
  /\ pc \in {"ready", "release"}
  /\ handles[h].state = "live"
  /\ pc' = "release"
  /\ \/ /\ Lookup(h)
        /\ FreeAll(handles[h].id)
        /\ pins' = Unpinned(handles[h].id.index)
        /\ handles' = Aged(handles, handles[h].id.index)
        /\ wrapped' = WrapSeen(handles')
     \/ ~Lookup(h) /\ UNCHANGED <<roots, handles, wrapped>>
  /\ UNCHANGED <<pending, batch, transfer, lowered>>

\* The operation ends without entering the guest: a Release has freed its
\* handles, a Snapshot only wanted the drain, or a handle was stale.
ReturnEarly ==
  /\ pc \in {"ready", "release"}
  /\ pc' = "idle"
  /\ UNCHANGED <<roots, pending, handles, batch, transfer, lowered, wrapped>>

\* The handles among the arguments are looked up and lowered to bare ids.
EnterGuest(hs) ==
  /\ pc = "ready"
  /\ \A h \in hs : handles[h].state = "live" /\ Lookup(h)
  /\ lowered' = hs
  /\ pc' = "guest"
  /\ UNCHANGED <<roots, pending, handles, batch, transfer, wrapped>>

-----------------------------------------------------------------------------
(* The guest.                                                              *)

\* The guest collector reclaims an object no root reaches, a commit that allocates
\* holding those that it has yet to pin; its address serves another object from then on.
Collect(o) ==
  /\ pc \in {"guest", "commit", "pin"}
  /\ \A k \in DOMAIN todo : todo[k] # o
  /\ \A i \in DOMAIN pins : pins[i] # o
  /\ \E h \in Handles : handles[h].own /\ handles[h].obj = o /\ ~handles[h].gone
  /\ handles' = [h \in Handles |->
                   IF handles[h].own /\ handles[h].obj = o
                   THEN [handles[h] EXCEPT !.gone = TRUE] ELSE handles[h]]
  /\ UNCHANGED <<roots, pending, pc, batch, transfer, lowered, wrapped>>

\* value_from_mp_objs_committed: the tree is written, then its references are
\* committed.  A result goes back to the caller, arguments to a callback.
Convert(objs, to) ==
  /\ pc = "guest"
  /\ pc' = "commit"
  /\ todo' = objs
  /\ back' = to
  /\ UNCHANGED <<roots, pending, handles, batch, ledger, at, minted, lowered, wrapped>>

\* ref_add asks the host for an acquisition ...
AddRef ==
  /\ pc = "commit"
  /\ todo # <<>>
  /\ Acquire(Head(todo))
  /\ pc' = "pin"
  /\ UNCHANGED <<pins, pending, handles, batch, transfer, lowered, wrapped>>

AddRefFails ==
  /\ pc = "commit"
  /\ todo # <<>>
  /\ AcquireRefused(Head(todo))
  /\ pc' = "rollback"
  /\ UNCHANGED <<pins, pending, handles, batch, transfer, lowered, wrapped>>

\* ... and pins the object, padding the list with nulls up to its index; a slot
\* that pins it already stays as it is.
PinRef ==
  /\ pc = "pin"
  /\ LET obj == Head(todo)
         id == IdFor(obj)
     IN  /\ pins' = [k \in 1 .. (IF Len(pins) < id.index THEN id.index ELSE Len(pins)) |->
                       IF k = id.index THEN obj ELSE PinAt(k)]
         /\ ledger' = Append(ledger, id)
  /\ todo' = Tail(todo)
  /\ pc' = "commit"
  /\ UNCHANGED <<table, pending, handles, batch, at, minted, back, lowered, wrapped>>

\* Growing the list raised, at some length short of the index: ref_add gives
\* the acquisition back.
GrowFails ==
  /\ pc = "pin"
  /\ LET id == IdFor(Head(todo))
     IN  /\ id.index > Len(pins)
         /\ Drop(id)
         /\ \E n \in Len(pins) .. id.index - 1 : pins' = [k \in 1 .. n |-> PinAt(k)]
         /\ handles' = IF LastOne(id) THEN Aged(handles, id.index) ELSE handles
  /\ wrapped' = WrapSeen(handles')
  /\ pc' = "rollback"
  /\ UNCHANGED <<pending, batch, transfer, lowered>>

\* pending_refs_commit failed: what it acquired is given back, last first.
RollbackOne ==
  /\ pc = "rollback"
  /\ ledger # <<>>
  /\ Release(ledger[Len(ledger)], handles)
  /\ ledger' = SubSeq(ledger, 1, Len(ledger) - 1)
  /\ UNCHANGED <<pending, pc, batch, todo, at, minted, back, lowered>>

\* The conversion raised: in the guest when it was converting arguments, and
\* as the operation's error when it was converting the result.
AfterFailure == IF back = "callback" THEN "guest" ELSE "idle"

RollbackDone ==
  /\ pc = "rollback"
  /\ ledger = <<>>
  /\ pc' = AfterFailure
  /\ todo' = <<>>
  /\ back' = "idle"
  /\ lowered' = IF pc' = "idle" THEN {} ELSE lowered
  /\ UNCHANGED <<roots, pending, handles, batch, ledger, at, minted, wrapped>>

CommitDone ==
  /\ pc = "commit"
  /\ todo = <<>>
  /\ pc' = "decode"
  /\ at' = 0
  /\ UNCHANGED <<roots, pending, handles, batch, todo, ledger, minted, back, lowered, wrapped>>

-----------------------------------------------------------------------------
(* Decode, on the host: a handle per reference, then the ledger's          *)
(* acquisitions go back whatever happened.                                 *)

\* Retain counts an acquisition of the handle's own; track cannot fail.
RetainNext(h) ==
  /\ pc = "decode"
  /\ at < Len(ledger)
  /\ handles[h].state = "none"
  /\ LET id == ledger[at + 1]
     IN  /\ Retain(id)
         /\ handles' = [handles EXCEPT ![h] =
              [state |-> "live", own |-> TRUE, id |-> id,
               obj |-> slots[id.index].addr, age |-> 0, gone |-> FALSE]]
  /\ at' = at + 1
  /\ minted' = minted \cup {h}
  /\ UNCHANGED <<pins, pending, pc, batch, todo, ledger, back, lowered, wrapped>>

DecodeDone ==
  /\ pc = "decode"
  /\ at = Len(ledger)
  /\ pc' = "giveback"
  /\ UNCHANGED <<roots, pending, handles, batch, transfer, lowered, wrapped>>

\* Seeded fault: a decode that fails does not give the ledger back.
MutLeakOnFailure ==
  /\ pc = "decode"
  /\ pc' = "giveback"
  /\ back' = AfterFailure
  /\ ledger' = <<>>
  /\ handles' = [h \in Handles |-> IF h \in minted THEN [handles[h] EXCEPT !.state = "dead"]
                                   ELSE handles[h]]
  /\ UNCHANGED <<roots, pending, batch, todo, at, minted, lowered, wrapped>>

\* A record that does not decode, a count at its limit, or a callback nobody
\* registered (ReleaseRefs): the handles made so far are unreachable.
DecodeFails ==
  /\ pc = "decode"
  /\ pc' = "giveback"
  /\ back' = AfterFailure
  /\ handles' = [h \in Handles |-> IF h \in minted THEN [handles[h] EXCEPT !.state = "dead"]
                                   ELSE handles[h]]
  /\ UNCHANGED <<roots, pending, batch, todo, ledger, at, minted, lowered, wrapped>>

\* readRefs has sorted the ids, whose high bits are the generation.
Before(a, b) == a.gen < b.gen \/ (a.gen = b.gen /\ a.index <= b.index)

GiveBackOne ==
  /\ pc = "giveback"
  /\ \E k \in DOMAIN ledger :
       /\ \A j \in DOMAIN ledger : Before(ledger[k], ledger[j])
       /\ Release(ledger[k], handles)
       /\ ledger' = SubSeq(ledger, 1, k - 1) \o SubSeq(ledger, k + 1, Len(ledger))
  /\ UNCHANGED <<pending, pc, batch, todo, at, minted, back, lowered>>

GiveBackDone ==
  /\ pc = "giveback"
  /\ ledger = <<>>
  /\ pc' = back
  /\ back' = "idle"
  /\ minted' = {}
  /\ at' = 0
  /\ lowered' = IF back = "idle" THEN {} ELSE lowered
  /\ UNCHANGED <<roots, pending, handles, batch, todo, ledger, wrapped>>

\* The callback returns, perhaps with a handle in its value.
HostReturns(hs) ==
  /\ pc = "callback"
  /\ \A h \in hs : handles[h].state = "live" /\ Lookup(h)
  /\ lowered' = lowered \cup hs
  /\ pc' = "guest"
  /\ UNCHANGED <<roots, pending, handles, batch, transfer, wrapped>>

-----------------------------------------------------------------------------
(* The rest of the process.                                                *)

\* The guest traps: the operation unwinds and nothing but Restore follows.
Trap ==
  /\ pc \in {"guest", "commit", "rollback"}
  /\ pc' = "trapped"
  /\ UNCHANGED <<roots, pending, handles, batch, transfer, lowered, wrapped>>

\* Restore: a new owner and an empty root list.  Old handles keep their old
\* owner, whose queue nobody drains again.
Restore ==
  /\ pc \in {"idle", "trapped"}
  /\ slots' = <<>> /\ byAddr' = [o \in Objs |-> 0] /\ free' = <<>>
  /\ pins' = <<>>
  /\ pending' = <<>>
  /\ handles' = [h \in Handles |->
                   IF handles[h].state = "live" THEN [handles[h] EXCEPT !.own = FALSE]
                   ELSE NoHandle]
  /\ pc' = "idle"
  /\ batch' = <<>>
  /\ todo' = <<>> /\ ledger' = <<>> /\ at' = 0 /\ minted' = {} /\ back' = "idle"
  /\ lowered' = {}
  /\ wrapped' = FALSE

\* The program loses its last pointer to a handle, even one whose id is in the
\* guest's hands.
DropHandle(h) ==
  /\ handles[h].state = "live"
  /\ h \notin minted
  /\ handles' = [handles EXCEPT ![h].state = "dead"]
  /\ UNCHANGED <<roots, pending, pc, batch, transfer, lowered, wrapped>>

\* Seeded fault: the cleanup releases at once instead of joining the queue.
MutCleanupReleases(h) ==
  /\ handles[h].state = "dead"
  /\ IF handles[h].own THEN Release(handles[h].id, [handles EXCEPT ![h] = NoHandle])
     ELSE /\ handles' = [handles EXCEPT ![h] = NoHandle]
          /\ UNCHANGED <<roots, wrapped>>
  /\ UNCHANGED <<pending, pc, batch, transfer, lowered>>

\* runtime.AddCleanup: some time later the id joins its owner's queue.
Cleanup(h) ==
  /\ handles[h].state = "dead"
  /\ \/ /\ handles[h].own
        /\ handles' = [handles EXCEPT ![h].state = "queued"]
        /\ pending' = Append(pending, h)
     \/ /\ ~handles[h].own
        /\ handles' = [handles EXCEPT ![h] = NoHandle]
        /\ pending' = pending
  /\ UNCHANGED <<roots, pc, batch, transfer, lowered, wrapped>>

-----------------------------------------------------------------------------
Transfers == UNION {[1 .. n -> Objs] : n \in 0 .. MaxLedger}

Init ==
  /\ TableInit
  /\ pins = <<>>
  /\ pending = <<>>
  /\ handles = [h \in Handles |-> NoHandle]
  /\ pc = "idle" /\ back = "idle"
  /\ batch = <<>>
  /\ todo = <<>> /\ ledger = <<>> /\ at = 0 /\ minted = {}
  /\ lowered = {}
  /\ wrapped = FALSE

\* The steps that need no choice: the operation under way and the transfer.
OpStep ==
  \/ DrainOne \/ DrainDone
  \/ AddRef \/ AddRefFails \/ PinRef \/ GrowFails \/ CommitDone
  \/ RollbackOne \/ RollbackDone
  \/ DecodeDone \/ DecodeFails \/ GiveBackOne \/ GiveBackDone
  \/ \E h \in Handles : RetainNext(h)

Next ==
  \/ Begin
  \/ OpStep
  \/ ReturnEarly
  \/ \E h \in Handles : FreeHandle(h)
  \/ \E hs \in SUBSET Handles : EnterGuest(hs) \/ HostReturns(hs)
  \/ \E o \in Objs : Collect(o)
  \/ \E objs \in Transfers, to \in {"idle", "callback"} : Convert(objs, to)
  \/ Trap
  \/ Restore
  \/ \E h \in Handles : DropHandle(h) \/ Cleanup(h)

Spec == Init /\ [][Next]_vars

\* The client keeps using the interpreter, the operation under way goes on,
\* Python code that runs ends with some result, and the Go collector gets to
\* every handle that is unreachable.
GuestReturns == \E objs \in Transfers : Convert(objs, "idle")

FairSpec ==
  /\ Spec
  /\ WF_vars(Begin) /\ WF_vars(OpStep) /\ WF_vars(ReturnEarly)
  /\ WF_vars(HostReturns({})) /\ SF_vars(GuestReturns)
  /\ \A h \in Handles : WF_vars(Cleanup(h))

-----------------------------------------------------------------------------
TypeOK ==
  /\ TableType
  /\ pins \in Seq(Objs \cup {NoObj})
  /\ handles \in [Handles -> Handle]
  /\ pending \in Seq(Handles) /\ batch \in Seq(Handles)
  /\ pc \in PCs /\ back \in {"idle", "callback", "guest"}
  /\ todo \in Seq(Objs) /\ ledger \in Seq(Id) /\ at \in Nat
  /\ minted \in SUBSET Handles /\ lowered \in SUBSET Handles
  /\ wrapped \in BOOLEAN

\* The slot ref_add has acquired and not yet pinned.
Granted == IF pc = "pin" THEN {IdFor(Head(todo)).index} ELSE {}

\* The guest pins exactly what the host counts.  The two tables are kept by two
\* languages and meet only in an id: an object counted and not pinned would be
\* collected under a live handle, one pinned and not counted is never freed.
PinsMatchTable ==
  \A i \in Index \ Granted :
    PinAt(i) = IF i \in DOMAIN slots THEN slots[i].addr ELSE NoObj

\* A handle that Lookup accepts names the object it was minted for, and that
\* object has not been collected: no other object answers at its address.
\* Holds while its slot has been vacated fewer than refGenMask times since.
HandlesNameTheirObject ==
  \A h \in Handles :
    handles[h].state # "none" /\ handles[h].age < GenMask /\ Lookup(h) =>
      /\ slots[handles[h].id.index].addr = handles[h].obj
      /\ ~handles[h].gone

\* Every acquisition a slot counts is owed by someone: an entry of the ledger
\* under transfer, ref_add between the host call and the pin, or a handle that
\* is live, unreachable or queued.  So nothing is leaked by a commit or decode
\* that fails half way, and nothing is released twice.
AcquisitionsBalance ==
  ~wrapped =>
    \A i \in DOMAIN slots :
      slots[i].count =
        Cardinality({k \in DOMAIN ledger : ledger[k].index = i})
        + Cardinality(Granted \cap {i})
        + Cardinality({h \in Handles : /\ handles[h].state # "none" /\ handles[h].own
                                       /\ handles[h].id.index = i /\ handles[h].age = 0})

\* An id given to the guest names its object for the rest of the operation.
\* The guest reads it from the root list without looking at the generation
\* (ref_get), and the Go collector may queue the handle's release meanwhile.
LoweredRefsStayPinned ==
  ~wrapped =>
    \A h \in lowered : PinAt(handles[h].id.index) = handles[h].obj

\* A handle the program has lost is released by a later operation, unless the
\* interpreter trapped, which only Restore ends.
LostHandlesAreReleased ==
  \A h \in Handles :
    handles[h].state = "dead" ~> handles[h].state = "none" \/ pc = "trapped"
=============================================================================
