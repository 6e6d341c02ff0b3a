------------------------------ MODULE Transfer ------------------------------
(***************************************************************************)
(* Values on their way out of the guest: a result that an export writes    *)
(* for the host, or the arguments of a callback (build/encode.c, arena.c,  *)
(* main.c, hostfn.c), and their decoding in the host.                      *)
(*                                                                         *)
(* The guest walks the value with a stack of containers, bumping records   *)
(* and payloads through a region of fixed size.  Looking for __next__ may  *)
(* run Python code, which changes containers that are being walked; any    *)
(* step may raise, and any allocation may find the region full.  What the  *)
(* host gets is a status and the bytes of the region.                      *)
(*                                                                         *)
(* An object is a number: its payload, its address, and the id that the    *)
(* reference table has for it (RefIds shows that ids do name objects).     *)
(***************************************************************************)
EXTENDS Wire, SequencesExt

CONSTANTS
  Ints, Strs, Opaques, Lists, Dicts, Tuples, \* the objects, by kind
  Length,        \* bytes of a text; of the class name of any other object
  Attributes,    \* of the opaque objects: iterable and callable
  Shapes,        \* what the containers may hold: functions to sequences
  Base, Capacity, \* the region
  MaxDepth,      \* MP_VALUE_MAX_DEPTH, and maxDecodeDepth
  MaxHostArgs,   \* maxHostArgs
  ErrorSizes,    \* lengths of the text of an exception
  FallbackSize   \* of "<unprintable exception>"

Containers == Lists \cup Dicts \cup Tuples
Objects == Ints \cup Strs \cup Opaques \cup Containers

ASSUME TransferAssumption ==
  /\ Objects \subseteq Nat \ {0}
  /\ Ints \cap (Strs \cup Opaques \cup Containers) = {}
  /\ Strs \cap (Opaques \cup Containers) = {} /\ Opaques \cap Containers = {}
  /\ Lists \cap (Dicts \cup Tuples) = {} /\ Dicts \cap Tuples = {}
  /\ Length \in [Objects -> Nat]
  /\ Attributes \in [Opaques -> 0 .. AttrMask]
  /\ Shapes \subseteq [Containers -> Seq(Objects)]
  /\ \A held \in Shapes, o \in Dicts : Len(held[o]) % 2 = 0
  /\ Base \in Nat \ {0} /\ Base % Word = 0
  /\ Capacity \in Nat /\ Capacity % Word = 0 /\ Capacity >= TransferSize
  /\ MaxDepth \in Nat \ {0} /\ MaxHostArgs \in Nat /\ ErrorSizes \subseteq Nat /\ FallbackSize \in Nat

VARIABLES
  contents,  \* of the containers, in the guest's heap
  phase,     \* of the transfer
  purpose,   \* "result" or "arguments"
  region,    \* its words
  arena,     \* [offset, overflowed]
  stack,     \* frames of the walk: [object, items, block, next]
  pending,   \* opaque values: [object, at]
  ledger,    \* its address
  committed, \* how many of pending are acquired
  counts,    \* acquisitions, by object
  handles,   \* Go handles, by object
  log,       \* history: the objects walked, in order, with what they held then, what they
             \* were inside, and where their records and their payloads went
  full,      \* history: an allocation of this transfer found no room
  outcome    \* what the host made of it: [kind, node]

transferVars == <<contents, phase, purpose, region, arena, stack, pending, ledger, committed,
                  counts, handles, log, full, outcome>>

\* What the walk leaves alone.
outside == <<purpose, ledger, committed, counts, handles, outcome>>

Entry == 0       \* the object of the frame that is none
ErrorText == -1  \* what the text of an exception is filled with
FallbackText == -2

\* The guest's heap after one container has changed.
Changed(m) == {c \in Shapes : \A o \in Containers \ {m} : c[o] = contents[o]}
NoOutcome == [kind |-> "none", node |-> None]
Outcome(kind, node) == [kind |-> kind, node |-> node]

\* What the region held before, here, or elsewhere, was some list.
Stale(base, n) == Filled(base, n, KindList)

TransferInit ==
  /\ contents \in Shapes
  /\ phase = "idle"
  /\ purpose = "result"
  /\ region = Stale(Base, Capacity)
  /\ arena = [offset |-> 0, overflowed |-> FALSE]
  /\ stack = <<>> /\ pending = <<>> /\ ledger = 0 /\ committed = 0
  /\ counts = [o \in Objects |-> 0]
  /\ handles = [o \in Objects |-> 0]
  /\ log = <<>> /\ full = FALSE
  /\ outcome = NoOutcome

-----------------------------------------------------------------------------
(* arena.c.                                                                *)

Fits(offset, n) == Aligned(offset) <= Capacity /\ n <= Capacity - Aligned(offset)

\* Seeded fault: what is skipped to be aligned is not counted.
MutBump(a, n) == [a EXCEPT !.offset = @ + n]

\* arena_alloc, where it has room.
Bump(a, n) == [a EXCEPT !.offset = Aligned(a.offset) + n]
Place(a) == Base + Aligned(a.offset)

\* Where it has none, the flag stays up: callers raise MemoryError.
Overflow(a) == [a EXCEPT !.overflowed = TRUE]

\* output_arena_init: a header without a ledger.
Opened == [offset |-> TransferSize, overflowed |-> FALSE]
Header(mem) == Put(mem, Base + ValueSize, <<0, 0>>)

\* Seeded fault: the flag is cleared with the rest.
MutReset(a) == Opened

\* output_arena_reset: the flag is kept.
Reset(a) == [a EXCEPT !.offset = TransferSize]

\* output_arena_status: -2, or the bytes that were used.
Status(a) == IF a.overflowed THEN -2 ELSE a.offset

-----------------------------------------------------------------------------
(* encode.c: the walk.                                                     *)

KindOf(o) ==
  CASE o \in Ints -> KindInt
    [] o \in Strs -> KindStr
    [] o \in Lists -> KindList
    [] o \in Dicts -> KindDict
    [] o \in Tuples -> KindTuple
    [] OTHER -> KindObject

Top == stack[Len(stack)]
RecordAt == Top.block + (Top.next - 1) * ValueSize  \* where the next record goes

\* arena.depth: the containers under way, and the tuple of arguments.
Depth == IF purpose = "arguments" THEN Len(stack) ELSE Len(stack) - 1

\* Seeded fault: the container is walked as it is, not as it was.
MutItems(f) ==
  IF f.object = Entry THEN f.items
  ELSE [i \in DOMAIN f.items |-> IF i \in DOMAIN contents[f.object]
                                 THEN contents[f.object][i] ELSE f.items[i]]

\* What a frame walks: the snapshot.
Items(f) == f.items

\* The containers under way, from the outside in.
Around == [i \in 1 .. Len(stack) - 1 |-> stack[i + 1].object]
Active == {stack[i].object : i \in DOMAIN stack}

\* Seeded fault: one level more than the host reads.
MutCrossesAsHandle(o) == Depth > MaxDepth \/ o \in Active

\* value_from_mp_handle: a container that is too deep, or inside itself.
CrossesAsHandle(o) == Depth >= MaxDepth \/ o \in Active

Advanced == [stack EXCEPT ![Len(stack)].next = @ + 1]

Walks(o) ==
  /\ phase = "writing"
  /\ Top.next <= Len(Items(Top))
  /\ Items(Top)[Top.next] = o

\* An object is walked, with what it holds, and its record written.
Writes(o, held, mem, a) ==
  /\ region' = mem
  /\ arena' = a
  /\ log' = Append(log, [object |-> o, items |-> held, path |-> Around,
                         at |-> RecordAt, place |-> Place(arena)])
  /\ UNCHANGED <<phase, full>>

\* An allocation fails, and MemoryError is raised.
Full ==
  /\ arena' = Overflow(arena)
  /\ full' = TRUE
  /\ phase' = "raised"
  /\ UNCHANGED <<region, stack, pending, log>>

WriteInt(o) ==
  /\ Walks(o) /\ o \in Ints
  /\ Writes(o, <<>>, Put(region, RecordAt, Record(KindInt, o, 0)), arena)
  /\ stack' = Advanced
  /\ UNCHANGED <<contents, pending, outside>>

\* value_from_mp_byte_string; nothing is allocated for an empty one.
WriteStr(o) ==
  /\ Walks(o) /\ o \in Strs
  /\ IF Length[o] = 0
     THEN /\ Writes(o, <<>>, Put(region, RecordAt, Record(KindStr, 0, 0)), arena)
          /\ stack' = Advanced
          /\ UNCHANGED pending
     ELSE IF Fits(arena.offset, Length[o])
     THEN /\ Writes(o, <<>>,
                    PutText(Put(region, RecordAt, Record(KindStr, Length[o], Place(arena))),
                            Place(arena), Length[o], o),
                    Bump(arena, Length[o]))
          /\ stack' = Advanced
          /\ UNCHANGED pending
     ELSE Full
  /\ UNCHANGED <<contents, outside>>

\* value_from_mp_opaque: the name of the class, and a place in the ledger later.
WriteOpaque(o, attr, held) ==
  LET at == Place(arena)
      n == ClassHeader + Length[o]
  IN  IF Fits(arena.offset, n)
      THEN /\ Writes(o, held,
                     PutText(Put(Put(region, RecordAt, Record(KindObject, 0, at + attr)),
                                 at, <<Length[o]>>),
                             at + ClassHeader, Length[o], o),
                     Bump(arena, n))
           /\ pending' = Append(pending, [object |-> o, at |-> RecordAt])
           /\ stack' = Advanced
      ELSE Full

\* obj_is_iterator asks for __next__, and the __getattr__ of a class is Python code,
\* which may change a list or a dict.
WriteObject(o) ==
  /\ Walks(o) /\ o \in Opaques
  /\ \E m \in Lists \cup Dicts : contents' \in Changed(m)
  /\ WriteOpaque(o, Attributes[o], <<>>)
  /\ UNCHANGED outside

WriteAsHandle(o) ==
  /\ Walks(o) /\ o \in Containers
  /\ CrossesAsHandle(o)
  /\ WriteOpaque(o, 0, contents[o])
  /\ UNCHANGED <<contents, outside>>

\* value_from_mp_sequence, _set and _dict: room for the records of what it holds, and
\* a snapshot of that.
WriteContainer(o) ==
  /\ Walks(o) /\ o \in Containers
  /\ ~CrossesAsHandle(o)
  /\ LET held == contents[o]
         n == Len(held) * ValueSize
         count == IF o \in Dicts THEN Len(held) \div 2 ELSE Len(held)
     IN  IF Fits(arena.offset, n)
         THEN /\ Writes(o, held, Put(region, RecordAt, Record(KindOf(o), count, Place(arena))),
                        Bump(arena, n))
              /\ stack' = Append(Advanced, [object |-> o, items |-> held,
                                            block |-> Place(arena), next |-> 1])
              /\ UNCHANGED pending
         ELSE Full
  /\ UNCHANGED <<contents, outside>>

\* arena_pop.
LeaveContainer ==
  /\ phase = "writing"
  /\ Len(stack) > 1
  /\ Top.next > Len(Items(Top))
  /\ stack' = SubSeq(stack, 1, Len(stack) - 1)
  /\ UNCHANGED <<contents, phase, region, arena, pending, log, full, outside>>

\* Python, a snapshot, the list of what is pending, or the depth of the C stack: each
\* may raise at any object, and before there is one.
Raises ==
  /\ phase = "writing"
  /\ phase' = "raised"
  /\ UNCHANGED <<contents, region, arena, stack, pending, log, full, outside>>

-----------------------------------------------------------------------------
(* main.c, exec.c, hostfn.c: what opens the region.                        *)

Opens(why, items, at, mem, a) ==
  /\ phase = "idle"
  /\ phase' = "writing"
  /\ purpose' = why
  /\ region' = mem
  /\ arena' = a
  /\ stack' = <<[object |-> Entry, items |-> items, block |-> at, next |-> 1]>>
  /\ UNCHANGED <<contents, pending, ledger, committed, counts, handles, log, full, outcome>>

\* eval, call, call_ref, ref_to_value, iterator_next, get_global: one object.
StartResult(root) ==
  Opens("result", <<root>>, Base, Header(Stale(Base, Capacity)), Opened)

\* exec, set_global: None, which no walk is needed for.
StartNone ==
  Opens("result", <<>>, Base,
        Put(Header(Stale(Base, Capacity)), Base, Record(KindNone, 0, 0)), Opened)

\* generic_host_invoke: a tuple of the arguments, whose records come first.  With too
\* many of them it raises.
StartArguments(args) ==
  /\ Len(args) <= MaxHostArgs
  /\ Fits(TransferSize, Len(args) * ValueSize)
  /\ Opens("arguments", args, Place(Opened),
           Put(Header(Stale(Base, Capacity)), Base,
               Record(KindTuple, Len(args), Place(Opened))),
           Bump(Opened, Len(args) * ValueSize))

-----------------------------------------------------------------------------
(* pending_refs_commit.                                                    *)

Walked == phase = "writing" /\ Len(stack) = 1 /\ Top.next > Len(Items(Top))

\* The whole ledger is reserved before anything is acquired.
ReserveLedger ==
  LET n == Len(pending) * EntrySize
  IN  /\ Walked
      /\ IF pending = <<>> THEN phase' = "written" /\ UNCHANGED <<arena, ledger, full>>
         ELSE IF Fits(arena.offset, n)
         THEN /\ phase' = "committing"
              /\ ledger' = Place(arena)
              /\ arena' = Bump(arena, n)
              /\ UNCHANGED full
         ELSE /\ phase' = "raised"
              /\ arena' = Overflow(arena)
              /\ full' = TRUE
              /\ UNCHANGED ledger
      /\ UNCHANGED <<contents, purpose, region, stack, pending, committed, counts, handles,
                     log, outcome>>

\* ref_add, and its id into the ledger and into the record.
AddRef ==
  /\ phase = "committing"
  /\ committed < Len(pending)
  /\ LET p == pending[committed + 1]
     IN  /\ counts' = [counts EXCEPT ![p.object] = @ + 1]
         /\ region' = Put(Put(region, ledger + committed * EntrySize, <<p.object>>),
                          p.at + Word, <<p.object>>)
  /\ committed' = committed + 1
  /\ UNCHANGED <<contents, phase, purpose, arena, stack, pending, ledger, handles, log, full,
                 outcome>>

\* What is acquired of an object by the first n entries of a sequence of objects.
Held(objects) == [o \in Objects |-> Cardinality({i \in DOMAIN objects : objects[i] = o})]
Minus(f, g) == [o \in Objects |-> f[o] - g[o]]
Plus(f, g) == [o \in Objects |-> f[o] + g[o]]

\* Seeded fault: the last one that was acquired is forgotten.
MutRolledBack ==
  Minus(counts, Held([i \in 1 .. committed - 1 |-> pending[i].object]))

RolledBack == Minus(counts, Held([i \in 1 .. committed |-> pending[i].object]))

\* The table is full, or the list of roots does not grow: all of them are given back.
RefuseRef ==
  /\ phase = "committing"
  /\ committed < Len(pending)
  /\ counts' = RolledBack
  /\ committed' = 0
  /\ phase' = "raised"
  /\ UNCHANGED <<contents, purpose, region, arena, stack, pending, ledger, handles, log, full,
                 outcome>>

FinishCommit ==
  /\ phase = "committing"
  /\ committed = Len(pending)
  /\ region' = Put(region, Base + ValueSize, <<ledger, committed>>)
  /\ phase' = "written"
  /\ UNCHANGED <<contents, purpose, arena, stack, pending, ledger, committed, counts, handles,
                 log, full, outcome>>

-----------------------------------------------------------------------------
(* A raise.                                                                *)

\* The text of an exception at the front of what is left of the region.
WithText(mem, a, n, w) ==
  PutText(Put(mem, Base, Record(KindException, n, Place(a))), Place(a), n, w)

Ended ==
  /\ stack' = <<>> /\ pending' = <<>> /\ ledger' = 0 /\ committed' = 0 /\ log' = <<>>

\* value_from_mp_exception, of a text of n bytes.
WriteException(n) ==
  LET a == Reset(arena)
  IN  /\ Fits(a.offset, n)
      /\ region' = WithText(Header(region), a, n, ErrorText)
      /\ arena' = Bump(a, n)
      /\ UNCHANGED full

\* The text cannot be made, or does not fit; what says so may not fit either.
WriteFallback(overflow) ==
  LET a == IF overflow THEN Overflow(Reset(arena)) ELSE Reset(arena)
  IN  IF Fits(a.offset, FallbackSize)
      THEN /\ region' = WithText(Header(region), a, FallbackSize, FallbackText)
           /\ arena' = Bump(a, FallbackSize)
           /\ full' = (full \/ overflow)
      ELSE /\ region' = Put(Header(region), Base, Record(KindException, 0, 0))
           /\ arena' = Overflow(a)
           /\ full' = TRUE

\* The handler of every export.
HandleRaise ==
  /\ phase = "raised" /\ purpose = "result"
  /\ \/ \E n \in ErrorSizes : WriteException(n)
     \/ \E n \in ErrorSizes : ~Fits(Reset(arena).offset, n) /\ WriteFallback(TRUE)
     \/ WriteFallback(FALSE)
  /\ phase' = "written"
  /\ Ended
  /\ UNCHANGED <<contents, purpose, counts, handles, outcome>>

\* The arguments of a callback: the exception goes on in the Python code that called.
RaiseInCaller ==
  /\ phase = "raised" /\ purpose = "arguments"
  /\ phase' = "read"
  /\ outcome' = Outcome("raised", None)
  /\ UNCHANGED <<contents, purpose, region, arena, stack, pending, ledger, committed, counts,
                 handles, log, full>>

-----------------------------------------------------------------------------
(* The host.  What it makes of the records is not told here: it has read   *)
(* them or not (ok), and it has taken some handles of each object.         *)

\* The ledger of what was written.
Refs == ReadRefs(region, Base, arena.offset)

\* Every handle has an acquisition of its own, and the ledger's are released.
Exchanged(taken) == Minus(Plus(counts, taken), Held(Refs.ids))

\* transferError, consumeArena.
ReadResult(ok, node, taken) ==
  /\ phase = "written" /\ purpose = "result"
  /\ phase' = "read"
  /\ IF Status(arena) = -2
     THEN outcome' = Outcome("full", None) /\ UNCHANGED <<counts, handles>>
     ELSE /\ outcome' = IF ~ok THEN Outcome("unreadable", None)
                        ELSE IF node.kind = KindException THEN Outcome("exception", node)
                        ELSE Outcome("value", node)
          /\ counts' = Exchanged(taken)
          /\ handles' = Plus(handles, taken)
  /\ UNCHANGED <<contents, purpose, region, arena, stack, pending, ledger, committed, log, full>>

\* dispatch: the arguments of a callback.
ReadArguments(ok, node, taken) ==
  /\ phase = "written" /\ purpose = "arguments"
  /\ phase' = IF ok THEN "called" ELSE "failing"
  /\ outcome' = Outcome(IF ok THEN "value" ELSE "unreadable", node)
  /\ counts' = Exchanged(taken)
  /\ handles' = Plus(handles, taken)
  /\ UNCHANGED <<contents, purpose, region, arena, stack, pending, ledger, committed, log,
                 full>>

\* dispatch: nobody is registered under the id, and the arguments are given back unread.
RefuseArguments ==
  /\ phase = "written" /\ purpose = "arguments"
  /\ phase' = "failing"
  /\ outcome' = Outcome("refused", None)
  /\ counts' = Minus(counts, Held(Refs.ids))
  /\ UNCHANGED <<contents, purpose, region, arena, stack, pending, ledger, committed,
                 handles, log, full>>

\* The operation is over, or the callback: the region is free again, and handles that
\* the Go program lets go are released.
Settle ==
  /\ phase \in {"read", "answered"}
  /\ phase' = "idle"
  /\ purpose' = "result"
  /\ region' = Stale(Base, Capacity)
  /\ arena' = [offset |-> 0, overflowed |-> FALSE]
  /\ counts' = Minus(counts, handles)
  /\ handles' = [o \in Objects |-> 0]
  /\ Ended
  /\ full' = FALSE
  /\ outcome' = NoOutcome
  /\ UNCHANGED contents

\* The host function goes on (Callback): nothing of the transfer changes.
CallGoesOn ==
  /\ \/ phase = "called" /\ phase' \in {"returned", "failing"}
     \/ phase = "failing" /\ phase' = "returned"
     \/ phase = "returned" /\ phase' = "answered"
  /\ UNCHANGED <<contents, purpose, region, arena, stack, pending, ledger, committed, counts,
                 handles, log, full, outcome>>

Writing ==
  \/ \E o \in Objects :
       WriteInt(o) \/ WriteStr(o) \/ WriteObject(o) \/ WriteAsHandle(o) \/ WriteContainer(o)
  \/ LeaveContainer \/ Raises
  \/ ReserveLedger \/ AddRef \/ RefuseRef \/ FinishCommit

Starting ==
  \/ \E o \in Objects : StartResult(o)
  \/ StartNone
  \/ \E args \in BoundedSeq(Objects, MaxHostArgs) : StartArguments(args)

\* Whatever the host reads, what it has taken is what the handles have become.
Reading ==
  LET taken == Minus(handles', handles)
  IN  /\ taken \in [Objects -> Nat]
      /\ \E ok \in BOOLEAN :
           ReadResult(ok, outcome'.node, taken) \/ ReadArguments(ok, outcome'.node, taken)

TransferNext ==
  Starting \/ Writing \/ HandleRaise \/ RaiseInCaller
    \/ Reading \/ RefuseArguments \/ CallGoesOn \/ Settle

\* A transfer, whatever the decoder makes of the records.  The exports, and the host
\* functions with what they do to the other region (Callback), are transfers in this
\* sense: a handle is made by a decode and given up at the end, and by nothing between.
TransferSpec == TransferInit /\ [][TransferNext]_transferVars

-----------------------------------------------------------------------------
(* Properties.                                                             *)

\* What of the region the guest has still to write: records of the containers under
\* way, ids that are known when they are acquired, the rest of the ledger, the header.
OpenRecord(a) ==
  \E i \in DOMAIN stack :
    /\ stack[i].block + (stack[i].next - 1) * ValueSize <= a
    /\ a < stack[i].block + Len(stack[i].items) * ValueSize

OpenId(a) == \E i \in DOMAIN pending : i > committed /\ a = pending[i].at + Word

OpenEntry(a) == phase = "committing" /\ ledger + committed * EntrySize <= a

OpenHeader(a) == phase # "written" /\ Base + ValueSize <= a /\ a < Base + TransferSize

\* The words that are as the host will read them.
Final(w) ==
  LET a == w * Word
  IN  /\ a < Base + arena.offset
      /\ ~OpenRecord(a) /\ ~OpenId(a) /\ ~OpenEntry(a) /\ ~OpenHeader(a)

\* A step of the guest that succeeds.
GuestGoesOn ==
  phase \in {"writing", "committing"} /\ phase' \in {"writing", "committing", "written"}

\* What is final stays as it is, what is written is final, and in the end all is.
StepIsFinal ==
  \A w \in DOMAIN region :
    /\ Final(w) => Final(w)' /\ region'[w] = region[w]
    /\ region'[w] # region[w] => Final(w)' \/ (phase = "writing" /\ OpenId(w * Word)')
    /\ phase' = "written" /\ w * Word < Base + arena'.offset => Final(w)'

\* Every word of a transfer is written for one purpose: it is not written over while the
\* transfer goes on, by the records of another container, a payload, an id or the
\* ledger, and in the end nothing is left to write (encode.c, arena.c).
WrittenOnce == [][GuestGoesOn => StepIsFinal]_transferVars

\* A result that did not fit is told as such, so that it can be asked for again with
\* more room, whatever was written over it (arena.go, ErrArenaFull); and only then.
FullIsTold ==
  phase = "read" /\ purpose = "result" => (outcome.kind = "full" <=> full)

\* Whatever fails, and wherever, an acquisition that stands belongs to a Go handle.
NothingOwed ==
  phase \in {"read", "called", "failing", "answered", "idle"} => counts = handles
=============================================================================
