----------------------------- MODULE GuestMemory ----------------------------
(***************************************************************************)
(* The linear memory of one interpreter and the arena in it (memory.go,    *)
(* arena.go).                                                              *)
(*                                                                         *)
(* The host owns the bytes, the guest owns the allocator: its state is in  *)
(* the memory, so a snapshot holds it and a rewind puts it back.  Each     *)
(* operation marks the arena, bumps its arguments and its result region    *)
(* through it, takes what does not fit from the guest's heap, and gives it *)
(* back when it ends.                                                      *)
(*                                                                         *)
(* An address is a number of bytes; the guest's allocator is external.     *)
(***************************************************************************)
EXTENDS Integers, FiniteSets, FiniteSetsExt

CONSTANTS
  PageSize,
  GuestPages,    \* guestPages; the first page holds the stack and the data
  MaxPages,      \* MaxPages
  SignedLimit,   \* 2^31: from here on a pointer is negative for the host
  HeapSize,      \* what init_vm allocates for Python's own heap
  ArenaSize,     \* moduleArenaCapacity
  Align,         \* arenaAlign
  Sizes,         \* what operations ask for
  MaxRegions,    \* bound: allocations of one operation
  NoImage

ASSUME MemoryAssumption ==
  /\ {PageSize, GuestPages, MaxPages, HeapSize, ArenaSize, Align} \subseteq Nat \ {0}
  /\ SignedLimit \in Nat /\ Sizes \subseteq Nat /\ MaxRegions \in Nat
  /\ GuestPages <= MaxPages
  /\ PageSize % Align = 0

VARIABLES
  status,   \* of the interpreter: "none", "idle", "running", "trapped"
  mem,      \* [pages, heap (the pages the allocator has), blocks (the live ones)]
  arena,    \* [base, next]
  mark,     \* what Mark remembers: next
  ptrs,     \* the spills of the operation
  regions,  \* what the operation was given: <<address, size>>
  image     \* a snapshot: memory and arena

vars == <<status, mem, arena, mark, ptrs, regions, image>>

Fresh == [pages |-> GuestPages, heap |-> 1 .. GuestPages - 1, blocks |-> {}]

Init ==
  /\ status = "none"
  /\ mem = Fresh
  /\ arena = [base |-> 0, next |-> 0]
  /\ mark = 0
  /\ ptrs = {}
  /\ regions = {}
  /\ image = NoImage

-----------------------------------------------------------------------------
(* The guest's malloc and free.                                            *)

Span(b) == b[1] .. b[1] + b[2] - 1
Taken(m) == UNION {Span(b) : b \in m.blocks}

\* Where n bytes fit into what the allocator has.
Room(m, n) ==
  {a \in {p * PageSize + o : p \in m.heap, o \in 0 .. PageSize - 1} :
     /\ a % Align = 0
     /\ \A x \in a .. a + n - 1 : x \div PageSize \in m.heap
     /\ Span(<<a, n>>) \cap Taken(m) = {}}

\* Grow: whole pages, at the end of the memory, wherever the allocator's own are.
Grow(m, n) ==
  LET delta == (n + PageSize - 1) \div PageSize
  IN  IF m.pages + delta > MaxPages THEN m
      ELSE [m EXCEPT !.pages = @ + delta,
                     !.heap = @ \cup (m.pages .. m.pages + delta - 1)]

\* The lowest address that fits; 0 if there is none.
Malloc(m, n) ==
  LET g == IF Room(m, n) # {} THEN m ELSE Grow(m, n)
  IN  IF Room(g, n) = {} THEN [mem |-> g, ptr |-> 0]
      ELSE LET p == Min(Room(g, n))
           IN  [mem |-> [g EXCEPT !.blocks = @ \cup {<<p, n>>}], ptr |-> p]

FreeAll(m, ps) == [m EXCEPT !.blocks = {b \in @ : b[1] \notin ps}]

-----------------------------------------------------------------------------
(* memory.go.                                                              *)

Viewable(m, p, n) == p < SignedLimit /\ p + n <= m.pages * PageSize

\* Alloc: a block that the host cannot see goes back.
Alloc(m, n) ==
  LET r == Malloc(m, n)
  IN  IF n = 0 THEN [mem |-> m, ptr |-> 0]
      ELSE IF r.ptr # 0 /\ ~Viewable(r.mem, r.ptr, n)
           THEN [mem |-> FreeAll(r.mem, {r.ptr}), ptr |-> 0]
           ELSE r

\* Seeded fault: Load does not grow the memory.
MutLoad(m, saved) == [saved EXCEPT !.pages = m.pages]

\* Load: the image is written over the memory, which grows if it has to and never
\* shrinks.  What the allocator knows is what the image says.
Load(m, saved) ==
  [saved EXCEPT !.pages = Max({m.pages, saved.pages})]

-----------------------------------------------------------------------------
(* arena.go.                                                               *)

\* Seeded fault: the rest of the span is measured from its start.
MutFitsSpan(at, n) == n <= ArenaSize

FitsSpan(at, n) == at <= ArenaSize /\ n <= ArenaSize - at

\* Seeded fault: the position is rounded down.
MutAligned(n) == (n \div Align) * Align

Aligned(n) == ((n + Align - 1) \div Align) * Align

\* New, for a request that the span has room for.
BumpNew(n) ==
  LET at == Aligned(arena.next)
  IN  /\ FitsSpan(at, n)
      /\ arena' = [arena EXCEPT !.next = at + n]
      /\ regions' = regions \cup {<<arena.base + at, n>>}
      /\ UNCHANGED <<mem, ptrs>>

\* New, for one that it has not: the guest's heap, or ErrGuestOOM.
SpillNew(n) ==
  LET r == Alloc(mem, n)
  IN  /\ ~FitsSpan(Aligned(arena.next), n)
      /\ mem' = r.mem
      /\ IF r.ptr = 0 THEN UNCHANGED <<ptrs, regions>>
         ELSE /\ ptrs' = ptrs \cup {r.ptr}
              /\ regions' = regions \cup {<<r.ptr, n>>}
      /\ UNCHANGED arena

New(n) ==
  /\ status = "running"
  /\ Cardinality(regions) < MaxRegions
  /\ BumpNew(n) \/ SpillNew(n)
  /\ UNCHANGED <<status, mark, image>>

\* Seeded fault: the spills are forgotten.
MutReset ==
  /\ arena' = [arena EXCEPT !.next = mark]
  /\ ptrs' = {}
  /\ regions' = {}
  /\ UNCHANGED mem

\* The function that Mark returns.
Reset ==
  /\ mem' = FreeAll(mem, ptrs)
  /\ arena' = [arena EXCEPT !.next = mark]
  /\ ptrs' = {}
  /\ regions' = {}

-----------------------------------------------------------------------------
(* The interpreter.                                                        *)

\* NewModule: Python's heap, then the arena.  Without them there is no interpreter.
\* Reset of an instance puts it in the place of the one there is.
NewModule ==
  /\ status \in {"none", "idle", "trapped"}
  /\ LET heap == Malloc(Fresh, HeapSize)
         span == Alloc(heap.mem, ArenaSize)
     IN  /\ heap.ptr # 0 /\ span.ptr # 0
         /\ mem' = span.mem
         /\ arena' = [base |-> span.ptr, next |-> 0]
  /\ ptrs' = {} /\ regions' = {}
  /\ status' = "idle"
  /\ UNCHANGED <<mark, image>>

\* An operation of module.go begins with Mark.
Begins ==
  /\ status = "idle"
  /\ status' = "running"
  /\ mark' = arena.next
  /\ UNCHANGED <<mem, arena, ptrs, regions, image>>

Returns ==
  /\ status = "running"
  /\ status' = "idle"
  /\ Reset
  /\ UNCHANGED <<mark, image>>

\* A trap unwinds through the deferred reset, whose free may trap again.
Traps ==
  /\ status = "running"
  /\ status' = "trapped"
  /\ Reset \/ UNCHANGED <<mem, arena, ptrs, regions>>
  /\ UNCHANGED <<mark, image>>

\* Snapshot: Image and Save.  The spills are not part of it.
Snapshot ==
  /\ status = "idle"
  /\ image = NoImage
  /\ image' = [mem |-> mem, arena |-> arena]
  /\ UNCHANGED <<status, mem, arena, mark, ptrs, regions>>

LoadArena ==
  /\ arena' = image.arena
  /\ ptrs' = {}
  /\ regions' = {}

\* Restore of an interpreter that is put back into the pool.
Restore ==
  /\ image # NoImage
  /\ status = "idle"
  /\ mem' = Load(mem, image.mem)
  /\ LoadArena
  /\ UNCHANGED <<status, mark, image>>

\* A new module takes the place of one that trapped, or is the first of a clone.
Replace ==
  /\ image # NoImage
  /\ status \in {"none", "trapped"}
  /\ mem' = Load(Fresh, image.mem)
  /\ LoadArena
  /\ status' = "idle"
  /\ UNCHANGED <<mark, image>>

Close ==
  /\ status \in {"idle", "trapped"}
  /\ status' = "none"
  /\ UNCHANGED <<mem, arena, mark, ptrs, regions, image>>

Next ==
  \/ NewModule \/ Begins \/ Returns \/ Traps
  \/ \E n \in Sizes : New(n)
  \/ Snapshot \/ Restore \/ Replace \/ Close

Spec == Init /\ [][Next]_vars

-----------------------------------------------------------------------------
(* Properties.                                                             *)

Memories == [pages : 1 .. MaxPages, heap : SUBSET (0 .. MaxPages - 1),
             blocks : SUBSET (Nat \X Nat)]
Arenas == [base : Nat, next : 0 .. ArenaSize]

TypeOK ==
  /\ status \in {"none", "idle", "running", "trapped"}
  /\ mem \in Memories
  /\ arena \in Arenas
  /\ mark \in 0 .. ArenaSize
  /\ ptrs \subseteq Nat
  /\ regions \subseteq Nat \X Nat
  /\ image = NoImage \/ image \in [mem : Memories, arena : Arenas]

Usable == status \in {"idle", "running"}

\* The allocator, as a rewind left it, has no page that the memory does not have.
HeapIsMemory == Usable => \A p \in mem.heap : p < mem.pages

\* What an operation is given overlaps nothing else: no other region of it, no
\* block of the guest, and nothing past the arena.
RegionsApart ==
  status = "running" =>
    /\ \A r, q \in regions : r # q => Span(r) \cap Span(q) = {}
    /\ \A r \in regions :
         /\ r[1] % Align = 0
         /\ \E b \in mem.blocks :
              /\ Span(r) \subseteq Span(b)
              /\ b[1] \in ptrs \cup {arena.base}

\* Between operations the host owns its arena in the guest's heap and nothing
\* else, whatever was spilled, rewound or replaced.
NothingSpilledStays ==
  status = "idle" =>
    /\ ptrs = {}
    /\ <<arena.base, ArenaSize>> \in mem.blocks
    /\ Cardinality(mem.blocks) = 2

\* What fits into an interpreter that was just made from the snapshot fits into
\* one that was rewound to it (program.go: the pool holds nothing a call left).
RewoundHasRoom ==
  image # NoImage /\ status = "idle" =>
    \A n \in Sizes :
      Alloc(Load(Fresh, image.mem), n).ptr # 0 => Alloc(mem, n).ptr # 0
=============================================================================
