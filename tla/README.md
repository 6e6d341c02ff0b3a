# micropython-go in TLA+

micropython-go embeds MicroPython in Go programs without cgo: the interpreter is
compiled to a WebAssembly module and that module to Go
(`internal/micropython`, generated). What is written by hand, and modelled
here, is the other side: the C glue in `build/` that is part of the guest, and
the Go host in `internal/host`, `internal/api` and the root package, which
share memory, reference counts, descriptors and cancellation signals with it.
Paths below are relative to `src/`.

1. [The system](#1-the-system)
2. [The modules](#2-the-modules)
3. [What is checked](#3-what-is-checked)
4. [Fairness](#4-fairness)
5. [What is proved](#5-what-is-proved)
6. [Where the code and its documentation differ](#6-where-the-code-and-its-documentation-differ)
7. [What is not modelled](#7-what-is-not-modelled)
8. [Plan](#8-plan)

## 1. The system

```
 goroutines of the Go program            the Go collector
      |            |                          |
  Program (pool) --+                          | queues releases
      |            |                          |
  api.Instance: lock, cancellation, traps     |
      |                                       |
  host.Module --- codec --- OwnedReferences <-+
      |   |   \--- arena / Memory
      |   +------ Filesystem, Network, Environment, registry of callbacks
  ----+------------------------------------------------ exports and imports
  guest: root list (refs.c), commits (encode.c), file and socket objects,
         MicroPython and its own collector
```

At most one operation runs on an interpreter at a time: `api.Instance` is a lock.
What surrounds the lock is concurrent: contexts that end, `Cancel`, `Close`,
runs of a `Program`, AfterFuncs, cleanups of the Go collector, and connections
that are closed under a call.

| component | state | operations | what is hard | what makes it correct |
|---|---|---|---|---|
| **host reference table** `internal/host/refs.go` | slots with address, generation and count; index by address; free list | Acquire, Retain, drop, Release, Free, FreeHandle | three structures kept in step by hand; 12-bit generations come around; limits | table and index agree; an id that is accepted names the object it was given for |
| **reference transfer** `build/refs.c`, `build/encode.c`, `internal/host/codec/decode.go`, `internal/host/module.go` | the root list; the ledger of a transfer; Go handles; the queue of releases | commit, roll back, decode, give back, callback, drain, Restore | fails at any element of a ledger; two collectors; an id that was checked before it is used; the table in Go and the root list in C meet only in ids | every acquisition is owed by somebody; what is counted is pinned and nothing else; a lost handle is released eventually |
| **instance lock, cancellation, traps** `internal/api/instance.go`, `internal/util/shutdown.go` | lock, current module, trap, closed; the two halves of the signal | run, Cancel, Close, Reset, Restore, Snapshot | Cancel goes around the lock and has two halves; an AfterFunc outlives its operation; the module is replaced after a trap | one operation at a time on a healthy module; answers are true; an ended context ends its own operation and no other |
| **program pool** `program.go` | idle interpreters, closed; the loans | Run, acquire, release, Close | release rewinds outside the lock; goroutines of the callback go on after it; the run's AfterFunc is not waited for | one owner each; lent fresh; bounded; none left open |
| **guest memory and arena** `internal/host/memory` | pages; the span, its position, spills; images | Grow, Alloc, Load, New, Mark, Save, Load | a rewind meets a memory that has grown; spills and images; alignment at the end | the allocator owns memory that is there; regions do not overlap; no spill stays |
| **filesystem** `internal/host/vfs`, `build/vfs.c` | handle table; open file with a deferred error; open directory with a deferred entry | open, read, write, seek, flush, close, listdir; stat, mkdir, remove, rename, rmdir | descriptors in guest memory are older than the table; reads that give data and an error; listings that fail with the last entry; names that say one thing with dots and slashes and mean another | a descriptor names what it was given for; an end that is told is the end; a listing is whole; what an operation on a path touches is what the path says |
| **network** `internal/host/network`, `build/network.c` | descriptor table; a socket with connection, timeout, deferred error; deadlines | open, connect, send, recv, settimeout, close; resolve | an AfterFunc that moves the deadline of a connection the next call uses; dials that answer too late | a call is interrupted by its own context only; counts are kept; connections are owned; ended calls return |
| **environment** `internal/host/env`, `build/os.c` | the variables, closed | set, unset, get, list; New, Reset, Close, Vars | maps by reference in instances, images and clones | an instance's changes stay in it |
| **host functions** `internal/host/dispatcher.go`, `host.go`, `build/hostfn.c` | the registry and its counter; two regions on the guest's stack during a call | DefineFunction, dispatch, restore | ids live in guest memory and are rewound with it; the answer is written over memory that the guest lent, and any step of writing it may fail | an id in memory finds the callback it was made for; Python gets the value that the function returned or an exception, never half of it |
| **value codec** `internal/host/codec`, `build/encode.c`, `build/arena.c`, `build/decode.c` | a region of records and payloads; the walker's stack of containers; the ledger | encode, decode, commit, retry with an exception | asking for `__next__` runs Python code that changes what is being walked; a region that is full at any word; limits of depth on two sides | what is read is what was there; a value that does not fit is told as such; no reference stays behind a failure |
| **conversions and public API** `value.go`, `internal/value/convert.go`, `options.go` | none | Of, Lower, Export; As methods, builders, options | values in values, at any depth | a Go value comes back as what it was (section 6 has the exceptions) |
| **guest machine** `internal/micropython`, `build/main.c`, ... | MicroPython's own | | | external |

## 2. The modules

| module | lines of the code | in short |
|---|---|---|
| `RefTable` | `internal/host/refs.go` | the slot table and its operations, each a step, because the mutex makes it one |
| `RefIds` | the same | holders that acquire, retain, release and free ids in any order |
| `References` | `refs.c`, `encode.c`, `decode.go`, `module.go` | one operation as a program counter, from Begin to the give-back, beside the two collectors. Extends `RefTable` |
| `Interpreter` | `instance.go` | abstract: what an Instance promises a caller, without lock or signal |
| `Instance` | `internal/api/instance.go`, `host/module.go`, `util/shutdown.go` | the callers as processes; implements `Interpreter` |
| `Program` | `program.go` | the pool over interpreters that behave as `Interpreter` says |
| `Descriptors` | `vfs.go`, `socket.go`, `net.go`, `module.go`, `program.go` | the two tables, the descriptors in guest memory, images, clones and the pool |
| `SocketIO` | `net.go`, `io.go`, `errors.go` | the blocking calls of one socket and their AfterFuncs |
| `GuestMemory` | `memory.go`, `arena.go`, `module.go` | addresses, blocks, growth, the arena of an operation, images |
| `HostState` | `options.go` (WithEnv), `module.go` | abstract: variables and callbacks as values |
| `HostMaps` | `env.go`, `dispatcher.go`, `module.go`, `snapshot.go` | the same as Go maps by reference; implements `HostState` |
| `Names` | `path.go`, `vfs.c`, `vfs.go` | paths, the names they become, and the operations on entries |
| `FileIO` | `file.go`, `dir.go`, `vfs.c` | one open file and one listing over a backend that may fail. Extends `Names` |
| `Wire` | `abi.h`, `codec/decode.go` | the records of a region, and how the host reads them |
| `Transfer` | `encode.c`, `arena.c`, `main.c`, `module.go`, `dispatcher.go` | the guest's walk of a value, word by word, while Python code changes it, the ledger, and what the host takes and gives back. Extends `Wire` |
| `Decoding` | `codec/decode.go` | what the host makes of the records. Extends `Transfer` |
| `GoValues` | `value.go`, `internal/value/convert.go` | Go values, and what they become on their way to Python and back. Extends `Wire` |
| `Callback` | `dispatcher.go`, `host.go`, `codec/encode.go`, `hostfn.c`, `decode.c` | a host function: arguments out, an answer in; its steps are steps of `Transfer`. Extends `Decoding` and `GoValues` |

`MC<Module>.tla` gives a module what TLC needs (symmetry, a function for a
constant), and `<Module>_proofs.tla` holds the theorems about it;
`References_proofs` those of `RefTable` and `RefIds` as well, and
`Filesystem_proofs` those of `Descriptors` and `FileIO`. Where a
module needs neither, the cfg names the module itself. `PROJECT.json` maps each
definition to its lines. A definition named `Mut...` is a seeded fault: put in
place of the definition it precedes, it makes a property fail, which shows that
the property looks at what it should.

### How state and steps correspond

**RefTable.** A packed id is a record of index and generation, and `NextGeneration`
skips generation 0 as `nextGeneration` does. Slot 0, which the code reserves, is
absent, so 0 stands for "no slot". A slot's `count` is bounded by `MaxCount`, the
`math.MaxUint32` of the code, at which Acquire and Retain refuse. `RefIds` adds
holders with a history: the object a ticket was given for, and how often its slot
has been vacated since.

**References.** `pc` follows `Module.Begin` (drain), the lookups of an operation,
the guest, `pending_refs_commit` (commit, pin, rollback), `Codec.Decode` (decode,
giveback) and a callback, which runs inside the guest step of its operation.
`Convert` starts both kinds of transfer: results go back to the caller and
arguments to a callback. Between `AddRef` and `PinRef` the host has counted and
the guest has not pinned; growing the root list may raise there, at any length
(`GrowFails`). `RollbackOne` releases last first, `GiveBackOne` in the order in
which `readRefs` has sorted the ids. `DropHandle` and `Cleanup` belong to the Go
program and the Go collector and happen at any moment; `Collect` is the guest's
collector, which runs in the guest and while a commit or the root list allocates, and spares what the
commit has yet to pin. `Restore` puts a new owner in place: the
handles of the old one keep their own.

**Instance.** Every call is a process. Its steps are what it does between two
accesses to shared state: the select of `acquire`, `Err`, the two stores of `Begin`,
`AfterFunc`, the guest, `stop`, the deferred calls. The signal is kept as the sets of
calls that raised each half, so that a property can ask by whom an operation was
stopped; `hits` records it. The module number is a pointer: `Cancel` loads it, and
signals it when it may no longer be the current one. Snapshot, Reset and Restore
share `RestoreEnters` and differ in what they do with the lock; a context may end before
they have it, and a guest that is entered there may panic, which gives the lock back and
records no trap (`RestoreFails`). In the guest an operation polls the flag, and what it sees is an
ordinary KeyboardInterrupt (`mphalport.c:16-20`): it ends the call (`Interrupted`), or Python
code catches it and goes on with the flag up (`Swallows`, `Resumes`). A call of the
filesystem or a write to stdout (`Blocks`) is out of reach of both halves; a host function
or a socket call (`CallHost`) waits for the channel. `before` remembers which Cancels were over when
an operation began.

**Program.** A step is a section under `Program.mu`, a call on an interpreter, or
what Run does between two of these. Interpreters are abstract: `op` is the one
operation that is under way, `dirty` says that a run has changed the state,
`cancel` who has asked for cancellation. `Close` takes the idle ones under the lock
and closes them one at a time.

**Descriptors.** A guest object has a descriptor (`token`) or the mark of a closed
one, and the host has tables of entries. `image` is the guest memory of the
Program's snapshot, so a rewind or a clone brings old tokens back. Both tables count
`next` up and never reuse a number. `Rewinds` is `Module.Restore`; if closing fails,
it ends early (`RewindFails`) and the caller gives the interpreter up.

**SocketIO.** A blocking call is a sequence of steps on the operation's goroutine
(`prepareIO`, the transfer, the evaluation, the join), with its AfterFunc beside it.
The deadline of the connection is what both write. Counts are in chunks, zero or
one, since only "some data" and "none" are told apart; a count that cannot be is `Breach`, an
input/output error whatever has moved.

**GuestMemory.** Addresses are numbers and a page is four bytes. The guest's
allocator is first fit over the pages it owns, and grows by whole pages, wherever
the memory ends. A guest address is a signed 32-bit number in the host: from
`SignedLimit` on it looks negative and the host refuses it (`Viewable`).

**HostMaps.** `store` holds the contents of every map, and the program's variables
hold references to maps. `First` and `Second` are maps nobody refers to: `make` or
`maps.Clone`. A clone of nil is nil, and writing to nil allocates.

**Names.** A path is the sequence of its parts between slashes, so that what the rules of
`path.go` tell apart (an empty part, a dot, two dots, a trailing slash) are values, and
the characters of a name are not. `tree` is what the backend holds. Each operation on a
path is one step: normalise, ask the backend, answer with a code.

**FileIO.** The backend is any `fs.FS`: short counts, errors with data, counts that
cannot be, seeks that land elsewhere, a file that others change. The guest's account
of where it is (`position`, `known`) is made from the results only. An open may make or cut
off the file and then fail (`OpenFails`), and the guest may have no memory for an entry that it was
given (`EntryLost`): it raises, and the entry is gone.

**Transfer.** A region is a function from word numbers to words, and an address is in
bytes, so that alignment, the end of the region and the order of writes are those of the
C code. `stack` is the walker's: a container, a snapshot of what it held, where its records
go, how far it has got. An opaque object is asked whether it is an iterator, which may run
Python code, so `WriteObject` may change any list or dictionary. `Raises` may happen before
each object, and `Full` is the arena's flag. A region that cannot hold the value is reset and
written again with an exception, whose text may be too long as well (`WriteFallback`). What
the host makes of the records is a parameter of its steps (`ReadResult`, `ReadArguments`: it
read them or not, and took some handles); `Decoding` says what it is, with the limits of the
host. `TransferSpec` allows any reading; `DecodingSpec` is the same with the decoder. The recursion
of `decode` and `decodeBlock` is a recursive function of the levels that are left and one of the
records of a block, since nothing can be proved of a recursive operator. `log` is a history: each
object that was walked, what it held then, what it was inside, and where its record and its payload went.
`Asked`, the value that was meant, is read off it, without the region.

**Callback.** The guest writes the arguments into one region and lends a second one for the
answer, whose root it marks as never written. The host function may return any of `Answers`,
fail, or panic; `Lower` turns the answer into a semantic value, the encoder bumps it
through the second region, and the guest reads what is there, or raises while it makes the
objects (`GuestCannotRead`). The encoder's state is a
record, and its recursion a recursive operator on it.

## 3. What is checked

The states are the distinct states that TLC finds; no run takes longer than two
minutes on two cores.

| run | instance | states | what it shows |
|---|---|---|---|
| `ref_ids` | 2 objects, 2 slots, 3 generations, counts to 2, 3 holders | 9,079 | the table stays consistent, and an id that is accepted names its object until its slot has been vacated as often as there are generations |
| `references` | 2 objects, 2 slots, 2 generations, counts to 2, 1 handle, 2 references in a transfer | 264,771 | no interleaving or failure loses, leaks or doubles an acquisition; pins and counts agree; a handle keeps its object; what the guest was given stays pinned; lost handles are released |
| `callback` | 6 objects (number, text, opaque, list, tuple, dictionary) that may hold each other; regions of 72 bytes; depth 2 in the guest and 1 for Go values; 2 arguments; texts of 6 and 100 bytes; 13 answers | 246,071 | a value that arrives is whole, whatever Python code does meanwhile; what the guest has written the host can read; a region that was full is told; no reference is owed after a failure; nothing is written over; Python gets the function's answer or an exception; every step is one of `DecodingSpec`, of which section 5 proves all of these but the last |
| `instance` | 2 operations and one more caller: a Cancel, a Close, or a Reset/Restore/Snapshot; 2 modules | 70,815 | `Instance` implements `Interpreter`; no module is touched under an operation; the end of a context hits its own operation, with both halves of the signal; a Cancel that was over before hits none; an operation whose context ends does end, if its program gives way (section 4) |
| `instance_close` | 1 operation, 1 Close | violation | section 6 |
| `program` | 2 runs, a Close, 1 idle interpreter | 43,709 | one owner each; lent fresh; bounded; nothing left open |
| `program_cancel` | 2 runs | violation | section 6 |
| `descriptors` | 2 interpreters, 2 files, 1 socket, 1 handle of each kind at once | 59,984 | a token names what it was given for; every entry is held by the guest; everything open is in a table |
| `socket_io` | 4 blocking calls | 121,002 | a call is interrupted by its own context only; counts are told; connections are owned; ended calls return |
| `guest_memory` | pages of 4 bytes, 10 of them; an arena of 6 bytes; requests of 1, 3 and 7 | 6,239 | the allocator owns only memory that is there; regions are apart; nothing spilled stays |
| `host_maps` | 2 callbacks, 2 variables, 2 functions | 272,652 | `HostMaps` implements `HostState`: no map is shared; ids in memory find their callback |
| `file_io` | 3 entries, 10 paths; offsets to 1, a file of 2, buffers of 2, listings of 2 | 192,780 | the guest knows where it is; an end is the end; a listing is whole; a path names the entry it says and nothing outside the mount |

The modules with theorems state a type invariant, `TypeOK` (`IdsTypeOK` in `RefIds`, `FileIOTypeOK`
in `FileIO`). Each of them is proved, and so they are not among the properties of the runs; to check one
there, add `INVARIANT TypeOK` to the cfg, as `MCInstanceAll.cfg` does. What
`Transfer` has for types is `Typed` of `Transfer_proofs`.

### Why the bounds are enough

- **Slots, generations, counts.** Two slots are what it takes for the free list to
  have an order, for an object to move to a slot that another one has left, and for
  the root list to have an index to pad up to. Generations wrap after two or
  three, so that every run meets the wrap. In `references` a slot counts to two: a
  handle and one entry of a ledger fill it, and the second entry is refused, which
  is how a commit fails in the middle. `RefIds` is proved for all values, so its run
  is a test of the statement.
- **One handle in `references`.** Acquisitions of an object that has a handle
  already, and transfers of the same object twice, make slots shared.
  `MCReferencesHandles.cfg`, to be run by hand, has two handles that share one slot
  (590,767 states).
- **Callers of `instance`.** Two operations are the least for one to be hit by the
  other's cancellation, and a third caller of any other kind meets both
  (`MaxOthers = 1`). Two modules: a Cancel can be holding the old one. The safety
  theorems of `Instance_proofs` hold for all callers, and `MCInstanceAll.cfg`, to be run
  by hand, has a Cancel, a Close and a Restore at once (4,057,277 states).
- **Runs of `program`.** Two runs compete for one place, so that both find room,
  rewind and find that only one can stay; a third finds nothing that two do not.
- **Descriptors.** One handle at a time makes the second open fail, and three files
  or two sockets in a life reach the last descriptor; two interpreters are an
  original and its clone, or two in the pool. Proved for all.
- **Calls of `socket_io`.** A connect and three transfers: an AfterFunc armed by one
  call, running during the next, and seen by the one after.
- **Memory.** Of ten pages, four are there at the start and from the ninth on
  addresses are negative, so that growth, refusal of growth and refusal of an
  address all happen. A request may fit the arena, end exactly at its end, or spill.
- **Maps.** Five maps are referred to at most, and two more are made in a step.
- **Files.** A file that is longer than a seek may reach: the limit is met from both
  sides. Of the three entries one may be inside another, and the paths name them plainly
  and with dots, empty parts, trailing slashes, a backslash and a step up.
- **Values.** A region of 72 bytes holds six records, so that the small values fit and the
  nested ones do not, with the end met at records, at payloads and at the ledger. The
  containers may hold each other and themselves: depth 2 in the guest is passed by all of
  them. The two error texts are one that fits and one that does not. Two arguments are the
  limit, and three are one too many.

`CHECK_DEADLOCK FALSE` is set for `Instance`, `Program` and `Callback` only: every call is
made once, and the system stops when all of them have returned.

## 4. Fairness

Liveness is stated for three modules, each with the fairness its code justifies and
no more.

- `References` (`LostHandlesAreReleased`): releases are applied at the next Begin, so
  the client must go on issuing operations (WF of `Begin`); an operation goes on
  (WF of its own steps); Python code ends again and again (SF, because a callback or a
  collection interrupts the wait) and so does a callback; the Go collector gets to
  every unreachable handle. An interpreter that has trapped is excused.
- `Instance` (`ExpiredOperationsEnd`, `CloseReturns`): nobody has to make a call
  (`Called`); once one is made its goroutine's own steps are weakly fair. `TakeLock` is strongly
  fair, because the lock is a Go channel and Go serves blocked senders in order. The *poll* is
  strongly fair: the VM hook runs at loops and returns and polls at each 256th
  (`mpconfigport.h:142-151`), so Python code that stays in the guest, or returns to it from host
  functions again and again, sees the flag again and again. What Python makes of the exception is
  not fair: `SF(Interrupted \/ Swallows)`. `HostAborts` is weakly fair: a callback minds its context,
  as `docs/USAGE.md:180` asks ("Host callbacks must cooperate with their context"). Nothing says
  that a guest program ends by itself, nor that a blocking call returns.
- What is then supposed of a *program* is no fairness of the system, and so it is a named
  premise of the two properties, `GivesWay(o)`: Python code stops some time to catch
  KeyboardInterrupt (`<>[][~Swallows(o)]_vars`), and it is out of blocking calls again and again
  (`[]<>(pc[o] # "blocked")`). The code justifies neither. A loop around a bare `except:` swallows
  the interrupt for ever, and `docs/USAGE.md:179-180` calls cancellation best effort for
  blocking filesystem calls and writes to stdout; without the premise the property fails
  (`DeadlinesLimitExecution`, section 6). A long C operation is a long step in the guest, which
  is supposed to end. `CloseReturns` has the same premise, so that its violation is not such a program but
  the order of `Close`.
- `SocketIO` (`EndedCallsReturn`): the steps of a call, the timer and the AfterFuncs are
  weakly fair; a provider returns when its context has ended, and a connection
  returns from a transfer when its deadline has passed or it was closed, which is
  what `config.go` asks of them. No peer has to send anything.

## 5. What is proved

With TLAPS, for all values of the constants that the named assumptions allow.

| module | theorems | assumptions |
|---|---|---|
| `References_proofs` | of the table: lemmas, each operation keeps its type and consistency; of ids: `RefIdsTypeCorrect`, `RefIdsTableConsistent`, `RefIdsGenerationsTellAge`, `RefIdsNameTheirObject` | `TableAssumption` |
| | of references: `ReferencesTypeCorrect`, `ReferencesPinWhatIsCounted`, `ReferencesBalance`, `ReferencesHandlesName`, `ReferencesLoweredStayPinned` | `TableAssumption`, `TransferAssumption` |
| `Instance_proofs` | `InstanceTypeCorrect`, `InstanceKeepsModule`, `InstanceCancelStaysHome`, `InstanceCancelIsWhole`, `InstanceForgetsStaleCancels`, `InstanceKeepsPromise` | `InstanceAssumption` |
| `Filesystem_proofs` | of the tables: `DescriptorsTypeCorrect`, `DescriptorsAreHeld`, `DescriptorsNameTheirHandle`, `DescriptorsNothingLeaks` | `DescriptorAssumption` |
| | of files and listings: `FileIOTypeCorrect`, `FileIOPositionIsKnown`, `FileIOEndIsHonest`, `FileIOListingIsWhole` | `FileAssumption` |
| | of names: `FileIOPathsAreKept` | `NamesAssumption` |
| `Program_proofs` | `ProgramTypeCorrect`, `ProgramOneOwner`, `ProgramPooledAreFresh`, `ProgramIdleBound`, `ProgramNothingLeaks` | `ProgramAssumption` |
| `SocketIO_proofs` | `SocketTypeCorrect`, `SocketOwnInterruption`, `SocketCountsAreKept`, `SocketConnectionsAreOwned` | `CallsAssumption` |
| `HostMaps_proofs` | `HostMapsTypeCorrect`, `HostMapsKeepsHostState`, `HostMapsFunctions` | `HostMapsAssumption` |
| `GuestMemory_proofs` | `GuestMemoryTypeCorrect`, `GuestMemoryHeapIsMemory`, `GuestMemoryRegionsApart`, `GuestMemoryNothingStays` | `MemoryAssumption` |
| `Transfer_proofs` | `TransferFullIsTold`, `TransferNothingOwed`, `TransferWrittenOnce`, `TransferLedgerIsRead` | `TransferAssumption` |
| | of the decoder: `DecodingIsATransfer`, `DecodingValueIsWhole`, `DecodingWrittenIsReadable` | `TransferAssumption` |

**Ids name their object.** The property speaks of ids that are accepted, and a step that
vacates a slot changes which ones are, so it is not inductive. The invariant is
`TypeOK /\ TableConsistent /\ GenerationsTellAge`: for every id somebody holds, accepted
or not, the generation of the slot is that of the id plus the number of times the
slot was vacated since, around the circle. Two of them are equal, below a full
circle, only if that number is 0, and then the slot still counts the object.

**References are paid back.** No property of `References` is inductive alone, because each of
the two tables is right only if the other is. The invariant has three layers. *Shape*: which
parts of the transfer are in use at which step (`InStep`), and that a handle is queued once
(`Queues`), so that Drain does not pay the same acquisition twice. *Pins*: the guest pins what
the host counts, but for the slot that `ref_add` has counted and not yet pinned, which is
pinned exactly if somebody counted it before (`Pinning`); that is why giving back a pin that
failed may vacate the slot without unpinning (`GrowFails`). Generations tell how often a
handle's slot was vacated (`HandlesTellAge`), as in `RefIds`. *Balance*: the count of a slot is the
number of ledger entries, handles and the `ref_add` that owe it (`AcquisitionsBalance`). It is what
keeps a slot in use while anybody still has its id: an entry of the ledger stays current
(`LedgerIsCurrent`) and a handle given to the guest stays fresh (`LoweredAreOwned`) because the
release of another acquisition leaves at least theirs. The balance, and with it what the
guest reads, is claimed as long as no slot was vacated refGenMask times under a handle
(`wrapped`), which the code does not rule out (section 6).

**An instance keeps its promise.** The invariant says who has the lock where (`Locked`),
that the interpreter in use is healthy and its module the current one (`Healthy`), that an answer
comes at the end and is what fn gave (`AnswersInStep`), how far an AfterFunc can have
got at each step of its operation (`AfterInStep`), that of all operations'
cancellations only the holder's own can stand at its module (`OwnSignal`), and that it
stands once it is raised (`OwnSignalStands`). `AfterInStep` is what `run` gets by waiting
for an AfterFunc that has started (instance.go:296); without it `OwnSignal` is not
inductive, and `Program.Run`, which does not wait, shows what then happens (section 6).
That a Cancel which is over is forgotten rests on Begin clearing both halves of the holder's
module: the signal of a Cancel stands only at the module it has loaded (`SignalsHaveLoaded`),
one that was over before stands at neither half once Begin is past it (`Forgotten`), and
what has stopped an operation has been called and met it in the guest (`HitsInStep`).
The refinement maps `InUse` to *running*: taking the lock is a stutter, `Check` is
`Start` or `Refuse`, `Leave` is `Finish`.

**Descriptors name their handle.** The host checks a descriptor when it is used only,
and the guest may have kept it since before a rewind. Per interpreter: entries are
older than `next` (`Older`), the guest holds the descriptor of every entry (`Held`), no
two entries of a table share one (`Unique`), and every descriptor in the memory of an
interpreter that runs has its entry (`Owned`); and an image holds no descriptor at all,
because a snapshot is refused while anything is open. That nothing leaks is a count: what is open is as many as the
entries of all interpreters, each taken with its interpreter, since two interpreters may have
the same descriptor open.

**The pool keeps its own.** Who has an interpreter follows from where its run is, so the
invariant of `Program_proofs` says, for each place, what it implies. An interpreter that
somebody has exists and was made before (`MadeBefore`, `Loans`); the hands that may hold
one never hold the same (`Apart`); what stands for an operation under way is the run that is
in it (`Operated`); one that is rewound and one that is pooled are fresh (`Rewound`), and one
whose rewind has failed or that a Close has taken is on its way to being closed (`Shut`).
`Placed` says that an open interpreter is pooled, lent or taken, which gives
`NothingLeaks` once nobody lends. `Counted` bounds how many interpreters are made by the runs
that have settled, since each run makes at most one. `IdleBound` is part of the invariant:
the length is compared under the same lock as the append.

**A call is interrupted by its own context.** An AfterFunc may be started, and set the deadline,
only between `Arm` and `Finish` of its own call (`AfterInStep`): `Finish` joins one that has
started. Once started, its context has ended. So a deadline in the past that a transfer
meets was set by the call's own `Prepare`, which sets it anew each time, by its own
AfterFunc, or by a timeout that has really passed (`OwnDeadline`). The counts are exact by
equations for each step (`Counts`), and a connection that a provider has made is in one
place at each step (`Connections`).

**Maps behave as values.** The refinement reads each of the code's references as the contents
of its map, so a write is a step of `HostState` only if nobody else's reference is to the
same map. That is `Apart`: the variables and the registry of the interpreter, the two maps
that are written to, are not shared with each other, with the configured variables or with an
image. A restored instance and its image do share the configured variables, and may, because
nobody writes to those. `Filled` says that an id in memory, live or saved, is in the registry
it will be looked up in and not above its counter, which is why the next id is not taken.
Each step of `HostMaps` is then the step of that name in `HostState`, and a trap is a stutter.

**What an operation is given is its own.** The host frees what it spilled by address, in an
allocator whose state a rewind has replaced, so the invariant says of every block in the
memory whose it is: Python's heap or the arena, which no operation frees, or a spill of the
operation under way (`Blocks`), and never both. Blocks do not overlap and are not empty, so
an address names one. An image is such a memory without spills (`RewoundTo`), and so is what
`Reset`, `NewModule`, `Restore` and `Replace` leave. A region is a spill or lies in the arena below
its position (`Regions`); rounding up is never below what it rounds, so the next one starts
above. The arithmetic (division, alignment, that a set of natural numbers has a least one) is
proved, not assumed.

**Results tell the guest where it is.** An end may be told only when nothing waits: of a
file, because a fault that was not told is the one that the next read meets (`FaultsWait`);
of a listing, because all that was fetched was given out unless an error waits, and the end
waits only behind the last entry (`Listing`). Positions need no more than themselves.

**A path keeps what it names.** `Name` takes empty parts and dots off the front and wants a
name of what is left (`NameFacts`), so a walk along the path stays at the mount first and
then goes down the name part by part. It gets to the end if every directory on the way is there.
The property supposes that of the last one only; the others follow because what is in the tree is
always in a directory that is there (`Rooted`), which every operation keeps: a removal because
what is removed holds nothing, a rename because what is below goes along, and because the new name
is not below the old one and holds nothing (`RenameStep`). A walk has any length. That there is one
only, and where it is after each part, is by the first place where something else would be
(`WalkIsNamed`, `PrefixesHold`): a set of numbers has a least one (`LeastNumber`), which takes no
induction theorem with an operator for a parameter.

**A transfer owes nothing, and its end is told.** That a reference is paid back depends on
bytes: what the host releases is what it reads in a ledger that the guest wrote into the
region that it was writing values into. So the invariant follows the header and the
ledger through every write. The header says that there is none until the last step of a commit
(`HeaderSays`), because records lie at the start of the region or behind the header
(`FramesSound`, `RecordsBelow`), and so do payloads; the ledger lies behind all of them
(`LedgerPlaced`), and has what was acquired in the order of the walk (`LedgerFilled`),
though each id is written into a record as well. Then the ledger can be read and is what was acquired
(`TransferLedgerIsRead`), and the counts are the handles and what is acquired (`Balanced`), at
every step and after every failure. `FullIsTold` needs that the flag of the arena is up
from the first allocation that failed to the end of the transfer, through the reset and the
fallback, and that no other step raises it (`Flagged`).

**A transfer is written once.** `WrittenOnce` is about all words: at each step some are final,
and the rest is still to be written, by the frame of a container under way, by an acquisition
that learns its id, by the ledger or by the header. It needs that these are apart (`Apart`):
a frame's records lie in no other frame's block, inner blocks behind the outer ones
(`FramesApart`); a record whose id is open is none of a frame's that is still to be written
(`RecordsWritten`), overlaps no other (`RecordsApart`) and not the header (`RecordsPlaced`); and
once the ledger is reserved, no frame has anything open (`AllWritten`). New blocks and payloads
lie behind everything that is used, so the offset of the arena separates them (`PlaceFacts`).
It is about what the guest writes for one result; the exception that takes the place of a
failed one is written over it on purpose.

**What is read is what was meant.** Neither `ValueIsWhole` nor `WrittenIsReadable` says anything
before the host has read, so the invariant is about what was walked (`Carried`). Every walk of the
log has a record that says what it should (`RecordSays`): its words are final, which is what
`WrittenOnce` is needed for, but for the id of a handle, which is pending (`HandlesPending`) or written
(`IdsWritten`). The walks are a tree (`InTree`): what the i-th holds is walked behind it, each where the
one before ends, with its record in the i-th one's block; the frames of the stack are the branch
under way. And there is room for the records of all that is walked or to be walked (`Roomy`), so the
limit on records is never met. When the walk is over, every branch is closed (`Rooted`). Then, from the
last walk to the first, the decoder reads each as what is meant by it, at the depth where
it stands and with as many records left as there are behind it (`IsRead`, `WalksAreRead`): each block
by the first record where that fails (`BranchIsRead`), each record by its kind (`IntIsRead`,
`StrIsRead`, `HandleIsRead`, `ContainerIsRead`). There is no induction in this, only least elements
(`LeastNumber`); that the recursive functions exist at all is shown the same way (`DecoderReads`,
`ItemsAreRead`, `MeantIs`). An exception that takes the place of a result is read as one
(`ExceptionSays`). Of the shapes of containers the proof asks that a dictionary holds keys with values, of the
kinds of objects that they exclude each other, and of the depth that it is not 0.

The other theorems of transfers are about `TransferSpec`, where the decoder may make anything of the
records and take any handles. With the decoder of the code they are such transfers
(`DecodingIsATransfer`); that calls, with the encoder and the host function, are
transfers with that decoder is the property `DecodingSpec` of the run `callback`.

**Only model-checked:**

- every liveness property (`LostHandlesAreReleased`, `ExpiredOperationsEnd`, `EndedCallsReturn`): out of
  the prover's reach, as `ENABLED` is;
- `AnswerIsTrue`: what the recursive encoder of the host and the reader of the guest make of the
  nested values that a Go function answers;
- that the steps of `Callback` are steps of `DecodingSpec`, since `Callback` has the recursive
  operators of that encoder.

## 6. Where the code and its documentation differ

Two are runs that TLC must find violated.

- **`Close` may wait for ever** (`instance_close`). `instance.go:235`: "Close interrupts
  active execution". `api.Instance.Close` cancels first and then waits for the lock. If
  an operation has the lock and is in `Begin`, it clears what Cancel has raised and goes
  on into a guest program that nobody interrupts any more.
- **A cancelled run may stop the next one** (`program_cancel`). `Program.Run` stops its
  AfterFunc without waiting for one that has started (`program.go:180`), so `Cancel` may
  hit an interpreter that is by then lent to another run.

Seven more are less clear-cut, or show only over long lives. Each has a cfg to run
by hand, with the property that states what the documentation says.

| cfg | property | the difference |
|---|---|---|
| `MCRefIdsWrap.cfg` (of `MCRefIds`) | `FreedIdsStayStale` | `module.go:356`: handles naming a freed object go stale. After 4,095 further frees of the same slot the generation comes around (`refs.go:190`) and a stale handle is accepted. Checked at the real width of 12 bits |
| `MCInstanceCancel.cfg` (of `MCInstance`) | `CancelHitsOneOperation` | `instance.go:191`: Cancel does not affect the next operation. Its halves go up one after the other (`module.go:158`), so it can stop a callback of one operation and the guest code of the next |
| `MCInstanceLate.cfg` (of `MCInstance`) | `LateOperationsReportClosed` | `instance.go:236`: later attempts return ErrClosed. If the machine had trapped, they report the trap (`api/instance.go:144`) |
| `MCInstanceSwallow.cfg` (of `MCInstance`) | `DeadlinesLimitExecution` | `docs/USAGE.md:174`: a context with a deadline limits execution. What ends an operation is a KeyboardInterrupt, which a bare `except:` in a loop catches each time (`mphalport.c:18`), with the flag up and the deadline past; `docs/USAGE.md:179` has "best effort", but not for this. `ExpiredOperationsEnd` is what holds |
| `MCDescriptorsReuse.cfg` (of `MCDescriptors`) | `RunsStartAlike` | `docs/USAGE.md:40-41`: runs do not keep each other's state. Descriptors are never reused, and a rewind does not reset them (`network/socket.go:43`), so a pooled interpreter may have none left |
| `MCGuestMemoryRoom.cfg` (of `MCGuestMemory`) | `RewoundHasRoom` | the same promise. A rewind never shrinks the memory and forgets the blocks in what has grown (`memory.go:91`): each run that spills grows it again, until it cannot |
| `MCCallbackAwkward.cfg` (of `MCCallback`) | `AnswerIsWhole` | `value.go:148`: the zero Value is refused. As the answer of a host function it arrives as None. `docs/USAGE.md:61`: Go values are converted. A Value inside a typed slice or a struct goes through JSON and arrives as an empty dictionary |

To run one: `tlc -config MCRefIdsWrap.cfg MCRefIds`.

Three more were met while modelling and are below the level of a property:

- An exception whose text does not fit is reported as a full arena (`main.c:4`), so the host
  tells the caller that the value was too large, whatever was raised.
- The guest writes, and the host reads, values nested to 128 levels; the host encodes to 32
  only. A value between the two can be received and not be passed back.
- `docs/USAGE.md:99-100` says that tuples and sets export as `[]any`; they export as the internal
  types `value.Tuple` and `value.Set`.

## 7. What is not modelled

- **The guest machine.** `internal/micropython/micropython.go` is generated: 105,502 of the
  113,515 lines of the implementation are the compiled interpreter, without names or
  structure, so most of the repository by size is outside every model here. Of the
  8,000 lines that are written by hand, the map covers more than half. The exports of the
  machine are steps of `References`, `Instance` and `Transfer`; its collector and its allocator
  are external and do what the host relies on.
- **Data of the codec.** Numbers that take two words (floats, wide integers), text encodings and
  sets go the way of the kinds that are there, with other bytes.
- **Network policy and names of hosts** (`network/policy.go`, resolve): a list of prefixes is asked
  in a pure function, and resolve has one call and no state. Datagrams: sendto and recvfrom
  check the peer and are send and recv; listeners accept as connect dials.
- **stat** changes nothing, and reads what the operations on entries read.
- **The rest of the public API** (`value.go`'s As methods, `internal/value`'s constructors,
  `options.go`, errors): functions without state that check and copy.
- **Data races**: where two goroutines share memory the code has a lock or an atomic;
  a borrowed handle used after `Close` is out of the contract and of the model.
- **What does not end.** A long C operation (a regular expression, a sort) polls nothing: here it is a
  step in the guest that ends. A program that catches KeyboardInterrupt for ever and one that is
  blocked for ever are modelled, and excused by `GivesWay` (section 4).
- **A panic outside `run`.** Reset, Restore and Snapshot enter the guest without a `recover`: the
  panic goes to the caller, the lock is given back and no trap is recorded (`RestoreFails`). What a
  Go program does that recovers from it is not followed; the interpreter reports no error.
- **A trap while the root list grows** (`refs.c:60-70`). Only `MemoryError` is modelled there
  (`GrowFails`), at any length. A trap between the host's count and the guest's pin would leave one
  acquisition that nobody owes, in a machine that runs nothing more until Restore or Reset gives it a
  new table.
- **An exception inside a container.** The guest writes KIND_EXCEPTION at the root only, so the
  decoder's refusal of a nested one (`decode.go:188`) is never met, and `DecodeAt` has no case for it.
- **A transfer inside a transfer.** Python code that runs while `__next__` is looked up may call a
  host function. Its regions are its own, and apart from that of the walk (`hostfn.c:20-37`); what it
  does to containers is what any Python code does, and that is modelled.
- **A listing that raised MemoryError** and is asked again goes on behind the entry that was lost.
  `FileIO` follows it to the error, which is what `ListingIsWhole` excuses.
- **The memory of a rewind.** `Memory.Load` can refuse an image that is larger than the memory. A
  rewind's image never is, since the memory began as that image and does not shrink, so
  `RewindFails` has the close that fails and nothing else.

## 8. Plan

Done, in this order: the table and its ids; the transfer of references; the interpreter and
its instance; the pool; descriptors; sockets; memory; variables and callbacks; files; names;
the values of results and of callbacks in both directions; proofs of the table, the ids, the
references, the instance, the descriptors, the pool, the socket, the variables and callbacks,
the memory, the files, the transfers and the decoder.

What would add most next:

1. **Rewind as a whole.** `Module.Restore` closes files and sockets, rewinds memory, and
   replaces tables, in this order, and may fail in each. `Descriptors`, `GuestMemory`,
   `HostMaps` and `References` model its parts; an abstract specification of a rewind would
   state what an interpreter is after one that failed.
2. **The policy for addresses**, as an operator, checked against sets of addresses.
3. **The encoder of answers**, with recursive functions as the decoder has them, so that `AnswerIsTrue`
   can be proved in the same way.
