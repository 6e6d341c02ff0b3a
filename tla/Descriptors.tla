---------------------------- MODULE Descriptors -----------------------------
(***************************************************************************)
(* The descriptors of open files and sockets, across snapshots and rewinds.*)
(*                                                                         *)
(* Filesystem (vfs.go) and Network (socket.go) each keep a table of what   *)
(* is open by descriptor.  The guest keeps the descriptors in its objects  *)
(* (vfs.c, network.c), that is in guest memory: a rewind or a clone brings *)
(* old descriptors back, and the tables must agree with them.              *)
(*                                                                         *)
(* A step is one call made under the interpreter's lock.  The objects are  *)
(* the variables of Python code.  The two tables differ in their limits    *)
(* only; an entry of either is <<descriptor, the object it was opened for>>*)
(***************************************************************************)
EXTENDS Integers, FiniteSets

CONSTANTS
  Interpreters,
  Files,           \* guest variables that may hold a file or a directory iterator
  Sockets,         \* guest variables that may hold a socket
  MaxHandles,      \* maxHandles, maxSockets
  LastDescriptor,  \* math.MaxInt32, maxDescriptor: by table
  NoImage          \* no snapshot has been taken

Objects == Files \cup Sockets
Tables == {"files", "sockets"}

ASSUME DescriptorAssumption ==
  /\ MaxHandles \in Nat \ {0}
  /\ LastDescriptor \in [Tables -> Nat]
  /\ Files \cap Sockets = {}
  /\ NoImage \notin [Objects -> Int]

Table(o) == IF o \in Files THEN "files" ELSE "sockets"

\* A descriptor that was retired, in a guest object.
Closed == -1

VARIABLES
  status,   \* of each interpreter: none, idle in the pool, open, trapped or failed
  token,    \* guest memory: the descriptor in each object
  handles,  \* host: the entries of both tables
  next,     \* host: the next descriptor of each table
  image,    \* the guest memory of the Program's snapshot
  opened    \* files and connections that the process holds open

vars == <<status, token, handles, next, image, opened>>

Statuses == {"none", "idle", "open", "trapped", "failed"}

Init ==
  /\ status = [i \in Interpreters |-> "none"]
  /\ token = [i \in Interpreters |-> [o \in Objects |-> Closed]]
  /\ handles = [i \in Interpreters |-> {}]
  /\ next = [i \in Interpreters |-> [t \in Tables |-> 0]]
  /\ image = NoImage
  /\ opened = 0

\* An interpreter that is not there yet, with this guest memory: newModule makes
\* its tables empty, and both of them start from zero.
StartsFrom(i, memory) ==
  /\ token' = [token EXCEPT ![i] = memory]
  /\ handles' = [handles EXCEPT ![i] = {}]
  /\ next' = [next EXCEPT ![i] = [t \in Tables |-> 0]]

-----------------------------------------------------------------------------
(* The guest opens and closes.                                             *)

TableEntries(i, t) == {e \in handles[i] : Table(e[2]) = t}
EntryNamed(i, o) == {e \in TableEntries(i, Table(o)) : e[1] = token[i][o]}

\* capacity, and the same test in add of the sockets.
CanAdd(i, t) ==
  /\ Cardinality(TableEntries(i, t)) < MaxHandles
  /\ next[i][t] <= LastDescriptor[t]

Add(i, o) ==
  /\ CanAdd(i, Table(o))
  /\ handles' = [handles EXCEPT ![i] = @ \cup {<<next[i][Table(o)], o>>}]
  /\ next' = [next EXCEPT ![i][Table(o)] = @ + 1]
  /\ opened' = opened + 1

\* Seeded fault: the object is allocated after the file was opened, and fails.
MutGuestOpens(i, o) ==
  /\ status[i] = "open"
  /\ token[i][o] = Closed
  /\ Add(i, o)
  /\ \/ token' = [token EXCEPT ![i][o] = next[i][Table(o)]]
     \/ UNCHANGED token
  /\ UNCHANGED <<status, image>>

\* The guest allocates an object with no descriptor, opens, and stores what the
\* host returns.  Whatever fails before that leaves no trace: an entry that is
\* refused is closed by the host itself.
GuestOpens(i, o) ==
  /\ status[i] = "open"
  /\ token[i][o] = Closed
  /\ Add(i, o)
  /\ token' = [token EXCEPT ![i][o] = next[i][Table(o)]]
  /\ UNCHANGED <<status, image>>

\* Xhost_fs_close, Xhost_sock_close: an unknown descriptor is EBADF, and the
\* entry goes even if closing what it names fails.
HostCloses(i, o) ==
  /\ handles' = [handles EXCEPT ![i] = @ \ EntryNamed(i, o)]
  /\ opened' = opened - Cardinality(EntryNamed(i, o))

\* close(), the finaliser, the end of a directory iterator.
GuestCloses(i, o) ==
  /\ status[i] = "open"
  /\ token[i][o] # Closed
  /\ token' = [token EXCEPT ![i][o] = Closed]
  /\ HostCloses(i, o)
  /\ UNCHANGED <<status, next, image>>

Traps(i) ==
  /\ status[i] = "open"
  /\ status' = [status EXCEPT ![i] = "trapped"]
  /\ UNCHANGED <<token, handles, next, image, opened>>

-----------------------------------------------------------------------------
(* Snapshots.                                                              *)

\* Seeded fault: nobody asks HasOpenFiles.
MutCanSnapshot(i) ==
  /\ status[i] = "open"
  /\ TableEntries(i, "sockets") = {}

\* HasOpenFiles and HasOpenSockets refuse a snapshot.
CanSnapshot(i) ==
  /\ status[i] = "open"
  /\ handles[i] = {}

\* NewInstance.
Starts(i) ==
  /\ status[i] = "none"
  /\ status' = [status EXCEPT ![i] = "open"]
  /\ StartsFrom(i, [o \in Objects |-> Closed])
  /\ UNCHANGED <<image, opened>>

\* NewProgram: the interpreter it was taken from goes to the pool.
Compiles(i) ==
  /\ image = NoImage
  /\ CanSnapshot(i)
  /\ image' = token[i]
  /\ status' = [status EXCEPT ![i] = "idle"]
  /\ UNCHANGED <<token, handles, next, opened>>

\* Program.Instance, or a run that finds no idle interpreter.
StartsFromImage(i) ==
  /\ image # NoImage
  /\ status[i] = "none"
  /\ status' = [status EXCEPT ![i] = "open"]
  /\ StartsFrom(i, image)
  /\ UNCHANGED <<image, opened>>

\* Instance.Clone.
Clones(i, j) ==
  /\ CanSnapshot(i)
  /\ status[j] = "none"
  /\ status' = [status EXCEPT ![j] = "open"]
  /\ StartsFrom(j, token[i])
  /\ UNCHANGED <<image, opened>>

-----------------------------------------------------------------------------
(* A run ends: the interpreter is rewound and put back, or closed.         *)

\* Program.acquire.
Lent(i) ==
  /\ status[i] = "idle"
  /\ status' = [status EXCEPT ![i] = "open"]
  /\ UNCHANGED <<token, handles, next, image, opened>>

\* Seeded fault: Close forgets to delete the entries.
MutDropAll(i) ==
  /\ opened' = opened - Cardinality(handles[i])
  /\ UNCHANGED handles

\* Close of both tables.
DropAll(i) ==
  /\ handles' = [handles EXCEPT ![i] = {}]
  /\ opened' = opened - Cardinality(handles[i])

\* Seeded fault: the tables are not reset.
MutRewinds(i) ==
  /\ image # NoImage
  /\ status[i] = "open"
  /\ token' = [token EXCEPT ![i] = image]
  /\ status' = [status EXCEPT ![i] = "idle"]
  /\ UNCHANGED <<handles, next, image, opened>>

\* Module.Restore: Reset keeps next, and the guest's memory goes back.
Rewinds(i) ==
  /\ image # NoImage
  /\ status[i] = "open"
  /\ DropAll(i)
  /\ token' = [token EXCEPT ![i] = image]
  /\ status' = [status EXCEPT ![i] = "idle"]
  /\ UNCHANGED <<next, image>>

\* A close that fails ends Restore early, before the memory is rewound.  (The memory
\* itself always takes the image: it began as that image and never shrinks.)
RewindFails(i) ==
  /\ image # NoImage
  /\ status[i] = "open"
  /\ handles[i] # {}
  /\ DropAll(i)
  /\ status' = [status EXCEPT ![i] = "failed"]
  /\ UNCHANGED <<token, next, image>>

\* Seeded fault: the module that trapped is dropped as it is.
MutReplaces(i) ==
  /\ image # NoImage
  /\ status[i] = "trapped"
  /\ StartsFrom(i, image)
  /\ status' = [status EXCEPT ![i] = "idle"]
  /\ UNCHANGED <<image, opened>>

\* After a trap, Instance.Restore swaps a module made from the snapshot in and
\* closes the one that trapped.  If that fails, the caller closes the new one.
Replaces(i) ==
  /\ image # NoImage
  /\ status[i] = "trapped"
  /\ StartsFrom(i, image)
  /\ opened' = opened - Cardinality(handles[i])
  /\ \E to \in {"idle", "failed"} :
       /\ to = "failed" => handles[i] # {}
       /\ status' = [status EXCEPT ![i] = to]
  /\ UNCHANGED image

\* Instance.Close.
Closes(i) ==
  /\ status[i] # "none"
  /\ status' = [status EXCEPT ![i] = "none"]
  /\ DropAll(i)
  /\ UNCHANGED <<token, next, image>>

Next ==
  \E i \in Interpreters :
    \/ \E o \in Objects : GuestOpens(i, o) \/ GuestCloses(i, o)
    \/ \E j \in Interpreters : Clones(i, j)
    \/ Starts(i) \/ StartsFromImage(i) \/ Compiles(i)
    \/ Traps(i) \/ Lent(i)
    \/ Rewinds(i) \/ RewindFails(i) \/ Replaces(i) \/ Closes(i)

Spec == Init /\ [][Next]_vars

-----------------------------------------------------------------------------
(* Properties.                                                             *)

Memory == [Objects -> Int]

TypeOK ==
  /\ status \in [Interpreters -> Statuses]
  /\ token \in [Interpreters -> Memory]
  /\ handles \in [Interpreters -> SUBSET (Nat \X Objects)]
  /\ next \in [Interpreters -> [Tables -> Nat]]
  /\ image \in Memory \cup {NoImage}
  /\ opened \in Nat

\* A descriptor in guest memory, however old, names what it was opened for or
\* nothing: not what another object of the guest has opened since.
TokensNameTheirHandle ==
  \A i \in Interpreters : \A o \in Objects : \A e \in EntryNamed(i, o) : e[2] = o

\* Nothing stays open that the guest has lost the descriptor of, after a rewind
\* in particular: no one could close it before the interpreter.
HandlesAreHeld ==
  \A i \in Interpreters : \A e \in handles[i] : token[i][e[2]] = e[1]

\* The entries of some interpreters, each with whose it is.
EntriesOf(is) == UNION {{i} \X handles[i] : i \in is}

\* What the process holds open is in the table of an interpreter that somebody
\* will close.
NothingLeaks ==
  opened = Cardinality(EntriesOf({i \in Interpreters : status[i] # "none"}))

\* A run starts with every descriptor it may need: what earlier runs opened and
\* closed does not count (docs/USAGE.md).
RunsStartAlike ==
  \A i \in Interpreters : status[i] = "idle" =>
    \A t \in Tables : CanAdd(i, t)
=============================================================================
