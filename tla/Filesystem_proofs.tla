-------------------------- MODULE Filesystem_proofs --------------------------
(***************************************************************************)
(* What holds of Descriptors, for any interpreters, objects and limits,    *)
(* and of FileIO, for any entries, paths and sizes.                        *)
(*                                                                         *)
(* A descriptor in guest memory is checked by the host only when it is     *)
(* used, and the guest may have had it since before a rewind.  It names    *)
(* its own entry because (1) a table never hands out a descriptor twice,   *)
(* (2) while an interpreter runs, every descriptor in guest memory has its *)
(* entry, and (3) an image holds no descriptor at all.                     *)
(*                                                                         *)
(* An end of a file or of a listing may be told only when nothing waits    *)
(* any more: an error that came with data (FaultsWait), or one that came   *)
(* with an entry (Listing).                                                *)
(*                                                                         *)
(* A path is kept because Name takes off its front only what names the     *)
(* mount, and because what is in the tree is in a directory (Rooted).      *)
(***************************************************************************)
EXTENDS Descriptors, FileIO, FiniteSetTheorems, SequenceTheorems, WellFoundedInduction,
        TLAPS

-----------------------------------------------------------------------------
(* The tables.                                                             *)

\* What links the guest memory t of an interpreter in status s with its host
\* tables h and n.
Older(h, n) == \A e \in h : e[1] < n[Table(e[2])]
Held(t, h) == \A e \in h : t[e[2]] = e[1]
Unique(h) ==
  \A e, f \in h : e[1] = f[1] /\ Table(e[2]) = Table(f[2]) => e = f
Owned(s, t, h) ==
  s \in {"idle", "open", "trapped"} =>
    \A o \in Objects : t[o] # Closed => <<t[o], o>> \in h
Unused(s, h) == s \in {"none", "failed"} => h = {}

Sound(s, t, h, n) ==
  /\ Older(h, n)
  /\ Held(t, h)
  /\ Unique(h)
  /\ Owned(s, t, h)
  /\ Unused(s, h)

AllClosed == [o \in Objects |-> Closed]

Typed ==
  /\ status \in [Interpreters -> Statuses]
  /\ token \in [Interpreters -> Memory]
  /\ handles \in [Interpreters -> SUBSET (Nat \X Objects)]
  /\ next \in [Interpreters -> [Tables -> Nat]]
  /\ image \in {AllClosed, NoImage}

IInv ==
  /\ Typed
  /\ \A i \in Interpreters : Sound(status[i], token[i], handles[i], next[i])

-----------------------------------------------------------------------------
(* One interpreter's tables, one operation at a time.                      *)

LEMMA TableType == \A o : Table(o) \in Tables
BY DEF Table, Tables

\* An entry is a pair, so its parts tell it.
LEMMA EntryParts ==
  ASSUME NEW h \in SUBSET (Nat \X Objects), NEW e \in h
  PROVE  e[1] \in Nat /\ e[2] \in Objects /\ e = <<e[1], e[2]>>
OBVIOUS

\* With no entry and no descriptor there is nothing to disagree about.
LEMMA SoundWhenEmpty ==
  ASSUME NEW s, NEW n
  PROVE  Sound(s, AllClosed, {}, n)
BY DEF Sound, Older, Held, Unique, Owned, Unused, AllClosed

\* An interpreter that owns no entry holds no descriptor.
LEMMA SoundMemoryClosed ==
  ASSUME NEW t \in Memory, NEW n, NEW s \in {"idle", "open", "trapped"},
         Sound(s, t, {}, n)
  PROVE  t = AllClosed
BY DEF Sound, Owned, AllClosed, Memory

\* A new descriptor is newer than all the others.
LEMMA SoundAfterOpen ==
  ASSUME NEW t \in Memory, NEW h \in SUBSET (Nat \X Objects),
         NEW n \in [Tables -> Nat], NEW o \in Objects,
         Sound("open", t, h, n), t[o] = Closed
  PROVE  Sound("open",
               [t EXCEPT ![o] = n[Table(o)]],
               h \cup {<<n[Table(o)], o>>},
               [n EXCEPT ![Table(o)] = @ + 1])
<1> DEFINE b == Table(o)
           f == <<n[b], o>>
           t2 == [t EXCEPT ![o] = n[b]]
           n2 == [n EXCEPT ![b] = @ + 1]
<1>0. b \in Tables /\ n[b] \in Nat /\ \A x : Table(x) \in Tables
  BY TableType
<1>1. \A e \in h : e[1] \in Nat /\ e[2] \in Objects /\ e = <<e[1], e[2]>>
  BY EntryParts
<1>2. \A e \in h : e[2] # o
  <2>1. Closed \notin Nat
    BY DEF Closed
  <2> QED
    BY <2>1, <1>1 DEF Sound, Held
<1>3. Older(h \cup {f}, n2)
  <2>1. ASSUME NEW e \in h  PROVE  e[1] < n2[Table(e[2])]
    <3>1. e[1] < n[Table(e[2])]
      BY DEF Sound, Older
    <3>2. n2[Table(e[2])] \in {n[Table(e[2])], n[Table(e[2])] + 1}
      BY <1>0
    <3>3. n[Table(e[2])] \in Nat
      BY <1>0
    <3> QED
      BY <3>1, <3>2, <3>3, <1>1
  <2>2. n[b] < n2[b]
    BY <1>0
  <2>3. f[1] = n[b] /\ Table(f[2]) = b
    OBVIOUS
  <2> HIDE DEF f, n2, b
  <2> QED
    BY <2>1, <2>2, <2>3 DEF Older
<1>4. Held(t2, h \cup {f})
  <2>1. ASSUME NEW e \in h  PROVE  t2[e[2]] = e[1]
    BY <1>1, <1>2 DEF Sound, Held, Memory
  <2>2. t2[f[2]] = f[1]
    BY DEF Memory
  <2> HIDE DEF f, t2
  <2> QED
    BY <2>1, <2>2 DEF Held
<1>5. Unique(h \cup {f})
  <2>1. ASSUME NEW e \in h, Table(e[2]) = b  PROVE  e[1] # n[b]
    BY <1>0, <1>1, <2>1 DEF Sound, Older
  <2>2. f[1] = n[b] /\ Table(f[2]) = b
    OBVIOUS
  <2>3. Unique(h)
    BY DEF Sound
  <2> HIDE DEF f, b
  <2> QED
    BY <2>1, <2>2, <2>3 DEF Unique
<1>6. Owned("open", t2, h \cup {f})
  <2> SUFFICES ASSUME NEW x \in Objects, t2[x] # Closed
               PROVE  <<t2[x], x>> \in h \cup {f}
    BY DEF Owned
  <2>1. CASE x = o
    BY <2>1 DEF Memory
  <2>2. CASE x # o
    <3>1. t2[x] = t[x]
      BY <2>2 DEF Memory
    <3> QED
      BY <3>1 DEF Sound, Owned
  <2> QED
    BY <2>1, <2>2
<1> QED
  BY <1>3, <1>4, <1>5, <1>6 DEF Sound, Unused

\* The entry that goes is the one of the object that gives its descriptor up.
LEMMA SoundAfterClose ==
  ASSUME NEW t \in Memory, NEW h \in SUBSET (Nat \X Objects),
         NEW n \in [Tables -> Nat], NEW o \in Objects,
         Sound("open", t, h, n), t[o] # Closed
  PROVE  Sound("open",
               [t EXCEPT ![o] = Closed],
               h \ {e \in h : Table(e[2]) = Table(o) /\ e[1] = t[o]},
               n)
<1> DEFINE gone == {e \in h : Table(e[2]) = Table(o) /\ e[1] = t[o]}
           t2 == [t EXCEPT ![o] = Closed]
<1>1. \A e \in h : e[1] \in Nat /\ e[2] \in Objects /\ e = <<e[1], e[2]>>
  BY EntryParts
<1>2. \A e \in h \ gone : e[2] # o
  BY DEF Sound, Held
<1>3. Older(h \ gone, n) /\ Unique(h \ gone)
  BY DEF Sound, Older, Unique
<1>4. Held(t2, h \ gone)
  BY <1>1, <1>2 DEF Sound, Held, Memory
<1>5. Owned("open", t2, h \ gone)
  <2> SUFFICES ASSUME NEW x \in Objects, t2[x] # Closed
               PROVE  <<t2[x], x>> \in h \ gone
    BY DEF Owned
  <2>1. x # o /\ t2[x] = t[x]
    BY DEF Memory
  <2>2. <<t[x], x>> \in h /\ <<t[o], o>> \in h
    BY <2>1 DEF Sound, Owned
  <2>3. <<t[x], x>> \notin gone
    BY <2>1, <2>2 DEF Sound, Unique
  <2> QED
    BY <2>1, <2>2, <2>3
<1> QED
  BY <1>3, <1>4, <1>5 DEF Sound, Unused

\* A status that changes with nothing else.
LEMMA SoundInOtherStatus ==
  ASSUME NEW t, NEW h, NEW n,
         NEW s \in {"idle", "open", "trapped"},
         NEW r \in {"idle", "open", "trapped"},
         Sound(s, t, h, n)
  PROVE  Sound(r, t, h, n)
BY DEF Sound, Owned, Unused

\* Once its tables are empty, an interpreter is lost or gone whatever its memory.
LEMMA SoundWhenLost ==
  ASSUME NEW t, NEW n, NEW s \in {"none", "failed"}
  PROVE  Sound(s, t, {}, n)
BY DEF Sound, Older, Held, Unique, Owned, Unused

-----------------------------------------------------------------------------
(* The invariant, one action at a time.                                    *)

\* What an action that only touches interpreter i has to show.
LEMMA OneInterpreter ==
  ASSUME IInv, Typed', NEW i \in Interpreters,
         Sound(status'[i], token'[i], handles'[i], next'[i]),
         \A j \in Interpreters \ {i} :
           /\ status'[j] = status[j]
           /\ token'[j] = token[j]
           /\ handles'[j] = handles[j]
           /\ next'[j] = next[j]
  PROVE  IInv'
<1> SUFFICES ASSUME NEW k \in Interpreters
             PROVE  Sound(status'[k], token'[k], handles'[k], next'[k])
  BY DEF IInv
<1>1. CASE k = i
  BY <1>1
<1>2. CASE k # i
  <2>1. Sound(status[k], token[k], handles[k], next[k])
    BY DEF IInv
  <2>2. /\ status'[k] = status[k]
        /\ token'[k] = token[k]
        /\ handles'[k] = handles[k]
        /\ next'[k] = next[k]
    BY <1>2
  <2> QED
    BY <2>1, <2>2
<1> QED
  BY <1>1, <1>2

\* The types of one interpreter's state, and of what may replace it.
LEMMA TypeFacts ==
  ASSUME Typed, NEW i \in Interpreters
  PROVE  /\ status[i] \in Statuses
         /\ token[i] \in Memory
         /\ handles[i] \in SUBSET (Nat \X Objects)
         /\ next[i] \in [Tables -> Nat]
         /\ AllClosed \in Memory
         /\ [t \in Tables |-> 0] \in [Tables -> Nat]
BY DEF Typed, AllClosed, Memory, Closed

LEMMA InitInv == Init => IInv
<1> SUFFICES ASSUME Init  PROVE  IInv
  OBVIOUS
<1>1. Typed
  BY DEF Init, Typed, AllClosed, Memory, Closed, Statuses
<1>2. ASSUME NEW i \in Interpreters
      PROVE  Sound(status[i], token[i], handles[i], next[i])
  BY SoundWhenEmpty DEF Init, AllClosed
<1> QED
  BY <1>1, <1>2 DEF IInv

LEMMA OpensKeeps ==
  ASSUME IInv, NEW i \in Interpreters, NEW o \in Objects, GuestOpens(i, o)
  PROVE  IInv'
<1> DEFINE b == Table(o)
           f == <<next[i][b], o>>
<1>1. Typed /\ b \in Tables /\ next[i][b] \in Nat /\ f \in Nat \X Objects
  BY TypeFacts, TableType DEF IInv
<1>2. Sound("open", token[i], handles[i], next[i]) /\ token[i][o] = Closed
  BY DEF IInv, GuestOpens
<1>3. /\ token' = [token EXCEPT ![i] = [token[i] EXCEPT ![o] = next[i][b]]]
      /\ handles' = [handles EXCEPT ![i] = handles[i] \cup {f}]
      /\ next' = [next EXCEPT ![i] = [next[i] EXCEPT ![b] = @ + 1]]
      /\ status' = status /\ image' = image /\ status[i] = "open"
  BY DEF GuestOpens, Add
<1>4. /\ [token[i] EXCEPT ![o] = next[i][b]] \in Memory
      /\ handles[i] \cup {f} \in SUBSET (Nat \X Objects)
      /\ [next[i] EXCEPT ![b] = @ + 1] \in [Tables -> Nat]
  <2>1. token[i] \in Memory /\ handles[i] \in SUBSET (Nat \X Objects)
        /\ next[i] \in [Tables -> Nat]
    BY <1>1, TypeFacts
  <2>2. [token[i] EXCEPT ![o] = next[i][b]] \in Memory
    BY <2>1, <1>1 DEF Memory
  <2>3. handles[i] \cup {f} \in SUBSET (Nat \X Objects)
    BY <2>1, <1>1
  <2>4. [next[i] EXCEPT ![b] = @ + 1] \in [Tables -> Nat]
    BY <2>1, <1>1
  <2> QED
    BY <2>2, <2>3, <2>4
<1>5. Typed'
  <2> HIDE DEF f, b
  <2> QED
    BY <1>1, <1>3, <1>4 DEF Typed
<1>6. Sound("open", [token[i] EXCEPT ![o] = next[i][b]], handles[i] \cup {f},
            [next[i] EXCEPT ![b] = @ + 1])
  BY <1>1, <1>2, TypeFacts, SoundAfterOpen
<1>7. /\ status'[i] = "open"
      /\ token'[i] = [token[i] EXCEPT ![o] = next[i][b]]
      /\ handles'[i] = handles[i] \cup {f}
      /\ next'[i] = [next[i] EXCEPT ![b] = @ + 1]
  <2> HIDE DEF f, b
  <2> QED
    BY <1>1, <1>3 DEF Typed
<1>8. Sound(status'[i], token'[i], handles'[i], next'[i])
  BY <1>6, <1>7
<1> QED
  BY <1>3, <1>5, <1>8, <1>1, OneInterpreter DEF Typed

LEMMA ClosesKeeps ==
  ASSUME IInv, NEW i \in Interpreters, NEW o \in Objects, GuestCloses(i, o)
  PROVE  IInv'
<1> DEFINE rest == handles[i] \ {e \in handles[i] :
                                   Table(e[2]) = Table(o) /\ e[1] = token[i][o]}
           mem == [token[i] EXCEPT ![o] = Closed]
<1>1. Typed
  BY DEF IInv
<1>2. Sound("open", token[i], handles[i], next[i]) /\ token[i][o] # Closed
  BY DEF IInv, GuestCloses
<1>3. handles[i] \ EntryNamed(i, o) = rest
  BY DEF EntryNamed, TableEntries
<1>4. /\ token' = [token EXCEPT ![i] = mem]
      /\ handles' = [handles EXCEPT ![i] = rest]
      /\ next' = next /\ status' = status /\ image' = image
      /\ status[i] = "open"
  BY <1>3 DEF GuestCloses, HostCloses
<1>5. mem \in Memory /\ rest \in SUBSET (Nat \X Objects)
  BY <1>1, TypeFacts DEF Memory, Closed
<1>6. Typed'
  <2> HIDE DEF mem, rest
  <2> QED
    BY <1>1, <1>4, <1>5 DEF Typed
<1>7. Sound("open", mem, rest, next[i])
  BY <1>1, <1>2, TypeFacts, SoundAfterClose
<1>8. Sound(status'[i], token'[i], handles'[i], next'[i])
  <2> HIDE DEF mem, rest
  <2> QED
    BY <1>1, <1>4, <1>7 DEF Typed
<1> QED
  BY <1>1, <1>4, <1>6, <1>8, OneInterpreter DEF Typed

\* An interpreter that starts from a memory with no descriptor in it.
LEMMA StartKeeps ==
  ASSUME IInv, NEW i \in Interpreters, NEW s \in Statuses,
         StartsFrom(i, AllClosed), status' = [status EXCEPT ![i] = s],
         image' = image
  PROVE  IInv'
<1>1. Typed /\ AllClosed \in Memory
  BY TypeFacts DEF IInv
<1>2. Typed'
  BY <1>1, TypeFacts DEF Typed, StartsFrom
<1>3. Sound(status'[i], token'[i], handles'[i], next'[i])
  BY <1>1, SoundWhenEmpty DEF StartsFrom, Typed
<1> QED
  BY <1>1, <1>2, <1>3, OneInterpreter DEF Typed, StartsFrom

\* The tables are emptied, and the memory is the image or does not matter.
LEMMA DropKeeps ==
  ASSUME IInv, NEW i \in Interpreters, NEW s \in Statuses, NEW t \in Memory,
         DropAll(i), status' = [status EXCEPT ![i] = s],
         token' = [token EXCEPT ![i] = t],
         UNCHANGED <<next, image>>,
         t = AllClosed \/ s \in {"none", "failed"}
  PROVE  IInv'
<1>1. Typed
  BY DEF IInv
<1>2. Typed'
  BY <1>1, TypeFacts DEF Typed, DropAll
<1>3. Sound(s, t, {}, next[i])
  BY SoundWhenEmpty, SoundWhenLost
<1>4. Sound(status'[i], token'[i], handles'[i], next'[i])
  BY <1>1, <1>3 DEF DropAll, Typed
<1> QED
  BY <1>1, <1>2, <1>4, OneInterpreter DEF Typed, DropAll

\* Only the status changes, between those in which the guest's memory counts.
LEMMA StatusKeeps ==
  ASSUME IInv, NEW i \in Interpreters,
         NEW r \in {"idle", "open", "trapped"},
         status[i] \in {"idle", "open", "trapped"},
         status' = [status EXCEPT ![i] = r],
         image' \in {AllClosed, NoImage},
         UNCHANGED <<token, handles, next>>
  PROVE  IInv'
<1>1. Typed /\ Sound(status[i], token[i], handles[i], next[i])
  BY DEF IInv
<1>2. Typed'
  BY <1>1 DEF Typed, Statuses
<1>3. Sound(r, token[i], handles[i], next[i])
  BY <1>1, SoundInOtherStatus
<1>4. Sound(status'[i], token'[i], handles'[i], next'[i])
  BY <1>1, <1>3 DEF Typed
<1> QED
  BY <1>1, <1>2, <1>4, OneInterpreter DEF Typed

\* An interpreter whose snapshot can be taken holds no descriptor.
LEMMA SnapshotIsClosed ==
  ASSUME IInv, NEW i \in Interpreters, CanSnapshot(i)
  PROVE  token[i] = AllClosed
<1>1. Sound("open", token[i], {}, next[i]) /\ token[i] \in Memory
  BY TypeFacts DEF IInv, CanSnapshot
<1> QED
  BY <1>1, SoundMemoryClosed

LEMMA StepInv == IInv /\ [Next]_vars => IInv'
<1> SUFFICES ASSUME IInv, [Next]_vars  PROVE  IInv'
  OBVIOUS
<1>0. Typed
  BY DEF IInv
<1>1. CASE UNCHANGED vars
  BY <1>1 DEF vars, IInv, Typed
<1>2. ASSUME NEW i \in Interpreters, NEW o \in Objects, GuestOpens(i, o)
      PROVE  IInv'
  BY <1>2, OpensKeeps
<1>3. ASSUME NEW i \in Interpreters, NEW o \in Objects, GuestCloses(i, o)
      PROVE  IInv'
  BY <1>3, ClosesKeeps
<1>4. ASSUME NEW i \in Interpreters, NEW j \in Interpreters, Clones(i, j)
      PROVE  IInv'
  <2>1. token[i] = AllClosed
    BY <1>4, SnapshotIsClosed DEF Clones
  <2> QED
    BY <1>4, <2>1, StartKeeps DEF Clones, Statuses
<1>5. ASSUME NEW i \in Interpreters, Starts(i)  PROVE  IInv'
  BY <1>5, StartKeeps DEF Starts, Statuses, AllClosed
<1>6. ASSUME NEW i \in Interpreters, StartsFromImage(i)  PROVE  IInv'
  <2>1. image = AllClosed
    BY <1>0, <1>6 DEF Typed, StartsFromImage
  <2> QED
    BY <1>6, <2>1, StartKeeps DEF StartsFromImage, Statuses
<1>7. ASSUME NEW i \in Interpreters, Compiles(i)  PROVE  IInv'
  <2>1. token[i] = AllClosed
    BY <1>7, SnapshotIsClosed DEF Compiles
  <2> QED
    BY <1>7, <2>1, StatusKeeps DEF Compiles, CanSnapshot
<1>8. ASSUME NEW i \in Interpreters, Traps(i)  PROVE  IInv'
  BY <1>0, <1>8, StatusKeeps DEF Traps, Typed
<1>9. ASSUME NEW i \in Interpreters, Lent(i)  PROVE  IInv'
  BY <1>0, <1>9, StatusKeeps DEF Lent, Typed
<1>10. ASSUME NEW i \in Interpreters, Rewinds(i)  PROVE  IInv'
  <2>1. image = AllClosed /\ AllClosed \in Memory
    BY <1>0, <1>10, TypeFacts DEF Typed, Rewinds
  <2> QED
    BY <1>10, <2>1, DropKeeps DEF Rewinds, Statuses
<1>11. ASSUME NEW i \in Interpreters, RewindFails(i)  PROVE  IInv'
  <2>1. token[i] \in Memory /\ token' = [token EXCEPT ![i] = token[i]]
    BY <1>0, <1>11, TypeFacts DEF RewindFails, Typed
  <2> QED
    BY <1>11, <2>1, DropKeeps DEF RewindFails, Statuses
<1>12. ASSUME NEW i \in Interpreters, Replaces(i)  PROVE  IInv'
  <2>1. image = AllClosed
    BY <1>0, <1>12 DEF Typed, Replaces
  <2>2. PICK to \in {"idle", "failed"} : status' = [status EXCEPT ![i] = to]
    BY <1>12 DEF Replaces
  <2> QED
    BY <1>12, <2>1, <2>2, StartKeeps DEF Replaces, Statuses
<1>13. ASSUME NEW i \in Interpreters, Closes(i)  PROVE  IInv'
  <2>1. token[i] \in Memory /\ token' = [token EXCEPT ![i] = token[i]]
    BY <1>0, <1>13, TypeFacts DEF Closes, Typed
  <2> QED
    BY <1>13, <2>1, DropKeeps DEF Closes, Statuses
<1> QED
  BY <1>1, <1>2, <1>3, <1>4, <1>5, <1>6, <1>7, <1>8, <1>9, <1>10, <1>11,
     <1>12, <1>13 DEF Next

LEMMA Invariant == Spec => []IInv
BY InitInv, StepInv, PTL DEF Spec

-----------------------------------------------------------------------------
(* What follows.                                                           *)

\* An entry is always held by the object it was opened for: closing is left to
\* nobody (vfs.c, network.c; Reset before every rewind).
THEOREM DescriptorsAreHeld == Spec => []HandlesAreHeld
<1>1. IInv => HandlesAreHeld
  BY DEF IInv, Sound, Held, HandlesAreHeld
<1> QED
  BY <1>1, Invariant, PTL

\* A descriptor in guest memory names its own entry or none, whatever was
\* snapshot, cloned, rewound or replaced since it was handed out.
THEOREM DescriptorsNameTheirHandle == Spec => []TokensNameTheirHandle
<1>1. ASSUME IInv, NEW i \in Interpreters, NEW o \in Objects,
             NEW e \in EntryNamed(i, o)
      PROVE  e[2] = o
  <2>1. /\ Typed /\ Sound(status[i], token[i], handles[i], next[i])
        /\ handles[i] \in SUBSET (Nat \X Objects)
    BY <1>1, TypeFacts DEF IInv
  <2>2. /\ e \in handles[i] /\ Table(e[2]) = Table(o)
        /\ e[1] = token[i][o] /\ e[1] \in Nat
    BY <1>1, <2>1, EntryParts DEF EntryNamed, TableEntries
  <2>3. status[i] \in {"idle", "open", "trapped"}
    BY <2>1, <2>2, TypeFacts DEF Sound, Unused, Statuses
  <2>4. <<token[i][o], o>> \in handles[i]
    BY <2>1, <2>2, <2>3 DEF Sound, Owned, Closed
  <2> QED
    BY <2>1, <2>2, <2>4 DEF Sound, Unique
<1>2. IInv => TokensNameTheirHandle
  BY <1>1 DEF TokensNameTheirHandle
<1> QED
  BY <1>2, Invariant, PTL

-----------------------------------------------------------------------------
(* What is open is counted.                                                *)

All == EntriesOf(Interpreters)
Counted == IsFiniteSet(All) /\ opened = Cardinality(All)

\* Counted with its interpreter, an entry is one entry.
LEMMA InAll ==
  ASSUME NEW x
  PROVE  x \in All <=> \E i \in Interpreters : \E e \in handles[i] : x = <<i, e>>
BY DEF All, EntriesOf

LEMMA EntriesOfOne ==
  ASSUME IsFiniteSet(All), NEW i \in Interpreters
  PROVE  /\ {i} \X handles[i] \subseteq All
         /\ IsFiniteSet(handles[i])
         /\ Cardinality({i} \X handles[i]) = Cardinality(handles[i])
<1> DEFINE own == {i} \X handles[i]
<1>1. own \subseteq All
  BY InAll
<1>2. IsFiniteSet(own)
  BY <1>1, FS_Subset
<1>3. IsFiniteSet(handles[i])
  <2> DEFINE entry == [x \in own |-> x[2]]
  <2>0. \A x \in own : x[2] \in handles[i]
    OBVIOUS
  <2>1. entry \in [own -> handles[i]]
    BY <2>0
  <2>2. \A e \in handles[i] : <<i, e>> \in own /\ entry[<<i, e>>] = e
    OBVIOUS
  <2> HIDE DEF entry, own
  <2>3. entry \in Surjection(own, handles[i])
    BY <2>1, <2>2 DEF Surjection
  <2> QED
    BY <1>2, <2>3, FS_Surjection
<1>4. IsFiniteSet({i}) /\ Cardinality({i}) = 1
  BY FS_Singleton
<1>5. Cardinality(own) = 1 * Cardinality(handles[i]) /\ Cardinality(handles[i]) \in Nat
  BY <1>3, <1>4, FS_Product, FS_CardinalityType
<1> QED
  BY <1>1, <1>3, <1>5

\* A step that leaves every table as it is, or empties one that was empty.
LEMMA SameCounted ==
  ASSUME Counted, opened' = opened,
         \A i \in Interpreters : handles'[i] = handles[i]
  PROVE  Counted'
<1>1. All' = All
  BY DEF All, EntriesOf
<1> QED
  BY <1>1 DEF Counted

\* All of an interpreter's entries go, each of them closed.
LEMMA DropCounted ==
  ASSUME Typed, Counted, NEW i \in Interpreters,
         handles' = [handles EXCEPT ![i] = {}],
         opened' = opened - Cardinality(handles[i])
  PROVE  Counted'
<1> DEFINE own == {i} \X handles[i]
<1>1. All' = All \ own
  <2>1. ASSUME NEW x  PROVE  x \in All' <=> x \in All \ own
    <3>1. x \in All' <=> \E k \in Interpreters : \E e \in handles'[k] : x = <<k, e>>
      BY DEF All, EntriesOf
    <3>2. \A k \in Interpreters : handles'[k] = IF k = i THEN {} ELSE handles[k]
      BY DEF Typed
    <3> QED
      BY <3>1, <3>2, InAll
  <2> QED
    BY <2>1
<1>2. own \subseteq All /\ Cardinality(own) = Cardinality(handles[i])
  BY EntriesOfOne DEF Counted
<1> HIDE DEF own
<1>3. All \cap own = own
  BY <1>2
<1>4. IsFiniteSet(All \ own) /\ Cardinality(All \ own) = Cardinality(All) - Cardinality(own)
  BY <1>3, FS_Difference DEF Counted
<1> QED
  BY <1>1, <1>2, <1>4 DEF Counted

\* A descriptor that has not been handed out is in no entry.
LEMMA OpensCounted ==
  ASSUME IInv, Counted, NEW i \in Interpreters, NEW o \in Objects, GuestOpens(i, o)
  PROVE  Counted'
<1> DEFINE f == <<next[i][Table(o)], o>>
<1>1. /\ handles' = [handles EXCEPT ![i] = handles[i] \cup {f}]
      /\ opened' = opened + 1
  BY DEF GuestOpens, Add
<1>2. f \notin handles[i]
  <2>1. next[i][Table(o)] \in Nat
    BY TypeFacts, TableType DEF IInv
  <2>2. f[1] = next[i][Table(o)] /\ Table(f[2]) = Table(o)
    OBVIOUS
  <2> HIDE DEF f
  <2> QED
    BY <2>1, <2>2 DEF IInv, Sound, Older
<1> HIDE DEF f
<1>3. All' = All \cup {<<i, f>>} /\ <<i, f>> \notin All
  <2>1. \A k \in Interpreters : handles'[k] = IF k = i THEN handles[k] \cup {f} ELSE handles[k]
    BY <1>1 DEF IInv, Typed
  <2>2. ASSUME NEW x  PROVE  x \in All' <=> x \in All \cup {<<i, f>>}
    <3>1. x \in All' <=> \E k \in Interpreters : \E e \in handles'[k] : x = <<k, e>>
      BY DEF All, EntriesOf
    <3> QED
      BY <2>1, <3>1, InAll
  <2> QED
    BY <1>2, <2>2, InAll
<1> QED
  BY <1>1, <1>3, FS_AddElement DEF Counted

\* A descriptor that the guest has is in one entry.
LEMMA ClosesCounted ==
  ASSUME IInv, Counted, NEW i \in Interpreters, NEW o \in Objects, GuestCloses(i, o)
  PROVE  Counted'
<1> DEFINE f == <<token[i][o], o>>
<1>0. Typed /\ Sound("open", token[i], handles[i], next[i]) /\ token[i][o] # Closed
  BY DEF IInv, GuestCloses
<1>1. EntryNamed(i, o) = {f}
  <2>1. f \in handles[i] /\ f[1] = token[i][o] /\ f[2] = o
    BY <1>0 DEF Sound, Owned
  <2>2. EntryNamed(i, o) = {e \in handles[i] : Table(e[2]) = Table(o) /\ e[1] = token[i][o]}
    BY DEF EntryNamed, TableEntries
  <2> HIDE DEF f
  <2>3. \A e \in EntryNamed(i, o) : e = f
    BY <1>0, <2>1, <2>2 DEF Sound, Unique
  <2> QED
    BY <2>1, <2>2, <2>3
<1>2. /\ handles' = [handles EXCEPT ![i] = handles[i] \ {f}]
      /\ opened' = opened - 1 /\ f \in handles[i]
  <2>1. Cardinality({f}) = 1
    BY FS_Singleton
  <2>2. f \in handles[i]
    BY <1>1 DEF EntryNamed, TableEntries
  <2> HIDE DEF f
  <2> QED
    BY <1>1, <2>1, <2>2 DEF GuestCloses, HostCloses
<1> HIDE DEF f
<1>3. All' = All \ {<<i, f>>} /\ <<i, f>> \in All
  <2>1. \A k \in Interpreters : handles'[k] = IF k = i THEN handles[k] \ {f} ELSE handles[k]
    BY <1>0, <1>2 DEF Typed
  <2>2. ASSUME NEW x  PROVE  x \in All' <=> x \in All \ {<<i, f>>}
    <3>1. x \in All' <=> \E k \in Interpreters : \E e \in handles'[k] : x = <<k, e>>
      BY DEF All, EntriesOf
    <3>2. ASSUME NEW k \in Interpreters, NEW e
          PROVE  e \in handles'[k] <=> e \in handles[k] /\ <<k, e>> # <<i, f>>
      BY <2>1
    <3>3. x \in All <=> \E k \in Interpreters : \E e \in handles[k] : x = <<k, e>>
      BY InAll
    <3> QED
      BY <3>1, <3>2, <3>3
  <2> QED
    BY <1>2, <2>2, InAll
<1> QED
  BY <1>2, <1>3, FS_RemoveElement DEF Counted

LEMMA StepCounted == IInv /\ Counted /\ [Next]_vars => Counted'
<1> SUFFICES ASSUME IInv, Counted, [Next]_vars  PROVE  Counted'
  OBVIOUS
<1>0. Typed
  BY DEF IInv
<1>1. ASSUME UNCHANGED <<handles, opened>>  PROVE  Counted'
  BY <1>1, SameCounted
<1>2. ASSUME NEW i \in Interpreters, status[i] = "none", NEW memory,
             StartsFrom(i, memory), opened' = opened
      PROVE  Counted'
  <2>1. handles[i] = {}
    BY <1>2 DEF IInv, Sound, Unused
  <2>2. \A k \in Interpreters : handles'[k] = handles[k]
    BY <1>0, <1>2, <2>1 DEF StartsFrom, Typed
  <2> QED
    BY <1>2, <2>2, SameCounted
<1>3. ASSUME NEW i \in Interpreters, DropAll(i)  PROVE  Counted'
  BY <1>0, <1>3, DropCounted DEF DropAll
<1>4. ASSUME NEW i \in Interpreters, Replaces(i)  PROVE  Counted'
  BY <1>0, <1>4, DropCounted DEF Replaces, StartsFrom
<1>5. ASSUME NEW i \in Interpreters, NEW o \in Objects, GuestOpens(i, o) \/ GuestCloses(i, o)
      PROVE  Counted'
  BY <1>5, OpensCounted, ClosesCounted
<1>6. ASSUME NEW i \in Interpreters, NEW j \in Interpreters, Clones(i, j)
      PROVE  Counted'
  BY <1>2, <1>6 DEF Clones
<1>7. ASSUME NEW i \in Interpreters, Starts(i) \/ StartsFromImage(i)
      PROVE  Counted'
  BY <1>2, <1>7 DEF Starts, StartsFromImage
<1>8. ASSUME NEW i \in Interpreters, Rewinds(i) \/ RewindFails(i) \/ Closes(i)
      PROVE  Counted'
  BY <1>3, <1>8 DEF Rewinds, RewindFails, Closes
<1>9. ASSUME NEW i \in Interpreters, Compiles(i) \/ Traps(i) \/ Lent(i)
      PROVE  Counted'
  BY <1>1, <1>9 DEF Compiles, Traps, Lent
<1>10. CASE UNCHANGED vars
  BY <1>1, <1>10 DEF vars
<1> QED
  BY <1>4, <1>5, <1>6, <1>7, <1>8, <1>9, <1>10 DEF Next

LEMMA InitCounted == Init => Counted
<1> SUFFICES ASSUME Init  PROVE  Counted
  OBVIOUS
<1>1. All = {}
  BY InAll DEF Init
<1> QED
  BY <1>1, FS_EmptySet DEF Counted, Init

\* Every file and connection that was opened and not closed yet is in the table of
\* an interpreter that there is, through traps, failed rewinds and replacements.
THEOREM DescriptorsNothingLeaks == Spec => []NothingLeaks
<1>1. IInv /\ Counted => NothingLeaks
  <2> SUFFICES ASSUME IInv, Counted  PROVE  NothingLeaks
    OBVIOUS
  <2>1. \A i \in Interpreters : status[i] = "none" => handles[i] = {}
    BY DEF IInv, Sound, Unused
  <2>2. EntriesOf({i \in Interpreters : status[i] # "none"}) = All
    BY <2>1 DEF EntriesOf, All
  <2> QED
    BY <2>2 DEF NothingLeaks, Counted
<1> QED
  BY <1>1, InitCounted, StepCounted, Invariant, PTL DEF Spec

\* A descriptor is a number or none, and an image is guest memory or none.
THEOREM DescriptorsTypeCorrect == Spec => []TypeOK
<1>1. IInv /\ Counted => TypeOK
  <2> SUFFICES ASSUME IInv, Counted  PROVE  TypeOK
    OBVIOUS
  <2>1. Typed /\ AllClosed \in Memory
    BY DEF IInv, AllClosed, Memory, Closed
  <2>2. opened \in Nat
    BY FS_CardinalityType DEF Counted
  <2> QED
    BY <2>1, <2>2 DEF TypeOK, Typed
<1> QED
  BY <1>1, InitCounted, StepCounted, Invariant, PTL DEF Spec

-----------------------------------------------------------------------------
(* Files and directories.                                                  *)

FileType ==
  /\ size \in 0 .. MaxSize
  /\ file \in [open : BOOLEAN, read : BOOLEAN, write : BOOLEAN, append : BOOLEAN]
  /\ cursor \in Offsets /\ position \in Offsets
  /\ readErr \in {"none", "error"} /\ known \in BOOLEAN
  /\ result \in {"none", "count", "eof", "error"}
  /\ unreported \in {0, 1}

DirType ==
  /\ iterator \in {"none", "open", "stopped", "raised"}
  /\ dir \in [entry : BOOLEAN, err : Errors]
  /\ fetched \in 0 .. Listed /\ yielded \in 0 .. fetched

\* A fault that the guest was not told of is the one that waits for the next read.
FaultsWait == readErr = "none" => unreported = 0

\* While a listing is open no entry is held back, all that was fetched was given out
\* unless an error waits, and the end waits only behind the last entry.
Listing ==
  iterator = "open" =>
    /\ ~dir.entry
    /\ dir.err # "error" => yielded = fetched
    /\ dir.err = "eof" => fetched = Listed

FileInv == FileType /\ PositionIsKnown /\ EndIsHonest /\ FaultsWait
DirInv == DirType /\ Listing /\ ListingIsWhole
IOInv == FileInv /\ DirInv

LEMMA Bounds ==
  /\ MaxOffset \in Nat /\ MaxSize \in Nat /\ MaxLength \in Nat /\ Listed \in Nat
  /\ MaxOffset < MaxSize
  BY FileAssumption

LEMMA MaxOfTwo ==
  ASSUME NEW x \in Int, NEW y \in Int
  PROVE  Max({x, y}) = IF x >= y THEN x ELSE y
<1>1. PICK z \in {x, y} : \A v \in {x, y} : z >= v
  OBVIOUS
<1> QED BY <1>1 DEF Max

\* Reports leaves a fault unreported unless an error is told.
LEMMA ReportsFacts ==
  ASSUME NEW faults \in {0, 1}, Reports(faults)
  PROVE  /\ unreported' \in {0, 1}
         /\ faults = 0 \/ result' = "error" => unreported' = 0
         /\ result' # "error" => unreported' = faults
<1>1. unreported' = Max({0, faults - (IF result' = "error" THEN 1 ELSE 0)})
  BY DEF Reports
<1>2. CASE result' = "error"
  <2>1. unreported' = Max({0, faults - 1})
    BY <1>1, <1>2
  <2> QED BY <1>2, <2>1, MaxOfTwo
<1>3. CASE result' # "error"
  <2>1. unreported' = Max({0, faults - 0})
    BY <1>1, <1>3
  <2> QED BY <1>3, <2>1, MaxOfTwo
<1> QED BY <1>2, <1>3

-----------------------------------------------------------------------------
(* The file.                                                               *)

LEMMA FileInit == FileIOInit => FileInv
  BY Bounds DEF FileIOInit, NoFile, FileInv, FileType, Offsets, PositionIsKnown, EndIsHonest, FaultsWait

LEMMA OpenStep == ASSUME FileInv, NEW p \in Paths, Open(p) PROVE FileInv'
<1>1. PICK m \in Modes :
        /\ file' = [open |-> TRUE, read |-> m.read, write |-> m.write, append |-> m.append]
        /\ size' = IF m.truncate \/ tree' # tree THEN 0 ELSE size
        /\ cursor' = IF m.append THEN size' ELSE 0
        /\ Knows(TRUE, cursor')
  BY DEF Open
<1>2. readErr' = "none" /\ unreported' = 0 /\ result' = "none"
  BY DEF Open, Told
<1>3. m.read \in BOOLEAN /\ m.write \in BOOLEAN /\ m.append \in BOOLEAN
  BY DEF Modes
<1>4. size' \in 0 .. MaxSize
  BY <1>1, Bounds DEF FileInv, FileType
<1>5. cursor' \in Offsets /\ position' = cursor' /\ known' = TRUE
  BY <1>1, <1>4, Bounds DEF Offsets, Knows
<1> QED
  BY <1>1, <1>2, <1>3, <1>4, <1>5 DEF FileInv, FileType, PositionIsKnown, EndIsHonest, FaultsWait

LEMMA OpenFailsStep == ASSUME FileInv, NEW p \in Paths, OpenFails(p) PROVE FileInv'
<1>1. PICK m \in Modes : size' = IF m.truncate \/ tree' # tree THEN 0 ELSE size
  BY DEF OpenFails
<1>2. size' \in 0 .. MaxSize
  BY <1>1, Bounds DEF FileInv, FileType
<1>3. result' = "error" /\ UNCHANGED <<file, cursor, readErr, position, known, unreported>>
  BY DEF OpenFails, Told
<1> QED
  BY <1>2, <1>3 DEF FileInv, FileType, PositionIsKnown, EndIsHonest, FaultsWait

LEMMA ReadDeferredStep ==
  ASSUME FileInv, NEW k \in Nat, ReadDeferred(k) PROVE FileInv'
<1>1. /\ k > 0 /\ readErr = "error" /\ readErr' = "none"
      /\ result' = ReadResult(0, k, readErr) /\ Reports(unreported)
      /\ UNCHANGED <<size, file, cursor, position, known>>
  BY DEF ReadDeferred, Told, FileInv, FileType
<1>2. result' = "error"
  BY <1>1 DEF ReadResult
<1>3. unreported' = 0
  BY <1>1, <1>2, ReportsFacts DEF FileInv, FileType
<1> QED BY <1>1, <1>2, <1>3 DEF FileInv, FileType, PositionIsKnown, EndIsHonest, FaultsWait

LEMMA ReadStep ==
  ASSUME FileInv, NEW k \in Nat, Read(k) PROVE FileInv'
<1>1. PICK o \in ReadOutcomes(k) :
        /\ readErr' = Deferred(o.n, k, o.err)
        /\ cursor' = IF o.n > k THEN cursor ELSE cursor + o.n
        /\ result' = ReadResult(o.n, k, o.err)
        /\ Reports(unreported + (IF o.err = "error" THEN 1 ELSE 0))
        /\ Knows(known /\ o.n <= k, IF result' = "count" THEN position + o.n ELSE position)
  BY DEF Read, Told
<1>2. k > 0 /\ readErr = "none" /\ unreported = 0 /\ size' = size /\ file' = file
  BY DEF Read, FileInv, FaultsWait
<1>3. /\ o.n \in 0 .. k + 1 /\ o.err \in Errors
      /\ o.n <= Max({0, size - cursor}) \/ o.n > k
      /\ o.err = "eof" => o.n = Max({0, size - cursor})
  BY DEF ReadOutcomes
<1>4. /\ size \in 0 .. MaxSize /\ cursor \in 0 .. MaxSize /\ position \in 0 .. MaxSize
      /\ known \in BOOLEAN
      /\ known => cursor = position
  BY DEF FileInv, FileType, Offsets, PositionIsKnown
<1>5. Max({0, size - cursor}) = IF cursor >= size THEN 0 ELSE size - cursor
  <2>1. size - cursor \in Int
    BY <1>4
  <2>2. Max({0, size - cursor}) = IF 0 >= size - cursor THEN 0 ELSE size - cursor
    BY <2>1, MaxOfTwo
  <2> QED BY <1>4, <2>2
<1>6. cursor' \in Offsets
  BY <1>1, <1>3, <1>4, <1>5, Bounds DEF Offsets
<1>7. /\ result' \in {"none", "count", "eof", "error"}
      /\ result' = "count" <=> o.n \in 1 .. k
      /\ result' = "eof" => o.n = 0 /\ o.err = "eof"
      /\ readErr' \in {"none", "error"}
  BY <1>1, <1>2, <1>3 DEF ReadResult, Deferred, Errors
<1>8. known' \in BOOLEAN /\ position' \in Offsets /\ PositionIsKnown'
  <2>1. known' = (known /\ o.n <= k)
    BY <1>1 DEF Knows
  <2>2. CASE known /\ o.n <= k
    <3>1. position' = IF result' = "count" THEN position + o.n ELSE position
      BY <1>1, <2>2 DEF Knows
    <3>2. cursor' = cursor + o.n /\ o.n \in Nat
      BY <1>1, <1>3, <2>2
    <3>3. position' = cursor'
      BY <1>3, <1>4, <1>7, <2>2, <3>1, <3>2
    <3> QED BY <1>6, <2>1, <2>2, <3>3 DEF PositionIsKnown
  <2>3. CASE ~(known /\ o.n <= k)
    <3>1. position' = 0
      BY <1>1, <2>3 DEF Knows
    <3>2. known' = FALSE
      BY <2>1, <2>3
    <3>3. position' \in Offsets
      BY <3>1, Bounds DEF Offsets
    <3> QED BY <3>2, <3>3 DEF PositionIsKnown
  <2> QED BY <2>2, <2>3
<1>9. unreported' \in {0, 1} /\ FaultsWait' /\ (result' = "eof" => unreported' = 0)
  <2> DEFINE faults == IF o.err = "error" THEN 1 ELSE 0
  <2>1. faults \in {0, 1} /\ Reports(faults)
    BY <1>1, <1>2
  <2>2. /\ unreported' \in {0, 1}
        /\ faults = 0 \/ result' = "error" => unreported' = 0
    BY <2>1, ReportsFacts
  <2>3. CASE o.err = "error"
    <3>1. o.n \in 1 .. k => readErr' = "error"
      BY <1>1, <2>3 DEF Deferred
    <3>2. o.n \notin 1 .. k => result' = "error"
      BY <1>1, <1>2, <1>3, <2>3 DEF ReadResult
    <3> QED BY <1>7, <2>2, <2>3, <3>1, <3>2 DEF FaultsWait
  <2>4. CASE o.err # "error"
    BY <2>2, <2>4 DEF FaultsWait
  <2> QED BY <2>3, <2>4
<1>10. result' = "eof" => cursor' >= size'
  BY <1>1, <1>2, <1>3, <1>4, <1>5, <1>7
<1> QED
  BY <1>2, <1>6, <1>7, <1>8, <1>9, <1>10 DEF FileInv, FileType, EndIsHonest

LEMMA WriteStep ==
  ASSUME FileInv, NEW k \in Nat, Write(k) PROVE FileInv'
<1> DEFINE at == IF file.append THEN size ELSE cursor
<1>1. PICK n \in 0 .. k + 1 :
        /\ at + n <= MaxSize
        /\ size' = IF n = 0 THEN size ELSE Max({size, at + n})
        /\ cursor' = IF n = 0 THEN cursor ELSE at + n
        /\ Knows(known /\ n <= k /\ (file.append => n = 0),
                 IF n \in 1 .. k THEN position + n ELSE position)
        /\ IF n \in 1 .. k
           THEN /\ readErr' = "none"
                /\ unreported' = 0
                /\ Told("count")
           ELSE /\ UNCHANGED <<readErr, unreported>>
                /\ result' \in (IF k = 0 /\ n = 0 THEN {"none", "error"} ELSE {"error"})
  BY DEF Write
<1>2. /\ size \in 0 .. MaxSize /\ cursor \in 0 .. MaxSize /\ position \in 0 .. MaxSize
      /\ known \in BOOLEAN /\ file' = file
      /\ known => cursor = position
  BY DEF Write, FileInv, FileType, Offsets, PositionIsKnown
<1>3. /\ at \in Nat /\ at + n \in 0 .. MaxSize
      /\ ~file.append => at = cursor
  BY <1>1, <1>2, Bounds
<1> HIDE DEF at
<1>4. size' \in 0 .. MaxSize /\ cursor' \in Offsets
  <2>1. Max({size, at + n}) = IF size >= at + n THEN size ELSE at + n
    BY <1>2, <1>3, MaxOfTwo
  <2> QED BY <1>1, <1>2, <1>3, <2>1, Bounds DEF Offsets
<1>5. known' \in BOOLEAN /\ position' \in Offsets /\ PositionIsKnown'
  <2>1. known' = (known /\ n <= k /\ (file.append => n = 0))
    BY <1>1 DEF Knows
  <2>2. CASE known /\ n <= k /\ (file.append => n = 0)
    <3>1. position' = IF n \in 1 .. k THEN position + n ELSE position
      BY <1>1, <2>2 DEF Knows
    <3>2. position' = cursor'
      BY <1>1, <1>2, <1>3, <2>2, <3>1
    <3> QED BY <1>4, <2>1, <2>2, <3>2 DEF PositionIsKnown
  <2>3. CASE ~(known /\ n <= k /\ (file.append => n = 0))
    <3>1. position' = 0
      BY <1>1, <2>3 DEF Knows
    <3>2. known' = FALSE
      BY <2>1, <2>3
    <3>3. position' \in Offsets
      BY <3>1, Bounds DEF Offsets
    <3> QED BY <3>2, <3>3 DEF PositionIsKnown
  <2> QED BY <2>2, <2>3
<1>6. /\ result' \in {"none", "count", "error"} /\ readErr' \in {"none", "error"}
      /\ unreported' \in {0, 1} /\ FaultsWait'
  BY <1>1 DEF Told, FileInv, FileType, FaultsWait
<1> QED BY <1>2, <1>4, <1>5, <1>6 DEF FileInv, FileType, EndIsHonest

LEMMA RejectedStep == ASSUME FileInv, Rejected PROVE FileInv'
  BY DEF Rejected, Told, FileInv, FileType, PositionIsKnown, EndIsHonest, FaultsWait

LEMMA SeekStep ==
  ASSUME FileInv, NEW base, NEW offset, Seek(base, offset) PROVE FileInv'
<1>1. CASE Rejected
  BY <1>1, RejectedStep
<1>2. CASE ~Rejected
  <2> DEFINE to == base + offset
  <2>1. /\ to \in 0 .. MaxOffset /\ UNCHANGED <<size, file>>
        /\ \/ /\ cursor' = to /\ Knows(TRUE, to)
              /\ readErr' = "none" /\ unreported' = 0 /\ Told("count")
           \/ /\ cursor' \in 0 .. MaxOffset /\ Knows(FALSE, 0)
              /\ Told("error") /\ UNCHANGED <<readErr, unreported>>
    BY <1>2 DEF Seek
  <2> HIDE DEF to
  <2>2. 0 .. MaxOffset \subseteq Offsets /\ 0 \in Offsets
    BY Bounds DEF Offsets
  <2>3. cursor' \in Offsets /\ to \in Offsets
    BY <2>1, <2>2
  <2> QED
    BY <2>1, <2>2, <2>3 DEF Knows, Told, FileInv, FileType, PositionIsKnown, EndIsHonest, FaultsWait
<1> QED BY <1>1, <1>2

LEMMA FlushStep == ASSUME FileInv, Flush PROVE FileInv'
  BY DEF Flush, FileInv, FileType, PositionIsKnown, EndIsHonest, FaultsWait

LEMMA CloseFileStep == ASSUME FileInv, CloseFile PROVE FileInv'
  BY Bounds DEF CloseFile, NoFile, Knows, Told, Offsets, FileInv, FileType, PositionIsKnown,
                EndIsHonest, FaultsWait

LEMMA OthersWriteStep == ASSUME FileInv, OthersWrite PROVE FileInv'
  BY DEF OthersWrite, Told, FileInv, FileType, PositionIsKnown, EndIsHonest, FaultsWait

LEMMA FileNextStep == ASSUME FileInv, FileNext PROVE FileInv'
<1>1. 0 .. MaxLength \subseteq Nat
  BY Bounds
<1> QED
  BY <1>1, FlushStep, CloseFileStep, OthersWriteStep, ReadStep, ReadDeferredStep, WriteStep, SeekStep
     DEF FileNext, SeekFrom

LEMMA FileUnchanged == ASSUME FileInv, UNCHANGED fileVars PROVE FileInv'
  BY DEF fileVars, FileInv, FileType, PositionIsKnown, EndIsHonest, FaultsWait

-----------------------------------------------------------------------------
(* The directory.                                                          *)

LEMMA DirInit == FileIOInit => DirInv
  BY Bounds DEF FileIOInit, NoDir, Errors, DirInv, DirType, Listing, ListingIsWhole

LEMMA OpenDirStep == ASSUME DirInv, NEW p \in Paths, OpenDir(p) PROVE DirInv'
  BY Bounds DEF OpenDir, NoDir, Errors, DirInv, DirType, Listing, ListingIsWhole

\* The iteration ends, with an end only if everything was given out.
LEMMA EndsStep ==
  ASSUME DirInv, NEW err, Ends(err), err = "eof" => yielded = Listed,
         dir' \in [entry : BOOLEAN, err : Errors], fetched' \in 0 .. Listed, fetched' >= fetched
  PROVE  DirInv'
<1>1. iterator' \in {"stopped", "raised"} /\ yielded' = yielded
  BY DEF Ends
<1>2. iterator' = "stopped" => yielded = Listed
  BY DEF Ends
<1>3. yielded' \in 0 .. fetched'
  BY <1>1, Bounds DEF DirInv, DirType
<1> QED BY <1>1, <1>2, <1>3 DEF DirInv, DirType, Listing, ListingIsWhole

LEMMA IterNextStep == ASSUME DirInv, IterNext PROVE DirInv'
<1>1. /\ iterator = "open" /\ dir \in [entry : BOOLEAN, err : Errors] /\ ~dir.entry
      /\ dir.err # "error" => yielded = fetched
      /\ dir.err = "eof" => fetched = Listed
      /\ fetched \in 0 .. Listed /\ yielded \in 0 .. fetched
  BY DEF IterNext, DirInv, DirType, Listing
<1>2. CASE dir.err # "none" /\ Ends(dir.err) /\ UNCHANGED <<dir, fetched>>
  <2>1. dir.err = "eof" => yielded = Listed
    BY <1>1
  <2> QED BY <1>1, <1>2, <2>1, Bounds, EndsStep
<1>3. ASSUME dir.err = "none", NEW err \in Errors,
             fetched' \in fetched + 1 .. (IF err = "error" THEN Listed ELSE fetched + 1),
             fetched' <= Listed, err = "eof" => fetched' = Listed, Names(err)
      PROVE  DirInv'
  <2>1. /\ fetched' \in 0 .. Listed /\ fetched' >= fetched + 1
        /\ err # "error" => fetched' = fetched + 1
    BY <1>1, <1>3, Bounds
  <2>2. CASE Ends("error") /\ dir' = [entry |-> TRUE, err |-> err]
    BY <1>1, <2>1, <2>2, EndsStep
  <2>3. CASE dir' = NextEntry(err) /\ yielded' = yielded + 1 /\ UNCHANGED iterator
    <3>1. yielded' \in 0 .. fetched'
      BY <1>1, <2>1, <2>3
    <3>2. err # "error" => yielded' = fetched'
      BY <1>1, <1>3, <2>1, <2>3
    <3> QED
      BY <1>1, <1>3, <2>1, <2>3, <3>1, <3>2
         DEF NextEntry, DirInv, DirType, Listing, ListingIsWhole
  <2>4. CASE EntryLost(err)
    <3>1. dir' \in [entry : BOOLEAN, err : Errors] /\ iterator' = "raised" /\ yielded' = yielded
      BY <1>3, <2>4 DEF EntryLost, NextEntry
    <3>2. yielded' \in 0 .. fetched'
      BY <1>1, <2>1, <3>1
    <3> QED
      BY <2>1, <3>1, <3>2 DEF DirInv, DirType, Listing, ListingIsWhole
  <2> QED BY <1>3, <2>2, <2>3, <2>4 DEF Names
<1>4. ASSUME dir.err = "none", NEW err \in Errors, err = "eof" => fetched = Listed,
             dir' = [entry |-> FALSE, err |-> err],
             Ends(IF err = "eof" THEN "eof" ELSE "error"), UNCHANGED fetched
      PROVE  DirInv'
  BY <1>1, <1>4, Bounds, EndsStep
<1> QED BY <1>1, <1>2, <1>3, <1>4 DEF IterNext

LEMMA DropDirStep == ASSUME DirInv, DropDir PROVE DirInv'
  BY DEF DropDir, DirInv, DirType, Listing, ListingIsWhole

LEMMA DirUnchanged == ASSUME DirInv, UNCHANGED dirVars PROVE DirInv'
  BY DEF dirVars, DirInv, DirType, Listing, ListingIsWhole

-----------------------------------------------------------------------------
LEMMA IOInvNext == IOInv /\ [FileIONext]_ioVars => IOInv'
<1> SUFFICES ASSUME IOInv, [FileIONext]_ioVars PROVE IOInv'
  OBVIOUS
<1>1. CASE FileNext /\ UNCHANGED <<tree, dirVars>>
  BY <1>1, FileNextStep, DirUnchanged DEF IOInv
<1>2. CASE DirNext /\ UNCHANGED <<tree, fileVars>>
  BY <1>2, IterNextStep, DropDirStep, FileUnchanged DEF IOInv, DirNext
<1>3. CASE UNCHANGED <<fileVars, dirVars>>
  BY <1>3, FileUnchanged, DirUnchanged DEF IOInv
<1>4. CASE (\E p \in Paths : Open(p) \/ OpenFails(p)) /\ UNCHANGED dirVars
  BY <1>4, OpenStep, OpenFailsStep, DirUnchanged DEF IOInv
<1>5. CASE (\E p \in Paths : OpenDir(p)) /\ UNCHANGED <<tree, fileVars>>
  BY <1>5, OpenDirStep, FileUnchanged DEF IOInv
<1> QED BY <1>1, <1>2, <1>3, <1>4, <1>5 DEF FileIONext, ioVars

LEMMA IOInvAlways == FileIOSpec => []IOInv
<1>1. FileIOInit => IOInv
  BY FileInit, DirInit DEF IOInv
<1>2. IOInv /\ [FileIONext]_ioVars => IOInv'
  BY IOInvNext
<1> QED BY <1>1, <1>2, PTL DEF FileIOSpec

\* The results of read, write, seek and close (file.go) tell the guest where it is.
THEOREM FileIOPositionIsKnown == FileIOSpec => []PositionIsKnown
<1>1. IOInv => PositionIsKnown
  BY DEF IOInv, FileInv
<1> QED BY <1>1, IOInvAlways, PTL

\* readResult (file.go) tells the end of a file only at its end, and after every fault
\* of a read that came before.
THEOREM FileIOEndIsHonest == FileIOSpec => []EndIsHonest
<1>1. IOInv => EndIsHonest
  BY DEF IOInv, FileInv
<1> QED BY <1>1, IOInvAlways, PTL

\* vfs_ilistdir_it_iternext stops without an error only after it has given out every
\* entry: an error that came with one waits in openDir (dir.go).
THEOREM FileIOListingIsWhole == FileIOSpec => []ListingIsWhole
<1>1. IOInv => ListingIsWhole
  BY DEF IOInv, DirInv
<1> QED BY <1>1, IOInvAlways, PTL

-----------------------------------------------------------------------------
(* The paths.                                                              *)

\* A set of numbers has a least one: that of those below an element, among all such
\* sets, which are finite.
LEMMA LeastNumber ==
  ASSUME NEW S \in SUBSET Nat, S # {}
  PROVE  \E x \in S : \A y \in S : x <= y
<1> DEFINE Under(x) == {y \in S : y < x}
           T == {Under(x) : x \in S}
<1>1. T \subseteq FiniteSubsetsOf(Nat) /\ T # {}
  <2>1. ASSUME NEW x \in S PROVE IsFiniteSet(Under(x)) /\ Under(x) \in SUBSET Nat
    <3>1. \A y \in Under(x) : y <= x
      OBVIOUS
    <3>2. Under(x) \in SUBSET Nat /\ x \in Nat
      OBVIOUS
    <3> HIDE DEF Under
    <3> QED BY <3>1, <3>2, FS_BoundedSetOfNaturals
  <2> HIDE DEF Under
  <2> QED BY <2>1 DEF FiniteSubsetsOf
<1>2. PICK t \in T : \A u \in T : <<u, t>> \notin StrictSubsetOrdering(Nat)
  <2>1. IsWellFoundedOn(StrictSubsetOrdering(Nat), FiniteSubsetsOf(Nat))
    BY FS_StrictSubsetOrderingWellFounded
  <2> HIDE DEF T
  <2> QED BY <1>1, <2>1, WFMin
<1>3. PICK x \in S : t = Under(x)
  BY <1>2
<1>4. ASSUME NEW y \in S, y < x PROVE FALSE
  <2>1. x \in Nat /\ y \in Nat /\ \A z \in S : z \in Nat
    OBVIOUS
  <2>2. \A z \in Under(y) : z \in S /\ z \in Nat /\ z < y
    BY <2>1
  <2>3. \A z \in Under(y) : z \in S /\ z < x
    BY <1>4, <2>1, <2>2
  <2>4. y \in Under(x) /\ y \notin Under(y)
    BY <1>4, <2>1
  <2>5. Under(y) \subseteq Under(x)
    BY <2>3
  <2>6. Under(y) \in T /\ Under(x) \in SUBSET Nat /\ Under(y) \in SUBSET Nat
    OBVIOUS
  <2>7. <<Under(y), Under(x)>> \notin StrictSubsetOrdering(Nat)
    BY <1>2, <1>3, <2>6
  <2> HIDE DEF T, Under
  <2> QED BY <2>4, <2>5, <2>6, <2>7 DEF StrictSubsetOrdering
<1>5. \A y \in S : x <= y
  BY <1>4
<1> QED BY <1>5

Kinds == {"none", "file", "dir"}

TreeType == tree \in [Entries -> Kinds]

\* What is there is in a directory.
Rooted == \A e \in Entries : tree[e] # "none" => Holds(Front(e), "dir")

TreeInv == TreeType /\ Rooted

LEMMA EntryFacts ==
  ASSUME NEW e \in Entries
  PROVE  /\ e \in Seq(STRING) /\ Len(e) \in Nat /\ Len(e) > 0 /\ e # <<>>
         /\ Front(e) \in Seq(STRING) /\ Len(Front(e)) = Len(e) - 1
         /\ \A i \in 1 .. Len(e) - 1 : Front(e)[i] = e[i]
<1>1. e \in Seq(STRING) /\ Len(e) > 0
  BY NamesAssumption
<1>2. e # <<>>
  BY <1>1
<1>3. PICK n \in Nat : n = Len(e) /\ n > 0
  BY <1>1
<1>4. /\ SubSeq(e, 1, n - 1) \in Seq(STRING) /\ Len(SubSeq(e, 1, n - 1)) = n - 1
      /\ \A i \in 1 .. n - 1 : SubSeq(e, 1, n - 1)[i] = e[i]
  BY <1>1, <1>3
<1> QED
  BY <1>1, <1>2, <1>3, <1>4 DEF Front

\* Sequences that agree at every place are the same.
LEMMA SameSequence ==
  ASSUME NEW s \in Seq(STRING), NEW t \in Seq(STRING), Len(s) = Len(t),
         \A i \in 1 .. Len(s) : s[i] = t[i]
  PROVE  s = t
OBVIOUS

LEMMA PrefixFacts ==
  ASSUME NEW s \in Seq(STRING), NEW t \in Seq(STRING)
  PROVE  IsPrefix(s, t) <=> Len(s) <= Len(t) /\ \A i \in 1 .. Len(s) : s[i] = t[i]
<1>1. ASSUME Len(s) <= Len(t)
      PROVE  SubSeq(s, 1, Len(s)) = SubSeq(t, 1, Len(s)) <=> \A i \in 1 .. Len(s) : s[i] = t[i]
  <2>1. SubSeq(s, 1, Len(s)) = s /\ SubSeq(t, 1, Len(s)) \in Seq(STRING)
        /\ Len(SubSeq(t, 1, Len(s))) = Len(s)
        /\ \A i \in 1 .. Len(s) : SubSeq(t, 1, Len(s))[i] = t[i]
    BY <1>1
  <2> QED
    BY <2>1, SameSequence
<1> QED
  BY <1>1 DEF IsPrefix

\* What After leaves of a path, and what it leaves out.
LEMMA AfterFacts ==
  ASSUME NEW part, NEW p \in Seq(STRING), Len(p) > 0
  PROVE  \E k \in 0 .. Len(p) - 1 :
           /\ After(part, p) = SubSeq(p, k + 1, Len(p))
           /\ \A i \in 1 .. k : p[i] = part
<1> DEFINE others == {i \in DOMAIN p : i = Len(p) \/ p[i] # part}
           first == CHOOSE i \in others : \A j \in others : i <= j
<1>1. DOMAIN p = 1 .. Len(p) /\ Len(p) \in Nat
  OBVIOUS
<1>2. others \in SUBSET Nat /\ others # {}
  <2>1. Len(p) \in others
    BY <1>1
  <2> QED
    BY <1>1, <2>1
<1>3. first \in others /\ \A j \in others : first <= j
  <2>1. \E i \in others : \A j \in others : i <= j
    BY <1>2, LeastNumber
  <2> HIDE DEF others
  <2> QED
    BY <2>1
<1>4. \A i \in 1 .. first - 1 : p[i] = part
  BY <1>1, <1>3
<1>5. After(part, p) = SubSeq(p, first, Len(p))
  BY DEF After
<1>6. first - 1 \in 0 .. Len(p) - 1 /\ (first - 1) + 1 = first
  BY <1>1, <1>3
<1> HIDE DEF first
<1> QED
  BY <1>4, <1>5, <1>6

\* The end of a sequence, and its beginning.
LEMMA SuffixFacts ==
  ASSUME NEW p \in Seq(STRING), NEW k \in 0 .. Len(p) - 1
  PROVE  \E u \in Seq(STRING) :
           /\ u = SubSeq(p, k + 1, Len(p))
           /\ Len(u) = Len(p) - k /\ Len(u) > 0
           /\ \A i \in 1 .. Len(u) : u[i] = p[k + i]
<1>1. /\ SubSeq(p, k + 1, Len(p)) \in Seq(STRING)
      /\ Len(SubSeq(p, k + 1, Len(p))) = Len(p) - k
      /\ \A i \in 1 .. Len(p) - k : SubSeq(p, k + 1, Len(p))[i] = p[k + i]
  OBVIOUS
<1>2. Len(p) - k > 0
  OBVIOUS
<1> QED
  BY <1>1, <1>2

LEMMA BeginningFacts ==
  ASSUME NEW p \in Seq(STRING), NEW j \in 0 .. Len(p)
  PROVE  \E u \in Seq(STRING) :
           u = SubSeq(p, 1, j) /\ Len(u) = j /\ \A i \in 1 .. j : u[i] = p[i]
<1>1. /\ SubSeq(p, 1, j) \in Seq(STRING) /\ Len(SubSeq(p, 1, j)) = j
      /\ \A i \in 1 .. j : SubSeq(p, 1, j)[i] = p[i]
  OBVIOUS
<1> QED
  BY <1>1

LEMMA LenType == ASSUME NEW s \in Seq(STRING)  PROVE Len(s) \in Nat /\ DOMAIN s = 1 .. Len(s)
OBVIOUS

\* The path without what is skipped in front, as Name has it.
LEMMA NameFacts ==
  ASSUME NEW p \in Paths, Name(p).ok
  PROVE  \E k \in 0 .. Len(p) - 1, q \in Seq(STRING) :
           /\ \A i \in 1 .. k : p[i] \in {"", "."}
           /\ Len(q) = Len(p) - k /\ Len(q) > 0
           /\ \A i \in 1 .. Len(q) : q[i] = p[k + i]
           /\ Name(p).name = IF q = <<"">> THEN Root ELSE q
           /\ q # <<"">> => ValidPath(q)
<1>1. p \in Seq(STRING) /\ Len(p) \in Nat /\ Len(p) > 0
  BY NamesAssumption, LenType
<1>2. PICK k \in 0 .. Len(p) - 1 :
        Unrooted(p) = SubSeq(p, k + 1, Len(p)) /\ \A i \in 1 .. k : p[i] = ""
  BY <1>1, AfterFacts DEF Unrooted
<1>3. PICK u \in Seq(STRING) :
        /\ u = Unrooted(p)
        /\ Len(u) = Len(p) - k /\ Len(u) > 0
        /\ \A i \in 1 .. Len(u) : u[i] = p[k + i]
  BY <1>1, <1>2, SuffixFacts
<1>4. PICK m \in 0 .. Len(u) - 1 :
        Undotted(u) = SubSeq(u, m + 1, Len(u)) /\ \A i \in 1 .. m : u[i] = "."
  <2>1. u \in Seq(STRING) /\ Len(u) > 0
    BY <1>3
  <2> QED
    BY <2>1, AfterFacts DEF Undotted
<1>5. PICK q \in Seq(STRING) :
        /\ q = Undotted(u)
        /\ Len(q) = Len(u) - m /\ Len(q) > 0
        /\ \A i \in 1 .. Len(q) : q[i] = u[m + i]
  BY <1>4, SuffixFacts
<1>6. k + m \in 0 .. Len(p) - 1 /\ Len(q) = Len(p) - (k + m)
  BY <1>1, <1>3, <1>5
<1>7. \A i \in 1 .. k + m : p[i] \in {"", "."}
  <2> SUFFICES ASSUME NEW i \in 1 .. k + m  PROVE p[i] \in {"", "."}
    OBVIOUS
  <2>1. CASE i <= k
    <3>1. i \in 1 .. k
      BY <2>1
    <3>2. p[i] = ""
      BY <1>2, <3>1
    <3> QED
      BY <3>2
  <2>2. CASE i > k
    <3>1. i - k \in 1 .. m /\ i - k \in 1 .. Len(u) /\ k + (i - k) = i
      BY <1>3, <2>2
    <3>2. u[i - k] = "." /\ u[i - k] = p[i]
      BY <1>3, <1>4, <3>1
    <3> QED
      BY <3>2
  <2>3. i <= k \/ i > k
    BY <1>1
  <2> QED
    BY <2>1, <2>2, <2>3
<1>8. \A i \in 1 .. Len(q) : q[i] = p[(k + m) + i]
  <2> SUFFICES ASSUME NEW i \in 1 .. Len(q)  PROVE q[i] = p[(k + m) + i]
    OBVIOUS
  <2>1. m + i \in 1 .. Len(u) /\ k + (m + i) = (k + m) + i /\ q[i] = u[m + i]
    BY <1>3, <1>5
  <2> QED
    BY <1>3, <2>1
<1>9. Name(p).name = (IF q = <<"">> THEN Root ELSE q) /\ (q # <<"">> => ValidPath(q))
  BY <1>3, <1>5 DEF Name, Refused, Found
<1> QED
  BY <1>5, <1>6, <1>7, <1>8, <1>9

\* The directories above a name are there.
LEMMA PrefixesHold ==
  ASSUME TreeInv, NEW q \in Seq(STRING), Len(q) > 0, Holds(Front(q), "dir"),
         \A i \in 1 .. Len(q) : q[i] # "."
  PROVE  \A j \in 0 .. Len(q) - 1 : Holds(SubSeq(q, 1, j), "dir")
<1>0. PICK n \in Nat : n = Len(q) - 1
  BY LenType
<1> DEFINE Lost == {j \in 0 .. n : ~Holds(SubSeq(q, 1, n - j), "dir")}
<1>2. ASSUME Lost # {}  PROVE FALSE
  <2>1. PICK m \in Lost : \A j \in Lost : m <= j
    <3>1. Lost \in SUBSET Nat
      OBVIOUS
    <3> QED
      BY <1>2, <3>1, LeastNumber
  <2>2. m \in 0 .. n /\ ~Holds(SubSeq(q, 1, n - m), "dir")
    BY <2>1
  <2>3. m # 0
    <3>1. Front(q) = SubSeq(q, 1, n)
      BY <1>0 DEF Front
    <3>2. m = 0 => n - m = n
      BY <1>0
    <3> QED
      BY <2>2, <3>1, <3>2
  <2>4. m - 1 \in 0 .. n /\ m - 1 \notin Lost
    <3>1. m - 1 \in 0 .. n /\ ~(m <= m - 1)
      BY <1>0, <2>2, <2>3
    <3> QED
      BY <2>1, <3>1
  <2>5. PICK l \in 0 .. Len(q) : l = n - (m - 1) /\ l > 0 /\ l - 1 = n - m
    BY <1>0, <2>2, <2>3
  <2>6. PICK r \in Seq(STRING) :
          r = SubSeq(q, 1, l) /\ Len(r) = l /\ \A i \in 1 .. l : r[i] = q[i]
    BY BeginningFacts
  <2>7. Holds(r, "dir")
    BY <2>4, <2>5, <2>6
  <2>8. r # <<>> /\ r # Root
    <3>1. r[1] = q[1] /\ q[1] # "." /\ Len(r) # 0
      BY <1>0, <2>5, <2>6
    <3> QED
      BY <3>1 DEF Root
  <2>9. r \in Entries /\ tree[r] = "dir"
    BY <2>7, <2>8 DEF Holds, Is
  <2>10. Holds(Front(r), "dir")
    BY <2>9 DEF TreeInv, Rooted
  <2>11. Front(r) = SubSeq(q, 1, n - m)
    <3>1. l - 1 \in 0 .. Len(r) /\ l - 1 \in 0 .. Len(q) /\ n - m = l - 1
      BY <1>0, <2>5, <2>6
    <3>2. PICK s \in Seq(STRING) :
            s = SubSeq(r, 1, l - 1) /\ Len(s) = l - 1 /\ \A i \in 1 .. l - 1 : s[i] = r[i]
      BY <3>1, BeginningFacts
    <3>3. PICK t \in Seq(STRING) :
            t = SubSeq(q, 1, l - 1) /\ Len(t) = l - 1 /\ \A i \in 1 .. l - 1 : t[i] = q[i]
      BY <3>1, BeginningFacts
    <3>4. \A i \in 1 .. Len(s) : s[i] = t[i]
      BY <2>5, <2>6, <3>2, <3>3
    <3>5. s = t
      BY <3>2, <3>3, <3>4, SameSequence
    <3> QED
      BY <2>6, <3>1, <3>2, <3>3, <3>5 DEF Front
  <2> QED
    BY <2>2, <2>10, <2>11
<1> SUFFICES ASSUME NEW j \in 0 .. n  PROVE Holds(SubSeq(q, 1, j), "dir")
  BY <1>0
<1>3. n - j \in 0 .. n /\ n - (n - j) = j
  BY <1>0
<1>4. n - j \notin Lost
  BY <1>2
<1> QED
  BY <1>3, <1>4

\* There is one walk along a path.
LEMMA WalkIsNamed ==
  ASSUME NEW p \in Seq(STRING), NEW f,
         f = [i \in 0 .. Len(p) |-> IF i = 0 THEN Found(<<>>) ELSE Step(f[i - 1], p[i])]
  PROVE  Named(p) = f[Len(p)]
<1> DEFINE Walks(g) == g = [i \in 0 .. Len(p) |-> IF i = 0 THEN Found(<<>>) ELSE Step(g[i - 1], p[i])]
           w == CHOOSE g : Walks(g)
           Differ == {i \in 0 .. Len(p) : w[i] # f[i]}
<1>1. Named(p) = w[Len(p)]
  BY DEF Named
<1>2. Walks(w)
  <2>1. Walks(f)
    OBVIOUS
  <2> HIDE DEF Walks
  <2> QED
    BY <2>1
<1>3. PICK n \in Nat : n = Len(p)
  BY LenType
<1>4. ASSUME Differ # {}  PROVE FALSE
  <2>1. PICK m \in Differ : \A j \in Differ : m <= j
    <3>1. Differ \in SUBSET Nat
      BY <1>3
    <3> QED
      BY <1>4, <3>1, LeastNumber
  <2>2. m \in 0 .. n /\ w[m] # f[m]
    BY <1>3, <2>1
  <2>3. w[0] = Found(<<>>) /\ f[0] = Found(<<>>)
    BY <1>2, <1>3
  <2>4. m # 0
    BY <2>2, <2>3
  <2>5. m - 1 \in 0 .. n /\ ~(m <= m - 1)
    BY <1>3, <2>2, <2>4
  <2>6. w[m - 1] = f[m - 1]
    BY <1>3, <2>1, <2>5
  <2>7. w[m] = Step(w[m - 1], p[m]) /\ f[m] = Step(f[m - 1], p[m])
    BY <1>2, <1>3, <2>2, <2>4
  <2> QED
    BY <2>2, <2>6, <2>7
<1>5. Len(p) \in 0 .. Len(p)
  BY <1>3
<1> QED
  BY <1>1, <1>4, <1>5

LEMMA RootHolds == Holds(<<>>, "dir")
BY DEF Holds

LEMMA AppendFacts ==
  ASSUME NEW s \in Seq(STRING), NEW x \in STRING
  PROVE  /\ Append(s, x) \in Seq(STRING) /\ Len(Append(s, x)) = Len(s) + 1
         /\ \A i \in 1 .. Len(s) : Append(s, x)[i] = s[i]
         /\ Append(s, x)[Len(s) + 1] = x
<1>1. Append(s, x) \in Seq(STRING)
  BY AppendProperties
<1>2. Len(Append(s, x)) = Len(s) + 1
  OBVIOUS
<1>3. \A i \in 1 .. Len(s) : Append(s, x)[i] = s[i]
  OBVIOUS
<1>4. Append(s, x)[Len(s) + 1] = x
  <2>1. PICK S : S = STRING
    OBVIOUS
  <2>2. s \in Seq(S) /\ x \in S
    BY <2>1
  <2> QED
    BY <2>2, AppendProperties
<1> QED
  BY <1>1, <1>2, <1>3, <1>4

LEMMA BeginningGrows ==
  ASSUME NEW q \in Seq(STRING), NEW j \in 0 .. Len(q) - 1
  PROVE  Append(SubSeq(q, 1, j), q[j + 1]) = SubSeq(q, 1, j + 1)
<1>1. PICK n \in Nat : n = Len(q)
  BY LenType
<1>2. PICK s \in Seq(STRING) :
        s = SubSeq(q, 1, j) /\ Len(s) = j /\ \A i \in 1 .. j : s[i] = q[i]
  <2>1. j \in 0 .. Len(q)
    BY <1>1
  <2> QED
    BY <2>1, BeginningFacts
<1>3. PICK t \in Seq(STRING) :
        t = SubSeq(q, 1, j + 1) /\ Len(t) = j + 1 /\ \A i \in 1 .. j + 1 : t[i] = q[i]
  <2>1. j + 1 \in 0 .. Len(q)
    BY <1>1
  <2> QED
    BY <2>1, BeginningFacts
<1>4. q[j + 1] \in STRING
  BY <1>1
<1>5. PICK a \in Seq(STRING) :
        /\ a = Append(s, q[j + 1]) /\ Len(a) = Len(s) + 1
        /\ \A i \in 1 .. Len(s) : a[i] = s[i]
        /\ a[Len(s) + 1] = q[j + 1]
  BY <1>4, AppendFacts
<1>6. \A i \in 1 .. Len(a) : a[i] = t[i]
  <2>1. Len(a) = j + 1 /\ Len(s) = j /\ j \in Nat
    BY <1>2, <1>5
  <2>2. \A i \in 1 .. j : a[i] = t[i]
    BY <1>2, <1>3, <1>5, <2>1
  <2>3. a[j + 1] = t[j + 1]
    BY <1>3, <1>5, <2>1
  <2> QED
    BY <2>1, <2>2, <2>3
<1>7. a = t
  <2>1. a \in Seq(STRING) /\ t \in Seq(STRING) /\ Len(a) = Len(t)
    BY <1>2, <1>3, <1>5
  <2> QED
    BY <1>6, <2>1, SameSequence
<1> QED
  BY <1>2, <1>3, <1>5, <1>7

\* q is p without its first k parts, which are skipped.
Skips(p, k, q) ==
  /\ k \in 0 .. Len(p) - 1
  /\ q \in Seq(STRING) /\ Len(q) = Len(p) - k
  /\ \A i \in 1 .. k : p[i] \in {"", "."}
  /\ \A i \in 1 .. Len(q) : q[i] = p[k + i]

IsName(q) == \A i \in 1 .. Len(q) : q[i] \notin {"", ".", ".."}

\* How much of the name is behind a step of the walk.
Past(i, k) == IF i <= k THEN 0 ELSE i - k

LEMMA SkipsFacts ==
  ASSUME NEW p \in Seq(STRING), NEW k, NEW q, Skips(p, k, q)
  PROVE  /\ k \in Nat /\ Len(p) \in Nat /\ Len(q) \in Nat /\ q \in Seq(STRING)
         /\ Len(q) > 0 /\ Len(p) = k + Len(q)
<1>1. k \in 0 .. Len(p) - 1 /\ q \in Seq(STRING) /\ Len(q) = Len(p) - k
  BY DEF Skips
<1>2. Len(p) \in Nat
  BY LenType
<1> QED
  BY <1>1, <1>2

LEMMA PastFacts ==
  ASSUME NEW k \in Nat, NEW l \in Nat, l > 0, NEW i \in 1 .. k + l
  PROVE  /\ i - 1 \in 0 .. k + l /\ Past(i - 1, k) \in 0 .. l - 1
         /\ i <= k => i \in 1 .. k /\ Past(i, k) = 0 /\ Past(i - 1, k) = 0
         /\ ~(i <= k) => /\ Past(i, k) = Past(i - 1, k) + 1
                         /\ Past(i, k) \in 1 .. l /\ k + Past(i, k) = i
BY DEF Past

\* One part further along the name, or along what is skipped.
LEMMA WalkStep ==
  ASSUME TreeInv, NEW p \in Seq(STRING), NEW k, NEW q, Skips(p, k, q), IsName(q),
         Holds(Front(q), "dir"), NEW i \in 1 .. Len(p)
  PROVE  Step(Found(SubSeq(q, 1, Past(i - 1, k))), p[i]) = Found(SubSeq(q, 1, Past(i, k)))
<1>1. PICK l \in Nat : l = Len(q) /\ l > 0 /\ Len(p) = k + l /\ k \in Nat /\ q \in Seq(STRING)
  BY SkipsFacts
<1>2. i \in 1 .. k + l
  BY <1>1
<1>3. /\ Past(i - 1, k) \in 0 .. l - 1
      /\ i <= k => i \in 1 .. k /\ Past(i, k) = 0 /\ Past(i - 1, k) = 0
      /\ ~(i <= k) => /\ Past(i, k) = Past(i - 1, k) + 1
                      /\ Past(i, k) \in 1 .. l /\ k + Past(i, k) = i
  BY <1>1, <1>2, PastFacts
<1>4. Holds(SubSeq(q, 1, Past(i - 1, k)), "dir")
  <2>1. \A j \in 1 .. Len(q) : q[j] # "."
    BY DEF IsName
  <2> QED
    BY <1>1, <1>3, <2>1, PrefixesHold
<1>5. CASE i <= k
  <2>1. p[i] \in {"", "."}
    BY <1>3, <1>5 DEF Skips
  <2>2. p[i] # ".."
    BY <2>1
  <2>3. Past(i, k) = Past(i - 1, k)
    BY <1>3, <1>5
  <2> QED
    BY <1>4, <2>1, <2>2, <2>3 DEF Step, Found
<1>6. CASE ~(i <= k)
  <2>1. PICK j \in 0 .. Len(q) - 1 : j = Past(i - 1, k) /\ j + 1 = Past(i, k)
    BY <1>1, <1>3, <1>6
  <2>2. j + 1 \in 1 .. Len(q) /\ k + (j + 1) = i
    BY <1>1, <1>3, <1>6, <2>1
  <2>3. q[j + 1] = p[k + (j + 1)]
    BY <2>2 DEF Skips
  <2>4. q[j + 1] \notin {"", ".", ".."}
    BY <2>2 DEF IsName
  <2>5. p[i] \notin {"", ".", ".."}
    BY <2>2, <2>3, <2>4
  <2>6. Append(SubSeq(q, 1, j), p[i]) = SubSeq(q, 1, j + 1)
    BY <1>1, <2>2, <2>3, BeginningGrows
  <2>7. Step(Found(SubSeq(q, 1, j)), p[i]) = Found(Append(SubSeq(q, 1, j), p[i]))
    BY <1>4, <2>1, <2>5 DEF Step, Found
  <2> QED
    BY <2>1, <2>6, <2>7
<1> QED
  BY <1>5, <1>6

\* A function of places is the walk if it starts at the mount and each place is a step
\* from the one before.
LEMMA WalkIs ==
  ASSUME NEW p \in Seq(STRING), NEW f, f = [i \in 0 .. Len(p) |-> f[i]],
         f[0] = Found(<<>>), \A i \in 1 .. Len(p) : Step(f[i - 1], p[i]) = f[i]
  PROVE  Named(p) = f[Len(p)]
<1>1. \A i \in 0 .. Len(p) : i = 0 \/ i \in 1 .. Len(p)
  BY LenType
<1>2. f = [i \in 0 .. Len(p) |-> IF i = 0 THEN Found(<<>>) ELSE Step(f[i - 1], p[i])]
  BY <1>1
<1> QED
  BY <1>2, WalkIsNamed

\* A path that is a name, but for what is skipped in front.
LEMMA WalkOfName ==
  ASSUME TreeInv, NEW p \in Seq(STRING), NEW k, NEW q, Skips(p, k, q), IsName(q),
         Holds(Front(q), "dir")
  PROVE  Named(p) = Found(q)
<1>1. /\ k \in Nat /\ Len(p) \in Nat /\ Len(q) \in Nat /\ q \in Seq(STRING)
      /\ Len(q) > 0 /\ Len(p) = k + Len(q)
  BY SkipsFacts
<1> DEFINE f == [i \in 0 .. Len(p) |-> Found(SubSeq(q, 1, Past(i, k)))]
<1>2. f[0] = Found(<<>>)
  <2>1. 0 \in 0 .. Len(p) /\ Past(0, k) = 0
    BY <1>1 DEF Past
  <2>2. SubSeq(q, 1, 0) = <<>>
    BY <1>1, SubSeqEmpty
  <2> QED
    BY <2>1, <2>2
<1>3. f[Len(p)] = Found(q)
  <2>1. Len(p) \in 0 .. Len(p) /\ Past(Len(p), k) = Len(q)
    BY <1>1 DEF Past
  <2>2. SubSeq(q, 1, Len(q)) = q
    BY <1>1, SubSeqFull
  <2> QED
    BY <2>1, <2>2
<1>4. ASSUME NEW i \in 1 .. Len(p)  PROVE Step(f[i - 1], p[i]) = f[i]
  <2>1. i \in 0 .. Len(p) /\ i - 1 \in 0 .. Len(p)
    BY <1>1
  <2>2. f[i] = Found(SubSeq(q, 1, Past(i, k))) /\ f[i - 1] = Found(SubSeq(q, 1, Past(i - 1, k)))
    BY <2>1
  <2> HIDE DEF f
  <2> QED
    BY <2>2, WalkStep
<1>5. f = [i \in 0 .. Len(p) |-> f[i]]
  OBVIOUS
<1> HIDE DEF f
<1> QED
  BY <1>2, <1>3, <1>4, <1>5, WalkIs

\* A path of nothing but empty parts and dots.
IsNoName(p) == \A i \in 1 .. Len(p) : p[i] \in {"", "."}

LEMMA WalkToRoot ==
  ASSUME NEW p \in Seq(STRING), IsNoName(p)
  PROVE  Named(p) = Found(<<>>)
<1> DEFINE f == [i \in 0 .. Len(p) |-> Found(<<>>)]
<1>0. PICK n \in Nat : n = Len(p)
  BY LenType
<1>1. f[0] = Found(<<>>) /\ f[Len(p)] = Found(<<>>)
  BY <1>0
<1>2. ASSUME NEW i \in 1 .. Len(p)  PROVE Step(f[i - 1], p[i]) = f[i]
  <2>1. i \in 0 .. Len(p) /\ i - 1 \in 0 .. Len(p)
    BY <1>0
  <2>2. f[i] = Found(<<>>) /\ f[i - 1] = Found(<<>>)
    BY <2>1
  <2>3. p[i] \in {"", "."}
    BY DEF IsNoName
  <2>4. p[i] # ".."
    BY <2>3
  <2>5. Found(<<>>).ok /\ Found(<<>>).name = <<>>
    BY DEF Found
  <2> HIDE DEF f
  <2> QED
    BY <2>2, <2>3, <2>4, <2>5, RootHolds DEF Step
<1>3. f = [i \in 0 .. Len(p) |-> f[i]]
  OBVIOUS
<1> HIDE DEF f
<1> QED
  BY <1>1, <1>2, <1>3, WalkIs

LEMMA PathsKept ==
  ASSUME TreeInv
  PROVE  PathsAreKept
<1> SUFFICES ASSUME NEW p \in Paths, Name(p).ok
             PROVE  LET name == IF Name(p).name = Root THEN <<>> ELSE Name(p).name
                    IN  (name # <<>> => Holds(Front(name), "dir")) => Named(p) = Found(name)
  BY DEF PathsAreKept, NameOf
<1>1. p \in Seq(STRING)
  BY NamesAssumption
<1>2. PICK k, q :
        /\ Skips(p, k, q)
        /\ Name(p).name = IF q = <<"">> THEN Root ELSE q
        /\ q # <<"">> => ValidPath(q)
  BY NameFacts DEF Skips
<1>3. /\ k \in Nat /\ Len(p) \in Nat /\ Len(q) \in Nat /\ q \in Seq(STRING)
      /\ Len(q) > 0 /\ Len(p) = k + Len(q)
  <2>1. Skips(p, k, q)
    BY <1>2
  <2> QED
    BY <1>1, <2>1, SkipsFacts
<1>4. CASE q = <<"">> \/ q = Root
  <2>1. Name(p).name = Root
    BY <1>2, <1>4
  <2>2. Len(q) = 1 /\ q[1] \in {"", "."}
    <3>1. Len(<<"">>) = 1 /\ <<"">>[1] = ""
      OBVIOUS
    <3>2. Len(Root) = 1 /\ Root[1] = "."
      BY DEF Root
    <3> QED
      BY <1>4, <3>1, <3>2
  <2>3. ASSUME NEW i \in 1 .. Len(p)  PROVE p[i] \in {"", "."}
    <3>1. i \in 1 .. k \/ (i = k + 1 /\ 1 \in 1 .. Len(q))
      <4>1. i \in 1 .. k + 1
        <5>1. Len(q) = 1 /\ Len(p) = k + Len(q)
          BY <1>3, <2>2
        <5> QED
          BY <5>1
      <4>2. k \in Nat /\ 1 \in 1 .. Len(q)
        <5>1. Len(q) = 1
          BY <2>2
        <5> QED
          BY <1>3, <5>1
      <4> QED
        BY <4>1, <4>2
    <3>2. ASSUME 1 \in 1 .. Len(q)  PROVE q[1] = p[k + 1]
      BY <1>2, <3>2 DEF Skips
    <3>3. i \in 1 .. k => p[i] \in {"", "."}
      BY <1>2 DEF Skips
    <3> QED
      BY <2>2, <3>1, <3>2, <3>3
  <2>4. Named(p) = Found(<<>>)
    BY <1>1, <2>3, WalkToRoot DEF IsNoName
  <2> QED
    BY <2>1, <2>4
<1>5. CASE q # <<"">> /\ q # Root
  <2>1. Name(p).name = q
    BY <1>2, <1>5
  <2>2. q # <<>>
    <3>1. Len(<<>>) = 0
      OBVIOUS
    <3> QED
      BY <1>3, <3>1
  <2>3. IsName(q)
    BY <1>2, <1>3, <1>5, LenType DEF ValidPath, IsName
  <2>4. ASSUME Holds(Front(q), "dir")  PROVE Named(p) = Found(q)
    BY <1>1, <1>2, <2>3, <2>4, WalkOfName
  <2> QED
    BY <1>5, <2>1, <2>2, <2>4
<1> QED
  BY <1>4, <1>5

-----------------------------------------------------------------------------
(* The operations on the tree.                                             *)

\* An entry that is in a directory is below it.
LEMMA InFront ==
  ASSUME NEW e \in Entries, NEW f \in Entries, Front(e) = f
  PROVE  IsStrictPrefix(f, e) /\ f # e
<1>1. /\ e \in Seq(STRING) /\ Len(e) \in Nat /\ Len(f) = Len(e) - 1 /\ f \in Seq(STRING)
      /\ \A i \in 1 .. Len(e) - 1 : f[i] = e[i]
  BY EntryFacts
<1>2. IsPrefix(f, e)
  BY <1>1, PrefixFacts
<1>3. f # e
  BY <1>1
<1> QED
  BY <1>2, <1>3 DEF IsStrictPrefix

\* One entry changes that holds nothing, in a directory that is there.
LEMMA OneChanges ==
  ASSUME TreeInv, NEW e \in Entries, NEW kind \in Kinds,
         tree' = [tree EXCEPT ![e] = kind],
         kind # "none" => Holds(Front(e), "dir"),
         e = Root \/ tree[e] # "dir" \/ Below(e) = {}
  PROVE  TreeInv'
<1>1. TreeType'
  BY DEF TreeInv, TreeType
<1>2. tree'[e] = kind /\ \A f \in Entries : f # e => tree'[f] = tree[f]
  BY DEF TreeInv, TreeType
<1>3. ASSUME NEW f \in Entries, tree'[f] # "none"  PROVE Holds(Front(f), "dir")'
  <2>1. Holds(Front(f), "dir")
    BY <1>2, <1>3 DEF TreeInv, Rooted
  <2>2. CASE Front(f) \in {Root, <<>>}
    BY <2>2 DEF Holds
  <2>3. CASE Front(f) \notin {Root, <<>>}
    <3>1. Front(f) \in Entries /\ tree[Front(f)] = "dir"
      BY <2>1, <2>3 DEF Holds, Is
    <3>2. Front(f) # e
      <4> SUFFICES ASSUME Front(f) = e  PROVE FALSE
        OBVIOUS
      <4>1. IsStrictPrefix(e, f) /\ e # f
        BY InFront
      <4>2. tree[f] # "none"
        BY <1>2, <1>3, <4>1
      <4>3. f \in Below(e)
        BY <4>1, <4>2 DEF Below
      <4>4. e # Root /\ tree[e] = "dir"
        BY <2>3, <3>1
      <4> QED
        BY <4>3, <4>4
    <3> QED
      BY <1>2, <3>1, <3>2 DEF Holds, Is
  <2> QED
    BY <2>2, <2>3
<1> QED
  BY <1>1, <1>3 DEF TreeInv, Rooted

LEMMA SameTree == ASSUME TreeInv, UNCHANGED tree  PROVE TreeInv'
BY DEF TreeInv, TreeType, Rooted, Holds, Is

LEMMA CreatesStep ==
  ASSUME TreeInv, NEW name, NEW create, Creates(name, create)
  PROVE  TreeInv'
<1>1. CASE UNCHANGED tree
  BY <1>1, SameTree
<1>2. CASE Is(name, "none") /\ Holds(Front(name), "dir") /\ tree' = [tree EXCEPT ![name] = "file"]
  <2>1. name \in Entries /\ tree[name] # "dir"
    BY <1>2 DEF Is
  <2> QED
    BY <1>2, <2>1, OneChanges DEF Kinds
<1> QED
  BY <1>1, <1>2 DEF Creates

LEMMA MkdirStep == ASSUME TreeInv, NEW p \in Paths, Mkdir(p)  PROVE TreeInv'
<1> DEFINE name == TargetOf[p].name
<1>1. /\ name \in Entries /\ tree[name] # "dir" /\ Holds(Front(name), "dir")
      /\ tree' = [tree EXCEPT ![name] = "dir"]
  BY DEF Mkdir, Is
<1> HIDE DEF name
<1> QED
  BY <1>1, OneChanges DEF Kinds

LEMMA UnlinkStep == ASSUME TreeInv, NEW p \in Paths, Unlink(p)  PROVE TreeInv'
<1> DEFINE name == TargetOf[p].name
<1>1. /\ name \in Entries /\ tree[name] # "dir"
      /\ tree' = [tree EXCEPT ![name] = "none"]
  BY DEF Unlink, Is
<1> HIDE DEF name
<1> QED
  BY <1>1, OneChanges DEF Kinds

LEMMA RmdirStep == ASSUME TreeInv, NEW p \in Paths, Rmdir(p)  PROVE TreeInv'
<1> DEFINE name == TargetOf[p].name
<1>1. /\ name \in Entries /\ Below(name) = {}
      /\ tree' = [tree EXCEPT ![name] = "none"]
  BY DEF Rmdir, Is
<1> HIDE DEF name
<1> QED
  BY <1>1, OneChanges DEF Kinds

LEMMA OthersStep == ASSUME TreeInv, OthersChange  PROVE TreeInv'
<1>1. PICK e \in Entries, kind \in Kinds :
        /\ Holds(Front(e), "dir") /\ Below(e) = {}
        /\ tree' = [tree EXCEPT ![e] = kind]
  BY DEF OthersChange, Kinds
<1> QED
  BY <1>1, OneChanges

\* Where an entry goes.
LEMMA MovedFacts ==
  ASSUME NEW old \in Seq(STRING), NEW new \in Seq(STRING), NEW e \in Seq(STRING),
         Len(old) <= Len(e)
  PROVE  /\ Moved(old, new, e) \in Seq(STRING)
         /\ Len(Moved(old, new, e)) = Len(new) + (Len(e) - Len(old))
         /\ \A i \in 1 .. Len(new) : Moved(old, new, e)[i] = new[i]
         /\ \A i \in 1 .. Len(e) - Len(old) : Moved(old, new, e)[Len(new) + i] = e[Len(old) + i]
<1>1. PICK m \in Nat, n \in Nat, l \in Nat : m = Len(old) /\ n = Len(new) /\ l = Len(e) /\ m <= l
  BY LenType
<1>2. PICK s : s = SubSeq(e, m + 1, l)
  OBVIOUS
<1>3. s \in Seq(STRING) /\ Len(s) = l - m /\ \A i \in 1 .. l - m : s[i] = e[m + i]
  BY <1>1, <1>2
<1>4. /\ new \o s \in Seq(STRING) /\ Len(new \o s) = n + (l - m)
      /\ \A i \in 1 .. n : (new \o s)[i] = new[i]
      /\ \A i \in 1 .. l - m : (new \o s)[n + i] = s[i]
  <2>1. Len(new \o s) = n + (l - m) /\ new \o s \in Seq(STRING)
    <3>1. new \in Seq(STRING) /\ s \in Seq(STRING)
      BY <1>3
    <3>2. new \o s \in Seq(STRING)
      BY <3>1
    <3>3. Len(new \o s) = Len(new) + Len(s)
      BY <3>1
    <3> QED
      BY <1>1, <1>3, <3>2, <3>3
  <2>2. \A i \in 1 .. n + (l - m) : (new \o s)[i] = IF i <= n THEN new[i] ELSE s[i - n]
    BY <1>1, <1>3, ConcatProperties
  <2>3. \A i \in 1 .. n : i \in 1 .. n + (l - m) /\ i <= n
    BY <1>1
  <2>4. \A i \in 1 .. l - m : n + i \in 1 .. n + (l - m) /\ ~(n + i <= n) /\ (n + i) - n = i
    BY <1>1
  <2> QED
    BY <2>1, <2>2, <2>3, <2>4
<1>5. Moved(old, new, e) = new \o s
  BY <1>1, <1>2 DEF Moved
<1>6. \A i \in 1 .. l - m : (new \o s)[n + i] = e[m + i]
  BY <1>3, <1>4
<1> QED
  BY <1>1, <1>4, <1>5, <1>6

\* They go to different places.
LEMMA MovedApart ==
  ASSUME NEW old \in Seq(STRING), NEW new \in Seq(STRING),
         NEW e \in Seq(STRING), NEW f \in Seq(STRING),
         IsPrefix(old, e), IsPrefix(old, f), Moved(old, new, e) = Moved(old, new, f)
  PROVE  e = f
<1>0. Len(old) <= Len(e) /\ Len(old) <= Len(f)
  BY PrefixFacts
<1>1. PICK m \in Nat, n \in Nat, l \in Nat :
        m = Len(old) /\ n = Len(new) /\ l = Len(e) - m /\ m <= Len(e) /\ m <= Len(f)
  <2>1. Len(old) \in Nat /\ Len(new) \in Nat /\ Len(e) \in Nat
    BY LenType
  <2>2. Len(e) - Len(old) \in Nat
    BY <1>0, <2>1
  <2> QED
    BY <1>0, <2>1, <2>2
<1>2. Len(e) = m + l /\ Len(f) = m + l
  <2>1. Len(Moved(old, new, e)) = n + (Len(e) - m) /\ Len(Moved(old, new, f)) = n + (Len(f) - m)
    BY <1>1, MovedFacts
  <2>2. Len(e) \in Nat /\ Len(f) \in Nat
    BY LenType
  <2> QED
    BY <1>1, <2>1, <2>2
<1>3. \A i \in 1 .. m : e[i] = f[i]
  BY <1>1, PrefixFacts
<1>4. \A i \in 1 .. l : e[m + i] = f[m + i]
  <2>1. \A i \in 1 .. l : Moved(old, new, e)[n + i] = e[m + i]
    <3>1. \A i \in 1 .. Len(e) - Len(old) :
            Moved(old, new, e)[Len(new) + i] = e[Len(old) + i]
      BY <1>0, MovedFacts
    <3> QED
      BY <1>1, <3>1
  <2>2. \A i \in 1 .. l : Moved(old, new, f)[n + i] = f[m + i]
    <3>1. \A i \in 1 .. Len(f) - Len(old) :
            Moved(old, new, f)[Len(new) + i] = f[Len(old) + i]
      BY <1>0, MovedFacts
    <3>2. l = Len(f) - m
      BY <1>1, <1>2
    <3> QED
      BY <1>1, <3>1, <3>2
  <2> QED
    BY <2>1, <2>2
<1>5. ASSUME NEW i \in 1 .. Len(e)  PROVE e[i] = f[i]
  <2>1. CASE i <= m
    BY <1>1, <1>3, <2>1
  <2>2. CASE ~(i <= m)
    <3>1. i - m \in 1 .. l /\ m + (i - m) = i
      BY <1>1, <1>2, <2>2
    <3> QED
      BY <1>4, <3>1
  <2> QED
    BY <2>1, <2>2
<1> QED
  BY <1>2, <1>5, SameSequence

\* Two beginnings of one name: one begins the other.
LEMMA PrefixesNested ==
  ASSUME NEW s \in Seq(STRING), NEW t \in Seq(STRING), NEW e \in Seq(STRING),
         IsPrefix(s, e), IsPrefix(t, e), Len(s) <= Len(t)
  PROVE  IsPrefix(s, t)
<1>1. PICK m \in Nat, n \in Nat : m = Len(s) /\ n = Len(t) /\ m <= n
  BY LenType
<1>2. (\A i \in 1 .. m : s[i] = e[i]) /\ (\A i \in 1 .. n : t[i] = e[i])
  BY <1>1, PrefixFacts
<1>3. \A i \in 1 .. m : s[i] = t[i]
  BY <1>1, <1>2
<1> QED
  BY <1>1, <1>3, PrefixFacts

LEMMA PrefixTransitive ==
  ASSUME NEW s \in Seq(STRING), NEW t \in Seq(STRING), NEW e \in Seq(STRING),
         IsPrefix(s, t), IsPrefix(t, e)
  PROVE  IsPrefix(s, e)
<1>1. PICK m \in Nat, n \in Nat, l \in Nat :
        m = Len(s) /\ n = Len(t) /\ l = Len(e) /\ m <= n /\ n <= l
  BY LenType, PrefixFacts
<1>2. (\A i \in 1 .. m : s[i] = t[i]) /\ (\A i \in 1 .. n : t[i] = e[i])
  BY <1>1, PrefixFacts
<1>3. \A i \in 1 .. m : s[i] = e[i]
  BY <1>1, <1>2
<1> QED
  BY <1>1, <1>3, PrefixFacts

\* What a name begins with, the directory of a longer name begins with too.
LEMMA FrontPrefix ==
  ASSUME NEW s \in Seq(STRING), NEW e \in Entries, IsPrefix(s, e), s # e
  PROVE  IsPrefix(s, Front(e))
<1>1. /\ e \in Seq(STRING) /\ Len(e) \in Nat /\ Len(e) > 0
      /\ Front(e) \in Seq(STRING) /\ Len(Front(e)) = Len(e) - 1
      /\ \A i \in 1 .. Len(e) - 1 : Front(e)[i] = e[i]
  BY EntryFacts
<1>2. PICK m \in Nat : m = Len(s)
  BY LenType
<1>3. m <= Len(e) /\ \A i \in 1 .. m : s[i] = e[i]
  BY <1>1, <1>2, PrefixFacts
<1>4. m # Len(e)
  <2> SUFFICES ASSUME m = Len(e)  PROVE FALSE
    OBVIOUS
  <2> QED
    BY <1>1, <1>2, <1>3, SameSequence
<1>5. m <= Len(e) - 1
  BY <1>1, <1>3, <1>4
<1>6. \A i \in 1 .. m : s[i] = Front(e)[i]
  BY <1>1, <1>3, <1>5
<1> QED
  BY <1>1, <1>2, <1>5, <1>6, PrefixFacts

LEMMA FrontIsPrefix == ASSUME NEW e \in Entries  PROVE IsPrefix(Front(e), e) /\ Front(e) # e
<1>1. /\ e \in Seq(STRING) /\ Len(e) \in Nat /\ Len(e) > 0
      /\ Front(e) \in Seq(STRING) /\ Len(Front(e)) = Len(e) - 1
      /\ \A i \in 1 .. Len(e) - 1 : Front(e)[i] = e[i]
  BY EntryFacts
<1> QED
  BY <1>1, PrefixFacts

\* A name that moves begins with where it moves to.
LEMMA MovedPrefix ==
  ASSUME NEW old \in Seq(STRING), NEW new \in Seq(STRING), NEW e \in Seq(STRING),
         Len(old) <= Len(e)
  PROVE  IsPrefix(new, Moved(old, new, e))
<1>1. PICK m \in Nat, n \in Nat, l \in Nat : m = Len(old) /\ n = Len(new) /\ l = Len(e) /\ m <= l
  BY LenType
<1>2. /\ Moved(old, new, e) \in Seq(STRING) /\ Len(Moved(old, new, e)) = n + (l - m)
      /\ \A i \in 1 .. n : Moved(old, new, e)[i] = new[i]
  BY <1>1, MovedFacts
<1>3. n <= n + (l - m)
  BY <1>1
<1> QED
  BY <1>1, <1>2, <1>3, PrefixFacts

\* The directory of an entry that moves: where that goes.
LEMMA MovedFront ==
  ASSUME NEW old \in Seq(STRING), NEW new \in Seq(STRING), NEW e \in Entries,
         IsPrefix(old, e), old # e, Moved(old, new, e) \in Entries
  PROVE  Front(Moved(old, new, e)) = Moved(old, new, Front(e))
<1>1. /\ e \in Seq(STRING) /\ Len(e) \in Nat /\ Len(e) > 0
      /\ Front(e) \in Seq(STRING) /\ Len(Front(e)) = Len(e) - 1
      /\ \A i \in 1 .. Len(e) - 1 : Front(e)[i] = e[i]
  BY EntryFacts
<1>2. PICK m \in Nat, n \in Nat, l \in Nat :
        m = Len(old) /\ n = Len(new) /\ l = Len(e) - 1 /\ m <= l
  <2>1. Len(old) \in Nat /\ Len(new) \in Nat
    BY LenType
  <2>2. Len(old) <= Len(Front(e))
    BY <1>1, FrontPrefix, PrefixFacts
  <2> QED
    BY <1>1, <2>1, <2>2
<1>3. PICK f \in Seq(STRING) :
        /\ f = Front(Moved(old, new, e)) /\ Len(f) = n + (l - m)
        /\ \A i \in 1 .. n + (l - m) : f[i] = Moved(old, new, e)[i]
  <2>1. Len(Moved(old, new, e)) = Len(new) + (Len(e) - Len(old))
    <3>1. Len(old) <= Len(e)
      BY <1>1, <1>2
    <3> QED
      BY <1>1, <3>1, MovedFacts
  <2>2. Len(Moved(old, new, e)) - 1 = n + (l - m)
    BY <1>1, <1>2, <2>1
  <2> QED
    BY <2>2, EntryFacts
<1>4. PICK g \in Seq(STRING) :
        /\ g = Moved(old, new, Front(e)) /\ Len(g) = n + (l - m)
        /\ \A i \in 1 .. n : g[i] = new[i]
        /\ \A i \in 1 .. l - m : g[n + i] = Front(e)[m + i]
  <2>1. Len(old) <= Len(Front(e)) /\ Len(Front(e)) = l
    BY <1>1, <1>2
  <2>2. PICK d \in Seq(STRING) : d = Front(e)
    BY <1>1
  <2>3. Len(old) <= Len(d) /\ Len(d) = l
    BY <2>1, <2>2
  <2>4. /\ Moved(old, new, d) \in Seq(STRING)
        /\ Len(Moved(old, new, d)) = Len(new) + (Len(d) - Len(old))
        /\ \A i \in 1 .. Len(new) : Moved(old, new, d)[i] = new[i]
        /\ \A i \in 1 .. Len(d) - Len(old) : Moved(old, new, d)[Len(new) + i] = d[Len(old) + i]
    BY <2>3, MovedFacts
  <2> QED
    BY <1>2, <2>2, <2>3, <2>4
<1>5. /\ \A i \in 1 .. n : Moved(old, new, e)[i] = new[i]
      /\ \A i \in 1 .. l - m : Moved(old, new, e)[n + i] = e[m + i]
  <2>1. Len(old) <= Len(e)
    BY <1>1, <1>2
  <2>2. /\ \A i \in 1 .. Len(new) : Moved(old, new, e)[i] = new[i]
        /\ \A i \in 1 .. Len(e) - Len(old) : Moved(old, new, e)[Len(new) + i] = e[Len(old) + i]
    <3>1. PICK d \in Seq(STRING) : d = e
      BY <1>1
    <3>2. Len(old) <= Len(d)
      BY <2>1, <3>1
    <3>3. /\ Moved(old, new, d) \in Seq(STRING)
          /\ Len(Moved(old, new, d)) = Len(new) + (Len(d) - Len(old))
          /\ \A i \in 1 .. Len(new) : Moved(old, new, d)[i] = new[i]
          /\ \A i \in 1 .. Len(d) - Len(old) : Moved(old, new, d)[Len(new) + i] = d[Len(old) + i]
      BY <3>2, MovedFacts
    <3> QED
      BY <3>1, <3>3
  <2>3. \A i \in 1 .. l - m : i \in 1 .. Len(e) - Len(old)
    BY <1>1, <1>2
  <2> QED
    BY <1>2, <2>2, <2>3
<1>6. \A i \in 1 .. l - m : Front(e)[m + i] = e[m + i]
  <2>1. \A i \in 1 .. l - m : m + i \in 1 .. Len(e) - 1
    BY <1>1, <1>2
  <2> QED
    BY <1>1, <2>1
<1>7. ASSUME NEW i \in 1 .. n + (l - m)  PROVE f[i] = g[i]
  <2>1. CASE i <= n
    <3>1. i \in 1 .. n
      BY <1>2, <2>1
    <3> QED
      BY <1>3, <1>4, <1>5, <3>1
  <2>2. CASE ~(i <= n)
    <3>1. i - n \in 1 .. l - m /\ n + (i - n) = i
      BY <1>2, <2>2
    <3> QED
      BY <1>3, <1>4, <1>5, <1>6, <3>1
  <2> QED
    BY <2>1, <2>2
<1>8. f = g
  <2>1. Len(f) = Len(g) /\ Len(f) = n + (l - m)
    BY <1>3, <1>4
  <2> QED
    BY <1>7, <2>1, SameSequence
<1> QED
  BY <1>3, <1>4, <1>8

LEMMA MovedOld ==
  ASSUME NEW old \in Seq(STRING), NEW new \in Seq(STRING)
  PROVE  Moved(old, new, old) = new
<1>1. PICK m \in Nat, n \in Nat : m = Len(old) /\ n = Len(new)
  BY LenType
<1>2. /\ Moved(old, new, old) \in Seq(STRING)
      /\ Len(Moved(old, new, old)) = n + (m - m)
      /\ \A i \in 1 .. n : Moved(old, new, old)[i] = new[i]
  <2>1. Len(old) <= Len(old)
    BY <1>1
  <2>2. /\ Moved(old, new, old) \in Seq(STRING)
        /\ Len(Moved(old, new, old)) = Len(new) + (Len(old) - Len(old))
        /\ \A i \in 1 .. Len(new) : Moved(old, new, old)[i] = new[i]
        /\ \A i \in 1 .. Len(old) - Len(old) : Moved(old, new, old)[Len(new) + i] = old[Len(old) + i]
    BY <2>1, MovedFacts
  <2> QED
    BY <1>1, <2>2
<1>3. n + (m - m) = n
  BY <1>1
<1> QED
  BY <1>1, <1>2, <1>3, SameSequence

LEMMA BeginsNoRoot ==
  ASSUME NEW s \in Seq(STRING), s \notin {Root, <<>>}, NEW t \in Seq(STRING), IsPrefix(s, t)
  PROVE  t \notin {Root, <<>>}
<1>1. PICK m \in Nat, n \in Nat : m = Len(s) /\ n = Len(t) /\ m <= n
  BY LenType, PrefixFacts
<1>2. \A i \in 1 .. m : s[i] = t[i]
  BY <1>1, PrefixFacts
<1>3. m > 0
  <2>1. m # 0
    BY <1>1
  <2> QED
    BY <1>1, <2>1
<1>4. t # <<>>
  BY <1>1, <1>3
<1>5. ASSUME t = Root  PROVE FALSE
  <2>1. n = 1 /\ t[1] = "."
    BY <1>1, <1>5 DEF Root
  <2>2. m = 1
    BY <1>1, <1>3, <2>1
  <2>3. s[1] = t[1]
    BY <1>2, <2>2
  <2>4. Len(t) = 1 /\ \A i \in 1 .. 1 : s[i] = t[i]
    BY <1>1, <2>1, <2>3
  <2>5. s = t
    BY <1>1, <2>2, <2>4, SameSequence
  <2> QED
    BY <1>5, <2>5
<1> QED
  BY <1>4, <1>5

\* A rename takes what is below along, to where nothing is.
LEMMA RenameStep == ASSUME TreeInv, NEW p \in Paths, NEW q \in Paths, Rename(p, q)  PROVE TreeInv'
<1> DEFINE old == TargetOf[p].name
           new == TargetOf[q].name
           all(o) == Below(o) \cup {o}
<1>1. /\ old # Root /\ Exists(old)
      /\ new \in Entries /\ Holds(Front(new), "dir")
      /\ Below(new) = {} /\ ~IsPrefix(old, new)
      /\ \A e \in all(old) : Moved(old, new, e) \in Entries
      /\ tree' = [e \in Entries |->
                    IF e \in all(old) THEN "none"
                    ELSE IF \E f \in all(old) : e = Moved(old, new, f)
                    THEN tree[CHOOSE f \in all(old) : e = Moved(old, new, f)]
                    ELSE tree[e]]
  <2>1. old # Root
    BY DEF Rename, TargetOf, Target, Refused, Root
  <2> QED
    BY <2>1 DEF Rename
<1> HIDE DEF old, new
<1> DEFINE A == all(old)
           Comes(e, f) == f \in A /\ e = Moved(old, new, f)
<1>2. /\ old \in Entries /\ old \in Seq(STRING) /\ old # <<>>
      /\ new \in Entries /\ new \in Seq(STRING)
  BY <1>1, EntryFacts DEF Exists
<1>3. \A e \in A : /\ e \in Entries /\ e \in Seq(STRING) /\ IsPrefix(old, e)
                   /\ Len(old) <= Len(e) /\ tree[e] # "none"
  <2> SUFFICES ASSUME NEW e \in A
               PROVE  /\ e \in Entries /\ e \in Seq(STRING) /\ IsPrefix(old, e)
                      /\ Len(old) <= Len(e) /\ tree[e] # "none"
    OBVIOUS
  <2>1. e \in Entries /\ tree[e] # "none" /\ IsPrefix(old, e)
    <3>1. CASE e = old
      BY <1>1, <1>2, <3>1, PrefixFacts DEF Exists
    <3>2. CASE e \in Below(old)
      BY <3>2 DEF Below, IsStrictPrefix
    <3> QED
      BY <3>1, <3>2
  <2>2. e \in Seq(STRING)
    BY <2>1, EntryFacts
  <2>3. Len(old) <= Len(e)
    BY <1>2, <2>1, <2>2, PrefixFacts
  <2> QED
    BY <2>1, <2>2, <2>3
<1>4. /\ \A e \in A : Moved(old, new, e) \in Entries
      /\ \A e \in Entries : e \in A => tree'[e] = "none"
      /\ \A e \in Entries : e \notin A /\ (\A f : ~Comes(e, f)) => tree'[e] = tree[e]
      /\ \A e \in Entries : e \notin A /\ (\E f : Comes(e, f)) =>
           \E f : Comes(e, f) /\ tree'[e] = tree[f]
  BY <1>1
<1>5. TreeType'
  <2>1. \A e \in Entries : tree[e] \in Kinds
    BY DEF TreeInv, TreeType
  <2>2. \A f \in A : f \in Entries
    BY <1>3
  <2>3. \A e \in Entries : tree'[e] \in Kinds
    BY <1>4, <2>1, <2>2 DEF Kinds
  <2>4. tree' = [e \in Entries |-> tree'[e]]
    BY <1>1
  <2> HIDE DEF A
  <2> QED
    BY <2>3, <2>4 DEF TreeType
<1>6. \A e \in Entries : e \in A <=> IsPrefix(old, e) /\ tree[e] # "none"
  <2>1. ASSUME NEW e \in Entries, IsPrefix(old, e), tree[e] # "none"  PROVE e \in A
    BY <2>1 DEF Below, IsStrictPrefix
  <2> HIDE DEF A
  <2> QED
    BY <1>3, <2>1
<1> HIDE DEF A
\* Nothing that is there begins with the new name but that itself.
<1>7. \A e \in Entries : tree[e] # "none" /\ IsPrefix(new, e) => e = new
  BY <1>1 DEF Below, IsStrictPrefix
<1>8. ASSUME NEW e \in Entries, IsPrefix(new, e)  PROVE e \notin A
  <2> SUFFICES ASSUME e \in A  PROVE FALSE
    OBVIOUS
  <2>1. e \in Seq(STRING) /\ IsPrefix(old, e)
    BY <1>3
  <2>2. CASE Len(old) <= Len(new)
    BY <1>1, <1>2, <1>8, <2>1, <2>2, PrefixesNested
  <2>3. CASE ~(Len(old) <= Len(new))
    <3>1. IsPrefix(new, old)
      <4>1. Len(new) <= Len(old)
        BY <1>2, <2>3, LenType
      <4> QED
        BY <1>2, <1>8, <2>1, <4>1, PrefixesNested
    <3>2. old = new
      BY <1>1, <1>2, <1>7, <3>1 DEF Exists
    <3> QED
      BY <1>2, <2>3, <3>2, LenType
  <2> QED
    BY <2>2, <2>3
<1>9. \A e, f : Comes(e, f) => IsPrefix(new, e)
  BY <1>2, <1>3, MovedPrefix
<1>10. ASSUME NEW e \in Entries, tree'[e] # "none"  PROVE Holds(Front(e), "dir")'
  <2>1. e \notin A
    BY <1>4, <1>10
  <2>2. Front(e) \in Seq(STRING) /\ e \in Seq(STRING)
    BY EntryFacts
  \* In the directory of the new name, nothing changes.
  <2>3. CASE e = new
    <3>1. Holds(Front(new), "dir")
      BY <1>1
    <3>2. CASE Front(new) \in {Root, <<>>}
      BY <2>3, <3>2 DEF Holds
    <3>3. CASE Front(new) \notin {Root, <<>>}
      <4>1. Front(new) \in Entries /\ tree[Front(new)] = "dir"
        BY <3>1, <3>3 DEF Holds, Is
      <4>2. IsPrefix(Front(new), new) /\ Front(new) # new
        BY <1>2, FrontIsPrefix
      <4>3. Front(new) \notin A
        <5> SUFFICES ASSUME Front(new) \in A  PROVE FALSE
          OBVIOUS
        <5>1. IsPrefix(old, Front(new))
          BY <1>3
        <5> QED
          BY <1>1, <1>2, <2>2, <2>3, <4>2, <5>1, PrefixTransitive
      <4>4. \A f : ~Comes(Front(new), f)
        BY <1>7, <1>9, <4>1, <4>2
      <4>5. tree'[Front(new)] = "dir"
        BY <1>4, <4>1, <4>3, <4>4
      <4> QED
        BY <2>3, <4>1, <4>5 DEF Holds, Is
    <3> QED
      BY <3>2, <3>3
  \* What is below goes with its directory.
  <2>4. CASE e # new /\ \E f : Comes(e, f)
    <3>1. PICK f : Comes(e, f)
      BY <2>4
    <3>2. f # old
      <4> SUFFICES ASSUME f = old  PROVE FALSE
        OBVIOUS
      <4>1. e = Moved(old, new, old)
        BY <3>1
      <4>2. Moved(old, new, old) = new
        BY <1>2, MovedOld
      <4> QED
        BY <2>4, <4>1, <4>2
    <3>3. f \in Entries /\ IsPrefix(old, f) /\ tree[f] # "none" /\ e = Moved(old, new, f)
      BY <1>3, <3>1
    <3>4. PICK d : d = Front(f) /\ d \in Seq(STRING)
      BY <3>3, EntryFacts
    <3>5. IsPrefix(old, d)
      BY <1>2, <3>2, <3>3, <3>4, FrontPrefix
    <3>6. d \in Entries /\ tree[d] = "dir"
      <4>1. Holds(d, "dir")
        BY <3>3, <3>4 DEF TreeInv, Rooted
      <4>2. d \notin {Root, <<>>}
        BY <1>1, <1>2, <3>4, <3>5, BeginsNoRoot
      <4> QED
        BY <4>1, <4>2 DEF Holds, Is
    <3>7. d \in A
      BY <1>6, <3>5, <3>6
    <3>8. Front(e) = Moved(old, new, d)
      BY <1>2, <3>2, <3>3, <3>4, MovedFront
    <3>9. Comes(Front(e), d) /\ Front(e) \in Entries
      BY <1>4, <3>7, <3>8
    <3>10. Front(e) \notin A
      BY <1>8, <1>9, <3>9
    <3>11. PICK g : Comes(Front(e), g) /\ tree'[Front(e)] = tree[g]
      BY <1>4, <3>9, <3>10
    <3>12. g = d
      <4>1. g \in A /\ Moved(old, new, g) = Moved(old, new, d)
        BY <3>8, <3>11
      <4> QED
        BY <1>2, <1>3, <3>7, <4>1, MovedApart
    <3> QED
      BY <3>6, <3>9, <3>11, <3>12 DEF Holds, Is
  \* What stays, stays in a directory that stays.
  <2>5. CASE e # new /\ \A f : ~Comes(e, f)
    <3>1. tree[e] # "none"
      BY <1>4, <1>10, <2>1, <2>5
    <3>2. Holds(Front(e), "dir")
      BY <3>1 DEF TreeInv, Rooted
    <3>3. CASE Front(e) \in {Root, <<>>}
      BY <3>3 DEF Holds
    <3>4. CASE Front(e) \notin {Root, <<>>}
      <4>1. Front(e) \in Entries /\ tree[Front(e)] = "dir"
        BY <3>2, <3>4 DEF Holds, Is
      <4>2. IsPrefix(Front(e), e) /\ Front(e) # e
        BY FrontIsPrefix
      <4>3. Front(e) \notin A
        <5> SUFFICES ASSUME Front(e) \in A  PROVE FALSE
          OBVIOUS
        <5>1. IsPrefix(old, Front(e))
          BY <1>3
        <5>2. IsPrefix(old, e)
          BY <1>2, <2>2, <4>2, <5>1, PrefixTransitive
        <5> QED
          BY <1>6, <2>1, <3>1, <5>2
      <4>4. ASSUME NEW f, Comes(Front(e), f)  PROVE FALSE
        <5>1. IsPrefix(new, Front(e))
          BY <1>9, <4>4
        <5>2. IsPrefix(new, e)
          BY <1>2, <2>2, <4>2, <5>1, PrefixTransitive
        <5> QED
          BY <1>7, <2>5, <3>1, <5>2
      <4>5. tree'[Front(e)] = "dir"
        BY <1>4, <4>1, <4>3, <4>4
      <4> QED
        BY <4>1, <4>5 DEF Holds, Is
    <3> QED
      BY <3>3, <3>4
  <2> QED
    BY <2>3, <2>4, <2>5
<1> QED
  BY <1>5, <1>10 DEF TreeInv, Rooted

-----------------------------------------------------------------------------
LEMMA TreeInit == FileIOInit => TreeInv
BY DEF FileIOInit, NamesInit, TreeInv, TreeType, Rooted, Kinds

LEMMA TreeNextStep == ASSUME TreeInv, TreeNext  PROVE TreeInv'
<1>1. ASSUME NEW p \in Paths, Mkdir(p) \/ Unlink(p) \/ Rmdir(p)  PROVE TreeInv'
  BY <1>1, MkdirStep, UnlinkStep, RmdirStep
<1>2. ASSUME NEW p \in Paths, NEW q \in Paths, Rename(p, q)  PROVE TreeInv'
  BY <1>2, RenameStep
<1> QED
  BY <1>1, <1>2, OthersStep DEF TreeNext

LEMMA TreeInvNext == TreeInv /\ [FileIONext]_ioVars => TreeInv'
<1> SUFFICES ASSUME TreeInv, [FileIONext]_ioVars  PROVE TreeInv'
  OBVIOUS
<1>1. CASE UNCHANGED tree
  BY <1>1, SameTree
<1>2. CASE TreeNext
  BY <1>2, TreeNextStep
<1>3. ASSUME NEW p \in Paths, Open(p) \/ OpenFails(p)  PROVE TreeInv'
  <2>1. PICK m \in Modes : Creates(NameOf[p].name, Create(m))
    BY <1>3 DEF Open, OpenFails
  <2> QED
    BY <2>1, CreatesStep
<1> QED
  BY <1>1, <1>2, <1>3 DEF FileIONext, ioVars

LEMMA TreeInvAlways == FileIOSpec => []TreeInv
<1> QED
  BY TreeInit, TreeInvNext, PTL DEF FileIOSpec

\* What the handle of a file and the iterator of a directory keep has its type, whatever
\* counts and errors a backend returns.
THEOREM FileIOTypeCorrect == FileIOSpec => []FileIOTypeOK
<1>1. IOInv /\ TreeInv => FileIOTypeOK
  BY DEF IOInv, FileInv, FileType, DirInv, DirType, TreeInv, TreeType, Kinds, FileIOTypeOK
<1> QED BY <1>1, IOInvAlways, TreeInvAlways, PTL

\* Filesystem.name and target (path.go) leave a path what it names, or refuse it: what
\* they take off the front names the mount, and what is left is a name whose directories
\* are there, if the last of them is.
THEOREM FileIOPathsAreKept == FileIOSpec => []PathsAreKept
<1> QED
  BY PathsKept, TreeInvAlways, PTL
=============================================================================
