------------------------------- MODULE FileIO -------------------------------
(***************************************************************************)
(* One open file and one directory listing of a guest program (file.go,    *)
(* dir.go, vfs.c), and the names it asks for (Names).                      *)
(*                                                                         *)
(* The backend is an fs.FS of the Go program.  A read may give data and an *)
(* error at once, a transfer may be short, and the file may change under   *)
(* the handle; a backend that breaks its contract gets EIO.  What the      *)
(* guest knows it knows from the results: `known` and `position` are its   *)
(* account of where it is, `unreported` the faults it was not told of.     *)
(***************************************************************************)
EXTENDS Names, FiniteSets, FiniteSetsExt

CONSTANTS
  MaxOffset,   \* math.MaxInt32, the last offset that a seek may go to
  MaxSize,     \* bound: the size of the file
  MaxLength,   \* bound: the length of a buffer
  Listed       \* entries in the directory

ASSUME FileAssumption ==
  {MaxOffset, MaxSize, MaxLength, Listed} \subseteq Nat /\ MaxOffset < MaxSize

VARIABLES
  size,        \* of the file, which others may change
  file,        \* openFile: [open, read, write, append]
  cursor,      \* of the backend
  readErr,     \* openFile.readErr
  result,      \* what the guest was told last
  position,    \* where the guest is, by what it was told
  known,       \* ... unless that cannot be known
  unreported,  \* faults of reads since the guest last moved, less those it was told of
  iterator,    \* vfs_ilistdir_it_t, none or open, or how it ended
  dir,         \* openDir, an entry and an error that wait
  fetched,     \* entries that the backend is past
  yielded      \* entries that the guest was given

fileVars == <<size, file, cursor, readErr, result, position, known, unreported>>
dirVars == <<iterator, dir, fetched, yielded>>
ioVars == <<tree, fileVars, dirVars>>

Offsets == 0 .. MaxSize
Errors == {"none", "eof", "error"}
NoFile == [open |-> FALSE, read |-> FALSE, write |-> FALSE, append |-> FALSE]
NoDir == [entry |-> FALSE, err |-> "none"]

\* vfs_open: "r", "w", "a", and each of them with "+"; validOpenFlags takes them all.
Modes ==
  {m \in [read : BOOLEAN, write : BOOLEAN, append : BOOLEAN, truncate : BOOLEAN] :
     /\ m.read \/ m.write
     /\ m.append \/ m.truncate => m.write
     /\ ~(m.append /\ m.truncate)}
Create(m) == m.append \/ m.truncate

FileIOInit ==
  /\ NamesInit
  /\ size \in 0 .. MaxSize
  /\ file = NoFile
  /\ cursor = 0
  /\ readErr = "none"
  /\ result = "none"
  /\ position = 0
  /\ known = TRUE
  /\ unreported = 0
  /\ iterator = "none"
  /\ dir = NoDir
  /\ fetched = 0
  /\ yielded = 0

-----------------------------------------------------------------------------
(* The file.                                                               *)

Told(r) == result' = r

\* The guest is at p now, or cannot know.
Knows(k, p) ==
  /\ known' = k
  /\ position' = IF k THEN p ELSE 0

\* A fault is paid for by the error that the guest is told.
Reports(faults) ==
  unreported' = Max({0, faults - (IF result' = "error" THEN 1 ELSE 0)})

\* Xhost_fs_open, of a path that names a file, or may name a new one.
Open(p) ==
  /\ ~file.open
  /\ NameOf[p].ok
  /\ \E m \in Modes :
       /\ Creates(NameOf[p].name, Create(m))
       /\ file' = [open |-> TRUE, read |-> m.read, write |-> m.write, append |-> m.append]
       /\ size' = IF m.truncate \/ tree' # tree THEN 0 ELSE size
       /\ cursor' = IF m.append THEN size' ELSE 0
       /\ Knows(TRUE, cursor')
  /\ readErr' = "none"
  /\ unreported' = 0
  /\ Told("none")

\* A file that was made or cut off, and then cannot be looked at, or is no file, or
\* cannot be gone to the end of: it is closed again.
OpenFails(p) ==
  /\ ~file.open
  /\ NameOf[p].ok
  /\ \E m \in Modes :
       /\ Creates(NameOf[p].name, Create(m))
       /\ size' = IF m.truncate \/ tree' # tree THEN 0 ELSE size
  /\ Told("error")
  /\ UNCHANGED <<file, cursor, readErr, position, known, unreported>>

\* readResult, of a read into k bytes.
ReadResult(n, k, err) ==
  IF n > k THEN "error"
  ELSE IF n > 0 THEN "count"
  ELSE IF err = "eof" THEN "eof"
  ELSE IF err = "none" /\ k = 0 THEN "none"
  ELSE "error"

\* Seeded faults: the error is dropped; the end of the file is kept as well.
MutDropped(n, k, err) == "none"
MutKept(n, k, err) == IF n \in 1 .. k THEN err ELSE "none"

\* An error that came with data waits for the next read; the end of the file does
\* not, for the file may grow.
Deferred(n, k, err) == IF n \in 1 .. k /\ err # "eof" THEN err ELSE "none"

\* What the backend may do with a buffer of k: a short count, with or without an
\* error, the end, or a count that cannot be.
ReadOutcomes(k) ==
  LET left == Max({0, size - cursor})
  IN  {o \in [n : 0 .. k + 1, err : Errors] :
         /\ o.n <= left \/ o.n > k
         /\ o.err = "eof" => o.n = left}

\* Xhost_fs_read of k bytes, k > 0, when an error waits ...
ReadDeferred(k) ==
  /\ file.read /\ k > 0 /\ readErr # "none"
  /\ Told(ReadResult(0, k, readErr))
  /\ readErr' = "none"
  /\ Reports(unreported)
  /\ UNCHANGED <<size, file, cursor, position, known>>

\* ... and when there is none.
Read(k) ==
  /\ file.read /\ k > 0 /\ readErr = "none"
  /\ \E o \in ReadOutcomes(k) :
       /\ readErr' = Deferred(o.n, k, o.err)
       /\ cursor' = IF o.n > k THEN cursor ELSE cursor + o.n
       /\ Told(ReadResult(o.n, k, o.err))
       /\ Reports(unreported + (IF o.err = "error" THEN 1 ELSE 0))
       /\ Knows(known /\ o.n <= k,
                IF result' = "count" THEN position + o.n ELSE position)
  /\ UNCHANGED <<size, file>>

\* Xhost_fs_write of k bytes.  A short count hides an error, which the next write
\* meets again.  Where an append lands the guest is not told.
Write(k) ==
  /\ file.write
  /\ \E n \in 0 .. k + 1 :
       LET at == IF file.append THEN size ELSE cursor
       IN  /\ at + n <= MaxSize
           /\ size' = IF n = 0 THEN size ELSE Max({size, at + n})
           /\ cursor' = IF n = 0 THEN cursor ELSE at + n
           /\ Knows(known /\ n <= k /\ (file.append => n = 0),
                    IF n \in 1 .. k THEN position + n ELSE position)
           /\ IF n \in 1 .. k
              THEN /\ readErr' = "none"
                   /\ unreported' = 0
                   /\ Told("count")
              ELSE /\ UNCHANGED <<readErr, unreported>>
                   /\ result' \in (IF k = 0 /\ n = 0 THEN {"none", "error"} ELSE {"error"})
  /\ UNCHANGED file

Rejected ==
  /\ Told("error")
  /\ UNCHANGED <<size, file, cursor, readErr, position, known, unreported>>

\* Seeded fault: the cursor is moved before the offset is looked at.
MutSeek(base, offset) ==
  /\ file.open
  /\ cursor' = Max({0, base + offset})
  /\ IF base + offset \in 0 .. MaxOffset
     THEN /\ Told("count")
          /\ Knows(TRUE, base + offset)
          /\ readErr' = "none" /\ unreported' = 0
     ELSE /\ Told("error")
          /\ UNCHANGED <<readErr, position, known, unreported>>
  /\ UNCHANGED <<size, file>>

\* Xhost_fs_seek from `base`: the start, the cursor or the end.  What is out of
\* bounds, or fails in the backend, is rejected; a backend may also land elsewhere.
Seek(base, offset) ==
  /\ file.open
  /\ \/ Rejected
     \/ /\ base + offset \in 0 .. MaxOffset
        /\ \/ /\ cursor' = base + offset
              /\ Knows(TRUE, base + offset)
              /\ readErr' = "none"
              /\ unreported' = 0
              /\ Told("count")
           \/ /\ cursor' \in 0 .. MaxOffset \ {base + offset}
              /\ Knows(FALSE, 0)
              /\ Told("error")
              /\ UNCHANGED <<readErr, unreported>>
        /\ UNCHANGED <<size, file>>

SeekFrom(offset) == \E base \in {0, cursor, size} : Seek(base, offset)

\* Xhost_fs_flush.
Flush ==
  /\ file.open
  /\ result' \in (IF file.write THEN {"none", "error"} ELSE {"none"})
  /\ UNCHANGED <<size, file, cursor, readErr, position, known, unreported>>

CloseFile ==
  /\ file.open
  /\ file' = NoFile
  /\ cursor' = 0
  /\ Knows(TRUE, 0)
  /\ readErr' = "none" /\ unreported' = 0
  /\ Told("none")
  /\ UNCHANGED size

\* Somebody else has the file open too.
OthersWrite ==
  /\ size' \in 0 .. MaxSize
  /\ Told("none")
  /\ UNCHANGED <<file, cursor, readErr, position, known, unreported>>

FileNext ==
  \/ Flush \/ CloseFile \/ OthersWrite
  \/ \E k \in 0 .. MaxLength : Read(k) \/ ReadDeferred(k) \/ Write(k)
  \/ \E offset \in -1 .. MaxOffset : SeekFrom(offset)

-----------------------------------------------------------------------------
(* The directory.                                                          *)

\* vfs_ilistdir, of a path that names a directory.
OpenDir(p) ==
  /\ iterator \in {"none", "stopped", "raised"}
  /\ NameOf[p].ok /\ Holds(NameOf[p].name, "dir")
  /\ iterator' = "open"
  /\ dir' = NoDir
  /\ fetched' = 0
  /\ yielded' = 0

\* vfs_ilistdir_it_iternext closes the directory whatever ends the iteration; a
\* close that fails raises as well.
Ends(err) ==
  /\ iterator' \in (IF err = "eof" THEN {"stopped", "raised"} ELSE {"raised"})
  /\ UNCHANGED yielded

\* Seeded fault: the error that came with an entry is forgotten.
MutNextEntry(err) == [entry |-> FALSE, err |-> "none"]

\* The entry has been written out; its error waits for the next call.
NextEntry(err) == [entry |-> FALSE, err |-> err]

\* The guest has no memory for the entry it was given, and raises MemoryError.  Who
\* asks on gets what comes after it, in a listing that has raised.
EntryLost(err) ==
  /\ dir' = NextEntry(err)
  /\ iterator' = "raised"
  /\ UNCHANGED yielded

\* An entry: its name is written out, or it is no name, or too long for the
\* buffer; then the entry stays.
Names(err) ==
  \/ /\ dir' = NextEntry(err)
     /\ yielded' = yielded + 1
     /\ UNCHANGED iterator
  \/ /\ dir' = [entry |-> TRUE, err |-> err]
     /\ Ends("error")
  \/ EntryLost(err)

\* Xhost_fs_readdir, called by iternext: the entry that stayed, the error that
\* waits, or what the backend gives.  It may lose entries in a fault.
IterNext ==
  /\ iterator = "open"
  /\ \/ /\ dir.entry
        /\ Names(dir.err)
        /\ UNCHANGED fetched
     \/ /\ ~dir.entry /\ dir.err # "none"
        /\ Ends(dir.err)
        /\ UNCHANGED <<dir, fetched>>
     \/ /\ ~dir.entry /\ dir.err = "none"
        /\ \/ \E err \in Errors :
                /\ fetched' \in fetched + 1 .. (IF err = "error" THEN Listed ELSE fetched + 1)
                /\ fetched' <= Listed
                /\ err = "eof" => fetched' = Listed
                /\ Names(err)
           \/ \E err \in Errors :
                /\ err = "eof" => fetched = Listed
                /\ dir' = [entry |-> FALSE, err |-> err]
                /\ Ends(IF err = "eof" THEN "eof" ELSE "error")
                /\ UNCHANGED fetched

\* The finaliser, or the end of the interpreter.
DropDir ==
  /\ iterator = "open"
  /\ iterator' = "none"
  /\ UNCHANGED <<dir, fetched, yielded>>

DirNext == IterNext \/ DropDir

\* What changes the entries and nothing that is open: a file that is removed is still
\* there for who has it.
TreeNext ==
  \/ \E p \in Paths : Mkdir(p) \/ Unlink(p) \/ Rmdir(p)
  \/ \E p, q \in Paths : Rename(p, q)
  \/ OthersChange

FileIONext ==
  \/ FileNext /\ UNCHANGED <<tree, dirVars>>
  \/ DirNext /\ UNCHANGED <<tree, fileVars>>
  \/ TreeNext /\ UNCHANGED <<fileVars, dirVars>>
  \/ (\E p \in Paths : Open(p) \/ OpenFails(p)) /\ UNCHANGED dirVars
  \/ (\E p \in Paths : OpenDir(p)) /\ UNCHANGED <<tree, fileVars>>

FileIOSpec == FileIOInit /\ [][FileIONext]_ioVars

-----------------------------------------------------------------------------
(* Properties.                                                             *)

FileIOTypeOK ==
  /\ tree \in [Entries -> {"none", "file", "dir"}]
  /\ size \in 0 .. MaxSize
  /\ file \in [open : BOOLEAN, read : BOOLEAN, write : BOOLEAN, append : BOOLEAN]
  /\ cursor \in Offsets /\ position \in Offsets
  /\ readErr \in {"none", "error"} /\ known \in BOOLEAN
  /\ result \in {"none", "count", "eof", "error"}
  /\ unreported \in {0, 1}
  /\ iterator \in {"none", "open", "stopped", "raised"}
  /\ dir \in [entry : BOOLEAN, err : Errors]
  /\ fetched \in 0 .. Listed /\ yielded \in 0 .. fetched

\* The results tell the guest where it is: a failed read, write or seek moves
\* nothing (file.go: a rejected seek leaves the position unchanged).
PositionIsKnown == known => cursor = position

\* The guest is told of the end only at the end, though others write to the file,
\* and not before it was told of every fault that a read has met since it moved.
EndIsHonest == result = "eof" => cursor >= size /\ unreported = 0

\* A listing that stops without an error was whole: each entry once, none lost
\* behind an error that came with the last one.
ListingIsWhole == iterator = "stopped" => yielded = Listed

\* Whatever is in the mount, an operation that has somewhere to work works on what its
\* path names.  A path that names nothing, through a file or with a slash after one,
\* must not come to be the file's (path.go:15, cleaning "could turn a failing directory
\* lookup into a successful file mutation").
PathsAreKept ==
  \A p \in Paths :
    LET name == IF NameOf[p].name = Root THEN <<>> ELSE NameOf[p].name
    IN  NameOf[p].ok /\ (name # <<>> => Holds(Front(name), "dir")) => Named(p) = Found(name)
=============================================================================
