------------------------------ MODULE Program -------------------------------
(***************************************************************************)
(* Program (program.go): the pool of interpreters that Run borrows from,   *)
(* rewinds and puts back.  An interpreter is what Interpreter says of it:  *)
(* it runs one operation at a time, and it may trap or be closed.          *)
(*                                                                         *)
(* A step is one section under Program.mu, one call on an interpreter, or  *)
(* what happens in Run between two of these.  A cancellation is the set of *)
(* the runs that have asked for it; Begin clears it.                       *)
(***************************************************************************)
EXTENDS Naturals, Sequences, FiniteSets

CONSTANTS
  Runs,        \* calls of Program.Run
  Closers,     \* calls of Program.Close
  NoRun,       \* no run
  MaxIdle      \* WithMaxIdle: interpreters kept between runs

ASSUME ProgramAssumption ==
  /\ MaxIdle \in Nat \ {0}
  /\ IsFiniteSet(Runs)
  /\ NoRun \notin Runs
  /\ Runs \cap Closers = {}

\* NewProgram makes one interpreter, and a run at most one more.
Interpreters == 1 .. Cardinality(Runs) + 1
NoInterpreter == 0

VARIABLES
  free,        \* the idle interpreters, the next one to lend at the end
  closed,      \* the Program is closed
  made,        \* interpreters made so far
  state,       \* of each interpreter: open, trapped or closed
  dirty,       \* interpreters that are not at the Program's initial state
  cancel,      \* the runs whose cancellation stands at an interpreter
  op,          \* the run whose operation is under way at an interpreter
  pc, lent,    \* where a run is, and what it has borrowed
  expired,     \* runs whose context is done
  after,       \* the AfterFunc of each run
  taken,       \* interpreters a Close has taken and not yet closed
  hits         \* history: <<r, s>>, the cancellation of r stopped an operation of s

pool == <<free, closed>>
interpreters == <<made, state, dirty, cancel, op>>
vars == <<pool, interpreters, pc, lent, expired, after, taken, hits>>

\* BorrowedInstance is open: its lock is taken by the operations and, once fn has
\* returned, by Run to close it.
Lending == {"running", "returned"}

PCs == Lending \cup {"idle", "acquire", "make", "vet", "stop", "release", "restore",
                     "recheck", "discard", "done"}

Goto(r, to) == pc' = [pc EXCEPT ![r] = to]

Contents == {free[k] : k \in DOMAIN free}

-----------------------------------------------------------------------------
(* Run: its context, then acquire.                                         *)

RunEnters(r) ==
  /\ pc[r] = "idle"
  /\ Goto(r, IF r \in expired THEN "done" ELSE "acquire")
  /\ UNCHANGED <<pool, interpreters, lent, expired, after, taken, hits>>

RunRefused(r) ==
  /\ pc[r] = "acquire"
  /\ closed
  /\ Goto(r, "done")
  /\ UNCHANGED <<pool, interpreters, lent, expired, after, taken, hits>>

\* Seeded fault: the interpreter stays in the pool.
MutTake(r) ==
  /\ pc[r] = "acquire"
  /\ ~closed
  /\ IF free = <<>> THEN Goto(r, "make") /\ UNCHANGED lent
     ELSE Goto(r, "vet") /\ lent' = [lent EXCEPT ![r] = free[Len(free)]]
  /\ UNCHANGED <<pool, interpreters, expired, after, taken, hits>>

\* The section under Program.mu: the interpreter put back last, or none.
Take(r) ==
  /\ pc[r] = "acquire"
  /\ ~closed
  /\ IF free = <<>>
     THEN Goto(r, "make") /\ UNCHANGED <<free, lent>>
     ELSE /\ Goto(r, "vet")
          /\ lent' = [lent EXCEPT ![r] = free[Len(free)]]
          /\ free' = SubSeq(free, 1, Len(free) - 1)
  /\ UNCHANGED <<closed, interpreters, expired, after, taken, hits>>

\* Run has its interpreter, and registers the AfterFunc.
Lend(r) ==
  /\ Goto(r, "running")
  /\ after' = [after EXCEPT ![r] = IF r \in expired THEN "started" ELSE "armed"]

\* fromSnapshot, outside the lock.
Make(r) ==
  /\ pc[r] = "make"
  /\ made' = made + 1
  /\ state' = [state EXCEPT ![made + 1] = "open"]
  /\ lent' = [lent EXCEPT ![r] = made + 1]
  /\ Lend(r)
  /\ UNCHANGED <<pool, dirty, cancel, op, expired, taken, hits>>

MakeFails(r) ==
  /\ pc[r] = "make"
  /\ Goto(r, "done")
  /\ UNCHANGED <<pool, interpreters, lent, expired, after, taken, hits>>

\* An interpreter with an error is closed, and acquire looks again unless
\* closing it failed.
Vet(r) ==
  /\ pc[r] = "vet"
  /\ IF state[lent[r]] = "open"
     THEN Lend(r) /\ UNCHANGED <<state, lent>>
     ELSE /\ state' = [state EXCEPT ![lent[r]] = "closed"]
          /\ lent' = [lent EXCEPT ![r] = NoInterpreter]
          /\ \E to \in {"acquire", "done"} : Goto(r, to)
          /\ UNCHANGED after
  /\ UNCHANGED <<pool, made, dirty, cancel, op, expired, taken, hits>>

-----------------------------------------------------------------------------
(* The callback, and the goroutines it may have started.                   *)

\* Seeded fault: nobody looks at BorrowedInstance.closed.
MutOpBegins(r) ==
  /\ lent[r] # NoInterpreter
  /\ state[lent[r]] = "open" /\ op[lent[r]] = NoRun
  /\ op' = [op EXCEPT ![lent[r]] = r]
  /\ dirty' = dirty \cup {lent[r]}
  /\ cancel' = [cancel EXCEPT ![lent[r]] = {}]
  /\ UNCHANGED <<pool, made, state, pc, lent, expired, after, taken, hits>>

OpBegins(r) ==
  /\ pc[r] \in Lending
  /\ state[lent[r]] = "open" /\ op[lent[r]] = NoRun
  /\ op' = [op EXCEPT ![lent[r]] = r]
  /\ dirty' = dirty \cup {lent[r]}
  /\ cancel' = [cancel EXCEPT ![lent[r]] = {}]
  /\ UNCHANGED <<pool, made, state, pc, lent, expired, after, taken, hits>>

OpReturns(r) ==
  /\ lent[r] # NoInterpreter
  /\ op[lent[r]] = r
  /\ op' = [op EXCEPT ![lent[r]] = NoRun]
  /\ UNCHANGED <<pool, made, state, dirty, cancel, pc, lent, expired, after, taken, hits>>

OpTraps(r) ==
  /\ lent[r] # NoInterpreter
  /\ op[lent[r]] = r
  /\ op' = [op EXCEPT ![lent[r]] = NoRun]
  /\ state' = [state EXCEPT ![lent[r]] = "trapped"]
  /\ UNCHANGED <<pool, made, dirty, cancel, pc, lent, expired, after, taken, hits>>

OpInterrupted(r) ==
  /\ lent[r] # NoInterpreter
  /\ op[lent[r]] = r
  /\ cancel[lent[r]] # {}
  /\ op' = [op EXCEPT ![lent[r]] = NoRun]
  /\ hits' = hits \cup (cancel[lent[r]] \X {r})
  /\ UNCHANGED <<pool, made, state, dirty, cancel, pc, lent, expired, after, taken>>

\* fn returns, though an operation of another goroutine may be under way.
FnReturns(r) ==
  /\ pc[r] = "running"
  /\ Goto(r, "returned")
  /\ UNCHANGED <<pool, interpreters, lent, expired, after, taken, hits>>

-----------------------------------------------------------------------------
(* Run's deferred calls.                                                   *)

\* Closing the BorrowedInstance waits for its lock, so for its operation.
CloseLoan(r) ==
  /\ pc[r] = "returned"
  /\ op[lent[r]] # r
  /\ Goto(r, "stop")
  /\ UNCHANGED <<pool, interpreters, lent, expired, after, taken, hits>>

\* stop and cancel: an AfterFunc that has started is not waited for.
Stop(r) ==
  /\ pc[r] = "stop"
  /\ after' = IF after[r] = "armed" THEN [after EXCEPT ![r] = "stopped"] ELSE after
  /\ Goto(r, "release")
  /\ UNCHANGED <<pool, interpreters, lent, expired, taken, hits>>

HasRoom == ~closed /\ Len(free) < MaxIdle

Release(r) ==
  /\ pc[r] = "release"
  /\ Goto(r, IF HasRoom THEN "restore" ELSE "discard")
  /\ UNCHANGED <<pool, interpreters, lent, expired, after, taken, hits>>

\* Instance.restore: guest memory as it was compiled; the machine is replaced
\* if it has trapped, and the cancellation is cleared.
Restore(r) ==
  /\ pc[r] = "restore"
  /\ op[lent[r]] = NoRun
  /\ state' = [state EXCEPT ![lent[r]] = "open"]
  /\ dirty' = dirty \ {lent[r]}
  /\ cancel' = [cancel EXCEPT ![lent[r]] = {}]
  /\ Goto(r, "recheck")
  /\ UNCHANGED <<pool, made, op, lent, expired, after, taken, hits>>

\* Seeded fault: an interpreter that cannot be rewound is replaced.
MutRestoreFails(r) ==
  /\ pc[r] = "restore"
  /\ op[lent[r]] = NoRun
  /\ Goto(r, "make")
  /\ UNCHANGED <<pool, interpreters, lent, expired, after, taken, hits>>

RestoreFails(r) ==
  /\ pc[r] = "restore"
  /\ op[lent[r]] = NoRun
  /\ Goto(r, "discard")
  /\ UNCHANGED <<pool, interpreters, lent, expired, after, taken, hits>>

\* Seeded faults: the room is not looked at again; nor is closed.
MutRecheckNothing(r) ==
  /\ pc[r] = "recheck"
  /\ IF ~closed THEN free' = Append(free, lent[r]) /\ Goto(r, "done")
     ELSE Goto(r, "discard") /\ UNCHANGED free
  /\ UNCHANGED <<closed, interpreters, lent, expired, after, taken, hits>>

MutRecheckRoom(r) ==
  /\ pc[r] = "recheck"
  /\ IF Len(free) < MaxIdle THEN free' = Append(free, lent[r]) /\ Goto(r, "done")
     ELSE Goto(r, "discard") /\ UNCHANGED free
  /\ UNCHANGED <<closed, interpreters, lent, expired, after, taken, hits>>

Recheck(r) ==
  /\ pc[r] = "recheck"
  /\ IF HasRoom
     THEN free' = Append(free, lent[r]) /\ Goto(r, "done")
     ELSE Goto(r, "discard") /\ UNCHANGED free
  /\ UNCHANGED <<closed, interpreters, lent, expired, after, taken, hits>>

\* Instance.Close waits for the interpreter's lock.
Discard(r) ==
  /\ pc[r] = "discard"
  /\ op[lent[r]] = NoRun
  /\ state' = [state EXCEPT ![lent[r]] = "closed"]
  /\ Goto(r, "done")
  /\ UNCHANGED <<pool, made, dirty, cancel, op, lent, expired, after, taken, hits>>

-----------------------------------------------------------------------------
(* Cancellation of a run, and Close.                                       *)

Expire(r) ==
  /\ r \notin expired
  /\ pc[r] # "done"
  /\ expired' = expired \cup {r}
  /\ UNCHANGED <<pool, interpreters, pc, lent, after, taken, hits>>

AfterStarts(r) ==
  /\ after[r] = "armed"
  /\ r \in expired
  /\ after' = [after EXCEPT ![r] = "started"]
  /\ UNCHANGED <<pool, interpreters, pc, lent, expired, taken, hits>>

\* Instance.Cancel of the interpreter the run was lent, whoever has it now.
AfterCancels(r) ==
  /\ after[r] = "started"
  /\ after' = [after EXCEPT ![r] = "ended"]
  /\ cancel' = IF state[lent[r]] = "closed" THEN cancel
               ELSE [cancel EXCEPT ![lent[r]] = @ \cup {r}]
  /\ UNCHANGED <<pool, made, state, dirty, op, pc, lent, expired, taken, hits>>

\* A second Close finds nothing to take.
CloseTakes(c) ==
  /\ ~closed
  /\ closed' = TRUE
  /\ taken' = [taken EXCEPT ![c] = free]
  /\ free' = <<>>
  /\ UNCHANGED <<interpreters, pc, lent, expired, after, hits>>

CloseOne(c) ==
  /\ taken[c] # <<>>
  /\ op[Head(taken[c])] = NoRun
  /\ state' = [state EXCEPT ![Head(taken[c])] = "closed"]
  /\ taken' = [taken EXCEPT ![c] = Tail(@)]
  /\ UNCHANGED <<pool, made, dirty, cancel, op, pc, lent, expired, after, hits>>

-----------------------------------------------------------------------------
Init ==
  /\ free = <<1>> /\ closed = FALSE
  /\ made = 1
  /\ state = [i \in Interpreters |-> IF i = 1 THEN "open" ELSE "none"]
  /\ dirty = {}
  /\ cancel = [i \in Interpreters |-> {}]
  /\ op = [i \in Interpreters |-> NoRun]
  /\ pc = [r \in Runs |-> "idle"]
  /\ lent = [r \in Runs |-> NoInterpreter]
  /\ expired = {}
  /\ after = [r \in Runs |-> "none"]
  /\ taken = [c \in Closers |-> <<>>]
  /\ hits = {}

\* What Run and its AfterFunc do by themselves.
RunStep(r) ==
  \/ RunEnters(r) \/ RunRefused(r) \/ Take(r) \/ Make(r) \/ MakeFails(r) \/ Vet(r)
  \/ CloseLoan(r) \/ Stop(r) \/ Release(r) \/ Restore(r) \/ RestoreFails(r)
  \/ Recheck(r) \/ Discard(r)

Next ==
  \/ \E r \in Runs :
       \/ RunStep(r)
       \/ OpBegins(r) \/ OpReturns(r) \/ OpTraps(r) \/ OpInterrupted(r) \/ FnReturns(r)
       \/ Expire(r) \/ AfterStarts(r) \/ AfterCancels(r)
  \/ \E c \in Closers : CloseTakes(c) \/ CloseOne(c)

Spec == Init /\ [][Next]_vars

-----------------------------------------------------------------------------
TypeOK ==
  /\ free \in Seq(Interpreters) /\ closed \in BOOLEAN
  /\ made \in Interpreters
  /\ state \in [Interpreters -> {"none", "open", "trapped", "closed"}]
  /\ dirty \in SUBSET Interpreters
  /\ cancel \in [Interpreters -> SUBSET Runs]
  /\ op \in [Interpreters -> Runs \cup {NoRun}]
  /\ pc \in [Runs -> PCs]
  /\ lent \in [Runs -> Interpreters \cup {NoInterpreter}]
  /\ expired \in SUBSET Runs
  /\ after \in [Runs -> {"none", "armed", "stopped", "started", "ended"}]
  /\ taken \in [Closers -> Seq(Interpreters)]
  /\ hits \in SUBSET (Runs \X Runs)

\* A run has its interpreter from acquire until release is through with it.
Has(r, i) == lent[r] = i /\ pc[r] \notin {"acquire", "make", "done"}

\* An interpreter is with one run, or with one Close, or in the pool once.
OneOwner ==
  \A i \in 1 .. made :
    Cardinality({r \in Runs : Has(r, i)})
    + Cardinality({k \in DOMAIN free : free[k] = i})
    + Cardinality({c \in Closers : \E k \in DOMAIN taken[c] : taken[c][k] = i}) <= 1

\* What the pool lends is fresh: open, as it was compiled, nothing under way.
\* release rewinds outside the lock, and a goroutine of the callback may still
\* be at the interpreter when the callback returns.
PooledAreFresh ==
  \A i \in Contents : state[i] = "open" /\ i \notin dirty /\ op[i] = NoRun

\* The pool keeps MaxIdle interpreters at most: release decides, rewinds without
\* the lock, and decides again.
IdleBound == Len(free) <= MaxIdle

\* Once the Program is closed and every run and Close has returned, no
\* interpreter is left open: a run that was rewinding during Close closes its
\* own.
NothingLeaks ==
  closed /\ (\A r \in Runs : pc[r] \in {"idle", "done"}) /\ (\A c \in Closers : taken[c] = <<>>) =>
    \A i \in 1 .. made : state[i] = "closed"

\* Cancelling the context of a run interrupts operations of that run only
\* (Program.Run: "Canceling ctx requests interruption of the current Python
\* operation").
RunCancelStaysHome == \A r, s \in Runs : <<r, s>> \in hits => r = s
=============================================================================
