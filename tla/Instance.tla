------------------------------ MODULE Instance ------------------------------
(***************************************************************************)
(* api.Instance (internal/api/instance.go): the lock that serialises the   *)
(* operations on one interpreter, and the cancellation that goes around    *)
(* the lock.  Every caller is a goroutine; a step is what it does between  *)
(* two accesses to shared state.                                           *)
(*                                                                         *)
(* The signal has two halves (host/module.go): flag, which the guest polls *)
(* (host.go), and chan, the channel that callback and network contexts     *)
(* wait on.  Each is kept as the set of the calls that raised it, so that  *)
(* it is raised when the set is not empty and says by whom.  The code's    *)
(* channel is replaced by Reset only, under the lock, when no context that *)
(* waits on the old one is left.                                           *)
(***************************************************************************)
EXTENDS Naturals, FiniteSets

CONSTANTS
  Ops,          \* calls of run: Exec, Eval, Call, Get, Set, Release, ...
  Cancels,      \* calls of Cancel
  Closers,      \* calls of Close
  Restores,     \* calls of Reset, Restore or Snapshot
  Nobody,       \* nobody holds the lock
  MaxModules    \* host.Modules made (a bound)

ASSUME InstanceAssumption ==
  /\ MaxModules \in Nat \ {0}
  /\ Nobody \notin Ops \cup Cancels \cup Closers \cup Restores
  /\ Ops \cap (Cancels \cup Closers \cup Restores) = {}
  /\ Cancels \cap (Closers \cup Restores) = {}
  /\ Closers \cap Restores = {}

Callers == Ops \cup Cancels \cup Closers \cup Restores
Modules == 1 .. MaxModules
NoModule == 0

VARIABLES
  lock,         \* who has put the token into the channel of capacity 1
  rt,           \* the current module, NoModule after Close
  made,         \* modules made so far
  trap,         \* a TrapError is recorded
  closed,
  pc,           \* where each caller is
  mod,          \* the module each caller has loaded
  expired,      \* calls whose context is done
  after,        \* the AfterFunc that each operation registers on its context
  out,          \* what fn returned
  answer,       \* what each caller has got
  flag, chan,   \* the signal of each module, as the calls that raised it
  hits,         \* history: <<call, operation>>, the call's signal was acted on
  before,       \* history: the cancellations that were over when each operation began
  late          \* history: operations issued after Close had done its work

signal == <<flag, chan>>
vars == <<lock, rt, made, trap, closed, pc, mod, expired, after, out, answer, signal, hits, before, late>>

\* An operation is using the interpreter.
InUse == {"begin", "reset", "drain", "guest", "callback", "blocked", "caught", "stop", "leave"}

OpPCs == InUse \cup {"idle", "acquire", "check", "done"}
OtherPCs == {"idle", "trigger", "store", "acquire", "holding", "done"}

Answers == {"none", "value", "interrupted", "cancelled", "trap", "closed", "ok", "failed", "panic"}

-----------------------------------------------------------------------------
(* acquire and release.                                                    *)

\* acquire looks at the context first, and its caller ends there if it is done.
Acquire(c) ==
  IF c \in expired
  THEN pc' = [pc EXCEPT ![c] = "done"] /\ answer' = [answer EXCEPT ![c] = "cancelled"]
  ELSE pc' = [pc EXCEPT ![c] = "acquire"] /\ UNCHANGED answer

Enter(o) ==
  /\ pc[o] = "idle"
  /\ late' = IF closed THEN late \cup {o} ELSE late
  /\ Acquire(o)
  /\ UNCHANGED <<lock, rt, made, trap, closed, mod, expired, after, out, signal, hits, before>>

AfterLock(c) == IF c \in Ops THEN "check" ELSE "holding"

TakeLock(c) ==
  /\ pc[c] = "acquire"
  /\ lock = Nobody
  /\ lock' = c
  /\ pc' = [pc EXCEPT ![c] = AfterLock(c)]
  /\ UNCHANGED <<rt, made, trap, closed, mod, expired, after, out, answer, signal, hits, before, late>>

\* The other branch of acquire's select.
GiveUp(c) ==
  /\ pc[c] = "acquire"
  /\ c \in expired
  /\ pc' = [pc EXCEPT ![c] = "done"]
  /\ answer' = [answer EXCEPT ![c] = "cancelled"]
  /\ UNCHANGED <<lock, rt, made, trap, closed, mod, expired, after, out, signal, hits, before, late>>

\* The caller that has the lock returns a and gives the lock back.
Return(c, a) ==
  /\ lock' = Nobody
  /\ pc' = [pc EXCEPT ![c] = "done"]
  /\ answer' = [answer EXCEPT ![c] = a]

-----------------------------------------------------------------------------
(* run, with the lock held.                                                *)

\* Seeded fault: the error is not looked at.
MutCheckNothing(o) ==
  /\ pc[o] = "check"
  /\ rt # NoModule
  /\ mod' = [mod EXCEPT ![o] = rt]
  /\ pc' = [pc EXCEPT ![o] = "begin"]
  /\ UNCHANGED <<lock, rt, made, trap, closed, expired, after, out, answer, signal, hits, before, late>>

\* Err reports the trap first.
Check(o) ==
  /\ pc[o] = "check"
  /\ IF trap \/ closed
     THEN /\ Return(o, IF trap THEN "trap" ELSE "closed")
          /\ UNCHANGED mod
     ELSE /\ mod' = [mod EXCEPT ![o] = rt]
          /\ pc' = [pc EXCEPT ![o] = "begin"]
          /\ UNCHANGED <<lock, answer>>
  /\ UNCHANGED <<rt, made, trap, closed, expired, after, out, signal, hits, before, late>>

\* A Cancel, of its own or first thing in a Close, has been called and is over.
CancelIsOver(c) == c \in Cancels \cup Closers /\ pc[c] \notin {"idle", "trigger", "store"}

\* Begin: the flag, the channel, the queued releases, in this order.
Begin(o) ==
  /\ pc[o] = "begin"
  /\ flag' = [flag EXCEPT ![mod[o]] = {}]
  /\ before' = [before EXCEPT ![o] = {c \in Callers : CancelIsOver(c)}]
  /\ pc' = [pc EXCEPT ![o] = "reset"]
  /\ UNCHANGED <<lock, rt, made, trap, closed, mod, expired, after, out, answer, chan, hits, late>>

\* Seeded fault: the channel stays closed.
MutResetSignal(o) ==
  /\ pc[o] = "reset"
  /\ pc' = [pc EXCEPT ![o] = "drain"]
  /\ UNCHANGED <<lock, rt, made, trap, closed, mod, expired, after, out, answer, signal, hits, before, late>>

ResetSignal(o) ==
  /\ pc[o] = "reset"
  /\ chan' = [chan EXCEPT ![mod[o]] = {}]
  /\ pc' = [pc EXCEPT ![o] = "drain"]
  /\ UNCHANGED <<lock, rt, made, trap, closed, mod, expired, after, out, answer, flag, hits, before, late>>

\* The releases are done; AfterFunc registers, or starts at once when the
\* context is done already.
Arm(o) ==
  /\ pc[o] = "drain"
  /\ after' = [after EXCEPT ![o] = IF o \in expired THEN "started" ELSE "armed"]
  /\ pc' = [pc EXCEPT ![o] = "guest"]
  /\ UNCHANGED <<lock, rt, made, trap, closed, mod, expired, out, answer, signal, hits, before, late>>

\* A release enters the guest too, and may trap there.
DrainTraps(o) ==
  /\ pc[o] = "drain"
  /\ out' = [out EXCEPT ![o] = "trap"]
  /\ pc' = [pc EXCEPT ![o] = "leave"]
  /\ UNCHANGED <<lock, rt, made, trap, closed, mod, expired, after, answer, signal, hits, before, late>>

\* fn returns: the context's error goes before anything but a trap.
FnReturns(o, result) ==
  /\ out' = [out EXCEPT ![o] = IF o \in expired /\ result # "trap" THEN "cancelled" ELSE result]
  /\ pc' = [pc EXCEPT ![o] = "stop"]

GuestReturns(o) ==
  /\ pc[o] = "guest"
  /\ FnReturns(o, "value")
  /\ UNCHANGED <<lock, rt, made, trap, closed, mod, expired, after, answer, signal, hits, before, late>>

GuestTraps(o) ==
  /\ pc[o] = "guest"
  /\ FnReturns(o, "trap")
  /\ UNCHANGED <<lock, rt, made, trap, closed, mod, expired, after, answer, signal, hits, before, late>>

\* host_poll, asked at each 256th hook, sees the flag: KeyboardInterrupt.
Polls(o) ==
  /\ pc[o] = "guest"
  /\ flag[mod[o]] # {}
  /\ hits' = hits \cup (flag[mod[o]] \X {o})

\* The exception ends fn.
Interrupted(o) ==
  /\ Polls(o)
  /\ FnReturns(o, "interrupted")
  /\ UNCHANGED <<lock, rt, made, trap, closed, mod, expired, after, answer, signal, before, late>>

\* Or Python code catches it, and goes on with the flag up.
Swallows(o) ==
  /\ Polls(o)
  /\ pc' = [pc EXCEPT ![o] = "caught"]
  /\ UNCHANGED <<lock, rt, made, trap, closed, mod, expired, after, out, answer, signal, before, late>>

Resumes(o) ==
  /\ pc[o] = "caught"
  /\ pc' = [pc EXCEPT ![o] = "guest"]
  /\ UNCHANGED <<lock, rt, made, trap, closed, mod, expired, after, out, answer, signal, hits, before, late>>

\* A call of the filesystem or a write to stdout, which no context reaches.
Blocks(o) ==
  /\ pc[o] = "guest"
  /\ pc' = [pc EXCEPT ![o] = "blocked"]
  /\ UNCHANGED <<lock, rt, made, trap, closed, mod, expired, after, out, answer, signal, hits, before, late>>

Unblocks(o) ==
  /\ pc[o] = "blocked"
  /\ pc' = [pc EXCEPT ![o] = "guest"]
  /\ UNCHANGED <<lock, rt, made, trap, closed, mod, expired, after, out, answer, signal, hits, before, late>>

\* A host function or a socket call, under a context that hangs on the channel.
CallHost(o) ==
  /\ pc[o] = "guest"
  /\ pc' = [pc EXCEPT ![o] = "callback"]
  /\ UNCHANGED <<lock, rt, made, trap, closed, mod, expired, after, out, answer, signal, hits, before, late>>

HostReturns(o) ==
  /\ pc[o] = "callback"
  /\ pc' = [pc EXCEPT ![o] = "guest"]
  /\ UNCHANGED <<lock, rt, made, trap, closed, mod, expired, after, out, answer, signal, hits, before, late>>

HostAborts(o) ==
  /\ pc[o] = "callback"
  /\ chan[mod[o]] # {}
  /\ pc' = [pc EXCEPT ![o] = "guest"]
  /\ hits' = hits \cup (chan[mod[o]] \X {o})
  /\ UNCHANGED <<lock, rt, made, trap, closed, mod, expired, after, out, answer, signal, before, late>>

\* Seeded fault: a callback that has started is not waited for.
MutStopNoWait(o) ==
  /\ pc[o] = "stop"
  /\ after' = IF after[o] = "armed" THEN [after EXCEPT ![o] = "stopped"] ELSE after
  /\ pc' = [pc EXCEPT ![o] = "leave"]
  /\ UNCHANGED <<lock, rt, made, trap, closed, mod, expired, out, answer, signal, hits, before, late>>

\* The deferred stop: the callback never starts, or has ended.
Stop(o) ==
  /\ pc[o] = "stop"
  /\ \/ after[o] = "armed" /\ after' = [after EXCEPT ![o] = "stopped"]
     \/ after[o] = "ended" /\ UNCHANGED after
  /\ pc' = [pc EXCEPT ![o] = "leave"]
  /\ UNCHANGED <<lock, rt, made, trap, closed, mod, expired, out, answer, signal, hits, before, late>>

\* The remaining deferred calls: a trap is recorded, the lock released.
Leave(o) ==
  /\ pc[o] = "leave"
  /\ trap' = (trap \/ out[o] = "trap")
  /\ Return(o, out[o])
  /\ UNCHANGED <<rt, made, closed, mod, expired, after, out, signal, hits, before, late>>

-----------------------------------------------------------------------------
(* Cancellation: by AfterFunc, by Cancel, and by Close first thing.        *)

\* Somebody cancels the call's context, or its deadline passes.
Expire(c) ==
  /\ c \notin expired
  /\ pc[c] # "done"
  /\ expired' = expired \cup {c}
  /\ UNCHANGED <<lock, rt, made, trap, closed, pc, mod, after, out, answer, signal, hits, before, late>>

AfterStarts(o) ==
  /\ after[o] = "armed"
  /\ o \in expired
  /\ after' = [after EXCEPT ![o] = "started"]
  /\ UNCHANGED <<lock, rt, made, trap, closed, pc, mod, expired, out, answer, signal, hits, before, late>>

\* Seeded fault: a channel is left alone when the flag is up already.
MutTrigger(m, c) ==
  chan' = IF flag[m] # {} THEN chan ELSE [chan EXCEPT ![m] = @ \cup {c}]

\* The two halves of Module.Cancel.
Trigger(m, c) == chan' = [chan EXCEPT ![m] = @ \cup {c}]

\* Seeded fault: only the channel is closed.
MutSetFlag(m, c) == flag' = flag

SetFlag(m, c) == flag' = [flag EXCEPT ![m] = @ \cup {c}]

AfterTriggers(o) ==
  /\ after[o] = "started"
  /\ Trigger(mod[o], o)
  /\ after' = [after EXCEPT ![o] = "triggered"]
  /\ UNCHANGED <<lock, rt, made, trap, closed, pc, mod, expired, out, answer, flag, hits, before, late>>

AfterEnds(o) ==
  /\ after[o] = "triggered"
  /\ SetFlag(mod[o], o)
  /\ after' = [after EXCEPT ![o] = "ended"]
  /\ UNCHANGED <<lock, rt, made, trap, closed, pc, mod, expired, out, answer, chan, hits, before, late>>

\* Cancel takes no lock; on a closed instance it does nothing.
AfterCancel(c) == IF c \in Closers THEN "acquire" ELSE "done"

CancelLoads(c) ==
  /\ pc[c] = "idle"
  /\ mod' = [mod EXCEPT ![c] = rt]
  /\ pc' = [pc EXCEPT ![c] = IF rt = NoModule THEN AfterCancel(c) ELSE "trigger"]
  /\ UNCHANGED <<lock, rt, made, trap, closed, expired, after, out, answer, signal, hits, before, late>>

CancelTriggers(c) ==
  /\ pc[c] = "trigger"
  /\ Trigger(mod[c], c)
  /\ pc' = [pc EXCEPT ![c] = "store"]
  /\ UNCHANGED <<lock, rt, made, trap, closed, mod, expired, after, out, answer, flag, hits, before, late>>

CancelStores(c) ==
  /\ pc[c] = "store"
  /\ SetFlag(mod[c], c)
  /\ pc' = [pc EXCEPT ![c] = AfterCancel(c)]
  /\ UNCHANGED <<lock, rt, made, trap, closed, mod, expired, after, out, answer, chan, hits, before, late>>

-----------------------------------------------------------------------------
(* Close, Reset, Restore and Snapshot, with the lock held.                 *)

\* Seeded fault: the module goes while somebody may be using it.
MutClose(c) ==
  /\ pc[c] = "acquire"
  /\ closed' = TRUE
  /\ rt' = NoModule
  /\ pc' = [pc EXCEPT ![c] = "done"]
  /\ answer' = [answer EXCEPT ![c] = "ok"]
  /\ UNCHANGED <<lock, made, trap, mod, expired, after, out, signal, hits, before, late>>

Close(c) ==
  /\ pc[c] = "holding"
  /\ closed' = TRUE
  /\ rt' = NoModule
  /\ Return(c, "ok")
  /\ UNCHANGED <<made, trap, mod, expired, after, out, signal, hits, before, late>>

RestoreEnters(c) ==
  /\ pc[c] = "idle"
  /\ Acquire(c)
  /\ UNCHANGED <<lock, rt, made, trap, closed, mod, expired, after, out, signal, hits, before, late>>

RestoreRefused(c) ==
  /\ pc[c] = "holding"
  /\ closed
  /\ Return(c, "closed")
  /\ UNCHANGED <<rt, made, trap, closed, mod, expired, after, out, signal, hits, before, late>>

\* Reset always makes a new module, Restore does when the old one has trapped.
Replace(c) ==
  /\ pc[c] = "holding"
  /\ ~closed
  /\ made < MaxModules
  /\ made' = made + 1
  /\ rt' = made + 1
  /\ trap' = FALSE
  /\ Return(c, "ok")
  /\ UNCHANGED <<closed, mod, expired, after, out, signal, hits, before, late>>

\* Restore of a module in order: the flag is cleared, the channel is not.
RestoreInPlace(c) ==
  /\ pc[c] = "holding"
  /\ ~closed /\ ~trap
  /\ flag' = [flag EXCEPT ![rt] = {}]
  /\ Return(c, "ok")
  /\ UNCHANGED <<rt, made, trap, closed, mod, expired, after, out, chan, hits, before, late>>

\* Neither a new module nor the old one's memory could be had; or the guest was
\* entered (to start a new machine, to forget or to release references) and has
\* trapped, which nobody recovers from and nobody records.
RestoreFails(c) ==
  /\ pc[c] = "holding"
  /\ ~closed
  /\ \E a \in {"failed", "panic"} : Return(c, a)
  /\ UNCHANGED <<rt, made, trap, closed, mod, expired, after, out, signal, hits, before, late>>

\* Snapshot copies a healthy interpreter, and Clone makes another one of it.
Snapshot(c) ==
  /\ pc[c] = "holding"
  /\ Return(c, IF trap THEN "trap" ELSE IF closed THEN "closed" ELSE "ok")
  /\ UNCHANGED <<rt, made, trap, closed, mod, expired, after, out, signal, hits, before, late>>

-----------------------------------------------------------------------------
Init ==
  /\ lock = Nobody
  /\ rt = 1 /\ made = 1
  /\ trap = FALSE /\ closed = FALSE
  /\ pc = [c \in Callers |-> "idle"]
  /\ mod = [c \in Callers |-> NoModule]
  /\ expired = {}
  /\ after = [o \in Ops |-> "none"]
  /\ out = [o \in Ops |-> "none"]
  /\ answer = [c \in Callers |-> "none"]
  /\ flag = [m \in Modules |-> {}] /\ chan = [m \in Modules |-> {}]
  /\ hits = {} /\ before = [o \in Ops |-> {}] /\ late = {}

\* What an operation and its AfterFunc do whatever the guest program does.
OpStep(o) ==
  \/ Enter(o) \/ TakeLock(o) \/ GiveUp(o) \/ Check(o)
  \/ Begin(o) \/ ResetSignal(o) \/ Arm(o) \/ DrainTraps(o)
  \/ Stop(o) \/ Leave(o)

AfterStep(o) == AfterStarts(o) \/ AfterTriggers(o) \/ AfterEnds(o)

GuestStep(o) ==
  \/ GuestReturns(o) \/ GuestTraps(o) \/ Interrupted(o) \/ Swallows(o) \/ Resumes(o)
  \/ CallHost(o) \/ HostReturns(o) \/ HostAborts(o)
  \/ Blocks(o) \/ Unblocks(o)

CancelStep(c) == CancelLoads(c) \/ CancelTriggers(c) \/ CancelStores(c)

RestoreStep(c) ==
  \/ RestoreEnters(c) \/ TakeLock(c) \/ GiveUp(c) \/ RestoreRefused(c)
  \/ Replace(c) \/ RestoreInPlace(c) \/ RestoreFails(c) \/ Snapshot(c)

Next ==
  \/ \E o \in Ops : OpStep(o) \/ AfterStep(o) \/ GuestStep(o)
  \/ \E c \in Ops \cup Restores : Expire(c)
  \/ \E c \in Cancels : CancelStep(c)
  \/ \E c \in Closers : CancelStep(c) \/ TakeLock(c) \/ Close(c)
  \/ \E c \in Restores : RestoreStep(c)

Spec == Init /\ [][Next]_vars

\* Whoever has called goes on; nobody is made to call.  A guest program may run for
\* ever, but it polls the flag again and again, whatever it makes of that, and a host
\* function minds its context.  The lock is a Go channel, whose waiting senders are
\* served in order.
Called(c) == pc[c] # "idle"

Fairness ==
  /\ \A o \in Ops : /\ WF_vars(Called(o) /\ OpStep(o)) /\ WF_vars(AfterStep(o))
                    /\ SF_vars(TakeLock(o))
                    /\ SF_vars(Interrupted(o) \/ Swallows(o)) /\ WF_vars(Resumes(o))
                    /\ WF_vars(HostAborts(o))
  /\ \A c \in Closers : WF_vars(Called(c) /\ CancelStep(c)) /\ SF_vars(TakeLock(c)) /\ WF_vars(Close(c))
  /\ \A c \in Restores : WF_vars(Called(c) /\ RestoreStep(c)) /\ SF_vars(TakeLock(c))

FairSpec == Spec /\ Fairness

-----------------------------------------------------------------------------
TypeOK ==
  /\ lock \in Callers \cup {Nobody}
  /\ rt \in Modules \cup {NoModule} /\ made \in Modules
  /\ trap \in BOOLEAN /\ closed \in BOOLEAN
  /\ pc \in [Callers -> OpPCs \cup OtherPCs]
  /\ \A o \in Ops : pc[o] \in OpPCs
  /\ \A c \in Callers \ Ops : pc[c] \in OtherPCs
  /\ mod \in [Callers -> Modules \cup {NoModule}]
  /\ expired \in SUBSET (Ops \cup Restores)
  /\ after \in [Ops -> {"none", "armed", "stopped", "started", "triggered", "ended"}]
  /\ out \in [Ops -> Answers] /\ answer \in [Callers -> Answers]
  /\ flag \in [Modules -> SUBSET Callers] /\ chan \in [Modules -> SUBSET Callers]
  /\ hits \in SUBSET (Callers \X Ops) /\ before \in [Ops -> SUBSET Callers]
  /\ late \in SUBSET Ops

\* The operations that have the interpreter, as callers see it.
Running == {o \in Ops : pc[o] \in InUse}

Promised == INSTANCE Interpreter WITH
  running <- Running, trapped <- trap, expired <- expired \cap Ops,
  answer <- [o \in Ops |-> answer[o]]

\* The lock, the checks made under it and the order of the deferred calls give
\* what Instance promises: one operation at a time, none on a trapped or closed
\* interpreter, and answers that are true.
KeepsPromise == Promised!Promise

\* The module an operation runs on stays the current one until it has left: it
\* is not closed, replaced or rewound under the guest's feet.
ModuleStaysUnderOperation ==
  \A o \in Ops : pc[o] \in InUse => lock = o /\ mod[o] = rt /\ rt # NoModule

\* The cancellation of one operation's context never stops another operation:
\* run waits for an AfterFunc that has started before it lets the next one in.
OwnCancelStaysHome == \A o, p \in Ops : <<o, p>> \in hits => o = p

\* Once an operation's own cancellation is done, both halves stay up until the
\* operation has left: the flag alone would leave a callback waiting, the
\* channel alone would leave the guest running.
OwnCancelIsWhole ==
  \A o \in Ops :
    after[o] = "ended" /\ pc[o] \in InUse => flag[mod[o]] # {} /\ chan[mod[o]] # {}

\* A Cancel that was over when an operation began is forgotten, both halves of it
\* (Module.Begin: "clearing both halves of the signal"), and one that loaded a module
\* and signals it late interrupts nothing on the module that has replaced it.
StaleCancelsAreForgotten ==
  \A c \in Cancels \cup Closers, o \in Ops :
    <<c, o>> \in hits => mod[c] = mod[o] /\ c \notin before[o]

\* A Cancel interrupts one operation, the one that was current
\* (Instance.Cancel: "does not affect the next operation").
CancelHitsOneOperation ==
  \A c \in Cancels : Cardinality({o \in Ops : <<c, o>> \in hits}) <= 1

\* An attempt made after Close reports ErrClosed, or its own context's error
\* (Instance.Close: "Later execution attempts return [ErrClosed]").
LateOperationsReportClosed ==
  \A o \in late : answer[o] \in {"none", "closed", "cancelled"}

\* What cancellation asks of a program, being best effort (docs/USAGE.md): it stops
\* some time to catch KeyboardInterrupt, and its calls that no context reaches return.
GivesWay(o) == <>[][~Swallows(o)]_vars /\ []<>(pc[o] # "blocked")

\* An operation whose context is done ends, whether it waits for the lock, runs in
\* the guest, sits in a host function, or begins over the Cancel of somebody else;
\* an operation with a program that does not give way may not.
ExpiredOperationsEnd ==
  \A o \in Ops : GivesWay(o) => (o \in expired /\ pc[o] # "idle" ~> pc[o] = "done")

\* The same of every program (docs/USAGE.md: "Pass a context with a deadline to
\* interpreter operations to limit execution").
DeadlinesLimitExecution ==
  \A o \in Ops : o \in expired /\ pc[o] # "idle" ~> pc[o] = "done"

\* Close interrupts what is running, and so it returns when that gives way
\* (Instance.Close: "interrupts active execution and closes the interpreter").
CloseReturns ==
  (\A o \in Ops : GivesWay(o)) => \A c \in Closers : pc[c] = "acquire" ~> pc[c] = "done"
=============================================================================
