-------------------------- MODULE Instance_proofs --------------------------
(***************************************************************************)
(* That api.Instance keeps what it promises, and that the cancellation of  *)
(* one operation stays with it, for every number of callers and modules.   *)
(*                                                                         *)
(* The inductive invariant says who holds the lock where (Locked), what is *)
(* then true of the interpreter (Healthy), how far each AfterFunc can have *)
(* got (AfterInStep), and whose cancellations can stand at the module the  *)
(* holder uses (OwnSignal).                                                *)
(***************************************************************************)
EXTENDS Instance, TLAPS

\* Who is past acquire has the lock.
Locked == \A c \in Callers : pc[c] \in InUse \cup {"check", "holding"} => lock = c

\* The interpreter in use is neither trapped nor closed, and the module is the
\* current one.
Healthy ==
  /\ \A o \in Ops : pc[o] \in InUse => ~trap /\ ~closed /\ mod[o] = rt
  /\ rt = NoModule => closed

\* An answer comes with the end, and is the one fn gave.
AnswersInStep ==
  \A o \in Ops :
    /\ pc[o] # "done" => answer[o] = "none"
    /\ pc[o] \in {"stop", "leave"} =>
         /\ out[o] \in {"value", "interrupted", "trap", "cancelled"}
         /\ out[o] = "cancelled" => o \in expired

AtGuest == {"guest", "callback", "blocked", "caught"}

\* The AfterFunc is registered on the way into the guest, and run does not pass
\* Stop before it has ended or been stopped.
AfterInStep ==
  \A o \in Ops :
    /\ after[o] \in {"armed", "started", "triggered"} => pc[o] \in AtGuest \cup {"stop"}
    /\ after[o] # "none" => pc[o] \in AtGuest \cup {"stop", "leave", "done"}
    /\ pc[o] \in AtGuest \cup {"stop"} => after[o] # "none"

Begun == {"reset", "drain", "stop", "leave"} \cup AtGuest

\* Of all operations' cancellations only the holder's own can stand at its module.
OwnSignal ==
  \A p, q \in Ops :
    /\ pc[p] \in Begun /\ q \in flag[mod[p]] => q = p
    /\ pc[p] \in Begun /\ pc[p] # "reset" /\ q \in chan[mod[p]] => q = p

\* And it stands once it is raised.
OwnSignalStands ==
  \A o \in Ops : pc[o] \in InUse =>
    /\ after[o] \in {"triggered", "ended"} => o \in chan[mod[o]]
    /\ after[o] = "ended" => o \in flag[mod[o]]

\* A Cancel stands at the module that it has loaded.
SignalsHaveLoaded ==
  \A c \in Cancels \cup Closers :
    /\ pc[c] = "idle" => mod[c] = NoModule
    /\ \A m \in Modules : c \in flag[m] \/ c \in chan[m] => mod[c] = m

\* One that was over when an operation began does not stand at its module.
Forgotten ==
  \A o \in Ops : \A c \in before[o] :
    /\ CancelIsOver(c)
    /\ pc[o] \in Begun => c \notin flag[mod[o]]
    /\ pc[o] \in Begun /\ pc[o] # "reset" => c \notin chan[mod[o]]

\* What stops an operation has been called, and stops it in the guest.
HitsInStep ==
  \A c \in Cancels \cup Closers, o \in Ops :
    <<c, o>> \in hits => pc[c] # "idle" /\ pc[o] \in AtGuest \cup {"stop", "leave", "done"}

IInv ==
  /\ TypeOK
  /\ Locked /\ Healthy /\ AnswersInStep /\ AfterInStep
  /\ OwnSignal /\ OwnSignalStands /\ OwnCancelStaysHome
  /\ SignalsHaveLoaded /\ Forgotten /\ HitsInStep /\ StaleCancelsAreForgotten

-----------------------------------------------------------------------------
\* The kinds of callers.
LEMMA Kinds ==
  /\ Ops \subseteq Callers /\ Cancels \subseteq Callers
  /\ Closers \subseteq Callers /\ Restores \subseteq Callers
  /\ Nobody \notin Callers
  /\ \A c \in Cancels \cup Closers \cup Restores : c \notin Ops
  BY InstanceAssumption DEF Callers

\* Nobody has called yet.
LEMMA IInvInit == Init => IInv
<1> SUFFICES ASSUME Init PROVE IInv
  OBVIOUS
<1> USE Kinds DEF Init
<1>1. TypeOK
  <2>1. /\ {} \in SUBSET Callers /\ {} \in SUBSET Ops /\ {} \in SUBSET (Callers \X Ops)
        /\ {} \in SUBSET (Ops \cup Restores)
    OBVIOUS
  <2>2. 1 \in Modules
    BY InstanceAssumption DEF Modules
  <2> QED BY <2>1, <2>2 DEF TypeOK, OpPCs, OtherPCs, Answers
<1>2. Locked /\ Healthy
  BY InstanceAssumption DEF Locked, Healthy, InUse, NoModule
<1>3. AnswersInStep /\ AfterInStep /\ OwnSignal /\ OwnSignalStands /\ OwnCancelStaysHome
  BY DEF AnswersInStep, AfterInStep, OwnSignal, AtGuest, Begun, OwnSignalStands, InUse, OwnCancelStaysHome
<1>4. SignalsHaveLoaded /\ Forgotten /\ HitsInStep /\ StaleCancelsAreForgotten
  BY DEF SignalsHaveLoaded, Forgotten, HitsInStep, StaleCancelsAreForgotten
<1> QED BY <1>1, <1>2, <1>3, <1>4 DEF IInv

\* The lock changes hands in TakeLock and at the end only.
LEMMA LockedNext == TypeOK /\ Locked /\ Next => Locked'
<1> SUFFICES ASSUME TypeOK, Locked, Next PROVE Locked'
  OBVIOUS
<1> USE Kinds DEF TypeOK, Locked, InUse, AtGuest, OpPCs, OtherPCs, Acquire, Return, FnReturns, AfterLock, AfterCancel, Trigger, SetFlag, signal
<1>1. ASSUME NEW o \in Ops, OpStep(o) PROVE Locked'
  BY <1>1 DEF OpStep, Enter, TakeLock, GiveUp, Check, Begin, ResetSignal, Arm, DrainTraps, Stop, Leave
<1>2. ASSUME NEW o \in Ops, AfterStep(o) \/ GuestStep(o) PROVE Locked'
  BY <1>2 DEF AfterStep, AfterStarts, AfterTriggers, AfterEnds,
     GuestStep, GuestReturns, GuestTraps, Polls, Interrupted, Swallows, Resumes,
     CallHost, HostReturns, HostAborts, Blocks, Unblocks
<1>e. ASSUME NEW c \in Ops \cup Restores, Expire(c) PROVE Locked'
  BY <1>e DEF Expire
<1>3. ASSUME NEW c \in Cancels \cup Closers, CancelStep(c) PROVE Locked'
  BY <1>3 DEF CancelStep, CancelLoads, CancelTriggers, CancelStores
<1>4. ASSUME NEW c \in Closers, TakeLock(c) \/ Close(c) PROVE Locked'
  BY <1>4 DEF TakeLock, Close
<1>5. ASSUME NEW c \in Restores, RestoreStep(c) PROVE Locked'
  BY <1>5 DEF RestoreStep, RestoreEnters, TakeLock, GiveUp, RestoreRefused, Replace, RestoreInPlace,
     RestoreFails, Snapshot
<1> QED BY <1>1, <1>2, <1>e, <1>3, <1>4, <1>5 DEF Next

\* Close, Reset and Restore hold the lock.
LEMMA HealthyNext == TypeOK /\ Locked /\ Healthy /\ Next => Healthy'
<1> SUFFICES ASSUME TypeOK, Locked, Healthy, Next PROVE Healthy'
  OBVIOUS
<1> USE Kinds DEF TypeOK, Locked, Healthy, Modules, NoModule, InUse, AtGuest, OpPCs, OtherPCs, Acquire, Return, FnReturns, AfterLock, AfterCancel, Trigger, SetFlag, signal
<1>1. ASSUME NEW o \in Ops, OpStep(o) PROVE Healthy'
  BY <1>1 DEF OpStep, Enter, TakeLock, GiveUp, Check, Begin, ResetSignal, Arm, DrainTraps, Stop, Leave
<1>2. ASSUME NEW o \in Ops, AfterStep(o) \/ GuestStep(o) PROVE Healthy'
  BY <1>2 DEF AfterStep, AfterStarts, AfterTriggers, AfterEnds,
     GuestStep, GuestReturns, GuestTraps, Polls, Interrupted, Swallows, Resumes,
     CallHost, HostReturns, HostAborts, Blocks, Unblocks
<1>e. ASSUME NEW c \in Ops \cup Restores, Expire(c) PROVE Healthy'
  BY <1>e DEF Expire
<1>3. ASSUME NEW c \in Cancels \cup Closers, CancelStep(c) PROVE Healthy'
  BY <1>3 DEF CancelStep, CancelLoads, CancelTriggers, CancelStores
<1>4. ASSUME NEW c \in Closers, TakeLock(c) \/ Close(c) PROVE Healthy'
  BY <1>4 DEF TakeLock, Close
<1>5. ASSUME NEW c \in Restores, RestoreStep(c) PROVE Healthy'
  BY <1>5 DEF RestoreStep, RestoreEnters, TakeLock, GiveUp, RestoreRefused, Replace, RestoreInPlace,
     RestoreFails, Snapshot
<1> QED BY <1>1, <1>2, <1>e, <1>3, <1>4, <1>5 DEF Next

\* fn gives one of four results, cancelled only under a context that is done.
LEMMA AnswersNext == TypeOK /\ AnswersInStep /\ Next => AnswersInStep'
<1> SUFFICES ASSUME TypeOK, AnswersInStep, Next PROVE AnswersInStep'
  OBVIOUS
<1> USE Kinds DEF TypeOK, AnswersInStep, InUse, AtGuest, OpPCs, OtherPCs, Acquire, Return, FnReturns, AfterLock, AfterCancel, Trigger, SetFlag, signal
<1>1. ASSUME NEW o \in Ops, OpStep(o) PROVE AnswersInStep'
  BY <1>1 DEF OpStep, Enter, TakeLock, GiveUp, Check, Begin, ResetSignal, Arm, DrainTraps, Stop, Leave
<1>2. ASSUME NEW o \in Ops, AfterStep(o) \/ GuestStep(o) PROVE AnswersInStep'
  BY <1>2 DEF AfterStep, AfterStarts, AfterTriggers, AfterEnds,
     GuestStep, GuestReturns, GuestTraps, Polls, Interrupted, Swallows, Resumes,
     CallHost, HostReturns, HostAborts, Blocks, Unblocks
<1>e. ASSUME NEW c \in Ops \cup Restores, Expire(c) PROVE AnswersInStep'
  BY <1>e DEF Expire
<1>3. ASSUME NEW c \in Cancels \cup Closers, CancelStep(c) PROVE AnswersInStep'
  BY <1>3 DEF CancelStep, CancelLoads, CancelTriggers, CancelStores
<1>4. ASSUME NEW c \in Closers, TakeLock(c) \/ Close(c) PROVE AnswersInStep'
  BY <1>4 DEF TakeLock, Close
<1>5. ASSUME NEW c \in Restores, RestoreStep(c) PROVE AnswersInStep'
  BY <1>5 DEF RestoreStep, RestoreEnters, TakeLock, GiveUp, RestoreRefused, Replace, RestoreInPlace,
     RestoreFails, Snapshot
<1> QED BY <1>1, <1>2, <1>e, <1>3, <1>4, <1>5 DEF Next

\* Stop waits.
LEMMA AfterNext == TypeOK /\ AfterInStep /\ Next => AfterInStep'
<1> SUFFICES ASSUME TypeOK, AfterInStep, Next PROVE AfterInStep'
  OBVIOUS
<1> USE Kinds DEF TypeOK, AfterInStep, InUse, AtGuest, OpPCs, OtherPCs, Acquire, Return, FnReturns, AfterLock, AfterCancel, Trigger, SetFlag, signal
<1>1. ASSUME NEW o \in Ops, OpStep(o) PROVE AfterInStep'
  BY <1>1 DEF OpStep, Enter, TakeLock, GiveUp, Check, Begin, ResetSignal, Arm, DrainTraps, Stop, Leave
<1>2. ASSUME NEW o \in Ops, AfterStep(o) \/ GuestStep(o) PROVE AfterInStep'
  BY <1>2 DEF AfterStep, AfterStarts, AfterTriggers, AfterEnds,
     GuestStep, GuestReturns, GuestTraps, Polls, Interrupted, Swallows, Resumes,
     CallHost, HostReturns, HostAborts, Blocks, Unblocks
<1>e. ASSUME NEW c \in Ops \cup Restores, Expire(c) PROVE AfterInStep'
  BY <1>e DEF Expire
<1>3. ASSUME NEW c \in Cancels \cup Closers, CancelStep(c) PROVE AfterInStep'
  BY <1>3 DEF CancelStep, CancelLoads, CancelTriggers, CancelStores
<1>4. ASSUME NEW c \in Closers, TakeLock(c) \/ Close(c) PROVE AfterInStep'
  BY <1>4 DEF TakeLock, Close
<1>5. ASSUME NEW c \in Restores, RestoreStep(c) PROVE AfterInStep'
  BY <1>5 DEF RestoreStep, RestoreEnters, TakeLock, GiveUp, RestoreRefused, Replace, RestoreInPlace,
     RestoreFails, Snapshot
<1> QED BY <1>1, <1>2, <1>e, <1>3, <1>4, <1>5 DEF Next

\* Who is in use has the lock and the current module.
LEMMA HolderFacts ==
  IInv => /\ \A o \in Ops : pc[o] \in InUse => lock = o /\ mod[o] = rt
          /\ \A o \in Ops : pc[o] \in InUse => rt \in Modules /\ ~closed /\ ~trap
          /\ \A c \in Callers : pc[c] \in {"check", "holding"} => lock = c
          /\ ~closed => rt \in Modules
          /\ DOMAIN pc = Callers /\ DOMAIN mod = Callers /\ DOMAIN after = Ops
          /\ flag \in [Modules -> SUBSET Callers] /\ chan \in [Modules -> SUBSET Callers]
          /\ \A o \in Ops : pc[o] \in OpPCs
  BY Kinds DEF IInv, TypeOK, Locked, Healthy

\* Begin clears what others have raised, and no other AfterFunc is left to raise it.
LEMMA OwnSignalNext == IInv /\ Next => OwnSignal'
<1> SUFFICES ASSUME IInv, Next, NEW p \in Ops, NEW q \in Ops
             PROVE  /\ (pc[p] \in Begun /\ q \in flag[mod[p]] => q = p)'
                    /\ (pc[p] \in Begun /\ pc[p] # "reset" /\ q \in chan[mod[p]] => q = p)'
  BY DEF OwnSignal
<1> DEFINE G == /\ (pc[p] \in Begun /\ q \in flag[mod[p]] => q = p)'
                /\ (pc[p] \in Begun /\ pc[p] # "reset" /\ q \in chan[mod[p]] => q = p)'
<1>a. /\ pc[p] \in Begun /\ q \in flag[mod[p]] => q = p
      /\ pc[p] \in Begun /\ pc[p] # "reset" /\ q \in chan[mod[p]] => q = p
      /\ AfterInStep
  BY DEF IInv, OwnSignal
<1> USE Kinds, HolderFacts, <1>a DEF Begun, InUse, AtGuest, OpPCs, AfterInStep, Acquire, Return, FnReturns, AfterLock, AfterCancel, Trigger, SetFlag, signal
<1>1. ASSUME NEW o \in Ops, OpStep(o) PROVE G
  <2>1. CASE Enter(o) \/ GiveUp(o) \/ Arm(o) \/ DrainTraps(o) \/ Stop(o) \/ Leave(o)
    BY <2>1 DEF Enter, GiveUp, Arm, DrainTraps, Stop, Leave
  <2>2. CASE TakeLock(o)
    BY <2>2 DEF TakeLock
  <2>3. CASE Check(o)
    BY <2>3 DEF Check
  <2>4. CASE Begin(o)
    BY <2>4 DEF Begin
  <2>5. CASE ResetSignal(o)
    BY <2>5 DEF ResetSignal
  <2> QED BY <1>1, <2>1, <2>2, <2>3, <2>4, <2>5 DEF OpStep
<1>2. ASSUME NEW o \in Ops, AfterStep(o) PROVE G
  <2>1. CASE AfterStarts(o)
    BY <2>1 DEF AfterStarts
  <2>2. CASE AfterTriggers(o)
    BY <2>2 DEF AfterTriggers
  <2>3. CASE AfterEnds(o)
    BY <2>3 DEF AfterEnds
  <2> QED BY <1>2, <2>1, <2>2, <2>3 DEF AfterStep
<1>3. ASSUME NEW o \in Ops, GuestStep(o) PROVE G
  BY <1>3 DEF GuestStep, GuestReturns, GuestTraps, Polls, Interrupted, Swallows, Resumes,
     CallHost, HostReturns, HostAborts, Blocks, Unblocks
<1>4. ASSUME NEW c \in Ops \cup Restores, Expire(c) PROVE G
  BY <1>4 DEF Expire
<1>5. ASSUME NEW c \in Cancels \cup Closers, CancelStep(c) PROVE G
  <2>1. CASE CancelLoads(c)
    BY <2>1 DEF CancelLoads
  <2>2. CASE CancelTriggers(c)
    BY <2>2 DEF CancelTriggers
  <2>3. CASE CancelStores(c)
    BY <2>3 DEF CancelStores
  <2> QED BY <1>5, <2>1, <2>2, <2>3 DEF CancelStep
<1>6. ASSUME NEW c \in Closers, TakeLock(c) \/ Close(c) PROVE G
  <2>1. CASE Close(c)
    BY <2>1 DEF Close
  <2>2. CASE TakeLock(c)
    BY <2>2 DEF TakeLock
  <2> QED BY <1>6, <2>1, <2>2
<1>7. ASSUME NEW c \in Restores, RestoreStep(c) PROVE G
  <2>1. CASE RestoreEnters(c) \/ GiveUp(c) \/ RestoreRefused(c) \/ RestoreFails(c) \/ Snapshot(c)
    BY <2>1 DEF RestoreEnters, GiveUp, RestoreRefused, RestoreFails, Snapshot
  <2>2. CASE TakeLock(c)
    BY <2>2 DEF TakeLock
  <2>3. CASE Replace(c)
    BY <2>3 DEF Replace
  <2>4. CASE RestoreInPlace(c)
    BY <2>4 DEF RestoreInPlace
  <2> QED BY <1>7, <2>1, <2>2, <2>3, <2>4 DEF RestoreStep
<1> QED BY <1>1, <1>2, <1>3, <1>4, <1>5, <1>6, <1>7 DEF Next

\* Only the next Begin takes a signal down.
LEMMA OwnSignalStandsNext == IInv /\ Next => OwnSignalStands'
<1> SUFFICES ASSUME IInv, Next, NEW p \in Ops
             PROVE (pc[p] \in InUse =>
                      /\ after[p] \in {"triggered", "ended"} => p \in chan[mod[p]]
                      /\ after[p] = "ended" => p \in flag[mod[p]])'
  BY DEF OwnSignalStands
<1> DEFINE G == (pc[p] \in InUse =>
                      /\ after[p] \in {"triggered", "ended"} => p \in chan[mod[p]]
                      /\ after[p] = "ended" => p \in flag[mod[p]])'
<1>a. /\ pc[p] \in InUse =>
           /\ after[p] \in {"triggered", "ended"} => p \in chan[mod[p]]
           /\ after[p] = "ended" => p \in flag[mod[p]]
      /\ AfterInStep
  BY DEF IInv, OwnSignalStands
<1> USE Kinds, HolderFacts, <1>a DEF InUse, AtGuest, OpPCs, AfterInStep, Acquire, Return, FnReturns, AfterLock, AfterCancel, Trigger, SetFlag, signal
<1>1. ASSUME NEW o \in Ops, OpStep(o) PROVE G
  <2>1. CASE Enter(o) \/ GiveUp(o) \/ Arm(o) \/ DrainTraps(o) \/ Stop(o) \/ Leave(o)
    BY <2>1 DEF Enter, GiveUp, Arm, DrainTraps, Stop, Leave
  <2>2. CASE TakeLock(o)
    BY <2>2 DEF TakeLock
  <2>3. CASE Check(o)
    BY <2>3 DEF Check
  <2>4. CASE Begin(o)
    BY <2>4 DEF Begin
  <2>5. CASE ResetSignal(o)
    BY <2>5 DEF ResetSignal
  <2> QED BY <1>1, <2>1, <2>2, <2>3, <2>4, <2>5 DEF OpStep
<1>2. ASSUME NEW o \in Ops, AfterStep(o) PROVE G
  <2>1. CASE AfterStarts(o)
    BY <2>1 DEF AfterStarts
  <2>2. CASE AfterTriggers(o)
    BY <2>2 DEF AfterTriggers
  <2>3. CASE AfterEnds(o)
    BY <2>3 DEF AfterEnds
  <2> QED BY <1>2, <2>1, <2>2, <2>3 DEF AfterStep
<1>3. ASSUME NEW o \in Ops, GuestStep(o) PROVE G
  BY <1>3 DEF GuestStep, GuestReturns, GuestTraps, Polls, Interrupted, Swallows, Resumes,
     CallHost, HostReturns, HostAborts, Blocks, Unblocks
<1>4. ASSUME NEW c \in Ops \cup Restores, Expire(c) PROVE G
  BY <1>4 DEF Expire
<1>5. ASSUME NEW c \in Cancels \cup Closers, CancelStep(c) PROVE G
  <2>1. CASE CancelLoads(c)
    BY <2>1 DEF CancelLoads
  <2>2. CASE CancelTriggers(c)
    BY <2>2 DEF CancelTriggers
  <2>3. CASE CancelStores(c)
    BY <2>3 DEF CancelStores
  <2> QED BY <1>5, <2>1, <2>2, <2>3 DEF CancelStep
<1>6. ASSUME NEW c \in Closers, TakeLock(c) \/ Close(c) PROVE G
  <2>1. CASE Close(c)
    BY <2>1 DEF Close
  <2>2. CASE TakeLock(c)
    BY <2>2 DEF TakeLock
  <2> QED BY <1>6, <2>1, <2>2
<1>7. ASSUME NEW c \in Restores, RestoreStep(c) PROVE G
  <2>1. CASE RestoreEnters(c) \/ GiveUp(c) \/ RestoreRefused(c) \/ RestoreFails(c) \/ Snapshot(c)
    BY <2>1 DEF RestoreEnters, GiveUp, RestoreRefused, RestoreFails, Snapshot
  <2>2. CASE TakeLock(c)
    BY <2>2 DEF TakeLock
  <2>3. CASE Replace(c)
    BY <2>3 DEF Replace
  <2>4. CASE RestoreInPlace(c)
    BY <2>4 DEF RestoreInPlace
  <2> QED BY <1>7, <2>1, <2>2, <2>3, <2>4 DEF RestoreStep
<1> QED BY <1>1, <1>2, <1>3, <1>4, <1>5, <1>6, <1>7 DEF Next

\* What stops an operation is its own.
LEMMA OwnCancelNext == IInv /\ Next => OwnCancelStaysHome'
<1> SUFFICES ASSUME IInv, Next PROVE OwnCancelStaysHome'
  OBVIOUS
<1> USE Kinds DEF IInv, TypeOK, OwnSignal, Begun, OwnCancelStaysHome, InUse, AtGuest, OpPCs, OtherPCs, Acquire, Return, FnReturns, AfterLock, AfterCancel, Trigger, SetFlag, signal
<1>1. ASSUME NEW o \in Ops, OpStep(o) PROVE OwnCancelStaysHome'
  BY <1>1 DEF OpStep, Enter, TakeLock, GiveUp, Check, Begin, ResetSignal, Arm, DrainTraps, Stop, Leave
<1>2. ASSUME NEW o \in Ops, AfterStep(o) \/ GuestStep(o) PROVE OwnCancelStaysHome'
  BY <1>2 DEF AfterStep, AfterStarts, AfterTriggers, AfterEnds,
     GuestStep, GuestReturns, GuestTraps, Polls, Interrupted, Swallows, Resumes,
     CallHost, HostReturns, HostAborts, Blocks, Unblocks
<1>e. ASSUME NEW c \in Ops \cup Restores, Expire(c) PROVE OwnCancelStaysHome'
  BY <1>e DEF Expire
<1>3. ASSUME NEW c \in Cancels \cup Closers, CancelStep(c) PROVE OwnCancelStaysHome'
  BY <1>3 DEF CancelStep, CancelLoads, CancelTriggers, CancelStores
<1>4. ASSUME NEW c \in Closers, TakeLock(c) \/ Close(c) PROVE OwnCancelStaysHome'
  BY <1>4 DEF TakeLock, Close
<1>5. ASSUME NEW c \in Restores, RestoreStep(c) PROVE OwnCancelStaysHome'
  BY <1>5 DEF RestoreStep, RestoreEnters, TakeLock, GiveUp, RestoreRefused, Replace, RestoreInPlace,
     RestoreFails, Snapshot
<1> QED BY <1>1, <1>2, <1>e, <1>3, <1>4, <1>5 DEF Next

\* A Cancel raises a signal at the module that it has loaded, and loads once.
LEMMA LoadedNext == IInv /\ Next => SignalsHaveLoaded'
<1> SUFFICES ASSUME IInv, Next, NEW k \in Cancels \cup Closers
             PROVE  /\ (pc[k] = "idle" => mod[k] = NoModule)'
                    /\ \A m \in Modules : (k \in flag[m] \/ k \in chan[m] => mod[k] = m)'
  BY DEF SignalsHaveLoaded, Modules
<1> DEFINE G == /\ (pc[k] = "idle" => mod[k] = NoModule)'
                /\ \A m \in Modules : (k \in flag[m] \/ k \in chan[m] => mod[k] = m)'
<1>a. /\ pc[k] = "idle" => mod[k] = NoModule
      /\ \A m \in Modules : k \in flag[m] \/ k \in chan[m] => mod[k] = m
      /\ k \in Callers /\ k \notin Ops /\ k \notin Restores
      /\ DOMAIN pc = Callers /\ DOMAIN mod = Callers /\ DOMAIN flag = Modules /\ DOMAIN chan = Modules
  BY Kinds, InstanceAssumption DEF IInv, TypeOK, SignalsHaveLoaded
<1>n. NoModule \notin Modules
  BY DEF Modules, NoModule
<1> USE Kinds, <1>a DEF Acquire, Return, FnReturns, AfterLock, AfterCancel, Trigger, SetFlag, signal
<1>1. ASSUME NEW o \in Ops, OpStep(o) PROVE G
  <2>1. CASE Begin(o) \/ ResetSignal(o)
    BY <2>1 DEF Begin, ResetSignal
  <2>2. CASE Check(o)
    BY <2>2 DEF Check
  <2>3. CASE Enter(o) \/ TakeLock(o) \/ GiveUp(o) \/ Arm(o) \/ DrainTraps(o) \/ Stop(o) \/ Leave(o)
    BY <2>3 DEF Enter, TakeLock, GiveUp, Arm, DrainTraps, Stop, Leave
  <2> QED BY <1>1, <2>1, <2>2, <2>3 DEF OpStep
<1>2. ASSUME NEW o \in Ops, AfterStep(o) PROVE G
  BY <1>2 DEF AfterStep, AfterStarts, AfterTriggers, AfterEnds
<1>3. ASSUME NEW o \in Ops, GuestStep(o) PROVE G
  BY <1>3 DEF GuestStep, GuestReturns, GuestTraps, Polls, Interrupted, Swallows, Resumes,
     CallHost, HostReturns, HostAborts, Blocks, Unblocks
<1>4. ASSUME NEW c \in Ops \cup Restores, Expire(c) PROVE G
  BY <1>4 DEF Expire
<1>5. ASSUME NEW c \in Cancels \cup Closers, CancelStep(c) PROVE G
  <2>1. CASE CancelLoads(c)
    BY <2>1, <1>n DEF CancelLoads
  <2>2. CASE CancelTriggers(c)
    BY <2>2 DEF CancelTriggers
  <2>3. CASE CancelStores(c)
    BY <2>3 DEF CancelStores
  <2> QED BY <1>5, <2>1, <2>2, <2>3 DEF CancelStep
<1>6. ASSUME NEW c \in Closers, TakeLock(c) \/ Close(c) PROVE G
  BY <1>6 DEF TakeLock, Close
<1>7. ASSUME NEW c \in Restores, RestoreStep(c) PROVE G
  BY <1>7 DEF RestoreStep, RestoreEnters, TakeLock, GiveUp, RestoreRefused, Replace,
     RestoreInPlace, RestoreFails, Snapshot
<1> QED BY <1>1, <1>2, <1>3, <1>4, <1>5, <1>6, <1>7 DEF Next

\* Begin takes down what was raised before, and nobody raises it again.
LEMMA ForgottenNext == IInv /\ Next => Forgotten'
<1> SUFFICES ASSUME IInv, Next, NEW p \in Ops, NEW k \in before'[p]
             PROVE  /\ CancelIsOver(k)'
                    /\ (pc[p] \in Begun => k \notin flag[mod[p]])'
                    /\ (pc[p] \in Begun /\ pc[p] # "reset" => k \notin chan[mod[p]])'
  BY DEF Forgotten
<1> DEFINE G == /\ CancelIsOver(k)'
                /\ (pc[p] \in Begun => k \notin flag[mod[p]])'
                /\ (pc[p] \in Begun /\ pc[p] # "reset" => k \notin chan[mod[p]])'
<1>a. k \in before[p] =>
        /\ CancelIsOver(k)
        /\ pc[p] \in Begun => k \notin flag[mod[p]]
        /\ pc[p] \in Begun /\ pc[p] # "reset" => k \notin chan[mod[p]]
  BY DEF IInv, Forgotten
<1>b. DOMAIN before = Ops /\ pc[p] \in OpPCs /\ (pc[p] \in Begun => pc[p] \in InUse)
  BY DEF IInv, TypeOK, Begun, AtGuest, InUse
<1> USE Kinds, HolderFacts, InstanceAssumption, <1>b
    DEF CancelIsOver, Begun, AtGuest, Acquire, Return, FnReturns, AfterLock, AfterCancel, Trigger, SetFlag, signal
<1>1. ASSUME NEW o \in Ops, OpStep(o) PROVE G
  <2>1. CASE Begin(o)
    BY <2>1, <1>a DEF Begin, InUse
  <2>2. CASE ResetSignal(o)
    BY <2>2, <1>a DEF ResetSignal, InUse
  <2>3. CASE Check(o)
    BY <2>3, <1>a DEF Check
  <2>4. CASE Enter(o) \/ TakeLock(o) \/ GiveUp(o) \/ Arm(o) \/ DrainTraps(o) \/ Stop(o) \/ Leave(o)
    BY <2>4, <1>a DEF Enter, TakeLock, GiveUp, Arm, DrainTraps, Stop, Leave
  <2> QED BY <1>1, <2>1, <2>2, <2>3, <2>4 DEF OpStep
<1>2. ASSUME NEW o \in Ops, AfterStep(o) PROVE G
  BY <1>2, <1>a DEF AfterStep, AfterStarts, AfterTriggers, AfterEnds
<1>3. ASSUME NEW o \in Ops, GuestStep(o) PROVE G
  BY <1>3, <1>a DEF GuestStep, GuestReturns, GuestTraps, Polls, Interrupted, Swallows, Resumes,
     CallHost, HostReturns, HostAborts, Blocks, Unblocks
<1>4. ASSUME NEW c \in Ops \cup Restores, Expire(c) PROVE G
  BY <1>4, <1>a DEF Expire
<1>5. ASSUME NEW c \in Cancels \cup Closers, CancelStep(c) PROVE G
  <2>1. CASE CancelLoads(c)
    BY <2>1, <1>a DEF CancelLoads
  <2>2. CASE CancelTriggers(c)
    BY <2>2, <1>a DEF CancelTriggers
  <2>3. CASE CancelStores(c)
    BY <2>3, <1>a DEF CancelStores
  <2> QED BY <1>5, <2>1, <2>2, <2>3 DEF CancelStep
<1>6. ASSUME NEW c \in Closers, TakeLock(c) \/ Close(c) PROVE G
  BY <1>6, <1>a DEF TakeLock, Close
<1>7. ASSUME NEW c \in Restores, RestoreStep(c) PROVE G
  BY <1>7, <1>a DEF RestoreStep, RestoreEnters, TakeLock, GiveUp, RestoreRefused, Replace,
     RestoreInPlace, RestoreFails, Snapshot
<1> QED BY <1>1, <1>2, <1>3, <1>4, <1>5, <1>6, <1>7 DEF Next

\* Who stands at a module has called.
LEMMA HitsNext == IInv /\ Next => HitsInStep'
<1> SUFFICES ASSUME IInv, Next, NEW k \in Cancels \cup Closers, NEW p \in Ops, <<k, p>> \in hits'
             PROVE  pc'[k] # "idle" /\ pc'[p] \in AtGuest \cup {"stop", "leave", "done"}
  BY DEF HitsInStep
<1> DEFINE G == pc'[k] # "idle" /\ pc'[p] \in AtGuest \cup {"stop", "leave", "done"}
<1>a. <<k, p>> \in hits => pc[k] # "idle" /\ pc[p] \in AtGuest \cup {"stop", "leave", "done"}
  BY DEF IInv, HitsInStep
<1>b. ASSUME NEW m \in Modules, k \in flag[m] \/ k \in chan[m] PROVE pc[k] # "idle"
  BY <1>b DEF IInv, SignalsHaveLoaded, Modules, NoModule
<1>c. k \in Callers /\ p \in Callers /\ k # p /\ DOMAIN pc = Callers
  BY Kinds, HolderFacts
<1> USE Kinds, <1>a, <1>c DEF AtGuest, Acquire, Return, FnReturns, AfterLock, AfterCancel, Trigger, SetFlag, signal
<1>1. ASSUME NEW o \in Ops, OpStep(o) PROVE G
  BY <1>1 DEF OpStep, Enter, TakeLock, GiveUp, Check, Begin, ResetSignal, Arm, DrainTraps, Stop, Leave
<1>2. ASSUME NEW o \in Ops, AfterStep(o) PROVE G
  BY <1>2 DEF AfterStep, AfterStarts, AfterTriggers, AfterEnds
<1>3. ASSUME NEW o \in Ops, GuestStep(o) PROVE G
  <2>1. pc[o] \in {"guest", "callback"} => mod[o] \in Modules
    BY HolderFacts DEF InUse
  <2>2. CASE Polls(o)
    <3>1. <<k, p>> \notin hits => p = o /\ k \in flag[mod[o]]
      BY <2>2 DEF Polls
    <3>2. pc[k] # "idle"
      BY <1>b, <2>1, <2>2, <3>1 DEF Polls
    <3> QED BY <1>3, <2>2, <3>1, <3>2 DEF GuestStep, GuestReturns, GuestTraps, Polls, Interrupted,
               Swallows, Resumes, CallHost, HostReturns, HostAborts, Blocks, Unblocks
  <2>3. CASE HostAborts(o)
    <3>1. <<k, p>> \notin hits => p = o /\ k \in chan[mod[o]]
      BY <2>3 DEF HostAborts
    <3>2. pc[k] # "idle"
      BY <1>b, <2>1, <2>3, <3>1 DEF HostAborts
    <3> QED BY <2>3, <3>1, <3>2 DEF HostAborts
  <2>4. CASE ~Polls(o) /\ ~HostAborts(o)
    BY <1>3, <2>4 DEF GuestStep, GuestReturns, GuestTraps, Interrupted, Swallows, Resumes,
       CallHost, HostReturns, Blocks, Unblocks
  <2> QED BY <2>2, <2>3, <2>4
<1>4. ASSUME NEW c \in Ops \cup Restores, Expire(c) PROVE G
  BY <1>4 DEF Expire
<1>5. ASSUME NEW c \in Cancels \cup Closers, CancelStep(c) PROVE G
  BY <1>5 DEF CancelStep, CancelLoads, CancelTriggers, CancelStores
<1>6. ASSUME NEW c \in Closers, TakeLock(c) \/ Close(c) PROVE G
  BY <1>6 DEF TakeLock, Close
<1>7. ASSUME NEW c \in Restores, RestoreStep(c) PROVE G
  BY <1>7, InstanceAssumption DEF RestoreStep, RestoreEnters, TakeLock, GiveUp, RestoreRefused,
     Replace, RestoreInPlace, RestoreFails, Snapshot
<1> QED BY <1>1, <1>2, <1>3, <1>4, <1>5, <1>6, <1>7 DEF Next

\* What is acted on stands at the module of the operation and was not there before.
LEMMA StaleNext == IInv /\ Next => StaleCancelsAreForgotten'
<1> SUFFICES ASSUME IInv, Next, NEW k \in Cancels \cup Closers, NEW p \in Ops, <<k, p>> \in hits'
             PROVE  mod'[k] = mod'[p] /\ k \notin before'[p]
  BY DEF StaleCancelsAreForgotten
<1> DEFINE G == mod'[k] = mod'[p] /\ k \notin before'[p]
<1>a. <<k, p>> \in hits => /\ mod[k] = mod[p] /\ k \notin before[p]
                           /\ pc[k] # "idle" /\ pc[p] \in AtGuest \cup {"stop", "leave", "done"}
  BY DEF IInv, HitsInStep, StaleCancelsAreForgotten
<1>c. /\ k \in Callers /\ p \in Callers /\ k # p
      /\ DOMAIN pc = Callers /\ DOMAIN mod = Callers /\ DOMAIN before = Ops
  BY Kinds, HolderFacts DEF IInv, TypeOK
<1> USE Kinds, <1>a, <1>c DEF AtGuest, Acquire, Return, FnReturns, AfterLock, AfterCancel, Trigger, SetFlag, signal
<1>1. ASSUME NEW o \in Ops, OpStep(o) PROVE G
  BY <1>1 DEF OpStep, Enter, TakeLock, GiveUp, Check, Begin, ResetSignal, Arm, DrainTraps, Stop, Leave
<1>2. ASSUME NEW o \in Ops, AfterStep(o) PROVE G
  BY <1>2 DEF AfterStep, AfterStarts, AfterTriggers, AfterEnds
<1>3. ASSUME NEW o \in Ops, GuestStep(o) PROVE G
  <2>1. pc[o] \in {"guest", "callback"} => mod[o] \in Modules /\ pc[o] \in Begun /\ pc[o] # "reset"
    BY HolderFacts DEF InUse, Begun
  <2>2. ASSUME pc[o] \in {"guest", "callback"}, k \in flag[mod[o]] \/ k \in chan[mod[o]]
        PROVE  mod[k] = mod[o] /\ k \notin before[o]
    BY <2>1, <2>2 DEF IInv, SignalsHaveLoaded, Forgotten
  <2>3. mod' = mod /\ before' = before
    BY <1>3 DEF GuestStep, GuestReturns, GuestTraps, Interrupted, Swallows, Resumes,
       CallHost, HostReturns, HostAborts, Blocks, Unblocks
  <2>4. CASE Polls(o) \/ HostAborts(o)
    BY <2>2, <2>3, <2>4 DEF Polls, HostAborts
  <2>5. CASE ~Polls(o) /\ ~HostAborts(o)
    BY <1>3, <2>5 DEF GuestStep, GuestReturns, GuestTraps, Interrupted, Swallows, Resumes,
       CallHost, HostReturns, Blocks, Unblocks
  <2> QED BY <2>4, <2>5
<1>4. ASSUME NEW c \in Ops \cup Restores, Expire(c) PROVE G
  BY <1>4 DEF Expire
<1>5. ASSUME NEW c \in Cancels \cup Closers, CancelStep(c) PROVE G
  BY <1>5 DEF CancelStep, CancelLoads, CancelTriggers, CancelStores
<1>6. ASSUME NEW c \in Closers, TakeLock(c) \/ Close(c) PROVE G
  BY <1>6 DEF TakeLock, Close
<1>7. ASSUME NEW c \in Restores, RestoreStep(c) PROVE G
  BY <1>7 DEF RestoreStep, RestoreEnters, TakeLock, GiveUp, RestoreRefused, Replace,
     RestoreInPlace, RestoreFails, Snapshot
<1> QED BY <1>1, <1>2, <1>3, <1>4, <1>5, <1>6, <1>7 DEF Next

\* Every variable keeps its type.
LEMMA TypeNext == IInv /\ Next => TypeOK'
<1> SUFFICES ASSUME IInv, Next PROVE TypeOK'
  OBVIOUS
<1> DEFINE T == TypeOK'
<1>t. TypeOK /\ AfterInStep /\ Healthy
  BY DEF IInv
<1>m. ASSUME NEW m \in Modules \cup {NoModule}, NEW c \in Callers PROVE
        /\ [flag EXCEPT ![m] = @ \cup {c}] \in [Modules -> SUBSET Callers]
        /\ [chan EXCEPT ![m] = @ \cup {c}] \in [Modules -> SUBSET Callers]
        /\ [flag EXCEPT ![m] = {}] \in [Modules -> SUBSET Callers]
        /\ [chan EXCEPT ![m] = {}] \in [Modules -> SUBSET Callers]
  <2>1. ASSUME NEW f \in [Modules -> SUBSET Callers]
        PROVE  /\ [f EXCEPT ![m] = @ \cup {c}] \in [Modules -> SUBSET Callers]
               /\ [f EXCEPT ![m] = {}] \in [Modules -> SUBSET Callers]
    <3>1. {} \in SUBSET Callers /\ (m \in Modules => f[m] \cup {c} \in SUBSET Callers)
      OBVIOUS
    <3> QED BY <3>1
  <2> QED BY <2>1, <1>t DEF TypeOK
<1>h. ASSUME NEW o \in Ops, pc[o] \in InUse PROVE
        /\ hits \cup (flag[mod[o]] \X {o}) \in SUBSET (Callers \X Ops)
        /\ hits \cup (chan[mod[o]] \X {o}) \in SUBSET (Callers \X Ops)
  <2>1. mod[o] \in Modules
    BY <1>h, HolderFacts
  <2>2. flag[mod[o]] \in SUBSET Callers /\ chan[mod[o]] \in SUBSET Callers
    BY <2>1, HolderFacts
  <2> QED BY <2>2, <1>t DEF TypeOK
<1>s. /\ \A c \in Ops \cup Restores : expired \cup {c} \in SUBSET (Ops \cup Restores)
      /\ \A c \in Ops : late \cup {c} \in SUBSET Ops
  BY <1>t DEF TypeOK
<1>b. ASSUME NEW o \in Ops
      PROVE  [before EXCEPT ![o] = {c \in Callers : CancelIsOver(c)}] \in [Ops -> SUBSET Callers]
  <2>1. {c \in Callers : CancelIsOver(c)} \in SUBSET Callers
    OBVIOUS
  <2> QED BY <2>1, <1>t DEF TypeOK
<1> USE Kinds, <1>t, <1>m, <1>s DEF TypeOK, OpPCs, OtherPCs, Answers, InUse, AtGuest, Acquire, Return, FnReturns, AfterLock, AfterCancel, Trigger, SetFlag, signal
<1>1. ASSUME NEW o \in Ops, OpStep(o) PROVE T
  <2>1. CASE Enter(o)
    <3>1. late' \in SUBSET Ops
      BY <2>1 DEF Enter
    <3>2. CASE o \in expired
      <4>1. answer' = [answer EXCEPT ![o] = "cancelled"] /\ pc' = [pc EXCEPT ![o] = "done"]
        BY <2>1, <3>2 DEF Enter, Acquire
      <4>2. answer' \in [Callers -> Answers]
        BY <4>1
      <4> QED BY <2>1, <3>1, <4>1, <4>2 DEF Enter
    <3>3. CASE o \notin expired
      BY <2>1, <3>1, <3>3 DEF Enter
    <3> QED BY <3>2, <3>3
  <2>2. CASE TakeLock(o)
    BY <2>2 DEF TakeLock
  <2>3. CASE GiveUp(o)
    BY <2>3 DEF GiveUp
  <2>4. CASE Check(o)
    <3> DEFINE a == IF trap \/ closed THEN "done" ELSE "begin"
    <3>0. a \in OpPCs
      OBVIOUS
    <3>1. pc' = [pc EXCEPT ![o] = a]
      BY <2>4 DEF Check
    <3> HIDE DEF a
    <3>2. /\ pc' \in [Callers -> OpPCs \cup OtherPCs]
          /\ \A p \in Ops : pc'[p] \in OpPCs
          /\ \A c \in Callers \ Ops : pc'[c] \in OtherPCs
      BY <3>0, <3>1
    <3>3. lock' \in Callers \cup {Nobody} /\ answer' \in [Callers -> Answers]
      BY <2>4 DEF Check
    <3>4. mod' \in [Callers -> Modules \cup {NoModule}]
      BY <2>4 DEF Check
    <3>5. UNCHANGED <<rt, made, trap, closed, expired, after, out, flag, chan, hits, before, late>>
      BY <2>4 DEF Check
    <3> QED BY <3>1, <3>2, <3>3, <3>4, <3>5
  <2>5. CASE Begin(o)
    <3>1. before' \in [Ops -> SUBSET Callers]
      BY <2>5, <1>b DEF Begin
    <3> QED BY <2>5, <3>1 DEF Begin
  <2>6. CASE ResetSignal(o)
    BY <2>6 DEF ResetSignal
  <2>7. CASE Arm(o)
    BY <2>7 DEF Arm
  <2>8. CASE DrainTraps(o)
    BY <2>8 DEF DrainTraps
  <2>9. CASE Stop(o)
    BY <2>9 DEF Stop
  <2>10. CASE Leave(o)
    BY <2>10 DEF Leave
  <2> QED BY <1>1, <2>1, <2>2, <2>3, <2>4, <2>5, <2>6, <2>7, <2>8, <2>9, <2>10 DEF OpStep
<1>2. ASSUME NEW o \in Ops, AfterStep(o) PROVE T
  <2>1. CASE AfterStarts(o)
    BY <2>1 DEF AfterStarts
  <2>2. CASE AfterTriggers(o)
    BY <2>2 DEF AfterTriggers
  <2>3. CASE AfterEnds(o)
    BY <2>3 DEF AfterEnds
  <2> QED BY <1>2, <2>1, <2>2, <2>3 DEF AfterStep
<1>3. ASSUME NEW o \in Ops, GuestStep(o) PROVE T
  <2>1. CASE GuestReturns(o)
    BY <2>1 DEF GuestReturns
  <2>2. CASE GuestTraps(o)
    BY <2>2 DEF GuestTraps
  <2>3. CASE Interrupted(o)
    BY <2>3, <1>h DEF Interrupted, Polls
  <2>4. CASE CallHost(o)
    BY <2>4 DEF CallHost
  <2>5. CASE HostReturns(o)
    BY <2>5 DEF HostReturns
  <2>6. CASE HostAborts(o)
    BY <2>6, <1>h DEF HostAborts
  <2>7. CASE Swallows(o)
    BY <2>7, <1>h DEF Swallows, Polls
  <2>8. CASE Resumes(o)
    BY <2>8 DEF Resumes
  <2>9. CASE Blocks(o)
    BY <2>9 DEF Blocks
  <2>10. CASE Unblocks(o)
    BY <2>10 DEF Unblocks
  <2> HIDE DEF T
  <2> QED BY <1>3, <2>1, <2>2, <2>3, <2>4, <2>5, <2>6, <2>7, <2>8, <2>9, <2>10 DEF GuestStep
<1>4. ASSUME NEW c \in Ops \cup Restores, Expire(c) PROVE T
  BY <1>4 DEF Expire
<1>5. ASSUME NEW c \in Cancels \cup Closers, CancelStep(c) PROVE T
  <2>1. CASE CancelLoads(c)
    BY <2>1 DEF CancelLoads
  <2>2. CASE CancelTriggers(c)
    BY <2>2 DEF CancelTriggers
  <2>3. CASE CancelStores(c)
    BY <2>3 DEF CancelStores
  <2> QED BY <1>5, <2>1, <2>2, <2>3 DEF CancelStep
<1>6. ASSUME NEW c \in Closers, TakeLock(c) \/ Close(c) PROVE T
  <2>1. CASE TakeLock(c)
    BY <2>1 DEF TakeLock
  <2>2. CASE Close(c)
    BY <2>2 DEF Close
  <2> QED BY <1>6, <2>1, <2>2
<1>7. ASSUME NEW c \in Restores, RestoreStep(c) PROVE T
  <2>1. CASE RestoreEnters(c)
    BY <2>1 DEF RestoreEnters
  <2>2. CASE TakeLock(c)
    BY <2>2 DEF TakeLock
  <2>3. CASE RestoreRefused(c)
    BY <2>3 DEF RestoreRefused
  <2>4. CASE Replace(c)
    <3>1. made + 1 \in Modules
      BY <2>4, InstanceAssumption DEF Replace, Modules
    <3>2. rt' \in Modules \cup {NoModule} /\ made' \in Modules /\ trap' \in BOOLEAN
      BY <2>4, <3>1 DEF Replace
    <3>3. lock' \in Callers \cup {Nobody} /\ answer' \in [Callers -> Answers]
      BY <2>4 DEF Replace
    <3>4. pc' = [pc EXCEPT ![c] = "done"] /\ UNCHANGED <<closed, mod, expired, after, out, flag, chan, hits, before, late>>
      BY <2>4 DEF Replace
    <3> QED BY <3>2, <3>3, <3>4
  <2>5. CASE RestoreInPlace(c)
    BY <2>5 DEF RestoreInPlace
  <2>6. CASE RestoreFails(c)
    BY <2>6 DEF RestoreFails
  <2>7. CASE Snapshot(c)
    BY <2>7 DEF Snapshot
  <2>8. CASE GiveUp(c)
    BY <2>8 DEF GiveUp
  <2> QED BY <1>7, <2>1, <2>2, <2>3, <2>4, <2>5, <2>6, <2>7, <2>8 DEF RestoreStep
<1> QED BY <1>1, <1>2, <1>3, <1>4, <1>5, <1>6, <1>7 DEF Next

\* Every step keeps the invariant.
LEMMA IInvNext == IInv /\ [Next]_vars => IInv'
<1> SUFFICES ASSUME IInv, [Next]_vars PROVE IInv'
  OBVIOUS
<1>1. CASE Next
  <2>1. TypeOK /\ Locked /\ Healthy /\ AnswersInStep /\ AfterInStep
    BY DEF IInv
  <2> QED BY <1>1, <2>1, TypeNext, LockedNext, HealthyNext, AnswersNext, AfterNext,
             OwnSignalNext, OwnSignalStandsNext, OwnCancelNext, LoadedNext, ForgottenNext,
             HitsNext, StaleNext DEF IInv
<1>2. CASE UNCHANGED vars
  BY <1>2 DEF vars, signal, IInv, TypeOK, Locked, Healthy, AnswersInStep, AfterInStep,
     OwnSignal, OwnSignalStands, OwnCancelStaysHome, SignalsHaveLoaded, Forgotten,
     CancelIsOver, HitsInStep, StaleCancelsAreForgotten
<1> QED BY <1>1, <1>2

\* The invariant holds throughout.
THEOREM InstanceInductive == Spec => []IInv
BY IInvInit, IInvNext, PTL DEF Spec

\* Every variable has its type, whatever the callers and however many modules.
THEOREM InstanceTypeCorrect == Spec => []TypeOK
<1>1. IInv => TypeOK
  BY DEF IInv
<1> QED BY <1>1, InstanceInductive, PTL

\* The module an operation runs on is the current one until it has left
\* (run, Close and Restore share one lock).
THEOREM InstanceKeepsModule == Spec => []ModuleStaysUnderOperation
<1>1. IInv => ModuleStaysUnderOperation
  BY HolderFacts, InstanceAssumption DEF ModuleStaysUnderOperation, Modules, NoModule
<1> QED BY <1>1, InstanceInductive, PTL

\* The end of one operation's context stops no other operation (run waits for
\* an AfterFunc that has started).
THEOREM InstanceCancelStaysHome == Spec => []OwnCancelStaysHome
<1>1. IInv => OwnCancelStaysHome
  BY DEF IInv
<1> QED BY <1>1, InstanceInductive, PTL

\* The end of an operation's context raises the flag and the channel, and both
\* stay up until the operation has left (Module.Cancel, Module.Begin).
THEOREM InstanceCancelIsWhole == Spec => []OwnCancelIsWhole
<1>1. IInv => OwnCancelIsWhole
  BY DEF IInv, OwnSignalStands, OwnCancelIsWhole
<1> QED BY <1>1, InstanceInductive, PTL

\* A Cancel that was over when an operation began, or that signals a module which
\* has been replaced, interrupts nothing (Module.Begin clears both halves).
THEOREM InstanceForgetsStaleCancels == Spec => []StaleCancelsAreForgotten
<1>1. IInv => StaleCancelsAreForgotten
  BY DEF IInv
<1> QED BY <1>1, InstanceInductive, PTL

-----------------------------------------------------------------------------
\* No operation runs before the first call.
LEMMA InitKept == Init => Promised!PromiseInit
BY Kinds DEF Init, Promised!PromiseInit, Running, InUse

\* The operation that holds the lock is the only one that can be running.
LEMMA OneRunning ==
  IInv => /\ \A c \in Callers : lock = c => Running \subseteq {c}
          /\ \A c \in Callers : lock = c /\ c \notin Ops => Running = {}
          /\ \A o \in Ops : lock = o /\ pc[o] \notin InUse => Running = {}
  BY HolderFacts, Kinds DEF Running

\* A step that moves no operation in or out of the interpreter and changes
\* nothing else that callers see.
LEMMA Unseen ==
  ASSUME \A o \in Ops : pc[o] \in InUse <=> pc'[o] \in InUse,
         \A o \in Ops : answer'[o] = answer[o],
         UNCHANGED <<trap, closed, expired>>
  PROVE  UNCHANGED Promised!promise
<1>1. Running' = Running
  BY DEF Running
<1>2. [o \in Ops |-> answer'[o]] = [o \in Ops |-> answer[o]]
  OBVIOUS
<1> QED BY <1>1, <1>2 DEF Promised!promise

\* Every step of an instance is one step of the promise, or shows nothing of it:
\* Check starts or refuses, Leave finishes, Close shuts and Restore revives.
LEMMA StepKept == IInv /\ Next => [Promised!PromiseNext]_Promised!promise
<1> SUFFICES ASSUME IInv, Next PROVE Promised!PromiseNext \/ UNCHANGED Promised!promise
  OBVIOUS
<1> DEFINE G == Promised!PromiseNext \/ UNCHANGED Promised!promise
           Seen == [o \in Ops |-> answer[o]]
<1>a. /\ AnswersInStep
      /\ answer \in [Callers -> Answers] /\ DOMAIN answer = Callers
      /\ \A o \in Ops : answer[o] = Seen[o]
  BY Kinds DEF IInv, TypeOK
<1>f. ASSUME NEW o \in Ops, NEW a, answer' = [answer EXCEPT ![o] = a]
      PROVE  Seen' = [Seen EXCEPT ![o] = a]
  BY <1>f, <1>a, Kinds
<1>1. ASSUME NEW o \in Ops, OpStep(o) PROVE G
  <2>1. CASE Enter(o)
    <3>1. CASE o \in expired
      <4>1. Running' = Running
        BY <2>1, <3>1, HolderFacts, Kinds DEF Enter, Acquire, Running, InUse
      <4>2. Seen' = [Seen EXCEPT ![o] = "cancelled"]
        BY <1>f, <2>1, <3>1 DEF Enter, Acquire
      <4>3. o \notin Running /\ Seen[o] = "none"
        BY <2>1, <1>a DEF Enter, Running, InUse, AnswersInStep
      <4>4. Promised!Refuse(o, "cancelled")
        BY <2>1, <3>1, <4>1, <4>2, <4>3 DEF Enter, Promised!Refuse
      <4> QED BY <4>4 DEF Promised!PromiseNext, Promised!Answers
    <3>2. CASE o \notin expired
      BY <2>1, <3>2, Unseen, HolderFacts, Kinds DEF Enter, Acquire, InUse
    <3> QED BY <3>1, <3>2
  <2>2. CASE GiveUp(o)
    <3>1. Running' = Running
      BY <2>2, HolderFacts, Kinds DEF GiveUp, Running, InUse
    <3>2. Seen' = [Seen EXCEPT ![o] = "cancelled"]
      BY <1>f, <2>2 DEF GiveUp
    <3>3. o \notin Running /\ Seen[o] = "none"
      BY <2>2, <1>a DEF GiveUp, Running, InUse, AnswersInStep
    <3>4. Promised!Refuse(o, "cancelled")
      BY <2>2, <3>1, <3>2, <3>3 DEF GiveUp, Promised!Refuse
    <3> QED BY <3>4 DEF Promised!PromiseNext, Promised!Answers
  <2>3. CASE Check(o)
    <3>1. Running = {} /\ Seen[o] = "none" /\ o \notin Running
      <4>1. lock = o /\ pc[o] = "check"
        BY <2>3, HolderFacts, Kinds DEF Check
      <4> QED BY <4>1, <1>a, OneRunning DEF InUse, AnswersInStep
    <3>2. CASE trap \/ closed
      <4> PICK a \in Promised!Answers : a = IF trap THEN "trap" ELSE "closed"
        BY DEF Promised!Answers
      <4>1. Return(o, a)
        BY <2>3, <3>2 DEF Check
      <4>2. Running' = {}
        BY <4>1, <3>1, HolderFacts, Kinds DEF Return, Running, InUse
      <4>3. Seen' = [Seen EXCEPT ![o] = a]
        BY <1>f, <4>1 DEF Return
      <4>4. Promised!Refuse(o, a)
        BY <2>3, <3>1, <3>2, <4>2, <4>3 DEF Check, Promised!Refuse
      <4> QED BY <4>4 DEF Promised!PromiseNext
    <3>3. CASE ~(trap \/ closed)
      <4>1. Running' = {o}
        BY <2>3, <3>1, <3>3, HolderFacts, Kinds DEF Check, Running, InUse
      <4>2. Seen' = Seen
        BY <2>3, <3>3 DEF Check
      <4>3. Promised!Start(o)
        BY <2>3, <3>1, <3>3, <4>1, <4>2 DEF Check, Promised!Start
      <4> QED BY <4>3 DEF Promised!PromiseNext
    <3> QED BY <3>2, <3>3
  <2>4. CASE Leave(o)
    <3>1. Running = {o} /\ ~trap
      BY <2>4, HolderFacts, OneRunning, Kinds DEF Leave, Running, InUse
    <3>2. Running' = {}
      BY <2>4, <3>1, HolderFacts, Kinds DEF Leave, Return, Running, InUse
    <3>3. PICK a \in {"value", "interrupted", "trap", "cancelled"} :
            a = out[o] /\ (a = "cancelled" => o \in expired)
      BY <2>4, <1>a DEF Leave, AnswersInStep
    <3>4. Seen' = [Seen EXCEPT ![o] = a]
      BY <1>f, <2>4, <3>3 DEF Leave, Return
    <3>5. trap' = (a = "trap")
      BY <2>4, <3>1, <3>3 DEF Leave
    <3>6. Promised!Finish(o, a)
      BY <2>4, <3>1, <3>2, <3>3, <3>4, <3>5 DEF Leave, Promised!Finish
    <3> QED BY <3>6 DEF Promised!PromiseNext, Promised!Answers
  <2>5. CASE TakeLock(o)
    BY <2>5, Unseen, HolderFacts, Kinds DEF TakeLock, AfterLock, InUse
  <2>6. CASE Begin(o) \/ ResetSignal(o) \/ Arm(o) \/ DrainTraps(o) \/ Stop(o)
    BY <2>6, Unseen, HolderFacts, Kinds DEF Begin, ResetSignal, Arm, DrainTraps, Stop, InUse
  <2> QED BY <1>1, <2>1, <2>2, <2>3, <2>4, <2>5, <2>6 DEF OpStep
<1>2. ASSUME NEW o \in Ops, AfterStep(o) PROVE G
  BY <1>2, Unseen DEF AfterStep, AfterStarts, AfterTriggers, AfterEnds
<1>3. ASSUME NEW o \in Ops, GuestStep(o) PROVE G
  BY <1>3, Unseen, HolderFacts, Kinds DEF GuestStep, GuestReturns, GuestTraps, Polls,
     Interrupted, Swallows, Resumes, CallHost, HostReturns, HostAborts, Blocks, Unblocks,
     FnReturns, InUse
<1>4. ASSUME NEW c \in Ops \cup Restores, Expire(c) PROVE G
  <2>1. Running' = Running /\ Seen' = Seen
    BY <1>4 DEF Expire, Running
  <2>2. CASE c \in Ops
    <3>1. c \notin expired \cap Ops /\ (expired \cap Ops)' = (expired \cap Ops) \cup {c}
      BY <1>4, <2>2 DEF Expire
    <3>2. Promised!Expire(c)
      BY <1>4, <2>1, <3>1 DEF Expire, Promised!Expire
    <3> QED BY <2>2, <3>2 DEF Promised!PromiseNext
  <2>3. CASE c \notin Ops
    <3>1. (expired \cap Ops)' = expired \cap Ops
      BY <1>4, <2>3 DEF Expire
    <3> QED BY <1>4, <2>1, <3>1 DEF Expire, Promised!promise
  <2> QED BY <2>2, <2>3
<1>5. ASSUME NEW c \in Cancels \cup Closers, CancelStep(c) PROVE G
  BY <1>5, Unseen, HolderFacts, Kinds DEF CancelStep, CancelLoads, CancelTriggers, CancelStores
<1>6. ASSUME NEW c \in Callers, c \notin Ops, pc[c] = "holding"
      PROVE  /\ Running = {}
             /\ \A a \in Answers : Return(c, a) => Running' = {} /\ Seen' = Seen
  <2>1. Running = {}
    BY <1>6, HolderFacts, OneRunning
  <2>2. ASSUME NEW a \in Answers, Return(c, a) PROVE Running' = {} /\ Seen' = Seen
    <3>1. \A o \in Ops : pc'[o] = pc[o] /\ answer'[o] = answer[o]
      BY <2>2, <1>6, <1>a, HolderFacts, Kinds DEF Return
    <3> QED BY <2>1, <3>1 DEF Running
  <2> QED BY <2>1, <2>2
<1>7. ASSUME NEW c \in Closers, TakeLock(c) \/ Close(c) PROVE G
  <2>1. CASE TakeLock(c)
    BY <2>1, Unseen, HolderFacts, Kinds DEF TakeLock
  <2>2. CASE Close(c)
    <3>1. Running = {} /\ Running' = {} /\ Seen' = Seen
      BY <2>2, <1>6, Kinds DEF Close, Answers
    <3>2. Promised!Shut
      BY <2>2, <3>1 DEF Close, Promised!Shut
    <3> QED BY <3>2 DEF Promised!PromiseNext
  <2> QED BY <1>7, <2>1, <2>2
<1>8. ASSUME NEW c \in Restores, RestoreStep(c) PROVE G
  <2>1. CASE RestoreEnters(c) \/ TakeLock(c) \/ GiveUp(c)
    <3>1. c \in Callers /\ c \notin Ops /\ DOMAIN pc = Callers
      BY HolderFacts, Kinds
    <3>2. \A o \in Ops : pc'[o] = pc[o] /\ answer'[o] = answer[o]
      BY <2>1, <3>1, <1>a, Kinds DEF RestoreEnters, Acquire, TakeLock, GiveUp
    <3>3. UNCHANGED <<trap, closed, expired>>
      BY <2>1 DEF RestoreEnters, Acquire, TakeLock, GiveUp
    <3> QED BY <3>2, <3>3, Unseen
  <2>2. CASE Replace(c)
    <3>1. Running = {} /\ Running' = {} /\ Seen' = Seen
      BY <2>2, <1>6, Kinds DEF Replace, Answers
    <3>2. Promised!Revive
      BY <2>2, <3>1 DEF Replace, Promised!Revive
    <3> QED BY <3>2 DEF Promised!PromiseNext
  <2>3. CASE RestoreRefused(c) \/ RestoreInPlace(c) \/ RestoreFails(c) \/ Snapshot(c)
    <3>1. Running = {} /\ Running' = {} /\ Seen' = Seen
      BY <2>3, <1>6, Kinds DEF RestoreRefused, RestoreInPlace, RestoreFails, Snapshot, Answers
    <3> QED BY <2>3, <3>1 DEF RestoreRefused, RestoreInPlace, RestoreFails, Snapshot, Promised!promise
  <2> QED BY <1>8, <2>1, <2>2, <2>3 DEF RestoreStep
<1> QED BY <1>1, <1>2, <1>3, <1>4, <1>5, <1>7, <1>8 DEF Next

\* A lock, two halves of a signal, AfterFuncs and modules that come and go give
\* callers what Interpreter promises them.
THEOREM InstanceKeepsPromise == Spec => KeepsPromise
<1>1. IInv /\ [Next]_vars => [Promised!PromiseNext]_Promised!promise
  <2>1. UNCHANGED vars => UNCHANGED Promised!promise
    BY DEF vars, signal, Promised!promise, Running
  <2> QED BY <2>1, StepKept
<1> QED BY <1>1, InitKept, InstanceInductive, PTL DEF Spec, KeepsPromise, Promised!Promise

=============================================================================
