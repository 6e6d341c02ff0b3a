---------------------------- MODULE Interpreter -----------------------------
(***************************************************************************)
(* What an Instance promises its callers (instance.go), with neither lock  *)
(* nor module nor signal: operations run one at a time, on an interpreter  *)
(* that is neither trapped nor closed, and each gets one answer that the   *)
(* state of the interpreter or the operation's own context explains.       *)
(***************************************************************************)
CONSTANT Ops  \* the operations callers issue, one value per call

VARIABLES
  running,    \* the operations that have the interpreter
  trapped,    \* the machine has failed and nothing has restored it
  closed,
  expired,    \* operations whose context is done
  answer      \* what each operation has returned

promise == <<running, trapped, closed, expired, answer>>

Answers == {"none", "value", "interrupted", "cancelled", "trap", "closed"}

PromiseInit ==
  /\ running = {}
  /\ trapped = FALSE
  /\ closed = FALSE
  /\ expired = {}
  /\ answer = [o \in Ops |-> "none"]

Expire(o) ==
  /\ o \notin expired
  /\ expired' = expired \cup {o}
  /\ UNCHANGED <<running, trapped, closed, answer>>

Start(o) ==
  /\ running = {} /\ ~trapped /\ ~closed
  /\ answer[o] = "none"
  /\ running' = {o}
  /\ UNCHANGED <<trapped, closed, expired, answer>>

Finish(o, a) ==
  /\ running = {o}
  /\ a \in {"value", "interrupted", "trap"} \cup (IF o \in expired THEN {"cancelled"} ELSE {})
  /\ running' = {}
  /\ trapped' = (a = "trap")
  /\ answer' = [answer EXCEPT ![o] = a]
  /\ UNCHANGED <<closed, expired>>

Refuse(o, a) ==
  /\ o \notin running
  /\ answer[o] = "none"
  /\ \/ a = "cancelled" /\ o \in expired
     \/ a = "closed" /\ closed /\ running = {}
     \/ a = "trap" /\ trapped /\ running = {}
  /\ answer' = [answer EXCEPT ![o] = a]
  /\ UNCHANGED <<running, trapped, closed, expired>>

Shut ==
  /\ running = {}
  /\ closed' = TRUE
  /\ UNCHANGED <<running, trapped, expired, answer>>

Revive ==
  /\ running = {} /\ ~closed
  /\ trapped' = FALSE
  /\ UNCHANGED <<running, closed, expired, answer>>

PromiseNext ==
  \/ \E o \in Ops : Expire(o) \/ Start(o)
  \/ \E o \in Ops, a \in Answers : Finish(o, a) \/ Refuse(o, a)
  \/ Shut
  \/ Revive

Promise == PromiseInit /\ [][PromiseNext]_promise
=============================================================================
