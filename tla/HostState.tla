----------------------------- MODULE HostState ------------------------------
(***************************************************************************)
(* What the host promises to keep for a guest program, beside its memory:  *)
(* environment variables and callbacks.                                    *)
(*                                                                         *)
(* An interpreter has values of its own and so has the image of a          *)
(* snapshot: what the program does to the one is not seen in the other     *)
(* (options.go, WithEnv: putenv and unsetenv affect only this instance,    *)
(* Program.Run restores the variables captured after initialization).      *)
(***************************************************************************)
EXTENDS Integers, FiniteSets

CONSTANTS
  Callbacks,     \* Go functions
  Names, Values, \* of variables
  MaxVars,       \* maxVariables
  MaxFunctions,  \* bound: functions defined
  NoImage

VARIABLES
  environment,   \* name -> value
  registry,      \* id -> callback
  counter,       \* the last id
  configured,    \* the variables that a reset starts from
  saved          \* an image: [environment, registry, counter]

stateVars == <<environment, registry, counter, configured, saved>>

Empty == [x \in {} |-> x]
Configs == {Empty} \cup [Names -> Values]
\* With an entry more, or another value for it, and without one.
Put(f, x, v) == [y \in DOMAIN f \cup {x} |-> IF y = x THEN v ELSE f[y]]
Without(f, x) == [y \in DOMAIN f \ {x} |-> f[y]]

Init ==
  /\ configured \in Configs
  /\ environment = Empty
  /\ registry = Empty
  /\ counter = 0
  /\ saved = NoImage

\* A new interpreter.
Starts ==
  /\ environment' = configured
  /\ registry' = Empty
  /\ counter' = 0
  /\ UNCHANGED <<configured, saved>>

SetVar(n, v) ==
  /\ n \in DOMAIN environment \/ Cardinality(DOMAIN environment) < MaxVars
  /\ environment' = Put(environment, n, v)
  /\ UNCHANGED <<registry, counter, configured, saved>>

UnsetVar(n) ==
  /\ environment' = Without(environment, n)
  /\ UNCHANGED <<registry, counter, configured, saved>>

DefineFunction(f) ==
  /\ counter < MaxFunctions
  /\ counter' = counter + 1
  /\ registry' = Put(registry, counter + 1, f)
  /\ UNCHANGED <<environment, configured, saved>>

Snapshot ==
  /\ saved' = [environment |-> environment, registry |-> registry, counter |-> counter]
  /\ UNCHANGED <<environment, registry, counter, configured>>

Restore ==
  /\ saved # NoImage
  /\ environment' = saved.environment
  /\ registry' = saved.registry
  /\ counter' = saved.counter
  /\ configured' = saved.environment
  /\ UNCHANGED saved

Close ==
  /\ environment' = Empty
  /\ UNCHANGED <<registry, counter, configured, saved>>

Next ==
  \/ Starts \/ Snapshot \/ Restore \/ Close
  \/ \E n \in Names : UnsetVar(n) \/ \E v \in Values : SetVar(n, v)
  \/ \E f \in Callbacks : DefineFunction(f)

Spec == Init /\ [][Next]_stateVars
=============================================================================
