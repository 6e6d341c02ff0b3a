------------------------------ MODULE HostMaps ------------------------------
(***************************************************************************)
(* The variables and callbacks of an interpreter as the code keeps them:   *)
(* Go maps, which are references.  Whoever stores a map of somebody else   *)
(* has to clone it (env.go, dispatcher.go, module.go, snapshot.go).        *)
(*                                                                         *)
(* The id of a callback lives in guest memory, in a bound method; the      *)
(* image of a snapshot has the memory with the ids and the map that they   *)
(* are looked up in.  Abstract states what all this amounts to.            *)
(***************************************************************************)
EXTENDS Integers, FiniteSets, FiniteSetsExt

CONSTANTS
  Callbacks,     \* Go functions
  Names, Values, \* of variables
  MaxVars,       \* maxVariables
  MaxFunctions,  \* bound: functions defined
  NoImage

VARIABLES
  status,        \* of the interpreter: "none", "open", "trapped"
  store,         \* the maps
  environment,   \* Environment.vars: a map, or Nil
  registry,      \* Module.registry: a map
  counter,       \* Module.counter
  configured,    \* Instance.vars: a map, or Nil
  functions,     \* in guest memory: [id, callback (that it was defined with)]
  saved          \* Snapshot: [environment, registry, counter, functions]

vars == <<status, store, environment, registry, counter, configured, functions, saved>>

Empty == [x \in {} |-> x]
\* An entry more in a map, or another value for it.
Put(f, x, v) == [y \in DOMAIN f \cup {x} |-> IF y = x THEN v ELSE f[y]]
Nil == 0
Maps == 1 .. 7   \* five are referred to at a time, and two more made
Configs == {Empty} \cup [Names -> Values]

\* What a map of such keys and values can be.
Contents(keys, range) == UNION {[K -> range] : K \in SUBSET keys}

\* What the image of a snapshot can refer to.
Images == [environment : Maps \cup {Nil}, registry : Maps, counter : 0 .. MaxFunctions,
           functions : SUBSET [id : 1 .. MaxFunctions, callback : Callbacks]]

ASSUME HostMapsAssumption ==
  /\ MaxFunctions \in Nat
  /\ NoImage \notin Images
  /\ NoImage \notin [environment : Contents(Names, Values),
                     registry : Contents(1 .. MaxFunctions, Callbacks), counter : 0 .. MaxFunctions]

Held == {environment, registry, configured}
Saved == IF saved = NoImage THEN {} ELSE {saved.environment, saved.registry}
First == Min(Maps \ (Held \cup Saved))
Second == Min(Maps \ (Held \cup Saved \cup {First}))

\* The contents of the maps after a step that writes some; the collector takes
\* those that nobody refers to.
Write(kept, written) ==
  store' = [m \in Maps \cup {Nil} |->
              IF m \in DOMAIN written THEN written[m]
              ELSE IF m \in kept THEN store[m] ELSE Empty]

\* Seeded fault: the map itself.
MutClone(m, fresh) == m

\* maps.Clone: a map of its own, and nil for nil.
Clone(m, fresh) == IF m = Nil THEN Nil ELSE fresh

\* What is written, and into `fresh` what the clone there holds, if there is one.
Copy(written, m, fresh) ==
  IF Clone(m, fresh) = fresh THEN Put(written, fresh, store[m]) ELSE written

\* Only map m is written.
Only(m, contents) == Put(Empty, m, contents)

Init ==
  /\ status = "none"
  /\ configured \in {Nil, 1}
  /\ \E c \in Configs :
       /\ configured = Nil => c = Empty
       /\ store = [m \in Maps \cup {Nil} |-> IF m = 1 THEN c ELSE Empty]
  /\ environment = Nil
  /\ registry = Nil
  /\ counter = 0
  /\ functions = {}
  /\ saved = NoImage

\* newModule: a registry of its own, and the configured variables cloned.  New
\* does it, and Reset in the place of the module there is.
NewModule ==
  /\ status' = "open"
  /\ environment' = Clone(configured, First)
  /\ registry' = Second
  /\ counter' = 0
  /\ functions' = {}
  /\ Write(Saved \cup {configured}, Copy(Empty, configured, First))
  /\ UNCHANGED <<configured, saved>>

\* Xhost_env_set: a name that is not there yet needs room, and a map.
SetVar(n, v) ==
  /\ status = "open"
  /\ n \in DOMAIN store[environment] \/ Cardinality(DOMAIN store[environment]) < MaxVars
  /\ environment' = IF environment = Nil THEN First ELSE environment
  /\ Write(Held \cup Saved, Only(environment', Put(store[environment], n, v)))
  /\ UNCHANGED <<status, registry, counter, configured, functions, saved>>

UnsetVar(n) ==
  /\ status = "open"
  /\ Write(Held \cup Saved,
           Only(environment, [x \in DOMAIN store[environment] \ {n} |-> store[environment][x]]))
  /\ UNCHANGED <<status, environment, registry, counter, configured, functions, saved>>

\* DefineFunction: register, and then the guest makes a function of the id, or
\* runs out of memory.
DefineFunction(f) ==
  /\ status = "open"
  /\ counter < MaxFunctions
  /\ counter' = counter + 1
  /\ Write(Held \cup Saved, Only(registry, Put(store[registry], counter + 1, f)))
  /\ functions' \in {functions, functions \cup {[id |-> counter + 1, callback |-> f]}}
  /\ UNCHANGED <<status, environment, registry, configured, saved>>

Snapshot ==
  /\ status = "open"
  /\ saved = NoImage
  /\ saved' = [environment |-> Clone(environment, First),
               registry |-> Clone(registry, Second),
               counter |-> counter, functions |-> functions]
  /\ Write(Held, Copy(Copy(Empty, environment, First), registry, Second))
  /\ UNCHANGED <<status, environment, registry, counter, configured, functions>>

\* Seeded fault: the registry stays as it is.
MutRestore ==
  /\ saved # NoImage
  /\ status' = "open"
  /\ environment' = Clone(saved.environment, First)
  /\ counter' = saved.counter
  /\ functions' = saved.functions
  /\ configured' = saved.environment
  /\ Write(Saved \cup {registry}, Copy(Empty, saved.environment, First))
  /\ UNCHANGED <<registry, saved>>

\* Restore, of a used interpreter or of a new one: memory, variables, registry and
\* counter go back together.  The instance shares the variables of the image.
Restore ==
  /\ saved # NoImage
  /\ status' = "open"
  /\ environment' = Clone(saved.environment, First)
  /\ registry' = Clone(saved.registry, Second)
  /\ counter' = saved.counter
  /\ functions' = saved.functions
  /\ configured' = saved.environment
  /\ Write(Saved, Copy(Copy(Empty, saved.environment, First), saved.registry, Second))
  /\ UNCHANGED saved

\* The host keeps what it has until the module is replaced.
Traps ==
  /\ status = "open"
  /\ status' = "trapped"
  /\ UNCHANGED <<store, environment, registry, counter, configured, functions, saved>>

\* Environment.Close; the module keeps the rest.
Close ==
  /\ status \in {"open", "trapped"}
  /\ status' = "none"
  /\ environment' = Nil
  /\ Write({registry, configured} \cup Saved, Empty)
  /\ UNCHANGED <<registry, counter, configured, functions, saved>>

Next ==
  \/ NewModule \/ Snapshot \/ Restore \/ Traps \/ Close
  \/ \E n \in Names : UnsetVar(n) \/ \E v \in Values : SetVar(n, v)
  \/ \E f \in Callbacks : DefineFunction(f)

Spec == Init /\ [][Next]_vars

-----------------------------------------------------------------------------
(* Properties.                                                             *)

\* The values behind the references.
Abstract == INSTANCE HostState WITH
  environment <- store[environment],
  registry <- store[registry],
  configured <- store[configured],
  saved <- IF saved = NoImage THEN NoImage
           ELSE [environment |-> store[saved.environment],
                 registry |-> store[saved.registry],
                 counter |-> saved.counter]

TypeOK ==
  /\ status \in {"none", "open", "trapped"}
  /\ {environment, registry, configured} \cup Saved \subseteq Maps \cup {Nil}
  /\ \A m \in {environment, configured} : store[m] \in Contents(Names, Values)
  /\ store[registry] \in Contents(1 .. MaxFunctions, Callbacks)
  /\ store[Nil] = Empty
  /\ counter \in 0 .. MaxFunctions
  /\ functions \subseteq [id : 1 .. counter, callback : Callbacks]
  /\ saved # NoImage =>
       /\ store[saved.environment] \in Contents(Names, Values)
       /\ store[saved.registry] \in Contents(1 .. saved.counter, Callbacks)
       /\ saved.functions \subseteq [id : 1 .. saved.counter, callback : Callbacks]

\* No map is shared between an interpreter and the image it came from or went
\* into, so that neither sees what is done to the other (options.go, WithEnv).
KeepsHostState == Abstract!Spec

NamesCallbacks(fs, reg) ==
  \A o \in fs : o.id \in DOMAIN store[reg] /\ store[reg][o.id] = o.callback

\* A function that the program finds in its memory, after whatever rewinds, calls
\* the callback it was defined with (dispatcher.go, restore: or the ids dangle).
FunctionsNameTheirCallback ==
  /\ status = "open" => NamesCallbacks(functions, registry)
  /\ saved # NoImage => NamesCallbacks(saved.functions, saved.registry)
=============================================================================
