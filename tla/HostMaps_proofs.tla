--------------------------- MODULE HostMaps_proofs --------------------------
(***************************************************************************)
(* That maps which are shared by reference behave as values: HostMaps      *)
(* implements HostState, for any callbacks, names, values and bounds.      *)
(*                                                                         *)
(* The invariant says which references may be equal (Apart): the two maps  *)
(* that are written to, environment and registry, are nobody else's.  The  *)
(* configured variables and those of an image are written to by nobody,    *)
(* and may be one map.                                                     *)
(***************************************************************************)
EXTENDS HostMaps, TLAPS

Refs ==
  /\ status \in {"none", "open", "trapped"}
  /\ {environment, registry, configured} \subseteq Maps \cup {Nil}
  /\ status = "open" => registry \in Maps
  /\ saved = NoImage \/ saved \in Images

Apart ==
  /\ environment \in Maps => environment \notin {registry, configured} \cup Saved
  /\ registry \in Maps => registry \notin {environment, configured} \cup Saved

\* Callbacks were given the ids up to the counter.
Registered(reg, fs, n) ==
  /\ n \in 0 .. MaxFunctions
  /\ reg \in Contents(1 .. n, Callbacks)
  /\ fs \subseteq [id : 1 .. n, callback : Callbacks]
  /\ \A o \in fs : o.id \in DOMAIN reg /\ reg[o.id] = o.callback

Filled ==
  /\ store[Nil] = Empty
  /\ store[environment] \in Contents(Names, Values)
  /\ store[configured] \in Contents(Names, Values)
  /\ Registered(store[registry], functions, counter)
  /\ saved # NoImage =>
       /\ store[saved.environment] \in Contents(Names, Values)
       /\ Registered(store[saved.registry], saved.functions, saved.counter)

IInv == Refs /\ Apart /\ Filled

-----------------------------------------------------------------------------
(* Maps and their contents.                                                *)

LEMMA ContentsForm ==
  ASSUME NEW f, NEW keys, NEW range
  PROVE  f \in Contents(keys, range) <=>
           /\ f = [x \in DOMAIN f |-> f[x]]
           /\ DOMAIN f \subseteq keys
           /\ \A x \in DOMAIN f : f[x] \in range
<1>1. f \in Contents(keys, range) <=> \E K \in SUBSET keys : f \in [K -> range]
  BY DEF Contents
<1>2. ASSUME NEW K \in SUBSET keys, f \in [K -> range]
      PROVE  /\ f = [x \in DOMAIN f |-> f[x]]
             /\ DOMAIN f \subseteq keys
             /\ \A x \in DOMAIN f : f[x] \in range
  BY <1>2
<1>3. ASSUME f = [x \in DOMAIN f |-> f[x]], DOMAIN f \subseteq keys,
             \A x \in DOMAIN f : f[x] \in range
      PROVE  \E K \in SUBSET keys : f \in [K -> range]
  <2>1. f \in [DOMAIN f -> range] /\ DOMAIN f \in SUBSET keys
    BY <1>3
  <2> QED
    BY <2>1
<1> QED
  BY <1>1, <1>2, <1>3

LEMMA ContentsGrow ==
  ASSUME NEW keys, NEW more, keys \subseteq more, NEW range, NEW f \in Contents(keys, range)
  PROVE  f \in Contents(more, range)
  BY DEF Contents

LEMMA EmptyFacts ==
  ASSUME NEW keys, NEW range
  PROVE  DOMAIN Empty = {} /\ Empty \in Contents(keys, range)
<1>1. DOMAIN Empty = {} /\ Empty = [x \in DOMAIN Empty |-> Empty[x]]
  BY DEF Empty
<1> QED
  BY <1>1, ContentsForm

\* A map with one entry more, or another one.
LEMMA PutContents ==
  ASSUME NEW keys, NEW range, NEW f \in Contents(keys, range), NEW x \in keys, NEW y \in range
  PROVE  Put(f, x, y) \in Contents(keys, range)
<1> DEFINE g == Put(f, x, y)
<1>1. /\ DOMAIN f \subseteq keys
      /\ \A z \in DOMAIN f : f[z] \in range
  BY ContentsForm
<1>2. /\ DOMAIN g = DOMAIN f \cup {x} /\ g[x] = y
      /\ \A z \in DOMAIN f \ {x} : g[z] = f[z]
  BY DEF Put
<1>f. g = [z \in DOMAIN g |-> g[z]]
  BY DEF Put
<1> HIDE DEF g
<1>3. DOMAIN g \subseteq keys /\ \A z \in DOMAIN g : g[z] \in range
  BY <1>1, <1>2
<1>4. g \in Contents(keys, range)
  BY <1>f, <1>3, ContentsForm
<1> QED
  BY <1>4 DEF g

\* There is room for two more maps.
LEMMA FreshMaps ==
  ASSUME Refs
  PROVE  /\ First \in Maps /\ First \notin Held \cup Saved
         /\ Second \in Maps /\ Second \notin Held \cup Saved /\ Second # First
         /\ First # Nil /\ Second # Nil
<1> DEFINE All == Held \cup Saved
<1>1. PICK a, b \in Maps \cup {Nil} : All \subseteq {environment, registry, configured, a, b}
  <2>1. CASE saved = NoImage
    <3>1. All \subseteq {environment, registry, configured, Nil, Nil}
      BY <2>1 DEF Held, Saved
    <3> QED
      BY <3>1
  <2>2. CASE saved # NoImage
    <3>1. saved.environment \in Maps \cup {Nil} /\ saved.registry \in Maps \cup {Nil}
      BY <2>2 DEF Refs, Images
    <3>2. All \subseteq {environment, registry, configured, saved.environment, saved.registry}
      BY <2>2 DEF Held, Saved
    <3> QED
      BY <3>1, <3>2
  <2> QED
    BY <2>1, <2>2
<1>2. ASSUME NEW S \in SUBSET Maps, S # {} PROVE Min(S) \in S
  <2>1. \E x \in S : \A y \in S : x =< y
    <3>1. CASE 1 \in S
      BY <3>1 DEF Maps
    <3>2. CASE 1 \notin S /\ 2 \in S
      BY <3>2 DEF Maps
    <3>3. CASE 1 \notin S /\ 2 \notin S /\ 3 \in S
      BY <3>3 DEF Maps
    <3>4. CASE 1 \notin S /\ 2 \notin S /\ 3 \notin S /\ 4 \in S
      BY <3>4 DEF Maps
    <3>5. CASE 1 \notin S /\ 2 \notin S /\ 3 \notin S /\ 4 \notin S
      <4>1. S \subseteq {5, 6, 7}
        BY <3>5 DEF Maps
      <4>2. CASE 5 \in S
        BY <4>1, <4>2
      <4>3. CASE 5 \notin S /\ 6 \in S
        BY <4>1, <4>3
      <4>4. CASE 5 \notin S /\ 6 \notin S
        <5>1. S = {7}
          BY <1>2, <4>1, <4>4
        <5> QED
          BY <5>1
      <4> QED
        BY <4>2, <4>3, <4>4
    <3> QED
      BY <3>1, <3>2, <3>3, <3>4, <3>5
  <2> QED
    BY <2>1 DEF Min
<1>3. \A c, d, e, f, g, h \in Maps \cup {Nil} : \E m \in 1 .. 7 : m \notin {c, d, e, f, g, h}
  BY DEF Maps, Nil
<1>4. First \in Maps \ All
  <2>1. PICK m \in 1 .. 7 : m \notin {environment, registry, configured, a, b, b}
    BY <1>1, <1>3 DEF Refs
  <2>2. m \in Maps \ All
    BY <1>1, <2>1 DEF Maps
  <2> QED
    BY <1>2, <2>2 DEF First
<1>5. Second \in Maps \ (All \cup {First})
  <2>1. PICK m \in 1 .. 7 : m \notin {environment, registry, configured, a, b, First}
    BY <1>1, <1>3, <1>4 DEF Refs
  <2>2. m \in Maps \ (All \cup {First})
    BY <1>1, <2>1 DEF Maps
  <2> QED
    BY <1>2, <2>2 DEF Second
<1>6. \A m \in Maps : m # Nil
  BY DEF Maps, Nil
<1> QED
  BY <1>4, <1>5, <1>6

LEMMA WriteFacts ==
  ASSUME NEW kept, NEW written, Write(kept, written), NEW m \in Maps \cup {Nil}
  PROVE  store'[m] = IF m \in DOMAIN written THEN written[m]
                     ELSE IF m \in kept THEN store[m] ELSE Empty
  BY DEF Write

LEMMA OnlyFacts ==
  ASSUME NEW m, NEW contents
  PROVE  DOMAIN Only(m, contents) = {m} /\ Only(m, contents)[m] = contents
  BY DEF Only, Put, Empty

-----------------------------------------------------------------------------
(* The image.                                                              *)

\* The image as a value.
Image == IF saved = NoImage THEN NoImage
         ELSE [environment |-> store[saved.environment], registry |-> store[saved.registry],
               counter |-> saved.counter]

LEMMA ImageFacts ==
  ASSUME Refs, Filled, saved # NoImage
  PROVE  /\ Image # NoImage
         /\ Image.environment = store[saved.environment]
         /\ Image.registry = store[saved.registry]
         /\ Image.counter = saved.counter
         /\ saved \in Images
         /\ saved.environment \in Maps \cup {Nil} /\ saved.registry \in Maps
         /\ Saved = {saved.environment, saved.registry}
<1>1. saved \in Images /\ saved.environment \in Maps \cup {Nil} /\ saved.registry \in Maps
  BY DEF Refs, Images
<1>2. /\ store[saved.environment] \in Contents(Names, Values)
      /\ store[saved.registry] \in Contents(1 .. saved.counter, Callbacks)
      /\ saved.counter \in 0 .. MaxFunctions
  BY DEF Filled, Registered
<1>3. store[saved.registry] \in Contents(1 .. MaxFunctions, Callbacks)
  <2>1. 1 .. saved.counter \subseteq 1 .. MaxFunctions
    BY <1>2, HostMapsAssumption
  <2> QED
    BY <1>2, <2>1, ContentsGrow
<1>4. Image = [environment |-> store[saved.environment], registry |-> store[saved.registry],
               counter |-> saved.counter]
  BY DEF Image
<1>5. Image # NoImage
  BY <1>2, <1>3, <1>4, HostMapsAssumption
<1>6. Saved = {saved.environment, saved.registry}
  BY DEF Saved
<1> QED
  BY <1>1, <1>4, <1>5, <1>6

\* A step that keeps the image, and the contents of its maps.
LEMMA ImageStays ==
  ASSUME Refs, saved' = saved,
         \A m \in Saved : store'[m] = store[m]
  PROVE  Image' = Image /\ Saved' = Saved
<1>1. CASE saved = NoImage
  BY <1>1 DEF Image, Saved
<1>2. CASE saved # NoImage
  <2>1. Saved = {saved.environment, saved.registry}
    BY <1>2 DEF Saved
  <2> QED
    BY <1>2, <2>1 DEF Image, Saved
<1> QED
  BY <1>1, <1>2

\* ... keeps what the invariant says of it.
SavedFilled ==
  saved # NoImage =>
    /\ store[saved.environment] \in Contents(Names, Values)
    /\ Registered(store[saved.registry], saved.functions, saved.counter)

LEMMA SavedStaysFilled ==
  ASSUME Refs, Filled, saved' = saved,
         \A m \in Saved : store'[m] = store[m]
  PROVE  SavedFilled'
<1> SUFFICES ASSUME saved # NoImage
             PROVE  /\ store'[saved.environment] \in Contents(Names, Values)
                    /\ Registered(store'[saved.registry], saved.functions, saved.counter)
  BY DEF SavedFilled, Registered, Contents
<1>1. Saved = {saved.environment, saved.registry}
  BY DEF Saved
<1> QED
  BY <1>1 DEF Filled

-----------------------------------------------------------------------------
(* The steps, each with the step of HostState that it is.                  *)

\* What a write to other maps leaves alone.
LEMMA WriteKeeps ==
  ASSUME Refs, Filled, NEW kept, NEW written, Write(kept, written), Nil \notin DOMAIN written
  PROVE  /\ store'[Nil] = Empty
         /\ \A m \in Maps \cup {Nil} : m \in kept \ DOMAIN written => store'[m] = store[m]
<1>1. Nil \in Maps \cup {Nil} /\ store[Nil] = Empty
  BY DEF Filled
<1>2. store'[Nil] = Empty
  BY <1>1, WriteFacts
<1> QED
  BY <1>2, WriteFacts

LEMMA RegisteredSame ==
  ASSUME NEW reg, NEW fs, NEW n, Registered(reg, fs, n),
         store'[registry'] = reg, functions' = fs, counter' = n
  PROVE  Registered(store[registry], functions, counter)'
  BY DEF Registered, Contents

LEMMA CardinalityIs == ASSUME NEW S PROVE Abstract!Cardinality(S) = Cardinality(S)
  BY DEF Abstract!Cardinality, Cardinality

LEMMA SetVarStep ==
  ASSUME IInv, NEW n \in Names, NEW v \in Values, SetVar(n, v)
  PROVE  IInv' /\ Abstract!SetVar(n, v)
<1>e. PICK e : e = environment'
  OBVIOUS
<1>0. /\ Refs /\ Apart /\ Filled
      /\ status = "open" /\ status' = "open" /\ environment' = e
      /\ e = IF environment = Nil THEN First ELSE environment
      /\ Write(Held \cup Saved, Only(e, Put(store[environment], n, v)))
      /\ UNCHANGED <<status, registry, counter, configured, functions, saved>>
  BY <1>e DEF IInv, SetVar
<1>1. /\ e \in Maps /\ e # Nil /\ e \notin {registry, configured} \cup Saved
      /\ registry \in Maps /\ configured \in Maps \cup {Nil} /\ environment \in Maps \cup {Nil}
  <2>1. CASE environment = Nil
    BY <1>0, <2>1, FreshMaps DEF Refs, Held
  <2>2. CASE environment # Nil
    BY <1>0, <2>2 DEF Refs, Apart
  <2> QED
    BY <2>1, <2>2
<1>2. /\ DOMAIN Only(e, Put(store[environment], n, v)) = {e}
      /\ Only(e, Put(store[environment], n, v))[e] = Put(store[environment], n, v)
  BY OnlyFacts
<1>3. /\ store'[Nil] = Empty /\ store'[e] = Put(store[environment], n, v)
      /\ store'[registry] = store[registry] /\ store'[configured] = store[configured]
      /\ \A m \in Saved : store'[m] = store[m]
  <2>1. Saved \subseteq Maps \cup {Nil}
    BY <1>0, ImageFacts DEF Saved
  <2>2. store'[e] = Put(store[environment], n, v)
    BY <1>0, <1>1, <1>2, WriteFacts
  <2>3. /\ store'[Nil] = Empty
        /\ \A m \in Maps \cup {Nil} : m \in (Held \cup Saved) \ {e} => store'[m] = store[m]
    BY <1>0, <1>1, <1>2, WriteKeeps
  <2>4. registry \in Held /\ configured \in Held /\ registry # e /\ configured # e
    BY <1>1 DEF Held
  <2> QED
    BY <1>1, <2>1, <2>2, <2>3, <2>4
<1>4. Image' = Image /\ Saved' = Saved /\ SavedFilled'
  BY <1>0, <1>3, ImageStays, SavedStaysFilled
<1>5. Refs'
  BY <1>0, <1>1 DEF Refs
<1>6. Apart'
  BY <1>0, <1>1, <1>4 DEF Apart
<1>7. Put(store[environment], n, v) \in Contents(Names, Values)
  BY <1>0, PutContents DEF Filled
<1>8. Filled'
  <2>1. Registered(store[registry], functions, counter)'
    BY <1>0, <1>3, RegisteredSame DEF Filled
  <2>2. store'[environment'] \in Contents(Names, Values) /\ store'[configured'] \in Contents(Names, Values)
    BY <1>0, <1>3, <1>7 DEF Filled
  <2> QED
    BY <1>3, <1>4, <2>1, <2>2 DEF Filled, SavedFilled, Contents
<1>9. Abstract!SetVar(n, v)
  <2>1. n \in DOMAIN store[environment] \/ Cardinality(DOMAIN store[environment]) < MaxVars
    BY DEF SetVar
  <2>2. store'[environment'] = Put(store[environment], n, v)
    BY <1>0, <1>3
  <2>3. /\ store'[registry'] = store[registry] /\ store'[configured'] = store[configured]
        /\ counter' = counter
    BY <1>0, <1>3
  <2> QED
    BY <1>4, <2>1, <2>2, <2>3, CardinalityIs DEF Abstract!SetVar, Abstract!Put, Put, Image
<1> QED
  BY <1>5, <1>6, <1>8, <1>9 DEF IInv

LEMMA UnsetVarStep ==
  ASSUME IInv, NEW n \in Names, UnsetVar(n)
  PROVE  IInv' /\ Abstract!UnsetVar(n)
<1> DEFINE left == [x \in DOMAIN store[environment] \ {n} |-> store[environment][x]]
<1>0. /\ Refs /\ Apart /\ Filled
      /\ status = "open" /\ Write(Held \cup Saved, Only(environment, left))
      /\ UNCHANGED <<status, environment, registry, counter, configured, functions, saved>>
  BY DEF IInv, UnsetVar
<1>1. /\ environment # Nil => environment \notin {registry, configured} \cup Saved
      /\ registry \in Maps /\ configured \in Maps \cup {Nil} /\ environment \in Maps \cup {Nil}
  BY <1>0 DEF Refs, Apart
<1>2. left \in Contents(Names, Values)
  <2>1. /\ DOMAIN store[environment] \subseteq Names
        /\ \A x \in DOMAIN store[environment] : store[environment][x] \in Values
    BY <1>0, ContentsForm DEF Filled
  <2>2. DOMAIN left = DOMAIN store[environment] \ {n} /\ left = [x \in DOMAIN left |-> left[x]]
        /\ \A x \in DOMAIN left : left[x] = store[environment][x]
    OBVIOUS
  <2> HIDE DEF left
  <2> QED
    BY <2>1, <2>2, ContentsForm
<1>3. environment = Nil => left = Empty
  BY <1>0, EmptyFacts DEF Filled, Empty
<1> HIDE DEF left
<1>4. /\ DOMAIN Only(environment, left) = {environment} /\ Only(environment, left)[environment] = left
  BY OnlyFacts
<1>5. /\ store'[Nil] = Empty /\ store'[environment] = left
      /\ store'[registry] = store[registry] /\ store'[configured] = store[configured]
      /\ \A m \in Saved : store'[m] = store[m]
  <2>1. Saved \subseteq Maps \cup {Nil}
    BY <1>0, ImageFacts DEF Saved
  <2>2. store'[environment] = left
    BY <1>0, <1>1, <1>4, WriteFacts
  <2>3. \A m \in Held \cup Saved : m # environment => store'[m] = store[m]
    <3>1. Held \subseteq Maps \cup {Nil}
      BY <1>1 DEF Held
    <3> QED
      BY <1>0, <1>4, <2>1, <3>1, WriteFacts
  <2>4. environment = Nil => store'[environment] = store[environment]
    BY <1>0, <1>3, <2>2 DEF Filled
  <2>5. store'[Nil] = Empty
    <3>1. CASE environment = Nil
      BY <1>3, <2>2, <3>1
    <3>2. CASE environment # Nil
      BY <1>0, <1>4, <3>2, WriteKeeps
    <3> QED
      BY <3>1, <3>2
  <2> QED
    BY <1>1, <2>1, <2>2, <2>3, <2>4, <2>5 DEF Held
<1>6. Image' = Image /\ Saved' = Saved /\ SavedFilled'
  BY <1>0, <1>5, ImageStays, SavedStaysFilled
<1>7. Refs'
  BY <1>0, <1>1 DEF Refs
<1>8. Apart'
  BY <1>0, <1>1, <1>6 DEF Apart
<1>9. Filled'
  <2>1. Registered(store[registry], functions, counter)'
    BY <1>0, <1>5, RegisteredSame DEF Filled
  <2>2. store'[environment'] \in Contents(Names, Values) /\ store'[configured'] \in Contents(Names, Values)
    BY <1>0, <1>2, <1>5 DEF Filled
  <2> QED
    BY <1>5, <1>6, <2>1, <2>2 DEF Filled, SavedFilled, Contents
<1>10. Abstract!UnsetVar(n)
  <2>1. store'[environment'] = left
    BY <1>0, <1>5
  <2>2. /\ store'[registry'] = store[registry] /\ store'[configured'] = store[configured]
        /\ counter' = counter
    BY <1>0, <1>5
  <2> QED
    BY <1>6, <2>1, <2>2 DEF Abstract!UnsetVar, Abstract!Without, Image, left
<1> QED
  BY <1>7, <1>8, <1>9, <1>10 DEF IInv

LEMMA DefineFunctionStep ==
  ASSUME IInv, NEW f \in Callbacks, DefineFunction(f)
  PROVE  IInv' /\ Abstract!DefineFunction(f)
<1> DEFINE more == Put(store[registry], counter + 1, f)
           made == [id |-> counter + 1, callback |-> f]
<1>0. /\ Refs /\ Apart /\ Filled
      /\ status = "open" /\ Write(Held \cup Saved, Only(registry, more))
      /\ counter < MaxFunctions /\ counter' = counter + 1
      /\ functions' \in {functions, functions \cup {made}}
      /\ UNCHANGED <<status, environment, registry, configured, saved>>
  BY DEF IInv, DefineFunction
<1>1. /\ registry \in Maps /\ registry # Nil /\ registry \notin {environment, configured} \cup Saved
      /\ configured \in Maps \cup {Nil} /\ environment \in Maps \cup {Nil}
  BY <1>0 DEF Refs, Apart, Maps, Nil
<1>2. counter \in Nat /\ counter + 1 \in 1 .. counter + 1 /\ counter + 1 \in 0 .. MaxFunctions
      /\ 1 .. counter \subseteq 1 .. counter + 1 /\ counter + 1 \notin 1 .. counter
  BY <1>0, HostMapsAssumption DEF Filled, Registered
<1>3. Registered(more, functions', counter + 1)
  <2>1. /\ store[registry] \in Contents(1 .. counter, Callbacks)
        /\ functions \subseteq [id : 1 .. counter, callback : Callbacks]
        /\ \A o \in functions : o.id \in DOMAIN store[registry] /\ store[registry][o.id] = o.callback
    BY <1>0 DEF Filled, Registered
  <2>2. more \in Contents(1 .. counter + 1, Callbacks)
    <3>1. store[registry] \in Contents(1 .. counter + 1, Callbacks)
      BY <1>2, <2>1, ContentsGrow
    <3> QED
      BY <1>2, <3>1, PutContents
  <2>3. /\ DOMAIN more = DOMAIN store[registry] \cup {counter + 1} /\ more[counter + 1] = f
        /\ \A z \in DOMAIN store[registry] \ {counter + 1} : more[z] = store[registry][z]
    BY DEF Put
  <2> HIDE DEF more
  <2>4. \A o \in functions : o.id \in DOMAIN more /\ more[o.id] = o.callback
    <3>1. \A o \in functions : o.id \in 1 .. counter
      BY <2>1
    <3> QED
      BY <1>2, <2>1, <2>3, <3>1
  <2>5. made \in [id : 1 .. counter + 1, callback : Callbacks]
        /\ made.id = counter + 1 /\ made.callback = f
    BY <1>2
  <2>6. functions \subseteq [id : 1 .. counter + 1, callback : Callbacks]
    BY <1>2, <2>1
  <2> HIDE DEF made
  <2>7. /\ functions' \subseteq [id : 1 .. counter + 1, callback : Callbacks]
        /\ \A o \in functions' : o.id \in DOMAIN more /\ more[o.id] = o.callback
    BY <1>0, <2>3, <2>4, <2>5, <2>6
  <2> QED
    BY <1>2, <2>2, <2>7 DEF Registered
<1> HIDE DEF more, made
<1>4. DOMAIN Only(registry, more) = {registry} /\ Only(registry, more)[registry] = more
  BY OnlyFacts
<1>5. /\ store'[Nil] = Empty /\ store'[registry] = more
      /\ store'[environment] = store[environment] /\ store'[configured] = store[configured]
      /\ \A m \in Saved : store'[m] = store[m]
  <2>1. Saved \subseteq Maps \cup {Nil}
    BY <1>0, ImageFacts DEF Saved
  <2>2. store'[registry] = more
    BY <1>0, <1>1, <1>4, WriteFacts
  <2>3. /\ store'[Nil] = Empty
        /\ \A m \in Maps \cup {Nil} : m \in (Held \cup Saved) \ {registry} => store'[m] = store[m]
    BY <1>0, <1>1, <1>4, WriteKeeps
  <2>4. environment \in Held /\ configured \in Held
    BY DEF Held
  <2> QED
    BY <1>1, <2>1, <2>2, <2>3, <2>4
<1>6. Image' = Image /\ Saved' = Saved /\ SavedFilled'
  BY <1>0, <1>5, ImageStays, SavedStaysFilled
<1>7. Refs'
  BY <1>0, <1>1 DEF Refs
<1>8. Apart'
  BY <1>0, <1>1, <1>6 DEF Apart
<1>9. Filled'
  <2>1. Registered(store[registry], functions, counter)'
    BY <1>0, <1>3, <1>5, RegisteredSame
  <2>2. store'[environment'] \in Contents(Names, Values) /\ store'[configured'] \in Contents(Names, Values)
    BY <1>0, <1>5 DEF Filled
  <2> QED
    BY <1>5, <1>6, <2>1, <2>2 DEF Filled, SavedFilled, Contents
<1>10. Abstract!DefineFunction(f)
  <2>1. store'[registry'] = more
    BY <1>0, <1>5
  <2>2. /\ store'[environment'] = store[environment] /\ store'[configured'] = store[configured]
        /\ counter < MaxFunctions /\ counter' = counter + 1
    BY <1>0, <1>5
  <2> QED
    BY <1>6, <2>1, <2>2 DEF Abstract!DefineFunction, Abstract!Put, Put, Image, more
<1> QED
  BY <1>7, <1>8, <1>9, <1>10 DEF IInv

\* A new registry is empty, and no function of the program was made yet.
LEMMA NothingRegistered == Registered(Empty, {}, 0)
<1>1. 0 \in 0 .. MaxFunctions
  BY HostMapsAssumption
<1> QED
  BY <1>1, EmptyFacts DEF Registered

LEMMA NewModuleStep ==
  ASSUME IInv, NewModule
  PROVE  IInv' /\ Abstract!Starts
<1> DEFINE written == Copy(Empty, configured, First)
<1>e. PICK e, r : e = Clone(configured, First) /\ r = Second
  OBVIOUS
<1>0. /\ Refs /\ Apart /\ Filled
      /\ status' = "open" /\ environment' = e /\ registry' = r /\ counter' = 0 /\ functions' = {}
      /\ Write(Saved \cup {configured}, written)
      /\ configured' = configured /\ saved' = saved
  BY <1>e DEF IInv, NewModule
<1>1. /\ configured \in Maps \cup {Nil}
      /\ First \in Maps /\ First \notin Held \cup Saved /\ First # Nil
      /\ r \in Maps /\ r \notin Held \cup Saved /\ r # First /\ r # Nil
  BY <1>0, <1>e, FreshMaps DEF Refs
<1>2. /\ e \in {Nil, First} /\ (e = Nil <=> configured = Nil)
      /\ DOMAIN written = {e} \ {Nil}
      /\ e # Nil => written[e] = store[configured]
  <2>1. DOMAIN Empty = {}
    BY EmptyFacts
  <2>2. /\ Clone(configured, First) \in {Nil, First} /\ (Clone(configured, First) = Nil <=> configured = Nil)
        /\ DOMAIN Copy(Empty, configured, First) = DOMAIN Empty \cup ({Clone(configured, First)} \ {Nil})
        /\ configured # Nil => Copy(Empty, configured, First)[First] = store[configured]
        /\ \A k \in DOMAIN Empty \ {First} : Copy(Empty, configured, First)[k] = Empty[k]
    BY <1>1 DEF Copy, Put, Clone
  <2> QED
    BY <1>1, <1>e, <2>1, <2>2
<1> HIDE DEF written
<1>3. /\ store'[Nil] = Empty /\ store'[e] = store[configured] /\ store'[r] = Empty
      /\ store'[configured] = store[configured]
      /\ \A m \in Saved : store'[m] = store[m]
  <2>1. Saved \subseteq Maps \cup {Nil}
    BY <1>0, ImageFacts DEF Saved
  <2>2. /\ store'[Nil] = Empty
        /\ \A m \in Maps \cup {Nil} :
             m \in (Saved \cup {configured}) \ DOMAIN written => store'[m] = store[m]
    BY <1>0, <1>2, WriteKeeps
  <2>3. store'[e] = store[configured]
    <3>1. CASE e = Nil
      BY <1>0, <1>2, <2>2, <3>1 DEF Filled
    <3>2. CASE e # Nil
      BY <1>0, <1>1, <1>2, <3>2, WriteFacts
    <3> QED
      BY <3>1, <3>2
  <2>4. store'[r] = Empty
    <3>1. r \notin DOMAIN written /\ r \notin Saved \cup {configured}
      BY <1>1, <1>2 DEF Held
    <3> QED
      BY <1>0, <1>1, <3>1, WriteFacts
  <2>5. \A m \in Saved \cup {configured} : m \notin DOMAIN written
    BY <1>1, <1>2 DEF Held
  <2> QED
    BY <1>1, <2>1, <2>2, <2>3, <2>4, <2>5
<1>4. Image' = Image /\ Saved' = Saved /\ SavedFilled'
  BY <1>0, <1>3, ImageStays, SavedStaysFilled
<1>5. Refs'
  BY <1>0, <1>1, <1>2 DEF Refs
<1>6. Apart'
  <2>1. First \notin {r, configured} \cup Saved /\ r \notin {configured} \cup Saved
    BY <1>1 DEF Held
  <2>2. e \in Maps => e = First
    BY <1>2 DEF Maps, Nil
  <2>3. r # e
    BY <1>1, <1>2
  <2> QED
    BY <1>0, <1>4, <2>1, <2>2, <2>3 DEF Apart
<1>7. Filled'
  <2>1. Registered(store[registry], functions, counter)'
    BY <1>0, <1>3, NothingRegistered, RegisteredSame
  <2>2. store'[environment'] \in Contents(Names, Values) /\ store'[configured'] \in Contents(Names, Values)
    BY <1>0, <1>3 DEF Filled
  <2> QED
    BY <1>3, <1>4, <2>1, <2>2 DEF Filled, SavedFilled, Contents
<1>8. Abstract!Starts
  BY <1>0, <1>3, <1>4 DEF Abstract!Starts, Abstract!Empty, Empty, Image
<1> QED
  BY <1>5, <1>6, <1>7, <1>8 DEF IInv

LEMMA SnapshotStep ==
  ASSUME IInv, Snapshot
  PROVE  IInv' /\ Abstract!Snapshot
<1> DEFINE inner == Copy(Empty, environment, First)
           written == Copy(inner, registry, Second)
<1>e. PICK e, r : e = Clone(environment, First) /\ r = Clone(registry, Second)
  OBVIOUS
<1>0. /\ Refs /\ Apart /\ Filled
      /\ status = "open" /\ saved = NoImage
      /\ saved' = [environment |-> e, registry |-> r, counter |-> counter, functions |-> functions]
      /\ Write(Held, written)
      /\ UNCHANGED <<status, environment, registry, counter, configured, functions>>
  BY <1>e DEF IInv, Snapshot
<1>1. /\ environment \in Maps \cup {Nil} /\ registry \in Maps /\ configured \in Maps \cup {Nil}
      /\ registry # Nil
      /\ First \in Maps /\ First \notin Held /\ First # Nil
      /\ Second \in Maps /\ Second \notin Held /\ Second # First /\ Second # Nil
  BY <1>0, FreshMaps DEF Refs, Maps, Nil
<1>2. /\ e \in {Nil, First} /\ (e = Nil <=> environment = Nil)
      /\ DOMAIN inner = {e} \ {Nil}
      /\ e # Nil => inner[e] = store[environment]
  <2>1. DOMAIN Empty = {}
    BY EmptyFacts
  <2>2. /\ Clone(environment, First) \in {Nil, First} /\ (Clone(environment, First) = Nil <=> environment = Nil)
        /\ DOMAIN Copy(Empty, environment, First) = DOMAIN Empty \cup ({Clone(environment, First)} \ {Nil})
        /\ environment # Nil => Copy(Empty, environment, First)[First] = store[environment]
        /\ \A k \in DOMAIN Empty \ {First} : Copy(Empty, environment, First)[k] = Empty[k]
    BY <1>1 DEF Copy, Put, Clone
  <2> QED
    BY <1>1, <1>e, <2>1, <2>2
<1> HIDE DEF inner
<1>3. /\ r = Second /\ DOMAIN written = ({e} \ {Nil}) \cup {r}
      /\ written[r] = store[registry] /\ (e # Nil => written[e] = store[environment])
  <2>0. /\ Clone(registry, Second) \in {Nil, Second} /\ (Clone(registry, Second) = Nil <=> registry = Nil)
        /\ DOMAIN Copy(inner, registry, Second) = DOMAIN inner \cup ({Clone(registry, Second)} \ {Nil})
        /\ registry # Nil => Copy(inner, registry, Second)[Second] = store[registry]
        /\ \A k \in DOMAIN inner \ {Second} : Copy(inner, registry, Second)[k] = inner[k]
    BY <1>1 DEF Copy, Put, Clone
  <2>1. r \in {Nil, Second} /\ r # Nil
    BY <1>1, <1>e, <2>0
  <2>2. /\ DOMAIN written = DOMAIN inner \cup ({r} \ {Nil})
        /\ written[Second] = store[registry]
        /\ \A k \in DOMAIN inner \ {Second} : written[k] = inner[k]
    BY <1>1, <1>e, <2>0
  <2> QED
    BY <1>1, <1>2, <2>1, <2>2
<1> HIDE DEF written
<1>4. /\ store'[Nil] = Empty /\ store'[e] = store[environment] /\ store'[r] = store[registry]
      /\ \A m \in Held : store'[m] = store[m]
  <2>1. Held \subseteq Maps \cup {Nil}
    BY <1>1 DEF Held
  <2>2. Nil \notin DOMAIN written /\ \A m \in Held : m \notin DOMAIN written
    BY <1>1, <1>2, <1>3
  <2>3. store'[Nil] = Empty /\ \A m \in Held : store'[m] = store[m]
    BY <1>0, <2>1, <2>2, WriteKeeps
  <2>4. store'[e] = store[environment]
    <3>1. CASE e = Nil
      BY <1>0, <1>2, <2>3, <3>1 DEF Filled
    <3>2. CASE e # Nil
      BY <1>0, <1>1, <1>2, <1>3, <3>2, WriteFacts
    <3> QED
      BY <3>1, <3>2
  <2>5. store'[r] = store[registry]
    BY <1>0, <1>1, <1>3, WriteFacts
  <2> QED
    BY <2>3, <2>4, <2>5
<1>5. /\ store'[environment] = store[environment] /\ store'[registry] = store[registry]
      /\ store'[configured] = store[configured]
  BY <1>4 DEF Held
<1>6. /\ store[environment] \in Contents(Names, Values)
      /\ store[configured] \in Contents(Names, Values)
      /\ Registered(store[registry], functions, counter)
  BY <1>0 DEF Filled
<1>7. saved' \in Images /\ saved' # NoImage
  <2>1. counter \in 0 .. MaxFunctions /\ functions \subseteq [id : 1 .. counter, callback : Callbacks]
    BY <1>6 DEF Registered
  <2>2. 1 .. counter \subseteq 1 .. MaxFunctions
    BY <2>1, HostMapsAssumption
  <2>3. functions \subseteq [id : 1 .. MaxFunctions, callback : Callbacks]
    BY <2>1, <2>2
  <2>4. saved' \in Images
    BY <1>0, <1>1, <1>2, <1>3, <2>1, <2>3 DEF Images
  <2> QED
    BY <2>4, HostMapsAssumption
<1>8. /\ saved'.environment = e /\ saved'.registry = r /\ saved'.counter = counter
      /\ saved'.functions = functions
  BY <1>0
<1>9. Saved' = {e, r}
  BY <1>7, <1>8 DEF Saved
<1>10. Refs'
  BY <1>0, <1>7 DEF Refs
<1>11. Apart'
  <2>0. environment \notin {First, Second} /\ registry \notin {First, Second}
    BY <1>1 DEF Held
  <2>n. \A m \in Maps : m # Nil
    BY DEF Maps, Nil
  <2>1. environment \in Maps => environment \notin {registry, configured, e, r}
    BY <1>0, <1>2, <1>3, <2>0, <2>n DEF Apart
  <2>2. registry \notin {environment, configured, e, r}
    BY <1>0, <1>1, <1>2, <1>3, <2>0, <2>n DEF Apart
  <2> QED
    BY <1>0, <1>9, <2>1, <2>2 DEF Apart
<1>12. Filled'
  <2>1. Registered(store[registry], functions, counter)'
    BY <1>0, <1>5, <1>6, RegisteredSame
  <2>2. Registered(store[saved.registry], saved.functions, saved.counter)'
    BY <1>4, <1>6, <1>8 DEF Registered, Contents
  <2>3. /\ store'[environment'] \in Contents(Names, Values)
        /\ store'[configured'] \in Contents(Names, Values)
        /\ store'[saved'.environment] \in Contents(Names, Values)
    BY <1>0, <1>4, <1>5, <1>6, <1>8
  <2> QED
    BY <1>4, <2>1, <2>2, <2>3 DEF Filled, Contents
<1>13. Abstract!Snapshot
  <2>1. Image' = [environment |-> store[environment], registry |-> store[registry],
                  counter |-> counter]
    BY <1>4, <1>7, <1>8 DEF Image
  <2> QED
    BY <1>0, <1>5, <2>1 DEF Abstract!Snapshot, Image
<1> QED
  BY <1>10, <1>11, <1>12, <1>13 DEF IInv

LEMMA RestoreStep ==
  ASSUME IInv, Restore
  PROVE  IInv' /\ Abstract!Restore
<1> DEFINE inner == Copy(Empty, saved.environment, First)
           written == Copy(inner, saved.registry, Second)
<1>e. PICK c, q, e, r : /\ c = saved.environment /\ q = saved.registry
                        /\ e = Clone(c, First) /\ r = Clone(q, Second)
  OBVIOUS
<1>0. /\ Refs /\ Apart /\ Filled
      /\ saved # NoImage /\ status' = "open" /\ environment' = e /\ registry' = r
      /\ counter' = saved.counter /\ functions' = saved.functions /\ configured' = c
      /\ saved' = saved /\ Write(Saved, written)
  BY <1>e DEF IInv, Restore
<1>i. /\ Image # NoImage /\ Image.environment = store[c] /\ Image.registry = store[q]
      /\ Image.counter = saved.counter
      /\ c \in Maps \cup {Nil} /\ q \in Maps /\ Saved = {c, q}
  BY <1>0, <1>e, ImageFacts
<1>1. /\ q # Nil
      /\ First \in Maps /\ First \notin {c, q} /\ First # Nil
      /\ Second \in Maps /\ Second \notin {c, q} /\ Second # First /\ Second # Nil
  BY <1>0, <1>i, FreshMaps DEF Maps, Nil
<1>2. /\ e \in {Nil, First} /\ (e = Nil <=> c = Nil)
      /\ DOMAIN inner = {e} \ {Nil}
      /\ e # Nil => inner[e] = store[c]
  <2>1. DOMAIN Empty = {}
    BY EmptyFacts
  <2>2. /\ Clone(c, First) \in {Nil, First} /\ (Clone(c, First) = Nil <=> c = Nil)
        /\ DOMAIN Copy(Empty, c, First) = DOMAIN Empty \cup ({Clone(c, First)} \ {Nil})
        /\ c # Nil => Copy(Empty, c, First)[First] = store[c]
    BY <1>1 DEF Copy, Put, Clone
  <2> QED
    BY <1>1, <1>e, <2>1, <2>2
<1> HIDE DEF inner
<1>3. /\ r = Second /\ DOMAIN written = ({e} \ {Nil}) \cup {r}
      /\ written[r] = store[q] /\ (e # Nil => written[e] = store[c])
  <2>1. /\ r = Second /\ DOMAIN Copy(inner, q, Second) = DOMAIN inner \cup {Second}
        /\ Copy(inner, q, Second)[Second] = store[q]
        /\ \A k \in DOMAIN inner \ {Second} : Copy(inner, q, Second)[k] = inner[k]
    BY <1>1, <1>e DEF Copy, Put, Clone
  <2> QED
    BY <1>1, <1>2, <1>e, <2>1
<1> HIDE DEF written
<1>4. /\ store'[Nil] = Empty /\ store'[e] = store[c] /\ store'[r] = store[q]
      /\ store'[c] = store[c] /\ store'[q] = store[q]
  <2>1. Nil \notin DOMAIN written /\ c \notin DOMAIN written /\ q \notin DOMAIN written
    BY <1>1, <1>2, <1>3
  <2>2. store'[Nil] = Empty /\ store'[c] = store[c] /\ store'[q] = store[q]
    BY <1>0, <1>i, <2>1, WriteKeeps
  <2>3. store'[e] = store[c]
    <3>1. CASE e = Nil
      BY <1>0, <1>2, <2>2, <3>1 DEF Filled
    <3>2. CASE e # Nil
      BY <1>0, <1>1, <1>2, <1>3, <3>2, WriteFacts
    <3> QED
      BY <3>1, <3>2
  <2>4. store'[r] = store[q]
    BY <1>0, <1>1, <1>3, WriteFacts
  <2> QED
    BY <2>2, <2>3, <2>4
<1>5. Image' = Image /\ Saved' = Saved /\ SavedFilled'
  BY <1>0, <1>i, <1>4, ImageStays, SavedStaysFilled
<1>6. Refs'
  BY <1>0, <1>i, <1>1, <1>2, <1>3 DEF Refs
<1>7. Apart'
  <2>1. \A m \in Maps : m # Nil
    BY DEF Maps, Nil
  <2> QED
    BY <1>0, <1>i, <1>1, <1>2, <1>3, <1>5, <2>1 DEF Apart
<1>8. Filled'
  <2>1. store[c] \in Contents(Names, Values) /\ Registered(store[q], saved.functions, saved.counter)
    BY <1>0, <1>e DEF Filled
  <2>2. Registered(store[registry], functions, counter)'
    BY <1>0, <1>4, <2>1, RegisteredSame
  <2>3. store'[environment'] \in Contents(Names, Values) /\ store'[configured'] \in Contents(Names, Values)
    BY <1>0, <1>4, <2>1
  <2> QED
    BY <1>4, <1>5, <2>2, <2>3 DEF Filled, SavedFilled, Contents
<1>9. Abstract!Restore
  <2>1. /\ store'[environment'] = store[c] /\ store'[registry'] = store[q]
        /\ store'[configured'] = store[c] /\ counter' = saved.counter
    BY <1>0, <1>4
  <2> QED
    BY <1>i, <1>5, <2>1 DEF Abstract!Restore, Image
<1> QED
  BY <1>6, <1>7, <1>8, <1>9 DEF IInv

LEMMA CloseStep ==
  ASSUME IInv, Close
  PROVE  IInv' /\ Abstract!Close
<1>0. /\ Refs /\ Apart /\ Filled
      /\ status' = "none" /\ environment' = Nil
      /\ Write({registry, configured} \cup Saved, Empty)
      /\ UNCHANGED <<registry, counter, configured, functions, saved>>
  BY DEF IInv, Close
<1>1. registry \in Maps \cup {Nil} /\ configured \in Maps \cup {Nil} /\ Saved \subseteq Maps \cup {Nil}
  BY <1>0, ImageFacts DEF Refs, Saved
<1>2. /\ store'[Nil] = Empty /\ store'[registry] = store[registry]
      /\ store'[configured] = store[configured]
      /\ \A m \in Saved : store'[m] = store[m]
  <2>1. DOMAIN Empty = {}
    BY EmptyFacts
  <2> QED
    BY <1>0, <1>1, <2>1, WriteKeeps
<1>3. Image' = Image /\ Saved' = Saved /\ SavedFilled'
  BY <1>0, <1>2, ImageStays, SavedStaysFilled
<1>4. Refs'
  BY <1>0 DEF Refs
<1>5. Apart'
  <2>1. Nil \notin Maps
    BY DEF Maps, Nil
  <2> QED
    BY <1>0, <1>3, <2>1 DEF Apart
<1>6. Filled'
  <2>1. Registered(store[registry], functions, counter)'
    BY <1>0, <1>2, RegisteredSame DEF Filled
  <2>2. store'[environment'] \in Contents(Names, Values) /\ store'[configured'] \in Contents(Names, Values)
    BY <1>0, <1>2, EmptyFacts DEF Filled
  <2> QED
    BY <1>2, <1>3, <2>1, <2>2 DEF Filled, SavedFilled, Contents
<1>7. Abstract!Close
  BY <1>0, <1>2, <1>3 DEF Abstract!Close, Abstract!Empty, Empty, Image
<1> QED
  BY <1>4, <1>5, <1>6, <1>7 DEF IInv

\* A trap is nothing to the host's maps, and neither is a step of somebody else.
LEMMA StutterStep ==
  ASSUME IInv, Traps \/ UNCHANGED vars
  PROVE  IInv' /\ UNCHANGED Abstract!stateVars
<1>0. /\ Refs /\ Apart /\ Filled /\ status' \in {status, "trapped"}
      /\ UNCHANGED <<store, environment, registry, counter, configured, functions, saved>>
  BY DEF IInv, Traps, vars
<1>1. Image' = Image /\ Saved' = Saved
  BY <1>0 DEF Image, Saved
<1>2. Refs'
  BY <1>0 DEF Refs
<1>3. Apart'
  BY <1>0, <1>1 DEF Apart
<1>4. Filled'
  BY <1>0 DEF Filled, Registered, Contents
<1> QED
  BY <1>0, <1>1, <1>2, <1>3, <1>4 DEF IInv, Abstract!stateVars, Image

-----------------------------------------------------------------------------
(* The theorems.                                                           *)

LEMMA InitHolds == Init => IInv /\ Abstract!Init
<1> SUFFICES ASSUME Init PROVE IInv /\ Abstract!Init
  OBVIOUS
<1>1. PICK c \in Configs : /\ configured = Nil => c = Empty
                           /\ store = [m \in Maps \cup {Nil} |-> IF m = 1 THEN c ELSE Empty]
  BY DEF Init
<1>2. /\ status = "none" /\ configured \in {Nil, 1} /\ environment = Nil /\ registry = Nil
      /\ counter = 0 /\ functions = {} /\ saved = NoImage
  BY DEF Init
<1>3. c \in Contents(Names, Values)
  BY EmptyFacts DEF Configs, Contents
<1>4. Nil \in Maps \cup {Nil} /\ 1 \in Maps /\ Nil # 1 /\ Nil \notin Maps
  BY DEF Maps, Nil
<1>5. store[Nil] = Empty /\ store[configured] = c
  BY <1>1, <1>2, <1>4
<1>6. Refs /\ Apart
  BY <1>2, <1>4 DEF Refs, Apart
<1>7. Filled
  BY <1>2, <1>3, <1>5, EmptyFacts, NothingRegistered DEF Filled
<1>8. Abstract!Init
  BY <1>2, <1>5 DEF Abstract!Init, Abstract!Configs, Abstract!Empty, Configs, Empty
<1> QED
  BY <1>6, <1>7, <1>8 DEF IInv

LEMMA StepHolds == IInv /\ [Next]_vars => IInv' /\ [Abstract!Next]_Abstract!stateVars
<1> SUFFICES ASSUME IInv, [Next]_vars PROVE IInv' /\ [Abstract!Next]_Abstract!stateVars
  OBVIOUS
<1>1. CASE NewModule
  BY <1>1, NewModuleStep DEF Abstract!Next
<1>2. CASE Snapshot
  BY <1>2, SnapshotStep DEF Abstract!Next
<1>3. CASE Restore
  BY <1>3, RestoreStep DEF Abstract!Next
<1>4. CASE Close
  BY <1>4, CloseStep DEF Abstract!Next
<1>5. CASE Traps \/ UNCHANGED vars
  BY <1>5, StutterStep
<1>6. ASSUME NEW n \in Names, UnsetVar(n)
      PROVE  IInv' /\ [Abstract!Next]_Abstract!stateVars
  BY <1>6, UnsetVarStep DEF Abstract!Next
<1>7. ASSUME NEW n \in Names, NEW v \in Values, SetVar(n, v)
      PROVE  IInv' /\ [Abstract!Next]_Abstract!stateVars
  BY <1>7, SetVarStep DEF Abstract!Next
<1>8. ASSUME NEW f \in Callbacks, DefineFunction(f)
      PROVE  IInv' /\ [Abstract!Next]_Abstract!stateVars
  BY <1>8, DefineFunctionStep DEF Abstract!Next
<1> QED
  BY <1>1, <1>2, <1>3, <1>4, <1>5, <1>6, <1>7, <1>8 DEF Next

\* What Apart keeps from being shared, and what is in the maps, holds for good.
THEOREM HostMapsInductive == Spec => []IInv
BY InitHolds, StepHolds, PTL DEF Spec

\* Maps that are cloned wherever the code clones them, in newModule, Snapshot and
\* Restore, behave as values: neither of an interpreter and an image sees what is
\* done to the other.
THEOREM HostMapsKeepsHostState == Spec => KeepsHostState
BY InitHolds, StepHolds, HostMapsInductive, PTL DEF Spec, KeepsHostState, Abstract!Spec

\* The ids in guest memory, the live one's and an image's, are in the registry
\* that they will be looked up in (dispatcher.go, restore).
THEOREM HostMapsFunctions == Spec => []FunctionsNameTheirCallback
<1>1. IInv => FunctionsNameTheirCallback
  BY DEF IInv, Filled, Registered, FunctionsNameTheirCallback, NamesCallbacks
<1> QED
  BY <1>1, HostMapsInductive, PTL

\* Every map that is referred to has such keys and values, ids up to the counter
\* at the most.
THEOREM HostMapsTypeCorrect == Spec => []TypeOK
<1>1. IInv => TypeOK
  <2> SUFFICES ASSUME IInv PROVE TypeOK
    OBVIOUS
  <2>1. Refs /\ Filled
    BY DEF IInv
  <2>2. Saved \subseteq Maps \cup {Nil}
    BY <2>1, ImageFacts DEF Saved
  <2>3. /\ counter \in 0 .. MaxFunctions /\ functions \subseteq [id : 1 .. counter, callback : Callbacks]
        /\ store[registry] \in Contents(1 .. MaxFunctions, Callbacks)
    <3>1. counter \in 0 .. MaxFunctions /\ store[registry] \in Contents(1 .. counter, Callbacks)
          /\ functions \subseteq [id : 1 .. counter, callback : Callbacks]
      BY <2>1 DEF Filled, Registered
    <3>2. 1 .. counter \subseteq 1 .. MaxFunctions
      BY <3>1, HostMapsAssumption
    <3> QED
      BY <3>1, <3>2, ContentsGrow
  <2> QED
    BY <2>1, <2>2, <2>3 DEF TypeOK, Refs, Filled, Registered
<1> QED
  BY <1>1, HostMapsInductive, PTL
=============================================================================
