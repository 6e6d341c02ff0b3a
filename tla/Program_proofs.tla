--------------------------- MODULE Program_proofs ---------------------------
(***************************************************************************)
(* What holds of the pool for any number of runs and any room.             *)
(*                                                                         *)
(* The invariant says where every interpreter is: closed, in the pool, in  *)
(* the hands of a Close, or with the one run whose pc says that it has     *)
(* one.  That is enough because each section under Program.mu moves an     *)
(* interpreter from one of these places to another.                        *)
(***************************************************************************)
EXTENDS Program, FiniteSetTheorems, SequenceTheorems, TLAPS

Elements(s) == {s[k] : k \in DOMAIN s}
Distinct(s) == \A j, k \in DOMAIN s : s[j] = s[k] => j = k

\* Past the point where it may make one, a run has made one at most.
Settled == {r \in Runs : pc[r] \notin {"idle", "acquire", "make", "vet"}}

\* A run at one of these steps has an interpreter.
Holding(r) == pc[r] \notin {"idle", "acquire", "make", "done"}

Counted == made <= 1 + Cardinality(Settled)

MadeBefore ==
  /\ \A i \in Elements(free) : i <= made
  /\ \A r \in Runs : lent[r] <= made
  /\ \A c \in Closers : \A i \in Elements(taken[c]) : i <= made

Loans ==
  /\ \A r \in Runs : pc[r] = "idle" => lent[r] = NoInterpreter
  /\ \A r \in Runs : Holding(r) => lent[r] # NoInterpreter
  /\ \A r, s \in Runs : Holding(r) /\ Holding(s) /\ lent[r] = lent[s] => r = s

Apart ==
  /\ Distinct(free)
  /\ \A r \in Runs : Holding(r) => lent[r] \notin Elements(free)
  /\ \A r \in Runs, c \in Closers : Holding(r) => lent[r] \notin Elements(taken[c])

Shut ==
  /\ closed => free = <<>>
  /\ ~closed => \A c \in Closers : taken[c] = <<>>
  /\ \A c, d \in Closers : taken[c] # <<>> /\ taken[d] # <<>> => c = d

\* Only the borrower operates an interpreter, before its BorrowedInstance closes.
Operated ==
  \A i \in Interpreters : \A r \in Runs : op[i] = r => pc[r] \in Lending /\ lent[r] = i

Fresh(i) == state[i] = "open" /\ i \notin dirty

Rewound ==
  /\ \A i \in Elements(free) : Fresh(i)
  /\ \A r \in Runs : pc[r] = "recheck" => Fresh(lent[r])

Somewhere(i) ==
  \/ state[i] = "closed"
  \/ i \in Elements(free)
  \/ \E c \in Closers : i \in Elements(taken[c])
  \/ \E r \in Runs : Holding(r) /\ lent[r] = i

Placed == \A i \in 1 .. made : Somewhere(i)

IInv ==
  /\ TypeOK /\ Counted /\ MadeBefore /\ Loans /\ Apart /\ Shut /\ Operated /\ Rewound
  /\ Placed /\ IdleBound

-----------------------------------------------------------------------------
(* Numbers and sequences.                                                  *)

\* The number of runs, and so of interpreters, is a number.
LEMMA InterpreterNumbers ==
  /\ Cardinality(Runs) \in Nat
  /\ 1 \in Interpreters
  /\ Interpreters \subseteq Nat \ {0}
  /\ NoInterpreter \notin Interpreters
  /\ \A i, j \in Nat : i \in Interpreters /\ 1 <= j /\ j <= i => j \in Interpreters
<1>1. Cardinality(Runs) \in Nat
  BY ProgramAssumption, FS_CardinalityType
<1> QED
  BY <1>1 DEF Interpreters, NoInterpreter

LEMMA ElementsAppend ==
  ASSUME NEW S, NEW s \in Seq(S), NEW e \in S
  PROVE  /\ Append(s, e) \in Seq(S)
         /\ Len(Append(s, e)) = Len(s) + 1
         /\ Elements(Append(s, e)) = Elements(s) \cup {e}
         /\ Distinct(s) /\ e \notin Elements(s) => Distinct(Append(s, e))
<1> DEFINE t == Append(s, e)
<1>1. /\ t \in Seq(S) /\ Len(t) = Len(s) + 1 /\ t[Len(s) + 1] = e
      /\ \A i \in 1 .. Len(s) : t[i] = s[i]
  BY AppendProperties
<1>2. DOMAIN s = 1 .. Len(s) /\ DOMAIN t = 1 .. Len(s) + 1 /\ Len(s) \in Nat
  BY <1>1, LenProperties
<1> HIDE DEF t
<1>3. Elements(t) = Elements(s) \cup {e}
  <2>1. \A k \in DOMAIN t : t[k] \in Elements(s) \cup {e}
    BY <1>1, <1>2 DEF Elements
  <2>2. \A k \in DOMAIN s : s[k] \in Elements(t)
    BY <1>1, <1>2 DEF Elements
  <2>3. e \in Elements(t)
    BY <1>1, <1>2 DEF Elements
  <2> QED
    BY <2>1, <2>2, <2>3 DEF Elements
<1>4. Distinct(s) /\ e \notin Elements(s) => Distinct(t)
  BY <1>1, <1>2 DEF Elements, Distinct
<1> QED
  BY <1>1, <1>3, <1>4 DEF t

\* What acquire takes off the end.
LEMMA ElementsFront ==
  ASSUME NEW S, NEW s \in Seq(S), s # <<>>
  PROVE  LET t == SubSeq(s, 1, Len(s) - 1)
         IN  /\ t \in Seq(S)
             /\ Len(t) = Len(s) - 1
             /\ s[Len(s)] \in Elements(s)
             /\ s[Len(s)] \in S
             /\ Elements(s) = Elements(t) \cup {s[Len(s)]}
             /\ Distinct(s) => Distinct(t) /\ s[Len(s)] \notin Elements(t)
<1> DEFINE t == SubSeq(s, 1, Len(s) - 1)
           last == s[Len(s)]
<1>1. DOMAIN s = 1 .. Len(s) /\ Len(s) \in Nat \ {0} /\ \A i \in 1 .. Len(s) : s[i] \in S
  BY LenProperties, EmptySeq
<1>2. t \in Seq(S) /\ Len(t) = Len(s) - 1 /\ \A i \in 1 .. Len(s) - 1 : t[i] = s[i]
  <2>1. \A i \in 1 .. Len(s) - 1 : s[i] \in S
    BY <1>1
  <2>2. /\ t \in Seq(S)
        /\ Len(t) = IF 1 <= Len(s) - 1 THEN (Len(s) - 1) - 1 + 1 ELSE 0
        /\ \A i \in 1 .. (Len(s) - 1) - 1 + 1 : t[i] = s[1 + i - 1]
    BY <1>1, <2>1, SubSeqProperties
  <2>3. (Len(s) - 1) - 1 + 1 = Len(s) - 1
    BY <1>1
  <2>4. \A i \in 1 .. Len(s) - 1 : 1 + i - 1 = i
    OBVIOUS
  <2>5. Len(t) = Len(s) - 1
    <3>1. CASE Len(s) = 1
      BY <2>2, <3>1
    <3>2. CASE Len(s) > 1
      BY <2>2, <3>2, <1>1
    <3> QED
      BY <3>1, <3>2, <1>1
  <2> HIDE DEF t
  <2> QED
    BY <2>2, <2>3, <2>4, <2>5
<1>3. DOMAIN t = 1 .. Len(s) - 1
  BY <1>2, LenProperties
<1> HIDE DEF t
<1>4. last \in Elements(s) /\ last \in S
  BY <1>1 DEF Elements
<1>5. Elements(s) = Elements(t) \cup {last}
  <2>1. \A k \in DOMAIN s : s[k] \in Elements(t) \cup {last}
    BY <1>1, <1>2, <1>3 DEF Elements
  <2>2. \A k \in DOMAIN t : t[k] \in Elements(s)
    BY <1>1, <1>2, <1>3 DEF Elements
  <2> QED
    BY <1>4, <2>1, <2>2 DEF Elements
<1>6. Distinct(s) => Distinct(t) /\ last \notin Elements(t)
  BY <1>1, <1>2, <1>3 DEF Elements, Distinct
<1> QED
  BY <1>2, <1>4, <1>5, <1>6 DEF t

\* What Close has closed.
LEMMA ElementsTail ==
  ASSUME NEW S, NEW s \in Seq(S), s # <<>>
  PROVE  /\ Head(s) \in S
         /\ Tail(s) \in Seq(S)
         /\ Elements(s) = Elements(Tail(s)) \cup {Head(s)}
<1>1. DOMAIN s = 1 .. Len(s) /\ Len(s) \in Nat \ {0} /\ \A i \in 1 .. Len(s) : s[i] \in S
  BY LenProperties, EmptySeq
<1>2. /\ Head(s) \in S /\ Head(s) = s[1]
      /\ Tail(s) \in Seq(S) /\ Len(Tail(s)) = Len(s) - 1
      /\ \A i \in 1 .. Len(s) - 1 : Tail(s)[i] = s[i + 1]
  BY <1>1, HeadTailProperties
<1> DEFINE t == Tail(s)
<1>3. DOMAIN t = 1 .. Len(s) - 1
  BY <1>2, LenProperties
<1> HIDE DEF t
<1>4. \A k \in DOMAIN s : s[k] \in Elements(t) \cup {Head(s)}
  <2> TAKE k \in DOMAIN s
  <2>1. CASE k = 1
    BY <2>1, <1>2
  <2>2. CASE k # 1
    <3>1. k - 1 \in DOMAIN t /\ t[k - 1] = s[k]
      BY <2>2, <1>1, <1>2, <1>3 DEF t
    <3> QED
      BY <3>1 DEF Elements
  <2> QED
    BY <2>1, <2>2
<1>5. \A k \in DOMAIN t : t[k] \in Elements(s)
  <2> TAKE k \in DOMAIN t
  <2>1. k + 1 \in DOMAIN s /\ t[k] = s[k + 1]
    BY <1>1, <1>2, <1>3 DEF t
  <2> QED
    BY <2>1 DEF Elements
<1>6. Head(s) \in Elements(s)
  BY <1>1, <1>2 DEF Elements
<1>7. Elements(s) = Elements(t) \cup {Head(s)}
  BY <1>4, <1>5, <1>6 DEF Elements
<1> QED
  BY <1>2, <1>7 DEF t

LEMMA ElementsEmpty == Elements(<<>>) = {} /\ Distinct(<<>>)
BY DEF Elements, Distinct

\* A run that is settled stays so, and each makes one at most.
LEMMA SettledCounts ==
  ASSUME NEW S \in SUBSET Runs
  PROVE  /\ IsFiniteSet(S)
         /\ Cardinality(S) \in Nat
         /\ Cardinality(S) <= Cardinality(Runs)
         /\ \A T \in SUBSET S : Cardinality(T) <= Cardinality(S)
         /\ \A r \in Runs : r \notin S => Cardinality(S \cup {r}) = Cardinality(S) + 1
<1>1. IsFiniteSet(S) /\ Cardinality(S) <= Cardinality(Runs)
  BY ProgramAssumption, FS_Subset
<1>2. Cardinality(S) \in Nat
  BY <1>1, FS_CardinalityType
<1>3. \A T \in SUBSET S : Cardinality(T) <= Cardinality(S)
  BY <1>1, FS_Subset
<1>4. \A r \in Runs : r \notin S => Cardinality(S \cup {r}) = Cardinality(S) + 1
  BY <1>1, FS_AddElement
<1> QED
  BY <1>1, <1>2, <1>3, <1>4

-----------------------------------------------------------------------------
(* Types.                                                                  *)

\* There is a number for the interpreter of a run that has none yet.
LEMMA RoomToMake ==
  ASSUME TypeOK, Counted, NEW r \in Runs, pc[r] = "make"
  PROVE  made + 1 \in Interpreters
<1>1. Settled \in SUBSET Runs /\ r \notin Settled /\ Settled \cup {r} \in SUBSET Runs
  BY DEF Settled
<1>2. Cardinality(Settled) + 1 <= Cardinality(Runs) /\ Cardinality(Settled) \in Nat
  <2>1. Cardinality(Settled \cup {r}) = Cardinality(Settled) + 1
    BY <1>1, SettledCounts
  <2>2. Cardinality(Settled \cup {r}) <= Cardinality(Runs)
    BY <1>1, SettledCounts
  <2> QED
    BY <1>1, <2>1, <2>2, SettledCounts
<1>3. made \in Nat \ {0} /\ Cardinality(Runs) \in Nat
  BY InterpreterNumbers DEF TypeOK
<1>4. made <= 1 + Cardinality(Settled)
  BY DEF Counted
<1> QED
  BY <1>2, <1>3, <1>4 DEF Interpreters

\* Every step keeps the types; where one uses an interpreter, the run has it.
LEMMA TypeStep ==
  ASSUME TypeOK, Counted, Loans, [Next]_vars
  PROVE  TypeOK'
<1> USE DEF TypeOK, PCs, Lending, Goto
<1>1. ASSUME NEW r \in Runs, RunEnters(r) \/ RunRefused(r) \/ MakeFails(r) \/ FnReturns(r)
               \/ CloseLoan(r) \/ Release(r) \/ RestoreFails(r)
      PROVE  TypeOK'
  <2>1. /\ \E to \in PCs : pc' = [pc EXCEPT ![r] = to]
        /\ UNCHANGED <<pool, interpreters, lent, expired, after, taken, hits>>
    BY <1>1 DEF RunEnters, RunRefused, MakeFails, FnReturns, CloseLoan, Release, RestoreFails
  <2> QED
    BY <2>1 DEF pool, interpreters
<1>2. ASSUME NEW r \in Runs, Take(r)  PROVE  TypeOK'
  <2>1. CASE free = <<>>
    BY <1>2, <2>1 DEF Take, interpreters
  <2>2. CASE free # <<>>
    <3>1. SubSeq(free, 1, Len(free) - 1) \in Seq(Interpreters) /\ free[Len(free)] \in Interpreters
      BY <2>2, ElementsFront
    <3> QED
      BY <1>2, <2>2, <3>1 DEF Take, interpreters
  <2> QED
    BY <2>1, <2>2
<1>3. ASSUME NEW r \in Runs, Make(r)  PROVE  TypeOK'
  BY <1>3, RoomToMake DEF Make, Lend, pool
<1>4. ASSUME NEW r \in Runs, Vet(r)  PROVE  TypeOK'
  <2>1. UNCHANGED <<pool, made, dirty, cancel, op, expired, taken, hits>>
    BY <1>4 DEF Vet
  <2>2. state' \in [Interpreters -> {"none", "open", "trapped", "closed"}]
    BY <1>4 DEF Vet
  <2>3. pc' \in [Runs -> PCs]
    <3>1. PICK to \in PCs : pc' = [pc EXCEPT ![r] = to]
      <4>1. CASE state[lent[r]] = "open"
        BY <1>4, <4>1 DEF Vet, Lend
      <4>2. CASE state[lent[r]] # "open"
        BY <1>4, <4>2 DEF Vet
      <4> QED
        BY <4>1, <4>2
    <3> QED
      BY <3>1
  <2>4. lent' \in [Runs -> Interpreters \cup {NoInterpreter}]
    BY <1>4 DEF Vet, Lend
  <2>5. after' \in [Runs -> {"none", "armed", "stopped", "started", "ended"}]
    BY <1>4 DEF Vet, Lend
  <2> QED
    BY <2>1, <2>2, <2>3, <2>4, <2>5 DEF pool
<1>5. ASSUME NEW r \in Runs, Stop(r) \/ Expire(r) \/ AfterStarts(r)  PROVE  TypeOK'
  <2>1. CASE Stop(r)
    BY <2>1 DEF Stop, pool, interpreters
  <2>2. CASE Expire(r)
    BY <2>2 DEF Expire, pool, interpreters
  <2>3. CASE AfterStarts(r)
    BY <2>3 DEF AfterStarts, pool, interpreters
  <2> QED
    BY <1>5, <2>1, <2>2, <2>3
<1>6. ASSUME NEW r \in Runs, Restore(r)  PROVE  TypeOK'
  <2>1. cancel' \in [Interpreters -> SUBSET Runs]
    BY <1>6 DEF Restore
  <2> QED
    BY <1>6, <2>1 DEF Restore, pool
<1>7. ASSUME NEW r \in Runs, Recheck(r)  PROVE  TypeOK'
  <2>1. lent[r] \in Interpreters
    BY <1>7 DEF Recheck, Loans, Holding
  <2>2. Append(free, lent[r]) \in Seq(Interpreters)
    BY <2>1, ElementsAppend
  <2> QED
    BY <1>7, <2>2 DEF Recheck, interpreters
<1>8. ASSUME NEW r \in Runs, Discard(r)  PROVE  TypeOK'
  BY <1>8 DEF Discard, pool
<1>9. ASSUME NEW r \in Runs, OpBegins(r)  PROVE  TypeOK'
  <2>1. lent[r] \in Interpreters
    BY <1>9 DEF OpBegins, Loans, Holding
  <2>2. cancel' \in [Interpreters -> SUBSET Runs] /\ dirty' \in SUBSET Interpreters
    BY <1>9, <2>1 DEF OpBegins
  <2> QED
    BY <1>9, <2>2 DEF OpBegins, pool
<1>10. ASSUME NEW r \in Runs, OpReturns(r) \/ OpTraps(r)  PROVE  TypeOK'
  <2>1. /\ op' = [op EXCEPT ![lent[r]] = NoRun]
        /\ state' \in {state, [state EXCEPT ![lent[r]] = "trapped"]}
        /\ UNCHANGED <<pool, made, dirty, cancel, pc, lent, expired, after, taken, hits>>
    BY <1>10 DEF OpReturns, OpTraps
  <2> QED
    BY <2>1 DEF pool
<1>11. ASSUME NEW r \in Runs, OpInterrupted(r)  PROVE  TypeOK'
  <2>1. lent[r] \in Interpreters
    BY <1>11 DEF OpInterrupted
  <2>2. cancel[lent[r]] \X {r} \in SUBSET (Runs \X Runs)
    <3>1. cancel[lent[r]] \in SUBSET Runs
      BY <2>1
    <3> HIDE DEF TypeOK
    <3> QED
      BY <3>1
  <2>3. hits' \in SUBSET (Runs \X Runs)
    BY <1>11, <2>2 DEF OpInterrupted
  <2> QED
    BY <1>11, <2>3 DEF OpInterrupted, pool
<1>12. ASSUME NEW r \in Runs, AfterCancels(r)  PROVE  TypeOK'
  <2>1. cancel' \in [Interpreters -> SUBSET Runs]
    BY <1>12 DEF AfterCancels
  <2> QED
    BY <1>12, <2>1 DEF AfterCancels, pool
<1>13. ASSUME NEW c \in Closers, CloseTakes(c)  PROVE  TypeOK'
  BY <1>13, EmptySeq DEF CloseTakes, interpreters
<1>14. ASSUME NEW c \in Closers, CloseOne(c)  PROVE  TypeOK'
  <2>1. Tail(taken[c]) \in Seq(Interpreters) /\ Head(taken[c]) \in Interpreters
    BY <1>14, ElementsTail DEF CloseOne
  <2> QED
    BY <1>14, <2>1 DEF CloseOne, pool
<1>15. CASE UNCHANGED vars
  BY <1>15 DEF vars, pool, interpreters
<1> QED
  BY <1>1, <1>2, <1>3, <1>4, <1>5, <1>6, <1>7, <1>8, <1>9, <1>10, <1>11, <1>12, <1>13, <1>14,
     <1>15 DEF Next, RunStep

-----------------------------------------------------------------------------
(* Steps that move no interpreter.                                         *)

\* No more runs are settled than before, so no more interpreters are counted for.
LEMMA CountedStays ==
  ASSUME Counted, made \in Nat, made' = made, Settled \subseteq Settled'
  PROVE  Counted'
<1>1. Settled \in SUBSET Runs /\ Settled' \in SUBSET Runs
  BY DEF Settled
<1>2. /\ Cardinality(Settled) <= Cardinality(Settled')
      /\ Cardinality(Settled) \in Nat /\ Cardinality(Settled') \in Nat
  BY <1>1, SettledCounts
<1> QED
  BY <1>2 DEF Counted

\* A run goes on, with the interpreter it has or without one.
LEMMA RunGoesOn ==
  ASSUME IInv, TypeOK', NEW r \in Runs, NEW to \in PCs,
         pc' = [pc EXCEPT ![r] = to],
         UNCHANGED <<free, closed, made, state, dirty, op, lent, taken>>,
         to \notin {"idle", "recheck", "vet"},
         Holding(r) <=> to \notin {"acquire", "make", "done"},
         pc[r] \notin {"idle", "acquire", "make", "vet"} => to \notin {"acquire", "make"},
         \A i \in Interpreters : op[i] = r => to \in Lending
  PROVE  IInv'
<1> USE DEF IInv
<1>1. pc \in [Runs -> PCs] /\ made \in Nat
  BY InterpreterNumbers DEF TypeOK
<1>2. \A s \in Runs : /\ Holding(s)' <=> Holding(s)
                      /\ s # r => pc'[s] = pc[s]
  BY <1>1 DEF Holding
<1>3. Counted'
  <2>1. Settled \subseteq Settled'
    BY <1>1 DEF Settled
  <2> QED
    BY <1>1, <2>1, CountedStays
<1>4. MadeBefore'
  BY DEF MadeBefore, Elements
<1>5. Loans'
  BY <1>1, <1>2 DEF Loans
<1>6. Apart'
  BY <1>2 DEF Apart, Elements, Distinct
<1>7. Shut' /\ IdleBound'
  BY DEF Shut, IdleBound
<1>8. Operated'
  BY <1>1, <1>2 DEF Operated
<1>9. Rewound'
  BY <1>1, <1>2 DEF Rewound, Fresh, Elements
<1>10. Placed'
  <2> SUFFICES ASSUME NEW i \in 1 .. made  PROVE Somewhere(i)'
    BY DEF Placed
  <2>1. Somewhere(i)
    BY DEF Placed
  <2> QED
    BY <1>2, <2>1 DEF Somewhere, Elements
<1> QED
  BY <1>3, <1>4, <1>5, <1>6, <1>7, <1>8, <1>9, <1>10

\* An operation ends, or something happens that is not about places.
LEMMA NothingMoves ==
  ASSUME IInv, TypeOK',
         UNCHANGED <<free, closed, made, state, dirty, pc, lent, taken>>,
         \A i \in Interpreters : op'[i] \in {op[i], NoRun}
  PROVE  IInv'
<1> USE DEF IInv
<1>1. \A s \in Runs : Holding(s)' <=> Holding(s)
  BY DEF Holding
<1>2. Settled' = Settled /\ made \in Nat
  BY InterpreterNumbers DEF Settled, TypeOK
<1>3. Counted' /\ MadeBefore' /\ Shut' /\ IdleBound'
  BY <1>2 DEF Counted, MadeBefore, Shut, IdleBound, Elements
<1>4. Loans' /\ Apart'
  BY <1>1 DEF Loans, Apart, Elements, Distinct
<1>5. Operated'
  BY ProgramAssumption DEF Operated
<1>6. Rewound'
  BY DEF Rewound, Fresh, Elements
<1>7. Placed'
  BY <1>1 DEF Placed, Somewhere, Elements
<1> QED
  BY <1>3, <1>4, <1>5, <1>6, <1>7

-----------------------------------------------------------------------------
(* Steps that move one.                                                    *)

\* The facts about types that these steps use.
LEMMA Facts ==
  ASSUME TypeOK
  PROVE  /\ free \in Seq(Interpreters)
         /\ made \in Nat /\ made >= 1
         /\ state \in [Interpreters -> {"none", "open", "trapped", "closed"}]
         /\ op \in [Interpreters -> Runs \cup {NoRun}]
         /\ pc \in [Runs -> PCs]
         /\ lent \in [Runs -> Interpreters \cup {NoInterpreter}]
         /\ taken \in [Closers -> Seq(Interpreters)]
         /\ \A i \in Interpreters : i \in Nat /\ i >= 1
BY InterpreterNumbers DEF TypeOK

\* From the pool to a run.
LEMMA TakeKeeps ==
  ASSUME IInv, TypeOK', NEW r \in Runs, Take(r), free # <<>>
  PROVE  IInv'
<1> DEFINE i == free[Len(free)]
<1> USE DEF IInv
<1>1. /\ pc[r] = "acquire" /\ ~closed
      /\ pc' = [pc EXCEPT ![r] = "vet"]
      /\ lent' = [lent EXCEPT ![r] = i]
      /\ free' = SubSeq(free, 1, Len(free) - 1)
      /\ UNCHANGED <<closed, made, state, dirty, op, taken>>
  BY DEF Take, Goto, interpreters
<1>2. /\ i \in Elements(free) /\ i \in Interpreters
      /\ Len(free') = Len(free) - 1 /\ Len(free) \in Nat
      /\ Elements(free) = Elements(free') \cup {i}
      /\ Distinct(free') /\ i \notin Elements(free')
  BY <1>1, ElementsFront, Facts, LenProperties DEF Apart
<1> HIDE DEF i
<1>3. /\ lent'[r] = i /\ pc'[r] = "vet" /\ i # NoInterpreter
      /\ \A s \in Runs : s # r => lent'[s] = lent[s] /\ pc'[s] = pc[s]
  BY <1>1, <1>2, Facts, InterpreterNumbers
<1>4. /\ Holding(r)' /\ ~Holding(r)
      /\ \A s \in Runs : s # r => (Holding(s)' <=> Holding(s))
  BY <1>1, <1>3 DEF Holding
<1>5. Counted'
  <2>1. Settled \subseteq Settled'
    BY <1>1, <1>3 DEF Settled
  <2> QED
    BY <1>1, <2>1, CountedStays, Facts
<1>6. MadeBefore'
  BY <1>1, <1>2, <1>3 DEF MadeBefore
<1>7. Loans'
  BY <1>1, <1>2, <1>3, <1>4 DEF Loans, Apart
<1>8. Apart'
  <2>1. \A c \in Closers : i \notin Elements(taken'[c])
    BY <1>1, ElementsEmpty DEF Shut
  <2> QED
    BY <1>1, <1>2, <1>3, <1>4, <2>1 DEF Apart
<1>9. Shut' /\ IdleBound'
  BY <1>1, <1>2, ProgramAssumption DEF Shut, IdleBound
<1>10. Operated'
  BY <1>1, <1>3 DEF Operated, Lending
<1>11. Rewound'
  BY <1>1, <1>2, <1>3 DEF Rewound, Fresh
<1>12. Placed'
  <2> SUFFICES ASSUME NEW j \in 1 .. made  PROVE Somewhere(j)'
    BY <1>1 DEF Placed
  <2>1. Somewhere(j)
    BY DEF Placed
  <2> QED
    BY <1>1, <1>2, <1>3, <1>4, <2>1 DEF Somewhere
<1> QED
  BY <1>5, <1>6, <1>7, <1>8, <1>9, <1>10, <1>11, <1>12

\* A new one, to the run that made it.
LEMMA MakeKeeps ==
  ASSUME IInv, TypeOK', NEW r \in Runs, Make(r)
  PROVE  IInv'
<1> DEFINE i == made + 1
<1> USE DEF IInv
<1>1. /\ pc[r] = "make"
      /\ pc' = [pc EXCEPT ![r] = "running"]
      /\ lent' = [lent EXCEPT ![r] = i]
      /\ made' = i
      /\ state' = [state EXCEPT ![i] = "open"]
      /\ UNCHANGED <<free, closed, dirty, op, taken>>
  BY DEF Make, Lend, Goto, pool
<1>2. i \in Interpreters /\ i > made /\ made \in Nat
  BY <1>1, RoomToMake, Facts
<1>3. /\ lent'[r] = i /\ pc'[r] = "running" /\ i # NoInterpreter
      /\ \A s \in Runs : s # r => lent'[s] = lent[s] /\ pc'[s] = pc[s]
      /\ state'[i] = "open"
      /\ \A j \in Interpreters : j # i => state'[j] = state[j]
  BY <1>1, <1>2, Facts, InterpreterNumbers
<1>4. /\ Holding(r)' /\ ~Holding(r)
      /\ \A s \in Runs : s # r => (Holding(s)' <=> Holding(s))
  BY <1>1, <1>3 DEF Holding
<1>5. /\ i \notin Elements(free)
      /\ \A s \in Runs : s # r => lent[s] # i
      /\ \A c \in Closers : i \notin Elements(taken[c])
  <2>1. /\ \A j \in Elements(free) : j <= made
        /\ \A s \in Runs : lent[s] <= made
        /\ \A c \in Closers : \A j \in Elements(taken[c]) : j <= made
    BY DEF MadeBefore
  <2>2. ~(i <= made)
    BY <1>2
  <2> HIDE DEF i
  <2> QED
    BY <2>1, <2>2
<1>6. \A j \in Elements(free) : j \in Interpreters
  BY Facts DEF Elements
<1>7. Counted'
  <2>1. Settled \in SUBSET Runs /\ r \notin Settled /\ Settled' = Settled \cup {r}
    BY <1>1, <1>3 DEF Settled
  <2>2. Cardinality(Settled') = Cardinality(Settled) + 1 /\ Cardinality(Settled) \in Nat
    BY <2>1, SettledCounts
  <2> QED
    BY <1>1, <1>2, <2>2 DEF Counted
<1>8. MadeBefore'
  <2>1. \A j \in Nat : j <= made => j <= i
    BY <1>2
  <2>2. /\ \A j \in Elements(free) : j \in Nat
        /\ \A s \in Runs : lent[s] \in Nat
        /\ \A c \in Closers : \A j \in Elements(taken[c]) : j \in Nat
    <3>1. \A c \in Closers : \A j \in Elements(taken[c]) : j \in Interpreters
      BY Facts DEF Elements
    <3> QED
      BY <3>1, <1>6, Facts DEF NoInterpreter
  <2>3. i <= i
    BY <1>2
  <2> HIDE DEF i
  <2> QED
    BY <1>1, <1>3, <2>1, <2>2, <2>3 DEF MadeBefore
<1> HIDE DEF i
<1>9. Loans'
  BY <1>1, <1>3, <1>4, <1>5 DEF Loans
<1>10. Apart'
  BY <1>1, <1>3, <1>4, <1>5 DEF Apart
<1>11. Shut' /\ IdleBound'
  BY <1>1 DEF Shut, IdleBound
<1>12. Operated'
  BY <1>1, <1>3 DEF Operated, Lending
<1>13. Rewound'
  <2>1. \A s \in Runs : pc[s] = "recheck" => lent[s] \in Interpreters /\ s # r
    BY <1>1, Facts DEF Loans, Holding
  <2> QED
    BY <1>1, <1>3, <1>5, <1>6, <2>1 DEF Rewound, Fresh
<1>14. Placed'
  <2> SUFFICES ASSUME NEW j \in 1 .. i  PROVE Somewhere(j)'
    BY <1>1 DEF Placed
  <2>1. CASE j = i
    BY <1>3, <1>4, <2>1 DEF Somewhere
  <2>2. CASE j # i
    <3>1. j \in 1 .. made /\ j \in Interpreters
      BY <1>2, <2>2, InterpreterNumbers DEF i
    <3>2. Somewhere(j)
      BY <3>1 DEF Placed
    <3> QED
      BY <1>1, <1>3, <1>4, <2>2, <3>1, <3>2 DEF Somewhere
  <2> QED
    BY <2>1, <2>2
<1> QED
  BY <1>7, <1>8, <1>9, <1>10, <1>11, <1>12, <1>13, <1>14

\* One that is not open is closed, and the run has none.
LEMMA VetKeeps ==
  ASSUME IInv, TypeOK', NEW r \in Runs, Vet(r), state[lent[r]] # "open"
  PROVE  IInv'
<1> DEFINE i == lent[r]
<1> USE DEF IInv
<1>1. PICK to \in {"acquire", "done"} :
        /\ pc[r] = "vet"
        /\ pc' = [pc EXCEPT ![r] = to]
        /\ lent' = [lent EXCEPT ![r] = NoInterpreter]
        /\ state' = [state EXCEPT ![i] = "closed"]
        /\ UNCHANGED <<free, closed, made, dirty, op, taken>>
  BY DEF Vet, Goto, pool
<1>2. i \in Interpreters /\ i <= made /\ made \in Nat
  BY <1>1, Facts DEF Loans, Holding, MadeBefore
<1>3. /\ lent'[r] = NoInterpreter /\ pc'[r] = to
      /\ \A s \in Runs : s # r => lent'[s] = lent[s] /\ pc'[s] = pc[s]
      /\ state'[i] = "closed"
      /\ \A j \in Interpreters : j # i => state'[j] = state[j]
  BY <1>1, <1>2, Facts
<1>4. /\ ~Holding(r)' /\ Holding(r)
      /\ \A s \in Runs : s # r => (Holding(s)' <=> Holding(s))
  BY <1>1, <1>3 DEF Holding
<1>5. \A j \in Elements(free) : j \in Interpreters /\ j # i
  BY <1>4, Facts DEF Apart, Elements
<1> HIDE DEF i
<1>6. Counted'
  <2>1. Settled \subseteq Settled'
    BY <1>1, <1>3 DEF Settled
  <2> QED
    BY <1>1, <1>2, <2>1, CountedStays
<1>7. MadeBefore'
  <2>1. NoInterpreter <= made
    BY <1>2 DEF NoInterpreter
  <2> QED
    BY <1>1, <1>3, <2>1 DEF MadeBefore
<1>8. Loans' /\ Apart'
  BY <1>1, <1>3, <1>4 DEF Loans, Apart
<1>9. Shut' /\ IdleBound'
  BY <1>1 DEF Shut, IdleBound
<1>10. Operated'
  BY <1>1, <1>3 DEF Operated, Lending
<1>11. Rewound'
  <2>1. ASSUME NEW s \in Runs, pc'[s] = "recheck"  PROVE Fresh(lent[s])' /\ lent'[s] = lent[s]
    <3>1. s # r /\ pc[s] = "recheck" /\ Holding(s) /\ lent'[s] = lent[s]
      BY <1>3, <2>1 DEF Holding
    <3>2. lent[s] \in Interpreters /\ lent[s] # i
      BY <1>4, <3>1, Facts DEF Loans, i
    <3> QED
      BY <1>1, <1>3, <3>1, <3>2 DEF Rewound, Fresh
  <2> QED
    BY <1>1, <1>3, <1>5, <2>1 DEF Rewound, Fresh
<1>12. Placed'
  <2> SUFFICES ASSUME NEW j \in 1 .. made  PROVE Somewhere(j)'
    BY <1>1 DEF Placed
  <2>1. CASE j = i
    BY <1>3, <2>1 DEF Somewhere
  <2>2. CASE j # i
    <3>1. Somewhere(j) /\ j \in Interpreters
      BY <1>2, InterpreterNumbers DEF Placed, TypeOK
    <3> QED
      BY <1>1, <1>3, <1>4, <2>2, <3>1 DEF Somewhere, i
  <2> QED
    BY <2>1, <2>2
<1> QED
  BY <1>6, <1>7, <1>8, <1>9, <1>10, <1>11, <1>12

\* Back into the pool, which has room, or to be closed.
LEMMA RecheckKeeps ==
  ASSUME IInv, TypeOK', NEW r \in Runs, Recheck(r), HasRoom
  PROVE  IInv'
<1> DEFINE i == lent[r]
<1> USE DEF IInv
<1>1. /\ pc[r] = "recheck" /\ ~closed /\ Len(free) < MaxIdle
      /\ pc' = [pc EXCEPT ![r] = "done"]
      /\ free' = Append(free, i)
      /\ UNCHANGED <<closed, made, state, dirty, op, lent, taken>>
  BY DEF Recheck, HasRoom, Goto, interpreters
<1>2. i \in Interpreters /\ i <= made /\ Fresh(i) /\ i \notin Elements(free)
  BY <1>1, Facts DEF Loans, Holding, MadeBefore, Rewound, Apart
<1>3. /\ Len(free') = Len(free) + 1 /\ Len(free) \in Nat
      /\ Elements(free') = Elements(free) \cup {i}
      /\ Distinct(free')
  BY <1>1, <1>2, ElementsAppend, Facts, LenProperties DEF Apart
<1>4. /\ ~Holding(r)' /\ Holding(r) /\ pc'[r] = "done"
      /\ \A s \in Runs : s # r => (Holding(s)' <=> Holding(s)) /\ pc'[s] = pc[s]
  BY <1>1, Facts DEF Holding
<1>5. \A s \in Runs : s # r /\ Holding(s) => lent[s] # i
  BY <1>4 DEF Loans
<1> HIDE DEF i
<1>6. Counted'
  <2>1. Settled \subseteq Settled'
    BY <1>1, <1>4 DEF Settled
  <2> QED
    BY <1>1, <2>1, CountedStays, Facts
<1>7. MadeBefore'
  BY <1>1, <1>2, <1>3 DEF MadeBefore
<1>8. Loans'
  BY <1>1, <1>4 DEF Loans
<1>9. Apart'
  BY <1>1, <1>3, <1>4, <1>5 DEF Apart
<1>10. Shut' /\ IdleBound'
  BY <1>1, <1>3, ProgramAssumption DEF Shut, IdleBound
<1>11. Operated'
  BY <1>1, <1>4 DEF Operated, Lending
<1>12. Rewound'
  BY <1>1, <1>2, <1>3, <1>4 DEF Rewound, Fresh
<1>13. Placed'
  <2> SUFFICES ASSUME NEW j \in 1 .. made  PROVE Somewhere(j)'
    BY <1>1 DEF Placed
  <2>1. Somewhere(j)
    BY DEF Placed
  <2> QED
    BY <1>1, <1>3, <1>4, <2>1 DEF Somewhere, i
<1> QED
  BY <1>6, <1>7, <1>8, <1>9, <1>10, <1>11, <1>12, <1>13

\* A step of a run at its own interpreter i: it may set the state, clear or set the
\* mark of change, and begin or end an operation.
LEMMA AtOwnInterpreter ==
  ASSUME IInv, TypeOK', NEW r \in Runs, NEW to \in PCs,
         NEW i, i = lent[r], Holding(r),
         pc' = [pc EXCEPT ![r] = to],
         UNCHANGED <<free, closed, made, lent, taken>>,
         to \notin {"idle", "acquire", "make", "vet"},
         to = "done" => state'[i] = "closed",
         to = "recheck" => Fresh(i)',
         to \notin Lending => op'[i] # r,
         \A j \in Interpreters : op'[j] \in {op[j], NoRun} \/ (j = i /\ op'[j] = r),
         \A j \in Interpreters : j # i => state'[j] = state[j] /\ (j \in dirty' <=> j \in dirty)
  PROVE  IInv'
<1> USE DEF IInv
<1>1. i \in Interpreters /\ i <= made /\ i \notin Elements(free) /\ made \in Nat
  BY Facts DEF Loans, MadeBefore, Apart
<1>2. pc'[r] = to /\ \A s \in Runs : s # r => pc'[s] = pc[s]
  BY Facts
<1>3. /\ Holding(r)' <=> to # "done"
      /\ \A s \in Runs : s # r => (Holding(s)' <=> Holding(s))
  BY <1>2 DEF Holding
<1>4. \A s \in Runs : s # r /\ Holding(s) => lent[s] # i /\ lent[s] \in Interpreters
  BY Facts DEF Loans
<1>5. \A j \in Elements(free) : j \in Interpreters /\ j # i
  BY <1>1, Facts DEF Elements
<1>6. Counted'
  <2>1. Settled \subseteq Settled'
    BY <1>2 DEF Settled
  <2> QED
    BY <1>1, <2>1, CountedStays
<1>7. MadeBefore' /\ Shut' /\ IdleBound'
  BY DEF MadeBefore, Shut, IdleBound, Elements
<1>8. Loans'
  BY <1>2, <1>3 DEF Loans
<1>9. Apart'
  BY <1>3 DEF Apart, Elements, Distinct
<1>10. Operated'
  <2> SUFFICES ASSUME NEW j \in Interpreters, NEW s \in Runs, op'[j] = s
               PROVE  pc'[s] \in Lending /\ lent[s] = j
    BY DEF Operated
  <2>0. op'[j] # NoRun
    BY ProgramAssumption
  <2>1. CASE s = r
    <3>1. j = i
      BY <2>0, <2>1 DEF Operated
    <3> QED
      BY <1>2, <2>1, <3>1
  <2>2. CASE s # r
    <3>1. op[j] = s
      BY <2>0, <2>2
    <3> QED
      BY <1>2, <2>2, <3>1 DEF Operated
  <2> QED
    BY <2>1, <2>2
<1>11. Rewound'
  <2>1. \A j \in Elements(free)' : Fresh(j)'
    BY <1>5 DEF Rewound, Fresh, Elements
  <2>2. ASSUME NEW s \in Runs, pc'[s] = "recheck"  PROVE Fresh(lent[s])'
    <3>1. CASE s = r
      BY <1>2, <2>2, <3>1
    <3>2. CASE s # r
      <4>1. pc[s] = "recheck" /\ Holding(s)
        BY <1>2, <2>2, <3>2 DEF Holding
      <4> QED
        BY <1>4, <3>2, <4>1 DEF Rewound, Fresh
    <3> QED
      BY <3>1, <3>2
  <2> QED
    BY <2>1, <2>2 DEF Rewound
<1>12. Placed'
  <2> SUFFICES ASSUME NEW j \in 1 .. made  PROVE Somewhere(j)'
    BY DEF Placed
  <2>1. CASE j = i
    BY <1>3, <2>1 DEF Somewhere
  <2>2. CASE j # i
    <3>1. Somewhere(j) /\ j \in Interpreters
      BY <1>1, InterpreterNumbers DEF Placed, TypeOK
    <3> QED
      BY <1>3, <2>2, <3>1 DEF Somewhere, Elements
  <2> QED
    BY <2>1, <2>2
<1> QED
  BY <1>6, <1>7, <1>8, <1>9, <1>10, <1>11, <1>12

\* From the pool to a Close.
LEMMA CloseTakesKeeps ==
  ASSUME IInv, TypeOK', NEW c \in Closers, CloseTakes(c)
  PROVE  IInv'
<1> USE DEF IInv
<1>1. /\ ~closed /\ closed' = TRUE
      /\ taken' = [taken EXCEPT ![c] = free]
      /\ free' = <<>>
      /\ UNCHANGED <<made, state, dirty, op, pc, lent>>
  BY DEF CloseTakes, interpreters
<1>2. /\ taken'[c] = free
      /\ \A d \in Closers : d # c => taken'[d] = <<>>
  BY <1>1, Facts DEF Shut
<1>3. Elements(free') = {} /\ Elements(<<>>) = {} /\ Distinct(free') /\ Len(free') = 0
  BY <1>1, ElementsEmpty
<1>4. \A s \in Runs : Holding(s)' <=> Holding(s)
  BY <1>1 DEF Holding
<1>5. Counted'
  BY <1>1 DEF Counted, Settled
<1>6. MadeBefore'
  BY <1>1, <1>2, <1>3 DEF MadeBefore
<1>7. Loans'
  BY <1>1, <1>4 DEF Loans
<1>8. Apart'
  BY <1>1, <1>2, <1>3, <1>4 DEF Apart
<1>9. Shut'
  BY <1>1, <1>2 DEF Shut
<1>10. Operated' /\ IdleBound'
  BY <1>1, <1>3, ProgramAssumption DEF Operated, IdleBound
<1>11. Rewound'
  BY <1>1, <1>3 DEF Rewound, Fresh
<1>12. Placed'
  <2> SUFFICES ASSUME NEW j \in 1 .. made  PROVE Somewhere(j)'
    BY <1>1 DEF Placed
  <2>1. Somewhere(j)
    BY DEF Placed
  <2>2. \A d \in Closers : Elements(taken[d]) = {}
    BY <1>1, ElementsEmpty DEF Shut
  <2> QED
    BY <1>1, <1>2, <1>4, <2>1, <2>2 DEF Somewhere
<1> QED
  BY <1>5, <1>6, <1>7, <1>8, <1>9, <1>10, <1>11, <1>12

\* Close closes the one it has at hand.
LEMMA CloseOneKeeps ==
  ASSUME IInv, TypeOK', NEW c \in Closers, CloseOne(c)
  PROVE  IInv'
<1> DEFINE i == Head(taken[c])
<1> USE DEF IInv
<1>1. /\ taken[c] # <<>>
      /\ state' = [state EXCEPT ![i] = "closed"]
      /\ taken' = [taken EXCEPT ![c] = Tail(taken[c])]
      /\ UNCHANGED <<free, closed, made, dirty, op, pc, lent>>
  BY DEF CloseOne, pool
<1>2. i \in Interpreters /\ Elements(taken[c]) = Elements(taken'[c]) \cup {i}
  BY <1>1, ElementsTail, Facts
<1> HIDE DEF i
<1>3. /\ \A d \in Closers : d # c => taken'[d] = taken[d]
      /\ state'[i] = "closed"
      /\ \A j \in Interpreters : j # i => state'[j] = state[j]
  BY <1>1, <1>2, Facts
<1>4. \A s \in Runs : Holding(s)' <=> Holding(s)
  BY <1>1 DEF Holding
<1>5. \A s \in Runs : Holding(s) => lent[s] # i /\ lent[s] \in Interpreters
  BY <1>2, Facts DEF Apart, Loans
<1>6. closed /\ free = <<>>
  BY <1>1, Facts DEF Shut, TypeOK
<1>7. Counted' /\ IdleBound' /\ Operated'
  BY <1>1 DEF Counted, Settled, IdleBound, Operated
<1>8. MadeBefore'
  BY <1>1, <1>2, <1>3 DEF MadeBefore
<1>9. Loans'
  BY <1>1, <1>4 DEF Loans
<1>10. Apart'
  BY <1>1, <1>2, <1>3, <1>4 DEF Apart
<1>11. Shut'
  BY <1>1, <1>3, <1>6 DEF Shut
<1>12. Rewound'
  <2>1. \A j \in Elements(free)' : FALSE
    BY <1>1, <1>6, ElementsEmpty
  <2>2. \A s \in Runs : pc[s] = "recheck" => Holding(s)
    BY DEF Holding
  <2> QED
    BY <1>1, <1>3, <1>5, <2>1, <2>2 DEF Rewound, Fresh
<1>13. Placed'
  <2> SUFFICES ASSUME NEW j \in 1 .. made  PROVE Somewhere(j)'
    BY <1>1 DEF Placed
  <2>1. CASE j = i
    BY <1>3, <2>1 DEF Somewhere
  <2>2. CASE j # i
    <3>1. Somewhere(j) /\ j \in Interpreters
      BY InterpreterNumbers DEF Placed, TypeOK
    <3> QED
      BY <1>1, <1>2, <1>3, <1>4, <2>2, <3>1 DEF Somewhere
  <2> QED
    BY <2>1, <2>2
<1> QED
  BY <1>7, <1>8, <1>9, <1>10, <1>11, <1>12, <1>13

-----------------------------------------------------------------------------
(* The specification.                                                      *)

LEMMA InvInit == Init => IInv
<1> SUFFICES ASSUME Init  PROVE IInv
  OBVIOUS
<1> USE DEF Init
<1>1. free \in Seq(Interpreters) /\ Elements(free) = {1} /\ Distinct(free) /\ Len(free) = 1
  <2>1. DOMAIN free = {1} /\ free[1] = 1
    OBVIOUS
  <2>2. free \in Seq(Interpreters) /\ Len(free) = 1
    BY InterpreterNumbers
  <2> QED
    BY <2>1, <2>2 DEF Elements, Distinct
<1>2. TypeOK
  BY <1>1, EmptySeq, InterpreterNumbers DEF TypeOK, PCs
<1>3. Counted
  <2>1. Settled = {}
    BY DEF Settled
  <2> QED
    BY <2>1, FS_EmptySet DEF Counted
<1>4. MadeBefore
  BY <1>1, ElementsEmpty DEF MadeBefore, NoInterpreter
<1>5. Loans /\ Apart /\ Shut
  BY <1>1, ElementsEmpty DEF Loans, Apart, Shut, Holding
<1>6. Operated
  BY ProgramAssumption DEF Operated
<1>7. Rewound
  BY <1>1, InterpreterNumbers DEF Rewound, Fresh
<1>8. Placed
  BY <1>1 DEF Placed, Somewhere
<1>9. IdleBound
  BY <1>1, ProgramAssumption DEF IdleBound
<1> QED
  BY <1>2, <1>3, <1>4, <1>5, <1>6, <1>7, <1>8, <1>9 DEF IInv

LEMMA InvNext ==
  ASSUME IInv, [Next]_vars
  PROVE  IInv'
<1>1. TypeOK'
  BY TypeStep DEF IInv
<1>2. TypeOK /\ Operated /\ Loans
  BY DEF IInv
<1> USE DEF Goto
<1>3. ASSUME NEW r \in Runs, RunEnters(r) \/ RunRefused(r) \/ MakeFails(r)  PROVE IInv'
  <2>1. /\ \E to \in {"done", "acquire"} : pc' = [pc EXCEPT ![r] = to]
        /\ pc[r] \in {"idle", "acquire", "make"}
        /\ pc[r] = "make" => pc' = [pc EXCEPT ![r] = "done"]
        /\ UNCHANGED <<pool, interpreters, lent, taken>>
    BY <1>3 DEF RunEnters, RunRefused, MakeFails
  <2>2. PICK to \in {"done", "acquire"} : pc' = [pc EXCEPT ![r] = to]
    BY <2>1
  <2>3. to \in PCs /\ (Holding(r) <=> to \notin {"acquire", "make", "done"})
    BY <2>1, <2>2 DEF PCs, Holding
  <2>4. \A i \in Interpreters : op[i] # r
    BY <1>2, <2>1 DEF Operated, Lending
  <2> QED
    BY <1>1, <2>1, <2>2, <2>3, <2>4, RunGoesOn DEF pool, interpreters
<1>4. ASSUME NEW r \in Runs, Take(r)  PROVE IInv'
  <2>1. CASE free = <<>>
    <3>1. /\ pc[r] = "acquire" /\ pc' = [pc EXCEPT ![r] = "make"]
          /\ UNCHANGED <<free, closed, interpreters, lent, taken>>
      BY <1>4, <2>1 DEF Take
    <3>2. "make" \in PCs /\ ~Holding(r)
      BY <3>1 DEF PCs, Holding
    <3>3. \A i \in Interpreters : op[i] # r
      BY <1>2, <3>1 DEF Operated, Lending
    <3> QED
      BY <1>1, <3>1, <3>2, <3>3, RunGoesOn DEF interpreters
  <2>2. CASE free # <<>>
    BY <1>1, <1>4, <2>2, TakeKeeps
  <2> QED
    BY <2>1, <2>2
<1>5. ASSUME NEW r \in Runs, Make(r)  PROVE IInv'
  BY <1>1, <1>5, MakeKeeps
<1>6. ASSUME NEW r \in Runs, Vet(r)  PROVE IInv'
  <2>1. CASE state[lent[r]] = "open"
    <3>1. /\ pc[r] = "vet" /\ pc' = [pc EXCEPT ![r] = "running"]
          /\ UNCHANGED <<pool, made, state, dirty, op, lent, taken>>
      BY <1>6, <2>1 DEF Vet, Lend
    <3>2. "running" \in PCs /\ "running" \in Lending /\ Holding(r)
      BY <3>1 DEF PCs, Lending, Holding
    <3> QED
      BY <1>1, <3>1, <3>2, RunGoesOn DEF pool
  <2>2. CASE state[lent[r]] # "open"
    BY <1>1, <1>6, <2>2, VetKeeps
  <2> QED
    BY <2>1, <2>2
<1>7. ASSUME NEW r \in Runs, FnReturns(r) \/ CloseLoan(r) \/ Stop(r) \/ Release(r) \/ RestoreFails(r)
      PROVE  IInv'
  <2>1. PICK to \in {"returned", "stop", "release", "restore", "discard"} :
          /\ pc' = [pc EXCEPT ![r] = to]
          /\ pc[r] \in {"running", "returned", "stop", "release", "restore"}
          /\ pc[r] = "running" => to = "returned"
          /\ pc[r] = "returned" => op[lent[r]] # r
          /\ UNCHANGED <<pool, interpreters, lent, taken>>
    BY <1>7 DEF FnReturns, CloseLoan, Stop, Release, RestoreFails
  <2>2. Holding(r) /\ to \in PCs
    BY <2>1 DEF Holding, PCs, Lending
  <2>3. \A i \in Interpreters : op[i] = r => to \in Lending
    BY <1>2, <2>1 DEF Operated, Lending
  <2> QED
    BY <1>1, <2>1, <2>2, <2>3, RunGoesOn DEF pool, interpreters
<1>8. ASSUME NEW r \in Runs, Restore(r) \/ Discard(r)  PROVE IInv'
  <2>1. /\ pc[r] \in {"restore", "discard"} /\ op[lent[r]] = NoRun
        /\ UNCHANGED <<pool, made, op, lent, taken>>
    BY <1>8 DEF Restore, Discard
  <2>2. Holding(r) /\ lent[r] \in Interpreters /\ r # NoRun
    BY <1>2, <2>1, Facts, ProgramAssumption DEF Holding, Loans
  <2>3. CASE Restore(r)
    <3>1. /\ pc' = [pc EXCEPT ![r] = "recheck"]
          /\ state' = [state EXCEPT ![lent[r]] = "open"]
          /\ dirty' = dirty \ {lent[r]}
      BY <2>3 DEF Restore
    <3>2. "recheck" \in PCs /\ Fresh(lent[r])'
      BY <1>2, <2>1, <2>2, <3>1, Facts DEF PCs, Fresh
    <3>3. \A j \in Interpreters : j # lent[r] => state'[j] = state[j] /\ (j \in dirty' <=> j \in dirty)
      BY <1>2, <3>1, Facts
    <3> QED
      BY <1>1, <2>1, <2>2, <3>1, <3>2, <3>3, AtOwnInterpreter DEF pool
  <2>4. CASE Discard(r)
    <3>1. /\ pc' = [pc EXCEPT ![r] = "done"]
          /\ state' = [state EXCEPT ![lent[r]] = "closed"]
          /\ dirty' = dirty
      BY <2>4 DEF Discard
    <3>2. "done" \in PCs /\ state'[lent[r]] = "closed"
      BY <1>2, <2>2, <3>1, Facts DEF PCs
    <3>3. \A j \in Interpreters : j # lent[r] => state'[j] = state[j] /\ (j \in dirty' <=> j \in dirty)
      BY <1>2, <3>1, Facts
    <3> QED
      BY <1>1, <2>1, <2>2, <3>1, <3>2, <3>3, AtOwnInterpreter DEF pool
  <2> QED
    BY <1>8, <2>3, <2>4
<1>9. ASSUME NEW r \in Runs, Recheck(r)  PROVE IInv'
  <2>1. CASE HasRoom
    BY <1>1, <1>9, <2>1, RecheckKeeps
  <2>2. CASE ~HasRoom
    <3>1. /\ pc[r] = "recheck" /\ pc' = [pc EXCEPT ![r] = "discard"]
          /\ UNCHANGED <<free, closed, interpreters, lent, taken>>
      BY <1>9, <2>2 DEF Recheck
    <3>2. "discard" \in PCs /\ Holding(r)
      BY <3>1 DEF PCs, Holding
    <3>3. \A i \in Interpreters : op[i] # r
      BY <1>2, <3>1 DEF Operated, Lending
    <3> QED
      BY <1>1, <3>1, <3>2, <3>3, RunGoesOn DEF interpreters
  <2> QED
    BY <2>1, <2>2
<1>10. ASSUME NEW r \in Runs, OpBegins(r) \/ OpTraps(r)  PROVE IInv'
  <2>1. pc[r] \in Lending /\ lent[r] \in Interpreters /\ Holding(r)
    <3>1. CASE OpBegins(r)
      BY <1>2, <1>10, <3>1, Facts DEF OpBegins, Loans, Holding, Lending
    <3>2. CASE OpTraps(r)
      BY <1>2, <1>10, <3>2, Facts DEF OpTraps, Operated, Holding, Lending
    <3> QED
      BY <1>10, <3>1, <3>2
  <2>2. /\ op' \in {[op EXCEPT ![lent[r]] = r], [op EXCEPT ![lent[r]] = NoRun]}
        /\ dirty' \in {dirty, dirty \cup {lent[r]}}
        /\ state' \in {state, [state EXCEPT ![lent[r]] = "trapped"]}
        /\ UNCHANGED <<free, closed, made, pc, lent, taken>>
    BY <1>10 DEF OpBegins, OpTraps, pool
  <2>3. pc' = [pc EXCEPT ![r] = pc[r]]
    BY <1>2, <2>2, Facts
  <2>4. /\ pc[r] \in PCs
        /\ pc[r] \notin {"idle", "acquire", "make", "vet", "done", "recheck"}
    BY <2>1 DEF PCs, Lending
  <2>5. \A j \in Interpreters : op'[j] \in {op[j], NoRun} \/ (j = lent[r] /\ op'[j] = r)
    BY <1>2, <2>2, Facts
  <2>6. \A j \in Interpreters : j # lent[r] => state'[j] = state[j] /\ (j \in dirty' <=> j \in dirty)
    BY <1>2, <2>2, Facts
  <2> QED
    BY <1>1, <2>1, <2>2, <2>3, <2>4, <2>5, <2>6, AtOwnInterpreter
<1>11. ASSUME NEW r \in Runs, OpReturns(r) \/ OpInterrupted(r) \/ Expire(r) \/ AfterStarts(r)
                 \/ AfterCancels(r)
       PROVE  IInv'
  <2>1. /\ UNCHANGED <<free, closed, made, state, dirty, pc, lent, taken>>
        /\ op' \in {op, [op EXCEPT ![lent[r]] = NoRun]}
    BY <1>11 DEF OpReturns, OpInterrupted, Expire, AfterStarts, AfterCancels, pool, interpreters
  <2>2. \A i \in Interpreters : op'[i] \in {op[i], NoRun}
    BY <1>2, <2>1, Facts
  <2> QED
    BY <1>1, <2>1, <2>2, NothingMoves
<1>12. ASSUME NEW c \in Closers, CloseTakes(c)  PROVE IInv'
  BY <1>1, <1>12, CloseTakesKeeps
<1>13. ASSUME NEW c \in Closers, CloseOne(c)  PROVE IInv'
  BY <1>1, <1>13, CloseOneKeeps
<1>14. CASE UNCHANGED vars
  BY <1>1, <1>14, NothingMoves DEF vars, pool, interpreters
<1> QED
  BY <1>3, <1>4, <1>5, <1>6, <1>7, <1>8, <1>9, <1>10, <1>11, <1>12, <1>13, <1>14
  DEF Next, RunStep

LEMMA InvAlways == Spec => []IInv
BY InvInit, InvNext, PTL DEF Spec

\* The variables of the pool have their types; there is a number for every
\* interpreter that is made (program.go:83).
THEOREM ProgramTypeCorrect == Spec => []TypeOK
<1>1. IInv => TypeOK
  BY DEF IInv
<1> QED
  BY <1>1, InvAlways, PTL

\* A set of which any two members are the same counts one at most.
LEMMA AtMostOne ==
  ASSUME NEW S, \A x, y \in S : x = y
  PROVE  Cardinality(S) \in {0, 1} /\ (S = {} => Cardinality(S) = 0)
<1>1. CASE S = {}
  BY <1>1, FS_EmptySet
<1>2. CASE S # {}
  <2>1. PICK x \in S : TRUE
    BY <1>2
  <2>2. S = {x}
    BY <2>1
  <2> QED
    BY <1>2, <2>2, FS_Singleton
<1> QED
  BY <1>1, <1>2

LEMMA OneOwnerFollows == IInv => OneOwner
<1> SUFFICES ASSUME IInv, NEW i \in 1 .. made
             PROVE  Cardinality({r \in Runs : Has(r, i)})
                    + Cardinality({k \in DOMAIN free : free[k] = i})
                    + Cardinality({c \in Closers : \E k \in DOMAIN taken[c] : taken[c][k] = i}) <= 1
  BY DEF OneOwner
<1> DEFINE A == {r \in Runs : Has(r, i)}
           B == {k \in DOMAIN free : free[k] = i}
           C == {c \in Closers : \E k \in DOMAIN taken[c] : taken[c][k] = i}
<1> USE DEF IInv
<1>1. i # NoInterpreter
  BY Facts DEF NoInterpreter
<1>2. \A r \in A : Holding(r) /\ lent[r] = i
  BY <1>1 DEF Has, Loans, Holding
<1>3. \A k \in B : i \in Elements(free)
  BY DEF Elements
<1>4. \A c \in C : i \in Elements(taken[c]) /\ taken[c] # <<>>
  BY ElementsEmpty DEF Elements
<1>5. (\A x, y \in A : x = y) /\ (\A x, y \in B : x = y) /\ (\A x, y \in C : x = y)
  <2>1. \A x, y \in A : x = y
    BY <1>2 DEF Loans
  <2>2. \A x, y \in B : x = y
    BY DEF Apart, Distinct
  <2>3. \A x, y \in C : x = y
    BY <1>4 DEF Shut
  <2> QED
    BY <2>1, <2>2, <2>3
<1>6. A = {} \/ (B = {} /\ C = {})
  BY <1>2, <1>3, <1>4 DEF Apart
<1>7. B = {} \/ C = {}
  <2>1. B # {} => free # <<>>
    BY <1>3, ElementsEmpty
  <2>2. C # {} => closed
    BY <1>4, Facts DEF Shut, TypeOK
  <2> QED
    BY <2>1, <2>2 DEF Shut
<1> HIDE DEF A, B, C
<1>8. /\ Cardinality(A) \in {0, 1} /\ (A = {} => Cardinality(A) = 0)
      /\ Cardinality(B) \in {0, 1} /\ (B = {} => Cardinality(B) = 0)
      /\ Cardinality(C) \in {0, 1} /\ (C = {} => Cardinality(C) = 0)
  BY <1>5, AtMostOne
<1>9. Cardinality(A) + Cardinality(B) + Cardinality(C) <= 1
  BY <1>6, <1>7, <1>8
<1> QED
  BY <1>9 DEF A, B, C

\* An interpreter is with one run, one Close or the pool, however the sections under
\* Program.mu interleave (program.go:188-249).
THEOREM ProgramOneOwner == Spec => []OneOwner
BY InvAlways, OneOwnerFollows, PTL

LEMMA FreshFollows == IInv => PooledAreFresh
<1> SUFFICES ASSUME IInv, NEW i \in Contents
             PROVE  state[i] = "open" /\ i \notin dirty /\ op[i] = NoRun
  BY DEF PooledAreFresh
<1> USE DEF IInv
<1>1. i \in Elements(free) /\ i \in Interpreters
  BY Facts DEF Contents, Elements
<1>2. op[i] = NoRun
  <2>1. op[i] \notin Runs
    BY <1>1 DEF Operated, Apart, Holding, Lending
  <2> QED
    BY <1>1, <2>1, Facts
<1> QED
  BY <1>1, <1>2 DEF Rewound, Fresh

\* What the pool lends has been rewound and nobody is at it any more
\* (program.go:214-238).
THEOREM ProgramPooledAreFresh == Spec => []PooledAreFresh
BY InvAlways, FreshFollows, PTL

\* The pool never keeps more than WithMaxIdle allows.
THEOREM ProgramIdleBound == Spec => []IdleBound
<1>1. IInv => IdleBound
  BY DEF IInv
<1> QED
  BY <1>1, InvAlways, PTL

LEMMA NothingLeaksFollows == IInv => NothingLeaks
<1> SUFFICES ASSUME IInv, closed, \A r \in Runs : pc[r] \in {"idle", "done"},
                    \A c \in Closers : taken[c] = <<>>, NEW i \in 1 .. made
             PROVE  state[i] = "closed"
  BY DEF NothingLeaks
<1>1. Somewhere(i)
  BY DEF IInv, Placed
<1>2. i \notin Elements(free)
  BY ElementsEmpty DEF IInv, Shut
<1>3. \A c \in Closers : i \notin Elements(taken[c])
  BY ElementsEmpty
<1>4. \A r \in Runs : ~Holding(r)
  BY DEF Holding
<1> QED
  BY <1>1, <1>2, <1>3, <1>4 DEF Somewhere

\* Once the Program is closed and everything has returned, every interpreter is
\* closed, that of a run which was rewinding during Close too.
THEOREM ProgramNothingLeaks == Spec => []NothingLeaks
BY InvAlways, NothingLeaksFollows, PTL
=============================================================================
