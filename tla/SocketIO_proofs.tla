-------------------------- MODULE SocketIO_proofs ---------------------------
(***************************************************************************)
(* What holds of the blocking calls of a socket, for any number of calls.  *)
(*                                                                         *)
(* The deadline of a connection outlives the call that was interrupted     *)
(* through it.  A later call is safe because (1) an AfterFunc exists only  *)
(* between Arm and Finish of its own call, which joins it, (2) once it has *)
(* started, the context of that call has ended, and (3) Prepare sets the   *)
(* deadline anew.  The two counters are exact at every step: what the      *)
(* connection has moved is told or on its way to the guest, and what was   *)
(* dialled is the socket's or in the hands of the call.                    *)
(***************************************************************************)
EXTENDS SocketIO, TLAPS

PCs == {"idle", "dial", "dialling", "dialled", "prepare send", "prepare recv",
        "arm send", "arm recv", "send", "recv", "sent", "received", "finish"}

Dialling == {"dial", "dialling", "dialled"}
Prepared == {"arm send", "arm recv", "send", "recv", "sent", "received"}
Watched == {"send", "recv", "sent", "received", "finish"}

Typed == TypeOK /\ pc \in PCs

\* The socket stays while a call is on it.
Busy ==
  /\ pc # "idle" => socket.state = "new" /\ call \in Calls
  /\ socket.state = "closed" => conn.state # "open"
  /\ pc \in Dialling => conn.state = "none"

\* An AfterFunc belongs to the call that runs, and starts when its context ends.
AfterInStep ==
  /\ \A c \in Calls : after[c] # "none" => c = call /\ pc \in Watched
  /\ \A c \in Calls : after[c] \in {"running", "done", "failed"} => op.ended

\* A deadline in the past was put there by this call, once it was prepared.
OwnDeadline ==
  pc \in Prepared /\ conn.pokable /\ deadline = "past" => op.ended

\* What has moved and was not told yet.
Untold ==
  IF pc \in {"sent", "received"} THEN result.n
  ELSE IF pc = "finish" /\ status = "count" THEN 1
  ELSE 0

Counts == moved = told + Untold

\* What was dialled and is not the socket's yet.
InHand == IF pc = "dialled" THEN result.n ELSE 0

Connections == dialled = (IF conn.state = "open" THEN 1 ELSE 0) + InHand

IInv ==
  /\ Typed /\ Busy /\ AfterInStep /\ OwnDeadline /\ OwnInterruption /\ Counts /\ Connections

-----------------------------------------------------------------------------
\* The calls are numbers.
LEMMA CallNumbers ==
  /\ MaxCalls \in Nat
  /\ \A c \in 0 .. MaxCalls : c \in Nat /\ (c < MaxCalls => c + 1 \in Calls /\ c + 1 \in 0 .. MaxCalls)
BY CallsAssumption DEF Calls

\* What a connection returns: a count that can be, with an error that may be kept.
LEMMA ResultFacts ==
  /\ \A r \in Results : r.n \in {0, 1} /\ (r # Breach => r.err \in Errors)
  /\ \A n \in {0, 1}, err \in Errors : [n |-> n, err |-> err] \in Results
  /\ Breach \in Results /\ Breach.n = 0 /\ Breach.err = "breach"
BY DEF Results, Breach

\* Most steps of a call change little that the types are about.
LEMMA TypesStay ==
  ASSUME TypeOK,
         UNCHANGED <<ctx, socket, conn, call, op, result, moved, dialled>>,
         deadline' \in {"none", "when", "past"},
         after' \in [Calls -> {"none", "armed", "running", "done", "failed"}],
         status' \in Statuses,
         told' \in Nat
  PROVE  TypeOK'
<1>1. ctx' \in {"live", "ended"} /\ call' \in 0 .. MaxCalls
  BY DEF TypeOK
<1>2. socket' \in [state : {"new", "closed"}, timeout : BOOLEAN, readErr : Errors,
                  keepAlive : BOOLEAN]
  BY DEF TypeOK
<1>3. conn' \in [state : {"none", "open", "closed"}, pokable : BOOLEAN]
  BY DEF TypeOK
<1>4. op' \in [ended : BOOLEAN, timed : BOOLEAN, expired : BOOLEAN]
  BY DEF TypeOK
<1>5. result' \in Results
  BY DEF TypeOK
<1>6. moved' \in Nat /\ dialled' \in Nat
  BY DEF TypeOK
<1> QED
  BY <1>1, <1>2, <1>3, <1>4, <1>5, <1>6 DEF TypeOK

\* Others change the socket, the context, the operation or the status only.
LEMMA FieldsStay ==
  ASSUME TypeOK,
         UNCHANGED <<conn, deadline, call, after, result, moved, told, dialled>>,
         ctx' \in {"live", "ended"},
         socket' \in [state : {"new", "closed"}, timeout : BOOLEAN, readErr : Errors,
                     keepAlive : BOOLEAN],
         op' \in [ended : BOOLEAN, timed : BOOLEAN, expired : BOOLEAN],
         pc' \in PCs,
         status' \in Statuses
  PROVE  Typed'
<1>1. conn' \in [state : {"none", "open", "closed"}, pokable : BOOLEAN]
  BY DEF TypeOK
<1>2. deadline' \in {"none", "when", "past"} /\ call' \in 0 .. MaxCalls
  BY DEF TypeOK
<1>3. after' \in [Calls -> {"none", "armed", "running", "done", "failed"}]
  BY DEF TypeOK
<1>4. result' \in Results
  BY DEF TypeOK
<1>5. moved' \in Nat /\ told' \in Nat /\ dialled' \in Nat
  BY DEF TypeOK
<1> QED
  BY <1>1, <1>2, <1>3, <1>4, <1>5 DEF Typed, TypeOK

LEMMA InvInit == Init => IInv
BY CallsAssumption
DEF Init, IInv, Typed, TypeOK, PCs, Busy, AfterInStep, OwnDeadline, OwnInterruption, Counts,
    Untold, Connections, InHand, NewSocket, NoConn, NoResult, Results, Errors, Statuses,
    Dialling, Prepared, Watched

\* The context of the running call ends: nothing else changes.
LEMMA EndsKeeps ==
  ASSUME IInv, Ends, ctx' \in {"live", "ended"},
         UNCHANGED <<socket, conn, deadline, call, pc, result, status, moved, told, dialled>>
  PROVE  IInv'
<1> USE DEF IInv
<1>1. op' \in [ended : BOOLEAN, timed : BOOLEAN, expired : BOOLEAN] /\ op'.ended
      /\ op'.expired = op.expired
  BY DEF Ends, Typed, TypeOK
<1>2. /\ after' \in [Calls -> {"none", "armed", "running", "done", "failed"}]
      /\ \A c \in Calls : after'[c] # "none" => after[c] # "none"
  BY DEF Ends, Typed, TypeOK
<1>3. Typed'
  BY <1>1, <1>2 DEF Typed, TypeOK
<1>4. Busy' /\ AfterInStep' /\ OwnDeadline' /\ OwnInterruption'
  BY <1>1, <1>2 DEF Busy, AfterInStep, OwnDeadline, OwnInterruption
<1>5. Counts' /\ Connections'
  BY DEF Counts, Untold, Connections, InHand
<1> QED
  BY <1>3, <1>4, <1>5

\* A call begins: it has no AfterFunc yet, and nothing in its hands.
LEMMA StartsKeeps ==
  ASSUME IInv, NEW first \in {"dial", "prepare send", "prepare recv"}, Starts(first),
         status' = "none", first = "dial" => conn.state = "none"
  PROVE  IInv'
<1> USE DEF IInv
<1>1. /\ pc = "idle" /\ socket.state = "new" /\ pc' = first
      /\ call' = call + 1 /\ call' \in Calls /\ call' \in 0 .. MaxCalls
      /\ op' \in [ended : BOOLEAN, timed : BOOLEAN, expired : BOOLEAN]
      /\ result' = NoResult
      /\ UNCHANGED <<ctx, socket, conn, deadline, after, moved, told, dialled>>
  <2>1. call' = call + 1 /\ call < MaxCalls
    BY DEF Starts
  <2>2. call \in 0 .. MaxCalls
    BY DEF Typed, TypeOK
  <2>3. call' \in Calls /\ call' \in 0 .. MaxCalls
    BY <2>1, <2>2, CallNumbers
  <2>4. op' \in [ended : BOOLEAN, timed : BOOLEAN, expired : BOOLEAN]
    BY DEF Starts, Typed, TypeOK
  <2> QED
    BY <2>1, <2>3, <2>4 DEF Starts
<1>2. Typed'
  <2>1. result' \in Results
    BY <1>1, ResultFacts DEF NoResult, Errors
  <2>2. pc' \in PCs /\ status' \in Statuses
    BY <1>1 DEF PCs, Statuses
  <2>3. /\ ctx' \in {"live", "ended"}
        /\ deadline' \in {"none", "when", "past"}
        /\ moved' \in Nat /\ told' \in Nat /\ dialled' \in Nat
    BY <1>1 DEF Typed, TypeOK
  <2>4. /\ socket' \in [state : {"new", "closed"}, timeout : BOOLEAN, readErr : Errors,
                        keepAlive : BOOLEAN]
        /\ conn' \in [state : {"none", "open", "closed"}, pokable : BOOLEAN]
    BY <1>1 DEF Typed, TypeOK
  <2>5. after' \in [Calls -> {"none", "armed", "running", "done", "failed"}]
    BY <1>1 DEF Typed, TypeOK
  <2> QED
    BY <1>1, <2>1, <2>2, <2>3, <2>4, <2>5 DEF Typed, TypeOK
<1>3. Busy'
  BY <1>1 DEF Busy, Dialling
<1>4. \A c \in Calls : after[c] = "none"
  BY <1>1 DEF AfterInStep, Watched
<1>5. AfterInStep'
  BY <1>1, <1>4 DEF AfterInStep
<1>6. OwnDeadline' /\ OwnInterruption'
  BY <1>1 DEF OwnDeadline, OwnInterruption, Prepared
<1>7. Counts' /\ Connections'
  BY <1>1 DEF Counts, Untold, Connections, InHand
<1> QED
  BY <1>2, <1>3, <1>5, <1>6, <1>7

\* A call returns before it has an AfterFunc, with nothing in its hands.
LEMMA ReturnsEarly ==
  ASSUME IInv, NEW s \in Statuses, Return(s),
         pc \in {"prepare send", "prepare recv", "dial"},
         UNCHANGED <<ctx, socket, conn, deadline, call, op, after, result, moved, told, dialled>>
  PROVE  IInv'
<1> USE DEF IInv
<1>1. pc' = "idle" /\ status' = s
  BY DEF Return
<1>2. TypeOK' /\ pc' \in PCs
  <2>1. TypeOK'
    BY <1>1, TypesStay DEF Typed, TypeOK
  <2> QED
    BY <1>1, <2>1 DEF PCs
<1>5. Typed' /\ Busy' /\ OwnDeadline' /\ OwnInterruption'
  BY <1>1, <1>2 DEF Typed, Busy, OwnDeadline, OwnInterruption, Prepared, Dialling
<1>3. AfterInStep'
  BY <1>1 DEF AfterInStep, Watched
<1>4. Counts' /\ Connections'
  BY <1>1 DEF Counts, Untold, Connections, InHand
<1> QED
  BY <1>3, <1>4, <1>5

\* The AfterFunc moves the deadline of its own call, or closes the connection.
LEMMA PokesKeeps ==
  ASSUME IInv, NEW c \in Calls, Pokes(c)
  PROVE  IInv'
<1> USE DEF IInv
<1>1. /\ after[c] = "running" /\ op.ended /\ c = call /\ pc \in Watched
      /\ UNCHANGED <<ctx, socket, call, pc, op, result, status, moved, told>>
  BY DEF Pokes, AfterInStep
<1>2. PICK to \in {"done", "failed"} : after' = [after EXCEPT ![c] = to]
  BY DEF Pokes
<1>3. AfterInStep'
  BY <1>1, <1>2 DEF AfterInStep, Typed, TypeOK
<1>4. \/ conn' = conn /\ dialled' = dialled /\ deadline' = "past"
      \/ /\ conn' = [conn EXCEPT !.state = "closed"] /\ deadline' = deadline
         /\ dialled' = IF conn.state = "open" THEN dialled - 1 ELSE dialled
  BY DEF Pokes
<1>5. pc \notin Dialling /\ InHand = 0 /\ InHand' = 0
  BY <1>1 DEF Watched, Dialling, InHand
<1>6. Connections' /\ dialled' \in Nat
  BY <1>4, <1>5 DEF Connections, Typed, TypeOK
<1>7. Typed'
  BY <1>1, <1>2, <1>4, <1>6 DEF Typed, TypeOK
<1>8. Busy'
  BY <1>1, <1>4, <1>5 DEF Busy, Typed, TypeOK
<1>9. OwnDeadline' /\ OwnInterruption' /\ Counts'
  BY <1>1 DEF OwnDeadline, OwnInterruption, Counts, Untold
<1> QED
  BY <1>3, <1>6, <1>7, <1>8, <1>9

\* The connection returns; it reports its deadline only where that has passed.
LEMMA ReturnedKeeps ==
  ASSUME IInv, NEW n \in {0, 1}, NEW err, [n |-> n, err |-> err] \in Results, Returned(n, err),
         pc \in {"send", "recv"},
         err = "timeout" => op.ended \/ op.expired
  PROVE  IInv'
<1> USE DEF IInv
<1>1. /\ result' = [n |-> n, err |-> err] /\ moved' = moved + n
      /\ pc' \in {"sent", "received"}
      /\ UNCHANGED <<ctx, socket, conn, deadline, call, op, after, status, told, dialled>>
  BY DEF Returned
<1>2. Typed'
  <2>1. pc' \in PCs
    BY <1>1 DEF Typed, PCs
  <2>2. TypeOK'
    BY <1>1 DEF Typed, TypeOK
  <2> QED
    BY <2>1, <2>2 DEF Typed
<1>3. Busy' /\ AfterInStep' /\ OwnDeadline' /\ OwnInterruption'
  BY <1>1 DEF Busy, AfterInStep, OwnDeadline, OwnInterruption, Dialling, Watched, Prepared
<1>4. Counts' /\ Connections'
  BY <1>1 DEF Counts, Untold, Connections, InHand, Typed, TypeOK
<1> QED
  BY <1>2, <1>3, <1>4

\* The status keeps whether there was data.
LEMMA EvaluateKeeps ==
  ASSUME IInv, Evaluate
  PROVE  IInv'
<1> USE DEF IInv
<1>1. /\ pc \in {"sent", "received"} /\ pc' = "finish"
      /\ UNCHANGED <<ctx, conn, deadline, call, op, after, result, moved, told, dialled>>
      /\ \/ socket' = socket
         \/ result.n > 0 /\ socket' = [socket EXCEPT !.readErr = result.err]
  BY DEF Evaluate
<1>2. /\ result.n \in {0, 1} /\ result \in Results
      /\ result # Breach => result.err \in Errors
      /\ result = Breach => result.n = 0
  BY ResultFacts DEF Typed, TypeOK
<1>3. status' \in Statuses /\ (status' = "count" <=> result.n = 1)
  <2>1. ASSUME NEW s \in Statuses, NEW done \in BOOLEAN, s = IoResult(result, done)
        PROVE  s = "count" <=> result.n = 1
    BY <1>2, <2>1 DEF IoResult, StatusOf, Errors
  <2>2. \A done \in BOOLEAN : IoResult(result, done) \in Statuses
    BY <1>2 DEF IoResult, StatusOf, Statuses, Errors
  <2>3. op.ended \in BOOLEAN
    BY DEF Typed, TypeOK
  <2>4. CASE status' = IoResult(result, op.ended)
    BY <2>1, <2>2, <2>3, <2>4
  <2>5. CASE status' = "error" /\ result.n = 0
    BY <2>5 DEF Statuses
  <2>6. status' = IoResult(result, op.ended) \/ (status' = "error" /\ result.n = 0)
    BY DEF Evaluate, SendStatus
  <2> QED
    BY <2>4, <2>5, <2>6
<1>4. Typed'
  <2>1. socket' \in [state : {"new", "closed"}, timeout : BOOLEAN, readErr : Errors,
                    keepAlive : BOOLEAN]
    BY <1>1, <1>2 DEF Typed, TypeOK
  <2>2. ctx' \in {"live", "ended"} /\ op' \in [ended : BOOLEAN, timed : BOOLEAN, expired : BOOLEAN]
    BY <1>1 DEF Typed, TypeOK
  <2>3. pc' \in PCs
    BY <1>1 DEF PCs
  <2> QED
    BY <1>1, <1>3, <2>1, <2>2, <2>3, FieldsStay DEF Typed
<1>5. Busy' /\ AfterInStep' /\ OwnDeadline' /\ OwnInterruption'
  BY <1>1 DEF Busy, AfterInStep, OwnDeadline, OwnInterruption, Dialling, Watched, Prepared,
              Typed, TypeOK
<1>6. Counts' /\ Connections'
  BY <1>1, <1>2, <1>3 DEF Counts, Untold, Connections, InHand
<1> QED
  BY <1>4, <1>5, <1>6

\* No AfterFunc is left when the call returns.
LEMMA FinishKeeps ==
  ASSUME IInv, Finish
  PROVE  IInv'
<1> USE DEF IInv
<1>1. /\ pc = "finish" /\ pc' = "idle"
      /\ after' = [after EXCEPT ![call] = "none"]
      /\ told' = IF status = "count" THEN told + 1 ELSE told
      /\ status' \in {status, "error"}
      /\ UNCHANGED <<ctx, socket, conn, deadline, call, op, result, moved, dialled>>
  BY DEF Finish, Return
<1>2. Typed'
  <2>1. pc' \in PCs
    BY <1>1 DEF Typed, PCs
  <2>2. TypeOK'
    <3>1. told' \in Nat /\ status' \in Statuses
      BY <1>1 DEF Typed, TypeOK, Statuses
    <3>2. after' \in [Calls -> {"none", "armed", "running", "done", "failed"}]
      BY <1>1 DEF Typed, TypeOK
    <3>3. TypeOK /\ deadline' \in {"none", "when", "past"}
      BY <1>1 DEF Typed, TypeOK
    <3> QED
      BY <1>1, <3>1, <3>2, <3>3, TypesStay
  <2> QED
    BY <2>1, <2>2 DEF Typed
<1>3. \A c \in Calls : after'[c] = "none"
  BY <1>1 DEF AfterInStep, Typed, TypeOK
<1>4. Busy' /\ AfterInStep' /\ OwnDeadline' /\ OwnInterruption'
  BY <1>1, <1>3 DEF Busy, AfterInStep, OwnDeadline, OwnInterruption, Dialling, Prepared
<1>5. Counts' /\ Connections'
  BY <1>1 DEF Counts, Untold, Connections, InHand, Typed, TypeOK
<1> QED
  BY <1>2, <1>4, <1>5

\* A connection that was dialled becomes the socket's, or is closed.
LEMMA DialledKeeps ==
  ASSUME IInv, ConnectFails \/ Connected
  PROVE  IInv'
<1> USE DEF IInv
<1>1. /\ pc = "dialled" /\ pc' = "idle" /\ status' \in Statuses
      /\ \/ conn' = conn /\ dialled' = dialled - result.n
         \/ /\ \E p \in BOOLEAN : conn' = [state |-> "open", pokable |-> p]
            /\ dialled' = dialled /\ result.n = 1
      /\ UNCHANGED <<ctx, socket, deadline, call, op, after, result, moved, told>>
  BY DEF ConnectFails, Connected, Return, Statuses
<1>2. conn.state = "none" /\ socket.state = "new" /\ result.n \in {0, 1} /\ dialled = result.n
  BY <1>1, ResultFacts DEF Busy, Dialling, Connections, InHand, Typed, TypeOK
<1>3. Connections' /\ dialled' \in Nat
  <2>1. CASE conn' = conn /\ dialled' = dialled - result.n
    BY <1>1, <1>2, <2>1 DEF Connections, InHand
  <2>2. CASE conn'.state = "open" /\ dialled' = 1
    BY <1>1, <2>2 DEF Connections, InHand
  <2> QED
    BY <1>1, <1>2, <2>1, <2>2
<1>4. Typed'
  BY <1>1, <1>3 DEF Typed, TypeOK, PCs
<1>5. Busy' /\ OwnDeadline' /\ OwnInterruption' /\ Counts'
  BY <1>1, <1>2 DEF Busy, OwnDeadline, OwnInterruption, Counts, Untold, Dialling, Prepared
<1>6. AfterInStep'
  BY <1>1 DEF AfterInStep, Watched
<1> QED
  BY <1>3, <1>4, <1>5, <1>6

LEMMA InvNext ==
  ASSUME IInv, [Next]_vars
  PROVE  IInv'
<1>0. Typed /\ Busy
  BY DEF IInv
<1>1. CASE ContextEnds
  <2>1. CASE pc = "idle"
    BY <1>1, <2>1
    DEF ContextEnds, IInv, Typed, TypeOK, Busy, AfterInStep, OwnDeadline, OwnInterruption,
        Counts, Untold, Connections, InHand
  <2>2. CASE pc # "idle"
    BY <1>1, <2>2, EndsKeeps DEF ContextEnds
  <2> QED
    BY <2>1, <2>2
<1>2. CASE TimerFires
  BY <1>0, <1>2, EndsKeeps DEF TimerFires, Typed, TypeOK
<1>3. CASE SetContext \/ TimeIsUp \/ SetTimeout \/ SetKeepAlive \/ RecvDeferred
  <2>1. /\ UNCHANGED <<conn, deadline, call, pc, after, result, moved, told, dialled>>
        /\ op'.ended = op.ended
        /\ op.expired => op'.expired
        /\ socket'.state = socket.state
        /\ status' = status \/ (pc = "idle" /\ status' \in Statuses)
        /\ Typed'
    <3>0. /\ TypeOK /\ pc \in PCs /\ ctx \in {"live", "ended"} /\ status \in Statuses
          /\ socket \in [state : {"new", "closed"}, timeout : BOOLEAN, readErr : Errors,
                         keepAlive : BOOLEAN]
          /\ op \in [ended : BOOLEAN, timed : BOOLEAN, expired : BOOLEAN]
      BY <1>0 DEF Typed, TypeOK
    <3>1. CASE SetContext
      BY <3>0, <3>1, FieldsStay DEF SetContext
    <3>2. CASE TimeIsUp
      <4>1. /\ op' \in [ended : BOOLEAN, timed : BOOLEAN, expired : BOOLEAN]
            /\ op'.ended = op.ended /\ op'.expired
        BY <3>0, <3>2 DEF TimeIsUp
      <4> QED
        BY <3>0, <3>2, <4>1, FieldsStay DEF TimeIsUp
    <3>3. CASE SetTimeout
      <4>1. /\ socket' \in [state : {"new", "closed"}, timeout : BOOLEAN, readErr : Errors,
                            keepAlive : BOOLEAN]
            /\ socket'.state = socket.state
        BY <3>0, <3>3 DEF SetTimeout
      <4> QED
        BY <3>0, <3>3, <4>1, FieldsStay DEF SetTimeout
    <3>4. CASE SetKeepAlive
      <4>1. /\ socket' \in [state : {"new", "closed"}, timeout : BOOLEAN, readErr : Errors,
                            keepAlive : BOOLEAN]
            /\ socket'.state = socket.state
        BY <3>0, <3>4 DEF SetKeepAlive
      <4> QED
        BY <3>0, <3>4, <4>1, FieldsStay DEF SetKeepAlive
    <3>5. CASE RecvDeferred
      <4>1. status' \in Statuses
        BY <3>0, <3>5 DEF RecvDeferred, StatusOf, Errors, Statuses
      <4>2. /\ socket' \in [state : {"new", "closed"}, timeout : BOOLEAN, readErr : Errors,
                            keepAlive : BOOLEAN]
            /\ socket'.state = socket.state
        BY <3>0, <3>5 DEF RecvDeferred, Errors
      <4> QED
        BY <3>0, <3>5, <4>1, <4>2, FieldsStay DEF RecvDeferred
    <3> QED
      BY <1>3, <3>1, <3>2, <3>3, <3>4, <3>5
  <2>2. Busy' /\ AfterInStep' /\ OwnDeadline' /\ OwnInterruption'
    BY <2>1 DEF IInv, Busy, AfterInStep, OwnDeadline, OwnInterruption
  <2>3. Counts' /\ Connections'
    BY <2>1 DEF IInv, Counts, Untold, Connections, InHand
  <2> QED
    BY <2>1, <2>2, <2>3 DEF IInv
<1>4. ASSUME NEW c \in Calls, Pokes(c)  PROVE IInv'
  BY <1>4, PokesKeeps
<1>5. CASE CloseSocket \/ OpenSocket
  <2>1. /\ pc = "idle" /\ UNCHANGED <<ctx, call, pc, op, after, result, moved, told, status>>
        /\ conn'.state # "open" /\ dialled' = 0
        /\ Typed'
    <3>1. CASE CloseSocket
      BY <1>0, <3>1 DEF CloseSocket, IInv, Typed, TypeOK, Connections, InHand
    <3>2. CASE OpenSocket
      BY <1>0, <3>2
      DEF OpenSocket, IInv, Typed, TypeOK, Connections, InHand, Busy, NewSocket, NoConn, Errors
    <3> QED
      BY <1>5, <3>1, <3>2
  <2>2. Busy' /\ AfterInStep' /\ OwnDeadline' /\ OwnInterruption'
    BY <2>1 DEF IInv, Busy, AfterInStep, OwnDeadline, OwnInterruption, Dialling, Prepared
  <2>3. Counts' /\ Connections'
    BY <2>1 DEF IInv, Counts, Untold, Connections, InHand
  <2> QED
    BY <2>1, <2>2, <2>3 DEF IInv
<1>6. CASE Connect \/ Send \/ Recv
  BY <1>6, StartsKeeps DEF Connect, Send, Recv
<1>7. CASE DialRefused
  BY <1>7, ReturnsEarly DEF DialRefused, Statuses
<1>8. CASE PrepareFails
  <2>1. PICK s \in {"ctx", "closed", "error"} : Return(s)
    BY <1>8 DEF PrepareFails
  <2> QED
    BY <1>8, <2>1, ReturnsEarly DEF PrepareFails, Statuses
<1>9. CASE Dial \/ DialReturns
  <2>1. /\ pc \in {"dial", "dialling"} /\ pc' \in {"dialling", "dialled"}
        /\ \/ pc' = "dialling" /\ UNCHANGED <<result, dialled>>
           \/ /\ pc' = "dialled" /\ result' \in Results
              /\ dialled' = dialled + result'.n
        /\ UNCHANGED <<ctx, socket, conn, deadline, call, op, after, status, moved, told>>
    <3>1. \A n \in {0, 1}, err \in {"none", "error"} : [n |-> n, err |-> err] \in Results
      BY ResultFacts DEF Errors
    <3> QED
      BY <1>9, <3>1 DEF Dial, DialReturns
  <2>2. Typed'
    <3>1. pc' \in PCs
      BY <1>0, <2>1 DEF Typed, PCs
    <3>2. result' \in Results /\ dialled' \in Nat
      BY <1>0, <2>1, ResultFacts DEF Typed, TypeOK
    <3>3. TypeOK'
      BY <1>0, <2>1, <3>2 DEF Typed, TypeOK
    <3> QED
      BY <3>1, <3>3 DEF Typed
  <2>3. Busy' /\ OwnDeadline' /\ OwnInterruption'
    BY <1>0, <2>1 DEF Busy, OwnDeadline, OwnInterruption, Dialling, Prepared
  <2>4. AfterInStep' /\ Counts'
    BY <2>1 DEF IInv, AfterInStep, Watched, Counts, Untold
  <2>5. Connections'
    BY <1>0, <2>1 DEF IInv, Connections, InHand, Typed, TypeOK
  <2> QED
    BY <2>2, <2>3, <2>4, <2>5 DEF IInv
<1>10. CASE ConnectFails \/ Connected
  BY <1>10, DialledKeeps
<1>11. CASE Prepare \/ Arm
  <2>1. CASE Prepare
    <3>1. /\ pc \in {"prepare send", "prepare recv"} /\ pc' \in {"arm send", "arm recv"}
          /\ conn.pokable => deadline' \in {"when", "none"}
          /\ ~conn.pokable => deadline' = deadline
          /\ UNCHANGED <<ctx, socket, conn, call, op, after, result, status, moved, told, dialled>>
      BY <2>1 DEF Prepare
    <3>2. Typed'
      <4>1. pc' \in PCs
        BY <1>0, <3>1 DEF Typed, PCs
      <4>2. TypeOK'
        <5>1. deadline' \in {"none", "when", "past"}
          BY <1>0, <3>1 DEF Typed, TypeOK
        <5>2. after' \in [Calls -> {"none", "armed", "running", "done", "failed"}]
          BY <1>0, <3>1 DEF Typed, TypeOK
        <5>3. TypeOK /\ status' \in Statuses /\ told' \in Nat
          BY <1>0, <3>1 DEF Typed, TypeOK
        <5> QED
          BY <3>1, <5>1, <5>2, <5>3, TypesStay
      <4> QED
        BY <4>1, <4>2 DEF Typed
    <3>3. Busy' /\ OwnDeadline' /\ OwnInterruption' /\ AfterInStep'
      BY <3>1 DEF IInv, Busy, OwnDeadline, OwnInterruption, AfterInStep, Dialling, Watched
    <3>4. Counts' /\ Connections'
      BY <3>1 DEF IInv, Counts, Untold, Connections, InHand
    <3> QED
      BY <3>2, <3>3, <3>4 DEF IInv
  <2>2. CASE Arm
    <3>1. /\ pc \in {"arm send", "arm recv"} /\ pc' \in {"send", "recv"}
          /\ after' = [after EXCEPT ![call] = IF op.ended THEN "running" ELSE "armed"]
          /\ UNCHANGED <<ctx, socket, conn, deadline, call, op, result, status, moved, told, dialled>>
      BY <2>2 DEF Arm
    <3>2. Typed'
      <4>1. pc' \in PCs
        BY <1>0, <3>1 DEF Typed, PCs
      <4>2. TypeOK'
        <5>1. deadline' \in {"none", "when", "past"}
          BY <1>0, <3>1 DEF Typed, TypeOK
        <5>2. after' \in [Calls -> {"none", "armed", "running", "done", "failed"}]
          BY <1>0, <3>1 DEF Typed, TypeOK
        <5>3. TypeOK /\ status' \in Statuses /\ told' \in Nat
          BY <1>0, <3>1 DEF Typed, TypeOK
        <5> QED
          BY <3>1, <5>1, <5>2, <5>3, TypesStay
      <4> QED
        BY <4>1, <4>2 DEF Typed
    <3>3. AfterInStep'
      BY <1>0, <3>1 DEF IInv, AfterInStep, Watched, Typed, TypeOK
    <3>4. Busy' /\ OwnDeadline' /\ OwnInterruption'
      BY <3>1 DEF IInv, Busy, OwnDeadline, OwnInterruption, Dialling, Prepared
    <3>5. Counts' /\ Connections'
      BY <3>1 DEF IInv, Counts, Untold, Connections, InHand
    <3> QED
      BY <3>2, <3>3, <3>4, <3>5 DEF IInv
  <2> QED
    BY <1>11, <2>1, <2>2
<1>12. CASE Transfers
  <2>1. CASE \E n \in {0, 1}, err \in {"none", "error", "eof"} : Returned(n, err)
    <3>1. PICK n \in {0, 1}, err \in {"none", "error", "eof"} : Returned(n, err)
      BY <2>1
    <3>2. [n |-> n, err |-> err] \in Results /\ err # "timeout"
      BY ResultFacts DEF Errors
    <3> QED
      BY <1>12, <3>1, <3>2, ReturnedKeeps DEF Transfers
  <2>2. CASE Returned(0, "breach")
    BY <1>12, <2>2, ResultFacts, ReturnedKeeps DEF Transfers, Breach
  <2> QED
    BY <1>12, <2>1, <2>2 DEF Transfers
<1>13. CASE Interrupted
  <2>1. pc \in {"send", "recv"}
    BY <1>13 DEF Interrupted
  <2>2. conn.pokable /\ deadline = "past" => op.ended
    BY <2>1 DEF IInv, OwnDeadline, Prepared
  <2>3. PICK n \in {0, 1}, err \in {"timeout", "closed"} :
          Returned(n, err) /\ (err = "timeout" => IsPast /\ conn.pokable)
    BY <1>13 DEF Interrupted
  <2>4. [n |-> n, err |-> err] \in Results
    BY ResultFacts DEF Errors
  <2>5. err = "timeout" => op.ended \/ op.expired
    BY <2>2, <2>3 DEF IsPast
  <2> QED
    BY <2>1, <2>3, <2>4, <2>5, ReturnedKeeps
<1>14. CASE Evaluate
  BY <1>14, EvaluateKeeps
<1>15. CASE Finish
  BY <1>15, FinishKeeps
<1>16. CASE UNCHANGED vars
  BY <1>16
  DEF vars, IInv, Typed, TypeOK, Busy, AfterInStep, OwnDeadline, OwnInterruption, Counts,
      Untold, Connections, InHand
<1> QED
  BY <1>1, <1>2, <1>3, <1>4, <1>5, <1>6, <1>7, <1>8, <1>9, <1>10, <1>11, <1>12, <1>13, <1>14,
     <1>15, <1>16 DEF Next, CallSteps

LEMMA InvAlways == Spec => []IInv
BY InvInit, InvNext, PTL DEF Spec

\* The socket, its connection and the counters have their types; no connection is
\* closed more often than it was made.
THEOREM SocketTypeCorrect == Spec => []TypeOK
<1>1. IInv => TypeOK
  BY DEF IInv, Typed
<1> QED
  BY <1>1, InvAlways, PTL

\* The AfterFunc of a call that has returned interrupts no later call, whatever the
\* order of its steps and theirs (io.go: prepareIO).
THEOREM SocketOwnInterruption == Spec => []OwnInterruption
<1>1. IInv => OwnInterruption
  BY DEF IInv
<1> QED
  BY <1>1, InvAlways, PTL

\* An interruption never hides data that was moved (io.go: ioResult).
THEOREM SocketCountsAreKept == Spec => []CountsAreKept
<1>1. IInv => CountsAreKept
  BY DEF IInv, Typed, TypeOK, Counts, Untold, CountsAreKept
<1> QED
  BY <1>1, InvAlways, PTL

\* A dial that answers too late leaves no connection behind (net.go: connect).
THEOREM SocketConnectionsAreOwned == Spec => []ConnectionsAreOwned
<1>1. IInv => ConnectionsAreOwned
  BY DEF IInv, Connections, InHand, ConnectionsAreOwned
<1> QED
  BY <1>1, InvAlways, PTL
=============================================================================
