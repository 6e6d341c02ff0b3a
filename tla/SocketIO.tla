------------------------------ MODULE SocketIO ------------------------------
(***************************************************************************)
(* The blocking calls of one guest socket (net.go, io.go).                 *)
(*                                                                         *)
(* A call runs on the goroutine of the operation, which holds the          *)
(* interpreter, and has to end when its context does.  prepareIO arms an   *)
(* AfterFunc that pokes the connection from a goroutine of its own: it     *)
(* moves the deadline to now or, where that is not possible, closes the    *)
(* connection.  The next call uses the same connection.                    *)
(*                                                                         *)
(* The steps of the two goroutines interleave.  The provider of the        *)
(* connection and the clock are external; bytes are counted in chunks.     *)
(***************************************************************************)
EXTENDS Integers, FiniteSets

CONSTANT MaxCalls  \* bound: blocking calls on the socket

ASSUME CallsAssumption == MaxCalls \in Nat

Calls == 1 .. MaxCalls

VARIABLES
  ctx,       \* n.ctx: the context of the interpreter's operation, "live" or "ended"
  socket,    \* s: [state, timeout (there is one), readErr, keepAlive (it is set)]
  conn,      \* s.conn: "none", "open" or "closed", and whether it can be poked
  deadline,  \* of the connection: "none", "when" (that of the call) or "past"
  call,      \* calls so far; the last one is running unless pc is "idle"
  pc,        \* the next step of the call
  op,        \* its context: [ended, timed (it has a deadline), expired]
  after,     \* the AfterFunc of each call
  result,    \* what the connection has returned to the call: [n, err]
  status,    \* what the call is going to return to the guest
  moved,     \* chunks that the connection took or gave
  told,      \* chunks that the guest was told of
  dialled    \* connections that the provider made and nobody closed

vars == <<ctx, socket, conn, deadline, call, pc, op, after, result, status,
          moved, told, dialled>>

Errors == {"none", "eof", "error", "timeout", "closed"}
Statuses == {"none", "count", "zero", "ctx", "timeout", "error", "closed"}
NoResult == [n |-> 0, err |-> "none"]
Breach == [n |-> 0, err |-> "breach"]    \* a count that cannot be
Results == [n : {0, 1}, err : Errors] \cup {Breach}
NewSocket ==
  [state |-> "new", timeout |-> FALSE, readErr |-> "none", keepAlive |-> FALSE]
NoConn == [state |-> "none", pokable |-> FALSE]

Init ==
  /\ ctx = "live"
  /\ socket = NewSocket
  /\ conn = NoConn
  /\ deadline = "none"
  /\ call = 0
  /\ pc = "idle"
  /\ op = [ended |-> FALSE, timed |-> FALSE, expired |-> FALSE]
  /\ after = [c \in Calls |-> "none"]
  /\ result = NoResult
  /\ status = "none"
  /\ moved = 0
  /\ told = 0
  /\ dialled = 0

-----------------------------------------------------------------------------
(* Contexts and clocks.                                                    *)

\* The context of a call is done: its AfterFunc starts, if it is armed.
Ends ==
  /\ op' = [op EXCEPT !.ended = TRUE]
  /\ after' = [c \in Calls |->
                 IF c = call /\ after[c] = "armed" THEN "running" ELSE after[c]]

\* Somebody cancels the operation, or its own deadline passes.
ContextEnds ==
  /\ ctx = "live"
  /\ ctx' = "ended"
  /\ IF pc = "idle" THEN UNCHANGED <<op, after>> ELSE Ends
  /\ UNCHANGED <<socket, conn, deadline, call, pc, result, status, moved, told, dialled>>

\* SetContext: another operation of the interpreter.
SetContext ==
  /\ pc = "idle"
  /\ ctx = "ended"
  /\ ctx' = "live"
  /\ UNCHANGED <<socket, conn, deadline, call, pc, op, after, result, status, moved, told, dialled>>

\* The time limit of the call is reached: the connection may notice that before
\* the timer of the context does.
TimeIsUp ==
  /\ pc # "idle"
  /\ op.timed /\ ~op.expired
  /\ op' = [op EXCEPT !.expired = TRUE]
  /\ UNCHANGED <<ctx, socket, conn, deadline, call, pc, after, result, status, moved, told, dialled>>

TimerFires ==
  /\ pc # "idle"
  /\ op.expired /\ ~op.ended
  /\ Ends
  /\ UNCHANGED <<ctx, socket, conn, deadline, call, pc, result, status, moved, told, dialled>>

-----------------------------------------------------------------------------
(* The AfterFunc of prepareIO.                                             *)

\* Seeded fault: no fallback for a connection whose deadline cannot be moved.
MutPokes(c) ==
  /\ after[c] = "running"
  /\ after' = [after EXCEPT ![c] = "done"]
  /\ deadline' = IF conn.pokable THEN "past" ELSE deadline
  /\ UNCHANGED <<ctx, socket, conn, call, pc, op, result, status, moved, told, dialled>>

\* The deadline moves to now, or the connection is closed; that may fail too,
\* but it unblocks the connection.
Pokes(c) ==
  /\ after[c] = "running"
  /\ \/ /\ conn.pokable /\ conn.state = "open"
        /\ deadline' = "past"
        /\ after' = [after EXCEPT ![c] = "done"]
        /\ UNCHANGED <<conn, dialled>>
     \/ /\ conn.state # "none"
        /\ conn' = [conn EXCEPT !.state = "closed"]
        /\ dialled' = IF conn.state = "open" THEN dialled - 1 ELSE dialled
        /\ \E to \in {"done", "failed"} : after' = [after EXCEPT ![c] = to]
        /\ UNCHANGED deadline
  /\ UNCHANGED <<ctx, socket, call, pc, op, result, status, moved, told>>

-----------------------------------------------------------------------------
(* Calls that do not block.                                                *)

\* Xhost_sock_settimeout.
SetTimeout ==
  /\ pc = "idle" /\ socket.state = "new"
  /\ \E t \in BOOLEAN :
       /\ t # socket.timeout
       /\ socket' = [socket EXCEPT !.timeout = t]
  /\ UNCHANGED <<ctx, conn, deadline, call, pc, op, after, result, status, moved, told, dialled>>

\* Xhost_sock_setsockopt: it is remembered for a connection to come.
SetKeepAlive ==
  /\ pc = "idle" /\ socket.state = "new" /\ ~socket.keepAlive
  /\ socket' = [socket EXCEPT !.keepAlive = TRUE]
  /\ UNCHANGED <<ctx, conn, deadline, call, pc, op, after, result, status, moved, told, dialled>>

\* Seeded fault: a socket that was not connected is closed as one that was.
MutCloseSocket ==
  /\ pc = "idle" /\ socket.state = "new"
  /\ socket' = [socket EXCEPT !.state = "closed"]
  /\ dialled' = dialled - 1
  /\ conn' = IF conn.state = "none" THEN conn ELSE [conn EXCEPT !.state = "closed"]
  /\ UNCHANGED <<ctx, deadline, call, pc, op, after, result, status, moved, told>>

\* Xhost_sock_close, or Close and Reset of the whole Network.
CloseSocket ==
  /\ pc = "idle" /\ socket.state = "new"
  /\ socket' = [socket EXCEPT !.state = "closed"]
  /\ dialled' = IF conn.state = "open" THEN dialled - 1 ELSE dialled
  /\ conn' = IF conn.state = "none" THEN conn ELSE [conn EXCEPT !.state = "closed"]
  /\ UNCHANGED <<ctx, deadline, call, pc, op, after, result, status, moved, told>>

\* Another socket takes its place.
OpenSocket ==
  /\ pc = "idle" /\ socket.state = "closed"
  /\ socket' = NewSocket
  /\ conn' = NoConn
  /\ deadline' = "none"
  /\ UNCHANGED <<ctx, call, pc, op, after, result, status, moved, told, dialled>>

-----------------------------------------------------------------------------
(* A call that blocks, up to the connection.                               *)

\* operation: a context of its own, with the socket's timeout.
Starts(first) ==
  /\ pc = "idle" /\ socket.state = "new"
  /\ call < MaxCalls
  /\ call' = call + 1
  /\ op' = [ended |-> ctx = "ended", timed |-> socket.timeout, expired |-> FALSE]
  /\ pc' = first
  /\ result' = NoResult
  /\ UNCHANGED <<ctx, socket, conn, deadline, after, moved, told, dialled>>

\* Xhost_sock_connect.
Connect ==
  /\ conn.state = "none"
  /\ Starts("dial")
  /\ status' = "none"

\* Xhost_sock_send and, to the peer of a datagram socket, Xhost_sock_sendto.
Send ==
  /\ conn.state # "none"
  /\ Starts("prepare send")
  /\ status' = "none"

\* Xhost_sock_recv, Xhost_sock_recvfrom.
Recv ==
  /\ conn.state # "none"
  /\ socket.readErr = "none"
  /\ Starts("prepare recv")
  /\ status' = "none"

\* What a call without bytes reports of an error: the end of its context, if it
\* has ended, and else the error.
StatusOf(err, done) ==
  IF done THEN "ctx"
  ELSE IF err = "eof" THEN "zero"
  ELSE IF err = "none" THEN "zero"
  ELSE err

\* A recv that reports what came with the last data: no blocking, no timeout.
\* The end of the stream is reported for ever.
RecvDeferred ==
  /\ pc = "idle" /\ socket.state = "new"
  /\ conn.state # "none"
  /\ socket.readErr # "none"
  /\ status' = StatusOf(socket.readErr, ctx = "ended")
  /\ socket' = IF socket.readErr = "eof" THEN socket
               ELSE [socket EXCEPT !.readErr = "none"]
  /\ UNCHANGED <<ctx, conn, deadline, call, pc, op, after, result, moved, told, dialled>>

Return(s) ==
  /\ pc' = "idle"
  /\ status' = s

\* prepareIO: a context that has ended, or a deadline that cannot be set, ends the call.
PrepareFails ==
  /\ pc \in {"prepare send", "prepare recv"}
  /\ \/ op.ended /\ Return("ctx")
     \/ ~op.ended /\ conn.pokable /\ Return(IF conn.state = "closed" THEN "closed" ELSE "error")
  /\ UNCHANGED <<ctx, socket, conn, deadline, call, op, after, result, moved, told, dialled>>

\* prepareIO: the connection's deadline is set anew.
Prepare ==
  /\ pc \in {"prepare send", "prepare recv"}
  /\ ~op.ended
  /\ conn.pokable => conn.state = "open"
  /\ deadline' = IF ~conn.pokable THEN deadline
                 ELSE IF op.timed THEN "when" ELSE "none"
  /\ pc' = IF pc = "prepare send" THEN "arm send" ELSE "arm recv"
  /\ UNCHANGED <<ctx, socket, conn, call, op, after, result, status, moved, told, dialled>>

\* context.AfterFunc.
Arm ==
  /\ pc \in {"arm send", "arm recv"}
  /\ after' = [after EXCEPT ![call] = IF op.ended THEN "running" ELSE "armed"]
  /\ pc' = IF pc = "arm send" THEN "send" ELSE "recv"
  /\ UNCHANGED <<ctx, socket, conn, deadline, call, op, result, status, moved, told, dialled>>

-----------------------------------------------------------------------------
(* The connection returns.                                                 *)

IsPast == deadline = "past" \/ (deadline = "when" /\ op.expired)

Returned(n, err) ==
  /\ result' = [n |-> n, err |-> err]
  /\ moved' = moved + n
  /\ pc' = IF pc = "send" THEN "sent" ELSE "received"
  /\ UNCHANGED <<ctx, socket, conn, deadline, call, op, after, status, told, dialled>>

\* It moves bytes, or fails; a read may give data and an error at once.  A count below
\* zero or above the room there was breaks its contract.
Transfers ==
  /\ pc \in {"send", "recv"} /\ conn.state = "open"
  /\ \/ \E n \in {0, 1}, err \in {"none", "error", "eof"} : Returned(n, err)
     \/ Returned(0, "breach")

\* A deadline or a close unblocks it, with or without bytes.
Interrupted ==
  /\ pc \in {"send", "recv"}
  /\ \E n \in {0, 1} :
       \/ IsPast /\ conn.pokable /\ Returned(n, "timeout")
       \/ conn.state = "closed" /\ Returned(0, "closed")

\* Seeded fault: the end of the context is looked at before the bytes.
MutIoResult(r, done) ==
  IF r = Breach THEN "error"
  ELSE IF done THEN "ctx"
  ELSE IF r.n > 0 THEN "count"
  ELSE StatusOf(r.err, done)

\* ioResult.
IoResult(r, done) ==
  IF r = Breach THEN "error"
  ELSE IF r.n > 0 THEN "count"
  ELSE StatusOf(r.err, done)

\* A send that moved nothing of a buffer that has something, and does not say why, is a
\* broken pipe.
SendStatus(r, done, empty) ==
  IF r.n = 0 /\ ~empty /\ r.err \in {"none", "eof"} THEN "error" ELSE IoResult(r, done)

\* The status is computed before the deferred functions run.
Evaluate ==
  /\ pc \in {"sent", "received"}
  /\ IF pc = "sent"
     THEN \E empty \in BOOLEAN : status' = SendStatus(result, op.ended, empty)
     ELSE status' = IoResult(result, op.ended)
  /\ socket' = IF pc = "received" /\ result.n > 0
               THEN [socket EXCEPT !.readErr = result.err] ELSE socket
  /\ pc' = "finish"
  /\ UNCHANGED <<ctx, conn, deadline, call, op, after, result, moved, told, dialled>>

\* Seeded fault: the callback is not waited for.
MutFinish ==
  /\ pc = "finish"
  /\ after' = [after EXCEPT ![call] = IF @ = "armed" THEN "none" ELSE @]
  /\ told' = IF status = "count" THEN told + 1 ELSE told
  /\ Return(status)
  /\ UNCHANGED <<ctx, socket, conn, deadline, call, op, result, moved, dialled>>

\* The function that prepareIO returned: it stops the AfterFunc or waits for it.
\* A close that failed is reported where there is nothing else to report.
Finish ==
  /\ pc = "finish"
  /\ after[call] # "running"
  /\ after' = [after EXCEPT ![call] = "none"]
  /\ told' = IF status = "count" THEN told + 1 ELSE told
  /\ Return(IF status = "zero" /\ after[call] = "failed" THEN "error" ELSE status)
  /\ UNCHANGED <<ctx, socket, conn, deadline, call, op, result, moved, dialled>>

-----------------------------------------------------------------------------
(* Connecting.                                                             *)

DialRefused ==
  /\ pc = "dial"
  /\ op.ended
  /\ Return("ctx")
  /\ UNCHANGED <<ctx, socket, conn, deadline, call, op, after, result, moved, told, dialled>>

Dial ==
  /\ pc = "dial"
  /\ ~op.ended
  /\ pc' = "dialling"
  /\ UNCHANGED <<ctx, socket, conn, deadline, call, op, after, result, status, moved, told, dialled>>

\* The provider returns a connection, an error, or both.
DialReturns ==
  /\ pc = "dialling"
  /\ \E n \in {0, 1}, err \in {"none", "error"} :
       /\ result' = [n |-> n, err |-> err]
       /\ dialled' = dialled + n
  /\ pc' = "dialled"
  /\ UNCHANGED <<ctx, socket, conn, deadline, call, op, after, status, moved, told>>

\* Seeded fault: a connection that comes too late is forgotten.
MutConnectFails ==
  /\ pc = "dialled"
  /\ \/ op.ended /\ Return("ctx")
     \/ ~op.ended /\ (result.err # "none" \/ result.n = 0) /\ Return("error")
     \/ ~op.ended /\ result.err = "none" /\ socket.keepAlive /\ Return("error")
  /\ dialled' = IF op.ended THEN dialled ELSE dialled - result.n
  /\ UNCHANGED <<ctx, socket, conn, deadline, call, op, after, result, moved, told>>

\* The context ended meanwhile, the provider failed, or the keep-alive option
\* cannot be set: a connection that was made is closed.
ConnectFails ==
  /\ pc = "dialled"
  /\ \/ op.ended /\ Return("ctx")
     \/ ~op.ended /\ (result.err # "none" \/ result.n = 0) /\ Return("error")
     \/ ~op.ended /\ result.err = "none" /\ socket.keepAlive /\ Return("error")
  /\ dialled' = dialled - result.n
  /\ UNCHANGED <<ctx, socket, conn, deadline, call, op, after, result, moved, told>>

Connected ==
  /\ pc = "dialled"
  /\ ~op.ended /\ result.err = "none" /\ result.n = 1
  /\ \E p \in BOOLEAN : conn' = [state |-> "open", pokable |-> p]
  /\ Return("zero")
  /\ UNCHANGED <<ctx, socket, deadline, call, op, after, result, moved, told, dialled>>

-----------------------------------------------------------------------------
CallSteps ==
  \/ DialRefused \/ Dial \/ ConnectFails \/ Connected
  \/ PrepareFails \/ Prepare \/ Arm \/ Evaluate \/ Finish

Next ==
  \/ ContextEnds \/ SetContext \/ TimeIsUp \/ TimerFires
  \/ \E c \in Calls : Pokes(c)
  \/ SetTimeout \/ SetKeepAlive \/ CloseSocket \/ OpenSocket
  \/ Connect \/ Send \/ Recv \/ RecvDeferred
  \/ CallSteps \/ DialReturns \/ Transfers \/ Interrupted

Spec == Init /\ [][Next]_vars

\* Go runs every goroutine and fires every timer.  A provider obeys the context
\* it is given, and a connection its deadline and its close (config.go).  Nobody
\* has to send anything.
Fairness ==
  /\ WF_vars(CallSteps)
  /\ WF_vars(TimerFires)
  /\ \A c \in Calls : WF_vars(Pokes(c))
  /\ WF_vars(op.ended /\ DialReturns)
  /\ WF_vars(Interrupted)

FairSpec == Spec /\ Fairness

-----------------------------------------------------------------------------
(* Properties.                                                             *)

TypeOK ==
  /\ ctx \in {"live", "ended"}
  /\ socket \in [state : {"new", "closed"}, timeout : BOOLEAN,
                 readErr : Errors, keepAlive : BOOLEAN]
  /\ conn \in [state : {"none", "open", "closed"}, pokable : BOOLEAN]
  /\ deadline \in {"none", "when", "past"}
  /\ call \in 0 .. MaxCalls
  /\ op \in [ended : BOOLEAN, timed : BOOLEAN, expired : BOOLEAN]
  /\ after \in [Calls -> {"none", "armed", "running", "done", "failed"}]
  /\ result \in Results
  /\ status \in Statuses
  /\ moved \in Nat /\ told \in Nat /\ dialled \in Nat

\* A call that the deadline of its connection interrupts has itself run out of
\* time: the cancellation of an earlier call never ends it (io.go: the returned
\* function joins a racing cancellation before the next operation).
OwnInterruption ==
  pc \in {"sent", "received"} /\ result.err = "timeout" =>
    op.ended \/ op.expired

\* The guest is told of all the bytes that left the socket or came in, however
\* the call was interrupted: a count is its only record of them (net.go).
CountsAreKept == pc = "idle" => told = moved

\* Every connection that a provider made is the socket's, or closed, when the
\* call returns: a dial that the context overtakes leaves none behind.
ConnectionsAreOwned ==
  pc = "idle" => dialled = (IF conn.state = "open" THEN 1 ELSE 0)

\* A call whose context ends does end, whatever it waits for.
EndedCallsReturn ==
  \A c \in Calls : (call = c /\ pc # "idle" /\ op.ended) ~> (call # c \/ pc = "idle")
=============================================================================
