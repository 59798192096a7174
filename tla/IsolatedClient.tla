--------------------------- MODULE IsolatedClient ---------------------------
(***************************************************************************)
(* The parent side of package isolated (client.go, process.go) composed     *)
(* with its worker.  A gate channel of capacity one serializes requests.    *)
(* Open, the callers and the shutdown goroutine use it to exchange a message *)
(* with the worker; the reaper (waitProcess) uses it to close the pipes.    *)
(*                                                                         *)
(* The process may crash at any time and a native call may hang for ever.   *)
(* Error values are classes: "io" a transport failure, "exit" a worker that *)
(* went away, "canceled" a context error, "protocol", "native", "large" a   *)
(* request whose header does not fit, "closed" ErrClosed.                   *)
(***************************************************************************)
EXTENDS Worker, FiniteSets

CONSTANTS Threads,       \* goroutines that call the client
          Opener,        \* the goroutine in Open
          Closer,        \* the goroutine in shutdown
          Reaper,        \* the goroutine in waitProcess
          Nobody,
          MaxRequests    \* bound on the requests begun by Threads, Open included

Users == Threads \cup {Opener, Closer}
Actors == Users \cup {Reaper}

ASSUME ActorAssumption ==
  /\ Opener # Closer /\ Reaper \notin {Opener, Closer} /\ Nobody \notin {Opener, Closer, Reaper}
  /\ Threads \cap {Opener, Closer, Reaper, Nobody} = {}
  /\ MaxRequests \in Nat

VARIABLES holder,      \* who holds the gate
          nextID,
          terminal,    \* the cause that made the worker unusable, or "nil"
          killed,      \* Process.Kill was called
          crashed,     \* the worker died by itself outside the protocol
          exited,      \* Wait returned: "no", or the exit status
          closing,     \* "nil", "started" or "done"
          aborted,     \* the shutdown context is canceled
          closeErr,    \* closing.err
          sender,      \* the exchange goroutine: "none", "write", "read" or "done"
          answer,      \* what it produced: a response, "io" or "large"
          pc, canceled, verdict

clientVars == <<holder, nextID, terminal, killed, crashed, exited, closing, aborted, closeErr,
                sender, answer, pc, canceled, verdict>>
vars == <<workerVars, clientVars>>

\* What the exchange goroutine reports when it has no response.
Failure(error) == Message(0, "none", error)

\* startProcess returns with the gate held, and waitProcess already running.
Init ==
  /\ WorkerInit
  /\ holder = Opener /\ nextID = 1
  /\ terminal = "nil" /\ killed = FALSE /\ crashed = FALSE /\ exited = "no"
  /\ closing = "nil" /\ aborted = FALSE /\ closeErr = "nil"
  /\ sender = "write" /\ answer = Nil
  /\ pc = [a \in Actors |-> CASE a = Opener -> "exchange" [] a = Reaper -> "wait" [] OTHER -> "idle"]
  /\ canceled = [a \in Threads \cup {Opener} |-> FALSE]
  /\ verdict = "nil"

-----------------------------------------------------------------------------
(* Building blocks.                                                        *)

Goto(a, label) == pc' = [pc EXCEPT ![a] = label]

\* A call returns; its context is not used again.
Return(t) ==
  /\ Goto(t, "idle")
  /\ canceled' = [canceled EXCEPT ![t] = FALSE]

\* stop: the first cause stays, the pipes close and the process is killed.
Stop(cause) ==
  /\ terminal' = IF terminal = "nil" THEN cause ELSE terminal
  /\ conn' = "closed"
  /\ killed' = TRUE

NoStop == UNCHANGED <<terminal, conn, killed>>

\* stateError: closed, failed, or exited without anyone having noticed.
StateError == closing # "nil" \/ terminal # "nil" \/ exited # "no"

Canceled(u) == IF u = Closer THEN aborted ELSE canceled[u]

\* Parts of the worker that the parent does not touch.
Worker == <<proc, status, loop, astray>>

-----------------------------------------------------------------------------
(* exchange.  The sender goroutine writes the request, which borrows the     *)
(* caller's bytes, and then reads the response.                             *)

StartExchange(u) ==
  /\ nextID' = nextID + 1
  /\ sender' = "write" /\ answer' = Nil
  /\ Goto(u, "exchange")

\* Only the identifier, the operation and the fate of a request matter.
Operation == IF holder = Opener THEN "Open" ELSE IF holder = Closer THEN "Close" ELSE "call"

SendTooLarge ==
  /\ sender = "write" /\ Operation # "Close"
  /\ sender' = "done" /\ answer' = Failure("large")
  /\ UNCHANGED <<workerVars, holder, nextID, terminal, killed, crashed, exited, closing, aborted,
                 closeErr, pc, canceled, verdict>>

Send ==
  /\ sender = "write"
  /\ IF conn = "open" /\ proc = "running"
     THEN /\ requests' = Append(requests, Message(nextID, Operation, "nil"))
          /\ sender' = "read" /\ UNCHANGED answer
     ELSE sender' = "done" /\ answer' = Failure("io") /\ UNCHANGED requests
  /\ UNCHANGED <<conn, responses, Worker, holder, nextID, terminal, killed, crashed, exited,
                 closing, aborted, closeErr, pc, canceled, verdict>>

\* A closed pipe fails at once; a dead peer only after its last response is read.
Receive ==
  /\ sender = "read"
  /\ \/ /\ conn = "open" /\ responses # <<>>
        /\ answer' = Head(responses) /\ responses' = Tail(responses)
     \/ /\ conn = "closed" \/ (responses = <<>> /\ proc # "running")
        /\ answer' = Failure("io") /\ UNCHANGED responses
  /\ sender' = "done"
  /\ UNCHANGED <<conn, requests, Worker, holder, nextID, terminal, killed, crashed, exited,
                 closing, aborted, closeErr, pc, canceled, verdict>>

\* Mutant: a canceled exchange returns without waiting for its goroutine.
InterruptAtOnce(u) ==
  /\ pc[u] = "exchange" /\ Canceled(u) /\ sender # "done" /\ u \in Threads
  /\ Stop("canceled")
  /\ holder' = Nobody
  /\ Return(u)
  /\ UNCHANGED <<pipes, Worker, nextID, crashed, exited, closing, aborted, closeErr, sender,
                 answer, verdict>>

\* Mutant: cancellation waits for the worker without stopping it.
InterruptPolitely(u) ==
  /\ pc[u] = "exchange" /\ Canceled(u) /\ sender # "done"
  /\ Goto(u, "drain")
  /\ UNCHANGED <<workerVars, holder, nextID, terminal, killed, crashed, exited, closing, aborted,
                 closeErr, sender, answer, canceled, verdict>>

\* exchange sees ctx.Done before the result and stops the worker.
Interrupt(u) ==
  /\ pc[u] = "exchange" /\ Canceled(u) /\ sender # "done"
  /\ Stop("canceled")
  /\ Goto(u, "drain")
  /\ UNCHANGED <<pipes, Worker, holder, nextID, crashed, exited, closing, aborted, closeErr,
                 sender, answer, canceled, verdict>>

\* What exchange makes of the answer.
Evaluate(u) ==
  IF pc[u] = "drain" THEN "canceled"
  ELSE IF answer.error \in {"io", "large"} THEN answer.error
  ELSE IF answer.id # nextID \/ answer.op # Operation THEN "protocol"
  ELSE answer.error

\* A result that does not decode, or an acknowledgement that is not empty, is a
\* protocol failure of the worker as well.
Decoded(u) == IF Evaluate(u) = "nil" THEN {"nil", "protocol"} ELSE {Evaluate(u)}

Finished(u) == pc[u] \in {"exchange", "drain"} /\ sender = "done"

EndExchange ==
  /\ sender' = "none" /\ answer' = Nil

\* Mutant: the identifier of an unsent request is not reused.
KeepID(error) == UNCHANGED nextID

\* A request too large for its header was not sent: its identifier is reused.
RestoreID(error) == nextID' = IF error = "large" THEN nextID - 1 ELSE nextID

-----------------------------------------------------------------------------
(* Open.                                                                   *)

Opened ==
  \E error \in Decoded(Opener) :
      /\ Finished(Opener)
      /\ EndExchange /\ RestoreID(error)
      /\ IF error = "nil" THEN NoStop ELSE Stop(error)
      /\ holder' = Nobody
      /\ Goto(Opener, IF error = "nil" THEN "done" ELSE "idle")
      /\ UNCHANGED <<pipes, Worker, crashed, exited, closing, aborted, closeErr, canceled, verdict>>

-----------------------------------------------------------------------------
(* call.                                                                   *)

Busy == {t \in Threads : pc[t] \in {"wait", "recheck", "encode"}}

\* acquire up to the queue; a call that finds its context canceled or the client
\* unusable returns as it came.
BeginCall(t) ==
  /\ pc[Opener] = "done" /\ pc[t] = "idle"
  /\ nextID + Cardinality(Busy) < MaxRequests
  /\ ~StateError
  /\ Goto(t, "wait")
  /\ UNCHANGED <<workerVars, holder, nextID, terminal, killed, crashed, exited, closing, aborted,
                 closeErr, sender, answer, canceled, verdict>>

LeaveQueue(t) ==
  /\ pc[t] = "wait" /\ canceled[t]
  /\ Return(t)
  /\ UNCHANGED <<workerVars, holder, nextID, terminal, killed, crashed, exited, closing, aborted,
                 closeErr, sender, answer, verdict>>

TakeGate(t) ==
  /\ pc[t] = "wait" /\ holder = Nobody
  /\ holder' = t
  /\ Goto(t, "recheck")
  /\ UNCHANGED <<workerVars, nextID, terminal, killed, crashed, exited, closing, aborted, closeErr,
                 sender, answer, canceled, verdict>>

Recheck(t) ==
  /\ pc[t] = "recheck"
  /\ IF canceled[t] \/ StateError
     THEN Return(t) /\ holder' = Nobody
     ELSE Goto(t, "encode") /\ UNCHANGED <<holder, canceled>>
  /\ UNCHANGED <<workerVars, nextID, terminal, killed, crashed, exited, closing, aborted, closeErr,
                 sender, answer, verdict>>

\* encodeRequest fails on an invalid or oversized input, before any byte is sent.
EncodeFails(t) ==
  /\ pc[t] = "encode"
  /\ Return(t) /\ holder' = Nobody
  /\ UNCHANGED <<workerVars, nextID, terminal, killed, crashed, exited, closing, aborted, closeErr,
                 sender, answer, verdict>>

Encode(t) ==
  /\ pc[t] = "encode"
  /\ IF canceled[t]
     THEN Return(t) /\ holder' = Nobody /\ UNCHANGED <<nextID, sender, answer>>
     ELSE StartExchange(t) /\ UNCHANGED <<holder, canceled>>
  /\ UNCHANGED <<workerVars, terminal, killed, crashed, exited, closing, aborted, closeErr, verdict>>

Called(t) ==
  /\ Finished(t)
  /\ \E error \in Decoded(t) :
       /\ RestoreID(error)
       /\ IF error \in {"io", "protocol"} THEN Stop(error) ELSE NoStop
  /\ EndExchange
  /\ holder' = Nobody
  /\ Return(t)
  /\ UNCHANGED <<pipes, Worker, crashed, exited, closing, aborted, closeErr, verdict>>

Cancel(t) ==
  /\ t # Opener => pc[t] # "idle"
  /\ t = Opener => pc[t] = "exchange"
  /\ ~canceled[t]
  /\ canceled' = [canceled EXCEPT ![t] = TRUE]
  /\ UNCHANGED <<workerVars, holder, nextID, terminal, killed, crashed, exited, closing, aborted,
                 closeErr, sender, answer, pc, verdict>>

-----------------------------------------------------------------------------
(* CloseContext.                                                           *)

\* The first caller starts shutdown, with a context that is already canceled
\* when the caller's is.
CloseContext(t) ==
  /\ pc[Opener] = "done" /\ pc[t] = "idle"
  /\ \E late \in BOOLEAN :
       /\ canceled' = [canceled EXCEPT ![t] = late]
       /\ IF closing = "nil"
          THEN /\ closing' = "started" /\ aborted' = late
               /\ pc' = [pc EXCEPT ![t] = "poll", ![Closer] = "gate"]
          ELSE Goto(t, "poll") /\ UNCHANGED <<closing, aborted>>
  /\ UNCHANGED <<workerVars, holder, nextID, terminal, killed, crashed, exited, closeErr, sender,
                 answer, verdict>>

\* A completed result takes precedence over cancellation.
PollDone(t) ==
  /\ pc[t] = "poll"
  /\ IF closing = "done" THEN Return(t) ELSE Goto(t, "linger") /\ UNCHANGED canceled
  /\ UNCHANGED <<workerVars, holder, nextID, terminal, killed, crashed, exited, closing, aborted,
                 closeErr, sender, answer, verdict>>

AwaitDone(t) ==
  /\ pc[t] \in {"linger", "forced"} /\ closing = "done"
  /\ Return(t)
  /\ UNCHANGED <<workerVars, holder, nextID, terminal, killed, crashed, exited, closing, aborted,
                 closeErr, sender, answer, verdict>>

ForceClose(t) ==
  /\ pc[t] = "linger" /\ canceled[t]
  /\ aborted' = TRUE
  /\ Goto(t, "forced")
  /\ UNCHANGED <<workerVars, holder, nextID, terminal, killed, crashed, exited, closing, closeErr,
                 sender, answer, canceled, verdict>>

-----------------------------------------------------------------------------
(* shutdown and gracefulShutdown.                                          *)

\* gracefulShutdown returns error; the deferred send releases the gate.
Graceful(error) ==
  /\ verdict' = error
  /\ holder' = IF holder = Closer THEN Nobody ELSE holder
  /\ Goto(Closer, "settle")

ShutdownGate ==
  /\ pc[Closer] = "gate"
  /\ \/ aborted /\ Graceful("canceled")
     \/ holder = Nobody /\ holder' = Closer /\ Goto(Closer, "check") /\ UNCHANGED verdict
  /\ UNCHANGED <<workerVars, nextID, terminal, killed, crashed, exited, closing, aborted, closeErr,
                 sender, answer, canceled>>

ShutdownCheck ==
  /\ pc[Closer] = "check"
  /\ \/ /\ aborted /\ Graceful("canceled")
        /\ NoStop /\ UNCHANGED <<nextID, sender, answer>>
     \/ /\ ~aborted /\ terminal # "nil"
        /\ Stop(terminal) /\ verdict' = terminal /\ Goto(Closer, "exit")
        /\ UNCHANGED <<holder, nextID, sender, answer>>
     \/ /\ ~aborted /\ terminal = "nil"
        /\ StartExchange(Closer)
        /\ NoStop /\ UNCHANGED <<holder, verdict>>
  /\ UNCHANGED <<pipes, Worker, crashed, exited, closing, aborted, closeErr, canceled>>

\* An acknowledgement that is not empty ends shutdown without a wait for exit.
ShutdownAnswered ==
  LET error == Evaluate(Closer)
  IN  /\ Finished(Closer)
      /\ EndExchange
      /\ \/ /\ IF error = "nil" THEN NoStop ELSE Stop(error)
            /\ verdict' = error /\ Goto(Closer, "exit") /\ UNCHANGED holder
         \/ error = "nil" /\ Stop("protocol") /\ Graceful("protocol")
      /\ UNCHANGED <<pipes, Worker, nextID, crashed, exited, closing, aborted, closeErr, canceled>>

\* Mutant: Close returns on the acknowledgement, without a wait for exit.
ShutdownNoExit ==
  /\ pc[Closer] = "exit"
  /\ NoStop /\ Graceful(verdict)
  /\ UNCHANGED <<pipes, Worker, nextID, crashed, exited, closing, aborted, closeErr, sender, answer,
                 canceled>>

ShutdownExit ==
  /\ pc[Closer] = "exit"
  /\ \/ aborted /\ NoStop /\ Graceful("canceled")
     \/ /\ exited # "no" /\ verdict = "nil" /\ exited = "error"
        /\ Stop("exit") /\ Graceful("exit")
     \/ /\ exited # "no" /\ (verdict # "nil" \/ exited = "ok")
        /\ NoStop /\ Graceful(verdict)
  /\ UNCHANGED <<pipes, Worker, nextID, crashed, exited, closing, aborted, closeErr, sender, answer,
                 canceled>>

\* Only the shutdown's own cancellation kills here; then the result is published.
Settle ==
  /\ pc[Closer] = "settle"
  /\ IF verdict = "canceled" THEN Stop("canceled") ELSE NoStop
  /\ closing' = "done" /\ closeErr' = verdict
  /\ Goto(Closer, "done")
  /\ UNCHANGED <<pipes, Worker, holder, nextID, crashed, exited, aborted, sender, answer, canceled,
                 verdict>>

-----------------------------------------------------------------------------
(* waitProcess and the process.                                            *)

Die ==
  /\ proc = "running" /\ killed
  /\ Exit("error")
  /\ UNCHANGED <<astray, clientVars>>

\* A native fault, or the application ends the worker.
Crash ==
  /\ proc = "running" /\ ~killed
  /\ \E s \in {"ok", "error"} : Exit(s)
  /\ crashed' = TRUE
  /\ UNCHANGED <<astray, holder, nextID, terminal, killed, exited, closing, aborted, closeErr,
                 sender, answer, pc, canceled, verdict>>

Reap ==
  /\ pc[Reaper] = "wait" /\ proc = "dead"
  /\ proc' = "reaped" /\ exited' = status
  /\ Goto(Reaper, "gate")
  /\ UNCHANGED <<conn, pipes, status, loop, astray, holder, nextID, terminal, killed, crashed,
                 closing, aborted, closeErr, sender, answer, canceled, verdict>>

\* Mutant: the reaper closes the pipes without the gate.
ReaperNoGate ==
  /\ pc[Reaper] = "gate"
  /\ conn' = "closed"
  /\ Goto(Reaper, "done")
  /\ UNCHANGED <<pipes, Worker, holder, nextID, terminal, killed, crashed, exited, closing,
                 aborted, closeErr, sender, answer, canceled, verdict>>

ReaperGate ==
  /\ pc[Reaper] = "gate" /\ holder = Nobody
  /\ holder' = Reaper
  /\ Goto(Reaper, "check")
  /\ UNCHANGED <<workerVars, nextID, terminal, killed, crashed, exited, closing, aborted, closeErr,
                 sender, answer, canceled, verdict>>

\* Mutant: the reaper leaves the pipes to whoever stops the worker.
ClosePipesNever ==
  /\ pc[Reaper] = "check"
  /\ terminal' = IF terminal = "nil" /\ closing = "nil" THEN "exit" ELSE terminal
  /\ holder' = Nobody
  /\ Goto(Reaper, "done")
  /\ UNCHANGED <<conn, pipes, Worker, nextID, killed, crashed, exited, closing, aborted, closeErr,
                 sender, answer, canceled, verdict>>

ClosePipes ==
  /\ pc[Reaper] = "check"
  /\ terminal' = IF terminal = "nil" /\ closing = "nil" THEN "exit" ELSE terminal
  /\ conn' = "closed"
  /\ holder' = Nobody
  /\ Goto(Reaper, "done")
  /\ UNCHANGED <<pipes, Worker, nextID, killed, crashed, exited, closing, aborted, closeErr, sender,
                 answer, canceled, verdict>>

-----------------------------------------------------------------------------

Child == Serve /\ UNCHANGED clientVars
Native == Execute /\ UNCHANGED clientVars

Sender == Send \/ SendTooLarge \/ Receive

CallerStep(t) ==
  \/ LeaveQueue(t) \/ TakeGate(t) \/ Recheck(t) \/ EncodeFails(t) \/ Encode(t)
  \/ Interrupt(t) \/ Called(t) \/ PollDone(t) \/ AwaitDone(t) \/ ForceClose(t)

OpenStep == Interrupt(Opener) \/ Opened

Shutdown ==
  \/ ShutdownGate \/ ShutdownCheck \/ Interrupt(Closer) \/ ShutdownAnswered \/ ShutdownExit
  \/ Settle

WaitProcess == Reap \/ ReaperGate \/ ClosePipes

Next ==
  \/ Child \/ Native \/ Sender \/ OpenStep \/ Shutdown \/ WaitProcess \/ Die \/ Crash
  \/ \E t \in Threads : BeginCall(t) \/ CloseContext(t) \/ CallerStep(t)
  \/ \E a \in Threads \cup {Opener} : Cancel(a)

\* Open has failed and nothing of its worker is left.
NeverOpened ==
  /\ pc[Opener] = "idle" /\ pc[Reaper] = "done"
  /\ UNCHANGED vars

Spec == Init /\ [][Next \/ NeverOpened]_vars

\* Goroutines run, pipes carry and a killed process dies.  A bounded number of
\* requests cannot keep anyone from the gate for ever, so weak fairness is enough
\* for those that wait for it.  Nothing is assumed of native calls.
Fairness ==
  /\ WF_vars(Child) /\ WF_vars(Sender) /\ WF_vars(OpenStep)
  /\ WF_vars(Shutdown) /\ WF_vars(WaitProcess) /\ WF_vars(Die)
  /\ \A t \in Threads : WF_vars(CallerStep(t))

FairSpec == Spec /\ Fairness

-----------------------------------------------------------------------------
(* Properties.                                                             *)

\* Parent and worker stay in step: serve never refuses a request as out of
\* sequence, and every response read is the one to the request outstanding, also
\* after a request that was too large to send and with responses that the
\* parent answers before the worker knows they are written.
InStep ==
  /\ ~astray
  /\ answer \in Messages => answer.id = nextID /\ answer.op = Operation

\* The goroutine that may still be writing the caller's bytes runs only while
\* that caller is inside exchange, also when the call is canceled.
BorrowedBytes ==
  sender # "none" => holder \in Users /\ pc[holder] \in {"exchange", "drain"}

\* The client fails as a whole only for a reason.  It reports a transport
\* failure or an exited worker only when the worker really died by itself:
\* closing the pipes after an orderly exit never costs a caller the final
\* response (waitProcess).  And a cancellation kills the worker only during an
\* exchange or a shutdown, never for a call that was still waiting its turn.
FailureIsReal ==
  /\ [](terminal \in {"io", "exit"} \/ closeErr \in {"io", "exit"} => crashed)
  /\ [][terminal = "nil" /\ terminal' = "canceled" => sender # "none" \/ closing # "nil"]_vars

\* The result of Close is published once and shared; it is nil only if the worker
\* has exited and been reaped.
CloseResultFinal ==
  /\ [][closing = "done" => closing' = "done" /\ closeErr' = closeErr]_vars
  /\ [](closing = "done" /\ closeErr = "nil" => proc = "reaped" /\ exited = "ok")

\* A canceled call or CloseContext returns even if a native call never does.
CanceledReturns == \A t \in Threads : canceled[t] ~> pc[t] = "idle"

\* Every started process that dies or is killed is reaped, and its pipes close.
Reaped == (killed \/ proc # "running") ~> (proc = "reaped" /\ conn = "closed" /\ pc[Reaper] = "done")
=============================================================================
