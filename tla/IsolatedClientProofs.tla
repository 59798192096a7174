------------------------ MODULE IsolatedClientProofs ------------------------
(***************************************************************************)
(* Proofs about package isolated for any number of calling goroutines and  *)
(* of requests: the gate keeps parent and worker in step although the      *)
(* process may die, calls may be canceled and Close may race all of them,  *)
(* and a transport failure or an exited worker is blamed only on a worker  *)
(* that died by itself.                                                    *)
(***************************************************************************)
EXTENDS IsolatedClient, TLAPS

-----------------------------------------------------------------------------
(* The inductive invariant, and what every action does to the types, to    *)
(* the gate and to the stages of shutdown.                                 *)

\* A pipe holds at most one message.
AtMostOne(pipe) == pipe = <<>> \/ (Head(pipe) \in Messages /\ pipe = <<Head(pipe)>>)

WorkerType ==
  /\ conn \in {"open", "closed"}
  /\ AtMostOne(requests) /\ AtMostOne(responses)
  /\ proc \in {"running", "dead", "reaped"}
  /\ status \in {"ok", "error"}
  /\ incoming \in Messages \cup {Nil, EOF}
  /\ expected \in Nat
  /\ pending \in Messages \cup {Nil}
  /\ next \in Messages \cup {Nil}
  /\ reply \in Messages \cup {Nil}
  /\ writing \in {"no", "write", "written", "failed"}

Labels ==
  {"idle", "wait", "recheck", "encode", "exchange", "drain", "poll", "linger", "forced",
   "gate", "check", "exit", "settle", "done"}

ClientType ==
  /\ holder \in Actors \cup {Nobody}
  /\ nextID \in Nat
  /\ exited \in {"no", "ok", "error"}
  /\ closing \in {"nil", "started", "done"}
  /\ sender \in {"none", "write", "read", "done"}
  /\ sender # "none" => nextID > 0
  /\ answer \in Messages \cup {Nil, Failure("io"), Failure("large")}
  /\ sender # "done" => answer = Nil
  /\ pc \in [Actors -> Labels]

TypeInv == WorkerType /\ ClientType

\* Where a goroutine is tells who holds the gate, and a canceled exchange has
\* closed the pipes.
GateInv ==
  /\ \A u \in Users :
       pc[u] \in {"recheck", "encode", "exchange", "drain", "check", "exit"} => holder = u
  /\ pc[Reaper] = "check" => holder = Reaper
  /\ \A u \in Users : pc[u] = "drain" => conn = "closed"

\* The worker holds one request at a time, which came in sequence.
Idle == pending = Nil /\ next = Nil /\ reply = Nil

WorkerInv ==
  proc = "running" =>
    /\ requests # <<>> => incoming = Nil /\ Idle /\ Head(requests).id = expected
    /\ incoming \in Messages => Idle /\ incoming.id = expected
    /\ pending # Nil => next = Nil /\ reply = Nil
    /\ next # Nil => reply = Nil
    /\ writing = "write" => reply # Nil

\* While the pipes are open the message on its way, if any, is the request of
\* the exchange that reads, or its response.
Ours(m) == m.id = nextID /\ m.op = Operation

Quiet == requests = <<>> /\ incoming = Nil /\ Idle

LinkInv ==
  conn = "open" =>
    /\ responses # <<>> => sender = "read" /\ Ours(Head(responses))
    /\ proc = "running" =>
         /\ sender # "read" \/ responses # <<>> => Quiet
         /\ requests # <<>> => Ours(Head(requests))
         /\ \A m \in {incoming, pending, next, reply} \ {Nil} : m \in Messages /\ Ours(m)
         /\ incoming # EOF
         /\ sender = "done" => answer \in Messages \cup {Failure("large")}
         /\ expected =
              IF \/ sender = "write" \/ (sender = "done" /\ answer = Failure("large"))
                 \/ requests # <<>> \/ incoming # Nil
              THEN nextID ELSE nextID + 1

\* How shutdown ends.
CloseInv ==
  /\ closing = "nil" <=> pc[Closer] = "idle"
  /\ closing = "done" <=> pc[Closer] = "done"
  /\ exited # "no" => proc = "reaped"
  /\ pc[Closer] = "settle" /\ verdict = "nil" => exited = "ok"
  /\ closing = "done" /\ closeErr = "nil" => exited = "ok"

IInv == TypeInv /\ GateInv /\ BorrowedBytes /\ WorkerInv /\ LinkInv /\ InStep /\ CloseInv

-----------------------------------------------------------------------------
\* The goroutines are distinct.
LEMMA ActorFacts ==
  /\ Opener \in Users /\ Closer \in Users /\ Threads \subseteq Users
  /\ Users \subseteq Actors /\ Reaper \in Actors
  /\ Opener \notin Threads /\ Closer \notin Threads /\ Reaper \notin Users /\ Nobody \notin Actors
  /\ Opener # Closer
  BY Zenon, ActorAssumption DEF Users, Actors

\* Writing one message into an empty pipe.
LEMMA PushOne ==
  ASSUME NEW m \in Messages
  PROVE  AtMostOne(Append(<<>>, m)) /\ Append(<<>>, m) # <<>> /\ Head(Append(<<>>, m)) = m
  BY DEF AtMostOne

\* Reading the one message of a pipe.
LEMMA PopOne ==
  ASSUME NEW pipe, AtMostOne(pipe), pipe # <<>>
  PROVE  Head(pipe) \in Messages /\ Tail(pipe) = <<>>
  <1> DEFINE m == Head(pipe)
  <1>1. m \in Messages /\ pipe = <<m>>
    BY Zenon DEF AtMostOne
  <1> HIDE DEF m
  <1>2. Tail(<<m>>) = <<>>
    OBVIOUS
  <1> QED BY Zenon, <1>1, <1>2 DEF m

\* An empty pipe holds at most one message.
LEMMA EmptyPipe == AtMostOne(<<>>)
  BY Zenon DEF AtMostOne

\* Messages are told from what stands for the absence of one.
LEMMA MessageFacts ==
  /\ \A id \in Nat \ {0}, op \in Operations, error \in Errors :
       /\ Message(id, op, error) \in Messages
       /\ Message(id, op, error).id = id /\ Message(id, op, error).op = op
  /\ \A m \in Messages : m.id \in Nat \ {0} /\ m.op \in Operations /\ m.error \in Errors
  /\ \A error : Failure(error) \notin Messages /\ Failure(error).error = error
  /\ Nil \notin Messages /\ EOF \notin Messages /\ Nil # EOF
  /\ Failure("io") # Nil /\ Failure("large") # Nil
  BY Zenon DEF Message, Messages, Nil, EOF, Failure, Operations, Errors

\* Every action preserves the types, the bound on the pipes included: a request is
\* written only when nothing is on its way, a response only when none is unread.
LEMMA TypeStep ==
  ASSUME TypeInv, WorkerInv, LinkInv, [Next \/ NeverOpened]_vars
  PROVE  TypeInv'
  <1> USE ActorFacts, EmptyPipe, MessageFacts DEF TypeInv, WorkerType, ClientType, Labels,
          pipes, loop, Worker, workerVars
  <1>1. ASSUME (Serve \/ Execute) /\ UNCHANGED clientVars
        PROVE  TypeInv'
    <2>1. CASE ReadRequest
      <3>1. incoming' \in Messages /\ requests' = <<>>
        BY Zenon, <2>1, PopOne DEF ReadRequest
      <3>2. UNCHANGED <<conn, responses, proc, status, expected, pending, next, reply, writing>>
        BY Zenon, <2>1 DEF ReadRequest
      <3> QED BY <1>1, <3>1, <3>2 DEF clientVars
    <2>2. CASE ReadEOF
      BY <2>2, <1>1 DEF ReadEOF, clientVars
    <2>3. CASE TakeEOF
      BY <2>3, <1>1 DEF TakeEOF, Exit, clientVars
    <2>4. CASE TakeRequest
      BY <2>4, <1>1 DEF TakeRequest, Exit, OutOfSequence, clientVars
    <2>5. CASE WriteResponse
      <3>1. conn = "open" => responses = <<>> /\ reply \in Messages
        BY Zenon, <2>5 DEF WriteResponse, WorkerInv, LinkInv, Quiet, Idle
      <3>2. reply \in Messages => AtMostOne(Append(<<>>, reply))
        BY Zenon, PushOne
      <3>3. AtMostOne(responses')
        BY <2>5, <3>1, <3>2 DEF WriteResponse
      <3> QED BY <1>1, <2>5, <3>3 DEF WriteResponse, clientVars
    <2>6. CASE WriteDone
      BY <2>6, <1>1 DEF WriteDone, Exit, clientVars
    <2>7. CASE Execute
      <3>1. PICK error \in Outcomes(pending.op) : reply' = Message(pending.id, pending.op, error)
        BY Zenon, <2>7 DEF Execute
      <3>2. error \in Errors
        BY Zenon DEF Outcomes, Errors
      <3>3. reply' \in Messages
        BY Zenon, <2>7, <3>1, <3>2 DEF Execute
      <3> QED BY <1>1, <2>7, <3>3 DEF Execute, clientVars
    <2> HIDE DEF TypeInv, WorkerType, ClientType, Labels, pipes, loop, Worker, workerVars
    <2> QED BY Zenon, <1>1, <2>1, <2>2, <2>3, <2>4, <2>5, <2>6, <2>7 DEF Serve
  <1>2. ASSUME NEW t \in Threads, BeginCall(t) \/ CloseContext(t) \/ CallerStep(t), ~Interrupt(t)
        PROVE  TypeInv'
    <2>1. CASE BeginCall(t)
      BY <2>1 DEF BeginCall, Goto
    <2>2. CASE LeaveQueue(t)
      BY <2>2 DEF LeaveQueue, Goto, Return
    <2>3. CASE TakeGate(t)
      BY <2>3 DEF TakeGate, Goto
    <2>4. CASE Recheck(t)
      BY <2>4 DEF Recheck, Goto, Return
    <2>5. CASE EncodeFails(t)
      BY <2>5 DEF EncodeFails, Goto, Return
    <2>6. CASE Encode(t)
      BY <2>6 DEF Encode, Goto, Return, StartExchange
    <2>7. CASE Called(t)
      BY <2>7 DEF Called, Goto, Finished, Decoded, Evaluate, EndExchange, RestoreID, NoStop,
          Stop, Return
    <2>8. CASE CloseContext(t)
      BY <2>8 DEF CloseContext, Goto
    <2>9. CASE PollDone(t)
      BY <2>9 DEF PollDone, Goto, Return
    <2>10. CASE AwaitDone(t)
      BY <2>10 DEF AwaitDone, Goto, Return
    <2>11. CASE ForceClose(t)
      BY <2>11 DEF ForceClose, Goto
    <2> HIDE DEF TypeInv, WorkerType, ClientType, Labels, pipes, loop, Worker, workerVars
    <2> QED BY Zenon, <1>2, <2>1, <2>2, <2>3, <2>4, <2>5, <2>6, <2>7, <2>8, <2>9, <2>10,
        <2>11 DEF CallerStep
  <1>3. ASSUME NEW u \in Users, Interrupt(u)
        PROVE  TypeInv'
    BY <1>3 DEF Interrupt, Goto, Stop
  <1>4. ASSUME NEW a \in Threads \cup {Opener}, Cancel(a)
        PROVE  TypeInv'
    BY <1>4 DEF Cancel
  <1>5. CASE SendTooLarge
    BY <1>5 DEF SendTooLarge, Operation
  <1>6. CASE Send
    <2>1. Message(nextID, Operation, "nil") \in Messages
      BY <1>6 DEF Send, Operation, Operations, Errors
    <2>2. conn = "open" /\ proc = "running" => requests = <<>>
      BY Zenon, <1>6 DEF Send, LinkInv, Quiet
    <2>3. AtMostOne(Append(<<>>, Message(nextID, Operation, "nil")))
      BY Zenon, <2>1, PushOne
    <2>4. AtMostOne(requests')
      BY Zenon, <1>6, <2>2, <2>3 DEF Send
    <2> QED BY <1>6, <2>4 DEF Send
  <1>7. CASE Receive
    <2>1. responses' = responses \/ responses' = <<>>
      BY Zenon, <1>7, PopOne DEF Receive
    <2>2. answer' \in Messages \cup {Failure("io")}
      BY <1>7, PopOne DEF Receive
    <2> QED BY <1>7, <2>1, <2>2 DEF Receive
  <1>8. CASE Opened
    BY <1>8 DEF Opened, Goto, Finished, Decoded, Evaluate, EndExchange, RestoreID, NoStop, Stop
  <1>9. CASE ShutdownGate
    BY <1>9 DEF ShutdownGate, Goto, Graceful
  <1>10. CASE ShutdownCheck
    BY <1>10 DEF ShutdownCheck, Goto, Graceful, Stop, NoStop, StartExchange
  <1>11. CASE ShutdownAnswered
    BY <1>11 DEF ShutdownAnswered, Goto, Finished, Evaluate, EndExchange, Stop, NoStop, Graceful
  <1>12. CASE ShutdownExit
    BY <1>12 DEF ShutdownExit, Goto, Stop, NoStop, Graceful
  <1>13. CASE Settle
    BY <1>13 DEF Settle, Goto, Stop, NoStop
  <1>14. CASE Reap
    BY <1>14 DEF Reap, Goto
  <1>15. CASE ReaperGate
    BY <1>15 DEF ReaperGate, Goto
  <1>16. CASE ClosePipes
    BY <1>16 DEF ClosePipes, Goto
  <1>17. CASE Die
    BY <1>17 DEF Die, Exit, clientVars
  <1>18. CASE Crash
    BY <1>18 DEF Crash, Exit
  <1>19. CASE UNCHANGED vars
    BY <1>19 DEF vars, workerVars, clientVars
  <1> HIDE DEF TypeInv, WorkerType, ClientType, Labels, pipes, loop, Worker, workerVars
  <1> QED BY Zenon, <1>1, <1>2, <1>3, <1>4, <1>5, <1>6, <1>7, <1>8, <1>9, <1>10, <1>11, <1>12, <1>13,
      <1>14, <1>15, <1>16, <1>17, <1>18, <1>19
    DEF Next, Child, Native, Sender, OpenStep, Shutdown, WaitProcess, CallerStep, NeverOpened,
        Users

\* Only a running worker serves, and serving never closes the pipes.
LEMMA ServeLocal ==
  ASSUME Serve \/ Execute
  PROVE  proc = "running" /\ UNCHANGED conn
  BY Zenon DEF Serve, ReadRequest, ReadEOF, TakeEOF, TakeRequest, WriteResponse, WriteDone, Execute,
    Exit, Worker

\* Only the holder of the gate exchanges messages, and only a canceled exchange
\* waits with the pipes closed.
LEMMA GateStep ==
  ASSUME TypeInv, GateInv, BorrowedBytes, CloseInv, [Next \/ NeverOpened]_vars
  PROVE  GateInv' /\ BorrowedBytes'
  <1> DEFINE Goal == GateInv /\ BorrowedBytes
  <1> SUFFICES Goal'
    BY Zenon
  <1> USE ActorFacts DEF TypeInv, ClientType, GateInv, BorrowedBytes, Worker, workerVars
  <1>1. ASSUME (Serve \/ Execute) /\ UNCHANGED clientVars
        PROVE  Goal'
    BY Zenon, <1>1, ServeLocal DEF clientVars
  <1>2. ASSUME NEW t \in Threads, BeginCall(t) \/ CloseContext(t) \/ CallerStep(t), ~Interrupt(t)
        PROVE  Goal'
    <2>1. CASE BeginCall(t)
      BY Zenon, <2>1 DEF BeginCall, Goto
    <2>2. CASE LeaveQueue(t)
      BY Zenon, <2>2 DEF LeaveQueue, Goto, Return
    <2>3. CASE TakeGate(t)
      BY Zenon, <2>3 DEF TakeGate, Goto
    <2>4. CASE Recheck(t)
      BY Zenon, <2>4 DEF Recheck, Goto, Return
    <2>5. CASE EncodeFails(t)
      BY Zenon, <2>5 DEF EncodeFails, Goto, Return
    <2>6. CASE Encode(t)
      BY <2>6 DEF Encode, Goto, Return, StartExchange
    <2>7. CASE Called(t)
      BY Zenon, <2>7 DEF Called, Goto, Finished, Decoded, Evaluate, EndExchange, RestoreID, NoStop,
          Stop, Return
    <2>8. CASE CloseContext(t)
      BY <2>8 DEF CloseContext, Goto, CloseInv
    <2>9. CASE PollDone(t)
      BY Zenon, <2>9 DEF PollDone, Goto, Return
    <2>10. CASE AwaitDone(t)
      BY Zenon, <2>10 DEF AwaitDone, Goto, Return
    <2>11. CASE ForceClose(t)
      BY Zenon, <2>11 DEF ForceClose, Goto
    <2> QED BY <1>2, <2>1, <2>2, <2>3, <2>4, <2>5, <2>6, <2>7, <2>8, <2>9, <2>10,
        <2>11 DEF CallerStep
  <1>3. ASSUME NEW u \in Users, Interrupt(u)
        PROVE  Goal'
    BY Zenon, <1>3 DEF Interrupt, Goto, Stop
  <1>4. ASSUME NEW a \in Threads \cup {Opener}, Cancel(a)
        PROVE  Goal'
    BY Zenon, <1>4 DEF Cancel
  <1>5. CASE SendTooLarge
    BY Zenon, <1>5 DEF SendTooLarge, Operation
  <1>6. CASE Send
    BY Zenon, <1>6 DEF Send, Operation
  <1>7. CASE Receive
    BY Zenon, <1>7 DEF Receive
  <1>8. CASE Opened
    BY <1>8 DEF Opened, Goto, Finished, Decoded, Evaluate, EndExchange, RestoreID, NoStop, Stop
  <1>9. CASE ShutdownGate
    BY <1>9 DEF ShutdownGate, Goto, Graceful
  <1>10. CASE ShutdownCheck
    BY <1>10 DEF ShutdownCheck, Goto, Graceful, Stop, NoStop, StartExchange
  <1>11. CASE ShutdownAnswered
    BY <1>11 DEF ShutdownAnswered, Goto, Finished, Evaluate, EndExchange, Stop, NoStop, Graceful
  <1>12. CASE ShutdownExit
    BY Zenon, <1>12 DEF ShutdownExit, Goto, Stop, NoStop, Graceful
  <1>13. CASE Settle
    BY Zenon, <1>13 DEF Settle, Goto, Stop, NoStop
  <1>14. CASE Reap
    BY Zenon, <1>14 DEF Reap, Goto
  <1>15. CASE ReaperGate
    BY Zenon, <1>15 DEF ReaperGate, Goto
  <1>16. CASE ClosePipes
    BY Zenon, <1>16 DEF ClosePipes, Goto
  <1>17. CASE Die
    BY Zenon, <1>17 DEF Die, Exit, clientVars
  <1>18. CASE Crash
    BY Zenon, <1>18 DEF Crash, Exit
  <1>19. CASE UNCHANGED vars
    BY Zenon, <1>19 DEF vars, workerVars, clientVars
  <1> HIDE DEF TypeInv, ClientType, GateInv, BorrowedBytes, Worker, workerVars, Goal
  <1> QED BY Zenon, <1>1, <1>2, <1>3, <1>4, <1>5, <1>6, <1>7, <1>8, <1>9, <1>10, <1>11, <1>12, <1>13,
      <1>14, <1>15, <1>16, <1>17, <1>18, <1>19
    DEF Next, Child, Native, Sender, OpenStep, Shutdown, WaitProcess, CallerStep, NeverOpened,
        Users

\* Every action preserves CloseInv.
LEMMA CloseStep ==
  ASSUME TypeInv, CloseInv, [Next \/ NeverOpened]_vars
  PROVE  CloseInv'
  <1> USE ActorFacts DEF TypeInv, ClientType, CloseInv, Worker, workerVars
  <1>1. ASSUME (Serve \/ Execute) /\ UNCHANGED clientVars
        PROVE  CloseInv'
    BY Zenon, <1>1, ServeLocal DEF clientVars
  <1>2. ASSUME NEW t \in Threads, BeginCall(t) \/ CloseContext(t) \/ CallerStep(t), ~Interrupt(t)
        PROVE  CloseInv'
    <2>1. CASE BeginCall(t)
      BY Zenon, <2>1 DEF BeginCall, Goto
    <2>2. CASE LeaveQueue(t)
      BY Zenon, <2>2 DEF LeaveQueue, Goto, Return
    <2>3. CASE TakeGate(t)
      BY Zenon, <2>3 DEF TakeGate, Goto
    <2>4. CASE Recheck(t)
      BY Zenon, <2>4 DEF Recheck, Goto, Return
    <2>5. CASE EncodeFails(t)
      BY Zenon, <2>5 DEF EncodeFails, Goto, Return
    <2>6. CASE Encode(t)
      BY Zenon, <2>6 DEF Encode, Goto, Return, StartExchange
    <2>7. CASE Called(t)
      BY Zenon, <2>7 DEF Called, Goto, Finished, Decoded, Evaluate, EndExchange, RestoreID, NoStop,
          Stop, Return
    <2>8. CASE CloseContext(t)
      BY Zenon, <2>8 DEF CloseContext, Goto
    <2>9. CASE PollDone(t)
      BY Zenon, <2>9 DEF PollDone, Goto, Return
    <2>10. CASE AwaitDone(t)
      BY Zenon, <2>10 DEF AwaitDone, Goto, Return
    <2>11. CASE ForceClose(t)
      BY Zenon, <2>11 DEF ForceClose, Goto
    <2> HIDE DEF CloseInv
    <2> QED BY Zenon, <1>2, <2>1, <2>2, <2>3, <2>4, <2>5, <2>6, <2>7, <2>8, <2>9, <2>10,
        <2>11 DEF CallerStep
  <1>3. ASSUME NEW u \in Users, Interrupt(u)
        PROVE  CloseInv'
    BY Zenon, <1>3 DEF Interrupt, Goto, Stop
  <1>4. ASSUME NEW a \in Threads \cup {Opener}, Cancel(a)
        PROVE  CloseInv'
    BY Zenon, <1>4 DEF Cancel
  <1>5. CASE SendTooLarge
    BY Zenon, <1>5 DEF SendTooLarge, Operation
  <1>6. CASE Send
    BY Zenon, <1>6 DEF Send, Operation
  <1>7. CASE Receive
    BY Zenon, <1>7 DEF Receive
  <1>8. CASE Opened
    BY <1>8 DEF Opened, Goto, Finished, Decoded, Evaluate, EndExchange, RestoreID, NoStop, Stop
  <1>9. CASE ShutdownGate
    BY Zenon, <1>9 DEF ShutdownGate, Goto, Graceful
  <1>10. CASE ShutdownCheck
    BY Zenon, <1>10 DEF ShutdownCheck, Goto, Graceful, Stop, NoStop, StartExchange
  <1>11. CASE ShutdownAnswered
    BY Zenon, <1>11 DEF ShutdownAnswered, Goto, Finished, Evaluate, EndExchange, Stop, NoStop, Graceful
  <1>12. CASE ShutdownExit
    BY Zenon, <1>12 DEF ShutdownExit, Goto, Stop, NoStop, Graceful
  <1>13. CASE Settle
    BY Zenon, <1>13 DEF Settle, Goto, Stop, NoStop
  <1>14. CASE Reap
    BY Zenon, <1>14 DEF Reap, Goto
  <1>15. CASE ReaperGate
    BY Zenon, <1>15 DEF ReaperGate, Goto
  <1>16. CASE ClosePipes
    BY Zenon, <1>16 DEF ClosePipes, Goto
  <1>17. CASE Die
    BY Zenon, <1>17 DEF Die, Exit, clientVars
  <1>18. CASE Crash
    BY Zenon, <1>18 DEF Crash, Exit
  <1>19. CASE UNCHANGED vars
    BY Zenon, <1>19 DEF vars, workerVars, clientVars
  <1> HIDE DEF TypeInv, ClientType, CloseInv, Worker, workerVars
  <1> QED BY Zenon, <1>1, <1>2, <1>3, <1>4, <1>5, <1>6, <1>7, <1>8, <1>9, <1>10, <1>11, <1>12, <1>13,
      <1>14, <1>15, <1>16, <1>17, <1>18, <1>19
    DEF Next, Child, Native, Sender, OpenStep, Shutdown, WaitProcess, CallerStep, NeverOpened,
        Users

-----------------------------------------------------------------------------
(* Parent and worker stay in step.                                         *)

\* What the actions do to the link between parent and worker: nothing; pass the
\* gate on between exchanges; close the pipes; end the process.
Untouched == UNCHANGED <<workerVars, holder, nextID, sender, answer>>

Handover == sender = "none" /\ UNCHANGED <<workerVars, nextID, sender, answer>>

Cut ==
  /\ conn' = "closed"
  /\ UNCHANGED <<pipes, Worker>>
  /\ answer' = Nil \/ UNCHANGED <<holder, nextID, answer>>

Gone == Exit(status') /\ UNCHANGED <<astray, holder, nextID, sender, answer>>

\* What LinkStep shows of the next state.
LinkGoal == WorkerInv /\ LinkInv /\ InStep

\* None of those effects puts parent and worker out of step.
LEMMA EffectsKeep ==
  ASSUME TypeInv, WorkerInv, LinkInv, InStep, Untouched \/ Handover \/ Cut \/ Gone
  PROVE  LinkGoal'
  <1> USE MessageFacts DEF TypeInv, ClientType, LinkGoal, WorkerInv, LinkInv, InStep, Idle,
      Quiet, Ours, pipes, loop, Worker, workerVars
  <1>1. CASE Untouched
    BY <1>1 DEF Untouched, Operation
  <1>2. CASE Handover
    BY Zenon, <1>2 DEF Handover
  <1>3. CASE Cut
    BY <1>3 DEF Cut, Operation
  <1>4. CASE Gone
    BY Zenon, <1>4 DEF Gone, Exit, Operation
  <1> HIDE DEF TypeInv, ClientType, LinkGoal, WorkerInv, LinkInv, InStep, Idle, Quiet, Ours,
      pipes, loop, Worker, workerVars
  <1> QED BY Zenon, <1>1, <1>2, <1>3, <1>4

\* An exchange starts with nothing on its way and the identifier expected next.
LEMMA StartKeeps ==
  ASSUME IInv, sender = "none", NEW u, StartExchange(u), UNCHANGED <<workerVars, holder>>
  PROVE  LinkGoal'
  BY Zenon, MessageFacts DEF IInv, TypeInv, ClientType, StartExchange, LinkGoal, WorkerInv, LinkInv,
      InStep, Idle, Quiet, Ours, pipes, loop, Worker, workerVars

\* An exchange that ends with the worker still usable leaves nothing behind; the
\* identifier of a request that was not sent is the next one again.
LEMMA EndKeeps ==
  ASSUME IInv, NEW u \in Users, Finished(u), pc[u] = "exchange", NEW error \in Decoded(u),
         error \notin {"io", "protocol"}, EndExchange, RestoreID(error), UNCHANGED workerVars
  PROVE  LinkGoal'
  <1> USE MessageFacts DEF IInv, TypeInv, ClientType, Finished
  <1>1. answer \in Messages => error # "large"
    BY Zenon DEF Decoded, Evaluate, Errors
  <1>2. answer = Failure("large") => error = "large"
    BY DEF Decoded, Evaluate
  <1>3. /\ sender' = "none" /\ answer' = Nil
        /\ nextID' = IF error = "large" THEN nextID - 1 ELSE nextID
    BY Zenon DEF EndExchange, RestoreID
  <1> QED BY <1>1, <1>2, <1>3 DEF LinkGoal, WorkerInv, LinkInv, InStep,
             Idle, Quiet, Ours, pipes, loop, Worker, workerVars

\* Every action keeps parent and worker in step.
LEMMA LinkStep ==
  ASSUME IInv, [Next \/ NeverOpened]_vars
  PROVE  LinkGoal'
  <1> DEFINE Effect == Untouched \/ Handover \/ Cut \/ Gone
  <1> USE ActorFacts, MessageFacts DEF IInv, TypeInv, WorkerType, ClientType, pipes, loop,
      Worker, workerVars
  <1>0. ASSUME Effect PROVE LinkGoal'
    BY Zenon, <1>0, EffectsKeep
  <1>1. ASSUME (Serve \/ Execute) /\ UNCHANGED clientVars
        PROVE  LinkGoal'
    <2> USE DEF LinkGoal, WorkerInv, LinkInv, InStep, Idle, Quiet, Ours, Operation, clientVars
    <2>1. CASE ReadRequest
      <3>1. incoming' \in Messages /\ requests' = <<>>
        BY Zenon, <2>1, PopOne DEF ReadRequest
      <3>2. requests # <<>> /\ incoming = Nil /\ incoming' = Head(requests)
        BY Zenon, <2>1 DEF ReadRequest
      <3>3. UNCHANGED <<conn, responses, proc, expected, pending, next, reply, writing, astray>>
        BY Zenon, <2>1 DEF ReadRequest
      <3> QED BY <1>1, <3>1, <3>2, <3>3
    <2>2. CASE ReadEOF
      BY Zenon, <1>1, <2>2 DEF ReadEOF
    <2>3. CASE TakeEOF
      BY Zenon, <1>0, <1>1, <2>3 DEF TakeEOF, Exit, Gone
    <2>4. CASE TakeRequest
      BY <1>1, <2>4 DEF TakeRequest, OutOfSequence
    <2>5. CASE WriteResponse
      <3>1. CASE conn = "open"
        <4>1. responses = <<>> /\ reply \in Messages /\ Ours(reply) /\ sender = "read"
          BY Zenon, <2>5, <3>1 DEF WriteResponse
        <4>2. Append(<<>>, reply) # <<>> /\ Head(Append(<<>>, reply)) = reply
          BY Zenon, <4>1, PushOne
        <4>3. responses' # <<>> /\ Head(responses') = reply
          BY Zenon, <2>5, <3>1, <4>1, <4>2 DEF WriteResponse
        <4> QED BY Zenon, <1>1, <2>5, <4>1, <4>3 DEF WriteResponse
      <3>2. CASE conn # "open"
        BY Zenon, <1>1, <2>5, <3>2 DEF WriteResponse
      <3> QED BY Zenon, <3>1, <3>2
    <2>6. CASE WriteDone
      <3>1. CASE Exit(status')
        BY Zenon, <1>0, <1>1, <2>6, <3>1 DEF WriteDone, Gone
      <3>2. CASE UNCHANGED proc
        BY <1>1, <2>6, <3>2 DEF WriteDone, Exit
      <3> QED BY Zenon, <2>6, <3>1, <3>2 DEF WriteDone, Exit
    <2>7. CASE Execute
      <3>1. PICK error \in Outcomes(pending.op) : reply' = Message(pending.id, pending.op, error)
        BY Zenon, <2>7 DEF Execute
      <3>2. error \in Errors
        BY Zenon DEF Outcomes, Errors
      <3>3. reply' \in Messages /\ reply'.id = pending.id /\ reply'.op = pending.op
        BY <2>7, <3>1, <3>2 DEF Execute
      <3>4. /\ proc = "running" /\ pending # Nil /\ pending' = Nil /\ writing' = "write"
            /\ UNCHANGED <<conn, requests, responses, proc, incoming, expected, next, astray>>
        BY Zenon, <2>7 DEF Execute
      <3>5. WorkerInv'
        BY <3>3, <3>4
      <3>6. LinkInv'
        BY <1>1, <3>3, <3>4
      <3>7. InStep'
        BY Zenon, <1>1, <3>4
      <3> QED BY Zenon, <3>5, <3>6, <3>7
    <2> HIDE DEF LinkGoal, WorkerInv, LinkInv, InStep, Idle, Quiet, Ours, Operation, clientVars,
        IInv, TypeInv, WorkerType, ClientType, pipes, loop, Worker, workerVars
    <2> QED BY Zenon, <1>1, <2>1, <2>2, <2>3, <2>4, <2>5, <2>6, <2>7 DEF Serve
  <1>2. ASSUME NEW t \in Threads, BeginCall(t) \/ CloseContext(t) \/ CallerStep(t) \/ Cancel(t)
        PROVE  LinkGoal'
    <2>1. CASE \/ BeginCall(t) \/ LeaveQueue(t) \/ CloseContext(t) \/ PollDone(t) \/ AwaitDone(t)
               \/ ForceClose(t) \/ Cancel(t)
      BY Zenon, <1>0, <2>1 DEF BeginCall, LeaveQueue, CloseContext, PollDone, AwaitDone, ForceClose,
          Cancel, Untouched
    <2>2. CASE TakeGate(t) \/ Recheck(t) \/ EncodeFails(t)
      <3>1. sender = "none"
        <4>1. CASE TakeGate(t)
          BY Zenon, <4>1 DEF TakeGate, BorrowedBytes
        <4>2. CASE Recheck(t) \/ EncodeFails(t)
          BY Zenon, <4>2 DEF Recheck, EncodeFails, GateInv, BorrowedBytes
        <4> QED BY Zenon, <2>2, <4>1, <4>2
      <3>2. UNCHANGED <<workerVars, nextID, sender, answer>>
        BY Zenon, <2>2 DEF TakeGate, Recheck, EncodeFails
      <3> QED BY Zenon, <1>0, <3>1, <3>2 DEF Handover
    <2>3. CASE Encode(t)
      <3>1. sender = "none"
        BY Zenon, <2>3 DEF Encode, GateInv, BorrowedBytes
      <3>2. CASE canceled[t]
        BY Zenon, <1>0, <2>3, <3>1, <3>2 DEF Encode, Handover
      <3>3. CASE ~canceled[t]
        BY Zenon, <2>3, <3>1, <3>3, StartKeeps DEF Encode
      <3> QED BY Zenon, <3>2, <3>3
    <2>4. CASE Called(t)
      <3>1. PICK error \in Decoded(t) :
              /\ RestoreID(error)
              /\ IF error \in {"io", "protocol"} THEN Stop(error) ELSE NoStop
        BY Zenon, <2>4 DEF Called
      <3>2. Finished(t) /\ EndExchange /\ UNCHANGED <<pipes, Worker>>
        BY Zenon, <2>4 DEF Called
      <3>3. CASE pc[t] = "drain" \/ error \in {"io", "protocol"}
        BY Zenon, <1>0, <3>1, <3>2, <3>3 DEF Cut, Stop, NoStop, EndExchange, GateInv
      <3>4. CASE pc[t] = "exchange" /\ error \notin {"io", "protocol"}
        BY Zenon, <3>1, <3>2, <3>4, EndKeeps DEF NoStop
      <3> QED BY Zenon, <3>2, <3>3, <3>4 DEF Finished
    <2>5. CASE Interrupt(t)
      BY Zenon, <1>0, <2>5 DEF Interrupt, Stop, Cut
    <2> QED BY Zenon, <1>2, <2>1, <2>2, <2>3, <2>4, <2>5 DEF CallerStep
  <1>3. CASE Cancel(Opener)
    BY Zenon, <1>0, <1>3 DEF Cancel, Untouched
  <1>4. CASE Interrupt(Opener) \/ Interrupt(Closer)
    BY Zenon, <1>0, <1>4 DEF Interrupt, Stop, Cut
  <1>5. CASE SendTooLarge
    BY Zenon, <1>5 DEF SendTooLarge, LinkGoal, WorkerInv, LinkInv, InStep, Idle, Quiet, Ours, Operation
  <1>6. CASE Send
    <2> DEFINE m == Message(nextID, Operation, "nil")
    <2>1. m \in Messages /\ Ours(m)
      BY <1>6 DEF Send, Operation, Operations, Errors, Ours
    <2>2. Append(<<>>, m) # <<>> /\ Head(Append(<<>>, m)) = m
      BY Zenon, <2>1, PushOne
    <2> HIDE DEF m
    <2>3. CASE conn = "open" /\ proc = "running"
      <3>1. Quiet /\ responses = <<>> /\ expected = nextID
        BY Zenon, <1>6, <2>3 DEF Send, LinkInv
      <3>2. requests' # <<>> /\ Head(requests') = m
        BY Zenon, <1>6, <2>2, <2>3, <3>1 DEF Send, m, Quiet
      <3>3. /\ sender' = "read"
            /\ UNCHANGED <<conn, responses, proc, incoming, expected, pending, next, reply,
                           writing, astray, holder, nextID, answer>>
        BY Zenon, <1>6, <2>3 DEF Send
      <3> QED BY Zenon, <2>1, <3>1, <3>2, <3>3 DEF Send, LinkGoal, WorkerInv, LinkInv, InStep, Idle,
          Quiet, Ours, Operation
    <2>4. CASE ~(conn = "open" /\ proc = "running")
      <3>1. /\ answer' = Failure("io") /\ Failure("io") \notin Messages
            /\ UNCHANGED <<conn, requests, responses, proc, incoming, expected, pending, next,
                           reply, writing, astray, holder, nextID>>
        BY Zenon, <1>6, <2>4 DEF Send
      <3>2. WorkerInv' /\ InStep'
        BY Zenon, <3>1 DEF WorkerInv, InStep, Idle
      <3>3. LinkInv'
        BY Zenon, <1>6, <2>4, <3>1 DEF Send, LinkInv, Ours
      <3> QED BY Zenon, <3>2, <3>3 DEF LinkGoal
    <2> QED BY Zenon, <2>3, <2>4
  <1>7. CASE Receive
    <2>1. CASE /\ conn = "open" /\ responses # <<>>
               /\ answer' = Head(responses) /\ responses' = Tail(responses)
      <3>1. answer' \in Messages /\ responses' = <<>> /\ Ours(answer')
        BY Zenon, <2>1, PopOne DEF LinkInv
      <3>2. /\ sender = "read" /\ sender' = "done"
            /\ UNCHANGED <<conn, requests, proc, incoming, expected, pending, next, reply,
                           writing, astray, holder, nextID>>
        BY Zenon, <1>7 DEF Receive
      <3>3. WorkerInv' /\ InStep'
        BY Zenon, <3>1, <3>2 DEF WorkerInv, InStep, Idle, Ours, Operation
      <3>4. proc = "running" =>
              /\ Quiet /\ Quiet' /\ expected' = nextID' + 1
              /\ answer' # Failure("large")
        BY <2>1, <3>1, <3>2 DEF LinkInv, Quiet, Idle
      <3>5. LinkInv'
        BY Zenon, <3>1, <3>2, <3>4 DEF LinkInv, Quiet, Idle
      <3> QED BY Zenon, <3>3, <3>5 DEF LinkGoal
    <2>2. CASE /\ conn = "closed" \/ (responses = <<>> /\ proc # "running")
               /\ answer' = Failure("io") /\ UNCHANGED responses
      BY Zenon, <1>7, <2>2 DEF Receive, LinkGoal, WorkerInv, LinkInv, InStep, Idle, Quiet, Ours,
          Operation
    <2> QED BY Zenon, <1>7, <2>1, <2>2 DEF Receive
  <1>8. CASE Opened
    <2>1. PICK error \in Decoded(Opener) :
            /\ Finished(Opener) /\ EndExchange /\ RestoreID(error) /\ UNCHANGED <<pipes, Worker>>
            /\ IF error = "nil" THEN NoStop ELSE Stop(error)
      BY Zenon, <1>8 DEF Opened
    <2>2. CASE pc[Opener] = "drain" \/ error # "nil"
      BY Zenon, <1>0, <2>1, <2>2 DEF Cut, Stop, NoStop, EndExchange, GateInv
    <2>3. CASE pc[Opener] = "exchange" /\ error = "nil"
      BY Zenon, <2>1, <2>3, EndKeeps DEF NoStop
    <2> QED BY Zenon, <2>1, <2>2, <2>3 DEF Finished
  <1>9. CASE ShutdownGate \/ ReaperGate
    <2>1. CASE ReaperGate
      BY Zenon, <1>0, <2>1 DEF ReaperGate, GateInv, BorrowedBytes, Handover, Untouched
    <2>2. CASE ShutdownGate
      <3>1. UNCHANGED <<workerVars, nextID, sender, answer>>
        BY Zenon, <2>2 DEF ShutdownGate
      <3>2. holder = Nobody => sender = "none"
        BY DEF BorrowedBytes
      <3>3. holder = Closer => sender = "none"
        BY Zenon, <2>2 DEF ShutdownGate, BorrowedBytes
      <3>4. UNCHANGED holder \/ holder = Nobody \/ holder = Closer
        BY Zenon, <2>2 DEF ShutdownGate, Graceful
      <3> QED BY Zenon, <1>0, <3>1, <3>2, <3>3, <3>4 DEF Handover, Untouched
    <2> QED BY Zenon, <1>9, <2>1, <2>2
  <1>10. CASE ShutdownCheck
    <2>1. sender = "none"
      BY Zenon, <1>10 DEF ShutdownCheck, GateInv, BorrowedBytes
    <2>2. CASE StartExchange(Closer) /\ NoStop /\ UNCHANGED holder
      BY Zenon, <1>10, <2>1, <2>2, StartKeeps DEF ShutdownCheck, NoStop
    <2> QED BY Zenon, <1>0, <1>10, <2>1, <2>2 DEF ShutdownCheck, NoStop, Stop, Handover, Cut
  <1>11. CASE ShutdownAnswered
    <2> DEFINE error == Evaluate(Closer)
    <2>1. Finished(Closer) /\ EndExchange /\ UNCHANGED <<pipes, Worker, nextID>>
      BY Zenon, <1>11 DEF ShutdownAnswered
    <2>2. conn' = "closed" \/ (error = "nil" /\ UNCHANGED conn)
      BY Zenon, <1>11 DEF ShutdownAnswered, Stop, NoStop
    <2>3. CASE conn' = "closed"
      BY Zenon, <1>0, <2>1, <2>3 DEF Cut, EndExchange
    <2>4. CASE error = "nil" /\ UNCHANGED conn
      <3>1. error \in Decoded(Closer) /\ pc[Closer] = "exchange" /\ RestoreID(error)
        BY Zenon, <2>1, <2>4 DEF Decoded, Finished, Evaluate, RestoreID
      <3> QED BY Zenon, <2>1, <2>4, <3>1, EndKeeps
    <2> QED BY Zenon, <2>2, <2>3, <2>4
  <1>12. CASE ShutdownExit
    BY Zenon, <1>0, <1>12 DEF ShutdownExit, Graceful, Stop, NoStop, GateInv, BorrowedBytes, Handover, Cut
  <1>13. CASE Settle
    BY Zenon, <1>0, <1>13 DEF Settle, Stop, NoStop, Untouched, Cut
  <1>14. CASE Reap
    BY <1>14 DEF Reap, LinkGoal, WorkerInv, LinkInv, InStep, Idle, Quiet, Ours, Operation
  <1>15. CASE ClosePipes
    BY Zenon, <1>0, <1>15 DEF ClosePipes, Cut, GateInv, BorrowedBytes
  <1>16. CASE Die \/ Crash
    BY Zenon, <1>0, <1>16 DEF Die, Crash, Exit, Gone, clientVars
  <1>17. CASE UNCHANGED vars
    BY Zenon, <1>0, <1>17 DEF vars, clientVars, Untouched
  <1> QED BY <1>1, <1>2, <1>3, <1>4, <1>5, <1>6, <1>7, <1>8, <1>9, <1>10, <1>11, <1>12, <1>13,
      <1>14,
             <1>15, <1>16, <1>17
      DEF Next, Child, Native, Sender, OpenStep, Shutdown, WaitProcess, NeverOpened

-----------------------------------------------------------------------------
\* IInv is an invariant.
LEMMA Inductive == Spec => []IInv
  <1>1. Init => IInv
    BY ActorFacts, EmptyPipe, MessageFacts
       DEF Init, WorkerInit, IInv, TypeInv, WorkerType, ClientType, GateInv, BorrowedBytes,
           WorkerInv, LinkInv, InStep, CloseInv, Quiet, Idle, Labels, Operation
  <1>2. IInv /\ [Next \/ NeverOpened]_vars => IInv'
    BY Zenon, TypeStep, GateStep, CloseStep, LinkStep DEF IInv, LinkGoal
  <1> QED BY <1>1, <1>2, PTL DEF Spec

\* Whatever is canceled, closed or killed while it is under way, an exchange ends
\* with the response to its own request or without one, and the worker never has
\* to refuse a request as out of sequence (exchange, serve).
THEOREM KeptInStep == Spec => []InStep
  <1>1. IInv => InStep
    BY Zenon DEF IInv
  <1> QED BY <1>1, Inductive, PTL

\* The sender goroutine never outlives the call whose bytes it writes (exchange
\* waits for it after a cancellation).
THEOREM BytesReturned == Spec => []BorrowedBytes
  <1>1. IInv => BorrowedBytes
    BY Zenon DEF IInv
  <1> QED BY <1>1, Inductive, PTL

\* Close publishes one result, and a nil one only for a worker that has exited
\* with success and been reaped (CloseContext, shutdown).
THEOREM CloseFinal == Spec => CloseResultFinal
  <1> DEFINE Published == closing = "done" => closing' = "done" /\ closeErr' = closeErr
             Orderly == closing = "done" /\ closeErr = "nil" => proc = "reaped" /\ exited = "ok"
  <1>1. IInv => Orderly
    BY Zenon DEF IInv, CloseInv
  <1>2. IInv /\ [Next \/ NeverOpened]_vars => [Published]_vars
    <2> SUFFICES ASSUME IInv, Next \/ NeverOpened
                 PROVE  Published
      BY Zenon
    <2>1. ASSUME NEW t \in Threads, BeginCall(t) \/ CloseContext(t) \/ CallerStep(t) \/ Cancel(t)
          PROVE  Published
      BY <2>1 DEF BeginCall, CloseContext, CallerStep, Cancel, LeaveQueue, TakeGate, Recheck,
          EncodeFails, Encode, Interrupt, Called, PollDone, AwaitDone, ForceClose
    <2>2. CASE Settle
      BY Zenon, <2>2 DEF Settle, IInv, CloseInv
    <2> QED BY Zenon, <2>1, <2>2 DEF Next, NeverOpened, vars, clientVars, Child, Native, Sender, Send,
        SendTooLarge, Receive, OpenStep, Interrupt, Opened, Shutdown, ShutdownGate,
        ShutdownCheck, ShutdownAnswered, ShutdownExit, WaitProcess, Reap,
        ReaperGate, ClosePipes, Die, Crash, Cancel
  <1> QED BY <1>1, <1>2, Inductive, PTL DEF Spec, CloseResultFinal

-----------------------------------------------------------------------------
(* Why an isolated client fails.                                           *)

\* The worker exits after a response that ends the session.
Final(m) == Quits(m.op, m.error)

\* The worker has gone, is about to leave, or cannot be reached any more.
Over == conn = "closed" \/ proc # "running" \/ (writing = "written" /\ quit)

\* It leaves in good order: nobody has closed the pipes or killed it.
Leaving ==
  /\ conn = "open"
  /\ IF proc = "running" THEN writing = "written" /\ quit ELSE status = "ok"

\* Last(m): the worker leaves exactly when m was its final response.
Last(m) == (Over => Final(m)) /\ (Final(m) => Leaving)

\* Whoever is past the acknowledgement of Close, and nobody is about to send.
Farewell ==
  /\ pc[Closer] \in {"exit", "settle", "done"}
  /\ \A t \in Threads : pc[t] # "encode"

\* While nobody has stopped the worker and it has not crashed, it is over only
\* with its final response, which the parent still reads.
OrderInv ==
  terminal = "nil" /\ ~crashed =>
    /\ sender = "write" \/ (sender = "read" /\ responses = <<>>) => ~Over
    /\ sender = "read" /\ responses # <<>> => conn = "open" /\ Last(Head(responses))
    /\ sender = "done" => \/ answer \in Messages /\ conn = "open" /\ Last(answer)
                          \/ answer = Failure("large") /\ ~Over
    /\ sender = "none" => ~Over \/ Farewell
    /\ pc[Closer] = "exit" /\ verdict = "nil" => Leaving

ReasonInv ==
  /\ \/ terminal \in {"io", "exit"} \/ verdict \in {"io", "exit"} \/ closeErr \in {"io", "exit"}
     => crashed
  /\ killed => terminal # "nil"
  /\ proc = "running" /\ writing = "write" => (quit <=> Final(reply))
  /\ writing = "failed" => conn = "closed"
  /\ pc[Reaper] # "wait" => proc = "reaped"
  /\ exited # "no" => exited = status
  /\ \A u \in Users : pc[u] \in {"exchange", "drain"} => sender # "none"
  /\ pc[Closer] = "exchange" \/ (pc[Closer] = "exit" /\ verdict = "nil") => terminal = "nil"

-----------------------------------------------------------------------------
\* What the end of an exchange reports: no lost transport unless the worker was
\* stopped or crashed, and a worker that leaves only with an error that stops it
\* or with the acknowledgement of Close.
LEMMA Reported ==
  ASSUME IInv, OrderInv, NEW u \in Users, Finished(u), NEW error \in Decoded(u)
  PROVE  /\ error # "exit"
         /\ error = "io" => terminal # "nil" \/ crashed
         /\ terminal = "nil" /\ ~crashed /\ Over /\ u # Closer
              => error = "protocol" \/ (u = Opener /\ error # "nil")
         /\ terminal = "nil" /\ ~crashed /\ u = Closer /\ Evaluate(u) = "nil" => Leaving
         /\ holder = u
         /\ \A v \in Users : v # u => pc[v] \notin {"exchange", "drain", "encode", "exit"}
  <1> USE ActorFacts, MessageFacts
  <1>1. /\ sender = "done" /\ pc[u] \in {"exchange", "drain"}
        /\ answer \in Messages \cup {Nil, Failure("io"), Failure("large")}
    BY Zenon DEF Finished, IInv, TypeInv, ClientType
  <1>2. holder = u /\ \A v \in Users : v # u => pc[v] \notin {"exchange", "drain", "encode", "exit"}
    BY Zenon, <1>1 DEF IInv, GateInv
  <1>3. error # "exit" /\ (error = "io" => pc[u] = "exchange" /\ answer \notin Messages
                                            /\ answer # Failure("large"))
    <2>1. Nil.error = "nil" /\ \A m \in Messages : m.error \in {"nil", "native", "protocol"}
      BY Zenon DEF Nil, Message, Errors
    <2>2. answer.error \in {"nil", "native", "protocol", "io", "large"}
      BY <1>1, <2>1
    <2> QED BY <1>1, <2>1, <2>2 DEF Decoded, Evaluate
  <1>4. error = "io" => terminal # "nil" \/ crashed
    BY Zenon, <1>1, <1>3 DEF OrderInv
  <1>5. ASSUME terminal = "nil", ~crashed
        PROVE  /\ pc[u] = "exchange" /\ (Over => answer \in Messages /\ Last(answer))
               /\ answer \in Messages \cup {Failure("large")}
    BY Zenon, <1>1, <1>5 DEF OrderInv, IInv, GateInv, Last, Over
  <1>6. ASSUME answer \in Messages, Final(answer), pc[u] = "exchange"
        PROVE  /\ answer.op = Operation /\ answer.id = nextID
               /\ answer.op = "Close" \/ answer.error = "protocol"
                    \/ (answer.op = "Open" /\ answer.error = "native")
    BY Zenon, <1>6 DEF IInv, InStep, Final, Quits
  <1>7. ASSUME terminal = "nil", ~crashed, Over, u # Closer
        PROVE  error = "protocol" \/ (u = Opener /\ error # "nil")
    <2>1. answer \in Messages /\ Final(answer) /\ pc[u] = "exchange"
      BY Zenon, <1>5, <1>7 DEF Last
    <2>2. Operation = IF u = Opener THEN "Open" ELSE "call"
      BY Zenon, <1>2, <1>7 DEF Operation
    <2>3. Evaluate(u) = answer.error /\ answer.error \in Errors
      BY Zenon, <1>6, <2>1 DEF Evaluate, Errors
    <2> QED BY Zenon, <1>6, <2>1, <2>2, <2>3 DEF Decoded
  <1>8. ASSUME terminal = "nil", ~crashed, u = Closer, Evaluate(u) = "nil"
        PROVE  Leaving
    <2>1. answer \in Messages /\ Last(answer)
      BY Zenon, <1>1, <1>5, <1>8 DEF OrderInv, Evaluate
    <2>2. answer.op = "Close"
      BY Zenon, <1>2, <1>8, <2>1 DEF IInv, InStep, Operation
    <2> QED BY Zenon, <2>1, <2>2 DEF Last, Final, Quits
  <1> QED BY Zenon, <1>2, <1>3, <1>4, <1>7, <1>8

\* Every action preserves ReasonInv.
LEMMA ReasonStep ==
  ASSUME IInv, OrderInv, ReasonInv, [Next \/ NeverOpened]_vars
  PROVE  ReasonInv'
  <1>0. /\ TypeInv /\ GateInv /\ BorrowedBytes /\ WorkerInv /\ LinkInv /\ InStep /\ CloseInv
        /\ pc \in [Actors -> Labels]
    BY Zenon DEF IInv, TypeInv, ClientType
  <1> USE ActorFacts, <1>0 DEF ReasonInv, Worker, workerVars, pipes, loop
  <1>1. ASSUME (Serve \/ Execute) /\ UNCHANGED clientVars
        PROVE  ReasonInv'
    <2>1. CASE ReadRequest \/ ReadEOF \/ WriteResponse
      <3>1. /\ UNCHANGED <<conn, proc, status>>
            /\ \/ UNCHANGED <<reply, writing, quit>>
               \/ writing' = "written"
               \/ writing' = "failed" /\ conn = "closed"
        BY Zenon, <2>1 DEF ReadRequest, ReadEOF, WriteResponse, TypeInv, WorkerType
      <3> QED BY <1>1, <3>1 DEF clientVars
    <2>2. CASE TakeEOF \/ TakeRequest \/ WriteDone
      BY <1>1, <2>2 DEF TakeEOF, TakeRequest, OutOfSequence, WriteDone, Exit, CloseInv, clientVars
    <2>3. CASE Execute
      <3>1. PICK error \in Outcomes(pending.op) :
              /\ reply' = Message(pending.id, pending.op, error)
              /\ quit' = Quits(pending.op, error)
        BY Zenon, <2>3 DEF Execute
      <3>2. quit' <=> Final(reply')
        BY Zenon, <3>1 DEF Final, Message, Quits
      <3> QED BY Zenon, <1>1, <2>3, <3>2 DEF Execute, clientVars
    <2> QED BY Zenon, <1>1, <2>1, <2>2, <2>3 DEF Serve
  <1>2. ASSUME NEW t \in Threads, BeginCall(t) \/ CloseContext(t) \/ CallerStep(t), ~Interrupt(t)
        PROVE  ReasonInv'
    <2>1. CASE BeginCall(t)
      BY Zenon, <2>1 DEF BeginCall, Goto
    <2>2. CASE LeaveQueue(t)
      BY Zenon, <2>2 DEF LeaveQueue, Goto, Return
    <2>3. CASE TakeGate(t)
      BY Zenon, <2>3 DEF TakeGate, Goto
    <2>4. CASE Recheck(t)
      BY Zenon, <2>4 DEF Recheck, Goto, Return
    <2>5. CASE EncodeFails(t)
      BY Zenon, <2>5 DEF EncodeFails, Goto, Return
    <2>6. CASE Encode(t)
      BY <2>6 DEF Encode, Goto, Return, StartExchange
    <2>7. CASE Called(t)
      <3>1. PICK error \in Decoded(t) : IF error \in {"io", "protocol"} THEN Stop(error) ELSE NoStop
        BY Zenon, <2>7 DEF Called
      <3>2. /\ Finished(t) /\ EndExchange /\ pc' = [pc EXCEPT ![t] = "idle"]
            /\ UNCHANGED <<pipes, Worker, crashed, exited, closing, closeErr, verdict>>
        BY Zenon, <2>7 DEF Called, Return, Goto
      <3> QED BY <3>1, <3>2, Reported DEF EndExchange, NoStop, Stop
    <2>8. CASE CloseContext(t)
      BY <2>8 DEF CloseContext, Goto, CloseInv
    <2>9. CASE PollDone(t)
      BY Zenon, <2>9 DEF PollDone, Goto, Return
    <2>10. CASE AwaitDone(t)
      BY Zenon, <2>10 DEF AwaitDone, Goto, Return
    <2>11. CASE ForceClose(t)
      BY Zenon, <2>11 DEF ForceClose, Goto
    <2> HIDE DEF ReasonInv
    <2> QED BY Zenon, <1>2, <2>1, <2>2, <2>3, <2>4, <2>5, <2>6, <2>7, <2>8, <2>9, <2>10,
        <2>11 DEF CallerStep
  <1>3. ASSUME NEW u \in Users, Interrupt(u)
        PROVE  ReasonInv'
    BY Zenon, <1>3 DEF Interrupt, Goto, Stop, GateInv
  <1>4. ASSUME NEW a \in Threads \cup {Opener}, Cancel(a)
        PROVE  ReasonInv'
    BY Zenon, <1>4 DEF Cancel
  <1>5. CASE SendTooLarge
    BY Zenon, <1>5 DEF SendTooLarge
  <1>6. CASE Send
    BY Zenon, <1>6 DEF Send
  <1>7. CASE Receive
    BY Zenon, <1>7 DEF Receive
  <1>8. CASE Opened
    <2>1. PICK error \in Decoded(Opener) :
            /\ Finished(Opener)
            /\ IF error = "nil" THEN NoStop ELSE Stop(error)
            /\ Goto(Opener, IF error = "nil" THEN "done" ELSE "idle")
      BY Zenon, <1>8 DEF Opened
    <2>2. /\ EndExchange
          /\ UNCHANGED <<pipes, Worker, crashed, exited, closing, closeErr, verdict>>
      BY Zenon, <1>8 DEF Opened
    <2>3. /\ error # "exit" /\ (error = "io" => terminal # "nil" \/ crashed)
          /\ \A v \in Users : v # Opener => pc[v] \notin {"exchange", "drain", "exit"}
      BY Zenon, <2>1, Reported
    <2> QED BY Zenon, <2>1, <2>2, <2>3 DEF EndExchange, NoStop, Stop, Goto
  <1>9. CASE ShutdownGate
    BY Zenon, <1>9 DEF ShutdownGate, Goto, Graceful
  <1>10. CASE ShutdownCheck
    <2>1. /\ pc[Closer] = "check"
          /\ UNCHANGED <<pipes, Worker, crashed, exited, closing, closeErr>>
      BY Zenon, <1>10 DEF ShutdownCheck
    <2>2. CASE aborted /\ Graceful("canceled") /\ NoStop /\ UNCHANGED sender
      BY Zenon, <2>1, <2>2 DEF Graceful, Goto, NoStop
    <2>3. CASE /\ terminal # "nil" /\ Stop(terminal) /\ verdict' = terminal
               /\ Goto(Closer, "exit") /\ UNCHANGED sender
      BY Zenon, <2>1, <2>3 DEF Stop, Goto
    <2>4. CASE terminal = "nil" /\ StartExchange(Closer) /\ NoStop /\ UNCHANGED verdict
      BY Zenon, <2>1, <2>4 DEF StartExchange, Goto, NoStop
    <2> QED BY Zenon, <1>10, <2>2, <2>3, <2>4 DEF ShutdownCheck
  <1>11. CASE ShutdownAnswered
    <2> DEFINE error == Evaluate(Closer)
    <2>1. Finished(Closer) /\ error \in Decoded(Closer)
      BY Zenon, <1>11 DEF ShutdownAnswered, Decoded
    <2>2. error # "exit" /\ (error = "io" => crashed)
      BY Zenon, <2>1, Reported DEF Finished, Evaluate
    <2>3. \A v \in Users : v # Closer => pc[v] \notin {"exchange", "drain"}
      BY Zenon, <2>1, Reported
    <2>4. error = "nil" => pc[Closer] = "exchange"
      BY Zenon, <2>1 DEF Finished, Evaluate
    <2>5. /\ sender' = "none" /\ UNCHANGED <<pipes, Worker, crashed, exited, closing, closeErr>>
          /\ \/ /\ IF error = "nil" THEN NoStop ELSE Stop(error)
                /\ verdict' = error /\ Goto(Closer, "exit")
             \/ error = "nil" /\ Stop("protocol") /\ Graceful("protocol")
      BY Zenon, <1>11 DEF ShutdownAnswered, EndExchange
    <2> HIDE DEF error
    <2>6. CASE error = "nil" /\ NoStop /\ verdict' = error /\ Goto(Closer, "exit")
      BY Zenon, <2>3, <2>4, <2>5, <2>6 DEF Goto, NoStop
    <2>7. CASE error # "nil" /\ Stop(error) /\ verdict' = error /\ Goto(Closer, "exit")
      BY Zenon, <2>2, <2>3, <2>5, <2>7 DEF Goto, Stop
    <2>8. CASE error = "nil" /\ Stop("protocol") /\ Graceful("protocol")
      BY Zenon, <2>3, <2>5, <2>8 DEF Goto, Stop, Graceful
    <2> QED BY Zenon, <2>5, <2>6, <2>7, <2>8
  <1>12. CASE ShutdownExit
    BY <1>12 DEF ShutdownExit, Goto, Stop, NoStop, Graceful, OrderInv, Leaving, CloseInv
  <1>13. CASE Settle
    BY Zenon, <1>13 DEF Settle, Goto, Stop, NoStop
  <1>14. CASE Reap
    BY Zenon, <1>14 DEF Reap, Goto
  <1>15. CASE ReaperGate
    BY Zenon, <1>15 DEF ReaperGate, Goto
  <1>16. CASE ClosePipes
    BY Zenon, <1>16 DEF ClosePipes, Goto, OrderInv, Over, Farewell, BorrowedBytes, GateInv, CloseInv
  <1>17. CASE Die
    BY Zenon, <1>17 DEF Die, Exit, clientVars, CloseInv
  <1>18. CASE Crash
    BY Zenon, <1>18 DEF Crash, Exit, CloseInv
  <1>19. CASE UNCHANGED vars
    BY Zenon, <1>19 DEF vars, clientVars
  <1> HIDE DEF ReasonInv, Worker, workerVars, pipes, loop
  <1> QED BY Zenon, <1>1, <1>2, <1>3, <1>4, <1>5, <1>6, <1>7, <1>8, <1>9, <1>10, <1>11, <1>12, <1>13,
      <1>14, <1>15, <1>16, <1>17, <1>18, <1>19
    DEF Next, Child, Native, Sender, OpenStep, Shutdown, WaitProcess, CallerStep, NeverOpened,
        Users

\* Every action preserves OrderInv.
LEMMA OrderStep ==
  ASSUME IInv, OrderInv, ReasonInv, [Next \/ NeverOpened]_vars
  PROVE  OrderInv'
  <1>0. /\ TypeInv /\ GateInv /\ BorrowedBytes /\ WorkerInv /\ LinkInv /\ InStep /\ CloseInv
        /\ pc \in [Actors -> Labels]
    BY Zenon DEF IInv, TypeInv, ClientType
  <1> USE ActorFacts, <1>0 DEF Worker, workerVars, pipes, loop
  <1>1. ASSUME (Serve \/ Execute) /\ UNCHANGED clientVars
        PROVE  OrderInv'
    <2> USE DEF clientVars, OrderInv, Farewell, Last, Over, Leaving
    <2>1. CASE ReadRequest \/ ReadEOF
      <3>1. UNCHANGED <<conn, responses, proc, status, writing, quit>>
        BY Zenon, <2>1 DEF ReadRequest, ReadEOF
      <3> QED BY Zenon, <1>1, <3>1
    <2>2. CASE TakeEOF
      BY Zenon, <1>1, <2>2 DEF TakeEOF, Exit, LinkInv, TypeInv, WorkerType
    <2>3. CASE TakeRequest
      BY Zenon, <1>1, <2>3 DEF TakeRequest, Exit, OutOfSequence, WorkerInv, Idle, TypeInv, WorkerType
    <2>4. CASE WriteResponse
      <3>1. CASE conn = "open"
        <4>1. responses = <<>> /\ reply \in Messages /\ sender = "read"
          BY Zenon, <2>4, <3>1, MessageFacts DEF WriteResponse, WorkerInv, LinkInv, Quiet, Idle
        <4>2. Append(<<>>, reply) # <<>> /\ Head(Append(<<>>, reply)) = reply
          BY Zenon, <4>1, PushOne
        <4>3. responses' # <<>> /\ Head(responses') = reply
          BY Zenon, <2>4, <3>1, <4>1, <4>2 DEF WriteResponse
        <4>4. /\ proc = "running" /\ writing' = "written" /\ (quit <=> Final(reply))
              /\ UNCHANGED <<conn, proc, status, quit>>
          BY Zenon, <2>4, <3>1 DEF WriteResponse, ReasonInv
        <4>5. (Over' <=> quit) /\ (Leaving' <=> quit)
          BY Zenon, <2>4, <3>1, <4>4
        <4>6. Last(Head(responses))'
          BY Zenon, <4>3, <4>4, <4>5 DEF Last
        <4>7. pc[Closer] = "exit" /\ terminal = "nil" => verdict # "nil" \/ crashed
          BY Zenon, <3>1, <4>4, <2>4 DEF WriteResponse
        <4> HIDE DEF Last, Over, Leaving, Farewell
        <4> QED BY Zenon, <1>1, <3>1, <4>1, <4>3, <4>4, <4>6, <4>7
      <3>2. CASE conn # "open"
        BY Zenon, <1>1, <2>4, <3>2 DEF WriteResponse, TypeInv, WorkerType
      <3> QED BY Zenon, <3>1, <3>2
    <2>5. CASE WriteDone
      BY Zenon, <1>1, <2>5 DEF WriteDone, Exit, ReasonInv
    <2>6. CASE Execute
      BY Zenon, <1>1, <2>6 DEF Execute, LinkInv, Quiet, Idle
    <2> HIDE DEF clientVars, OrderInv, Farewell, Last, Over, Leaving
    <2> QED BY Zenon, <1>1, <2>1, <2>2, <2>3, <2>4, <2>5, <2>6 DEF Serve
  <1>2. ASSUME NEW t \in Threads, BeginCall(t) \/ CloseContext(t) \/ CallerStep(t), ~Interrupt(t)
        PROVE  OrderInv'
    <2> USE DEF OrderInv, Farewell, Last, Over, Leaving
    <2>1. CASE BeginCall(t)
      BY Zenon, <2>1 DEF BeginCall, Goto
    <2>2. CASE LeaveQueue(t)
      BY Zenon, <2>2 DEF LeaveQueue, Goto, Return
    <2>3. CASE TakeGate(t)
      BY Zenon, <2>3 DEF TakeGate, Goto
    <2>4. CASE Recheck(t)
      BY Zenon, <2>4 DEF Recheck, Goto, Return, StateError, CloseInv
    <2>5. CASE EncodeFails(t)
      BY Zenon, <2>5 DEF EncodeFails, Goto, Return
    <2>6. CASE Encode(t)
      BY Zenon, <2>6 DEF Encode, Goto, Return, StartExchange, GateInv, BorrowedBytes
    <2>7. CASE Called(t)
      <3>1. PICK error \in Decoded(t) : IF error \in {"io", "protocol"} THEN Stop(error) ELSE NoStop
        BY Zenon, <2>7 DEF Called
      <3>2. /\ Finished(t) /\ EndExchange /\ pc' = [pc EXCEPT ![t] = "idle"]
            /\ UNCHANGED <<pipes, Worker, crashed, exited, closing, closeErr, verdict>>
        BY Zenon, <2>7 DEF Called, Return, Goto
      <3> QED BY Zenon, <3>1, <3>2, Reported DEF EndExchange, NoStop, Stop
    <2>8. CASE CloseContext(t)
      BY Zenon, <2>8 DEF CloseContext, Goto, CloseInv
    <2>9. CASE PollDone(t)
      BY Zenon, <2>9 DEF PollDone, Goto, Return
    <2>10. CASE AwaitDone(t)
      BY Zenon, <2>10 DEF AwaitDone, Goto, Return
    <2>11. CASE ForceClose(t)
      BY Zenon, <2>11 DEF ForceClose, Goto
    <2> HIDE DEF OrderInv, Farewell, Last, Over, Leaving
    <2> QED BY Zenon, <1>2, <2>1, <2>2, <2>3, <2>4, <2>5, <2>6, <2>7, <2>8, <2>9, <2>10,
        <2>11 DEF CallerStep
  <1> USE DEF OrderInv, Farewell, Last, Over, Leaving
  <1>3. ASSUME NEW u \in Users, Interrupt(u)
        PROVE  OrderInv'
    BY Zenon, <1>3 DEF Interrupt, Goto, Stop
  <1>4. ASSUME NEW a \in Threads \cup {Opener}, Cancel(a)
        PROVE  OrderInv'
    BY Zenon, <1>4 DEF Cancel
  <1>5. CASE SendTooLarge
    BY Zenon, <1>5 DEF SendTooLarge
  <1>6. CASE Send
    BY Zenon, <1>6 DEF Send, TypeInv, WorkerType, LinkInv
  <1>7. CASE Receive
    BY Zenon, <1>7, PopOne DEF Receive, TypeInv, WorkerType
  <1>8. CASE Opened
    <2>1. PICK error \in Decoded(Opener) :
            /\ Finished(Opener)
            /\ IF error = "nil" THEN NoStop ELSE Stop(error)
            /\ Goto(Opener, IF error = "nil" THEN "done" ELSE "idle")
      BY Zenon, <1>8 DEF Opened
    <2>2. /\ EndExchange
          /\ UNCHANGED <<pipes, Worker, crashed, exited, closing, closeErr, verdict>>
      BY Zenon, <1>8 DEF Opened
    <2>3. /\ terminal = "nil" /\ ~crashed /\ Over => error # "nil"
          /\ pc[Closer] \notin {"exchange", "drain", "exit"}
      BY Zenon, <2>1, Reported
    <2> QED BY Zenon, <2>1, <2>2, <2>3 DEF EndExchange, NoStop, Stop, Goto
  <1>9. CASE ShutdownGate
    BY Zenon, <1>9 DEF ShutdownGate, Goto, Graceful
  <1>10. CASE ShutdownCheck
    BY Zenon, <1>10 DEF ShutdownCheck, Goto, Graceful, Stop, NoStop, StartExchange, GateInv,
        BorrowedBytes
  <1>11. CASE ShutdownAnswered
    <2> DEFINE error == Evaluate(Closer)
    <2>1. Finished(Closer) /\ error \in Decoded(Closer)
      BY Zenon, <1>11 DEF ShutdownAnswered, Decoded
    <2>2. terminal = "nil" /\ ~crashed /\ error = "nil" => Leaving
      BY Zenon, <2>1, Reported
    <2>3. \A t \in Threads : pc[t] # "encode"
      BY Zenon, <2>1, Reported
    <2> HIDE DEF error
    <2> QED BY Zenon, <1>11, <2>2, <2>3 DEF ShutdownAnswered, error, Goto, EndExchange, Stop, NoStop,
        Graceful
  <1>12. CASE ShutdownExit
    BY Zenon, <1>12 DEF ShutdownExit, Goto, Stop, NoStop, Graceful
  <1>13. CASE Settle
    BY Zenon, <1>13 DEF Settle, Goto, Stop, NoStop
  <1>14. CASE Reap
    BY Zenon, <1>14 DEF Reap, Goto
  <1>15. CASE ReaperGate
    BY Zenon, <1>15 DEF ReaperGate, Goto
  <1>16. CASE ClosePipes
    BY <1>16 DEF ClosePipes, Goto, BorrowedBytes, GateInv, CloseInv, ReasonInv
  <1>17. CASE Die
    BY Zenon, <1>17 DEF Die, Exit, clientVars, ReasonInv
  <1>18. CASE Crash
    BY Zenon, <1>18 DEF Crash, Exit
  <1>19. CASE UNCHANGED vars
    BY <1>19 DEF vars, clientVars
  <1> HIDE DEF OrderInv, Worker, workerVars, pipes, loop, Farewell,
      Last, Over, Leaving
  <1> QED BY Zenon, <1>1, <1>2, <1>3, <1>4, <1>5, <1>6, <1>7, <1>8, <1>9, <1>10, <1>11, <1>12, <1>13,
      <1>14, <1>15, <1>16, <1>17, <1>18, <1>19
    DEF Next, Child, Native, Sender, OpenStep, Shutdown, WaitProcess, CallerStep, NeverOpened,
        Users

\* The client becomes unusable for a transport failure or an exited worker only
\* after the worker has died by itself, and for a cancellation only during an
\* exchange or a shutdown (exchange, waitProcess, gracefulShutdown).
THEOREM FailuresAreReal == Spec => FailureIsReal
  <1> DEFINE Blamed == terminal \in {"io", "exit"} \/ closeErr \in {"io", "exit"} => crashed
             Justified == terminal = "nil" /\ terminal' = "canceled"
                            => sender # "none" \/ closing # "nil"
  <1>1. Init => OrderInv /\ ReasonInv
    BY Zenon, ActorFacts DEF Init, WorkerInit, OrderInv, ReasonInv, Over, Farewell, Users, Actors
  <1>2. IInv /\ OrderInv /\ ReasonInv /\ [Next \/ NeverOpened]_vars
          => (OrderInv /\ ReasonInv)'
    BY Zenon, ReasonStep, OrderStep
  <1>3. Spec => [](OrderInv /\ ReasonInv)
    BY <1>1, <1>2, Inductive, PTL DEF Spec
  <1>4. ReasonInv => Blamed
    BY Zenon DEF ReasonInv
  <1>5. IInv /\ ReasonInv /\ [Next \/ NeverOpened]_vars => [Justified]_vars
    <2> SUFFICES ASSUME IInv, ReasonInv, Next \/ NeverOpened
                 PROVE  Justified
      BY Zenon
    <2> USE ActorFacts
    <2>1. ASSUME NEW t \in Threads, BeginCall(t) \/ CloseContext(t) \/ CallerStep(t) \/ Cancel(t)
          PROVE  Justified
      BY <2>1 DEF BeginCall, CloseContext, CallerStep, Cancel, LeaveQueue, TakeGate, Recheck,
          EncodeFails, Encode, Interrupt, Called, PollDone, AwaitDone, ForceClose, Finished, NoStop,
          ReasonInv
    <2>2. CASE OpenStep
      BY Zenon, <2>2 DEF OpenStep, Interrupt, Opened, Finished, ReasonInv
    <2>3. CASE Shutdown
      <3>1. closing # "nil"
        BY <2>3 DEF Shutdown, ShutdownGate, ShutdownCheck, Interrupt, ShutdownAnswered, Finished,
            ShutdownExit, Settle, IInv, CloseInv
      <3> QED BY Zenon, <3>1
    <2> QED BY Zenon, <2>1, <2>2, <2>3 DEF Next, NeverOpened, vars, clientVars, Child, Native, Sender, Send,
        SendTooLarge, Receive, WaitProcess, Reap, ReaperGate, ClosePipes, Die, Crash, Cancel
  <1> QED BY <1>3, <1>4, <1>5, Inductive, PTL DEF Spec, FailureIsReal
=============================================================================
