------------------------------- MODULE Worker -------------------------------
(***************************************************************************)
(* The worker process of package isolated (worker.go): a reader goroutine,  *)
(* the serve loop, one native call at a time and a writer goroutine, joined *)
(* to the parent by a request pipe and a response pipe.                     *)
(*                                                                         *)
(* A message is its identifier and operation, a response also how the       *)
(* operation ended; framing and payloads are left out.                      *)
(***************************************************************************)
EXTENDS Naturals, Sequences

VARIABLES conn,        \* the parent's ends of both pipes: "open" or "closed"
          requests,    \* request pipe
          responses,   \* response pipe
          proc,        \* "running", "dead" or "reaped"
          status,      \* exit status of a dead process: "ok" or "error"
          incoming,    \* what the reader goroutine offers to serve
          expected,    \* the next request identifier
          session,     \* the SDK session is open (client is not nil)
          pending,     \* the request being executed
          next,        \* the request deferred until the writer is done
          reply,       \* the response being written
          writing,     \* "no", "write", "written" or "failed"
          quit,        \* serve returns after this response
          astray       \* serve has refused a request as out of sequence

pipes == <<requests, responses>>
loop == <<incoming, expected, session, pending, next, reply, writing, quit>>
workerVars == <<conn, pipes, proc, status, loop, astray>>

Operations == {"Open", "Close", "call"}
Errors == {"nil", "native", "protocol"}
Message(id, op, error) == [id |-> id, op |-> op, error |-> error]
Messages == [id : Nat \ {0}, op : Operations, error : Errors]
Nil == Message(0, "none", "nil")
EOF == Message(0, "none", "EOF")

WorkerInit ==
  /\ conn = "open" /\ requests = <<>> /\ responses = <<>>
  /\ proc = "running" /\ status = "ok"
  /\ incoming = Nil /\ expected = 1 /\ session = FALSE
  /\ pending = Nil /\ next = Nil /\ reply = Nil /\ writing = "no" /\ quit = FALSE
  /\ astray = FALSE

\* The process is gone: whatever its goroutines held goes with it.
Exit(s) ==
  /\ proc' = "dead" /\ status' = s
  /\ incoming' = Nil /\ expected' = 0 /\ session' = FALSE
  /\ pending' = Nil /\ next' = Nil /\ reply' = Nil /\ writing' = "no" /\ quit' = FALSE
  /\ UNCHANGED <<conn, pipes>>

\* The reader goroutine; it holds one message until serve takes it.
ReadRequest ==
  /\ proc = "running" /\ incoming = Nil /\ requests # <<>>
  /\ incoming' = Head(requests)
  /\ requests' = Tail(requests)
  /\ UNCHANGED <<conn, responses, proc, status, expected, session, pending, next, reply,
                 writing, quit, astray>>

\* The parent closed its end, perhaps in the middle of a frame.
ReadEOF ==
  /\ proc = "running" /\ incoming = Nil /\ requests = <<>> /\ conn = "closed"
  /\ incoming' = EOF
  /\ UNCHANGED <<conn, pipes, proc, status, expected, session, pending, next, reply, writing,
                 quit, astray>>

\* serve leaves without a native Close, so a hung SDK call keeps no orphan alive.
TakeEOF ==
  /\ proc = "running" /\ incoming = EOF
  /\ Exit("error")
  /\ UNCHANGED astray

\* serve's sequence check.
OutOfSequence == pending # Nil \/ next # Nil \/ incoming.id # expected

\* The parent may answer a response it has read before the writer goroutine has
\* reported completion; the request then waits in next.
TakeRequest ==
  /\ proc = "running" /\ incoming \notin {Nil, EOF}
  /\ IF OutOfSequence
     THEN astray' = TRUE /\ Exit("error")
     ELSE /\ expected' = expected + 1
          /\ incoming' = Nil
          /\ IF writing # "no" THEN next' = incoming /\ UNCHANGED pending
                               ELSE pending' = incoming /\ UNCHANGED next
          /\ UNCHANGED <<conn, pipes, proc, status, session, reply, writing, quit, astray>>

\* execute: how an operation may end, and whether serve quits after it.  Open
\* needs a worker without a session and the others one with it; a payload that
\* does not decode is a protocol error too.
Outcomes(op) ==
  IF (op = "Open") = session THEN {"protocol"} ELSE {"nil", "native", "protocol"}

Quits(op, error) == op = "Close" \/ error = "protocol" \/ (op = "Open" /\ error = "native")

\* The native call returns and serve hands the response to a writer goroutine.
\* A response too large for a frame is replaced by a small error.
Execute ==
  /\ proc = "running" /\ pending # Nil
  /\ \E error \in Outcomes(pending.op) :
       /\ reply' = Message(pending.id, pending.op, error)
       /\ quit' = Quits(pending.op, error)
       /\ session' = IF pending.op = "Open" THEN session \/ error = "nil" ELSE session
  /\ pending' = Nil
  /\ writing' = "write"
  /\ UNCHANGED <<conn, pipes, proc, status, incoming, expected, next, astray>>

WriteResponse ==
  /\ proc = "running" /\ writing = "write"
  /\ IF conn = "open"
     THEN writing' = "written" /\ responses' = Append(responses, reply)
     ELSE writing' = "failed" /\ UNCHANGED responses
  /\ reply' = Nil
  /\ UNCHANGED <<conn, requests, proc, status, incoming, expected, session, pending, next, quit,
                 astray>>

\* serve learns that the writer goroutine is done.
WriteDone ==
  /\ proc = "running" /\ writing \in {"written", "failed"}
  /\ \/ writing = "failed" /\ Exit("error")
     \/ writing = "written" /\ quit /\ Exit("ok")
     \/ /\ writing = "written" /\ ~quit
        /\ writing' = "no" /\ pending' = next /\ next' = Nil
        /\ UNCHANGED <<conn, pipes, proc, status, incoming, expected, session, reply, quit>>
  /\ UNCHANGED astray

\* Everything the worker does by itself except the native calls, which may hang.
Serve ==
  \/ ReadRequest \/ ReadEOF \/ TakeEOF \/ TakeRequest
  \/ WriteResponse \/ WriteDone

=============================================================================
