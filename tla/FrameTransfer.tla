--------------------------- MODULE FrameTransfer ---------------------------
(***************************************************************************)
(* One message of package isolated on its way through a pipe: it is        *)
(* encoded, framed, written, perhaps cut short by the death of the sender, *)
(* read, checked and decoded.  Another frame follows it in the pipe.       *)
(***************************************************************************)
EXTENDS Schemas, SequencesExt

CONSTANT Messages   \* requests, responses and Open configurations to transfer

VARIABLES msg,      \* what is sent
          stage,    \* how far it is
          frame,    \* the message struct handed to writeMessage
          pipe,     \* <<width, value>> items
          got       \* what the receiver makes of it

vars == <<msg, stage, frame, pipe, got>>

-----------------------------------------------------------------------------
\* Errors: a node has a text, the sentinels it is, perhaps a concrete type
\* (kind 1 to 3) and its fields, and the errors it wraps.

Node(text, is, kind, fields, causes) ==
  [text |-> text, is |-> is, kind |-> kind, fields |-> fields, causes |-> causes]

Sentinel(s) == Some(Node(<<s>>, {s}, 0, <<>>, Nil))

TooLarge == Sentinel("errMetadataTooLarge")

\* What errors.Is and errors.As find in an error.
RECURSIVE Is(_), Concrete(_)
Is(err) ==
  IF ~err.set THEN {} ELSE err.d.is \cup UNION {Is(err.d.causes.d[i]) : i \in DOMAIN err.d.causes.d}
Concrete(err) ==
  IF ~err.set THEN {}
  ELSE (IF err.d.kind = 0 THEN {} ELSE {<<err.d.kind, err.d.fields>>})
       \cup UNION {Concrete(err.d.causes.d[i]) : i \in DOMAIN err.d.causes.d}

\* The concrete type of an error and its fields.
EncodeKind(e, err) ==
  LET kind == Put(e, 4, err.d.kind)
  IN  IF err.d.kind = 0 THEN kind ELSE Encode(kind, EncodeConcrete[err.d.kind], err.d.fields)

\* After the causes: the sentinels it is and its text.
EncodeText(e, err) == IF e.err # "nil" THEN e ELSE PutText(Put(e, 8, Is(err)), err.d.text)

RECURSIVE EncodeError(_, _, _), EncodeCauses(_, _, _)
EncodeError(e, err, depth) ==
  LET present == Put(e, 1, err.set)
      causes == err.d.causes
  IN  IF ~err.set \/ present.err # "nil" THEN present
      ELSE IF depth >= MaxDepth THEN [present EXCEPT !.err = "too large"]
      ELSE EncodeText(EncodeCauses(PutLength(EncodeKind(present, err), Len(causes.d), causes.set),
                                   causes.d, depth + 1), err)

EncodeCauses(e, causes, depth) ==
  IF causes = <<>> \/ e.err # "nil" THEN e
  ELSE EncodeCauses(EncodeError(e, Head(causes), depth), Tail(causes), depth)

\* The concrete error, as the first cause of the decoded one.
DecodeKind(kind) ==
  LET concrete == Decode(kind.d, DecodeConcrete[kind.v])
  IN  IF kind.v \notin 0..3 THEN Read(Fail(kind.d), <<>>)
      ELSE IF kind.v = 0 THEN Read(kind.d, <<>>)
      ELSE Read(concrete.d, <<Some(Node(<<>>, {}, kind.v, concrete.v, Nil))>>)

\* The sentinels are further causes.
DecodeText(causes) ==
  LET bits == Take(causes.d, 8, {})
      text == TakeText(bits.d)
      sentinels == SetToSeq(bits.v)
  IN  IF causes.d.err # "nil" THEN Read(causes.d, Nil)
      ELSE IF ~(bits.v \subseteq Sentinels) THEN Read(Fail(bits.d), Nil)
      ELSE IF text.d.err # "nil" THEN Read(text.d, Nil)
      ELSE Read(text.d, Some(Node(text.v, {}, 0, <<>>,
             Some(causes.v \o [i \in DOMAIN sentinels |-> Sentinel(sentinels[i])]))))

AddCause(v, x) == Read(x.d, IF x.v.set THEN Append(v, x.v) ELSE v)

RECURSIVE DecodeError(_, _), DecodeCauses(_, _, _)
DecodeError(d, depth) ==
  LET present == Take(d, 1, FALSE)
  IN  IF ~present.v \/ present.d.err # "nil" THEN Read(present.d, Nil)
      ELSE IF depth >= MaxDepth THEN Read(Fail(present.d), Nil)
      ELSE LET typed == DecodeKind(Take(present.d, 4, 0))
               length == TakeLength(typed.d, 1)
           IN  DecodeText(DecodeCauses(Read(length.d, typed.v),
                                       IF length.v.set THEN length.v.d ELSE 0, depth + 1))

DecodeCauses(a, n, depth) ==
  IF n = 0 \/ a.d.err # "nil" THEN a
  ELSE DecodeCauses(AddCause(a.v, DecodeError(a.d, depth)), n - 1, depth)

-----------------------------------------------------------------------------
\* Frames.

Frame(op, data, blocks, error, observations) ==
  [op |-> op, data |-> data, blocks |-> blocks, error |-> error, observations |-> observations]

NonEmpty(items) == SelectSeq(items, LAMBDA item : item[1] > 0)

\* The header of a frame, given the encoded error and observations.
Header(m, e) ==
  LET fields == PutRaw(PutRaw(PutRaw(Put(Writer(0), 8, <<"ID">>), 1, <<m.op>>), Size(m.data), m.data),
                       Size(e.data), e.data)
  IN  EncodeItems(Put(fields, 4, Len(e.blocks)), Number, [i \in DOMAIN e.blocks |-> Len(e.blocks[i])])

\* The error and the observations follow the blocks of the payload.
Details(m) ==
  IF Len(m.blocks) > MaxBlocks THEN [Writer(0) EXCEPT !.err = "too large"]
  ELSE Encode(EncodeError([Writer(0) EXCEPT !.blocks = m.blocks], m.error, 0),
              EncodeObservations, m.observations)

\* writeMessage: an error, or everything it writes.
WriteMessage(m) ==
  LET e == Details(m)
      header == Header(m, e)
      body == [i \in DOMAIN e.blocks |-> <<Len(e.blocks[i]), e.blocks[i]>>]
      prefix == <<<<8, 4 + header.size + Size(body)>>, <<4, header.size>>, <<header.size, header.data>>>>
  IN  IF e.err # "nil" THEN [err |-> e.err, items |-> <<>>]
      ELSE IF header.err # "nil" THEN [err |-> header.err, items |-> <<>>]
      ELSE [err |-> "nil", items |-> prefix \o NonEmpty(body)]

\* Mutant: a block that is cut short is returned as far as it arrived.
ReadBlockPartly(stream, n) ==
  IF n = 0 \/ stream.data = <<>> THEN Read(stream, <<>>) ELSE Read([stream EXCEPT !.data = Tail(@)], <<>>)

\* readBlock: the whole block or an error.
ReadBlock(stream, n) == IF n = 0 THEN Read(stream, <<>>) ELSE Take(stream, n, <<>>)

RECURSIVE ReadBlocks(_, _)
ReadBlocks(a, lengths) ==
  IF lengths = <<>> \/ a.d.err # "nil" THEN a
  ELSE ReadBlocks(AddItem(a.v, ReadBlock(a.d, Head(lengths))), Tail(lengths))

Malformed(err) == [err |-> err, m |-> Frame("", <<>>, <<>>, Nil, Nil), rest |-> <<>>]

\* The end of readMessage: the error and the observations refer to the blocks.
ReadDetails(header, blocks) ==
  LET error == DecodeError(Reader(header.tail, blocks.v), 0)
      observations == Decode(error.d, DecodeObservations)
  IN  IF blocks.d.err # "nil" \/ Finish(observations.d) # "nil" THEN Malformed("protocol")
      ELSE [err |-> "nil", rest |-> blocks.d.data,
            m |-> Frame(header.op, header.data, blocks.v, error.v, observations.v)]

\* The middle: as many lengths as blocks are announced, which fill the frame.
ReadBody(stream, header, remaining) ==
  LET lengths == [i \in DOMAIN header.lengths |-> header.lengths[i][2]]
  IN  IF \/ header.err # "nil" \/ header.count > MaxBlocks
         \/ Size(header.lengths) # 8 * header.count THEN Malformed("protocol")
      ELSE IF Size([i \in DOMAIN lengths |-> <<lengths[i]>>]) # remaining THEN Malformed("protocol")
      ELSE ReadDetails(header, ReadBlocks(Read(stream, <<>>), lengths))

ReadHeader(metadata) ==
  LET id == Take(Reader(metadata, <<>>), 8, <<>>)
      op == TakeRaw(id.d)
      data == TakeRaw(op.d)
      tail == TakeRaw(data.d)
      count == Take(tail.d, 4, 0)
  IN  [op |-> op.v[1], data |-> data.v, tail |-> tail.v,
       count |-> count.v, lengths |-> count.d.data, err |-> count.d.err]

\* readMessage: a message and the rest of the stream, the end of the stream at
\* the boundary of a frame, or a protocol error.
ReadMessage(items) ==
  LET size == Take(Reader(items, <<>>), 8, 0)
      headerSize == Take(size.d, 4, 0)
      metadata == Take(headerSize.d, headerSize.v, <<>>)
  IN  IF items = <<>> THEN Malformed("EOF")
      ELSE IF size.d.err # "nil" \/ size.v < 4 THEN Malformed("protocol")
      ELSE IF \/ headerSize.d.err # "nil" \/ headerSize.v = 0
              \/ headerSize.v > MaxMetadata \/ headerSize.v > size.v - 4 THEN Malformed("protocol")
      ELSE IF metadata.d.err # "nil" THEN Malformed("protocol")
      ELSE ReadBody(metadata.d, ReadHeader(metadata.v), size.v - 4 - headerSize.v)

-----------------------------------------------------------------------------
\* The steps.

NoMessage == [err |-> "nil", value |-> Nil, error |-> Nil, observations |-> Nil, rest |-> <<>>]

\* The beginning of the next frame.
NextFrame == <<8, 0>>

Init ==
  /\ msg \in Messages
  /\ stage = "encode"
  /\ frame = Frame("", <<>>, <<>>, Nil, Nil)
  /\ pipe = <<>>
  /\ got = NoMessage

\* The limit of the input: that of the client, or the one in the configuration.
InputLimit(m) == IF m.kind = "open" THEN m.value["MaxInputSize"] ELSE m.limit

RequestSchema(m) == IF m.kind = "open" THEN EncodeConfig ELSE EncodeRequest[m.op]

\* encodeRequest or encodeConfig; their errors go to the caller.
EncodeCall ==
  /\ stage = "encode" /\ msg.kind # "response"
  /\ LET e == Encode(Writer(InputLimit(msg)), RequestSchema(msg), msg.value)
     IN  IF e.err = "nil"
         THEN /\ frame' = Frame(msg.op, e.data, e.blocks, Nil, Nil)
              /\ stage' = "write"
              /\ UNCHANGED got
         ELSE /\ stage' = "refused"
              /\ got' = [got EXCEPT !.err = e.err]
              /\ UNCHANGED frame
  /\ UNCHANGED <<msg, pipe>>

\* dispatch and execute: the result of the native call, or its error, or the
\* error that the result cannot be encoded.
EncodeResponse ==
  /\ stage = "encode" /\ msg.kind = "response"
  /\ LET e == Encode(Writer(0), EncodeResult[msg.op], msg.value)
     IN  frame' = IF msg.error.set THEN Frame(msg.op, <<>>, <<>>, msg.error, msg.observations)
                  ELSE IF e.err # "nil" THEN Frame(msg.op, <<>>, <<>>, TooLarge, msg.observations)
                  ELSE Frame(msg.op, e.data, e.blocks, Nil, msg.observations)
  /\ stage' = "write"
  /\ UNCHANGED <<msg, pipe, got>>

\* A request that does not fit a frame is returned to the caller.
WriteCall ==
  /\ stage = "write" /\ msg.kind # "response"
  /\ LET w == WriteMessage(frame)
     IN  /\ pipe' = IF w.err = "nil" THEN w.items \o <<NextFrame>> ELSE w.items
         /\ stage' = IF w.err = "nil" THEN "sent" ELSE "refused"
         /\ got' = [got EXCEPT !.err = w.err]
  /\ UNCHANGED <<msg, frame>>

\* Mutant: the replacement keeps the observations.
SmallerResponse(m) == Frame(m.op, <<>>, <<>>, TooLarge, m.observations)

\* writeResponse: what replaces a response that does not fit a frame.
SmallResponse(m) == Frame(m.op, <<>>, <<>>, TooLarge, Nil)

WriteResponse ==
  /\ stage = "write" /\ msg.kind = "response"
  /\ LET w == WriteMessage(frame)
         sent == IF w.err = "too large" THEN SmallResponse(frame) ELSE frame
         again == WriteMessage(sent)
     IN  /\ frame' = sent
         /\ pipe' = IF again.err = "nil" THEN again.items \o <<NextFrame>> ELSE again.items
         /\ stage' = IF again.err = "nil" THEN "sent" ELSE "refused"
  /\ UNCHANGED <<msg, got>>

\* The sender dies after some items and perhaps a part of the next.
Truncate ==
  /\ stage = "sent"
  /\ \E i \in 1..(Len(pipe) - 1), part \in BOOLEAN :
       pipe' = SubSeq(pipe, 1, i - 1) \o (IF part THEN <<<<pipe[i][1] - 1, <<>>>>>> ELSE <<>>)
  /\ stage' = "cut"
  /\ UNCHANGED <<msg, frame, got>>

Received(r) ==
  [NoMessage EXCEPT !.err = r.err, !.rest = r.rest, !.value = r.m,
                    !.error = r.m.error, !.observations = r.m.observations]

Receive ==
  /\ stage \in {"sent", "cut"}
  /\ got' = Received(ReadMessage(pipe))
  /\ stage' = IF stage = "sent" THEN "received" ELSE "cut off"
  /\ UNCHANGED <<msg, frame, pipe>>

ResultSchema(m) ==
  CASE m.kind = "open" -> DecodeConfig
    [] m.kind = "request" -> Dispatch[m.op]
    [] m.kind = "response" -> DecodeResult[m.op]

\* dispatch, decodeConfig or decodeResult.  A response with an error has no
\* result; what has no fields must have no payload at all.
DecodePayload ==
  /\ stage = "received" /\ got.err = "nil"
  /\ LET m == got.value
         x == Decode(Reader(m.data, m.blocks), ResultSchema(msg))
         stray == ResultSchema(msg) = DecodeEmpty /\ m.blocks # <<>>
     IN  got' = IF m.error.set THEN [got EXCEPT !.value = Nil]
                ELSE [got EXCEPT !.value = x.v, !.err = IF stray THEN "protocol" ELSE Finish(x.d)]
  /\ stage' = "decoded"
  /\ UNCHANGED <<msg, frame, pipe>>

Done ==
  /\ stage \in {"refused", "decoded", "cut off"} \/ (stage = "received" /\ got.err # "nil")
  /\ UNCHANGED vars

Next ==
  \/ EncodeCall \/ EncodeResponse \/ WriteCall \/ WriteResponse
  \/ Truncate \/ Receive \/ DecodePayload \/ Done

Spec == Init /\ [][Next]_vars

-----------------------------------------------------------------------------
\* What is sent arrives.  The worker can always answer: a response that does
\* not fit is replaced by one that does.  The reader's bounds (collection sizes,
\* depth, block count, header size) are not narrower than the writer's: a frame
\* that arrives whole is accepted and leaves the reader at the next frame.  The
\* receiver has exactly the value that was sent: every field is read where it
\* was written, and nil and empty are told apart.  An error that crosses the
\* process boundary has the same text, and errors.Is and errors.As find in it
\* what they found in the original.
Delivered ==
  /\ msg.kind = "response" => stage # "refused"
  /\ stage \in {"received", "decoded"} => got.err = "nil" /\ got.rest = <<NextFrame>>
  /\ stage = "decoded" =>
       /\ ~frame.error.set => got.value = msg.value
       /\ got.observations = frame.observations
       /\ got.error.set = frame.error.set
       /\ Is(got.error) = Is(frame.error)
       /\ Concrete(got.error) = Concrete(frame.error)
       /\ frame.error.set => got.error.d.text = frame.error.d.text

\* A frame cut short is never taken for a message, and only a cut between two
\* frames for a regular end of the stream.
TruncationDetected ==
  stage = "cut off" => got.err = (IF pipe = <<>> THEN "EOF" ELSE "protocol")
=============================================================================
