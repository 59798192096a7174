------------------------------- MODULE Codec -------------------------------
(***************************************************************************)
(* The wire format of package isolated: metadata fields, raw blocks, error *)
(* trees and frames, as operators.                                         *)
(*                                                                         *)
(* Metadata is a sequence of <<width, value>> tokens with the widths of    *)
(* the code.  A reader that asks for another width than the writer used    *)
(* would misread the bytes; here it fails.  Numbers that the protocol does *)
(* not compute with, text and data are sequences of opaque symbols, of     *)
(* which only the length matters; <<>> is also the zero number.            *)
(*                                                                         *)
(* What is encoded is described twice, by an Encode and a Decode schema    *)
(* for every Go type, each in the order in which its own function visits   *)
(* the fields.                                                             *)
(***************************************************************************)
EXTENDS Naturals, Sequences, TLC

CONSTANTS MaxMetadata,   \* maxMetadataSize
          MaxBlocks,     \* maxBlocks
          MaxDepth,      \* nesting of errors, 32 in the code
          Sentinels      \* errorSentinels

ASSUME CodecAssumption == {MaxMetadata, MaxBlocks, MaxDepth} \subseteq Nat

\* A value that may be nil: byte slices, other slices, pointers, times.
Nil == [set |-> FALSE, d |-> <<>>]
Some(d) == [set |-> TRUE, d |-> d]

\* The number of bytes of a token sequence, added up by halves.
RECURSIVE Size(_)
Size(data) ==
  LET half == Len(data) \div 2
  IN  CASE data = <<>> -> 0
        [] Len(data) = 1 -> data[1][1]
        [] OTHER -> Size(SubSeq(data, 1, half)) + Size(SubSeq(data, half + 1, Len(data)))

-----------------------------------------------------------------------------
\* metadataWriter and payloadEncoder: an error, once set, stays, and what
\* follows it changes nothing.

Writer(limit) == [data |-> <<>>, size |-> 0, blocks |-> <<>>, err |-> "nil", limit |-> limit]

\* reserve, then append.
Put(e, width, value) ==
  IF e.err # "nil" THEN e
  ELSE IF width > MaxMetadata - e.size THEN [e EXCEPT !.err = "too large"]
  ELSE [e EXCEPT !.data = Append(@, <<width, value>>), !.size = @ + width]

\* raw and text of metadataWriter: the length and the bytes in line.
PutRaw(e, size, value) ==
  IF size > MaxMetadata THEN [e EXCEPT !.err = "too large"]
  ELSE IF e.err = "nil" /\ size + 4 > MaxMetadata - e.size THEN [e EXCEPT !.err = "too large"]
  ELSE IF size = 0 THEN Put(e, 4, 0)
  ELSE Put(Put(e, 4, size), size, value)

PutLength(e, n, present) ==
  IF ~present THEN Put(e, 4, 0)
  ELSE IF n > MaxMetadata THEN [e EXCEPT !.err = "too large"]
  ELSE Put(e, 4, n + 1)

\* add, followed by the one-based reference to the new block.
AddBlock(e, block) ==
  IF e.err # "nil" THEN e
  ELSE IF Len(e.blocks) >= MaxBlocks THEN [e EXCEPT !.err = "too large"]
  ELSE [e EXCEPT !.blocks = Append(@, block)]

PutReference(e) == Put(e, 4, Len(e.blocks))

PutBytes(e, bytes) ==
  IF ~bytes.set THEN Put(e, 4, 0)
  ELSE IF e.limit > 0 /\ Len(bytes.d) > e.limit THEN [e EXCEPT !.err = "invalid input"]
  ELSE PutReference(AddBlock(e, bytes.d))

PutText(e, text) ==
  IF text = <<>> THEN Put(e, 4, 0) ELSE PutReference(AddBlock(e, text))

-----------------------------------------------------------------------------
\* metadataReader and payloadDecoder.  A read returns the reader and a value.

Reader(data, blocks) == [data |-> data, blocks |-> blocks, err |-> "nil"]

Read(d, v) == [d |-> d, v |-> v]

Fail(d) == [d EXCEPT !.err = "protocol"]

Take(d, width, zero) ==
  IF d.err # "nil" THEN Read(d, zero)
  ELSE IF d.data = <<>> \/ Head(d.data)[1] # width THEN Read(Fail(d), zero)
  ELSE Read([d EXCEPT !.data = Tail(@)], Head(d.data)[2])

TakeRaw(d) ==
  LET size == Take(d, 4, 0)
  IN  IF size.v > Size(size.d.data) THEN Read(Fail(size.d), <<>>)
      ELSE IF size.v = 0 THEN Read(size.d, <<>>)
      ELSE Take(size.d, size.v, <<>>)

\* Mutant: a collection that fills the rest of the metadata is refused.
TakeLengthStrict(d, min) ==
  LET n == Take(d, 4, 0)
  IN  IF n.d.err # "nil" \/ n.v = 0 THEN Read(n.d, Nil)
      ELSE IF (n.v - 1) * min >= Size(n.d.data) THEN Read(Fail(n.d), Nil)
      ELSE Read(n.d, Some(n.v - 1))

\* The number of items of a collection, or nil.
TakeLength(d, min) ==
  LET n == Take(d, 4, 0)
  IN  IF n.d.err # "nil" \/ n.v = 0 THEN Read(n.d, Nil)
      ELSE IF (n.v - 1) * min > Size(n.d.data) THEN Read(Fail(n.d), Nil)
      ELSE Read(n.d, Some(n.v - 1))

TakeBytes(d) ==
  LET ref == Take(d, 4, 0)
  IN  IF ref.v = 0 THEN Read(ref.d, Nil)
      ELSE IF ref.v > Len(ref.d.blocks) THEN Read(Fail(ref.d), Nil)
      ELSE Read(ref.d, Some(ref.d.blocks[ref.v]))

TakeText(d) == LET b == TakeBytes(d) IN Read(b.d, b.v.d)

\* finish: everything was read.
Finish(d) == IF d.err = "nil" /\ d.data # <<>> THEN "protocol" ELSE d.err

-----------------------------------------------------------------------------
\* Types.  A structure is a sequence of <<field, type>> pairs.

Number == [k |-> "int"]     \* uint64, int64 and integer
Count == [k |-> "count"]    \* a number that the protocol computes with
Bool == [k |-> "bool"]
Bytes == [k |-> "bytes"]
Text == [k |-> "text"]
Raw == [k |-> "raw"]        \* metadataWriter.text
Struct(fields) == [k |-> "struct", fields |-> fields]
Opt(type) == [k |-> "opt", of |-> type]
List(type, min) == [k |-> "list", of |-> type, min |-> min]
Source(fields) == [k |-> "source", fields |-> fields]
Time(fields) == [k |-> "time", fields |-> fields]

Fields(type, names) == [i \in DOMAIN names |-> <<names[i], type>>]

RECURSIVE Encode(_, _, _), EncodeFields(_, _, _), EncodeItems(_, _, _)
Encode(e, t, v) ==
  CASE t.k \in {"int", "count"} -> Put(e, 8, v)
    [] t.k = "bool" -> Put(e, 1, v)
    [] t.k = "bytes" -> PutBytes(e, v)
    [] t.k = "text" -> PutText(e, v)
    [] t.k = "raw" -> PutRaw(e, Len(v), v)
    [] t.k \in {"struct", "source"} -> EncodeFields(e, t.fields, v)
    [] t.k = "opt" -> LET p == Put(e, 1, v.set) IN IF v.set THEN Encode(p, t.of, v.d) ELSE p
    [] t.k = "time" -> LET p == Put(e, 1, v.set) IN IF v.set THEN EncodeFields(p, t.fields, v.d) ELSE p
    [] t.k = "list" -> EncodeItems(PutLength(e, Len(v.d), v.set), t.of, v.d)

EncodeFields(e, fields, v) ==
  IF fields = <<>> \/ e.err # "nil" THEN e
  ELSE EncodeFields(Encode(e, Head(fields)[2], v[Head(fields)[1]]), Tail(fields), v)

EncodeItems(e, type, items) ==
  IF items = <<>> \/ e.err # "nil" THEN e
  ELSE EncodeItems(Encode(e, type, Head(items)), type, Tail(items))

\* Source.source: an absent source, a file or bytes, and the encoding.
MakeSource(s) ==
  LET file == s["Set"] /\ s["File"]
  IN  [s EXCEPT !["File"] = file,
                !["Path"] = IF file THEN @ ELSE <<>>,
                !["Data"] = IF s["Set"] /\ ~file THEN @ ELSE Nil]

\* The location of a decoded time, whose nanoseconds are a part of a second.
Nanoseconds == 0..999999999
InLocation(t) == IF t["utc"] THEN [t EXCEPT !["name"] = <<"UTC">>, !["offset"] = <<>>] ELSE t

\* What the read x adds to what was read before.
Present(x) == Read(x.d, Some(x.v))
AddField(v, name, x) == Read(x.d, v @@ (name :> x.v))
AddItem(v, x) == Read(x.d, Append(v, x.v))

\* What an unfinished read returns is not used: the error is.
SourceOf(x) == IF x.d.err = "nil" THEN Read(x.d, MakeSource(x.v)) ELSE x
TimeOf(x) ==
  IF x.d.err # "nil" THEN x
  ELSE IF x.v["nanos"] \notin Nanoseconds THEN Read(Fail(x.d), Nil)
  ELSE Read(x.d, Some(InLocation(x.v)))

RECURSIVE Decode(_, _), DecodeFields(_, _), DecodeItems(_, _, _)
Decode(d, t) ==
  CASE t.k = "int" -> Take(d, 8, <<>>)
    [] t.k = "count" -> Take(d, 8, 0)
    [] t.k = "bool" -> Take(d, 1, FALSE)
    [] t.k = "bytes" -> TakeBytes(d)
    [] t.k = "text" -> TakeText(d)
    [] t.k = "raw" -> TakeRaw(d)
    [] t.k = "struct" -> DecodeFields(Read(d, <<>>), t.fields)
    [] t.k = "source" -> SourceOf(DecodeFields(Read(d, <<>>), t.fields))
    [] t.k = "opt" -> LET p == Take(d, 1, FALSE) IN
         IF p.v THEN Present(Decode(p.d, t.of)) ELSE Read(p.d, Nil)
    [] t.k = "time" -> LET p == Take(d, 1, FALSE) IN
         IF p.v THEN TimeOf(DecodeFields(Read(p.d, <<>>), t.fields)) ELSE Read(p.d, Nil)
    [] t.k = "list" -> LET n == TakeLength(d, t.min) IN
         IF n.v.set THEN Present(DecodeItems(Read(n.d, <<>>), t.of, n.v.d)) ELSE Read(n.d, Nil)

DecodeFields(a, fields) ==
  IF fields = <<>> \/ a.d.err # "nil" THEN a
  ELSE DecodeFields(AddField(a.v, Head(fields)[1], Decode(a.d, Head(fields)[2])), Tail(fields))

DecodeItems(a, type, n) ==
  IF n = 0 \/ a.d.err # "nil" THEN a
  ELSE DecodeItems(AddItem(a.v, Decode(a.d, type)), type, n - 1)
=============================================================================
