-------------------------- MODULE MCFrameTransfer --------------------------
(***************************************************************************)
(* Messages for FrameTransfer.  AllMessages exercises every schema: values *)
(* that differ in one field from an all-zero or an all-set value, each     *)
(* field with symbols of its own.  LargeMessages grow until they pass each *)
(* bound.                                                                  *)
(***************************************************************************)
EXTENDS FrameTransfer

\* The zero value of a type, and one in which everything is set.
RECURSIVE Zero(_), Full(_, _)
Zero(t) ==
  CASE t.k \in {"int", "text", "raw"} -> <<>>
    [] t.k = "count" -> 0
    [] t.k = "bool" -> FALSE
    [] t.k \in {"bytes", "opt", "time", "list"} -> Nil
    [] t.k \in {"struct", "source"} ->
         [f \in {t.fields[i][1] : i \in DOMAIN t.fields} |->
            Zero(t.fields[CHOOSE i \in DOMAIN t.fields : t.fields[i][1] = f][2])]
Full(t, name) ==
  CASE t.k \in {"int", "text", "raw"} -> <<name>>
    [] t.k = "count" -> 1
    [] t.k = "bool" -> TRUE
    [] t.k = "bytes" -> Some(<<name>>)
    [] t.k = "opt" -> Some(Full(t.of, name))
    [] t.k = "time" -> Some([seconds |-> <<name>>, nanos |-> 999999999, name |-> <<"UTC">>,
                             offset |-> <<>>, utc |-> TRUE])
    [] t.k = "list" -> Some(<<Full(t.of, name), Zero(t.of)>>)
    [] t.k = "source" -> [Zero(t) EXCEPT !["Data"] = Some(<<name>>), !["Encoding"] = <<name>>, !["Set"] = TRUE]
    [] t.k = "struct" ->
         [f \in {t.fields[i][1] : i \in DOMAIN t.fields} |->
            Full(t.fields[CHOOSE i \in DOMAIN t.fields : t.fields[i][1] = f][2], f)]

\* Values of a type that differ from Zero or Full in one place.
RECURSIVE Samples(_, _)
Samples(t, name) ==
  {Zero(t), Full(t, name)} \cup
  CASE t.k = "bytes" -> {Some(<<>>)}
    [] t.k = "time" -> {Some([seconds |-> <<>>, nanos |-> 0, name |-> <<"zone">>,
                              offset |-> <<"offset">>, utc |-> FALSE])}
    [] t.k = "opt" -> {Some(x) : x \in Samples(t.of, name)}
    [] t.k = "list" -> {Some(<<>>)} \cup {Some(<<x>>) : x \in Samples(t.of, name)}
    [] t.k = "source" ->
         {[Zero(t) EXCEPT !["Data"] = d, !["Set"] = TRUE] : d \in {Nil, Some(<<>>), Some(<<name>>)}}
         \cup {[Zero(t) EXCEPT !["Path"] = p, !["File"] = TRUE, !["Set"] = TRUE] : p \in {<<>>, <<name>>}}
         \cup {[Zero(t) EXCEPT !["Encoding"] = <<name>>]}
    [] t.k = "struct" ->
         UNION {{[v EXCEPT ![t.fields[i][1]] = x] : x \in Samples(t.fields[i][2], t.fields[i][1])} :
                  v \in {Zero(t), Full(t, name)}, i \in DOMAIN t.fields}
    [] OTHER -> {}

Message(kind, op, value, error, observations, limit) ==
  [kind |-> kind, op |-> op, value |-> value, error |-> error, observations |-> observations, limit |-> limit]

\* Errors: plain, of each concrete type, joined, and a chain of a given depth.
Plain(text, causes) == Some(Node(text, {}, 0, <<>>, causes))
Typed(kind) == Some(Node(<<"typed">>, {}, kind, Full(EncodeConcrete[kind], "concrete"), Some(<<Sentinel("ErrClosed")>>)))
RECURSIVE Chain(_)
Chain(n) == IF n = 0 THEN Sentinel("ErrClosed") ELSE Plain(<<"wrapped">>, Some(<<Chain(n - 1)>>))

Errors ==
  {Plain(<<"plain">>, Nil), Plain(<<>>, Some(<<Nil>>)), Plain(<<"joined">>, Some(<<Typed(1), Nil, Sentinel("Canceled")>>)),
   Chain(MaxDepth - 1), Chain(MaxDepth)}
  \cup {Typed(k) : k \in 1..3}

AllMessages ==
  {Message("open", "Open", v, Nil, Nil, 0) : v \in Samples(EncodeConfig, "config")}
  \cup UNION {{Message("request", op, v, Nil, Nil, 0) : v \in Samples(EncodeRequest[op], op)} : op \in Operations}
  \cup UNION {{Message("response", op, v, Nil, Nil, 0) : v \in Samples(EncodeResult[op], op)} : op \in Operations}
  \cup {Message("response", "Hash", Nil, err, obs, 0) : err \in Errors, obs \in Samples(EncodeObservations, "obs")}

\* Messages around the bounds, for MaxMetadata = 450 and MaxBlocks = 30.
Long(n) == [i \in 1..n |-> "x"]
Repeat(x, n) == Some([i \in 1..n |-> x])
Joined(n) == Plain(<<"joined">>, Repeat(Sentinel("ErrClosed"), n))

\* A certificate without properties, and the lists it has.
NoInfo == Zero(EncodeCertificateInfo.of)
Lists == {"Policies", "KeyUsages", "ExtKeyUsages", "Roles"}

LargeMessages ==
  {Message("request", "LoadTrustedCertificate", [Data |-> Some(Long(n)), Path |-> <<>>, Type |-> <<>>, Format |-> <<>>],
           Nil, Nil, limit) : n \in 0..3, limit \in 0..2}
  \cup {Message("open", "Open", [Zero(EncodeConfig) EXCEPT !["TrustedCertificates"] =
           Repeat(Zero(EncodeTrustedCertificate), n)], Nil, Nil, 0) : n \in 4..16}
  \cup {Message("open", "Open", [Zero(EncodeConfig) EXCEPT !["MaxInputSize"] = limit, !["TrustedCertificates"] =
           Some(<<[Zero(EncodeTrustedCertificate) EXCEPT !["Data"] = Some(Long(n))]>>)], Nil, Nil, 0) :
          n \in 0..3, limit \in 0..2}
  \cup {Message("response", "GetCertFromCMS", Repeat(b, n), Nil, Repeat(Zero(Struct(Observation)), o), 0) :
          b \in {Nil, Some(<<>>), Some(<<"x">>)}, n \in 27..32, o \in 0..2}
  \cup {Message("response", "X509CertificateGetInfo",
           Some([f \in DOMAIN NoInfo |-> IF f \in Lists THEN Repeat(<<>>, n) ELSE NoInfo[f]]),
           Nil, Repeat(Zero(Struct(Observation)), o), 0) : n \in 15..25, o \in 0..2}
  \cup {Message("response", "Hash", Nil, err, Repeat(Zero(Struct(Observation)), o), 0) :
          err \in {Chain(n) : n \in 0..MaxDepth} \cup {Joined(n) : n \in {0, 1} \cup (8..16)},
          o \in {0, 1, 9, 10, 11}}

MCMessages == AllMessages \cup LargeMessages
=============================================================================
