--------------------------- MODULE MCSequential ---------------------------
(***************************************************************************)
(* The parts that are sequential code: what is done before the library is    *)
(* called or without it.  They do not share state, so a behaviour exercises  *)
(* one of them, its `part'.                                                  *)
(*                                                                         *)
(* Requests: every operation with every combination of its options, known   *)
(* and unknown; inputs around the boundaries of base64 groups and PEM lines, *)
(* at the limits and at the largest int64, scaled to 9000.                   *)
(* Extraction: containers with no signer, with fewer than the limit, with   *)
(* exactly the limit and with more, below, at and above the size limit;     *)
(* documents with up to two signatures, or three at the limit, in every     *)
(* encoding: Ids that are numbers of this or another signature, behind      *)
(* attributes with the same local name or a value that looks like one, and  *)
(* documents that are not well-formed.                                      *)
(* Hash: messages of up to two blocks and a rest, cut in every way.         *)
(* Signatures: every key, digest and signature of two bytes of base 5 on a  *)
(* curve with cofactor 4, one whose order is below the field's and one      *)
(* whose order is above it; lengths that are wrong.                         *)
(***************************************************************************)
EXTENDS SignerCertificates, Streebog, Gost3410, Requests

SomeContainers ==
  {CMS(<<>>, 1), CMS(<<1>>, 2), CMS(<<2, 1>>, 2), CMS(<<3, 4>>, 3), CMS(<<1, 2, 3>>, 3),
   CMS(<<2, 2>>, 4)}

Id(n) == Attribute("", "Id", "quoted", n, <<"a">>)

\* Attributes of a signature before and after its Id.
Before == {<<>>, <<Attribute("wsu", "Id", "quoted", 1, <<"a", "b">>)>>,
           <<Attribute("", "title", "quoted", -1, <<"a", "s">>)>>}

Irregular == {<<Id(2), Id(1)>>, <<Attribute("", "Id", "unquoted", 2, <<"a">>)>>,
              <<Attribute("", "checked", "bare", 0, <<"a">>), Id(2)>>}

SignatureAttributes ==
  Before \cup {b \o <<Id(n)>> : b \in Before, n \in 0..3}
    \cup {<<Id(2), Attribute("", "title", "quoted", -1, <<"c">>)>>} \cup Irregular

Signature(attrs, cert) == Token("signature", attrs, <<"a">>, cert)

\* Something before, between or after the signatures.
Text == Token("text", <<>>, <<"b", "s">>, 0)
Element == Token("element", <<Id(1)>>, <<"c">>, 0)
Bad == Token("bad", <<>>, <<"a">>, 0)

Two ==
  {<<Text, Signature(a, 7), Element, Signature(b, 8)>> :
     a \in SignatureAttributes, b \in {<<>>, <<Id(1)>>, <<Attribute("", "title", "quoted", -1, <<"s">>), Id(2)>>}}

Three ==
  {<<Signature(a, 7), Signature(b, 8), Signature(<<Id(1)>>, 9), Text>> : a, b \in {<<>>, <<Id(3)>>, <<Id(1)>>}}

Other ==
  {<<Element, Text>>, <<Text, Signature(<<Id(2)>>, 7)>>, <<Signature(<<Id(2)>>, 7), Bad>>}

SomeDocuments ==
  {[text |-> [encoding |-> e, tokens |-> t], size |-> 2] :
     e \in XmlEncodings, t \in Two \cup Three \cup Other}
  \cup {[text |-> [encoding |-> "utf8", tokens |-> <<Element>>], size |-> 4]}

Curve(p, q, co, a, b, x, y) ==
  [P |-> p, Q |-> q, Co |-> co, A |-> a, B |-> b, X |-> x, Y |-> y]

SmallCurves ==
  <<Curve(17, 5, 4, 1, 6, 1, 5), Curve(11, 7, 1, 2, 7, 7, 1), Curve(11, 13, 1, 1, 6, 2, 4)>>

Bytes(n) == [1..n -> 0..(Base - 1)]

AllBytes == Bytes(2 * PointSize) \cup Bytes(1)

AllDigests == Bytes(PointSize)

-----------------------------------------------------------------------------
AllEncodings == SourceEncodings \cup {"unknown"}

MemorySizes == {0, 1, 3, 4, 5, 28, 29, 60, 64, 65}
FileSizes == {0, 1, 43, 44, 45, 92, 93, 1399, 1400, 1401, 1999, 2001, 2667, 4500, 4501, 6002, 9000}

MemorySources == {Memory(e, n) : e \in AllEncodings, n \in MemorySizes}

FileSources ==
  {File(e, 7, FALSE, TRUE, n) : e \in AllEncodings, n \in FileSizes}
    \cup {File(e, p, b, FALSE, 0) : e \in {"auto", "base64"}, p \in {0, 8}, b \in BOOLEAN}

Sources == MemorySources \cup FileSources \cup {NoSource}

\* One source of each kind, where its size does not matter.
Kinds ==
  {Memory(e, n) : e \in AllEncodings, n \in {0, 4, 65}}
    \cup {File(e, p, b, TRUE, 5) : e \in AllEncodings, p \in {0, 7}, b \in BOOLEAN} \cup {NoSource}

Options(options) == options \cup {"unknown"}

SignRequests ==
  [op : {"SignCMS"}, nul : {FALSE}, data : Sources, detached : BOOLEAN, timestamp : {FALSE},
   certificate : {TRUE}, format : Options(OutputFormats), check : {"default"}]
  \cup
  [op : {"SignCMS"}, nul : BOOLEAN, data : Kinds, detached : BOOLEAN, timestamp : BOOLEAN,
   certificate : BOOLEAN, format : OutputFormats, check : Options(TimeChecks)]

VerifyRequests ==
  [op : {"VerifyCMS"}, nul : {FALSE}, encoding : AllEncodings, signerID : {0},
   signature : Kinds, data : Kinds, detached : BOOLEAN, check : Options(TimeChecks)]
  \cup
  [op : {"VerifyCMS"}, nul : BOOLEAN, encoding : {"auto"}, signerID : -1..(maxSignerID + 1),
   signature : {Memory("raw", 4)}, data : {NoSource}, detached : {FALSE}, check : TimeChecks]

HashRequests ==
  [op : {"Hash"}, data : Sources, algorithm : Options(DOMAIN digestSize)]
  \cup
  [op : {"SignHash"}, nul : BOOLEAN, data : {Memory("raw", n) : n \in {0, 31, 32, 33, 63, 64, 65}},
   algorithm : Options(DOMAIN digestSize), timestamp : BOOLEAN, certificate : BOOLEAN,
   format : Options(OutputFormats), check : Options(TimeChecks)]

XMLRequests ==
  {r \in [op : XMLOperations, nul : BOOLEAN, blank : BOOLEAN, wrap : BOOLEAN,
          data : MemorySources \cup {NoSource, File("raw", 7, FALSE, TRUE, 5)},
          canonicalization : Options(Canonicalizations), check : Options(TimeChecks)] :
     r.wrap => r.op = "SignWSSE"}

AllInputs == SignRequests \cup VerifyRequests \cup HashRequests \cup XMLRequests

-----------------------------------------------------------------------------
VARIABLE part

allVars == <<part, signerVars, hashVars, keyVars, requestVars>>

SignersIdle == file = NoContainer /\ call = Idle /\ numbered = TRUE /\ closed = FALSE

SequentialInit ==
  /\ KeyInit /\ RequestInit
  /\ \/ part = "signers" /\ SignersInit /\ New(64)
     \/ part = "hash" /\ SignersIdle /\ HashInit
     \/ part \in {"signature", "request"} /\ SignersIdle /\ New(64)

SequentialNext ==
  \/ part = "signers" /\ SignersNext /\ UNCHANGED <<part, hashVars, keyVars, requestVars>>
  \/ part = "hash" /\ HashNext /\ UNCHANGED <<part, signerVars, keyVars, requestVars>>
  \/ part = "signature" /\ KeyNext /\ UNCHANGED <<part, signerVars, hashVars, requestVars>>
  \/ part = "request" /\ RequestNext /\ UNCHANGED <<part, signerVars, hashVars, keyVars>>

SequentialSpec == SequentialInit /\ [][SequentialNext]_allVars
=============================================================================
