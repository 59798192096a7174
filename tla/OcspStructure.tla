--------------------------- MODULE OcspStructure ---------------------------
(***************************************************************************)
(* The shape of an OCSP response: what kalkanOCSPStatus (ocsp.go) accepts  *)
(* before it looks at signatures and times.  A DER element is a record of  *)
(* its tag, its constructed bit, its children and, for the primitive       *)
(* elements whose value matters, that value.  encoding/asn1 is modelled    *)
(* with its leniency: elements left over at the end of a structure are     *)
(* ignored, and what is left over in an EXPLICIT wrapper is read as the    *)
(* next field.  The kalkanOCSP...Structure functions exist to make up for  *)
(* that leniency; the properties say that they do, and no more.            *)
(***************************************************************************)
EXTENDS Integers, Sequences, SequencesExt

CONSTANTS Documents,  \* responses as a responder encodes them
          MaxEdits    \* how many elements of a document may be altered

VARIABLES doc, edits, verdict

vars == <<doc, edits, verdict>>

-----------------------------------------------------------------------------
(* DER elements *)

Prim(tag, val) == [tag |-> tag, compound |-> FALSE, kids |-> <<>>, val |-> val]

Node(tag, kids) == [tag |-> tag, compound |-> TRUE, kids |-> kids, val |-> 0]

\* An OCTET STRING whose contents are DER themselves.
Octets(kids) == [tag |-> "octets", compound |-> FALSE, kids |-> kids, val |-> 0]

Empty(n) == n.kids = <<>> /\ n.val = 0

-----------------------------------------------------------------------------
(* Schemas.  "raw" keeps an element unread (asn1.RawValue); of lists what   *)
(* RFC 6960 and RFC 5280 allow there, which only Conforms looks at, as it   *)
(* does at vals, the permitted values (empty: any).                         *)

Field(kind, tag, of) ==
  [kind |-> kind, tag |-> tag, of |-> of, exp |-> "", opt |-> FALSE, vals |-> {}]

Value(tag)      == Field("prim", tag, <<>>)
Only(tag, vals) == [Value(tag) EXCEPT !.vals = vals]
Struct(fields)  == Field("struct", "seq", fields)
ListOf(f)       == Field("list", "seq", <<f>>)
Raw(of)         == Field("raw", "", of)
Tagged(f, tag)  == [f EXCEPT !.tag = tag]
Explicit(f, tag) == [f EXCEPT !.exp = tag]
Optional(f)     == [f EXCEPT !.opt = TRUE]

AlgorithmIdentifier == Struct(<<Value("oid"), Optional(Raw(<<>>))>>)

\* The hash of a CertID may only have NULL parameters.
HashAlgorithm == Struct(<<Value("oid"), Optional(Raw(<<Only("null", {0})>>))>>)

Extensions == ListOf(Struct(<<Value("oid"), Optional(Value("bool")), Value("octets")>>))

Name == Field("name", "seq", <<>>)

ocspCertID == Struct(<<HashAlgorithm, Value("octets"), Value("octets"), Value("int")>>)

ocspRevokedInfo ==
  Tagged(Struct(<<Value("gtime"), Optional(Explicit(Value("enum"), "c0"))>>), "c1")

ocspSingleResponse ==
  Struct(<<ocspCertID,
           Raw(<<Only("c0", {0}), ocspRevokedInfo, Only("c2", {0})>>),
           Value("gtime"),
           Optional(Explicit(Value("gtime"), "c0")),
           Optional(Explicit(Extensions, "c1"))>>)

ocspResponseData ==
  Struct(<<Optional(Explicit(Value("int"), "c0")),
           Raw(<<Explicit(Raw(<<>>), "c1"), Explicit(Raw(<<>>), "c2")>>),
           Value("gtime"),
           ListOf(ocspSingleResponse),
           Optional(Explicit(Extensions, "c1"))>>)

\* The version decides which fields may follow the public key.
TBSCertificate(version, trailer) ==
  Struct(<<version, Value("int"), AlgorithmIdentifier, Name,
           Struct(<<Raw(<<>>), Raw(<<>>)>>), Name,
           Struct(<<AlgorithmIdentifier, Only("bits", {0})>>)>> \o trailer)

Version(v) == Explicit(Only("int", {v}), "c0")

UniqueIDs == <<Optional(Value("c1")), Optional(Value("c2"))>>

Certificate(tbs) == Struct(<<tbs, AlgorithmIdentifier, Only("bits", {0})>>)

Certificates ==
  <<Certificate(TBSCertificate(Optional(Version(0)), <<>>)),
    Certificate(TBSCertificate(Version(1), UniqueIDs)),
    Certificate(TBSCertificate(Version(2),
                               UniqueIDs \o <<Optional(Explicit(Extensions, "c3"))>>))>>

ocspBasicResponse ==
  Struct(<<ocspResponseData, AlgorithmIdentifier, Value("bits"),
           Optional(Explicit(ListOf(Raw(Certificates)), "c0"))>>)

ocspResponse ==
  Struct(<<Value("enum"),
           Optional(Explicit(Struct(<<Value("oid"), Value("octets")>>), "c0"))>>)

-----------------------------------------------------------------------------
(* encoding/asn1: whether a value of the schema can be read.                *)

\* The "generalized" parameter only affects encoding: UTCTime is read as well.
ReadsTag(n, f) ==
  CASE f.kind = "raw"  -> TRUE
    [] f.kind = "prim" -> /\ ~n.compound
                          /\ n.tag = f.tag \/ (f.tag = "gtime" /\ n.tag = "utctime")
    [] OTHER           -> n.compound /\ n.tag = f.tag

RECURSIVE Reads(_, _), ReadsFields(_, _)

\* The contents of an element whose tag matched.
Reads(n, f) ==
  CASE f.kind = "struct" -> ReadsFields(n.kids, f.of)
    [] f.kind = "list"   -> \A i \in DOMAIN n.kids :
                               ReadsTag(n.kids[i], f.of[1]) /\ Reads(n.kids[i], f.of[1])
    [] OTHER             -> TRUE

ReadsFields(kids, fields) ==
  IF fields = <<>> THEN TRUE
  ELSE LET f == Head(fields)
           skip == f.opt /\ ReadsFields(kids, Tail(fields))
       IN  IF kids = <<>> THEN skip
           ELSE LET n == Head(kids)
                IN  IF f.exp = ""
                    THEN IF ReadsTag(n, f)
                         THEN Reads(n, f) /\ ReadsFields(Tail(kids), Tail(fields))
                         ELSE skip
                    ELSE IF n.tag # f.exp \/ ~(n.compound \/ Empty(n)) THEN skip
                    ELSE IF n.kids = <<>> THEN FALSE
                    ELSE IF ReadsTag(Head(n.kids), f)
                         THEN /\ Reads(Head(n.kids), f)
                              /\ ReadsFields(Tail(n.kids) \o Tail(kids), Tail(fields))
                         ELSE skip

Unmarshal(n, f) == ReadsTag(n, f) /\ Reads(n, f)

-----------------------------------------------------------------------------
(* The reference: an element conforms to a schema when its tag and all of   *)
(* its children are accounted for.                                          *)

RECURSIVE Conforms(_, _), ConformFields(_, _)

Conforms(n, f) ==
  IF f.exp # ""
  THEN /\ n.tag = f.exp /\ n.compound /\ Len(n.kids) = 1
       /\ Conforms(n.kids[1], [f EXCEPT !.exp = ""])
  ELSE CASE f.kind = "raw"    -> f.of = <<>> \/ \E i \in DOMAIN f.of : Conforms(n, f.of[i])
         [] f.kind = "prim"   -> /\ ~n.compound /\ n.tag = f.tag
                                 /\ f.vals # {} => n.val \in f.vals /\ n.kids = <<>>
         [] f.kind = "name"   -> n.compound /\ n.tag = f.tag /\ n.kids = <<>>
         [] f.kind = "list"   -> /\ n.compound /\ n.tag = f.tag
                                 /\ \A i \in DOMAIN n.kids : Conforms(n.kids[i], f.of[1])
         [] f.kind = "struct" -> /\ n.compound /\ n.tag = f.tag
                                 /\ ConformFields(n.kids, f.of)

ConformFields(kids, fields) ==
  IF fields = <<>> THEN kids = <<>>
  ELSE \/ /\ kids # <<>> /\ Conforms(Head(kids), Head(fields))
          /\ ConformFields(Tail(kids), Tail(fields))
       \/ Head(fields).opt /\ ConformFields(kids, Tail(fields))

-----------------------------------------------------------------------------
(* ocsp.go: the structure checks *)

Unbounded == 1000

kalkanOCSPSequence(n, minFields, maxFields) ==
  n.tag = "seq" /\ n.compound /\ Len(n.kids) \in minFields..maxFields

kalkanOCSPGeneralizedTime(n) == n.tag = "gtime" /\ ~n.compound

\* Mutant: what follows the first element of an explicit tag is passed over.
kalkanOCSPExplicitLoose(n, tag) == n.tag = tag /\ n.compound /\ Len(n.kids) >= 1

kalkanOCSPExplicit(n, tag) == n.tag = tag /\ n.compound /\ Len(n.kids) = 1

kalkanOCSPExtensionsStructure(fields, tag) ==
  \/ fields = <<>>
  \/ /\ Len(fields) = 1
     /\ kalkanOCSPExplicit(fields[1], tag)
     /\ LET list == fields[1].kids[1]
        IN  /\ kalkanOCSPSequence(list, 0, Unbounded)
            /\ \A i \in DOMAIN list.kids :
                  LET values == list.kids[i].kids
                  IN  /\ kalkanOCSPSequence(list.kids[i], 2, 3)
                      /\ Len(values) = 3 => values[2].tag = "bool" /\ ~values[2].compound

kalkanOCSPRevokedStructure(n) ==
  /\ Unmarshal(n, ocspRevokedInfo)
  /\ Unmarshal(n, Tagged(ListOf(Raw(<<>>)), "c1"))
  /\ Len(n.kids) \in 1..2
  /\ kalkanOCSPGeneralizedTime(n.kids[1])
  /\ Len(n.kids) = 2 => /\ kalkanOCSPExplicit(n.kids[2], "c0")
                        /\ Unmarshal(n.kids[2].kids[1], Value("enum"))

\* A leading field with context tag 0, and the fields after it.
HasVersion(fields) == fields # <<>> /\ fields[1].tag = "c0"

AfterVersion(fields) == IF HasVersion(fields) THEN Tail(fields) ELSE fields

VersionReads(fields) ==
  HasVersion(fields) => /\ kalkanOCSPExplicit(fields[1], "c0")
                        /\ Unmarshal(fields[1].kids[1], Value("int"))

StatusStructure(status) ==
  CASE status.tag \in {"c0", "c2"} -> ~status.compound /\ Empty(status)
    [] status.tag = "c1"           -> kalkanOCSPRevokedStructure(status)
    [] OTHER                       -> FALSE

\* nextUpdate, when the field after thisUpdate has context tag 0.
NextUpdateStructure(fields) ==
  HasVersion(fields) => /\ kalkanOCSPExplicit(fields[1], "c0")
                        /\ kalkanOCSPGeneralizedTime(fields[1].kids[1])

kalkanOCSPSingleStructure(n) ==
  /\ kalkanOCSPSequence(n, 3, 5)
  /\ kalkanOCSPGeneralizedTime(n.kids[3])
  /\ kalkanOCSPSequence(n.kids[1], 4, 4)
  /\ LET hash == n.kids[1].kids[1]
     IN  /\ kalkanOCSPSequence(hash, 1, 2)
         /\ Len(hash.kids) = 2 => /\ hash.kids[2].tag = "null" /\ ~hash.kids[2].compound
                                  /\ Empty(hash.kids[2])
  /\ StatusStructure(n.kids[2])
  /\ LET rest == SubSeq(n.kids, 4, Len(n.kids))
     IN  /\ NextUpdateStructure(rest)
         /\ kalkanOCSPExtensionsStructure(AfterVersion(rest), "c1")

kalkanOCSPResponseDataStructure(n) ==
  /\ kalkanOCSPSequence(n, 3, 5)
  /\ VersionReads(n.kids)
  /\ LET fields == AfterVersion(n.kids)
     IN  /\ Len(fields) >= 3
         /\ kalkanOCSPGeneralizedTime(fields[2])
         /\ fields[1].tag \in {"c1", "c2"}
         /\ kalkanOCSPExplicit(fields[1], fields[1].tag)
         /\ kalkanOCSPSequence(fields[3], 0, Unbounded)
         /\ \A i \in DOMAIN fields[3].kids : kalkanOCSPSingleStructure(fields[3].kids[i])
         /\ kalkanOCSPExtensionsStructure(SubSeq(fields, 4, Len(fields)), "c1")

\* The unique identifiers of the issuer and the subject, each optional.
DropUniqueID(fields, tag) ==
  IF fields # <<>> /\ fields[1].tag = tag THEN Tail(fields) ELSE fields

UniqueIDReads(fields, tag) ==
  fields # <<>> /\ fields[1].tag = tag => ~fields[1].compound

kalkanOCSPCertificateTBSStructure(n) ==
  /\ kalkanOCSPSequence(n, 6, 10)
  /\ VersionReads(n.kids)
  /\ LET version == IF HasVersion(n.kids) THEN n.kids[1].kids[1].val ELSE 0
         fields == AfterVersion(n.kids)
         rest == SubSeq(fields, 7, Len(fields))
         rest2 == DropUniqueID(rest, "c1")
         ids == version > 0
     IN  /\ Len(fields) >= 6
         /\ kalkanOCSPSequence(fields[2], 1, 2)
         /\ kalkanOCSPSequence(fields[4], 2, 2)
         /\ kalkanOCSPSequence(fields[6], 2, 2)
         /\ kalkanOCSPSequence(fields[6].kids[1], 1, 2)
         /\ Unmarshal(fields[6].kids[2], Value("bits")) /\ fields[6].kids[2].val = 0
         /\ ids => UniqueIDReads(rest, "c1") /\ UniqueIDReads(rest2, "c2")
         /\ LET last == IF ids THEN DropUniqueID(rest2, "c2") ELSE rest
            IN  IF version # 2 THEN last = <<>>
                ELSE kalkanOCSPExtensionsStructure(last, "c3")

-----------------------------------------------------------------------------
(* ocsp_certificate.go: x509.ParseCertificate refuses negative serial       *)
(* numbers; the certificate is then parsed with serial 1 in their place.    *)

SerialIndex(tbs) == IF HasVersion(tbs.kids) THEN 2 ELSE 1

SignatureAlgorithmOf(cert) == cert.kids[1].kids[SerialIndex(cert.kids[1]) + 1]

\* External: one of the three versions, trailing elements ignored.
X509ParseCertificate(cert) ==
  /\ \E i \in 1..3 :
       /\ Unmarshal(cert, Certificates[i])
       /\ LET v == cert.kids[1].kids[1]
          IN  HasVersion(<<v>>) => Len(v.kids) = 1 /\ v.kids[1].val = i - 1
       /\ HasVersion(cert.kids[1].kids) \/ i = 1
  /\ LET tbs == cert.kids[1] s == SerialIndex(tbs)
     IN  /\ tbs.kids[s].val >= 0
         /\ tbs.kids[s + 2].kids = <<>> /\ tbs.kids[s + 4].kids = <<>>
  /\ SignatureAlgorithmOf(cert) = cert.kids[2]

parseOCSPDERCertificate(cert) ==
  \/ X509ParseCertificate(cert)
  \/ /\ cert.tag = "seq" /\ cert.compound /\ cert.kids # <<>>
     /\ LET tbs == cert.kids[1] s == SerialIndex(tbs)
        IN  /\ tbs.tag = "seq" /\ tbs.compound /\ Len(tbs.kids) >= s
            /\ Unmarshal(tbs.kids[s], Value("int")) /\ tbs.kids[s].val < 0
            /\ X509ParseCertificate([cert EXCEPT !.kids[1].kids[s].val = 1])

kalkanOCSPCertificateStructure(cert) ==
  /\ kalkanOCSPSequence(cert, 3, 3)
  /\ kalkanOCSPCertificateTBSStructure(cert.kids[1])
  /\ kalkanOCSPSequence(cert.kids[2], 1, 2)
  /\ Unmarshal(cert.kids[2], AlgorithmIdentifier)
  /\ Unmarshal(cert.kids[3], Value("bits")) /\ cert.kids[3].val = 0
  /\ parseOCSPDERCertificate(cert)

kalkanOCSPBasicStructure(n) ==
  /\ kalkanOCSPSequence(n, 3, 4)
  /\ kalkanOCSPResponseDataStructure(n.kids[1])
  /\ kalkanOCSPSequence(n.kids[2], 1, 2)
  /\ Len(n.kids) = 4 =>
       /\ kalkanOCSPExplicit(n.kids[4], "c0")
       /\ LET list == n.kids[4].kids[1]
          IN  /\ kalkanOCSPSequence(list, 0, Unbounded)
              /\ \A i \in DOMAIN list.kids : kalkanOCSPCertificateStructure(list.kids[i])

kalkanOCSPResponseStructure(n) ==
  /\ kalkanOCSPSequence(n, 1, 2)
  /\ Len(n.kids) = 2 => /\ kalkanOCSPExplicit(n.kids[2], "c0")
                        /\ kalkanOCSPSequence(n.kids[2].kids[1], 2, 2)

-----------------------------------------------------------------------------
(* kalkanOCSPStatus up to the signature.  Response status 0 is "successful", *)
(* object identifier 0 is id-pkix-ocsp-basic.                               *)

Payload(n) == n.kids[2].kids[1].kids

Verdict(n) ==
  CASE ~(Unmarshal(n, ocspResponse) /\ kalkanOCSPResponseStructure(n)) -> "notOCSP"
    [] n.kids[1].val # 0                                -> "refused"
    [] Len(n.kids) = 1 \/ Payload(n)[1].val # 0         -> "wrongType"
    [] OTHER ->
         LET body == Payload(n)[2].kids
         IN  IF /\ Len(body) = 1
                /\ Unmarshal(body[1], ocspBasicResponse)
                /\ kalkanOCSPBasicStructure(body[1])
             THEN "parsed" ELSE "malformed"

Init ==
  /\ doc \in Documents
  /\ edits = 0
  /\ verdict = "none"

\* Identifiers of two profiles are numbered 10 and 11, 20 and 21, and so on.
OtherProfile(oid) == IF oid < 10 THEN oid ELSE oid + 1 - 2 * (oid % 10)

\* What replaces one element: its tag or its constructed bit differ, a child
\* is missing, or one is added at the end.
Altered(n) ==
  {[n EXCEPT !.compound = ~@]}
  \cup {[n EXCEPT !.tag = t] : t \in {"utctime", "c0", "c1", "c2", "null"} \ {n.tag}}
  \cup {[n EXCEPT !.kids = RemoveAt(@, i)] : i \in DOMAIN n.kids}
  \cup {[n EXCEPT !.kids = Append(@, k)] :
          k \in IF n.compound \/ n.tag = "octets" \/ n.kids # <<>>
                THEN {Prim("null", 0), Node("c0", <<Prim("gtime", 0)>>)} ELSE {}}
  \cup {[n EXCEPT !.val = v] :
          v \in IF n.tag \in {"oid", "int", "enum", "bits", "null", "c0", "c2"}
                THEN {0, 1, OtherProfile(n.val)} \ {n.val} ELSE {}}

RECURSIVE Edits(_)
Edits(n) == Altered(n) \cup UNION {{[n EXCEPT !.kids[i] = k] : k \in Edits(n.kids[i])} :
                                     i \in DOMAIN n.kids}

\* A responder whose encoding differs in one more element.
Edit ==
  /\ verdict = "none" /\ edits < MaxEdits
  /\ doc' \in Edits(doc)
  /\ edits' = edits + 1
  /\ UNCHANGED verdict

Check ==
  /\ verdict = "none"
  /\ verdict' = Verdict(doc)
  /\ UNCHANGED <<doc, edits>>

Next == Edit \/ Check

Spec == Init /\ [][Next]_vars

-----------------------------------------------------------------------------
(* Properties *)

\* What a successful response looks like on paper: every element of it is one
\* the schemas name, certificates agree with themselves on their algorithm.
WellFormed(n) ==
  /\ Conforms(n, ocspResponse)
  /\ n.kids[1].val = 0 /\ Len(n.kids) = 2 /\ Payload(n)[1].val = 0
  /\ LET body == Payload(n)[2].kids
     IN  /\ Len(body) = 1 /\ Conforms(body[1], ocspBasicResponse)
         /\ Len(body[1].kids) = 4 =>
              \A i \in DOMAIN body[1].kids[4].kids[1].kids :
                 LET cert == body[1].kids[4].kids[1].kids[i]
                 IN  SignatureAlgorithmOf(cert) = cert.kids[2]

\* The structure checks of kalkanOCSPStatus accept exactly what follows the
\* schemas.  A response that it goes on to verify holds nothing that the decoder
\* passed over: no element after the fields of a structure or beside the value
\* of an EXPLICIT wrapper, and no time in another format.  And it refuses no
\* response for its optional fields or the sign of its serial numbers.
NothingIgnored ==
  verdict # "none" /\ doc.tag # "issued" => (verdict = "parsed" <=> WellFormed(doc))
=============================================================================
