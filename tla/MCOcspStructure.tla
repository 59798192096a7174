-------------------------- MODULE MCOcspStructure --------------------------
(***************************************************************************)
(* OCSP responses as responders encode them: each status, with and without *)
(* the optional fields, answered directly or by a delegated responder.     *)
(* Certificates with GOST signatures of both profiles, and one of another. *)
(***************************************************************************)
EXTENDS GostCertificate

Sequence(kids) == Node("seq", kids)

Alg == Sequence(<<Prim("oid", 0), Prim("null", 0)>>)

Time == Prim("gtime", 0)

Exts(tag) ==
  Node(tag, <<Sequence(<<Sequence(<<Prim("oid", 0), Prim("bool", 0), Octets(<<>>)>>)>>)>>)

CertID(alg) == Sequence(<<alg, Octets(<<>>), Octets(<<>>), Prim("int", 0)>>)

Basic(version, responder, singles, exts, certs) ==
  Sequence(<<Sequence(version \o <<Node(responder, <<Octets(<<>>)>>), Time, Sequence(singles)>> \o exts),
         Alg, Prim("bits", 0)>> \o certs)

Response(basic) ==
  Sequence(<<Prim("enum", 0), Node("c0", <<Sequence(<<Prim("oid", 0), Octets(<<basic>>)>>)>>)>>)

Good == Sequence(<<CertID(Sequence(<<Prim("oid", 0)>>)), Prim("c0", 0), Time>>)

Unknown == Sequence(<<CertID(Alg), Prim("c2", 0), Time, Exts("c1")>>)

Revoked ==
  Sequence(<<CertID(Alg), Node("c1", <<Time, Node("c0", <<Prim("enum", 0)>>)>>), Time,
         Node("c0", <<Time>>)>>)

Cert(version, serial, trailer) ==
  Sequence(<<Sequence(version \o <<Prim("int", serial), Alg, Sequence(<<>>),
                           Sequence(<<Prim("utctime", 0), Time>>), Sequence(<<>>),
                           Sequence(<<Alg, Prim("bits", 0)>>)>> \o trailer),
         Alg, Prim("bits", 0)>>)

Version0(v) == <<Node("c0", <<Prim("int", v)>>)>>

Certs(cert) == <<Node("c0", <<Sequence(<<cert>>)>>)>>

SmallResponses ==
  {Response(Basic(<<>>, "c2", <<Good>>, <<>>, <<>>)),
   Response(Basic(<<>>, "c1", <<Revoked>>, <<>>, <<>>))}

AllResponses ==
  SmallResponses \cup
  {Response(Basic(Version0(0), "c2", <<Good, Unknown>>, <<Exts("c1")>>, <<>>)),
   Response(Basic(<<>>, "c2", <<>>, <<>>, Certs(Cert(<<>>, 0, <<>>)))),
   Response(Basic(<<>>, "c2", <<>>, <<>>, Certs(Cert(Version0(1), 1, <<Prim("c1", 0)>>)))),
   Response(Basic(<<>>, "c2", <<>>, <<>>,
                  Certs(Cert(Version0(2), -1, <<Prim("c2", 0), Exts("c3")>>))))}

GostCert(oid, parameters) ==
  LET alg == Sequence(<<Prim("oid", oid)>> \o parameters)
  IN  Sequence(<<Sequence(<<Prim("int", 1), alg, Sequence(<<>>),
                            Sequence(<<Time, Time>>), Sequence(<<>>),
                            Sequence(<<Alg, Prim("bits", 0)>>)>>),
                 alg, Prim("bits", 0)>>)

GostKey(p, digest) ==
  Sequence(<<Sequence(<<Prim("oid", 20 + p), Sequence(<<Prim("oid", 30 + p)>> \o digest)>>),
             [Prim("bits", 0) EXCEPT !.kids = <<Octets(<<>>)>>]>>)

\* One more element after the last field, which encoding/asn1 passes over.
Extra(n) == [n EXCEPT !.kids = @ \o <<Prim("null", 0)>>]

GostDocuments ==
  {Issued(GostCert(10, <<>>), GostKey(0, <<Prim("oid", 40)>>), role) : role \in 0..Len(Roles)}
  \cup {Issued(GostCert(11, <<Prim("null", 0)>>), GostKey(1, <<>>), 0),
        Issued(GostCert(5, <<>>), GostKey(0, <<>>), 0),
        Issued(Extra(GostCert(10, <<>>)), GostKey(0, <<>>), 5),
        Issued(GostCert(10, <<>>), Extra(GostKey(0, <<>>)), 5)}

AllDocuments == AllResponses \cup GostDocuments
=============================================================================
