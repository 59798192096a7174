-------------------------- MODULE GostCertificate --------------------------
(***************************************************************************)
(* The shape of a certificate with a Kazakhstan GOST signature and of the   *)
(* issuer's key: what certsig.CheckCertificateSignature accepts before it    *)
(* computes anything.  Streebog and Gost3410 have the computation, which     *)
(* succeeds here.  The document is a certificate that crypto/x509 parsed,    *)
(* with the public key of its issuer; the root's value is the issuer's role. *)
(***************************************************************************)
EXTENDS OcspStructure

\* Object identifiers: one for each profile, 0 (256 bits) and 1 (512 bits).
oidSignatureKazakhGost2015(p) == 10 + p
oidPublicKeyKazakhGost2015(p) == 20 + p
oidKazakhGost2015Curve(p)     == 30 + p
oidKazakhGost2015Digest(p)    == 40 + p

Issued(certificate, key, role) == [Node("issued", <<certificate, key>>) EXCEPT !.val = role]

\* Issuers as crypto/x509 presents them.
Issuer(version, basicConstraintsValid, isCA, keyUsage) ==
  [version |-> version, basicConstraintsValid |-> basicConstraintsValid, isCA |-> isCA,
   keyUsage |-> keyUsage]

Roles ==
  <<Issuer(3, FALSE, FALSE, {"certSign"}), Issuer(3, TRUE, FALSE, {}), Issuer(1, FALSE, FALSE, {}),
    Issuer(3, TRUE, TRUE, {"digitalSignature"}), Issuer(3, TRUE, TRUE, {})>>

IssuerOf(role) == IF role = 0 THEN Issuer(3, TRUE, TRUE, {"certSign", "cRLSign"}) ELSE Roles[role]

-----------------------------------------------------------------------------
(* certsig.go *)

MayIssue(issuer) ==
  /\ ~(issuer.version = 3 /\ ~issuer.basicConstraintsValid)
  /\ issuer.basicConstraintsValid => issuer.isCA
  /\ issuer.keyUsage # {} => "certSign" \in issuer.keyUsage

\* The elements that encoding/asn1 passes over do not survive encoding again:
\* none after the fields of a structure, nor of an AlgorithmIdentifier in it.
matchesAlgorithmEncoding(n) == Len(n.kids) <= 2

\* Mutant: elements after the last field of the structure are passed over.
matchesAlgorithmOnly(n, fields, algorithm) == matchesAlgorithmEncoding(n.kids[algorithm])

matchesASN1Encoding(n, fields, algorithm) ==
  Len(n.kids) = fields /\ matchesAlgorithmEncoding(n.kids[algorithm])

WholeOctets(bits) == bits.val = 0

\* Absent or NULL.
validGostSignatureParameters(algorithm) ==
  Len(algorithm.kids) = 1 \/ algorithm.kids[2] = Prim("null", 0)

gostCertificateAlgorithmsMatch(tbs, outer) ==
  /\ tbs.tag = "seq" /\ tbs.compound
  /\ Unmarshal(tbs, Struct(<<Optional(Explicit(Value("int"), "c0")), Raw(<<>>), Raw(<<>>)>>))
  /\ LET serial == tbs.kids[SerialIndex(tbs)]
     IN  serial.tag = "int" /\ ~serial.compound
  /\ tbs.kids[SerialIndex(tbs) + 1] = outer

-----------------------------------------------------------------------------
(* gost.go *)

\* A curve and at most one digest, and nothing else.
kazakhGost2015Parameters(n) ==
  /\ n.tag = "seq" /\ n.compound
  /\ Len(n.kids) \in 1..2
  /\ \A i \in DOMAIN n.kids : Unmarshal(n.kids[i], Value("oid"))

verifyKazakhGost2015(key, p) ==
  /\ Unmarshal(key, Struct(<<AlgorithmIdentifier, Value("bits")>>))
  /\ WholeOctets(key.kids[2]) /\ matchesASN1Encoding(key, 2, 1)
  /\ LET algorithm == key.kids[1].kids
         point == key.kids[2].kids
     IN  /\ algorithm[1].val = oidPublicKeyKazakhGost2015(p)
         /\ Len(algorithm) = 2 /\ kazakhGost2015Parameters(algorithm[2])
         /\ algorithm[2].kids[1].val = oidKazakhGost2015Curve(p)
         /\ Len(algorithm[2].kids) = 2 =>
              algorithm[2].kids[2].val = oidKazakhGost2015Digest(p)
         /\ Len(point) = 1 /\ Unmarshal(point[1], Value("octets"))

CheckSignature(key, algorithm, p) ==
  validGostSignatureParameters(algorithm) /\ verifyKazakhGost2015(key, p)

\* For algorithms that crypto/x509 does not know; it checks the others itself,
\* and is left those that are not GOST.  The two bytes.Equal have no conjunct: what
\* crypto/x509 parsed and what is parsed here are parts of one certificate.Raw.
CheckCertificateSignature(certificate, key, issuer) ==
  LET algorithm == certificate.kids[2]
      profiles == {p \in {0, 1} : algorithm.kids[1].val = oidSignatureKazakhGost2015(p)}
  IN  CASE ~Unmarshal(certificate, Struct(<<Raw(<<>>), AlgorithmIdentifier, Value("bits")>>)) ->
             "malformed"
        [] OTHER ->
             IF profiles = {} THEN "x509"
             ELSE IF /\ matchesASN1Encoding(certificate, 3, 2)
                     /\ WholeOctets(certificate.kids[3])
                     /\ gostCertificateAlgorithmsMatch(certificate.kids[1], algorithm)
                     /\ MayIssue(issuer)
                     /\ \A p \in profiles : CheckSignature(key, algorithm, p)
             THEN "verified" ELSE "malformed"

\* External: what crypto/x509 parsed, the issuer's key included.
Parsed(n) ==
  /\ n.tag = "issued" /\ n.compound /\ Len(n.kids) = 2
  /\ X509ParseCertificate(n.kids[1])
  /\ Unmarshal(n.kids[2], Struct(<<AlgorithmIdentifier, Value("bits")>>))

-----------------------------------------------------------------------------
CheckIssued ==
  /\ verdict = "none" /\ Parsed(doc)
  /\ verdict' = CheckCertificateSignature(doc.kids[1], doc.kids[2], IssuerOf(doc.val))
  /\ UNCHANGED <<doc, edits>>

\* Issuers that may not issue are tried with unaltered encodings only.
StructureNext ==
  \/ doc.val = 0 /\ Edit
  \/ doc.tag # "issued" /\ Check
  \/ CheckIssued

StructureSpec == Init /\ [][StructureNext]_vars

-----------------------------------------------------------------------------
(* Properties *)

\* A certificate and a key of one profile, with nothing that no field accounts
\* for.
GostAlgorithm(p) ==
  Struct(<<Only("oid", {oidSignatureKazakhGost2015(p)}), Optional(Only("null", {0}))>>)

GostKeyAlgorithm(p) ==
  Struct(<<Only("oid", {oidPublicKeyKazakhGost2015(p)}),
           Struct(<<Only("oid", {oidKazakhGost2015Curve(p)}),
                    Optional(Only("oid", {oidKazakhGost2015Digest(p)}))>>)>>)

GostConforms(certificate, key, p) ==
  /\ Conforms(certificate, Struct(<<Raw(<<>>), GostAlgorithm(p), Only("bits", {0})>>))
  /\ SignatureAlgorithmOf(certificate) = certificate.kids[2]
  /\ Conforms(key, Struct(<<GostKeyAlgorithm(p), Value("bits")>>))
  /\ key.kids[2].val = 0 /\ Len(key.kids[2].kids) = 1
  /\ Conforms(key.kids[2].kids[1], Value("octets"))

\* CheckCertificateSignature takes a GOST signature to verification exactly if
\* the certificate and the issuer's key are of one profile in every identifier,
\* all that they say is accounted for ("exposes extra fields that encoding/asn1
\* ignores"), and the issuer is entitled to issue.
OneProfile ==
  doc.tag = "issued" /\ verdict # "none" =>
    (verdict = "verified" <=>
       /\ doc.val \in {0, 3, 5}
       /\ \E p \in {0, 1} : GostConforms(doc.kids[1], doc.kids[2], p))
=============================================================================
