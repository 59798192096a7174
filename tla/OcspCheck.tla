----------------------------- MODULE OcspCheck -----------------------------
(***************************************************************************)
(* Certificate status through WithCustomOCSP: validateCertificateOCSP      *)
(* (ocsp_client.go) and the verification of responses (ocsp.go).           *)
(*                                                                         *)
(* Around the client are certificate authorities that revoke certificates, *)
(* responders that sign statements about them, a network that delivers     *)
(* some response, perhaps an old one, one about another certificate or a   *)
(* damaged one, files that are replaced, and a clock that the client reads *)
(* with some delay.  The structure of responses is checked in              *)
(* OcspStructure; here a response is what it states.                       *)
(***************************************************************************)
EXTENDS Integers, Sequences

CONSTANTS CAs,         \* certificate authorities, each with a key of its own
          CAName,      \* their names; two keys may share a name
          HasKeyID,    \* authorities whose certificates carry key identifiers
          Home,        \* the authority of the certificate under validation
          Delegates,   \* certificates: name, key, ca, notBefore, notAfter, ocspSigning,
                       \* keyUsage and critical, an extension that is not understood
          None, Gone,  \* no authority; a file that cannot be read
          MaxTime,     \* bound on the clock between requests
          MaxTrusted,  \* bound on the loaded certificates
          Files,       \* what the file of a trusted certificate may contain
          kalkanOCSPMaxAge, kalkanRevocationClockSkew,
          ocspTimeout,
          Validities,  \* nextUpdate - thisUpdate, 0 for no nextUpdate
          Lags         \* how far the client's clock may be behind

ASSUME OcspAssumption ==
  /\ Home \in CAs /\ {None, Gone} \cap CAs = {} /\ Files \subseteq CAs \cup {Gone}
  /\ {kalkanOCSPMaxAge, kalkanRevocationClockSkew} \subseteq Nat
  /\ \A d \in Delegates : d.notBefore \in Int /\ d.notAfter \in Int
  /\ Validities \subseteq Nat /\ \E v \in Validities : \A w \in Validities : w <= v
  /\ Lags \subseteq Int /\ \A l \in Lags : l <= kalkanRevocationClockSkew

Never == -1

Keys == CAs \cup {d.key : d \in Delegates}

\* What arrives of a response: "unreadable" when it cannot be parsed, has another
\* version or an odd signature, "altered" when the signature does not fit.
Forms == {"whole", "oversized", "unreadable", "altered"}

VARIABLES now, lag, revoked, trusted, file, call

vars == <<now, lag, revoked, trusted, file, call>>

\* The client's clock.
Clock == now - lag

-----------------------------------------------------------------------------
(* Identifiers *)

\* kalkanOCSPCertID: issuer name hash, issuer key hash and serial number.  The
\* certificates of different authorities have the same serial number.
kalkanOCSPCertID(ca) == [name |-> CAName[ca], key |-> ca]

matches(id, other) == id.name = other.name /\ id.key = other.key

\* The certificate of an authority, as far as a responder is identified by it.
Certificate(ca) == [name |-> CAName[ca], key |-> ca]

\* A responder identifies itself by its key or by the name in its certificate.
ResponderIDs(key) ==
  LET names == IF key \in CAs THEN {CAName[key]}
               ELSE {d.name : d \in {c \in Delegates : c.key = key}}
  IN  {[by |-> "key", value |-> key]} \cup {[by |-> "name", value |-> n] : n \in names}

kalkanOCSPResponderMatches(id, signer) ==
  \/ id.by = "name" /\ id.value = signer.name
  \/ id.by = "key" /\ id.value = signer.key

-----------------------------------------------------------------------------
(* Verification of a response *)

kalkanCertificateValidAt(d, t) == d.notBefore <= t /\ t <= d.notAfter

\* Without the extension a key may be used for anything.
kalkanOCSPDigitalSignatureAllowed(d) == d.keyUsage \in {"absent", "digitalSignature"}

\* certsig.CheckSignature: the signature is one of the key over what arrived.
CheckSignature(key, answer) == answer.form # "altered" /\ answer.response.signer = key

kalkanOCSPSigner(answer, issuer, t) ==
  LET id == answer.response.responderID
  IN  \/ kalkanOCSPResponderMatches(id, Certificate(issuer)) /\ CheckSignature(issuer, answer)
      \/ \E d \in answer.response.certs :
            /\ kalkanCertificateValidAt(d, t)
            /\ d.ocspSigning
            /\ ~d.critical
            /\ kalkanOCSPDigitalSignatureAllowed(d)
            /\ CAName[d.ca] = CAName[issuer]
            /\ kalkanOCSPResponderMatches(id, d)
            /\ d.ca = issuer   \* CheckCertificateSignature(responder, issuer)
            /\ CheckSignature(d.key, answer)

\* Mutant: the age of a status is not looked at.
kalkanOCSPSingleStatusStale(single, t) ==
  IF single.critical \/ single.this > t + kalkanRevocationClockSkew
  THEN "error" ELSE single.status

\* Mutant: the boundaries themselves are refused.
kalkanOCSPSingleStatusStrict(single, t) ==
  IF \/ single.critical
     \/ single.this >= t + kalkanRevocationClockSkew
     \/ single.next = Never /\ t - single.this > kalkanOCSPMaxAge
     \/ single.next # Never /\ single.next <= t
  THEN "error" ELSE single.status

kalkanOCSPSingleStatus(single, t) ==
  LET expires == single.next
  IN  IF \/ single.critical
         \/ single.this > t + kalkanRevocationClockSkew
         \/ expires # Never /\ expires <= single.this
         \/ expires = Never /\ t - single.this > kalkanOCSPMaxAge
         \/ expires # Never /\ expires <= t
      THEN "error"
      ELSE IF single.status = "unknown" THEN "error" ELSE single.status

Matching(response, id) ==
  {i \in DOMAIN response.singles : matches(id, response.singles[i].id)}

kalkanOCSPStatus(answer, id, issuer, t) ==
  LET response == answer.response
      found == Matching(response, id)
  IN  IF \/ answer.form \in {"oversized", "unreadable"}
         \/ ~kalkanOCSPSigner(answer, issuer, t)
         \/ response.critical
         \/ response.produced > t + kalkanRevocationClockSkew
         \/ found = {} \/ \E i, j \in found : i # j
      THEN "error"
      ELSE kalkanOCSPSingleStatus(response.singles[CHOOSE i \in found : TRUE], t)

-----------------------------------------------------------------------------
(* The issuer of the certificate *)

\* Mutant: a name is enough for an issuer.
checkOCSPIssuerByName(ca) == CAName[ca] = CAName[Home]

\* The last conjunct is CheckCertificateSignature.
checkOCSPIssuer(ca) ==
  /\ CAName[ca] = CAName[Home]
  /\ {ca, Home} \subseteq HasKeyID => ca = Home
  /\ ca = Home

\* A certificate loaded from a path is read again at each lookup.
ocspTrustedCertificateBytes(candidate) == IF candidate.path THEN file ELSE candidate.ca

findOCSPIssuer(candidates) ==
  LET usable == {i \in DOMAIN candidates :
                   LET ca == ocspTrustedCertificateBytes(candidates[i])
                   IN  ca # Gone /\ checkOCSPIssuer(ca)}
  IN  IF usable = {} THEN None
      ELSE ocspTrustedCertificateBytes(
             candidates[CHOOSE i \in usable : \A j \in usable : i <= j])

-----------------------------------------------------------------------------
(* The world around the client *)

Idle == [pc |-> "idle", issuer |-> None, copy |-> <<>>, deadline |-> 0,
         canceled |-> FALSE, answer |-> [form |-> "none"],
         outcome |-> "none", revokedAt |-> Never]

\* Past the bound the clock only runs for a request that waits.
Tick ==
  /\ now < MaxTime \/ (call.pc = "fetch" /\ now < call.deadline)
  /\ now' = now + 1
  /\ UNCHANGED <<lag, revoked, trusted, file, call>>

\* The authority revokes the certificate under validation.
Revoke ==
  /\ revoked = Never
  /\ revoked' = now
  /\ UNCHANGED <<now, lag, trusted, file, call>>

\* A key speaks for an authority at a time until its certificate expires for every
\* clock within the tolerated skew; other keys may sign anything.  There is no
\* lower bound: kalkanOCSPSigner compares the certificate with the client's clock
\* and not with the time of the statement, so that what an appointed key signed
\* before its certificate became valid counts as well.
SpeaksFor(key, ca, t) ==
  \/ key = ca
  \/ \E d \in Delegates :
       /\ d.key = key /\ d.ca = ca
       /\ d.ocspSigning /\ ~d.critical /\ kalkanOCSPDigitalSignatureAllowed(d)
       /\ t <= d.notAfter + kalkanRevocationClockSkew

\* What a key may have stated at time t about the certificate of an authority:
\* the truth, if it speaks for the authority of the certificate under validation.
Statuses(key, ca, t) ==
  {s \in {"good", "revoked", "unknown"} :
     ca = Home /\ SpeaksFor(key, ca, t) =>
       \/ s = "good" /\ (revoked = Never \/ t <= revoked)
       \/ s = "revoked" /\ revoked # Never /\ revoked <= t}

\* A response of key at time t, as id: a statement about the certificate of ca, with a
\* critical extension in either place, or twice the same one.
Response(key, id, ca, t, status, validity, oddity) ==
  LET single == [id |-> kalkanOCSPCertID(ca), status |-> status, this |-> t,
                 next |-> IF validity = 0 THEN Never ELSE t + validity,
                 critical |-> oddity = "status", at |-> revoked]
  IN  [signer |-> key, responderID |-> id, produced |-> t,
       certs |-> {d \in Delegates : d.key = key},
       singles |-> IF oddity = "twice" THEN <<single, single>> ELSE <<single>>,
       critical |-> oddity = "response"]

\* The file of a trusted certificate is replaced or removed.  Once the issuer is
\* known, this and LoadTrusted matter only to a later call.
ReplaceFile(content) ==
  /\ call.pc # "check" /\ file # content
  /\ file' = content
  /\ UNCHANGED <<now, lag, revoked, trusted, call>>

\* A certificate is loaded from the file or from memory; a load that fails changes
\* nothing.  rememberTrustedCertificate keeps each path and each data once.
Remembered(ca, path) ==
  \E i \in DOMAIN trusted : trusted[i].path = path /\ (path \/ trusted[i].ca = ca)

LoadTrusted(ca, path) ==
  /\ call.pc # "check"
  /\ path => file = ca
  /\ \/ Remembered(ca, path) /\ UNCHANGED trusted
     \/ /\ ~Remembered(ca, path) /\ Len(trusted) < MaxTrusted
        /\ trusted' = Append(trusted, [ca |-> ca, path |-> path])
  /\ UNCHANGED <<now, lag, revoked, file, call>>

Cancel ==
  /\ call.pc # "idle"
  /\ call' = [call EXCEPT !.canceled = TRUE]
  /\ UNCHANGED <<now, lag, revoked, trusted, file>>

-----------------------------------------------------------------------------
(* validateCertificateOCSP *)

Return(outcome, revokedAt) ==
  /\ call' = [Idle EXCEPT !.outcome = outcome, !.revokedAt = revokedAt]
  /\ UNCHANGED <<now, lag, revoked, trusted, file>>

\* The request supplies the issuer, or leaves it to be found.
Validate(issuer) ==
  /\ call.pc = "idle" /\ now < MaxTime
  /\ IF issuer # None /\ ~checkOCSPIssuer(issuer)
     THEN Return("error", Never)
     ELSE /\ call' = [Idle EXCEPT !.pc = "native", !.issuer = issuer]
          /\ UNCHANGED <<now, lag, revoked, trusted, file>>

\* Under the gate: the trusted certificates are copied, the chain is validated.
NativeValidate(ok) ==
  /\ call.pc = "native"
  /\ IF ok
     THEN /\ call' = [call EXCEPT !.pc = "issuer",
                        !.copy = IF call.issuer = None THEN trusted ELSE <<>>]
          /\ UNCHANGED <<now, lag, revoked, trusted, file>>
     ELSE Return("error", Never)

FindIssuer ==
  /\ call.pc = "issuer"
  /\ LET issuer == IF call.issuer = None THEN findOCSPIssuer(call.copy) ELSE call.issuer
     IN  IF call.canceled \/ issuer = None
         THEN Return("error", Never)
         ELSE /\ call' = [call EXCEPT !.pc = "fetch", !.issuer = issuer, !.copy = <<>>,
                                      !.deadline = now + ocspTimeout]
              /\ UNCHANGED <<now, lag, revoked, trusted, file>>

\* fetchOCSP: a complete body arrives before the deadline, which may be that of
\* an old response.  A body over the limit is refused here; kalkanOCSPStatus
\* checks the limit once more.
Fetch(form, response) ==
  /\ call.pc = "fetch"
  /\ ~call.canceled /\ now <= call.deadline
  /\ IF form = "oversized"
     THEN Return("error", Never)
     ELSE /\ call' = [call EXCEPT !.pc = "check",
                                  !.answer = [form |-> form, response |-> response]]
          /\ UNCHANGED <<now, lag, revoked, trusted, file>>

\* The connection fails or the status is not 200; a redirect is not followed.
FetchFails ==
  /\ call.pc = "fetch"
  /\ Return("error", Never)

\* The context of the request is canceled or reaches its deadline.
FetchTimeout ==
  /\ call.pc = "fetch"
  /\ call.canceled \/ now >= call.deadline
  /\ Return("error", Never)

CheckResponse ==
  /\ call.pc = "check"
  /\ LET id == kalkanOCSPCertID(call.issuer)
         status == kalkanOCSPStatus(call.answer, id, call.issuer, Clock)
         at == {call.answer.response.singles[i].at : i \in Matching(call.answer.response, id)}
     IN  IF status = "error" \/ call.canceled THEN Return("error", Never)
         ELSE Return(status, IF status = "revoked" THEN CHOOSE t \in at : TRUE ELSE Never)

-----------------------------------------------------------------------------
Init ==
  /\ now = 0
  /\ lag \in Lags
  /\ revoked = Never
  /\ trusted = <<>>
  /\ file = Gone
  /\ call = Idle

World ==
  \/ Revoke
  \/ \E content \in Files : ReplaceFile(content)
  \/ \E ca \in CAs, path \in BOOLEAN : LoadTrusted(ca, path)
  \/ Cancel
  \/ /\ call.pc = "fetch"
     /\ \E key \in Keys, ca \in CAs, t \in 0..now :
        \E id \in ResponderIDs(key), status \in Statuses(key, ca, t) :
          \E form \in Forms, validity \in Validities,
             oddity \in {"none", "response", "status", "twice"} :
               Fetch(form, Response(key, id, ca, t, status, validity, oddity))
  \/ FetchFails

\* What the client does by itself.
Step ==
  \/ \E ok \in BOOLEAN : NativeValidate(ok)
  \/ FindIssuer
  \/ FetchTimeout
  \/ CheckResponse

Next ==
  \/ Tick
  \/ World
  \/ \E issuer \in CAs \cup {None} : Validate(issuer)
  \/ Step

Spec == Init /\ [][Next]_vars

-----------------------------------------------------------------------------
(* Properties *)

\* How long a statement can count, on the clock of the authorities.
Window ==
  LET longest == CHOOSE v \in Validities : \A w \in Validities : w <= v
  IN  lag + (IF longest > kalkanOCSPMaxAge THEN longest ELSE kalkanOCSPMaxAge)

Returns(outcome) == call.pc # "idle" /\ call'.pc = "idle" /\ call'.outcome = outcome

\* ValidateCertificate does not report a certificate as good that its own
\* authority revoked longer ago than the longest life of a statement, whatever
\* the network delivers, whoever signed it and whichever issuer was found.
GoodIsRecent ==
  [][Returns("good") => revoked = Never \/ now - revoked <= Window]_vars

\* The status that is reported was stated by the authority of the certificate,
\* or a responder it appointed, about that certificate: not by or about another
\* authority with the same name and a certificate with the same serial number,
\* whatever was loaded as trusted and whatever became of its file.  A revocation
\* that is reported happened, at the time it carries.
StatedByOwnAuthority ==
  [][/\ Returns("revoked") => revoked # Never /\ call'.revokedAt = revoked
     /\ Returns("good") \/ Returns("revoked") =>
          LET r == call.answer.response
          IN  /\ SpeaksFor(r.signer, Home, r.produced)
              /\ \E i \in DOMAIN r.singles : /\ r.singles[i].id.key = Home
                                             /\ r.singles[i].status = call'.outcome]_vars

\* A statement of the authority that arrives whole and that its signer still
\* vouches for is not refused because of the skew of the clocks.
HonestAnswerCounts ==
  [][call.pc = "check" /\ Returns("error") =>
       LET r == call.answer.response
           s == r.singles[1]
       IN  \/ call.canceled
           \/ call.answer.form # "whole"
           \/ r.critical \/ s.critical \/ Len(r.singles) # 1
           \/ r.signer # Home \/ s.id.key # Home
           \/ s.next = Never /\ Clock - s.this > kalkanOCSPMaxAge
           \/ s.next # Never /\ s.next <= Clock]_vars
=============================================================================
