---------------------------- MODULE NetworkProofs ----------------------------
(***************************************************************************)
(* Proofs about what a client does with the network, for any number of     *)
(* authorities, responders, policies and endpoints.  First OcspCheck: what *)
(* a certificate status that ValidateCertificate reports rests on.  Then   *)
(* Endpoints: a client contacts exactly what its endpoint policy permits.  *)
(***************************************************************************)
EXTENDS OcspCheck, Endpoints, FiniteSetTheorems, WellFoundedInduction, TLAPS

\* A nonempty set of naturals has a least element.
LEMMA Least ==
  ASSUME NEW S, S \subseteq Nat, S # {}
  PROVE  \E m \in S : \A k \in S : m <= k
  <1> DEFINE R == {ss \in Nat \X Nat : ss[1] < ss[2]}
  <1>1. IsWellFoundedOn(R, Nat)
    BY Zenon, NatLessThanWellFounded DEF OpToRel
  <1>2. PICK m \in S : \A k \in S : ~ (<<k, m>> \in R)
    <2> HIDE DEF R
    <2> QED BY Zenon, <1>1, WFMin
  <1>3. ASSUME NEW k \in S
        PROVE  m <= k
    <2>1. k \in Nat /\ m \in Nat
      BY Zenon
    <2>2. ~ (k < m)
      BY <1>2, <2>1, Zenon
    <2> QED BY <2>1, <2>2
  <1> QED BY Zenon, <1>3

-----------------------------------------------------------------------------
(* OcspCheck: the inductive invariant                                      *)

\* What a statement says of the certificate under validation is true now, if
\* its signer speaks for the authority: what was good then was not revoked
\* before, and what was revoked still is.
Truthful(r, s) ==
  s.id.key = Home /\ SpeaksFor(r.signer, Home, r.produced) =>
    \/ s.status = "good" /\ (revoked = Never \/ r.produced <= revoked)
    \/ s.status = "revoked" /\ revoked # Never /\ s.at = revoked

\* A response that arrived is one of those that a key may have made up to now.
Stated(r) ==
  /\ r.produced \in 0..now
  /\ r.responderID \in ResponderIDs(r.signer)
  /\ r.certs = {d \in Delegates : d.key = r.signer}
  /\ DOMAIN r.singles = 1..Len(r.singles) /\ Len(r.singles) \in {1, 2}
  /\ \A i \in 1..Len(r.singles) :
       /\ r.singles[i].this = r.produced
       /\ \/ r.singles[i].next = Never
          \/ \E v \in Validities : v > 0 /\ r.singles[i].next = r.produced + v
       /\ r.singles[i].id.name = CAName[r.singles[i].id.key]
       /\ Truthful(r, r.singles[i])

\* Only the authority of the certificate is taken for its issuer.
OcspInv ==
  /\ now \in Nat /\ lag \in Lags
  /\ trusted \in Seq([ca : CAs, path : BOOLEAN])
  /\ DOMAIN call = {"pc", "issuer", "copy", "deadline", "canceled", "answer", "outcome",
                    "revokedAt"}
  /\ call.copy \in Seq([ca : CAs, path : BOOLEAN])
  /\ revoked = Never \/ revoked \in 0..now
  /\ call.pc \in {"native", "issuer"} => call.issuer \in {None, Home}
  /\ call.pc \in {"fetch", "check"} => call.issuer = Home
  /\ call.pc = "check" => call.answer.form # "oversized" /\ Stated(call.answer.response)

-----------------------------------------------------------------------------
\* checkOCSPIssuer accepts no other authority, whatever was loaded as trusted and
\* whatever its file contains now.
LEMMA IssuerIsHome ==
  ASSUME NEW candidates \in Seq([ca : CAs, path : BOOLEAN]), findOCSPIssuer(candidates) # None
  PROVE  findOCSPIssuer(candidates) = Home
  <1> DEFINE usable == {i \in DOMAIN candidates :
                          LET ca == ocspTrustedCertificateBytes(candidates[i])
                          IN  ca # Gone /\ checkOCSPIssuer(ca)}
             first == CHOOSE i \in usable : \A j \in usable : i <= j
  <1>1. findOCSPIssuer(candidates) =
          IF usable = {} THEN None ELSE ocspTrustedCertificateBytes(candidates[first])
    BY Zenon DEF findOCSPIssuer
  <1>2. usable # {} /\ usable \subseteq Nat
    BY <1>1
  <1>3. \E i \in usable : \A j \in usable : i <= j
    <2> HIDE DEF usable
    <2> QED BY Zenon, <1>2, Least
  <1>4. first \in usable
    <2> HIDE DEF usable
    <2> QED BY Zenon, <1>3
  <1>5. checkOCSPIssuer(ocspTrustedCertificateBytes(candidates[first]))
    <2> HIDE DEF first
    <2> QED BY Zenon, <1>4
  <1> QED BY Zenon, <1>1, <1>2, <1>5 DEF checkOCSPIssuer

\* Every response that a key may have made is Stated.
LEMMA ResponseIsStated ==
  ASSUME OcspInv, NEW key \in Keys, NEW id \in ResponderIDs(key), NEW ca \in CAs, NEW t \in 0..now,
         NEW status \in Statuses(key, ca, t), NEW validity \in Validities, NEW oddity
  PROVE  Stated(Response(key, id, ca, t, status, validity, oddity))
  <1> DEFINE r == Response(key, id, ca, t, status, validity, oddity)
             single == [id |-> kalkanOCSPCertID(ca), status |-> status, this |-> t,
                        next |-> IF validity = 0 THEN Never ELSE t + validity,
                        critical |-> oddity = "status", at |-> revoked]
  <1>1. /\ r.signer = key /\ r.responderID = id /\ r.produced = t
        /\ r.certs = {d \in Delegates : d.key = key}
        /\ r.singles = IF oddity = "twice" THEN <<single, single>> ELSE <<single>>
    BY Zenon DEF Response
  <1>2. /\ single.this = t /\ single.status = status /\ single.at = revoked
        /\ single.id = kalkanOCSPCertID(ca)
        /\ single.next = IF validity = 0 THEN Never ELSE t + validity
    BY Zenon
  <1> HIDE DEF r, single
  <1>3. single.id.key = ca /\ single.id.name = CAName[single.id.key]
    BY <1>2 DEF kalkanOCSPCertID
  <1>4. DOMAIN r.singles = 1..Len(r.singles) /\ Len(r.singles) \in {1, 2}
    <2>1. CASE r.singles = <<single, single>>
      BY <2>1
    <2>2. CASE r.singles = <<single>>
      BY <2>2
    <2> QED BY Zenon, <1>1, <2>1, <2>2
  <1>5. \A i \in 1..Len(r.singles) : r.singles[i] = single
    BY <1>1
  <1>6. single.next = Never \/ \E v \in Validities : v > 0 /\ single.next = r.produced + v
    BY <1>1, <1>2, OcspAssumption
  <1>7. Truthful(r, single)
    BY Zenon, <1>1, <1>2, <1>3 DEF Truthful, Statuses
  <1> QED BY <1>1, <1>2, <1>3, <1>4, <1>5, <1>6, <1>7 DEF Stated, r

\* A response stays Stated while time passes and when the certificate is revoked.
LEMMA StatedLasts ==
  ASSUME OcspInv, NEW r, Stated(r), now' \in Nat, now <= now',
         revoked' = revoked \/ (revoked = Never /\ revoked' = now)
  PROVE  Stated(r)'
  <1>1. r.produced \in 0..now' /\ (revoked' # revoked => r.produced <= revoked')
    BY DEF Stated, OcspInv
  <1>2. SpeaksFor(r.signer, Home, r.produced)' <=> SpeaksFor(r.signer, Home, r.produced)
    BY Zenon DEF SpeaksFor
  <1>3. ASSUME NEW s, Truthful(r, s)
        PROVE  Truthful(r, s)'
    <2>1. CASE revoked' = revoked
      BY Zenon, <1>2, <1>3, <2>1 DEF Truthful
    <2>2. CASE revoked' # revoked
      BY Zenon, <1>1, <1>2, <1>3, <2>2 DEF Truthful
    <2> QED BY Zenon, <2>1, <2>2
  <1> QED BY Zenon, <1>1, <1>3 DEF Stated

\* Every action preserves OcspInv.
LEMMA OcspStep ==
  ASSUME OcspInv, [Next]_vars
  PROVE  OcspInv'
  <1> USE OcspAssumption
  <1>1. ASSUME NEW outcome, NEW revokedAt, Return(outcome, revokedAt)
        PROVE  OcspInv'
    BY <1>1 DEF Return, Idle, OcspInv, Never
  <1>2. CASE Tick
    BY <1>2, StatedLasts DEF Tick, OcspInv
  <1>3. CASE Revoke
    BY <1>3, StatedLasts DEF Revoke, OcspInv, Never
  <1>4. ASSUME NEW content \in Files, ReplaceFile(content)
        PROVE  OcspInv'
    BY Zenon, <1>4 DEF ReplaceFile, OcspInv, Never
  <1>5. ASSUME NEW ca \in CAs, NEW path \in BOOLEAN, LoadTrusted(ca, path)
        PROVE  OcspInv'
    <2>1. trusted \in Seq([ca : CAs, path : BOOLEAN])
      BY Zenon DEF OcspInv
    <2>2. Append(trusted, [ca |-> ca, path |-> path]) \in Seq([ca : CAs, path : BOOLEAN])
      BY <2>1
    <2> QED BY Zenon, <1>5, <2>1, <2>2 DEF LoadTrusted, OcspInv
  <1>6. CASE Cancel
    BY <1>6, StatedLasts DEF Cancel, OcspInv, Never
  <1>7. ASSUME NEW key \in Keys, NEW id \in ResponderIDs(key), NEW ca \in CAs, NEW t \in 0..now,
               NEW status \in Statuses(key, ca, t), NEW form \in Forms, NEW validity \in Validities,
               NEW oddity \in {"none", "response", "status", "twice"},
               Fetch(form, Response(key, id, ca, t, status, validity, oddity))
        PROVE  OcspInv'
    <2>1. PICK r : r = Response(key, id, ca, t, status, validity, oddity)
      BY Zenon
    <2>2. Stated(r)
      BY Zenon, <2>1, ResponseIsStated
    <2>3. CASE form # "oversized"
      <3>1. /\ call' = [call EXCEPT !.pc = "check", !.answer = [form |-> form, response |-> r]]
            /\ UNCHANGED <<now, lag, revoked, trusted, file>> /\ call.pc = "fetch"
        BY Zenon, <1>7, <2>1, <2>3 DEF Fetch
      <3>2. Stated(r)'
        BY <2>2, <3>1, StatedLasts DEF OcspInv
      <3>3. /\ call'.answer.response = r /\ call'.answer.form = form /\ call'.pc = "check"
            /\ call'.issuer = call.issuer /\ call'.copy = call.copy
            /\ DOMAIN call' = DOMAIN call
        BY Zenon, <3>1 DEF OcspInv
      <3> QED BY Zenon, <2>3, <3>1, <3>2, <3>3 DEF OcspInv, Never
    <2> QED BY Zenon, <1>1, <1>7, <2>3 DEF Fetch
  <1>8. ASSUME NEW issuer \in CAs \cup {None}, Validate(issuer)
        PROVE  OcspInv'
    <2>1. CASE issuer # None /\ ~checkOCSPIssuer(issuer)
      BY Zenon, <1>1, <1>8, <2>1 DEF Validate
    <2>2. CASE ~(issuer # None /\ ~checkOCSPIssuer(issuer))
      <3>1. /\ call' = [Idle EXCEPT !.pc = "native", !.issuer = issuer]
            /\ UNCHANGED <<now, lag, revoked, trusted, file>>
        BY Zenon, <1>8, <2>2 DEF Validate
      <3>2. issuer \in {None, Home}
        BY Zenon, <2>2 DEF checkOCSPIssuer
      <3> QED BY <3>1, <3>2 DEF Idle, OcspInv, Never
    <2> QED BY Zenon, <2>1, <2>2
  <1>9. ASSUME NEW ok \in BOOLEAN, NativeValidate(ok)
        PROVE  OcspInv'
    <2>1. CASE ~ok
      BY Zenon, <1>1, <1>9, <2>1 DEF NativeValidate
    <2>2. CASE ok
      <3>1. /\ call' = [call EXCEPT !.pc = "issuer",
                                    !.copy = IF call.issuer = None THEN trusted ELSE <<>>]
            /\ UNCHANGED <<now, lag, revoked, trusted, file>> /\ call.pc = "native"
        BY Zenon, <1>9, <2>2 DEF NativeValidate
      <3> QED BY <3>1 DEF OcspInv, Never
    <2> QED BY Zenon, <2>1, <2>2
  <1>10. CASE FindIssuer
    <2> DEFINE issuer == IF call.issuer = None THEN findOCSPIssuer(call.copy) ELSE call.issuer
    <2>1. CASE call.canceled \/ issuer = None
      BY Zenon, <1>1, <1>10, <2>1 DEF FindIssuer
    <2>2. CASE ~(call.canceled \/ issuer = None)
      <3>1. /\ call' = [call EXCEPT !.pc = "fetch", !.issuer = issuer, !.copy = <<>>,
                                    !.deadline = now + ocspTimeout]
            /\ UNCHANGED <<now, lag, revoked, trusted, file>> /\ call.pc = "issuer"
        BY Zenon, <1>10, <2>2 DEF FindIssuer
      <3>2. issuer = Home
        BY Zenon, <2>2, <3>1, IssuerIsHome DEF OcspInv
      <3> HIDE DEF issuer
      <3> QED BY <3>1, <3>2 DEF OcspInv, Never
    <2> QED BY Zenon, <2>1, <2>2
  <1>11. CASE FetchFails \/ FetchTimeout
    BY Zenon, <1>1, <1>11 DEF FetchFails, FetchTimeout
  <1>12. CASE CheckResponse
    BY Zenon, <1>1, <1>12 DEF CheckResponse
  <1>13. CASE UNCHANGED vars
    BY Zenon, <1>13 DEF vars, OcspInv, Stated, Truthful
  <1> QED
    BY <1>2, <1>3, <1>4, <1>5, <1>6, <1>7, <1>8, <1>9, <1>10, <1>11, <1>12, <1>13
       DEF Next, World, Step

\* Every reachable state satisfies OcspInv.
LEMMA OcspInvariance == Spec => []OcspInv
  <1>1. Init => OcspInv
    BY OcspAssumption DEF Init, Idle, OcspInv, Never
  <1> QED BY <1>1, OcspStep, PTL DEF Spec

-----------------------------------------------------------------------------
(* OcspCheck: what a status that is reported rests on                      *)

\* A status that kalkanOCSPStatus reports is stated once in the response, about
\* the certificate under validation, in time, and by a key that speaks for its
\* authority.
LEMMA StatusIsStated ==
  ASSUME OcspInv, call.pc = "check",
         NEW status, status # "error",
         status = kalkanOCSPStatus(call.answer, kalkanOCSPCertID(Home), Home, Clock)
  PROVE  LET r == call.answer.response
         IN  /\ SpeaksFor(r.signer, Home, r.produced)
             /\ \E i \in 1..Len(r.singles) :
                  /\ Matching(r, kalkanOCSPCertID(Home)) = {i}
                  /\ r.singles[i].id.key = Home /\ r.singles[i].status = status
                  /\ r.singles[i].next = Never => Clock - r.produced <= kalkanOCSPMaxAge
                  /\ r.singles[i].next # Never => r.singles[i].next > Clock
  <1> DEFINE r == call.answer.response
             found == Matching(r, kalkanOCSPCertID(Home))
  <1> USE OcspAssumption
  <1>1. /\ kalkanOCSPSigner(call.answer, Home, Clock)
        /\ found # {} /\ \A i, j \in found : i = j
        /\ status = kalkanOCSPSingleStatus(r.singles[CHOOSE i \in found : TRUE], Clock)
    BY Zenon DEF kalkanOCSPStatus
  <1>2. PICK i : found = {i} /\ i = CHOOSE j \in found : TRUE
    <2> HIDE DEF found
    <2> QED BY Zenon, <1>1
  <1>3. /\ i \in 1..Len(r.singles) /\ r.singles[i].id.key = Home
        /\ r.singles[i].this = r.produced
    <2>1. i \in DOMAIN r.singles /\ matches(kalkanOCSPCertID(Home), r.singles[i].id)
      BY Zenon, <1>2 DEF Matching
    <2> QED BY Zenon, <2>1 DEF matches, kalkanOCSPCertID, OcspInv, Stated
  <1>4. status = kalkanOCSPSingleStatus(r.singles[i], Clock)
    BY Zenon, <1>1, <1>2
  <1>5. Clock \in Int /\ r.produced \in Int /\ now \in Nat /\ lag \in Int
    BY DEF Clock, OcspInv, Stated
  <1>6. /\ r.singles[i].status = status
        /\ ~(r.singles[i].this > Clock + kalkanRevocationClockSkew)
        /\ r.singles[i].next = Never => ~(Clock - r.singles[i].this > kalkanOCSPMaxAge)
        /\ r.singles[i].next # Never => ~(r.singles[i].next <= Clock)
    <2> HIDE DEF r
    <2> QED BY Zenon, <1>4 DEF kalkanOCSPSingleStatus
  <1>7. r.singles[i].next = Never \/ r.singles[i].next \in Int
    <2>1. \/ r.singles[i].next = Never
          \/ \E v \in Validities : v > 0 /\ r.singles[i].next = r.produced + v
      BY Zenon, <1>3 DEF OcspInv, Stated
    <2> HIDE DEF r
    <2> QED BY <1>5, <2>1
  <1>8. SpeaksFor(r.signer, Home, r.produced)
    <2>1. CASE CheckSignature(Home, call.answer)
      BY Zenon, <2>1 DEF CheckSignature, SpeaksFor
    <2>2. CASE ~CheckSignature(Home, call.answer)
      <3>1. PICK d \in r.certs :
               /\ kalkanCertificateValidAt(d, Clock) /\ d.ocspSigning /\ ~d.critical
               /\ kalkanOCSPDigitalSignatureAllowed(d) /\ d.ca = Home
               /\ CheckSignature(d.key, call.answer)
        BY Zenon, <1>1, <2>2 DEF kalkanOCSPSigner
      <3>2. d \in Delegates /\ d.key = r.signer
        BY Zenon, <3>1 DEF OcspInv, Stated
      <3>3. Clock <= d.notAfter /\ d.notAfter \in Int
        BY Zenon, <3>1, <3>2 DEF kalkanCertificateValidAt
      <3>4. r.produced <= d.notAfter + kalkanRevocationClockSkew
        BY <1>3, <1>5, <1>6, <3>3
      <3> QED BY Zenon, <3>1, <3>2, <3>4 DEF SpeaksFor
    <2> QED BY Zenon, <2>1, <2>2
  <1>9. /\ r.singles[i].next = Never => Clock - r.produced <= kalkanOCSPMaxAge
        /\ r.singles[i].next # Never => r.singles[i].next > Clock
    <2> HIDE DEF r
    <2> QED BY <1>3, <1>5, <1>6, <1>7
  <1> QED BY Zenon, <1>2, <1>3, <1>6, <1>8, <1>9

\* Nothing but the check of a response returns a status.
LEMMA OnlyCheckReports ==
  ASSUME OcspInv, [Next]_vars, NEW outcome, outcome # "error", Returns(outcome)
  PROVE  /\ call.pc = "check" /\ CheckResponse
         /\ outcome = kalkanOCSPStatus(call.answer, kalkanOCSPCertID(Home), Home, Clock)
         /\ UNCHANGED <<now, lag, revoked>>
         /\ outcome = "revoked" =>
              call'.revokedAt =
                CHOOSE t \in {call.answer.response.singles[i].at :
                                i \in Matching(call.answer.response, kalkanOCSPCertID(Home))} : TRUE
  <1> USE DEF Returns, OcspInv
  <1>1. ASSUME NEW any, Return("error", any) PROVE FALSE
    BY Zenon, <1>1 DEF Return, Idle
  <1>2. CheckResponse
    <2>1. ~Tick /\ ~Revoke /\ ~Cancel /\ ~(UNCHANGED vars)
      BY Zenon DEF Tick, Revoke, Cancel, vars
    <2>2. \A content, ca, path : ~ReplaceFile(content) /\ ~LoadTrusted(ca, path)
      BY Zenon DEF ReplaceFile, LoadTrusted
    <2>3. \A form, response : ~Fetch(form, response)
      BY Zenon, <1>1 DEF Fetch
    <2>4. ~FetchFails /\ ~FetchTimeout
      BY Zenon, <1>1 DEF FetchFails, FetchTimeout
    <2>5. \A issuer : ~Validate(issuer)
      BY Zenon DEF Validate
    <2>6. \A ok : ~NativeValidate(ok)
      BY Zenon, <1>1 DEF NativeValidate
    <2>7. ~FindIssuer
      BY Zenon, <1>1 DEF FindIssuer
    <2> HIDE DEF OcspInv, Returns
    <2> QED BY Zenon, <2>1, <2>2, <2>3, <2>4, <2>5, <2>6, <2>7 DEF Next, World, Step
  <1> DEFINE id == kalkanOCSPCertID(call.issuer)
             status == kalkanOCSPStatus(call.answer, id, call.issuer, Clock)
             at == {call.answer.response.singles[i].at : i \in Matching(call.answer.response, id)}
  <1>3. call.pc = "check" /\ call.issuer = Home
    BY Zenon, <1>2 DEF CheckResponse
  <1>4. Return(status, IF status = "revoked" THEN CHOOSE t \in at : TRUE ELSE Never)
    BY Zenon, <1>1, <1>2 DEF CheckResponse
  <1>5. /\ call'.outcome = status /\ UNCHANGED <<now, lag, revoked>>
        /\ call'.revokedAt = IF status = "revoked" THEN CHOOSE t \in at : TRUE ELSE Never
    <2> HIDE DEF status, at
    <2> QED BY Zenon, <1>4 DEF Return, Idle
  <1> QED BY Zenon, <1>2, <1>3, <1>5

-----------------------------------------------------------------------------
(* OcspCheck: the theorems                                                 *)

\* ValidateCertificate reports a certificate as good only within the life of a
\* statement that its own authority made before it revoked the certificate: for
\* any authorities, delegates, files, clocks within the skew and responses.
THEOREM Recent == Spec => GoodIsRecent
  <1> DEFINE Goal == Returns("good") => revoked = Never \/ now - revoked <= Window
  <1>1. OcspInv /\ [Next]_vars => Goal
    <2> SUFFICES ASSUME OcspInv, [Next]_vars, Returns("good"), revoked # Never
                 PROVE  now - revoked <= Window
      BY Zenon
    <2> DEFINE r == call.answer.response
    <2>1. /\ call.pc = "check"
          /\ "good" = kalkanOCSPStatus(call.answer, kalkanOCSPCertID(Home), Home, Clock)
      BY Zenon, OnlyCheckReports
    <2>2. /\ SpeaksFor(r.signer, Home, r.produced)
          /\ \E i \in 1..Len(r.singles) :
               /\ r.singles[i].id.key = Home /\ r.singles[i].status = "good"
               /\ r.singles[i].next = Never => Clock - r.produced <= kalkanOCSPMaxAge
               /\ r.singles[i].next # Never => r.singles[i].next > Clock
      BY Zenon, <2>1, StatusIsStated
    <2>3. PICK i \in 1..Len(r.singles) :
             /\ r.singles[i].id.key = Home /\ r.singles[i].status = "good"
             /\ r.singles[i].next = Never => Clock - r.produced <= kalkanOCSPMaxAge
             /\ r.singles[i].next # Never => r.singles[i].next > Clock
      BY Zenon, <2>2
    <2>4. /\ Truthful(r, r.singles[i]) /\ r.produced \in 0..now
          /\ \/ r.singles[i].next = Never
             \/ \E v \in Validities : v > 0 /\ r.singles[i].next = r.produced + v
      BY Zenon, <2>1 DEF OcspInv, Stated
    <2>5. r.produced <= revoked /\ revoked \in 0..now
      BY Zenon, <2>2, <2>3, <2>4 DEF Truthful, OcspInv
    <2> kalkanOCSPMaxAge \in Nat /\ Validities \subseteq Nat
      BY Zenon, OcspAssumption
    <2> DEFINE longest == CHOOSE v \in Validities : \A w \in Validities : w <= v
    <2>6. longest \in Nat /\ \A w \in Validities : w <= longest
      BY Zenon, OcspAssumption
    <2> HIDE DEF r, longest
    <2>7. Window = lag + (IF longest > kalkanOCSPMaxAge THEN longest ELSE kalkanOCSPMaxAge)
      BY Zenon DEF Window, longest
    <2>8. now \in Nat /\ lag \in Int /\ Clock = now - lag
      BY Zenon, OcspAssumption DEF OcspInv, Clock
    <2>9. CASE r.singles[i].next = Never
      <3>1. Clock - r.produced <= kalkanOCSPMaxAge /\ r.produced \in Nat
        BY <2>3, <2>4, <2>8, <2>9
      <3> QED BY <2>5, <2>6, <2>7, <2>8, <3>1
    <2>10. CASE r.singles[i].next # Never
      <3>1. PICK v \in Validities : r.singles[i].next = r.produced + v
        BY Zenon, <2>4, <2>10
      <3>2. r.produced + v > Clock /\ v <= longest /\ v \in Nat /\ r.produced \in Nat
        BY <2>3, <2>4, <2>6, <2>8, <2>10, <3>1
      <3> QED BY <2>5, <2>6, <2>7, <2>8, <3>2
    <2> QED BY Zenon, <2>9, <2>10
  <1> QED BY <1>1, OcspInvariance, PTL DEF Spec, GoodIsRecent

\* A status that is reported was stated, about the certificate under validation,
\* by its own authority or by a responder that the authority appointed; and a
\* revocation that is reported happened, at the time it carries.
THEOREM OwnAuthority == Spec => StatedByOwnAuthority
  <1> DEFINE Goal ==
        /\ Returns("revoked") => revoked # Never /\ call'.revokedAt = revoked
        /\ Returns("good") \/ Returns("revoked") =>
             LET r == call.answer.response
             IN  /\ SpeaksFor(r.signer, Home, r.produced)
                 /\ \E i \in DOMAIN r.singles : /\ r.singles[i].id.key = Home
                                                /\ r.singles[i].status = call'.outcome
  <1>1. OcspInv /\ [Next]_vars => Goal
    <2> SUFFICES ASSUME OcspInv, [Next]_vars, NEW outcome \in {"good", "revoked"}, Returns(outcome)
                 PROVE  Goal
      BY Zenon
    <2> DEFINE r == call.answer.response
               found == Matching(r, kalkanOCSPCertID(Home))
    <2>1. /\ call.pc = "check" /\ call'.outcome = outcome
          /\ outcome = kalkanOCSPStatus(call.answer, kalkanOCSPCertID(Home), Home, Clock)
          /\ outcome = "revoked" => call'.revokedAt = CHOOSE t \in {r.singles[i].at : i \in found} : TRUE
      BY Zenon, OnlyCheckReports DEF Returns
    <2>2. SpeaksFor(r.signer, Home, r.produced)
      BY Zenon, <2>1, StatusIsStated
    <2>3. PICK i \in 1..Len(r.singles) :
             found = {i} /\ r.singles[i].id.key = Home /\ r.singles[i].status = outcome
      BY Zenon, <2>1, StatusIsStated
    <2>4. Truthful(r, r.singles[i]) /\ DOMAIN r.singles = 1..Len(r.singles)
      BY Zenon, <2>1 DEF OcspInv, Stated
    <2>5. outcome = "revoked" => revoked # Never /\ r.singles[i].at = revoked
      BY Zenon, <2>2, <2>3, <2>4 DEF Truthful
    <2>6. {r.singles[j].at : j \in found} = {r.singles[i].at}
      BY Zenon, <2>3
    <2> HIDE DEF r, found
    <2>7. outcome = "revoked" => call'.revokedAt = revoked
      BY Zenon, <2>1, <2>5, <2>6
    <2> QED BY Zenon, <2>1, <2>2, <2>3, <2>4, <2>5, <2>7 DEF Returns, r
  <1> QED BY <1>1, OcspInvariance, PTL DEF Spec, StatedByOwnAuthority

\* Clocks that differ by no more than the tolerated skew never make the client
\* refuse a whole and current statement of the authority itself.
THEOREM HonestAnswers == Spec => HonestAnswerCounts
  <1> DEFINE r == call.answer.response
             s == r.singles[1]
             Goal == call.pc = "check" /\ Returns("error") =>
                       \/ call.canceled
                       \/ call.answer.form # "whole"
                       \/ r.critical \/ s.critical \/ Len(r.singles) # 1
                       \/ r.signer # Home \/ s.id.key # Home
                       \/ s.next = Never /\ Clock - s.this > kalkanOCSPMaxAge
                       \/ s.next # Never /\ s.next <= Clock
  <1>1. OcspInv /\ [Next]_vars => Goal
    <2> SUFFICES ASSUME OcspInv, [Next]_vars, call.pc = "check", Returns("error"), ~call.canceled,
                        call.answer.form = "whole", ~r.critical, ~s.critical, Len(r.singles) = 1,
                        r.signer = Home, s.id.key = Home,
                        s.next = Never => ~(Clock - s.this > kalkanOCSPMaxAge),
                        s.next # Never => ~(s.next <= Clock)
                 PROVE  FALSE
      BY Zenon
    <2> USE OcspAssumption
    <2> DEFINE id == kalkanOCSPCertID(Home)
               status == kalkanOCSPStatus(call.answer, id, Home, Clock)
    <2>1. CheckResponse /\ call.issuer = Home
      BY Zenon DEF Next, World, Step, Tick, Revoke, ReplaceFile, LoadTrusted, Cancel, Validate,
             NativeValidate, FindIssuer, FetchFails, FetchTimeout, Fetch, vars, Returns, OcspInv
    <2>2. /\ s.this = r.produced /\ s.id.name = CAName[Home] /\ DOMAIN r.singles = {1}
          /\ r.responderID \in ResponderIDs(Home) /\ r.produced \in 0..now
          /\ s.next = Never \/ \E v \in Validities : v > 0 /\ s.next = r.produced + v
          /\ Truthful(r, s)
      <3>1. Stated(r)
        BY Zenon DEF OcspInv
      <3> HIDE DEF r
      <3>2. DOMAIN r.singles = 1..1 /\ 1 \in 1..Len(r.singles)
        BY <3>1 DEF Stated
      <3> QED BY <3>1, <3>2 DEF Stated
    <2>3. s.status \in {"good", "revoked"}
      BY Zenon, <2>2 DEF Truthful, SpeaksFor
    <2>4. Matching(r, id) = {1}
      BY Zenon, <2>2 DEF Matching, matches, kalkanOCSPCertID
    <2>5. kalkanOCSPSigner(call.answer, Home, Clock)
      <3>1. \A i \in ResponderIDs(Home) : kalkanOCSPResponderMatches(i, Certificate(Home))
        BY DEF kalkanOCSPResponderMatches, ResponderIDs, Certificate
      <3>2. CheckSignature(Home, call.answer)
        BY Zenon DEF CheckSignature
      <3> QED BY <2>2, <3>1, <3>2 DEF kalkanOCSPSigner
    <2>6. /\ now \in Nat /\ lag \in Int /\ lag <= kalkanRevocationClockSkew /\ Clock = now - lag
          /\ kalkanRevocationClockSkew \in Nat
      BY Zenon DEF OcspInv, Clock
    <2> HIDE DEF s
    <2>7. ~(s.this > Clock + kalkanRevocationClockSkew)
      BY <2>2, <2>6
    <2>8. s.next # Never => ~(s.next <= s.this)
      BY <2>2, <2>6
    <2>9. kalkanOCSPSingleStatus(s, Clock) = s.status
      BY Zenon, <2>3, <2>7, <2>8 DEF kalkanOCSPSingleStatus
    <2>10. status = s.status
      <3>1. (CHOOSE i \in {1} : TRUE) = 1
        BY Zenon
      <3>2. ~(r.produced > Clock + kalkanRevocationClockSkew)
        BY Zenon, <2>2, <2>7
      <3> QED BY Zenon, <2>4, <2>5, <2>9, <3>1, <3>2 DEF kalkanOCSPStatus, s
    <2> HIDE DEF status
    <2>11. call'.outcome = "error" /\ status # "error"
      BY Zenon, <2>3, <2>10 DEF Returns
    <2>12. \E at : Return(status, at)
      BY Zenon, <2>1, <2>11 DEF CheckResponse, status, id
    <2> QED BY Zenon, <2>11, <2>12 DEF Return, Idle
  <1> QED BY <1>1, OcspInvariance, PTL DEF Spec, HonestAnswerCounts

-----------------------------------------------------------------------------
(* Endpoints                                                               *)

\* The configured policy is the one that was promised, and an open client has
\* checked it and both of its own endpoints against it.
PolicyInv ==
  /\ phase \in {"options", "applied", "open"}
  /\ option # NoPolicy => option = Held(promised)
  /\ config.policy # NoPolicy => config.policy = Held(promised)
  /\ phase = "options" => config.policy = NoPolicy
  /\ phase # "open" => last = NoEvent
  /\ phase = "open" /\ config.policy # NoPolicy =>
       validate(promised) /\ Permits(promised, config.tsa) /\ Permits(promised, config.ocsp)

\* A valid port of a policy is a valid port of a URL.
LEMMA PortRange ==
  ASSUME NEW p \in 1..MaxPort
  PROVE  p \in 0..MaxPort
  <1>1. p \in Int /\ 1 <= p /\ p <= MaxPort
    OBVIOUS
  <1> QED BY <1>1

\* validateEndpoint, after the checks of the URL's text, decides what the
\* documentation of EndpointPolicy says, for a policy that validate accepts.
LEMMA PolicyExact ==
  ASSUME NEW policy, Held(policy) # NoPolicy, validate(policy), NEW url
  PROVE  normalizeNativeHTTPURLWithPolicy(url, Held(policy)) <=> Permits(policy, url)
  <1>1. Deref(Held(policy)) = policy
    BY Zenon DEF Deref, Held
  <1> DEFINE port == IF url.port = NoPort THEN StandardPort(url) ELSE url.port
             Listed == IF policy.ports = {} THEN port = StandardPort(url) ELSE port \in policy.ports
  <1>2. effectivePort(url) = port /\ defaultHTTPPort(url.scheme) = StandardPort(url)
    BY Zenon DEF effectivePort, defaultHTTPPort, StandardPort
  <1>3. \A p \in policy.ports : p \in 1..MaxPort
    BY Zenon DEF validate
  <1>4. StandardPort(url) \in 1..MaxPort
    BY SMT DEF StandardPort, MaxPort
  <1>5. Listed => port \in 0..MaxPort
    BY <1>3, <1>4, PortRange, Zenon
  <1>6. ASSUME normalizeNativeHTTPURLWithPolicy(url, Held(policy))
        PROVE  Permits(policy, url)
    <2>1. /\ url.form = "url" /\ url.scheme \in {"http", "https"}
          /\ validateEndpoint(policy, url)
      BY Zenon, <1>1, <1>6 DEF normalizeNativeHTTPURLWithPolicy
    <2>2. Listed
      BY Zenon, <1>2, <2>1 DEF validateEndpoint
    <2>3. \E host \in policy.hosts : host.name = url.host.name
      BY Zenon, <2>1 DEF validateEndpoint, normalizePolicyHost
    <2>4. /\ ~url.user /\ ~url.fragment
          /\ policy.requireHTTPS => url.scheme = "https"
          /\ url.host.name = "ip" => policy.allowIP
          /\ url.host.name \notin {"zone", "unusable"}
      BY Zenon, <2>1 DEF validateEndpoint, normalizePolicyHost, hostIsRefused, IsIP
    <2> QED BY Zenon, <2>1, <2>2, <2>3, <2>4 DEF Permits
  <1>7. ASSUME Permits(policy, url)
        PROVE  normalizeNativeHTTPURLWithPolicy(url, Held(policy))
    <2>1. Listed
      BY Zenon, <1>7 DEF Permits
    <2>2. \E h \in policy.hosts : ~hostIsRefused(h) /\ normalizePolicyHost(h) = normalizePolicyHost(url.host)
      BY Zenon, <1>7 DEF Permits, normalizePolicyHost, hostIsRefused
    <2>3. /\ ~url.user /\ ~url.fragment /\ url.form = "url" /\ url.scheme \in {"http", "https"}
          /\ policy.requireHTTPS => url.scheme = "https"
          /\ ~hostIsRefused(url.host)
          /\ normalizePolicyHost(url.host) # "zone"
          /\ IsIP(normalizePolicyHost(url.host)) => policy.allowIP
      BY Zenon, <1>7 DEF Permits, normalizePolicyHost, hostIsRefused, IsIP
    <2>4. validateEndpoint(policy, url)
      <3>1. effectivePort(url) \in 0..MaxPort
        BY Zenon, <1>2, <1>5, <2>1
      <3>2. IF policy.ports = {} THEN effectivePort(url) = defaultHTTPPort(url.scheme)
            ELSE \E p \in policy.ports : p = effectivePort(url)
        BY Zenon, <1>2, <2>1
      <3> HIDE DEF port
      <3> QED BY Zenon, <2>2, <2>3, <3>1, <3>2 DEF validateEndpoint
    <2>5. url.port = NoPort \/ url.port \in 0..MaxPort
      BY Zenon, <1>5, <2>1
    <2> QED BY Zenon, <1>1, <2>3, <2>4, <2>5 DEF normalizeNativeHTTPURLWithPolicy
  <1> QED BY Zenon, <1>6, <1>7

\* No text is refused that the policy permits, and none accepted that it does not.
LEMMA SourceExact ==
  ASSUME PolicyInv, phase = "open", config.policy # NoPolicy, NEW url
  PROVE  normalizeNativeHTTPURLWithPolicy(url, config.policy) <=> Permits(promised, url)
  <1>1. config.policy = Held(promised) /\ validate(promised)
    BY Zenon DEF PolicyInv
  <1>2. Held(promised) # NoPolicy
    BY Zenon, <1>1
  <1> QED BY <1>1, <1>2, PolicyExact, Zenon

\* Every action preserves PolicyInv: the caller's variable is not part of it.
LEMMA PolicyStep ==
  ASSUME PolicyInv, [PolicyNext]_policyVars
  PROVE  PolicyInv'
  <1>1. ASSUME NEW policy \in Policies, ChangeMine(policy)
        PROVE  PolicyInv'
    BY Zenon, <1>1 DEF ChangeMine, PolicyInv
  <1>2. CASE WithEndpointPolicy
    BY Zenon, <1>2 DEF WithEndpointPolicy, PolicyInv
  <1>3. CASE ApplyPolicy
    BY <1>3 DEF ApplyPolicy, PolicyInv
  <1>4. ASSUME NEW field \in {"tsa", "ocsp"}, NEW url \in Configured, ApplyURL(field, url)
        PROVE  PolicyInv'
    BY <1>4 DEF ApplyURL, PolicyInv
  <1>5. CASE WithCustomOCSP
    BY <1>5 DEF WithCustomOCSP, PolicyInv
  <1>6. CASE Open
    <2>1. CASE configIsValid /\ config.policy # NoPolicy
      <3>1. config.policy = Held(promised)
        BY Zenon, <2>1 DEF PolicyInv
      <3>2. Deref(Held(promised)) = promised
        BY Zenon DEF Deref, Held
      <3>3. Held(promised) # NoPolicy /\ validate(promised)
        BY <2>1, <3>1, <3>2, Zenon DEF configIsValid
      <3>4. /\ normalizeNativeHTTPURLWithPolicy(config.tsa, Held(promised))
            /\ normalizeNativeHTTPURLWithPolicy(config.ocsp, Held(promised))
        BY <2>1, <3>1, Zenon DEF configIsValid
      <3>5. Permits(promised, config.tsa) /\ Permits(promised, config.ocsp)
        BY <3>3, <3>4, PolicyExact, Zenon
      <3> QED BY Zenon, <1>6, <2>1, <3>3, <3>5 DEF Open, PolicyInv
    <2>2. CASE ~configIsValid
      BY <1>6, <2>2 DEF Open, PolicyInv, DefaultConfig
    <2>3. CASE config.policy = NoPolicy
      BY <1>6, <2>3 DEF Open, PolicyInv, DefaultConfig
    <2> QED BY Zenon, <2>1, <2>2, <2>3
  <1>7. ASSUME NEW mode \in Modes, NEW source \in URLs \cup {Empty},
               NEW issuer \in BOOLEAN, NEW response \in BOOLEAN,
               ValidateCertificate(mode, source, issuer, response)
        PROVE  PolicyInv'
    BY Zenon, <1>7 DEF ValidateCertificate, PolicyInv
  <1>8. CASE Close
    BY Zenon, <1>8 DEF Close, PolicyInv, DefaultConfig
  <1>9. CASE UNCHANGED policyVars
    BY Zenon, <1>9 DEF policyVars, PolicyInv
  <1> QED BY Zenon, <1>1, <1>2, <1>3, <1>4, <1>5, <1>6, <1>7, <1>8, <1>9 DEF PolicyNext

\* Whatever the order of the options, and whatever the caller does to the slices
\* of its policy afterwards, a client contacts only what WithEndpointPolicy was
\* told to permit, and refuses no permitted responder (endpoint_policy.go,
\* option.go, validate.go).
THEOREM OnlyPermitted == PolicySpec => []ContactsArePermitted
  <1> DEFINE Inv == PolicyInv /\ ContactsArePermitted
  <1>1. PolicyInit => Inv
    BY DEF PolicyInit, PolicyInv, ContactsArePermitted, DefaultConfig, NoEvent
  <1>2. Inv /\ [PolicyNext]_policyVars => Inv'
    <2> SUFFICES ASSUME Inv, [PolicyNext]_policyVars
                 PROVE  ContactsArePermitted'
      BY Zenon, PolicyStep
    <2>1. ASSUME NEW mode \in Modes, NEW source \in URLs \cup {Empty},
                 NEW issuer \in BOOLEAN, NEW response \in BOOLEAN,
                 ValidateCertificate(mode, source, issuer, response)
          PROVE  ContactsArePermitted'
      <3> SUFFICES ASSUME config.policy # NoPolicy, last' # last
                   PROVE  ContactsArePermitted'
        BY Zenon, <2>1 DEF ValidateCertificate, ContactsArePermitted
      <3>1. phase = "open" /\ UNCHANGED <<promised, config>>
        BY Zenon, <2>1 DEF ValidateCertificate
      <3>2. source # Empty /\ mode = "OCSP" =>
              (SourceIsAccepted(mode, source) <=> Permits(promised, source))
        BY Zenon, <3>1, SourceExact DEF SourceIsAccepted
      <3>3. CASE requestIsAccepted(mode, source, issuer, response)
        <4>1. /\ mode = "OCSP" /\ SourceIsAccepted(mode, source)
              /\ last'.kind = "contact" /\ last'.url = revocationSource(source)
          BY <2>1, <3>3 DEF ValidateCertificate, requestIsAccepted, Contact
        <4>2. Permits(promised, revocationSource(source))
          BY Zenon, <3>1, <3>2, <4>1 DEF revocationSource, PolicyInv
        <4> QED BY Zenon, <3>1, <4>1, <4>2 DEF ContactsArePermitted
      <3>4. CASE ~requestIsAccepted(mode, source, issuer, response)
        <4>1. last' = Refusal(mode, source, issuer)
          BY Zenon, <2>1, <3>4 DEF ValidateCertificate
        <4>2. ~ /\ mode = "OCSP"
                /\ issuer => config.custom
                /\ source # Empty
                /\ Permits(promised, source)
          BY Zenon, <3>2, <3>4 DEF requestIsAccepted
        <4>3. /\ last'.kind = "refusal" /\ last'.mode = mode
              /\ last'.issuer = issuer /\ last'.url = source
          BY Zenon, <4>1 DEF Refusal
        <4> QED BY Zenon, <3>1, <4>2, <4>3 DEF ContactsArePermitted
      <3> QED BY Zenon, <3>3, <3>4
    <2>2. CASE Open
      <3>1. CASE configIsValid
        <4>1. /\ phase' = "open" /\ UNCHANGED <<promised, config>>
              /\ last'.kind = "contact" /\ last'.url = config.tsa
          BY <2>2, <3>1 DEF Open, Contact
        <4>2. config.policy # NoPolicy => Permits(promised, config.tsa)
          BY Zenon, <4>1, PolicyStep DEF PolicyInv
        <4> QED BY Zenon, <4>1, <4>2 DEF ContactsArePermitted
      <3>2. CASE ~configIsValid
        BY <2>2, <3>2 DEF Open, DefaultConfig, ContactsArePermitted
      <3> QED BY Zenon, <3>1, <3>2
    <2> QED BY <2>1, <2>2 DEF PolicyNext, policyVars, ContactsArePermitted, PolicyInv, ChangeMine, WithEndpointPolicy,
               ApplyPolicy, ApplyURL, WithCustomOCSP, Close, NoEvent
  <1>3. Inv => ContactsArePermitted
    BY Zenon
  <1> QED BY <1>1, <1>2, <1>3, PTL DEF PolicySpec
=============================================================================
