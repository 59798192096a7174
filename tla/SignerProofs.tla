---------------------------- MODULE SignerProofs ----------------------------
(***************************************************************************)
(* The extraction of the signers' certificates (certificate_info.go), for  *)
(* every container, document and number of signers.                        *)
(***************************************************************************)
EXTENDS SignerCertificates, XmlInputProofs

IsCMS(c) == c = CMS(c.signers, c.size) /\ c.signers \in Seq(Nat) /\ c.size \in Nat

\* A value that lookups can be made on: numbers select its signers, and the copy
\* is that of its document.
Sound(v) ==
  /\ v.signers \in Seq(Nat)
  /\ v.parses => \A n \in DOMAIN v.signers : v.ids[n] = 0
  /\ Faithful(v.copy, v.document, v.parses)

\* A value that is no document has no bytes that its copy could have lost.
LEMMA EmptyFaithful ==
  Faithful(<<>>, NoDocument, TRUE)
  <1> DEFINE d == NoDocument
             N == Len(DocumentChars(d))
  <1>1. d \in XmlDocuments /\ Len(d.tokens) = 0
    BY DEF NoDocument, XmlDocuments, XmlEncodings
  <1> HIDE DEF d
  <1>2. N \in Nat /\ \A y \in Range(Text(d)) : y.at \in 1..N
    BY Zenon, <1>1, TextAt
  <1>3. \A n \in 1..N : DocumentChars(d)[n].token \in 1..0
    BY Zenon, <1>1, IdsAre
  <1>4. Range(Text(d)) = {}
    <2>1. \A n \in 1..0 : FALSE
      OBVIOUS
    <2> QED BY Zenon, <1>2, <1>3, <2>1
  <1>5. InOrder(<<>>) /\ Range(<<>>) = {}
    BY DEF InOrder, Range
  <1> QED BY Zenon, <1>4, <1>5 DEF Faithful, Outside, d

\* A CMS container is what the extraction expects of its input.
LEMMA CMSSound ==
  ASSUME NEW signers \in Seq(Nat), NEW size \in Nat
  PROVE  Sound(CMS(signers, size)) /\ IsCMS(CMS(signers, size))
  <1> DEFINE v == CMS(signers, size)
  <1>1. /\ v.signers = signers /\ v.copy = <<>> /\ v.document = NoDocument /\ v.parses = TRUE
        /\ v.ids = [n \in DOMAIN signers |-> 0] /\ v.size = size
    BY Zenon DEF CMS, Value
  <1> HIDE DEF v
  <1>2. Faithful(v.copy, v.document, v.parses)
    BY Zenon, <1>1, EmptyFaithful
  <1>3. \A n \in DOMAIN v.signers : v.ids[n] = 0
    BY Zenon, <1>1
  <1> QED BY Zenon, <1>1, <1>2, <1>3 DEF Sound, IsCMS, v

\* So is an XML document.
LEMMA XMLSound ==
  ASSUME NEW d \in XmlDocuments, NEW size \in Nat
  PROVE  Sound(XML(d, size)) /\ XML(d, size).size = size
  <1> DEFINE v == XML(d, size)
             copy == xmlCertificateInput(d)
  <1>1. copy \in Seq(ByteRecords) /\ Faithful(copy, d, WellFormed(d))
    BY Zenon, CopyFaithful
  <1>2. /\ v.signers = Certificates(d) /\ v.copy = copy /\ v.document = d
        /\ v.parses = WellFormed(d) /\ v.ids = LibraryIds(d, copy) /\ v.size = size
    BY Zenon DEF XML, Value
  <1> HIDE DEF v, copy
  <1>3. /\ Certificates(d) \in Seq(Nat)
        /\ WellFormed(d) => \A n \in DOMAIN Certificates(d) : LibraryIds(d, copy)[n] = 0
    BY Zenon, <1>1, NoIdsLeft
  <1> QED BY Zenon, <1>1, <1>2, <1>3 DEF Sound, v

\* A number selects the signer with that number.
LEMMA SelectedIs ==
  ASSUME NEW v, Sound(v), v.parses, NEW n \in Nat \ {0}
  PROVE  /\ \A i \in Selected(v, n) : i = n /\ n \in 1..Len(v.signers)
         /\ n \in 1..Len(v.signers) => n \in Selected(v, n)
         /\ \A m \in Nat : \A i \in Selected(v, m) : v.signers[i] \in Nat
  <1> DEFINE s == v.signers
  <1>1. s \in Seq(Nat) /\ \A i \in DOMAIN s : v.ids[i] = 0
    BY Zenon DEF Sound
  <1>2. DOMAIN s = 1..Len(s) /\ Len(s) \in Nat /\ \A i \in DOMAIN s : s[i] \in Nat
    <2> HIDE DEF s
    <2> QED BY <1>1
  <1>3. \A m : Selected(v, m) = {i \in DOMAIN s : /\ i = m \/ v.ids[i] = m
                                                  /\ \A j \in DOMAIN s : j = m \/ v.ids[j] = m => i <= j}
    BY Zenon DEF Selected
  <1> HIDE DEF s
  <1>4. n <= n /\ \A i \in DOMAIN s : v.ids[i] # n
    BY <1>1
  <1>5. \A i \in Selected(v, n) : i = n /\ n \in 1..Len(s)
    <2>1. ASSUME NEW i \in Selected(v, n) PROVE i = n /\ i \in 1..Len(s)
      BY Zenon, <1>2, <1>3, <1>4
    <2> QED BY Zenon, <2>1
  <1>6. ASSUME n \in 1..Len(s) PROVE n \in Selected(v, n)
    <2>1. \A j \in DOMAIN s : j = n \/ v.ids[j] = n => n <= j
      BY Zenon, <1>4
    <2> QED BY Zenon, <1>2, <1>3, <1>6, <2>1
  <1>7. \A m \in Nat : \A i \in Selected(v, m) : s[i] \in Nat
    BY Zenon, <1>2, <1>3
  <1> QED BY Zenon, <1>5, <1>6, <1>7 DEF s

IsCall(c) == DOMAIN c = {"pc", "value", "signID", "certs", "canceled", "result"}

Begins(s, t) == Len(s) <= Len(t) /\ \A k \in 1..Len(s) : s[k] = t[k]

\* What has been collected is the beginning of what there is, and what is returned
\* is the whole of it.
GoodCall(c, byNumber) ==
  /\ IsCall(c) /\ Sound(c.value)
  /\ c.certs \in Seq(Nat) /\ c.signID = Len(c.certs)
  /\ c.signID <= maxExtractedSignerCertificates
  /\ c.pc \in {"idle", "open", "read"} => c.certs = <<>>
  /\ c.pc = "read" => IsCMS(c.value)
  /\ c.pc # "returned" => c.result = "none"
  /\ c.pc = "lookup" => /\ ~TooLarge(c.value.size)
                        /\ byNumber => Begins(c.certs, c.value.signers)
  /\ byNumber /\ c.result = "ok" => c.certs = c.value.signers /\ ~TooLarge(c.value.size)
  /\ byNumber /\ c.result = "tooMany" => Len(c.value.signers) > maxExtractedSignerCertificates

SignersInv == IsCMS(file) /\ GoodCall(call, numbered)

\* The limits are numbers.
LEMMA LimitIs == maxExtractedSignerCertificates \in Nat /\ MaxSize \in Nat
  BY Zenon, LimitAssumption

\* A call may return when it has collected what its result promises.
LEMMA ReturnGood ==
  ASSUME NEW c, NEW byNumber, GoodCall(c, byNumber), NEW r,
         byNumber /\ r = "ok" => c.certs = c.value.signers /\ ~TooLarge(c.value.size),
         byNumber /\ r = "tooMany" => Len(c.value.signers) > maxExtractedSignerCertificates
  PROVE  GoodCall([c EXCEPT !.pc = "returned", !.result = r], byNumber)
  <1> DEFINE e == [c EXCEPT !.pc = "returned", !.result = r]
  <1>1. IsCall(c)
    BY Zenon DEF GoodCall
  <1>2. /\ IsCall(e) /\ e.pc = "returned" /\ e.result = r /\ e.value = c.value
        /\ e.signID = c.signID /\ e.certs = c.certs
    <2>1. e = [c EXCEPT !.pc = "returned", !.result = r]
      BY Zenon
    <2> HIDE DEF e
    <2> QED BY Zenon, <1>1, <2>1 DEF IsCall
  <1> HIDE DEF e
  <1>3. e.pc \notin {"idle", "open", "read"} /\ e.pc # "lookup" /\ e.pc # "read"
    BY Zenon, <1>2
  <1>4. GoodCall(e, byNumber)
    BY Zenon, <1>2, <1>3 DEF GoodCall
  <1> QED BY Zenon, <1>4 DEF e

\* Calls that have not begun to collect.
LEMMA FreshGood ==
  ASSUME NEW c, NEW byNumber, NEW v, NEW p, Sound(v), IsCall(c), c.value = v, c.pc = p,
         c.signID = 0, c.certs = <<>>, c.result = "none", p = "read" => IsCMS(v),
         p \in {"idle", "open", "read"} \/ (p = "lookup" /\ ~TooLarge(v.size))
  PROVE  GoodCall(c, byNumber)
  <1>1. <<>> \in Seq(Nat) /\ Len(<<>>) = 0 /\ 0 <= maxExtractedSignerCertificates
    BY LimitIs
  <1>2. Begins(<<>>, v.signers)
    <2>1. v.signers \in Seq(Nat)
      BY Zenon DEF Sound
    <2>2. Len(v.signers) \in Nat
      BY <2>1
    <2> QED BY <2>2 DEF Begins
  <1>3. p # "returned" /\ "none" # "ok" /\ "none" # "tooMany" /\ (p = "lookup" => ~TooLarge(v.size))
    BY Zenon
  <1> QED BY Zenon, <1>1, <1>2, <1>3 DEF GoodCall

\* A call that has not started, and one that has just read its input.
LEMMA IdleGood ==
  ASSUME NEW byNumber
  PROVE  /\ GoodCall(Idle, byNumber) /\ GoodCall([Idle EXCEPT !.pc = "open"], byNumber)
         /\ \A v : Sound(v) /\ ~TooLarge(v.size) =>
              GoodCall([Idle EXCEPT !.pc = "lookup", !.value = v], byNumber)
  <1>1. Sound(NoContainer)
    <2>1. <<>> \in Seq(Nat) /\ 0 \in Nat
      OBVIOUS
    <2> QED BY Zenon, <2>1, CMSSound DEF NoContainer
  <1> DEFINE idle == Idle
  <1>5. /\ IsCall(idle) /\ idle.value = NoContainer /\ idle.signID = 0
        /\ idle.certs = <<>> /\ idle.result = "none"
    BY Zenon DEF Idle, IsCall
  <1>2. GoodCall(Idle, byNumber)
    <2>1. /\ IsCall(Idle) /\ Idle.value = NoContainer /\ Idle.pc = "idle" /\ Idle.signID = 0
          /\ Idle.certs = <<>> /\ Idle.result = "none"
      BY Zenon DEF Idle, IsCall
    <2> QED BY Zenon, <1>1, <2>1, FreshGood
  <1>3. GoodCall([Idle EXCEPT !.pc = "open"], byNumber)
    <2> DEFINE c == [Idle EXCEPT !.pc = "open"]
    <2>1. /\ IsCall(c) /\ c.value = NoContainer /\ c.pc = "open" /\ c.signID = 0
          /\ c.certs = <<>> /\ c.result = "none"
      <3>1. c = [idle EXCEPT !.pc = "open"]
        BY Zenon
      <3> HIDE DEF c, idle
      <3> QED BY Zenon, <1>5, <3>1 DEF IsCall
    <2> HIDE DEF c
    <2>2. GoodCall(c, byNumber)
      BY Zenon, <1>1, <2>1, FreshGood
    <2> QED BY Zenon, <2>2 DEF c
  <1>4. ASSUME NEW v, Sound(v), ~TooLarge(v.size)
        PROVE  GoodCall([Idle EXCEPT !.pc = "lookup", !.value = v], byNumber)
    <2> DEFINE c == [Idle EXCEPT !.pc = "lookup", !.value = v]
    <2>1. /\ IsCall(c) /\ c.value = v /\ c.pc = "lookup" /\ c.signID = 0
          /\ c.certs = <<>> /\ c.result = "none"
      <3>1. c = [idle EXCEPT !.pc = "lookup", !.value = v]
        BY Zenon
      <3> HIDE DEF c, idle
      <3> QED BY Zenon, <1>5, <3>1 DEF IsCall
    <2> HIDE DEF c
    <2>2. GoodCall(c, byNumber)
      BY Zenon, <1>4, <2>1, FreshGood
    <2> QED BY Zenon, <2>2 DEF c
  <1> QED BY Zenon, <1>2, <1>3, <1>4

\* One more certificate.
LEMMA CollectGood ==
  ASSUME NEW c, NEW byNumber, GoodCall(c, byNumber), c.pc = "lookup", NEW cert \in Nat,
         c.signID # maxExtractedSignerCertificates,
         byNumber => /\ c.signID + 1 \in 1..Len(c.value.signers)
                     /\ cert = c.value.signers[c.signID + 1]
  PROVE  GoodCall([c EXCEPT !.signID = @ + 1, !.certs = Append(@, cert)], byNumber)
  <1> DEFINE e == [c EXCEPT !.signID = @ + 1, !.certs = Append(@, cert)]
             s == c.certs
             v == c.value.signers
             u == Append(s, cert)
             m == c.signID
  <1>1. IsCall(c)
    BY Zenon DEF GoodCall
  <1>2. /\ s \in Seq(Nat) /\ m = Len(s) /\ m <= maxExtractedSignerCertificates /\ v \in Seq(Nat)
        /\ c.result = "none" /\ ~TooLarge(c.value.size) /\ Sound(c.value)
        /\ byNumber => Begins(s, v)
    BY Zenon DEF GoodCall, Sound
  <1>3. /\ IsCall(e) /\ e.pc = "lookup" /\ e.result = "none" /\ e.value = c.value
        /\ e.signID = m + 1 /\ e.certs = u
    <2> DEFINE i == m + 1
    <2>1. e = [c EXCEPT !.signID = i, !.certs = u]
      BY Zenon
    <2> HIDE DEF e, u, i
    <2>2. /\ IsCall(e) /\ e.pc = c.pc /\ e.result = c.result /\ e.value = c.value
          /\ e.signID = i /\ e.certs = u
      BY Zenon, <1>1, <2>1 DEF IsCall
    <2> QED BY Zenon, <1>2, <2>2 DEF i
  <1>4. byNumber => m + 1 \in 1..Len(v) /\ cert = v[m + 1]
    BY Zenon
  <1> HIDE DEF s, v, m
  <1>5. u \in Seq(Nat) /\ Len(u) = m + 1 /\ \A k \in 1..m : u[k] = s[k]
    BY <1>2
  <1>6. u[m + 1] = cert
    BY <1>2
  <1> HIDE DEF u, e
  <1>7. m + 1 <= maxExtractedSignerCertificates /\ m \in Nat
    BY <1>2, LimitIs DEF m
  <1>8. ASSUME byNumber PROVE Begins(u, v)
    <2>1. Len(v) \in Nat /\ m + 1 \in 1..Len(v)
      BY <1>2, <1>4, <1>8
    <2>2. \A k \in 1..(m + 1) : k \in 1..m \/ k = m + 1
      BY <1>7
    <2>3. \A k \in 1..m : s[k] = v[k]
      BY Zenon, <1>2, <1>8 DEF Begins
    <2>4. \A k \in 1..(m + 1) : u[k] = v[k]
      BY Zenon, <1>4, <1>5, <1>6, <1>8, <2>2, <2>3
    <2>5. m + 1 <= Len(v)
      BY <1>7, <2>1
    <2> QED BY Zenon, <1>5, <2>4, <2>5 DEF Begins
  <1>9. e.pc \notin {"idle", "open", "read"} /\ e.result # "ok" /\ e.result # "tooMany"
    BY Zenon, <1>3
  <1>10. GoodCall(e, byNumber)
    BY Zenon, <1>2, <1>3, <1>5, <1>7, <1>8, <1>9 DEF GoodCall, v
  <1> QED BY Zenon, <1>10 DEF e

\* A call that goes on with the same certificates, before it collects or while it
\* does.
LEMMA GoOnGood ==
  ASSUME NEW c, NEW byNumber, GoodCall(c, byNumber)
  PROVE  /\ GoodCall([c EXCEPT !.canceled = TRUE], byNumber)
         /\ \A v : c.pc = "open" /\ IsCMS(v) /\ Sound(v) =>
              GoodCall([c EXCEPT !.pc = "read", !.value = v], byNumber)
         /\ \A v : c.pc = "read" /\ Sound(v) /\ ~TooLarge(v.size) =>
              GoodCall([c EXCEPT !.pc = "lookup", !.value = v], byNumber)
  <1>1. IsCall(c)
    BY Zenon DEF GoodCall
  <1>2. ASSUME c.pc \in {"open", "read"}
        PROVE  c.certs = <<>> /\ c.signID = 0 /\ c.result = "none" /\ Sound(c.value)
    <2>1. c.certs = <<>> /\ c.signID = Len(c.certs) /\ Sound(c.value)
      BY Zenon, <1>2 DEF GoodCall
    <2>2. c.pc # "returned"
      BY Zenon, <1>2
    <2>3. c.result = "none"
      BY Zenon, <2>2 DEF GoodCall
    <2>4. Len(<<>>) = 0
      BY Zenon
    <2> QED BY Zenon, <2>1, <2>3, <2>4
  <1>3. GoodCall([c EXCEPT !.canceled = TRUE], byNumber)
    <2> DEFINE e == [c EXCEPT !.canceled = TRUE]
    <2>1. e = [c EXCEPT !.canceled = TRUE]
      BY Zenon
    <2> HIDE DEF e
    <2>2. /\ IsCall(e) /\ e.pc = c.pc /\ e.value = c.value /\ e.signID = c.signID
          /\ e.certs = c.certs /\ e.result = c.result
      BY Zenon, <1>1, <2>1 DEF IsCall
    <2>3. GoodCall(e, byNumber)
      BY Zenon, <2>2 DEF GoodCall
    <2> QED BY Zenon, <2>1, <2>3
  <1>4. ASSUME NEW v, c.pc = "open", IsCMS(v), Sound(v)
        PROVE  GoodCall([c EXCEPT !.pc = "read", !.value = v], byNumber)
    <2> DEFINE e == [c EXCEPT !.pc = "read", !.value = v]
    <2>1. e = [c EXCEPT !.pc = "read", !.value = v]
      BY Zenon
    <2> HIDE DEF e
    <2>2. /\ IsCall(e) /\ e.pc = "read" /\ e.value = v /\ e.signID = c.signID
          /\ e.certs = c.certs /\ e.result = c.result
      BY Zenon, <1>1, <2>1 DEF IsCall
    <2>3. GoodCall(e, byNumber)
      BY Zenon, <1>2, <1>4, <2>2, FreshGood
    <2> QED BY Zenon, <2>1, <2>3
  <1>5. ASSUME NEW v, c.pc = "read", Sound(v), ~TooLarge(v.size)
        PROVE  GoodCall([c EXCEPT !.pc = "lookup", !.value = v], byNumber)
    <2> DEFINE e == [c EXCEPT !.pc = "lookup", !.value = v]
    <2>1. e = [c EXCEPT !.pc = "lookup", !.value = v]
      BY Zenon
    <2> HIDE DEF e
    <2>2. /\ IsCall(e) /\ e.pc = "lookup" /\ e.value = v /\ e.signID = c.signID
          /\ e.certs = c.certs /\ e.result = c.result
      BY Zenon, <1>1, <2>1 DEF IsCall
    <2>3. GoodCall(e, byNumber)
      BY Zenon, <1>2, <1>5, <2>2, FreshGood
    <2> QED BY Zenon, <2>1, <2>3
  <1> QED BY Zenon, <1>3, <1>4, <1>5

\* A container stays one when its size is another, as a file that grows does.  One
\* that the library cannot parse is sound as well: it has no signers to return.
LEMMA ContainersSound ==
  ASSUME NEW c, IsCMS(c)
  PROVE  /\ Sound(c) /\ c.size \in Nat /\ [c EXCEPT !.parses = FALSE].size = c.size
         /\ \A n \in Nat : Sound([c EXCEPT !.size = n]) /\ [c EXCEPT !.size = n].size = n
         /\ \A n \in Nat : LET t == [c EXCEPT !.parses = FALSE]
                          IN  Sound([t EXCEPT !.size = n]) /\ [t EXCEPT !.size = n].size = n
  <1>1. c = CMS(c.signers, c.size) /\ c.signers \in Seq(Nat) /\ c.size \in Nat
    BY Zenon DEF IsCMS
  <1>2. Sound(c)
    BY Zenon, <1>1, CMSSound
  <1>3. DOMAIN c = {"signers", "ids", "size", "parses", "document", "copy"}
    <2> DEFINE s == c.signers
               m == c.size
    <2>1. c = CMS(s, m)
      BY Zenon, <1>1
    <2> HIDE DEF s, m
    <2>2. DOMAIN CMS(s, m) = {"signers", "ids", "size", "parses", "document", "copy"}
      BY Zenon DEF CMS, Value
    <2> QED BY Zenon, <2>1, <2>2
  <1>4. ASSUME NEW n \in Nat PROVE Sound([c EXCEPT !.size = n]) /\ [c EXCEPT !.size = n].size = n
    <2> DEFINE e == [c EXCEPT !.size = n]
    <2>1. e = [c EXCEPT !.size = n]
      BY Zenon
    <2> HIDE DEF e
    <2>2. /\ e.signers = c.signers /\ e.ids = c.ids /\ e.parses = c.parses
          /\ e.document = c.document /\ e.copy = c.copy /\ e.size = n
      BY Zenon, <1>3, <2>1
    <2>3. Sound(e)
      BY Zenon, <1>2, <2>2 DEF Sound
    <2> QED BY Zenon, <2>1, <2>2, <2>3
  <1> DEFINE t == [c EXCEPT !.parses = FALSE]
  <1>5. /\ DOMAIN t = DOMAIN c /\ t.parses = FALSE /\ t.size = c.size
        /\ t.signers = c.signers /\ t.document = c.document /\ t.copy = c.copy
    <2>1. t = [c EXCEPT !.parses = FALSE]
      BY Zenon
    <2> HIDE DEF t
    <2> QED BY Zenon, <1>3, <2>1
  <1>6. ASSUME NEW n \in Nat PROVE Sound([t EXCEPT !.size = n]) /\ [t EXCEPT !.size = n].size = n
    <2> HIDE DEF t
    <2> DEFINE e == [t EXCEPT !.size = n]
    <2>1. e = [t EXCEPT !.size = n]
      BY Zenon
    <2> HIDE DEF e
    <2>2. /\ e.signers = c.signers /\ e.parses = FALSE
          /\ e.document = c.document /\ e.copy = c.copy /\ e.size = n
      BY Zenon, <1>3, <1>5, <2>1
    <2>3. Sound(e)
      BY Zenon, <1>2, <2>2 DEF Sound, Faithful
    <2> QED BY Zenon, <2>1, <2>2, <2>3
  <1> QED BY Zenon, <1>1, <1>2, <1>4, <1>5, <1>6

\* A step that changes only the call, to a good one.
LEMMA CallMoves ==
  ASSUME SignersInv, UNCHANGED <<file, numbered, closed>>, GoodCall(call', numbered)
  PROVE  SignersInv'
  <1>1. IsCMS(file)
    BY Zenon DEF SignersInv
  <1>2. file' = file /\ numbered' = numbered
    BY Zenon
  <1>3. IsCMS(file') /\ GoodCall(call', numbered')
    BY Zenon, <1>1, <1>2
  <1> QED BY Zenon, <1>3 DEF SignersInv

\* Refusals and failures return no certificates as a result.
LEMMA ErrorReturns ==
  ASSUME SignersInv, ReturnSigners("error")
  PROVE  SignersInv'
  <1>1. call' = [call EXCEPT !.pc = "returned", !.result = "error"]
        /\ UNCHANGED <<file, numbered, closed>>
    BY Zenon DEF ReturnSigners
  <1>2. GoodCall(call, numbered) /\ "error" # "ok" /\ "error" # "tooMany"
    BY Zenon DEF SignersInv
  <1>3. GoodCall([call EXCEPT !.pc = "returned", !.result = "error"], numbered)
    BY Zenon, <1>2, ReturnGood
  <1>4. GoodCall(call', numbered)
    BY Zenon, <1>1, <1>3
  <1> QED BY Zenon, <1>1, <1>4, CallMoves

\* A value that is accepted is looked up from the first signer on.
LEMMA AcceptGood ==
  ASSUME SignersInv, NEW v, Sound(v), Accept(v)
  PROVE  SignersInv'
  <1>1. CASE TooLarge(v.size)
    BY Zenon, <1>1, ErrorReturns DEF Accept
  <1>2. CASE ~TooLarge(v.size)
    <2>1. call' = [Idle EXCEPT !.pc = "lookup", !.value = v]
          /\ UNCHANGED <<file, numbered, closed>>
      BY Zenon, <1>2 DEF Accept, Continue
    <2>2. GoodCall([Idle EXCEPT !.pc = "lookup", !.value = v], numbered)
      BY Zenon, <1>2, IdleGood
    <2>3. GoodCall(call', numbered)
      BY Zenon, <2>1, <2>2
    <2> QED BY Zenon, <2>1, <2>3, CallMoves
  <1> QED BY Zenon, <1>1, <1>2

\* GetCertFromCMS starts a call as the invariant demands.
LEMMA GetCertFromCMSGood ==
  ASSUME SignersInv, NEW source, GetCertFromCMS(source)
  PROVE  SignersInv'
  <1>1. CASE source = "file"
    <2>1. call' = [Idle EXCEPT !.pc = "open"] /\ UNCHANGED <<file, numbered, closed>>
      BY Zenon, <1>1 DEF GetCertFromCMS, Continue
    <2>2. GoodCall([Idle EXCEPT !.pc = "open"], numbered)
      BY Zenon, IdleGood
    <2>3. GoodCall(call', numbered)
      BY Zenon, <2>1, <2>2
    <2> QED BY Zenon, <2>1, <2>3, CallMoves
  <1>2. CASE source # "file"
    <2>1. PICK c \in Containers : Accept(c)
      BY Zenon, <1>2 DEF GetCertFromCMS
    <2>2. Sound(c)
      BY Zenon, ContainerAssumption, ContainersSound DEF IsCMS
    <2> QED BY Zenon, <2>1, <2>2, AcceptGood
  <1> QED BY Zenon, <1>1, <1>2

\* GetCertFromXML starts a call as the invariant demands.
LEMMA GetCertFromXMLGood ==
  ASSUME SignersInv, NEW source, GetCertFromXML(source)
  PROVE  SignersInv'
  <1>1. CASE source = "memory"
    <2>1. PICK d \in Documents : Accept(Prepared[d])
      BY Zenon, <1>1 DEF GetCertFromXML
    <2>2. d.text \in XmlDocuments /\ d.size \in Nat
      BY Zenon, DocumentAssumption
    <2>3. Prepared[d] = XML(d.text, d.size)
      BY Zenon DEF Prepared
    <2>4. Sound(Prepared[d])
      BY Zenon, <2>2, <2>3, XMLSound
    <2> QED BY Zenon, <2>1, <2>4, AcceptGood
  <1>2. CASE source # "memory"
    BY Zenon, <1>2, ErrorReturns DEF GetCertFromXML
  <1> QED BY Zenon, <1>1, <1>2

\* OpenFile fails without a file and otherwise goes on to read it.
LEMMA OpenFileGood ==
  ASSUME SignersInv, OpenFile
  PROVE  SignersInv'
  <1>1. CASE file = NoContainer
    BY Zenon, <1>1, ErrorReturns DEF OpenFile
  <1>2. CASE file # NoContainer
    <2>1. /\ call.pc = "open" /\ call' = [call EXCEPT !.pc = "read", !.value = file]
          /\ UNCHANGED <<file, numbered, closed>>
      BY Zenon, <1>2 DEF OpenFile, Continue
    <2>2. GoodCall([call EXCEPT !.pc = "read", !.value = file], numbered)
      BY Zenon, <2>1, GoOnGood, ContainersSound DEF SignersInv
    <2>3. GoodCall(call', numbered)
      BY Zenon, <2>1, <2>2
    <2> QED BY Zenon, <2>1, <2>3, CallMoves
  <1> QED BY Zenon, <1>1, <1>2

\* Whatever the file gained since it was opened, and whatever was written over it,
\* the size that is kept is the number of bytes read.
LEMMA ReadGood ==
  ASSUME SignersInv, readCMSCertificateFile
  PROVE  SignersInv'
  <1> DEFINE Size(content, gained) == content.size + gained
             Length(content, gained) ==
               IF MaxSize > 0 /\ Size(content, gained) > MaxSize + 1 THEN MaxSize + 1
               ELSE Size(content, gained)
             Next(content, n) ==
               [call EXCEPT !.pc = "lookup", !.value = [content EXCEPT !.size = n]]
  <1> SUFFICES ASSUME NEW content \in Contents, NEW gained \in 0..Growth,
                      IF TooLarge(Length(content, gained)) THEN ReturnSigners("error")
                      ELSE Continue(Next(content, Length(content, gained)))
               PROVE  SignersInv'
    BY Zenon, ErrorReturns DEF readCMSCertificateFile
  <1>2. IsCMS(file) /\ GoodCall(call, numbered) /\ call.pc = "read"
    BY Zenon DEF SignersInv, readCMSCertificateFile
  <1>1. /\ content.size \in Nat
        /\ \A n \in Nat : Sound([content EXCEPT !.size = n]) /\ [content EXCEPT !.size = n].size = n
    <2>1. IsCMS(call.value)
      BY Zenon, <1>2 DEF GoodCall
    <2>2. content \in {call.value, file} \/ content = [call.value EXCEPT !.parses = FALSE]
      BY Zenon DEF Contents
    <2>3. CASE content \in {call.value, file}
      <3>1. IsCMS(content)
        BY Zenon, <1>2, <2>1, <2>3
      <3> QED BY Zenon, <3>1, ContainersSound
    <2>4. CASE content = [call.value EXCEPT !.parses = FALSE]
      <3> DEFINE c == call.value
                 t == [c EXCEPT !.parses = FALSE]
      <3>1. /\ c.size \in Nat /\ t.size = c.size
            /\ \A n \in Nat : Sound([t EXCEPT !.size = n]) /\ [t EXCEPT !.size = n].size = n
        BY Zenon, <2>1, ContainersSound
      <3>2. content = t
        BY Zenon, <2>4
      <3> HIDE DEF t, c
      <3> QED BY Zenon, <3>1, <3>2
    <2> QED BY Zenon, <2>2, <2>3, <2>4
  <1>3. Length(content, gained) \in Nat
    <2>1. content.size \in Nat
      BY Zenon, <1>1
    <2>2. Growth \in Nat /\ MaxSize \in Nat
      BY Zenon, LimitAssumption
    <2> DEFINE size == content.size
    <2>3. size \in Nat
      BY Zenon, <2>1
    <2> HIDE DEF size
    <2>4. \A s \in Nat : (IF MaxSize > 0 /\ s > MaxSize + 1 THEN MaxSize + 1 ELSE s) \in Nat
      BY <2>2
    <2>5. size + gained \in Nat
      BY <2>2, <2>3
    <2> QED BY Zenon, <2>4, <2>5 DEF size
  <1> DEFINE n == Length(content, gained)
             v == [content EXCEPT !.size = n]
  <1>4. IF TooLarge(n) THEN ReturnSigners("error") ELSE Continue(Next(content, n))
    BY Zenon
  <1>5. n \in Nat
    BY Zenon, <1>3
  <1> HIDE DEF n, Length, Size
  <1>6. CASE TooLarge(n)
    BY Zenon, <1>4, <1>6, ErrorReturns
  <1>7. CASE ~TooLarge(n)
    <2>1. call' = Next(content, n) /\ UNCHANGED <<file, numbered, closed>>
      BY Zenon, <1>4, <1>7 DEF Continue
    <2>2. Sound(v) /\ v.size = n
      BY Zenon, <1>1, <1>5
    <2>3. call' = [call EXCEPT !.pc = "lookup", !.value = v]
      BY Zenon, <2>1
    <2> HIDE DEF v, Next
    <2>4. GoodCall([call EXCEPT !.pc = "lookup", !.value = v], numbered)
      BY Zenon, <1>2, <1>7, <2>2, GoOnGood
    <2>5. GoodCall(call', numbered)
      BY Zenon, <2>3, <2>4
    <2> QED BY Zenon, <2>1, <2>5, CallMoves
  <1> QED BY Zenon, <1>6, <1>7

\* The library answers with a signer that was selected, or with the end when there
\* is none.
LEMMA AnswersAre ==
  ASSUME NEW v, NEW n, NEW out \in Answers(v, n)
  PROVE  LET found == Selected(v, IF numbered THEN n ELSE 1)
         IN  /\ v.parses
             /\ \/ found = {} /\ out.encoding \in {"empty", "endCode"}
                \/ \E i \in found : out.cert = v.signers[i] /\ out.encoding \in Encodings
  <1> DEFINE found == Selected(v, IF numbered THEN n ELSE 1)
             s == v.signers
             ends == {Output("empty", "NUL", 0), Output("endCode", "none", 0)}
             certs == {Output(e, p, s[i]) : e \in Encodings, p \in Paddings, i \in found}
  <1>1. Answers(v, n) = IF ~v.parses THEN {} ELSE IF found = {} THEN ends ELSE certs
    BY DEF Answers
  <1>2. \A o \in ends : o.encoding \in {"empty", "endCode"}
    BY DEF Output
  <1>3. \A o \in certs : \E i \in found : o.cert = s[i] /\ o.encoding \in Encodings
    <2> HIDE DEF found, s
    <2>1. \A o \in certs : \E e \in Encodings, p \in Paddings, i \in found : o = Output(e, p, s[i])
      OBVIOUS
    <2> HIDE DEF certs
    <2> TAKE o \in certs
    <2>2. PICK e \in Encodings, p \in Paddings, i \in found : o = Output(e, p, s[i])
      BY Zenon, <2>1
    <2>3. o.encoding = e /\ o.cert = s[i]
      BY Zenon, <2>2 DEF Output
    <2> QED BY Zenon, <2>3
  <1> HIDE DEF found, ends, certs
  <1>4. v.parses
    BY Zenon, <1>1
  <1>5. \/ found = {} /\ out \in ends
        \/ out \in certs
    BY Zenon, <1>1, <1>4
  <1>6. \/ found = {} /\ out.encoding \in {"empty", "endCode"}
        \/ \E i \in found : out.cert = s[i] /\ out.encoding \in Encodings
    BY Zenon, <1>2, <1>3, <1>5
  <1> QED BY Zenon, <1>4, <1>6 DEF found

\* One lookup.  The end comes exactly after the last signer; the limit is met only
\* by a container with more.
LEMMA CollectStep ==
  ASSUME SignersInv, collectSignerCertificates
  PROVE  SignersInv'
  <1> DEFINE v == call.value
             m == call.signID
             found == Selected(v, IF numbered THEN m + 1 ELSE 1)
  <1>1. GoodCall(call, numbered) /\ call.pc = "lookup"
    BY Zenon DEF SignersInv, collectSignerCertificates
  <1>2. /\ Sound(v) /\ v.signers \in Seq(Nat) /\ ~TooLarge(v.size)
        /\ call.certs \in Seq(Nat) /\ m = Len(call.certs)
        /\ m <= maxExtractedSignerCertificates /\ (numbered => Begins(call.certs, v.signers))
    BY Zenon, <1>1 DEF GoodCall, Sound
  <1>3. CASE call.canceled \/ closed
    BY Zenon, <1>3, ErrorReturns DEF collectSignerCertificates
  <1>4. CASE ~(call.canceled \/ closed)
    <2>1. PICK out \in Answers(v, m + 1) : Decide(out)
      BY Zenon, <1>4 DEF collectSignerCertificates
    <2>2. m \in Nat /\ m + 1 \in Nat \ {0} /\ 1 \in Nat \ {0}
      BY <1>2
    <2>3. v.parses
      BY Zenon, <2>1, AnswersAre
    <2>4. /\ \A i \in Selected(v, m + 1) : i = m + 1 /\ m + 1 \in 1..Len(v.signers)
          /\ m + 1 \in 1..Len(v.signers) => m + 1 \in Selected(v, m + 1)
          /\ \A n \in Nat : \A i \in Selected(v, n) : v.signers[i] \in Nat
      BY Zenon, <1>2, <2>2, <2>3, SelectedIs
    <2>5. \/ found = {} /\ out.encoding \in {"empty", "endCode"}
          \/ \E i \in found : out.cert = v.signers[i] /\ out.encoding \in Encodings
      BY Zenon, <2>1, AnswersAre
    <2>6. CASE found = {} /\ out.encoding \in {"empty", "endCode"}
      <3>1. out.encoding = "endCode" \/ isEmptyNativeCertificate(out)
        BY Zenon, <2>6 DEF isEmptyNativeCertificate
      <3>2. CASE call.certs = <<>>
        BY Zenon, <2>1, <3>1, <3>2, ErrorReturns DEF Decide
      <3>3. CASE call.certs # <<>>
        <4>1. call' = [call EXCEPT !.pc = "returned", !.result = "ok"]
              /\ UNCHANGED <<file, numbered, closed>>
          BY Zenon, <2>1, <3>1, <3>3 DEF Decide, ReturnSigners
        <4>2. ASSUME numbered PROVE call.certs = v.signers
          <5>1. m + 1 \notin 1..Len(v.signers)
            BY Zenon, <2>4, <2>6, <4>2
          <5>2. Begins(call.certs, v.signers)
            BY Zenon, <1>2, <4>2
          <5> DEFINE s == v.signers
                     u == call.certs
          <5>3. /\ s \in Seq(Nat) /\ u \in Seq(Nat) /\ m = Len(u)
                /\ Begins(u, s) /\ m + 1 \notin 1..Len(s)
            BY Zenon, <1>2, <5>1, <5>2
          <5> HIDE DEF s, u, m, v
          <5>4. Len(s) \in Nat /\ Len(u) <= Len(s) /\ \A k \in 1..Len(u) : u[k] = s[k]
            BY <5>3 DEF Begins
          <5>5. Len(s) = Len(u)
            BY <2>2, <5>3, <5>4
          <5>6. s = u
            <6>1. /\ s = [k \in 1..Len(u) |-> s[k]]
                  /\ u = [k \in 1..Len(u) |-> u[k]]
              BY <5>3, <5>5
            <6> QED BY Zenon, <5>4, <6>1
          <5> QED BY Zenon, <5>6 DEF s, u
        <4>3. "ok" # "tooMany"
          BY Zenon
        <4>4. GoodCall([call EXCEPT !.pc = "returned", !.result = "ok"], numbered)
          BY Zenon, <1>1, <1>2, <4>2, <4>3, ReturnGood
        <4>5. GoodCall(call', numbered)
          BY Zenon, <4>1, <4>4
        <4> QED BY Zenon, <4>1, <4>5, CallMoves
      <3> QED BY Zenon, <3>2, <3>3
    <2>7. CASE \E i \in found : out.cert = v.signers[i] /\ out.encoding \in Encodings
      <3>1. PICK i \in found : out.cert = v.signers[i] /\ out.encoding \in Encodings
        BY Zenon, <2>7
      <3>2. /\ out.cert = v.signers[i] /\ out.encoding # "endCode"
            /\ ~isEmptyNativeCertificate(out)
        <4>1. \A e \in Encodings : e # "endCode" /\ e # "empty"
          BY Zenon DEF Encodings
        <4> QED BY Zenon, <3>1, <4>1 DEF isEmptyNativeCertificate
      <3>3. out.cert \in Nat /\ (numbered => m + 1 \in 1..Len(v.signers) /\ out.cert = v.signers[m + 1])
        BY Zenon, <2>2, <2>4, <3>1, <3>2
      <3>4. CASE m = maxExtractedSignerCertificates
        <4>1. call' = [call EXCEPT !.pc = "returned", !.result = "tooMany"]
              /\ UNCHANGED <<file, numbered, closed>>
          BY Zenon, <2>1, <3>2, <3>4 DEF Decide, ReturnSigners
        <4>2. ASSUME numbered PROVE Len(v.signers) > maxExtractedSignerCertificates
          <5> DEFINE L == Len(v.signers)
          <5>1. L \in Nat /\ m + 1 \in 1..L
            BY <1>2, <3>3, <4>2
          <5> HIDE DEF L, m
          <5>2. L > m
            BY <2>2, <5>1
          <5> QED BY Zenon, <3>4, <5>2 DEF L
        <4>3. "ok" # "tooMany"
          BY Zenon
        <4>4. GoodCall([call EXCEPT !.pc = "returned", !.result = "tooMany"], numbered)
          BY Zenon, <1>1, <4>2, <4>3, ReturnGood
        <4>5. GoodCall(call', numbered)
          BY Zenon, <4>1, <4>4
        <4> QED BY Zenon, <4>1, <4>5, CallMoves
      <3>5. CASE m # maxExtractedSignerCertificates /\ ~parseNativeCertificate(out)
        BY Zenon, <2>1, <3>2, <3>5, ErrorReturns DEF Decide
      <3>6. CASE m # maxExtractedSignerCertificates /\ parseNativeCertificate(out)
        <4> DEFINE next == [call EXCEPT !.signID = @ + 1, !.certs = Append(@, out.cert)]
        <4>1. call' = next /\ UNCHANGED <<file, numbered, closed>>
          BY Zenon, <2>1, <3>2, <3>6 DEF Decide, Continue
        <4>2. GoodCall(next, numbered)
          BY Zenon, <1>1, <3>3, <3>6, CollectGood
        <4> HIDE DEF next
        <4>3. GoodCall(call', numbered)
          BY Zenon, <4>1, <4>2
        <4> QED BY Zenon, <4>1, <4>3, CallMoves
      <3> QED BY Zenon, <3>4, <3>5, <3>6
    <2> QED BY Zenon, <2>5, <2>6, <2>7
  <1> QED BY Zenon, <1>3, <1>4

\* The invariant holds before any call.
LEMMA SignersInvInit == SignersInit => SignersInv
  <1> SUFFICES ASSUME SignersInit PROVE SignersInv
    BY Zenon
  <1>1. IsCMS(NoContainer)
    <2>1. <<>> \in Seq(Nat) /\ 0 \in Nat
      OBVIOUS
    <2> QED BY Zenon, <2>1, CMSSound DEF NoContainer
  <1>2. \A c \in Containers \cup {NoContainer} : IsCMS(c)
    BY Zenon, <1>1, ContainerAssumption DEF IsCMS
  <1>3. IsCMS(file)
    BY Zenon, <1>2 DEF SignersInit
  <1>4. GoodCall(call, numbered)
    BY Zenon, IdleGood DEF SignersInit
  <1> QED BY Zenon, <1>3, <1>4 DEF SignersInv

\* Every step of a call keeps the invariant.
LEMMA SignersInvStep == SignersInv /\ [SignersNext]_signerVars => SignersInv'
  <1> SUFFICES ASSUME SignersInv, [SignersNext]_signerVars PROVE SignersInv'
    BY Zenon
  <1>0. IsCMS(file) /\ GoodCall(call, numbered)
    BY Zenon DEF SignersInv
  <1>1. ASSUME NEW source \in {"memory", "file"}, GetCertFromCMS(source) PROVE SignersInv'
    BY Zenon, <1>1, GetCertFromCMSGood
  <1>2. ASSUME NEW source \in {"memory", "file"}, GetCertFromXML(source) PROVE SignersInv'
    BY Zenon, <1>2, GetCertFromXMLGood
  <1>3. CASE OpenFile
    BY Zenon, <1>3, OpenFileGood
  <1>4. CASE readCMSCertificateFile
    BY Zenon, <1>4, ReadGood
  <1>5. CASE collectSignerCertificates
    BY Zenon, <1>5, CollectStep
  <1>6. CASE LookupFails
    BY Zenon, <1>6, ErrorReturns DEF LookupFails
  <1>7. CASE Leave
    <2>1. call' = Idle /\ UNCHANGED <<file, numbered, closed>>
      BY Zenon, <1>7 DEF Leave, Continue
    <2>2. GoodCall(call', numbered)
      BY Zenon, <2>1, IdleGood
    <2> QED BY Zenon, <2>1, <2>2, CallMoves
  <1>8. ASSUME NEW c \in Containers \cup {NoContainer}, ReplaceFile(c) PROVE SignersInv'
    <2>1. IsCMS(NoContainer)
      <3>1. <<>> \in Seq(Nat) /\ 0 \in Nat
        OBVIOUS
      <3> QED BY Zenon, <3>1, CMSSound DEF NoContainer
    <2>2. IsCMS(c)
      BY Zenon, <2>1, ContainerAssumption DEF IsCMS
    <2>3. file' = c /\ call' = call /\ numbered' = numbered
      BY Zenon, <1>8 DEF ReplaceFile
    <2>4. IsCMS(file') /\ GoodCall(call', numbered')
      BY Zenon, <1>0, <2>2, <2>3
    <2> QED BY Zenon, <2>4 DEF SignersInv
  <1>9. CASE Cancel
    <2>1. call' = [call EXCEPT !.canceled = TRUE] /\ UNCHANGED <<file, numbered, closed>>
      BY Zenon, <1>9 DEF Cancel, Continue
    <2>2. GoodCall([call EXCEPT !.canceled = TRUE], numbered)
      BY Zenon, <1>0, GoOnGood
    <2>3. GoodCall(call', numbered)
      BY Zenon, <2>1, <2>2
    <2> QED BY Zenon, <2>1, <2>3, CallMoves
  <1>10. CASE Close \/ UNCHANGED signerVars
    <2>1. file' = file /\ call' = call /\ numbered' = numbered
      BY Zenon, <1>10 DEF Close, signerVars
    <2>2. IsCMS(file') /\ GoodCall(call', numbered')
      BY Zenon, <1>0, <2>1
    <2> QED BY Zenon, <2>2 DEF SignersInv
  <1> QED BY Zenon, <1>1, <1>2, <1>3, <1>4, <1>5, <1>6, <1>7, <1>8, <1>9, <1>10
          DEF SignersNext, SignersStep

\* GetCertFromCMS and GetCertFromXML return, for every set of containers and
\* documents and every limit, all signers of one value in order or nothing, however
\* the file is replaced, the context canceled and the client closed in between.
THEOREM CompleteSigners == SignersSpec => []SignersAreComplete
  <1>1. SignersInv => SignersAreComplete
    BY Zenon DEF SignersInv, GoodCall, SignersAreComplete
  <1> QED BY <1>1, SignersInvInit, SignersInvStep, PTL DEF SignersSpec

\* xmlCertificateInput, on documents of any length and in every encoding: the copy
\* that the lookups are made on keeps, in order, every byte outside the Ids of the
\* signatures, and of a well-formed document no other.
THEOREM IdsRemoved == SignersSpec => []OnlyIdsRemoved
  <1>1. SignersInv => OnlyIdsRemoved
    <2> SUFFICES ASSUME SignersInv PROVE OnlyIdsRemoved
      BY Zenon
    <2> DEFINE v == call.value
    <2>1. Faithful(v.copy, v.document, v.parses)
      BY Zenon DEF SignersInv, GoodCall, Sound
    <2> QED BY Zenon, <2>1 DEF OnlyIdsRemoved, Faithful, Outside, Text, Ids
  <1> QED BY <1>1, SignersInvInit, SignersInvStep, PTL DEF SignersSpec
=============================================================================
