------------------------ MODULE SignerCertificates ------------------------
(***************************************************************************)
(* Extraction of signer certificates (certificate_info.go): GetCertFromCMS *)
(* and GetCertFromXML ask the library for one certificate after another,   *)
(* each in a gate session of its own, until it reports the end.  Between   *)
(* two lookups the file may be replaced, the context canceled and the      *)
(* client closed.  Outputs of the library come in several encodings and    *)
(* with padding.  The library selects a signer by number or, in XML, by the *)
(* Id of its signature; XmlCertificateInput has the copy that it is given. *)
(***************************************************************************)
EXTENDS XmlCertificateInput

CONSTANTS Containers,    \* CMS containers: their signers and size
          Documents,     \* XML documents
          MaxSize,       \* WithMaxInputSize; 0 for no limit
          maxExtractedSignerCertificates,
          Growth         \* bytes a file may gain between stat and read

ASSUME LimitAssumption == {MaxSize, maxExtractedSignerCertificates, Growth} \subseteq Nat

ASSUME DocumentAssumption == \A d \in Documents : d.text \in XmlDocuments /\ d.size \in Nat

\* What the lookups are made on: the signers with the Ids that the library sees
\* at them, and whether it can parse the input at all.  For XML also the document
\* and the copy of it.
Value(signers, ids, size, parses, document, copy) ==
  [signers |-> signers, ids |-> ids, size |-> size, parses |-> parses,
   document |-> document, copy |-> copy]

NoDocument == [encoding |-> "utf8", tokens |-> <<>>]

CMS(signers, size) ==
  Value(signers, [n \in DOMAIN signers |-> 0], size, TRUE, NoDocument, <<>>)

XML(document, size) ==
  LET copy == xmlCertificateInput(document)
  IN  Value(Certificates(document), LibraryIds(document, copy), size, WellFormed(document),
            document, copy)

NoContainer == CMS(<<>>, 0)

ASSUME ContainerAssumption ==
  \A c \in Containers : c = CMS(c.signers, c.size) /\ c.signers \in Seq(Nat) /\ c.size \in Nat

\* The value of each document; the code computes it in GetCertFromXML.
Prepared == [d \in Documents |-> XML(d.text, d.size)]

VARIABLES file,     \* the file the request names
          call, numbered, closed

signerVars == <<file, call, numbered, closed>>

Encodings == {"DER", "PEM", "base64", "text"}

\* After the certificate: nothing, NUL bytes, or other bytes after a NUL.
Paddings == {"none", "NUL", "leftover"}

Idle == [pc |-> "idle", value |-> NoContainer, signID |-> 0, certs |-> <<>>,
         canceled |-> FALSE, result |-> "none"]

-----------------------------------------------------------------------------
(* parseNativeCertificate and isEmptyNativeCertificate *)

Output(encoding, padding, cert) ==
  [encoding |-> encoding, padding |-> padding, cert |-> cert]

\* Only padding, or a text that ends before it begins.
isEmptyNativeCertificate(out) == out.encoding = "empty"

\* DER is delimited by its own length and may be followed by NUL bytes only;
\* texts end at the first NUL.
parseNativeCertificate(out) ==
  CASE out.encoding = "DER"               -> out.padding \in {"none", "NUL"}
    [] out.encoding \in {"PEM", "base64"} -> TRUE
    [] OTHER                              -> FALSE

-----------------------------------------------------------------------------
(* The request *)

ReturnSigners(result) ==
  /\ call' = [call EXCEPT !.pc = "returned", !.result = result]
  /\ UNCHANGED <<file, numbered, closed>>

Continue(next) ==
  /\ call' = next
  /\ UNCHANGED <<file, numbered, closed>>

TooLarge(size) == MaxSize > 0 /\ size > MaxSize

Accept(value) ==
  IF TooLarge(value.size) THEN ReturnSigners("error")
  ELSE Continue([Idle EXCEPT !.pc = "lookup", !.value = value])

\* GetCertFromCMS: a container in a file is read first.
GetCertFromCMS(source) ==
  /\ call.pc = "idle"
  /\ IF source = "file" THEN Continue([Idle EXCEPT !.pc = "open"])
     ELSE \E c \in Containers : Accept(c)

\* GetCertFromXML: xmlInput refuses files, encodings other than raw text and
\* empty documents; every lookup uses the same copy without Ids.
GetCertFromXML(source) ==
  /\ call.pc = "idle"
  /\ IF source = "memory" THEN \E d \in Documents : Accept(Prepared[d])
     ELSE ReturnSigners("error")

\* os.Open and Stat; the size is a hint only.
OpenFile ==
  /\ call.pc = "open"
  /\ IF file = NoContainer THEN ReturnSigners("error")
     ELSE Continue([call EXCEPT !.pc = "read", !.value = file])

\* The bytes that are read, several reads in sequence: those of the file that was
\* opened, of what was written over it, or, when that happens between two reads,
\* of neither: then they are no container.
Contents ==
  {call.value, file} \cup {[c EXCEPT !.parses = FALSE] : c \in {call.value} \ {file}}

\* The file may have grown meanwhile; at most MaxSize + 1 bytes are read.  A read
\* may fail.
readCMSCertificateFile ==
  /\ call.pc = "read"
  /\ \/ ReturnSigners("error")
     \/ \E content \in Contents, gained \in 0..Growth :
          LET size == content.size + gained
              length == IF MaxSize > 0 /\ size > MaxSize + 1 THEN MaxSize + 1 ELSE size
          IN  IF TooLarge(length) THEN ReturnSigners("error")
              ELSE Continue([call EXCEPT !.pc = "lookup",
                                         !.value = [content EXCEPT !.size = length]])

\* External: the first signer with the number, counted from 1, or with the Id.
Selected(value, n) ==
  {i \in DOMAIN value.signers :
     /\ i = n \/ value.ids[i] = n
     /\ \A j \in DOMAIN value.signers : j = n \/ value.ids[j] = n => i <= j}

\* External: the library reports the end by an error code or an empty output.
\* One that ignores the number returns the first signer for ever, and one that
\* cannot parse its input only fails.
Answers(value, number) ==
  LET found == Selected(value, IF numbered THEN number ELSE 1)
  IN  IF ~value.parses THEN {}
      ELSE IF found = {} THEN {Output("empty", "NUL", 0), Output("endCode", "none", 0)}
      ELSE {Output(e, p, value.signers[i]) : e \in Encodings, p \in Paddings, i \in found}

\* What collectSignerCertificates makes of one answer.
Decide(out) ==
  IF out.encoding = "endCode" \/ isEmptyNativeCertificate(out)
  THEN IF call.certs = <<>> THEN ReturnSigners("error") ELSE ReturnSigners("ok")
  ELSE IF call.signID = maxExtractedSignerCertificates THEN ReturnSigners("tooMany")
  ELSE IF ~parseNativeCertificate(out) THEN ReturnSigners("error")
  ELSE Continue([call EXCEPT !.signID = @ + 1, !.certs = Append(@, out.cert)])

\* Mutant: every lookup reads the file again.
LookupAgain ==
  /\ call.pc = "lookup"
  /\ IF call.canceled \/ closed THEN ReturnSigners("error")
     ELSE \E out \in Answers(file, call.signID + 1) : Decide(out)

\* One lookup: the context, the gate, the library.
collectSignerCertificates ==
  /\ call.pc = "lookup"
  /\ IF call.canceled \/ closed THEN ReturnSigners("error")
     ELSE \E out \in Answers(call.value, call.signID + 1) : Decide(out)

\* An error other than the end code ends the extraction.
LookupFails ==
  /\ call.pc = "lookup"
  /\ ReturnSigners("error")

\* The caller has the result.
Leave ==
  /\ call.pc = "returned"
  /\ Continue(Idle)

-----------------------------------------------------------------------------
(* Everyone else *)

ReplaceFile(c) ==
  /\ file # c
  /\ file' = c
  /\ UNCHANGED <<call, numbered, closed>>

Cancel ==
  /\ call.pc \notin {"idle", "returned"} /\ ~call.canceled
  /\ Continue([call EXCEPT !.canceled = TRUE])

\* (*Client).Close: from then on withLockedLibraryResult refuses every lookup.
Close ==
  /\ ~closed
  /\ closed' = TRUE
  /\ UNCHANGED <<file, call, numbered>>

SignersInit ==
  /\ file \in Containers \cup {NoContainer}
  /\ call = Idle
  /\ numbered \in BOOLEAN
  /\ closed = FALSE

SignersStep == OpenFile \/ readCMSCertificateFile \/ collectSignerCertificates

SignersNext ==
  \/ \E source \in {"memory", "file"} : GetCertFromCMS(source) \/ GetCertFromXML(source)
  \/ SignersStep
  \/ LookupFails
  \/ Leave
  \/ \E c \in Containers \cup {NoContainer} : ReplaceFile(c)
  \/ Cancel
  \/ Close

SignersSpec == SignersInit /\ [][SignersNext]_signerVars

-----------------------------------------------------------------------------
(* Properties *)

\* The certificates returned are the signers of one container or document, all of
\* them, each once and in order, whatever the Ids of its signatures are: a file
\* that is replaced between two lookups does not mix in, one that grows past the
\* size limit while it is read is refused, and an extraction that is interrupted
\* returns nothing.  The limit on signers refuses only containers with more than
\* it allows, and stops a library that never reports the end.
SignersAreComplete ==
  /\ Len(call.certs) <= maxExtractedSignerCertificates
  /\ numbered =>
       /\ call.result = "ok" => call.certs = call.value.signers /\ ~TooLarge(call.value.size)
       /\ call.result = "tooMany" => Len(call.value.signers) > maxExtractedSignerCertificates

\* xmlCertificateInput promises a copy that "preserves every byte outside
\* unqualified ds:Signature Id attributes", in every encoding: what is cut out of
\* a well-formed document is exactly those attributes, and of any other document
\* nothing else; the rest stays in its order.  The copy is made once, before the
\* first lookup.
OnlyIdsRemoved ==
  call.pc = "lookup" /\ call.signID = 0 /\ ~call.canceled =>
    LET chars == DocumentChars(call.value.document)
        bytes == Range(DocumentBytes(call.value.document, chars))
        ids == SignatureIdBytes(call.value.document, chars)
        outside == {b \in bytes : b.at \notin ids}
        copy == Range(call.value.copy)
    IN  /\ InOrder(call.value.copy)
        /\ outside \subseteq copy /\ copy \subseteq bytes
        /\ call.value.parses => copy = outside
=============================================================================
