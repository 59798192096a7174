---------------------------- MODULE XmlSignature ----------------------------
(***************************************************************************)
(* SOAP signatures (xml.go): how SignWSSE builds an envelope and which     *)
(* documents VerifyXML hands to the native verifier.  A document is the    *)
(* sequence of its items in document order, each with its depth; an        *)
(* element ends where an item of its depth or less follows.  Strings are   *)
(* sequences of the parts that matter: the fragment of x is <<"#", x>>,    *)
(* and x after a space is <<" ", x>>.  VerifyXML decides with one pass     *)
(* over the tokens; the properties compare it with what the tree says.     *)
(***************************************************************************)
EXTENDS Integers, Sequences, FiniteSets

CONSTANTS Drafts,       \* what callers give SignWSSE
          Documents,    \* what other producers signed
          Items,        \* what an edit may put into a document
          Ids,          \* body identifiers that callers pass
          MaxEdits, MaxDraftEdits,   \* how often a document or draft is altered
          MaxInputSize  \* the input limit of the client, in items

VARIABLES doc,      \* the document
          draft,    \* what SignWSSE was given, while doc is what it returned
          edits,    \* how often doc was altered
          stage,    \* "draft", "signed", then "native" or "refused"
          request   \* the latest request

vars == <<doc, draft, edits, stage, request>>

-----------------------------------------------------------------------------
(* Documents.  encoding/xml is external: an item "bad" is where its decoder *)
(* reports a syntax error, "charset" a declaration of an encoding that it   *)
(* cannot read.                                                             *)

QName(space, local) == [space |-> space, local |-> local]

Attr(space, local, value) == [name |-> QName(space, local), value |-> value]

Elem(name, attrs) == [kind |-> "elem", name |-> name, attrs |-> attrs]

Item(kind) == [kind |-> kind, name |-> QName("", ""), attrs |-> <<>>]

At(depth, item) == [depth |-> depth, item |-> item]

IsElem(d, i) == d[i].item.kind = "elem"

\* The depth of what an item contains.
Inner(n) == n.depth + (IF n.item.kind = "elem" THEN 1 ELSE 0)

IsDocument(d) ==
  \A i \in DOMAIN d : d[i].depth \in 0 .. (IF i = 1 THEN 0 ELSE Inner(d[i - 1]))

Shifted(d, by) == [i \in DOMAIN d |-> At(d[i].depth + by, d[i].item)]

Blank(item) == item.kind = "space"

\* A byte order mark that is not the start of the document is text.
NonWhitespaceText(item) == item.kind \in {"text", "bom"}

Trim(value) == IF value # <<>> /\ Head(value) = " " THEN Tail(value) ELSE value

-----------------------------------------------------------------------------
(* Names and attributes *)

isSOAPEnvelope(name) == name.local = "Envelope" /\ name.space \in {"soap", "soap12"}

isSOAPBody(name) == name.local = "Body" /\ name.space \in {"soap", "soap12"}

isDSig(name, local) == name = QName("dsig", local)

isXMLNamespaceDeclaration(name) ==
  name.space = "xmlns" \/ name = QName("", "xmlns")

\* The value of the first attribute of that name without a namespace.
plainAttribute(e, local) ==
  LET at == {i \in DOMAIN e.attrs : e.attrs[i].name = QName("", local)}
  IN  IF at = {} THEN <<>> ELSE e.attrs[CHOOSE i \in at : \A j \in at : i <= j].value

hasWSUID(e, id) == \E i \in DOMAIN e.attrs : e.attrs[i] = Attr("wsu", "Id", id)

\* Any namespace, any of the usual spellings, surrounding space ignored.
MatchesXMLID(attr, id) ==
  /\ ~isXMLNamespaceDeclaration(attr.name)
  /\ attr.name.local \in {"Id", "ID", "id"}
  /\ Trim(attr.value) = id

\* Mutant: identifiers are compared with their surrounding space.
matchingXMLIDCountAsWritten(e, id) ==
  Cardinality({i \in DOMAIN e.attrs : /\ e.attrs[i].name.local \in {"Id", "ID", "id"}
                                      /\ e.attrs[i].value = id})

matchingXMLIDCount(e, id) ==
  Cardinality({i \in DOMAIN e.attrs : id # <<>> /\ MatchesXMLID(e.attrs[i], id)})

validateUniqueXMLAttributes(e) ==
  \A i, j \in DOMAIN e.attrs : e.attrs[i].name = e.attrs[j].name => i = j

OnlyAttribute(e, local) ==
  \A i \in DOMAIN e.attrs : \/ e.attrs[i].name = QName("", local)
                            \/ isXMLNamespaceDeclaration(e.attrs[i].name)

validateSOAPBodyTransformAttributes(e) == OnlyAttribute(e, "Algorithm")

validateInclusiveNamespacesAttributes(e) ==
  /\ OnlyAttribute(e, "PrefixList")
  /\ \E i \in DOMAIN e.attrs : e.attrs[i].name = QName("", "PrefixList")

isXMLNCName(value) == Len(value) = 1 /\ Head(value) \notin {" ", "#"}

validateSOAPBodyID(id) == Trim(id) # <<>> /\ id = Trim(id) /\ isXMLNCName(id)

-----------------------------------------------------------------------------
(* The scan.  s holds soapVerificationState, the depth markers and counters *)
(* of soapBodyReferenceTransformState, and the names of the open elements.  *)

Scan ==
  [failed |-> FALSE, stack |-> <<>>, root |-> QName("", ""),
   documentElements |-> 0, bodies |-> 0, directBodies |-> 0, expectedBodies |-> 0,
   ids |-> 0, signatures |-> 0, signedInfos |-> 0, directSignedInfos |-> 0,
   references |-> 0,
   referenceDepth |-> -1, transformsDepth |-> -1, transformDepth |-> -1,
   containers |-> 0, transforms |-> 0, parameters |-> 0]

Count(condition) == IF condition THEN 1 ELSE 0

isDirectExpectedSOAPBodyReference(s, e, id) ==
  LET depth == Len(s.stack)
  IN  /\ isDSig(e.name, "Reference")
      /\ depth >= 2
      /\ isDSig(s.stack[depth], "SignedInfo")
      /\ isDSig(s.stack[depth - 1], "Signature")
      /\ plainAttribute(e, "URI") = <<"#">> \o id

EntersParameter(s) == s.transformDepth >= 0 /\ Len(s.stack) > s.transformDepth

observeParameterRefuses(s, e) ==
  \/ Len(s.stack) # s.transformDepth + 1
  \/ e.name # QName("exc", "InclusiveNamespaces")
  \/ s.parameters >= 1
  \/ ~validateInclusiveNamespacesAttributes(e)

TransformsRefused(s, e) ==
  \/ e.name.space # "dsig"
  \/ Len(s.stack) # s.referenceDepth + 1
  \/ s.containers >= 1

\* Mutant: a transform may be beside its container.
TransformRefusedOffByOne(s, e) ==
  \/ e.name.space # "dsig"
  \/ s.transformsDepth < 0
  \/ Len(s.stack) # s.transformsDepth
  \/ s.transforms = 0 /\ plainAttribute(e, "Algorithm") # <<"exc">>
  \/ ~validateSOAPBodyTransformAttributes(e)

TransformRefused(s, e) ==
  \/ e.name.space # "dsig"
  \/ s.transformsDepth < 0
  \/ Len(s.stack) # s.transformsDepth + 1
  \/ ~isDSig(s.stack[Len(s.stack)], "Transforms")
  \/ s.transforms = 0 /\ plainAttribute(e, "Algorithm") # <<"exc">>
  \/ ~validateSOAPBodyTransformAttributes(e)

\* Inside the reference to the body: what may not appear.
observeStartRefuses(s, e) ==
  /\ s.referenceDepth >= 0
  /\ IF EntersParameter(s) THEN observeParameterRefuses(s, e)
     ELSE \/ isDSig(e.name, "Reference")
          \/ e.name.local = "Transforms" /\ TransformsRefused(s, e)
          \/ e.name.local = "Transform" /\ TransformRefused(s, e)
          \/ /\ e.name.local \notin {"Transforms", "Transform"}
             /\ s.transformsDepth >= 0
             /\ Len(s.stack) = s.transformsDepth + 1

observeStart(s, e, id) ==
  LET depth == Len(s.stack)
  IN  CASE s.referenceDepth < 0 ->
             IF ~isDirectExpectedSOAPBodyReference(s, e, id) THEN s
             ELSE [s EXCEPT !.referenceDepth = depth, !.transformsDepth = -1,
                            !.transformDepth = -1, !.containers = 0,
                            !.transforms = 0, !.parameters = 0]
        [] s.referenceDepth >= 0 /\ EntersParameter(s) ->
             [s EXCEPT !.parameters = @ + 1]
        [] s.referenceDepth >= 0 /\ ~EntersParameter(s) ->
             CASE e.name.local = "Transforms" ->
                    [s EXCEPT !.containers = @ + 1, !.transformsDepth = depth]
               [] e.name.local = "Transform" ->
                    [s EXCEPT !.transforms = @ + 1, !.transformDepth = depth]
               [] OTHER -> s

observeXMLVerificationElement(s, e, id) ==
  LET depth == Len(s.stack)
      root  == IF depth = 0 /\ s.documentElements = 0 THEN e.name ELSE s.root
      info  == isDSig(e.name, "SignedInfo")
      body  == isSOAPBody(e.name)
      direct == body /\ depth = 1 /\ isSOAPEnvelope(root) /\ e.name.space = root.space
  IN  [s EXCEPT
         !.root = root,
         !.documentElements = @ + Count(depth = 0),
         !.ids = @ + matchingXMLIDCount(e, id),
         !.signatures = @ + Count(isDSig(e.name, "Signature")),
         !.signedInfos = @ + Count(info),
         !.directSignedInfos =
            @ + Count(info /\ depth > 0 /\ isDSig(s.stack[depth], "Signature")),
         !.references = @ + Count(isDirectExpectedSOAPBodyReference(s, e, id)),
         !.bodies = @ + Count(body),
         !.directBodies = @ + Count(direct),
         !.expectedBodies = @ + Count(direct /\ hasWSUID(e, id))]

observeXMLVerificationStart(s, e, id) ==
  IF ~validateUniqueXMLAttributes(e) \/ observeStartRefuses(s, e)
  THEN [s EXCEPT !.failed = TRUE]
  ELSE [observeXMLVerificationElement(observeStart(s, e, id), e, id)
          EXCEPT !.stack = Append(s.stack, e.name)]

\* The end of an element leaves the markers of its depth; the end of the
\* reference checks what it contained.
Marker(marker, depth) == IF marker = depth THEN -1 ELSE marker

observeEnd(s) ==
  LET depth == Len(s.stack) - 1
      done  == depth = s.referenceDepth
  IN  [s EXCEPT
         !.stack = SubSeq(@, 1, depth),
         !.transformDepth = IF done THEN -1 ELSE Marker(@, depth),
         !.transformsDepth = IF done THEN -1 ELSE Marker(@, depth),
         !.referenceDepth = Marker(@, depth),
         !.parameters = IF done THEN 0 ELSE @,
         !.failed = @ \/ (done /\ s.containers > 0 /\ s.transforms # 1)]

observeCharData(s, item) ==
  [s EXCEPT !.failed = @ \/ ( /\ NonWhitespaceText(item)
                              /\ s.transformsDepth >= 0 \/ s.stack = <<>> )]

Observe(s, item, id) ==
  CASE item.kind = "elem" -> observeXMLVerificationStart(s, item, id)
    [] item.kind \in {"text", "bom", "space"} -> observeCharData(s, item)
    [] item.kind \in {"directive", "bad", "charset"} -> [s EXCEPT !.failed = TRUE]
    [] item.kind = "comment" -> s

\* After the item come the ends of the elements that the next item is not in.
ObserveEnds(s, depth) ==
  LET after[n \in 0 .. Len(s.stack)] ==
        IF n = 0 THEN s ELSE observeEnd(after[n - 1])
  IN  IF s.failed THEN s ELSE after[Len(s.stack) - depth]

collectSOAPVerificationState(d, first, id) ==
  LET depthAfter(i) == IF i = Len(d) THEN 0 ELSE d[i + 1].depth
      scan[i \in (first - 1) .. Len(d)] ==
        IF i < first THEN Scan
        ELSE LET s == scan[i - 1]
             IN  IF s.failed THEN s
                 ELSE ObserveEnds(Observe(s, d[i].item, id), depthAfter(i))
  IN  scan[Len(d)]

validateSOAPVerificationState(s) ==
  /\ ~s.failed
  /\ s.documentElements = 1
  /\ s.signatures = 1
  /\ s.signedInfos = 1
  /\ s.directSignedInfos = 1
  /\ s.bodies = 1
  /\ s.directBodies = 1
  /\ s.ids = 1
  /\ s.expectedBodies = 1
  /\ s.references = 1

Elems(d) == {i \in DOMAIN d : IsElem(d, i)}

\* The document element, or 0.
First(d) ==
  IF Elems(d) = {} THEN 0 ELSE CHOOSE i \in Elems(d) : \A j \in Elems(d) : i <= j

Preamble(d) == {d[i].item.kind : i \in 1 .. (First(d) - 1)}

\* The strict decoder stops at an encoding it cannot read, the other does not.
scanXMLDocumentRoot(d, unreadable) ==
  First(d) # 0 /\ Preamble(d) \cap unreadable = {}

TrimBOM(d) == IF d # <<>> /\ d[1].item.kind = "bom" THEN Tail(d) ELSE d

validateXMLVerificationStructure(document, id) ==
  LET d      == TrimBOM(document)
      first  == First(d)
      isSOAP == isSOAPEnvelope(d[first].item.name)
      rootAllowed == isSOAP = (id # <<>>)
  IN  /\ id # <<>> => validateSOAPBodyID(id)
      /\ scanXMLDocumentRoot(d, {"bad"})
      /\ rootAllowed
      /\ isSOAP => /\ scanXMLDocumentRoot(d, {"bad", "charset"})
                   /\ Preamble(d) \cap {"directive", "text", "bom"} = {}
                   /\ validateSOAPVerificationState(collectSOAPVerificationState(d, first, id))

-----------------------------------------------------------------------------
(* Requests.  A source that is absent, a file or encoded is refused before  *)
(* anything else happens and is not represented.                            *)

validateBytesSize(d) == MaxInputSize <= 0 \/ Len(d) <= MaxInputSize

xmlInput(d) == validateBytesSize(d) /\ \E i \in DOMAIN d : ~Blank(d[i].item)

validateSingleXMLElement(d) ==
  /\ \A i \in DOMAIN d : d[i].item.kind \notin {"bad", "charset"}
  /\ \A i \in DOMAIN d : d[i].depth = 0 => d[i].item.kind \in {"elem", "space"}
  /\ Cardinality({i \in Elems(d) : d[i].depth = 0}) = 1

wrapSOAPBody(d, id) ==
  <<At(0, Elem(QName("soap", "Envelope"), <<>>)),
    At(1, Elem(QName("soap", "Body"), <<Attr("wsu", "Id", id)>>))>> \o Shifted(d, 2)

\* The SDK puts the signature into a header and signs the element of that
\* identifier with the canonicalization asked for.
CanSign(d, id) ==
  /\ \A i \in DOMAIN d : d[i].item.kind # "bad"
  /\ \E i \in Elems(d) : hasWSUID(d[i].item, id)

NativeSignWSSE(d, id, algorithm) ==
  LET first == First(d)
      names == <<QName("soap", "Header"), QName("dsig", "Signature"), QName("dsig", "SignedInfo"),
                 QName("dsig", "Reference"), QName("dsig", "Transforms"), QName("dsig", "Transform")>>
      attrs == <<<<>>, <<>>, <<>>, <<Attr("", "URI", <<"#">> \o id)>>, <<>>,
                 <<Attr("", "Algorithm", algorithm)>>>>
  IN  SubSeq(d, 1, first)
        \o [n \in 1 .. 6 |-> At(n, Elem(names[n], attrs[n]))]
        \o SubSeq(d, first + 1, Len(d))

NoRequest == [op |-> "none", wrap |-> FALSE, id |-> <<>>, algorithm |-> <<>>]

Init ==
  /\ \/ doc \in Drafts /\ stage = "draft" /\ edits = MaxDraftEdits
     \/ doc \in Documents /\ stage = "signed" /\ edits = MaxEdits
  /\ draft = <<>>
  /\ request = NoRequest

SignWSSE(wrap, id, algorithm) ==
  LET input == IF wrap THEN wrapSOAPBody(doc, id) ELSE doc
      allowed == /\ xmlInput(doc)
                 /\ validateSOAPBodyID(id)
                 /\ wrap => validateSingleXMLElement(doc) /\ validateBytesSize(input)
  IN  /\ stage = "draft"
      /\ request' = [op |-> "SignWSSE", wrap |-> wrap, id |-> id, algorithm |-> algorithm]
      /\ \/ /\ allowed /\ CanSign(input, id)
            /\ doc' = NativeSignWSSE(input, id, algorithm)
            /\ draft' = doc
            /\ stage' = "signed"
         \/ /\ ~allowed \/ ~CanSign(input, id)
            /\ stage' = "refused"
            /\ UNCHANGED <<doc, draft>>
      /\ UNCHANGED edits

VerifyXML(id) ==
  /\ stage = "signed"
  /\ request' = [NoRequest EXCEPT !.op = "VerifyXML", !.id = id]
  /\ stage' = IF xmlInput(doc) /\ validateXMLVerificationStructure(doc, id)
              THEN "native" ELSE "refused"
  /\ draft' = <<>>
  /\ UNCHANGED <<doc, edits>>

-----------------------------------------------------------------------------
(* Documents differ from the ones above by a few edits: another item in the *)
(* place of one, one more, one less (its content moves up), or one around   *)
(* an element.                                                              *)

\* The last item inside item i.
Last(d, i) ==
  CHOOSE j \in i .. Len(d) :
    /\ \A k \in (i + 1) .. j : d[k].depth > d[i].depth
    /\ j = Len(d) \/ d[j + 1].depth <= d[i].depth

ShiftedWithin(d, i, j, by) == SubSeq(d, 1, i - 1) \o Shifted(SubSeq(d, i, j), by) \o SubSeq(d, j + 1, Len(d))

InsertedAt(d, i, n) == SubSeq(d, 1, i - 1) \o <<n>> \o SubSeq(d, i, Len(d))

Edits(d) ==
  {[d EXCEPT ![i].item = item] : i \in DOMAIN d, item \in Items}
  \cup {InsertedAt(d, i, At(depth, item)) :
          i \in 1 .. (Len(d) + 1), depth \in 0 .. 8, item \in Items}
  \cup {LET m == ShiftedWithin(d, i, Last(d, i), -1)
        IN  SubSeq(m, 1, i - 1) \o SubSeq(m, i + 1, Len(m)) : i \in DOMAIN d}
  \cup {InsertedAt(ShiftedWithin(d, i, Last(d, i), 1), i, At(d[i].depth, item)) :
          i \in DOMAIN d, item \in Items}

Alter ==
  /\ stage \in {"draft", "signed"}
  /\ edits > 0
  /\ doc' \in {d \in Edits(doc) : IsDocument(d)}
  /\ edits' = edits - 1
  /\ draft' = <<>>
  /\ request' = NoRequest
  /\ UNCHANGED stage

Next ==
  \/ \E wrap \in BOOLEAN, id \in Ids, algorithm \in {<<"exc">>, <<"c14n">>} :
        SignWSSE(wrap, id, algorithm)
  \/ \E id \in Ids : VerifyXML(id)
  \/ Alter

Spec == Init /\ [][Next]_vars

-----------------------------------------------------------------------------
(* The reference: what the tree says *)

Parent(d, i) ==
  LET above == {j \in 1 .. (i - 1) : IsElem(d, j) /\ d[j].depth = d[i].depth - 1}
  IN  IF above = {} THEN 0 ELSE CHOOSE j \in above : \A k \in above : k <= j

Named(d, name) == {i \in Elems(d) : d[i].item.name = name}

Inside(d, i) == (i + 1) .. Last(d, i)

Kids(d, i) == {j \in Inside(d, i) : d[j].depth = d[i].depth + 1}

\* The elements that a lookup of the identifier can return.
Resolved(d, id) ==
  {i \in Elems(d) : \E a \in DOMAIN d[i].item.attrs : MatchesXMLID(d[i].item.attrs[a], id)}

\* The elements that a SOAP processor takes for the body of the message.
Delivered(d) ==
  {i \in Elems(d) : d[i].depth = 1 /\ d[i].item.name = QName(d[First(d)].item.name.space, "Body")}

References(d, id) ==
  {i \in Named(d, QName("dsig", "Reference")) :
     /\ plainAttribute(d[i].item, "URI") = <<"#">> \o id
     /\ Parent(d, i) \in Named(d, QName("dsig", "SignedInfo"))
     /\ Parent(d, Parent(d, i)) \in Named(d, QName("dsig", "Signature"))}

\* The digest of reference r is that of the element and nothing but
\* exclusive canonicalization was applied to it.
ExclusiveOnly(d, r) ==
  LET lists == {i \in Inside(d, r) : IsElem(d, i) /\ d[i].item.name.local = "Transforms"}
      steps == {i \in Inside(d, r) : IsElem(d, i) /\ d[i].item.name.local = "Transform"}
      nested == {i \in Inside(d, r) : IsElem(d, i) /\ isDSig(d[i].item.name, "Reference")}
  IN  /\ nested = {}
      /\ lists = {} => steps = {}
      /\ lists # {} =>
           \E l \in Kids(d, r), t \in Inside(d, r) :
              /\ lists = {l} /\ isDSig(d[l].item.name, "Transforms")
              /\ steps = {t} /\ isDSig(d[t].item.name, "Transform") /\ Parent(d, t) = l
              /\ \A i \in Inside(d, l) : ~NonWhitespaceText(d[i].item)
              /\ \A i \in Kids(d, l) : IsElem(d, i) => i = t
              /\ plainAttribute(d[t].item, "Algorithm") = <<"exc">>
              /\ OnlyAttribute(d[t].item, "Algorithm")
              /\ \A i, j \in Inside(d, t) : IsElem(d, i) /\ IsElem(d, j) => i = j
              /\ \A i \in Inside(d, t) :
                    IsElem(d, i) => /\ Parent(d, i) = t
                                    /\ d[i].item.name = QName("exc", "InclusiveNamespaces")
                                    /\ validateInclusiveNamespacesAttributes(d[i].item)

\* The one signature covers the element that will be delivered.
Binds(d, id) ==
  /\ validateSOAPBodyID(id)
  /\ \A i \in DOMAIN d : d[i].item.kind \notin {"bad", "charset", "directive"}
  /\ \A i \in DOMAIN d :
        d[i].depth = 0 => i = First(d) \/ ~(IsElem(d, i) \/ NonWhitespaceText(d[i].item))
  /\ \A i \in Elems(d) : validateUniqueXMLAttributes(d[i].item)
  /\ Cardinality(Named(d, QName("dsig", "Signature"))) = 1
  /\ Cardinality(Named(d, QName("dsig", "SignedInfo"))) = 1
  /\ \E b \in Elems(d) :
        /\ Delivered(d) = {b} /\ Resolved(d, id) = {b} /\ hasWSUID(d[b].item, id)
        /\ {i \in Elems(d) : isSOAPBody(d[i].item.name)} = {b}
        /\ Cardinality({a \in DOMAIN d[b].item.attrs : MatchesXMLID(d[b].item.attrs[a], id)}) = 1
  /\ \E r \in Elems(d) : References(d, id) = {r} /\ ExclusiveOnly(d, r)

IsSOAP(d) == First(d) # 0 /\ isSOAPEnvelope(d[First(d)].item.name)

\* What VerifyXML hands to the native verifier as a SOAP message has one
\* signature, one reference to the identifier the caller expects, and every
\* lookup of that identifier finds the body that will be delivered: what is
\* verified is what is used.  And it refuses no SOAP message that is signed that
\* way, and no other document for which no body is expected, as long as its
\* root can be read.
VerifiedIsDelivered ==
  /\ stage = "native" /\ IsSOAP(doc) => Binds(TrimBOM(doc), request.id)
  /\ stage = "refused" /\ request.op = "VerifyXML" /\ xmlInput(doc) =>
       LET d == TrimBOM(doc)
       IN  IF IsSOAP(d) THEN ~Binds(d, request.id)
           ELSE First(d) = 0 \/ "bad" \in Preamble(d) \/ request.id # <<>>

\* What a payload may contain without interfering with the signature.
Unrelated(d, id) ==
  \A i \in DOMAIN d :
     /\ d[i].item.kind \notin {"directive", "charset", "bad"}
     /\ IsElem(d, i) =>
          /\ d[i].item.name.space \notin {"soap", "soap12", "dsig"}
          /\ Resolved(<<d[i]>>, id) = {}
          /\ validateUniqueXMLAttributes(d[i].item)

\* A payload that SignWSSE wrapped is alone in the body of the envelope and
\* unchanged, the envelope is within the input limit, and if it was signed with
\* exclusive canonicalization it passes the structural check of VerifyXML for
\* the same BodyID.
SignedIsVerifiable ==
  stage = "signed" /\ request.wrap =>
    /\ \E b \in Delivered(doc) :
         /\ Delivered(doc) = {b}
         /\ SubSeq(doc, b + 1, Last(doc, b)) = Shifted(draft, 2)
         /\ Cardinality({i \in Kids(doc, b) : IsElem(doc, i)}) = 1
    /\ MaxInputSize > 0 => 2 + Len(draft) <= MaxInputSize
    /\ request.algorithm = <<"exc">> /\ Unrelated(draft, request.id) =>
         validateXMLVerificationStructure(doc, request.id)
=============================================================================
