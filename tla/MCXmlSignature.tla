--------------------------- MODULE MCXmlSignature ---------------------------
(***************************************************************************)
(* Envelopes of both SOAP versions, with and without transforms, and the   *)
(* items that look like a part of a signature and are not quite one.       *)
(***************************************************************************)
EXTENDS XmlSignature

Id == <<"id">>

MCIds == {<<>>, Id}

El(space, local, attrs) == Elem(QName(space, local), attrs)

WithId(space, local) == El(space, local, <<Attr("wsu", "Id", Id)>>)

Payload == El("app", "Order", <<>>)

Ref(uri) == El("dsig", "Reference", <<Attr("", "URI", uri)>>)

Transform(algorithm) == El("dsig", "Transform", <<Attr("", "Algorithm", algorithm)>>)

Inclusive == El("exc", "InclusiveNamespaces", <<Attr("", "PrefixList", <<>>)>>)

Envelope(soap, transforms) ==
  <<At(0, El(soap, "Envelope", <<>>)), At(1, El("dsig", "Signature", <<>>)),
    At(2, El("dsig", "SignedInfo", <<>>)), At(3, Ref(<<"#", "id">>))>>
  \o transforms \o <<At(1, WithId(soap, "Body"))>>

Transforms ==
  <<At(4, El("dsig", "Transforms", <<>>)), At(5, Transform(<<"exc">>)), At(6, Inclusive)>>

MCDocuments ==
  {Envelope("soap", Transforms), Envelope("soap12", <<>>),
   <<At(0, Item("bom")), At(0, Payload)>>}

\* The last draft is as large as the envelope allows.
MCDrafts ==
  {<<At(0, Payload)>>, <<At(0, Payload), At(1, Payload), At(1, Item("text"))>>,
   <<At(0, El("soap", "Envelope", <<>>)), At(1, WithId("soap", "Body"))>>,
   <<At(0, Payload)>> \o [i \in 1..(MaxInputSize - 3) |-> At(1, Payload)]}

Parts ==
  {El("dsig", local, <<>>) : local \in {"Signature", "SignedInfo", "Reference", "Transforms"}}
  \cup {Ref(<<"#", "id">>), Transform(<<"exc">>), Transform(<<"c14n">>), Inclusive,
        El("app", "Transforms", <<>>), El("app", "Transform", <<>>),
        WithId("soap", "Body"), El("soap", "Body", <<>>), Payload}

Variants ==
  {El("dsig", "Transform", <<Attr("", "Algorithm", <<"exc">>), Attr("", "Extra", <<>>)>>),
   El("exc", "InclusiveNamespaces", <<>>),
   El("app", "Order", <<Attr("", "ID", <<" ", "id">>)>>),
   El("app", "Order", <<Attr("xmlns", "id", Id), Attr("", "xmlns", Id)>>),
   El("soap", "Body", <<Attr("wsu", "Id", Id), Attr("", "id", Id)>>),
   El("soap", "Body", <<Attr("wsu", "Id", Id), Attr("wsu", "Id", Id)>>),
   El("soap", "Body", <<Attr("wsu", "Id", <<" ", "id">>)>>),
   El("soap12", "Body", <<Attr("wsu", "Id", Id)>>),
   El("soap12", "Envelope", <<>>)}

Misc == {Item(kind) : kind \in {"text", "space", "comment", "directive", "charset", "bad", "bom"}}

\* Without the items that another stands for; a byte order mark inside a document
\* is text.
MCItems ==
  (Parts \cup Variants \cup Misc)
  \ {El("dsig", "Reference", <<>>), El("app", "Transforms", <<>>),
     El("exc", "InclusiveNamespaces", <<>>), El("soap12", "Envelope", <<>>),
     El("soap", "Body", <<>>), El("soap12", "Body", <<Attr("wsu", "Id", Id)>>),
     Item("text")}
=============================================================================
