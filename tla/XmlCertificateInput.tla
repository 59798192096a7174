------------------------ MODULE XmlCertificateInput ------------------------
(***************************************************************************)
(* certificate_xml_input.go: the copy of an XML document that is given to   *)
(* the library when the certificates of its signatures are looked up.  The  *)
(* library selects a signature by its number or by its Id, whichever it     *)
(* meets first, so the copy is the document without the Ids of signatures.  *)
(*                                                                         *)
(* A document is a sequence of tokens in one of the encodings.  The parts   *)
(* of a token are sequences of characters, and of a character only its      *)
(* widths matter: the code finds an attribute in a UTF-8 view of the        *)
(* document and cuts it out of the original bytes.  A byte is the character *)
(* it belongs to with the token and attribute around it.                    *)
(***************************************************************************)
EXTENDS Integers, Sequences, FiniteSets, Functions

\* "utf16" stands for either byte order, with or without a byte order mark;
\* a text in it that ends within a character is "utf16cut".
XmlEncodings == {"utf8", "legacy", "utf16", "utf16cut"}

Characters == {"a", "b", "c", "s"}

\* An attribute as the decoder resolves it.  In non-strict mode it also accepts
\* values without quotes ("unquoted") and names without a value ("bare").  A
\* value is a number, 0 for any other text, or -1 for one such as "Id='2'".
Attribute(space, local, form, value, chars) ==
  [space |-> space, local |-> local, form |-> form, value |-> value, chars |-> chars]

\* Tokens: a start tag of ds:Signature ("signature") or of another element
\* ("element"), anything else ("text"), or where the decoder stops with a
\* syntax error ("bad").  cert is the certificate of a signature.
Token(kind, attrs, chars, cert) ==
  [kind |-> kind, attrs |-> attrs, chars |-> chars, cert |-> cert]

\* The text of an attribute is never empty: it has a name.
Attributes ==
  [space : STRING, local : STRING, form : {"quoted", "unquoted", "bare"}, value : Int,
   chars : Seq(Characters) \ {<<>>}]

Tokens ==
  [kind : {"signature", "element", "text", "bad"}, attrs : Seq(Attributes),
   chars : Seq(Characters), cert : Nat]

XmlDocuments == [encoding : XmlEncodings, tokens : Seq(Tokens)]

-----------------------------------------------------------------------------
(* Characters.  "a" is ASCII; the others take two, three and four bytes in  *)
(* UTF-8, and the last is a surrogate pair in UTF-16.  A legacy encoding    *)
(* has one byte for each.                                                   *)

Utf8Width(c) == CASE c = "a" -> 1 [] c = "b" -> 2 [] c = "c" -> 3 [] c = "s" -> 4

Utf16Width(c) == IF c = "s" THEN 4 ELSE 2

SourceWidth(encoding, c) ==
  CASE encoding = "utf8"                 -> Utf8Width(c)
    [] encoding = "legacy"               -> 1
    [] encoding \in {"utf16", "utf16cut"} -> Utf16Width(c)

\* The view of a legacy text has a CJK character for each byte outside ASCII.
ViewWidth(encoding, c) ==
  CASE encoding \in {"utf8", "utf16"} -> Utf8Width(c)
    [] encoding = "legacy"            -> IF c = "a" THEN 1 ELSE 3
    [] encoding = "utf16cut"          -> Utf16Width(c)

Char(token, attr, c) == [token |-> token, attr |-> attr, char |-> c]

Spread(chars, token, attr) == [i \in DOMAIN chars |-> Char(token, attr, chars[i])]

\* The characters of the first attributes of token t, each after a space.  Those
\* outside attributes belong to attribute 0.
TagChars(token, t) ==
  LET tag[i \in 0..Len(token.attrs)] ==
        IF i = 0 THEN Spread(token.chars, t, 0)
        ELSE tag[i - 1] \o <<Char(t, 0, "a")>> \o Spread(token.attrs[i].chars, t, i)
  IN  tag

\* The characters of token t: a tag has attributes and an end.
TokenChars(token, t) ==
  IF token.kind \in {"signature", "element"}
  THEN TagChars(token, t)[Len(token.attrs)] \o <<Char(t, 0, "a")>>
  ELSE Spread(token.chars, t, 0)

\* The characters of the first tokens.
CharsUpto(d) ==
  LET upto[t \in 0..Len(d.tokens)] ==
        IF t = 0 THEN <<>> ELSE upto[t - 1] \o TokenChars(d.tokens[t], t)
  IN  upto

DocumentChars(d) == CharsUpto(d)[Len(d.tokens)]

\* How many bytes the first characters take, at width[c] for character c.
Widths(chars, width) ==
  LET upto[i \in 0..Len(chars)] == IF i = 0 THEN 0 ELSE upto[i - 1] + width[chars[i].char]
  IN  upto

Width(chars, n, width) == Widths(chars, width)[n]

View(d) == [c \in Characters |-> ViewWidth(d.encoding, c)]

Source(d) == [c \in Characters |-> SourceWidth(d.encoding, c)]

\* The bytes of the first characters, each the character it is part of.
BytesUpto(d, chars) ==
  LET upto[i \in 0..Len(chars)] ==
        IF i = 0 THEN <<>>
        ELSE upto[i - 1] \o [b \in 1..Source(d)[chars[i].char] |-> [at |-> i, byte |-> b]]
  IN  upto

DocumentBytes(d, chars) == BytesUpto(d, chars)[Len(chars)]

\* Bytes follow each other as they do in the document, none of them twice.
InOrder(bytes) ==
  \A x, y \in DOMAIN bytes :
    x < y => \/ bytes[x].at < bytes[y].at
             \/ bytes[x].at = bytes[y].at /\ bytes[x].byte < bytes[y].byte

-----------------------------------------------------------------------------
(* The scan.  xmlCertificateScanView yields the view and sourceOffset, which *)
(* remembers how far it has read: n characters.                              *)

\* Mutant: a character outside ASCII counts as two bytes of the view.
sourceOffsetInUnits(chars, n, offset, view) ==
  LET units == [c \in Characters |-> IF c = "a" THEN 1 ELSE 2]
  IN  CHOOSE m \in n..Len(chars) :
        /\ Width(chars, m, units) >= offset \/ m = Len(chars)
        /\ \A l \in n..(m - 1) : Width(chars, l, units) < offset

\* Characters are consumed until the view has reached the offset.
sourceOffset(chars, n, offset, view) ==
  CHOOSE m \in n..Len(chars) :
    /\ Width(chars, m, view) >= offset \/ m = Len(chars)
    /\ \A l \in n..(m - 1) : Width(chars, l, view) < offset

\* Where an attribute begins and ends: the number of characters before it, and
\* before what follows it.
AttributeBegins(chars, t, i) ==
  CHOOSE n \in 0..(Len(chars) - 1) :
    /\ chars[n + 1].token = t /\ chars[n + 1].attr = i
    /\ \A m \in 1..n : chars[m].token # t \/ chars[m].attr # i

AttributeEnds(chars, t, i, token) == AttributeBegins(chars, t, i) + Len(token.attrs[i].chars)

IsId(attribute) == attribute.space = "" /\ attribute.local = "Id"

\* Mutant: the text of the name is looked for inside quoted values too.
xmlSignatureIDTextAnywhere(token) ==
  LET found == {i \in DOMAIN token.attrs : IsId(token.attrs[i]) \/ token.attrs[i].value = -1}
  IN  IF found = {} THEN 0 ELSE CHOOSE i \in found : \A j \in found : i <= j

\* xmlSignatureIDAttribute: the first Id, unless an attribute before it, or it
\* itself, is not a name with a quoted value; 0 for none.
xmlSignatureIDAttribute(token) ==
  LET found == {i \in DOMAIN token.attrs :
                  /\ IsId(token.attrs[i])
                  /\ \A j \in 1..i : token.attrs[j].form = "quoted"}
  IN  IF found = {} THEN 0 ELSE CHOOSE i \in found : \A j \in found : i <= j

UniqueAttributes(token) ==
  \A i, j \in DOMAIN token.attrs :
    token.attrs[i].space = token.attrs[j].space /\ token.attrs[i].local = token.attrs[j].local => i = j

\* keptFrom: the bytes before it are copied or cut; read: how far sourceOffset
\* has come; changed: out # nil.
ScanStart == [out |-> <<>>, keptFrom |-> 0, read |-> 0, changed |-> FALSE, unreadable |-> FALSE]

Cut(s, bytes, from, until, read) ==
  [s EXCEPT !.out = @ \o SubSeq(bytes, s.keptFrom + 1, from),
            !.keptFrom = until, !.read = read, !.changed = TRUE]

\* One turn of the loop, for token t.
Visit(s, d, chars, bytes, t) ==
  LET token == d.tokens[t]
      id == xmlSignatureIDAttribute(token)
      begins == Width(chars, AttributeBegins(chars, t, id), View(d))
      ends == Width(chars, AttributeEnds(chars, t, id, token), View(d))
      first == sourceOffset(chars, s.read, begins, View(d))
      last == sourceOffset(chars, first, ends, View(d))
  IN  IF s.unreadable THEN s
      ELSE IF token.kind = "bad" THEN [s EXCEPT !.unreadable = TRUE]
      ELSE IF token.kind # "signature" THEN s
      ELSE IF ~UniqueAttributes(token) THEN [s EXCEPT !.unreadable = TRUE]
      ELSE IF (\A i \in DOMAIN token.attrs : ~IsId(token.attrs[i])) \/ id = 0 THEN s
      ELSE Cut(s, bytes, Width(chars, first, Source(d)), Width(chars, last, Source(d)), last)

\* The state of the loop after the first tokens.  The bytes of a UTF-16 text that
\* is cut off are no XML to the decoder.
ScanUpto(d, chars, bytes) ==
  LET scan[t \in 0..Len(d.tokens)] ==
        IF t = 0 THEN [ScanStart EXCEPT !.unreadable = d.encoding = "utf16cut"]
        ELSE Visit(scan[t - 1], d, chars, bytes, t)
  IN  scan

xmlCertificateInput(d) ==
  LET chars == DocumentChars(d)
      bytes == DocumentBytes(d, chars)
      end == ScanUpto(d, chars, bytes)[Len(d.tokens)]
  IN  IF end.unreadable \/ ~end.changed THEN bytes
      ELSE end.out \o SubSeq(bytes, end.keptFrom + 1, Len(bytes))

-----------------------------------------------------------------------------
(* The library's side (external).                                          *)

\* What a DTD adds, entities and default attributes, has no tokens: the decoder
\* leaves it to the SDK.
WellFormed(d) ==
  /\ d.encoding # "utf16cut"
  /\ \A t \in DOMAIN d.tokens :
       /\ d.tokens[t].kind # "bad"
       /\ UniqueAttributes(d.tokens[t])
       /\ \A i \in DOMAIN d.tokens[t].attrs : d.tokens[t].attrs[i].form = "quoted"

\* The signatures among the first tokens, in document order.
SignaturesUpto(d) ==
  LET upto[t \in 0..Len(d.tokens)] ==
        IF t = 0 THEN <<>>
        ELSE IF d.tokens[t].kind = "signature" THEN Append(upto[t - 1], t)
        ELSE upto[t - 1]
  IN  upto

Signatures(d) == SignaturesUpto(d)[Len(d.tokens)]

Certificates(d) == [n \in DOMAIN Signatures(d) |-> d.tokens[Signatures(d)[n]].cert]

\* The bytes of the Ids of signatures.
SignatureIdBytes(d, chars) ==
  {n \in DOMAIN chars :
     /\ chars[n].attr # 0
     /\ d.tokens[chars[n].token].kind = "signature"
     /\ IsId(d.tokens[chars[n].token].attrs[chars[n].attr])}

\* The Ids that the library finds at each signature of a copy, 0 for none
\* or one that is no number.
LibraryIds(d, copy) ==
  LET chars == DocumentChars(d)
      kept == {chars[copy[b].at] : b \in DOMAIN copy}
      ids(t) == {i \in DOMAIN d.tokens[t].attrs :
                   IsId(d.tokens[t].attrs[i]) /\ \E c \in kept : c.token = t /\ c.attr = i}
  IN  [n \in DOMAIN Signatures(d) |->
         LET t == Signatures(d)[n]
         IN  IF ids(t) = {} THEN 0 ELSE d.tokens[t].attrs[CHOOSE i \in ids(t) : TRUE].value]
=============================================================================
