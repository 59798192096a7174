--------------------------- MODULE XmlInputProofs ---------------------------
(***************************************************************************)
(* The rewriting of a document before its certificates are extracted       *)
(* (certificate_xml_input.go), for every document: the identifiers that    *)
(* the SDK could resolve instead of a number are gone from what it is      *)
(* given, and every other byte is kept, once and in its place.  The scans  *)
(* are recursive functions over the characters and the tokens of the       *)
(* document; what they compute is shown by induction on what was read.     *)
(***************************************************************************)
EXTENDS XmlCertificateInput, WellFoundedInduction, TLAPS

\* A nonempty set of natural numbers has a least element.
LEMMA Least ==
  ASSUME NEW S, S \subseteq Nat, S # {}
  PROVE  \E m \in S : \A k \in S : m <= k
  <1> DEFINE R == {ss \in Nat \X Nat : ss[1] < ss[2]}
  <1>1. IsWellFoundedOn(R, Nat)
    BY Zenon, NatLessThanWellFounded DEF OpToRel
  <1>2. \E x \in S : \A y \in S : ~ (<<y, x>> \in R)
    <2> HIDE DEF R
    <2> QED BY Zenon, <1>1, WFMin
  <1>3. PICK x \in S : \A y \in S : ~ (<<y, x>> \in R)
    BY Zenon, <1>2
  <1>4. ASSUME NEW y \in S PROVE x <= y
    <2>1. y \in Nat /\ x \in Nat
      BY Zenon
    <2>2. ~ (y < x)
      BY <1>3, <2>1, Zenon
    <2> QED BY <2>1, <2>2
  <1> QED BY Zenon, <1>4

\* Induction up to n.
LEMMA Upward ==
  ASSUME NEW n \in Nat, NEW S, 0 \in S, \A k \in 0..(n - 1) : k \in S => k + 1 \in S
  PROVE  \A k \in 0..n : k \in S
  <1> DEFINE T == (0..n) \ S
  <1> SUFFICES ASSUME T # {} PROVE FALSE
    BY Zenon
  <1>1. T \subseteq Nat
    OBVIOUS
  <1>2. PICK m \in T : \A k \in T : m <= k
    BY Zenon, <1>1, Least
  <1>3. m \in 1..n /\ m - 1 \in 0..(n - 1) /\ (m - 1) + 1 = m
    BY <1>2
  <1>4. m - 1 \in S
    BY <1>2, <1>3
  <1> QED BY Zenon, <1>2, <1>3, <1>4

\* Step i leads from a value in S[i - 1] to one in S[i].
Closed(G, n, S) == \A i \in 1..n : \A x \in S[i - 1] : G[i][x] \in S[i]

\* g begins with a, and each value follows from the one before by G.
Follows(g, n, S, a, G) ==
  /\ g = [i \in 0..n |-> g[i]]
  /\ \A i \in 0..n : g[i] \in S[i]
  /\ g[0] = a /\ \A i \in 1..n : g[i] = G[i][g[i - 1]]

\* A function is defined by its first value and how each follows from the one
\* before.
LEMMA Iterate ==
  ASSUME NEW n \in Nat, NEW S, NEW a \in S[0], NEW G, Closed(G, n, S)
  PROVE  \E g : Follows(g, n, S, a, G)
  <1> DEFINE K == {k \in 0..n : \E g : Follows(g, k, S, a, G)}
  <1>1. 0 \in K
    <2> DEFINE g == [i \in 0..0 |-> a]
    <2>1. Follows(g, 0, S, a, G)
      BY DEF Follows
    <2> HIDE DEF g
    <2> QED BY <2>1
  <1>2. ASSUME NEW k \in 0..(n - 1), k \in K
        PROVE  k + 1 \in K
    <2>1. PICK g : Follows(g, k, S, a, G)
      BY Zenon, <1>2
    <2>2. /\ \A i \in 0..k : g[i] \in S[i]
          /\ g[0] = a /\ \A i \in 1..k : g[i] = G[i][g[i - 1]]
      BY Zenon, <2>1 DEF Follows
    <2>3. G[k + 1][g[k]] \in S[k + 1]
      <3>1. k + 1 \in 1..n /\ (k + 1) - 1 = k /\ g[k] \in S[k]
        BY <2>2
      <3> QED BY Zenon, <3>1 DEF Closed
    <2> DEFINE h == [i \in 0..(k + 1) |-> IF i <= k THEN g[i] ELSE G[k + 1][g[k]]]
    <2>4. h = [i \in 0..(k + 1) |-> h[i]] /\ h[0] = a
      BY <2>2
    <2>5. \A i \in 0..(k + 1) : h[i] \in S[i]
      BY <2>2, <2>3
    <2>6. ASSUME NEW i \in 1..(k + 1) PROVE h[i] = G[i][h[i - 1]]
      <3>1. CASE i <= k
        BY <2>2, <3>1
      <3>2. CASE i = k + 1
        BY <3>2
      <3> QED BY <3>1, <3>2
    <2>7. Follows(h, k + 1, S, a, G)
      <3> HIDE DEF h
      <3> QED BY Zenon, <2>4, <2>5, <2>6 DEF Follows
    <2> HIDE DEF h
    <2> QED BY <2>7
  <1>3. \A k \in 0..n : k \in K
    <2> HIDE DEF K
    <2> QED BY Zenon, <1>1, <1>2, Upward
  <1> QED BY <1>3

\* A function whose values follow by G stays in S.
LEMMA Stays ==
  ASSUME NEW n \in Nat, NEW S, NEW G, Closed(G, n, S), NEW f, f[0] \in S[0],
         \A i \in 1..n : f[i - 1] \in S[i - 1] => f[i] = G[i][f[i - 1]]
  PROVE  \A k \in 0..n : f[k] \in S[k]
  <1> DEFINE T == {k \in 0..n : f[k] \in S[k]}
  <1>1. 0 \in T
    OBVIOUS
  <1>2. ASSUME NEW k \in 0..(n - 1), k \in T PROVE k + 1 \in T
    <2>1. k + 1 \in 1..n /\ (k + 1) - 1 = k /\ k + 1 \in 0..n /\ f[k] \in S[k]
      BY <1>2
    <2>2. f[k + 1] = G[k + 1][f[k]]
      BY Zenon, <2>1
    <2>3. G[k + 1][f[k]] \in S[k + 1]
      BY Zenon, <2>1 DEF Closed
    <2> QED BY Zenon, <2>1, <2>2, <2>3
  <1>3. \A k \in 0..n : k \in T
    <2> HIDE DEF T
    <2> QED BY Zenon, <1>1, <1>2, Upward
  <1> QED BY Zenon, <1>3

\* u is s followed by t.
Joined(u, s, t) ==
  /\ Len(s) \in Nat /\ Len(t) \in Nat /\ Len(u) = Len(s) + Len(t)
  /\ \A x \in 1..Len(s) : u[x] = s[x]
  /\ \A x \in 1..Len(t) : u[Len(s) + x] = t[x]

\* The two parts of a concatenation.
LEMMA Concat ==
  ASSUME NEW R, NEW s \in Seq(R), NEW t \in Seq(R)
  PROVE  s \o t \in Seq(R) /\ Joined(s \o t, s, t)
  BY DEF Joined

\* v is s from a + 1 up to b.
Slice(v, s, a, b) == Len(v) = b - a /\ \A x \in 1..(b - a) : v[x] = s[a + x]

\* The elements of a subsequence are those of the sequence, shifted.
LEMMA Slices ==
  ASSUME NEW R, NEW s \in Seq(R), NEW a \in Nat, NEW b \in a..Len(s)
  PROVE  SubSeq(s, a + 1, b) \in Seq(R) /\ Slice(SubSeq(s, a + 1, b), s, a, b)
  BY DEF Slice

\* The range of a sequence holds its elements and nothing else.
LEMMA RangeOf ==
  ASSUME NEW R, NEW s \in Seq(R)
  PROVE  /\ \A x \in 1..Len(s) : s[x] \in Range(s)
         /\ \A y \in Range(s) : \E x \in 1..Len(s) : y = s[x]
  BY DEF Range

\* Every element of a concatenation comes from the one part or the other.
LEMMA JoinedAt ==
  ASSUME NEW u, NEW s, NEW t, Joined(u, s, t), NEW x \in 1..Len(u)
  PROVE  \/ x \in 1..Len(s) /\ u[x] = s[x]
         \/ /\ x - Len(s) \in 1..Len(t) /\ u[x] = t[x - Len(s)]
            /\ x = Len(s) + (x - Len(s)) /\ x > Len(s)
  <1> DEFINE l == Len(s)
             m == Len(t)
  <1>1. l \in Nat /\ m \in Nat /\ x \in 1..(l + m)
    BY Zenon DEF Joined
  <1>2. /\ \A y \in 1..l : u[y] = s[y]
        /\ \A y \in 1..m : u[l + y] = t[y]
    BY Zenon DEF Joined
  <1> HIDE DEF l, m
  <1>3. CASE x <= l
    <2>1. x \in 1..l
      BY <1>1, <1>3
    <2> QED BY Zenon, <1>2, <2>1 DEF l
  <1>4. CASE ~(x <= l)
    <2>1. x - l \in 1..m /\ x = l + (x - l) /\ x > l
      BY <1>1, <1>4
    <2>2. u[l + (x - l)] = t[x - l]
      BY Zenon, <1>2, <2>1
    <2> QED BY Zenon, <2>1, <2>2 DEF l, m
  <1> QED BY Zenon, <1>3, <1>4

-----------------------------------------------------------------------------
(* Characters and bytes                                                    *)

CharRecords == [token : Nat, attr : Nat, char : Characters]

\* The fields of a character of the document.
LEMMA CharAt ==
  ASSUME NEW chars \in Seq(CharRecords), NEW i \in 1..Len(chars)
  PROVE  chars[i].token \in Nat /\ chars[i].attr \in Nat /\ chars[i].char \in Characters
  <1>1. chars[i] \in CharRecords
    OBVIOUS
  <1> QED BY Zenon, <1>1 DEF CharRecords

\* Every character has a width in every encoding.
LEMMA EveryWidth ==
  ASSUME NEW d \in XmlDocuments
  PROVE  View(d) \in [Characters -> Nat \ {0}] /\ Source(d) \in [Characters -> Nat \ {0}]
  <1>1. d.encoding \in XmlEncodings
    BY Zenon DEF XmlDocuments
  <1> QED
    BY <1>1 DEF View, Source, ViewWidth, SourceWidth, Utf8Width, Utf16Width, XmlEncodings,
      Characters

\* Widths adds up the widths of the characters.
LEMMA WidthsAdd ==
  ASSUME NEW chars \in Seq(CharRecords), NEW w \in [Characters -> Nat \ {0}]
  PROVE  /\ Widths(chars, w) \in [0..Len(chars) -> Nat]
         /\ Widths(chars, w)[0] = 0
         /\ \A i \in 1..Len(chars) :
              Widths(chars, w)[i] = Widths(chars, w)[i - 1] + w[chars[i].char]
  <1> DEFINE n == Len(chars)
             F(u) == [i \in 0..n |-> IF i = 0 THEN 0 ELSE u[i - 1] + w[chars[i].char]]
             S == [i \in 0..n |-> Nat]
             G == [i \in 1..n |-> [x \in S[i - 1] |-> x + w[chars[i].char]]]
             W == Widths(chars, w)
  <1>1. n \in Nat /\ \A i \in 1..n : w[chars[i].char] \in Nat
    BY CharAt
  <1>2. 0 \in S[0] /\ Closed(G, n, S)
    BY <1>1 DEF Closed
  <1>3. \E g : g = F(g)
    <2>1. PICK g : Follows(g, n, S, 0, G)
      <3> HIDE DEF n, G, S
      <3> QED BY Zenon, <1>1, <1>2, Iterate
    <2>2. \A i \in 0..n : g[i] \in S[i]
      BY Zenon, <2>1 DEF Follows
    <2>3. g = [i \in 0..n |-> g[i]]
      BY Zenon, <2>1 DEF Follows
    <2>4. g[0] = 0 /\ \A i \in 1..n : g[i] = G[i][g[i - 1]]
      BY Zenon, <2>1 DEF Follows
    <2>5. ASSUME NEW i \in 1..n PROVE g[i] = g[i - 1] + w[chars[i].char]
      <3>1. i - 1 \in 0..n /\ g[i - 1] \in S[i - 1] /\ g[i] = G[i][g[i - 1]]
        <4> HIDE DEF n, G, S
        <4> QED BY <1>1, <2>2, <2>4
      <3> QED BY Zenon, <3>1
    <2>6. \A i \in 0..n : i # 0 => i \in 1..n
      BY <1>1
    <2>7. \A i \in 0..n : g[i] = IF i = 0 THEN 0 ELSE g[i - 1] + w[chars[i].char]
      BY Zenon, <2>4, <2>5, <2>6
    <2> HIDE DEF n, G, S
    <2>8. F(g) = [i \in 0..n |-> g[i]]
      BY Zenon, <2>7
    <2> QED BY Zenon, <2>3, <2>8
  <1>4. W = F(W)
    <2>1. W = CHOOSE u : u = F(u)
      BY Zenon DEF Widths
    <2> HIDE DEF F, W
    <2> QED BY Zenon, <1>3, <2>1
  <1> HIDE DEF W
  <1>5. W[0] = 0 /\ \A i \in 1..n : W[i] = W[i - 1] + w[chars[i].char]
    BY <1>1, <1>4
  <1>6. \A k \in 0..n : W[k] \in Nat
    <2>1. \A i \in 1..n : W[i - 1] \in S[i - 1] => W[i] = G[i][W[i - 1]]
      BY Zenon, <1>5
    <2>2. W[0] \in S[0]
      BY Zenon, <1>2, <1>5
    <2>3. \A k \in 0..n : W[k] \in S[k]
      <3> HIDE DEF n, G, S
      <3> QED BY <1>1, <1>2, <2>1, <2>2, Stays
    <2> QED BY Zenon, <2>3
  <1>7. W \in [0..n -> Nat]
    BY Zenon, <1>4, <1>6
  <1> QED BY Zenon, <1>5, <1>7 DEF W

\* Every character takes at least a byte.
LEMMA WidthsRise ==
  ASSUME NEW chars \in Seq(CharRecords), NEW w \in [Characters -> Nat \ {0}],
         NEW j \in 0..Len(chars), NEW i \in 0..Len(chars), i < j
  PROVE  Widths(chars, w)[i] < Widths(chars, w)[j]
  <1> DEFINE n == Len(chars)
             W == Widths(chars, w)
             S == {k \in 0..n : \A l \in 0..n : l < k => W[l] < W[k]}
  <1>1. W \in [0..n -> Nat] /\ n \in Nat
    BY WidthsAdd
  <1>2. \A k \in 1..n : W[k] > W[k - 1]
    <2>1. \A k \in 1..n : w[chars[k].char] \in Nat \ {0}
      BY Zenon, CharAt
    <2>2. \A k \in 1..n : W[k] = W[k - 1] + w[chars[k].char]
      BY Zenon, WidthsAdd
    <2> HIDE DEF W, n
    <2>3. ASSUME NEW k \in 1..n PROVE W[k] > W[k - 1]
      <3>1. k - 1 \in 0..n /\ W[k - 1] \in Nat
        BY <1>1
      <3>2. w[chars[k].char] \in Nat \ {0} /\ W[k] = W[k - 1] + w[chars[k].char]
        BY Zenon, <2>1, <2>2
      <3> QED BY <3>1, <3>2
    <2> QED BY Zenon, <2>3
  <1> HIDE DEF W, n
  <1>3. 0 \in S
    BY <1>1
  <1>4. ASSUME NEW k \in 0..(n - 1), k \in S
        PROVE  k + 1 \in S
    <2>1. k + 1 \in 1..n /\ (k + 1) - 1 = k /\ k \in 0..n /\ k + 1 \in 0..n
      BY <1>1
    <2>3. W[k + 1] > W[k] /\ W[k] \in Nat /\ W[k + 1] \in Nat
      BY Zenon, <1>1, <1>2, <2>1
    <2>2. ASSUME NEW l \in 0..n, l < k + 1 PROVE W[l] < W[k + 1]
      <3>1. l = k \/ l < k
        BY <1>1, <2>2
      <3>2. W[l] = W[k] \/ W[l] < W[k]
        BY Zenon, <1>4, <3>1
      <3>3. W[l] \in Nat
        BY Zenon, <1>1
      <3> QED BY <2>3, <3>2, <3>3
    <2> QED BY Zenon, <2>1, <2>2
  <1>5. \A k \in 0..n : k \in S
    <2> HIDE DEF S
    <2> QED BY Zenon, <1>1, <1>3, <1>4, Upward
  <1> QED BY Zenon, <1>5 DEF n, W

\* Offsets into the bytes of the source grow with every character.
LEMMA SourceWidths ==
  ASSUME NEW d \in XmlDocuments, NEW chars \in Seq(CharRecords)
  PROVE  LET W == Widths(chars, Source(d))
         IN  /\ Len(chars) \in Nat /\ W[0] = 0
             /\ \A i \in 0..Len(chars) : W[i] \in Nat
             /\ \A i, j \in 0..Len(chars) : i < j => W[i] < W[j]
  <1>1. Source(d) \in [Characters -> Nat \ {0}] /\ Len(chars) \in Nat
    BY EveryWidth
  <1>2. /\ Widths(chars, Source(d)) \in [0..Len(chars) -> Nat]
        /\ Widths(chars, Source(d))[0] = 0
    BY Zenon, <1>1, WidthsAdd
  <1>3. \A i, j \in 0..Len(chars) :
          i < j => Widths(chars, Source(d))[i] < Widths(chars, Source(d))[j]
    BY Zenon, <1>1, WidthsRise
  <1> QED BY Zenon, <1>1, <1>2, <1>3

\* sourceOffset finds the character that begins at an offset of the view.
LEMMA OffsetFound ==
  ASSUME NEW chars \in Seq(CharRecords), NEW w \in [Characters -> Nat \ {0}],
         NEW n \in 0..Len(chars), NEW k \in n..Len(chars)
  PROVE  sourceOffset(chars, n, Width(chars, k, w), w) = k
  <1> DEFINE N == Len(chars)
             W == Widths(chars, w)
             Found(m) == /\ W[m] >= W[k] \/ m = N
                         /\ \A l \in n..(m - 1) : W[l] < W[k]
  <1>1. W \in [0..N -> Nat] /\ N \in Nat
    BY WidthsAdd
  <1>2. \A i, j \in 0..N : i < j => W[i] < W[j]
    BY Zenon, WidthsRise
  <1>3. sourceOffset(chars, n, Width(chars, k, w), w) = CHOOSE m \in n..N : Found(m)
    BY Zenon DEF sourceOffset, Width
  <1> HIDE DEF N, W
  <1>4. Found(k) /\ k \in n..N
    BY <1>1, <1>2 DEF N
  <1>5. ASSUME NEW m \in n..N, Found(m) PROVE m = k
    <2>1. ~(m < k)
      BY <1>1, <1>2, <1>5 DEF N
    <2>2. ~(k < m)
      BY <1>1, <1>5 DEF N
    <2> QED BY <1>1, <2>1, <2>2 DEF N
  <1> HIDE DEF Found
  <1> QED BY Zenon, <1>3, <1>4, <1>5

ByteRecords == [at : Nat, byte : Nat]

\* The bytes of character i.
Piece(d, chars, i) == [b \in 1..Source(d)[chars[i].char] |-> [at |-> i, byte |-> b]]

\* BytesUpto appends the bytes of one character after another.
LEMMA BytesAppend ==
  ASSUME NEW d \in XmlDocuments, NEW chars \in Seq(CharRecords)
  PROVE  /\ BytesUpto(d, chars)[0] = <<>>
         /\ \A i \in 1..Len(chars) :
              BytesUpto(d, chars)[i] = BytesUpto(d, chars)[i - 1] \o Piece(d, chars, i)
         /\ \A i \in 0..Len(chars) : BytesUpto(d, chars)[i] \in Seq(ByteRecords)
  <1> DEFINE n == Len(chars)
             S == [i \in 0..n |-> Seq(ByteRecords)]
             F(u) == [i \in 0..n |-> IF i = 0 THEN <<>> ELSE u[i - 1] \o Piece(d, chars, i)]
             G == [i \in 1..n |-> [x \in S[i - 1] |-> x \o Piece(d, chars, i)]]
             B == BytesUpto(d, chars)
  <1>1. n \in Nat /\ \A i \in 1..n : Piece(d, chars, i) \in Seq(ByteRecords)
    <2>1. ASSUME NEW i \in 1..n PROVE Piece(d, chars, i) \in Seq(ByteRecords)
      <3>1. Source(d)[chars[i].char] \in Nat
        BY Zenon, CharAt, EveryWidth
      <3>2. \A b \in 1..Source(d)[chars[i].char] : [at |-> i, byte |-> b] \in ByteRecords
        BY DEF ByteRecords
      <3> QED BY <3>1, <3>2 DEF Piece
    <2> QED BY <2>1
  <1>2. <<>> \in S[0] /\ Closed(G, n, S)
    <2>1. ASSUME NEW i \in 1..n, NEW x \in S[i - 1] PROVE G[i][x] \in S[i]
      <3>1. x \in Seq(ByteRecords) /\ Piece(d, chars, i) \in Seq(ByteRecords)
        BY <1>1
      <3>2. G[i][x] = x \o Piece(d, chars, i)
        BY Zenon, <1>1
      <3>3. G[i][x] \in Seq(ByteRecords)
        <4> HIDE DEF G
        <4> QED BY Zenon, <3>1, <3>2, Concat
      <3> HIDE DEF G
      <3> QED BY <1>1, <3>3
    <2>2. <<>> \in S[0]
      BY <1>1
    <2> HIDE DEF n, G, S
    <2> QED BY Zenon, <2>1, <2>2 DEF Closed
  <1>3. \E g : g = F(g)
    <2>1. PICK g : Follows(g, n, S, <<>>, G)
      <3> HIDE DEF n, G, S
      <3> QED BY Zenon, <1>1, <1>2, Iterate
    <2>2. \A i \in 0..n : g[i] \in S[i]
      BY Zenon, <2>1 DEF Follows
    <2>3. g = [i \in 0..n |-> g[i]]
      BY Zenon, <2>1 DEF Follows
    <2>4. g[0] = <<>> /\ \A i \in 1..n : g[i] = G[i][g[i - 1]]
      BY Zenon, <2>1 DEF Follows
    <2>5. ASSUME NEW i \in 1..n PROVE g[i] = g[i - 1] \o Piece(d, chars, i)
      <3>1. i - 1 \in 0..n /\ g[i - 1] \in S[i - 1] /\ g[i] = G[i][g[i - 1]]
        <4> HIDE DEF n, G, S
        <4> QED BY <1>1, <2>2, <2>4
      <3> QED BY Zenon, <3>1
    <2>6. \A i \in 0..n : i # 0 => i \in 1..n
      BY <1>1
    <2>7. \A i \in 0..n : g[i] = IF i = 0 THEN <<>> ELSE g[i - 1] \o Piece(d, chars, i)
      BY Zenon, <2>4, <2>5, <2>6
    <2> HIDE DEF n, G, S
    <2> QED BY Zenon, <2>3, <2>7
  <1>4. B = F(B)
    <2>1. B = CHOOSE u : u = F(u)
      BY Zenon DEF BytesUpto, Piece
    <2> HIDE DEF F, B
    <2> QED BY Zenon, <1>3, <2>1
  <1> HIDE DEF B, n
  <1>5. B[0] = <<>> /\ \A i \in 1..n : B[i] = B[i - 1] \o Piece(d, chars, i)
    <2>1. 0 \in 0..n /\ \A i \in 1..n : i \in 0..n /\ i # 0
      BY <1>1
    <2> QED BY Zenon, <1>4, <2>1
  <1>6. \A k \in 0..n : B[k] \in S[k]
    <2>1. \A i \in 1..n : B[i - 1] \in S[i - 1] => B[i] = G[i][B[i - 1]]
      BY Zenon, <1>5
    <2>2. B[0] \in S[0]
      <3>1. <<>> \in S[0]
        BY <1>1
      <3> QED BY Zenon, <1>5, <3>1
    <2> HIDE DEF G, S
    <2> QED BY Zenon, <1>1, <1>2, <2>1, <2>2, Stays
  <1> QED BY Zenon, <1>5, <1>6 DEF B, n

\* Where byte x of the document is found: in the character that reaches it.
Placed(d, chars, bytes, x) ==
  LET at == bytes[x].at
      W == Widths(chars, Source(d))
  IN  /\ at \in 1..Len(chars)
      /\ W[at - 1] < x /\ x <= W[at]
      /\ bytes[x].byte = x - W[at - 1]

\* Every byte of the document lies where its character has its bytes.
LEMMA BytesPlaced ==
  ASSUME NEW d \in XmlDocuments, NEW chars \in Seq(CharRecords)
  PROVE  LET bytes == DocumentBytes(d, chars)
         IN  /\ bytes \in Seq(ByteRecords)
             /\ Len(bytes) = Widths(chars, Source(d))[Len(chars)]
             /\ \A x \in 1..Len(bytes) : Placed(d, chars, bytes, x)
  <1> DEFINE n == Len(chars)
             B == BytesUpto(d, chars)
             W == Widths(chars, Source(d))
             T == {k \in 0..n : /\ Len(B[k]) = W[k]
                                /\ \A x \in 1..W[k] : Placed(d, chars, B[k], x) /\ B[k][x].at <= k}
  <1>1. /\ n \in Nat /\ W \in [0..n -> Nat] /\ W[0] = 0
        /\ \A i \in 1..n : W[i] = W[i - 1] + Source(d)[chars[i].char]
    BY EveryWidth, WidthsAdd
  <1>2. /\ \A i \in 0..n : B[i] \in Seq(ByteRecords)
        /\ B[0] = <<>> /\ \A i \in 1..n : B[i] = B[i - 1] \o Piece(d, chars, i)
    BY Zenon, BytesAppend
  <1>3. 0 \in T
    BY <1>1, <1>2
  <1>4. ASSUME NEW k \in 0..(n - 1), k \in T PROVE k + 1 \in T
    <2> DEFINE w == Source(d)[chars[k + 1].char]
    <2> HIDE DEF n, B, W
    <2>1. k + 1 \in 1..n /\ k + 1 \in 0..n /\ (k + 1) - 1 = k /\ k \in 0..n
      BY <1>1
    <2>2. w \in Nat /\ W[k + 1] = W[k] + w /\ W[k] \in Nat /\ W[k + 1] \in Nat
      BY Zenon, <1>1, <2>1, CharAt, EveryWidth DEF n
    <2>3. /\ B[k] \in Seq(ByteRecords) /\ B[k + 1] = B[k] \o Piece(d, chars, k + 1)
          /\ Len(B[k]) = W[k]
      BY Zenon, <1>2, <1>4, <2>1
    <2>4. Piece(d, chars, k + 1) \in Seq(ByteRecords) /\ Len(Piece(d, chars, k + 1)) = w
      <3>1. \A b \in 1..w : [at |-> k + 1, byte |-> b] \in ByteRecords
        BY DEF ByteRecords
      <3>2. Piece(d, chars, k + 1) = [b \in 1..w |-> [at |-> k + 1, byte |-> b]]
        BY Zenon DEF Piece
      <3> HIDE DEF w
      <3> QED BY <2>2, <3>1, <3>2
    <2> DEFINE p == Piece(d, chars, k + 1)
    <2> HIDE DEF w, p
    <2>5. /\ Len(B[k + 1]) = W[k] + w
          /\ \A x \in 1..W[k] : B[k + 1][x] = B[k][x]
          /\ \A x \in 1..w : B[k + 1][W[k] + x] = p[x]
      <3>1. B[k] \in Seq(ByteRecords) /\ p \in Seq(ByteRecords) /\ Len(B[k]) = W[k] /\ Len(p) = w
        BY Zenon, <2>3, <2>4 DEF p
      <3>2. B[k + 1] = B[k] \o p
        BY Zenon, <2>3 DEF p
      <3>3. Joined(B[k] \o p, B[k], p)
        BY Zenon, <3>1, Concat
      <3> QED BY Zenon, <3>1, <3>2, <3>3 DEF Joined
    <2>6. ASSUME NEW x \in 1..W[k + 1] PROVE Placed(d, chars, B[k + 1], x) /\ B[k + 1][x].at <= k + 1
      <3>1. CASE x <= W[k]
        <4>1. B[k + 1][x] = B[k][x] /\ Placed(d, chars, B[k], x) /\ B[k][x].at <= k
          <5>1. x \in 1..W[k]
            BY <2>2, <3>1
          <5>2. Placed(d, chars, B[k], x) /\ B[k][x].at <= k
            BY Zenon, <1>4, <5>1
          <5>3. B[k + 1][x] = B[k][x]
            BY Zenon, <2>5, <5>1
          <5> QED BY Zenon, <5>2, <5>3
        <4>2. B[k][x].at \in Nat
          BY <4>1 DEF Placed
        <4> QED BY <4>1, <4>2, <2>1 DEF Placed
      <3>2. CASE x > W[k]
        <4>1. x - W[k] \in 1..w
          BY <2>2, <3>2
        <4>2. B[k + 1][x] = Piece(d, chars, k + 1)[x - W[k]]
          <5>1. x = W[k] + (x - W[k])
            BY <2>2
          <5>2. B[k + 1][W[k] + (x - W[k])] = p[x - W[k]]
            BY Zenon, <2>5, <4>1
          <5> QED BY Zenon, <5>1, <5>2 DEF p
        <4>3. B[k + 1][x] = [at |-> k + 1, byte |-> x - W[k]]
          BY Zenon, <4>1, <4>2 DEF Piece, w
        <4> QED BY <2>1, <2>2, <3>2, <4>3 DEF Placed, n, W
      <3> QED BY <2>2, <3>1, <3>2
    <2> QED BY Zenon, <2>1, <2>2, <2>5, <2>6
  <1>5. n \in T
    <2>1. n \in Nat /\ 0 \in T /\ \A k \in 0..(n - 1) : k \in T => k + 1 \in T
      BY Zenon, <1>1, <1>3, <1>4
    <2> HIDE DEF T, n, B, W
    <2>2. \A k \in 0..n : k \in T
      BY Zenon, <2>1, Upward
    <2> QED BY <2>1, <2>2
  <1> QED BY Zenon, <1>1, <1>2, <1>5 DEF DocumentBytes

\* The first W[p] bytes are those of the first p characters.
LEMMA FirstBytes ==
  ASSUME NEW d \in XmlDocuments, NEW chars \in Seq(CharRecords), NEW p \in 0..Len(chars),
         NEW x \in 1..Len(DocumentBytes(d, chars))
  PROVE  x <= Width(chars, p, Source(d)) <=> DocumentBytes(d, chars)[x].at <= p
  <1> DEFINE bytes == DocumentBytes(d, chars)
             W == Widths(chars, Source(d))
             N == Len(chars)
             at == bytes[x].at
  <1>1. /\ at \in 1..N /\ W[at - 1] < x /\ x <= W[at] /\ x \in Nat
    BY BytesPlaced DEF Placed
  <1>2. /\ N \in Nat /\ p \in 0..N
        /\ \A i \in 0..N : W[i] \in Nat
        /\ \A i, j \in 0..N : i < j => W[i] < W[j]
    BY Zenon, SourceWidths
  <1> HIDE DEF W, N, at
  <1>3. /\ at - 1 \in 0..N /\ at \in 0..N /\ p \in 0..N
        /\ W[at - 1] \in Nat /\ W[at] \in Nat /\ W[p] \in Nat
    BY <1>1, <1>2
  <1>4. CASE at <= p
    <2>1. W[at] <= W[p]
      BY <1>2, <1>3, <1>4
    <2> QED BY <1>1, <1>3, <1>4, <2>1 DEF Width, W, at
  <1>5. CASE ~(at <= p)
    <2>1. p = at - 1 \/ p < at - 1
      BY <1>3, <1>5
    <2>2. W[p] <= W[at - 1]
      BY <1>2, <1>3, <2>1
    <2>3. ~(x <= W[p])
      BY <1>1, <1>3, <2>2
    <2> QED BY Zenon, <1>5, <2>3 DEF Width, W, at
  <1> QED BY Zenon, <1>4, <1>5

\* The fields of a byte.
LEMMA ByteAt ==
  ASSUME NEW bytes \in Seq(ByteRecords), NEW x \in 1..Len(bytes)
  PROVE  bytes[x] \in ByteRecords /\ bytes[x].at \in Nat /\ bytes[x].byte \in Nat
  <1>1. bytes[x] \in ByteRecords
    OBVIOUS
  <1> QED BY Zenon, <1>1 DEF ByteRecords

\* The bytes of the document are in the order of its characters.
LEMMA BytesInOrder ==
  ASSUME NEW d \in XmlDocuments, NEW chars \in Seq(CharRecords)
  PROVE  InOrder(DocumentBytes(d, chars))
  <1> DEFINE bytes == DocumentBytes(d, chars)
             W == Widths(chars, Source(d))
             N == Len(chars)
  <1>1. bytes \in Seq(ByteRecords) /\ \A x \in 1..Len(bytes) : Placed(d, chars, bytes, x)
    BY Zenon, BytesPlaced
  <1>2. /\ N \in Nat /\ \A i \in 0..N : W[i] \in Nat
        /\ \A i, j \in 0..N : i < j => W[i] < W[j]
    BY Zenon, SourceWidths
  <1> HIDE DEF bytes
  <1>3. ASSUME NEW x \in 1..Len(bytes), NEW y \in 1..Len(bytes), x < y
        PROVE  \/ bytes[x].at < bytes[y].at
               \/ bytes[x].at = bytes[y].at /\ bytes[x].byte < bytes[y].byte
    <2> DEFINE a == bytes[x].at
               b == bytes[y].at
    <2>1. /\ a \in 1..N /\ W[a - 1] < x /\ x <= W[a] /\ bytes[x].byte = x - W[a - 1]
          /\ b \in 1..N /\ W[b - 1] < y /\ y <= W[b] /\ bytes[y].byte = y - W[b - 1]
      BY Zenon, <1>1 DEF Placed
    <2>2. x \in Nat /\ y \in Nat
      BY <1>1
    <2> HIDE DEF N, W, a, b
    <2>3. /\ a - 1 \in 0..N /\ b \in 0..N /\ W[a - 1] \in Nat /\ W[b] \in Nat
          /\ a \in Nat /\ b \in Nat
      <3>1. a \in 1..N /\ b \in 1..N /\ N \in Nat
        BY Zenon, <1>2, <2>1
      <3>2. a - 1 \in 0..N /\ b \in 0..N /\ a \in Nat /\ b \in Nat
        BY <3>1
      <3> QED BY Zenon, <1>2, <3>2
    <2>4. CASE b < a
      <3>1. b = a - 1 \/ b < a - 1
        BY <2>3, <2>4
      <3>2. W[b] <= W[a - 1]
        BY <1>2, <2>3, <3>1
      <3> QED BY <1>3, <2>1, <2>2, <2>3, <3>2
    <2>5. CASE a = b
      BY <1>3, <2>1, <2>2, <2>3, <2>5 DEF a, b
    <2> QED BY <2>3, <2>4, <2>5 DEF a, b
  <1>4. DOMAIN bytes = 1..Len(bytes)
    BY <1>1
  <1> QED BY Zenon, <1>3, <1>4 DEF InOrder, bytes

Before(out, p) == InOrder(out) /\ \A x \in 1..Len(out) : out[x].at <= p

\* o is out with the bytes of characters p + 1 to q.
Extends(o, out, bytes, p, q) ==
  /\ o \in Seq(ByteRecords) /\ Before(o, q)
  /\ Range(o) = Range(out) \cup {b \in Range(bytes) : p < b.at /\ b.at <= q}

\* A piece of the document between two characters can follow what was kept
\* before it.
LEMMA Appended ==
  ASSUME NEW d \in XmlDocuments, NEW chars \in Seq(CharRecords),
         NEW p \in 0..Len(chars), NEW q \in p..Len(chars),
         NEW out \in Seq(ByteRecords), Before(out, p)
  PROVE  LET bytes == DocumentBytes(d, chars)
             v == SubSeq(bytes, Width(chars, p, Source(d)) + 1, Width(chars, q, Source(d)))
         IN  Extends(out \o v, out, bytes, p, q)
  <1> DEFINE bytes == DocumentBytes(d, chars)
             W == Widths(chars, Source(d))
             N == Len(chars)
             v == SubSeq(bytes, W[p] + 1, W[q])
             o == out \o v
  <1>1. /\ bytes \in Seq(ByteRecords) /\ Len(bytes) = W[N] /\ InOrder(bytes)
        /\ \A x \in 1..Len(bytes) : /\ x <= W[p] <=> bytes[x].at <= p
                                    /\ x <= W[q] <=> bytes[x].at <= q
    <2>1. bytes \in Seq(ByteRecords) /\ Len(bytes) = W[N]
      BY Zenon, BytesPlaced
    <2>2. InOrder(bytes)
      BY Zenon, BytesInOrder
    <2>3. p \in 0..N /\ q \in 0..N
      OBVIOUS
    <2>4. ASSUME NEW x \in 1..Len(bytes)
          PROVE  (x <= W[p] <=> bytes[x].at <= p) /\ (x <= W[q] <=> bytes[x].at <= q)
      BY Zenon, <2>3, FirstBytes DEF Width
    <2> QED BY Zenon, <2>1, <2>2, <2>4
  <1>2. p \in Nat /\ q \in Nat /\ p <= q /\ W[p] \in Nat /\ W[q] \in Nat /\ W[p] <= W[q]
        /\ W[q] <= Len(bytes) /\ Len(bytes) \in Nat
    <2>1. /\ N \in Nat /\ p \in 0..N /\ q \in 0..N /\ p <= q
          /\ \A i \in 0..N : W[i] \in Nat
          /\ \A i, j \in 0..N : i < j => W[i] < W[j]
      BY SourceWidths
    <2> HIDE DEF N, W, bytes
    <2>2. Len(bytes) = W[N] /\ N \in 0..N
      BY <1>1, <2>1
    <2>3. W[p] \in Nat /\ W[q] \in Nat /\ W[N] \in Nat
      BY Zenon, <2>1, <2>2
    <2>4. p \in Nat /\ q \in Nat /\ (p = q \/ p < q) /\ (q = N \/ q < N)
      BY <2>1
    <2>5. (W[p] = W[q] \/ W[p] < W[q]) /\ (W[q] = W[N] \/ W[q] < W[N])
      BY Zenon, <2>1, <2>2, <2>4
    <2>6. W[p] <= W[q] /\ W[q] <= W[N]
      BY <2>3, <2>5
    <2> QED BY Zenon, <2>1, <2>2, <2>3, <2>4, <2>6
  <1> HIDE DEF bytes, W, N
  <1>3. /\ v \in Seq(ByteRecords) /\ Len(v) = W[q] - W[p]
        /\ \A x \in 1..Len(v) : W[p] + x \in 1..Len(bytes) /\ v[x] = bytes[W[p] + x]
    <2> DEFINE a == W[p]
               b == W[q]
    <2>1. a \in Nat /\ b \in a..Len(bytes)
      BY <1>2
    <2> HIDE DEF a, b
    <2>2. v \in Seq(ByteRecords) /\ Slice(v, bytes, a, b)
      BY Zenon, <1>1, <2>1, Slices DEF a, b
    <2> HIDE DEF v
    <2>3. Len(v) = b - a /\ \A x \in 1..(b - a) : v[x] = bytes[a + x]
      BY Zenon, <2>2 DEF Slice
    <2>4. \A x \in 1..(b - a) : a + x \in 1..Len(bytes)
      BY <1>2, <2>1
    <2> QED BY Zenon, <2>2, <2>3, <2>4 DEF a, b
  <1> HIDE DEF v
  <1>4. ASSUME NEW x \in 1..Len(v) PROVE v[x].at > p /\ v[x].at <= q /\ v[x].at \in Nat
    <2> DEFINE y == W[p] + x
    <2>1. y \in 1..Len(bytes) /\ v[x] = bytes[y] /\ ~(y <= W[p]) /\ y <= W[q]
      BY <1>2, <1>3
    <2>2. bytes[y].at \in Nat
      BY Zenon, <1>1, <2>1, ByteAt
    <2> HIDE DEF y
    <2>3. ~(bytes[y].at <= p) /\ bytes[y].at <= q
      BY Zenon, <1>1, <2>1
    <2> QED BY <1>2, <2>1, <2>2, <2>3
  <1>5. o \in Seq(ByteRecords) /\ Joined(o, out, v)
    BY Zenon, <1>3, Concat
  <1> HIDE DEF o
  <1>6. \A x \in 1..Len(out) : out[x].at <= p /\ out[x].at \in Nat
    BY Zenon, ByteAt DEF Before
  <1>7. ASSUME NEW x \in 1..Len(o) PROVE o[x].at <= q
    <2>1. CASE x \in 1..Len(out) /\ o[x] = out[x]
      BY <1>2, <1>6, <2>1
    <2>2. CASE x - Len(out) \in 1..Len(v) /\ o[x] = v[x - Len(out)]
      BY Zenon, <1>4, <2>2
    <2> QED BY <1>5, <2>1, <2>2, JoinedAt
  <1>8. InOrder(o)
    <2> SUFFICES ASSUME NEW x \in 1..Len(o), NEW y \in 1..Len(o), x < y
                 PROVE  \/ o[x].at < o[y].at
                        \/ o[x].at = o[y].at /\ o[x].byte < o[y].byte
      BY <1>5 DEF InOrder
    <2> DEFINE l == Len(out)
               In(z) == z \in 1..l /\ o[z] = out[z]
               After(z) == z - l \in 1..Len(v) /\ o[z] = v[z - l] /\ z = l + (z - l) /\ z > l
    <2>1. l \in Nat /\ (In(x) \/ After(x)) /\ (In(y) \/ After(y))
      BY <1>5, JoinedAt
    <2>2. CASE In(x) /\ In(y)
      <3>1. x \in DOMAIN out /\ y \in DOMAIN out
        BY <2>2
      <3> QED BY Zenon, <2>2, <3>1 DEF Before, InOrder
    <2>3. CASE In(x) /\ After(y)
      <3>1. o[x].at <= p /\ o[x].at \in Nat
        BY Zenon, <1>6, <2>3
      <3>2. o[y].at > p /\ o[y].at \in Nat
        BY Zenon, <1>4, <2>3
      <3> QED BY <1>2, <3>1, <3>2
    <2>4. CASE After(x) /\ In(y)
      BY <2>1, <2>4
    <2>5. CASE After(x) /\ After(y)
      <3> DEFINE i == W[p] + (x - l)
                 j == W[p] + (y - l)
      <3>1. i \in 1..Len(bytes) /\ j \in 1..Len(bytes) /\ o[x] = bytes[i] /\ o[y] = bytes[j]
        BY Zenon, <1>3, <2>5
      <3>2. i < j
        <4>1. W[p] \in Nat /\ l \in Nat
          BY Zenon, <1>2, <2>1
        <4> HIDE DEF l
        <4> QED BY <4>1
      <3>3. i \in DOMAIN bytes /\ j \in DOMAIN bytes
        BY <1>1, <3>1
      <3> HIDE DEF i, j
      <3>4. InOrder(bytes)
        BY Zenon, <1>1
      <3>5. \/ bytes[i].at < bytes[j].at
            \/ bytes[i].at = bytes[j].at /\ bytes[i].byte < bytes[j].byte
        BY Zenon, <3>2, <3>3, <3>4 DEF InOrder
      <3> QED BY Zenon, <3>1, <3>5
    <2> QED BY Zenon, <2>1, <2>2, <2>3, <2>4, <2>5
  <1> DEFINE D == {b \in Range(bytes) : p < b.at /\ b.at <= q}
  <1>9. ASSUME NEW x \in 1..Len(o) PROVE o[x] \in Range(out) \cup D
    <2>1. CASE x \in 1..Len(out) /\ o[x] = out[x]
      BY Zenon, <2>1, RangeOf
    <2>2. CASE x - Len(out) \in 1..Len(v) /\ o[x] = v[x - Len(out)]
      <3> DEFINE y == W[p] + (x - Len(out))
      <3>1. y \in 1..Len(bytes) /\ o[x] = bytes[y] /\ o[x].at > p /\ o[x].at <= q
            /\ o[x].at \in Nat
        BY Zenon, <1>3, <1>4, <2>2
      <3> HIDE DEF y
      <3>2. o[x] \in Range(bytes)
        BY Zenon, <1>1, <3>1, RangeOf
      <3> QED BY Zenon, <1>2, <3>1, <3>2
    <2> QED BY <1>5, <2>1, <2>2, JoinedAt
  <1>10. ASSUME NEW x \in 1..Len(out) PROVE out[x] \in Range(o)
    <2>1. x \in 1..Len(o) /\ o[x] = out[x]
      BY <1>5 DEF Joined
    <2> QED BY Zenon, <1>5, <2>1, RangeOf
  <1>11. ASSUME NEW y \in 1..Len(bytes), p < bytes[y].at, bytes[y].at <= q
         PROVE  bytes[y] \in Range(o)
    <2> DEFINE x == y - W[p]
    <2>1. bytes[y].at \in Nat
      BY Zenon, <1>1, ByteAt
    <2>2. ~(y <= W[p]) /\ y <= W[q] /\ y \in Nat
      BY <1>1, <1>2, <1>11, <2>1
    <2>3. x \in 1..Len(v) /\ W[p] + x = y
      BY <1>2, <1>3, <2>2
    <2> HIDE DEF x
    <2>4. v[x] = bytes[y]
      BY Zenon, <1>3, <2>3
    <2>5. Len(out) + x \in 1..Len(o) /\ o[Len(out) + x] = v[x]
      BY <1>5, <2>3 DEF Joined
    <2> QED BY Zenon, <1>5, <2>4, <2>5, RangeOf
  <1>12. Range(o) = Range(out) \cup D
    <2>1. \A y \in Range(o) : y \in Range(out) \cup D
      <3>1. ASSUME NEW y \in Range(o) PROVE y \in Range(out) \cup D
        <4>1. PICK x \in 1..Len(o) : y = o[x]
          BY Zenon, <1>5, RangeOf
        <4> QED BY Zenon, <1>9, <4>1
      <3> QED BY Zenon, <3>1
    <2>2. \A y \in Range(out) : y \in Range(o)
      BY Zenon, <1>10, RangeOf
    <2>3. \A y \in D : y \in Range(o)
      <3>1. ASSUME NEW y \in D PROVE y \in Range(o)
        <4>1. PICK x \in 1..Len(bytes) : y = bytes[x]
          BY Zenon, <1>1, RangeOf
        <4> QED BY Zenon, <1>11, <4>1
      <3> QED BY Zenon, <3>1
    <2> HIDE DEF D
    <2> QED BY Zenon, <2>1, <2>2, <2>3
  <1> QED BY Zenon, <1>5, <1>7, <1>8, <1>12 DEF Extends, Before, o, v, W, bytes, Width

-----------------------------------------------------------------------------
(* Where the attributes are                                                *)

Is(char, t, i) == char.token = t /\ char.attr = i

\* The l characters after b are those of attribute i of token t.
Run(chars, t, i, b, l) ==
  /\ b \in Nat /\ l \in Nat /\ b + l <= Len(chars)
  /\ \A n \in 1..Len(chars) : Is(chars[n], t, i) <=> b < n /\ n <= b + l

None(chars, t, i) == \A n \in 1..Len(chars) : ~Is(chars[n], t, i)

\* An attribute stays where it is when characters of others are appended.
LEMMA RunKept ==
  ASSUME NEW u, NEW s, NEW v, Joined(u, s, v), NEW t, NEW i, NEW b, NEW l,
         Run(s, t, i, b, l), None(v, t, i)
  PROVE  Run(u, t, i, b, l)
  <1> DEFINE m == Len(s)
             k == Len(v)
  <1>1. m \in Nat /\ k \in Nat /\ Len(u) = m + k
    BY Zenon DEF Joined
  <1>2. b \in Nat /\ l \in Nat /\ b + l <= m
    BY Zenon DEF Run
  <1>3. ASSUME NEW n \in 1..Len(u) PROVE Is(u[n], t, i) <=> b < n /\ n <= b + l
    <2>1. CASE n \in 1..m /\ u[n] = s[n]
      BY Zenon, <2>1 DEF Run
    <2>2. CASE n - m \in 1..k /\ u[n] = v[n - m] /\ n > m
      <3>1. ~Is(u[n], t, i)
        BY Zenon, <2>2 DEF None
      <3>2. ~(n <= b + l)
        <4> HIDE DEF m, k
        <4> QED BY <1>1, <1>2, <2>2
      <3> QED BY Zenon, <3>1, <3>2
    <2> QED BY <2>1, <2>2, JoinedAt
  <1>4. b + l <= Len(u)
    <2> HIDE DEF m, k
    <2> QED BY <1>1, <1>2
  <1> QED BY Zenon, <1>2, <1>3, <1>4 DEF Run

\* An attribute of what is appended moves by what was there before.
LEMMA RunAfter ==
  ASSUME NEW u, NEW s, NEW v, Joined(u, s, v), NEW t, NEW i, NEW b, NEW l,
         Run(v, t, i, b, l), None(s, t, i)
  PROVE  Run(u, t, i, Len(s) + b, l)
  <1> DEFINE m == Len(s)
             k == Len(v)
  <1>1. m \in Nat /\ k \in Nat /\ Len(u) = m + k
    BY Zenon DEF Joined
  <1>2. b \in Nat /\ l \in Nat /\ b + l <= k
    BY Zenon DEF Run
  <1>3. ASSUME NEW n \in 1..Len(u) PROVE Is(u[n], t, i) <=> m + b < n /\ n <= (m + b) + l
    <2>1. CASE n \in 1..m /\ u[n] = s[n]
      <3>1. ~Is(u[n], t, i)
        BY Zenon, <2>1 DEF None
      <3>2. ~(m + b < n)
        <4> HIDE DEF m, k
        <4> QED BY <1>1, <1>2, <2>1
      <3> QED BY Zenon, <3>1, <3>2
    <2>2. CASE n - m \in 1..k /\ u[n] = v[n - m]
      <3>1. Is(u[n], t, i) <=> b < n - m /\ n - m <= b + l
        BY Zenon, <2>2 DEF Run
      <3>2. /\ b < n - m <=> m + b < n
            /\ n - m <= b + l <=> n <= (m + b) + l
        <4> HIDE DEF m, k
        <4> QED BY <1>1, <1>2, <2>2
      <3> QED BY Zenon, <3>1, <3>2
    <2> QED BY <2>1, <2>2, JoinedAt
  <1>4. m + b \in Nat /\ (m + b) + l <= Len(u)
    <2> HIDE DEF m, k
    <2> QED BY <1>1, <1>2
  <1> QED BY Zenon, <1>2, <1>3, <1>4 DEF Run

\* The characters of one part of a token.
LEMMA SpreadChars ==
  ASSUME NEW chars \in Seq(Characters), NEW t \in Nat, NEW i \in Nat
  PROVE  LET s == Spread(chars, t, i)
         IN  /\ s \in Seq(CharRecords) /\ Len(s) = Len(chars)
             /\ \A x \in 1..Len(s) : Is(s[x], t, i)
             /\ Run(s, t, i, 0, Len(chars))
  <1> DEFINE s == Spread(chars, t, i)
             n == Len(chars)
  <1>1. n \in Nat /\ \A x \in 1..n : Char(t, i, chars[x]) \in CharRecords
    BY DEF Char, CharRecords
  <1>2. s = [x \in 1..n |-> Char(t, i, chars[x])]
    BY DEF Spread
  <1>3. s \in Seq(CharRecords) /\ Len(s) = n
    <2> HIDE DEF s, n
    <2> QED BY <1>1, <1>2
  <1>4. \A x \in 1..n : Is(s[x], t, i)
    <2> HIDE DEF s, n
    <2> QED BY Zenon, <1>2 DEF Is, Char
  <1>5. Run(s, t, i, 0, n)
    <2> HIDE DEF s, n
    <2> QED BY <1>1, <1>3, <1>4 DEF Run
  <1> QED BY Zenon, <1>3, <1>4, <1>5

\* The character that stands for the name of a tag, a space or a bracket.
LEMMA OneChar ==
  ASSUME NEW t \in Nat
  PROVE  /\ <<Char(t, 0, "a")>> \in Seq(CharRecords)
         /\ Len(<<Char(t, 0, "a")>>) = 1 /\ Is(<<Char(t, 0, "a")>>[1], t, 0)
  BY DEF Char, CharRecords, Is, Characters

\* u has characters of the first j attributes of token t only, and each of these
\* attributes in one run.
Tag(u, token, t, j) ==
  /\ \A x \in 1..Len(u) : u[x].token = t /\ u[x].attr \in 0..j
  /\ \A i \in 1..j : \E b : Run(u, t, i, b, Len(token.attrs[i].chars))

\* An attribute has at least one character.
LEMMA AttributeAt ==
  ASSUME NEW token \in Tokens, NEW i \in 1..Len(token.attrs)
  PROVE  /\ token.attrs[i].chars \in Seq(Characters) /\ Len(token.attrs[i].chars) \in Nat \ {0}
         /\ Len(token.attrs) \in Nat
  <1>1. token.attrs \in Seq(Attributes)
    BY Zenon DEF Tokens
  <1>2. token.attrs[i] \in Attributes
    BY <1>1
  <1>3. token.attrs[i].chars \in Seq(Characters) /\ token.attrs[i].chars # <<>>
    BY Zenon, <1>2 DEF Attributes
  <1> QED BY <1>1, <1>3

\* A space between attributes disturbs none of them.
LEMMA TagSpace ==
  ASSUME NEW token \in Tokens, NEW t \in Nat, NEW j \in Nat,
         NEW u \in Seq(CharRecords), Tag(u, token, t, j)
  PROVE  LET w == u \o <<Char(t, 0, "a")>>
         IN  w \in Seq(CharRecords) /\ Tag(w, token, t, j)
  <1> DEFINE v == <<Char(t, 0, "a")>>
             w == u \o v
  <1>1. v \in Seq(CharRecords) /\ Len(v) = 1 /\ Is(v[1], t, 0)
    BY Zenon, OneChar
  <1> HIDE DEF v
  <1>2. w \in Seq(CharRecords) /\ Joined(w, u, v)
    BY Zenon, <1>1, Concat
  <1> HIDE DEF w
  <1>3. ASSUME NEW x \in 1..Len(w) PROVE w[x].token = t /\ w[x].attr \in 0..j
    <2>1. CASE x \in 1..Len(u) /\ w[x] = u[x]
      BY Zenon, <2>1 DEF Tag
    <2>2. CASE x - Len(u) \in 1..Len(v) /\ w[x] = v[x - Len(u)]
      <3>1. x - Len(u) = 1
        BY <1>1, <2>2
      <3> QED BY <1>1, <2>2, <3>1 DEF Is
    <2> QED BY <1>2, <2>1, <2>2, JoinedAt
  <1>4. ASSUME NEW i \in 1..j PROVE \E b : Run(w, t, i, b, Len(token.attrs[i].chars))
    <2>1. PICK b : Run(u, t, i, b, Len(token.attrs[i].chars))
      BY Zenon DEF Tag
    <2>2. None(v, t, i)
      BY <1>1 DEF None, Is
    <2> QED BY Zenon, <1>2, <2>1, <2>2, RunKept
  <1> QED BY Zenon, <1>2, <1>3, <1>4 DEF Tag, w, v

\* With its next attribute a tag holds one more, in one run.
LEMMA TagGrows ==
  ASSUME NEW token \in Tokens, NEW t \in Nat, NEW j \in 1..Len(token.attrs),
         NEW u \in Seq(CharRecords), Tag(u, token, t, j - 1)
  PROVE  LET w == u \o Spread(token.attrs[j].chars, t, j)
         IN  w \in Seq(CharRecords) /\ Tag(w, token, t, j)
  <1> DEFINE c == token.attrs[j].chars
             v == Spread(c, t, j)
             w == u \o v
  <1>1. j \in Nat /\ c \in Seq(Characters)
    <2>1. c \in Seq(Characters) /\ Len(token.attrs) \in Nat
      BY Zenon, AttributeAt
    <2> HIDE DEF c
    <2> QED BY <2>1
  <1> HIDE DEF c
  <1>2. /\ v \in Seq(CharRecords) /\ \A x \in 1..Len(v) : Is(v[x], t, j)
        /\ Run(v, t, j, 0, Len(c))
    BY Zenon, <1>1, SpreadChars
  <1> HIDE DEF v
  <1>3. w \in Seq(CharRecords) /\ Joined(w, u, v)
    BY Zenon, <1>2, Concat
  <1> HIDE DEF w
  <1>4. ASSUME NEW x \in 1..Len(w) PROVE w[x].token = t /\ w[x].attr \in 0..j
    <2>1. CASE x \in 1..Len(u) /\ w[x] = u[x]
      <3>1. w[x].token = t /\ w[x].attr \in 0..(j - 1)
        BY Zenon, <2>1 DEF Tag
      <3> QED BY <1>1, <3>1
    <2>2. CASE x - Len(u) \in 1..Len(v) /\ w[x] = v[x - Len(u)]
      BY <1>1, <1>2, <2>2 DEF Is
    <2> QED BY <1>3, <2>1, <2>2, JoinedAt
  <1>5. ASSUME NEW i \in 1..j PROVE \E b : Run(w, t, i, b, Len(token.attrs[i].chars))
    <2>1. CASE i = j
      <3>1. None(u, t, j)
        <4>1. ASSUME NEW x \in 1..Len(u) PROVE ~Is(u[x], t, j)
          <5>1. u[x].attr \in 0..(j - 1)
            BY Zenon DEF Tag
          <5> QED BY <1>1, <5>1 DEF Is
        <4> QED BY Zenon, <4>1 DEF None
      <3> QED BY Zenon, <1>2, <1>3, <2>1, <3>1, RunAfter DEF c
    <2>2. CASE i # j
      <3>1. i \in 1..(j - 1)
        BY <1>1, <2>2
      <3>2. PICK b : Run(u, t, i, b, Len(token.attrs[i].chars))
        BY Zenon, <3>1 DEF Tag
      <3>3. None(v, t, i)
        BY Zenon, <1>2, <2>2 DEF None, Is
      <3> QED BY Zenon, <1>3, <3>2, <3>3, RunKept
    <2> QED BY Zenon, <2>1, <2>2
  <1> QED BY Zenon, <1>3, <1>4, <1>5 DEF Tag, w, v, c

\* A start tag holds each of its attributes in one run of characters.
LEMMA TagCharsRun ==
  ASSUME NEW token \in Tokens, NEW t \in Nat
  PROVE  LET u == TagChars(token, t)[Len(token.attrs)]
         IN  u \in Seq(CharRecords) /\ Tag(u, token, t, Len(token.attrs))
  <1> DEFINE n == Len(token.attrs)
             a == Spread(token.chars, t, 0)
             Space == <<Char(t, 0, "a")>>
             F(u) == [i \in 0..n |-> IF i = 0 THEN a
                                     ELSE u[i - 1] \o Space \o Spread(token.attrs[i].chars, t, i)]
             S == [i \in 0..n |-> {u \in Seq(CharRecords) : Tag(u, token, t, i)}]
             G == [i \in 1..n |-> [x \in S[i - 1] |->
                                     x \o Space \o Spread(token.attrs[i].chars, t, i)]]
             B == TagChars(token, t)
  <1>1. n \in Nat /\ token.chars \in Seq(Characters)
    BY DEF Tokens
  <1>2. a \in S[0]
    <2>1. a \in Seq(CharRecords) /\ \A x \in 1..Len(a) : Is(a[x], t, 0)
      BY Zenon, <1>1, SpreadChars
    <2> HIDE DEF a
    <2>2. Tag(a, token, t, 0)
      BY <2>1 DEF Tag, Is
    <2> HIDE DEF n
    <2> QED BY <1>1, <2>1, <2>2
  <1> HIDE DEF a
  <1>3. Closed(G, n, S)
    <2>1. ASSUME NEW i \in 1..n, NEW x \in S[i - 1] PROVE G[i][x] \in S[i]
      <3> DEFINE y == x \o Space
                 z == y \o Spread(token.attrs[i].chars, t, i)
      <3>1. i - 1 \in Nat /\ i - 1 \in 0..n /\ i \in 0..n
        BY <1>1
      <3>2. x \in Seq(CharRecords) /\ Tag(x, token, t, i - 1)
        BY Zenon, <3>1
      <3>3. y \in Seq(CharRecords) /\ Tag(y, token, t, i - 1)
        <4> HIDE DEF n
        <4> QED BY Zenon, <3>1, <3>2, TagSpace
      <3> HIDE DEF y
      <3>4. z \in Seq(CharRecords) /\ Tag(z, token, t, i)
        BY Zenon, <3>3, TagGrows
      <3>5. G[i][x] = z
        BY Zenon DEF y
      <3> HIDE DEF G, z, n
      <3> QED BY Zenon, <3>1, <3>4, <3>5
    <2> HIDE DEF n, G, S
    <2> QED BY Zenon, <2>1 DEF Closed
  <1>4. \E g : g = F(g)
    <2>1. PICK g : Follows(g, n, S, a, G)
      <3> HIDE DEF n, G, S
      <3> QED BY Zenon, <1>1, <1>2, <1>3, Iterate
    <2>2. \A i \in 0..n : g[i] \in S[i]
      BY Zenon, <2>1 DEF Follows
    <2>3. g = [i \in 0..n |-> g[i]]
      BY Zenon, <2>1 DEF Follows
    <2>4. g[0] = a /\ \A i \in 1..n : g[i] = G[i][g[i - 1]]
      BY Zenon, <2>1 DEF Follows
    <2>5. ASSUME NEW i \in 1..n
          PROVE  g[i] = g[i - 1] \o Space \o Spread(token.attrs[i].chars, t, i)
      <3>1. i - 1 \in 0..n /\ g[i - 1] \in S[i - 1] /\ g[i] = G[i][g[i - 1]]
        <4> HIDE DEF n, G, S
        <4> QED BY <1>1, <2>2, <2>4
      <3> HIDE DEF S
      <3> QED BY Zenon, <3>1
    <2>6. \A i \in 0..n : i # 0 => i \in 1..n
      BY <1>1
    <2> HIDE DEF n, G, S, Space
    <2>7. \A i \in 0..n : g[i] = IF i = 0 THEN a
                                 ELSE g[i - 1] \o Space \o Spread(token.attrs[i].chars, t, i)
      BY Zenon, <2>4, <2>5, <2>6
    <2>8. F(g) = [i \in 0..n |-> g[i]]
      BY Zenon, <2>7
    <2> QED BY Zenon, <2>3, <2>8
  <1>5. B = F(B)
    <2>1. B = CHOOSE u : u = F(u)
      BY Zenon DEF TagChars, a
    <2> HIDE DEF F, B
    <2> QED BY Zenon, <1>4, <2>1
  <1> HIDE DEF B, n
  <1>6. B[0] = a /\ \A i \in 1..n : B[i] = B[i - 1] \o Space \o Spread(token.attrs[i].chars, t, i)
    <2>1. 0 \in 0..n /\ \A i \in 1..n : i \in 0..n /\ i # 0
      BY <1>1
    <2> QED BY Zenon, <1>5, <2>1
  <1>7. \A k \in 0..n : B[k] \in S[k]
    <2>1. \A i \in 1..n : B[i - 1] \in S[i - 1] => B[i] = G[i][B[i - 1]]
      <3> HIDE DEF S, Space
      <3> QED BY Zenon, <1>6
    <2> HIDE DEF G, S
    <2> QED BY <1>1, <1>2, <1>3, <1>6, <2>1, Stays
  <1>8. B[n] \in S[n] /\ n \in 0..n
    BY <1>1, <1>7
  <1> QED BY Zenon, <1>8 DEF B, n

\* The characters of a token are its own, and a start tag has its attributes.
LEMMA TokenCharsRun ==
  ASSUME NEW token \in Tokens, NEW t \in Nat
  PROVE  LET u == TokenChars(token, t)
         IN  /\ u \in Seq(CharRecords)
             /\ \A x \in 1..Len(u) : u[x].token = t /\ u[x].attr \in 0..Len(token.attrs)
             /\ token.kind \in {"signature", "element"} => Tag(u, token, t, Len(token.attrs))
  <1> DEFINE n == Len(token.attrs)
             u == TokenChars(token, t)
             v == TagChars(token, t)[n]
  <1>1. n \in Nat /\ token.chars \in Seq(Characters)
    BY DEF Tokens
  <1>2. CASE token.kind \in {"signature", "element"}
    <2>1. v \in Seq(CharRecords) /\ Tag(v, token, t, n)
      BY Zenon, TagCharsRun
    <2>2. u = v \o <<Char(t, 0, "a")>>
      BY Zenon, <1>2 DEF TokenChars
    <2> HIDE DEF n, u, v
    <2>3. u \in Seq(CharRecords) /\ Tag(u, token, t, n)
      BY Zenon, <1>1, <2>1, <2>2, TagSpace
    <2>4. \A x \in 1..Len(u) : u[x].token = t /\ u[x].attr \in 0..n
      BY Zenon, <2>3 DEF Tag
    <2> QED BY Zenon, <2>3, <2>4 DEF n, u
  <1>3. CASE ~(token.kind \in {"signature", "element"})
    <2>1. u = Spread(token.chars, t, 0)
      BY Zenon, <1>3 DEF TokenChars
    <2> HIDE DEF u
    <2>2. u \in Seq(CharRecords) /\ \A x \in 1..Len(u) : Is(u[x], t, 0)
      BY Zenon, <1>1, <2>1, SpreadChars
    <2>3. 0 \in 0..n
      BY <1>1
    <2>4. \A x \in 1..Len(u) : u[x].token = t /\ u[x].attr \in 0..n
      BY Zenon, <2>2, <2>3 DEF Is
    <2> QED BY Zenon, <1>3, <2>2, <2>4 DEF u
  <1> QED BY Zenon, <1>2, <1>3

\* The tokens follow each other, and every attribute of a tag is one run.
Layout(u, d, t) ==
  /\ \A x \in 1..Len(u) :
       /\ u[x].token \in 1..t
       /\ u[x].attr \in 0..Len(d.tokens[u[x].token].attrs)
  /\ \A x, y \in 1..Len(u) : x < y => u[x].token <= u[y].token
  /\ \A k \in 1..t : d.tokens[k].kind \in {"signature", "element"} =>
       \A i \in 1..Len(d.tokens[k].attrs) : \E b : Run(u, k, i, b, Len(d.tokens[k].attrs[i].chars))

\* The tokens of a document.
LEMMA TokenAt ==
  ASSUME NEW d \in XmlDocuments
  PROVE  /\ Len(d.tokens) \in Nat /\ DOMAIN d.tokens = 1..Len(d.tokens)
         /\ \A t \in 1..Len(d.tokens) : d.tokens[t] \in Tokens
  <1>1. d.tokens \in Seq(Tokens)
    BY Zenon DEF XmlDocuments
  <1> QED BY <1>1

\* With its next token a document has the attributes of one token more.
LEMMA LayoutGrows ==
  ASSUME NEW d \in XmlDocuments, NEW t \in 1..Len(d.tokens),
         NEW u \in Seq(CharRecords), Layout(u, d, t - 1)
  PROVE  LET w == u \o TokenChars(d.tokens[t], t)
         IN  w \in Seq(CharRecords) /\ Layout(w, d, t)
  <1> DEFINE token == d.tokens[t]
             v == TokenChars(token, t)
             w == u \o v
  <1>1. token \in Tokens /\ t \in Nat /\ t # 0
    <2> DEFINE m == Len(d.tokens)
    <2>1. token \in Tokens /\ m \in Nat /\ t \in 1..m
      BY Zenon, TokenAt
    <2> HIDE DEF token, m
    <2> QED BY <2>1
  <1> HIDE DEF token
  <1>2. /\ v \in Seq(CharRecords)
        /\ \A x \in 1..Len(v) : v[x].token = t /\ v[x].attr \in 0..Len(token.attrs)
        /\ token.kind \in {"signature", "element"} => Tag(v, token, t, Len(token.attrs))
    BY Zenon, <1>1, TokenCharsRun
  <1> HIDE DEF v
  <1>3. w \in Seq(CharRecords) /\ Joined(w, u, v)
    BY Zenon, <1>2, Concat
  <1> HIDE DEF w
  <1>4. \A x \in 1..Len(u) : u[x].token \in 1..(t - 1) /\ u[x].token \in 1..t /\ u[x].token # t
    <2>1. \A x \in 1..Len(u) : u[x].token \in 1..(t - 1)
      BY Zenon DEF Layout
    <2>2. \A k \in 1..(t - 1) : k \in 1..t /\ k # t
      BY <1>1
    <2> QED BY Zenon, <2>1, <2>2
  <1>5. t \in 1..t
    BY <1>1
  <1> DEFINE l == Len(u)
             In(z) == z \in 1..l /\ w[z] = u[z]
             After(z) == z - l \in 1..Len(v) /\ w[z] = v[z - l] /\ z = l + (z - l) /\ z > l
  <1>6. ASSUME NEW z \in 1..Len(w) PROVE In(z) \/ After(z)
    BY <1>3, JoinedAt
  <1>7. ASSUME NEW x \in 1..Len(w)
        PROVE  w[x].token \in 1..t /\ w[x].attr \in 0..Len(d.tokens[w[x].token].attrs)
    <2>1. CASE In(x)
      BY Zenon, <1>4, <2>1 DEF Layout
    <2>2. CASE After(x)
      BY Zenon, <1>2, <1>5, <2>2 DEF token
    <2> QED BY Zenon, <1>6, <2>1, <2>2
  <1>8. ASSUME NEW x \in 1..Len(w), NEW y \in 1..Len(w), x < y
        PROVE  w[x].token <= w[y].token
    <2>1. CASE In(x) /\ In(y)
      BY Zenon, <1>8, <2>1 DEF Layout
    <2>2. CASE In(x) /\ After(y)
      <3>1. w[x].token \in 1..(t - 1) /\ w[y].token = t
        BY Zenon, <1>2, <1>4, <2>2
      <3> QED BY <1>1, <3>1
    <2>3. CASE After(x) /\ In(y)
      <3>1. l \in Nat
        OBVIOUS
      <3> HIDE DEF l
      <3> QED BY <1>8, <2>3, <3>1
    <2>4. CASE After(x) /\ After(y)
      <3>1. w[x].token = t /\ w[y].token = t
        BY Zenon, <1>2, <2>4
      <3> QED BY <1>1, <3>1
    <2> QED BY Zenon, <1>6, <2>1, <2>2, <2>3, <2>4
  <1>9. ASSUME NEW k \in 1..t, d.tokens[k].kind \in {"signature", "element"},
               NEW i \in 1..Len(d.tokens[k].attrs)
        PROVE  \E b : Run(w, k, i, b, Len(d.tokens[k].attrs[i].chars))
    <2>1. CASE k = t
      <3>1. PICK b : Run(v, t, i, b, Len(token.attrs[i].chars))
        BY Zenon, <1>2, <1>9, <2>1 DEF Tag, token
      <3>2. None(u, t, i)
        BY Zenon, <1>4 DEF None, Is
      <3> QED BY Zenon, <1>3, <2>1, <3>1, <3>2, RunAfter DEF token
    <2>2. CASE k # t
      <3>1. k \in 1..(t - 1)
        BY <1>1, <2>2
      <3>2. PICK b : Run(u, k, i, b, Len(d.tokens[k].attrs[i].chars))
        BY Zenon, <1>9, <3>1 DEF Layout
      <3>3. None(v, k, i)
        BY Zenon, <1>2, <2>2 DEF None, Is
      <3> QED BY Zenon, <1>3, <3>2, <3>3, RunKept
    <2> QED BY Zenon, <2>1, <2>2
  <1>10. Layout(w, d, t)
    BY Zenon, <1>7, <1>8, <1>9 DEF Layout
  <1> QED BY Zenon, <1>3, <1>10 DEF w, v, token

\* Every attribute of the document is one run of its characters.
LEMMA DocumentLayout ==
  ASSUME NEW d \in XmlDocuments
  PROVE  DocumentChars(d) \in Seq(CharRecords) /\ Layout(DocumentChars(d), d, Len(d.tokens))
  <1> DEFINE n == Len(d.tokens)
             F(u) == [i \in 0..n |-> IF i = 0 THEN <<>> ELSE u[i - 1] \o TokenChars(d.tokens[i], i)]
             S == [i \in 0..n |-> {u \in Seq(CharRecords) : Layout(u, d, i)}]
             G == [i \in 1..n |-> [x \in S[i - 1] |-> x \o TokenChars(d.tokens[i], i)]]
             B == CharsUpto(d)
  <1>1. n \in Nat
    BY Zenon, TokenAt
  <1>2. <<>> \in S[0]
    <2>1. Layout(<<>>, d, 0)
      BY DEF Layout
    <2> HIDE DEF n
    <2> QED BY <1>1, <2>1
  <1>3. Closed(G, n, S)
    <2>1. ASSUME NEW i \in 1..n, NEW x \in S[i - 1] PROVE G[i][x] \in S[i]
      <3> DEFINE z == x \o TokenChars(d.tokens[i], i)
      <3>1. i - 1 \in 0..n /\ i \in 0..n
        <4> HIDE DEF n
        <4> QED BY <1>1
      <3>2. x \in Seq(CharRecords) /\ Layout(x, d, i - 1)
        BY Zenon, <3>1
      <3>3. z \in Seq(CharRecords) /\ Layout(z, d, i)
        BY Zenon, <3>2, LayoutGrows
      <3>4. G[i][x] = z
        BY Zenon
      <3> HIDE DEF G, z, n
      <3> QED BY Zenon, <3>1, <3>3, <3>4
    <2> HIDE DEF n, G, S
    <2> QED BY Zenon, <2>1 DEF Closed
  <1>4. \E g : g = F(g)
    <2>1. PICK g : Follows(g, n, S, <<>>, G)
      <3> HIDE DEF n, G, S
      <3> QED BY Zenon, <1>1, <1>2, <1>3, Iterate
    <2>2. \A i \in 0..n : g[i] \in S[i]
      BY Zenon, <2>1 DEF Follows
    <2>3. g = [i \in 0..n |-> g[i]]
      BY Zenon, <2>1 DEF Follows
    <2>4. g[0] = <<>> /\ \A i \in 1..n : g[i] = G[i][g[i - 1]]
      BY Zenon, <2>1 DEF Follows
    <2>5. ASSUME NEW i \in 1..n PROVE  g[i] = g[i - 1] \o TokenChars(d.tokens[i], i)
      <3>1. i - 1 \in 0..n /\ g[i - 1] \in S[i - 1] /\ g[i] = G[i][g[i - 1]]
        <4> HIDE DEF n, G, S
        <4> QED BY <1>1, <2>2, <2>4
      <3> HIDE DEF S
      <3> QED BY Zenon, <3>1
    <2> HIDE DEF n, G, S
    <2>6. \A i \in 0..n : i # 0 => i \in 1..n
      BY <1>1
    <2>7. \A i \in 0..n : g[i] = IF i = 0 THEN <<>> ELSE g[i - 1] \o TokenChars(d.tokens[i], i)
      BY Zenon, <2>4, <2>5, <2>6
    <2>8. F(g) = [i \in 0..n |-> g[i]]
      BY Zenon, <2>7
    <2> QED BY Zenon, <2>3, <2>8
  <1>5. B = F(B)
    <2>1. B = CHOOSE u : u = F(u)
      BY Zenon DEF CharsUpto
    <2> HIDE DEF F, B
    <2> QED BY Zenon, <1>4, <2>1
  <1> HIDE DEF B, n
  <1>6. B[0] = <<>> /\ \A i \in 1..n : B[i] = B[i - 1] \o TokenChars(d.tokens[i], i)
    <2>1. 0 \in 0..n /\ \A i \in 1..n : i \in 0..n /\ i # 0
      BY <1>1
    <2> QED BY Zenon, <1>5, <2>1
  <1>7. \A k \in 0..n : B[k] \in S[k]
    <2>1. \A i \in 1..n : B[i - 1] \in S[i - 1] => B[i] = G[i][B[i - 1]]
      <3> HIDE DEF S
      <3> QED BY Zenon, <1>6
    <2> HIDE DEF G, S
    <2> QED BY <1>1, <1>2, <1>3, <1>6, <2>1, Stays
  <1>8. B[n] \in S[n] /\ n \in 0..n
    BY <1>1, <1>7
  <1> QED BY Zenon, <1>8 DEF DocumentChars, B, n

\* AttributeBegins and AttributeEnds delimit the run.
LEMMA RunFound ==
  ASSUME NEW d \in XmlDocuments, NEW t \in 1..Len(d.tokens),
         NEW i \in 1..Len(d.tokens[t].attrs),
         d.tokens[t].kind \in {"signature", "element"}
  PROVE  LET chars == DocumentChars(d)
             b == AttributeBegins(chars, t, i)
             e == AttributeEnds(chars, t, i, d.tokens[t])
         IN  /\ b \in Nat /\ e \in Nat /\ b < e /\ e <= Len(chars)
             /\ \A n \in 1..Len(chars) : Is(chars[n], t, i) <=> b < n /\ n <= e
  <1> DEFINE chars == DocumentChars(d)
             N == Len(chars)
             l == Len(d.tokens[t].attrs[i].chars)
             First(n) == Is(chars[n + 1], t, i) /\ \A m \in 1..n : ~Is(chars[m], t, i)
  <1>1. chars \in Seq(CharRecords) /\ Layout(chars, d, Len(d.tokens))
    BY Zenon, DocumentLayout
  <1>2. l \in Nat \ {0}
    <2>1. d.tokens[t] \in Tokens
      BY Zenon, TokenAt
    <2> QED BY Zenon, <2>1, AttributeAt
  <1>3. PICK b : Run(chars, t, i, b, l)
    BY Zenon, <1>1 DEF Layout
  <1>4. AttributeBegins(chars, t, i) = CHOOSE n \in 0..(N - 1) : First(n)
    BY Zenon DEF AttributeBegins, Is
  <1>5. AttributeEnds(chars, t, i, d.tokens[t]) = AttributeBegins(chars, t, i) + l
    BY Zenon DEF AttributeEnds
  <1>6. N \in Nat
    BY <1>1
  <1>7. /\ b \in Nat /\ b + l <= N
        /\ \A n \in 1..N : Is(chars[n], t, i) <=> b < n /\ n <= b + l
    BY Zenon, <1>3 DEF Run
  <1> HIDE DEF l, N, chars
  <1>8. b \in 0..(N - 1) /\ First(b)
    <2>1. b + 1 \in 1..N /\ b < b + 1 /\ b + 1 <= b + l /\ b \in 0..(N - 1)
      BY <1>2, <1>6, <1>7
    <2>2. \A m \in 1..b : m \in 1..N /\ ~(b < m)
      BY <1>2, <1>6, <1>7
    <2> QED BY Zenon, <1>7, <2>1, <2>2
  <1>9. ASSUME NEW n \in 0..(N - 1), First(n) PROVE n = b
    <2>1. n + 1 \in 1..N /\ b + 1 \in 1..N
      BY <1>2, <1>6, <1>7
    <2>2. b < n + 1
      BY Zenon, <1>7, <1>9, <2>1
    <2>3. ~(b < n)
      <3>1. b + 1 \in 1..n => ~Is(chars[b + 1], t, i)
        BY Zenon, <1>9
      <3>2. b < n => b + 1 \in 1..n
        BY <1>7
      <3> QED BY Zenon, <1>8, <3>1, <3>2
    <2> QED BY <1>7, <2>2, <2>3
  <1>10. AttributeBegins(chars, t, i) = b
    <2> HIDE DEF First
    <2> QED BY Zenon, <1>4, <1>8, <1>9
  <1>11. b + l \in Nat /\ b < b + l
    BY <1>2, <1>7
  <1> QED BY Zenon, <1>5, <1>7, <1>10, <1>11 DEF chars, N

-----------------------------------------------------------------------------
(* The scan                                                                *)

Text(d) == DocumentBytes(d, DocumentChars(d))

Ids(d) == SignatureIdBytes(d, DocumentChars(d))

\* The attributes among the characters are those of the tokens.
LEMMA IdsAre ==
  ASSUME NEW d \in XmlDocuments, NEW n \in 1..Len(DocumentChars(d))
  PROVE  LET c == DocumentChars(d)[n]
             token == d.tokens[c.token]
         IN  /\ n \in Ids(d) <=> c.attr # 0 /\ token.kind = "signature" /\ IsId(token.attrs[c.attr])
             /\ c.token \in 1..Len(d.tokens) /\ c.attr \in 0..Len(token.attrs)
             /\ c.attr # 0 => c.attr \in 1..Len(token.attrs)
  <1> DEFINE chars == DocumentChars(d)
  <1>1. chars \in Seq(CharRecords) /\ Layout(chars, d, Len(d.tokens))
    BY Zenon, DocumentLayout
  <1>2. n \in DOMAIN chars
    BY <1>1
  <1>3. /\ chars[n].token \in 1..Len(d.tokens)
        /\ chars[n].attr \in 0..Len(d.tokens[chars[n].token].attrs)
    BY Zenon, <1>1 DEF Layout
  <1>4. chars[n].attr # 0 => chars[n].attr \in 1..Len(d.tokens[chars[n].token].attrs)
    <2> DEFINE a == chars[n].attr
               m == Len(d.tokens[chars[n].token].attrs)
    <2>1. m \in Nat
      <3>1. d.tokens[chars[n].token] \in Tokens
        BY Zenon, <1>3, TokenAt
      <3> QED BY <3>1 DEF Tokens
    <2>2. a \in 0..m
      BY Zenon, <1>3
    <2> HIDE DEF a, m
    <2>3. a # 0 => a \in 1..m
      BY <2>1, <2>2
    <2> QED BY Zenon, <2>3 DEF a, m
  <1>5. n \in Ids(d) <=> /\ chars[n].attr # 0
                         /\ d.tokens[chars[n].token].kind = "signature"
                         /\ IsId(d.tokens[chars[n].token].attrs[chars[n].attr])
    <2> HIDE DEF chars
    <2>1. Ids(d) = SignatureIdBytes(d, chars)
      BY Zenon DEF Ids, chars
    <2> QED BY Zenon, <1>2, <2>1 DEF SignatureIdBytes
  <1> QED BY Zenon, <1>3, <1>4, <1>5

Scans ==
  [out : Seq(ByteRecords), keptFrom : Nat, read : Nat, changed : BOOLEAN, unreadable : BOOLEAN]

\* After t tokens, the output has the document up to what was read, without Ids
\* only, and for a well-formed document without all of them.
Kept(s, d, t) ==
  /\ s.read \in 0..Len(DocumentChars(d))
  /\ s.keptFrom = Width(DocumentChars(d), s.read, Source(d))
  /\ InOrder(s.out) /\ Range(s.out) \subseteq Range(Text(d))
  /\ \A x \in 1..Len(s.out) : s.out[x].at <= s.read
  /\ \A b \in Range(Text(d)) : b.at <= s.read /\ b.at \notin Ids(d) => b \in Range(s.out)
  /\ \A n \in 1..s.read : DocumentChars(d)[n].token <= t
  /\ ~s.changed => s.read = 0 /\ s.out = <<>>
  /\ WellFormed(d) =>
       /\ ~s.unreadable
       /\ \A n \in Ids(d) : DocumentChars(d)[n].token <= t => n <= s.read
       /\ \A b \in Range(s.out) : b.at \notin Ids(d)

\* A token without an Id that is a signature's changes nothing.
LEMMA KeptOver ==
  ASSUME NEW d \in XmlDocuments, NEW t \in 1..Len(d.tokens), NEW s, Kept(s, d, t - 1),
         WellFormed(d) => \A n \in Ids(d) : DocumentChars(d)[n].token # t
  PROVE  Kept(s, d, t)
  <1> DEFINE chars == DocumentChars(d)
             N == Len(chars)
  <1>1. t \in Nat /\ N \in Nat /\ \A n \in 1..N : chars[n].token \in Nat
    <2> DEFINE m == Len(d.tokens)
    <2>1. m \in Nat /\ t \in 1..m
      BY Zenon, TokenAt
    <2>2. chars \in Seq(CharRecords)
      BY Zenon, DocumentLayout
    <2>3. \A n \in 1..N : chars[n].token \in Nat
      BY Zenon, <2>2, CharAt
    <2> HIDE DEF m, chars
    <2> QED BY <2>1, <2>2, <2>3
  <1>2. s.read \in 0..N /\ \A n \in 1..s.read : chars[n].token <= t - 1
    BY Zenon DEF Kept
  <1>3. Ids(d) \subseteq 1..N
    <2>1. chars \in Seq(CharRecords)
      BY Zenon, DocumentLayout
    <2>2. DOMAIN chars = 1..N
      BY <2>1
    <2> QED BY Zenon, <2>2 DEF Ids, SignatureIdBytes
  <1> HIDE DEF chars, N
  <1>4. ASSUME NEW n \in 1..s.read PROVE chars[n].token <= t
    <2>1. n \in 1..N /\ chars[n].token <= t - 1
      BY <1>1, <1>2
    <2>2. chars[n].token \in Nat
      BY Zenon, <1>1, <2>1
    <2> QED BY <1>1, <2>1, <2>2
  <1>5. ASSUME WellFormed(d), NEW n \in Ids(d), chars[n].token <= t PROVE n <= s.read
    <2>1. chars[n].token # t
      BY Zenon, <1>5 DEF chars
    <2>2. chars[n].token <= t - 1
      BY <1>1, <1>3, <1>5, <2>1
    <2> QED BY Zenon, <1>5, <2>2 DEF Kept, chars
  <1> QED BY Zenon, <1>4, <1>5 DEF Kept, chars

\* A document whose scan fails is not rewritten, whatever was kept until then.
LEMMA KeptUnread ==
  ASSUME NEW d \in XmlDocuments, NEW t \in 1..Len(d.tokens), NEW s \in Scans, Kept(s, d, t - 1),
         ~WellFormed(d)
  PROVE  LET r == [s EXCEPT !.unreadable = TRUE]
         IN  r \in Scans /\ Kept(r, d, t)
  <1> DEFINE r == [s EXCEPT !.unreadable = TRUE]
  <1>1. Kept(s, d, t)
    BY Zenon, KeptOver
  <1>2. /\ r \in Scans /\ r.out = s.out /\ r.keptFrom = s.keptFrom /\ r.read = s.read
        /\ r.changed = s.changed
    BY Zenon DEF Scans
  <1> HIDE DEF r
  <1>3. Kept(r, d, t)
    BY Zenon, <1>1, <1>2 DEF Kept
  <1> QED BY Zenon, <1>2, <1>3 DEF r

\* The characters and the bytes of the document that is scanned.
LEMMA TextAt ==
  ASSUME NEW d \in XmlDocuments
  PROVE  /\ DocumentChars(d) \in Seq(CharRecords) /\ Len(DocumentChars(d)) \in Nat
         /\ \A n \in 1..Len(DocumentChars(d)) : DocumentChars(d)[n].token \in Nat
         /\ Ids(d) \subseteq 1..Len(DocumentChars(d))
         /\ Text(d) \in Seq(ByteRecords) /\ InOrder(Text(d))
         /\ Len(Text(d)) = Width(DocumentChars(d), Len(DocumentChars(d)), Source(d))
         /\ \A y \in Range(Text(d)) : y.at \in 1..Len(DocumentChars(d))
  <1> DEFINE chars == DocumentChars(d)
  <1>1. chars \in Seq(CharRecords)
    BY Zenon, DocumentLayout
  <1> HIDE DEF chars
  <1>2. \A n \in 1..Len(chars) : chars[n].token \in Nat
    BY Zenon, <1>1, CharAt
  <1>3. Len(chars) \in Nat /\ DOMAIN chars = 1..Len(chars)
    BY <1>1
  <1>4. Ids(d) \subseteq 1..Len(chars)
    BY Zenon, <1>3 DEF Ids, SignatureIdBytes, chars
  <1>5. InOrder(Text(d))
    BY Zenon, <1>1, BytesInOrder DEF Text, chars
  <1>6. /\ Text(d) \in Seq(ByteRecords)
        /\ Len(Text(d)) = Width(chars, Len(chars), Source(d))
        /\ \A x \in 1..Len(Text(d)) : Text(d)[x].at \in 1..Len(chars)
    BY Zenon, <1>1, BytesPlaced DEF Text, chars, Width, Placed
  <1>7. ASSUME NEW y \in Range(Text(d)) PROVE y.at \in 1..Len(chars)
    <2>1. PICK x \in 1..Len(Text(d)) : y = Text(d)[x]
      BY Zenon, <1>6, RangeOf
    <2> QED BY Zenon, <1>6, <2>1
  <1> QED BY Zenon, <1>1, <1>2, <1>3, <1>4, <1>5, <1>6, <1>7 DEF chars

\* Cutting out an Id keeps what is outside of it.
LEMMA KeptCut ==
  ASSUME NEW d \in XmlDocuments, NEW t \in 1..Len(d.tokens), NEW s \in Scans, Kept(s, d, t - 1),
         NEW i \in 1..Len(d.tokens[t].attrs),
         d.tokens[t].kind = "signature", IsId(d.tokens[t].attrs[i]),
         WellFormed(d) => \A j \in 1..Len(d.tokens[t].attrs) : IsId(d.tokens[t].attrs[j]) => j = i
  PROVE  LET chars == DocumentChars(d)
             b == AttributeBegins(chars, t, i)
             e == AttributeEnds(chars, t, i, d.tokens[t])
             r == Cut(s, Text(d), Width(chars, b, Source(d)), Width(chars, e, Source(d)), e)
         IN  /\ s.read \in 0..b /\ b \in 0..Len(chars) /\ e \in b..Len(chars)
             /\ r \in Scans /\ Kept(r, d, t)
  <1> DEFINE chars == DocumentChars(d)
             N == Len(chars)
             b == AttributeBegins(chars, t, i)
             e == AttributeEnds(chars, t, i, d.tokens[t])
             r == Cut(s, Text(d), Width(chars, b, Source(d)), Width(chars, e, Source(d)), e)
             p == s.read
             D == {y \in Range(Text(d)) : p < y.at /\ y.at <= b}
  <1>1. /\ b \in Nat /\ e \in Nat /\ b < e /\ e <= N
        /\ \A n \in 1..N : Is(chars[n], t, i) <=> b < n /\ n <= e
    BY Zenon, RunFound
  <1>2. /\ chars \in Seq(CharRecords) /\ N \in Nat /\ \A n \in 1..N : chars[n].token \in Nat
        /\ Text(d) \in Seq(ByteRecords) /\ Ids(d) \subseteq 1..N
        /\ \A y \in Range(Text(d)) : y.at \in 1..N
    BY Zenon, TextAt
  <1>3. \A x, y \in 1..N : x < y => chars[x].token <= chars[y].token
    BY Zenon, DocumentLayout DEF Layout
  <1>4. t \in Nat
    <2> DEFINE m == Len(d.tokens)
    <2>1. m \in Nat /\ t \in 1..m
      BY Zenon, TokenAt
    <2> HIDE DEF m
    <2> QED BY <2>1
  <1>5. /\ p \in 0..N /\ s.keptFrom = Width(chars, p, Source(d)) /\ InOrder(s.out)
        /\ \A x \in 1..Len(s.out) : s.out[x].at <= p
        /\ \A n \in 1..p : chars[n].token <= t - 1
    BY Zenon DEF Kept
  <1>6. \A n \in 1..N : /\ n \in Ids(d) /\ chars[n].token = t /\ WellFormed(d) => Is(chars[n], t, i)
                        /\ Is(chars[n], t, i) => n \in Ids(d)
    <2>1. ASSUME NEW n \in 1..N, n \in Ids(d), chars[n].token = t, WellFormed(d)
          PROVE  Is(chars[n], t, i)
      BY Zenon, <2>1, IdsAre DEF Is
    <2>2. ASSUME NEW n \in 1..N, Is(chars[n], t, i) PROVE n \in Ids(d)
      <3>1. i # 0
        <4>1. Len(d.tokens[t].attrs) \in Nat
          <5>1. d.tokens[t] \in Tokens
            BY Zenon, TokenAt
          <5> QED BY <5>1 DEF Tokens
        <4> DEFINE m == Len(d.tokens[t].attrs)
        <4>2. m \in Nat /\ i \in 1..m
          BY Zenon, <4>1
        <4> HIDE DEF m
        <4> QED BY <4>2
      <3> QED BY Zenon, <2>2, <3>1, IdsAre DEF Is
    <2> QED BY Zenon, <2>1, <2>2
  <1> HIDE DEF chars, N, b, e, p
  <1>7. p <= b /\ p \in Nat
    <2>1. ASSUME b < p PROVE FALSE
      <3>1. b + 1 \in 1..p /\ b + 1 \in 1..N /\ b < b + 1 /\ b + 1 <= e
        BY <1>1, <1>2, <1>5, <2>1
      <3>2. chars[b + 1].token = t
        BY Zenon, <1>1, <3>1 DEF Is
      <3>3. t <= t - 1
        BY Zenon, <1>5, <3>1, <3>2
      <3> QED BY <1>4, <3>3
    <2> QED BY <1>1, <1>2, <1>5, <2>1
  <1>8. p \in 0..b /\ b \in 0..N /\ e \in b..N /\ b \in p..N /\ e \in 0..N
    BY <1>1, <1>2, <1>7
  <1> DEFINE o == s.out \o SubSeq(Text(d), Width(chars, p, Source(d)) + 1, Width(chars, b, Source(d)))
  <1>9. /\ o \in Seq(ByteRecords) /\ InOrder(o)
        /\ \A x \in 1..Len(o) : o[x].at <= b
        /\ Range(o) = Range(s.out) \cup D
    <2>1. s.out \in Seq(ByteRecords)
      BY Zenon DEF Scans
    <2>2. p \in 0..Len(chars) /\ b \in p..Len(chars)
      BY Zenon, <1>5, <1>8 DEF N
    <2>3. Text(d) = DocumentBytes(d, chars)
      BY Zenon DEF Text, chars
    <2> DEFINE bytes == DocumentBytes(d, chars)
               v == s.out
               u == v \o SubSeq(bytes, Width(chars, p, Source(d)) + 1, Width(chars, b, Source(d)))
    <2>4. v \in Seq(ByteRecords) /\ Before(v, p)
      BY Zenon, <1>5, <2>1 DEF Before
    <2>5. o = u
      BY Zenon, <2>3
    <2> HIDE DEF v
    <2>6. Extends(u, v, bytes, p, b)
      BY Zenon, <1>2, <2>2, <2>4, Appended
    <2> HIDE DEF u, o
    <2> QED BY Zenon, <2>3, <2>5, <2>6 DEF v, Extends, Before
  <1>10. Width(chars, e, Source(d)) \in Nat
    BY Zenon, <1>2, <1>8, SourceWidths DEF Width, N
  <1>11. /\ r \in Scans /\ r.out = o /\ r.read = e /\ r.keptFrom = Width(chars, e, Source(d))
         /\ r.changed = TRUE /\ r.unreadable = s.unreadable
    <2> HIDE DEF o
    <2> DEFINE W == Width(chars, e, Source(d))
    <2>1. r = [s EXCEPT !.out = o, !.keptFrom = W, !.read = e, !.changed = TRUE]
      BY Zenon, <1>5 DEF Cut, o
    <2> HIDE DEF r, W
    <2>2. W \in Nat
      BY Zenon, <1>10 DEF W
    <2>3. /\ r \in Scans /\ r.out = o /\ r.read = e /\ r.keptFrom = W
          /\ r.changed = TRUE /\ r.unreadable = s.unreadable
      BY Zenon, <1>1, <1>9, <2>1, <2>2 DEF Scans
    <2> QED BY Zenon, <2>3 DEF W
  <1> HIDE DEF r, o
  <1>12. ASSUME NEW x \in 1..Len(r.out) PROVE r.out[x].at <= r.read
    <2>1. r.out[x].at <= b
      BY Zenon, <1>9, <1>11
    <2>2. r.out[x].at \in Nat
      BY Zenon, <1>9, <1>11, ByteAt
    <2> QED BY <1>1, <1>11, <2>1, <2>2
  <1>13. Range(r.out) \subseteq Range(Text(d))
    <2>1. Range(s.out) \subseteq Range(Text(d))
      BY Zenon DEF Kept
    <2> QED BY Zenon, <1>9, <1>11, <2>1
  <1>14. ASSUME NEW y \in Range(Text(d)), y.at <= e, y.at \notin Ids(d) PROVE y \in Range(r.out)
    <2>1. y.at \in 1..N /\ y.at \in Nat
      BY <1>2
    <2>2. CASE y.at <= p
      <3>1. y \in Range(s.out)
        BY Zenon, <1>14, <2>2 DEF Kept, p
      <3> QED BY Zenon, <1>9, <1>11, <3>1
    <2>3. CASE p < y.at /\ y.at <= b
      BY Zenon, <1>9, <1>11, <2>3
    <2>4. CASE b < y.at
      BY Zenon, <1>1, <1>6, <1>14, <2>1, <2>4
    <2> QED BY <1>1, <1>7, <2>1, <2>2, <2>3, <2>4
  <1>15. ASSUME NEW n \in 1..e PROVE chars[n].token <= t
    <2>1. n \in 1..N /\ e \in 1..N /\ (n < e \/ n = e) /\ b < e /\ e <= e
      BY <1>1, <1>2
    <2>2. chars[e].token = t
      BY Zenon, <1>1, <2>1 DEF Is
    <2>3. CASE n < e
      BY Zenon, <1>3, <2>1, <2>2, <2>3
    <2>4. CASE n = e
      BY <1>4, <2>2, <2>4
    <2> QED BY Zenon, <2>1, <2>3, <2>4
  <1>16. ASSUME WellFormed(d), NEW n \in Ids(d), chars[n].token <= t PROVE n <= e
    <2>1. n \in 1..N /\ chars[n].token \in Nat
      BY Zenon, <1>2
    <2>2. CASE chars[n].token = t
      BY Zenon, <1>1, <1>6, <1>16, <2>1, <2>2
    <2>3. CASE chars[n].token # t
      <3>1. chars[n].token <= t - 1
        BY <1>4, <1>16, <2>1, <2>3
      <3>2. n <= p
        BY Zenon, <1>16, <3>1 DEF Kept, chars, p
      <3> QED BY <1>1, <1>7, <2>1, <3>2
    <2> QED BY Zenon, <2>2, <2>3
  <1>17. ASSUME WellFormed(d), NEW y \in Range(r.out) PROVE y.at \notin Ids(d)
    <2>1. CASE y \in Range(s.out)
      BY Zenon, <1>17, <2>1 DEF Kept
    <2>2. CASE y \in D /\ y.at \in Ids(d)
      <3> DEFINE n == y.at
      <3>1. n \in 1..N /\ p < n /\ n <= b /\ n \in Ids(d)
        BY Zenon, <1>2, <2>2
      <3> HIDE DEF n
      <3>2. b + 1 \in 1..N /\ n < b + 1 /\ b < b + 1 /\ b + 1 <= e /\ ~(b < n) /\ ~(n <= p)
        <4>1. b \in Nat /\ e \in Nat /\ b < e /\ e <= N /\ N \in Nat /\ p \in Nat
          BY Zenon, <1>1, <1>2, <1>7
        <4> HIDE DEF b, e, N, p
        <4> QED BY <3>1, <4>1
      <3>3. chars[b + 1].token = t
        BY Zenon, <1>1, <3>2 DEF Is
      <3>4. chars[n].token <= t /\ chars[n].token \in Nat
        BY Zenon, <1>2, <1>3, <3>1, <3>2, <3>3
      <3>5. chars[n].token # t
        BY Zenon, <1>1, <1>6, <1>17, <3>1, <3>2
      <3>6. chars[n].token <= t - 1
        BY <1>4, <3>4, <3>5
      <3> QED BY Zenon, <1>17, <3>1, <3>2, <3>6 DEF Kept, chars, p
    <2> QED BY Zenon, <1>9, <1>11, <1>17, <2>1, <2>2
  <1>18. WellFormed(d) => ~r.unreadable
    BY Zenon, <1>11 DEF Kept
  <1>19. Kept(r, d, t)
    <2> HIDE DEF D
    <2> QED BY Zenon, <1>8, <1>9, <1>11, <1>12, <1>13, <1>14, <1>15, <1>16, <1>17, <1>18
            DEF Kept, chars, N
  <1> QED BY Zenon, <1>8, <1>11, <1>19 DEF r, p, e, b, chars, N

\* xmlSignatureIDAttribute finds an Id; in a well-formed tag it misses none.
LEMMA IdAttribute ==
  ASSUME NEW token \in Tokens
  PROVE  LET id == xmlSignatureIDAttribute(token)
         IN  /\ id # 0 => id \in 1..Len(token.attrs) /\ IsId(token.attrs[id])
             /\ id = 0 => \A i \in 1..Len(token.attrs) :
                            IsId(token.attrs[i]) => \E j \in 1..i : token.attrs[j].form # "quoted"
  <1> DEFINE m == Len(token.attrs)
             Good(i) == IsId(token.attrs[i]) /\ \A j \in 1..i : token.attrs[j].form = "quoted"
             found == {i \in DOMAIN token.attrs : Good(i)}
             id == xmlSignatureIDAttribute(token)
  <1>1. m \in Nat /\ DOMAIN token.attrs = 1..m
    <2>1. token.attrs \in Seq(Attributes)
      BY Zenon DEF Tokens
    <2> QED BY <2>1
  <1>2. id = IF found = {} THEN 0 ELSE CHOOSE i \in found : \A j \in found : i <= j
    BY Zenon DEF xmlSignatureIDAttribute
  <1> HIDE DEF id, m
  <1>3. CASE found = {}
    <2>1. id = 0
      BY Zenon, <1>2, <1>3
    <2>2. \A i \in 1..m : ~Good(i)
      BY Zenon, <1>1, <1>3
    <2> QED BY Zenon, <2>1, <2>2 DEF id, m
  <1>4. CASE found # {}
    <2>1. found \subseteq Nat
      <3> HIDE DEF Good
      <3> QED BY <1>1
    <2>2. \E i \in found : \A j \in found : i <= j
      <3> HIDE DEF found
      <3> QED BY Zenon, <1>4, <2>1, Least
    <2>3. id \in found
      <3>1. id = CHOOSE i \in found : \A j \in found : i <= j
        BY Zenon, <1>2, <1>4
      <3> HIDE DEF found
      <3> QED BY Zenon, <2>2, <3>1
    <2>4. id # 0
      <3>1. id \in 1..m
        BY Zenon, <1>1, <2>3
      <3> QED BY <1>1, <3>1
    <2>5. id \in 1..m /\ IsId(token.attrs[id])
      BY Zenon, <1>1, <2>3
    <2> QED BY Zenon, <2>4, <2>5 DEF id, m
  <1> QED BY Zenon, <1>3, <1>4

\* A turn of the loop.
LEMMA VisitKeeps ==
  ASSUME NEW d \in XmlDocuments, NEW t \in 1..Len(d.tokens), NEW s \in Scans, Kept(s, d, t - 1)
  PROVE  LET r == Visit(s, d, DocumentChars(d), Text(d), t)
         IN  r \in Scans /\ Kept(r, d, t)
  <1> DEFINE chars == DocumentChars(d)
             bytes == Text(d)
             token == d.tokens[t]
             m == Len(token.attrs)
             id == xmlSignatureIDAttribute(token)
             b == AttributeBegins(chars, t, id)
             e == AttributeEnds(chars, t, id, token)
             first == sourceOffset(chars, s.read, Width(chars, b, View(d)), View(d))
             last == sourceOffset(chars, first, Width(chars, e, View(d)), View(d))
             cut == Cut(s, bytes, Width(chars, first, Source(d)), Width(chars, last, Source(d)), last)
             NoId == (\A i \in DOMAIN token.attrs : ~IsId(token.attrs[i])) \/ id = 0
             r == Visit(s, d, chars, bytes, t)
  <1>1. r = IF s.unreadable THEN s
            ELSE IF token.kind = "bad" THEN [s EXCEPT !.unreadable = TRUE]
            ELSE IF token.kind # "signature" THEN s
            ELSE IF ~UniqueAttributes(token) THEN [s EXCEPT !.unreadable = TRUE]
            ELSE IF NoId THEN s ELSE cut
    BY Zenon DEF Visit
  <1>2. token \in Tokens /\ t \in DOMAIN d.tokens /\ DOMAIN token.attrs = 1..m /\ m \in Nat
    <2>1. token \in Tokens /\ t \in DOMAIN d.tokens
      BY Zenon, TokenAt
    <2> HIDE DEF token
    <2>2. token.attrs \in Seq(Attributes)
      BY Zenon, <2>1 DEF Tokens
    <2> QED BY <2>1, <2>2
  <1>3. WellFormed(d) => /\ ~s.unreadable /\ token.kind # "bad" /\ UniqueAttributes(token)
                         /\ \A i \in 1..m : token.attrs[i].form = "quoted"
    BY Zenon, <1>2 DEF WellFormed, Kept
  <1>4. /\ id # 0 => id \in 1..m /\ IsId(token.attrs[id])
        /\ id = 0 => \A i \in 1..m :
                       IsId(token.attrs[i]) => \E j \in 1..i : token.attrs[j].form # "quoted"
    BY Zenon, <1>2, IdAttribute
  <1>5. WellFormed(d) /\ id = 0 => \A i \in 1..m : ~IsId(token.attrs[i])
    <2> SUFFICES ASSUME WellFormed(d), id = 0, NEW i \in 1..m, IsId(token.attrs[i]) PROVE FALSE
      BY Zenon
    <2>1. PICK j \in 1..i : token.attrs[j].form # "quoted"
      BY Zenon, <1>4
    <2> HIDE DEF m, token, id
    <2>2. j \in 1..m
      BY <1>2
    <2> QED BY Zenon, <1>3, <2>1, <2>2
  <1> HIDE DEF id, cut, r
  <1>6. CASE s.unreadable \/ (/\ token.kind # "bad"
                              /\ token.kind # "signature" \/ (UniqueAttributes(token) /\ NoId))
    <2>1. r = s
      BY Zenon, <1>1, <1>6
    <2>2. ASSUME WellFormed(d), NEW n \in Ids(d) PROVE chars[n].token # t
      <3>1. n \in 1..Len(chars)
        BY Zenon, TextAt
      <3>2. CASE token.kind # "signature" \/ s.unreadable
        BY Zenon, <1>3, <2>2, <3>1, <3>2, IdsAre
      <3>3. CASE NoId
        <4>1. \A i \in 1..m : ~IsId(token.attrs[i])
          BY Zenon, <1>2, <1>5, <2>2, <3>3
        <4> QED BY Zenon, <2>2, <3>1, <4>1, IdsAre
      <3> QED BY Zenon, <1>6, <3>2, <3>3
    <2>3. Kept(s, d, t)
      BY Zenon, <2>2, KeptOver
    <2> QED BY Zenon, <2>1, <2>3 DEF r
  <1>7. CASE /\ ~s.unreadable
             /\ token.kind = "bad" \/ (token.kind = "signature" /\ ~UniqueAttributes(token))
    <2>1. r = [s EXCEPT !.unreadable = TRUE]
      <3>1. token.kind = "signature" => token.kind # "bad"
        BY Zenon
      <3> QED BY Zenon, <1>1, <1>7, <3>1
    <2>2. ~WellFormed(d)
      BY Zenon, <1>3, <1>7
    <2> QED BY Zenon, <2>1, <2>2, KeptUnread DEF r
  <1>8. CASE ~s.unreadable /\ token.kind = "signature" /\ UniqueAttributes(token) /\ ~NoId
    <2>1. r = cut
      <3>1. token.kind = "signature" => token.kind # "bad"
        BY Zenon
      <3> QED BY Zenon, <1>1, <1>8, <3>1
    <2>2. id \in 1..m /\ IsId(token.attrs[id])
      BY Zenon, <1>4, <1>8
    <2>3. \A j \in 1..m : IsId(token.attrs[j]) => j = id
      BY Zenon, <1>2, <1>8, <2>2 DEF UniqueAttributes, IsId
    <2> DEFINE kept == Cut(s, bytes, Width(chars, b, Source(d)), Width(chars, e, Source(d)), e)
    <2>4. /\ s.read \in 0..b /\ b \in 0..Len(chars) /\ e \in b..Len(chars)
          /\ kept \in Scans /\ Kept(kept, d, t)
      BY Zenon, <1>8, <2>2, <2>3, KeptCut
    <2>5. chars \in Seq(CharRecords) /\ View(d) \in [Characters -> Nat \ {0}]
      BY Zenon, TextAt, EveryWidth
    <2>6. s.read \in 0..Len(chars) /\ b \in s.read..Len(chars)
      <3> DEFINE N == Len(chars)
      <3>1. N \in Nat /\ s.read \in 0..b /\ b \in 0..N
        BY Zenon, <2>4, TextAt
      <3> HIDE DEF N, b
      <3>2. s.read \in 0..N /\ b \in s.read..N
        BY <3>1
      <3> QED BY Zenon, <3>2 DEF N
    <2> HIDE DEF b, e, chars
    <2>7. first = b
      BY Zenon, <2>5, <2>6, OffsetFound
    <2>8. last = e
      BY Zenon, <2>4, <2>5, <2>7, OffsetFound
    <2>9. cut = kept
      BY Zenon, <2>7, <2>8 DEF cut
    <2> HIDE DEF kept
    <2> QED BY Zenon, <2>1, <2>4, <2>9 DEF r, chars
  <1> HIDE DEF NoId, token
  <1> QED BY Zenon, <1>6, <1>7, <1>8

\* When the scan ends, its output has lost the identifiers and nothing else.
LEMMA ScanKeeps ==
  ASSUME NEW d \in XmlDocuments
  PROVE  LET end == ScanUpto(d, DocumentChars(d), Text(d))[Len(d.tokens)]
         IN  end \in Scans /\ Kept(end, d, Len(d.tokens))
  <1> DEFINE n == Len(d.tokens)
             chars == DocumentChars(d)
             bytes == Text(d)
             a == [ScanStart EXCEPT !.unreadable = d.encoding = "utf16cut"]
             F(u) == [i \in 0..n |-> IF i = 0 THEN a ELSE Visit(u[i - 1], d, chars, bytes, i)]
             S == [i \in 0..n |-> {s \in Scans : Kept(s, d, i)}]
             G == [i \in 1..n |-> [s \in S[i - 1] |-> Visit(s, d, chars, bytes, i)]]
             B == ScanUpto(d, chars, bytes)
  <1>1. n \in Nat
    BY Zenon, TokenAt
  <1>2. a \in S[0]
    <2>1. /\ a \in Scans /\ a.out = <<>> /\ a.keptFrom = 0 /\ a.read = 0 /\ ~a.changed
          /\ a.unreadable = (d.encoding = "utf16cut")
      <3> DEFINE q == d.encoding = "utf16cut"
      <3>1. q \in BOOLEAN
        BY Zenon
      <3>2. a = [ScanStart EXCEPT !.unreadable = q]
        BY Zenon
      <3> HIDE DEF a, q
      <3>3. /\ a \in Scans /\ a.out = <<>> /\ a.keptFrom = 0 /\ a.read = 0 /\ a.changed = FALSE
            /\ a.unreadable = q
        <4>1. a = [out |-> <<>>, keptFrom |-> 0, read |-> 0, changed |-> FALSE, unreadable |-> q]
          BY Zenon, <3>2 DEF ScanStart
        <4>2. <<>> \in Seq(ByteRecords) /\ 0 \in Nat /\ FALSE \in BOOLEAN
          OBVIOUS
        <4> QED BY Zenon, <3>1, <4>1, <4>2 DEF Scans
      <3> QED BY Zenon, <3>3 DEF q
    <2> HIDE DEF a
    <2>2. /\ Len(chars) \in Nat /\ Ids(d) \subseteq 1..Len(chars)
          /\ \A y \in Range(bytes) : y.at \in 1..Len(chars)
          /\ chars \in Seq(CharRecords)
      BY Zenon, TextAt
    <2>3. Width(chars, 0, Source(d)) = 0
      BY Zenon, <2>2, SourceWidths DEF Width
    <2>4. ASSUME NEW k \in Ids(d) PROVE ~(chars[k].token <= 0)
      <3>1. chars[k].token \in 1..n
        BY Zenon, <2>2, IdsAre
      <3> HIDE DEF chars, n
      <3> QED BY <1>1, <3>1
    <2>5. \A y \in Range(bytes) : ~(y.at <= 0)
      <3> DEFINE N == Len(chars)
      <3>1. N \in Nat /\ \A y \in Range(bytes) : y.at \in 1..N
        BY Zenon, <2>2
      <3> HIDE DEF bytes, N
      <3> QED BY <3>1
    <2>6. InOrder(<<>>) /\ Range(<<>>) = {} /\ Len(<<>>) = 0
      BY DEF InOrder, Range
    <2>7. WellFormed(d) => ~a.unreadable
      BY Zenon, <2>1 DEF WellFormed
    <2>8. 0 \in 0..Len(chars) /\ (\A x \in 1..0 : FALSE) /\ 0 \in 0..n
      BY <1>1, <2>2
    <2>9. Kept(a, d, 0)
      <3> HIDE DEF n
      <3> QED BY Zenon, <2>1, <2>3, <2>4, <2>5, <2>6, <2>7, <2>8 DEF Kept
    <2> HIDE DEF n
    <2> QED BY Zenon, <2>1, <2>8, <2>9
  <1> HIDE DEF a
  <1>3. Closed(G, n, S)
    <2>1. ASSUME NEW i \in 1..n, NEW x \in S[i - 1] PROVE G[i][x] \in S[i]
      <3> DEFINE z == Visit(x, d, chars, bytes, i)
      <3>1. i - 1 \in 0..n /\ i \in 0..n
        <4> HIDE DEF n
        <4> QED BY <1>1
      <3>2. x \in Scans /\ Kept(x, d, i - 1)
        BY Zenon, <3>1
      <3>3. z \in Scans /\ Kept(z, d, i)
        BY Zenon, <3>2, VisitKeeps
      <3>4. G[i][x] = z
        BY Zenon
      <3> HIDE DEF G, z, n
      <3> QED BY Zenon, <3>1, <3>3, <3>4
    <2> HIDE DEF n, G, S
    <2> QED BY Zenon, <2>1 DEF Closed
  <1>4. \E g : g = F(g)
    <2>1. PICK g : Follows(g, n, S, a, G)
      <3> HIDE DEF n, G, S
      <3> QED BY Zenon, <1>1, <1>2, <1>3, Iterate
    <2>2. \A i \in 0..n : g[i] \in S[i]
      BY Zenon, <2>1 DEF Follows
    <2>3. g = [i \in 0..n |-> g[i]]
      BY Zenon, <2>1 DEF Follows
    <2>4. g[0] = a /\ \A i \in 1..n : g[i] = G[i][g[i - 1]]
      BY Zenon, <2>1 DEF Follows
    <2>5. ASSUME NEW i \in 1..n PROVE  g[i] = Visit(g[i - 1], d, chars, bytes, i)
      <3>1. i - 1 \in 0..n /\ g[i - 1] \in S[i - 1] /\ g[i] = G[i][g[i - 1]]
        <4> HIDE DEF n, G, S
        <4> QED BY <1>1, <2>2, <2>4
      <3> HIDE DEF S, chars, bytes
      <3> QED BY Zenon, <3>1
    <2> HIDE DEF n, G, S, chars, bytes
    <2>6. \A i \in 0..n : i # 0 => i \in 1..n
      BY <1>1
    <2>7. \A i \in 0..n : g[i] = IF i = 0 THEN a ELSE Visit(g[i - 1], d, chars, bytes, i)
      BY Zenon, <2>4, <2>5, <2>6
    <2>8. F(g) = [i \in 0..n |-> g[i]]
      BY Zenon, <2>7
    <2> QED BY Zenon, <2>3, <2>8
  <1> HIDE DEF chars, bytes
  <1>5. B = F(B)
    <2>1. B = CHOOSE u : u = F(u)
      BY Zenon DEF ScanUpto, a
    <2> HIDE DEF F, B
    <2> QED BY Zenon, <1>4, <2>1
  <1> HIDE DEF B, n
  <1>6. B[0] = a /\ \A i \in 1..n : B[i] = Visit(B[i - 1], d, chars, bytes, i)
    <2>1. 0 \in 0..n /\ \A i \in 1..n : i \in 0..n /\ i # 0
      BY <1>1
    <2> QED BY Zenon, <1>5, <2>1
  <1>7. \A k \in 0..n : B[k] \in S[k]
    <2>1. \A i \in 1..n : B[i - 1] \in S[i - 1] => B[i] = G[i][B[i - 1]]
      <3> HIDE DEF S
      <3> QED BY Zenon, <1>6
    <2>2. B[0] \in S[0]
      BY Zenon, <1>2, <1>6
    <2> HIDE DEF G, S
    <2> QED BY Zenon, <1>1, <1>3, <2>1, <2>2, Stays
  <1>8. B[n] \in S[n] /\ n \in 0..n
    BY <1>1, <1>7
  <1> QED BY Zenon, <1>8 DEF B, n, chars, bytes

\* The bytes outside the Ids of signatures.
Outside(d) == {y \in Range(Text(d)) : y.at \notin Ids(d)}

\* What is said of a copy.
Faithful(copy, d, parses) ==
  /\ InOrder(copy)
  /\ Outside(d) \subseteq Range(copy) /\ Range(copy) \subseteq Range(Text(d))
  /\ parses => Range(copy) = Outside(d)

\* xmlCertificateInput: the copy has every byte outside the Ids, in order, and of a
\* well-formed document no other.
LEMMA CopyFaithful ==
  ASSUME NEW d \in XmlDocuments
  PROVE  /\ xmlCertificateInput(d) \in Seq(ByteRecords)
         /\ Faithful(xmlCertificateInput(d), d, WellFormed(d))
  <1> DEFINE chars == DocumentChars(d)
             N == Len(chars)
             end == ScanUpto(d, chars, Text(d))[Len(d.tokens)]
             rest == end.out \o SubSeq(Text(d), end.keptFrom + 1, Len(Text(d)))
             copy == xmlCertificateInput(d)
  <1>1. copy = IF end.unreadable \/ ~end.changed THEN Text(d) ELSE rest
    BY Zenon DEF xmlCertificateInput, Text
  <1>2. /\ chars \in Seq(CharRecords) /\ N \in Nat /\ Ids(d) \subseteq 1..N
        /\ Text(d) \in Seq(ByteRecords) /\ InOrder(Text(d))
        /\ Len(Text(d)) = Width(chars, N, Source(d))
        /\ \A y \in Range(Text(d)) : y.at \in 1..N
    BY Zenon, TextAt
  <1>3. end \in Scans /\ Kept(end, d, Len(d.tokens))
    BY Zenon, ScanKeeps
  <1>4. \A n \in Ids(d) : chars[n].token <= Len(d.tokens)
    <2>1. ASSUME NEW n \in Ids(d) PROVE chars[n].token <= Len(d.tokens)
      <3> DEFINE c == chars[n].token
                 m == Len(d.tokens)
      <3>1. c \in 1..m /\ m \in Nat
        BY Zenon, <1>2, IdsAre, TokenAt
      <3> HIDE DEF c, m
      <3>2. c <= m
        BY <3>1
      <3> QED BY Zenon, <3>2 DEF c, m
    <2> QED BY Zenon, <2>1
  <1> HIDE DEF end, copy
  <1>5. CASE end.unreadable \/ ~end.changed
    <2>1. copy = Text(d)
      BY Zenon, <1>1, <1>5
    <2>2. ASSUME WellFormed(d) PROVE Ids(d) = {}
      <3>1. end.read = 0
        BY Zenon, <1>3, <1>5, <2>2 DEF Kept
      <3>2. \A n \in Ids(d) : n <= 0
        BY Zenon, <1>3, <1>4, <2>2, <3>1 DEF Kept
      <3>3. \A n \in 1..N : ~(n <= 0)
        <4> HIDE DEF N
        <4> QED BY <1>2
      <3> QED BY Zenon, <1>2, <3>2, <3>3
    <2>3. WellFormed(d) => Range(copy) = Outside(d)
      BY Zenon, <2>1, <2>2 DEF Outside
    <2>4. Outside(d) \subseteq Range(copy)
      BY Zenon, <2>1 DEF Outside
    <2> QED BY Zenon, <1>2, <2>1, <2>3, <2>4 DEF Faithful, copy
  <1>6. CASE ~(end.unreadable \/ ~end.changed)
    <2> DEFINE v == end.out
               p == end.read
    <2>1. copy = rest
      BY Zenon, <1>1, <1>6
    <2>2. v \in Seq(ByteRecords) /\ Before(v, p)
      <3>1. v \in Seq(ByteRecords)
        BY Zenon, <1>3 DEF Scans
      <3> QED BY Zenon, <1>3, <3>1 DEF Kept, Before
    <2>3. p \in 0..N /\ end.keptFrom = Width(chars, p, Source(d))
      BY Zenon, <1>3 DEF Kept
    <2>4. N \in p..N
      <3> HIDE DEF N, p
      <3> QED BY <1>2, <2>3
    <2> DEFINE bytes == DocumentBytes(d, chars)
               u == v \o SubSeq(bytes, Width(chars, p, Source(d)) + 1, Width(chars, N, Source(d)))
    <2>5. Text(d) = bytes
      BY Zenon DEF Text
    <2>6. copy = u
      BY Zenon, <1>2, <2>1, <2>3, <2>5
    <2> HIDE DEF v, p, chars
    <2>7. Extends(u, v, bytes, p, N)
      BY Zenon, <1>2, <2>2, <2>3, <2>4, Appended
    <2> DEFINE D == {y \in Range(Text(d)) : p < y.at /\ y.at <= N}
    <2>8. copy \in Seq(ByteRecords) /\ InOrder(copy) /\ Range(copy) = Range(v) \cup D
      <3> HIDE DEF u, bytes
      <3> QED BY Zenon, <2>5, <2>6, <2>7 DEF Extends, Before
    <2>9. \A y \in Range(Text(d)) : y.at <= p \/ (p < y.at /\ y.at <= N)
      <3>1. ASSUME NEW y \in Range(Text(d)) PROVE y.at <= p \/ (p < y.at /\ y.at <= N)
        <4> DEFINE n == y.at
        <4>1. n \in 1..N
          BY Zenon, <1>2
        <4> HIDE DEF n, N
        <4>2. n <= p \/ (p < n /\ n <= N)
          BY <1>2, <2>3, <4>1
        <4> QED BY Zenon, <4>2 DEF n
      <3> QED BY Zenon, <3>1
    <2>10. \A y \in Outside(d) : y \in Range(copy)
      <3>1. \A y \in Range(Text(d)) : y.at <= p /\ y.at \notin Ids(d) => y \in Range(v)
        BY Zenon, <1>3 DEF Kept, v, p
      <3> QED BY Zenon, <2>8, <2>9, <3>1 DEF Outside
    <2>11. Range(copy) \subseteq Range(Text(d))
      <3>1. Range(v) \subseteq Range(Text(d))
        BY Zenon, <1>3 DEF Kept, v
      <3> QED BY Zenon, <2>8, <3>1
    <2>12. ASSUME WellFormed(d), NEW y \in Range(copy) PROVE y.at \notin Ids(d)
      <3>1. CASE y \in Range(v)
        BY Zenon, <1>3, <2>12, <3>1 DEF Kept, v
      <3>2. CASE y \in D /\ y.at \in Ids(d)
        <4> DEFINE n == y.at
        <4>1. n <= p
          BY Zenon, <1>3, <1>4, <2>12, <3>2 DEF Kept, p, chars
        <4>2. p < n /\ n \in 1..N
          BY Zenon, <1>2, <3>2
        <4> HIDE DEF n, N
        <4> QED BY <1>2, <2>3, <4>1, <4>2
      <3> QED BY Zenon, <2>8, <2>12, <3>1, <3>2
    <2>13. WellFormed(d) => Range(copy) = Outside(d)
      BY Zenon, <2>10, <2>11, <2>12 DEF Outside
    <2> QED BY Zenon, <2>8, <2>10, <2>11, <2>13 DEF Faithful, copy
  <1> QED BY Zenon, <1>5, <1>6

-----------------------------------------------------------------------------
(* What the library sees                                                   *)

SignatureTokens(d) == {t \in 1..Len(d.tokens) : d.tokens[t].kind = "signature"}

\* The signatures of a document are tokens of it.
LEMMA SignaturesFound ==
  ASSUME NEW d \in XmlDocuments
  PROVE  Signatures(d) \in Seq(SignatureTokens(d))
  <1> DEFINE n == Len(d.tokens)
             Also(x, i) == IF d.tokens[i].kind = "signature" THEN Append(x, i) ELSE x
             F(u) == [i \in 0..n |-> IF i = 0 THEN <<>> ELSE Also(u[i - 1], i)]
             S == [i \in 0..n |-> Seq(SignatureTokens(d))]
             G == [i \in 1..n |-> [x \in S[i - 1] |-> Also(x, i)]]
             B == SignaturesUpto(d)
  <1>1. n \in Nat
    BY Zenon, TokenAt
  <1>2. <<>> \in S[0]
    <2> HIDE DEF n
    <2> QED BY <1>1
  <1>3. Closed(G, n, S)
    <2>1. ASSUME NEW i \in 1..n, NEW x \in S[i - 1] PROVE G[i][x] \in S[i]
      <3>1. i - 1 \in 0..n /\ i \in 0..n
        <4> HIDE DEF n
        <4> QED BY <1>1
      <3>2. x \in Seq(SignatureTokens(d))
        BY Zenon, <3>1
      <3>3. d.tokens[i].kind = "signature" => i \in SignatureTokens(d)
        BY Zenon DEF SignatureTokens
      <3>4. Also(x, i) \in Seq(SignatureTokens(d))
        <4>1. i \in SignatureTokens(d) => Append(x, i) \in Seq(SignatureTokens(d))
          BY <3>2
        <4> QED BY Zenon, <3>2, <3>3, <4>1
      <3>5. G[i][x] = Also(x, i)
        BY Zenon
      <3> HIDE DEF G, Also, n
      <3> QED BY Zenon, <3>1, <3>4, <3>5
    <2> HIDE DEF n, G, S
    <2> QED BY Zenon, <2>1 DEF Closed
  <1>4. \E g : g = F(g)
    <2> HIDE DEF Also
    <2>1. PICK g : Follows(g, n, S, <<>>, G)
      <3> HIDE DEF n, G, S
      <3> QED BY Zenon, <1>1, <1>2, <1>3, Iterate
    <2>2. \A i \in 0..n : g[i] \in S[i]
      BY Zenon, <2>1 DEF Follows
    <2>3. g = [i \in 0..n |-> g[i]]
      BY Zenon, <2>1 DEF Follows
    <2>4. g[0] = <<>> /\ \A i \in 1..n : g[i] = G[i][g[i - 1]]
      BY Zenon, <2>1 DEF Follows
    <2>5. ASSUME NEW i \in 1..n PROVE  g[i] = Also(g[i - 1], i)
      <3>1. i - 1 \in 0..n /\ g[i - 1] \in S[i - 1] /\ g[i] = G[i][g[i - 1]]
        <4> HIDE DEF n, G, S
        <4> QED BY <1>1, <2>2, <2>4
      <3> HIDE DEF S
      <3> QED BY Zenon, <3>1
    <2> HIDE DEF n, G, S
    <2>6. \A i \in 0..n : i # 0 => i \in 1..n
      BY <1>1
    <2>7. \A i \in 0..n : g[i] = IF i = 0 THEN <<>> ELSE Also(g[i - 1], i)
      BY Zenon, <2>4, <2>5, <2>6
    <2>8. F(g) = [i \in 0..n |-> g[i]]
      BY Zenon, <2>7
    <2> QED BY Zenon, <2>3, <2>8
  <1>5. B = F(B)
    <2>1. B = CHOOSE u : u = F(u)
      BY Zenon DEF SignaturesUpto
    <2> HIDE DEF F, B
    <2> QED BY Zenon, <1>4, <2>1
  <1> HIDE DEF B, n, Also
  <1>6. B[0] = <<>> /\ \A i \in 1..n : B[i] = Also(B[i - 1], i)
    <2>1. 0 \in 0..n /\ \A i \in 1..n : i \in 0..n /\ i # 0
      BY <1>1
    <2> QED BY Zenon, <1>5, <2>1
  <1>7. \A k \in 0..n : B[k] \in S[k]
    <2>1. \A i \in 1..n : B[i - 1] \in S[i - 1] => B[i] = G[i][B[i - 1]]
      <3> HIDE DEF S
      <3> QED BY Zenon, <1>6
    <2> HIDE DEF G, S
    <2> QED BY <1>1, <1>2, <1>3, <1>6, <2>1, Stays
  <1>8. B[n] \in S[n] /\ n \in 0..n
    BY <1>1, <1>7
  <1> QED BY Zenon, <1>8 DEF Signatures, B, n

\* No Id is left at a signature of a well-formed document.
LEMMA NoIdsLeft ==
  ASSUME NEW d \in XmlDocuments, NEW copy \in Seq(ByteRecords), Faithful(copy, d, WellFormed(d))
  PROVE  /\ Certificates(d) \in Seq(Nat)
         /\ WellFormed(d) => \A n \in DOMAIN Certificates(d) : LibraryIds(d, copy)[n] = 0
  <1> DEFINE sg == Signatures(d)
             chars == DocumentChars(d)
             kept == {chars[copy[b].at] : b \in DOMAIN copy}
             ids(t) == {i \in DOMAIN d.tokens[t].attrs :
                          IsId(d.tokens[t].attrs[i]) /\ \E c \in kept : c.token = t /\ c.attr = i}
  <1>1. /\ sg \in Seq(SignatureTokens(d)) /\ DOMAIN sg = 1..Len(sg) /\ Len(sg) \in Nat
        /\ \A n \in DOMAIN sg : sg[n] \in SignatureTokens(d)
    <2>1. sg \in Seq(SignatureTokens(d))
      BY Zenon, SignaturesFound
    <2> HIDE DEF sg
    <2> QED BY <2>1
  <1> HIDE DEF sg
  <1>2. \A n \in DOMAIN sg : d.tokens[sg[n]].cert \in Nat
    <2>1. \A t \in SignatureTokens(d) : d.tokens[t] \in Tokens
      BY Zenon, TokenAt DEF SignatureTokens
    <2>2. \A token \in Tokens : token.cert \in Nat
      BY Zenon DEF Tokens
    <2> QED BY Zenon, <1>1, <2>1, <2>2
  <1>3. Certificates(d) = [n \in 1..Len(sg) |-> d.tokens[sg[n]].cert]
    BY Zenon, <1>1 DEF Certificates, sg
  <1>4. Certificates(d) \in Seq(Nat) /\ DOMAIN Certificates(d) = DOMAIN sg
    <2> DEFINE f == [n \in 1..Len(sg) |-> d.tokens[sg[n]].cert]
               m == Len(sg)
    <2>1. f \in [1..m -> Nat]
      BY Zenon, <1>1, <1>2
    <2>2. m \in Nat
      BY Zenon, <1>1
    <2> HIDE DEF f, m
    <2>3. f \in Seq(Nat) /\ DOMAIN f = 1..m
      BY <2>1, <2>2
    <2> QED BY Zenon, <1>1, <1>3, <2>3 DEF f, m
  <1>5. ASSUME WellFormed(d), NEW n \in DOMAIN sg PROVE LibraryIds(d, copy)[n] = 0
    <2> DEFINE t == sg[n]
    <2>1. t \in 1..Len(d.tokens) /\ d.tokens[t].kind = "signature"
      BY Zenon, <1>1 DEF SignatureTokens
    <2>2. ASSUME NEW i \in ids(t) PROVE FALSE
      <3>1. PICK b \in DOMAIN copy : chars[copy[b].at].token = t /\ chars[copy[b].at].attr = i
        BY Zenon, <2>2
      <3>2. copy[b] \in Range(copy)
        BY Zenon DEF Range
      <3>3. copy[b].at \notin Ids(d) /\ copy[b] \in Range(Text(d))
        BY Zenon, <1>5, <3>2 DEF Faithful, Outside
      <3>4. copy[b].at \in 1..Len(chars)
        BY Zenon, <3>3, TextAt
      <3>5. i # 0
        <4>1. i \in DOMAIN d.tokens[t].attrs
          BY Zenon, <2>2
        <4>2. d.tokens[t].attrs \in Seq(Attributes)
          <5>1. d.tokens[t] \in Tokens
            BY Zenon, <2>1, TokenAt
          <5> QED BY Zenon, <5>1 DEF Tokens
        <4> DEFINE a == d.tokens[t].attrs
        <4>3. a \in Seq(Attributes) /\ i \in DOMAIN a
          BY Zenon, <4>1, <4>2
        <4> HIDE DEF a
        <4> QED BY <4>3
      <3> QED BY Zenon, <2>1, <2>2, <3>1, <3>3, <3>4, <3>5, IdsAre
    <2>3. ids(t) = {}
      BY Zenon, <2>2
    <2>4. LibraryIds(d, copy) =
            [k \in DOMAIN sg |-> IF ids(sg[k]) = {} THEN 0
                                 ELSE d.tokens[sg[k]].attrs[CHOOSE i \in ids(sg[k]) : TRUE].value]
      BY Zenon DEF LibraryIds, sg
    <2> HIDE DEF ids
    <2> QED BY Zenon, <2>3, <2>4
  <1> QED BY Zenon, <1>4, <1>5

\* What xmlCertificateInput returns for a document that parses holds every byte
\* outside the Ids of the signatures, in order and none else, and no signature has
\* an Id left that the SDK could take for the number asked for.
THEOREM NumbersSelect ==
  ASSUME NEW d \in XmlDocuments, WellFormed(d)
  PROVE  LET copy == xmlCertificateInput(d)
         IN  /\ InOrder(copy) /\ Range(copy) = Outside(d)
             /\ \A n \in DOMAIN Certificates(d) : LibraryIds(d, copy)[n] = 0
  <1> DEFINE copy == xmlCertificateInput(d)
  <1>1. copy \in Seq(ByteRecords) /\ Faithful(copy, d, WellFormed(d))
    BY Zenon, CopyFaithful
  <1> HIDE DEF copy
  <1>2. \A n \in DOMAIN Certificates(d) : LibraryIds(d, copy)[n] = 0
    BY Zenon, <1>1, NoIdsLeft
  <1>3. InOrder(copy) /\ Range(copy) = Outside(d)
    BY Zenon, <1>1 DEF Faithful
  <1> QED BY Zenon, <1>2, <1>3 DEF copy
=============================================================================
