------------------------------ MODULE Gost3410 ------------------------------
(***************************************************************************)
(* Verification of a GOST R 34.10 signature (gost3410 and the end of        *)
(* certsig.verifyKazakhGost2015): the point of a public key is decoded and   *)
(* checked, then the reversed digest and signature are verified with it.     *)
(* The arithmetic is the code's own, on curves that are small enough to list *)
(* their points.  The digest is any byte string: Streebog has the hash.      *)
(***************************************************************************)
EXTENDS Integers, Sequences, SequencesExt

CONSTANTS Curves,        \* [P, Q, Co, A, B, X, Y] as NewCurve gets them
          Base,          \* values of a byte (256)
          PointSize,     \* bytes of a coordinate (32 or 64)
          Points,        \* contents of the OCTET STRING in a public key
          Digests, SignatureBytes

VARIABLE check           \* the verification in progress

keyVars == <<check>>

Infinity == <<>>

\* Big-endian (SetBytes).
bytes2big(bytes) ==
  LET value[i \in 0..Len(bytes)] == IF i = 0 THEN 0 ELSE value[i - 1] * Base + bytes[i]
  IN  value[Len(bytes)]

-----------------------------------------------------------------------------
(* curve.go *)

\* 0 where there is no inverse.
ModInverse(a, m) ==
  LET inverses == {x \in 1..(m - 1) : ((a % m) * x) % m = 1}
  IN  IF inverses = {} THEN 0 ELSE CHOOSE x \in inverses : TRUE

ContainsPoint(c, x, y) == (y * y) % c.P = ((x * x + c.A) * x + c.B) % c.P

\* The base point of a curve satisfies its equation.
NewCurve(c) == ContainsPoint(c, c.X, c.Y)

ASSUME CurvesAreCurves == \A n \in DOMAIN Curves : NewCurve(Curves[n])

\* The point on the line of slope t through p.
Through(c, t, p, x) == <<x, ((p[1] - x) * t - p[2]) % c.P>>

Chord(c, t, p, q) == Through(c, t, p, (t * t - p[1] - q[1]) % c.P)

\* Infinity where the code returns false.
add(c, p, q) ==
  IF p[1] = q[1]
  THEN IF p[2] # q[2] \/ p[2] = 0 \/ ModInverse(2 * p[2], c.P) = 0 THEN Infinity
       ELSE Chord(c, ((3 * p[1] * p[1] + c.A) * ModInverse(2 * p[2], c.P)) % c.P, p, q)
  ELSE IF ModInverse(q[1] - p[1], c.P) = 0 THEN Infinity
       ELSE Chord(c, ((q[2] - p[2]) * ModInverse(q[1] - p[1], c.P)) % c.P, p, q)

Double(c, t) == IF t = Infinity THEN Infinity ELSE add(c, t, t)

AddBit(c, bit, t, p) ==
  CASE bit = 0                   -> t
    [] bit = 1 /\ t = Infinity   -> p
    [] bit = 1 /\ t # Infinity   -> add(c, t, p)

\* The bits of degree from the highest to the lowest.
Exp(c, degree, p) ==
  LET times[d \in 0..degree] ==
        IF d = 0 THEN Infinity ELSE AddBit(c, d % 2, Double(c, times[d \div 2]), p)
  IN  times[degree]

\* Mutant: a point of the curve is taken for a point of the subgroup.
IsOnCurve(c, p) == p[1] < c.P /\ p[2] < c.P /\ ContainsPoint(c, p[1], p[2])

IsInSubgroup(c, p) ==
  /\ p[1] < c.P /\ p[2] < c.P /\ ContainsPoint(c, p[1], p[2])
  /\ c.Co = 1 \/ Exp(c, c.Q, p) = Infinity

-----------------------------------------------------------------------------
(* public.go *)

\* LE(X) || LE(Y): reversed, the second half is X.
NewPublicKeyLE(raw) ==
  LET key == Reverse(raw)
  IN  <<bytes2big(SubSeq(key, PointSize + 1, 2 * PointSize)), bytes2big(SubSeq(key, 1, PointSize))>>

\* z2 is at least 1: r and v are not divisible by Q.
Accepts(c, key, r, s, v) ==
  LET p1 == Exp(c, (s * v) % c.Q, <<c.X, c.Y>>)
      q1 == Exp(c, c.Q - ((r * v) % c.Q), key)
  IN  IF p1 = Infinity \/ q1 = Infinity THEN "error"
      ELSE IF add(c, p1, q1) # Infinity /\ add(c, p1, q1)[1] % c.Q = r THEN "valid"
      ELSE "invalid"

\* A digest that is a multiple of Q stands for 1.
exponent(c, digest) ==
  IF bytes2big(digest) % c.Q = 0 THEN 1 ELSE bytes2big(digest) % c.Q

Verify(c, key, e, s, r) ==
  IF r \notin 1..(c.Q - 1) \/ s \notin 1..(c.Q - 1) THEN "invalid"
  ELSE Accepts(c, key, r, s, ModInverse(e, c.Q))

VerifyDigest(c, key, digest, signature) ==
  IF Len(signature) # 2 * PointSize THEN "error"
  ELSE Verify(c, key, exponent(c, digest), bytes2big(SubSeq(signature, 1, PointSize)),
              bytes2big(SubSeq(signature, PointSize + 1, 2 * PointSize)))

\* PublicKeyReverseDigestAndSignature
VerifyReversed(c, key, digest, signature) ==
  VerifyDigest(c, key, Reverse(digest), Reverse(signature))

-----------------------------------------------------------------------------
(* The end of verifyKazakhGost2015 *)

NoCheck == [pc |-> "idle", curve |-> 0, point |-> <<>>, key |-> <<>>, digest |-> <<>>,
            signature |-> <<>>]

DecodeKey(n, point) ==
  check' = [NoCheck EXCEPT
       !.pc = IF Len(point) = 2 * PointSize /\ IsInSubgroup(Curves[n], NewPublicKeyLE(point))
              THEN "keyed" ELSE "refused",
       !.curve = n, !.point = point,
       !.key = IF Len(point) = 2 * PointSize THEN NewPublicKeyLE(point) ELSE Infinity]

CheckDigest(digest, signature) ==
  check' = [check EXCEPT
       !.pc = VerifyReversed(Curves[check.curve], check.key, digest, signature),
       !.digest = digest, !.signature = signature]

\* The caller has the verdict.
Answer ==
  /\ check.pc \notin {"idle", "keyed"}
  /\ check' = NoCheck

KeyInit == check = NoCheck

KeyNext ==
  \/ check.pc = "idle" /\ \E n \in DOMAIN Curves, point \in Points : DecodeKey(n, point)
  \/ check.pc = "keyed" /\ \E d \in Digests, s \in SignatureBytes : CheckDigest(d, s)
  \/ Answer

-----------------------------------------------------------------------------
(* The standard's side: the group by its geometry, a key by its logarithm *)

\* The sum of two points by the slope of the line through them, without a division.
Plus(c, p, q) ==
  IF p = Infinity THEN q
  ELSE IF q = Infinity THEN p
  ELSE IF p[1] = q[1] /\ (p[2] + q[2]) % c.P = 0 THEN Infinity
  ELSE LET t == CHOOSE m \in 0..(c.P - 1) :
                  IF p = q THEN (2 * p[2] * m) % c.P = (3 * p[1] * p[1] + c.A) % c.P
                  ELSE ((q[1] - p[1]) * m) % c.P = (q[2] - p[2]) % c.P
           x == (t * t - p[1] - q[1]) % c.P
       IN  <<x, (t * (p[1] - x) - p[2]) % c.P>>

\* k times the base point, for every k below the order.
Multiples ==
  [n \in DOMAIN Curves |->
     LET c == Curves[n]
         multiple[k \in 0..(c.Q - 1)] ==
           IF k = 0 THEN Infinity ELSE Plus(c, multiple[k - 1], <<c.X, c.Y>>)
     IN  [k \in 1..(c.Q - 1) |-> multiple[k]]]

LE(k) == [i \in 1..PointSize |-> (k \div Base^(i - 1)) % Base]

\* What the owner of key number d can have signed: s = r * d + k * e.
Signed(n, d, digest, signature) ==
  LET q == Curves[n].Q
      h == bytes2big(Reverse(digest)) % q
  IN  \E k \in 1..(q - 1) :
        LET r == Multiples[n][k][1] % q
            s == (r * d + k * (IF h = 0 THEN 1 ELSE h)) % q
        IN  r # 0 /\ s # 0 /\ signature = LE(r) \o LE(s)

\* A public key is accepted exactly if it is the encoding of a multiple of the
\* base point, and a signature exactly if the owner of that key could have made
\* it: neither points outside of the subgroup nor values that are not reduced
\* nor the exceptional cases of the point arithmetic widen or narrow it.
VerifiesTheEquation ==
  LET logs == {d \in DOMAIN Multiples[check.curve] :
                 check.point = LE(Multiples[check.curve][d][1]) \o LE(Multiples[check.curve][d][2])}
  IN  check.pc # "idle" =>
        IF check.pc = "refused" THEN logs = {}
        ELSE /\ logs # {}
             /\ check.pc # "keyed" =>
                  LET signed == \E d \in logs : Signed(check.curve, d, check.digest, check.signature)
                  IN  /\ signed <=> check.pc = "valid"
                      /\ check.pc = "error" <=> Len(check.signature) # 2 * PointSize
=============================================================================
