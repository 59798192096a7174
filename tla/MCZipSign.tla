----------------------------- MODULE MCZipSign -----------------------------
(* Signers of one client, plain or atomic, and of two clients among others. *)
EXTENDS ZipSign, TLC

CONSTANTS s1, s2, s3, c1, c2

Shared(atomic) == [owner |-> [s \in Signers |-> c1], atomic |-> atomic, meddling |-> FALSE]

Contested ==
  [owner |-> [s \in Signers |-> IF s = s3 THEN c2 ELSE c1], atomic |-> {c1}, meddling |-> TRUE]

MCSettings == {Shared({}), Shared({c1}), Contested}

Symmetry == Permutations({s1, s2})
=============================================================================
