---------------------------- MODULE MCOcspCheck ----------------------------
(***************************************************************************)
(* Two authorities with one name, as after a change of keys, a delegated   *)
(* responder whose certificate is not valid yet, and expires, and one of   *)
(* the same name whose certificate has a critical extension.               *)
(***************************************************************************)
EXTENDS OcspCheck

CONSTANTS a, b, d, e

Names == [ca \in CAs |-> "name"]

Certs ==
  {[name |-> "responder", key |-> d, ca |-> a, notBefore |-> 1, notAfter |-> 2,
    ocspSigning |-> TRUE, keyUsage |-> "digitalSignature", critical |-> FALSE],
   [name |-> "responder", key |-> e, ca |-> a, notBefore |-> 0, notAfter |-> 3,
    ocspSigning |-> TRUE, keyUsage |-> "absent", critical |-> TRUE]}
=============================================================================
