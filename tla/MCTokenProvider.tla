--------------------------- MODULE MCTokenProvider ---------------------------
(* Instances of TokenProvider for TLC. *)
EXTENDS TokenProvider, TLC

CONSTANTS u1, u2, c1, c2, s1

(* One consent of u1 to client c1. *)
OneConsent == {[user |-> u1, client |-> c1, scopes |-> s1]}

(* Two consents to c1: the refresh JWT that names s1 is too long for its   *)
(* column, the one without scopes is not.                                  *)
TwoConsents ==
    {[user |-> u1, client |-> c1, scopes |-> s1],
     [user |-> u1, client |-> c1, scopes |-> NoScopes]}
LongScopes == OneConsent

RequestSymmetry == Permutations(Requests)
=============================================================================
