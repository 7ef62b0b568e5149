------------------------- MODULE MCAuthorizationCodes -------------------------
(* Instances of AuthorizationCodes for TLC. *)
EXTENDS AuthorizationCodes, TLC

CONSTANTS u1, c1, c2, s1, w1, w2, v1, v2

MCConsents == [user: Users, client: Clients, scopes: Scopes]

(* Client c1 registered w1 and may ask for s1; c2 may not ask for s1. *)
MCRedirectURIs == [c \in Clients |-> IF c = c1 THEN {w1} ELSE {w2}]
MCPermitted    == [c \in Clients |-> IF c = c1 THEN {s1, NoScopes} ELSE {NoScopes}]

(* The challenges of verifier v1: for the method S256 alone, and for every *)
(* method, known to the server or not.                                     *)
S256Challenge  == {[method |-> "S256", challenge |-> SHA256(v1)]}
AllChallenges  == S256Challenge \cup
                  {[method |-> m, challenge |-> v1] : m \in {"plain", "other"}}

CodeSymmetry    == Permutations(CodeIds)
RequestSymmetry == Permutations(Requests)

(* The query of clients_repository.go, and the query with the column that *)
(* the scope check needs.                                                  *)
ColumnsOfSource == {"id", "client_id", "client_secret_hash", "redirect_uris"}
AllColumns      == ColumnsOfSource \cup {"allowed_scopes"}
=============================================================================
