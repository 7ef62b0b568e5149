--------------------------- MODULE MCBrowserSession ---------------------------
(* An instance of BrowserSession for TLC. *)
EXTENDS BrowserSession

CONSTANTS u1, c1, s1, w1, v1, x1, x2

MCConsents     == [user: Users, client: Clients, scopes: Scopes]
MCRedirectURIs == [c \in Clients |-> {w1}]
MCPermitted    == [c \in Clients |-> Scopes]
MCSelected     == {"id", "client_id", "client_secret_hash", "redirect_uris", "allowed_scopes"}
S256Challenge  == {[method |-> "S256", challenge |-> SHA256(v1)]}

(* The request of an application, and one of an unknown client. *)
Wanted(c, x) ==
    [client |-> c, uri |-> w1, pkce |-> CHOOSE ch \in Challenges : TRUE,
     scopes |-> s1, state |-> x]
MCAsked == {Wanted(c1, x1), Wanted(NoClient, x2)}
=============================================================================
