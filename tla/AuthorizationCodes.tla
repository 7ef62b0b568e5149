-------------------------- MODULE AuthorizationCodes --------------------------
(***************************************************************************)
(* The authorization code flow of ZenithSSO: the consent handler and the   *)
(* function GenerateAuthorizationCode, which store a code, and the token   *)
(* endpoint, which redeems it (internal/authserver.go,                     *)
(* internal/db/auth_codes_repository.go, internal/rest/handler.go).        *)
(*                                                                         *)
(* It composes with TokenProvider: they share the clock, the users and the *)
(* failures of statements, and the exchange of a code is the only thing    *)
(* that makes TokenProvider generate the tokens of a grant.                *)
(***************************************************************************)
EXTENDS TokenProvider

CONSTANTS
    CodeIds,      \* the codes that GenerateAuthCode can return
    Consenters,   \* the slots of concurrent handlers that store codes
    URIs,         \* redirect URIs
    RedirectURIs, \* column clients.redirect_uris: those a client registered
    Permitted,    \* column clients.allowed_scopes: the scope strings that
                  \* name only scopes the client may ask for
    Selected,     \* the columns of clients that GetClientByID reads
    Challenges,   \* the PKCE parameters that clients send
    Verifiers,    \* the code verifiers that clients present
    LongParams,   \* whether a posted parameter can exceed its column
    CodeTTL       \* five minutes, in ticks

(* The challenge of verifier v for method S256; SHA-256 is collision-free. *)
SHA256(v) == <<"SHA256", v>>

Methods == {"S256", "plain", "other"}

(* What the browser posts with a consent; NoClient is an unknown client. *)
Params   == [user: Users, client: Clients \cup {NoClient}, uri: URIs,
             pkce: Challenges, scopes: Scopes]
AuthCode == [code: CodeIds, user: Users, client: Clients, uri: URIs,
             pkce: Challenges, scopes: Scopes, expires: Nat]

ASSUME RedirectAssumption  == RedirectURIs \in [Clients -> SUBSET URIs]
(* The check skips empty names, so the empty string passes it for every    *)
(* client (authserver.go:101).                                             *)
ASSUME PermittedAssumption ==
    /\ Permitted \in [Clients -> SUBSET Scopes]
    /\ \A c \in Clients : NoScopes \in Permitted[c]
ASSUME ChallengeAssumption ==
    \A ch \in Challenges : DOMAIN ch = {"method", "challenge"} /\ ch.method \in Methods
ASSUME EveryConsentAssumption ==
    Consents = [user: Users, client: Clients, scopes: Scopes]
ASSUME CodeAssumption ==
    CodeTTL \in Nat /\ LongParams \in BOOLEAN /\ None \notin AuthCode /\ None \notin Params

VARIABLES
    codes,       \* table auth_codes
    consent,     \* the handler that runs in each slot
    consented,   \* history: the grant each code was stored for
    redeemed,    \* history: the grant tokens were generated for by a code
    tried        \* history: the codes that an exchange has taken and checked

codeVars == <<codes, consent, consented, redeemed, tried>>
allVars  == <<vars, codeVars>>

Handler == [op: {"none", "consent", "login"},
            pc: {"idle", "getUser", "getClient", "saveCode"},
            ask: Params \cup {None}, row: AuthCode \cup {None},
            reply: Replies]

(* The claims that tokens generated for a row carry. *)
GrantOf(row) == [user |-> row.user, client |-> row.client, scopes |-> row.scopes]

NoHandler(reply) == [op |-> "none", pc |-> "idle", ask |-> None, row |-> None,
                     reply |-> reply]

(* Mutant: the handler's locals outlive its reply. *)
AnswerOnly(s, reply) ==
    consent' = [consent EXCEPT ![s].pc = "idle", ![s].reply = reply]

(* A statement may fail, if statements fail at all. *)
MayFail == MaxFaults > 0

Answer(s, reply) == consent' = [consent EXCEPT ![s] = NoHandler(reply)]

CodesInit ==
    /\ Init
    /\ codes = {}
    /\ consent = [s \in Consenters |-> NoHandler("none")]
    /\ consented = [k \in CodeIds |-> None]
    /\ redeemed = [k \in CodeIds |-> None]
    /\ tried = {}

-----------------------------------------------------------------------------
(* Storing a code. *)

Ask(s, op, p) ==
    /\ consent[s].pc = "idle"
    /\ consent' = [consent EXCEPT ![s] = [op |-> op, pc |-> "getUser", ask |-> p,
                                         row |-> None, reply |-> "none"]]
    /\ UNCHANGED <<vars, codes, consented, redeemed, tried>>

(* The browser of p.user posts the consent form; its cookie verifies. *)
ConsentPOST(s, p) == Ask(s, "consent", p)

(* GenerateAuthorizationCode, with the password of p.user and no scopes. *)
GenerateAuthorizationCode(s, p) == p.scopes = NoScopes /\ Ask(s, "login", p)

(* GetUserInfo ends in GetUserById, the other operation begins with        *)
(* GetUserByUsername.                                                      *)
GetUser(s) ==
    /\ consent[s].pc = "getUser"
    /\ \/ /\ consent[s].ask.user \in users
          /\ consent' = [consent EXCEPT ![s].pc = "getClient"]
       \/ consent[s].ask.user \notin users /\ Answer(s, "error")
       \/ MayFail /\ Answer(s, "error")
    /\ UNCHANGED <<vars, codes, consented, redeemed, tried>>

(* The scope check fails on a client whose allowed_scopes were not read. *)
ScopesAllowed(p) ==
    "allowed_scopes" \in Selected /\ p.scopes \in Permitted[p.client]

(* What GenerateAuthorizationCodeForUser checks once it has the client. *)
MayConsent(p) ==
    /\ p.client \in Clients
    /\ p.uri \in RedirectURIs[p.client]
    /\ ScopesAllowed(p)

(* GenerateAuthCode draws 32 random bytes: never a code drawn before. *)
FreshCodes ==
    {k \in CodeIds : /\ consented[k] = None
                     /\ \A s \in Consenters :
                          consent[s].row # None => consent[s].row.code # k}

(* The row that p asks for, with code k and an expiry from this clock. *)
NewCode(k, p) ==
    [code |-> k, user |-> p.user, client |-> p.client, uri |-> p.uri,
     pkce |-> p.pkce, scopes |-> p.scopes, expires |-> now + CodeTTL]

(* The handler h, about to store the row. *)
Holding(h, row) == [op |-> h.op, pc |-> "saveCode", ask |-> h.ask, row |-> row,
                    reply |-> "none"]

GetClient(s) ==
    LET p  == consent[s].ask
        ok == IF consent[s].op = "consent" THEN MayConsent(p) ELSE p.client \in Clients
    IN  /\ consent[s].pc = "getClient"
        /\ \/ /\ ok
              /\ \E k \in FreshCodes :
                   consent' = [consent EXCEPT ![s] = Holding(@, NewCode(k, p))]
           \/ (~ ok \/ MayFail) /\ Answer(s, "error")
        /\ UNCHANGED <<vars, codes, consented, redeemed, tried>>

(* The INSERT of a row whose user is still there. *)
Insert(row) ==
    /\ row.user \in users
    /\ codes' = codes \cup {row}
    /\ consented' = [consented EXCEPT ![row.code] = GrantOf(row)]

(* The INSERT is refused by the foreign key to users and by the widths of  *)
(* the columns for what the browser posted (challenge, method, nonce).  A  *)
(* statement that fails may still have been executed.                      *)
SaveCode(s) ==
    LET row == consent[s].row
    IN  /\ consent[s].pc = "saveCode"
        /\ \/ Insert(row) /\ Answer(s, "ok")
           \/ /\ row.user \notin users \/ LongParams \/ MayFail
              /\ Answer(s, "error")
              /\ UNCHANGED <<codes, consented>>
           \/ MayFail /\ Insert(row) /\ Answer(s, "error")
        /\ UNCHANGED <<vars, redeemed, tried>>

-----------------------------------------------------------------------------
(* Redeeming a code. *)

Matches(pkce, v) ==
    \/ pkce.method = "S256" /\ pkce.challenge = SHA256(v)
    \/ pkce.method = "plain" /\ pkce.challenge = v

(* Mutant: the code is redeemed for whichever client presents it. *)
AcceptsAnyClient(row, c, uri, v) ==
    /\ row.uri = uri
    /\ now <= row.expires
    /\ Matches(row.pkce, v)

(* The checks of ExchangeAuthorizationCode on the row it has deleted. *)
Accepts(row, c, uri, v) ==
    /\ row.client = c
    /\ row.uri = uri
    /\ now <= row.expires
    /\ Matches(row.pkce, v)

(* Mutant: the code is read, not deleted. *)
Kept(row) == codes

(* DELETE ... RETURNING: whatever the checks say, the code is gone. *)
Without(row) == codes \ {row}

(* Client c redeems the row: tokens are generated for the claims it holds. *)
Redeem(r, row, c) ==
    LET g == [user |-> row.user, client |-> c, scopes |-> row.scopes]
    IN  /\ GenerateTokens(r, g)
        /\ codes' = Without(row)
        /\ redeemed' = [redeemed EXCEPT ![row.code] = g]

(* Mutant: a code is deleted only once it has been accepted. *)
RejectUnspent(r, row) ==
    /\ Refuse(r)
    /\ UNCHANGED <<codes, redeemed>>

(* The row has been deleted, and its exchange then fails. *)
Reject(r, row) ==
    /\ Refuse(r)
    /\ codes' = Without(row)
    /\ UNCHANGED redeemed

(* Client c, whose secret is right, presents code k. *)
Exchange(r, k, c, uri, v) ==
    /\ \/ /\ \E row \in codes :
                /\ row.code = k
                /\ \/ Accepts(row, c, uri, v) /\ Redeem(r, row, c)
                   \/ (~ Accepts(row, c, uri, v) \/ MayFail) /\ Reject(r, row)
          /\ tried' = tried \cup {k}
       \/ /\ (\A row \in codes : row.code # k) \/ MayFail
          /\ Refuse(r)
          /\ UNCHANGED <<codes, redeemed, tried>>
    /\ UNCHANGED <<consent, consented>>

-----------------------------------------------------------------------------
(* The steps of TokenProvider that concern the codes as well. *)

DeleteUserAndCodes(u) ==
    /\ DeleteUser(u)
    /\ codes' = {row \in codes : row.user # u}
    /\ UNCHANGED <<consent, consented, redeemed, tried>>

CrashAll ==
    /\ Crash
    /\ consent' = [s \in Consenters |-> NoHandler("none")]
    /\ UNCHANGED <<codes, consented, redeemed, tried>>

Storing(s) ==
    \/ \E p \in Params : ConsentPOST(s, p) \/ GenerateAuthorizationCode(s, p)
    \/ GetUser(s)
    \/ GetClient(s)
    \/ SaveCode(s)

Redeeming(r) ==
    \E k \in CodeIds, c \in Clients, uri \in URIs, v \in Verifiers :
        Exchange(r, k, c, uri, v)

CodesNext ==
    \/ \E s \in Consenters : Storing(s)
    \/ \E r \in Requests : Redeeming(r)
    \/ \E r \in Requests : (Refuse(r) \/ Call(r) \/ Statement(r)) /\ UNCHANGED codeVars
    \/ (CleanExpiredTokens \/ Tick) /\ UNCHANGED codeVars
    \/ \E u \in Users : DeleteUserAndCodes(u)
    \/ CrashAll

CodesSpec == CodesInit /\ [][CodesNext]_allVars

-----------------------------------------------------------------------------
(* Properties. *)

HandlerTypeOK(h) ==
    /\ h \in Handler
    /\ h.pc = "idle" <=> h.op = "none"
    /\ h.pc = "idle" <=> h.ask = None
    /\ h.pc # "idle" => h.reply = "none"
    /\ h.pc = "saveCode" <=> h.row # None
    /\ h.op = "login" => h.ask.scopes = NoScopes

(* The tables and slots have their types, and a handler holds a row from   *)
(* the moment it has drawn a code until it has stored it.                  *)
CodesTypeOK ==
    /\ codes \subseteq AuthCode
    /\ consent \in [Consenters -> Handler]
    /\ \A s \in Consenters : HandlerTypeOK(consent[s])
    /\ consented \in [CodeIds -> Grants \cup {None}]
    /\ redeemed \in [CodeIds -> Grants \cup {None}]
    /\ tried \subseteq CodeIds

(* Codes keep the promise of OneTimeCode: each is redeemed at most once,   *)
(* and for the user, client and scopes of the consent it was stored for.   *)
OTC == INSTANCE OneTimeCode WITH open <- {row.code : row \in codes}
CodesAreOneTime == OTC!Spec

(* Behind every session is a code that was stored for a consent of that    *)
(* user to that client and those scopes, and was redeemed for them.        *)
EverySessionWasConsented ==
    \A row \in whitelist : \E k \in CodeIds :
        redeemed[k] = row.token.grant /\ consented[k] = row.token.grant

(* No two exchanges stand on one code, whichever handlers race for it. *)
OneExchangePerCode ==
    \A g \in Consents :
        granted[g] = Cardinality({k \in CodeIds : redeemed[k] = g})

(* A code that an exchange has taken and refused, for the wrong client,    *)
(* URI or verifier, too late, or because a statement failed, is spent: no  *)
(* later exchange, and none that races with it, turns it into tokens       *)
(* (the DELETE of authserver.go:204 comes before the checks).              *)
OneAttemptPerCode ==
    [][\A k \in tried : redeemed'[k] = redeemed[k]]_allVars

Registered(p) ==
    /\ p.client \in Clients
    /\ p.uri \in RedirectURIs[p.client]
    /\ p.scopes \in Permitted[p.client]

(* README.md:32: the consent of a user leads to a redirect with a code, if *)
(* the client, the URI and the scopes are registered and nothing fails.    *)
ConsentYieldsCode ==
    [][\A s \in Consenters :
         (/\ consent[s].op = "consent"
          /\ users = Users /\ ~ MayFail
          /\ Registered(consent[s].ask))
           => consent'[s].reply # "error"]_allVars

=============================================================================
