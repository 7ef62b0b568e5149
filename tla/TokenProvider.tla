----------------------------- MODULE TokenProvider -----------------------------
(***************************************************************************)
(* The refresh-token whitelist of ZenithSSO (internal/jwt) and the five     *)
(* server operations that use it (internal/authserver.go): the last part   *)
(* of a code exchange, Login, RefreshTokens, Validate and Logout.          *)
(*                                                                         *)
(* Every operation runs in a goroutine of its own and touches the shared   *)
(* state, the PostgreSQL tables, only by SQL statements.  No transaction   *)
(* spans two of them.  A step of this module is therefore one statement    *)
(* with the local computation that follows it, up to the next statement.   *)
(*                                                                         *)
(* Time is counted in ticks; `Second' ticks make one second of the wall    *)
(* clock.  The claims `exp' and `iat' of a JWT are whole seconds, the      *)
(* column expires_at is not.                                               *)
(***************************************************************************)
EXTENDS Naturals, FiniteSets

CONSTANTS
    Users,       \* the users that exist at first
    Clients,     \* the rows of table clients
    NoClient,    \* the empty client_id that Login passes
    Scopes,      \* the scope strings a token can carry
    NoScopes,    \* the empty one
    Consents,    \* the grants that redeemed authorization codes carry
    Oversized,   \* the grants whose refresh JWT is longer than VARCHAR(512)
    LongAddresses, \* whether a client's address can exceed VARCHAR(45)
    Requests,    \* the slots of concurrent request handlers
    None,        \* no grant, no token
    Second,      \* ticks in a second
    RefreshTTL,  \* jwt.ttl.refresh, in ticks
    LateStamps,  \* bound: whether a second ends while a token is signed
    MaxTime,     \* bound on the clock
    MaxGrants,   \* bound on the exchanges of one grant
    MaxFaults    \* bound on the statements that fail

(***************************************************************************)
(* A JWT is determined by the claims it signs: RS256 is deterministic, and *)
(* a refresh token has no claim but the user, the audience, the scopes and *)
(* two times, each read from the clock by a call of its own.  The user is  *)
(* the id here: the name is signed as well and can change (a renaming), so *)
(* the code can tell apart two tokens of one second that this module takes *)
(* for the same.                                                           *)
(***************************************************************************)
Grants == [user: Users, client: Clients \cup {NoClient}, scopes: Scopes]
Token  == [grant: Grants, exp: Nat, iat: Nat]
Row    == [token: Token, expires: Nat]

ASSUME NoneAssumption     == None \notin Grants /\ None \notin Token
ASSUME ClientAssumption   == NoClient \notin Clients
ASSUME ScopesAssumption   == NoScopes \in Scopes
ASSUME ConsentsAssumption ==
    Consents \subseteq [user: Users, client: Clients, scopes: Scopes]
ASSUME ClockAssumption    ==
    /\ Second \in Nat \ {0}
    /\ RefreshTTL \in Nat
    /\ \E n \in 0 .. RefreshTTL : RefreshTTL = n * Second
ASSUME AddressAssumption  == LongAddresses \in BOOLEAN
ASSUME BoundsAssumption   ==
    LateStamps \in BOOLEAN /\ MaxTime \in Nat /\ MaxGrants \in Nat /\ MaxFaults \in Nat

VARIABLES
    now,         \* the wall clock, which the database shares
    second,      \* the last whole second of that clock
    users,       \* table users
    whitelist,   \* table refresh_tokens
    req,         \* the handler that runs in each slot
    faults,      \* statements that have failed so far
    granted,     \* history: exchanges begun for each consented grant
    delivered    \* history: refresh tokens returned to a client

vars == <<now, second, users, whitelist, req, faults, granted, delivered>>

Ops     == {"none", "grant", "login", "refresh", "validate", "logout"}
PCs     == {"idle", "readUser", "isTokenValid", "revoke", "sign", "stamp", "save"}
Replies == {"none", "ok", "error"}

(* What a handler has in its locals; due is the expiry it will sign. *)
Request == [op: Ops, pc: PCs, grant: Grants \cup {None},
            token: Token \cup {None}, due: Nat, signed: Token \cup {None},
            reply: Replies]

-----------------------------------------------------------------------------
(* The claims of a token and its row. *)

(* jwt.ParseWithClaims accepts a well-signed token before its exp. *)
Verifies(t) == now < t.exp

Listed(t) == \E row \in whitelist : row.token = t

(* Mutant: the signature and the claims are enough. *)
OnlyVerifies(t) == Verifies(t)

IsTokenValid(t) == \E row \in whitelist : row.token = t /\ row.expires > now

(* Mutant: only rows already past their expiry are deleted. *)
ExpiredRowsOf(t) == {row \in whitelist : row.token = t /\ row.expires < now}

RowsOf(t) == {row \in whitelist : row.token = t}

(* Mutant: migration 8 without the foreign key to users. *)
StorableForAnyUser(t) ==
    /\ t.grant.client \in Clients
    /\ ~ Listed(t)
    /\ t.grant \notin Oversized

(* The constraints of migration 8 on a token: both foreign keys, the       *)
(* primary key and the width of column token.                              *)
Storable(t) ==
    /\ t.grant.user \in users
    /\ t.grant.client \in Clients
    /\ ~ Listed(t)
    /\ t.grant \notin Oversized

-----------------------------------------------------------------------------
(* A slot and its handler. *)

Idle(reply) == [op |-> "none", pc |-> "idle", grant |-> None,
                token |-> None, due |-> 0, signed |-> None, reply |-> reply]

Begin(r, op, pc, g, t) ==
    req' = [req EXCEPT ![r] = [op |-> op, pc |-> pc, grant |-> g, token |-> t,
                               due |-> 0, signed |-> None, reply |-> "none"]]

Goto(r, pc) == req' = [req EXCEPT ![r].pc = pc]

(* Mutant: the slot is not cleared when its handler returns. *)
ReplyOnly(r, reply) ==
    req' = [req EXCEPT ![r].pc = "idle", ![r].reply = reply]

(* Mutant: a handler tries again where the code returns an error. *)
ReplyOrRetry(r, reply) ==
    IF reply = "error" THEN UNCHANGED req ELSE req' = [req EXCEPT ![r] = Idle(reply)]

Reply(r, reply) == req' = [req EXCEPT ![r] = Idle(reply)]

Works == UNCHANGED faults
Fails == faults < MaxFaults /\ faults' = faults + 1

Init ==
    /\ now = 0
    /\ second = 0
    /\ users = Users
    /\ whitelist = {}
    /\ req = [r \in Requests |-> Idle("none")]
    /\ faults = 0
    /\ granted = [g \in Consents |-> 0]
    /\ delivered = {}

-----------------------------------------------------------------------------
(* The first step of each operation, up to its first statement. *)

(* ExchangeAuthorizationCode has redeemed a code that carries g. *)
GenerateTokens(r, g) ==
    /\ req[r].pc = "idle"
    /\ granted[g] < MaxGrants
    /\ granted' = [granted EXCEPT ![g] = @ + 1]
    /\ Begin(r, "grant", "readUser", g, None)
    /\ UNCHANGED <<now, second, users, whitelist, faults, delivered>>

(* An operation that ends before it reaches the provider: a wrong password, *)
(* an unknown client, a code that is refused.                               *)
Refuse(r) ==
    /\ req[r].pc = "idle"
    /\ Reply(r, "error")
    /\ UNCHANGED <<now, second, users, whitelist, faults, granted, delivered>>

(* Login passes the empty client and the empty scopes. *)
Login(r, u) ==
    /\ req[r].pc = "idle"
    /\ Begin(r, "login", "readUser",
             [user |-> u, client |-> NoClient, scopes |-> NoScopes], None)
    /\ UNCHANGED <<now, second, users, whitelist, faults, granted, delivered>>

(* Client c presents t: the successor will name c, not the audience of t. *)
RefreshTokens(r, t, c) ==
    /\ req[r].pc = "idle"
    /\ \/ /\ Verifies(t)
          /\ Begin(r, "refresh", "readUser", [t.grant EXCEPT !.client = c], t)
       \/ ~ Verifies(t) /\ Reply(r, "error")
    /\ UNCHANGED <<now, second, users, whitelist, faults, granted, delivered>>

Validate(r, t) ==
    /\ req[r].pc = "idle"
    /\ \/ Verifies(t) /\ Begin(r, "validate", "isTokenValid", None, t)
       \/ ~ Verifies(t) /\ Reply(r, "error")
    /\ UNCHANGED <<now, second, users, whitelist, faults, granted, delivered>>

Logout(r, t) ==
    /\ req[r].pc = "idle"
    /\ \/ Verifies(t) /\ Begin(r, "logout", "revoke", None, t)
       \/ ~ Verifies(t) /\ Reply(r, "error")
    /\ UNCHANGED <<now, second, users, whitelist, faults, granted, delivered>>

-----------------------------------------------------------------------------
(* The statements. *)

(* GetUserById, or GetUserByUsername in Login; a refresh then enters       *)
(* VerifyToken, which parses the token again.                              *)
ReadUser(r) ==
    /\ req[r].pc = "readUser"
    /\ \/ /\ Works
          /\ req[r].grant.user \in users
          /\ \/ req[r].op # "refresh" /\ Goto(r, "sign")
             \/ /\ req[r].op = "refresh"
                /\ \/ Verifies(req[r].token) /\ Goto(r, "isTokenValid")
                   \/ ~ Verifies(req[r].token) /\ Reply(r, "error")
       \/ /\ Works
          /\ req[r].grant.user \notin users
          /\ Reply(r, "error")
       \/ Fails /\ Reply(r, "error")
    /\ UNCHANGED <<now, second, users, whitelist, granted, delivered>>

(* Mutant: the audience is not compared. *)
ForAnyClient(r) == Verifies(req[r].token)

(* RefreshToken, once VerifyToken has accepted the token, parses it for    *)
(* its claims and compares the audience.                                   *)
ForThisClient(r) ==
    /\ Verifies(req[r].token)
    /\ req[r].token.grant.client = req[r].grant.client

(* The whitelist look-up of VerifyToken; a failed query reads as "no". *)
CheckWhitelist(r) ==
    /\ req[r].pc = "isTokenValid"
    /\ \/ /\ Works
          /\ IsTokenValid(req[r].token)
          /\ \/ req[r].op = "validate" /\ Reply(r, "ok")
             \/ /\ req[r].op = "refresh"
                /\ \/ ForThisClient(r) /\ Goto(r, "revoke")
                   \/ ~ ForThisClient(r) /\ Reply(r, "error")
       \/ Works /\ ~ IsTokenValid(req[r].token) /\ Reply(r, "error")
       \/ Fails /\ Reply(r, "error")
    /\ UNCHANGED <<now, second, users, whitelist, granted, delivered>>

(* A refresh goes on whether its DELETE worked or not; Logout reports it.  *)
(* A statement that fails may still have been executed.                    *)
RevokeToken(r) ==
    /\ req[r].pc = "revoke"
    /\ \/ /\ Works
          /\ whitelist' = whitelist \ RowsOf(req[r].token)
          /\ \/ req[r].op = "refresh" /\ Goto(r, "sign")
             \/ req[r].op = "logout" /\ Reply(r, "ok")
       \/ /\ Fails
          /\ \/ whitelist' = whitelist \ RowsOf(req[r].token)
             \/ UNCHANGED whitelist
          /\ \/ req[r].op = "refresh" /\ Goto(r, "sign")
             \/ req[r].op = "logout" /\ Reply(r, "error")
    /\ UNCHANGED <<now, second, users, granted, delivered>>

(* GenerateAccess keeps nothing; GenerateRefresh reads the clock for exp,  *)
(* and once more for iat: a second may end in between.                     *)
ReadExpiry(r) ==
    /\ req[r].pc = "sign"
    /\ req' = [req EXCEPT ![r].due = second + RefreshTTL, ![r].pc = "stamp"]
    /\ UNCHANGED <<now, second, users, whitelist, faults, granted, delivered>>

(* The handler q, about to store the token t it has signed. *)
Signed(q, t) == [q EXCEPT !.due = 0, !.signed = t, !.pc = "save"]

(* Mutant: a refresh signs the claims it has parsed, with their times. *)
GenerateFromClaims(r) ==
    LET q == req[r]
        t == IF q.op = "refresh" THEN q.token
             ELSE [grant |-> q.grant, exp |-> q.due, iat |-> second]
    IN  /\ q.pc = "stamp"
        /\ req' = [req EXCEPT ![r] = Signed(q, t)]
        /\ UNCHANGED <<now, second, users, whitelist, faults, granted, delivered>>

GenerateRefresh(r) ==
    LET q == req[r]
        t == [grant |-> q.grant, exp |-> q.due, iat |-> second]
    IN  /\ q.pc = "stamp"
        /\ req' = [req EXCEPT ![r] = Signed(q, t)]
        /\ UNCHANGED <<now, second, users, whitelist, faults, granted, delivered>>

(* Mutant: the repository is built with a shorter TTL than the provider. *)
ShortRow(t) == [token |-> t, expires |-> now + Second]

(* The row that SaveToWhiteList inserts for t, by the clock of this step. *)
NewRow(t) == [token |-> t, expires |-> now + RefreshTTL]

(* The INSERT, refused for the token or for the address it came from. *)
SaveToWhiteList(r) ==
    LET t == req[r].signed
    IN  /\ req[r].pc = "save"
        /\ \/ /\ Works
              /\ Storable(t)
              /\ whitelist' = whitelist \cup {NewRow(t)}
              /\ delivered' = delivered \cup {t}
              /\ Reply(r, "ok")
           \/ /\ Works
              /\ ~ Storable(t) \/ LongAddresses
              /\ Reply(r, "error")
              /\ UNCHANGED <<whitelist, delivered>>
           \/ /\ Fails
              /\ Reply(r, "error")
              /\ \/ Storable(t) /\ whitelist' = whitelist \cup {NewRow(t)}
                 \/ UNCHANGED whitelist
              /\ UNCHANGED delivered
        /\ UNCHANGED <<now, second, users, granted>>

-----------------------------------------------------------------------------
(* What runs beside the handlers. *)

(* Mutant: the sweep waits for another TTL after expires_at. *)
CleanLongExpiredTokens ==
    /\ whitelist' = {row \in whitelist : ~ (row.expires + RefreshTTL < now)}
    /\ UNCHANGED <<now, second, users, req, faults, granted, delivered>>

(* One round of the clean-up goroutine. *)
CleanExpiredTokens ==
    /\ whitelist' = {row \in whitelist : ~ (row.expires < now)}
    /\ UNCHANGED <<now, second, users, req, faults, granted, delivered>>

(* DELETE FROM users, with the cascade of migration 8. *)
DeleteUser(u) ==
    /\ u \in users
    /\ users' = users \ {u}
    /\ whitelist' = {row \in whitelist : row.token.grant.user # u}
    /\ UNCHANGED <<now, second, req, faults, granted, delivered>>

(* The process ends, with every handler where it stands, and is restarted. *)
Crash ==
    /\ req' = [r \in Requests |-> Idle("none")]
    /\ UNCHANGED <<now, second, users, whitelist, faults, granted, delivered>>

Tick ==
    /\ now < MaxTime
    /\ now' = now + 1
    /\ second' = IF now' = second + Second THEN now' ELSE second
    /\ second' # second /\ ~ LateStamps => \A r \in Requests : req[r].pc # "stamp"
    /\ UNCHANGED <<users, whitelist, req, faults, granted, delivered>>

-----------------------------------------------------------------------------
Statement(r) ==
    \/ ReadUser(r)
    \/ CheckWhitelist(r)
    \/ RevokeToken(r)
    \/ ReadExpiry(r)
    \/ GenerateRefresh(r)
    \/ SaveToWhiteList(r)

(* The operations that clients call with what they hold. *)
Call(r) ==
    \/ \E u \in Users : Login(r, u)
    \/ \E t \in delivered, c \in Clients : RefreshTokens(r, t, c)
    \/ \E t \in delivered : Validate(r, t)
    \/ \E t \in delivered : Logout(r, t)

Arrival(r) == Refuse(r) \/ Call(r) \/ \E g \in Consents : GenerateTokens(r, g)

Next ==
    \/ \E r \in Requests : Arrival(r) \/ Statement(r)
    \/ CleanExpiredTokens
    \/ \E u \in Users : DeleteUser(u)
    \/ Crash
    \/ Tick

Spec == Init /\ [][Next]_vars

(***************************************************************************)
(* A handler that runs goes on, and the ticker of the clean-up goroutine   *)
(* keeps firing.  Nothing makes requests arrive or the clock reach a       *)
(* given time.                                                             *)
(***************************************************************************)
Fairness ==
    /\ \A r \in Requests : WF_vars(Statement(r))
    /\ WF_vars(CleanExpiredTokens)

FairSpec == Spec /\ Fairness

-----------------------------------------------------------------------------
(* Properties. *)

(* What a slot holds in each state of its handler. *)
RequestOK(q) ==
    /\ q \in Request
    /\ q.pc = "idle" => q.op = "none" /\ q.token = None
    /\ q.pc = "idle" => q.grant = None
    /\ q.pc # "idle" => q.reply = "none"
    /\ q.pc = "readUser" => q.op \in {"grant", "login", "refresh"}
    /\ q.pc = "isTokenValid" => q.op \in {"refresh", "validate"}
    /\ q.pc = "revoke" => q.op \in {"refresh", "logout"}
    /\ q.pc \in {"sign", "stamp", "save"} => q.op \in {"grant", "login", "refresh"}
    /\ q.op \in {"grant", "login", "refresh"} => q.grant \in Grants
    /\ q.op \in {"refresh", "validate", "logout"} => q.token \in Token
    /\ q.pc = "save" <=> q.signed # None
    /\ q.pc # "stamp" => q.due = 0

(* Every variable has its type, and every slot the fields that the state   *)
(* of its handler calls for: the locals of the functions of tokens.go.     *)
TypeOK ==
    /\ now \in 0 .. MaxTime
    /\ second \in Nat
    /\ users \subseteq Users
    /\ whitelist \subseteq Row
    /\ req \in [Requests -> Request]
    /\ \A r \in Requests : RequestOK(req[r])
    /\ faults \in 0 .. MaxFaults
    /\ granted \in [Consents -> 0 .. MaxGrants]
    /\ delivered \subseteq Token

Begun(g) == g \in Consents /\ granted[g] > 0

(* However long the chain of refreshes, by whichever clients, that leads   *)
(* to it, a refresh token that is stored or returned names a user, a       *)
(* client and scopes that one redeemed authorization code carried.         *)
ConsentedOnly ==
    /\ \A row \in whitelist : Begun(row.token.grant)
    /\ \A t \in delivered : Begun(t.grant)

(* No session of a deleted user survives or appears, not even through an   *)
(* exchange or a refresh that read the user before the deletion.           *)
DeletedUserHoldsNoSession ==
    \A row \in whitelist : row.token.grant.user \in users

(* A token that is not listed, that no handler is about to insert and      *)
(* whose second is over.                                                   *)
Dead(t) ==
    /\ ~ Listed(t)
    /\ t.iat < second
    /\ \A r \in Requests : req[r].signed # t

(* A dead token is dead for good: after a logout, a refresh or a clean-up  *)
(* no handler, whatever it checked before, lists it again.                 *)
DeadTokensStayDead ==
    [][\A t \in delivered : Dead(t) => Dead(t)']_vars

(* A session ends only by a refresh or a logout of its own token, with its *)
(* user, or when its token has expired: neither the clean-up nor another   *)
(* request removes the row of a token that still verifies.                 *)
OnlyEndedSessionsLeave ==
    [][\A row \in whitelist \ whitelist' :
         \/ \E r \in Requests : req[r].pc = "revoke" /\ req[r].token = row.token
         \/ row.token.grant.user \notin users'
         \/ ~ Verifies(row.token)]_vars

SessionsOf(g) == {row \in whitelist : row.token.grant = g}

(* Refreshing replaces a session and never adds one: a grant has no more   *)
(* listed tokens than exchanges that issued it ("rolling refresh token",   *)
(* tokens.go:196).                                                         *)
SessionsNotMultiplied ==
    \A g \in Consents : Cardinality(SessionsOf(g)) <= granted[g]

(* A handler that has redeemed a code for g, or has checked a session of g *)
(* and may still store its successor.                                      *)
OnItsWay(r, g) ==
    /\ req[r].grant = g
    /\ req[r].op = "grant" \/ req[r].pc \in {"revoke", "sign", "stamp", "save"}

Ended(g) ==
    /\ \A row \in whitelist : row.token.grant # g
    /\ \A r \in Requests : ~ OnItsWay(r, g)

(* When the last session of a grant has been logged out, or swept, or gone *)
(* with its user, no token that was ever issued brings a session back, by  *)
(* whatever client and in whatever order it is presented: it takes another *)
(* code, and so another consent (authserver.go:162, tokens.go:189).        *)
EndedForGood ==
    [][\A g \in Consents :
         Ended(g) /\ granted'[g] = granted[g] => Ended(g)']_vars

(* Every handler comes to its end, with a reply or with the process. *)
EveryRequestEnds == \A r \in Requests : req[r].pc # "idle" ~> req[r].pc = "idle"

(* A session past its expires_at is eventually swept away. *)
ExpiredRowsAreSwept ==
    (\E row \in whitelist : row.expires < now)
      ~> (\A row \in whitelist : ~ (row.expires < now))

Returned(r) == req[r].pc = "save" /\ req'[r].reply = "ok"

(* tokens.go:193: a refresh that answers has invalidated the old token,    *)
(* which is here another one than the token it returns: no other exchange  *)
(* or login lists it again meanwhile.  The error of the DELETE is          *)
(* discarded, so this is so only while no statement fails.                 *)
RefreshInvalidatesOldToken ==
    [][\A r \in Requests : \A row \in whitelist' :
         Returned(r) /\ req[r].op = "refresh" /\ req[r].signed # req[r].token
           => row.token # req[r].token]_vars

(* README.md:18 and auth.proto:11: a login with the right password is      *)
(* answered with tokens, as long as no statement fails and its user is     *)
(* not deleted.                                                            *)
LoginReturnsTokens ==
    [][\A r \in Requests :
         req[r].op = "login" /\ req'[r].reply = "error"
           => faults' > 0 \/ users # Users]_vars

=============================================================================
