-------------------------- MODULE TokenProviderProofs --------------------------
(***************************************************************************)
(* Theorems about TokenProvider, for any users, clients, consents, number  *)
(* of concurrent handlers, time to live and bounds.                        *)
(***************************************************************************)
EXTENDS TokenProvider, TLAPS

(* The clock reads between the last whole second and the next. *)
ClockOK == second <= now /\ now < second + Second

(* What a handler has learnt by the time it reaches a state: whose consent *)
(* its grant stands for, that a refresh keeps all of the grant but the     *)
(* client, that it has compared the client before it revokes anything, and *)
(* that the token it is about to store was signed for its grant by now.    *)
HandlerOK(q) ==
    /\ q.op = "grant" => Begun(q.grant)
    /\ q.op = "login" => q.grant.client = NoClient
    /\ q.op = "refresh" =>
         /\ Begun(q.token.grant)
         /\ q.grant.user = q.token.grant.user
         /\ q.grant.scopes = q.token.grant.scopes
    /\ q.op = "refresh" /\ q.pc \in {"revoke", "sign", "stamp", "save"}
         => q.grant.client = q.token.grant.client
    /\ q.pc = "stamp" => q.due <= second + RefreshTTL
    /\ q.pc = "save" =>
         /\ q.signed.grant = q.grant
         /\ q.signed.exp <= second + RefreshTTL

HandlersOK == \A r \in Requests : HandlerOK(req[r])

(* expires_at is read from the clock after the claim exp, so never before. *)
RowsOutliveTokens ==
    \A row \in whitelist : row.expires >= row.token.exp

(* The inductive invariant. *)
Inv ==
    /\ TypeOK
    /\ ClockOK
    /\ HandlersOK
    /\ ConsentedOnly
    /\ DeletedUserHoldsNoSession
    /\ RowsOutliveTokens

LEMMA ConstantFacts ==
    /\ None \notin Grants
    /\ None \notin Token
    /\ NoClient \notin Clients
    /\ NoScopes \in Scopes
    /\ Consents \subseteq Grants
    /\ Second \in Nat \ {0}
    /\ RefreshTTL \in Nat
    /\ MaxTime \in Nat /\ MaxGrants \in Nat /\ MaxFaults \in Nat
BY NoneAssumption, ClientAssumption, ScopesAssumption, ConsentsAssumption,
   ClockAssumption, BoundsAssumption DEF Grants

LEMMA InitInv == Init => Inv
<1> SUFFICES ASSUME Init PROVE Inv
  OBVIOUS
<1>1. TypeOK
  BY ConstantFacts DEF Init, TypeOK, RequestOK, Request, Idle, Ops, PCs, Replies
<1>2. ClockOK
  BY ConstantFacts DEF Init, ClockOK
<1>3. HandlersOK
  BY DEF Init, HandlersOK, HandlerOK, Idle
<1>4. ConsentedOnly /\ DeletedUserHoldsNoSession /\ RowsOutliveTokens
  BY DEF Init, ConsentedOnly, DeletedUserHoldsNoSession, RowsOutliveTokens
<1> QED BY <1>1, <1>2, <1>3, <1>4 DEF Inv

-----------------------------------------------------------------------------
(* A step that gives one slot a well-formed handler, and takes back neither *)
(* time nor consents, keeps the part of the invariant about handlers.       *)
LEMMA HandlerStep ==
    ASSUME Inv,
           NEW r \in Requests, NEW n,
           req' = [req EXCEPT ![r] = n],
           RequestOK(n),
           HandlerOK(n),
           UNCHANGED <<second, granted>>
    PROVE  /\ req' \in [Requests -> Request]
           /\ \A q \in Requests : RequestOK(req'[q])
           /\ HandlersOK'
<1>1. /\ req \in [Requests -> Request]
      /\ \A q \in Requests : RequestOK(req[q]) /\ HandlerOK(req[q])
  BY DEF Inv, TypeOK, HandlersOK
<1>2. \A q \in Requests : req'[q] = IF q = r THEN n ELSE req[q]
  BY <1>1
<1>3. n \in Request
  BY DEF RequestOK
<1>4. /\ req' \in [Requests -> Request]
      /\ \A q \in Requests : RequestOK(req'[q]) /\ HandlerOK(req'[q])
  BY <1>1, <1>2, <1>3
<1>5. HandlersOK'
  BY <1>4 DEF HandlersOK, HandlerOK, Begun
<1> QED BY <1>4, <1>5

(* The tables and histories, when a step leaves all of them alone. *)
LEMMA TablesUnchanged ==
    ASSUME Inv, UNCHANGED <<users, whitelist, granted, delivered>>
    PROVE  ConsentedOnly' /\ DeletedUserHoldsNoSession' /\ RowsOutliveTokens'
BY DEF Inv, ConsentedOnly, Begun, DeletedUserHoldsNoSession, RowsOutliveTokens

LEMMA IdleOK ==
    ASSUME NEW reply \in Replies
    PROVE  RequestOK(Idle(reply)) /\ HandlerOK(Idle(reply))
BY ConstantFacts DEF RequestOK, HandlerOK, Request, Idle, Ops, PCs, Replies

(* A step of one handler that touches no table keeps the invariant. *)
LEMMA LocalStep ==
    ASSUME Inv,
           NEW r \in Requests, NEW n,
           req' = [req EXCEPT ![r] = n],
           RequestOK(n),
           HandlerOK(n),
           faults' \in 0 .. MaxFaults,
           UNCHANGED <<now, second, users, whitelist, granted, delivered>>
    PROVE  Inv'
<1>1. TypeOK'
  BY HandlerStep DEF Inv, TypeOK
<1>2. ClockOK'
  BY DEF Inv, ClockOK
<1>3. HandlersOK'
  BY HandlerStep
<1>4. ConsentedOnly' /\ DeletedUserHoldsNoSession' /\ RowsOutliveTokens'
  BY TablesUnchanged
<1> QED BY <1>1, <1>2, <1>3, <1>4 DEF Inv

-----------------------------------------------------------------------------
(* Every action keeps the invariant. *)

LEMMA FaultsOK ==
    ASSUME Inv, Works \/ Fails
    PROVE  faults' \in 0 .. MaxFaults
BY ConstantFacts DEF Inv, TypeOK, Works, Fails

LEMMA GenerateTokensInv ==
    ASSUME Inv, NEW r \in Requests, NEW g \in Consents, GenerateTokens(r, g)
    PROVE  Inv'
<1> DEFINE n == [op |-> "grant", pc |-> "readUser", grant |-> g,
                 token |-> None, due |-> 0, signed |-> None, reply |-> "none"]
<1>1. granted' \in [Consents -> 0 .. MaxGrants]
  BY ConstantFacts DEF Inv, TypeOK, GenerateTokens
<1>2. \A h : Begun(h) => Begun(h)'
  BY ConstantFacts DEF Inv, TypeOK, GenerateTokens, Begun
<1>3. RequestOK(n)
  BY ConstantFacts DEF RequestOK, Request, Ops, PCs, Replies
<1>4. HandlerOK(n)'
  BY ConstantFacts DEF HandlerOK, GenerateTokens, Begun, Inv, TypeOK
<1>5. /\ req \in [Requests -> Request]
      /\ \A q \in Requests : req'[q] = IF q = r THEN n ELSE req[q]
  BY DEF Inv, TypeOK, GenerateTokens, Begin
<1>6. TypeOK'
  <2>1. req' \in [Requests -> Request]
    BY <1>3, <1>5 DEF RequestOK, GenerateTokens, Begin
  <2>2. \A q \in Requests : RequestOK(req'[q])
    BY <1>3, <1>5 DEF Inv, TypeOK
  <2> QED BY <1>1, <2>1, <2>2 DEF Inv, TypeOK, GenerateTokens
<1>7. HandlersOK'
  <2> SUFFICES ASSUME NEW q \in Requests PROVE HandlerOK(req[q])'
    BY DEF HandlersOK
  <2>1. CASE q = r
    BY <2>1, <1>4, <1>5 DEF HandlerOK
  <2>2. CASE q # r
    <3>1. HandlerOK(req[q]) /\ req'[q] = req[q] /\ second' = second
      BY <2>2, <1>5 DEF Inv, HandlersOK, GenerateTokens
    <3> QED BY <3>1, <1>2 DEF HandlerOK
  <2> QED BY <2>1, <2>2
<1>8. ClockOK' /\ DeletedUserHoldsNoSession' /\ RowsOutliveTokens'
  BY DEF Inv, ClockOK, DeletedUserHoldsNoSession, RowsOutliveTokens,
         GenerateTokens
<1>9. ConsentedOnly'
  BY <1>2 DEF Inv, ConsentedOnly, GenerateTokens
<1> QED BY <1>6, <1>7, <1>8, <1>9 DEF Inv

LEMMA RefuseInv ==
    ASSUME Inv, NEW r \in Requests, Refuse(r)
    PROVE  Inv'
<1>1. faults' \in 0 .. MaxFaults
  BY DEF Refuse, Inv, TypeOK
<1> QED BY <1>1, IdleOK, LocalStep DEF Refuse, Reply, Replies

LEMMA LoginInv ==
    ASSUME Inv, NEW r \in Requests, NEW u \in Users, Login(r, u)
    PROVE  Inv'
<1> DEFINE g == [user |-> u, client |-> NoClient, scopes |-> NoScopes]
           n == [op |-> "login", pc |-> "readUser", grant |-> g,
                 token |-> None, due |-> 0, signed |-> None, reply |-> "none"]
<1>1. g \in Grants
  BY ConstantFacts DEF Grants
<1>2. RequestOK(n) /\ HandlerOK(n)
  BY <1>1, ConstantFacts DEF RequestOK, HandlerOK, Request, Ops, PCs, Replies
<1>3. req' = [req EXCEPT ![r] = n]
  BY DEF Login, Begin
<1>4. faults' \in 0 .. MaxFaults
  BY DEF Login, Inv, TypeOK
<1> QED BY <1>2, <1>3, <1>4, LocalStep DEF Login

LEMMA RefreshTokensInv ==
    ASSUME Inv, NEW r \in Requests, NEW t \in delivered, NEW c \in Clients,
           RefreshTokens(r, t, c)
    PROVE  Inv'
<1> DEFINE g == [t.grant EXCEPT !.client = c]
           n == [op |-> "refresh", pc |-> "readUser", grant |-> g,
                 token |-> t, due |-> 0, signed |-> None, reply |-> "none"]
<1>1. t \in Token /\ Begun(t.grant)
  BY DEF Inv, TypeOK, ConsentedOnly
<1>2. /\ g \in Grants
      /\ g.user = t.grant.user /\ g.scopes = t.grant.scopes
  BY <1>1 DEF Grants, Token
<1>3. RequestOK(n)
  BY <1>1, <1>2, ConstantFacts DEF RequestOK, Request, Ops, PCs, Replies
<1>4. HandlerOK(n)
  BY <1>1, <1>2 DEF HandlerOK
<1>5. faults' \in 0 .. MaxFaults
  BY DEF RefreshTokens, Inv, TypeOK
<1>6. CASE Begin(r, "refresh", "readUser", g, t)
  <2>1. req' = [req EXCEPT ![r] = n]
    BY <1>6 DEF Begin
  <2> QED BY <1>3, <1>4, <1>5, <2>1, LocalStep DEF RefreshTokens
<1>7. CASE Reply(r, "error")
  BY <1>5, <1>7, IdleOK, LocalStep DEF RefreshTokens, Reply, Replies
<1> QED BY <1>6, <1>7 DEF RefreshTokens

(* Validate and Logout begin alike. *)
LEMMA TokenOnlyOK ==
    ASSUME NEW op, NEW pc, NEW t \in Token,
           <<op, pc>> \in {<<"validate", "isTokenValid">>, <<"logout", "revoke">>}
    PROVE  LET n == [op |-> op, pc |-> pc, grant |-> None,
                     token |-> t, due |-> 0, signed |-> None, reply |-> "none"]
           IN  RequestOK(n) /\ HandlerOK(n)
BY ConstantFacts DEF RequestOK, HandlerOK, Request, Ops, PCs, Replies

LEMMA ValidateInv ==
    ASSUME Inv, NEW r \in Requests, NEW t \in delivered, Validate(r, t)
    PROVE  Inv'
<1>1. t \in Token /\ faults' \in 0 .. MaxFaults
  BY DEF Inv, TypeOK, Validate
<1>2. CASE Begin(r, "validate", "isTokenValid", None, t)
  BY <1>1, <1>2, TokenOnlyOK, LocalStep DEF Validate, Begin
<1>3. CASE Reply(r, "error")
  BY <1>1, <1>3, IdleOK, LocalStep DEF Validate, Reply, Replies
<1> QED BY <1>2, <1>3 DEF Validate

LEMMA LogoutInv ==
    ASSUME Inv, NEW r \in Requests, NEW t \in delivered, Logout(r, t)
    PROVE  Inv'
<1>1. t \in Token /\ faults' \in 0 .. MaxFaults
  BY DEF Inv, TypeOK, Logout
<1>2. CASE Begin(r, "logout", "revoke", None, t)
  BY <1>1, <1>2, TokenOnlyOK, LocalStep DEF Logout, Begin
<1>3. CASE Reply(r, "error")
  BY <1>1, <1>3, IdleOK, LocalStep DEF Logout, Reply, Replies
<1> QED BY <1>2, <1>3 DEF Logout

(* A handler that moves on with what it has. *)
LEMMA GotoOK ==
    ASSUME Inv, NEW r \in Requests, NEW pc \in PCs,
           \/ req[r].pc = "readUser" /\ pc = "sign" /\ req[r].op # "refresh"
           \/ /\ req[r].pc = "readUser" /\ pc = "isTokenValid"
              /\ req[r].op = "refresh"
           \/ /\ req[r].pc = "isTokenValid" /\ pc = "revoke"
              /\ req[r].op = "refresh"
              /\ req[r].token.grant.client = req[r].grant.client
           \/ req[r].pc = "revoke" /\ pc = "sign" /\ req[r].op = "refresh"
    PROVE  LET n == [req[r] EXCEPT !.pc = pc]
           IN  RequestOK(n) /\ HandlerOK(n)
<1>1. RequestOK(req[r]) /\ HandlerOK(req[r])
  BY DEF Inv, TypeOK, HandlersOK
<1> DEFINE n == [req[r] EXCEPT !.pc = pc]
<1>2. /\ n \in Request
      /\ n.op = req[r].op /\ n.pc = pc /\ n.grant = req[r].grant
      /\ n.token = req[r].token /\ n.due = req[r].due
      /\ n.signed = req[r].signed /\ n.reply = req[r].reply
  BY <1>1 DEF RequestOK, Request
<1> HIDE DEF n
<1>3. RequestOK(n)
  BY <1>1, <1>2 DEF RequestOK
<1>4. HandlerOK(n)
  BY <1>1, <1>2 DEF HandlerOK, RequestOK
<1> QED BY <1>3, <1>4 DEF n

LEMMA ReadUserInv ==
    ASSUME Inv, NEW r \in Requests, ReadUser(r)
    PROVE  Inv'
<1>1. faults' \in 0 .. MaxFaults
  BY FaultsOK DEF ReadUser
<1>2. CASE Reply(r, "error")
  BY <1>1, <1>2, IdleOK, LocalStep DEF ReadUser, Reply, Replies
<1>3. ASSUME NEW pc \in {"sign", "isTokenValid"}, Goto(r, pc),
             pc = "isTokenValid" <=> req[r].op = "refresh"
      PROVE  Inv'
  <2> DEFINE n == [req[r] EXCEPT !.pc = pc]
  <2>1. RequestOK(n) /\ HandlerOK(n)
    BY <1>3, GotoOK DEF ReadUser, PCs
  <2>2. req' = [req EXCEPT ![r] = n]
    BY <1>3 DEF Goto
  <2> QED BY <1>1, <2>1, <2>2, LocalStep DEF ReadUser
<1> QED BY <1>2, <1>3 DEF ReadUser

LEMMA CheckWhitelistInv ==
    ASSUME Inv, NEW r \in Requests, CheckWhitelist(r)
    PROVE  Inv'
<1>1. faults' \in 0 .. MaxFaults
  BY FaultsOK DEF CheckWhitelist
<1>2. ASSUME NEW reply \in {"ok", "error"}, Reply(r, reply)
      PROVE  Inv'
  BY <1>1, <1>2, IdleOK, LocalStep DEF CheckWhitelist, Reply, Replies
<1>3. CASE req[r].op = "refresh" /\ ForThisClient(r) /\ Goto(r, "revoke")
  <2> DEFINE n == [req[r] EXCEPT !.pc = "revoke"]
  <2>1. RequestOK(n) /\ HandlerOK(n)
    BY <1>3, GotoOK DEF CheckWhitelist, ForThisClient, PCs
  <2>2. req' = [req EXCEPT ![r] = n]
    BY <1>3 DEF Goto
  <2> QED BY <1>1, <2>1, <2>2, LocalStep DEF CheckWhitelist
<1> QED BY <1>2, <1>3 DEF CheckWhitelist

(* A step that only removes rows keeps what the invariant says of rows. *)
LEMMA FewerRows ==
    ASSUME Inv, whitelist' \subseteq whitelist, UNCHANGED <<users, granted, delivered>>
    PROVE  /\ whitelist' \subseteq Row
           /\ ConsentedOnly'
           /\ DeletedUserHoldsNoSession'
           /\ RowsOutliveTokens'
BY DEF Inv, TypeOK, ConsentedOnly, Begun, DeletedUserHoldsNoSession,
       RowsOutliveTokens

LEMMA RevokeTokenInv ==
    ASSUME Inv, NEW r \in Requests, RevokeToken(r)
    PROVE  Inv'
<1>1. faults' \in 0 .. MaxFaults
  BY FaultsOK DEF RevokeToken
<1>2. whitelist' \subseteq whitelist
  BY DEF RevokeToken, RowsOf
<1>3. \E n : req' = [req EXCEPT ![r] = n] /\ RequestOK(n) /\ HandlerOK(n)
  <2>1. CASE req[r].op = "refresh" /\ Goto(r, "sign")
    BY <2>1, GotoOK DEF RevokeToken, Goto, PCs
  <2>2. ASSUME NEW reply \in {"ok", "error"}, Reply(r, reply)
        PROVE  \E n : req' = [req EXCEPT ![r] = n] /\ RequestOK(n) /\ HandlerOK(n)
    BY <2>2, IdleOK DEF Reply, Replies
  <2> QED BY <2>1, <2>2 DEF RevokeToken
<1>4. /\ req' \in [Requests -> Request]
      /\ \A q \in Requests : RequestOK(req'[q])
      /\ HandlersOK'
  BY <1>3, HandlerStep DEF RevokeToken
<1>5. TypeOK' /\ ClockOK'
  BY <1>1, <1>2, <1>4, FewerRows DEF Inv, TypeOK, ClockOK, RevokeToken
<1> QED BY <1>2, <1>4, <1>5, FewerRows DEF Inv, RevokeToken

LEMMA ReadExpiryInv ==
    ASSUME Inv, NEW r \in Requests, ReadExpiry(r)
    PROVE  Inv'
<1> DEFINE n == [req[r] EXCEPT !.due = second + RefreshTTL, !.pc = "stamp"]
<1>1. /\ RequestOK(req[r]) /\ HandlerOK(req[r]) /\ req[r].pc = "sign"
      /\ second \in Nat /\ second + RefreshTTL \in Nat
  BY ConstantFacts DEF Inv, TypeOK, HandlersOK, ReadExpiry
<1>2. RequestOK(n)
  BY <1>1, ConstantFacts DEF RequestOK, Request, PCs
<1>3. HandlerOK(n)
  BY <1>1 DEF HandlerOK, RequestOK, Request
<1>4. req' = [req EXCEPT ![r] = n]
  BY <1>1 DEF ReadExpiry, RequestOK, Request, Inv, TypeOK
<1>5. faults' \in 0 .. MaxFaults
  BY DEF ReadExpiry, Inv, TypeOK
<1> QED BY <1>2, <1>3, <1>4, <1>5, LocalStep DEF ReadExpiry

LEMMA GenerateRefreshInv ==
    ASSUME Inv, NEW r \in Requests, GenerateRefresh(r)
    PROVE  Inv'
<1> DEFINE t == [grant |-> req[r].grant, exp |-> req[r].due, iat |-> second]
           n == Signed(req[r], t)
<1>1. /\ RequestOK(req[r]) /\ HandlerOK(req[r]) /\ req[r].pc = "stamp"
      /\ second \in Nat
  BY DEF Inv, TypeOK, HandlersOK, GenerateRefresh
<1>2. t \in Token
  BY <1>1 DEF RequestOK, Request, Token
<1>3. RequestOK(n)
  BY <1>1, <1>2, ConstantFacts DEF RequestOK, Request, PCs, Signed
<1>4. HandlerOK(n)
  BY <1>1, ConstantFacts DEF HandlerOK, RequestOK, Request, Signed
<1>5. req' = [req EXCEPT ![r] = n]
  BY DEF GenerateRefresh
<1>6. faults' \in 0 .. MaxFaults
  BY DEF GenerateRefresh, Inv, TypeOK
<1> QED BY <1>3, <1>4, <1>5, <1>6, LocalStep DEF GenerateRefresh

LEMMA SaveToWhiteListInv ==
    ASSUME Inv, NEW r \in Requests, SaveToWhiteList(r)
    PROVE  Inv'
<1> DEFINE t == req[r].signed
<1>1. /\ RequestOK(req[r]) /\ HandlerOK(req[r]) /\ req[r].pc = "save"
      /\ now \in Nat /\ second \in Nat /\ second <= now
  BY DEF Inv, TypeOK, HandlersOK, SaveToWhiteList, ClockOK
<1>2. t \in Token /\ t.exp <= now + RefreshTTL /\ t.grant = req[r].grant
  BY <1>1, ConstantFacts DEF RequestOK, Request, HandlerOK, Token
<1>3. Storable(t) => Begun(t.grant)
  <2> SUFFICES ASSUME Storable(t) PROVE Begun(t.grant)
    OBVIOUS
  <2>1. req[r].op # "login"
    BY <1>1, <1>2, ConstantFacts DEF Storable, HandlerOK
  <2>2. CASE req[r].op = "grant"
    BY <2>2, <1>1, <1>2 DEF HandlerOK
  <2>3. CASE req[r].op = "refresh"
    <3>1. req[r].grant \in Grants /\ req[r].token.grant \in Grants
      BY <2>3, <1>1 DEF RequestOK, Token
    <3>2. req[r].grant = req[r].token.grant
      BY <2>3, <3>1, <1>1 DEF HandlerOK, Grants
    <3> QED BY <2>3, <3>2, <1>1, <1>2 DEF HandlerOK
  <2> QED BY <2>1, <2>2, <2>3, <1>1 DEF RequestOK
<1>4. NewRow(t) \in Row /\ NewRow(t).token = t /\ NewRow(t).expires >= t.exp
  BY <1>1, <1>2, ConstantFacts DEF NewRow, Row, Token
<1>5. /\ whitelist' \subseteq whitelist \cup {NewRow(t)}
      /\ delivered' \subseteq delivered \cup {t}
      /\ whitelist' \subseteq whitelist \/ Storable(t)
      /\ delivered' \subseteq delivered \/ Storable(t)
  BY DEF SaveToWhiteList
<1>6. faults' \in 0 .. MaxFaults
  BY FaultsOK DEF SaveToWhiteList
<1>7. /\ req' \in [Requests -> Request]
      /\ \A q \in Requests : RequestOK(req'[q])
      /\ HandlersOK'
  BY IdleOK, HandlerStep DEF SaveToWhiteList, Reply, Replies
<1>8. TypeOK'
  BY <1>2, <1>4, <1>5, <1>6, <1>7 DEF Inv, TypeOK, SaveToWhiteList
<1>9. ConsentedOnly'
  BY <1>3, <1>4, <1>5 DEF Inv, ConsentedOnly, Begun, SaveToWhiteList
<1>10. DeletedUserHoldsNoSession'
  BY <1>4, <1>5 DEF Inv, DeletedUserHoldsNoSession, Storable, SaveToWhiteList
<1>11. RowsOutliveTokens'
  BY <1>4, <1>5 DEF Inv, RowsOutliveTokens
<1>12. ClockOK'
  BY DEF Inv, ClockOK, SaveToWhiteList
<1> QED BY <1>7, <1>8, <1>9, <1>10, <1>11, <1>12 DEF Inv

LEMMA CleanExpiredTokensInv ==
    ASSUME Inv, CleanExpiredTokens
    PROVE  Inv'
<1>1. whitelist' \subseteq whitelist
  BY DEF CleanExpiredTokens
<1>2. TypeOK' /\ ClockOK' /\ HandlersOK'
  BY <1>1, FewerRows DEF Inv, TypeOK, ClockOK, HandlersOK, HandlerOK, Begun,
                         CleanExpiredTokens
<1> QED BY <1>1, <1>2, FewerRows DEF Inv, CleanExpiredTokens

LEMMA DeleteUserInv ==
    ASSUME Inv, NEW u \in Users, DeleteUser(u)
    PROVE  Inv'
<1>1. TypeOK' /\ ClockOK' /\ HandlersOK'
  BY DEF Inv, TypeOK, ClockOK, HandlersOK, HandlerOK, Begun, DeleteUser
<1>2. ConsentedOnly' /\ DeletedUserHoldsNoSession' /\ RowsOutliveTokens'
  BY DEF Inv, ConsentedOnly, Begun, DeletedUserHoldsNoSession,
         RowsOutliveTokens, DeleteUser
<1> QED BY <1>1, <1>2 DEF Inv

LEMMA CrashInv ==
    ASSUME Inv, Crash
    PROVE  Inv'
<1>1. RequestOK(Idle("none")) /\ HandlerOK(Idle("none"))
  BY IdleOK DEF Replies
<1>2. /\ req' \in [Requests -> Request]
      /\ \A q \in Requests : req'[q] = Idle("none")
  BY <1>1 DEF Crash, RequestOK
<1>3. TypeOK' /\ ClockOK'
  BY <1>1, <1>2 DEF Inv, TypeOK, ClockOK, Crash
<1>4. HandlersOK'
  BY <1>2 DEF HandlersOK, HandlerOK, Idle
<1>5. ConsentedOnly' /\ DeletedUserHoldsNoSession' /\ RowsOutliveTokens'
  BY TablesUnchanged DEF Crash
<1> QED BY <1>3, <1>4, <1>5 DEF Inv

LEMMA TickInv ==
    ASSUME Inv, Tick
    PROVE  Inv'
<1>1. TypeOK' /\ ClockOK' /\ second <= second'
  BY ConstantFacts DEF Inv, TypeOK, ClockOK, Tick
<1>2. HandlersOK'
  <2> SUFFICES ASSUME NEW q \in Requests PROVE HandlerOK(req[q])'
    BY DEF HandlersOK
  <2>1. /\ RequestOK(req[q]) /\ HandlerOK(req[q])
        /\ req' = req /\ granted' = granted
        /\ second \in Nat /\ second' \in Nat
    BY <1>1 DEF Inv, HandlersOK, TypeOK, Tick
  <2>2. req[q].due \in Nat /\ (req[q].pc = "save" => req[q].signed.exp \in Nat)
    BY <2>1 DEF RequestOK, Request, Token
  <2> QED BY <1>1, <2>1, <2>2, ConstantFacts DEF HandlerOK, Begun
<1>3. ConsentedOnly' /\ DeletedUserHoldsNoSession' /\ RowsOutliveTokens'
  BY TablesUnchanged DEF Tick
<1> QED BY <1>1, <1>2, <1>3 DEF Inv

LEMMA NextInv == Inv /\ [Next]_vars => Inv'
<1> SUFFICES ASSUME Inv, [Next]_vars PROVE Inv'
  OBVIOUS
<1>1. ASSUME NEW r \in Requests, Arrival(r) PROVE Inv'
  BY <1>1, RefuseInv, GenerateTokensInv, LoginInv, RefreshTokensInv, ValidateInv, LogoutInv
     DEF Arrival, Refuse, Call
<1>2. ASSUME NEW r \in Requests, Statement(r) PROVE Inv'
  BY <1>2, ReadUserInv, CheckWhitelistInv, RevokeTokenInv, ReadExpiryInv,
     GenerateRefreshInv, SaveToWhiteListInv DEF Statement
<1>3. CASE CleanExpiredTokens \/ Crash \/ Tick
  BY <1>3, CleanExpiredTokensInv, CrashInv, TickInv
<1>4. ASSUME NEW u \in Users, DeleteUser(u) PROVE Inv'
  BY <1>4, DeleteUserInv
<1>5. CASE UNCHANGED vars
  BY <1>5 DEF vars, Inv, TypeOK, ClockOK, HandlersOK, HandlerOK, ConsentedOnly,
              Begun, DeletedUserHoldsNoSession, RowsOutliveTokens
<1> QED BY <1>1, <1>2, <1>3, <1>4, <1>5 DEF Next

-----------------------------------------------------------------------------
(* Theorems. *)

(* The inductive invariant holds in every state of every behaviour. *)
THEOREM Invariance == Spec => []Inv
BY InitInv, NextInv, PTL DEF Spec

(* Every slot holds what the state of its handler calls for. *)
THEOREM TypeCorrect == Spec => []TypeOK
<1>1. Inv => TypeOK
  BY DEF Inv
<1> QED BY <1>1, Invariance, PTL

(* No chain of refreshes, of any length, by any clients, leads from the    *)
(* consents that codes carried to a token for anything else.               *)
THEOREM Consented == Spec => []ConsentedOnly
<1>1. Inv => ConsentedOnly
  BY DEF Inv
<1> QED BY <1>1, Invariance, PTL

(* Whatever handler races the deletion of a user, no session is left. *)
THEOREM NoSessionOfDeletedUser == Spec => []DeletedUserHoldsNoSession
<1>1. Inv => DeletedUserHoldsNoSession
  BY DEF Inv
<1> QED BY <1>1, Invariance, PTL

(* The clean-up never removes the row of a token that still verifies: the  *)
(* row was stored no earlier than its token was signed.                    *)
LEMMA SessionsLeaveStep ==
    ASSUME Inv, [Next]_vars,
           NEW row \in whitelist \ whitelist'
    PROVE  \/ \E r \in Requests : req[r].pc = "revoke" /\ req[r].token = row.token
           \/ row.token.grant.user \notin users'
           \/ ~ Verifies(row.token)
<1>1. CASE \E r \in Requests : RevokeToken(r)
  BY <1>1 DEF RevokeToken, RowsOf
<1>2. CASE CleanExpiredTokens
  <2>1. /\ row.expires < now /\ row.expires >= row.token.exp
        /\ row.expires \in Nat /\ now \in Nat /\ row.token.exp \in Nat
    BY <1>2, ConstantFacts DEF CleanExpiredTokens, Inv, RowsOutliveTokens,
                               TypeOK, Row, Token
  <2> QED BY <2>1 DEF Verifies
<1>3. CASE \E u \in Users : DeleteUser(u)
  BY <1>3 DEF DeleteUser
<1>4. CASE \/ \E r \in Requests : \/ Arrival(r) \/ ReadUser(r) \/ CheckWhitelist(r)
                                  \/ ReadExpiry(r)
                                  \/ GenerateRefresh(r) \/ SaveToWhiteList(r)
           \/ Crash \/ Tick \/ UNCHANGED vars
  <2>1. whitelist \subseteq whitelist'
    BY <1>4 DEF Arrival, Refuse, Call, GenerateTokens, Login, RefreshTokens, Validate, Logout,
                ReadUser, CheckWhitelist, ReadExpiry, GenerateRefresh,
                SaveToWhiteList, Crash, Tick, vars
  <2> QED BY <2>1
<1> QED BY <1>1, <1>2, <1>3, <1>4 DEF Next, Statement

THEOREM SessionsLeave == Spec => OnlyEndedSessionsLeave
<1>1. Inv /\ [Next]_vars =>
        [\A row \in whitelist \ whitelist' :
           \/ \E r \in Requests : req[r].pc = "revoke" /\ req[r].token = row.token
           \/ row.token.grant.user \notin users'
           \/ ~ Verifies(row.token)]_vars
  BY SessionsLeaveStep
<1> QED BY <1>1, Invariance, PTL DEF Spec, OnlyEndedSessionsLeave

(* What only GenerateRefresh and SaveToWhiteList can change: no other      *)
(* action lists a token or gives one to a handler.                         *)
LEMMA OtherStepsListNothing ==
    ASSUME Inv, [Next]_vars,
           \A r \in Requests : ~ GenerateRefresh(r) /\ ~ SaveToWhiteList(r),
           NEW t \in Token
    PROVE  /\ Listed(t)' => Listed(t)
           /\ \A r \in Requests : req'[r].signed = t => req[r].signed = t
<1>1. req \in [Requests -> Request] /\ None # t
  BY ConstantFacts DEF Inv, TypeOK
<1>2. ASSUME NEW r \in Requests, Arrival(r)
      PROVE  /\ whitelist' = whitelist
             /\ \A q \in Requests : req'[q].signed = t => req[q].signed = t
  BY <1>1, <1>2 DEF Arrival, Refuse, Call, GenerateTokens, Login, RefreshTokens, Validate,
                    Logout, Begin, Reply, Idle
<1>3. ASSUME NEW r \in Requests, ReadUser(r) \/ CheckWhitelist(r) \/ RevokeToken(r)
      PROVE  /\ whitelist' \subseteq whitelist
             /\ \A q \in Requests : req'[q].signed = t => req[q].signed = t
  <2>1. whitelist' \subseteq whitelist
    BY <1>3 DEF ReadUser, CheckWhitelist, RevokeToken, RowsOf
  <2>2. \/ \E pc \in PCs : Goto(r, pc)
        \/ \E reply \in Replies : Reply(r, reply)
    BY <1>3 DEF ReadUser, CheckWhitelist, RevokeToken, PCs, Replies
  <2>3. \A q \in Requests : req'[q].signed = t => req[q].signed = t
    BY <1>1, <2>2 DEF Goto, Reply, Idle, Request
  <2> QED BY <2>1, <2>3
<1>4. CASE CleanExpiredTokens \/ Tick \/ UNCHANGED vars \/ \E u \in Users : DeleteUser(u)
  <2>1. whitelist' \subseteq whitelist /\ req' = req
    BY <1>4 DEF CleanExpiredTokens, Tick, DeleteUser, vars
  <2> QED BY <2>1 DEF Listed
<1>6. ASSUME NEW r \in Requests, ReadExpiry(r)
      PROVE  /\ whitelist' = whitelist
             /\ \A q \in Requests : req'[q].signed = t => req[q].signed = t
  BY <1>1, <1>6 DEF ReadExpiry, Request
<1>5. CASE Crash
  BY <1>1, <1>5 DEF Crash, Idle, Listed
<1> QED BY <1>2, <1>3, <1>4, <1>5, <1>6 DEF Next, Statement, Listed

LEMMA SecondGrows ==
    ASSUME Inv, [Next]_vars
    PROVE  second <= second' /\ second' \in Nat
<1>1. second \in Nat /\ now \in Nat /\ second <= now
  BY DEF Inv, TypeOK, ClockOK
<1>2. CASE Tick
  BY <1>1, <1>2 DEF Tick
<1>3. CASE ~ Tick
  <2>1. second' = second
    BY <1>3 DEF Next, vars, Arrival, Refuse, Call, GenerateTokens, Login, RefreshTokens,
                Validate, Logout, Statement, ReadUser, CheckWhitelist,
                RevokeToken, ReadExpiry, GenerateRefresh, SaveToWhiteList,
                CleanExpiredTokens, DeleteUser, Crash
  <2> QED BY <1>1, <2>1
<1> QED BY <1>2, <1>3

LEMMA DeadStep ==
    ASSUME Inv, [Next]_vars, NEW t \in delivered, Dead(t)
    PROVE  Dead(t)'
<1>1. t \in Token /\ t.iat \in Nat /\ second \in Nat /\ now \in Nat
  BY DEF Inv, TypeOK, Token
<1>2. second <= second' /\ second' \in Nat
  BY SecondGrows
<1>3. t.iat < second'
  BY <1>1, <1>2 DEF Dead
<1>4. CASE \A r \in Requests : ~ GenerateRefresh(r) /\ ~ SaveToWhiteList(r)
  BY <1>1, <1>3, <1>4, OtherStepsListNothing DEF Dead
<1>5. ASSUME NEW r \in Requests, GenerateRefresh(r)
      PROVE  Dead(t)'
  <2>1. \A q \in Requests : req'[q].signed # t
    BY <1>1, <1>5 DEF GenerateRefresh, Signed, Dead, Inv, TypeOK, Request
  <2> QED BY <1>3, <1>5, <2>1 DEF GenerateRefresh, Dead, Listed
<1>6. ASSUME NEW r \in Requests, SaveToWhiteList(r)
      PROVE  Dead(t)'
  <2>1. whitelist' \subseteq whitelist \cup {NewRow(req[r].signed)}
    BY <1>6 DEF SaveToWhiteList
  <2>2. ~ Listed(t)'
    BY <2>1 DEF Dead, Listed, NewRow
  <2>3. \A q \in Requests : req'[q].signed # t
    BY <1>1, <1>6, ConstantFacts
       DEF SaveToWhiteList, Reply, Idle, Dead, Inv, TypeOK
  <2> QED BY <1>3, <2>2, <2>3 DEF Dead
<1> QED BY <1>4, <1>5, <1>6

(* Revocation is final once the second of the signature is over, whatever  *)
(* handlers are under way.                                                 *)
THEOREM DeadStayDead == Spec => DeadTokensStayDead
<1>1. Inv /\ [Next]_vars => [\A t \in delivered : Dead(t) => Dead(t)']_vars
  BY DeadStep
<1> QED BY <1>1, Invariance, PTL DEF Spec, DeadTokensStayDead

=============================================================================
