----------------------- MODULE AuthorizationCodesProofs -----------------------
(***************************************************************************)
(* Theorems about AuthorizationCodes: it implements TokenProvider, whose    *)
(* theorems therefore hold of it, and OneTimeCode, and every session it    *)
(* leads to was consented to.                                              *)
(***************************************************************************)
EXTENDS AuthorizationCodes, TokenRotationProofs

LEMMA CodeConstantFacts ==
    /\ None \notin Grants /\ None \notin AuthCode /\ None \notin Params
    /\ CodeTTL \in Nat
    /\ NoClient \notin Clients
    /\ Consents = [user: Users, client: Clients, scopes: Scopes]
    /\ Consents \subseteq Grants
BY ConstantFacts, CodeAssumption, EveryConsentAssumption

-----------------------------------------------------------------------------
(* The inductive invariant. *)

(* A stored row is the consent its code was stored for, and the only one. *)
StoredCodes ==
    /\ \A row \in codes : consented[row.code] = GrantOf(row)
    /\ \A row1, row2 \in codes : row1.code = row2.code => row1 = row2

(* A code that a handler is about to store is stored nowhere else. *)
PendingCodes ==
    \A s \in Consenters : consent[s].row # None =>
        /\ consented[consent[s].row.code] = None
        /\ \A t \in Consenters \ {s} : consent[t].row # None =>
             consent[t].row.code # consent[s].row.code

(* A code was redeemed for its consent, and every grant that tokens were   *)
(* generated for stands on such a code.                                    *)
RedeemedCodes ==
    /\ \A k \in CodeIds : redeemed[k] # None => redeemed[k] = consented[k]
    /\ \A g \in Consents : granted[g] > 0 => \E k \in CodeIds : redeemed[k] = g

CodesInv ==
    /\ CodesTypeOK
    /\ StoredCodes
    /\ PendingCodes
    /\ RedeemedCodes

LEMMA CodesInitInv == CodesInit => CodesInv
<1> SUFFICES ASSUME CodesInit PROVE CodesInv
  OBVIOUS
<1>1. CodesTypeOK
  BY DEF CodesInit, CodesTypeOK, HandlerTypeOK, Handler, NoHandler, Replies
<1>2. StoredCodes /\ PendingCodes
  BY DEF CodesInit, StoredCodes, PendingCodes, NoHandler
<1>3. RedeemedCodes
  BY ConstantFacts DEF CodesInit, Init, RedeemedCodes
<1> QED BY <1>1, <1>2, <1>3 DEF CodesInv

(* A step that gives one slot a handler without a row, and touches no code *)
(* and no grant.                                                           *)
LEMMA RowlessStep ==
    ASSUME CodesInv, NEW s \in Consenters, NEW h,
           consent' = [consent EXCEPT ![s] = h],
           HandlerTypeOK(h), h.row = None,
           UNCHANGED <<granted, codes, consented, redeemed, tried>>
    PROVE  CodesInv'
<1>1. \A t \in Consenters : consent'[t] = IF t = s THEN h ELSE consent[t]
  BY DEF CodesInv, CodesTypeOK
<1>2. CodesTypeOK'
  <2>1. consent' \in [Consenters -> Handler]
    BY DEF CodesInv, CodesTypeOK, HandlerTypeOK
  <2>2. \A t \in Consenters : HandlerTypeOK(consent'[t])
    BY <1>1 DEF CodesInv, CodesTypeOK
  <2> QED BY <2>1, <2>2 DEF CodesInv, CodesTypeOK
<1>3. PendingCodes'
  BY <1>1 DEF CodesInv, PendingCodes
<1>4. StoredCodes' /\ RedeemedCodes'
  BY DEF CodesInv, StoredCodes, RedeemedCodes
<1> QED BY <1>2, <1>3, <1>4 DEF CodesInv

LEMMA NoHandlerOK ==
    ASSUME NEW reply \in Replies
    PROVE  HandlerTypeOK(NoHandler(reply)) /\ NoHandler(reply).row = None
BY CodeConstantFacts DEF HandlerTypeOK, NoHandler, Handler, Replies

LEMMA AskInv ==
    ASSUME CodesInv, NEW s \in Consenters, NEW p \in Params,
           NEW op \in {"consent", "login"},
           op = "login" => p.scopes = NoScopes,
           Ask(s, op, p)
    PROVE  CodesInv'
<1> DEFINE h == [op |-> op, pc |-> "getUser", ask |-> p, row |-> None,
                 reply |-> "none"]
<1>1. HandlerTypeOK(h) /\ h.row = None
  BY CodeConstantFacts DEF HandlerTypeOK, Handler, Replies
<1>2. consent' = [consent EXCEPT ![s] = h]
  BY DEF Ask
<1> QED BY <1>1, <1>2, RowlessStep DEF Ask, vars

LEMMA AnswerInv ==
    ASSUME CodesInv, NEW s \in Consenters, NEW reply \in Replies,
           Answer(s, reply), UNCHANGED <<granted, codes, consented, redeemed, tried>>
    PROVE  CodesInv'
BY NoHandlerOK, RowlessStep DEF Answer

LEMMA GetUserInv ==
    ASSUME CodesInv, NEW s \in Consenters, GetUser(s)
    PROVE  CodesInv'
<1>1. CASE Answer(s, "error")
  BY <1>1, AnswerInv DEF GetUser, Replies, vars
<1>2. CASE consent' = [consent EXCEPT ![s].pc = "getClient"]
  <2> DEFINE h == [op |-> consent[s].op, pc |-> "getClient", ask |-> consent[s].ask,
                   row |-> consent[s].row, reply |-> consent[s].reply]
  <2>1. HandlerTypeOK(consent[s]) /\ consent[s].pc = "getUser"
    BY DEF CodesInv, CodesTypeOK, GetUser
  <2>2. HandlerTypeOK(h) /\ h.row = None
    BY <2>1 DEF HandlerTypeOK, Handler
  <2>3. consent' = [consent EXCEPT ![s] = h]
    <3>1. [consent[s] EXCEPT !.pc = "getClient"] = h
      BY <2>1 DEF HandlerTypeOK, Handler
    <3>2. consent' = [consent EXCEPT ![s] = [consent[s] EXCEPT !.pc = "getClient"]]
      BY <1>2
    <3> QED BY <3>1, <3>2
  <2> QED BY <2>2, <2>3, RowlessStep DEF GetUser, vars
<1> QED BY <1>1, <1>2 DEF GetUser

LEMMA GetClientInv ==
    ASSUME CodesInv, now \in Nat, NEW s \in Consenters, GetClient(s)
    PROVE  CodesInv'
<1>1. CASE Answer(s, "error")
  BY <1>1, AnswerInv DEF GetClient, Replies, vars
<1>2. ASSUME NEW k \in FreshCodes,
             IF consent[s].op = "consent" THEN MayConsent(consent[s].ask)
                                          ELSE consent[s].ask.client \in Clients,
             consent' = [consent EXCEPT ![s] = Holding(consent[s], NewCode(k, consent[s].ask))]
      PROVE  CodesInv'
  <2> DEFINE p == consent[s].ask
             h == Holding(consent[s], NewCode(k, p))
  <2>1. HandlerTypeOK(consent[s]) /\ consent[s].pc = "getClient"
    BY DEF CodesInv, CodesTypeOK, GetClient
  <2>2. p \in Params /\ p.client \in Clients /\ k \in CodeIds
    BY <2>1, <1>2, CodeConstantFacts
       DEF HandlerTypeOK, Handler, MayConsent, FreshCodes
  <2>3. NewCode(k, p) \in AuthCode
    BY <2>2, CodeConstantFacts DEF NewCode, AuthCode, Params
  <2>4. HandlerTypeOK(h)
    BY <2>1, <2>3, CodeConstantFacts DEF HandlerTypeOK, Handler, Holding, Replies
  <2>5. \A t \in Consenters : consent'[t] = IF t = s THEN h ELSE consent[t]
    BY <1>2 DEF CodesInv, CodesTypeOK
  <2>6. UNCHANGED <<granted, codes, consented, redeemed, tried>>
    BY DEF GetClient, vars
  <2>7. CodesTypeOK'
    <3>1. consent' \in [Consenters -> Handler]
      BY <1>2, <2>4, <2>5 DEF HandlerTypeOK, CodesInv, CodesTypeOK
    <3> QED BY <2>4, <2>5, <2>6, <3>1 DEF CodesInv, CodesTypeOK
  <2>8. PendingCodes'
    <3>1. consented[k] = None /\ h.row = NewCode(k, p) /\ NewCode(k, p).code = k
      BY <1>2 DEF FreshCodes, NewCode, Holding
    <3>2. \A t \in Consenters : consent[t].row # None => consent[t].row.code # k
      BY <1>2 DEF FreshCodes
    <3> QED BY <2>5, <2>6, <3>1, <3>2 DEF CodesInv, PendingCodes
  <2>9. StoredCodes' /\ RedeemedCodes'
    BY <2>6 DEF CodesInv, StoredCodes, RedeemedCodes
  <2> QED BY <2>7, <2>8, <2>9 DEF CodesInv
<1> QED BY <1>1, <1>2 DEF GetClient

LEMMA SaveCodeInv ==
    ASSUME CodesInv, NEW s \in Consenters, SaveCode(s)
    PROVE  CodesInv'
<1> DEFINE row == consent[s].row
<1>1. CASE UNCHANGED <<codes, consented>>
  BY <1>1, AnswerInv DEF SaveCode, Replies, vars
<1>2. ASSUME NEW reply \in {"ok", "error"}, Insert(row), Answer(s, reply)
      PROVE  CodesInv'
  <2>1. row \in AuthCode /\ row # None
    BY CodeConstantFacts DEF CodesInv, CodesTypeOK, HandlerTypeOK, Handler, SaveCode
  <2>2. /\ row.code \in CodeIds
        /\ GrantOf(row) \in Grants /\ GrantOf(row) # None
    BY <2>1, CodeConstantFacts DEF AuthCode, GrantOf, Grants
  <2>3. /\ consented[row.code] = None
        /\ \A t \in Consenters \ {s} :
             consent[t].row # None => consent[t].row.code # row.code
    BY <2>1 DEF CodesInv, PendingCodes
  <2>4. /\ codes' = codes \cup {row}
        /\ \A k \in CodeIds :
             consented'[k] = IF k = row.code THEN GrantOf(row) ELSE consented[k]
        /\ consented' \in [CodeIds -> Grants \cup {None}]
        /\ UNCHANGED <<granted, redeemed, tried>>
    BY <1>2, <2>2 DEF Insert, CodesInv, CodesTypeOK, SaveCode, vars
  <2>5. /\ HandlerTypeOK(NoHandler(reply)) /\ NoHandler(reply).row = None
        /\ \A t \in Consenters :
             consent'[t] = IF t = s THEN NoHandler(reply) ELSE consent[t]
        /\ consent' \in [Consenters -> Handler]
    <3>1. HandlerTypeOK(NoHandler(reply)) /\ NoHandler(reply).row = None
      BY NoHandlerOK DEF Replies
    <3> QED BY <1>2, <3>1 DEF Answer, CodesInv, CodesTypeOK, HandlerTypeOK
  <2>6. CodesTypeOK'
    BY <2>1, <2>4, <2>5 DEF CodesInv, CodesTypeOK
  <2>7. \A r \in codes : r.code \in CodeIds /\ r.code # row.code
    <3> SUFFICES ASSUME NEW r \in codes PROVE r.code \in CodeIds /\ r.code # row.code
      OBVIOUS
    <3>1. r \in AuthCode /\ consented[r.code] = GrantOf(r)
      BY DEF CodesInv, CodesTypeOK, StoredCodes
    <3>2. GrantOf(r) # None
      BY <3>1, CodeConstantFacts DEF AuthCode, GrantOf, Grants
    <3> QED BY <2>3, <3>1, <3>2 DEF AuthCode
  <2>8. StoredCodes'
    <3>1. \A r \in codes' : consented'[r.code] = GrantOf(r)
      BY <2>2, <2>4, <2>7 DEF CodesInv, StoredCodes
    <3>2. \A r1, r2 \in codes' : r1.code = r2.code => r1 = r2
      BY <2>4, <2>7 DEF CodesInv, StoredCodes
    <3> QED BY <3>1, <3>2 DEF StoredCodes, GrantOf
  <2>9. PendingCodes'
    <3> SUFFICES ASSUME NEW t \in Consenters, consent'[t].row # None
                 PROVE  /\ consented'[consent'[t].row.code] = None
                        /\ \A q \in Consenters \ {t} : consent'[q].row # None =>
                             consent'[q].row.code # consent'[t].row.code
      BY DEF PendingCodes
    <3>1. t # s /\ consent'[t] = consent[t] /\ consent[t].row # None
      BY <2>5
    <3>2. consent[t].row \in AuthCode
      BY <3>1 DEF CodesInv, CodesTypeOK, Handler
    <3>3. consent[t].row.code \in CodeIds /\ consent[t].row.code # row.code
      BY <2>3, <3>1, <3>2 DEF AuthCode
    <3>4. consented'[consent[t].row.code] = None
      BY <2>4, <3>1, <3>3 DEF CodesInv, PendingCodes
    <3> QED BY <2>5, <3>1, <3>4 DEF CodesInv, PendingCodes
  <2>10. RedeemedCodes'
    <3>1. \A k \in CodeIds : redeemed[k] # None => k # row.code
      BY <2>3 DEF CodesInv, RedeemedCodes
    <3> QED BY <2>4, <3>1 DEF CodesInv, RedeemedCodes
  <2> QED BY <2>6, <2>8, <2>9, <2>10 DEF CodesInv
<1> QED BY <1>1, <1>2 DEF SaveCode

(* A step that at most removes codes and grants nothing. *)
LEMMA FewerCodes ==
    ASSUME CodesInv, codes' \subseteq codes, tried' \subseteq CodeIds,
           UNCHANGED <<consent, consented, redeemed, granted>>
    PROVE  CodesInv'
<1>1. CodesTypeOK'
  BY DEF CodesInv, CodesTypeOK
<1>2. StoredCodes' /\ PendingCodes' /\ RedeemedCodes'
  BY DEF CodesInv, StoredCodes, PendingCodes, RedeemedCodes
<1> QED BY <1>1, <1>2 DEF CodesInv

(* An accepted code is redeemed for the grant it was stored for. *)
LEMMA AcceptedGrant ==
    ASSUME CodesInv, NEW row \in codes, NEW c, NEW uri, NEW v,
           Accepts(row, c, uri, v)
    PROVE  /\ row.code \in CodeIds
           /\ GrantOf(row) \in Consents /\ GrantOf(row) # None
           /\ consented[row.code] = GrantOf(row)
BY CodeConstantFacts
   DEF CodesInv, CodesTypeOK, StoredCodes, AuthCode, GrantOf, Accepts

(* An exchange that fails spends a code or finds none; one that succeeds   *)
(* redeems the code for the consent that the row holds.                    *)
LEMMA ExchangeForms ==
    ASSUME NEW r \in Requests, NEW k \in CodeIds, NEW c \in Clients,
           NEW uri \in URIs, NEW v \in Verifiers, Exchange(r, k, c, uri, v)
    PROVE  /\ UNCHANGED <<consent, consented>>
           /\ tried' \subseteq tried \cup {k}
           /\ \/ Refuse(r) /\ codes' \subseteq codes /\ UNCHANGED redeemed
              \/ \E row \in codes :
                   /\ row.code = k /\ Accepts(row, c, uri, v)
                   /\ GenerateTokens(r, GrantOf(row))
                   /\ codes' = Without(row)
                   /\ redeemed' = [redeemed EXCEPT ![k] = GrantOf(row)]
<1>1. UNCHANGED <<consent, consented>> /\ tried' \subseteq tried \cup {k}
  BY DEF Exchange
<1>2. ASSUME NEW row \in codes, row.code = k, Accepts(row, c, uri, v), Redeem(r, row, c)
      PROVE  /\ GenerateTokens(r, GrantOf(row))
             /\ codes' = Without(row)
             /\ redeemed' = [redeemed EXCEPT ![k] = GrantOf(row)]
  BY <1>2 DEF Redeem, Accepts, GrantOf
<1>3. ASSUME NEW row \in codes, Reject(r, row)
      PROVE  Refuse(r) /\ codes' \subseteq codes /\ UNCHANGED redeemed
  BY <1>3 DEF Reject, Without
<1> QED BY <1>1, <1>2, <1>3 DEF Exchange

LEMMA RedeemingFacts ==
    ASSUME NEW r \in Requests, Redeeming(r)
    PROVE  UNCHANGED <<consent, consented>> /\ codes' \subseteq codes
<1>1. PICK k \in CodeIds, c \in Clients, uri \in URIs, v \in Verifiers :
        Exchange(r, k, c, uri, v)
  BY DEF Redeeming
<1> QED BY <1>1, ExchangeForms DEF Without

LEMMA ExchangeInv ==
    ASSUME CodesInv, Inv, NEW r \in Requests, NEW k \in CodeIds,
           NEW c \in Clients, NEW uri \in URIs, NEW v \in Verifiers,
           Exchange(r, k, c, uri, v)
    PROVE  CodesInv'
<1>1. CASE Refuse(r) /\ codes' \subseteq codes /\ UNCHANGED redeemed
  <2>1. UNCHANGED granted /\ tried' \subseteq CodeIds
    BY <1>1, ExchangeForms DEF Refuse, CodesInv, CodesTypeOK
  <2> QED BY <1>1, <2>1, ExchangeForms, FewerCodes
<1>2. ASSUME NEW row \in codes, row.code = k, Accepts(row, c, uri, v),
             codes' = Without(row),
             redeemed' = [redeemed EXCEPT ![k] = GrantOf(row)],
             GenerateTokens(r, GrantOf(row)),
             UNCHANGED <<consent, consented>>
      PROVE  CodesInv'
  <2>1. /\ GrantOf(row) \in Consents /\ GrantOf(row) # None
        /\ consented[k] = GrantOf(row)
    BY <1>2, AcceptedGrant
  <2>2. /\ \A j \in CodeIds :
             redeemed'[j] = IF j = k THEN GrantOf(row) ELSE redeemed[j]
        /\ redeemed' \in [CodeIds -> Grants \cup {None}]
    BY <1>2, <2>1, CodeConstantFacts DEF CodesInv, CodesTypeOK
  <2>3. \A g \in Consents : granted'[g] > 0 => granted[g] > 0 \/ g = GrantOf(row)
    BY <1>2, <2>1 DEF GenerateTokens, Inv, TypeOK
  <2>4. codes' \subseteq codes
    BY <1>2 DEF Without
  <2>5. CodesTypeOK'
    BY <1>2, <2>2, <2>4, ExchangeForms DEF CodesInv, CodesTypeOK
  <2>6. StoredCodes' /\ PendingCodes'
    BY <1>2, <2>4 DEF CodesInv, StoredCodes, PendingCodes
  <2>7. RedeemedCodes'
    <3>1. \A j \in CodeIds : redeemed'[j] # None => redeemed'[j] = consented'[j]
      BY <1>2, <2>1, <2>2 DEF CodesInv, RedeemedCodes
    <3>2. ASSUME NEW g \in Consents, granted'[g] > 0
          PROVE  \E j \in CodeIds : redeemed'[j] = g
      <4>1. CASE g = GrantOf(row)
        BY <4>1, <2>2
      <4>2. CASE g # GrantOf(row)
        <5>1. PICK j \in CodeIds : redeemed[j] = g
          BY <2>3, <3>2, <4>2 DEF CodesInv, RedeemedCodes
        <5>2. j # k
          BY <4>2, <5>1, <2>1, CodeConstantFacts DEF CodesInv, RedeemedCodes
        <5> QED BY <5>1, <5>2, <2>2
      <4> QED BY <4>1, <4>2
    <3> QED BY <3>1, <3>2 DEF RedeemedCodes
  <2> QED BY <2>5, <2>6, <2>7 DEF CodesInv
<1> QED BY <1>1, <1>2, ExchangeForms

LEMMA CrashAllInv ==
    ASSUME CodesInv, CrashAll
    PROVE  CodesInv'
<1>1. /\ HandlerTypeOK(NoHandler("none")) /\ NoHandler("none").row = None
      /\ consent' = [s \in Consenters |-> NoHandler("none")]
      /\ UNCHANGED <<granted, codes, consented, redeemed, tried>>
  BY NoHandlerOK DEF CrashAll, Crash, Replies
<1>2. CodesTypeOK'
  BY <1>1 DEF CodesInv, CodesTypeOK, HandlerTypeOK
<1>3. StoredCodes' /\ PendingCodes' /\ RedeemedCodes'
  BY <1>1 DEF CodesInv, StoredCodes, PendingCodes, RedeemedCodes
<1> QED BY <1>2, <1>3 DEF CodesInv

LEMMA CodesNextInv ==
    ASSUME CodesInv, Inv, [CodesNext]_allVars
    PROVE  CodesInv'
<1>1. ASSUME NEW s \in Consenters, Storing(s)
      PROVE  CodesInv'
  <2>1. now \in Nat
    BY DEF Inv, TypeOK
  <2>2. ASSUME NEW p \in Params, ConsentPOST(s, p) \/ GenerateAuthorizationCode(s, p)
        PROVE  CodesInv'
    BY <2>2, AskInv DEF ConsentPOST, GenerateAuthorizationCode
  <2> QED BY <1>1, <2>1, <2>2, GetUserInv, GetClientInv, SaveCodeInv DEF Storing
<1>2. ASSUME NEW r \in Requests, Redeeming(r)
      PROVE  CodesInv'
  BY <1>2, ExchangeInv DEF Redeeming
<1>3. ASSUME NEW r \in Requests, Refuse(r) \/ Call(r) \/ Statement(r),
             UNCHANGED codeVars
      PROVE  CodesInv'
  <2>1. UNCHANGED granted
    BY <1>3 DEF Refuse, Call, Login, RefreshTokens, Validate, Logout, Statement,
                ReadUser, CheckWhitelist, RevokeToken, ReadExpiry, GenerateRefresh,
                SaveToWhiteList
  <2> QED BY <1>3, <2>1, FewerCodes DEF codeVars, CodesInv, CodesTypeOK
<1>4. CASE (CleanExpiredTokens \/ Tick) /\ UNCHANGED codeVars
  BY <1>4, FewerCodes DEF CleanExpiredTokens, Tick, codeVars, CodesInv, CodesTypeOK
<1>5. ASSUME NEW u \in Users, DeleteUserAndCodes(u)
      PROVE  CodesInv'
  BY <1>5, FewerCodes DEF DeleteUserAndCodes, DeleteUser, CodesInv, CodesTypeOK
<1>6. CASE CrashAll
  BY <1>6, CrashAllInv
<1>7. CASE UNCHANGED allVars
  BY <1>7, FewerCodes DEF allVars, vars, codeVars, CodesInv, CodesTypeOK
<1> QED BY <1>1, <1>2, <1>3, <1>4, <1>5, <1>6, <1>7 DEF CodesNext

-----------------------------------------------------------------------------
(* Every step of the whole is a step of the token provider, or none. *)

LEMMA StepRefines ==
    ASSUME CodesTypeOK, [CodesNext]_allVars
    PROVE  [Next]_vars
<1>1. ASSUME NEW s \in Consenters, Storing(s)
      PROVE  UNCHANGED vars
  BY <1>1 DEF Storing, ConsentPOST, GenerateAuthorizationCode, Ask, GetUser,
              GetClient, SaveCode
<1>2. ASSUME NEW r \in Requests, Redeeming(r)
      PROVE  Next
  <2>1. PICK k \in CodeIds, c \in Clients, uri \in URIs, v \in Verifiers :
          Exchange(r, k, c, uri, v)
    BY <1>2 DEF Redeeming
  <2>2. CASE Refuse(r)
    BY <2>2 DEF Next, Arrival
  <2>3. ASSUME NEW row \in codes,
               GenerateTokens(r, GrantOf(row))
        PROVE  Next
    <3>1. GrantOf(row) \in Consents
      BY <2>3, CodeConstantFacts DEF CodesTypeOK, AuthCode, GrantOf
    <3> QED BY <2>3, <3>1 DEF Next, Arrival
  <2> QED BY <2>1, <2>2, <2>3, ExchangeForms
<1>3. ASSUME NEW r \in Requests, Refuse(r) \/ Call(r) \/ Statement(r)
      PROVE  Next
  BY <1>3 DEF Next, Arrival
<1>4. CASE CleanExpiredTokens \/ Tick \/ CrashAll
  BY <1>4 DEF Next, CrashAll
<1>5. ASSUME NEW u \in Users, DeleteUserAndCodes(u)
      PROVE  Next
  BY <1>5 DEF Next, DeleteUserAndCodes
<1>6. CASE UNCHANGED allVars
  BY <1>6 DEF allVars
<1> QED BY <1>1, <1>2, <1>3, <1>4, <1>5, <1>6 DEF CodesNext

-----------------------------------------------------------------------------
(* Theorems. *)

(* Both inductive invariants hold together: that of the codes needs the    *)
(* types of the provider's variables, and the steps are the provider's     *)
(* only as long as the codes are well-formed.                              *)
THEOREM CodesInvariance == CodesSpec => [](Inv /\ CodesInv)
<1>1. CodesInit => Inv /\ CodesInv
  BY InitInv, CodesInitInv DEF CodesInit
<1>2. Inv /\ CodesInv /\ [CodesNext]_allVars => Inv' /\ CodesInv'
  <2> SUFFICES ASSUME Inv, CodesInv, [CodesNext]_allVars PROVE Inv' /\ CodesInv'
    OBVIOUS
  <2>1. [Next]_vars
    BY StepRefines DEF CodesInv
  <2> QED BY <2>1, NextInv, CodesNextInv
<1> QED BY <1>1, <1>2, PTL DEF CodesSpec

(* The flow with its codes implements the token provider: every theorem    *)
(* about TokenProvider's Spec is one about CodesSpec.                      *)
THEOREM RefinesTokenProvider == CodesSpec => Spec
<1>1. CodesInit => Init
  BY DEF CodesInit
<1>2. CodesInv /\ [CodesNext]_allVars => [Next]_vars
  BY StepRefines DEF CodesInv
<1> QED BY <1>1, <1>2, CodesInvariance, PTL DEF CodesSpec, Spec

(* So revocation stays final whatever codes are stored and redeemed. *)
THEOREM CodesKeepRevocation == CodesSpec => DeadTokensStayDead
BY RefinesTokenProvider, DeadStayDead

(* Every session stands on a redeemed code that was stored for it. *)
THEOREM SessionsConsented == CodesSpec => []EverySessionWasConsented
<1>1. Inv /\ CodesInv => EverySessionWasConsented
  <2> SUFFICES ASSUME Inv, CodesInv, NEW row \in whitelist
               PROVE  \E k \in CodeIds : /\ redeemed[k] = row.token.grant
                                        /\ consented[k] = row.token.grant
    BY DEF EverySessionWasConsented
  <2>1. row.token.grant \in Consents /\ granted[row.token.grant] > 0
    BY DEF Inv, ConsentedOnly, Begun
  <2>2. PICK k \in CodeIds : redeemed[k] = row.token.grant
    BY <2>1 DEF CodesInv, RedeemedCodes
  <2>3. redeemed[k] # None
    BY <2>1, <2>2, CodeConstantFacts
  <2> QED BY <2>2, <2>3 DEF CodesInv, RedeemedCodes
<1> QED BY <1>1, CodesInvariance, PTL

(* The flow implements OneTimeCode: a code is redeemed at most once, and   *)
(* for the consent it was stored for.                                      *)
LEMMA OneTimeStep ==
    ASSUME CodesInv, [CodesNext]_allVars
    PROVE  [OTC!Next]_(OTC!vars)
<1> DEFINE opened == {row.code : row \in codes}
<1>1. CASE UNCHANGED <<codes, consented, redeemed>>
  BY <1>1 DEF OTC!vars
<1>2. ASSUME NEW s \in Consenters, SaveCode(s), Insert(consent[s].row)
      PROVE  OTC!Next
  <2> DEFINE row == consent[s].row
  <2>1. row \in AuthCode /\ row # None
    BY <1>2, CodeConstantFacts
       DEF CodesInv, CodesTypeOK, HandlerTypeOK, Handler, SaveCode
  <2>2. row.code \in CodeIds /\ GrantOf(row) \in Grants /\ consented[row.code] = None
    BY <2>1, CodeConstantFacts
       DEF AuthCode, GrantOf, Grants, CodesInv, PendingCodes
  <2>3. /\ opened' = opened \cup {row.code}
        /\ consented' = [consented EXCEPT ![row.code] = GrantOf(row)]
        /\ redeemed' = redeemed
    BY <1>2 DEF Insert, SaveCode
  <2>4. PICK k \in CodeIds, g \in Grants : k = row.code /\ g = GrantOf(row)
    BY <2>2
  <2>5. OTC!Issue(k, g)
    BY <2>2, <2>3, <2>4 DEF OTC!Issue
  <2> QED BY <2>5 DEF OTC!Next
<1>3. ASSUME codes' \subseteq codes, UNCHANGED <<consented, redeemed>>
      PROVE  [OTC!Next]_(OTC!vars)
  <2> DEFINE S == opened \ opened'
  <2>1. opened' \subseteq opened
    BY <1>3
  <2>2. CASE S = {}
    BY <1>3, <2>1, <2>2 DEF OTC!vars
  <2>3. CASE S # {}
    <3>1. PICK T \in SUBSET opened : T # {} /\ opened' = opened \ T
      BY <2>1, <2>3
    <3>2. OTC!Close(T)
      BY <1>3, <3>1 DEF OTC!Close
    <3> QED BY <3>2 DEF OTC!Next
  <2> QED BY <2>2, <2>3
<1>4. ASSUME NEW r \in Requests, NEW k \in CodeIds, NEW c \in Clients,
             NEW uri \in URIs, NEW v \in Verifiers, NEW row \in codes,
             row.code = k, Accepts(row, c, uri, v), codes' = Without(row),
             redeemed' = [redeemed EXCEPT ![k] = GrantOf(row)],
             UNCHANGED consented
      PROVE  OTC!Next
  <2>1. GrantOf(row) = consented[k] /\ k \in opened
    BY <1>4, AcceptedGrant
  <2>2. opened' = opened \ {k}
    BY <1>4 DEF Without, CodesInv, StoredCodes
  <2>3. OTC!Redeem(k)
    BY <1>4, <2>1, <2>2 DEF OTC!Redeem
  <2> QED BY <2>3 DEF OTC!Next
<1>5. ASSUME NEW s \in Consenters, Storing(s)
      PROVE  [OTC!Next]_(OTC!vars)
  BY <1>1, <1>2, <1>5 DEF Storing, ConsentPOST, GenerateAuthorizationCode, Ask,
                          GetUser, GetClient, SaveCode
<1>6. ASSUME NEW r \in Requests, Redeeming(r)
      PROVE  [OTC!Next]_(OTC!vars)
  BY <1>3, <1>4, <1>6, ExchangeForms DEF Redeeming
<1>7. ASSUME NEW u \in Users, DeleteUserAndCodes(u)
      PROVE  [OTC!Next]_(OTC!vars)
  BY <1>3, <1>7 DEF DeleteUserAndCodes
<1>8. CASE UNCHANGED codeVars \/ CrashAll \/ UNCHANGED allVars
  BY <1>1, <1>8 DEF codeVars, CrashAll, allVars
<1> QED BY <1>5, <1>6, <1>7, <1>8 DEF CodesNext

THEOREM OneTimeCodes == CodesSpec => CodesAreOneTime
<1>1. CodesInit => OTC!Init
  BY DEF CodesInit, OTC!Init
<1>2. CodesInv /\ [CodesNext]_allVars => [OTC!Next]_(OTC!vars)
  BY OneTimeStep
<1> QED BY <1>1, <1>2, CodesInvariance, PTL DEF CodesSpec, CodesAreOneTime, OTC!Spec

(* The tables, slots and histories have their types. *)
THEOREM CodesTypeCorrect == CodesSpec => []CodesTypeOK
<1>1. CodesInv => CodesTypeOK
  BY DEF CodesInv
<1> QED BY <1>1, CodesInvariance, PTL

-----------------------------------------------------------------------------
(* One exchange for each code. *)

(* A code that is stored has not been redeemed. *)
StoredUnredeemed == \A row \in codes : redeemed[row.code] = None

RedeemedFor(g) == {k \in CodeIds : redeemed[k] = g}

LEMMA UnredeemedStep ==
    ASSUME CodesInv, StoredUnredeemed, [CodesNext]_allVars
    PROVE  StoredUnredeemed'
<1>1. CASE codes' \subseteq codes /\ UNCHANGED redeemed
  BY <1>1 DEF StoredUnredeemed
<1>2. ASSUME NEW s \in Consenters, SaveCode(s)
      PROVE  StoredUnredeemed'
  <2> DEFINE row == consent[s].row
  <2>1. /\ codes' \subseteq codes \cup {row} /\ UNCHANGED redeemed
        /\ row # None /\ row \in AuthCode
    BY <1>2 DEF SaveCode, Insert, CodesInv, CodesTypeOK, HandlerTypeOK, Handler
  <2>2. row.code \in CodeIds /\ consented[row.code] = None
    BY <2>1 DEF AuthCode, CodesInv, PendingCodes
  <2>3. redeemed[row.code] = None
    BY <2>2 DEF CodesInv, RedeemedCodes
  <2> QED BY <2>1, <2>3 DEF StoredUnredeemed
<1>3. ASSUME NEW r \in Requests, Redeeming(r)
      PROVE  StoredUnredeemed'
  <2>1. PICK k \in CodeIds, c \in Clients, uri \in URIs, v \in Verifiers :
          Exchange(r, k, c, uri, v)
    BY <1>3 DEF Redeeming
  <2>2. CASE codes' \subseteq codes /\ UNCHANGED redeemed
    BY <1>1, <2>2
  <2>3. ASSUME NEW row \in codes, row.code = k, codes' = Without(row), NEW g,
               redeemed' = [redeemed EXCEPT ![k] = g]
        PROVE  StoredUnredeemed'
    <3>1. \A other \in codes' : other \in codes /\ other.code # k
      BY <2>3 DEF Without, CodesInv, StoredCodes
    <3> QED BY <2>3, <3>1 DEF StoredUnredeemed
  <2> QED BY <2>1, <2>2, <2>3, ExchangeForms
<1>4. ASSUME NEW s \in Consenters, Storing(s), ~ SaveCode(s)
      PROVE  StoredUnredeemed'
  BY <1>1, <1>4 DEF Storing, ConsentPOST, GenerateAuthorizationCode, Ask, GetUser, GetClient
<1>5. ASSUME NEW u \in Users, DeleteUserAndCodes(u)
      PROVE  StoredUnredeemed'
  BY <1>1, <1>5 DEF DeleteUserAndCodes
<1>6. CASE UNCHANGED codeVars \/ CrashAll \/ UNCHANGED allVars
  BY <1>1, <1>6 DEF codeVars, CrashAll, allVars
<1> QED BY <1>2, <1>3, <1>4, <1>5, <1>6 DEF CodesNext

LEMMA OneExchangeStep ==
    ASSUME IsFiniteSet(CodeIds), Inv, CodesInv, StoredUnredeemed, OneExchangePerCode,
           [CodesNext]_allVars
    PROVE  OneExchangePerCode'
<1>1. CASE UNCHANGED <<granted, redeemed>>
  BY <1>1 DEF OneExchangePerCode
<1>2. ASSUME NEW r \in Requests, NEW k \in CodeIds, NEW row \in codes, row.code = k,
             NEW g \in Consents, GenerateTokens(r, g),
             redeemed' = [redeemed EXCEPT ![k] = g]
      PROVE  OneExchangePerCode'
  <2>1. /\ redeemed[k] = None /\ g # None
        /\ \A j \in CodeIds : redeemed'[j] = IF j = k THEN g ELSE redeemed[j]
        /\ \A h \in Consents : h # None
    BY <1>2, CodeConstantFacts DEF StoredUnredeemed, CodesInv, CodesTypeOK
  <2>2. \A h \in Consents :
          granted'[h] = IF h = g THEN granted[h] + 1 ELSE granted[h]
    BY <1>2 DEF GenerateTokens, Inv, TypeOK
  <2>3. ASSUME NEW h \in Consents
        PROVE  granted'[h] = Cardinality(RedeemedFor(h)')
    <3>1. IsFiniteSet(RedeemedFor(h)) /\ granted[h] = Cardinality(RedeemedFor(h))
      BY FS_Subset DEF RedeemedFor, OneExchangePerCode
    <3>2. CASE h = g
      <4>1. RedeemedFor(h)' = RedeemedFor(h) \cup {k} /\ k \notin RedeemedFor(h)
        BY <2>1, <3>2 DEF RedeemedFor
      <4> QED BY <2>2, <3>1, <3>2, <4>1, FS_AddElement
    <3>3. CASE h # g
      <4>1. RedeemedFor(h)' = RedeemedFor(h)
        BY <2>1, <3>3 DEF RedeemedFor
      <4> QED BY <2>2, <3>1, <3>3, <4>1
    <3> QED BY <3>2, <3>3
  <2> QED BY <2>3 DEF OneExchangePerCode, RedeemedFor
<1>3. ASSUME NEW s \in Consenters, Storing(s)
      PROVE  OneExchangePerCode'
  BY <1>1, <1>3 DEF Storing, ConsentPOST, GenerateAuthorizationCode, Ask, GetUser,
                    GetClient, SaveCode, vars
<1>4. ASSUME NEW r \in Requests, Redeeming(r)
      PROVE  OneExchangePerCode'
  <2>1. PICK k \in CodeIds, c \in Clients, uri \in URIs, v \in Verifiers :
          Exchange(r, k, c, uri, v)
    BY <1>4 DEF Redeeming
  <2>2. CASE Refuse(r) /\ UNCHANGED redeemed
    BY <1>1, <2>2 DEF Refuse
  <2>3. ASSUME NEW row \in codes, row.code = k,
               GenerateTokens(r, GrantOf(row)),
               redeemed' = [redeemed EXCEPT ![k] = GrantOf(row)]
        PROVE  OneExchangePerCode'
    <3>1. GrantOf(row) \in Consents
      BY CodeConstantFacts DEF CodesInv, CodesTypeOK, AuthCode, GrantOf
    <3> QED BY <1>2, <2>3, <3>1
  <2> QED BY <2>1, <2>2, <2>3, ExchangeForms
<1>5. ASSUME NEW r \in Requests, Refuse(r) \/ Call(r) \/ Statement(r), UNCHANGED codeVars
      PROVE  OneExchangePerCode'
  <2>1. UNCHANGED granted
    BY <1>5 DEF Refuse, Call, Login, RefreshTokens, Validate, Logout, Statement,
                ReadUser, CheckWhitelist, RevokeToken, ReadExpiry, GenerateRefresh,
                SaveToWhiteList
  <2> QED BY <1>1, <1>5, <2>1 DEF codeVars
<1>6. CASE (CleanExpiredTokens \/ Tick) /\ UNCHANGED codeVars
  BY <1>1, <1>6 DEF CleanExpiredTokens, Tick, codeVars
<1>7. ASSUME NEW u \in Users, DeleteUserAndCodes(u)
      PROVE  OneExchangePerCode'
  BY <1>1, <1>7 DEF DeleteUserAndCodes, DeleteUser
<1>8. CASE CrashAll
  BY <1>1, <1>8 DEF CrashAll, Crash
<1>9. CASE UNCHANGED allVars
  BY <1>1, <1>9 DEF allVars, vars, codeVars
<1> QED BY <1>3, <1>4, <1>5, <1>6, <1>7, <1>8, <1>9 DEF CodesNext

(* No two exchanges stand on one code: as many exchanges have been begun   *)
(* for a grant as codes were redeemed for it, for any finite number of     *)
(* codes and any number of handlers that race.                             *)
THEOREM OneExchange ==
    ASSUME IsFiniteSet(CodeIds)
    PROVE  CodesSpec => []OneExchangePerCode
<1>1. CodesInit => StoredUnredeemed /\ OneExchangePerCode
  <2> SUFFICES ASSUME CodesInit PROVE StoredUnredeemed /\ OneExchangePerCode
    OBVIOUS
  <2>1. \A g \in Consents : granted[g] = 0 /\ {k \in CodeIds : redeemed[k] = g} = {}
    BY CodeConstantFacts DEF CodesInit, Init
  <2>2. StoredUnredeemed
    BY DEF CodesInit, StoredUnredeemed
  <2> QED BY <2>1, <2>2, FS_EmptySet DEF OneExchangePerCode
<1>2. Inv /\ CodesInv /\ StoredUnredeemed /\ OneExchangePerCode /\ [CodesNext]_allVars
        => StoredUnredeemed' /\ OneExchangePerCode'
  BY UnredeemedStep, OneExchangeStep
<1> QED BY <1>1, <1>2, CodesInvariance, PTL DEF CodesSpec

-----------------------------------------------------------------------------
(* One attempt for each code. *)

(* The inductive invariant: a code that an exchange has taken was stored    *)
(* before, and is not stored now.                                          *)
TriedSpent ==
    \A k \in tried : consented[k] # None /\ \A row \in codes : row.code # k

(* A code is tried in the very step that deletes its row. *)
LEMMA ExchangeTries ==
    ASSUME NEW r \in Requests, NEW k \in CodeIds, NEW c \in Clients,
           NEW uri \in URIs, NEW v \in Verifiers, Exchange(r, k, c, uri, v)
    PROVE  \/ tried' = tried /\ UNCHANGED <<codes, redeemed>>
           \/ /\ tried' = tried \cup {k}
              /\ \E row \in codes : row.code = k /\ codes' = Without(row)
<1>1. ASSUME NEW row \in codes, Redeem(r, row, c) \/ Reject(r, row)
      PROVE  codes' = Without(row)
  BY <1>1 DEF Redeem, Reject
<1> QED BY <1>1 DEF Exchange

LEMMA TriedStep ==
    ASSUME CodesInv, TriedSpent, [CodesNext]_allVars
    PROVE  /\ TriedSpent'
           /\ \A k \in tried : redeemed'[k] = redeemed[k]
<1>1. CASE codes' \subseteq codes /\ UNCHANGED <<consented, redeemed, tried>>
  BY <1>1 DEF TriedSpent
<1>2. ASSUME NEW s \in Consenters, SaveCode(s), Insert(consent[s].row)
      PROVE  /\ TriedSpent'
             /\ \A k \in tried : redeemed'[k] = redeemed[k]
  <2> DEFINE row == consent[s].row
  <2>1. row # None /\ row \in AuthCode
    BY <1>2 DEF SaveCode, CodesInv, CodesTypeOK, HandlerTypeOK, Handler
  <2>2. row.code \in CodeIds /\ consented[row.code] = None
    BY <2>1 DEF AuthCode, CodesInv, PendingCodes
  <2>3. /\ codes' = codes \cup {row} /\ UNCHANGED <<redeemed, tried>>
        /\ \A k \in CodeIds \ {row.code} : consented'[k] = consented[k]
    BY <1>2 DEF SaveCode, Insert, CodesInv, CodesTypeOK
  <2>4. \A k \in tried : k \in CodeIds /\ k # row.code
    BY <2>2 DEF TriedSpent, CodesInv, CodesTypeOK
  <2> QED BY <2>3, <2>4 DEF TriedSpent
<1>3. ASSUME NEW r \in Requests, NEW k \in CodeIds, NEW c \in Clients,
             NEW uri \in URIs, NEW v \in Verifiers, Exchange(r, k, c, uri, v)
      PROVE  /\ TriedSpent'
             /\ \A j \in tried : redeemed'[j] = redeemed[j]
  <2>1. UNCHANGED consented
    BY <1>3, ExchangeForms
  <2>2. ASSUME NEW row \in codes, row.code = k, codes' = Without(row),
               tried' = tried \cup {k}
        PROVE  /\ TriedSpent'
               /\ \A j \in tried : redeemed'[j] = redeemed[j]
    <3>1. k \notin tried
      BY <2>2 DEF TriedSpent
    <3>2. consented[k] # None
      <4>1. row \in AuthCode /\ consented[k] = GrantOf(row)
        BY <2>2 DEF CodesInv, CodesTypeOK, StoredCodes
      <4>2. GrantOf(row) \in Grants
        BY <4>1, CodeConstantFacts DEF AuthCode, GrantOf
      <4> QED BY <4>1, <4>2, CodeConstantFacts
    <3>3. codes' \subseteq codes /\ \A other \in codes' : other.code # k
      BY <2>2 DEF Without, CodesInv, StoredCodes
    <3>4. \A j \in CodeIds \ {k} : redeemed'[j] = redeemed[j]
      <4>1. CASE redeemed' = redeemed
        BY <4>1
      <4>2. ASSUME NEW g, redeemed' = [redeemed EXCEPT ![k] = g]
            PROVE  \A j \in CodeIds \ {k} : redeemed'[j] = redeemed[j]
        BY <4>2 DEF CodesInv, CodesTypeOK
      <4> QED BY <1>3, <4>1, <4>2, ExchangeForms
    <3>5. TriedSpent'
      BY <2>1, <2>2, <3>2, <3>3 DEF TriedSpent
    <3> QED BY <3>1, <3>4, <3>5 DEF CodesInv, CodesTypeOK
  <2>3. CASE tried' = tried /\ UNCHANGED <<codes, redeemed>>
    BY <1>1, <2>1, <2>3
  <2> QED BY <1>3, <2>2, <2>3, ExchangeTries
<1>4. ASSUME NEW s \in Consenters, Storing(s), ~ Insert(consent[s].row)
      PROVE  codes' \subseteq codes /\ UNCHANGED <<consented, redeemed, tried>>
  BY <1>4 DEF Storing, ConsentPOST, GenerateAuthorizationCode, Ask, GetUser,
              GetClient, SaveCode
<1>5. ASSUME NEW s \in Consenters, Storing(s), ~ SaveCode(s)
      PROVE  codes' \subseteq codes /\ UNCHANGED <<consented, redeemed, tried>>
  BY <1>5 DEF Storing, ConsentPOST, GenerateAuthorizationCode, Ask, GetUser, GetClient
<1>6. ASSUME NEW u \in Users, DeleteUserAndCodes(u)
      PROVE  codes' \subseteq codes /\ UNCHANGED <<consented, redeemed, tried>>
  BY <1>6 DEF DeleteUserAndCodes
<1>7. CASE UNCHANGED codeVars \/ CrashAll \/ UNCHANGED allVars
  BY <1>1, <1>7 DEF codeVars, CrashAll, allVars
<1> QED BY <1>1, <1>2, <1>3, <1>4, <1>5, <1>6, <1>7 DEF CodesNext, Redeeming

(* An exchange spends the code it takes, whether it succeeds or not: no     *)
(* second exchange, at once or later, gets tokens for it.                  *)
THEOREM OneAttempt == CodesSpec => OneAttemptPerCode
<1>1. CodesInit => TriedSpent
  BY DEF CodesInit, TriedSpent
<1>2. CodesInv /\ TriedSpent /\ [CodesNext]_allVars => TriedSpent'
  BY TriedStep
<1>3. CodesInv /\ TriedSpent /\ [CodesNext]_allVars =>
        [\A k \in tried : redeemed'[k] = redeemed[k]]_allVars
  BY TriedStep
<1> QED BY <1>1, <1>2, <1>3, CodesInvariance, PTL DEF CodesSpec, OneAttemptPerCode

-----------------------------------------------------------------------------
(* What the theorems about rotation say of the codes. *)

LEMMA OnlyExchangesGrant ==
    ASSUME [CodesNext]_allVars
    PROVE  granted' = granted \/ \E r \in Requests : Redeeming(r)
<1>1. ASSUME NEW s \in Consenters, Storing(s) PROVE granted' = granted
  BY <1>1 DEF Storing, ConsentPOST, GenerateAuthorizationCode, Ask, GetUser,
              GetClient, SaveCode, vars
<1>2. ASSUME NEW r \in Requests, Refuse(r) \/ Call(r) \/ Statement(r)
      PROVE  granted' = granted
  BY <1>2 DEF Refuse, Call, Login, RefreshTokens, Validate, Logout, Statement,
              ReadUser, CheckWhitelist, RevokeToken, ReadExpiry, GenerateRefresh,
                SaveToWhiteList
<1>3. CASE CleanExpiredTokens \/ Tick \/ CrashAll \/ UNCHANGED allVars
           \/ \E u \in Users : DeleteUserAndCodes(u)
  BY <1>3 DEF CleanExpiredTokens, Tick, CrashAll, Crash, allVars, vars,
              DeleteUserAndCodes, DeleteUser
<1> QED BY <1>1, <1>2, <1>3 DEF CodesNext

LEMMA RevivalStep ==
    ASSUME Inv, CodesInv, StoredUnredeemed, [CodesNext]_allVars,
           NEW g \in Consents, Ended(g), ~ Ended(g)'
    PROVE  \E k \in CodeIds :
             consented[k] = g /\ redeemed[k] = None /\ redeemed'[k] = g
<1>1. granted'[g] # granted[g] /\ granted \in [Consents -> 0 .. MaxGrants]
  BY StepRefines, EndedStep DEF CodesInv, Inv, TypeOK
<1>2. PICK r \in Requests, k \in CodeIds, c \in Clients, uri \in URIs, v \in Verifiers :
        Exchange(r, k, c, uri, v)
  BY <1>1, OnlyExchangesGrant DEF Redeeming
<1>3. PICK row \in codes :
        /\ row.code = k /\ Accepts(row, c, uri, v) /\ GenerateTokens(r, GrantOf(row))
        /\ redeemed' = [redeemed EXCEPT ![k] = GrantOf(row)]
  BY <1>1, <1>2, ExchangeForms DEF Refuse
<1>4. GrantOf(row) = g
  BY <1>1, <1>3, AcceptedGrant DEF GenerateTokens
<1>5. redeemed[k] = None /\ consented[k] = g
  BY <1>3, <1>4 DEF StoredUnredeemed, CodesInv, StoredCodes
<1>6. redeemed'[k] = g
  BY <1>3, <1>4 DEF CodesInv, CodesTypeOK
<1> QED BY <1>5, <1>6

(* A grant that has ended comes back only with the redemption of a code    *)
(* that the user consented to anew and that nobody had redeemed: not by a  *)
(* refresh, a race, a failing statement or a restart.                      *)
THEOREM RevivalTakesConsent ==
    CodesSpec => [][\A g \in Consents : Ended(g) /\ ~ Ended(g)'
                      => \E k \in CodeIds : /\ consented[k] = g
                                            /\ redeemed[k] = None
                                            /\ redeemed'[k] = g]_allVars
<1>1. CodesInit => StoredUnredeemed
  BY DEF CodesInit, StoredUnredeemed
<1>2. CodesInv /\ StoredUnredeemed /\ [CodesNext]_allVars => StoredUnredeemed'
  BY UnredeemedStep
<1>3. Inv /\ CodesInv /\ StoredUnredeemed /\ [CodesNext]_allVars =>
        [\A g \in Consents : Ended(g) /\ ~ Ended(g)'
           => \E k \in CodeIds : /\ consented[k] = g
                                 /\ redeemed[k] = None
                                 /\ redeemed'[k] = g]_allVars
  BY RevivalStep
<1> QED BY <1>1, <1>2, <1>3, CodesInvariance, PTL DEF CodesSpec

(* From the consent page to the whitelist: a grant never has more live     *)
(* sessions than codes that were redeemed for it, if the two gaps of        *)
(* RefreshToken are closed.                                                *)
THEOREM OneSessionPerCode ==
    ASSUME IsFiniteSet(CodeIds)
    PROVE  CodesSpec /\ []Interlocked /\ RevocationsTakeEffect =>
             [](\A g \in Consents :
                  Cardinality(SessionsOf(g)) <= Cardinality(RedeemedFor(g)))
<1>1. SessionsNotMultiplied /\ OneExchangePerCode =>
        \A g \in Consents : Cardinality(SessionsOf(g)) <= Cardinality(RedeemedFor(g))
  BY DEF SessionsNotMultiplied, OneExchangePerCode, RedeemedFor
<1> QED BY <1>1, RefinesTokenProvider, RotationKept, OneExchange, PTL

-----------------------------------------------------------------------------
(* The consent page as the source stands. *)

(* GetClientByID does not read the column that the scope check needs. *)
Unread == "allowed_scopes" \notin Selected

(* The forms in which a step changes the slot of a handler that stores codes. *)
LEMMA ConsentForms ==
    ASSUME CodesInv, [CodesNext]_allVars, NEW s \in Consenters, consent'[s] # consent[s]
    PROVE  \/ /\ \E p \in Params : ConsentPOST(s, p) \/ GenerateAuthorizationCode(s, p)
              /\ consent[s].pc = "idle" /\ consent'[s].pc = "getUser"
              /\ consent'[s].reply = "none"
           \/ /\ consent'[s].pc \in {"getClient", "saveCode"}
              /\ consent[s].pc # "idle" /\ consent'[s].op = consent[s].op
              /\ consent'[s].reply = "none"
              /\ consent'[s].pc = "saveCode" /\ consent[s].op = "consent"
                   => MayConsent(consent[s].ask)
           \/ /\ consent'[s].pc = "idle" /\ consent'[s].op = "none"
              /\ consent'[s].reply = "ok" => SaveCode(s)
<1>1. consent \in [Consenters -> Handler] /\ HandlerTypeOK(consent[s])
  BY DEF CodesInv, CodesTypeOK
<1>2. PICK t \in Consenters : Storing(t) \/ CrashAll
  BY DEF CodesNext, Redeeming, Exchange, DeleteUserAndCodes, codeVars, allVars
<1>3. CASE CrashAll
  BY <1>3 DEF CrashAll, NoHandler
<1>4. CASE \E reply \in {"ok", "error"} : Answer(t, reply) /\ (reply = "ok" => SaveCode(t))
  BY <1>1, <1>4 DEF Answer, NoHandler
<1>5. CASE \E p \in Params : ConsentPOST(t, p) \/ GenerateAuthorizationCode(t, p)
  <2>1. /\ s = t /\ consent[s].pc = "idle" /\ consent'[s].pc = "getUser"
        /\ consent'[s].reply = "none"
    BY <1>1, <1>5 DEF ConsentPOST, GenerateAuthorizationCode, Ask
  <2> QED BY <1>5, <2>1
<1>6. CASE GetUser(t) /\ consent' = [consent EXCEPT ![t].pc = "getClient"]
  <2>1. s = t /\ consent[s].pc = "getUser" /\ consent'[s] = [consent[s] EXCEPT !.pc = "getClient"]
    BY <1>1, <1>6 DEF GetUser
  <2>2. /\ consent'[s].pc = "getClient" /\ consent'[s].op = consent[s].op
        /\ consent'[s].reply = consent[s].reply
    BY <1>1, <2>1 DEF HandlerTypeOK, Handler
  <2> QED BY <1>1, <2>1, <2>2 DEF HandlerTypeOK
<1>7. ASSUME NEW k \in FreshCodes, consent[t].pc = "getClient",
             consent[t].op = "consent" => MayConsent(consent[t].ask),
             consent' = [consent EXCEPT
               ![t] = Holding(consent[t], NewCode(k, consent[t].ask))]
      PROVE  /\ consent'[s].pc = "saveCode" /\ consent[s].pc = "getClient"
             /\ consent'[s].op = consent[s].op
             /\ consent'[s].reply = "none"
             /\ consent[s].op = "consent" => MayConsent(consent[s].ask)
  BY <1>1, <1>7 DEF Holding
<1>8. CASE GetClient(t)
  BY <1>4, <1>7, <1>8 DEF GetClient
<1>9. CASE SaveCode(t)
  BY <1>4, <1>9 DEF SaveCode
<1> QED BY <1>2, <1>3, <1>4, <1>5, <1>6, <1>8, <1>9 DEF Storing, GetUser

(* No consent gets past its scope check. *)
NoneStored ==
    \A s \in Consenters : consent[s].op = "consent" => consent[s].pc # "saveCode"

LEMMA NoneStoredStep ==
    ASSUME Unread, CodesInv, NoneStored, [CodesNext]_allVars
    PROVE  NoneStored'
<1> SUFFICES ASSUME NEW s \in Consenters, consent'[s] # consent[s],
                    consent'[s].op = "consent"
             PROVE  consent'[s].pc # "saveCode"
  BY DEF NoneStored
<1> QED BY ConsentForms DEF Unread, MayConsent, ScopesAllowed

(* No consent is ever answered with a code, whatever the user, the client  *)
(* and the scopes, while the column is not read: the reason why            *)
(* ConsentYieldsCode fails (clients_repository.go:18).                     *)
THEOREM NoConsentSucceeds ==
    ASSUME Unread
    PROVE  CodesSpec => [][\A s \in Consenters :
             consent[s].op = "consent" => consent'[s].reply # "ok"]_allVars
<1>1. CodesInit => NoneStored
  BY DEF CodesInit, NoHandler, NoneStored
<1>2. CodesInv /\ NoneStored /\ [CodesNext]_allVars => NoneStored'
  BY NoneStoredStep
<1>3. CodesInv /\ NoneStored /\ [CodesNext]_allVars =>
        [\A s \in Consenters :
           consent[s].op = "consent" => consent'[s].reply # "ok"]_allVars
  <2> SUFFICES ASSUME CodesInv, NoneStored, [CodesNext]_allVars, NEW s \in Consenters,
                      consent[s].op = "consent"
               PROVE  consent'[s].reply # "ok"
    OBVIOUS
  <2>1. consent[s].reply = "none"
    BY DEF CodesInv, CodesTypeOK, HandlerTypeOK
  <2>2. ~ SaveCode(s)
    BY DEF NoneStored, SaveCode
  <2> QED BY <2>1, <2>2, ConsentForms
<1> QED BY <1>1, <1>2, <1>3, CodesInvariance, PTL DEF CodesSpec

=============================================================================
