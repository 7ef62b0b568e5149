--------------------------- MODULE TokenRotationProofs ---------------------------
(***************************************************************************)
(* Theorems about the rotation of refresh tokens in TokenProvider: what    *)
(* holds of it in every behaviour, and, for the two promises of tokens.go  *)
(* that the code breaks (lines 193 and 196), what exactly they lack.       *)
(***************************************************************************)
EXTENDS TokenProviderProofs, FiniteSetTheorems

(* The forms in which a step changes the slot of one handler. *)
LEMMA SlotFacts ==
    ASSUME Inv, NEW r \in Requests, NEW n, req' = [req EXCEPT ![r] = n]
    PROVE  \A s \in Requests : req'[s] = IF s = r THEN n ELSE req[s]
BY DEF Inv, TypeOK

LEMMA GotoFacts ==
    ASSUME Inv, NEW r \in Requests, NEW pc, Goto(r, pc)
    PROVE  /\ \A s \in Requests \ {r} : req'[s] = req[s]
           /\ req'[r].pc = pc /\ req'[r].op = req[r].op
           /\ req'[r].grant = req[r].grant /\ req'[r].token = req[r].token
           /\ req'[r].signed = req[r].signed
BY DEF Inv, TypeOK, Request, Goto

LEMMA ReplyFacts ==
    ASSUME Inv, NEW r \in Requests, NEW reply, Reply(r, reply)
    PROVE  /\ \A s \in Requests \ {r} : req'[s] = req[s]
           /\ req'[r].pc = "idle" /\ req'[r].op = "none" /\ req'[r].reply = reply
           /\ req'[r].grant = None /\ req'[r].signed = None
BY DEF Inv, TypeOK, Reply, Idle

LEMMA BeginFacts ==
    ASSUME Inv, NEW r \in Requests, NEW op, NEW pc, NEW g, NEW t, Begin(r, op, pc, g, t)
    PROVE  /\ \A s \in Requests \ {r} : req'[s] = req[s]
           /\ req'[r].pc = pc /\ req'[r].op = op /\ req'[r].grant = g
           /\ req'[r].token = t /\ req'[r].signed = None
BY DEF Inv, TypeOK, Begin

(* The two clock readings of GenerateRefresh. *)
Signs(r) == ReadExpiry(r) \/ GenerateRefresh(r)

LEMMA SignFacts ==
    ASSUME Inv, NEW r \in Requests, Signs(r)
    PROVE  /\ \A s \in Requests \ {r} : req'[s] = req[s]
           /\ \/ req[r].pc = "sign" /\ req'[r].pc = "stamp"
              \/ req[r].pc = "stamp" /\ req'[r].pc = "save"
           /\ req'[r].op = req[r].op /\ req'[r].grant = req[r].grant
           /\ req'[r].token = req[r].token /\ req'[r].reply = req[r].reply
           /\ UNCHANGED <<now, second, users, whitelist, faults, granted, delivered>>
<1>1. CASE ReadExpiry(r)
  BY <1>1 DEF Inv, TypeOK, Request, ReadExpiry
<1>2. CASE GenerateRefresh(r)
  BY <1>2 DEF Inv, TypeOK, Request, GenerateRefresh, Signed
<1> QED BY <1>1, <1>2 DEF Signs

(* An operation begins in a slot of its own, and touches no table. *)
LEMMA ArrivalFacts ==
    ASSUME Inv, NEW r \in Requests, Arrival(r)
    PROVE  /\ req[r].pc = "idle"
           /\ \A s \in Requests \ {r} : req'[s] = req[s]
           /\ UNCHANGED <<now, second, users, whitelist, faults, delivered>>
<1>1. /\ req[r].pc = "idle"
      /\ UNCHANGED <<now, second, users, whitelist, faults, delivered>>
  BY DEF Arrival, Refuse, Call, GenerateTokens, Login, RefreshTokens, Validate, Logout
<1>2. \/ \E reply : Reply(r, reply)
      \/ \E op, pc, g, t : Begin(r, op, pc, g, t)
  BY DEF Arrival, Refuse, Call, GenerateTokens, Login, RefreshTokens, Validate, Logout
<1> QED BY <1>1, <1>2, BeginFacts, ReplyFacts

(* What the slot of r holds, for the cases below. *)
LEMMA SlotOK ==
    ASSUME Inv, NEW r \in Requests
    PROVE  RequestOK(req[r]) /\ HandlerOK(req[r])
BY DEF Inv, TypeOK, HandlersOK

(* A refresh that has compared the client carries the grant of its token. *)
LEMMA SameGrant ==
    ASSUME Inv, NEW r \in Requests, req[r].op = "refresh",
           req[r].token.grant.client = req[r].grant.client
    PROVE  req[r].token \in Token /\ req[r].grant = req[r].token.grant
<1>1. RequestOK(req[r]) /\ HandlerOK(req[r])
  BY SlotOK
<1>2. req[r].token \in Token /\ req[r].token.grant \in Grants /\ req[r].grant \in Grants
  BY <1>1 DEF RequestOK, Token
<1> QED BY <1>1, <1>2 DEF HandlerOK, Grants

-----------------------------------------------------------------------------
(* The length of a handler. *)

(* The steps that a handler still has before it. *)
Left(pc) ==
    CASE pc = "readUser"     -> 6
      [] pc = "isTokenValid" -> 5
      [] pc = "revoke"       -> 4
      [] pc = "sign"         -> 3
      [] pc = "stamp"        -> 2
      [] pc = "save"         -> 1
      [] pc = "idle"         -> 0

LEMMA LeftStep ==
    ASSUME Inv, [Next]_vars, NEW r \in Requests, req[r].pc # "idle", req'[r] # req[r]
    PROVE  Left(req'[r].pc) < Left(req[r].pc)
<1>1. RequestOK(req[r]) /\ req[r].pc \in PCs
  BY SlotOK DEF RequestOK, Request
<1>2. ASSUME NEW s \in Requests, Arrival(s) PROVE r # s /\ req'[r] = req[r]
  BY <1>2, ArrivalFacts
<1>3. ASSUME NEW s \in Requests, ReadUser(s) PROVE Left(req'[r].pc) < Left(req[r].pc)
  BY <1>3, GotoFacts, ReplyFacts DEF ReadUser, Left
<1>4. ASSUME NEW s \in Requests, CheckWhitelist(s)
      PROVE  Left(req'[r].pc) < Left(req[r].pc)
  BY <1>4, GotoFacts, ReplyFacts DEF CheckWhitelist, Left
<1>5. ASSUME NEW s \in Requests, RevokeToken(s)
      PROVE  Left(req'[r].pc) < Left(req[r].pc)
  BY <1>5, GotoFacts, ReplyFacts DEF RevokeToken, Left
<1>6. ASSUME NEW s \in Requests, Signs(s)
      PROVE  Left(req'[r].pc) < Left(req[r].pc)
  BY <1>6, SignFacts DEF Left
<1>7. ASSUME NEW s \in Requests, SaveToWhiteList(s)
      PROVE  Left(req'[r].pc) < Left(req[r].pc)
  BY <1>7, ReplyFacts DEF SaveToWhiteList, Left
<1>8. CASE Crash
  BY <1>1, <1>8 DEF Crash, Idle, Left, PCs
<1>9. CASE CleanExpiredTokens \/ Tick \/ UNCHANGED vars \/ \E u \in Users : DeleteUser(u)
  BY <1>9 DEF CleanExpiredTokens, Tick, DeleteUser, vars
<1> QED BY <1>2, <1>3, <1>4, <1>5, <1>6, <1>7, <1>8, <1>9
        DEF Next, Statement, Signs

(* Every step of a handler brings it nearer to its end, so no handler makes *)
(* more than six, however the others, the clean-up and the restarts         *)
(* interleave with it: there is no loop and no retry in the operations of   *)
(* authserver.go, and EveryRequestEnds needs no more than that each one is  *)
(* scheduled.                                                               *)
THEOREM HandlersAdvance ==
    Spec => [][\A r \in Requests :
                 req[r].pc # "idle" /\ req'[r] # req[r]
                   => Left(req'[r].pc) < Left(req[r].pc)]_vars
<1>1. Inv /\ [Next]_vars =>
        [\A r \in Requests :
           req[r].pc # "idle" /\ req'[r] # req[r]
             => Left(req'[r].pc) < Left(req[r].pc)]_vars
  BY LeftStep
<1> QED BY <1>1, Invariance, PTL DEF Spec

-----------------------------------------------------------------------------
(* Login. *)

LEMMA LoginStep ==
    ASSUME Inv, [Next]_vars, NEW r \in Requests, req[r].op = "login"
    PROVE  req'[r].reply # "ok"
<1>1. RequestOK(req[r]) /\ HandlerOK(req[r])
  BY SlotOK
<1>2. req[r].pc \in {"readUser", "sign", "stamp", "save"} /\ req[r].reply = "none"
  BY <1>1 DEF RequestOK, Request, PCs
<1>3. req[r].pc = "save" => ~ Storable(req[r].signed)
  BY <1>1, ConstantFacts DEF HandlerOK, Storable
<1>4. ASSUME NEW s \in Requests, Arrival(s) PROVE req'[r] = req[r]
  BY <1>2, <1>4, ArrivalFacts
<1>5. ASSUME NEW s \in Requests, Statement(s) PROVE req'[r].reply # "ok"
  <2>1. CASE s # r
    <3>1. req'[r] = req[r]
      BY <1>5, <2>1, GotoFacts, ReplyFacts, SignFacts
         DEF Statement, Signs, ReadUser, CheckWhitelist, RevokeToken, SaveToWhiteList
    <3> QED BY <1>2, <3>1
  <2>2. CASE s = r /\ ReadUser(r)
    <3>1. CASE Reply(r, "error")
      BY <3>1, ReplyFacts
    <3>2. CASE Goto(r, "sign")
      BY <1>2, <3>2 DEF Goto, Inv, TypeOK, Request
    <3> QED BY <2>2, <3>1, <3>2 DEF ReadUser
  <2>3. CASE s = r /\ Signs(r)
    BY <1>2, <2>3, SignFacts
  <2>4. CASE s = r /\ SaveToWhiteList(r)
    <3>1. Reply(r, "error")
      BY <1>3, <2>4 DEF SaveToWhiteList
    <3> QED BY <3>1, ReplyFacts
  <2> QED BY <1>2, <1>5, <2>1, <2>2, <2>3, <2>4
          DEF Statement, Signs, CheckWhitelist, RevokeToken
<1>6. CASE CleanExpiredTokens \/ Tick \/ UNCHANGED vars \/ \E u \in Users : DeleteUser(u)
  BY <1>2, <1>6 DEF CleanExpiredTokens, Tick, DeleteUser, vars
<1>7. CASE Crash
  BY <1>7 DEF Crash, Idle
<1> QED BY <1>2, <1>4, <1>5, <1>6, <1>7 DEF Next

(* No login is ever answered with tokens: whoever the user and whatever    *)
(* else runs, the row of its refresh token has no client to refer to.  This *)
(* is the reason why LoginReturnsTokens fails (authserver.go:365).         *)
THEOREM NoLoginSucceeds ==
    Spec => [][\A r \in Requests : req[r].op = "login" => req'[r].reply # "ok"]_vars
<1>1. Inv /\ [Next]_vars =>
        [\A r \in Requests : req[r].op = "login" => req'[r].reply # "ok"]_vars
  BY LoginStep
<1> QED BY <1>1, Invariance, PTL DEF Spec

-----------------------------------------------------------------------------
(* The end of a grant. *)

(* Only a handler that was on its way already, or a new one for g, can be  *)
(* on its way to a session of g after a step that lists nothing.           *)
LEMMA EndedFrame ==
    ASSUME NEW g, Ended(g), whitelist' \subseteq whitelist,
           \A r \in Requests : OnItsWay(r, g)' => OnItsWay(r, g)
    PROVE  Ended(g)'
BY DEF Ended

LEMMA ArrivalEnded ==
    ASSUME Inv, NEW r \in Requests, Arrival(r), NEW g \in Consents, Ended(g),
           granted'[g] = granted[g]
    PROVE  Ended(g)'
<1>1. g \in Grants /\ g # None /\ granted \in [Consents -> 0 .. MaxGrants]
  BY ConstantFacts DEF Inv, TypeOK
<1>2. ~ OnItsWay(r, g)'
  <2>1. ASSUME NEW h \in Consents, GenerateTokens(r, h) PROVE ~ OnItsWay(r, g)'
    <3>1. h # g
      BY <1>1, <2>1 DEF GenerateTokens
    <3>2. req'[r].grant = h
      BY <2>1, BeginFacts DEF GenerateTokens
    <3> QED BY <3>1, <3>2 DEF OnItsWay
  <2>2. ASSUME NEW reply, Reply(r, reply) PROVE ~ OnItsWay(r, g)'
    BY <1>1, <2>2, ReplyFacts DEF OnItsWay
  <2>3. ASSUME NEW op \in {"login", "refresh", "validate"}, NEW h, NEW t,
               NEW pc \in {"readUser", "isTokenValid"}, Begin(r, op, pc, h, t)
        PROVE  ~ OnItsWay(r, g)'
    BY <2>3, BeginFacts DEF OnItsWay
  <2>4. ASSUME NEW t, Begin(r, "logout", "revoke", None, t)
        PROVE  ~ OnItsWay(r, g)'
    BY <1>1, <2>4, BeginFacts DEF OnItsWay
  <2> QED BY <2>1, <2>2, <2>3, <2>4
          DEF Arrival, Refuse, Call, Login, RefreshTokens, Validate, Logout
<1>3. \A s \in Requests : OnItsWay(s, g)' => OnItsWay(s, g)
  BY <1>2, ArrivalFacts DEF OnItsWay
<1> QED BY <1>3, ArrivalFacts, EndedFrame

LEMMA CheckWhitelistEnded ==
    ASSUME Inv, NEW r \in Requests, CheckWhitelist(r), NEW g \in Consents, Ended(g)
    PROVE  Ended(g)'
<1>1. g # None /\ whitelist' = whitelist
  BY ConstantFacts DEF CheckWhitelist
<1>2. CASE \E reply : Reply(r, reply)
  BY <1>1, <1>2, ReplyFacts, EndedFrame DEF OnItsWay
<1>3. CASE /\ IsTokenValid(req[r].token) /\ req[r].op = "refresh"
           /\ ForThisClient(r) /\ Goto(r, "revoke")
  <2>1. Listed(req[r].token) /\ req[r].grant = req[r].token.grant
    BY <1>3, SameGrant DEF IsTokenValid, Listed, ForThisClient
  <2>2. req[r].grant # g
    BY <2>1 DEF Listed, Ended
  <2> QED BY <1>1, <1>3, <2>2, GotoFacts, EndedFrame DEF OnItsWay
<1> QED BY <1>2, <1>3 DEF CheckWhitelist

LEMMA SaveToWhiteListEnded ==
    ASSUME Inv, NEW r \in Requests, SaveToWhiteList(r), NEW g \in Consents, Ended(g)
    PROVE  Ended(g)'
<1> DEFINE t == req[r].signed
<1>1. req[r].pc = "save" /\ t.grant = req[r].grant
  BY SlotOK DEF SaveToWhiteList, HandlerOK
<1>2. t.grant # g
  BY <1>1 DEF Ended, OnItsWay
<1>3. whitelist' \subseteq whitelist \cup {NewRow(t)} /\ NewRow(t).token = t
  BY DEF SaveToWhiteList, NewRow
<1>4. \A row \in whitelist' : row.token.grant # g
  BY <1>2, <1>3 DEF Ended
<1>5. \E reply : Reply(r, reply)
  BY DEF SaveToWhiteList
<1>6. \A s \in Requests : ~ OnItsWay(s, g)'
  BY <1>5, ReplyFacts, ConstantFacts DEF Ended, OnItsWay
<1> QED BY <1>4, <1>6 DEF Ended

LEMMA EndedStep ==
    ASSUME Inv, [Next]_vars, NEW g \in Consents, Ended(g), granted'[g] = granted[g]
    PROVE  Ended(g)'
<1>1. g # None /\ g.client # NoClient
  BY ConstantFacts, ConsentsAssumption
<1>2. ASSUME NEW r \in Requests, ReadUser(r) PROVE Ended(g)'
  <2>1. RequestOK(req[r]) /\ HandlerOK(req[r]) /\ req[r].pc = "readUser"
    BY <1>2, SlotOK DEF ReadUser
  <2>2. CASE Reply(r, "error")
    BY <1>1, <1>2, <2>2, ReplyFacts, EndedFrame DEF ReadUser, OnItsWay
  <2>3. CASE req[r].op = "refresh" /\ Goto(r, "isTokenValid")
    BY <1>2, <2>3, GotoFacts, EndedFrame DEF ReadUser, OnItsWay
  <2>4. CASE req[r].op # "refresh" /\ Goto(r, "sign")
    <3>1. req[r].op = "grant" \/ req[r].grant # g
      BY <1>1, <2>1, <2>4 DEF RequestOK, HandlerOK
    <3> QED BY <1>2, <2>4, <3>1, GotoFacts, EndedFrame DEF ReadUser, OnItsWay
  <2> QED BY <1>2, <2>2, <2>3, <2>4 DEF ReadUser
<1>3. ASSUME NEW r \in Requests, RevokeToken(r) PROVE Ended(g)'
  <2>1. whitelist' \subseteq whitelist /\ req[r].pc = "revoke"
    BY <1>3 DEF RevokeToken
  <2>2. CASE Goto(r, "sign")
    BY <2>1, <2>2, GotoFacts, EndedFrame DEF OnItsWay
  <2>3. CASE \E reply : Reply(r, reply)
    BY <1>1, <2>1, <2>3, ReplyFacts, EndedFrame DEF OnItsWay
  <2> QED BY <1>3, <2>2, <2>3 DEF RevokeToken
<1>4. ASSUME NEW r \in Requests, Signs(r) PROVE Ended(g)'
  <2>1. \A s \in Requests : OnItsWay(s, g)' => OnItsWay(s, g)
    BY <1>4, SignFacts DEF OnItsWay
  <2> QED BY <1>4, <2>1, SignFacts, EndedFrame
<1>5. CASE CleanExpiredTokens \/ Tick \/ UNCHANGED vars \/ \E u \in Users : DeleteUser(u)
  <2>1. whitelist' \subseteq whitelist /\ req' = req
    BY <1>5 DEF CleanExpiredTokens, Tick, DeleteUser, vars
  <2> QED BY <2>1, EndedFrame DEF OnItsWay
<1>6. CASE Crash
  BY <1>1, <1>6 DEF Crash, Idle, Ended, OnItsWay
<1> QED BY <1>2, <1>3, <1>4, <1>5, <1>6, ArrivalEnded, CheckWhitelistEnded,
           SaveToWhiteListEnded DEF Next, Statement, Signs

(* When the last session of a grant is gone and no handler holds one, no   *)
(* token ever issued for it, and no client, brings it back: the next       *)
(* session takes another code.  This holds in spite of the races between   *)
(* refreshes, failing statements and restarts.                             *)
THEOREM EndIsForGood == Spec => EndedForGood
<1>1. Inv /\ [Next]_vars =>
        [\A g \in Consents :
           Ended(g) /\ granted'[g] = granted[g] => Ended(g)']_vars
  BY EndedStep
<1> QED BY <1>1, Invariance, PTL DEF Spec, EndedForGood

-----------------------------------------------------------------------------
(* Rotation.  Every exchange of a grant pays for one session.  The payment  *)
(* is held by the handler that will store the session, then by the token in *)
(* the whitelist, and a refresh hands it on from its token to itself.       *)

(* q may still store a session of g that nothing in the whitelist pays for. *)
Holds(q, g) ==
    /\ q.grant = g
    /\ \/ q.op = "grant"
       \/ q.op = "refresh" /\ q.pc \in {"sign", "stamp", "save"}

(* q has found t in the whitelist and is about to delete it. *)
Presents(q, t) == q.op = "refresh" /\ q.pc = "revoke" /\ q.token = t

Waiting(g) == {r \in Requests : Holds(req[r], g)}

Seats(g) ==
    {t \in Token :
       /\ t.grant = g
       /\ Listed(t) \/ \E r \in Requests : Presents(req[r], t)}

Balanced(g) ==
    /\ IsFiniteSet(Seats(g)) /\ IsFiniteSet(Waiting(g))
    /\ Cardinality(Seats(g)) + Cardinality(Waiting(g)) <= granted[g]

(* The primary key of migration 8. *)
Keyed == \A row, other \in whitelist : row.token = other.token => row = other

(* The inductive invariant of rotation. *)
RotationInv == Keyed /\ \A g \in Consents : Balanced(g)

(* What the code does not see to: that no two refreshes have both found the *)
(* same token in the whitelist before either deletes it (tokens.go:168).    *)
Interlocked ==
    \A r, s \in Requests : \A t \in Token :
        Presents(req[r], t) /\ Presents(req[s], t) => r = s

(* And that the DELETE, whose error a refresh discards (tokens.go:194), has *)
(* taken effect when the refresh goes on.                                   *)
RevocationsTakeEffect ==
    [][\A r \in Requests :
         RevokeToken(r) /\ req[r].op = "refresh"
           => \A row \in whitelist' : row.token # req[r].token]_vars

(* Moving an element from one finite set to the other, or losing some,     *)
(* keeps the sum within the bound.                                         *)
LEMMA Ledger ==
    ASSUME NEW S, NEW T, NEW W, NEW V, IsFiniteSet(S), IsFiniteSet(W),
           NEW m \in Nat, NEW n \in Nat, m <= n,
           Cardinality(S) + Cardinality(W) <= m,
           \/ T \subseteq S /\ V \subseteq W
           \/ T \subseteq S /\ m < n /\ \E r : V \subseteq W \cup {r}
           \/ \E t \in S : \E r : T \subseteq S \ {t} /\ V \subseteq W \cup {r}
           \/ \E r \in W : \E t : T \subseteq S \cup {t} /\ V \subseteq W \ {r}
    PROVE  /\ IsFiniteSet(T) /\ IsFiniteSet(V)
           /\ Cardinality(T) + Cardinality(V) <= n
<1>1. ASSUME NEW X, NEW Y, IsFiniteSet(X), Y \subseteq X
      PROVE  /\ IsFiniteSet(Y)
             /\ Cardinality(X) \in Nat /\ Cardinality(Y) \in Nat
             /\ Cardinality(Y) <= Cardinality(X)
  BY <1>1, FS_Subset, FS_CardinalityType
<1>2. ASSUME NEW X, IsFiniteSet(X), NEW x
      PROVE  /\ IsFiniteSet(X \cup {x}) /\ IsFiniteSet(X \ {x})
             /\ Cardinality(X \cup {x}) <= Cardinality(X) + 1
             /\ x \in X => Cardinality(X \ {x}) = Cardinality(X) - 1
  <2>1. Cardinality(X) \in Nat
    BY <1>2, FS_CardinalityType
  <2>2. /\ IsFiniteSet(X \cup {x})
        /\ Cardinality(X \cup {x}) =
             IF x \in X THEN Cardinality(X) ELSE Cardinality(X) + 1
    BY <1>2, FS_AddElement
  <2>3. /\ IsFiniteSet(X \ {x})
        /\ Cardinality(X \ {x}) =
             IF x \in X THEN Cardinality(X) - 1 ELSE Cardinality(X)
    BY <1>2, FS_RemoveElement
  <2> QED BY <2>1, <2>2, <2>3
<1>3. CASE T \subseteq S /\ V \subseteq W
  BY <1>1, <1>3
<1>4. CASE T \subseteq S /\ m < n /\ \E r : V \subseteq W \cup {r}
  <2>1. PICK r : V \subseteq W \cup {r}
    BY <1>4
  <2>2. IsFiniteSet(W \cup {r}) /\ Cardinality(W \cup {r}) <= Cardinality(W) + 1
    BY <1>2
  <2>3. /\ IsFiniteSet(V) /\ IsFiniteSet(T)
        /\ Cardinality(V) <= Cardinality(W \cup {r})
        /\ Cardinality(T) <= Cardinality(S)
        /\ Cardinality(V) \in Nat /\ Cardinality(W \cup {r}) \in Nat
        /\ Cardinality(T) \in Nat /\ Cardinality(S) \in Nat /\ Cardinality(W) \in Nat
    BY <1>1, <1>4, <2>1, <2>2
  <2> QED BY <1>4, <2>2, <2>3
<1>5. ASSUME NEW t \in S, NEW r, T \subseteq S \ {t}, V \subseteq W \cup {r}
      PROVE  /\ IsFiniteSet(T) /\ IsFiniteSet(V)
             /\ Cardinality(T) + Cardinality(V) <= n
  <2>1. /\ IsFiniteSet(W \cup {r}) /\ Cardinality(W \cup {r}) <= Cardinality(W) + 1
        /\ IsFiniteSet(S \ {t}) /\ Cardinality(S \ {t}) = Cardinality(S) - 1
    BY <1>2
  <2>2. /\ IsFiniteSet(V) /\ IsFiniteSet(T)
        /\ Cardinality(V) <= Cardinality(W \cup {r})
        /\ Cardinality(T) <= Cardinality(S \ {t})
        /\ Cardinality(V) \in Nat /\ Cardinality(W \cup {r}) \in Nat
        /\ Cardinality(T) \in Nat /\ Cardinality(S) \in Nat /\ Cardinality(W) \in Nat
        /\ Cardinality(S \ {t}) \in Nat
    BY <1>1, <1>5, <2>1
  <2> QED BY <2>1, <2>2
<1>6. ASSUME NEW t, NEW r \in W, T \subseteq S \cup {t}, V \subseteq W \ {r}
      PROVE  /\ IsFiniteSet(T) /\ IsFiniteSet(V)
             /\ Cardinality(T) + Cardinality(V) <= n
  <2>1. /\ IsFiniteSet(S \cup {t}) /\ Cardinality(S \cup {t}) <= Cardinality(S) + 1
        /\ IsFiniteSet(W \ {r}) /\ Cardinality(W \ {r}) = Cardinality(W) - 1
    BY <1>2
  <2>2. /\ IsFiniteSet(V) /\ IsFiniteSet(T)
        /\ Cardinality(V) <= Cardinality(W \ {r})
        /\ Cardinality(T) <= Cardinality(S \cup {t})
        /\ Cardinality(V) \in Nat /\ Cardinality(S \cup {t}) \in Nat
        /\ Cardinality(T) \in Nat /\ Cardinality(S) \in Nat /\ Cardinality(W) \in Nat
        /\ Cardinality(W \ {r}) \in Nat
    BY <1>1, <1>6, <2>1
  <2> QED BY <2>1, <2>2
<1> QED BY <1>3, <1>4, <1>5, <1>6

LEMMA BalanceStep ==
    ASSUME NEW g, Balanced(g),
           granted[g] \in Nat, granted'[g] \in Nat, granted[g] <= granted'[g],
           \/ Seats(g)' \subseteq Seats(g) /\ Waiting(g)' \subseteq Waiting(g)
           \/ /\ Seats(g)' \subseteq Seats(g) /\ granted[g] < granted'[g]
              /\ \E r : Waiting(g)' \subseteq Waiting(g) \cup {r}
           \/ \E t \in Seats(g) : \E r :
                Seats(g)' \subseteq Seats(g) \ {t} /\ Waiting(g)' \subseteq Waiting(g) \cup {r}
           \/ \E r \in Waiting(g) : \E t :
                Seats(g)' \subseteq Seats(g) \cup {t} /\ Waiting(g)' \subseteq Waiting(g) \ {r}
    PROVE  Balanced(g)'
<1> DEFINE S == Seats(g)
           T == Seats(g)'
           W == Waiting(g)
           V == Waiting(g)'
           m == granted[g]
           n == granted'[g]
<1>1. /\ IsFiniteSet(S) /\ IsFiniteSet(W)
      /\ Cardinality(S) + Cardinality(W) <= m
  BY DEF Balanced
<1>2. SUFFICES /\ IsFiniteSet(T) /\ IsFiniteSet(V)
               /\ Cardinality(T) + Cardinality(V) <= n
  BY DEF Balanced
<1>3. /\ m \in Nat /\ n \in Nat /\ m <= n
      /\ \/ T \subseteq S /\ V \subseteq W
         \/ T \subseteq S /\ m < n /\ \E r : V \subseteq W \cup {r}
         \/ \E t \in S : \E r : T \subseteq S \ {t} /\ V \subseteq W \cup {r}
         \/ \E r \in W : \E t : T \subseteq S \cup {t} /\ V \subseteq W \ {r}
  OBVIOUS
<1> HIDE DEF S, T, W, V, m, n
<1> QED BY <1>1, <1>3, Ledger

LEMMA GrantedOK ==
    ASSUME Inv, NEW g \in Consents
    PROVE  granted[g] \in Nat /\ g \in Grants /\ g # None
BY ConstantFacts DEF Inv, TypeOK

(* A step that lists nothing, pays nothing and takes no refresh past its    *)
(* DELETE: most of them.                                                   *)
LEMMA QuietStep ==
    ASSUME Inv, RotationInv, whitelist' \subseteq whitelist, granted' = granted,
           \A r \in Requests : \A t \in Token :
             Presents(req'[r], t) => Presents(req[r], t) \/ Listed(t),
           \A r \in Requests : \A g \in Consents :
             Holds(req'[r], g) => Holds(req[r], g)
    PROVE  RotationInv'
<1>1. Keyed'
  BY DEF RotationInv, Keyed
<1>2. ASSUME NEW g \in Consents PROVE Balanced(g)'
  <2>1. Seats(g)' \subseteq Seats(g)
    BY DEF Seats, Listed
  <2>2. Waiting(g)' \subseteq Waiting(g)
    BY DEF Waiting
  <2>3. Balanced(g) /\ granted[g] \in Nat
    BY GrantedOK DEF RotationInv
  <2> QED BY <2>1, <2>2, <2>3, BalanceStep
<1> QED BY <1>1, <1>2 DEF RotationInv

LEMMA ArrivalRotation ==
    ASSUME Inv, Inv', RotationInv, NEW r \in Requests, Arrival(r)
    PROVE  RotationInv'
<1>1. /\ whitelist' = whitelist
      /\ \A s \in Requests \ {r} : req'[s] = req[s]
  BY ArrivalFacts
<1>2. ASSUME NEW reply, Reply(r, reply), granted' = granted
      PROVE  RotationInv'
  <2>1. req'[r].op = "none"
    BY <1>2, ReplyFacts
  <2> QED BY <1>1, <1>2, <2>1, QuietStep DEF Presents, Holds
<1>3. ASSUME NEW op \in {"login", "refresh", "validate", "logout"},
             NEW pc \in {"readUser", "isTokenValid", "revoke"}, NEW g, NEW t,
             Begin(r, op, pc, g, t), op = "refresh" => pc = "readUser",
             granted' = granted
      PROVE  RotationInv'
  <2>1. req'[r].op = op /\ req'[r].pc = pc
    BY <1>3, BeginFacts
  <2> QED BY <1>1, <1>3, <2>1, QuietStep DEF Presents, Holds
<1>4. ASSUME NEW h \in Consents, GenerateTokens(r, h) PROVE RotationInv'
  <2>1. req'[r].op = "grant" /\ req'[r].grant = h
    BY <1>4, BeginFacts DEF GenerateTokens
  <2>2. Keyed'
    BY <1>1 DEF RotationInv, Keyed
  <2>3. ASSUME NEW g \in Consents PROVE Balanced(g)'
    <3>1. Balanced(g) /\ granted[g] \in Nat /\ granted'[g] \in Nat
      BY GrantedOK DEF RotationInv, Inv, TypeOK
    <3>2. granted'[g] = IF g = h THEN granted[g] + 1 ELSE granted[g]
      BY <1>4 DEF GenerateTokens, Inv, TypeOK
    <3>3. Seats(g)' \subseteq Seats(g)
      BY <1>1, <2>1 DEF Seats, Listed, Presents
    <3>4. Waiting(g)' \subseteq IF g = h THEN Waiting(g) \cup {r} ELSE Waiting(g)
      BY <1>1, <2>1 DEF Waiting, Holds
    <3> QED BY <3>1, <3>2, <3>3, <3>4, BalanceStep
  <2> QED BY <2>2, <2>3 DEF RotationInv
<1> QED BY <1>2, <1>3, <1>4
        DEF Arrival, Refuse, Call, Login, RefreshTokens, Validate, Logout

LEMMA RevokeTokenRotation ==
    ASSUME Inv, RotationInv, Interlocked, NEW r \in Requests, RevokeToken(r),
           req[r].op = "refresh" => \A row \in whitelist' : row.token # req[r].token
    PROVE  RotationInv'
<1>1. /\ req[r].pc = "revoke" /\ req[r].op \in {"refresh", "logout"}
      /\ whitelist' \subseteq whitelist /\ granted' = granted
  BY SlotOK DEF RevokeToken, RequestOK
<1>2. CASE req[r].op = "logout"
  <2>1. \E reply : Reply(r, reply)
    BY <1>2 DEF RevokeToken
  <2>2. /\ \A s \in Requests \ {r} : req'[s] = req[s]
        /\ req'[r].op = "none"
    BY <2>1, ReplyFacts
  <2> QED BY <1>1, <2>2, QuietStep DEF Presents, Holds
<1>3. CASE req[r].op = "refresh"
  <2> DEFINE u == req[r].token
  <2>1. Goto(r, "sign")
    BY <1>3 DEF RevokeToken
  <2>2. /\ \A s \in Requests \ {r} : req'[s] = req[s]
        /\ req'[r].op = "refresh" /\ req'[r].pc = "sign"
        /\ req'[r].grant = req[r].grant
    BY <1>3, <2>1, GotoFacts
  <2>3. u \in Token /\ req[r].grant = u.grant
    BY <1>1, <1>3, SlotOK, SameGrant DEF HandlerOK
  <2>4. Keyed'
    BY <1>1 DEF RotationInv, Keyed
  <2>5. ASSUME NEW g \in Consents PROVE Balanced(g)'
    <3>1. Balanced(g) /\ granted[g] \in Nat
      BY GrantedOK DEF RotationInv
    <3>2. Seats(g)' \subseteq Seats(g) \ {u}
      <4>1. ASSUME NEW t \in Token, t.grant = g,
                   Listed(t)' \/ \E s \in Requests : Presents(req'[s], t)
            PROVE  t \in Seats(g) \ {u}
        <5>1. CASE Listed(t)'
          BY <1>1, <1>3, <4>1, <5>1 DEF Seats, Listed
        <5>2. ASSUME NEW s \in Requests, Presents(req'[s], t)
              PROVE  t \in Seats(g) \ {u}
          <6>1. s # r /\ Presents(req[s], t)
            BY <2>2, <5>2 DEF Presents
          <6>2. t # u
            BY <1>1, <1>3, <6>1 DEF Presents, Interlocked
          <6> QED BY <4>1, <6>1, <6>2 DEF Seats
        <5> QED BY <4>1, <5>1, <5>2
      <4> QED BY <4>1 DEF Seats
    <3>3. CASE u.grant = g
      <4>1. u \in Seats(g)
        BY <1>1, <1>3, <2>3, <3>3 DEF Seats, Presents
      <4>2. Waiting(g)' \subseteq Waiting(g) \cup {r}
        BY <2>2 DEF Waiting
      <4> QED BY <1>1, <3>1, <3>2, <4>1, <4>2, BalanceStep
    <3>4. CASE u.grant # g
      <4>1. Waiting(g)' \subseteq Waiting(g)
        BY <2>2, <2>3, <3>4 DEF Waiting, Holds
      <4>2. Seats(g)' \subseteq Seats(g)
        BY <3>2
      <4> QED BY <1>1, <3>1, <4>1, <4>2, BalanceStep
    <3> QED BY <3>3, <3>4
  <2> QED BY <2>4, <2>5 DEF RotationInv
<1> QED BY <1>1, <1>2, <1>3

LEMMA SaveToWhiteListRotation ==
    ASSUME Inv, Inv', RotationInv, NEW r \in Requests, SaveToWhiteList(r)
    PROVE  RotationInv'
<1> DEFINE t == req[r].signed
<1>1. /\ req[r].pc = "save" /\ t \in Token /\ t.grant = req[r].grant
      /\ req[r].op \in {"grant", "login", "refresh"}
      /\ granted' = granted
  BY SlotOK DEF SaveToWhiteList, RequestOK, HandlerOK, Request
<1>2. /\ \A s \in Requests \ {r} : req'[s] = req[s]
      /\ req'[r].op = "none"
  BY ReplyFacts DEF SaveToWhiteList
<1>3. CASE UNCHANGED whitelist
  BY <1>1, <1>2, <1>3, QuietStep DEF Presents, Holds
<1>4. CASE Storable(t) /\ whitelist' = whitelist \cup {NewRow(t)}
  <2>1. req[r].op \in {"grant", "refresh"}
    BY <1>1, <1>4, SlotOK, ConstantFacts DEF Storable, HandlerOK
  <2>2. Keyed'
    BY <1>4 DEF RotationInv, Keyed, Storable, Listed, NewRow
  <2>3. ASSUME NEW g \in Consents PROVE Balanced(g)'
    <3>1. Balanced(g) /\ granted[g] \in Nat /\ granted'[g] \in Nat
      BY GrantedOK DEF RotationInv, Inv, TypeOK
    <3>2. Waiting(g)' \subseteq Waiting(g) \ {r}
      BY <1>2 DEF Waiting, Holds
    <3>3. CASE t.grant = g
      <4>1. r \in Waiting(g)
        BY <1>1, <2>1, <3>3 DEF Waiting, Holds
      <4>2. Seats(g)' \subseteq Seats(g) \cup {t}
        BY <1>2, <1>4 DEF Seats, Listed, NewRow, Presents
      <4> QED BY <1>1, <3>1, <3>2, <4>1, <4>2, BalanceStep
    <3>4. CASE t.grant # g
      <4>1. Seats(g)' \subseteq Seats(g)
        BY <1>2, <1>4, <3>4 DEF Seats, Listed, NewRow, Presents
      <4>2. Waiting(g)' \subseteq Waiting(g)
        BY <3>2
      <4> QED BY <1>1, <3>1, <4>1, <4>2, BalanceStep
    <3> QED BY <3>3, <3>4
  <2> QED BY <2>2, <2>3 DEF RotationInv
<1> QED BY <1>3, <1>4 DEF SaveToWhiteList

LEMMA RotationStep ==
    ASSUME Inv, Inv', RotationInv, Interlocked, [Next]_vars,
           [\A r \in Requests :
              RevokeToken(r) /\ req[r].op = "refresh"
                => \A row \in whitelist' : row.token # req[r].token]_vars
    PROVE  RotationInv'
<1>1. ASSUME NEW r \in Requests, ReadUser(r) PROVE RotationInv'
  <2>1. req[r].pc = "readUser" /\ whitelist' = whitelist /\ granted' = granted
    BY <1>1 DEF ReadUser
  <2>2. CASE Reply(r, "error")
    BY <2>1, <2>2, ReplyFacts, QuietStep DEF Presents, Holds
  <2>3. CASE req[r].op = "refresh" /\ Goto(r, "isTokenValid")
    BY <2>1, <2>3, GotoFacts, QuietStep DEF Presents, Holds
  <2>4. CASE req[r].op # "refresh" /\ Goto(r, "sign")
    BY <2>1, <2>4, GotoFacts, QuietStep DEF Presents, Holds
  <2> QED BY <1>1, <2>2, <2>3, <2>4 DEF ReadUser
<1>2. ASSUME NEW r \in Requests, CheckWhitelist(r) PROVE RotationInv'
  <2>1. req[r].pc = "isTokenValid" /\ whitelist' = whitelist /\ granted' = granted
    BY <1>2 DEF CheckWhitelist
  <2>2. CASE \E reply : Reply(r, reply)
    BY <2>1, <2>2, ReplyFacts, QuietStep DEF Presents, Holds
  <2>3. CASE IsTokenValid(req[r].token) /\ req[r].op = "refresh" /\ Goto(r, "revoke")
    <3>1. Listed(req[r].token)
      BY <2>3 DEF IsTokenValid, Listed
    <3> QED BY <2>1, <2>3, <3>1, GotoFacts, QuietStep DEF Presents, Holds
  <2> QED BY <1>2, <2>2, <2>3 DEF CheckWhitelist
<1>3. ASSUME NEW r \in Requests, RevokeToken(r) PROVE RotationInv'
  <2>1. vars' # vars
    <3>1. req[r].pc = "revoke" /\ req'[r].pc # "revoke"
      BY <1>3, GotoFacts, ReplyFacts DEF RevokeToken
    <3> QED BY <3>1 DEF vars
  <2> QED BY <1>3, <2>1, RevokeTokenRotation
<1>4. ASSUME NEW r \in Requests, Signs(r) PROVE RotationInv'
  BY <1>4, SignFacts, QuietStep DEF Presents, Holds
<1>5. CASE CleanExpiredTokens \/ Tick \/ UNCHANGED vars \/ \E u \in Users : DeleteUser(u)
  <2>1. whitelist' \subseteq whitelist /\ granted' = granted /\ req' = req
    BY <1>5 DEF CleanExpiredTokens, Tick, DeleteUser, vars
  <2> QED BY <2>1, QuietStep
<1>6. CASE Crash
  <2>1. \A r \in Requests : req'[r].op = "none"
    BY <1>6 DEF Crash, Idle
  <2> QED BY <1>6, <2>1, QuietStep DEF Crash, Presents, Holds
<1> QED BY <1>1, <1>2, <1>3, <1>4, <1>5, <1>6, ArrivalRotation,
           SaveToWhiteListRotation DEF Next, Statement, Signs

(* The sessions of a grant are at most as many as its seats: a token has    *)
(* one row.                                                                *)
LEMMA SessionsAreSeats ==
    ASSUME Inv, Keyed, NEW g \in Consents, IsFiniteSet(Seats(g))
    PROVE  /\ Cardinality(SessionsOf(g)) \in Nat
           /\ Cardinality(SessionsOf(g)) <= Cardinality(Seats(g))
<1> DEFINE f == [row \in SessionsOf(g) |-> row.token]
<1>1. \A row \in SessionsOf(g) : row.token \in Seats(g)
  BY DEF SessionsOf, Seats, Listed, Inv, TypeOK, Row
<1>2. \A row, other \in SessionsOf(g) : f[row] = f[other] => row = other
  BY DEF SessionsOf, Keyed
<1>3. f \in Injection(SessionsOf(g), Seats(g))
  BY <1>1, <1>2 DEF Injection, IsInjective
<1> QED BY <1>3, FS_Injection, FS_CardinalityType

LEMMA InitRotation == Init => RotationInv
<1> SUFFICES ASSUME Init PROVE RotationInv
  OBVIOUS
<1>1. Keyed
  BY DEF Init, Keyed
<1>2. ASSUME NEW g \in Consents PROVE Balanced(g)
  <2>1. \A r \in Requests : req[r].op = "none"
    BY DEF Init, Idle
  <2>2. Seats(g) = {} /\ Waiting(g) = {}
    BY <2>1 DEF Init, Seats, Waiting, Listed, Presents, Holds
  <2> QED BY <2>2, FS_EmptySet DEF Balanced, Init
<1> QED BY <1>1, <1>2 DEF RotationInv

LEMMA RotationBounds == Inv /\ RotationInv => SessionsNotMultiplied
<1> SUFFICES ASSUME Inv, RotationInv, NEW g \in Consents
             PROVE  Cardinality(SessionsOf(g)) <= granted[g]
  BY DEF SessionsNotMultiplied
<1>1. Keyed /\ Balanced(g) /\ granted[g] \in Nat
  BY GrantedOK DEF RotationInv
<1>2. /\ Cardinality(Seats(g)) \in Nat /\ Cardinality(Waiting(g)) \in Nat
      /\ Cardinality(Seats(g)) + Cardinality(Waiting(g)) <= granted[g]
  BY <1>1, FS_CardinalityType DEF Balanced
<1>3. /\ Cardinality(SessionsOf(g)) \in Nat
      /\ Cardinality(SessionsOf(g)) <= Cardinality(Seats(g))
  BY <1>1, SessionsAreSeats DEF Balanced
<1> QED BY <1>1, <1>2, <1>3

(* Refreshing replaces a session and never adds one, for any number of     *)
(* handlers, as soon as two refreshes are kept from presenting one token   *)
(* at once and a failed DELETE keeps a refresh from going on: these two     *)
(* gaps of RefreshToken (tokens.go:168 and 194) are the only ones, and each *)
(* alone breaks the promise.                                               *)
THEOREM RotationKept ==
    Spec /\ []Interlocked /\ RevocationsTakeEffect => []SessionsNotMultiplied
<1>1. Init => RotationInv
  BY InitRotation
<1>2. Inv /\ Inv' /\ RotationInv /\ Interlocked /\ [Next]_vars /\
        [\A r \in Requests :
           RevokeToken(r) /\ req[r].op = "refresh"
             => \A row \in whitelist' : row.token # req[r].token]_vars
      => RotationInv'
  BY RotationStep
<1>3. Inv /\ RotationInv => SessionsNotMultiplied
  BY RotationBounds
<1> QED BY <1>1, <1>2, <1>3, Invariance, PTL DEF Spec, RevocationsTakeEffect

-----------------------------------------------------------------------------
(* The old token of a refresh. *)

Renewing(r) == req[r].op = "refresh" /\ req[r].pc \in {"sign", "stamp", "save"}

(* The inductive invariant: the token of a refresh that is past its DELETE  *)
(* is not listed.                                                          *)
OldTokensGone == \A r \in Requests : Renewing(r) => ~ Listed(req[r].token)

(* No handler stores the very token that another one is replacing.  It can  *)
(* only do so within the second of its signature.                          *)
NoRival ==
    \A r \in Requests : \A s \in Requests \ {r} :
        Renewing(r) => req[s].signed # req[r].token

LEMMA OnlySavesList ==
    ASSUME Inv, [Next]_vars
    PROVE  whitelist' \subseteq whitelist \/ \E r \in Requests : SaveToWhiteList(r)
<1>1. ASSUME NEW r \in Requests, Arrival(r) PROVE whitelist' \subseteq whitelist
  BY <1>1, ArrivalFacts
<1>2. ASSUME NEW r \in Requests, RevokeToken(r) PROVE whitelist' \subseteq whitelist
  BY <1>2 DEF RevokeToken
<1> QED BY <1>1, <1>2
        DEF Next, Statement, ReadUser, CheckWhitelist, ReadExpiry, GenerateRefresh,
            CleanExpiredTokens, DeleteUser, Crash, Tick, vars

LEMMA SaveFacts ==
    ASSUME Inv, NEW r \in Requests, SaveToWhiteList(r)
    PROVE  /\ \A s \in Requests \ {r} : req'[s] = req[s]
           /\ req'[r].pc = "idle" /\ req'[r].op = "none"
           /\ \A row \in whitelist' \ whitelist : row.token = req[r].signed
BY ReplyFacts DEF SaveToWhiteList, NewRow

(* A refresh is past its DELETE if it was so before, or has just made it. *)
LEMMA BecomesRenewing ==
    ASSUME Inv, [Next]_vars, NEW r \in Requests, Renewing(r)'
    PROVE  /\ req'[r].token = req[r].token
           /\ Renewing(r) \/ (RevokeToken(r) /\ req[r].op = "refresh" /\ vars' # vars)
<1>1. RequestOK(req[r])
  BY SlotOK
<1>2. ASSUME NEW s \in Requests, Arrival(s)
      PROVE  req'[r].token = req[r].token /\ Renewing(r)
  <2>1. CASE s # r
    BY <1>2, <2>1, ArrivalFacts DEF Renewing
  <2>2. CASE s = r
    <3>1. \/ \E reply : Reply(r, reply)
          \/ \E op, g, t : Begin(r, op, "readUser", g, t)
          \/ \E op \in {"validate", "logout"} : \E pc, g, t : Begin(r, op, pc, g, t)
      BY <1>2, <2>2
         DEF Arrival, Refuse, Call, GenerateTokens, Login, RefreshTokens, Validate, Logout
    <3>2. req'[r].op # "refresh" \/ req'[r].pc = "readUser"
      BY <3>1, BeginFacts, ReplyFacts
    <3> QED BY <3>2 DEF Renewing
  <2> QED BY <2>1, <2>2
<1>3. ASSUME NEW s \in Requests, Statement(s), s # r
      PROVE  req'[r].token = req[r].token /\ Renewing(r)
  <2>1. req'[r] = req[r]
    BY <1>3, GotoFacts, ReplyFacts, SignFacts
       DEF Statement, Signs, ReadUser, CheckWhitelist, RevokeToken, SaveToWhiteList
  <2> QED BY <2>1 DEF Renewing
<1>4. CASE ReadUser(r)
  BY <1>4, GotoFacts, ReplyFacts DEF ReadUser, Renewing
<1>5. CASE CheckWhitelist(r)
  BY <1>5, GotoFacts, ReplyFacts DEF CheckWhitelist, Renewing
<1>6. CASE RevokeToken(r)
  <2>1. req[r].pc = "revoke" /\ req'[r].pc # "revoke"
    BY <1>6, GotoFacts, ReplyFacts DEF RevokeToken
  <2>2. vars' # vars
    BY <2>1 DEF vars
  <2>3. req[r].op = "refresh" /\ req'[r].token = req[r].token
    BY <1>6, GotoFacts, ReplyFacts DEF RevokeToken, Renewing
  <2> QED BY <1>6, <2>2, <2>3
<1>7. CASE Signs(r)
  BY <1>7, SignFacts DEF Renewing
<1>8. CASE SaveToWhiteList(r)
  BY <1>8, SaveFacts DEF Renewing
<1>9. CASE CleanExpiredTokens \/ Tick \/ UNCHANGED vars \/ \E u \in Users : DeleteUser(u)
  BY <1>9 DEF CleanExpiredTokens, Tick, DeleteUser, vars, Renewing
<1>10. CASE Crash
  BY <1>10 DEF Crash, Idle, Renewing
<1> QED BY <1>2, <1>3, <1>4, <1>5, <1>6, <1>7, <1>8, <1>9, <1>10
        DEF Next, Statement, Signs

LEMMA OldTokensStep ==
    ASSUME Inv, OldTokensGone, NoRival, [Next]_vars,
           [\A r \in Requests :
              RevokeToken(r) /\ req[r].op = "refresh"
                => \A row \in whitelist' : row.token # req[r].token]_vars
    PROVE  OldTokensGone'
<1> SUFFICES ASSUME NEW r \in Requests, Renewing(r)'
             PROVE  \A row \in whitelist' : row.token # req[r].token
  BY BecomesRenewing DEF OldTokensGone, Listed
<1>1. CASE RevokeToken(r) /\ req[r].op = "refresh" /\ vars' # vars
  BY <1>1
<1>2. CASE Renewing(r)
  <2>1. \A row \in whitelist : row.token # req[r].token
    BY <1>2 DEF OldTokensGone, Listed
  <2>2. ASSUME NEW s \in Requests, SaveToWhiteList(s)
        PROVE  \A row \in whitelist' : row.token # req[r].token
    <3>1. s # r
      BY <2>2, SaveFacts DEF Renewing
    <3> QED BY <1>2, <2>1, <2>2, <3>1, SaveFacts DEF NoRival
  <2> QED BY <2>1, <2>2, OnlySavesList
<1> QED BY <1>1, <1>2, BecomesRenewing

LEMMA ReturnedStep ==
    ASSUME Inv, OldTokensGone, [Next]_vars, NEW r \in Requests, NEW row \in whitelist',
           Returned(r), req[r].op = "refresh", req[r].signed # req[r].token
    PROVE  row.token # req[r].token
<1>1. \A old \in whitelist : old.token # req[r].token
  BY DEF OldTokensGone, Renewing, Listed, Returned
<1>2. ASSUME NEW s \in Requests, SaveToWhiteList(s) PROVE row.token # req[r].token
  <2>1. s = r
    BY <1>2, SaveFacts, SlotOK DEF Returned, RequestOK
  <2> QED BY <1>1, <1>2, <2>1, SaveFacts
<1> QED BY <1>1, <1>2, OnlySavesList

(* tokens.go:193: the token that a refresh replaces is not listed when the  *)
(* refresh answers, if its DELETE took effect and no other handler signed   *)
(* the same token meanwhile.                                               *)
THEOREM OldTokenInvalidated ==
    Spec /\ []NoRival /\ RevocationsTakeEffect => RefreshInvalidatesOldToken
<1>1. Init => OldTokensGone
  BY DEF Init, Idle, OldTokensGone, Renewing
<1>2. Inv /\ OldTokensGone /\ NoRival /\ [Next]_vars /\
        [\A r \in Requests :
           RevokeToken(r) /\ req[r].op = "refresh"
             => \A row \in whitelist' : row.token # req[r].token]_vars
      => OldTokensGone'
  BY OldTokensStep
<1>3. Inv /\ OldTokensGone /\ [Next]_vars =>
        [\A r \in Requests : \A row \in whitelist' :
           Returned(r) /\ req[r].op = "refresh" /\ req[r].signed # req[r].token
             => row.token # req[r].token]_vars
  BY ReturnedStep
<1> QED BY <1>1, <1>2, <1>3, Invariance, PTL
        DEF Spec, RevocationsTakeEffect, RefreshInvalidatesOldToken

=============================================================================
