---------------------------- MODULE AccountsProofs ----------------------------
(***************************************************************************)
(* Theorems about Accounts, for any names, scopes, slots and bounds.       *)
(***************************************************************************)
EXTENDS Accounts, TLAPS

(* The parts of TypeOK. *)
TablesOK ==
    /\ users \subseteq User /\ scopes \subseteq Scope /\ links \subseteq Link
    /\ lastUser \in 0 .. MaxUsers /\ lastScope \in 0 .. MaxScopes
    /\ \A u \in users : u.id \in 1 .. lastUser
    /\ \A s \in scopes : s.id \in 1 .. lastScope

SlotOK(q) == q \in Handler /\ (q.pc = "idle" <=> q.row = None)

SlotsOK ==
    /\ handler \in [Handlers -> Handler]
    /\ \A h \in Handlers : SlotOK(handler[h])

Acting == {"list", "sign"}

(* What a handler acts on was held, and the admin page stands on Root. *)
ActsOnHeld ==
    \A h \in Handlers : handler[h].pc \in Acting =>
        /\ handler[h].names \subseteq held[h]
        /\ handler[h].pc = "list" => Root \in handler[h].names

Inv == TypeOK /\ AccountsDiffer /\ LinksResolve /\ ActsOnHeld

LEMMA Parts == TypeOK <=> TablesOK /\ SlotsOK /\ held \in [Handlers -> SUBSET ScopeNames]
BY DEF TypeOK, TablesOK, SlotsOK, SlotOK

LEMMA Facts ==
    /\ Blank \in Profiles /\ Root \in ScopeNames
    /\ Allowed \subseteq SUBSET ScopeNames
    /\ Bearers \subseteq Handlers
    /\ MaxUsers \in Nat /\ MaxScopes \in Nat
    /\ None \notin User
BY ProfileAssumption, RootAssumption, AllowedAssumption, LimitAssumption, NoneAssumption

-----------------------------------------------------------------------------
(* Scope strings. *)

LEMMA NamesInScopes ==
    ASSUME NEW sc \in SUBSET Scope, NEW li, NEW id
    PROVE  NamesIn(sc, li, id) \in SUBSET ScopeNames
BY DEF NamesIn, Scope

(* An access token carries no scope that the row read did not have,        *)
(* whatever string it is limited by.                                       *)
LEMMA AccessScopesAreNames ==
    ASSUME NEW names, NEW allowed
    PROVE  AccessScopes(names, allowed) \subseteq names
BY DEF AccessScopes, StringFromAllowed

(* Testing for a part of the string (models.go:55) grants every scope of   *)
(* the row that the string lists and no scope that the row does not have.  *)
(* It is the test for a member exactly if no scope's name is a part of     *)
(* another's, which nothing in the code sees to: with two such names,      *)
(* there are a row and a string for which it grants a scope not listed.    *)
THEOREM PartIsMember ==
    /\ \A names, allowed \in SUBSET ScopeNames :
          /\ names \cap allowed \subseteq StringFromAllowed(names, allowed)
          /\ StringFromAllowed(names, allowed) \subseteq names
    /\ (\A names, allowed \in SUBSET ScopeNames :
            StringFromAllowed(names, allowed) = names \cap allowed)
         <=> (\A n, m \in ScopeNames : <<n, m>> \in Infix => n = m)
<1>1. ASSUME NEW names \in SUBSET ScopeNames, NEW allowed \in SUBSET ScopeNames
      PROVE  /\ names \cap allowed \subseteq StringFromAllowed(names, allowed)
             /\ StringFromAllowed(names, allowed) \subseteq names
  BY InfixAssumption DEF StringFromAllowed
<1>2. ASSUME \A n, m \in ScopeNames : <<n, m>> \in Infix => n = m,
             NEW names \in SUBSET ScopeNames, NEW allowed \in SUBSET ScopeNames
      PROVE  StringFromAllowed(names, allowed) = names \cap allowed
  <2>1. ASSUME NEW n \in StringFromAllowed(names, allowed) PROVE n \in allowed
    BY <1>2, <2>1 DEF StringFromAllowed
  <2> QED BY <1>1, <2>1
<1>3. ASSUME \A names, allowed \in SUBSET ScopeNames :
               StringFromAllowed(names, allowed) = names \cap allowed,
             NEW n \in ScopeNames, NEW m \in ScopeNames, <<n, m>> \in Infix
      PROVE  n = m
  <2>1. {n} \in SUBSET ScopeNames /\ {m} \in SUBSET ScopeNames
    OBVIOUS
  <2>2. StringFromAllowed({n}, {m}) = {n} \cap {m}
    BY <1>3, <2>1
  <2>3. n \in StringFromAllowed({n}, {m})
    BY <1>3 DEF StringFromAllowed
  <2> QED BY <2>2, <2>3
<1> QED BY <1>1, <1>2, <1>3

-----------------------------------------------------------------------------
(* Slots. *)

LEMMA DoneOK ==
    ASSUME NEW reply \in {"none", "ok", "error"}, NEW rights \in SUBSET ScopeNames
    PROVE  SlotOK(Done(reply, rights)) /\ Done(reply, rights).pc = "idle"
BY DEF SlotOK, Done, Handler

LEMMA AboutOK ==
    ASSUME NEW pc \in {"insert", "update", "list", "sign"}, NEW row \in User,
           NEW names \in SUBSET ScopeNames, NEW allowed \in SUBSET ScopeNames
    PROVE  SlotOK(About(pc, row, names, allowed))
BY Facts DEF SlotOK, About, Handler

LEMMA PutOK ==
    ASSUME SlotsOK, NEW h \in Handlers, NEW q, SlotOK(q), Put(h, q)
    PROVE  SlotsOK'
<1>1. handler' = [handler EXCEPT ![h] = q]
  BY DEF Put
<1>2. handler' \in [Handlers -> Handler]
  BY <1>1 DEF SlotsOK, SlotOK
<1>3. ASSUME NEW g \in Handlers PROVE SlotOK(handler'[g])
  <2>1. CASE g = h
    BY <1>1, <2>1 DEF SlotsOK
  <2>2. CASE g # h
    <3>1. handler'[g] = handler[g]
      BY <1>1, <2>2 DEF SlotsOK
    <3> QED BY <3>1 DEF SlotsOK
  <2> QED BY <2>1, <2>2
<1> QED BY <1>2, <1>3 DEF SlotsOK, SlotOK

(* A slot stays as it is, or does not act on rights, or holds the rights   *)
(* that the tables give its account after the step.                        *)
Sound(q, next) ==
    \/ next = q
    \/ next.pc \notin Acting
    \/ /\ next.names = NamesIn(scopes', links', next.row.id)
       /\ next.pc = "list" => Root \in next.names

LEMMA PutSound ==
    ASSUME SlotsOK, NEW h \in Handlers, NEW q, Put(h, q), Sound(handler[h], q)
    PROVE  \A g \in Handlers : Sound(handler[g], handler'[g])
BY DEF SlotsOK, Put, Sound

LEMMA RememberOK ==
    ASSUME SlotsOK, SlotsOK', TablesOK', held \in [Handlers -> SUBSET ScopeNames],
           Remember, ActsOnHeld,
           \A h \in Handlers : Sound(handler[h], handler'[h])
    PROVE  held' \in [Handlers -> SUBSET ScopeNames] /\ ActsOnHeld'
<1> DEFINE new(h) == NamesIn(scopes', links', handler'[h].row.id)
<1>1. \A h \in Handlers : new(h) \in SUBSET ScopeNames
  BY NamesInScopes DEF TablesOK
<1>2. \A h \in Handlers :
        held'[h] = IF handler'[h].pc \in Acting THEN held[h] \cup new(h) ELSE {}
  BY DEF Remember, Acting
<1>3. held' \in [Handlers -> SUBSET ScopeNames]
  BY <1>1 DEF Remember
<1>4. ASSUME NEW h \in Handlers, handler'[h].pc \in Acting
      PROVE  /\ handler'[h].names \subseteq held'[h]
             /\ handler'[h].pc = "list" => Root \in handler'[h].names
  <2> HIDE DEF new
  <2>1. CASE handler'[h] = handler[h]
    BY <1>2, <1>4, <2>1 DEF ActsOnHeld
  <2>2. CASE /\ handler'[h].names = new(h)
             /\ handler'[h].pc = "list" => Root \in handler'[h].names
    BY <1>2, <1>4, <2>2
  <2> QED BY <1>4, <2>1, <2>2 DEF Sound, new
<1> QED BY <1>3, <1>4 DEF ActsOnHeld

-----------------------------------------------------------------------------
(* What every action preserves of the tables and of the slots. *)

Tables == TablesOK /\ AccountsDiffer /\ LinksResolve

SlotsStep == SlotsOK' /\ \A h \in Handlers : Sound(handler[h], handler'[h])

LEMMA TablesKept == ASSUME Tables, UNCHANGED tables PROVE Tables'
BY DEF Tables, TablesOK, AccountsDiffer, LinksResolve, tables

LEMMA SlotsKept == ASSUME SlotsOK, UNCHANGED handler PROVE SlotsStep
BY DEF SlotsStep, SlotsOK, Sound

LEMMA PutStep ==
    ASSUME SlotsOK, NEW h \in Handlers, NEW q, SlotOK(q), Put(h, q), Sound(handler[h], q)
    PROVE  SlotsStep
BY PutOK, PutSound DEF SlotsStep

(* A handler that replies, or that goes on to a write. *)
LEMMA DoneStep ==
    ASSUME SlotsOK, NEW h \in Handlers, NEW reply \in {"none", "ok", "error"},
           NEW rights \in SUBSET ScopeNames, Put(h, Done(reply, rights))
    PROVE  SlotsStep
<1>1. SlotOK(Done(reply, rights)) /\ Done(reply, rights).pc = "idle"
  BY DoneOK
<1>2. Sound(handler[h], Done(reply, rights))
  BY <1>1 DEF Sound, Acting
<1> QED BY <1>1, <1>2, PutStep

LEMMA WriteStep ==
    ASSUME SlotsOK, NEW h \in Handlers, NEW row \in User,
           NEW pc \in {"insert", "update"}, Put(h, About(pc, row, {}, {}))
    PROVE  SlotsStep
<1>1. SlotOK(About(pc, row, {}, {}))
  BY AboutOK
<1>2. Sound(handler[h], About(pc, row, {}, {}))
  BY DEF Sound, Acting, About
<1> QED BY <1>1, <1>2, PutStep

(* A handler that has read the scopes of row and will act on them. *)
LEMMA ReadStep ==
    ASSUME SlotsOK, TablesOK, NEW h \in Handlers, NEW row \in User, NEW pc \in Acting,
           NEW allowed \in SUBSET ScopeNames, UNCHANGED tables,
           Put(h, About(pc, row, NamesOf(row.id), allowed)),
           pc = "list" => Root \in NamesOf(row.id)
    PROVE  SlotsStep
<1>1. NamesOf(row.id) \in SUBSET ScopeNames
  BY NamesInScopes DEF NamesOf, TablesOK
<1>2. SlotOK(About(pc, row, NamesOf(row.id), allowed))
  BY <1>1, AboutOK DEF Acting
<1>3. Sound(handler[h], About(pc, row, NamesOf(row.id), allowed))
  BY DEF Sound, Acting, About, NamesOf, NamesIn, tables
<1> QED BY <1>2, <1>3, PutStep

-----------------------------------------------------------------------------
(* The handlers. *)

LEMMA RegisterStep ==
    ASSUME SlotsOK, Tables, NEW h \in Handlers, NEW name \in Names, NEW email \in Emails,
           Register(h, name, email)
    PROVE  Tables' /\ SlotsStep
<1> DEFINE row == [id |-> 0, name |-> name, email |-> email, profile |-> Blank]
<1>1. Tables'
  BY TablesKept DEF Register
<1>2. row \in User
  BY Facts DEF User
<1>3. CASE Put(h, About("insert", row, {}, {}))
  <2> HIDE DEF row
  <2> QED BY <1>1, <1>2, <1>3, WriteStep
<1>4. CASE Put(h, Done("error", {}))
  BY <1>1, <1>4, DoneStep
<1> QED BY <1>1, <1>3, <1>4 DEF Register

(* A new row differs from every other: its id by the sequence, the rest by *)
(* the UNIQUE columns.                                                     *)
LEMMA InsertTables ==
    ASSUME Tables, NEW row \in User, row.id = lastUser + 1, Unique(row),
           lastUser < MaxUsers, lastUser' = lastUser + 1,
           users' = users \cup {row}, UNCHANGED <<scopes, links, lastScope>>
    PROVE  Tables'
<1>1. TablesOK'
  BY Facts DEF Tables, TablesOK, User
<1>2. ASSUME NEW u \in users PROVE u.id # row.id /\ u.name # row.name /\ u.email # row.email
  BY Facts DEF Tables, TablesOK, User, Unique
<1>3. AccountsDiffer'
  BY <1>2 DEF Tables, AccountsDiffer
<1>4. LinksResolve'
  BY DEF Tables, LinksResolve
<1> QED BY <1>1, <1>3, <1>4 DEF Tables

LEMMA DrawTables ==
    ASSUME Tables, lastUser < MaxUsers, lastUser' = lastUser + 1,
           UNCHANGED <<users, scopes, links, lastScope>>
    PROVE  Tables'
BY Facts DEF Tables, TablesOK, AccountsDiffer, LinksResolve, User

LEMMA CreateUserStep ==
    ASSUME SlotsOK, Tables, NEW h \in Handlers, CreateUser(h)
    PROVE  Tables' /\ SlotsStep
<1> DEFINE row == [handler[h].row EXCEPT !.id = NextId]
<1>1. handler[h].row \in User
  BY DEF SlotsOK, SlotOK, Handler, CreateUser
<1>2. row \in User /\ row.id = lastUser + 1
  BY <1>1 DEF User, Tables, TablesOK, NextId
<1>3. SlotsStep
  <2>1. PICK reply \in {"ok", "error"} : Put(h, Done(reply, {}))
    BY DEF CreateUser
  <2> QED BY <2>1, DoneStep
<1>4. Tables'
  <2> HIDE DEF row
  <2>1. CASE Unique(row) /\ users' = users \cup {row} /\ lastUser' = lastUser + 1
    BY <1>2, <2>1, InsertTables DEF CreateUser
  <2>2. CASE users' = users /\ lastUser' = lastUser + 1
    BY <2>2, DrawTables DEF CreateUser
  <2>3. CASE users' = users /\ lastUser' = lastUser
    BY <2>3, TablesKept DEF CreateUser, tables
  <2> QED BY <2>1, <2>2, <2>3 DEF CreateUser, row
<1> QED BY <1>3, <1>4

LEMMA ReadingSteps ==
    ASSUME SlotsOK, Tables, NEW h \in Handlers, NEW id,
           \/ \E form \in Profiles : SettingsPOST(h, id, form)
           \/ AdminGET(h, id)
           \/ \E allowed \in Allowed : GetUserById(h, id, allowed)
    PROVE  Tables' /\ SlotsStep
<1>1. Tables'
  BY TablesKept DEF SettingsPOST, AdminGET, GetUserById
<1>2. ASSUME NEW form \in Profiles, SettingsPOST(h, id, form) PROVE SlotsStep
  <2>1. PICK row \in users : Put(h, About("update", [row EXCEPT !.profile = form], {}, {}))
    BY <1>2 DEF SettingsPOST
  <2>2. [row EXCEPT !.profile = form] \in User
    BY DEF Tables, TablesOK, User
  <2> QED BY <2>1, <2>2, WriteStep
<1>3. ASSUME AdminGET(h, id) PROVE SlotsStep
  <2>1. PICK row \in users :
          /\ row.id = id
          /\ Put(h, IF Root \in NamesOf(id) THEN About("list", row, NamesOf(id), {})
                    ELSE Done("error", {}))
    BY <1>3 DEF AdminGET, Reads
  <2>2. row \in User /\ TablesOK /\ UNCHANGED tables
    BY <1>3 DEF Tables, TablesOK, AdminGET
  <2>3. CASE Root \in NamesOf(row.id)
    <3>1. Put(h, About("list", row, NamesOf(row.id), {}))
      BY <2>1, <2>3
    <3> QED BY <2>2, <2>3, <3>1, ReadStep DEF Acting
  <2>4. CASE Root \notin NamesOf(row.id)
    BY <2>1, <2>4, DoneStep
  <2> QED BY <2>3, <2>4
<1>4. ASSUME NEW allowed \in Allowed, GetUserById(h, id, allowed) PROVE SlotsStep
  <2>1. PICK row \in users : /\ row.id = id
                             /\ Put(h, About("sign", row, NamesOf(id), allowed))
    BY <1>4 DEF GetUserById, Reads
  <2>2. row \in User /\ TablesOK /\ UNCHANGED tables /\ allowed \in SUBSET ScopeNames
    BY <1>4, Facts DEF Tables, TablesOK, GetUserById
  <2>3. Put(h, About("sign", row, NamesOf(row.id), allowed))
    BY <2>1
  <2> QED BY <2>2, <2>3, ReadStep DEF Acting
<1> QED BY <1>1, <1>2, <1>3, <1>4

(* The UPDATE of a profile leaves every row its identity. *)
LEMMA SavedRows ==
    ASSUME TablesOK, NEW copy \in User
    PROVE  /\ Saved(copy) \subseteq User
           /\ \A u \in users : \E v \in Saved(copy) : Identity(v) = Identity(u)
           /\ \A v \in Saved(copy) : \E u \in users :
                /\ Identity(u) = Identity(v)
                /\ v = IF u.id = copy.id THEN [u EXCEPT !.profile = copy.profile] ELSE u
<1> DEFINE new(u) == IF u.id = copy.id THEN [u EXCEPT !.profile = copy.profile] ELSE u
<1>1. Saved(copy) = {new(u) : u \in users}
  BY DEF Saved, Updated
<1>2. ASSUME NEW u \in users
      PROVE  new(u) \in User /\ Identity(new(u)) = Identity(u)
  BY DEF TablesOK, User, Identity
<1> HIDE DEF new
<1>3. \A v \in Saved(copy) : \E u \in users : v = new(u) /\ Identity(u) = Identity(v)
  BY <1>1, <1>2
<1>4. \A u \in users : \E v \in Saved(copy) : Identity(v) = Identity(u)
  BY <1>1, <1>2
<1>5. Saved(copy) \subseteq User
  BY <1>1, <1>2
<1> QED BY <1>3, <1>4, <1>5 DEF new

LEMMA SavedTables ==
    ASSUME Tables, NEW copy \in User, users' = Saved(copy),
           UNCHANGED <<scopes, links, lastUser, lastScope>>
    PROVE  Tables'
<1>1. /\ users' \subseteq User
      /\ \A u \in users : \E v \in users' : v.id = u.id
      /\ \A v \in users' : \E u \in users :
           /\ u.id = v.id /\ u.name = v.name /\ u.email = v.email
           /\ v = IF u.id = copy.id THEN [u EXCEPT !.profile = copy.profile] ELSE u
  BY SavedRows DEF Tables, Identity
<1>2. TablesOK'
  BY <1>1 DEF Tables, TablesOK
<1>3. AccountsDiffer'
  BY <1>1 DEF Tables, AccountsDiffer
<1>4. LinksResolve'
  BY <1>1 DEF Tables, LinksResolve
<1> QED BY <1>2, <1>3, <1>4 DEF Tables

LEMMA UpdateUserProfileStep ==
    ASSUME SlotsOK, Tables, NEW h \in Handlers, UpdateUserProfile(h)
    PROVE  Tables' /\ SlotsStep
<1>1. handler[h].row \in User
  BY DEF SlotsOK, SlotOK, Handler, UpdateUserProfile
<1>2. SlotsStep
  <2>1. PICK reply \in {"ok", "error"} : Put(h, Done(reply, {}))
    BY DEF UpdateUserProfile
  <2> QED BY <2>1, DoneStep
<1>3. CASE users' = Saved(handler[h].row)
  BY <1>1, <1>2, <1>3, SavedTables DEF UpdateUserProfile
<1>4. CASE users' = users
  BY <1>2, <1>4, TablesKept DEF UpdateUserProfile, tables
<1> QED BY <1>3, <1>4 DEF UpdateUserProfile

LEMMA RepliesStep ==
    ASSUME SlotsOK, Tables, NEW h \in Handlers,
           Turned(h) \/ GetAllUsers(h) \/ GenerateAccess(h)
    PROVE  Tables' /\ SlotsStep
<1>1. Tables'
  BY TablesKept DEF Turned, GetAllUsers, GenerateAccess
<1>2. PICK reply \in {"ok", "error"}, rights \in SUBSET ScopeNames : Put(h, Done(reply, rights))
  <2>1. CASE GenerateAccess(h)
    <3>1. AccessScopes(handler[h].names, handler[h].allowed) \in SUBSET ScopeNames
      BY AccessScopesAreNames DEF SlotsOK, SlotOK, Handler
    <3> QED BY <2>1, <3>1 DEF GenerateAccess
  <2>2. CASE Turned(h)
    BY <2>2 DEF Turned
  <2>3. CASE GetAllUsers(h)
    BY <2>3, Facts DEF GetAllUsers
  <2> QED BY <2>1, <2>2, <2>3
<1> QED BY <1>1, <1>2, DoneStep

LEMMA CrashStep ==
    ASSUME SlotsOK, Tables, Crash
    PROVE  Tables' /\ SlotsStep
<1>1. \A h \in Handlers : handler'[h] = Done("none", {})
  BY DEF Crash
<1>2. SlotOK(Done("none", {})) /\ Done("none", {}).pc \notin Acting
  BY DoneOK DEF Acting
<1>3. handler' \in [Handlers -> Handler]
  BY <1>2 DEF Crash, SlotOK
<1> QED BY <1>1, <1>2, <1>3, TablesKept DEF Crash, SlotsStep, SlotsOK, Sound

-----------------------------------------------------------------------------
(* The operator. *)

LEMMA OperatingStep ==
    ASSUME SlotsOK, Tables, Operating
    PROVE  Tables' /\ SlotsStep
<1>0. SlotsStep
  BY SlotsKept DEF Operating, UpdateUser, DeleteUser, CreateScope, DeleteScope,
                   AddScopeToUser, RemoveScopeFromUser
<1>1. ASSUME NEW id, NEW name \in Names, NEW email \in Emails, UpdateUser(id, name, email)
      PROVE  Tables'
  <2>1. PICK u \in users : LET row == [u EXCEPT !.name = name, !.email = email]
                           IN  Unique(row) /\ users' = (users \ {u}) \cup {row}
    BY <1>1 DEF UpdateUser
  <2> DEFINE row == [u EXCEPT !.name = name, !.email = email]
  <2>2. row \in User /\ row.id = u.id
    BY DEF Tables, TablesOK, User
  <2>3. Unique(row) /\ users' = (users \ {u}) \cup {row}
    BY <2>1
  <2> HIDE DEF row
  <2>4. TablesOK'
    BY <1>1, <2>2, <2>3 DEF UpdateUser, Tables, TablesOK
  <2>5. ASSUME NEW v \in users \ {u}
        PROVE  v.id # row.id /\ v.name # row.name /\ v.email # row.email
    BY <2>2, <2>3 DEF Unique, Tables, AccountsDiffer
  <2>6. AccountsDiffer'
    BY <2>3, <2>5 DEF Tables, AccountsDiffer
  <2>7. LinksResolve'
    BY <1>1, <2>2, <2>3 DEF UpdateUser, Tables, LinksResolve
  <2> QED BY <2>4, <2>6, <2>7 DEF Tables
<1>2. ASSUME NEW id, DeleteUser(id) PROVE Tables'
  BY <1>2 DEF DeleteUser, Remaining, Tables, TablesOK, AccountsDiffer, LinksResolve
<1>3. ASSUME NEW name \in ScopeNames, CreateScope(name) PROVE Tables'
  <2> DEFINE row == [id |-> lastScope + 1, name |-> name]
  <2>1. /\ lastScope' = lastScope + 1 /\ lastScope' \in 0 .. MaxScopes
        /\ UNCHANGED <<users, links, lastUser>>
    BY <1>3, Facts DEF CreateScope, Tables, TablesOK
  <2>2. CASE scopes' = scopes
    BY <2>1, <2>2, Facts DEF Tables, TablesOK, AccountsDiffer, LinksResolve, Scope
  <2>3. CASE scopes' = scopes \cup {row} /\ \A s \in scopes : s.name # name
    <3>1. row \in Scope /\ row.id = lastScope + 1 /\ row.name = name
      BY DEF Scope, Tables, TablesOK
    <3> HIDE DEF row
    <3>2. TablesOK'
      BY <2>1, <2>3, <3>1, Facts DEF Tables, TablesOK, Scope
    <3>3. \A s \in scopes : s.id # row.id
      BY <3>1, Facts DEF Tables, TablesOK, Scope
    <3>4. LinksResolve' /\ AccountsDiffer'
      BY <2>1, <2>3, <3>1, <3>3 DEF Tables, LinksResolve, AccountsDiffer
    <3> QED BY <3>2, <3>4 DEF Tables
  <2> QED BY <1>3, <2>2, <2>3 DEF CreateScope
<1>4. ASSUME NEW id, DeleteScope(id) PROVE Tables'
  BY <1>4 DEF DeleteScope, Remaining, Tables, TablesOK, AccountsDiffer, LinksResolve
<1>5. ASSUME NEW id \in 1 .. lastUser, NEW scope \in 1 .. lastScope, AddScopeToUser(id, scope)
      PROVE  Tables'
  <2>1. [user |-> id, scope |-> scope] \in Link
    BY Facts DEF Link, Tables, TablesOK
  <2> QED BY <1>5, <2>1 DEF AddScopeToUser, Tables, TablesOK, AccountsDiffer, LinksResolve
<1>6. ASSUME NEW id, NEW scope, RemoveScopeFromUser(id, scope) PROVE Tables'
  BY <1>6 DEF RemoveScopeFromUser, Tables, TablesOK, AccountsDiffer, LinksResolve
<1> QED BY <1>0, <1>1, <1>2, <1>3, <1>4, <1>5, <1>6 DEF Operating

-----------------------------------------------------------------------------
(* The invariant. *)

LEMMA InitInv == Init => Inv
<1> SUFFICES ASSUME Init PROVE Inv
  OBVIOUS
<1>1. TablesOK /\ AccountsDiffer /\ LinksResolve
  BY Facts DEF Init, TablesOK, AccountsDiffer, LinksResolve
<1>2. SlotOK(Done("none", {})) /\ Done("none", {}).pc \notin Acting
  BY DoneOK DEF Acting
<1>3. \A h \in Handlers : handler[h] = Done("none", {})
  BY DEF Init
<1>4. handler \in [Handlers -> Handler]
  BY <1>2 DEF Init, SlotOK
<1>5. SlotsOK /\ ActsOnHeld
  BY <1>2, <1>3, <1>4 DEF SlotsOK, ActsOnHeld
<1>6. held \in [Handlers -> SUBSET ScopeNames]
  BY DEF Init
<1> QED BY <1>1, <1>5, <1>6, Parts DEF Inv

LEMMA NextInv == Inv /\ [Next]_vars => Inv'
<1> SUFFICES ASSUME Inv, [Next]_vars PROVE Inv'
  OBVIOUS
<1>1. Tables /\ SlotsOK /\ ActsOnHeld /\ held \in [Handlers -> SUBSET ScopeNames]
  BY Parts DEF Inv, Tables
<1>2. CASE UNCHANGED vars
  BY <1>2 DEF vars, tables, Inv, TypeOK, AccountsDiffer, LinksResolve, ActsOnHeld
<1>3. CASE Next
  <2>1. ASSUME NEW h \in Handlers, Registering(h) PROVE Tables' /\ SlotsStep
    BY <1>1, <2>1, RegisterStep, CreateUserStep DEF Registering
  <2>2. ASSUME NEW h \in Bearers, Bearing(h) PROVE Tables' /\ SlotsStep
    BY <1>1, <2>2, Facts, ReadingSteps, UpdateUserProfileStep, RepliesStep DEF Bearing
  <2>3. Tables' /\ SlotsStep
    BY <1>1, <1>3, <2>1, <2>2, OperatingStep, CrashStep DEF Next
  <2>4. held' \in [Handlers -> SUBSET ScopeNames] /\ ActsOnHeld'
    BY <1>1, <1>3, <2>3, RememberOK DEF Next, SlotsStep, Tables
  <2>5. TypeOK'
    BY <2>3, <2>4 DEF SlotsStep, Tables, TypeOK, TablesOK, SlotsOK, SlotOK
  <2> QED BY <2>3, <2>4, <2>5 DEF Inv, Tables
<1> QED BY <1>2, <1>3

(* Inv holds in every reachable state. *)
THEOREM Invariance == Spec => []Inv
BY InitInv, NextInv, PTL DEF Spec

(* The tables, the sequences and the slots keep their types. *)
THEOREM TypeCorrect == Spec => []TypeOK
<1>1. Inv => TypeOK
  BY DEF Inv
<1> QED BY <1>1, Invariance, PTL

(* No two accounts share an id, a name or an address, however many         *)
(* registrations and renamings overlap.                                    *)
THEOREM UniqueAccounts == Spec => []AccountsDiffer
<1>1. Inv => AccountsDiffer
  BY DEF Inv
<1> QED BY <1>1, Invariance, PTL

(* No link outlives its user or its scope. *)
THEOREM NoOrphans == Spec => []LinksResolve
<1>1. Inv => LinksResolve
  BY DEF Inv
<1> QED BY <1>1, Invariance, PTL

-----------------------------------------------------------------------------
(* The action properties. *)

(* Only CreateUser makes a row with an id that no row had, and its id is   *)
(* the next of the sequence: a token never comes to name another account.  *)
THEOREM StaysDeleted == Spec => DeletedForGood
<1>1. ASSUME Inv, [Next]_vars, NEW id \in 1 .. lastUser, \A u \in users : u.id # id
      PROVE  \A u \in users' : u.id # id
  <2>1. TablesOK /\ SlotsOK
    BY <1>1, Parts DEF Inv
  <2>2. CASE users' = users
    BY <1>1, <2>2, Zenon
  <2>3. ASSUME NEW h \in Handlers, CreateUser(h), ~ UNCHANGED users
        PROVE  \A u \in users' : u.id # id
    <3>1. users' = users \cup {[handler[h].row EXCEPT !.id = NextId]}
      BY <2>3 DEF CreateUser
    <3>2. handler[h].row \in User
      BY <2>1, <2>3 DEF SlotsOK, SlotOK, Handler, CreateUser
    <3>3. NextId # id
      BY <2>1, Facts DEF TablesOK, NextId
    <3>4. [handler[h].row EXCEPT !.id = NextId].id = NextId
      BY <3>2 DEF User
    <3> QED BY <1>1, <3>1, <3>3, <3>4
  <2>4. ASSUME NEW h \in Handlers, UpdateUserProfile(h), ~ UNCHANGED users
        PROVE  \A u \in users' : u.id # id
    <3>1. handler[h].row \in User /\ users' = Saved(handler[h].row)
      BY <2>1, <2>4 DEF SlotsOK, SlotOK, Handler, UpdateUserProfile
    <3>2. \A v \in users' : \E u \in users : Identity(u) = Identity(v)
      BY <2>1, <3>1, SavedRows
    <3>3. \A v \in users' : \E u \in users : u.id = v.id
      BY <3>2 DEF Identity
    <3> QED BY <1>1, <3>3
  <2>5. ASSUME NEW k, NEW name, NEW email, UpdateUser(k, name, email)
        PROVE  \A u \in users' : u.id # id
    BY <1>1, <2>1, <2>5 DEF UpdateUser, TablesOK, User
  <2>6. ASSUME NEW k, DeleteUser(k) PROVE \A u \in users' : u.id # id
    BY <1>1, <2>6 DEF DeleteUser
  <2>7. CASE Next
    <3>1. CASE Operating
      BY <2>2, <2>5, <2>6, <3>1 DEF Operating, CreateScope, DeleteScope,
         AddScopeToUser, RemoveScopeFromUser
    <3>2. ASSUME NEW h \in Handlers, Registering(h) PROVE \A u \in users' : u.id # id
      BY <2>2, <2>3, <3>2 DEF Registering, Register, tables
    <3>3. ASSUME NEW h \in Bearers, Bearing(h) PROVE \A u \in users' : u.id # id
      BY <2>2, <2>4, <3>3, Facts DEF Bearing, Turned, SettingsPOST, AdminGET,
         GetAllUsers, GetUserById, GenerateAccess, tables
    <3> QED BY <2>2, <2>7, <3>1, <3>2, <3>3 DEF Next, Crash, tables
  <2> QED BY <1>1, <2>2, <2>7 DEF vars, tables
<1>2. Inv /\ [Next]_vars =>
        [\A id \in 1 .. lastUser :
           (\A u \in users : u.id # id) => (\A u \in users' : u.id # id)]_vars
  BY <1>1
<1> QED BY <1>2, Invariance, PTL DEF Spec, DeletedForGood

(* Which step ends a handler that is not idle, and with which rights. *)
LEMMA EndingSteps ==
    ASSUME SlotsOK, Next, NEW h \in Handlers,
           handler[h].pc # "idle", handler'[h].pc = "idle"
    PROVE  \/ CreateUser(h) /\ handler'[h].rights = {}
           \/ UpdateUserProfile(h) /\ handler'[h].rights = {}
           \/ GetAllUsers(h) /\ handler'[h].rights = {Root}
           \/ /\ GenerateAccess(h)
              /\ handler'[h].rights = AccessScopes(handler[h].names, handler[h].allowed)
           \/ Crash /\ handler'[h].rights = {} /\ handler'[h].reply = "none"
<1>1. CASE Operating
  BY <1>1 DEF Operating, UpdateUser, DeleteUser, CreateScope, DeleteScope,
              AddScopeToUser, RemoveScopeFromUser
<1>2. CASE Crash
  BY <1>2 DEF Crash, Done
<1>3. ASSUME NEW g \in Handlers, g # h, NEW q, Put(g, q) PROVE FALSE
  BY <1>3 DEF Put, SlotsOK
<1>4. ASSUME NEW g \in Handlers, Registering(g) PROVE CreateUser(h) /\ handler'[h].rights = {}
  <2>1. g = h
    BY <1>3, <1>4 DEF Registering, Register, CreateUser
  <2>2. CreateUser(h)
    BY <1>4, <2>1 DEF Registering, Register
  <2>3. PICK reply : Put(h, Done(reply, {}))
    BY <2>2 DEF CreateUser
  <2> QED BY <2>2, <2>3 DEF Put, Done, SlotsOK
<1>5. ASSUME NEW g \in Bearers, Bearing(g)
      PROVE  \/ UpdateUserProfile(h) /\ handler'[h].rights = {}
             \/ GetAllUsers(h) /\ handler'[h].rights = {Root}
             \/ /\ GenerateAccess(h)
                /\ handler'[h].rights = AccessScopes(handler[h].names, handler[h].allowed)
  <2>1. g = h
    BY <1>3, <1>5, Facts DEF Bearing, Turned, SettingsPOST, UpdateUserProfile, AdminGET,
       GetAllUsers, GetUserById, GenerateAccess
  <2>2. UpdateUserProfile(h) \/ GetAllUsers(h) \/ GenerateAccess(h)
    BY <1>5, <2>1 DEF Bearing, Turned, SettingsPOST, AdminGET, GetUserById, Reads
  <2>3. ASSUME NEW reply, NEW rights, Put(h, Done(reply, rights))
        PROVE  handler'[h].rights = rights
    BY <2>3 DEF Put, Done, SlotsOK
  <2> QED BY <2>2, <2>3 DEF UpdateUserProfile, GetAllUsers, GenerateAccess
<1> QED BY <1>1, <1>2, <1>4, <1>5 DEF Next

(* Neither an access token nor the admin page stands on a scope that was   *)
(* taken away before the request read its account (authserver.go:162).     *)
THEOREM NoStaleRights == Spec => RightsWereHeld
<1>1. ASSUME Inv, [Next]_vars, NEW h \in Handlers,
             handler[h].pc # "idle", handler'[h].pc = "idle"
      PROVE  handler'[h].rights \subseteq held[h]
  <2>1. SlotsOK /\ Next
    BY <1>1, Parts DEF Inv, vars
  <2>2. CASE handler'[h].rights = {}
    BY <2>2
  <2>3. CASE GetAllUsers(h) /\ handler'[h].rights = {Root}
    BY <1>1, <2>3 DEF Inv, ActsOnHeld, Acting, GetAllUsers
  <2>4. CASE /\ GenerateAccess(h)
             /\ handler'[h].rights = AccessScopes(handler[h].names, handler[h].allowed)
    <3>1. handler[h].names \subseteq held[h]
      BY <1>1, <2>4 DEF Inv, ActsOnHeld, Acting, GenerateAccess
    <3> QED BY <2>4, <3>1, AccessScopesAreNames
  <2> QED BY <1>1, <2>1, <2>2, <2>3, <2>4, EndingSteps
<1>2. Inv /\ [Next]_vars =>
        [\A h \in Handlers :
           handler[h].pc # "idle" /\ handler'[h].pc = "idle"
             => handler'[h].rights \subseteq held[h]]_vars
  BY <1>1
<1> QED BY <1>2, Invariance, PTL DEF Spec, RightsWereHeld

(* Saving the settings from a copy undoes nothing that was changed since   *)
(* the copy was read (handler.go:579).                                     *)
THEOREM SettingsAreColumns == Spec => SettingsSaveProfileOnly
<1> DEFINE Good(h) ==
      LET copy == handler[h].row
      IN  /\ {Identity(u) : u \in users'} = {Identity(u) : u \in users}
          /\ {u \in users' : u.id # copy.id} = {u \in users : u.id # copy.id}
          /\ handler'[h].reply = "ok" =>
               \A u \in users' : u.id = copy.id => u.profile = copy.profile
<1>1. ASSUME Inv, [Next]_vars, NEW h \in Handlers,
             handler[h].pc = "update", handler'[h].pc = "idle"
      PROVE  Good(h)
  <2> DEFINE copy == handler[h].row
  <2>1. TablesOK /\ SlotsOK /\ Next
    BY <1>1, Parts DEF Inv, vars
  <2>2. copy \in User
    BY <1>1, <2>1 DEF SlotsOK, SlotOK, Handler
  <2>3. UpdateUserProfile(h) \/ (Crash /\ handler'[h].reply = "none")
    BY <1>1, <2>1, EndingSteps DEF CreateUser, GetAllUsers, GenerateAccess
  <2> HIDE DEF copy
  <2>4. CASE users' = users /\ handler'[h].reply # "ok"
    BY <2>4 DEF copy
  <2>5. CASE users' = Saved(copy)
    <3>1. /\ users' \subseteq User
          /\ \A u \in users : \E v \in users' : Identity(v) = Identity(u)
          /\ \A v \in users' : \E u \in users :
               /\ Identity(u) = Identity(v)
               /\ v = IF u.id = copy.id THEN [u EXCEPT !.profile = copy.profile] ELSE u
      BY <2>1, <2>2, <2>5, SavedRows
    <3>2. {Identity(u) : u \in users'} = {Identity(u) : u \in users}
      BY <3>1
    <3>3. ASSUME NEW v \in users'
          PROVE  /\ v.id = copy.id => v.profile = copy.profile
                 /\ v.id # copy.id => v \in users
      BY <2>1, <3>1 DEF Identity, TablesOK, User
    <3>4. ASSUME NEW u \in users, u.id # copy.id PROVE u \in users'
      BY <2>5, <3>4 DEF Saved
    <3> QED BY <3>2, <3>3, <3>4 DEF copy
  <2>6. UpdateUserProfile(h) => users' = Saved(copy) \/ (users' = users /\ handler'[h].reply # "ok")
    BY <2>1 DEF UpdateUserProfile, copy, Put, Done, SlotsOK
  <2> QED BY <2>3, <2>4, <2>5, <2>6 DEF Crash, tables
<1>2. Inv /\ [Next]_vars =>
        [\A h \in Handlers :
           handler[h].pc = "update" /\ handler'[h].pc = "idle" => Good(h)]_vars
  BY <1>1
<1> QED BY <1>2, Invariance, PTL DEF Spec, SettingsSaveProfileOnly

=============================================================================
