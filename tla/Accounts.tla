------------------------------- MODULE Accounts -------------------------------
(***************************************************************************)
(* The accounts of ZenithSSO: tables users, scopes and user_scopes, and    *)
(* the operations that change them or act on what they read from them      *)
(* (internal/db/repository.go, internal/authserver.go,                     *)
(* internal/rest/handler.go, the signing of access tokens in               *)
(* internal/jwt/tokens.go and the scope lists of internal/db/models.go).   *)
(*                                                                         *)
(* A handler that touches the tables by one statement is one action.  One  *)
(* that needs two reads in the first and acts in the second on what it has *)
(* read; anything may happen in between.  A scope string is the set of its *)
(* names.                                                                  *)
(***************************************************************************)
EXTENDS Naturals, FiniteSets

CONSTANTS
    Names,       \* user names
    Emails,      \* e-mail addresses; the empty one is one of them
    Profiles,    \* what the settings form can hold
    Blank,       \* the profile of a new account
    ScopeNames,  \* names of scopes
    Root,        \* the scope that opens the admin page
    Allowed,     \* the scope strings that codes and refresh tokens carry
    Infix,       \* the pairs of names whose first is a part of the second
    Handlers,    \* the slots of concurrent request handlers
    Bearers,     \* those of them that take more than registrations
    None,        \* no row
    MayFail,     \* whether statements may fail
    MaxUsers,    \* bound on the values drawn from the sequence of users
    MaxScopes    \* bound on the values drawn from the sequence of scopes

ASSUME ProfileAssumption == Blank \in Profiles
ASSUME RootAssumption    == Root \in ScopeNames
ASSUME AllowedAssumption == Allowed \subseteq SUBSET ScopeNames
ASSUME InfixAssumption   ==
    /\ Infix \subseteq ScopeNames \X ScopeNames
    /\ \A n \in ScopeNames : <<n, n>> \in Infix
ASSUME LimitAssumption   ==
    /\ Bearers \subseteq Handlers
    /\ MayFail \in BOOLEAN /\ MaxUsers \in Nat /\ MaxScopes \in Nat

User  == [id: Nat, name: Names, email: Emails, profile: Profiles]
Scope == [id: Nat, name: ScopeNames]
Link  == [user: Nat, scope: Nat]

ASSUME NoneAssumption == None \notin User

VARIABLES
    users,       \* table users
    scopes,      \* table scopes
    links,       \* table user_scopes
    lastUser,    \* the sequence of users.id, a BIGSERIAL
    lastScope,   \* the sequence of scopes.id
    handler,     \* the handler that runs in each slot
    held         \* history: the scopes that the account of the handler in
                 \* each slot has had since the handler read it

tables == <<users, scopes, links, lastUser, lastScope>>
vars   == <<tables, handler, held>>

Handler == [pc: {"idle", "insert", "update", "list", "sign"},
            row: User \cup {None},
            names: SUBSET ScopeNames,     \* the scopes read with the row
            allowed: SUBSET ScopeNames,
            rights: SUBSET ScopeNames,    \* what the reply stands on
            reply: {"none", "ok", "error"}]

(* The handler has replied.  What it did stood on these rights. *)
Done(reply, rights) ==
    [pc |-> "idle", row |-> None, names |-> {}, allowed |-> {},
     rights |-> rights, reply |-> reply]

(* The handler is about to act on what it has read. *)
About(pc, row, names, allowed) ==
    [pc |-> pc, row |-> row, names |-> names, allowed |-> allowed,
     rights |-> {}, reply |-> "none"]

Put(h, state) == handler' = [handler EXCEPT ![h] = state]

NamesIn(sc, li, id) ==
    {s.name : s \in {s \in sc : [user |-> id, scope |-> s.id] \in li}}

(* The scopes of the row with this id, as the join of users with           *)
(* user_scopes and scopes yields them in the statement that reads the row. *)
NamesOf(id) == NamesIn(scopes, links, id)

Init ==
    /\ users = {} /\ scopes = {} /\ links = {}
    /\ lastUser = 0 /\ lastScope = 0
    /\ handler = [h \in Handlers |-> Done("none", {})]
    /\ held = [h \in Handlers |-> {}]

-----------------------------------------------------------------------------
(* Registration: a look-up and an INSERT. *)

Taken(name) == \E u \in users : u.name = name

(* The name is free, and bcrypt takes the password. *)
Register(h, name, email) ==
    /\ handler[h].pc = "idle"
    /\ \/ /\ ~ Taken(name)
          /\ Put(h, About("insert", [id |-> 0, name |-> name, email |-> email,
                                     profile |-> Blank], {}, {}))
       \/ Put(h, Done("error", {}))
    /\ UNCHANGED tables

(* Mutant: the tables without their UNIQUE columns. *)
Anything(row) == TRUE

(* The UNIQUE columns of migration 1. *)
Unique(row) ==
    \A u \in users : u.id # row.id => u.name # row.name /\ u.email # row.email

(* Mutant: the smallest id that no row has. *)
SmallestFree ==
    CHOOSE n \in 1 .. lastUser + 1 :
        \A m \in 1 .. lastUser + 1 :
            (\A u \in users : u.id # m) => (\A u \in users : u.id # n) /\ n <= m

(* Mutant: the id that the sequence gave last. *)
LastId == lastUser

(* The sequence yields it to every INSERT that reaches the database, also  *)
(* to one that is refused or rolled back.                                  *)
NextId == lastUser + 1

CreateUser(h) ==
    LET row == [handler[h].row EXCEPT !.id = NextId]
    IN  /\ handler[h].pc = "insert"
        /\ lastUser < MaxUsers
        /\ \/ /\ lastUser' = lastUser + 1
              /\ \/ Unique(row) /\ users' = users \cup {row} /\ Put(h, Done("ok", {}))
                 \/ ~ Unique(row) /\ Put(h, Done("error", {})) /\ UNCHANGED users
           \/ /\ MayFail
              /\ Put(h, Done("error", {}))
              /\ \/ Unique(row) /\ users' = users \cup {row} /\ lastUser' = lastUser + 1
                 \/ UNCHANGED users /\ lastUser' \in {lastUser, lastUser + 1}
        /\ UNCHANGED <<scopes, links, lastScope>>

-----------------------------------------------------------------------------
(* What bearers of a token do: GetUserInfo, or GetUserById, reads the row  *)
(* and the scopes of the id in the token.  Signing in changes no table, so *)
(* there may be a token for every id that was drawn.                       *)

(* No such row, a token that has expired, or a statement that failed. *)
Turned(h) ==
    /\ handler[h].pc = "idle"
    /\ Put(h, Done("error", {}))
    /\ UNCHANGED tables

Reads(h, id, row) == handler[h].pc = "idle" /\ row.id = id

(* The form is put into the copy that was read. *)
SettingsPOST(h, id, form) ==
    /\ \E row \in users :
         /\ Reads(h, id, row)
         /\ Put(h, About("update", [row EXCEPT !.profile = form], {}, {}))
    /\ UNCHANGED tables

(* Mutant: the UPDATE writes the whole copy, as UpdateUser does. *)
Overwritten(row, copy) == copy

(* The UPDATE sets the four columns of the profile. *)
Updated(row, copy) == [row EXCEPT !.profile = copy.profile]

Saved(copy) == {IF u.id = copy.id THEN Updated(u, copy) ELSE u : u \in users}

(* It succeeds also if there is no such row any more. *)
UpdateUserProfile(h) ==
    /\ handler[h].pc = "update"
    /\ \/ users' = Saved(handler[h].row) /\ Put(h, Done("ok", {}))
       \/ /\ MayFail
          /\ users' = users \/ users' = Saved(handler[h].row)
          /\ Put(h, Done("error", {}))
    /\ UNCHANGED <<scopes, links, lastUser, lastScope>>

AdminGET(h, id) ==
    /\ \E row \in users :
         /\ Reads(h, id, row)
         /\ Put(h, IF Root \in NamesOf(id) THEN About("list", row, NamesOf(id), {})
                   ELSE Done("error", {}))
    /\ UNCHANGED tables

(* The page is shown even if the statement fails. *)
GetAllUsers(h) ==
    /\ handler[h].pc = "list"
    /\ Put(h, Done("ok", {Root}))
    /\ UNCHANGED tables

(* An exchange or a refresh reads the user whose tokens it will sign. *)
GetUserById(h, id, allowed) ==
    /\ \E row \in users :
         Reads(h, id, row) /\ Put(h, About("sign", row, NamesOf(id), allowed))
    /\ UNCHANGED tables

(* ScopesList.StringFromAllowed tests for a part of the string. *)
StringFromAllowed(names, allowed) ==
    {n \in names : \E a \in allowed : <<n, a>> \in Infix}

(* Mutant: the scopes of the refresh token are signed. *)
ScopesOfClaims(names, allowed) == IF allowed = {} THEN names ELSE allowed

(* The scopes of an access token; the empty string allows all of them. *)
AccessScopes(names, allowed) ==
    IF allowed = {} THEN names ELSE StringFromAllowed(names, allowed)

GenerateAccess(h) ==
    /\ handler[h].pc = "sign"
    /\ Put(h, Done("ok", AccessScopes(handler[h].names, handler[h].allowed)))
    /\ UNCHANGED tables

-----------------------------------------------------------------------------
(* The statements of an operator, or of a program that embeds the server. *)

UpdateUser(id, name, email) ==
    /\ \E u \in users :
         LET row == [u EXCEPT !.name = name, !.email = email]
         IN  u.id = id /\ Unique(row) /\ users' = (users \ {u}) \cup {row}
    /\ UNCHANGED <<scopes, links, lastUser, lastScope, handler>>

(* Mutant: user_scopes without ON DELETE CASCADE. *)
AllLinks(gone) == links

(* ON DELETE CASCADE, of both foreign keys of migration 3. *)
Remaining(gone) == links \ gone

DeleteUser(id) ==
    /\ users' = {u \in users : u.id # id}
    /\ links' = Remaining({l \in links : l.user = id})
    /\ UNCHANGED <<scopes, lastUser, lastScope, handler>>

CreateScope(name) ==
    /\ lastScope < MaxScopes
    /\ lastScope' = lastScope + 1
    /\ scopes' = IF \E s \in scopes : s.name = name THEN scopes
                 ELSE scopes \cup {[id |-> lastScope', name |-> name]}
    /\ UNCHANGED <<users, links, lastUser, handler>>

DeleteScope(id) ==
    /\ scopes' = {s \in scopes : s.id # id}
    /\ links' = Remaining({l \in links : l.scope = id})
    /\ UNCHANGED <<users, lastUser, lastScope, handler>>

(* Refused by the foreign keys if either row is gone. *)
AddScopeToUser(id, scope) ==
    /\ \E u \in users : u.id = id
    /\ \E s \in scopes : s.id = scope
    /\ links' = links \cup {[user |-> id, scope |-> scope]}
    /\ UNCHANGED <<users, scopes, lastUser, lastScope, handler>>

RemoveScopeFromUser(id, scope) ==
    /\ links' = links \ {[user |-> id, scope |-> scope]}
    /\ UNCHANGED <<users, scopes, lastUser, lastScope, handler>>

(* The process ends and is restarted. *)
Crash ==
    /\ handler' = [h \in Handlers |-> Done("none", {})]
    /\ UNCHANGED tables

-----------------------------------------------------------------------------
(* With the scopes that the account has after a step, what it has had. *)
Remember ==
    held' = [h \in Handlers |->
               IF handler'[h].pc \in {"list", "sign"}
               THEN held[h] \cup NamesIn(scopes', links', handler'[h].row.id)
               ELSE {}]

Registering(h) ==
    \/ \E name \in Names, email \in Emails : Register(h, name, email)
    \/ CreateUser(h)

Bearing(h) ==
    \/ Turned(h)
    \/ \E id \in 1 .. lastUser, form \in Profiles : SettingsPOST(h, id, form)
    \/ UpdateUserProfile(h)
    \/ \E id \in 1 .. lastUser : AdminGET(h, id)
    \/ GetAllUsers(h)
    \/ \E id \in 1 .. lastUser, allowed \in Allowed : GetUserById(h, id, allowed)
    \/ GenerateAccess(h)

Operating ==
    \/ \E id \in 1 .. lastUser, name \in Names, email \in Emails :
          UpdateUser(id, name, email)
    \/ \E id \in 1 .. lastUser : DeleteUser(id)
    \/ \E name \in ScopeNames : CreateScope(name)
    \/ \E id \in 1 .. lastScope : DeleteScope(id)
    \/ \E id \in 1 .. lastUser, scope \in 1 .. lastScope :
          AddScopeToUser(id, scope) \/ RemoveScopeFromUser(id, scope)

Next ==
    /\ \/ \E h \in Handlers : Registering(h)
       \/ \E h \in Bearers : Bearing(h)
       \/ Operating
       \/ Crash
    /\ Remember

Spec == Init /\ [][Next]_vars

-----------------------------------------------------------------------------
(* Properties. *)

(* The tables, sequences and slots have their types; a handler that acts   *)
(* for an account has read a row that was in the table.                    *)
TypeOK ==
    /\ users \subseteq User /\ scopes \subseteq Scope /\ links \subseteq Link
    /\ lastUser \in 0 .. MaxUsers /\ lastScope \in 0 .. MaxScopes
    /\ \A u \in users : u.id \in 1 .. lastUser
    /\ \A s \in scopes : s.id \in 1 .. lastScope
    /\ handler \in [Handlers -> Handler]
    /\ \A h \in Handlers : handler[h].pc = "idle" <=> handler[h].row = None
    /\ held \in [Handlers -> SUBSET ScopeNames]

(* However many registrations overlap between their look-up and their      *)
(* INSERT, and whatever is renamed meanwhile, an account is determined by  *)
(* its id, by its name and by its e-mail address.                          *)
AccountsDiffer ==
    \A u, v \in users : u.id = v.id \/ u.name = v.name \/ u.email = v.email => u = v

(* Every link joins rows that exist, although users and scopes are deleted *)
(* by statements of their own; and a name names one scope.                 *)
LinksResolve ==
    /\ \A l \in links : (\E u \in users : u.id = l.user) /\ (\E s \in scopes : s.id = l.scope)
    /\ \A s, t \in scopes : s.id = t.id \/ s.name = t.name => s = t

(* An account that was deleted is deleted for good: a token that names it  *)
(* never opens another account, not even one registered under its name.    *)
DeletedForGood ==
    [][\A id \in 1 .. lastUser :
         (\A u \in users : u.id # id) => (\A u \in users' : u.id # id)]_vars

Identity(u) == [id |-> u.id, name |-> u.name, email |-> u.email]

(* Saving the settings writes a copy that was read before, yet undoes no   *)
(* change of a name or an address made meanwhile, creates no account anew  *)
(* and touches no other; if it says so, the account has the form's profile.*)
SettingsSaveProfileOnly ==
    [][\A h \in Handlers :
         handler[h].pc = "update" /\ handler'[h].pc = "idle" =>
           LET copy == handler[h].row
           IN  /\ {Identity(u) : u \in users'} = {Identity(u) : u \in users}
               /\ {u \in users' : u.id # copy.id} = {u \in users : u.id # copy.id}
               /\ handler'[h].reply = "ok" =>
                    \A u \in users' : u.id = copy.id => u.profile = copy.profile]_vars

(* The scopes that an access token carries, and the scope that opens the   *)
(* admin page, are scopes the account had at some instant since its row    *)
(* was read for this request: a scope taken away before is never used.     *)
RightsWereHeld ==
    [][\A h \in Handlers :
         handler[h].pc # "idle" /\ handler'[h].pc = "idle"
           => handler'[h].rights \subseteq held[h]]_vars

=============================================================================
