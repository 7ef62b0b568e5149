---------------------------- MODULE BrowserSession ----------------------------
(***************************************************************************)
(* One browser with several tabs before the pages of ZenithSSO             *)
(* (internal/rest/handler.go, its templates and auth.js), composed with    *)
(* the code flow behind them: each tab has a slot of AuthorizationCodes    *)
(* for the consent it posts.                                               *)
(*                                                                         *)
(* The server keeps nothing of a journey from page to page.  The session   *)
(* is a signed cookie in a jar that the tabs share; the request of the     *)
(* application is the query of the URL, handed on by every redirect and,   *)
(* through auth.js, by every form.  A form sends each parameter twice, in  *)
(* its URL and in hidden inputs, and handlers take the first of the equal  *)
(* values.                                                                 *)
(***************************************************************************)
EXTENDS AuthorizationCodes

CONSTANTS
    States,      \* values of the parameter `state'
    Asked,       \* the requests that applications open the browser with
    SessionTTL,  \* 24 hours, in ticks
    MaxSignIns   \* bound on the times that right credentials are sent

Query   == [client: Clients \cup {NoClient}, uri: URIs, pkce: Challenges,
            scopes: Scopes, state: States]
Session == [user: Users, expires: Nat]      \* claims of a session token
Credentials == [user: Users, right: BOOLEAN]

ASSUME AskedAssumption   == Asked \subseteq Query
ASSUME SessionAssumption ==
    /\ SessionTTL \in Nat /\ MaxSignIns \in Nat
    /\ None \notin Query /\ None \notin Session /\ None \notin Credentials

VARIABLES
    jar,         \* the cookie sso_session
    tab,         \* the tabs
    signIns,     \* how often right credentials were sent
    asked,       \* history: the request each tab was opened with, if with one
    entered,     \* history: the users whose credentials were sent
    quiet        \* history: since the browser was signed out with nothing
                 \* else in flight, no right credentials were sent

pageVars    == <<jar, tab, signIns, asked, entered, quiet>>
browserVars == <<allVars, pageVars>>

Pages == {"blank", "authorize", "consent", "login", "settings", "app"}
Forms == {"signIn", "approve", "logIn", "logOut"}
Flow  == {"authorize", "signIn", "consent", "approve"}

(* A tab shows a page, waits for the answer to a request, or has got a     *)
(* redirect to follow, perhaps with a Set-Cookie of its own; `leaving' is  *)
(* a redirect that answers a log-out.                                      *)
Tab == [pc: {"page", "sent", "redirected", "leaving"}, at: Pages \cup Forms,
        query: Query \cup {None}, sid: Session \cup {None}, sets: BOOLEAN,
        cred: Credentials \cup {None}, code: AuthCode \cup {None}]

Page(at, query, code) ==
    [pc |-> "page", at |-> at, query |-> query, sid |-> None, sets |-> FALSE,
     cred |-> None, code |-> code]

(* The request has the cookie that the jar holds when it is sent. *)
Sent(at, query, sid, cred) ==
    [pc |-> "sent", at |-> at, query |-> query, sid |-> sid, sets |-> FALSE,
     cred |-> cred, code |-> None]

Redirect(at, query, sets, sid) ==
    [pc |-> "redirected", at |-> at, query |-> query, sid |-> sid, sets |-> sets,
     cred |-> None, code |-> None]

(* No page of the system yet, or one with nothing but an error. *)
Blank == Page("blank", None, None)

Put(s, t)     == tab' = [tab EXCEPT ![s] = t]
Refused(s)    == Put(s, Blank)
Waits(s, at)  == tab[s].pc = "sent" /\ tab[s].at = at

BrowserInit ==
    /\ CodesInit
    /\ jar = None
    /\ tab = [s \in Consenters |-> Blank]
    /\ signIns = 0
    /\ asked = [s \in Consenters |-> None]
    /\ entered = {}
    /\ quiet = TRUE

-----------------------------------------------------------------------------
(* What the user does in a tab that shows a page. *)

Goes(s, at, query) ==
    /\ tab[s].pc = "page"
    /\ Put(s, Sent(at, query, jar, None))
    /\ UNCHANGED <<jar, signIns, entered, quiet>>

(* An application, or a bookmark, opens a page of the flow. *)
Open(s, at, query) == Goes(s, at, query) /\ asked' = [asked EXCEPT ![s] = query]

Visit(s, at) == Goes(s, at, None) /\ asked' = [asked EXCEPT ![s] = None]

(* The form of the page, with the query of the page. *)
Enter(s, cred) ==
    /\ tab[s].pc = "page"
    /\ \/ tab[s].at = "authorize" /\ Put(s, Sent("signIn", tab[s].query, jar, cred))
       \/ tab[s].at = "login" /\ Put(s, Sent("logIn", None, jar, cred))
    /\ \/ /\ cred.right
          /\ signIns < MaxSignIns
          /\ signIns' = signIns + 1
          /\ entered' = entered \cup {cred.user}
          /\ quiet' = FALSE
       \/ ~ cred.right /\ UNCHANGED <<signIns, entered, quiet>>
    /\ UNCHANGED <<jar, asked>>

(* A bound: while there are unused codes for all who wait for one. *)
CodeToSpare ==
    Cardinality({t \in Consenters : Waits(t, "approve") /\ consent[t].row = None})
      < Cardinality(FreshCodes)

Approve(s) ==
    /\ tab[s].at = "consent"
    /\ CodeToSpare
    /\ Goes(s, "approve", tab[s].query)
    /\ UNCHANGED asked

LogOut(s) == tab[s].at = "settings" /\ Visit(s, "logOut")

(* A redirect has arrived: its cookie goes into the jar, or out of it, and *)
(* the next request has what is in the jar then.                           *)
Follow(s) ==
    /\ tab[s].pc \in {"redirected", "leaving"}
    /\ jar' = IF tab[s].sets THEN tab[s].sid ELSE jar
    /\ Put(s, Sent(tab[s].at, tab[s].query, jar', None))
    /\ quiet' = \/ quiet
                \/ /\ tab[s].pc = "leaving"
                   /\ \A t \in Consenters \ {s} : tab[t].pc = "page"
    /\ UNCHANGED <<signIns, asked, entered>>

-----------------------------------------------------------------------------
(* The handlers of the pages. *)

(* GetUserInfo: GetClaims, then GetUserById. *)
SignedIn(sid) == sid # None /\ now < sid.expires /\ sid.user \in users

(* It fails as well if its statement does. *)
NotSignedIn(sid) == ~ SignedIn(sid) \/ MayFail

Served == UNCHANGED <<jar, signIns, asked, entered, quiet>>

(* Mutant: whoever has a cookie is sent on. *)
HasCookie(sid) == sid # None

Recognised(sid) == SignedIn(sid)

(* Any other response_type ends like an unknown client. *)
AuthorizeGET(s) ==
    LET t     == tab[s]
        known == t.query.client \in Clients
    IN  /\ Waits(s, "authorize")
        /\ \/ ~ known /\ Refused(s)
           \/ MayFail /\ Refused(s)
           \/ /\ known /\ Recognised(t.sid)
              /\ Put(s, Redirect("consent", t.query, FALSE, None))
           \/ /\ known /\ (~ Recognised(t.sid) \/ MayFail)
              /\ Put(s, Page("authorize", t.query, None))
        /\ Served

(* Mutant: any password will do. *)
UserExists(cred) == cred.user \in users

(* GetUserByUsername and CheckPasswordHash. *)
ValidateUser(cred) == cred.right /\ cred.user \in users

(* CreateSessionToken. *)
NewSession(u) == [user |-> u, expires |-> now + SessionTTL]

(* Mutant: the form is shown again without the request. *)
BareForm(query) == None

(* The query of the URL, with an `error' beside it. *)
FormAgain(query) == query

AuthorizePOST(s) ==
    LET t == tab[s]
    IN  /\ Waits(s, "signIn")
        /\ \/ /\ ValidateUser(t.cred)
              /\ Put(s, Redirect("consent", t.query, TRUE, NewSession(t.cred.user)))
           \/ /\ ~ ValidateUser(t.cred) \/ MayFail
              /\ Put(s, Redirect("authorize", FormAgain(t.query), FALSE, None))
        /\ Served

ConsentGET(s) ==
    LET t == tab[s]
    IN  /\ Waits(s, "consent")
        /\ \/ SignedIn(t.sid) /\ Put(s, Page("consent", t.query, None))
           \/ NotSignedIn(t.sid) /\ Put(s, Redirect("authorize", t.query, FALSE, None))
        /\ Served

LoginGET(s) ==
    /\ Waits(s, "login")
    /\ \/ SignedIn(tab[s].sid) /\ Put(s, Redirect("settings", None, FALSE, None))
       \/ NotSignedIn(tab[s].sid) /\ Put(s, Page("login", None, None))
    /\ Served

LoginPOST(s) ==
    LET cred == tab[s].cred
    IN  /\ Waits(s, "logIn")
        /\ \/ /\ ValidateUser(cred)
              /\ Put(s, Redirect("settings", None, TRUE, NewSession(cred.user)))
           \/ /\ ~ ValidateUser(cred) \/ MayFail
              /\ Put(s, Redirect("login", None, FALSE, None))
        /\ Served

SettingsGET(s) ==
    /\ Waits(s, "settings")
    /\ \/ SignedIn(tab[s].sid) /\ Put(s, Page("settings", None, None))
       \/ NotSignedIn(tab[s].sid) /\ Put(s, Redirect("login", None, FALSE, None))
    /\ Served

(* Mutant: the cookie is left in the jar. *)
LoginPage == [Redirect("login", None, FALSE, None) EXCEPT !.pc = "leaving"]

(* MaxAge -1 deletes the cookie; the token in it stays valid. *)
SignedOut == [Redirect("login", None, TRUE, None) EXCEPT !.pc = "leaving"]

LogoutPOST(s) == Waits(s, "logOut") /\ Put(s, SignedOut) /\ Served

PageHandler(s) ==
    \/ AuthorizeGET(s) \/ AuthorizePOST(s) \/ ConsentGET(s)
    \/ LoginGET(s) \/ LoginPOST(s) \/ SettingsGET(s) \/ LogoutPOST(s)

-----------------------------------------------------------------------------
(* The handler of the consent form, whose statements are steps of          *)
(* AuthorizationCodes.                                                     *)

ParamsOf(u, q) ==
    [user |-> u, client |-> q.client, uri |-> q.uri, pkce |-> q.pkce, scopes |-> q.scopes]

(* No user is looked up without a cookie that verifies. *)
ConsentArrives(s) ==
    LET t        == tab[s]
        verifies == t.sid # None /\ now < t.sid.expires
    IN  /\ Waits(s, "approve")
        /\ consent[s].pc = "idle"
        /\ \/ /\ verifies
              /\ ConsentPOST(s, ParamsOf(t.sid.user, t.query))
              /\ UNCHANGED tab
           \/ ~ verifies /\ Refused(s) /\ UNCHANGED allVars
        /\ Served

(* When the handler ends, the tab is at redirect_uri?code=...&state=...,   *)
(* or shows the error.                                                     *)
ConsentStep(s) ==
    /\ GetUser(s) \/ GetClient(s) \/ SaveCode(s)
    /\ Put(s, IF consent'[s].pc # "idle" THEN tab[s]
              ELSE IF consent'[s].reply = "ok"
                   THEN Page("app", tab[s].query, consent[s].row)
                   ELSE Blank)
    /\ Served

-----------------------------------------------------------------------------
(* The rest of the system.  Requests that a crash catches end in an error. *)
CrashAllPages ==
    /\ CrashAll
    /\ tab' = [s \in Consenters |->
                 IF tab[s].pc = "sent" THEN Blank ELSE tab[s]]
    /\ Served

Elsewhere ==
    \/ \E r \in Requests : Redeeming(r)
    \/ \E r \in Requests : (Refuse(r) \/ Call(r) \/ Statement(r)) /\ UNCHANGED codeVars
    \/ (CleanExpiredTokens \/ Tick) /\ UNCHANGED codeVars
    \/ \E u \in Users : DeleteUserAndCodes(u)

UserActs(s) ==
    \/ \E at \in {"authorize", "consent"}, q \in Asked : Open(s, at, q)
    \/ \E at \in {"login", "settings"} : Visit(s, at)
    \/ \E cred \in Credentials : Enter(s, cred)
    \/ Approve(s)
    \/ LogOut(s)

(* What goes on by itself once a tab has sent a request. *)
Navigating(s) ==
    \/ (Follow(s) \/ PageHandler(s)) /\ UNCHANGED allVars
    \/ ConsentArrives(s)
    \/ ConsentStep(s)

BrowserNext ==
    \/ \E s \in Consenters : UserActs(s) /\ UNCHANGED allVars
    \/ \E s \in Consenters : Navigating(s)
    \/ Elsewhere /\ UNCHANGED pageVars
    \/ CrashAllPages

BrowserSpec == BrowserInit /\ [][BrowserNext]_browserVars

(* Handlers answer and browsers follow redirects. *)
BrowserFairness == \A s \in Consenters : WF_browserVars(Navigating(s))

FairBrowserSpec == BrowserSpec /\ BrowserFairness

-----------------------------------------------------------------------------
(* Properties. *)

TabOK(t) ==
    /\ t \in Tab
    /\ t.pc # "sent" => t.at \in Pages
    /\ t.pc = "page" => t.sid = None
    /\ t.at \in Flow => t.query # None
    /\ t.cred # None <=> t.pc = "sent" /\ t.at \in {"signIn", "logIn"}
    /\ t.code # None <=> t.at = "app"
    /\ t.code # None => t.pc = "page"
    /\ t.sets => t.pc \in {"redirected", "leaving"}
    /\ t.pc = "leaving" => t.sets /\ t.sid = None

(* The jar and the tabs have their types, a page of the flow knows the     *)
(* request it is about, and a tab waits while a handler works for it.      *)
BrowserTypeOK ==
    /\ jar \in Session \cup {None}
    /\ tab \in [Consenters -> Tab]
    /\ \A s \in Consenters : TabOK(tab[s])
    /\ \A s \in Consenters : consent[s].pc # "idle" => Waits(s, "approve")
    /\ signIns \in 0 .. MaxSignIns
    /\ asked \in [Consenters -> Asked \cup {None}]
    /\ entered \subseteq Users
    /\ quiet \in BOOLEAN

Fulfils(code, q) ==
    /\ code.client = q.client /\ code.uri = q.uri
    /\ code.pkce = q.pkce /\ code.scopes = q.scopes

(* However often a journey is thrown back to the password form, by a wrong *)
(* password, an expired session or a log-out in another tab, it is about   *)
(* the request the application made, and the application gets back a code  *)
(* for just that request, with its own `state'.                            *)
RequestSurvives ==
    \A s \in Consenters :
        /\ tab[s].at \in Flow => tab[s].query = asked[s]
        /\ tab[s].at = "app" =>
             tab[s].query = asked[s] /\ Fulfils(tab[s].code, asked[s])

(* No tab, cookie or redirect of the browser leads to a code for a user    *)
(* whose password was not entered in it.                                   *)
CodesForEnteredUsers ==
    \A k \in CodeIds : consented[k] # None => consented[k].user \in entered

(* Logging out clears the cookie of all tabs: unless one of them was in    *)
(* the middle of a request, no code is stored before a password is entered *)
(* again, whatever pages the tabs still show (handler.go:591).             *)
NoCodeAfterLogout == [][quiet => codes' \subseteq codes]_browserVars

(* The authorize and the consent page, and the login and the settings      *)
(* page, redirect to each other; a tab does not go back and forth between  *)
(* them for ever.                                                          *)
NavigationsEnd == \A s \in Consenters : tab[s].pc # "page" ~> tab[s].pc = "page"

=============================================================================
