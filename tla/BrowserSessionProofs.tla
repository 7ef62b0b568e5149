------------------------- MODULE BrowserSessionProofs -------------------------
(***************************************************************************)
(* Theorems about BrowserSession: it implements AuthorizationCodes, whose   *)
(* theorems therefore hold of it, the tabs of a browser do not mix up the  *)
(* requests they are about, and codes and sessions go back to a password   *)
(* that was entered.                                                       *)
(***************************************************************************)
EXTENDS BrowserSession, AuthorizationCodesProofs

LEMMA BrowserConstantFacts ==
    /\ Asked \subseteq Query /\ SessionTTL \in Nat /\ MaxSignIns \in Nat
    /\ None \notin Query /\ None \notin Session /\ None \notin Credentials
BY AskedAssumption, SessionAssumption

-----------------------------------------------------------------------------
(* The inductive invariant. *)

(* A tab in the flow is about request q. *)
About(t, q) ==
    /\ t.at \in Flow => t.query = q
    /\ t.at = "app" => t.query = q /\ Fulfils(t.code, q)

(* Behind its cookie and its right credentials are users of E. *)
Backed(t, E) ==
    /\ t.sid # None => t.sid.user \in E
    /\ t.cred # None /\ t.cred.right => t.cred.user \in E

(* What a tab has in flight cannot sign anyone in. *)
Harmless(t) == t.sid = None /\ (t.cred # None => ~ t.cred.right)

(* A handler that stores a code does so for a user of E and for request q. *)
Carries(h, E, q) ==
    /\ h.ask # None => h.ask.user \in E /\ Fulfils(h.ask, q)
    /\ h.row # None => h.row.user \in E /\ Fulfils(h.row, q)

(* Once the browser is signed out, nothing is left to store a code with.   *)
Quiet ==
    quiet => /\ jar = None
             /\ \A s \in Consenters : Harmless(tab[s]) /\ consent[s].pc = "idle"

BrowserInv ==
    /\ BrowserTypeOK
    /\ \A s \in Consenters : /\ About(tab[s], asked[s])
                             /\ Backed(tab[s], entered)
                             /\ Carries(consent[s], entered, asked[s])
    /\ jar # None => jar.user \in entered
    /\ CodesForEnteredUsers
    /\ Quiet

LEMMA BrowserInitInv == BrowserInit => BrowserInv
<1> SUFFICES ASSUME BrowserInit PROVE BrowserInv
  OBVIOUS
<1>1. TabOK(Blank) /\ Harmless(Blank) /\ Backed(Blank, {}) /\ About(Blank, None)
  BY DEF TabOK, Tab, Blank, Page, Pages, Flow, Harmless, Backed, About
<1>2. \A s \in Consenters :
        /\ tab[s] = Blank /\ asked[s] = None /\ consent[s] = NoHandler("none")
  BY DEF BrowserInit, CodesInit
<1>3. BrowserTypeOK
  BY <1>1, <1>2, BrowserConstantFacts DEF BrowserInit, BrowserTypeOK, NoHandler, TabOK
<1>4. CodesForEnteredUsers
  BY DEF BrowserInit, CodesInit, CodesForEnteredUsers
<1>5. Quiet
  BY <1>1, <1>2 DEF Quiet, BrowserInit, NoHandler
<1> QED BY <1>1, <1>2, <1>3, <1>4, <1>5 DEF BrowserInv, BrowserInit, Carries, NoHandler

-----------------------------------------------------------------------------
(* Steps of one tab that leave the handlers of the consents alone. *)

(* A handler that stores a code works for a tab that waits for it. *)
LEMMA NotWaiting ==
    ASSUME BrowserInv, NEW s \in Consenters, ~ Waits(s, "approve")
    PROVE  consent[s].pc = "idle"
BY DEF BrowserInv, BrowserTypeOK

LEMMA TabStep ==
    ASSUME BrowserInv, CodesInv, NEW s \in Consenters, NEW t,
           ~ Waits(s, "approve") \/ consent[s].pc = "idle",
           Put(s, t), UNCHANGED <<consent, consented>>,
           TabOK(t),
           jar' \in Session \cup {None},
           signIns' \in 0 .. MaxSignIns,
           entered \subseteq entered', entered' \subseteq Users,
           asked' \in [Consenters -> Asked \cup {None}],
           \A o \in Consenters \ {s} : asked'[o] = asked[o],
           About(t, asked'[s]), Backed(t, entered'),
           jar' # None => jar'.user \in entered',
           quiet' \in BOOLEAN,
           quiet' => /\ jar' = None /\ Harmless(t)
                     /\ \A o \in Consenters \ {s} :
                          Harmless(tab[o]) /\ consent[o].pc = "idle"
    PROVE  BrowserInv'
<1>1. /\ consent[s].pc = "idle"
      /\ \A o \in Consenters : tab'[o] = IF o = s THEN t ELSE tab[o]
  BY NotWaiting DEF Put, BrowserInv, BrowserTypeOK
<1>2. consent[s].ask = None /\ consent[s].row = None
  BY <1>1 DEF CodesInv, CodesTypeOK, HandlerTypeOK
<1>3. BrowserTypeOK'
  <2>1. tab' \in [Consenters -> Tab]
    BY <1>1 DEF Put, TabOK, BrowserInv, BrowserTypeOK
  <2>2. \A o \in Consenters : TabOK(tab'[o])
    BY <1>1 DEF BrowserInv, BrowserTypeOK
  <2>3. \A o \in Consenters : consent'[o].pc # "idle" => Waits(o, "approve")'
    BY <1>1 DEF BrowserInv, BrowserTypeOK, Waits
  <2> QED BY <2>1, <2>2, <2>3 DEF BrowserTypeOK
<1>4. \A o \in Consenters : About(tab'[o], asked'[o])
  BY <1>1 DEF BrowserInv
<1>5. \A o \in Consenters : Backed(tab'[o], entered')
  BY <1>1 DEF BrowserInv, Backed
<1>6. \A o \in Consenters : Carries(consent'[o], entered', asked'[o])
  BY <1>2 DEF BrowserInv, Carries
<1>7. CodesForEnteredUsers'
  BY DEF BrowserInv, CodesForEnteredUsers
<1>8. Quiet'
  BY <1>1 DEF Quiet
<1> QED BY <1>3, <1>4, <1>5, <1>6, <1>7, <1>8 DEF BrowserInv

-----------------------------------------------------------------------------
(* The user. *)

(* The request that a tab sends with the cookie of the jar. *)
LEMMA SentOK ==
    ASSUME BrowserInv, NEW at \in Pages \cup Forms, NEW query \in Query \cup {None},
           at \in Flow => query # None, at # "app",
           NEW cred \in Credentials \cup {None},
           cred # None <=> at \in {"signIn", "logIn"}
    PROVE  /\ TabOK(Sent(at, query, jar, cred))
           /\ About(Sent(at, query, jar, cred), query)
           /\ cred = None => /\ Backed(Sent(at, query, jar, cred), entered)
                             /\ jar = None => Harmless(Sent(at, query, jar, cred))
BY DEF TabOK, Tab, Sent, About, Backed, Harmless, BrowserInv, BrowserTypeOK

LEMMA GoesInv ==
    ASSUME BrowserInv, CodesInv, UNCHANGED allVars, NEW s \in Consenters,
           NEW at \in Pages \cup Forms, NEW query \in Query \cup {None},
           at \in Flow => query # None, at \notin {"app", "signIn", "logIn"},
           Goes(s, at, query),
           asked' \in [Consenters -> Asked \cup {None}],
           \A o \in Consenters \ {s} : asked'[o] = asked[o],
           at \in Flow => query = asked'[s]
    PROVE  BrowserInv'
<1> DEFINE t == Sent(at, query, jar, None)
<1>1. /\ TabOK(t) /\ Backed(t, entered) /\ About(t, query)
      /\ jar = None => Harmless(t)
  BY SentOK
<1>2. About(t, asked'[s])
  BY <1>1 DEF About, Sent
<1>3. /\ Put(s, t) /\ ~ Waits(s, "approve")
      /\ UNCHANGED <<consent, consented, jar, signIns, entered, quiet>>
  BY DEF Goes, Waits, allVars, codeVars
<1>4. quiet => /\ jar = None
               /\ \A o \in Consenters : Harmless(tab[o]) /\ consent[o].pc = "idle"
  BY DEF BrowserInv, Quiet
<1> HIDE DEF t
<1> QED BY <1>1, <1>2, <1>3, <1>4, TabStep DEF BrowserInv, BrowserTypeOK

LEMMA EnterInv ==
    ASSUME BrowserInv, CodesInv, UNCHANGED allVars, NEW s \in Consenters,
           NEW cred \in Credentials, Enter(s, cred)
    PROVE  BrowserInv'
<1>1. PICK at \in {"signIn", "logIn"}, query \in Query \cup {None} :
        /\ Put(s, Sent(at, query, jar, cred))
        /\ at = "signIn" => query # None /\ query = asked[s]
  <2>1. TabOK(tab[s]) /\ About(tab[s], asked[s])
    BY DEF BrowserInv, BrowserTypeOK
  <2>2. CASE tab[s].at = "authorize" /\ Put(s, Sent("signIn", tab[s].query, jar, cred))
    BY <2>1, <2>2 DEF TabOK, Tab, About, Flow
  <2>3. CASE tab[s].at = "login" /\ Put(s, Sent("logIn", None, jar, cred))
    BY <2>3
  <2> QED BY <2>2, <2>3 DEF Enter
<1> DEFINE t == Sent(at, query, jar, cred)
<1>2. TabOK(t) /\ About(t, query)
  BY <1>1, SentOK, BrowserConstantFacts DEF Flow, Forms
<1>3. About(t, asked[s])
  BY <1>1, <1>2 DEF About, Sent, Flow
<1>4. ~ Waits(s, "approve") /\ UNCHANGED <<consent, consented, jar, asked>>
  BY DEF Enter, Waits, allVars, codeVars
<1>5. /\ entered \subseteq entered' /\ entered' \subseteq Users
      /\ signIns' \in 0 .. MaxSignIns
      /\ cred.right => cred.user \in entered'
      /\ quiet' \in BOOLEAN /\ (quiet' => quiet /\ ~ cred.right)
  <2>1. /\ entered \subseteq Users /\ signIns \in 0 .. MaxSignIns /\ MaxSignIns \in Nat
        /\ quiet \in BOOLEAN /\ cred.user \in Users
    BY BrowserConstantFacts DEF BrowserInv, BrowserTypeOK, Credentials
  <2>2. CASE cred.right /\ signIns < MaxSignIns /\ signIns' = signIns + 1
             /\ entered' = entered \cup {cred.user} /\ quiet' = FALSE
    <3>1. signIns' \in 0 .. MaxSignIns
      BY <2>1, <2>2
    <3>2. entered \subseteq entered' /\ entered' \subseteq Users /\ cred.user \in entered'
      BY <2>1, <2>2
    <3>3. quiet' \in BOOLEAN /\ ~ quiet'
      BY <2>2, Zenon
    <3> QED BY <3>1, <3>2, <3>3
  <2>3. CASE ~ cred.right /\ UNCHANGED <<signIns, entered, quiet>>
    BY <2>1, <2>3
  <2> QED BY <2>2, <2>3 DEF Enter
<1>6. /\ Backed(t, entered')
      /\ quiet' => /\ jar = None /\ Harmless(t)
                   /\ \A o \in Consenters : Harmless(tab[o]) /\ consent[o].pc = "idle"
  BY <1>5 DEF BrowserInv, Quiet, Backed, Harmless, Sent
<1> HIDE DEF t
<1> QED BY <1>1, <1>2, <1>3, <1>4, <1>5, <1>6, TabStep DEF BrowserInv, BrowserTypeOK, t

LEMMA UserActsInv ==
    ASSUME BrowserInv, CodesInv, UNCHANGED allVars, NEW s \in Consenters, UserActs(s)
    PROVE  BrowserInv'
<1>1. TabOK(tab[s]) /\ About(tab[s], asked[s])
      /\ asked \in [Consenters -> Asked \cup {None}]
  BY DEF BrowserInv, BrowserTypeOK
<1>2. ASSUME NEW at \in {"authorize", "consent"}, NEW q \in Asked, Open(s, at, q)
      PROVE  BrowserInv'
  BY <1>1, <1>2, GoesInv, BrowserConstantFacts DEF Open, Pages, Flow
<1>3. ASSUME NEW at \in {"login", "settings", "logOut"}, Visit(s, at)
      PROVE  BrowserInv'
  BY <1>1, <1>3, GoesInv DEF Visit, Pages, Forms, Flow
<1>4. CASE Approve(s)
  <2>1. tab[s].query = asked[s] /\ tab[s].query \in Query
    BY <1>1, <1>4 DEF Approve, About, TabOK, Tab, Flow
  <2> QED BY <1>1, <1>4, <2>1, GoesInv, BrowserConstantFacts DEF Approve, Forms, Flow
<1> QED BY <1>2, <1>3, <1>4, EnterInv DEF UserActs, LogOut

-----------------------------------------------------------------------------
(* The browser and the handlers of the pages. *)

LEMMA FollowInv ==
    ASSUME BrowserInv, CodesInv, UNCHANGED allVars, NEW s \in Consenters, Follow(s)
    PROVE  BrowserInv'
<1> DEFINE t == Sent(tab[s].at, tab[s].query, jar', None)
<1>1. /\ TabOK(tab[s]) /\ About(tab[s], asked[s]) /\ Backed(tab[s], entered)
      /\ tab[s].pc \in {"redirected", "leaving"} /\ ~ Waits(s, "approve")
  BY DEF BrowserInv, BrowserTypeOK, Follow, Waits
<1>2. jar' \in Session \cup {None} /\ (jar' # None => jar'.user \in entered)
  BY <1>1 DEF Follow, BrowserInv, BrowserTypeOK, TabOK, Tab, Backed
<1>3. TabOK(t) /\ About(t, asked[s]) /\ Backed(t, entered)
  <2>1. /\ tab[s].at \in Pages \ {"app"} /\ tab[s].query \in Query \cup {None}
        /\ tab[s].at \in Flow => tab[s].query # None
    BY <1>1 DEF TabOK, Tab
  <2>2. TabOK(t)
    BY <1>2, <2>1 DEF TabOK, Tab, Sent, Pages
  <2> QED BY <1>1, <1>2, <2>1, <2>2 DEF About, Backed, Sent
<1>4. /\ Put(s, t) /\ UNCHANGED <<consent, consented, signIns, asked, entered>>
  BY DEF Follow, allVars, codeVars
<1>5. jar' = None => Harmless(t)
  BY DEF Harmless, Sent
<1>6. quiet' \in BOOLEAN
  BY Zenon DEF Follow
<1>7. ASSUME quiet'
      PROVE  /\ jar' = None
             /\ \A o \in Consenters \ {s} : Harmless(tab[o]) /\ consent[o].pc = "idle"
  <2>1. CASE quiet
    BY <2>1 DEF Follow, BrowserInv, Quiet, Harmless
  <2>2. CASE /\ tab[s].pc = "leaving"
             /\ \A o \in Consenters \ {s} : tab[o].pc = "page"
    <3>1. \A o \in Consenters \ {s} : Harmless(tab[o]) /\ consent[o].pc = "idle"
      BY <2>2, NotWaiting DEF BrowserInv, BrowserTypeOK, TabOK, Harmless, Waits
    <3>2. jar' = None
      BY <1>1, <2>2 DEF TabOK, Follow
    <3> QED BY <3>1, <3>2
  <2> QED BY <1>7, <2>1, <2>2 DEF Follow
<1> HIDE DEF t
<1> QED BY <1>1, <1>2, <1>3, <1>4, <1>5, <1>6, <1>7, TabStep DEF BrowserInv, BrowserTypeOK

LEMMA AnsweredInv ==
    ASSUME BrowserInv, CodesInv, UNCHANGED allVars, NEW s \in Consenters, NEW t,
           ~ Waits(s, "approve") \/ consent[s].pc = "idle",
           Put(s, t), Served,
           TabOK(t), About(t, asked[s]), Backed(t, entered), quiet => Harmless(t)
    PROVE  BrowserInv'
<1>1. UNCHANGED <<consent, consented, jar, signIns, asked, entered, quiet>>
  BY DEF Served, allVars, codeVars
<1>2. quiet => /\ jar = None
               /\ \A o \in Consenters : Harmless(tab[o]) /\ consent[o].pc = "idle"
  BY DEF BrowserInv, Quiet
<1> QED BY <1>1, <1>2, TabStep DEF BrowserInv, BrowserTypeOK

(* What handlers answer with: a page, or a redirect that sets no cookie,   *)
(* clears it or sets that of a user who signed in.                         *)
LEMMA PageOK ==
    ASSUME NEW at \in Pages \ {"app"}, NEW query \in Query \cup {None}, NEW E,
           at \in Flow => query # None
    PROVE  /\ TabOK(Page(at, query, None)) /\ About(Page(at, query, None), query)
           /\ Backed(Page(at, query, None), E) /\ Harmless(Page(at, query, None))
BY DEF TabOK, Tab, Page, About, Backed, Harmless

LEMMA RedirectOK ==
    ASSUME NEW at \in Pages \ {"app"}, NEW query \in Query \cup {None}, NEW E,
           at \in Flow => query # None, NEW sid \in Session \cup {None},
           sid # None => sid.user \in E, NEW sets \in BOOLEAN
    PROVE  /\ TabOK(Redirect(at, query, sets, sid))
           /\ About(Redirect(at, query, sets, sid), query)
           /\ Backed(Redirect(at, query, sets, sid), E)
           /\ sid = None => Harmless(Redirect(at, query, sets, sid))
BY DEF TabOK, Tab, Redirect, About, Backed, Harmless

(* An answer that is about the request of the tab, or about none. *)
LEMMA ShowsInv ==
    ASSUME BrowserInv, CodesInv, UNCHANGED allVars, NEW s \in Consenters,
           ~ Waits(s, "approve") \/ consent[s].pc = "idle",
           Served, NEW at \in Pages \ {"app"},
           NEW query \in Query \cup {None},
           at \in Flow => query # None /\ query = asked[s],
           Put(s, Page(at, query, None))
    PROVE  BrowserInv'
<1> DEFINE t == Page(at, query, None)
<1>1. TabOK(t) /\ About(t, query) /\ Backed(t, entered) /\ Harmless(t)
  BY PageOK
<1>2. About(t, asked[s])
  BY <1>1 DEF About, Page
<1>3. Put(s, t)
  OBVIOUS
<1> HIDE DEF t
<1> QED BY <1>1, <1>2, <1>3, AnsweredInv

LEMMA RedirectsInv ==
    ASSUME BrowserInv, CodesInv, UNCHANGED allVars, NEW s \in Consenters,
           ~ Waits(s, "approve"), Served, NEW at \in Pages \ {"app"},
           NEW query \in Query \cup {None},
           at \in Flow => query # None /\ query = asked[s],
           NEW sets \in BOOLEAN, NEW sid \in Session \cup {None},
           sid # None => sid.user \in entered /\ ~ quiet,
           Put(s, Redirect(at, query, sets, sid))
    PROVE  BrowserInv'
<1> DEFINE t == Redirect(at, query, sets, sid)
<1>1. /\ TabOK(t) /\ About(t, query) /\ Backed(t, entered)
      /\ sid = None => Harmless(t)
  BY RedirectOK
<1>2. About(t, asked[s])
  BY <1>1 DEF About, Redirect
<1>3. Put(s, t)
  OBVIOUS
<1> HIDE DEF t
<1> QED BY <1>1, <1>2, <1>3, AnsweredInv

(* Whoever has the right credentials entered them. *)
LEMMA ValidatedOK ==
    ASSUME BrowserInv, Inv, NEW s \in Consenters, ValidateUser(tab[s].cred),
           tab[s].cred # None
    PROVE  /\ NewSession(tab[s].cred.user) \in Session
           /\ NewSession(tab[s].cred.user).user \in entered
           /\ ~ quiet
<1>1. TabOK(tab[s]) /\ Backed(tab[s], entered) /\ (quiet => Harmless(tab[s]))
  BY DEF BrowserInv, BrowserTypeOK, Quiet
<1>2. tab[s].cred.user \in entered /\ tab[s].cred.user \in Users /\ now \in Nat
  BY <1>1 DEF ValidateUser, Backed, TabOK, Tab, Credentials, Inv, TypeOK
<1> QED BY <1>1, <1>2, BrowserConstantFacts
        DEF NewSession, Session, Harmless, ValidateUser

LEMMA PageHandlerInv ==
    ASSUME BrowserInv, CodesInv, Inv, UNCHANGED allVars, NEW s \in Consenters,
           PageHandler(s)
    PROVE  BrowserInv'
<1>1. TabOK(tab[s]) /\ About(tab[s], asked[s])
  BY DEF BrowserInv, BrowserTypeOK
<1>2. tab[s].at \in Flow => tab[s].query \in Query /\ tab[s].query = asked[s]
  BY <1>1 DEF TabOK, Tab, About
<1>3. /\ {"authorize", "consent", "login", "settings"} \subseteq Pages \ {"app"}
      /\ {"authorize", "signIn", "consent"} \subseteq Flow
      /\ "blank" \in Pages \ {"app"} /\ {"blank", "login", "settings"} \cap Flow = {}
  BY DEF Pages, Flow
<1>4. CASE AuthorizeGET(s)
  <2>1. tab[s].query \in Query /\ tab[s].query = asked[s] /\ ~ Waits(s, "approve") /\ Served
    BY <1>2, <1>3, <1>4 DEF AuthorizeGET, Waits
  <2>2. \/ Put(s, Page("blank", None, None))
        \/ Put(s, Redirect("consent", tab[s].query, FALSE, None))
        \/ Put(s, Page("authorize", tab[s].query, None))
    BY <1>4 DEF AuthorizeGET, Refused, Blank
  <2> QED BY <1>3, <2>1, <2>2, ShowsInv, RedirectsInv, BrowserConstantFacts
<1>5. CASE AuthorizePOST(s)
  <2>1. /\ tab[s].query \in Query /\ tab[s].query = asked[s] /\ ~ Waits(s, "approve")
        /\ Served /\ tab[s].cred # None
    BY <1>1, <1>2, <1>3, <1>5 DEF AuthorizePOST, Waits, TabOK
  <2>2. CASE /\ ValidateUser(tab[s].cred)
             /\ Put(s, Redirect("consent", tab[s].query, TRUE, NewSession(tab[s].cred.user)))
    BY <1>3, <2>1, <2>2, ValidatedOK, RedirectsInv, BrowserConstantFacts
  <2>3. CASE Put(s, Redirect("authorize", tab[s].query, FALSE, None))
    BY <1>3, <2>1, <2>3, RedirectsInv, BrowserConstantFacts
  <2> QED BY <1>5, <2>2, <2>3 DEF AuthorizePOST, FormAgain
<1>6. CASE ConsentGET(s)
  <2>1. tab[s].query \in Query /\ tab[s].query = asked[s] /\ ~ Waits(s, "approve") /\ Served
    BY <1>2, <1>3, <1>6 DEF ConsentGET, Waits
  <2>2. \/ Put(s, Page("consent", tab[s].query, None))
        \/ Put(s, Redirect("authorize", tab[s].query, FALSE, None))
    BY <1>6 DEF ConsentGET
  <2> QED BY <1>3, <2>1, <2>2, ShowsInv, RedirectsInv, BrowserConstantFacts
<1>7. CASE LoginGET(s) \/ SettingsGET(s)
  <2>1. ~ Waits(s, "approve") /\ Served
    BY <1>7 DEF LoginGET, SettingsGET, Waits
  <2>2. \E at \in {"login", "settings"} :
          Put(s, Redirect(at, None, FALSE, None)) \/ Put(s, Page(at, None, None))
    BY <1>7 DEF LoginGET, SettingsGET
  <2> QED BY <1>3, <2>1, <2>2, ShowsInv, RedirectsInv
<1>8. CASE LoginPOST(s)
  <2>1. ~ Waits(s, "approve") /\ Served /\ tab[s].cred # None
    BY <1>1, <1>8 DEF LoginPOST, Waits, TabOK
  <2>2. CASE /\ ValidateUser(tab[s].cred)
             /\ Put(s, Redirect("settings", None, TRUE, NewSession(tab[s].cred.user)))
    BY <1>3, <2>1, <2>2, ValidatedOK, RedirectsInv
  <2>3. CASE Put(s, Redirect("login", None, FALSE, None))
    BY <1>3, <2>1, <2>3, RedirectsInv
  <2> QED BY <1>8, <2>2, <2>3 DEF LoginPOST
<1>9. CASE LogoutPOST(s)
  <2>1. ~ Waits(s, "approve") /\ Served /\ Put(s, SignedOut)
    BY <1>9 DEF LogoutPOST, Waits
  <2>2. /\ TabOK(SignedOut) /\ About(SignedOut, asked[s]) /\ Backed(SignedOut, entered)
        /\ Harmless(SignedOut)
    BY DEF SignedOut, Redirect, TabOK, Tab, About, Backed, Harmless, Pages, Flow
  <2> QED BY <2>1, <2>2, AnsweredInv
<1> QED BY <1>4, <1>5, <1>6, <1>7, <1>8, <1>9 DEF PageHandler

-----------------------------------------------------------------------------
(* The handlers that store codes. *)

LEMMA ConsentTabStep ==
    ASSUME BrowserInv, CodesInv, NEW s \in Consenters, NEW h, NEW t,
           consent' = [consent EXCEPT ![s] = h], Put(s, t), Served, ~ quiet,
           h.pc # "idle" => t.pc = "sent" /\ t.at = "approve",
           Carries(h, entered, asked[s]),
           TabOK(t), About(t, asked[s]), Backed(t, entered),
           CodesForEnteredUsers'
    PROVE  BrowserInv'
<1>1. \A o \in Consenters : /\ tab'[o] = IF o = s THEN t ELSE tab[o]
                            /\ consent'[o] = IF o = s THEN h ELSE consent[o]
  BY DEF Put, BrowserInv, BrowserTypeOK, CodesInv, CodesTypeOK
<1>2. UNCHANGED <<jar, signIns, asked, entered, quiet>>
  BY DEF Served
<1>3. BrowserTypeOK'
  <2>1. tab' \in [Consenters -> Tab]
    BY <1>1 DEF Put, TabOK, BrowserInv, BrowserTypeOK
  <2>2. \A o \in Consenters : TabOK(tab'[o])
    BY <1>1 DEF BrowserInv, BrowserTypeOK
  <2>3. \A o \in Consenters : consent'[o].pc # "idle" => Waits(o, "approve")'
    BY <1>1 DEF BrowserInv, BrowserTypeOK, Waits
  <2> QED BY <1>2, <2>1, <2>2, <2>3 DEF BrowserTypeOK, BrowserInv
<1>4. \A o \in Consenters : About(tab'[o], asked'[o])
  BY <1>1, <1>2 DEF BrowserInv
<1>5. \A o \in Consenters : Backed(tab'[o], entered')
  BY <1>1, <1>2 DEF BrowserInv
<1>6. \A o \in Consenters : Carries(consent'[o], entered', asked'[o])
  BY <1>1, <1>2 DEF BrowserInv
<1> QED BY <1>2, <1>3, <1>4, <1>5, <1>6 DEF BrowserInv, Quiet

LEMMA ConsentArrivesInv ==
    ASSUME BrowserInv, CodesInv, NEW s \in Consenters, ConsentArrives(s)
    PROVE  BrowserInv'
<1> DEFINE p == ParamsOf(tab[s].sid.user, tab[s].query)
           h == [op |-> "consent", pc |-> "getUser", ask |-> p, row |-> None,
                 reply |-> "none"]
<1>1. /\ TabOK(tab[s]) /\ About(tab[s], asked[s]) /\ Backed(tab[s], entered)
      /\ tab[s].pc = "sent" /\ tab[s].at = "approve" /\ consent[s].pc = "idle" /\ Served
  BY DEF BrowserInv, BrowserTypeOK, ConsentArrives, Waits
<1>2. CASE Refused(s) /\ UNCHANGED allVars
  BY <1>1, <1>2, ShowsInv DEF Refused, Blank, Pages, Flow
<1>3. CASE tab[s].sid # None /\ ConsentPOST(s, p) /\ UNCHANGED tab
  <2>1. /\ consent' = [consent EXCEPT ![s] = h] /\ UNCHANGED consented
    BY <1>3 DEF ConsentPOST, Ask
  <2>2. Put(s, tab[s])
    BY <1>3 DEF Put, BrowserInv, BrowserTypeOK
  <2>3. ~ quiet
    BY <1>3 DEF BrowserInv, Quiet, Harmless
  <2>4. Carries(h, entered, asked[s])
    BY <1>1, <1>3 DEF Carries, ParamsOf, Fulfils, About, Backed, Flow
  <2>5. CodesForEnteredUsers'
    BY <1>1, <2>1 DEF BrowserInv, CodesForEnteredUsers, Served
  <2> HIDE DEF h
  <2> QED BY <1>1, <2>1, <2>2, <2>3, <2>4, <2>5, ConsentTabStep
<1> QED BY <1>2, <1>3 DEF ConsentArrives

LEMMA AppPageOK ==
    ASSUME NEW query \in Query, NEW code \in AuthCode, NEW E
    PROVE  TabOK(Page("app", query, code)) /\ Backed(Page("app", query, code), E)
<1> DEFINE t == Page("app", query, code)
<1>1. /\ t.pc = "page" /\ t.at = "app" /\ t.query = query /\ t.sid = None
      /\ t.sets = FALSE /\ t.cred = None /\ t.code = code /\ code # None
  BY CodeConstantFacts DEF Page
<1>2. t \in Tab
  BY DEF Page, Tab, Pages
<1>3. ~ t.sets
  BY <1>1, Zenon
<1> HIDE DEF t
<1>4. Backed(t, E)
  BY <1>1 DEF Backed
<1>5. TabOK(t)
  BY <1>1, <1>2, <1>3 DEF TabOK, Pages, Flow
<1> QED BY <1>4, <1>5 DEF t

(* Its last step puts the tab at the application, with the code, or shows  *)
(* an error.                                                               *)
LEMMA ConsentStepInv ==
    ASSUME BrowserInv, CodesInv, NEW s \in Consenters, ConsentStep(s)
    PROVE  BrowserInv'
<1> DEFINE h == consent'[s]
           t == IF h.pc # "idle" THEN tab[s]
                ELSE IF h.reply = "ok" THEN Page("app", tab[s].query, consent[s].row)
                ELSE Blank
<1>1. /\ TabOK(tab[s]) /\ About(tab[s], asked[s]) /\ Backed(tab[s], entered)
      /\ Carries(consent[s], entered, asked[s]) /\ Served /\ Put(s, t)
  BY DEF BrowserInv, BrowserTypeOK, ConsentStep
<1>2. /\ HandlerTypeOK(consent[s]) /\ consent[s].pc # "idle"
      /\ consent \in [Consenters -> Handler]
  BY DEF ConsentStep, GetUser, GetClient, SaveCode, CodesInv, CodesTypeOK
<1>3. /\ tab[s].pc = "sent" /\ tab[s].at = "approve" /\ ~ quiet
      /\ tab[s].query = asked[s] /\ tab[s].query \in Query
  BY <1>1, <1>2 DEF BrowserInv, BrowserTypeOK, Waits, Quiet, About, TabOK, Tab, Flow
<1>4. /\ consent' = [consent EXCEPT ![s] = h] /\ Carries(h, entered, asked[s])
      /\ h.pc = "idle" /\ h.reply = "ok" => SaveCode(s)
  <2>1. ASSUME NEW reply, Answer(s, reply)
        PROVE  /\ consent' = [consent EXCEPT ![s] = h] /\ Carries(h, entered, asked[s])
               /\ h.pc = "idle" /\ h.reply = reply
    BY <1>2, <2>1 DEF Answer, NoHandler, Carries
  <2>2. CASE GetUser(s)
    <3>1. CASE consent' = [consent EXCEPT ![s].pc = "getClient"]
      BY <1>1, <1>2, <3>1 DEF Carries, Handler
    <3> QED BY <2>1, <2>2, <3>1 DEF GetUser
  <2>3. CASE GetClient(s)
    <3>1. ASSUME NEW k \in FreshCodes,
                 consent' = [consent EXCEPT ![s] = Holding(@, NewCode(k, consent[s].ask))]
          PROVE  /\ consent' = [consent EXCEPT ![s] = h] /\ h.pc # "idle"
                 /\ Carries(h, entered, asked[s])
      <4>1. h = Holding(consent[s], NewCode(k, consent[s].ask))
        BY <1>2, <3>1
      <4>2. consent[s].ask # None
        BY <1>2 DEF HandlerTypeOK
      <4>3. Carries(Holding(consent[s], NewCode(k, consent[s].ask)), entered, asked[s])
        BY <1>1, <4>2 DEF Carries, Holding, NewCode, Fulfils
      <4> QED BY <1>2, <3>1, <4>1, <4>3 DEF Holding
    <3> QED BY <2>1, <2>3, <3>1 DEF GetClient
  <2>4. CASE SaveCode(s)
    BY <2>1, <2>4 DEF SaveCode
  <2> QED BY <2>2, <2>3, <2>4 DEF ConsentStep
<1>5. /\ TabOK(t) /\ About(t, asked[s]) /\ Backed(t, entered)
      /\ h.pc # "idle" => t.pc = "sent" /\ t.at = "approve"
  <2>1. CASE h.pc # "idle"
    BY <1>1, <1>3, <2>1
  <2>2. CASE h.pc = "idle" /\ h.reply = "ok"
    <3>1. consent[s].row # None /\ consent[s].row \in AuthCode
      BY <1>2, <1>4, <2>2 DEF SaveCode, HandlerTypeOK, Handler
    <3>2. t = Page("app", tab[s].query, consent[s].row)
      BY <2>2
    <3>3. Fulfils(consent[s].row, asked[s])
      BY <1>1, <3>1 DEF Carries
    <3>4. /\ TabOK(Page("app", tab[s].query, consent[s].row))
          /\ Backed(Page("app", tab[s].query, consent[s].row), entered)
      BY <1>3, <3>1, AppPageOK
    <3> HIDE DEF t
    <3> QED BY <1>3, <2>2, <3>2, <3>3, <3>4 DEF About, Page, Flow
  <2>3. CASE h.pc = "idle" /\ h.reply # "ok"
    <3>1. t = Blank
      BY <2>3
    <3> HIDE DEF t
    <3> QED BY <2>3, <3>1, PageOK DEF Blank, Pages, Flow, Page, About
  <2> QED BY <2>1, <2>2, <2>3
<1>6. CodesForEnteredUsers'
  <2>1. CASE UNCHANGED consented
    BY <1>1, <2>1 DEF BrowserInv, CodesForEnteredUsers, Served
  <2>2. CASE SaveCode(s) /\ Insert(consent[s].row)
    <3>1. consent[s].row # None /\ consent[s].row.user \in entered
      BY <1>1, <1>2, <2>2 DEF SaveCode, HandlerTypeOK, Carries
    <3> QED BY <1>1, <2>2, <3>1
            DEF BrowserInv, CodesForEnteredUsers, Served, Insert, GrantOf, CodesInv, CodesTypeOK
  <2> QED BY <2>1, <2>2 DEF ConsentStep, GetUser, GetClient, SaveCode
<1> HIDE DEF t, h
<1> QED BY <1>1, <1>3, <1>4, <1>5, <1>6, ConsentTabStep

-----------------------------------------------------------------------------
(* The rest of the system. *)

LEMMA CrashAllPagesInv ==
    ASSUME BrowserInv, CrashAllPages
    PROVE  BrowserInv'
<1>1. /\ \A s \in Consenters :
           /\ consent'[s] = NoHandler("none")
           /\ tab'[s] = IF tab[s].pc = "sent" THEN Blank ELSE tab[s]
      /\ UNCHANGED <<jar, signIns, asked, entered, quiet, consented>>
      /\ tab' = [s \in Consenters |-> tab'[s]]
  BY DEF CrashAllPages, CrashAll, Served
<1>2. /\ TabOK(Blank) /\ Harmless(Blank) /\ Backed(Blank, entered)
      /\ \A q : About(Blank, q)
  BY PageOK DEF Blank, Pages, Flow, Page, About
<1>3. \A s \in Consenters : /\ TabOK(tab'[s]) /\ About(tab'[s], asked[s])
                            /\ Backed(tab'[s], entered)
                            /\ Harmless(tab[s]) => Harmless(tab'[s])
  BY <1>1, <1>2 DEF BrowserInv, BrowserTypeOK
<1>4. BrowserTypeOK'
  <2>1. tab' \in [Consenters -> Tab]
    BY <1>1, <1>3 DEF TabOK
  <2> QED BY <1>1, <1>3, <2>1 DEF BrowserInv, BrowserTypeOK, NoHandler
<1>5. CodesForEnteredUsers' /\ Quiet'
  BY <1>1, <1>3 DEF BrowserInv, CodesForEnteredUsers, Quiet, NoHandler
<1> QED BY <1>1, <1>3, <1>4, <1>5 DEF BrowserInv, Carries, NoHandler

LEMMA ElsewhereInv ==
    ASSUME BrowserInv, UNCHANGED <<consent, consented, pageVars>>
    PROVE  BrowserInv'
<1>1. BrowserTypeOK'
  BY DEF BrowserInv, BrowserTypeOK, pageVars, Waits
<1>2. Quiet'
  BY DEF BrowserInv, Quiet, pageVars
<1> QED BY <1>1, <1>2 DEF BrowserInv, CodesForEnteredUsers, pageVars

LEMMA BrowserNextInv ==
    ASSUME BrowserInv, CodesInv, Inv, [BrowserNext]_browserVars
    PROVE  BrowserInv'
<1>1. ASSUME NEW s \in Consenters, UserActs(s), UNCHANGED allVars
      PROVE  BrowserInv'
  BY <1>1, UserActsInv
<1>2. ASSUME NEW s \in Consenters, Navigating(s)
      PROVE  BrowserInv'
  BY <1>2, FollowInv, PageHandlerInv, ConsentArrivesInv, ConsentStepInv DEF Navigating
<1>3. CASE Elsewhere /\ UNCHANGED pageVars
  <2>1. UNCHANGED <<consent, consented>>
    BY <1>3, RedeemingFacts DEF Elsewhere, DeleteUserAndCodes, codeVars
  <2> QED BY <1>3, <2>1, ElsewhereInv
<1>4. CASE CrashAllPages
  BY <1>4, CrashAllPagesInv
<1>5. CASE UNCHANGED browserVars
  BY <1>5, ElsewhereInv DEF browserVars, allVars, codeVars
<1> QED BY <1>1, <1>2, <1>3, <1>4, <1>5 DEF BrowserNext

(* A step of a tab is a step of the code flow, or none.  The parameters of *)
(* the consent that the handler starts with come from a well-formed tab.   *)
LEMMA BrowserStepRefines ==
    ASSUME BrowserTypeOK, [BrowserNext]_browserVars
    PROVE  [CodesNext]_allVars
<1>1. ASSUME NEW s \in Consenters, Navigating(s), ~ UNCHANGED allVars
      PROVE  CodesNext
  <2>1. CASE ConsentArrives(s)
    <3>1. /\ ConsentPOST(s, ParamsOf(tab[s].sid.user, tab[s].query))
          /\ tab[s].sid # None /\ tab[s].at \in Flow
      BY <1>1, <2>1 DEF ConsentArrives, Waits, Flow
    <3>2. tab[s].sid \in Session /\ tab[s].query \in Query
      BY <3>1 DEF BrowserTypeOK, TabOK, Tab
    <3>3. ParamsOf(tab[s].sid.user, tab[s].query) \in Params
      BY <3>2 DEF ParamsOf, Params, Session, Query
    <3> QED BY <3>1, <3>3 DEF CodesNext, Storing
  <2>2. CASE ConsentStep(s)
    BY <2>2 DEF ConsentStep, CodesNext, Storing
  <2> QED BY <1>1, <2>1, <2>2 DEF Navigating
<1>2. CASE Elsewhere
  BY <1>2 DEF Elsewhere, CodesNext
<1>3. CASE CrashAllPages
  BY <1>3 DEF CrashAllPages, CodesNext
<1> QED BY <1>1, <1>2, <1>3 DEF BrowserNext, browserVars

LEMMA LogoutStep ==
    ASSUME BrowserInv, [BrowserNext]_browserVars, quiet
    PROVE  codes' \subseteq codes
<1>1. \A s \in Consenters : consent[s].pc = "idle" /\ tab[s].sid = None
  BY DEF BrowserInv, Quiet, Harmless
<1>2. ASSUME NEW s \in Consenters, Navigating(s)
      PROVE  codes' \subseteq codes
  <2>1. ~ ConsentStep(s)
    BY <1>1 DEF ConsentStep, GetUser, GetClient, SaveCode
  <2>2. CASE ConsentArrives(s)
    BY <1>1, <2>2 DEF ConsentArrives, allVars, codeVars
  <2> QED BY <1>2, <2>1, <2>2 DEF Navigating, allVars, codeVars
<1>3. CASE Elsewhere
  BY <1>3, RedeemingFacts DEF Elsewhere, DeleteUserAndCodes, codeVars
<1>4. CASE CrashAllPages
  BY <1>4 DEF CrashAllPages, CrashAll
<1> QED BY <1>2, <1>3, <1>4 DEF BrowserNext, browserVars, allVars, codeVars

-----------------------------------------------------------------------------
(* Theorems. *)

(* The three inductive invariants hold together: each step of the browser  *)
(* keeps those of the code flow because it is a step of it.                *)
THEOREM BrowserInvariance == BrowserSpec => [](Inv /\ CodesInv /\ BrowserInv)
<1>1. BrowserInit => Inv /\ CodesInv /\ BrowserInv
  BY InitInv, CodesInitInv, BrowserInitInv DEF BrowserInit, CodesInit
<1>2. Inv /\ CodesInv /\ BrowserInv /\ [BrowserNext]_browserVars
        => Inv' /\ CodesInv' /\ BrowserInv'
  <2> SUFFICES ASSUME Inv, CodesInv, BrowserInv, [BrowserNext]_browserVars
               PROVE  Inv' /\ CodesInv' /\ BrowserInv'
    OBVIOUS
  <2>1. [CodesNext]_allVars
    BY BrowserStepRefines DEF BrowserInv
  <2>2. [Next]_vars
    BY <2>1, StepRefines DEF CodesInv
  <2> QED BY <2>1, <2>2, NextInv, CodesNextInv, BrowserNextInv
<1> QED BY <1>1, <1>2, PTL DEF BrowserSpec

(* The pages with the code flow behind them implement the code flow: the   *)
(* handlers start no consent but those AuthorizationCodes knows.           *)
THEOREM RefinesAuthorizationCodes == BrowserSpec => CodesSpec
<1>1. BrowserInit => CodesInit
  BY DEF BrowserInit
<1>2. BrowserInv /\ [BrowserNext]_browserVars => [CodesNext]_allVars
  BY BrowserStepRefines DEF BrowserInv
<1> QED BY <1>1, <1>2, BrowserInvariance, PTL DEF BrowserSpec, CodesSpec

(* Through the pages as well, however often a browser posts a consent or an *)
(* application presents a code, each code is redeemed at most once and for *)
(* the consent it was stored for.                                          *)
THEOREM BrowserCodesOneTime == BrowserSpec => CodesAreOneTime
BY RefinesAuthorizationCodes, OneTimeCodes

(* The jar and the tabs have their types. *)
THEOREM BrowserTypesCorrect == BrowserSpec => []BrowserTypeOK
<1>1. BrowserInv => BrowserTypeOK
  BY DEF BrowserInv
<1> QED BY <1>1, BrowserInvariance, PTL

(* The request of the application survives every way through the pages,    *)
(* with any number of tabs, sign-ins and failing statements.               *)
THEOREM RequestsSurvive == BrowserSpec => []RequestSurvives
<1>1. BrowserInv => RequestSurvives
  BY DEF BrowserInv, RequestSurvives, About
<1> QED BY <1>1, BrowserInvariance, PTL

(* Codes go back to a password that was entered in the browser. *)
THEOREM CodesOfEnteredUsers == BrowserSpec => []CodesForEnteredUsers
<1>1. BrowserInv => CodesForEnteredUsers
  BY DEF BrowserInv
<1> QED BY <1>1, BrowserInvariance, PTL

(* So do the sessions of the applications, through the exchange of a code  *)
(* and however many refreshes.                                             *)
THEOREM SessionsOfEnteredUsers ==
    BrowserSpec => [](\A row \in whitelist : row.token.grant.user \in entered)
<1>1. EverySessionWasConsented /\ CodesForEnteredUsers /\ Inv
        => \A row \in whitelist : row.token.grant.user \in entered
  <2> SUFFICES ASSUME EverySessionWasConsented, CodesForEnteredUsers, Inv,
                      NEW row \in whitelist
               PROVE  row.token.grant.user \in entered
    OBVIOUS
  <2>1. PICK k \in CodeIds : consented[k] = row.token.grant
    BY DEF EverySessionWasConsented
  <2>2. row.token.grant # None
    BY CodeConstantFacts DEF Inv, TypeOK, Row, Token
  <2> QED BY <2>1, <2>2 DEF CodesForEnteredUsers
<1>2. BrowserSpec => []EverySessionWasConsented
  BY RefinesAuthorizationCodes, SessionsConsented
<1> QED BY <1>1, <1>2, CodesOfEnteredUsers, BrowserInvariance, PTL

(* Logging out ends it: no code until a password is entered again. *)
THEOREM NoCodesAfterLogout == BrowserSpec => NoCodeAfterLogout
<1>1. BrowserInv /\ [BrowserNext]_browserVars
        => [quiet => codes' \subseteq codes]_browserVars
  BY LogoutStep
<1> QED BY <1>1, BrowserInvariance, PTL DEF BrowserSpec, NoCodeAfterLogout

(* The pages start consents and nothing else. *)
NoLoginCodes ==
    /\ codes = {}
    /\ \A k \in CodeIds : consented[k] = None
    /\ \A s \in Consenters : consent[s].op # "login" /\ consent[s].pc # "saveCode"

LEMMA PagesConsent ==
    ASSUME BrowserTypeOK, CodesInv, NoLoginCodes, Unread, [BrowserNext]_browserVars
    PROVE  NoLoginCodes'
<1>1. \A s \in Consenters : ~ SaveCode(s)
  BY DEF NoLoginCodes, SaveCode
<1>2. UNCHANGED <<codes, consented>>
  <2>1. CASE \E s \in Consenters : Navigating(s)
    BY <1>1, <2>1 DEF Navigating, ConsentArrives, ConsentPOST, Ask, ConsentStep, GetUser,
                      GetClient, allVars, codeVars
  <2>2. CASE Elsewhere
    BY <2>2, RedeemingFacts DEF Elsewhere, NoLoginCodes, DeleteUserAndCodes, codeVars
  <2>3. CASE CrashAllPages
    BY <2>3 DEF CrashAllPages, CrashAll
  <2> QED BY <2>1, <2>2, <2>3 DEF BrowserNext, browserVars, allVars, codeVars
<1>3. ASSUME NEW s \in Consenters
      PROVE  consent'[s].op # "login" /\ consent'[s].pc # "saveCode"
  <2>1. CASE consent'[s] = consent[s]
    BY <2>1 DEF NoLoginCodes
  <2>2. CASE consent'[s] # consent[s]
    <3>1. CASE consent[s].pc = "idle" /\ consent'[s].pc = "getUser"
      <4>1. PICK t \in Consenters : ConsentArrives(t)
        <5>1. ~ CrashAllPages
          BY <3>1 DEF CrashAllPages, CrashAll, NoHandler
        <5>2. PICK t \in Consenters : Navigating(t)
          BY <2>2, <5>1, RedeemingFacts DEF BrowserNext, browserVars, allVars, codeVars,
                                            Elsewhere, DeleteUserAndCodes
        <5>3. ASSUME GetUser(t) \/ GetClient(t) PROVE FALSE
          <6>1. consent[t].pc # "idle"
            BY <5>3 DEF GetUser, GetClient
          <6>2. consent'[s] = consent[s]
            BY <3>1, <5>3, <6>1 DEF GetUser, GetClient, Answer, CodesInv, CodesTypeOK
          <6> QED BY <2>2, <6>2
        <5> QED BY <1>1, <2>2, <5>2, <5>3 DEF Navigating, ConsentStep, allVars, codeVars
      <4>2. PICK p : Ask(t, "consent", p)
        BY <4>1, <2>2 DEF ConsentArrives, ConsentPOST, allVars, codeVars
      <4>3. consent'[s].op = "consent"
        BY <4>2, <2>2 DEF Ask, CodesInv, CodesTypeOK
      <4> QED BY <3>1, <4>3
    <3>2. consent[s].op \in {"none", "consent"}
      BY DEF NoLoginCodes, CodesInv, CodesTypeOK, HandlerTypeOK, Handler
    <3>3. consent[s].op = "none" <=> consent[s].pc = "idle"
      BY DEF CodesInv, CodesTypeOK, HandlerTypeOK
    <3>4. ~ MayConsent(consent[s].ask)
      BY DEF Unread, MayConsent, ScopesAllowed
    <3>5. CASE /\ consent'[s].pc \in {"getClient", "saveCode"}
               /\ consent[s].pc # "idle" /\ consent'[s].op = consent[s].op
               /\ consent'[s].pc = "saveCode" /\ consent[s].op = "consent"
                    => MayConsent(consent[s].ask)
      BY <3>2, <3>3, <3>4, <3>5
    <3> QED BY <2>2, <3>1, <3>5, ConsentForms, BrowserStepRefines
  <2> QED BY <2>1, <2>2
<1> QED BY <1>2, <1>3 DEF NoLoginCodes

(* With the query of clients_repository.go:18 a browser can go through the  *)
(* pages as often as it likes: no code is ever stored and no session ever   *)
(* begun, by any user, tab or application.                                  *)
THEOREM NoSessionThroughPages ==
    ASSUME Unread
    PROVE  BrowserSpec => [](codes = {} /\ whitelist = {})
<1>1. BrowserInit => NoLoginCodes
  BY DEF BrowserInit, CodesInit, NoHandler, NoLoginCodes
<1>2. BrowserInv /\ CodesInv /\ NoLoginCodes /\ [BrowserNext]_browserVars => NoLoginCodes'
  BY PagesConsent DEF BrowserInv
<1>3. Inv /\ NoLoginCodes /\ EverySessionWasConsented => codes = {} /\ whitelist = {}
  <2> SUFFICES ASSUME Inv, NoLoginCodes, EverySessionWasConsented, NEW row \in whitelist
               PROVE  FALSE
    BY DEF NoLoginCodes
  <2>1. PICK k \in CodeIds : consented[k] = row.token.grant
    BY DEF EverySessionWasConsented
  <2>2. row.token.grant # None
    BY CodeConstantFacts DEF Inv, TypeOK, Row, Token
  <2> QED BY <2>1, <2>2 DEF NoLoginCodes
<1>4. BrowserSpec => []EverySessionWasConsented
  BY RefinesAuthorizationCodes, SessionsConsented
<1> QED BY <1>1, <1>2, <1>3, <1>4, BrowserInvariance, PTL DEF BrowserSpec

=============================================================================
