# ZenithSSO in TLA+

ZenithSSO is a single sign-on server in Go: an OAuth 2.0 / OpenID Connect
provider with a gRPC interface, REST endpoints and browser pages over one
PostgreSQL database. This directory holds TLA+ modules of its core logic, TLC
configurations that check them on small instances, and proofs, checked by
TLAPS, that the main safety properties hold for every instance. Paths below are
relative to `src/`.

Contents: 1 the system; 2 the modules; 3 correspondence to the code; 4 the runs;
5 fairness; 6 what the runs refute; 7 the proofs; 8 assumptions; 9 what is not
modelled; 10 the plan.

## 1. The system

All durable state is in PostgreSQL. The server keeps no state between requests:
each gRPC or HTTP request runs in its own goroutine, reaches the tables by single
SQL statements and never opens a transaction. Whatever several statements do
together can be interleaved with other requests, and cut short by a failing
statement or the end of the process.

| Component | State | Operations |
|---|---|---|
| Token provider (`internal/jwt`) | `refresh_tokens`: the whitelist of refresh JWTs with `expires_at` | `GenerateTokens`, `RefreshToken`, `VerifyToken`, `DeleteToken`, `SaveToWhiteList`, `IsTokenValid`, `RevokeToken`, and a goroutine that calls `CleanExpiredTokens` on a ticker |
| Authorization codes (`internal/authserver.go`, `internal/db/auth_codes_repository.go`) | `auth_codes`: code, user, client, redirect URI, scopes, PKCE challenge and method, nonce, expiry | `GenerateAuthorizationCodeForUser` (consent), `GenerateAuthorizationCode` (password), `ExchangeAuthorizationCode` |
| Clients (`internal/db/clients_repository.go`) | `clients`: id, secret hash, `redirect_uris`, `allowed_scopes` | `GetClientByID`; rows are written by hand or by a migration, never by the server |
| Accounts (`internal/authserver.go`, `internal/db/repository.go`) | `users`, `scopes`, `user_scopes` and the sequences of their ids | `Register`, the settings and the admin page, the reading of a user whose tokens will be signed, and all statements of the repository on the three tables |
| Token endpoint (`internal/rest/handler.go`) | none | client authentication, then one of three grant types |
| Browser session (`internal/rest`, `auth.js`) | none in the server; a cookie with a session JWT and the URLs of the tabs, held by the browser | GET and POST of the authorize, consent, login and settings pages, and log-out |
| Startup and shutdown (`cmd/server/main.go`, `internal/db/migration.go`, `SetUpSuperuser`) | `schema_migrations`, the rows of the superuser, the two ports | configuration, migrations, superuser, start of the servers and of the clean-up, graceful stop |
| Configuration (`config`), gRPC stubs (`api`), templates | none | read once, generated, presentation |

Interaction. A browser with a session posts a consent; the consent stores a code
and redirects with it. A client redeems the code at the token endpoint: the code
row is deleted, then checked, and the token provider signs an access and a
refresh token and stores the latter. The client then refreshes, validates and
logs out by calling the provider. The clean-up goroutine and deletions of users
(with the cascades of the foreign keys) change the tables under the requests.

What is hard, and what makes each part correct:

* **Token provider.** A refresh looks a token up, deletes it, signs and inserts a
  successor in separate statements, ignores the error of the DELETE, and takes its
  times from the clock's whole seconds on one side and from its full resolution
  on the other. Correct means: revocation is final; refreshing neither multiplies
  sessions nor drifts from what the user consented to; nothing that still verifies
  is swept; expired rows are; every request ends.
* **Codes.** The DELETE that takes the code comes before every check and before the
  tokens are stored. Correct means: a code yields tokens at most once, however
  many exchanges race, and only for the user, client and scopes of its consent; a
  consent within a client's registration yields a code.
* **Accounts.** Registration checks and inserts in two statements; the settings page
  writes a copy read in an earlier one, and access tokens and the admin page act on
  scopes read in an earlier one; users and scopes are deleted or renamed meanwhile.
  Correct means: accounts stay distinct, a deleted one stays deleted whatever tokens
  name it, saving a profile undoes nothing else, no right is used that was taken away
  before the request read it.
* **Browser session.** The authorize, consent and login pages pass the application's
  request from one to the next by URL and form; the tabs share one cookie; pages
  redirect to each other; log-out clears the cookie and nothing else. Correct means:
  the application gets a code for the request it made and nobody gets one without a
  password; a log-out holds for all tabs; no tab is redirected for ever.
* **Startup.** The superuser is set up by three statements without a transaction,
  after the clean-up goroutine has started; a crash between them must not keep
  the next start from succeeding.

The file `PROJECT.json` lists every hazard at its line with the properties that
are about it, and every component with its status.

## 2. The modules

| Module | What it is |
|---|---|
| `TokenProvider` | the whitelist and the five operations on it, one action per SQL statement |
| `TokenProviderProofs` | its inductive invariant and five theorems |
| `TokenRotationProofs` | what a refresh replaces, and under which conditions it keeps its promises; how long a handler runs; the end of a grant; logins |
| `MCTokenProvider` | instances of it |
| `OneTimeCode` | abstract: a code is issued for one consent and redeemed at most once, for it |
| `AuthorizationCodes` | the code flow; extends `TokenProvider` and composes with its actions; refines `OneTimeCode` |
| `AuthorizationCodesProofs` | both refinements (of `TokenProvider` and of `OneTimeCode`), its invariants, the spending of a code by a failed attempt, and what the two layers say together of a grant's sessions |
| `MCAuthorizationCodes` | instances of it |
| `BrowserSession` | one browser with several tabs before the pages; extends `AuthorizationCodes` and composes with its actions |
| `BrowserSessionProofs` | its refinement of `AuthorizationCodes`, three invariants and four consequences |
| `MCBrowserSession` | an instance of it |
| `Accounts` | users, scopes and their links, and what handlers do with rows they have read |
| `AccountsProofs` | its inductive invariant, four properties of tables and handlers, one of scope strings |
| `MCAccounts` | an instance of it |
| `Bootstrap` | start and end of the program: migrations, superuser, clean-up goroutine, both servers, signals, crashes and restarts, several processes on one database |
| `SchemaUpgrade` | abstract: files of migrations run once, in order, one at a time, and none after one that was not finished |
| `BootstrapProofs` | its inductive invariants and three theorems |
| `StartProofs` | its refinement of `SchemaUpgrade`, which starts succeed, and how long a start takes |
| `MCBootstrap` | instances of it |

`AuthorizationCodes` is a conjunction of actions: `Exchange` is
`TokenProvider!GenerateTokens` (in `Redeem`), or `Refuse` (in `Reject`), together with
the change of `auth_codes`; `DeleteUserAndCodes` is `DeleteUser` with the cascade on
`auth_codes`; `CrashAll` is `Crash` with the loss of the consent handlers. Theorem
`RefinesTokenProvider` shows that nothing else touches the provider's state, so
every property proved of `TokenProvider` holds of the composition.

`BrowserSession` continues the chain. Each tab has a slot of `AuthorizationCodes` for the
consent it posts: `ConsentArrives` is `ConsentPOST` with the user of the cookie and the
request of the page, `ConsentStep` one statement of that handler, and `Elsewhere` the
rest of the system under the tabs. Theorem `RefinesAuthorizationCodes` shows
`BrowserSpec => CodesSpec`, so there are three layers, pages over codes over sessions,
and what is proved of a lower one holds of those above.

`Accounts` and `Bootstrap` stand apart. They share the table `users` with the others,
but nothing they add to it is read there: the token provider needs only that a user
may vanish, which it has as an action of its own.

Mutants: definitions marked *Mutant* are changed forms of the definition that
follows them (a dropped check, a missing cascade, a reset left out). No
specification uses them; each shows that a property notices the change.

## 3. Correspondence to the code

### TokenProvider

| TLA+ | Code |
|---|---|
| `now`, `second` | the clock, and its last whole second: `jwt.NewNumericDate` truncates `exp` and `iat` (`internal/jwt/tokens.go:61-72`), the column `expires_at` keeps the fraction |
| `users`, `whitelist` | tables `users` and `refresh_tokens` |
| `req[r]` | the goroutine of a request and its locals: which operation, the next statement, the claims to sign, the token presented, the expiry read for the new token (`due`), the token signed; `reply` is its last answer |
| `faults` | statements that have failed; a failed statement returns an error, and a failed write may or may not have taken effect |
| `granted`, `delivered` | history: exchanges begun per consented grant, refresh tokens a client has received |
| `Token` | a refresh JWT. RS256 is deterministic, so claims determine it; the claims are the grant (user, audience, scopes), `exp` and `iat`. The user is its id; the user name, signed as well, is left out: nothing reads it from a refresh token, and a renaming could only make two tokens of one second differ |
| `GenerateTokens`, `Login`, `RefreshTokens`, `Validate`, `Logout` | the operations up to their first statement; `ParseWithClaims` (`internal/jwt/jwt.go`) refuses an expired token here |
| `Refuse` | an operation that ends before it reaches the provider: wrong secret or password, unknown client, refused code |
| `ReadUser` | `GetUserById` / `GetUserByUsername`, then the second parse of a refresh |
| `CheckWhitelist` | `IsTokenValid` (`expires_at > NOW()`), then, for a refresh, the third parse and the comparison of the audience |
| `RevokeToken` | the DELETE; a refresh discards its error (`tokens.go:194`), Logout returns it |
| `ReadExpiry`, `GenerateRefresh` | signing: `exp` and `iat` come from two calls of `time.Now` (`tokens.go:65-66`), between which a second may end |
| `SaveToWhiteList` | the INSERT with the constraints of migration 8 (two foreign keys, primary key, `VARCHAR(512)` of the token in `Storable`, `VARCHAR(45)` of the address in `LongAddresses`), then the reply |
| `CleanExpiredTokens`, `DeleteUser` | the round of `internal/jwt/worker.go`; the DELETE of a user with its cascade |
| `Crash`, `Tick` | the process ends and is restarted, at any point; the clock |

`Login` passes an empty client, as `internal/authserver.go:365` does. A refresh
first builds the successor's grant from the *presenting* client; that it equals
the audience of the token is a check the code makes late, and the property
`ConsentedOnly` depends on it.

### AuthorizationCodes

| TLA+ | Code |
|---|---|
| `codes` | table `auth_codes` (without the nonce) |
| `consent[s]` | the goroutine of a handler that stores a code, its form and the row it builds |
| `consented`, `redeemed` | history: the grant each code was stored for, the grant tokens were generated for by it |
| `tried` | history: the codes whose row an exchange has deleted |
| `ConsentPOST`, `GenerateAuthorizationCode` | the two entry points; the second passes no scopes |
| `GetUser`, `GetClient`, `SaveCode` | their statements; `MayConsent` is the checks of client, URI and scopes, which only the first makes |
| `Selected` | the columns `GetClientByID` reads: a scope check on a column never read fails (section 6) |
| `Exchange` | `DELETE ... RETURNING`, then `Accepts` (client, URI, expiry, PKCE), then the provider (`Redeem`) or an error (`Reject`) |
| `Permitted` | column `allowed_scopes` as the check of a consent reads it: empty names are skipped, so the empty string passes for every client (`authserver.go:101`) |
| `LongParams` | the widths of the columns of `auth_codes` for what the browser posted: an INSERT can be refused for them |
| `Matches`, `SHA256` | PKCE with methods `S256` and `plain`; any other method matches nothing |

### BrowserSession

| TLA+ | Code |
|---|---|
| `jar` | the cookie `sso_session`: the claims of a session JWT; a MaxAge of -1 empties it |
| `tab[s]` | a tab: the page it shows, the request it waits for, or the redirect it has got, with the query of its URL; `sid` and `cred` are the cookie and the form of the request in flight |
| `asked`, `entered`, `quiet` | history: the request a tab was opened with; the users whose password was sent; whether the browser has been signed out with nothing in flight |
| `Open`, `Visit`, `Enter`, `Approve`, `LogOut` | what a user does: the address bar or an application, and the forms of the templates |
| `Follow` | the browser obeys a redirect: `Set-Cookie` first, then the next request with what the jar then holds |
| `AuthorizeGET`, `AuthorizePOST`, `ConsentGET`, `LoginGET`, `LoginPOST`, `SettingsGET`, `LogoutPOST` | the handlers of `internal/rest/handler.go` of these names, one action each: they read one row and answer |
| `SignedIn` | `GetUserInfo`: the token verifies and its user exists; `NotSignedIn` also if the statement fails |
| `FormAgain` | the redirect to the form after a wrong password, with the query kept by hand |
| `ConsentArrives`, `ConsentStep` | `ConsentPOST`: the claims of the cookie, then the statements of `GenerateAuthorizationCodeForUser`, then the redirect to the application |

A query is the tuple of the parameters that the pages hand on. That a form sends each of
them twice (`auth.js` copies the URL's into hidden inputs, the form's action keeps the
URL) makes no difference to handlers, which take the first value.

### Accounts

| TLA+ | Code |
|---|---|
| `users`, `scopes`, `links` | tables `users`, `scopes`, `user_scopes`, with the UNIQUE columns and cascades of migrations 1 and 3 |
| `lastUser`, `lastScope` | the sequences behind the BIGSERIAL ids; an INSERT that the database refuses has drawn its id, one that never reached it has not |
| `handler[h]` | the goroutine of a request: the row, the scopes and the string of allowed scopes it holds, and what its reply stood on (`rights`) |
| `held` | history: the scopes the account of a handler has had since the handler read it |
| `Register`, `CreateUser` | the look-up and the INSERT of a registration |
| `SettingsPOST`, `UpdateUserProfile` | `SettingsPOST`: the read, the form put into the copy, the UPDATE of the profile's columns |
| `AdminGET`, `GetAllUsers` | the check of the scope `root`, then the list |
| `GetUserById`, `GenerateAccess` | an exchange or refresh reads the user and later signs an access token for it with `AccessScopes` |
| `Infix`, `StringFromAllowed` | `strings.Contains` on scope strings: which names are a part of which |
| `UpdateUser`, `DeleteUser`, `CreateScope`, `DeleteScope`, `AddScopeToUser`, `RemoveScopeFromUser` | the other statements of `repository.go`, for an operator or an embedding program |

### Bootstrap

| TLA+ | Code |
|---|---|
| `proc[p]` | a process: where `main` is, the configuration it has read, whether the context of the signals is done, the version `Up` has reached, its two goroutines (`cleanup`, `http`), and how its last run ended |
| `version`, `dirty`, `lock` | the row of `schema_migrations` and golang-migrate's advisory lock; `version` counts the files `*.up.sql` |
| `rootScope`, `users`, `roots` | the row `root` of `scopes`, the superusers in `users`, their links in `user_scopes` |
| `ports` | who listens on the HTTP and the gRPC port of the host |
| `Start`, `ConnectSource` | `MustLoad` and `ConnectSource` |
| `LockSchema`, `ReadVersion`, `NextMigration`, `ApplyMigration` | `RunMigrations`: what `Up` does against the database. The version is read once, then counted; a dirty one is refused |
| `NewJwtTokenProvider` | the keys, `go StartTokenCleanup`, and the checks at the head of `SetUpSuperuser`, which touch no shared state |
| `UserExistsByUsername`, `CreateScope`, `CreateUser`, `AddScopeToUser` | the four statements of `SetUpSuperuser`. The first ignores the context, the others are not sent once the process was signalled; `CreateScope` includes the hashing after it, which refuses a long password |
| `StartTokenCleanup` | the goroutine: `NewTicker` panics, which ends the process wherever `main` is, or it runs until the signal |
| `SpawnHTTP`, `ListenAndServe`, `Listen` | the two servers; an error of the first is only logged, one of the second ends `main` |
| `Signal`, `GracefulStop`, `Drained` | SIGINT or SIGTERM, the goroutine that waits for it, the return of `Serve` and `main` |
| `End`, `Crash`, `Interrupted` | the end of the process, by a return, by the operating system, or by a statement that fails or outlasts its timeout; the lock and the ports are freed. A failed INSERT may have taken effect |

## 4. The runs

Runs that pass. Each property names the code it is about in the comment above it.

| Run | Configuration | What it shows |
|---|---|---|
| `token_provider` | `MCTokenProvider.cfg` | Two concurrent handlers, the clean-up, a deletion of a user, crashes anywhere and one failing statement. `TypeOK`; `ConsentedOnly`: no chain of refreshes, by whichever clients, leaves the consents; `DeletedUserHoldsNoSession`; `DeadTokensStayDead`: revocation is final; `OnlyEndedSessionsLeave`: nothing that still verifies is swept or removed by another request; `EndedForGood`: a grant whose last session is gone comes back only with another exchange |
| `one_handler` | `MCTokenProviderSerial.cfg` | One handler at a time, no failing statement, a longer clock: `SessionsNotMultiplied`, `RefreshInvalidatesOldToken`. That each DELETE of a refresh comes before its INSERT, across seconds, clean-ups, crashes and refused INSERTs, is what this run tests of them; the race of two refreshes is in the run `refresh_twice`, the failing DELETE in section 6, and the theorems `RotationKept` and `OldTokenInvalidated` cover both. And, under the fairness of section 5, `EveryRequestEnds`, `ExpiredRowsAreSwept` |
| `codes` | `MCAuthorizationCodes.cfg` | The whole composition, with one slot for exchanges: `CodesTypeOK`, `EverySessionWasConsented`, `OneExchangePerCode` (the counting over two codes, crashes and deletions; the race is in the next run), and `CodesAreOneTime` (refinement of `OneTimeCode`) |
| `racing_exchanges` | `MCAuthorizationCodesFaults.cfg` | Two exchanges of one code in every order, every PKCE method, failing statements: `OneExchangePerCode`, `CodesAreOneTime`; and `OneAttemptPerCode`: an attempt that is refused or fails has spent the code, for whoever races with it too |
| `boot` | `MCBootstrap.cfg` | Two processes, a complete configuration and four broken ones, crashes, failing statements and signals anywhere: `TypeOK`; `ServesOnlyMigrated`; `MigrationsRunOnce` (refinement of `SchemaUpgrade`); and, under the fairness of section 5, `StartsEnd`, `SignalledEnd` |
| `set_up` | `MCBootstrapSetUp.cfg` | Two processes set up the superuser at once, one of them perhaps under another name, and nothing is interrupted: `SuperuserIsWhole` |
| `accounts` | `MCAccounts.cfg` | One handler of any kind beside one more registration, every statement on the tables between their steps, failing statements, crashes: `TypeOK`; `AccountsDiffer`: races end on the UNIQUE columns; `LinksResolve`: no link outlives its ends; `DeletedForGood`: no id is used twice; `SettingsSaveProfileOnly`: a stale copy undoes nothing; `RightsWereHeld`: scopes used were held during the request |
| `browser` | `MCBrowserSession.cfg` | Two tabs, two sign-ins, wrong passwords, a session that expires, a user that is deleted, an unknown client, crashes: `BrowserTypeOK`; `RequestSurvives`; `CodesForEnteredUsers`; `NoCodeAfterLogout`; and, under the fairness of section 5, `NavigationsEnd` |

Bounds, all named constants, and why they suffice:

* *Handlers.* The statements of one operation read and write one token's row, so
  the races are between pairs: two slots in `Requests`, made symmetric. A slot is
  reused without limit, so sequences of operations are not bounded.
* *Users, clients, scopes.* Two of each where a mix-up must show (a foreign
  client presenting a token or a code, an unregistered URI, a scope its client may
  not ask for). `one_handler` has two consents, one with a refresh JWT that does not fit
  its column, so both ends of the width constraint occur.
* *Clock.* `Second = 2` with `RefreshTTL = 4` gives instants inside a second, at its
  edge, and at `exp`, at `expires_at` and between them; `MaxTime` exceeds the TTL in
  `token_provider` and `one_handler`, so tokens expire and are swept. In
  the code runs the clock matters only for the expiry of a code: `CodeTTL = 0` and
  one tick bring it about.
* *`LateStamps`.* Whether a second may end between the two readings of the clock for one
  token. It may in every run but `token_provider`, where with two handlers, a
  deletion and a failing statement the states would be too many to check; the theorems on
  that run's properties hold for both values.
* *`LongAddresses`, `LongParams`.* On where refused INSERTs are of interest, off in the
  runs that refute something: what they refute needs no such value.
* *`MaxGrants`, `CodeIds`.* Two exchanges of the same grant are enough for one of
  them to disturb the other (`one_handler`, `codes`).
* *`MaxFaults`.* One failing statement per behaviour in the provider. It is the code
  after a failure that is of interest, and two failures in a handler only end it
  earlier. In the code handlers failures are not counted (`MayFail`).

* *Processes, migrations.* Two processes: an old and a new one, or two replicas; each
  is started again without limit, so a third comes and goes as well. There are seven
  files of migrations, which `set_up` has; `boot` has two, a first and a last one, and
  the theorems hold for any number. `Migrations = 0` stands for a schema that is
  migrated already, in the run about what comes after. The set-up of the superuser has one scope and at most two
  names.
* *`Interruptions`* turns crashes, failing statements and signals before a process
  serves on or off as a whole. It is off where the property is about undisturbed
  starts, and section 6 shows what interruptions do to them.

* *Accounts.* Two names and two addresses are what a race for one of them needs, with a
  sequence of two: two accounts, or one, its deletion and its successor. Two scope names,
  one a part of the other, so `StringFromAllowed` is seen to differ from membership. One
  slot takes every operation and a second one registrations (`Bearers`): handlers that
  act for an account change nothing but a profile, so a race of two of them shows
  nothing that one and the operator's statements do not.
* *Browser.* Two tabs, since what a third does to a first the second can do. One user
  and one code: whose password it was shows in the theorem for any number of users, and a
  mutant that takes any password is caught with one. `MaxSignIns = 2` allows signing in,
  out and in again. The requests of applications at the token endpoint are off
  (`Requests = {}`); they and the tabs share only `codes`, and the other code runs have
  them. `SessionTTL = 1` with one tick makes sessions expire in the middle of a journey.

Symmetry is used only on `Requests`, `CodeIds`, and the names and addresses of `Accounts`,
in runs without liveness properties, whose members occur in no other constant.

No run turns deadlock checking off: a crash is always possible, so it would tell
nothing; that handlers do not get stuck is `EveryRequestEnds`, and for those of the pages
`NavigationsEnd`.

## 5. Fairness

`Fairness` is weak fairness of each handler's next statement and of
`CleanExpiredTokens`. The first holds because a goroutine that can run is
scheduled and a statement returns, with a result or an error; the handlers have no
locks and no loops. The second holds because the ticker of
`internal/jwt/worker.go` fires for as long as the process runs, and an error of the
sweep is only logged. Nothing is assumed of requests arriving or of the clock: there
is no fairness on them. `ExpiredRowsAreSwept` leads to a state in which *no* expired
row is left, which a single round achieves.

In `Bootstrap`, `Fairness` is weak fairness of `main` and of the HTTP goroutine of
each process: a process that can go on does, because its statements and system calls
return. `LockSchema` can always be taken, since waiting for the advisory lock is
bounded by golang-migrate's lock timeout, and `Drained` because the calls in flight
end (`EveryRequestEnds`). Nothing makes anyone start, signal or crash a process, and
the clean-up goroutine needs no fairness here.

In `BrowserSession`, `BrowserFairness` is weak fairness of `Navigating` of each tab: once it
has sent a request, its handler answers and the browser follows the redirect. The user
need not do anything. `NavigationsEnd` rests on two more facts. Statements do not fail
(`MaxFaults = 0`): one that failed each second time would send a tab from the authorize
to the consent page and back for as long as it does. And the two pages judge a cookie
alike: who `AuthorizeGET` takes for signed in, `ConsentGET` does too, unless the session
ends in between, which it does at most `MaxSignIns` times: a user who signed in and out for
ever in one tab could keep another between the two pages. The mutant `HasCookie` breaks the
agreement of the pages, and TLC finds the loop.

## 6. What the runs refute

Four runs check a statement the repository makes of itself and find it violated
by what the code does. Each counterexample was traced back to the lines named.

1. `login_never_answers` (`LoginReturnsTokens`): `Login` stores its refresh token
   with `client_id` `''`, which the foreign key of migration 8 refuses; a login with
   the right password never returns tokens. Theorem `NoLoginSucceeds`: in no behaviour
   of any instance is a login answered with tokens.
2. `refresh_twice` (`SessionsNotMultiplied`): two overlapping refreshes of one token
   both pass the look-up and both store a successor. With one handler the same
   property holds (run `one_handler`), and theorem `RotationKept` names the two gaps through which alone a session can be multiplied.
3. `consent_yields_no_code` (`ConsentYieldsCode`): `GetClientByID` does not read
   `allowed_scopes`, the scope check parses an empty value and fails, and no
   consent yields a code. Theorems: no consent of any instance does
   (`NoConsentSucceeds`), and no way through the pages leads to a session
   (`NoSessionThroughPages`).
4. `start_after_crash` (`StartsSucceed`): after a set-up of the superuser that was
   interrupted behind `CreateScope` every start fails on the UNIQUE scope. Theorem
   `ReadyStartsSucceed` says what to look at before a start for it not to fail.

The models contain more behaviour of this kind, reached by other values of the
constants, on which no run is spent:

* with `MaxFaults > 0`, a refresh whose DELETE fails answers with the old token still
  listed (`RefreshInvalidatesOldToken`);
* a refresh within the second its token was signed in returns the same token, where
  `tokens.go:196` says "a completely new set of tokens": `GenerateRefresh` signs equal
  claims, and `RefreshInvalidatesOldToken` therefore speaks of other tokens only;
* an exchange whose refresh JWT is longer than `VARCHAR(512)`, as one signed with a
  2048-bit key easily is, answers with an error although its code is already gone: a
  grant in `Oversized` fails at `SaveToWhiteList`;
* with `MaxGrants = 2` and `Second = 2`, the second exchange of one user, client and
  scopes within a second is refused by the primary key of the same table;
* a refresh JWT or an address of the client (`r.RemoteAddr`, with its port) that is too long
  for its column ends a refresh with the old token already deleted;
* a consent whose scope string is empty passes the check for every client, and
  `GenerateAuthorizationCode` always stores such a code; the access token then carries *all*
  scopes of the user, `root` included (`AccessScopes`, `tokens.go:36`). So nothing here says
  that an access token is within what its client may ask for: it is not. No document says
  what a request without scopes stands for;
* a log-out that comes between the check of a refresh of the same token and its DELETE
  succeeds, and so does the refresh: its successor outlives the log-out;
* a superuser's password of more than 72 bytes ends the first start behind `CreateScope`, with
  no interruption at all, and every start after it; an interval for the clean-up that is
  not positive makes it panic. The run `start_after_crash` has neither, so the crash
  alone is what it shows;
* with the configuration of the README's quick start, which has no `superuser` and no
  `jwt.cleanup`, no start succeeds; nor does one, without any interruption, once the
  configuration names another superuser (`StartsSucceed`);
* if the set-up was interrupted behind `CreateUser`, later starts take the user for the
  superuser although it has no scope (`roots` stays empty);
* a process whose HTTP port is taken (`http = "failed"`) serves gRPC alone and neither
  ends nor tries again;
* a consent page that was shown to one user is answered for another, if someone else
  signs in in a second tab before it is approved: the handler takes the user of the
  cookie (`CodesForEnteredUsers` says no more than that a password was entered for the user);
* saving the settings of an account that was deleted meanwhile reports success: the UPDATE
  finds no row, and nobody asks how many it found (`UpdateUserProfile`).

Because of 3 the code flow cannot be reached through the consent page as the source
stands, and because of `VARCHAR(512)` and 1 few sessions are stored. So that the rest of
the protocol is still checked, the passing runs, `browser` among them, set `Selected` to a
query that reads the column, and leave some grants out of `Oversized`; both are constants,
and the theorems hold for every value of them, but for the two that are about the query of
the source.

## 7. The proofs

All obligations are checked by TLAPS, for any sets of users, clients, scopes,
handlers, codes, tabs, names and processes, any TTL that is a whole number of seconds, and
any bounds, under the assumptions on constants that the modules name (`ASSUME`).

**TokenProviderProofs.** `Inv` is inductive. Beyond `TypeOK`, `ConsentedOnly` and
`DeletedUserHoldsNoSession` it needs:

* that `second` is the last whole second, `second <= now < second + Second`, for
  otherwise a token's `exp` and its row's `expires_at` could not be compared;
* that what a handler holds is consented: a `grant` handler's grant and the
  grant of the token a refresh holds are begun, and a refresh past
  `CheckWhitelist` holds a grant equal to its token's: a check made in one
  statement carries over to the INSERT two statements later only because no other
  action changes the slot;
* that a row outlives its token, `row.token.exp <= row.expires`, and that a signed
  token's `iat` is not later than `second`.

`TypeCorrect`, `Consented` and `NoSessionOfDeletedUser` follow directly.
`SessionsLeave` (`OnlyEndedSessionsLeave`) uses the last of these facts for the
clean-up. `DeadStayDead` (`DeadTokensStayDead`) uses that a handler signs with the
current second, so what it signs later is never a token of an earlier second.

**TokenRotationProofs.** Three promises, and what they cost.

* `EndIsForGood` (`EndedForGood`). A grant has *ended* when it is listed nowhere and no
  handler is on its way to listing it, and stays so until its next exchange. It needs only
  `Inv`: a handler gets on its way by an exchange or by finding a token of the grant in
  the whitelist, and a refresh past `CheckWhitelist` carries the grant of its token.
* `RotationKept` (`SessionsNotMultiplied`). Every exchange pays for one session, and
  the payment changes hands: the handler of the exchange holds it (`Waiting`), then the
  token it has stored (`Seats`); a refresh that found the token takes it over with the
  DELETE and hands it to the successor with the INSERT. `RotationInv` says that a
  token has one row (`Keyed`) and that the payments of a grant, counted as the sum of two
  cardinalities, are at most `granted` (`Balanced`). It is inductive under two
  hypotheses, which say just what `RefreshToken` omits: `Interlocked`, that no two refreshes
  have found one token before either deletes it (`tokens.go:168`; a lock
  on the row from the look-up to the DELETE would see to it), and `RevocationsTakeEffect`,
  that a refresh goes on only if its DELETE took effect (`tokens.go:194` discards the
  error). Each is needed: without the first the run `refresh_twice` refutes the property,
  without the second TLC does so with one handler and one failing statement.
  The run `one_handler` is an instance where both hold.
* `OldTokenInvalidated` (`RefreshInvalidatesOldToken`). `OldTokensGone`: the token of a
  refresh past its DELETE is not listed. Its hypotheses are `RevocationsTakeEffect` again
  and `NoRival`, that no other handler has signed the very token which this one replaces:
  a second exchange or refresh of the grant within the second of its signature could.

`NoLoginSucceeds` proves what makes the run `login_never_answers` fail, in general: a
login's grant has no client, so its row is refused. `HandlersAdvance` gives the safety
half of `EveryRequestEnds`: a variant, the statements a handler has before it, falls with
each of its steps and no step of anyone else changes it. What is left to fairness is that a
handler is scheduled.

**AuthorizationCodesProofs.** `CodesInv` says that a code has one row, with the grant
it was stored for; that a code a handler still holds is unused and held by it
alone; that what is redeemed was
consented; and that a grant begun has a redeemed code. Together with
`Inv` it is inductive. From it:

* `RefinesTokenProvider`: `CodesSpec => Spec`, step by step;
* `OneTimeCodes`: `CodesSpec` implements `OneTimeCode` under `open` = the codes with a
  row. `SaveCode` maps to `Issue`, an accepted exchange to `Redeem`, a refused one and
  the deletion of a user to `Close` or to a stutter, every other step to a stutter;
* `SessionsConsented`, `CodesTypeCorrect`, and `CodesKeepRevocation`,
  which carries the provider's two action properties over to the composition;
* `OneExchange` (`OneExchangePerCode`), for finite `CodeIds`. It counts: a code with a row is
  unredeemed (`StoredUnredeemed`), so an accepted exchange adds exactly one element to the
  codes redeemed for its grant, as it adds one to `granted`; no other step touches either;
* `OneAttempt` (`OneAttemptPerCode`): a code that was tried has no row any more
  (`TriedSpent`), because the DELETE comes before the checks, a code is drawn once and a
  handler that still holds it has not stored it; and only an exchange of a row redeems;
* `RevivalTakesConsent`: `EndedForGood` seen from the codes. A grant that comes back does so by
  the redemption of a code consented for it and unredeemed until then;
* `OneSessionPerCode`: `RotationKept` and `OneExchange` together, from the consent page to the
  whitelist. A grant has at most as many live sessions as codes were redeemed for it, under
  the same two hypotheses;
* `NoConsentSucceeds`, under `Unread`, the condition on `Selected` that the query of the source
  meets: no consent gets past its scope check. This theorem and `NoSessionThroughPages` are
  the only ones that assume anything of `Selected`.

**BrowserSessionProofs.** `BrowserInv` adds to `BrowserTypeOK` and `CodesForEnteredUsers`: a tab
in the flow is `About` the request it was opened with, and so is the consent handler that
works for it (`Carries`); behind every cookie, right credential and form in flight is a
user of `entered` (`Backed`); and `Quiet`: while `quiet`, the jar is empty, no request in
flight has a cookie or right credentials, and no consent handler runs. The last conjunct
makes `NoCodeAfterLogout` inductive: `Follow` sets `quiet` just when it has emptied the jar and
all other tabs stand still, and only right credentials, which reset it, can fill the jar
again. Every step of `BrowserNext` is a step of `CodesNext` or leaves its variables alone
(`BrowserStepRefines`), so the invariants of the lower layers come for free:
`BrowserInvariance`, `RefinesAuthorizationCodes`, then `RequestsSurvive`, `CodesOfEnteredUsers`,
`NoCodesAfterLogout`, `BrowserCodesOneTime`, and `SessionsOfEnteredUsers`, which ties a session at the bottom, after
any refreshes, to a password entered at the top. `NoSessionThroughPages` is what the source
makes of all this: under `Unread` there are no codes, so by `SessionsConsented` there are no
sessions, logins included.

**AccountsProofs.** `Inv` is `TypeOK`, `AccountsDiffer`, `LinksResolve` and `ActsOnHeld`: the scopes a
handler carries are among those `held` since it read them. Ids in the tables are at most
the last value of their sequence, so a new one is new (`UniqueAccounts`, `StaysDeleted`); a
deletion takes the links with it and an insertion of a link finds both ends in the same
statement (`NoOrphans`). `NoStaleRights` is `ActsOnHeld` with the lemma that `AccessScopes`
never yields more than the names read, whatever the string of allowed scopes.
`SettingsAreColumns` follows the stale copy: `Saved` keeps identities because it takes
from the copy only the profile. `PartIsMember` says what the test for a part of the string
(`StringFromAllowed`) grants: all scopes of the user that the string lists, none the user
lacks, and no other one *if and only if* no name of a scope is a part of another's. The
code does not see to that; the instance of the run `accounts` has two such names.

**BootstrapProofs.** `Inv` is `TypeOK`, `ServesOnlyMigrated` and `UpOK`: inside `Up` the
version that was read once is still the table's. This carries the argument, and it is
inductive because `TypeOK` says that the lock is held by the one process inside `Up`,
also across crashes, which free it. A process past the migrations has seen the last
version clean; another can dirty the schema only by a next migration, and there is none
(`SchemaReady`). `WholeSuperuser` is proved under `Undisturbed`, an assumption on the
constants: no interruptions, passwords bcrypt takes, positive intervals. Its invariant
`SetUpOK` says that before `root` is in the table no process is past `CreateScope`, and
after it the process that inserted it is about to link its user, or has. The UNIQUE name of
the scope is the only mutual exclusion between processes that start together.

**StartProofs.** `MigratesOnce`: `Spec => MigrationsRunOnce`, under `worker` = the process at
`"apply"` that holds the lock (`Migrating`). `NextMigration` maps to `Begin`, because inside
`Up` the version read is the table's (`UpOK`); `ApplyMigration` to `Finish`; a crash or a
failing file to `Abandon`; every other step to a stutter, because only `NextMigration` leads
to `"apply"`.

`ReadyStartsSucceed` (`StartsSucceed`) has a hypothesis on what an operator does, and none on
what happens to the processes: `GoodStarts`, that each start finds the others down, a
configuration no check refuses, a clean schema, and no scope `root` without the superuser of
the file. Its invariant `StartOK` has two parts that carry it: while one process runs, only it
makes the schema dirty, at `"apply"`, and only it has `root` without a user, at `"user"`
(`Fit`). So no branch that ends in an error is taken, and interruptions, which it allows at
any point, leave behind at most what the next `Ready` looks at. The run `start_after_crash`
is a start that did not look.

`StartsAdvance` is the variant of a start, as `HandlersAdvance` is that of a request:
two moves per migration still to run and one for each other place of `main`.

Only model-checked: the liveness properties (`EveryRequestEnds`, `ExpiredRowsAreSwept`,
`StartsEnd`, `SignalledEnd`, `NavigationsEnd`), since the prover does not reason about
`ENABLED`. Every other property of a passing run is stated by a theorem,
`SessionsNotMultiplied` and `RefreshInvalidatesOldToken` under the hypotheses named above,
without which they are false. Of the four statements that runs refute, `StartsSucceed` and
`SessionsNotMultiplied` have theorems that say when they hold, `LoginReturnsTokens` and
`ConsentYieldsCode` ones that say why they never do.

## 8. Assumptions

* The server and the database share one clock. `expires_at` is a timestamp without
  time zone written by the one and compared by the other.
* A signature cannot be forged, SHA-256 does not collide, and 32 random bytes do not
  repeat: `FreshCodes` chooses an unused code.
* A statement is atomic (PostgreSQL's default isolation), and a failed write may
  have been executed.
* Clients are neither changed nor deleted: nothing in the server does so.
* Clients present only refresh tokens they were given (`delivered`); others are
  refused like an unlisted one.
* The TTL is a whole number of seconds, as `GetTimeUnit` of `internal/jwt/jwt.go`
  yields for every unit it knows from seconds up.
* `db.Repository.DeleteUser` and `GenerateAuthorizationCode` are exported and have no
  caller in the server's own endpoints; they are actions because they change the
  tables and an embedding program, or an operator by SQL, can run them.
* golang-migrate, a library, is modelled by what `RunMigrations` needs of it: an
  advisory lock that dies with its connection, `dirty` set before a file and cleared
  after it.
* The processes of `Bootstrap` run on one host: they compete for its ports. Who has the
  ports does not matter to the database properties.
* The superuser's e-mail address belongs to no other user.
* `BrowserSession` has one browser, and its tabs are the only ones to store codes: what its
  `entered` says is about that browser. `GenerateAuthorizationCode`, which stores one for a
  password without a page, is in `AuthorizationCodes` only.
* A tab sends one request at a time; leaving a page whose request is in flight is left out,
  since the server finishes it all the same.
* The clock of the browser does not matter: cookies have the lifetime of their token.
* In `Accounts` a session or access token may name any id ever drawn, so that nothing rests
  on tokens expiring.

## 9. What is not modelled

* ID tokens with the nonce and the claims that copy it: signed, never stored, never read
  again.
* The lengths of URLs. Each sign-in doubles the parameters of the query, because the form
  and its URL both have them; the model keeps the first of the equal values.
* The parameter `error` that stays in the URL after a wrong password; `history.back` of the
  consent page's Cancel button; what users do in tabs of other origins.
* Requests that keep no state: the register page's GET, templates, static files,
  translations, discovery, JWKS. The POST of the register page is `Register` of `Accounts`.
* Parsing of requests and encoding of replies; splitting and joining of scope strings at
  blanks. How a client authenticates at the token endpoint: `Refuse` is its failure.
* Password hashes: a password is right or wrong.
* Time zones: `expires_at` has none, and the model has one clock.
* `GetUserByEmail`, which nothing calls.
* The gRPC stubs, which are generated. The configuration reader: its values
  are constants here, except for those that decide whether a start succeeds.
* What the migrations create: `Bootstrap` only counts them; the constraints that matter are in
  the modules of their tables.
* Expired codes stay in `auth_codes`: no job removes them, and nothing promises it.

Hazards without a property, and why, are in `PROJECT.json`. Some are outside the models: the
zone of `expires_at` and the doubling of parameters. The others are in the models, but
nothing in the repository says what should happen, so there is nothing to hold or to
refute: a log-out that overtakes a refresh, a refresh whose INSERT fails, tokens too
long for their column, unredeemed codes that stay, an empty scope string, names that are
parts of other names (`PartIsMember` gives the condition), a second empty e-mail address, a
superuser's password that bcrypt refuses, and a server that runs with one port.

## 10. The plan

1. `TokenProvider` and `AuthorizationCodes` (done, with `OneExchangePerCode` proved).
2. `Bootstrap` (done).
3. `Accounts` (done): registration races, profiles, scopes of users, deletion.
4. `BrowserSession` (done): cookie, parameters, tabs, log-out, composed with the codes.
5. `ScopeStrings` was to compare the functions on strings with the set operations they
   stand for. What the difference amounts to is now in `Accounts` as the relation `Infix` and
   the theorem `PartIsMember`; a character-level module would add nothing to it.
6. `TokenRotationProofs` and `StartProofs` (done): the two promises of a refresh under the
   conditions they need, starts that find everything ready, the refinement of
   `SchemaUpgrade`, and the variants behind the liveness properties.
7. Left to prove: a variant for the redirects of a tab between two changes of the cookie, the
   safety half of `NavigationsEnd`; and what a process that was interrupted in the set-up
   of the superuser can leave behind.
