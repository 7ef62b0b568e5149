------------------------------ MODULE StartProofs ------------------------------
(***************************************************************************)
(* More theorems about Bootstrap: the migrations implement SchemaUpgrade,   *)
(* a start makes a bounded number of steps, and it succeeds for an operator *)
(* who looks, before starting a process, at four things.                   *)
(***************************************************************************)
EXTENDS BootstrapProofs

(* The forms in which a step changes a process. *)
LEMMA EndForm ==
    ASSUME Inv, NEW p \in Processes, NEW end, End(p, end)
    PROVE  /\ \A q \in Processes \ {p} : proc'[q] = proc[q]
           /\ proc'[p].pc = "down" /\ proc'[p].end = end
           /\ ports' = PortsWithout(p)
BY DEF Inv, TypeOK, End, Down, Fresh

LEMMA GotoForm ==
    ASSUME Inv, NEW p \in Processes, NEW pc, Goto(p, pc)
    PROVE  /\ \A q \in Processes \ {p} : proc'[q] = proc[q]
           /\ proc'[p].pc = pc /\ proc'[p].config = proc[p].config
           /\ proc'[p].at = proc[p].at
BY DEF Inv, TypeOK, Process, Goto

LEMMA StartForm ==
    ASSUME Inv, NEW p \in Processes, NEW c \in Configs, Start(p, c)
    PROVE  /\ \A q \in Processes \ {p} : proc'[q] = proc[q]
           /\ proc'[p].pc = "connect" /\ proc'[p].config = c /\ proc'[p].end = "none"
BY DEF Inv, TypeOK, Start, Fresh

LEMMA MigrateForm ==
    ASSUME Inv, NEW p \in Processes, NEW v,
           proc' = [proc EXCEPT ![p].pc = "migrate", ![p].at = v]
    PROVE  /\ \A q \in Processes \ {p} : proc'[q] = proc[q]
           /\ proc'[p].pc = "migrate" /\ proc'[p].config = proc[p].config
           /\ proc'[p].at = v
BY DEF Inv, TypeOK, Process

LEMMA ProviderForm ==
    ASSUME Inv, NEW p \in Processes,
           proc' = [proc EXCEPT ![p].pc = "exists", ![p].cleanup = "spawned"]
    PROVE  /\ \A q \in Processes \ {p} : proc'[q] = proc[q]
           /\ proc'[p].pc = "exists" /\ proc'[p].config = proc[p].config
BY DEF Inv, TypeOK, Process

LEMMA SpawnForm ==
    ASSUME Inv, NEW p \in Processes, SpawnHTTP(p)
    PROVE  /\ \A q \in Processes \ {p} : proc'[q] = proc[q]
           /\ proc'[p].pc = "listen" /\ proc'[p].config = proc[p].config
BY DEF Inv, TypeOK, Process, SpawnHTTP

(* The goroutines and the signal leave the main function where it is. *)
LEMMA BesideForm ==
    ASSUME Inv, NEW p \in Processes,
           \/ \E c : proc' = [proc EXCEPT ![p].cleanup = c]
           \/ \E h : proc' = [proc EXCEPT ![p].http = h]
           \/ proc' = [proc EXCEPT ![p].signalled = TRUE]
    PROVE  /\ \A q \in Processes \ {p} : proc'[q] = proc[q]
           /\ proc'[p].pc = proc[p].pc /\ proc'[p].config = proc[p].config
           /\ proc'[p].at = proc[p].at
BY DEF Inv, TypeOK, Process

(* What each step of p does to the place of p. *)
LEMMA Moves ==
    ASSUME Inv, NEW p \in Processes,
           Main(p) \/ StartTokenCleanup(p) \/ ListenAndServe(p) \/ Signal(p) \/ Crash(p)
    PROVE  /\ proc[p].pc # "down"
           /\ \A q \in Processes \ {p} : proc'[q] = proc[q]
<1>1. ProcessOK(proc[p])
  BY DEF Inv, TypeOK
<1>2. proc[p].pc # "down"
  BY <1>1 DEF Main, StartTokenCleanup, ListenAndServe, Signal, Crash, ConnectSource,
              LockSchema, ReadVersion, NextMigration, ApplyMigration, NewJwtTokenProvider,
              UserExistsByUsername, CreateScope, CreateUser, AddScopeToUser, SpawnHTTP,
              Listen, GracefulStop, Drained, ProcessOK
<1>3. \/ \E end : End(p, end)
      \/ \E pc : Goto(p, pc)
      \/ \E v : proc' = [proc EXCEPT ![p].pc = "migrate", ![p].at = v]
      \/ proc' = [proc EXCEPT ![p].pc = "exists", ![p].cleanup = "spawned"]
      \/ SpawnHTTP(p)
      \/ \E c : proc' = [proc EXCEPT ![p].cleanup = c]
      \/ \E h : proc' = [proc EXCEPT ![p].http = h]
      \/ proc' = [proc EXCEPT ![p].signalled = TRUE]
  <2>1. CASE ConnectSource(p) \/ LockSchema(p) \/ ReadVersion(p) \/ NextMigration(p)
               \/ ApplyMigration(p) \/ NewJwtTokenProvider(p)
    BY <2>1 DEF ConnectSource, LockSchema, ReadVersion, NextMigration, ApplyMigration,
                NewJwtTokenProvider, MigrationFails, Interrupted
  <2>2. CASE UserExistsByUsername(p) \/ CreateScope(p) \/ CreateUser(p)
               \/ AddScopeToUser(p)
    BY <2>2 DEF UserExistsByUsername, CreateScope, CreateUser, AddScopeToUser,
                Cancelled, Interrupted
  <2>3. CASE SpawnHTTP(p) \/ Listen(p) \/ GracefulStop(p) \/ Drained(p)
    BY <2>3 DEF Listen, GracefulStop, Drained, ListenFails
  <2>4. CASE StartTokenCleanup(p) \/ ListenAndServe(p) \/ Signal(p) \/ Crash(p)
    BY <2>4 DEF StartTokenCleanup, ListenAndServe, Signal, Crash, Interrupted
  <2> QED BY <2>1, <2>2, <2>3, <2>4 DEF Main
<1>4. \A q \in Processes \ {p} : proc'[q] = proc[q]
  BY <1>3, EndForm, GotoForm, MigrateForm, ProviderForm, SpawnForm, BesideForm
<1> QED BY <1>2, <1>4

-----------------------------------------------------------------------------
(* The length of a start. *)

(* The steps of the main function that a process has before it: two for    *)
(* each migration, and one for each other place.                           *)
Left(q) ==
    CASE q.pc = "connect"  -> 13 + 2 * Migrations
      [] q.pc = "lock"     -> 12 + 2 * Migrations
      [] q.pc = "version"  -> 11 + 2 * Migrations
      [] q.pc = "migrate"  -> 10 + 2 * (Migrations - q.at)
      [] q.pc = "apply"    -> 9 + 2 * (Migrations - q.at)
      [] q.pc = "provider" -> 9
      [] q.pc = "exists"   -> 8
      [] q.pc = "scope"    -> 7
      [] q.pc = "user"     -> 6
      [] q.pc = "link"     -> 5
      [] q.pc = "http"     -> 4
      [] q.pc = "listen"   -> 3
      [] q.pc = "serving"  -> 2
      [] q.pc = "draining" -> 1
      [] q.pc = "down"     -> 0

LEMMA LeftOK ==
    ASSUME Inv, NEW p \in Processes
    PROVE  /\ Left(proc[p]) \in Nat
           /\ proc[p].pc # "down" => Left(proc[p]) > 0
<1>1. proc[p].pc \in PCs /\ proc[p].at \in 0 .. Migrations /\ Migrations \in Nat
  BY MigrationsAssumption DEF Inv, TypeOK, Process
<1> QED BY <1>1 DEF Left, PCs, Starting, Locked, Serving

LEMMA LeftStep ==
    ASSUME Inv, [Next]_vars, NEW p \in Processes,
           proc[p].pc # "down", proc'[p].pc # proc[p].pc
    PROVE  Left(proc'[p]) < Left(proc[p])
<1>1. /\ proc[p].at \in 0 .. Migrations /\ Migrations \in Nat /\ version \in 0 .. Migrations
      /\ proc[p].pc = "apply" => proc[p].at < Migrations
  BY MigrationsAssumption DEF Inv, TypeOK, UpOK, Process
<1>2. CASE proc'[p].pc = "down"
  <2>1. Left(proc'[p]) = 0
    BY <1>2 DEF Left
  <2> QED BY <2>1, LeftOK
<1>3. ASSUME NEW q \in Processes \ {p}, NEW c \in Configs, Start(q, c) PROVE FALSE
  BY <1>3, StartForm
<1>4. ASSUME NEW c \in Configs, Start(p, c) PROVE FALSE
  BY <1>4 DEF Start
<1>5. CASE StartTokenCleanup(p) \/ ListenAndServe(p) \/ Signal(p) \/ Crash(p)
  <2>1. \/ \E end : End(p, end)
        \/ \E c : proc' = [proc EXCEPT ![p].cleanup = c]
        \/ \E h : proc' = [proc EXCEPT ![p].http = h]
        \/ proc' = [proc EXCEPT ![p].signalled = TRUE]
    BY <1>5 DEF StartTokenCleanup, ListenAndServe, Signal, Crash, Interrupted
  <2> QED BY <1>2, <2>1, EndForm, BesideForm
<1>6. CASE \E end : End(p, end)
  BY <1>2, <1>6, EndForm
<1>7. CASE ReadVersion(p) \/ ApplyMigration(p)
  <2>1. CASE ReadVersion(p) /\ proc' = [proc EXCEPT ![p].pc = "migrate", ![p].at = version]
    <3>1. proc[p].pc = "version" /\ proc'[p].pc = "migrate" /\ proc'[p].at = version
      BY <2>1, MigrateForm DEF ReadVersion
    <3>2. Left(proc[p]) = 11 + 2 * Migrations
      BY <3>1 DEF Left
    <3>3. Left(proc'[p]) = 10 + 2 * (Migrations - version)
      BY <3>1 DEF Left
    <3> QED BY <1>1, <3>2, <3>3
  <2>2. CASE /\ ApplyMigration(p)
             /\ proc' = [proc EXCEPT ![p].pc = "migrate", ![p].at = @ + 1]
    <3>1. /\ proc[p].pc = "apply" /\ proc'[p].pc = "migrate"
          /\ proc'[p].at = proc[p].at + 1
      BY <2>2, MigrateForm DEF ApplyMigration
    <3>2. Left(proc[p]) = 9 + 2 * (Migrations - proc[p].at)
      BY <3>1 DEF Left
    <3>3. Left(proc'[p]) = 10 + 2 * (Migrations - (proc[p].at + 1))
      BY <3>1 DEF Left
    <3> QED BY <1>1, <3>2, <3>3
  <2> QED BY <1>6, <1>7, <2>1, <2>2
          DEF ReadVersion, ApplyMigration, MigrationFails, Interrupted
<1>8. CASE NextMigration(p)
  <2>1. CASE proc[p].at < Migrations /\ Goto(p, "apply")
    <3>1. /\ proc[p].pc = "migrate" /\ proc'[p].pc = "apply" /\ proc'[p].at = proc[p].at
      BY <1>8, <2>1, GotoForm DEF NextMigration
    <3>2. Left(proc[p]) = 10 + 2 * (Migrations - proc[p].at)
      BY <3>1 DEF Left
    <3>3. Left(proc'[p]) = 9 + 2 * (Migrations - proc[p].at)
      BY <3>1 DEF Left
    <3> QED BY <1>1, <3>2, <3>3
  <2>2. CASE proc[p].at = Migrations /\ Goto(p, "provider")
    <3>1. /\ proc[p].pc = "migrate" /\ proc'[p].pc = "provider"
      BY <1>8, <2>2, GotoForm DEF NextMigration
    <3>2. Left(proc[p]) = 10 + 2 * (Migrations - proc[p].at)
      BY <3>1 DEF Left
    <3>3. Left(proc'[p]) = 9
      BY <3>1 DEF Left
    <3> QED BY <1>1, <2>2, <3>2, <3>3
  <2> QED BY <1>6, <1>8, <2>1, <2>2 DEF NextMigration, Interrupted
<1>9. CASE ConnectSource(p) \/ LockSchema(p) \/ NewJwtTokenProvider(p)
  <2>1. CASE ConnectSource(p) /\ Goto(p, "lock")
    BY <1>1, <2>1, GotoForm DEF ConnectSource, Left
  <2>2. CASE LockSchema(p) /\ Goto(p, "version")
    BY <1>1, <2>2, GotoForm DEF LockSchema, Left
  <2>3. CASE /\ NewJwtTokenProvider(p)
             /\ proc' = [proc EXCEPT ![p].pc = "exists", ![p].cleanup = "spawned"]
    <3>1. proc[p].pc = "provider" /\ proc'[p].pc = "exists"
      BY <2>3, ProviderForm DEF NewJwtTokenProvider
    <3> QED BY <3>1 DEF Left
  <2> QED BY <1>6, <1>9, <2>1, <2>2, <2>3
          DEF ConnectSource, LockSchema, NewJwtTokenProvider, Interrupted
<1>10. CASE UserExistsByUsername(p) \/ CreateScope(p) \/ CreateUser(p) \/ AddScopeToUser(p)
  <2>1. CASE UserExistsByUsername(p) /\ \E pc \in {"http", "scope"} : Goto(p, pc)
    BY <2>1, GotoForm DEF UserExistsByUsername, Left
  <2>2. CASE CreateScope(p) /\ Goto(p, "user")
    BY <2>2, GotoForm DEF CreateScope, Left
  <2>3. CASE CreateUser(p) /\ Goto(p, "link")
    BY <2>3, GotoForm DEF CreateUser, Left
  <2>4. CASE AddScopeToUser(p) /\ Goto(p, "http")
    BY <2>4, GotoForm DEF AddScopeToUser, Left
  <2> QED BY <1>6, <1>10, <2>1, <2>2, <2>3, <2>4
          DEF UserExistsByUsername, CreateScope, CreateUser, AddScopeToUser,
              Cancelled, Interrupted
<1>11. CASE SpawnHTTP(p) \/ Listen(p) \/ GracefulStop(p) \/ Drained(p)
  <2>1. CASE SpawnHTTP(p)
    <3>1. proc[p].pc = "http" /\ proc'[p].pc = "listen"
      BY <2>1, SpawnForm DEF SpawnHTTP
    <3> QED BY <3>1 DEF Left
  <2>2. CASE Listen(p) /\ Goto(p, "serving")
    BY <2>2, GotoForm DEF Listen, Left
  <2>3. CASE GracefulStop(p)
    BY <2>3, GotoForm DEF GracefulStop, Left
  <2> QED BY <1>6, <1>11, <2>1, <2>2, <2>3 DEF Listen, ListenFails, Drained
<1>12. ASSUME NEW q \in Processes \ {p},
              Main(q) \/ StartTokenCleanup(q) \/ ListenAndServe(q) \/ Signal(q) \/ Crash(q)
       PROVE  FALSE
  BY <1>12, Moves
<1>13. CASE UNCHANGED vars
  BY <1>13 DEF vars
<1> QED BY <1>3, <1>4, <1>5, <1>7, <1>8, <1>9, <1>10, <1>11, <1>12, <1>13 DEF Next, Main

(* A process only ever moves towards serving and then towards its end, and  *)
(* nothing another process does sends it back: a start of the program makes *)
(* at most 13 + 2 * Migrations steps.  StartsEnd and SignalledEnd need no   *)
(* more than that the process is scheduled.                                *)
THEOREM StartsAdvance ==
    Spec => [][\A p \in Processes :
                 proc[p].pc # "down" /\ proc'[p].pc # proc[p].pc
                   => Left(proc'[p]) < Left(proc[p])]_vars
<1>1. Inv /\ [Next]_vars =>
        [\A p \in Processes :
           proc[p].pc # "down" /\ proc'[p].pc # proc[p].pc
             => Left(proc'[p]) < Left(proc[p])]_vars
  BY LeftStep
<1> QED BY <1>1, Invariance, PTL DEF Spec

-----------------------------------------------------------------------------
(* The migrations implement SchemaUpgrade. *)

(* The process that runs a file holds the lock, so it is the only one. *)
LEMMA MigratingFacts ==
    ASSUME Inv
    PROVE  /\ \A p \in Processes : Migrating = p <=> proc[p].pc = "apply"
           /\ Migrating \in Processes \cup {None}
BY ConfigAssumption DEF Inv, TypeOK, Migrating, Locked

(* A step in which no file is begun or finished: the process that runs one  *)
(* goes on with it or dies.                                                *)
LEMMA NoMigrationStep ==
    ASSUME Inv, Inv', UNCHANGED <<version, dirty>>,
           \A p \in Processes : proc'[p].pc = "apply" => proc[p].pc = "apply"
    PROVE  [SU!Next]_(SU!vars)
<1>1. Migrating' = Migrating \/ Migrating' = None
  <2>1. \A p \in Processes : Migrating' = p <=> proc'[p].pc = "apply"
    BY ConfigAssumption DEF Inv, TypeOK, Migrating, Locked
  <2>2. Migrating' \in Processes \cup {None}
    BY DEF Inv, TypeOK, Migrating
  <2> QED BY <2>1, <2>2, MigratingFacts
<1>2. CASE Migrating' = Migrating
  BY <1>2 DEF SU!vars
<1>3. CASE Migrating' # Migrating
  <2>1. SU!Abandon
    BY <1>1, <1>3 DEF SU!Abandon
  <2> QED BY <2>1 DEF SU!Next
<1> QED BY <1>2, <1>3

LEMMA BeginMigration ==
    ASSUME Inv, Inv', NEW p \in Processes, NextMigration(p), proc[p].at < Migrations,
           version' = proc[p].at + 1, dirty' = TRUE, Goto(p, "apply")
    PROVE  SU!Begin(p)
<1>1. proc[p].pc = "migrate" /\ ~ dirty /\ proc[p].at = version
  BY DEF NextMigration, Inv, UpOK
<1>2. \A q \in Processes : proc[q].pc # "apply"
  BY <1>1, OneInUp DEF Locked
<1>3. Migrating = None
  BY <1>2, MigratingFacts
<1>4. proc'[p].pc = "apply"
  BY GotoForm
<1>5. Migrating' = p
  BY <1>4, ConfigAssumption DEF Inv, TypeOK, Migrating, Locked
<1>6. version < Migrations /\ version' = version + 1
  BY <1>1
<1> QED BY <1>1, <1>3, <1>5, <1>6 DEF SU!Begin

LEMMA FinishMigration ==
    ASSUME Inv, Inv', NEW p \in Processes, ApplyMigration(p), dirty' = FALSE,
           proc' = [proc EXCEPT ![p].pc = "migrate", ![p].at = @ + 1]
    PROVE  SU!Finish(p)
<1>1. proc[p].pc = "apply" /\ UNCHANGED version
  BY DEF ApplyMigration
<1>2. Migrating = p
  BY <1>1, MigratingFacts
<1>3. /\ proc'[p].pc = "migrate"
      /\ \A q \in Processes \ {p} : proc'[q] = proc[q]
  BY MigrateForm
<1>4. \A q \in Processes : proc'[q].pc # "apply"
  BY <1>1, <1>3, OneInUp DEF Locked
<1>5. Migrating' = None
  BY <1>4 DEF Inv, TypeOK, Migrating
<1> QED BY <1>1, <1>2, <1>5 DEF SU!Finish

(* A process reaches "apply" only by NextMigration. *)
LEMMA OnlyNextMigrationApplies ==
    ASSUME Inv, NEW p \in Processes,
           Main(p) \/ StartTokenCleanup(p) \/ ListenAndServe(p) \/ Signal(p) \/ Crash(p),
           ~ NextMigration(p), proc'[p].pc = "apply"
    PROVE  proc[p].pc = "apply"
<1>1. CASE \E end : End(p, end)
  BY <1>1, EndForm
<1>2. CASE ConnectSource(p) \/ LockSchema(p) \/ ReadVersion(p) \/ ApplyMigration(p)
             \/ NewJwtTokenProvider(p)
  <2>1. CASE \E pc \in {"lock", "version"} : Goto(p, pc)
    BY <2>1, GotoForm
  <2>2. CASE \/ proc' = [proc EXCEPT ![p].pc = "migrate", ![p].at = version]
             \/ proc' = [proc EXCEPT ![p].pc = "migrate", ![p].at = @ + 1]
    BY <2>2, MigrateForm
  <2>3. CASE proc' = [proc EXCEPT ![p].pc = "exists", ![p].cleanup = "spawned"]
    BY <2>3, ProviderForm
  <2> QED BY <1>1, <1>2, <2>1, <2>2, <2>3
          DEF ConnectSource, LockSchema, ReadVersion, ApplyMigration,
              NewJwtTokenProvider, MigrationFails, Interrupted
<1>3. CASE UserExistsByUsername(p) \/ CreateScope(p) \/ CreateUser(p) \/ AddScopeToUser(p)
  <2>1. CASE \E pc \in {"http", "scope", "user", "link"} : Goto(p, pc)
    BY <2>1, GotoForm
  <2> QED BY <1>1, <1>3, <2>1
          DEF UserExistsByUsername, CreateScope, CreateUser, AddScopeToUser,
              Cancelled, Interrupted
<1>4. CASE SpawnHTTP(p) \/ Listen(p) \/ GracefulStop(p) \/ Drained(p)
  <2>1. CASE \E pc \in {"serving", "draining"} : Goto(p, pc)
    BY <2>1, GotoForm
  <2> QED BY <1>1, <1>4, <2>1, SpawnForm DEF Listen, ListenFails, GracefulStop, Drained
<1>5. CASE StartTokenCleanup(p) \/ ListenAndServe(p) \/ Signal(p) \/ Crash(p)
  BY <1>1, <1>5, BesideForm
     DEF StartTokenCleanup, ListenAndServe, Signal, Crash, Interrupted
<1> QED BY <1>2, <1>3, <1>4, <1>5 DEF Main

LEMMA SchemaStep ==
    ASSUME Inv, Inv', [Next]_vars
    PROVE  [SU!Next]_(SU!vars)
<1>1. ASSUME NEW p \in Processes,
             Main(p) \/ StartTokenCleanup(p) \/ ListenAndServe(p) \/ Signal(p) \/ Crash(p)
      PROVE  [SU!Next]_(SU!vars)
  <2>1. CASE NextMigration(p)
    <3>1. CASE /\ proc[p].at < Migrations /\ version' = proc[p].at + 1
               /\ dirty' = TRUE /\ Goto(p, "apply")
      BY <2>1, <3>1, BeginMigration DEF SU!Next
    <3>2. CASE Goto(p, "provider") /\ UNCHANGED <<version, dirty>>
      BY <3>2, GotoForm, NoMigrationStep
    <3>3. CASE End(p, "interrupted") /\ UNCHANGED <<version, dirty>>
      BY <3>3, EndForm, NoMigrationStep
    <3> QED BY <2>1, <3>1, <3>2, <3>3 DEF NextMigration, Interrupted
  <2>2. CASE /\ ApplyMigration(p) /\ dirty' = FALSE
             /\ proc' = [proc EXCEPT ![p].pc = "migrate", ![p].at = @ + 1]
    BY <2>2, FinishMigration DEF SU!Next
  <2>3. CASE ~ NextMigration(p) /\ UNCHANGED <<version, dirty>>
    <3>1. \A q \in Processes : proc'[q].pc = "apply" => proc[q].pc = "apply"
      BY <1>1, <2>3, Moves, OnlyNextMigrationApplies
    <3> QED BY <2>3, <3>1, NoMigrationStep
  <2>4. NextMigration(p) \/ ApplyMigration(p) \/ UNCHANGED <<version, dirty>>
    BY <1>1 DEF Main, ConnectSource, LockSchema, ReadVersion, NewJwtTokenProvider,
                UserExistsByUsername, CreateScope, CreateUser, AddScopeToUser,
                SpawnHTTP, Listen, GracefulStop, Drained, StartTokenCleanup,
                ListenAndServe, Signal, Crash, schema
  <2>5. CASE ApplyMigration(p) /\ UNCHANGED dirty
    <3>1. UNCHANGED version /\ ~ NextMigration(p)
      BY <2>5 DEF ApplyMigration, NextMigration
    <3> QED BY <2>3, <2>5, <3>1
  <2> QED BY <2>1, <2>2, <2>3, <2>4, <2>5 DEF ApplyMigration
<1>2. ASSUME NEW p \in Processes, NEW c \in Configs, Start(p, c)
      PROVE  [SU!Next]_(SU!vars)
  BY <1>2, StartForm, NoMigrationStep DEF Start, schema
<1>3. CASE UNCHANGED vars
  BY <1>3, NoMigrationStep DEF vars, schema
<1> QED BY <1>1, <1>2, <1>3 DEF Next

(* However many processes start, fail and die, each migration runs at most *)
(* once, in order, by one process at a time, and none after one that was   *)
(* left unfinished.                                                        *)
THEOREM MigratesOnce == Spec => MigrationsRunOnce
<1>1. Init => SU!Init
  BY DEF Init, SU!Init, Migrating
<1>2. Inv /\ Inv' /\ [Next]_vars => [SU!Next]_(SU!vars)
  BY SchemaStep
<1> QED BY <1>1, <1>2, Invariance, PTL DEF Spec, MigrationsRunOnce, SU!Spec

-----------------------------------------------------------------------------
(* Which starts succeed. *)

(* A configuration that no check of the program refuses. *)
Whole(c) ==
    /\ c.keys /\ c.certs /\ c.superuser # None
    /\ c.password = "short" /\ c.interval > 0

(* What an operator can look at before a start: the file, the processes of  *)
(* the host, schema_migrations, and whether the superuser of the file is    *)
(* there if the scope 'root' is.                                           *)
Ready(c) ==
    /\ Whole(c)
    /\ \A q \in Processes : proc[q].pc = "down"
    /\ ~ dirty
    /\ rootScope => c.superuser \in users

GoodStarts ==
    [][\A p \in Processes, c \in Configs : Start(p, c) => Ready(c)]_vars

(* A process q on its way: only its own migration makes the schema dirty,  *)
(* and only its own set-up separates the scope from the superuser.         *)
Fit(q) ==
    q.pc # "down" =>
      /\ Whole(q.config)
      /\ dirty => q.pc = "apply"
      /\ rootScope => q.pc = "user" \/ q.config.superuser \in users
      /\ q.pc \in {"scope", "user"} => q.config.superuser \notin users

Alone == \A p, q \in Processes : proc[p].pc # "down" /\ proc[q].pc # "down" => p = q

StartOK ==
    /\ Alone
    /\ \A p \in Processes : Fit(proc[p]) /\ proc[p].end # "error"
    /\ ports.grpc # None => proc[ports.grpc].pc = "serving"

(* What StartOK says of the process that runs. *)
LEMMA Running ==
    ASSUME Inv, StartOK, NEW p \in Processes, proc[p].pc # "down"
    PROVE  /\ Whole(proc[p].config)
           /\ dirty => proc[p].pc = "apply"
           /\ rootScope => proc[p].pc = "user" \/ proc[p].config.superuser \in users
           /\ proc[p].pc \in {"scope", "user"} => proc[p].config.superuser \notin users
           /\ ports.grpc # None => ports.grpc = p /\ proc[p].pc = "serving"
           /\ \A q \in Processes \ {p} : proc[q].pc = "down"
<1>1. \A q \in Processes \ {p} : proc[q].pc = "down"
  BY DEF StartOK, Alone
<1>2. ports.grpc # None => ports.grpc = p /\ proc[p].pc = "serving"
  BY <1>1 DEF StartOK, Inv, TypeOK
<1>3. Fit(proc[p])
  BY DEF StartOK
<1> QED BY <1>1, <1>2, <1>3 DEF Fit

(* It leaves: what it has written so far is the next start's business. *)
LEMMA LeaveStart ==
    ASSUME Inv, StartOK, NEW p \in Processes, proc[p].pc # "down",
           NEW end \in {"interrupted", "stopped"}, End(p, end)
    PROVE  StartOK'
<1>1. /\ \A q \in Processes \ {p} : proc'[q] = proc[q]
      /\ proc'[p].pc = "down" /\ proc'[p].end = end
      /\ ports' = PortsWithout(p)
  BY EndForm
<1>2. \A q \in Processes : proc'[q].pc = "down" /\ proc'[q].end # "error"
  BY <1>1, Running DEF StartOK
<1>3. ports'.grpc = None
  BY <1>1, Running DEF PortsWithout
<1> QED BY <1>2, <1>3 DEF StartOK, Alone, Fit

(* It goes on. *)
LEMMA GoOn ==
    ASSUME Inv, Inv', StartOK, NEW p \in Processes, proc[p].pc # "down",
           \A q \in Processes \ {p} : proc'[q] = proc[q],
           proc'[p].pc # "down", proc'[p].config = proc[p].config,
           dirty' => proc'[p].pc = "apply",
           rootScope' => \/ proc'[p].pc = "user"
                         \/ proc[p].config.superuser \in users',
           proc'[p].pc \in {"scope", "user"} => proc[p].config.superuser \notin users',
           ports'.grpc # None => ports'.grpc = p /\ proc'[p].pc = "serving"
    PROVE  StartOK'
<1>1. \A q \in Processes \ {p} : proc'[q].pc = "down" /\ proc'[q].end # "error"
  BY Running DEF StartOK
<1>2. proc'[p].end # "error"
  BY DEF Inv, TypeOK, ProcessOK
<1>3. Fit(proc[p])'
  BY Running DEF Fit, Whole
<1>4. \A q \in Processes : Fit(proc[q])'
  BY <1>1, <1>3 DEF Fit
<1>5. Alone'
  BY <1>1 DEF Alone
<1> QED BY <1>1, <1>2, <1>4, <1>5 DEF StartOK

LEMMA MigrateStart ==
    ASSUME Inv, Inv', StartOK, NEW p \in Processes, proc[p].pc # "down",
           ConnectSource(p) \/ LockSchema(p) \/ ReadVersion(p) \/ NextMigration(p)
             \/ ApplyMigration(p)
    PROVE  StartOK'
<1>1. UNCHANGED tables /\ proc[p].pc \in {"connect", "lock", "version", "migrate", "apply"}
  BY DEF ConnectSource, LockSchema, ReadVersion, NextMigration, ApplyMigration
<1>2. /\ dirty => proc[p].pc = "apply"
      /\ rootScope => proc[p].config.superuser \in users
      /\ ports.grpc = None
  BY <1>1, Running
<1>3. CASE End(p, "interrupted")
  BY <1>3, LeaveStart
<1>4. CASE \E pc \in {"lock", "version", "apply", "provider"} :
             Goto(p, pc) /\ UNCHANGED ports /\ (dirty' => pc = "apply")
  BY <1>1, <1>2, <1>4, GotoForm, GoOn DEF tables
<1>5. CASE \E v : /\ proc' = [proc EXCEPT ![p].pc = "migrate", ![p].at = v]
                  /\ UNCHANGED ports /\ ~ dirty'
  BY <1>1, <1>2, <1>5, MigrateForm, GoOn DEF tables
<1>6. CASE ConnectSource(p) \/ LockSchema(p)
  BY <1>2, <1>3, <1>4, <1>6 DEF ConnectSource, LockSchema, Interrupted
<1>7. CASE ReadVersion(p)
  BY <1>2, <1>3, <1>5, <1>7 DEF ReadVersion, Interrupted
<1>8. CASE NextMigration(p)
  BY <1>2, <1>3, <1>4, <1>8 DEF NextMigration, Interrupted
<1>9. CASE ApplyMigration(p)
  BY <1>3, <1>5, <1>9 DEF ApplyMigration, Interrupted
<1> QED BY <1>6, <1>7, <1>8, <1>9

LEMMA SetUpStart ==
    ASSUME Inv, Inv', StartOK, NEW p \in Processes, proc[p].pc # "down",
           UserExistsByUsername(p) \/ CreateScope(p) \/ CreateUser(p) \/ AddScopeToUser(p)
    PROVE  StartOK'
<1>1. /\ UNCHANGED dirty /\ proc[p].pc \in {"exists", "scope", "user", "link"}
  BY DEF UserExistsByUsername, CreateScope, CreateUser, AddScopeToUser
<1>2. /\ ~ dirty /\ ports.grpc = None
      /\ proc[p].config.password = "short"
      /\ rootScope => proc[p].pc = "user" \/ proc[p].config.superuser \in users
      /\ proc[p].pc \in {"scope", "user"} => proc[p].config.superuser \notin users
  BY <1>1, Running DEF Whole
<1>3. CASE End(p, "interrupted")
  BY <1>3, LeaveStart
<1>4. CASE UserExistsByUsername(p)
  <2>1. CASE /\ Goto(p, IF SuperuserExists(p) THEN "http" ELSE "scope")
             /\ UNCHANGED <<lock, ports>>
    <3>1. CASE SuperuserExists(p)
      BY <1>1, <1>2, <1>4, <2>1, <3>1, GotoForm, GoOn
         DEF UserExistsByUsername, SuperuserExists, tables
    <3>2. CASE ~ SuperuserExists(p)
      BY <1>1, <1>2, <1>4, <2>1, <3>2, GotoForm, GoOn
         DEF UserExistsByUsername, SuperuserExists, tables
    <3> QED BY <3>1, <3>2
  <2> QED BY <1>3, <1>4, <2>1 DEF UserExistsByUsername, Interrupted
<1>5. CASE CreateScope(p)
  <2>1. ~ rootScope
    BY <1>2, <1>5 DEF CreateScope
  <2>2. CASE Goto(p, "user") /\ UNCHANGED <<users, ports>>
    BY <1>1, <1>2, <1>5, <2>2, GotoForm, GoOn DEF CreateScope
  <2> QED BY <1>2, <1>3, <1>5, <2>1, <2>2 DEF CreateScope, Cancelled, Interrupted
<1>6. CASE CreateUser(p)
  <2>1. CASE /\ users' = users \cup {proc[p].config.superuser} /\ Goto(p, "link")
             /\ UNCHANGED ports
    BY <1>1, <1>2, <2>1, GotoForm, GoOn
  <2> QED BY <1>2, <1>3, <1>6, <2>1 DEF CreateUser, Cancelled, Interrupted
<1>7. CASE AddScopeToUser(p)
  <2>1. CASE Goto(p, "http") /\ UNCHANGED <<rootScope, users, ports>>
    BY <1>1, <1>2, <1>7, <2>1, GotoForm, GoOn DEF AddScopeToUser
  <2> QED BY <1>3, <1>7, <2>1 DEF AddScopeToUser, Cancelled, Interrupted
<1> QED BY <1>4, <1>5, <1>6, <1>7

LEMMA ServeStart ==
    ASSUME Inv, Inv', StartOK, NEW p \in Processes, proc[p].pc # "down",
           NewJwtTokenProvider(p) \/ SpawnHTTP(p) \/ Listen(p) \/ GracefulStop(p)
             \/ Drained(p)
    PROVE  StartOK'
<1>1. /\ UNCHANGED <<dirty, tables>>
      /\ proc[p].pc \in {"provider", "http", "listen", "serving", "draining"}
  BY DEF NewJwtTokenProvider, SpawnHTTP, Listen, GracefulStop, Drained, schema
<1>2. /\ ~ dirty /\ Whole(proc[p].config)
      /\ proc[p].pc # "serving" => ports.grpc = None
      /\ rootScope => proc[p].config.superuser \in users
  BY <1>1, Running
<1>3. CASE NewJwtTokenProvider(p)
  <2>1. /\ proc' = [proc EXCEPT ![p].pc = "exists", ![p].cleanup = "spawned"]
        /\ UNCHANGED ports /\ proc[p].pc = "provider"
    BY <1>2, <1>3 DEF NewJwtTokenProvider, Configured, Whole
  <2> QED BY <1>1, <1>2, <2>1, ProviderForm, GoOn DEF tables
<1>4. CASE SpawnHTTP(p)
  <2>1. UNCHANGED ports /\ proc[p].pc = "http"
    BY <1>4 DEF SpawnHTTP
  <2> QED BY <1>1, <1>2, <1>4, <2>1, SpawnForm, GoOn DEF tables
<1>5. CASE Listen(p)
  <2>1. CanListen(p)
    BY <1>2, <1>5 DEF Listen, CanListen, Whole
  <2>2. ports' = [ports EXCEPT !.grpc = p] /\ Goto(p, "serving")
    BY <1>5, <2>1 DEF Listen
  <2>3. ports'.grpc = p
    BY <2>2 DEF Inv, TypeOK
  <2> QED BY <1>1, <1>2, <2>2, <2>3, GotoForm, GoOn DEF tables
<1>6. CASE GracefulStop(p)
  <2>1. ports' = [ports EXCEPT !.grpc = None] /\ Goto(p, "draining")
    BY <1>6 DEF GracefulStop
  <2>2. ports'.grpc = None
    BY <2>1 DEF Inv, TypeOK
  <2> QED BY <1>1, <1>2, <2>1, <2>2, GotoForm, GoOn DEF tables
<1>7. CASE Drained(p)
  BY <1>7, LeaveStart DEF Drained
<1> QED BY <1>3, <1>4, <1>5, <1>6, <1>7

LEMMA BesideStart ==
    ASSUME Inv, Inv', StartOK, NEW p \in Processes, proc[p].pc # "down",
           StartTokenCleanup(p) \/ ListenAndServe(p) \/ Signal(p) \/ Crash(p)
    PROVE  StartOK'
<1>1. UNCHANGED <<dirty, tables>>
  BY DEF StartTokenCleanup, ListenAndServe, Signal, Crash, schema
<1>2. proc[p].config.interval # 0
  BY Running DEF Whole
<1>3. CASE End(p, "interrupted")
  BY <1>3, LeaveStart
<1>4. CASE /\ \/ \E c : proc' = [proc EXCEPT ![p].cleanup = c]
              \/ \E h : proc' = [proc EXCEPT ![p].http = h]
              \/ proc' = [proc EXCEPT ![p].signalled = TRUE]
           /\ ports'.grpc = ports.grpc
  <2>1. /\ \A q \in Processes \ {p} : proc'[q] = proc[q]
        /\ proc'[p].pc = proc[p].pc /\ proc'[p].config = proc[p].config
    BY <1>4, BesideForm
  <2> QED BY <1>1, <1>4, <2>1, Running, GoOn DEF tables
<1>5. CASE StartTokenCleanup(p) \/ Signal(p) \/ Crash(p)
  BY <1>2, <1>3, <1>4, <1>5 DEF StartTokenCleanup, Signal, Crash, Interrupted
<1>6. CASE ListenAndServe(p)
  <2>1. ports'.grpc = ports.grpc
    BY <1>6 DEF ListenAndServe, Inv, TypeOK
  <2> QED BY <1>4, <1>6, <2>1 DEF ListenAndServe
<1> QED BY <1>5, <1>6

LEMMA StartStart ==
    ASSUME Inv, StartOK, NEW p \in Processes, NEW c \in Configs, Start(p, c), Ready(c)
    PROVE  StartOK'
<1>1. /\ \A q \in Processes \ {p} : proc'[q] = proc[q]
      /\ proc'[p].pc = "connect" /\ proc'[p].config = c /\ proc'[p].end = "none"
  BY StartForm
<1>2. /\ Whole(c) /\ ~ dirty /\ (rootScope => c.superuser \in users)
      /\ \A q \in Processes : proc[q].pc = "down"
      /\ UNCHANGED <<dirty, rootScope, users, ports>>
  BY DEF Ready, Start, schema, tables
<1>3. ports.grpc = None
  BY <1>2 DEF StartOK, Inv, TypeOK
<1>4. Fit(proc[p])'
  BY <1>1, <1>2 DEF Fit, Whole
<1>5. \A q \in Processes : Fit(proc[q])' /\ proc'[q].end # "error"
  BY <1>1, <1>2, <1>4 DEF Fit, StartOK
<1>6. Alone'
  BY <1>1, <1>2 DEF Alone
<1> QED BY <1>2, <1>3, <1>5, <1>6 DEF StartOK

LEMMA NextStart ==
    ASSUME Inv, Inv', StartOK, [Next]_vars,
           [\A p \in Processes, c \in Configs : Start(p, c) => Ready(c)]_vars
    PROVE  StartOK'
<1>1. ASSUME NEW p \in Processes, NEW c \in Configs, Start(p, c) PROVE StartOK'
  <2>1. proc'[p].pc # proc[p].pc
    BY <1>1, StartForm DEF Start
  <2>2. Ready(c)
    BY <1>1, <2>1 DEF vars
  <2> QED BY <1>1, <2>2, StartStart
<1>2. ASSUME NEW p \in Processes,
             Main(p) \/ StartTokenCleanup(p) \/ ListenAndServe(p) \/ Signal(p) \/ Crash(p)
      PROVE  StartOK'
  <2>1. proc[p].pc # "down"
    BY <1>2, Moves
  <2> QED BY <1>2, <2>1, MigrateStart, SetUpStart, ServeStart, BesideStart DEF Main
<1>3. CASE UNCHANGED vars
  BY <1>3 DEF vars, schema, tables, StartOK, Alone, Fit, Whole
<1> QED BY <1>1, <1>2, <1>3 DEF Next

(* README.md:61 holds for the operator who starts one process at a time,   *)
(* from a complete file, on a schema that no killed migration has left     *)
(* dirty and with the superuser of the file there if 'root' is: whatever   *)
(* crashes, signals and failing statements come between, no start then     *)
(* fails of its own accord.                                                *)
THEOREM ReadyStartsSucceed == Spec /\ GoodStarts => []StartsSucceed
<1>1. Init => StartOK
  BY DEF Init, Down, Fresh, StartOK, Alone, Fit
<1>2. Inv /\ Inv' /\ StartOK /\ [Next]_vars
        /\ [\A p \in Processes, c \in Configs : Start(p, c) => Ready(c)]_vars
      => StartOK'
  BY NextStart
<1>3. StartOK => StartsSucceed
  BY DEF StartOK, StartsSucceed
<1> QED BY <1>1, <1>2, <1>3, Invariance, PTL DEF Spec, GoodStarts

=============================================================================
