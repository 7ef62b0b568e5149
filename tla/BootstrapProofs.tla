---------------------------- MODULE BootstrapProofs ----------------------------
(***************************************************************************)
(* Proofs about Bootstrap, for any number of processes and migrations and  *)
(* any configurations: the schema a process works on is complete, and the  *)
(* superuser, set up without interruption, is whole.                       *)
(***************************************************************************)
EXTENDS Bootstrap, TLAPS

(* Inside Up the version that was read once is still the table's: this is  *)
(* what the advisory lock is for.                                          *)
UpOK ==
    \A p \in Processes :
        /\ proc[p].pc = "migrate" => ~ dirty /\ proc[p].at = version
        /\ proc[p].pc = "apply" => dirty /\ proc[p].at + 1 = version

(* The inductive invariant. *)
Inv == TypeOK /\ UpOK /\ ServesOnlyMigrated

-----------------------------------------------------------------------------
(* Records of processes. *)

Naming == {"exists", "scope", "user", "link"}

LEMMA DownOK ==
    ASSUME NEW end \in {"none", "error", "interrupted", "stopped"}
    PROVE  ProcessOK(Down(end)) /\ Down(end).pc = "down"
BY MigrationsAssumption DEF ProcessOK, Process, Down, Fresh, PCs

LEMMA PCOK ==
    ASSUME NEW q, ProcessOK(q), q.pc # "down", NEW pc \in PCs \ {"down"},
           pc \in Naming => q.pc \in Naming
    PROVE  LET n == [q EXCEPT !.pc = pc]
           IN  /\ ProcessOK(n)
               /\ n.pc = pc /\ n.at = q.at /\ n.config = q.config
               /\ n.signalled = q.signalled
<1> DEFINE n == [q EXCEPT !.pc = pc]
<1>1. /\ n \in Process
      /\ n.pc = pc /\ n.at = q.at /\ n.config = q.config
      /\ n.signalled = q.signalled /\ n.end = q.end
  BY DEF ProcessOK, Process
<1> HIDE DEF n
<1>2. ProcessOK(n)
  BY <1>1 DEF ProcessOK, Naming
<1> QED BY <1>1, <1>2 DEF n

LEMMA GotoStep ==
    ASSUME TypeOK, NEW p \in Processes, NEW pc \in PCs \ {"down"},
           proc[p].pc # "down", Goto(p, pc), pc \in Naming => proc[p].pc \in Naming
    PROVE  \E n : /\ proc' = [proc EXCEPT ![p] = n]
                  /\ ProcessOK(n)
                  /\ n.pc = pc /\ n.at = proc[p].at /\ n.config = proc[p].config
                  /\ n.signalled = proc[p].signalled
<1>1. ProcessOK(proc[p])
  BY DEF TypeOK
<1> DEFINE n == [proc[p] EXCEPT !.pc = pc]
<1>2. proc' = [proc EXCEPT ![p] = n]
  BY DEF Goto
<1>3. /\ ProcessOK(n)
      /\ n.pc = pc /\ n.at = proc[p].at /\ n.config = proc[p].config
      /\ n.signalled = proc[p].signalled
  BY <1>1, PCOK
<1> HIDE DEF n
<1> QED BY <1>2, <1>3

(* The name that a process is about to insert. *)
LEMMA NameOK ==
    ASSUME TypeOK, NEW p \in Processes, proc[p].pc \in Naming
    PROVE  proc[p].config.superuser \in Names
BY ConfigAssumption DEF TypeOK, ProcessOK, Process, Config, Naming

-----------------------------------------------------------------------------
(* Steps that leave the schema alone. *)

TablesOK ==
    /\ rootScope \in BOOLEAN
    /\ users \subseteq Names
    /\ roots \subseteq Names
    /\ ports \in [{"http", "grpc"} -> Processes \cup {None}]

LEMMA ProcessStep ==
    ASSUME Inv, NEW p \in Processes, NEW n, ProcessOK(n),
           proc' = [proc EXCEPT ![p] = n],
           UNCHANGED <<version, dirty>>, TablesOK',
           \/ /\ lock' = lock
              /\ n.pc = proc[p].pc /\ n.at = proc[p].at
           \/ /\ lock' = lock
              /\ n.pc \notin Locked /\ proc[p].pc \notin Locked
              /\ n.pc \in Migrated => proc[p].pc \in Migrated
           \/ n.pc = "down" /\ lock' = LockWithout(p)
    PROVE  Inv'
<1>1. /\ proc' \in [Processes -> Process]
      /\ proc'[p] = n
      /\ \A q \in Processes \ {p} : proc'[q] = proc[q]
  BY DEF Inv, TypeOK, ProcessOK
<1>2. \A q \in Processes : ProcessOK(proc'[q])
  BY <1>1 DEF Inv, TypeOK
<1>3. lock' \in Processes \cup {None}
  BY DEF Inv, TypeOK, LockWithout
<1>4. \A q \in Processes : lock' = q <=> proc'[q].pc \in Locked
  BY <1>1, ConfigAssumption DEF Inv, TypeOK, LockWithout, Locked
<1>5. TypeOK'
  BY <1>1, <1>2, <1>3, <1>4 DEF Inv, TypeOK, TablesOK, ProcessOK
<1>6. UpOK'
  BY <1>1 DEF Inv, UpOK, Locked
<1>7. ServesOnlyMigrated'
  BY <1>1 DEF Inv, ServesOnlyMigrated, Migrated, Locked
<1> QED BY <1>5, <1>6, <1>7 DEF Inv

LEMMA EndStep ==
    ASSUME Inv, NEW p \in Processes, NEW end \in {"error", "interrupted", "stopped"},
           End(p, end), UNCHANGED <<version, dirty>>,
           rootScope' \in BOOLEAN, users' \subseteq Names, roots' \subseteq Names
    PROVE  Inv'
<1>1. ports' \in [{"http", "grpc"} -> Processes \cup {None}]
  BY DEF End, PortsWithout, Inv, TypeOK
<1>2. TablesOK'
  BY <1>1 DEF TablesOK
<1> QED BY <1>2, DownOK, ProcessStep DEF End

-----------------------------------------------------------------------------
(* One lemma for each action. *)

LEMMA InitInv == Init => Inv
<1> SUFFICES ASSUME Init PROVE Inv
  OBVIOUS
<1>1. proc \in [Processes -> Process] /\ \A p \in Processes : ProcessOK(proc[p])
  BY DownOK DEF Init, ProcessOK
<1>2. \A p \in Processes : proc[p].pc = "down"
  BY DEF Init, Down, Fresh
<1>3. ports \in [{"http", "grpc"} -> Processes \cup {None}]
  BY DEF Init
<1>4. TypeOK
  <2>1. version \in 0 .. Migrations /\ users \subseteq Names /\ roots \subseteq Names
    BY MigrationsAssumption DEF Init
  <2>4. dirty \in BOOLEAN /\ rootScope \in BOOLEAN
    BY Zenon DEF Init
  <2>2. \A p \in Processes : lock = p <=> proc[p].pc \in Locked
    BY <1>2, ConfigAssumption DEF Init, Locked
  <2>3. lock \in Processes \cup {None}
    BY DEF Init
  <2> QED BY <1>1, <1>3, <2>1, <2>2, <2>3, <2>4 DEF TypeOK
<1>5. UpOK /\ ServesOnlyMigrated
  BY <1>2 DEF UpOK, ServesOnlyMigrated, Migrated
<1> QED BY <1>4, <1>5 DEF Inv

LEMMA StartInv ==
    ASSUME Inv, NEW p \in Processes, NEW c \in Configs, Start(p, c)
    PROVE  Inv'
<1> DEFINE n == Fresh("connect", c, "none")
<1>2. ProcessOK(n) /\ n.pc = "connect"
  BY ConfigAssumption, MigrationsAssumption
     DEF Fresh, ProcessOK, Process, PCs, Starting, Locked
<1>3. proc' = [proc EXCEPT ![p] = n]
  BY DEF Start
<1>4. TablesOK'
  BY DEF Inv, TypeOK, TablesOK, Start, tables
<1> HIDE DEF n
<1> QED BY <1>2, <1>3, <1>4, ProcessStep DEF Start, schema, Locked, Migrated

(* The steps from one statement to the next, outside Up. *)
LEMMA AdvanceInv ==
    ASSUME Inv, NEW p \in Processes, NEW pc \in PCs \ {"down"}, Goto(p, pc),
           proc[p].pc # "down", pc \in Naming => proc[p].pc \in Naming,
           pc \notin Locked, proc[p].pc \notin Locked,
           pc \in Migrated => proc[p].pc \in Migrated,
           UNCHANGED <<version, dirty, lock>>, TablesOK'
    PROVE  Inv'
BY GotoStep, ProcessStep DEF Inv

LEMMA ConnectSourceInv ==
    ASSUME Inv, NEW p \in Processes, ConnectSource(p)
    PROVE  Inv'
<1>1. CASE Goto(p, "lock") /\ UNCHANGED <<lock, ports>>
  <2>1. TablesOK'
    BY <1>1 DEF Inv, TypeOK, TablesOK, ConnectSource, tables
  <2> QED BY <1>1, <2>1, AdvanceInv
          DEF ConnectSource, PCs, Starting, Naming, Locked, Migrated
<1>2. CASE Interrupted(p)
  BY <1>2, EndStep DEF Interrupted, ConnectSource, tables, Inv, TypeOK
<1> QED BY <1>1, <1>2 DEF ConnectSource

LEMMA LockSchemaInv ==
    ASSUME Inv, NEW p \in Processes, LockSchema(p)
    PROVE  Inv'
<1>1. CASE lock = None /\ lock' = p /\ Goto(p, "version") /\ UNCHANGED ports
  <2>1. PICK n : /\ proc' = [proc EXCEPT ![p] = n]
                 /\ ProcessOK(n) /\ n.pc = "version"
    BY <1>1, GotoStep DEF LockSchema, Inv, PCs, Starting, Naming, Locked
  <2>2. /\ proc' \in [Processes -> Process]
        /\ proc'[p] = n
        /\ \A q \in Processes \ {p} : proc'[q] = proc[q]
    BY <2>1 DEF Inv, TypeOK, ProcessOK
  <2>3. \A q \in Processes : ProcessOK(proc'[q])
    BY <2>1, <2>2 DEF Inv, TypeOK
  <2>4. \A q \in Processes : lock' = q <=> proc'[q].pc \in Locked
    BY <1>1, <2>1, <2>2, ConfigAssumption DEF Inv, TypeOK, Locked
  <2>5. TypeOK'
    BY <1>1, <2>2, <2>3, <2>4 DEF Inv, TypeOK, LockSchema, tables
  <2>6. UpOK' /\ ServesOnlyMigrated'
    BY <2>1, <2>2 DEF Inv, UpOK, ServesOnlyMigrated, Migrated, LockSchema, Locked
  <2> QED BY <2>5, <2>6 DEF Inv
<1>2. CASE End(p, "interrupted")
  BY <1>2, EndStep DEF LockSchema, tables, Inv, TypeOK
<1> QED BY <1>1, <1>2 DEF LockSchema, Interrupted

LEMMA ReadVersionInv ==
    ASSUME Inv, NEW p \in Processes, ReadVersion(p)
    PROVE  Inv'
<1>1. CASE /\ ~ dirty
           /\ proc' = [proc EXCEPT ![p].pc = "migrate", ![p].at = version]
           /\ UNCHANGED <<lock, ports>>
  <2> DEFINE o == proc[p]
             n == [pc |-> "migrate", config |-> o.config, signalled |-> o.signalled,
                   at |-> version, cleanup |-> o.cleanup, http |-> o.http,
                   end |-> o.end]
  <2>1. ProcessOK(o) /\ o.pc = "version" /\ version \in 0 .. Migrations
    BY DEF Inv, TypeOK, ReadVersion
  <2>2. ProcessOK(n) /\ n.pc = "migrate" /\ n.at = version
    BY <2>1 DEF ProcessOK, Process, PCs, Starting, Locked
  <2>3. proc' = [proc EXCEPT ![p] = n]
    <3>1. /\ proc \in [Processes -> Process]
          /\ proc' = [proc EXCEPT ![p].pc = "migrate", ![p].at = version]
      BY <1>1 DEF Inv, TypeOK
    <3>2. proc'[p] = n
      BY <2>1, <3>1 DEF ProcessOK, Process
    <3>3. proc' = [proc EXCEPT ![p] = proc'[p]]
      BY <3>1
    <3> QED BY <3>2, <3>3
  <2> HIDE DEF n, o
  <2>4. /\ proc' \in [Processes -> Process]
        /\ proc'[p] = n
        /\ \A q \in Processes \ {p} : proc'[q] = proc[q]
    BY <2>2, <2>3 DEF Inv, TypeOK, ProcessOK
  <2>5. \A q \in Processes : ProcessOK(proc'[q])
    BY <2>2, <2>4 DEF Inv, TypeOK
  <2>6. \A q \in Processes : lock' = q <=> proc'[q].pc \in Locked
    BY <1>1, <2>1, <2>2, <2>4 DEF Inv, TypeOK, Locked, o
  <2>7. TypeOK'
    BY <1>1, <2>4, <2>5, <2>6 DEF Inv, TypeOK, ReadVersion, tables
  <2>8. UpOK'
    BY <1>1, <2>2, <2>4 DEF Inv, UpOK, ReadVersion
  <2>9. ServesOnlyMigrated'
    BY <2>2, <2>4 DEF Inv, ServesOnlyMigrated, Migrated, ReadVersion, Locked
  <2> QED BY <2>7, <2>8, <2>9 DEF Inv
<1>2. ASSUME NEW end \in {"error", "interrupted"}, End(p, end)
      PROVE  Inv'
  BY <1>2, EndStep DEF ReadVersion, tables, Inv, TypeOK
<1> QED BY <1>1, <1>2 DEF ReadVersion, MigrationFails, Interrupted

(* Whoever holds the lock is the only process inside Up. *)
LEMMA OneInUp ==
    ASSUME Inv, NEW p \in Processes, proc[p].pc \in Locked
    PROVE  \A q \in Processes \ {p} : proc[q].pc \notin Locked
BY DEF Inv, TypeOK

LEMMA NextMigrationInv ==
    ASSUME Inv, NEW p \in Processes, NextMigration(p)
    PROVE  Inv'
<1>1. /\ ProcessOK(proc[p]) /\ proc[p].at \in 0 .. Migrations
      /\ ~ dirty /\ proc[p].at = version
      /\ \A q \in Processes \ {p} : proc[q].pc \notin Locked
  BY OneInUp DEF Inv, TypeOK, UpOK, ProcessOK, Process, NextMigration, Locked
<1>2. CASE /\ proc[p].at < Migrations /\ version' = proc[p].at + 1 /\ dirty' = TRUE
           /\ Goto(p, "apply")
           /\ UNCHANGED <<lock, ports>>
  <2>1. PICK n : /\ proc' = [proc EXCEPT ![p] = n]
                 /\ ProcessOK(n) /\ n.pc = "apply" /\ n.at = proc[p].at
    BY <1>2, GotoStep DEF NextMigration, Inv, PCs, Starting, Naming, Locked
  <2>2. /\ proc' \in [Processes -> Process]
        /\ proc'[p] = n
        /\ \A q \in Processes \ {p} : proc'[q] = proc[q]
    BY <2>1 DEF Inv, TypeOK, ProcessOK
  <2>3. \A q \in Processes : ProcessOK(proc'[q])
    BY <2>1, <2>2 DEF Inv, TypeOK
  <2>4. \A q \in Processes : lock' = q <=> proc'[q].pc \in Locked
    BY <1>2, <2>1, <2>2 DEF Inv, TypeOK, Locked, NextMigration
  <2>5. version' \in 0 .. Migrations
    BY <1>1, <1>2, MigrationsAssumption
  <2>6. TypeOK'
    BY <1>2, <2>2, <2>3, <2>4, <2>5 DEF Inv, TypeOK, NextMigration, tables
  <2>7. UpOK'
    BY <1>1, <1>2, <2>1, <2>2 DEF Inv, UpOK, Locked
  <2>8. ServesOnlyMigrated'
    BY <1>1, <1>2, <2>1, <2>2, MigrationsAssumption
       DEF Inv, ServesOnlyMigrated, Migrated, Locked
  <2> QED BY <2>6, <2>7, <2>8 DEF Inv
<1>3. CASE /\ proc[p].at = Migrations /\ lock' = None
           /\ Goto(p, "provider")
           /\ UNCHANGED <<version, dirty, ports>>
  <2>1. PICK n : /\ proc' = [proc EXCEPT ![p] = n]
                 /\ ProcessOK(n) /\ n.pc = "provider"
    BY <1>3, GotoStep DEF NextMigration, Inv, PCs, Starting, Naming, Locked
  <2>2. /\ proc' \in [Processes -> Process]
        /\ proc'[p] = n
        /\ \A q \in Processes \ {p} : proc'[q] = proc[q]
    BY <2>1 DEF Inv, TypeOK, ProcessOK
  <2>3. \A q \in Processes : ProcessOK(proc'[q])
    BY <2>1, <2>2 DEF Inv, TypeOK
  <2>4. \A q \in Processes : lock' = q <=> proc'[q].pc \in Locked
    BY <1>1, <1>3, <2>1, <2>2, ConfigAssumption DEF Locked
  <2>5. TypeOK'
    BY <1>3, <2>2, <2>3, <2>4 DEF Inv, TypeOK, NextMigration, tables
  <2>6. UpOK' /\ ServesOnlyMigrated'
    BY <1>1, <1>3, <2>1, <2>2 DEF Inv, UpOK, ServesOnlyMigrated
  <2> QED BY <2>5, <2>6 DEF Inv
<1>4. CASE Interrupted(p) /\ UNCHANGED <<version, dirty>>
  BY <1>4, EndStep DEF Interrupted, NextMigration, tables, Inv, TypeOK
<1> QED BY <1>2, <1>3, <1>4 DEF NextMigration

LEMMA ApplyMigrationInv ==
    ASSUME Inv, NEW p \in Processes, ApplyMigration(p)
    PROVE  Inv'
<1>1. /\ ProcessOK(proc[p]) /\ proc[p].pc = "apply"
      /\ proc[p].at \in 0 .. Migrations /\ proc[p].at + 1 = version
      /\ version \in 0 .. Migrations
      /\ \A q \in Processes \ {p} : proc[q].pc \notin Locked
  BY OneInUp DEF Inv, TypeOK, UpOK, ProcessOK, Process, ApplyMigration, Locked
<1>2. CASE /\ dirty' = FALSE
           /\ proc' = [proc EXCEPT ![p].pc = "migrate", ![p].at = @ + 1]
           /\ UNCHANGED <<lock, ports>>
  <2> DEFINE o == proc[p]
             n == [pc |-> "migrate", config |-> o.config, signalled |-> o.signalled,
                   at |-> version, cleanup |-> o.cleanup, http |-> o.http,
                   end |-> o.end]
  <2>1. ProcessOK(n) /\ n.pc = "migrate" /\ n.at = version
    BY <1>1 DEF ProcessOK, Process, PCs, Starting, Locked
  <2>2. /\ proc' = [proc EXCEPT ![p] = proc'[p]]
        /\ proc'[p] = n
    <3>1. /\ proc \in [Processes -> Process]
          /\ proc' = [proc EXCEPT ![p].pc = "migrate", ![p].at = @ + 1]
      BY <1>2 DEF Inv, TypeOK
    <3>2. proc'[p] = n
      BY <1>1, <3>1 DEF ProcessOK, Process
    <3> QED BY <3>1, <3>2
  <2> HIDE DEF n, o
  <2>3. /\ proc' \in [Processes -> Process]
        /\ proc'[p] = n
        /\ \A q \in Processes \ {p} : proc'[q] = proc[q]
    BY <2>1, <2>2 DEF Inv, TypeOK, ProcessOK
  <2>4. \A q \in Processes : ProcessOK(proc'[q])
    BY <2>1, <2>3 DEF Inv, TypeOK
  <2>5. \A q \in Processes : lock' = q <=> proc'[q].pc \in Locked
    BY <1>1, <1>2, <2>1, <2>3 DEF Inv, TypeOK, Locked
  <2>6. dirty' \in BOOLEAN /\ ~ dirty'
    BY <1>2, Zenon
  <2>7. TypeOK'
    BY <1>2, <2>3, <2>4, <2>5, <2>6 DEF Inv, TypeOK, ApplyMigration, tables
  <2>8. UpOK'
    BY <1>1, <2>1, <2>3, <2>6 DEF UpOK, ApplyMigration, Locked
  <2>9. ServesOnlyMigrated'
    BY <2>1, <2>3, <2>6 DEF Inv, ServesOnlyMigrated, Migrated, ApplyMigration, Locked
  <2> QED BY <2>7, <2>8, <2>9 DEF Inv
<1>3. CASE Interrupted(p) /\ UNCHANGED dirty
  BY <1>3, EndStep DEF Interrupted, ApplyMigration, tables, Inv, TypeOK
<1> QED BY <1>2, <1>3 DEF ApplyMigration

LEMMA NewJwtTokenProviderInv ==
    ASSUME Inv, NEW p \in Processes, NewJwtTokenProvider(p)
    PROVE  Inv'
<1>1. CASE /\ Configured(proc[p].config)
           /\ proc' = [proc EXCEPT ![p].pc = "exists", ![p].cleanup = "spawned"]
           /\ UNCHANGED <<lock, ports>>
  <2> DEFINE o == proc[p]
             n == [pc |-> "exists", config |-> o.config, signalled |-> o.signalled,
                   at |-> o.at, cleanup |-> "spawned", http |-> o.http,
                   end |-> o.end]
  <2>1. ProcessOK(o) /\ o.pc = "provider"
    BY DEF Inv, TypeOK, NewJwtTokenProvider
  <2>2. ProcessOK(n) /\ n.pc = "exists"
    BY <1>1, <2>1 DEF ProcessOK, Process, PCs, Starting, Locked, Configured
  <2>3. /\ proc' = [proc EXCEPT ![p] = proc'[p]]
        /\ proc'[p] = n
    <3>1. /\ proc \in [Processes -> Process]
          /\ proc' = [proc EXCEPT ![p].pc = "exists", ![p].cleanup = "spawned"]
      BY <1>1 DEF Inv, TypeOK
    <3>2. proc'[p] = n
      BY <2>1, <3>1 DEF ProcessOK, Process
    <3> QED BY <3>1, <3>2
  <2>4. TablesOK'
    BY <1>1 DEF Inv, TypeOK, TablesOK, NewJwtTokenProvider, tables
  <2>5. proc' = [proc EXCEPT ![p] = n]
    BY <2>3
  <2> HIDE DEF n
  <2> QED BY <1>1, <2>1, <2>2, <2>4, <2>5, ProcessStep
          DEF NewJwtTokenProvider, Locked, Migrated, PCs, Starting
<1>2. CASE End(p, "error")
  BY <1>2, EndStep DEF NewJwtTokenProvider, tables, Inv, TypeOK
<1> QED BY <1>1, <1>2 DEF NewJwtTokenProvider

(* A goroutine or a signal changes a field beside the state of main. *)
LEMMA BesideInv ==
    ASSUME Inv, NEW p \in Processes, NEW n, proc' = [proc EXCEPT ![p] = n],
           ProcessOK(n), n.pc = proc[p].pc, n.at = proc[p].at,
           UNCHANGED <<version, dirty, lock>>, TablesOK'
    PROVE  Inv'
BY ProcessStep

LEMMA StartTokenCleanupInv ==
    ASSUME Inv, NEW p \in Processes, StartTokenCleanup(p)
    PROVE  Inv'
<1>1. ASSUME NEW c \in {"on", "off"}, proc' = [proc EXCEPT ![p].cleanup = c],
             UNCHANGED <<lock, ports>>
      PROVE  Inv'
  <2> DEFINE n == [proc[p] EXCEPT !.cleanup = c]
  <2>1. ProcessOK(proc[p]) /\ proc[p].cleanup # "off"
    BY DEF Inv, TypeOK, StartTokenCleanup
  <2>2. ProcessOK(n) /\ n.pc = proc[p].pc /\ n.at = proc[p].at
    BY <2>1 DEF ProcessOK, Process
  <2>3. proc' = [proc EXCEPT ![p] = n]
    BY <1>1
  <2>4. TablesOK'
    BY <1>1 DEF Inv, TypeOK, TablesOK, StartTokenCleanup, tables
  <2> HIDE DEF n
  <2> QED BY <1>1, <2>2, <2>3, <2>4, BesideInv DEF StartTokenCleanup
<1>2. CASE End(p, "error")
  BY <1>2, EndStep DEF StartTokenCleanup, tables, Inv, TypeOK
<1> QED BY <1>1, <1>2 DEF StartTokenCleanup

LEMMA UserExistsInv ==
    ASSUME Inv, NEW p \in Processes, UserExistsByUsername(p)
    PROVE  Inv'
<1>1. ASSUME NEW pc \in {"http", "scope"}, Goto(p, pc), UNCHANGED <<lock, ports>>
      PROVE  Inv'
  <2>1. TablesOK'
    BY <1>1 DEF Inv, TypeOK, TablesOK, UserExistsByUsername, tables
  <2> QED BY <1>1, <2>1, AdvanceInv
          DEF UserExistsByUsername, PCs, Starting, Serving, Naming, Locked, Migrated
<1>2. CASE Interrupted(p)
  BY <1>2, EndStep DEF Interrupted, UserExistsByUsername, tables, Inv, TypeOK
<1> QED BY <1>1, <1>2 DEF UserExistsByUsername

LEMMA CreateScopeInv ==
    ASSUME Inv, NEW p \in Processes, CreateScope(p)
    PROVE  Inv'
<1>1. rootScope' \in BOOLEAN /\ users' \subseteq Names /\ roots' \subseteq Names
  <2>1. rootScope' \in {rootScope, TRUE}
    BY Zenon DEF CreateScope
  <2> QED BY <2>1 DEF Inv, TypeOK, CreateScope
<1>2. CASE Goto(p, "user") /\ UNCHANGED <<lock, ports>>
  <2>1. TablesOK'
    BY <1>1, <1>2 DEF Inv, TypeOK, TablesOK
  <2> QED BY <1>2, <2>1, AdvanceInv
          DEF CreateScope, PCs, Starting, Naming, Locked, Migrated
<1>3. ASSUME NEW end \in {"error", "interrupted"}, End(p, end)
      PROVE  Inv'
  BY <1>1, <1>3, EndStep DEF CreateScope
<1> QED BY <1>2, <1>3 DEF CreateScope, Cancelled, Interrupted

LEMMA CreateUserInv ==
    ASSUME Inv, NEW p \in Processes, CreateUser(p)
    PROVE  Inv'
<1>1. rootScope' \in BOOLEAN /\ users' \subseteq Names /\ roots' \subseteq Names
  <2>1. proc[p].config.superuser \in Names
    BY NameOK DEF Inv, CreateUser, Naming
  <2> QED BY <2>1 DEF Inv, TypeOK, CreateUser
<1>2. CASE Goto(p, "link") /\ UNCHANGED <<lock, ports>>
  <2>1. TablesOK'
    BY <1>1, <1>2 DEF Inv, TypeOK, TablesOK
  <2> QED BY <1>2, <2>1, AdvanceInv
          DEF CreateUser, PCs, Starting, Naming, Locked, Migrated
<1>3. ASSUME NEW end \in {"error", "interrupted"}, End(p, end)
      PROVE  Inv'
  BY <1>1, <1>3, EndStep DEF CreateUser
<1> QED BY <1>2, <1>3 DEF CreateUser, Cancelled, Interrupted

LEMMA AddScopeToUserInv ==
    ASSUME Inv, NEW p \in Processes, AddScopeToUser(p)
    PROVE  Inv'
<1>1. rootScope' \in BOOLEAN /\ users' \subseteq Names /\ roots' \subseteq Names
  <2>1. proc[p].config.superuser \in Names
    BY NameOK DEF Inv, AddScopeToUser, Naming
  <2> QED BY <2>1 DEF Inv, TypeOK, AddScopeToUser, LinksWith
<1>2. CASE Goto(p, "http") /\ UNCHANGED <<lock, ports>>
  <2>1. TablesOK'
    BY <1>1, <1>2 DEF Inv, TypeOK, TablesOK
  <2> QED BY <1>2, <2>1, AdvanceInv
          DEF AddScopeToUser, PCs, Starting, Naming, Locked, Migrated
<1>3. ASSUME NEW end \in {"error", "interrupted"}, End(p, end)
      PROVE  Inv'
  BY <1>1, <1>3, EndStep DEF AddScopeToUser
<1> QED BY <1>2, <1>3 DEF AddScopeToUser, Cancelled, Interrupted

LEMMA SpawnHTTPInv ==
    ASSUME Inv, NEW p \in Processes, SpawnHTTP(p)
    PROVE  Inv'
<1> DEFINE o == proc[p]
           n == [pc |-> "listen", config |-> o.config, signalled |-> o.signalled,
                 at |-> o.at, cleanup |-> o.cleanup, http |-> "spawned",
                 end |-> o.end]
<1>1. ProcessOK(o) /\ o.pc = "http"
  BY DEF Inv, TypeOK, SpawnHTTP
<1>2. ProcessOK(n) /\ n.pc = "listen"
  BY <1>1 DEF ProcessOK, Process, PCs, Starting, Locked
<1>3. proc' = [proc EXCEPT ![p] = proc'[p]] /\ proc'[p] = n
  <2>1. /\ proc \in [Processes -> Process]
        /\ proc' = [proc EXCEPT ![p].pc = "listen", ![p].http = "spawned"]
    BY DEF Inv, TypeOK, SpawnHTTP
  <2>2. proc'[p] = n
    BY <1>1, <2>1 DEF ProcessOK, Process
  <2> QED BY <2>1, <2>2
<1>4. proc' = [proc EXCEPT ![p] = n]
  BY <1>3
<1>5. TablesOK'
  BY DEF Inv, TypeOK, TablesOK, SpawnHTTP, tables
<1> HIDE DEF n
<1> QED BY <1>1, <1>2, <1>4, <1>5, ProcessStep
        DEF SpawnHTTP, schema, Locked, Migrated, PCs, Starting

LEMMA ListenAndServeInv ==
    ASSUME Inv, NEW p \in Processes, ListenAndServe(p)
    PROVE  Inv'
<1> SUFFICES ASSUME NEW h \in {"on", "failed"}, proc' = [proc EXCEPT ![p].http = h]
             PROVE  Inv'
  BY DEF ListenAndServe
<1> DEFINE n == [proc[p] EXCEPT !.http = h]
<1>1. ProcessOK(proc[p]) /\ proc[p].http # "off"
  BY DEF Inv, TypeOK, ListenAndServe
<1>2. ProcessOK(n) /\ n.pc = proc[p].pc /\ n.at = proc[p].at
  BY <1>1 DEF ProcessOK, Process
<1>3. proc' = [proc EXCEPT ![p] = n]
  OBVIOUS
<1>4. TablesOK'
  BY DEF Inv, TypeOK, TablesOK, ListenAndServe, tables
<1> HIDE DEF n
<1> QED BY <1>2, <1>3, <1>4, BesideInv DEF ListenAndServe, schema

LEMMA ListenInv ==
    ASSUME Inv, NEW p \in Processes, Listen(p)
    PROVE  Inv'
<1>1. CASE ports' = [ports EXCEPT !.grpc = p] /\ Goto(p, "serving") /\ UNCHANGED lock
  <2>1. TablesOK'
    BY <1>1 DEF Inv, TypeOK, TablesOK, Listen, tables
  <2> QED BY <1>1, <2>1, AdvanceInv
          DEF Listen, PCs, Starting, Serving, Naming, Locked, Migrated
<1>2. CASE End(p, "error")
  BY <1>2, EndStep DEF Listen, tables, Inv, TypeOK
<1> QED BY <1>1, <1>2 DEF Listen, ListenFails

LEMMA GracefulStopInv ==
    ASSUME Inv, NEW p \in Processes, GracefulStop(p)
    PROVE  Inv'
<1>1. TablesOK'
  BY DEF Inv, TypeOK, TablesOK, GracefulStop, tables
<1> QED BY <1>1, AdvanceInv
        DEF GracefulStop, schema, PCs, Starting, Serving, Naming, Locked, Migrated

LEMMA SignalInv ==
    ASSUME Inv, NEW p \in Processes, Signal(p)
    PROVE  Inv'
<1> DEFINE n == [proc[p] EXCEPT !.signalled = TRUE]
<1>1. ProcessOK(proc[p]) /\ proc[p].pc # "down"
  BY DEF Inv, TypeOK, Signal
<1>2. ProcessOK(n) /\ n.pc = proc[p].pc /\ n.at = proc[p].at
  BY <1>1 DEF ProcessOK, Process
<1>3. proc' = [proc EXCEPT ![p] = n]
  BY DEF Signal
<1>4. TablesOK'
  BY DEF Inv, TypeOK, TablesOK, Signal, tables
<1> HIDE DEF n
<1> QED BY <1>2, <1>3, <1>4, BesideInv DEF Signal, schema

LEMMA NextInv == Inv /\ [Next]_vars => Inv'
<1> SUFFICES ASSUME Inv, [Next]_vars PROVE Inv'
  OBVIOUS
<1>1. ASSUME NEW p \in Processes, NEW c \in Configs, Start(p, c) PROVE Inv'
  BY <1>1, StartInv
<1>2. ASSUME NEW p \in Processes, Main(p) PROVE Inv'
  <2>1. CASE Drained(p)
    BY <2>1, EndStep DEF Drained, tables, Inv, TypeOK
  <2> QED BY <1>2, <2>1, ConnectSourceInv, LockSchemaInv, ReadVersionInv,
             NextMigrationInv, ApplyMigrationInv, NewJwtTokenProviderInv,
             UserExistsInv, CreateScopeInv, CreateUserInv, AddScopeToUserInv,
             SpawnHTTPInv, ListenInv, GracefulStopInv DEF Main
<1>3. ASSUME NEW p \in Processes,
             StartTokenCleanup(p) \/ ListenAndServe(p) \/ Signal(p)
      PROVE  Inv'
  BY <1>3, StartTokenCleanupInv, ListenAndServeInv, SignalInv
<1>4. ASSUME NEW p \in Processes, Crash(p) PROVE Inv'
  BY <1>4, EndStep DEF Crash, Interrupted, tables, Inv, TypeOK
<1>5. CASE UNCHANGED vars
  BY <1>5 DEF vars, schema, tables, Inv, TypeOK, UpOK, ServesOnlyMigrated
<1> QED BY <1>1, <1>2, <1>3, <1>4, <1>5 DEF Next

-----------------------------------------------------------------------------
(* Theorems. *)

(* The inductive invariant holds in every state of every behaviour. *)
THEOREM Invariance == Spec => []Inv
BY InitInv, NextInv, PTL DEF Spec

(* Every process has the locals its state calls for, and the advisory lock *)
(* belongs to the process inside Up.                                       *)
THEOREM TypeCorrect == Spec => []TypeOK
<1>1. Inv => TypeOK
  BY DEF Inv
<1> QED BY <1>1, Invariance, PTL

(* No process past RunMigrations (main.go:39) meets a schema that is        *)
(* incomplete or dirty, however many processes start and die around it.    *)
THEOREM SchemaReady == Spec => []ServesOnlyMigrated
<1>1. Inv => ServesOnlyMigrated
  BY DEF Inv
<1> QED BY <1>1, Invariance, PTL

-----------------------------------------------------------------------------
(* The superuser.  What follows is about starts that nothing interrupts and *)
(* that bcrypt and NewTicker have nothing to object to.                     *)

Undisturbed ==
    /\ ~ Interruptions
    /\ \A c \in Configs : c.password = "short" /\ c.interval > 0

SettingUp == {"user", "link"}

(* At most one process ever gets past CreateScope, whose UNIQUE name is all *)
(* the mutual exclusion there is; until it has inserted the user there is   *)
(* none, so nothing stops it half-way.                                      *)
SetUpOK ==
    /\ \A p \in Processes : proc[p].signalled => proc[p].pc \in Serving
    /\ \A p \in Processes : proc[p].pc = "user" => users = {}
    /\ \A p \in Processes : proc[p].pc \in SettingUp =>
         \A q \in Processes \ {p} : proc[q].pc \notin SettingUp
    /\ ~ rootScope => users = {} /\ \A p \in Processes : proc[p].pc \notin SettingUp
    /\ SuperuserIsWhole

(* A step of p outside the three statements. *)
LEMMA OtherStep ==
    ASSUME SetUpOK, NEW p \in Processes, UNCHANGED tables,
           \A q \in Processes \ {p} : proc'[q] = proc[q],
           \/ proc'[p].pc = proc[p].pc
           \/ proc'[p].pc \notin SettingUp /\ proc[p].pc \notin SettingUp,
           proc'[p].signalled => proc'[p].pc \in Serving
    PROVE  SetUpOK'
<1>1. \A q \in Processes : proc'[q].pc \in SettingUp <=> proc[q].pc \in SettingUp
  OBVIOUS
<1>2. \A q \in Processes : proc'[q].pc = "user" <=> proc[q].pc = "user"
  BY DEF SettingUp
<1>3. SuperuserIsWhole'
  BY <1>1 DEF SetUpOK, SuperuserIsWhole, SettingUp, tables
<1> QED BY <1>1, <1>2, <1>3 DEF SetUpOK, tables

LEMMA EndFacts ==
    ASSUME Inv, NEW p \in Processes, NEW end, End(p, end)
    PROVE  /\ \A q \in Processes \ {p} : proc'[q] = proc[q]
           /\ proc'[p].pc = "down" /\ ~ proc'[p].signalled
BY DEF Inv, TypeOK, End, Down, Fresh

LEMMA GotoFacts ==
    ASSUME Inv, NEW p \in Processes, NEW pc \in PCs \ {"down"}, Goto(p, pc),
           proc[p].pc # "down", pc \in Naming => proc[p].pc \in Naming
    PROVE  /\ \A q \in Processes \ {p} : proc'[q] = proc[q]
           /\ proc'[p].pc = pc /\ proc'[p].signalled = proc[p].signalled
BY GotoStep DEF Inv, TypeOK

(* Without interruptions a process that is not serving ends for a reason    *)
(* of its own, and none of them is inside the three statements.             *)
LEMMA EndSetUp ==
    ASSUME Inv, SetUpOK, NEW p \in Processes, NEW end, End(p, end), UNCHANGED tables,
           proc[p].pc \notin SettingUp
    PROVE  SetUpOK'
BY EndFacts, OtherStep DEF SettingUp

LEMMA GotoSetUp ==
    ASSUME Inv, SetUpOK, NEW p \in Processes, NEW pc \in PCs \ {"down"}, Goto(p, pc),
           proc[p].pc # "down", pc \in Naming => proc[p].pc \in Naming,
           UNCHANGED tables, proc[p].pc \notin SettingUp, pc \notin SettingUp,
           proc[p].pc \in Serving => pc \in Serving
    PROVE  SetUpOK'
<1>1. proc[p].signalled => pc \in Serving
  BY DEF SetUpOK
<1> QED BY <1>1, GotoFacts, OtherStep

LEMMA CreateScopeSetUp ==
    ASSUME Undisturbed, Inv, SetUpOK, NEW p \in Processes, CreateScope(p)
    PROVE  SetUpOK'
<1>1. /\ proc[p].pc = "scope" /\ ~ proc[p].signalled
      /\ proc[p].config.password = "short" /\ ~ Interruptions
  BY DEF CreateScope, SetUpOK, Serving, Inv, TypeOK, ProcessOK, Process, Undisturbed
<1>2. CASE rootScope
  <2>1. End(p, "error") /\ UNCHANGED tables
    BY <1>1, <1>2 DEF CreateScope, Cancelled, Interrupted, tables
  <2> QED BY <1>1, <2>1, EndSetUp DEF SettingUp
<1>3. CASE ~ rootScope
  <2>1. rootScope' /\ Goto(p, "user") /\ UNCHANGED <<users, roots>>
    BY <1>1, <1>3 DEF CreateScope, Cancelled, Interrupted
  <2>2. /\ \A q \in Processes \ {p} : proc'[q] = proc[q]
        /\ proc'[p].pc = "user" /\ ~ proc'[p].signalled
    BY <1>1, <2>1, GotoFacts DEF PCs, Starting, Naming
  <2>3. users = {} /\ \A q \in Processes : proc[q].pc \notin SettingUp
    BY <1>3 DEF SetUpOK
  <2>4. SuperuserIsWhole'
    BY <2>2 DEF SuperuserIsWhole
  <2> QED BY <2>1, <2>2, <2>3, <2>4 DEF SetUpOK, SettingUp
<1> QED BY <1>2, <1>3

LEMMA CreateUserSetUp ==
    ASSUME Undisturbed, Inv, SetUpOK, NEW p \in Processes, CreateUser(p)
    PROVE  SetUpOK'
<1>1. /\ proc[p].pc = "user" /\ ~ proc[p].signalled /\ ~ Interruptions
      /\ users = {} /\ rootScope
      /\ \A q \in Processes \ {p} : proc[q].pc \notin SettingUp
  BY DEF CreateUser, SetUpOK, Serving, SettingUp, Undisturbed
<1>2. Goto(p, "link") /\ UNCHANGED <<rootScope, roots>>
  BY <1>1 DEF CreateUser, Cancelled, Interrupted
<1>3. /\ \A q \in Processes \ {p} : proc'[q] = proc[q]
      /\ proc'[p].pc = "link" /\ ~ proc'[p].signalled
  BY <1>1, <1>2, GotoFacts DEF PCs, Starting, Naming
<1>4. SuperuserIsWhole'
  BY <1>3 DEF SuperuserIsWhole
<1> QED BY <1>1, <1>2, <1>3, <1>4 DEF SetUpOK, SettingUp

LEMMA AddScopeToUserSetUp ==
    ASSUME Undisturbed, Inv, SetUpOK, NEW p \in Processes, AddScopeToUser(p)
    PROVE  SetUpOK'
<1>1. /\ proc[p].pc = "link" /\ ~ proc[p].signalled /\ ~ Interruptions
      /\ rootScope
      /\ \A q \in Processes \ {p} : proc[q].pc \notin SettingUp
  BY DEF AddScopeToUser, SetUpOK, Serving, SettingUp, Undisturbed
<1>2. /\ Goto(p, "http") /\ UNCHANGED <<rootScope, users>>
      /\ roots' = LinksWith(proc[p].config.superuser)
  BY <1>1 DEF AddScopeToUser, Cancelled, Interrupted
<1>3. /\ \A q \in Processes \ {p} : proc'[q] = proc[q]
      /\ proc'[p].pc = "http" /\ ~ proc'[p].signalled
  BY <1>1, <1>2, GotoFacts DEF PCs, Starting, Naming
<1>4. SuperuserIsWhole'
  BY <1>2 DEF SuperuserIsWhole, LinksWith
<1> QED BY <1>1, <1>2, <1>3, <1>4 DEF SetUpOK, SettingUp

LEMMA UpSetUp ==
    ASSUME Undisturbed, Inv, SetUpOK, NEW p \in Processes,
           ConnectSource(p) \/ LockSchema(p) \/ ReadVersion(p) \/ NextMigration(p)
             \/ ApplyMigration(p)
    PROVE  SetUpOK'
<1>1. /\ UNCHANGED tables
      /\ proc[p].pc \in {"connect", "lock", "version", "migrate", "apply"}
      /\ proc \in [Processes -> Process]
  BY DEF ConnectSource, LockSchema, ReadVersion, NextMigration, ApplyMigration, Inv, TypeOK
<1>2. ~ proc[p].signalled
  BY <1>1 DEF SetUpOK, Serving
<1>3. CASE \E end : End(p, end)
  BY <1>1, <1>3, EndSetUp DEF SettingUp
<1>4. CASE \E pc \in {"lock", "version", "apply", "provider"} : Goto(p, pc)
  BY <1>1, <1>4, GotoSetUp DEF PCs, Starting, Locked, Naming, SettingUp, Serving
<1>5. CASE \E v : proc' = [proc EXCEPT ![p].pc = "migrate", ![p].at = v]
  <2>1. /\ \A q \in Processes \ {p} : proc'[q] = proc[q]
        /\ proc'[p].pc = "migrate" /\ proc'[p].signalled = proc[p].signalled
    BY <1>1, <1>5 DEF Process
  <2> QED BY <1>1, <1>2, <2>1, OtherStep DEF SettingUp
<1> QED BY <1>3, <1>4, <1>5
        DEF ConnectSource, LockSchema, ReadVersion, NextMigration, ApplyMigration,
            MigrationFails, Interrupted

LEMMA FieldsSetUp ==
    ASSUME Undisturbed, Inv, SetUpOK, NEW p \in Processes,
           NewJwtTokenProvider(p) \/ StartTokenCleanup(p) \/ SpawnHTTP(p)
             \/ ListenAndServe(p) \/ Signal(p)
    PROVE  SetUpOK'
<1>1. UNCHANGED tables /\ proc \in [Processes -> Process] /\ ProcessOK(proc[p])
  BY DEF NewJwtTokenProvider, StartTokenCleanup, SpawnHTTP, ListenAndServe, Signal,
         Inv, TypeOK
<1>2. CASE NewJwtTokenProvider(p)
  <2>1. CASE End(p, "error")
    BY <1>1, <1>2, <2>1, EndSetUp DEF NewJwtTokenProvider, SettingUp
  <2>2. CASE proc' = [proc EXCEPT ![p].pc = "exists", ![p].cleanup = "spawned"]
    <3>1. /\ \A q \in Processes \ {p} : proc'[q] = proc[q]
          /\ proc'[p].pc = "exists" /\ proc'[p].signalled = proc[p].signalled
      BY <1>1, <2>2 DEF Process
    <3> QED BY <1>1, <1>2, <3>1, OtherStep
            DEF NewJwtTokenProvider, SetUpOK, SettingUp, Serving
  <2> QED BY <1>2, <2>1, <2>2 DEF NewJwtTokenProvider
<1>3. CASE StartTokenCleanup(p)
  <2>1. proc[p].config.interval > 0
    BY <1>1, <1>3 DEF StartTokenCleanup, ProcessOK, Process, Undisturbed
  <2>2. PICK c \in {"on", "off"} : proc' = [proc EXCEPT ![p].cleanup = c]
    BY <1>1, <1>3, <2>1, ConfigAssumption
       DEF StartTokenCleanup, ProcessOK, Process, Config
  <2>3. /\ \A q \in Processes \ {p} : proc'[q] = proc[q]
        /\ proc'[p].pc = proc[p].pc /\ proc'[p].signalled = proc[p].signalled
    BY <1>1, <2>2 DEF Process
  <2> QED BY <1>1, <2>3, OtherStep DEF SetUpOK
<1>4. CASE SpawnHTTP(p)
  <2>1. /\ \A q \in Processes \ {p} : proc'[q] = proc[q]
        /\ proc'[p].pc = "listen" /\ proc'[p].signalled = proc[p].signalled
    BY <1>1, <1>4 DEF SpawnHTTP, Process
  <2> QED BY <1>1, <1>4, <2>1, OtherStep DEF SpawnHTTP, SetUpOK, SettingUp, Serving
<1>5. CASE ListenAndServe(p)
  <2>1. PICK h \in {"on", "failed"} : proc' = [proc EXCEPT ![p].http = h]
    BY <1>5 DEF ListenAndServe
  <2>2. /\ \A q \in Processes \ {p} : proc'[q] = proc[q]
        /\ proc'[p].pc = proc[p].pc /\ proc'[p].signalled = proc[p].signalled
    BY <1>1, <2>1 DEF Process
  <2> QED BY <1>1, <2>2, OtherStep DEF SetUpOK
<1>6. CASE Signal(p)
  <2>1. /\ \A q \in Processes \ {p} : proc'[q] = proc[q]
        /\ proc'[p].pc = proc[p].pc /\ proc[p].pc = "serving"
    BY <1>1, <1>6 DEF Signal, Process, Undisturbed
  <2> QED BY <1>1, <2>1, OtherStep DEF Serving
<1> QED BY <1>2, <1>3, <1>4, <1>5, <1>6

LEMMA NextSetUp ==
    ASSUME Undisturbed, Inv, SetUpOK, [Next]_vars
    PROVE  SetUpOK'
<1>1. ASSUME NEW p \in Processes, NEW c \in Configs, Start(p, c) PROVE SetUpOK'
  <2>1. /\ \A q \in Processes \ {p} : proc'[q] = proc[q]
        /\ proc'[p].pc = "connect" /\ ~ proc'[p].signalled
    BY <1>1 DEF Start, Fresh, Inv, TypeOK
  <2> QED BY <1>1, <2>1, OtherStep DEF Start, SettingUp
<1>2. ASSUME NEW p \in Processes, UserExistsByUsername(p) PROVE SetUpOK'
  <2>1. \E pc \in {"http", "scope"} : Goto(p, pc)
    BY <1>2 DEF UserExistsByUsername, Interrupted, Undisturbed
  <2> QED BY <1>2, <2>1, GotoSetUp
          DEF UserExistsByUsername, PCs, Starting, Serving, Naming, SettingUp
<1>3. ASSUME NEW p \in Processes, Listen(p) \/ GracefulStop(p) PROVE SetUpOK'
  <2>1. UNCHANGED tables /\ proc[p].pc \in {"listen", "serving"}
    BY <1>3 DEF Listen, GracefulStop
  <2>2. CASE End(p, "error")
    BY <2>1, <2>2, EndSetUp DEF SettingUp
  <2>3. CASE \E pc \in {"serving", "draining"} : Goto(p, pc)
    BY <2>1, <2>3, GotoSetUp DEF PCs, Starting, Serving, Naming, SettingUp
  <2> QED BY <1>3, <2>2, <2>3 DEF Listen, ListenFails, GracefulStop
<1>4. ASSUME NEW p \in Processes, Drained(p) PROVE SetUpOK'
  BY <1>4, EndSetUp DEF Drained, SettingUp
<1>5. ASSUME NEW p \in Processes, Crash(p) PROVE SetUpOK'
  BY <1>5 DEF Crash, Interrupted, Undisturbed
<1>6. CASE UNCHANGED vars
  BY <1>6 DEF vars, tables, SetUpOK, SuperuserIsWhole
<1> QED BY <1>1, <1>2, <1>3, <1>4, <1>5, <1>6, UpSetUp, FieldsSetUp, CreateScopeSetUp,
           CreateUserSetUp, AddScopeToUserSetUp DEF Next, Main

(* However many processes start together, the superuser is set up whole, if *)
(* no crash, failing statement or early signal interrupts them.             *)
THEOREM WholeSuperuser ==
    ASSUME Undisturbed
    PROVE  Spec => []SuperuserIsWhole
<1>1. Init => SetUpOK
  BY DEF Init, Down, Fresh, SetUpOK, SettingUp, SuperuserIsWhole
<1>2. Inv /\ SetUpOK /\ [Next]_vars => SetUpOK'
  BY NextSetUp
<1>3. SetUpOK => SuperuserIsWhole
  BY DEF SetUpOK
<1> QED BY <1>1, <1>2, <1>3, Invariance, PTL DEF Spec

=============================================================================
