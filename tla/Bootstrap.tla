------------------------------- MODULE Bootstrap -------------------------------
(***************************************************************************)
(* Start and end of the ZenithSSO server (cmd/server/main.go): migrations, *)
(* the clean-up goroutine, SetUpSuperuser (internal/authserver.go), the    *)
(* HTTP and the gRPC server, and the shutdown on a signal.                 *)
(*                                                                         *)
(* Several processes, one per start of the program, share a database and   *)
(* the ports of a host: replicas, or the old and the new process of a      *)
(* restart.  A step is one statement or system call with the local         *)
(* computation up to the next, as in TokenProvider.                        *)
(***************************************************************************)
EXTENDS Naturals

CONSTANTS
    Processes,     \* the processes, each of which can be started again
    None,          \* no process, no configuration, no user name
    Configs,       \* what MustLoad can read
    Names,         \* user names
    Migrations,    \* the number of files *.up.sql
    Interruptions  \* whether processes crash, statements fail and signals
                   \* reach a process that is not serving yet

(* An unset key of the superuser section reads as the empty string, an      *)
(* unset jwt.cleanup.interval as 0.  `keys' and `certs' say whether the key *)
(* pair of the tokens and the gRPC certificate load; bcrypt refuses a       *)
(* "long" password.                                                         *)
Config == [superuser: Names \cup {None}, password: {"short", "long"},
           interval: Nat, keys: BOOLEAN, certs: BOOLEAN]

ASSUME ConfigAssumption ==
    Configs \subseteq Config /\ None \notin Processes \cup Names \cup Config
ASSUME MigrationsAssumption    == Migrations \in Nat
ASSUME InterruptionsAssumption == Interruptions \in BOOLEAN

VARIABLES
    version,   \* schema_migrations.version, counting the files
    dirty,     \* schema_migrations.dirty
    lock,      \* the process that holds the advisory lock
    rootScope, \* table scopes has the row 'root'
    users,     \* the superuser names in table users
    roots,     \* the ones among them that user_scopes links to 'root'
    ports,     \* the process that listens on each port
    proc       \* the processes

schema == <<version, dirty, lock>>
tables == <<rootScope, users, roots>>
vars   == <<schema, tables, ports, proc>>

Locked   == {"version", "migrate", "apply"}
Starting == {"connect", "lock"} \cup Locked \cup
            {"provider", "exists", "scope", "user", "link", "http", "listen"}
Serving  == {"serving", "draining"}
PCs      == {"down"} \cup Starting \cup Serving

Process == [pc: PCs, config: Configs \cup {None}, signalled: BOOLEAN,
            at: 0 .. Migrations, \* the version that Up has reached
            cleanup: {"off", "spawned", "on"}, http: {"off", "spawned", "on", "failed"},
            end: {"none", "error", "interrupted", "stopped"}]

Fresh(pc, c, end) ==
    [pc |-> pc, config |-> c, signalled |-> FALSE, at |-> 0,
     cleanup |-> "off", http |-> "off", end |-> end]

Down(end) == Fresh("down", None, end)

Init ==
    /\ version = 0
    /\ dirty = FALSE
    /\ lock = None
    /\ rootScope = FALSE
    /\ users = {}
    /\ roots = {}
    /\ ports = [http |-> None, grpc |-> None]
    /\ proc = [p \in Processes |-> Down("none")]

-----------------------------------------------------------------------------
Goto(p, pc) == proc' = [proc EXCEPT ![p].pc = pc]

(* Mutant: whoever ends frees the lock, whoever holds it. *)
Unlocked(p) == None

LockWithout(p) == IF lock = p THEN None ELSE lock

PortsWithout(p) ==
    [http |-> IF ports.http = p THEN None ELSE ports.http,
     grpc |-> IF ports.grpc = p THEN None ELSE ports.grpc]

(* main returns or the process dies: its goroutines, its connections, with *)
(* the advisory lock, and its ports go with it.                            *)
End(p, end) ==
    /\ lock' = LockWithout(p)
    /\ ports' = PortsWithout(p)
    /\ proc' = [proc EXCEPT ![p] = Down(end)]

(* A statement returns an error, or outlasts its timeout. *)
Interrupted(p) == Interruptions /\ End(p, "interrupted")

-----------------------------------------------------------------------------
(* Start, connection and migrations. *)

Start(p, c) ==
    /\ proc[p].pc = "down"
    /\ proc' = [proc EXCEPT ![p] = Fresh("connect", c, "none")]
    /\ UNCHANGED <<schema, tables, ports>>

ConnectSource(p) ==
    /\ proc[p].pc = "connect"
    /\ \/ Goto(p, "lock") /\ UNCHANGED <<lock, ports>>
       \/ Interrupted(p)
    /\ UNCHANGED <<version, dirty, tables>>

(* RunMigrations calls Up, which waits for the lock, but not for ever. *)
LockSchema(p) ==
    /\ proc[p].pc = "lock"
    /\ \/ lock = None /\ lock' = p /\ Goto(p, "version") /\ UNCHANGED ports
       \/ lock # None /\ End(p, "interrupted")
       \/ Interrupted(p)
    /\ UNCHANGED <<version, dirty, tables>>

(* Mutant: the error of RunMigrations is logged and nothing else. *)
LogError(p) == lock' = None /\ Goto(p, "provider") /\ UNCHANGED ports

MigrationFails(p) == End(p, "error")

(* Up reads version and dirty once, and refuses a dirty schema. *)
ReadVersion(p) ==
    /\ proc[p].pc = "version"
    /\ \/ /\ ~ dirty
          /\ proc' = [proc EXCEPT ![p].pc = "migrate", ![p].at = version]
          /\ UNCHANGED <<lock, ports>>
       \/ dirty /\ MigrationFails(p)
       \/ Interrupted(p)
    /\ UNCHANGED <<version, dirty, tables>>

(* It marks the next version dirty, or returns, if there is no other one. *)
NextMigration(p) ==
    /\ proc[p].pc = "migrate"
    /\ \/ /\ proc[p].at < Migrations
          /\ version' = proc[p].at + 1
          /\ dirty' = TRUE
          /\ Goto(p, "apply")
          /\ UNCHANGED <<lock, ports>>
       \/ /\ proc[p].at = Migrations
          /\ lock' = None
          /\ Goto(p, "provider")
          /\ UNCHANGED <<version, dirty, ports>>
       \/ Interrupted(p) /\ UNCHANGED <<version, dirty>>
    /\ UNCHANGED tables

(* The file is run and its version marked clean. *)
ApplyMigration(p) ==
    /\ proc[p].pc = "apply"
    /\ \/ /\ dirty' = FALSE
          /\ proc' = [proc EXCEPT ![p].pc = "migrate", ![p].at = @ + 1]
          /\ UNCHANGED <<lock, ports>>
       \/ Interrupted(p) /\ UNCHANGED dirty
    /\ UNCHANGED <<version, tables>>

-----------------------------------------------------------------------------
(* The provider, the clean-up goroutine and the superuser. *)

(* Mutant: the section superuser may be missing. *)
KeysOnly(c) == c.keys

Configured(c) == c.keys /\ c.superuser # None

(* NewJwtTokenProvider, the start of the goroutine and the checks of the   *)
(* configuration at the head of SetUpSuperuser.                            *)
NewJwtTokenProvider(p) ==
    LET c == proc[p].config
    IN  /\ proc[p].pc = "provider"
        /\ \/ /\ Configured(c)
              /\ proc' = [proc EXCEPT ![p].pc = "exists", ![p].cleanup = "spawned"]
              /\ UNCHANGED <<lock, ports>>
           \/ ~ Configured(c) /\ End(p, "error")
        /\ UNCHANGED <<version, dirty, tables>>

(* NewTicker panics on an interval that is not positive and takes the      *)
(* process down; the goroutine ends when the context does.                 *)
StartTokenCleanup(p) ==
    /\ \/ /\ proc[p].cleanup = "spawned"
          /\ \/ /\ proc[p].config.interval > 0
                /\ proc' = [proc EXCEPT ![p].cleanup = "on"]
                /\ UNCHANGED <<lock, ports>>
             \/ proc[p].config.interval = 0 /\ End(p, "error")
       \/ /\ proc[p].cleanup = "on" /\ proc[p].signalled
          /\ proc' = [proc EXCEPT ![p].cleanup = "off"]
          /\ UNCHANGED <<lock, ports>>
    /\ UNCHANGED <<version, dirty, tables>>

SuperuserExists(p) == proc[p].config.superuser \in users

(* The query does not use the context, so a signal does not stop it. *)
UserExistsByUsername(p) ==
    /\ proc[p].pc = "exists"
    /\ \/ /\ Goto(p, IF SuperuserExists(p) THEN "http" ELSE "scope")
          /\ UNCHANGED <<lock, ports>>
       \/ Interrupted(p)
    /\ UNCHANGED <<version, dirty, tables>>

(* A statement under the context of SetUpSuperuser: it is not sent once    *)
(* the process was signalled.                                              *)
Cancelled(p) == proc[p].signalled /\ End(p, "interrupted")

(* CreateScope, and HashPassword after it. *)
CreateScope(p) ==
    /\ proc[p].pc = "scope"
    /\ \/ ~ proc[p].signalled /\ ~ rootScope /\ rootScope' = TRUE
          /\ \/ /\ proc[p].config.password = "short"
                /\ Goto(p, "user")
                /\ UNCHANGED <<lock, ports>>
             \/ proc[p].config.password = "long" /\ End(p, "error")
       \/ ~ proc[p].signalled /\ rootScope /\ End(p, "error") /\ UNCHANGED rootScope
       \/ Cancelled(p) /\ UNCHANGED rootScope
       \/ Interrupted(p) /\ rootScope' \in {rootScope, TRUE}
    /\ UNCHANGED <<version, dirty, users, roots>>

CreateUser(p) ==
    LET name == proc[p].config.superuser
    IN  /\ proc[p].pc = "user"
        /\ \/ /\ ~ proc[p].signalled /\ name \notin users
              /\ users' = users \cup {name}
              /\ Goto(p, "link")
              /\ UNCHANGED <<lock, ports>>
           \/ ~ proc[p].signalled /\ name \in users /\ End(p, "error") /\ UNCHANGED users
           \/ Cancelled(p) /\ UNCHANGED users
           \/ Interrupted(p) /\ users' \in {users, users \cup {name}}
        /\ UNCHANGED <<version, dirty, rootScope, roots>>

(* Mutant: the scope is created and never given. *)
LinkNobody(name) == roots

LinksWith(name) == roots \cup {name}

AddScopeToUser(p) ==
    LET name == proc[p].config.superuser
    IN  /\ proc[p].pc = "link"
        /\ \/ /\ ~ proc[p].signalled
              /\ roots' = LinksWith(name)
              /\ Goto(p, "http")
              /\ UNCHANGED <<lock, ports>>
           \/ Cancelled(p) /\ UNCHANGED roots
           \/ Interrupted(p) /\ roots' \in {roots, LinksWith(name)}
        /\ UNCHANGED <<version, dirty, rootScope, users>>

-----------------------------------------------------------------------------
(* The servers and the shutdown. *)

SpawnHTTP(p) ==
    /\ proc[p].pc = "http"
    /\ proc' = [proc EXCEPT ![p].pc = "listen", ![p].http = "spawned"]
    /\ UNCHANGED <<schema, tables, ports>>

(* In a goroutine; main does not learn of its error. *)
ListenAndServe(p) ==
    /\ proc[p].http = "spawned"
    /\ \/ /\ ports.http = None
          /\ ports' = [ports EXCEPT !.http = p]
          /\ proc' = [proc EXCEPT ![p].http = "on"]
       \/ /\ ports.http # None
          /\ proc' = [proc EXCEPT ![p].http = "failed"]
          /\ UNCHANGED ports
    /\ UNCHANGED <<schema, tables>>

(* Mutant: the port is tried again until it is free. *)
TryAgain(p) == UNCHANGED <<lock, ports, proc>>

ListenFails(p) == End(p, "error")

CanListen(p) == ports.grpc = None /\ proc[p].config.certs

Listen(p) ==
    /\ proc[p].pc = "listen"
    /\ \/ /\ CanListen(p)
          /\ ports' = [ports EXCEPT !.grpc = p]
          /\ Goto(p, "serving")
          /\ UNCHANGED lock
       \/ ~ CanListen(p) /\ ListenFails(p)
    /\ UNCHANGED <<version, dirty, tables>>

(* Mutant: nothing waits for the signal. *)
NoGracefulStop(p) == FALSE /\ UNCHANGED vars

(* The listener is closed at once; calls in flight go on. *)
GracefulStop(p) ==
    /\ proc[p].pc = "serving"
    /\ proc[p].signalled
    /\ ports' = [ports EXCEPT !.grpc = None]
    /\ Goto(p, "draining")
    /\ UNCHANGED <<schema, tables>>

(* The last gRPC call has ended, Serve and main return. *)
Drained(p) ==
    /\ proc[p].pc = "draining"
    /\ End(p, "stopped")
    /\ UNCHANGED <<version, dirty, tables>>

(* SIGINT or SIGTERM. *)
Signal(p) ==
    /\ proc[p].pc # "down"
    /\ ~ proc[p].signalled
    /\ Interruptions \/ proc[p].pc = "serving"
    /\ proc' = [proc EXCEPT ![p].signalled = TRUE]
    /\ UNCHANGED <<schema, tables, ports>>

Crash(p) ==
    /\ proc[p].pc # "down"
    /\ Interrupted(p)
    /\ UNCHANGED <<version, dirty, tables>>

-----------------------------------------------------------------------------
(* What the process p does by itself. *)
Main(p) ==
    \/ ConnectSource(p)
    \/ LockSchema(p)
    \/ ReadVersion(p)
    \/ NextMigration(p)
    \/ ApplyMigration(p)
    \/ NewJwtTokenProvider(p)
    \/ UserExistsByUsername(p)
    \/ CreateScope(p)
    \/ CreateUser(p)
    \/ AddScopeToUser(p)
    \/ SpawnHTTP(p)
    \/ Listen(p)
    \/ GracefulStop(p)
    \/ Drained(p)

Next ==
    \E p \in Processes :
        \/ \E c \in Configs : Start(p, c)
        \/ Main(p)
        \/ StartTokenCleanup(p)
        \/ ListenAndServe(p)
        \/ Signal(p)
        \/ Crash(p)

Spec == Init /\ [][Next]_vars

(* A process that runs goes on; nothing makes anyone start, signal or       *)
(* crash it.                                                                *)
Fairness == \A p \in Processes : WF_vars(Main(p)) /\ WF_vars(ListenAndServe(p))

FairSpec == Spec /\ Fairness

-----------------------------------------------------------------------------
(* Properties. *)

ProcessOK(q) ==
    /\ q \in Process
    /\ q.pc = "down" <=> q.config = None
    /\ q.pc # "down" => q.end = "none"
    /\ q.pc = "down" => q.cleanup = "off" /\ q.http = "off" /\ ~ q.signalled
    /\ q.pc \in {"scope", "user", "link", "exists"} => q.config.superuser # None

(* Every variable has its type, a process that is down has nothing left of  *)
(* the one that ran, the locals of main, and the advisory lock belongs to   *)
(* the process that is inside Up, or to nobody (migration.go:37).           *)
TypeOK ==
    /\ version \in 0 .. Migrations
    /\ dirty \in BOOLEAN
    /\ lock \in Processes \cup {None}
    /\ rootScope \in BOOLEAN
    /\ roots \subseteq Names
    /\ users \subseteq Names
    /\ ports \in [{"http", "grpc"} -> Processes \cup {None}]
    /\ proc \in [Processes -> Process]
    /\ \A p \in Processes : ProcessOK(proc[p])
    /\ \A p \in Processes : lock = p <=> proc[p].pc \in Locked

Migrated == PCs \ ({"down", "connect", "lock"} \cup Locked)

(* A process past RunMigrations (main.go:39) works on the complete, clean   *)
(* schema, whatever other processes start, migrate and die at the time.     *)
ServesOnlyMigrated ==
    \A p \in Processes :
        proc[p].pc \in Migrated => version = Migrations /\ ~ dirty

Migrating == IF lock # None /\ proc[lock].pc = "apply" THEN lock ELSE None

SU == INSTANCE SchemaUpgrade WITH worker <- Migrating

(* However many processes start at once, fail and die, each file of        *)
(* migrations runs at most once, in order, and to its end by one process;  *)
(* none runs on a schema that another one left half-way (migration.go:37). *)
MigrationsRunOnce == SU!Spec

(* Without interruptions the three statements of SetUpSuperuser are as good *)
(* as one, also for processes that start together: the scope 'root' has an  *)
(* owner, or a process is about to give it one.                             *)
SuperuserIsWhole ==
    rootScope => \/ roots # {}
                 \/ \E p \in Processes : proc[p].pc \in {"user", "link"}

(* README.md:61, "start your server": no start fails of its own accord, on  *)
(* an error that neither a crash, a failing statement nor a signal explains. *)
StartsSucceed == \A p \in Processes : proc[p].end # "error"

(* Every start comes to an end: the process serves, or it is down. *)
StartsEnd ==
    \A p \in Processes :
        proc[p].pc \in Starting ~> proc[p].pc \in Serving \cup {"down"}

(* main.go:26: a process that has got SIGINT or SIGTERM ends, wherever the  *)
(* signal found it.                                                         *)
SignalledEnd ==
    \A p \in Processes : proc[p].signalled ~> proc[p].pc = "down"

=============================================================================
