----------------------------- MODULE SchemaUpgrade -----------------------------
(***************************************************************************)
(* What the migrations of ZenithSSO promise to the operator of several     *)
(* processes: the files run in their order, each at most once, one at a    *)
(* time and to its end by the process that began it; and after a file that *)
(* its process did not finish, no other one runs.                          *)
(***************************************************************************)
EXTENDS Naturals

CONSTANTS
    Processes,  \* who may run the files
    None,       \* none of them
    Migrations  \* the number of files

VARIABLES
    version,    \* the files that have been begun
    dirty,      \* whether the last of them has not been finished
    worker      \* the process that is running a file

vars == <<version, dirty, worker>>

Init == version = 0 /\ dirty = FALSE /\ worker = None

Begin(p) ==
    /\ worker = None
    /\ ~ dirty
    /\ version < Migrations
    /\ version' = version + 1
    /\ dirty' = TRUE
    /\ worker' = p

Finish(p) ==
    /\ worker = p
    /\ dirty' = FALSE
    /\ worker' = None
    /\ UNCHANGED version

(* The process dies; the schema stays dirty. *)
Abandon ==
    /\ worker # None
    /\ worker' = None
    /\ UNCHANGED <<version, dirty>>

Next == Abandon \/ \E p \in Processes : Begin(p) \/ Finish(p)

Spec == Init /\ [][Next]_vars

=============================================================================
