----------------------------- MODULE MCBootstrap -----------------------------
(* Instances of Bootstrap for TLC. *)
EXTENDS Bootstrap

CONSTANTS admin, chief

(* config/config.yaml, with every section. *)
Complete == [superuser |-> admin, password |-> "short", interval |-> 5,
             keys |-> TRUE, certs |-> TRUE]

(* Each way to get the configuration wrong; a missing key pair of the     *)
(* tokens has the effect of a missing superuser.                           *)
Incomplete == {[Complete EXCEPT !.superuser = None], [Complete EXCEPT !.password = "long"],
               [Complete EXCEPT !.interval = 0], [Complete EXCEPT !.certs = FALSE]}

(* The operator names another superuser between two starts. *)
OtherName == {Complete, [Complete EXCEPT !.superuser = chief]}

OnlyComplete == {Complete}
EveryConfig  == {Complete} \cup Incomplete
=============================================================================
