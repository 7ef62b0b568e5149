------------------------------ MODULE OneTimeCode ------------------------------
(***************************************************************************)
(* What the authorization codes of ZenithSSO promise to users and clients: *)
(* a code stands for one consent, and it is redeemed at most once, for     *)
(* that consent and nothing else.                                          *)
(***************************************************************************)
CONSTANTS
    CodeIds,   \* the codes that can be generated
    Grants,    \* what a user can consent to
    None       \* no consent

VARIABLES
    consented, \* for each code, the consent it was issued for
    open,      \* the codes that can still be redeemed
    redeemed   \* for each code, what it was redeemed for

vars == <<consented, open, redeemed>>

Init ==
    /\ consented = [k \in CodeIds |-> None]
    /\ open = {}
    /\ redeemed = [k \in CodeIds |-> None]

Issue(k, g) ==
    /\ consented[k] = None
    /\ consented' = [consented EXCEPT ![k] = g]
    /\ open' = open \cup {k}
    /\ UNCHANGED redeemed

Redeem(k) ==
    /\ k \in open
    /\ open' = open \ {k}
    /\ redeemed' = [redeemed EXCEPT ![k] = consented[k]]
    /\ UNCHANGED consented

(* Codes go unredeemed: a failed exchange spends one, the deletion of a    *)
(* user removes all of the user's.                                         *)
Close(S) ==
    /\ S # {}
    /\ S \subseteq open
    /\ open' = open \ S
    /\ UNCHANGED <<consented, redeemed>>

Next ==
    \/ \E k \in CodeIds, g \in Grants : Issue(k, g)
    \/ \E k \in CodeIds : Redeem(k)
    \/ \E S \in SUBSET open : Close(S)

Spec == Init /\ [][Next]_vars

=============================================================================
