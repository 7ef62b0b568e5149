------------------------------ MODULE MCAccounts ------------------------------
(* Instances of Accounts for TLC. *)
EXTENDS Accounts, TLC

CONSTANTS root, part

(* The name of scope `part' is a part of the name of scope `root'. *)
MCInfix == {<<root, root>>, <<part, part>>, <<part, root>>}

MCAllowed == {{}, {root}, {part}}

AccountSymmetry ==
    Permutations(Names) \cup Permutations(Emails)
=============================================================================
