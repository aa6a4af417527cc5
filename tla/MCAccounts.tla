------------------------------ MODULE MCAccounts ------------------------------
(* Three addresses, two of them the same but for a capital letter. *)
EXTENDS Accounts, TLC

MCLower == [w \in {"ann", "Ann", "bob"} |-> IF w = "Ann" THEN "ann" ELSE w]

Perms == Permutations(Conn)
=============================================================================
