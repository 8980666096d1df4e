----------------------------- MODULE MCAccounts -----------------------------
(***************************************************************************)
(* Small instances of Accounts for TLC.                                    *)
(***************************************************************************)
EXTENDS Accounts, TLC

\* The connections are interchangeable (safety runs only).
AddrSymmetry == Permutations(Addrs)

\* "w2_nul" stands for a password that reads w2 up to a NUL and goes on.
UpToNul == [w \in Passwords |-> IF w = "w2_nul" THEN "w2" ELSE w]

=============================================================================
