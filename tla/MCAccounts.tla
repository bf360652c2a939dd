----------------------------- MODULE MCAccounts -----------------------------
(* E-mails and symmetry for the runs of Accounts.                           *)
EXTENDS Accounts, TLC

CONSTANTS e1, E1      \* one address, in lower and in upper case

MCLower == [e \in Emails |-> IF e = E1 THEN e1 ELSE e]

\* Requests are interchangeable, and so are users of the same first role.
AccountSymmetry ==
  Permutations(Requests) \cup Permutations(Admins) \cup Permutations(Users \ Admins)

=============================================================================
