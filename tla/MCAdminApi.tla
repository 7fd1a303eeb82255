----------------------------- MODULE MCAdminApi -----------------------------
(* Instances of AdminApi for TLC. *)
EXTENDS AdminApi, TLC

\* The code treats ids, passwords, tokens and goroutines alike.
Symmetry == Permutations(Users) \cup Permutations(Passwords)
              \cup Permutations(Tokens) \cup Permutations(Requests)
=============================================================================
