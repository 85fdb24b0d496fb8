---------------------------- MODULE MCOnboarding ----------------------------
(* Onboarding with the symmetry of its identifiers, for TLC. *)
EXTENDS Onboarding, TLC

\* No action tells two addresses, tokens, roles or requests apart except by
\* what the tables say of them.
Symmetry ==
    Permutations(Emails) \cup Permutations(Tokens) \cup
    Permutations(AdminRoles) \cup Permutations(Requests)
=============================================================================
