--------------------------- MODULE MCAuthService ---------------------------
(* AuthService with the symmetry of its identifiers, for TLC. *)
EXTENDS AuthService, TLC

\* No action tells two tokens, families, passwords, reset tokens or requests
\* apart except by what the tables say of them.
Symmetry ==
    Permutations(Tokens) \cup Permutations(Families) \cup
    Permutations(Passwords) \cup Permutations(Requests)
=============================================================================
