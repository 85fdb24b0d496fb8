----------------------------- MODULE TokenLife ------------------------------
(***************************************************************************)
(* What the one-time tokens of confirmation, reset and invitation mails    *)
(* promise, without requests, limiters or transactions: a token is mailed  *)
(* before it becomes valid, valid once, and spent for good; nobody enters  *)
(* by anything but the spending of a valid token.                          *)
(***************************************************************************)
EXTENDS FiniteSets

CONSTANTS Emails, Tokens

VARIABLES
    life,       \* [Tokens -> {"unknown", "mailed", "valid", "spent"}]
    entered     \* addresses whose account can be used

vars == <<life, entered>>

Valid == {t \in Tokens : life[t] = "valid"}

Init ==
    /\ life = [t \in Tokens |-> "unknown"]
    /\ entered = {}

Deliver(t) ==
    /\ life[t] = "unknown"
    /\ life' = [life EXCEPT ![t] = "mailed"]
    /\ UNCHANGED entered

Kept(s) == life'[s] = life[s] \/ (life[s] = "valid" /\ life'[s] = "spent")

\* The new token may take the place of older ones.
Store(t) ==
    /\ life[t] = "mailed" /\ life'[t] = "valid"
    /\ \A s \in Tokens \ {t} : Kept(s)
    /\ UNCHANGED entered

\* The token and perhaps others like it are spent, and an account is entered
\* or left as it was.
Spend(t) ==
    /\ t \in Valid /\ life'[t] = "spent"
    /\ \A s \in Tokens \ {t} : Kept(s)
    /\ entered' = entered \/ \E e \in Emails : entered' = entered \cup {e}

Next == \E t \in Tokens : Deliver(t) \/ Store(t) \/ Spend(t)

Spec == Init /\ [][Next]_vars
=============================================================================
