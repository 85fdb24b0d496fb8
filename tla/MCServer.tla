------------------------------ MODULE MCServer ------------------------------
(* Values for model checking Server: two super_admins, two tokens, and three  *)
(* requests on two connections: the disabling of one super_admin, that of the *)
(* other or a password reset, and a rotation, a family revocation or a mail.  *)
EXTENDS Server, TLC

CONSTANTS r1, r2, r3, u1, u2, t1, t2

MCAdmins == <<u1, u2>>
MCTokensOf == (u1 :> {t1, t2}) @@ (u2 :> {})
By(ops, u) == [op : ops, user : {u}]

MCJobs ==
    (r1 :> By({"disable_super"}, u1))
    @@ (r2 :> By({"disable_super"}, u2) \cup By({"confirm"}, u1))
    @@ (r3 :> By({"rotate", "revoke_family", "issue"}, u1))
=============================================================================
