--------------------------- MODULE MCHttpService ----------------------------
(* Values for model checking HttpService: on one connection a super_admin     *)
(* calls everything in every shape and an operator tries to invite, on the    *)
(* other the super_admin logs in, disables and reactivates. The passwords lie *)
(* on both sides of every limit.                                              *)
EXTENDS HttpService, TLC

CONSTANTS c1, c2, u1, u2

By(u, ops, shapes) ==
    {call \in Calls : call.op \in ops /\ call.user = u /\ call.target = u /\ call.shape \in shapes}

MCIssues ==
    (c1 :> By(u1, Operations, Shapes) \cup By(u2, {"InviteAdmin"}, {"json"}))
    @@ (c2 :> By(u1, {"Login"} \cup Activation, {"json"}))

MCIssued == (u1 :> 0) @@ (u2 :> TTL)

MCPasswords ==
    {[runes |-> n, bytes |-> n] : n \in {14, 15, 64, 65}}
    \cup {[runes |-> 24, bytes |-> b] : b \in {72, 73}}
=============================================================================
