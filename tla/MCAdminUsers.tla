---------------------------- MODULE MCAdminUsers ----------------------------
(* Bodies for TLC: an update changes the role or the activity, a created   *)
(* user is an active super admin.  Combinations of both only repeat these. *)
EXTENDS AdminUsers, TLC

MCDtos ==
    {d \in Updates : (d.role = "keep") # (d.activity = "keep")}
        \cup Deletes
        \cup {d \in Creates : d.super /\ d.active}

Symmetry == Permutations(Users) \cup Permutations(Requests) \cup Permutations(Logins)
=============================================================================
