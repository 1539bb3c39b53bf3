---------------------------- MODULE MCUserStore ----------------------------
(***************************************************************************)
(* Instances of UserStore for TLC, and what a comment claims.              *)
(***************************************************************************)
EXTENDS UserStore, TLC

CONSTANTS a, b, u1, u2, t1, t2

Symmetry == Permutations(Writers) \cup Permutations(Users) \cup Permutations(Types)

Idle(u) == \A w \in Writers : user[w] # u

\* user_store.go: "DeleteUser removes all data for a user".  Users who are not in
\* the store, and are not being updated, are in no index.
DeletedUsersAreGone ==
  \A u \in Users, t \in Types : Idle(u) /\ breaks = 0 /\ u \notin users => u \notin index[t]
=============================================================================
