----------------------------- MODULE MCAccounts -----------------------------
(* Accounts on a small instance: two users, two requests under way. *)
EXTENDS Accounts, TLC

CONSTANTS root, ann, ip, p1, p2, r1, r2

MCUser  == {root, ann}
MCKey   == {root, ann, ip}
MCLimit == (root :> 1) @@ (ann :> 0) @@ (ip :> 2)
MCPassword == {p1, p2}
MCRequest == {r1, r2}

\* Attempts age while only root has an account and nobody a session: what the limiter
\* shares with the tables is no more than which logins are under way.
Slices == \/ \A k \in Key : \A a \in attempts[k] : a.age = 0
          \/ users[ann] = NoUser /\ \A t \in Token : sessions[t].state = "none"

Symmetry == Permutations(MCRequest) \cup Permutations(MCPassword)
=============================================================================
