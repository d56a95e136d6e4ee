---------------------------- MODULE SlidingWindow ----------------------------
(***************************************************************************)
(* What the login limiter promises, whatever it stores: of the attempts    *)
(* that were made with a key since a login with it last succeeded, no more *)
(* than its limit were admitted within any Window units of time, as long   *)
(* as the process runs.                                                    *)
(* admitted holds those that still count; an attempt is its age and its    *)
(* number among those of that age.                                         *)
(***************************************************************************)
EXTENDS Integers, FiniteSets

CONSTANTS Key,       \* what attempts are counted by
          Limit,     \* key -> the attempts a window admits
          Window     \* length of the window

VARIABLES admitted,
          verified,  \* input: the keys of the logins that have just succeeded
          running    \* input: the process runs

Newest(S) == [age |-> 0, nth |-> Cardinality({a \in S : a.age = 0}) + 1]

\* The attempts of S that still count when a unit of time has passed.
Later(S) == {[a EXCEPT !.age = @ + 1] : a \in {b \in S : b.age + 1 < Window}}

WindowInit == admitted = [k \in Key |-> {}]

Admitted(k) == /\ Cardinality(admitted[k]) < Limit[k]
               /\ admitted' = [admitted EXCEPT ![k] = @ \cup {Newest(@)}]

\* An attempt that is refused does not count.
Refused == UNCHANGED admitted

\* A login with the key has just succeeded.
Forgiven(k) == /\ k \in verified
               /\ admitted' = [admitted EXCEPT ![k] = {}]

\* The process ends.
Forgotten == /\ running /\ ~running'
             /\ admitted' = [k \in Key |-> {}]

Passes == admitted' = [k \in Key |-> Later(admitted[k])]

WindowNext == \/ Refused
              \/ \E k \in Key : Admitted(k) \/ Forgiven(k)
              \/ Forgotten
              \/ Passes

WindowSpec == WindowInit /\ [][WindowNext]_admitted

\* No more attempts than its limit count for a key.
LimitKept == \A k \in Key : Cardinality(admitted[k]) <= Limit[k]
=============================================================================
