---------------------------- MODULE RateLimiter -----------------------------
(***************************************************************************)
(* The login limiter (internal/api/ratelimit.go): the times of the latest  *)
(* attempts by key, in memory, every access under its mutex. A time is     *)
(* held as its age, up to the window. Old times are dropped when their key *)
(* is used, and by the evictor's timer.                                    *)
(*                                                                         *)
(* The eviction in allow can never happen: the key was stored just before  *)
(* its absence is tested. A key without times is the same as no key.       *)
(***************************************************************************)
EXTENDS Integers, FiniteSets

CONSTANTS Key,       \* "ip:" and "user:" keys
          Limit,     \* key -> maxAttempts (50 and 20)
          Window     \* five minutes, for both callers and for the evictor

ASSUME LimiterAssumption == Limit \in [Key -> Nat] /\ Window \in Nat \ {0}

VARIABLE attempts

\* An attempt is its age and its number among those of that age.
Attempt == [age : 0..Window, nth : Nat \ {0}]

LimiterTypeOK == attempts \in [Key -> SUBSET Attempt]

LimiterInit == attempts = [k \in Key |-> {}]

Recent(S) == {a \in S : a.age < Window}

Record(k, recent) ==
    attempts' = [attempts EXCEPT ![k] =
      recent \cup {[age |-> 0, nth |-> Cardinality({a \in recent : a.age = 0}) + 1]}]

\* Faulty variant: one attempt more is admitted.
AdmitOneMore(k) == /\ Cardinality(Recent(attempts[k])) <= Limit[k]
                   /\ Record(k, Recent(attempts[k]))

\* allow returns true.
Admit(k) == /\ Cardinality(Recent(attempts[k])) < Limit[k]
            /\ Record(k, Recent(attempts[k]))

\* allow returns false. The attempt itself is not counted.
Refuse(k) == /\ Cardinality(Recent(attempts[k])) >= Limit[k]
             /\ attempts' = [attempts EXCEPT ![k] = Recent(@)]

\* reset
Reset(k) == attempts' = [attempts EXCEPT ![k] = {}]

\* newRateLimiter: the map lives and dies with the process.
NewLimiter == attempts' = [k \in Key |-> {}]

\* Faulty variant: the evictor's window is shorter than the callers'.
EvictEarly == attempts' = [k \in Key |-> IF {a \in attempts[k] : a.age + 1 < Window} = {}
                                           THEN {} ELSE attempts[k]]

\* The evictor drops the keys that have no recent time.
Evict == attempts' = [k \in Key |-> IF Recent(attempts[k]) = {} THEN {} ELSE attempts[k]]

\* A unit of time passes.
LimiterTick == attempts' = [k \in Key |->
    {[a EXCEPT !.age = IF @ < Window THEN @ + 1 ELSE @] : a \in attempts[k]}]
=============================================================================
