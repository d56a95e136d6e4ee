------------------------- MODULE SlidingWindowProofs -------------------------
(***************************************************************************)
(* Proofs about the promise of the login limiter: the admission rule keeps *)
(* every key within its limit, however attempts, successes, restarts and   *)
(* time interleave. A set of ages can only be counted when it is finite,   *)
(* which the invariant therefore carries.                                  *)
(***************************************************************************)
EXTENDS SlidingWindow, TLAPS, FiniteSetTheorems

\* An attempt that counts.
Counted == [age : Nat, nth : Nat \ {0}]

WindowInv ==
    /\ admitted \in [Key -> SUBSET Counted]
    /\ \A k \in Key : IsFiniteSet(admitted[k])
    /\ LimitKept

\* Passing time makes no set of attempts larger.
LEMMA LaterIsSmaller ==
  ASSUME NEW S \in SUBSET Counted, IsFiniteSet(S)
  PROVE  /\ Later(S) \in SUBSET Counted
         /\ IsFiniteSet(Later(S))
         /\ Cardinality(Later(S)) <= Cardinality(S)
  <1> DEFINE kept == {b \in S : b.age + 1 < Window}
             older == [a \in kept |-> [a EXCEPT !.age = @ + 1]]
  <1>1. Later(S) \in SUBSET Counted
    BY DEF Later, Counted
  <1>2. older \in Surjection(kept, Later(S))
    BY DEF Later, Surjection
  <1>3. IsFiniteSet(kept) /\ Cardinality(kept) <= Cardinality(S)
    BY FS_Subset
  <1>4. /\ IsFiniteSet(Later(S))
        /\ Cardinality(Later(S)) <= Cardinality(kept)
    BY <1>2, <1>3, FS_Surjection
  <1>5. Cardinality(Later(S)) \in Nat /\ Cardinality(kept) \in Nat /\ Cardinality(S) \in Nat
    BY <1>3, <1>4, FS_CardinalityType
  <1> QED
    BY <1>1, <1>3, <1>4, <1>5

\* One attempt more is counted once.
LEMMA NewestIsOneMore ==
  ASSUME NEW S \in SUBSET Counted, IsFiniteSet(S)
  PROVE  /\ S \cup {Newest(S)} \in SUBSET Counted
         /\ IsFiniteSet(S \cup {Newest(S)})
         /\ Cardinality(S \cup {Newest(S)}) <= Cardinality(S) + 1
  <1> DEFINE fresh == {a \in S : a.age = 0}
  <1>1. IsFiniteSet(fresh)
    BY FS_Subset
  <1>2. Cardinality(fresh) \in Nat /\ Cardinality(S) \in Nat
    BY <1>1, FS_CardinalityType
  <1>3. Newest(S) \in Counted
    BY <1>2 DEF Newest, Counted
  <1>4. /\ IsFiniteSet(S \cup {Newest(S)})
        /\ \/ Cardinality(S \cup {Newest(S)}) = Cardinality(S)
           \/ Cardinality(S \cup {Newest(S)}) = Cardinality(S) + 1
    BY FS_AddElement
  <1> QED
    BY <1>2, <1>3, <1>4

LEMMA WindowStep ==
  ASSUME Limit \in [Key -> Nat], WindowInv, [WindowNext]_admitted
  PROVE  WindowInv'
  <1>0. \A k \in Key : Cardinality(admitted[k]) \in Nat
    BY FS_CardinalityType DEF WindowInv
  <1>1. ASSUME NEW k \in Key, Admitted(k) PROVE WindowInv'
    <2> DEFINE more == admitted[k] \cup {Newest(admitted[k])}
    <2>1. admitted' = [admitted EXCEPT ![k] = more]
      BY <1>1 DEF Admitted
    <2>2. /\ more \in SUBSET Counted
          /\ IsFiniteSet(more)
          /\ Cardinality(more) <= Cardinality(admitted[k]) + 1
      BY NewestIsOneMore DEF WindowInv
    <2>3. Cardinality(more) \in Nat
      BY <2>2, FS_CardinalityType
    <2>4. Cardinality(more) <= Limit[k]
      BY <1>0, <1>1, <2>2, <2>3 DEF Admitted
    <2> HIDE DEF more
    <2>5. admitted' \in [Key -> SUBSET Counted]
      BY <2>1, <2>2 DEF WindowInv
    <2>6. \A j \in Key : admitted'[j] = IF j = k THEN more ELSE admitted[j]
      BY <2>1 DEF WindowInv
    <2> QED
      BY <2>2, <2>4, <2>5, <2>6 DEF WindowInv, LimitKept
  <1>2. ASSUME NEW k \in Key, Forgiven(k) PROVE WindowInv'
    BY <1>0, <1>2, FS_EmptySet DEF Forgiven, WindowInv, LimitKept
  <1>3. ASSUME Passes PROVE WindowInv'
    <2>1. \A k \in Key : /\ Later(admitted[k]) \in SUBSET Counted
                         /\ IsFiniteSet(Later(admitted[k]))
                         /\ Cardinality(Later(admitted[k])) <= Cardinality(admitted[k])
      BY LaterIsSmaller DEF WindowInv
    <2>2. \A k \in Key : Cardinality(Later(admitted[k])) \in Nat
      BY <2>1, FS_CardinalityType
    <2>3. \A k \in Key : Cardinality(Later(admitted[k])) <= Limit[k]
      BY <1>0, <2>1, <2>2 DEF WindowInv, LimitKept
    <2> QED
      BY <1>3, <2>1, <2>3 DEF WindowInv, LimitKept, Passes
  <1>4. CASE Forgotten
    BY <1>4, FS_EmptySet DEF Forgotten, WindowInv, LimitKept
  <1>5. CASE UNCHANGED admitted
    BY <1>5 DEF WindowInv, LimitKept
  <1> QED
    BY <1>1, <1>2, <1>3, <1>4, <1>5 DEF WindowNext, Refused

\* No key ever has more attempts that count than its limit: what allow promises of the
\* addresses and the names, for every limit and window.
THEOREM LimitIsKept ==
  ASSUME Limit \in [Key -> Nat]
  PROVE  WindowSpec => []LimitKept
  <1>1. WindowInit => WindowInv
    BY FS_EmptySet DEF WindowInit, WindowInv, LimitKept
  <1>2. WindowInv /\ [WindowNext]_admitted => WindowInv'
    BY WindowStep
  <1>3. WindowInv => LimitKept
    BY DEF WindowInv
  <1> QED
    BY <1>1, <1>2, <1>3, PTL DEF WindowSpec
=============================================================================
