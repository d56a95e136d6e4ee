-------------------------------- MODULE Base --------------------------------
(***************************************************************************)
(* What every component shares: the identifiers of threat events, and the  *)
(* wall clock every goroutine of the arbiter reads with time.Now().        *)
(* A unit of time stands for whatever the component that uses it           *)
(* distinguishes: the database stores RFC3339 strings and the poll cursor  *)
(* Unix seconds, so two readings in one unit are equal to the code too.    *)
(***************************************************************************)
EXTENDS Integers

CONSTANTS Event,     \* identifiers of threat events, of all sources
          MaxTime    \* bound: the clock stops here

ASSUME BaseAssumption == MaxTime \in Nat

VARIABLE now

Time  == 0..MaxTime
Never == -1                        \* no such row, or no such event
Stamp == Time \cup {Never}

Tick == /\ now < MaxTime
        /\ now' = now + 1
=============================================================================
