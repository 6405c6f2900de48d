------------------------------- MODULE Backoff -------------------------------
(***************************************************************************)
(* compute_backoff() (gateway/src/connection_supervisor.cpp), in signed    *)
(* arithmetic of a given width.                                            *)
(***************************************************************************)
EXTENDS Integers

CONSTANTS
    DelayRange,         \* 2^63 for the code's std::chrono::milliseconds
    MaxExponent         \* 62

ASSUME BackoffAssumption == DelayRange \in Nat /\ MaxExponent \in Nat

Least(a, b) == IF a < b THEN a ELSE b

\* What `delay *= 2` can leave: anything, if it overflows.
Doubled(d) ==
    LET range == (-DelayRange)..(DelayRange - 1)
    IN  IF 2 * d \in range THEN {2 * d} ELSE range

\* Mutant of Exponent: the delay is doubled for the first attempt, too.
ExponentFromFirst(attempts) == Least(attempts, MaxExponent)

Exponent(attempts) == IF attempts <= 1 THEN 0 ELSE Least(attempts - 1, MaxExponent)

\* The delays that compute_backoff() can return.
compute_backoff(initial, max, attempts) ==
    LET delay[i \in Nat] ==
            IF i = 0 THEN {Least(initial, max)}
            ELSE UNION {IF d >= max THEN {max} ELSE Doubled(d) : d \in delay[i - 1]}
    IN  {Least(d, max) : d \in delay[Exponent(attempts)]}
=============================================================================
