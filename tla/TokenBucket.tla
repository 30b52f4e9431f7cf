------------------------------ MODULE TokenBucket ------------------------------
(***************************************************************************)
(* The token bucket of policy.rs.  Time is counted in Scale-ths of a       *)
(* second and tokens in Scale-ths of a token, so the refill, which the     *)
(* code computes in floating point, is exact here.                         *)
(***************************************************************************)
EXTENDS Integers

CONSTANT Scale
ASSUME ScaleAssumption == Scale \in Nat \ {0}

Never == -1    \* the time of the last refill, before there was one

\* TokenBucket::new: full, and never refilled.
NewBucket(rate, burst) ==
  [rate |-> rate, burst |-> burst, tokens |-> burst * Scale, last |-> Never]

\* Duration since the last refill; none when the clock went backwards.
Elapsed(b, now) == IF b.last = Never \/ now < b.last THEN 0 ELSE now - b.last

Least(m, n) == IF m < n THEN m ELSE n

\* slip: the burst is no limit
RefilledUncapped(b, now) ==
  [rate |-> b.rate, burst |-> b.burst, tokens |-> b.tokens + Elapsed(b, now) * b.rate,
   last |-> now]

\* slip: an attempt that is refused starts the wait again
RefilledWhole(b, now) ==
  [rate |-> b.rate, burst |-> b.burst,
   tokens |-> Least(b.tokens + ((Elapsed(b, now) * b.rate) \div Scale) * Scale, b.burst * Scale),
   last |-> now]

\* TokenBucket::try_take, first part: refill for the time elapsed.
Refilled(b, now) ==
  [rate |-> b.rate, burst |-> b.burst,
   tokens |-> Least(b.tokens + Elapsed(b, now) * b.rate, b.burst * Scale),
   last |-> now]

\* Second part: take a token, if there is one.
HasToken(b, now) == Refilled(b, now).tokens >= Scale
Taken(b, now) ==
  IF HasToken(b, now) THEN [Refilled(b, now) EXCEPT !.tokens = @ - Scale] ELSE Refilled(b, now)

=============================================================================
