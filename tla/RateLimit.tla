------------------------------- MODULE RateLimit -------------------------------
(***************************************************************************)
(* What maxRatePerSec and burst promise of a class: in no stretch of time  *)
(* are more than burst + rate * length messages published live, and none   *)
(* is refused for its rate that could be published without breaking this.  *)
(***************************************************************************)
EXTENDS Integers, Sequences

CONSTANTS Class, Scale, MaxTime

VARIABLES
  cap,         \* the rate and the burst of each capped class
  clock,
  published,   \* for each class, when its live messages were published
  refused      \* for each class, how many were refused for its rate

vars == <<cap, clock, published, refused>>

\* One more at now keeps to the cap in every stretch that ends now.
Due(limit, times, now) ==
  /\ limit.burst >= 1
  /\ \A i \in DOMAIN times :
       (Len(times) - i + 2 - limit.burst) * Scale <= limit.rate * (now - times[i])

Init ==
  /\ DOMAIN cap \subseteq Class
  /\ clock = 0
  /\ published = [c \in Class |-> <<>>]
  /\ refused = [c \in Class |-> 0]

Publish(c) ==
  /\ c \in DOMAIN cap => Due(cap[c], published[c], clock)
  /\ published' = [published EXCEPT ![c] = Append(@, clock)]
  /\ UNCHANGED <<cap, clock, refused>>

Refuse(c) ==
  /\ c \in DOMAIN cap
  /\ ~ Due(cap[c], published[c], clock)
  /\ refused' = [refused EXCEPT ![c] = @ + 1]
  /\ UNCHANGED <<cap, clock, published>>

Tick ==
  /\ clock < MaxTime
  /\ clock' = clock + 1
  /\ UNCHANGED <<cap, published, refused>>

Next == Tick \/ \E c \in Class : Publish(c) \/ Refuse(c)

Spec == Init /\ [][Next]_vars

=============================================================================
