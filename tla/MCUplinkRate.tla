----------------------------- MODULE MCUplinkRate -----------------------------
EXTENDS UplinkRate, TLC

P(enabled, rate, burst, buffer) ==
  [enabled |-> enabled, maxRatePerSec |-> rate, burst |-> burst,
   bufferWhileDisconnected |-> buffer]

B(enabled, max) == [enabled |-> enabled, maxMessages |-> max]

\* One per second, at least; bursts of one, two, twice the rate, more than
\* fits, and none; caps on evt with and without the buffer.
Blocks ==
  {"data" :> P(Absent, 1, Absent, Absent),
   "data" :> P(TRUE, 3, 1, Absent) @@ "app" :> P(TRUE, 0, 1, Absent),
   "data" :> P(Absent, 2, 0, Absent) @@ "app" :> P(Absent, 1, 1, Absent),
   "evt" :> P(Absent, 1, 2, Absent),
   "evt" :> P(TRUE, 2, Absent, B(FALSE, Absent)) @@ "data" :> P(FALSE, 1, 1, B(TRUE, 1)),
   "evt" :> P(Absent, Absent, Absent, B(Absent, 0)) @@ "app" :> P(FALSE, Absent, Absent, Absent)}

=============================================================================
