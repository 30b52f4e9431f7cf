------------------------------ MODULE UplinkRate ------------------------------
(***************************************************************************)
(* The uplink policy over time: UplinkPolicy::from_config and ::admit with *)
(* a token bucket for each capped class, as relay_up drives them.  Two     *)
(* pumps share the bucket of a class, one for each scope; the mutex makes  *)
(* one admission one step.                                                 *)
(***************************************************************************)
EXTENDS UplinkPolicy, TokenBucket, BridgeConfig, FiniteSets

CONSTANTS
  Uplinks,      \* the uplink blocks a run may start with
  MaxU32,       \* the largest rate and burst
  MaxTime,      \* bound on the clock
  MaxOffers     \* bound on the messages

ASSUME UplinksAssumption == \A u \in Uplinks : \A c \in DOMAIN u : u[c] \in ClassPolicy
ASSUME BoundsAssumption == MaxU32 \in Nat /\ MaxTime \in Nat /\ MaxOffers \in Nat

\* UplinkPolicy's classes and the one that is opt-in.
Governed == Class \cup {"app"}

VARIABLES
  uplink,       \* the configuration's uplink block
  policy,       \* what from_config made of it: enabled, capped, evtMax
  bucket,       \* the bucket of each capped class
  buffered,     \* the length of evt_buffer
  flying,       \* how many evt are in relay_up's publish, one for each pump at most
  replaying,    \* an evt is in replay_buffered_evt's publish
  link,         \* site.connected()
  clock,        \* Instant::now(), in Scale-ths of a second
  offered,      \* history: how many messages came
  published,    \* history: when the live ones were admitted
  refused       \* history: the counter dropped_rate

vars == <<uplink, policy, bucket, buffered, flying, replaying, link, clock, offered,
          published, refused>>

-----------------------------------------------------------------------------

\* slip: a class is on unless it is off, whichever it is
EnabledByDefault(u, c) == OrElse(Knob(u, c, "enabled"), TRUE)

\* from_config: a class is on unless it is off; app is off unless it is on.
Enabled(u, c) == OrElse(Knob(u, c, "enabled"), c /= "app")

\* from_config: a class is capped when it has a rate; the burst is twice the
\* rate, and saturates.
Capped(u) == {c \in Governed : Knob(u, c, "maxRatePerSec") /= Absent}
BurstOf(u, c) ==
  LET twice == 2 * Knob(u, c, "maxRatePerSec")
  IN  OrElse(Knob(u, c, "burst"), IF twice > MaxU32 THEN MaxU32 ELSE twice)

PolicyOf(u) ==
  [enabled |-> {c \in Governed : Enabled(u, c)},
   capped  |-> Capped(u),
   evtMax  |-> BufferBound(Knob(u, "evt", "bufferWhileDisconnected"))]

BucketsOf(u) ==
  [c \in Capped(u) |-> NewBucket(Knob(u, c, "maxRatePerSec"), BurstOf(u, c))]

Init ==
  /\ uplink \in Uplinks
  /\ policy = PolicyOf(uplink)
  /\ bucket = BucketsOf(uplink)
  /\ buffered = 0 /\ flying = 0 /\ replaying = FALSE
  /\ link \in BOOLEAN
  /\ clock = 0
  /\ offered = 0
  /\ published = [c \in Governed |-> <<>>]
  /\ refused = [c \in Governed |-> 0]

\* slip: the clock is read before the mutex is taken
ReadingsEarly == {t \in {clock - 1, clock} : t >= 0}

\* relay_up: the clock is read while the policy is locked.
Readings == {clock}

\* What admit() makes of a message that has a token, or has none.
VerdictOn(c, hasToken) ==
  Admit(c, link, [i \in 1 .. buffered |-> c], hasToken, policy)

\* Only a message that is up for a live publish gets to the bucket.
ReachesBucket(c) == c \in policy.capped /\ VerdictOn(c, FALSE) = "DropRateCapped"
Verdict(c, now) == VerdictOn(c, ReachesBucket(c) /\ HasToken(bucket[c], now))

\* slip: every message of a capped class takes a token
MeterAlways(c, now) ==
  bucket' = IF c \in policy.capped THEN [bucket EXCEPT ![c] = Taken(@, now)] ELSE bucket

Meter(c, now) ==
  bucket' = IF ReachesBucket(c) THEN [bucket EXCEPT ![c] = Taken(@, now)] ELSE bucket

\* push_evt: the buffer drops its oldest when it is full.
BufferedAfterPush == IF buffered >= policy.evtMax THEN policy.evtMax ELSE buffered + 1

\* relay_up, up to the publish: a message of class c that the engine forwards.
Offer(c, now) ==
  LET verdict == Verdict(c, now)
  IN  /\ offered < MaxOffers
      /\ c = "app" => AppEnabled(uplink)
      /\ c = "evt" => flying < 2
      /\ offered' = offered + 1
      /\ Meter(c, now)
      /\ published' =
           IF verdict = "Forward" THEN [published EXCEPT ![c] = Append(@, clock)] ELSE published
      /\ refused' =
           IF verdict = "DropRateCapped" THEN [refused EXCEPT ![c] = @ + 1] ELSE refused
      /\ flying' = IF c = "evt" /\ verdict = "Forward" THEN flying + 1 ELSE flying
      /\ buffered' = IF verdict = "Buffer" THEN BufferedAfterPush ELSE buffered
      /\ UNCHANGED <<uplink, policy, replaying, link, clock>>

\* relay_up, behind the publish of an evt: pushed when it failed.
Published(fails) ==
  /\ flying > 0
  /\ flying' = flying - 1
  /\ buffered' = IF fails THEN BufferedAfterPush ELSE buffered
  /\ UNCHANGED <<uplink, policy, bucket, replaying, link, clock, offered, published, refused>>

\* replay_buffered_evt: past the bucket; back to the buffer when it failed, if
\* there is room.
Replay ==
  /\ link /\ buffered > 0 /\ ~ replaying
  /\ replaying' = TRUE
  /\ buffered' = buffered - 1
  /\ UNCHANGED <<uplink, policy, bucket, flying, link, clock, offered, published, refused>>

Replayed(fails) ==
  /\ replaying
  /\ replaying' = FALSE
  /\ buffered' = IF fails /\ buffered < policy.evtMax THEN buffered + 1 ELSE buffered
  /\ UNCHANGED <<uplink, policy, bucket, flying, link, clock, offered, published, refused>>

LinkTurns ==
  /\ link' = ~ link
  /\ UNCHANGED <<uplink, policy, bucket, buffered, flying, replaying, clock, offered,
                 published, refused>>

Tick ==
  /\ clock < MaxTime
  /\ clock' = clock + 1
  /\ UNCHANGED <<uplink, policy, bucket, buffered, flying, replaying, link, offered,
                 published, refused>>

Next ==
  \/ \E c \in Governed, now \in Readings : Offer(c, now)
  \/ \E fails \in BOOLEAN : Published(fails) \/ Replayed(fails)
  \/ Replay \/ LinkTurns \/ Tick

Spec == Init /\ [][Next]_vars

-----------------------------------------------------------------------------
(* Properties                                                              *)

\* Every variable has its type; no bucket holds more than its burst, or less
\* than nothing, and the buffer keeps to its bound.
TypeOK ==
  /\ uplink \in Uplinks
  /\ policy \in [enabled : SUBSET Governed, capped : SUBSET Governed, evtMax : Nat]
  /\ DOMAIN bucket = policy.capped
  /\ \A c \in policy.capped :
       /\ bucket[c].tokens \in 0 .. bucket[c].burst * Scale
       /\ bucket[c].last \in {Never} \cup 0 .. clock
  /\ buffered \in 0 .. policy.evtMax /\ flying \in 0 .. 2 /\ replaying \in BOOLEAN
  /\ link \in BOOLEAN
  /\ clock \in 0 .. MaxTime
  /\ offered \in 0 .. MaxOffers
  /\ \A c \in Governed :
       /\ Len(published[c]) + refused[c] <= offered
       /\ \A i \in DOMAIN published[c] : published[c][i] \in 0 .. clock

\* The engine and the policy read "app" in the same block, each with its own
\* default: what is subscribed is relayed, and only that.
AppIsAgreed == AppEnabled(uplink) <=> "app" \in policy.enabled

\* The buckets give each capped class what its configuration promises: never
\* more than burst + rate * length in any stretch of live publishes, and never
\* a refusal that this does not call for, whatever the link, the buffer and
\* the failures of the other classes do in between.
Cap == [c \in policy.capped |->
          [rate |-> Knob(uplink, c, "maxRatePerSec"), burst |-> BurstOf(uplink, c)]]
Limit == INSTANCE RateLimit WITH Class <- Governed, cap <- Cap
LimitSpec == Limit!Spec

=============================================================================
