--------------------------- MODULE UplinkRateProofs ---------------------------
(***************************************************************************)
(* The token buckets implement the rate limit, for every scale of time,    *)
(* every rate and burst and every history of the link, the buffer and the  *)
(* publishes.                                                              *)
(***************************************************************************)
EXTENDS UplinkRate, SequenceTheorems, TLAPS

-----------------------------------------------------------------------------
(* One bucket and the times of its live publishes                          *)

Bucket == [rate : Nat, burst : Nat, tokens : Nat, last : Int]

\* What the limit leaves at a time, with count publishes since t, the one at t
\* included; and the same looking back to the i-th publish.
Room(rate, burst, count, t, at) == (burst - count) * Scale + rate * (at - t)
Left(b, times, i, at) == Room(b.rate, b.burst, Len(times) - i + 1, times[i], at)

\* The bucket holds the least of what is left over all publishes, and of the
\* burst: less would refuse what is due, more would admit what is not.
Holds(b, times) ==
  /\ b \in Bucket
  /\ b.tokens <= b.burst * Scale
  /\ times \in Seq(Nat)
  /\ b.last = Never => times = <<>>
  /\ b.last /= Never => b.last >= 0
  /\ \A i \in DOMAIN times : times[i] <= b.last /\ b.tokens <= Left(b, times, i, b.last)
  /\ \/ b.tokens = b.burst * Scale
     \/ \E i \in DOMAIN times : b.tokens = Left(b, times, i, b.last)

LEMMA RoomFacts ==
  ASSUME NEW rate \in Int, NEW burst \in Int, NEW count \in Int, NEW t \in Int,
         NEW at \in Int, NEW later \in Int
  PROVE  /\ Room(rate, burst, count, t, at) \in Int
         /\ Room(rate, burst, count, t, later)
              = Room(rate, burst, count, t, at) + (later - at) * rate
         /\ Room(rate, burst, count + 1, t, at) = Room(rate, burst, count, t, at) - Scale
         /\ (count + 1 - burst) * Scale <= rate * (at - t)
              <=> Scale <= Room(rate, burst, count, t, at)
         /\ Room(rate, burst, 1, at, at) = burst * Scale - Scale
  BY ScaleAssumption, SMTT(30) DEF Room

LEMMA AtMostTimes ==
  \A a, s \in Int : s >= 1 => (s <= a * s <=> a >= 1)
<1> SUFFICES ASSUME NEW a \in Int, NEW s \in Int, s >= 1
             PROVE  s <= a * s <=> a >= 1
  OBVIOUS
<1>1. CASE a >= 1
  <2>1. (a - 1) * s >= 0
    BY <1>1, SMT
  <2> QED  BY <2>1, <1>1, SMT
<1>2. CASE a <= 0
  <2>1. a * s <= 0
    BY <1>2, SMT
  <2> QED  BY <2>1, <1>2, SMT
<1> QED  BY <1>1, <1>2, SMT

LEMMA TimesFacts ==
  ASSUME NEW times \in Seq(Nat), NEW i \in DOMAIN times
  PROVE  /\ i \in Int /\ times[i] \in Nat /\ times[i] \in Int /\ Len(times) \in Int
         /\ Len(times) - i + 1 \in Int
         /\ (Len(times) - i + 1) + 1 - 0 = Len(times) - i + 2
  OBVIOUS

\* What is left looking back to a publish is an integer, and grows by the rate.
LEMMA LeftGrows ==
  ASSUME NEW b, NEW times, NEW i, NEW at \in Int, NEW later \in Int,
         b \in Bucket, times \in Seq(Nat), i \in DOMAIN times
  PROVE  /\ Left(b, times, i, at) \in Int
         /\ Left(b, times, i, later) = Left(b, times, i, at) + (later - at) * b.rate
<1>1. /\ b.rate \in Int /\ b.burst \in Int /\ times[i] \in Int
      /\ Len(times) - i + 1 \in Int
  BY DEF Bucket
<1> QED  BY <1>1, RoomFacts DEF Left

-----------------------------------------------------------------------------
(* What try_take sees                                                      *)

Grown(b, now) == b.tokens + Elapsed(b, now) * b.rate

LEMMA RefilledFields ==
  ASSUME NEW b, NEW times, NEW now \in Nat, Holds(b, times), b.last <= now
  PROVE  /\ Elapsed(b, now) \in Nat /\ Grown(b, now) \in Nat /\ b.burst * Scale \in Nat
         /\ Refilled(b, now) \in Bucket
         /\ Refilled(b, now).rate = b.rate /\ Refilled(b, now).burst = b.burst
         /\ Refilled(b, now).last = now
         /\ Refilled(b, now).tokens =
              Least(Grown(b, now), b.burst * Scale)
<1>1. /\ b \in Bucket /\ b.rate \in Nat /\ b.burst \in Nat /\ b.tokens \in Nat /\ b.last \in Int
      /\ Scale \in Nat
  BY ScaleAssumption DEF Holds, Bucket
<1>2. Elapsed(b, now) \in Nat
  BY <1>1 DEF Elapsed
<1>3. Elapsed(b, now) * b.rate \in Nat /\ b.burst * Scale \in Nat
  BY <1>1, <1>2, SMT
<1>4. Grown(b, now) \in Nat
  BY <1>1, <1>3 DEF Grown
<1> QED  BY <1>1, <1>2, <1>3, <1>4 DEF Refilled, Bucket, Grown, Least

\* The refill keeps the bucket at the least of what is left.
LEMMA RefilledHolds ==
  ASSUME NEW b, NEW times, NEW now \in Nat, Holds(b, times), b.last <= now
  PROVE  Holds(Refilled(b, now), times)
<1> DEFINE r == Refilled(b, now)
<1>1. /\ b \in Bucket /\ times \in Seq(Nat) /\ b.last \in Int /\ b.tokens \in Nat
      /\ b.rate \in Nat /\ Scale \in Nat /\ b.burst \in Nat
  BY ScaleAssumption DEF Holds, Bucket
<1>2. /\ r \in Bucket /\ r.rate = b.rate /\ r.burst = b.burst /\ r.last = now
      /\ r.tokens = Least(Grown(b, now), b.burst * Scale)
      /\ Grown(b, now) \in Nat /\ b.burst * Scale \in Nat /\ Elapsed(b, now) \in Nat
  BY RefilledFields
<1> HIDE DEF r
<1>3. ASSUME NEW i \in DOMAIN times
      PROVE  /\ Left(r, times, i, now) = Left(b, times, i, b.last) + Elapsed(b, now) * b.rate
             /\ Left(b, times, i, b.last) \in Int
             /\ times[i] <= now
  <2>1. times /= <<>>
    BY <1>1, <1>3
  <2>2. b.last /= Never
    BY <2>1 DEF Holds
  <2>3. Elapsed(b, now) = now - b.last
    BY <2>2, <1>1 DEF Elapsed
  <2>4. /\ Left(b, times, i, now) = Left(b, times, i, b.last) + (now - b.last) * b.rate
        /\ Left(b, times, i, b.last) \in Int
    BY <1>1, LeftGrows
  <2>5. Left(r, times, i, now) = Left(b, times, i, now)
    BY <1>2 DEF Left
  <2>6. times[i] <= b.last /\ times[i] \in Nat
    BY <1>1, <1>3 DEF Holds
  <2> QED  BY <2>3, <2>4, <2>5, <2>6, <1>1
<1>4. Elapsed(b, now) * b.rate \in Nat
  BY <1>1, <1>2, SMT
<1>5. \A i \in DOMAIN times : times[i] <= r.last /\ r.tokens <= Left(r, times, i, r.last)
  <2> TAKE i \in DOMAIN times
  <2>1. b.tokens <= Left(b, times, i, b.last)
    BY DEF Holds
  <2>2. r.tokens <= Grown(b, now)
    BY <1>2 DEF Least
  <2>3. r.tokens \in Int
    BY <1>2 DEF Bucket
  <2>4. Grown(b, now) <= Left(r, times, i, now)
    <3>1. Grown(b, now) = b.tokens + Elapsed(b, now) * b.rate
      BY DEF Grown
    <3>2. /\ Left(r, times, i, now) = Left(b, times, i, b.last) + Elapsed(b, now) * b.rate
          /\ Left(b, times, i, b.last) \in Int
      BY <1>3
    <3>3. b.tokens \in Int /\ Elapsed(b, now) * b.rate \in Int
      BY <1>1, <1>4
    <3> QED  BY <3>1, <3>2, <3>3, <2>1
  <2>5. r.last = now /\ times[i] <= now /\ Grown(b, now) \in Int
    BY <1>2, <1>3
  <2>6. Left(r, times, i, now) \in Int
    BY <1>3, <1>4
  <2> QED  BY <2>2, <2>3, <2>4, <2>5, <2>6
<1>6. \/ r.tokens = r.burst * Scale
      \/ \E i \in DOMAIN times : r.tokens = Left(r, times, i, r.last)
  <2>1. CASE b.tokens = b.burst * Scale
    BY <2>1, <1>1, <1>2, <1>4 DEF Grown, Least
  <2>2. CASE \E i \in DOMAIN times : b.tokens = Left(b, times, i, b.last)
    <3>1. PICK i \in DOMAIN times : b.tokens = Left(b, times, i, b.last)
      BY <2>2
    <3>2. Grown(b, now) = Left(r, times, i, now)
      BY <3>1, <1>3 DEF Grown
    <3> QED  BY <3>2, <1>2 DEF Least
  <2> QED  BY <2>1, <2>2 DEF Holds
<1>7. r.tokens <= r.burst * Scale /\ r.last /= Never /\ r.last >= 0
  BY <1>2 DEF Never, Least
<1> QED  BY <1>1, <1>2, <1>5, <1>6, <1>7 DEF Holds, r

\* A bucket has a token exactly when the limit has room for one more.
LEMMA TokenIsDue ==
  ASSUME NEW b, NEW times, NEW now \in Nat, Holds(b, times), b.last <= now
  PROVE  HasToken(b, now) <=> Limit!Due(b, times, now)
<1> DEFINE r == Refilled(b, now)
<1>1. Holds(r, times) /\ r.rate = b.rate /\ r.burst = b.burst /\ r.last = now
  BY RefilledHolds, RefilledFields
<1>2. /\ r \in Bucket /\ times \in Seq(Nat) /\ r.tokens \in Nat /\ Scale \in Nat /\ Scale >= 1
      /\ r.burst \in Nat /\ r.rate \in Nat
  BY <1>1, ScaleAssumption DEF Holds, Bucket
<1> HIDE DEF r
<1>3. ASSUME NEW i \in DOMAIN times
      PROVE  /\ Left(r, times, i, now) \in Int
             /\ (Len(times) - i + 2 - b.burst) * Scale <= b.rate * (now - times[i])
                  <=> Scale <= Left(r, times, i, now)
  <2>1. /\ Len(times) - i + 1 \in Int /\ times[i] \in Int /\ Len(times) \in Int /\ i \in Int
    BY <1>2, TimesFacts
  <2>2. b.burst \in Int /\ b.rate \in Int /\ now \in Int
    BY <1>1, <1>2
  <2>3. (Len(times) - i + 1) + 1 - b.burst = Len(times) - i + 2 - b.burst
    BY <2>1, <2>2
  <2>4. Left(r, times, i, now) = Room(b.rate, b.burst, Len(times) - i + 1, times[i], now)
    BY <1>1 DEF Left
  <2>5. /\ Room(b.rate, b.burst, Len(times) - i + 1, times[i], now) \in Int
        /\ ((Len(times) - i + 1) + 1 - b.burst) * Scale <= b.rate * (now - times[i])
             <=> Scale <= Room(b.rate, b.burst, Len(times) - i + 1, times[i], now)
    BY <2>1, <2>2, RoomFacts
  <2> QED  BY <2>3, <2>4, <2>5
<1>4. r.burst * Scale \in Nat /\ (Scale <= r.burst * Scale <=> b.burst >= 1)
  <2>1. r.burst * Scale \in Nat
    BY <1>2, SMT
  <2> QED  BY <2>1, <1>1, <1>2, AtMostTimes
<1>5. Limit!Due(b, times, now) <=>
        /\ Scale <= r.burst * Scale
        /\ \A i \in DOMAIN times : Scale <= Left(r, times, i, now)
  BY <1>3, <1>4 DEF Limit!Due
<1>6. HasToken(b, now) <=> r.tokens >= Scale
  BY DEF HasToken, r
<1>7. ASSUME r.tokens >= Scale
      PROVE  Limit!Due(b, times, now)
  <2>1. Scale <= r.burst * Scale
    <3>1. r.tokens <= r.burst * Scale
      BY <1>1 DEF Holds
    <3> QED  BY <3>1, <1>7, <1>2, <1>4
  <2>2. ASSUME NEW i \in DOMAIN times
        PROVE  Scale <= Left(r, times, i, now)
    <3>1. r.tokens <= Left(r, times, i, now)
      BY <1>1 DEF Holds
    <3>2. Left(r, times, i, now) \in Int
      BY <1>3
    <3> QED  BY <3>1, <3>2, <1>7, <1>2
  <2> QED  BY <2>1, <2>2, <1>5
<1>8. ASSUME Limit!Due(b, times, now)
      PROVE  r.tokens >= Scale
  <2>1. CASE r.tokens = r.burst * Scale
    BY <2>1, <1>5, <1>8, <1>2
  <2>2. CASE \E i \in DOMAIN times : r.tokens = Left(r, times, i, r.last)
    BY <2>2, <1>1, <1>5, <1>8, <1>2
  <2> QED  BY <2>1, <2>2, <1>1 DEF Holds
<1> QED  BY <1>6, <1>7, <1>8

\* A refusal leaves the bucket as the refill made it.
LEMMA RefusalHolds ==
  ASSUME NEW b, NEW times, NEW now \in Nat, Holds(b, times), b.last <= now,
         ~ HasToken(b, now)
  PROVE  /\ Holds(Taken(b, now), times)
         /\ Taken(b, now).rate = b.rate /\ Taken(b, now).burst = b.burst
         /\ Taken(b, now).last = now
  BY RefilledHolds, RefilledFields DEF Taken

\* A publish takes a token off every bound, and sets one of its own.
LEMMA PublishHolds ==
  ASSUME NEW b, NEW times, NEW now \in Nat, Holds(b, times), b.last <= now,
         HasToken(b, now)
  PROVE  /\ Holds(Taken(b, now), Append(times, now))
         /\ Taken(b, now).rate = b.rate /\ Taken(b, now).burst = b.burst
         /\ Taken(b, now).last = now
<1> DEFINE r == Refilled(b, now)
           s == Taken(b, now)
           longer == Append(times, now)
<1>1. Holds(r, times) /\ r.rate = b.rate /\ r.burst = b.burst /\ r.last = now
  BY RefilledHolds, RefilledFields
<1>2. /\ r \in Bucket /\ times \in Seq(Nat) /\ r.tokens \in Nat /\ Scale \in Nat /\ Scale >= 1
      /\ r.burst \in Nat /\ r.rate \in Nat
  BY <1>1, ScaleAssumption DEF Holds, Bucket
<1>3. r.tokens >= Scale
  BY DEF HasToken
<1>4. /\ s \in Bucket /\ s.rate = r.rate /\ s.burst = r.burst /\ s.last = now
      /\ s.tokens = r.tokens - Scale
  BY <1>1, <1>2, <1>3 DEF Taken, Bucket
<1> HIDE DEF r, s
<1>5. /\ longer \in Seq(Nat) /\ Len(longer) = Len(times) + 1
      /\ DOMAIN longer = DOMAIN times \cup {Len(times) + 1}
      /\ \A i \in DOMAIN times : longer[i] = times[i]
      /\ longer[Len(times) + 1] = now
  BY <1>2
<1> HIDE DEF longer
<1>6. ASSUME NEW i \in DOMAIN times
      PROVE  /\ Left(r, times, i, now) \in Int
             /\ Left(s, longer, i, now) = Left(r, times, i, now) - Scale
  <2>1. /\ Len(times) - i + 1 \in Int /\ times[i] \in Int /\ Len(times) \in Int /\ i \in Int
    BY <1>2, TimesFacts
  <2>2. r.burst \in Int /\ r.rate \in Int /\ now \in Int
    BY <1>2
  <2>3. Len(longer) - i + 1 = (Len(times) - i + 1) + 1
    BY <2>1, <1>5
  <2>4. Left(s, longer, i, now)
          = Room(r.rate, r.burst, (Len(times) - i + 1) + 1, times[i], now)
    BY <2>3, <1>4, <1>5 DEF Left
  <2>5. Left(r, times, i, now) = Room(r.rate, r.burst, Len(times) - i + 1, times[i], now)
    BY <1>1 DEF Left
  <2>6. /\ Room(r.rate, r.burst, Len(times) - i + 1, times[i], now) \in Int
        /\ Room(r.rate, r.burst, (Len(times) - i + 1) + 1, times[i], now)
             = Room(r.rate, r.burst, Len(times) - i + 1, times[i], now) - Scale
    BY <2>1, <2>2, RoomFacts
  <2> QED  BY <2>4, <2>5, <2>6
<1>7. Left(s, longer, Len(times) + 1, now) = r.burst * Scale - Scale /\ r.burst * Scale \in Nat
  <2>1. Len(longer) - (Len(times) + 1) + 1 = 1
    BY <1>2, <1>5
  <2>2. r.burst \in Int /\ r.rate \in Int /\ r.burst * Scale \in Nat
    BY <1>2, SMT
  <2>3. Left(s, longer, Len(times) + 1, now) = Room(r.rate, r.burst, 1, now, now)
    BY <2>1, <1>4, <1>5 DEF Left
  <2> QED  BY <2>2, <2>3, RoomFacts
<1>8. \A i \in DOMAIN longer : longer[i] <= s.last /\ s.tokens <= Left(s, longer, i, s.last)
  <2> TAKE i \in DOMAIN longer
  <2>1. CASE i \in DOMAIN times
    <3>1. longer[i] = times[i] /\ s.last = now /\ s.tokens = r.tokens - Scale
      BY <2>1, <1>4, <1>5
    <3>2. times[i] <= now /\ r.tokens <= Left(r, times, i, now)
      BY <2>1, <1>1 DEF Holds
    <3>3. /\ Left(s, longer, i, now) = Left(r, times, i, now) - Scale
          /\ Left(r, times, i, now) \in Int
      BY <2>1, <1>6
    <3>4. r.tokens - Scale <= Left(r, times, i, now) - Scale
      BY <3>2, <3>3, <1>2
    <3> QED  BY <3>1, <3>2, <3>3, <3>4
  <2>2. CASE i = Len(times) + 1
    <3>1. r.tokens <= r.burst * Scale
      BY <1>1 DEF Holds
    <3>2. longer[i] = now /\ s.last = now
      BY <2>2, <1>4, <1>5
    <3>3. r.tokens - Scale <= r.burst * Scale - Scale
      BY <3>1, <1>2, <1>7
    <3> QED  BY <3>2, <3>3, <2>2, <1>4, <1>7
  <2> QED  BY <2>1, <2>2, <1>5
<1>9. \E i \in DOMAIN longer : s.tokens = Left(s, longer, i, s.last)
  <2>1. CASE r.tokens = r.burst * Scale
    BY <2>1, <1>4, <1>5, <1>7
  <2>2. CASE \E i \in DOMAIN times : r.tokens = Left(r, times, i, r.last)
    BY <2>2, <1>1, <1>4, <1>5, <1>6
  <2> QED  BY <2>1, <2>2, <1>1 DEF Holds
<1>10. s.tokens <= s.burst * Scale /\ s.last /= Never /\ s.last >= 0
  BY <1>1, <1>2, <1>4, <1>7 DEF Holds, Never
<1> QED  BY <1>1, <1>4, <1>5, <1>8, <1>9, <1>10 DEF Holds, r, s, longer

-----------------------------------------------------------------------------
(* The policy around the buckets                                           *)

\* Each capped class has a bucket of its configuration's making, and it holds
\* the least of what the limit leaves.
BucketInv ==
  /\ uplink \in Uplinks
  /\ policy = PolicyOf(uplink)
  /\ DOMAIN bucket = Capped(uplink)
  /\ clock \in Nat
  /\ DOMAIN published = Governed /\ DOMAIN refused = Governed
  /\ \A c \in Capped(uplink) :
       /\ Holds(bucket[c], published[c])
       /\ bucket[c].last <= clock
       /\ bucket[c].rate = Knob(uplink, c, "maxRatePerSec")
       /\ bucket[c].burst = BurstOf(uplink, c)

LEMMA KnobTypes ==
  ASSUME NEW u \in Uplinks, NEW c \in Capped(u)
  PROVE  Knob(u, c, "maxRatePerSec") \in Nat /\ BurstOf(u, c) \in Nat
<1>1. c \in DOMAIN u /\ u[c] \in ClassPolicy /\ u[c]["maxRatePerSec"] /= Absent
  BY UplinksAssumption DEF Capped, Knob
<1>2. u[c].maxRatePerSec \in Nat /\ u[c].burst \in Nat \cup {Absent}
  BY <1>1 DEF ClassPolicy
<1>3. Knob(u, c, "maxRatePerSec") \in Nat /\ Knob(u, c, "burst") \in Nat \cup {Absent}
  BY <1>1, <1>2 DEF Knob
<1> QED  BY <1>3, BoundsAssumption DEF BurstOf, OrElse

LEMMA NewBucketHolds ==
  ASSUME NEW rate \in Nat, NEW burst \in Nat
  PROVE  /\ Holds(NewBucket(rate, burst), <<>>)
         /\ NewBucket(rate, burst).last = Never
         /\ NewBucket(rate, burst).rate = rate /\ NewBucket(rate, burst).burst = burst
<1>1. burst * Scale \in Nat
  BY ScaleAssumption, SMT
<1>2. NewBucket(rate, burst) \in Bucket
  BY <1>1 DEF NewBucket, Bucket, Never
<1> QED  BY <1>1, <1>2 DEF NewBucket, Holds, Never

LEMMA InitBuckets == Init => BucketInv
<1> SUFFICES ASSUME Init  PROVE BucketInv
  OBVIOUS
<1>1. ASSUME NEW c \in Capped(uplink)
      PROVE  /\ Holds(bucket[c], published[c])
             /\ bucket[c].last <= clock
             /\ bucket[c].rate = Knob(uplink, c, "maxRatePerSec")
             /\ bucket[c].burst = BurstOf(uplink, c)
  <2>1. c \in Governed /\ uplink \in Uplinks
    BY DEF Capped, Init
  <2>2. /\ bucket[c] = NewBucket(Knob(uplink, c, "maxRatePerSec"), BurstOf(uplink, c))
        /\ published[c] = <<>> /\ clock = 0
    BY <2>1 DEF Init, BucketsOf
  <2>3. Knob(uplink, c, "maxRatePerSec") \in Nat /\ BurstOf(uplink, c) \in Nat
    BY <2>1, KnobTypes
  <2> QED  BY <2>2, <2>3, NewBucketHolds DEF Never
<1> QED  BY <1>1 DEF Init, BucketInv, BucketsOf

\* admit() meters a message exactly when only the bucket stands between it and
\* a publish, and then the bucket decides.
LEMMA Verdicts ==
  ASSUME NEW c \in Governed, NEW now
  PROVE  /\ ReachesBucket(c) => c \in policy.capped
         /\ ReachesBucket(c) /\ HasToken(bucket[c], now) => Verdict(c, now) = "Forward"
         /\ ReachesBucket(c) /\ ~ HasToken(bucket[c], now) => Verdict(c, now) = "DropRateCapped"
         /\ ~ ReachesBucket(c) => Verdict(c, now) /= "DropRateCapped"
         /\ ~ ReachesBucket(c) /\ c \in policy.capped => Verdict(c, now) /= "Forward"
<1>1. CASE ReachesBucket(c) /\ HasToken(bucket[c], now)
  BY <1>1 DEF ReachesBucket, Verdict, VerdictOn, Admit
<1>2. CASE ReachesBucket(c) /\ ~ HasToken(bucket[c], now)
  BY <1>2 DEF ReachesBucket, Verdict, VerdictOn, Admit
<1>3. CASE ~ ReachesBucket(c)
  BY <1>3 DEF ReachesBucket, Verdict, VerdictOn, Admit
<1> QED  BY <1>1, <1>2, <1>3

\* What is due by the bucket's rate and burst is due by the configured ones.
LEMMA DueByCap ==
  ASSUME BucketInv, NEW c \in Capped(uplink)
  PROVE  /\ c \in Governed /\ DOMAIN Cap = Capped(uplink)
         /\ HasToken(bucket[c], clock) <=> Limit!Due(Cap[c], published[c], clock)
<1>1. /\ Holds(bucket[c], published[c]) /\ bucket[c].last <= clock /\ clock \in Nat
      /\ bucket[c].rate = Knob(uplink, c, "maxRatePerSec")
      /\ bucket[c].burst = BurstOf(uplink, c)
      /\ policy.capped = Capped(uplink)
  BY DEF BucketInv, PolicyOf
<1>2. Cap[c].rate = bucket[c].rate /\ Cap[c].burst = bucket[c].burst
  BY <1>1 DEF Cap
<1>3. HasToken(bucket[c], clock) <=> Limit!Due(bucket[c], published[c], clock)
  BY <1>1, TokenIsDue
<1> QED  BY <1>1, <1>2, <1>3 DEF Limit!Due, Cap, Capped

LEMMA OfferIsLimited ==
  ASSUME BucketInv, NEW c \in Governed, Offer(c, clock)
  PROVE  BucketInv' /\ [Limit!Next]_(Limit!vars)
<1> USE DEF BucketInv
<1>1. /\ UNCHANGED <<uplink, policy, clock>> /\ Cap' = Cap
      /\ policy.capped = Capped(uplink) /\ DOMAIN Cap = Capped(uplink)
  BY DEF Offer, PolicyOf, Cap
<1>2. /\ published' = (IF Verdict(c, clock) = "Forward"
                        THEN [published EXCEPT ![c] = Append(@, clock)] ELSE published)
      /\ refused' = (IF Verdict(c, clock) = "DropRateCapped"
                      THEN [refused EXCEPT ![c] = @ + 1] ELSE refused)
      /\ bucket' = (IF ReachesBucket(c) THEN [bucket EXCEPT ![c] = Taken(@, clock)] ELSE bucket)
  BY DEF Offer, Meter
<1>3. CASE ReachesBucket(c) /\ HasToken(bucket[c], clock)
  <2>1. c \in Capped(uplink) /\ Verdict(c, clock) = "Forward"
    BY <1>1, <1>3, Verdicts
  <2>2. Limit!Due(Cap[c], published[c], clock)
    BY <1>3, <2>1, DueByCap
  <2>3. Limit!Publish(c)
    BY <1>1, <1>2, <2>1, <2>2 DEF Limit!Publish
  <2>4. /\ Holds(Taken(bucket[c], clock), Append(published[c], clock))
        /\ Taken(bucket[c], clock).rate = bucket[c].rate
        /\ Taken(bucket[c], clock).burst = bucket[c].burst
        /\ Taken(bucket[c], clock).last = clock
    BY <1>3, <2>1, PublishHolds
  <2>5. /\ bucket' = [bucket EXCEPT ![c] = Taken(bucket[c], clock)]
        /\ published' = [published EXCEPT ![c] = Append(published[c], clock)]
        /\ refused' = refused
    BY <1>2, <1>3, <2>1
  <2>6. \A d \in Capped(uplink) :
          /\ Holds(bucket'[d], published'[d])
          /\ bucket'[d].last <= clock
          /\ bucket'[d].rate = Knob(uplink, d, "maxRatePerSec")
          /\ bucket'[d].burst = BurstOf(uplink, d)
    <3> TAKE d \in Capped(uplink)
    <3>1. CASE d = c
      BY <3>1, <2>1, <2>4, <2>5
    <3>2. CASE d /= c
      <4>1. bucket'[d] = bucket[d] /\ published'[d] = published[d]
        BY <3>2, <2>5
      <4> QED  BY <4>1
    <3> QED  BY <3>1, <3>2
  <2>7. BucketInv'
    BY <1>1, <2>5, <2>6
  <2> QED  BY <2>3, <2>7 DEF Limit!Next
<1>4. CASE ReachesBucket(c) /\ ~ HasToken(bucket[c], clock)
  <2>1. c \in Capped(uplink) /\ Verdict(c, clock) = "DropRateCapped"
    BY <1>1, <1>4, Verdicts
  <2>2. ~ Limit!Due(Cap[c], published[c], clock)
    BY <1>4, <2>1, DueByCap
  <2>3. Limit!Refuse(c)
    BY <1>1, <1>2, <2>1, <2>2 DEF Limit!Refuse
  <2>4. /\ Holds(Taken(bucket[c], clock), published[c])
        /\ Taken(bucket[c], clock).rate = bucket[c].rate
        /\ Taken(bucket[c], clock).burst = bucket[c].burst
        /\ Taken(bucket[c], clock).last = clock
    BY <1>4, <2>1, RefusalHolds
  <2>5. /\ bucket' = [bucket EXCEPT ![c] = Taken(bucket[c], clock)]
        /\ published' = published
        /\ DOMAIN refused' = Governed
    BY <1>2, <1>4, <2>1
  <2>6. \A d \in Capped(uplink) :
          /\ Holds(bucket'[d], published[d])
          /\ bucket'[d].last <= clock
          /\ bucket'[d].rate = Knob(uplink, d, "maxRatePerSec")
          /\ bucket'[d].burst = BurstOf(uplink, d)
    <3> TAKE d \in Capped(uplink)
    <3>1. CASE d = c
      BY <3>1, <2>1, <2>4, <2>5
    <3>2. CASE d /= c
      <4>1. bucket'[d] = bucket[d]
        BY <3>2, <2>5
      <4> QED  BY <4>1
    <3> QED  BY <3>1, <3>2
  <2>7. BucketInv'
    BY <1>1, <2>5, <2>6
  <2> QED  BY <2>3, <2>7 DEF Limit!Next
<1>5. CASE ~ ReachesBucket(c)
  <2>1. bucket' = bucket /\ refused' = refused
    BY <1>2, <1>5, Verdicts
  <2>2. CASE Verdict(c, clock) = "Forward"
    <3>1. c \notin Capped(uplink)
      BY <1>1, <1>5, <2>2, Verdicts
    <3>2. published' = [published EXCEPT ![c] = Append(@, clock)]
      BY <1>2, <2>2
    <3>3. Limit!Publish(c)
      BY <1>1, <2>1, <3>1, <3>2 DEF Limit!Publish
    <3>4. \A d \in Capped(uplink) : published'[d] = published[d]
      BY <3>1, <3>2 DEF Capped
    <3>5. BucketInv'
      BY <1>1, <2>1, <3>2, <3>4
    <3> QED  BY <3>3, <3>5 DEF Limit!Next
  <2>3. CASE Verdict(c, clock) /= "Forward"
    <3>1. published' = published
      BY <1>2, <2>3
    <3> QED  BY <1>1, <2>1, <3>1 DEF Limit!vars
  <2> QED  BY <2>2, <2>3
<1> QED  BY <1>3, <1>4, <1>5

\* Every step of the uplink is a step of the limit, or none.
LEMMA StepIsLimited ==
  ASSUME BucketInv, [Next]_vars
  PROVE  BucketInv' /\ [Limit!Next]_(Limit!vars)
<1>1. ASSUME NEW c \in Governed, NEW now \in Readings, Offer(c, now)
      PROVE  BucketInv' /\ [Limit!Next]_(Limit!vars)
  BY <1>1, OfferIsLimited DEF Readings
<1>2. ASSUME UNCHANGED <<uplink, policy, bucket, clock, published, refused>>
      PROVE  BucketInv' /\ [Limit!Next]_(Limit!vars)
  BY <1>2 DEF BucketInv, Limit!vars, Cap
<1>3. ASSUME Tick
      PROVE  BucketInv' /\ [Limit!Next]_(Limit!vars)
  <2>1. Limit!Tick
    BY <1>3 DEF Tick, Limit!Tick, Cap
  <2>2. \A c \in Capped(uplink) : bucket[c].last <= clock + 1
    <3> TAKE c \in Capped(uplink)
    <3>1. bucket[c].last \in Int /\ bucket[c].last <= clock /\ clock \in Nat
      BY DEF BucketInv, Holds, Bucket
    <3> QED  BY <3>1
  <2>3. BucketInv'
    BY <1>3, <2>2 DEF Tick, BucketInv
  <2> QED  BY <2>1, <2>3 DEF Limit!Next
<1>4. CASE \E fails \in BOOLEAN : Published(fails) \/ Replayed(fails)
  BY <1>2, <1>4 DEF Published, Replayed
<1>5. CASE Replay \/ LinkTurns
  BY <1>2, <1>5 DEF Replay, LinkTurns
<1>6. CASE UNCHANGED vars
  BY <1>2, <1>6 DEF vars
<1> QED  BY <1>1, <1>3, <1>4, <1>5, <1>6 DEF Next

\* UplinkPolicy keeps each capped class to its maxRatePerSec and burst, and
\* refuses nothing that they allow: the refinement of RateLimit, in full.
THEOREM LimitIsKept == Spec => LimitSpec
<1>1. Init => BucketInv /\ Limit!Init
  <2> SUFFICES ASSUME Init  PROVE BucketInv /\ Limit!Init
    OBVIOUS
  <2>1. DOMAIN Cap \subseteq Governed
    BY DEF Init, Cap, PolicyOf, Capped
  <2> QED  BY <2>1, InitBuckets DEF Init, Limit!Init
<1>2. BucketInv /\ [Next]_vars => BucketInv' /\ [Limit!Next]_(Limit!vars)
  BY StepIsLimited
<1> QED  BY <1>1, <1>2, PTL DEF Spec, LimitSpec, Limit!Spec

\* The engine and the policy agree on class app: both read one block.
THEOREM AppAgreed == Spec => []AppIsAgreed
<1>1. Init => AppIsAgreed
  BY DEF Init, AppIsAgreed, PolicyOf, Enabled, AppEnabled, OrElse, Governed
<1>2. AppIsAgreed /\ [Next]_vars => AppIsAgreed'
  <2> SUFFICES ASSUME AppIsAgreed, [Next]_vars  PROVE AppIsAgreed'
    OBVIOUS
  <2>1. UNCHANGED <<uplink, policy>>
    BY DEF Next, vars, Offer, Published, Replayed, Replay, LinkTurns, Tick
  <2> QED  BY <2>1 DEF AppIsAgreed
<1> QED  BY <1>1, <1>2, PTL DEF Spec

-----------------------------------------------------------------------------
(* Type correctness                                                        *)

TypeInv ==
  /\ TypeOK /\ BucketInv
  /\ \A c \in Governed : refused[c] \in Nat /\ published[c] \in Seq(0 .. clock)

LEMMA PolicyTypes ==
  ASSUME NEW u \in Uplinks
  PROVE  /\ PolicyOf(u) \in [enabled : SUBSET Governed, capped : SUBSET Governed, evtMax : Nat]
         /\ PolicyOf(u).evtMax \in Nat
<1> DEFINE buffer == Knob(u, "evt", "bufferWhileDisconnected")
<1>1. buffer \in {Absent} \cup [enabled : BOOLEAN \cup {Absent}, maxMessages : Nat \cup {Absent}]
  <2>1. CASE "evt" \in DOMAIN u
    <3>1. u["evt"] \in ClassPolicy
      BY <2>1, UplinksAssumption
    <3>2. u["evt"].bufferWhileDisconnected
            \in {Absent} \cup [enabled : BOOLEAN \cup {Absent}, maxMessages : Nat \cup {Absent}]
      BY <3>1 DEF ClassPolicy
    <3> QED  BY <2>1, <3>2 DEF Knob
  <2>2. CASE "evt" \notin DOMAIN u
    BY <2>2 DEF Knob
  <2> QED  BY <2>1, <2>2
<1>2. BufferBound(buffer) \in Nat
  <2> HIDE DEF buffer
  <2>1. CASE buffer = Absent
    BY <2>1, DefaultEvtMaxAssumption DEF BufferBound
  <2>2. CASE buffer /= Absent
    <3>1. buffer.maxMessages \in Nat \cup {Absent}
      BY <1>1, <2>2
    <3>2. OrElse(buffer.maxMessages, DefaultEvtMax) \in Nat
      BY <3>1, DefaultEvtMaxAssumption DEF OrElse
    <3> QED  BY <3>2, <2>2 DEF BufferBound
  <2> QED  BY <2>1, <2>2
<1> QED  BY <1>2 DEF PolicyOf, Capped

\* The bucket of a capped class is within its burst, and its clock not ahead.
LEMMA BucketTypes ==
  ASSUME NEW b, NEW times, NEW now \in Nat, Holds(b, times), b.last <= now
  PROVE  /\ b.tokens \in 0 .. b.burst * Scale
         /\ b.last \in {Never} \cup 0 .. now
<1>1. /\ b.tokens \in Nat /\ b.burst \in Nat /\ b.last \in Int
      /\ b.tokens <= b.burst * Scale
      /\ b.last = Never \/ b.last >= 0
  BY DEF Holds, Bucket
<1>2. b.burst * Scale \in Nat
  BY <1>1, ScaleAssumption, SMT
<1> QED  BY <1>1, <1>2

LEMMA SeqWidens ==
  ASSUME NEW S, NEW T, S \subseteq T, NEW s \in Seq(S)
  PROVE  s \in Seq(T)
<1>1. s \in [1 .. Len(s) -> T] /\ Len(s) \in Nat
  OBVIOUS
<1> QED  BY <1>1, SeqDef

LEMMA InitTypes == Init => TypeInv
<1> SUFFICES ASSUME Init  PROVE TypeInv
  OBVIOUS
<1>1. BucketInv
  BY InitBuckets
<1>2. policy \in [enabled : SUBSET Governed, capped : SUBSET Governed, evtMax : Nat]
  BY PolicyTypes DEF Init
<1>3. DOMAIN bucket = policy.capped
  BY DEF Init, PolicyOf, BucketsOf
<1>4. \A c \in Governed : published[c] = <<>> /\ refused[c] = 0
  BY DEF Init
<1>5. policy.evtMax \in Nat
  BY PolicyTypes DEF Init
<1>6. \A c \in Governed : published[c] \in Seq(0 .. clock) /\ Len(published[c]) = 0
  <2>1. <<>> \in Seq(0 .. clock) /\ Len(<<>>) = 0
    OBVIOUS
  <2> QED  BY <2>1, <1>4
<1>7. TypeOK
  <2>1. \A c \in policy.capped : /\ bucket[c].tokens \in 0 .. bucket[c].burst * Scale
                                 /\ bucket[c].last \in {Never} \cup 0 .. clock
    BY <1>1, BucketTypes DEF BucketInv, PolicyOf
  <2>2. 0 \in 0 .. policy.evtMax /\ 0 \in 0 .. 2 /\ 0 \in 0 .. MaxTime /\ 0 \in 0 .. MaxOffers
    BY <1>5, BoundsAssumption
  <2>3. \A c \in Governed : /\ Len(published[c]) + refused[c] <= offered
                            /\ \A i \in DOMAIN published[c] : published[c][i] \in 0 .. clock
    BY <1>4, <1>6 DEF Init
  <2> QED  BY <1>2, <1>3, <2>1, <2>2, <2>3 DEF Init, TypeOK
<1> QED  BY <1>1, <1>4, <1>6, <1>7 DEF TypeInv

LEMMA PushType ==
  ASSUME TypeOK
  PROVE  BufferedAfterPush \in 0 .. policy.evtMax
<1>1. policy.evtMax \in Nat /\ buffered \in 0 .. policy.evtMax
  BY DEF TypeOK
<1> QED  BY <1>1 DEF BufferedAfterPush

\* The classes' histories stay within what was offered.
LEMMA OfferTypes ==
  ASSUME TypeInv, NEW c \in Governed, Offer(c, clock)
  PROVE  \A d \in Governed :
           /\ refused'[d] \in Nat /\ published'[d] \in Seq(0 .. clock)
           /\ Len(published'[d]) + refused'[d] <= offered'
<1>1. /\ offered' = offered + 1 /\ offered \in Nat /\ clock \in Nat
      /\ DOMAIN published = Governed /\ DOMAIN refused = Governed
  BY BoundsAssumption DEF Offer, TypeInv, TypeOK, BucketInv
<1>2. \A d \in Governed : /\ refused[d] \in Nat /\ published[d] \in Seq(0 .. clock)
                          /\ Len(published[d]) + refused[d] <= offered
  BY DEF TypeInv, TypeOK
<1> TAKE d \in Governed
<1>3. CASE d = c /\ Verdict(c, clock) = "Forward"
  <2>1. published'[d] = Append(published[d], clock) /\ refused'[d] = refused[d]
    BY <1>1, <1>3 DEF Offer
  <2>2. /\ Append(published[d], clock) \in Seq(0 .. clock)
        /\ Len(Append(published[d], clock)) = Len(published[d]) + 1
        /\ Len(published[d]) \in Nat
    BY <1>1, <1>2
  <2> QED  BY <1>1, <1>2, <2>1, <2>2
<1>4. CASE d = c /\ Verdict(c, clock) = "DropRateCapped"
  <2>1. published'[d] = published[d] /\ refused'[d] = refused[d] + 1
    BY <1>1, <1>4 DEF Offer
  <2>2. Len(published[d]) \in Nat
    BY <1>2
  <2> QED  BY <1>1, <1>2, <2>1, <2>2
<1>5. CASE d /= c \/ (Verdict(c, clock) /= "Forward" /\ Verdict(c, clock) /= "DropRateCapped")
  <2>1. published'[d] = published[d] /\ refused'[d] = refused[d]
    BY <1>1, <1>5 DEF Offer
  <2>2. Len(published[d]) \in Nat
    BY <1>2
  <2> QED  BY <1>1, <1>2, <2>1, <2>2
<1> QED  BY <1>3, <1>4, <1>5

LEMMA NextTypes ==
  ASSUME TypeInv, [Next]_vars
  PROVE  TypeInv'
<1>1. BucketInv'
  BY StepIsLimited DEF TypeInv
<1>2. /\ policy' = policy /\ uplink' = uplink
  BY DEF Next, vars, Offer, Published, Replayed, Replay, LinkTurns, Tick
<1>3. policy.evtMax \in Nat /\ buffered \in 0 .. policy.evtMax /\ flying \in 0 .. 2
  BY DEF TypeInv, TypeOK
<1> DEFINE Rest == /\ buffered' \in 0 .. policy.evtMax /\ flying' \in 0 .. 2
                   /\ replaying' \in BOOLEAN /\ link' \in BOOLEAN
                   /\ clock' \in 0 .. MaxTime /\ offered' \in 0 .. MaxOffers
                   /\ \A d \in Governed :
                        /\ refused'[d] \in Nat /\ published'[d] \in Seq(0 .. clock')
                        /\ Len(published'[d]) + refused'[d] <= offered'
<1>4. ASSUME NEW c \in Governed, NEW now \in Readings, Offer(c, now)
      PROVE  Rest
  <2>1. Offer(c, clock)
    BY <1>4 DEF Readings
  <2>2. UNCHANGED <<replaying, link, clock>>
    BY <2>1 DEF Offer
  <2>3. offered' \in 0 .. MaxOffers
    BY <2>1, BoundsAssumption DEF Offer, TypeInv, TypeOK
  <2>4. flying' \in 0 .. 2
    BY <2>1, <1>3 DEF Offer
  <2>5. buffered' \in 0 .. policy.evtMax
    BY <2>1, <1>3, PushType DEF Offer, TypeInv
  <2>6. clock' \in 0 .. MaxTime /\ replaying' \in BOOLEAN /\ link' \in BOOLEAN
    BY <2>2 DEF TypeInv, TypeOK
  <2>7. \A d \in Governed :
          /\ refused'[d] \in Nat /\ published'[d] \in Seq(0 .. clock')
          /\ Len(published'[d]) + refused'[d] <= offered'
    BY <2>1, <2>2, OfferTypes
  <2> QED  BY <2>3, <2>4, <2>5, <2>6, <2>7
<1>5. ASSUME UNCHANGED <<clock, offered, published, refused>>,
             buffered' \in 0 .. policy.evtMax, flying' \in 0 .. 2,
             replaying' \in BOOLEAN, link' \in BOOLEAN
      PROVE  Rest
  <2>1. /\ clock \in 0 .. MaxTime /\ offered \in 0 .. MaxOffers
        /\ \A d \in Governed : /\ refused[d] \in Nat /\ published[d] \in Seq(0 .. clock)
                                /\ Len(published[d]) + refused[d] <= offered
    BY DEF TypeInv, TypeOK
  <2> QED  BY <1>5, <2>1
<1>6. ASSUME NEW fails \in BOOLEAN, Published(fails)
      PROVE  Rest
  <2>1. /\ UNCHANGED <<clock, offered, published, refused>>
        /\ replaying' = replaying /\ link' = link /\ flying > 0 /\ flying' = flying - 1
        /\ buffered' = buffered \/ buffered' = BufferedAfterPush
    BY <1>6 DEF Published
  <2>2. buffered' \in 0 .. policy.evtMax /\ replaying' \in BOOLEAN /\ link' \in BOOLEAN
    BY <2>1, PushType DEF TypeInv, TypeOK
  <2>3. flying' \in 0 .. 2
    BY <2>1, <1>3
  <2> QED  BY <2>1, <2>2, <2>3, <1>5
<1>7. ASSUME NEW fails \in BOOLEAN, Replayed(fails)
      PROVE  Rest
  <2>1. /\ UNCHANGED <<clock, offered, published, refused>>
        /\ replaying' = FALSE /\ link' = link /\ flying' = flying
        /\ buffered' = buffered \/ (buffered < policy.evtMax /\ buffered' = buffered + 1)
    BY <1>7 DEF Replayed
  <2>2. flying' \in 0 .. 2 /\ replaying' \in BOOLEAN /\ link' \in BOOLEAN
    BY <2>1 DEF TypeInv, TypeOK
  <2>3. buffered' \in 0 .. policy.evtMax
    BY <2>1, <1>3
  <2> QED  BY <2>1, <2>2, <2>3, <1>5
<1>8. ASSUME Replay
      PROVE  Rest
  <2>1. /\ UNCHANGED <<clock, offered, published, refused>>
        /\ replaying' = TRUE /\ link' = link /\ flying' = flying
        /\ buffered > 0 /\ buffered' = buffered - 1
    BY <1>8 DEF Replay
  <2>2. flying' \in 0 .. 2 /\ replaying' \in BOOLEAN /\ link' \in BOOLEAN
    BY <2>1 DEF TypeInv, TypeOK
  <2>3. buffered' \in 0 .. policy.evtMax
    BY <2>1, <1>3
  <2> QED  BY <2>1, <2>2, <2>3, <1>5
<1>9. ASSUME LinkTurns
      PROVE  Rest
  BY <1>9, <1>3, <1>5 DEF LinkTurns, TypeInv, TypeOK
<1>10. ASSUME Tick
      PROVE  Rest
  <2>1. /\ UNCHANGED <<buffered, flying, replaying, link, offered, published, refused>>
        /\ clock' = clock + 1 /\ clock < MaxTime /\ clock \in Nat /\ MaxTime \in Nat
    BY <1>10, BoundsAssumption DEF Tick, TypeInv, TypeOK
  <2>2. 0 .. clock \subseteq 0 .. clock'  /\ clock' \in 0 .. MaxTime
    BY <2>1
  <2>3. \A d \in Governed : published'[d] \in Seq(0 .. clock')
    <3> TAKE d \in Governed
    <3>1. published[d] \in Seq(0 .. clock)
      BY DEF TypeInv
    <3>2. published[d] \in Seq(0 .. clock')
      BY <3>1, <2>2, SeqWidens
    <3> QED  BY <3>2, <2>1
  <2>4. /\ replaying \in BOOLEAN /\ link \in BOOLEAN /\ offered \in 0 .. MaxOffers
        /\ \A d \in Governed : refused[d] \in Nat /\ Len(published[d]) + refused[d] <= offered
    BY DEF TypeInv, TypeOK
  <2>5. /\ buffered' \in 0 .. policy.evtMax /\ flying' \in 0 .. 2
        /\ replaying' \in BOOLEAN /\ link' \in BOOLEAN /\ offered' \in 0 .. MaxOffers
    BY <2>1, <2>4, <1>3
  <2>6. \A d \in Governed : refused'[d] \in Nat /\ Len(published'[d]) + refused'[d] <= offered'
    BY <2>1, <2>4
  <2> QED  BY <2>2, <2>3, <2>5, <2>6
<1>11. ASSUME UNCHANGED vars
      PROVE  Rest
  <2>1. /\ UNCHANGED <<clock, offered, published, refused>>
        /\ replaying' = replaying /\ link' = link /\ flying' = flying /\ buffered' = buffered
    BY <1>11 DEF vars
  <2>2. /\ buffered' \in 0 .. policy.evtMax /\ flying' \in 0 .. 2
        /\ replaying' \in BOOLEAN /\ link' \in BOOLEAN
    BY <2>1 DEF TypeInv, TypeOK
  <2> QED  BY <2>1, <2>2, <1>5
<1>12. Rest
  BY <1>4, <1>6, <1>7, <1>8, <1>9, <1>10, <1>11 DEF Next
<1>13. TypeOK'
  <2>1. \A c \in policy'.capped :
          /\ bucket'[c].tokens \in 0 .. bucket'[c].burst * Scale
          /\ bucket'[c].last \in {Never} \cup 0 .. clock'
    <3> TAKE c \in policy'.capped
    <3>1. Holds(bucket'[c], published'[c]) /\ bucket'[c].last <= clock' /\ clock' \in Nat
      BY <1>1 DEF BucketInv, PolicyOf
    <3> QED  BY <3>1, BucketTypes
  <2>2. /\ uplink' \in Uplinks /\ DOMAIN bucket' = policy'.capped
        /\ policy' \in [enabled : SUBSET Governed, capped : SUBSET Governed, evtMax : Nat]
    BY <1>1, <1>2 DEF TypeInv, TypeOK, BucketInv, PolicyOf
  <2>3. \A c \in Governed : \A i \in DOMAIN published'[c] : published'[c][i] \in 0 .. clock'
    BY <1>12
  <2> QED  BY <1>2, <1>12, <2>1, <2>2, <2>3 DEF TypeOK
<1> QED  BY <1>1, <1>12, <1>13 DEF TypeInv

\* Type correctness of the policy over time.
THEOREM TypesHold == Spec => []TypeOK
<1>1. Init => TypeInv
  BY InitTypes
<1>2. TypeInv /\ [Next]_vars => TypeInv'
  BY NextTypes
<1>3. TypeInv => TypeOK
  BY DEF TypeInv
<1> QED  BY <1>1, <1>2, <1>3, PTL DEF Spec

=============================================================================
