------------------------- MODULE ReplyShutdownProofs -------------------------
(***************************************************************************)
(* What a shutdown of the relay may leave behind, proved for every set of  *)
(* topics and pumps, every TTL and every maxPending.                       *)
(***************************************************************************)
EXTENDS ReplyShutdown, ReplyProxyProofs

\* ShutdownInv and what the stages of the tasks say of their topics.
ProofInv == ShutdownInv /\ StageTopics

-----------------------------------------------------------------------------
(* Lemmas on the map: an entry stays until it is handed to somebody        *)

\* A push drops the oldest entry of a full map and no other.
LEMMA RecordLeaves ==
  ASSUME NEW q \in Seq(Entry), Len(q) <= MaxPending,
         NEW t \in Topic, NEW s \in SiteTopic, NEW now \in Nat,
         NEW x, HasEntry(q, x), ~ (IsFull(q) /\ x = q[1].topic)
  PROVE  HasEntry(Record(q, t, s, now), x)
<1> DEFINE r == Record(q, t, s, now)
           off == Dropped(q)
           n == Len(q) - off
<1>1. /\ off \in {0, 1} /\ n \in Nat
      /\ r \in Seq(Entry) /\ Len(r) = n + 1
      /\ \A i \in 1 .. n : r[i] = q[i + off]
  BY RecordShape
<1>2. PICK i \in 1 .. Len(q) : q[i].topic = x
  BY HasEntryAt
<1>3. Len(q) \in Nat
  BY LenProperties
<1>4. off = 1 => i /= 1
  BY <1>2 DEF Dropped
<1> HIDE DEF off
<1>5. i - off \in 1 .. n /\ i - off \in 1 .. n + 1 /\ (i - off) + off = i
  BY <1>1, <1>3, <1>4
<1>6. r[i - off] = q[i]
  BY <1>1, <1>5
<1> HIDE DEF r, n
<1>7. i - off \in 1 .. Len(r) /\ r[i - off].topic = x
  BY <1>1, <1>2, <1>5, <1>6
<1>8. HasEntry(r, x)
  BY <1>1, <1>7, HasEntryAt
<1> QED  BY <1>8 DEF r

\* take and abandon remove no topic but their own.
LEMMA TakeLeaves ==
  ASSUME NEW q \in Seq(Entry), NEW t, NEW x, HasEntry(q, x), x /= t
  PROVE  HasEntry(Take(q, t), x)
<1>1. CASE ~ HasEntry(q, t)
  BY <1>1 DEF Take
<1>2. CASE HasEntry(q, t)
  <2> DEFINE r == Take(q, t)
             k == IndexOf(q, t)
  <2>1. /\ k \in 1 .. Len(q) /\ q[k].topic = t
        /\ r \in Seq(Entry) /\ Len(r) = Len(q) - 1
        /\ \A i \in 1 .. Len(r) : r[i] = IF i < k THEN q[i] ELSE q[i + 1]
    BY <1>2, TakeShape
  <2>2. PICK i \in 1 .. Len(q) : q[i].topic = x
    BY HasEntryAt
  <2>3. Len(q) \in Nat /\ i /= k
    BY <2>1, <2>2, LenProperties
  <2> HIDE DEF r, k
  <2>4. CASE i < k
    <3>1. i \in 1 .. Len(r) /\ r[i] = q[i]
      BY <2>1, <2>3, <2>4
    <3> QED  BY <2>1, <2>2, <3>1, HasEntryAt DEF r
  <2>5. CASE i > k
    <3>1. i - 1 \in 1 .. Len(r) /\ ~ (i - 1 < k) /\ (i - 1) + 1 = i
      BY <2>1, <2>3, <2>5
    <3>2. r[i - 1] = q[i]
      BY <2>1, <3>1
    <3> QED  BY <2>1, <2>2, <3>1, <3>2, HasEntryAt DEF r
  <2> QED  BY <2>1, <2>3, <2>4, <2>5
<1> QED  BY <1>1, <1>2

\* A sweep drains what it does not leave.
LEMMA SweepLeaves ==
  ASSUME NEW q \in Seq(Entry), NEW now \in Nat, NEW x, HasEntry(q, x)
  PROVE  HasEntry(AfterSweep(q, now), x) \/ x \in ToSet(Swept(q, now))
<1> DEFINE k == FirstLive(q, now)
           s == Swept(q, now)
           r == AfterSweep(q, now)
<1>1. /\ k \in 0 .. Len(q) /\ DOMAIN s = 1 .. k
      /\ \A i \in 1 .. k : s[i] = q[i].topic
      /\ r \in Seq(Entry) /\ Len(r) = Len(q) - k
      /\ \A i \in 1 .. Len(q) - k : r[i] = q[i + k]
  BY SweepShape
<1>2. PICK i \in 1 .. Len(q) : q[i].topic = x
  BY HasEntryAt
<1>3. Len(q) \in Nat
  BY LenProperties
<1> HIDE DEF k, s, r
<1>4. CASE i <= k
  <2>1. i \in DOMAIN s /\ s[i] = x
    BY <1>1, <1>2, <1>3, <1>4
  <2> QED  BY <2>1 DEF ToSet, s
<1>5. CASE i > k
  <2>1. i - k \in 1 .. Len(q) - k /\ (i - k) + k = i
    BY <1>1, <1>3, <1>5
  <2>2. i - k \in 1 .. Len(r) /\ r[i - k] = q[i]
    BY <1>1, <2>1
  <2> QED  BY <1>1, <1>2, <2>2, HasEntryAt DEF r
<1> QED  BY <1>1, <1>3, <1>4, <1>5

\* The head is all that leaves a queue of topics.
LEMMA TailLeaves ==
  ASSUME NEW q \in Seq(Topic), q /= <<>>, NEW x \in ToSet(q)
  PROVE  x = Head(q) \/ x \in ToSet(Tail(q))
<1>1. /\ Len(q) \in Nat /\ DOMAIN q = 1 .. Len(q)
      /\ Tail(q) \in Seq(Topic) /\ Len(Tail(q)) = Len(q) - 1
      /\ \A i \in 1 .. Len(Tail(q)) : Tail(q)[i] = q[i + 1]
      /\ Head(q) = q[1]
  BY HeadTailProperties, LenProperties
<1>2. PICK i \in 1 .. Len(q) : q[i] = x
  BY <1>1 DEF ToSet
<1>3. CASE i = 1
  BY <1>1, <1>2, <1>3
<1>4. CASE i > 1
  <2>1. i - 1 \in 1 .. Len(Tail(q)) /\ (i - 1) + 1 = i
    BY <1>1, <1>4
  <2>2. DOMAIN Tail(q) = 1 .. Len(Tail(q))
    BY <1>1, LenProperties
  <2>3. Tail(q)[i - 1] = x
    BY <1>1, <1>2, <2>1
  <2> QED  BY <2>1, <2>2, <2>3 DEF ToSet
<1> QED  BY <1>1, <1>3, <1>4

-----------------------------------------------------------------------------
(* The tasks of the proxy, which go on until they are aborted              *)

LEMMA InitInv == SInit => ProofInv
<1> SUFFICES ASSUME SInit  PROVE ProofInv
  OBVIOUS
<1>1. TypeOK /\ StageTopics
  BY InitType DEF SInit, TypeInv
<1>2. ShutdownTypeOK
  BY EmptySeq DEF SInit, ShutdownTypeOK, Phase
<1>3. TopicsApart
  BY NoTopicAssumption DEF SInit, Init, TopicsApart, Idle
<1>4. NotYetLive /\ LiveInGoodHands /\ DrainIsLast
  BY DEF SInit, Init, NotYetLive, LiveInGoodHands, DrainIsLast
<1> QED  BY <1>1, <1>2, <1>3, <1>4 DEF ProofInv, ShutdownInv

\* What every step of a task may rely on.
LEMMA Running ==
  ASSUME ProofInv, NEW a \in Pump \cup {Sweeper} \cup Topic, a \notin aborted
  PROVE  phase \in {"running", "aborting"} /\ draining = <<>>
BY DEF ProofInv, ShutdownInv, ShutdownTypeOK, Phase, DrainIsLast

\* The parts of the invariant that only depend on the pumps and on subs.
LEMMA PumpsApart ==
  ASSUME ProofInv, UNCHANGED shutdownVars, NEW p \in Pump, p \notin aborted,
         \A q \in Pump \ {p} : pump'[q] = pump[q],
         pump'[p].topic \in {pump[p].topic, NoTopic},
         pump'[p].at \in {"evicting", "subscribing"} => pump[p].at = "evicting",
         subs' \subseteq subs, UNCHANGED requester
  PROVE  TopicsApart' /\ NotYetLive'
<1>1. \A t \in Topic : Minted(t)' <=> Minted(t)
  BY DEF Minted
<1>2. \A q \in Pump : pump'[q].topic \in {pump[q].topic, NoTopic}
  OBVIOUS
<1>3. TopicsApart
  BY DEF ProofInv, ShutdownInv
<1>4. TopicsApart'
  BY <1>1, <1>2, <1>3, NoTopicAssumption DEF TopicsApart
<1>5. ASSUME NEW q \in Pump, q \notin aborted',
             pump'[q].at \in {"evicting", "subscribing"}, pump'[q].topic \in subs'
      PROVE  FALSE
  <2>1. q \notin aborted /\ pump'[q].topic = pump[q].topic
    <3>1. subs \subseteq Topic
      BY DEF ProofInv, ShutdownInv, TypeOK
    <3> QED  BY <1>2, <1>5, <3>1, NoTopicAssumption DEF shutdownVars
  <2>2. pump[q].at \in {"evicting", "subscribing"}
    BY <1>5
  <2> QED  BY <1>5, <2>1, <2>2 DEF ProofInv, ShutdownInv, NotYetLive
<1>6. NotYetLive'
  BY <1>5 DEF NotYetLive
<1> QED  BY <1>4, <1>6

\* A step of a pump leaves the other hands alone: only what was in the map, or
\* held by that pump, needs a look.
LEMMA PumpHands ==
  ASSUME ProofInv, UNCHANGED <<shutdownVars, sweeping>>,
         NEW p \in Pump, p \notin aborted,
         \A q \in Pump \ {p} : pump'[q] = pump[q],
         stuck \subseteq stuck', subs' \subseteq subs \cup {pump'[p].topic},
         \A u \in subs' : TornDownByTask(u) => TornDownByTask(u)' \/ HasEntry(pending', u),
         \A u \in subs' : HeldByPump(p, u) \/ HasEntry(pending, u) \/ u \notin subs =>
           HasEntry(pending', u) \/ HeldByPump(p, u)' \/ u \in stuck'
  PROVE  LiveInGoodHands'
<1> SUFFICES ASSUME NEW u \in subs'
             PROVE  InGoodHands(u)' \/ u \in (stuck \cup cut)'
  BY DEF LiveInGoodHands
<1>0. \A q \in Pump \ {p} : HeldByPump(q, u)' <=> HeldByPump(q, u)
  BY DEF HeldByPump
<1>1. CASE HeldByPump(p, u) \/ HasEntry(pending, u) \/ u \notin subs
  <2>1. HasEntry(pending', u) \/ HeldByPump(p, u)' \/ u \in stuck'
    BY <1>1
  <2>2. p \notin aborted'
    BY DEF shutdownVars
  <2> QED  BY <2>1, <2>2 DEF InGoodHands
<1>2. CASE u \in subs /\ ~ HeldByPump(p, u) /\ ~ HasEntry(pending, u)
  <2>1. InGoodHands(u) \/ u \in stuck \cup cut
    BY <1>2 DEF ProofInv, ShutdownInv, LiveInGoodHands
  <2>2. CASE InGoodHands(u)
    <3>1. \/ u \in ToSet(draining) \/ \E q \in Pump \ aborted : q /= p /\ HeldByPump(q, u)
          \/ u \notin aborted /\ TornDownByTask(u)
          \/ Sweeper \notin aborted /\ TornDownBySweep(u)
      BY <1>2, <2>2 DEF InGoodHands
    <3>2. TornDownByTask(u) => TornDownByTask(u)' \/ HasEntry(pending, u)'
      OBVIOUS
    <3> QED  BY <1>0, <3>1, <3>2 DEF InGoodHands, TornDownBySweep, shutdownVars
  <2>3. CASE u \in stuck \cup cut
    BY <2>3 DEF shutdownVars
  <2> QED  BY <2>1, <2>2, <2>3
<1> QED  BY <1>1, <1>2

\* The drain does not start while a pump, the sweep or a reply pump runs.
LEMMA DrainWaits ==
  ASSUME ProofInv, UNCHANGED shutdownVars,
         NEW a \in Pump \cup {Sweeper} \cup Topic, a \notin aborted
  PROVE  DrainIsLast' /\ ShutdownTypeOK'
<1>1. phase \in {"running", "aborting"} /\ draining = <<>>
  BY Running
<1> QED  BY <1>1 DEF ProofInv, ShutdownInv, ShutdownTypeOK, DrainIsLast, shutdownVars

LEMMA UnsubscribedIs ==
  ASSUME NEW t, Unsubscribed(t)
  PROVE  subs' \subseteq subs /\ stuck \subseteq stuck' /\ (t \notin subs' \/ t \in stuck')
BY DEF Unsubscribed

\* The steps of a pump other than the one that mints a topic.
LEMMA PumpStepKeeps ==
  ASSUME ProofInv, UNCHANGED shutdownVars, NEW p \in Pump, p \notin aborted,
         ReceivePlain(p) \/ PumpStep(p)
  PROVE  TopicsApart' /\ NotYetLive' /\ LiveInGoodHands'
<1>1. pump \in [Pump -> [at : Stage, topic : Topic \cup {NoTopic},
                         victim : Topic \cup {NoTopic}]]
  BY DEF ProofInv, ShutdownInv, TypeOK
<1>2. pump[p].topic \notin subs \/ pump[p].at \notin {"evicting", "subscribing"}
  BY DEF ProofInv, ShutdownInv, NotYetLive
<1>3. ASSUME \A q \in Pump \ {p} : pump'[q] = pump[q],
             pump'[p].topic \in {pump[p].topic, NoTopic},
             pump'[p].at \in {"evicting", "subscribing"} => pump[p].at = "evicting",
             subs' \subseteq subs, stuck \subseteq stuck',
             UNCHANGED <<task, sweeping, requester>>,
             \A u \in subs' : HeldByPump(p, u) \/ HasEntry(pending, u) =>
               HasEntry(pending', u) \/ HeldByPump(p, u)' \/ u \in stuck'
      PROVE  TopicsApart' /\ NotYetLive' /\ LiveInGoodHands'
  <2>1. TopicsApart' /\ NotYetLive'
    BY <1>3, PumpsApart
  <2>2. \A u \in subs' : TornDownByTask(u) => TornDownByTask(u)'
    BY <1>3 DEF TornDownByTask
  <2>3. LiveInGoodHands'
    BY <1>3, <2>2, PumpHands
  <2> QED  BY <2>1, <2>3
<1>4. CASE ReceivePlain(p)
  <2>1. /\ \A q \in Pump \ {p} : pump'[q] = pump[q]
        /\ pump'[p].topic = NoTopic /\ pump'[p].at = "forwarding" /\ pump[p].at = "idle"
    BY <1>1, <1>4 DEF ReceivePlain, Idle
  <2>2. UNCHANGED <<pending, task, sweeping, requester, subs, stuck>>
    BY <1>4 DEF ReceivePlain, envVars, history
  <2>3. \A u : ~ HeldByPump(p, u)
    BY <2>1 DEF HeldByPump
  <2> QED  BY <1>3, <2>1, <2>2, <2>3
<1>5. CASE EvictDone(p)
  <2>1. /\ \A q \in Pump \ {p} : pump'[q] = pump[q]
        /\ pump'[p].topic = pump[p].topic /\ pump'[p].at = "subscribing"
        /\ pump[p].at = "evicting"
    BY <1>1, <1>5 DEF EvictDone
  <2>2. UNCHANGED <<pending, task, sweeping, requester>>
    BY <1>5 DEF EvictDone
  <2>3. /\ subs' \subseteq subs /\ stuck \subseteq stuck'
        /\ pump[p].victim \notin subs' \/ pump[p].victim \in stuck'
    BY <1>5, UnsubscribedIs DEF EvictDone
  <2>4. \A u : HeldByPump(p, u) => u = pump[p].victim
    BY <2>1 DEF HeldByPump
  <2>5. \A u \in subs' : HeldByPump(p, u) \/ HasEntry(pending, u) =>
               HasEntry(pending', u) \/ HeldByPump(p, u)' \/ u \in stuck'
    BY <2>2, <2>3, <2>4
  <2> QED  BY <1>3, <2>1, <2>2, <2>3, <2>5
<1>6. CASE SubscribeLive(p)
  <2>1. /\ pump' = [pump EXCEPT ![p].at = "checking"]
        /\ pump[p].at = "subscribing" /\ subs' = subs \cup {pump[p].topic}
        /\ UNCHANGED <<pending, task, sweeping, requester, stuck>>
    BY <1>6 DEF SubscribeLive, history
  <2>2. /\ \A q \in Pump : pump'[q].topic = pump[q].topic
        /\ \A q \in Pump \ {p} : pump'[q] = pump[q]
        /\ pump'[p].at = "checking"
    BY <1>1, <2>1
  <2>3. TopicsApart /\ NotYetLive /\ StageTopics
    BY DEF ProofInv, ShutdownInv
  <2>4. pump[p].topic \in Topic /\ Minted(pump[p].topic)
    BY <2>1, <2>3 DEF StageTopics, TopicsApart
  <2>5. \A t \in Topic : Minted(t)' <=> Minted(t)
    BY <2>1 DEF Minted
  <2>6. TopicsApart'
    BY <2>1, <2>2, <2>3, <2>4, <2>5 DEF TopicsApart
  <2>7. ASSUME NEW q \in Pump, q \notin aborted', pump'[q].at \in {"evicting", "subscribing"}
        PROVE  pump'[q].topic \notin subs'
    <3>1. q /= p
      BY <2>2, <2>7
    <3>2. q \notin aborted /\ pump'[q] = pump[q]
      BY <2>2, <2>7, <3>1 DEF shutdownVars
    <3>3. pump[q].topic \notin subs
      BY <2>3, <2>7, <3>2 DEF NotYetLive
    <3>4. pump[q].topic /= pump[p].topic
      BY <2>3, <2>4, <3>1, NoTopicAssumption DEF TopicsApart
    <3> QED  BY <2>1, <3>2, <3>3, <3>4
  <2>8. NotYetLive'
    BY <2>7 DEF NotYetLive
  <2>9. \A u : HeldByPump(p, u)' <=> u = pump[p].topic
    BY <2>2 DEF HeldByPump
  <2>10. \A u : HeldByPump(p, u) => u = pump[p].topic
    BY <2>1 DEF HeldByPump
  <2>11. \A u \in subs' : HeldByPump(p, u) \/ HasEntry(pending, u) \/ u \notin subs =>
           HasEntry(pending', u) \/ HeldByPump(p, u)' \/ u \in stuck'
    BY <2>1, <2>9, <2>10
  <2>12. subs' \subseteq subs \cup {pump'[p].topic}
    BY <2>1, <2>2
  <2>13. \A u \in subs' : TornDownByTask(u) => TornDownByTask(u)'
    BY <2>1 DEF TornDownByTask
  <2>14. LiveInGoodHands'
    BY <2>1, <2>2, <2>11, <2>12, <2>13, PumpHands
  <2> QED  BY <2>6, <2>8, <2>14
<1>7. CASE SubscribeFails(p)
  <2>1. /\ \A q \in Pump \ {p} : pump'[q] = pump[q]
        /\ pump'[p].topic = NoTopic /\ pump'[p].at = "idle"
        /\ pump[p].at = "subscribing" /\ pending' = Take(pending, pump[p].topic)
    BY <1>1, <1>7 DEF SubscribeFails, Idle
  <2>2. UNCHANGED <<task, sweeping, requester, subs, stuck>>
    BY <1>7 DEF SubscribeFails, envVars, history
  <2>3. pump[p].topic \notin subs
    BY <1>2, <2>1
  <2>4. pending \in Seq(Entry)
    BY DEF ProofInv, ShutdownInv, TypeOK
  <2>5. \A u : HeldByPump(p, u) => u = pump[p].topic
    BY <2>1 DEF HeldByPump
  <2>6. \A u \in subs : HasEntry(pending, u) => HasEntry(pending', u)
    BY <2>1, <2>3, <2>4, TakeLeaves
  <2>7. \A u \in subs' : HeldByPump(p, u) \/ HasEntry(pending, u) =>
               HasEntry(pending', u) \/ HeldByPump(p, u)' \/ u \in stuck'
    BY <2>2, <2>3, <2>5, <2>6
  <2> QED  BY <1>3, <2>1, <2>2, <2>7
<1>8. CASE CheckEntry(p)
  <2>1. pump[p].at = "checking" /\ UNCHANGED <<pending, sweeping, requester, subs, stuck>>
    BY <1>8 DEF CheckEntry, envVars, history
  <2>2. \A u : HeldByPump(p, u) => u = pump[p].topic
    BY <2>1 DEF HeldByPump
  <2>3. CASE HasEntry(pending, pump[p].topic)
    <3>1. /\ pump' = [pump EXCEPT ![p].at = "forwarding"]
          /\ task' = [task EXCEPT ![pump[p].topic] = "waiting"]
      BY <1>8, <2>3 DEF CheckEntry
    <3>2. /\ \A q \in Pump \ {p} : pump'[q] = pump[q]
          /\ pump'[p].topic = pump[p].topic /\ pump'[p].at = "forwarding"
      BY <1>1, <3>1
    <3>3. TopicsApart' /\ NotYetLive'
      BY <2>1, <3>2, PumpsApart
    <3>4. \A u : TornDownByTask(u) => TornDownByTask(u)' \/ HasEntry(pending', u)
      BY <2>1, <2>3, <3>1 DEF TornDownByTask
    <3>5. \A u \in subs' : HeldByPump(p, u) \/ HasEntry(pending, u) \/ u \notin subs =>
            HasEntry(pending', u) \/ HeldByPump(p, u)' \/ u \in stuck'
      BY <2>1, <2>2, <2>3
    <3>6. LiveInGoodHands'
      BY <2>1, <3>2, <3>4, <3>5, PumpHands
    <3> QED  BY <3>3, <3>6
  <2>4. CASE ~ HasEntry(pending, pump[p].topic)
    <3>1. pump' = [pump EXCEPT ![p].at = "dropping"] /\ UNCHANGED task
      BY <1>8, <2>4 DEF CheckEntry
    <3>2. /\ \A q \in Pump \ {p} : pump'[q] = pump[q]
          /\ pump'[p].topic = pump[p].topic /\ pump'[p].at = "dropping"
      BY <1>1, <3>1
    <3>3. \A u : HeldByPump(p, u)' <=> u = pump[p].topic
      BY <3>2 DEF HeldByPump
    <3>4. \A u \in subs' : HeldByPump(p, u) \/ HasEntry(pending, u) =>
               HasEntry(pending', u) \/ HeldByPump(p, u)' \/ u \in stuck'
      BY <2>1, <2>2, <3>3
    <3> QED  BY <1>3, <2>1, <3>1, <3>2, <3>4
  <2> QED  BY <2>3, <2>4
<1>9. CASE DropDone(p)
  <2>1. /\ \A q \in Pump \ {p} : pump'[q] = pump[q]
        /\ pump'[p].topic = pump[p].topic /\ pump'[p].at = "forwarding"
        /\ pump[p].at = "dropping"
    BY <1>1, <1>9 DEF DropDone
  <2>2. UNCHANGED <<pending, task, sweeping, requester>>
    BY <1>9 DEF DropDone
  <2>3. /\ subs' \subseteq subs /\ stuck \subseteq stuck'
        /\ pump[p].topic \notin subs' \/ pump[p].topic \in stuck'
    BY <1>9, UnsubscribedIs DEF DropDone
  <2>4. \A u : HeldByPump(p, u) => u = pump[p].topic
    BY <2>1 DEF HeldByPump
  <2>5. \A u \in subs' : HeldByPump(p, u) \/ HasEntry(pending, u) =>
               HasEntry(pending', u) \/ HeldByPump(p, u)' \/ u \in stuck'
    BY <2>2, <2>3, <2>4
  <2> QED  BY <1>3, <2>1, <2>2, <2>3, <2>5
<1>10. CASE Forward(p)
  <2>1. /\ \A q \in Pump \ {p} : pump'[q] = pump[q]
        /\ pump'[p].topic = NoTopic /\ pump'[p].at = "idle" /\ pump[p].at = "forwarding"
    BY <1>1, <1>10 DEF Forward, Idle
  <2>2. UNCHANGED <<pending, task, sweeping, requester, subs, stuck>>
    BY <1>10 DEF Forward, history
  <2>3. \A u : ~ HeldByPump(p, u)
    BY <2>1 DEF HeldByPump
  <2> QED  BY <1>3, <2>1, <2>2, <2>3
<1> QED  BY <1>4, <1>5, <1>6, <1>7, <1>8, <1>9, <1>10 DEF PumpStep

\* A request: its topic is fresh, and what it evicts its pump holds.
LEMMA RequestKeeps ==
  ASSUME ProofInv, UNCHANGED shutdownVars, NEW p \in Pump, p \notin aborted,
         NEW t \in Topic, NEW s \in SiteTopic, ReceiveRequest(p, t, s)
  PROVE  TopicsApart' /\ NotYetLive' /\ LiveInGoodHands'
<1>1. /\ pending \in Seq(Entry) /\ Len(pending) <= MaxPending /\ clock \in Nat
      /\ pump \in [Pump -> [at : Stage, topic : Topic \cup {NoTopic},
                            victim : Topic \cup {NoTopic}]]
      /\ requester \in [Topic -> SiteTopic \cup {NoSite}]
  BY DEF ProofInv, ShutdownInv, TypeOK
<1>2. TopicsApart /\ NotYetLive
  BY DEF ProofInv, ShutdownInv
<1>3. /\ pump[p].at = "idle" /\ ~ Minted(t)
      /\ requester' = [requester EXCEPT ![t] = s]
      /\ pending' = Record(pending, t, s, clock)
      /\ UNCHANGED <<task, sweeping, subs, stuck>>
  BY DEF ReceiveRequest, envVars
<1>4. /\ \A q \in Pump \ {p} : pump'[q] = pump[q]
      /\ pump'[p].topic = t
      /\ IsFull(pending) => pump'[p].at = "evicting" /\ pump'[p].victim = pending[1].topic
  BY <1>1 DEF ReceiveRequest, Evicted
<1>5. t \notin subs /\ \A q \in Pump : pump[q].topic /= t
  BY <1>2, <1>3 DEF TopicsApart
<1>6. TopicsApart'
  <2>1. \A u \in Topic : ~ Minted(u)' => ~ Minted(u) /\ u /= t
    BY <1>1, <1>3, NoSiteAssumption DEF Minted
  <2>2. \A u \in Topic : ~ Minted(u)' => u \notin subs' /\ \A q \in Pump : pump'[q].topic /= u
    BY <1>2, <1>3, <1>4, <2>1 DEF TopicsApart
  <2>3. \A q, r \in Pump :
          pump'[q].topic = pump'[r].topic /\ pump'[q].topic /= NoTopic => q = r
    BY <1>2, <1>4, <1>5 DEF TopicsApart
  <2> QED  BY <2>2, <2>3 DEF TopicsApart
<1>7. NotYetLive'
  BY <1>2, <1>3, <1>4, <1>5 DEF NotYetLive, shutdownVars
<1>8. ASSUME NEW u \in subs', HeldByPump(p, u) \/ HasEntry(pending, u) \/ u \notin subs
      PROVE  HasEntry(pending', u) \/ HeldByPump(p, u)'
  <2>1. HasEntry(pending, u)
    BY <1>3, <1>8 DEF HeldByPump
  <2>2. CASE IsFull(pending) /\ u = pending[1].topic
    BY <1>4, <2>2 DEF HeldByPump
  <2>3. CASE ~ (IsFull(pending) /\ u = pending[1].topic)
    BY <1>1, <1>3, <2>1, <2>3, RecordLeaves
  <2> QED  BY <2>2, <2>3
<1>9. \A u \in subs' : TornDownByTask(u) => TornDownByTask(u)'
  BY <1>3 DEF TornDownByTask
<1>10. LiveInGoodHands'
  BY <1>3, <1>4, <1>8, <1>9, PumpHands
<1> QED  BY <1>6, <1>7, <1>10

\* A step that leaves the pumps alone and makes no topic live.
LEMMA PumpsRest ==
  ASSUME ProofInv, UNCHANGED <<shutdownVars, pump, requester>>, subs' \subseteq subs
  PROVE  TopicsApart' /\ NotYetLive'
<1>1. TopicsApart /\ NotYetLive
  BY DEF ProofInv, ShutdownInv
<1>2. \A t \in Topic : Minted(t)' <=> Minted(t)
  BY DEF Minted
<1>3. TopicsApart'
  BY <1>1, <1>2 DEF TopicsApart
<1>4. NotYetLive'
  BY <1>1 DEF NotYetLive, shutdownVars
<1> QED  BY <1>3, <1>4

\* Such a step needs a look only at the hands it is itself.
LEMMA RestHands ==
  ASSUME ProofInv, UNCHANGED <<shutdownVars, pump>>,
         subs' \subseteq subs, stuck \subseteq stuck', NEW u \in subs',
         HasEntry(pending, u) => InGoodHands(u)' \/ u \in stuck',
         u \notin aborted /\ TornDownByTask(u) => InGoodHands(u)' \/ u \in stuck',
         Sweeper \notin aborted /\ TornDownBySweep(u) => InGoodHands(u)' \/ u \in stuck'
  PROVE  InGoodHands(u)' \/ u \in (stuck \cup cut)'
<1>1. InGoodHands(u) \/ u \in stuck \cup cut
  BY DEF ProofInv, ShutdownInv, LiveInGoodHands
<1>2. CASE u \in ToSet(draining)
  BY <1>2 DEF InGoodHands, shutdownVars
<1>3. CASE \E q \in Pump \ aborted : HeldByPump(q, u)
  <2>1. \A q \in Pump : HeldByPump(q, u)' <=> HeldByPump(q, u)
    BY DEF HeldByPump
  <2> QED  BY <1>3, <2>1 DEF InGoodHands, shutdownVars
<1>4. CASE u \in stuck \cup cut
  BY <1>4 DEF shutdownVars
<1> QED  BY <1>1, <1>2, <1>3, <1>4 DEF InGoodHands

\* A step of the reply pump of t.
LEMMA TaskKeeps ==
  ASSUME ProofInv, UNCHANGED shutdownVars, NEW t \in Topic, t \notin aborted, TaskStep(t)
  PROVE  TopicsApart' /\ NotYetLive' /\ LiveInGoodHands'
<1>1. pending \in Seq(Entry) /\ task \in [Topic -> TaskStage]
  BY DEF ProofInv, ShutdownInv, TypeOK
<1>2. UNCHANGED <<pump, sweeping, requester>>
  BY DEF TaskStep, TakeReply, CloseSub, PublishReply, SettleDone, envVars, history
<1>3. /\ subs' \subseteq subs /\ stuck \subseteq stuck'
      /\ task[t] = "unsubscribing" => t \notin subs' \/ t \in stuck'
  BY UnsubscribedIs DEF TaskStep, TakeReply, CloseSub, PublishReply, SettleDone, envVars, history
<1>4. TopicsApart' /\ NotYetLive'
  BY <1>2, <1>3, PumpsRest
<1>5. \A u \in Topic : u /= t => task'[u] = task[u]
  BY <1>1 DEF TaskStep, TakeReply, CloseSub, PublishReply, SettleDone
<1>6. \A u : HasEntry(pending, u) /\ u /= t => HasEntry(pending', u)
  BY <1>1, TakeLeaves DEF TaskStep, TakeReply, CloseSub, PublishReply, SettleDone
<1>7. HasEntry(pending, t) => HasEntry(pending', t) \/ TornDownByTask(t)' \/ t \notin subs'
  <2>1. CASE TakeReply(t)
    BY <1>1, <2>1 DEF TakeReply, TornDownByTask
  <2>2. CASE CloseSub(t) \/ PublishReply(t) \/ SettleDone(t)
    BY <2>2 DEF CloseSub, PublishReply, SettleDone
  <2> QED  BY <2>1, <2>2 DEF TaskStep
<1>8. task[t] = "publishing" => TornDownByTask(t)'
  BY <1>1 DEF TaskStep, TakeReply, CloseSub, PublishReply, SettleDone, TornDownByTask
<1>9. ASSUME NEW u \in subs'
      PROVE  InGoodHands(u)' \/ u \in (stuck \cup cut)'
  <2>0. u \in Topic /\ UNCHANGED aborted
    BY <1>3 DEF ProofInv, ShutdownInv, TypeOK, shutdownVars
  <2>1. HasEntry(pending, u) => InGoodHands(u)'
    <3>1. HasEntry(pending, u) => HasEntry(pending', u) \/ (u = t /\ TornDownByTask(t)')
      BY <1>6, <1>7, <1>9
    <3> QED  BY <2>0, <3>1 DEF InGoodHands
  <2>2. TornDownByTask(u) => TornDownByTask(u)' \/ u \in stuck'
    <3>1. CASE u = t
      BY <1>3, <1>8, <1>9, <3>1 DEF TornDownByTask
    <3>2. CASE u /= t
      BY <1>5, <2>0, <3>2 DEF TornDownByTask
    <3> QED  BY <3>1, <3>2
  <2>3. u \notin aborted /\ TornDownByTask(u) => InGoodHands(u)' \/ u \in stuck'
    BY <2>0, <2>2 DEF InGoodHands
  <2>4. Sweeper \notin aborted /\ TornDownBySweep(u) => InGoodHands(u)'
    BY <1>2, <2>0 DEF InGoodHands, TornDownBySweep
  <2> QED  BY <1>2, <1>3, <2>1, <2>3, <2>4, RestHands
<1>10. LiveInGoodHands'
  BY <1>9 DEF LiveInGoodHands
<1> QED  BY <1>4, <1>10

\* The sweep: what leaves the map is drained, and what is unsubscribed is no
\* longer live, or stuck.
LEMMA SweepKeeps ==
  ASSUME ProofInv, UNCHANGED shutdownVars, Sweeper \notin aborted, Sweep \/ SweepDone
  PROVE  TopicsApart' /\ NotYetLive' /\ LiveInGoodHands'
<1>1. pending \in Seq(Entry) /\ clock \in Nat /\ sweeping \in Seq(Topic)
  BY DEF ProofInv, ShutdownInv, TypeOK
<1>2. UNCHANGED <<pump, task, requester>>
  BY DEF Sweep, SweepDone
<1>3. subs' \subseteq subs /\ stuck \subseteq stuck'
  BY UnsubscribedIs DEF Sweep, SweepDone, envVars
<1>4. TopicsApart' /\ NotYetLive'
  BY <1>2, <1>3, PumpsRest
<1>5. \A u : HasEntry(pending, u) => HasEntry(pending', u) \/ TornDownBySweep(u)'
  BY <1>1, SweepLeaves DEF Sweep, SweepDone, TornDownBySweep
<1>6. \A u \in subs' : TornDownBySweep(u) => TornDownBySweep(u)' \/ u \in stuck'
  <2>1. CASE Sweep
    BY <2>1 DEF Sweep, TornDownBySweep, ToSet
  <2>2. CASE SweepDone
    <3>1. \A u \in ToSet(sweeping) : u = Head(sweeping) \/ u \in ToSet(Tail(sweeping))
      BY <1>1, <2>2, TailLeaves DEF SweepDone
    <3>2. Head(sweeping) \notin subs' \/ Head(sweeping) \in stuck'
      BY <2>2, UnsubscribedIs DEF SweepDone
    <3> QED  BY <2>2, <3>1, <3>2 DEF SweepDone, TornDownBySweep
  <2> QED  BY <2>1, <2>2
<1>7. ASSUME NEW u \in subs'
      PROVE  InGoodHands(u)' \/ u \in (stuck \cup cut)'
  <2>1. UNCHANGED aborted
    BY DEF shutdownVars
  <2>2. HasEntry(pending, u) => InGoodHands(u)'
    BY <1>5, <2>1 DEF InGoodHands
  <2>3. u \notin aborted /\ TornDownByTask(u) => InGoodHands(u)'
    BY <1>2, <2>1 DEF InGoodHands, TornDownByTask
  <2>4. TornDownBySweep(u) => InGoodHands(u)' \/ u \in stuck'
    BY <1>6, <1>7, <2>1 DEF InGoodHands
  <2> QED  BY <1>2, <1>3, <2>2, <2>3, <2>4, RestHands
<1>8. LiveInGoodHands'
  BY <1>7 DEF LiveInGoodHands
<1> QED  BY <1>4, <1>8

\* Every step of the bridge while it runs, and of the world around it.
LEMMA ProxyStepKeeps == ProofInv /\ ProxyStep => ProofInv'
<1> SUFFICES ASSUME ProofInv, ProxyStep  PROVE ProofInv'
  OBVIOUS
<1>1. TypeInv /\ UNCHANGED shutdownVars
  BY DEF ProofInv, ShutdownInv, TypeInv, ProxyStep
<1>2. ASSUME TypeInv', TopicsApart' /\ NotYetLive' /\ LiveInGoodHands',
             DrainIsLast' /\ ShutdownTypeOK'
      PROVE  ProofInv'
  BY <1>2 DEF ProofInv, ShutdownInv, TypeInv
<1>3. ASSUME NEW p \in Pump \ aborted,
             ReceivePlain(p) \/ PumpStep(p)
      PROVE  ProofInv'
  <2>1. TypeInv'
    BY <1>1, <1>3, PumpType
  <2>2. TopicsApart' /\ NotYetLive' /\ LiveInGoodHands'
    BY <1>1, <1>3, PumpStepKeeps
  <2>3. DrainIsLast' /\ ShutdownTypeOK'
    BY <1>1, DrainWaits
  <2> QED  BY <1>2, <2>1, <2>2, <2>3
<1>4. ASSUME NEW p \in Pump \ aborted, NEW t \in Topic, NEW s \in SiteTopic,
             ReceiveRequest(p, t, s)
      PROVE  ProofInv'
  <2>1. TypeInv'
    BY <1>1, <1>4, PumpType
  <2>2. TopicsApart' /\ NotYetLive' /\ LiveInGoodHands'
    BY <1>1, <1>4, RequestKeeps
  <2>3. DrainIsLast' /\ ShutdownTypeOK'
    BY <1>1, DrainWaits
  <2> QED  BY <1>2, <2>1, <2>2, <2>3
<1>5. ASSUME NEW t \in Topic \ aborted, TaskStep(t)
      PROVE  ProofInv'
  <2>1. TypeInv'
    BY <1>1, <1>5, TaskType
  <2>2. TopicsApart' /\ NotYetLive' /\ LiveInGoodHands'
    BY <1>1, <1>5, TaskKeeps
  <2>3. DrainIsLast' /\ ShutdownTypeOK'
    BY <1>1, DrainWaits
  <2> QED  BY <1>2, <2>1, <2>2, <2>3
<1>6. ASSUME Sweeper \notin aborted, Sweep \/ SweepDone
      PROVE  ProofInv'
  <2>1. TypeInv'
    BY <1>1, <1>6, SweepType
  <2>2. TopicsApart' /\ NotYetLive' /\ LiveInGoodHands'
    BY <1>1, <1>6, SweepKeeps
  <2>3. DrainIsLast' /\ ShutdownTypeOK'
    BY <1>1, <1>6, DrainWaits
  <2> QED  BY <1>2, <2>1, <2>2, <2>3
<1>7. ASSUME Tick \/ \E t \in Topic, kind \in {"good", "bad"} : Reply(t, kind)
      PROVE  ProofInv'
  <2>1. TypeInv'
    BY <1>1, <1>7, SweepType, TaskType
  <2>2. UNCHANGED <<pending, pump, task, sweeping, subs, stuck, requester>>
    BY <1>7 DEF Tick, Reply, proxyVars, history
  <2>3. TopicsApart' /\ NotYetLive'
    BY <1>1, <2>2, PumpsRest
  <2>4. ASSUME NEW u \in subs'
        PROVE  InGoodHands(u)' \/ u \in (stuck \cup cut)'
    <3>1. InGoodHands(u)' <=> InGoodHands(u)
      BY <1>1, <2>2 DEF InGoodHands, HeldByPump, TornDownByTask, TornDownBySweep, shutdownVars
    <3> QED  BY <1>1, <2>2, <2>4, <3>1 DEF ProofInv, ShutdownInv, LiveInGoodHands, shutdownVars
  <2>5. LiveInGoodHands'
    BY <2>4 DEF LiveInGoodHands
  <2>6. DrainIsLast' /\ ShutdownTypeOK'
    BY <1>1, <2>2 DEF ProofInv, ShutdownInv, DrainIsLast, ShutdownTypeOK, shutdownVars
  <2> QED  BY <1>2, <2>1, <2>3, <2>5, <2>6
<1> QED  BY <1>3, <1>4, <1>5, <1>6, <1>7 DEF ProxyStep

-----------------------------------------------------------------------------
(* The aborts                                                              *)

\* An abort takes one task away.  What that task alone was going to unsubscribe
\* is in the map, and will be drained, or it is cut; and if the task was about
\* to subscribe, its topic may be live from now on.
LEMMA AbortKeeps ==
  ASSUME ProofInv, phase = "aborting",
         UNCHANGED <<proxyVars, clock, inbox, commanded, history, phase, draining>>,
         NEW gone \in Pump \cup {Sweeper} \cup Topic, aborted' = aborted \cup {gone},
         \A t \in subs' \ subs :
           gone \in Pump /\ pump[gone].at = "subscribing" /\ t = pump[gone].topic,
         cut \subseteq cut', cut' \subseteq Topic,
         \A t \in Topic : gone \in Pump /\ HeldByPump(gone, t) =>
           HasEntry(pending, t) \/ t \in cut',
         gone = Sweeper => ToSet(sweeping) \subseteq cut',
         \A t \in Topic : gone = t /\ TornDownByTask(t) => t \in cut'
  PROVE  ProofInv'
<1>1. TypeOK /\ StageTopics /\ ShutdownTypeOK /\ TopicsApart /\ NotYetLive
      /\ LiveInGoodHands /\ DrainIsLast
  BY DEF ProofInv, ShutdownInv
<1>2. UNCHANGED <<pending, pump, task, target, sweeping, clock, inbox, commanded,
                  requester, relayed, expired, stuck, phase, draining>>
  BY DEF proxyVars, history
<1>3. ASSUME NEW t \in subs' \ subs
      PROVE  t \in Topic /\ Minted(t) /\ gone \in Pump /\ HeldByPump(gone, t)
  <2>1. gone \in Pump /\ pump[gone].at = "subscribing" /\ t = pump[gone].topic
    BY <1>3
  <2>2. t \in Topic
    BY <1>1, <2>1 DEF StageTopics
  <2>3. Minted(t)
    BY <1>1, <2>1, <2>2 DEF TopicsApart
  <2> QED  BY <2>1, <2>2, <2>3 DEF HeldByPump
<1>4. subs' \subseteq Topic
  BY <1>1, <1>3 DEF TypeOK
<1>5. TypeOK'
  BY <1>1, <1>2, <1>4 DEF TypeOK
<1>6. StageTopics'
  BY <1>1, <1>2 DEF StageTopics
<1>7. ShutdownTypeOK'
  BY <1>1, <1>2 DEF ShutdownTypeOK
<1>8. TopicsApart'
  <2>1. \A t \in Topic : Minted(t)' <=> Minted(t)
    BY <1>2 DEF Minted
  <2> QED  BY <1>1, <1>2, <1>3, <2>1 DEF TopicsApart
<1>9. ASSUME NEW q \in Pump, q \notin aborted', pump'[q].at \in {"evicting", "subscribing"},
             pump'[q].topic \in subs'
      PROVE  FALSE
  <2>1. q \notin aborted /\ q /= gone /\ pump[q].topic \in subs' \ subs
    BY <1>1, <1>2, <1>9 DEF NotYetLive
  <2>2. gone \in Pump /\ pump[gone].topic = pump[q].topic /\ pump[q].topic \in Topic
    BY <1>3, <2>1
  <2> QED  BY <1>1, <2>1, <2>2, NoTopicAssumption DEF TopicsApart
<1>10. NotYetLive'
  BY <1>9 DEF NotYetLive
<1>11. ASSUME NEW u \in subs'
       PROVE  InGoodHands(u)' \/ u \in (stuck \cup cut)'
  <2>1. u \in Topic
    BY <1>4, <1>11
  <2>2. /\ \A q \in Pump : HeldByPump(q, u)' <=> HeldByPump(q, u)
        /\ TornDownByTask(u)' <=> TornDownByTask(u)
        /\ TornDownBySweep(u)' <=> TornDownBySweep(u)
    BY <1>2 DEF HeldByPump, TornDownByTask, TornDownBySweep
  <2>3. CASE u \notin subs
    BY <1>2, <1>3, <2>1, <2>3 DEF InGoodHands
  <2>4. CASE HasEntry(pending, u) \/ u \in ToSet(draining)
    BY <1>2, <2>4 DEF InGoodHands
  <2>5. ASSUME NEW q \in Pump \ aborted, HeldByPump(q, u)
        PROVE  InGoodHands(u)' \/ u \in (stuck \cup cut)'
    <3>1. CASE q = gone
      BY <1>2, <2>1, <2>5, <3>1 DEF InGoodHands
    <3>2. CASE q /= gone
      BY <2>2, <2>5, <3>2 DEF InGoodHands
    <3> QED  BY <3>1, <3>2
  <2>6. CASE u \notin aborted /\ TornDownByTask(u)
    <3>1. CASE gone = u
      BY <2>1, <2>6, <3>1
    <3>2. CASE gone /= u
      BY <2>2, <2>6, <3>2 DEF InGoodHands
    <3> QED  BY <3>1, <3>2
  <2>7. CASE Sweeper \notin aborted /\ TornDownBySweep(u)
    <3>1. CASE gone = Sweeper
      BY <2>7, <3>1 DEF TornDownBySweep
    <3>2. CASE gone /= Sweeper
      BY <2>2, <2>7, <3>2 DEF InGoodHands
    <3> QED  BY <3>1, <3>2
  <2>8. CASE u \in stuck \cup cut
    BY <1>2, <2>8
  <2> QED  BY <1>1, <2>3, <2>4, <2>5, <2>6, <2>7, <2>8 DEF LiveInGoodHands, InGoodHands
<1>12. LiveInGoodHands'
  BY <1>11 DEF LiveInGoodHands
<1>13. DrainIsLast'
  BY <1>1, <1>2 DEF DrainIsLast
<1> QED
  BY <1>5, <1>6, <1>7, <1>8, <1>10, <1>12, <1>13 DEF ProofInv, ShutdownInv

LEMMA AbortPumpKeeps ==
  ASSUME ProofInv, NEW p \in Pump, AbortPump(p)
  PROVE  ProofInv'
<1>1. /\ phase = "aborting" /\ aborted' = aborted \cup {p}
      /\ cut' = cut \cup {t \in Topic : HeldByPump(p, t) /\ ~ HasEntry(pending, t)}
      /\ UNCHANGED <<proxyVars, clock, inbox, commanded, history, phase, draining>>
  BY DEF AbortPump
<1>2. \A t \in subs' \ subs : pump[p].at = "subscribing" /\ t = pump[p].topic
  BY DEF AbortPump, SubscribeInFlight, UnsubscribeInFlight
<1>3. cut \subseteq Topic
  BY DEF ProofInv, ShutdownInv, ShutdownTypeOK
<1>4. p /= Sweeper /\ \A t \in Topic : p /= t
  BY TaskAssumption
<1>5. /\ cut \subseteq cut' /\ cut' \subseteq Topic
      /\ \A t \in Topic : HeldByPump(p, t) => HasEntry(pending, t) \/ t \in cut'
  BY <1>1, <1>3
<1> QED  BY <1>1, <1>2, <1>4, <1>5, AbortKeeps

LEMMA AbortSweeperKeeps == ProofInv /\ AbortSweeper => ProofInv'
<1> SUFFICES ASSUME ProofInv, AbortSweeper  PROVE ProofInv'
  OBVIOUS
<1>1. /\ phase = "aborting" /\ aborted' = aborted \cup {Sweeper}
      /\ cut' = cut \cup ToSet(sweeping)
      /\ UNCHANGED <<proxyVars, clock, inbox, commanded, history, phase, draining>>
  BY DEF AbortSweeper
<1>2. subs' \subseteq subs
  BY DEF AbortSweeper, UnsubscribeInFlight
<1>3. cut \subseteq Topic /\ sweeping \in Seq(Topic)
  BY DEF ProofInv, ShutdownInv, ShutdownTypeOK, TypeOK
<1>4. ToSet(sweeping) \subseteq Topic
  BY <1>3, ElementOfSeq, LenProperties DEF ToSet
<1>5. Sweeper \notin Pump /\ \A t \in Topic : Sweeper /= t
  BY TaskAssumption
<1> QED  BY <1>1, <1>2, <1>3, <1>4, <1>5, AbortKeeps

LEMMA AbortReplyKeeps ==
  ASSUME ProofInv, NEW t \in Topic, AbortReply(t)
  PROVE  ProofInv'
<1>1. /\ phase = "aborting" /\ aborted' = aborted \cup {t}
      /\ UNCHANGED <<proxyVars, clock, inbox, commanded, history, phase, draining>>
  BY DEF AbortReply
<1>2. subs' \subseteq subs
  BY DEF AbortReply, UnsubscribeInFlight
<1>3. cut \subseteq Topic
  BY DEF ProofInv, ShutdownInv, ShutdownTypeOK
<1>4. /\ cut \subseteq cut' /\ cut' \subseteq Topic
      /\ TornDownByTask(t) => t \in cut'
  BY <1>3 DEF AbortReply
<1>5. t /= Sweeper /\ t \notin Pump
  BY TaskAssumption
<1> QED  BY <1>1, <1>2, <1>4, <1>5, AbortKeeps

-----------------------------------------------------------------------------
(* The drain                                                               *)

\* The map's topics, all of them, are what the drain unsubscribes.
LEMMA DrainTakesAll ==
  ASSUME NEW q \in Seq(Entry)
  PROVE  LET d == [i \in DOMAIN q |-> q[i].topic] IN
         d \in Seq(Topic) /\ ToSet(d) = TopicsOf(q)
<1>1. /\ Len(q) \in Nat /\ DOMAIN q = 1 .. Len(q)
      /\ \A i \in DOMAIN q : q[i].topic \in Topic
  BY EntryTypes
<1>2. [i \in DOMAIN q |-> q[i].topic] \in Seq(Topic)
  BY <1>1, IsASeq
<1> QED  BY <1>2 DEF ToSet, TopicsOf

LEMMA StartDrainKeeps == ProofInv /\ StartDrain => ProofInv'
<1> SUFFICES ASSUME ProofInv, StartDrain  PROVE ProofInv'
  OBVIOUS
<1>1. TypeOK /\ StageTopics /\ ShutdownTypeOK /\ TopicsApart /\ NotYetLive
      /\ LiveInGoodHands /\ DrainIsLast
  BY DEF ProofInv, ShutdownInv
<1>2. /\ phase = "aborting" /\ Pump \cup {Sweeper} \cup Topic \subseteq aborted
      /\ pending' = <<>> /\ phase' = "draining"
      /\ draining' = [i \in DOMAIN pending |-> pending[i].topic]
      /\ UNCHANGED <<pump, task, target, sweeping, clock, subs, inbox, commanded,
                     requester, relayed, expired, stuck, aborted, cut>>
  BY DEF StartDrain, envVars, history
<1>3. pending \in Seq(Entry)
  BY <1>1 DEF TypeOK
<1>4. draining' \in Seq(Topic) /\ ToSet(draining') = TopicsOf(pending)
  BY <1>2, <1>3, DrainTakesAll
<1>5. TypeOK'
  <2>1. pending' \in Seq(Entry) /\ Len(pending') <= MaxPending
    BY <1>2, EmptySeq, MaxPendingAssumption
  <2> QED  BY <1>1, <1>2, <2>1 DEF TypeOK
<1>6. StageTopics'
  BY <1>1, <1>2 DEF StageTopics
<1>7. ShutdownTypeOK'
  BY <1>1, <1>2, <1>4 DEF ShutdownTypeOK, Phase
<1>8. TopicsApart' /\ NotYetLive'
  BY <1>1, <1>2 DEF TopicsApart, NotYetLive, Minted
<1>9. ASSUME NEW u \in subs'
      PROVE  u \in ToSet(draining') \/ u \in stuck \cup cut
  <2>1. u \in Topic
    BY <1>1, <1>2 DEF TypeOK
  <2>2. InGoodHands(u) \/ u \in stuck \cup cut
    BY <1>1, <1>2 DEF LiveInGoodHands
  <2>3. draining = <<>>
    BY <1>1, <1>2 DEF DrainIsLast
  <2>4. u \notin ToSet(draining)
    BY <2>3 DEF ToSet
  <2>5. InGoodHands(u) => HasEntry(pending, u)
    BY <1>2, <2>1, <2>4 DEF InGoodHands
  <2> QED  BY <1>4, <2>2, <2>5 DEF HasEntry
<1>10. LiveInGoodHands'
  BY <1>2, <1>9 DEF LiveInGoodHands, InGoodHands
<1>11. DrainIsLast'
  BY <1>2 DEF DrainIsLast
<1> QED
  BY <1>5, <1>6, <1>7, <1>8, <1>10, <1>11 DEF ProofInv, ShutdownInv

LEMMA DrainDoneKeeps == ProofInv /\ DrainDone => ProofInv'
<1> SUFFICES ASSUME ProofInv, DrainDone  PROVE ProofInv'
  OBVIOUS
<1>1. TypeOK /\ StageTopics /\ ShutdownTypeOK /\ TopicsApart /\ NotYetLive
      /\ LiveInGoodHands /\ DrainIsLast
  BY DEF ProofInv, ShutdownInv
<1>2. /\ draining /= <<>> /\ draining' = Tail(draining)
      /\ UNCHANGED <<pending, pump, task, target, sweeping, clock, inbox, commanded,
                     requester, relayed, expired, phase, aborted, cut>>
  BY DEF DrainDone, proxyVars
<1>3. draining \in Seq(Topic)
  BY <1>1 DEF ShutdownTypeOK
<1>4. Head(draining) \in Topic /\ draining' \in Seq(Topic)
  BY <1>2, <1>3, HeadTailProperties
<1>5. /\ subs' \subseteq subs /\ stuck \subseteq stuck'
      /\ Head(draining) \notin subs' \/ Head(draining) \in stuck'
  BY UnsubscribedIs DEF DrainDone
<1>6. subs' \subseteq Topic /\ stuck' \subseteq Topic
  BY <1>1, <1>4 DEF TypeOK, DrainDone, Unsubscribed
<1>7. TypeOK'
  BY <1>1, <1>2, <1>6 DEF TypeOK
<1>8. StageTopics'
  BY <1>1, <1>2 DEF StageTopics
<1>9. ShutdownTypeOK'
  BY <1>1, <1>2, <1>4 DEF ShutdownTypeOK
<1>10. TopicsApart' /\ NotYetLive'
  <2>1. \A t \in Topic : Minted(t)' <=> Minted(t)
    BY <1>2 DEF Minted
  <2> QED  BY <1>1, <1>2, <1>5, <2>1 DEF TopicsApart, NotYetLive
<1>11. ASSUME NEW u \in subs'
       PROVE  InGoodHands(u)' \/ u \in (stuck \cup cut)'
  <2>1. InGoodHands(u) \/ u \in stuck \cup cut
    BY <1>1, <1>5 DEF LiveInGoodHands
  <2>2. u \in ToSet(draining) => u \in ToSet(draining') \/ u \in stuck'
    BY <1>2, <1>3, <1>5, <1>11, TailLeaves
  <2>3. /\ \A q \in Pump : HeldByPump(q, u)' <=> HeldByPump(q, u)
        /\ TornDownByTask(u)' <=> TornDownByTask(u)
        /\ TornDownBySweep(u)' <=> TornDownBySweep(u)
    BY <1>2 DEF HeldByPump, TornDownByTask, TornDownBySweep
  <2>4. InGoodHands(u) => InGoodHands(u)' \/ u \in stuck'
    BY <1>2, <2>2, <2>3 DEF InGoodHands
  <2> QED  BY <1>2, <1>5, <2>1, <2>4
<1>12. LiveInGoodHands'
  BY <1>11 DEF LiveInGoodHands
<1>13. DrainIsLast'
  BY <1>1, <1>2, EmptySeq DEF DrainIsLast, ShutdownTypeOK, Phase
<1> QED
  BY <1>7, <1>8, <1>9, <1>10, <1>12, <1>13 DEF ProofInv, ShutdownInv

-----------------------------------------------------------------------------

\* The steps that only move the shutdown on, and stuttering.
LEMMA PhaseKeeps ==
  ASSUME ProofInv, UNCHANGED <<vars, aborted, draining, cut>>,
         \/ phase' = phase
         \/ phase = "running" /\ phase' = "aborting"
         \/ phase = "draining" /\ phase' = "stopped" /\ draining = <<>>
  PROVE  ProofInv'
<1>1. UNCHANGED <<pending, pump, task, target, sweeping, clock, subs, inbox, commanded,
                  requester, relayed, expired, stuck, aborted, draining, cut>>
  BY DEF vars, proxyVars, envVars, history
<1>2. TypeOK /\ StageTopics /\ ShutdownTypeOK /\ TopicsApart /\ NotYetLive
      /\ LiveInGoodHands /\ DrainIsLast
  BY DEF ProofInv, ShutdownInv
<1>3. TypeOK'
  BY <1>1, <1>2 DEF TypeOK
<1>4. StageTopics' /\ TopicsApart' /\ NotYetLive'
  BY <1>1, <1>2 DEF StageTopics, TopicsApart, NotYetLive, Minted
<1>5. ShutdownTypeOK'
  BY <1>1, <1>2 DEF ShutdownTypeOK, Phase
<1>6. \A u : InGoodHands(u)' <=> InGoodHands(u)
  BY <1>1 DEF InGoodHands, HeldByPump, TornDownByTask, TornDownBySweep
<1>7. LiveInGoodHands'
  BY <1>1, <1>2, <1>6 DEF LiveInGoodHands
<1>8. DrainIsLast'
  BY <1>1, <1>2 DEF DrainIsLast
<1> QED
  BY <1>3, <1>4, <1>5, <1>7, <1>8 DEF ProofInv, ShutdownInv

LEMMA ShutdownStep == ProofInv /\ [SNext]_allVars => ProofInv'
<1> SUFFICES ASSUME ProofInv, [SNext]_allVars  PROVE ProofInv'
  OBVIOUS
<1>1. CASE ProxyStep
  BY <1>1, ProxyStepKeeps
<1>2. CASE \E p \in Pump : AbortPump(p)
  BY <1>2, AbortPumpKeeps
<1>3. CASE AbortSweeper
  BY <1>3, AbortSweeperKeeps
<1>4. CASE \E t \in Topic : AbortReply(t)
  BY <1>4, AbortReplyKeeps
<1>5. CASE StartDrain
  BY <1>5, StartDrainKeeps
<1>6. CASE DrainDone
  BY <1>6, DrainDoneKeeps
<1>7. CASE Shutdown \/ Stop \/ UNCHANGED allVars
  BY <1>7, PhaseKeeps DEF Shutdown, Stop, allVars, shutdownVars
<1> QED  BY <1>1, <1>2, <1>3, <1>4, <1>5, <1>6, <1>7 DEF SNext

\* A shutdown at any moment, with the tasks at any of their awaits and the calls
\* in flight taking effect or not: while the tasks are aborted and the map is
\* drained, every live reply topic stays in the hands of somebody who still runs,
\* or is known to be stuck or cut (RelayIo::shutdown).
THEOREM ShutdownKeepsInv == SSpec => []ShutdownInv
<1>1. ProofInv => ShutdownInv
  BY DEF ProofInv
<1> QED  BY <1>1, InitInv, ShutdownStep, PTL DEF SSpec

\* Once the relay has stopped, a bridge reply topic is still routed to it only if
\* its unsubscribe failed, or an aborted task was in the middle of tearing it
\* down (RelayIo::shutdown, io.rs).
THEOREM ShutdownLeaksOnlyCut == SSpec => []StoppedLeaksOnlyCut
<1>1. ASSUME ShutdownInv
      PROVE  StoppedLeaksOnlyCut
  <2> SUFFICES ASSUME phase = "stopped", NEW u \in subs
               PROVE  u \in stuck \cup cut
    BY DEF StoppedLeaksOnlyCut
  <2>1. /\ pending = <<>> /\ draining = <<>>
        /\ Pump \cup {Sweeper} \cup Topic \subseteq aborted
    BY <1>1 DEF ShutdownInv, DrainIsLast
  <2>2. u \in Topic /\ (InGoodHands(u) \/ u \in stuck \cup cut)
    BY <1>1 DEF ShutdownInv, TypeOK, LiveInGoodHands
  <2>3. ~ HasEntry(pending, u) /\ u \notin ToSet(draining)
    BY <2>1, EmptySeq DEF HasEntry, TopicsOf, ToSet
  <2> QED  BY <2>1, <2>2, <2>3 DEF InGoodHands
<1> QED  BY <1>1, ShutdownKeepsInv, PTL

=============================================================================
