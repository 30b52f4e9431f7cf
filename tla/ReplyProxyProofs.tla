--------------------------- MODULE ReplyProxyProofs ---------------------------
(***************************************************************************)
(* Invariance proofs of the reply proxy, for every set of topics, sites    *)
(* and pumps, every TTL and every maxPending.                              *)
(***************************************************************************)
EXTENDS ReplyProxy, ReplyCorrelatorProofs

\* What a stage says of the topics it holds; TypeOK is not inductive without
\* it: a pump would subscribe, or a reply pump publish to, no topic.
StageTopics ==
  /\ \A p \in Pump : pump[p].at \notin {"idle", "forwarding"} => pump[p].topic \in Topic
  /\ \A p \in Pump : pump[p].at = "evicting" => pump[p].victim \in Topic
  /\ \A t \in Topic : task[t] = "publishing" => target[t] \in SiteTopic

TypeInv == TypeOK /\ StageTopics

LEMMA InitType == Init => TypeInv
<1> SUFFICES ASSUME Init  PROVE TypeInv
  OBVIOUS
<1>1. pending \in Seq(Entry) /\ Len(pending) <= MaxPending /\ sweeping \in Seq(Topic)
  BY EmptySeq, MaxPendingAssumption DEF Init
<1>2. TypeOK
  BY <1>1, MaxClockAssumption DEF Init, TypeOK, Stage, TaskStage, Idle
<1>3. StageTopics
  BY DEF Init, StageTopics, Idle
<1> QED  BY <1>2, <1>3 DEF TypeInv

\* The steps of a downlink pump.
LEMMA PumpType ==
  ASSUME TypeInv, NEW p \in Pump,
         \/ ReceivePlain(p)
         \/ \E t \in Topic, s \in SiteTopic : ReceiveRequest(p, t, s)
         \/ PumpStep(p)
  PROVE  TypeInv'
<1> USE DEF TypeInv
<1>1. CASE ReceivePlain(p)
  <2>1. TypeOK'
    BY <1>1 DEF ReceivePlain, TypeOK, Idle, Stage, envVars, history
  <2>2. StageTopics'
    BY <1>1 DEF ReceivePlain, TypeOK, StageTopics, Idle, Stage, envVars, history
  <2> QED  BY <2>1, <2>2
<1>2. ASSUME NEW t \in Topic, NEW s \in SiteTopic, ReceiveRequest(p, t, s)
      PROVE  TypeInv'
  <2>1. pending \in Seq(Entry) /\ Len(pending) <= MaxPending /\ clock \in Nat
    BY DEF TypeOK
  <2>2. pending' \in Seq(Entry) /\ Len(pending') <= MaxPending
    BY <1>2, <2>1, RecordShape DEF ReceiveRequest
  <2>3. Evicted(pending) = {} \/ pending[1].topic \in Topic
    <3>1. IsFull(pending) => 1 \in DOMAIN pending
      BY <2>1, LenProperties, MaxPendingAssumption DEF IsFull
    <3> QED  BY <2>1, <3>1, EntryTypes DEF Evicted
  <2>4. /\ pump' = [pump EXCEPT ![p] = pump'[p]]
        /\ pump'[p] \in [at : {"subscribing", "evicting"}, topic : {t},
                         victim : Topic \cup {NoTopic}]
        /\ pump'[p].at = "evicting" => pump'[p].victim \in Topic
    BY <1>2, <2>3 DEF ReceiveRequest, TypeOK
  <2>5. expired' \in [Topic -> Nat]
    BY <1>2 DEF ReceiveRequest, TypeOK
  <2>6. requester' \in [Topic -> SiteTopic \cup {NoSite}]
    BY <1>2 DEF ReceiveRequest, TypeOK
  <2>7. pump' \in [Pump -> [at : Stage, topic : Topic \cup {NoTopic},
                            victim : Topic \cup {NoTopic}]]
    BY <2>4 DEF TypeOK, Stage
  <2>8. TypeOK'
    BY <1>2, <2>2, <2>5, <2>6, <2>7 DEF ReceiveRequest, TypeOK, envVars
  <2>9. StageTopics'
    BY <1>2, <2>4 DEF ReceiveRequest, StageTopics, TypeOK
  <2> QED  BY <2>8, <2>9
<1>3. CASE EvictDone(p)
  <2>1. pump[p].victim \in Topic
    BY <1>3 DEF EvictDone, StageTopics
  <2>2. pump' = [pump EXCEPT ![p] =
                  [at |-> "subscribing", topic |-> pump[p].topic, victim |-> NoTopic]]
    BY <1>3 DEF EvictDone, TypeOK
  <2>3. TypeOK'
    BY <1>3, <2>1, <2>2 DEF EvictDone, Unsubscribed, TypeOK, Stage
  <2>4. StageTopics'
    BY <1>3, <2>2 DEF EvictDone, TypeOK, StageTopics
  <2> QED  BY <2>3, <2>4
<1>4. CASE SubscribeLive(p)
  <2>1. pump[p].topic \in Topic
    BY <1>4 DEF SubscribeLive, StageTopics
  <2>2. TypeOK'
    BY <1>4, <2>1 DEF SubscribeLive, TypeOK, Stage, history
  <2>3. StageTopics'
    BY <1>4 DEF SubscribeLive, TypeOK, StageTopics
  <2> QED  BY <2>2, <2>3
<1>5. CASE SubscribeFails(p)
  <2>1. pending' \in Seq(Entry) /\ Len(pending') <= MaxPending
    <3>1. Len(pending) \in Nat /\ Len(pending') \in Nat /\ Len(pending') <= Len(pending)
          /\ pending' \in Seq(Entry)
      BY <1>5, TakeType, LenProperties DEF SubscribeFails, TypeOK
    <3> QED  BY <3>1, MaxPendingAssumption DEF TypeOK
  <2>2. TypeOK'
    BY <1>5, <2>1 DEF SubscribeFails, TypeOK, Stage, Idle, envVars, history
  <2>3. StageTopics'
    BY <1>5 DEF SubscribeFails, TypeOK, StageTopics, Idle
  <2> QED  BY <2>2, <2>3
<1>6. CASE CheckEntry(p)
  <2>1. /\ pump' \in [Pump -> [at : Stage, topic : Topic \cup {NoTopic},
                               victim : Topic \cup {NoTopic}]]
        /\ pump'[p].at \in {"forwarding", "dropping"} /\ pump'[p].topic = pump[p].topic
        /\ \A q \in Pump \ {p} : pump'[q] = pump[q]
    <3> DEFINE moved(at) == [pump EXCEPT ![p].at = at]
    <3>1. ASSUME NEW at \in {"forwarding", "dropping"}
          PROVE  /\ moved(at) \in [Pump -> [at : Stage, topic : Topic \cup {NoTopic},
                                            victim : Topic \cup {NoTopic}]]
                 /\ moved(at)[p].at = at /\ moved(at)[p].topic = pump[p].topic
                 /\ \A q \in Pump \ {p} : moved(at)[q] = pump[q]
      BY DEF TypeOK, Stage
    <3>2. pump' = moved("forwarding") \/ pump' = moved("dropping")
      BY <1>6 DEF CheckEntry
    <3> HIDE DEF moved
    <3> QED  BY <3>1, <3>2
  <2>2. task' \in [Topic -> TaskStage]
    BY <1>6 DEF CheckEntry, TypeOK, TaskStage
  <2>3. TypeOK'
    BY <1>6, <2>1, <2>2 DEF CheckEntry, TypeOK, envVars, history
  <2>4. StageTopics'
    <3>1. \A t \in Topic : task'[t] = "publishing" => task[t] = "publishing"
      BY <1>6 DEF CheckEntry, TypeOK
    <3>2. pump[p].topic \in Topic
      BY <1>6 DEF CheckEntry, StageTopics
    <3> QED  BY <1>6, <2>1, <3>1, <3>2 DEF CheckEntry, TypeOK, StageTopics
  <2> QED  BY <2>3, <2>4
<1>7. CASE DropDone(p)
  <2>1. pump[p].topic \in Topic
    BY <1>7 DEF DropDone, StageTopics
  <2>2. TypeOK'
    BY <1>7, <2>1 DEF DropDone, Unsubscribed, TypeOK, Stage
  <2>3. StageTopics'
    BY <1>7 DEF DropDone, TypeOK, StageTopics
  <2> QED  BY <2>2, <2>3
<1>8. CASE Forward(p)
  <2>1. commanded' \subseteq Topic
    BY <1>8 DEF Forward, TypeOK
  <2>2. TypeOK'
    BY <1>8, <2>1 DEF Forward, TypeOK, Stage, Idle, history
  <2>3. StageTopics'
    BY <1>8 DEF Forward, TypeOK, StageTopics, Idle
  <2> QED  BY <2>2, <2>3
<1> QED  BY <1>1, <1>2, <1>3, <1>4, <1>5, <1>6, <1>7, <1>8 DEF PumpStep

\* The steps of a reply pump, and the replies that reach it.
LEMMA TaskType ==
  ASSUME TypeInv, NEW t \in Topic,
         TaskStep(t) \/ \E kind \in {"good", "bad"} : Reply(t, kind)
  PROVE  TypeInv'
<1> USE DEF TypeInv
<1>1. CASE \E kind \in {"good", "bad"} : Reply(t, kind)
  <2>1. TypeOK'
    BY <1>1 DEF Reply, TypeOK, proxyVars, history
  <2>2. StageTopics'
    BY <1>1 DEF Reply, StageTopics, proxyVars
  <2> QED  BY <2>1, <2>2
<1>2. CASE TakeReply(t)
  <2>1. Len(pending) \in Nat /\ pending \in Seq(Entry) /\ Len(pending) <= MaxPending
    BY LenProperties DEF TypeOK
  <2>2. CASE ~ HasEntry(pending, t)
    <3>1. TypeOK'
      BY <1>2, <2>2 DEF TakeReply, TypeOK, TaskStage, history
    <3>2. StageTopics'
      BY <1>2, <2>2 DEF TakeReply, StageTopics, TypeOK
    <3> QED  BY <3>1, <3>2
  <2>3. CASE HasEntry(pending, t)
    <3>1. pending' \in Seq(Entry) /\ Len(pending') <= MaxPending
      <4>1. /\ pending' \in Seq(Entry) /\ Len(pending') <= Len(pending)
            /\ Len(pending') \in Nat
        BY <1>2, <2>1, <2>3, TakeType, LenProperties DEF TakeReply
      <4> QED  BY <2>1, <4>1, MaxPendingAssumption
    <3>2. SiteOf(pending, t) \in SiteTopic
      <4>1. IndexOf(pending, t) \in 1 .. Len(pending)
        BY <2>1, <2>3, TakeShape
      <4> QED  BY <2>1, <4>1, EntryTypes DEF SiteOf
    <3>3. target' \in [Topic -> SiteTopic \cup {NoSite}]
      BY <1>2, <2>3, <3>2 DEF TakeReply, TypeOK
    <3>4. task' \in [Topic -> TaskStage]
      BY <1>2, <2>3 DEF TakeReply, TypeOK, TaskStage
    <3>5. TypeOK'
      BY <1>2, <3>1, <3>3, <3>4 DEF TakeReply, TypeOK, history
    <3>6. StageTopics'
      BY <1>2, <2>3, <3>2 DEF TakeReply, StageTopics, TypeOK
    <3> QED  BY <3>5, <3>6
  <2> QED  BY <2>2, <2>3
<1>3. CASE CloseSub(t)
  <2>1. TypeOK'
    BY <1>3 DEF CloseSub, TypeOK, TaskStage, envVars, history
  <2>2. StageTopics'
    BY <1>3 DEF CloseSub, TypeOK, StageTopics
  <2> QED  BY <2>1, <2>2
<1>4. CASE PublishReply(t)
  <2>1. target[t] \in SiteTopic
    BY <1>4 DEF PublishReply, StageTopics
  <2>2. TypeOK'
    BY <1>4, <2>1 DEF PublishReply, TypeOK, TaskStage, envVars
  <2>3. StageTopics'
    BY <1>4 DEF PublishReply, TypeOK, StageTopics
  <2> QED  BY <2>2, <2>3
<1>5. CASE SettleDone(t)
  <2>1. TypeOK'
    BY <1>5 DEF SettleDone, Unsubscribed, TypeOK, TaskStage
  <2>2. StageTopics'
    BY <1>5 DEF SettleDone, TypeOK, StageTopics
  <2> QED  BY <2>1, <2>2
<1> QED  BY <1>1, <1>2, <1>3, <1>4, <1>5 DEF TaskStep

\* Counting a drained topic keeps the counters natural numbers.
LEMMA CountExpiredType ==
  ASSUME expired \in [Topic -> Nat], NEW s \in Seq(Topic)
  PROVE  CountExpired(s) \in [Topic -> Nat]
<1>1. CASE s = <<>>
  BY <1>1 DEF CountExpired
<1>2. CASE s /= <<>>
  <2>1. Head(s) \in Topic
    BY <1>2, HeadTailProperties
  <2> QED  BY <1>2, <2>1 DEF CountExpired
<1> QED  BY <1>1, <1>2

\* The sweep task and the clock.
LEMMA SweepType ==
  ASSUME TypeInv, Sweep \/ SweepDone \/ Tick
  PROVE  TypeInv'
<1> USE DEF TypeInv
<1>1. CASE Sweep
  <2>1. Len(pending) \in Nat /\ pending \in Seq(Entry) /\ Len(pending) <= MaxPending
        /\ clock \in Nat
    BY LenProperties DEF TypeOK
  <2>2. /\ sweeping' \in Seq(Topic) /\ pending' \in Seq(Entry)
        /\ FirstLive(pending, clock) \in 0 .. Len(pending)
        /\ Len(pending') = Len(pending) - FirstLive(pending, clock)
    BY <1>1, <2>1, SweepShape DEF Sweep
  <2>3. Len(pending') <= MaxPending
    BY <2>1, <2>2, MaxPendingAssumption
  <2>4. expired' \in [Topic -> Nat]
    BY <1>1, <2>2, CountExpiredType DEF Sweep, TypeOK
  <2>5. TypeOK'
    BY <1>1, <2>2, <2>3, <2>4 DEF Sweep, TypeOK, envVars
  <2>6. StageTopics'
    BY <1>1 DEF Sweep, StageTopics
  <2> QED  BY <2>5, <2>6
<1>2. CASE SweepDone
  <2>1. Head(sweeping) \in Topic /\ sweeping' \in Seq(Topic)
    BY <1>2, HeadTailProperties DEF SweepDone, TypeOK
  <2>2. expired' \in [Topic -> Nat]
    BY <1>2, <2>1, CountExpiredType DEF SweepDone, TypeOK
  <2>3. TypeOK'
    BY <1>2, <2>1, <2>2 DEF SweepDone, Unsubscribed, TypeOK
  <2>4. StageTopics'
    BY <1>2 DEF SweepDone, StageTopics
  <2> QED  BY <2>3, <2>4
<1>3. CASE Tick
  <2>1. TypeOK'
    BY <1>3, MaxClockAssumption DEF Tick, TypeOK, proxyVars, history
  <2>2. StageTopics'
    BY <1>3 DEF Tick, StageTopics, proxyVars
  <2> QED  BY <2>1, <2>2
<1> QED  BY <1>1, <1>2, <1>3

\* A step of the proxy, or a stutter, keeps TypeInv.
LEMMA TypeStep == TypeInv /\ [Next]_vars => TypeInv'
<1> SUFFICES ASSUME TypeInv, [Next]_vars  PROVE TypeInv'
  OBVIOUS
<1>1. CASE Next
  BY <1>1, PumpType, TaskType, SweepType DEF Next
<1>2. CASE UNCHANGED vars
  BY <1>2 DEF TypeInv, TypeOK, StageTopics, vars, proxyVars, envVars, history
<1> QED  BY <1>1, <1>2

\* Every variable keeps its type whatever the pumps, the reply pumps and the
\* sweep interleave; in particular the correlation map never holds more than
\* reply.maxPending entries (rewrite_downlink, reply.rs).
THEOREM TypeCorrect == Spec => []TypeOK
<1>1. TypeInv => TypeOK
  BY DEF TypeInv
<1> QED  BY <1>1, InitType, TypeStep, PTL DEF Spec

=============================================================================
