------------------------- MODULE ReplyInvariantProofs -------------------------
(***************************************************************************)
(* IInv is inductive, so the safety properties of the reply proxy hold for *)
(* every set of topics, sites and pumps.  One lemma per action, and in it  *)
(* one step per part of IInv that the action can disturb.  And with IInv   *)
(* the proxy implements the safety part of OneShotReply.                   *)
(***************************************************************************)
EXTENDS ReplyProxyProofs

\* IInv without the types.
Parts == FreshIsUnused /\ MapInv /\ PumpInv /\ TornDownIsOut /\ SweepInv /\ TargetInv
           /\ LiveHasOwner

LEMMA IInvType == IInv => TypeInv /\ Parts
BY DEF IInv, Parts, TypeInv, TypeOK, StageTopics, PumpInv, TargetInv

\* Only pump p moves.
LEMMA PumpFrame ==
  ASSUME TypeOK, NEW p \in Pump, NEW e, pump' = [pump EXCEPT ![p] = e]
  PROVE  pump'[p] = e /\ \A q \in Pump \ {p} : pump'[q] = pump[q]
BY DEF TypeOK

LEMMA InitIInv == Init => IInv
<1> SUFFICES ASSUME Init  PROVE IInv
  OBVIOUS
<1>1. TypeOK
  BY InitType DEF TypeInv
<1>2. \A t : ~ HasEntry(pending, t) /\ t \notin ToSet(sweeping)
  BY EmptySeq DEF Init, HasEntry, TopicsOf, ToSet
<1>3. FreshIsUnused
  BY <1>2, NoTopicAssumption DEF Init, FreshIsUnused, Minted, Idle
<1>4. DOMAIN pending = {} /\ DOMAIN sweeping = {}
  BY DEF Init
<1>5. MapInv
  BY <1>4 DEF MapInv
<1>6. PumpInv
  BY NoTopicAssumption DEF Init, PumpInv, Idle
<1>7. TornDownIsOut
  BY <1>2 DEF TornDownIsOut
<1>8. SweepInv
  BY <1>4 DEF Init, SweepInv
<1>9. TargetInv
  BY DEF Init, TargetInv, ReplyGoesHome
<1>10. LiveHasOwner
  BY DEF Init, LiveHasOwner
<1> QED  BY <1>1, <1>3, <1>5, <1>6, <1>7, <1>8, <1>9, <1>10 DEF IInv

-----------------------------------------------------------------------------

LEMMA ReceivePlainKeeps ==
  ASSUME TypeInv, Parts, NEW p \in Pump, ReceivePlain(p)
  PROVE  Parts'
<1> USE DEF Parts
<1>1. /\ pump[p].at = "idle"
      /\ pump'[p] = [at |-> "forwarding", topic |-> NoTopic, victim |-> NoTopic]
      /\ \A q \in Pump \ {p} : pump'[q] = pump[q]
  BY DEF ReceivePlain, TypeInv, TypeOK, Idle
<1>2. UNCHANGED <<pending, task, target, sweeping, clock, subs, commanded, requester,
                  relayed, expired, stuck>>
  BY DEF ReceivePlain, envVars, history
<1>3. FreshIsUnused'
  BY <1>1, <1>2, NoTopicAssumption DEF FreshIsUnused, Minted
<1>4. MapInv'
  BY <1>2 DEF MapInv
<1>5. PumpInv'
  BY <1>1, <1>2, NoTopicAssumption DEF PumpInv
<1>6. TornDownIsOut'
  BY <1>1, <1>2, NoTopicAssumption DEF TornDownIsOut
<1>7. SweepInv' /\ TargetInv'
  BY <1>2 DEF SweepInv, TargetInv, ReplyGoesHome
<1>8. LiveHasOwner'
  BY <1>1, <1>2 DEF LiveHasOwner, TornDownByPump, HeldByPump, TornDownByTask, TornDownBySweep
<1> QED  BY <1>3, <1>4, <1>5, <1>6, <1>7, <1>8

LEMMA EvictDoneKeeps ==
  ASSUME TypeInv, Parts, NEW p \in Pump, EvictDone(p)
  PROVE  Parts'
<1> USE DEF Parts
<1> DEFINE v == pump[p].victim
<1>1. /\ pump[p].at = "evicting"
      /\ pump'[p] = [at |-> "subscribing", topic |-> pump[p].topic, victim |-> NoTopic]
      /\ \A q \in Pump \ {p} : pump'[q] = pump[q]
  BY DEF EvictDone, TypeInv, TypeOK
<1>2. UNCHANGED <<pending, task, target, sweeping, clock, commanded, requester,
                  relayed, expired>>
  BY DEF EvictDone
<1>3. /\ subs \ {v} \subseteq subs' /\ subs' \subseteq subs /\ stuck \subseteq stuck'
      /\ v \in subs' => v \in stuck'
  BY DEF EvictDone, Unsubscribed
<1>4. v \in Topic /\ ~ HasEntry(pending, v)
  BY <1>1 DEF PumpInv, TornDownIsOut
<1> HIDE DEF v
<1>5. FreshIsUnused'
  BY <1>1, <1>2, <1>3, NoTopicAssumption DEF FreshIsUnused, Minted
<1>6. MapInv'
  BY <1>2 DEF MapInv
<1>7. PumpInv'
  BY <1>1, <1>2, <1>3, <1>4, NoTopicAssumption DEF PumpInv
<1>8. TornDownIsOut'
  BY <1>1, <1>2, <1>3, <1>4, NoTopicAssumption DEF TornDownIsOut
<1>9. SweepInv' /\ TargetInv'
  BY <1>2 DEF SweepInv, TargetInv, ReplyGoesHome
<1>10. LiveHasOwner'
  BY <1>1, <1>2, <1>3
  DEF LiveHasOwner, TornDownByPump, HeldByPump, TornDownByTask, TornDownBySweep, v
<1> QED  BY <1>5, <1>6, <1>7, <1>8, <1>9, <1>10

LEMMA SubscribeLiveKeeps ==
  ASSUME TypeInv, Parts, NEW p \in Pump, SubscribeLive(p)
  PROVE  Parts'
<1> USE DEF Parts
<1> DEFINE t == pump[p].topic
<1>1. /\ pump[p].at = "subscribing" /\ pump'[p].at = "checking"
      /\ pump'[p].topic = t /\ pump'[p].victim = pump[p].victim
      /\ \A q \in Pump \ {p} : pump'[q] = pump[q]
  BY DEF SubscribeLive, TypeInv, TypeOK
<1>2. /\ subs' = subs \cup {t}
      /\ UNCHANGED <<pending, task, target, sweeping, clock, commanded, requester,
                     relayed, expired, stuck>>
  BY DEF SubscribeLive, history
<1>3. t \in Topic /\ \A q \in Pump \ {p} : pump[q].topic /= t
  BY <1>1, NoTopicAssumption DEF PumpInv
<1> HIDE DEF t
<1>4. FreshIsUnused'
  BY <1>1, <1>2, <1>3 DEF FreshIsUnused, Minted, t
<1>5. MapInv'
  BY <1>2 DEF MapInv
<1>6. PumpInv'
  BY <1>1, <1>2, <1>3, NoTopicAssumption DEF PumpInv, t
<1>7. TornDownIsOut'
  BY <1>1, <1>2 DEF TornDownIsOut
<1>8. SweepInv' /\ TargetInv'
  BY <1>2 DEF SweepInv, TargetInv, ReplyGoesHome
<1>9. LiveHasOwner'
  BY <1>1, <1>2
  DEF LiveHasOwner, TornDownByPump, HeldByPump, TornDownByTask, TornDownBySweep, t
<1> QED  BY <1>4, <1>5, <1>6, <1>7, <1>8, <1>9

\* A map that lost entries keeps its order and its requesters.
LEMMA MapInvShrinks ==
  ASSUME pending \in Seq(Entry), pending' \in Seq(Entry), Embeds(pending', pending),
         MapInv, UNCHANGED <<clock, requester>>
  PROVE  MapInv'
<1>1. Distinct(pending') /\ Sorted(pending')
  BY EmbedsKeepsOrder DEF MapInv, Distinct, Sorted
<1>2. PICK f \in [DOMAIN pending' -> DOMAIN pending] :
        \A i \in DOMAIN pending' : pending'[i] = pending[f[i]]
  BY DEF Embeds
<1>3. \A i \in DOMAIN pending' : /\ pending'[i].deadline <= clock + Ttl
                                 /\ pending'[i].site = requester[pending'[i].topic]
  BY <1>2 DEF MapInv
<1> QED  BY <1>1, <1>3 DEF MapInv, Distinct, Sorted

LEMMA SubscribeFailsKeeps ==
  ASSUME TypeInv, Parts, NEW p \in Pump, SubscribeFails(p)
  PROVE  Parts'
<1> USE DEF Parts
<1> DEFINE t == pump[p].topic
<1>1. /\ pump[p].at = "subscribing"
      /\ pump'[p] = [at |-> "idle", topic |-> NoTopic, victim |-> NoTopic]
      /\ \A q \in Pump \ {p} : pump'[q] = pump[q]
  BY DEF SubscribeFails, TypeInv, TypeOK, Idle
<1>2. /\ pending' = Take(pending, t)
      /\ UNCHANGED <<task, target, sweeping, clock, subs, commanded, requester,
                     relayed, expired, stuck>>
  BY DEF SubscribeFails, envVars, history
<1>3. pending \in Seq(Entry) /\ Distinct(pending)
  BY DEF TypeInv, TypeOK, MapInv, Distinct
<1>4. \A x : HasEntry(pending', x) <=> HasEntry(pending, x) /\ x /= t
  BY <1>2, <1>3, TakeEntries
<1>5. t \notin subs
  BY <1>1 DEF PumpInv
<1>6. pending' \in Seq(Entry) /\ Embeds(pending', pending)
  BY <1>2, <1>3, TakeEmbeds
<1> HIDE DEF t
<1>7. FreshIsUnused'
  BY <1>1, <1>2, <1>4, NoTopicAssumption DEF FreshIsUnused, Minted
<1>8. MapInv'
  BY <1>2, <1>3, <1>6, MapInvShrinks
<1>9. PumpInv'
  BY <1>1, <1>2, <1>4, NoTopicAssumption DEF PumpInv
<1>10. TornDownIsOut'
  BY <1>1, <1>2, <1>4, NoTopicAssumption DEF TornDownIsOut
<1>11. SweepInv' /\ TargetInv'
  BY <1>2 DEF SweepInv, TargetInv, ReplyGoesHome
<1>12. LiveHasOwner'
  BY <1>1, <1>2, <1>4, <1>5
  DEF LiveHasOwner, TornDownByPump, HeldByPump, TornDownByTask, TornDownBySweep, t
<1> QED  BY <1>7, <1>8, <1>9, <1>10, <1>11, <1>12

LEMMA CheckEntryKeeps ==
  ASSUME TypeInv, Parts, NEW p \in Pump, CheckEntry(p)
  PROVE  Parts'
<1> USE DEF Parts
<1> DEFINE t == pump[p].topic
           has == HasEntry(pending, t)
<1>1. /\ pump[p].at = "checking"
      /\ pump'[p].at = (IF has THEN "forwarding" ELSE "dropping")
      /\ pump'[p].topic = t /\ pump'[p].victim = pump[p].victim
      /\ \A q \in Pump \ {p} : pump'[q] = pump[q]
  BY DEF CheckEntry, TypeInv, TypeOK
<1>2. t \in Topic
  BY <1>1 DEF PumpInv
<1>3. /\ task'[t] = IF has THEN "waiting" ELSE task[t]
      /\ \A x \in Topic \ {t} : task'[x] = task[x]
  BY <1>2 DEF CheckEntry, TypeInv, TypeOK
<1>4. UNCHANGED <<pending, target, sweeping, clock, subs, commanded, requester,
                  relayed, expired, stuck>>
  BY DEF CheckEntry, envVars, history
<1>5. /\ task[t] = "none" /\ t \notin commanded /\ (has => t \in subs)
      /\ \A q \in Pump \ {p} : pump[q].topic /= t
  BY <1>1, <1>2, NoTopicAssumption DEF PumpInv
<1>0. subs \subseteq Topic /\ \A q \in Pump : pump[q].topic \in Topic \cup {NoTopic}
  BY DEF TypeInv, TypeOK
<1> HIDE DEF t, has
<1>6. FreshIsUnused'
  BY <1>1, <1>2, <1>3, <1>4 DEF FreshIsUnused, Minted, t, has
<1>7. MapInv'
  BY <1>4 DEF MapInv
<1>8. PumpInv'
  BY <1>0, <1>1, <1>2, <1>3, <1>4, <1>5, NoTopicAssumption DEF PumpInv, t, has
<1>9. TornDownIsOut'
  BY <1>1, <1>2, <1>3, <1>4, <1>5 DEF TornDownIsOut, has
<1>10. SweepInv'
  BY <1>4 DEF SweepInv
<1>11. TargetInv'
  BY <1>2, <1>3, <1>4, <1>5 DEF TargetInv, ReplyGoesHome
<1>12. LiveHasOwner'
  BY <1>0, <1>1, <1>2, <1>3, <1>4, <1>5
  DEF LiveHasOwner, TornDownByPump, HeldByPump, TornDownByTask, TornDownBySweep, t, has
<1> QED  BY <1>6, <1>7, <1>8, <1>9, <1>10, <1>11, <1>12

LEMMA DropDoneKeeps ==
  ASSUME TypeInv, Parts, NEW p \in Pump, DropDone(p)
  PROVE  Parts'
<1> USE DEF Parts
<1> DEFINE t == pump[p].topic
<1>1. /\ pump[p].at = "dropping" /\ pump'[p].at = "forwarding"
      /\ pump'[p].topic = t /\ pump'[p].victim = pump[p].victim
      /\ \A q \in Pump \ {p} : pump'[q] = pump[q]
  BY DEF DropDone, TypeInv, TypeOK
<1>2. UNCHANGED <<pending, task, target, sweeping, clock, commanded, requester,
                  relayed, expired>>
  BY DEF DropDone
<1>3. /\ subs \ {t} \subseteq subs' /\ subs' \subseteq subs /\ stuck \subseteq stuck'
      /\ t \in subs' => t \in stuck'
  BY DEF DropDone, Unsubscribed
<1>4. t \in Topic /\ ~ HasEntry(pending, t)
  BY <1>1 DEF PumpInv, TornDownIsOut
<1> HIDE DEF t
<1>5. FreshIsUnused'
  BY <1>1, <1>2, <1>3 DEF FreshIsUnused, Minted, t
<1>6. MapInv'
  BY <1>2 DEF MapInv
<1>7. PumpInv'
  BY <1>1, <1>2, <1>3, <1>4, NoTopicAssumption DEF PumpInv, t
<1>8. TornDownIsOut'
  BY <1>1, <1>2, <1>3, <1>4 DEF TornDownIsOut
<1>9. SweepInv' /\ TargetInv'
  BY <1>2 DEF SweepInv, TargetInv, ReplyGoesHome
<1>10. LiveHasOwner'
  BY <1>1, <1>2, <1>3
  DEF LiveHasOwner, TornDownByPump, HeldByPump, TornDownByTask, TornDownBySweep, t
<1> QED  BY <1>5, <1>6, <1>7, <1>8, <1>9, <1>10

LEMMA ForwardKeeps ==
  ASSUME TypeInv, Parts, NEW p \in Pump, Forward(p)
  PROVE  Parts'
<1> USE DEF Parts
<1> DEFINE t == pump[p].topic
<1>1. /\ pump[p].at = "forwarding"
      /\ pump'[p] = [at |-> "idle", topic |-> NoTopic, victim |-> NoTopic]
      /\ \A q \in Pump \ {p} : pump'[q] = pump[q]
  BY DEF Forward, TypeInv, TypeOK, Idle
<1>2. /\ commanded \subseteq commanded' /\ commanded' \subseteq commanded \cup {t}
      /\ UNCHANGED <<pending, task, target, sweeping, clock, subs, requester,
                     relayed, expired, stuck>>
  BY DEF Forward, history
<1>3. \A q \in Pump \ {p} : t /= NoTopic => pump[q].topic /= t
  BY DEF PumpInv
<1>4. task \in [Topic -> TaskStage]
  BY DEF TypeInv, TypeOK
<1> HIDE DEF t
<1>5. FreshIsUnused'
  BY <1>1, <1>2, NoTopicAssumption DEF FreshIsUnused, Minted, t
<1>6. MapInv'
  BY <1>2 DEF MapInv
<1>7. PumpInv'
  BY <1>1, <1>2, <1>3, NoTopicAssumption DEF PumpInv, t
<1>8. TornDownIsOut'
  BY <1>1, <1>2, NoTopicAssumption DEF TornDownIsOut, PumpInv, t
<1>9. SweepInv' /\ TargetInv'
  BY <1>2 DEF SweepInv, TargetInv, ReplyGoesHome
<1>10. LiveHasOwner'
  BY <1>1, <1>2
  DEF LiveHasOwner, TornDownByPump, HeldByPump, TornDownByTask, TornDownBySweep
<1> QED  BY <1>5, <1>6, <1>7, <1>8, <1>9, <1>10

LEMMA ReceiveRequestKeeps ==
  ASSUME TypeInv, Parts, NEW p \in Pump, NEW t \in Topic, NEW s \in SiteTopic,
         ReceiveRequest(p, t, s)
  PROVE  Parts'
<1> USE DEF Parts
<1> DEFINE V == Evicted(pending)
<1>1. /\ pending \in Seq(Entry) /\ Len(pending) <= MaxPending /\ clock \in Nat
      /\ expired \in [Topic -> Nat] /\ requester \in [Topic -> SiteTopic \cup {NoSite}]
      /\ relayed \subseteq Topic \X SiteTopic
      /\ subs \subseteq Topic
  BY DEF TypeInv, TypeOK
<1>2. /\ Distinct(pending) /\ Sorted(pending)
      /\ \A i \in DOMAIN pending : pending[i].deadline <= clock + Ttl
  BY DEF MapInv, Distinct, Sorted
<1>3. /\ ~ HasEntry(pending, t) /\ t \notin subs /\ t \notin commanded
      /\ task[t] = "none" /\ target[t] = NoSite /\ expired[t] = 0 /\ requester[t] = NoSite
      /\ t \notin ToSet(sweeping)
      /\ \A q \in Pump : pump[q].topic /= t /\ pump[q].victim /= t
  BY DEF ReceiveRequest, FreshIsUnused, Minted
<1>4. \A v \in V : HasEntry(pending, v) /\ v \in Topic /\ V = {v} /\ pending[1].topic = v
  <2>1. IsFull(pending) => 1 \in DOMAIN pending
    BY <1>1, LenProperties, MaxPendingAssumption DEF IsFull
  <2> QED  BY <1>1, <2>1, EntryTypes DEF Evicted, HasEntry, TopicsOf
<1>5. /\ pending' = Record(pending, t, s, clock)
      /\ pending' \in Seq(Entry)
      /\ \A x : HasEntry(pending', x) <=> x = t \/ (HasEntry(pending, x) /\ x \notin V)
  BY <1>1, <1>2, RecordShape, RecordEntries DEF ReceiveRequest
<1>6. /\ pump[p].at = "idle"
      /\ pump'[p].at = (IF V = {} THEN "subscribing" ELSE "evicting")
      /\ pump'[p].topic = t
      /\ V = {} => pump'[p].victim = NoTopic
      /\ \A v \in V : pump'[p].victim = v
      /\ \A q \in Pump \ {p} : pump'[q] = pump[q]
  BY <1>4 DEF ReceiveRequest, TypeInv, TypeOK
<1>7. /\ \A x \in Topic : expired'[x] = IF x \in V THEN expired[x] + 1 ELSE expired[x]
      /\ requester'[t] = s /\ \A x \in Topic \ {t} : requester'[x] = requester[x]
  BY <1>1 DEF ReceiveRequest
<1>8. UNCHANGED <<task, target, sweeping, clock, subs, commanded, relayed, stuck>>
  BY DEF ReceiveRequest, envVars
<1> HIDE DEF V
<1>9. FreshIsUnused'
  BY <1>3, <1>4, <1>5, <1>6, <1>7, <1>8, NoSiteAssumption, NoTopicAssumption
  DEF FreshIsUnused, Minted
<1>10. MapInv'
  <2>1. /\ Distinct(pending') /\ Sorted(pending')
        /\ \A i \in DOMAIN pending' : pending'[i].deadline <= clock + Ttl
    BY <1>1, <1>2, <1>3, <1>5, RecordOrder
  <2>2. ASSUME NEW i \in DOMAIN pending'
        PROVE  pending'[i].site = requester'[pending'[i].topic]
    <3> DEFINE off == Dropped(pending)
               n == Len(pending) - off
    <3>1. /\ off \in {0, 1} /\ n \in Nat /\ Len(pending') = n + 1
          /\ \A k \in 1 .. n : pending'[k] = pending[k + off]
          /\ pending'[n + 1] = [topic |-> t, site |-> s, deadline |-> clock + Ttl]
      BY <1>1, <1>5, RecordShape
    <3>2. DOMAIN pending' = 1 .. Len(pending') /\ DOMAIN pending = 1 .. Len(pending)
          /\ Len(pending) \in Nat /\ Len(pending) = n + off
      BY <1>1, <1>5, <3>1, LenProperties
    <3> HIDE DEF off, n
    <3>3. CASE i = n + 1
      BY <1>7, <3>1, <3>3
    <3>4. CASE i \in 1 .. n
      <4> DEFINE j == i + off
      <4>0. pending'[i] = pending[j]
        BY <3>1, <3>4
      <4>1. j \in DOMAIN pending
        <5>1. off \in {0, 1} /\ n \in Nat /\ i \in 1 .. n /\ Len(pending) = n + off
          BY <3>1, <3>2, <3>4
        <5>2. i + off \in 1 .. Len(pending)
          BY <5>1
        <5> QED  BY <5>2, <3>2
      <4> HIDE DEF j
      <4>2. pending[j].topic \in Topic
        BY <1>1, <4>1, EntryTypes
      <4>3. pending[j].topic /= t
        BY <1>3, <4>1 DEF HasEntry, TopicsOf
      <4> QED  BY <1>7, <4>0, <4>1, <4>2, <4>3 DEF MapInv
    <3> QED  BY <3>1, <3>2, <3>3, <3>4
  <2> QED  BY <1>8, <2>1, <2>2 DEF MapInv, Distinct, Sorted
<1>11. PumpInv'
  <2>1. \A q \in Pump \ {p} : pump'[q] = pump[q] /\ pump[q].topic /= t
    BY <1>3, <1>6
  <2>2. \A q \in Pump \ {p} : HasEntry(pending', pump[q].topic) => HasEntry(pending, pump[q].topic)
    BY <1>5, <2>1
  <2> QED  BY <1>3, <1>4, <1>6, <1>8, <2>1, <2>2, NoTopicAssumption DEF PumpInv
<1>12. TornDownIsOut'
  <2> SUFFICES ASSUME NEW x \in Topic, HasEntry(pending', x)
               PROVE  /\ x \notin ToSet(sweeping)
                      /\ \A q \in Pump : pump'[q].victim /= x
                           /\ ~ (pump'[q].at = "dropping" /\ pump'[q].topic = x)
                      /\ task[x] \in {"none", "waiting"}
                      /\ task[x] = "waiting" => x \in subs
                      /\ x \in commanded => task[x] = "waiting"
                      /\ target[x] = NoSite
                      /\ expired'[x] = 0
    BY <1>8 DEF TornDownIsOut
  <2>1. CASE x = t
    BY <1>3, <1>4, <1>6, <1>7, <2>1, NoTopicAssumption
  <2>2. CASE HasEntry(pending, x) /\ x \notin V /\ x /= t
    BY <1>6, <1>7, <2>2, NoTopicAssumption DEF TornDownIsOut
  <2> QED  BY <1>5, <2>1, <2>2
<1>13. SweepInv'
  <2>1. \A v \in V : v \notin ToSet(sweeping) /\ expired[v] = 0 /\ target[v] = NoSite
    BY <1>4 DEF TornDownIsOut
  <2>2. \A i \in DOMAIN sweeping : sweeping[i] \in Topic /\ expired'[sweeping[i]] = expired[sweeping[i]]
    <3>1. \A i \in DOMAIN sweeping : sweeping[i] \in Topic
      BY LenProperties, ElementOfSeq DEF TypeInv, TypeOK
    <3> QED  BY <1>7, <2>1, <3>1 DEF ToSet
  <2>3. \A x \in Topic : expired'[x] <= 1 /\ (expired'[x] = 1 => target[x] = NoSite)
    BY <1>1, <1>7, <2>1 DEF SweepInv
  <2> QED  BY <1>8, <2>2, <2>3 DEF SweepInv
<1>14. TargetInv'
  <2>1. \A r \in relayed : r[1] \in Topic \ {t}
    BY <1>1, <1>3, NoSiteAssumption DEF TargetInv, ReplyGoesHome
  <2> QED  BY <1>3, <1>7, <1>8, <2>1 DEF TargetInv, ReplyGoesHome
<1>15. LiveHasOwner'
  <2> SUFFICES ASSUME NEW x \in subs
               PROVE  \/ HasEntry(pending', x)
                      \/ \E q \in Pump : HeldByPump(q, x)'
                      \/ task[x] \in {"publishing", "unsubscribing"}
                      \/ x \in ToSet(sweeping)
                      \/ x \in stuck
    BY <1>8 DEF LiveHasOwner, TornDownByPump, TornDownByTask, TornDownBySweep
  <2>1. CASE x \in V
    <3>1. pump'[p].at = "evicting" /\ pump'[p].victim = x
      BY <1>6, <2>1
    <3> QED  BY <3>1 DEF HeldByPump
  <2>2. CASE HasEntry(pending, x) /\ x \notin V
    BY <1>5, <2>2
  <2>3. ASSUME NEW q \in Pump, HeldByPump(q, x)
        PROVE  HeldByPump(q, x)'
    <3>1. q /= p
      BY <1>6, <2>3 DEF HeldByPump
    <3> QED  BY <1>6, <2>3, <3>1 DEF HeldByPump
  <2> QED
    BY <2>1, <2>2, <2>3
    DEF LiveHasOwner, TornDownByPump, TornDownByTask, TornDownBySweep
<1> QED  BY <1>9, <1>10, <1>11, <1>12, <1>13, <1>14, <1>15

-----------------------------------------------------------------------------

\* Only the reply pump of topic t moves, from a stage that is not "none".
LEMMA TakeReplyKeeps ==
  ASSUME TypeInv, Parts, NEW t \in Topic, TakeReply(t)
  PROVE  Parts'
<1> USE DEF Parts
<1>0. /\ pending \in Seq(Entry) /\ Distinct(pending) /\ subs \subseteq Topic
      /\ \A q \in Pump : pump[q].topic \in Topic \cup {NoTopic}
      /\ target \in [Topic -> SiteTopic \cup {NoSite}]
      /\ task[t] = "waiting"
  BY DEF TypeInv, TypeOK, MapInv, Distinct, TakeReply
<1>1. /\ \A x \in Topic \ {t} : task'[x] = task[x] /\ target'[x] = target[x]
      /\ UNCHANGED <<pump, sweeping, clock, subs, commanded, requester,
                     relayed, expired, stuck>>
  BY DEF TakeReply, TypeInv, TypeOK, history
<1>2. CASE ~ HasEntry(pending, t)
  <2>1. task'[t] = "done" /\ UNCHANGED <<pending, target>>
    BY <1>2 DEF TakeReply, TypeInv, TypeOK
  <2>2. FreshIsUnused'
    BY <1>0, <1>1, <2>1 DEF FreshIsUnused, Minted
  <2>3. MapInv' /\ SweepInv'
    BY <1>1, <2>1 DEF MapInv, SweepInv
  <2>4. PumpInv'
    BY <1>0, <1>1, <2>1 DEF PumpInv
  <2>5. TornDownIsOut'
    BY <1>1, <1>2, <2>1 DEF TornDownIsOut
  <2>6. TargetInv'
    BY <1>1, <2>1 DEF TargetInv, ReplyGoesHome
  <2>7. LiveHasOwner'
    BY <1>0, <1>1, <2>1
    DEF LiveHasOwner, TornDownByPump, HeldByPump, TornDownByTask, TornDownBySweep
  <2> QED  BY <2>2, <2>3, <2>4, <2>5, <2>6, <2>7
<1>3. CASE HasEntry(pending, t)
  <2>1. /\ pending' = Take(pending, t)
        /\ target'[t] = SiteOf(pending, t)
        /\ task'[t] \in {"publishing", "unsubscribing"}
    BY <1>3 DEF TakeReply, TypeInv, TypeOK
  <2>2. \A x : HasEntry(pending', x) <=> HasEntry(pending, x) /\ x /= t
    BY <1>0, <2>1, TakeEntries
  <2>3. pending' \in Seq(Entry) /\ Embeds(pending', pending)
    BY <1>0, <2>1, TakeEmbeds
  <2>4. target'[t] = requester[t] /\ target'[t] \in SiteTopic
    <3> DEFINE k == IndexOf(pending, t)
    <3>1. k \in DOMAIN pending /\ pending[k].topic = t
      BY <1>0, <1>3, TakeShape, LenProperties
    <3>2. pending[k].site = requester[t] /\ pending[k].site \in SiteTopic
      BY <1>0, <3>1, EntryTypes DEF MapInv
    <3> QED  BY <2>1, <3>2 DEF SiteOf
  <2>5. t \notin ToSet(sweeping) /\ expired[t] = 0 /\ target[t] = NoSite
    BY <1>3 DEF TornDownIsOut
  <2>6. FreshIsUnused'
    BY <1>0, <1>1, <2>2 DEF FreshIsUnused, Minted
  <2>7. MapInv'
    BY <1>0, <1>1, <2>3, MapInvShrinks
  <2>8. PumpInv'
    BY <1>0, <1>1, <2>1, <2>2 DEF PumpInv
  <2>9. TornDownIsOut'
    BY <1>1, <2>2 DEF TornDownIsOut
  <2>10. SweepInv'
    <3>1. \A i \in DOMAIN sweeping : sweeping[i] \in Topic \ {t}
      <4>1. \A i \in DOMAIN sweeping : sweeping[i] \in Topic
        BY LenProperties, ElementOfSeq DEF TypeInv, TypeOK
      <4> QED  BY <2>5, <4>1 DEF ToSet
    <3> QED  BY <1>1, <2>5, <3>1 DEF SweepInv
  <2>11. TargetInv'
    BY <1>1, <2>4, NoSiteAssumption DEF TargetInv, ReplyGoesHome
  <2>12. LiveHasOwner'
    BY <1>0, <1>1, <2>1, <2>2
    DEF LiveHasOwner, TornDownByPump, HeldByPump, TornDownByTask, TornDownBySweep
  <2> QED  BY <2>6, <2>7, <2>8, <2>9, <2>10, <2>11, <2>12
<1> QED  BY <1>2, <1>3

LEMMA CloseSubKeeps ==
  ASSUME TypeInv, Parts, NEW t \in Topic, CloseSub(t)
  PROVE  Parts'
<1> USE DEF Parts
<1>0. /\ task[t] = "waiting" /\ t \notin subs /\ subs \subseteq Topic
      /\ \A q \in Pump : pump[q].topic \in Topic \cup {NoTopic}
  BY DEF TypeInv, TypeOK, CloseSub
<1>1. /\ task'[t] = "done" /\ \A x \in Topic \ {t} : task'[x] = task[x]
      /\ UNCHANGED <<pending, pump, target, sweeping, clock, subs, commanded, requester,
                     relayed, expired, stuck>>
  BY DEF CloseSub, TypeInv, TypeOK, envVars, history
<1>2. FreshIsUnused'
  BY <1>0, <1>1 DEF FreshIsUnused, Minted
<1>3. MapInv' /\ SweepInv'
  BY <1>1 DEF MapInv, SweepInv
<1>4. PumpInv'
  BY <1>0, <1>1 DEF PumpInv
<1>5. TornDownIsOut'
  BY <1>0, <1>1 DEF TornDownIsOut
<1>6. TargetInv'
  BY <1>0, <1>1 DEF TargetInv, ReplyGoesHome
<1>7. LiveHasOwner'
  BY <1>0, <1>1
  DEF LiveHasOwner, TornDownByPump, HeldByPump, TornDownByTask, TornDownBySweep
<1> QED  BY <1>2, <1>3, <1>4, <1>5, <1>6, <1>7

LEMMA PublishReplyKeeps ==
  ASSUME TypeInv, Parts, NEW t \in Topic, PublishReply(t)
  PROVE  Parts'
<1> USE DEF Parts
<1>0. /\ task[t] = "publishing" /\ subs \subseteq Topic
      /\ \A q \in Pump : pump[q].topic \in Topic \cup {NoTopic}
  BY DEF TypeInv, TypeOK, PublishReply
<1>1. /\ task'[t] = "unsubscribing" /\ \A x \in Topic \ {t} : task'[x] = task[x]
      /\ relayed' \subseteq relayed \cup {<<t, target[t]>>}
      /\ UNCHANGED <<pending, pump, target, sweeping, clock, subs, commanded, requester,
                     expired, stuck>>
  BY DEF PublishReply, TypeInv, TypeOK, envVars
<1>2. FreshIsUnused'
  BY <1>0, <1>1 DEF FreshIsUnused, Minted
<1>3. MapInv' /\ SweepInv'
  BY <1>1 DEF MapInv, SweepInv
<1>4. PumpInv'
  BY <1>0, <1>1 DEF PumpInv
<1>5. TornDownIsOut'
  BY <1>0, <1>1 DEF TornDownIsOut
<1>6. TargetInv'
  BY <1>0, <1>1 DEF TargetInv, ReplyGoesHome
<1>7. LiveHasOwner'
  BY <1>0, <1>1
  DEF LiveHasOwner, TornDownByPump, HeldByPump, TornDownByTask, TornDownBySweep
<1> QED  BY <1>2, <1>3, <1>4, <1>5, <1>6, <1>7

LEMMA SettleDoneKeeps ==
  ASSUME TypeInv, Parts, NEW t \in Topic, SettleDone(t)
  PROVE  Parts'
<1> USE DEF Parts
<1>0. /\ task[t] = "unsubscribing" /\ subs \subseteq Topic
      /\ \A q \in Pump : pump[q].topic \in Topic \cup {NoTopic}
  BY DEF TypeInv, TypeOK, SettleDone
<1>1. /\ task'[t] = "done" /\ \A x \in Topic \ {t} : task'[x] = task[x]
      /\ UNCHANGED <<pending, pump, target, sweeping, clock, commanded, requester,
                     relayed, expired>>
  BY DEF SettleDone, TypeInv, TypeOK
<1>2. /\ subs \ {t} \subseteq subs' /\ subs' \subseteq subs /\ stuck \subseteq stuck'
      /\ t \in subs' => t \in stuck'
  BY DEF SettleDone, Unsubscribed
<1>3. ~ HasEntry(pending, t)
  BY <1>0 DEF TornDownIsOut
<1>4. FreshIsUnused'
  BY <1>0, <1>1, <1>2 DEF FreshIsUnused, Minted
<1>5. MapInv' /\ SweepInv'
  BY <1>1 DEF MapInv, SweepInv
<1>6. PumpInv'
  BY <1>0, <1>1, <1>2, <1>3 DEF PumpInv
<1>7. TornDownIsOut'
  BY <1>0, <1>1, <1>2, <1>3 DEF TornDownIsOut
<1>8. TargetInv'
  BY <1>0, <1>1 DEF TargetInv, ReplyGoesHome
<1>9. LiveHasOwner'
  BY <1>0, <1>1, <1>2
  DEF LiveHasOwner, TornDownByPump, HeldByPump, TornDownByTask, TornDownBySweep
<1> QED  BY <1>4, <1>5, <1>6, <1>7, <1>8, <1>9

-----------------------------------------------------------------------------

\* The head of what remains to be expired has just been counted.
LEMMA CountExpiredAt ==
  ASSUME expired \in [Topic -> Nat], NEW s \in Seq(Topic), NEW x \in Topic
  PROVE  CountExpired(s)[x] = IF s /= <<>> /\ x = s[1] THEN expired[x] + 1 ELSE expired[x]
<1>1. CASE s = <<>>
  BY <1>1 DEF CountExpired
<1>2. CASE s /= <<>>
  <2>1. Head(s) = s[1] /\ Head(s) \in Topic
    BY <1>2, HeadTailProperties
  <2> QED  BY <1>2, <2>1 DEF CountExpired
<1> QED  BY <1>1, <1>2

LEMMA SweepKeeps ==
  ASSUME TypeInv, Parts, Sweep
  PROVE  Parts'
<1> USE DEF Parts
<1> DEFINE s == Swept(pending, clock)
<1>0. /\ pending \in Seq(Entry) /\ Distinct(pending) /\ clock \in Nat
      /\ subs \subseteq Topic /\ expired \in [Topic -> Nat]
  BY DEF TypeInv, TypeOK, MapInv, Distinct
<1>1. /\ pending' = AfterSweep(pending, clock) /\ sweeping' = s
      /\ s \in Seq(Topic) /\ sweeping = <<>>
      /\ expired' = CountExpired(s)
      /\ UNCHANGED <<pump, task, target, clock, subs, commanded, requester, relayed, stuck>>
  BY <1>0, SweepShape DEF Sweep, envVars
<1>2. \A x : /\ HasEntry(pending', x) <=> HasEntry(pending, x) /\ x \notin ToSet(s)
             /\ x \in ToSet(s) => HasEntry(pending, x)
  BY <1>0, <1>1, SweepEntries
<1>3. pending' \in Seq(Entry) /\ Embeds(pending', pending)
  BY <1>0, <1>1, SweepOrder, SweepShape
<1>4. \A i, j \in DOMAIN s : s[i] = s[j] => i = j
  BY <1>0, SweepOrder
<1>5. \A x \in Topic : expired'[x] = IF s /= <<>> /\ x = s[1] THEN expired[x] + 1 ELSE expired[x]
  BY <1>0, <1>1, CountExpiredAt
<1>6. s /= <<>> => 1 \in DOMAIN s /\ s[1] \in ToSet(s)
  BY <1>1, LenProperties, EmptySeq DEF ToSet
<1>7. \A i \in DOMAIN s : s[i] \in Topic /\ s[i] \in ToSet(s)
  BY <1>1, LenProperties, ElementOfSeq DEF ToSet
<1>8. \A x \in Topic : x \in ToSet(s) => expired[x] = 0 /\ target[x] = NoSite
  BY <1>2 DEF TornDownIsOut
<1> HIDE DEF s
<1>9. FreshIsUnused'
  BY <1>1, <1>2, <1>5, <1>6 DEF FreshIsUnused, Minted
<1>10. MapInv'
  BY <1>0, <1>1, <1>3, MapInvShrinks
<1>11. PumpInv'
  BY <1>1, <1>2 DEF PumpInv
<1>12. TornDownIsOut'
  BY <1>1, <1>2, <1>5, <1>6 DEF TornDownIsOut
<1>13. SweepInv'
  <2>1. \A i \in DOMAIN s : expired'[s[i]] = IF i = 1 THEN 1 ELSE 0
    BY <1>4, <1>5, <1>6, <1>7, <1>8
  <2>2. \A x \in Topic : expired'[x] <= 1 /\ (expired'[x] = 1 => target[x] = NoSite)
    BY <1>0, <1>5, <1>6, <1>8 DEF SweepInv
  <2> QED  BY <1>1, <1>4, <1>7, <1>8, <2>1, <2>2 DEF SweepInv
<1>14. TargetInv'
  BY <1>1 DEF TargetInv, ReplyGoesHome
<1>15. LiveHasOwner'
  <2>1. sweeping' = s /\ ~ \E x : x \in ToSet(sweeping)
    BY <1>1 DEF ToSet
  <2> QED  BY <1>1, <1>2, <2>1
      DEF LiveHasOwner, TornDownByPump, HeldByPump, TornDownByTask, TornDownBySweep
<1> QED  BY <1>9, <1>10, <1>11, <1>12, <1>13, <1>14, <1>15

LEMMA SweepDoneKeeps ==
  ASSUME TypeInv, Parts, SweepDone
  PROVE  Parts'
<1> USE DEF Parts
<1> DEFINE h == Head(sweeping)
           s == Tail(sweeping)
<1>0. /\ sweeping \in Seq(Topic) /\ sweeping /= <<>> /\ expired \in [Topic -> Nat]
      /\ subs \subseteq Topic
  BY DEF TypeInv, TypeOK, SweepDone
<1>1. /\ sweeping' = s /\ expired' = CountExpired(s)
      /\ UNCHANGED <<pending, pump, task, target, clock, commanded, requester, relayed>>
  BY DEF SweepDone
<1>2. /\ subs \ {h} \subseteq subs' /\ subs' \subseteq subs /\ stuck \subseteq stuck'
      /\ h \in subs' => h \in stuck'
  BY DEF SweepDone, Unsubscribed
<1>3. /\ s \in Seq(Topic) /\ h \in Topic /\ h = sweeping[1]
      /\ Len(s) = Len(sweeping) - 1 /\ Len(sweeping) \in Nat
      /\ \A i \in 1 .. Len(s) : s[i] = sweeping[i + 1]
  BY <1>0, HeadTailProperties, LenProperties
<1>4. DOMAIN s = 1 .. Len(s) /\ DOMAIN sweeping = 1 .. Len(sweeping) /\ Len(s) \in Nat
  BY <1>0, <1>3, LenProperties
<1>5. \A x \in Topic : expired'[x] = IF s /= <<>> /\ x = s[1] THEN expired[x] + 1 ELSE expired[x]
  BY <1>0, <1>1, <1>3, CountExpiredAt
<1>6. s /= <<>> => 1 \in 1 .. Len(s)
  BY <1>3, <1>4, EmptySeq
<1> HIDE DEF h, s
<1>7. \A i \in 1 .. Len(s) : /\ i + 1 \in DOMAIN sweeping /\ s[i] = sweeping[i + 1]
                             /\ s[i] \in Topic /\ s[i] \in ToSet(sweeping)
  <2> SUFFICES ASSUME NEW i \in 1 .. Len(s)
               PROVE  /\ i + 1 \in DOMAIN sweeping /\ s[i] = sweeping[i + 1]
                      /\ s[i] \in Topic /\ s[i] \in ToSet(sweeping)
    OBVIOUS
  <2>1. i + 1 \in DOMAIN sweeping /\ s[i] = sweeping[i + 1]
    BY <1>3, <1>4
  <2>2. s[i] \in Topic
    BY <1>3, ElementOfSeq
  <2> QED  BY <2>1, <2>2 DEF ToSet
<1>8. h \in ToSet(sweeping) /\ ~ HasEntry(pending, h)
  <2>1. h \in ToSet(sweeping)
    <3>1. 1 \in DOMAIN sweeping
      BY <1>0, <1>3, <1>4, EmptySeq
    <3> QED  BY <1>3, <3>1 DEF ToSet
  <2> QED  BY <1>3, <2>1 DEF TornDownIsOut
<1>9. ToSet(s) \subseteq ToSet(sweeping) /\ ToSet(sweeping) \subseteq ToSet(s) \cup {h}
  <2>1. ToSet(s) \subseteq ToSet(sweeping)
    BY <1>4, <1>7 DEF ToSet
  <2>2. ASSUME NEW i \in DOMAIN sweeping, i /= 1  PROVE sweeping[i] \in ToSet(s)
    <3>1. i - 1 \in 1 .. Len(s) /\ (i - 1) + 1 = i
      BY <1>3, <1>4, <2>2
    <3>2. s[i - 1] = sweeping[i]
      BY <1>3, <3>1
    <3> QED  BY <1>4, <3>1, <3>2 DEF ToSet
  <2> QED  BY <1>3, <2>1, <2>2 DEF ToSet
<1>10. \A x \in Topic : x \notin ToSet(sweeping) => expired'[x] = expired[x]
  BY <1>5, <1>6, <1>7
<1>11. FreshIsUnused'
  BY <1>1, <1>2, <1>9, <1>10 DEF FreshIsUnused, Minted
<1>12. MapInv'
  BY <1>1, <1>2 DEF MapInv
<1>13. PumpInv'
  BY <1>1, <1>2, <1>8 DEF PumpInv
<1>14. TornDownIsOut'
  BY <1>1, <1>2, <1>8, <1>9, <1>10 DEF TornDownIsOut
<1>15. SweepInv'
  <2>1. ASSUME NEW i \in 1 .. Len(s)
        PROVE  target[s[i]] = NoSite /\ expired[s[i]] = 0
    <3>1. i + 1 \in DOMAIN sweeping /\ s[i] = sweeping[i + 1] /\ i + 1 /= 1
      BY <1>4, <1>7
    <3> QED  BY <3>1 DEF SweepInv
  <2>2. ASSUME NEW i \in 1 .. Len(s), NEW j \in 1 .. Len(s), s[i] = s[j]
        PROVE  i = j
    <3>1. i + 1 = j + 1
      BY <1>7, <2>2 DEF SweepInv
    <3> QED  BY <1>4, <3>1
  <2>3. \A i \in 1 .. Len(s) : expired'[s[i]] = IF i = 1 THEN 1 ELSE 0
    BY <1>5, <1>6, <1>7, <2>1, <2>2
  <2>4. \A x \in Topic : expired'[x] <= 1 /\ (expired'[x] = 1 => target[x] = NoSite)
    BY <1>0, <1>5, <1>6, <2>1 DEF SweepInv
  <2> QED  BY <1>1, <1>4, <2>1, <2>2, <2>3, <2>4 DEF SweepInv
<1>16. TargetInv'
  BY <1>1 DEF TargetInv, ReplyGoesHome
<1>17. LiveHasOwner'
  BY <1>1, <1>2, <1>9
  DEF LiveHasOwner, TornDownByPump, HeldByPump, TornDownByTask, TornDownBySweep
<1> QED  BY <1>11, <1>12, <1>13, <1>14, <1>15, <1>16, <1>17

\* A step that changes neither the map nor who works on a topic.
LEMMA OtherKeeps ==
  ASSUME TypeInv, Parts,
         \/ \E t \in Topic, kind \in {"good", "bad"} : Reply(t, kind)
         \/ Tick
         \/ UNCHANGED vars
  PROVE  Parts'
<1> USE DEF Parts
<1>1. /\ UNCHANGED <<pending, pump, task, target, sweeping, subs, commanded, requester,
                     relayed, expired, stuck>>
      /\ clock' = clock \/ clock' = clock + 1
  BY DEF Reply, Tick, vars, proxyVars, envVars, history
<1>2. FreshIsUnused' /\ PumpInv' /\ TornDownIsOut'
  BY <1>1 DEF FreshIsUnused, Minted, PumpInv, TornDownIsOut
<1>3. MapInv'
  <2>1. \A i \in DOMAIN pending : pending[i].deadline \in Nat
    BY EntryTypes DEF TypeInv, TypeOK
  <2>2. clock \in Nat /\ Ttl \in Nat
    BY TtlAssumption DEF TypeInv, TypeOK
  <2>3. \A i \in DOMAIN pending : pending[i].deadline <= clock' + Ttl
    BY <1>1, <2>1, <2>2 DEF MapInv
  <2> QED  BY <1>1, <2>3 DEF MapInv
<1>4. SweepInv' /\ TargetInv'
  BY <1>1 DEF SweepInv, TargetInv, ReplyGoesHome
<1>5. LiveHasOwner'
  BY <1>1 DEF LiveHasOwner, TornDownByPump, HeldByPump, TornDownByTask, TornDownBySweep
<1> QED  BY <1>2, <1>3, <1>4, <1>5

LEMMA StepIInv == IInv /\ [Next]_vars => IInv'
<1> SUFFICES ASSUME IInv, [Next]_vars  PROVE IInv'
  OBVIOUS
<1>1. TypeInv /\ Parts
  BY IInvType
<1>2. TypeInv'
  BY <1>1, TypeStep
<1>3. Parts'
  <2>1. CASE \E p \in Pump : ReceivePlain(p)
    BY <1>1, <2>1, ReceivePlainKeeps
  <2>2. CASE \E p \in Pump, t \in Topic, s \in SiteTopic : ReceiveRequest(p, t, s)
    BY <1>1, <2>2, ReceiveRequestKeeps
  <2>3. CASE \E p \in Pump : PumpStep(p)
    BY <1>1, <2>3, EvictDoneKeeps, SubscribeLiveKeeps, SubscribeFailsKeeps, CheckEntryKeeps,
       DropDoneKeeps, ForwardKeeps DEF PumpStep
  <2>4. CASE \E t \in Topic : TaskStep(t)
    BY <1>1, <2>4, TakeReplyKeeps, CloseSubKeeps, PublishReplyKeeps, SettleDoneKeeps DEF TaskStep
  <2>5. CASE Sweep \/ SweepDone
    BY <1>1, <2>5, SweepKeeps, SweepDoneKeeps
  <2>6. CASE (\E t \in Topic, kind \in {"good", "bad"} : Reply(t, kind)) \/ Tick
             \/ UNCHANGED vars
    BY <1>1, <2>6, OtherKeeps
  <2> QED  BY <2>1, <2>2, <2>3, <2>4, <2>5, <2>6 DEF Next
<1> QED  BY <1>2, <1>3 DEF IInv, Parts, TypeInv

\* The inductive invariant holds of the reply proxy: what is torn down is out
\* of the map for good, no two tasks work on the same topic, and each stage
\* knows whether its topic is subscribed.
THEOREM Inductive == Spec => []IInv
BY InitIInv, StepIInv, PTL DEF Spec

-----------------------------------------------------------------------------

\* Subscribe before publish (rewrite_downlink): when a device has seen a
\* rewritten command and the map expects the reply, the subscription is live
\* and the reply pump is waiting.
THEOREM FastReplyIsHeard == Spec => []PendingIsListening
<1>1. IInv => PendingIsListening
  BY DEF IInv, TypeOK, TornDownIsOut, PendingIsListening
<1> QED  BY <1>1, Inductive, PTL

\* Every live reply subscription has an entry, a task that will unsubscribe
\* it, or a failed unsubscribe behind it, in every interleaving of the pumps,
\* the reply pumps and the sweep (the re-check of rewrite_downlink, io.rs).
THEOREM NoDanglingSubscription == Spec => []LiveHasOwner
<1>1. IInv => LiveHasOwner
  BY DEF IInv
<1> QED  BY <1>1, Inductive, PTL

\* Eviction, sweep, reply and failed subscribe exclude one another: an entry
\* is counted as expired at most once, and never after or before a reply was
\* resolved through it (ReplyCorrelator::take, sweep, rewrite_downlink).
THEOREM EntriesEndOnce == Spec => []OneOutcome
<1>1. IInv => OneOutcome
  <2> SUFFICES ASSUME IInv, NEW t \in Topic
               PROVE  /\ expired[t] <= 1
                      /\ expired[t] = 1 \/ t \in ToSet(sweeping) => target[t] = NoSite
    BY DEF OneOutcome
  <2>1. t \in ToSet(sweeping) => target[t] = NoSite
    BY DEF IInv, SweepInv, ToSet
  <2> QED  BY <2>1 DEF IInv, SweepInv
<1> QED  BY <1>1, Inductive, PTL

\* A relayed reply goes to the reply_to of the request it answers, whatever
\* was evicted, swept or answered in between (handle_reply, io.rs).
THEOREM RepliesGoHome == Spec => []ReplyGoesHome
<1>1. IInv => ReplyGoesHome
  BY DEF IInv, TargetInv
<1> QED  BY <1>1, Inductive, PTL

\* The sweep may stop at the first live entry: no stale entry is behind it,
\* because the one TTL makes insertion order deadline order (reply.rs).
THEOREM SweepIsComplete == Spec => []StaleIsPrefix
<1>1. IInv => StaleIsPrefix
  <2> SUFFICES ASSUME IInv, NEW i \in DOMAIN pending, pending[i].deadline <= clock
               PROVE  i <= FirstLive(pending, clock)
    BY DEF StaleIsPrefix
  <2>1. pending \in Seq(Entry) /\ clock \in Nat
    BY DEF IInv, TypeOK
  <2>2. Sorted(pending)
    BY DEF IInv, MapInv, Sorted
  <2> QED  BY <2>1, <2>2, FirstLiveIsComplete
<1> QED  BY <1>1, Inductive, PTL

-----------------------------------------------------------------------------

\* What NoEarlyExpiry says of one step.
OnTime ==
  \A i \in DOMAIN pending :
    LET t == pending[i].topic IN
    t \in ToSet(sweeping') \/ expired'[t] > expired[t] =>
      pending[i].deadline <= clock \/ (i = 1 /\ IsFull(pending))

LEMMA StepOnTime == IInv /\ [Next]_vars => OnTime
<1> SUFFICES ASSUME IInv, [Next]_vars, NEW i \in DOMAIN pending,
                    pending[i].topic \in ToSet(sweeping')
                      \/ expired'[pending[i].topic] > expired[pending[i].topic]
             PROVE  pending[i].deadline <= clock \/ (i = 1 /\ IsFull(pending))
  BY DEF OnTime
<1> DEFINE t == pending[i].topic
<1>1. /\ pending \in Seq(Entry) /\ Distinct(pending) /\ clock \in Nat
      /\ expired \in [Topic -> Nat] /\ sweeping \in Seq(Topic)
      /\ DOMAIN pending = 1 .. Len(pending) /\ Len(pending) \in Nat
  BY LenProperties DEF IInv, TypeOK, MapInv, Distinct
<1>2. t \in Topic /\ HasEntry(pending, t)
  BY <1>1, EntryTypes DEF HasEntry, TopicsOf
<1>3. t \notin ToSet(sweeping)
  BY <1>2 DEF IInv, TornDownIsOut
<1>4. expired[t] \in Nat
  BY <1>1, <1>2
<1>5. CASE UNCHANGED <<sweeping, expired>>
  BY <1>3, <1>4, <1>5
<1>6. ASSUME NEW p \in Pump, NEW x \in Topic, NEW s \in SiteTopic, ReceiveRequest(p, x, s)
      PROVE  i = 1 /\ IsFull(pending)
  <2>1. t \in Evicted(pending)
    BY <1>2, <1>3, <1>4, <1>6 DEF ReceiveRequest
  <2>2. IsFull(pending) /\ pending[1].topic = t
    BY <2>1 DEF Evicted
  <2> QED  BY <1>1, <2>2 DEF Distinct
<1>7. CASE Sweep
  <2> DEFINE k == FirstLive(pending, clock)
             s == Swept(pending, clock)
  <2>1. /\ k \in 0 .. Len(pending) /\ s \in Seq(Topic) /\ DOMAIN s = 1 .. k
        /\ \A j \in 1 .. k : s[j] = pending[j].topic /\ pending[j].deadline <= clock
    BY <1>1, SweepShape, FirstLiveProperties
  <2>2. sweeping' = s /\ expired' = CountExpired(s)
    BY <1>7 DEF Sweep
  <2> HIDE DEF s, k
  <2>3. PICK j \in 1 .. k : s[j] = t
    <3>1. CASE t \in ToSet(s)
      BY <2>1, <3>1 DEF ToSet
    <3>2. CASE t \notin ToSet(s)
      <4>1. expired'[t] = IF s /= <<>> /\ t = s[1] THEN expired[t] + 1 ELSE expired[t]
        BY <1>1, <1>2, <2>1, <2>2, CountExpiredAt
      <4>2. s /= <<>> /\ t = s[1]
        BY <1>4, <2>2, <3>2, <4>1
      <4>3. 1 \in DOMAIN s
        BY <2>1, <4>2, EmptySeq, LenProperties
      <4> QED  BY <2>1, <4>2, <4>3
    <3> QED  BY <3>1, <3>2
  <2>4. j \in DOMAIN pending /\ pending[j].topic = t /\ pending[j].deadline <= clock
    BY <1>1, <2>1, <2>3
  <2>5. i = j
    BY <2>4 DEF IInv, MapInv
  <2> QED  BY <2>4, <2>5
<1>8. CASE SweepDone
  <2> DEFINE s == Tail(sweeping)
  <2>1. sweeping /= <<>> /\ sweeping' = s /\ expired' = CountExpired(s)
    BY <1>8 DEF SweepDone
  <2>2. /\ s \in Seq(Topic) /\ Len(s) = Len(sweeping) - 1
        /\ \A j \in 1 .. Len(s) : s[j] = sweeping[j + 1]
    BY <1>1, <2>1, HeadTailProperties
  <2>3. /\ DOMAIN s = 1 .. Len(s) /\ DOMAIN sweeping = 1 .. Len(sweeping)
        /\ Len(s) \in Nat /\ Len(sweeping) \in Nat
    BY <1>1, <2>2, LenProperties
  <2>4. expired'[t] = IF s /= <<>> /\ t = s[1] THEN expired[t] + 1 ELSE expired[t]
    BY <1>1, <1>2, <2>1, <2>2, CountExpiredAt
  <2> HIDE DEF s
  <2>5. \A j \in 1 .. Len(s) : s[j] \in ToSet(sweeping)
    <3> SUFFICES ASSUME NEW j \in 1 .. Len(s)  PROVE s[j] \in ToSet(sweeping)
      OBVIOUS
    <3>1. j + 1 \in DOMAIN sweeping
      BY <2>2, <2>3
    <3> QED  BY <2>2, <3>1 DEF ToSet
  <2>6. s /= <<>> => 1 \in 1 .. Len(s)
    BY <2>2, <2>3, EmptySeq
  <2>7. t \notin ToSet(sweeping')
    BY <1>3, <2>1, <2>3, <2>5 DEF ToSet
  <2> QED  BY <1>3, <1>4, <2>4, <2>5, <2>6, <2>7
<1>9. \/ \E p \in Pump, x \in Topic, s \in SiteTopic : ReceiveRequest(p, x, s)
      \/ Sweep \/ SweepDone \/ UNCHANGED <<sweeping, expired>>
  <2>1. \A p \in Pump : ReceivePlain(p) \/ PumpStep(p) => UNCHANGED <<sweeping, expired>>
    BY DEF ReceivePlain, PumpStep, EvictDone, SubscribeLive, SubscribeFails, CheckEntry,
           DropDone, Forward, history
  <2>2. \A x \in Topic : TaskStep(x) => UNCHANGED <<sweeping, expired>>
    BY DEF TaskStep, TakeReply, CloseSub, PublishReply, SettleDone, history
  <2>3. (\E x \in Topic, kind \in {"good", "bad"} : Reply(x, kind)) \/ Tick \/ UNCHANGED vars
          => UNCHANGED <<sweeping, expired>>
    BY DEF Reply, Tick, vars, proxyVars, history
  <2> QED  BY <2>1, <2>2, <2>3 DEF Next
<1> QED  BY <1>5, <1>6, <1>7, <1>8, <1>9

\* No step counts an entry as expired, or drains it to be, before its
\* deadline, unless the map is full and it is the oldest (sweep and
\* rewrite_downlink, reply.rs).
THEOREM ExpiryIsOnTime == Spec => NoEarlyExpiry
<1>1. IInv /\ [Next]_vars => [OnTime]_vars
  BY StepOnTime
<1>2. Spec => [][OnTime]_vars
  BY <1>1, Inductive, PTL DEF Spec
<1> QED  BY <1>2 DEF OnTime, NoEarlyExpiry

-----------------------------------------------------------------------------
(* The refinement: each step of a task either changes no request's fate,   *)
(* or opens, expires, ends or delivers as the abstract reply path does.    *)

\* What the fate of a topic depends on.
LEMMA FateStays ==
  ASSUME NEW x, Minted(x)' <=> Minted(x),
         HasEntry(pending, x)' <=> HasEntry(pending, x),
         (target[x] /= NoSite)' <=> target[x] /= NoSite,
         (expired[x] > 0 \/ x \in ToSet(sweeping))' <=> (expired[x] > 0 \/ x \in ToSet(sweeping))
  PROVE  Fate(x)' = Fate(x)
<1>1. CASE ~ Minted(x)
  BY <1>1 DEF Fate
<1>2. CASE Minted(x) /\ HasEntry(pending, x)
  BY <1>2 DEF Fate
<1>3. CASE Minted(x) /\ ~ HasEntry(pending, x) /\ target[x] /= NoSite
  BY <1>3 DEF Fate
<1>4. CASE /\ Minted(x) /\ ~ HasEntry(pending, x) /\ ~ (target[x] /= NoSite)
           /\ expired[x] > 0 \/ x \in ToSet(sweeping)
  BY <1>4 DEF Fate
<1>5. CASE /\ Minted(x) /\ ~ HasEntry(pending, x) /\ ~ (target[x] /= NoSite)
           /\ ~ (expired[x] > 0 \/ x \in ToSet(sweeping))
  BY <1>5 DEF Fate
<1> QED  BY <1>1, <1>2, <1>3, <1>4, <1>5

LEMMA FateIs ==
  ASSUME NEW x
  PROVE  /\ ~ Minted(x) => Fate(x) = "unused"
         /\ Minted(x) /\ HasEntry(pending, x) => Fate(x) = "open"
         /\ Minted(x) /\ ~ HasEntry(pending, x) /\ target[x] /= NoSite => Fate(x) = "answered"
<1>1. ~ Minted(x) => Fate(x) = "unused"
  BY DEF Fate
<1>2. ASSUME Minted(x), HasEntry(pending, x)  PROVE Fate(x) = "open"
  BY <1>2 DEF Fate
<1>3. ASSUME Minted(x), ~ HasEntry(pending, x), target[x] /= NoSite
      PROVE  Fate(x) = "answered"
  BY <1>3 DEF Fate
<1> QED  BY <1>1, <1>2, <1>3

LEMMA FateBecomes ==
  ASSUME NEW x, Minted(x)'
  PROVE  /\ HasEntry(pending, x)' => Fate(x)' = "open"
         /\ ~ HasEntry(pending, x)' /\ target'[x] /= NoSite => Fate(x)' = "answered"
         /\ ~ HasEntry(pending, x)' /\ target'[x] = NoSite
              /\ (expired'[x] > 0 \/ x \in ToSet(sweeping')) => Fate(x)' = "expired"
         /\ ~ HasEntry(pending, x)' /\ target'[x] = NoSite
              /\ ~ (expired'[x] > 0 \/ x \in ToSet(sweeping')) => Fate(x)' = "abandoned"
<1>1. ASSUME HasEntry(pending, x)'  PROVE Fate(x)' = "open"
  BY <1>1 DEF Fate
<1>2. ASSUME ~ HasEntry(pending, x)', target'[x] /= NoSite  PROVE Fate(x)' = "answered"
  BY <1>2 DEF Fate
<1>3. ASSUME ~ HasEntry(pending, x)', target'[x] = NoSite,
             expired'[x] > 0 \/ x \in ToSet(sweeping')
      PROVE  Fate(x)' = "expired"
  BY <1>3 DEF Fate
<1>4. ASSUME ~ HasEntry(pending, x)', target'[x] = NoSite,
             ~ (expired'[x] > 0 \/ x \in ToSet(sweeping'))
      PROVE  Fate(x)' = "abandoned"
  BY <1>4 DEF Fate
<1> QED  BY <1>1, <1>2, <1>3, <1>4

\* A step in which no request's fate changes and no reply is published.
LEMMA Stutter ==
  ASSUME \A x \in Topic : Fate(x)' = Fate(x), UNCHANGED <<requester, relayed>>
  PROVE  [OneShot!Next]_(OneShot!vars)
<1>1. [x \in Topic |-> Fate(x)]' = [x \in Topic |-> Fate(x)]
  OBVIOUS
<1> QED  BY <1>1 DEF OneShot!vars

\* So it is with a step that leaves the map, the targets and the counts alone.
LEMMA FatesStay ==
  ASSUME UNCHANGED <<pending, target, sweeping, expired, requester, relayed>>
  PROVE  [OneShot!Next]_(OneShot!vars)
<1>1. \A x \in Topic : Fate(x)' = Fate(x)
  BY FateStays DEF Minted
<1> QED  BY <1>1, Stutter

\* An open request is in the map.
LEMMA OpenIs ==
  ASSUME IInv, NEW x \in Topic, HasEntry(pending, x)
  PROVE  /\ Minted(x) /\ Fate(x) = "open" /\ target[x] = NoSite /\ expired[x] = 0
         /\ x \notin ToSet(sweeping)
<1>1. Minted(x)
  BY DEF IInv, FreshIsUnused
<1> QED  BY <1>1, FateIs DEF IInv, TornDownIsOut

LEMMA MapFacts ==
  ASSUME IInv
  PROVE  /\ pending \in Seq(Entry) /\ Len(pending) <= MaxPending /\ clock \in Nat
         /\ Distinct(pending)
         /\ expired \in [Topic -> Nat] /\ requester \in [Topic -> SiteTopic \cup {NoSite}]
         /\ target \in [Topic -> SiteTopic \cup {NoSite}] /\ task \in [Topic -> TaskStage]
         /\ sweeping \in Seq(Topic)
  BY DEF IInv, TypeOK, MapInv, Distinct

-----------------------------------------------------------------------------
(* The steps                                                               *)

\* rewrite_downlink opens a request and may expire the oldest.
LEMMA RequestOpens ==
  ASSUME IInv, NEW p \in Pump, NEW t \in Topic, NEW s \in SiteTopic, ReceiveRequest(p, t, s)
  PROVE  [OneShot!Next]_(OneShot!vars)
<1> DEFINE V == Evicted(pending)
<1>1. ~ Minted(t) /\ ~ HasEntry(pending, t) /\ requester[t] = NoSite
  BY DEF ReceiveRequest, IInv, FreshIsUnused, Minted
<1>2. \A x : HasEntry(pending', x) <=> x = t \/ (HasEntry(pending, x) /\ x \notin V)
  BY MapFacts, RecordEntries DEF ReceiveRequest
<1>3. \A v \in V : HasEntry(pending, v) /\ v \in Topic
  <2>1. IsFull(pending) => 1 \in DOMAIN pending
    BY MapFacts, LenProperties, MaxPendingAssumption DEF IsFull
  <2> QED  BY <2>1, MapFacts, EntryTypes DEF Evicted, HasEntry, TopicsOf
<1>4. /\ \A x \in Topic : expired'[x] = IF x \in V THEN expired[x] + 1 ELSE expired[x]
      /\ requester' = [requester EXCEPT ![t] = s]
      /\ requester'[t] = s /\ \A x \in Topic \ {t} : requester'[x] = requester[x]
      /\ UNCHANGED <<target, sweeping, relayed>>
  BY MapFacts DEF ReceiveRequest
<1> HIDE DEF V
<1>5. Fate(t) = "unused" /\ Fate(t)' = "open"
  <2>1. Minted(t)'
    BY <1>4, NoSiteAssumption DEF Minted
  <2>2. HasEntry(pending', t)
    BY <1>2
  <2> QED  BY <1>1, <2>1, <2>2, FateIs, FateBecomes
<1>6. ASSUME NEW v \in V  PROVE Fate(v) = "open" /\ Fate(v)' = "expired"
  <2>1. /\ v \in Topic /\ Minted(v) /\ Fate(v) = "open" /\ target[v] = NoSite
        /\ expired[v] = 0 /\ v /= t
    BY <1>1, <1>3, <1>6, OpenIs
  <2>2. Minted(v)' /\ target'[v] = NoSite
    BY <2>1, <1>4 DEF Minted
  <2>3. ~ HasEntry(pending', v)
    BY <1>2, <1>6, <2>1
  <2>4. expired'[v] = 0 + 1
    BY <1>4, <1>6, <2>1
  <2>5. expired'[v] > 0
    BY <2>4
  <2> QED  BY <2>1, <2>2, <2>3, <2>5, FateBecomes
<1>7. ASSUME NEW x \in Topic, x /= t, x \notin V  PROVE Fate(x)' = Fate(x)
  <2>1. HasEntry(pending', x) <=> HasEntry(pending, x)
    BY <1>2, <1>7
  <2>2. Minted(x)' <=> Minted(x)
    BY <1>4, <1>7 DEF Minted
  <2>3. expired'[x] = expired[x] /\ target' = target /\ sweeping' = sweeping
    BY <1>4, <1>7
  <2> QED  BY <2>1, <2>2, <2>3, FateStays
<1>8. [x \in Topic |-> Fate(x)]' = [x \in Topic |-> IF x = t THEN "open"
                                     ELSE IF x \in V THEN "expired"
                                     ELSE [y \in Topic |-> Fate(y)][x]]
  BY <1>5, <1>6, <1>7
<1>9. OneShot!Open(t, s, V)
  <2>1. [y \in Topic |-> Fate(y)][t] = "unused"
    BY <1>5
  <2>2. \A v \in V : [y \in Topic |-> Fate(y)][v] = "open"
    BY <1>3, <1>6
  <2> QED  BY <1>4, <1>8, <2>1, <2>2 DEF OneShot!Open
<1>10. V \in SUBSET Topic
  BY <1>3
<1> QED  BY <1>9, <1>10 DEF OneShot!Next

\* One request ends, as abandoned or as answered.
LEMMA OneEnds ==
  ASSUME NEW t \in Topic, NEW how \in {"answered", "abandoned"},
         Fate(t) = "open", Fate(t)' = how,
         \A x \in Topic \ {t} : Fate(x)' = Fate(x),
         UNCHANGED <<requester, relayed>>
  PROVE  [OneShot!Next]_(OneShot!vars)
<1> DEFINE fates == [x \in Topic |-> Fate(x)]
<1>1. fates[t] = "open"
  OBVIOUS
<1>2. fates' = [fates EXCEPT ![t] = how]
  <2>1. \A x \in Topic : fates'[x] = IF x = t THEN how ELSE fates[x]
    OBVIOUS
  <2> QED  BY <2>1
<1>3. OneShot!End(t, how)
  BY <1>1, <1>2 DEF OneShot!End
<1> QED  BY <1>3 DEF OneShot!Next

\* A failing subscribe abandons its request, if it is still open.
LEMMA SubscribeFailsEnds ==
  ASSUME IInv, NEW p \in Pump, SubscribeFails(p)
  PROVE  [OneShot!Next]_(OneShot!vars)
<1>1. PICK t \in Topic :
        /\ pending' = Take(pending, t)
        /\ UNCHANGED <<target, sweeping, expired, requester, relayed>>
  BY DEF SubscribeFails, IInv, PumpInv, history
<1>2. \A x : HasEntry(pending', x) <=> HasEntry(pending, x) /\ x /= t
  BY <1>1, MapFacts, TakeEntries
<1>3. \A x : Minted(x)' <=> Minted(x)
  BY <1>1 DEF Minted
<1>4. ASSUME NEW x, ~ (x = t /\ HasEntry(pending, t))  PROVE Fate(x)' = Fate(x)
  <2>1. HasEntry(pending', x) <=> HasEntry(pending, x)
    BY <1>2, <1>4
  <2> QED  BY <2>1, <1>1, <1>3, FateStays
<1>5. CASE ~ HasEntry(pending, t)
  BY <1>1, <1>4, <1>5, Stutter
<1>6. CASE HasEntry(pending, t)
  <2>1. /\ Minted(t) /\ Fate(t) = "open" /\ target[t] = NoSite /\ expired[t] = 0
        /\ t \notin ToSet(sweeping)
    BY <1>1, <1>6, OpenIs
  <2>2. ~ HasEntry(pending', t) /\ Minted(t)' /\ target'[t] = NoSite
    BY <2>1, <1>1, <1>2, <1>3
  <2>3. ~ (expired'[t] > 0 \/ t \in ToSet(sweeping'))
    BY <2>1, <1>1
  <2>4. Fate(t)' = "abandoned"
    BY <2>2, <2>3, FateBecomes
  <2> QED  BY <2>1, <2>4, <1>1, <1>4, OneEnds
<1> QED  BY <1>5, <1>6

\* The first reply that meets an entry answers its request.
LEMMA ReplyAnswers ==
  ASSUME IInv, NEW t \in Topic, TakeReply(t)
  PROVE  [OneShot!Next]_(OneShot!vars)
<1>1. UNCHANGED <<sweeping, expired, requester, relayed>>
  BY DEF TakeReply, history
<1>2. CASE ~ HasEntry(pending, t)
  <2>1. UNCHANGED <<pending, target>>
    BY <1>2 DEF TakeReply
  <2> QED  BY <1>1, <2>1, FatesStay
<1>3. CASE HasEntry(pending, t)
  <2>1. /\ pending' = Take(pending, t)
        /\ target' = [target EXCEPT ![t] = SiteOf(pending, t)]
    BY <1>3 DEF TakeReply
  <2>2. SiteOf(pending, t) \in SiteTopic
    <3>1. IndexOf(pending, t) \in 1 .. Len(pending)
      BY <1>3, MapFacts, TakeShape
    <3> QED  BY <3>1, MapFacts, EntryTypes DEF SiteOf
  <2>3. \A x : HasEntry(pending', x) <=> HasEntry(pending, x) /\ x /= t
    BY <2>1, MapFacts, TakeEntries
  <2>4. /\ target'[t] = SiteOf(pending, t)
        /\ \A x \in Topic \ {t} : target'[x] = target[x]
    BY <2>1, MapFacts
  <2>5. \A x : Minted(x)' <=> Minted(x)
    BY <1>1 DEF Minted
  <2>6. Minted(t) /\ Fate(t) = "open"
    BY <1>3, OpenIs
  <2>7. Fate(t)' = "answered"
    BY <2>2, <2>3, <2>4, <2>5, <2>6, NoSiteAssumption, FateBecomes
  <2>8. ASSUME NEW x \in Topic \ {t}  PROVE Fate(x)' = Fate(x)
    BY <2>3, <2>4, <2>5, <1>1, FateStays
  <2> QED  BY <2>6, <2>7, <2>8, <1>1, OneEnds
<1> QED  BY <1>2, <1>3

\* A publish of the reply that succeeds delivers it.
LEMMA PublishDelivers ==
  ASSUME IInv, DeliveredIsDone, NEW t \in Topic, PublishReply(t)
  PROVE  [OneShot!Next]_(OneShot!vars)
<1>1. /\ task[t] = "publishing"
      /\ UNCHANGED <<pending, target, sweeping, expired, requester>>
      /\ relayed' = relayed \cup {<<t, target[t]>>} \/ relayed' = relayed
  BY DEF PublishReply
<1>2. target[t] /= NoSite /\ target[t] = requester[t]
  BY <1>1 DEF IInv, TargetInv
<1>3. ~ HasEntry(pending, t)
  BY <1>1 DEF IInv, TornDownIsOut
<1>4. Minted(t)
  BY <1>2 DEF Minted
<1>5. Fate(t) = "answered"
  BY <1>2, <1>3, <1>4, FateIs
<1>6. \A who : <<t, who>> \notin relayed
  <2>1. \A who : <<t, who>>[1] = t
    OBVIOUS
  <2> QED  BY <2>1, <1>1 DEF DeliveredIsDone
<1>7. \A x \in Topic : Fate(x)' = Fate(x)
  BY <1>1, FateStays DEF Minted
<1>8. CASE relayed' = relayed
  BY <1>1, <1>7, <1>8, Stutter
<1>9. CASE relayed' = relayed \cup {<<t, target[t]>>}
  <2>1. [x \in Topic |-> Fate(x)][t] = "answered"
    BY <1>5
  <2>2. relayed' = relayed \cup {<<t, requester[t]>>}
    BY <1>2, <1>9
  <2>3. [x \in Topic |-> Fate(x)]' = [x \in Topic |-> Fate(x)]
    BY <1>7
  <2>4. OneShot!Deliver(t)
    BY <2>1, <2>2, <2>3, <1>1, <1>6 DEF OneShot!Deliver
  <2> QED  BY <2>4 DEF OneShot!Next
<1> QED  BY <1>1, <1>8, <1>9

\* A sweep expires all that is stale, together.
LEMMA SweepExpires ==
  ASSUME IInv, Sweep
  PROVE  [OneShot!Next]_(OneShot!vars)
<1> DEFINE s == Swept(pending, clock)
           V == ToSet(s)
           fates == [x \in Topic |-> Fate(x)]
<1>1. /\ pending' = AfterSweep(pending, clock) /\ sweeping' = s
      /\ s \in Seq(Topic) /\ Len(s) = FirstLive(pending, clock) /\ sweeping = <<>>
      /\ FirstLive(pending, clock) > 0
      /\ expired' = CountExpired(s)
      /\ UNCHANGED <<target, requester, relayed>>
  BY MapFacts, SweepShape DEF Sweep
<1>2. \A x : /\ HasEntry(pending', x) <=> HasEntry(pending, x) /\ x \notin V
             /\ x \in V => HasEntry(pending, x)
  BY <1>1, MapFacts, SweepEntries
<1>3. 1 \in DOMAIN s /\ s[1] \in V /\ V \subseteq Topic
  <2>1. Len(s) \in Nat /\ DOMAIN s = 1 .. Len(s) /\ \A i \in DOMAIN s : s[i] \in Topic
    BY <1>1
  <2>2. 1 \in DOMAIN s
    <3>1. FirstLive(pending, clock) > 0
      BY <1>1
    <3> HIDE DEF s
    <3> QED  BY <2>1, <3>1, <1>1
  <2> QED  BY <2>1, <2>2 DEF ToSet
<1>4. \A x \in Topic : expired'[x] = IF s /= <<>> /\ x = s[1] THEN expired[x] + 1 ELSE expired[x]
  BY <1>1, MapFacts, CountExpiredAt
<1>5. \A x : x \notin ToSet(sweeping)
  BY <1>1 DEF ToSet
<1>6. sweeping' = s /\ ToSet(sweeping') = V
  BY <1>1
<1> HIDE DEF s, V
<1>7. \A x : Minted(x)' <=> Minted(x)
  BY <1>1 DEF Minted
<1>8. ASSUME NEW x \in V  PROVE Fate(x) = "open" /\ Fate(x)' = "expired"
  <2>1. x \in Topic /\ Minted(x) /\ Fate(x) = "open" /\ target[x] = NoSite
    BY <1>2, <1>3, <1>8, OpenIs
  <2>2. ~ HasEntry(pending', x) /\ target'[x] = NoSite /\ Minted(x)'
    BY <1>1, <1>2, <1>7, <1>8, <2>1
  <2> QED  BY <2>1, <2>2, <1>6, <1>8, FateBecomes
<1>9. ASSUME NEW x \in Topic, x \notin V  PROVE Fate(x)' = Fate(x)
  <2>1. x /= s[1]
    BY <1>3, <1>9
  <2>2. expired'[x] = expired[x]
    BY <2>1, <1>4
  <2>3. HasEntry(pending', x) <=> HasEntry(pending, x)
    BY <1>2, <1>9
  <2> QED  BY <2>2, <2>3, <1>1, <1>5, <1>6, <1>7, <1>9, FateStays
<1>10. fates' = [x \in Topic |-> IF x \in V THEN "expired" ELSE fates[x]]
  BY <1>8, <1>9
<1>11. \A v \in V : fates[v] = "open"
  BY <1>3, <1>8
<1>12. OneShot!Expire(V) /\ V \in SUBSET Topic
  BY <1>1, <1>3, <1>10, <1>11 DEF OneShot!Expire
<1> QED  BY <1>12 DEF OneShot!Next

\* The sweep goes on to the next topic that it drained.
LEMMA SweepGoesOn ==
  ASSUME IInv, SweepDone
  PROVE  [OneShot!Next]_(OneShot!vars)
<1> DEFINE s == Tail(sweeping)
<1>1. /\ sweeping' = s /\ expired' = CountExpired(s) /\ sweeping /= <<>>
      /\ UNCHANGED <<pending, target, requester, relayed>>
  BY DEF SweepDone
<1>2. /\ sweeping \in Seq(Topic) /\ s \in Seq(Topic) /\ Len(s) = Len(sweeping) - 1
      /\ Len(sweeping) \in Nat /\ Len(s) \in Nat
      /\ DOMAIN sweeping = 1 .. Len(sweeping) /\ DOMAIN s = 1 .. Len(s)
      /\ \A i \in 1 .. Len(s) : s[i] = sweeping[i + 1]
  BY <1>1, MapFacts, HeadTailProperties, LenProperties
<1>3. \A x \in Topic : expired'[x] = IF s /= <<>> /\ x = s[1] THEN expired[x] + 1 ELSE expired[x]
  BY <1>1, <1>2, MapFacts, CountExpiredAt
<1> HIDE DEF s
<1>4. \A i \in DOMAIN sweeping : expired[sweeping[i]] = IF i = 1 THEN 1 ELSE 0
  BY DEF IInv, SweepInv
<1>5. ASSUME NEW x \in Topic
      PROVE  (expired[x] > 0 \/ x \in ToSet(sweeping)) <=> (expired'[x] > 0 \/ x \in ToSet(s))
  <2>1. expired[x] \in Nat
    BY MapFacts
  <2>2. CASE x \in ToSet(s)
    <3>1. PICK i \in DOMAIN s : s[i] = x
      BY <2>2 DEF ToSet
    <3>2. i + 1 \in DOMAIN sweeping /\ sweeping[i + 1] = x
      BY <3>1, <1>2
    <3> QED  BY <2>2, <3>2 DEF ToSet
  <2>3. CASE x \notin ToSet(s)
    <3>1. ~ (s /= <<>> /\ x = s[1])
      <4>1. s /= <<>> => 1 \in DOMAIN s
        BY <1>2, EmptySeq
      <4> QED  BY <4>1, <2>3 DEF ToSet
    <3>2. expired'[x] = expired[x]
      BY <3>1, <1>3
    <3>3. x \in ToSet(sweeping) => expired[x] > 0
      <4> SUFFICES ASSUME NEW i \in DOMAIN sweeping, x = sweeping[i]  PROVE expired[x] > 0
        BY DEF ToSet
      <4>1. i = 1
        <5>1. ASSUME i /= 1  PROVE FALSE
          <6>1. i - 1 \in DOMAIN s /\ s[i - 1] = x
            <7>1. i - 1 \in 1 .. Len(s) /\ (i - 1) + 1 = i
              BY <5>1, <1>2
            <7> QED  BY <7>1, <1>2
          <6> QED  BY <6>1, <2>3 DEF ToSet
        <5> QED  BY <5>1
      <4>2. expired[x] = 1
        BY <4>1, <1>4
      <4> QED  BY <4>2
    <3> QED  BY <2>3, <3>2, <3>3
  <2> QED  BY <2>2, <2>3
<1>6. ASSUME NEW x \in Topic  PROVE Fate(x)' = Fate(x)
  <2>1. (expired[x] > 0 \/ x \in ToSet(sweeping))' <=> (expired[x] > 0 \/ x \in ToSet(sweeping))
    BY <1>1, <1>5
  <2>2. Minted(x)' <=> Minted(x)
    BY <1>1 DEF Minted
  <2> QED  BY <1>1, <2>1, <2>2, FateStays
<1> QED  BY <1>1, <1>6, Stutter

\* Each step of the proxy is one of the abstract reply path, or none.
LEMMA StepIsOneShot ==
  IInv /\ DeliveredIsDone /\ [Next]_vars => [OneShot!Next]_(OneShot!vars)
<1> SUFFICES ASSUME IInv, DeliveredIsDone, [Next]_vars  PROVE [OneShot!Next]_(OneShot!vars)
  OBVIOUS
<1>1. CASE \E p \in Pump, t \in Topic, s \in SiteTopic : ReceiveRequest(p, t, s)
  BY <1>1, RequestOpens
<1>2. CASE \E p \in Pump : SubscribeFails(p)
  BY <1>2, SubscribeFailsEnds
<1>3. CASE \E t \in Topic : TakeReply(t)
  BY <1>3, ReplyAnswers
<1>4. CASE \E t \in Topic : PublishReply(t)
  BY <1>4, PublishDelivers
<1>5. CASE Sweep
  BY <1>5, SweepExpires
<1>6. CASE SweepDone
  BY <1>6, SweepGoesOn
<1>7. CASE UNCHANGED <<pending, target, sweeping, expired, requester, relayed>>
  BY <1>7, FatesStay
<1>8. CASE \E p \in Pump : ReceivePlain(p)
  BY <1>7, <1>8 DEF ReceivePlain, history
<1>9. CASE \E p \in Pump : EvictDone(p) \/ DropDone(p)
  BY <1>7, <1>9 DEF EvictDone, DropDone
<1>10. CASE \E p \in Pump : SubscribeLive(p) \/ CheckEntry(p) \/ Forward(p)
  BY <1>7, <1>10 DEF SubscribeLive, CheckEntry, Forward, history
<1>11. CASE \E t \in Topic, kind \in {"good", "bad"} : Reply(t, kind)
  BY <1>7, <1>11 DEF Reply, proxyVars, history
<1>12. CASE \E t \in Topic : CloseSub(t) \/ SettleDone(t)
  BY <1>7, <1>12 DEF CloseSub, SettleDone, history
<1>13. CASE Tick \/ UNCHANGED vars
  BY <1>7, <1>13 DEF Tick, vars, proxyVars, history
<1> QED
  BY <1>1, <1>2, <1>3, <1>4, <1>5, <1>6, <1>8, <1>9, <1>10, <1>11, <1>12, <1>13
  DEF Next, PumpStep, TaskStep

\* A reply pump publishes once: what it published it goes on to unsubscribe.
LEMMA StepDelivers == IInv /\ DeliveredIsDone /\ [Next]_vars => DeliveredIsDone'
<1> SUFFICES ASSUME IInv, DeliveredIsDone, [Next]_vars  PROVE DeliveredIsDone'
  OBVIOUS
<1>1. task \in [Topic -> TaskStage] /\ relayed \subseteq Topic \X SiteTopic
  BY DEF IInv, TypeOK
<1>2. \A r \in relayed : r[1] \in Topic
  BY <1>1
<1>3. ASSUME NEW t \in Topic, relayed' = relayed,
             task[t] \notin {"unsubscribing", "done"} \/ task'[t] \in {"unsubscribing", "done"},
             \A x \in Topic \ {t} : task'[x] = task[x]
      PROVE  DeliveredIsDone'
  BY <1>2, <1>3 DEF DeliveredIsDone
<1>4. CASE UNCHANGED <<task, relayed>>
  BY <1>4 DEF DeliveredIsDone
<1>5. CASE \E p \in Pump : CheckEntry(p)
  <2>1. PICK p \in Pump : CheckEntry(p)
    BY <1>5
  <2>2. PICK t \in Topic : t = pump[p].topic /\ task[t] = "none"
    BY <2>1 DEF CheckEntry, IInv, PumpInv
  <2>3. relayed' = relayed /\ \A x \in Topic \ {t} : task'[x] = task[x]
    BY <1>1, <2>1, <2>2 DEF CheckEntry, history
  <2> QED  BY <1>3, <2>2, <2>3
<1>6. CASE \E t \in Topic : TakeReply(t) \/ CloseSub(t) \/ SettleDone(t)
  <2>1. PICK t \in Topic : TakeReply(t) \/ CloseSub(t) \/ SettleDone(t)
    BY <1>6
  <2>2. /\ relayed' = relayed /\ \A x \in Topic \ {t} : task'[x] = task[x]
        /\ task[t] = "waiting" \/ task'[t] = "done"
    BY <1>1, <2>1 DEF TakeReply, CloseSub, SettleDone, history
  <2> QED  BY <1>3, <2>2
<1>7. CASE \E t \in Topic : PublishReply(t)
  <2>1. PICK t \in Topic : PublishReply(t)
    BY <1>7
  <2>2. task' = [task EXCEPT ![t] = "unsubscribing"]
        /\ (relayed' = relayed \cup {<<t, target[t]>>} \/ relayed' = relayed)
    BY <2>1 DEF PublishReply
  <2>3. \A x \in Topic : task'[x] = IF x = t THEN "unsubscribing" ELSE task[x]
    BY <1>1, <2>2
  <2>4. \A r \in relayed' : r \in relayed \/ r[1] = t
    BY <2>2
  <2> QED  BY <1>2, <2>3, <2>4 DEF DeliveredIsDone
<1>8. CASE \/ \E p \in Pump : ReceivePlain(p)
           \/ \E p \in Pump, t \in Topic, s \in SiteTopic : ReceiveRequest(p, t, s)
  BY <1>4, <1>8 DEF ReceivePlain, ReceiveRequest, history
<1>9. CASE \E p \in Pump : EvictDone(p) \/ SubscribeLive(p) \/ SubscribeFails(p)
                             \/ DropDone(p) \/ Forward(p)
  BY <1>4, <1>9 DEF EvictDone, SubscribeLive, SubscribeFails, DropDone, Forward, history
<1>10. CASE \E t \in Topic, kind \in {"good", "bad"} : Reply(t, kind)
  BY <1>4, <1>10 DEF Reply, proxyVars, history
<1>11. CASE Sweep \/ SweepDone \/ Tick \/ UNCHANGED vars
  BY <1>4, <1>11 DEF Sweep, SweepDone, Tick, vars, proxyVars, history
<1> QED
  BY <1>5, <1>6, <1>7, <1>8, <1>9, <1>10, <1>11 DEF Next, PumpStep, TaskStep

-----------------------------------------------------------------------------

\* The reply proxy keeps what OneShotReply promises: every request made through
\* rewrite_downlink has one outcome, and its reply is published at most once,
\* to its requester and only if the request was answered.
THEOREM ProxyIsOneShot == Spec => OneShotSafety
<1>1. Init => DeliveredIsDone
  BY DEF Init, DeliveredIsDone
<1>2. Init => OneShot!Init
  <2> SUFFICES ASSUME Init  PROVE OneShot!Init
    OBVIOUS
  <2>1. \A t \in Topic : Fate(t) = "unused"
    BY FateIs DEF Init, Minted
  <2>2. [t \in Topic |-> Fate(t)] = [t \in Topic |-> "unused"]
    BY <2>1
  <2> QED  BY <2>2 DEF Init, OneShot!Init
<1>3. IInv /\ DeliveredIsDone /\ [Next]_vars => [OneShot!Next]_(OneShot!vars)
  BY StepIsOneShot
<1>4. IInv /\ DeliveredIsDone /\ [Next]_vars => DeliveredIsDone'
  BY StepDelivers
<1> QED
  BY <1>1, <1>2, <1>3, <1>4, Inductive, PTL DEF Spec, OneShotSafety, OneShot!Safety

=============================================================================
