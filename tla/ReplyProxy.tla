------------------------------ MODULE ReplyProxy ------------------------------
(***************************************************************************)
(* The reply proxy of io.rs: the downlink pumps, the one-shot reply pumps  *)
(* and the TTL sweep task, which share the correlation map and act on the  *)
(* subscriptions the device broker holds for the bridge.                   *)
(*                                                                         *)
(* An action is one task's run from one await to the next.  Such a run     *)
(* takes the correlator's mutex at most once, so it is atomic at that      *)
(* point; the effect of a subscribe or unsubscribe at the broker and the   *)
(* task's next run are separate actions where the order matters.           *)
(***************************************************************************)
EXTENDS ReplyCorrelator, FiniteSets

CONSTANTS
  Pump,        \* the downlink pumps: one per downlink filter
  NoTopic,     \* the absence of a topic
  NoSite,      \* the absence of a site topic
  MaxClock     \* bound on the clock

ASSUME NoTopicAssumption == NoTopic \notin Topic
ASSUME NoSiteAssumption == NoSite \notin SiteTopic
ASSUME MaxClockAssumption == MaxClock \in Nat

VARIABLES
  clock,       \* Instant::now()
  pending,     \* ReplyCorrelator.pending
  pump,        \* where each downlink pump awaits, and for which topics
  task,        \* where the reply pump of each bridge topic awaits
  target,      \* the site topic a reply pump took from the map
  sweeping,    \* what the sweep task drained; it awaits the head's unsubscribe
  subs,        \* bridge topics the device broker routes to the bridge
  inbox,       \* the reply waiting in each topic's Subscription (depth 1)
  commanded,   \* bridge topics the device bus saw as the reply_to of a cmd
  requester,   \* history: who asked for the reply on each minted topic
  relayed,     \* history: <<bridge topic, site topic>> of published replies
  expired,     \* history: how often reply_expired counted each topic
  stuck        \* history: topics one of whose unsubscribes failed

proxyVars == <<pending, pump, task, target, sweeping>>
envVars   == <<clock, subs, inbox, commanded>>
history   == <<requester, relayed, expired, stuck>>
vars      == <<proxyVars, envVars, history>>

Stage == {"idle", "evicting", "subscribing", "checking", "dropping", "forwarding"}
TaskStage == {"none", "waiting", "publishing", "unsubscribing", "done"}

Idle == [at |-> "idle", topic |-> NoTopic, victim |-> NoTopic]

Minted(t) == requester[t] /= NoSite
\* slip: the oldest entry answers
SiteOfOldest(q, t) == q[1].site

SiteOf(q, t) == q[IndexOf(q, t)].site

Init ==
  /\ clock = 0
  /\ pending = <<>>
  /\ pump = [p \in Pump |-> Idle]
  /\ task = [t \in Topic |-> "none"]
  /\ target = [t \in Topic |-> NoSite]
  /\ sweeping = <<>>
  /\ subs = {}
  /\ inbox = [t \in Topic |-> "empty"]
  /\ commanded = {}
  /\ requester = [t \in Topic |-> NoSite]
  /\ relayed = {}
  /\ expired = [t \in Topic |-> 0]
  /\ stuck = {}

\* An unsubscribe that returned: Ok, or an error that is only logged.
Unsubscribed(t) ==
  \/ /\ subs' = subs \ {t}
     /\ UNCHANGED stuck
  \/ /\ stuck' = stuck \cup {t}
     /\ UNCHANGED subs

-----------------------------------------------------------------------------
(* The downlink pumps: pump() in its Downlink role, rewrite_downlink()     *)

\* A command without reply_to is forwarded as it is.
ReceivePlain(p) ==
  /\ pump[p].at = "idle"
  /\ pump' = [pump EXCEPT ![p] = [Idle EXCEPT !.at = "forwarding"]]
  /\ UNCHANGED <<pending, task, target, sweeping, envVars, history>>

\* A command with reply_to s: the map records a fresh topic t and may evict
\* its oldest entry, which expire() counts before its first await.  The bound
\* on the clock leaves every entry the time to expire.
ReceiveRequest(p, t, s) ==
  /\ pump[p].at = "idle"
  /\ ~ Minted(t)
  /\ clock + Ttl <= MaxClock
  /\ pending' = Record(pending, t, s, clock)
  /\ LET v == Evicted(pending) IN
       /\ pump' = [pump EXCEPT ![p] =
                     [at     |-> IF v = {} THEN "subscribing" ELSE "evicting",
                      topic  |-> t,
                      victim |-> IF v = {} THEN NoTopic ELSE pending[1].topic]]
       /\ expired' = [x \in Topic |-> IF x \in v THEN expired[x] + 1 ELSE expired[x]]
  /\ requester' = [requester EXCEPT ![t] = s]
  /\ UNCHANGED <<task, target, sweeping, envVars, relayed, stuck>>

\* expire() of the evicted topic returned.
EvictDone(p) ==
  /\ pump[p].at = "evicting"
  /\ Unsubscribed(pump[p].victim)
  /\ pump' = [pump EXCEPT ![p] =
                [at |-> "subscribing", topic |-> @.topic, victim |-> NoTopic]]
  /\ UNCHANGED <<pending, task, target, sweeping, clock, inbox, commanded,
                 requester, relayed, expired>>

\* The subscription is live at the broker; the pump has not run since.
SubscribeLive(p) ==
  /\ pump[p].at = "subscribing"
  /\ subs' = subs \cup {pump[p].topic}
  /\ pump' = [pump EXCEPT ![p].at = "checking"]
  /\ UNCHANGED <<pending, task, target, sweeping, clock, inbox, commanded, history>>

\* slip: fail open, the command is relayed although its reply cannot return
SubscribeFailsOpen(p) ==
  /\ pump[p].at = "subscribing"
  /\ pump' = [pump EXCEPT ![p].at = "forwarding"]
  /\ UNCHANGED <<pending, task, target, sweeping, envVars, history>>

\* The command is given up, fail closed.
SubscribeFails(p) ==
  /\ pump[p].at = "subscribing"
  /\ pending' = Take(pending, pump[p].topic)
  /\ pump' = [pump EXCEPT ![p] = Idle]
  /\ UNCHANGED <<task, target, sweeping, envVars, history>>

\* slip: no second look at the map after the await
CheckEntryBlind(p) ==
  /\ pump[p].at = "checking"
  /\ task' = [task EXCEPT ![pump[p].topic] = "waiting"]
  /\ pump' = [pump EXCEPT ![p].at = "forwarding"]
  /\ UNCHANGED <<pending, target, sweeping, envVars, history>>

\* After the SUBACK: spawn the reply pump, or drop the subscription when the
\* entry was evicted or swept in the meantime.
CheckEntry(p) ==
  /\ pump[p].at = "checking"
  /\ LET t == pump[p].topic IN
       \/ /\ HasEntry(pending, t)
          /\ task' = [task EXCEPT ![t] = "waiting"]
          /\ pump' = [pump EXCEPT ![p].at = "forwarding"]
       \/ /\ ~ HasEntry(pending, t)
          /\ pump' = [pump EXCEPT ![p].at = "dropping"]
          /\ UNCHANGED task
  /\ UNCHANGED <<pending, target, sweeping, envVars, history>>

DropDone(p) ==
  /\ pump[p].at = "dropping"
  /\ Unsubscribed(pump[p].topic)
  /\ pump' = [pump EXCEPT ![p].at = "forwarding"]
  /\ UNCHANGED <<pending, task, target, sweeping, clock, inbox, commanded,
                 requester, relayed, expired>>

\* The republish on the device bus succeeds, and then a device may see the
\* bridge topic as reply_to, or it fails.
Forward(p) ==
  /\ pump[p].at = "forwarding"
  /\ pump' = [pump EXCEPT ![p] = Idle]
  /\ \/ commanded' = commanded \cup ({pump[p].topic} \ {NoTopic})
     \/ UNCHANGED commanded
  /\ UNCHANGED <<pending, task, target, sweeping, clock, subs, inbox, history>>

-----------------------------------------------------------------------------
(* The reply pumps: spawn_reply_pump() and handle_reply()                  *)

\* A device answers a command it received, well (a reply the bridge will
\* relay) or not (malformed, own echo or over maxHops); again and late too.
\* Only what meets a live, empty Subscription reaches the bridge.
Reply(t, kind) ==
  /\ t \in commanded
  /\ t \in subs
  /\ task[t] = "waiting"
  /\ inbox[t] = "empty"
  /\ inbox' = [inbox EXCEPT ![t] = kind]
  /\ UNCHANGED <<proxyVars, clock, subs, commanded, history>>

\* slip: an early return when the reply is not relayed
TakeReplyReturnsEarly(t) ==
  /\ task[t] = "waiting"
  /\ inbox[t] /= "empty"
  /\ inbox' = [inbox EXCEPT ![t] = "empty"]
  /\ \/ /\ ~ HasEntry(pending, t)
        /\ task' = [task EXCEPT ![t] = "done"]
        /\ UNCHANGED <<pending, target>>
     \/ /\ HasEntry(pending, t)
        /\ pending' = Take(pending, t)
        /\ target' = [target EXCEPT ![t] = SiteOf(pending, t)]
        /\ task' = [task EXCEPT ![t] = IF inbox[t] = "good" THEN "publishing" ELSE "done"]
  /\ UNCHANGED <<pump, sweeping, clock, subs, commanded, history>>

\* recv() yields the reply: resolve it, or count it as a stray.
TakeReply(t) ==
  /\ task[t] = "waiting"
  /\ inbox[t] /= "empty"
  /\ inbox' = [inbox EXCEPT ![t] = "empty"]
  /\ \/ /\ ~ HasEntry(pending, t)
        /\ task' = [task EXCEPT ![t] = "done"]
        /\ UNCHANGED <<pending, target>>
     \/ /\ HasEntry(pending, t)
        /\ pending' = Take(pending, t)
        /\ target' = [target EXCEPT ![t] = SiteOf(pending, t)]
        /\ task' = [task EXCEPT ![t] = IF inbox[t] = "good" THEN "publishing"
                                       ELSE "unsubscribing"]
  /\ UNCHANGED <<pump, sweeping, clock, subs, commanded, history>>

\* recv() yields None: the subscription was closed under an empty inbox.
CloseSub(t) ==
  /\ task[t] = "waiting"
  /\ inbox[t] = "empty"
  /\ t \notin subs
  /\ task' = [task EXCEPT ![t] = "done"]
  /\ UNCHANGED <<pending, pump, target, sweeping, envVars, history>>

\* The publish to the site broker returned, Ok or not.
PublishReply(t) ==
  /\ task[t] = "publishing"
  /\ task' = [task EXCEPT ![t] = "unsubscribing"]
  /\ \/ relayed' = relayed \cup {<<t, target[t]>>}
     \/ UNCHANGED relayed
  /\ UNCHANGED <<pending, pump, target, sweeping, envVars, requester, expired, stuck>>

SettleDone(t) ==
  /\ task[t] = "unsubscribing"
  /\ Unsubscribed(t)
  /\ task' = [task EXCEPT ![t] = "done"]
  /\ UNCHANGED <<pending, pump, target, sweeping, clock, inbox, commanded,
                 requester, relayed, expired>>

-----------------------------------------------------------------------------
(* The TTL sweep task                                                      *)

CountExpired(s) ==
  IF s = <<>> THEN expired ELSE [expired EXCEPT ![Head(s)] = @ + 1]

\* A tick: drain what is stale, then expire() each topic in turn; expire()
\* counts before it awaits the unsubscribe.
Sweep ==
  /\ sweeping = <<>>
  /\ FirstLive(pending, clock) > 0
  /\ sweeping' = Swept(pending, clock)
  /\ pending' = AfterSweep(pending, clock)
  /\ expired' = CountExpired(sweeping')
  /\ UNCHANGED <<pump, task, target, envVars, requester, relayed, stuck>>

SweepDone ==
  /\ sweeping /= <<>>
  /\ Unsubscribed(Head(sweeping))
  /\ sweeping' = Tail(sweeping)
  /\ expired' = CountExpired(sweeping')
  /\ UNCHANGED <<pending, pump, task, target, clock, inbox, commanded,
                 requester, relayed>>

Tick ==
  /\ clock < MaxClock
  /\ clock' = clock + 1
  /\ UNCHANGED <<proxyVars, subs, inbox, commanded, history>>

-----------------------------------------------------------------------------

PumpStep(p) ==
  \/ EvictDone(p) \/ SubscribeLive(p) \/ SubscribeFails(p)
  \/ CheckEntry(p) \/ DropDone(p) \/ Forward(p)

TaskStep(t) == TakeReply(t) \/ CloseSub(t) \/ PublishReply(t) \/ SettleDone(t)

Next ==
  \/ \E p \in Pump : ReceivePlain(p)
  \/ \E p \in Pump, t \in Topic, s \in SiteTopic : ReceiveRequest(p, t, s)
  \/ \E p \in Pump : PumpStep(p)
  \/ \E t \in Topic, kind \in {"good", "bad"} : Reply(t, kind)
  \/ \E t \in Topic : TaskStep(t)
  \/ Sweep
  \/ SweepDone
  \/ Tick

Spec == Init /\ [][Next]_vars

\* Tokio runs every ready task, every call on a provider returns (with Ok or
\* an error), the sweep's interval fires again and again, and time passes.
\* Nobody has to send a command or to answer one.
Fairness ==
  /\ \A p \in Pump : WF_vars(PumpStep(p))
  /\ \A t \in Topic : WF_vars(TaskStep(t))
  /\ WF_vars(Sweep \/ SweepDone)
  /\ WF_vars(Tick)

FairSpec == Spec /\ Fairness

-----------------------------------------------------------------------------
(* Properties                                                              *)

\* Every variable has its type, and the map never outgrows reply.maxPending
\* (the push of rewrite_downlink, reply.rs).
TypeOK ==
  /\ clock \in 0 .. MaxClock
  /\ pending \in Seq(Entry) /\ Len(pending) <= MaxPending
  /\ pump \in [Pump -> [at : Stage, topic : Topic \cup {NoTopic},
                        victim : Topic \cup {NoTopic}]]
  /\ task \in [Topic -> TaskStage]
  /\ target \in [Topic -> SiteTopic \cup {NoSite}]
  /\ sweeping \in Seq(Topic)
  /\ subs \subseteq Topic
  /\ inbox \in [Topic -> {"empty", "good", "bad"}]
  /\ commanded \subseteq Topic
  /\ requester \in [Topic -> SiteTopic \cup {NoSite}]
  /\ relayed \subseteq Topic \X SiteTopic
  /\ expired \in [Topic -> Nat]
  /\ stuck \subseteq Topic

\* Once a device has seen a rewritten command, as long as the map expects its
\* reply, the reply subscription is live and its pump is waiting: the reply
\* of a fast responder cannot be lost (subscribe before publish).
PendingIsListening ==
  \A t \in commanded :
    HasEntry(pending, t) => t \in subs /\ task[t] = "waiting"

\* Who is going to unsubscribe t, entry or no entry.
HeldByPump(p, t) ==
  \/ pump[p].at = "evicting" /\ pump[p].victim = t
  \/ pump[p].at \in {"subscribing", "checking", "dropping"} /\ pump[p].topic = t
TornDownByPump(t) == \E p \in Pump : HeldByPump(p, t)
TornDownByTask(t) == task[t] \in {"publishing", "unsubscribing"}
TornDownBySweep(t) == t \in ToSet(sweeping)

\* No dangling subscription: each bridge topic the device broker still routes
\* to the bridge is either in the map, or held by a task that is about to
\* unsubscribe it, or one whose unsubscribe failed.
LiveHasOwner ==
  \A t \in subs :
    \/ HasEntry(pending, t)
    \/ TornDownByPump(t) \/ TornDownByTask(t) \/ TornDownBySweep(t)
    \/ t \in stuck

\* A correlation entry ends once: it is counted as expired at most once, and
\* then no reply was, or will be, resolved through it.
OneOutcome ==
  \A t \in Topic :
    /\ expired[t] <= 1
    /\ expired[t] = 1 \/ t \in ToSet(sweeping) => target[t] = NoSite

\* A relayed reply is published to the reply_to of the request it answers.
ReplyGoesHome == \A r \in relayed : r[2] = requester[r[1]]

\* No entry is expired early: what is counted as expired, or drained to be,
\* was stale or was the oldest entry of a full map.
NoEarlyExpiry ==
  [][\A i \in DOMAIN pending :
       LET t == pending[i].topic IN
       t \in ToSet(sweeping') \/ expired'[t] > expired[t] =>
         pending[i].deadline <= clock \/ (i = 1 /\ IsFull(pending))]_vars

\* The sweep misses nothing, although it stops at the first live entry: the
\* stale entries are a prefix of the map ("insertion order is deadline order").
StaleIsPrefix ==
  \A i \in DOMAIN pending :
    pending[i].deadline <= clock => i <= FirstLive(pending, clock)

\* Every request that got a bridge topic is settled: its entry leaves the map
\* and its subscription is gone, unless the unsubscribe failed.
Settled(t) == ~ HasEntry(pending, t) /\ (t \notin subs \/ t \in stuck)
ReplyPathCloses == \A t \in Topic : Minted(t) ~> [](Settled(t))

-----------------------------------------------------------------------------
(* The inductive invariant: why the properties above hold                  *)

\* A topic nobody minted yet is nowhere.
FreshIsUnused ==
  \A t \in Topic : ~ Minted(t) =>
    /\ ~ HasEntry(pending, t) /\ t \notin subs /\ t \notin commanded
    /\ task[t] = "none" /\ target[t] = NoSite /\ expired[t] = 0
    /\ t \notin ToSet(sweeping)
    /\ \A p \in Pump : pump[p].topic /= t /\ pump[p].victim /= t

\* The map: one entry per topic, in deadline order, none beyond clock + Ttl,
\* each with the requester's own site topic.
MapInv ==
  /\ \A i, j \in DOMAIN pending : pending[i].topic = pending[j].topic => i = j
  /\ \A i, j \in DOMAIN pending : i < j => pending[i].deadline <= pending[j].deadline
  /\ \A i \in DOMAIN pending : /\ pending[i].deadline <= clock + Ttl
                               /\ pending[i].site = requester[pending[i].topic]

\* What each stage of a downlink pump knows of its topics.  No two pumps work
\* on the same topic, and nobody answers a topic before its pump is through.
PumpInv ==
  /\ \A p, q \in Pump :
       pump[p].topic = pump[q].topic /\ pump[p].topic /= NoTopic => p = q
  /\ \A p \in Pump : LET t == pump[p].topic IN
       /\ pump[p].at = "idle" => t = NoTopic
       /\ pump[p].at \notin {"idle", "forwarding"} =>
            t \in Topic /\ task[t] = "none" /\ t \notin commanded
       /\ pump[p].at = "evicting" <=> pump[p].victim \in Topic
       /\ pump[p].at \in {"evicting", "subscribing"} => t \notin subs
       /\ pump[p].at = "checking" /\ HasEntry(pending, t) => t \in subs
       /\ pump[p].at = "forwarding" /\ t /= NoTopic /\ HasEntry(pending, t) =>
            task[t] /= "none"

\* What is being torn down, or was, is out of the map for good.
TornDownIsOut ==
  \A t \in Topic : HasEntry(pending, t) =>
    /\ t \notin ToSet(sweeping)
    /\ \A p \in Pump : pump[p].victim /= t /\ ~ (pump[p].at = "dropping" /\ pump[p].topic = t)
    /\ task[t] \in {"none", "waiting"}
    /\ task[t] = "waiting" => t \in subs
    /\ t \in commanded => task[t] = "waiting"
    /\ target[t] = NoSite
    /\ expired[t] = 0

\* The sweep counts a topic when it reaches the head.
SweepInv ==
  /\ \A i, j \in DOMAIN sweeping : sweeping[i] = sweeping[j] => i = j
  /\ \A i \in DOMAIN sweeping : /\ target[sweeping[i]] = NoSite
                                /\ expired[sweeping[i]] = IF i = 1 THEN 1 ELSE 0
  /\ \A t \in Topic : expired[t] <= 1 /\ (expired[t] = 1 => target[t] = NoSite)

\* A reply pump publishes to the site topic its requester gave.
TargetInv ==
  /\ \A t \in Topic : target[t] /= NoSite => target[t] = requester[t]
  /\ \A t \in Topic : task[t] = "publishing" => target[t] /= NoSite
  /\ ReplyGoesHome

\* The inductive invariant: with it, every step keeps every one of its parts.
IInv ==
  /\ TypeOK /\ FreshIsUnused /\ MapInv /\ PumpInv /\ TornDownIsOut
  /\ SweepInv /\ TargetInv /\ LiveHasOwner

-----------------------------------------------------------------------------
(* The refinement of OneShotReply                                          *)

\* A reply pump that has delivered never publishes again.
DeliveredIsDone == \A r \in relayed : task[r[1]] \in {"unsubscribing", "done"}

Fate(t) ==
  IF ~ Minted(t) THEN "unused"
  ELSE IF HasEntry(pending, t) THEN "open"
  ELSE IF target[t] /= NoSite THEN "answered"
  ELSE IF expired[t] > 0 \/ t \in ToSet(sweeping) THEN "expired"
  ELSE "abandoned"

OneShot ==
  INSTANCE OneShotReply WITH Request <- Topic, Requester <- SiteTopic, Nobody <- NoSite,
    outcome <- [t \in Topic |-> Fate(t)], owner <- requester, delivered <- relayed

\* The proxy implements the one-shot reply path, and settles every request.
OneShotSafety == OneShot!Safety
OneShotSpec == OneShot!Spec

=============================================================================
