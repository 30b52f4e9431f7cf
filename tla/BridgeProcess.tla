----------------------------- MODULE BridgeProcess -----------------------------
(***************************************************************************)
(* A run of the bridge, from main()'s first line to its last: what stops   *)
(* it before it connects, the connect loop, RelayIo::start, the pumps and  *)
(* the metrics task at work, and RelayIo::shutdown.  The reply topics that *)
(* shutdown drains are module ReplyShutdown.                               *)
(***************************************************************************)
EXTENDS RelayEngine, BridgeConfig, RelayMetrics

CONSTANTS
  Worlds,      \* what a run may find when it starts
  MaxStuck     \* bound on the unsubscribes that fail

\* bus: the device bus answers; transport: the runtime resolved one; device:
\* the device token; valid: it is a UNS token; doc: the component section.
ASSUME WorldsAssumption ==
  \A w \in Worlds : {w.bus, w.transport, w.valid} \subseteq BOOLEAN /\ Document(w.doc)

VARIABLES
  world,       \* never changes
  reachable,   \* the site broker accepts connections
  signal,      \* SIGTERM or Ctrl-C came
  phase,       \* where main() stands
  reason,      \* why the run failed
  todo,        \* the subscriptions or tasks that start and shutdown go through
  subs,        \* what is subscribed, and how deep
  stuck,       \* history: the subscriptions whose unsubscribe failed
  pumps,       \* the pump tasks, each known by its subscription
  periodic     \* the watcher, the sweep and the metrics task

mainVars == <<phase, reason, todo, subs, stuck, pumps, periodic>>
worldVars == <<world, reachable, signal>>
vars == <<worldVars, mainVars, metricVars>>

Entry == SiteInstance(world.doc)

\* RelayEngine::new
Built == [id |-> world.device, device |-> world.device,
          maxHops |-> EffectiveMaxHops(Entry), app |-> AppEnabled(Entry.uplink)]

AllSubscriptions == UplinkSubscriptions(Built) \o DownlinkSubscriptions(Built)
Periodic == <<[task |-> "watcher"], [task |-> "metrics"], [task |-> "sweep"]>>
Deep(s) == [sub |-> s, depth |-> DepthOf(Entry, s.class)]
WithDepth(set) == {Deep(s) : s \in set}

Init ==
  /\ world \in Worlds
  /\ reachable \in BOOLEAN
  /\ signal = FALSE
  /\ phase = "preparing" /\ reason = "none"
  /\ todo = <<>> /\ subs = {} /\ stuck = {} /\ pumps = {} /\ periodic = {}
  /\ MetricsInit

-----------------------------------------------------------------------------
(* Up to the connection                                                    *)

\* main(): what ends the run before it connects.  The first that applies.
Fatal(w) ==
  IF ~ w.bus THEN "device bus"
  ELSE IF ~ Accepted(w.doc) THEN "config"
  ELSE IF ~ HasSite(w.doc) THEN "site entry"
  ELSE IF ~ w.valid THEN "device token"
  ELSE IF ~ w.transport THEN "transport"
  ELSE IF ~ SiteInstance(w.doc).siteBroker THEN "site broker"
  ELSE "none"

Fail(why) == phase' = "failed" /\ reason' = why

Prepare ==
  /\ phase = "preparing"
  /\ IF Fatal(world) = "none" THEN phase' = "connecting" /\ UNCHANGED reason
                              ELSE Fail(Fatal(world))
  /\ UNCHANGED <<worldVars, todo, subs, stuck, pumps, periodic, metricVars>>

\* connect_site_with_retry, and then RelayIo::start.
ConnectOk ==
  /\ phase = "connecting" /\ reachable
  /\ phase' = "starting"
  /\ todo' = AllSubscriptions
  /\ UNCHANGED <<worldVars, reason, subs, stuck, pumps, periodic, metricVars>>

\* slip: the first failure is fatal
ConnectFailsFatal ==
  /\ phase = "connecting"
  /\ Fail("connect")
  /\ UNCHANGED <<worldVars, todo, subs, stuck, pumps, periodic, metricVars>>

ConnectFails ==
  /\ phase = "connecting"
  /\ phase' = "sleeping"
  /\ UNCHANGED <<worldVars, reason, todo, subs, stuck, pumps, periodic, metricVars>>

Retry ==
  /\ phase = "sleeping"
  /\ phase' = "connecting"
  /\ UNCHANGED <<worldVars, reason, todo, subs, stuck, pumps, periodic, metricVars>>

\* slip: the signal is awaited behind the loop only
AbandonNever == FALSE /\ UNCHANGED vars

\* select!: the signal, in an attempt or between two.
Abandon ==
  /\ phase \in {"connecting", "sleeping"} /\ signal
  /\ phase' = "abandoned"
  /\ UNCHANGED <<worldVars, reason, todo, subs, stuck, pumps, periodic, metricVars>>

-----------------------------------------------------------------------------
(* RelayIo::start                                                          *)

\* Behind the last subscription the periodic tasks are spawned.  One with an
\* interval of nothing would not outlive its first step.
Spawned ==
  LET sweeps == SweepInterval(ReplyKnobs(Entry.reply).ttlSecs) > 0
  IN  {t \in ToSet(Periodic) : t.task = "sweep" => sweeps}

Started ==
  IF Len(todo) = 1 THEN phase' = "running" /\ periodic' = Spawned
                   ELSE UNCHANGED <<phase, periodic>>

SubscribeOk ==
  /\ phase = "starting"
  /\ subs' = subs \cup {Deep(Head(todo))}
  /\ pumps' = pumps \cup {Head(todo)}
  /\ todo' = Tail(todo)
  /\ Started
  /\ UNCHANGED <<worldVars, reason, stuck, metricVars>>

\* slip: a failed subscribe is logged and passed over
SubscribeFailsOn ==
  /\ phase = "starting"
  /\ todo' = Tail(todo)
  /\ Started
  /\ UNCHANGED <<worldVars, reason, subs, stuck, pumps, metricVars>>

\* "?": start returns, and nobody has the pumps that run already.
SubscribeFails ==
  /\ phase = "starting"
  /\ phase' = "returning" /\ reason' = "subscribe"
  /\ todo' = <<>>
  /\ UNCHANGED <<worldVars, subs, stuck, pumps, periodic, metricVars>>

\* They go with the runtime, and the subscriptions with the connections.
RuntimeDropped ==
  /\ phase = "returning"
  /\ phase' = "failed"
  /\ pumps' = {} /\ subs' = {}
  /\ UNCHANGED <<worldVars, reason, todo, stuck, periodic, metricVars>>

-----------------------------------------------------------------------------
(* The relay at work                                                       *)

SlotOf(s) == IF s.dir = "up" THEN <<"relay_uplinked", s.class>> ELSE <<"relay_downlinked", "count">>

\* A pump relays a message, and counts it.
Relay(s) ==
  /\ s \in pumps
  /\ Count(SlotOf(s))
  /\ UNCHANGED <<worldVars, mainVars, reportVars>>

Report ==
  /\ [task |-> "metrics"] \in periodic
  /\ MetricsStep
  /\ UNCHANGED <<worldVars, mainVars>>

-----------------------------------------------------------------------------
(* RelayIo::shutdown                                                       *)

\* slip: the periodic tasks are not kept to be aborted
TasksPumpsOnly == AllSubscriptions

\* The tasks, in the order in which start pushed them.
Tasks == AllSubscriptions \o Periodic

\* All are aborted, and then awaited one by one.
Shutdown ==
  /\ phase = "running" /\ signal
  /\ phase' = "aborting"
  /\ todo' = Tasks
  /\ UNCHANGED <<worldVars, reason, subs, stuck, pumps, periodic, metricVars>>

\* slip: the tasks are aborted and not awaited
AwaitTaskNot ==
  /\ phase = "aborting"
  /\ phase' = "unsubscribing" /\ todo' = AllSubscriptions
  /\ UNCHANGED <<worldVars, reason, subs, stuck, pumps, periodic, metricVars>>

\* An aborted task ends at its next await, at the latest when main() waits for
\* it: that it may have ended before makes no difference to the others.
AwaitTask ==
  /\ phase = "aborting"
  /\ pumps' = pumps \ {Head(todo)}
  /\ periodic' = periodic \ {Head(todo)}
  /\ IF Len(todo) = 1 THEN phase' = "unsubscribing" /\ todo' = AllSubscriptions
                      ELSE todo' = Tail(todo) /\ UNCHANGED phase
  /\ UNCHANGED <<worldVars, reason, subs, stuck, metricVars>>

Unsubscribed ==
  /\ todo' = Tail(todo)
  /\ phase' = IF Len(todo) = 1 THEN "stopped" ELSE phase

UnsubscribeOk ==
  /\ phase = "unsubscribing"
  /\ subs' = subs \ {Deep(Head(todo))}
  /\ Unsubscribed
  /\ UNCHANGED <<worldVars, reason, stuck, pumps, periodic, metricVars>>

\* Logged, and passed over; the subscription may be gone all the same.
UnsubscribeFails ==
  /\ phase = "unsubscribing" /\ Cardinality(stuck) < MaxStuck
  /\ stuck' = stuck \cup {Deep(Head(todo))}
  /\ subs' \in {subs, subs \ {Deep(Head(todo))}}
  /\ Unsubscribed
  /\ UNCHANGED <<worldVars, reason, pumps, periodic, metricVars>>

-----------------------------------------------------------------------------

Main ==
  \/ Prepare \/ ConnectOk \/ ConnectFails \/ Retry \/ Abandon
  \/ SubscribeOk \/ SubscribeFails \/ RuntimeDropped
  \/ Shutdown \/ AwaitTask \/ UnsubscribeOk \/ UnsubscribeFails

\* The site broker comes and goes, and the signal comes once.
SiteTurns ==
  /\ phase \in {"preparing", "connecting", "sleeping"}
  /\ reachable' = ~ reachable
  /\ UNCHANGED <<world, signal, mainVars, metricVars>>

Signalled ==
  /\ ~ signal /\ signal' = TRUE
  /\ UNCHANGED <<world, reachable, mainVars, metricVars>>

Next == Main \/ (\E s \in pumps : Relay(s)) \/ Report \/ SiteTurns \/ Signalled

Spec == Init /\ [][Next]_vars

\* main() goes on; select! looks at the signal whenever it is woken; a broker
\* that can be reached again and again does not refuse every attempt.
FairSpec ==
  /\ Spec
  /\ WF_vars(Main)
  /\ WF_vars(Abandon)
  /\ SF_vars(ConnectOk)

-----------------------------------------------------------------------------
(* Properties                                                              *)

Ended == {"failed", "abandoned", "stopped"}

\* Every variable has its type.
TypeOK ==
  /\ world \in Worlds
  /\ reachable \in BOOLEAN /\ signal \in BOOLEAN
  /\ phase \in Ended \cup {"preparing", "connecting", "sleeping", "starting", "returning",
                           "running", "aborting", "unsubscribing"}
  /\ phase \in {"preparing", "failed"} \/
       /\ IsSuffix(todo, AllSubscriptions) \/ IsSuffix(todo, Tasks)
       /\ pumps \subseteq ToSet(AllSubscriptions)
       /\ subs \cup stuck \subseteq WithDepth(ToSet(AllSubscriptions))
  /\ periodic \subseteq ToSet(Periodic)
  /\ MetricsTypeOK

\* "The bridge must not run half-subscribed": a bridge that says it runs has
\* every subscription, each with its pump, and all its periodic tasks; one that
\* gave up, at whatever subscription, leaves none of them behind.
NeverHalfSubscribed ==
  /\ phase = "running" =>
       /\ subs = WithDepth(ToSet(AllSubscriptions))
       /\ pumps = ToSet(AllSubscriptions)
       /\ periodic = ToSet(Periodic)
  /\ phase \in {"failed", "abandoned"} => subs = {} /\ pumps = {} /\ periodic = {}

\* The unsubscribe-before-exit rule: when shutdown unsubscribes nothing of the
\* relay runs any more, and what it leaves subscribed it was refused.
CleanStop ==
  /\ phase \in {"unsubscribing", "stopped"} => pumps = {} /\ periodic = {}
  /\ phase = "stopped" => subs \subseteq stuck

\* No run connects under a configuration that sets an lwt anywhere, nor to an
\* entry without a siteBroker.  It is one named "site", if there is any (the
\* code takes the first of several); else no other entry has a siteBroker.
SiteIsUnambiguous ==
  phase \notin {"preparing", "failed"} =>
    LET all == Instances(world.doc)
        named == {i \in DOMAIN all : all[i].id = "site"}
    IN  /\ Entry.siteBroker
        /\ \A i \in DOMAIN all : ~ all[i].lwt
        /\ IF named /= {} THEN Entry.id = "site"
           ELSE \A i, j \in DOMAIN all : all[i].siteBroker /\ all[j].siteBroker => i = j

\* Whatever it is doing when the signal comes, the run ends.
SignalStops == signal ~> phase \in Ended

\* The uplink is intermittent by design: a site broker that is down for however
\* long is not fatal, and once it stays up the relay runs.
ComesUp ==
  (Fatal(world) = "none" /\ <>[]reachable) =>
    <>(phase = "running" \/ signal \/ reason = "subscribe")

-----------------------------------------------------------------------------
(* The invariant that the proofs rest on                                   *)

Nothing == subs = {} /\ stuck = {} /\ pumps = {} /\ periodic = {}

\* main() is somewhere in a list, and never behind its last element.
LeftOf(list) == \E k \in DOMAIN list : todo = SubSeq(list, k, Len(list))

\* What main() has set up and what it still has to do, phase by phase.
PhaseInv ==
  /\ phase \in {"preparing", "connecting", "sleeping", "abandoned"} => Nothing /\ todo = <<>>
  /\ phase = "failed" => Nothing
  /\ phase = "starting" =>
       /\ LeftOf(AllSubscriptions)
       /\ pumps \cup ToSet(todo) = ToSet(AllSubscriptions)
       /\ subs = WithDepth(pumps)
  /\ phase \in {"starting", "returning"} => stuck = {} /\ periodic = {}
  /\ phase \in {"returning", "running", "stopped"} => todo = <<>>
  /\ phase = "aborting" => LeftOf(Tasks) /\ pumps \cup periodic \subseteq ToSet(todo)
  /\ phase = "unsubscribing" =>
       /\ LeftOf(AllSubscriptions)
       /\ subs \subseteq stuck \cup WithDepth(ToSet(todo))

\* Nothing that ends a run before it connects is passed over.
Passed == phase \notin {"preparing", "failed"} => Fatal(world) = "none"

LifeInv == PhaseInv /\ Passed /\ MetricsInv

=============================================================================
