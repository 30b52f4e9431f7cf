---------------------------- MODULE ReplyShutdown ----------------------------
(***************************************************************************)
(* RelayIo::shutdown over a running ReplyProxy: the pumps and the sweep    *)
(* task are aborted and joined, then the reply pumps, then the map is      *)
(* drained and each topic in it is unsubscribed.  An abort cancels a task  *)
(* at the await it stands at; the call it was awaiting may or may not      *)
(* still take effect at the broker, and the rest of the task never runs.   *)
(***************************************************************************)
EXTENDS ReplyProxy

CONSTANT Sweeper      \* the sweep task, among the tasks that are aborted

\* A task is one of the three kinds.
ASSUME TaskAssumption == Sweeper \notin Pump \cup Topic /\ Pump \cap Topic = {}

VARIABLES
  phase,      \* of the shutdown
  aborted,    \* the tasks aborted so far: pumps, Sweeper, reply pumps by topic
  draining,   \* the topics drained from the map and not yet unsubscribed
  cut         \* history: topics outside the map that an aborted task was tearing down

shutdownVars == <<phase, aborted, draining, cut>>
allVars == <<vars, shutdownVars>>

Phase == {"running", "aborting", "draining", "stopped"}

SInit ==
  /\ Init
  /\ phase = "running"
  /\ aborted = {}
  /\ draining = <<>>
  /\ cut = {}

-----------------------------------------------------------------------------

\* The tasks go on until they are aborted; the devices and the clock, always.
ProxyStep ==
  /\ \/ \E p \in Pump \ aborted :
          \/ ReceivePlain(p)
          \/ \E t \in Topic, s \in SiteTopic : ReceiveRequest(p, t, s)
          \/ PumpStep(p)
     \/ \E t \in Topic \ aborted : TaskStep(t)
     \/ Sweeper \notin aborted /\ (Sweep \/ SweepDone)
     \/ \E t \in Topic, kind \in {"good", "bad"} : Reply(t, kind)
     \/ Tick
  /\ UNCHANGED shutdownVars

Shutdown ==
  /\ phase = "running"
  /\ phase' = "aborting"
  /\ UNCHANGED <<vars, aborted, draining, cut>>

\* What the broker may still do of the call an aborted task was awaiting.
SubscribeInFlight(t) == subs' \in {subs, subs \cup {t}}
UnsubscribeInFlight(t) == subs' \in {subs, subs \ {t}}

AbortPump(p) ==
  /\ phase = "aborting"
  /\ p \notin aborted
  /\ aborted' = aborted \cup {p}
  /\ \/ pump[p].at = "evicting" /\ UnsubscribeInFlight(pump[p].victim)
     \/ pump[p].at = "subscribing" /\ SubscribeInFlight(pump[p].topic)
     \/ pump[p].at = "dropping" /\ UnsubscribeInFlight(pump[p].topic)
     \/ pump[p].at \in {"idle", "checking", "forwarding"} /\ UNCHANGED subs
  /\ cut' = cut \cup {t \in Topic : HeldByPump(p, t) /\ ~ HasEntry(pending, t)}
  /\ UNCHANGED <<proxyVars, clock, inbox, commanded, history, phase, draining>>

AbortSweeper ==
  /\ phase = "aborting"
  /\ Sweeper \notin aborted
  /\ aborted' = aborted \cup {Sweeper}
  /\ \/ sweeping = <<>> /\ UNCHANGED subs
     \/ sweeping /= <<>> /\ UnsubscribeInFlight(Head(sweeping))
  /\ cut' = cut \cup ToSet(sweeping)
  /\ UNCHANGED <<proxyVars, clock, inbox, commanded, history, phase, draining>>

\* The reply pumps are aborted after every other task has been joined.
AbortReply(t) ==
  /\ phase = "aborting"
  /\ Pump \cup {Sweeper} \subseteq aborted
  /\ t \notin aborted
  /\ aborted' = aborted \cup {t}
  /\ \/ task[t] = "unsubscribing" /\ UnsubscribeInFlight(t)
     \/ task[t] /= "unsubscribing" /\ UNCHANGED subs
  /\ cut' = IF TornDownByTask(t) THEN cut \cup {t} ELSE cut
  /\ UNCHANGED <<proxyVars, clock, inbox, commanded, history, phase, draining>>

\* slip: the map is dropped with the bridge, its topics are not unsubscribed
StartDrainForgets ==
  /\ phase = "aborting"
  /\ Pump \cup {Sweeper} \cup Topic \subseteq aborted
  /\ pending' = <<>>
  /\ draining' = <<>>
  /\ phase' = "draining"
  /\ UNCHANGED <<pump, task, target, sweeping, envVars, history, aborted, cut>>

\* slip: the map is drained while reply pumps are still winding down
StartDrainEarly ==
  /\ phase = "aborting"
  /\ Pump \cup {Sweeper} \subseteq aborted
  /\ pending' = <<>>
  /\ draining' = [i \in DOMAIN pending |-> pending[i].topic]
  /\ phase' = "draining"
  /\ UNCHANGED <<pump, task, target, sweeping, envVars, history, aborted, cut>>

\* The filters' unsubscribes come first and touch none of this state.
StartDrain ==
  /\ phase = "aborting"
  /\ Pump \cup {Sweeper} \cup Topic \subseteq aborted
  /\ pending' = <<>>
  /\ draining' = [i \in DOMAIN pending |-> pending[i].topic]
  /\ phase' = "draining"
  /\ UNCHANGED <<pump, task, target, sweeping, envVars, history, aborted, cut>>

DrainDone ==
  /\ draining /= <<>>
  /\ Unsubscribed(Head(draining))
  /\ draining' = Tail(draining)
  /\ UNCHANGED <<proxyVars, clock, inbox, commanded, requester, relayed, expired,
                 phase, aborted, cut>>

Stop ==
  /\ phase = "draining"
  /\ draining = <<>>
  /\ phase' = "stopped"
  /\ UNCHANGED <<vars, aborted, draining, cut>>

SNext ==
  \/ ProxyStep
  \/ Shutdown
  \/ \E p \in Pump : AbortPump(p)
  \/ AbortSweeper
  \/ \E t \in Topic : AbortReply(t)
  \/ StartDrain
  \/ DrainDone
  \/ Stop

SSpec == SInit /\ [][SNext]_allVars

-----------------------------------------------------------------------------

\* After shutdown the device broker still routes a bridge reply topic only if
\* an unsubscribe of it failed, or an aborted task had taken it out of the map
\* and was in the middle of tearing it down.
StoppedLeaksOnlyCut == phase = "stopped" => subs \subseteq stuck \cup cut

\* What io.rs says of shutdown: every still-pending bridge reply topic is
\* unsubscribed before the relay stops (best effort).
NoReplyTopicOutlivesShutdown == phase = "stopped" => subs \subseteq stuck

-----------------------------------------------------------------------------
(* The invariant that the proof of StoppedLeaksOnlyCut rests on            *)

\* A topic is live only after it was minted, and one pump works on it.
TopicsApart ==
  /\ \A t \in Topic : ~ Minted(t) => t \notin subs /\ \A p \in Pump : pump[p].topic /= t
  /\ \A p, q \in Pump :
       pump[p].topic = pump[q].topic /\ pump[p].topic /= NoTopic => p = q

\* A running pump that has yet to subscribe finds its topic not live; only an
\* abort leaves a live topic behind at this stage.
NotYetLive ==
  \A p \in Pump \ aborted :
    pump[p].at \in {"evicting", "subscribing"} => pump[p].topic \notin subs

\* Who is still going to unsubscribe t: the drain, or a task that was not aborted.
InGoodHands(t) ==
  \/ HasEntry(pending, t) \/ t \in ToSet(draining)
  \/ \E p \in Pump \ aborted : HeldByPump(p, t)
  \/ t \notin aborted /\ TornDownByTask(t)
  \/ Sweeper \notin aborted /\ TornDownBySweep(t)

LiveInGoodHands == \A t \in subs : InGoodHands(t) \/ t \in stuck \cup cut

\* Nothing is drained before the drain, and nobody adds to the map after it.
DrainIsLast ==
  /\ phase \in {"running", "aborting"} => draining = <<>>
  /\ phase \in {"draining", "stopped"} =>
       pending = <<>> /\ Pump \cup {Sweeper} \cup Topic \subseteq aborted
  /\ phase = "stopped" => draining = <<>>

ShutdownTypeOK ==
  /\ phase \in Phase
  /\ aborted \subseteq Pump \cup {Sweeper} \cup Topic
  /\ draining \in Seq(Topic)
  /\ cut \subseteq Topic

ShutdownInv ==
  /\ TypeOK /\ ShutdownTypeOK
  /\ TopicsApart /\ NotYetLive /\ LiveInGoodHands /\ DrainIsLast

=============================================================================
