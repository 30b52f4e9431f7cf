----------------------------- MODULE UplinkRelay -----------------------------
(***************************************************************************)
(* The uplink half of io.rs: the uplink pumps, which run relay_up() for    *)
(* one message at a time, and the connectivity watcher, which polls the    *)
(* site link, broadcasts the rehydration commands on a rising edge and     *)
(* replays the evt buffer.  They share the policy under a mutex.           *)
(*                                                                         *)
(* An action is one task's run from one await to the next: admit and push  *)
(* are one lock scope, and so one action; the publish to the site is       *)
(* awaited, and so another.                                                *)
(***************************************************************************)
EXTENDS UplinkPolicy, FiniteSets

CONSTANTS
  Pump,        \* the uplink pumps, one per class and topic scope
  EvtPump,     \* those of class evt
  Configs,     \* the configurations a run may start with
  MaxMsgs,     \* for each pump, a bound on the messages it receives
  MaxFlaps,    \* bound on the losses of the site link
  NoMsg        \* the absence of a message

ASSUME EvtPumpAssumption == EvtPump \subseteq Pump
ASSUME ConfigsAssumption == Configs \subseteq Config
ASSUME BoundsAssumption == MaxMsgs \in [Pump -> Nat] /\ MaxFlaps \in Nat

\* A message: its pump and its number in the pump's order of receipt.
Msg == UNION {{p} \X (1 .. MaxMsgs[p]) : p \in Pump}

ASSUME NoMsgAssumption == NoMsg \notin Msg

VARIABLES
  cfg,         \* the uplink configuration; never changes
  link,        \* site.connected()
  flaps,       \* how often the link was lost
  received,    \* how many messages each pump has received
  flight,      \* the message each pump is publishing to the site
  buffer,      \* UplinkPolicy.evt_buffer
  watcher,     \* where the watcher awaits
  replaying,   \* the evt the watcher popped and is publishing
  sampled,     \* the watcher's `connected' of this tick
  was,         \* the watcher's was_connected
  counters,    \* evt_buffer_dropped, evt_replayed, and the per-class counters
               \* uplinked, dropped_disabled, _disconnected and _rate as totals
  confirmed,     \* history: what the site broker acknowledged, in order; whether
               \* it got a message whose publish failed is left open
  lost,        \* history: the messages the bridge gave up
  owed,        \* history: the link came back and no broadcast followed yet
  arrivals,    \* history: the events, in the order of their admission by any pump
  queued       \* history: those that admit() told to wait in the buffer

pumpVars == <<received, flight, arrivals, queued>>
watcherVars == <<watcher, replaying, sampled, was>>
linkVars == <<link, flaps>>
vars == <<cfg, linkVars, pumpVars, buffer, watcherVars, counters, confirmed, lost, owed>>

ClassOf(p) == IF p \in EvtPump THEN "evt" ELSE "data"

Counter == {"uplinked", "disabled", "disconnected", "rate", "bufferDropped", "replayed"}
Count(c, n) == counters' = [counters EXCEPT ![c] = @ + n]

Init ==
  /\ cfg \in Configs
  /\ link \in BOOLEAN
  /\ flaps = 0
  /\ received = [p \in Pump |-> 0]
  /\ flight = [p \in Pump |-> NoMsg]
  /\ buffer = <<>>
  /\ watcher = "idle"
  /\ replaying = NoMsg
  /\ sampled = link
  /\ was = link
  /\ counters = [c \in Counter |-> 0]
  /\ confirmed = <<>>
  /\ lost = {}
  /\ owed = FALSE
  /\ arrivals = <<>>
  /\ queued = {}

-----------------------------------------------------------------------------
(* The uplink pumps                                                        *)

\* slip: admit and push are two lock scopes, and the push of another pump that
\* was admitted before may come behind this one
PushAndRecordRaced(p, m) ==
  IF cfg.evtMax = 0
    THEN /\ Count("disconnected", 1)
         /\ lost' = lost \cup {m}
         /\ UNCHANGED buffer
    ELSE /\ \/ buffer' = PushEvt(buffer, m, cfg)
            \/ /\ buffer /= <<>> /\ Len(buffer) < cfg.evtMax /\ Last(buffer)[1] /= p
               /\ buffer' = Front(buffer) \o <<m, Last(buffer)>>
         /\ lost' = lost \cup PushVictim(buffer, cfg)
         /\ Count("bufferDropped", Cardinality(PushVictim(buffer, cfg)))

\* push_evt and record_push for a message of pump p.
PushAndRecord(p, m) ==
  IF cfg.evtMax = 0
    THEN /\ Count("disconnected", 1)
         /\ lost' = lost \cup {m}
         /\ UNCHANGED buffer
    ELSE /\ buffer' = PushEvt(buffer, m, cfg)
         /\ lost' = lost \cup PushVictim(buffer, cfg)
         /\ Count("bufferDropped", Cardinality(PushVictim(buffer, cfg)))

\* recv() and relay_up() up to the publish: admit and, under the same lock,
\* push.  Whether a capped class has a token is left open here.
Receive(p, hasToken) ==
  /\ flight[p] = NoMsg
  /\ received[p] < MaxMsgs[p]
  /\ received' = [received EXCEPT ![p] = @ + 1]
  /\ arrivals' = IF p \in EvtPump THEN Append(arrivals, <<p, received[p] + 1>>) ELSE arrivals
  /\ LET m == <<p, received[p] + 1>>
         verdict == Admit(ClassOf(p), link, buffer, hasToken, cfg)
         Drop(c) == /\ Count(c, 1)
                    /\ lost' = lost \cup {m}
                    /\ UNCHANGED <<flight, buffer, queued>>
     IN \/ /\ verdict = "Forward"
           /\ flight' = [flight EXCEPT ![p] = m]
           /\ UNCHANGED <<buffer, counters, lost, queued>>
        \/ /\ verdict = "Buffer"
           /\ PushAndRecord(p, m)
           /\ queued' = queued \cup {m}
           /\ UNCHANGED flight
        \/ verdict = "DropDisabled" /\ Drop("disabled")
        \/ verdict = "DropDisconnected" /\ Drop("disconnected")
        \/ verdict = "DropRateCapped" /\ Drop("rate")
  /\ UNCHANGED <<cfg, linkVars, watcherVars, confirmed, owed>>

PublishOk(p) ==
  /\ flight[p] /= NoMsg
  /\ link
  /\ confirmed' = Append(confirmed, flight[p])
  /\ flight' = [flight EXCEPT ![p] = NoMsg]
  /\ Count("uplinked", 1)
  /\ UNCHANGED <<cfg, linkVars, received, arrivals, queued, buffer, watcherVars, lost, owed>>

\* slip: the failed publish of an evt is not buffered
PublishErrForgets(p) ==
  /\ flight[p] /= NoMsg
  /\ flight' = [flight EXCEPT ![p] = NoMsg]
  /\ UNCHANGED <<cfg, linkVars, received, arrivals, queued, buffer, watcherVars, counters,
                 confirmed, lost, owed>>

\* The publish failed: the disconnect rule applies.
PublishErr(p) ==
  /\ flight[p] /= NoMsg
  /\ flight' = [flight EXCEPT ![p] = NoMsg]
  /\ \/ p \in EvtPump /\ PushAndRecord(p, flight[p])
     \/ /\ p \notin EvtPump
        /\ Count("disconnected", 1)
        /\ lost' = lost \cup {flight[p]}
        /\ UNCHANGED buffer
  /\ UNCHANGED <<cfg, linkVars, received, arrivals, queued, watcherVars, confirmed, owed>>

-----------------------------------------------------------------------------
(* The connectivity watcher                                                *)

\* slip: the buffer is replayed on rising edges only
PollEdgeOnly ==
  /\ watcher = "idle"
  /\ sampled' = link
  /\ \/ /\ link /\ ~ was
        /\ watcher' = "broadcasting"
        /\ owed' = FALSE
        /\ UNCHANGED was
     \/ /\ ~ (link /\ ~ was)
        /\ was' = link
        /\ UNCHANGED <<watcher, owed>>
  /\ UNCHANGED <<cfg, linkVars, pumpVars, buffer, replaying, counters, confirmed, lost>>

\* One tick.  On a rising edge the two broadcasts are published first.
Poll ==
  /\ watcher = "idle"
  /\ sampled' = link
  /\ \/ /\ link /\ ~ was
        /\ watcher' = "broadcasting"
        /\ owed' = FALSE
        /\ UNCHANGED was
     \/ /\ link /\ was /\ buffer /= <<>>
        /\ watcher' = "replaying"
        /\ UNCHANGED <<was, owed>>
     \/ /\ ~ link \/ (was /\ buffer = <<>>)
        /\ was' = link
        /\ UNCHANGED <<watcher, owed>>
  /\ UNCHANGED <<cfg, linkVars, pumpVars, buffer, replaying, counters, confirmed, lost>>

\* publish_rehydration_bcast returned; its errors are only logged.
BroadcastDone ==
  /\ watcher = "broadcasting"
  /\ watcher' = "replaying"
  /\ UNCHANGED <<cfg, linkVars, pumpVars, buffer, replaying, sampled, was, counters,
                 confirmed, lost, owed>>

\* The end of replay_buffered_evt and of the tick.
EndTick ==
  /\ watcher' = "idle"
  /\ replaying' = NoMsg
  /\ was' = sampled

\* slip: the oldest is looked at, and left in the buffer
ReplayNextPeek ==
  /\ watcher = "replaying"
  /\ replaying = NoMsg
  /\ \/ /\ link /\ buffer /= <<>>
        /\ replaying' = Head(buffer)
        /\ UNCHANGED <<watcher, was>>
     \/ /\ ~ link \/ buffer = <<>>
        /\ EndTick
  /\ UNCHANGED <<cfg, linkVars, pumpVars, buffer, sampled, counters, confirmed, lost, owed>>

\* The loop head of replay_buffered_evt: pop the oldest, or return.
ReplayNext ==
  /\ watcher = "replaying"
  /\ replaying = NoMsg
  /\ \/ /\ link /\ buffer /= <<>>
        /\ replaying' = Head(buffer)
        /\ buffer' = Tail(buffer)
        /\ UNCHANGED <<watcher, was>>
     \/ /\ ~ link \/ buffer = <<>>
        /\ EndTick
        /\ UNCHANGED buffer
  /\ UNCHANGED <<cfg, linkVars, pumpVars, sampled, counters, confirmed, lost, owed>>

ReplayOk ==
  /\ replaying /= NoMsg
  /\ link
  /\ confirmed' = Append(confirmed, replaying)
  /\ replaying' = NoMsg
  /\ Count("replayed", 1)
  /\ UNCHANGED <<cfg, linkVars, pumpVars, buffer, watcher, sampled, was, lost, owed>>

\* slip: the refused message is dropped and not counted
ReplayErrUncounted ==
  /\ replaying /= NoMsg
  /\ \/ CanRequeue(buffer, cfg) /\ buffer' = Cons(replaying, buffer) /\ UNCHANGED lost
     \/ ~ CanRequeue(buffer, cfg) /\ lost' = lost \cup {replaying} /\ UNCHANGED buffer
  /\ EndTick
  /\ UNCHANGED <<cfg, linkVars, pumpVars, sampled, counters, confirmed, owed>>

\* slip: the message goes to the back of the buffer
ReplayErrToBack ==
  /\ replaying /= NoMsg
  /\ buffer' = PushEvt(buffer, replaying, cfg)
  /\ lost' = lost \cup PushVictim(buffer, cfg)
  /\ Count("bufferDropped", Cardinality(PushVictim(buffer, cfg)))
  /\ EndTick
  /\ UNCHANGED <<cfg, linkVars, pumpVars, sampled, confirmed, owed>>

\* Back to the front, where it was; or, when the buffer filled up in the
\* meantime, it is the victim.
ReplayErr ==
  /\ replaying /= NoMsg
  /\ \/ /\ CanRequeue(buffer, cfg)
        /\ buffer' = Cons(replaying, buffer)
        /\ UNCHANGED <<counters, lost>>
     \/ /\ ~ CanRequeue(buffer, cfg)
        /\ lost' = lost \cup {replaying}
        /\ Count("bufferDropped", 1)
        /\ UNCHANGED buffer
  /\ EndTick
  /\ UNCHANGED <<cfg, linkVars, pumpVars, sampled, confirmed, owed>>

-----------------------------------------------------------------------------
(* The site link and broker                                                *)

LinkDown ==
  /\ link
  /\ flaps < MaxFlaps
  /\ link' = FALSE
  /\ flaps' = flaps + 1
  /\ UNCHANGED <<cfg, pumpVars, buffer, watcherVars, counters, confirmed, lost, owed>>

LinkUp ==
  /\ ~ link
  /\ link' = TRUE
  /\ owed' = TRUE
  /\ UNCHANGED <<cfg, flaps, pumpVars, buffer, watcherVars, counters, confirmed, lost>>

-----------------------------------------------------------------------------

PumpStep(p) == PublishOk(p) \/ PublishErr(p)
WatcherStep == Poll \/ BroadcastDone \/ ReplayNext \/ ReplayOk \/ ReplayErr

Next ==
  \/ \E p \in Pump, hasToken \in BOOLEAN : Receive(p, hasToken)
  \/ \E p \in Pump : PumpStep(p)
  \/ WatcherStep
  \/ LinkDown
  \/ LinkUp

Spec == Init /\ [][Next]_vars

\* Every publish returns; the watcher's interval fires again and again; the
\* site client keeps reconnecting; and a broker that is connected does not
\* refuse the retries of a replay for ever.
Fairness ==
  /\ \A p \in Pump : WF_vars(PumpStep(p))
  /\ WF_vars(WatcherStep)
  /\ WF_vars(LinkUp)
  /\ SF_vars(ReplayOk)

FairSpec == Spec /\ Fairness

-----------------------------------------------------------------------------
(* Properties                                                              *)

\* Every variable has its type; the buffer keeps to its bound.
TypeOK ==
  /\ cfg \in Configs
  /\ link \in BOOLEAN /\ flaps \in 0 .. MaxFlaps
  /\ received \in [Pump -> Nat] /\ \A p \in Pump : received[p] <= MaxMsgs[p]
  /\ flight \in [Pump -> Msg \cup {NoMsg}]
  /\ buffer \in Seq(Msg) /\ Len(buffer) <= cfg.evtMax
  /\ watcher \in {"idle", "broadcasting", "replaying"}
  /\ replaying \in Msg \cup {NoMsg}
  /\ sampled \in BOOLEAN /\ was \in BOOLEAN
  /\ counters \in [Counter -> Nat]
  /\ confirmed \in Seq(Msg)
  /\ lost \subseteq Msg
  /\ owed \in BOOLEAN
  /\ arrivals \in Seq(Msg) /\ queued \subseteq Msg

Received(m) == m[2] <= received[m[1]]
Held(m) == flight[m[1]] = m \/ m \in ToSet(buffer) \/ replaying = m

\* No message vanishes, and none is both delivered and given up: what a pump
\* received is confirmed by the site broker, or given up, or held by the bridge
\* (in the buffer, in a pump's publish or in the watcher's), and one of these.
NoSilentLoss ==
  \A m \in Msg :
    /\ Received(m) <=> m \in ToSet(confirmed) \/ m \in lost \/ Held(m)
    /\ ~ (m \in ToSet(confirmed) /\ m \in lost)
    /\ Held(m) => m \notin ToSet(confirmed) /\ m \notin lost

\* The counters add up: each message confirmed was counted once as published
\* or replayed, each message given up was counted once as dropped.
CountersAddUp ==
  /\ Len(confirmed) = counters["uplinked"] + counters["replayed"]
  /\ Cardinality(lost) = counters["disabled"] + counters["disconnected"]
                           + counters["rate"] + counters["bufferDropped"]

\* m is older than n: both came through the same pump, m first.
Older(m, n) == m[1] = n[1] /\ m[2] < n[2]

\* The buffer and the message taken out of it for replay are in the order in
\* which each pump received them, whatever fails ("strictly in order").
ReplayInOrder ==
  /\ \A i, j \in DOMAIN buffer : i < j => ~ Older(buffer[j], buffer[i])
  /\ replaying /= NoMsg => \A i \in DOMAIN buffer : ~ Older(buffer[i], replaying)

\* The events that wait for their replay, the one being replayed included.
Waiting == ToSet(buffer) \cup ({replaying} \ {NoMsg})

\* A live evt may overtake at most one older evt of its pump, the one that was
\* being replayed when it was admitted.
OvertakesAtMostOne ==
  \A p \in EvtPump : flight[p] /= NoMsg =>
    Cardinality({m \in Waiting : Older(m, flight[p])}) <= 1

\* m is ahead of n in q.
Ahead(q, m, n) == \E i, j \in DOMAIN q : i < j /\ q[i] = m /\ q[j] = n

\* m was admitted before n, by whichever pumps.
Before(m, n) == Ahead(arrivals, m, n)

\* No event that waited in the buffer from its arrival on is behind a later one.
InTurn(q) == \A m, n \in queued : Ahead(q, m, n) => ~ Before(n, m)

\* Admission and push are one step, whatever the other pumps and the watcher do
\* meanwhile: the events that admit() told to wait reach the site in the order
\* of their admission over all pumps, through failed replays and evictions; and
\* an evt that goes out live passes at most one that was admitted before it and
\* waits.
BufferedInTurn ==
  /\ InTurn(confirmed) /\ InTurn(buffer)
  /\ \A m \in ToSet(confirmed) \cap queued, n \in Waiting \cap queued : ~ Before(n, m)
  /\ replaying \in queued => \A n \in ToSet(buffer) \cap queued : ~ Before(n, replaying)
  /\ \A p \in EvtPump : flight[p] /= NoMsg =>
       \A m, n \in Waiting \cap queued :
         Before(m, flight[p]) /\ Before(n, flight[p]) => m = n

\* What policy.rs and the README say: events never overtake each other.
NoOvertaking ==
  \A i, j \in DOMAIN confirmed : i < j => ~ Older(confirmed[j], confirmed[i])

\* Once the link stays up, every evt received reaches the site or is counted
\* as dropped: the buffer drains even when no rising edge is ever seen.
BufferDrains ==
  <>[]link => \A m \in Msg :
                Received(m) ~> (m \in ToSet(confirmed) \/ m \in lost)

\* What io.rs says of the watcher: a rehydration broadcast follows each
\* re-establishment of the site link, if the link then stays up.
EveryReconnectRehydrates == owed ~> (~ owed \/ ~ link)

-----------------------------------------------------------------------------
(* The invariant that the proofs rest on                                   *)

\* A pump publishes the message it received last.
FlightIsLatest == \A p \in Pump : flight[p] /= NoMsg => flight[p] = <<p, received[p]>>

\* Each pump's messages are in q in the order of their receipt, none twice.
Ordered(q) ==
  \A i, j \in DOMAIN q : i < j /\ q[i][1] = q[j][1] => Older(q[i], q[j])

\* So they are in the buffer, and behind the one in replay.
WaitingInOrder ==
  /\ Ordered(buffer)
  /\ replaying /= NoMsg =>
       \A m \in ToSet(buffer) : m[1] = replaying[1] => Older(replaying, m)

\* What a pump publishes does not wait as well; and while it publishes an evt,
\* at most one of its events waits.
FlightIsApart ==
  \A p \in Pump : flight[p] /= NoMsg =>
    /\ flight[p] \notin Waiting
    /\ p \in EvtPump => \A m, n \in Waiting : m[1] = p /\ n[1] = p => m = n

\* The histories speak of messages received; and a message in a pump's publish
\* was not told to wait.
QueuedIsApart ==
  /\ \A m \in ToSet(arrivals) \cup queued : Received(m)
  /\ \A p \in Pump : flight[p] \notin queued

\* Where each message is, and what each stage of its way knows of the others:
\* the relay keeps this in every step.
RelayInv ==
  /\ TypeOK
  /\ NoSilentLoss
  /\ CountersAddUp
  /\ IsFiniteSet(lost)
  /\ FlightIsLatest
  /\ WaitingInOrder
  /\ FlightIsApart
  /\ QueuedIsApart

=============================================================================
