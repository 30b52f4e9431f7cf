# A TLA+ model of uns-bridge

`uns-bridge` relays UNS messages between a *device bus* and a *site broker*: device
messages go up under a per-class policy, commands for the bridge's own device come down,
and the replies to these commands are brought back up through topics the bridge mints.
This directory models the bridge from `main()` to its shutdown, and several bridges
together, checks the models with TLC on small instances and proves nearly all of their
safety properties with TLAPS for all instances.

## 1. The system

| part | source | state | operations |
|---|---|---|---|
| reply correlation map | `reply.rs` | a Vec of (bridge topic, site topic, deadline) in insertion order, at most `maxPending` | `rewrite_downlink` (record, evict oldest), `take`, `abandon`, `contains`, `sweep`, `drain` |
| reply proxy | `io.rs` | the map under a mutex, the reply-pump handles, the broker's subscriptions | downlink pumps, one-shot reply pumps, TTL sweep |
| uplink policy | `policy.rs` | per-class enables and token buckets, the bounded `evt` buffer | `admit`, `push_evt`, `pop_evt`, `requeue_evt_front` |
| uplink relay, connectivity watcher | `io.rs` | the policy under a mutex, the message each pump publishes, `was_connected` | `relay_up`, `replay_buffered_evt`, the watcher's tick |
| relay start and shutdown | `io.rs` | the task handles | `start`, `shutdown` |
| relay engine | `relay.rs` | none (filters, hop id, hop limit) | `decide`, `stamp_hop` |
| metrics | `observability.rs`, `io.rs` | counters, the previous snapshot | snapshot, interval deltas |
| configuration | `config.rs` | none | parsing, defaults, validation |
| process lifecycle | `main.rs` | - | connect with retry, signal, shutdown |
| messaging library | edgecommons, not in this repository | connections, subscriptions | external |

How they interact: the pumps and the watcher share the policy's mutex; the downlink
pumps, the reply pumps and the sweep share the map's mutex. No mutex is held across an
await. Everything else goes through the two messaging providers: `subscribe`,
`unsubscribe`, `publish` (awaited, each may fail) and `connected()`.

What is hard: several tasks work on one reply topic and each awaits the broker between
two looks at the map; eviction, expiry, the answer and a failing subscribe race for one
entry; the evt buffer is drained by one task while others push to it, and publishes fail
at any point of that; shutdown cancels tasks at their awaits. `PROJECT.json` lists these
hazards with their lines and the properties aimed at them.

What makes each part correct: an entry ends once and its subscription is closed (reply
proxy); no message vanishes, none is counted twice, the buffer stays in order and drains
(uplink); a class keeps to its rate and is not held below it (policy); nothing stays
subscribed (shutdown); a message crosses a bridge once, and every bridge it should cross
(engine); the deltas add up to the counters (metrics); the site is the entry named "site",
the first of several, or else the only one with a `siteBroker` (configuration); the bridge is subscribed to everything or ends, outlasts a site that is
down, and stops when it is told to (lifecycle).

## 2. The modules

* `ReplyCorrelator` - the map's operations as operators on a sequence of entries.
* `ReplyProxy` - the tasks around it. Extends `ReplyCorrelator`.
* `OneShotReply` - what the proxy promises, without tasks, topics or a map: each request
  has one outcome, its reply is delivered at most once, to its requester.
  `ReplyProxy` implements it (`OneShotSpec`, mapping `Fate`).
* `ReplyShutdown` - `RelayIo::shutdown` composed with a running `ReplyProxy`.
* `UplinkPolicy` - `admit` and the evt buffer as operators.
* `UplinkRelay` - the uplink pumps, the watcher and the site link. Extends `UplinkPolicy`.
* `TokenBucket` - the bucket of a capped class as operators.
* `UplinkRate` - `UplinkPolicy::from_config` and the policy over time, with a bucket for
  each capped class. Extends `UplinkPolicy`, `TokenBucket`, `BridgeConfig`.
* `RateLimit` - what `maxRatePerSec` and `burst` promise, without a bucket: no stretch of
  time has more than `burst + rate * length` live publishes, and only what would break
  this is refused. `UplinkRate` implements it (`LimitSpec`).
* `RelayEngine` - filters, `decide`, `stamp_hop` as operators on topics (sequences of
  tokens) and hop tags.
* `HopRelay` - several bridges, the brokers between them and relays that do not keep the
  hop tag. Extends `RelayEngine`.
* `BridgeConfig` - `config.rs` as operators on a document: defaults, what is rejected,
  which entry is the site.
* `RelayMetrics` - the counters, and the task that copies and emits them. What it has still
  to copy and to emit are sets, of which it takes the first.
* `BridgeProcess` - a run of `main()`: early ends, connect loop, signal, `start`, the relay
  at work, `shutdown`. Extends `RelayEngine`, `BridgeConfig`, `RelayMetrics`.
* `ReplyCorrelatorProofs`, `ReplyProxyProofs`, `ReplyInvariantProofs`,
  `ReplyShutdownProofs`, `UplinkRelayProofs`, `UplinkRateProofs`, `HopRelayProofs`,
  `BridgeProcessProofs` - section 5.
* `MC*` - the instances; the operators whose names end in a fault (`RecordNoEvict`,
  `CheckEntryBlind`...) in the other modules are plausible slips of the code, kept beside
  the operator they distort to see that a property notices.

### How state and actions correspond to the code

An action is what one task does from one await to the next. This is sound because each
such run takes a shared mutex at most once, and touches no other shared state
except counters (atomic, and only ever added to). So `rewrite_downlink` is not one action
but `ReceiveRequest` (record, and count the evicted entry: `expire` increments before its
first await), `EvictDone` (its unsubscribe returned), `SubscribeLive` (the subscription is
live at the broker), `CheckEntry` (the code after `Ok(sub)`), `DropDone`, `SubscribeFails`,
and `Forward` (the publish). `SubscribeLive` and `CheckEntry` are apart because the
subscription is live before the task runs again.

| variable | code |
|---|---|
| `pending` | `ReplyCorrelator.pending` |
| `pump[p]` | the await at which the downlink pump of filter `p` stands, its `bridge_topic` and `evicted` |
| `task[t]`, `target[t]` | the await of the reply pump of topic `t`; `site_topic` in `handle_reply` |
| `sweeping` | what is left of `expired` in the sweep's loop; the head is being unsubscribed |
| `subs`, `inbox` | the device broker's subscriptions, the depth-1 queue of each `Subscription` |
| `requester`, `relayed`, `expired`, `stuck`, `commanded` | history, read by properties and the environment only |
| `buffer`, `flight`, `replaying` | `evt_buffer`, the message in `relay_up`'s publish, the one in `replay_buffered_evt`'s |
| `arrivals`, `queued` | history: the events in the order of their admission; those that `admit` told to wait |
| `sampled`, `was` | `connected`, `was_connected` of the watcher |
| `bucket[c]`, `policy`, `clock` | the `TokenBucket` of a class, the rest of `UplinkPolicy`, `Instant::now()` |
| `inbox[p]` (`HopRelay`) | the bounded queue of a `Subscription`, one for each pump of each bridge |
| `copy.payload`, `copy.path` | `tags._relay`; history: the relays the copy went through |
| `counters`, `prev`, `curr` | `RelayCounters`, `prev` and `curr` of the metrics task |
| `toLoad`, `toEmit` | how far `take_snapshot` and the emission loop are |
| `phase`, `todo` | the line of `main()`, `start` or `shutdown`; what its loop still has to do |
| `subs`, `pumps`, `periodic` | what is subscribed at which depth, the tasks that are alive |

In `HopRelay` an action is one pump's turn, from `recv` to the end of the publish: a bridge
shares nothing between its pumps that this module looks at. `UplinkRate` has the admission
and the outcome of an evt's publish apart, as `UplinkRelay` does. In `RelayMetrics` each
load of a counter is a step of its own, since the pumps go on counting: the "point-in-time
copy" of `take_snapshot` is not of one point in time.

Abstractions. An envelope is the topic that identifies it; whether a reply is relayed or
dropped (malformed, echo, hop limit) is the choice "good"/"bad". A uuid topic is
fresh, so each topic is minted once. The six uplink classes that never buffer are one
class, `data` (in `UplinkRate`: `data` and the opt-in `app`). `UplinkRelay` leaves the
verdict of a token bucket open, `UplinkRate` computes it and in turn keeps only the length
of the buffer. Time runs in `Scale`-ths of a second, tokens in `Scale`-ths of a token; the
code's rounding in floating point is left out. `HopRelay` leaves out the policy and the
reply proxy: what they, or a failing publish, do not relay is a possible loss. Device
names, and so hop ids, are distinct: one bridge per device bus. A message that is "raw",
which `stamp_hop` passes untouched, never comes off a wire. `RelayMetrics` emits the
metrics that have a moving counter; the gauges are emitted as read. `BridgeProcess` has no
reply topics, which are in `ReplyShutdown`; the tally that `main()` logs is left out. A
configuration is a record chosen in `Init`. Error logging is left out.

Assumptions on the library, which is not in the repository, read off its use in `io.rs`:
dropping a `Subscription` does not unsubscribe (the explicit calls after `drop(sub)` and
in `handle_reply` would be idle otherwise); a failed `subscribe` leaves no subscription;
a failed `unsubscribe` may leave it; a failed `publish` may or may not have delivered; an
unsubscribed, empty `Subscription` yields `None`. A task cancelled in a subscribe or an
unsubscribe leaves open whether the broker acted on it. A broker hands a message to every
subscription whose filter matches, and the provider drops it when that queue is full. The
shutdown signal is sticky: one that comes during `start` is seen by the second
`shutdown_signal()`. Connections, and the subscriptions made on them, end with the process;
tasks with the runtime.

## 3. What is checked

| run | instance | question |
|---|---|---|
| `reply_safety` | 3 topics, 2 requesters, 2 pumps, TTL 1, `maxPending` 2, clock to 2 | do the reply path's invariants hold, and the one the proofs use? |
| `reply_liveness` | 2 topics, 2 pumps, `maxPending` 1 | is every request settled and its subscription closed; does the proxy implement `OneShotReply`? |
| `reply_shutdown` | 2 topics, 2 pumps, shutdown at any step | what can stay subscribed? And the invariant the proofs use |
| `reply_shutdown_leak` | 1 topic, 1 pump | does nothing stay subscribed? (violated, section 4) |
| `uplink_safety` | 2 evt pumps with 3 and 1 messages, 1 data pump, 4 configurations, 1 link loss | is a message ever lost silently, counted twice, put out of order, of its pump or (`BufferedInTurn`) of all? And the invariant the proofs use |
| `uplink_liveness` | 2 evt pumps, 2 link losses | does the buffer drain? |
| `uplink_overtake` | 1 evt pump, 2 messages | does an evt ever overtake another? (violated) |
| `uplink_rehydrate` | 1 link loss | does a broadcast follow every re-establishment? (violated) |
| `uplink_rate` | 6 uplink blocks, rates and bursts 0 to 3, 5 messages in 2.5 s | is the rate limit kept, and is nothing refused that it allows; do engine and policy agree on `app`? |
| `hop_relay` | rings of 3 bridges with `maxHops` 1 to 3, a diamond with a way back, two tiers, class names as channels, a ring with a foreign relay | does the hop tag stop every loop and nothing else; do commands stay home; is a copy relayed once? Also `CopyInv`, which the proof of `OneCopyPerPath` rests on. |
| `hop_overlap` | two tiers, an evt whose channel is `state` | is it relayed once? (violated) |
| `lifecycle` | 12 worlds to start in, 2 moving counters | is the bridge ever half-subscribed, does it come up and stop, do the deltas add up? And the invariant the proofs use |

Bounds. Three topics with `maxPending` 2 are the least that evict while another entry
stays, two pumps let one evict what the other is subscribing, and a TTL of 1 with a clock
to 2 lets two entries of different age expire together or one by one. `ReceiveRequest`
needs `clock + Ttl <= MaxClock`, so that no entry is recorded whose deadline the bounded
clock cannot reach; `MaxClock`, `MaxMsgs` and `MaxFlaps` bound nothing in the code. Three
events on one pump with a buffer of 2 are the least with one event in replay, one
buffered and one live. Symmetry is used where only invariants and step properties are
checked. `ReplyShutdown` stops, so its runs do not check deadlock; nor do
`uplink_overtake` and `uplink_rehydrate`, which stop at their counterexample anyway.

A `Scale` of 2 with rates of 1 and 3 makes a token grow over several attempts and across
refusals; 5 messages exceed every burst and leave some for what was refilled. `MaxU32`, 3,
stands for the largest `u32`, where the default burst saturates. `DefaultEvtMax` is 1 or 2. A
`QueueDepth` of 2 is exceeded by the messages of one network. `MaxPath`, 6, bounds how long
a copy is followed that a foreign relay keeps alive: two laps of its ring; no bridge's
own loop reaches it. The networks of `hop_relay` are the small graphs with a cycle, two
routes to one bus, or a change of tier; two bridges' hop limits differ where they meet.
`MaxCount` bounds the counters, 2 and 1, which is enough for a count before, during and
behind each report; `MaxStuck`, 1, the unsubscribes that fail. The worlds of `lifecycle` are
two that come up under entries of different shape, one that comes up by its only broker,
and one for each reason to give up. `hop_relay` and `lifecycle` end, so they do not check
deadlock; `uplink_rate` does, with the link to keep it going.

Fairness. The runtime runs every ready task and every provider call returns, so each
task's next step is weakly fair; the sweep's and watcher's intervals fire again and
again; time passes; the site client reconnects. In `HopRelay` some component publishes or
some pump takes its turn as long as there is something to do. In `BridgeProcess` `main()`
goes on, and `select!` polls the signal again and again (`Abandon`); `ConnectOk` is strongly
fair: a site that accepts connections again and again, and in the end for good, does not
fail every attempt. `ReplayOk` is strongly fair: a broker
that is connected again and again does not refuse every retry. Receiving a command,
answering it and receiving an uplink message are not fair.

## 4. Where the code and its documents differ

* `uplink_overtake`: events can overtake. The watcher pops an event, the buffer is empty
  while its publish is awaited, and a live event is admitted and published at once; if
  the replay then is slower or fails and is retried, the older event arrives later. What
  does hold is `OvertakesAtMostOne`: only the one event in replay can be overtaken by a
  publish.
* `reply_shutdown_leak`: shutdown unsubscribes the topics in the map. A reply pump
  aborted while it publishes the reply has taken its entry out already and has not
  reached its unsubscribe. What does hold is `StoppedLeaksOnlyCut`.
* `uplink_rehydrate`: the watcher samples the link; a loss between two samples, or during
  a replay it awaits, is no edge. `was_connected` is the sample taken before the replay.
* `hop_overlap`: `RelayEngine::new` calls its two filters for a class disjoint, since an
  instance is never a class name. But a channel may be: `ecv1/d1/plc/evt/state` matches
  `ecv1/+/+/evt/#` and `ecv1/+/+/+/state`. Such an event is relayed twice, once by the pump
  of class `state` and under that class's policy. Where no class is followed by
  another of its direction (the networks of `hop_relay`) `OneCopyPerPath` holds, and is
  proved (`OneCopy`).

Met on the way, and without a run of their own:

* `stamp_hop` says that the `maxHops` cap still bounds the cycle of a relay that resets
  `_relay`. It does not if that relay resets the tag on every lap: `HopTagTellsPath` counts
  from the last such relay, and the foreign ring of `hop_relay` reaches `MaxPath`.
* `docs/explanation.md` says a command can never match an uplink filter.
  `ecv1/d1/plc/cmd/state` does; `decide` drops it (`CommandsGoHome`).
* The metrics' deltas are said to sum up. Those of a failed emission are lost (`missed` in
  `DeltasTelescope`), and what is counted behind the last report is never emitted.
* Pumps relay from their subscribe on, before `start` has all subscriptions, and if it
  fails until the runtime is dropped; `NeverHalfSubscribed` is about the run once it says
  "relay running", and about its end.
* A remark in `handle_reply` ("the unsubscribe already ran when the entry was torn down")
  is not so while the sweep still awaits the unsubscribe of an earlier topic. Nothing
  depends on it: such a reply is a stray all the same.

## 5. What is proved

Of the reply path, for every set of topics, requesters and pumps, every TTL (0 included)
and every `maxPending` of at least 1, from the assumptions named in the modules and no other:

* `ReplyCorrelatorProofs`: what each operation does to the map, position by position
  (`RecordShape`, `TakeShape`, `SweepShape`), to its set of topics (`...Entries`) and to
  its order (`RecordOrder`, `EmbedsKeepsOrder`); that the sweep's cut exists
  (`FirstLiveProperties`, by the least live position) and takes every stale entry
  (`FirstLiveIsComplete`).
* `ReplyProxyProofs`: `TypeCorrect`. `TypeOK` is not inductive: `StageTopics` adds that a
  task which is about to subscribe, unsubscribe or publish has a topic to do it to.
* `ReplyInvariantProofs`: `Inductive`, that `IInv` holds, and from it
  `PendingIsListening`, `LiveHasOwner`, `OneOutcome`, `ReplyGoesHome`, `StaleIsPrefix` and
  the step property `NoEarlyExpiry`.

Why `IInv` has the parts it has. The properties relate the map to the broker, and the
tasks look at the map at different times, so the invariant has to say what each stage
knows. `TornDownIsOut` is the heart: a topic that a sweep drained, an eviction holds or a
reply pump took is out of the map, for good, so no two tasks ever tear down or resolve
one topic. It needs that topics are fresh (`FreshIsUnused`), that no two pumps work on
one topic and what each knows of its subscription (`PumpInv`), and that the map has no
duplicates and is in deadline order (`MapInv`). `SweepInv` and `TargetInv` carry the
counting and the site topic over the awaits.

* `ReplyInvariantProofs` also has `ProxyIsOneShot`: each step of the proxy is, under `Fate`, a
  step of `OneShotReply` or none. What it needs beyond `IInv` is `DeliveredIsDone`, that a
  relayed reply's request is in no other state any more; `OneOutcome` and `TornDownIsOut`
  show which step ends a request.

Of the shutdown, for the same constants, with the tasks' names apart (`TaskAssumption`):

* `ReplyShutdownProofs`: `ShutdownKeepsInv`, that `ShutdownInv` holds, and from it
  `ShutdownLeaksOnlyCut`.

While tasks die one by one, what counts is who is still going to unsubscribe a live topic
(`LiveInGoodHands`): its entry, which the drain will take, a task that was not aborted, or
the drain. An abort may move a topic from a task to `cut` and nowhere else. For this a
pump that is evicting or subscribing must not have its topic live already (`NotYetLive`),
no two pumps may hold one topic (`TopicsApart`), and behind the drain nobody may record an
entry (`DrainIsLast`: all tasks are aborted before it, which is the order `shutdown` keeps).

Of the uplink relay, for every set of pumps, every number of messages, every policy
configuration (a buffer of 0 included) and every history of the link and the publishes:

* `UplinkRelayProofs`: `RelayKeepsInv`, that `RelayInv` holds, and from it
  `NothingVanishes`, `CountsAreRight`, `ReplayKeepsOrder`, `OvertakingIsBounded` and
  `TypesHold`; then `BufferedGoInTurn`.

A message has one place: a pump's publish, the buffer, the watcher's publish, confirmed or
given up. `FlightIsLatest` says that what a pump publishes is what it received last, so
that it can be in no other place; `FlightIsApart` that it does not wait at the same time,
and that besides an evt that is published live at most one of its pump waits, since the
policy admits one only while the buffer is empty. `WaitingInOrder` is the order of
the buffer behind the message in replay. A failed replay that goes back to the front, a
failed publish that goes to the back and an eviction each keep it, by `ConsShape`,
`PushShape` and `TailShape`, which say what these operations leave of a buffer.

`BufferedInTurn` relates the pumps to each other, which are serial only one by one: it
holds because `admit` and `push_evt` share a lock scope, so that the events told to wait enter
the buffer in the order of their admission (`ReceiveKeepsTurn`). It is inductive together with
`RelayInv`, whose `QueuedIsApart` keeps the events whose publish failed out of it: those are
pushed behind later ones. The watcher moves the buffer's head to replay, and from there to the
site or back (`WatcherKeepsTurn`, by `AheadInTail`, `AheadInAppend`, `AheadInCons`).

Of the rate limit, for every uplink block whose members have their types, every scale of
time, every rate (0 included), burst and history of the link and the buffer:

* `UplinkRateProofs`: `LimitIsKept`, the whole refinement of `RateLimit` by `UplinkRate`;
  `AppAgreed`; `TypesHold`.

The limit looks at the times of all live publishes, the bucket at one number. The
invariant that joins them (`Holds`) says that the bucket's tokens are the least, over the
burst and every publish so far, of what the limit still leaves behind that publish
(`Left`): an upper bound alone would show that the bucket never admits too much, and that
it is reached (the last conjunct) shows that it never refuses what is due. The refill adds
to each term alike and cuts at the burst (`RefilledHolds`); a publish takes one off each
and adds a term of its own (`PublishHolds`); so there is a token exactly when the limit
allows one more (`TokenIsDue`). `StepIsLimited` carries this through `admit`, where only
a message that nothing else stops gets to the bucket (`Verdicts`).

Of several bridges, for every network of bridges and foreign relays, every `maxHops`
(0 included), every queue depth of at least 1 and every loss; assumed is that hop ids are
unique and no mark of the model, that a bridge's two buses differ, and that what a
component publishes carries no bridge's hops:

* `HopRelayProofs`: `TagsAreSound`, that `TagInv` holds, and from it `TagTellsPath`,
  `LoopDropsJust` and `TypesHold`; then `CommandsStayHome`. If besides every network of
  `Nets` has `SingleRoutes`: `CopiesKeepInv`, that `CopyInv` holds, and `OneCopy`.

`HopTagTellsPath` speaks of what is on the buses; the invariant says it of what waits in
the queues too (`Sound`), and that the path has a last foreign relay, or none
(`LastForeign`), so that the segment behind it is something to which a bridge
adds its id (`SegmentGrows`) and which a foreign relay empties (`SegmentStarts`).
`StampedIsSound` is where the code's check comes in: the id is new because `stamp_hop`
found it in no place of the tag, and within `maxHops` because the tag was shorter.
`LoopDropsJust` needs to know why each refusal was made (`LoopReason`).
`CommandsStayHome` rests on `ForwardedCommand`: no class that is relayed up is `cmd`,
wherever in the topic the class stands.

`SingleRoutes` is the condition that `hop_overlap` breaks; it is sufficient, not necessary:
no message's topic has two classes of one direction where the two scopes look for them,
and no bus has two foreign relays, which leave the same mark. Then a bus and a
mark tell the pump that took a message (`PumpIsOne`), as every filter that matches finds
its class in the topic (`FilterFinds`). That no copy comes twice needs the history: `CopyInv`
says that a copy arrives after the one it was made of (`ArrivesOnce`) and that what waits in a
queue has no child of that queue's pump yet and waits there once (`WaitsOnce`). Were the
new copy there already, or a copy of it, its parent would have left the queue before
(`RelayOnce`, `BroadcastOnce`). The argument needs that paths only grow (`GrownPaths`) and
nothing of the tags, so it covers foreign relays too.

Of a run of the process, for every set of worlds it may start in, where a document is what
serde reads it as (`Document`: any number of entries with any knobs), for any moving
counters and any bound on them:

* `BridgeProcessProofs`: `LifeKeepsInv`, that `LifeInv` holds, and `TypesHold`,
  `NoHalfBridge`, `StopsCleanly`, `SiteIsKnown`, `ReportsAddUp`.

`PhaseInv` says, phase by phase, how what is set up and what `todo` still has make up the
whole: the pumps that run and those to come are all subscriptions, the tasks alive are
among those to be awaited, what is subscribed is to be unsubscribed or stuck. `LeftOf` keeps
`todo` inside its list, so that a phase ends when its list does (`LeftStep`). All periodic
tasks are spawned because the sweep's interval has its floor whatever `ttlSecs` is
(`AllSpawned`); `Passed` carries what `main()` checked before it connected, and
`SiteIsOne` concludes from it which entry is the site. For the deltas, `Account` relates
reports, snapshots and one counter; a metric that is emitted reports its own counters and
no others because no two metrics have one name (`NamesApart`).

Model-checked only:

* the liveness properties, and the fairness part of `OneShotSpec`: out of the prover's reach;
* the four properties that a run refutes, as what they are.

## 6. Not modelled, and the plan

Next: the two halves of shutdown together. `ReplyShutdown` has the reply
topics and `BridgeProcess` the fixed subscriptions; a composition would show that the
order of `shutdown` (tasks, reply pumps, subscriptions, drain) is one.

Not planned: the syntax of the configuration and the type errors of its members (serde's),
the gauges and the wording of the metrics, the last will's payload, logging, the rounding
of the token bucket, and the messaging library, which is not in the repository.
