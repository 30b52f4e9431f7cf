------------------------------- MODULE HopRelay -------------------------------
(***************************************************************************)
(* Several bridges and what they make of a message together: each runs the *)
(* pumps of io.rs between its device bus and its site broker, and what one *)
(* publishes another may receive.  Buses may form chains, diamonds and     *)
(* rings; foreign relays, which do not keep the hop tag, may stand among   *)
(* them.  The uplink policy and the reply proxy are left out: a publish    *)
(* that either would not make, or that fails, is a loss.                   *)
(***************************************************************************)
EXTENDS RelayEngine, FiniteSets, FiniteSetsExt

CONSTANTS
  Nets,        \* the networks a run may start with
  QueueDepth,  \* the bound of a subscription's queue at the provider
  MaxPath,     \* bound on the hops of a copy that foreign relays keep alive
  ForeignHop   \* the mark of a foreign relay in a path

\* A network: its engines, each with its two buses; the pairs of buses that a
\* foreign relay joins; the messages that are published, each on its bus.
ASSUME NetsAssumption ==
  \A net \in Nets :
    /\ \A e \in net.engines : Engine(e) /\ e.primary /= e.site
    /\ \A d, e \in net.engines : d.id = e.id => d = e
\* A tag that is no array is no tag, an envelope is not garbled by its tag, and
\* no component publishes with the tag of a bridge.
Ids(n) == {e.id : e \in n.engines} \cup {ForeignHop}
ASSUME TagsAssumption ==
  \A net \in Nets :
    /\ \A e \in net.engines : e.id /= ForeignHop
    /\ Junk \notin Seq(Ids(net)) /\ Garbled \notin Seq(Ids(net))
    /\ \A m \in net.messages : m.payload \in {<<>>, Junk, Garbled}
ASSUME DepthAssumption == QueueDepth \in Nat \ {0}

VARIABLES
  net,         \* the network; never changes
  waiting,     \* the messages that are still to be published
  inbox,       \* what waits in each subscription's queue
  lost,        \* history: some copy was dropped by a full queue, or not published
  arrived,     \* history: the copies published on each bus
  doubled,     \* history: those published there more than once
  refused      \* history: what decide() dropped, where and why

vars == <<net, waiting, inbox, lost, arrived, doubled, refused>>

\* The pump of a subscription: where it reads and, if it forwards, writes.
BridgePumps(e) ==
  {[engine |-> e, sub |-> s, from |-> e.primary, to |-> e.site] :
     s \in ToSet(UplinkSubscriptions(e))}
    \cup
  {[engine |-> e, sub |-> s, from |-> e.site, to |-> e.primary] :
     s \in ToSet(DownlinkSubscriptions(e))}

ForeignPumps(n) == {[from |-> f[1], to |-> f[2]] : f \in n.foreign}

IsForeign(p) == DOMAIN p = {"from", "to"}

\* A foreign relay takes everything.
Takes(p, topic) == IF IsForeign(p) THEN TRUE ELSE Matches(p.sub.filter, topic)

\* The pumps that some message of the network can reach.
PumpsOf(n) ==
  {p \in ForeignPumps(n) \cup UNION {BridgePumps(e) : e \in n.engines} :
     \E m \in n.messages : Takes(p, m.topic)}

Init ==
  /\ net \in Nets
  /\ waiting = net.messages
  /\ inbox = [p \in PumpsOf(net) |-> <<>>]
  /\ lost = FALSE
  /\ arrived = {} /\ doubled = {}
  /\ refused = {}

-----------------------------------------------------------------------------

Receivers(q, bus, copy) == {p \in DOMAIN q : p.from = bus /\ Takes(p, copy.message.topic)}

Record(arrival) ==
  /\ arrived' = arrived \cup {arrival}
  /\ doubled' = doubled \cup (arrived \cap {arrival})

\* slip: the subscription's queue has no bound
BroadcastUnbounded(q, bus, copy) ==
  /\ inbox' = [p \in DOMAIN q |->
                 IF p \in Receivers(q, bus, copy) THEN Append(q[p], copy) ELSE q[p]]
  /\ Record([bus |-> bus, copy |-> copy])
  /\ UNCHANGED lost

\* The broker of a bus hands a copy to each subscription that matches, unless
\* its queue is full.
Broadcast(q, bus, copy) ==
  /\ inbox' = [p \in DOMAIN q |->
                 IF p \in Receivers(q, bus, copy) /\ Len(q[p]) < QueueDepth
                   THEN Append(q[p], copy) ELSE q[p]]
  /\ lost' = (lost \/ \E p \in Receivers(q, bus, copy) : Len(q[p]) >= QueueDepth)
  /\ Record([bus |-> bus, copy |-> copy])

\* A copy behind one more relay.
Hopped(copy, tag, id) ==
  [message |-> copy.message, payload |-> tag, path |-> Append(copy.path, id)]

\* A component publishes.
Originate(m) ==
  /\ m \in waiting
  /\ waiting' = waiting \ {m}
  /\ Broadcast(inbox, m.bus, [message |-> m, payload |-> m.payload, path |-> <<>>])
  /\ UNCHANGED <<net, refused>>

\* The queue is left behind by one message.
Popped(p) == [inbox EXCEPT ![p] = Tail(@)]

\* pump(): receive, decide, publish on the other bus under the same topic.
Forward(p) ==
  /\ ~ IsForeign(p) /\ inbox[p] /= <<>>
  /\ LET c == Head(inbox[p])
     IN  /\ DropReason(p.engine, p.sub.dir, c.message.topic, c.payload) = "none"
         /\ Broadcast(Popped(p), p.to,
                      Hopped(c, Stamped(p.engine, c.payload), p.engine.id))
  /\ UNCHANGED <<net, waiting, refused>>

\* The policy drops it, the reply subscription or the publish fails.
ForwardFails(p) ==
  /\ ~ IsForeign(p) /\ inbox[p] /= <<>>
  /\ LET c == Head(inbox[p])
     IN  DropReason(p.engine, p.sub.dir, c.message.topic, c.payload) = "none"
  /\ inbox' = Popped(p)
  /\ lost' = TRUE
  /\ UNCHANGED <<net, waiting, arrived, doubled, refused>>

\* slip: a malformed envelope counts as a loop
CounterOfMixed(reason) ==
  IF reason \in {"OwnEcho", "MaxHopsExceeded", "MalformedEnvelope"}
    THEN "loop_dropped" ELSE "routed_dropped"

\* RelayCounters::count_drop: the counter of each reason.
CounterOf(reason) ==
  CASE reason \in {"OwnEcho", "MaxHopsExceeded"} -> "loop_dropped"
    [] reason = "MalformedEnvelope"              -> "malformed_dropped"
    [] OTHER                                     -> "routed_dropped"

\* pump(): decide() says drop; count it.
Refuse(p) ==
  /\ ~ IsForeign(p) /\ inbox[p] /= <<>>
  /\ LET c == Head(inbox[p])
         reason == DropReason(p.engine, p.sub.dir, c.message.topic, c.payload)
     IN  /\ reason /= "none"
         /\ refused' = refused \cup
              {[engine |-> p.engine, copy |-> c, counter |-> CounterOf(reason)]}
  /\ inbox' = Popped(p)
  /\ UNCHANGED <<net, waiting, lost, arrived, doubled>>

\* A relay that does not conform republishes everything with a tag of its own;
\* the model follows a copy for MaxPath hops.
ForeignForward(p) ==
  /\ IsForeign(p) /\ inbox[p] /= <<>>
  /\ LET c == Head(inbox[p])
     IN  IF Len(c.path) < MaxPath
           THEN Broadcast(Popped(p), p.to,
                          Hopped(c, IF c.payload = Garbled THEN Garbled ELSE Junk, ForeignHop))
           ELSE inbox' = Popped(p) /\ UNCHANGED <<lost, arrived, doubled>>
  /\ UNCHANGED <<net, waiting, refused>>

Pump(p) == Forward(p) \/ ForwardFails(p) \/ Refuse(p) \/ ForeignForward(p)

Next ==
  \/ \E m \in waiting : Originate(m)
  \/ \E p \in DOMAIN inbox : Pump(p)

\* The components publish what they have to, and every pump keeps receiving.
Spec == Init /\ [][Next]_vars
FairSpec == Spec /\ WF_vars(Next)

-----------------------------------------------------------------------------
(* Properties                                                              *)

Copy ==
  [message : net.messages, payload : Seq(Ids(net)) \cup {Junk, Garbled}, path : Seq(Ids(net))]

\* Every variable has its type and each queue keeps to its depth.
TypeOK ==
  /\ net \in Nets
  /\ waiting \subseteq net.messages
  /\ DOMAIN inbox = PumpsOf(net)
  /\ \A p \in DOMAIN inbox : inbox[p] \in Seq(Copy) /\ Len(inbox[p]) <= QueueDepth
  /\ lost \in BOOLEAN
  /\ \A a \in arrived : a.copy \in Copy
  /\ doubled \subseteq arrived
  /\ \A r \in refused : r.engine \in net.engines /\ r.copy \in Copy

\* The part of a path behind the last foreign relay.
Segment(path) ==
  SubSeq(path, Max({0} \cup {i \in DOMAIN path : path[i] = ForeignHop}) + 1, Len(path))

EngineOf(id) == CHOOSE e \in net.engines : e.id = id

\* What README promises of the hop tag: it tells which path the message took;
\* no bridge relays the same copy twice and none relays it past its maxHops,
\* counted from the last relay that did not keep the tag.  Without such relays
\* no path is longer than the number of bridges, so no ring relays for ever.
HopTagTellsPath ==
  \A a \in arrived :
    LET hops == Segment(a.copy.path)
    IN  a.copy.payload /= Garbled =>
          /\ HopsOf(a.copy.payload) = hops
          /\ IsInjective(hops)
          /\ \A i \in DOMAIN hops : i <= EngineOf(hops[i]).maxHops

\* The loop guard drops no message that is not looping: when it counts one,
\* the bridge has relayed this copy before, or the copy used up the hops the
\* bridge allows.  Nothing else is counted as a loop.
LoopDropsAreLoops ==
  \A r \in refused :
    LET hops == Segment(r.copy.path)
    IN  r.counter = "loop_dropped" =>
          /\ r.copy.payload /= Garbled
          /\ r.engine.id \in ToSet(hops) \/ Len(hops) >= r.engine.maxHops

IsCommand(topic) ==
  topic[4] = "cmd" \/ (topic[4] \notin Class /\ Len(topic) > 4 /\ topic[5] = "cmd")

\* No bridge takes a command off its device bus, and each brings home its own
\* device's only: where bridges alone carry a command, it is on the bus where
\* it was published or on the device bus of the device it is addressed to.
CommandsGoHome ==
  net.foreign = {} =>
    \A a \in arrived :
      LET topic == a.copy.message.topic
      IN  IsCommand(topic) /\ a.copy.path /= <<>> =>
            \E e \in net.engines : e.device = topic[2] /\ e.primary = a.bus

\* Two subscriptions of one bridge never relay the same copy: along one path
\* a message arrives once ("a delivery is never double-counted").
OneCopyPerPath ==
  doubled = {}

\* The routes that the hop rules leave open to a message: up from bridge to
\* bridge, none twice, each within its maxHops.
OpenRoutes(m) ==
  {r \in UNION {[1 .. n -> net.engines] : n \in 1 .. Cardinality(net.engines)} :
     /\ IsInjective(r)
     /\ r[1].primary = m.bus
     /\ \A i \in 1 .. Len(r) - 1 : r[i].site = r[i + 1].primary
     /\ \A i \in DOMAIN r : i <= r[i].maxHops /\ TopicClass(m.topic) \in RelayedUp(r[i])}

Travelled(m, r) ==
  \E a \in arrived :
    /\ a.bus = r[Len(r)].site
    /\ a.copy.message = m
    /\ a.copy.path = [i \in DOMAIN r |-> r[i].id]

\* The guards let through what they should: unless something is lost on the
\* way, a well-formed message of an uplink class, at either scope, travels
\* every route open to it.
MessagesGetThrough ==
  <>(lost \/ \A m \in net.messages :
               IsUns(m.topic) /\ m.payload /= Garbled =>
                 \A r \in OpenRoutes(m) : Travelled(m, r))

-----------------------------------------------------------------------------
(* The invariant that the proof of OneCopyPerPath rests on                 *)

\* Two filters of one direction match the topic: the class and the channel
\* behind it are both classes of that direction.
Overlapping(topic) ==
  /\ Len(topic) >= 5 /\ {topic[4], topic[5]} \subseteq Class
  /\ topic[4] = "cmd" <=> topic[5] = "cmd"

\* The networks in which a path tells which pumps a copy went through.
SingleRoutes(n) ==
  /\ \A m \in n.messages : ~ Overlapping(m.topic)
  /\ \A f, g \in n.foreign : f[1] = g[1] => f = g

\* What a pump leaves in the path of a copy.
MarkOf(p) == IF IsForeign(p) THEN ForeignHop ELSE p.engine.id

SameRoute(c, d) == c.message = d.message /\ c.path = d.path
OneHopOn(c, mark, d) == c.message = d.message /\ d.path = Append(c.path, mark)

\* A copy arrives once, after the copy it was made of, and after its message
\* was published.
ArrivesOnce ==
  /\ \A a, b \in arrived : SameRoute(a.copy, b.copy) => a = b
  /\ \A a \in arrived : a.copy.path = <<>> \/
       \E b \in arrived : \E x \in Ids(net) : OneHopOn(b.copy, x, a.copy)
  /\ \A a \in arrived : a.copy.message \notin waiting

\* What waits in a queue has arrived on its bus, waits there once, and the pump
\* has made no copy of it yet.
WaitsOnce ==
  \A p \in DOMAIN inbox : \A i \in DOMAIN inbox[p] :
    /\ [bus |-> p.from, copy |-> inbox[p][i]] \in arrived
    /\ Takes(p, inbox[p][i].message.topic)
    /\ \A a \in arrived : ~ OneHopOn(inbox[p][i], MarkOf(p), a.copy)
    /\ \A j \in DOMAIN inbox[p] : SameRoute(inbox[p][i], inbox[p][j]) => i = j

CopyInv == SingleRoutes(net) /\ ArrivesOnce /\ WaitsOnce /\ doubled = {}

=============================================================================
