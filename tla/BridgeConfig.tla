----------------------------- MODULE BridgeConfig -----------------------------
(***************************************************************************)
(* The bridge's configuration as config.rs reads it: which documents are   *)
(* accepted, which entry of component.instances[] is the site, and what a  *)
(* knob is when it is not set.  A document is a record; a member that it   *)
(* does not have is Absent.                                                *)
(***************************************************************************)
EXTENDS Integers, Sequences, SequencesExt, FiniteSetsExt

CONSTANTS
  Absent,
  DefaultEvtMax     \* DEFAULT_EVT_BUFFER_MAX
ASSUME DefaultEvtMaxAssumption == DefaultEvtMax \in Nat

OrElse(knob, default) == IF knob = Absent THEN default ELSE knob

-----------------------------------------------------------------------------
(* The uplink block: class tokens to their knobs                           *)

ClassPolicy ==
  [enabled : BOOLEAN \cup {Absent},
   maxRatePerSec : Nat \cup {Absent},
   burst : Nat \cup {Absent},
   bufferWhileDisconnected :
     {Absent} \cup [enabled : BOOLEAN \cup {Absent}, maxMessages : Nat \cup {Absent}]]

\* A class that the block does not name has no knob set.
Knob(uplink, c, member) == IF c \in DOMAIN uplink THEN uplink[c][member] ELSE Absent

\* UplinkConfig::app_enabled: whether the engine subscribes class app.
AppEnabled(uplink) == OrElse(Knob(uplink, "app", "enabled"), FALSE)

\* DisconnectBufferConfig: its bound, 0 when it is switched off.
BufferBound(buffer) ==
  IF buffer = Absent THEN DefaultEvtMax
  ELSE IF OrElse(buffer.enabled, TRUE) THEN OrElse(buffer.maxMessages, DefaultEvtMax)
  ELSE 0

-----------------------------------------------------------------------------
(* The other knobs of an entry                                             *)

EffectiveMaxHops(entry) == OrElse(entry.maxHops, 4)

\* QueueConfig: data is deep, the others are shallow.
QueueDepths(queue) ==
  IF queue = Absent THEN [data |-> 512, default |-> 64]
  ELSE [data |-> OrElse(queue.data, 512), default |-> OrElse(queue.default, 64)]

DepthOf(entry, class) ==
  IF class = "data" THEN QueueDepths(entry.queue).data ELSE QueueDepths(entry.queue).default

\* ReplyConfig.
ReplyKnobs(reply) ==
  IF reply = Absent THEN [ttlSecs |-> 60, maxPending |-> 1024]
  ELSE [ttlSecs |-> OrElse(reply.ttlSecs, 60), maxPending |-> OrElse(reply.maxPending, 1024)]

\* slip: no floor under the interval
SweepIntervalUnfloored(ttlSecs) ==
  LET quarter == (ttlSecs * 1000) \div 4 IN IF quarter > 5000 THEN 5000 ELSE quarter

\* ReplyCorrelator::sweep_interval, in milliseconds.
SweepInterval(ttlSecs) ==
  LET quarter == (ttlSecs * 1000) \div 4
  IN  IF quarter < 100 THEN 100 ELSE IF quarter > 5000 THEN 5000 ELSE quarter

-----------------------------------------------------------------------------
(* The document                                                            *)

\* component.instances, if there is any.
Instances(doc) ==
  IF doc = Absent \/ doc.instances = Absent THEN <<>> ELSE doc.instances

\* InstanceEntry, as serde reads it, and whether there is an lwt in it.
InstanceEntry(e) ==
  /\ {e.siteBroker, e.lwt} \subseteq BOOLEAN
  /\ \A c \in DOMAIN e.uplink : e.uplink[c] \in ClassPolicy
  /\ e.maxHops \in Nat \cup {Absent}
  /\ e.queue = Absent \/ {e.queue.data, e.queue.default} \subseteq Nat \cup {Absent}
  /\ e.reply = Absent \/ {e.reply.ttlSecs, e.reply.maxPending} \subseteq Nat \cup {Absent}

Document(doc) ==
  LET all == Instances(doc)
  IN  /\ Len(all) \in Nat /\ DOMAIN all = 1 .. Len(all)
      /\ \A i \in DOMAIN all : InstanceEntry(all[i])

\* slip: the first entry only
ConfiguresLwtFirst(doc) == Instances(doc) /= <<>> /\ Head(Instances(doc)).lwt

\* reject_configured_lwt: any entry may not have an lwt, whatever its id.
ConfiguresLwt(doc) == \E i \in DOMAIN Instances(doc) : Instances(doc)[i].lwt

\* BridgeConfig::from_value: there is a component, and each entry has an id.
Accepted(doc) ==
  /\ ~ ConfiguresLwt(doc)
  /\ doc /= Absent
  /\ \A i \in DOMAIN Instances(doc) : Instances(doc)[i].id /= Absent

Named(doc) == {i \in DOMAIN Instances(doc) : Instances(doc)[i].id = "site"}
WithBroker(doc) == {i \in DOMAIN Instances(doc) : Instances(doc)[i].siteBroker}

\* slip: the first entry with a broker will do
SiteCandidatesFirst(doc) ==
  IF Named(doc) /= {} THEN {Min(Named(doc))}
  ELSE IF WithBroker(doc) /= {} THEN {Min(WithBroker(doc))} ELSE {}

\* BridgeConfig::site_instance: the first entry named "site", else those with
\* a broker; it must be one.
SiteCandidates(doc) == IF Named(doc) /= {} THEN {Min(Named(doc))} ELSE WithBroker(doc)
HasSite(doc) == \E i \in DOMAIN Instances(doc) : SiteCandidates(doc) = {i}
SiteInstance(doc) == Instances(doc)[Min(SiteCandidates(doc))]

=============================================================================
