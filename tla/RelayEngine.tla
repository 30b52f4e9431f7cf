------------------------------ MODULE RelayEngine ------------------------------
(***************************************************************************)
(* The relay decision of relay.rs: which subscriptions an engine asks for, *)
(* which topics it routes, and the hop tag that stops loops.  Pure, like   *)
(* the code.  A topic is the sequence of its tokens; an envelope is        *)
(* abstracted to its hop tag; a "raw" message, which stamp_hop passes, is  *)
(* none that comes off a wire.                                             *)
(***************************************************************************)
EXTENDS Integers, Sequences, SequencesExt

CONSTANTS
  Junk,        \* a _relay tag that is not an array
  Garbled      \* a payload that is no EdgeCommons envelope

Root == "ecv1"

\* The UNS classes; those that a fleet consumer subscribes to always uplink.
Class == {"state", "cfg", "evt", "metric", "data", "log", "app", "cmd"}
UplinkClasses == <<"state", "cfg", "evt", "metric", "data", "log">>

\* The classes that carry a channel behind the class token.
Channeled(c) == c \notin {"state", "cfg"}

\* What RelayEngine::new keeps: the hop id, the device, maxHops and the opt-in
\* for class app.
Engine(e) == /\ e.maxHops \in Nat
             /\ e.app \in BOOLEAN

-----------------------------------------------------------------------------
(* Subscriptions                                                           *)

\* Uns::filter_scoped: the levels up to the class, and whether "/#" follows.
Filter(c, device, atInstance) ==
  [levels |-> <<Root, device, "+">> \o (IF atInstance THEN <<"+">> ELSE <<>>) \o <<c>>,
   open   |-> Channeled(c)]

\* The classes that an engine relays up, in the order in which it subscribes.
ClassesUp(e) == UplinkClasses \o (IF e.app THEN <<"app">> ELSE <<>>)
RelayedUp(e) == ToSet(ClassesUp(e))

Uplink(c, atInstance) == [dir |-> "up", class |-> c, filter |-> Filter(c, "+", atInstance)]
Downlink(e, atInstance) ==
  [dir |-> "down", class |-> "cmd", filter |-> Filter("cmd", e.device, atInstance)]

\* slip: the instance scope only, as before component-scope topics came
UplinkInstanceOnly(e) ==
  [i \in DOMAIN ClassesUp(e) |-> Uplink(ClassesUp(e)[i], TRUE)]

\* slip: one catch-all for the component scope
UplinkCatchAll(e) ==
  Append(UplinkInstanceOnly(e),
         [dir |-> "up", class |-> "any",
          filter |-> [levels |-> <<Root, "+", "+">>, open |-> TRUE]])

\* RelayEngine::new: each class at both scopes, from any device; commands at
\* both scopes, for the engine's own device.
UplinkSubscriptions(e) ==
  [i \in 1 .. 2 * Len(ClassesUp(e)) |-> Uplink(ClassesUp(e)[(i + 1) \div 2], i % 2 = 1)]
DownlinkSubscriptions(e) == <<Downlink(e, TRUE), Downlink(e, FALSE)>>

\* The broadcasts of a reconnect, in the order of REHYDRATION_CMDS.
RehydrationTopics(e) ==
  << <<Root, e.device, "_bcast", "cmd", "republish-state">>,
     <<Root, e.device, "_bcast", "cmd", "republish-cfg">> >>

\* The broker: "+" matches one token, "#" the rest, if any.
Matches(f, topic) ==
  /\ IF f.open THEN Len(topic) >= Len(f.levels) ELSE Len(topic) = Len(f.levels)
  /\ \A i \in DOMAIN f.levels : f.levels[i] \in {"+", topic[i]}

-----------------------------------------------------------------------------
(* Routing                                                                 *)

\* slip: the class is always behind an instance token
ClassPositionFixed(topic) == 5

\* The class is right behind the component when that token is a class, else
\* behind an instance token.
ClassPosition(topic) == IF topic[4] \in Class THEN 4 ELSE 5

IsUns(topic) ==
  /\ Len(topic) >= 4 /\ topic[1] = Root
  /\ ClassPosition(topic) \in DOMAIN topic
  /\ topic[ClassPosition(topic)] \in Class

TopicClass(topic) == topic[ClassPosition(topic)]

\* RelayEngine::decide, first part: why the topic is not for this direction.
RoutingReason(e, dir, topic) ==
  CASE ~ IsUns(topic)                                          -> "NotUnsTopic"
    [] IsUns(topic) /\ dir = "up" /\ TopicClass(topic) \notin RelayedUp(e)
                                                               -> "ClassNotRelayed"
    [] IsUns(topic) /\ dir = "down" /\ TopicClass(topic) /= "cmd"
                                                               -> "ClassNotRelayed"
    [] IsUns(topic) /\ dir = "down" /\ TopicClass(topic) = "cmd" /\ topic[2] /= e.device
                                                               -> "NotOwnDevice"
    [] OTHER                                                   -> "none"

-----------------------------------------------------------------------------
(* The hop tag                                                             *)

\* A tag that is not an array is normalized to an empty one.
HopsOf(tag) == IF tag = Junk THEN <<>> ELSE tag

\* slip: the own id is looked for at the end only
HopReasonLast(e, tag) ==
  LET hops == HopsOf(tag)
  IN  IF hops /= <<>> /\ Last(hops) = e.id THEN "OwnEcho"
      ELSE IF Len(hops) >= e.maxHops THEN "MaxHopsExceeded"
      ELSE "none"

\* slip: one hop more than maxHops
HopReasonLate(e, tag) ==
  LET hops == HopsOf(tag)
  IN  IF e.id \in ToSet(hops) THEN "OwnEcho"
      ELSE IF Len(hops) > e.maxHops THEN "MaxHopsExceeded"
      ELSE "none"

\* slip: the cap counts the hop to come
HopReasonEarly(e, tag) ==
  LET hops == HopsOf(tag)
  IN  IF e.id \in ToSet(hops) THEN "OwnEcho"
      ELSE IF Len(hops) + 1 >= e.maxHops THEN "MaxHopsExceeded"
      ELSE "none"

\* RelayEngine::stamp_hop: why the message must not be relayed ...
HopReason(e, tag) ==
  LET hops == HopsOf(tag)
  IN  IF e.id \in ToSet(hops) THEN "OwnEcho"
      ELSE IF Len(hops) >= e.maxHops THEN "MaxHopsExceeded"
      ELSE "none"

\* slip: the tag is read and never written
StampedNever(e, tag) == HopsOf(tag)

\* ... and the tag it is relayed with.
Stamped(e, tag) == Append(HopsOf(tag), e.id)

\* RelayEngine::decide: routing first, then the envelope, then the hop tag.
DropReason(e, dir, topic, payload) ==
  IF RoutingReason(e, dir, topic) /= "none" THEN RoutingReason(e, dir, topic)
  ELSE IF payload = Garbled THEN "MalformedEnvelope"
  ELSE HopReason(e, payload)

=============================================================================
