--------------------------- MODULE ReplyCorrelator ---------------------------
(***************************************************************************)
(* The correlation map of reply.rs: the pure, clock-free operations that   *)
(* ReplyProxy performs under the correlator's mutex.  The map is a         *)
(* sequence in insertion order, like the Vec of the code; `now' is always  *)
(* an argument.                                                            *)
(***************************************************************************)
EXTENDS Integers, Sequences, SequencesExt

CONSTANTS
  Topic,       \* bridge-side reply topics that new_reply_topic() may mint
  SiteTopic,   \* reply_to topics of the requesters on the site broker
  Ttl,         \* reply.ttlSecs, in clock ticks; 0 is accepted by the code
  MaxPending   \* reply.maxPending, after the `max(1)' of ReplyCorrelator::new

ASSUME TtlAssumption == Ttl \in Nat
ASSUME MaxPendingAssumption == MaxPending \in Nat \ {0}

\* struct Pending, with the map key beside it.
Entry == [topic : Topic, site : SiteTopic, deadline : Nat]

TopicsOf(q) == {q[i].topic : i \in DOMAIN q}

\* ReplyCorrelator::contains
HasEntry(q, t) == t \in TopicsOf(q)

IsFull(q) == Len(q) >= MaxPending

-----------------------------------------------------------------------------
\* Slips of the operations below, which the properties must notice.

\* the map is never cut back to maxPending
RecordNoEvict(q, t, s, now) ==
  Append(q, [topic |-> t, site |-> s, deadline |-> now + Ttl])
\* the new entry goes to the front, as with VecDeque::push_front
RecordFront(q, t, s, now) ==
  <<[topic |-> t, site |-> s, deadline |-> now + Ttl]>>
     \o (IF IsFull(q) THEN Front(q) ELSE q)
\* an entry is expired one tick early
FirstLiveEarly(q, now) ==
  CHOOSE k \in 0 .. Len(q) :
    /\ \A i \in 1 .. k : q[i].deadline <= now + 1
    /\ k < Len(q) => q[k + 1].deadline > now + 1
\* the key of the removed entry is not handed to the caller
EvictedForgotten(q) == {}
\* the entry is looked up and left in place
TakeKeeps(q, t) == q
-----------------------------------------------------------------------------

\* The push of ReplyCorrelator::rewrite_downlink, evicting the oldest entry
\* when the map is full.
Record(q, t, s, now) ==
  Append(IF IsFull(q) THEN Tail(q) ELSE q,
         [topic |-> t, site |-> s, deadline |-> now + Ttl])

\* `evicted' of DownlinkRewrite::Rewritten: none or one topic.
Evicted(q) == IF IsFull(q) THEN {q[1].topic} ELSE {}

IndexOf(q, t) == CHOOSE i \in DOMAIN q : q[i].topic = t

\* The map after ReplyCorrelator::take or abandon of t.
Take(q, t) == IF HasEntry(q, t) THEN RemoveAt(q, IndexOf(q, t)) ELSE q

\* keep_from of ReplyCorrelator::sweep: how many entries at the front are stale.
FirstLive(q, now) ==
  CHOOSE k \in 0 .. Len(q) :
    /\ \A i \in 1 .. k : q[i].deadline <= now
    /\ k < Len(q) => q[k + 1].deadline > now

\* What sweep drains, oldest first, and what it leaves.
Swept(q, now) == [i \in 1 .. FirstLive(q, now) |-> q[i].topic]
AfterSweep(q, now) == SubSeq(q, FirstLive(q, now) + 1, Len(q))

=============================================================================
