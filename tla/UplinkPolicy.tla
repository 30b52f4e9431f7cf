----------------------------- MODULE UplinkPolicy -----------------------------
(***************************************************************************)
(* The uplink policy of policy.rs: the admission decision for one message  *)
(* and the operations on the bounded drop-oldest evt buffer.  Pure, like   *)
(* the code: the link state, the verdict of the class's token bucket and   *)
(* the configuration are arguments.  The bucket itself is module           *)
(* TokenBucket.                                                            *)
(***************************************************************************)
EXTENDS Integers, Sequences, SequencesExt

\* "evt" is the one class that buffers; "data" stands for the six others that
\* the policy governs.
Class == {"evt", "data"}

\* enabled: the classes that are relayed; capped: those with a rate cap;
\* evtMax: the bound of the evt buffer, 0 when it is configured off.
Config == [enabled : SUBSET Class, capped : SUBSET Class, evtMax : Nat]

Buffering(c, cfg) == c = "evt" /\ cfg.evtMax > 0

\* slip: a live evt does not look at the buffer
AdmitOvertakes(c, connected, q, hasToken, cfg) ==
  CASE c \notin cfg.enabled                -> "DropDisabled"
    [] ~ connected /\ Buffering(c, cfg)    -> "Buffer"
    [] ~ connected /\ ~ Buffering(c, cfg)  -> "DropDisconnected"
    [] c \in cfg.capped /\ ~ hasToken      -> "DropRateCapped"
    [] OTHER                               -> "Forward"

\* UplinkPolicy::admit.  The first case that applies decides.
Admit(c, connected, q, hasToken, cfg) ==
  IF c \notin cfg.enabled THEN "DropDisabled"
  ELSE IF ~ connected
         THEN IF Buffering(c, cfg) THEN "Buffer" ELSE "DropDisconnected"
  ELSE IF Buffering(c, cfg) /\ q /= <<>> THEN "Buffer"
  ELSE IF c \in cfg.capped /\ ~ hasToken THEN "DropRateCapped"
  ELSE "Forward"

\* slip: off by one, the buffer holds one more than its bound
PushEvtLate(q, m, cfg) ==
  Append(IF Len(q) > cfg.evtMax THEN Tail(q) ELSE q, m)

\* UplinkPolicy::push_evt when it is not rejected, and the victim, if any.
PushEvt(q, m, cfg) == Append(IF Len(q) >= cfg.evtMax THEN Tail(q) ELSE q, m)
PushVictim(q, cfg) == IF Len(q) >= cfg.evtMax THEN {Head(q)} ELSE {}

\* UplinkPolicy::requeue_evt_front: refused when the buffer refilled meanwhile.
CanRequeue(q, cfg) == Len(q) < cfg.evtMax

=============================================================================
