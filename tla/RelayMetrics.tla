----------------------------- MODULE RelayMetrics -----------------------------
(***************************************************************************)
(* The relay's counters and the task that reports them: it copies them one *)
(* by one while the pumps go on counting, and emits what they grew by      *)
(* since the last time, metric by metric, each of which may fail.          *)
(***************************************************************************)
EXTENDS Integers, Sequences, SequencesExt, FiniteSets, FiniteSetsExt

CONSTANTS
  Moving,      \* the counters that a run moves; the others stay 0
  MaxCount     \* bound on each of them, a function

ClassMeasures == <<"state", "cfg", "evt", "metric", "data", "log", "app">>

ClassFamilies ==
  <<"relay_uplinked", "relay_dropped_disabled", "relay_dropped_rate",
    "relay_dropped_disconnected">>

ScalarCounters ==
  <<"relay_downlinked", "relay_loop_dropped", "relay_routed_dropped",
    "relay_malformed_dropped", "relay_publish_failed", "relay_reply_relayed",
    "relay_reply_expired", "relay_reply_stray", "relay_evt_buffered",
    "relay_evt_buffer_dropped", "relay_evt_replayed">>

\* metric_definitions: each metric with its measures, in the order of emission.
\* The two gauges, which are reported as they are, end the list.
Definitions ==
  [i \in DOMAIN ClassFamilies |-> [name |-> ClassFamilies[i], measures |-> ClassMeasures]]
    \o [i \in DOMAIN ScalarCounters |-> [name |-> ScalarCounters[i], measures |-> <<"count">>]]
    \o <<[name |-> "relay_pending_replies", measures |-> <<"count">>],
         [name |-> "site_connected", measures |-> <<"connected">>]>>

\* What a measure of a metric reports: the counter at field <<i, j>>.
Slot(i, j) == <<Definitions[i].name, Definitions[i].measures[j]>>
SlotsOf(i) == {Slot(i, j) : j \in DOMAIN Definitions[i].measures}
Counters == UNION {SlotsOf(i) : i \in 1 .. Len(Definitions) - 2}

ASSUME MovingAssumption == Moving \subseteq Counters /\ Moving /= {} /\ MaxCount \in [Moving -> Nat]

VARIABLES
  counters,    \* RelayCounters, as far as it moves
  prev,        \* the snapshot of the last report
  curr,        \* the snapshot being taken, then reported
  toLoad,      \* the fields still to be copied
  toEmit,      \* the metrics still to be emitted, by their places in Definitions
  reported,    \* history: the sum of what was emitted of each counter
  missed       \* history: the sum of what was not, because the emission failed

reportVars == <<prev, curr, toLoad, toEmit, reported, missed>>
metricVars == <<counters, reportVars>>

Zero == [s \in Moving |-> 0]

MetricsInit ==
  /\ counters = Zero /\ prev = Zero /\ curr = Zero
  /\ toLoad = {} /\ toEmit = {}
  /\ reported = Zero /\ missed = Zero

-----------------------------------------------------------------------------

\* fetch_add.
Count(s) ==
  /\ s \in Moving /\ counters[s] < MaxCount[s]
  /\ counters' = [counters EXCEPT ![s] = @ + 1]

\* The metrics that a run moves, and the fields of those counters.
MovingMetrics == {i \in DOMAIN Definitions : SlotsOf(i) \cap Moving /= {}}
MovingFields ==
  UNION {{<<i, j>> : j \in {k \in DOMAIN Definitions[i].measures : Slot(i, k) \in Moving}} :
           i \in MovingMetrics}

\* take_snapshot goes through the fields in their order.
FirstField(fields) ==
  CHOOSE f \in fields : \A g \in fields : f[1] < g[1] \/ (f[1] = g[1] /\ f[2] <= g[2])

Idle == toLoad = {} /\ toEmit = {}

\* The interval has elapsed.
MetricsTick ==
  /\ Idle
  /\ toLoad' = MovingFields
  /\ UNCHANGED <<counters, prev, curr, toEmit, reported, missed>>

\* One load; behind the last one the groups are formed.
LoadNext ==
  /\ toLoad /= {}
  /\ LET f == FirstField(toLoad)
         s == Slot(f[1], f[2])
     IN  /\ curr' = [curr EXCEPT ![s] = counters[s]]
         /\ toLoad' = toLoad \ {f}
  /\ toEmit' = IF toLoad' = {} THEN MovingMetrics ELSE toEmit
  /\ UNCHANGED <<counters, prev, reported, missed>>

\* slip: the totals are emitted
DeltaTotal(s) == curr[s]

\* relay_metric_groups: the delta of a counter saturates.
Delta(s) == IF curr[s] < prev[s] THEN 0 ELSE curr[s] - prev[s]
Group(i) == [s \in SlotsOf(i) \cap Moving |-> Delta(s)]

AddGroup(total, group) == [s \in Moving |-> IF s \in DOMAIN group THEN total[s] + group[s]
                                                            ELSE total[s]]

\* slip: the counters are read again for the next time
AfterReportRereads == counters

\* Behind the last metric the snapshot becomes the previous one, whatever failed.
AfterReport == curr

EmitNext(fails) ==
  /\ toEmit /= {}
  /\ LET i == Min(toEmit)
     IN  /\ IF fails
              THEN missed' = AddGroup(missed, Group(i)) /\ UNCHANGED reported
              ELSE reported' = AddGroup(reported, Group(i)) /\ UNCHANGED missed
         /\ toEmit' = toEmit \ {i}
  /\ prev' = IF toEmit' = {} THEN AfterReport ELSE prev
  /\ UNCHANGED <<counters, curr, toLoad>>

MetricsStep == MetricsTick \/ LoadNext \/ \E fails \in BOOLEAN : EmitNext(fails)

-----------------------------------------------------------------------------
(* Properties                                                              *)

MetricsTypeOK ==
  /\ \A f \in {counters, prev, curr, reported, missed} :
       f \in [Moving -> Nat] /\ \A s \in Moving : f[s] <= MaxCount[s]
  /\ toLoad \subseteq MovingFields
  /\ toEmit \subseteq MovingMetrics

\* The metrics of this report whose emission was tried.
Tried(s) == toEmit /= {} /\ \A i \in toEmit : s \notin SlotsOf(i)

\* The deltas sum up: what was emitted and what failed to be is what the counter
\* showed when it was last copied.  Nothing is reported twice, and nothing that
\* is counted while a report is under way is left out of the next.
DeltasTelescope ==
  \A s \in Moving :
    /\ reported[s] + missed[s] = (IF Tried(s) THEN curr[s] ELSE prev[s])
    /\ prev[s] <= counters[s] /\ curr[s] <= counters[s]

\* Why every step of the task keeps DeltasTelescope: no delta is negative, and the
\* snapshot that is being reported does not change.
MetricsInv ==
  /\ toLoad /= {} => toEmit = {}
  /\ \A s \in Moving : prev[s] <= curr[s]

=============================================================================
