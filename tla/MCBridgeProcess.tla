---------------------------- MODULE MCBridgeProcess ----------------------------
EXTENDS BridgeProcess, TLC

I(id, broker, lwt) ==
  [id |-> id, siteBroker |-> broker, lwt |-> lwt, uplink |-> <<>>,
   maxHops |-> Absent, queue |-> Absent, reply |-> Absent]

\* An entry with knobs: replies that are stale at once, small queues, class app.
Tuned(entry) ==
  [entry EXCEPT !.reply = [ttlSecs |-> 0, maxPending |-> Absent],
                !.queue = [data |-> Absent, default |-> 8],
                !.uplink = "app" :> [enabled |-> TRUE, maxRatePerSec |-> Absent,
                                     burst |-> Absent, bufferWhileDisconnected |-> Absent]]

W(instances) ==
  [bus |-> TRUE, transport |-> TRUE, valid |-> TRUE, device |-> "d1",
   doc |-> [instances |-> instances]]

Good == W(<<I("site", TRUE, FALSE)>>)

\* What a bridge can start with, and each reason why it may not.
AllWorlds ==
  {Good,
   W(<<I("other", TRUE, FALSE), Tuned(I("site", TRUE, FALSE))>>),
   W(<<I("other", FALSE, FALSE), I("wan", TRUE, FALSE)>>),
   W(<<I("other", TRUE, FALSE), I("wan", TRUE, FALSE)>>),
   W(<<I("other", TRUE, FALSE), I("site", FALSE, FALSE)>>),
   W(<<I("site", TRUE, FALSE), I("other", FALSE, TRUE)>>),
   W(<<I("site", TRUE, FALSE), I(Absent, FALSE, FALSE)>>),
   W(Absent),
   [Good EXCEPT !.doc = Absent],
   [Good EXCEPT !.bus = FALSE],
   [Good EXCEPT !.transport = FALSE],
   [Good EXCEPT !.valid = FALSE]}

Moved == {<<"relay_uplinked", "evt">>, <<"relay_downlinked", "count">>}
Bound == <<"relay_uplinked", "evt">> :> 2 @@ <<"relay_downlinked", "count">> :> 1

=============================================================================
