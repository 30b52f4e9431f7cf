----------------------------- MODULE MCUplinkRelay -----------------------------
EXTENDS UplinkRelay

Default == [enabled |-> Class, capped |-> {"data"}, evtMax |-> 2]

\* The evt buffer on and off, a disabled class, a capped evt.
AllConfigs ==
  {Default, [Default EXCEPT !.evtMax = 0], [Default EXCEPT !.enabled = {"evt"}],
   [Default EXCEPT !.capped = {"evt"}, !.evtMax = 1]}

DefaultOnly == {Default}

CONSTANTS evtInstance, evtComponent, data

\* Three events on one pump: one replayed, one buffered, one live.
SafetyMsgs == (evtInstance :> 3) @@ (evtComponent :> 1) @@ (data :> 1)
LivenessMsgs == (evtInstance :> 2) @@ (evtComponent :> 1)
OnePumpMsgs == evtInstance :> 2

=============================================================================
