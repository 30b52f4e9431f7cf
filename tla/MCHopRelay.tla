------------------------------ MODULE MCHopRelay ------------------------------
EXTENDS HopRelay

E(id, device, maxHops, primary, site) ==
  [id |-> id, device |-> device, maxHops |-> maxHops, app |-> FALSE,
   primary |-> primary, site |-> site]

M(topic, bus, payload) == [topic |-> topic, bus |-> bus, payload |-> payload]

State1 == <<"ecv1", "d1", "plc", "state">>
Evt1 == <<"ecv1", "d1", "plc", "line", "evt", "alarm">>
Ping1 == <<"ecv1", "d1", "plc", "cmd", "ping">>

\* Three bridges in a ring, each with maxHops n.
Ring(n) ==
  [engines |-> {E("A", "d1", n, "x", "y"), E("B", "d2", n, "y", "z"), E("C", "d3", n, "z", "x")},
   foreign |-> {},
   messages |-> {M(State1, "x", <<>>), M(Evt1, "y", Junk)}]

\* Two bridges between the same buses, a third one back.
Diamond ==
  [engines |-> {E("A", "d1", 3, "x", "y"), E("B", "d2", 2, "x", "y"), E("C", "d3", 4, "y", "x")},
   foreign |-> {},
   messages |-> {M(Evt1, "x", <<>>)}]

\* Two tiers, the lower one with class app; commands for its device on every
\* bus, the reconnect broadcast of the upper one, foreign bytes.
Tiers ==
  LET A == [E("A", "d1", 2, "x", "y") EXCEPT !.app = TRUE]
      B == E("B", "d2", 1, "y", "z")
  IN  [engines |-> {A, B},
       foreign |-> {},
       messages |-> {M(Ping1, "y", <<>>), M(Ping1, "z", <<>>),
                     M(RehydrationTopics(B)[1], "y", <<>>),
                     M(<<"ecv1", "d1", "plc", "app", "note">>, "x", <<>>),
                     M(Evt1, "x", Garbled)}]

\* Commands and events whose channel is the name of another class.
Oddities ==
  [engines |-> {E("A", "d1", 2, "x", "y"), E("B", "d2", 0, "y", "z")},
   foreign |-> {},
   messages |-> {M(<<"ecv1", "d1", "plc", "cmd", "state">>, "x", <<>>),
                 M(<<"ecv1", "d1", "plc", "cmd", "state">>, "y", <<>>),
                 M(<<"ecv1", "d1", "plc", "evt", "cmd">>, "y", <<>>),
                 M(<<"ecv1", "d1", "plc", "line", "state">>, "x", <<>>)}]

\* A bridge, and a relay without the hop tag back to the device bus.
ForeignRing ==
  [engines |-> {E("A", "d1", 2, "x", "y"), E("B", "d2", 2, "y", "z")},
   foreign |-> {<<"z", "x">>},
   messages |-> {M(State1, "x", <<>>)}]

AllNets == {Ring(1), Ring(2), Ring(3), Diamond, Tiers, Oddities, ForeignRing}

\* An event whose channel is named like a class.
ClassNamedChannel ==
  {[engines |-> {E("A", "d1", 4, "x", "y"), E("B", "d2", 4, "y", "z")},
    foreign |-> {},
    messages |-> {M(<<"ecv1", "d1", "plc", "evt", "state">>, "x", <<>>), M(Evt1, "x", <<>>),
                  M(State1, "x", <<>>)}]}

=============================================================================
