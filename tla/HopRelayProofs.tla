---------------------------- MODULE HopRelayProofs ----------------------------
(***************************************************************************)
(* What the hop tag promises, for every network of bridges and foreign     *)
(* relays, every maxHops, every queue depth and every loss.                *)
(***************************************************************************)
EXTENDS HopRelay, SequenceTheorems, TLAPS

-----------------------------------------------------------------------------
(* Paths                                                                   *)

\* k is the place of the last foreign relay in a path, 0 if there is none.
LastForeign(path, k) ==
  /\ k \in 0 .. Len(path)
  /\ k /= 0 => path[k] = ForeignHop
  /\ \A i \in DOMAIN path : i > k => path[i] /= ForeignHop

LEMMA SegmentIs ==
  ASSUME NEW S, NEW path \in Seq(S), NEW k, LastForeign(path, k)
  PROVE  Segment(path) = SubSeq(path, k + 1, Len(path))
<1> DEFINE places == {0} \cup {i \in DOMAIN path : path[i] = ForeignHop}
<1>1. k \in places /\ \A i \in places : k >= i
  BY DEF LastForeign
<1>2. places \subseteq Int
  OBVIOUS
<1>3. Max(places) = k
  <2> HIDE DEF places
  <2>1. Max(places) \in places /\ \A i \in places : Max(places) >= i
    BY <1>1 DEF Max
  <2>2. Max(places) >= k /\ k >= Max(places) /\ Max(places) \in Int /\ k \in Int
    BY <1>1, <1>2, <2>1
  <2> QED  BY <2>2
<1> QED  BY <1>3 DEF Segment

\* A bridge lengthens the segment by its id, a foreign relay starts a new one.
LEMMA SegmentGrows ==
  ASSUME NEW S, NEW path \in Seq(S), NEW k, LastForeign(path, k),
         NEW id \in S, id /= ForeignHop
  PROVE  /\ LastForeign(Append(path, id), k)
         /\ Segment(Append(path, id)) = Append(Segment(path), id)
<1> DEFINE longer == Append(path, id)
<1>1. /\ longer \in Seq(S) /\ Len(longer) = Len(path) + 1 /\ Len(path) \in Nat
      /\ \A i \in 1 .. Len(path) : longer[i] = path[i]
      /\ longer[Len(path) + 1] = id
      /\ DOMAIN longer = 1 .. Len(path) + 1 /\ DOMAIN path = 1 .. Len(path)
  OBVIOUS
<1>2. k \in 0 .. Len(path)
  BY DEF LastForeign
<1>3. LastForeign(longer, k)
  <2> HIDE DEF longer
  <2>1. k \in 0 .. Len(longer)
    BY <1>1, <1>2
  <2>2. ASSUME k /= 0  PROVE longer[k] = ForeignHop
    BY <2>2, <1>1, <1>2 DEF LastForeign
  <2>3. ASSUME NEW i \in DOMAIN longer, i > k  PROVE longer[i] /= ForeignHop
    <3>1. CASE i \in 1 .. Len(path)
      BY <3>1, <2>3, <1>1 DEF LastForeign
    <3>2. CASE i = Len(path) + 1
      BY <3>2, <1>1
    <3> QED  BY <3>1, <3>2, <1>1
  <2> QED  BY <2>1, <2>2, <2>3 DEF LastForeign
<1>4. SubSeq(longer, k + 1, Len(path) + 1) = Append(SubSeq(path, k + 1, Len(path)), id)
  <2> DEFINE l == SubSeq(longer, k + 1, Len(path) + 1)
             q == SubSeq(path, k + 1, Len(path))
             m == Append(q, id)
  <2>1. /\ l \in Seq(S) /\ Len(l) = Len(path) + 1 - k
        /\ \A i \in 1 .. Len(path) + 1 - k : l[i] = longer[k + i]
    <3>1. \A i \in k + 1 .. Len(path) + 1 : longer[i] \in S
      BY <1>1, <1>2
    <3> HIDE DEF longer
    <3> QED  BY <3>1, <1>1, <1>2, SubSeqProperties
  <2>2. /\ q \in Seq(S) /\ Len(q) = Len(path) - k
        /\ \A i \in 1 .. Len(path) - k : q[i] = path[k + i]
    <3>1. \A i \in k + 1 .. Len(path) : path[i] \in S
      BY <1>1, <1>2
    <3>2. k \in Nat /\ k <= Len(path) /\ k + 1 \in Int /\ Len(path) \in Int
      BY <1>1, <1>2
    <3>3. /\ q \in Seq(S)
          /\ Len(q) = IF k + 1 <= Len(path) THEN Len(path) - (k + 1) + 1 ELSE 0
          /\ \A i \in 1 .. Len(path) - (k + 1) + 1 : q[i] = path[(k + 1) + i - 1]
      BY <3>1, <3>2, SubSeqProperties
    <3> HIDE DEF q
    <3>4. Len(q) = Len(path) - k
      BY <3>2, <3>3
    <3>5. ASSUME NEW i \in 1 .. Len(path) - k  PROVE q[i] = path[k + i]
      <4>1. i \in 1 .. Len(path) - (k + 1) + 1 /\ (k + 1) + i - 1 = k + i
        BY <3>2
      <4> QED  BY <4>1, <3>3
    <3> QED  BY <3>3, <3>4, <3>5
  <2> HIDE DEF longer, l, q
  <2>3. /\ m \in Seq(S) /\ Len(m) = Len(path) + 1 - k
        /\ \A i \in 1 .. Len(path) - k : m[i] = q[i]
        /\ m[Len(path) + 1 - k] = id
    BY <2>2, <1>1, <1>2
  <2> HIDE DEF m
  <2>4. ASSUME NEW i \in 1 .. Len(l)  PROVE l[i] = m[i]
    <3>1. CASE i \in 1 .. Len(path) - k
      <4>1. l[i] = longer[k + i] /\ m[i] = path[k + i] /\ k + i \in 1 .. Len(path)
        BY <3>1, <2>1, <2>2, <2>3, <1>1, <1>2
      <4> QED  BY <4>1, <1>1
    <3>2. CASE i = Len(path) + 1 - k
      <4>1. l[i] = longer[k + i] /\ k + i = Len(path) + 1
        BY <3>2, <2>1, <1>1, <1>2
      <4>2. l[i] = id
        BY <4>1, <1>1
      <4>3. m[i] = id
        BY <3>2, <2>3
      <4> QED  BY <4>2, <4>3
    <3>3. i \in 1 .. Len(path) + 1 - k
      BY <2>1
    <3>4. i \in 1 .. Len(path) - k \/ i = Len(path) + 1 - k
      BY <3>3, <1>1, <1>2
    <3> QED  BY <3>1, <3>2, <3>4
  <2>5. l = m
    BY <2>1, <2>3, <2>4, SeqEqual
  <2> QED  BY <2>5 DEF l, m, q
<1> QED  BY <1>1, <1>3, <1>4, SegmentIs

LEMMA SegmentStarts ==
  ASSUME NEW S, NEW path \in Seq(S), ForeignHop \in S
  PROVE  /\ LastForeign(Append(path, ForeignHop), Len(path) + 1)
         /\ Segment(Append(path, ForeignHop)) = <<>>
<1> DEFINE longer == Append(path, ForeignHop)
<1>1. /\ longer \in Seq(S) /\ Len(longer) = Len(path) + 1 /\ Len(path) \in Nat
      /\ longer[Len(path) + 1] = ForeignHop
      /\ DOMAIN longer = 1 .. Len(path) + 1
  OBVIOUS
<1>2. LastForeign(longer, Len(path) + 1)
  <2> HIDE DEF longer
  <2> QED  BY <1>1 DEF LastForeign
<1>3. SubSeq(longer, Len(path) + 2, Len(path) + 1) = <<>>
  BY <1>1
<1>4. Segment(longer) = SubSeq(longer, (Len(path) + 1) + 1, Len(longer))
  BY <1>1, <1>2, SegmentIs
<1>5. (Len(path) + 1) + 1 = Len(path) + 2
  BY <1>1
<1> QED  BY <1>1, <1>2, <1>3, <1>4, <1>5

-----------------------------------------------------------------------------
(* The tag tells the path                                                  *)

CopyOf(n) ==
  [message : n.messages, payload : Seq(Ids(n)) \cup {Junk, Garbled}, path : Seq(Ids(n))]

\* The tag is the segment; no bridge is twice in it, none beyond its maxHops.
Told(n, c) ==
  LET hops == HopsOf(c.payload)
  IN  /\ hops = Segment(c.path)
      /\ hops \in Seq(Ids(n))
      /\ IsInjective(hops)
      /\ \A i \in DOMAIN hops : \E e \in n.engines : e.id = hops[i] /\ i <= e.maxHops

\* The copies that may be under way in a network.
Sound(n) ==
  {c \in CopyOf(n) : /\ \E k \in 0 .. Len(c.path) : LastForeign(c.path, k)
                     /\ c.payload /= Garbled => Told(n, c)}

\* What every queue and every bus carries.
TagInv ==
  /\ net \in Nets
  /\ waiting \subseteq net.messages
  /\ DOMAIN inbox = PumpsOf(net)
  /\ \A p \in PumpsOf(net) : inbox[p] \in Seq(Sound(net)) /\ Len(inbox[p]) <= QueueDepth
  /\ lost \in BOOLEAN
  /\ \A a \in arrived : a.copy \in Sound(net)
  /\ doubled \subseteq arrived
  /\ \A r \in refused :
       /\ r.engine \in net.engines /\ r.copy \in Sound(net)
       /\ r.counter = "loop_dropped" =>
            /\ r.copy.payload /= Garbled
            /\ HopReason(r.engine, r.copy.payload) /= "none"

\* What a component publishes carries no hop.
LEMMA FreshIsSound ==
  ASSUME NEW n \in Nets, NEW m \in n.messages
  PROVE  [message |-> m, payload |-> m.payload, path |-> <<>>] \in Sound(n)
<1> DEFINE c == [message |-> m, payload |-> m.payload, path |-> <<>>]
<1>1. m.payload \in {<<>>, Junk, Garbled} /\ <<>> \in Seq(Ids(n))
  BY TagsAssumption
<1>2. c \in CopyOf(n)
  BY <1>1 DEF CopyOf
<1>3. LastForeign(<<>>, 0) /\ 0 \in 0 .. Len(<<>>)
  BY DEF LastForeign
<1>4. Segment(<<>>) = <<>>
  <2>1. Segment(<<>>) = SubSeq(<<>>, 0 + 1, Len(<<>>))
    BY <1>1, <1>3, SegmentIs
  <2> QED  BY <2>1
<1>5. ASSUME m.payload /= Garbled
      PROVE  Told(n, c)
  <2>1. HopsOf(m.payload) = <<>>
    BY <1>1, <1>5 DEF HopsOf
  <2>2. IsInjective(<<>>) /\ DOMAIN <<>> = {}
    BY DEF IsInjective
  <2>3. c.payload = m.payload /\ c.path = <<>>
    OBVIOUS
  <2> HIDE DEF c
  <2> QED  BY <2>1, <2>2, <2>3, <1>1, <1>4 DEF Told
<1> QED  BY <1>2, <1>3, <1>5 DEF Sound

\* A bridge that may relay a copy adds its id to the tag and the path alike.
LEMMA StampedIsSound ==
  ASSUME NEW n \in Nets, NEW c \in Sound(n), NEW e \in n.engines,
         c.payload /= Garbled, HopReason(e, c.payload) = "none"
  PROVE  Hopped(c, Stamped(e, c.payload), e.id) \in Sound(n)
<1> DEFINE hops == HopsOf(c.payload)
           d == Hopped(c, Stamped(e, c.payload), e.id)
<1>1. /\ c \in CopyOf(n) /\ Told(n, c)
      /\ e.id \in Ids(n) /\ e.id /= ForeignHop /\ Junk \notin Seq(Ids(n))
      /\ e.maxHops \in Nat
  BY TagsAssumption, NetsAssumption DEF Sound, Ids, Engine
<1>2. /\ hops = Segment(c.path) /\ hops \in Seq(Ids(n)) /\ IsInjective(hops)
      /\ \A i \in DOMAIN hops : \E f \in n.engines : f.id = hops[i] /\ i <= f.maxHops
  BY <1>1 DEF Told
<1>3. c.path \in Seq(Ids(n))
  BY <1>1 DEF CopyOf
<1>4. /\ d.payload = Append(hops, e.id) /\ d.path = Append(c.path, e.id)
      /\ d.message = c.message
      /\ d = [message |-> d.message, payload |-> d.payload, path |-> d.path]
  BY DEF Hopped, Stamped
<1> HIDE DEF d
<1>5. PICK k \in 0 .. Len(c.path) : LastForeign(c.path, k)
  BY DEF Sound
<1>6. LastForeign(d.path, k) /\ Segment(d.path) = Append(hops, e.id)
  BY <1>1, <1>2, <1>3, <1>4, <1>5, SegmentGrows
<1>7. ~ (e.id \in ToSet(hops)) /\ ~ (Len(hops) >= e.maxHops)
  BY DEF HopReason
<1> HIDE DEF hops
<1> DEFINE longer == Append(hops, e.id)
<1>8. /\ longer \in Seq(Ids(n)) /\ Len(longer) = Len(hops) + 1 /\ Len(hops) \in Nat
      /\ DOMAIN longer = DOMAIN hops \cup {Len(hops) + 1} /\ DOMAIN hops = 1 .. Len(hops)
      /\ \A i \in DOMAIN hops : longer[i] = hops[i]
      /\ longer[Len(hops) + 1] = e.id
  BY <1>1, <1>2
<1>9. d \in CopyOf(n)
  <2>1. d.path \in Seq(Ids(n))
    BY <1>1, <1>3, <1>4
  <2>2. c.message \in n.messages
    BY <1>1 DEF CopyOf
  <2> QED  BY <2>1, <2>2, <1>4, <1>8 DEF CopyOf
<1>10. HopsOf(d.payload) = longer
  BY <1>1, <1>4, <1>8 DEF HopsOf
<1> HIDE DEF longer
<1>11. \A i \in DOMAIN hops : hops[i] /= e.id
  BY <1>7 DEF ToSet
<1>12. IsInjective(longer)
  BY <1>2, <1>8, <1>11 DEF IsInjective
<1>13. \A i \in DOMAIN longer : \E f \in n.engines : f.id = longer[i] /\ i <= f.maxHops
  <2> TAKE i \in DOMAIN longer
  <2>1. CASE i \in DOMAIN hops
    BY <2>1, <1>2, <1>8
  <2>2. CASE i = Len(hops) + 1
    BY <2>2, <1>1, <1>7, <1>8
  <2> QED  BY <2>1, <2>2, <1>8
<1>14. Told(n, d)
  BY <1>4, <1>6, <1>8, <1>10, <1>12, <1>13 DEF Told, longer
<1>15. \E j \in 0 .. Len(d.path) : LastForeign(d.path, j)
  BY <1>6 DEF LastForeign
<1> QED  BY <1>9, <1>14, <1>15 DEF Sound, d

\* A foreign relay starts a segment of its own with a tag that is none.
LEMMA RetaggedIsSound ==
  ASSUME NEW n \in Nets, NEW c \in Sound(n)
  PROVE  Hopped(c, IF c.payload = Garbled THEN Garbled ELSE Junk, ForeignHop) \in Sound(n)
<1> DEFINE d == Hopped(c, IF c.payload = Garbled THEN Garbled ELSE Junk, ForeignHop)
<1>1. /\ c \in CopyOf(n) /\ ForeignHop \in Ids(n)
      /\ c.message \in n.messages /\ c.path \in Seq(Ids(n))
  BY DEF Sound, CopyOf, Ids
<1>2. /\ d.payload = (IF c.payload = Garbled THEN Garbled ELSE Junk)
      /\ d.path = Append(c.path, ForeignHop) /\ d.message = c.message
      /\ d = [message |-> d.message, payload |-> d.payload, path |-> d.path]
  BY DEF Hopped
<1> HIDE DEF d
<1>3. d.path \in Seq(Ids(n)) /\ d.payload \in {Junk, Garbled}
  BY <1>1, <1>2
<1>4. d \in CopyOf(n)
  BY <1>1, <1>2, <1>3 DEF CopyOf
<1>5. LastForeign(d.path, Len(c.path) + 1) /\ Segment(d.path) = <<>>
  BY <1>1, <1>2, SegmentStarts
<1>6. ASSUME d.payload /= Garbled
      PROVE  Told(n, d)
  <2>1. HopsOf(d.payload) = <<>>
    BY <1>3, <1>6 DEF HopsOf
  <2>2. IsInjective(<<>>) /\ <<>> \in Seq(Ids(n))
    BY DEF IsInjective
  <2> QED  BY <2>1, <2>2, <1>5 DEF Told
<1>7. \E j \in 0 .. Len(d.path) : LastForeign(d.path, j)
  BY <1>5 DEF LastForeign
<1> QED  BY <1>4, <1>6, <1>7 DEF Sound, d

-----------------------------------------------------------------------------
(* Steps                                                                   *)

\* A pump that is no foreign relay's is one of a bridge of the network.
LEMMA PumpEngine ==
  ASSUME NEW n, NEW p \in PumpsOf(n), ~ IsForeign(p)
  PROVE  p.engine \in n.engines
<1>1. p \notin ForeignPumps(n)
  <2> SUFFICES ASSUME p \in ForeignPumps(n)  PROVE FALSE
    OBVIOUS
  <2>1. PICK f \in n.foreign : p = [from |-> f[1], to |-> f[2]]
    BY DEF ForeignPumps
  <2>2. DOMAIN p = {"from", "to"}
    BY <2>1
  <2> QED  BY <2>2 DEF IsForeign
<1>2. PICK e \in n.engines : p \in BridgePumps(e)
  BY <1>1 DEF PumpsOf
<1>3. p.engine = e
  BY <1>2 DEF BridgePumps
<1> QED  BY <1>3

\* The part of TagInv about the queues, of any queues.
Queues(n, q) ==
  /\ DOMAIN q = PumpsOf(n)
  /\ \A p \in PumpsOf(n) : q[p] \in Seq(Sound(n)) /\ Len(q[p]) <= QueueDepth

LEMMA HeadSound ==
  ASSUME TagInv, NEW p \in DOMAIN inbox, inbox[p] /= <<>>
  PROVE  /\ Head(inbox[p]) \in Sound(net)
         /\ Queues(net, inbox) /\ Queues(net, Popped(p))
<1>1. Queues(net, inbox) /\ p \in PumpsOf(net)
  BY DEF TagInv, Queues
<1>2. inbox[p] \in Seq(Sound(net)) /\ Len(inbox[p]) <= QueueDepth
  BY <1>1 DEF Queues
<1>3. /\ Head(inbox[p]) \in Sound(net) /\ Tail(inbox[p]) \in Seq(Sound(net))
      /\ Len(Tail(inbox[p])) = Len(inbox[p]) - 1 /\ Len(inbox[p]) \in Nat
  BY <1>2, HeadTailProperties
<1>4. Len(Tail(inbox[p])) <= QueueDepth
  BY <1>2, <1>3, DepthAssumption
<1>5. Queues(net, Popped(p))
  <2>1. /\ DOMAIN Popped(p) = PumpsOf(net)
        /\ \A o \in PumpsOf(net) : Popped(p)[o] = IF o = p THEN Tail(inbox[p]) ELSE inbox[o]
    BY <1>1 DEF Popped, Queues
  <2> QED  BY <2>1, <1>1, <1>3, <1>4 DEF Queues
<1> QED  BY <1>1, <1>3, <1>5

LEMMA BroadcastSound ==
  ASSUME TagInv, NEW q, Queues(net, q), NEW bus, NEW copy \in Sound(net),
         Broadcast(q, bus, copy)
  PROVE  /\ Queues(net, inbox') /\ lost' \in BOOLEAN
         /\ \A a \in arrived' : a.copy \in Sound(net)
         /\ doubled' \subseteq arrived'
<1>1. inbox' = [p \in DOMAIN q |->
                  IF p \in Receivers(q, bus, copy) /\ Len(q[p]) < QueueDepth
                    THEN Append(q[p], copy) ELSE q[p]]
  BY DEF Broadcast
<1>2. Queues(net, inbox')
  <2>1. DOMAIN inbox' = PumpsOf(net)
    BY <1>1 DEF Queues
  <2>2. ASSUME NEW p \in PumpsOf(net)
        PROVE  inbox'[p] \in Seq(Sound(net)) /\ Len(inbox'[p]) <= QueueDepth
    <3>1. q[p] \in Seq(Sound(net)) /\ Len(q[p]) <= QueueDepth /\ p \in DOMAIN q
      BY DEF Queues
    <3>2. \/ inbox'[p] = q[p]
          \/ inbox'[p] = Append(q[p], copy) /\ Len(q[p]) < QueueDepth
      BY <1>1, <3>1
    <3>3. CASE inbox'[p] = q[p]
      BY <3>1, <3>3
    <3>4. CASE inbox'[p] = Append(q[p], copy) /\ Len(q[p]) < QueueDepth
      <4>1. /\ Append(q[p], copy) \in Seq(Sound(net))
            /\ Len(Append(q[p], copy)) = Len(q[p]) + 1 /\ Len(q[p]) \in Nat
        BY <3>1
      <4>2. Len(q[p]) + 1 <= QueueDepth
        BY <4>1, <3>4, DepthAssumption
      <4> QED  BY <4>1, <4>2, <3>4
    <3> QED  BY <3>2, <3>3, <3>4
  <2> QED  BY <2>1, <2>2 DEF Queues
<1>3. lost' \in BOOLEAN
  BY DEF Broadcast
<1>4. /\ arrived' = arrived \cup {[bus |-> bus, copy |-> copy]}
      /\ doubled' = doubled \cup (arrived \cap {[bus |-> bus, copy |-> copy]})
  BY DEF Broadcast, Record
<1>5. \A a \in arrived' : a.copy \in Sound(net)
  <2> TAKE a \in arrived'
  <2>1. CASE a \in arrived
    BY <2>1 DEF TagInv
  <2>2. CASE a = [bus |-> bus, copy |-> copy]
    BY <2>2
  <2> QED  BY <2>1, <2>2, <1>4
<1>6. doubled' \subseteq arrived'
  BY <1>4 DEF TagInv
<1> QED  BY <1>2, <1>3, <1>5, <1>6

\* Why decide() drops a copy for the loop guard.
LEMMA LoopReason ==
  ASSUME NEW e, NEW dir, NEW topic, NEW payload
  PROVE  /\ DropReason(e, dir, topic, payload) = "none"
              => payload /= Garbled /\ HopReason(e, payload) = "none"
         /\ CounterOf(DropReason(e, dir, topic, payload)) = "loop_dropped"
              => payload /= Garbled /\ HopReason(e, payload) /= "none"
<1>1. RoutingReason(e, dir, topic) \in {"NotUnsTopic", "ClassNotRelayed", "NotOwnDevice", "none"}
  BY DEF RoutingReason
<1>2. CASE RoutingReason(e, dir, topic) /= "none"
  <2>1. DropReason(e, dir, topic, payload) = RoutingReason(e, dir, topic)
    BY <1>2 DEF DropReason
  <2> QED  BY <2>1, <1>1, <1>2 DEF CounterOf
<1>3. CASE RoutingReason(e, dir, topic) = "none" /\ payload = Garbled
  <2>1. DropReason(e, dir, topic, payload) = "MalformedEnvelope"
    BY <1>3 DEF DropReason
  <2> QED  BY <2>1 DEF CounterOf
<1>4. CASE RoutingReason(e, dir, topic) = "none" /\ payload /= Garbled
  <2>1. DropReason(e, dir, topic, payload) = HopReason(e, payload)
    BY <1>4 DEF DropReason
  <2> QED  BY <2>1, <1>4 DEF CounterOf
<1> QED  BY <1>2, <1>3, <1>4

LEMMA InitTagged == Init => TagInv
<1> SUFFICES ASSUME Init  PROVE TagInv
  OBVIOUS
<1>1. \A p \in PumpsOf(net) : inbox[p] = <<>>
  BY DEF Init
<1>2. <<>> \in Seq(Sound(net)) /\ Len(<<>>) = 0 /\ 0 <= QueueDepth
  BY DepthAssumption
<1>3. \A p \in PumpsOf(net) : inbox[p] \in Seq(Sound(net)) /\ Len(inbox[p]) <= QueueDepth
  BY <1>1, <1>2
<1> QED  BY <1>3 DEF Init, TagInv

LEMMA StepTagged ==
  ASSUME TagInv, [Next]_vars
  PROVE  TagInv'
<1>1. net' = net
  BY DEF Next, vars, Originate, Pump, Forward, ForwardFails, Refuse, ForeignForward
<1>2. /\ net \in Nets /\ waiting \subseteq net.messages
      /\ DOMAIN inbox = PumpsOf(net) /\ Queues(net, inbox) /\ lost \in BOOLEAN
      /\ (\A a \in arrived : a.copy \in Sound(net)) /\ doubled \subseteq arrived
  BY DEF TagInv, Queues
<1> DEFINE Refusals(r) == /\ r.engine \in net.engines /\ r.copy \in Sound(net)
                          /\ r.counter = "loop_dropped" =>
                               /\ r.copy.payload /= Garbled
                               /\ HopReason(r.engine, r.copy.payload) /= "none"
<1>3. \A r \in refused : Refusals(r)
  BY DEF TagInv
<1> HIDE DEF Refusals
<1>4. ASSUME waiting' \subseteq net.messages, Queues(net, inbox'), lost' \in BOOLEAN,
             \A a \in arrived' : a.copy \in Sound(net), doubled' \subseteq arrived',
             \A r \in refused' : Refusals(r)
      PROVE  TagInv'
  BY <1>1, <1>2, <1>4 DEF TagInv, Queues, Refusals
<1>5. ASSUME NEW m \in waiting, Originate(m)
      PROVE  TagInv'
  <2> DEFINE c == [message |-> m, payload |-> m.payload, path |-> <<>>]
  <2>1. Broadcast(inbox, m.bus, c) /\ waiting' = waiting \ {m} /\ refused' = refused
    BY <1>5 DEF Originate
  <2>2. c \in Sound(net)
    BY <1>2, FreshIsSound
  <2> HIDE DEF c
  <2>3. /\ Queues(net, inbox') /\ lost' \in BOOLEAN
        /\ \A a \in arrived' : a.copy \in Sound(net)
        /\ doubled' \subseteq arrived'
    BY <2>1, <2>2, <1>2, BroadcastSound
  <2> QED  BY <2>1, <2>3, <1>2, <1>3, <1>4
<1>6. ASSUME NEW p \in DOMAIN inbox, Forward(p)
      PROVE  TagInv'
  <2> DEFINE c == Head(inbox[p])
             d == Hopped(c, Stamped(p.engine, c.payload), p.engine.id)
  <2>1. /\ ~ IsForeign(p) /\ inbox[p] /= <<>>
        /\ DropReason(p.engine, p.sub.dir, c.message.topic, c.payload) = "none"
        /\ Broadcast(Popped(p), p.to, d)
        /\ waiting' = waiting /\ refused' = refused
    BY <1>6 DEF Forward
  <2>2. c \in Sound(net) /\ Queues(net, Popped(p))
    BY <2>1, HeadSound
  <2>3. p.engine \in net.engines
    BY <2>1, <1>2, PumpEngine
  <2>4. c.payload /= Garbled /\ HopReason(p.engine, c.payload) = "none"
    BY <2>1, LoopReason
  <2>5. d \in Sound(net)
    BY <2>2, <2>3, <2>4, <1>2, StampedIsSound
  <2> HIDE DEF d
  <2>6. /\ Queues(net, inbox') /\ lost' \in BOOLEAN
        /\ \A a \in arrived' : a.copy \in Sound(net)
        /\ doubled' \subseteq arrived'
    BY <2>1, <2>2, <2>5, BroadcastSound
  <2> QED  BY <2>1, <2>6, <1>2, <1>3, <1>4
<1>7. ASSUME NEW p \in DOMAIN inbox, ForwardFails(p)
      PROVE  TagInv'
  <2>1. /\ inbox[p] /= <<>> /\ inbox' = Popped(p) /\ lost' = TRUE
        /\ UNCHANGED <<waiting, arrived, doubled, refused>>
    BY <1>7 DEF ForwardFails
  <2>2. Queues(net, inbox')
    BY <2>1, HeadSound
  <2>3. waiting' = waiting /\ arrived' = arrived /\ doubled' = doubled /\ refused' = refused
    BY <2>1
  <2>4. lost' \in BOOLEAN
    BY <2>1
  <2> QED  BY <2>2, <2>3, <2>4, <1>2, <1>3, <1>4
<1>8. ASSUME NEW p \in DOMAIN inbox, Refuse(p)
      PROVE  TagInv'
  <2> DEFINE c == Head(inbox[p])
             reason == DropReason(p.engine, p.sub.dir, c.message.topic, c.payload)
             refusal == [engine |-> p.engine, copy |-> c, counter |-> CounterOf(reason)]
  <2>1. /\ ~ IsForeign(p) /\ inbox[p] /= <<>> /\ inbox' = Popped(p)
        /\ refused' = refused \cup {refusal}
        /\ UNCHANGED <<waiting, lost, arrived, doubled>>
    BY <1>8 DEF Refuse
  <2>2. c \in Sound(net) /\ Queues(net, inbox')
    BY <2>1, HeadSound
  <2>3. p.engine \in net.engines
    BY <2>1, <1>2, PumpEngine
  <2>4. CounterOf(reason) = "loop_dropped"
          => c.payload /= Garbled /\ HopReason(p.engine, c.payload) /= "none"
    BY LoopReason
  <2>5. refusal.engine = p.engine /\ refusal.copy = c /\ refusal.counter = CounterOf(reason)
    OBVIOUS
  <2> HIDE DEF c, reason, refusal
  <2>6. Refusals(refusal)
    BY <2>2, <2>3, <2>4, <2>5 DEF Refusals
  <2>7. \A r \in refused' : Refusals(r)
    BY <2>1, <2>6, <1>3
  <2>8. waiting' = waiting /\ lost' = lost /\ arrived' = arrived /\ doubled' = doubled
    BY <2>1
  <2> QED  BY <2>2, <2>7, <2>8, <1>2, <1>4
<1>9. ASSUME NEW p \in DOMAIN inbox, ForeignForward(p)
      PROVE  TagInv'
  <2> DEFINE c == Head(inbox[p])
             d == Hopped(c, IF c.payload = Garbled THEN Garbled ELSE Junk, ForeignHop)
  <2>1. inbox[p] /= <<>> /\ waiting' = waiting /\ refused' = refused
    BY <1>9 DEF ForeignForward
  <2>2. c \in Sound(net) /\ Queues(net, Popped(p))
    BY <2>1, HeadSound
  <2>3. CASE Broadcast(Popped(p), p.to, d)
    <3>1. d \in Sound(net)
      BY <2>2, <1>2, RetaggedIsSound
    <3> HIDE DEF d
    <3>2. /\ Queues(net, inbox') /\ lost' \in BOOLEAN
          /\ \A a \in arrived' : a.copy \in Sound(net)
          /\ doubled' \subseteq arrived'
      BY <2>2, <2>3, <3>1, BroadcastSound
    <3> QED  BY <2>1, <3>2, <1>2, <1>3, <1>4
  <2>4. CASE inbox' = Popped(p) /\ UNCHANGED <<lost, arrived, doubled>>
    <3>1. lost' = lost /\ arrived' = arrived /\ doubled' = doubled /\ Queues(net, inbox')
      BY <2>2, <2>4
    <3> QED  BY <2>1, <3>1, <1>2, <1>3, <1>4
  <2> QED  BY <2>3, <2>4, <1>9 DEF ForeignForward
<1>10. CASE UNCHANGED vars
  <2>1. /\ waiting' = waiting /\ inbox' = inbox /\ lost' = lost /\ arrived' = arrived
        /\ doubled' = doubled /\ refused' = refused
    BY <1>10 DEF vars
  <2> QED  BY <2>1, <1>2, <1>3, <1>4
<1> QED  BY <1>5, <1>6, <1>7, <1>8, <1>9, <1>10 DEF Next, Pump

-----------------------------------------------------------------------------
(* Theorems                                                                *)

\* Whatever is under way in a network, the hop tag is sound; the queues keep
\* to their depth.
THEOREM TagsAreSound == Spec => []TagInv
<1> QED  BY InitTagged, StepTagged, PTL DEF Spec

LEMMA TagInvTypes == TagInv => TypeOK
<1> SUFFICES ASSUME TagInv  PROVE TypeOK
  OBVIOUS
<1>1. Sound(net) \subseteq Copy
  BY DEF Sound, CopyOf, Copy
<1>2. \A p \in DOMAIN inbox : inbox[p] \in Seq(Copy) /\ Len(inbox[p]) <= QueueDepth
  <2> TAKE p \in DOMAIN inbox
  <2>1. inbox[p] \in Seq(Sound(net)) /\ Len(inbox[p]) <= QueueDepth
    BY DEF TagInv
  <2>2. inbox[p] \in [1 .. Len(inbox[p]) -> Copy] /\ Len(inbox[p]) \in Nat
    BY <2>1, <1>1
  <2> QED  BY <2>1, <2>2, SeqDef
<1>3. /\ \A a \in arrived : a.copy \in Copy
      /\ \A r \in refused : r.engine \in net.engines /\ r.copy \in Copy
  BY <1>1 DEF TagInv
<1> QED  BY <1>2, <1>3 DEF TagInv, TypeOK

\* Every variable has its type and each queue keeps to its depth.
THEOREM TypesHold == Spec => []TypeOK
<1> QED  BY TagsAreSound, TagInvTypes, PTL

LEMMA TagInvTellsPath == TagInv => HopTagTellsPath
<1> SUFFICES ASSUME TagInv, NEW a \in arrived, a.copy.payload /= Garbled
             PROVE  LET hops == Segment(a.copy.path)
                    IN  /\ HopsOf(a.copy.payload) = hops
                        /\ IsInjective(hops)
                        /\ \A i \in DOMAIN hops : i <= EngineOf(hops[i]).maxHops
  BY DEF HopTagTellsPath
<1> DEFINE hops == Segment(a.copy.path)
<1>1. a.copy \in Sound(net) /\ net \in Nets
  BY DEF TagInv
<1>2. Told(net, a.copy)
  BY <1>1 DEF Sound
<1>3. /\ HopsOf(a.copy.payload) = hops /\ IsInjective(hops)
      /\ \A i \in DOMAIN hops : \E e \in net.engines : e.id = hops[i] /\ i <= e.maxHops
  BY <1>2 DEF Told
<1> HIDE DEF hops
<1>4. ASSUME NEW i \in DOMAIN hops
      PROVE  i <= EngineOf(hops[i]).maxHops
  <2>1. PICK e \in net.engines : e.id = hops[i] /\ i <= e.maxHops
    BY <1>3
  <2>2. EngineOf(hops[i]) \in net.engines /\ EngineOf(hops[i]).id = hops[i]
    BY <2>1 DEF EngineOf
  <2>3. EngineOf(hops[i]) = e
    BY <2>1, <2>2, <1>1, NetsAssumption
  <2> QED  BY <2>1, <2>3
<1> QED  BY <1>3, <1>4 DEF hops

\* The hop tag tells the path of every copy: no bridge relays one twice, or
\* past its maxHops, so no ring of bridges relays for ever.
THEOREM TagTellsPath == Spec => []HopTagTellsPath
<1> QED  BY TagsAreSound, TagInvTellsPath, PTL

LEMMA TagInvLoops == TagInv => LoopDropsAreLoops
<1> SUFFICES ASSUME TagInv, NEW r \in refused, r.counter = "loop_dropped"
             PROVE  LET hops == Segment(r.copy.path)
                    IN  /\ r.copy.payload /= Garbled
                        /\ r.engine.id \in ToSet(hops) \/ Len(hops) >= r.engine.maxHops
  BY DEF LoopDropsAreLoops
<1>1. /\ r.copy \in Sound(net) /\ r.copy.payload /= Garbled
      /\ HopReason(r.engine, r.copy.payload) /= "none"
  BY DEF TagInv
<1>2. HopsOf(r.copy.payload) = Segment(r.copy.path)
  BY <1>1 DEF Sound, Told
<1> QED  BY <1>1, <1>2 DEF HopReason

\* The loop guard drops only what loops or has used up its hops.
THEOREM LoopDropsJust == Spec => []LoopDropsAreLoops
<1> QED  BY TagsAreSound, TagInvLoops, PTL

-----------------------------------------------------------------------------
(* Commands                                                                *)

\* A bridge forwards a command down only, and its own device's only.
LEMMA ForwardedCommand ==
  ASSUME NEW e, NEW dir, NEW topic, IsCommand(topic),
         RoutingReason(e, dir, topic) = "none"
  PROVE  dir /= "up" /\ (dir = "down" => topic[2] = e.device)
<1>1. "cmd" \in Class
  BY DEF Class
<1>2. TopicClass(topic) = "cmd"
  BY <1>1 DEF IsCommand, TopicClass, ClassPosition
<1>3. "cmd" \notin RelayedUp(e)
  <2>1. ClassesUp(e) = UplinkClasses \/ ClassesUp(e) = UplinkClasses \o <<"app">>
    <3>1. UplinkClasses \o <<>> = UplinkClasses
      <4>1. UplinkClasses \in Seq(Class)
        BY DEF UplinkClasses, Class
      <4> QED  BY <4>1, ConcatEmptySeq
    <3> QED  BY <3>1 DEF ClassesUp
  <2>2. \A i \in DOMAIN ClassesUp(e) : ClassesUp(e)[i] /= "cmd"
    BY <2>1 DEF UplinkClasses
  <2> QED  BY <2>2 DEF RelayedUp, ToSet
<1>4. IsUns(topic)
  BY DEF RoutingReason
<1>5. dir /= "up"
  BY <1>2, <1>3, <1>4 DEF RoutingReason
<1>6. dir = "down" => topic[2] = e.device
  BY <1>2, <1>4 DEF RoutingReason
<1> QED  BY <1>5, <1>6

\* A bridge's pump goes up from its device bus or down to it.
LEMMA PumpEnds ==
  ASSUME NEW e, NEW p \in BridgePumps(e)
  PROVE  /\ ~ IsForeign(p) /\ p.engine = e
         /\ p.sub.dir = "up" \/ (p.sub.dir = "down" /\ p.to = e.primary)
<1>1. CASE \E s \in ToSet(UplinkSubscriptions(e)) :
             p = [engine |-> e, sub |-> s, from |-> e.primary, to |-> e.site]
  <2>1. PICK i \in DOMAIN UplinkSubscriptions(e) :
          p = [engine |-> e, sub |-> UplinkSubscriptions(e)[i], from |-> e.primary, to |-> e.site]
    BY <1>1 DEF ToSet
  <2>2. UplinkSubscriptions(e)[i].dir = "up"
    BY DEF UplinkSubscriptions, Uplink
  <2>3. "engine" \in DOMAIN p
    BY <2>1
  <2> QED  BY <2>1, <2>2, <2>3 DEF IsForeign
<1>2. CASE \E s \in ToSet(DownlinkSubscriptions(e)) :
             p = [engine |-> e, sub |-> s, from |-> e.site, to |-> e.primary]
  <2>1. PICK i \in DOMAIN DownlinkSubscriptions(e) :
          p = [engine |-> e, sub |-> DownlinkSubscriptions(e)[i], from |-> e.site, to |-> e.primary]
    BY <1>2 DEF ToSet
  <2>2. DownlinkSubscriptions(e)[i].dir = "down"
    BY DEF DownlinkSubscriptions, Downlink
  <2>3. "engine" \in DOMAIN p
    BY <2>1
  <2> QED  BY <2>1, <2>2, <2>3 DEF IsForeign
<1> QED  BY <1>1, <1>2 DEF BridgePumps

\* The property, of one arrival.
IsHome(n, a) ==
  IsCommand(a.copy.message.topic) /\ a.copy.path /= <<>> =>
    \E e \in n.engines : e.device = a.copy.message.topic[2] /\ e.primary = a.bus

LEMMA CommandStep ==
  ASSUME TagInv, CommandsGoHome, [Next]_vars
  PROVE  CommandsGoHome'
<1>1. net' = net
  BY DEF Next, vars, Originate, Pump, Forward, ForwardFails, Refuse, ForeignForward
<1> SUFFICES ASSUME net.foreign = {}, NEW a \in arrived'  PROVE IsHome(net, a)
  BY <1>1 DEF CommandsGoHome, IsHome
<1>2. CASE a \in arrived
  BY <1>2 DEF CommandsGoHome, IsHome
<1>3. ASSUME NEW m \in waiting, Originate(m), a \notin arrived
      PROVE  IsHome(net, a)
  <2>1. a = [bus |-> m.bus, copy |-> [message |-> m, payload |-> m.payload, path |-> <<>>]]
    BY <1>3 DEF Originate, Broadcast, Record
  <2> QED  BY <2>1 DEF IsHome
<1>4. ASSUME NEW p \in DOMAIN inbox, Forward(p), a \notin arrived
      PROVE  IsHome(net, a)
  <2> DEFINE c == Head(inbox[p])
             d == Hopped(c, Stamped(p.engine, c.payload), p.engine.id)
  <2>1. a = [bus |-> p.to, copy |-> d] /\ ~ IsForeign(p)
    BY <1>4 DEF Forward, Broadcast, Record
  <2>2. a.bus = p.to /\ a.copy.message = c.message
    BY <2>1 DEF Hopped
  <2>3. PICK e \in net.engines : p \in BridgePumps(e)
    <3>1. p \in PumpsOf(net) /\ ForeignPumps(net) = {}
      BY DEF TagInv, ForeignPumps
    <3> QED  BY <3>1 DEF PumpsOf
  <2>4. RoutingReason(p.engine, p.sub.dir, c.message.topic) = "none"
    BY <1>4 DEF Forward, DropReason
  <2>5. ASSUME IsCommand(c.message.topic)
        PROVE  e.device = c.message.topic[2] /\ e.primary = p.to
    BY <2>3, <2>4, <2>5, PumpEnds, ForwardedCommand
  <2> HIDE DEF c
  <2> QED  BY <2>2, <2>3, <2>5 DEF IsHome
<1>5. ASSUME NEW p \in DOMAIN inbox, ForeignForward(p)
      PROVE  FALSE
  <2>1. p \in PumpsOf(net) /\ ForeignPumps(net) = {}
    BY DEF TagInv, ForeignPumps
  <2>2. PICK e \in net.engines : p \in BridgePumps(e)
    BY <2>1 DEF PumpsOf
  <2> QED  BY <1>5, <2>2, PumpEnds DEF ForeignForward
<1>6. ASSUME NEW p \in DOMAIN inbox, ForwardFails(p) \/ Refuse(p)
      PROVE  arrived' = arrived
  BY <1>6 DEF ForwardFails, Refuse
<1>7. ASSUME UNCHANGED vars
      PROVE  arrived' = arrived
  BY <1>7 DEF vars
<1> QED  BY <1>2, <1>3, <1>4, <1>5, <1>6, <1>7 DEF Next, Pump

\* Where bridges alone carry a command, it is on the bus where it was
\* published or on the device bus of the device that it is addressed to.
THEOREM CommandsStayHome == Spec => []CommandsGoHome
<1>1. Init => CommandsGoHome
  BY DEF Init, CommandsGoHome
<1>2. TagInv /\ CommandsGoHome /\ [Next]_vars => CommandsGoHome'
  BY CommandStep
<1> QED  BY <1>1, <1>2, TagsAreSound, PTL DEF Spec

-----------------------------------------------------------------------------
(* One copy per path                                                       *)

\* The class is the last level of a filter.
LEMMA LastLevel ==
  ASSUME NEW S, NEW s \in Seq(S), NEW c
  PROVE  /\ Len(s \o <<c>>) = Len(s) + 1 /\ Len(s) + 1 \in DOMAIN (s \o <<c>>)
         /\ (s \o <<c>>)[Len(s) + 1] = c
<1>1. s \in Seq(S \cup {c}) /\ <<c>> \in Seq(S \cup {c}) /\ Len(<<c>>) = 1 /\ <<c>>[1] = c
  OBVIOUS
<1>2. Len(s) \in Nat
  OBVIOUS
<1>3. /\ s \o <<c>> \in Seq(S \cup {c}) /\ Len(s \o <<c>>) = Len(s) + Len(<<c>>)
      /\ \A i \in 1 .. Len(s) + Len(<<c>>) :
           (s \o <<c>>)[i] = IF i <= Len(s) THEN s[i] ELSE <<c>>[i - Len(s)]
  BY <1>1, ConcatProperties
<1>4. Len(s) + 1 \in 1 .. Len(s) + Len(<<c>>) /\ ~ (Len(s) + 1 <= Len(s)) /\ (Len(s) + 1) - Len(s) = 1
  BY <1>1, <1>2
<1>5. (s \o <<c>>)[Len(s) + 1] = <<c>>[1]
  BY <1>3, <1>4
<1>6. DOMAIN (s \o <<c>>) = 1 .. Len(s \o <<c>>)
  BY <1>3
<1> QED  BY <1>1, <1>3, <1>4, <1>5, <1>6

\* A filter that matches finds its class where its scope has it.
LEMMA FilterFinds ==
  ASSUME NEW c, NEW device, NEW topic, c /= "+"
  PROVE  /\ Matches(Filter(c, device, TRUE), topic) => Len(topic) >= 5 /\ topic[5] = c
         /\ Matches(Filter(c, device, FALSE), topic) => topic[4] = c
<1> DEFINE head == <<Root, device, "+">>
           wide == head \o <<"+">>
<1>1. head \in Seq({Root, device, "+"}) /\ Len(head) = 3
  OBVIOUS
<1>2. wide \in Seq({Root, device, "+"}) /\ Len(wide) = 4
  <2>1. <<"+">> \in Seq({Root, device, "+"})
    OBVIOUS
  <2>2. wide \in Seq({Root, device, "+"})
    BY <1>1, <2>1, ConcatProperties
  <2>3. Len(wide) = Len(head) + 1
    BY <1>1, LastLevel
  <2> QED  BY <1>1, <2>2, <2>3
<1>3. /\ Filter(c, device, TRUE).levels = wide \o <<c>>
      /\ Filter(c, device, FALSE).levels = head \o <<c>>
  <2>1. head \o <<>> = head
    BY <1>1, ConcatEmptySeq
  <2>2. /\ Filter(c, device, TRUE).levels = wide \o <<c>>
        /\ Filter(c, device, FALSE).levels = (head \o <<>>) \o <<c>>
    BY DEF Filter
  <2> QED  BY <2>1, <2>2
<1> HIDE DEF head, wide
<1>4. ASSUME NEW f, Matches(f, topic), NEW k \in DOMAIN f.levels, f.levels[k] = c
      PROVE  topic[k] = c
  BY <1>4 DEF Matches
<1>5. ASSUME NEW f, Matches(f, topic), Len(f.levels) = 5
      PROVE  Len(topic) >= 5
  <2>1. Len(topic) >= Len(f.levels) \/ Len(topic) = Len(f.levels)
    BY <1>5 DEF Matches
  <2>2. Len(topic) >= 5 \/ Len(topic) = 5
    BY <2>1, <1>5
  <2> QED  BY <2>2
<1>6. Len(wide \o <<c>>) = 5 /\ 5 \in DOMAIN (wide \o <<c>>) /\ (wide \o <<c>>)[5] = c
  <2>1. /\ Len(wide \o <<c>>) = Len(wide) + 1 /\ Len(wide) + 1 \in DOMAIN (wide \o <<c>>)
        /\ (wide \o <<c>>)[Len(wide) + 1] = c
    BY <1>2, LastLevel
  <2>2. Len(wide) + 1 = 5
    BY <1>2
  <2> QED  BY <2>1, <2>2
<1>7. 4 \in DOMAIN (head \o <<c>>) /\ (head \o <<c>>)[4] = c
  <2>1. /\ Len(head \o <<c>>) = Len(head) + 1 /\ Len(head) + 1 \in DOMAIN (head \o <<c>>)
        /\ (head \o <<c>>)[Len(head) + 1] = c
    BY <1>1, LastLevel
  <2>2. Len(head) + 1 = 4
    BY <1>1
  <2> QED  BY <2>1, <2>2
<1> QED  BY <1>3, <1>4, <1>5, <1>6, <1>7

\* A bridge subscribes up for classes other than "cmd", at two scopes.
LEMMA UplinkShape ==
  ASSUME NEW e, NEW s \in ToSet(UplinkSubscriptions(e))
  PROVE  \E c \in Class \ {"cmd"} : s = Uplink(c, TRUE) \/ s = Uplink(c, FALSE)
<1> DEFINE list == ClassesUp(e)
<1>1. /\ list \in Seq(Class \ {"cmd"})
  <2>1. UplinkClasses \in Seq(Class \ {"cmd"})
    <3>1. {"state", "cfg", "evt", "metric", "data", "log"} \subseteq Class \ {"cmd"}
      BY DEF Class
    <3>2. UplinkClasses \in Seq({"state", "cfg", "evt", "metric", "data", "log"})
      BY DEF UplinkClasses
    <3> QED  BY <3>1, <3>2
  <2>2. <<"app">> \in Seq(Class \ {"cmd"}) /\ <<>> \in Seq(Class \ {"cmd"})
    <3>1. "app" \in Class \ {"cmd"}
      BY DEF Class
    <3> QED  BY <3>1
  <2>3. (IF e.app THEN <<"app">> ELSE <<>>) \in Seq(Class \ {"cmd"})
    BY <2>2
  <2> QED  BY <2>1, <2>3, ConcatProperties DEF ClassesUp
<1> HIDE DEF list
<1>2. PICK i \in 1 .. 2 * Len(list) : s = Uplink(list[(i + 1) \div 2], i % 2 = 1)
  <2>1. PICK i \in DOMAIN UplinkSubscriptions(e) : s = UplinkSubscriptions(e)[i]
    BY DEF ToSet
  <2>2. /\ i \in 1 .. 2 * Len(ClassesUp(e))
        /\ s = Uplink(ClassesUp(e)[(i + 1) \div 2], i % 2 = 1)
    BY <2>1 DEF UplinkSubscriptions
  <2> QED  BY <2>2 DEF list
<1> DEFINE half == (i + 1) \div 2
           c == list[half]
<1>3. half \in 1 .. Len(list)
  <2>1. Len(list) \in Nat
    BY <1>1
  <2> QED  BY <2>1
<1>4. c \in Class \ {"cmd"}
  BY <1>1, <1>3
<1>5. (i % 2 = 1) = TRUE \/ (i % 2 = 1) = FALSE
  OBVIOUS
<1>6. s = Uplink(c, i % 2 = 1)
  BY <1>2
<1> HIDE DEF c
<1>7. s = Uplink(c, TRUE) \/ s = Uplink(c, FALSE)
  BY <1>5, <1>6
<1> QED  BY <1>4, <1>7

\* The scope at which a subscription of a bridge finds the class c in a topic.
Finds(s, c, topic) ==
  \/ s = Uplink(c, TRUE)  /\ Len(topic) >= 5 /\ topic[5] = c
  \/ s = Uplink(c, FALSE) /\ topic[4] = c

LEMMA UplinkFinds ==
  ASSUME NEW e, NEW s \in ToSet(UplinkSubscriptions(e)), NEW topic, Matches(s.filter, topic)
  PROVE  \E c \in Class \ {"cmd"} : Finds(s, c, topic)
<1>1. PICK c \in Class \ {"cmd"} : s = Uplink(c, TRUE) \/ s = Uplink(c, FALSE)
  BY UplinkShape
<1>2. c /= "+"
  BY DEF Class
<1>3. CASE s = Uplink(c, TRUE)
  <2>1. s.filter = Filter(c, "+", TRUE)
    BY <1>3 DEF Uplink
  <2>2. Matches(Filter(c, "+", TRUE), topic)
    BY <2>1
  <2>3. Len(topic) >= 5 /\ topic[5] = c
    BY <2>2, <1>2, FilterFinds
  <2> QED  BY <1>3, <2>3 DEF Finds
<1>4. CASE s = Uplink(c, FALSE)
  <2>1. s.filter = Filter(c, "+", FALSE)
    BY <1>4 DEF Uplink
  <2>2. Matches(Filter(c, "+", FALSE), topic)
    BY <2>1
  <2>3. topic[4] = c
    BY <2>2, <1>2, FilterFinds
  <2> QED  BY <1>4, <2>3 DEF Finds
<1> QED  BY <1>1, <1>3, <1>4

\* At most one subscription of a bridge and a direction takes a topic whose
\* class and channel are not both classes.
LEMMA OneUplink ==
  ASSUME NEW e, NEW topic, ~ Overlapping(topic),
         NEW s \in ToSet(UplinkSubscriptions(e)), Matches(s.filter, topic),
         NEW t \in ToSet(UplinkSubscriptions(e)), Matches(t.filter, topic)
  PROVE  s = t
<1>1. PICK c \in Class \ {"cmd"} : Finds(s, c, topic)
  BY UplinkFinds
<1>2. PICK d \in Class \ {"cmd"} : Finds(t, d, topic)
  BY UplinkFinds
<1>3. ~ (/\ Len(topic) >= 5
         /\ topic[4] \in Class \ {"cmd"} /\ topic[5] \in Class \ {"cmd"})
  BY DEF Overlapping
<1> QED  BY <1>1, <1>2, <1>3 DEF Finds

LEMMA OneDownlink ==
  ASSUME NEW e, NEW topic, ~ Overlapping(topic),
         NEW s \in ToSet(DownlinkSubscriptions(e)), Matches(s.filter, topic),
         NEW t \in ToSet(DownlinkSubscriptions(e)), Matches(t.filter, topic)
  PROVE  s = t
<1>1. \A u \in ToSet(DownlinkSubscriptions(e)) : u = Downlink(e, TRUE) \/ u = Downlink(e, FALSE)
  <2> TAKE u \in ToSet(DownlinkSubscriptions(e))
  <2>1. PICK i \in DOMAIN DownlinkSubscriptions(e) : u = DownlinkSubscriptions(e)[i]
    BY DEF ToSet
  <2>2. /\ DOMAIN DownlinkSubscriptions(e) = 1 .. 2
        /\ DownlinkSubscriptions(e)[1] = Downlink(e, TRUE)
        /\ DownlinkSubscriptions(e)[2] = Downlink(e, FALSE)
    BY DEF DownlinkSubscriptions
  <2>3. i = 1 \/ i = 2
    BY <2>1, <2>2
  <2> QED  BY <2>1, <2>2, <2>3
<1>2. /\ Downlink(e, TRUE).filter = Filter("cmd", e.device, TRUE)
      /\ Downlink(e, FALSE).filter = Filter("cmd", e.device, FALSE)
  BY DEF Downlink
<1>3. /\ Matches(Downlink(e, TRUE).filter, topic) => Len(topic) >= 5 /\ topic[5] = "cmd"
      /\ Matches(Downlink(e, FALSE).filter, topic) => topic[4] = "cmd"
  <2>1. "cmd" /= "+"
    OBVIOUS
  <2>2. /\ Matches(Filter("cmd", e.device, TRUE), topic) => Len(topic) >= 5 /\ topic[5] = "cmd"
        /\ Matches(Filter("cmd", e.device, FALSE), topic) => topic[4] = "cmd"
    BY <2>1, FilterFinds
  <2> QED  BY <1>2, <2>2
<1>4. ~ (Len(topic) >= 5 /\ topic[4] = "cmd" /\ topic[5] = "cmd")
  <2>1. "cmd" \in Class
    BY DEF Class
  <2> QED  BY <2>1 DEF Overlapping
<1> QED  BY <1>1, <1>3, <1>4

\* A bridge's pump reads and writes as its direction says.
Upward(p, e) ==
  /\ p.from = e.primary /\ p.to = e.site /\ p.sub \in ToSet(UplinkSubscriptions(e))
  /\ p = [engine |-> e, sub |-> p.sub, from |-> p.from, to |-> p.to]
Downward(p, e) ==
  /\ p.from = e.site /\ p.to = e.primary /\ p.sub \in ToSet(DownlinkSubscriptions(e))
  /\ p = [engine |-> e, sub |-> p.sub, from |-> p.from, to |-> p.to]

LEMMA BridgePump ==
  ASSUME NEW n, NEW p \in PumpsOf(n), ~ IsForeign(p)
  PROVE  p.engine \in n.engines /\ (Upward(p, p.engine) \/ Downward(p, p.engine))
<1>1. p \notin ForeignPumps(n)
  <2> SUFFICES ASSUME p \in ForeignPumps(n)  PROVE FALSE
    OBVIOUS
  <2>1. PICK f \in n.foreign : p = [from |-> f[1], to |-> f[2]]
    BY DEF ForeignPumps
  <2>2. DOMAIN p = {"from", "to"}
    BY <2>1
  <2> QED  BY <2>2 DEF IsForeign
<1>2. PICK e \in n.engines : p \in BridgePumps(e)
  BY <1>1 DEF PumpsOf
<1>3. CASE \E s \in ToSet(UplinkSubscriptions(e)) :
             p = [engine |-> e, sub |-> s, from |-> e.primary, to |-> e.site]
  BY <1>3 DEF Upward
<1>4. CASE \E s \in ToSet(DownlinkSubscriptions(e)) :
             p = [engine |-> e, sub |-> s, from |-> e.site, to |-> e.primary]
  BY <1>4 DEF Downward
<1> QED  BY <1>2, <1>3, <1>4 DEF BridgePumps

LEMMA ForeignPump ==
  ASSUME NEW n, NEW p \in PumpsOf(n), IsForeign(p)
  PROVE  \E f \in n.foreign : p = [from |-> f[1], to |-> f[2]]
<1>1. \A e \in n.engines : p \notin BridgePumps(e)
  BY PumpEnds
<1>2. p \in ForeignPumps(n)
  BY <1>1 DEF PumpsOf
<1> QED  BY <1>2 DEF ForeignPumps

\* A bus and a mark tell the pump that takes a message.
LEMMA PumpIsOne ==
  ASSUME NEW n \in Nets, SingleRoutes(n), NEW m \in n.messages,
         NEW p \in PumpsOf(n), Takes(p, m.topic),
         NEW r \in PumpsOf(n), Takes(r, m.topic),
         p.from = r.from, MarkOf(p) = MarkOf(r)
  PROVE  p = r
<1>1. /\ ~ Overlapping(m.topic)
      /\ \A f, g \in n.foreign : f[1] = g[1] => f = g
  BY DEF SingleRoutes
<1>2. CASE IsForeign(p) /\ IsForeign(r)
  <2>1. PICK f \in n.foreign : p = [from |-> f[1], to |-> f[2]]
    BY <1>2, ForeignPump
  <2>2. PICK g \in n.foreign : r = [from |-> g[1], to |-> g[2]]
    BY <1>2, ForeignPump
  <2>3. f[1] = g[1]
    BY <2>1, <2>2
  <2>4. f = g
    BY <2>3, <1>1
  <2> QED  BY <2>1, <2>2, <2>4
<1>3. CASE ~ IsForeign(p) /\ ~ IsForeign(r)
  <2> DEFINE e == p.engine
  <2>1. p.engine \in n.engines /\ r.engine \in n.engines /\ p.engine.id = r.engine.id
    BY <1>3, BridgePump DEF MarkOf
  <2>2. r.engine = e /\ e.primary /= e.site
    BY <2>1, NetsAssumption
  <2>3. (Upward(p, e) \/ Downward(p, e)) /\ (Upward(r, e) \/ Downward(r, e))
    BY <1>3, <2>2, BridgePump
  <2>4. Matches(p.sub.filter, m.topic) /\ Matches(r.sub.filter, m.topic)
    BY <1>3 DEF Takes
  <2> HIDE DEF e
  <2>5. CASE Upward(p, e) /\ Upward(r, e)
    <3>1. p.sub = r.sub
      BY <2>4, <2>5, <1>1, OneUplink DEF Upward
    <3>2. p.to = r.to
      BY <2>5 DEF Upward
    <3> QED  BY <3>1, <3>2, <2>5 DEF Upward
  <2>6. CASE Downward(p, e) /\ Downward(r, e)
    <3>1. p.sub = r.sub
      BY <2>4, <2>6, <1>1, OneDownlink DEF Downward
    <3>2. p.to = r.to
      BY <2>6 DEF Downward
    <3> QED  BY <3>1, <3>2, <2>6 DEF Downward
  <2>7. ~ (Upward(p, e) /\ Downward(r, e)) /\ ~ (Downward(p, e) /\ Upward(r, e))
    BY <2>2 DEF Upward, Downward
  <2> QED  BY <2>3, <2>5, <2>6, <2>7
<1>4. ASSUME NEW s \in PumpsOf(n), ~ IsForeign(s)
      PROVE  MarkOf(s) /= ForeignHop
  <2>1. s.engine \in n.engines
    BY <1>4, BridgePump
  <2>2. s.engine.id /= ForeignHop
    BY <2>1, TagsAssumption
  <2> QED  BY <1>4, <2>2 DEF MarkOf
<1>5. IsForeign(p) <=> IsForeign(r)
  BY <1>4 DEF MarkOf
<1> QED  BY <1>2, <1>3, <1>5

\* Paths of which one grew by a mark.
LEMMA GrownPaths ==
  ASSUME NEW S, NEW s \in Seq(S), NEW t \in Seq(S), NEW x \in S, NEW y \in S
  PROVE  /\ Append(s, x) = Append(t, y) => s = t /\ x = y
         /\ Append(s, x) /= <<>> /\ Append(s, x) /= s
<1> DEFINE l == Append(s, x)
           m == Append(t, y)
<1>1. /\ Len(l) = Len(s) + 1 /\ Len(m) = Len(t) + 1 /\ Len(s) \in Nat /\ Len(t) \in Nat
      /\ l[Len(s) + 1] = x /\ m[Len(t) + 1] = y
      /\ \A i \in 1 .. Len(s) : l[i] = s[i]
      /\ \A i \in 1 .. Len(t) : m[i] = t[i]
  OBVIOUS
<1> HIDE DEF l, m
<1>2. ASSUME l = m
      PROVE  s = t /\ x = y
  <2>1. Len(s) = Len(t)
    BY <1>1, <1>2
  <2>2. x = y
    BY <1>1, <1>2, <2>1
  <2>3. \A i \in 1 .. Len(s) : s[i] = t[i]
    BY <1>1, <1>2, <2>1
  <2>4. s = t
    BY <2>1, <2>3, SeqEqual
  <2> QED  BY <2>2, <2>4
<1>3. l /= <<>> /\ l /= s
  <2>1. Len(l) /= 0 /\ Len(l) /= Len(s)
    BY <1>1
  <2>2. Len(<<>>) = 0
    OBVIOUS
  <2> QED  BY <2>1, <2>2
<1> QED  BY <1>2, <1>3 DEF l, m

\* A queue that pump p may have when A has arrived.
Fits(p, list, A) ==
  \A i \in DOMAIN list :
    /\ [bus |-> p.from, copy |-> list[i]] \in A
    /\ Takes(p, list[i].message.topic)
    /\ \A a \in A : ~ OneHopOn(list[i], MarkOf(p), a.copy)
    /\ \A j \in DOMAIN list : SameRoute(list[i], list[j]) => i = j

LEMMA HeadFits ==
  ASSUME NEW p, NEW S, NEW list \in Seq(S), list /= <<>>, NEW A, Fits(p, list, A)
  PROVE  /\ [bus |-> p.from, copy |-> Head(list)] \in A
         /\ Takes(p, Head(list).message.topic)
         /\ \A a \in A : ~ OneHopOn(Head(list), MarkOf(p), a.copy)
         /\ Fits(p, Tail(list), A)
         /\ \A i \in DOMAIN Tail(list) : ~ SameRoute(Head(list), Tail(list)[i])
<1> DEFINE rest == Tail(list)
<1>1. /\ Head(list) = list[1] /\ 1 \in DOMAIN list
      /\ DOMAIN rest = 1 .. Len(list) - 1 /\ DOMAIN list = 1 .. Len(list)
      /\ Len(list) \in Nat
      /\ \A i \in 1 .. Len(list) - 1 : rest[i] = list[i + 1]
  <2>1. Len(list) \in Nat /\ Len(list) /= 0
    OBVIOUS
  <2>2. Len(rest) = Len(list) - 1 /\ rest \in Seq(S) /\ Head(list) = list[1]
    BY HeadTailProperties
  <2>3. \A i \in 1 .. Len(list) - 1 : rest[i] = list[i + 1]
    BY HeadTailProperties
  <2>4. DOMAIN rest = 1 .. Len(rest)
    BY <2>2
  <2> HIDE DEF rest
  <2> QED  BY <2>1, <2>2, <2>3, <2>4
<1> HIDE DEF rest
<1>2. \A i \in DOMAIN rest : i \in Nat /\ i + 1 \in DOMAIN list /\ rest[i] = list[i + 1] /\ i + 1 /= 1
  BY <1>1
<1>3. Fits(p, rest, A)
  <2> SUFFICES ASSUME NEW i \in DOMAIN rest
               PROVE  /\ [bus |-> p.from, copy |-> rest[i]] \in A
                      /\ Takes(p, rest[i].message.topic)
                      /\ \A a \in A : ~ OneHopOn(rest[i], MarkOf(p), a.copy)
                      /\ \A j \in DOMAIN rest : SameRoute(rest[i], rest[j]) => i = j
    BY DEF Fits
  <2>1. i + 1 \in DOMAIN list /\ rest[i] = list[i + 1]
    BY <1>2
  <2>2. \A j \in DOMAIN rest : SameRoute(rest[i], rest[j]) => i = j
    <3> SUFFICES ASSUME NEW j \in DOMAIN rest, SameRoute(rest[i], rest[j])  PROVE i = j
      OBVIOUS
    <3>1. j + 1 \in DOMAIN list /\ rest[j] = list[j + 1]
      BY <1>2
    <3>2. SameRoute(list[i + 1], list[j + 1])
      BY <2>1, <3>1
    <3>3. i + 1 = j + 1
      BY <2>1, <3>1, <3>2 DEF Fits
    <3>4. i \in Nat /\ j \in Nat
      BY <1>2
    <3> QED  BY <3>3, <3>4
  <2>3. /\ [bus |-> p.from, copy |-> rest[i]] \in A
        /\ Takes(p, rest[i].message.topic)
        /\ \A a \in A : ~ OneHopOn(rest[i], MarkOf(p), a.copy)
    BY <2>1 DEF Fits
  <2> QED  BY <2>2, <2>3
<1>4. ASSUME NEW i \in DOMAIN rest, SameRoute(Head(list), rest[i])
      PROVE  FALSE
  <2>1. SameRoute(list[1], list[i + 1]) /\ i + 1 \in DOMAIN list /\ i + 1 /= 1
    BY <1>1, <1>2, <1>4
  <2> QED  BY <1>1, <2>1 DEF Fits
<1> QED  BY <1>1, <1>3, <1>4 DEF Fits, rest

Once(A)      == \A a, b \in A : SameRoute(a.copy, b.copy) => a = b
HasParent(n, A, a) ==
  a.copy.path = <<>> \/ \E b \in A : \E x \in Ids(n) : OneHopOn(b.copy, x, a.copy)
AllFit(q, A) == \A p \in DOMAIN q : Fits(p, q[p], A)

LEMMA CopyInvParts ==
  CopyInv <=>
    /\ SingleRoutes(net) /\ doubled = {}
    /\ Once(arrived) /\ \A a \in arrived : HasParent(net, arrived, a)
    /\ \A a \in arrived : a.copy.message \notin waiting
    /\ AllFit(inbox, arrived)
BY DEF CopyInv, ArrivesOnce, WaitsOnce, Once, HasParent, AllFit, Fits

\* Every path under way is a sequence of ids.
LEMMA PathTypes ==
  ASSUME TagInv
  PROVE  /\ \A a \in arrived : a.copy.path \in Seq(Ids(net)) /\ a.copy.message \in net.messages
         /\ \A p \in DOMAIN inbox : MarkOf(p) \in Ids(net)
<1>1. \A c \in Sound(net) : c.path \in Seq(Ids(net)) /\ c.message \in net.messages
  BY DEF Sound, CopyOf
<1>2. \A a \in arrived : a.copy \in Sound(net)
  BY DEF TagInv
<1>3. ASSUME NEW p \in DOMAIN inbox
      PROVE  MarkOf(p) \in Ids(net)
  <2>1. p \in PumpsOf(net)
    BY DEF TagInv
  <2>2. ~ IsForeign(p) => p.engine \in net.engines
    BY <2>1, PumpEngine
  <2> QED  BY <2>2 DEF MarkOf, Ids
<1> QED  BY <1>1, <1>2, <1>3

\* A copy of which none has arrived, made of one that has, and which is no
\* child of one that still waits, disturbs nothing where it arrives.
LEMMA BroadcastOnce ==
  ASSUME TagInv, Once(arrived), \A a \in arrived : HasParent(net, arrived, a), doubled = {},
         NEW q, Queues(net, q), AllFit(q, arrived),
         NEW bus, NEW d \in Sound(net), Broadcast(q, bus, d),
         \A a \in arrived : ~ SameRoute(a.copy, d),
         HasParent(net, arrived, [bus |-> bus, copy |-> d]),
         \A p \in DOMAIN q : \A i \in DOMAIN q[p] : ~ OneHopOn(q[p][i], MarkOf(p), d)
  PROVE  /\ doubled' = {} /\ arrived' = arrived \cup {[bus |-> bus, copy |-> d]}
         /\ Once(arrived') /\ \A a \in arrived' : HasParent(net, arrived', a)
         /\ AllFit(inbox', arrived')
<1> DEFINE new == [bus |-> bus, copy |-> d]
<1>1. new.bus = bus /\ new.copy = d
  OBVIOUS
<1>2. /\ arrived' = arrived \cup {new}
      /\ doubled' = doubled \cup (arrived \cap {new})
      /\ inbox' = [p \in DOMAIN q |->
                     IF p \in Receivers(q, bus, d) /\ Len(q[p]) < QueueDepth
                       THEN Append(q[p], d) ELSE q[p]]
  BY DEF Broadcast, Record
<1>3. /\ d.path \in Seq(Ids(net)) /\ d.message \in net.messages
      /\ \A a \in arrived : a.copy.path \in Seq(Ids(net))
      /\ DOMAIN q = PumpsOf(net) /\ DOMAIN inbox = PumpsOf(net)
  BY PathTypes DEF Sound, CopyOf, Queues, TagInv
<1>4. \A p \in DOMAIN q : MarkOf(p) \in Ids(net)
  BY <1>3, PathTypes
<1> HIDE DEF new
<1>5. SameRoute(d, d)
  BY DEF SameRoute
<1>6. new \notin arrived
  BY <1>1, <1>5
<1>7. doubled' = {}
  BY <1>2, <1>6
<1>8. Once(arrived')
  <2>1. \A a \in arrived : ~ SameRoute(d, a.copy)
    BY DEF SameRoute
  <2> QED  BY <1>1, <1>2, <2>1 DEF Once
<1>9. \A a \in arrived' : HasParent(net, arrived', a)
  <2>1. \A a \in arrived' : HasParent(net, arrived, a)
    BY <1>2 DEF new
  <2> QED  BY <1>2, <2>1 DEF HasParent
\* no copy made of the new one has arrived
<1>10. ASSUME NEW a \in arrived', NEW x \in Ids(net), OneHopOn(d, x, a.copy)
       PROVE  FALSE
  <2>1. a.copy.message = d.message /\ a.copy.path = Append(d.path, x)
    BY <1>10 DEF OneHopOn
  <2>2. CASE a = new
    <3>1. d.path = Append(d.path, x)
      BY <2>1, <2>2, <1>1
    <3> QED  BY <3>1, <1>3, GrownPaths
  <2>3. CASE a \in arrived
    <3>1. a.copy.path /= <<>>
      BY <2>1, <1>3, GrownPaths
    <3>2. PICK b \in arrived, y \in Ids(net) : OneHopOn(b.copy, y, a.copy)
      BY <2>3, <3>1 DEF HasParent
    <3>3. b.copy.message = d.message /\ Append(b.copy.path, y) = Append(d.path, x)
      BY <3>2, <2>1 DEF OneHopOn
    <3>4. b.copy.path = d.path
      <4> DEFINE s == b.copy.path
                 t == d.path
      <4>1. s \in Seq(Ids(net)) /\ t \in Seq(Ids(net)) /\ Append(s, y) = Append(t, x)
        BY <3>2, <3>3, <1>3
      <4>2. x \in Ids(net) /\ y \in Ids(net)
        BY <1>10, <3>2
      <4> HIDE DEF s, t
      <4>3. s = t
        BY <4>1, <4>2, GrownPaths
      <4> QED  BY <4>3 DEF s, t
    <3>5. SameRoute(b.copy, d)
      BY <3>3, <3>4 DEF SameRoute
    <3> QED  BY <3>2, <3>5
  <2> QED  BY <2>2, <2>3, <1>2
<1>11. ASSUME NEW p \in DOMAIN q
       PROVE  Fits(p, q[p], arrived')
  <2>1. Fits(p, q[p], arrived)
    BY DEF AllFit
  <2>2. \A i \in DOMAIN q[p] : ~ OneHopOn(q[p][i], MarkOf(p), new.copy)
    BY <1>1
  <2> QED  BY <2>1, <2>2, <1>2 DEF Fits
<1>12. ASSUME NEW p \in Receivers(q, bus, d)
       PROVE  Fits(p, Append(q[p], d), arrived')
  <2> DEFINE list == q[p]
             l == Append(list, d)
  <2>1. p \in DOMAIN q /\ p.from = bus /\ Takes(p, d.message.topic)
    BY DEF Receivers
  <2>2. list \in Seq(Sound(net)) /\ Fits(p, list, arrived) /\ Fits(p, list, arrived')
    BY <2>1, <1>3, <1>11 DEF Queues, AllFit
  <2> HIDE DEF list
  <2>3. /\ DOMAIN l = DOMAIN list \cup {Len(list) + 1}
        /\ l[Len(list) + 1] = d
        /\ \A i \in DOMAIN list : l[i] = list[i]
    BY <2>2
  <2> HIDE DEF l
  <2>4. \A i \in DOMAIN list : ~ SameRoute(list[i], d) /\ ~ SameRoute(d, list[i])
    <3> TAKE i \in DOMAIN list
    <3>1. [bus |-> p.from, copy |-> list[i]] \in arrived
      BY <2>2 DEF Fits
    <3>2. ~ SameRoute([bus |-> p.from, copy |-> list[i]].copy, d)
      BY <3>1
    <3>3. ~ SameRoute(list[i], d)
      BY <3>2
    <3> QED  BY <3>3 DEF SameRoute
  <2>5. /\ [bus |-> p.from, copy |-> d] \in arrived'
        /\ Takes(p, d.message.topic)
        /\ \A a \in arrived' : ~ OneHopOn(d, MarkOf(p), a.copy)
    BY <2>1, <1>2, <1>4, <1>10 DEF new
  <2>6. ASSUME NEW i \in DOMAIN l
        PROVE  /\ [bus |-> p.from, copy |-> l[i]] \in arrived'
               /\ Takes(p, l[i].message.topic)
               /\ \A a \in arrived' : ~ OneHopOn(l[i], MarkOf(p), a.copy)
               /\ \A j \in DOMAIN l : SameRoute(l[i], l[j]) => i = j
    <3>1. CASE i \in DOMAIN list
      <4>1. l[i] = list[i]
        BY <3>1, <2>3
      <4>2. /\ [bus |-> p.from, copy |-> list[i]] \in arrived'
            /\ Takes(p, list[i].message.topic)
            /\ \A a \in arrived' : ~ OneHopOn(list[i], MarkOf(p), a.copy)
            /\ \A j \in DOMAIN list : SameRoute(list[i], list[j]) => i = j
        BY <3>1, <2>2 DEF Fits
      <4>3. \A j \in DOMAIN l : SameRoute(list[i], l[j]) => i = j
        BY <3>1, <4>2, <2>3, <2>4
      <4> QED  BY <4>1, <4>2, <4>3
    <3>2. CASE i = Len(list) + 1
      <4>1. l[i] = d
        BY <3>2, <2>3
      <4>2. \A j \in DOMAIN l : SameRoute(d, l[j]) => i = j
        BY <3>2, <2>3, <2>4
      <4> QED  BY <4>1, <4>2, <2>5
    <3> QED  BY <3>1, <3>2, <2>3
  <2> QED  BY <2>6 DEF Fits, l, list
<1>13. AllFit(inbox', arrived')
  <2> SUFFICES ASSUME NEW p \in DOMAIN inbox'  PROVE Fits(p, inbox'[p], arrived')
    BY DEF AllFit
  <2>1. p \in DOMAIN q
    BY <1>2
  <2>2. inbox'[p] = q[p] \/ (p \in Receivers(q, bus, d) /\ inbox'[p] = Append(q[p], d))
    BY <1>2, <2>1
  <2> QED  BY <2>1, <2>2, <1>11, <1>12
<1> QED  BY <1>2, <1>7, <1>8, <1>9, <1>13 DEF new

LEMMA CopyInvNext ==
  ASSUME net' = net, SingleRoutes(net), doubled' = {},
         Once(arrived'), \A a \in arrived' : HasParent(net, arrived', a),
         \A a \in arrived' : a.copy.message \notin waiting',
         AllFit(inbox', arrived')
  PROVE  CopyInv'
<1>1. ArrivesOnce'
  BY DEF ArrivesOnce, Once, HasParent
<1>2. WaitsOnce'
  BY DEF WaitsOnce, AllFit, Fits
<1> QED  BY <1>1, <1>2 DEF CopyInv

LEMMA PopOnce ==
  ASSUME TagInv, CopyInv, NEW p \in DOMAIN inbox, inbox[p] /= <<>>
  PROVE  /\ [bus |-> p.from, copy |-> Head(inbox[p])] \in arrived
         /\ Takes(p, Head(inbox[p]).message.topic)
         /\ \A a \in arrived : ~ OneHopOn(Head(inbox[p]), MarkOf(p), a.copy)
         /\ \A i \in DOMAIN Popped(p)[p] : ~ SameRoute(Head(inbox[p]), Popped(p)[p][i])
         /\ DOMAIN Popped(p) = DOMAIN inbox /\ AllFit(Popped(p), arrived)
<1>1. inbox[p] \in Seq(Sound(net)) /\ Fits(p, inbox[p], arrived) /\ AllFit(inbox, arrived)
  BY CopyInvParts DEF TagInv, AllFit
<1>2. /\ DOMAIN Popped(p) = DOMAIN inbox /\ Popped(p)[p] = Tail(inbox[p])
      /\ \A r \in DOMAIN inbox : r /= p => Popped(p)[r] = inbox[r]
  BY DEF Popped
<1>3. /\ [bus |-> p.from, copy |-> Head(inbox[p])] \in arrived
      /\ Takes(p, Head(inbox[p]).message.topic)
      /\ \A a \in arrived : ~ OneHopOn(Head(inbox[p]), MarkOf(p), a.copy)
      /\ Fits(p, Tail(inbox[p]), arrived)
      /\ \A i \in DOMAIN Tail(inbox[p]) : ~ SameRoute(Head(inbox[p]), Tail(inbox[p])[i])
  BY <1>1, HeadFits
<1>4. AllFit(Popped(p), arrived)
  BY <1>1, <1>2, <1>3 DEF AllFit
<1> QED  BY <1>2, <1>3, <1>4

LEMMA DropOnce ==
  ASSUME TagInv, CopyInv, NEW p \in DOMAIN inbox, inbox[p] /= <<>>, inbox' = Popped(p),
         net' = net, waiting' = waiting, arrived' = arrived, doubled' = doubled
  PROVE  CopyInv'
<1>1. AllFit(inbox', arrived')
  BY PopOnce
<1> QED  BY <1>1, CopyInvParts, CopyInvNext

\* What a pump publishes of the copy that it took.
LEMMA RelayOnce ==
  ASSUME TagInv, CopyInv, NEW p \in DOMAIN inbox, inbox[p] /= <<>>,
         NEW d \in Sound(net), OneHopOn(Head(inbox[p]), MarkOf(p), d),
         Broadcast(Popped(p), p.to, d), net' = net, waiting' = waiting
  PROVE  CopyInv'
<1> DEFINE c == Head(inbox[p])
           q == Popped(p)
           arrival == [bus |-> p.from, copy |-> c]
           new == [bus |-> p.to, copy |-> d]
<1>1. /\ arrival \in arrived /\ Takes(p, c.message.topic)
      /\ \A a \in arrived : ~ OneHopOn(c, MarkOf(p), a.copy)
      /\ \A i \in DOMAIN q[p] : ~ SameRoute(c, q[p][i])
      /\ DOMAIN q = DOMAIN inbox /\ AllFit(q, arrived)
  BY PopOnce
<1>2. arrival.copy = c /\ arrival.bus = p.from /\ new.copy = d /\ new.bus = p.to
  OBVIOUS
<1>3. Queues(net, q) /\ c \in Sound(net)
  BY HeadSound
<1>4. /\ SingleRoutes(net) /\ doubled = {} /\ Once(arrived)
      /\ \A a \in arrived : HasParent(net, arrived, a)
      /\ \A a \in arrived : a.copy.message \notin waiting
  BY CopyInvParts
<1>5. Broadcast(q, p.to, d) /\ OneHopOn(c, MarkOf(p), d)
  OBVIOUS
<1> HIDE DEF c, q, arrival
<1>6. d.message = c.message /\ d.path = Append(c.path, MarkOf(p))
  BY <1>5 DEF OneHopOn
<1>7. /\ \A r \in DOMAIN inbox : MarkOf(r) \in Ids(net)
      /\ \A a \in arrived : a.copy.path \in Seq(Ids(net)) /\ a.copy.message \in net.messages
  BY PathTypes
<1>8. c.path \in Seq(Ids(net)) /\ c.message \in net.messages
  BY <1>1, <1>2, <1>7
<1>9. \A a \in arrived : ~ SameRoute(a.copy, d)
  BY <1>1, <1>6 DEF SameRoute, OneHopOn
<1>10. HasParent(net, arrived, new)
  BY <1>1, <1>2, <1>5, <1>7 DEF HasParent
<1>11. ASSUME NEW r \in DOMAIN q, NEW i \in DOMAIN q[r], OneHopOn(q[r][i], MarkOf(r), d)
       PROVE  FALSE
  <2> DEFINE other == [bus |-> r.from, copy |-> q[r][i]]
  <2>1. other.bus = r.from /\ other.copy = q[r][i]
    OBVIOUS
  <2>2. other \in arrived /\ Takes(r, q[r][i].message.topic)
    BY <1>1 DEF AllFit, Fits
  <2> HIDE DEF other
  <2>3. q[r][i].message = c.message /\ Append(q[r][i].path, MarkOf(r)) = Append(c.path, MarkOf(p))
    BY <1>6, <1>11 DEF OneHopOn
  <2>4. q[r][i].path = c.path /\ MarkOf(r) = MarkOf(p)
    <3>1. q[r][i].path \in Seq(Ids(net))
      BY <2>1, <2>2, <1>7
    <3>2. MarkOf(r) \in Ids(net) /\ MarkOf(p) \in Ids(net)
      BY <1>1, <1>7
    <3> QED  BY <2>3, <3>1, <3>2, <1>8, GrownPaths
  <2>5. SameRoute(other.copy, arrival.copy)
    BY <2>1, <2>3, <2>4, <1>2 DEF SameRoute
  <2>6. other = arrival
    BY <2>2, <2>5, <1>1, <1>4 DEF Once
  <2>7. r.from = p.from
    BY <2>1, <2>6, <1>2
  <2>8. r = p
    <3>1. r \in PumpsOf(net) /\ p \in PumpsOf(net) /\ net \in Nets
      BY <1>1 DEF TagInv
    <3>2. Takes(r, c.message.topic)
      BY <2>2, <2>3
    <3> QED  BY <3>1, <3>2, <2>4, <2>7, <1>1, <1>4, <1>8, PumpIsOne
  <2>9. SameRoute(c, q[p][i])
    BY <2>3, <2>4, <2>8 DEF SameRoute
  <2> QED  BY <2>8, <2>9, <1>1, <1>11
<1>12. /\ doubled' = {} /\ arrived' = arrived \cup {new}
       /\ Once(arrived') /\ \A a \in arrived' : HasParent(net, arrived', a)
       /\ AllFit(inbox', arrived')
  BY <1>1, <1>3, <1>4, <1>5, <1>9, <1>10, <1>11, BroadcastOnce
<1>13. \A a \in arrived' : a.copy.message \notin waiting'
  <2>1. c.message \notin waiting
    BY <1>1, <1>2, <1>4
  <2> QED  BY <2>1, <1>2, <1>4, <1>6, <1>12
<1> QED  BY <1>4, <1>12, <1>13, CopyInvNext

LEMMA CopyStep ==
  ASSUME TagInv, CopyInv, [Next]_vars, TagInv'
  PROVE  CopyInv'
<1>1. net' = net
  BY DEF Next, vars, Originate, Pump, Forward, ForwardFails, Refuse, ForeignForward
<1>2. \A a \in arrived' : a.copy \in Sound(net)
  BY <1>1 DEF TagInv
<1>3. ASSUME NEW m \in waiting, Originate(m)
      PROVE  CopyInv'
  <2> DEFINE d == [message |-> m, payload |-> m.payload, path |-> <<>>]
             new == [bus |-> m.bus, copy |-> d]
  <2>1. Broadcast(inbox, m.bus, d) /\ waiting' = waiting \ {m}
    BY <1>3 DEF Originate
  <2>2. d.message = m /\ d.path = <<>> /\ new.copy = d /\ new.bus = m.bus
    OBVIOUS
  <2> HIDE DEF d
  <2>3. new \in arrived'
    BY <2>1 DEF Broadcast, Record
  <2>4. d \in Sound(net)
    BY <2>2, <2>3, <1>2
  <2>5. /\ SingleRoutes(net) /\ doubled = {} /\ Once(arrived) /\ AllFit(inbox, arrived)
        /\ \A a \in arrived : HasParent(net, arrived, a)
        /\ \A a \in arrived : a.copy.message \notin waiting
    BY CopyInvParts
  <2>6. \A a \in arrived : ~ SameRoute(a.copy, d)
    BY <2>2, <2>5 DEF SameRoute
  <2>7. HasParent(net, arrived, new)
    BY <2>2 DEF HasParent
  <2>8. Queues(net, inbox)
    BY DEF TagInv, Queues
  <2>9. ASSUME NEW r \in DOMAIN inbox, NEW i \in DOMAIN inbox[r],
               OneHopOn(inbox[r][i], MarkOf(r), d)
        PROVE  FALSE
    <3>1. [bus |-> r.from, copy |-> inbox[r][i]] \in arrived
      BY <2>5 DEF AllFit, Fits
    <3>2. [bus |-> r.from, copy |-> inbox[r][i]].copy.path \in Seq(Ids(net)) /\ MarkOf(r) \in Ids(net)
      BY <3>1, PathTypes
    <3>3. inbox[r][i].path \in Seq(Ids(net)) /\ MarkOf(r) \in Ids(net)
      BY <3>2
    <3>4. Append(inbox[r][i].path, MarkOf(r)) = <<>>
      BY <2>2, <2>9 DEF OneHopOn
    <3> QED  BY <3>3, <3>4, GrownPaths
  <2>10. /\ doubled' = {} /\ arrived' = arrived \cup {new}
         /\ Once(arrived') /\ \A a \in arrived' : HasParent(net, arrived', a)
         /\ AllFit(inbox', arrived')
    BY <2>1, <2>4, <2>5, <2>6, <2>7, <2>8, <2>9, BroadcastOnce
  <2>11. \A a \in arrived' : a.copy.message \notin waiting'
    BY <2>1, <2>2, <2>5, <2>10
  <2> QED  BY <1>1, <2>5, <2>10, <2>11, CopyInvNext
<1>4. ASSUME NEW p \in DOMAIN inbox, Forward(p)
      PROVE  CopyInv'
  <2> DEFINE c == Head(inbox[p])
             d == Hopped(c, Stamped(p.engine, c.payload), p.engine.id)
             new == [bus |-> p.to, copy |-> d]
  <2>1. /\ ~ IsForeign(p) /\ inbox[p] /= <<>> /\ Broadcast(Popped(p), p.to, d)
        /\ waiting' = waiting
    BY <1>4 DEF Forward
  <2>2. new \in arrived' /\ new.copy = d
    BY <2>1 DEF Broadcast, Record
  <2>3. OneHopOn(c, MarkOf(p), d)
    BY <2>1 DEF OneHopOn, MarkOf, Hopped
  <2> HIDE DEF d
  <2>4. d \in Sound(net)
    BY <2>2, <1>2
  <2> QED  BY <1>1, <2>1, <2>3, <2>4, RelayOnce
<1>5. ASSUME NEW p \in DOMAIN inbox, ForwardFails(p) \/ Refuse(p)
      PROVE  CopyInv'
  <2>1. /\ inbox[p] /= <<>> /\ inbox' = Popped(p)
        /\ waiting' = waiting /\ arrived' = arrived /\ doubled' = doubled
    BY <1>5 DEF ForwardFails, Refuse
  <2> QED  BY <1>1, <2>1, DropOnce
<1>6. ASSUME NEW p \in DOMAIN inbox, ForeignForward(p)
      PROVE  CopyInv'
  <2> DEFINE c == Head(inbox[p])
             d == Hopped(c, IF c.payload = Garbled THEN Garbled ELSE Junk, ForeignHop)
             new == [bus |-> p.to, copy |-> d]
  <2>1. IsForeign(p) /\ inbox[p] /= <<>> /\ waiting' = waiting
    BY <1>6 DEF ForeignForward
  <2>2. CASE Broadcast(Popped(p), p.to, d)
    <3>1. new \in arrived' /\ new.copy = d
      BY <2>2 DEF Broadcast, Record
    <3>2. OneHopOn(c, MarkOf(p), d)
      BY <2>1 DEF OneHopOn, MarkOf, Hopped
    <3> HIDE DEF d
    <3>3. d \in Sound(net)
      BY <3>1, <1>2
    <3> QED  BY <1>1, <2>1, <2>2, <3>2, <3>3, RelayOnce
  <2>3. CASE inbox' = Popped(p) /\ UNCHANGED <<lost, arrived, doubled>>
    <3>1. inbox' = Popped(p) /\ arrived' = arrived /\ doubled' = doubled
      BY <2>3
    <3> QED  BY <1>1, <2>1, <3>1, DropOnce
  <2> QED  BY <2>2, <2>3, <1>6 DEF ForeignForward
<1>7. CASE UNCHANGED vars
  <2>1. waiting' = waiting /\ inbox' = inbox /\ arrived' = arrived /\ doubled' = doubled
    BY <1>7 DEF vars
  <2> QED  BY <1>1, <2>1, CopyInvParts, CopyInvNext
<1> QED  BY <1>3, <1>4, <1>5, <1>6, <1>7 DEF Next, Pump

\* Where no message is an overlap of two filters and no bus has two foreign
\* relays, whatever waits has arrived once, along a path that tells its pumps.
THEOREM CopiesKeepInv ==
  ASSUME \A n \in Nets : SingleRoutes(n)
  PROVE  Spec => []CopyInv
<1>1. ASSUME Init  PROVE CopyInv
  <2>1. SingleRoutes(net) /\ doubled = {} /\ arrived = {}
    BY <1>1 DEF Init
  <2>2. \A p \in DOMAIN inbox : DOMAIN inbox[p] = {}
    BY <1>1 DEF Init
  <2>3. Once(arrived) /\ AllFit(inbox, arrived)
    BY <2>1, <2>2 DEF Once, AllFit, Fits
  <2> QED  BY <2>1, <2>3, CopyInvParts
<1>2. TagInv /\ TagInv' /\ CopyInv /\ [Next]_vars => CopyInv'
  BY CopyStep
<1> QED  BY <1>1, <1>2, TagsAreSound, PTL DEF Spec

\* In such a network a message arrives once along one path: no two
\* subscriptions of a bridge relay the same copy.
THEOREM OneCopy ==
  ASSUME \A n \in Nets : SingleRoutes(n)
  PROVE  Spec => []OneCopyPerPath
<1>1. CopyInv => OneCopyPerPath
  BY DEF CopyInv, OneCopyPerPath
<1> QED  BY <1>1, CopiesKeepInv, PTL

=============================================================================
