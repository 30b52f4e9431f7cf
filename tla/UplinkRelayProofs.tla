--------------------------- MODULE UplinkRelayProofs ---------------------------
(***************************************************************************)
(* No message is lost unseen, counted twice or put out of order by the     *)
(* uplink relay, for every set of pumps, every configuration and every     *)
(* history of the link and the publishes.                                  *)
(***************************************************************************)
EXTENDS UplinkRelay, SequenceTheorems, FiniteSetTheorems, TLAPS

-----------------------------------------------------------------------------
(* Messages and buffers                                                    *)

LEMMA MsgIs ==
  ASSUME NEW m \in Msg
  PROVE  m[1] \in Pump /\ m[2] \in Nat /\ m[2] <= MaxMsgs[m[1]] /\ m = <<m[1], m[2]>>
<1>1. PICK p \in Pump : m \in {p} \X (1 .. MaxMsgs[p])
  BY DEF Msg
<1>2. m[1] = p /\ m[2] \in 1 .. MaxMsgs[p] /\ m = <<m[1], m[2]>>
  BY <1>1
<1>3. MaxMsgs[p] \in Nat
  BY BoundsAssumption
<1> QED  BY <1>2, <1>3

LEMMA IsMsg ==
  ASSUME NEW p \in Pump, NEW k \in Nat, k >= 1, k <= MaxMsgs[p]
  PROVE  <<p, k>> \in Msg /\ <<p, k>> /= NoMsg
<1>1. MaxMsgs[p] \in Nat
  BY BoundsAssumption
<1>2. k \in 1 .. MaxMsgs[p]
  BY <1>1
<1>3. <<p, k>> \in {p} \X (1 .. MaxMsgs[p])
  BY <1>2
<1> QED  BY <1>3, NoMsgAssumption DEF Msg

LEMMA OrderedHasNoTwins ==
  ASSUME NEW q \in Seq(Msg), Ordered(q), NEW i \in DOMAIN q, NEW j \in DOMAIN q,
         q[i] = q[j]
  PROVE  i = j
<1>1. ASSUME NEW x \in DOMAIN q, NEW y \in DOMAIN q, q[x] = q[y], x < y
      PROVE  FALSE
  <2>1. Older(q[x], q[y])
    BY <1>1 DEF Ordered
  <2>2. q[x] \in Msg
    OBVIOUS
  <2>3. q[x][2] \in Nat
    BY <2>2, MsgIs
  <2> QED  BY <1>1, <2>1, <2>3 DEF Older
<1>2. i \in Nat /\ j \in Nat
  OBVIOUS
<1>3. i < j \/ j < i \/ i = j
  BY <1>2
<1> QED  BY <1>1, <1>3

LEMMA TailShape ==
  ASSUME NEW q \in Seq(Msg), q /= <<>>, Ordered(q)
  PROVE  /\ Head(q) \in ToSet(q) /\ Head(q) \in Msg /\ Tail(q) \in Seq(Msg)
         /\ Len(q) \in Nat /\ Len(q) >= 1 /\ Len(Tail(q)) = Len(q) - 1
         /\ ToSet(Tail(q)) = ToSet(q) \ {Head(q)}
         /\ Ordered(Tail(q))
         /\ \A i \in DOMAIN Tail(q) : Tail(q)[i][1] = Head(q)[1] => Older(Head(q), Tail(q)[i])
<1> DEFINE r == Tail(q)
<1>1. /\ Head(q) \in Msg /\ r \in Seq(Msg) /\ Len(r) = Len(q) - 1
      /\ \A i \in 1 .. Len(r) : r[i] = q[i + 1]
  BY HeadTailProperties
<1>2. /\ Len(q) \in Nat /\ Len(q) >= 1 /\ DOMAIN q = 1 .. Len(q) /\ Head(q) = q[1]
      /\ DOMAIN r = 1 .. Len(r)
  BY <1>1, EmptySeq
<1> HIDE DEF r
<1>3. \A i \in DOMAIN r : r[i] = q[i + 1] /\ i + 1 \in DOMAIN q /\ i + 1 > 1
  BY <1>1, <1>2
<1>4. 1 \in DOMAIN q
  BY <1>2
<1>5. Head(q) \in ToSet(q)
  BY <1>2, <1>4 DEF ToSet
<1>6. ASSUME NEW i \in DOMAIN q, i /= 1  PROVE i - 1 \in DOMAIN r /\ r[i - 1] = q[i]
  <2>1. i - 1 \in 1 .. Len(r) /\ (i - 1) + 1 = i
    BY <1>1, <1>2, <1>6
  <2> QED  BY <2>1, <1>1, <1>2
<1>7. \A i \in DOMAIN r : r[i] /= Head(q)
  <2> TAKE i \in DOMAIN r
  <2>1. i + 1 \in DOMAIN q /\ r[i] = q[i + 1] /\ i + 1 /= 1
    BY <1>3
  <2> QED  BY <2>1, <1>2, <1>4, OrderedHasNoTwins
<1>8. ToSet(r) = ToSet(q) \ {Head(q)}
  <2>1. ASSUME NEW x \in ToSet(r)  PROVE x \in ToSet(q) \ {Head(q)}
    BY <2>1, <1>3, <1>7 DEF ToSet
  <2>2. ASSUME NEW x \in ToSet(q) \ {Head(q)}  PROVE x \in ToSet(r)
    <3>1. PICK i \in DOMAIN q : q[i] = x
      BY <2>2 DEF ToSet
    <3>2. i /= 1
      BY <3>1, <2>2, <1>2
    <3> QED  BY <3>1, <3>2, <1>6 DEF ToSet
  <2> QED  BY <2>1, <2>2
<1>9. Ordered(r)
  <2> SUFFICES ASSUME NEW i \in DOMAIN r, NEW j \in DOMAIN r, i < j, r[i][1] = r[j][1]
               PROVE  Older(r[i], r[j])
    BY DEF Ordered
  <2>1. i + 1 < j + 1
    BY <1>2
  <2> QED  BY <2>1, <1>3 DEF Ordered
<1>10. \A i \in DOMAIN r : r[i][1] = Head(q)[1] => Older(Head(q), r[i])
  <2> SUFFICES ASSUME NEW i \in DOMAIN r, r[i][1] = Head(q)[1]
               PROVE  Older(Head(q), r[i])
    OBVIOUS
  <2>1. 1 < i + 1
    BY <1>3
  <2> QED  BY <2>1, <1>2, <1>3, <1>4 DEF Ordered
<1> QED  BY <1>1, <1>2, <1>5, <1>8, <1>9, <1>10 DEF r

LEMMA AppendShape ==
  ASSUME NEW q \in Seq(Msg), NEW m \in Msg, Ordered(q),
         \A n \in ToSet(q) : n[1] = m[1] => Older(n, m)
  PROVE  /\ Append(q, m) \in Seq(Msg)
         /\ Len(Append(q, m)) = Len(q) + 1
         /\ ToSet(Append(q, m)) = ToSet(q) \cup {m}
         /\ Ordered(Append(q, m))
<1> DEFINE r == Append(q, m)
<1>1. /\ r \in Seq(Msg) /\ Len(r) = Len(q) + 1 /\ Len(q) \in Nat
      /\ \A i \in 1 .. Len(q) : r[i] = q[i]
      /\ r[Len(q) + 1] = m
      /\ DOMAIN r = 1 .. Len(q) + 1 /\ DOMAIN q = 1 .. Len(q)
  OBVIOUS
<1> HIDE DEF r
<1>2. \A i \in DOMAIN r : i \in DOMAIN q \/ i = Len(q) + 1
  BY <1>1
<1>3. \A i \in DOMAIN q : i \in DOMAIN r /\ r[i] = q[i]
  BY <1>1
<1>4. Len(q) + 1 \in DOMAIN r
  BY <1>1
<1>5. ToSet(r) = ToSet(q) \cup {m}
  <2>1. ASSUME NEW x \in ToSet(r)  PROVE x \in ToSet(q) \cup {m}
    BY <2>1, <1>1, <1>2, <1>3 DEF ToSet
  <2>2. ASSUME NEW x \in ToSet(q)  PROVE x \in ToSet(r)
    BY <2>2, <1>3 DEF ToSet
  <2>3. m \in ToSet(r)
    BY <1>1, <1>4 DEF ToSet
  <2> QED  BY <2>1, <2>2, <2>3
<1>6. Ordered(r)
  <2> SUFFICES ASSUME NEW i \in DOMAIN r, NEW j \in DOMAIN r, i < j, r[i][1] = r[j][1]
               PROVE  Older(r[i], r[j])
    BY DEF Ordered
  <2>1. i \in DOMAIN q
    BY <1>1
  <2>2. CASE j \in DOMAIN q
    BY <2>1, <2>2, <1>3 DEF Ordered
  <2>3. CASE j = Len(q) + 1
    <3>1. r[i] \in ToSet(q) /\ r[j] = m
      BY <2>1, <2>3, <1>1, <1>3 DEF ToSet
    <3> QED  BY <3>1
  <2> QED  BY <2>2, <2>3, <1>2
<1> QED  BY <1>1, <1>5, <1>6 DEF r

LEMMA InAppend ==
  ASSUME NEW q \in Seq(Msg), NEW m \in Msg, NEW x \in ToSet(Append(q, m))
  PROVE  x \in ToSet(q) \/ x = m
<1>1. /\ \A i \in 1 .. Len(q) : Append(q, m)[i] = q[i]
      /\ Append(q, m)[Len(q) + 1] = m /\ Len(q) \in Nat
      /\ DOMAIN Append(q, m) = 1 .. Len(q) + 1 /\ DOMAIN q = 1 .. Len(q)
  OBVIOUS
<1>2. PICK i \in DOMAIN Append(q, m) : Append(q, m)[i] = x
  BY DEF ToSet
<1>3. i \in 1 .. Len(q) \/ i = Len(q) + 1
  BY <1>1
<1> QED  BY <1>1, <1>2, <1>3 DEF ToSet

LEMMA ConsShape ==
  ASSUME NEW q \in Seq(Msg), NEW m \in Msg, Ordered(q),
         \A n \in ToSet(q) : n[1] = m[1] => Older(m, n)
  PROVE  /\ Cons(m, q) \in Seq(Msg)
         /\ Len(Cons(m, q)) = Len(q) + 1
         /\ ToSet(Cons(m, q)) = ToSet(q) \cup {m}
         /\ Ordered(Cons(m, q))
<1> DEFINE r == <<m>> \o q
<1>1. <<m>> \in Seq(Msg) /\ Len(<<m>>) = 1 /\ <<m>>[1] = m
  OBVIOUS
<1>2. /\ r \in Seq(Msg) /\ Len(r) = 1 + Len(q)
      /\ \A i \in 1 .. 1 + Len(q) : r[i] = IF i <= 1 THEN <<m>>[i] ELSE q[i - 1]
  BY <1>1, ConcatProperties
<1>3. Len(q) \in Nat /\ DOMAIN q = 1 .. Len(q)
  OBVIOUS
<1>4. DOMAIN r = 1 .. Len(q) + 1
  BY <1>2, <1>3
<1> HIDE DEF r
<1>5. 1 \in DOMAIN r /\ r[1] = m
  BY <1>1, <1>2, <1>3, <1>4
<1>6. ASSUME NEW i \in DOMAIN r, i /= 1  PROVE i - 1 \in DOMAIN q /\ r[i] = q[i - 1]
  BY <1>2, <1>3, <1>4, <1>6
<1>7. ASSUME NEW i \in DOMAIN q  PROVE i + 1 \in DOMAIN r /\ r[i + 1] = q[i]
  <2>1. i + 1 \in 1 .. 1 + Len(q) /\ ~ (i + 1 <= 1) /\ (i + 1) - 1 = i
    BY <1>3
  <2> QED  BY <2>1, <1>2, <1>4
<1>8. ToSet(r) = ToSet(q) \cup {m}
  <2>1. ASSUME NEW x \in ToSet(r)  PROVE x \in ToSet(q) \cup {m}
    <3>1. PICK i \in DOMAIN r : r[i] = x
      BY <2>1 DEF ToSet
    <3>2. CASE i = 1
      BY <3>1, <3>2, <1>5
    <3>3. CASE i /= 1
      BY <3>1, <3>3, <1>6 DEF ToSet
    <3> QED  BY <3>2, <3>3
  <2>2. ASSUME NEW x \in ToSet(q)  PROVE x \in ToSet(r)
    <3>1. PICK i \in DOMAIN q : q[i] = x
      BY <2>2 DEF ToSet
    <3> QED  BY <3>1, <1>7 DEF ToSet
  <2>3. m \in ToSet(r)
    BY <1>5 DEF ToSet
  <2> QED  BY <2>1, <2>2, <2>3
<1>9. Ordered(r)
  <2> SUFFICES ASSUME NEW i \in DOMAIN r, NEW j \in DOMAIN r, i < j, r[i][1] = r[j][1]
               PROVE  Older(r[i], r[j])
    BY DEF Ordered
  <2>1. i \in Nat /\ j \in Nat /\ i >= 1 /\ j /= 1
    BY <1>3, <1>4
  <2>2. j - 1 \in DOMAIN q /\ r[j] = q[j - 1]
    BY <2>1, <1>6
  <2>3. CASE i = 1
    <3>1. r[j] \in ToSet(q) /\ r[i] = m
      BY <2>2, <2>3, <1>5 DEF ToSet
    <3> QED  BY <3>1
  <2>4. CASE i /= 1
    <3>1. i - 1 \in DOMAIN q /\ r[i] = q[i - 1]
      BY <2>4, <1>6
    <3>2. i - 1 < j - 1
      BY <2>1
    <3> QED  BY <2>2, <3>1, <3>2 DEF Ordered
  <2> QED  BY <2>3, <2>4
<1>10. r = Cons(m, q)
  BY DEF r, Cons
<1> QED  BY <1>2, <1>3, <1>8, <1>9, <1>10

\* What a push does to a buffer that keeps to its bound.
LEMMA PushShape ==
  ASSUME NEW q \in Seq(Msg), NEW m \in Msg, NEW c \in Config, c.evtMax > 0,
         Len(q) <= c.evtMax, Ordered(q),
         \A n \in ToSet(q) : n[1] = m[1] => Older(n, m)
  PROVE  /\ PushEvt(q, m, c) \in Seq(Msg)
         /\ Len(PushEvt(q, m, c)) <= c.evtMax
         /\ Ordered(PushEvt(q, m, c))
         /\ PushVictim(q, c) \subseteq ToSet(q)
         /\ m \notin ToSet(q)
         /\ ToSet(PushEvt(q, m, c)) = (ToSet(q) \ PushVictim(q, c)) \cup {m}
<1>1. c.evtMax \in Nat /\ Len(q) \in Nat
  BY DEF Config
<1>2. m \notin ToSet(q)
  <2>1. ~ Older(m, m)
    BY MsgIs DEF Older
  <2> QED  BY <2>1
<1>3. CASE Len(q) >= c.evtMax
  <2>1. q /= <<>>
    BY <1>1, <1>3, EmptySeq
  <2>2. /\ Head(q) \in ToSet(q) /\ Tail(q) \in Seq(Msg) /\ Len(Tail(q)) = Len(q) - 1
        /\ ToSet(Tail(q)) = ToSet(q) \ {Head(q)} /\ Ordered(Tail(q))
    BY <2>1, TailShape
  <2>3. \A n \in ToSet(Tail(q)) : n[1] = m[1] => Older(n, m)
    BY <2>2
  <2>4. /\ Append(Tail(q), m) \in Seq(Msg) /\ Len(Append(Tail(q), m)) = Len(Tail(q)) + 1
        /\ ToSet(Append(Tail(q), m)) = ToSet(Tail(q)) \cup {m}
        /\ Ordered(Append(Tail(q), m))
    BY <2>2, <2>3, AppendShape
  <2>5. PushEvt(q, m, c) = Append(Tail(q), m) /\ PushVictim(q, c) = {Head(q)}
    BY <1>3 DEF PushEvt, PushVictim
  <2>6. Len(Append(Tail(q), m)) <= c.evtMax
    BY <2>2, <2>4, <1>1
  <2> QED  BY <1>2, <2>2, <2>4, <2>5, <2>6
<1>4. CASE ~ (Len(q) >= c.evtMax)
  <2>1. /\ Append(q, m) \in Seq(Msg) /\ Len(Append(q, m)) = Len(q) + 1
        /\ ToSet(Append(q, m)) = ToSet(q) \cup {m} /\ Ordered(Append(q, m))
    BY AppendShape
  <2>2. PushEvt(q, m, c) = Append(q, m) /\ PushVictim(q, c) = {}
    BY <1>4 DEF PushEvt, PushVictim
  <2>3. Len(Append(q, m)) <= c.evtMax
    BY <2>1, <1>1, <1>4
  <2> QED  BY <1>2, <2>1, <2>2, <2>3
<1> QED  BY <1>3, <1>4

-----------------------------------------------------------------------------
(* Counters and the two ends a message may come to                         *)

LEMMA CountIs ==
  ASSUME counters \in [Counter -> Nat], NEW c \in Counter, NEW n \in Nat, Count(c, n)
  PROVE  /\ counters' \in [Counter -> Nat]
         /\ counters'[c] = counters[c] + n
         /\ \A d \in Counter \ {c} : counters'[d] = counters[d]
<1>1. counters' = [counters EXCEPT ![c] = counters[c] + n]
  BY DEF Count
<1>2. counters[c] + n \in Nat
  OBVIOUS
<1> QED  BY <1>1, <1>2

LEMMA CountersAre ==
  ASSUME counters \in [Counter -> Nat]
  PROVE  /\ counters["uplinked"] \in Nat /\ counters["replayed"] \in Nat
         /\ counters["disabled"] \in Nat /\ counters["disconnected"] \in Nat
         /\ counters["rate"] \in Nat /\ counters["bufferDropped"] \in Nat
  BY DEF Counter

\* A message more is given up and counted.
LEMMA GiveUp ==
  ASSUME counters \in [Counter -> Nat], CountersAddUp, IsFiniteSet(lost),
         NEW m, m \notin lost,
         NEW c \in {"disabled", "disconnected", "rate", "bufferDropped"},
         Count(c, 1), lost' = lost \cup {m}, confirmed' = confirmed
  PROVE  counters' \in [Counter -> Nat] /\ CountersAddUp' /\ IsFiniteSet(lost')
<1>1. IsFiniteSet(lost') /\ Cardinality(lost') = Cardinality(lost) + 1
  BY FS_AddElement
<1>2. c \in Counter
  BY DEF Counter
<1>3. /\ counters' \in [Counter -> Nat] /\ counters'[c] = counters[c] + 1
      /\ \A d \in Counter \ {c} : counters'[d] = counters[d]
  BY <1>2, CountIs
<1>4. counters'["uplinked"] = counters["uplinked"] /\ counters'["replayed"] = counters["replayed"]
  BY <1>3 DEF Counter
<1>5. Len(confirmed') = counters'["uplinked"] + counters'["replayed"]
  BY <1>4 DEF CountersAddUp
<1>6. counters'["disabled"] + counters'["disconnected"] + counters'["rate"]
        + counters'["bufferDropped"]
      = counters["disabled"] + counters["disconnected"] + counters["rate"]
        + counters["bufferDropped"] + 1
  <2>1. CASE c = "disabled"
    <3>1. /\ counters'["disabled"] = counters["disabled"] + 1
          /\ counters'["disconnected"] = counters["disconnected"]
          /\ counters'["rate"] = counters["rate"]
          /\ counters'["bufferDropped"] = counters["bufferDropped"]
      BY <2>1, <1>3 DEF Counter
    <3> QED  BY <3>1, CountersAre
  <2>2. CASE c = "disconnected"
    <3>1. /\ counters'["disabled"] = counters["disabled"]
          /\ counters'["disconnected"] = counters["disconnected"] + 1
          /\ counters'["rate"] = counters["rate"]
          /\ counters'["bufferDropped"] = counters["bufferDropped"]
      BY <2>2, <1>3 DEF Counter
    <3> QED  BY <3>1, CountersAre
  <2>3. CASE c = "rate"
    <3>1. /\ counters'["disabled"] = counters["disabled"]
          /\ counters'["disconnected"] = counters["disconnected"]
          /\ counters'["rate"] = counters["rate"] + 1
          /\ counters'["bufferDropped"] = counters["bufferDropped"]
      BY <2>3, <1>3 DEF Counter
    <3> QED  BY <3>1, CountersAre
  <2>4. CASE c = "bufferDropped"
    <3>1. /\ counters'["disabled"] = counters["disabled"]
          /\ counters'["disconnected"] = counters["disconnected"]
          /\ counters'["rate"] = counters["rate"]
          /\ counters'["bufferDropped"] = counters["bufferDropped"] + 1
      BY <2>4, <1>3 DEF Counter
    <3> QED  BY <3>1, CountersAre
  <2> QED  BY <2>1, <2>2, <2>3, <2>4
<1> QED  BY <1>1, <1>3, <1>5, <1>6 DEF CountersAddUp

\* A message more is confirmed and counted.
LEMMA Confirm ==
  ASSUME counters \in [Counter -> Nat], confirmed \in Seq(Msg), CountersAddUp,
         NEW m \in Msg, NEW c \in {"uplinked", "replayed"},
         Count(c, 1), confirmed' = Append(confirmed, m), lost' = lost
  PROVE  /\ counters' \in [Counter -> Nat] /\ CountersAddUp'
         /\ confirmed' \in Seq(Msg) /\ ToSet(confirmed') = ToSet(confirmed) \cup {m}
<1>1. c \in Counter
  BY DEF Counter
<1>2. /\ counters' \in [Counter -> Nat] /\ counters'[c] = counters[c] + 1
      /\ \A d \in Counter \ {c} : counters'[d] = counters[d]
  BY <1>1, CountIs
<1>3. /\ counters'["disabled"] = counters["disabled"]
      /\ counters'["disconnected"] = counters["disconnected"]
      /\ counters'["rate"] = counters["rate"]
      /\ counters'["bufferDropped"] = counters["bufferDropped"]
  BY <1>2 DEF Counter
<1>4. counters'["uplinked"] + counters'["replayed"]
        = counters["uplinked"] + counters["replayed"] + 1
  <2>1. CASE c = "uplinked"
    <3>1. /\ counters'["uplinked"] = counters["uplinked"] + 1
          /\ counters'["replayed"] = counters["replayed"]
      BY <2>1, <1>2 DEF Counter
    <3> QED  BY <3>1, CountersAre
  <2>2. CASE c = "replayed"
    <3>1. /\ counters'["uplinked"] = counters["uplinked"]
          /\ counters'["replayed"] = counters["replayed"] + 1
      BY <2>2, <1>2 DEF Counter
    <3>2. counters["uplinked"] \in Nat /\ counters["replayed"] \in Nat
      BY CountersAre
    <3>3. \A a, b \in Nat : a + (b + 1) = a + b + 1
      OBVIOUS
    <3> QED  BY <3>1, <3>2, <3>3
  <2> QED  BY <2>1, <2>2
<1>5. /\ confirmed' \in Seq(Msg) /\ Len(confirmed') = Len(confirmed) + 1
      /\ Len(confirmed) \in Nat
      /\ \A i \in 1 .. Len(confirmed) : confirmed'[i] = confirmed[i]
      /\ confirmed'[Len(confirmed) + 1] = m
      /\ DOMAIN confirmed' = 1 .. Len(confirmed) + 1
      /\ DOMAIN confirmed = 1 .. Len(confirmed)
  OBVIOUS
<1>6. ToSet(confirmed') = ToSet(confirmed) \cup {m}
  <2>1. \A i \in DOMAIN confirmed' : i \in DOMAIN confirmed \/ i = Len(confirmed) + 1
    BY <1>5
  <2>2. DOMAIN confirmed \subseteq DOMAIN confirmed' /\ Len(confirmed) + 1 \in DOMAIN confirmed'
    BY <1>5
  <2>3. ASSUME NEW x \in ToSet(confirmed')  PROVE x \in ToSet(confirmed) \cup {m}
    BY <2>1, <2>3, <1>5 DEF ToSet
  <2>4. ASSUME NEW x \in ToSet(confirmed)  PROVE x \in ToSet(confirmed')
    BY <2>2, <2>4, <1>5 DEF ToSet
  <2>5. m \in ToSet(confirmed')
    BY <2>2, <1>5 DEF ToSet
  <2> QED  BY <2>3, <2>4, <2>5
<1>7. Len(confirmed') = counters'["uplinked"] + counters'["replayed"]
  BY <1>4, <1>5 DEF CountersAddUp
<1> QED  BY <1>2, <1>3, <1>5, <1>6, <1>7 DEF CountersAddUp

-----------------------------------------------------------------------------
(* What a step does to the pumps                                           *)

\* What the invariant says of the messages that are under way.
LEMMA UnderWay ==
  ASSUME RelayInv
  PROVE  /\ \A x \in Waiting : /\ x \in Msg /\ x /= NoMsg /\ Held(x) /\ Received(x)
                               /\ x \notin lost /\ x \notin ToSet(confirmed)
         /\ \A p \in Pump : flight[p] /= NoMsg =>
              /\ flight[p] \in Msg /\ flight[p][1] = p /\ flight[p][2] = received[p]
              /\ Held(flight[p]) /\ flight[p] \notin lost
              /\ flight[p] \notin ToSet(confirmed) /\ flight[p] \notin Waiting
         /\ Ordered(buffer)
         /\ replaying /= NoMsg => replaying \notin ToSet(buffer)
<1>1. buffer \in Seq(Msg) /\ replaying \in Msg \cup {NoMsg} /\ flight \in [Pump -> Msg \cup {NoMsg}]
  BY DEF RelayInv, TypeOK
<1>2. ASSUME NEW x \in Waiting
      PROVE  /\ x \in Msg /\ x /= NoMsg /\ Held(x) /\ Received(x)
             /\ x \notin lost /\ x \notin ToSet(confirmed)
  <2>1. x \in Msg
    <3>1. CASE x \in ToSet(buffer)
      BY <1>1, <3>1 DEF ToSet
    <3>2. CASE x \in {replaying} \ {NoMsg}
      BY <1>1, <3>2
    <3> QED  BY <1>2, <3>1, <3>2 DEF Waiting
  <2>2. Held(x)
    BY <1>2 DEF Waiting, Held
  <2> QED  BY <2>1, <2>2, NoMsgAssumption DEF RelayInv, NoSilentLoss
<1>3. ASSUME NEW p \in Pump, flight[p] /= NoMsg
      PROVE  /\ flight[p] \in Msg /\ flight[p][1] = p /\ flight[p][2] = received[p]
             /\ Held(flight[p]) /\ flight[p] \notin lost
             /\ flight[p] \notin ToSet(confirmed) /\ flight[p] \notin Waiting
  <2>1. flight[p] \in Msg
    BY <1>1, <1>3
  <2>2. flight[p] = <<p, received[p]>>
    BY <1>3 DEF RelayInv, FlightIsLatest
  <2>3. flight[p][1] = p /\ flight[p][2] = received[p]
    BY <2>2
  <2>4. Held(flight[p])
    BY <2>3 DEF Held
  <2>5. flight[p] \notin Waiting
    BY <1>3 DEF RelayInv, FlightIsApart
  <2> QED  BY <2>1, <2>3, <2>4, <2>5 DEF RelayInv, NoSilentLoss
<1>4. Ordered(buffer)
  BY DEF RelayInv, WaitingInOrder
<1>5. ASSUME replaying /= NoMsg  PROVE replaying \notin ToSet(buffer)
  <2>1. replaying \in Msg
    BY <1>1, <1>5
  <2>2. ~ Older(replaying, replaying)
    BY <2>1, MsgIs DEF Older
  <2> QED  BY <1>5, <2>2 DEF RelayInv, WaitingInOrder
<1> QED  BY <1>2, <1>3, <1>4, <1>5

\* The next message of a pump, before and after it is received.
LEMMA NextMessage ==
  ASSUME received \in [Pump -> Nat], \A o \in Pump : received[o] <= MaxMsgs[o],
         NEW p \in Pump, received[p] < MaxMsgs[p],
         received' = [received EXCEPT ![p] = @ + 1],
         NEW m, m = <<p, received[p] + 1>>
  PROVE  /\ received' \in [Pump -> Nat]
         /\ \A o \in Pump : received'[o] <= MaxMsgs[o]
         /\ \A o \in Pump \ {p} : received'[o] = received[o]
         /\ received'[p] = received[p] + 1
         /\ m \in Msg /\ m /= NoMsg /\ m[1] = p /\ m[2] = received[p] + 1
         /\ ~ Received(m)
         /\ \A x \in Msg : Received(x)' <=> Received(x) \/ x = m
         /\ \A x \in Msg : Received(x) /\ x[1] = p => Older(x, m)
<1>1. received[p] \in Nat /\ MaxMsgs[p] \in Nat
  BY BoundsAssumption
<1>2. /\ received' \in [Pump -> Nat] /\ received'[p] = received[p] + 1
      /\ \A o \in Pump \ {p} : received'[o] = received[o]
  OBVIOUS
<1>3. received[p] + 1 <= MaxMsgs[p] /\ received[p] + 1 \in Nat /\ received[p] + 1 >= 1
  BY <1>1
<1>4. \A o \in Pump : received'[o] <= MaxMsgs[o]
  BY <1>2, <1>3
<1>5. m \in Msg /\ m /= NoMsg
  BY <1>3, IsMsg
<1>6. m[1] = p /\ m[2] = received[p] + 1
  OBVIOUS
<1>7. ~ Received(m)
  <2>1. ~ (received[p] + 1 <= received[p])
    BY <1>1
  <2> QED  BY <2>1, <1>6 DEF Received
<1>8. ASSUME NEW x \in Msg  PROVE Received(x)' <=> Received(x) \/ x = m
  <2>1. x[1] \in Pump /\ x[2] \in Nat /\ x = <<x[1], x[2]>>
    BY MsgIs
  <2>2. CASE x[1] /= p
    <3>1. received'[x[1]] = received[x[1]]
      BY <2>1, <2>2, <1>2
    <3> QED  BY <2>2, <3>1, <1>6 DEF Received
  <2>3. CASE x[1] = p
    <3>1. x[2] <= received[p] + 1 <=> x[2] <= received[p] \/ x[2] = received[p] + 1
      BY <2>1, <1>1
    <3>2. x[2] = received[p] + 1 <=> x = m
      BY <2>1, <2>3
    <3> QED  BY <2>3, <3>1, <3>2, <1>2 DEF Received
  <2> QED  BY <2>2, <2>3
<1>9. ASSUME NEW x \in Msg, Received(x), x[1] = p  PROVE Older(x, m)
  <2>1. x[2] <= received[p] /\ x[2] \in Nat
    BY <1>9, MsgIs DEF Received
  <2>2. x[2] < received[p] + 1
    BY <2>1, <1>1
  <2> QED  BY <2>2, <1>6, <1>9 DEF Older
<1> QED  BY <1>2, <1>4, <1>5, <1>6, <1>7, <1>8, <1>9

\* Where a pump's publish is, when only pump p's changes.
LEMMA FlightOf ==
  ASSUME flight \in [Pump -> Msg \cup {NoMsg}], NEW p \in Pump, NEW v \in Msg \cup {NoMsg},
         flight' = [flight EXCEPT ![p] = v]
  PROVE  /\ flight' \in [Pump -> Msg \cup {NoMsg}] /\ flight'[p] = v
         /\ \A o \in Pump \ {p} : flight'[o] = flight[o]
         /\ \A x \in Msg : flight'[x[1]] = x <=> (x[1] /= p /\ flight[x[1]] = x) \/ (x[1] = p /\ v = x)
<1>1. /\ flight' \in [Pump -> Msg \cup {NoMsg}] /\ flight'[p] = v
      /\ \A o \in Pump \ {p} : flight'[o] = flight[o]
  OBVIOUS
<1>2. ASSUME NEW x \in Msg
      PROVE  flight'[x[1]] = x <=> (x[1] /= p /\ flight[x[1]] = x) \/ (x[1] = p /\ v = x)
  <2>1. x[1] \in Pump
    BY MsgIs
  <2> QED  BY <2>1, <1>1
<1> QED  BY <1>1, <1>2

\* A pump that publishes nothing disturbs no other: what it hands over to wait
\* is its own.
LEMMA StaysApart ==
  ASSUME RelayInv, NEW p \in Pump, flight'[p] = NoMsg,
         \A o \in Pump \ {p} : flight'[o] = flight[o],
         \A x \in Waiting' : x \in Waiting \/ x[1] = p
  PROVE  FlightIsApart'
<1> SUFFICES ASSUME NEW o \in Pump, flight'[o] /= NoMsg
             PROVE  /\ flight'[o] \notin Waiting'
                    /\ o \in EvtPump => \A m, n \in Waiting' : m[1] = o /\ n[1] = o => m = n
  BY DEF FlightIsApart
<1>1. o /= p /\ flight'[o] = flight[o]
  OBVIOUS
<1>2. flight[o] /= NoMsg /\ flight[o][1] = o /\ flight[o] \notin Waiting
  BY <1>1, UnderWay
<1>3. flight'[o] \notin Waiting'
  BY <1>1, <1>2
<1>4. ASSUME o \in EvtPump, NEW m \in Waiting', NEW n \in Waiting', m[1] = o, n[1] = o
      PROVE  m = n
  <2>1. m \in Waiting /\ n \in Waiting
    BY <1>1, <1>4
  <2> QED  BY <2>1, <1>2, <1>4 DEF RelayInv, FlightIsApart
<1> QED  BY <1>3, <1>4

\* An event is pushed, its pump's youngest; the oldest of the buffer may go.
LEMMA Pushed ==
  ASSUME RelayInv, NEW p, NEW m \in Msg, cfg.evtMax > 0, PushAndRecord(p, m),
         UNCHANGED <<cfg, replaying, confirmed>>,
         \A n \in Waiting : n[1] = m[1] => Older(n, m)
  PROVE  /\ buffer' \in Seq(Msg) /\ Len(buffer') <= cfg'.evtMax
         /\ counters' \in [Counter -> Nat] /\ lost' \subseteq Msg
         /\ CountersAddUp' /\ IsFiniteSet(lost') /\ WaitingInOrder'
         /\ PushVictim(buffer, cfg) \subseteq ToSet(buffer)
         /\ m \notin Waiting
         /\ ToSet(buffer') = (ToSet(buffer) \ PushVictim(buffer, cfg)) \cup {m}
         /\ lost' = lost \cup PushVictim(buffer, cfg)
<1> DEFINE victim == PushVictim(buffer, cfg)
<1>1. /\ buffer \in Seq(Msg) /\ Len(buffer) <= cfg.evtMax /\ cfg \in Config
      /\ counters \in [Counter -> Nat] /\ lost \subseteq Msg /\ IsFiniteSet(lost)
      /\ CountersAddUp
  BY ConfigsAssumption DEF RelayInv, TypeOK
<1>2. /\ buffer' = PushEvt(buffer, m, cfg) /\ lost' = lost \cup victim
      /\ Count("bufferDropped", Cardinality(victim))
  <2>1. cfg.evtMax /= 0
    BY <1>1 DEF Config
  <2> QED  BY <2>1 DEF PushAndRecord
<1>3. cfg' = cfg /\ replaying' = replaying /\ confirmed' = confirmed
  OBVIOUS
<1>4. \A n \in ToSet(buffer) : n[1] = m[1] => Older(n, m)
  BY DEF Waiting
<1>5. /\ buffer' \in Seq(Msg) /\ Len(buffer') <= cfg.evtMax /\ Ordered(buffer')
      /\ victim \subseteq ToSet(buffer)
      /\ ToSet(buffer') = (ToSet(buffer) \ victim) \cup {m}
  BY <1>1, <1>2, <1>4, UnderWay, PushShape
<1>6. m \notin Waiting
  <2>1. ~ Older(m, m)
    BY MsgIs DEF Older
  <2> QED  BY <2>1
<1>7. lost' \subseteq Msg
  BY <1>1, <1>2, <1>5, UnderWay DEF Waiting
<1>8. WaitingInOrder'
  <2>1. ASSUME replaying /= NoMsg, NEW x \in ToSet(buffer'), x[1] = replaying[1]
        PROVE  Older(replaying, x)
    <3>1. CASE x \in ToSet(buffer)
      BY <2>1, <3>1 DEF RelayInv, WaitingInOrder
    <3>2. CASE x = m
      BY <2>1, <3>2 DEF Waiting
    <3> QED  BY <2>1, <3>1, <3>2, <1>5
  <2> QED  BY <2>1, <1>3, <1>5 DEF WaitingInOrder
<1>9. counters' \in [Counter -> Nat] /\ CountersAddUp' /\ IsFiniteSet(lost')
  <2>1. CASE victim = {}
    <3>1. Cardinality(victim) = 0 /\ lost' = lost
      BY <2>1, <1>2, FS_EmptySet
    <3>2. counters' = counters
      <4>1. Count("bufferDropped", 0)
        BY <3>1, <1>2
      <4>2. counters["bufferDropped"] + 0 = counters["bufferDropped"]
        BY <1>1, CountersAre
      <4> QED  BY <4>1, <4>2, <1>1 DEF Count
    <3> QED  BY <3>1, <3>2, <1>1, <1>3 DEF CountersAddUp
  <2>2. CASE victim /= {}
    <3>1. victim = {Head(buffer)}
      BY <2>2 DEF PushVictim
    <3>2. Head(buffer) \in ToSet(buffer)
      BY <3>1, <1>5
    <3>3. Head(buffer) \notin lost
      BY <3>2, UnderWay DEF Waiting
    <3>4. Cardinality(victim) = 1
      BY <3>1, FS_Singleton
    <3>5. Count("bufferDropped", 1) /\ lost' = lost \cup {Head(buffer)}
      BY <3>1, <3>4, <1>2
    <3> QED  BY <3>3, <3>5, <1>1, <1>3, GiveUp
  <2> QED  BY <2>1, <2>2
<1> QED  BY <1>2, <1>3, <1>5, <1>6, <1>7, <1>8, <1>9

\* Message m, received before or now, leaves its pump: it waits in the buffer,
\* from which the oldest may go, or it is given up itself.
LEMMA EachHasItsPlace ==
  ASSUME RelayInv, NEW m \in Msg, m \notin Waiting, m \notin lost, m \notin ToSet(confirmed),
         \A x \in Msg : Received(x)' <=> Received(x) \/ x = m,
         \A x \in Msg : flight'[x[1]] = x <=> flight[x[1]] = x /\ x /= m,
         UNCHANGED <<replaying, confirmed>>,
         \/ /\ PushVictim(buffer, cfg) \subseteq ToSet(buffer)
            /\ ToSet(buffer') = (ToSet(buffer) \ PushVictim(buffer, cfg)) \cup {m}
            /\ lost' = lost \cup PushVictim(buffer, cfg)
         \/ lost' = lost \cup {m} /\ UNCHANGED buffer
  PROVE  NoSilentLoss'
<1> SUFFICES ASSUME NEW x \in Msg
             PROVE  /\ Received(x)' <=> x \in ToSet(confirmed)' \/ x \in lost' \/ Held(x)'
                    /\ ~ (x \in ToSet(confirmed)' /\ x \in lost')
                    /\ Held(x)' => x \notin ToSet(confirmed)' /\ x \notin lost'
  BY DEF NoSilentLoss
<1>1. replaying' = replaying /\ (x \in ToSet(confirmed)' <=> x \in ToSet(confirmed))
  OBVIOUS
<1>2. m /= replaying /\ m \notin ToSet(buffer)
  BY NoMsgAssumption DEF Waiting
<1>3. CASE lost' = lost \cup {m} /\ UNCHANGED buffer
  <2>1. Held(x)' <=> Held(x) /\ x /= m
    BY <1>1, <1>2, <1>3 DEF Held
  <2>2. x \in lost' <=> x \in lost \/ x = m
    BY <1>3
  <2> QED  BY <2>1, <2>2, <1>1 DEF RelayInv, NoSilentLoss
<1>4. CASE /\ PushVictim(buffer, cfg) \subseteq ToSet(buffer)
           /\ ToSet(buffer') = (ToSet(buffer) \ PushVictim(buffer, cfg)) \cup {m}
           /\ lost' = lost \cup PushVictim(buffer, cfg)
  <2>1. CASE x \in PushVictim(buffer, cfg)
    <3>1. x \in ToSet(buffer) /\ x /= m
      BY <2>1, <1>2, <1>4
    <3>2. x \in Waiting
      BY <3>1 DEF Waiting
    <3>3. x /= replaying
      BY <3>1, <3>2, UnderWay
    <3>4. flight[x[1]] /= x
      <4>1. x[1] \in Pump
        BY MsgIs
      <4> QED  BY <4>1, <3>2, UnderWay
    <3>5. ~ Held(x)' /\ x \in lost'
      BY <2>1, <3>1, <3>3, <3>4, <1>1, <1>4 DEF Held
    <3>6. Received(x)' /\ x \notin ToSet(confirmed)
      BY <3>2, UnderWay
    <3> QED  BY <3>5, <3>6, <1>1
  <2>2. CASE x \notin PushVictim(buffer, cfg)
    <3>1. Held(x)' <=> Held(x) \/ x = m
      BY <2>2, <1>1, <1>2, <1>4 DEF Held
    <3>2. x \in lost' <=> x \in lost
      BY <2>2, <1>4
    <3> QED  BY <3>1, <3>2, <1>1 DEF RelayInv, NoSilentLoss
  <2> QED  BY <2>1, <2>2
<1> QED  BY <1>3, <1>4

-----------------------------------------------------------------------------
(* The steps of the pumps                                                  *)

LEMMA StartKeepsInv == Init => RelayInv
<1> SUFFICES ASSUME Init  PROVE RelayInv
  OBVIOUS
<1>1. /\ cfg \in Configs /\ link \in BOOLEAN /\ flaps = 0 /\ received = [p \in Pump |-> 0]
      /\ flight = [p \in Pump |-> NoMsg] /\ buffer = <<>> /\ watcher = "idle"
      /\ replaying = NoMsg /\ sampled = link /\ was = link
      /\ counters = [c \in Counter |-> 0] /\ confirmed = <<>> /\ lost = {} /\ owed = FALSE
      /\ arrivals = <<>> /\ queued = {}
  BY DEF Init
<1>2. ToSet(buffer) = {} /\ ToSet(confirmed) = {}
  BY <1>1 DEF ToSet
<1>3. Waiting = {}
  BY <1>1, <1>2 DEF Waiting
<1>4. \A p \in Pump : received[p] = 0 /\ flight[p] = NoMsg /\ MaxMsgs[p] \in Nat
  BY <1>1, BoundsAssumption
<1>5. \A c \in Counter : counters[c] = 0
  BY <1>1
<1>6. TypeOK
  <2>1. flaps \in 0 .. MaxFlaps
    BY <1>1, BoundsAssumption
  <2>2. received \in [Pump -> Nat] /\ flight \in [Pump -> Msg \cup {NoMsg}]
        /\ counters \in [Counter -> Nat]
    BY <1>1
  <2>3. \A p \in Pump : received[p] <= MaxMsgs[p]
    BY <1>4
  <2>4. cfg.evtMax \in Nat
    BY <1>1, ConfigsAssumption DEF Config
  <2>5. buffer \in Seq(Msg) /\ Len(buffer) <= cfg.evtMax /\ confirmed \in Seq(Msg)
        /\ arrivals \in Seq(Msg)
    BY <2>4, <1>1
  <2> QED  BY <2>1, <2>2, <2>3, <2>5, <1>1 DEF TypeOK
<1>7. NoSilentLoss
  <2> SUFFICES ASSUME NEW m \in Msg
               PROVE  ~ Received(m) /\ ~ Held(m) /\ m \notin ToSet(confirmed) /\ m \notin lost
    BY DEF NoSilentLoss
  <2>1. m[1] \in Pump /\ m[2] \in Nat /\ m /= NoMsg
    BY MsgIs, NoMsgAssumption
  <2>2. m[2] >= 1
    <3>1. PICK p \in Pump : m \in {p} \X (1 .. MaxMsgs[p])
      BY DEF Msg
    <3>2. m[2] \in 1 .. MaxMsgs[p] /\ MaxMsgs[p] \in Nat
      BY <3>1, <1>4
    <3> QED  BY <3>2
  <2>3. ~ Received(m)
    BY <2>1, <2>2, <1>4 DEF Received
  <2>4. ~ Held(m)
    BY <2>1, <1>1, <1>2, <1>4 DEF Held
  <2> QED  BY <2>3, <2>4, <1>1, <1>2
<1>8. CountersAddUp /\ IsFiniteSet(lost)
  <2>1. Len(confirmed) = 0 /\ Cardinality(lost) = 0 /\ IsFiniteSet(lost)
    BY <1>1, FS_EmptySet
  <2>2. /\ counters["uplinked"] = 0 /\ counters["replayed"] = 0 /\ counters["disabled"] = 0
        /\ counters["disconnected"] = 0 /\ counters["rate"] = 0
        /\ counters["bufferDropped"] = 0
    BY <1>5 DEF Counter
  <2> QED  BY <2>1, <2>2 DEF CountersAddUp
<1>9. FlightIsLatest /\ FlightIsApart
  BY <1>4 DEF FlightIsLatest, FlightIsApart
<1>10. WaitingInOrder
  BY <1>1 DEF WaitingInOrder, Ordered
<1>11. QueuedIsApart
  BY <1>1 DEF QueuedIsApart, ToSet
<1> QED  BY <1>6, <1>7, <1>8, <1>9, <1>10, <1>11 DEF RelayInv

LEMMA TypesOf ==
  ASSUME RelayInv
  PROVE  /\ cfg \in Configs /\ cfg \in Config /\ cfg.evtMax \in Nat
         /\ link \in BOOLEAN /\ flaps \in 0 .. MaxFlaps
         /\ received \in [Pump -> Nat] /\ \A p \in Pump : received[p] <= MaxMsgs[p]
         /\ flight \in [Pump -> Msg \cup {NoMsg}]
         /\ buffer \in Seq(Msg) /\ Len(buffer) <= cfg.evtMax
         /\ watcher \in {"idle", "broadcasting", "replaying"}
         /\ replaying \in Msg \cup {NoMsg}
         /\ sampled \in BOOLEAN /\ was \in BOOLEAN
         /\ counters \in [Counter -> Nat]
         /\ confirmed \in Seq(Msg) /\ lost \subseteq Msg /\ IsFiniteSet(lost)
         /\ owed \in BOOLEAN /\ arrivals \in Seq(Msg) /\ queued \subseteq Msg
<1>1. TypeOK /\ IsFiniteSet(lost)
  BY DEF RelayInv
<1>2. cfg \in Config
  BY <1>1, ConfigsAssumption DEF TypeOK
<1>3. cfg.evtMax \in Nat
  BY <1>2 DEF Config
<1> QED  BY <1>1, <1>2, <1>3 DEF TypeOK

\* relay_up decides; what becomes of the message is one of three.
LEMMA ReceiveCases ==
  ASSUME RelayInv, NEW p \in Pump, NEW hasToken \in BOOLEAN, Receive(p, hasToken),
         NEW m, m = <<p, received[p] + 1>>
  PROVE  \/ /\ flight' = [flight EXCEPT ![p] = m]
            /\ UNCHANGED <<buffer, counters, lost, queued>>
            /\ p \in EvtPump => buffer = <<>>
         \/ PushAndRecord(p, m) /\ queued' = queued \cup {m} /\ UNCHANGED flight /\ cfg.evtMax > 0
         \/ \E c \in {"disabled", "disconnected", "rate"} :
              Count(c, 1) /\ lost' = lost \cup {m} /\ UNCHANGED <<flight, buffer, queued>>
<1> DEFINE verdict == Admit(ClassOf(p), link, buffer, hasToken, cfg)
<1>1. buffer \in Seq(Msg) /\ Len(buffer) <= cfg.evtMax /\ cfg.evtMax \in Nat
  BY TypesOf
<1>2. verdict = "Forward" => (p \in EvtPump => buffer = <<>>)
  <2> SUFFICES ASSUME verdict = "Forward", p \in EvtPump  PROVE buffer = <<>>
    OBVIOUS
  <2>1. ~ (Buffering("evt", cfg) /\ buffer /= <<>>)
    BY DEF Admit, ClassOf
  <2>2. CASE cfg.evtMax > 0
    BY <2>1, <2>2 DEF Buffering
  <2>3. CASE ~ (cfg.evtMax > 0)
    <3>1. Len(buffer) = 0
      BY <2>3, <1>1
    <3> QED  BY <3>1, <1>1, EmptySeq
  <2> QED  BY <2>2, <2>3
<1>3. verdict = "Buffer" => cfg.evtMax > 0
  BY DEF Admit, Buffering
<1>4. \/ verdict = "Forward" /\ flight' = [flight EXCEPT ![p] = m]
         /\ UNCHANGED <<buffer, counters, lost, queued>>
      \/ verdict = "Buffer" /\ PushAndRecord(p, m) /\ queued' = queued \cup {m} /\ UNCHANGED flight
      \/ \E c \in {"disabled", "disconnected", "rate"} :
           Count(c, 1) /\ lost' = lost \cup {m} /\ UNCHANGED <<flight, buffer, queued>>
  BY DEF Receive
<1> QED  BY <1>2, <1>3, <1>4

\* All that a step of a pump leaves alone or is typed by itself.
LEMMA TypesStay ==
  ASSUME RelayInv, UNCHANGED <<cfg, linkVars, watcher, replaying, sampled, was, owed>>,
         received' \in [Pump -> Nat], \A p \in Pump : received'[p] <= MaxMsgs[p],
         flight' \in [Pump -> Msg \cup {NoMsg}],
         buffer' \in Seq(Msg), Len(buffer') <= cfg'.evtMax,
         counters' \in [Counter -> Nat], confirmed' \in Seq(Msg), lost' \subseteq Msg,
         arrivals' \in Seq(Msg), queued' \subseteq Msg
  PROVE  TypeOK'
<1>1. /\ cfg' = cfg /\ link' = link /\ flaps' = flaps /\ watcher' = watcher
      /\ replaying' = replaying /\ sampled' = sampled /\ was' = was /\ owed' = owed
  BY DEF linkVars
<1> QED  BY <1>1, TypesOf DEF TypeOK

\* So do the histories, in any step but a receipt.
LEMMA HistoriesStay ==
  ASSUME RelayInv, arrivals' = arrivals, queued' = queued, received' = received,
         \A p \in Pump : flight'[p] = flight[p] \/ flight'[p] = NoMsg
  PROVE  QueuedIsApart'
<1>1. queued \subseteq Msg
  BY TypesOf
<1>2. NoMsg \notin queued
  BY <1>1, NoMsgAssumption
<1>3. ASSUME NEW p \in Pump  PROVE flight'[p] \notin queued
  BY <1>2 DEF RelayInv, QueuedIsApart
<1>4. \A m \in ToSet(arrivals) \cup queued : Received(m)'
  BY DEF RelayInv, QueuedIsApart, Received
<1> QED  BY <1>3, <1>4 DEF QueuedIsApart

\* The message received, and what the histories say of it.
LEMMA NewArrival ==
  ASSUME RelayInv, NEW p \in Pump, NEW hasToken \in BOOLEAN, Receive(p, hasToken),
         NEW m \in Msg, m = <<p, received[p] + 1>>, ~ Received(m)
  PROVE  /\ arrivals' = Append(arrivals, m) \/ arrivals' = arrivals
         /\ arrivals' \in Seq(Msg) /\ queued' \subseteq Msg
         /\ ToSet(arrivals') \subseteq ToSet(arrivals) \cup {m}
         /\ queued' \subseteq queued \cup {m}
         /\ m \notin ToSet(arrivals) /\ m \notin queued
<1>1. arrivals' = Append(arrivals, m) \/ arrivals' = arrivals
  BY DEF Receive
<1>2. arrivals \in Seq(Msg) /\ queued \subseteq Msg
  BY TypesOf
<1>3. Append(arrivals, m) \in Seq(Msg)
  BY <1>2
<1>4. queued' = queued \cup {m} \/ queued' = queued
  BY ReceiveCases
<1>5. ToSet(Append(arrivals, m)) \subseteq ToSet(arrivals) \cup {m}
  BY <1>2, InAppend
<1>6. m \notin ToSet(arrivals) /\ m \notin queued
  BY DEF RelayInv, QueuedIsApart
<1> QED  BY <1>1, <1>2, <1>3, <1>4, <1>5, <1>6

LEMMA ReceiveKeepsInv ==
  ASSUME RelayInv, NEW p \in Pump, NEW hasToken \in BOOLEAN, Receive(p, hasToken)
  PROVE  RelayInv'
<1> DEFINE m == <<p, received[p] + 1>>
<1>1. /\ flight[p] = NoMsg /\ received[p] < MaxMsgs[p]
      /\ received' = [received EXCEPT ![p] = @ + 1]
      /\ UNCHANGED <<cfg, linkVars, watcher, replaying, sampled, was, owed>>
      /\ confirmed' = confirmed /\ replaying' = replaying /\ cfg' = cfg
  BY DEF Receive, watcherVars
<1>2. /\ \/ /\ flight' = [flight EXCEPT ![p] = m]
            /\ UNCHANGED <<buffer, counters, lost, queued>>
            /\ p \in EvtPump => buffer = <<>>
         \/ PushAndRecord(p, m) /\ queued' = queued \cup {m} /\ UNCHANGED flight
              /\ cfg.evtMax > 0
         \/ \E c \in {"disabled", "disconnected", "rate"} :
              Count(c, 1) /\ lost' = lost \cup {m} /\ UNCHANGED <<flight, buffer, queued>>
  BY ReceiveCases
<1>3. /\ received' \in [Pump -> Nat]
      /\ \A o \in Pump : received'[o] <= MaxMsgs[o]
      /\ \A o \in Pump \ {p} : received'[o] = received[o]
      /\ received'[p] = received[p] + 1
      /\ m \in Msg /\ m /= NoMsg /\ m[1] = p /\ m[2] = received[p] + 1
      /\ ~ Received(m)
      /\ \A x \in Msg : Received(x)' <=> Received(x) \/ x = m
      /\ \A x \in Msg : Received(x) /\ x[1] = p => Older(x, m)
  BY <1>1, TypesOf, NextMessage
<1>4. /\ ~ Held(m) /\ m \notin lost /\ m \notin ToSet(confirmed) /\ m \notin Waiting
      /\ m /= replaying /\ m \notin ToSet(buffer)
  <2>1. ~ Held(m) /\ m \notin lost /\ m \notin ToSet(confirmed)
    BY <1>3 DEF RelayInv, NoSilentLoss
  <2>2. m \notin Waiting
    BY <2>1, UnderWay
  <2> QED  BY <2>1, <2>2, <1>3 DEF Waiting
<1> HIDE DEF m
<1>9. /\ arrivals' \in Seq(Msg) /\ queued' \subseteq Msg /\ queued' \subseteq queued \cup {m}
      /\ ToSet(arrivals') \subseteq ToSet(arrivals) \cup {m} /\ m \notin queued
  <2>1. m = <<p, received[p] + 1>>
    BY DEF m
  <2> QED  BY <2>1, <1>3, NewArrival
<1>10. \A x \in ToSet(arrivals') \cup queued' : Received(x)'
  <2> SUFFICES ASSUME NEW x \in ToSet(arrivals') \cup queued'  PROVE Received(x)'
    OBVIOUS
  <2>1. CASE x = m
    BY <2>1, <1>3
  <2>2. CASE x \in ToSet(arrivals) \cup queued
    <3>1. Received(x) /\ x \in Msg
      BY <2>2, TypesOf DEF RelayInv, QueuedIsApart, ToSet
    <3> QED  BY <3>1, <1>3
  <2> QED  BY <2>1, <2>2, <1>9
<1>5. CASE /\ flight' = [flight EXCEPT ![p] = m]
           /\ UNCHANGED <<buffer, counters, lost, queued>>
           /\ p \in EvtPump => buffer = <<>>
  <2>1. /\ flight' \in [Pump -> Msg \cup {NoMsg}] /\ flight'[p] = m
        /\ \A o \in Pump \ {p} : flight'[o] = flight[o]
        /\ \A x \in Msg : flight'[x[1]] = x
                            <=> (x[1] /= p /\ flight[x[1]] = x) \/ (x[1] = p /\ m = x)
    BY <1>3, <1>5, TypesOf, FlightOf
  <2>2. buffer' = buffer /\ counters' = counters /\ lost' = lost
    BY <1>5
  <2>3. TypeOK'
    BY <1>1, <1>3, <2>1, <2>2, <1>9, TypesOf, TypesStay
  <2>4. NoSilentLoss'
    <3> SUFFICES ASSUME NEW x \in Msg
                 PROVE  /\ Received(x)' <=> x \in ToSet(confirmed)' \/ x \in lost' \/ Held(x)'
                        /\ ~ (x \in ToSet(confirmed)' /\ x \in lost')
                        /\ Held(x)' => x \notin ToSet(confirmed)' /\ x \notin lost'
      BY DEF NoSilentLoss
    <3>1. x \in ToSet(confirmed)' <=> x \in ToSet(confirmed)
      BY <1>1
    <3>2. Held(x)' <=> Held(x) \/ x = m
      <4>1. x /= NoMsg /\ (x = m => x[1] = p)
        BY <1>3, NoMsgAssumption
      <4> QED  BY <4>1, <1>1, <2>1, <2>2 DEF Held
    <3>3. Received(x)' <=> Received(x) \/ x = m
      BY <1>3
    <3> QED  BY <3>1, <3>2, <3>3, <1>4, <2>2 DEF RelayInv, NoSilentLoss
  <2>5. CountersAddUp' /\ IsFiniteSet(lost')
    BY <1>1, <2>2 DEF RelayInv, CountersAddUp
  <2>6. FlightIsLatest'
    <3>1. m = <<p, received'[p]>>
      BY <1>3 DEF m
    <3> QED  BY <3>1, <1>3, <2>1 DEF RelayInv, FlightIsLatest
  <2>7. Waiting' = Waiting
    BY <1>1, <2>2 DEF Waiting
  <2>8. WaitingInOrder'
    BY <1>1, <2>2 DEF RelayInv, WaitingInOrder
  <2>9. FlightIsApart'
    <3> SUFFICES ASSUME NEW o \in Pump, flight'[o] /= NoMsg
                 PROVE  /\ flight'[o] \notin Waiting'
                        /\ o \in EvtPump =>
                             \A x, y \in Waiting' : x[1] = o /\ y[1] = o => x = y
      BY DEF FlightIsApart
    <3>1. CASE o = p
      <4>1. p \in EvtPump => ToSet(buffer) = {}
        BY <1>5 DEF ToSet
      <4>2. p \in EvtPump => Waiting \subseteq {replaying}
        BY <4>1 DEF Waiting
      <4> QED  BY <3>1, <4>2, <1>4, <2>1, <2>7
    <3>2. CASE o /= p
      BY <3>2, <2>1, <2>7 DEF RelayInv, FlightIsApart
    <3> QED  BY <3>1, <3>2
  <2>10. QueuedIsApart'
    <3>1. queued' = queued
      BY <1>5
    <3>2. \A o \in Pump : flight'[o] \notin queued'
      BY <3>1, <2>1, <1>9 DEF RelayInv, QueuedIsApart
    <3> QED  BY <3>2, <1>10 DEF QueuedIsApart
  <2> QED  BY <2>3, <2>4, <2>5, <2>6, <2>8, <2>9, <2>10 DEF RelayInv
<1>6. ASSUME flight' = flight
      PROVE  FlightIsLatest' /\ QueuedIsApart'
  <2>1. FlightIsLatest'
    BY <1>1, <1>3, <1>6 DEF RelayInv, FlightIsLatest
  <2>2. \A o \in Pump : flight[o] /= m
    <3> TAKE o \in Pump
    <3> QED  BY <1>3, <1>4 DEF Held, RelayInv, FlightIsLatest
  <2>3. \A o \in Pump : flight'[o] \notin queued'
    BY <2>2, <1>6, <1>9 DEF RelayInv, QueuedIsApart
  <2> QED  BY <2>1, <2>3, <1>10 DEF QueuedIsApart
<1>7. CASE PushAndRecord(p, m) /\ UNCHANGED flight /\ cfg.evtMax > 0
  <2>1. flight' = flight
    BY <1>7
  <2>2. \A n \in Waiting : n[1] = m[1] => Older(n, m)
    BY <1>3, UnderWay
  <2>3. /\ buffer' \in Seq(Msg) /\ Len(buffer') <= cfg'.evtMax
        /\ counters' \in [Counter -> Nat] /\ lost' \subseteq Msg
        /\ CountersAddUp' /\ IsFiniteSet(lost') /\ WaitingInOrder'
        /\ PushVictim(buffer, cfg) \subseteq ToSet(buffer)
        /\ ToSet(buffer') = (ToSet(buffer) \ PushVictim(buffer, cfg)) \cup {m}
        /\ lost' = lost \cup PushVictim(buffer, cfg)
    BY <1>1, <1>3, <1>7, <2>2, Pushed
  <2>4. TypeOK'
    BY <1>1, <1>3, <2>1, <2>3, <1>9, TypesOf, TypesStay
  <2>5. NoSilentLoss'
    <3>1. \A x \in Msg : flight'[x[1]] = x <=> flight[x[1]] = x /\ x /= m
      BY <2>1, <1>4 DEF Held
    <3> QED  BY <3>1, <2>3, <1>1, <1>3, <1>4, EachHasItsPlace
  <2>6. FlightIsApart'
    <3>1. \A x \in Waiting' : x \in Waiting \/ x[1] = p
      BY <1>1, <1>3, <2>3 DEF Waiting
    <3> QED  BY <3>1, <2>1, <1>1, StaysApart
  <2> QED  BY <2>1, <2>3, <2>4, <2>5, <2>6, <1>6 DEF RelayInv
<1>8. CASE \E c \in {"disabled", "disconnected", "rate"} :
             Count(c, 1) /\ lost' = lost \cup {m} /\ UNCHANGED <<flight, buffer>>
  <2>1. PICK c \in {"disabled", "disconnected", "rate"} :
          Count(c, 1) /\ lost' = lost \cup {m} /\ UNCHANGED <<flight, buffer>>
    BY <1>8
  <2>2. flight' = flight /\ buffer' = buffer /\ lost' = lost \cup {m} /\ Count(c, 1)
    BY <2>1
  <2>3. c \in {"disabled", "disconnected", "rate", "bufferDropped"}
    OBVIOUS
  <2>4. counters' \in [Counter -> Nat] /\ CountersAddUp' /\ IsFiniteSet(lost')
    <3>1. CountersAddUp
      BY DEF RelayInv
    <3> QED  BY <3>1, <2>2, <2>3, <1>1, <1>4, TypesOf, GiveUp
  <2>5. TypeOK'
    <3>1. lost' \subseteq Msg
      BY <2>2, <1>3, TypesOf
    <3> QED  BY <3>1, <1>1, <1>3, <2>2, <2>4, <1>9, TypesOf, TypesStay
  <2>6. NoSilentLoss'
    <3>1. \A x \in Msg : flight'[x[1]] = x <=> flight[x[1]] = x /\ x /= m
      BY <2>2, <1>4 DEF Held
    <3> QED  BY <3>1, <2>2, <1>1, <1>3, <1>4, EachHasItsPlace
  <2>7. WaitingInOrder'
    BY <1>1, <2>2 DEF RelayInv, WaitingInOrder
  <2>8. FlightIsApart'
    <3>1. Waiting' = Waiting
      BY <1>1, <2>2 DEF Waiting
    <3> QED  BY <3>1, <2>2, <1>1, StaysApart
  <2> QED  BY <2>2, <2>4, <2>5, <2>6, <2>7, <2>8, <1>6 DEF RelayInv
<1> QED  BY <1>2, <1>5, <1>7, <1>8

LEMMA PublishOkKeepsInv ==
  ASSUME RelayInv, NEW p \in Pump, PublishOk(p)
  PROVE  RelayInv'
<1> DEFINE m == flight[p]
<1>1. /\ m /= NoMsg /\ confirmed' = Append(confirmed, m)
      /\ flight' = [flight EXCEPT ![p] = NoMsg] /\ Count("uplinked", 1)
      /\ UNCHANGED <<cfg, linkVars, watcher, replaying, sampled, was, owed>>
      /\ cfg' = cfg /\ received' = received /\ buffer' = buffer /\ lost' = lost
      /\ replaying' = replaying /\ arrivals' = arrivals /\ queued' = queued
  BY DEF PublishOk, watcherVars
<1>2. /\ m \in Msg /\ m[1] = p /\ Held(m) /\ m \notin lost /\ m \notin ToSet(confirmed)
      /\ m \notin Waiting
  BY <1>1, UnderWay
<1>3. m /= replaying /\ m \notin ToSet(buffer)
  BY <1>1, <1>2 DEF Waiting
<1>4. /\ flight' \in [Pump -> Msg \cup {NoMsg}] /\ flight'[p] = NoMsg
      /\ \A o \in Pump \ {p} : flight'[o] = flight[o]
      /\ \A x \in Msg : flight'[x[1]] = x
                          <=> (x[1] /= p /\ flight[x[1]] = x) \/ (x[1] = p /\ NoMsg = x)
  BY <1>1, TypesOf, FlightOf
<1>5. /\ counters' \in [Counter -> Nat] /\ CountersAddUp'
      /\ confirmed' \in Seq(Msg) /\ ToSet(confirmed') = ToSet(confirmed) \cup {m}
  <2>1. CountersAddUp
    BY DEF RelayInv
  <2> HIDE DEF m
  <2> QED  BY <2>1, <1>1, <1>2, TypesOf, Confirm
<1>6. TypeOK'
  BY <1>1, <1>4, <1>5, TypesOf, TypesStay
<1>7. NoSilentLoss'
  <2> SUFFICES ASSUME NEW x \in Msg
               PROVE  /\ Received(x)' <=> x \in ToSet(confirmed)' \/ x \in lost' \/ Held(x)'
                      /\ ~ (x \in ToSet(confirmed)' /\ x \in lost')
                      /\ Held(x)' => x \notin ToSet(confirmed)' /\ x \notin lost'
    BY DEF NoSilentLoss
  <2>1. Received(x)' <=> Received(x)
    BY <1>1 DEF Received
  <2>2. Held(x)' <=> Held(x) /\ x /= m
    <3>1. x /= NoMsg
      BY NoMsgAssumption
    <3> QED  BY <3>1, <1>1, <1>2, <1>3, <1>4 DEF Held
  <2>3. x \in ToSet(confirmed)' <=> x \in ToSet(confirmed) \/ x = m
    BY <1>5
  <2>4. x \in lost' <=> x \in lost
    BY <1>1
  <2> HIDE DEF m
  <2> QED  BY <2>1, <2>2, <2>3, <2>4, <1>2 DEF RelayInv, NoSilentLoss
<1>8. IsFiniteSet(lost')
  BY <1>1, TypesOf
<1>9. FlightIsLatest'
  BY <1>1, <1>4 DEF RelayInv, FlightIsLatest
<1>10. WaitingInOrder'
  BY <1>1 DEF RelayInv, WaitingInOrder
<1>11. FlightIsApart'
  <2>1. Waiting' = Waiting
    BY <1>1 DEF Waiting
  <2> QED  BY <2>1, <1>4, StaysApart
<1>12. QueuedIsApart'
  BY <1>1, <1>4, HistoriesStay
<1> QED  BY <1>5, <1>6, <1>7, <1>8, <1>9, <1>10, <1>11, <1>12 DEF RelayInv

LEMMA PublishErrKeepsInv ==
  ASSUME RelayInv, NEW p \in Pump, PublishErr(p)
  PROVE  RelayInv'
<1> DEFINE m == flight[p]
<1>1. /\ m /= NoMsg /\ flight' = [flight EXCEPT ![p] = NoMsg]
      /\ UNCHANGED <<cfg, linkVars, watcher, replaying, sampled, was, owed>>
      /\ cfg' = cfg /\ received' = received /\ confirmed' = confirmed
      /\ replaying' = replaying /\ arrivals' = arrivals /\ queued' = queued
      /\ \/ PushAndRecord(p, m)
         \/ Count("disconnected", 1) /\ lost' = lost \cup {m} /\ UNCHANGED buffer
  BY DEF PublishErr, watcherVars
<1>2. /\ m \in Msg /\ m[1] = p /\ m[2] = received[p]
      /\ Held(m) /\ m \notin lost /\ m \notin ToSet(confirmed) /\ m \notin Waiting
  BY <1>1, UnderWay
<1>3. m /= replaying /\ m \notin ToSet(buffer)
  BY <1>1, <1>2 DEF Waiting
<1>4. /\ flight' \in [Pump -> Msg \cup {NoMsg}] /\ flight'[p] = NoMsg
      /\ \A o \in Pump \ {p} : flight'[o] = flight[o]
      /\ \A x \in Msg : flight'[x[1]] = x
                          <=> (x[1] /= p /\ flight[x[1]] = x) \/ (x[1] = p /\ NoMsg = x)
  BY <1>1, TypesOf, FlightOf
<1>5. FlightIsLatest' /\ QueuedIsApart'
  <2>1. FlightIsLatest'
    BY <1>1, <1>4 DEF RelayInv, FlightIsLatest
  <2>2. QueuedIsApart'
    BY <1>1, <1>4, HistoriesStay
  <2> QED  BY <2>1, <2>2
<1>6. \A x \in Msg : flight'[x[1]] = x <=> flight[x[1]] = x /\ x /= m
  <2> TAKE x \in Msg
  <2>1. x /= NoMsg /\ x[1] \in Pump
    BY NoMsgAssumption, MsgIs
  <2> QED  BY <2>1, <1>2, <1>4
<1>7. \A x \in Msg : Received(x)' <=> Received(x)
  BY <1>1 DEF Received
<1>8. Received(m)
  BY <1>2 DEF RelayInv, NoSilentLoss
<1>9. \A n \in Waiting : n[1] = m[1] => Older(n, m)
  <2> SUFFICES ASSUME NEW n \in Waiting, n[1] = m[1]  PROVE Older(n, m)
    OBVIOUS
  <2>1. n \in Msg /\ Received(n) /\ n /= m
    BY <1>2, UnderWay
  <2>2. n[2] <= received[p] /\ n[2] \in Nat /\ n = <<n[1], n[2]>>
    BY <2>1, <1>2, MsgIs DEF Received
  <2>3. received[p] \in Nat /\ m = <<m[1], m[2]>>
    BY <1>2, TypesOf, MsgIs
  <2>4. n[2] /= received[p]
    BY <2>1, <2>2, <2>3, <1>2
  <2>5. n[2] < received[p]
    BY <2>2, <2>3, <2>4
  <2> QED  BY <2>5, <1>2 DEF Older
<1> HIDE DEF m
<1>10. CASE lost' = lost \cup {m} /\ buffer' = buffer
              /\ \E c \in {"disconnected", "bufferDropped"} : Count(c, 1)
  <2>1. counters' \in [Counter -> Nat] /\ CountersAddUp' /\ IsFiniteSet(lost')
    <3>1. PICK c \in {"disconnected", "bufferDropped"} : Count(c, 1)
      BY <1>10
    <3>2. c \in {"disabled", "disconnected", "rate", "bufferDropped"} /\ CountersAddUp
      BY DEF RelayInv
    <3> QED  BY <3>1, <3>2, <1>1, <1>2, <1>10, TypesOf, GiveUp
  <2>2. TypeOK'
    <3>1. lost' \subseteq Msg
      BY <1>2, <1>10, TypesOf
    <3> QED  BY <3>1, <2>1, <1>1, <1>4, <1>10, TypesOf, TypesStay
  <2>3. NoSilentLoss'
    BY <1>1, <1>2, <1>6, <1>7, <1>8, <1>10, EachHasItsPlace
  <2>4. WaitingInOrder'
    BY <1>1, <1>10 DEF RelayInv, WaitingInOrder
  <2>5. FlightIsApart'
    <3>1. Waiting' = Waiting
      BY <1>1, <1>10 DEF Waiting
    <3> QED  BY <3>1, <1>4, StaysApart
  <2> QED  BY <2>1, <2>2, <2>3, <2>4, <2>5, <1>5 DEF RelayInv
<1>11. CASE cfg.evtMax > 0 /\ PushAndRecord(p, m)
  <2>1. /\ buffer' \in Seq(Msg) /\ Len(buffer') <= cfg'.evtMax
        /\ counters' \in [Counter -> Nat] /\ lost' \subseteq Msg
        /\ CountersAddUp' /\ IsFiniteSet(lost') /\ WaitingInOrder'
        /\ PushVictim(buffer, cfg) \subseteq ToSet(buffer)
        /\ ToSet(buffer') = (ToSet(buffer) \ PushVictim(buffer, cfg)) \cup {m}
        /\ lost' = lost \cup PushVictim(buffer, cfg)
    BY <1>1, <1>2, <1>9, <1>11, Pushed
  <2>2. TypeOK'
    BY <1>1, <1>4, <2>1, TypesOf, TypesStay
  <2>3. NoSilentLoss'
    BY <1>1, <1>2, <1>6, <1>7, <1>8, <2>1, EachHasItsPlace
  <2>4. FlightIsApart'
    <3>1. \A x \in Waiting' : x \in Waiting \/ x[1] = p
      BY <1>1, <1>2, <2>1 DEF Waiting
    <3> QED  BY <3>1, <1>4, StaysApart
  <2> QED  BY <2>1, <2>2, <2>3, <2>4, <1>5 DEF RelayInv
<1>12. CASE PushAndRecord(p, m)
  <2>1. cfg.evtMax \in Nat
    BY TypesOf
  <2>2. CASE cfg.evtMax = 0
    <3>1. Count("disconnected", 1) /\ lost' = lost \cup {m} /\ buffer' = buffer
      BY <1>12, <2>2 DEF PushAndRecord
    <3> QED  BY <3>1, <1>10
  <2>3. CASE cfg.evtMax > 0
    BY <1>11, <1>12, <2>3
  <2> QED  BY <2>1, <2>2, <2>3
<1>13. CASE Count("disconnected", 1) /\ lost' = lost \cup {m} /\ UNCHANGED buffer
  BY <1>10, <1>13
<1> QED  BY <1>1, <1>12, <1>13 DEF m

-----------------------------------------------------------------------------
(* The steps of the watcher and of the link                                *)

\* A step that moves no message.
LEMMA NothingMoves ==
  ASSUME RelayInv,
         UNCHANGED <<cfg, received, flight, arrivals, queued, buffer, replaying, counters,
                     confirmed, lost>>,
         TypeOK'
  PROVE  RelayInv'
<1>1. /\ cfg' = cfg /\ received' = received /\ flight' = flight /\ buffer' = buffer
      /\ replaying' = replaying /\ counters' = counters /\ confirmed' = confirmed
      /\ lost' = lost /\ arrivals' = arrivals /\ queued' = queued
  OBVIOUS
<1>2. NoSilentLoss'
  BY <1>1 DEF RelayInv, NoSilentLoss, Received, Held
<1>3. CountersAddUp' /\ IsFiniteSet(lost')
  BY <1>1 DEF RelayInv, CountersAddUp
<1>4. FlightIsLatest' /\ WaitingInOrder'
  BY <1>1 DEF RelayInv, FlightIsLatest, WaitingInOrder
<1>5. FlightIsApart'
  <2>1. Waiting' = Waiting
    BY <1>1 DEF Waiting
  <2> QED  BY <2>1, <1>1 DEF RelayInv, FlightIsApart
<1>6. QueuedIsApart'
  BY <1>1, HistoriesStay
<1> QED  BY <1>2, <1>3, <1>4, <1>5, <1>6 DEF RelayInv

LEMMA PollKeepsInv == RelayInv /\ Poll => RelayInv'
<1> SUFFICES ASSUME RelayInv, Poll  PROVE RelayInv'
  OBVIOUS
<1>1. UNCHANGED <<cfg, linkVars, pumpVars, buffer, replaying, counters, confirmed, lost>>
  BY DEF Poll
<1>2. UNCHANGED <<cfg, link, flaps, received, flight, arrivals, queued, buffer, replaying,
                  counters, confirmed, lost>>
  BY <1>1 DEF linkVars, pumpVars
<1>3. sampled' = link /\ watcher' \in {"idle", "broadcasting", "replaying"}
      /\ (was' = link \/ was' = was) /\ (owed' = FALSE \/ owed' = owed)
  BY DEF Poll
<1>4. sampled' \in BOOLEAN /\ was' \in BOOLEAN /\ owed' \in BOOLEAN
  BY <1>3, TypesOf
<1>5. TypeOK'
  BY <1>2, <1>3, <1>4 DEF RelayInv, TypeOK
<1> QED  BY <1>2, <1>5, NothingMoves

LEMMA BroadcastKeepsInv == RelayInv /\ BroadcastDone => RelayInv'
<1> SUFFICES ASSUME RelayInv, BroadcastDone  PROVE RelayInv'
  OBVIOUS
<1>1. UNCHANGED <<cfg, link, flaps, received, flight, arrivals, queued, buffer, replaying,
                  sampled, was, counters, confirmed, lost, owed>> /\ watcher' = "replaying"
  BY DEF BroadcastDone, linkVars, pumpVars
<1>2. TypeOK'
  BY <1>1 DEF RelayInv, TypeOK
<1> QED  BY <1>1, <1>2, NothingMoves

LEMMA LinkKeepsInv == RelayInv /\ (LinkDown \/ LinkUp) => RelayInv'
<1> SUFFICES ASSUME RelayInv, LinkDown \/ LinkUp  PROVE RelayInv'
  OBVIOUS
<1>1. UNCHANGED <<cfg, received, flight, arrivals, queued, buffer, watcher, replaying, sampled, was,
                  counters, confirmed, lost>>
  BY DEF LinkDown, LinkUp, pumpVars, watcherVars
<1>2. link' \in BOOLEAN /\ owed' \in BOOLEAN
  BY TypesOf DEF LinkDown, LinkUp
<1>3. flaps' \in 0 .. MaxFlaps
  <2>1. flaps \in 0 .. MaxFlaps /\ MaxFlaps \in Nat
    BY TypesOf, BoundsAssumption
  <2>2. flaps' = flaps \/ (flaps < MaxFlaps /\ flaps' = flaps + 1)
    BY DEF LinkDown, LinkUp
  <2> QED  BY <2>1, <2>2
<1>4. TypeOK'
  BY <1>1, <1>2, <1>3 DEF RelayInv, TypeOK
<1> QED  BY <1>1, <1>4, NothingMoves

\* The watcher is done with the message in replay, or takes the next; no pump
\* is disturbed.
LEMMA WaitingShrinks ==
  ASSUME RelayInv, UNCHANGED <<received, flight, arrivals, queued>>,
         Waiting' \subseteq Waiting
  PROVE  FlightIsLatest' /\ FlightIsApart' /\ QueuedIsApart'
<1>1. FlightIsLatest'
  BY DEF RelayInv, FlightIsLatest
<1>2. FlightIsApart'
  BY DEF RelayInv, FlightIsApart
<1>3. QueuedIsApart'
  BY HistoriesStay
<1> QED  BY <1>1, <1>2, <1>3

LEMMA ReplayNextKeepsInv == RelayInv /\ ReplayNext => RelayInv'
<1> SUFFICES ASSUME RelayInv, ReplayNext  PROVE RelayInv'
  OBVIOUS
<1>1. /\ cfg' = cfg /\ received' = received /\ flight' = flight /\ counters' = counters
      /\ confirmed' = confirmed /\ lost' = lost /\ replaying = NoMsg
      /\ link' = link /\ flaps' = flaps /\ sampled' = sampled /\ owed' = owed
      /\ arrivals' = arrivals /\ queued' = queued
  BY DEF ReplayNext, linkVars, pumpVars
<1>2. CASE EndTick /\ buffer' = buffer
  <2>1. watcher' = "idle" /\ replaying' = NoMsg /\ was' = sampled
    BY <1>2 DEF EndTick
  <2>2. replaying' = replaying
    BY <2>1, <1>1
  <2>3. TypeOK'
    BY <1>1, <1>2, <2>1 DEF RelayInv, TypeOK
  <2>4. UNCHANGED <<cfg, received, flight, arrivals, queued, buffer, replaying, counters,
                    confirmed, lost>>
    BY <1>1, <1>2, <2>2
  <2> QED  BY <2>3, <2>4, NothingMoves
<1>3. CASE /\ buffer /= <<>> /\ replaying' = Head(buffer) /\ buffer' = Tail(buffer)
           /\ watcher' = watcher /\ was' = was
  <2>1. /\ Head(buffer) \in ToSet(buffer) /\ Head(buffer) \in Msg /\ Tail(buffer) \in Seq(Msg)
        /\ Len(buffer) \in Nat /\ Len(Tail(buffer)) = Len(buffer) - 1
        /\ ToSet(Tail(buffer)) = ToSet(buffer) \ {Head(buffer)}
        /\ Ordered(Tail(buffer))
        /\ \A i \in DOMAIN Tail(buffer) :
             Tail(buffer)[i][1] = Head(buffer)[1] => Older(Head(buffer), Tail(buffer)[i])
    BY <1>3, TypesOf, UnderWay, TailShape
  <2>2. Head(buffer) /= NoMsg
    BY <2>1, NoMsgAssumption
  <2>3. TypeOK'
    <3>1. Len(buffer) <= cfg.evtMax /\ cfg.evtMax \in Nat
      BY TypesOf
    <3>2. Len(buffer') <= cfg'.evtMax
      BY <3>1, <2>1, <1>1, <1>3
    <3> QED  BY <3>2, <2>1, <1>1, <1>3 DEF RelayInv, TypeOK
  <2>4. \A x \in Msg : Held(x)' <=> Held(x)
    <3> TAKE x \in Msg
    <3>1. x /= NoMsg
      BY NoMsgAssumption
    <3>2. x \in ToSet(buffer) <=> x \in ToSet(buffer') \/ x = Head(buffer)
      BY <2>1, <1>3
    <3> QED  BY <3>1, <3>2, <1>1, <1>3 DEF Held
  <2>5. NoSilentLoss'
    BY <2>4, <1>1 DEF RelayInv, NoSilentLoss, Received
  <2>6. CountersAddUp' /\ IsFiniteSet(lost')
    BY <1>1 DEF RelayInv, CountersAddUp
  <2>7. WaitingInOrder'
    <3>1. ASSUME NEW x \in ToSet(Tail(buffer)), x[1] = Head(buffer)[1]
          PROVE  Older(Head(buffer), x)
      BY <3>1, <2>1 DEF ToSet
    <3> QED  BY <3>1, <2>1, <1>3 DEF WaitingInOrder
  <2>8. Waiting' \subseteq Waiting
    BY <2>1, <1>3 DEF Waiting
  <2>9. FlightIsLatest' /\ FlightIsApart' /\ QueuedIsApart'
    BY <2>8, <1>1, WaitingShrinks
  <2> QED  BY <2>3, <2>5, <2>6, <2>7, <2>9 DEF RelayInv
<1> QED  BY <1>2, <1>3 DEF ReplayNext

LEMMA ReplayOkKeepsInv == RelayInv /\ ReplayOk => RelayInv'
<1> SUFFICES ASSUME RelayInv, ReplayOk  PROVE RelayInv'
  OBVIOUS
<1>1. /\ cfg' = cfg /\ received' = received /\ flight' = flight /\ buffer' = buffer
      /\ lost' = lost /\ link' = link /\ flaps' = flaps /\ watcher' = watcher
      /\ sampled' = sampled /\ was' = was /\ owed' = owed
      /\ replaying /= NoMsg /\ replaying' = NoMsg /\ arrivals' = arrivals /\ queued' = queued
      /\ confirmed' = Append(confirmed, replaying) /\ Count("replayed", 1)
  BY DEF ReplayOk, linkVars, pumpVars
<1>2. replaying \in Waiting
  BY <1>1 DEF Waiting
<1>3. /\ replaying \in Msg /\ replaying \notin lost /\ Received(replaying)
      /\ replaying \notin ToSet(buffer)
  BY <1>1, <1>2, UnderWay
<1>4. flight[replaying[1]] /= replaying
  <2>1. replaying[1] \in Pump
    BY <1>3, MsgIs
  <2> QED  BY <2>1, <1>1, <1>2, UnderWay
<1>5. /\ counters' \in [Counter -> Nat] /\ CountersAddUp'
      /\ confirmed' \in Seq(Msg) /\ ToSet(confirmed') = ToSet(confirmed) \cup {replaying}
  <2>1. CountersAddUp
    BY DEF RelayInv
  <2> QED  BY <2>1, <1>1, <1>3, TypesOf, Confirm
<1>6. TypeOK'
  BY <1>1, <1>5 DEF RelayInv, TypeOK
<1>7. NoSilentLoss'
  <2> SUFFICES ASSUME NEW x \in Msg
               PROVE  /\ Received(x)' <=> x \in ToSet(confirmed)' \/ x \in lost' \/ Held(x)'
                      /\ ~ (x \in ToSet(confirmed)' /\ x \in lost')
                      /\ Held(x)' => x \notin ToSet(confirmed)' /\ x \notin lost'
    BY DEF NoSilentLoss
  <2>1. Received(x)' <=> Received(x)
    BY <1>1 DEF Received
  <2>2. Held(x)' <=> Held(x) /\ x /= replaying
    <3>1. x /= NoMsg
      BY NoMsgAssumption
    <3> QED  BY <3>1, <1>1, <1>3, <1>4 DEF Held
  <2>3. x \in ToSet(confirmed)' <=> x \in ToSet(confirmed) \/ x = replaying
    BY <1>5
  <2>4. x \in lost' <=> x \in lost
    BY <1>1
  <2>5. Held(replaying)
    BY DEF Held
  <2> QED  BY <2>1, <2>2, <2>3, <2>4, <2>5, <1>3 DEF RelayInv, NoSilentLoss
<1>8. WaitingInOrder'
  BY <1>1 DEF RelayInv, WaitingInOrder
<1>9. Waiting' \subseteq Waiting
  BY <1>1 DEF Waiting
<1>10. FlightIsLatest' /\ FlightIsApart' /\ QueuedIsApart'
  BY <1>1, <1>9, WaitingShrinks
<1>11. IsFiniteSet(lost')
  BY <1>1, TypesOf
<1> QED  BY <1>5, <1>6, <1>7, <1>8, <1>10, <1>11 DEF RelayInv

LEMMA ReplayErrKeepsInv == RelayInv /\ ReplayErr => RelayInv'
<1> SUFFICES ASSUME RelayInv, ReplayErr  PROVE RelayInv'
  OBVIOUS
<1>1. /\ cfg' = cfg /\ received' = received /\ flight' = flight /\ link' = link
      /\ flaps' = flaps /\ sampled' = sampled /\ owed' = owed /\ confirmed' = confirmed
      /\ replaying /= NoMsg /\ arrivals' = arrivals /\ queued' = queued
      /\ watcher' = "idle" /\ replaying' = NoMsg /\ was' = sampled
  BY DEF ReplayErr, EndTick, linkVars, pumpVars
<1>2. replaying \in Waiting
  BY <1>1 DEF Waiting
<1>3. /\ replaying \in Msg /\ replaying \notin lost /\ Received(replaying) /\ Held(replaying)
      /\ replaying \notin ToSet(confirmed) /\ replaying \notin ToSet(buffer)
  BY <1>1, <1>2, UnderWay
<1>4. flight[replaying[1]] /= replaying
  <2>1. replaying[1] \in Pump
    BY <1>3, MsgIs
  <2> QED  BY <2>1, <1>1, <1>2, UnderWay
<1>5. \A x \in Msg : Received(x)' <=> Received(x)
  BY <1>1 DEF Received
<1>6. CASE CanRequeue(buffer, cfg) /\ buffer' = Cons(replaying, buffer)
             /\ UNCHANGED <<counters, lost>>
  <2>1. counters' = counters /\ lost' = lost
    BY <1>6
  <2>2. \A n \in ToSet(buffer) : n[1] = replaying[1] => Older(replaying, n)
    BY <1>1 DEF RelayInv, WaitingInOrder
  <2>3. /\ buffer' \in Seq(Msg) /\ Len(buffer') = Len(buffer) + 1
        /\ ToSet(buffer') = ToSet(buffer) \cup {replaying} /\ Ordered(buffer')
    BY <1>3, <1>6, <2>2, TypesOf, UnderWay, ConsShape
  <2>4. Len(buffer') <= cfg'.evtMax
    <3>1. Len(buffer) < cfg.evtMax
      BY <1>6 DEF CanRequeue
    <3>2. Len(buffer) \in Nat /\ cfg.evtMax \in Nat
      BY TypesOf
    <3> QED  BY <3>1, <3>2, <2>3, <1>1
  <2>5. TypeOK'
    BY <1>1, <2>1, <2>3, <2>4 DEF RelayInv, TypeOK
  <2>6. \A x \in Msg : Held(x)' <=> Held(x)
    <3> TAKE x \in Msg
    <3>1. x /= NoMsg
      BY NoMsgAssumption
    <3> QED  BY <3>1, <2>3, <1>1 DEF Held
  <2>7. NoSilentLoss'
    BY <1>1, <1>5, <2>1, <2>6 DEF RelayInv, NoSilentLoss
  <2>8. CountersAddUp' /\ IsFiniteSet(lost')
    BY <1>1, <2>1 DEF RelayInv, CountersAddUp
  <2>9. WaitingInOrder'
    BY <1>1, <2>3 DEF WaitingInOrder
  <2>10. Waiting' \subseteq Waiting
    BY <1>1, <2>3 DEF Waiting
  <2> QED  BY <2>5, <2>7, <2>8, <2>9, <2>10, <1>1, WaitingShrinks DEF RelayInv
<1>7. CASE lost' = lost \cup {replaying} /\ Count("bufferDropped", 1) /\ buffer' = buffer
  <2>1. counters' \in [Counter -> Nat] /\ CountersAddUp' /\ IsFiniteSet(lost')
    <3>1. CountersAddUp
      BY DEF RelayInv
    <3>2. "bufferDropped" \in {"disabled", "disconnected", "rate", "bufferDropped"}
      OBVIOUS
    <3> QED  BY <3>1, <3>2, <1>1, <1>3, <1>7, TypesOf, GiveUp
  <2>2. TypeOK'
    <3>1. lost' \subseteq Msg
      BY <1>3, <1>7, TypesOf
    <3> QED  BY <3>1, <2>1, <1>1, <1>7 DEF RelayInv, TypeOK
  <2>3. NoSilentLoss'
    <3> SUFFICES ASSUME NEW x \in Msg
                 PROVE  /\ Received(x)' <=> x \in ToSet(confirmed)' \/ x \in lost' \/ Held(x)'
                        /\ ~ (x \in ToSet(confirmed)' /\ x \in lost')
                        /\ Held(x)' => x \notin ToSet(confirmed)' /\ x \notin lost'
      BY DEF NoSilentLoss
    <3>1. Held(x)' <=> Held(x) /\ x /= replaying
      <4>1. x /= NoMsg
        BY NoMsgAssumption
      <4> QED  BY <4>1, <1>1, <1>3, <1>4, <1>7 DEF Held
    <3>2. x \in lost' <=> x \in lost \/ x = replaying
      BY <1>7
    <3>3. x \in ToSet(confirmed)' <=> x \in ToSet(confirmed)
      BY <1>1
    <3> QED  BY <3>1, <3>2, <3>3, <1>3, <1>5 DEF RelayInv, NoSilentLoss
  <2>4. WaitingInOrder'
    BY <1>1, <1>7 DEF RelayInv, WaitingInOrder
  <2>5. Waiting' \subseteq Waiting
    BY <1>1, <1>7 DEF Waiting
  <2> QED  BY <2>1, <2>2, <2>3, <2>4, <2>5, <1>1, WaitingShrinks DEF RelayInv
<1> QED  BY <1>6, <1>7 DEF ReplayErr

-----------------------------------------------------------------------------
(* What the uplink relay keeps                                             *)

\* Every step of the relay keeps the invariant.
LEMMA StepKeepsInv == RelayInv /\ [Next]_vars => RelayInv'
<1> SUFFICES ASSUME RelayInv, [Next]_vars  PROVE RelayInv'
  OBVIOUS
<1>1. CASE \E p \in Pump, hasToken \in BOOLEAN : Receive(p, hasToken)
  BY <1>1, ReceiveKeepsInv
<1>2. CASE \E p \in Pump : PumpStep(p)
  BY <1>2, PublishOkKeepsInv, PublishErrKeepsInv DEF PumpStep
<1>3. CASE WatcherStep
  BY <1>3, PollKeepsInv, BroadcastKeepsInv, ReplayNextKeepsInv, ReplayOkKeepsInv,
     ReplayErrKeepsInv DEF WatcherStep
<1>4. CASE LinkDown \/ LinkUp
  BY <1>4, LinkKeepsInv
<1>5. CASE UNCHANGED vars
  <2>1. UNCHANGED <<cfg, link, flaps, received, flight, arrivals, queued, buffer, watcher,
                    replaying, sampled, was, counters, confirmed, lost, owed>>
    BY <1>5 DEF vars, linkVars, pumpVars, watcherVars
  <2>2. TypeOK'
    BY <2>1 DEF RelayInv, TypeOK
  <2> QED  BY <2>1, <2>2, NothingMoves
<1> QED  BY <1>1, <1>2, <1>3, <1>4, <1>5 DEF Next

\* Where each message is, and what each stage of its way knows of the others:
\* relay_up, the watcher and the link keep this in every step.
THEOREM RelayKeepsInv == Spec => []RelayInv
<1>1. Init => RelayInv
  BY StartKeepsInv
<1>2. RelayInv /\ [Next]_vars => RelayInv'
  BY StepKeepsInv
<1> QED  BY <1>1, <1>2, PTL DEF Spec

\* Every variable keeps its type, and the evt buffer its bound.
THEOREM TypesHold == Spec => []TypeOK
<1>1. RelayInv => TypeOK
  BY DEF RelayInv
<1> QED  BY <1>1, RelayKeepsInv, PTL

\* What a pump received is confirmed, given up or held by the bridge, and one
\* of these.
THEOREM NothingVanishes == Spec => []NoSilentLoss
<1>1. RelayInv => NoSilentLoss
  BY DEF RelayInv
<1> QED  BY <1>1, RelayKeepsInv, PTL

\* The counters of RelayCounters add up to the messages that are confirmed and
\* to those that are given up.
THEOREM CountsAreRight == Spec => []CountersAddUp
<1>1. RelayInv => CountersAddUp
  BY DEF RelayInv
<1> QED  BY <1>1, RelayKeepsInv, PTL

\* The buffer and the message in replay stay in the order of receipt.
THEOREM ReplayKeepsOrder == Spec => []ReplayInOrder
<1>1. RelayInv => ReplayInOrder
  <2> SUFFICES ASSUME RelayInv  PROVE ReplayInOrder
    OBVIOUS
  <2>1. ASSUME NEW m \in Msg, NEW n \in Msg, Older(m, n)  PROVE ~ Older(n, m)
    <3>1. m[2] \in Nat /\ n[2] \in Nat
      BY MsgIs
    <3> QED  BY <2>1, <3>1 DEF Older
  <2>2. buffer \in Seq(Msg) /\ replaying \in Msg \cup {NoMsg}
    BY TypesOf
  <2>3. \A i \in DOMAIN buffer : buffer[i] \in Msg /\ buffer[i] \in ToSet(buffer)
    BY <2>2 DEF ToSet
  <2>4. ASSUME NEW i \in DOMAIN buffer, NEW j \in DOMAIN buffer, i < j
        PROVE  ~ Older(buffer[j], buffer[i])
    <3>1. CASE buffer[i][1] = buffer[j][1]
      <4>1. Older(buffer[i], buffer[j])
        BY <2>4, <3>1, UnderWay DEF Ordered
      <4> QED  BY <4>1, <2>1, <2>3
    <3>2. CASE buffer[i][1] /= buffer[j][1]
      BY <3>2 DEF Older
    <3> QED  BY <3>1, <3>2
  <2>5. ASSUME replaying /= NoMsg, NEW i \in DOMAIN buffer
        PROVE  ~ Older(buffer[i], replaying)
    <3>1. CASE buffer[i][1] = replaying[1]
      <4>1. Older(replaying, buffer[i])
        BY <2>3, <2>5, <3>1 DEF RelayInv, WaitingInOrder
      <4> QED  BY <4>1, <2>1, <2>2, <2>3, <2>5
    <3>2. CASE buffer[i][1] /= replaying[1]
      BY <3>2 DEF Older
    <3> QED  BY <3>1, <3>2
  <2> QED  BY <2>4, <2>5 DEF ReplayInOrder
<1> QED  BY <1>1, RelayKeepsInv, PTL

\* A live evt overtakes at most the one event of its pump that is in replay.
THEOREM OvertakingIsBounded == Spec => []OvertakesAtMostOne
<1>1. RelayInv => OvertakesAtMostOne
  <2> SUFFICES ASSUME RelayInv, NEW p \in EvtPump, flight[p] /= NoMsg
               PROVE  Cardinality({m \in Waiting : Older(m, flight[p])}) <= 1
    BY DEF OvertakesAtMostOne
  <2> DEFINE passed == {m \in Waiting : Older(m, flight[p])}
  <2>1. p \in Pump
    BY EvtPumpAssumption
  <2>2. flight[p][1] = p
    BY <2>1, UnderWay
  <2>3. \A m, n \in passed : m = n
    BY <2>1, <2>2 DEF Older, RelayInv, FlightIsApart
  <2> HIDE DEF passed
  <2>4. ASSUME passed = {}  PROVE Cardinality(passed) <= 1
    BY <2>4, FS_EmptySet
  <2>5. ASSUME passed /= {}  PROVE Cardinality(passed) <= 1
    <3>1. PICK m \in passed : TRUE
      BY <2>5
    <3>2. passed = {m}
      BY <3>1, <2>3
    <3>3. Cardinality(passed) = 1
      BY <3>2, FS_Singleton
    <3> QED  BY <3>3
  <2>6. Cardinality(passed) <= 1
    BY <2>4, <2>5
  <2> QED  BY <2>6 DEF passed
<1> QED  BY <1>1, RelayKeepsInv, PTL

-----------------------------------------------------------------------------
(* What waits goes in turn                                                 *)

LEMMA AheadIn ==
  ASSUME NEW q, NEW x, NEW y, Ahead(q, x, y)
  PROVE  x \in ToSet(q) /\ y \in ToSet(q)
  BY DEF Ahead, ToSet

LEMMA AheadInTail ==
  ASSUME NEW q \in Seq(Msg), q /= <<>>
  PROVE  /\ \A x, y : Ahead(Tail(q), x, y) => Ahead(q, x, y)
         /\ \A x \in ToSet(Tail(q)) : Ahead(q, Head(q), x)
<1> DEFINE r == Tail(q)
<1>1. /\ r \in Seq(Msg) /\ Len(r) = Len(q) - 1 /\ \A i \in 1 .. Len(r) : r[i] = q[i + 1]
  BY HeadTailProperties
<1>2. /\ Len(q) \in Nat /\ Len(q) >= 1 /\ DOMAIN q = 1 .. Len(q) /\ Head(q) = q[1]
      /\ DOMAIN r = 1 .. Len(r)
  BY <1>1, EmptySeq
<1> HIDE DEF r
<1>3. \A i \in DOMAIN r : r[i] = q[i + 1] /\ i + 1 \in DOMAIN q /\ 1 < i + 1 /\ i \in Nat
  BY <1>1, <1>2
<1>4. 1 \in DOMAIN q
  BY <1>2
<1>5. ASSUME NEW x, NEW y, Ahead(r, x, y)  PROVE Ahead(q, x, y)
  <2>1. PICK i, j \in DOMAIN r : i < j /\ r[i] = x /\ r[j] = y
    BY <1>5 DEF Ahead
  <2>2. i + 1 < j + 1
    BY <2>1, <1>3
  <2> QED  BY <2>1, <2>2, <1>3 DEF Ahead
<1>6. ASSUME NEW x \in ToSet(r)  PROVE Ahead(q, Head(q), x)
  <2>1. PICK i \in DOMAIN r : r[i] = x
    BY <1>6 DEF ToSet
  <2> QED  BY <2>1, <1>2, <1>3, <1>4 DEF Ahead
<1> QED  BY <1>5, <1>6 DEF r

LEMMA AheadInAppend ==
  ASSUME NEW q \in Seq(Msg), NEW m \in Msg, NEW x, NEW y, Ahead(Append(q, m), x, y)
  PROVE  Ahead(q, x, y) \/ (y = m /\ x \in ToSet(q))
<1> DEFINE r == Append(q, m)
<1>1. /\ \A i \in 1 .. Len(q) : r[i] = q[i]
      /\ r[Len(q) + 1] = m /\ Len(q) \in Nat
      /\ DOMAIN r = 1 .. Len(q) + 1 /\ DOMAIN q = 1 .. Len(q)
  OBVIOUS
<1>2. PICK i, j \in DOMAIN r : i < j /\ r[i] = x /\ r[j] = y
  BY DEF Ahead
<1> HIDE DEF r
<1>3. i \in DOMAIN q /\ r[i] = q[i]
  BY <1>1, <1>2
<1>4. CASE j = Len(q) + 1
  BY <1>1, <1>2, <1>3, <1>4 DEF ToSet
<1>5. CASE j /= Len(q) + 1
  <2>1. j \in DOMAIN q /\ r[j] = q[j]
    BY <1>1, <1>5
  <2> QED  BY <2>1, <1>2, <1>3 DEF Ahead
<1> QED  BY <1>4, <1>5

LEMMA AheadInCons ==
  ASSUME NEW q \in Seq(Msg), NEW m \in Msg, NEW x, NEW y, Ahead(Cons(m, q), x, y)
  PROVE  Ahead(q, x, y) \/ (x = m /\ y \in ToSet(q))
<1> DEFINE r == <<m>> \o q
<1>1. <<m>> \in Seq(Msg) /\ Len(<<m>>) = 1 /\ <<m>>[1] = m
  OBVIOUS
<1>2. /\ r \in Seq(Msg) /\ Len(r) = 1 + Len(q)
      /\ \A i \in 1 .. 1 + Len(q) : r[i] = IF i <= 1 THEN <<m>>[i] ELSE q[i - 1]
  BY <1>1, ConcatProperties
<1>3. Len(q) \in Nat /\ DOMAIN q = 1 .. Len(q)
  OBVIOUS
<1>4. DOMAIN r = 1 .. Len(q) + 1
  BY <1>2, <1>3
<1>5. Ahead(r, x, y)
  BY DEF r, Cons
<1> HIDE DEF r
<1>6. 1 \in DOMAIN r /\ r[1] = m
  BY <1>1, <1>2, <1>3, <1>4
<1>7. ASSUME NEW i \in DOMAIN r, i /= 1
      PROVE  i - 1 \in DOMAIN q /\ r[i] = q[i - 1] /\ i \in Nat
  BY <1>2, <1>3, <1>4, <1>7
<1>8. PICK i, j \in DOMAIN r : i < j /\ r[i] = x /\ r[j] = y
  BY <1>5 DEF Ahead
<1>9. i >= 1 /\ i \in Nat /\ j \in Nat
  BY <1>4
<1>10. j /= 1
  BY <1>8, <1>9
<1>11. j - 1 \in DOMAIN q /\ q[j - 1] = y
  BY <1>7, <1>8, <1>10
<1>12. CASE i = 1
  BY <1>6, <1>8, <1>11, <1>12 DEF ToSet
<1>13. CASE i /= 1
  <2>1. i - 1 \in DOMAIN q /\ q[i - 1] = x
    BY <1>7, <1>8, <1>13
  <2>2. i - 1 < j - 1
    BY <1>8, <1>9
  <2> QED  BY <2>1, <2>2, <1>11 DEF Ahead
<1> QED  BY <1>12, <1>13

\* A push puts the message behind all that stay.
LEMMA AheadInPush ==
  ASSUME NEW q \in Seq(Msg), NEW m \in Msg, NEW c \in Config, c.evtMax > 0,
         NEW x, NEW y, Ahead(PushEvt(q, m, c), x, y)
  PROVE  Ahead(q, x, y) \/ y = m
<1>1. c.evtMax \in Nat /\ Len(q) \in Nat
  BY DEF Config
<1>2. CASE Len(q) >= c.evtMax
  <2>1. q /= <<>>
    BY <1>1, <1>2, EmptySeq
  <2>2. Tail(q) \in Seq(Msg) /\ PushEvt(q, m, c) = Append(Tail(q), m)
    BY <2>1, <1>2, HeadTailProperties DEF PushEvt
  <2>3. Ahead(Tail(q), x, y) \/ y = m
    BY <2>2, AheadInAppend
  <2> QED  BY <2>1, <2>3, AheadInTail
<1>3. CASE ~ (Len(q) >= c.evtMax)
  <2>1. PushEvt(q, m, c) = Append(q, m)
    BY <1>3 DEF PushEvt
  <2> QED  BY <2>1, AheadInAppend
<1> QED  BY <1>2, <1>3

LEMMA InPush ==
  ASSUME NEW q \in Seq(Msg), NEW m \in Msg, NEW c \in Config, c.evtMax > 0,
         Ordered(q), NEW x \in ToSet(PushEvt(q, m, c))
  PROVE  x \in ToSet(q) \/ x = m
<1>1. c.evtMax \in Nat /\ Len(q) \in Nat
  BY DEF Config
<1>2. CASE Len(q) >= c.evtMax
  <2>1. q /= <<>>
    BY <1>1, <1>2, EmptySeq
  <2>2. Tail(q) \in Seq(Msg) /\ ToSet(Tail(q)) \subseteq ToSet(q)
    BY <2>1, TailShape
  <2>3. PushEvt(q, m, c) = Append(Tail(q), m)
    BY <1>2 DEF PushEvt
  <2> QED  BY <2>2, <2>3, InAppend
<1>3. CASE ~ (Len(q) >= c.evtMax)
  <2>1. PushEvt(q, m, c) = Append(q, m)
    BY <1>3 DEF PushEvt
  <2> QED  BY <2>1, InAppend
<1> QED  BY <1>2, <1>3

\* What the property says before a step, in one place.
LEMMA InTurnNow ==
  ASSUME RelayInv, BufferedInTurn
  PROVE  /\ \A x, y \in queued : Ahead(confirmed, x, y) => ~ Ahead(arrivals, y, x)
         /\ \A x, y \in queued : Ahead(buffer, x, y) => ~ Ahead(arrivals, y, x)
         /\ \A x \in ToSet(confirmed) \cap queued, y \in Waiting \cap queued :
              ~ Ahead(arrivals, y, x)
         /\ replaying \in queued =>
              \A y \in ToSet(buffer) \cap queued : ~ Ahead(arrivals, y, replaying)
         /\ \A p \in EvtPump : flight[p] /= NoMsg =>
              \A x, y \in Waiting \cap queued :
                Ahead(arrivals, x, flight[p]) /\ Ahead(arrivals, y, flight[p]) => x = y
         /\ NoMsg \notin queued
         /\ \A p \in Pump : flight[p] \notin queued
<1>1. queued \subseteq Msg
  BY TypesOf
<1>2. NoMsg \notin queued /\ \A p \in Pump : flight[p] \notin queued
  BY <1>1, NoMsgAssumption DEF RelayInv, QueuedIsApart
<1> QED  BY <1>2 DEF BufferedInTurn, InTurn, Before

\* What it takes to say after it.
LEMMA InTurnThen ==
  ASSUME \A x, y \in queued' : Ahead(confirmed', x, y) => ~ Ahead(arrivals', y, x),
         \A x, y \in queued' : Ahead(buffer', x, y) => ~ Ahead(arrivals', y, x),
         \A x \in ToSet(confirmed') \cap queued', y \in Waiting' \cap queued' :
           ~ Ahead(arrivals', y, x),
         replaying' \in queued' =>
           \A y \in ToSet(buffer') \cap queued' : ~ Ahead(arrivals', y, replaying'),
         \A p \in EvtPump : flight'[p] /= NoMsg =>
           \A x, y \in Waiting' \cap queued' :
             Ahead(arrivals', x, flight'[p]) /\ Ahead(arrivals', y, flight'[p]) => x = y
  PROVE  BufferedInTurn'
  BY DEF BufferedInTurn, InTurn, Before, Ahead

\* A step that moves none of the messages told to wait, but may drop some.
LEMMA TurnStays ==
  ASSUME RelayInv, BufferedInTurn, arrivals' = arrivals, queued' = queued,
         \A x, y \in queued : Ahead(confirmed', x, y) => Ahead(confirmed, x, y),
         ToSet(confirmed') \cap queued \subseteq ToSet(confirmed),
         \A x, y \in queued : Ahead(buffer', x, y) => Ahead(buffer, x, y),
         ToSet(buffer') \cap queued \subseteq ToSet(buffer),
         replaying' = replaying \/ replaying' = NoMsg,
         \A p \in Pump : flight'[p] = flight[p] \/ flight'[p] = NoMsg
  PROVE  BufferedInTurn'
<1>1. Waiting' \cap queued \subseteq Waiting
  BY DEF Waiting
<1>2. \A x, y \in queued' : Ahead(confirmed', x, y) => ~ Ahead(arrivals', y, x)
  BY InTurnNow
<1>3. \A x, y \in queued' : Ahead(buffer', x, y) => ~ Ahead(arrivals', y, x)
  BY InTurnNow
<1>4. \A x \in ToSet(confirmed') \cap queued', y \in Waiting' \cap queued' :
        ~ Ahead(arrivals', y, x)
  BY <1>1, InTurnNow
<1>5. replaying' \in queued' =>
        \A y \in ToSet(buffer') \cap queued' : ~ Ahead(arrivals', y, replaying')
  BY InTurnNow
<1>6. ASSUME NEW p \in EvtPump, flight'[p] /= NoMsg, NEW x \in Waiting' \cap queued',
             NEW y \in Waiting' \cap queued',
             Ahead(arrivals', x, flight'[p]), Ahead(arrivals', y, flight'[p])
      PROVE  x = y
  <2>1. flight'[p] = flight[p]
    BY <1>6, EvtPumpAssumption
  <2>2. x \in Waiting \cap queued /\ y \in Waiting \cap queued
    BY <1>1, <1>6
  <2> QED  BY <2>1, <2>2, <1>6, InTurnNow
<1> QED  BY <1>2, <1>3, <1>4, <1>5, <1>6, InTurnThen

LEMMA PumpKeepsTurn ==
  ASSUME RelayInv, BufferedInTurn, NEW p \in Pump, PumpStep(p)
  PROVE  BufferedInTurn'
<1> DEFINE m == flight[p]
<1>1. /\ m /= NoMsg /\ flight' = [flight EXCEPT ![p] = NoMsg]
      /\ cfg' = cfg /\ replaying' = replaying /\ arrivals' = arrivals /\ queued' = queued
  BY DEF PumpStep, PublishOk, PublishErr, watcherVars
<1>2. m \in Msg /\ m \notin queued /\ m \notin Waiting
  BY <1>1, UnderWay, InTurnNow
<1>3. \A o \in Pump : flight'[o] = flight[o] \/ flight'[o] = NoMsg
  <2>1. flight \in [Pump -> Msg \cup {NoMsg}]
    BY TypesOf
  <2> QED  BY <2>1, <1>1
<1>4. /\ confirmed \in Seq(Msg) /\ buffer \in Seq(Msg) /\ cfg \in Config
      /\ cfg.evtMax \in Nat /\ Len(buffer) <= cfg.evtMax /\ counters \in [Counter -> Nat]
  BY TypesOf
<1> HIDE DEF m
<1>5. CASE confirmed' = Append(confirmed, m) /\ buffer' = buffer
  <2>1. \A x, y \in queued : Ahead(confirmed', x, y) => Ahead(confirmed, x, y)
    BY <1>2, <1>4, <1>5, AheadInAppend
  <2>2. ToSet(confirmed') \cap queued \subseteq ToSet(confirmed)
    BY <1>2, <1>4, <1>5, InAppend
  <2> QED  BY <2>1, <2>2, <1>1, <1>3, <1>5, TurnStays
<1>6. CASE confirmed' = confirmed /\ buffer' = buffer
  BY <1>1, <1>3, <1>6, TurnStays
<1>7. CASE confirmed' = confirmed /\ buffer' = PushEvt(buffer, m, cfg) /\ cfg.evtMax /= 0
  <2>1. cfg.evtMax > 0
    BY <1>4, <1>7
  <2>2. \A x, y \in queued : Ahead(buffer', x, y) => Ahead(buffer, x, y)
    BY <2>1, <1>2, <1>4, <1>7, AheadInPush
  <2>3. ToSet(buffer') \cap queued \subseteq ToSet(buffer)
    BY <2>1, <1>2, <1>4, <1>7, UnderWay, InPush
  <2> QED  BY <2>2, <2>3, <1>1, <1>3, <1>7, TurnStays
<1>8. PushAndRecord(p, m) =>
        buffer' = buffer \/ (buffer' = PushEvt(buffer, m, cfg) /\ cfg.evtMax /= 0)
  BY DEF PushAndRecord
<1>9. \/ confirmed' = Append(confirmed, m) /\ buffer' = buffer
      \/ confirmed' = confirmed /\ (PushAndRecord(p, m) \/ buffer' = buffer)
  BY DEF PumpStep, PublishOk, PublishErr, m
<1> QED  BY <1>5, <1>6, <1>7, <1>8, <1>9

LEMMA WatcherKeepsTurn == RelayInv /\ BufferedInTurn /\ WatcherStep => BufferedInTurn'
<1> SUFFICES ASSUME RelayInv, BufferedInTurn, WatcherStep  PROVE BufferedInTurn'
  OBVIOUS
<1>1. flight' = flight /\ arrivals' = arrivals /\ queued' = queued
  BY DEF WatcherStep, Poll, BroadcastDone, ReplayNext, ReplayOk, ReplayErr, pumpVars
<1>2. confirmed \in Seq(Msg) /\ buffer \in Seq(Msg) /\ replaying \in Msg \cup {NoMsg}
  BY TypesOf
<1>3. CASE /\ confirmed' = confirmed /\ buffer' = buffer
           /\ replaying' = replaying \/ replaying' = NoMsg
  BY <1>1, <1>3, TurnStays
<1>4. ASSUME Waiting' \subseteq Waiting
      PROVE  \A p \in EvtPump : flight'[p] /= NoMsg =>
               \A x, y \in Waiting' \cap queued' :
                 Ahead(arrivals', x, flight'[p]) /\ Ahead(arrivals', y, flight'[p]) => x = y
  BY <1>1, <1>4, InTurnNow
<1>5. CASE /\ buffer /= <<>> /\ replaying = NoMsg /\ replaying' = Head(buffer)
           /\ buffer' = Tail(buffer) /\ confirmed' = confirmed
  <2>1. /\ Head(buffer) \in ToSet(buffer)
        /\ ToSet(Tail(buffer)) = ToSet(buffer) \ {Head(buffer)}
    BY <1>2, <1>5, UnderWay, TailShape
  <2>2. /\ \A x, y : Ahead(Tail(buffer), x, y) => Ahead(buffer, x, y)
        /\ \A x \in ToSet(Tail(buffer)) : Ahead(buffer, Head(buffer), x)
    BY <1>2, <1>5, AheadInTail
  <2>3. Waiting' \subseteq Waiting
    BY <2>1, <1>5 DEF Waiting
  <2>4. \A x, y \in queued' : Ahead(buffer', x, y) => ~ Ahead(arrivals', y, x)
    BY <2>2, <1>1, <1>5, InTurnNow
  <2>5. \A x, y \in queued' : Ahead(confirmed', x, y) => ~ Ahead(arrivals', y, x)
    BY <1>1, <1>5, InTurnNow
  <2>6. \A x \in ToSet(confirmed') \cap queued', y \in Waiting' \cap queued' :
          ~ Ahead(arrivals', y, x)
    BY <2>3, <1>1, <1>5, InTurnNow
  <2>7. replaying' \in queued' =>
          \A y \in ToSet(buffer') \cap queued' : ~ Ahead(arrivals', y, replaying')
    BY <2>2, <1>1, <1>5, InTurnNow
  <2> QED  BY <2>3, <2>4, <2>5, <2>6, <2>7, <1>4, InTurnThen
<1>6. CASE /\ replaying /= NoMsg /\ confirmed' = Append(confirmed, replaying)
           /\ replaying' = NoMsg /\ buffer' = buffer
  <2>1. /\ replaying \in Msg /\ replaying \in Waiting /\ ToSet(buffer) \subseteq Waiting
        /\ Waiting' = ToSet(buffer)
    BY <1>2, <1>6 DEF Waiting
  <2>2. \A x, y : Ahead(confirmed', x, y) =>
          Ahead(confirmed, x, y) \/ (y = replaying /\ x \in ToSet(confirmed))
    BY <2>1, <1>2, <1>6, AheadInAppend
  <2>3. \A x \in ToSet(confirmed') : x \in ToSet(confirmed) \/ x = replaying
    BY <2>1, <1>2, <1>6, InAppend
  <2>4. Waiting' \subseteq Waiting
    BY <2>1
  <2>5. \A x, y \in queued' : Ahead(confirmed', x, y) => ~ Ahead(arrivals', y, x)
    BY <2>1, <2>2, <1>1, InTurnNow
  <2>6. \A x, y \in queued' : Ahead(buffer', x, y) => ~ Ahead(arrivals', y, x)
    BY <1>1, <1>6, InTurnNow
  <2>7. \A x \in ToSet(confirmed') \cap queued', y \in Waiting' \cap queued' :
          ~ Ahead(arrivals', y, x)
    BY <2>1, <2>3, <1>1, InTurnNow
  <2>8. replaying' \notin queued'
    BY <1>1, <1>6, InTurnNow
  <2> QED  BY <2>4, <2>5, <2>6, <2>7, <2>8, <1>4, InTurnThen
<1>7. CASE /\ replaying /= NoMsg /\ confirmed' = confirmed
           /\ replaying' = NoMsg /\ buffer' = Cons(replaying, buffer)
  <2>1. replaying \in Msg /\ replaying \in Waiting
    BY <1>2, <1>7 DEF Waiting
  <2>2. \A x, y : Ahead(buffer', x, y) =>
          Ahead(buffer, x, y) \/ (x = replaying /\ y \in ToSet(buffer))
    BY <2>1, <1>2, <1>7, AheadInCons
  <2>3. Waiting' \subseteq Waiting
    <3>1. \A n \in ToSet(buffer) : n[1] = replaying[1] => Older(replaying, n)
      BY <1>7 DEF RelayInv, WaitingInOrder
    <3>2. ToSet(buffer') = ToSet(buffer) \cup {replaying}
      BY <2>1, <3>1, <1>2, <1>7, UnderWay, ConsShape
    <3> QED  BY <2>1, <3>2, <1>7 DEF Waiting
  <2>4. \A x, y \in queued' : Ahead(confirmed', x, y) => ~ Ahead(arrivals', y, x)
    BY <1>1, <1>7, InTurnNow
  <2>5. \A x, y \in queued' : Ahead(buffer', x, y) => ~ Ahead(arrivals', y, x)
    BY <2>2, <1>1, InTurnNow
  <2>6. \A x \in ToSet(confirmed') \cap queued', y \in Waiting' \cap queued' :
          ~ Ahead(arrivals', y, x)
    BY <2>3, <1>1, <1>7, InTurnNow
  <2>7. replaying' \notin queued'
    BY <1>1, <1>7, InTurnNow
  <2> QED  BY <2>3, <2>4, <2>5, <2>6, <2>7, <1>4, InTurnThen
<1>8. Poll \/ BroadcastDone =>
        confirmed' = confirmed /\ buffer' = buffer /\ replaying' = replaying
  BY DEF Poll, BroadcastDone
<1>9. ReplayNext =>
        \/ confirmed' = confirmed /\ buffer' = buffer /\ replaying' = NoMsg
        \/ /\ buffer /= <<>> /\ replaying = NoMsg /\ replaying' = Head(buffer)
           /\ buffer' = Tail(buffer) /\ confirmed' = confirmed
  BY DEF ReplayNext, EndTick
<1>10. ReplayOk =>
         /\ replaying /= NoMsg /\ confirmed' = Append(confirmed, replaying)
         /\ replaying' = NoMsg /\ buffer' = buffer
  BY DEF ReplayOk
<1>11. ReplayErr =>
         \/ confirmed' = confirmed /\ buffer' = buffer /\ replaying' = NoMsg
         \/ /\ replaying /= NoMsg /\ confirmed' = confirmed
            /\ replaying' = NoMsg /\ buffer' = Cons(replaying, buffer)
  BY DEF ReplayErr, EndTick
<1> QED  BY <1>3, <1>5, <1>6, <1>7, <1>8, <1>9, <1>10, <1>11 DEF WatcherStep

\* The message received comes after all that were received, and goes to the end
\* of the buffer; or out live, past what is in replay at most.
LEMMA ReceiveKeepsTurn ==
  ASSUME RelayInv, BufferedInTurn, NEW p \in Pump, NEW hasToken \in BOOLEAN,
         Receive(p, hasToken)
  PROVE  BufferedInTurn'
<1> DEFINE m == <<p, received[p] + 1>>
<1>1. /\ received[p] < MaxMsgs[p] /\ received' = [received EXCEPT ![p] = @ + 1]
      /\ cfg' = cfg /\ confirmed' = confirmed /\ replaying' = replaying
  BY DEF Receive, watcherVars
<1>2. m \in Msg /\ m /= NoMsg /\ ~ Received(m)
  <2>1. received \in [Pump -> Nat] /\ \A o \in Pump : received[o] <= MaxMsgs[o]
    BY TypesOf
  <2>2. m = <<p, received[p] + 1>>
    OBVIOUS
  <2> HIDE DEF m
  <2> QED  BY <2>1, <2>2, <1>1, NextMessage
<1>3. /\ m \notin Waiting /\ m \notin ToSet(confirmed) /\ m /= replaying
      /\ m \notin ToSet(buffer)
  <2>1. ~ Held(m) /\ m \notin ToSet(confirmed)
    BY <1>2 DEF RelayInv, NoSilentLoss
  <2> QED  BY <2>1, <1>2, UnderWay DEF Waiting
<1>4. \A o \in Pump : flight[o] /= m
  BY <1>2, UnderWay DEF RelayInv, NoSilentLoss
<1>5. /\ arrivals' = Append(arrivals, m) \/ arrivals' = arrivals
      /\ queued' \subseteq queued \cup {m} /\ m \notin queued /\ m \notin ToSet(arrivals)
  BY <1>2, NewArrival
<1>6. \/ /\ flight' = [flight EXCEPT ![p] = m]
         /\ UNCHANGED <<buffer, counters, lost, queued>>
         /\ p \in EvtPump => buffer = <<>>
      \/ PushAndRecord(p, m) /\ queued' = queued \cup {m} /\ UNCHANGED flight
           /\ cfg.evtMax > 0
      \/ \E c \in {"disabled", "disconnected", "rate"} :
           Count(c, 1) /\ lost' = lost \cup {m} /\ UNCHANGED <<flight, buffer, queued>>
  BY ReceiveCases
<1> HIDE DEF m
<1>7. /\ arrivals \in Seq(Msg) /\ buffer \in Seq(Msg) /\ cfg \in Config
      /\ flight \in [Pump -> Msg \cup {NoMsg}]
  BY TypesOf
<1>8. ASSUME NEW x, NEW y, Ahead(arrivals', x, y)
      PROVE  x /= m /\ (y = m \/ Ahead(arrivals, x, y))
  <2>1. CASE Ahead(arrivals, x, y)
    BY <2>1, <1>5, AheadIn
  <2>2. CASE y = m /\ x \in ToSet(arrivals)
    BY <2>2, <1>5
  <2>3. CASE arrivals' = arrivals
    BY <2>1, <2>3, <1>8
  <2>4. CASE arrivals' = Append(arrivals, m)
    <3>1. Ahead(Append(arrivals, m), x, y)
      BY <2>4, <1>8
    <3>2. Ahead(arrivals, x, y) \/ (y = m /\ x \in ToSet(arrivals))
      BY <3>1, <1>2, <1>7, AheadInAppend
    <3> QED  BY <2>1, <2>2, <3>2
  <2> QED  BY <2>3, <2>4, <1>5
<1>9. buffer' = buffer \/ (buffer' = PushEvt(buffer, m, cfg) /\ cfg.evtMax > 0)
  BY <1>6 DEF PushAndRecord
<1>10. \A x, y : Ahead(buffer', x, y) => Ahead(buffer, x, y) \/ y = m
  BY <1>2, <1>7, <1>9, AheadInPush
<1>11. \A x \in ToSet(buffer') : x \in ToSet(buffer) \/ x = m
  BY <1>2, <1>7, <1>9, UnderWay, InPush
<1>12. \A x \in Waiting' : x \in Waiting \/ x = m
  BY <1>1, <1>11 DEF Waiting
<1>13. \A x, y \in queued' : Ahead(confirmed', x, y) => ~ Ahead(arrivals', y, x)
  <2> SUFFICES ASSUME NEW x \in queued', NEW y \in queued', Ahead(confirmed, x, y),
                      Ahead(arrivals', y, x)
               PROVE  FALSE
    BY <1>1
  <2>1. x /= m /\ y /= m
    BY <1>3, AheadIn
  <2> QED  BY <2>1, <1>5, <1>8, InTurnNow
<1>14. \A x, y \in queued' : Ahead(buffer', x, y) => ~ Ahead(arrivals', y, x)
  <2> SUFFICES ASSUME NEW x \in queued', NEW y \in queued', Ahead(buffer', x, y),
                      Ahead(arrivals', y, x)
               PROVE  FALSE
    OBVIOUS
  <2>1. y /= m
    BY <1>8
  <2>2. Ahead(buffer, x, y)
    BY <2>1, <1>10
  <2>3. x /= m
    BY <2>2, <1>3, AheadIn
  <2> QED  BY <2>1, <2>2, <2>3, <1>5, <1>8, InTurnNow
<1>15. \A x \in ToSet(confirmed') \cap queued', y \in Waiting' \cap queued' :
         ~ Ahead(arrivals', y, x)
  <2> SUFFICES ASSUME NEW x \in ToSet(confirmed) \cap queued', NEW y \in Waiting' \cap queued',
                      Ahead(arrivals', y, x)
               PROVE  FALSE
    BY <1>1
  <2>1. y /= m /\ x /= m
    BY <1>3, <1>8
  <2>2. y \in Waiting \cap queued /\ x \in ToSet(confirmed) \cap queued
    BY <2>1, <1>5, <1>12
  <2> QED  BY <2>1, <2>2, <1>8, InTurnNow
<1>16. replaying' \in queued' =>
         \A y \in ToSet(buffer') \cap queued' : ~ Ahead(arrivals', y, replaying')
  <2> SUFFICES ASSUME replaying \in queued', NEW y \in ToSet(buffer') \cap queued',
                      Ahead(arrivals', y, replaying)
               PROVE  FALSE
    BY <1>1
  <2>1. y /= m /\ replaying /= m
    BY <1>3, <1>8
  <2>2. y \in ToSet(buffer) \cap queued /\ replaying \in queued
    BY <2>1, <1>5, <1>11
  <2> QED  BY <2>1, <2>2, <1>8, InTurnNow
<1>17. ASSUME NEW o \in EvtPump, flight'[o] /= NoMsg, NEW x \in Waiting' \cap queued',
              NEW y \in Waiting' \cap queued',
              Ahead(arrivals', x, flight'[o]), Ahead(arrivals', y, flight'[o])
       PROVE  x = y
  <2>1. x \in Waiting \cap queued /\ y \in Waiting \cap queued
    BY <1>5, <1>8, <1>12, <1>17
  <2>2. o \in Pump
    BY EvtPumpAssumption
  <2>3. CASE flight'[o] = flight[o]
    BY <2>1, <2>2, <2>3, <1>4, <1>8, <1>17, InTurnNow
  <2>4. CASE flight'[o] /= flight[o]
    <3>1. flight' = [flight EXCEPT ![p] = m] /\ (p \in EvtPump => buffer = <<>>)
      BY <2>4, <1>6
    <3>2. o = p
      BY <2>2, <2>4, <3>1, <1>7
    <3>3. ToSet(buffer) = {}
      BY <3>1, <3>2 DEF ToSet
    <3> QED  BY <2>1, <3>3 DEF Waiting
  <2> QED  BY <2>3, <2>4
<1> QED  BY <1>13, <1>14, <1>15, <1>16, <1>17, InTurnThen

\* No event that admit() told to wait is put behind a later one, of its pump or
\* of another: not in the buffer, not in replay, not at the site; and a live evt
\* passes at most one that waits.
THEOREM BufferedGoInTurn == Spec => []BufferedInTurn
<1>1. Init => BufferedInTurn
  BY DEF Init, BufferedInTurn, InTurn, Before, Ahead, ToSet, Waiting
<1>2. RelayInv /\ BufferedInTurn /\ [Next]_vars => BufferedInTurn'
  <2> SUFFICES ASSUME RelayInv, BufferedInTurn, [Next]_vars  PROVE BufferedInTurn'
    OBVIOUS
  <2>1. CASE \E p \in Pump, hasToken \in BOOLEAN : Receive(p, hasToken)
    BY <2>1, ReceiveKeepsTurn
  <2>2. CASE \E p \in Pump : PumpStep(p)
    BY <2>2, PumpKeepsTurn
  <2>3. CASE WatcherStep
    BY <2>3, WatcherKeepsTurn
  <2>4. CASE LinkDown \/ LinkUp \/ UNCHANGED vars
    <3>1. /\ confirmed' = confirmed /\ buffer' = buffer /\ replaying' = replaying
          /\ flight' = flight /\ arrivals' = arrivals /\ queued' = queued
      BY <2>4 DEF LinkDown, LinkUp, vars, pumpVars, watcherVars
    <3> QED  BY <3>1, TurnStays
  <2> QED  BY <2>1, <2>2, <2>3, <2>4 DEF Next
<1> QED  BY <1>1, <1>2, RelayKeepsInv, PTL DEF Spec

=============================================================================
