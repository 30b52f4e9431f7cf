------------------------ MODULE ReplyCorrelatorProofs ------------------------
(***************************************************************************)
(* What the operations of the correlation map do to its set of topics, for *)
(* every map, TTL and bound.  A map is a sequence of entries in which no   *)
(* topic occurs twice and the deadlines do not decrease.                   *)
(***************************************************************************)
EXTENDS ReplyCorrelator, FiniteSetTheorems, SequenceTheorems, TLAPS

Distinct(q) == \A i, j \in DOMAIN q : q[i].topic = q[j].topic => i = j
Sorted(q) == \A i, j \in DOMAIN q : i < j => q[i].deadline <= q[j].deadline

\* What an entry of a map looks like.
LEMMA EntryTypes ==
  ASSUME NEW q \in Seq(Entry)
  PROVE  /\ Len(q) \in Nat /\ DOMAIN q = 1 .. Len(q)
         /\ \A i \in DOMAIN q : /\ q[i] \in Entry /\ q[i].topic \in Topic
                                /\ q[i].site \in SiteTopic /\ q[i].deadline \in Nat
<1>1. Len(q) \in Nat /\ DOMAIN q = 1 .. Len(q)
  BY LenProperties
<1>2. \A i \in DOMAIN q : q[i] \in Entry
  BY <1>1, ElementOfSeq
<1> QED  BY <1>1, <1>2 DEF Entry

\* A non-empty set of natural numbers has a least element.
LEMMA LeastExists ==
  ASSUME NEW M, M \subseteq Nat, M /= {}
  PROVE  \E m \in M : \A k \in M : m <= k
<1> DEFINE T == {1 .. m : m \in M}
<1>1. T \subseteq FiniteSubsetsOf(Nat)
  <2>1. \A m \in M : 1 .. m \subseteq Nat /\ IsFiniteSet(1 .. m)
    BY FS_Interval
  <2> QED  BY <2>1 DEF FiniteSubsetsOf
<1>2. T /= {}
  OBVIOUS
<1>3. IsWellFoundedOn(StrictSubsetOrdering(Nat), FiniteSubsetsOf(Nat))
  BY FS_StrictSubsetOrderingWellFounded
<1>4. PICK x \in T : \A y \in T : <<y, x>> \notin StrictSubsetOrdering(Nat)
  <2> HIDE DEF T
  <2> QED  BY <1>1, <1>2, <1>3, WFMin
<1>5. PICK m \in M : x = 1 .. m
  OBVIOUS
<1>6. \A k \in M : m <= k
  <2> SUFFICES ASSUME NEW k \in M, ~ (m <= k)  PROVE FALSE
    OBVIOUS
  <2>1. k \in Nat /\ m \in Nat /\ k < m
    OBVIOUS
  <2>2. 1 .. k \subseteq 1 .. m /\ m \in 1 .. m /\ m \notin 1 .. k
    BY <2>1
  <2>3. <<1 .. k, 1 .. m>> \in StrictSubsetOrdering(Nat)
    BY <2>1, <2>2 DEF StrictSubsetOrdering
  <2> QED  BY <1>4, <1>5, <2>3
<1> QED  BY <1>6

-----------------------------------------------------------------------------

\* The sweep's cut is well defined: a count of front entries, all of them
\* stale, followed by a live entry or by nothing.
LEMMA FirstLiveProperties ==
  ASSUME NEW q \in Seq(Entry), NEW now \in Nat
  PROVE  /\ FirstLive(q, now) \in 0 .. Len(q)
         /\ \A i \in 1 .. FirstLive(q, now) : q[i].deadline <= now
         /\ FirstLive(q, now) < Len(q) => q[FirstLive(q, now) + 1].deadline > now
<1> DEFINE Cut(k) == /\ \A i \in 1 .. k : q[i].deadline <= now
                     /\ k < Len(q) => q[k + 1].deadline > now
           Live == {i \in 1 .. Len(q) : q[i].deadline > now}
<1>0. Len(q) \in Nat /\ \A i \in 1 .. Len(q) : q[i].deadline \in Nat
  BY EntryTypes
<1>1. \E k \in 0 .. Len(q) : Cut(k)
  <2>1. CASE Live = {}
    <3>1. Cut(Len(q))
      BY <1>0, <2>1
    <3> QED  BY <1>0, <3>1
  <2>2. CASE Live /= {}
    <3>1. PICK m \in Live : \A k \in Live : m <= k
      <4>1. Live \subseteq Nat
        BY <1>0
      <4> HIDE DEF Live
      <4> QED  BY <4>1, <2>2, LeastExists
    <3>2. m \in 1 .. Len(q) /\ q[m].deadline > now
      OBVIOUS
    <3>3. \A i \in 1 .. m - 1 : i \notin Live /\ i \in 1 .. Len(q)
      BY <1>0, <3>1, <3>2
    <3>4. Cut(m - 1)
      BY <1>0, <3>2, <3>3
    <3>5. m - 1 \in 0 .. Len(q)
      BY <1>0, <3>2
    <3> HIDE DEF Cut
    <3> QED  BY <3>4, <3>5
  <2> QED  BY <2>1, <2>2
<1>2. FirstLive(q, now) = CHOOSE k \in 0 .. Len(q) : Cut(k)
  BY DEF FirstLive
<1> HIDE DEF Cut
<1>3. FirstLive(q, now) \in 0 .. Len(q) /\ Cut(FirstLive(q, now))
  BY <1>1, <1>2
<1> QED  BY <1>3 DEF Cut

\* With deadlines in order, the cut takes every stale entry.
LEMMA FirstLiveIsComplete ==
  ASSUME NEW q \in Seq(Entry), NEW now \in Nat, Sorted(q),
         NEW i \in DOMAIN q, q[i].deadline <= now
  PROVE  i <= FirstLive(q, now)
<1> DEFINE k == FirstLive(q, now)
<1>1. k \in 0 .. Len(q) /\ (k < Len(q) => q[k + 1].deadline > now)
  BY FirstLiveProperties
<1> HIDE DEF k
<1>2. Len(q) \in Nat /\ DOMAIN q = 1 .. Len(q)
  BY EntryTypes
<1>3. \A j \in 1 .. Len(q) : q[j].deadline \in Nat
  BY EntryTypes
<1>4. ASSUME k < i  PROVE FALSE
  <2>1. k + 1 \in DOMAIN q /\ k + 1 <= i
    BY <1>1, <1>2, <1>4
  <2>2. q[k + 1].deadline <= q[i].deadline
    BY <1>2, <1>3, <2>1 DEF Sorted
  <2> QED  BY <1>1, <1>2, <1>3, <2>1, <2>2
<1>5. i <= k
  BY <1>1, <1>2, <1>4
<1> QED  BY <1>5 DEF k

-----------------------------------------------------------------------------

\* Having an entry is being the topic at some position.
LEMMA HasEntryAt ==
  ASSUME NEW q \in Seq(Entry), NEW t
  PROVE  HasEntry(q, t) <=> \E i \in 1 .. Len(q) : q[i].topic = t
BY EntryTypes DEF HasEntry, TopicsOf

\* How many entries the push of rewrite_downlink drops.
Dropped(q) == IF IsFull(q) THEN 1 ELSE 0

\* rewrite_downlink's push, position by position: the map without its oldest
\* entry when it was full, then the new entry; maxPending is respected.
LEMMA RecordShape ==
  ASSUME NEW q \in Seq(Entry), Len(q) <= MaxPending,
         NEW t \in Topic, NEW s \in SiteTopic, NEW now \in Nat
  PROVE  LET r == Record(q, t, s, now)  off == Dropped(q)  n == Len(q) - off IN
         /\ off \in {0, 1} /\ n \in Nat
         /\ r \in Seq(Entry) /\ Len(r) = n + 1 /\ Len(r) <= MaxPending
         /\ \A i \in 1 .. n : r[i] = q[i + off]
         /\ r[n + 1] = [topic |-> t, site |-> s, deadline |-> now + Ttl]
<1> DEFINE off == Dropped(q)
           base == IF IsFull(q) THEN Tail(q) ELSE q
           new == [topic |-> t, site |-> s, deadline |-> now + Ttl]
<1>1. new \in Entry
  BY TtlAssumption DEF Entry
<1>2. Len(q) \in Nat /\ MaxPending \in Nat \ {0}
  BY LenProperties, MaxPendingAssumption
<1>3. /\ base \in Seq(Entry) /\ Len(base) = Len(q) - off
      /\ \A i \in 1 .. Len(base) : base[i] = q[i + off]
  <2>1. CASE IsFull(q)
    <3>1. q /= <<>>
      BY <1>2, <2>1, EmptySeq DEF IsFull
    <3> QED  BY <2>1, <3>1, HeadTailProperties DEF Dropped
  <2>2. CASE ~ IsFull(q)
    BY <1>2, <2>2 DEF Dropped
  <2> QED  BY <2>1, <2>2
<1>4. off = 1 => Len(q) = MaxPending
  BY <1>2 DEF IsFull, Dropped
<1>5. off = 0 => Len(q) < MaxPending
  BY <1>2 DEF IsFull, Dropped
<1>6. Record(q, t, s, now) = Append(base, new)
  BY DEF Record
<1> HIDE DEF base, new
<1>7. /\ Append(base, new) \in Seq(Entry)
      /\ Len(Append(base, new)) = Len(base) + 1
      /\ \A i \in 1 .. Len(base) : Append(base, new)[i] = base[i]
      /\ Append(base, new)[Len(base) + 1] = new
  BY <1>1, <1>3, AppendProperties
<1>8. off \in {0, 1} /\ Len(q) - off \in Nat /\ Len(q) - off + 1 <= MaxPending
  BY <1>2, <1>4, <1>5 DEF Dropped
<1> HIDE DEF off
<1> QED  BY <1>3, <1>6, <1>7, <1>8 DEF new, off

\* The map has the new entry, and every old one but the evicted.
LEMMA RecordEntries ==
  ASSUME NEW q \in Seq(Entry), Len(q) <= MaxPending, Distinct(q),
         NEW t \in Topic, NEW s \in SiteTopic, NEW now \in Nat,
         NEW x
  PROVE  HasEntry(Record(q, t, s, now), x) <=>
           x = t \/ (HasEntry(q, x) /\ x \notin Evicted(q))
<1> DEFINE r == Record(q, t, s, now)
           off == Dropped(q)
           n == Len(q) - off
<1>1. /\ off \in {0, 1} /\ n \in Nat
      /\ r \in Seq(Entry) /\ Len(r) = n + 1
      /\ \A i \in 1 .. n : r[i] = q[i + off]
      /\ r[n + 1] = [topic |-> t, site |-> s, deadline |-> now + Ttl]
  BY RecordShape
<1>2. Len(q) \in Nat /\ DOMAIN q = 1 .. Len(q) /\ Len(q) = n + off
  BY <1>1, LenProperties
<1>3. HasEntry(r, x) <=> \E i \in 1 .. Len(r) : r[i].topic = x
  BY <1>1, HasEntryAt
<1>4. HasEntry(q, x) <=> \E i \in 1 .. Len(q) : q[i].topic = x
  BY HasEntryAt
<1>5. Evicted(q) = IF off = 1 THEN {q[1].topic} ELSE {}
  BY DEF Evicted, Dropped
<1> HIDE DEF r, off, n
<1>6. ASSUME HasEntry(r, x), x /= t  PROVE HasEntry(q, x) /\ x \notin Evicted(q)
  <2>1. PICK i \in 1 .. n : r[i].topic = x
    BY <1>1, <1>3, <1>6
  <2>2. i + off \in 1 .. Len(q) /\ q[i + off].topic = x
    BY <1>1, <1>2, <2>1
  <2>3. off = 1 => q[1].topic /= x
    <3>1. 1 \in DOMAIN q /\ i + off \in DOMAIN q /\ (off = 1 => i + off /= 1)
      BY <1>1, <1>2, <2>2
    <3> QED  BY <2>2, <3>1 DEF Distinct
  <2> QED  BY <1>4, <1>5, <2>2, <2>3
<1>7. ASSUME HasEntry(q, x), x \notin Evicted(q)  PROVE HasEntry(r, x)
  <2>1. PICK i \in 1 .. Len(q) : q[i].topic = x
    BY <1>4, <1>7
  <2>2. off = 1 => i /= 1
    BY <1>5, <1>7, <2>1
  <2>4. i - off \in 1 .. n /\ (i - off) + off = i
    BY <1>1, <1>2, <2>1, <2>2
  <2>3. r[i - off] = q[i]
    BY <1>1, <2>4
  <2>5. i - off \in 1 .. Len(r)
    BY <1>1, <2>4
  <2> QED  BY <1>3, <2>1, <2>3, <2>5
<1>8. HasEntry(r, t)
  <2>1. \E i \in 1 .. Len(r) : r[i].topic = t
    BY <1>1
  <2> QED  BY <1>1, <2>1, HasEntryAt
<1> QED  BY <1>6, <1>7, <1>8 DEF r

\* A fresh topic keeps the map free of duplicates, and a deadline no smaller
\* than the others keeps it in deadline order: both needed by the sweep.
LEMMA RecordOrder ==
  ASSUME NEW q \in Seq(Entry), Len(q) <= MaxPending, Distinct(q), Sorted(q),
         NEW t \in Topic, NEW s \in SiteTopic, NEW now \in Nat,
         ~ HasEntry(q, t), \A i \in DOMAIN q : q[i].deadline <= now + Ttl
  PROVE  /\ Distinct(Record(q, t, s, now))
         /\ Sorted(Record(q, t, s, now))
         /\ \A i \in DOMAIN Record(q, t, s, now) :
              Record(q, t, s, now)[i].deadline <= now + Ttl
<1> DEFINE r == Record(q, t, s, now)
           off == Dropped(q)
           n == Len(q) - off
<1>1. /\ off \in {0, 1} /\ n \in Nat
      /\ r \in Seq(Entry) /\ Len(r) = n + 1
      /\ \A i \in 1 .. n : r[i] = q[i + off]
      /\ r[n + 1] = [topic |-> t, site |-> s, deadline |-> now + Ttl]
  BY RecordShape
<1>2. Len(q) \in Nat /\ DOMAIN q = 1 .. Len(q) /\ Len(q) = n + off
  BY <1>1, LenProperties
<1>3. DOMAIN r = 1 .. n + 1
  BY <1>1, LenProperties
<1>4. \A i \in DOMAIN q : q[i].topic /= t
  BY <1>2, HasEntryAt
<1>5. now + Ttl \in Nat
  BY TtlAssumption
<1>6. \A i \in DOMAIN q : q[i].deadline \in Nat
  BY EntryTypes
<1> HIDE DEF r, off, n
<1>7. \A i \in 1 .. n : /\ i + off \in DOMAIN q
                        /\ r[i].topic = q[i + off].topic
                        /\ r[i].deadline = q[i + off].deadline
  <2> SUFFICES ASSUME NEW i \in 1 .. n
               PROVE  i + off \in DOMAIN q /\ r[i] = q[i + off]
    OBVIOUS
  <2>1. i + off \in 1 .. n + off
    BY <1>1
  <2> QED  BY <1>1, <1>2, <2>1
<1>8. Distinct(r)
  <2> SUFFICES ASSUME NEW i \in 1 .. n + 1, NEW j \in 1 .. n + 1,
                      r[i].topic = r[j].topic
               PROVE  i = j
    BY <1>3 DEF Distinct
  <2>1. CASE i \in 1 .. n /\ j \in 1 .. n
    <3>1. i + off = j + off
      BY <1>7, <2>1 DEF Distinct
    <3> QED  BY <1>1, <3>1
  <2>2. i \in 1 .. n <=> j \in 1 .. n
    BY <1>1, <1>4, <1>7
  <2> QED  BY <1>1, <2>1, <2>2
<1>9. \A i \in 1 .. n + 1 : r[i].deadline <= now + Ttl /\ r[i].deadline \in Nat
  <2> SUFFICES ASSUME NEW i \in 1 .. n + 1
               PROVE  r[i].deadline <= now + Ttl /\ r[i].deadline \in Nat
    OBVIOUS
  <2>1. CASE i = n + 1
    BY <1>1, <1>5, <2>1
  <2>2. CASE i \in 1 .. n
    BY <1>6, <1>7, <2>2
  <2> QED  BY <1>1, <2>1, <2>2
<1>10. Sorted(r)
  <2> SUFFICES ASSUME NEW i \in 1 .. n + 1, NEW j \in 1 .. n + 1, i < j
               PROVE  r[i].deadline <= r[j].deadline
    BY <1>3 DEF Sorted
  <2>1. CASE j = n + 1
    BY <1>1, <1>9, <2>1
  <2>2. CASE j \in 1 .. n
    <3>1. i \in 1 .. n /\ i + off < j + off
      BY <1>1, <2>2
    <3> QED  BY <1>7, <2>2, <3>1 DEF Sorted
  <2> QED  BY <1>1, <2>1, <2>2
<1> QED  BY <1>3, <1>8, <1>9, <1>10 DEF r

-----------------------------------------------------------------------------

\* take and abandon, position by position.
LEMMA TakeShape ==
  ASSUME NEW q \in Seq(Entry), NEW t, HasEntry(q, t)
  PROVE  LET r == Take(q, t)  k == IndexOf(q, t) IN
         /\ k \in 1 .. Len(q) /\ q[k].topic = t
         /\ r \in Seq(Entry) /\ Len(r) = Len(q) - 1
         /\ \A i \in 1 .. Len(r) : r[i] = IF i < k THEN q[i] ELSE q[i + 1]
<1> DEFINE k == IndexOf(q, t)
           a == SubSeq(q, 1, k - 1)
           b == SubSeq(q, k + 1, Len(q))
<1>1. Len(q) \in Nat /\ DOMAIN q = 1 .. Len(q) /\ \A i \in 1 .. Len(q) : q[i] \in Entry
  BY EntryTypes
<1>2. k \in 1 .. Len(q) /\ q[k].topic = t
  <2>1. \E i \in DOMAIN q : q[i].topic = t
    BY <1>1, HasEntryAt
  <2> QED  BY <1>1, <2>1 DEF IndexOf
<1>3. Take(q, t) = a \o b
  BY DEF Take, RemoveAt
<1> HIDE DEF k
<1>4. /\ a \in Seq(Entry) /\ Len(a) = k - 1
      /\ \A i \in 1 .. k - 1 : a[i] = q[i]
  <2>1. 1 \in Int /\ k - 1 \in Int /\ \A i \in 1 .. k - 1 : q[i] \in Entry
    BY <1>1, <1>2
  <2>2. /\ a \in Seq(Entry) /\ Len(a) = IF 1 <= k - 1 THEN k - 1 - 1 + 1 ELSE 0
        /\ \A i \in 1 .. k - 1 - 1 + 1 : a[i] = q[1 + i - 1]
    BY <2>1, SubSeqProperties
  <2> HIDE DEF a
  <2> QED  BY <1>1, <1>2, <2>2
<1>5. /\ b \in Seq(Entry) /\ Len(b) = Len(q) - k
      /\ \A i \in 1 .. Len(q) - k : b[i] = q[k + i]
  <2>1. k + 1 \in Int /\ Len(q) \in Int /\ \A i \in k + 1 .. Len(q) : q[i] \in Entry
    BY <1>1, <1>2
  <2>2. /\ b \in Seq(Entry)
        /\ Len(b) = IF k + 1 <= Len(q) THEN Len(q) - (k + 1) + 1 ELSE 0
        /\ \A i \in 1 .. Len(q) - (k + 1) + 1 : b[i] = q[(k + 1) + i - 1]
    BY <2>1, SubSeqProperties
  <2> HIDE DEF b
  <2>3. Len(b) = Len(q) - k
    <3>1. Len(q) \in Nat /\ k \in Nat /\ k <= Len(q)
      BY <1>1, <1>2
    <3> QED  BY <2>2, <3>1
  <2>4. ASSUME NEW i \in 1 .. Len(q) - k  PROVE b[i] = q[k + i]
    <3>1. i \in 1 .. Len(q) - (k + 1) + 1 /\ (k + 1) + i - 1 = k + i
      BY <1>1, <1>2
    <3> QED  BY <2>2, <3>1
  <2> QED  BY <2>2, <2>3, <2>4
<1> HIDE DEF a, b
<1>6. /\ a \o b \in Seq(Entry) /\ Len(a \o b) = Len(a) + Len(b)
      /\ \A i \in 1 .. Len(a) + Len(b) :
           (a \o b)[i] = IF i <= Len(a) THEN a[i] ELSE b[i - Len(a)]
  BY <1>4, <1>5, ConcatProperties
<1>7. Len(a) + Len(b) = Len(q) - 1
  BY <1>1, <1>2, <1>4, <1>5
<1>8. \A i \in 1 .. Len(q) - 1 : (a \o b)[i] = IF i < k THEN q[i] ELSE q[i + 1]
  <2> SUFFICES ASSUME NEW i \in 1 .. Len(q) - 1
               PROVE  (a \o b)[i] = IF i < k THEN q[i] ELSE q[i + 1]
    OBVIOUS
  <2>1. CASE i < k
    BY <1>1, <1>2, <1>4, <1>6, <1>7, <2>1
  <2>2. CASE ~ (i < k)
    <3>1. i - (k - 1) \in 1 .. Len(q) - k /\ k + (i - (k - 1)) = i + 1
      BY <1>1, <1>2, <2>2
    <3> QED  BY <1>1, <1>2, <1>4, <1>5, <1>6, <1>7, <2>2, <3>1
  <2> QED  BY <2>1, <2>2
<1> QED  BY <1>1, <1>2, <1>3, <1>6, <1>7, <1>8 DEF k

\* Whatever is taken, the map is still a map and did not grow.
LEMMA TakeType ==
  ASSUME NEW q \in Seq(Entry), NEW t
  PROVE  Take(q, t) \in Seq(Entry) /\ Len(Take(q, t)) <= Len(q)
<1>0. Len(q) \in Nat
  BY LenProperties
<1>1. CASE HasEntry(q, t)
  BY <1>0, <1>1, TakeShape
<1>2. CASE ~ HasEntry(q, t)
  BY <1>0, <1>2 DEF Take
<1> QED  BY <1>1, <1>2

\* The map loses the one topic and nothing else; taking a topic that is not
\* there (a late reply, a second abandon) changes nothing.
LEMMA TakeEntries ==
  ASSUME NEW q \in Seq(Entry), Distinct(q), NEW t, NEW x
  PROVE  /\ Take(q, t) \in Seq(Entry) /\ Len(Take(q, t)) <= Len(q)
         /\ HasEntry(Take(q, t), x) <=> HasEntry(q, x) /\ x /= t
<1> DEFINE r == Take(q, t)
           k == IndexOf(q, t)
<1>0. Len(q) \in Nat /\ DOMAIN q = 1 .. Len(q)
  BY LenProperties
<1>1. CASE ~ HasEntry(q, t)
  <2>1. r = q
    BY <1>1 DEF Take
  <2> QED  BY <1>0, <1>1, <2>1
<1>2. CASE HasEntry(q, t)
  <2>1. /\ k \in 1 .. Len(q) /\ q[k].topic = t
        /\ r \in Seq(Entry) /\ Len(r) = Len(q) - 1
        /\ \A i \in 1 .. Len(r) : r[i] = IF i < k THEN q[i] ELSE q[i + 1]
    BY <1>2, TakeShape
  <2>2. HasEntry(r, x) <=> \E i \in 1 .. Len(r) : r[i].topic = x
    BY <2>1, HasEntryAt
  <2>3. HasEntry(q, x) <=> \E i \in 1 .. Len(q) : q[i].topic = x
    BY HasEntryAt
  <2> HIDE DEF r, k
  <2>4. ASSUME HasEntry(r, x)  PROVE HasEntry(q, x) /\ x /= t
    <3>1. PICK i \in 1 .. Len(q) - 1 : r[i].topic = x
      BY <2>1, <2>2, <2>4
    <3>2. PICK j \in 1 .. Len(q) : r[i] = q[j] /\ j /= k
      <4>1. CASE i < k
        BY <1>0, <2>1, <4>1
      <4>2. CASE ~ (i < k)
        <5>1. i + 1 \in 1 .. Len(q) /\ i + 1 /= k
          BY <1>0, <2>1, <4>2
        <5> QED  BY <2>1, <4>2, <5>1
      <4> QED  BY <4>1, <4>2
    <3>3. q[j].topic /= t
      BY <1>0, <2>1, <3>2 DEF Distinct
    <3> QED  BY <2>3, <3>1, <3>2, <3>3
  <2>5. ASSUME HasEntry(q, x), x /= t  PROVE HasEntry(r, x)
    <3>1. PICK j \in 1 .. Len(q) : q[j].topic = x
      BY <2>3, <2>5
    <3>2. j /= k
      BY <2>1, <2>5, <3>1
    <3>3. CASE j < k
      <4>1. j \in 1 .. Len(r)
        BY <1>0, <2>1, <3>3
      <4> QED  BY <2>1, <2>2, <3>1, <3>3, <4>1
    <3>4. CASE j > k
      <4>1. j - 1 \in 1 .. Len(r) /\ ~ (j - 1 < k) /\ (j - 1) + 1 = j
        BY <1>0, <2>1, <3>4
      <4> QED  BY <2>1, <2>2, <3>1, <4>1
    <3> QED  BY <1>0, <2>1, <3>2, <3>3, <3>4
  <2>6. Len(r) <= Len(q)
    BY <1>0, <2>1
  <2> QED  BY <2>1, <2>4, <2>5, <2>6 DEF r
<1> QED  BY <1>1, <1>2

\* Where the entries of a map are found in a map they come from, in the same
\* order: what take and sweep keep.
Embeds(r, q) ==
  \E f \in [DOMAIN r -> DOMAIN q] :
    /\ \A i \in DOMAIN r : r[i] = q[f[i]]
    /\ \A i, j \in DOMAIN r : i < j => f[i] < f[j]

LEMMA EmbedsKeepsOrder ==
  ASSUME NEW q \in Seq(Entry), NEW r \in Seq(Entry), Embeds(r, q),
         Distinct(q), Sorted(q)
  PROVE  Distinct(r) /\ Sorted(r)
<1>1. DOMAIN q = 1 .. Len(q) /\ DOMAIN r = 1 .. Len(r) /\ Len(q) \in Nat /\ Len(r) \in Nat
  BY LenProperties
<1>2. PICK f \in [DOMAIN r -> DOMAIN q] :
        /\ \A i \in DOMAIN r : r[i] = q[f[i]]
        /\ \A i, j \in DOMAIN r : i < j => f[i] < f[j]
  BY DEF Embeds
<1>3. Sorted(r)
  <2> SUFFICES ASSUME NEW i \in DOMAIN r, NEW j \in DOMAIN r, i < j
               PROVE  r[i].deadline <= r[j].deadline
    BY DEF Sorted
  <2>1. f[i] \in DOMAIN q /\ f[j] \in DOMAIN q /\ f[i] < f[j]
    BY <1>2
  <2> QED  BY <1>2, <2>1 DEF Sorted
<1>4. Distinct(r)
  <2> SUFFICES ASSUME NEW i \in DOMAIN r, NEW j \in DOMAIN r,
                      r[i].topic = r[j].topic, i /= j
               PROVE  FALSE
    BY DEF Distinct
  <2>1. f[i] \in DOMAIN q /\ f[j] \in DOMAIN q
    BY <1>2
  <2>2. f[i] = f[j]
    BY <1>2, <2>1 DEF Distinct
  <2>3. i < j \/ j < i
    BY <1>1
  <2>4. f[i] < f[j] \/ f[j] < f[i]
    BY <1>2, <2>3
  <2>5. f[i] \in Nat
    BY <1>1, <2>1
  <2> QED  BY <2>2, <2>4, <2>5
<1> QED  BY <1>3, <1>4

LEMMA TakeEmbeds ==
  ASSUME NEW q \in Seq(Entry), NEW t
  PROVE  Take(q, t) \in Seq(Entry) /\ Embeds(Take(q, t), q)
<1> DEFINE r == Take(q, t)
           k == IndexOf(q, t)
<1>0. Len(q) \in Nat /\ DOMAIN q = 1 .. Len(q)
  BY LenProperties
<1>1. CASE ~ HasEntry(q, t)
  <2>1. r = q
    BY <1>1 DEF Take
  <2>2. Embeds(q, q)
    <3> DEFINE f == [i \in DOMAIN q |-> i]
    <3>1. /\ f \in [DOMAIN q -> DOMAIN q]
          /\ \A i \in DOMAIN q : q[i] = q[f[i]]
          /\ \A i, j \in DOMAIN q : i < j => f[i] < f[j]
      OBVIOUS
    <3> QED  BY <3>1 DEF Embeds
  <2> QED  BY <2>1, <2>2
<1>2. CASE HasEntry(q, t)
  <2>1. /\ k \in 1 .. Len(q)
        /\ r \in Seq(Entry) /\ Len(r) = Len(q) - 1
        /\ \A i \in 1 .. Len(r) : r[i] = IF i < k THEN q[i] ELSE q[i + 1]
    BY <1>2, TakeShape
  <2>2. DOMAIN r = 1 .. Len(q) - 1
    BY <2>1, LenProperties
  <2> HIDE DEF r, k
  <2> DEFINE f == [i \in DOMAIN r |-> IF i < k THEN i ELSE i + 1]
  <2>3. ASSUME NEW i \in DOMAIN r  PROVE f[i] \in DOMAIN q /\ r[i] = q[f[i]]
    <3>1. i \in 1 .. Len(r) /\ i \in 1 .. Len(q) /\ i + 1 \in 1 .. Len(q)
      BY <1>0, <2>1, <2>2
    <3> QED  BY <1>0, <2>1, <3>1
  <2>4. ASSUME NEW i \in DOMAIN r, NEW j \in DOMAIN r, i < j  PROVE f[i] < f[j]
    BY <1>0, <2>1, <2>2, <2>4
  <2>5. f \in [DOMAIN r -> DOMAIN q]
    BY <2>3
  <2> HIDE DEF f
  <2>6. Embeds(r, q)
    BY <2>3, <2>4, <2>5 DEF Embeds
  <2> QED  BY <2>1, <2>6 DEF r
<1> QED  BY <1>1, <1>2

-----------------------------------------------------------------------------

\* sweep, position by position.
LEMMA SweepShape ==
  ASSUME NEW q \in Seq(Entry), NEW now \in Nat
  PROVE  LET k == FirstLive(q, now)  s == Swept(q, now)  r == AfterSweep(q, now) IN
         /\ k \in 0 .. Len(q)
         /\ s \in Seq(Topic) /\ Len(s) = k /\ DOMAIN s = 1 .. k
         /\ \A i \in 1 .. k : s[i] = q[i].topic
         /\ r \in Seq(Entry) /\ Len(r) = Len(q) - k
         /\ \A i \in 1 .. Len(q) - k : r[i] = q[i + k]
<1> DEFINE k == FirstLive(q, now)
           s == Swept(q, now)
           r == AfterSweep(q, now)
<1>1. Len(q) \in Nat
      /\ \A i \in 1 .. Len(q) : q[i] \in Entry /\ q[i].topic \in Topic
  BY EntryTypes
<1>2. k \in 0 .. Len(q)
  BY FirstLiveProperties
<1>3. s = [i \in 1 .. k |-> q[i].topic]
  BY DEF Swept
<1>4. r = SubSeq(q, k + 1, Len(q))
  BY DEF AfterSweep
<1> HIDE DEF k, s, r
<1>5. s \in Seq(Topic) /\ Len(s) = k /\ DOMAIN s = 1 .. k
  <2>1. \A i \in 1 .. k : q[i].topic \in Topic
    BY <1>1, <1>2
  <2> QED  BY <1>2, <1>3, <2>1
<1>6. \A i \in 1 .. k : s[i] = q[i].topic
  BY <1>3
<1>7. /\ r \in Seq(Entry)
      /\ Len(r) = IF k + 1 <= Len(q) THEN Len(q) - (k + 1) + 1 ELSE 0
      /\ \A i \in 1 .. Len(q) - (k + 1) + 1 : r[i] = q[(k + 1) + i - 1]
  <2>1. k + 1 \in Int /\ Len(q) \in Int /\ \A i \in k + 1 .. Len(q) : q[i] \in Entry
    BY <1>1, <1>2
  <2> QED  BY <1>4, <2>1, SubSeqProperties
<1>8. Len(r) = Len(q) - k
  <2>1. Len(q) \in Nat /\ k \in Nat /\ k <= Len(q)
    BY <1>1, <1>2
  <2> QED  BY <1>7, <2>1
<1>9. ASSUME NEW i \in 1 .. Len(q) - k  PROVE r[i] = q[i + k]
  <2>1. i \in 1 .. Len(q) - (k + 1) + 1 /\ (k + 1) + i - 1 = i + k
    BY <1>1, <1>2
  <2> QED  BY <1>7, <2>1
<1> QED  BY <1>2, <1>5, <1>6, <1>7, <1>8, <1>9 DEF k, s, r

\* The sweep splits the map: a topic is either drained or still there, never
\* both, and nothing is lost.
LEMMA SweepEntries ==
  ASSUME NEW q \in Seq(Entry), Distinct(q), NEW now \in Nat, NEW x
  PROVE  /\ HasEntry(AfterSweep(q, now), x) <=>
              HasEntry(q, x) /\ x \notin ToSet(Swept(q, now))
         /\ x \in ToSet(Swept(q, now)) => HasEntry(q, x)
<1> DEFINE k == FirstLive(q, now)
           s == Swept(q, now)
           r == AfterSweep(q, now)
<1>1. /\ k \in 0 .. Len(q)
      /\ DOMAIN s = 1 .. k
      /\ \A i \in 1 .. k : s[i] = q[i].topic
      /\ r \in Seq(Entry) /\ Len(r) = Len(q) - k
      /\ \A i \in 1 .. Len(q) - k : r[i] = q[i + k]
  BY SweepShape
<1>2. Len(q) \in Nat /\ DOMAIN q = 1 .. Len(q)
  BY LenProperties
<1>3. HasEntry(r, x) <=> \E i \in 1 .. Len(r) : r[i].topic = x
  BY <1>1, HasEntryAt
<1>4. HasEntry(q, x) <=> \E i \in 1 .. Len(q) : q[i].topic = x
  BY HasEntryAt
<1>5. x \in ToSet(s) <=> \E i \in 1 .. k : q[i].topic = x
  BY <1>1 DEF ToSet
<1> HIDE DEF k, s, r
<1>6. x \in ToSet(s) => HasEntry(q, x)
  BY <1>1, <1>2, <1>4, <1>5
<1>7. ASSUME HasEntry(r, x)  PROVE HasEntry(q, x) /\ x \notin ToSet(s)
  <2>1. PICK i \in 1 .. Len(q) - k : r[i].topic = x
    BY <1>1, <1>3, <1>7
  <2>2. i + k \in DOMAIN q /\ i + k > k
    BY <1>1, <1>2
  <2>3. q[i + k].topic = x
    BY <1>1, <2>1
  <2>4. ASSUME NEW j \in 1 .. k, q[j].topic = x  PROVE FALSE
    <3>1. j \in DOMAIN q /\ j /= i + k
      BY <1>1, <1>2, <2>2
    <3> QED  BY <2>2, <2>3, <2>4, <3>1 DEF Distinct
  <2> QED  BY <1>2, <1>4, <1>5, <2>2, <2>3, <2>4
<1>8. ASSUME HasEntry(q, x), x \notin ToSet(s)  PROVE HasEntry(r, x)
  <2>1. PICK j \in 1 .. Len(q) : q[j].topic = x
    BY <1>4, <1>8
  <2>2. j \notin 1 .. k
    BY <1>5, <1>8, <2>1
  <2>3. j - k \in 1 .. Len(r) /\ j - k \in 1 .. Len(q) - k /\ (j - k) + k = j
    BY <1>1, <1>2, <2>2
  <2> QED  BY <1>1, <1>3, <2>1, <2>3
<1> QED  BY <1>6, <1>7, <1>8 DEF r, s

\* What is left keeps its order, and no topic is drained twice.
LEMMA SweepOrder ==
  ASSUME NEW q \in Seq(Entry), Distinct(q), NEW now \in Nat
  PROVE  /\ Embeds(AfterSweep(q, now), q)
         /\ \A i, j \in DOMAIN Swept(q, now) :
              Swept(q, now)[i] = Swept(q, now)[j] => i = j
<1> DEFINE k == FirstLive(q, now)
           s == Swept(q, now)
           r == AfterSweep(q, now)
<1>1. /\ k \in 0 .. Len(q)
      /\ DOMAIN s = 1 .. k
      /\ \A i \in 1 .. k : s[i] = q[i].topic
      /\ r \in Seq(Entry) /\ Len(r) = Len(q) - k
      /\ \A i \in 1 .. Len(q) - k : r[i] = q[i + k]
  BY SweepShape
<1>2. Len(q) \in Nat /\ DOMAIN q = 1 .. Len(q)
  BY LenProperties
<1>3. DOMAIN r = 1 .. Len(q) - k
  BY <1>1, LenProperties
<1> HIDE DEF k, s, r
<1>4. Embeds(r, q)
  <2> DEFINE f == [i \in DOMAIN r |-> i + k]
  <2>1. ASSUME NEW i \in DOMAIN r  PROVE f[i] \in DOMAIN q /\ r[i] = q[f[i]]
    <3>1. i + k \in DOMAIN q
      BY <1>1, <1>2, <1>3
    <3> QED  BY <1>1, <1>3, <3>1
  <2>2. ASSUME NEW i \in DOMAIN r, NEW j \in DOMAIN r, i < j  PROVE f[i] < f[j]
    BY <1>1, <1>2, <1>3, <2>2
  <2>3. f \in [DOMAIN r -> DOMAIN q]
    BY <2>1
  <2> HIDE DEF f
  <2> QED  BY <2>1, <2>2, <2>3 DEF Embeds
<1>5. ASSUME NEW i \in DOMAIN s, NEW j \in DOMAIN s, s[i] = s[j]  PROVE i = j
  <2>1. i \in DOMAIN q /\ j \in DOMAIN q
    BY <1>1, <1>2
  <2> QED  BY <1>1, <1>5, <2>1 DEF Distinct
<1> QED  BY <1>4, <1>5 DEF r, s

=============================================================================
