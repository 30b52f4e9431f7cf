------------------------- MODULE BridgeProcessProofs -------------------------
(***************************************************************************)
(* A run of the bridge, proved for every set of worlds it may start in:    *)
(* it is never half subscribed, it stops cleanly, it knows its site, and   *)
(* its reports add up.                                                     *)
(***************************************************************************)
EXTENDS BridgeProcess, SequenceTheorems, FiniteSetTheorems, TLAPS

-----------------------------------------------------------------------------
(* Lemmas on lists and on what is left of them                             *)

\* What IsSuffix says of sequences, position by position from the end.
LEMMA SuffixIs ==
  ASSUME NEW S, NEW s \in Seq(S), NEW t \in Seq(S), Len(s) <= Len(t),
         \A i \in 1 .. Len(s) : s[(Len(s) - i) + 1] = t[(Len(t) - i) + 1]
  PROVE  IsSuffix(s, t)
<1> DEFINE r == Reverse(s)
           q == Reverse(t)
<1>1. Len(s) \in Nat /\ Len(t) \in Nat
  BY LenProperties
<1>2. \A i \in 1 .. Len(s) : (Len(s) - i) + 1 \in 1 .. Len(s)
  BY <1>1
<1>3. \A i \in 1 .. Len(t) : (Len(t) - i) + 1 \in 1 .. Len(t)
  BY <1>1
<1>4. r \in Seq(S) /\ Len(r) = Len(s) /\ \A i \in 1 .. Len(s) : r[i] = s[(Len(s) - i) + 1]
  <2>1. \A i \in 1 .. Len(s) : s[(Len(s) - i) + 1] \in S
    BY <1>2, ElementOfSeq
  <2> QED  BY <1>1, <2>1 DEF Reverse
<1>5. q \in Seq(S) /\ Len(q) = Len(t) /\ \A i \in 1 .. Len(t) : q[i] = t[(Len(t) - i) + 1]
  <2>1. \A i \in 1 .. Len(t) : t[(Len(t) - i) + 1] \in S
    BY <1>3, ElementOfSeq
  <2> QED  BY <1>1, <2>1 DEF Reverse
<1> HIDE DEF r, q
<1>6. /\ \A i \in 1 .. Len(s) : i \in 1 .. Len(t)
      /\ \A i \in 1 .. Len(s) : 1 + i - 1 = i
      /\ \A i \in 1 .. Len(s) - 1 + 1 : i \in 1 .. Len(s)
      /\ \A i \in 1 .. Len(s) : i \in 1 .. Len(s) - 1 + 1
  BY <1>1
<1>7. \A i \in 1 .. Len(s) : r[i] \in S /\ q[i] \in S /\ r[i] = q[i]
  BY <1>4, <1>5, <1>6, ElementOfSeq
<1>8. /\ SubSeq(r, 1, Len(s)) \in Seq(S)
      /\ \A i \in 1 .. Len(s) : SubSeq(r, 1, Len(s))[i] = r[i]
      /\ Len(SubSeq(r, 1, Len(s))) = Len(s)
  BY <1>1, <1>6, <1>7, SubSeqProperties
<1>9. /\ SubSeq(q, 1, Len(s)) \in Seq(S)
      /\ \A i \in 1 .. Len(s) : SubSeq(q, 1, Len(s))[i] = q[i]
      /\ Len(SubSeq(q, 1, Len(s))) = Len(s)
  BY <1>1, <1>6, <1>7, SubSeqProperties
<1>10. SubSeq(r, 1, Len(s)) = SubSeq(q, 1, Len(s))
  BY <1>7, <1>8, <1>9, SeqEqual
<1> QED  BY <1>4, <1>5, <1>10 DEF IsSuffix, IsPrefix, r, q

\* The list from some place on.
Rest(list, t) == \E k \in DOMAIN list : t = SubSeq(list, k, Len(list))

\* One step down a list: the head is done with, and what is left is the tail,
\* unless the head was the last.
LEMMA LeftStep ==
  ASSUME NEW S, NEW list \in Seq(S), NEW t, Rest(list, t)
  PROVE  /\ t \in Seq(S) /\ t /= <<>> /\ IsSuffix(t, list)
         /\ Head(t) \in ToSet(list) /\ ToSet(t) \subseteq ToSet(list)
         /\ ToSet(t) = {Head(t)} \cup ToSet(Tail(t))
         /\ Len(t) = 1 => Tail(t) = <<>>
         /\ Len(t) /= 1 => Rest(list, Tail(t))
<1>1. Len(list) \in Nat /\ DOMAIN list = 1 .. Len(list)
  BY LenProperties
<1>2. PICK k \in 1 .. Len(list) : t = SubSeq(list, k, Len(list))
  BY <1>1 DEF Rest
<1>3. /\ t \in Seq(S) /\ Len(t) = Len(list) - k + 1 /\ t /= <<>>
      /\ \A i \in 1 .. Len(t) : t[i] = list[k + i - 1]
      /\ Head(t) = list[k] /\ Tail(t) = SubSeq(list, k + 1, Len(list))
      /\ IsSuffix(t, list)
  <2>1. Len(list) \in Nat /\ k \in Nat
    BY <1>1
  <2>2. \A i \in k .. Len(list) : list[i] \in S
    BY <2>1, ElementOfSeq
  <2>3. /\ t \in Seq(S) /\ Len(t) = Len(list) - k + 1
        /\ \A i \in 1 .. Len(list) - k + 1 : t[i] = list[k + i - 1]
    BY <1>2, <2>1, <2>2, SubSeqProperties
  <2>4. Len(t) \in Nat /\ Len(t) >= 1 /\ Len(t) <= Len(list)
    <3>1. \A n \in Nat : \A j \in 1 .. n : n - j + 1 \in Nat /\ n - j + 1 >= 1 /\ n - j + 1 <= n
      OBVIOUS
    <3>2. /\ Len(list) - k + 1 \in Nat
          /\ Len(list) - k + 1 >= 1 /\ Len(list) - k + 1 <= Len(list)
      BY <2>1, <3>1
    <3>3. Len(t) = Len(list) - k + 1
      BY <2>3
    <3> QED  BY <3>2, <3>3
  <2>5. t /= <<>>
    BY <2>4, EmptySeq
  <2>6. Head(t) = list[k] /\ Tail(t) = SubSeq(list, k + 1, Len(list))
    BY <1>2, <2>1, HeadTailOfSubSeq
  <2>7. ASSUME NEW i \in 1 .. Len(t)
        PROVE  t[(Len(t) - i) + 1] = list[(Len(list) - i) + 1]
    <3>1. /\ (Len(t) - i) + 1 \in 1 .. Len(list) - k + 1
          /\ k + ((Len(t) - i) + 1) - 1 = (Len(list) - i) + 1
      BY <2>1, <2>3
    <3>2. \A m \in 1 .. Len(list) - k + 1 : t[m] = list[k + m - 1]
      BY <2>3
    <3>3. t[(Len(t) - i) + 1] = list[k + ((Len(t) - i) + 1) - 1]
      BY <3>1, <3>2
    <3> QED  BY <3>1, <3>3
  <2>8. IsSuffix(t, list)
    BY <2>3, <2>4, <2>7, SuffixIs
  <2> QED  BY <2>3, <2>5, <2>6, <2>8
<1>4. /\ Len(t) \in Nat /\ DOMAIN t = 1 .. Len(t) /\ 1 \in 1 .. Len(t)
      /\ k + 1 - 1 = k
  BY <1>1, <1>3, LenProperties
<1>5. \A i \in 1 .. Len(t) : k + i - 1 \in 1 .. Len(list)
  BY <1>1, <1>3
<1>6. Head(t) \in ToSet(list) /\ ToSet(t) \subseteq ToSet(list)
  <2>1. \A i \in 1 .. Len(list) : list[i] \in ToSet(list)
    BY <1>1 DEF ToSet
  <2>2. ToSet(t) = {t[i] : i \in 1 .. Len(t)}
    BY <1>4 DEF ToSet
  <2>3. \A i \in 1 .. Len(t) : t[i] = list[k + i - 1]
    BY <1>3
  <2>4. Head(t) = list[k]
    BY <1>3
  <2> QED  BY <1>5, <2>1, <2>2, <2>3, <2>4
<1>7. /\ Tail(t) \in Seq(S) /\ Len(Tail(t)) = Len(t) - 1
      /\ \A i \in 1 .. Len(Tail(t)) : Tail(t)[i] = t[i + 1]
  BY <1>3, HeadTailProperties
<1>8. DOMAIN Tail(t) = 1 .. Len(t) - 1
  BY <1>7, LenProperties
<1>9. ToSet(t) = {Head(t)} \cup ToSet(Tail(t))
  <2>1. t[1] = Head(t)
    BY <1>3, <1>4
  <2>2. \A i \in 1 .. Len(t) : i = 1 \/ (i - 1 \in 1 .. Len(t) - 1 /\ (i - 1) + 1 = i)
    BY <1>4
  <2>3. \A i \in 1 .. Len(t) - 1 : i \in 1 .. Len(t) /\ i + 1 \in 1 .. Len(t)
    <3>1. \A n \in Nat : \A i \in 1 .. n - 1 : i \in 1 .. n /\ i + 1 \in 1 .. n
      OBVIOUS
    <3>2. Len(t) \in Nat
      BY <1>4
    <3> QED  BY <3>1, <3>2
  <2>4. \A i \in 1 .. Len(t) - 1 : Tail(t)[i] = t[i + 1]
    BY <1>7
  <2>5. ToSet(t) = {t[i] : i \in 1 .. Len(t)}
    BY <1>4 DEF ToSet
  <2>6. ToSet(Tail(t)) = {Tail(t)[i] : i \in 1 .. Len(t) - 1}
    BY <1>8 DEF ToSet
  <2>7. \A i \in 1 .. Len(t) : t[i] \in {Head(t)} \cup ToSet(Tail(t))
    <3> SUFFICES ASSUME NEW i \in 1 .. Len(t), i /= 1
                 PROVE  t[i] \in ToSet(Tail(t))
      BY <2>1
    <3>1. i - 1 \in 1 .. Len(t) - 1 /\ (i - 1) + 1 = i
      BY <2>2
    <3>2. Tail(t)[i - 1] = t[i]
      BY <2>4, <3>1
    <3> QED  BY <2>6, <3>1, <3>2
  <2>8. \A i \in 1 .. Len(t) - 1 : Tail(t)[i] \in ToSet(t)
    BY <2>3, <2>4, <2>5
  <2>9. Head(t) \in ToSet(t)
    BY <1>4, <2>1, <2>5
  <2> QED  BY <2>5, <2>6, <2>7, <2>8, <2>9
<1>10. ASSUME Len(t) = 1
       PROVE  Tail(t) = <<>>
  <2>1. Len(Tail(t)) = 0
    <3>1. Len(t) - 1 = 0
      BY <1>10
    <3> QED  BY <1>7, <3>1
  <2> QED  BY <1>7, <2>1, EmptySeq
<1>11. ASSUME Len(t) /= 1
       PROVE  Rest(list, Tail(t))
  <2>1. k + 1 \in DOMAIN list
    BY <1>1, <1>3, <1>11
  <2> QED  BY <1>3, <2>1 DEF Rest
<1> QED  BY <1>3, <1>6, <1>9, <1>10, <1>11

\* At the start of a list all of it is left.
LEMMA LeftAll ==
  ASSUME NEW S, NEW list \in Seq(S), list /= <<>>
  PROVE  Rest(list, list)
<1>1. 1 \in DOMAIN list
  BY EmptySeq, LenProperties
<1>2. list = SubSeq(list, 1, Len(list))
  BY SubSeqFull
<1> QED  BY <1>1, <1>2 DEF Rest

\* What is in a list behind another.
LEMMA ConcatSet ==
  ASSUME NEW S, NEW s \in Seq(S), NEW t \in Seq(S)
  PROVE  ToSet(s \o t) = ToSet(s) \cup ToSet(t)
<1>1. /\ Len(s) \in Nat /\ DOMAIN s = 1 .. Len(s)
      /\ Len(t) \in Nat /\ DOMAIN t = 1 .. Len(t)
  BY LenProperties
<1>2. /\ s \o t \in Seq(S) /\ Len(s \o t) = Len(s) + Len(t)
      /\ \A i \in 1 .. Len(s) + Len(t) : (s \o t)[i] =
           IF i <= Len(s) THEN s[i] ELSE t[i - Len(s)]
  BY ConcatProperties
<1>3. DOMAIN (s \o t) = 1 .. Len(s) + Len(t)
  BY <1>2, LenProperties
<1>4. \A i \in 1 .. Len(s) + Len(t) : i \in 1 .. Len(s) \/ i - Len(s) \in 1 .. Len(t)
  BY <1>1
<1>5. \A i \in 1 .. Len(s) : i \in 1 .. Len(s) + Len(t) /\ i <= Len(s)
  BY <1>1
<1>6. \A i \in 1 .. Len(t) : /\ i + Len(s) \in 1 .. Len(s) + Len(t)
                             /\ ~ (i + Len(s) <= Len(s)) /\ (i + Len(s)) - Len(s) = i
  BY <1>1
<1>7. \A i \in 1 .. Len(s) + Len(t) : (s \o t)[i] \in ToSet(s) \cup ToSet(t)
  BY <1>1, <1>2, <1>4 DEF ToSet
<1>8. \A i \in 1 .. Len(s) : s[i] \in ToSet(s \o t)
  BY <1>2, <1>3, <1>5 DEF ToSet
<1>9. \A i \in 1 .. Len(t) : t[i] \in ToSet(s \o t)
  <2>1. \A i \in 1 .. Len(t) : (s \o t)[i + Len(s)] = t[i]
    BY <1>2, <1>6
  <2> QED  BY <1>3, <1>6, <2>1 DEF ToSet
<1>10. ToSet(s \o t) \subseteq ToSet(s) \cup ToSet(t)
  BY <1>3, <1>7 DEF ToSet
<1>11. ToSet(s) \cup ToSet(t) \subseteq ToSet(s \o t)
  BY <1>1, <1>8, <1>9 DEF ToSet
<1> QED  BY <1>10, <1>11

-----------------------------------------------------------------------------
(* What the world gives                                                    *)

\* A non-empty set of positions has a first.
LEMMA MinIs ==
  ASSUME NEW M, M \subseteq Nat, M /= {}
  PROVE  Min(M) \in M /\ \A k \in M : Min(M) <= k
<1> DEFINE T == {1 .. m : m \in M}
<1>1. T \subseteq FiniteSubsetsOf(Nat)
  <2>1. \A m \in M : 1 .. m \subseteq Nat /\ IsFiniteSet(1 .. m)
    BY FS_Interval
  <2> QED  BY <2>1 DEF FiniteSubsetsOf
<1>2. T /= {}
  OBVIOUS
<1>3. PICK x \in T : \A y \in T : <<y, x>> \notin StrictSubsetOrdering(Nat)
  <2> HIDE DEF T
  <2> QED  BY <1>1, <1>2, FS_StrictSubsetOrderingWellFounded, WFMin
<1>4. PICK m \in M : x = 1 .. m
  OBVIOUS
<1>5. ASSUME NEW k \in M
      PROVE  m <= k
  <2> SUFFICES ASSUME ~ (m <= k)  PROVE FALSE
    OBVIOUS
  <2>1. 1 .. k \subseteq 1 .. m /\ m \in 1 .. m /\ m \notin 1 .. k
    OBVIOUS
  <2>2. <<1 .. k, 1 .. m>> \in StrictSubsetOrdering(Nat)
    BY <2>1 DEF StrictSubsetOrdering
  <2> QED  BY <1>3, <1>4, <2>2
<1> QED  BY <1>5 DEF Min

\* The site is the one entry that can be meant, and it is an entry.
LEMMA SiteIsOne ==
  ASSUME NEW w \in Worlds, Fatal(w) = "none"
  PROVE  LET all == Instances(w.doc)
             site == SiteInstance(w.doc)
         IN  /\ InstanceEntry(site) /\ site.siteBroker
             /\ \A i \in DOMAIN all : ~ all[i].lwt
             /\ IF {i \in DOMAIN all : all[i].id = "site"} /= {} THEN site.id = "site"
                ELSE \A i, j \in DOMAIN all : all[i].siteBroker /\ all[j].siteBroker => i = j
<1> DEFINE all == Instances(w.doc)
<1>1. Document(w.doc)
  BY WorldsAssumption
<1>2. /\ DOMAIN all \subseteq Nat
      /\ \A i \in DOMAIN all : InstanceEntry(all[i])
  BY <1>1 DEF Document
<1>3. Accepted(w.doc) /\ HasSite(w.doc) /\ SiteInstance(w.doc).siteBroker
  BY DEF Fatal
<1>4. PICK i \in DOMAIN all : SiteCandidates(w.doc) = {i}
  BY <1>3 DEF HasSite
<1>5. Min({i}) = i
  <2>1. {i} \subseteq Nat /\ {i} /= {}
    BY <1>2
  <2> HIDE DEF all
  <2>2. Min({i}) \in {i}
    BY <2>1, MinIs
  <2> QED  BY <2>2
<1>6. SiteInstance(w.doc) = all[i]
  BY <1>4, <1>5 DEF SiteInstance
<1>7. \A j \in DOMAIN all : ~ all[j].lwt
  BY <1>3 DEF Accepted, ConfiguresLwt
<1>8. Named(w.doc) = {j \in DOMAIN all : all[j].id = "site"}
  BY DEF Named
<1>9. ASSUME Named(w.doc) /= {}
      PROVE  all[i].id = "site"
  <2>1. Named(w.doc) \subseteq Nat
    BY <1>2, <1>8
  <2>2. Min(Named(w.doc)) \in Named(w.doc)
    BY <1>9, <2>1, MinIs
  <2>3. Min(Named(w.doc)) = i
    BY <1>4, <1>9 DEF SiteCandidates
  <2> QED  BY <1>8, <2>2, <2>3
<1>10. ASSUME Named(w.doc) = {}
       PROVE  \A j, k \in DOMAIN all : all[j].siteBroker /\ all[k].siteBroker => j = k
  <2>1. WithBroker(w.doc) = {i}
    BY <1>4, <1>10 DEF SiteCandidates
  <2>2. WithBroker(w.doc) = {j \in DOMAIN all : all[j].siteBroker}
    BY DEF WithBroker
  <2> QED  BY <2>1, <2>2
<1> HIDE DEF all
<1>11. InstanceEntry(all[i])
  BY <1>2
<1> QED  BY <1>3, <1>6, <1>7, <1>8, <1>9, <1>10, <1>11 DEF all

\* The sweep is always spawned: its interval has a floor.
LEMMA AllSpawned ==
  ASSUME world \in Worlds, Fatal(world) = "none"
  PROVE  Spawned = ToSet(Periodic)
<1> DEFINE reply == Entry.reply
           ttl == ReplyKnobs(reply).ttlSecs
<1>1. InstanceEntry(Entry)
  BY SiteIsOne DEF Entry
<1>2. reply = Absent \/ reply.ttlSecs \in Nat \cup {Absent}
  BY <1>1 DEF InstanceEntry
<1>3. ttl \in Nat
  <2> HIDE DEF reply
  <2>1. CASE reply = Absent
    BY <2>1 DEF ReplyKnobs
  <2>2. CASE reply /= Absent /\ reply.ttlSecs = Absent
    BY <2>2 DEF ReplyKnobs, OrElse
  <2>3. CASE reply /= Absent /\ reply.ttlSecs \in Nat /\ reply.ttlSecs /= Absent
    BY <2>3 DEF ReplyKnobs, OrElse
  <2> QED  BY <1>2, <2>1, <2>2, <2>3
<1>4. SweepInterval(ttl) > 0
  <2> HIDE DEF ttl
  <2>1. (ttl * 1000) \div 4 \in Int
    BY <1>3
  <2> QED  BY <2>1 DEF SweepInterval
<1> QED  BY <1>4 DEF Spawned

\* Short lists.
LEMMA Tuples ==
  ASSUME NEW S, NEW a \in S, NEW b \in S, NEW c \in S, NEW d \in S, NEW e \in S, NEW f \in S
  PROVE  /\ <<>> \in Seq(S) /\ <<a>> \in Seq(S)
         /\ <<a, b>> \in Seq(S) /\ Len(<<a, b>>) = 2
         /\ <<a, b, c>> \in Seq(S) /\ Len(<<a, b, c>>) = 3
         /\ <<a, b, c, d, e, f>> \in Seq(S)
<1>1. <<>> \in Seq(S) /\ <<a>> \in Seq(S)
  OBVIOUS
<1>2. <<a, b>> \in Seq(S) /\ Len(<<a, b>>) = 2
  OBVIOUS
<1>3. <<a, b, c>> \in Seq(S) /\ Len(<<a, b, c>>) = 3
  OBVIOUS
<1>4. <<a, b, c, d, e, f>> \in Seq(S)
  OBVIOUS
<1> QED  BY <1>1, <1>2, <1>3, <1>4

\* The subscriptions and the tasks are lists that are not empty.
LEMMA ListsAre ==
  /\ \E S : AllSubscriptions \in Seq(S) /\ Periodic \in Seq(S) /\ Tasks \in Seq(S)
  /\ AllSubscriptions /= <<>> /\ Tasks /= <<>>
  /\ ToSet(Tasks) = ToSet(AllSubscriptions) \cup ToSet(Periodic)
<1> DEFINE up == UplinkSubscriptions(Built)
           down == DownlinkSubscriptions(Built)
           n == Len(ClassesUp(Built))
<1>1. n \in Nat
  <2> DEFINE C == {"state", "cfg", "evt", "metric", "data", "log", "app"}
  <2>1. /\ "state" \in C /\ "cfg" \in C /\ "evt" \in C /\ "metric" \in C
        /\ "data" \in C /\ "log" \in C /\ "app" \in C
    OBVIOUS
  <2> HIDE DEF C
  <2>2. UplinkClasses \in Seq(C)
    BY <2>1, Tuples DEF UplinkClasses
  <2>3. <<"app">> \in Seq(C) /\ <<>> \in Seq(C)
    BY <2>1, Tuples
  <2>4. (IF Built.app THEN <<"app">> ELSE <<>>) \in Seq(C)
    BY <2>3, Zenon
  <2>5. ClassesUp(Built) \in Seq(C)
    BY <2>2, <2>4, ConcatProperties DEF ClassesUp
  <2> QED  BY <2>5, LenProperties
<1>2. DOMAIN up = 1 .. 2 * n
  BY DEF UplinkSubscriptions
<1> DEFINE U == {up[i] : i \in 1 .. 2 * n}
           D == {Downlink(Built, TRUE), Downlink(Built, FALSE)}
           P == {[task |-> "watcher"], [task |-> "metrics"], [task |-> "sweep"]}
           S == U \cup D \cup P
<1>3. up \in Seq(S)
  <2>1. 2 * n \in Nat
    BY <1>1
  <2>2. up = [i \in 1 .. 2 * n |-> up[i]]
    BY DEF UplinkSubscriptions
  <2>3. \A i \in 1 .. 2 * n : up[i] \in S
    OBVIOUS
  <2> HIDE DEF up, S, n
  <2> QED  BY <2>1, <2>2, <2>3
<1>4. down \in Seq(S) /\ Len(down) = 2
  <2>1. down = <<Downlink(Built, TRUE), Downlink(Built, FALSE)>>
    BY DEF DownlinkSubscriptions
  <2>2. Downlink(Built, TRUE) \in S /\ Downlink(Built, FALSE) \in S
    OBVIOUS
  <2> HIDE DEF down, S
  <2>3. <<Downlink(Built, TRUE), Downlink(Built, FALSE)>> \in Seq(S)
    BY <2>2, Tuples
  <2>4. Len(<<Downlink(Built, TRUE), Downlink(Built, FALSE)>>) = 2
    BY <2>2, Tuples
  <2> QED  BY <2>1, <2>3, <2>4
<1>5. Periodic \in Seq(S) /\ Len(Periodic) = 3
  <2>1. [task |-> "watcher"] \in S /\ [task |-> "metrics"] \in S /\ [task |-> "sweep"] \in S
    OBVIOUS
  <2> HIDE DEF S
  <2> QED  BY <2>1 DEF Periodic
<1> HIDE DEF up, down, n, S
<1>6. AllSubscriptions \in Seq(S) /\ Len(AllSubscriptions) = Len(up) + 2
  <2>1. AllSubscriptions = up \o down
    BY DEF AllSubscriptions, up, down
  <2>2. up \o down \in Seq(S) /\ Len(up \o down) = Len(up) + Len(down)
    BY <1>3, <1>4, ConcatProperties
  <2>3. Len(down) = 2
    BY <1>4
  <2> QED  BY <2>1, <2>2, <2>3
<1>7. Tasks \in Seq(S) /\ Len(Tasks) = Len(AllSubscriptions) + 3
  <2>1. /\ AllSubscriptions \o Periodic \in Seq(S)
        /\ Len(AllSubscriptions \o Periodic) = Len(AllSubscriptions) + Len(Periodic)
    BY <1>5, <1>6, ConcatProperties
  <2>2. Len(Periodic) = 3
    BY <1>5
  <2> QED  BY <2>1, <2>2 DEF Tasks
<1>8. AllSubscriptions /= <<>> /\ Tasks /= <<>>
  <2>1. Len(up) \in Nat /\ Len(AllSubscriptions) \in Nat
    BY <1>3, <1>6, LenProperties
  <2>2. Len(AllSubscriptions) /= 0 /\ Len(Tasks) /= 0
    BY <1>6, <1>7, <2>1
  <2> QED  BY <2>2, EmptySeq
<1>9. ToSet(Tasks) = ToSet(AllSubscriptions) \cup ToSet(Periodic)
  BY <1>5, <1>6, ConcatSet DEF Tasks
<1> QED  BY <1>5, <1>6, <1>7, <1>8, <1>9

\* The world never changes, and with it nothing that is made of it.
LEMMA WorldStays ==
  ASSUME [Next]_vars
  PROVE  world' = world
<1>1. CASE UNCHANGED vars
  BY <1>1 DEF vars, worldVars
<1>2. CASE Main
  BY <1>2 DEF Main, Prepare, ConnectOk, ConnectFails, Retry, Abandon, SubscribeOk, SubscribeFails,
     RuntimeDropped, Shutdown, AwaitTask, UnsubscribeOk, UnsubscribeFails, worldVars
<1>3. CASE (\E s \in pumps : Relay(s)) \/ Report \/ SiteTurns \/ Signalled
  BY <1>3 DEF Relay, Report, SiteTurns, Signalled, worldVars
<1> QED  BY <1>1, <1>2, <1>3 DEF Next

LEMMA ListsStay ==
  ASSUME world' = world
  PROVE  /\ AllSubscriptions' = AllSubscriptions /\ Tasks' = Tasks
         /\ \A s : Deep(s)' = Deep(s)
         /\ Entry' = Entry
<1>1. Entry' = Entry
  BY DEF Entry
<1>2. Built' = Built
  BY <1>1 DEF Built
<1>3. AllSubscriptions' = AllSubscriptions
  BY <1>2 DEF AllSubscriptions
<1>4. Tasks' = Tasks
  BY <1>3 DEF Tasks
<1>5. \A s : Deep(s)' = Deep(s)
  BY <1>1 DEF Deep
<1> QED  BY <1>1, <1>3, <1>4, <1>5

-----------------------------------------------------------------------------
(* The metrics                                                             *)

\* The metrics in their order: the families, the other counters, the gauges.
LEMMA DefinitionsAre ==
  /\ Len(Definitions) = 17 /\ DOMAIN Definitions = 1 .. 17
  /\ \A i \in 1 .. 4 : Definitions[i].name = ClassFamilies[i]
  /\ \A i \in 5 .. 15 : Definitions[i].name = ScalarCounters[i - 4]
  /\ Definitions[16].name = "relay_pending_replies"
  /\ Definitions[17].name = "site_connected"
<1> DEFINE A == [i \in DOMAIN ClassFamilies |->
                   [name |-> ClassFamilies[i], measures |-> ClassMeasures]]
           B == [i \in DOMAIN ScalarCounters |->
                   [name |-> ScalarCounters[i], measures |-> <<"count">>]]
           c == [name |-> "relay_pending_replies", measures |-> <<"count">>]
           d == [name |-> "site_connected", measures |-> <<"connected">>]
           S == {A[i] : i \in 1 .. 4} \cup {B[i] : i \in 1 .. 11} \cup {c, d}
<1>1. DOMAIN ClassFamilies = 1 .. 4 /\ DOMAIN ScalarCounters = 1 .. 11
  BY DEF ClassFamilies, ScalarCounters
<1>2. /\ A = [i \in 1 .. 4 |-> A[i]] /\ \A i \in 1 .. 4 : A[i].name = ClassFamilies[i]
      /\ B = [i \in 1 .. 11 |-> B[i]] /\ \A i \in 1 .. 11 : B[i].name = ScalarCounters[i]
      /\ c.name = "relay_pending_replies" /\ d.name = "site_connected"
  BY <1>1
<1>3. /\ \A i \in 1 .. 4 : A[i] \in S
      /\ \A i \in 1 .. 11 : B[i] \in S
      /\ c \in S /\ d \in S
  OBVIOUS
<1>4. Definitions = (A \o B) \o <<c, d>>
  BY DEF Definitions
<1> HIDE DEF A, B, c, d, S
<1>5. A \in Seq(S) /\ Len(A) = 4
  BY <1>2, <1>3
<1>6. B \in Seq(S) /\ Len(B) = 11
  BY <1>2, <1>3
<1>7. <<c, d>> \in Seq(S) /\ Len(<<c, d>>) = 2 /\ <<c, d>>[1] = c /\ <<c, d>>[2] = d
  <2>1. <<c, d>> \in Seq(S)
    BY <1>3, Tuples
  <2>2. Len(<<c, d>>) = 2
    BY <1>3, Tuples
  <2> QED  BY <2>1, <2>2
<1>8. /\ A \o B \in Seq(S) /\ Len(A \o B) = 4 + 11
      /\ \A i \in 1 .. 4 + 11 : (A \o B)[i] = IF i <= 4 THEN A[i] ELSE B[i - 4]
  <2>1. /\ A \o B \in Seq(S) /\ Len(A \o B) = Len(A) + Len(B)
        /\ \A i \in 1 .. Len(A) + Len(B) : (A \o B)[i] = IF i <= Len(A) THEN A[i] ELSE B[i - Len(A)]
    BY <1>5, <1>6, ConcatProperties
  <2>2. Len(A) = 4 /\ Len(B) = 11
    BY <1>5, <1>6
  <2> QED  BY <2>1, <2>2
<1>9. Len(A \o B) = 15
  BY <1>8
<1>10. /\ Definitions \in Seq(S) /\ Len(Definitions) = 15 + 2
       /\ \A i \in 1 .. 15 + 2 : Definitions[i] =
            IF i <= 15 THEN (A \o B)[i] ELSE <<c, d>>[i - 15]
  <2> DEFINE s == A \o B
             t == <<c, d>>
  <2>1. s \in Seq(S) /\ Len(s) = 15
    BY <1>8, <1>9
  <2>2. t \in Seq(S) /\ Len(t) = 2
    BY <1>7
  <2>3. Definitions = s \o t
    BY <1>4
  <2> HIDE DEF s, t
  <2>4. /\ s \o t \in Seq(S) /\ Len(s \o t) = Len(s) + Len(t)
        /\ \A i \in 1 .. Len(s) + Len(t) : (s \o t)[i] = IF i <= Len(s) THEN s[i] ELSE t[i - Len(s)]
    BY <2>1, <2>2, ConcatProperties
  <2>5. /\ Definitions \in Seq(S) /\ Len(Definitions) = 15 + 2
        /\ \A i \in 1 .. 15 + 2 : Definitions[i] = IF i <= 15 THEN s[i] ELSE t[i - 15]
    <3>1. Len(s) = 15 /\ Len(t) = 2
      BY <2>1, <2>2
    <3> QED  BY <2>3, <2>4, <3>1
  <2> QED  BY <2>5 DEF s, t
<1>11. Len(Definitions) = 17 /\ DOMAIN Definitions = 1 .. 17
  <2>1. 15 + 2 = 17
    OBVIOUS
  <2> QED  BY <1>10, <2>1, LenProperties
<1>12. \A i \in 1 .. 4 : Definitions[i] = A[i]
  <2>1. \A i \in 1 .. 4 : i \in 1 .. 15 + 2 /\ i \in 1 .. 4 + 11 /\ i <= 15 /\ i <= 4
    OBVIOUS
  <2>2. \A i \in 1 .. 4 : (A \o B)[i] = A[i]
    BY <1>8, <2>1
  <2>3. \A i \in 1 .. 4 : Definitions[i] = (A \o B)[i]
    BY <1>10, <2>1
  <2> QED  BY <2>2, <2>3
<1>13. \A i \in 5 .. 15 : Definitions[i] = B[i - 4] /\ i - 4 \in 1 .. 11
  <2>1. \A i \in 5 .. 15 : /\ i \in 1 .. 15 + 2 /\ i \in 1 .. 4 + 11 /\ i <= 15 /\ ~ (i <= 4)
                           /\ i - 4 \in 1 .. 11
    OBVIOUS
  <2> QED  BY <1>8, <1>10, <2>1
<1>14. Definitions[16] = c /\ Definitions[17] = d
  <2>1. /\ 16 \in 1 .. 15 + 2 /\ ~ (16 <= 15) /\ 16 - 15 = 1
        /\ 17 \in 1 .. 15 + 2 /\ ~ (17 <= 15) /\ 17 - 15 = 2
    OBVIOUS
  <2> QED  BY <1>7, <1>10, <2>1
<1>15. \A i \in 1 .. 4 : Definitions[i].name = ClassFamilies[i]
  BY <1>2, <1>12
<1>16. \A i \in 5 .. 15 : Definitions[i].name = ScalarCounters[i - 4]
  BY <1>2, <1>13
<1> QED  BY <1>2, <1>11, <1>14, <1>15, <1>16

\* No two metrics have the same name.
LEMMA NamesApart ==
  ASSUME NEW i \in DOMAIN Definitions, NEW j \in DOMAIN Definitions,
         Definitions[i].name = Definitions[j].name
  PROVE  i = j
<1> DEFINE N(k) == Definitions[k].name
<1>1. \A k \in 1 .. 17 : k \in 1 .. 4 \/ k \in 5 .. 15 \/ k = 16 \/ k = 17
  OBVIOUS
<1>2. /\ i \in 1 .. 4 \/ i \in 5 .. 15 \/ i = 16 \/ i = 17
      /\ j \in 1 .. 4 \/ j \in 5 .. 15 \/ j = 16 \/ j = 17
  BY <1>1, DefinitionsAre
<1>3. \A k, l \in 1 .. 4 : ClassFamilies[k] = ClassFamilies[l] => k = l
  BY DEF ClassFamilies
<1>4. \A k, l \in 1 .. 11 : ScalarCounters[k] = ScalarCounters[l] => k = l
  BY DEF ScalarCounters
<1>5. /\ \A k \in 1 .. 4 : \A l \in 1 .. 11 : ClassFamilies[k] /= ScalarCounters[l]
      /\ \A k \in 1 .. 4 : ClassFamilies[k] \notin {"relay_pending_replies", "site_connected"}
      /\ \A k \in 1 .. 11 : ScalarCounters[k] \notin {"relay_pending_replies", "site_connected"}
  BY DEF ClassFamilies, ScalarCounters
<1> QED  BY <1>2, <1>3, <1>4, <1>5, DefinitionsAre

\* A counter is a measure of one metric.
LEMMA SlotsApart ==
  ASSUME NEW i \in DOMAIN Definitions, NEW j \in DOMAIN Definitions, NEW s,
         s \in SlotsOf(i), s \in SlotsOf(j)
  PROVE  i = j
<1>1. PICK k : s = Slot(i, k)
  BY DEF SlotsOf
<1>2. PICK l : s = Slot(j, l)
  BY DEF SlotsOf
<1>3. Definitions[i].name = Definitions[j].name
  BY <1>1, <1>2 DEF Slot
<1> QED  BY <1>3, NamesApart

\* A counter that moves is a measure of a metric that is reported.
LEMMA MovingIsReported ==
  ASSUME NEW s \in Moving
  PROVE  \E i \in MovingMetrics : s \in SlotsOf(i)
<1>1. s \in Counters
  BY MovingAssumption
<1>2. PICK i \in 1 .. Len(Definitions) - 2 : s \in SlotsOf(i)
  BY <1>1 DEF Counters
<1>3. \A m \in 1 .. 17 - 2 : m \in 1 .. 17
  OBVIOUS
<1>4. i \in DOMAIN Definitions
  <2>1. i \in 1 .. 17 - 2
    BY <1>2, DefinitionsAre
  <2> QED  BY <1>3, <2>1, DefinitionsAre
<1>5. i \in MovingMetrics
  BY <1>2, <1>4 DEF MovingMetrics
<1> QED  BY <1>2, <1>5

\* What holds of the metrics, in parts: the types, and one counter's account.
MetricsTypes ==
  /\ counters \in [Moving -> Nat] /\ prev \in [Moving -> Nat] /\ curr \in [Moving -> Nat]
  /\ reported \in [Moving -> Nat] /\ missed \in [Moving -> Nat]
  /\ toLoad \subseteq MovingFields /\ toEmit \subseteq MovingMetrics

Account(s) ==
  /\ reported[s] + missed[s] = (IF Tried(s) THEN curr[s] ELSE prev[s])
  /\ prev[s] <= curr[s] /\ curr[s] <= counters[s] /\ counters[s] <= MaxCount[s]

MetricsOK ==
  /\ MetricsTypes
  /\ toLoad /= {} => toEmit = {}
  /\ \A s \in Moving : Account(s)

\* The parts are the three properties.
LEMMA MetricsParts ==
  MetricsOK <=> MetricsTypeOK /\ DeltasTelescope /\ MetricsInv
<1>1. ASSUME MetricsOK
      PROVE  MetricsTypeOK /\ DeltasTelescope /\ MetricsInv
  <2>1. MetricsTypes /\ (toLoad /= {} => toEmit = {}) /\ \A s \in Moving : Account(s)
    BY <1>1 DEF MetricsOK
  <2>2. /\ counters \in [Moving -> Nat] /\ prev \in [Moving -> Nat] /\ curr \in [Moving -> Nat]
        /\ reported \in [Moving -> Nat] /\ missed \in [Moving -> Nat]
    BY <2>1 DEF MetricsTypes
  <2>3. ASSUME NEW s \in Moving
        PROVE  /\ reported[s] + missed[s] = (IF Tried(s) THEN curr[s] ELSE prev[s])
               /\ prev[s] <= counters[s] /\ curr[s] <= counters[s] /\ prev[s] <= curr[s]
               /\ counters[s] <= MaxCount[s] /\ prev[s] <= MaxCount[s] /\ curr[s] <= MaxCount[s]
               /\ reported[s] <= MaxCount[s] /\ missed[s] <= MaxCount[s]
    <3>1. /\ counters[s] \in Nat /\ prev[s] \in Nat /\ curr[s] \in Nat
          /\ reported[s] \in Nat /\ missed[s] \in Nat
      BY <2>2
    <3>2. MaxCount[s] \in Nat
      BY MovingAssumption
    <3>3. Account(s)
      BY <2>1
    <3>4. reported[s] + missed[s] = (IF Tried(s) THEN curr[s] ELSE prev[s])
      BY <3>3 DEF Account
    <3>5. prev[s] <= curr[s] /\ curr[s] <= counters[s] /\ counters[s] <= MaxCount[s]
      BY <3>3 DEF Account
    <3>6. reported[s] + missed[s] = curr[s] \/ reported[s] + missed[s] = prev[s]
      BY <3>4
    <3> QED  BY <3>1, <3>2, <3>4, <3>5, <3>6
  <2>4. MetricsTypeOK
    <3>1. \A f \in {counters, prev, curr, reported, missed} : f \in [Moving -> Nat]
      BY <2>2
    <3>2. \A f \in {counters, prev, curr, reported, missed} : \A s \in Moving : f[s] <= MaxCount[s]
      BY <2>3
    <3> QED  BY <2>1, <3>1, <3>2 DEF MetricsTypeOK, MetricsTypes
  <2>5. DeltasTelescope
    BY <2>3 DEF DeltasTelescope
  <2>6. MetricsInv
    BY <2>1, <2>3 DEF MetricsInv
  <2> QED  BY <2>4, <2>5, <2>6
<1>2. ASSUME MetricsTypeOK, DeltasTelescope, MetricsInv
      PROVE  MetricsOK
  <2>1. MetricsTypes
    BY <1>2 DEF MetricsTypeOK, MetricsTypes
  <2>2. \A s \in Moving : counters[s] <= MaxCount[s]
    BY <1>2 DEF MetricsTypeOK
  <2>3. \A s \in Moving : Account(s)
    BY <1>2, <2>2 DEF DeltasTelescope, MetricsInv, Account
  <2> QED  BY <1>2, <2>1, <2>3 DEF MetricsOK, MetricsInv
<1> QED  BY <1>1, <1>2

LEMMA MetricsStart ==
  ASSUME MetricsInit
  PROVE  MetricsOK
<1>1. /\ counters = Zero /\ prev = Zero /\ curr = Zero /\ reported = Zero /\ missed = Zero
      /\ toLoad = {} /\ toEmit = {}
  BY DEF MetricsInit
<1>2. Zero \in [Moving -> Nat] /\ \A s \in Moving : Zero[s] = 0
  BY DEF Zero
<1>3. MetricsTypes
  BY <1>1, <1>2 DEF MetricsTypes
<1>4. \A s \in Moving : MaxCount[s] \in Nat
  BY MovingAssumption
<1>5. \A s \in Moving : Account(s)
  <2> SUFFICES ASSUME NEW s \in Moving  PROVE Account(s)
    OBVIOUS
  <2>1. ~ Tried(s)
    BY <1>1 DEF Tried
  <2>2. /\ counters[s] = 0 /\ prev[s] = 0 /\ curr[s] = 0 /\ reported[s] = 0 /\ missed[s] = 0
        /\ MaxCount[s] \in Nat
    BY <1>1, <1>2, <1>4
  <2> QED  BY <2>1, <2>2 DEF Account
<1> QED  BY <1>1, <1>3, <1>5 DEF MetricsOK

\* A pump counts while whatever report is under way.
LEMMA CountKeeps ==
  ASSUME MetricsOK, NEW c, Count(c), UNCHANGED reportVars
  PROVE  MetricsOK'
<1>1. /\ counters \in [Moving -> Nat] /\ c \in Moving /\ counters[c] < MaxCount[c]
      /\ counters' = [counters EXCEPT ![c] = @ + 1]
  BY DEF MetricsOK, MetricsTypes, Count
<1>2. /\ prev' = prev /\ curr' = curr /\ reported' = reported /\ missed' = missed
      /\ toLoad' = toLoad /\ toEmit' = toEmit
  BY DEF reportVars
<1>3. counters' \in [Moving -> Nat]
  BY <1>1
<1>4. MetricsTypes'
  BY <1>2, <1>3 DEF MetricsOK, MetricsTypes
<1>5. ASSUME NEW s \in Moving
      PROVE  Account(s)'
  <2>1. /\ counters[s] \in Nat /\ curr[s] \in Nat /\ MaxCount[s] \in Nat
    BY MovingAssumption DEF MetricsOK, MetricsTypes
  <2>2. curr[s] <= counters[s] /\ counters[s] <= MaxCount[s]
    BY DEF MetricsOK, Account
  <2>3. counters'[s] = IF s = c THEN counters[s] + 1 ELSE counters[s]
    BY <1>1
  <2>4. curr[s] <= counters'[s] /\ counters'[s] <= MaxCount[s]
    BY <1>1, <2>1, <2>2, <2>3
  <2>5. Tried(s)' = Tried(s)
    BY <1>2 DEF Tried
  <2> QED  BY <1>2, <2>4, <2>5 DEF MetricsOK, Account
<1> QED  BY <1>2, <1>4, <1>5 DEF MetricsOK

LEMMA TickKeeps ==
  ASSUME MetricsOK, MetricsTick
  PROVE  MetricsOK'
<1>1. /\ toEmit = {} /\ toEmit' = {} /\ toLoad' = MovingFields
      /\ counters' = counters /\ prev' = prev /\ curr' = curr
      /\ reported' = reported /\ missed' = missed
  BY DEF MetricsTick, Idle
<1>2. MetricsTypes'
  BY <1>1 DEF MetricsOK, MetricsTypes
<1>3. ASSUME NEW s \in Moving
      PROVE  Account(s)'
  <2>1. Tried(s)' = Tried(s)
    BY <1>1 DEF Tried
  <2> QED  BY <1>1, <2>1 DEF MetricsOK, Account
<1> QED  BY <1>1, <1>2, <1>3 DEF MetricsOK

\* A field is copied; behind the last one no metric has been tried.
LEMMA LoadKeeps ==
  ASSUME MetricsOK, LoadNext
  PROVE  MetricsOK'
<1>1. PICK f : /\ curr' = [curr EXCEPT ![Slot(f[1], f[2])] = counters[Slot(f[1], f[2])]]
               /\ toLoad' = toLoad \ {f}
  BY DEF LoadNext
<1>2. /\ toLoad /= {} /\ toEmit = {}
      /\ toEmit' = IF toLoad' = {} THEN MovingMetrics ELSE toEmit
      /\ counters' = counters /\ prev' = prev /\ reported' = reported /\ missed' = missed
  BY DEF LoadNext, MetricsOK
<1>3. /\ counters \in [Moving -> Nat] /\ prev \in [Moving -> Nat] /\ curr \in [Moving -> Nat]
      /\ toLoad \subseteq MovingFields
  BY DEF MetricsOK, MetricsTypes
<1> DEFINE d == Slot(f[1], f[2])
<1>4. curr' = [curr EXCEPT ![d] = counters[d]]
  BY <1>1
<1> HIDE DEF d
<1>5. curr' \in [Moving -> Nat]
  <2>1. d \in Moving => counters[d] \in Nat
    BY <1>3
  <2> QED  BY <1>3, <1>4, <2>1
<1>6. toEmit' \subseteq MovingMetrics /\ (toLoad' /= {} => toEmit' = {})
  <2>1. CASE toLoad' = {}
    BY <1>2, <2>1
  <2>2. CASE toLoad' /= {}
    BY <1>2, <2>2
  <2> QED  BY <2>1, <2>2
<1>7. MetricsTypes'
  <2>1. toLoad' \subseteq MovingFields
    BY <1>1, <1>3
  <2> QED  BY <1>2, <1>5, <1>6, <2>1 DEF MetricsOK, MetricsTypes
<1>8. ASSUME NEW s \in Moving
      PROVE  Account(s)'
  <2>1. ~ Tried(s)
    BY <1>2 DEF Tried
  <2>2. ~ Tried(s)'
    <3>1. CASE toEmit' = {}
      BY <3>1 DEF Tried
    <3>2. CASE toEmit' = MovingMetrics
      <4>1. PICK i \in MovingMetrics : s \in SlotsOf(i)
        BY MovingIsReported
      <4> QED  BY <3>2, <4>1 DEF Tried
    <3> QED  BY <1>2, <3>1, <3>2
  <2>3. counters[s] \in Nat /\ prev[s] \in Nat /\ curr[s] \in Nat
    BY <1>3
  <2>4. curr'[s] = curr[s] \/ curr'[s] = counters[s]
    BY <1>3, <1>4
  <2>5. /\ reported[s] + missed[s] = (IF Tried(s) THEN curr[s] ELSE prev[s])
        /\ prev[s] <= curr[s] /\ curr[s] <= counters[s] /\ counters[s] <= MaxCount[s]
    BY DEF MetricsOK, Account
  <2>6. reported'[s] + missed'[s] = prev'[s]
    BY <1>2, <2>1, <2>5
  <2>7. prev[s] <= curr'[s] /\ curr'[s] <= counters[s]
    BY <2>3, <2>4, <2>5
  <2> QED  BY <1>2, <2>2, <2>5, <2>6, <2>7 DEF Account
<1> QED  BY <1>6, <1>7, <1>8 DEF MetricsOK

\* What a group adds to a total.
LEMMA GroupAdds ==
  ASSUME MetricsOK, NEW total \in [Moving -> Nat], NEW i
  PROVE  /\ AddGroup(total, Group(i)) \in [Moving -> Nat]
         /\ \A s \in Moving :
              AddGroup(total, Group(i))[s] =
                IF s \in SlotsOf(i) THEN total[s] + (curr[s] - prev[s]) ELSE total[s]
<1>1. \A s \in Moving : curr[s] \in Nat /\ prev[s] \in Nat /\ prev[s] <= curr[s]
  BY DEF MetricsOK, MetricsTypes, Account
<1>2. \A s \in Moving : Delta(s) = curr[s] - prev[s] /\ Delta(s) \in Nat
  <2> SUFFICES ASSUME NEW s \in Moving
               PROVE  Delta(s) = curr[s] - prev[s] /\ Delta(s) \in Nat
    OBVIOUS
  <2>1. curr[s] \in Nat /\ prev[s] \in Nat /\ ~ (curr[s] < prev[s]) /\ curr[s] - prev[s] \in Nat
    BY <1>1
  <2> QED  BY <2>1 DEF Delta
<1>3. /\ DOMAIN Group(i) = SlotsOf(i) \cap Moving
      /\ \A s \in SlotsOf(i) \cap Moving : Group(i)[s] = Delta(s)
  BY DEF Group
<1>4. ASSUME NEW s \in Moving
      PROVE  /\ AddGroup(total, Group(i))[s] =
                  IF s \in SlotsOf(i) THEN total[s] + (curr[s] - prev[s]) ELSE total[s]
             /\ AddGroup(total, Group(i))[s] \in Nat
  <2>1. CASE s \in SlotsOf(i)
    <3>1. AddGroup(total, Group(i))[s] = total[s] + Group(i)[s]
      BY <1>3, <2>1 DEF AddGroup
    <3>2. Group(i)[s] = curr[s] - prev[s] /\ Group(i)[s] \in Nat
      BY <1>2, <1>3, <2>1
    <3>3. total[s] \in Nat
      OBVIOUS
    <3>4. total[s] + Group(i)[s] \in Nat
      BY <3>2, <3>3
    <3> QED  BY <2>1, <3>1, <3>2, <3>4
  <2>2. CASE s \notin SlotsOf(i)
    <3>1. AddGroup(total, Group(i))[s] = total[s]
      BY <1>3, <2>2 DEF AddGroup
    <3> QED  BY <2>2, <3>1
  <2> QED  BY <2>1, <2>2
<1>5. AddGroup(total, Group(i)) = [s \in Moving |-> AddGroup(total, Group(i))[s]]
  BY DEF AddGroup
<1> QED  BY <1>4, <1>5

\* A metric is emitted, or not; behind the last one the snapshot is the last.
LEMMA EmitKeeps ==
  ASSUME MetricsOK, NEW fails \in BOOLEAN, EmitNext(fails)
  PROVE  MetricsOK'
<1> DEFINE i == Min(toEmit)
<1>1. /\ toEmit /= {} /\ toEmit' = toEmit \ {i} /\ toLoad' = toLoad /\ toLoad = {}
      /\ counters' = counters /\ curr' = curr
      /\ prev' = IF toEmit' = {} THEN curr ELSE prev
      /\ \/ missed' = AddGroup(missed, Group(i)) /\ reported' = reported
         \/ reported' = AddGroup(reported, Group(i)) /\ missed' = missed
  BY DEF EmitNext, AfterReport, MetricsOK
<1>2. /\ counters \in [Moving -> Nat] /\ prev \in [Moving -> Nat] /\ curr \in [Moving -> Nat]
      /\ reported \in [Moving -> Nat] /\ missed \in [Moving -> Nat]
      /\ toEmit \subseteq MovingMetrics
  BY DEF MetricsOK, MetricsTypes
<1>3. i \in toEmit
  <2>1. MovingMetrics \subseteq 1 .. 17
    BY DefinitionsAre DEF MovingMetrics
  <2>2. toEmit \subseteq Nat
    <3>1. 1 .. 17 \subseteq Nat
      OBVIOUS
    <3> QED  BY <1>2, <2>1, <3>1
  <2> QED  BY <1>1, <2>2, MinIs
<1> HIDE DEF i
<1>4. /\ AddGroup(missed, Group(i)) \in [Moving -> Nat]
      /\ AddGroup(reported, Group(i)) \in [Moving -> Nat]
  BY <1>2, GroupAdds
<1>5. MetricsTypes'
  <2>1. reported' \in [Moving -> Nat] /\ missed' \in [Moving -> Nat]
    BY <1>1, <1>2, <1>4
  <2>2. prev' \in [Moving -> Nat]
    BY <1>1, <1>2
  <2>3. toEmit' \subseteq MovingMetrics
    BY <1>1, <1>2
  <2> QED  BY <1>1, <2>1, <2>2, <2>3 DEF MetricsOK, MetricsTypes
<1>6. ASSUME NEW s \in Moving
      PROVE  Account(s)'
  <2>1. /\ counters[s] \in Nat /\ prev[s] \in Nat /\ curr[s] \in Nat
        /\ reported[s] \in Nat /\ missed[s] \in Nat
    BY <1>2
  <2>2. /\ reported[s] + missed[s] = (IF Tried(s) THEN curr[s] ELSE prev[s])
        /\ prev[s] <= curr[s] /\ curr[s] <= counters[s] /\ counters[s] <= MaxCount[s]
    BY DEF MetricsOK, Account
  <2>3. prev'[s] = curr[s] \/ prev'[s] = prev[s]
    BY <1>1
  <2>4. prev'[s] <= curr[s]
    BY <2>1, <2>2, <2>3
  <2>5. reported'[s] + missed'[s] = (IF Tried(s)' THEN curr[s] ELSE prev'[s])
    <3>1. toEmit' = {} => ~ Tried(s)' /\ prev'[s] = curr[s]
      BY <1>1 DEF Tried
    <3>2. toEmit' /= {} => prev'[s] = prev[s]
      BY <1>1
    <3>3. CASE s \in SlotsOf(i)
      <4>1. ~ Tried(s)
        BY <1>3, <3>3 DEF Tried
      <4>2. reported[s] + missed[s] = prev[s]
        BY <2>2, <4>1
      <4>3. \/ missed'[s] = missed[s] + (curr[s] - prev[s]) /\ reported'[s] = reported[s]
            \/ reported'[s] = reported[s] + (curr[s] - prev[s]) /\ missed'[s] = missed[s]
        BY <1>1, <1>2, <3>3, GroupAdds
      <4>4. reported'[s] + missed'[s] = curr[s]
        BY <2>1, <4>2, <4>3
      <4>5. toEmit' /= {} => Tried(s)'
        <5> SUFFICES ASSUME toEmit' /= {}, NEW j \in toEmit', s \in SlotsOf(j)  PROVE FALSE
          BY DEF Tried
        <5>1. i \in DOMAIN Definitions /\ j \in DOMAIN Definitions /\ i /= j
          BY <1>1, <1>2, <1>3 DEF MovingMetrics
        <5> QED  BY <3>3, <5>1, SlotsApart
      <4> QED  BY <3>1, <4>4, <4>5
    <3>4. CASE s \notin SlotsOf(i)
      <4>1. reported'[s] = reported[s] /\ missed'[s] = missed[s]
        BY <1>1, <1>2, <3>4, GroupAdds
      <4>2. toEmit' = {} => Tried(s)
        <5>1. ASSUME toEmit' = {}
              PROVE  toEmit = {i}
          BY <1>1, <1>3, <5>1
        <5> QED  BY <3>4, <5>1 DEF Tried
      <4>3. toEmit' /= {} => (Tried(s)' <=> Tried(s))
        BY <1>1, <3>4 DEF Tried
      <4>4. CASE toEmit' = {}
        BY <2>2, <3>1, <4>1, <4>2, <4>4
      <4>5. CASE toEmit' /= {}
        BY <2>2, <3>2, <4>1, <4>3, <4>5
      <4> QED  BY <4>4, <4>5
    <3> QED  BY <3>3, <3>4
  <2>6. curr'[s] = curr[s] /\ counters'[s] = counters[s]
    BY <1>1
  <2> QED  BY <2>2, <2>4, <2>5, <2>6 DEF Account
<1> QED  BY <1>1, <1>5, <1>6 DEF MetricsOK

LEMMA StepKeepsMetrics ==
  ASSUME MetricsOK, MetricsStep
  PROVE  MetricsOK'
BY TickKeeps, LoadKeeps, EmitKeeps DEF MetricsStep

-----------------------------------------------------------------------------
(* The phases                                                              *)

LEMMA DepthIs ==
  /\ WithDepth({}) = {}
  /\ \A T, x : WithDepth(T \cup {x}) = WithDepth(T) \cup {Deep(x)}
  /\ \A T, U : T \subseteq U => WithDepth(T) \subseteq WithDepth(U)
  /\ \A T : \A x \in T : Deep(x) \in WithDepth(T)
BY DEF WithDepth

LEMMA DepthStays ==
  ASSUME world' = world
  PROVE  \A T : WithDepth(T)' = WithDepth(T)
BY ListsStay DEF WithDepth

\* The types, and the properties that a step of main() can break.
Kinds ==
  /\ world \in Worlds /\ reachable \in BOOLEAN /\ signal \in BOOLEAN
  /\ phase \in Ended \cup {"preparing", "connecting", "sleeping", "starting", "returning",
                           "running", "aborting", "unsubscribing"}
  /\ pumps \subseteq ToSet(AllSubscriptions) /\ periodic \subseteq ToSet(Periodic)
  /\ subs \cup stuck \subseteq WithDepth(ToSet(AllSubscriptions))

MainInv == Kinds /\ PhaseInv /\ Passed /\ NeverHalfSubscribed /\ CleanStop

\* What the next state says of the lists that the world gives.
SameLists ==
  /\ world' = world /\ Periodic' = Periodic
  /\ AllSubscriptions' = AllSubscriptions /\ Tasks' = Tasks
  /\ \A T : WithDepth(T)' = WithDepth(T)
  /\ Fatal(world)' = Fatal(world)

LEMMA ListsAreSame ==
  ASSUME world' = world
  PROVE  SameLists
<1>1. Periodic' = Periodic
  BY DEF Periodic
<1>2. Fatal(world)' = Fatal(world)
  OBVIOUS
<1> QED  BY <1>1, <1>2, ListsStay, DepthStays DEF SameLists

\* What is in an empty list.
LEMMA EmptySet ==
  ToSet(<<>>) = {}
BY DEF ToSet

\* One step down either list, for the lists of this world.
LEMMA TodoStep ==
  ASSUME NEW list, list = AllSubscriptions \/ list = Tasks, LeftOf(list)
  PROVE  /\ todo /= <<>> /\ IsSuffix(todo, list)
         /\ Head(todo) \in ToSet(list) /\ ToSet(todo) \subseteq ToSet(list)
         /\ ToSet(todo) = {Head(todo)} \cup ToSet(Tail(todo))
         /\ Len(todo) = 1 => Tail(todo) = <<>>
         /\ Len(todo) /= 1 => Rest(list, Tail(todo))
<1>1. PICK S : list \in Seq(S)
  BY ListsAre
<1>2. Rest(list, todo)
  BY DEF LeftOf, Rest
<1> QED  BY <1>1, <1>2, LeftStep

LEMMA TodoStart ==
  Rest(AllSubscriptions, AllSubscriptions) /\ Rest(Tasks, Tasks)
BY ListsAre, LeftAll

LEMMA MainStarts ==
  ASSUME Init
  PROVE  MainInv
<1>1. /\ world \in Worlds /\ reachable \in BOOLEAN /\ signal \in BOOLEAN
      /\ phase = "preparing" /\ Nothing /\ todo = <<>>
  BY DEF Init, Nothing
<1>2. Kinds
  BY <1>1 DEF Kinds, Nothing
<1>3. PhaseInv
  BY <1>1 DEF PhaseInv
<1> QED  BY <1>1, <1>2, <1>3 DEF MainInv, Passed, NeverHalfSubscribed, CleanStop

\* A step to a phase in which nothing is set up.
LEMMA QuietKeeps ==
  ASSUME MainInv, SameLists, Nothing',
         reachable' \in BOOLEAN, signal' \in BOOLEAN,
         \/ phase' = "failed"
         \/ phase' \in {"connecting", "sleeping", "abandoned"} /\ todo' = <<>> /\ Fatal(world) = "none"
  PROVE  MainInv'
<1>1. phase' \in {"connecting", "sleeping", "abandoned", "failed"}
  OBVIOUS
<1>2. subs' = {} /\ stuck' = {} /\ pumps' = {} /\ periodic' = {}
  BY DEF Nothing
<1>3. Kinds'
  BY <1>1, <1>2 DEF MainInv, Kinds, SameLists, Ended
<1>4. PhaseInv'
  BY <1>1 DEF PhaseInv
<1>5. Passed'
  BY <1>1 DEF Passed, SameLists
<1>6. NeverHalfSubscribed'
  BY <1>1, <1>2 DEF NeverHalfSubscribed
<1>7. CleanStop'
  BY <1>1 DEF CleanStop
<1> QED  BY <1>3, <1>4, <1>5, <1>6, <1>7 DEF MainInv

LEMMA QuietActions ==
  ASSUME MainInv, SameLists, Prepare \/ ConnectFails \/ Retry \/ Abandon \/ RuntimeDropped
  PROVE  MainInv'
<1>1. /\ reachable' = reachable /\ signal' = signal
      /\ reachable \in BOOLEAN /\ signal \in BOOLEAN
  BY DEF Prepare, ConnectFails, Retry, Abandon, RuntimeDropped, worldVars, MainInv, Kinds
<1>2. CASE Prepare
  <2>1. Nothing /\ todo = <<>>
    BY <1>2 DEF Prepare, MainInv, PhaseInv
  <2>2. Nothing' /\ todo' = <<>>
    BY <1>2, <2>1 DEF Prepare, Nothing
  <2>3. phase' = "failed" \/ (phase' = "connecting" /\ Fatal(world) = "none")
    <3>1. CASE Fatal(world) = "none"
      BY <1>2, <3>1 DEF Prepare
    <3>2. CASE Fatal(world) /= "none"
      <4>1. Fail(Fatal(world))
        BY <1>2, <3>2 DEF Prepare
      <4> QED  BY <4>1 DEF Fail
    <3> QED  BY <3>1, <3>2
  <2> QED  BY <1>1, <2>2, <2>3, QuietKeeps
<1>3. CASE ConnectFails \/ Retry \/ Abandon
  <2>1. phase \in {"connecting", "sleeping"} /\ phase' \in {"connecting", "sleeping", "abandoned"}
    BY <1>3 DEF ConnectFails, Retry, Abandon
  <2>2. Nothing /\ todo = <<>> /\ Fatal(world) = "none"
    BY <2>1 DEF MainInv, PhaseInv, Passed
  <2>3. Nothing' /\ todo' = <<>>
    BY <1>3, <2>2 DEF ConnectFails, Retry, Abandon, Nothing
  <2> QED  BY <1>1, <2>1, <2>2, <2>3, QuietKeeps
<1>4. CASE RuntimeDropped
  <2>1. stuck = {} /\ periodic = {}
    BY <1>4 DEF RuntimeDropped, MainInv, PhaseInv
  <2>2. Nothing' /\ phase' = "failed"
    BY <1>4, <2>1 DEF RuntimeDropped, Nothing
  <2> QED  BY <1>1, <2>2, QuietKeeps
<1> QED  BY <1>2, <1>3, <1>4

LEMMA ConnectOkKeeps ==
  ASSUME MainInv, SameLists, ConnectOk
  PROVE  MainInv'
<1>1. /\ phase = "connecting" /\ phase' = "starting" /\ todo' = AllSubscriptions
      /\ reachable' = reachable /\ signal' = signal
      /\ subs' = subs /\ stuck' = stuck /\ pumps' = pumps /\ periodic' = periodic
  BY DEF ConnectOk, worldVars
<1>2. subs' = {} /\ stuck' = {} /\ pumps' = {} /\ periodic' = {}
  BY <1>1 DEF MainInv, PhaseInv, Nothing
<1>3. Kinds'
  BY <1>1, <1>2 DEF MainInv, Kinds, SameLists
<1>4. LeftOf(AllSubscriptions)'
  BY <1>1, TodoStart DEF LeftOf, Rest, SameLists
<1>5. pumps' \cup ToSet(todo)' = ToSet(AllSubscriptions)'
  BY <1>1, <1>2 DEF SameLists
<1>6. subs' = WithDepth(pumps)'
  <2>1. WithDepth({})' = {}
    BY DepthIs DEF SameLists
  <2> QED  BY <1>2, <2>1
<1>7. PhaseInv'
  BY <1>1, <1>2, <1>4, <1>5, <1>6 DEF PhaseInv
<1>8. Passed'
  BY <1>1 DEF MainInv, Passed, SameLists
<1> QED  BY <1>1, <1>3, <1>7, <1>8 DEF MainInv, NeverHalfSubscribed, CleanStop

\* A subscription is made, and its pump runs; behind the last one all runs.
LEMMA SubscribeOkKeeps ==
  ASSUME MainInv, SameLists, SubscribeOk
  PROVE  MainInv'
<1> DEFINE h == Head(todo)
           all == ToSet(AllSubscriptions)
<1>1. /\ phase = "starting"
      /\ subs' = subs \cup {Deep(h)} /\ pumps' = pumps \cup {h} /\ todo' = Tail(todo)
      /\ reachable' = reachable /\ signal' = signal /\ stuck' = stuck
      /\ Started
  BY DEF SubscribeOk, worldVars
<1>2. /\ LeftOf(AllSubscriptions) /\ pumps \cup ToSet(todo) = all /\ subs = WithDepth(pumps)
      /\ stuck = {} /\ periodic = {} /\ Fatal(world) = "none" /\ pumps \subseteq all
  BY <1>1 DEF MainInv, Kinds, PhaseInv, Passed
<1>3. /\ h \in all /\ ToSet(todo) = {h} \cup ToSet(Tail(todo))
      /\ Len(todo) = 1 => Tail(todo) = <<>>
      /\ Len(todo) /= 1 => Rest(AllSubscriptions, Tail(todo))
  BY <1>2, TodoStep
<1> HIDE DEF h
<1>4. pumps' \subseteq all /\ pumps' \cup ToSet(todo') = all
  BY <1>1, <1>2, <1>3
<1>5. subs' = WithDepth(pumps')
  BY <1>1, <1>2, DepthIs
<1>6. subs' \subseteq WithDepth(all)
  BY <1>4, <1>5, DepthIs
<1>7. CASE Len(todo) = 1
  <2>1. phase' = "running" /\ periodic' = Spawned
    BY <1>1, <1>7 DEF Started
  <2>2. periodic' = ToSet(Periodic)
    BY <1>2, <2>1, AllSpawned DEF MainInv, Kinds
  <2>3. todo' = <<>> /\ pumps' = all
    BY <1>1, <1>3, <1>4, <1>7, EmptySet
  <2>4. Kinds'
    BY <1>1, <1>2, <1>4, <1>6, <2>1, <2>2 DEF MainInv, Kinds, SameLists
  <2>5. PhaseInv'
    BY <2>1, <2>3 DEF PhaseInv
  <2>6. Passed'
    BY <1>2 DEF Passed, SameLists
  <2>7. NeverHalfSubscribed'
    BY <1>5, <2>1, <2>2, <2>3 DEF NeverHalfSubscribed, SameLists
  <2>8. CleanStop'
    BY <2>1 DEF CleanStop
  <2> QED  BY <2>4, <2>5, <2>6, <2>7, <2>8 DEF MainInv
<1>8. CASE Len(todo) /= 1
  <2>1. phase' = "starting" /\ periodic' = {} /\ stuck' = {}
    BY <1>1, <1>2, <1>8 DEF Started
  <2>2. LeftOf(AllSubscriptions)'
    BY <1>1, <1>3, <1>8 DEF LeftOf, Rest, SameLists
  <2>3. Kinds'
    BY <1>1, <1>4, <1>6, <2>1 DEF MainInv, Kinds, SameLists
  <2>4. PhaseInv'
    <3>1. pumps' \cup ToSet(todo)' = ToSet(AllSubscriptions)'
      BY <1>4 DEF SameLists
    <3>2. subs' = WithDepth(pumps)'
      BY <1>5 DEF SameLists
    <3> QED  BY <2>1, <2>2, <3>1, <3>2 DEF PhaseInv
  <2>5. Passed'
    BY <1>2 DEF Passed, SameLists
  <2> QED  BY <2>1, <2>3, <2>4, <2>5 DEF MainInv, NeverHalfSubscribed, CleanStop
<1> QED  BY <1>7, <1>8

LEMMA SubscribeFailsKeeps ==
  ASSUME MainInv, SameLists, SubscribeFails
  PROVE  MainInv'
<1>1. /\ phase = "starting" /\ phase' = "returning" /\ todo' = <<>>
      /\ reachable' = reachable /\ signal' = signal
      /\ subs' = subs /\ stuck' = stuck /\ pumps' = pumps /\ periodic' = periodic
  BY DEF SubscribeFails, worldVars
<1>2. stuck = {} /\ periodic = {} /\ Fatal(world) = "none"
  BY <1>1 DEF MainInv, PhaseInv, Passed
<1>3. Kinds'
  BY <1>1 DEF MainInv, Kinds, SameLists
<1>4. PhaseInv' /\ Passed'
  BY <1>1, <1>2 DEF PhaseInv, Passed, SameLists
<1> QED  BY <1>1, <1>3, <1>4 DEF MainInv, NeverHalfSubscribed, CleanStop

LEMMA ShutdownKeeps ==
  ASSUME MainInv, SameLists, Shutdown
  PROVE  MainInv'
<1>1. /\ phase = "running" /\ phase' = "aborting" /\ todo' = Tasks
      /\ reachable' = reachable /\ signal' = signal
      /\ subs' = subs /\ stuck' = stuck /\ pumps' = pumps /\ periodic' = periodic
  BY DEF Shutdown, worldVars
<1>2. Kinds'
  BY <1>1 DEF MainInv, Kinds, SameLists
<1>3. LeftOf(Tasks)'
  BY <1>1, TodoStart DEF LeftOf, Rest, SameLists
<1>4. pumps' \cup periodic' \subseteq ToSet(todo)'
  BY <1>1, ListsAre DEF MainInv, Kinds
<1>5. PhaseInv' /\ Passed'
  BY <1>1, <1>3, <1>4 DEF PhaseInv, MainInv, Passed, SameLists
<1> QED  BY <1>1, <1>2, <1>5 DEF MainInv, NeverHalfSubscribed, CleanStop

\* A task has ended; behind the last one none is left.
LEMMA AwaitTaskKeeps ==
  ASSUME MainInv, SameLists, AwaitTask
  PROVE  MainInv'
<1> DEFINE h == Head(todo)
<1>1. /\ phase = "aborting"
      /\ pumps' = pumps \ {h} /\ periodic' = periodic \ {h}
      /\ reachable' = reachable /\ signal' = signal /\ subs' = subs /\ stuck' = stuck
      /\ Len(todo) = 1 => phase' = "unsubscribing" /\ todo' = AllSubscriptions
      /\ Len(todo) /= 1 => phase' = "aborting" /\ todo' = Tail(todo)
  BY DEF AwaitTask, worldVars
<1>2. /\ LeftOf(Tasks) /\ pumps \cup periodic \subseteq ToSet(todo)
      /\ subs \cup stuck \subseteq WithDepth(ToSet(AllSubscriptions))
  BY <1>1 DEF MainInv, PhaseInv, Kinds
<1>3. /\ ToSet(todo) = {h} \cup ToSet(Tail(todo))
      /\ Len(todo) = 1 => Tail(todo) = <<>>
      /\ Len(todo) /= 1 => Rest(Tasks, Tail(todo))
  BY <1>2, TodoStep
<1> HIDE DEF h
<1>4. pumps' \cup periodic' \subseteq ToSet(Tail(todo))
  BY <1>1, <1>2, <1>3
<1>5. Passed'
  BY <1>1 DEF MainInv, Passed, SameLists
<1>6. /\ world \in Worlds /\ reachable' \in BOOLEAN /\ signal' \in BOOLEAN
      /\ pumps' \subseteq ToSet(AllSubscriptions) /\ periodic' \subseteq ToSet(Periodic)
      /\ subs' \cup stuck' \subseteq WithDepth(ToSet(AllSubscriptions))
  BY <1>1, <1>2 DEF MainInv, Kinds
<1>7. CASE Len(todo) = 1
  <2>1. phase' = "unsubscribing" /\ todo' = AllSubscriptions
    BY <1>1, <1>7
  <2>2. pumps' = {} /\ periodic' = {}
    BY <1>3, <1>4, <1>7, EmptySet
  <2>3. Kinds'
    BY <1>6, <2>1 DEF Kinds, SameLists
  <2>4. PhaseInv'
    <3>1. LeftOf(AllSubscriptions)'
      BY <2>1, TodoStart DEF LeftOf, Rest, SameLists
    <3>2. subs' \subseteq stuck' \cup WithDepth(ToSet(todo))'
      BY <1>6, <2>1 DEF SameLists
    <3> QED  BY <2>1, <3>1, <3>2 DEF PhaseInv
  <2>5. NeverHalfSubscribed' /\ CleanStop'
    BY <2>1, <2>2 DEF NeverHalfSubscribed, CleanStop
  <2> QED  BY <1>5, <2>3, <2>4, <2>5 DEF MainInv
<1>8. CASE Len(todo) /= 1
  <2>1. phase' = "aborting" /\ todo' = Tail(todo)
    BY <1>1, <1>8
  <2>2. Kinds'
    BY <1>6, <2>1 DEF Kinds, SameLists
  <2>3. PhaseInv'
    <3>1. LeftOf(Tasks)'
      BY <1>3, <1>8, <2>1 DEF LeftOf, Rest, SameLists
    <3>2. pumps' \cup periodic' \subseteq ToSet(todo)'
      BY <1>4, <2>1
    <3> QED  BY <2>1, <3>1, <3>2 DEF PhaseInv
  <2>4. NeverHalfSubscribed' /\ CleanStop'
    BY <2>1 DEF NeverHalfSubscribed, CleanStop
  <2> QED  BY <1>5, <2>2, <2>3, <2>4 DEF MainInv
<1> QED  BY <1>7, <1>8

\* A subscription is gone, or it is stuck; behind the last one no other is left.
LEMMA UnsubscribeKeeps ==
  ASSUME MainInv, SameLists, UnsubscribeOk \/ UnsubscribeFails
  PROVE  MainInv'
<1> DEFINE h == Head(todo)
           all == ToSet(AllSubscriptions)
<1>1. /\ phase = "unsubscribing" /\ todo' = Tail(todo)
      /\ Len(todo) = 1 => phase' = "stopped"
      /\ Len(todo) /= 1 => phase' = "unsubscribing"
      /\ reachable' = reachable /\ signal' = signal
      /\ pumps' = pumps /\ periodic' = periodic
  BY DEF UnsubscribeOk, UnsubscribeFails, Unsubscribed, worldVars
<1>2. /\ subs' \subseteq subs /\ stuck \subseteq stuck' /\ stuck' \subseteq stuck \cup {Deep(h)}
      /\ Deep(h) \notin subs' \/ Deep(h) \in stuck'
  BY DEF UnsubscribeOk, UnsubscribeFails
<1>3. /\ LeftOf(AllSubscriptions) /\ subs \subseteq stuck \cup WithDepth(ToSet(todo))
      /\ subs \cup stuck \subseteq WithDepth(all)
      /\ pumps = {} /\ periodic = {}
  BY <1>1 DEF MainInv, PhaseInv, Kinds, CleanStop
<1>4. /\ h \in all /\ ToSet(todo) = {h} \cup ToSet(Tail(todo))
      /\ Len(todo) = 1 => Tail(todo) = <<>>
      /\ Len(todo) /= 1 => Rest(AllSubscriptions, Tail(todo))
  BY <1>3, TodoStep
<1> HIDE DEF h, all
<1>5. Deep(h) \in WithDepth(all)
  BY <1>4, DepthIs
<1>6. WithDepth(ToSet(todo)) = WithDepth(ToSet(Tail(todo))) \cup {Deep(h)}
  <2>1. ToSet(todo) = ToSet(Tail(todo)) \cup {h}
    BY <1>4
  <2> QED  BY <2>1, DepthIs
<1>7. subs' \subseteq stuck' \cup WithDepth(ToSet(Tail(todo)))
  BY <1>2, <1>3, <1>6
<1>8. subs' \cup stuck' \subseteq WithDepth(all)
  BY <1>2, <1>3, <1>5
<1>9. Passed'
  BY <1>1 DEF MainInv, Passed, SameLists
<1>10. /\ world \in Worlds /\ reachable' \in BOOLEAN /\ signal' \in BOOLEAN
       /\ pumps' = {} /\ periodic' = {}
       /\ subs' \cup stuck' \subseteq WithDepth(ToSet(AllSubscriptions))
  BY <1>1, <1>3, <1>8 DEF MainInv, Kinds, all
<1>11. CASE Len(todo) = 1
  <2>1. phase' = "stopped" /\ todo' = <<>>
    BY <1>1, <1>4, <1>11
  <2>2. Kinds'
    BY <1>10, <2>1 DEF Kinds, SameLists, Ended
  <2>3. PhaseInv'
    BY <2>1 DEF PhaseInv
  <2>4. subs' \subseteq stuck'
    <3>1. WithDepth(ToSet(Tail(todo))) = {}
      BY <1>4, <1>11, EmptySet, DepthIs
    <3> QED  BY <1>7, <3>1
  <2>5. NeverHalfSubscribed' /\ CleanStop'
    BY <1>10, <2>1, <2>4 DEF NeverHalfSubscribed, CleanStop
  <2> QED  BY <1>9, <2>2, <2>3, <2>5 DEF MainInv
<1>12. CASE Len(todo) /= 1
  <2>1. phase' = "unsubscribing" /\ todo' = Tail(todo)
    BY <1>1, <1>12
  <2>2. Kinds'
    BY <1>10, <2>1 DEF Kinds, SameLists
  <2>3. PhaseInv'
    <3>1. LeftOf(AllSubscriptions)'
      BY <1>4, <1>12, <2>1 DEF LeftOf, Rest, SameLists
    <3>2. subs' \subseteq stuck' \cup WithDepth(ToSet(todo))'
      BY <1>7, <2>1 DEF SameLists
    <3> QED  BY <2>1, <3>1, <3>2 DEF PhaseInv
  <2>4. NeverHalfSubscribed' /\ CleanStop'
    BY <1>10, <2>1 DEF NeverHalfSubscribed, CleanStop
  <2> QED  BY <1>9, <2>2, <2>3, <2>4 DEF MainInv
<1> QED  BY <1>11, <1>12

-----------------------------------------------------------------------------
(* Every step                                                              *)

\* While the phase stays, so does what depends on it.
LEMMA IdleKeeps ==
  ASSUME MainInv, SameLists, UNCHANGED mainVars, reachable' \in BOOLEAN, signal' \in BOOLEAN
  PROVE  MainInv'
<1>1. /\ phase' = phase /\ todo' = todo /\ subs' = subs /\ stuck' = stuck
      /\ pumps' = pumps /\ periodic' = periodic
  BY DEF mainVars
<1>2. Kinds'
  BY <1>1 DEF MainInv, Kinds, SameLists
<1>3. PhaseInv'
  <2>1. LeftOf(AllSubscriptions)' <=> LeftOf(AllSubscriptions)
    BY <1>1 DEF LeftOf, SameLists
  <2>2. LeftOf(Tasks)' <=> LeftOf(Tasks)
    BY <1>1 DEF LeftOf, SameLists
  <2>3. Nothing' <=> Nothing
    BY <1>1 DEF Nothing
  <2>4. /\ WithDepth(pumps)' = WithDepth(pumps)
        /\ WithDepth(ToSet(todo))' = WithDepth(ToSet(todo))
        /\ ToSet(todo)' = ToSet(todo) /\ ToSet(AllSubscriptions)' = ToSet(AllSubscriptions)
    BY <1>1 DEF SameLists
  <2> QED  BY <1>1, <2>1, <2>2, <2>3, <2>4 DEF MainInv, PhaseInv
<1>4. Passed'
  BY <1>1 DEF MainInv, Passed, SameLists
<1>5. NeverHalfSubscribed'
  BY <1>1 DEF MainInv, NeverHalfSubscribed, SameLists
<1>6. CleanStop'
  BY <1>1 DEF MainInv, CleanStop
<1> QED  BY <1>2, <1>3, <1>4, <1>5, <1>6 DEF MainInv

LEMMA StepKeepsMain ==
  ASSUME MainInv, [Next]_vars
  PROVE  MainInv'
<1>1. SameLists
  BY WorldStays, ListsAreSame
<1>2. reachable \in BOOLEAN /\ signal \in BOOLEAN
  BY DEF MainInv, Kinds
<1>3. CASE UNCHANGED vars
  BY <1>1, <1>2, <1>3, IdleKeeps DEF vars, worldVars
<1>4. CASE Main
  BY <1>1, <1>4, QuietActions, ConnectOkKeeps, SubscribeOkKeeps, SubscribeFailsKeeps,
     ShutdownKeeps, AwaitTaskKeeps, UnsubscribeKeeps DEF Main
<1>5. CASE (\E s \in pumps : Relay(s)) \/ Report
  BY <1>1, <1>2, <1>5, IdleKeeps DEF Relay, Report, worldVars
<1>6. CASE SiteTurns \/ Signalled
  <2>1. /\ UNCHANGED mainVars
        /\ reachable' \in BOOLEAN /\ signal' \in BOOLEAN
    BY <1>2, <1>6 DEF SiteTurns, Signalled
  <2> QED  BY <1>1, <2>1, IdleKeeps
<1> QED  BY <1>3, <1>4, <1>5, <1>6 DEF Next

LEMMA StepKeepsReports ==
  ASSUME MetricsOK, [Next]_vars
  PROVE  MetricsOK'
<1>1. ASSUME UNCHANGED metricVars
      PROVE  MetricsOK'
  BY <1>1 DEF metricVars, reportVars, MetricsOK, MetricsTypes, Account, Tried
<1>2. CASE UNCHANGED vars
  BY <1>1, <1>2 DEF vars
<1>3. CASE Main
  BY <1>1, <1>3 DEF Main, Prepare, ConnectOk, ConnectFails, Retry, Abandon, SubscribeOk,
     SubscribeFails, RuntimeDropped, Shutdown, AwaitTask, UnsubscribeOk, UnsubscribeFails
<1>4. CASE \E s \in pumps : Relay(s)
  BY <1>4, CountKeeps DEF Relay
<1>5. CASE Report
  BY <1>5, StepKeepsMetrics DEF Report
<1>6. CASE SiteTurns \/ Signalled
  BY <1>1, <1>6 DEF SiteTurns, Signalled
<1> QED  BY <1>2, <1>3, <1>4, <1>5, <1>6 DEF Next

\* The type invariant follows from the phases.
LEMMA TypesFollow ==
  ASSUME MainInv, MetricsOK
  PROVE  TypeOK
<1>1. MetricsTypeOK
  BY MetricsParts
<1>2. Kinds /\ PhaseInv
  BY DEF MainInv
<1>3. ASSUME phase \notin {"preparing", "failed"}
      PROVE  IsSuffix(todo, AllSubscriptions) \/ IsSuffix(todo, Tasks)
  <2>1. CASE todo = <<>>
    <3>1. PICK S : AllSubscriptions \in Seq(S)
      BY ListsAre
    <3>2. <<>> \in Seq(S) /\ Len(<<>>) = 0 /\ Len(AllSubscriptions) \in Nat
      BY <3>1, LenProperties, EmptySeq
    <3>3. /\ Len(<<>>) <= Len(AllSubscriptions)
          /\ \A i \in 1 .. Len(<<>>) :
               <<>>[(Len(<<>>) - i) + 1] = AllSubscriptions[(Len(AllSubscriptions) - i) + 1]
      BY <3>2
    <3>4. IsSuffix(<<>>, AllSubscriptions)
      BY <3>1, <3>2, <3>3, SuffixIs
    <3> QED  BY <2>1, <3>4
  <2>2. CASE LeftOf(AllSubscriptions)
    BY <2>2, TodoStep
  <2>3. CASE LeftOf(Tasks)
    BY <2>3, TodoStep
  <2>4. phase \in {"connecting", "sleeping", "abandoned", "starting", "returning", "running",
                   "stopped", "aborting", "unsubscribing"}
    BY <1>2, <1>3 DEF Kinds, Ended
  <2> QED  BY <1>2, <2>1, <2>2, <2>3, <2>4 DEF PhaseInv
<1> QED  BY <1>1, <1>2, <1>3 DEF TypeOK, Kinds

ProofInv == MainInv /\ MetricsOK

LEMMA ProofInvHolds == Spec => []ProofInv
<1>1. Init => ProofInv
  BY MainStarts, MetricsStart DEF Init, ProofInv
<1>2. ProofInv /\ [Next]_vars => ProofInv'
  BY StepKeepsMain, StepKeepsReports DEF ProofInv
<1> QED  BY <1>1, <1>2, PTL DEF Spec

-----------------------------------------------------------------------------
(* The theorems                                                            *)

\* The invariant that TLC checks for the few worlds of its run holds for every
\* set of worlds: where main() stands tells what it has set up, what it still
\* has to do, and what it has made sure of.
THEOREM LifeKeepsInv == Spec => []LifeInv
<1>1. ProofInv => LifeInv
  BY MetricsParts DEF ProofInv, MainInv, LifeInv
<1> QED  BY <1>1, ProofInvHolds, PTL

\* Every variable of a run has its type.
THEOREM TypesHold == Spec => []TypeOK
<1>1. ProofInv => TypeOK
  BY TypesFollow DEF ProofInv
<1> QED  BY <1>1, ProofInvHolds, PTL

\* A bridge that says it runs has every subscription, each with its pump and at
\* its depth, and every periodic task; one that gave up has none of them.
THEOREM NoHalfBridge == Spec => []NeverHalfSubscribed
<1>1. ProofInv => NeverHalfSubscribed
  BY DEF ProofInv, MainInv
<1> QED  BY <1>1, ProofInvHolds, PTL

\* Nothing of the relay runs when RelayIo::shutdown unsubscribes, and what it
\* leaves subscribed it was refused.
THEOREM StopsCleanly == Spec => []CleanStop
<1>1. ProofInv => CleanStop
  BY DEF ProofInv, MainInv
<1> QED  BY <1>1, ProofInvHolds, PTL

\* A run that connects does so under a configuration without an lwt, whose site
\* is the one entry that can be meant.
THEOREM SiteIsKnown == Spec => []SiteIsUnambiguous
<1>1. ProofInv => SiteIsUnambiguous
  <2> SUFFICES ASSUME MainInv, phase \notin {"preparing", "failed"}  PROVE SiteIsUnambiguous
    BY DEF ProofInv, SiteIsUnambiguous
  <2>1. world \in Worlds /\ Fatal(world) = "none"
    BY DEF MainInv, Kinds, Passed
  <2> QED  BY <2>1, SiteIsOne DEF SiteIsUnambiguous, Entry
<1> QED  BY <1>1, ProofInvHolds, PTL

\* Whatever the pumps count while a report is under way, and whichever emissions
\* fail: the deltas add up to the counters, for any counters and any bound.
THEOREM ReportsAddUp == Spec => []DeltasTelescope
<1>1. ProofInv => DeltasTelescope
  BY MetricsParts DEF ProofInv
<1> QED  BY <1>1, ProofInvHolds, PTL

=============================================================================
