----------------------------- MODULE ThrottleProofs -----------------------------
(***************************************************************************)
(* Theorems about Throttle for any rates, windows, clients and overlapping *)
(* requests, and about the serial behaviours of MCThrottle.                *)
(***************************************************************************)
EXTENDS MCThrottle, SequenceTheorems, WellFoundedInduction, FiniteSetTheorems, TLAPS

\* Times are stored newest first, none later than the present.
Sorted(times) ==
  /\ \A i \in DOMAIN times : times[i] <= now
  /\ \A i, j \in DOMAIN times : i <= j => times[j] <= times[i]

\* Every young time of the first list is matched, at its place, by one of the
\* second list that is not older.
Covered(times, by, s) ==
  \A i \in DOMAIN times : Young(times[i], s) => i \in DOMAIN by /\ by[i] >= times[i]

-------------------------------------------------------------------------------
(* What is kept of a history                                               *)

\* There is a last young entry, or all are old.
LEMMA LeastElement ==
  ASSUME NEW S \in SUBSET Nat, S # {}
  PROVE  \E k \in S : \A m \in S : k <= m
<1>1. PICK k \in S : \A m \in S : ~(<<m, k>> \in OpToRel(<, Nat))
  BY NatLessThanWellFounded, WFMin, Zenon
<1>2. \A m \in S : ~(m < k)
  BY <1>1, Zenon DEF OpToRel
<1> QED BY <1>2

LEMMA RecentIsPrefix ==
  ASSUME NEW times \in Seq(Nat), NEW s
  PROVE  \E k \in 0..Len(times) :
           /\ Recent(times, s) = SubSeq(times, 1, k)
           /\ \A i \in k+1..Len(times) : ~Young(times[i], s)
           /\ k > 0 => Young(times[k], s)
<1> DEFINE Old(k) == \A i \in k+1..Len(times) : ~Young(times[i], s)
           S == {k \in 0..Len(times) : Old(k)}
<1>1. Len(times) \in S /\ S \in SUBSET Nat
  BY LenProperties
<1>2. PICK k \in S : \A m \in S : k <= m
  BY <1>1, LeastElement
<1>3. k > 0 => Young(times[k], s)
  <2>1. ASSUME k > 0, ~Young(times[k], s) PROVE FALSE
    <3>1. k - 1 \in 0..Len(times)
      BY <1>1, <1>2, <2>1, LenProperties
    <3>2. Old(k - 1)
      <4>1. \A i \in k..Len(times) : i = k \/ i \in k+1..Len(times)
        BY <1>1, <1>2
      <4>2. Old(k) /\ (k - 1) + 1 = k
        BY <1>1, <1>2
      <4> QED BY <2>1, <4>1, <4>2
    <3>3. k <= k - 1
      BY <1>2, <3>1, <3>2
    <3> QED BY <1>1, <1>2, <3>3
  <2> QED BY <2>1
<1>4. \E n \in 0..Len(times) : Old(n) /\ (n > 0 => Young(times[n], s))
  BY <1>2, <1>3
<1> QED BY <1>4 DEF Recent

\* A history that another admission has been entered in.
Entered(times, s) == <<now>> \o Recent(times, s)

\* What Recent keeps is where it was, and everything young is kept.
LEMMA RecentKeepsYoung ==
  ASSUME NEW times \in Times, NEW s
  PROVE  /\ Recent(times, s) \in Times
         /\ Len(Recent(times, s)) <= Len(times)
         /\ \A i \in 1..Len(Recent(times, s)) : Recent(times, s)[i] = times[i]
         /\ \A i \in 1..Len(times) : Young(times[i], s) => i <= Len(Recent(times, s))
         /\ Len(Recent(times, s)) > 0 => Young(times[Len(Recent(times, s))], s)
<1>1. times \in Seq(Nat) /\ Len(times) \in Nat /\ \A i \in 1..Len(times) : times[i] \in 0..MaxTime
  BY MaxTimeIsNat, LenProperties DEF Times
<1>2. PICK k \in 0..Len(times) :
        /\ Recent(times, s) = SubSeq(times, 1, k)
        /\ \A i \in k+1..Len(times) : ~Young(times[i], s)
        /\ k > 0 => Young(times[k], s)
  BY <1>1, RecentIsPrefix
<1>3. k \in Nat /\ k <= Len(times) /\ \A i \in 1..k : times[i] \in 0..MaxTime
  BY <1>1, <1>2
<1>4. /\ SubSeq(times, 1, k) \in Times
      /\ Len(SubSeq(times, 1, k)) = k
      /\ \A i \in 1..k : SubSeq(times, 1, k)[i] = times[i]
  BY <1>3, SubSeqProperties DEF Times
<1>5. \A i \in 1..Len(times) : i \in k+1..Len(times) \/ i <= k
  BY <1>1, <1>3
<1> QED BY <1>2, <1>3, <1>4, <1>5

\* In a sorted history everything Recent keeps is young.
LEMMA RecentIsYoung ==
  ASSUME NEW times \in Times, NEW s \in AllScopes, now \in Nat, Sorted(times)
  PROVE  \A i \in 1..Len(Recent(times, s)) : Young(times[i], s)
<1> DEFINE k == Len(Recent(times, s))
<1>1. Window[s] \in Nat
  BY WindowsArePositive
<1>2. /\ k \in Nat /\ k <= Len(times) /\ Len(times) \in Nat
      /\ DOMAIN times = 1..Len(times) /\ \A i \in 1..Len(times) : times[i] \in Nat
  BY RecentKeepsYoung, LenProperties, MaxTimeIsNat DEF Times
<1>3. k > 0 => Young(times[k], s)
  BY RecentKeepsYoung
<1> HIDE DEF k
<1>4. ASSUME NEW i \in 1..k PROVE Young(times[i], s)
  <2>1. times[k] <= times[i] /\ times[k] \in Nat /\ times[i] \in Nat
    BY <1>2 DEF Sorted
  <2> QED BY <1>1, <1>2, <1>3, <2>1 DEF Young
<1> QED BY <1>4 DEF k

\* An entry is made in front of what is kept.
LEMMA EnteredInFront ==
  ASSUME NEW times \in Times, NEW s, now \in 0..MaxTime
  PROVE  /\ Entered(times, s) \in Times
         /\ Len(Entered(times, s)) = Len(Recent(times, s)) + 1
         /\ DOMAIN Entered(times, s) = 1..Len(Recent(times, s)) + 1
         /\ Entered(times, s)[1] = now
         /\ \A i \in 1..Len(Recent(times, s)) : Entered(times, s)[i + 1] = times[i]
<1> DEFINE recent == Recent(times, s)
<1>1. recent \in Seq(0..MaxTime) /\ Len(recent) \in Nat
  BY RecentKeepsYoung, LenProperties DEF Times
<1>2. <<now>> \in Seq(0..MaxTime) /\ Len(<<now>>) = 1 /\ <<now>>[1] = now
  OBVIOUS
<1>3. \A i \in 1..Len(recent) : recent[i] = times[i]
  BY RecentKeepsYoung
<1>4. Entered(times, s) = <<now>> \o recent
  BY DEF Entered
<1> HIDE DEF recent
<1>5. /\ <<now>> \o recent \in Seq(0..MaxTime)
      /\ Len(<<now>> \o recent) = 1 + Len(recent)
      /\ \A i \in 1..1 + Len(recent) :
           (<<now>> \o recent)[i] = IF i <= 1 THEN now ELSE recent[i - 1]
  BY <1>1, <1>2, ConcatProperties
<1>6. DOMAIN (<<now>> \o recent) = 1..Len(recent) + 1
  BY <1>1, <1>5, LenProperties
<1>7. \A i \in 1..Len(recent) : i + 1 \in 1..1 + Len(recent) /\ ~(i + 1 <= 1) /\ (i + 1) - 1 = i
  BY <1>1
<1>8. \A i \in 1..Len(recent) : (<<now>> \o recent)[i + 1] = times[i]
  BY <1>3, <1>5, <1>7
<1> QED BY <1>1, <1>4, <1>5, <1>6, <1>8 DEF recent, Times

\* The entries of a history, and of what an entry makes of it, are numbers.
LEMMA EntriesAreNumbers ==
  ASSUME NEW times \in Times
  PROVE  /\ Len(times) \in Nat /\ DOMAIN times = 1..Len(times)
         /\ \A i \in 1..Len(times) : times[i] \in Nat
BY LenProperties, MaxTimeIsNat DEF Times

\* An entry keeps a history sorted.
LEMMA EnteredIsSorted ==
  ASSUME NEW times \in Times, NEW s, now \in 0..MaxTime, Sorted(times)
  PROVE  Sorted(Entered(times, s))
<1> DEFINE k == Len(Recent(times, s))
           e == Entered(times, s)
<1>1. k \in Nat /\ k <= Len(times) /\ now \in Nat
  BY RecentKeepsYoung, LenProperties, MaxTimeIsNat DEF Times
<1>2. /\ DOMAIN e = 1..k + 1 /\ e[1] = now
      /\ \A i \in 1..k : e[i + 1] = times[i]
  BY EnteredInFront
<1> HIDE DEF k, e
<1>3. \A i \in 1..k : times[i] \in Nat /\ times[i] <= now
  BY <1>1, EntriesAreNumbers DEF Sorted
<1>4. \A i, j \in 1..k : i <= j => times[j] <= times[i]
  BY <1>1, EntriesAreNumbers DEF Sorted
<1>5. \A i \in 1..k + 1 : i = 1 \/ (i - 1 \in 1..k /\ e[i] = times[i - 1])
  BY <1>1, <1>2
<1>6. ASSUME NEW i \in 1..k + 1 PROVE e[i] <= now
  <2>1. CASE i = 1
    BY <1>1, <1>2, <2>1
  <2>2. CASE i # 1
    BY <1>3, <1>5, <2>2
  <2> QED BY <2>1, <2>2
<1>7. ASSUME NEW i \in 1..k + 1, NEW j \in 1..k + 1, i <= j PROVE e[j] <= e[i]
  BY <1>1, <1>2, <1>4, <1>5, <1>6, <1>7
<1> QED BY <1>2, <1>6, <1>7 DEF Sorted, e

\* A history that is matched by another stays matched when an entry is made in
\* the other one alone.
LEMMA CoveredByEntry ==
  ASSUME NEW h \in Times, NEW a \in Times, NEW s \in AllScopes, now \in 0..MaxTime,
         Sorted(h), Sorted(a), Covered(h, a, s)
  PROVE  Covered(h, Entered(a, s), s)
<1> DEFINE k == Len(Recent(a, s))
           e == Entered(a, s)
<1>1. k \in Nat /\ k <= Len(a) /\ now \in Nat /\ Window[s] \in Nat
  BY RecentKeepsYoung, LenProperties, MaxTimeIsNat, WindowsArePositive DEF Times
<1>2. DOMAIN e = 1..k + 1 /\ e[1] = now /\ \A i \in 1..k : e[i + 1] = a[i]
  BY EnteredInFront
<1>3. \A i \in 1..Len(a) : Young(a[i], s) => i <= k
  BY RecentKeepsYoung
<1> HIDE DEF k, e
<1>4. ASSUME NEW i \in DOMAIN h, Young(h[i], s) PROVE i \in DOMAIN e /\ e[i] >= h[i]
  <2>1. /\ i \in 1..Len(h) /\ i \in 1..Len(a) /\ i \in Nat /\ a[i] \in Nat /\ h[i] \in Nat
        /\ a[i] >= h[i] /\ h[i] <= now
    BY <1>4, EntriesAreNumbers DEF Covered, Sorted
  <2>2. i <= k
    BY <1>1, <1>3, <1>4, <2>1 DEF Young
  <2>3. CASE i = 1
    BY <1>1, <1>2, <2>1, <2>3
  <2>4. CASE i # 1
    <3>1. i - 1 \in 1..k /\ (i - 1) + 1 = i /\ i \in 1..k + 1
      BY <1>1, <2>1, <2>2, <2>4
    <3>2. i - 1 \in 1..Len(a) /\ a[i - 1] \in Nat /\ i - 1 <= i
      BY <1>1, <2>1, <3>1, EntriesAreNumbers
    <3>3. e[i] = a[i - 1] /\ a[i] <= a[i - 1]
      BY <1>2, <2>1, <3>1, <3>2, EntriesAreNumbers DEF Sorted
    <3> QED BY <1>2, <2>1, <3>1, <3>2, <3>3
  <2> QED BY <2>3, <2>4
<1> QED BY <1>4 DEF Covered, e

\* A history that is matched by another stays matched when an entry is made in
\* both at once.
LEMMA EntryCoveredByEntry ==
  ASSUME NEW h \in Times, NEW a \in Times, NEW s \in AllScopes, now \in 0..MaxTime,
         Covered(h, a, s)
  PROVE  Covered(Entered(h, s), Entered(a, s), s)
<1> DEFINE k == Len(Recent(h, s))
           m == Len(Recent(a, s))
           d == Entered(h, s)
           e == Entered(a, s)
<1>1. /\ k \in Nat /\ m \in Nat /\ k <= Len(h) /\ m <= Len(a)
      /\ now \in Nat /\ Window[s] \in Nat
  BY RecentKeepsYoung, LenProperties, MaxTimeIsNat, WindowsArePositive DEF Times
<1>2. /\ DOMAIN d = 1..k + 1 /\ d[1] = now /\ \A i \in 1..k : d[i + 1] = h[i]
      /\ DOMAIN e = 1..m + 1 /\ e[1] = now /\ \A i \in 1..m : e[i + 1] = a[i]
  BY EnteredInFront
<1>3. \A i \in 1..Len(a) : Young(a[i], s) => i <= m
  BY RecentKeepsYoung
<1> HIDE DEF k, m, d, e
<1>4. ASSUME NEW i \in 1..k + 1, Young(d[i], s) PROVE i \in 1..m + 1 /\ e[i] >= d[i]
  <2>1. CASE i = 1
    BY <1>1, <1>2, <2>1
  <2>2. CASE i # 1
    <3>1. i - 1 \in 1..k /\ (i - 1) + 1 = i /\ i - 1 \in 1..Len(h)
      BY <1>1, <2>2, EntriesAreNumbers
    <3>2. d[i] = h[i - 1] /\ h[i - 1] \in Nat /\ i - 1 \in DOMAIN h
      BY <1>2, <3>1, EntriesAreNumbers
    <3>3. i - 1 \in 1..Len(a) /\ a[i - 1] >= h[i - 1] /\ a[i - 1] \in Nat
      BY <1>4, <3>2, EntriesAreNumbers DEF Covered
    <3>4. i - 1 <= m /\ i - 1 \in 1..m
      BY <1>1, <1>3, <1>4, <3>1, <3>2, <3>3 DEF Young
    <3>5. e[i] = a[i - 1]
      BY <1>2, <3>1, <3>4
    <3> QED BY <1>1, <3>1, <3>2, <3>3, <3>4, <3>5
  <2> QED BY <2>1, <2>2
<1> QED BY <1>2, <1>4 DEF Covered, d, e

LEMMA FirstNumbers ==
  ASSUME NEW n \in Nat
  PROVE  IsFiniteSet(1..n) /\ Cardinality(1..n) = n
BY FS_Interval

\* What is counted in a window is at least what Recent keeps of a history that
\* is matched ...
LEMMA CountedAtLeast ==
  ASSUME NEW h \in Times, NEW a \in Times, NEW s \in AllScopes, now \in Nat,
         Sorted(h), Covered(h, a, s)
  PROVE  Lately(a, s) \in Nat /\ Lately(a, s) >= Len(Recent(h, s))
<1> DEFINE k == Len(Recent(h, s))
           young == {i \in DOMAIN a : Young(a[i], s)}
<1>1. k \in Nat /\ k <= Len(h) /\ Window[s] \in Nat
  BY RecentKeepsYoung, LenProperties, WindowsArePositive DEF Times
<1>2. \A i \in 1..k : Young(h[i], s)
  BY RecentIsYoung
<1> HIDE DEF k
<1>3. ASSUME NEW i \in 1..k PROVE i \in young
  <2>1. i \in DOMAIN h /\ h[i] \in Nat
    BY <1>1, EntriesAreNumbers
  <2>2. i \in DOMAIN a /\ a[i] >= h[i] /\ a[i] \in Nat
    BY <1>2, <2>1, EntriesAreNumbers DEF Covered
  <2> QED BY <1>1, <1>2, <2>1, <2>2 DEF Young
<1>4. young \subseteq 1..Len(a) /\ Len(a) \in Nat
  BY EntriesAreNumbers
<1>5. IsFiniteSet(young) /\ Cardinality(young) \in Nat
  BY <1>4, FirstNumbers, FS_Subset, FS_CardinalityType
<1>6. Cardinality(1..k) = k
  BY <1>1, FirstNumbers
<1>7. Cardinality(1..k) <= Cardinality(young)
  BY <1>3, <1>5, FS_Subset
<1> QED BY <1>1, <1>5, <1>6, <1>7 DEF Lately, k

\* ... and at most the length of a history that matches it.
LEMMA CountedAtMost ==
  ASSUME NEW p \in Times, NEW h \in Times, NEW s, Covered(p, h, s)
  PROVE  Lately(p, s) \in Nat /\ Lately(p, s) <= Len(h)
<1> DEFINE young == {i \in DOMAIN p : Young(p[i], s)}
<1>1. young \subseteq 1..Len(h) /\ Len(h) \in Nat
  BY EntriesAreNumbers DEF Covered
<1>2. IsFiniteSet(1..Len(h)) /\ Cardinality(1..Len(h)) = Len(h)
  BY <1>1, FirstNumbers
<1>3. Cardinality(young) \in Nat /\ Cardinality(young) <= Len(h)
  BY <1>1, <1>2, FS_Subset, FS_CardinalityType
<1> QED BY <1>3 DEF Lately

-------------------------------------------------------------------------------
(* The inductive invariant                                                 *)

\* A stored history is sorted and matched by the admissions of its client.
ListsInOrder(h, a, s) == Sorted(h) /\ Sorted(a) /\ Covered(h, a, s)

\* So is the history an admitted request is about to store, and it fits.
PutInOrder(q, adm) ==
  q.pc = "put" =>
    /\ q.todo # <<>>
    /\ Len(q.seen) <= Rate[Head(q.todo)]
    /\ ListsInOrder(q.seen, adm[Head(q.todo)][Client(q.route, q.who)], Head(q.todo))

IInv ==
  /\ TypeOK
  /\ \A s \in AllScopes, i \in Identities : ListsInOrder(history[s][i], admitted[s][i], s)
  /\ \A r \in Requests : PutInOrder(reqs[r], admitted)

\* Steps that take no time may be judged by the present.
LEMMA TimelessStep ==
  ASSUME now' = now, TypeOK',
         \A s \in AllScopes, i \in Identities : ListsInOrder(history'[s][i], admitted'[s][i], s),
         \A r \in Requests : PutInOrder(reqs'[r], admitted')
  PROVE  IInv'
<1>1. \A s \in AllScopes, i \in Identities : ListsInOrder(history[s][i], admitted[s][i], s)'
  BY DEF ListsInOrder, Sorted, Covered, Young
<1>2. ASSUME NEW r \in Requests PROVE PutInOrder(reqs[r], admitted)'
  <2>1. PutInOrder(reqs'[r], admitted')
    OBVIOUS
  <2> QED BY <2>1 DEF PutInOrder, ListsInOrder, Sorted, Covered, Young
<1> QED BY <1>1, <1>2 DEF IInv

\* The fields of a request, and the scope and the client of its next throttle.
LEMMA RequestFields ==
  ASSUME TypeOK, NEW r \in Requests, reqs[r] # Idle
  PROVE  /\ reqs[r].pc \in {"ask", "put"} /\ reqs[r].route \in Routes
         /\ reqs[r].who \in Visitor /\ reqs[r].todo \in Seq(AllScopes)
         /\ reqs[r].refused \in BOOLEAN /\ reqs[r].seen \in Times
         /\ Client(reqs[r].route, reqs[r].who) \in Identities
         /\ reqs[r].todo # <<>> => Head(reqs[r].todo) \in AllScopes
                                   /\ Tail(reqs[r].todo) \in Seq(AllScopes)
<1>1. reqs[r] \in [pc : {"ask", "put"}, route : Routes, who : Visitor, todo : Seq(AllScopes),
                    refused : BOOLEAN, seen : Times]
  BY DEF TypeOK, Request
<1>2. Client(reqs[r].route, reqs[r].who) \in Identities
  BY <1>1 DEF Client, Visitor, Identities
<1>3. reqs[r].todo # <<>> => Head(reqs[r].todo) \in AllScopes
                            /\ Tail(reqs[r].todo) \in Seq(AllScopes)
  BY <1>1, HeadTailProperties
<1> QED BY <1>1, <1>2, <1>3

\* The initial lists are empty and every slot is free.
LEMMA InitIInv == Init => IInv
<1> SUFFICES ASSUME Init PROVE IInv
  OBVIOUS
<1>1. <<>> \in Times /\ Len(<<>>) = 0 /\ DOMAIN <<>> = {}
  BY EmptySeq DEF Times
<1>2. TypeOK
  BY <1>1, MaxTimeIsNat, RatesArePositive DEF Init, TypeOK, Nothing, Request
<1>3. \A s \in AllScopes, i \in Identities : history[s][i] = <<>> /\ admitted[s][i] = <<>>
  BY DEF Init, Nothing
<1>4. \A s \in AllScopes, i \in Identities : ListsInOrder(history[s][i], admitted[s][i], s)
  BY <1>1, <1>3 DEF ListsInOrder, Sorted, Covered
<1> QED BY <1>2, <1>4 DEF Init, IInv, PutInOrder, Idle

\* Time passes: what is young later is young now.
LEMMA TickStep ==
  ASSUME IInv, Tick
  PROVE  IInv'
<1>1. now \in Nat /\ now' = now + 1 /\ now' \in 0..MaxTime
  BY MaxTimeIsNat DEF IInv, TypeOK, Tick
<1>2. TypeOK'
  BY <1>1 DEF IInv, TypeOK, Tick
<1>3. ASSUME NEW h \in Times, NEW a \in Times, NEW s \in AllScopes, ListsInOrder(h, a, s)
      PROVE  ListsInOrder(h, a, s)'
  <2>1. \A i \in DOMAIN h : h[i] \in Nat
    BY EntriesAreNumbers
  <2>2. \A i \in DOMAIN a : a[i] \in Nat
    BY EntriesAreNumbers
  <2>3. Sorted(h)' /\ Sorted(a)'
    BY <1>1, <1>3, <2>1, <2>2 DEF ListsInOrder, Sorted
  <2>4. \A i \in DOMAIN h : Young(h[i], s)' => Young(h[i], s)
    BY <1>1, <2>1, WindowsArePositive DEF Young
  <2> QED BY <1>3, <2>3, <2>4 DEF ListsInOrder, Covered
<1>4. ASSUME NEW s \in AllScopes, NEW i \in Identities
      PROVE  ListsInOrder(history[s][i], admitted[s][i], s)'
  <2>1. PICK h \in Times, a \in Times : h = history[s][i] /\ a = admitted[s][i]
    BY DEF IInv, TypeOK
  <2>2. ListsInOrder(h, a, s)'
    BY <1>3, <2>1 DEF IInv
  <2>3. h = history'[s][i] /\ a = admitted'[s][i]
    BY <2>1 DEF Tick
  <2> QED BY <2>2, <2>3 DEF ListsInOrder, Sorted, Covered, Young
<1>5. ASSUME NEW r \in Requests PROVE PutInOrder(reqs[r], admitted)'
  <2>1. CASE reqs[r].pc # "put"
    BY <2>1 DEF PutInOrder, Tick
  <2>2. CASE reqs[r].pc = "put"
    <3>1. reqs[r] # Idle /\ reqs[r].todo # <<>>
      BY <2>2 DEF Idle, IInv, PutInOrder
    <3>2. PICK s \in AllScopes : s = Head(reqs[r].todo)
      BY <3>1, RequestFields DEF IInv
    <3>3. admitted[s][Client(reqs[r].route, reqs[r].who)] \in Times /\ reqs[r].seen \in Times
      BY <3>1, RequestFields DEF IInv, TypeOK
    <3>4. PICK h \in Times, a \in Times :
            h = reqs[r].seen /\ a = admitted[s][Client(reqs[r].route, reqs[r].who)]
      BY <3>3
    <3>5. ListsInOrder(h, a, s)'
      BY <1>3, <2>2, <3>2, <3>4 DEF IInv, PutInOrder
    <3>6. h = reqs'[r].seen /\ a = admitted'[s][Client(reqs'[r].route, reqs'[r].who)]
          /\ s = Head(reqs'[r].todo)
      BY <3>2, <3>4 DEF Tick
    <3>7. reqs'[r].todo # <<>> /\ Len(reqs'[r].seen) <= Rate[Head(reqs'[r].todo)]
      BY <2>2 DEF Tick, IInv, PutInOrder
    <3> QED BY <3>5, <3>6, <3>7 DEF PutInOrder, ListsInOrder, Sorted, Covered, Young
  <2> QED BY <2>1, <2>2
<1> QED BY <1>2, <1>4, <1>5 DEF IInv

\* Every route has a list of scopes.
LEMMA ThrottlesAreScopes ==
  ASSUME NEW rt \in Routes, NEW who \in Visitor
  PROVE  Throttles(rt, who) \in Seq(AllScopes)
<1>1. rt \in AllRoutes
  BY RoutesKnown
<1>2. Throttles(rt, who) \in {<<"upload_hour", "upload_burst">>, <<"anon_read">>, <<"user_read">>,
                              <<"write">>, <<"login">>, <<"token">>, <<"password_change">>}
  BY <1>1 DEF Throttles, AllRoutes
<1>3. \A s, t \in AllScopes : <<s>> \in Seq(AllScopes) /\ <<s, t>> \in Seq(AllScopes)
  OBVIOUS
<1> QED BY <1>2, <1>3 DEF AllScopes

\* A request arrives with nothing to store.
LEMMA ArriveStep ==
  ASSUME IInv, NEW r \in Requests, NEW rt \in Routes, NEW who \in Visitor,
         Arrive(r, rt, who)
  PROVE  IInv'
<1> DEFINE q == [pc |-> "ask", route |-> rt, who |-> who, todo |-> Throttles(rt, who),
                 refused |-> FALSE, seen |-> <<>>]
<1>1. q \in Request /\ q.pc = "ask"
  BY ThrottlesAreScopes, EmptySeq DEF Request, Times
<1>2. reqs' = [reqs EXCEPT ![r] = q]
  BY DEF Arrive
<1> HIDE DEF q
<1>3. TypeOK'
  BY <1>1, <1>2 DEF Arrive, IInv, TypeOK
<1>4. \A s \in Requests : reqs'[s] = IF s = r THEN q ELSE reqs[s]
  BY <1>2 DEF IInv, TypeOK
<1>5. \A s \in Requests : PutInOrder(reqs'[s], admitted')
  BY <1>1, <1>4 DEF Arrive, IInv, PutInOrder
<1> QED BY <1>3, <1>5, TimelessStep DEF Arrive, IInv

\* The view runs, or does not: nothing is stored.
LEMMA AnswerStep ==
  ASSUME IInv, NEW r \in Requests, Answer(r)
  PROVE  IInv'
<1>1. reqs[r] # Idle
  BY DEF Answer, Idle
<1>2. PICK c \in Identities : c = Client(reqs[r].route, reqs[r].who)
  BY <1>1, RequestFields DEF IInv
<1>3. now \in 0..MaxTime /\ passed \in [AllScopes -> [Identities -> Times]]
  BY DEF IInv, TypeOK
<1>4. \A s \in AllScopes : Entered(passed[s][c], s) \in Times
  BY <1>2, <1>3, EnteredInFront
<1>5. passed' \in [AllScopes -> [Identities -> Times]]
  <2>1. CASE reqs[r].refused
    BY <1>3, <2>1 DEF Answer
  <2>2. CASE ~reqs[r].refused
    <3> DEFINE charged == ToSet(Throttles(reqs[r].route, reqs[r].who))
    <3>1. passed' = [s \in AllScopes |->
                      IF s \in charged
                      THEN [passed[s] EXCEPT ![c] = Entered(passed[s][c], s)]
                      ELSE passed[s]]
      BY <1>2, <1>3, <2>2 DEF Answer, Entered
    <3> HIDE DEF charged
    <3> QED BY <1>3, <1>4, <3>1
  <2> QED BY <2>1, <2>2
<1>6. reqs' = [reqs EXCEPT ![r] = Idle] /\ UNCHANGED <<now, cacheUp, history, admitted>>
  BY DEF Answer
<1>7. TypeOK'
  BY <1>5, <1>6 DEF IInv, TypeOK, Request
<1>8. \A s \in Requests : PutInOrder(reqs'[s], admitted')
  BY <1>6 DEF IInv, TypeOK, PutInOrder, Idle
<1> QED BY <1>6, <1>7, <1>8, TimelessStep DEF IInv

\* What a request in flight becomes.
Became(q, pc, todo, refused, seen) ==
  [q EXCEPT !.pc = pc, !.todo = todo, !.refused = refused, !.seen = seen]

\* It is a request with the same route and visitor.
LEMMA RequestMovesOn ==
  ASSUME TypeOK, NEW r \in Requests, reqs[r] # Idle,
         NEW pc \in {"ask", "put"}, NEW todo \in Seq(AllScopes), NEW refused \in BOOLEAN,
         NEW seen \in Times
  PROVE  /\ Became(reqs[r], pc, todo, refused, seen) \in Request
         /\ Became(reqs[r], pc, todo, refused, seen).pc = pc
         /\ Became(reqs[r], pc, todo, refused, seen).todo = todo
         /\ Became(reqs[r], pc, todo, refused, seen).refused = refused
         /\ Became(reqs[r], pc, todo, refused, seen).seen = seen
         /\ Became(reqs[r], pc, todo, refused, seen).route = reqs[r].route
         /\ Became(reqs[r], pc, todo, refused, seen).who = reqs[r].who
BY DEF TypeOK, Request, Became

\* The history an admitted request stores was sound when it was read and is
\* still matched by the admissions, whatever others have stored meanwhile.
LEMMA PutStep ==
  ASSUME IInv, NEW r \in Requests, Put(r)
  PROVE  IInv'
<1>1. reqs[r] # Idle /\ reqs[r].pc = "put" /\ reqs[r].todo # <<>>
  BY DEF Put, Idle, IInv, PutInOrder
<1>2. PICK s \in AllScopes, c \in Identities :
        s = Head(reqs[r].todo) /\ c = Client(reqs[r].route, reqs[r].who)
  BY <1>1, RequestFields DEF IInv
<1>3. PICK seen \in Times : seen = reqs[r].seen
  BY <1>1, RequestFields DEF IInv
<1>4. Len(seen) <= Rate[s] /\ ListsInOrder(seen, admitted[s][c], s)
  BY <1>1, <1>2, <1>3 DEF IInv, PutInOrder
<1>5. /\ history' = IF cacheUp THEN [history EXCEPT ![s][c] = seen] ELSE history
      /\ UNCHANGED <<now, cacheUp, admitted, passed>>
  BY <1>2, <1>3 DEF Put, Identity
<1>6. history \in [AllScopes -> [Identities -> Times]]
  BY DEF IInv, TypeOK
<1>7. /\ history' \in [AllScopes -> [Identities -> Times]]
      /\ \A t \in AllScopes, i \in Identities :
           history'[t][i] = IF cacheUp /\ t = s /\ i = c THEN seen ELSE history[t][i]
  BY <1>5, <1>6
<1>8. /\ Tail(reqs[r].todo) \in Seq(AllScopes) /\ reqs[r].refused \in BOOLEAN
      /\ <<>> \in Times
  BY <1>1, RequestFields, EmptySeq DEF IInv, Times
<1>9. PICK rest \in Seq(AllScopes), none \in Times : rest = Tail(reqs[r].todo) /\ none = <<>>
  BY <1>8
<1> DEFINE new == Became(reqs[r], "ask", rest, reqs[r].refused, none)
<1>10. new = [reqs[r] EXCEPT !.pc = "ask", !.todo = Tail(reqs[r].todo), !.seen = <<>>]
  BY <1>1, <1>9 DEF IInv, TypeOK, Request, Became
<1>11. new \in Request /\ new.pc = "ask"
  BY <1>1, <1>8, RequestMovesOn DEF IInv
<1>12. reqs' = [reqs EXCEPT ![r] = new]
  BY <1>10 DEF Put
<1> HIDE DEF new
<1>13. TypeOK'
  BY <1>4, <1>5, <1>7, <1>11, <1>12 DEF IInv, TypeOK
<1>14. \A t \in AllScopes, i \in Identities : ListsInOrder(history'[t][i], admitted'[t][i], t)
  BY <1>4, <1>5, <1>7 DEF IInv
<1>15. \A t \in Requests : PutInOrder(reqs'[t], admitted')
  BY <1>5, <1>11, <1>12 DEF IInv, TypeOK, PutInOrder
<1> QED BY <1>5, <1>13, <1>14, <1>15, TimelessStep

\* One more admission of a client keeps everybody's histories in order.
LEMMA AdmissionKeepsOrder ==
  ASSUME IInv, NEW s \in AllScopes, NEW c \in Identities, NEW adm,
         adm = [admitted EXCEPT ![s][c] = Entered(admitted[s][c], s)]
  PROVE  /\ adm \in [AllScopes -> [Identities -> Times]]
         /\ adm[s][c] = Entered(admitted[s][c], s)
         /\ \A t \in AllScopes, i \in Identities, h \in Times :
              ListsInOrder(h, admitted[t][i], t) => ListsInOrder(h, adm[t][i], t)
<1>1. admitted \in [AllScopes -> [Identities -> Times]] /\ now \in 0..MaxTime
  BY DEF IInv, TypeOK
<1>2. PICK a \in Times : a = admitted[s][c]
  BY <1>1
<1>3. Entered(a, s) \in Times
  BY <1>1, <1>2, EnteredInFront
<1>4. /\ adm \in [AllScopes -> [Identities -> Times]]
      /\ \A t \in AllScopes, i \in Identities :
           adm[t][i] = IF t = s /\ i = c THEN Entered(a, s) ELSE admitted[t][i]
  BY <1>1, <1>2, <1>3
<1>5. ASSUME NEW h \in Times, ListsInOrder(h, a, s) PROVE ListsInOrder(h, Entered(a, s), s)
  BY <1>1, <1>5, EnteredIsSorted, CoveredByEntry DEF ListsInOrder
<1> QED BY <1>2, <1>4, <1>5

\* What the throttle whose turn it is reads is in order, and what it answers
\* depends on nothing else.
AskReads(r, s, c, stored) ==
  /\ s = Head(reqs[r].todo) /\ c = Client(reqs[r].route, reqs[r].who)
  /\ stored = IF cacheUp THEN history[s][c] ELSE <<>>
  /\ ListsInOrder(stored, admitted[s][c], s)
  /\ LET full == Full(Recent(stored, s), s) IN
     /\ reqs' = [reqs EXCEPT ![r] =
          [reqs[r] EXCEPT !.pc = IF full THEN "ask" ELSE "put",
                          !.todo = IF full THEN Tail(reqs[r].todo) ELSE reqs[r].todo,
                          !.refused = Refused(reqs[r], full),
                          !.seen = IF full THEN <<>> ELSE Entered(stored, s)]]
     /\ admitted' = IF full THEN admitted
                    ELSE [admitted EXCEPT ![s][c] = Entered(admitted[s][c], s)]

LEMMA AskInOrder ==
  ASSUME IInv, NEW r \in Requests, Ask(r)
  PROVE  /\ reqs[r].pc = "ask" /\ reqs[r] # Idle /\ reqs[r].todo # <<>>
         /\ UNCHANGED <<now, cacheUp, history, passed>>
         /\ \E s \in AllScopes, c \in Identities, stored \in Times : AskReads(r, s, c, stored)
<1>1. reqs[r].pc = "ask" /\ reqs[r].todo # <<>> /\ UNCHANGED <<now, cacheUp, history, passed>>
  BY DEF Ask
<1>2. reqs[r] # Idle
  BY <1>1 DEF Idle
<1>3. PICK s \in AllScopes, c \in Identities :
        s = Head(reqs[r].todo) /\ c = Client(reqs[r].route, reqs[r].who)
  BY <1>1, <1>2, RequestFields DEF IInv
<1>4. /\ history \in [AllScopes -> [Identities -> Times]]
      /\ admitted \in [AllScopes -> [Identities -> Times]]
  BY DEF IInv, TypeOK
<1>5. PICK stored \in Times : stored = IF cacheUp THEN history[s][c] ELSE <<>>
  BY <1>4, EmptySeq DEF Times
<1>6. ListsInOrder(stored, admitted[s][c], s)
  <2>1. CASE cacheUp
    BY <1>5, <2>1 DEF IInv
  <2>2. CASE ~cacheUp
    <3>1. stored = <<>> /\ DOMAIN stored = {} /\ Sorted(admitted[s][c])
      BY <1>5, <2>2 DEF IInv, ListsInOrder
    <3> QED BY <3>1 DEF ListsInOrder, Sorted, Covered
  <2> QED BY <2>1, <2>2
<1>7. AskReads(r, s, c, stored)
  BY <1>3, <1>4, <1>5, <1>6 DEF Ask, Identity, Entered, AskReads
<1> QED BY <1>1, <1>2, <1>7

\* A throttle that refuses stores nothing; one that admits enters the request
\* both in what it is about to store and in the admissions.
LEMMA AskStep ==
  ASSUME IInv, NEW r \in Requests, Ask(r)
  PROVE  IInv'
<1>1. reqs[r] # Idle /\ reqs[r].todo # <<>>
  BY AskInOrder
<1>2. PICK s \in AllScopes, c \in Identities, stored \in Times : AskReads(r, s, c, stored)
  BY AskInOrder
<1>3. /\ now \in 0..MaxTime /\ now \in Nat
      /\ history \in [AllScopes -> [Identities -> Times]]
      /\ admitted \in [AllScopes -> [Identities -> Times]]
  BY MaxTimeIsNat DEF IInv, TypeOK
<1>4. s = Head(reqs[r].todo) /\ c = Client(reqs[r].route, reqs[r].who)
  BY <1>2 DEF AskReads
<1>5. ListsInOrder(stored, admitted[s][c], s)
  BY <1>2 DEF AskReads
<1> DEFINE full == Full(Recent(stored, s), s)
           refused == Refused(reqs[r], full)
<1>6. /\ reqs' = [reqs EXCEPT ![r] =
           [reqs[r] EXCEPT !.pc = IF full THEN "ask" ELSE "put",
                           !.todo = IF full THEN Tail(reqs[r].todo) ELSE reqs[r].todo,
                           !.refused = refused,
                           !.seen = IF full THEN <<>> ELSE Entered(stored, s)]]
      /\ admitted' = IF full THEN admitted
                     ELSE [admitted EXCEPT ![s][c] = Entered(admitted[s][c], s)]
      /\ UNCHANGED <<now, cacheUp, history, passed>>
  BY <1>2, AskInOrder DEF AskReads
<1>7. /\ refused \in BOOLEAN /\ full \in BOOLEAN
      /\ reqs[r].todo \in Seq(AllScopes) /\ Tail(reqs[r].todo) \in Seq(AllScopes)
      /\ <<>> \in Times
  BY <1>1, RequestFields, EmptySeq DEF IInv, Refused, Full, Times
<1>8. CASE full
  <2>0. PICK rest \in Seq(AllScopes), none \in Times :
               rest = Tail(reqs[r].todo) /\ none = <<>>
    BY <1>7
  <2> DEFINE new == Became(reqs[r], "ask", rest, refused, none)
  <2>1. new \in Request /\ new.pc = "ask"
    BY <1>1, <1>7, RequestMovesOn DEF IInv
  <2>2. reqs' = [reqs EXCEPT ![r] = new] /\ admitted' = admitted
    BY <1>6, <1>8, <2>0 DEF Became
  <2> HIDE DEF new
  <2>3. TypeOK'
    BY <1>6, <2>1, <2>2 DEF IInv, TypeOK
  <2>4. \A t \in Requests : PutInOrder(reqs'[t], admitted')
    BY <2>1, <2>2 DEF IInv, TypeOK, PutInOrder
  <2> QED BY <1>6, <2>2, <2>3, <2>4, TimelessStep DEF IInv
<1>9. CASE ~full
  <2> DEFINE new == Became(reqs[r], "put", reqs[r].todo, refused, Entered(stored, s))
  <2>1. Entered(stored, s) \in Times /\ Len(Entered(stored, s)) = Len(Recent(stored, s)) + 1
    BY <1>3, EnteredInFront
  <2>2. /\ new \in Request /\ new.pc = "put" /\ new.todo = reqs[r].todo
        /\ new.seen = Entered(stored, s)
        /\ new.route = reqs[r].route /\ new.who = reqs[r].who
    BY <1>1, <1>7, <2>1, RequestMovesOn DEF IInv
  <2>3. reqs' = [reqs EXCEPT ![r] = new]
    BY <1>6, <1>9 DEF Became
  <2> HIDE DEF new
  <2>4. PICK adm : adm = admitted' /\ adm = [admitted EXCEPT ![s][c] = Entered(admitted[s][c], s)]
    BY <1>6, <1>9
  <2>5. /\ adm \in [AllScopes -> [Identities -> Times]]
        /\ adm[s][c] = Entered(admitted[s][c], s)
        /\ \A t \in AllScopes, i \in Identities, h \in Times :
             ListsInOrder(h, admitted[t][i], t) => ListsInOrder(h, adm[t][i], t)
    BY <2>4, AdmissionKeepsOrder
  <2>6. Len(Entered(stored, s)) <= Rate[s]
    <3>1. Len(Recent(stored, s)) \in Nat /\ Rate[s] \in Nat
      BY RecentKeepsYoung, LenProperties, RatesArePositive DEF Times
    <3> QED BY <1>9, <2>1, <3>1 DEF Full
  <2>7. ListsInOrder(Entered(stored, s), adm[s][c], s)
    <3>1. PICK a \in Times : a = admitted[s][c]
      BY <1>3
    <3>2. ListsInOrder(stored, a, s)
      BY <1>5, <3>1
    <3>3. /\ Sorted(Entered(stored, s)) /\ Sorted(Entered(a, s))
          /\ Covered(Entered(stored, s), Entered(a, s), s)
      BY <1>3, <3>2, EnteredIsSorted, EntryCoveredByEntry DEF ListsInOrder
    <3> QED BY <2>5, <3>1, <3>3 DEF ListsInOrder
  <2>8. TypeOK'
    BY <1>6, <2>2, <2>3, <2>4, <2>5 DEF IInv, TypeOK
  <2>9. \A t \in AllScopes, i \in Identities : ListsInOrder(history'[t][i], admitted'[t][i], t)
    BY <1>3, <1>6, <2>4, <2>5 DEF IInv
  <2>10. ASSUME NEW t \in Requests PROVE PutInOrder(reqs'[t], admitted')
    <3>1. CASE t = r
      <4>1. reqs'[t] = new
        BY <2>3, <3>1 DEF IInv, TypeOK
      <4> QED BY <1>1, <1>4, <2>2, <2>4, <2>6, <2>7, <4>1 DEF PutInOrder
    <3>2. CASE t # r
      <4>1. reqs'[t] = reqs[t] /\ PutInOrder(reqs[t], admitted)
        BY <2>3, <3>2 DEF IInv, TypeOK
      <4>2. reqs[t].pc = "put" => reqs[t] # Idle /\ reqs[t].todo # <<>>
        BY <4>1 DEF Idle, PutInOrder
      <4>3. reqs[t].pc = "put" => /\ Head(reqs[t].todo) \in AllScopes /\ reqs[t].seen \in Times
                                  /\ Client(reqs[t].route, reqs[t].who) \in Identities
        BY <4>2, RequestFields DEF IInv
      <4> QED BY <2>4, <2>5, <4>1, <4>3 DEF PutInOrder
    <3> QED BY <3>1, <3>2
  <2> QED BY <1>6, <2>8, <2>9, <2>10, TimelessStep
<1> QED BY <1>8, <1>9

\* Every step preserves the invariant.
LEMMA StepIInv == IInv /\ [Next]_vars => IInv'
<1> SUFFICES ASSUME IInv, [Next]_vars PROVE IInv'
  OBVIOUS
<1>1. CASE CacheToggles
  <2>1. TypeOK' /\ UNCHANGED <<now, history, reqs, admitted, passed>>
    BY <1>1 DEF CacheToggles, IInv, TypeOK
  <2> QED BY <2>1, TimelessStep DEF IInv
<1>2. CASE UNCHANGED vars
  <2>1. TypeOK' /\ UNCHANGED <<now, history, reqs, admitted, passed>>
    BY <1>2 DEF vars, IInv, TypeOK
  <2> QED BY <2>1, TimelessStep DEF IInv
<1> QED BY <1>1, <1>2, ArriveStep, AskStep, PutStep, AnswerStep, TickStep DEF Next

\* The inductive invariant holds in every reachable state.
THEOREM Inductive == Spec => []IInv
BY InitIInv, StepIInv, PTL DEF Spec

\* The histories and the requests keep their types, and no stored history is
\* longer than its rate, however requests overlap.
THEOREM TypeCorrect == Spec => []TypeOK
<1>1. IInv => TypeOK
  BY DEF IInv
<1> QED BY <1>1, Inductive, PTL

\* A refusal is earned: what was read is matched by the client's admissions.
LEMMA RefusalIsEarned ==
  ASSUME IInv, [Next]_vars, NEW r \in Requests, reqs[r].pc = "ask", reqs'[r] # reqs[r],
         reqs'[r] # Idle, reqs'[r].pc = "ask"
  PROVE  Lately(admitted[Head(reqs[r].todo)][Client(reqs[r].route, reqs[r].who)],
                Head(reqs[r].todo)) >= Rate[Head(reqs[r].todo)]
<1>1. reqs \in [Requests -> Request]
  BY DEF IInv, TypeOK
<1>2. Ask(r)
  <2>1. ~UNCHANGED vars /\ ~Tick /\ ~CacheToggles
    BY DEF vars, Tick, CacheToggles
  <2>2. PICK x \in Requests :
          (\E rt \in Routes, who \in Visitor : Arrive(x, rt, who)) \/ Ask(x) \/ Put(x) \/ Answer(x)
    BY <2>1 DEF Next
  <2>3. ASSUME NEW rt \in Routes, NEW who \in Visitor, Arrive(x, rt, who) PROVE FALSE
    BY <1>1, <2>3 DEF Arrive, Idle
  <2>4. ~Put(x) /\ ~Answer(x)
    BY <1>1 DEF Put, Answer
  <2>5. CASE Ask(x)
    <3>1. x = r
      BY <1>1, <2>5 DEF Ask
    <3> QED BY <2>5, <3>1
  <2> QED BY <2>2, <2>3, <2>4, <2>5
<1>3. PICK s \in AllScopes, c \in Identities, stored \in Times : AskReads(r, s, c, stored)
  BY <1>2, AskInOrder
<1>4. /\ s = Head(reqs[r].todo) /\ c = Client(reqs[r].route, reqs[r].who)
      /\ ListsInOrder(stored, admitted[s][c], s)
  BY <1>3 DEF AskReads
<1>5. Full(Recent(stored, s), s)
  <2>1. ASSUME ~Full(Recent(stored, s), s) PROVE reqs'[r].pc = "put"
    <3>1. reqs[r] # Idle
      BY <1>2, AskInOrder
    <3> QED BY <1>1, <1>3, <2>1, <3>1 DEF AskReads, Request
  <2> QED BY <2>1
<1>6. PICK a \in Times : a = admitted[s][c]
  BY DEF IInv, TypeOK
<1>7. now \in Nat /\ Rate[s] \in Nat /\ Len(Recent(stored, s)) \in Nat
  BY MaxTimeIsNat, RatesArePositive, RecentKeepsYoung, LenProperties DEF IInv, TypeOK, Times
<1>8. Lately(a, s) \in Nat /\ Lately(a, s) >= Len(Recent(stored, s))
  BY <1>4, <1>6, <1>7, CountedAtLeast DEF ListsInOrder
<1>9. Lately(a, s) >= Rate[s]
  BY <1>5, <1>7, <1>8 DEF Full
<1> QED BY <1>4, <1>6, <1>9

\* Nobody is refused for the requests of another client or of long ago,
\* whatever overlaps and whenever the cache is down.
THEOREM RefusalsAreEarned == Spec => NoFalseRefusal
<1>1. IInv /\ [Next]_vars =>
        [\A r \in Requests :
           LET q == reqs[r] IN
           q.pc = "ask" /\ reqs'[r] # q /\ reqs'[r] # Idle /\ reqs'[r].pc = "ask" =>
             Lately(admitted[Head(q.todo)][Client(q.route, q.who)], Head(q.todo))
               >= Rate[Head(q.todo)]]_vars
  BY RefusalIsEarned
<1> QED BY <1>1, Inductive, PTL DEF Spec, NoFalseRefusal

-------------------------------------------------------------------------------
(* The serial behaviours of MCThrottle                                     *)

\* The second list has an entry of this moment in front, and the rest of it
\* matches the first.
CoveredButOne(p, h, s) ==
  /\ 1 \in DOMAIN h /\ h[1] = now
  /\ \A i \in DOMAIN p : Young(p[i], s) => i + 1 \in DOMAIN h /\ h[i + 1] >= p[i]

\* An entry is made in a history that matched ...
LEMMA EntryIsOneMore ==
  ASSUME NEW p \in Times, NEW h \in Times, NEW s \in AllScopes, now \in 0..MaxTime,
         Covered(p, h, s)
  PROVE  CoveredButOne(p, Entered(h, s), s)
<1> DEFINE k == Len(Recent(h, s))
           e == Entered(h, s)
<1>1. k \in Nat /\ k <= Len(h) /\ Window[s] \in Nat /\ now \in Nat
  BY RecentKeepsYoung, LenProperties, WindowsArePositive, MaxTimeIsNat DEF Times
<1>2. DOMAIN e = 1..k + 1 /\ e[1] = now /\ \A i \in 1..k : e[i + 1] = h[i]
  BY EnteredInFront
<1>3. \A i \in 1..Len(h) : Young(h[i], s) => i <= k
  BY RecentKeepsYoung
<1> HIDE DEF k, e
<1>4. ASSUME NEW i \in DOMAIN p, Young(p[i], s) PROVE i + 1 \in DOMAIN e /\ e[i + 1] >= p[i]
  <2>1. p[i] \in Nat
    BY EntriesAreNumbers
  <2>2. i \in 1..Len(h) /\ h[i] \in Nat /\ h[i] >= p[i]
    BY <1>4, EntriesAreNumbers DEF Covered
  <2>3. i <= k
    BY <1>1, <1>3, <1>4, <2>1, <2>2 DEF Young
  <2>4. i \in 1..k /\ i + 1 \in 1..k + 1
    BY <1>1, <2>2, <2>3, EntriesAreNumbers
  <2> QED BY <1>2, <2>2, <2>4
<1> QED BY <1>1, <1>2, <1>4 DEF CoveredButOne, e

\* ... so it still matches, an entry made in the first list or not.
LEMMA OneMoreCovers ==
  ASSUME NEW p \in Times, NEW h \in Times, NEW s \in AllScopes, now \in 0..MaxTime,
         Sorted(h), CoveredButOne(p, h, s)
  PROVE  Covered(p, h, s) /\ Covered(Entered(p, s), h, s)
<1> DEFINE k == Len(Recent(p, s))
           d == Entered(p, s)
<1>1. k \in Nat /\ k <= Len(p) /\ now \in Nat
  BY RecentKeepsYoung, LenProperties, MaxTimeIsNat DEF Times
<1>2. DOMAIN d = 1..k + 1 /\ d[1] = now /\ \A i \in 1..k : d[i + 1] = p[i]
  BY EnteredInFront
<1> HIDE DEF k, d
<1>3. ASSUME NEW i \in DOMAIN p, Young(p[i], s) PROVE i \in DOMAIN h /\ h[i] >= p[i]
  <2>1. i \in 1..Len(p) /\ p[i] \in Nat /\ i + 1 \in 1..Len(h) /\ h[i + 1] >= p[i]
    BY <1>3, EntriesAreNumbers DEF CoveredButOne
  <2>2. i \in DOMAIN h /\ i + 1 \in DOMAIN h /\ i <= i + 1 /\ h[i] \in Nat /\ h[i + 1] \in Nat
    BY <2>1, EntriesAreNumbers
  <2>3. h[i + 1] <= h[i]
    BY <2>2 DEF Sorted
  <2> QED BY <2>1, <2>2, <2>3
<1>4. ASSUME NEW i \in 1..k + 1, Young(d[i], s) PROVE i \in DOMAIN h /\ h[i] >= d[i]
  <2>1. CASE i = 1
    BY <1>1, <1>2, <2>1 DEF CoveredButOne
  <2>2. CASE i # 1
    <3>1. i - 1 \in 1..k /\ (i - 1) + 1 = i /\ i - 1 \in DOMAIN p
      BY <1>1, <2>2, EntriesAreNumbers
    <3>2. d[i] = p[i - 1]
      BY <1>2, <3>1
    <3> QED BY <1>4, <3>1, <3>2 DEF CoveredButOne
  <2> QED BY <2>1, <2>2
<1> QED BY <1>2, <1>3, <1>4 DEF Covered, d

\* What a request in flight has already been charged for, unless refused, and
\* what it is about to be charged for.
ChargesCovered(q, his, pas) ==
  q # Idle =>
    LET c == Client(q.route, q.who) IN
    /\ ~q.refused => \A s \in ToSet(Throttles(q.route, q.who)) \ ToSet(q.todo) :
                       CoveredButOne(pas[s][c], his[s][c], s)
    /\ q.pc = "put" => CoveredButOne(pas[Head(q.todo)][c], q.seen, Head(q.todo))

\* Where nothing overlaps and the cache is up, the views that ran are matched
\* by the stored histories.
SerialInv ==
  /\ cacheUp = TRUE
  /\ \A a, b \in Requests : reqs[a] # Idle /\ reqs[b] # Idle => a = b
  /\ \A s \in AllScopes, i \in Identities : Covered(passed[s][i], history[s][i], s)
  /\ \A r \in Requests : ChargesCovered(reqs[r], history, passed)

\* Steps that take no time may be judged by the present.
LEMMA TimelessSerialStep ==
  ASSUME now' = now, cacheUp' = TRUE,
         \A a, b \in Requests : reqs'[a] # Idle /\ reqs'[b] # Idle => a = b,
         \A s \in AllScopes, i \in Identities : Covered(passed'[s][i], history'[s][i], s),
         \A r \in Requests : ChargesCovered(reqs'[r], history', passed')
  PROVE  SerialInv'
<1>1. \A s \in AllScopes, i \in Identities : Covered(passed[s][i], history[s][i], s)'
  BY DEF Covered, Young
<1>2. ASSUME NEW r \in Requests PROVE ChargesCovered(reqs[r], history, passed)'
  <2>1. ChargesCovered(reqs'[r], history', passed')
    OBVIOUS
  <2> QED BY <2>1 DEF ChargesCovered, CoveredButOne, Young
<1> QED BY <1>1, <1>2 DEF SerialInv

\* The throttles still to be asked, and the one whose turn it is.
LEMMA TodoSplits ==
  ASSUME NEW todo \in Seq(AllScopes), todo # <<>>
  PROVE  ToSet(todo) = {Head(todo)} \cup ToSet(Tail(todo))
<1>1. Len(todo) \in Nat \ {0} /\ DOMAIN todo = 1..Len(todo)
  BY EmptySeq, LenProperties
<1>2. /\ Tail(todo) \in Seq(AllScopes) /\ Len(Tail(todo)) = Len(todo) - 1
      /\ \A i \in 1..Len(Tail(todo)) : Tail(todo)[i] = todo[i + 1]
  BY HeadTailProperties
<1>3. DOMAIN Tail(todo) = 1..Len(todo) - 1
  BY <1>2, LenProperties
<1>4. Head(todo) = todo[1]
  BY <1>1
<1>5. ASSUME NEW i \in 1..Len(todo) PROVE todo[i] \in {Head(todo)} \cup ToSet(Tail(todo))
  <2>1. CASE i = 1
    BY <1>4, <2>1
  <2>2. CASE i # 1
    <3>1. i - 1 \in 1..Len(todo) - 1 /\ (i - 1) + 1 = i
      BY <1>1, <2>2
    <3>2. Tail(todo)[i - 1] = todo[i]
      BY <1>2, <3>1
    <3> QED BY <1>3, <3>1, <3>2 DEF ToSet
  <2> QED BY <2>1, <2>2
<1>6. ASSUME NEW i \in 1..Len(todo) - 1 PROVE Tail(todo)[i] \in ToSet(todo)
  <2>1. i + 1 \in 1..Len(todo)
    BY <1>1
  <2> QED BY <1>1, <1>2, <2>1 DEF ToSet
<1>7. Head(todo) \in ToSet(todo)
  BY <1>1, <1>4 DEF ToSet
<1> QED BY <1>1, <1>3, <1>5, <1>6, <1>7 DEF ToSet

\* The only request in flight moves on: nobody else is in flight after it.
LEMMA AloneMovesOn ==
  ASSUME IInv, SerialInv, NEW r \in Requests, reqs[r] # Idle, NEW new,
         reqs' = [reqs EXCEPT ![r] = new]
  PROVE  \A x \in Requests : reqs'[x] = IF x = r THEN new ELSE Idle
BY DEF IInv, TypeOK, SerialInv

\* A request arrives when nobody is in flight; it has been charged nothing.
LEMMA SerialArrive ==
  ASSUME IInv, SerialInv, NEW r \in Requests, NEW rt \in Routes, NEW who \in Visitor,
         Arrive(r, rt, who), OneAtATime
  PROVE  SerialInv'
<1> DEFINE q == [pc |-> "ask", route |-> rt, who |-> who, todo |-> Throttles(rt, who),
                 refused |-> FALSE, seen |-> <<>>]
<1>1. reqs[r] = Idle /\ reqs'[r] = q /\ UNCHANGED <<now, cacheUp, history, passed>>
      /\ reqs' = [reqs EXCEPT ![r] = q]
  BY DEF Arrive, IInv, TypeOK
<1>2. q # Idle /\ q.pc = "ask"
  BY DEF Idle
<1>3. \A x \in Requests : reqs[x] = Idle
  BY <1>1, <1>2 DEF OneAtATime, Arrives
<1>4. \A x \in Requests : reqs'[x] = IF x = r THEN q ELSE Idle
  BY <1>1, <1>3 DEF IInv, TypeOK
<1>5. ChargesCovered(q, history', passed')
  BY <1>2 DEF ChargesCovered
<1> HIDE DEF q
<1>6. \A x \in Requests : ChargesCovered(reqs'[x], history', passed')
  BY <1>4, <1>5 DEF ChargesCovered
<1> QED BY <1>1, <1>4, <1>6, TimelessSerialStep DEF SerialInv

\* A throttle answers by the stored history, which the cache returns.
LEMMA SerialAsk ==
  ASSUME IInv, SerialInv, NEW r \in Requests, Ask(r)
  PROVE  SerialInv'
<1>1. reqs[r] # Idle /\ UNCHANGED <<now, cacheUp, history, passed>>
  BY AskInOrder
<1>2. PICK s \in AllScopes, c \in Identities, stored \in Times : AskReads(r, s, c, stored)
  BY AskInOrder
<1>3. /\ s = Head(reqs[r].todo) /\ c = Client(reqs[r].route, reqs[r].who)
      /\ stored = history[s][c]
  BY <1>2 DEF AskReads, SerialInv
<1> DEFINE full == Full(Recent(stored, s), s)
           new == [reqs[r] EXCEPT !.pc = IF full THEN "ask" ELSE "put",
                                  !.todo = IF full THEN Tail(reqs[r].todo) ELSE reqs[r].todo,
                                  !.refused = Refused(reqs[r], full),
                                  !.seen = IF full THEN <<>> ELSE Entered(stored, s)]
<1>4. reqs' = [reqs EXCEPT ![r] = new]
  BY <1>2 DEF AskReads
<1>5. new.route = reqs[r].route /\ new.who = reqs[r].who
      /\ new.pc = (IF full THEN "ask" ELSE "put")
      /\ new.todo = (IF full THEN Tail(reqs[r].todo) ELSE reqs[r].todo)
      /\ new.refused = Refused(reqs[r], full)
      /\ new.seen = (IF full THEN <<>> ELSE Entered(stored, s))
  BY <1>1 DEF IInv, TypeOK, Request
<1> HIDE DEF new
<1>6. \A x \in Requests : reqs'[x] = IF x = r THEN new ELSE Idle
  BY <1>1, <1>4, AloneMovesOn
<1>7. CoveredButOne(passed[s][c], Entered(stored, s), s)
  <2>1. PICK p \in Times : p = passed[s][c]
    BY DEF IInv, TypeOK
  <2>2. Covered(p, stored, s) /\ now \in 0..MaxTime
    BY <1>3, <2>1 DEF SerialInv, IInv, TypeOK
  <2> QED BY <2>1, <2>2, EntryIsOneMore
<1>8. ChargesCovered(new, history, passed)
  <2>1. CASE full
    BY <1>5, <2>1 DEF ChargesCovered, Refused
  <2>2. CASE ~full
    <3>1. /\ new.route = reqs[r].route /\ new.who = reqs[r].who /\ new.todo = reqs[r].todo
          /\ new.seen = Entered(stored, s) /\ (~new.refused => ~reqs[r].refused)
      BY <1>5, <2>2 DEF Refused
    <3> HIDE DEF full
    <3> QED BY <1>1, <1>3, <1>7, <3>1 DEF SerialInv, ChargesCovered
  <2> QED BY <2>1, <2>2
<1>9. \A x \in Requests : ChargesCovered(reqs'[x], history', passed')
  BY <1>1, <1>6, <1>8 DEF ChargesCovered
<1> QED BY <1>1, <1>6, <1>9, TimelessSerialStep DEF SerialInv

\* The history the throttle has read, with the new entry, is stored: its scope
\* has charged the request.
LEMMA SerialPut ==
  ASSUME IInv, SerialInv, NEW r \in Requests, Put(r)
  PROVE  SerialInv'
<1>1. reqs[r].pc = "put" /\ UNCHANGED <<now, cacheUp, passed>>
  BY DEF Put
<1>2. reqs[r] # Idle /\ reqs[r].todo # <<>>
  BY <1>1 DEF Idle, IInv, PutInOrder
<1>3. PICK s \in AllScopes, c \in Identities :
        s = Head(reqs[r].todo) /\ c = Client(reqs[r].route, reqs[r].who)
  BY <1>2, RequestFields DEF IInv
<1>4. PICK seen \in Times : seen = reqs[r].seen
  BY <1>2, RequestFields DEF IInv
<1>5. Sorted(seen) /\ CoveredButOne(passed[s][c], seen, s)
  BY <1>1, <1>2, <1>3, <1>4 DEF IInv, PutInOrder, ListsInOrder, SerialInv, ChargesCovered
<1>6. Covered(passed[s][c], seen, s)
  <2>1. PICK p \in Times : p = passed[s][c]
    BY DEF IInv, TypeOK
  <2> QED BY <1>5, <2>1, OneMoreCovers DEF IInv, TypeOK
<1>7. history' = [history EXCEPT ![s][c] = seen]
  BY <1>3, <1>4 DEF Put, Identity, SerialInv
<1>8. \A t \in AllScopes, i \in Identities :
        history'[t][i] = IF t = s /\ i = c THEN seen ELSE history[t][i]
  BY <1>7 DEF IInv, TypeOK
<1> DEFINE new == [reqs[r] EXCEPT !.pc = "ask", !.todo = Tail(reqs[r].todo), !.seen = <<>>]
<1>9. reqs' = [reqs EXCEPT ![r] = new]
  BY DEF Put
<1>10. new.route = reqs[r].route /\ new.who = reqs[r].who /\ new.pc = "ask"
       /\ new.todo = Tail(reqs[r].todo) /\ new.refused = reqs[r].refused
  BY <1>2 DEF IInv, TypeOK, Request
<1> HIDE DEF new
<1>11. \A x \in Requests : reqs'[x] = IF x = r THEN new ELSE Idle
  BY <1>2, <1>9, AloneMovesOn
<1>12. ASSUME ~new.refused,
              NEW t \in ToSet(Throttles(reqs[r].route, reqs[r].who)) \ ToSet(Tail(reqs[r].todo))
       PROVE  CoveredButOne(passed[t][c], history'[t][c], t)
  <2>1. reqs[r].todo \in Seq(AllScopes) /\ reqs[r].route \in Routes /\ reqs[r].who \in Visitor
    BY <1>2, RequestFields DEF IInv
  <2>2. t \in AllScopes
    BY <2>1, ThrottlesAreScopes, LenProperties DEF ToSet
  <2>3. CASE t = s
    BY <1>5, <1>8, <2>2, <2>3
  <2>4. CASE t # s
    <3>1. t \notin ToSet(reqs[r].todo)
      BY <1>2, <1>3, <2>1, <2>4, TodoSplits
    <3>2. CoveredButOne(passed[t][c], history[t][c], t)
      BY <1>2, <1>3, <1>10, <1>12, <3>1 DEF SerialInv, ChargesCovered
    <3> QED BY <1>8, <2>2, <2>4, <3>2
  <2> QED BY <2>3, <2>4
<1>13. ChargesCovered(new, history', passed')
  BY <1>1, <1>3, <1>10, <1>12 DEF ChargesCovered
<1>14. \A x \in Requests : ChargesCovered(reqs'[x], history', passed')
  BY <1>11, <1>13 DEF ChargesCovered
<1>15. \A t \in AllScopes, i \in Identities : Covered(passed'[t][i], history'[t][i], t)
  BY <1>1, <1>6, <1>8 DEF SerialInv
<1> QED BY <1>1, <1>11, <1>14, <1>15, TimelessSerialStep DEF SerialInv

\* The view runs only when every scope of the route has charged the request.
LEMMA SerialAnswer ==
  ASSUME IInv, SerialInv, NEW r \in Requests, Answer(r)
  PROVE  SerialInv'
<1>1. /\ reqs[r].pc = "ask" /\ reqs[r].todo = <<>> /\ reqs' = [reqs EXCEPT ![r] = Idle]
      /\ UNCHANGED <<now, cacheUp, history>>
  BY DEF Answer
<1>2. reqs[r] # Idle
  BY <1>1 DEF Idle
<1>3. PICK c \in Identities : c = Client(reqs[r].route, reqs[r].who)
  BY <1>2, RequestFields DEF IInv
<1>4. \A x \in Requests : reqs'[x] = Idle
  BY <1>1, <1>2, AloneMovesOn
<1>5. ASSUME NEW s \in AllScopes, NEW i \in Identities
      PROVE  Covered(passed'[s][i], history'[s][i], s)
  <2> DEFINE charged == ToSet(Throttles(reqs[r].route, reqs[r].who))
  <2>1. Covered(passed[s][i], history[s][i], s)
    BY DEF SerialInv
  <2>2. PICK p \in Times, h \in Times : p = passed[s][i] /\ h = history[s][i]
    BY DEF IInv, TypeOK
  <2>3. CASE reqs[r].refused \/ s \notin charged \/ i # c
    <3>1. passed'[s][i] = passed[s][i]
      BY <1>3, <2>3 DEF Answer, IInv, TypeOK
    <3> QED BY <1>1, <2>1, <3>1
  <2>4. CASE ~reqs[r].refused /\ s \in charged /\ i = c
    <3>1. passed'[s][i] = Entered(passed[s][i], s)
      BY <1>3, <2>4 DEF Answer, IInv, TypeOK, Entered
    <3>2. ToSet(<<>>) = {}
      BY EmptySeq, LenProperties DEF ToSet
    <3>3. CoveredButOne(p, h, s)
      BY <1>1, <1>2, <1>3, <2>2, <2>4, <3>2 DEF SerialInv, ChargesCovered
    <3>4. Sorted(h) /\ now \in 0..MaxTime
      BY <2>2 DEF IInv, TypeOK, ListsInOrder
    <3>5. Covered(Entered(p, s), h, s)
      BY <3>3, <3>4, OneMoreCovers
    <3> QED BY <1>1, <2>2, <3>1, <3>5
  <2> QED BY <2>3, <2>4
<1>6. \A x \in Requests : ChargesCovered(reqs'[x], history', passed')
  BY <1>4 DEF ChargesCovered
<1> QED BY <1>1, <1>4, <1>5, <1>6, TimelessSerialStep DEF SerialInv

\* Time passes only when nobody is in flight.
LEMMA SerialTick ==
  ASSUME IInv, SerialInv, Tick, OneAtATime
  PROVE  SerialInv'
<1>1. /\ now \in Nat /\ now' = now + 1
      /\ UNCHANGED <<cacheUp, history, reqs, admitted, passed>>
  BY MaxTimeIsNat DEF Tick, IInv, TypeOK
<1>2. \A x \in Requests : reqs[x] = Idle
  BY <1>1 DEF OneAtATime
<1>3. ASSUME NEW s \in AllScopes, NEW i \in Identities
      PROVE  Covered(passed[s][i], history[s][i], s)'
  <2>1. PICK p \in Times : p = passed[s][i]
    BY DEF IInv, TypeOK
  <2>2. \A j \in DOMAIN p : p[j] \in Nat
    BY EntriesAreNumbers
  <2>3. \A j \in DOMAIN p : Young(p[j], s)' => Young(p[j], s)
    BY <1>1, <2>2, WindowsArePositive DEF Young
  <2>4. Covered(p, history[s][i], s)
    BY <2>1 DEF SerialInv
  <2>5. \A j \in DOMAIN p : Young(p[j], s)' =>
          j \in DOMAIN history'[s][i] /\ history'[s][i][j] >= p[j]
    BY <1>1, <2>3, <2>4 DEF Covered
  <2>6. p = passed'[s][i]
    BY <1>1, <2>1
  <2> QED BY <2>5, <2>6 DEF Covered, Young
<1>4. \A x \in Requests : ChargesCovered(reqs[x], history, passed)'
  BY <1>1, <1>2 DEF ChargesCovered
<1> QED BY <1>1, <1>3, <1>4 DEF SerialInv

\* The two invariants hold in every behaviour of MCThrottle.
LEMMA ScenarioInductive == MCSpec => [](IInv /\ (serial => SerialInv))
<1>1. MCInit => IInv /\ SerialInv
  <2>1. <<>> \in Times /\ DOMAIN <<>> = {}
    BY EmptySeq DEF Times
  <2>2. Init => SerialInv
    BY <2>1 DEF Init, SerialInv, Nothing, Covered, ChargesCovered
  <2> QED BY <2>2, InitIInv DEF MCInit
<1>2. IInv /\ (serial => SerialInv) /\ [MCNext]_mcvars => IInv' /\ (serial => SerialInv)'
  <2> SUFFICES ASSUME IInv, serial => SerialInv, [MCNext]_mcvars
               PROVE  IInv' /\ (serial' => SerialInv')
    OBVIOUS
  <2>1. CASE MCNext
    <3>1. IInv' /\ serial' = serial
      BY <2>1, StepIInv DEF MCNext
    <3>2. ASSUME serial PROVE SerialInv'
      <4>1. Next /\ OneAtATime /\ SerialInv
        BY <2>1, <3>2 DEF MCNext
      <4>2. ~CacheToggles
        BY <4>1 DEF OneAtATime
      <4> QED BY <4>1, <4>2, SerialArrive, SerialAsk, SerialPut, SerialAnswer, SerialTick
                 DEF Next
    <3> QED BY <3>1, <3>2
  <2>2. CASE UNCHANGED mcvars
    <3>1. UNCHANGED vars /\ UNCHANGED <<now, cacheUp, history, reqs, admitted, passed, serial>>
      BY <2>2 DEF mcvars, vars
    <3>2. IInv'
      BY <3>1, StepIInv
    <3>3. SerialInv => SerialInv'
      BY <3>1, TimelessSerialStep DEF SerialInv
    <3> QED BY <3>1, <3>2, <3>3
  <2> QED BY <2>1, <2>2
<1> QED BY <1>1, <1>2, PTL DEF MCSpec

\* Requests that do not overlap, and find the cache up, keep every rate of
\* their route in every window.
THEOREM SerialRequestsKeepRates == MCSpec => []SerialRatesKept
<1>1. IInv /\ (serial => SerialInv) => SerialRatesKept
  <2> SUFFICES ASSUME IInv, SerialInv, NEW s \in AllScopes, NEW i \in Identities
               PROVE  Lately(passed[s][i], s) <= Rate[s]
    BY DEF SerialRatesKept, RatesKept
  <2>1. PICK p \in Times, h \in Times : p = passed[s][i] /\ h = history[s][i]
    BY DEF IInv, TypeOK
  <2>2. Lately(p, s) \in Nat /\ Lately(p, s) <= Len(h)
    BY <2>1, CountedAtMost DEF SerialInv
  <2>3. Len(h) <= Rate[s] /\ Len(h) \in Nat /\ Rate[s] \in Nat
    BY <2>1, EntriesAreNumbers, RatesArePositive DEF IInv, TypeOK
  <2> QED BY <2>1, <2>2, <2>3
<1> QED BY <1>1, ScenarioInductive, PTL

===============================================================================
