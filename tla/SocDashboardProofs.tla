-------------------------- MODULE SocDashboardProofs --------------------------
(***************************************************************************)
(* Proofs about SocDashboard for every number of pages' websockets, polls, *)
(* packets and resets: what a listening page can still learn, and that the *)
(* list it shows has every packet at most once.                            *)
(***************************************************************************)
EXTENDS SocDashboard, FiniteSetTheorems, FunctionTheorems, SequenceTheorems, TLAPS

USE DashAssumption

\* The operators that put packets into lists.

\* Every place of a finite set of numbers is taken by one of them, no number
\* takes two places, and none is left out.
LEMMA NthTakesPlaces ==
    ASSUME NEW N \in SUBSET Nat, IsFiniteSet(N)
    PROVE  /\ Cardinality(N) \in Nat
           /\ \A i \in 1 .. Cardinality(N) :
                 Nth(N, i) \in N /\ Cardinality({m \in N : m <= Nth(N, i)}) = i
           /\ \A n \in N : \E i \in 1 .. Cardinality(N) : Nth(N, i) = n
<1> DEFINE UpTo(n) == {m \in N : m <= n}
           place   == [n \in N |-> Cardinality(UpTo(n))]
           Places  == 1 .. Cardinality(N)
<1>1. Cardinality(N) \in Nat
  BY FS_CardinalityType
<1>2. ASSUME NEW n \in N
      PROVE  IsFiniteSet(UpTo(n)) /\ Cardinality(UpTo(n)) \in Places
  <2>1. UpTo(n) \in SUBSET N /\ n \in UpTo(n)
    BY <1>2
  <2>2. IsFiniteSet(UpTo(n)) /\ Cardinality(UpTo(n)) <= Cardinality(N)
    BY <2>1, FS_Subset
  <2>3. Cardinality(UpTo(n)) \in Nat /\ Cardinality(UpTo(n)) # 0
    BY <2>1, <2>2, FS_CardinalityType, FS_EmptySet
  <2> QED
    BY <1>1, <2>2, <2>3
<1>3. ASSUME NEW a \in N, NEW b \in N, a < b
      PROVE  place[a] # place[b]
  <2>1. UpTo(a) \in SUBSET UpTo(b)
    <3>1. a \in Nat /\ b \in Nat /\ \A m \in N : m \in Nat
      OBVIOUS
    <3>2. \A m \in N : m <= a => m <= b
      BY <1>3, <3>1
    <3> QED
      BY <3>2
  <2>2. b \in UpTo(b) /\ b \notin UpTo(a)
    BY <1>3
  <2>3. Cardinality(UpTo(b)) = Cardinality(UpTo(a)) => UpTo(b) = UpTo(a)
    BY <1>2, <2>1, FS_Subset
  <2> QED
    BY <2>2, <2>3
<1>4. place \in [N -> Places]
  BY <1>2
<1>5. \A a, b \in N : place[a] = place[b] => a = b
  <2>1. \A a, b \in N : a < b \/ b < a \/ a = b
    OBVIOUS
  <2> QED
    BY <1>3, <2>1
<1>6. place \in Injection(N, Places)
  BY <1>4, <1>5, Fun_IsInj
<1>7. IsFiniteSet(Places) /\ Cardinality(Places) = Cardinality(N)
  BY <1>1, FS_Interval
<1>8. place \in Surjection(N, Places)
  BY <1>6, <1>7, FS_Injection
<1>9. \A i \in Places : \E n \in N : place[n] = i
  BY <1>8 DEF Surjection
<1>10. \A i \in Places : Nth(N, i) \in N /\ place[Nth(N, i)] = i
  BY <1>9 DEF Nth
<1>11. ASSUME NEW n \in N
       PROVE  \E i \in Places : Nth(N, i) = n
  <2>1. place[n] \in Places
    BY <1>4
  <2> QED
    BY <1>5, <1>10, <2>1
<1> QED
  BY <1>1, <1>10, <1>11

\* The numbers of records are finitely many.
LEMMA NumbersFinite ==
    ASSUME NEW R \in SUBSET Record
    PROVE  {r.nr : r \in R} \in SUBSET Nat /\ IsFiniteSet({r.nr : r \in R})
<1>1. {r.nr : r \in R} \in SUBSET (1 .. MaxMade)
  BY DEF Record
<1>2. IsFiniteSet(1 .. MaxMade)
  BY FS_Interval
<1> QED
  BY <1>1, <1>2, FS_Subset

Singled(R) == \A q, r \in R : q.nr = r.nr => q = r

NoDuplicates(list) == \A i, j \in DOMAIN list : list[i].nr = list[j].nr => i = j

\* A list of records has each of them, and each once, when their numbers tell
\* them apart.
LEMMA ListedLists ==
    ASSUME NEW R \in SUBSET Record
    PROVE  /\ Listed(R) \in Seq(Record) /\ Range(Listed(R)) \subseteq R
           /\ NoDuplicates(Listed(R))
           /\ Singled(R) => Range(Listed(R)) = R
<1> DEFINE nrs   == {r.nr : r \in R}
           size  == Cardinality(nrs)
           at(i) == CHOOSE r \in R : r.nr = Nth(nrs, size + 1 - i)
<1>1. nrs \in SUBSET Nat /\ IsFiniteSet(nrs)
  BY NumbersFinite
<1>2. size \in Nat
  BY <1>1, NthTakesPlaces
<1>3. \A i \in 1 .. size :
         Nth(nrs, i) \in nrs /\ Cardinality({m \in nrs : m <= Nth(nrs, i)}) = i
  BY <1>1, NthTakesPlaces
<1>4. \A i \in 1 .. size : size + 1 - i \in 1 .. size
  BY <1>2
<1>5. ASSUME NEW i \in 1 .. size
      PROVE  at(i) \in R /\ at(i).nr = Nth(nrs, size + 1 - i)
  <2>1. Nth(nrs, size + 1 - i) \in nrs
    BY <1>3, <1>4
  <2>2. \E r \in R : r.nr = Nth(nrs, size + 1 - i)
    BY <2>1
  <2> QED
    BY <2>2
<1>6. Listed(R) = [i \in 1 .. size |-> at(i)]
  BY DEF Listed
<1> HIDE DEF nrs, size, at
<1>7. Listed(R) \in Seq(Record)
  <2>1. \A i \in 1 .. size : at(i) \in Record
    BY <1>5
  <2> QED
    BY <1>2, <1>6, <2>1, IsASeq
<1>8. Range(Listed(R)) \subseteq R
  BY <1>5, <1>6 DEF Range
<1>9. NoDuplicates(Listed(R))
  <2> SUFFICES ASSUME NEW i \in 1 .. size, NEW j \in 1 .. size,
                      at(i).nr = at(j).nr
               PROVE  i = j
    BY <1>6 DEF NoDuplicates
  <2>1. Nth(nrs, size + 1 - i) = Nth(nrs, size + 1 - j)
    BY <1>5
  <2>2. size + 1 - i = size + 1 - j
    BY <1>3, <1>4, <2>1
  <2> QED
    BY <1>2, <2>2
<1>10. ASSUME Singled(R), NEW r \in R
       PROVE  r \in Range(Listed(R))
  <2>1. r.nr \in nrs
    BY DEF nrs
  <2>2. PICK k \in 1 .. size : Nth(nrs, k) = r.nr
    BY <1>1, <2>1, NthTakesPlaces DEF size
  <2>3. size + 1 - k \in 1 .. size /\ size + 1 - (size + 1 - k) = k
    BY <1>2
  <2>4. at(size + 1 - k) = r
    BY <1>5, <1>10, <2>2, <2>3 DEF Singled
  <2> QED
    BY <1>6, <2>3, <2>4 DEF Range
<1> QED
  BY <1>7, <1>8, <1>9, <1>10

\* What is taken from or added to a sequence.
LEMMA TailRange ==
    ASSUME NEW S, NEW q \in Seq(S), q # <<>>
    PROVE  /\ Tail(q) \in Seq(S) /\ Head(q) \in Range(q) /\ Head(q) \in S
           /\ Range(q) = {Head(q)} \cup Range(Tail(q))
<1>1. /\ Tail(q) \in Seq(S) /\ Len(q) \in Nat \ {0} /\ Head(q) = q[1]
      /\ DOMAIN q = 1 .. Len(q) /\ DOMAIN Tail(q) = 1 .. Len(q) - 1
      /\ \A i \in 1 .. Len(q) - 1 : Tail(q)[i] = q[i + 1]
  BY HeadTailProperties, LenProperties, EmptySeq
<1>2. Head(q) \in Range(q) /\ Head(q) \in S
  BY <1>1, ElementOfSeq DEF Range
<1>3. Range(Tail(q)) \subseteq Range(q)
  <2>1. \A i \in 1 .. Len(q) - 1 : i + 1 \in 1 .. Len(q)
    BY <1>1
  <2> QED
    BY <1>1, <2>1 DEF Range
<1>4. Range(q) \subseteq {Head(q)} \cup Range(Tail(q))
  <2> SUFFICES ASSUME NEW i \in 1 .. Len(q), i # 1
               PROVE  q[i] \in Range(Tail(q))
    BY <1>1 DEF Range
  <2>1. i - 1 \in 1 .. Len(q) - 1 /\ i = (i - 1) + 1
    BY <1>1
  <2>2. Tail(q)[i - 1] = q[i]
    BY <1>1, <2>1
  <2> QED
    BY <1>1, <2>1, <2>2 DEF Range
<1> QED
  BY <1>1, <1>2, <1>3, <1>4

LEMMA ConcatRange ==
    ASSUME NEW S, NEW p \in Seq(S), NEW q \in Seq(S)
    PROVE  p \o q \in Seq(S) /\ Range(p \o q) = Range(p) \cup Range(q)
<1>1. p \o q \in Seq(S)
  BY ConcatProperties
<1>2. Range(p \o q) = Range(p) \cup Range(q)
  BY RangeConcatenation
<1> QED
  BY <1>1, <1>2

LEMMA AppendRange ==
    ASSUME NEW S, NEW q \in Seq(S), NEW x \in S
    PROVE  Append(q, x) \in Seq(S) /\ Range(Append(q, x)) = Range(q) \cup {x}
<1>1. <<x>> \in Seq(S) /\ Range(<<x>>) = {x}
  BY DEF Range
<1>2. Append(q, x) = q \o <<x>>
  BY AppendIsConcat
<1>3. Range(<<x>>) = {x} /\ <<x>> \in Seq(S)
  BY <1>1
<1>4. q \o <<x>> \in Seq(S) /\ Range(q \o <<x>>) = Range(q) \cup Range(<<x>>)
  BY <1>3, ConcatRange
<1> QED
  BY <1>2, <1>3, <1>4

\* A pushed packet is put before the list and what has its id is taken out;
\* nothing is listed twice when a number stands for one packet.
LEMMA PrependReplaces ==
    ASSUME NEW r \in Record, NEW list \in Seq(Record), NoDuplicates(list),
           Singled({r} \cup Range(list))
    PROVE  /\ Prepend(r, list) \in Seq(Record)
           /\ Range(Prepend(r, list)) \subseteq {r} \cup Range(list)
           /\ NoDuplicates(Prepend(r, list))
<1> DEFINE kept == {i \in DOMAIN list : list[i].id # r.id}
           size == Cardinality(kept)
           rest == [i \in 1 .. size |-> list[Nth(kept, i)]]
<1>1. DOMAIN list = 1 .. Len(list) /\ Len(list) \in Nat
  BY LenProperties
<1>2. kept \in SUBSET Nat /\ IsFiniteSet(kept)
  <2>1. IsFiniteSet(1 .. Len(list)) /\ kept \in SUBSET (1 .. Len(list))
    BY <1>1, FS_Interval
  <2> QED
    BY <2>1, FS_Subset
<1>3. size \in Nat
  BY <1>2, NthTakesPlaces
<1>4. \A i \in 1 .. size :
         Nth(kept, i) \in kept /\ Cardinality({m \in kept : m <= Nth(kept, i)}) = i
  BY <1>2, NthTakesPlaces
<1>5. Prepend(r, list) = <<r>> \o rest
  BY DEF Prepend
<1>6. \A i \in 1 .. size :
         /\ Nth(kept, i) \in DOMAIN list
         /\ rest[i] = list[Nth(kept, i)] /\ rest[i].id # r.id
  BY <1>4
<1>7. rest \in Seq(Record) /\ Len(rest) = size
  <2>1. \A i \in 1 .. size : list[Nth(kept, i)] \in Record
    BY <1>1, <1>6, ElementOfSeq
  <2>2. rest \in Seq(Record)
    BY <1>3, <2>1, IsASeq
  <2>3. DOMAIN rest = 1 .. size
    OBVIOUS
  <2> QED
    BY <1>3, <2>2, <2>3, LenProperties
<1>8. Range(rest) \subseteq Range(list)
  BY <1>6 DEF Range
<1> HIDE DEF kept, size, rest
<1>9. /\ Prepend(r, list) \in Seq(Record)
      /\ DOMAIN Prepend(r, list) = 1 .. 1 + size
      /\ \A i \in 1 .. 1 + size :
            Prepend(r, list)[i] = IF i = 1 THEN r ELSE rest[i - 1]
  <2>1. <<r>> \in Seq(Record) /\ Len(<<r>>) = 1 /\ <<r>>[1] = r
    OBVIOUS
  <2>2. <<r>> \o rest \in Seq(Record) /\ Len(<<r>> \o rest) = 1 + size
    BY <1>7, <2>1, ConcatProperties
  <2>3. \A i \in 1 .. 1 + size :
           (<<r>> \o rest)[i] = IF i <= 1 THEN <<r>>[i] ELSE rest[i - 1]
    BY <1>7, <2>1, ConcatProperties
  <2>4. \A i \in 1 .. 1 + size : i <= 1 <=> i = 1
    BY <1>3
  <2> QED
    BY <1>5, <2>1, <2>2, <2>3, <2>4, LenProperties
<1>10. Range(Prepend(r, list)) \subseteq {r} \cup Range(list)
  <2>1. <<r>> \in Seq(Record) /\ Range(<<r>>) = {r}
    BY DEF Range
  <2>2. rest \in Seq(Record)
    BY <1>7
  <2>3. \A p \in Seq(Record) : Range(p \o rest) = Range(p) \cup Range(rest)
    BY <2>2, ConcatRange
  <2> QED
    BY <1>5, <1>8, <2>1, <2>3
<1>11. ASSUME NEW i \in 1 .. size
       PROVE  rest[i].nr # r.nr
  <2>1. rest[i] \in Range(list)
    BY <1>6 DEF Range
  <2> QED
    BY <1>6, <2>1 DEF Singled
<1>12. ASSUME NEW i \in 1 .. size, NEW j \in 1 .. size,
              rest[i].nr = rest[j].nr
       PROVE  i = j
  <2>1. Nth(kept, i) = Nth(kept, j)
    BY <1>6, <1>12 DEF NoDuplicates
  <2> QED
    BY <1>4, <2>1
<1>13. NoDuplicates(Prepend(r, list))
  <2> SUFFICES ASSUME NEW i \in 1 .. 1 + size, NEW j \in 1 .. 1 + size,
                      Prepend(r, list)[i].nr = Prepend(r, list)[j].nr
               PROVE  i = j
    BY <1>9 DEF NoDuplicates
  <2>1. \A k \in 1 .. 1 + size : k # 1 => k - 1 \in 1 .. size
    BY <1>3
  <2>2. CASE i = 1 \/ j = 1
    BY <1>9, <1>11, <2>1, <2>2
  <2>3. CASE i # 1 /\ j # 1
    <3>1. i - 1 = j - 1
      BY <1>9, <1>12, <2>1, <2>3
    <3> QED
      BY <3>1, <1>3
  <2> QED
    BY <2>2, <2>3
<1> QED
  BY <1>9, <1>10, <1>13

-------------------------------------------------------------------------------
(* The invariant.                                                          *)

\* The packets that are anywhere: in the store, queued or sent to a page,
\* answered to a poll, or shown.
Queued  == UNION {Range(queue[s]) : s \in Socket}
Sent    == UNION {m.packets : m \in UNION {Range(wire[s]) : s \in Socket}}
Fetched == UNION UNION {Range(poll[p].packets) : p \in Poll}
Shown   == Range(view.packets)
Stored  == log \cup fresh \cup untold
Seen    == Stored \cup Queued \cup Sent \cup Fetched \cup Shown

\* A number stands for one packet wherever it is met, and the next number has
\* not been met.
Known == Singled(Seen) /\ \A r \in Seen : r.nr <= made

\* A pushed message has the packet it pushes.
UpdatesCarry ==
    \A s \in Socket : \A m \in Range(wire[s]) : m.type = "update" => m.packets # {}

DashInv == TypeOK /\ Known /\ UpdatesCarry /\ ViewNoDuplicates /\ FeedComplete

\* What a handler records first is what it broadcasts.
LEMMA NewIsFresh ==
    ASSUME TypeOK
    PROVE  /\ New \in Seq(Record) /\ Range(New) \subseteq fresh
           /\ Known => Range(New) = fresh
<1>1. fresh \in SUBSET Record
  BY DEF TypeOK
<1>2. Known => Singled(fresh)
  BY DEF Known, Singled, Seen, Stored
<1> QED
  BY <1>1, <1>2, ListedLists DEF New

\* A broadcast reaches the handlers that listen, behind what they have queued.
LEMMA BroadcastReaches ==
    ASSUME TypeOK, NEW list \in Seq(Record)
    PROVE  /\ Broadcast(list) \in [Socket -> Seq(Record)]
           /\ \A s \in Socket :
                 /\ Range(Broadcast(list)[s]) \subseteq Range(queue[s]) \cup Range(list)
                 /\ Range(queue[s]) \subseteq Range(Broadcast(list)[s])
                 /\ Listening(s) => Range(list) \subseteq Range(Broadcast(list)[s])
<1>1. ASSUME NEW s \in Socket
      PROVE  /\ queue[s] \in Seq(Record) /\ queue[s] \o list \in Seq(Record)
             /\ Range(queue[s] \o list) = Range(queue[s]) \cup Range(list)
  <2>1. queue[s] \in Seq(Record)
    BY DEF TypeOK
  <2> QED
    BY <2>1, ConcatRange
<1>2. \A s \in Socket :
         Broadcast(list)[s] = IF Listening(s) THEN queue[s] \o list ELSE queue[s]
  BY DEF Broadcast
<1>3. Broadcast(list) \in [Socket -> Seq(Record)]
  BY <1>1 DEF Broadcast
<1> QED
  BY <1>1, <1>2, <1>3

\* A handler that goes on to push takes the first packet of its queue.
LEMMA PushTakes ==
    ASSUME TypeOK, NEW s \in Socket, queue[s] # <<>>
    PROVE  /\ Head(queue[s]) \in Record /\ Head(queue[s]) \in Range(queue[s])
           /\ Broadcast(New)[s] # <<>>
           /\ Head(Broadcast(New)[s]) = Head(queue[s])
           /\ [Broadcast(New) EXCEPT ![s] = Tail(@)] \in [Socket -> Seq(Record)]
           /\ Range(Broadcast(New)[s]) =
                 {Head(queue[s])} \cup Range(Tail(Broadcast(New)[s]))
           /\ Listening(s) => Range(New) \subseteq Range(Tail(Broadcast(New)[s]))
<1>1. queue[s] \in Seq(Record) /\ New \in Seq(Record)
  BY NewIsFresh DEF TypeOK
<1>2. Head(queue[s]) \in Record /\ Head(queue[s]) \in Range(queue[s])
  BY <1>1, TailRange
<1>3. Broadcast(New) \in [Socket -> Seq(Record)]
  BY <1>1, BroadcastReaches
<1>4. Broadcast(New)[s] # <<>> /\ Head(Broadcast(New)[s]) = Head(queue[s])
  <2>1. Len(queue[s]) \in Nat /\ Len(queue[s]) # 0 /\ Len(New) \in Nat
    BY <1>1, LenProperties, EmptySeq
  <2>2. /\ Len(queue[s] \o New) = Len(queue[s]) + Len(New)
        /\ (queue[s] \o New)[1] = queue[s][1]
    BY <1>1, <2>1, ConcatProperties
  <2>3. Head(queue[s] \o New) = (queue[s] \o New)[1] /\ Head(queue[s]) = queue[s][1]
    BY <1>1, <2>1, <2>2, ConcatProperties, HeadTailProperties
  <2>4. queue[s] \o New # <<>>
    BY <2>1, <2>2
  <2> QED
    BY <2>2, <2>3, <2>4 DEF Broadcast
<1>5. /\ Tail(Broadcast(New)[s]) \in Seq(Record)
      /\ Range(Broadcast(New)[s]) =
            {Head(queue[s])} \cup Range(Tail(Broadcast(New)[s]))
  <2>1. Broadcast(New)[s] \in Seq(Record)
    BY <1>3
  <2> QED
    BY <1>4, <2>1, TailRange
<1>6. ASSUME Listening(s), NEW j \in DOMAIN New
      PROVE  New[j] \in Range(Tail(Broadcast(New)[s]))
  <2> DEFINE all == queue[s] \o New
             at  == Len(queue[s]) + j
  <2>1. /\ Len(queue[s]) \in Nat /\ Len(queue[s]) # 0
        /\ Len(New) \in Nat /\ j \in 1 .. Len(New)
    BY <1>1, <1>6, LenProperties, EmptySeq
  <2>2. /\ all \in Seq(Record) /\ Len(all) = Len(queue[s]) + Len(New)
        /\ \A i \in 1 .. Len(queue[s]) + Len(New) :
              all[i] = IF i <= Len(queue[s]) THEN queue[s][i] ELSE New[i - Len(queue[s])]
    BY <1>1, ConcatProperties
  <2>3. /\ at \in 1 .. Len(queue[s]) + Len(New) /\ ~(at <= Len(queue[s]))
        /\ at - Len(queue[s]) = j
        /\ at - 1 \in 1 .. (Len(queue[s]) + Len(New)) - 1 /\ (at - 1) + 1 = at
    <3>1. \A a \in Nat \ {0}, b \in Nat : \A k \in 1 .. b :
             /\ a + k \in 1 .. a + b /\ ~(a + k <= a) /\ (a + k) - a = k
             /\ (a + k) - 1 \in 1 .. (a + b) - 1 /\ ((a + k) - 1) + 1 = a + k
      OBVIOUS
    <3> QED
      BY <2>1, <3>1
  <2>4. all[at] = New[j]
    BY <2>2, <2>3
  <2> HIDE DEF all, at
  <2>5. Len(all) \in Nat /\ Len(all) # 0
    BY <2>1, <2>2
  <2>6. all # <<>>
    BY <2>5
  <2>7. /\ Len(Tail(all)) = Len(all) - 1 /\ Tail(all) \in Seq(Record)
        /\ \A i \in 1 .. Len(Tail(all)) : Tail(all)[i] = all[i + 1]
    BY <2>2, <2>6, HeadTailProperties
  <2>8. Tail(all)[at - 1] = New[j] /\ at - 1 \in 1 .. Len(Tail(all))
    BY <2>2, <2>3, <2>4, <2>7
  <2>9. DOMAIN Tail(all) = 1 .. Len(Tail(all))
    BY <2>7, LenProperties
  <2>10. Broadcast(New)[s] = all
    BY <1>6 DEF Broadcast, all
  <2> QED
    BY <2>8, <2>9, <2>10 DEF Range
<1>7. Listening(s) => Range(New) \subseteq Range(Tail(Broadcast(New)[s]))
  BY <1>6 DEF Range
<1> QED
  BY <1>2, <1>3, <1>4, <1>5, <1>7

\* A message put on the wire, and one taken from it.
LEMMA WireKept ==
    ASSUME TypeOK, NEW s \in Socket
    PROVE  /\ \A m \in Message :
                 /\ [wire EXCEPT ![s] = Append(@, m)] \in [Socket -> Seq(Message)]
                 /\ Range(Append(wire[s], m)) = Range(wire[s]) \cup {m}
           /\ wire[s] # <<>> =>
                 /\ [wire EXCEPT ![s] = Tail(@)] \in [Socket -> Seq(Message)]
                 /\ Head(wire[s]) \in Message
                 /\ Head(wire[s]) \in Range(wire[s])
                 /\ Range(Tail(wire[s])) \subseteq Range(wire[s])
<1>1. wire \in [Socket -> Seq(Message)] /\ wire[s] \in Seq(Message)
  BY DEF TypeOK
<1>2. \A m \in Message :
         /\ Append(wire[s], m) \in Seq(Message)
         /\ Range(Append(wire[s], m)) = Range(wire[s]) \cup {m}
  BY <1>1, AppendRange
<1>3. wire[s] # <<>> =>
         /\ Tail(wire[s]) \in Seq(Message) /\ Head(wire[s]) \in Message
         /\ Head(wire[s]) \in Range(wire[s])
         /\ Range(Tail(wire[s])) \subseteq Range(wire[s])
  BY <1>1, TailRange
<1> QED
  BY <1>1, <1>2, <1>3

\* What the page shows after a message.
LEMMA DeliverShows ==
    ASSUME TypeOK, Known, UpdatesCarry, ViewNoDuplicates,
           NEW s \in Socket, Deliver(s)
    PROVE  /\ view' \in [packets : Seq(Record), stats : BOOLEAN]
           /\ Shown' \subseteq Shown \cup Sent
           /\ ViewNoDuplicates'
<1> DEFINE m == Head(wire[s])
           r == CHOOSE q \in m.packets : TRUE
<1>1. m \in Message /\ m \in Range(wire[s])
  BY WireKept DEF Deliver
<1>2. m.packets \subseteq Sent /\ m.packets \in SUBSET Record /\ m.stats \in BOOLEAN
  BY <1>1 DEF Sent, Message
<1>3. view.packets \in Seq(Record)
  BY DEF TypeOK
<1>4. /\ view'.stats = m.stats /\ DOMAIN view' = {"stats", "packets"}
      /\ view' = [stats |-> view'.stats, packets |-> view'.packets]
      /\ view'.packets = CASE m.type = "init"   -> Listed(m.packets)
                           [] m.type = "update" -> Prepend(r, view.packets)
                           [] OTHER             -> view.packets
  BY DEF Deliver
<1> HIDE DEF m, r
<1>5. CASE m.type = "init"
  <2>1. view'.packets = Listed(m.packets)
    BY <1>4, <1>5
  <2>2. /\ Listed(m.packets) \in Seq(Record)
        /\ Range(Listed(m.packets)) \subseteq m.packets
        /\ NoDuplicates(Listed(m.packets))
    BY <1>2, ListedLists
  <2> QED
    BY <1>2, <1>4, <2>1, <2>2 DEF Shown, ViewNoDuplicates, NoDuplicates
<1>6. CASE m.type = "update"
  <2>1. m.packets # {}
    BY <1>1, <1>6 DEF UpdatesCarry
  <2>2. r \in m.packets
    BY <2>1 DEF r
  <2>3. r \in Record /\ r \in Sent
    BY <1>2, <2>2
  <2>4. NoDuplicates(view.packets)
    BY DEF ViewNoDuplicates, NoDuplicates
  <2>5. Singled({r} \cup Range(view.packets))
    BY <2>3 DEF Known, Singled, Seen, Shown
  <2>6. view'.packets = Prepend(r, view.packets)
    BY <1>4, <1>6
  <2>7. /\ Prepend(r, view.packets) \in Seq(Record)
        /\ Range(Prepend(r, view.packets)) \subseteq {r} \cup Range(view.packets)
        /\ NoDuplicates(Prepend(r, view.packets))
    BY <1>3, <2>3, <2>4, <2>5, PrependReplaces
  <2> QED
    BY <1>2, <1>4, <2>3, <2>6, <2>7 DEF Shown, ViewNoDuplicates, NoDuplicates
<1>7. CASE m.type \notin {"init", "update"}
  BY <1>2, <1>3, <1>4, <1>7 DEF Shown, ViewNoDuplicates
<1> QED
  BY <1>5, <1>6, <1>7

\* What it shows after a poll.
LEMMA ApplyShows ==
    ASSUME TypeOK, NEW p \in Poll, Apply(p)
    PROVE  /\ view' \in [packets : Seq(Record), stats : BOOLEAN]
           /\ Shown' \subseteq Fetched
           /\ ViewNoDuplicates'
<1>1. /\ poll[p].stats \in Seq(BOOLEAN) /\ poll[p].packets \in Seq(SUBSET Record)
      /\ poll[p].stats # <<>> /\ poll[p].packets # <<>>
  BY DEF TypeOK, Apply
<1>2. Head(poll[p].stats) \in BOOLEAN
  BY <1>1, TailRange
<1>3. /\ Head(poll[p].packets) \in SUBSET Record
      /\ Head(poll[p].packets) \in Range(poll[p].packets)
  BY <1>1, TailRange
<1>4. Head(poll[p].packets) \subseteq Fetched
  BY <1>3 DEF Fetched
<1>5. /\ Listed(Head(poll[p].packets)) \in Seq(Record)
      /\ Range(Listed(Head(poll[p].packets))) \subseteq Head(poll[p].packets)
      /\ NoDuplicates(Listed(Head(poll[p].packets)))
  BY <1>3, ListedLists
<1>6. view' = [stats |-> Head(poll[p].stats),
               packets |-> Listed(Head(poll[p].packets))]
  BY DEF Apply
<1> QED
  BY <1>2, <1>4, <1>5, <1>6 DEF Shown, ViewNoDuplicates, NoDuplicates

\* The poll that is answered, or over.
LEMMA PollKept ==
    ASSUME TypeOK, NEW p \in Poll, NEW st \in BOOLEAN, NEW R \in SUBSET Record
    PROVE  /\ [poll EXCEPT ![p].stats = <<st>>]
                 \in [Poll -> [stats : Seq(BOOLEAN), packets : Seq(SUBSET Record)]]
           /\ [poll EXCEPT ![p].packets = <<R>>]
                 \in [Poll -> [stats : Seq(BOOLEAN), packets : Seq(SUBSET Record)]]
           /\ [poll EXCEPT ![p] = NoPoll]
                 \in [Poll -> [stats : Seq(BOOLEAN), packets : Seq(SUBSET Record)]]
<1>1. <<st>> \in Seq(BOOLEAN) /\ <<R>> \in Seq(SUBSET Record)
  OBVIOUS
<1>2. NoPoll \in [stats : Seq(BOOLEAN), packets : Seq(SUBSET Record)]
  BY DEF NoPoll
<1>3. poll \in [Poll -> [stats : Seq(BOOLEAN), packets : Seq(SUBSET Record)]]
  BY DEF TypeOK
<1> QED
  BY <1>1, <1>2, <1>3

\* The variables keep their types.
LEMMA TypeKept ==
    ASSUME DashInv, [Next]_vars
    PROVE  TypeOK'
<1>a. TypeOK
  BY DEF DashInv
<1>b. New \in Seq(Record) /\ Broadcast(New) \in [Socket -> Seq(Record)]
  BY <1>a, NewIsFresh, BroadcastReaches
<1> USE DEF vars, logVars, dashVars, feedVars, pageVars
<1>1. CASE Server
  <2>1. CASE made < MaxMade /\ ((\E b \in Batch : StartBatch(b)) \/ Flag(TRUE))
    BY <1>1, <1>a, <2>1 DEF Server, StartBatch, Flag, TypeOK
  <2>2. CASE made < MaxMade /\ (Add \/ Publish)
    <3>1. /\ [id |-> made + 1, nr |-> made + 1] \in Record
          /\ [id |-> LiveId, nr |-> made + 1] \in Record
          /\ made + 1 \in 0 .. MaxMade
      BY <1>a, <2>2 DEF TypeOK, Record, LiveId
    <3>2. UNCHANGED dashVars
      BY <1>1 DEF Server
    <3> QED
      BY <1>a, <2>2, <3>1, <3>2 DEF Add, Publish, TypeOK
  <2>3. CASE EndBatch \/ Flag(FALSE)
    BY <1>1, <1>a, <2>3 DEF Server, EndBatch, Flag, TypeOK
  <2> QED
    BY <1>1, <2>1, <2>2, <2>3 DEF Server
<1>2. CASE Tell
  <2>1. PICK r \in untold : Announce(r) /\ queue' = Broadcast(<<r>>)
                            /\ UNCHANGED <<sock, wire, told, pageVars>>
    BY <1>2 DEF Tell
  <2>2. <<r>> \in Seq(Record)
    BY <1>a DEF TypeOK
  <2>3. queue' \in [Socket -> Seq(Record)]
    BY <1>a, <2>1, <2>2, BroadcastReaches
  <2> QED
    BY <1>a, <2>1, <2>3 DEF Announce, TypeOK
<1>3. CASE ClickReset
  BY <1>3, <1>a DEF ClickReset, TypeOK
<1>4. CASE Reset
  BY <1>4, <1>a DEF Reset, ResetLog, TypeOK
<1>5. CASE ApplyReset
  BY <1>5, <1>a DEF ApplyReset, EmptyView, TypeOK
<1>6. ASSUME NEW s \in Socket, Register(s)
      PROVE  TypeOK'
  BY <1>6, <1>a DEF Register, TypeOK
<1>7. ASSUME NEW s \in Socket, Greet(s)
      PROVE  TypeOK'
  <2> DEFINE m == [type |-> "init", stats |-> running, packets |-> log']
  <2>1. log' \in SUBSET Record /\ fresh' = {}
    BY <1>7, <1>a DEF Greet, Sync, TypeOK
  <2>2. m \in Message
    BY <1>a, <2>1 DEF TypeOK, Message
  <2>3. <<m>> \in Seq(Message)
    BY <2>2
  <2>4. wire' = [wire EXCEPT ![s] = <<m>>]
    BY <1>7 DEF Greet
  <2> HIDE DEF m
  <2>5. wire' \in [Socket -> Seq(Message)]
    BY <1>a, <2>3, <2>4 DEF TypeOK
  <2> QED
    BY <1>7, <1>a, <1>b, <2>1, <2>5 DEF Greet, Sync, TypeOK
<1>8. ASSUME NEW s \in Socket, Push(s)
      PROVE  TypeOK'
  <2> DEFINE m == [type |-> "update", stats |-> running, packets |-> {Head(queue[s])}]
  <2>1. /\ Head(queue[s]) \in Record
        /\ [Broadcast(New) EXCEPT ![s] = Tail(@)] \in [Socket -> Seq(Record)]
    BY <1>8, <1>a, PushTakes DEF Push
  <2>2. m \in Message
    BY <1>a, <2>1 DEF TypeOK, Message
  <2>3. wire' = [wire EXCEPT ![s] = Append(@, m)]
    BY <1>8 DEF Push
  <2> HIDE DEF m
  <2>4. wire' \in [Socket -> Seq(Message)]
    BY <1>a, <2>2, <2>3, WireKept
  <2>5. queue' \in [Socket -> Seq(Record)]
    BY <1>8, <2>1 DEF Push
  <2>6. told' \in [Socket -> SUBSET Record]
    BY <1>8, <1>a, <2>1 DEF Push, TypeOK
  <2> QED
    BY <1>8, <1>a, <2>4, <2>5, <2>6 DEF Push, Sync, TypeOK
<1>9. ASSUME NEW s \in Socket, Tick(s)
      PROVE  TypeOK'
  <2> DEFINE m == [type |-> "tick", stats |-> running, packets |-> {}]
  <2>1. m \in Message
    BY <1>a DEF TypeOK, Message
  <2>2. wire' = [wire EXCEPT ![s] = Append(@, m)]
    BY <1>9 DEF Tick
  <2> HIDE DEF m
  <2>3. wire' \in [Socket -> Seq(Message)]
    BY <1>a, <2>1, <2>2, WireKept
  <2> QED
    BY <1>9, <1>a, <1>b, <2>3 DEF Tick, Sync, TypeOK
<1>10. ASSUME NEW s \in Socket, Drop(s)
       PROVE  TypeOK'
  <2>1. <<>> \in Seq(Record) /\ <<>> \in Seq(Message)
    OBVIOUS
  <2> QED
    BY <1>10, <1>a, <2>1 DEF Drop, TypeOK
<1>11. ASSUME NEW s \in Socket, Deliver(s)
       PROVE  TypeOK'
  <2>1. view' \in [packets : Seq(Record), stats : BOOLEAN]
    BY <1>11, DeliverShows DEF DashInv
  <2>2. wire' \in [Socket -> Seq(Message)]
    BY <1>11, <1>a, WireKept DEF Deliver
  <2> QED
    BY <1>11, <1>a, <2>1, <2>2 DEF Deliver, TypeOK
<1>12. ASSUME NEW p \in Poll, AnswerStats(p)
       PROVE  TypeOK'
  <2>1. poll' \in [Poll -> [stats : Seq(BOOLEAN), packets : Seq(SUBSET Record)]]
    BY <1>12, <1>a, PollKept DEF AnswerStats, TypeOK
  <2> QED
    BY <1>12, <1>a, <1>b, <2>1 DEF AnswerStats, Sync, TypeOK
<1>13. ASSUME NEW p \in Poll, AnswerPackets(p)
       PROVE  TypeOK'
  <2>1. log' \in SUBSET Record
    BY <1>13, <1>a DEF AnswerPackets, Sync, TypeOK
  <2>2. poll' \in [Poll -> [stats : Seq(BOOLEAN), packets : Seq(SUBSET Record)]]
    BY <1>13, <1>a, <2>1, PollKept DEF AnswerPackets
  <2> QED
    BY <1>13, <1>a, <1>b, <2>1, <2>2 DEF AnswerPackets, Sync, TypeOK
<1>14. ASSUME NEW p \in Poll, Apply(p)
       PROVE  TypeOK'
  <2>1. view' \in [packets : Seq(Record), stats : BOOLEAN]
    BY <1>14, <1>a, ApplyShows
  <2>2. poll' \in [Poll -> [stats : Seq(BOOLEAN), packets : Seq(SUBSET Record)]]
    BY <1>14, <1>a, PollKept DEF Apply
  <2> QED
    BY <1>14, <1>a, <2>1, <2>2 DEF Apply, TypeOK
<1>15. ASSUME NEW p \in Poll, Fail(p)
       PROVE  TypeOK'
  <2>1. poll' \in [Poll -> [stats : Seq(BOOLEAN), packets : Seq(SUBSET Record)]]
    BY <1>15, <1>a, PollKept DEF Fail
  <2> QED
    BY <1>15, <1>a, <2>1 DEF Fail, TypeOK
<1>16. CASE UNCHANGED vars
  BY <1>16, <1>a DEF TypeOK
<1> QED
  BY <1>1, <1>2, <1>3, <1>4, <1>5, <1>6, <1>7, <1>8, <1>9, <1>10, <1>11, <1>12,
     <1>13, <1>14, <1>15, <1>16 DEF Next

\* What queues, wires and polls hold after a step, from what each one gets.
LEMMA QueuedGrows ==
    ASSUME NEW X, \A s \in Socket : Range(queue'[s]) \subseteq Range(queue[s]) \cup X
    PROVE  Queued' \subseteq Queued \cup X
  BY DEF Queued

LEMMA SentGrows ==
    ASSUME NEW X,
           \A s \in Socket : \A m \in Range(wire'[s]) :
              m \in Range(wire[s]) \/ m.packets \subseteq X
    PROVE  Sent' \subseteq Sent \cup X
  BY DEF Sent

LEMMA FetchedGrows ==
    ASSUME NEW X,
           \A p \in Poll : \A R \in Range(poll'[p].packets) :
              R \in Range(poll[p].packets) \/ R \subseteq X
    PROVE  Fetched' \subseteq Fetched \cup X
  BY DEF Fetched

\* A broadcast of what was fresh queues nothing that was not seen.
LEMMA SyncSeesNothingNew ==
    ASSUME TypeOK, Sync,
           \/ queue' = Broadcast(New)
           \/ \E s \in Socket : /\ queue[s] # <<>>
                                /\ queue' = [Broadcast(New) EXCEPT ![s] = Tail(@)]
    PROVE  Stored' = Stored /\ Queued' \subseteq Queued \cup Stored /\ made' = made
<1>1. Stored' = Stored /\ made' = made
  BY DEF Sync, Stored
<1>2. New \in Seq(Record) /\ Range(New) \subseteq Stored
  BY NewIsFresh DEF Stored
<1>3. \A s \in Socket :
         Range(Broadcast(New)[s]) \subseteq Range(queue[s]) \cup Stored
  BY <1>2, BroadcastReaches
<1>4. CASE queue' = Broadcast(New)
  BY <1>1, <1>3, <1>4, QueuedGrows
<1>5. ASSUME NEW s \in Socket, queue[s] # <<>>,
             queue' = [Broadcast(New) EXCEPT ![s] = Tail(@)]
      PROVE  Queued' \subseteq Queued \cup Stored
  <2>1. Broadcast(New) \in [Socket -> Seq(Record)]
    BY <1>2, BroadcastReaches
  <2>2. \A q \in Socket : Range(queue'[q]) \subseteq Range(Broadcast(New)[q])
    BY <1>5, <2>1, PushTakes
  <2> QED
    BY <1>3, <2>2, QueuedGrows
<1> QED
  BY <1>1, <1>4, <1>5

\* No step brings a packet that was nowhere, but those that make one, which
\* number it anew.
LEMMA SeenGrows ==
    ASSUME DashInv, [Next]_vars
    PROVE  \/ Seen' \subseteq Seen /\ made' = made
           \/ \E r : /\ r.nr = made + 1 /\ made' = made + 1
                     /\ Seen' \subseteq Seen \cup {r}
<1>a. TypeOK
  BY DEF DashInv
<1> USE DEF vars, logVars, dashVars, feedVars, pageVars
<1>1. CASE Server
  <2>1. UNCHANGED <<Queued, Sent, Fetched, Shown>>
    BY <1>1 DEF Server, Queued, Sent, Fetched, Shown
  <2>2. CASE Add \/ Publish
    <3> DEFINE r == [id |-> IF Add THEN made + 1 ELSE LiveId, nr |-> made + 1]
    <3>1. Stored' \subseteq Stored \cup {r} /\ made' = made + 1 /\ r.nr = made + 1
      BY <2>2 DEF Add, Publish, Stored
    <3> HIDE DEF r
    <3>2. Seen' \subseteq Seen \cup {r}
      BY <2>1, <3>1 DEF Seen
    <3> QED
      BY <3>1, <3>2
  <2>3. CASE UNCHANGED <<log, untold, fresh, made>>
    BY <2>1, <2>3 DEF Seen, Stored
  <2> QED
    BY <1>1, <2>2, <2>3 DEF Server, StartBatch, EndBatch, Flag
<1>2. CASE Tell
  <2>1. PICK r \in untold : Announce(r) /\ queue' = Broadcast(<<r>>)
                            /\ UNCHANGED <<sock, wire, told, pageVars>>
    BY <1>2 DEF Tell
  <2>2. <<r>> \in Seq(Record) /\ Range(<<r>>) \subseteq Stored
    BY <1>a DEF TypeOK, Stored, Range
  <2>3. Queued' \subseteq Queued \cup Stored
    BY <1>a, <2>1, <2>2, BroadcastReaches, QueuedGrows
  <2>4. Stored' \subseteq Stored /\ made' = made /\ UNCHANGED <<Sent, Fetched, Shown>>
    BY <2>1 DEF Announce, Stored, Sent, Fetched, Shown
  <2> QED
    BY <2>3, <2>4 DEF Seen
<1>3. CASE ClickReset
  BY <1>3 DEF ClickReset, Seen, Stored, Queued, Sent, Fetched, Shown
<1>4. CASE Reset
  <2>1. UNCHANGED <<Queued, Sent, Fetched, Shown>>
    BY <1>4 DEF Reset, Queued, Sent, Fetched, Shown
  <2>2. Stored' \subseteq Stored /\ made' = made
    BY <1>4 DEF Reset, ResetLog, Stored
  <2> QED
    BY <2>1, <2>2 DEF Seen
<1>5. CASE ApplyReset
  <2>1. Shown' = {}
    BY <1>5 DEF ApplyReset, EmptyView, Shown, Range
  <2>2. UNCHANGED <<Stored, Queued, Sent, Fetched, made>>
    BY <1>5 DEF ApplyReset, Stored, Queued, Sent, Fetched
  <2> QED
    BY <2>1, <2>2 DEF Seen
<1>6. ASSUME NEW s \in Socket, Register(s)
      PROVE  UNCHANGED <<Seen, made>>
  BY <1>6 DEF Register, Seen, Stored, Queued, Sent, Fetched, Shown
<1>7. ASSUME NEW s \in Socket, Greet(s)
      PROVE  Seen' \subseteq Seen /\ made' = made
  <2>1. Stored' = Stored /\ Queued' \subseteq Queued \cup Stored /\ made' = made
    BY <1>7, <1>a, SyncSeesNothingNew DEF Greet
  <2>2. \A q \in Socket : \A m \in Range(wire'[q]) :
           m \in Range(wire[q]) \/ m.packets \subseteq Stored
    BY <1>7, <1>a DEF Greet, Sync, Stored, Range, TypeOK
  <2>3. Sent' \subseteq Sent \cup Stored
    BY <2>2, SentGrows
  <2>4. UNCHANGED <<Fetched, Shown>>
    BY <1>7 DEF Greet, Fetched, Shown
  <2> QED
    BY <2>1, <2>3, <2>4 DEF Seen
<1>8. ASSUME NEW s \in Socket, Push(s)
      PROVE  Seen' \subseteq Seen /\ made' = made
  <2> DEFINE m == [type |-> "update", stats |-> running, packets |-> {Head(queue[s])}]
  <2>1. Stored' = Stored /\ Queued' \subseteq Queued \cup Stored /\ made' = made
    BY <1>8, <1>a, SyncSeesNothingNew DEF Push
  <2>2. Head(queue[s]) \in Record /\ Head(queue[s]) \in Queued
    BY <1>8, <1>a, PushTakes DEF Push, Queued
  <2>3. m \in Message /\ m.packets \subseteq Queued
    BY <1>a, <2>2 DEF TypeOK, Message
  <2>4. wire' = [wire EXCEPT ![s] = Append(@, m)]
    BY <1>8 DEF Push
  <2> HIDE DEF m
  <2>5. \A q \in Socket : \A n \in Range(wire'[q]) :
           n \in Range(wire[q]) \/ n.packets \subseteq Queued
    BY <1>a, <2>3, <2>4, WireKept DEF TypeOK
  <2>6. Sent' \subseteq Sent \cup Queued
    BY <2>5, SentGrows
  <2>7. UNCHANGED <<Fetched, Shown>>
    BY <1>8 DEF Push, Fetched, Shown
  <2> QED
    BY <2>1, <2>6, <2>7 DEF Seen
<1>9. ASSUME NEW s \in Socket, Tick(s)
      PROVE  Seen' \subseteq Seen /\ made' = made
  <2> DEFINE m == [type |-> "tick", stats |-> running, packets |-> {}]
  <2>1. Stored' = Stored /\ Queued' \subseteq Queued \cup Stored /\ made' = made
    BY <1>9, <1>a, SyncSeesNothingNew DEF Tick
  <2>2. m \in Message /\ m.packets = {}
    BY <1>a DEF TypeOK, Message
  <2>3. wire' = [wire EXCEPT ![s] = Append(@, m)]
    BY <1>9 DEF Tick
  <2> HIDE DEF m
  <2>4. \A q \in Socket : \A n \in Range(wire'[q]) :
           n \in Range(wire[q]) \/ n.packets \subseteq {}
    BY <1>a, <2>2, <2>3, WireKept DEF TypeOK
  <2>5. Sent' \subseteq Sent \cup {}
    BY <2>4, SentGrows
  <2>6. UNCHANGED <<Fetched, Shown>>
    BY <1>9 DEF Tick, Fetched, Shown
  <2> QED
    BY <2>1, <2>5, <2>6 DEF Seen
<1>10. ASSUME NEW s \in Socket, Drop(s)
       PROVE  Seen' \subseteq Seen /\ made' = made
  <2>1. \A q \in Socket : /\ Range(queue'[q]) \subseteq Range(queue[q])
                          /\ Range(wire'[q]) \subseteq Range(wire[q])
    BY <1>10, <1>a DEF Drop, TypeOK, Range
  <2>2. Queued' \subseteq Queued /\ Sent' \subseteq Sent
    BY <2>1 DEF Queued, Sent
  <2>3. UNCHANGED <<Stored, Fetched, Shown, made>>
    BY <1>10 DEF Drop, Stored, Fetched, Shown
  <2> QED
    BY <2>2, <2>3 DEF Seen
<1>11. ASSUME NEW s \in Socket, Deliver(s)
       PROVE  Seen' \subseteq Seen /\ made' = made
  <2>1. Shown' \subseteq Shown \cup Sent
    BY <1>11, DeliverShows DEF DashInv
  <2>2. \A q \in Socket : Range(wire'[q]) \subseteq Range(wire[q])
    BY <1>11, <1>a, WireKept DEF Deliver, TypeOK
  <2>3. Sent' \subseteq Sent
    BY <2>2 DEF Sent
  <2>4. UNCHANGED <<Stored, Queued, Fetched, made>>
    BY <1>11 DEF Deliver, Stored, Queued, Fetched
  <2> QED
    BY <2>1, <2>3, <2>4 DEF Seen
<1>12. ASSUME NEW p \in Poll, AnswerStats(p)
       PROVE  Seen' \subseteq Seen /\ made' = made
  <2>1. Stored' = Stored /\ Queued' \subseteq Queued \cup Stored /\ made' = made
    BY <1>12, <1>a, SyncSeesNothingNew DEF AnswerStats
  <2>2. \A q \in Poll : poll'[q].packets = poll[q].packets
    BY <1>12, <1>a DEF AnswerStats, TypeOK
  <2>3. Fetched' = Fetched
    BY <2>2 DEF Fetched
  <2>4. UNCHANGED <<Sent, Shown>>
    BY <1>12 DEF AnswerStats, Sent, Shown
  <2> QED
    BY <2>1, <2>3, <2>4 DEF Seen
<1>13. ASSUME NEW p \in Poll, AnswerPackets(p)
       PROVE  Seen' \subseteq Seen /\ made' = made
  <2>1. Stored' = Stored /\ Queued' \subseteq Queued \cup Stored /\ made' = made
    BY <1>13, <1>a, SyncSeesNothingNew DEF AnswerPackets
  <2>2. log' \subseteq Stored
    BY <1>13 DEF AnswerPackets, Sync, Stored
  <2>3. \A q \in Poll : \A R \in Range(poll'[q].packets) :
           R \in Range(poll[q].packets) \/ R \subseteq Stored
    BY <1>13, <1>a, <2>2 DEF AnswerPackets, TypeOK, Range
  <2>4. Fetched' \subseteq Fetched \cup Stored
    BY <2>3, FetchedGrows
  <2>5. UNCHANGED <<Sent, Shown>>
    BY <1>13 DEF AnswerPackets, Sent, Shown
  <2> QED
    BY <2>1, <2>4, <2>5 DEF Seen
<1>14. ASSUME NEW p \in Poll, Apply(p) \/ Fail(p)
       PROVE  Seen' \subseteq Seen /\ made' = made
  <2>1. Shown' \subseteq Shown \cup Fetched
    BY <1>14, <1>a, ApplyShows DEF Fail, Shown
  <2>2. \A q \in Poll : Range(poll'[q].packets) \subseteq Range(poll[q].packets)
    <3>1. poll' = [poll EXCEPT ![p] = NoPoll]
      BY <1>14 DEF Apply, Fail
    <3>2. \A q \in Poll : poll'[q] = NoPoll \/ poll'[q] = poll[q]
      BY <1>a, <3>1 DEF TypeOK
    <3>3. Range(NoPoll.packets) = {}
      BY DEF NoPoll, Range
    <3> QED
      BY <3>2, <3>3
  <2>3. Fetched' \subseteq Fetched
    BY <2>2 DEF Fetched
  <2>4. UNCHANGED <<Stored, Queued, Sent, made>>
    BY <1>14 DEF Apply, Fail, Stored, Queued, Sent
  <2> QED
    BY <2>1, <2>3, <2>4 DEF Seen
<1>15. CASE UNCHANGED vars
  BY <1>15 DEF Seen, Stored, Queued, Sent, Fetched, Shown
<1> QED
  BY <1>1, <1>2, <1>3, <1>4, <1>5, <1>6, <1>7, <1>8, <1>9, <1>10, <1>11, <1>12,
     <1>13, <1>14, <1>15 DEF Next

LEMMA KnownKept ==
    ASSUME DashInv, [Next]_vars
    PROVE  Known'
<1>1. made \in Nat /\ \A r \in Seen : r.nr <= made
  BY DEF DashInv, TypeOK, Known
<1>2. TypeOK'
  BY TypeKept
<1>3. \A r \in Seen : r \in Record
  <2>1. TypeOK
    BY DEF DashInv
  <2>2. Stored \subseteq Record
    BY <2>1 DEF TypeOK, Stored
  <2>3. Queued \subseteq Record
    <3>1. \A s \in Socket : Range(queue[s]) \subseteq Record
      BY <2>1, RangeOfSeq DEF TypeOK
    <3> QED
      BY <3>1 DEF Queued
  <2>4. Sent \subseteq Record
    <3>1. \A s \in Socket : Range(wire[s]) \subseteq Message
      BY <2>1, RangeOfSeq DEF TypeOK
    <3>2. \A m \in Message : m.packets \subseteq Record
      BY DEF Message
    <3> QED
      BY <3>1, <3>2 DEF Sent
  <2>5. Fetched \subseteq Record
    <3>1. \A p \in Poll : poll[p].packets \in Seq(SUBSET Record)
      BY <2>1 DEF TypeOK
    <3>2. \A p \in Poll : Range(poll[p].packets) \subseteq SUBSET Record
      BY <3>1, RangeOfSeq
    <3> QED
      BY <3>2 DEF Fetched
  <2>6. Shown \subseteq Record
    BY <2>1, RangeOfSeq DEF TypeOK, Shown
  <2> QED
    BY <2>2, <2>3, <2>4, <2>5, <2>6 DEF Seen
<1>4. \A r \in Seen : r.nr \in Nat
  BY <1>3 DEF Record
<1>5. CASE Seen' \subseteq Seen /\ made' = made
  BY <1>5 DEF DashInv, Known, Singled
<1>6. ASSUME NEW r, r.nr = made + 1, made' = made + 1, Seen' \subseteq Seen \cup {r}
      PROVE  Known'
  <2>1. \A q \in Seen : q.nr # r.nr /\ q.nr <= made + 1
    BY <1>1, <1>4, <1>6
  <2>2. Singled(Seen')
    BY <1>6, <2>1 DEF DashInv, Known, Singled
  <2>3. \A q \in Seen' : q.nr <= made'
    BY <1>1, <1>6, <2>1
  <2> QED
    BY <2>2, <2>3 DEF Known, Singled
<1> QED
  BY <1>5, <1>6, SeenGrows

LEMMA UpdatesCarryKept ==
    ASSUME DashInv, [Next]_vars
    PROVE  UpdatesCarry'
<1>a. TypeOK /\ UpdatesCarry
  BY DEF DashInv
<1> USE DEF vars, logVars, dashVars, feedVars, pageVars
<1>1. ASSUME \A s \in Socket : \A m \in Range(wire'[s]) :
                m \in Range(wire[s]) \/ m.type # "update" \/ m.packets # {}
      PROVE  UpdatesCarry'
  BY <1>1, <1>a DEF UpdatesCarry
<1>2. CASE UNCHANGED wire
  BY <1>1, <1>2
<1>3. ASSUME NEW s \in Socket, Greet(s)
      PROVE  UpdatesCarry'
  <2> DEFINE m == [type |-> "init", stats |-> running, packets |-> log']
  <2>1. wire' = [wire EXCEPT ![s] = <<m>>] /\ m.type # "update"
    BY <1>3 DEF Greet
  <2> HIDE DEF m
  <2>2. Range(<<m>>) = {m}
    BY DEF Range
  <2>3. \A q \in Socket : wire'[q] = <<m>> \/ wire'[q] = wire[q]
    BY <1>a, <2>1 DEF TypeOK
  <2> QED
    BY <1>1, <2>1, <2>2, <2>3
<1>4. ASSUME NEW s \in Socket, Push(s) \/ Tick(s)
      PROVE  UpdatesCarry'
  <2>1. PICK m \in Message : /\ wire' = [wire EXCEPT ![s] = Append(@, m)]
                             /\ m.type # "update" \/ m.packets # {}
    <3> DEFINE u == [type |-> "update", stats |-> running, packets |-> {Head(queue[s])}]
               t == [type |-> "tick", stats |-> running, packets |-> {}]
    <3>1. CASE Push(s)
      <4>1. Head(queue[s]) \in Record
        BY <1>a, <3>1, PushTakes DEF Push
      <4>2. u \in Message /\ u.packets # {}
        BY <1>a, <4>1 DEF TypeOK, Message
      <4>3. wire' = [wire EXCEPT ![s] = Append(@, u)]
        BY <3>1 DEF Push
      <4> QED
        BY <4>2, <4>3
    <3>2. CASE Tick(s)
      <4>1. t \in Message /\ t.type # "update"
        BY <1>a DEF TypeOK, Message
      <4>2. wire' = [wire EXCEPT ![s] = Append(@, t)]
        BY <3>2 DEF Tick
      <4> QED
        BY <4>1, <4>2
    <3> QED
      BY <1>4, <3>1, <3>2
  <2>2. Range(Append(wire[s], m)) = Range(wire[s]) \cup {m}
    BY <1>a, WireKept
  <2>3. \A q \in Socket : wire'[q] = wire[q] \/ (q = s /\ wire'[q] = Append(wire[s], m))
    BY <1>a, <2>1 DEF TypeOK
  <2> QED
    BY <1>1, <2>1, <2>2, <2>3
<1>5. ASSUME NEW s \in Socket, Drop(s)
      PROVE  UpdatesCarry'
  BY <1>1, <1>5, <1>a DEF Drop, TypeOK, Range
<1>6. ASSUME NEW s \in Socket, Deliver(s)
      PROVE  UpdatesCarry'
  <2>1. \A q \in Socket : Range(wire'[q]) \subseteq Range(wire[q])
    BY <1>6, <1>a, WireKept DEF Deliver, TypeOK
  <2> QED
    BY <1>1, <2>1
<1> QED
  BY <1>2, <1>3, <1>4, <1>5, <1>6 DEF Next, Server, Tell, ClickReset, Reset,
     ApplyReset, Register, AnswerStats, AnswerPackets, Apply, Fail

LEMMA ViewKept ==
    ASSUME DashInv, [Next]_vars
    PROVE  ViewNoDuplicates'
<1>a. TypeOK /\ Known /\ UpdatesCarry /\ ViewNoDuplicates
  BY DEF DashInv
<1> USE DEF vars, logVars, dashVars, feedVars, pageVars
<1>1. CASE UNCHANGED view
  BY <1>a, <1>1 DEF ViewNoDuplicates
<1>2. CASE ApplyReset
  BY <1>2 DEF ApplyReset, EmptyView, ViewNoDuplicates
<1>3. ASSUME NEW s \in Socket, Deliver(s)
      PROVE  ViewNoDuplicates'
  BY <1>a, <1>3, DeliverShows
<1>4. ASSUME NEW p \in Poll, Apply(p)
      PROVE  ViewNoDuplicates'
  BY <1>a, <1>4, ApplyShows
<1> QED
  BY <1>1, <1>2, <1>3, <1>4 DEF Next, Server, Tell, ClickReset, Reset,
     Register, Greet, Push, Tick, Drop, AnswerStats, AnswerPackets, Fail

\* When a handler records what was fresh and broadcasts it, a page that
\* listened before still misses nothing.
LEMMA SyncKeepsFeed ==
    ASSUME DashInv, Sync, queue' = Broadcast(New), NEW s \in Socket,
           sock[s] = "open", told[s] \subseteq told'[s]
    PROVE  log' \subseteq told'[s] \cup Range(queue'[s]) \cup untold'
<1>1. New \in Seq(Record) /\ Range(New) = fresh
  BY NewIsFresh DEF DashInv
<1>2. Range(queue[s]) \subseteq Range(queue'[s]) /\ fresh \subseteq Range(queue'[s])
  BY <1>1, BroadcastReaches DEF DashInv, Listening
<1>3. log \subseteq told[s] \cup Range(queue[s]) \cup untold
  BY DEF DashInv, FeedComplete
<1> QED
  BY <1>2, <1>3 DEF Sync

LEMMA FeedKept ==
    ASSUME DashInv, [Next]_vars
    PROVE  FeedComplete'
<1>a. TypeOK /\ FeedComplete
  BY DEF DashInv
<1> USE DEF vars, logVars, dashVars, feedVars, pageVars
<1>1. CASE Server
  BY <1>1, <1>a DEF Server, StartBatch, EndBatch, Flag, Add, Publish, FeedComplete
<1>2. CASE Tell
  <2>1. PICK r \in untold : Announce(r) /\ queue' = Broadcast(<<r>>)
                            /\ UNCHANGED <<sock, wire, told, pageVars>>
    BY <1>2 DEF Tell
  <2>2. <<r>> \in Seq(Record) /\ r \in Range(<<r>>)
    BY <1>a DEF TypeOK, Range
  <2>3. \A s \in Socket : sock[s] = "open" =>
           Range(queue[s]) \subseteq Range(queue'[s]) /\ r \in Range(queue'[s])
    BY <1>a, <2>1, <2>2, BroadcastReaches DEF Listening
  <2> QED
    BY <1>a, <2>1, <2>3 DEF Announce, FeedComplete
<1>3. CASE Reset
  BY <1>3 DEF Reset, ResetLog, FeedComplete
<1>4. ASSUME NEW s \in Socket, Register(s)
      PROVE  FeedComplete'
  BY <1>4, <1>a DEF Register, FeedComplete, TypeOK
<1>5. ASSUME NEW s \in Socket, Greet(s)
      PROVE  FeedComplete'
  <2> SUFFICES ASSUME NEW q \in Socket, sock'[q] = "open"
               PROVE  log' \subseteq told'[q] \cup Range(queue'[q]) \cup untold'
    BY DEF FeedComplete
  <2>1. CASE q = s
    BY <1>5, <1>a, <2>1 DEF Greet, TypeOK
  <2>2. CASE q # s
    <3>1. sock[q] = "open" /\ told'[q] = told[q]
      BY <1>5, <1>a, <2>2 DEF Greet, TypeOK
    <3> QED
      BY <1>5, <3>1, SyncKeepsFeed DEF Greet
  <2> QED
    BY <2>1, <2>2
<1>6. ASSUME NEW s \in Socket, Push(s)
      PROVE  FeedComplete'
  <2> SUFFICES ASSUME NEW q \in Socket, sock'[q] = "open", NEW r \in log'
               PROVE  r \in told'[q] \cup Range(queue'[q]) \cup untold'
    BY DEF FeedComplete
  <2>1. sock[q] = "open" /\ queue[s] # <<>> /\ Sync
    BY <1>6 DEF Push
  <2>2. New \in Seq(Record) /\ Range(New) = fresh
    BY NewIsFresh DEF DashInv
  <2>3. r \in told[q] \cup Range(Broadcast(New)[q]) \cup untold
    <3>1. Range(queue[q]) \subseteq Range(Broadcast(New)[q])
      BY <1>a, <2>2, BroadcastReaches
    <3>2. fresh \subseteq Range(Broadcast(New)[q])
      BY <1>a, <2>1, <2>2, BroadcastReaches DEF Listening
    <3> QED
      BY <1>a, <2>1, <3>1, <3>2 DEF FeedComplete, Sync
  <2>4. Broadcast(New) \in [Socket -> Seq(Record)]
    BY <1>a, <2>2, BroadcastReaches
  <2>5. queue' = [Broadcast(New) EXCEPT ![s] = Tail(@)] /\ untold' = untold
    BY <1>6 DEF Push, Sync
  <2>6. told' = [told EXCEPT ![s] = @ \cup ({Head(queue[s])} \cap log)]
    BY <1>6 DEF Push
  <2>7. CASE q # s
    BY <1>a, <2>3, <2>4, <2>5, <2>6, <2>7 DEF TypeOK
  <2>8. CASE q = s
    <3>1. queue'[s] = Tail(Broadcast(New)[s])
      BY <2>4, <2>5
    <3>2. told'[s] = told[s] \cup ({Head(queue[s])} \cap log)
      BY <1>a, <2>6 DEF TypeOK
    <3>3. Range(Broadcast(New)[s]) = {Head(queue[s])} \cup Range(queue'[s])
      BY <1>a, <2>1, <3>1, PushTakes
    <3>4. CASE r \in log
      BY <2>3, <2>5, <2>8, <3>2, <3>3, <3>4
    <3>5. CASE r \in fresh
      <4>1. fresh \subseteq Range(queue'[s])
        BY <1>a, <2>1, <2>2, <2>8, <3>1, PushTakes DEF Listening
      <4> QED
        BY <2>8, <3>5, <4>1
    <3> QED
      BY <2>1, <3>4, <3>5 DEF Sync
  <2> QED
    BY <2>7, <2>8
<1>7. ASSUME NEW s \in Socket, Tick(s)
      PROVE  FeedComplete'
  BY <1>7, SyncKeepsFeed DEF Tick, FeedComplete
<1>8. ASSUME NEW s \in Socket, Drop(s)
      PROVE  FeedComplete'
  BY <1>8, <1>a DEF Drop, FeedComplete, TypeOK
<1>9. ASSUME NEW p \in Poll, AnswerStats(p) \/ AnswerPackets(p)
      PROVE  FeedComplete'
  BY <1>9, SyncKeepsFeed DEF AnswerStats, AnswerPackets, FeedComplete
<1>10. CASE UNCHANGED <<log, untold, sock, queue, told>>
  BY <1>10, <1>a DEF FeedComplete
<1> QED
  BY <1>1, <1>2, <1>3, <1>4, <1>5, <1>6, <1>7, <1>8, <1>9, <1>10 DEF Next,
     ClickReset, ApplyReset, Deliver, Apply, Fail

-------------------------------------------------------------------------------
LEMMA InitDash ==
    ASSUME Init
    PROVE  DashInv
<1>1. TypeOK
  <2>1. /\ [s \in Socket |-> <<>>] \in [Socket -> Seq(Record)]
        /\ [s \in Socket |-> <<>>] \in [Socket -> Seq(Message)]
        /\ [s \in Socket |-> {}] \in [Socket -> SUBSET Record]
    OBVIOUS
  <2>2. NoPoll \in [stats : Seq(BOOLEAN), packets : Seq(SUBSET Record)]
    BY DEF NoPoll
  <2>3. view \in [packets : Seq(Record), stats : BOOLEAN]
    BY DEF Init, EmptyView
  <2>4. /\ active \subseteq Batch /\ running \in BOOLEAN /\ made \in 0 .. MaxMade
        /\ log \subseteq Record /\ untold \subseteq Record /\ fresh \subseteq Record
    <3>1. active = {} /\ running = FALSE /\ log = {} /\ untold = {} /\ fresh = {}
      BY DEF Init, LogInit
    <3>2. made = 0 /\ 0 \in 0 .. MaxMade
      BY DEF Init, LogInit
    <3> QED
      BY <3>1, <3>2
  <2>5. /\ sock \in [Socket -> {"closed", "greeting", "open"}]
        /\ answer \in {"none", "asked", "answered"}
    BY DEF Init
  <2>6. /\ queue \in [Socket -> Seq(Record)] /\ wire \in [Socket -> Seq(Message)]
        /\ told \in [Socket -> SUBSET Record]
        /\ poll \in [Poll -> [stats : Seq(BOOLEAN), packets : Seq(SUBSET Record)]]
    BY <2>1, <2>2 DEF Init
  <2> QED
    BY <2>3, <2>4, <2>5, <2>6 DEF TypeOK
<1>2. Seen = {}
  <2>1. Stored = {} /\ Shown = {}
    BY DEF Init, LogInit, EmptyView, Stored, Shown, Range
  <2>2. \A s \in Socket : Range(queue[s]) = {} /\ Range(wire[s]) = {}
    BY DEF Init, Range
  <2>3. \A p \in Poll : Range(poll[p].packets) = {}
    BY DEF Init, NoPoll, Range
  <2> QED
    BY <2>1, <2>2, <2>3 DEF Seen, Queued, Sent, Fetched
<1>3. Known
  BY <1>2 DEF Known, Singled
<1>4. UpdatesCarry
  BY DEF Init, UpdatesCarry, Range
<1>5. ViewNoDuplicates /\ FeedComplete
  BY DEF Init, LogInit, EmptyView, ViewNoDuplicates, FeedComplete
<1> QED
  BY <1>1, <1>3, <1>4, <1>5 DEF DashInv

\* The invariant that the three theorems below rest on: types, one packet to a
\* number wherever it is met, and what the page shows and is told.
THEOREM DashInvariant == Spec => []DashInv
<1>1. Init => DashInv
  BY InitDash
<1>2. DashInv /\ [Next]_vars => DashInv'
  BY TypeKept, KnownKept, UpdatesCarryKept, ViewKept, FeedKept DEF DashInv
<1> QED
  BY <1>1, <1>2, PTL DEF Spec

\* The store, the queues, the messages, the polls and the view stay within
\* their types: no message or answer holds anything but recorded packets.
THEOREM DashTyped == Spec => []TypeOK
<1>1. DashInv => TypeOK
  BY DEF DashInv
<1> QED
  BY <1>1, DashInvariant, PTL

\* A page that listens misses no packet that is recorded, however the greeting,
\* the batch's broadcasts, the handlers' own and the resets interleave: each
\* was sent, is queued, or is about to be announced.
THEOREM FeedIsComplete == Spec => []FeedComplete
<1>1. DashInv => FeedComplete
  BY DEF DashInv
<1> QED
  BY <1>1, DashInvariant, PTL

\* The page never lists a packet twice, whatever greeting, pushes and polls
\* bring it, and in whatever order.
THEOREM ViewHasNoDuplicates == Spec => []ViewNoDuplicates
<1>1. DashInv => ViewNoDuplicates
  BY DEF DashInv
<1> QED
  BY <1>1, DashInvariant, PTL

\* Whatever the pages do, the store under them changes only as the packet log
\* allows, which is what the batches are shown to implement: a handler that
\* serves a page may record what is fresh, and no more.
THEOREM PagesKeepToLog == Spec => LogSpec
<1>1. Init => LogInit
  BY DEF Init
<1>2. [Next]_vars => [LogNext]_logVars
  <2> SUFFICES ASSUME [Next]_vars PROVE [LogNext]_logVars
    OBVIOUS
  <2>1. CASE Server
    BY <2>1 DEF Server, LogNext
  <2>2. CASE Tell
    BY <2>2 DEF Tell, LogNext
  <2>3. CASE Reset
    BY <2>3 DEF Reset, LogNext
  <2>4. CASE Sync
    BY <2>4 DEF LogNext
  <2>5. CASE UNCHANGED logVars
    BY <2>5
  <2> QED
    BY <2>1, <2>2, <2>3, <2>4, <2>5 DEF Next, vars, ClickReset, ApplyReset, Register, Greet,
       Push, Tick, Drop, Deliver, AnswerStats, AnswerPackets, Apply, Fail
<1> QED
  BY <1>1, <1>2, PTL DEF Spec, LogSpec

===============================================================================
