---------------------------- MODULE Ordering_proofs ----------------------------
(***************************************************************************)
(* Theorems about what comes first.                                        *)
(*                                                                         *)
(* EventStream, for any events, channels, workers, polls and times: the    *)
(* numbers of a channel have no gaps, and a subscriber misses no event     *)
(* but those that the worker published late.                               *)
(*                                                                         *)
(* OrderBook, for any customers, prices, quantities and number of orders:  *)
(* the arrays are in order and never cross, the trades tell what happened  *)
(* to every order, and the book does what PriceTimeExchange says, which    *)
(* leaves it no choice.  The loop of accept is opened round by round:      *)
(* Matching says what is left of each maker it has met (left).             *)
(*                                                                         *)
(* Both sort; SortedInOrder is what they need of a sort.                   *)
(***************************************************************************)
EXTENDS OrderBook, EventStream, FiniteSums
-----------------------------------------------------------------------------
(* Sorting.                                                                *)

\* A sort returns every element once, in order.
LEMMA SortedInOrder ==
  ASSUME NEW S, IsFiniteSet(S), NEW before,
         \A x \in S : <<x, x>> \notin before,
         \A x, y, z \in S : <<x, y>> \in before /\ <<y, z>> \in before => <<x, z>> \in before,
         \A x, y \in S : x # y => <<x, y>> \in before \/ <<y, x>> \in before
  PROVE  LET s == sorted(S, before) IN
         /\ s \in Seq(S) /\ Len(s) = Cardinality(S)
         /\ Range(s) = S
         /\ \A i, j \in DOMAIN s : i < j => <<s[i], s[j]>> \in before
<1> DEFINE n == Cardinality(S)
           below(x) == predecessors(S, before, x)
           rank == [x \in S |-> Cardinality(below(x))]
           s == sorted(S, before)
<1>0. n \in Nat BY FS_CardinalityType
<1>1. ASSUME NEW x \in S
      PROVE  IsFiniteSet(below(x)) /\ rank[x] \in Nat /\ rank[x] < n
  <2>1. below(x) \in SUBSET S /\ x \notin below(x) BY DEF predecessors
  <2>2. IsFiniteSet(below(x)) /\ rank[x] <= n /\ (n = rank[x] => S = below(x))
    BY <2>1, FS_Subset
  <2>3. rank[x] \in Nat BY <2>2, FS_CardinalityType
  <2> HIDE DEF rank, below, n
  <2> QED BY <2>1, <2>2, <2>3, <1>0
<1>2. ASSUME NEW x \in S, NEW y \in S, <<x, y>> \in before
      PROVE  rank[x] < rank[y]
  <2>1. below(x) \in SUBSET below(y) /\ x \in below(y) /\ x \notin below(x)
    BY <1>2 DEF predecessors
  <2>2. rank[x] <= rank[y] /\ (rank[y] = rank[x] => below(y) = below(x))
    BY <2>1, <1>1, FS_Subset
  <2>3. rank[x] \in Nat /\ rank[y] \in Nat BY <1>1
  <2> HIDE DEF rank, below
  <2> QED BY <2>1, <2>2, <2>3
<1>3. \A x, y \in S : rank[x] = rank[y] => x = y
  <2> SUFFICES ASSUME NEW x \in S, NEW y \in S, rank[x] = rank[y], x # y PROVE FALSE
    OBVIOUS
  <2>1. rank[x] < rank[y] \/ rank[y] < rank[x] BY <1>2
  <2>2. rank[x] \in Nat /\ rank[y] \in Nat BY <1>1
  <2> HIDE DEF rank
  <2> QED BY <2>1, <2>2
<1>4. \A i \in 1 .. n : \E x \in S : rank[x] = i - 1
  <2> DEFINE places == 0 .. n - 1
  <2>1. IsFiniteSet(places) /\ Cardinality(places) = n
    <3>1. IsFiniteSet(places) /\ Cardinality(places) = IF 0 > n - 1 THEN 0 ELSE (n - 1) - 0 + 1
      <4>1. 0 \in Int /\ n - 1 \in Int BY <1>0
      <4> QED BY <4>1, FS_Interval
    <3> HIDE DEF n, places
    <3> QED BY <3>1, <1>0
  <2>2. rank \in [S -> places]
    <3>1. \A x \in S : rank[x] \in places
      <4> HIDE DEF rank, n
      <4> QED BY <1>0, <1>1
    <3> QED BY <3>1
  <2>3. rank \in Injection(S, places)
    <3> HIDE DEF rank, places
    <3> QED BY <2>2, <1>3 DEF Injection, IsInjective
  <2>4. rank \in Surjection(S, places)
    <3> HIDE DEF rank, places
    <3> QED BY <2>1, <2>3, FS_Injection
  <2>5. \A k \in places : \E x \in S : rank[x] = k
    <3> HIDE DEF rank, places
    <3> QED BY <2>4 DEF Surjection
  <2>6. \A i \in 1 .. n : i - 1 \in places
    <3> HIDE DEF n
    <3> QED BY <1>0
  <2> HIDE DEF rank, places
  <2> QED BY <2>5, <2>6
<1>5. \A i \in 1 .. n : s[i] \in S /\ rank[s[i]] = i - 1
  <2> SUFFICES ASSUME NEW i \in 1 .. n PROVE s[i] \in S /\ rank[s[i]] = i - 1
    OBVIOUS
  <2>1. s[i] = CHOOSE x \in S : Cardinality(below(x)) = i - 1 BY DEF sorted
  <2>2. \E x \in S : Cardinality(below(x)) = i - 1 BY <1>4
  <2>3. s[i] \in S /\ Cardinality(below(s[i])) = i - 1
    <3> HIDE DEF s, below, n
    <3> QED BY <2>1, <2>2
  <2> QED BY <2>3
<1>6. s \in Seq(S) /\ Len(s) = n /\ DOMAIN s = 1 .. n
  <2>1. s = [i \in 1 .. n |-> s[i]] BY DEF sorted
  <2> HIDE DEF s, n, rank
  <2> QED BY <2>1, <1>5, <1>0
<1>7. Range(s) = S
  <2>1. ASSUME NEW x \in S PROVE \E i \in 1 .. n : s[i] = x
    <3> DEFINE i == rank[x] + 1
    <3>1. i \in 1 .. n /\ i - 1 = rank[x]
      <4> HIDE DEF rank, n
      <4> QED BY <1>0, <1>1
    <3>2. s[i] = x
      <4> HIDE DEF rank, n, s, i
      <4> QED BY <3>1, <1>3, <1>5
    <3> HIDE DEF s, i
    <3> QED BY <3>1, <3>2
  <2>2. \A i \in DOMAIN s : s[i] \in S BY <1>5, <1>6
  <2>3. \A x \in S : \E i \in DOMAIN s : s[i] = x BY <2>1, <1>6
  <2> HIDE DEF s, n, rank
  <2> QED BY <2>2, <2>3 DEF Range
<1>8. ASSUME NEW i \in 1 .. n, NEW j \in 1 .. n, i < j PROVE <<s[i], s[j]>> \in before
  <2>1. s[i] \in S /\ s[j] \in S /\ rank[s[i]] = i - 1 /\ rank[s[j]] = j - 1 BY <1>5
  <2>2. s[i] # s[j] /\ ~(rank[s[j]] < rank[s[i]])
    <3> HIDE DEF rank, s, n
    <3> QED BY <2>1, <1>8, <1>0
  <2> HIDE DEF rank, s, n
  <2> QED BY <2>1, <2>2, <1>2
<1>9. \A i, j \in DOMAIN s : i < j => <<s[i], s[j]>> \in before BY <1>6, <1>8
<1> QED BY <1>6, <1>7, <1>9
-----------------------------------------------------------------------------
EventRow ==
  [status : {"absent", "inserted", "committed"}, channel : Channels \cup {None},
   sequence : Nat, occurredAt : 0 .. MaxTime, published : BOOLEAN,
   lockedBy : Workers \cup {None}, lockStale : BOOLEAN, due : BOOLEAN]

Emitted == {e \in Events : outbox[e].status # "absent"}
Committed == {e \in Events : outbox[e].status = "committed"}

\* Emitted events have times of their own, none later than the last.
TimesApart ==
  \A e \in Emitted :
    /\ 0 < outbox[e].occurredAt /\ outbox[e].occurredAt <= now
    /\ \A f \in Emitted : outbox[e].occurredAt = outbox[f].occurredAt => e = f

\* The lock of a channel: an event that is not yet committed is the latest, and
\* the only such one.
OneWriter ==
  \A e, f \in Emitted :
    outbox[e].status = "inserted" /\ f # e /\ outbox[f].channel = outbox[e].channel
      => outbox[f].status = "committed" /\ outbox[f].occurredAt < outbox[e].occurredAt

\* The events of the channel up to e.
UpTo(e) ==
  {f \in Emitted : /\ outbox[f].channel = outbox[e].channel
                   /\ outbox[f].occurredAt <= outbox[e].occurredAt}

\* Which the number of an event counts.
NumbersCount == \A e \in Emitted : outbox[e].sequence = Cardinality(UpTo(e))

\* What holds of the database: the outbox, its clock and the batches.
DatabaseInv ==
  /\ now \in 0 .. MaxTime
  /\ outbox \in [Events -> EventRow]
  /\ IsFiniteSet(Emitted)
  /\ TimesApart
  /\ OneWriter
  /\ NumbersCount
  /\ batch \in [Workers -> SUBSET Committed]

\* And of the stream and the subscriber.
SubscriberInv ==
  /\ stream \subseteq Committed
  /\ overtaken \subseteq stream
  /\ received \subseteq stream
  /\ DOMAIN answers = Polls
  /\ \A p \in Polls : answers[p] \in Seq(stream)
  /\ cursor \in 0 .. MaxTime
  /\ faults \in 0 .. MaxFaults

RowsInv == DatabaseInv /\ SubscriberInv

\* The invariant has the types.
LEMMA RowsAreTyped == RowsInv => StreamTypeOK
<1> SUFFICES ASSUME RowsInv PROVE StreamTypeOK OBVIOUS
<1>1. batch \in [Workers -> SUBSET Events] BY DEF RowsInv, DatabaseInv, Committed
<1> QED BY <1>1 DEF RowsInv, DatabaseInv, SubscriberInv, StreamTypeOK, EventRow, Committed

\* A time cut to its millisecond.
LEMMA CutTime ==
  ASSUME NEW t \in Nat
  PROVE  toISOString(t) \in Nat /\ toISOString(t) <= t
<1>1. TicksPerMs \in Nat /\ TicksPerMs > 0 BY TimesAreNatural
<1>2. t % TicksPerMs \in Nat BY <1>1
<1>3. t % TicksPerMs <= t
  <2>1. t = TicksPerMs * (t \div TicksPerMs) + (t % TicksPerMs) BY <1>1
  <2>2. t \div TicksPerMs \in Nat BY <1>1
  <2>3. TicksPerMs * (t \div TicksPerMs) \in Nat BY <1>1, <2>2
  <2> QED BY <1>2, <2>1, <2>3
<1> QED BY <1>2, <1>3 DEF toISOString

\* The largest of finitely many natural numbers and 0.
LEMMA LargestNumber ==
  ASSUME NEW S \in SUBSET Nat, IsFiniteSet(S)
  PROVE  Max({0} \cup S) \in Nat /\ \A n \in S : n <= Max({0} \cup S)
<1>1. IsFiniteSet({0} \cup S) BY FS_Singleton, FS_Union
<1>2. \E m \in {0} \cup S : \A n \in {0} \cup S : n <= m BY <1>1, LargestExists
<1>3. Max({0} \cup S) \in {0} \cup S /\ \A n \in {0} \cup S : n <= Max({0} \cup S)
  BY <1>2 DEF Max
<1>4. \A n \in {0} \cup S : n \in Nat OBVIOUS
<1> QED BY <1>3, <1>4

\* So are the numbers of finitely many events.
LEMMA FinitelyManyNumbers ==
  ASSUME NEW F, IsFiniteSet(F)
  PROVE  IsFiniteSet({outbox[e].sequence : e \in F})
<1> DEFINE numbers == {outbox[e].sequence : e \in F}
           number == [e \in F |-> outbox[e].sequence]
<1>1. number \in Surjection(F, numbers) BY DEF Surjection
<1> HIDE DEF number
<1> QED BY <1>1, FS_Surjection

\* A page of the stream has the events after a time, in order.
LEMMA PageInOrder ==
  ASSUME RowsInv, NEW time
  PROVE  /\ page(time) \in Seq(stream)
         /\ Range(page(time)) = rowsAfter(time)
         /\ \A i, j \in DOMAIN page(time) :
              i < j => outbox[page(time)[i]].occurredAt < outbox[page(time)[j]].occurredAt
<1> DEFINE S == rowsAfter(time)
           before == {r \in stream \X stream :
                        outbox[r[1]].occurredAt < outbox[r[2]].occurredAt}
<1>1. S \in SUBSET stream /\ stream \in SUBSET Emitted
  BY DEF rowsAfter, RowsInv, SubscriberInv, Committed, Emitted
<1>2. IsFiniteSet(S)
  <2>1. IsFiniteSet(Emitted) BY DEF RowsInv, DatabaseInv
  <2>2. S \in SUBSET Emitted BY <1>1
  <2> HIDE DEF S
  <2> QED BY <2>1, <2>2, FS_Subset
<1>3. \A x \in stream : outbox[x].occurredAt \in Nat
  BY <1>1 DEF RowsInv, DatabaseInv, EventRow, Emitted
<1>4. \A x, y \in S : <<x, y>> \in before <=> outbox[x].occurredAt < outbox[y].occurredAt
  <2> HIDE DEF S
  <2> QED BY <1>1
<1>5. \A x, y \in S : outbox[x].occurredAt \in Nat /\
          (x # y => outbox[x].occurredAt # outbox[y].occurredAt)
  <2> HIDE DEF S
  <2> QED BY <1>1, <1>3 DEF RowsInv, DatabaseInv, TimesApart
<1>6. LET s == sorted(S, before) IN
      /\ s \in Seq(S) /\ Len(s) = Cardinality(S)
      /\ Range(s) = S
      /\ \A i, j \in DOMAIN s : i < j => <<s[i], s[j]>> \in before
  <2> HIDE DEF S, before
  <2>1. \A x \in S : <<x, x>> \notin before BY <1>4, <1>5
  <2>2. \A x, y, z \in S : <<x, y>> \in before /\ <<y, z>> \in before => <<x, z>> \in before
    BY <1>4, <1>5
  <2>3. \A x, y \in S : x # y => <<x, y>> \in before \/ <<y, x>> \in before
    BY <1>4, <1>5
  <2> QED BY <1>2, <2>1, <2>2, <2>3, SortedInOrder
<1>7. page(time) = sorted(S, before) BY DEF page
<1>8. page(time) \in Seq(stream)
  <2> HIDE DEF S, before
  <2> QED BY <1>1, <1>6, <1>7
<1>9. ASSUME NEW i \in DOMAIN page(time), NEW j \in DOMAIN page(time), i < j
      PROVE  outbox[page(time)[i]].occurredAt < outbox[page(time)[j]].occurredAt
  <2>1. page(time)[i] \in S /\ page(time)[j] \in S
    <3> HIDE DEF S, before
    <3> QED BY <1>6, <1>7
  <2>2. <<page(time)[i], page(time)[j]>> \in before
    <3> HIDE DEF S, before
    <3> QED BY <1>6, <1>7, <1>9
  <2> HIDE DEF S, before
  <2> QED BY <2>1, <2>2, <1>4
<1>10. Range(page(time)) = S
  <2> HIDE DEF S, before
  <2> QED BY <1>6, <1>7
<1> QED BY <1>8, <1>9, <1>10
-----------------------------------------------------------------------------
(* Rows.                                                                   *)

\* An emitted row has the types of its columns.
LEMMA NewRow ==
  ASSUME NEW channel \in Channels, NEW time \in 0 .. MaxTime, NEW number \in Nat
  PROVE  [NoRow EXCEPT !.status = "inserted", !.channel = channel,
                       !.occurredAt = time, !.sequence = 1 + number] \in EventRow
<1>1. 1 + number \in Nat OBVIOUS
<1> QED BY <1>1 DEF EventRow, NoRow

\* Claims, results and attempts leave the type of a row and what was emitted.
SameEvent(r, s) == /\ s.status = r.status /\ s.occurredAt = r.occurredAt
                   /\ s.channel = r.channel /\ s.sequence = r.sequence

SameRow(r, s) == s \in EventRow /\ SameEvent(r, s)

\* The steps of a worker and the time leave a row the row of its event.
LEMMA ChangedRow ==
  ASSUME NEW r \in EventRow
  PROVE  /\ SameRow(r, r)
         /\ \A w \in Workers : SameRow(r, [r EXCEPT !.lockedBy = w, !.lockStale = FALSE])
         /\ SameRow(r, [r EXCEPT !.published = TRUE, !.lockedBy = None, !.lockStale = FALSE])
         /\ SameRow(r, [r EXCEPT !.due = FALSE, !.lockedBy = None, !.lockStale = FALSE])
         /\ SameRow(r, [r EXCEPT !.lockStale = TRUE])
         /\ SameRow(r, [r EXCEPT !.due = TRUE])
<1>1. /\ r.status \in {"absent", "inserted", "committed"}
      /\ r.channel \in Channels \cup {None} /\ r.sequence \in Nat
      /\ r.occurredAt \in 0 .. MaxTime /\ r.published \in BOOLEAN
      /\ r.lockedBy \in Workers \cup {None} /\ r.lockStale \in BOOLEAN /\ r.due \in BOOLEAN
  BY DEF EventRow
<1> QED BY <1>1 DEF EventRow, SameRow, SameEvent

\* When they do so for every row, the outbox keeps its events.
LEMMA ChangedRows ==
  ASSUME RowsInv, outbox' = [e \in Events |-> outbox'[e]],
         \A e \in Events : SameRow(outbox[e], outbox'[e])
  PROVE  /\ outbox' \in [Events -> EventRow]
         /\ \A e \in Events : SameEvent(outbox[e], outbox'[e])
<1> QED BY DEF SameRow

\* Rows may change in what other replicas and attempts see of them.
LEMMA SameEvents ==
  ASSUME RowsInv, now' = now, outbox' \in [Events -> EventRow],
         \A e \in Events : SameEvent(outbox[e], outbox'[e]),
         batch' \in [Workers -> SUBSET Committed]
  PROVE  DatabaseInv' /\ Committed' = Committed
<1>1. Committed' = Committed /\ Emitted' = Emitted BY DEF Committed, Emitted, SameEvent
<1>2. TimesApart'
  <2>1. TimesApart BY DEF RowsInv, DatabaseInv
  <2>2. \A e \in Emitted : outbox'[e].occurredAt = outbox[e].occurredAt
    BY DEF Emitted, SameEvent
  <2> QED BY <1>1, <2>1, <2>2 DEF TimesApart
<1>3. OneWriter'
  <2>1. OneWriter BY DEF RowsInv, DatabaseInv
  <2>2. \A e \in Emitted : SameEvent(outbox[e], outbox'[e]) BY DEF Emitted
  <2> QED BY <1>1, <2>1, <2>2 DEF OneWriter, SameEvent
<1>4. NumbersCount'
  <2>1. NumbersCount BY DEF RowsInv, DatabaseInv
  <2>2. \A e \in Emitted : SameEvent(outbox[e], outbox'[e]) BY DEF Emitted
  <2>3. \A e \in Emitted : UpTo(e)' = UpTo(e) BY <1>1, <2>2 DEF UpTo, SameEvent
  <2> QED BY <1>1, <2>1, <2>2, <2>3 DEF NumbersCount, SameEvent
<1> QED BY <1>1, <1>2, <1>3, <1>4 DEF RowsInv, DatabaseInv

\* The largest number of a channel counts its events.
LEMMA LargestNumberCounts ==
  ASSUME DatabaseInv, NEW channel \in Channels, AllCommitted(RowsIn(channel))
  PROVE  LET rows == {f \in RowsIn(channel) : outbox[f].status = "committed"} IN
         /\ Max({0} \cup {outbox[e].sequence : e \in rows}) = Cardinality(rows)
         /\ rows = {f \in Emitted : outbox[f].channel = channel}
         /\ IsFiniteSet(rows)
<1> DEFINE rows == {f \in RowsIn(channel) : outbox[f].status = "committed"}
           numbers == {outbox[e].sequence : e \in rows}
<1>1. rows = {f \in Emitted : outbox[f].channel = channel}
  BY DEF RowsIn, AllCommitted, Emitted
<1>2. IsFiniteSet(rows)
  <2>1. rows \in SUBSET Emitted BY <1>1
  <2> HIDE DEF rows
  <2> QED BY <2>1, FS_Subset DEF DatabaseInv
<1>3. Max({0} \cup numbers) \in {0} \cup numbers
      /\ \A n \in {0} \cup numbers : n <= Max({0} \cup numbers)
  <2>1. IsFiniteSet(numbers)
    <3> HIDE DEF rows
    <3> QED BY <1>2, FinitelyManyNumbers
  <2>2. numbers \in SUBSET Nat BY DEF DatabaseInv, EventRow, RowsIn
  <2> HIDE DEF numbers
  <2>3. IsFiniteSet({0} \cup numbers) BY <2>1, FS_Singleton, FS_Union
  <2>4. \E m \in {0} \cup numbers : \A n \in {0} \cup numbers : n <= m
    BY <2>2, <2>3, LargestExists
  <2> QED BY <2>4 DEF Max
<1>4. Cardinality(rows) \in Nat BY <1>2, FS_CardinalityType
<1>5. \A e \in rows : outbox[e].sequence <= Cardinality(rows) /\ outbox[e].sequence \in Nat
  <2> SUFFICES ASSUME NEW e \in rows
               PROVE  outbox[e].sequence <= Cardinality(rows) /\ outbox[e].sequence \in Nat
    OBVIOUS
  <2>1. e \in Emitted /\ UpTo(e) \in SUBSET rows BY <1>1 DEF UpTo
  <2>2. outbox[e].sequence = Cardinality(UpTo(e)) BY <2>1 DEF DatabaseInv, NumbersCount
  <2> HIDE DEF rows
  <2> QED BY <1>2, <2>1, <2>2, FS_Subset, FS_CardinalityType
<1>6. rows # {} => \E e \in rows : outbox[e].sequence = Cardinality(rows)
  <2> SUFFICES ASSUME rows # {} PROVE \E e \in rows : outbox[e].sequence = Cardinality(rows)
    OBVIOUS
  <2> DEFINE times == {outbox[e].occurredAt : e \in rows}
             time == [e \in rows |-> outbox[e].occurredAt]
  <2>1. IsFiniteSet(times)
    <3>1. time \in Surjection(rows, times) BY DEF Surjection
    <3> HIDE DEF time, rows
    <3> QED BY <1>2, <3>1, FS_Surjection
  <2>2. times \in SUBSET Int /\ times # {} BY DEF DatabaseInv, EventRow, RowsIn
  <2>3. PICK t \in times : \A u \in times : u <= t
    <3> HIDE DEF times
    <3> QED BY <2>1, <2>2, LargestExists
  <2>4. PICK e \in rows : \A f \in rows : outbox[f].occurredAt <= outbox[e].occurredAt
    BY <2>3
  <2>5. e \in Emitted /\ UpTo(e) = rows BY <1>1, <2>4 DEF UpTo
  <2> QED BY <2>5 DEF DatabaseInv, NumbersCount
<1>7. Max({0} \cup numbers) = Cardinality(rows)
  <2>1. CASE rows = {}
    <3>1. numbers = {} BY <2>1
    <3>2. Cardinality(rows) = 0 BY <2>1, FS_EmptySet
    <3> HIDE DEF numbers, rows
    <3> QED BY <1>3, <3>1, <3>2
  <2>2. CASE rows # {}
    <3>1. Cardinality(rows) \in numbers BY <1>6, <2>2
    <3>2. \A n \in numbers : n <= Cardinality(rows) /\ n \in Nat BY <1>5
    <3> HIDE DEF numbers, rows
    <3> QED BY <1>3, <1>4, <3>1, <3>2
  <2> QED BY <2>1, <2>2
<1> HIDE DEF rows
<1> QED BY <1>1, <1>2, <1>7 DEF rows

\* An insertion takes the next number of its channel and the latest time.
LEMMA InsertKeepsRows ==
  ASSUME RowsInv, NEW event \in Events, NEW channel \in Channels, emitOutbox(event, channel)
  PROVE  RowsInv'
<1> DEFINE rows == {f \in RowsIn(channel) : outbox[f].status = "committed"}
           numbers == {outbox[e].sequence : e \in rows}
<1>1. PICK time \in now + 1 .. MaxTime :
        /\ now' = time
        /\ outbox' = [outbox EXCEPT ![event] =
              [NoRow EXCEPT !.status = "inserted", !.channel = channel,
                            !.occurredAt = time, !.sequence = 1 + Max({0} \cup numbers)]]
  BY DEF emitOutbox, insertEvent
<1>2. DatabaseInv BY DEF RowsInv
<1>3. Max({0} \cup numbers) \in Nat
  <2>1. rows \in SUBSET Emitted BY DEF RowsIn, Emitted
  <2>2. IsFiniteSet(rows) BY <1>2, <2>1, FS_Subset DEF DatabaseInv
  <2>3. IsFiniteSet(numbers)
    <3> HIDE DEF rows
    <3> QED BY <2>2, FinitelyManyNumbers
  <2>4. numbers \in SUBSET Nat BY <1>2 DEF DatabaseInv, EventRow, RowsIn
  <2> HIDE DEF numbers
  <2> QED BY <2>3, <2>4, LargestNumber
<1> HIDE DEF numbers
<1>4. outbox[event].status = "absent" BY DEF emitOutbox, insertEvent
<1>5. now \in Nat /\ MaxTime \in Nat /\ time \in 0 .. MaxTime /\ now < time
  BY <1>2, TimesAreNatural DEF DatabaseInv
<1>6. outbox' \in [Events -> EventRow]
  <2> DEFINE number == Max({0} \cup numbers)
             row == [NoRow EXCEPT !.status = "inserted", !.channel = channel,
                                  !.occurredAt = time, !.sequence = 1 + number]
  <2>1. number \in Nat BY <1>3
  <2>2. outbox' = [outbox EXCEPT ![event] = row] BY <1>1
  <2> HIDE DEF number
  <2>3. row \in EventRow BY <1>5, <2>1, NewRow
  <2> HIDE DEF row
  <2> QED BY <1>2, <2>2, <2>3 DEF DatabaseInv
<1>7. /\ outbox'[event].status = "inserted" /\ outbox'[event].occurredAt = time
      /\ \A e \in Events \ {event} : outbox'[e] = outbox[e]
  BY <1>1, <1>2 DEF DatabaseInv, NoRow
<1>8. Emitted' = Emitted \cup {event} /\ Committed' = Committed
  BY <1>4, <1>7 DEF Emitted, Committed
<1>9. IsFiniteSet(Emitted') BY <1>2, <1>8, FS_AddElement DEF DatabaseInv
<1>10. TimesApart'
  <2>1. \A e \in Emitted : outbox'[e] = outbox[e] BY <1>4, <1>7 DEF Emitted
  <2>2. \A e \in Emitted : outbox[e].occurredAt \in Nat
    BY <1>2 DEF DatabaseInv, Emitted, EventRow
  <2> QED BY <1>1, <1>2, <1>5, <1>7, <1>8, <2>1, <2>2 DEF DatabaseInv, TimesApart
<1>11. \A e \in Emitted : e # event /\ outbox'[e] = outbox[e]
                            /\ outbox[e].occurredAt \in Nat /\ outbox[e].occurredAt < time
  <2>1. \A e \in Emitted : outbox[e].occurredAt \in Nat /\ outbox[e].occurredAt <= now
    BY <1>2 DEF DatabaseInv, Emitted, EventRow, TimesApart
  <2> QED BY <1>4, <1>5, <1>7, <2>1 DEF Emitted
<1>12. rows = {f \in Emitted : outbox[f].channel = channel} /\ IsFiniteSet(rows)
       /\ Max({0} \cup numbers) = Cardinality(rows)
  BY <1>2, LargestNumberCounts DEF emitOutbox, numbers
<1>13. /\ outbox'[event].channel = channel
       /\ outbox'[event].sequence = 1 + Cardinality(rows)
  <2> HIDE DEF rows
  <2> QED BY <1>1, <1>2, <1>12 DEF DatabaseInv, NoRow
<1>14. OneWriter'
  <2>1. \A e \in Emitted : outbox[e].channel = channel => outbox[e].status = "committed"
    BY <1>12
  <2>2. OneWriter BY <1>2 DEF DatabaseInv
  <2> HIDE DEF rows
  <2> QED BY <1>7, <1>8, <1>11, <1>13, <2>1, <2>2 DEF OneWriter
<1>15. NumbersCount'
  <2>1. \A e \in Emitted : UpTo(e)' = UpTo(e)
    BY <1>7, <1>8, <1>11 DEF UpTo
  <2>2. UpTo(event)' = rows \cup {event}
    <3> HIDE DEF rows
    <3> QED BY <1>5, <1>7, <1>8, <1>11, <1>12, <1>13 DEF UpTo
  <2>3. Cardinality(UpTo(event)') = 1 + Cardinality(rows)
    <3>1. event \notin rows BY <1>11, <1>12
    <3> HIDE DEF rows
    <3> QED BY <1>12, <2>2, <3>1, FS_AddElement, FS_CardinalityType
  <2> HIDE DEF rows
  <2> QED BY <1>2, <1>8, <1>11, <1>13, <2>1, <2>3 DEF NumbersCount, DatabaseInv
<1>16. DatabaseInv'
  <2>1. batch' = batch BY DEF emitOutbox, insertEvent
  <2> QED BY <1>1, <1>2, <1>5, <1>6, <1>8, <1>9, <1>10, <1>14, <1>15, <2>1 DEF DatabaseInv
<1>17. SubscriberInv'
  BY <1>8 DEF RowsInv, SubscriberInv, emitOutbox, insertEvent, socketVars
<1> QED BY <1>16, <1>17 DEF RowsInv

\* A transaction that ends commits its row or takes it back.
LEMMA EndKeepsRows ==
  ASSUME RowsInv, NEW event \in Events, endTransaction(event)
  PROVE  RowsInv'
<1>1. DatabaseInv BY DEF RowsInv
<1>2. outbox[event].status = "inserted" BY DEF endTransaction
<1>3. outbox' \in [Events -> EventRow]
  <2>1. NoRow \in EventRow BY TimesAreNatural DEF NoRow, EventRow
  <2> QED BY <1>1, <2>1 DEF endTransaction, DatabaseInv, EventRow
<1>4. \A e \in Events \ {event} : outbox'[e] = outbox[e]
  BY <1>1 DEF endTransaction, DatabaseInv
<1>5. \/ outbox'[event].status = "absent"
      \/ outbox'[event] = [outbox[event] EXCEPT !.status = "committed"]
  BY <1>1 DEF endTransaction, DatabaseInv, NoRow
<1>6. Emitted' \in SUBSET Emitted /\ Committed \in SUBSET Committed'
  BY <1>2, <1>4 DEF Emitted, Committed
<1>7. ASSUME NEW e \in Emitted'
       PROVE  /\ outbox'[e].occurredAt = outbox[e].occurredAt
              /\ outbox'[e].channel = outbox[e].channel
              /\ outbox'[e].sequence = outbox[e].sequence
              /\ e # event => outbox'[e].status = outbox[e].status
              /\ e = event => outbox'[e].status = "committed"
  BY <1>1, <1>4, <1>5 DEF Emitted, DatabaseInv, EventRow
<1>8. TimesApart'
  <2>1. now' = now BY DEF endTransaction
  <2> QED BY <1>1, <1>6, <1>7, <2>1 DEF DatabaseInv, TimesApart
<1>9. OneWriter'
  <2>1. OneWriter BY <1>1 DEF DatabaseInv
  <2> QED BY <1>6, <1>7, <2>1 DEF OneWriter
<1>10. NumbersCount'
  <2>1. ASSUME NEW e \in Emitted' PROVE UpTo(e)' = UpTo(e)
    <3>1. event \in Emitted' \/ event \notin UpTo(e)
      <4>1. CASE e = event BY <4>1
      <4>2. CASE e # event
        <5>1. event \in Emitted /\ e \in Emitted BY <1>2, <1>6 DEF Emitted
        <5>2. outbox[event].channel = outbox[e].channel
                => outbox[e].occurredAt < outbox[event].occurredAt
          BY <1>1, <1>2, <4>2, <5>1 DEF DatabaseInv, OneWriter
        <5>3. outbox[e].occurredAt \in Nat /\ outbox[event].occurredAt \in Nat
          BY <1>1, <5>1 DEF DatabaseInv, EventRow, Emitted
        <5> QED BY <5>2, <5>3 DEF UpTo
      <4> QED BY <4>1, <4>2
    <3>2. \A f \in Emitted : f \in Emitted' \/ f = event BY <1>4 DEF Emitted
    <3> QED BY <1>6, <1>7, <2>1, <3>1, <3>2 DEF UpTo
  <2>2. NumbersCount BY <1>1 DEF DatabaseInv
  <2> QED BY <1>6, <1>7, <2>1, <2>2 DEF NumbersCount
<1>11. DatabaseInv'
  <2>1. batch' = batch /\ now' = now BY DEF endTransaction
  <2>2. IsFiniteSet(Emitted') BY <1>1, <1>6, FS_Subset DEF DatabaseInv
  <2> QED BY <1>1, <1>3, <1>6, <1>8, <1>9, <1>10, <2>1, <2>2 DEF DatabaseInv
<1>12. SubscriberInv'
  BY <1>6 DEF RowsInv, SubscriberInv, endTransaction, socketVars
<1> QED BY <1>11, <1>12 DEF RowsInv

\* What a worker claims, sends and marks are committed events.
LEMMA WorkerKeepsRows ==
  ASSUME RowsInv, NEW w \in Workers, workerStep(w)
  PROVE  RowsInv'
<1>1. DatabaseInv /\ SubscriberInv BY DEF RowsInv
<1>2. CASE claimEvents(w)
  <2>1. outbox' \in [Events -> EventRow] /\
        \A e \in Events : SameEvent(outbox[e], outbox'[e])
    BY <1>1, <1>2, ChangedRow, ChangedRows DEF claimEvents, DatabaseInv
  <2>2. batch' \in [Workers -> SUBSET Committed]
    BY <1>1, <1>2 DEF claimEvents, DatabaseInv, Claimable, Committed
  <2>3. DatabaseInv' /\ Committed' = Committed
    BY <1>2, <2>1, <2>2, SameEvents DEF claimEvents
  <2>4. SubscriberInv' BY <1>1, <1>2, <2>3 DEF SubscriberInv, claimEvents, socketVars
  <2> QED BY <2>3, <2>4 DEF RowsInv
<1>3. ASSUME NEW e \in Events, publishEvent(w, e) PROVE RowsInv'
  <2>1. outbox' \in [Events -> EventRow] /\
        \A f \in Events : SameEvent(outbox[f], outbox'[f])
    <3>1. \A f \in Events : SameRow(outbox[f], outbox'[f])
      BY <1>1, <1>3, ChangedRow DEF publishEvent, DatabaseInv
    <3>2. outbox' = [f \in Events |-> outbox'[f]] BY <1>1, <1>3 DEF publishEvent, DatabaseInv
    <3> QED BY <3>1, <3>2, ChangedRows
  <2>2. batch' \in [Workers -> SUBSET Committed] /\ e \in Committed
    BY <1>1, <1>3 DEF publishEvent, DatabaseInv
  <2>3. DatabaseInv' /\ Committed' = Committed
    BY <1>3, <2>1, <2>2, SameEvents DEF publishEvent
  <2>4. stream \in SUBSET stream' /\ stream' \in SUBSET Committed
        /\ overtaken' \in SUBSET stream'
    BY <1>1, <1>3, <2>2 DEF publishEvent, SubscriberInv
  <2>5. \A p \in Polls : answers[p] \in Seq(stream') BY <1>1, <2>4 DEF SubscriberInv
  <2>6. SubscriberInv'
    BY <1>1, <1>3, <2>3, <2>4, <2>5 DEF SubscriberInv, publishEvent, socketVars
  <2> QED BY <2>3, <2>6 DEF RowsInv
<1>4. ASSUME NEW e \in Events, failEvent(w, e) PROVE RowsInv'
  <2>1. outbox' \in [Events -> EventRow] /\
        \A f \in Events : SameEvent(outbox[f], outbox'[f])
    <3>1. \A f \in Events : SameRow(outbox[f], outbox'[f])
      BY <1>1, <1>4, ChangedRow DEF failEvent, DatabaseInv
    <3>2. outbox' = [f \in Events |-> outbox'[f]] BY <1>1, <1>4 DEF failEvent, DatabaseInv
    <3> QED BY <3>1, <3>2, ChangedRows
  <2>2. batch' \in [Workers -> SUBSET Committed]
    BY <1>1, <1>4 DEF failEvent, DatabaseInv
  <2>3. DatabaseInv' /\ Committed' = Committed
    BY <1>4, <2>1, <2>2, SameEvents DEF failEvent
  <2>4. SubscriberInv'
    BY <1>1, <1>4, <2>3, TimesAreNatural DEF SubscriberInv, failEvent, fault, socketVars
  <2> QED BY <2>3, <2>4 DEF RowsInv
<1>5. CASE crashWorker(w)
  <2>1. batch' \in [Workers -> SUBSET Committed]
    BY <1>1, <1>5 DEF crashWorker, DatabaseInv
  <2>2. DatabaseInv' /\ Committed' = Committed
    BY <1>1, <1>5, <2>1, SameEvents DEF crashWorker, DatabaseInv, SameEvent
  <2>3. SubscriberInv'
    BY <1>1, <1>5, <2>2, TimesAreNatural DEF SubscriberInv, crashWorker, fault, socketVars
  <2> QED BY <2>2, <2>3 DEF RowsInv
<1> QED BY <1>2, <1>3, <1>4, <1>5 DEF workerStep

\* Locks that expire and retries that are due change no event.
LEMMA TimeKeepsRows ==
  ASSUME RowsInv, NEW e \in Events, lockExpires(e) \/ nextAttemptDue(e)
  PROVE  RowsInv'
<1>1. DatabaseInv /\ SubscriberInv BY DEF RowsInv
<1>2. outbox' \in [Events -> EventRow] /\
      \A f \in Events : SameEvent(outbox[f], outbox'[f])
  <2>1. \A f \in Events : SameRow(outbox[f], outbox'[f])
    BY <1>1, ChangedRow DEF lockExpires, nextAttemptDue, DatabaseInv
  <2>2. outbox' = [f \in Events |-> outbox'[f]]
    BY <1>1 DEF lockExpires, nextAttemptDue, DatabaseInv
  <2> QED BY <2>1, <2>2, ChangedRows
<1>3. now' = now /\ batch' = batch BY DEF lockExpires, nextAttemptDue
<1>4. DatabaseInv' /\ Committed' = Committed BY <1>1, <1>2, <1>3, SameEvents DEF DatabaseInv
<1>5. faults' \in 0 .. MaxFaults
  BY <1>1, TimesAreNatural DEF lockExpires, nextAttemptDue, fault, SubscriberInv
<1>6. SubscriberInv'
  BY <1>1, <1>4, <1>5 DEF SubscriberInv, lockExpires, nextAttemptDue, socketVars
<1> QED BY <1>4, <1>6 DEF RowsInv

\* A poll and its answer touch nothing of the database.
LEMMA SubscriberKeepsRows ==
  ASSUME RowsInv, NEW p \in Polls, sendEvents(p) \/ sendRows(p) \/ reconnect(p)
  PROVE  RowsInv'
<1>1. DatabaseInv /\ SubscriberInv BY DEF RowsInv
<1>2. UNCHANGED <<now, outbox, stream, overtaken, batch>>
  BY DEF sendEvents, sendRows, reconnect
<1>3. DatabaseInv' /\ Committed' = Committed
  BY <1>1, <1>2 DEF DatabaseInv, TimesApart, OneWriter, NumbersCount, UpTo, Emitted, Committed
<1>4. answers[p] \in Seq(stream) BY <1>1 DEF SubscriberInv
<1>5. \A e \in stream : toISOString(outbox[e].occurredAt) \in 0 .. MaxTime
  <2> SUFFICES ASSUME NEW e \in stream
               PROVE  toISOString(outbox[e].occurredAt) \in 0 .. MaxTime
    OBVIOUS
  <2>1. outbox[e].occurredAt \in 0 .. MaxTime
    BY <1>1 DEF DatabaseInv, SubscriberInv, Committed, EventRow
  <2> QED BY <2>1, CutTime, TimesAreNatural
<1>6. CASE sendEvents(p)
  <2>1. page(cursor) \in Seq(stream) BY PageInOrder
  <2>2. \A q \in Polls : answers'[q] \in Seq(stream)
    BY <1>1, <1>6, <2>1 DEF sendEvents, SubscriberInv
  <2> QED BY <1>1, <1>2, <1>3, <1>6, <2>2 DEF sendEvents, SubscriberInv, RowsInv
<1>7. CASE sendRows(p)
  <2>1. Range(answers[p]) \in SUBSET stream BY <1>4 DEF Range
  <2>2. answers[p][Len(answers[p])] \in stream BY <1>4, <1>7 DEF sendRows
  <2>3. cursor' \in 0 .. MaxTime BY <1>5, <1>7, <2>2 DEF sendRows
  <2>4. \A q \in Polls : answers'[q] \in Seq(stream) BY <1>1, <1>7 DEF sendRows, SubscriberInv
  <2> QED BY <1>1, <1>2, <1>3, <1>7, <2>1, <2>3, <2>4 DEF sendRows, SubscriberInv, RowsInv
<1>8. CASE reconnect(p)
  <2>1. PICK sent \in 0 .. Len(answers[p]) :
          /\ received' = received \cup Range(SubSeq(answers[p], 1, sent))
          /\ cursor' \in IF sent > 0
                         THEN {toISOString(outbox[answers[p][sent]].occurredAt)}
                         ELSE {0, cursor}
    BY <1>8 DEF reconnect
  <2>2. Range(SubSeq(answers[p], 1, sent)) \in SUBSET stream
    <3>1. SubSeq(answers[p], 1, sent) \in Seq(stream) BY <1>4
    <3> QED BY <3>1 DEF Range
  <2>3. sent > 0 => answers[p][sent] \in stream BY <1>4
  <2>4. cursor' \in 0 .. MaxTime BY <1>1, <1>5, <2>1, <2>3, TimesAreNatural DEF SubscriberInv
  <2>5. \A q \in Polls : answers'[q] \in Seq(stream) BY <1>8 DEF reconnect
  <2>6. faults' \in 0 .. MaxFaults
    BY <1>1, <1>8, TimesAreNatural DEF reconnect, fault, SubscriberInv
  <2>7. DOMAIN answers' = Polls BY <1>8 DEF reconnect
  <2> QED BY <1>1, <1>2, <1>3, <2>1, <2>2, <2>4, <2>5, <2>6, <2>7 DEF SubscriberInv, RowsInv
<1> QED BY <1>6, <1>7, <1>8

\* So every step keeps the rows.
LEMMA RowsStep ==
  ASSUME RowsInv, [StreamNext]_streamVars
  PROVE  RowsInv'
<1>1. CASE UNCHANGED streamVars
  BY <1>1 DEF streamVars, RowsInv, DatabaseInv, SubscriberInv, TimesApart, OneWriter,
                NumbersCount, UpTo, Emitted, Committed
<1>2. CASE StreamNext
  BY <1>2, InsertKeepsRows, EndKeepsRows, WorkerKeepsRows, TimeKeepsRows, SubscriberKeepsRows
  DEF StreamNext
<1> QED BY <1>1, <1>2

\* They are so at the start.
LEMMA RowsStart == StreamInit => RowsInv
<1> SUFFICES ASSUME StreamInit PROVE RowsInv OBVIOUS
<1>1. Emitted = {} /\ Committed = {} BY DEF StreamInit, Emitted, Committed, NoRow
<1>2. NoRow \in EventRow BY TimesAreNatural DEF NoRow, EventRow
<1>3. DatabaseInv
  BY <1>1, <1>2, FS_EmptySet, TimesAreNatural
  DEF StreamInit, DatabaseInv, TimesApart, OneWriter, NumbersCount
<1>4. SubscriberInv BY TimesAreNatural DEF StreamInit, SubscriberInv
<1> QED BY <1>3, <1>4 DEF RowsInv
-----------------------------------------------------------------------------
(* The order of the events.                                                *)

\* What the subscriber is still promised.
Awaited == stream \ (received \cup overtaken)

\* e comes after f, even when the time of f is cut to its millisecond.
Follows(e, f) == outbox[e].occurredAt > toISOString(outbox[f].occurredAt)

\* Events that are awaited come after the ones received, and after the ones in
\* an answer they are not in: that answer moves the cursor past the latter only.
AwaitedFollow ==
  \A e \in Awaited :
    /\ \A f \in received : Follows(e, f)
    /\ \A p \in Polls : e \notin Range(answers[p]) => \A f \in Range(answers[p]) : Follows(e, f)

\* Answers are in order, and the cursor is the time of an event, cut.
AnswersInOrder ==
  \A p \in Polls : \A i, j \in DOMAIN answers[p] :
    i < j => outbox[answers[p][i]].occurredAt < outbox[answers[p][j]].occurredAt

CursorIsATime == cursor = 0 \/ \E f \in stream : cursor = toISOString(outbox[f].occurredAt)

OrderInv ==
  /\ OnlyOvertakenIsMissed
  /\ AwaitedFollow
  /\ AnswersInOrder
  /\ CursorIsATime

\* Steps that leave the stream, the answers and the connection alone keep the order.
LEMMA SameStream ==
  ASSUME RowsInv, OrderInv, UNCHANGED <<stream, overtaken, socketVars>>,
         \A e \in stream : outbox'[e].occurredAt = outbox[e].occurredAt
  PROVE  OrderInv'
<1>0. UNCHANGED <<stream, overtaken, cursor, answers, received>> BY DEF socketVars
<1>1. Awaited' = Awaited /\ Awaited \in SUBSET stream BY <1>0 DEF Awaited
<1>2. received \in SUBSET stream BY DEF RowsInv, SubscriberInv
<1>3. ASSUME NEW p \in Polls
      PROVE  /\ Range(answers[p]) \in SUBSET stream
             /\ \A i \in DOMAIN answers[p] : answers[p][i] \in stream
  <2>1. answers[p] \in Seq(stream) BY DEF RowsInv, SubscriberInv
  <2> QED BY <2>1 DEF Range
<1>4. OnlyOvertakenIsMissed' BY <1>0 DEF OrderInv, OnlyOvertakenIsMissed
<1>5. \A e, f \in stream : Follows(e, f) => Follows(e, f)' BY DEF Follows
<1>6. AwaitedFollow' BY <1>0, <1>1, <1>2, <1>3, <1>5 DEF OrderInv, AwaitedFollow
<1>7. AnswersInOrder' BY <1>0, <1>3 DEF OrderInv, AnswersInOrder
<1>8. CursorIsATime' BY <1>0 DEF OrderInv, CursorIsATime
<1> QED BY <1>4, <1>6, <1>7, <1>8 DEF OrderInv

\* An event that the worker did not publish behind a later one follows the stream.
LEMMA PublishKeepsOrder ==
  ASSUME RowsInv, OrderInv, NEW w \in Workers, NEW event \in Events, publishEvent(w, event)
  PROVE  OrderInv'
<1>1. event \in Committed /\ stream \in SUBSET Committed
  BY DEF publishEvent, RowsInv, DatabaseInv, SubscriberInv
<1>2. \A e \in Events : outbox'[e].occurredAt = outbox[e].occurredAt
  BY DEF publishEvent, RowsInv, DatabaseInv, EventRow
<1>3. UNCHANGED <<cursor, answers, received>> BY DEF publishEvent, socketVars
<1>4. /\ \A e \in Awaited' : e \in Awaited \/ (e = event /\ \A f \in stream : Follows(e, f))
      /\ stream \in SUBSET stream'
  <2>1. stream' = stream \cup {event}
        /\ overtaken' = overtaken \cup {e \in {event} \ stream : Overtakes(e)}
    BY DEF publishEvent
  <2>2. \A f \in stream : outbox[f].occurredAt \in Nat /\ outbox[event].occurredAt \in Nat
    BY <1>1 DEF RowsInv, DatabaseInv, EventRow, Committed
  <2>3. \A f \in stream : toISOString(outbox[f].occurredAt) \in Nat BY <2>2, CutTime
  <2>4. ~Overtakes(event) => \A f \in stream : Follows(event, f)
    BY <2>2, <2>3 DEF Overtakes, Follows
  <2> QED BY <1>3, <2>1, <2>4 DEF Awaited
<1>5. ASSUME NEW p \in Polls
      PROVE  /\ Range(answers[p]) \in SUBSET stream
             /\ \A i \in DOMAIN answers[p] : answers[p][i] \in stream
  <2>1. answers[p] \in Seq(stream) BY DEF RowsInv, SubscriberInv
  <2> QED BY <2>1 DEF Range
<1>6. received \in SUBSET stream /\ Awaited \in SUBSET stream
  BY DEF RowsInv, SubscriberInv, Awaited
<1>7. \A e, f \in Committed : Follows(e, f) => Follows(e, f)' BY <1>2 DEF Follows, Committed
<1>8. OnlyOvertakenIsMissed'
  <2>1. ASSUME NEW e \in Awaited' PROVE outbox'[e].occurredAt > cursor'
    <3>1. e \in Committed /\ outbox'[e].occurredAt = outbox[e].occurredAt
      BY <1>1, <1>2, <1>4, <1>6 DEF Committed
    <3>2. CASE e \in Awaited BY <1>3, <3>1, <3>2 DEF OrderInv, OnlyOvertakenIsMissed, Awaited
    <3>3. CASE \A f \in stream : Follows(e, f)
      <4>1. outbox[e].occurredAt > 0
        BY <3>1 DEF RowsInv, DatabaseInv, TimesApart, Committed, Emitted, EventRow
      <4> QED BY <1>3, <3>1, <3>3, <4>1 DEF OrderInv, CursorIsATime, Follows
    <3> QED BY <1>4, <3>2, <3>3
  <2> QED BY <2>1 DEF OnlyOvertakenIsMissed, Awaited
<1>9. AwaitedFollow'
  <2>1. ASSUME NEW e \in Awaited', NEW f \in received' PROVE Follows(e, f)'
    <3>1. e \in Committed /\ f \in Committed BY <1>1, <1>3, <1>4, <1>6
    <3> QED BY <1>3, <1>4, <1>6, <1>7, <2>1, <3>1 DEF OrderInv, AwaitedFollow
  <2>2. ASSUME NEW e \in Awaited', NEW p \in Polls, e \notin Range(answers'[p]),
               NEW f \in Range(answers'[p])
        PROVE  Follows(e, f)'
    <3>1. e \in Committed /\ f \in Committed BY <1>1, <1>3, <1>4, <1>5, <1>6
    <3> QED BY <1>3, <1>4, <1>5, <1>7, <2>2, <3>1 DEF OrderInv, AwaitedFollow
  <2> QED BY <2>1, <2>2 DEF AwaitedFollow
<1>10. AnswersInOrder'
  BY <1>1, <1>2, <1>3, <1>5 DEF OrderInv, AnswersInOrder, Committed
<1>11. CursorIsATime' BY <1>1, <1>2, <1>3, <1>4 DEF OrderInv, CursorIsATime, Committed
<1> QED BY <1>8, <1>9, <1>10, <1>11 DEF OrderInv

\* A page has every awaited event after the cursor: all there are.
LEMMA SendEventsKeepsOrder ==
  ASSUME RowsInv, OrderInv, NEW poll \in Polls, sendEvents(poll)
  PROVE  OrderInv'
<1>1. UNCHANGED <<outbox, stream, overtaken, cursor, received>> BY DEF sendEvents
<1>2. \A p \in Polls : answers'[p] = IF p = poll THEN page(cursor) ELSE answers[p]
  BY DEF sendEvents, RowsInv, SubscriberInv
<1>3. Awaited' = Awaited BY <1>1 DEF Awaited
<1>4. Awaited \in SUBSET Range(page(cursor))
  BY PageInOrder DEF OrderInv, OnlyOvertakenIsMissed, Awaited, rowsAfter
<1>5. OnlyOvertakenIsMissed' BY <1>1 DEF OrderInv, OnlyOvertakenIsMissed
<1>6. \A e, f : Follows(e, f) => Follows(e, f)' BY <1>1 DEF Follows
<1>7. AwaitedFollow' BY <1>1, <1>2, <1>3, <1>4, <1>6 DEF OrderInv, AwaitedFollow
<1>8. AnswersInOrder' BY <1>1, <1>2, PageInOrder DEF OrderInv, AnswersInOrder
<1>9. CursorIsATime' BY <1>1 DEF OrderInv, CursorIsATime
<1> QED BY <1>5, <1>7, <1>8, <1>9 DEF OrderInv

\* The rows that are sent precede what is awaited then, the last one included.
LEMMA SendRowsKeepsOrder ==
  ASSUME RowsInv, OrderInv, NEW poll \in Polls, sendRows(poll)
  PROVE  OrderInv'
<1> DEFINE sent == answers[poll]
<1>1. UNCHANGED <<outbox, stream, overtaken>> /\ received' = received \cup Range(sent)
  BY DEF sendRows
<1>2. \A p \in Polls : answers'[p] = IF p = poll THEN <<>> ELSE answers[p]
  BY DEF sendRows, RowsInv, SubscriberInv
<1>3. Awaited' \in SUBSET Awaited /\ \A e \in Awaited' : e \notin Range(sent)
  BY <1>1 DEF Awaited
<1>4. sent[Len(sent)] \in Range(sent) /\ sent[Len(sent)] \in stream
  <2>1. sent \in Seq(stream) /\ sent # <<>> BY DEF sendRows, RowsInv, SubscriberInv
  <2>2. Len(sent) \in DOMAIN sent BY <2>1
  <2> QED BY <2>1, <2>2 DEF Range
<1>5. cursor' = toISOString(outbox[sent[Len(sent)]].occurredAt) BY DEF sendRows
<1>6. \A e, f : Follows(e, f) => Follows(e, f)' BY <1>1 DEF Follows
<1>7. \A e \in Awaited', f \in Range(sent) : Follows(e, f)
  BY <1>3 DEF OrderInv, AwaitedFollow
<1>8. OnlyOvertakenIsMissed'
  <2>1. \A e \in Awaited' : outbox[e].occurredAt > cursor'
    BY <1>4, <1>5, <1>7 DEF Follows
  <2> QED BY <1>1, <2>1 DEF OnlyOvertakenIsMissed, Awaited
<1>9. AwaitedFollow'
  <2>1. \A e \in Awaited' : \A f \in received' : Follows(e, f)'
    BY <1>1, <1>3, <1>6, <1>7 DEF OrderInv, AwaitedFollow
  <2>2. \A p \in Polls : Range(answers'[p]) # {} => answers'[p] = answers[p]
    BY <1>2 DEF Range
  <2>3. \A e \in Awaited' : \A p \in Polls : e \notin Range(answers'[p]) =>
          \A f \in Range(answers'[p]) : Follows(e, f)'
    BY <1>3, <1>6, <2>2 DEF OrderInv, AwaitedFollow
  <2> QED BY <2>1, <2>3 DEF AwaitedFollow
<1>10. AnswersInOrder' BY <1>1, <1>2 DEF OrderInv, AnswersInOrder
<1>11. CursorIsATime' BY <1>1, <1>4, <1>5 DEF CursorIsATime
<1> QED BY <1>8, <1>9, <1>10, <1>11 DEF OrderInv

\* Of an answer that was sent in part, the rest comes after what was sent.
LEMMA ReconnectKeepsOrder ==
  ASSUME RowsInv, OrderInv, NEW poll \in Polls, reconnect(poll)
  PROVE  OrderInv'
<1> DEFINE rows == answers[poll]
<1>1. UNCHANGED <<outbox, stream, overtaken>> /\ answers' = [p \in Polls |-> <<>>]
  BY DEF reconnect
<1>2. PICK sent \in 0 .. Len(rows) :
        /\ received' = received \cup Range(SubSeq(rows, 1, sent))
        /\ cursor' \in IF sent > 0 THEN {toISOString(outbox[rows[sent]].occurredAt)}
                       ELSE {0, cursor}
  BY DEF reconnect
<1>3. rows \in Seq(stream) BY DEF RowsInv, SubscriberInv
<1>4. Range(SubSeq(rows, 1, sent)) = {rows[i] : i \in 1 .. sent}
  BY <1>3, SMTT(30) DEF Range
<1>5. Awaited' \in SUBSET Awaited /\ \A e \in Awaited' : e \notin Range(SubSeq(rows, 1, sent))
  BY <1>1, <1>2 DEF Awaited
<1>6. \A e \in stream : outbox[e].occurredAt \in Nat /\ outbox[e].occurredAt > 0
  BY DEF RowsInv, DatabaseInv, SubscriberInv, TimesApart, Committed, Emitted, EventRow
<1>7. ASSUME NEW e \in Awaited', NEW i \in 1 .. sent PROVE Follows(e, rows[i])
  <2>1. CASE e \notin Range(rows)
    <3>1. rows[i] \in Range(rows) BY <1>3 DEF Range
    <3> QED BY <1>5, <2>1, <3>1 DEF OrderInv, AwaitedFollow
  <2>2. CASE e \in Range(rows)
    <3>1. PICK j \in DOMAIN rows : e = rows[j] BY <2>2 DEF Range
    <3>2. j > sent BY <1>3, <1>4, <1>5, <3>1
    <3>3. i \in DOMAIN rows /\ i < j BY <1>3, <3>1, <3>2
    <3>4. outbox[rows[i]].occurredAt < outbox[rows[j]].occurredAt
      BY <3>1, <3>3 DEF OrderInv, AnswersInOrder
    <3>5. rows[i] \in stream /\ rows[j] \in stream BY <1>3, <3>1, <3>3
    <3>6. toISOString(outbox[rows[i]].occurredAt) \in Nat
          /\ toISOString(outbox[rows[i]].occurredAt) <= outbox[rows[i]].occurredAt
      BY <1>6, <3>5, CutTime
    <3> QED BY <1>6, <3>1, <3>4, <3>5, <3>6 DEF Follows
  <2> QED BY <2>1, <2>2
<1>8. \A e, f : Follows(e, f) => Follows(e, f)' BY <1>1 DEF Follows
<1>9. OnlyOvertakenIsMissed'
  <2>1. ASSUME NEW e \in Awaited' PROVE outbox[e].occurredAt > cursor'
    <3>1. CASE sent > 0
      <4>1. Follows(e, rows[sent]) BY <1>7, <3>1
      <4> QED BY <1>2, <3>1, <4>1 DEF Follows
    <3>2. CASE sent = 0
      <4>1. e \in Awaited /\ e \in stream BY <1>5 DEF Awaited
      <4>2. outbox[e].occurredAt > cursor BY <4>1 DEF OrderInv, OnlyOvertakenIsMissed, Awaited
      <4> QED BY <1>2, <1>6, <3>2, <4>1, <4>2
    <3> QED BY <3>1, <3>2
  <2> QED BY <1>1, <2>1 DEF OnlyOvertakenIsMissed, Awaited
<1>10. AwaitedFollow'
  <2>1. \A e \in Awaited' : \A f \in received' : Follows(e, f)
    BY <1>2, <1>4, <1>5, <1>7 DEF OrderInv, AwaitedFollow
  <2>2. \A p \in Polls : Range(answers'[p]) = {} BY <1>1 DEF Range
  <2> QED BY <1>8, <2>1, <2>2 DEF AwaitedFollow
<1>11. AnswersInOrder' BY <1>1 DEF AnswersInOrder
<1>12. CursorIsATime'
  <2>1. sent > 0 => rows[sent] \in stream BY <1>3
  <2> QED BY <1>1, <1>2, <2>1 DEF OrderInv, CursorIsATime
<1> QED BY <1>9, <1>10, <1>11, <1>12 DEF OrderInv

\* Every step keeps the order of what is awaited.
LEMMA OrderStep ==
  ASSUME RowsInv, OrderInv, [StreamNext]_streamVars
  PROVE  OrderInv'
<1>1. stream \in SUBSET Events /\ \A e \in stream : outbox[e].status = "committed"
  BY DEF RowsInv, SubscriberInv, Committed
<1>2. CASE UNCHANGED streamVars BY <1>1, <1>2, SameStream DEF streamVars, socketVars
<1>3. ASSUME NEW e \in Events, NEW c \in Channels, emitOutbox(e, c) PROVE OrderInv'
  <2>1. \A f \in stream : outbox'[f].occurredAt = outbox[f].occurredAt
    BY <1>1, <1>3 DEF emitOutbox, insertEvent, RowsInv, DatabaseInv
  <2> QED BY <1>3, <2>1, SameStream DEF emitOutbox, insertEvent
<1>4. ASSUME NEW e \in Events, endTransaction(e) PROVE OrderInv'
  <2>1. \A f \in stream : outbox'[f].occurredAt = outbox[f].occurredAt
    BY <1>1, <1>4 DEF endTransaction, RowsInv, DatabaseInv
  <2> QED BY <1>4, <2>1, SameStream DEF endTransaction
<1>5. ASSUME NEW e \in Events, lockExpires(e) \/ nextAttemptDue(e) PROVE OrderInv'
  <2>1. \A f \in stream : outbox'[f].occurredAt = outbox[f].occurredAt
    BY <1>1, <1>5 DEF lockExpires, nextAttemptDue, RowsInv, DatabaseInv, EventRow
  <2> QED BY <1>5, <2>1, SameStream DEF lockExpires, nextAttemptDue
<1>6. ASSUME NEW w \in Workers, workerStep(w) PROVE OrderInv'
  <2>1. CASE claimEvents(w)
    <3>1. \A f \in stream : outbox'[f].occurredAt = outbox[f].occurredAt
      BY <1>1, <2>1 DEF claimEvents, RowsInv, DatabaseInv, EventRow
    <3> QED BY <2>1, <3>1, SameStream DEF claimEvents
  <2>2. ASSUME NEW e \in Events, failEvent(w, e) PROVE OrderInv'
    <3>1. \A f \in stream : outbox'[f].occurredAt = outbox[f].occurredAt
      BY <1>1, <2>2 DEF failEvent, RowsInv, DatabaseInv, EventRow
    <3> QED BY <2>2, <3>1, SameStream DEF failEvent
  <2>3. CASE crashWorker(w) BY <2>3, SameStream DEF crashWorker
  <2> QED BY <1>6, <2>1, <2>2, <2>3, PublishKeepsOrder DEF workerStep
<1> QED
  BY <1>2, <1>3, <1>4, <1>5, <1>6, SendEventsKeepsOrder, SendRowsKeepsOrder,
     ReconnectKeepsOrder
  DEF StreamNext

\* Nothing is awaited at the start.
LEMMA OrderStart == StreamInit => OrderInv
<1> SUFFICES ASSUME StreamInit PROVE OrderInv OBVIOUS
<1>1. stream = {} /\ cursor = 0 /\ \A p \in Polls : answers[p] = <<>> BY DEF StreamInit
<1>2. Awaited = {} BY <1>1 DEF Awaited
<1> QED BY <1>1, <1>2
        DEF OrderInv, OnlyOvertakenIsMissed, AwaitedFollow, AnswersInOrder, CursorIsATime
-----------------------------------------------------------------------------

\* What the theorems about the stream rest on: the rows of the outbox, one writer a
\* channel, and the order of cursor, pages and awaited events.
THEOREM StreamInvariant == StreamSpec => [](RowsInv /\ OrderInv)
<1>1. StreamInit => RowsInv /\ OrderInv BY RowsStart, OrderStart
<1>2. RowsInv /\ OrderInv /\ [StreamNext]_streamVars => RowsInv' /\ OrderInv'
  BY RowsStep, OrderStep
<1> QED BY <1>1, <1>2, PTL DEF StreamSpec

\* Outbox, stream, pages and cursor keep their types, for any events, channels, workers,
\* polls and times.
THEOREM StreamTyped == StreamSpec => []StreamTypeOK
BY StreamInvariant, RowsAreTyped, PTL

\* Every event of the stream that the worker published in order has reached the
\* subscriber or is still beyond the cursor the next page starts at.
THEOREM NothingElseIsMissed == StreamSpec => []OnlyOvertakenIsMissed
<1>1. OrderInv => OnlyOvertakenIsMissed BY DEF OrderInv
<1> QED BY <1>1, StreamInvariant, PTL

\* And the subscriber first gets those events in their order.
THEOREM SentInOrder == StreamSpec => FirstSentInOrder
<1> DEFINE NewOnesLater == \A e \in received' \ (received \cup overtaken), f \in received :
                        outbox[e].occurredAt > toISOString(outbox[f].occurredAt)
<1>1. RowsInv /\ OrderInv /\ RowsInv' /\ [StreamNext]_streamVars => NewOnesLater
  <2> SUFFICES ASSUME RowsInv, OrderInv, RowsInv', [StreamNext]_streamVars,
                      NEW e \in received' \ (received \cup overtaken), NEW f \in received
               PROVE  Follows(e, f)
    BY DEF Follows
  <2>1. received' # received => stream' = stream
    BY DEF StreamNext, streamVars, socketVars, emitOutbox, insertEvent, endTransaction,
           lockExpires, nextAttemptDue, workerStep, claimEvents, publishEvent, failEvent,
           crashWorker, sendEvents, sendRows, reconnect
  <2>2. e \in stream BY <2>1 DEF RowsInv, SubscriberInv
  <2> QED BY <2>2 DEF OrderInv, AwaitedFollow, Awaited
<1> HIDE DEF NewOnesLater
<1>2. StreamSpec => [][NewOnesLater]_streamVars BY <1>1, StreamInvariant, PTL DEF StreamSpec
<1> QED BY <1>2 DEF FirstSentInOrder, NewOnesLater

\* The committed events of the channel up to e.
CommittedUpTo(e) == {f \in Committed : /\ outbox[f].channel = outbox[e].channel
                                       /\ outbox[f].occurredAt <= outbox[e].occurredAt}

Numbered == \A e \in Committed : outbox[e].sequence = Cardinality(CommittedUpTo(e))

\* The numbers of a channel are consecutive, in the order of time, whatever
\* transactions roll back: a committed event has the number that counts the
\* committed events of its channel up to it.
THEOREM NumbersAreConsecutive == StreamSpec => []Numbered
<1>1. RowsInv => Numbered
  <2> SUFFICES ASSUME RowsInv, NEW e \in Committed
               PROVE  outbox[e].sequence = Cardinality(CommittedUpTo(e))
    BY DEF Numbered
  <2>1. e \in Emitted /\ outbox[e].sequence = Cardinality(UpTo(e))
    BY DEF RowsInv, DatabaseInv, NumbersCount, Committed, Emitted
  <2>2. ASSUME NEW f \in UpTo(e) PROVE f \in Committed
    <3>1. f \in Emitted /\ outbox[f].channel = outbox[e].channel
          /\ outbox[f].occurredAt <= outbox[e].occurredAt
      BY DEF UpTo
    <3>2. outbox[f].occurredAt \in Nat /\ outbox[e].occurredAt \in Nat
          /\ outbox[f].status \in {"absent", "inserted", "committed"}
      BY <2>1, <3>1 DEF RowsInv, DatabaseInv, EventRow, Emitted
    <3>3. outbox[f].status = "inserted" => f = e
      BY <2>1, <3>1, <3>2 DEF RowsInv, DatabaseInv, OneWriter
    <3> QED BY <3>1, <3>2, <3>3 DEF Emitted, Committed
  <2>3. UpTo(e) = CommittedUpTo(e) BY <2>2 DEF UpTo, CommittedUpTo, Committed, Emitted
  <2> QED BY <2>1, <2>3
<1> QED BY <1>1, StreamInvariant, PTL
-----------------------------------------------------------------------------
(* The arrays of the order book.                                           *)

\* The values of a sequence are finitely many, at most as many as its places.
LEMMA FinitelyManyValues ==
  ASSUME NEW S, NEW s \in Seq(S)
  PROVE  /\ Range(s) \in SUBSET S
         /\ IsFiniteSet(Range(s)) /\ Cardinality(Range(s)) <= Len(s)
<1>1. s \in Surjection(1 .. Len(s), Range(s)) BY DEF Surjection, Range
<1>2. IsFiniteSet(1 .. Len(s)) /\ Cardinality(1 .. Len(s)) = Len(s)
  <2>1. Len(s) \in Nat OBVIOUS
  <2> QED BY <2>1, FS_Interval, SMTT(30)
<1>3. Range(s) \in SUBSET S BY DEF Range
<1> QED BY <1>1, <1>2, <1>3, FS_Surjection

\* No order is there twice.
Distinct(orders) ==
  \A i, j \in DOMAIN orders : orders[i].orderRef = orders[j].orderRef => i = j

\* Orders are told apart by their refs, which count as their sequences do.
InArrival(S) ==
  \A a, b \in S : /\ a.orderRef = b.orderRef => a = b
                  /\ a.orderRef < b.orderRef => a.sequence < b.sequence

\* The best order first.
InOrder(orders, side) ==
  \A i, j \in DOMAIN orders : i < j => precedes(side, orders[i], orders[j])

\* The numbers in an order.
LEMMA OrderNumbers ==
  ASSUME NEW order \in EngineOrder
  PROVE  /\ order.orderRef \in Nat /\ order.priceAtoms \in Nat /\ order.sequence \in Nat
         /\ order.remainingQuantity \in Nat /\ order.side \in Sides
<1>1. Prices \in SUBSET Nat BY PositiveInputs
<1>2. /\ order.orderRef \in 1 .. MaxOrders /\ order.priceAtoms \in Prices
      /\ order.sequence \in Nat /\ order.remainingQuantity \in Nat /\ order.side \in Sides
  BY DEF EngineOrder
<1>3. order.orderRef \in Nat BY <1>2, MaxOrdersIsNatural
<1>4. order.priceAtoms \in Nat BY <1>1, <1>2
<1> QED BY <1>2, <1>3, <1>4

\* Price and then time is a strict order.
LEMMA PrecedesIsStrict ==
  ASSUME NEW side \in Sides, NEW a \in EngineOrder, NEW b \in EngineOrder, NEW c \in EngineOrder
  PROVE  /\ ~precedes(side, a, a)
         /\ precedes(side, a, b) => ~precedes(side, b, a)
         /\ precedes(side, a, b) /\ precedes(side, b, c) => precedes(side, a, c)
         /\ a.sequence # b.sequence => precedes(side, a, b) \/ precedes(side, b, a)
BY OrderNumbers DEF precedes

\* The result of sortSide is what it was given, in order.
LEMMA SortedSide ==
  ASSUME NEW orders \in Seq(EngineOrder), InArrival(Range(orders)), NEW side \in Sides
  PROVE  LET s == sortSide(orders, side) IN
         /\ s \in Seq(EngineOrder)
         /\ Range(s) = Range(orders)
         /\ Len(s) <= Len(orders)
         /\ Distinct(s)
         /\ InOrder(s, side)
<1> DEFINE S == Range(orders)
           before == {pair \in S \X S : precedes(side, pair[1], pair[2])}
           s == sortSide(orders, side)
<1>1. S \in SUBSET EngineOrder /\ IsFiniteSet(S) /\ Cardinality(S) <= Len(orders)
  BY FinitelyManyValues
<1>2. s = sorted(S, before) BY DEF sortSide
<1>3. \A x, y \in S : <<x, y>> \in before <=> precedes(side, x, y)
  <2> HIDE DEF S
  <2> QED OBVIOUS
<1>4. \A x, y \in S : x # y => x.sequence # y.sequence
  <2> HIDE DEF S
  <2>1. \A x \in S : x.orderRef \in Nat /\ x.sequence \in Nat BY <1>1, OrderNumbers
  <2>2. InArrival(S) BY DEF S
  <2> QED BY <2>1, <2>2 DEF InArrival
<1>5. /\ s \in Seq(S) /\ Len(s) = Cardinality(S)
      /\ Range(s) = S
      /\ \A i, j \in DOMAIN s : i < j => <<s[i], s[j]>> \in before
  <2> HIDE DEF S, before, s
  <2>1. \A x \in S : <<x, x>> \notin before BY <1>1, <1>3, PrecedesIsStrict
  <2>2. \A x, y, z \in S : <<x, y>> \in before /\ <<y, z>> \in before => <<x, z>> \in before
    BY <1>1, <1>3, PrecedesIsStrict
  <2>3. \A x, y \in S : x # y => <<x, y>> \in before \/ <<y, x>> \in before
    BY <1>1, <1>3, <1>4, PrecedesIsStrict
  <2> QED BY <1>1, <1>2, <2>1, <2>2, <2>3, SortedInOrder
<1>6. \A i, j \in DOMAIN s : i < j => precedes(side, s[i], s[j])
  <2> HIDE DEF S, before, s
  <2>1. \A i \in DOMAIN s : s[i] \in S BY <1>5
  <2> QED BY <1>3, <1>5, <2>1
<1>7. Distinct(s)
  <2> SUFFICES ASSUME NEW i \in DOMAIN s, NEW j \in DOMAIN s,
                      s[i].orderRef = s[j].orderRef, i # j
               PROVE  FALSE
    BY DEF Distinct
  <2>1. s[i] \in S /\ s[j] \in S
    <3> HIDE DEF S, before, s
    <3> QED BY <1>5
  <2>2. s[i] = s[j]
    <3> HIDE DEF s
    <3> QED BY <2>1 DEF InArrival
  <2>3. i \in Nat /\ j \in Nat
    <3> HIDE DEF S, before, s
    <3> QED BY <1>5
  <2>4. i < j \/ j < i
    <3> HIDE DEF S, before, s
    <3> QED BY <2>3
  <2>5. precedes(side, s[i], s[i])
    <3> HIDE DEF S, before, s
    <3> QED BY <1>6, <2>2, <2>4
  <2> HIDE DEF S, before, s
  <2> QED BY <1>1, <2>1, <2>5, PrecedesIsStrict
<1>8. s \in Seq(EngineOrder) /\ Len(s) <= Len(orders)
  <2> HIDE DEF S, before, s
  <2> QED BY <1>1, <1>5
<1> QED BY ONLY <1>5, <1>6, <1>7, <1>8 DEF s, InOrder

\* What a sequence holds without its first order.
LEMMA WithoutFirst ==
  ASSUME NEW s \in Seq(EngineOrder), s # <<>>, Distinct(s)
  PROVE  /\ Tail(s) \in Seq(EngineOrder) /\ Len(Tail(s)) = Len(s) - 1
         /\ s[1] \in Range(s) /\ Range(Tail(s)) = Range(s) \ {s[1]}
         /\ Distinct(Tail(s))
<1>1. /\ Tail(s) \in Seq(EngineOrder) /\ Len(Tail(s)) = Len(s) - 1
      /\ \A i \in 1 .. Len(s) - 1 : Tail(s)[i] = s[i + 1]
      /\ Len(s) \in Nat /\ Len(s) > 0 /\ DOMAIN s = 1 .. Len(s)
  OBVIOUS
<1>2. DOMAIN Tail(s) = 1 .. Len(s) - 1 BY <1>1
<1>3. Distinct(Tail(s))
  <2> SUFFICES ASSUME NEW i \in 1 .. Len(s) - 1, NEW j \in 1 .. Len(s) - 1,
                      Tail(s)[i].orderRef = Tail(s)[j].orderRef
               PROVE  i = j
    BY <1>2 DEF Distinct
  <2>1. s[i + 1].orderRef = s[j + 1].orderRef /\ i + 1 \in DOMAIN s /\ j + 1 \in DOMAIN s
    BY <1>1
  <2> QED BY <2>1 DEF Distinct
<1>4. \A i \in DOMAIN s : i # 1 => i - 1 \in DOMAIN Tail(s) /\ Tail(s)[i - 1] = s[i]
  BY <1>1, <1>2
<1>5. \A i \in DOMAIN Tail(s) : i + 1 \in DOMAIN s /\ i + 1 # 1 /\ Tail(s)[i] = s[i + 1]
  BY <1>1, <1>2
<1>6. 1 \in DOMAIN s BY <1>1
<1>7. \A i \in DOMAIN s : i # 1 => s[i] # s[1] BY <1>6 DEF Distinct
<1>8. ASSUME NEW i \in DOMAIN s, i # 1 PROVE s[i] \in Range(Tail(s))
  <2>1. i - 1 \in DOMAIN Tail(s) /\ Tail(s)[i - 1] = s[i] BY <1>4, <1>8
  <2> QED BY <2>1 DEF Range
<1>9. ASSUME NEW i \in DOMAIN Tail(s) PROVE Tail(s)[i] \in Range(s) \ {s[1]}
  BY <1>5, <1>7 DEF Range
<1>10. Range(Tail(s)) = Range(s) \ {s[1]}
  <2>1. \A x \in Range(Tail(s)) : x \in Range(s) \ {s[1]} BY <1>9 DEF Range
  <2>2. \A x \in Range(s) \ {s[1]} : x \in Range(Tail(s)) BY <1>8 DEF Range
  <2> QED BY <2>1, <2>2
<1> QED BY <1>1, <1>3, <1>6, <1>10 DEF Range

\* One order put in front of others.
LEMMA WithFirst ==
  ASSUME NEW s \in Seq(EngineOrder), NEW order \in EngineOrder, Distinct(s),
         \A other \in Range(s) : other.orderRef # order.orderRef
  PROVE  LET t == <<order>> \o s IN
         /\ t \in Seq(EngineOrder) /\ Len(t) = Len(s) + 1
         /\ Range(t) = {order} \cup Range(s)
         /\ Distinct(t)
<1> DEFINE t == <<order>> \o s
<1>1. /\ t \in Seq(EngineOrder) /\ Len(t) = Len(s) + 1
      /\ t[1] = order /\ \A i \in 2 .. Len(s) + 1 : t[i] = s[i - 1]
      /\ Len(s) \in Nat /\ DOMAIN s = 1 .. Len(s)
  OBVIOUS
<1> HIDE DEF t
<1>2. DOMAIN t = 1 .. Len(s) + 1 BY <1>1
<1>3. \A i \in DOMAIN s : i + 1 \in DOMAIN t /\ t[i + 1] = s[i] BY <1>1, <1>2
<1>4. \A i \in DOMAIN t : i # 1 => i - 1 \in DOMAIN s /\ t[i] = s[i - 1] BY <1>1, <1>2
<1>5. 1 \in DOMAIN t BY <1>1, <1>2
<1>6. \A x : x \in Range(t) <=> x = order \/ x \in Range(s)
  BY <1>1, <1>3, <1>4, <1>5 DEF Range
<1>7. Distinct(t)
  <2> SUFFICES ASSUME NEW i \in DOMAIN t, NEW j \in DOMAIN t, t[i].orderRef = t[j].orderRef
               PROVE  i = j
    BY DEF Distinct
  <2>1. CASE i = 1 /\ j # 1 BY <1>1, <1>4, <2>1 DEF Range
  <2>2. CASE i # 1 /\ j = 1 BY <1>1, <1>4, <2>2 DEF Range
  <2>3. CASE i # 1 /\ j # 1
    <3>1. i - 1 = j - 1 BY <1>4, <2>3 DEF Distinct
    <3> QED BY <1>2, <3>1
  <2> QED BY <2>1, <2>2, <2>3
<1>8. Range(t) = {order} \cup Range(s) BY <1>6
<1> QED BY <1>1, <1>7, <1>8 DEF t

\* The order is kept when the first leaves, and when a better one comes before it.
LEMMA InOrderWithoutFirst ==
  ASSUME NEW s \in Seq(EngineOrder), s # <<>>, NEW side, InOrder(s, side)
  PROVE  InOrder(Tail(s), side) /\ \A x \in Range(Tail(s)) : precedes(side, s[1], x)
<1>1. /\ Len(s) \in Nat /\ DOMAIN s = 1 .. Len(s) /\ 1 \in DOMAIN s
      /\ \A i \in 1 .. Len(s) - 1 : Tail(s)[i] = s[i + 1]
      /\ DOMAIN Tail(s) = 1 .. Len(s) - 1
  OBVIOUS
<1>2. \A i \in DOMAIN Tail(s) : i + 1 \in DOMAIN s /\ 1 < i + 1 /\ Tail(s)[i] = s[i + 1]
  BY <1>1
<1>3. \A i, j \in DOMAIN Tail(s) : i < j => i + 1 < j + 1 BY <1>1
<1>4. InOrder(Tail(s), side) BY <1>2, <1>3 DEF InOrder
<1>5. \A i \in DOMAIN Tail(s) : precedes(side, s[1], Tail(s)[i])
  BY <1>1, <1>2 DEF InOrder
<1> QED BY <1>4, <1>5 DEF Range

\* And so it is when a better one comes before the others.
LEMMA InOrderWithFirst ==
  ASSUME NEW s \in Seq(EngineOrder), NEW order \in EngineOrder, NEW side, InOrder(s, side),
         \A x \in Range(s) : precedes(side, order, x)
  PROVE  InOrder(<<order>> \o s, side)
<1> DEFINE t == <<order>> \o s
<1>1. /\ t \in Seq(EngineOrder) /\ Len(t) = Len(s) + 1
      /\ t[1] = order /\ \A i \in 2 .. Len(s) + 1 : t[i] = s[i - 1]
      /\ Len(s) \in Nat /\ DOMAIN s = 1 .. Len(s)
  OBVIOUS
<1> HIDE DEF t
<1>2. DOMAIN t = 1 .. Len(s) + 1 BY <1>1
<1>3. \A i \in DOMAIN t : i \in Nat /\ (i # 1 => i - 1 \in DOMAIN s /\ t[i] = s[i - 1])
  BY <1>1, <1>2
<1>4. \A i \in DOMAIN s : precedes(side, order, s[i]) BY DEF Range
<1>5. ASSUME NEW i \in DOMAIN t, NEW j \in DOMAIN t, i < j
      PROVE  precedes(side, t[i], t[j])
  <2>1. j # 1 /\ j - 1 \in DOMAIN s /\ t[j] = s[j - 1] BY <1>2, <1>3, <1>5
  <2>2. CASE i = 1 BY <1>1, <1>4, <2>1, <2>2
  <2>3. CASE i # 1
    <3>1. i - 1 \in DOMAIN s /\ t[i] = s[i - 1] /\ i - 1 < j - 1 BY <1>3, <1>5, <2>3
    <3> QED BY <2>1, <3>1 DEF InOrder
  <2> QED BY <2>2, <2>3
<1>6. InOrder(t, side) BY <1>5 DEF InOrder
<1> QED BY <1>6 DEF t
-----------------------------------------------------------------------------
(* The matching loop.                                                      *)

\* An order that is accepted finds open orders in an order of arrival.
Takes(order) ==
  /\ order \in EngineOrder
  /\ opposite(order.side) \in Seq(EngineOrder)
  /\ Distinct(opposite(order.side))
  /\ InOrder(opposite(order.side), otherSide(order.side))
  /\ InArrival(Range(opposite(order.side)))
  /\ \A maker \in Range(opposite(order.side)) : maker.remainingQuantity > 0

\* A maker when "rest" is left of it.
Left(maker, rest) == [maker EXCEPT !.remainingQuantity = rest]

\* The opposite side when left[m] is left of each maker m.
MakersLeft(order, left) ==
  (Range(opposite(order.side)) \ crossing(order))
    \cup {Left(m, left[m]) : m \in {n \in crossing(order) : left[n] > 0}}

Gave(order, left) == [m \in crossing(order) |-> m.remainingQuantity - left[m]]

EngineTrade ==
  [makerOrderRef : Nat, buyerUserRef : Users, sellerUserRef : Users,
   priceAtoms : Nat, quantity : Nat, sequence : Nat]

\* There is one trade with each maker that gave something, and no other.
TradesTell(order, trades, left) ==
  /\ \A i \in DOMAIN trades :
       \E m \in crossing(order) : /\ trades[i].makerOrderRef = m.orderRef
                                  /\ trades[i].priceAtoms = m.priceAtoms
                                  /\ left[m] < m.remainingQuantity
  /\ \A m \in crossing(order) :
       left[m] < m.remainingQuantity =>
         \E i \in DOMAIN trades :
           /\ trades[i].quantity = m.remainingQuantity - left[m]
           /\ \A j \in DOMAIN trades : trades[j].makerOrderRef = m.orderRef <=> j = i

\* A maker has given nothing before those that precede it have given all.
InPriority(order, left) ==
  \A m, n \in crossing(order) :
    precedes(otherSide(order.side), m, n) /\ left[n] < n.remainingQuantity => left[m] = 0

\* What holds after every round, left[m] being what is left of maker m.
Matching(order, match, left) ==
  /\ left \in [crossing(order) -> Nat]
  /\ \A m \in crossing(order) : left[m] <= m.remainingQuantity
  /\ match.makers \in Seq(EngineOrder) /\ Distinct(match.makers)
  /\ InOrder(match.makers, otherSide(order.side))
  /\ Range(match.makers) = MakersLeft(order, left)
  /\ match.taker \in EngineOrder
  /\ match.taker = Left(order, match.taker.remainingQuantity)
  /\ order.remainingQuantity = match.taker.remainingQuantity
       + SumFunctionOnSet(Gave(order, left), crossing(order))
  /\ InPriority(order, left)
  /\ match.taker.remainingQuantity > 0 =>
       \A m \in crossing(order) : left[m] > 0 => left[m] = m.remainingQuantity
  /\ match.trades \in Seq(EngineTrade)
  /\ TradesTell(order, match.trades, left)

\* An order with less left of it is still the same order.
LEMMA LeftOrder ==
  ASSUME NEW maker \in EngineOrder, NEW rest \in Nat
  PROVE  LET order == Left(maker, rest) IN
         /\ order \in EngineOrder
         /\ order.remainingQuantity = rest
         /\ order.orderRef = maker.orderRef /\ order.userRef = maker.userRef
         /\ order.side = maker.side /\ order.priceAtoms = maker.priceAtoms
         /\ order.timeInForce = maker.timeInForce /\ order.sequence = maker.sequence
         /\ \A other \in Nat : Left(order, other) = Left(maker, other)
         /\ rest = maker.remainingQuantity => order = maker
<1>1. maker = [orderRef |-> maker.orderRef, userRef |-> maker.userRef, side |-> maker.side,
               priceAtoms |-> maker.priceAtoms,
               remainingQuantity |-> maker.remainingQuantity,
               timeInForce |-> maker.timeInForce, sequence |-> maker.sequence]
  BY DEF EngineOrder
<1> QED BY <1>1 DEF Left, EngineOrder

\* The makers an order crosses are orders of the opposite side.
LEMMA CrossingOrders ==
  ASSUME NEW order, Takes(order)
  PROVE  /\ crossing(order) \in SUBSET Range(opposite(order.side))
         /\ Range(opposite(order.side)) \in SUBSET EngineOrder
         /\ IsFiniteSet(Range(opposite(order.side))) /\ IsFiniteSet(crossing(order))
<1>1. /\ Range(opposite(order.side)) \in SUBSET EngineOrder
      /\ IsFiniteSet(Range(opposite(order.side)))
  BY FinitelyManyValues DEF Takes
<1>2. crossing(order) \in SUBSET Range(opposite(order.side)) BY DEF crossing
<1> QED BY <1>1, <1>2, FS_Subset

\* What is left of the opposite side is still in an order of arrival.
LEMMA LeftInArrival ==
  ASSUME NEW order, Takes(order), NEW left \in [crossing(order) -> Nat]
  PROVE  /\ InArrival(MakersLeft(order, left))
         /\ \A x \in MakersLeft(order, left) :
              /\ x \in EngineOrder
              /\ x.remainingQuantity > 0
              /\ \E m \in Range(opposite(order.side)) :
                   /\ x.orderRef = m.orderRef /\ x.sequence = m.sequence
                   /\ x.side = m.side /\ x.priceAtoms = m.priceAtoms
         /\ \A m \in Range(opposite(order.side)) : \A x \in MakersLeft(order, left) :
              x.orderRef = m.orderRef =>
                IF m \in crossing(order) THEN left[m] > 0 /\ x = Left(m, left[m]) ELSE x = m
<1> DEFINE side == Range(opposite(order.side))
           C == crossing(order)
<1>1. C \in SUBSET side /\ side \in SUBSET EngineOrder BY CrossingOrders
<1>2. ASSUME NEW x \in MakersLeft(order, left)
      PROVE  \E m \in side : /\ x.orderRef = m.orderRef /\ x.sequence = m.sequence
                             /\ x.side = m.side /\ x.priceAtoms = m.priceAtoms
                             /\ x.remainingQuantity > 0
                             /\ x \in EngineOrder
                             /\ IF m \in C THEN left[m] > 0 /\ x = Left(m, left[m]) ELSE x = m
  <2>1. CASE x \in side \ C
    <3>1. x.remainingQuantity > 0 /\ x \in EngineOrder BY <1>1, <2>1 DEF Takes
    <3> QED BY <2>1, <3>1
  <2>2. CASE x \notin side \ C
    <3>1. PICK m \in C : left[m] > 0 /\ x = Left(m, left[m])
      BY <1>2, <2>2 DEF MakersLeft
    <3>2. m \in side /\ m \in EngineOrder /\ left[m] \in Nat BY <1>1
    <3>3. /\ x.orderRef = m.orderRef /\ x.sequence = m.sequence
          /\ x.side = m.side /\ x.priceAtoms = m.priceAtoms
          /\ x.remainingQuantity > 0 /\ x \in EngineOrder
      BY <3>1, <3>2, LeftOrder
    <3> QED BY <3>1, <3>2, <3>3
  <2> QED BY <2>1, <2>2
<1>3. InArrival(side) BY DEF Takes
<1> HIDE DEF side, C
<1>4. InArrival(MakersLeft(order, left))
  <2> SUFFICES ASSUME NEW x \in MakersLeft(order, left), NEW y \in MakersLeft(order, left)
               PROVE  /\ x.orderRef = y.orderRef => x = y
                      /\ x.orderRef < y.orderRef => x.sequence < y.sequence
    BY DEF InArrival
  <2>1. PICK m \in side : /\ x.orderRef = m.orderRef /\ x.sequence = m.sequence
                          /\ IF m \in C THEN left[m] > 0 /\ x = Left(m, left[m]) ELSE x = m
    BY <1>2
  <2>2. PICK n \in side : /\ y.orderRef = n.orderRef /\ y.sequence = n.sequence
                          /\ IF n \in C THEN left[n] > 0 /\ y = Left(n, left[n]) ELSE y = n
    BY <1>2
  <2> QED BY <1>3, <2>1, <2>2 DEF InArrival
<1>5. ASSUME NEW m \in side, NEW x \in MakersLeft(order, left), x.orderRef = m.orderRef
      PROVE  IF m \in C THEN left[m] > 0 /\ x = Left(m, left[m]) ELSE x = m
  <2>1. PICK n \in side : /\ x.orderRef = n.orderRef
                          /\ IF n \in C THEN left[n] > 0 /\ x = Left(n, left[n]) ELSE x = n
    BY <1>2
  <2>2. n = m BY <1>3, <1>5, <2>1 DEF InArrival
  <2> QED BY <2>1, <2>2
<1> QED BY <1>2, <1>4, <1>5 DEF side, C

\* Before the first round everything is left.
LEMMA MatchingStarts ==
  ASSUME NEW order, Takes(order)
  PROVE  \E left : Matching(order, [taker |-> order, trades |-> <<>>,
                                    makers |-> opposite(order.side)], left)
<1> DEFINE C == crossing(order)
           left == [m \in C |-> m.remainingQuantity]
           match == [taker |-> order, trades |-> <<>>, makers |-> opposite(order.side)]
<1>1. C \in SUBSET Range(opposite(order.side)) /\ IsFiniteSet(C)
      /\ Range(opposite(order.side)) \in SUBSET EngineOrder
  BY CrossingOrders
<1>2. \A m \in C : /\ left[m] \in Nat /\ left[m] = m.remainingQuantity /\ left[m] > 0
                   /\ Left(m, left[m]) = m
  BY <1>1, OrderNumbers, LeftOrder DEF Takes
<1>3. left \in [C -> Nat] BY <1>2
<1>4. Range(match.makers) = MakersLeft(order, left)
  <2> HIDE DEF left
  <2> QED BY <1>1, <1>2 DEF MakersLeft
<1>5. SumFunctionOnSet(Gave(order, left), C) = 0
  <2>1. \A m \in C : Gave(order, left)[m] = 0
    <3> HIDE DEF left
    <3> QED BY <1>2 DEF Gave
  <2> HIDE DEF C, left
  <2> QED BY <1>1, <2>1, SumOfZeros
<1>6. order \in EngineOrder /\ order.remainingQuantity \in Nat
      /\ order = Left(order, order.remainingQuantity)
  BY OrderNumbers, LeftOrder DEF Takes
<1>7. InPriority(order, left)
  <2> HIDE DEF left
  <2> QED BY <1>2 DEF InPriority
<1>8. TradesTell(order, <<>>, left)
  <2> HIDE DEF left
  <2> QED BY <1>2 DEF TradesTell
<1> HIDE DEF left
<1>9. match.taker = order /\ match.trades = <<>> /\ match.makers = opposite(order.side)
  OBVIOUS
<1> HIDE DEF match
<1>10. Matching(order, match, left)
  BY <1>2, <1>3, <1>4, <1>5, <1>6, <1>7, <1>8, <1>9 DEF Matching, Takes
<1> QED BY <1>10 DEF match

\* While there are makers, the first one that the loop takes has priority, and
\* when that is too expensive, they all are.
LEMMA FirstMaker ==
  ASSUME NEW order, Takes(order), NEW match, NEW left, Matching(order, match, left),
         match.makers # <<>>
  PROVE  LET makers == sortSide(match.makers, otherSide(match.taker.side)) IN
         /\ makers \in Seq(EngineOrder) /\ makers # <<>> /\ Distinct(makers)
         /\ InOrder(makers, otherSide(order.side))
         /\ Len(makers) <= Len(match.makers)
         /\ Range(makers) = MakersLeft(order, left)
         /\ crosses(match.taker.side, match.taker.priceAtoms, makers[1].priceAtoms) =>
              \E m \in crossing(order) :
                /\ left[m] > 0 /\ makers[1] = Left(m, left[m])
                /\ \A n \in crossing(order) :
                     precedes(otherSide(order.side), n, m) => left[n] = 0
         /\ ~crosses(match.taker.side, match.taker.priceAtoms, makers[1].priceAtoms) =>
              \A m \in crossing(order) : left[m] = 0
<1> DEFINE C == crossing(order)
           other == otherSide(order.side)
           makers == sortSide(match.makers, other)
           Crosses(m) == crosses(order.side, order.priceAtoms, m.priceAtoms)
<1>1. C \in SUBSET Range(opposite(order.side))
      /\ Range(opposite(order.side)) \in SUBSET EngineOrder
  BY CrossingOrders
<1>2. left \in [C -> Nat] /\ match.makers \in Seq(EngineOrder)
      /\ Range(match.makers) = MakersLeft(order, left)
  BY DEF Matching
<1>3. order \in EngineOrder /\ order.side \in Sides /\ other \in Sides
  BY OrderNumbers DEF Takes, otherSide, Sides
<1>4. match.taker.side = order.side /\ match.taker.priceAtoms = order.priceAtoms
  <2>1. match.taker = Left(order, match.taker.remainingQuantity)
        /\ match.taker.remainingQuantity \in Nat
    BY OrderNumbers DEF Matching
  <2> QED BY <1>3, <2>1, LeftOrder
<1>5. /\ makers \in Seq(EngineOrder)
      /\ Range(makers) = MakersLeft(order, left)
      /\ Len(makers) <= Len(match.makers)
      /\ Distinct(makers)
      /\ InOrder(makers, other)
  <2>1. InArrival(Range(match.makers)) BY <1>2, LeftInArrival
  <2> QED BY <1>2, <1>3, <2>1, SortedSide
<1> HIDE DEF makers
<1>6. 1 \in DOMAIN match.makers BY <1>2
<1>7. makers # <<>>
  <2>1. match.makers[1] \in MakersLeft(order, left) BY <1>2, <1>6 DEF Range
  <2> QED BY <1>5, <2>1 DEF Range
<1>8. 1 \in DOMAIN makers /\ makers[1] \in MakersLeft(order, left) /\ makers[1] \in EngineOrder
  <2>1. 1 \in DOMAIN makers BY <1>5, <1>7
  <2> QED BY <1>5, <2>1 DEF Range
<1>9. ASSUME NEW m \in C, left[m] > 0
      PROVE  /\ Left(m, left[m]) \in EngineOrder
             /\ Left(m, left[m]).priceAtoms = m.priceAtoms
             /\ Left(m, left[m]).sequence = m.sequence
             /\ Left(m, left[m]).orderRef = m.orderRef
             /\ makers[1] = Left(m, left[m])
                \/ precedes(other, makers[1], Left(m, left[m]))
  <2>1. m \in EngineOrder /\ left[m] \in Nat BY <1>1, <1>2
  <2>2. Left(m, left[m]) \in Range(makers) BY <1>5, <1>9 DEF MakersLeft
  <2>3. PICK j \in DOMAIN makers : makers[j] = Left(m, left[m]) BY <2>2 DEF Range
  <2>4. j = 1 \/ 1 < j BY <1>5
  <2> QED BY <1>5, <1>8, <2>1, <2>3, <2>4, LeftOrder DEF InOrder
<1>10. ASSUME Crosses(makers[1])
       PROVE  \E m \in C : /\ left[m] > 0 /\ makers[1] = Left(m, left[m])
                           /\ \A n \in C : precedes(other, n, m) => left[n] = 0
  <2>1. makers[1] \notin Range(opposite(order.side)) \ C
    BY <1>10 DEF crossing
  <2>2. PICK m \in C : left[m] > 0 /\ makers[1] = Left(m, left[m])
    BY <1>8, <2>1 DEF MakersLeft
  <2>3. ASSUME NEW n \in C, precedes(other, n, m), left[n] # 0 PROVE FALSE
    <3>1. left[n] > 0 /\ m \in EngineOrder /\ n \in EngineOrder BY <1>1, <1>2, <2>3
    <3>2. ~precedes(other, m, n) /\ ~precedes(other, n, n)
      BY <1>3, <2>3, <3>1, PrecedesIsStrict
    <3>3. \/ Left(m, left[m]) = Left(n, left[n])
          \/ precedes(other, Left(m, left[m]), Left(n, left[n]))
      BY <1>9, <2>2, <3>1
    <3>4. CASE Left(m, left[m]) = Left(n, left[n])
      <4>1. m.priceAtoms = n.priceAtoms /\ m.sequence = n.sequence
        BY <1>9, <2>2, <3>1, <3>4
      <4> QED BY <2>3, <3>2, <4>1 DEF precedes
    <3>5. CASE precedes(other, Left(m, left[m]), Left(n, left[n]))
      <4>1. precedes(other, m, n) BY <1>9, <2>2, <3>1, <3>5 DEF precedes
      <4> QED BY <3>2, <4>1
    <3> QED BY <3>3, <3>4, <3>5
  <2> QED BY <2>2, <2>3
<1>11. ASSUME ~Crosses(makers[1]), NEW m \in C, left[m] # 0 PROVE FALSE
  <2>1. left[m] > 0 /\ m \in EngineOrder BY <1>1, <1>2, <1>11
  <2>2. Crosses(m) BY DEF crossing
  <2>3. (makers[1] = Left(m, left[m]) \/ precedes(other, makers[1], Left(m, left[m])))
        /\ Left(m, left[m]).priceAtoms = m.priceAtoms
        /\ Left(m, left[m]) \in EngineOrder
    BY <1>9, <2>1
  <2>4. /\ makers[1].priceAtoms \in Nat /\ m.priceAtoms \in Nat /\ order.priceAtoms \in Nat
    BY <1>3, <1>8, <2>1, OrderNumbers
  <2>5. CASE makers[1] = Left(m, left[m]) BY <1>9, <1>11, <2>1, <2>2, <2>5
  <2>6. CASE precedes(other, makers[1], Left(m, left[m]))
    <3>1. Left(m, left[m]).priceAtoms = m.priceAtoms BY <1>9, <2>1
    <3>2. IF other = "buy" THEN makers[1].priceAtoms >= m.priceAtoms
                           ELSE makers[1].priceAtoms <= m.priceAtoms
      BY <2>4, <2>6, <3>1 DEF precedes
    <3> QED BY <1>3, <1>11, <2>2, <2>4, <3>2 DEF crosses, otherSide, Sides
  <2> QED BY <2>3, <2>5, <2>6
<1>12. makers = sortSide(match.makers, otherSide(match.taker.side)) BY <1>4 DEF makers
<1> QED BY <1>4, <1>5, <1>7, <1>10, <1>11, <1>12

\* When the loop ends the order is filled or its makers are empty.
LEMMA MatchingEnds ==
  ASSUME NEW order, Takes(order), NEW match, NEW left, Matching(order, match, left),
         ~goesOn(match)
  PROVE  match.taker.remainingQuantity = 0 \/ \A m \in crossing(order) : left[m] = 0
<1>1. CASE match.makers = <<>>
  <2>1. MakersLeft(order, left) = {} BY <1>1 DEF Matching, Range
  <2>2. left \in [crossing(order) -> Nat] BY DEF Matching
  <2> QED BY <2>1, <2>2 DEF MakersLeft
<1>2. CASE match.makers # <<>> /\ match.taker.remainingQuantity > 0
  BY <1>2, FirstMaker DEF goesOn
<1>3. match.taker.remainingQuantity \in Nat BY OrderNumbers DEF Matching
<1> QED BY <1>1, <1>2, <1>3

\* A trade with a maker that has given nothing before.
LEMMA OneMoreTrade ==
  ASSUME NEW order, Takes(order), NEW left \in [crossing(order) -> Nat],
         NEW trades \in Seq(EngineTrade), TradesTell(order, trades, left),
         NEW m \in crossing(order), left[m] = m.remainingQuantity,
         NEW rest \in Nat, rest < m.remainingQuantity,
         NEW trade \in EngineTrade, trade.makerOrderRef = m.orderRef,
         trade.priceAtoms = m.priceAtoms, trade.quantity = m.remainingQuantity - rest
  PROVE  TradesTell(order, Append(trades, trade), [left EXCEPT ![m] = rest])
<1> DEFINE C == crossing(order)
           new == [left EXCEPT ![m] = rest]
           all == Append(trades, trade)
           last == Len(trades) + 1
<1>1. /\ DOMAIN trades = 1 .. Len(trades) /\ DOMAIN all = 1 .. last /\ last \in DOMAIN all
      /\ Len(trades) \in Nat
      /\ all[last] = trade /\ \A i \in DOMAIN trades : i \in DOMAIN all /\ all[i] = trades[i]
      /\ last \notin DOMAIN trades /\ \A i \in DOMAIN all : i \in DOMAIN trades \/ i = last
  OBVIOUS
<1>2. new[m] = rest /\ \A n \in C : n # m => new[n] = left[n] OBVIOUS
<1>3. \A n \in C : n.orderRef = m.orderRef => n = m
  BY CrossingOrders DEF Takes, InArrival
<1>4. m.remainingQuantity \in Nat BY CrossingOrders, OrderNumbers
<1>5. \A i \in DOMAIN trades : trades[i].makerOrderRef # m.orderRef
  <2> SUFFICES ASSUME NEW i \in DOMAIN trades, trades[i].makerOrderRef = m.orderRef
               PROVE  FALSE
    OBVIOUS
  <2>1. PICK n \in C : trades[i].makerOrderRef = n.orderRef /\ left[n] < n.remainingQuantity
    BY DEF TradesTell
  <2>2. n = m BY <1>3, <2>1
  <2> QED BY <1>4, <2>1, <2>2
<1> HIDE DEF all, new, last
<1>6. ASSUME NEW i \in DOMAIN all
      PROVE  \E n \in C : /\ all[i].makerOrderRef = n.orderRef
                          /\ all[i].priceAtoms = n.priceAtoms
                          /\ new[n] < n.remainingQuantity
  <2>1. CASE i = last BY <1>1, <1>2, <2>1
  <2>2. CASE i \in DOMAIN trades
    <3>1. PICK n \in C : /\ trades[i].makerOrderRef = n.orderRef
                         /\ trades[i].priceAtoms = n.priceAtoms
                         /\ left[n] < n.remainingQuantity
      BY <2>2 DEF TradesTell
    <3>2. n # m BY <1>5, <2>2, <3>1
    <3> QED BY <1>1, <1>2, <2>2, <3>1, <3>2
  <2> QED BY <1>1, <2>1, <2>2
<1>7. ASSUME NEW n \in C, new[n] < n.remainingQuantity
      PROVE  \E i \in DOMAIN all :
               /\ all[i].quantity = n.remainingQuantity - new[n]
               /\ \A j \in DOMAIN all : all[j].makerOrderRef = n.orderRef <=> j = i
  <2>1. CASE n = m
    <3>1. all[last].quantity = n.remainingQuantity - new[n] BY <1>1, <1>2, <2>1
    <3>2. \A j \in DOMAIN all : all[j].makerOrderRef = n.orderRef <=> j = last
      BY <1>1, <1>5, <2>1
    <3> QED BY <1>1, <3>1, <3>2
  <2>2. CASE n # m
    <3>1. PICK i \in DOMAIN trades :
            /\ trades[i].quantity = n.remainingQuantity - left[n]
            /\ \A j \in DOMAIN trades : trades[j].makerOrderRef = n.orderRef <=> j = i
      BY <1>2, <1>7, <2>2 DEF TradesTell
    <3>2. trade.makerOrderRef # n.orderRef BY <1>3, <2>2
    <3>3. i \in DOMAIN all /\ all[i].quantity = n.remainingQuantity - new[n]
      BY <1>1, <1>2, <2>2, <3>1
    <3>4. \A j \in DOMAIN all : all[j].makerOrderRef = n.orderRef <=> j = i
      BY <1>1, <3>1, <3>2
    <3> QED BY <3>3, <3>4
  <2> QED BY <2>1, <2>2
<1> QED BY <1>6, <1>7 DEF TradesTell, all, new

\* What is left of the makers when the first has given some more.
LEMMA OneMakerLess ==
  ASSUME NEW order, Takes(order), NEW left \in [crossing(order) -> Nat],
         NEW m \in crossing(order), left[m] > 0, NEW rest \in Nat, rest < left[m],
         NEW new, new[m] = rest, \A n \in crossing(order) : n # m => new[n] = left[n]
  PROVE  \A x : x \in MakersLeft(order, new) <=>
                 \/ x \in MakersLeft(order, left) /\ x # Left(m, left[m])
                 \/ rest > 0 /\ x = Left(m, rest)
<1> DEFINE C == crossing(order)
           maker == Left(m, left[m])
<1>1. C \in SUBSET Range(opposite(order.side))
      /\ Range(opposite(order.side)) \in SUBSET EngineOrder
  BY CrossingOrders
<1>2. new[m] = rest /\ \A n \in C : n # m => new[n] = left[n] OBVIOUS
<1>3. maker \in MakersLeft(order, left) BY DEF MakersLeft
<1>4. \A n \in Range(opposite(order.side)) : n.orderRef = m.orderRef => n = m
  BY <1>1 DEF Takes, InArrival
<1>5. maker.orderRef = m.orderRef BY <1>1, LeftOrder
<1>6. \A n \in Range(opposite(order.side)) \ C : n # maker BY <1>4, <1>5
<1>7. ASSUME NEW n \in C, n # m, left[n] > 0 PROVE Left(n, left[n]) # maker
  <2>1. Left(n, left[n]).orderRef = n.orderRef BY <1>1, LeftOrder
  <2> QED BY <1>1, <1>4, <1>5, <1>7, <2>1
<1> HIDE DEF maker
<1>8. \A x \in MakersLeft(order, left) : x # maker => x \in MakersLeft(order, new)
  <2> SUFFICES ASSUME NEW x \in MakersLeft(order, left), x # maker
               PROVE  x \in MakersLeft(order, new)
    OBVIOUS
  <2>1. CASE x \in Range(opposite(order.side)) \ C BY <2>1 DEF MakersLeft
  <2>2. CASE x \notin Range(opposite(order.side)) \ C
    <3>1. PICK n \in C : left[n] > 0 /\ x = Left(n, left[n]) BY <2>2 DEF MakersLeft
    <3>2. n # m BY <3>1 DEF maker
    <3> QED BY <1>2, <3>1, <3>2 DEF MakersLeft
  <2> QED BY <2>1, <2>2
<1>9. rest > 0 => Left(m, rest) \in MakersLeft(order, new)
  <2> SUFFICES ASSUME rest > 0 PROVE Left(m, rest) \in MakersLeft(order, new) OBVIOUS
  <2>1. new[m] > 0 /\ Left(m, new[m]) = Left(m, rest) BY <1>2
  <2> QED BY <2>1 DEF MakersLeft
<1>10. ASSUME NEW x \in MakersLeft(order, new)
       PROVE  (x \in MakersLeft(order, left) /\ x # maker) \/ (rest > 0 /\ x = Left(m, rest))
  <2>1. CASE x \in Range(opposite(order.side)) \ C BY <1>6, <2>1 DEF MakersLeft
  <2>2. CASE x \notin Range(opposite(order.side)) \ C
    <3>1. PICK n \in C : new[n] > 0 /\ x = Left(n, new[n]) BY <1>10, <2>2 DEF MakersLeft
    <3>2. CASE n = m BY <1>2, <3>1, <3>2
    <3>3. CASE n # m
      <4>1. left[n] > 0 /\ x = Left(n, left[n]) BY <1>2, <3>1, <3>3
      <4>2. x \in MakersLeft(order, left) BY <4>1 DEF MakersLeft
      <4> QED BY <1>7, <3>3, <4>1, <4>2
    <3> QED BY <3>2, <3>3
  <2> QED BY <2>1, <2>2
<1> QED BY <1>8, <1>9, <1>10 DEF maker

\* A round keeps what holds, and fills the order or takes a maker out.
LEMMA MeetKeepsMatching ==
  ASSUME NEW order, Takes(order), NEW match, NEW left, Matching(order, match, left),
         goesOn(match)
  PROVE  LET next == meetMaker(match) IN
         /\ \E new : Matching(order, next, new)
         /\ next.taker.remainingQuantity = 0 \/ Len(next.makers) < Len(match.makers)
<1> DEFINE C == crossing(order)
           makers == sortSide(match.makers, otherSide(match.taker.side))
           maker == makers[1]
           taker == match.taker
           quantity == tradeQuantity(taker, maker)
           trade == tradeWith(match, maker)
           next == meetMaker(match)
<1>1. /\ makers \in Seq(EngineOrder) /\ makers # <<>> /\ Distinct(makers)
      /\ InOrder(makers, otherSide(order.side))
      /\ Len(makers) <= Len(match.makers)
      /\ Range(makers) = MakersLeft(order, left)
      /\ \E m \in crossing(order) :
           /\ left[m] > 0 /\ makers[1] = Left(m, left[m])
           /\ \A n \in crossing(order) : precedes(otherSide(order.side), n, m) => left[n] = 0
  BY FirstMaker DEF goesOn
<1>2. /\ next.taker = Left(taker, taker.remainingQuantity - quantity)
      /\ next.trades = Append(match.trades, trade)
      /\ next.makers = IF maker.remainingQuantity = quantity
                       THEN Tail(makers)
                       ELSE <<Left(maker, maker.remainingQuantity - quantity)>> \o Tail(makers)
  BY DEF meetMaker, Left
<1>3. /\ trade.makerOrderRef = maker.orderRef /\ trade.priceAtoms = maker.priceAtoms
      /\ trade.quantity = quantity
      /\ trade.buyerUserRef \in {taker.userRef, maker.userRef}
      /\ trade.sellerUserRef \in {taker.userRef, maker.userRef}
      /\ trade.sequence = taker.sequence + Len(match.trades) + 1
      /\ trade = [makerOrderRef |-> trade.makerOrderRef, buyerUserRef |-> trade.buyerUserRef,
                  sellerUserRef |-> trade.sellerUserRef, priceAtoms |-> trade.priceAtoms,
                  quantity |-> trade.quantity, sequence |-> trade.sequence]
  BY DEF tradeWith
<1> HIDE DEF makers, next, trade
<1>4. PICK m \in C : /\ left[m] > 0 /\ maker = Left(m, left[m])
                     /\ \A n \in C : precedes(otherSide(order.side), n, m) => left[n] = 0
  BY <1>1
<1>5. C \in SUBSET EngineOrder /\ m \in EngineOrder /\ IsFiniteSet(C)
      /\ left \in [C -> Nat] /\ left[m] \in Nat /\ left[m] <= m.remainingQuantity
  BY CrossingOrders DEF Matching
<1>6. /\ maker \in EngineOrder /\ maker.remainingQuantity = left[m]
      /\ maker.orderRef = m.orderRef /\ maker.priceAtoms = m.priceAtoms
      /\ maker.userRef = m.userRef
      /\ \A other \in Nat : Left(maker, other) = Left(m, other)
  BY <1>4, <1>5, LeftOrder
<1>7. /\ taker \in EngineOrder /\ taker.remainingQuantity \in Nat /\ taker.remainingQuantity > 0
      /\ taker.sequence \in Nat /\ m.orderRef \in Nat /\ m.priceAtoms \in Nat
      /\ m.remainingQuantity \in Nat
  BY <1>5, OrderNumbers DEF Matching, goesOn
<1>8. /\ quantity \in Nat /\ 0 < quantity /\ quantity <= left[m]
      /\ quantity <= taker.remainingQuantity
      /\ quantity = left[m] \/ quantity = taker.remainingQuantity
  <2>1. quantity = IF taker.remainingQuantity < left[m] THEN taker.remainingQuantity
                                                         ELSE left[m]
    BY <1>6 DEF tradeQuantity
  <2> HIDE DEF quantity, taker
  <2> QED BY <1>4, <1>5, <1>7, <2>1
<1> HIDE DEF maker, quantity
<1> DEFINE rest == left[m] - quantity
           new == [left EXCEPT ![m] = rest]
<1>9. rest \in Nat /\ rest < left[m] BY <1>5, <1>8
<1>10. new \in [C -> Nat] /\ new[m] = rest /\ \A n \in C : n # m => new[n] = left[n]
  BY <1>5, <1>9
<1>11. left[m] = m.remainingQuantity BY <1>4, <1>7 DEF Matching
<1> HIDE DEF new, rest
<1>12. \A n \in C : new[n] <= n.remainingQuantity
  <2>1. \A n \in C : left[n] <= n.remainingQuantity BY DEF Matching
  <2>2. new[m] <= m.remainingQuantity BY <1>5, <1>7, <1>9, <1>10, <1>11
  <2> QED BY <1>10, <2>1, <2>2
<1>13. /\ Tail(makers) \in Seq(EngineOrder) /\ Len(Tail(makers)) = Len(makers) - 1
       /\ Range(Tail(makers)) = Range(makers) \ {maker}
       /\ Distinct(Tail(makers))
       /\ maker \in Range(makers)
       /\ InOrder(Tail(makers), otherSide(order.side))
       /\ \A x \in Range(Tail(makers)) : precedes(otherSide(order.side), maker, x)
  BY <1>1, WithoutFirst, InOrderWithoutFirst DEF maker
<1>14. \A x : x \in MakersLeft(order, new) <=>
              \/ x \in MakersLeft(order, left) /\ x # maker
              \/ rest > 0 /\ x = Left(m, rest)
  BY <1>4, <1>5, <1>9, <1>10, OneMakerLess
<1>15. /\ next.makers \in Seq(EngineOrder) /\ Distinct(next.makers)
       /\ InOrder(next.makers, otherSide(order.side))
       /\ Range(next.makers) = MakersLeft(order, new)
       /\ quantity = left[m] => Len(next.makers) < Len(match.makers)
  <2>1. CASE quantity = left[m]
    <3>1. next.makers = Tail(makers) /\ rest = 0 BY <1>2, <1>5, <1>6, <2>1 DEF rest
    <3>2. Range(next.makers) = MakersLeft(order, new)
      <4>1. ~(rest > 0) BY <3>1
      <4>2. \A x : x \in Range(next.makers) <=> x \in MakersLeft(order, new)
        BY <1>1, <1>13, <1>14, <3>1, <4>1
      <4> QED BY <4>2
    <3>3. Len(makers) \in Nat /\ Len(match.makers) \in Nat BY <1>1 DEF Matching
    <3> QED BY <1>1, <1>13, <3>1, <3>2, <3>3
  <2>2. CASE quantity # left[m]
    <3>1. next.makers = <<Left(m, rest)>> \o Tail(makers) /\ rest > 0
      BY <1>2, <1>5, <1>6, <1>8, <1>9, <2>2 DEF rest
    <3>2. Left(m, rest) \in EngineOrder /\ Left(m, rest).orderRef = maker.orderRef
      BY <1>5, <1>6, <1>9, LeftOrder
    <3>3. \A other \in Range(Tail(makers)) : other.orderRef # Left(m, rest).orderRef
      <4>1. InArrival(Range(makers)) BY <1>1, <1>5, LeftInArrival
      <4> QED BY <1>13, <3>2, <4>1 DEF InArrival
    <3>4. /\ next.makers \in Seq(EngineOrder) /\ Distinct(next.makers)
          /\ Range(next.makers) = {Left(m, rest)} \cup Range(Tail(makers))
      BY <1>13, <3>1, <3>2, <3>3, WithFirst
    <3>5. Range(next.makers) = MakersLeft(order, new) BY <1>1, <1>13, <1>14, <3>1, <3>4
    <3>6. InOrder(next.makers, otherSide(order.side))
      <4>1. /\ Left(m, rest).priceAtoms = maker.priceAtoms
            /\ Left(m, rest).sequence = maker.sequence
        BY <1>5, <1>6, <1>9, LeftOrder
      <4>2. \A x \in Range(Tail(makers)) : precedes(otherSide(order.side), Left(m, rest), x)
        BY <1>13, <4>1 DEF precedes
      <4> QED BY <1>13, <3>1, <3>2, <4>2, InOrderWithFirst
    <3> QED BY <2>2, <3>4, <3>5, <3>6
  <2> QED BY <2>1, <2>2
<1>16. /\ next.taker \in EngineOrder
       /\ next.taker.remainingQuantity = taker.remainingQuantity - quantity
       /\ next.taker = Left(order, next.taker.remainingQuantity)
  <2>1. taker.remainingQuantity - quantity \in Nat BY <1>7, <1>8
  <2>2. taker = Left(order, taker.remainingQuantity) /\ order \in EngineOrder
    BY DEF Matching, Takes
  <2>3. Left(taker, taker.remainingQuantity - quantity)
          = Left(order, taker.remainingQuantity - quantity)
    BY <1>7, <2>1, <2>2, LeftOrder
  <2> QED BY <1>2, <1>7, <2>1, <2>3, LeftOrder
<1>17. order.remainingQuantity = next.taker.remainingQuantity
         + SumFunctionOnSet(Gave(order, new), C)
  <2>1. \A n \in C : /\ Gave(order, left)[n] \in Int /\ Gave(order, new)[n] \in Int
                     /\ n # m => Gave(order, new)[n] = Gave(order, left)[n]
    BY <1>5, <1>10, OrderNumbers DEF Gave
  <2>2. Gave(order, new)[m] = Gave(order, left)[m] + quantity
    BY <1>5, <1>7, <1>8, <1>10 DEF Gave, rest
  <2>3. SumFunctionOnSet(Gave(order, new), C)
          = SumFunctionOnSet(Gave(order, left), C) + Gave(order, new)[m] - Gave(order, left)[m]
    <3> HIDE DEF C
    <3> QED BY <1>5, <2>1, SumChange
  <2>4. SumFunctionOnSet(Gave(order, left), C) \in Int
    <3> HIDE DEF C
    <3> QED BY <1>5, <2>1, SumType
  <2>5. order.remainingQuantity = taker.remainingQuantity
          + SumFunctionOnSet(Gave(order, left), C)
    BY DEF Matching
  <2>6. Gave(order, left)[m] \in Int BY <2>1
  <2> HIDE DEF C
  <2> QED BY <1>7, <1>8, <1>16, <2>2, <2>3, <2>4, <2>5, <2>6
<1>18. InPriority(order, new)
  <2> SUFFICES ASSUME NEW k \in C, NEW n \in C, precedes(otherSide(order.side), k, n),
                      new[n] < n.remainingQuantity
               PROVE  new[k] = 0
    BY DEF InPriority
  <2>1. CASE n = m
    <3>1. left[k] = 0 BY <1>4, <2>1
    <3> QED BY <1>4, <1>10, <3>1
  <2>2. CASE n # m
    <3>1. left[k] = 0 BY <1>10, <2>2 DEF Matching, InPriority
    <3> QED BY <1>4, <1>10, <3>1
  <2> QED BY <2>1, <2>2
<1>19. next.taker.remainingQuantity > 0 =>
         \A n \in C : new[n] > 0 => new[n] = n.remainingQuantity
  <2> SUFFICES ASSUME next.taker.remainingQuantity > 0, NEW n \in C, new[n] > 0
               PROVE  new[n] = n.remainingQuantity
    OBVIOUS
  <2>1. quantity = left[m] BY <1>7, <1>8, <1>16
  <2>2. new[m] = 0 BY <1>5, <1>10, <2>1 DEF rest
  <2>3. n # m /\ left[n] > 0 BY <1>10, <2>2
  <2> QED BY <1>7, <1>10, <2>3 DEF Matching
<1>20. /\ next.trades \in Seq(EngineTrade)
       /\ TradesTell(order, next.trades, new)
  <2>1. trade \in EngineTrade
    <3>1. taker.userRef \in Users /\ maker.userRef \in Users
      BY <1>6, <1>7 DEF EngineOrder
    <3>2. trade.sequence \in Nat BY <1>3, <1>7 DEF Matching
    <3> QED BY <1>3, <1>6, <1>7, <1>8, <3>1, <3>2 DEF EngineTrade
  <2>2. trade.quantity = m.remainingQuantity - rest
    BY <1>3, <1>5, <1>8, <1>11 DEF rest
  <2>3. match.trades \in Seq(EngineTrade) /\ TradesTell(order, match.trades, left)
    BY DEF Matching
  <2>4. TradesTell(order, Append(match.trades, trade), [left EXCEPT ![m] = rest])
    BY <1>3, <1>5, <1>6, <1>9, <1>11, <2>1, <2>2, <2>3, OneMoreTrade
  <2> QED BY <1>2, <2>1, <2>3, <2>4 DEF new
<1>21. Matching(order, next, new)
  BY <1>10, <1>12, <1>15, <1>16, <1>17, <1>18, <1>19, <1>20 DEF Matching
<1>22. next.taker.remainingQuantity = 0 \/ Len(next.makers) < Len(match.makers)
  BY <1>7, <1>8, <1>15, <1>16
<1> QED BY <1>21, <1>22 DEF next

Start(order) == [taker |-> order, trades |-> <<>>, makers |-> opposite(order.side)]

Round(match) == IF goesOn(match) THEN meetMaker(match) ELSE match

\* The loop of matched, up to n rounds.
Loop(order, t, n) ==
  t = [rounds \in 0 .. n |-> IF rounds = 0 THEN Start(order) ELSE Round(t[rounds - 1])]

\* It can be computed for any number of rounds.
LEMMA LoopExists ==
  ASSUME NEW order, NEW n \in Nat
  PROVE  \E t : Loop(order, t, n)
<1> DEFINE Bad == {k \in Nat : ~ \E t : Loop(order, t, k)}
<1>1. SUFFICES ASSUME Bad # {} PROVE FALSE OBVIOUS
<1>2. PICK k \in Bad : \A j \in Bad : k <= j
  <2>1. Bad \in SUBSET Nat OBVIOUS
  <2> HIDE DEF Bad
  <2> QED BY <1>1, <2>1, LeastNatural
<1>3. CASE k = 0
  <2> DEFINE t == [rounds \in 0 .. k |-> Start(order)]
  <2>1. \A rounds \in 0 .. k : rounds = 0 BY <1>3
  <2>2. Loop(order, t, k) BY <2>1 DEF Loop
  <2> HIDE DEF t
  <2> QED BY <2>2
<1>4. CASE k # 0
  <2>1. k - 1 \in Nat /\ k - 1 \notin Bad /\ k \in Nat
    <3>1. k \in Nat /\ k - 1 \in Nat BY <1>4
    <3>2. ~(k <= k - 1) BY <3>1
    <3> HIDE DEF Bad
    <3> QED BY <1>2, <3>1, <3>2
  <2>2. PICK s : Loop(order, s, k - 1) BY <2>1
  <2> DEFINE t == [rounds \in 0 .. k |-> IF rounds = k THEN Round(s[k - 1]) ELSE s[rounds]]
  <2>3. ASSUME NEW rounds \in 0 .. k
        PROVE  t[rounds] = IF rounds = 0 THEN Start(order) ELSE Round(t[rounds - 1])
    <3>1. CASE rounds = k
      <4>1. k - 1 \in 0 .. k /\ k - 1 # k BY <2>1
      <4>2. t[k - 1] = s[k - 1] BY <4>1
      <4>3. t[k] = Round(s[k - 1]) BY <2>1
      <4> HIDE DEF t
      <4> QED BY <1>4, <3>1, <4>2, <4>3
    <3>2. CASE rounds # k
      <4>1. rounds \in 0 .. k - 1 /\ (rounds # 0 => rounds - 1 \in 0 .. k - 1)
            /\ rounds - 1 # k
        BY <2>1, <3>2
      <4>2. t[rounds] = s[rounds] BY <3>2
      <4>3. rounds # 0 => t[rounds - 1] = s[rounds - 1] BY <2>1, <4>1
      <4>4. s[rounds] = IF rounds = 0 THEN Start(order) ELSE Round(s[rounds - 1])
        BY <2>2, <4>1 DEF Loop
      <4> HIDE DEF t
      <4> QED BY <4>2, <4>3, <4>4
    <3> QED BY <3>1, <3>2
  <2>4. t = [rounds \in 0 .. k |-> t[rounds]] OBVIOUS
  <2> HIDE DEF t
  <2>5. Loop(order, t, k) BY <2>3, <2>4 DEF Loop
  <2> QED BY <2>5
<1> QED BY <1>3, <1>4

\* The loop returns a match that no round changes.
LEMMA LoopEnds ==
  ASSUME NEW order, Takes(order)
  PROVE  \E left : Matching(order, matched(order), left) /\ ~goesOn(matched(order))
<1> DEFINE n == Len(opposite(order.side))
           t == CHOOSE t : Loop(order, t, n)
<1>0. n \in Nat BY DEF Takes
<1>1. Loop(order, t, n)
  <2> HIDE DEF n
  <2> QED BY <1>0, LoopExists
<1>2. matched(order) = t[n]
  <2>1. matched(order) = (CHOOSE loop : Loop(order, loop, n))[n]
    BY DEF matched, Loop, Start, Round
  <2> QED BY <2>1
<1> HIDE DEF t, n
<1> DEFINE Done(k) == \E left : /\ Matching(order, t[k], left)
                                /\ ~goesOn(t[k]) \/ Len(t[k].makers) <= n - k
           Bad == {k \in 0 .. n : ~Done(k)}
<1>3. t[0] = Start(order) /\ \A k \in 0 .. n : k # 0 => t[k] = Round(t[k - 1])
  BY <1>0, <1>1 DEF Loop
<1>4. Done(0)
  <2>1. \E left : Matching(order, Start(order), left) BY MatchingStarts DEF Start
  <2>2. Len(Start(order).makers) = n BY DEF Start, n
  <2> QED BY <1>0, <1>3, <2>1, <2>2
<1>5. ASSUME NEW k \in 0 .. n, k # 0, Done(k - 1) PROVE Done(k)
  <2>1. PICK left : /\ Matching(order, t[k - 1], left)
                    /\ ~goesOn(t[k - 1]) \/ Len(t[k - 1].makers) <= n - (k - 1)
    BY <1>5
  <2>2. CASE ~goesOn(t[k - 1])
    <3>1. t[k] = t[k - 1] BY <1>3, <1>5, <2>2 DEF Round
    <3> QED BY <2>1, <2>2, <3>1
  <2>3. CASE goesOn(t[k - 1])
    <3>1. t[k] = meetMaker(t[k - 1]) BY <1>3, <1>5, <2>3 DEF Round
    <3>2. /\ \E new : Matching(order, t[k], new)
          /\ t[k].taker.remainingQuantity = 0 \/ Len(t[k].makers) < Len(t[k - 1].makers)
      BY <2>1, <2>3, <3>1, MeetKeepsMatching
    <3>3. PICK new : Matching(order, t[k], new) BY <3>2
    <3>4. Len(t[k].makers) \in Nat /\ Len(t[k - 1].makers) \in Nat
      BY <2>1, <3>3 DEF Matching
    <3>5. t[k].taker.remainingQuantity = 0 => ~goesOn(t[k]) BY DEF goesOn
    <3>6. ~goesOn(t[k]) \/ Len(t[k].makers) <= n - k
      BY <1>0, <2>1, <2>3, <3>2, <3>4, <3>5
    <3> QED BY <3>3, <3>6
  <2> QED BY <2>2, <2>3
<1>6. Bad = {}
  <2> SUFFICES ASSUME Bad # {} PROVE FALSE OBVIOUS
  <2>1. Bad \in SUBSET Nat BY <1>0
  <2>2. PICK k \in Bad : \A j \in Bad : k <= j
    <3> HIDE DEF Bad
    <3> QED BY <2>1, LeastNatural
  <2>3. k \in 0 .. n /\ ~Done(k) OBVIOUS
  <2> HIDE DEF Done
  <2>4. k # 0 BY <1>4, <2>3
  <2>5. k - 1 \in 0 .. n /\ ~(k <= k - 1) BY <1>0, <2>3, <2>4
  <2>6. Done(k - 1) BY <2>2, <2>5
  <2> QED BY <1>5, <2>3, <2>4, <2>6
<1>7. Done(n)
  <2> HIDE DEF Done
  <2>1. n \in 0 .. n BY <1>0
  <2> QED BY <1>6, <2>1
<1>8. PICK left : /\ Matching(order, t[n], left)
                  /\ ~goesOn(t[n]) \/ Len(t[n].makers) <= n - n
  BY <1>7
<1>9. ~goesOn(t[n])
  <2>1. Len(t[n].makers) <= 0 => t[n].makers = <<>> BY <1>8 DEF Matching
  <2> QED BY <1>0, <1>8, <2>1 DEF goesOn
<1> QED BY <1>2, <1>8, <1>9

-----------------------------------------------------------------------------
(* The book between two calls.                                             *)

\* A side holds open orders of its own, each once, the best one first.
Holds(orders, side) ==
  /\ orders \in Seq(EngineOrder) /\ Distinct(orders) /\ InOrder(orders, side)
  /\ \A order \in Range(orders) : order.side = side /\ order.remainingQuantity > 0

\* The orders of the book came one after the other, and none is newer than the
\* counters of the book say.
Arrived(S, refs, last) ==
  /\ InArrival(S)
  /\ \A order \in S : order.orderRef <= refs /\ order.sequence <= last

BookInv ==
  /\ Holds(buys, "buy") /\ Holds(sells, "sell")
  /\ Arrived(Range(buys) \cup Range(sells), submitted, sequence)
  /\ sequence \in Nat /\ submitted \in 0 .. MaxOrders
  /\ result = NoResult \/ result.accepted \in EngineOrder

\* The invariant has the types.
LEMMA BookIsTyped == BookInv => TypeOK
<1> SUFFICES ASSUME BookInv PROVE TypeOK OBVIOUS
<1>1. \A order \in Range(buys) : order \in EngineOrder BY DEF BookInv, Holds, Range
<1>2. \A order \in Range(sells) : order \in EngineOrder BY DEF BookInv, Holds, Range
<1> QED BY <1>1, <1>2 DEF BookInv, Holds, TypeOK

\* The order a call brings, and the side it would rest on.
LEMMA OrderBrought ==
  ASSUME BookInv, NEW input \in Inputs, submitted < MaxOrders
  PROVE  LET order == engineOrder(input)
             own   == opposite(otherSide(input.side)) IN
         /\ Takes(order)
         /\ order.side = input.side /\ order.remainingQuantity = input.quantity
         /\ order.remainingQuantity > 0
         /\ order.orderRef = submitted + 1 /\ order.sequence = sequence + 1
         /\ order.userRef = input.userRef /\ order.priceAtoms = input.priceAtoms
         /\ order.timeInForce = input.timeInForce
         /\ crossing(order) = crossing(input)
         /\ Holds(own, input.side) /\ Holds(opposite(input.side), otherSide(input.side))
         /\ Range(own) \cup Range(opposite(input.side)) = Range(buys) \cup Range(sells)
         /\ IF input.side = "buy" THEN own = buys /\ opposite(input.side) = sells
                                  ELSE own = sells /\ opposite(input.side) = buys
<1> DEFINE order == engineOrder(input)
           own   == opposite(otherSide(input.side))
<1>1. /\ input.side \in Sides /\ input.userRef \in Users /\ input.priceAtoms \in Prices
      /\ input.quantity \in Nat /\ input.quantity > 0 /\ input.timeInForce \in TimeInForce
  <2>1. /\ input.side \in Sides /\ input.userRef \in Users /\ input.priceAtoms \in Prices
        /\ input.quantity \in Quantities /\ input.timeInForce \in TimeInForce
    BY DEF Inputs
  <2>2. \A q \in Quantities : q \in Nat /\ q # 0 BY PositiveInputs
  <2> QED BY <2>1, <2>2
<1>2. /\ order.side = input.side /\ order.remainingQuantity = input.quantity
      /\ order.orderRef = submitted + 1 /\ order.sequence = sequence + 1
      /\ order.userRef = input.userRef /\ order.priceAtoms = input.priceAtoms
      /\ order.timeInForce = input.timeInForce
  BY DEF engineOrder
<1>3. order \in EngineOrder
  <2>1. submitted + 1 \in 1 .. MaxOrders /\ sequence + 1 \in Nat
    BY MaxOrdersIsNatural DEF BookInv
  <2> QED BY <1>1, <2>1 DEF EngineOrder, engineOrder
<1>4. crossing(order) = crossing(input)
  <2> HIDE DEF order
  <2> QED BY <1>2 DEF crossing
<1>5. IF input.side = "buy" THEN own = buys /\ opposite(input.side) = sells
                            ELSE own = sells /\ opposite(input.side) = buys
  BY DEF opposite, otherSide
<1>6. Holds(own, input.side) /\ Holds(opposite(input.side), otherSide(input.side))
  BY <1>1, <1>5 DEF BookInv, otherSide, Sides
<1>7. Range(own) \cup Range(opposite(input.side)) = Range(buys) \cup Range(sells)
  BY <1>5
<1>8. InArrival(Range(opposite(input.side)))
  <2>1. InArrival(Range(buys) \cup Range(sells)) BY DEF BookInv, Arrived
  <2> QED BY <1>7, <2>1 DEF InArrival
<1>9. Takes(order)
  <2> HIDE DEF order, own
  <2> QED BY <1>2, <1>3, <1>6, <1>8 DEF Takes, Holds
<1> QED BY <1>1, <1>2, <1>4, <1>5, <1>6, <1>7, <1>9

\* An order that rests is added to its side.
LEMMA PushedSide ==
  ASSUME NEW orders, NEW side \in Sides, Holds(orders, side), InArrival(Range(orders)),
         NEW order \in EngineOrder, order.side = side,
         \A other \in Range(orders) :
           other.orderRef < order.orderRef /\ other.sequence < order.sequence
  PROVE  /\ Holds(pushed(orders, order), side)
         /\ \A x : x \in Range(pushed(orders, order)) <=>
                     x \in Range(orders) \/ (rests(order) /\ x = order)
<1> DEFINE all == Append(orders, order)
<1>1. /\ orders \in Seq(EngineOrder) /\ Distinct(orders)
      /\ \A other \in Range(orders) : other.side = side /\ other.remainingQuantity > 0
      /\ order.orderRef \in Nat /\ order.sequence \in Nat
      /\ \A other \in Range(orders) : other \in EngineOrder /\ other.orderRef \in Nat
                                       /\ other.sequence \in Nat
  <2>1. orders \in Seq(EngineOrder) BY DEF Holds
  <2>2. Range(orders) \in SUBSET EngineOrder BY <2>1 DEF Range
  <2> QED BY <2>1, <2>2, OrderNumbers DEF Holds
<1>2. CASE ~rests(order) BY <1>2 DEF pushed
<1>3. CASE rests(order)
  <2>1. all \in Seq(EngineOrder) BY <1>1
  <2>2. \A x : x \in Range(all) <=> x \in Range(orders) \/ x = order
    <3>1. /\ DOMAIN orders = 1 .. Len(orders) /\ Len(orders) \in Nat
          /\ DOMAIN all = 1 .. Len(orders) + 1 /\ all[Len(orders) + 1] = order
          /\ \A i \in DOMAIN orders : i \in DOMAIN all /\ all[i] = orders[i]
      BY <1>1
    <3>2. \A i \in DOMAIN all : i \in DOMAIN orders \/ i = Len(orders) + 1 BY <3>1
    <3>3. Len(orders) + 1 \in DOMAIN all BY <3>1
    <3> HIDE DEF all
    <3> QED BY <3>1, <3>2, <3>3 DEF Range
  <2>3. InArrival(Range(all))
    <3> SUFFICES ASSUME NEW a \in Range(all), NEW b \in Range(all)
                 PROVE  /\ a.orderRef = b.orderRef => a = b
                        /\ a.orderRef < b.orderRef => a.sequence < b.sequence
      BY DEF InArrival
    <3> HIDE DEF all
    <3>1. CASE a \in Range(orders) /\ b \in Range(orders) BY <3>1 DEF InArrival
    <3>2. CASE a = order \/ b = order BY <1>1, <2>2, <3>2
    <3> QED BY <2>2, <3>1, <3>2
  <2>4. pushed(orders, order) = sortSide(all, side) BY <1>3 DEF pushed
  <2>5. /\ sortSide(all, side) \in Seq(EngineOrder) /\ Distinct(sortSide(all, side))
        /\ Range(sortSide(all, side)) = Range(all) /\ InOrder(sortSide(all, side), side)
    <3> HIDE DEF all
    <3> QED BY <2>1, <2>3, SortedSide
  <2>6. order.remainingQuantity > 0 BY <1>3 DEF rests
  <2> HIDE DEF all
  <2> QED BY <1>1, <1>3, <2>2, <2>4, <2>5, <2>6 DEF Holds
<1> QED BY <1>2, <1>3

\* Both sides after a call that is accepted.
SidesAfter(input, left, makers, own) ==
  LET match == matched(engineOrder(input)) IN
  /\ Holds(makers, otherSide(input.side)) /\ Holds(own, input.side)
  /\ Range(makers) = MakersLeft(engineOrder(input), left)
  /\ \A x : x \in Range(own) <=>
              \/ x \in Range(opposite(otherSide(input.side)))
              \/ rests(match.taker) /\ x = match.taker
  /\ Arrived(Range(makers) \cup Range(own), submitted + 1, sequence + 1)

\* The loop and the push leave two such sides.
LEMMA BookAfter ==
  ASSUME BookInv, NEW input \in Inputs, submitted < MaxOrders
  PROVE  LET order == engineOrder(input)
             match == matched(order) IN
         \E left : /\ Matching(order, match, left) /\ ~goesOn(match)
                   /\ SidesAfter(input, left, match.makers,
                                 pushed(opposite(otherSide(input.side)), match.taker))
<1> DEFINE order == engineOrder(input)
           match == matched(order)
           taker == match.taker
           own == opposite(otherSide(input.side))
           after == pushed(own, taker)
<1>1. /\ Takes(order) /\ order.side = input.side
      /\ order.orderRef = submitted + 1 /\ order.sequence = sequence + 1
      /\ Holds(own, input.side) /\ Holds(opposite(input.side), otherSide(input.side))
      /\ Range(own) \cup Range(opposite(input.side)) = Range(buys) \cup Range(sells)
  BY OrderBrought
<1>2. input.side \in Sides BY DEF Inputs
<1> HIDE DEF order, own
<1>3. PICK left : Matching(order, match, left) /\ ~goesOn(match) BY <1>1, LoopEnds
<1>4. /\ left \in [crossing(order) -> Nat] /\ match.makers \in Seq(EngineOrder)
      /\ Distinct(match.makers) /\ InOrder(match.makers, otherSide(order.side))
      /\ Range(match.makers) = MakersLeft(order, left)
      /\ taker \in EngineOrder /\ taker = Left(order, taker.remainingQuantity)
      /\ taker.remainingQuantity \in Nat
  BY <1>3, OrderNumbers DEF Matching
<1>5. taker.side = input.side /\ taker.orderRef = submitted + 1 /\ taker.sequence = sequence + 1
  <2>1. order \in EngineOrder BY <1>1 DEF Takes
  <2> QED BY <1>1, <1>4, <2>1, LeftOrder
<1>6. Arrived(Range(buys) \cup Range(sells), submitted, sequence)
      /\ submitted \in Nat /\ sequence \in Nat
  BY MaxOrdersIsNatural DEF BookInv
<1>7. \A x \in MakersLeft(order, left) :
        /\ x \in EngineOrder /\ x.remainingQuantity > 0
        /\ \E m \in Range(opposite(input.side)) :
             x.orderRef = m.orderRef /\ x.sequence = m.sequence /\ x.side = m.side
  BY <1>1, <1>4, LeftInArrival
<1>8. \A x \in Range(own) : x \in EngineOrder /\ x.side = input.side
  BY <1>1 DEF Holds, Range
<1>9. \A x \in Range(opposite(input.side)) :
         x \in EngineOrder /\ x.side = otherSide(input.side)
  BY <1>1 DEF Holds, Range
<1>10. Holds(match.makers, otherSide(input.side))
  <2>1. InOrder(match.makers, otherSide(input.side)) BY <1>1, <1>4
  <2> QED BY <1>4, <1>7, <1>9, <2>1 DEF Holds
<1>11. \A x \in Range(own) \cup Range(opposite(input.side)) :
          /\ x.orderRef \in Nat /\ x.sequence \in Nat
          /\ x.orderRef <= submitted /\ x.sequence <= sequence
  BY <1>1, <1>6, <1>8, <1>9, OrderNumbers DEF Arrived
<1>12. /\ Holds(after, input.side)
       /\ \A x : x \in Range(after) <=> x \in Range(own) \/ (rests(taker) /\ x = taker)
  <2>1. InArrival(Range(own))
    <3>1. InArrival(Range(buys) \cup Range(sells)) BY <1>6 DEF Arrived
    <3> QED BY <1>1, <3>1 DEF InArrival
  <2>2. \A other \in Range(own) :
          other.orderRef < taker.orderRef /\ other.sequence < taker.sequence
    BY <1>5, <1>6, <1>11
  <2> HIDE DEF taker
  <2> QED BY <1>1, <1>2, <1>4, <1>5, <2>1, <2>2, PushedSide
<1> HIDE DEF after, taker, match
<1>13. ASSUME NEW x \in MakersLeft(order, left) \cup Range(after)
       PROVE  \/ x = taker
              \/ \E m \in Range(own) \cup Range(opposite(input.side)) :
                   /\ x.orderRef = m.orderRef /\ x.sequence = m.sequence
                   /\ x \in Range(own) => x = m
                   /\ x.side = m.side
                   /\ x \in MakersLeft(order, left) \/ x \in Range(own)
  BY <1>7, <1>12
<1>14. InArrival(MakersLeft(order, left)) BY <1>1, <1>4, LeftInArrival
<1>15. InArrival(Range(own) \cup Range(opposite(input.side)))
  BY <1>1, <1>6 DEF Arrived
<1>16. otherSide(input.side) # input.side BY <1>2 DEF otherSide, Sides
<1>17. ASSUME NEW x \in MakersLeft(order, left) \cup Range(after),
              NEW y \in MakersLeft(order, left) \cup Range(after)
       PROVE  /\ x.orderRef = y.orderRef => x = y
              /\ x.orderRef < y.orderRef => x.sequence < y.sequence
  <2>1. CASE x = taker \/ y = taker BY <1>5, <1>6, <1>11, <1>13, <2>1
  <2>2. CASE x # taker /\ y # taker
    <3>1. CASE x \in MakersLeft(order, left) /\ y \in MakersLeft(order, left)
      BY <1>14, <3>1 DEF InArrival
    <3>2. CASE x \in Range(own) /\ y \in Range(own) BY <1>15, <3>2 DEF InArrival
    <3>3. CASE x \in MakersLeft(order, left) /\ y \in Range(own)
      <4>1. PICK m \in Range(opposite(input.side)) :
              x.orderRef = m.orderRef /\ x.sequence = m.sequence
        BY <1>7, <3>3
      <4>2. m # y BY <1>8, <1>9, <1>16, <3>3
      <4> QED BY <1>15, <3>3, <4>1, <4>2 DEF InArrival
    <3>4. CASE x \in Range(own) /\ y \in MakersLeft(order, left)
      <4>1. PICK m \in Range(opposite(input.side)) :
              y.orderRef = m.orderRef /\ y.sequence = m.sequence
        BY <1>7, <3>4
      <4>2. m # x BY <1>8, <1>9, <1>16, <3>4
      <4> QED BY <1>15, <3>4, <4>1, <4>2 DEF InArrival
    <3> QED BY <1>12, <2>2, <3>1, <3>2, <3>3, <3>4
  <2> QED BY <2>1, <2>2
<1>18. \A x \in MakersLeft(order, left) \cup Range(after) :
         x.orderRef <= submitted + 1 /\ x.sequence <= sequence + 1
  BY <1>5, <1>6, <1>11, <1>13
<1>19. Arrived(Range(match.makers) \cup Range(after), submitted + 1, sequence + 1)
  BY <1>4, <1>17, <1>18 DEF Arrived, InArrival
<1>20. SidesAfter(input, left, match.makers, after)
  BY <1>4, <1>10, <1>12, <1>19 DEF SidesAfter, order, own, match, taker
<1> QED BY <1>3, <1>20 DEF order, own, match, taker, after

\* An order taken out of its place.
LEMMA OneRemoved ==
  ASSUME NEW s \in Seq(EngineOrder), Distinct(s), NEW i \in DOMAIN s
  PROVE  /\ RemoveAt(s, i) \in Seq(EngineOrder) /\ Distinct(RemoveAt(s, i))
         /\ \A side : InOrder(s, side) => InOrder(RemoveAt(s, i), side)
         /\ Range(RemoveAt(s, i)) = Range(s) \ {s[i]}
<1> DEFINE t == RemoveAt(s, i)
           before == SubSeq(s, 1, i - 1)
           after == SubSeq(s, i + 1, Len(s))
<1>1. Len(s) \in Nat /\ DOMAIN s = 1 .. Len(s) /\ i \in 1 .. Len(s) OBVIOUS
<1>2. /\ before \in Seq(EngineOrder) /\ Len(before) = i - 1
      /\ \A j \in 1 .. i - 1 : before[j] = s[j]
  BY <1>1
<1>3. /\ after \in Seq(EngineOrder) /\ Len(after) = Len(s) - i
      /\ \A j \in 1 .. Len(s) - i : after[j] = s[i + j]
  BY <1>1
<1>4. t = before \o after BY DEF RemoveAt
<1> HIDE DEF t, before, after
<1>5. /\ t \in Seq(EngineOrder) /\ Len(t) = Len(s) - 1 /\ DOMAIN t = 1 .. Len(s) - 1
      /\ \A j \in 1 .. i - 1 : t[j] = before[j]
      /\ \A j \in i .. Len(s) - 1 : t[j] = after[j - (i - 1)]
  <2>1. Len(before) + Len(after) = Len(s) - 1 BY <1>1, <1>2, <1>3
  <2>2. /\ t \in Seq(EngineOrder) /\ Len(t) = Len(before) + Len(after)
        /\ \A j \in 1 .. Len(before) + Len(after) :
             t[j] = IF j <= Len(before) THEN before[j] ELSE after[j - Len(before)]
    <3>1. before \in Seq(EngineOrder) /\ after \in Seq(EngineOrder) BY <1>2, <1>3
    <3> QED BY <1>4, <3>1
  <2>3. DOMAIN t = 1 .. Len(t) BY <2>2
  <2>4. \A j \in 1 .. i - 1 : j \in 1 .. Len(s) - 1 /\ j <= i - 1 BY <1>1
  <2>5. \A j \in i .. Len(s) - 1 : j \in 1 .. Len(s) - 1 /\ ~(j <= i - 1) BY <1>1
  <2> QED BY <1>2, <2>1, <2>2, <2>3, <2>4, <2>5
<1>6. \A j \in 1 .. Len(s) - 1 : t[j] = IF j < i THEN s[j] ELSE s[j + 1]
  <2> SUFFICES ASSUME NEW j \in 1 .. Len(s) - 1
               PROVE  t[j] = IF j < i THEN s[j] ELSE s[j + 1]
    OBVIOUS
  <2>1. CASE j < i
    <3>1. j \in 1 .. i - 1 BY <1>1, <2>1
    <3> QED BY <1>2, <1>5, <2>1, <3>1
  <2>2. CASE ~(j < i)
    <3>1. j \in i .. Len(s) - 1 /\ j - (i - 1) \in 1 .. Len(s) - i
          /\ i + (j - (i - 1)) = j + 1
      BY <1>1, <2>2
    <3> QED BY <1>3, <1>5, <2>2, <3>1
  <2> QED BY <2>1, <2>2
<1>7. Distinct(t)
  <2> SUFFICES ASSUME NEW j \in DOMAIN t, NEW k \in DOMAIN t, t[j].orderRef = t[k].orderRef
               PROVE  j = k
    BY DEF Distinct
  <2> DEFINE place(n) == IF n < i THEN n ELSE n + 1
  <2>1. place(j) \in DOMAIN s /\ place(k) \in DOMAIN s
        /\ t[j] = s[place(j)] /\ t[k] = s[place(k)]
    BY <1>1, <1>5, <1>6
  <2>2. place(j) = place(k)
    <3> HIDE DEF place
    <3> QED BY <2>1 DEF Distinct
  <2> QED BY <1>1, <1>5, <2>2
<1>8. \A x : x \in Range(t) <=> x \in Range(s) /\ x # s[i]
  <2>1. ASSUME NEW j \in DOMAIN t PROVE t[j] \in Range(s) /\ t[j] # s[i]
    <3>1. PICK k \in DOMAIN s : k # i /\ t[j] = s[k]
      <4>1. CASE j < i
        <5>1. j \in DOMAIN s /\ j # i BY <1>1, <1>5, <4>1
        <5> QED BY <1>5, <1>6, <4>1, <5>1
      <4>2. CASE ~(j < i)
        <5>1. j + 1 \in DOMAIN s /\ j + 1 # i BY <1>1, <1>5, <4>2
        <5> QED BY <1>5, <1>6, <4>2, <5>1
      <4> QED BY <4>1, <4>2
    <3> QED BY <3>1 DEF Distinct, Range
  <2>2. ASSUME NEW k \in DOMAIN s, k # i PROVE s[k] \in Range(t)
    <3>1. CASE k < i
      <4>1. k \in DOMAIN t /\ t[k] = s[k] BY <1>1, <1>5, <1>6, <3>1
      <4> QED BY <4>1 DEF Range
    <3>2. CASE ~(k < i)
      <4>1. k - 1 \in DOMAIN t /\ ~(k - 1 < i) /\ (k - 1) + 1 = k BY <1>1, <1>5, <2>2, <3>2
      <4>2. t[k - 1] = s[k] BY <1>5, <1>6, <4>1
      <4> QED BY <4>1, <4>2 DEF Range
    <3> QED BY <3>1, <3>2
  <2> QED BY <2>1, <2>2 DEF Range
<1>9. Range(t) = Range(s) \ {s[i]} BY <1>8
<1>10. ASSUME NEW side, InOrder(s, side), NEW j \in DOMAIN t, NEW k \in DOMAIN t, j < k
       PROVE  precedes(side, t[j], t[k])
  <2> DEFINE place(n) == IF n < i THEN n ELSE n + 1
  <2>1. /\ place(j) \in DOMAIN s /\ place(k) \in DOMAIN s /\ place(j) < place(k)
        /\ t[j] = s[place(j)] /\ t[k] = s[place(k)]
    BY <1>1, <1>5, <1>6, <1>10
  <2> HIDE DEF place
  <2> QED BY <1>10, <2>1 DEF InOrder
<1>11. \A side : InOrder(s, side) => InOrder(t, side) BY <1>10 DEF InOrder
<1> QED BY <1>5, <1>7, <1>9, <1>11 DEF t

\* The numbers that count on.
LEMMA ArrivedLater ==
  ASSUME NEW S, NEW refs \in Nat, NEW last \in Nat, Arrived(S, refs, last),
         S \in SUBSET EngineOrder, NEW more \in Nat
  PROVE  Arrived(S, refs, last + more)
<1>1. \A x \in S : x.sequence \in Nat BY OrderNumbers
<1> QED BY <1>1 DEF Arrived

\* What a call to accept makes of the book.
LEMMA AcceptStep ==
  ASSUME BookInv, NEW input \in Inputs, accept(input)
  PROVE  \E left :
           LET order == engineOrder(input)
               match == matched(order) IN
           /\ Matching(order, match, left) /\ ~goesOn(match)
           /\ SidesAfter(input, left, IF input.side = "buy" THEN sells' ELSE buys',
                                      IF input.side = "buy" THEN buys' ELSE sells')
<1>1. submitted < MaxOrders BY DEF accept
<1>2. IF input.side = "buy" THEN opposite(otherSide(input.side)) = buys
                            ELSE opposite(otherSide(input.side)) = sells
  BY DEF opposite, otherSide
<1>3. LET match == matched(engineOrder(input)) IN
      /\ (IF input.side = "buy" THEN sells' ELSE buys') = match.makers
      /\ (IF input.side = "buy" THEN buys' ELSE sells')
           = pushed(opposite(otherSide(input.side)), match.taker)
  BY <1>2 DEF accept
<1> QED BY <1>1, <1>3, BookAfter

\* A call to accept keeps the invariant.
LEMMA AcceptKeepsBook ==
  ASSUME BookInv, NEW input \in Inputs, accept(input)
  PROVE  BookInv'
<1> DEFINE order == engineOrder(input)
           match == matched(order)
<1>1. PICK left : /\ Matching(order, match, left) /\ ~goesOn(match)
                  /\ SidesAfter(input, left, IF input.side = "buy" THEN sells' ELSE buys',
                                             IF input.side = "buy" THEN buys' ELSE sells')
  BY AcceptStep
<1>2. match.taker \in EngineOrder /\ Len(match.trades) \in Nat BY <1>1 DEF Matching
<1>3. /\ sequence' = sequence + 1 + Len(match.trades) /\ submitted' = submitted + 1
      /\ result'.accepted = match.taker
      /\ submitted < MaxOrders
  BY DEF accept
<1> HIDE DEF order, match
<1>4. input.side \in Sides BY DEF Inputs
<1>5. Holds(buys', "buy") /\ Holds(sells', "sell")
  BY <1>1, <1>4 DEF SidesAfter, otherSide, Sides
<1>6. Arrived(Range(buys') \cup Range(sells'), submitted', sequence')
  <2>1. Arrived(Range(buys') \cup Range(sells'), submitted + 1, sequence + 1)
    <3>1. CASE input.side = "buy"
      <4>1. Arrived(Range(sells') \cup Range(buys'), submitted + 1, sequence + 1)
        BY <1>1, <3>1 DEF SidesAfter
      <4>2. Range(sells') \cup Range(buys') = Range(buys') \cup Range(sells') OBVIOUS
      <4> QED BY <4>1, <4>2
    <3>2. CASE input.side # "buy" BY <1>1, <3>2 DEF SidesAfter
    <3> QED BY <3>1, <3>2
  <2>2. Range(buys') \cup Range(sells') \in SUBSET EngineOrder
    BY <1>5 DEF Holds, Range
  <2>3. sequence + 1 \in Nat /\ submitted + 1 \in Nat BY MaxOrdersIsNatural DEF BookInv
  <2>4. sequence' = (sequence + 1) + Len(match.trades) /\ submitted' = submitted + 1
    BY <1>2, <1>3 DEF BookInv
  <2> QED BY <1>2, <2>1, <2>2, <2>3, <2>4, ArrivedLater
<1>7. sequence' \in Nat /\ submitted' \in 0 .. MaxOrders
  <2>1. sequence \in Nat /\ submitted \in 0 .. MaxOrders BY DEF BookInv
  <2>2. submitted + 1 \in 0 .. MaxOrders BY <1>3, <2>1, MaxOrdersIsNatural
  <2>3. sequence' = sequence + 1 + Len(match.trades) /\ submitted' = submitted + 1 BY <1>3
  <2>4. \A n \in Nat : sequence + 1 + n \in Nat BY <2>1
  <2>5. sequence + 1 + Len(match.trades) \in Nat BY <1>2, <2>4
  <2> QED BY <2>2, <2>3, <2>5
<1> QED BY <1>2, <1>3, <1>5, <1>6, <1>7
      DEF BookInv, Holds, Distinct, InOrder, Arrived, InArrival

\* And a call to cancel.
LEMMA CancelKeepsBook ==
  ASSUME BookInv, NEW orderRef, NEW userRef, cancel(orderRef, userRef)
  PROVE  BookInv'
<1>1. \/ \E i \in DOMAIN buys : buys' = RemoveAt(buys, i) /\ sells' = sells
      \/ \E i \in DOMAIN sells : sells' = RemoveAt(sells, i) /\ buys' = buys
  BY DEF cancel
<1>2. sequence' = sequence /\ result' = result /\ submitted' = submitted BY DEF cancel
<1>3. /\ Holds(buys', "buy") /\ Holds(sells', "sell")
      /\ Range(buys') \cup Range(sells') \in SUBSET (Range(buys) \cup Range(sells))
  <2>1. CASE \E i \in DOMAIN buys : buys' = RemoveAt(buys, i) /\ sells' = sells
    <3>1. PICK i \in DOMAIN buys : buys' = RemoveAt(buys, i) /\ sells' = sells BY <2>1
    <3>2. /\ buys' \in Seq(EngineOrder) /\ Distinct(buys')
          /\ Range(buys') = Range(buys) \ {buys[i]} /\ InOrder(buys', "buy")
      BY <3>1, OneRemoved DEF BookInv, Holds
    <3> QED BY <3>1, <3>2 DEF BookInv, Holds
  <2>2. CASE \E i \in DOMAIN sells : sells' = RemoveAt(sells, i) /\ buys' = buys
    <3>1. PICK i \in DOMAIN sells : sells' = RemoveAt(sells, i) /\ buys' = buys BY <2>2
    <3>2. /\ sells' \in Seq(EngineOrder) /\ Distinct(sells')
          /\ Range(sells') = Range(sells) \ {sells[i]} /\ InOrder(sells', "sell")
      BY <3>1, OneRemoved DEF BookInv, Holds
    <3> QED BY <3>1, <3>2 DEF BookInv, Holds
  <2> QED BY <1>1, <2>1, <2>2
<1>4. Arrived(Range(buys') \cup Range(sells'), submitted', sequence')
  BY <1>2, <1>3 DEF BookInv, Arrived, InArrival
<1> QED BY <1>2, <1>3, <1>4 DEF BookInv, Holds, Distinct, InOrder, Arrived, InArrival

\* An empty book has it.
LEMMA BookStarts == Init => BookInv
<1> SUFFICES ASSUME Init PROVE BookInv OBVIOUS
<1>1. Range(buys) = {} /\ Range(sells) = {} BY DEF Init, Range
<1>2. Holds(buys, "buy") /\ Holds(sells, "sell") BY <1>1 DEF Init, Holds, Distinct, InOrder
<1> QED BY <1>1, <1>2, MaxOrdersIsNatural DEF Init, BookInv, Arrived, InArrival

\* So every step keeps it.
LEMMA BookKept == BookInv /\ [Next]_vars => BookInv'
<1> SUFFICES ASSUME BookInv, [Next]_vars PROVE BookInv' OBVIOUS
<1>1. CASE UNCHANGED vars
  <2>1. /\ buys' = buys /\ sells' = sells /\ sequence' = sequence /\ submitted' = submitted
        /\ result' = result
    BY <1>1 DEF vars
  <2> QED BY <2>1 DEF BookInv, Holds, Distinct, InOrder, Arrived, InArrival
<1>2. ASSUME NEW input \in Inputs, accept(input) PROVE BookInv' BY <1>2, AcceptKeepsBook
<1>3. ASSUME NEW orderRef, NEW userRef, cancel(orderRef, userRef) PROVE BookInv'
  BY <1>3, CancelKeepsBook
<1> QED BY <1>1, <1>2, <1>3 DEF Next

\* Of every state of the book: the two arrays hold open orders of their side, each
\* once, and their refs and sequences tell the same order of arrival.
THEOREM BookInvariant == Spec => []BookInv
<1> QED BY BookStarts, BookKept, PTL DEF Spec

\* The arrays of the book hold orders, open ones, of the side they are for.
THEOREM BookTyped == Spec => []TypeOK
<1> QED BY BookInvariant, BookIsTyped, PTL

\* Both arrays are in the order of price, then time.
SidesInOrder == InOrder(buys, "buy") /\ InOrder(sells, "sell")

\* So the loop meets the best order first whether it has just sorted or not, and
\* snapshot, which takes the first price levels without sorting, shows the best ones,
\* although makers shrink in place and a cancelled order leaves from the middle.
THEOREM BestOrdersFirst == Spec => []SidesInOrder
<1>1. BookInv => SidesInOrder BY DEF BookInv, Holds, SidesInOrder
<1> QED BY <1>1, BookInvariant, PTL

-----------------------------------------------------------------------------
(* The trades of a call.                                                   *)

\* Sums over one place and over none.
LEMMA SumOverOne ==
  ASSUME NEW f, NEW a, DOMAIN f = {a}, f[a] \in Int
  PROVE  SumFunction(f) = f[a]
BY SumOfOne DEF SumFunction

\* And none.
LEMMA SumOverNone ==
  ASSUME NEW f, DOMAIN f = {}
  PROVE  SumFunction(f) = 0
BY SumOfNone DEF SumFunction

\* What the orders of S that have the ref have left, and what the trades took.
RestOf(S, orderRef) ==
  LET rest == {order \in S : order.orderRef = orderRef} IN
  SumFunction([order \in rest |-> order.remainingQuantity])

TakenFrom(trades, orderRef) ==
  LET from == {i \in DOMAIN trades : trades[i].makerOrderRef = orderRef} IN
  SumFunction([i \in from |-> trades[i].quantity])

\* Only the order with the ref has a rest.
LEMMA RestOfOne ==
  ASSUME NEW S, NEW order \in S, order.remainingQuantity \in Int,
         \A other \in S : other.orderRef = order.orderRef => other = order
  PROVE  RestOf(S, order.orderRef) = order.remainingQuantity
<1> DEFINE f == [x \in {o \in S : o.orderRef = order.orderRef} |-> x.remainingQuantity]
<1>1. {o \in S : o.orderRef = order.orderRef} = {order} OBVIOUS
<1>2. DOMAIN f = {order} /\ f[order] = order.remainingQuantity BY <1>1
<1> HIDE DEF f
<1>3. SumFunction(f) = order.remainingQuantity BY <1>2, SumOverOne
<1> QED BY <1>3 DEF RestOf, f

\* Without one there is none.
LEMMA RestOfNone ==
  ASSUME NEW S, NEW orderRef, \A other \in S : other.orderRef # orderRef
  PROVE  RestOf(S, orderRef) = 0
<1> DEFINE f == [x \in {o \in S : o.orderRef = orderRef} |-> x.remainingQuantity]
<1>1. DOMAIN f = {} OBVIOUS
<1> HIDE DEF f
<1>2. SumFunction(f) = 0 BY <1>1, SumOverNone
<1> QED BY <1>2 DEF RestOf, f

\* Only one trade took from the order.
LEMMA TakenOnce ==
  ASSUME NEW trades, NEW orderRef, NEW i \in DOMAIN trades, trades[i].quantity \in Int,
         \A j \in DOMAIN trades : trades[j].makerOrderRef = orderRef <=> j = i
  PROVE  TakenFrom(trades, orderRef) = trades[i].quantity
<1> DEFINE f == [k \in {j \in DOMAIN trades : trades[j].makerOrderRef = orderRef}
                   |-> trades[k].quantity]
<1>1. {j \in DOMAIN trades : trades[j].makerOrderRef = orderRef} = {i} OBVIOUS
<1>2. DOMAIN f = {i} /\ f[i] = trades[i].quantity BY <1>1
<1> HIDE DEF f
<1>3. SumFunction(f) = trades[i].quantity BY <1>2, SumOverOne
<1> QED BY <1>3 DEF TakenFrom, f

\* Without one nothing was taken.
LEMMA TakenNever ==
  ASSUME NEW trades, NEW orderRef, \A j \in DOMAIN trades : trades[j].makerOrderRef # orderRef
  PROVE  TakenFrom(trades, orderRef) = 0
<1> DEFINE f == [k \in {j \in DOMAIN trades : trades[j].makerOrderRef = orderRef}
                   |-> trades[k].quantity]
<1>1. DOMAIN f = {} OBVIOUS
<1> HIDE DEF f
<1>2. SumFunction(f) = 0 BY <1>1, SumOverNone
<1> QED BY <1>2 DEF TakenFrom, f

\* The book after a call, as sets.
LEMMA BookAsSets ==
  ASSUME BookInv, NEW input \in Inputs, accept(input)
  PROVE  LET order == engineOrder(input)
             match == matched(order) IN
         \E left :
           /\ Matching(order, match, left) /\ ~goesOn(match)
           /\ \A x : x \in Range(buys') \cup Range(sells') <=>
                       \/ x \in MakersLeft(order, left)
                       \/ x \in Range(opposite(otherSide(input.side)))
                       \/ rests(match.taker) /\ x = match.taker
           /\ InArrival(Range(buys') \cup Range(sells'))
<1> DEFINE order == engineOrder(input)
           match == matched(order)
<1>1. PICK left : /\ Matching(order, match, left) /\ ~goesOn(match)
                  /\ SidesAfter(input, left, IF input.side = "buy" THEN sells' ELSE buys',
                                             IF input.side = "buy" THEN buys' ELSE sells')
  BY AcceptStep
<1>2. \A x : x \in Range(buys') \cup Range(sells') <=>
               \/ x \in MakersLeft(order, left)
               \/ x \in Range(opposite(otherSide(input.side)))
               \/ rests(match.taker) /\ x = match.taker
  <2> HIDE DEF order, match
  <2> QED BY <1>1 DEF SidesAfter, order, match
<1>3. BookInv' BY AcceptKeepsBook
<1>4. InArrival(Range(buys') \cup Range(sells'))
  BY <1>3 DEF BookInv, Arrived, InArrival
<1> QED BY <1>1, <1>2, <1>4

\* Of one call: what an order had is what its trades took and what is left of it.
LEMMA TradesExplainCall ==
  ASSUME BookInv, NEW input \in Inputs, accept(input)
  PROVE  /\ \A order \in Range(buys) \cup Range(sells) :
              order.remainingQuantity =
                TakenFrom(result'.trades, order.orderRef)
                  + RestOf(Range(buys') \cup Range(sells'), order.orderRef)
         /\ \A trade \in Range(result'.trades) :
              \E order \in Range(buys) \cup Range(sells) :
                 /\ order.orderRef = trade.makerOrderRef
                 /\ order.priceAtoms = trade.priceAtoms
<1> DEFINE order == engineOrder(input)
           match == matched(order)
           C == crossing(order)
           side == Range(opposite(input.side))
           own == Range(opposite(otherSide(input.side)))
           book == Range(buys') \cup Range(sells')
<1>1. PICK left : /\ Matching(order, match, left)
                  /\ \A x : x \in book <=> \/ x \in MakersLeft(order, left)
                                           \/ x \in own
                                           \/ rests(match.taker) /\ x = match.taker
                  /\ InArrival(book)
  BY BookAsSets
<1>2. /\ Takes(order) /\ order.side = input.side
      /\ own \cup side = Range(buys) \cup Range(sells)
      /\ Holds(opposite(otherSide(input.side)), input.side)
      /\ Holds(opposite(input.side), otherSide(input.side))
  BY OrderBrought DEF accept
<1>3. InArrival(own \cup side) BY <1>2 DEF BookInv, Arrived
<1>4. result'.trades = match.trades BY DEF accept
<1> HIDE DEF order, match, own, side, book
<1>5. C \in SUBSET side /\ side \in SUBSET EngineOrder
  BY <1>2, CrossingOrders DEF side
<1>6. own \in SUBSET EngineOrder BY <1>2 DEF Holds, Range, own
<1>7. own \cap side = {}
  BY <1>2 DEF Holds, own, side, otherSide
<1>8. /\ left \in [C -> Nat] /\ \A m \in C : left[m] <= m.remainingQuantity
      /\ match.trades \in Seq(EngineTrade) /\ TradesTell(order, match.trades, left)
  BY <1>1 DEF Matching
<1> HIDE DEF C
<1>9. \A x \in book \cup own \cup side : x.orderRef \in Nat => TRUE OBVIOUS
<1>10. \A i \in DOMAIN match.trades :
         \E m \in C : /\ match.trades[i].makerOrderRef = m.orderRef
                      /\ match.trades[i].priceAtoms = m.priceAtoms
                      /\ left[m] < m.remainingQuantity
  BY <1>8 DEF TradesTell, C
<1>11. ASSUME NEW x \in own \cup side, x \notin C
       PROVE  x.remainingQuantity = TakenFrom(match.trades, x.orderRef)
                                      + RestOf(book, x.orderRef)
  <2>1. \A j \in DOMAIN match.trades : match.trades[j].makerOrderRef # x.orderRef
    BY <1>3, <1>5, <1>10, <1>11 DEF InArrival
  <2>2. TakenFrom(match.trades, x.orderRef) = 0 BY <2>1, TakenNever
  <2>3. x \in book BY <1>1, <1>2, <1>11 DEF MakersLeft, C, side
  <2>4. x.remainingQuantity \in Nat BY <1>5, <1>6, <1>11, OrderNumbers
  <2>5. \A y \in book : y.orderRef = x.orderRef => y = x BY <1>1, <2>3 DEF InArrival
  <2>6. RestOf(book, x.orderRef) = x.remainingQuantity BY <2>3, <2>4, <2>5, RestOfOne
  <2> QED BY <2>2, <2>4, <2>6
<1>12. ASSUME NEW x \in C
       PROVE  x.remainingQuantity = TakenFrom(match.trades, x.orderRef)
                                      + RestOf(book, x.orderRef)
  <2>1. x \in EngineOrder /\ x.remainingQuantity \in Nat /\ left[x] \in Nat
        /\ left[x] <= x.remainingQuantity /\ x.orderRef \in Nat
    BY <1>5, <1>8, <1>12, OrderNumbers
  <2>2. RestOf(book, x.orderRef) = left[x]
    <3> DEFINE o == Left(x, left[x])
    <3>1. o.remainingQuantity = left[x] /\ o.orderRef = x.orderRef BY <2>1, LeftOrder
    <3>2. CASE left[x] > 0
      <4>1. o \in book BY <1>1, <3>2 DEF MakersLeft, C
      <4>2. \A y \in book : y.orderRef = o.orderRef => y = o
        <5> HIDE DEF o
        <5> QED BY <1>1, <4>1 DEF InArrival
      <4>3. RestOf(book, o.orderRef) = o.remainingQuantity
        <5> HIDE DEF o
        <5> QED BY <2>1, <3>1, <4>1, <4>2, RestOfOne
      <4> QED BY <3>1, <4>3
    <3>3. CASE ~(left[x] > 0)
      <4>1. ASSUME NEW y \in book, y.orderRef = x.orderRef PROVE FALSE
        <5>1. CASE y \in MakersLeft(order, left)
          <6>1. left[x] > 0
            BY <1>2, <1>5, <1>8, <4>1, <5>1, LeftInArrival DEF C, side
          <6> QED BY <3>3, <6>1
        <5>2. CASE y \in own
          BY <1>3, <1>5, <1>7, <4>1, <5>2 DEF InArrival
        <5>3. CASE y = match.taker
          <6>1. y.orderRef = submitted + 1
            <7>1. order \in EngineOrder /\ order.orderRef = submitted + 1
              BY <1>2 DEF Takes, order, engineOrder
            <7>2. y = Left(order, y.remainingQuantity) /\ y \in EngineOrder
              BY <1>1, <5>3 DEF Matching
            <7> QED BY <7>1, <7>2, OrderNumbers, LeftOrder
          <6>2. x.orderRef <= submitted /\ submitted \in Nat
            BY <1>2, <1>5, MaxOrdersIsNatural DEF BookInv, Arrived
          <6> QED BY <2>1, <4>1, <6>1, <6>2
        <5> QED BY <1>1, <4>1, <5>1, <5>2, <5>3
      <4>2. RestOf(book, x.orderRef) = 0 BY <4>1, RestOfNone
      <4> QED BY <2>1, <3>3, <4>2
    <3> QED BY <3>2, <3>3
  <2>3. TakenFrom(match.trades, x.orderRef) = x.remainingQuantity - left[x]
    <3>1. CASE left[x] < x.remainingQuantity
      <4>1. PICK i \in DOMAIN match.trades :
              /\ match.trades[i].quantity = x.remainingQuantity - left[x]
              /\ \A j \in DOMAIN match.trades :
                   match.trades[j].makerOrderRef = x.orderRef <=> j = i
        BY <1>8, <3>1 DEF TradesTell, C
      <4> QED BY <2>1, <4>1, TakenOnce
    <3>2. CASE ~(left[x] < x.remainingQuantity)
      <4>1. \A j \in DOMAIN match.trades : match.trades[j].makerOrderRef # x.orderRef
        <5> SUFFICES ASSUME NEW j \in DOMAIN match.trades,
                            match.trades[j].makerOrderRef = x.orderRef
                     PROVE  FALSE
          OBVIOUS
        <5>1. PICK m \in C : match.trades[j].makerOrderRef = m.orderRef
                             /\ left[m] < m.remainingQuantity
          BY <1>10
        <5>2. m = x BY <1>3, <1>5, <5>1 DEF InArrival
        <5> QED BY <3>2, <5>1, <5>2
      <4>2. TakenFrom(match.trades, x.orderRef) = 0 BY <4>1, TakenNever
      <4> QED BY <2>1, <3>2, <4>2
    <3> QED BY <3>1, <3>2
  <2> QED BY <2>1, <2>2, <2>3
<1>13. \A x \in Range(buys) \cup Range(sells) :
         x.remainingQuantity = TakenFrom(match.trades, x.orderRef) + RestOf(book, x.orderRef)
  BY <1>2, <1>11, <1>12
<1>14. \A trade \in Range(match.trades) :
         \E x \in Range(buys) \cup Range(sells) :
            x.orderRef = trade.makerOrderRef /\ x.priceAtoms = trade.priceAtoms
  BY <1>2, <1>5, <1>10 DEF Range
<1> QED BY <1>4, <1>13, <1>14 DEF book

\* Whatever the matching loop does to the book, the trades it returns tell: each order
\* has lost what the trades with it say, at its own price, and no other order anything.
THEOREM TradesTellAll == Spec => TradesExplainBook
<1> DEFINE Tells ==
      submitted' # submitted =>
        /\ \A order \in Range(buys) \cup Range(sells) :
              order.remainingQuantity =
                Given(order.orderRef)' + Remaining(order.orderRef)'
        /\ \A trade \in Range(result'.trades) :
              \E order \in Range(buys) \cup Range(sells) :
                 /\ order.orderRef = trade.makerOrderRef
                 /\ order.priceAtoms = trade.priceAtoms
<1>1. ASSUME BookInv, NEW input \in Inputs, accept(input) PROVE Tells
  <2>1. \A orderRef : /\ Given(orderRef)' = TakenFrom(result'.trades, orderRef)
                      /\ Remaining(orderRef)'
                           = RestOf(Range(buys') \cup Range(sells'), orderRef)
    BY DEF Given, Remaining, TakenFrom, RestOf
  <2> QED BY <1>1, <2>1, TradesExplainCall
<1>2. BookInv /\ Next => Tells
  <2>1. ASSUME NEW orderRef, NEW userRef, cancel(orderRef, userRef) PROVE Tells
    BY <2>1 DEF cancel
  <2> QED BY <1>1, <2>1 DEF Next
<1>3. BookInv /\ [Next]_vars => [Tells]_vars BY <1>2
<1> QED BY <1>3, BookInvariant, PTL DEF Spec, TradesExplainBook

-----------------------------------------------------------------------------
(* Between two calls the book is not crossed.                              *)

\* Nobody offers to sell at a price that somebody offers to pay.
Uncrossed ==
  \A bid \in Range(buys), ask \in Range(sells) : bid.priceAtoms < ask.priceAtoms

\* An order that rests crosses nothing that is left.
LEMMA RestCrossesNothing ==
  ASSUME NEW order, Takes(order), NEW match, NEW left, Matching(order, match, left),
         ~goesOn(match), match.taker.remainingQuantity > 0, NEW x \in MakersLeft(order, left)
  PROVE  ~crosses(order.side, order.priceAtoms, x.priceAtoms)
<1>1. \A m \in crossing(order) : left[m] = 0 BY MatchingEnds
<1>2. x \in Range(opposite(order.side)) \ crossing(order) BY <1>1 DEF MakersLeft
<1> QED BY <1>2 DEF crossing

\* The orders that are left and the one that rests do not cross.
LEMMA AcceptUncrosses ==
  ASSUME BookInv, Uncrossed, NEW input \in Inputs, accept(input)
  PROVE  Uncrossed'
<1> DEFINE order == engineOrder(input)
           match == matched(order)
           makers == IF input.side = "buy" THEN sells' ELSE buys'
           after == IF input.side = "buy" THEN buys' ELSE sells'
           side == Range(opposite(input.side))
           own == Range(opposite(otherSide(input.side)))
<1>1. PICK left : /\ Matching(order, match, left) /\ ~goesOn(match)
                  /\ SidesAfter(input, left, makers, after)
  BY AcceptStep
<1>2. /\ Takes(order) /\ order.side = input.side
      /\ order.priceAtoms = input.priceAtoms
      /\ Holds(opposite(otherSide(input.side)), input.side)
      /\ IF input.side = "buy"
         THEN own = Range(buys) /\ side = Range(sells)
         ELSE own = Range(sells) /\ side = Range(buys)
  BY OrderBrought DEF accept
<1>3. /\ Range(makers) = MakersLeft(order, left)
      /\ \A x : x \in Range(after) <=> x \in own \/ (rests(match.taker) /\ x = match.taker)
  <2> HIDE DEF makers, after
  <2> QED BY <1>1 DEF SidesAfter
<1> HIDE DEF order, match
<1>4. match.taker.priceAtoms = order.priceAtoms
  <2>1. /\ match.taker = Left(order, match.taker.remainingQuantity)
        /\ match.taker.remainingQuantity \in Nat /\ order \in EngineOrder
    BY <1>1, <1>2, OrderNumbers DEF Matching, Takes
  <2> QED BY <2>1, LeftOrder
<1>5. left \in [crossing(order) -> Nat] BY <1>1 DEF Matching
<1>6. \A x \in MakersLeft(order, left) :
        /\ x \in EngineOrder /\ \E m \in side : x.priceAtoms = m.priceAtoms
  BY <1>2, <1>5, LeftInArrival
<1>7. rests(match.taker) =>
        \A x \in MakersLeft(order, left) : ~crosses(order.side, order.priceAtoms, x.priceAtoms)
  BY <1>1, <1>2, RestCrossesNothing DEF rests
<1>8. \A x \in MakersLeft(order, left) : x.priceAtoms \in Nat BY <1>6, OrderNumbers
<1>9. order.priceAtoms \in Nat BY <1>2, OrderNumbers DEF Takes
<1>10. ASSUME NEW x \in MakersLeft(order, left), NEW y \in Range(after)
       PROVE  IF input.side = "buy" THEN y.priceAtoms < x.priceAtoms
                                    ELSE x.priceAtoms < y.priceAtoms
  <2>1. CASE y \in own BY <1>2, <1>6, <2>1 DEF Uncrossed
  <2>2. CASE rests(match.taker) /\ y = match.taker
    BY <1>2, <1>4, <1>7, <1>8, <1>9, <2>2 DEF crosses
  <2> QED BY <1>3, <2>1, <2>2
<1>11. \A bid \in Range(buys'), ask \in Range(sells') : bid.priceAtoms < ask.priceAtoms
  <2>1. CASE input.side = "buy" BY <1>3, <1>10, <2>1
  <2>2. CASE input.side # "buy" BY <1>3, <1>10, <2>2
  <2> QED BY <2>1, <2>2
<1> QED BY <1>11 DEF Uncrossed

\* A taker rests only when every maker it crosses is empty, however the loop came to
\* its end, so no two orders of the book could trade with each other.
THEOREM BookNeverCrossed == Spec => []Uncrossed
<1>1. Init => Uncrossed BY DEF Init, Uncrossed, Range
<1>2. BookInv /\ Uncrossed /\ [Next]_vars => Uncrossed'
  <2> SUFFICES ASSUME BookInv, Uncrossed, [Next]_vars PROVE Uncrossed' OBVIOUS
  <2>1. CASE UNCHANGED vars BY <2>1 DEF vars, Uncrossed
  <2>2. ASSUME NEW input \in Inputs, accept(input) PROVE Uncrossed'
    BY <2>2, AcceptUncrosses
  <2>3. ASSUME NEW orderRef, NEW userRef, cancel(orderRef, userRef) PROVE Uncrossed'
    <3>1. /\ Range(buys') \in SUBSET Range(buys) /\ Range(sells') \in SUBSET Range(sells)
      BY <2>3, OneRemoved DEF cancel, BookInv, Holds
    <3> QED BY <3>1 DEF Uncrossed
  <2> QED BY <2>1, <2>2, <2>3 DEF Next
<1> QED BY <1>1, <1>2, BookInvariant, PTL DEF Spec

-----------------------------------------------------------------------------
(* The book as the exchange that PriceTimeExchange describes.              *)

\* Both modules sum alike.
LEMMA ExchangeSums ==
  ASSUME NEW f
  PROVE  Exchange!SumFunction(f) = SumFunction(f)
BY DEF Exchange!SumFunction, SumFunction, Exchange!SumFunctionOnSet, SumFunctionOnSet,
       Exchange!FoldFunctionOnSet, FoldFunctionOnSet, Exchange!MapThenFoldSet, MapThenFoldSet

\* An order as the exchange sees it.
Seen(order) ==
  [ref |-> order.orderRef, user |-> order.userRef, side |-> order.side,
   price |-> order.priceAtoms, remaining |-> order.remainingQuantity]

\* The orders of S as the exchange sees them.
AllSeen(S) == {Seen(order) : order \in S}

\* The open orders of the exchange are those of the two arrays.
LEMMA OpenIsSeen == OpenOrders = AllSeen(Range(buys) \cup Range(sells))
BY DEF OpenOrders, AllSeen, Seen

\* The exchange tells orders of a book apart.
LEMMA SeenApart ==
  ASSUME NEW S, InArrival(S), NEW a \in S, NEW b \in S, Seen(a) = Seen(b)
  PROVE  a = b
BY DEF InArrival, Seen

\* A sum over orders, taken over what the exchange sees of them.
LEMMA SumOfSeen ==
  ASSUME NEW S, IsFiniteSet(S), InArrival(S), NEW f, NEW g, DOMAIN g = AllSeen(S),
         \A x \in S : f[x] \in Int /\ g[Seen(x)] = f[x]
  PROVE  Exchange!SumFunction(g) = SumFunctionOnSet(f, S)
<1> DEFINE name == [x \in S |-> Seen(x)]
<1>1. \A x \in S : name[x] = Seen(x) OBVIOUS
<1>2. {name[x] : x \in S} = AllSeen(S) BY DEF AllSeen
<1>3. \A x, y \in S : name[x] = name[y] => x = y BY SeenApart
<1> HIDE DEF name
<1>4. SumFunctionOnSet(g, {name[x] : x \in S}) = SumFunctionOnSet(f, S)
  BY <1>1, <1>3, SumRenamed
<1>5. Exchange!SumFunction(g) = SumFunctionOnSet(g, DOMAIN g)
  BY ExchangeSums DEF SumFunction
<1> QED BY <1>2, <1>4, <1>5

\* The makers of an order are the ones it crosses.
LEMMA MakersSeen ==
  ASSUME BookInv, NEW input \in Inputs, submitted < MaxOrders
  PROVE  Exchange!Makers(Seen(engineOrder(input))) = AllSeen(crossing(engineOrder(input)))
<1> DEFINE order == engineOrder(input)
           side == Range(opposite(input.side))
           own == Range(opposite(otherSide(input.side)))
<1>1. /\ order.side = input.side /\ order.priceAtoms = input.priceAtoms
      /\ Holds(opposite(otherSide(input.side)), input.side)
      /\ Holds(opposite(input.side), otherSide(input.side))
      /\ own \cup side = Range(buys) \cup Range(sells)
  BY OrderBrought
<1>2. input.side \in Sides BY DEF Inputs
<1> HIDE DEF order
<1>3. /\ \A m \in own : m.side = order.side
      /\ \A m \in side : m.side # order.side
  BY <1>1, <1>2 DEF Holds, otherSide, Sides
<1>4. crossing(order) = {m \in side : crosses(order.side, order.priceAtoms, m.priceAtoms)}
  BY <1>1 DEF crossing
<1> HIDE DEF side, own
<1>5. \A m : Exchange!Crosses(Seen(order), Seen(m))
               <=> crosses(order.side, order.priceAtoms, m.priceAtoms)
  BY DEF Exchange!Crosses, Seen, crosses
<1>6. \A m : Seen(m).side = m.side /\ Seen(order).side = order.side BY DEF Seen
<1>7. OpenOrders = AllSeen(own \cup side) BY <1>1, OpenIsSeen
<1>8. Exchange!Makers(Seen(order))
        = {a \in OpenOrders : a.side # Seen(order).side /\ Exchange!Crosses(Seen(order), a)}
  BY DEF Exchange!Makers
<1>9. ASSUME NEW a
      PROVE  a \in Exchange!Makers(Seen(order)) <=> a \in AllSeen(crossing(order))
  <2>1. ASSUME a \in Exchange!Makers(Seen(order)) PROVE a \in AllSeen(crossing(order))
    <3>1. PICK m \in own \cup side : a = Seen(m) BY <1>7, <1>8, <2>1 DEF AllSeen
    <3>2. m \in side BY <1>3, <1>6, <1>8, <2>1, <3>1
    <3>3. m \in crossing(order) BY <1>4, <1>5, <1>8, <2>1, <3>1, <3>2
    <3> QED BY <3>1, <3>3 DEF AllSeen
  <2>2. ASSUME a \in AllSeen(crossing(order)) PROVE a \in Exchange!Makers(Seen(order))
    <3>1. PICK m \in crossing(order) : a = Seen(m) BY <2>2 DEF AllSeen
    <3>2. m \in side /\ crosses(order.side, order.priceAtoms, m.priceAtoms) BY <1>4
    <3>3. a \in OpenOrders BY <1>7, <3>1, <3>2 DEF AllSeen
    <3> QED BY <1>3, <1>5, <1>6, <1>8, <3>1, <3>2, <3>3
  <2> QED BY <2>1, <2>2
<1>10. Exchange!Makers(Seen(order)) = AllSeen(crossing(order)) BY <1>9
<1> QED BY <1>10 DEF order

\* What the makers offer.
Offer(order) == [m \in crossing(order) |-> m.remainingQuantity]

\* The order takes what its makers offer, or all it asks for.
LEMMA QuantityTaken ==
  ASSUME NEW order, Takes(order), NEW match, NEW left, Matching(order, match, left),
         ~goesOn(match)
  PROVE  LET offered == SumFunctionOnSet(Offer(order), crossing(order))
             taken   == SumFunctionOnSet(Gave(order, left), crossing(order)) IN
         /\ offered \in Nat /\ taken \in Nat /\ order.remainingQuantity \in Nat
         /\ taken = (IF offered < order.remainingQuantity THEN offered
                                                          ELSE order.remainingQuantity)
         /\ match.taker.remainingQuantity = order.remainingQuantity - taken
         /\ \A m \in crossing(order) :
              /\ Gave(order, left)[m] \in 0 .. taken
              /\ m.remainingQuantity <= offered
<1> DEFINE C == crossing(order)
           gave == Gave(order, left)
           offer == Offer(order)
           rest == match.taker.remainingQuantity
<1>1. IsFiniteSet(C) /\ C \in SUBSET EngineOrder BY CrossingOrders
<1>2. left \in [C -> Nat] /\ \A m \in C : left[m] <= m.remainingQuantity BY DEF Matching
<1>3. \A m \in C : /\ gave[m] = m.remainingQuantity - left[m]
                   /\ offer[m] = m.remainingQuantity
  BY DEF Gave, Offer
<1>4. \A m \in C : /\ gave[m] \in Nat /\ offer[m] \in Nat /\ gave[m] <= offer[m]
                   /\ left[m] = 0 => gave[m] = offer[m]
  BY <1>1, <1>2, <1>3, OrderNumbers
<1>5. rest \in Nat /\ order.remainingQuantity \in Nat BY OrderNumbers DEF Matching, Takes
<1>6. order.remainingQuantity = rest + SumFunctionOnSet(gave, C) BY DEF Matching
<1>7. rest = 0 \/ \A m \in C : left[m] = 0 BY MatchingEnds
<1> HIDE DEF C, gave, offer, rest
<1>8. SumFunctionOnSet(offer, C) \in Nat /\ SumFunctionOnSet(gave, C) \in Nat
  BY <1>1, <1>4, SumNatural
<1>9. SumFunctionOnSet(gave, C) <= SumFunctionOnSet(offer, C) BY <1>1, <1>4, SumMonotone
<1>10. (\A m \in C : left[m] = 0) => SumFunctionOnSet(gave, C) = SumFunctionOnSet(offer, C)
  BY <1>1, <1>4, SumAgrees
<1>11. \A m \in C : gave[m] <= SumFunctionOnSet(gave, C)
                    /\ offer[m] <= SumFunctionOnSet(offer, C)
  BY <1>1, <1>4, SumPart
<1>12. \A m \in C : gave[m] \in 0 .. SumFunctionOnSet(gave, C)
                    /\ m.remainingQuantity <= SumFunctionOnSet(offer, C)
  BY <1>3, <1>4, <1>8, <1>11
<1> QED BY <1>5, <1>6, <1>7, <1>8, <1>9, <1>10, <1>12 DEF C, gave, offer, rest

\* The exchange and executableQuantity count the same offer.
LEMMA OfferSeen ==
  ASSUME BookInv, NEW input \in Inputs, submitted < MaxOrders
  PROVE  LET order == engineOrder(input)
             offered == SumFunctionOnSet(Offer(order), crossing(order)) IN
         /\ Exchange!Offered(Seen(order)) = offered
         /\ executableQuantity(input) = offered
<1> DEFINE order == engineOrder(input)
           makers == AllSeen(crossing(order))
           seen == [a \in makers |-> a.remaining]
<1>1. Takes(order) /\ crossing(order) = crossing(input) BY OrderBrought
<1>2. Exchange!Makers(Seen(order)) = makers BY MakersSeen
<1> HIDE DEF order
<1>3. Exchange!Offered(Seen(order)) = Exchange!SumFunction(seen)
  BY <1>2 DEF Exchange!Offered
<1>4. /\ crossing(order) \in SUBSET EngineOrder /\ IsFiniteSet(crossing(order))
      /\ InArrival(crossing(order))
  BY <1>1, CrossingOrders DEF Takes, InArrival
<1>5. \A m \in crossing(order) : /\ Offer(order)[m] \in Int
                                 /\ seen[Seen(m)] = Offer(order)[m]
  <2> SUFFICES ASSUME NEW m \in crossing(order)
               PROVE  Offer(order)[m] \in Int /\ seen[Seen(m)] = Offer(order)[m]
    OBVIOUS
  <2>1. Seen(m) \in makers BY DEF AllSeen
  <2>2. Seen(m).remaining = m.remainingQuantity BY DEF Seen
  <2>3. m.remainingQuantity \in Nat BY <1>4, OrderNumbers
  <2> HIDE DEF makers
  <2> QED BY <2>1, <2>2, <2>3 DEF Offer
<1>6. DOMAIN seen = makers OBVIOUS
<1> HIDE DEF seen
<1>7. Exchange!SumFunction(seen) = SumFunctionOnSet(Offer(order), crossing(order))
  BY <1>4, <1>5, <1>6, SumOfSeen
<1>8. executableQuantity(input) = SumFunctionOnSet(Offer(order), crossing(order))
  BY <1>1 DEF executableQuantity, SumFunction, Offer
<1> QED BY <1>3, <1>7, <1>8 DEF order

\* What the makers gave, as the exchange sees it.
FillSeen(order, left) ==
  [a \in AllSeen(crossing(order)) |->
     LET m == CHOOSE n \in crossing(order) : Seen(n) = a IN Gave(order, left)[m]]

\* Of a maker that is what it gave.
LEMMA FillOfMaker ==
  ASSUME NEW order, Takes(order), NEW left, NEW m \in crossing(order)
  PROVE  FillSeen(order, left)[Seen(m)] = Gave(order, left)[m]
<1>1. InArrival(crossing(order)) BY CrossingOrders DEF Takes, InArrival
<1>2. Seen(m) \in AllSeen(crossing(order)) BY DEF AllSeen
<1>3. (CHOOSE n \in crossing(order) : Seen(n) = Seen(m)) = m
  <2>1. \A n \in crossing(order) : Seen(n) = Seen(m) => n = m BY <1>1, SeenApart
  <2> QED BY <2>1
<1> QED BY <1>2, <1>3 DEF FillSeen

\* It is one the exchange allows.
LEMMA FillIsOne ==
  ASSUME NEW order, Takes(order), Holds(opposite(order.side), otherSide(order.side)),
         NEW match, NEW left, Matching(order, match, left), ~goesOn(match)
  PROVE  FillSeen(order, left)
           \in Exchange!Fills(AllSeen(crossing(order)),
                              SumFunctionOnSet(Gave(order, left), crossing(order)))
<1> DEFINE C == crossing(order)
           makers == AllSeen(C)
           gave == Gave(order, left)
           fill == FillSeen(order, left)
           taken == SumFunctionOnSet(gave, C)
<1>1. /\ C \in SUBSET EngineOrder /\ IsFiniteSet(C) /\ InArrival(C)
      /\ \A m \in C : m.side = otherSide(order.side)
  BY CrossingOrders DEF Takes, InArrival, Holds
<1>2. \A m \in C : fill[Seen(m)] = gave[m] BY FillOfMaker
<1>3. \A m \in C : gave[m] \in 0 .. taken BY QuantityTaken
<1>4. /\ left \in [C -> Nat] /\ InPriority(order, left)
      /\ \A m \in C : left[m] <= m.remainingQuantity
  BY DEF Matching
<1>5. \A m \in C : /\ gave[m] = m.remainingQuantity - left[m]
                   /\ m.remainingQuantity \in Nat /\ left[m] \in Nat
                   /\ m.orderRef \in Nat /\ m.sequence \in Nat /\ m.priceAtoms \in Nat
  BY <1>1, <1>4, OrderNumbers DEF Gave
<1>6. DOMAIN fill = makers /\ fill = [a \in makers |-> fill[a]] BY DEF FillSeen
<1>7. taken \in Nat BY QuantityTaken
<1>8. \A a \in makers : \E m \in C : a = Seen(m) BY DEF AllSeen
<1> HIDE DEF makers, gave, fill, taken
<1>9. \A a \in makers : fill[a] \in 0 .. taken /\ fill[a] <= a.remaining
  <2> SUFFICES ASSUME NEW m \in C
               PROVE  fill[Seen(m)] \in 0 .. taken /\ fill[Seen(m)] <= Seen(m).remaining
    BY <1>8
  <2>1. Seen(m).remaining = m.remainingQuantity BY DEF Seen
  <2> QED BY <1>2, <1>3, <1>4, <1>5, <2>1
<1>10. fill \in [makers -> 0 .. taken] BY <1>6, <1>9
<1>11. Exchange!SumFunction(fill) = taken
  <2>1. \A m \in C : gave[m] \in Int BY <1>3, <1>7
  <2>2. Exchange!SumFunction(fill) = SumFunctionOnSet(gave, C)
    <3> HIDE DEF C
    <3> QED BY <1>1, <1>2, <1>6, <2>1, SumOfSeen DEF makers
  <2> QED BY <2>2 DEF taken
<1>12. ASSUME NEW m \in C, NEW n \in C, Exchange!HasPriority(Seen(m), Seen(n)),
              fill[Seen(n)] > 0
       PROVE  fill[Seen(m)] = Seen(m).remaining
  <2>1. precedes(otherSide(order.side), m, n)
    <3>1. \/ IF m.side = "buy" THEN m.priceAtoms > n.priceAtoms
                               ELSE m.priceAtoms < n.priceAtoms
          \/ m.priceAtoms = n.priceAtoms /\ m.orderRef < n.orderRef
      BY <1>12 DEF Exchange!HasPriority, Seen
    <3>2. m.orderRef < n.orderRef => m.sequence < n.sequence BY <1>1 DEF InArrival
    <3> QED BY <1>1, <1>5, <3>1, <3>2 DEF precedes
  <2>2. left[n] < n.remainingQuantity BY <1>2, <1>5, <1>12
  <2>3. left[m] = 0 BY <1>4, <2>1, <2>2 DEF InPriority
  <2>4. Seen(m).remaining = m.remainingQuantity BY DEF Seen
  <2> QED BY <1>2, <1>5, <2>3, <2>4
<1>13. \A a, b \in makers : Exchange!HasPriority(a, b) /\ fill[b] > 0 => fill[a] = a.remaining
  BY <1>8, <1>12
<1>14. fill \in Exchange!Fills(makers, taken)
  BY <1>9, <1>10, <1>11, <1>13 DEF Exchange!Fills
<1> QED BY <1>14 DEF makers, gave, fill, taken

\* The orders that are open after the order has been placed.
OpenAfter(order, timeInForce, makers, fill, rest) ==
  (OpenOrders \ makers)
    \cup {[m EXCEPT !.remaining = @ - fill[m]] : m \in {n \in makers : fill[n] < n.remaining}}
    \cup {[order EXCEPT !.remaining = rest] :
             kept \in {TRUE} \cap {rest > 0 /\ timeInForce = "GTC"}}

\* An open order was not touched, or has something left, or is the one placed.
LEMMA InOpenAfter ==
  ASSUME NEW order, NEW timeInForce, NEW makers, NEW fill, NEW rest, NEW a
  PROVE  a \in OpenAfter(order, timeInForce, makers, fill, rest) <=>
           \/ a \in OpenOrders /\ a \notin makers
           \/ \E m \in makers : /\ fill[m] < m.remaining
                                /\ a = [m EXCEPT !.remaining = m.remaining - fill[m]]
           \/ rest > 0 /\ timeInForce = "GTC" /\ a = [order EXCEPT !.remaining = rest]
BY DEF OpenAfter

\* A maker with less left, as the exchange sees it.
LEMMA LeftSeen ==
  ASSUME NEW m \in EngineOrder, NEW rest \in Nat
  PROVE  Seen(Left(m, rest)) = [Seen(m) EXCEPT !.remaining = rest]
<1>1. LET order == Left(m, rest) IN
      /\ order.remainingQuantity = rest
      /\ order.orderRef = m.orderRef /\ order.userRef = m.userRef
      /\ order.side = m.side /\ order.priceAtoms = m.priceAtoms
  BY LeftOrder
<1> QED BY <1>1 DEF Seen

\* After a call the book is what the exchange makes of the order.
LEMMA OpenAfterCall ==
  ASSUME BookInv, NEW input \in Inputs, accept(input)
  PROVE  LET order == engineOrder(input)
             makers == AllSeen(crossing(order))
             taken == matched(order).taker.remainingQuantity IN
         \E fill \in Exchange!Fills(makers, order.remainingQuantity - taken) :
           OpenOrders' = OpenAfter(Seen(order), input.timeInForce, makers, fill, taken)
<1> DEFINE order == engineOrder(input)
           match == matched(order)
           C == crossing(order)
           makers == AllSeen(C)
           side == Range(opposite(input.side))
           own == Range(opposite(otherSide(input.side)))
           book == Range(buys') \cup Range(sells')
           rest == match.taker.remainingQuantity
<1>1. PICK left : /\ Matching(order, match, left) /\ ~goesOn(match)
                  /\ \A x : x \in book <=> \/ x \in MakersLeft(order, left)
                                           \/ x \in own
                                           \/ rests(match.taker) /\ x = match.taker
  BY BookAsSets
<1>2. /\ Takes(order) /\ order.side = input.side /\ order.timeInForce = input.timeInForce
      /\ own \cup side = Range(buys) \cup Range(sells)
      /\ Holds(opposite(otherSide(input.side)), input.side)
      /\ Holds(opposite(input.side), otherSide(input.side))
  BY OrderBrought DEF accept
<1>3. InArrival(own \cup side) BY <1>2 DEF BookInv, Arrived
<1>4. OpenOrders = AllSeen(own \cup side) BY <1>2, OpenIsSeen
<1>5. OpenOrders' = AllSeen(book) BY DEF OpenOrders, AllSeen, Seen
<1> HIDE DEF order, match
<1>6. /\ C \in SUBSET side /\ side \in SUBSET EngineOrder /\ order \in EngineOrder
      /\ MakersLeft(order, left)
           = (side \ C) \cup {Left(m, left[m]) : m \in {n \in C : left[n] > 0}}
  BY <1>2, CrossingOrders DEF MakersLeft, Takes
<1>7. own \cap side = {} BY <1>2 DEF Holds, otherSide
<1>8. left \in [C -> Nat] BY <1>1 DEF Matching
<1> DEFINE fill == FillSeen(order, left)
           gave == Gave(order, left)
           taken == SumFunctionOnSet(gave, C)
<1>9. /\ order.remainingQuantity \in Nat /\ taken \in Nat
      /\ rest = order.remainingQuantity - taken
  BY <1>1, <1>2, QuantityTaken
<1>10. fill \in Exchange!Fills(makers, taken) BY <1>1, <1>2, FillIsOne
<1>11. \A m \in C : fill[Seen(m)] = m.remainingQuantity - left[m]
  <2>1. \A m \in C : fill[Seen(m)] = gave[m] BY <1>2, FillOfMaker
  <2> QED BY <2>1 DEF Gave
<1>12. rest \in Nat /\ match.taker = Left(order, rest)
  BY <1>1, OrderNumbers DEF Matching
<1>13. Seen(match.taker) = [Seen(order) EXCEPT !.remaining = rest]
  <2> HIDE DEF rest
  <2> QED BY <1>6, <1>12, LeftSeen
<1>14. rests(match.taker) <=> rest > 0 /\ input.timeInForce = "GTC"
  <2>1. match.taker.timeInForce = order.timeInForce
    <3> HIDE DEF rest
    <3> QED BY <1>6, <1>12, LeftOrder
  <2> QED BY <1>2, <2>1 DEF rests
<1> HIDE DEF C, makers, side, own, book, rest, fill, gave, taken
<1> DEFINE after == OpenAfter(Seen(order), input.timeInForce, makers, fill, rest)
<1>15. \A a : a \in after <=>
           \/ a \in OpenOrders /\ a \notin makers
           \/ \E m \in makers : /\ fill[m] < m.remaining
                                /\ a = [m EXCEPT !.remaining = m.remaining - fill[m]]
           \/ rest > 0 /\ input.timeInForce = "GTC"
              /\ a = [Seen(order) EXCEPT !.remaining = rest]
  BY InOpenAfter
<1> HIDE DEF after
<1>16. \A m \in C : /\ Seen(m) \in makers /\ Seen(m).remaining = m.remainingQuantity
                    /\ m.remainingQuantity \in Nat /\ left[m] \in Nat
                    /\ fill[Seen(m)] < Seen(m).remaining <=> left[m] > 0
                    /\ Seen(m).remaining - fill[Seen(m)] = left[m]
  <2> SUFFICES ASSUME NEW m \in C
               PROVE  /\ Seen(m) \in makers /\ Seen(m).remaining = m.remainingQuantity
                      /\ m.remainingQuantity \in Nat /\ left[m] \in Nat
                      /\ fill[Seen(m)] < Seen(m).remaining <=> left[m] > 0
                      /\ Seen(m).remaining - fill[Seen(m)] = left[m]
    OBVIOUS
  <2>1. Seen(m) \in makers BY DEF makers, AllSeen
  <2>2. Seen(m).remaining = m.remainingQuantity BY DEF Seen
  <2>3. m.remainingQuantity \in Nat /\ left[m] \in Nat BY <1>6, <1>8, OrderNumbers
  <2> QED BY <1>11, <2>1, <2>2, <2>3
<1>17. \A x \in own \cup side : Seen(x) \in makers <=> x \in C
  <2>1. ASSUME NEW x \in own \cup side, Seen(x) \in makers PROVE x \in C
    <3>1. PICK m \in C : Seen(x) = Seen(m) BY <2>1 DEF makers, AllSeen
    <3>2. m \in own \cup side BY <1>6
    <3> QED BY <1>3, <3>1, <3>2, SeenApart
  <2> QED BY <1>16, <2>1
<1>18. ASSUME NEW x \in book PROVE Seen(x) \in after
  <2>1. CASE x \in own \cup side /\ x \notin C
    <3>1. Seen(x) \in OpenOrders BY <1>4, <2>1 DEF AllSeen
    <3> QED BY <1>15, <1>17, <2>1, <3>1
  <2>2. ASSUME NEW m \in C, left[m] > 0, x = Left(m, left[m]) PROVE Seen(x) \in after
    <3>1. Seen(x) = [Seen(m) EXCEPT !.remaining = left[m]]
      BY <1>6, <1>16, <2>2, LeftSeen
    <3>2. /\ Seen(m) \in makers /\ fill[Seen(m)] < Seen(m).remaining
          /\ Seen(m).remaining - fill[Seen(m)] = left[m]
      BY <1>16, <2>2
    <3> QED BY <1>15, <3>1, <3>2
  <2>3. CASE rests(match.taker) /\ x = match.taker BY <1>13, <1>14, <1>15, <2>3
  <2> QED BY <1>1, <1>6, <1>7, <2>1, <2>2, <2>3
<1>19. ASSUME NEW a \in after PROVE a \in AllSeen(book)
  <2>1. CASE a \in OpenOrders /\ a \notin makers
    <3>1. PICK x \in own \cup side : a = Seen(x) BY <1>4, <2>1 DEF AllSeen
    <3>2. x \notin C BY <1>17, <2>1, <3>1
    <3>3. x \in book BY <1>1, <1>6, <3>2
    <3> QED BY <3>1, <3>3 DEF AllSeen
  <2>2. ASSUME NEW b \in makers, fill[b] < b.remaining,
               a = [b EXCEPT !.remaining = b.remaining - fill[b]]
        PROVE  a \in AllSeen(book)
    <3>1. PICK m \in C : b = Seen(m) BY DEF makers, AllSeen
    <3>2. left[m] > 0 /\ a = [Seen(m) EXCEPT !.remaining = left[m]] BY <1>16, <2>2, <3>1
    <3>3. a = Seen(Left(m, left[m])) BY <1>6, <1>16, <3>2, LeftSeen
    <3>4. Left(m, left[m]) \in book BY <1>1, <1>6, <3>2
    <3> QED BY <3>3, <3>4 DEF AllSeen
  <2>3. CASE rest > 0 /\ input.timeInForce = "GTC"
             /\ a = [Seen(order) EXCEPT !.remaining = rest]
    <3>1. a = Seen(match.taker) /\ match.taker \in book BY <1>1, <1>13, <1>14, <2>3
    <3> QED BY <3>1 DEF AllSeen
  <2> QED BY <1>15, <2>1, <2>2, <2>3
<1>20. OpenOrders' = after
  <2>1. \A a \in AllSeen(book) : a \in after BY <1>18 DEF AllSeen
  <2> QED BY <1>5, <1>19, <2>1
<1>21. order.remainingQuantity - rest = taken BY <1>9
<1>22. fill \in Exchange!Fills(makers, order.remainingQuantity - rest) BY <1>10, <1>21
<1> QED BY <1>20, <1>22 DEF after, order, match, makers, C, rest

\* A call to accept that does not throw places the order on the exchange.
LEMMA AcceptIsPlace ==
  ASSUME BookInv, NEW input \in Inputs, accept(input)
  PROVE  Exchange!Place(Seen(engineOrder(input)), input.timeInForce, input.postOnly)
<1> DEFINE order == engineOrder(input)
           match == matched(order)
           C == crossing(order)
           makers == AllSeen(C)
           rest == match.taker.remainingQuantity
           offered == SumFunctionOnSet(Offer(order), C)
           taken == IF offered < order.remainingQuantity THEN offered
                                                         ELSE order.remainingQuantity
<1>1. /\ Takes(order) /\ order.userRef = input.userRef
      /\ order.remainingQuantity = input.quantity
      /\ C = crossing(input)
  BY OrderBrought DEF accept
<1>2. mayAccept(input) /\ submitted' = submitted + 1 /\ submitted < MaxOrders BY DEF accept
<1>3. Exchange!Makers(Seen(order)) = makers BY <1>2, MakersSeen
<1>4. Exchange!Offered(Seen(order)) = offered /\ executableQuantity(input) = offered
  BY <1>2, OfferSeen
<1>5. PICK left : Matching(order, match, left) /\ ~goesOn(match) BY <1>1, LoopEnds
<1>6. PICK fill \in Exchange!Fills(makers, order.remainingQuantity - rest) :
         OpenOrders' = OpenAfter(Seen(order), input.timeInForce, makers, fill, rest)
  BY OpenAfterCall
<1> HIDE DEF order, match
<1>7. /\ offered \in Nat /\ order.remainingQuantity \in Nat
      /\ rest = order.remainingQuantity - taken
      /\ \A m \in C : m.remainingQuantity <= offered
  BY <1>1, <1>5, QuantityTaken
<1>8. \A m \in C : m \in EngineOrder /\ m.remainingQuantity \in Nat /\ m.remainingQuantity > 0
  BY <1>1, CrossingOrders, OrderNumbers DEF Takes
<1> HIDE DEF C, makers, rest, offered
<1>9. Seen(order).remaining = order.remainingQuantity /\ Seen(order).user = order.userRef
  BY DEF Seen
<1>10. \A a \in makers : a.user # Seen(order).user
  <2>1. \A m \in C : m.userRef # order.userRef BY <1>1, <1>2 DEF mayAccept
  <2>2. \A m : Seen(m).user = m.userRef BY DEF Seen
  <2> QED BY <2>1, <2>2 DEF makers, AllSeen
<1>11. input.timeInForce = "FOK" => rest = 0 BY <1>1, <1>2, <1>4, <1>7 DEF mayAccept
<1>12. input.postOnly => makers = {}
  <2>1. ASSUME input.postOnly, NEW m \in C PROVE FALSE
    BY <1>2, <1>4, <1>7, <1>8, <2>1 DEF mayAccept
  <2> QED BY <2>1 DEF makers, AllSeen
<1>13. taken = order.remainingQuantity - rest /\ order.remainingQuantity - taken = rest
  BY <1>7
<1>14. OpenOrders' =
         (OpenOrders \ makers)
           \cup {[m EXCEPT !.remaining = @ - fill[m]] :
                    m \in {n \in makers : fill[n] < n.remaining}}
           \cup {[Seen(order) EXCEPT !.remaining = rest] :
                    kept \in {TRUE} \cap {rest > 0 /\ input.timeInForce = "GTC"}}
  BY <1>6 DEF OpenAfter
<1>15. fill \in Exchange!Fills(makers, taken) BY <1>6, <1>13
<1> DEFINE seen == Seen(order)
           tif == input.timeInForce
<1>16. /\ Exchange!Makers(seen) = makers
       /\ (IF Exchange!Offered(seen) < seen.remaining THEN Exchange!Offered(seen)
                                                      ELSE seen.remaining) = taken
       /\ seen.remaining - taken = rest
  BY <1>3, <1>4, <1>9, <1>13
<1> HIDE DEF seen, taken
<1>17. Exchange!Place(seen, tif, input.postOnly)
  BY <1>2, <1>10, <1>11, <1>12, <1>14, <1>15, <1>16 DEF Exchange!Place, seen
<1> QED BY <1>17 DEF seen, order

\* A call to cancel that does not throw takes the order off the exchange.
LEMMA CancelIsCancel ==
  ASSUME BookInv, NEW orderRef, NEW userRef, cancel(orderRef, userRef)
  PROVE  \E order \in OpenOrders : Exchange!Cancel(order)
<1>1. submitted' = submitted BY DEF cancel
<1>2. ASSUME NEW x \in Range(buys) \cup Range(sells),
             \A y : y \in Range(buys') \cup Range(sells')
                      <=> y \in Range(buys) \cup Range(sells) /\ y # x
      PROVE  \E order \in OpenOrders : Exchange!Cancel(order)
  <2> DEFINE book == Range(buys) \cup Range(sells)
             after == Range(buys') \cup Range(sells')
  <2>1. InArrival(book) BY DEF BookInv, Arrived
  <2>2. OpenOrders = AllSeen(book) BY OpenIsSeen
  <2>3. OpenOrders' = AllSeen(after) BY DEF OpenOrders, AllSeen, Seen
  <2>4. \A y : y \in after <=> y \in book /\ y # x BY <1>2
  <2>5. x \in book OBVIOUS
  <2> HIDE DEF book, after
  <2>6. \A y \in book : Seen(y) = Seen(x) => y = x BY <2>1, <2>5, SeenApart
  <2>7. \A a : a \in AllSeen(after) <=> a \in AllSeen(book) /\ a # Seen(x)
    BY <2>4, <2>6 DEF AllSeen
  <2>8. OpenOrders' = OpenOrders \ {Seen(x)} BY <2>2, <2>3, <2>7
  <2>9. Seen(x) \in OpenOrders BY <2>2, <2>5 DEF AllSeen
  <2> QED BY <1>1, <2>8, <2>9 DEF Exchange!Cancel
<1>3. CASE \E i \in DOMAIN buys : buys' = RemoveAt(buys, i) /\ sells' = sells
  <2>1. PICK i \in DOMAIN buys : buys' = RemoveAt(buys, i) /\ sells' = sells BY <1>3
  <2>2. Range(buys') = Range(buys) \ {buys[i]}
    BY <2>1, OneRemoved DEF BookInv, Holds
  <2>3. buys[i] \in Range(buys) BY DEF Range
  <2>4. buys[i] \notin Range(sells)
    <3>1. /\ \A x \in Range(buys) : x.side = "buy"
          /\ \A x \in Range(sells) : x.side = "sell"
      BY DEF BookInv, Holds
    <3> QED BY <2>3, <3>1
  <2> QED BY <1>2, <2>1, <2>2, <2>3, <2>4
<1>4. CASE \E i \in DOMAIN sells : sells' = RemoveAt(sells, i) /\ buys' = buys
  <2>1. PICK i \in DOMAIN sells : sells' = RemoveAt(sells, i) /\ buys' = buys BY <1>4
  <2>2. Range(sells') = Range(sells) \ {sells[i]}
    BY <2>1, OneRemoved DEF BookInv, Holds
  <2>3. sells[i] \in Range(sells) BY DEF Range
  <2>4. sells[i] \notin Range(buys)
    <3>1. /\ \A x \in Range(buys) : x.side = "buy"
          /\ \A x \in Range(sells) : x.side = "sell"
      BY DEF BookInv, Holds
    <3> QED BY <2>3, <3>1
  <2> QED BY <1>2, <2>1, <2>2, <2>3, <2>4
<1> QED BY <1>3, <1>4 DEF cancel

\* So every step of the book is one of the exchange, or none.
LEMMA BookStepsAreExchangeSteps ==
  BookInv /\ [Next]_vars => [Exchange!Next]_(Exchange!vars)
<1> SUFFICES ASSUME BookInv, [Next]_vars PROVE [Exchange!Next]_(Exchange!vars) OBVIOUS
<1>1. CASE UNCHANGED vars
  <2>1. buys' = buys /\ sells' = sells /\ submitted' = submitted BY <1>1 DEF vars
  <2>2. OpenOrders' = OpenOrders BY <2>1 DEF OpenOrders
  <2> QED BY <2>1, <2>2 DEF Exchange!vars
<1>2. ASSUME NEW input \in Inputs, accept(input) PROVE Exchange!Next
  <2>1. /\ input.userRef \in Users /\ input.side \in {"buy", "sell"}
        /\ input.priceAtoms \in Prices /\ input.quantity \in Quantities
        /\ input.timeInForce \in {"GTC", "IOC", "FOK"} /\ input.postOnly \in BOOLEAN
    BY DEF Inputs, Sides, TimeInForce
  <2>2. submitted < MaxOrders BY <1>2 DEF accept
  <2>3. Exchange!Place(Seen(engineOrder(input)), input.timeInForce, input.postOnly)
    BY <1>2, AcceptIsPlace
  <2>4. Seen(engineOrder(input))
          = [ref |-> submitted + 1, user |-> input.userRef, side |-> input.side,
             price |-> input.priceAtoms, remaining |-> input.quantity]
    BY DEF Seen, engineOrder
  <2> QED BY <2>1, <2>2, <2>3, <2>4 DEF Exchange!Next
<1>3. ASSUME NEW orderRef, NEW userRef, cancel(orderRef, userRef) PROVE Exchange!Next
  BY <1>3, CancelIsCancel DEF Exchange!Next
<1> QED BY <1>1, <1>2, <1>3 DEF Next

\* The sorted arrays and the matching loop implement price-time priority, for any
\* customers, prices, quantities and number of orders.
THEOREM BookImplementsExchange == Spec => ImplementsExchange
<1>1. Init => Exchange!Init
  <2> SUFFICES ASSUME Init PROVE Exchange!Init OBVIOUS
  <2>1. Range(buys) = {} /\ Range(sells) = {} BY DEF Init, Range
  <2> QED BY <2>1 DEF Init, Exchange!Init, OpenOrders
<1> QED BY <1>1, BookInvariant, BookStepsAreExchangeSteps, PTL
      DEF Spec, ImplementsExchange, Exchange!Spec

-----------------------------------------------------------------------------
(* What the exchange leaves open: nothing.                                 *)

\* Of the makers of a side, which are told apart by their refs, one has priority.
SideOfExchange(makers) ==
  /\ IsFiniteSet(makers)
  /\ \A m \in makers : m.ref \in Nat /\ m.price \in Nat /\ m.remaining \in Nat
  /\ \A m, n \in makers : m.side = n.side /\ (m.ref = n.ref => m = n)

\* Two ways to fill that both respect priority are the same.
LEMMA FillIsDetermined ==
  ASSUME NEW makers, SideOfExchange(makers), NEW quantity \in Nat,
         NEW f \in Exchange!Fills(makers, quantity), NEW g \in Exchange!Fills(makers, quantity)
  PROVE  f = g
<1>1. /\ IsFiniteSet(makers)
      /\ \A m \in makers : m.ref \in Nat /\ m.price \in Nat /\ m.remaining \in Nat
      /\ \A m, n \in makers : m.side = n.side /\ (m.ref = n.ref => m = n)
  BY DEF SideOfExchange
<1>2. ASSUME NEW h \in Exchange!Fills(makers, quantity)
      PROVE  /\ h \in [makers -> 0 .. quantity]
             /\ \A m \in makers : h[m] \in Nat /\ h[m] <= m.remaining
             /\ SumFunctionOnSet(h, makers) = quantity
             /\ \A m, n \in makers :
                  Exchange!HasPriority(m, n) /\ h[n] > 0 => h[m] = m.remaining
  <2>1. /\ h \in [makers -> 0 .. quantity]
        /\ \A m \in makers : h[m] <= m.remaining
        /\ Exchange!SumFunction(h) = quantity
        /\ \A m, n \in makers :
             Exchange!HasPriority(m, n) /\ h[n] > 0 => h[m] = m.remaining
    BY DEF Exchange!Fills
  <2>2. SumFunctionOnSet(h, makers) = quantity
    BY <2>1, ExchangeSums DEF SumFunction
  <2> QED BY <2>1, <2>2
<1>3. ASSUME NEW m \in makers, NEW n \in makers, m # n
      PROVE  Exchange!HasPriority(m, n) \/ Exchange!HasPriority(n, m)
  <2>1. m.ref # n.ref /\ m.side = n.side BY <1>1, <1>3
  <2> QED BY <1>1, <2>1 DEF Exchange!HasPriority
<1>4. ASSUME NEW h \in Exchange!Fills(makers, quantity),
             NEW k \in Exchange!Fills(makers, quantity),
             NEW m \in makers, h[m] < k[m]
      PROVE  FALSE
  <2>1. \A x \in makers : h[x] \in Nat /\ k[x] \in Nat BY <1>2
  <2>2. PICK n \in makers : k[n] < h[n]
    <3>1. SUFFICES ASSUME \A n \in makers : h[n] <= k[n] PROVE FALSE BY <2>1
    <3>2. SumFunctionOnSet(h, makers) < SumFunctionOnSet(k, makers)
      BY <1>1, <1>4, <2>1, <3>1, SumStrict
    <3> QED BY <1>2, <3>2
  <2>3. m # n BY <1>4, <2>1, <2>2
  <2>4. CASE Exchange!HasPriority(m, n)
    <3>1. h[m] = m.remaining BY <1>2, <2>1, <2>2, <2>4
    <3> QED BY <1>1, <1>2, <1>4, <2>1, <3>1
  <2>5. CASE Exchange!HasPriority(n, m)
    <3>1. k[n] = n.remaining BY <1>2, <1>4, <2>1, <2>5
    <3> QED BY <1>1, <1>2, <2>1, <2>2, <3>1
  <2> QED BY <1>3, <2>3, <2>4, <2>5
<1>5. \A m \in makers : f[m] = g[m]
  <2> SUFFICES ASSUME NEW m \in makers, f[m] # g[m] PROVE FALSE OBVIOUS
  <2>1. f[m] \in Nat /\ g[m] \in Nat BY <1>2
  <2>2. f[m] < g[m] \/ g[m] < f[m] BY <2>1
  <2> QED BY <1>4, <2>2
<1> QED BY <1>2, <1>5

\* The makers of an order that a call may bring are orders of one side, and told apart.
LEMMA MakersAreSide ==
  ASSUME BookInv, NEW input \in Inputs, submitted < MaxOrders
  PROVE  SideOfExchange(Exchange!Makers(Seen(engineOrder(input))))
<1> DEFINE order == engineOrder(input)
           C == crossing(order)
           name == [m \in C |-> Seen(m)]
<1>1. Takes(order) /\ Holds(opposite(order.side), otherSide(order.side)) BY OrderBrought
<1> HIDE DEF order
<1>2. Exchange!Makers(Seen(order)) = AllSeen(C) BY MakersSeen DEF order
<1>3. /\ C \in SUBSET EngineOrder /\ IsFiniteSet(C) /\ InArrival(C)
      /\ \A m \in C : m.side = otherSide(order.side)
  BY <1>1, CrossingOrders DEF Takes, InArrival, Holds
<1>4. \A m \in C : /\ Seen(m).ref = m.orderRef /\ Seen(m).ref \in Nat
                   /\ Seen(m).price \in Nat /\ Seen(m).remaining \in Nat
                   /\ Seen(m).side = otherSide(order.side)
  BY <1>3, OrderNumbers DEF Seen
<1>5. IsFiniteSet(AllSeen(C))
  <2>1. name \in Surjection(C, AllSeen(C)) BY DEF Surjection, AllSeen
  <2> HIDE DEF C, name
  <2> QED BY <1>3, <2>1, FS_Surjection
<1> HIDE DEF C
<1>6. \A a \in AllSeen(C) : \E m \in C : a = Seen(m) BY DEF AllSeen
<1>7. \A a, b \in AllSeen(C) : a.ref = b.ref => a = b
  BY <1>3, <1>4, <1>6 DEF InArrival
<1>8. SideOfExchange(AllSeen(C)) BY <1>4, <1>5, <1>6, <1>7 DEF SideOfExchange
<1> QED BY <1>2, <1>8 DEF order

\* Of any order that may come next and any quantity that it may take.
FillsDetermined ==
  \A input \in Inputs, quantity \in Nat :
    submitted < MaxOrders =>
      LET fills == Exchange!Fills(Exchange!Makers(Seen(engineOrder(input))), quantity) IN
      \A f, g \in fills : f = g

\* Priority leaves the exchange no choice: what each maker gives is determined by how
\* much they give together.  So ImplementsExchange says what matching.ts makes of an
\* order, and not only what it may make of it.
THEOREM MatchingIsDetermined == Spec => []FillsDetermined
<1>1. BookInv => FillsDetermined BY MakersAreSide, FillIsDetermined DEF FillsDetermined
<1> QED BY <1>1, BookInvariant, PTL
=============================================================================
