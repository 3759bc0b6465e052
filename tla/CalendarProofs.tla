---------------------------- MODULE CalendarProofs ----------------------------
(***************************************************************************)
(* The two parts of the game server that follow the calendar.               *)
(*                                                                          *)
(* The daily game, for any accounts, scores, prizes and days: the ranking   *)
(* has an account once, and the map of ranks agrees with it; the prize of a *)
(* game is given once, and it is the prize of the rank.  Each of the        *)
(* invariants stands on the one before it: RankInv, AgreeInv, PrizeInv,     *)
(* PaidInv.                                                                 *)
(*                                                                          *)
(* The sales promotions, for any table of promotions and any lengths of a   *)
(* day and a week: what runs is what should run, if no midnight is missed   *)
(* and the times of the table fit in a timer.                               *)
(***************************************************************************)
EXTENDS MCCalendar, FiniteSetTheorems, TLAPS

-----------------------------------------------------------------------------
(* The daily game: lists of entries *)

Entries == [acc : Accounts, score : Nat, rank : Int, time : Nat]

\* No account has two entries.
once(l) == \A i, j \in DOMAIN l : l[i].acc = l[j].acc => i = j

\* The entry of an account is found, or there is none.
LEMMA EntryOf ==
  ASSUME NEW l \in Seq(Entries), NEW a
  PROVE  /\ entryOf(l, a) # 0 => entryOf(l, a) \in DOMAIN l /\ l[entryOf(l, a)].acc = a
         /\ entryOf(l, a) = 0 <=> \A i \in DOMAIN l : l[i].acc # a
<1>1. DOMAIN l = 1..Len(l) /\ Len(l) \in Nat
  OBVIOUS
<1>2. 0 \notin DOMAIN l
  BY <1>1
<1>3. CASE \E i \in DOMAIN l : l[i].acc = a
  <2>1. entryOf(l, a) \in DOMAIN l /\ l[entryOf(l, a)].acc = a
    BY <1>3, Zenon DEF entryOf
  <2> QED
    BY <1>2, <2>1
<1>4. CASE ~ \E i \in DOMAIN l : l[i].acc = a
  <2>1. entryOf(l, a) = 0
    BY <1>4, Zenon DEF entryOf
  <2> QED
    BY <1>4, <2>1
<1> QED
  BY <1>3, <1>4

\* The entries of a list are as many as its places, if no account has two.
LEMMA EntriesOf ==
  ASSUME NEW l \in Seq(Entries)
  PROVE  /\ Range(l) \in SUBSET Entries /\ IsFiniteSet(Range(l))
         /\ \A E \in SUBSET Range(l) : IsFiniteSet(E)
         /\ once(l) => Cardinality(Range(l)) = Len(l)
<1>1. DOMAIN l = 1..Len(l) /\ Len(l) \in Nat /\ \A i \in 1..Len(l) : l[i] \in Entries
  OBVIOUS
<1>2. Range(l) \in SUBSET Entries
  BY <1>1 DEF Range
<1>3. l \in Surjection(1..Len(l), Range(l))
  <2>1. l \in [1..Len(l) -> Range(l)]
    BY <1>1 DEF Range
  <2>2. \A e \in Range(l) : \E i \in 1..Len(l) : l[i] = e
    BY <1>1 DEF Range
  <2> QED
    BY <2>1, <2>2 DEF Surjection
<1>4. IsFiniteSet(1..Len(l)) /\ Cardinality(1..Len(l)) = Len(l)
  <2>1. PICK n \in Nat : n = Len(l)
    BY <1>1
  <2>2. IsFiniteSet(1..n) /\ Cardinality(1..n) = n
    <3>1. IsFiniteSet(1..n) /\ Cardinality(1..n) = IF 1 > n THEN 0 ELSE n - 1 + 1
      BY ONLY n \in Nat, FS_Interval
    <3> QED
      BY <3>1
  <2> QED
    BY <2>1, <2>2
<1>5. /\ IsFiniteSet(Range(l))
      /\ Cardinality(Range(l)) = Cardinality(1..Len(l)) <=> l \in Injection(1..Len(l), Range(l))
  BY ONLY <1>3, <1>4, FS_Surjection
<1>6. ASSUME once(l) PROVE l \in Injection(1..Len(l), Range(l))
  BY <1>1, <1>3, <1>6 DEF Injection, Surjection, IsInjective, once
<1>7. ASSUME NEW E \in SUBSET Range(l) PROVE IsFiniteSet(E)
  BY <1>5, FS_Subset
<1> QED
  BY <1>2, <1>4, <1>5, <1>6, <1>7

\* A sorted list has the entries it is made of, each in one place.
LEMMA Sorted ==
  ASSUME NEW E \in SUBSET Entries, IsFiniteSet(E), NEW s \in orders(E)
  PROVE  /\ s \in Seq(Entries) /\ Len(s) = Cardinality(E) /\ DOMAIN s = 1..Cardinality(E)
         /\ Cardinality(E) \in Nat
         /\ \A i \in DOMAIN s : s[i] \in E
         /\ \A e \in E : \E i \in DOMAIN s : s[i] = e
         /\ \A i, j \in DOMAIN s : s[i] = s[j] => i = j
<1>1. Cardinality(E) \in Nat
  BY FS_CardinalityType
<1>2. s \in Bijection(1..Cardinality(E), E)
  BY DEF orders
<1>3. s \in [1..Cardinality(E) -> E]
  BY <1>2 DEF Bijection, Injection
<1>4. s \in Seq(Entries) /\ Len(s) = Cardinality(E) /\ DOMAIN s = 1..Cardinality(E)
  BY <1>1, <1>3
<1>5. \A e \in E : \E i \in DOMAIN s : s[i] = e
  BY <1>2, <1>4 DEF Bijection, Surjection
<1>6. \A i, j \in DOMAIN s : s[i] = s[j] => i = j
  BY <1>2, <1>4, Zenon DEF Bijection, Injection, IsInjective
<1> QED
  BY <1>1, <1>3, <1>4, <1>5, <1>6

\* Each account has one of some entries.
oneEach(E) == \A e, f \in E : e.acc = f.acc => e = f

\* The entries of a list with one for each account, and those of a part of it, are so.
LEMMA OneEachOf ==
  ASSUME NEW l \in Seq(Entries), once(l), NEW E \in SUBSET Range(l)
  PROVE  oneEach(E)
<1> SUFFICES ASSUME NEW e \in E, NEW f \in E, e.acc = f.acc PROVE e = f
  BY DEF oneEach
<1>1. PICK i \in DOMAIN l : e = l[i]
  BY DEF Range
<1>2. PICK j \in DOMAIN l : f = l[j]
  BY DEF Range
<1> QED
  BY <1>1, <1>2 DEF once

\* A sorted list has an account once, if its entries do.
LEMMA SortedOnce ==
  ASSUME NEW E \in SUBSET Entries, IsFiniteSet(E), oneEach(E), NEW s \in orders(E)
  PROVE  once(s)
BY Sorted DEF once, oneEach

\* Numbering keeps the accounts of the places.
LEMMA Ranked ==
  ASSUME NEW s \in Seq(Entries)
  PROVE  /\ ranked(s) \in Seq(Entries) /\ DOMAIN ranked(s) = DOMAIN s /\ Len(ranked(s)) = Len(s)
         /\ \A i \in DOMAIN s : /\ ranked(s)[i].acc = s[i].acc /\ ranked(s)[i].rank = i
                                /\ ranked(s)[i].time = s[i].time
<1>1. DOMAIN s = 1..Len(s) /\ Len(s) \in Nat
  OBVIOUS
<1>2. ASSUME NEW i \in DOMAIN s
      PROVE  /\ [s[i] EXCEPT !.rank = i] \in Entries
             /\ [s[i] EXCEPT !.rank = i].acc = s[i].acc
             /\ [s[i] EXCEPT !.rank = i].rank = i
             /\ [s[i] EXCEPT !.rank = i].time = s[i].time
  <2>1. s[i] \in Entries /\ i \in Int
    BY <1>1
  <2> QED
    BY <2>1 DEF Entries
<1>3. ranked(s) = [i \in 1..Len(s) |-> [s[i] EXCEPT !.rank = i]]
  BY <1>1 DEF ranked
<1> DEFINE r(i) == [s[i] EXCEPT !.rank = i]
<1>4. \A i \in 1..Len(s) : r(i) \in Entries /\ r(i).acc = s[i].acc /\ r(i).rank = i /\ r(i).time = s[i].time
  BY <1>1, <1>2
<1>5. ranked(s) = [i \in 1..Len(s) |-> r(i)]
  BY <1>3
<1> HIDE DEF r
<1>6. ranked(s) \in Seq(Entries) /\ Len(ranked(s)) = Len(s) /\ DOMAIN ranked(s) = 1..Len(s)
  BY <1>1, <1>4, <1>5
<1> QED
  BY <1>1, <1>4, <1>5, <1>6

\* A score is set: all else stays in its place.
LEMMA Scored ==
  ASSUME NEW l \in Seq(Entries), NEW k \in DOMAIN l, NEW score \in Nat
  PROVE  LET m == [l EXCEPT ![k].score = score]
         IN  /\ m \in Seq(Entries) /\ Len(m) = Len(l) /\ DOMAIN m = DOMAIN l
             /\ \A i \in DOMAIN l : m[i].acc = l[i].acc /\ m[i].rank = l[i].rank /\ m[i].time = l[i].time
<1>1. DOMAIN l = 1..Len(l) /\ Len(l) \in Nat /\ \A i \in 1..Len(l) : l[i] \in Entries
  OBVIOUS
<1>2. PICK e : e = [l[k] EXCEPT !.score = score]
  OBVIOUS
<1>3. e \in Entries /\ e.acc = l[k].acc /\ e.rank = l[k].rank /\ e.time = l[k].time
  BY <1>1, <1>2 DEF Entries
<1>4. [l EXCEPT ![k].score = score] = [l EXCEPT ![k] = e]
  BY <1>2
<1>5. PICK m : m = [l EXCEPT ![k] = e]
  OBVIOUS
<1>6. m \in Seq(Entries) /\ Len(m) = Len(l) /\ DOMAIN m = DOMAIN l
  BY <1>1, <1>3, <1>5
<1>7. ASSUME NEW i \in DOMAIN l
      PROVE  m[i].acc = l[i].acc /\ m[i].rank = l[i].rank /\ m[i].time = l[i].time
  BY <1>3, <1>5
<1> QED
  BY <1>4, <1>5, <1>6, <1>7

\* An entry is added at the end.
LEMMA Added ==
  ASSUME NEW l \in Seq(Entries), NEW e \in Entries
  PROVE  /\ Append(l, e) \in Seq(Entries) /\ Len(Append(l, e)) = Len(l) + 1
         /\ DOMAIN Append(l, e) = DOMAIN l \cup {Len(l) + 1} /\ Len(l) + 1 \notin DOMAIN l
         /\ Append(l, e)[Len(l) + 1] = e /\ \A i \in DOMAIN l : Append(l, e)[i] = l[i]
<1>1. DOMAIN l = 1..Len(l) /\ Len(l) \in Nat
  OBVIOUS
<1>2. Append(l, e) \in Seq(Entries) /\ Len(Append(l, e)) = Len(l) + 1
  OBVIOUS
<1>3. DOMAIN Append(l, e) = 1..(Len(l) + 1)
  BY <1>2
<1> QED
  BY <1>1, <1>2, <1>3

\* The entries that are saved are the first ones, at most Batch.
LEMMA SavedList ==
  ASSUME NEW l \in Seq(Entries)
  PROVE  /\ saved(l) \in Seq(Entries)
         /\ once(l) => once(saved(l))
         /\ Len(l) <= Batch => saved(l) = l
         /\ Range(saved(l)) \subseteq Range(l)
         /\ Len(saved(l)) = IF Len(l) < Batch THEN Len(l) ELSE Batch
         /\ \A i \in DOMAIN saved(l) : i \in DOMAIN l /\ saved(l)[i] = l[i]
<1>1. PICK z \in Nat : z = Len(l) /\ DOMAIN l = 1..z
  OBVIOUS
<1>2. PICK n : n = IF z < Batch THEN z ELSE Batch
  OBVIOUS
<1> n \in Nat /\ n <= z /\ (z <= Batch => n = z)
  BY <1>2, DailyGameConstants
<1>3. PICK m : m = SubSeq(l, 1, n)
  OBVIOUS
<1>4. saved(l) = m
  BY <1>1, <1>2, <1>3 DEF saved
<1>5. m \in Seq(Entries) /\ Len(m) = n /\ DOMAIN m = 1..n /\ \A i \in 1..n : m[i] = l[i]
  <2>1. 1..n \subseteq 1..z
    OBVIOUS
  <2>2. m \in Seq(Entries) /\ Len(m) = n /\ \A i \in 1..n : m[i] = l[i]
    BY <1>1, <1>3
  <2> QED
    BY <2>2
<1>6. ASSUME Len(l) <= Batch PROVE m = l
  BY <1>1, <1>2, <1>5, <1>6
<1>7. Range(m) \subseteq Range(l)
  BY <1>1, <1>2, <1>5 DEF Range
<1>8. ASSUME once(l) PROVE once(m)
  BY <1>1, <1>2, <1>5, <1>8 DEF once
<1>9. Len(m) = (IF Len(l) < Batch THEN Len(l) ELSE Batch) /\ \A i \in DOMAIN m : i \in DOMAIN l /\ m[i] = l[i]
  BY <1>1, <1>2, <1>5
<1> QED
  BY <1>4, <1>5, <1>6, <1>7, <1>8, <1>9

\* An entry is taken out: what follows it moves up.
LEMMA TakenOut ==
  ASSUME NEW l \in Seq(Entries), NEW k \in DOMAIN l, once(l)
  PROVE  Seqs!RemoveAt(l, k) \in Seq(Entries) /\ once(Seqs!RemoveAt(l, k))
<1>1. DOMAIN l = 1..Len(l) /\ Len(l) \in Nat
  OBVIOUS
<1>2. PICK n \in Nat : n = Len(l)
  BY <1>1
<1>3. PICK p : p = SubSeq(l, 1, k - 1)
  OBVIOUS
<1>4. PICK q : q = SubSeq(l, k + 1, Len(l))
  OBVIOUS
<1>5. k \in 1..n /\ k \in Nat
  BY <1>1, <1>2
<1>6. p \in Seq(Entries) /\ Len(p) = k - 1 /\ \A i \in 1..(k - 1) : p[i] = l[i]
  BY <1>1, <1>3
<1>7. q \in Seq(Entries) /\ Len(q) = n - k /\ \A i \in 1..(n - k) : q[i] = l[k + i]
  BY <1>1, <1>2, <1>4
<1>8. Seqs!RemoveAt(l, k) = p \o q
  BY <1>3, <1>4 DEF Seqs!RemoveAt
<1>9. PICK m : m = p \o q
  OBVIOUS
<1>10. /\ m \in Seq(Entries) /\ Len(m) = Len(p) + Len(q)
       /\ \A i \in 1..(Len(p) + Len(q)) : m[i] = IF i <= Len(p) THEN p[i] ELSE q[i - Len(p)]
  BY <1>6, <1>7, <1>9
<1>11. /\ DOMAIN m = 1..(n - 1)
       /\ \A i \in 1..(n - 1) : m[i] = IF i <= k - 1 THEN p[i] ELSE q[i - (k - 1)]
  <2>1. Len(p) + Len(q) = n - 1
    BY <1>5, <1>6, <1>7
  <2>2. DOMAIN m = 1..Len(m)
    BY <1>10
  <2>3. Len(p) = k - 1
    BY <1>6
  <2> QED
    BY <1>10, <2>1, <2>2, <2>3
<1>12. ASSUME NEW i \in 1..(n - 1) PROVE m[i] = l[IF i < k THEN i ELSE i + 1]
  <2>1. CASE i < k
    BY <1>5, <1>6, <1>11, <2>1
  <2>2. CASE ~(i < k)
    <3>1. PICK h : h = i - (k - 1)
      OBVIOUS
    <3>2. h \in 1..(n - k) /\ k + h = i + 1 /\ ~(i <= k - 1)
      BY <1>5, <2>2, <3>1
    <3> QED
      BY <1>7, <1>11, <2>2, <3>1, <3>2
  <2> QED
    BY <2>1, <2>2
<1>13. once(m)
  <2> DEFINE f(i) == IF i < k THEN i ELSE i + 1
  <2>1. ASSUME NEW i \in 1..(n - 1), NEW j \in 1..(n - 1) PROVE f(i) \in 1..n /\ (f(i) = f(j) => i = j)
    BY <1>5
  <2>2. \A i \in 1..(n - 1) : m[i] = l[f(i)]
    BY <1>12
  <2> HIDE DEF f
  <2> SUFFICES ASSUME NEW i \in 1..(n - 1), NEW j \in 1..(n - 1), m[i].acc = m[j].acc PROVE i = j
    BY <1>11 DEF once
  <2>3. l[f(i)].acc = l[f(j)].acc /\ f(i) \in DOMAIN l /\ f(j) \in DOMAIN l
    BY <1>1, <1>2, <2>1, <2>2
  <2>4. f(i) = f(j)
    BY <2>3 DEF once
  <2> QED
    BY <2>1, <2>4
<1> QED
  BY <1>8, <1>9, <1>10, <1>13

-----------------------------------------------------------------------------
(* The ranking lists an account once *)

RankInv ==
  /\ day \in Nat
  /\ _heroes_daily_rank \in Seq(Entries) /\ once(_heroes_daily_rank)
  /\ rankTable \in Seq(Entries) /\ once(rankTable)

\* What updateHeroDailyRank does to the list before it sorts it
known(a) == entryOf(_heroes_daily_rank, a) # 0
need_rank(score) == score > _min_daily_score
need_add(a, score) ==
  /\ ~known(a)
  /\ need_rank(score) \/ ~(Cardinality({b \in Accounts : _heroes_rank[b] # 0}) >= _daily_max_rank_size)
newEntry(a, score) ==
  [acc |-> a, score |-> score, rank |-> Len(_heroes_daily_rank) + 1, time |-> day]
updated(a, score) ==
  IF known(a) THEN [_heroes_daily_rank EXCEPT ![entryOf(_heroes_daily_rank, a)].score = score]
  ELSE IF need_add(a, score) THEN Append(_heroes_daily_rank, newEntry(a, score))
  ELSE _heroes_daily_rank

\* The parts of updateHeroDailyRank by these names
LEMMA UpdateIs ==
  ASSUME NEW a, NEW score, updateHeroDailyRank(a, score)
  PROVE  /\ _heroes_daily_rank' \in IF need_rank(score) THEN {ranked(s) : s \in orders(Range(updated(a, score)))}
                                    ELSE {updated(a, score)}
         /\ _heroes_rank' = IF need_rank(score) THEN ranksOf(_heroes_daily_rank')
                            ELSE IF need_add(a, score)
                            THEN [_heroes_rank EXCEPT ![a] = Len(_heroes_daily_rank) + 1]
                            ELSE _heroes_rank
BY DEF updateHeroDailyRank, need_rank, need_add, updated, known, newEntry

\* The list before it is sorted: all is as it was, or there is one more entry.
LEMMA Updated ==
  ASSUME RankInv, NEW a \in Accounts, NEW score \in Scores
  PROVE  LET l == _heroes_daily_rank
             m == updated(a, score)
         IN  /\ m \in Seq(Entries) /\ once(m)
             /\ \/ /\ ~need_add(a, score) /\ DOMAIN m = DOMAIN l /\ Len(m) = Len(l)
                   /\ \A i \in DOMAIN l : m[i].acc = l[i].acc /\ m[i].rank = l[i].rank
                                          /\ m[i].time = l[i].time
                \/ /\ need_add(a, score) /\ m = Append(l, newEntry(a, score))
                   /\ newEntry(a, score) \in Entries /\ \A i \in DOMAIN l : l[i].acc # a
<1>1. PICK l : l = _heroes_daily_rank
  OBVIOUS
<1>2. l \in Seq(Entries) /\ once(l) /\ day \in Nat /\ score \in Nat
  BY <1>1, DailyGameConstants DEF RankInv
<1>3. CASE known(a)
  <2>1. PICK k \in DOMAIN l : k = entryOf(l, a)
    BY <1>1, <1>2, <1>3, EntryOf DEF known
  <2>2. PICK m : m = [l EXCEPT ![k].score = score]
    OBVIOUS
  <2>3. updated(a, score) = m /\ ~need_add(a, score)
    BY <1>1, <1>3, <2>1, <2>2 DEF updated, need_add
  <2>4. /\ m \in Seq(Entries) /\ Len(m) = Len(l) /\ DOMAIN m = DOMAIN l
        /\ \A i \in DOMAIN l : m[i].acc = l[i].acc /\ m[i].rank = l[i].rank /\ m[i].time = l[i].time
    BY <1>2, <2>2, Scored
  <2>5. once(m)
    BY <1>2, <2>4 DEF once
  <2> QED
    BY <1>1, <2>3, <2>4, <2>5
<1>4. CASE ~known(a) /\ need_add(a, score)
  <2>1. PICK e : e = newEntry(a, score)
    OBVIOUS
  <2>2. e \in Entries /\ e.acc = a
    BY <1>1, <1>2, <2>1 DEF newEntry, Entries
  <2>3. \A i \in DOMAIN l : l[i].acc # a
    BY <1>1, <1>2, <1>4, EntryOf DEF known
  <2>4. updated(a, score) = Append(l, e)
    BY <1>1, <1>4, <2>1 DEF updated
  <2>5. Append(l, e) \in Seq(Entries) /\ once(Append(l, e))
    BY <1>2, <2>2, <2>3, Added DEF once
  <2> QED
    BY <1>1, <1>4, <2>1, <2>2, <2>3, <2>4, <2>5
<1>5. CASE ~known(a) /\ ~need_add(a, score)
  <2>1. updated(a, score) = l
    BY <1>1, <1>5 DEF updated
  <2> QED
    BY <1>1, <1>2, <1>5, <2>1
<1> QED
  BY <1>3, <1>4, <1>5

\* The list that is made of the entries is a list of them.
LEMMA UpdateOnce ==
  ASSUME RankInv, NEW a \in Accounts, NEW score \in Scores, updateHeroDailyRank(a, score)
  PROVE  _heroes_daily_rank' \in Seq(Entries) /\ once(_heroes_daily_rank')
<1>1. PICK m : m = updated(a, score)
  OBVIOUS
<1>2. m \in Seq(Entries) /\ once(m)
  BY <1>1, Updated
<1>3. CASE need_rank(score)
  <2>1. PICK s \in orders(Range(m)) : _heroes_daily_rank' = ranked(s)
    BY <1>1, <1>3, UpdateIs
  <2>2. Range(m) \in SUBSET Entries /\ IsFiniteSet(Range(m)) /\ oneEach(Range(m))
    BY <1>2, EntriesOf, OneEachOf
  <2>3. s \in Seq(Entries) /\ once(s)
    BY <2>1, <2>2, Sorted, SortedOnce
  <2> QED
    BY <2>1, <2>3, Ranked DEF once
<1>4. CASE ~need_rank(score)
  BY <1>1, <1>2, <1>4, UpdateIs
<1> QED
  BY <1>3, <1>4

\* The renumbered list has the accounts of the list.
LEMMA RemoveOnce ==
  ASSUME RankInv, NEW a, removeHero(a)
  PROVE  _heroes_daily_rank' \in Seq(Entries) /\ once(_heroes_daily_rank')
<1>1. PICK l : l = _heroes_daily_rank
  OBVIOUS
<1>2. PICK k : k = entryOf(l, a)
  OBVIOUS
<1> DEFINE last == k # 0 /\ k = Len(l)
           rankAt(i) == IF last THEN k + i - 1 ELSE IF k = 0 \/ i < k THEN i ELSE i - 2
           entry(i) == IF k # 0 /\ i = k + 1 THEN l[i] ELSE [l[i] EXCEPT !.rank = rankAt(i)]
<1>3. l \in Seq(Entries) /\ once(l) /\ DOMAIN l = 1..Len(l) /\ Len(l) \in Nat
  BY <1>1 DEF RankInv
<1>4. k \in Nat /\ (k # 0 => k \in DOMAIN l)
  BY <1>2, <1>3, EntryOf
<1>5. _heroes_daily_rank' = IF k = 0 THEN [i \in DOMAIN l |-> entry(i)]
                            ELSE Seqs!RemoveAt([i \in DOMAIN l |-> entry(i)], k)
  BY <1>1, <1>2 DEF removeHero
<1>6. ASSUME NEW i \in DOMAIN l PROVE entry(i) \in Entries /\ entry(i).acc = l[i].acc
  <2>1. PICK r : r = rankAt(i)
    OBVIOUS
  <2>2. r \in Int
    <3>1. i \in Nat /\ k + i - 1 \in Int /\ i - 2 \in Int
      BY <1>3, <1>4
    <3> QED
      BY <2>1, <3>1
  <2>3. l[i] \in Entries
    BY <1>3
  <2>4. [l[i] EXCEPT !.rank = r] \in Entries /\ [l[i] EXCEPT !.rank = r].acc = l[i].acc
    BY <2>2, <2>3 DEF Entries
  <2> QED
    BY <2>1, <2>3, <2>4
<1> HIDE DEF entry
<1>7. PICK m : m = [i \in DOMAIN l |-> entry(i)]
  OBVIOUS
<1>8. m \in Seq(Entries) /\ DOMAIN m = DOMAIN l /\ \A i \in DOMAIN l : m[i].acc = l[i].acc
  BY <1>3, <1>6, <1>7
<1>9. once(m)
  BY <1>3, <1>8 DEF once
<1>10. CASE k = 0
  BY <1>5, <1>7, <1>8, <1>9, <1>10
<1>11. CASE k # 0
  <2>1. _heroes_daily_rank' = Seqs!RemoveAt(m, k) /\ k \in DOMAIN m
    BY <1>4, <1>5, <1>7, <1>8, <1>11
  <2> QED
    BY <1>8, <1>9, <2>1, TakenOut
<1> QED
  BY <1>10, <1>11

\* What a server that starts loads
LEMMA LoadOnce ==
  ASSUME RankInv, NEW table \in Seq(Entries), once(table), NEW begin, Load(table, begin)
  PROVE  RankInv'
<1>1. PICK E : E = {e \in Range(table) : e.time = day}
  OBVIOUS
<1>2. E \in SUBSET Range(table) /\ E \in SUBSET Entries /\ IsFiniteSet(E) /\ oneEach(E)
  <2>1. E \in SUBSET Range(table)
    BY <1>1
  <2>2. Range(table) \in SUBSET Entries /\ IsFiniteSet(E)
    BY <2>1, EntriesOf
  <2> QED
    BY <2>1, <2>2, OneEachOf
<1>3. _heroes_daily_rank' \in orders(E)
  BY <1>1 DEF Load
<1>4. _heroes_daily_rank' \in Seq(Entries) /\ once(_heroes_daily_rank')
  BY <1>2, <1>3, Sorted, SortedOnce
<1>5. <<>> \in Seq(Entries) /\ once(<<>>)
  BY DEF once
<1>6. rankTable' \in {saved(<<>>), table} /\ day' = day
  BY DEF Load
<1>7. rankTable' \in Seq(Entries) /\ once(rankTable')
  BY <1>5, <1>6, SavedList
<1> QED
  BY <1>4, <1>6, <1>7 DEF RankInv

\* Every action, with a master, crashes and missed refreshes, keeps it.
LEMMA RankStep ==
  ASSUME RankInv, [Next]_vars
  PROVE  RankInv'
<1>1. saved(_heroes_daily_rank) \in Seq(Entries) /\ once(saved(_heroes_daily_rank))
  BY SavedList DEF RankInv
<1>2. <<>> \in Seq(Entries) /\ once(<<>>)
  BY DEF once
<1>3. ASSUME NEW a \in Accounts, HeroNext(a) PROVE RankInv'
  <2>1. ASSUME NEW p, NEW hp, NEW s \in Scores, ReqUpdateDailyGameProgress(a, p, hp, s) PROVE RankInv'
    <3>1. UNCHANGED <<day, rankTable>>
      BY <2>1 DEF ReqUpdateDailyGameProgress, dbVars
    <3>2. updateHeroDailyRank(a, s) \/ UNCHANGED _heroes_daily_rank
      BY <2>1 DEF ReqUpdateDailyGameProgress
    <3> QED
      BY <3>1, <3>2, UpdateOnce DEF RankInv
  <2>2. CASE \/ ReqResetDailyGameProgress(a) \/ ReqReceiveDailyGamePrize(a)
             \/ login(a) \/ CreateHero(a) \/ SaveHero(a) \/ Destroy(a)
    <3>1. UNCHANGED <<day, _heroes_daily_rank, rankTable>>
      BY <2>2 DEF ReqResetDailyGameProgress, ReqReceiveDailyGamePrize, login, CreateHero, SaveHero,
                  Destroy, rankVars, dbVars
    <3> QED
      BY <3>1 DEF RankInv
  <2> QED
    BY <1>3, <2>1, <2>2 DEF HeroNext
<1>4. CASE dayRefresh
  BY <1>1, <1>2, <1>4 DEF dayRefresh, DailyGameUpdate, RankInv
<1>5. CASE missRefresh \/ saveStatus
  BY <1>5 DEF missRefresh, saveStatus, RankInv, rankVars, dbVars
<1>6. CASE save
  BY <1>1, <1>6 DEF save, RankInv, rankVars
<1>7. CASE restart \/ crash
  BY <1>1, <1>7, LoadOnce DEF restart, crash, RankInv
<1>8. CASE ClearRankList
  BY <1>2, <1>8 DEF ClearRankList, RankInv, dbVars
<1>9. ASSUME NEW a \in Accounts, ResetDailyGame(a) PROVE RankInv'
  <2>1. removeHero(a) /\ UNCHANGED <<day, rankTable>>
    BY <1>9 DEF ResetDailyGame, dbVars
  <2> QED
    BY <2>1, RemoveOnce DEF RankInv
<1>10. CASE UNCHANGED vars
  BY <1>10 DEF RankInv, vars, rankVars, dbVars
<1> QED
  BY <1>3, <1>4, <1>5, <1>6, <1>7, <1>8, <1>9, <1>10 DEF Next, DayNext, GmNext

\* It holds of an empty database.
LEMMA RankStart == Init => RankInv
BY DEF Init, RankInv, once

\* The list of the ranking, and the one that is saved, have an account once, in every
\* environment: updateHeroDailyRank looks for the account before it adds it, and Load reads
\* what was such a list.
THEOREM AccountsListedOnce == Spec => []ListedOnce
<1>1. RankInv /\ [Next]_vars => RankInv'
  BY RankStep
<1>2. RankInv => ListedOnce
  BY DEF RankInv, ListedOnce, once
<1> QED
  BY <1>1, <1>2, RankStart, PTL DEF Spec

-----------------------------------------------------------------------------
(* The map of ranks *)

ranksIn(l) == {l[i].rank : i \in DOMAIN l}

\* The rank of an account is that of its entry, 0 without one.
LEMMA RanksOf ==
  ASSUME NEW l \in Seq(Entries), once(l), NEW a \in Accounts
  PROVE  /\ \A i \in DOMAIN l : l[i].acc = a => ranksOf(l)[a] = l[i].rank
         /\ (\A i \in DOMAIN l : l[i].acc # a) => ranksOf(l)[a] = 0
<1>1. ranksOf(l)[a] = IF entryOf(l, a) = 0 THEN 0 ELSE l[entryOf(l, a)].rank
  BY DEF ranksOf
<1>2. ASSUME NEW i \in DOMAIN l, l[i].acc = a PROVE ranksOf(l)[a] = l[i].rank
  <2>1. entryOf(l, a) # 0 /\ entryOf(l, a) \in DOMAIN l /\ l[entryOf(l, a)].acc = a
    BY <1>2, EntryOf
  <2>2. entryOf(l, a) = i
    BY <1>2, <2>1 DEF once
  <2> QED
    BY <1>1, <2>1, <2>2
<1>3. ASSUME \A i \in DOMAIN l : l[i].acc # a PROVE ranksOf(l)[a] = 0
  BY <1>1, <1>3, EntryOf
<1> QED
  BY <1>2, <1>3

\* Lists with the same accounts and ranks give the same map.
LEMMA SameRanks ==
  ASSUME NEW l \in Seq(Entries), once(l), NEW m \in Seq(Entries), once(m), DOMAIN m = DOMAIN l,
         \A i \in DOMAIN l : m[i].acc = l[i].acc /\ m[i].rank = l[i].rank
  PROVE  ranksOf(m) = ranksOf(l) /\ ranksIn(m) = ranksIn(l)
<1>1. ASSUME NEW a \in Accounts PROVE ranksOf(m)[a] = ranksOf(l)[a]
  <2>1. CASE \E i \in DOMAIN l : l[i].acc = a
    BY <2>1, RanksOf
  <2>2. CASE \A i \in DOMAIN l : l[i].acc # a
    BY <2>2, RanksOf
  <2> QED
    BY <2>1, <2>2
<1>2. ranksOf(m) = ranksOf(l)
  <2>1. ranksOf(m) = [a \in Accounts |-> ranksOf(m)[a]] /\ ranksOf(l) = [a \in Accounts |-> ranksOf(l)[a]]
    BY DEF ranksOf
  <2>2. [a \in Accounts |-> ranksOf(m)[a]] = [a \in Accounts |-> ranksOf(l)[a]]
    BY <1>1
  <2> QED
    BY <2>1, <2>2
<1> QED
  BY <1>2 DEF ranksIn

\* One more entry gives one more rank.
LEMMA OneMoreRank ==
  ASSUME NEW l \in Seq(Entries), once(l), NEW e \in Entries, \A i \in DOMAIN l : l[i].acc # e.acc
  PROVE  /\ ranksOf(Append(l, e)) = [ranksOf(l) EXCEPT ![e.acc] = e.rank]
         /\ ranksIn(Append(l, e)) = ranksIn(l) \cup {e.rank}
<1>1. PICK m : m = Append(l, e)
  OBVIOUS
<1>2. PICK n : n = Len(l) + 1
  OBVIOUS
<1>3. /\ m \in Seq(Entries) /\ DOMAIN m = DOMAIN l \cup {n} /\ n \notin DOMAIN l
      /\ m[n] = e /\ \A i \in DOMAIN l : m[i] = l[i]
  BY <1>1, <1>2, Added
<1>4. once(m)
  BY <1>3 DEF once
<1>5. e.acc \in Accounts
  BY DEF Entries
<1>6. ASSUME NEW a \in Accounts PROVE ranksOf(m)[a] = IF a = e.acc THEN e.rank ELSE ranksOf(l)[a]
  <2>1. CASE a = e.acc
    BY <1>3, <1>4, <2>1, RanksOf
  <2>2. CASE a # e.acc /\ \E i \in DOMAIN l : l[i].acc = a
    <3>1. PICK i \in DOMAIN l : l[i].acc = a
      BY <2>2
    <3>2. i \in DOMAIN m /\ m[i] = l[i]
      BY <1>3
    <3>3. ranksOf(m)[a] = m[i].rank /\ ranksOf(l)[a] = l[i].rank
      BY <1>3, <1>4, <3>1, <3>2, RanksOf
    <3> QED
      BY <2>2, <3>2, <3>3
  <2>3. CASE a # e.acc /\ \A i \in DOMAIN l : l[i].acc # a
    <3>1. \A i \in DOMAIN m : m[i].acc # a
      BY <1>3, <2>3
    <3> QED
      BY <1>3, <1>4, <2>3, <3>1, RanksOf
  <2> QED
    BY <2>1, <2>2, <2>3
<1>7. ranksOf(m) = [ranksOf(l) EXCEPT ![e.acc] = e.rank]
  <2>1. ranksOf(m) = [a \in Accounts |-> ranksOf(m)[a]] /\ DOMAIN ranksOf(l) = Accounts
    BY DEF ranksOf
  <2>2. PICK f : f = ranksOf(l)
    OBVIOUS
  <2>3. [f EXCEPT ![e.acc] = e.rank] = [a \in Accounts |-> IF a = e.acc THEN e.rank ELSE f[a]]
    BY <2>1, <2>2
  <2>4. ranksOf(m) = [a \in Accounts |-> IF a = e.acc THEN e.rank ELSE f[a]]
    BY <1>6, <2>1, <2>2
  <2> QED
    BY <2>2, <2>3, <2>4
<1>8. ranksIn(m) = ranksIn(l) \cup {e.rank}
  BY <1>3 DEF ranksIn
<1> QED
  BY <1>1, <1>7, <1>8

-----------------------------------------------------------------------------
(* The ranking and the map agree *)

\* Every entry is of today's game, which is in progress.
Today ==
  /\ day # 0 /\ _daily_game_begin_time = day
  /\ \A i \in DOMAIN _heroes_daily_rank : _heroes_daily_rank[i].time = day

\* No two entries have one rank, and an entry behind those that a statement saves has the
\* rank of its place: only what was loaded can be out of place, and it comes first.
InPlace(l) ==
  /\ \A i, j \in DOMAIN l : l[i].rank = l[j].rank => i = j
  /\ \A i \in DOMAIN l : Batch < i => l[i].rank = i

AgreeInv == Today /\ MapAgrees /\ InPlace(_heroes_daily_rank)

\* updateHeroDailyRank, sorting or not
LEMMA AgreeUpdate ==
  ASSUME RankInv, AgreeInv, NEW a \in Accounts, NEW score \in Scores,
         updateHeroDailyRank(a, score), UNCHANGED <<day, _daily_game_begin_time>>
  PROVE  AgreeInv'
<1>1. PICK l : l = _heroes_daily_rank
  OBVIOUS
<1>2. PICK m : m = updated(a, score)
  OBVIOUS
<1>3. PICK e : e = newEntry(a, score)
  OBVIOUS
<1>4. /\ l \in Seq(Entries) /\ once(l) /\ DOMAIN l = 1..Len(l) /\ Len(l) \in Nat
      /\ ranksIn(l) = 1..Len(l) /\ _heroes_rank = ranksOf(l) /\ \A i \in DOMAIN l : l[i].time = day
      /\ InPlace(l)
  BY <1>1 DEF RankInv, AgreeInv, Today, MapAgrees, ranksIn
<1>5. m \in Seq(Entries) /\ once(m)
  BY <1>2, Updated
<1>6. /\ e.acc = a /\ e.rank = Len(l) + 1 /\ e.time = day
  BY <1>1, <1>3 DEF newEntry
<1>7. \/ /\ ~need_add(a, score) /\ DOMAIN m = DOMAIN l /\ Len(m) = Len(l)
         /\ \A i \in DOMAIN l : m[i].acc = l[i].acc /\ m[i].rank = l[i].rank /\ m[i].time = l[i].time
      \/ /\ need_add(a, score) /\ m = Append(l, e) /\ e \in Entries
         /\ \A i \in DOMAIN l : l[i].acc # a
  BY <1>1, <1>2, <1>3, Updated
<1>8. \A i \in DOMAIN m : m[i].time = day
  <2>1. CASE need_add(a, score)
    BY <1>4, <1>6, <1>7, <2>1, Added
  <2> QED
    BY <1>4, <1>7, <2>1
<1>9. /\ \A i \in DOMAIN _heroes_daily_rank' : _heroes_daily_rank'[i].time = day
      /\ ranksIn(_heroes_daily_rank') = 1..Len(_heroes_daily_rank')
      /\ _heroes_rank' = ranksOf(_heroes_daily_rank')
      /\ InPlace(_heroes_daily_rank')
  <2>1. CASE need_rank(score)
    <3>1. PICK s \in orders(Range(m)) : _heroes_daily_rank' = ranked(s)
      BY <1>2, <2>1, UpdateIs
    <3>2. PICK r : r = ranked(s)
      OBVIOUS
    <3>3. Range(m) \in SUBSET Entries /\ IsFiniteSet(Range(m))
      BY <1>5, EntriesOf
    <3>4. s \in Seq(Entries) /\ \A i \in DOMAIN s : s[i] \in Range(m)
      BY <3>1, <3>3, Sorted
    <3>5. /\ r \in Seq(Entries) /\ DOMAIN r = DOMAIN s
          /\ \A i \in DOMAIN r : r[i].rank = i /\ r[i].time = s[i].time
      BY <3>2, <3>4, Ranked
    <3>6. \A i \in DOMAIN r : r[i].time = day
      BY <1>8, <3>4, <3>5 DEF Range
    <3>7. ranksIn(r) = 1..Len(r)
      <4>1. DOMAIN r = 1..Len(r)
        BY <3>5
      <4> QED
        BY <3>5, <4>1 DEF ranksIn
    <3>8. _heroes_rank' = ranksOf(_heroes_daily_rank')
      BY <2>1, UpdateIs
    <3>9. InPlace(r)
      BY <3>5 DEF InPlace
    <3> QED
      BY <3>1, <3>2, <3>6, <3>7, <3>8, <3>9
  <2>2. CASE ~need_rank(score) /\ ~need_add(a, score)
    <3>1. _heroes_daily_rank' = m /\ _heroes_rank' = _heroes_rank
      BY <1>2, <2>2, UpdateIs
    <3>2. ranksOf(m) = ranksOf(l) /\ ranksIn(m) = ranksIn(l) /\ Len(m) = Len(l)
      BY <1>4, <1>5, <1>7, <2>2, SameRanks
    <3>3. InPlace(m)
      BY <1>4, <1>7, <2>2 DEF InPlace
    <3> QED
      BY <1>4, <1>8, <3>1, <3>2, <3>3
  <2>3. CASE ~need_rank(score) /\ need_add(a, score)
    <3>1. _heroes_daily_rank' = m /\ _heroes_rank' = [_heroes_rank EXCEPT ![a] = Len(l) + 1]
      BY <1>1, <1>2, <2>3, UpdateIs
    <3>2. ranksOf(m) = [ranksOf(l) EXCEPT ![a] = Len(l) + 1] /\ ranksIn(m) = ranksIn(l) \cup {Len(l) + 1}
      BY <1>4, <1>6, <1>7, <2>3, OneMoreRank
    <3>3. Len(m) = Len(l) + 1
      BY <1>4, <1>7, <2>3, Added
    <3>4. (1..Len(l)) \cup {Len(l) + 1} = 1..(Len(l) + 1)
      BY <1>4
    <3>5. InPlace(m)
      <4>1. DOMAIN m = DOMAIN l \cup {Len(l) + 1} /\ m[Len(l) + 1].rank = Len(l) + 1
            /\ \A i \in DOMAIN l : m[i] = l[i]
        BY <1>4, <1>6, <1>7, <2>3, Added
      <4>2. \A i \in DOMAIN l : l[i].rank \in 1..Len(l)
        BY <1>4 DEF ranksIn
      <4>3. \A i \in DOMAIN l : m[i].rank # Len(l) + 1 /\ m[i].rank = l[i].rank
        BY <1>4, <4>1, <4>2
      <4> QED
        BY <1>4, <4>1, <4>3 DEF InPlace
    <3> QED
      BY <1>4, <1>8, <3>1, <3>2, <3>3, <3>4, <3>5
  <2> QED
    BY <2>1, <2>2, <2>3
<1> QED
  BY <1>9 DEF AgreeInv, Today, MapAgrees, ranksIn

\* The ranks of the entries that are saved are the first ones: what is cut off has the ranks
\* of its places.
LEMMA SavedRanks ==
  ASSUME NEW l \in Seq(Entries), InPlace(l), ranksIn(l) = 1..Len(l)
  PROVE  InPlace(saved(l)) /\ ranksIn(saved(l)) = 1..Len(saved(l)) /\ Len(saved(l)) <= Batch
<1>1. PICK m : m = saved(l)
  OBVIOUS
<1>2. PICK z \in Nat : z = Len(l)
  OBVIOUS
<1>3. PICK n : n = IF z < Batch THEN z ELSE Batch
  OBVIOUS
<1>4. DOMAIN l = 1..z /\ DOMAIN m = 1..n /\ Len(m) = n /\ \A i \in 1..n : m[i] = l[i]
  <2>1. m \in Seq(Entries) /\ Len(m) = n /\ \A i \in DOMAIN m : m[i] = l[i]
    BY <1>1, <1>2, <1>3, SavedList
  <2>2. DOMAIN m = 1..n
    BY <2>1
  <2> QED
    BY <1>2, <2>1, <2>2
<1>5. n \in Nat /\ n <= z /\ n <= Batch /\ \A i \in 1..z : i > n => Batch < i
  BY <1>3, DailyGameConstants
<1>6. /\ \A i \in 1..z : l[i].rank \in 1..z
      /\ \A k \in 1..z : \E i \in 1..z : l[i].rank = k
      /\ \A i \in 1..z : Batch < i => l[i].rank = i
      /\ \A i, j \in 1..z : l[i].rank = l[j].rank => i = j
  <2>1. \A i \in 1..z : l[i].rank \in ranksIn(l)
    BY <1>4 DEF ranksIn
  <2>2. \A k \in ranksIn(l) : \E i \in 1..z : l[i].rank = k
    BY <1>4 DEF ranksIn
  <2>3. ranksIn(l) = 1..z
    BY <1>2
  <2> QED
    BY <1>4, <2>1, <2>2, <2>3 DEF InPlace
<1>7. ASSUME NEW i \in 1..n PROVE m[i].rank \in 1..n
  <2>1. i \in 1..z /\ m[i] = l[i]
    BY <1>4, <1>5
  <2>2. PICK k \in 1..z : k = l[i].rank
    BY <1>6, <2>1
  <2>3. k > n => l[k].rank = k
    BY <1>5, <1>6
  <2>4. k > n => k = i
    BY <1>6, <2>1, <2>2, <2>3
  <2> QED
    BY <1>5, <2>1, <2>2, <2>4
<1>8. ASSUME NEW k \in 1..n PROVE \E i \in 1..n : m[i].rank = k
  <2>1. PICK i \in 1..z : l[i].rank = k
    BY <1>5, <1>6
  <2>2. i > n => i = k
    BY <1>5, <1>6, <2>1
  <2>3. i \in 1..n
    BY <1>5, <2>2
  <2> QED
    BY <1>4, <2>1, <2>3
<1>9. ranksIn(m) = 1..n
  <2>1. \A k \in ranksIn(m) : k \in 1..n
    BY <1>4, <1>7 DEF ranksIn
  <2>2. \A k \in 1..n : k \in ranksIn(m)
    BY <1>4, <1>8 DEF ranksIn
  <2> QED
    BY <2>1, <2>2
<1>10. InPlace(m)
  <2>1. \A i \in 1..n : i \in 1..z /\ m[i].rank = l[i].rank
    BY <1>4, <1>5
  <2>2. \A i, j \in 1..n : m[i].rank = m[j].rank => i = j
    BY <1>6, <2>1
  <2>3. \A i \in 1..n : Batch < i => m[i].rank = i
    BY <1>6, <2>1
  <2> QED
    BY <1>4, <2>2, <2>3 DEF InPlace
<1> QED
  BY <1>1, <1>4, <1>5, <1>9, <1>10

\* A restart reads back what was saved, in some order of equal scores.
LEMMA AgreeRestart ==
  ASSUME RankInv, AgreeInv, restart
  PROVE  AgreeInv'
<1>1. PICK l : l = saved(_heroes_daily_rank)
  OBVIOUS
<1>2. PICK E : E = {e \in Range(l) : e.time = day}
  OBVIOUS
<1>3. /\ l \in Seq(Entries) /\ once(l) /\ DOMAIN l = 1..Len(l) /\ Len(l) \in Nat
      /\ ranksIn(l) = 1..Len(l) /\ \A i \in DOMAIN l : l[i].time = day
      /\ InPlace(l) /\ Len(l) <= Batch /\ Batch \in Nat
  <2>1. PICK w : w = _heroes_daily_rank
    OBVIOUS
  <2>2. /\ w \in Seq(Entries) /\ once(w) /\ InPlace(w) /\ ranksIn(w) = 1..Len(w)
        /\ \A i \in DOMAIN w : w[i].time = day
    BY <2>1 DEF RankInv, AgreeInv, Today, MapAgrees, ranksIn
  <2>3. l \in Seq(Entries) /\ once(l) /\ \A i \in DOMAIN l : i \in DOMAIN w /\ l[i] = w[i]
    BY <1>1, <2>1, <2>2, SavedList
  <2>4. InPlace(l) /\ ranksIn(l) = 1..Len(l) /\ Len(l) <= Batch
    BY <1>1, <2>1, <2>2, SavedRanks
  <2>5. Batch \in Nat
    BY DailyGameConstants
  <2> QED
    BY <2>2, <2>3, <2>4, <2>5
<1>5. E = Range(l) /\ E \in SUBSET Entries /\ IsFiniteSet(E) /\ Cardinality(E) = Len(l)
  <2>1. E = Range(l)
    BY <1>2, <1>3 DEF Range
  <2> QED
    BY <1>3, <2>1, EntriesOf
<1>6. PICK s \in orders(E) : _heroes_daily_rank' = s /\ _heroes_rank' = ranksOf(s)
  BY <1>1, <1>2 DEF restart, Load
<1>7. /\ s \in Seq(Entries) /\ Len(s) = Len(l) /\ DOMAIN s = 1..Len(l)
      /\ \A i \in DOMAIN s : s[i] \in E
      /\ \A e \in E : \E i \in DOMAIN s : s[i] = e
      /\ \A i, j \in DOMAIN s : s[i] = s[j] => i = j
  BY <1>5, Sorted
<1>8. \A i \in DOMAIN s : s[i].time = day
  BY <1>2, <1>7
<1>9. \A i \in DOMAIN s : \E j \in DOMAIN l : s[i] = l[j]
  BY <1>5, <1>7 DEF Range
<1>10. ranksIn(s) = ranksIn(l)
  <2>1. \A j \in DOMAIN l : \E i \in DOMAIN s : s[i] = l[j]
    BY <1>5, <1>7 DEF Range
  <2> QED
    BY <1>9, <2>1 DEF ranksIn
<1>11. InPlace(s)
  <2>1. ASSUME NEW i \in DOMAIN s, NEW j \in DOMAIN s, s[i].rank = s[j].rank PROVE i = j
    <3>1. PICK k \in DOMAIN l : s[i] = l[k]
      BY <1>9
    <3>2. PICK o \in DOMAIN l : s[j] = l[o]
      BY <1>9
    <3>3. k = o
      BY <1>3, <2>1, <3>1, <3>2 DEF InPlace
    <3> QED
      BY <1>7, <3>1, <3>2, <3>3
  <2>2. \A i \in DOMAIN s : ~(Batch < i)
    BY <1>3, <1>7
  <2> QED
    BY <2>1, <2>2 DEF InPlace
<1>12. day' = day /\ _daily_game_begin_time' = day
  BY DEF restart, Load, AgreeInv, Today
<1>13. Today'
  BY <1>6, <1>8, <1>12 DEF AgreeInv, Today
<1>14. ranksIn(s) = 1..Len(s)
  BY <1>3, <1>7, <1>10
<1> QED
  BY <1>6, <1>11, <1>13, <1>14 DEF AgreeInv, MapAgrees, ranksIn

\* Every step of a quiet environment keeps the agreement of list and map.
LEMMA AgreeStep ==
  ASSUME RankInv, AgreeInv, [NormalNext /\ quiet]_vars
  PROVE  AgreeInv'
<1>1. CASE UNCHANGED <<day, _daily_game_begin_time, _heroes_daily_rank, _heroes_rank>>
  BY <1>1 DEF AgreeInv, Today, MapAgrees, InPlace, ranksOf, entryOf
<1>2. ASSUME NEW a \in Accounts, HeroNext(a) PROVE AgreeInv'
  <2>1. ASSUME NEW p, NEW hp, NEW s \in Scores, ReqUpdateDailyGameProgress(a, p, hp, s) PROVE AgreeInv'
    <3>1. UNCHANGED <<day, _daily_game_begin_time>>
      BY <2>1 DEF ReqUpdateDailyGameProgress
    <3>2. updateHeroDailyRank(a, s) \/ UNCHANGED <<_heroes_daily_rank, _heroes_rank>>
      BY <2>1 DEF ReqUpdateDailyGameProgress
    <3> QED
      BY <1>1, <3>1, <3>2, AgreeUpdate
  <2>2. CASE \/ ReqResetDailyGameProgress(a) \/ ReqReceiveDailyGamePrize(a)
             \/ login(a) \/ CreateHero(a) \/ SaveHero(a) \/ Destroy(a)
    BY <1>1, <2>2 DEF ReqResetDailyGameProgress, ReqReceiveDailyGamePrize, login, CreateHero,
                      SaveHero, Destroy, rankVars
  <2> QED
    BY <1>2, <2>1, <2>2 DEF HeroNext
<1>3. CASE dayRefresh
  <2>1. /\ _heroes_daily_rank' = <<>> /\ _heroes_rank' = [a \in Accounts |-> 0]
        /\ day' = day + 1 /\ _daily_game_begin_time' = day'
    BY <1>3 DEF dayRefresh, DailyGameUpdate
  <2>2. ranksOf(<<>>) = [a \in Accounts |-> 0] /\ ranksIn(<<>>) = 1..Len(<<>>)
    <3>1. DOMAIN <<>> = {} /\ 1..Len(<<>>) = {}
      OBVIOUS
    <3>2. \A a : entryOf(<<>>, a) = 0
      BY <3>1, Zenon DEF entryOf
    <3> QED
      BY <3>1, <3>2 DEF ranksOf, ranksIn
  <2>3. day \in Nat
    BY DEF RankInv
  <2> QED
    BY <2>1, <2>2, <2>3 DEF AgreeInv, Today, MapAgrees, InPlace, ranksIn
<1>4. CASE missRefresh /\ quiet
  <2>1. day' = day + 1 /\ _daily_game_begin_time' = day /\ day \in Nat
    BY <1>4 DEF missRefresh, rankVars, AgreeInv, Today, RankInv
  <2> QED
    BY <1>4, <2>1 DEF quiet
<1>5. CASE save \/ saveStatus
  BY <1>1, <1>5 DEF save, saveStatus, rankVars
<1>6. CASE restart
  BY <1>6, AgreeRestart
<1>7. CASE UNCHANGED vars
  BY <1>1, <1>7 DEF vars, rankVars
<1> QED
  BY <1>2, <1>3, <1>4, <1>5, <1>6, <1>7 DEF NormalNext, DayNext

\* It holds of an empty ranking.
LEMMA AgreeStart == Init => AgreeInv
<1> SUFFICES ASSUME Init PROVE AgreeInv
  OBVIOUS
<1>1. DOMAIN <<>> = {} /\ 1..Len(<<>>) = {}
  OBVIOUS
<1>2. \A a : entryOf(<<>>, a) = 0
  BY <1>1, Zenon DEF entryOf
<1> QED
  BY <1>1, <1>2 DEF Init, AgreeInv, Today, MapAgrees, InPlace, ranksOf

\* An environment without a master and crashes is one of those of Next.
LEMMA NormalIsNext == NormalNext => Next
BY DEF NormalNext, Next, DayNext

\* The ranks are 1, 2, ... and _heroes_rank says the same, for any number of players and
\* although a restart cuts off what one statement does not save, if neither a master nor a
\* missed refresh interferes (updateHeroDailyRank, DailyGameUpdate, save, Load).
THEOREM MapTellsTheRank == QuietSpec => []MapAgrees
<1>1. RankInv /\ AgreeInv /\ [NormalNext /\ quiet]_vars => (RankInv /\ AgreeInv)'
  BY RankStep, AgreeStep, NormalIsNext
<1>2. AgreeInv => MapAgrees
  BY DEF AgreeInv
<1> QED
  BY <1>1, <1>2, RankStart, AgreeStart, PTL DEF QuietSpec

-----------------------------------------------------------------------------
(* A prize is given once *)

Heroes ==
  [_daily_game_time : Nat, _daily_game_prize_time : Nat, prize : Int, of : Nat, progress : Nat,
   hp : BOOLEAN, resets : Nat, reset_time : Nat, claimed : [0..MaxDay -> {0, 1}]]

\* A hero's data while game b is in progress: no prize of b or later is claimed, and a prize
\* that waits, or that a reload would pay, is of an earlier game and not claimed.
Sound(h, b) ==
  /\ h \in Heroes
  /\ h._daily_game_time <= b /\ h._daily_game_prize_time < b
  /\ \A d \in b..MaxDay : h.claimed[d] = 0
  /\ h.prize # 0 => h.of \in 1..(b - 1) /\ h.claimed[h.of] = 0
  /\ h._daily_game_time \notin {0, h._daily_game_prize_time} =>
       /\ h.claimed[h._daily_game_time] = 0
       /\ h.prize # 0 => h.of # h._daily_game_time

\* A hero that has not played is so in every game.
LEMMA SoundNew ==
  ASSUME NEW b \in 1..MaxDay
  PROVE  Sound(NewHero, b)
<1>1. NewHero \in Heroes
  BY DailyGameConstants DEF NewHero, Heroes
<1> QED
  BY <1>1, DailyGameConstants DEF NewHero, Sound

\* A hero that takes no part stays so when later games begin.
LEMMA SoundLater ==
  ASSUME NEW h, NEW b \in 1..MaxDay, NEW c \in 1..MaxDay, b <= c, Sound(h, b)
  PROVE  Sound(h, c)
<1>1. PICK g \in Nat : g = h._daily_game_time
  BY DEF Sound, Heroes
<1>2. PICK p \in Nat : p = h._daily_game_prize_time
  BY DEF Sound, Heroes
<1>3. MaxDay \in Nat
  BY DailyGameConstants
<1>4. g <= c /\ p < c
  BY <1>1, <1>2 DEF Sound
<1>5. c..MaxDay \subseteq b..MaxDay /\ 1..(b - 1) \subseteq 1..(c - 1)
  BY <1>3
<1> QED
  BY <1>1, <1>2, <1>4, <1>5 DEF Sound

\* Progress, lives and resets have no part in it.
LEMMA SoundPlay ==
  ASSUME NEW h, NEW b \in 1..MaxDay, Sound(h, b), NEW k \in Heroes,
         k._daily_game_time \in {h._daily_game_time, b},
         k._daily_game_prize_time = h._daily_game_prize_time,
         k.prize = h.prize, k.of = h.of, k.claimed = h.claimed
  PROVE  Sound(k, b)
<1>1. PICK p \in Nat : p = h._daily_game_prize_time
  BY DEF Sound, Heroes
<1>2. MaxDay \in Nat /\ b \in b..MaxDay
  BY DailyGameConstants
<1>3. CASE k._daily_game_time = h._daily_game_time
  BY <1>3 DEF Sound
<1>4. CASE k._daily_game_time = b
  <2>1. k.claimed[b] = 0 /\ (k.prize # 0 => k.of # b)
    <3>1. h.prize # 0 => h.of \in 1..(b - 1)
      BY DEF Sound
    <3> QED
      BY <1>2, <3>1 DEF Sound
  <2> QED
    BY <1>4, <2>1 DEF Sound
<1> QED
  BY <1>3, <1>4

\* A prize of game g is given, g is marked or left, and no other game waits for one.
LEMMA SoundPaid ==
  ASSUME NEW h, NEW b \in 1..MaxDay, NEW c \in 1..MaxDay, b <= c, Sound(h, b),
         NEW g \in 1..(c - 1), h.claimed[g] = 0, NEW k \in Heroes,
         k._daily_game_time = k._daily_game_prize_time, k._daily_game_time \in 0..(c - 1),
         k.of = g, k.claimed = h.claimed
  PROVE  Sound(k, c)
<1>1. MaxDay \in Nat /\ c..MaxDay \subseteq b..MaxDay
  BY DailyGameConstants
<1>2. \A d \in c..MaxDay : k.claimed[d] = 0
  BY <1>1 DEF Sound
<1>3. k._daily_game_time <= c /\ k._daily_game_prize_time < c
  OBVIOUS
<1> QED
  BY <1>2, <1>3 DEF Sound

\* DreamHero::TryToGetGamePrize
LEMMA Tried ==
  ASSUME NEW h, NEW b \in 1..MaxDay, _daily_game_begin_time = b, Sound(h, b)
  PROVE  LET k == TryToGetGamePrize(h)
         IN  /\ Sound(k, b) /\ k._daily_game_time = h._daily_game_time
             /\ \/ k = h /\ h._daily_game_time \in {b, 0, h._daily_game_prize_time}
                \/ /\ h._daily_game_time \notin {b, 0, h._daily_game_prize_time}
                   /\ k.of = h._daily_game_time
                   /\ k._daily_game_prize_time = h._daily_game_time
<1>1. h \in Heroes /\ MaxDay \in Nat
  BY DailyGameConstants DEF Sound
<1>2. CASE h._daily_game_time \in {b, 0, h._daily_game_prize_time}
  BY <1>2 DEF TryToGetGamePrize
<1>3. CASE h._daily_game_time \notin {b, 0, h._daily_game_prize_time}
  <2>1. PICK g \in 1..(b - 1) : g = h._daily_game_time /\ h.claimed[g] = 0
    <3>1. PICK g \in Nat : g = h._daily_game_time
      BY <1>1 DEF Heroes
    <3>2. g <= b /\ g # b /\ g # 0 /\ h.claimed[g] = 0
      BY <1>3, <3>1 DEF Sound
    <3> QED
      BY <3>1, <3>2
  <2>2. PICK z \in Int : z = GetDailyGamePrize(h.progress + 1)
    BY <1>1, DailyGameConstants DEF GetDailyGamePrize, Heroes
  <2>3. PICK k : k = [h EXCEPT !.of = g, !.prize = z, !._daily_game_prize_time = g]
    OBVIOUS
  <2>4. TryToGetGamePrize(h) = k
    BY <1>3, <2>1, <2>2, <2>3 DEF TryToGetGamePrize
  <2>5. /\ k \in Heroes /\ k._daily_game_time = g /\ k._daily_game_prize_time = g
        /\ k.of = g /\ k.claimed = h.claimed
    BY <1>1, <2>1, <2>3 DEF Heroes
  <2>6. g \in 0..(b - 1)
    BY <2>1
  <2>7. Sound(k, b)
    BY <2>1, <2>5, <2>6, SoundPaid
  <2> QED
    BY <1>3, <2>1, <2>4, <2>5, <2>7
<1> QED
  BY <1>2, <1>3

\* DreamHero::set_info
LEMMA SetInfo ==
  ASSUME NEW h, NEW b \in 1..MaxDay, _daily_game_begin_time = b, Sound(h, b)
  PROVE  LET k == set_info(h)
         IN  /\ Sound(k, b) /\ k._daily_game_time = h._daily_game_time
             /\ \/ k._daily_game_prize_time = h._daily_game_prize_time /\ k.prize = h.prize /\ k.of = h.of
                \/ /\ h._daily_game_time \notin {b, 0, h._daily_game_prize_time}
                   /\ k.of = h._daily_game_time
                   /\ k._daily_game_prize_time = h._daily_game_time
<1>1. PICK f : f = fresh(h)
  OBVIOUS
<1>2. /\ f \in Heroes /\ f._daily_game_time = h._daily_game_time /\ f.claimed = h.claimed
      /\ f._daily_game_prize_time = h._daily_game_prize_time /\ f.prize = h.prize /\ f.of = h.of
  BY <1>1 DEF fresh, Sound, Heroes
<1>3. Sound(f, b)
  BY <1>2, SoundPlay
<1>4. PICK k : k = IF h._daily_game_time = b THEN h ELSE f
  OBVIOUS
<1>5. /\ Sound(k, b) /\ k._daily_game_time = h._daily_game_time
      /\ k._daily_game_prize_time = h._daily_game_prize_time /\ k.prize = h.prize /\ k.of = h.of
  BY <1>2, <1>3, <1>4
<1>6. set_info(h) = TryToGetGamePrize(k)
  BY <1>1, <1>4 DEF set_info
<1> QED
  BY <1>5, <1>6, Tried

\* DreamHero::DailyGamePrize, for a hero in the game that ends, and the statement on its row
LEMMA Prized ==
  ASSUME NEW h, NEW b \in 1..MaxDay, NEW c \in 1..MaxDay, b < c, _daily_game_begin_time = b,
         Sound(h, b), h._daily_game_time = b, NEW gold \in Int
  PROVE  /\ LET k == DailyGamePrize(h, gold)
            IN  /\ Sound(k, c) /\ k._daily_game_time = k._daily_game_prize_time
                /\ k.of = b /\ k.prize = gold
         /\ LET k == prizeRow(h, gold)
            IN  /\ Sound(k, c) /\ k._daily_game_time = k._daily_game_prize_time
                /\ k.of = b /\ k.prize = gold
<1>1. h \in Heroes /\ MaxDay \in Nat
  BY DailyGameConstants DEF Sound
<1>2. PICK p \in Nat : p = h._daily_game_prize_time /\ p < b
  BY <1>1 DEF Sound, Heroes
<1>3. b \in 1..(c - 1) /\ h.claimed[b] = 0 /\ b \in 0..(c - 1) /\ p \in 0..(c - 1) /\ b <= c
  BY <1>1, <1>2 DEF Sound
<1>4. PICK k : k = [h EXCEPT !.of = b, !.prize = gold, !._daily_game_time = p]
  OBVIOUS
<1>5. /\ k \in Heroes /\ k._daily_game_time = p /\ k._daily_game_prize_time = p
      /\ k.of = b /\ k.claimed = h.claimed /\ k.prize = gold
  BY <1>1, <1>2, <1>4 DEF Heroes
<1>6. DailyGamePrize(h, gold) = k
  BY <1>2, <1>4 DEF DailyGamePrize
<1>7. Sound(k, c)
  BY <1>3, <1>5, SoundPaid
<1>8. PICK m : m = [h EXCEPT !.of = b, !.prize = gold, !._daily_game_prize_time = b]
  OBVIOUS
<1>9. /\ m \in Heroes /\ m._daily_game_time = b /\ m._daily_game_prize_time = b
      /\ m.of = b /\ m.claimed = h.claimed /\ m.prize = gold
  BY <1>1, <1>8 DEF Heroes
<1>10. prizeRow(h, gold) = m
  BY <1>8 DEF prizeRow
<1>11. Sound(m, c)
  BY <1>3, <1>9, SoundPaid
<1> QED
  BY <1>5, <1>6, <1>7, <1>9, <1>10, <1>11

\* The accounts of the list
listed(a) == \E i \in DOMAIN _heroes_daily_rank : _heroes_daily_rank[i].acc = a

\* A hero's data that count: what it is, or will be loaded from.
data(where, h, k) == IF where = "in" THEN {h} ELSE IF where = "reply" THEN {h, k} ELSE {k}

PrizeInv ==
  /\ day \in 1..MaxDay /\ _daily_game_begin_time \in 1..day
  /\ hero \in [Accounts -> {"out", "reply", "in"}]
  /\ info \in [Accounts -> Heroes] /\ row \in [Accounts -> Heroes]
  /\ \A a \in Accounts : Sound(info[a], _daily_game_begin_time) /\ Sound(row[a], _daily_game_begin_time)
  /\ \A a \in Accounts : listed(a) =>
       \A h \in data(hero[a], info[a], row[a]) : h._daily_game_time = _daily_game_begin_time

\* A step that is about one hero.
LEMMA OneHero ==
  ASSUME PrizeInv, NEW a \in Accounts, NEW h, NEW k, NEW w \in {"out", "reply", "in"},
         hero' = [hero EXCEPT ![a] = w], info' = [info EXCEPT ![a] = h], row' = [row EXCEPT ![a] = k],
         UNCHANGED <<day, _daily_game_begin_time>>,
         Sound(h, _daily_game_begin_time), Sound(k, _daily_game_begin_time),
         \A b \in Accounts : b # a => (listed(b)' => listed(b)),
         listed(a)' => \A x \in data(w, h, k) : x._daily_game_time = _daily_game_begin_time
  PROVE  PrizeInv'
<1>1. h \in Heroes /\ k \in Heroes
  BY DEF Sound
<1>2. /\ hero' \in [Accounts -> {"out", "reply", "in"}]
      /\ info' \in [Accounts -> Heroes] /\ row' \in [Accounts -> Heroes]
  BY <1>1 DEF PrizeInv
<1>3. hero'[a] = w /\ info'[a] = h /\ row'[a] = k
  BY DEF PrizeInv
<1>4. ASSUME NEW b \in Accounts, b # a
      PROVE  hero'[b] = hero[b] /\ info'[b] = info[b] /\ row'[b] = row[b]
  BY <1>4 DEF PrizeInv
<1>5. PICK d : d = _daily_game_begin_time
  OBVIOUS
<1>6. /\ \A b \in Accounts : Sound(info[b], d) /\ Sound(row[b], d)
      /\ \A b \in Accounts : listed(b) => \A x \in data(hero[b], info[b], row[b]) : x._daily_game_time = d
  BY <1>5 DEF PrizeInv
<1>7. \A b \in Accounts : Sound(info'[b], d) /\ Sound(row'[b], d)
  BY <1>3, <1>4, <1>5, <1>6
<1>8. \A b \in Accounts : listed(b)' => \A x \in data(hero'[b], info'[b], row'[b]) : x._daily_game_time = d
  <2> SUFFICES ASSUME NEW b \in Accounts, listed(b)'
               PROVE  \A x \in data(hero'[b], info'[b], row'[b]) : x._daily_game_time = d
    OBVIOUS
  <2>1. CASE b = a
    BY <1>3, <1>5, <2>1
  <2>2. CASE b # a
    BY <1>4, <1>6, <2>2
  <2> QED
    BY <2>1, <2>2
<1> QED
  BY <1>2, <1>5, <1>7, <1>8 DEF PrizeInv

\* Nobody comes into the list but the account it is updated with.
LEMMA UpdateListed ==
  ASSUME RankInv, NEW a \in Accounts, NEW score \in Scores, updateHeroDailyRank(a, score),
         NEW b, b # a, listed(b)'
  PROVE  listed(b)
<1>1. PICK m : m = updated(a, score)
  OBVIOUS
<1>2. PICK l : l = _heroes_daily_rank
  OBVIOUS
<1>3. m \in Seq(Entries) /\ once(m) /\ l \in Seq(Entries)
  BY <1>1, <1>2, Updated DEF RankInv
<1>4. ASSUME NEW i \in DOMAIN m, m[i].acc = b PROVE \E j \in DOMAIN l : l[j].acc = b
  <2>1. CASE need_add(a, score)
    <3>1. PICK e : e = newEntry(a, score)
      OBVIOUS
    <3>2. m = Append(l, e) /\ e \in Entries /\ e.acc = a
      BY <1>1, <1>2, <2>1, <3>1, Updated DEF newEntry
    <3> QED
      BY <1>3, <1>4, <3>2, Added
  <2>2. CASE ~need_add(a, score)
    BY <1>1, <1>2, <1>4, <2>2, Updated
  <2> QED
    BY <2>1, <2>2
<1>5. PICK i \in DOMAIN _heroes_daily_rank' : _heroes_daily_rank'[i].acc = b
  BY DEF listed
<1>6. \E j \in DOMAIN m : m[j].acc = b
  <2>1. CASE need_rank(score)
    <3>1. PICK s \in orders(Range(m)) : _heroes_daily_rank' = ranked(s)
      BY <1>1, <2>1, UpdateIs
    <3>2. s \in Seq(Entries) /\ \A j \in DOMAIN s : s[j] \in Range(m)
      BY <1>3, <3>1, EntriesOf, Sorted
    <3>3. i \in DOMAIN s /\ s[i].acc = b
      BY <1>5, <3>1, <3>2, Ranked
    <3> QED
      BY <3>2, <3>3 DEF Range
  <2>2. CASE ~need_rank(score)
    BY <1>1, <1>5, <2>2, UpdateIs
  <2> QED
    BY <2>1, <2>2
<1> QED
  BY <1>2, <1>4, <1>6 DEF listed

\* Nor does anybody by a restart.
LEMMA RestartListed ==
  ASSUME RankInv, restart, NEW b, listed(b)'
  PROVE  listed(b)
<1>1. PICK l : l = saved(_heroes_daily_rank)
  OBVIOUS
<1>2. l \in Seq(Entries) /\ Range(l) \subseteq Range(_heroes_daily_rank)
  BY <1>1, SavedList DEF RankInv
<1>3. PICK E : E = {e \in Range(l) : e.time = day}
  OBVIOUS
<1>4. E \in SUBSET Range(l) /\ E \in SUBSET Entries /\ IsFiniteSet(E)
  <2>1. E \in SUBSET Range(l)
    BY <1>3
  <2> QED
    BY <1>2, <2>1, EntriesOf
<1>5. _heroes_daily_rank' \in orders(E)
  BY <1>1, <1>3 DEF restart, Load
<1>6. PICK i \in DOMAIN _heroes_daily_rank' : _heroes_daily_rank'[i].acc = b
  BY DEF listed
<1>7. _heroes_daily_rank'[i] \in E
  BY <1>4, <1>5, <1>6, Sorted
<1>8. _heroes_daily_rank'[i] \in Range(_heroes_daily_rank)
  BY <1>2, <1>4, <1>7
<1> QED
  BY <1>6, <1>8 DEF listed, Range

\* What a request changes and what it leaves
samePrize(k, h) ==
  /\ k._daily_game_prize_time = h._daily_game_prize_time
  /\ k.prize = h.prize /\ k.of = h.of /\ k.claimed = h.claimed

\* fresh leaves the game and its prizes.
LEMMA Freshened ==
  ASSUME NEW h \in Heroes
  PROVE  /\ fresh(h) \in Heroes /\ fresh(h)._daily_game_time = h._daily_game_time
         /\ samePrize(fresh(h), h)
BY DEF Heroes, fresh, samePrize

\* Entering a game changes nothing else.
LEMMA Begun ==
  ASSUME NEW h \in Heroes, NEW b \in Nat, NEW f, f = [h EXCEPT !._daily_game_time = b]
  PROVE  f \in Heroes /\ f._daily_game_time = b /\ samePrize(f, h)
BY DEF Heroes, samePrize

\* Progress and life change nothing else.
LEMMA PlayedOn ==
  ASSUME NEW f \in Heroes, NEW q \in Nat, NEW hp \in BOOLEAN,
         NEW m, m = [f EXCEPT !.progress = q, !.hp = hp]
  PROVE  m \in Heroes /\ m._daily_game_time = f._daily_game_time /\ samePrize(m, f)
BY DEF Heroes, samePrize

\* Taking the prize that waits leaves the rest.
LEMMA Unprized ==
  ASSUME NEW n \in Heroes, NEW m, m = [n EXCEPT !.prize = 0]
  PROVE  /\ m \in Heroes /\ m.prize = 0 /\ m._daily_game_time = n._daily_game_time
         /\ m._daily_game_prize_time = n._daily_game_prize_time /\ m.claimed = n.claimed
BY DEF Heroes

\* The three requests that change a hero's part in the game
LEMMA Requested ==
  ASSUME RankInv, PrizeInv, NEW a \in Accounts, NEW p \in 1.._max_daily_progress + 1,
         NEW hp \in BOOLEAN, NEW s \in Scores, ReqUpdateDailyGameProgress(a, p, hp, s)
  PROVE  /\ UNCHANGED <<day, _daily_game_begin_time, hero, row, final>> /\ hero[a] = "in"
         /\ updateHeroDailyRank(a, s) \/ UNCHANGED _heroes_daily_rank
         /\ \E m \in Heroes : /\ info' = [info EXCEPT ![a] = m] /\ samePrize(m, info[a])
                              /\ m._daily_game_time = _daily_game_begin_time
<1>1. PICK b \in Nat : b = _daily_game_begin_time
  BY DEF PrizeInv
<1>2. PICK h \in Heroes : h = info[a]
  BY DEF PrizeInv
<1>3. PICK f : f = IF h._daily_game_time = b THEN h ELSE [fresh(h) EXCEPT !._daily_game_time = b]
  OBVIOUS
<1>4. f \in Heroes /\ f._daily_game_time = b /\ samePrize(f, h)
  <2>1. CASE h._daily_game_time = b
    BY <1>3, <2>1 DEF samePrize
  <2>2. CASE h._daily_game_time # b
    <3>1. PICK g : g = fresh(h)
      OBVIOUS
    <3>2. g \in Heroes /\ samePrize(g, h) /\ f = [g EXCEPT !._daily_game_time = b]
      BY <1>3, <2>2, <3>1, Freshened
    <3> QED
      BY <3>2, Begun DEF samePrize
  <2> QED
    BY <2>1, <2>2
<1>5. PICK q \in Nat : q = IF hp THEN p ELSE f.progress
  BY <1>4, DailyGameConstants DEF Heroes
<1>6. PICK m : m = [f EXCEPT !.progress = q, !.hp = hp]
  OBVIOUS
<1>7. m \in Heroes /\ m._daily_game_time = b /\ samePrize(m, h)
  <2>1. m \in Heroes /\ m._daily_game_time = f._daily_game_time /\ samePrize(m, f)
    BY <1>4, <1>6, PlayedOn, Zenon
  <2> QED
    BY <1>4, <2>1 DEF samePrize
<1>8. /\ hero[a] = "in" /\ UNCHANGED <<day, _daily_game_begin_time, hero, row, final>>
      /\ \/ info' = [info EXCEPT ![a] = m] /\ updateHeroDailyRank(a, s)
         \/ info' = [info EXCEPT ![a] = f] /\ UNCHANGED _heroes_daily_rank
  <2>1. f = IF info[a]._daily_game_time = _daily_game_begin_time THEN info[a]
            ELSE [fresh(info[a]) EXCEPT !._daily_game_time = _daily_game_begin_time]
    BY <1>1, <1>2, <1>3
  <2>2. m = [f EXCEPT !.progress = IF hp THEN p ELSE @, !.hp = hp]
    BY <1>5, <1>6
  <2> QED
    BY <2>1, <2>2 DEF ReqUpdateDailyGameProgress, dbVars
<1> QED
  BY <1>1, <1>2, <1>4, <1>7, <1>8

\* DreamHero::ReqResetDailyGameProgress leaves the game and its prizes.
LEMMA ResetTo ==
  ASSUME RankInv, PrizeInv, NEW a \in Accounts, ReqResetDailyGameProgress(a)
  PROVE  /\ UNCHANGED <<day, _daily_game_begin_time, _heroes_daily_rank, hero, row, final>> /\ hero[a] = "in"
         /\ \E m \in Heroes : /\ info' = [info EXCEPT ![a] = m] /\ samePrize(m, info[a])
                              /\ m._daily_game_time = info[a]._daily_game_time
<1>1. PICK h : h = info[a]
  OBVIOUS
<1>2. h \in Heroes
  BY <1>1 DEF PrizeInv
<1>3. PICK c \in Nat : c = IF h.reset_time = day THEN h.resets + 1 ELSE 1
  BY <1>2 DEF Heroes
<1>4. PICK m : m = [h EXCEPT !.progress = 0, !.hp = TRUE, !.resets = c, !.reset_time = day]
  OBVIOUS
<1>5. /\ hero[a] = "in" /\ info' = [info EXCEPT ![a] = m]
      /\ UNCHANGED <<day, _daily_game_begin_time, _heroes_daily_rank, hero, row, final>>
  BY <1>1, <1>3, <1>4 DEF ReqResetDailyGameProgress, rankVars, dbVars
<1>6. PICK d \in Nat : d = day
  BY DEF RankInv
<1>7. m \in Heroes /\ m._daily_game_time = h._daily_game_time /\ samePrize(m, h)
  <2>1. PICK f : f = [h EXCEPT !.progress = 0, !.hp = TRUE]
    OBVIOUS
  <2>2. f \in Heroes /\ f._daily_game_time = h._daily_game_time /\ samePrize(f, h)
    BY <1>2, <2>1, PlayedOn, Zenon
  <2>3. m = [f EXCEPT !.resets = c, !.reset_time = d]
    BY <1>4, <1>6, <2>1
  <2>4. f \in Heroes
    BY <2>2
  <2>5. m \in Heroes /\ m._daily_game_time = f._daily_game_time /\ samePrize(m, f)
    BY <2>3, <2>4 DEF Heroes, samePrize
  <2> QED
    BY <2>2, <2>5 DEF samePrize
<1> QED
  BY <1>1, <1>5, <1>7

\* ReqReceiveDailyGamePrize moves the prize that waits into the gold.
LEMMA Received ==
  ASSUME PrizeInv, NEW a \in Accounts, ReqReceiveDailyGamePrize(a)
  PROVE  /\ UNCHANGED <<day, _daily_game_begin_time, _heroes_daily_rank, hero, row, final>> /\ hero[a] = "in"
         /\ \E m \in Heroes : /\ info' = [info EXCEPT ![a] = m] /\ Sound(m, _daily_game_begin_time)
                              /\ m.prize = 0 /\ m._daily_game_time = info[a]._daily_game_time
                              /\ m._daily_game_prize_time = info[a]._daily_game_prize_time
<1>1. PICK b \in 1..MaxDay : b = _daily_game_begin_time
  BY DailyGameConstants DEF PrizeInv
<1>2. PICK h \in Heroes : h = info[a] /\ Sound(h, b)
  BY <1>1 DEF PrizeInv
<1>3. h.prize # 0 /\ h.of \in 1..(b - 1) /\ h.claimed[h.of] = 0 /\ MaxDay \in Nat
  BY <1>2, DailyGameConstants DEF ReqReceiveDailyGamePrize, Sound
<1>4. PICK g \in 1..(b - 1) : g = h.of
  BY <1>3
<1>5. PICK got : got = [h.claimed EXCEPT ![g] = 1]
  OBVIOUS
<1>6. PICK m : m = [h EXCEPT !.claimed = got, !.prize = 0]
  OBVIOUS
<1>7. info' = [info EXCEPT ![a] = m]
  <2>1. info' = [info EXCEPT ![a].claimed[h.of] = @ + 1, ![a].prize = 0]
    BY <1>2 DEF ReqReceiveDailyGamePrize
  <2>2. info' = [info EXCEPT ![a] = [h EXCEPT !.claimed = [h.claimed EXCEPT ![g] = h.claimed[g] + 1], !.prize = 0]]
    BY <1>2, <1>4, <2>1 DEF Heroes, PrizeInv
  <2>3. h.claimed[g] + 1 = 1
    BY <1>3, <1>4
  <2> QED
    BY <1>5, <1>6, <2>2, <2>3
<1>8. /\ got \in [0..MaxDay -> {0, 1}]
      /\ \A d \in 0..MaxDay : got[d] = IF d = g THEN 1 ELSE h.claimed[d]
  BY <1>3, <1>4, <1>5 DEF Heroes
<1>9. /\ m \in Heroes /\ m._daily_game_time = h._daily_game_time
      /\ m._daily_game_prize_time = h._daily_game_prize_time
      /\ m.prize = 0 /\ m.claimed = got
  <2>1. PICK n : n = [h EXCEPT !.claimed = got]
    OBVIOUS
  <2>2. /\ n \in Heroes /\ n._daily_game_time = h._daily_game_time
        /\ n._daily_game_prize_time = h._daily_game_prize_time /\ n.claimed = got
    BY <1>8, <2>1 DEF Heroes
  <2>3. m = [n EXCEPT !.prize = 0]
    BY <1>6, <2>1
  <2> QED
    BY <2>2, <2>3, Unprized, Zenon
<1>10. Sound(m, b)
  <2>1. \A d \in b..MaxDay : got[d] = 0
    BY <1>2, <1>3, <1>4, <1>8 DEF Sound
  <2>2. ASSUME h._daily_game_time \notin {0, h._daily_game_prize_time} PROVE got[h._daily_game_time] = 0
    <3>1. PICK t \in 0..MaxDay : t = h._daily_game_time
      BY <1>2, <1>3 DEF Sound, Heroes
    <3> QED
      BY <1>2, <1>3, <1>4, <1>8, <2>2, <3>1 DEF Sound
  <2> QED
    BY <1>2, <1>9, <2>1, <2>2 DEF Sound
<1>11. /\ hero[a] = "in"
       /\ UNCHANGED <<day, _daily_game_begin_time, _heroes_daily_rank, hero, row, final>>
  BY DEF ReqReceiveDailyGamePrize, rankVars, dbVars
<1> QED
  BY <1>1, <1>2, <1>7, <1>9, <1>10, <1>11

\* A step of one hero
LEMMA PrizeHero ==
  ASSUME RankInv, PrizeInv, NEW a \in Accounts, HeroNext(a), savedFirst
  PROVE  PrizeInv'
<1>1. PICK b \in 1..MaxDay : b = _daily_game_begin_time /\ b <= day
  BY DailyGameConstants DEF PrizeInv
<1>2. PICK h : h = info[a]
  OBVIOUS
<1>3. PICK k : k = row[a]
  OBVIOUS
<1>4. /\ h \in Heroes /\ Sound(h, b) /\ Sound(k, b) /\ hero[a] \in {"out", "reply", "in"}
      /\ listed(a) => \A x \in data(hero[a], h, k) : x._daily_game_time = b
  BY <1>1, <1>2, <1>3 DEF PrizeInv
<1>5. info = [info EXCEPT ![a] = h] /\ row = [row EXCEPT ![a] = k] /\ hero = [hero EXCEPT ![a] = hero[a]]
  BY <1>2, <1>3 DEF PrizeInv
<1>6. UNCHANGED _heroes_daily_rank => \A c : listed(c)' => listed(c)
  BY DEF listed
<1>7. ASSUME NEW p \in 1.._max_daily_progress + 1, NEW hp \in BOOLEAN, NEW s \in Scores,
             ReqUpdateDailyGameProgress(a, p, hp, s)
      PROVE  PrizeInv'
  <2>1. PICK m \in Heroes : info' = [info EXCEPT ![a] = m] /\ samePrize(m, h) /\ m._daily_game_time = b
    BY <1>1, <1>2, <1>7, Requested
  <2>2. /\ UNCHANGED <<day, _daily_game_begin_time, hero, row>> /\ hero[a] = "in"
        /\ updateHeroDailyRank(a, s) \/ UNCHANGED _heroes_daily_rank
    BY <1>7, Requested
  <2>3. Sound(m, b) /\ \A x \in data("in", m, k) : x._daily_game_time = b
    BY <1>4, <2>1, SoundPlay DEF data, samePrize
  <2>4. \A c \in Accounts : c # a => (listed(c)' => listed(c))
    BY <1>6, <2>2, UpdateListed
  <2>5. /\ UNCHANGED <<day, _daily_game_begin_time>>
        /\ hero' = [hero EXCEPT ![a] = "in"] /\ row' = [row EXCEPT ![a] = k]
    BY <1>5, <2>2
  <2> QED
    BY <1>1, <1>4, <2>1, <2>3, <2>4, <2>5, OneHero
<1>8. CASE ReqResetDailyGameProgress(a)
  <2>1. PICK m \in Heroes : /\ info' = [info EXCEPT ![a] = m] /\ samePrize(m, h)
                            /\ m._daily_game_time = h._daily_game_time
    BY <1>2, <1>8, ResetTo
  <2>2. UNCHANGED <<day, _daily_game_begin_time, _heroes_daily_rank, hero, row>> /\ hero[a] = "in"
    BY <1>8, ResetTo
  <2>3. Sound(m, b) /\ (listed(a) => \A x \in data("in", m, k) : x._daily_game_time = b)
    BY <1>4, <2>1, <2>2, SoundPlay DEF data, samePrize
  <2> QED
    BY <1>1, <1>4, <1>5, <1>6, <2>1, <2>2, <2>3, OneHero
<1>9. CASE ReqReceiveDailyGamePrize(a)
  <2>1. PICK m \in Heroes : /\ info' = [info EXCEPT ![a] = m] /\ Sound(m, b)
                            /\ m._daily_game_time = h._daily_game_time
    BY <1>1, <1>2, <1>9, Received
  <2>2. UNCHANGED <<day, _daily_game_begin_time, _heroes_daily_rank, hero, row>> /\ hero[a] = "in"
    BY <1>9, Received
  <2>3. Sound(m, b) /\ (listed(a) => \A x \in data("in", m, k) : x._daily_game_time = b)
    BY <1>4, <2>1, <2>2 DEF data
  <2> QED
    BY <1>1, <1>4, <1>5, <1>6, <2>1, <2>2, <2>3, OneHero
<1>10. CASE login(a)
  <2>1. /\ hero[a] = "out" /\ hero' = [hero EXCEPT ![a] = "reply"] /\ info' = [info EXCEPT ![a] = k]
        /\ UNCHANGED <<day, _daily_game_begin_time, _heroes_daily_rank, row>>
    BY <1>3, <1>10 DEF login, rankVars, dbVars
  <2>2. listed(a) => \A x \in data("reply", k, k) : x._daily_game_time = b
    BY <1>4, <2>1 DEF data
  <2> QED
    BY <1>1, <1>4, <1>5, <1>6, <2>1, <2>2, OneHero
<1>11. CASE CreateHero(a)
  <2>1. PICK m : m = set_info(h)
    OBVIOUS
  <2>2. /\ hero[a] = "reply" /\ hero' = [hero EXCEPT ![a] = "in"] /\ info' = [info EXCEPT ![a] = m]
        /\ UNCHANGED <<day, _daily_game_begin_time, _heroes_daily_rank, row>>
    BY <1>2, <1>11, <2>1 DEF CreateHero, rankVars, dbVars
  <2>3. Sound(m, b) /\ m._daily_game_time = h._daily_game_time
    BY <1>1, <1>4, <2>1, SetInfo
  <2>4. listed(a) => \A x \in data("in", m, k) : x._daily_game_time = b
    BY <1>4, <2>2, <2>3 DEF data
  <2> QED
    BY <1>1, <1>4, <1>5, <1>6, <2>2, <2>3, <2>4, OneHero
<1>12. CASE SaveHero(a)
  <2>1. /\ hero[a] = "in" /\ row' = [row EXCEPT ![a] = h]
        /\ UNCHANGED <<day, _daily_game_begin_time, _heroes_daily_rank, hero, info>>
    BY <1>2, <1>12 DEF SaveHero, rankVars
  <2>2. listed(a) => \A x \in data("in", h, h) : x._daily_game_time = b
    BY <1>4, <2>1 DEF data
  <2> QED
    BY <1>1, <1>4, <1>5, <1>6, <2>1, <2>2, OneHero
<1>13. CASE Destroy(a)
  <2>1. /\ hero[a] = "in" /\ hero' = [hero EXCEPT ![a] = "out"] /\ info' = [info EXCEPT ![a] = NewHero]
        /\ UNCHANGED <<day, _daily_game_begin_time, _heroes_daily_rank, row>>
    BY <1>13 DEF Destroy, rankVars, dbVars
  <2>2. k = h
    <3>1. hero'[a] = "out"
      BY <2>1 DEF PrizeInv
    <3> QED
      BY <1>2, <1>3, <2>1, <3>1 DEF savedFirst
  <2>3. Sound(NewHero, b)
    BY SoundNew
  <2>4. listed(a) => \A x \in data("out", NewHero, k) : x._daily_game_time = b
    BY <1>4, <2>1, <2>2 DEF data
  <2> QED
    BY <1>1, <1>4, <1>5, <1>6, <2>1, <2>3, <2>4, OneHero
<1> QED
  BY <1>7, <1>8, <1>9, <1>10, <1>11, <1>12, <1>13 DEF HeroNext

\* What the refresh does to a hero in memory: it is given the prize of its rank, if it has
\* one, and is then asked about an earlier game.
asked(h, gold, has) == TryToGetGamePrize(IF has THEN DailyGamePrize(h, gold) ELSE h)

\* A hero given the prize of its rank is marked with the game that ends.
LEMMA Asked ==
  ASSUME NEW h, NEW b \in 1..MaxDay, NEW c \in 1..MaxDay, b < c, _daily_game_begin_time = b,
         Sound(h, b), h._daily_game_time = b, NEW gold \in Int
  PROVE  LET k == TryToGetGamePrize(DailyGamePrize(h, gold))
         IN  /\ Sound(k, c) /\ k._daily_game_time = k._daily_game_prize_time
             /\ k.of = b /\ k.prize = gold
<1>1. PICK k : k = DailyGamePrize(h, gold)
  OBVIOUS
<1>2. /\ Sound(k, c) /\ k._daily_game_time = k._daily_game_prize_time
      /\ k.of = b /\ k.prize = gold
  BY <1>1, Prized
<1>3. TryToGetGamePrize(k) = k
  BY <1>2 DEF TryToGetGamePrize
<1> QED
  BY <1>1, <1>2, <1>3

\* The gold of an entry's rank
rankPrize(a) == GetDailyGamePrize(_heroes_daily_rank[entryOf(_heroes_daily_rank, a)].rank)

\* info and row after dayRefresh, and that a prize is a number
LEMMA RefreshIs ==
  ASSUME RankInv, dayRefresh
  PROVE  /\ info' = [a \in Accounts |-> IF hero[a] # "in" THEN info[a]
                                        ELSE asked(info[a], rankPrize(a), listed(a))]
         /\ row' = [a \in Accounts |-> IF hero[a] # "in" /\ listed(a) THEN prizeRow(row[a], rankPrize(a))
                                       ELSE row[a]]
         /\ \A a \in Accounts : listed(a) => rankPrize(a) \in Int
<1>1. _heroes_daily_rank \in Seq(Entries)
  BY DEF RankInv
<1>2. \A a : listed(a) <=> entryOf(_heroes_daily_rank, a) # 0
  BY <1>1, EntryOf DEF listed
<1>3. ASSUME NEW a \in Accounts, listed(a) PROVE rankPrize(a) \in Int
  <2>1. PICK i \in DOMAIN _heroes_daily_rank : i = entryOf(_heroes_daily_rank, a)
    BY <1>1, <1>2, <1>3, EntryOf
  <2>2. _heroes_daily_rank[i] \in Entries
    BY <1>1, <2>1
  <2>3. _heroes_daily_rank[i].rank \in Int
    BY <2>2 DEF Entries
  <2> QED
    BY <2>1, <2>3 DEF rankPrize, GetDailyGamePrize
<1>4. \A a : ~(entryOf(_heroes_daily_rank, a) # 0) <=> ~listed(a)
  BY <1>2
<1>5. info' = [a \in Accounts |-> IF hero[a] # "in" THEN info[a]
                                  ELSE asked(info[a], rankPrize(a), listed(a))]
  BY <1>2 DEF dayRefresh, DailyGameUpdate, asked, rankPrize
<1>6. row' = [a \in Accounts |-> IF hero[a] # "in" /\ listed(a) THEN prizeRow(row[a], rankPrize(a))
                                 ELSE row[a]]
  BY <1>2 DEF dayRefresh, DailyGameUpdate, rankPrize
<1> QED
  BY <1>3, <1>5, <1>6

\* Every step without a master and crashes keeps it.
LEMMA PrizeStep ==
  ASSUME RankInv, PrizeInv, [NormalNext]_vars
  PROVE  PrizeInv'
<1>1. PICK b \in 1..MaxDay : b = _daily_game_begin_time /\ b <= day /\ day \in 1..MaxDay /\ MaxDay \in Nat
  BY DailyGameConstants DEF PrizeInv
<1>2. /\ info \in [Accounts -> Heroes] /\ row \in [Accounts -> Heroes]
      /\ hero \in [Accounts -> {"out", "reply", "in"}]
      /\ \A a \in Accounts : Sound(info[a], b) /\ Sound(row[a], b)
      /\ \A a \in Accounts : listed(a) => \A x \in data(hero[a], info[a], row[a]) : x._daily_game_time = b
  BY <1>1 DEF PrizeInv
<1>3. CASE dayRefresh
  <2>1. PICK c \in 1..MaxDay : c = day + 1 /\ b < c
    BY <1>1, <1>3 DEF dayRefresh
  <2>2. /\ day' = c /\ _daily_game_begin_time' = c /\ hero' = hero /\ _heroes_daily_rank' = <<>>
    BY <1>3, <2>1 DEF dayRefresh, DailyGameUpdate
  <2>3. ASSUME NEW a \in Accounts PROVE Sound(info'[a], c) /\ Sound(row'[a], c)
    <3>1. PICK h : h = info[a]
      OBVIOUS
    <3>2. PICK k : k = row[a]
      OBVIOUS
    <3>3. PICK has \in BOOLEAN : has = listed(a)
      BY Zenon DEF listed
    <3>4. PICK gold : gold = rankPrize(a)
      OBVIOUS
    <3>5. /\ info'[a] = IF hero[a] # "in" THEN h ELSE asked(h, gold, has)
          /\ row'[a] = IF hero[a] # "in" /\ has THEN prizeRow(k, gold) ELSE k
          /\ has => gold \in Int
      BY <1>3, <3>1, <3>2, <3>3, <3>4, RefreshIs
    <3>6. Sound(h, b) /\ Sound(k, b) /\ Sound(h, c) /\ Sound(k, c)
      BY <1>2, <2>1, <3>1, <3>2, SoundLater
    <3>7. CASE hero[a] = "in"
      <4>1. has => h._daily_game_time = b
        BY <1>2, <3>1, <3>3, <3>7 DEF data
      <4>2. Sound(asked(h, gold, has), c)
        <5>1. CASE has
          <6>1. PICK m : m = TryToGetGamePrize(DailyGamePrize(h, gold))
            OBVIOUS
          <6>2. asked(h, gold, has) = m
            BY <5>1, <6>1 DEF asked
          <6>3. gold \in Int /\ h._daily_game_time = b /\ Sound(h, b)
            BY <3>5, <3>6, <4>1, <5>1
          <6>4. Sound(m, c)
            BY <1>1, <2>1, <6>1, <6>3, Asked
          <6> QED
            BY <6>2, <6>4
        <5>2. CASE ~has
          <6>1. PICK m : m = TryToGetGamePrize(h)
            OBVIOUS
          <6>2. asked(h, gold, has) = m
            BY <5>2, <6>1 DEF asked
          <6>3. Sound(m, b)
            BY <1>1, <3>6, <6>1, Tried
          <6> QED
            BY <2>1, <6>2, <6>3, SoundLater
        <5> QED
          BY <5>1, <5>2
      <4> QED
        BY <3>5, <3>6, <3>7, <4>2
    <3>8. CASE hero[a] # "in"
      <4>1. has => k._daily_game_time = b
        BY <1>2, <3>2, <3>3, <3>8 DEF data
      <4>2. has => Sound(prizeRow(k, gold), c)
        BY <1>1, <2>1, <3>5, <3>6, <4>1, Prized
      <4> QED
        BY <3>5, <3>6, <3>8, <4>2
    <3> QED
      BY <3>7, <3>8
  <2>4. \A a : ~listed(a)'
    BY <2>2 DEF listed
  <2>5. info' \in [Accounts -> Heroes] /\ row' \in [Accounts -> Heroes]
    BY <1>3, <2>3, RefreshIs DEF Sound
  <2> QED
    BY <1>2, <2>1, <2>2, <2>3, <2>4, <2>5 DEF PrizeInv
<1>4. CASE missRefresh
  <2>1. /\ day' \in 1..MaxDay /\ b <= day'
        /\ UNCHANGED <<_daily_game_begin_time, _heroes_daily_rank, hero, info, row>>
    BY <1>1, <1>4 DEF missRefresh, rankVars, dbVars
  <2> QED
    BY <1>1, <2>1 DEF PrizeInv, listed
<1>5. CASE save \/ saveStatus \/ UNCHANGED vars
  <2>1. UNCHANGED <<day, _daily_game_begin_time, _heroes_daily_rank, hero, info, row>>
    BY <1>5 DEF save, saveStatus, vars, rankVars, dbVars
  <2> QED
    BY <2>1 DEF PrizeInv, listed
<1>6. CASE restart
  <2>1. /\ UNCHANGED <<day, _daily_game_begin_time>>
        /\ hero' = [a \in Accounts |-> "out"] /\ info' = [a \in Accounts |-> NewHero]
        /\ row' = [a \in Accounts |-> IF hero[a] = "in" THEN info[a] ELSE row[a]]
    BY <1>1, <1>6 DEF restart, Load
  <2>2. \A a \in Accounts : Sound(info'[a], b) /\ Sound(row'[a], b)
    BY <1>2, <2>1, SoundNew
  <2>3. \A a \in Accounts : listed(a)' => \A x \in data(hero'[a], info'[a], row'[a]) : x._daily_game_time = b
    <3> SUFFICES ASSUME NEW a \in Accounts, listed(a)'
                 PROVE  row'[a]._daily_game_time = b
      BY <2>1 DEF data
    <3>1. listed(a)
      BY <1>6, RestartListed
    <3>2. row'[a] \in data(hero[a], info[a], row[a])
      BY <2>1 DEF data
    <3> QED
      BY <1>2, <3>1, <3>2
  <2>4. /\ info' \in [Accounts -> Heroes] /\ row' \in [Accounts -> Heroes]
        /\ hero' \in [Accounts -> {"out", "reply", "in"}]
    BY <2>1, <2>2 DEF Sound
  <2> QED
    BY <1>1, <2>1, <2>2, <2>3, <2>4 DEF PrizeInv
<1> QED
  BY <1>3, <1>4, <1>5, <1>6, PrizeHero DEF NormalNext, DayNext

\* It holds of an empty database.
LEMMA PrizeStart == Init => PrizeInv
<1> SUFFICES ASSUME Init PROVE PrizeInv
  OBVIOUS
<1>1. 1 \in 1..MaxDay
  BY DailyGameConstants
<1>2. Sound(NewHero, 1)
  BY <1>1, SoundNew
<1>3. NewHero \in Heroes
  BY <1>2 DEF Sound
<1>4. \A a \in Accounts : ~listed(a)
  BY DEF Init, listed
<1> QED
  BY <1>1, <1>2, <1>3, <1>4 DEF Init, PrizeInv

\* Without a master's commands and crashes, no hero claims the prize of a game twice.
LEMMA PrizesOnce == PrizeInv => OnePrize
<1> SUFFICES ASSUME PrizeInv, NEW a \in Accounts, NEW h \in {info[a], row[a]}, NEW d \in 1..MaxDay
             PROVE  h.claimed[d] <= 1
  BY DEF OnePrize
<1>1. h \in Heroes /\ d \in 0..MaxDay
  BY DailyGameConstants DEF PrizeInv
<1>2. h.claimed[d] \in {0, 1}
  BY <1>1 DEF Heroes
<1> QED
  BY <1>2

\* Without a master's commands and crashes, the prize of a game is in a hero's gold once at
\* most, whether refreshes are missed or not (DailyGamePrize, the statement on the row,
\* TryToGetGamePrize).
THEOREM OnePrizeForAGame == NormalSpec => []OnePrize
<1>1. RankInv /\ PrizeInv /\ [NormalNext]_vars => (RankInv /\ PrizeInv)'
  BY RankStep, PrizeStep, NormalIsNext
<1> QED
  BY <1>1, PrizesOnce, RankStart, PrizeStart, PTL DEF NormalSpec

-----------------------------------------------------------------------------
(* The prize is that of the rank *)

\* A game a reload would pay ended without this account in its ranking.
unpaid(h, a, b, ranks) ==
  h._daily_game_time \notin {b, 0, h._daily_game_prize_time} => ranks[h._daily_game_time][a] = 0

\* The prize that waits is that of the rank, if there was one.
ofRank(h, a, ranks) == h.prize # 0 => ranks[h.of][a] \in {0, h.prize}

PaidInv ==
  /\ _daily_game_begin_time = day
  /\ DOMAIN final = 0..MaxDay
  /\ \A d \in day..MaxDay, a \in Accounts : final[d][a] = 0
  /\ \A a \in Accounts : \A h \in data(hero[a], info[a], row[a]) : unpaid(h, a, day, final)
  /\ \A a \in Accounts : ofRank(info[a], a, final) /\ ofRank(row[a], a, final)

\* A step that is about one hero and leaves the ranks of ended games.
LEMMA OneHeroPaid ==
  ASSUME PrizeInv, PaidInv, NEW a \in Accounts, NEW h, NEW k, NEW w,
         hero' = [hero EXCEPT ![a] = w], info' = [info EXCEPT ![a] = h], row' = [row EXCEPT ![a] = k],
         UNCHANGED <<day, _daily_game_begin_time, final>>,
         \A x \in data(w, h, k) : unpaid(x, a, day, final),
         ofRank(h, a, final), ofRank(k, a, final)
  PROVE  PaidInv'
<1>1. hero'[a] = w /\ info'[a] = h /\ row'[a] = k
  BY DEF PrizeInv
<1>2. ASSUME NEW b \in Accounts, b # a
      PROVE  hero'[b] = hero[b] /\ info'[b] = info[b] /\ row'[b] = row[b]
  BY <1>2 DEF PrizeInv
<1>3. PICK f : f = final
  OBVIOUS
<1>4. PICK d : d = day
  OBVIOUS
<1>5. ASSUME NEW b \in Accounts
      PROVE  /\ \A x \in data(hero'[b], info'[b], row'[b]) : unpaid(x, b, d, f)
             /\ ofRank(info'[b], b, f) /\ ofRank(row'[b], b, f)
  <2>1. CASE b = a
    BY <1>1, <1>3, <1>4, <2>1
  <2>2. CASE b # a
    BY <1>2, <1>3, <1>4, <2>2 DEF PaidInv
  <2> QED
    BY <2>1, <2>2
<1> QED
  BY <1>3, <1>4, <1>5 DEF PaidInv

\* Requests, loading, saving and Destroy keep it.
LEMMA PaidHero ==
  ASSUME RankInv, PrizeInv, PaidInv, NEW a \in Accounts, HeroNext(a), savedFirst
  PROVE  PaidInv'
<1>1. PICK b \in 1..MaxDay : b = day /\ _daily_game_begin_time = b
  BY DEF PrizeInv, PaidInv
<1>2. PICK h : h = info[a]
  OBVIOUS
<1>3. PICK k : k = row[a]
  OBVIOUS
<1>4. PICK f : f = final
  OBVIOUS
<1>5. /\ h \in Heroes /\ Sound(h, b)
      /\ \A x \in data(hero[a], h, k) : unpaid(x, a, b, f)
      /\ ofRank(h, a, f) /\ ofRank(k, a, f)
  BY <1>1, <1>2, <1>3, <1>4 DEF PrizeInv, PaidInv
<1>6. info = [info EXCEPT ![a] = h] /\ row = [row EXCEPT ![a] = k] /\ hero = [hero EXCEPT ![a] = hero[a]]
  BY <1>2, <1>3 DEF PrizeInv
<1>7. ASSUME NEW p \in 1.._max_daily_progress + 1, NEW hp \in BOOLEAN, NEW s \in Scores,
             ReqUpdateDailyGameProgress(a, p, hp, s)
      PROVE  PaidInv'
  <2>1. PICK m \in Heroes : info' = [info EXCEPT ![a] = m] /\ samePrize(m, h) /\ m._daily_game_time = b
    BY <1>1, <1>2, <1>7, Requested
  <2>2. UNCHANGED <<day, _daily_game_begin_time, hero, row, final>> /\ hero[a] = "in"
    BY <1>7, Requested
  <2>3. ofRank(m, a, f) /\ \A x \in data("in", m, k) : unpaid(x, a, b, f)
    BY <1>5, <2>1 DEF data, samePrize, ofRank, unpaid
  <2>4. /\ UNCHANGED <<day, _daily_game_begin_time, final>>
        /\ hero' = [hero EXCEPT ![a] = "in"] /\ row' = [row EXCEPT ![a] = k]
    BY <1>6, <2>2
  <2> QED
    BY <1>1, <1>4, <1>5, <2>1, <2>3, <2>4, OneHeroPaid
<1>8. CASE ReqResetDailyGameProgress(a)
  <2>1. PICK m \in Heroes : /\ info' = [info EXCEPT ![a] = m] /\ samePrize(m, h)
                            /\ m._daily_game_time = h._daily_game_time
    BY <1>2, <1>8, ResetTo
  <2>2. UNCHANGED <<day, _daily_game_begin_time, hero, row, final>> /\ hero[a] = "in"
    BY <1>8, ResetTo
  <2>3. ofRank(m, a, f) /\ \A x \in data("in", m, k) : unpaid(x, a, b, f)
    BY <1>5, <2>1, <2>2 DEF data, samePrize, ofRank, unpaid
  <2> QED
    BY <1>1, <1>4, <1>5, <1>6, <2>1, <2>2, <2>3, OneHeroPaid
<1>9. CASE ReqReceiveDailyGamePrize(a)
  <2>1. PICK m \in Heroes : /\ info' = [info EXCEPT ![a] = m] /\ m.prize = 0
                            /\ m._daily_game_time = h._daily_game_time
                            /\ m._daily_game_prize_time = h._daily_game_prize_time
    BY <1>2, <1>9, Received
  <2>2. UNCHANGED <<day, _daily_game_begin_time, hero, row, final>> /\ hero[a] = "in"
    BY <1>9, Received
  <2>3. ofRank(m, a, f) /\ \A x \in data("in", m, k) : unpaid(x, a, b, f)
    BY <1>5, <2>1, <2>2 DEF data, ofRank, unpaid
  <2> QED
    BY <1>1, <1>4, <1>5, <1>6, <2>1, <2>2, <2>3, OneHeroPaid
<1>10. CASE login(a)
  <2>1. /\ hero[a] = "out" /\ hero' = [hero EXCEPT ![a] = "reply"] /\ info' = [info EXCEPT ![a] = k]
        /\ UNCHANGED <<day, _daily_game_begin_time, row, final>>
    BY <1>3, <1>10 DEF login, rankVars, dbVars
  <2>2. \A x \in data("reply", k, k) : unpaid(x, a, b, f)
    BY <1>5, <2>1 DEF data
  <2> QED
    BY <1>1, <1>4, <1>5, <1>6, <2>1, <2>2, OneHeroPaid
<1>11. CASE CreateHero(a)
  <2>1. PICK m : m = set_info(h)
    OBVIOUS
  <2>2. /\ hero[a] = "reply" /\ hero' = [hero EXCEPT ![a] = "in"] /\ info' = [info EXCEPT ![a] = m]
        /\ UNCHANGED <<day, _daily_game_begin_time, row, final>>
    BY <1>2, <1>11, <2>1 DEF CreateHero, rankVars, dbVars
  <2>3. /\ m._daily_game_time = h._daily_game_time
        /\ \/ m._daily_game_prize_time = h._daily_game_prize_time /\ m.prize = h.prize /\ m.of = h.of
           \/ /\ h._daily_game_time \notin {b, 0, h._daily_game_prize_time}
              /\ m.of = h._daily_game_time
              /\ m._daily_game_prize_time = h._daily_game_time
    BY <1>1, <1>5, <2>1, SetInfo
  <2>4. unpaid(h, a, b, f)
    BY <1>5, <2>2 DEF data
  <2>5. ofRank(m, a, f) /\ \A x \in data("in", m, k) : unpaid(x, a, b, f)
    BY <1>5, <2>3, <2>4 DEF data, ofRank, unpaid
  <2> QED
    BY <1>1, <1>4, <1>5, <1>6, <2>2, <2>5, OneHeroPaid
<1>12. CASE SaveHero(a)
  <2>1. /\ hero[a] = "in" /\ row' = [row EXCEPT ![a] = h]
        /\ UNCHANGED <<day, _daily_game_begin_time, hero, info, final>>
    BY <1>2, <1>12 DEF SaveHero, rankVars
  <2>2. \A x \in data("in", h, h) : unpaid(x, a, b, f)
    BY <1>5, <2>1 DEF data
  <2> QED
    BY <1>1, <1>4, <1>5, <1>6, <2>1, <2>2, OneHeroPaid
<1>13. CASE Destroy(a)
  <2>1. /\ hero[a] = "in" /\ hero' = [hero EXCEPT ![a] = "out"] /\ info' = [info EXCEPT ![a] = NewHero]
        /\ UNCHANGED <<day, _daily_game_begin_time, row, final>>
    BY <1>13 DEF Destroy, rankVars, dbVars
  <2>2. k = h
    <3>1. hero'[a] = "out"
      BY <2>1 DEF PrizeInv
    <3> QED
      BY <1>2, <1>3, <2>1, <3>1 DEF savedFirst
  <2>3. ofRank(NewHero, a, f)
    BY DEF ofRank, NewHero
  <2>4. \A x \in data("out", NewHero, k) : unpaid(x, a, b, f)
    BY <1>5, <2>1, <2>2 DEF data
  <2> QED
    BY <1>1, <1>4, <1>5, <1>6, <2>1, <2>3, <2>4, OneHeroPaid
<1> QED
  BY <1>7, <1>8, <1>9, <1>10, <1>11, <1>12, <1>13 DEF HeroNext

\* The refresh ends the game with these ranks.
LEMMA FinalIs ==
  ASSUME RankInv, DOMAIN final = 0..MaxDay, NEW b \in 1..MaxDay, _daily_game_begin_time = b, dayRefresh
  PROVE  /\ DOMAIN final' = 0..MaxDay
         /\ \A d \in 0..MaxDay : d # b => final'[d] = final[d]
         /\ \A a \in Accounts : ~listed(a) => final'[b][a] = 0
         /\ \A a \in Accounts : listed(a) => final'[b][a] \in {0, rankPrize(a)} \/ rankPrize(a) = 0
<1>1. PICK l : l = _heroes_daily_rank
  OBVIOUS
<1>2. l \in Seq(Entries) /\ once(l)
  BY <1>1 DEF RankInv
<1>3. PICK r : r = ranksOf(l)
  OBVIOUS
<1>4. final' = [final EXCEPT ![b] = r]
  BY <1>1, <1>3 DEF dayRefresh, DailyGameUpdate
<1>5. b \in 0..MaxDay
  BY DailyGameConstants
<1>6. /\ DOMAIN final' = 0..MaxDay /\ final'[b] = r
      /\ \A d \in 0..MaxDay : d # b => final'[d] = final[d]
  BY <1>4, <1>5
<1>7. ASSUME NEW a \in Accounts, ~listed(a) PROVE r[a] = 0
  BY <1>1, <1>2, <1>3, <1>7, RanksOf DEF listed
<1>8. ASSUME NEW a \in Accounts, listed(a) PROVE r[a] = rankPrize(a) \/ rankPrize(a) = 0
  <2>1. PICK i : i = entryOf(l, a)
    OBVIOUS
  <2>2. i \in DOMAIN l /\ l[i].acc = a
    BY <1>1, <1>2, <1>8, <2>1, EntryOf DEF listed
  <2>3. r[a] = l[i].rank
    BY <1>2, <1>3, <2>2, RanksOf
  <2> QED
    BY <1>1, <2>1, <2>3 DEF rankPrize, GetDailyGamePrize
<1> QED
  BY <1>6, <1>7, <1>8

\* So does the refresh, if no hero is being loaded.
LEMMA PaidRefresh ==
  ASSUME RankInv, PrizeInv, PaidInv, dayRefresh, \A a \in Accounts : hero[a] # "reply"
  PROVE  PaidInv'
<1>1. PICK b \in 1..MaxDay : b = day /\ _daily_game_begin_time = b
  BY DEF PrizeInv, PaidInv
<1>2. PICK c \in 1..MaxDay : c = b + 1 /\ b < c
  BY <1>1, DailyGameConstants DEF dayRefresh
<1>3. day' = c /\ _daily_game_begin_time' = c /\ hero' = hero /\ MaxDay \in Nat
  BY <1>1, <1>2, DailyGameConstants DEF dayRefresh
<1>4. PICK f : f = final
  OBVIOUS
<1>5. PICK g : g = final'
  OBVIOUS
<1>6. /\ DOMAIN g = 0..MaxDay
      /\ \A d \in 0..MaxDay : d # b => g[d] = f[d]
      /\ \A a \in Accounts : ~listed(a) => g[b][a] = 0
      /\ \A a \in Accounts : listed(a) => g[b][a] \in {0, rankPrize(a)} \/ rankPrize(a) = 0
  BY <1>1, <1>4, <1>5, FinalIs DEF PaidInv
<1>7. \A d \in c..MaxDay, a \in Accounts : g[d][a] = 0
  <2>1. \A d \in b..MaxDay, a \in Accounts : f[d][a] = 0
    BY <1>1, <1>4 DEF PaidInv
  <2>2. \A d \in c..MaxDay : d \in b..MaxDay /\ d \in 0..MaxDay /\ d # b
    BY <1>2, <1>3
  <2> QED
    BY <1>6, <2>1, <2>2
\* Games before b ended before.
<1>8. ASSUME NEW a \in Accounts, NEW h, Sound(h, b), ofRank(h, a, f) PROVE ofRank(h, a, g)
  <2> SUFFICES ASSUME h.prize # 0 PROVE g[h.of][a] \in {0, h.prize}
    BY DEF ofRank
  <2>1. PICK d \in 1..(b - 1) : d = h.of
    BY <1>8 DEF Sound
  <2>2. d \in 0..MaxDay /\ d # b
    BY <1>3, <2>1
  <2> QED
    BY <1>6, <1>8, <2>1, <2>2 DEF ofRank
<1>9. ASSUME NEW a \in Accounts, NEW h, Sound(h, b), ~listed(a), unpaid(h, a, b, f) PROVE unpaid(h, a, c, g)
  <2> SUFFICES ASSUME h._daily_game_time \notin {c, 0, h._daily_game_prize_time}
               PROVE  g[h._daily_game_time][a] = 0
    BY DEF unpaid
  <2>1. PICK d \in 0..b : d = h._daily_game_time
    BY <1>9 DEF Sound, Heroes
  <2>2. CASE d = b
    BY <1>6, <1>9, <2>1, <2>2
  <2>3. CASE d # b
    <3>1. f[d][a] = 0
      BY <1>9, <2>1, <2>3 DEF unpaid
    <3>2. d \in 0..MaxDay
      BY <1>3
    <3> QED
      BY <1>6, <2>1, <2>3, <3>1, <3>2
  <2> QED
    BY <2>2, <2>3
\* A hero that is marked with the game that ends.
<1>10. ASSUME NEW a \in Accounts, NEW h, listed(a), h._daily_game_time = h._daily_game_prize_time,
              h.of = b, h.prize = rankPrize(a)
       PROVE  unpaid(h, a, c, g) /\ ofRank(h, a, g)
  BY <1>6, <1>10 DEF unpaid, ofRank
<1>11. ASSUME NEW a \in Accounts
       PROVE  /\ \A x \in data(hero'[a], info'[a], row'[a]) : unpaid(x, a, c, g)
              /\ ofRank(info'[a], a, g) /\ ofRank(row'[a], a, g)
  <2>1. PICK h : h = info[a]
    OBVIOUS
  <2>2. PICK k : k = row[a]
    OBVIOUS
  <2>3. PICK gold : gold = rankPrize(a)
    OBVIOUS
  <2>4. /\ info'[a] = IF hero[a] # "in" THEN h ELSE asked(h, gold, listed(a))
        /\ row'[a] = IF hero[a] # "in" /\ listed(a) THEN prizeRow(k, gold) ELSE k
        /\ listed(a) => gold \in Int
    BY <2>1, <2>2, <2>3, RefreshIs
  <2>5. /\ Sound(h, b) /\ Sound(k, b) /\ ofRank(h, a, f) /\ ofRank(k, a, f)
        /\ \A x \in data(hero[a], h, k) : unpaid(x, a, b, f)
        /\ listed(a) => \A x \in data(hero[a], h, k) : x._daily_game_time = b
        /\ hero[a] \in {"out", "in"}
    BY <1>1, <1>4, <2>1, <2>2 DEF PrizeInv, PaidInv
  <2>6. ofRank(h, a, g) /\ ofRank(k, a, g)
    BY <1>8, <2>5
  <2>7. CASE hero[a] = "in" /\ listed(a)
    <3>1. PICK m : m = TryToGetGamePrize(DailyGamePrize(h, gold))
      OBVIOUS
    <3>2. h._daily_game_time = b
      BY <2>5, <2>7 DEF data
    <3>3. m._daily_game_time = m._daily_game_prize_time /\ m.of = b /\ m.prize = gold
      BY <1>1, <1>2, <2>4, <2>5, <2>7, <3>1, <3>2, Asked
    <3>4. info'[a] = m /\ row'[a] = k
      BY <2>4, <2>7, <3>1 DEF asked
    <3>5. unpaid(m, a, c, g) /\ ofRank(m, a, g)
      BY <1>10, <2>3, <2>7, <3>3
    <3> QED
      BY <1>3, <2>6, <2>7, <3>4, <3>5 DEF data
  <2>8. CASE hero[a] = "in" /\ ~listed(a)
    <3>1. PICK m : m = TryToGetGamePrize(h)
      OBVIOUS
    <3>2. unpaid(h, a, b, f)
      BY <2>5, <2>8 DEF data
    <3>3. /\ m._daily_game_time = h._daily_game_time
          /\ \/ m = h
             \/ /\ h._daily_game_time \notin {b, 0, h._daily_game_prize_time}
                /\ m.of = h._daily_game_time
                /\ m._daily_game_prize_time = h._daily_game_time
      BY <1>1, <2>5, <3>1, Tried
    <3>4. info'[a] = m /\ row'[a] = k
      BY <2>4, <2>8, <3>1 DEF asked
    <3>5. unpaid(m, a, c, g) /\ ofRank(m, a, g)
      <4>1. CASE m = h
        BY <1>9, <2>5, <2>6, <2>8, <3>2, <4>1
      <4>2. CASE /\ h._daily_game_time \notin {b, 0, h._daily_game_prize_time}
                 /\ m.of = h._daily_game_time
                 /\ m._daily_game_prize_time = h._daily_game_time
        <5>1. PICK d \in 0..b : d = h._daily_game_time
          BY <2>5 DEF Sound, Heroes
        <5>2. f[d][a] = 0 /\ d # b /\ d \in 0..MaxDay
          BY <1>3, <3>2, <4>2, <5>1 DEF unpaid
        <5>3. g[d][a] = 0
          BY <1>6, <5>2
        <5> QED
          BY <3>3, <4>2, <5>1, <5>3 DEF unpaid, ofRank
      <4> QED
        BY <3>3, <4>1, <4>2
    <3> QED
      BY <1>3, <2>6, <2>8, <3>4, <3>5 DEF data
  <2>9. CASE hero[a] = "out" /\ listed(a)
    <3>1. PICK m : m = prizeRow(k, gold)
      OBVIOUS
    <3>2. k._daily_game_time = b
      BY <2>5, <2>9 DEF data
    <3>3. m._daily_game_time = m._daily_game_prize_time /\ m.of = b /\ m.prize = gold
      BY <1>1, <1>2, <2>4, <2>5, <2>9, <3>1, <3>2, Prized
    <3>4. info'[a] = h /\ row'[a] = m
      BY <2>4, <2>9, <3>1
    <3>5. unpaid(m, a, c, g) /\ ofRank(m, a, g)
      BY <1>10, <2>3, <2>9, <3>3
    <3> QED
      BY <1>3, <2>6, <2>9, <3>4, <3>5 DEF data
  <2>10. CASE hero[a] = "out" /\ ~listed(a)
    <3>1. info'[a] = h /\ row'[a] = k
      BY <2>4, <2>10
    <3>2. unpaid(k, a, c, g)
      BY <1>9, <2>5, <2>10 DEF data
    <3> QED
      BY <1>3, <2>6, <2>10, <3>1, <3>2 DEF data
  <2> QED
    BY <2>5, <2>7, <2>8, <2>9, <2>10
<1> QED
  BY <1>3, <1>5, <1>6, <1>7, <1>11 DEF PaidInv

\* So does every step of a quiet environment.
LEMMA PaidStep ==
  ASSUME RankInv, PrizeInv, PaidInv, [NormalNext /\ quiet]_vars
  PROVE  PaidInv'
<1>1. CASE dayRefresh /\ quiet
  <2>1. day' # day
    BY <1>1 DEF dayRefresh, PrizeInv
  <2> QED
    BY <1>1, <2>1, PaidRefresh DEF quiet
<1>2. CASE missRefresh /\ quiet
  <2>1. day' = day + 1 /\ _daily_game_begin_time' = day /\ day \in Nat
    BY <1>2 DEF missRefresh, rankVars, PaidInv, RankInv
  <2> QED
    BY <1>2, <2>1 DEF quiet
<1>3. CASE save \/ saveStatus \/ UNCHANGED vars
  <2>1. UNCHANGED <<day, _daily_game_begin_time, hero, info, row, final>>
    BY <1>3 DEF save, saveStatus, vars, rankVars, dbVars
  <2> QED
    BY <2>1 DEF PaidInv
<1>4. CASE restart
  <2>1. /\ UNCHANGED <<day, _daily_game_begin_time, final>>
        /\ hero' = [a \in Accounts |-> "out"] /\ info' = [a \in Accounts |-> NewHero]
        /\ row' = [a \in Accounts |-> IF hero[a] = "in" THEN info[a] ELSE row[a]]
    BY <1>4 DEF restart, Load, PrizeInv
  <2>2. PICK f : f = final
    OBVIOUS
  <2>3. PICK d : d = day
    OBVIOUS
  <2>4. ASSUME NEW a \in Accounts
        PROVE  /\ \A x \in data(hero'[a], info'[a], row'[a]) : unpaid(x, a, d, f)
               /\ ofRank(info'[a], a, f) /\ ofRank(row'[a], a, f)
    <3>1. /\ \A x \in data(hero[a], info[a], row[a]) : unpaid(x, a, d, f)
          /\ ofRank(info[a], a, f) /\ ofRank(row[a], a, f)
      BY <2>2, <2>3 DEF PaidInv
    <3>2. row'[a] \in data(hero[a], info[a], row[a]) /\ row'[a] \in {info[a], row[a]}
      BY <2>1 DEF data
    <3>3. hero'[a] = "out" /\ info'[a] = NewHero
      BY <2>1
    <3>4. ofRank(NewHero, a, f)
      BY DEF ofRank, NewHero
    <3> QED
      BY <3>1, <3>2, <3>3, <3>4 DEF data
  <2> QED
    BY <2>1, <2>2, <2>3, <2>4 DEF PaidInv
<1> QED
  BY <1>1, <1>2, <1>3, <1>4, PaidHero DEF NormalNext, DayNext

\* It holds of an empty database.
LEMMA PaidStart == Init => PaidInv
<1> SUFFICES ASSUME Init PROVE PaidInv
  OBVIOUS
<1>1. \A a : unpaid(NewHero, a, day, final) /\ ofRank(NewHero, a, final)
  BY DEF unpaid, ofRank, NewHero
<1>2. \A d \in day..MaxDay : d \in 0..MaxDay
  BY DailyGameConstants DEF Init
<1> QED
  BY <1>1, <1>2 DEF Init, PaidInv, data

\* The prize that waits is the one of the rank.
LEMMA PaidByRank == PaidInv => PrizeOfRank
BY DEF PaidInv, PrizeOfRank, ofRank

\* And where, besides, no refresh is missed and none meets a hero that is being loaded, the
\* prize that waits is that of the rank the hero had (DailyGameUpdate, TryToGetGamePrize).
THEOREM PrizeFitsTheRank == QuietSpec => []PrizeOfRank
<1>1. RankInv /\ PrizeInv /\ PaidInv /\ [NormalNext /\ quiet]_vars => (RankInv /\ PrizeInv /\ PaidInv)'
  BY RankStep, PrizeStep, PaidStep, NormalIsNext
<1> QED
  BY <1>1, PaidByRank, RankStart, PrizeStart, PaidStart, PTL DEF QuietSpec

-----------------------------------------------------------------------------
(* The parts of MCCalendar *)

\* A step of a part is one of the daily game in the environment of that part, or leaves it.
LEMMA StepOfPart ==
  ASSUME [MCNext]_<<vars, part, promotionVars>>
  PROVE  /\ part' = part /\ [Next]_vars
         /\ part \in {"scores", "refresh"} => [NormalNext /\ quiet]_vars
         /\ part \in {"scores", "refresh", "prizes"} => [NormalNext]_vars
<1>1. CASE UNCHANGED part /\ DailyNext
  BY <1>1, NormalIsNext DEF DailyNext
<1>2. CASE UNCHANGED <<part, vars>>
  BY <1>2
<1> QED
  BY <1>1, <1>2 DEF MCNext

\* Every part begins with an empty database.
LEMMA StartOfPart == MCInit => Init
BY DEF MCInit, DailyInit

RanksInv == RankInv /\ (part \in {"scores", "refresh"} => AgreeInv)

\* RanksAgree, in the daily game's parts and beside the promotions
THEOREM RanksAgreeInParts == MCSpec => []RanksAgree
<1>1. MCInit => RanksInv
  BY StartOfPart, RankStart, AgreeStart DEF RanksInv
<1>2. RanksInv /\ [MCNext]_<<vars, part, promotionVars>> => RanksInv'
  <2> SUFFICES ASSUME RanksInv, [MCNext]_<<vars, part, promotionVars>> PROVE RanksInv'
    OBVIOUS
  <2>1. RankInv'
    BY RankStep, StepOfPart DEF RanksInv
  <2>2. part \in {"scores", "refresh"} => AgreeInv'
    BY AgreeStep, StepOfPart DEF RanksInv
  <2> QED
    BY <2>1, <2>2, StepOfPart DEF RanksInv
<1>3. RanksInv => RanksAgree
  BY DEF RanksInv, RanksAgree, RankInv, ListedOnce, once, AgreeInv
<1> QED
  BY <1>1, <1>2, <1>3, PTL DEF MCSpec

PrizesInv ==
  /\ RankInv
  /\ part \in {"scores", "refresh", "prizes"} => PrizeInv
  /\ part \in {"scores", "refresh"} => PaidInv

\* PrizeOnce, in the daily game's parts and beside the promotions
THEOREM PrizeOnceInParts == MCSpec => []PrizeOnce
<1>1. MCInit => PrizesInv
  BY StartOfPart, RankStart, PrizeStart, PaidStart DEF PrizesInv
<1>2. PrizesInv /\ [MCNext]_<<vars, part, promotionVars>> => PrizesInv'
  <2> SUFFICES ASSUME PrizesInv, [MCNext]_<<vars, part, promotionVars>> PROVE PrizesInv'
    OBVIOUS
  <2>1. RankInv'
    BY RankStep, StepOfPart DEF PrizesInv
  <2>2. part \in {"scores", "refresh", "prizes"} => PrizeInv'
    BY PrizeStep, StepOfPart DEF PrizesInv
  <2>3. part \in {"scores", "refresh"} => PaidInv'
    BY PaidStep, StepOfPart DEF PrizesInv
  <2> QED
    BY <2>1, <2>2, <2>3, StepOfPart DEF PrizesInv
<1>3. PrizesInv => PrizeOnce
  BY PrizesOnce, PaidByRank DEF PrizesInv, PrizeOnce
<1> QED
  BY <1>1, <1>2, <1>3, PTL DEF MCSpec

-----------------------------------------------------------------------------
(* The sales promotions *)

\* The times of the table fit in the u32 of a timer.
TimesFit ==
  \A c \in Configs : \A p \in Promos : {c[p].show, c[p].begin, c[p].end} \subseteq 0..(TimerRange - 1)

-----------------------------------------------------------------------------
(* Days *)

\* A tick that is no midnight is on the same day, and days never go back.
LEMMA Days ==
  ASSUME NEW n \in Nat, NEW d \in Nat \ {0}
  PROVE  /\ n \div d \in Nat
         /\ n \div d <= (n + 1) \div d
         /\ (n + 1) % d # 0 => (n + 1) \div d = n \div d
  OBVIOUS

\* A time that fits in a timer is kept by it.
LEMMA Fits ==
  ASSUME NEW time \in 0..(TimerRange - 1), NEW n \in Nat, time > n, TimerRange \in Nat \ {0}
  PROVE  n + ((time - n) % TimerRange) = time
<1>1. PICK x : x = time - n
  OBVIOUS
<1>2. x \in Nat /\ x < TimerRange /\ n + x = time
  BY <1>1
<1>3. x % TimerRange = x
  BY <1>2
<1> QED
  BY <1>1, <1>2, <1>3

\* The day of a promotion at the time n, and the days of its period; within is withinAt now.
dayAt(p, n) == IF config[p].time = "week" THEN (n \div DayLength) % WeekLength ELSE n \div DayLength

withinAt(p, from, n) ==
  IF config[p].time = "week" /\ from > config[p].end
  THEN dayAt(p, n) <= from \/ dayAt(p, n) >= config[p].end
  ELSE from <= dayAt(p, n) /\ dayAt(p, n) <= config[p].end

-----------------------------------------------------------------------------
(* The invariant *)

States == {"Wait", "Apply", "Excute", "Destroy"}

PromoTyped ==
  /\ config \in Configs
  /\ _type \in [Promos -> States]
  /\ timer = [p \in Promos |-> timer[p]]
  /\ now \in Nat
  /\ midnight \in BOOLEAN /\ up \in BOOLEAN
  /\ midnight => up /\ now > 0

\* One with fixed times has the timer of its next change, and changed at the last one.
Timed(p, type, ts) ==
  \/ type = "Wait" /\ ts = {[call |-> "apply", at |-> config[p].show]}
  \/ type = "Apply" /\ ts = {[call |-> "excute", at |-> config[p].begin]}
  \/ type = "Excute" /\ ts = {[call |-> "exit", at |-> config[p].end]} /\ config[p].begin <= now
  \/ type = "Destroy" /\ ts = {} /\ config[p].end <= now

\* One with days is where the day of time n puts it.
Placed(p, type, n) ==
  /\ type = "Wait" => ~withinAt(p, config[p].show, n)
  /\ type = "Apply" => ~withinAt(p, config[p].begin, n)
  /\ type = "Excute" => withinAt(p, config[p].begin, n)
  /\ type = "Destroy" /\ config[p].time = "offset" => dayAt(p, n) > config[p].end

\* The time of the last DayPass that was due, or of this moment.
passed == IF midnight THEN now - 1 ELSE now

PromoKept ==
  \A p \in Promos :
    /\ up /\ p \in created /\ normal(p) => Timed(p, _type[p], timer[p])
    /\ up /\ p \in created /\ ~normal(p) => Placed(p, _type[p], passed)
    /\ ~(up /\ p \in created /\ normal(p)) => timer[p] = {}
    /\ up /\ p \in created => p \in _shopSalesPromotions \/ _type[p] = "Destroy"

PromoInv == PromoTyped /\ PromoKept

\* The entries of a table
LEMMA Entry ==
  ASSUME config \in Configs, NEW p \in Promos
  PROVE  /\ config[p].show \in Nat /\ config[p].begin \in Nat /\ config[p].end \in Nat
         /\ config[p].time \in {"normal", "week", "offset"}
         /\ TimesFit => /\ config[p].show \in 0..(TimerRange - 1)
                        /\ config[p].begin \in 0..(TimerRange - 1)
                        /\ config[p].end \in 0..(TimerRange - 1)
         /\ TimerRange \in Nat \ {0} /\ DayLength \in Nat \ {0} /\ WeekLength \in Nat \ {0}
  BY PromotionConstants DEF TimesFit

\* A day is a number.
LEMMA DayNumber ==
  ASSUME config \in Configs, NEW p \in Promos, NEW n \in Nat
  PROVE  /\ dayAt(p, n) \in Nat
         /\ config[p].time = "offset" => dayAt(p, n) <= dayAt(p, n + 1)
         /\ (n + 1) % DayLength # 0 => dayAt(p, n + 1) = dayAt(p, n)
<1>1. n \div DayLength \in Nat /\ n \div DayLength <= (n + 1) \div DayLength
      /\ ((n + 1) % DayLength # 0 => (n + 1) \div DayLength = n \div DayLength)
  BY Entry, Days
<1>2. (n \div DayLength) % WeekLength \in Nat
  BY <1>1, Entry
<1> QED
  BY <1>1, <1>2 DEF dayAt

-----------------------------------------------------------------------------
(* The changes of a promotion *)

\* A promotion between two of its calls
Halfway == [type : States, timer : SUBSET [call : STRING, at : Int], count : Int, last : SUBSET BOOLEAN]

\* h is at the state, with its timers.
IsAt(h, type, ts) == h \in Halfway /\ h.type = type /\ h.timer = ts

\* Adding, subtracting and exit
LEMMA EffectIs ==
  ASSUME NEW h \in Halfway, NEW b \in BOOLEAN
  PROVE  IsAt(effect(h, b), "Excute", h.timer) /\ IsAt(exit(h), "Destroy", h.timer)
<1>1. ASSUME NEW c \in BOOLEAN PROVE IsAt(effect(h, c), "Excute", h.timer)
  <2>1. PICK n \in Int, last \in SUBSET BOOLEAN :
          effect(h, c) = [h EXCEPT !.type = "Excute", !.count = n, !.last = last]
    <3>1. (IF c THEN h.count + 1 ELSE h.count - 1) \in Int
      BY DEF Halfway
    <3>2. {c} \in SUBSET BOOLEAN
      BY Zenon
    <3> QED
      BY <3>1, <3>2, Zenon DEF effect
  <2> QED
    BY <2>1 DEF IsAt, Halfway, States
<1>2. PICK e : e = effect(h, FALSE)
  OBVIOUS
<1>3. IsAt([e EXCEPT !.type = "Destroy"], "Destroy", h.timer)
  <2>1. IsAt(e, "Excute", h.timer)
    BY <1>1, <1>2
  <2> QED
    BY <2>1 DEF IsAt, Halfway, States
<1> QED
  BY <1>1, <1>2, <1>3 DEF exit

\* A promotion at the beginning of a step
LEMMA BetweenIs ==
  ASSUME NEW type \in States
  PROVE  IsAt(between(type, {}), type, {})
  BY DEF between, IsAt, Halfway

\* The state that the parts of DayPass lead to
ended(p, type) == IF type = "Excute" /\ ~within(p, config[p].begin) THEN "Destroy" ELSE type
begun(p, type) == IF type = "Apply" /\ within(p, config[p].begin) THEN "Excute" ELSE type
shown(p, type) == IF type = "Wait" /\ within(p, config[p].show) THEN "Apply" ELSE type
placed(p, type) == ended(p, begun(p, shown(p, type)))

\* The calls that apply, excute and DayPass make of each other lead through the states once.
LEMMA EndIs ==
  ASSUME NEW p, NEW h \in Halfway
  PROVE  IsAt(passEnd(p, h), ended(p, h.type), h.timer)
<1>1. IsAt(exit(h), "Destroy", h.timer)
  BY EffectIs
<1> QED
  BY <1>1 DEF passEnd, ended, IsAt

LEMMA BeginIs ==
  ASSUME NEW p, ~normal(p), NEW h \in Halfway
  PROVE  IsAt(passBegin(p, h), begun(p, h.type), h.timer)
<1>1. CASE h.type = "Apply" /\ within(p, config[p].begin)
  <2>1. PICK e : e = effect(h, TRUE)
    OBVIOUS
  <2>2. IsAt(e, "Excute", h.timer)
    BY <2>1, EffectIs
  <2>3. IsAt(passEnd(p, e), ended(p, "Excute"), h.timer)
    BY <2>2, EndIs DEF IsAt
  <2>4. ended(p, "Excute") = "Excute" /\ begun(p, h.type) = "Excute"
    BY <1>1 DEF ended, begun
  <2>5. passBegin(p, h) = passEnd(p, e)
    BY <1>1, <2>1 DEF passBegin, excute
  <2> QED
    BY <2>3, <2>4, <2>5
<1>2. CASE ~(h.type = "Apply" /\ within(p, config[p].begin))
  BY <1>2 DEF passBegin, begun, IsAt
<1> QED
  BY <1>1, <1>2

LEMMA ShowIs ==
  ASSUME NEW p, ~normal(p), NEW h \in Halfway
  PROVE  \/ IsAt(passShow(p, h), ended(p, begun(p, shown(p, h.type))), h.timer)
         \/ (IsAt(passShow(p, h), h.type, h.timer) /\ shown(p, h.type) = h.type)
<1>1. CASE h.type = "Wait" /\ within(p, config[p].show)
  <2>1. PICK e : e = [h EXCEPT !.type = "Apply"]
    OBVIOUS
  <2>2. IsAt(e, "Apply", h.timer)
    BY <2>1 DEF IsAt, Halfway, States
  <2>3. PICK f : f = passBegin(p, e)
    OBVIOUS
  <2>4. IsAt(f, begun(p, "Apply"), h.timer)
    BY <2>2, <2>3, BeginIs DEF IsAt
  <2>5. IsAt(passEnd(p, f), ended(p, begun(p, "Apply")), h.timer)
    BY <2>4, EndIs DEF IsAt
  <2>6. passShow(p, h) = passEnd(p, f)
    BY <1>1, <2>1, <2>3 DEF passShow, apply
  <2>7. shown(p, h.type) = "Apply"
    BY <1>1 DEF shown
  <2> QED
    BY <2>5, <2>6, <2>7
<1>2. CASE ~(h.type = "Wait" /\ within(p, config[p].show))
  BY <1>2 DEF passShow, shown, IsAt
<1> QED
  BY <1>1, <1>2

LEMMA PassIs ==
  ASSUME NEW p, ~normal(p), NEW h \in Halfway
  PROVE  IsAt(pass(p, h), placed(p, h.type), h.timer)
<1>1. PICK e : e = passShow(p, h)
  OBVIOUS
<1>2. PICK f : f = passBegin(p, e)
  OBVIOUS
<1>3. e \in Halfway /\ e.timer = h.timer
      /\ (e.type = ended(p, begun(p, shown(p, h.type))) \/ (e.type = h.type /\ shown(p, h.type) = h.type))
  BY <1>1, ShowIs DEF IsAt
<1>4. IsAt(f, begun(p, e.type), h.timer)
  BY <1>2, <1>3, BeginIs
<1>5. IsAt(passEnd(p, f), ended(p, begun(p, e.type)), h.timer)
  BY <1>4, EndIs DEF IsAt
<1>6. ended(p, begun(p, e.type)) = placed(p, h.type)
  BY <1>3 DEF placed, ended, begun, shown
<1> QED
  BY <1>1, <1>2, <1>5, <1>6 DEF pass

\* DayPass puts a promotion where the day puts it, from where an earlier day had put it.
LEMMA PassPlaces ==
  ASSUME PromoTyped, NEW p \in Promos, ~normal(p), NEW type \in States,
         type = "Excute" /\ config[p].time = "offset" => config[p].begin <= dayAt(p, now),
         type = "Destroy" /\ config[p].time = "offset" => dayAt(p, now) > config[p].end
  PROVE  placed(p, type) \in States /\ Placed(p, placed(p, type), now)
<1>1. PICK b, e, d, s : /\ b = withinAt(p, config[p].begin, now) /\ s = withinAt(p, config[p].show, now)
                        /\ e = config[p].end /\ d = dayAt(p, now)
  OBVIOUS
<1>2. (within(p, config[p].begin) <=> withinAt(p, config[p].begin, now))
      /\ (within(p, config[p].show) <=> withinAt(p, config[p].show, now))
  BY DEF within, withinAt, dayOf, dayAt
<1>3. e \in Nat /\ d \in Nat /\ config[p].begin \in Nat
  BY <1>1, Entry, DayNumber DEF PromoTyped
<1>4. config[p].time = "offset" /\ config[p].begin <= d /\ ~withinAt(p, config[p].begin, now) => d > e
  BY <1>1, <1>3 DEF withinAt
<1> QED
  BY <1>1, <1>2, <1>4 DEF placed, ended, begun, shown, Placed, States

\* The states that init, apply, excute and exit lead to, with their timers.
LEMMA TimedChange ==
  ASSUME TimesFit, PromoTyped, NEW p \in Promos, normal(p), NEW h \in Halfway, h.timer = {}
  PROVE  /\ h = between("Wait", {}) => inited(p).type \in States /\ Timed(p, inited(p).type, inited(p).timer)
         /\ apply(p, h).type \in States /\ Timed(p, apply(p, h).type, apply(p, h).timer)
         /\ config[p].begin <= now =>
              excute(p, h).type \in States /\ Timed(p, excute(p, h).type, excute(p, h).timer)
         /\ config[p].end <= now =>
              exit(h).type \in States /\ Timed(p, exit(h).type, exit(h).timer)
<1>1. /\ config[p].show \in 0..(TimerRange - 1) /\ config[p].begin \in 0..(TimerRange - 1)
      /\ config[p].end \in 0..(TimerRange - 1) /\ TimerRange \in Nat \ {0} /\ now \in Nat
  BY Entry DEF PromoTyped
<1>2. ASSUME NEW time \in 0..(TimerRange - 1), time > now, NEW c
      PROVE  after(c, time) = {[call |-> c, at |-> time]}
  BY <1>1, <1>2, Fits DEF after
<1>3. ASSUME NEW g \in Halfway, g.timer = {}, config[p].end <= now
      PROVE  exit(g).type = "Destroy" /\ Timed(p, exit(g).type, exit(g).timer)
  <2>1. IsAt(exit(g), "Destroy", {})
    BY <1>3, EffectIs
  <2> QED
    BY <1>3, <2>1 DEF IsAt, Timed
<1>4. ASSUME NEW g \in Halfway, g.timer = {}, config[p].begin <= now
      PROVE  excute(p, g).type \in States /\ Timed(p, excute(p, g).type, excute(p, g).timer)
  <2>1. PICK e : e = effect(g, TRUE)
    OBVIOUS
  <2>2. IsAt(e, "Excute", {})
    BY <1>4, <2>1, EffectIs
  <2>3. CASE config[p].end > now
    <3>1. excute(p, g) = [e EXCEPT !.timer = {[call |-> "exit", at |-> config[p].end]}]
      BY <1>1, <1>2, <2>1, <2>3 DEF excute
    <3>2. excute(p, g).type = "Excute" /\ excute(p, g).timer = {[call |-> "exit", at |-> config[p].end]}
      BY <2>2, <3>1 DEF IsAt, Halfway
    <3> QED
      BY <1>4, <3>2 DEF Timed, States
  <2>4. CASE ~(config[p].end > now)
    <3>1. excute(p, g) = exit(e)
      BY <2>1, <2>4 DEF excute
    <3> QED
      BY <1>1, <1>3, <2>2, <2>4, <3>1 DEF IsAt, States
  <2> QED
    BY <2>3, <2>4
<1>5. ASSUME NEW g \in Halfway, g.timer = {}
      PROVE  apply(p, g).type \in States /\ Timed(p, apply(p, g).type, apply(p, g).timer)
  <2>1. PICK e : e = [g EXCEPT !.type = "Apply"]
    OBVIOUS
  <2>2. e \in Halfway /\ e.type = "Apply" /\ e.timer = {}
    BY <1>5, <2>1 DEF Halfway, States
  <2>3. CASE config[p].begin > now
    <3>1. apply(p, g) = [e EXCEPT !.timer = {[call |-> "excute", at |-> config[p].begin]}]
      BY <1>1, <1>2, <2>1, <2>3 DEF apply
    <3>2. apply(p, g).type = "Apply" /\ apply(p, g).timer = {[call |-> "excute", at |-> config[p].begin]}
      BY <2>2, <3>1 DEF Halfway
    <3> QED
      BY <3>2 DEF Timed, States
  <2>4. CASE ~(config[p].begin > now)
    <3>1. apply(p, g) = excute(p, e)
      BY <2>1, <2>4 DEF apply
    <3> QED
      BY <1>1, <1>4, <2>2, <2>4, <3>1
  <2> QED
    BY <2>3, <2>4
<1>6. ASSUME h = between("Wait", {})
      PROVE  inited(p).type \in States /\ Timed(p, inited(p).type, inited(p).timer)
  <2>1. h.type = "Wait"
    BY <1>6 DEF between
  <2>2. CASE config[p].show > now
    <3>1. inited(p) = [h EXCEPT !.timer = {[call |-> "apply", at |-> config[p].show]}]
      BY <1>1, <1>2, <1>6, <2>2 DEF inited
    <3>2. inited(p).type = "Wait" /\ inited(p).timer = {[call |-> "apply", at |-> config[p].show]}
      BY <2>1, <3>1 DEF Halfway
    <3> QED
      BY <3>2 DEF Timed, States
  <2>3. CASE ~(config[p].show > now)
    <3>1. inited(p) = apply(p, h)
      BY <1>6, <2>3 DEF inited
    <3> QED
      BY <1>5, <3>1
  <2> QED
    BY <2>2, <2>3
<1> QED
  BY <1>1, <1>3, <1>4, <1>5, <1>6 DEF States

-----------------------------------------------------------------------------
(* The steps *)

\* The table stays what it is, and with it what a promotion should do.
LEMMA SameTable ==
  ASSUME UNCHANGED config, NEW p \in Promos, NEW type, NEW n, NEW ts
  PROVE  /\ created' = created /\ (normal(p)' <=> normal(p))
         /\ Placed(p, type, n)' <=> Placed(p, type, n)
         /\ now' = now => (Timed(p, type, ts)' <=> Timed(p, type, ts))
<1>1. created' = created /\ (normal(p)' <=> normal(p))
  BY DEF created, normal
<1>2. Placed(p, type, n)' <=> Placed(p, type, n)
  <2>1. dayAt(p, n)' = dayAt(p, n)
    BY DEF dayAt
  <2>2. withinAt(p, config[p].show, n)' <=> withinAt(p, config[p].show, n)
    BY <2>1 DEF withinAt
  <2>3. withinAt(p, config[p].begin, n)' <=> withinAt(p, config[p].begin, n)
    BY <2>1 DEF withinAt
  <2> QED
    BY <2>1, <2>2, <2>3 DEF Placed
<1>3. now' = now => (Timed(p, type, ts)' <=> Timed(p, type, ts))
  BY DEF Timed
<1> QED
  BY <1>1, <1>2, <1>3

\* The invariant after a step, from what the step leaves of a promotion
LEMMA KeptBy ==
  ASSUME UNCHANGED config, NEW p \in Promos, NEW type, NEW ts, NEW n,
         type = _type'[p], ts = timer'[p], n = passed',
         up' /\ p \in created /\ normal(p) => Timed(p, type, ts)',
         up' /\ p \in created /\ ~normal(p) => Placed(p, type, n),
         ~(up' /\ p \in created /\ normal(p)) => ts = {},
         up' /\ p \in created => p \in _shopSalesPromotions' \/ type = "Destroy"
  PROVE  /\ up' /\ p \in created' /\ normal(p)' => Timed(p, _type[p], timer[p])'
         /\ up' /\ p \in created' /\ ~normal(p)' => Placed(p, _type[p], passed)'
         /\ ~(up' /\ p \in created' /\ normal(p)') => timer'[p] = {}
         /\ up' /\ p \in created' => p \in _shopSalesPromotions' \/ _type'[p] = "Destroy"
<1>1. created' = created /\ (normal(p)' <=> normal(p)) /\ (Placed(p, type, n)' <=> Placed(p, type, n))
  BY SameTable
<1>2. Timed(p, type, ts)' <=> Timed(p, _type[p], timer[p])'
  BY DEF Timed
<1>3. Placed(p, type, n)' <=> Placed(p, _type[p], passed)'
  BY DEF Placed
<1> QED
  BY <1>1, <1>2, <1>3

\* No promotion runs before the first process.
LEMMA PromoStart == PromotionsInit => PromoInv
<1> SUFFICES ASSUME PromotionsInit PROVE PromoInv
  OBVIOUS
<1>1. PromoTyped
  BY DEF PromotionsInit, PromoTyped, States
<1>2. up = FALSE /\ timer = [p \in Promos |-> {}]
  BY DEF PromotionsInit
<1>3. PromoKept
  BY <1>2 DEF PromoKept
<1> QED
  BY <1>1, <1>3 DEF PromoInv

\* ShopSalesPromotionManager::init
LEMMA PromoInitStep ==
  ASSUME TimesFit, PromoInv, init
  PROVE  PromoInv'
<1>1. /\ ~up /\ up' /\ _shopSalesPromotions' = created /\ UNCHANGED <<config, now, midnight>>
      /\ timer' = [p \in Promos |-> IF p \in created THEN inited(p).timer ELSE timer[p]]
      /\ _type' = [p \in Promos |-> IF p \in created THEN inited(p).type ELSE _type[p]]
      /\ up' = TRUE
  <2> DEFINE next == [p \in Promos |-> IF p \in created THEN inited(p) ELSE kept(p)]
  <2>1. /\ _type' = [p \in Promos |-> next[p].type] /\ timer' = [p \in Promos |-> next[p].timer]
        /\ up' = TRUE
    BY DEF init, become
  <2>2. \A p \in Promos : kept(p).type = _type[p] /\ kept(p).timer = timer[p]
    BY DEF kept, between
  <2> QED
    BY <2>1, <2>2 DEF init
<1>2. ~midnight /\ ~midnight'
  BY <1>1 DEF PromoInv, PromoTyped
<1>3. passed' = now
  BY <1>1, <1>2 DEF passed
<1>4. ASSUME NEW p \in Promos, p \in created, ~normal(p)
      PROVE  inited(p).type \in States /\ Placed(p, inited(p).type, now) /\ inited(p).timer = {}
  <2>1. PICK w \in States : w = "Wait"
    BY DEF States
  <2>2. IsAt(between(w, {}), w, {}) /\ inited(p) = pass(p, between(w, {}))
    BY <1>4, <2>1, BetweenIs DEF inited
  <2>3. IsAt(inited(p), placed(p, w), {})
    BY <1>4, <2>2, PassIs DEF IsAt
  <2>4. placed(p, w) \in States /\ Placed(p, placed(p, w), now)
    BY <1>4, <2>1, PassPlaces DEF PromoInv
  <2> QED
    BY <2>3, <2>4 DEF IsAt
<1>5. ASSUME NEW p \in Promos, p \in created, normal(p)
      PROVE  inited(p).type \in States /\ Timed(p, inited(p).type, inited(p).timer)
  <2>1. PICK h : h = between("Wait", {})
    OBVIOUS
  <2>2. h \in Halfway /\ h.timer = {}
    BY <2>1, BetweenIs DEF IsAt, States
  <2> QED
    BY <1>5, <2>1, <2>2, TimedChange DEF PromoInv
<1>6. PromoTyped'
  <2>1. \A p \in Promos : _type'[p] \in States
    BY <1>1, <1>4, <1>5 DEF PromoInv, PromoTyped
  <2>2. _type' \in [Promos -> States] /\ DOMAIN timer' = Promos
    BY <1>1, <2>1
  <2> QED
    BY <1>1, <1>2, <2>2 DEF PromoInv, PromoTyped
<1>7. ASSUME NEW p \in Promos
      PROVE  /\ up' /\ p \in created' /\ normal(p)' => Timed(p, _type[p], timer[p])'
             /\ up' /\ p \in created' /\ ~normal(p)' => Placed(p, _type[p], passed)'
             /\ ~(up' /\ p \in created' /\ normal(p)') => timer'[p] = {}
             /\ up' /\ p \in created' => p \in _shopSalesPromotions' \/ _type'[p] = "Destroy"
  <2>1. PICK type, ts, n : type = _type'[p] /\ ts = timer'[p] /\ n = passed'
    OBVIOUS
  <2>2. p \in created /\ normal(p) => Timed(p, type, ts)'
    BY <1>1, <1>5, <2>1, SameTable
  <2>3. p \in created /\ ~normal(p) => Placed(p, type, n)
    BY <1>1, <1>3, <1>4, <2>1
  <2>4. ~(p \in created /\ normal(p)) => ts = {}
    BY <1>1, <1>4, <2>1 DEF PromoInv, PromoKept
  <2> QED
    BY <1>1, <2>1, <2>2, <2>3, <2>4, KeptBy
<1> QED
  BY <1>6, <1>7 DEF PromoInv, PromoKept

\* A timer calls apply, excute or exit.
LEMMA PromoCallStep ==
  ASSUME TimesFit, PromoInv, NEW q \in Promos, call(q)
  PROVE  PromoInv'
<1>1. up /\ UNCHANGED <<config, _shopSalesPromotions, now, midnight, up>>
  BY DEF call
<1> DEFINE h == between(_type[q], {})
<1>2. PICK t \in timer[q] :
        /\ t.at <= now
        /\ LET next == CASE t.call = "apply" -> apply(q, h)
                          [] t.call = "excute" -> excute(q, h)
                          [] t.call = "exit" -> exit(h)
           IN  become([p \in Promos |-> IF p = q THEN next ELSE kept(p)])
  BY DEF call
<1>3. q \in created /\ normal(q) /\ Timed(q, _type[q], timer[q])
  BY <1>1, <1>2 DEF PromoInv, PromoKept
<1>4. PICK type, ts : /\ _type' = [_type EXCEPT ![q] = type] /\ timer' = [timer EXCEPT ![q] = ts]
                      /\ type \in States /\ Timed(q, type, ts)
  <2>1. h \in Halfway /\ h.timer = {}
    BY BetweenIs DEF IsAt, PromoInv, PromoTyped
  <2> HIDE DEF h
  <2> DEFINE next == CASE t.call = "apply" -> apply(q, h)
                       [] t.call = "excute" -> excute(q, h)
                       [] t.call = "exit" -> exit(h)
             change == [p \in Promos |-> IF p = q THEN next ELSE kept(p)]
  <2>8. _type' = [p \in Promos |-> change[p].type] /\ timer' = [p \in Promos |-> change[p].timer]
    BY <1>2 DEF become
  <2>2. /\ t.call = "apply" => next = apply(q, h)
        /\ t.call = "excute" => next = excute(q, h)
        /\ t.call = "exit" => next = exit(h)
    OBVIOUS
  <2> HIDE DEF next
  <2>3. _type' = [_type EXCEPT ![q] = next.type] /\ timer' = [timer EXCEPT ![q] = next.timer]
    <3>1. \A p \in Promos : kept(p).type = _type[p] /\ kept(p).timer = timer[p]
      BY DEF kept, between
    <3>2. /\ _type' = [p \in Promos |-> IF p = q THEN next.type ELSE _type[p]]
          /\ timer' = [p \in Promos |-> IF p = q THEN next.timer ELSE timer[p]]
      BY <2>8, <3>1
    <3>3. DOMAIN _type = Promos /\ DOMAIN timer = Promos
      BY DEF PromoInv, PromoTyped
    <3>4. /\ _type = [p \in Promos |-> _type[p]]
      BY DEF PromoInv, PromoTyped
    <3> QED
      BY <3>2, <3>3
  <2>4. next.type \in States /\ Timed(q, next.type, next.timer)
    <3>1. CASE t = [call |-> "apply", at |-> config[q].show]
      BY <1>3, <2>1, <2>2, <3>1, TimedChange DEF PromoInv
    <3>2. CASE t = [call |-> "excute", at |-> config[q].begin]
      BY <1>2, <1>3, <2>1, <2>2, <3>2, TimedChange DEF PromoInv
    <3>3. CASE t = [call |-> "exit", at |-> config[q].end]
      BY <1>2, <1>3, <2>1, <2>2, <3>3, TimedChange DEF PromoInv
    <3> QED
      BY <1>2, <1>3, <3>1, <3>2, <3>3 DEF Timed
  <2> QED
    BY <2>3, <2>4
<1>5. PromoTyped'
  BY <1>1, <1>4 DEF PromoInv, PromoTyped
<1>6. passed' = passed
  BY <1>1 DEF passed
<1>7. ASSUME NEW p \in Promos
      PROVE  /\ up' /\ p \in created' /\ normal(p)' => Timed(p, _type[p], timer[p])'
             /\ up' /\ p \in created' /\ ~normal(p)' => Placed(p, _type[p], passed)'
             /\ ~(up' /\ p \in created' /\ normal(p)') => timer'[p] = {}
             /\ up' /\ p \in created' => p \in _shopSalesPromotions' \/ _type'[p] = "Destroy"
  <2>1. PICK y, z, n : y = _type'[p] /\ z = timer'[p] /\ n = passed'
    OBVIOUS
  <2>2. CASE p = q
    <3>1. y = type /\ z = ts
      BY <1>4, <2>1, <2>2 DEF PromoInv, PromoTyped
    <3>2. Timed(p, y, z)'
      BY <1>1, <1>4, <2>2, <3>1, SameTable
    <3>3. y # "Destroy" => p \in _shopSalesPromotions'
      <4>1. _type[p] # "Destroy"
        BY <1>2, <1>3, <2>2 DEF Timed
      <4> QED
        BY <1>1, <1>3, <2>2, <4>1 DEF PromoInv, PromoKept
    <3> QED
      BY <1>1, <1>3, <2>1, <2>2, <3>2, <3>3, KeptBy
  <2>3. CASE p # q
    <3>1. y = _type[p] /\ z = timer[p] /\ n = passed
      BY <1>4, <1>6, <2>1, <2>3 DEF PromoInv, PromoTyped
    <3>2. Timed(p, y, z)' <=> Timed(p, y, z)
      BY <1>1, SameTable
    <3> QED
      BY <1>1, <2>1, <3>1, <3>2, KeptBy DEF PromoInv, PromoKept
  <2> QED
    BY <2>2, <2>3
<1> QED
  BY <1>5, <1>7 DEF PromoInv, PromoKept

\* ShopSalesPromotionManager::DayPass at midnight
LEMMA PromoDayStep ==
  ASSUME PromoInv, DayPass
  PROVE  PromoInv'
<1>1. /\ up /\ midnight /\ ~midnight' /\ midnight' = FALSE
      /\ UNCHANGED <<config, _shopSalesPromotions, now, up>>
      /\ timer' = timer
      /\ _type' = [p \in Promos |->
           IF p \in _shopSalesPromotions /\ ~normal(p) THEN placed(p, _type[p]) ELSE _type[p]]
  <2> DEFINE next == [p \in Promos |-> IF p \in _shopSalesPromotions /\ ~normal(p) THEN pass(p, kept(p)) ELSE kept(p)]
  <2>1. _type' = [p \in Promos |-> next[p].type] /\ timer' = [p \in Promos |-> next[p].timer]
    BY DEF DayPass, become
  <2>2. \A p \in Promos : kept(p).type = _type[p] /\ kept(p).timer = timer[p]
    BY DEF kept, between
  <2>3. ASSUME NEW p \in Promos, ~normal(p) PROVE IsAt(pass(p, kept(p)), placed(p, _type[p]), timer[p])
    <3>1. timer[p] = {} /\ _type[p] \in States
      BY <2>3 DEF PromoInv, PromoTyped, PromoKept
    <3>2. IsAt(kept(p), _type[p], {})
      BY <3>1, BetweenIs DEF kept
    <3> QED
      BY <2>3, <3>1, <3>2, PassIs DEF IsAt
  <2>4. \A p \in Promos :
          next[p].type = (IF p \in _shopSalesPromotions /\ ~normal(p) THEN placed(p, _type[p]) ELSE _type[p])
          /\ next[p].timer = timer[p]
    BY <2>2, <2>3 DEF IsAt
  <2> HIDE DEF next
  <2>5. timer' = timer
    <3>1. timer' = [p \in Promos |-> timer[p]]
      BY <2>1, <2>4
    <3> QED
      BY <3>1 DEF PromoInv, PromoTyped
  <2>6. _type' = [p \in Promos |->
           IF p \in _shopSalesPromotions /\ ~normal(p) THEN placed(p, _type[p]) ELSE _type[p]]
    BY <2>1, <2>4
  <2> QED
    BY <2>5, <2>6 DEF DayPass
<1>2. PICK m \in Nat : m = now - 1 /\ m + 1 = now /\ passed = m /\ passed' = now
  <2>1. now \in Nat /\ now > 0
    BY <1>1 DEF PromoInv, PromoTyped
  <2>2. now - 1 \in Nat /\ (now - 1) + 1 = now
    BY <2>1
  <2>3. passed = now - 1 /\ passed' = now
    BY <1>1 DEF passed
  <2> QED
    BY <2>2, <2>3
<1>3. ASSUME NEW p \in Promos, p \in created, ~normal(p)
      PROVE  _type'[p] \in States /\ Placed(p, _type'[p], now)
  <2>1. PICK type \in States : type = _type[p]
    BY DEF PromoInv, PromoTyped
  <2>2. Placed(p, type, m)
    BY <1>1, <1>2, <1>3, <2>1 DEF PromoInv, PromoKept
  <2>3. /\ dayAt(p, m) \in Nat /\ dayAt(p, now) \in Nat /\ config[p].begin \in Nat /\ config[p].end \in Nat
        /\ config[p].time = "offset" => dayAt(p, m) <= dayAt(p, now)
    <3>1. now \in Nat /\ config \in Configs
      BY DEF PromoInv, PromoTyped
    <3> QED
      BY <1>2, <3>1, DayNumber, Entry
  <2>4. type = "Excute" /\ config[p].time = "offset" => config[p].begin <= dayAt(p, now)
    BY <2>2, <2>3 DEF Placed, withinAt
  <2>5. type = "Destroy" /\ config[p].time = "offset" => dayAt(p, now) > config[p].end
    BY <2>2, <2>3 DEF Placed
  <2>6. placed(p, type) \in States /\ Placed(p, placed(p, type), now)
    BY <1>3, <2>4, <2>5, PassPlaces DEF PromoInv
  <2>7. CASE p \in _shopSalesPromotions
    <3>1. _type'[p] = placed(p, type)
      BY <1>1, <1>3, <2>1, <2>7
    <3> QED
      BY <2>6, <3>1
  <2>8. CASE p \notin _shopSalesPromotions
    <3>1. type = "Destroy" /\ _type'[p] = "Destroy"
      BY <1>1, <1>3, <2>1, <2>8 DEF PromoInv, PromoKept
    <3> QED
      BY <2>1, <2>5, <3>1 DEF Placed
  <2> QED
    BY <2>7, <2>8
<1>4. \A p \in Promos : normal(p) => _type'[p] = _type[p]
  BY <1>1
<1>5. ASSUME NEW p \in Promos, ~(p \in created /\ ~normal(p)), ~normal(p) PROVE _type'[p] \in States
  <2>1. PICK type : type = _type[p]
    OBVIOUS
  <2>2. type \in States
    BY <2>1 DEF PromoInv, PromoTyped
  <2>3. placed(p, type) \in States
    BY <2>2 DEF placed, ended, begun, shown, States
  <2> QED
    BY <1>1, <2>1, <2>2, <2>3
<1>6. PromoTyped'
  <2>1. \A p \in Promos : _type'[p] \in States
    BY <1>3, <1>4, <1>5 DEF PromoInv, PromoTyped
  <2>2. _type' \in [Promos -> States]
    BY <1>1, <2>1
  <2> QED
    BY <1>1, <2>2 DEF PromoInv, PromoTyped
<1>7. ASSUME NEW p \in Promos
      PROVE  /\ up' /\ p \in created' /\ normal(p)' => Timed(p, _type[p], timer[p])'
             /\ up' /\ p \in created' /\ ~normal(p)' => Placed(p, _type[p], passed)'
             /\ ~(up' /\ p \in created' /\ normal(p)') => timer'[p] = {}
             /\ up' /\ p \in created' => p \in _shopSalesPromotions' \/ _type'[p] = "Destroy"
  <2>1. PICK y, z, n : y = _type'[p] /\ z = timer'[p] /\ n = passed'
    OBVIOUS
  <2>2. p \in created /\ normal(p) => Timed(p, y, z)'
    <3>1. Timed(p, y, z)' <=> Timed(p, y, z)
      BY <1>1, SameTable
    <3> QED
      BY <1>1, <1>4, <2>1, <3>1 DEF PromoInv, PromoKept
  <2>3. p \in created /\ ~normal(p) => Placed(p, y, n)
    BY <1>2, <1>3, <2>1
  <2>4. ~(p \in created /\ normal(p)) => z = {}
    BY <1>1, <2>1 DEF PromoInv, PromoKept
  <2>5. p \in created => p \in _shopSalesPromotions \/ y = "Destroy"
    <3>1. p \notin _shopSalesPromotions => y = _type[p]
      BY <1>1, <2>1
    <3> QED
      BY <1>1, <3>1 DEF PromoInv, PromoKept
  <2> QED
    BY <1>1, <2>1, <2>2, <2>3, <2>4, <2>5, KeptBy
<1> QED
  BY <1>6, <1>7 DEF PromoInv, PromoKept

\* Destroyed promotions leave the list; the process ends; nothing happens.
LEMMA PromoLeaveStep ==
  ASSUME PromoInv, update \/ newProcess \/ UNCHANGED promotionVars
  PROVE  PromoInv'
<1>1. CASE newProcess
  BY <1>1 DEF newProcess, PromoInv, PromoTyped, PromoKept, States
<1>2. CASE update \/ UNCHANGED promotionVars
  <2>1. /\ UNCHANGED <<config, _type, timer, now, midnight, up>>
        /\ \A p \in Promos : up /\ p \in _shopSalesPromotions =>
              p \in _shopSalesPromotions' \/ _type[p] = "Destroy"
    BY <1>2 DEF update, promotionVars, promoVars
  <2>2. PromoTyped'
    BY <2>1 DEF PromoInv, PromoTyped
  <2>3. ASSUME NEW p \in Promos
        PROVE  /\ up' /\ p \in created' /\ normal(p)' => Timed(p, _type[p], timer[p])'
               /\ up' /\ p \in created' /\ ~normal(p)' => Placed(p, _type[p], passed)'
               /\ ~(up' /\ p \in created' /\ normal(p)') => timer'[p] = {}
               /\ up' /\ p \in created' => p \in _shopSalesPromotions' \/ _type'[p] = "Destroy"
    <3>1. PICK y, z, n : y = _type[p] /\ z = timer[p] /\ n = passed
      OBVIOUS
    <3>2. y = _type'[p] /\ z = timer'[p] /\ n = passed'
      BY <2>1, <3>1 DEF passed
    <3>3. Timed(p, y, z)' <=> Timed(p, y, z)
      BY <2>1, SameTable
    <3> QED
      BY <2>1, <3>1, <3>2, <3>3, KeptBy DEF PromoInv, PromoKept
  <2> QED
    BY <2>2, <2>3 DEF PromoInv, PromoKept
<1> QED
  BY <1>1, <1>2

\* Time goes on.
LEMMA PromoTickStep ==
  ASSUME ~Late, PromoInv, tick
  PROVE  PromoInv'
<1>1. /\ up => settled
      /\ now' = now + 1 /\ midnight' = (up /\ now' % DayLength = 0)
      /\ UNCHANGED <<config, _type, _shopSalesPromotions, timer, up>>
  BY DEF tick, promoVars
<1>2. ~midnight /\ now \in Nat /\ passed = now
  BY <1>1 DEF settled, passed, PromoInv, PromoTyped
<1>3. PromoTyped'
  BY <1>1, <1>2 DEF PromoInv, PromoTyped
<1>4. ASSUME NEW p \in Promos
      PROVE  /\ up' /\ p \in created' /\ normal(p)' => Timed(p, _type[p], timer[p])'
             /\ up' /\ p \in created' /\ ~normal(p)' => Placed(p, _type[p], passed)'
             /\ ~(up' /\ p \in created' /\ normal(p)') => timer'[p] = {}
             /\ up' /\ p \in created' => p \in _shopSalesPromotions' \/ _type'[p] = "Destroy"
  <2>1. PICK y, z, n : y = _type[p] /\ z = timer[p] /\ n = passed'
    OBVIOUS
  <2>2. y = _type'[p] /\ z = timer'[p]
    BY <1>1, <2>1
  <2>3. Timed(p, y, z) => Timed(p, y, z)'
    <3>1. config[p].begin \in Nat /\ config[p].end \in Nat
      BY Entry DEF PromoInv, PromoTyped
    <3> QED
      BY <1>1, <1>2, <3>1 DEF Timed
  <2>4. up => (Placed(p, y, now) => Placed(p, y, n))
    <3>1. CASE midnight'
      <4>1. n = (now + 1) - 1
        BY <1>1, <2>1, <3>1 DEF passed
      <4>2. n = now
        BY <1>2, <4>1
      <4> QED
        BY <4>2
    <3>2. CASE ~midnight' /\ up
      <4>1. n = now + 1 /\ (now + 1) % DayLength # 0
        BY <1>1, <2>1, <3>2 DEF passed
      <4>2. dayAt(p, n) = dayAt(p, now)
        BY <1>2, <4>1, DayNumber DEF PromoInv, PromoTyped
      <4> QED
        BY <4>2 DEF Placed, withinAt
    <3> QED
      BY <3>1, <3>2
  <2> QED
    BY <1>1, <1>2, <2>1, <2>2, <2>3, <2>4, KeptBy DEF PromoInv, PromoKept
<1> QED
  BY <1>3, <1>4 DEF PromoInv, PromoKept

\* Every step keeps the invariant.
LEMMA PromoStep ==
  ASSUME TimesFit, ~Late, PromoInv, [PromotionsNext]_promotionVars
  PROVE  PromoInv'
  BY PromoInitStep, PromoCallStep, PromoDayStep, PromoLeaveStep, PromoTickStep DEF PromotionsNext

\* What the invariant says when all that is due has been done
LEMMA PromoInPeriod ==
  ASSUME ~Late, PromoInv
  PROVE  RunsInPeriod
<1> SUFFICES ASSUME up, settled, NEW p \in created
             PROVE  /\ p \in running /\ (config[p].time = "week" => config[p].begin <= config[p].end) => period(p)
                    /\ config[p].time # "week" /\ config[p].show <= config[p].begin /\ period(p) => p \in running
  BY DEF RunsInPeriod
<1>1. p \in Promos /\ ~midnight /\ passed = now /\ (\A t \in timer[p] : t.at > now) /\ now \in Nat
  BY DEF created, settled, passed, PromoInv, PromoTyped
<1>2. /\ config[p].show \in Nat /\ config[p].begin \in Nat /\ config[p].end \in Nat
      /\ config[p].time \in {"normal", "week", "offset"} /\ dayAt(p, now) \in Nat
  BY <1>1, Entry, DayNumber DEF PromoInv, PromoTyped
<1>3. p \in running <=> _type[p] = "Excute"
  BY <1>1 DEF running
<1>4. CASE normal(p)
  <2>1. Timed(p, _type[p], timer[p])
    BY <1>1, <1>4 DEF PromoInv, PromoKept
  <2>2. /\ _type[p] = "Wait" => config[p].show > now
        /\ _type[p] = "Apply" => config[p].begin > now
        /\ _type[p] = "Excute" => config[p].end > now /\ config[p].begin <= now
        /\ _type[p] = "Destroy" => config[p].end <= now
    <3>1. PICK type, ts : type = _type[p] /\ ts = timer[p]
      OBVIOUS
    <3>2. \A c, time : ts = {[call |-> c, at |-> time]} => time > now
      <4> SUFFICES ASSUME NEW c, NEW time, ts = {[call |-> c, at |-> time]} PROVE time > now
        OBVIOUS
      <4>1. PICK t \in ts : t = [call |-> c, at |-> time]
        OBVIOUS
      <4> QED
        BY <1>1, <3>1, <4>1
    <3>3. Timed(p, type, ts)
      BY <2>1, <3>1
    <3> QED
      BY <3>1, <3>2, <3>3 DEF Timed
  <2>3. _type[p] \in States
    BY <1>1 DEF PromoInv, PromoTyped
  <2>4. period(p) <=> config[p].begin <= now /\ now < config[p].end
    BY <1>4 DEF period
  <2> QED
    BY <1>1, <1>2, <1>3, <2>2, <2>3, <2>4 DEF States
<1>5. CASE ~normal(p)
  <2>1. Placed(p, _type[p], now)
    BY <1>1, <1>5 DEF PromoInv, PromoKept
  <2>2. _type[p] \in States
    BY <1>1 DEF PromoInv, PromoTyped
  <2>3. period(p) <=> config[p].begin <= dayAt(p, now) /\ dayAt(p, now) <= config[p].end
    BY <1>5 DEF period, dayOf, dayAt
  <2>4. CASE config[p].time = "week"
    BY <1>2, <1>3, <2>1, <2>3, <2>4 DEF Placed, withinAt
  <2>5. CASE config[p].time = "offset"
    BY <1>2, <1>3, <2>1, <2>2, <2>3, <2>5 DEF Placed, withinAt, States
  <2> QED
    BY <1>2, <1>5, <2>4, <2>5 DEF normal
<1> QED
  BY <1>4, <1>5

-----------------------------------------------------------------------------
(* The theorems *)

\* If no midnight is missed and the times of the table fit in a timer, every promotion has
\* the timer of its next change or is where its day puts it, across restarts (init, apply,
\* excute, DayPass, update).
THEOREM PromotionsInvariant ==
  ASSUME TimesFit, ~Late
  PROVE  PromotionsSpec => []PromoInv
<1>1. PromotionsInit => PromoInv
  BY PromoStart
<1>2. PromoInv /\ [PromotionsNext]_promotionVars => PromoInv'
  BY PromoStep
<1> QED
  BY <1>1, <1>2, PTL DEF PromotionsSpec

\* Under these conditions a promotion runs only in its period, and one with fixed times or
\* days since the opening runs whenever it is its period (init, DayPass, apply, excute).
THEOREM PromotionsInPeriod ==
  ASSUME TimesFit, ~Late
  PROVE  PromotionsSpec => []RunsInPeriod
<1>1. PromoInv => RunsInPeriod
  BY PromoInPeriod
<1> QED
  BY <1>1, PromotionsInvariant, PTL

\* The same of the run's timely promotions.
THEOREM TimelyInPeriod ==
  ASSUME TimesFit, ~Late
  PROVE  MCSpec => []InPeriod
<1> DEFINE Inv == part = "timely" => PromoInv
<1>1. MCInit => Inv
  BY PromoStart DEF MCInit, PromoInit, DailyInit
<1>2. Inv /\ [MCNext]_<<vars, part, promotionVars>> => Inv'
  <2> SUFFICES ASSUME Inv, [MCNext]_<<vars, part, promotionVars>>, part' = "timely" PROVE PromoInv'
    OBVIOUS
  <2>1. CASE DailyNext /\ UNCHANGED <<part, promotionVars>>
    BY <2>1, PromoStep
  <2>2. CASE PromoNext /\ UNCHANGED <<part, vars>>
    BY <2>2, PromoStep DEF PromoNext
  <2>3. CASE UNCHANGED <<vars, part, promotionVars>>
    BY <2>3, PromoStep
  <2> QED
    BY <2>1, <2>2, <2>3 DEF MCNext
<1>3. Inv => InPeriod
  BY PromoInPeriod DEF InPeriod
<1> QED
  BY <1>1, <1>2, <1>3, PTL DEF MCSpec
=============================================================================
