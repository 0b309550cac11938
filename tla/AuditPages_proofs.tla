-------------------------- MODULE AuditPages_proofs --------------------------
(***************************************************************************)
(* Proofs about the audit log's pages, for logs and limits of any size and *)
(* ids in any order: a walk never goes back to a cursor, and it shows each *)
(* row once that is not out of order with another.                         *)
(***************************************************************************)
EXTENDS AuditPages, FiniteSetTheorems, TLAPS

\* A row of the log.
LogRow == [id : Ids, at : Nat]

\* The variables stay in their types, and no two rows, committed or not, have one id.
TypeOK ==
  /\ rows \subseteq LogRow /\ open \subseteq LogRow /\ IsFiniteSet(rows)
  /\ \A r, k \in rows \cup open : r.id = k.id => r = k
  /\ now \in Nat
  /\ walk \in [limit : Limits \cup {1}, cursor : Ids \cup {0}, there : SUBSET Ids,
               shown : [Ids -> 0 .. 2], more : BOOLEAN]

\* The walk may still come to r.
Ahead(r) == walk.more /\ (walk.cursor = 0 \/ r.id < walk.cursor)

\* A row that is still ahead was shown, or one left behind was not, or one was shown
\* twice, only if another row is out of order with it.
ShownSoFar ==
  \A r \in rows : r.id \in walk.there =>
    /\ Ahead(r) /\ walk.shown[r.id] # 0 => Undercut(r)
    /\ ~Ahead(r) /\ walk.shown[r.id] = 0 => Overtaken(r)
    /\ walk.shown[r.id] > 1 => Undercut(r)

WalkInv ==
  /\ walk.there \subseteq {r.id : r \in rows}
  /\ ShownSoFar

Inv == TypeOK /\ WalkInv

-----------------------------------------------------------------------------
(* One page *)

\* Ids and limits are numbers.
LEMMA ConstantsTyped ==
  /\ \A id \in Ids : id \in Nat /\ id # 0
  /\ \A limit \in Limits \cup {1} : limit \in Int
  /\ Cap \in Nat \ {0}
BY PageAssumption

\* The smaller and the larger of two numbers.
LEMMA MinMaxOfTwo ==
  ASSUME NEW a \in Int, NEW b \in Int
  PROVE  /\ Min({a, b}) = IF a <= b THEN a ELSE b
         /\ Max({a, b}) = IF a <= b THEN b ELSE a
<1> DEFINE low == IF a <= b THEN a ELSE b
           high == IF a <= b THEN b ELSE a
<1>1. low \in {a, b} /\ high \in {a, b} /\ \A y \in {a, b} : low <= y /\ high >= y
  OBVIOUS
<1>2. \A x \in {a, b} :
        /\ (\A y \in {a, b} : x <= y) => x = low
        /\ (\A y \in {a, b} : x >= y) => x = high
  OBVIOUS
<1> HIDE DEF low, high
<1>3. Min({a, b}) = low
  BY <1>1, <1>2 DEF Min
<1>4. Max({a, b}) = high
  BY <1>1, <1>2 DEF Max
<1> QED
  BY <1>3, <1>4 DEF low, high

\* A page has room for one row at least.
LEMMA SafeLimitPositive ==
  ASSUME NEW limit \in Int
  PROVE  SafeLimit(limit) \in Nat \ {0}
<1>1. Max({1, limit}) \in Nat \ {0}
  BY MinMaxOfTwo
<1> QED
  BY <1>1, MinMaxOfTwo, PageAssumption DEF SafeLimit

\* A permutation of a finite set holds every element of it.
LEMMA SeqsOnto ==
  ASSUME NEW S, IsFiniteSet(S), NEW q \in SetToSeqs(S)
  PROVE  /\ q \in [1 .. Cardinality(S) -> S] /\ Cardinality(S) \in Nat
         /\ q \in Seq(S) /\ Len(q) = Cardinality(S)
         /\ \A i, j \in 1 .. Len(q) : i # j => q[i] # q[j]
         /\ \A x \in S : \E i \in 1 .. Len(q) : q[i] = x
<1> DEFINE n == Cardinality(S)
<1>1. n \in Nat
  BY FS_CardinalityType
<1>2. q \in [1 .. n -> S] /\ \A i, j \in 1 .. n : i # j => q[i] # q[j]
  BY DEF SetToSeqs
<1>3. q \in Injection(1 .. n, S)
  BY <1>2 DEF Injection, IsInjective
<1>4. Cardinality(1 .. n) = n
  BY <1>1, FS_Interval
<1> HIDE DEF n
<1>5. q \in Seq(S) /\ Len(q) = n
  BY <1>1, <1>2
<1>6. q \in Surjection(1 .. n, S)
  BY <1>3, <1>4, FS_Injection DEF n
<1>7. \A x \in S : \E i \in 1 .. n : q[i] = x
  BY <1>6 DEF Surjection
<1> QED
  BY <1>1, <1>2, <1>5, <1>7 DEF n

\* q holds the matching rows once each, the latest first, and begins with found.
BeginningOf(q, cursor, n, found) ==
  /\ \A i, j \in 1 .. Len(q) : i # j => q[i] # q[j]
  /\ \A x \in Matching(cursor) : \E i \in 1 .. Len(q) : q[i] = x
  /\ \A i, j \in 1 .. Len(q) : i < j => q[i].at >= q[j].at
  /\ Len(found) = IF Len(q) <= n + 1 THEN Len(q) ELSE n + 1
  /\ \A i \in 1 .. Len(found) : found[i] = q[i]

\* What a query finds is the beginning of the matching rows, the latest first.
LEMMA QueryFinds ==
  ASSUME TypeOK, NEW n \in Nat \ {0}, NEW cursor, NEW found \in Results(cursor, n)
  PROVE  \E q \in Seq(Matching(cursor)) : BeginningOf(q, cursor, n, found)
<1> DEFINE M == Matching(cursor)
<1>1. IsFiniteSet(M)
  BY FS_Subset DEF Matching, TypeOK
<1>2. PICK q \in SetToSeqs(M) :
        /\ \A i, j \in DOMAIN q : i < j => q[i].at >= q[j].at
        /\ found = SubSeq(q, 1, Min({Len(q), n + 1}))
  BY DEF Results
<1> HIDE DEF M
<1>3. /\ q \in Seq(M)
      /\ \A i, j \in 1 .. Len(q) : i # j => q[i] # q[j]
      /\ \A x \in M : \E i \in 1 .. Len(q) : q[i] = x
  BY <1>1, SeqsOnto
<1>4. Len(q) \in Nat /\ DOMAIN q = 1 .. Len(q)
  BY <1>3
<1> DEFINE m == IF Len(q) <= n + 1 THEN Len(q) ELSE n + 1
<1>5. Min({Len(q), n + 1}) = m
  BY <1>4, MinMaxOfTwo
<1>6. m \in 0 .. Len(q)
  BY <1>4
<1>7. Len(found) = m /\ \A i \in 1 .. m : found[i] = q[i]
  <2> HIDE DEF m
  <2>1. found = SubSeq(q, 1, m)
    BY <1>2, <1>5
  <2> QED
    BY <1>3, <1>6, <2>1
<1> QED
  BY <1>2, <1>3, <1>4, <1>7 DEF M, BeginningOf

\* The cursor of a page is the id of one of its rows, which its own cursor admits.
LEMMA CursorFromPage ==
  ASSUME TypeOK, NEW n \in Nat \ {0}, NEW cursor \in Ids \cup {0},
         NEW found \in Results(cursor, n), NextCursor(found, n) # 0
  PROVE  \E r \in rows : NextCursor(found, n) = r.id /\ (cursor # 0 => r.id < cursor)
<1>0. PICK q \in Seq(Matching(cursor)) : BeginningOf(q, cursor, n, found)
  BY QueryFinds
<1>1. /\ Len(found) = IF Len(q) <= n + 1 THEN Len(q) ELSE n + 1
      /\ \A i \in 1 .. Len(found) : found[i] = q[i]
  BY <1>0 DEF BeginningOf
<1>2. Len(q) \in Nat /\ Len(found) > n /\ NextCursor(found, n) = found[n].id
  BY <1>1 DEF NextCursor
<1>3. n \in 1 .. Len(q) /\ n \in 1 .. Len(found)
  BY <1>1, <1>2
<1>4. found[n] \in Matching(cursor)
  BY <1>1, <1>3
<1> QED
  BY <1>2, <1>4 DEF Matching

\* The ids on a page.
PageIds(found, n) == {found[i].id : i \in 1 .. Min({Len(found), n})}

\* A page holds matching rows only. The row that its next cursor names is not newer
\* than any row of the page, and not older than any that did not fit.
LEMMA PageCut ==
  ASSUME TypeOK, NEW n \in Nat \ {0}, NEW cursor \in Ids \cup {0},
         NEW found \in Results(cursor, n)
  PROVE  /\ PageIds(found, n) \subseteq {r.id : r \in Matching(cursor)}
         /\ \A r \in Matching(cursor) :
              /\ r.id \notin PageIds(found, n) =>
                   \E k \in rows : k.id = NextCursor(found, n) /\ k.id # r.id /\ k.at >= r.at
              /\ r.id \in PageIds(found, n) /\ NextCursor(found, n) # 0 =>
                   \E k \in rows : k.id = NextCursor(found, n) /\ k.at <= r.at
<1>0. PICK q \in Seq(Matching(cursor)) : BeginningOf(q, cursor, n, found)
  BY QueryFinds
<1> DEFINE M == Matching(cursor)
<1>1. /\ \A i, j \in 1 .. Len(q) : i # j => q[i] # q[j]
      /\ \A x \in M : \E i \in 1 .. Len(q) : q[i] = x
      /\ \A i, j \in 1 .. Len(q) : i < j => q[i].at >= q[j].at
      /\ Len(found) = IF Len(q) <= n + 1 THEN Len(q) ELSE n + 1
      /\ \A i \in 1 .. Len(found) : found[i] = q[i]
  BY <1>0 DEF BeginningOf
<1>2. /\ M \subseteq rows /\ Len(q) \in Nat /\ Len(found) \in Nat
      /\ \A i \in 1 .. Len(q) : q[i] \in M
  BY <1>1 DEF Matching
<1>3. \A r \in M : r.at \in Nat
  BY <1>2 DEF TypeOK, LogRow
<1>4. \A r, k \in M : r.id = k.id => r = k
  BY <1>2 DEF TypeOK
<1> HIDE DEF M
<1> DEFINE m == IF Len(found) <= n THEN Len(found) ELSE n
<1>5. Min({Len(found), n}) = m
  BY <1>2, MinMaxOfTwo
<1>6. m \in 0 .. Len(q) /\ m <= Len(found)
  BY <1>1, <1>2
<1>7. PageIds(found, n) = {q[i].id : i \in 1 .. m}
  <2> HIDE DEF m
  <2>1. \A i \in 1 .. m : found[i] = q[i]
    BY <1>1, <1>2, <1>6
  <2> QED
    BY <1>5, <2>1 DEF PageIds
<1>8. PageIds(found, n) \subseteq {r.id : r \in M}
  <2> HIDE DEF m
  <2> QED
    BY <1>2, <1>6, <1>7
<1>9. ASSUME NEW r \in M, r.id \notin PageIds(found, n)
      PROVE  \E k \in rows : k.id = NextCursor(found, n) /\ k.id # r.id /\ k.at >= r.at
  <2>1. PICK j \in 1 .. Len(q) : q[j] = r
    BY <1>1
  <2>2. j > m
    <3> HIDE DEF m
    <3> QED
      BY <1>6, <1>7, <1>9, <2>1
  <2>3. Len(found) > n /\ n < j /\ n \in 1 .. Len(q) /\ n \in 1 .. Len(found)
    BY <1>1, <1>2, <2>1, <2>2
  <2>4. NextCursor(found, n) = q[n].id
    BY <1>1, <2>3 DEF NextCursor
  <2>5. q[n] \in M /\ q[n] # r /\ q[n].at >= r.at
    BY <1>1, <1>2, <2>1, <2>3
  <2>6. q[n].id # r.id
    BY <1>4, <2>5
  <2> QED
    BY <1>2, <2>4, <2>5, <2>6
<1>10. ASSUME NEW r \in M, r.id \in PageIds(found, n), NextCursor(found, n) # 0
       PROVE  \E k \in rows : k.id = NextCursor(found, n) /\ k.at <= r.at
  <2>1. Len(found) > n
    BY <1>10 DEF NextCursor
  <2>2. n \in 1 .. Len(q) /\ n \in 1 .. Len(found) /\ m = n
    BY <1>1, <1>2, <2>1
  <2>3. NextCursor(found, n) = q[n].id /\ q[n] \in M
    BY <1>1, <1>2, <2>1, <2>2 DEF NextCursor
  <2>4. PICK j \in 1 .. n : q[j].id = r.id
    BY <1>7, <1>10, <2>2
  <2>5. j \in 1 .. Len(q) /\ j <= n
    BY <1>2, <2>2
  <2>6. q[j] = r
    BY <1>2, <1>4, <2>4, <2>5
  <2>7. q[n].at <= r.at
    <3>1. CASE j = n
      BY <1>3, <2>3, <2>6, <3>1
    <3>2. CASE j < n
      BY <1>1, <1>3, <2>2, <2>3, <2>5, <2>6, <3>2
    <3> QED
      BY <2>5, <3>1, <3>2
  <2> QED
    BY <1>2, <2>3, <2>7
<1> QED
  BY <1>8, <1>9, <1>10 DEF M

-----------------------------------------------------------------------------
(* The invariant *)

\* An empty log, and no walk yet.
LEMMA InitInv == Init => Inv
BY FS_EmptySet, PageAssumption
   DEF Init, Inv, TypeOK, WalkInv, ShownSoFar, NothingShown, LogRow

\* The log only grows: what was out of order stays so, and a new row was not there
\* when the walk began.
LEMMA LogInv ==
  ASSUME Inv, \/ Elapse
              \/ \E id \in Ids : Begin(id)
              \/ \E r \in open : End(r)
  PROVE  Inv'
<1>1. UNCHANGED walk /\ rows \subseteq rows'
  BY DEF Elapse, Begin, End
<1>2. TypeOK'
  <2>1. CASE Elapse
    BY <2>1 DEF Elapse, Inv, TypeOK
  <2>2. ASSUME NEW id \in Ids, Begin(id) PROVE TypeOK'
    <3>1. [id |-> id, at |-> now] \in LogRow
      BY DEF Inv, TypeOK, LogRow
    <3> QED
      BY <2>2, <3>1 DEF Begin, Inv, TypeOK
  <2>3. ASSUME NEW r \in open, End(r) PROVE TypeOK'
    <3>1. IsFiniteSet(rows \cup {r})
      BY FS_AddElement DEF Inv, TypeOK
    <3> QED
      BY <2>3, <3>1 DEF End, Inv, TypeOK
  <2> QED
    BY <2>1, <2>2, <2>3
<1>3. WalkInv'
  <2>1. walk'.there \subseteq {r.id : r \in rows'}
    BY <1>1 DEF Inv, WalkInv
  <2>2. ASSUME NEW r \in rows', r.id \in walk'.there PROVE r \in rows
    <3>1. PICK k \in rows : k.id = r.id
      BY <1>1, <2>2 DEF Inv, WalkInv
    <3> QED
      BY <1>1, <1>2, <3>1 DEF TypeOK
  <2>3. \A r \in rows : /\ Overtaken(r) => Overtaken(r)'
                        /\ Undercut(r) => Undercut(r)'
    BY <1>1 DEF Overtaken, Undercut
  <2>4. ShownSoFar'
    BY <1>1, <2>2, <2>3 DEF Inv, WalkInv, ShownSoFar, Ahead
  <2> QED
    BY <2>1, <2>4 DEF WalkInv
<1> QED
  BY <1>2, <1>3 DEF Inv

\* A new walk has shown nothing.
LEMMA StartInv ==
  ASSUME Inv, NEW limit \in Limits, StartWalk(limit)
  PROVE  Inv'
<1>1. {r.id : r \in rows} \subseteq Ids
  BY DEF Inv, TypeOK, LogRow
<1>2. /\ UNCHANGED <<rows, open, now>>
      /\ walk' = [limit |-> limit, cursor |-> 0, there |-> {r.id : r \in rows},
                  shown |-> [id \in Ids |-> 0], more |-> TRUE]
  BY DEF StartWalk, NothingShown
<1>3. TypeOK'
  BY <1>1, <1>2 DEF Inv, TypeOK
<1>4. WalkInv'
  <2>1. \A r \in rows : r.id \in Ids
    BY DEF Inv, TypeOK, LogRow
  <2> QED
    BY <1>2, <2>1 DEF WalkInv, ShownSoFar, Ahead
<1> QED
  BY <1>3, <1>4 DEF Inv

\* A row that a page leaves behind is overtaken by its last row, and one that a page
\* shows and does not leave behind is undercut by it.
LEMMA GetLogsInv ==
  ASSUME Inv, GetLogs
  PROVE  Inv'
<1> DEFINE n == SafeLimit(walk.limit)
<1>1. TypeOK /\ WalkInv /\ n \in Nat \ {0} /\ walk.cursor \in Ids \cup {0}
  <2>1. walk.limit \in Int /\ walk.cursor \in Ids \cup {0}
    BY ConstantsTyped DEF Inv, TypeOK
  <2>2. SafeLimit(walk.limit) \in Nat \ {0}
    BY <2>1, SafeLimitPositive
  <2> QED
    BY <2>1, <2>2 DEF Inv
<1> HIDE DEF n
<1>2. PICK found \in Results(walk.cursor, n) :
        walk' = [walk EXCEPT
          !.shown = [id \in Ids |-> IF id \in PageIds(found, n) THEN Min({2, @[id] + 1})
                                    ELSE @[id]],
          !.cursor = NextCursor(found, n),
          !.more = NextCursor(found, n) # 0]
  BY DEF GetLogs, PageIds, n
<1>3. UNCHANGED <<rows, open, now>> /\ walk.more
  BY DEF GetLogs
<1> DEFINE next == NextCursor(found, n)
<1>4. next = 0 \/ \E r \in rows : next = r.id
  BY <1>1, CursorFromPage
<1>5. next \in Ids \cup {0}
  BY <1>1, <1>4 DEF TypeOK, LogRow
<1> HIDE DEF next
<1>6. /\ walk'.cursor = next /\ walk'.more = (next # 0) /\ walk'.there = walk.there
      /\ walk'.limit = walk.limit
      /\ walk'.shown = [id \in Ids |-> IF id \in PageIds(found, n)
                                       THEN Min({2, walk.shown[id] + 1}) ELSE walk.shown[id]]
      /\ walk' \in [limit : Limits \cup {1}, cursor : Ids \cup {0}, there : SUBSET Ids,
                    shown : {walk'.shown}, more : BOOLEAN]
  BY <1>1, <1>2, <1>5 DEF TypeOK, next
<1>7. \A k \in 0 .. 2 : Min({2, k + 1}) \in 0 .. 2 /\ Min({2, 0 + 1}) = 1
  BY MinMaxOfTwo
<1>8. walk'.shown \in [Ids -> 0 .. 2]
  BY <1>1, <1>6, <1>7 DEF TypeOK
<1>9. TypeOK'
  BY <1>1, <1>3, <1>6, <1>8 DEF TypeOK
<1>10. ASSUME NEW r \in rows, r.id \in walk.there
       PROVE  /\ Ahead(r)' /\ walk'.shown[r.id] # 0 => Undercut(r)
              /\ ~Ahead(r)' /\ walk'.shown[r.id] = 0 => Overtaken(r)
              /\ walk'.shown[r.id] > 1 => Undercut(r)
  <2>1. r.id \in Ids /\ r.id \in Nat \ {0} /\ next \in Nat /\ walk.cursor \in Nat
    BY <1>1, <1>5, ConstantsTyped DEF TypeOK, LogRow
  <2>2. /\ Ahead(r) /\ walk.shown[r.id] # 0 => Undercut(r)
        /\ ~Ahead(r) /\ walk.shown[r.id] = 0 => Overtaken(r)
        /\ walk.shown[r.id] > 1 => Undercut(r)
    BY <1>1, <1>10 DEF WalkInv, ShownSoFar
  <2>3. /\ Ahead(r) <=> r \in Matching(walk.cursor)
        /\ Ahead(r)' <=> next # 0 /\ r.id < next
    BY <1>3, <1>6, <2>1 DEF Ahead, Matching
  <2>4. walk.shown[r.id] \in 0 .. 2
        /\ walk'.shown[r.id] = IF r.id \in PageIds(found, n)
                               THEN Min({2, walk.shown[r.id] + 1}) ELSE walk.shown[r.id]
    BY <1>1, <1>6, <2>1 DEF TypeOK
  <2>5. CASE ~Ahead(r)
    <3>1. r.id \notin PageIds(found, n)
      <4>1. SUFFICES ASSUME r.id \in PageIds(found, n) PROVE FALSE
        OBVIOUS
      <4>2. PICK k \in Matching(walk.cursor) : k.id = r.id
        BY <1>1, <4>1, PageCut
      <4>3. k = r
        BY <1>1, <4>2 DEF TypeOK, Matching
      <4> QED
        BY <2>3, <2>5, <4>2, <4>3
    <3>2. ~Ahead(r)'
      <4>1. walk.cursor # 0 /\ r.id >= walk.cursor
        BY <1>3, <2>1, <2>5 DEF Ahead
      <4>2. next # 0 => next < walk.cursor
        <5>1. ASSUME next # 0
              PROVE  \E k \in rows : next = k.id /\ (walk.cursor # 0 => k.id < walk.cursor)
          BY <1>1, <5>1, CursorFromPage DEF next
        <5> QED
          BY <4>1, <5>1
      <4> QED
        BY <2>1, <2>3, <4>1, <4>2
    <3> QED
      BY <2>2, <2>4, <2>5, <3>1, <3>2
  <2>6. CASE Ahead(r) /\ r.id \in PageIds(found, n)
    <3>1. walk'.shown[r.id] # 0 /\ (walk'.shown[r.id] > 1 => walk.shown[r.id] # 0)
      BY <1>7, <2>4, <2>6, MinMaxOfTwo
    <3>2. Ahead(r)' => Undercut(r)
      <4>1. ASSUME next # 0 PROVE \E k \in rows : k.id = next /\ k.at <= r.at
        BY <1>1, <2>3, <2>6, <4>1, PageCut DEF next
      <4> QED
        BY <2>3, <4>1 DEF Undercut
    <3> QED
      BY <2>2, <2>6, <3>1, <3>2
  <2>7. CASE Ahead(r) /\ r.id \notin PageIds(found, n)
    <3>1. PICK k \in rows : k.id = next /\ k.id # r.id /\ k.at >= r.at
      BY <1>1, <2>3, <2>7, PageCut DEF next
    <3>2. k.id \in Nat \ {0}
      BY <1>1, ConstantsTyped DEF TypeOK, LogRow
    <3>3. ~Ahead(r)' => Overtaken(r)
      BY <2>1, <2>3, <3>1, <3>2 DEF Overtaken
    <3> QED
      BY <2>2, <2>4, <2>7, <3>3
  <2> QED
    BY <2>5, <2>6, <2>7
<1>11. WalkInv'
  <2>1. \A r \in rows : (Overtaken(r)' <=> Overtaken(r)) /\ (Undercut(r)' <=> Undercut(r))
    BY <1>3 DEF Overtaken, Undercut
  <2>2. ShownSoFar'
    BY <1>3, <1>6, <1>10, <2>1 DEF ShownSoFar
  <2> QED
    BY <1>1, <1>3, <1>6, <2>2 DEF WalkInv
<1> QED
  BY <1>9, <1>11 DEF Inv

\* Every step preserves the invariant.
LEMMA NextInv == Inv /\ [Next]_vars => Inv'
<1> SUFFICES ASSUME Inv, [Next]_vars PROVE Inv'
  OBVIOUS
<1>1. CASE UNCHANGED vars
  BY <1>1 DEF vars, Inv, TypeOK, WalkInv, ShownSoFar, Ahead, Overtaken, Undercut
<1> QED
  BY <1>1, LogInv, StartInv, GetLogsInv DEF Next

LEMMA Invariance == Spec => []Inv
BY InitInv, NextInv, PTL DEF Spec

-----------------------------------------------------------------------------

\* OnceUnlessInverted: a walk through getLogsForAccount that has ended has skipped a
\* row that was there when it began only if some row with a lower id is not older, and
\* has shown one twice only if some row with a higher id is not newer: whatever the
\* order of the random ids, the limit, and what was appended or committed late.
THEOREM OnceUnlessInvertedHolds == Spec => []OnceUnlessInverted
<1>1. Inv => OnceUnlessInverted
  BY DEF Inv, WalkInv, ShownSoFar, Ahead, OnceUnlessInverted
<1> QED
  BY <1>1, Invariance, PTL

\* CursorDescends: getLogsForAccount never answers with a cursor that is not lower
\* than the one it was asked with, also where ids are random. A walk over finitely
\* many rows can therefore not go on for ever.
THEOREM CursorDescendsHolds == Spec => CursorDescends
<1>1. ASSUME Inv, [Next]_vars, walk.more, walk'.more, walk.cursor # 0, walk' # walk
      PROVE  walk'.cursor < walk.cursor
  <2>1. GetLogs
    BY <1>1 DEF Next, Elapse, Begin, End, StartWalk, vars
  <2> DEFINE n == SafeLimit(walk.limit)
  <2>2. TypeOK /\ n \in Nat \ {0} /\ walk.cursor \in Ids \cup {0}
    <3>1. walk.limit \in Int /\ walk.cursor \in Ids \cup {0}
      BY <1>1, ConstantsTyped DEF Inv, TypeOK
    <3>2. SafeLimit(walk.limit) \in Nat \ {0}
      BY <3>1, SafeLimitPositive
    <3> QED
      BY <1>1, <3>1, <3>2 DEF Inv
  <2> HIDE DEF n
  <2>3. PICK found \in Results(walk.cursor, n) :
          walk'.cursor = NextCursor(found, n) /\ walk'.more = (NextCursor(found, n) # 0)
    BY <2>1, <2>2 DEF GetLogs, n, TypeOK
  <2>4. NextCursor(found, n) # 0
    BY <1>1, <2>3
  <2>5. \E r \in rows : NextCursor(found, n) = r.id /\ (walk.cursor # 0 => r.id < walk.cursor)
    BY <2>2, <2>4, CursorFromPage
  <2> QED
    BY <1>1, <2>3, <2>5
<1>2. Inv /\ [Next]_vars =>
        [walk.more /\ walk'.more /\ walk.cursor # 0 /\ walk' # walk
           => walk'.cursor < walk.cursor]_vars
  BY <1>1
<1> QED
  BY <1>2, Invariance, PTL DEF Spec, CursorDescends
=============================================================================
