--------------------------- MODULE LogStoreProofs ---------------------------
(***************************************************************************)
(* Proofs about the logs table, for every set of lines and batches, every  *)
(* list of policies, and every page size.                                  *)
(***************************************************************************)
EXTENDS LogStore, FiniteSetTheorems, TLAPS

(* Any part of the table is finite.                                        *)
LEMMA PartsAreFinite ==
    ASSUME logs \subseteq Lines, NEW S \in SUBSET logs
    PROVE  IsFiniteSet(S) /\ Cardinality(S) \in Nat
<1>1. S \in SUBSET Lines
  OBVIOUS
<1> QED
  BY <1>1, LineAssumption, FS_Subset, FS_CardinalityType

(* A policy the worker is at.                                              *)
LEMMA PolicyType ==
    ASSUME TypeOK, worker.policy # 0
    PROVE  /\ worker.policy \in DOMAIN Policies
           /\ Policy \in [scope: STRING, id: STRING, maxAgeDays: Nat, maxSizeMB: Nat]
<1> DEFINE Row == [scope: STRING, id: STRING, maxAgeDays: Nat, maxSizeMB: Nat]
<1>1. worker.policy \in 1 .. Len(Policies)
  BY PolicyAssumption DEF TypeOK
<1>2. Policies \in Seq(Row)
  BY PolicyAssumption
<1> HIDE DEF Row
<1>3. worker.policy \in DOMAIN Policies /\ Policies[worker.policy] \in Row
  BY <1>1, <1>2
<1> QED
  BY <1>3 DEF Policy, Row

(* The successor of a worker's position is a position.                     *)
LEMMA NextPolicyType ==
    ASSUME worker \in [policy: 0 .. Len(Policies), limit: {"age", "size"}]
    PROVE  /\ NextPolicy \in [policy: 0 .. Len(Policies), limit: {"age", "size"}]
           /\ NextPolicy.policy = 0 => NextPolicy = Idle
  BY PolicyAssumption DEF NextPolicy, Idle

(* What a size statement deletes.                                          *)
LEMMA SizeDeletesScoped ==
    ASSUME NEW p, NEW D \in DeleteLogsBySize(p)
    PROVE  D \subseteq logs
  BY DEF DeleteLogsBySize, Scoped
-----------------------------------------------------------------------------
(* Types.                                                                  *)

LEMMA TypesStart == Init => TypeOK
  BY LineAssumption, PolicyAssumption DEF Init, TypeOK, Idle

(* A deletion only takes lines away, and takes the reader's promise.       *)
LEMMA DeleteKeepsTypes ==
    ASSUME TypeOK, NEW gone \in SUBSET logs, Delete(gone),
           UNCHANGED <<shipping, today, lastSeq, delivered>>,
           worker' \in [policy: 0 .. Len(Policies), limit: {"age", "size"}],
           worker'.policy = 0 => worker' = Idle
    PROVE  TypeOK'
<1>1. logs' \subseteq logs /\ (gone = {} => logs' = logs)
  BY DEF Delete
<1>2. /\ reader' \in [pc: {"new", "reading", "done"}, page: Nat \ {0}, size: Sizes \cup {0},
                      got: SUBSET Lines, there: SUBSET Lines]
      /\ reader'.there \subseteq logs'
  <2>1. CASE gone = {}
    BY <1>1, <2>1 DEF Delete, TypeOK
  <2>2. CASE gone # {}
    BY <2>2 DEF Delete, TypeOK
  <2> QED
    BY <2>1, <2>2
<1> QED
  BY <1>1, <1>2 DEF TypeOK, Idle

LEMMA PageIsPart ==
    ASSUME TypeOK, NEW page, NEW size, NEW P \in Pages(Of(Watched), page, size)
    PROVE  P \subseteq Of(Watched) /\ P \subseteq Lines
  BY DEF Pages, Of, TypeOK

LEMMA TypesKept == TypeOK /\ [Next]_vars => TypeOK'
<1> SUFFICES ASSUME TypeOK, [Next]_vars
             PROVE  TypeOK'
  OBVIOUS
<1>1. ASSUME NEW b \in Batches, BatchInsertLogs(b)
      PROVE  TypeOK'
  <2>1. b \subseteq Lines /\ \A d \in shipping' : d \in Batches /\ d # b
    BY <1>1, LineAssumption DEF BatchInsertLogs, TypeOK
  <2>2. \A d \in shipping' : d \cap logs' = {}
    BY <1>1, <2>1, LineAssumption DEF BatchInsertLogs, TypeOK
  <2> QED
    BY <1>1, <2>1, <2>2 DEF BatchInsertLogs, TypeOK, Idle
<1>2. ASSUME NEW b \in Batches, BatchFails(b)
      PROVE  TypeOK'
  BY <1>2 DEF BatchFails, TypeOK, Idle
<1>3. CASE NextDay
  BY <1>3, PolicyAssumption DEF NextDay, TypeOK, Idle
<1>4. CASE RetentionTick
  BY <1>4, NextPolicyType DEF RetentionTick, TypeOK, Idle
<1>5. CASE ApplyAge
  <2>1. DeleteLogsByAge(Policy) \in SUBSET logs
    BY DEF DeleteLogsByAge
  <2>2. /\ worker' \in [policy: 0 .. Len(Policies), limit: {"age", "size"}]
        /\ worker'.policy # 0
    BY <1>5 DEF ApplyAge, TypeOK
  <2> QED
    BY <1>5, <2>1, <2>2, DeleteKeepsTypes DEF ApplyAge
<1>6. CASE ApplySize
  <2>1. CASE Policy.maxSizeMB > 0
    <3>1. PICK gone \in DeleteLogsBySize(Policy) : Delete(gone)
      BY <1>6, <2>1 DEF ApplySize
    <3>2. gone \in SUBSET logs
      BY SizeDeletesScoped
    <3> QED
      BY <1>6, <3>1, <3>2, NextPolicyType, DeleteKeepsTypes DEF ApplySize, TypeOK
  <2>2. CASE ~(Policy.maxSizeMB > 0)
    BY <1>6, <2>2, NextPolicyType DEF ApplySize, TypeOK, Idle
  <2> QED
    BY <2>1, <2>2
<1>7. CASE PolicyFails
  BY <1>7, NextPolicyType DEF PolicyFails, TypeOK, Idle
<1>8. ASSUME NEW size \in Sizes, ReadBegin(size)
      PROVE  TypeOK'
  BY <1>8 DEF ReadBegin, TypeOK, Of, Idle
<1>9. CASE ReadPage
  <2>1. PICK P \in Pages(Of(Watched), reader.page, reader.size) :
           reader' = IF P = {} THEN [reader EXCEPT !.pc = "done"]
                     ELSE [reader EXCEPT !.page = @ + 1, !.got = @ \cup P]
    BY <1>9 DEF ReadPage
  <2>2. P \subseteq Lines
    BY PageIsPart
  <2>3. /\ reader' \in [pc: {"new", "reading", "done"}, page: Nat \ {0}, size: Sizes \cup {0},
                        got: SUBSET Lines, there: SUBSET Lines]
        /\ reader'.there = reader.there
    <3>1. CASE P = {}
      BY <2>1, <3>1 DEF TypeOK
    <3>2. CASE P # {}
      <4>1. reader' = [reader EXCEPT !.page = @ + 1, !.got = @ \cup P]
        BY <2>1, <3>2
      <4>2. reader.page + 1 \in Nat \ {0} /\ reader.got \cup P \in SUBSET Lines
        BY <2>2 DEF TypeOK
      <4> QED
        BY <4>1, <4>2 DEF TypeOK
    <3> QED
      BY <3>1, <3>2
  <2> QED
    BY <1>9, <2>3 DEF ReadPage, TypeOK, Idle
<1>10. CASE Poll
  <2>1. PICK P \in Pages(Of(Watched), 1, FollowPage) :
          LET news == {l \in P : l.seq > lastSeq} IN
          /\ \E d \in SUBSET news : delivered' = delivered \cup d
          /\ \E l \in news : lastSeq' = l.seq
    BY <1>10 DEF Poll
  <2>2. P \subseteq Lines
    BY PageIsPart
  <2>3. delivered' \subseteq Lines /\ lastSeq' \in Nat
    BY <2>1, <2>2, LineAssumption DEF TypeOK
  <2> QED
    BY <1>10, <2>3 DEF Poll, TypeOK, Idle
<1>11. CASE UNCHANGED vars
  BY <1>11 DEF vars, TypeOK, Idle
<1> QED
  BY <1>1, <1>2, <1>3, <1>4, <1>5, <1>6, <1>7, <1>8, <1>9, <1>10, <1>11
  DEF Next, Ship, Retain, ReadLogs

(* The variables of the table, the worker and the readers keep their types *)
(* and no batch that is still on its way has a line in the table.          *)
THEOREM LogTypes == Spec => []TypeOK
<1> QED
  BY TypesStart, TypesKept, PTL DEF Spec
-----------------------------------------------------------------------------
(* Deletions.                                                              *)

(* The limit in lines is the one in MB, at so many bytes a line.           *)
LEMMA RoomForMaxLogs ==
    ASSUME NEW p, p.maxSizeMB \in Nat
    PROVE  MaxLogs(p) \in Nat /\ MaxLogs(p) + 1 \notin Fitting(p)
<1>1. \A a, b \in Nat : a * b \in Nat
  OBVIOUS
<1>2. ASSUME NEW a \in Nat, NEW b \in Nat \ {0}
      PROVE  a \div b \in Nat /\ (a \div b + 1) * b > a
  <2> DEFINE q == a \div b
             r == a % b
  <2>1. q \in Nat /\ r \in 0 .. b - 1 /\ a = b * q + r
    OBVIOUS
  <2> HIDE DEF q, r
  <2>2. (q + 1) * b = b * q + b
    BY <2>1
  <2>3. b * q \in Nat
    BY <1>1, <2>1
  <2> QED
    BY <2>1, <2>2, <2>3 DEF q
<1>3. BytesPerMB \in Nat /\ BytesPerLine \in Nat \ {0}
  BY PolicyAssumption
<1> DEFINE size == p.maxSizeMB * BytesPerMB
<1>4. size \in Nat
  BY <1>1, <1>3
<1> HIDE DEF size
<1>5. size \div BytesPerLine \in Nat /\ (size \div BytesPerLine + 1) * BytesPerLine > size
  BY <1>2, <1>3, <1>4
<1>6. (size \div BytesPerLine + 1) * BytesPerLine \in Nat
  <2>1. size \div BytesPerLine + 1 \in Nat
    BY <1>5
  <2> QED
    BY <1>1, <1>3, <2>1
<1>7. MaxLogs(p) = size \div BytesPerLine
  BY DEF MaxLogs, size
<1> HIDE DEF size
<1>8. MaxLogs(p) \in Nat /\ ~((MaxLogs(p) + 1) * BytesPerLine <= size)
  BY <1>4, <1>5, <1>6, <1>7
<1>9. Fitting(p) = {n \in Nat : n * BytesPerLine <= size}
  BY DEF Fitting, size
<1> QED
  BY <1>8, <1>9

(* The lines a size statement leaves are as many as the policy keeps, and  *)
(* none of them is older than one that is deleted.                         *)
LEMMA SizeKeepsNewest ==
    ASSUME logs \subseteq Lines, NEW p, p.maxSizeMB \in Nat,
           NEW D \in DeleteLogsBySize(p), D # {}
    PROVE  /\ Cardinality(Scoped(p) \ D) = MaxLogs(p)
           /\ \A d \in D, k \in Scoped(p) \ D : d.ts <= k.ts
<1> DEFINE rows == Scoped(p)
           kept == rows \ D
<1>1. D \subseteq rows /\ rows \subseteq logs
  BY DEF DeleteLogsBySize, Scoped
<1>2. /\ IsFiniteSet(rows) /\ Cardinality(rows) \in Nat
      /\ IsFiniteSet(D) /\ Cardinality(D) \in Nat
      /\ IsFiniteSet(kept) /\ Cardinality(kept) \in Nat
  BY <1>1, PartsAreFinite
<1>3. Cardinality(D) # 0
  BY <1>2, FS_EmptySet
<1>4. Cardinality(D) = Cardinality(rows) - MaxLogs(p)
  BY <1>2, <1>3 DEF DeleteLogsBySize
<1>5. Cardinality(rows) = Cardinality(kept) + Cardinality(D)
  <2>1. kept \cup D = rows /\ kept \cap D = {}
    BY <1>1
  <2>2. Cardinality(kept \cup D) = Cardinality(kept) + Cardinality(D) - Cardinality(kept \cap D)
    BY <1>2, FS_Union
  <2>3. Cardinality(kept \cap D) = 0
    BY <2>1, FS_EmptySet
  <2>4. Cardinality(kept \cup D) = Cardinality(kept) + Cardinality(D)
    BY <1>2, <2>2, <2>3
  <2> QED
    BY <2>1, <2>4
<1>6. \A d \in D, k \in kept : d.ts <= k.ts
  BY DEF DeleteLogsBySize
<1>7. MaxLogs(p) \in Nat
  BY RoomForMaxLogs
<1> QED
  BY <1>2, <1>4, <1>5, <1>6, <1>7

LEMMA DeletedIsUnwanted ==
    ASSUME TypeOK, [Next]_vars, NEW l \in logs \ logs'
    PROVE  \E n \in DOMAIN Policies : Unwanted(Policies[n], l)
<1>1. CASE ApplyAge
  <2>1. worker.policy \in DOMAIN Policies
    BY <1>1, PolicyType DEF ApplyAge
  <2>2. Old(Policies[worker.policy], l)
    BY <1>1 DEF ApplyAge, Delete, DeleteLogsByAge, Policy
  <2> QED
    BY <2>1, <2>2 DEF Unwanted
<1>2. CASE ApplySize
  <2> DEFINE p == Policies[worker.policy]
  <2>1. worker.policy \in DOMAIN Policies /\ p.maxSizeMB \in Nat
    BY <1>2, PolicyType DEF ApplySize, Policy
  <2>2. p.maxSizeMB > 0
    BY <1>2 DEF ApplySize, Policy
  <2>3. PICK D \in DeleteLogsBySize(p) : Delete(D)
    BY <1>2, <2>2 DEF ApplySize, Policy
  <2>4. l \in D /\ logs' = logs \ D
    BY <2>3 DEF Delete
  <2>5. Covers(p, l)
    BY <2>4 DEF DeleteLogsBySize, Scoped
  <2>6. /\ Cardinality(Scoped(p) \ D) = MaxLogs(p)
        /\ \A d \in D, k \in Scoped(p) \ D : d.ts <= k.ts
    BY <2>1, <2>4, SizeKeepsNewest DEF TypeOK
  <2> DEFINE newer == {k \in Scoped(p) \cap logs' : l.ts <= k.ts}
  <2>7. newer = Scoped(p) \ D
    BY <2>4, <2>6 DEF Scoped
  <2> HIDE DEF newer
  <2>8. Cardinality(newer) + 1 \notin Fitting(p)
    BY <2>1, <2>6, <2>7, RoomForMaxLogs
  <2>9. Unwanted(p, l)
    BY <2>2, <2>5, <2>8 DEF Unwanted, newer
  <2> QED
    BY <2>1, <2>9
<1>3. CASE ~ApplyAge /\ ~ApplySize
  <2>1. logs \subseteq logs'
    BY <1>3 DEF Next, vars, Ship, Retain, ReadLogs, BatchInsertLogs, BatchFails, NextDay,
                RetentionTick, PolicyFails, ReadBegin, ReadPage, Poll
  <2> QED
    BY <2>1
<1> QED
  BY <1>1, <1>2, <1>3

(* The retention worker deletes no line that some policy covering it does  *)
(* not ask for, whatever policies there are and whatever arrives meanwhile.*)
THEOREM DeletionsAreAskedFor == Spec => DeletesOnlyUnwanted
<1>1. TypeOK /\ [Next]_vars
        => [\A l \in logs \ logs' : \E n \in DOMAIN Policies : Unwanted(Policies[n], l)]_vars
  BY DeletedIsUnwanted
<1> QED
  BY <1>1, LogTypes, PTL DEF Spec, DeletesOnlyUnwanted
-----------------------------------------------------------------------------
(* Paging.                                                                 *)

LEMMA PageSizeType == ASSUME NEW size PROVE PageSize(size) \in Nat \ {0}
  BY PageAssumption DEF PageSize

(* A page holds a line with a number of its own, or ends before it.        *)
LEMMA PageReaches ==
    ASSUME logs \subseteq Lines, NEW rows \in SUBSET logs,
           NEW page \in Nat \ {0}, NEW size,
           NEW P \in Pages(rows, page, size),
           NEW l \in rows, \A m \in rows : m.seq = l.seq => m = l,
           (page - 1) * PageSize(size) <= Cardinality({m \in rows : m.seq < l.seq})
    PROVE  \/ l \in P
           \/ P # {} /\ page * PageSize(size) <= Cardinality({m \in rows : m.seq < l.seq})
<1> DEFINE n == PageSize(size)
           offset == (page - 1) * n
           smaller == {m \in rows : m.seq < l.seq}
           left == IF Cardinality(rows) > offset THEN Cardinality(rows) - offset ELSE 0
           length == IF left < n THEN left ELSE n
<1>1. n \in Nat \ {0}
  BY PageSizeType
<1>2. offset \in Nat /\ page * n = offset + n
  <2>1. page - 1 \in Nat /\ page = (page - 1) + 1
    OBVIOUS
  <2>2. \A a, b \in Nat : a * b \in Nat /\ (a + 1) * b = a * b + b
    OBVIOUS
  <2> QED
    BY <1>1, <2>1, <2>2
<1>3. /\ IsFiniteSet(rows) /\ Cardinality(rows) \in Nat
      /\ \A S \in SUBSET rows : IsFiniteSet(S) /\ Cardinality(S) \in Nat
  BY PartsAreFinite
<1>4. \A S, T \in SUBSET rows : S \subseteq T => Cardinality(S) <= Cardinality(T)
  BY <1>3, FS_Subset
<1>5. \A m \in rows : m.seq \in Nat
  BY LineAssumption
<1>6. smaller \in SUBSET rows /\ l \notin smaller
  BY <1>5
<1>7. Cardinality(smaller \cup {l}) = Cardinality(smaller) + 1
  BY <1>3, <1>6, FS_AddElement
<1>8. offset < Cardinality(rows)
  <2>1. Cardinality(smaller \cup {l}) <= Cardinality(rows)
    BY <1>4, <1>6
  <2> HIDE DEF smaller
  <2>2. Cardinality(smaller) \in Nat
    BY <1>3, <1>6
  <2>3. offset <= Cardinality(smaller)
    BY DEF smaller
  <2> HIDE DEF offset
  <2> QED
    BY <1>2, <1>3, <1>7, <2>1, <2>2, <2>3
<1>9. Cardinality(P) = length /\ P \in SUBSET rows
  BY DEF Pages
<1>10. length \in Nat /\ length > 0
  <2> HIDE DEF offset, n
  <2> QED
    BY <1>1, <1>2, <1>3, <1>8
<1>11. PICK before \in SUBSET (rows \ P) :
          /\ Cardinality(before) = offset
          /\ NotAfter(before, rows \ before)
          /\ NotAfter(P, rows \ (before \cup P))
  BY <1>10 DEF Pages
<1>12. P # {}
  <2> HIDE DEF length
  <2>1. Cardinality(P) # 0
    BY <1>9, <1>10
  <2>2. Cardinality({}) = 0
    BY FS_EmptySet
  <2> QED
    BY <2>1, <2>2
<1>13. l \notin before
  <2> SUFFICES ASSUME l \in before PROVE FALSE
    OBVIOUS
  <2>1. smaller \cup {l} \subseteq before
    BY <1>5, <1>6, <1>11 DEF NotAfter
  <2>2. Cardinality(smaller \cup {l}) <= Cardinality(before)
    BY <1>4, <2>1
  <2>3. Cardinality(smaller) \in Nat
    BY <1>3, <1>6
  <2>4. offset <= Cardinality(smaller)
    OBVIOUS
  <2> HIDE DEF smaller, offset
  <2> QED
    BY <1>2, <1>7, <1>11, <2>2, <2>3, <2>4
<1>14. ASSUME l \notin P
       PROVE  page * n <= Cardinality(smaller)
  <2>1. before \cup P \subseteq smaller
    <3>1. ASSUME NEW m \in before \cup P PROVE m.seq <= l.seq /\ m \in rows /\ m # l
      BY <1>9, <1>11, <1>13, <1>14, <3>1 DEF NotAfter
    <3> QED
      BY <1>5, <3>1
  <2>2. Cardinality(before \cup P) <= Cardinality(smaller)
    BY <1>4, <1>6, <2>1
  <2>3. Cardinality(before \cup P) = offset + length
    <3>1. before \cap P = {} /\ IsFiniteSet(before) /\ IsFiniteSet(P)
      BY <1>3, <1>9, <1>11
    <3>2. Cardinality(before \cup P) = Cardinality(before) + Cardinality(P) - Cardinality(before \cap P)
      BY <3>1, FS_Union
    <3>3. Cardinality(before \cap P) = 0
      BY <3>1, FS_EmptySet
    <3> HIDE DEF offset, length
    <3> QED
      BY <1>2, <1>9, <1>10, <1>11, <3>2, <3>3
  <2>4. Cardinality(smaller) \in Nat /\ Cardinality(smaller) < Cardinality(rows)
    <3>1. Cardinality(smaller) \in Nat
      BY <1>3, <1>6
    <3>2. Cardinality(smaller \cup {l}) <= Cardinality(rows)
      BY <1>4, <1>6
    <3> HIDE DEF smaller
    <3> QED
      BY <1>3, <1>7, <3>1, <3>2
  <2> HIDE DEF smaller, offset, n
  <2> QED
    BY <1>1, <1>2, <1>3, <1>8, <2>2, <2>3, <2>4
<1> QED
  BY <1>12, <1>14

LEMMA ReadStarts == Init => ReadInv
  BY DEF Init, ReadInv

(* More lines: no line gets a number of its own by it, and none before it  *)
(* goes away.                                                              *)
LEMMA ReadSurvivesInserts ==
    ASSUME TypeOK, ReadInv, logs \subseteq logs', logs' \subseteq Lines, UNCHANGED reader
    PROVE  ReadInv'
<1>1. reader.there \subseteq Of(Watched)'
  BY DEF ReadInv, Of
<1>2. ASSUME NEW l \in reader.there, OwnNumber(l)'
      PROVE  OwnNumber(l)
  BY <1>2 DEF OwnNumber, Of
<1>3. ASSUME NEW l \in reader.there, (reader.page - 1) * PageSize(reader.size) <= Cardinality(Smaller(l))
      PROVE  (reader.page - 1) * PageSize(reader.size) <= Cardinality(Smaller(l)')
  <2>1. Smaller(l) \subseteq Smaller(l)'
    BY DEF Smaller, Of
  <2>2. IsFiniteSet(Smaller(l)') /\ Cardinality(Smaller(l)') \in Nat
    <3>1. Smaller(l)' \in SUBSET Lines
      BY DEF Smaller, Of
    <3> QED
      BY <3>1, LineAssumption, FS_Subset, FS_CardinalityType
  <2>3. Cardinality(Smaller(l)) <= Cardinality(Smaller(l)') /\ Cardinality(Smaller(l)) \in Nat
    BY <2>1, <2>2, FS_Subset, FS_CardinalityType
  <2>4. (reader.page - 1) * PageSize(reader.size) \in Nat
    <3>1. reader.page - 1 \in Nat /\ PageSize(reader.size) \in Nat
      BY PageSizeType DEF TypeOK
    <3>2. \A a, b \in Nat : a * b \in Nat
      OBVIOUS
    <3> QED
      BY <3>1, <3>2
  <2> QED
    BY <1>3, <2>2, <2>3, <2>4
<1> QED
  BY <1>1, <1>2, <1>3 DEF ReadInv

LEMMA ReadSurvivesDeletes ==
    ASSUME TypeOK, ReadInv, NEW gone \in SUBSET logs, Delete(gone)
    PROVE  ReadInv'
<1>1. CASE gone = {}
  <2>1. logs' = logs /\ reader' = reader
    BY <1>1 DEF Delete
  <2> QED
    BY <2>1 DEF ReadInv, Of, OwnNumber, Smaller
<1>2. CASE gone # {}
  <2>1. reader'.there = {} /\ reader'.page = reader.page /\ reader'.pc = reader.pc
    BY <1>2 DEF Delete, TypeOK
  <2> QED
    BY <2>1 DEF ReadInv
<1> QED
  BY <1>1, <1>2

LEMMA ReadPageKeeps ==
    ASSUME TypeOK, ReadInv, ReadPage
    PROVE  ReadInv'
<1>1. PICK P \in Pages(Of(Watched), reader.page, reader.size) :
         reader' = IF P = {} THEN [reader EXCEPT !.pc = "done"]
                   ELSE [reader EXCEPT !.page = @ + 1, !.got = @ \cup P]
  BY DEF ReadPage
<1>2. reader.pc = "reading" /\ logs' = logs /\ logs \subseteq Lines
  BY DEF ReadPage, TypeOK
<1>3. reader'.there = reader.there /\ reader'.size = reader.size /\ reader'.pc # "new"
  BY <1>1, <1>2 DEF TypeOK
<1>4. ASSUME NEW l \in reader.there, OwnNumber(l), l \notin reader.got
      PROVE  \/ l \in P
             \/ P # {} /\ reader.page * PageSize(reader.size) <= Cardinality(Smaller(l))
  <2>1. l \in Of(Watched) /\ Of(Watched) \in SUBSET logs /\ reader.page \in Nat \ {0}
    BY DEF ReadInv, TypeOK, Of
  <2>2. \A m \in Of(Watched) : m.seq = l.seq => m = l
    BY <1>4, <2>1 DEF OwnNumber, Of
  <2>3. (reader.page - 1) * PageSize(reader.size) <= Cardinality({m \in Of(Watched) : m.seq < l.seq})
    BY <1>4 DEF ReadInv, Smaller
  <2> QED
    BY <1>2, <2>1, <2>2, <2>3, PageReaches DEF Smaller
<1>5. CASE P = {}
  <2>1. reader'.got = reader.got
    BY <1>1, <1>5 DEF TypeOK
  <2> QED
    BY <1>2, <1>3, <1>4, <1>5, <2>1 DEF ReadInv, Of, OwnNumber
<1>6. CASE P # {}
  <2>1. /\ reader'.got = reader.got \cup P /\ reader'.page = reader.page + 1
        /\ reader'.pc = "reading" /\ reader'.page - 1 = reader.page
    BY <1>1, <1>2, <1>6 DEF TypeOK
  <2> QED
    BY <1>2, <1>3, <1>4, <2>1 DEF ReadInv, Of, OwnNumber, Smaller
<1> QED
  BY <1>5, <1>6

LEMMA ReadKept == TypeOK /\ TypeOK' /\ ReadInv /\ [Next]_vars => ReadInv'
<1> SUFFICES ASSUME TypeOK, TypeOK', ReadInv, [Next]_vars
             PROVE  ReadInv'
  OBVIOUS
<1>1. CASE (\E b \in Batches : BatchInsertLogs(b))
  BY <1>1, ReadSurvivesInserts DEF BatchInsertLogs, TypeOK
<1>2. CASE ApplyAge
  BY <1>2, ReadSurvivesDeletes DEF ApplyAge, DeleteLogsByAge
<1>3. CASE ApplySize
  <2>1. CASE Policy.maxSizeMB > 0
    BY <1>3, <2>1, SizeDeletesScoped, ReadSurvivesDeletes DEF ApplySize
  <2>2. CASE ~(Policy.maxSizeMB > 0)
    BY <1>3, <2>2, ReadSurvivesInserts DEF ApplySize, TypeOK
  <2> QED
    BY <2>1, <2>2
<1>4. ASSUME NEW size \in Sizes, ReadBegin(size)
      PROVE  ReadInv'
  <2>1. /\ reader.pc = "new" /\ logs' = logs
        /\ reader'.pc = "reading" /\ reader'.there = Of(Watched) /\ reader'.page = 1
    BY <1>4 DEF ReadBegin, TypeOK, ReadInv
  <2>2. \A l : Cardinality(Smaller(l)) \in Nat
    BY PartsAreFinite DEF Smaller, Of, TypeOK
  <2>3. (reader'.page - 1) * PageSize(reader'.size) = 0
    <3>1. PageSize(reader'.size) \in Nat
      BY PageSizeType
    <3> QED
      BY <2>1, <3>1
  <2> QED
    BY <2>1, <2>2, <2>3 DEF ReadInv, Of, Smaller
<1>5. CASE ReadPage
  BY <1>5, ReadPageKeeps
<1>6. CASE UNCHANGED <<logs, reader>>
  BY <1>6, ReadSurvivesInserts DEF TypeOK
<1>7. \/ \E b \in Batches : BatchInsertLogs(b)
      \/ ApplyAge \/ ApplySize
      \/ \E size \in Sizes : ReadBegin(size)
      \/ ReadPage
      \/ UNCHANGED <<logs, reader>>
  BY DEF Next, vars, Ship, Retain, ReadLogs, BatchFails, NextDay, RetentionTick, PolicyFails, Poll
<1> QED
  BY <1>1, <1>2, <1>3, <1>4, <1>5, <1>6, <1>7

(* A reader has passed over as many rows as there are before any line it   *)
(* has not got.                                                            *)
THEOREM ReadInvariance == Spec => []ReadInv
<1> QED
  BY LogTypes, ReadStarts, ReadKept, PTL DEF Spec

(* Reading page after page misses no line with a number of its own that was*)
(* there at the beginning, as long as nothing is deleted, for every page   *)
(* size and whatever is inserted between two pages.                        *)
THEOREM PagesMissNothing == Spec => []PagedReadMissesNothing
<1>1. ReadInv => PagedReadMissesNothing
  BY DEF ReadInv, PagedReadMissesNothing
<1> QED
  BY <1>1, ReadInvariance, PTL
=============================================================================
