---------------------------- MODULE JobPagesProofs ----------------------------
(* Theorems about JobPages: for any page size, and any number of rows, finish
   times, changes and faults. *)
EXTENDS JobPages, FiniteSetTheorems, SequenceTheorems, TLAPS

-------------------------------------------------------------------------------
(* The order of a page's query. *)

LEMMA RowTyped ==
    ASSUME TypeOK, NEW i \in DOMAIN rows
    PROVE  /\ rows[i] \in Rows /\ rows[i].finish \in Int /\ rows[i].deleted \in BOOLEAN
           /\ i \in Nat
<1>1. rows \in Seq(Rows) /\ MaxFinish \in Nat
  BY BoundsAssumption DEF TypeOK
<1>2. rows[i] \in Rows /\ i \in Nat
  BY <1>1
<1>3. QED BY <1>1, <1>2 DEF Rows, Null

LEMMA ListedFinite ==
    ASSUME TypeOK
    PROVE  IsFiniteSet(Listed) /\ GetTotalJobCountForNode \in Nat
<1>1. Listed \subseteq 1..Len(rows) /\ Len(rows) \in Nat
  BY LenProperties DEF TypeOK, Listed
<1>2. IsFiniteSet(1..Len(rows))
  BY <1>1, FS_Interval
<1>3. IsFiniteSet(Listed)
  BY <1>1, <1>2, FS_Subset
<1>4. QED BY <1>3, FS_CardinalityType DEF GetTotalJobCountForNode

\* The rows before one.
Ahead(i) == {j \in Listed : Before(j, i)}

LEMMA RankTyped ==
    ASSUME TypeOK, NEW i
    PROVE  IsFiniteSet(Ahead(i)) /\ Rank(i) = Cardinality(Ahead(i)) /\ Rank(i) \in Nat
<1>1. Ahead(i) \subseteq Listed
  BY DEF Ahead
<1>2. IsFiniteSet(Ahead(i))
  BY <1>1, ListedFinite, FS_Subset
<1>3. QED BY <1>2, FS_CardinalityType DEF Rank, Ahead

LEMMA RankBelow ==
    ASSUME TypeOK, NEW i \in Listed
    PROVE  Rank(i) < GetTotalJobCountForNode
<1>1. Ahead(i) \subseteq Listed \ {i}
  BY RowTyped DEF Ahead, Before, Listed
<1>2. /\ IsFiniteSet(Listed \ {i})
      /\ Cardinality(Listed \ {i}) = GetTotalJobCountForNode - 1
  BY ListedFinite, FS_RemoveElement DEF GetTotalJobCountForNode
<1>3. Rank(i) <= GetTotalJobCountForNode - 1
  BY <1>1, <1>2, RankTyped, FS_Subset
<1>4. QED BY <1>3, RankTyped, ListedFinite

LEMMA RankOrders ==
    ASSUME TypeOK, NEW i \in Listed, NEW j \in Listed, Before(i, j)
    PROVE  Rank(i) < Rank(j)
<1>1. i \in DOMAIN rows /\ j \in DOMAIN rows /\ \A k \in Listed : k \in DOMAIN rows
  BY DEF Listed
<1>2. Ahead(i) \subseteq Ahead(j)
  BY <1>1, RowTyped DEF Ahead, Before
<1>3. i \in Ahead(j) /\ i \notin Ahead(i)
  BY <1>1, RowTyped DEF Ahead, Before
<1>4. Rank(i) <= Rank(j) /\ Rank(i) # Rank(j)
  BY <1>2, <1>3, RankTyped, FS_Subset
<1>5. QED BY <1>4, RankTyped

\* The ranks of the listed rows are 0, 1, ... without a gap.
LEMMA RankOnto ==
    ASSUME TypeOK, NEW k \in Nat, k < GetTotalJobCountForNode
    PROVE  \E i \in Listed : Rank(i) = k
<1> DEFINE n == GetTotalJobCountForNode
           rank == [i \in Listed |-> Rank(i)]
<1>1. n \in Nat /\ n = Cardinality(Listed)
  BY ListedFinite DEF GetTotalJobCountForNode
<1>2. IsFiniteSet(0..(n - 1)) /\ Cardinality(0..(n - 1)) = n
  <2>1. 0 \in Int /\ n - 1 \in Int /\ (0 > n - 1 => n = 0)
    BY <1>1
  <2> HIDE DEF n
  <2>2. QED BY <1>1, <2>1, FS_Interval
<1>3. rank \in [Listed -> 0..(n - 1)]
  <2>1. \A i \in Listed : Rank(i) \in 0..(n - 1)
    BY <1>1, RankTyped, RankBelow
  <2>2. QED BY <2>1
<1>4. ASSUME NEW i \in Listed, NEW j \in Listed, i # j PROVE rank[i] # rank[j]
  <2>1. Before(i, j) \/ Before(j, i)
    BY <1>4, RowTyped DEF Before, Listed
  <2>2. QED BY <2>1, RankTyped, RankOrders
<1>5. rank \in Injection(Listed, 0..(n - 1))
  BY <1>3, <1>4 DEF Injection, IsInjective
<1>6. rank \in Surjection(Listed, 0..(n - 1))
  BY <1>1, <1>2, <1>5, FS_Injection
<1>7. k \in 0..(n - 1)
  BY <1>1
<1>8. QED BY <1>6, <1>7 DEF Surjection

-------------------------------------------------------------------------------
(* The pages. *)

\* The offsets at which a page begins and ends.
LEMMA Offsets ==
    ASSUME NEW p \in Nat
    PROVE  /\ p * PageSize \in Nat
           /\ (p + 1) * PageSize = p * PageSize + PageSize
           /\ p # 0 => p * PageSize = (p - 1) * PageSize + PageSize /\ (p - 1) * PageSize \in Nat
BY PageSizeAssumption

LEMMA PagesCover ==
    ASSUME NEW p \in Nat, NEW count \in Nat
    PROVE  p + 1 <= PagesOf(count) <=> p * PageSize < count
<1> DEFINE q == (count + PageSize - 1) \div PageSize
           x == count + PageSize - 1
<1>1. PageSize \in Nat /\ PageSize >= 1 /\ x \in Nat
  BY PageSizeAssumption
<1>2. q \in Nat /\ q * PageSize <= x /\ x < q * PageSize + PageSize
  BY <1>1
<1> HIDE DEF q
<1>3. ASSUME NEW a \in Nat, NEW b \in Nat, a <= b PROVE a * PageSize <= b * PageSize
  BY <1>1, <1>3
<1>4. CASE p + 1 <= q
  <2>1. (p + 1) * PageSize <= q * PageSize
    BY <1>2, <1>3, <1>4
  <2>2. p * PageSize < count
    BY <1>1, <1>2, <2>1, Offsets
  <2>3. QED BY <1>4, <2>2 DEF PagesOf, q
<1>5. CASE ~(p + 1 <= q)
  <2>1. q * PageSize <= p * PageSize
    BY <1>2, <1>3, <1>5
  <2>2. ~(p * PageSize < count)
    BY <1>1, <1>2, <2>1, Offsets
  <2>3. QED BY <1>5, <2>2 DEF PagesOf, q
<1>6. QED BY <1>4, <1>5

\* The rows of a page: those between its offsets.
LEMMA PageRows ==
    ASSUME TypeOK, NEW p \in Nat \ {0}
    PROVE  PageOf(p) = {i \in Listed : (p - 1) * PageSize <= Rank(i) /\ Rank(i) < p * PageSize}
BY PageSizeAssumption, Offsets, RankTyped DEF PageOf, GetJobsForNode

\* A page that begins before the end of the list has a row.
LEMMA PageHasRow ==
    ASSUME TypeOK, NEW p \in Nat \ {0}, (p - 1) * PageSize < GetTotalJobCountForNode
    PROVE  PageOf(p) # {}
<1>1. PICK i \in Listed : Rank(i) = (p - 1) * PageSize
  BY Offsets, RankOnto
<1>2. QED BY <1>1, PageRows, Offsets, PageSizeAssumption

-------------------------------------------------------------------------------
(* A walk. *)

\* A row that must be shown has been, or has its place on a page to come.
ToCome(i) ==
    CASE walk.at = "read"  -> i \in walk.shown \/ (walk.page - 1) * PageSize <= Rank(i)
      [] walk.at = "count" -> i \in walk.shown \cup walk.got \/ walk.page * PageSize <= Rank(i)
      [] walk.at = "shown" -> i \in walk.shown \/ (walk.next # 0 /\ walk.page * PageSize <= Rank(i))
      [] OTHER -> TRUE

OnWalk ==
    /\ TypeOK
    /\ \A i \in steady : rows[i].status # "scheduled"
    /\ walk.at = "idle" => walk.next = 0
    /\ walk.at = "shown" => walk.next \in {0, walk.page + 1}
    /\ ~shrunk => \A i \in steady : ToCome(i)
    /\ ~shrunk /\ walk.next # 0 => (walk.next - 1) * PageSize < GetTotalJobCountForNode

LEMMA WalkTyped ==
    ASSUME TypeOK
    PROVE  /\ walk \in Walks /\ walk.at \in {"idle", "read", "count", "shown"}
           /\ walk.page \in Nat /\ walk.next \in Nat
           /\ walk.at # "idle" => walk.page > 0
           /\ walk.got \subseteq 1..MaxRows /\ walk.shown \subseteq 1..MaxRows
           /\ steady \subseteq Listed /\ Listed \subseteq 1..MaxRows
<1>1. rows \in Seq(Rows) /\ Len(rows) <= MaxRows /\ Len(rows) \in Nat /\ MaxRows \in Nat
  BY BoundsAssumption, LenProperties DEF TypeOK
<1>2. Listed \subseteq 1..MaxRows
  BY <1>1, LenProperties DEF Listed
<1>3. QED BY <1>2 DEF TypeOK, Walks

\* What does not change the table: the ranks are the same.
LEMMA SameTable ==
    ASSUME UNCHANGED rows
    PROVE  /\ Listed' = Listed /\ GetTotalJobCountForNode' = GetTotalJobCountForNode
           /\ \A i : Rank(i)' = Rank(i)
<1>1. Listed' = Listed
  BY DEF Listed
<1>2. QED BY <1>1 DEF GetTotalJobCountForNode, Rank, Before

LEMMA OpenKeeps == ASSUME OnWalk, OpenPages PROVE OnWalk'
<1>1. /\ walk' = [IdleWalk EXCEPT !.at = "read", !.page = 1]
      /\ steady' = Visible(Listed) /\ UNCHANGED <<rows, changes, faults>> /\ shrunk' = FALSE
      /\ TypeOK
  BY DEF OpenPages, OnWalk
<1>2. walk' \in Walks /\ walk'.at = "read" /\ walk'.page = 1 /\ walk'.next = 0
  BY <1>1 DEF IdleWalk, Walks
<1>3. TypeOK'
  <2>1. steady' \subseteq Listed'
    BY <1>1, SameTable DEF Visible
  <2>2. UNCHANGED <<rows, changes, faults>> /\ shrunk' \in BOOLEAN
    BY <1>1
  <2>3. QED BY <1>1, <1>2, <2>1, <2>2 DEF TypeOK
<1>4. \A i \in steady' : rows'[i].status # "scheduled"
  BY <1>1 DEF Visible
<1>5. \A i : ToCome(i)'
  BY <1>1, <1>2, SameTable, RankTyped, PageSizeAssumption DEF ToCome
<1>6. QED BY <1>2, <1>3, <1>4, <1>5 DEF OnWalk

LEMMA ReadKeeps == ASSUME OnWalk, ReadJobs PROVE OnWalk'
<1>1. /\ walk.at = "read" /\ UNCHANGED <<rows, changes, faults, steady, shrunk>>
      /\ walk' = [walk EXCEPT !.at = "count", !.got = Visible(PageOf(walk.page))]
      /\ TypeOK
  BY DEF ReadJobs, OnWalk
<1>2. Visible(PageOf(walk.page)) \subseteq 1..MaxRows
  BY <1>1, WalkTyped DEF Visible, PageOf, GetJobsForNode
<1>3. /\ walk' \in Walks /\ walk'.at = "count" /\ walk'.page = walk.page
      /\ walk'.next = walk.next /\ walk'.shown = walk.shown
      /\ walk'.got = Visible(PageOf(walk.page))
  BY <1>1, <1>2, WalkTyped DEF Walks
<1>4. TypeOK'
  BY <1>1, <1>3, SameTable DEF TypeOK
<1>5. ASSUME NEW i \in steady, ~shrunk PROVE ToCome(i)'
  <2>1. i \in walk.shown \/ (walk.page - 1) * PageSize <= Rank(i)
    BY <1>1, <1>5 DEF OnWalk, ToCome
  <2>2. i \in Listed /\ rows[i].status # "scheduled"
    BY <1>5 DEF OnWalk, TypeOK
  <2>3. i \in PageOf(walk.page) => i \in walk'.got
    BY <1>3, <2>2 DEF Visible
  <2>4. walk.page \in Nat \ {0} /\ walk.page * PageSize \in Nat /\ Rank(i) \in Nat
    BY <1>1, WalkTyped, RankTyped, Offsets
  <2>5. (walk.page - 1) * PageSize <= Rank(i) => \/ i \in PageOf(walk.page)
                                                 \/ walk.page * PageSize <= Rank(i)
    BY <1>1, <2>2, <2>4, PageRows
  <2>6. i \in walk.shown \/ i \in walk'.got \/ walk.page * PageSize <= Rank(i)
    BY <2>1, <2>3, <2>5
  <2>7. Rank(i)' = Rank(i)
    BY <1>1, SameTable
  <2>8. QED BY <1>3, <2>6, <2>7 DEF ToCome
<1>6. QED BY <1>1, <1>3, <1>4, <1>5, SameTable DEF OnWalk

\* Without a link to a next page, no listed row is behind this page.
LEMMA CountKeeps == ASSUME OnWalk, CountJobs PROVE OnWalk'
<1> DEFINE count == GetTotalJobCountForNode
           next == IF walk.page + 1 > PagesOf(count) THEN 0 ELSE walk.page + 1
<1>1. /\ walk.at = "count" /\ UNCHANGED <<rows, changes, faults, steady, shrunk>>
      /\ walk' = [walk EXCEPT !.at = "shown", !.shown = @ \cup walk.got, !.next = next]
      /\ TypeOK
  BY DEF CountJobs, OnWalk
<1>2. next \in {0, walk.page + 1} /\ next \in Nat /\ walk.page \in Nat \ {0} /\ count \in Nat
  BY <1>1, WalkTyped, ListedFinite
<1>3. next # 0 <=> walk.page * PageSize < count
  <2>1. PagesOf(count) \in Int
    BY <1>2, PageSizeAssumption DEF PagesOf
  <2>2. next # 0 <=> walk.page + 1 <= PagesOf(count)
    BY <1>2, <2>1
  <2>3. QED BY <1>2, <2>2, PagesCover
<1> HIDE DEF next, count
<1>4. /\ walk' \in Walks /\ walk'.at = "shown" /\ walk'.page = walk.page
      /\ walk'.next = next /\ walk'.shown = walk.shown \cup walk.got
  BY <1>1, <1>2, WalkTyped DEF Walks
<1>5. TypeOK'
  BY <1>1, <1>4, SameTable DEF TypeOK
<1>6. ASSUME NEW i \in steady, ~shrunk PROVE ToCome(i)'
  <2>1. i \in walk.shown \cup walk.got \/ walk.page * PageSize <= Rank(i)
    BY <1>1, <1>6 DEF OnWalk, ToCome
  <2>2. Rank(i) < count /\ Rank(i) \in Nat /\ walk.page * PageSize \in Nat
    BY <1>1, <1>2, <1>6, RankBelow, RankTyped, Offsets DEF TypeOK, count
  <2>3. i \in walk.shown \cup walk.got \/ (next # 0 /\ walk.page * PageSize <= Rank(i))
    BY <1>2, <1>3, <2>1, <2>2
  <2>4. Rank(i)' = Rank(i)
    BY <1>1, SameTable
  <2>5. QED BY <1>4, <2>3, <2>4 DEF ToCome
<1>7. walk'.next # 0 => (walk'.next - 1) * PageSize < GetTotalJobCountForNode'
  BY <1>1, <1>2, <1>3, <1>4, SameTable DEF count
<1>8. QED BY <1>1, <1>2, <1>4, <1>5, <1>6, <1>7 DEF OnWalk

LEMMA FollowKeeps == ASSUME OnWalk, FollowNext PROVE OnWalk'
<1>1. /\ walk.at = "shown" /\ walk.next # 0
      /\ UNCHANGED <<rows, changes, faults, steady, shrunk>>
      /\ walk' = [walk EXCEPT !.at = "read", !.page = walk.next]
      /\ TypeOK
  BY DEF FollowNext, OnWalk
<1>2. walk.next = walk.page + 1 /\ walk.page \in Nat
  BY <1>1, WalkTyped DEF OnWalk
<1>3. /\ walk' \in Walks /\ walk'.at = "read" /\ walk'.page = walk.page + 1
      /\ walk'.next = walk.next /\ walk'.shown = walk.shown
  BY <1>1, <1>2, WalkTyped DEF Walks
<1>4. TypeOK'
  BY <1>1, <1>2, <1>3, SameTable DEF TypeOK
<1>5. ASSUME NEW i \in steady, ~shrunk PROVE ToCome(i)'
  <2>1. i \in walk.shown \/ walk.page * PageSize <= Rank(i)
    BY <1>1, <1>5 DEF OnWalk, ToCome
  <2>2. Rank(i)' = Rank(i) /\ walk'.page - 1 = walk.page
    BY <1>1, <1>2, <1>3, SameTable
  <2>3. QED BY <1>3, <2>1, <2>2 DEF ToCome
<1>6. QED BY <1>1, <1>2, <1>3, <1>4, <1>5, SameTable DEF OnWalk

LEMMA EndKeeps == ASSUME OnWalk, Leave \/ PageFails PROVE OnWalk'
<1>1. /\ walk' = IdleWalk /\ steady' = {} /\ UNCHANGED <<rows, changes>>
      /\ faults' \in 0..MaxFaults /\ shrunk' = FALSE
  <2>1. faults \in 0..MaxFaults /\ MaxFaults \in Nat
    BY BoundsAssumption DEF OnWalk, TypeOK
  <2>2. QED BY <2>1 DEF Leave, PageFails
<1>2. IdleWalk \in Walks /\ IdleWalk.at = "idle" /\ IdleWalk.next = 0
  BY DEF IdleWalk, Walks
<1>3. TypeOK'
  BY <1>1, <1>2, SameTable DEF OnWalk, TypeOK
<1>4. QED BY <1>1, <1>2, <1>3 DEF OnWalk, ToCome

-------------------------------------------------------------------------------
(* The table changes under a walk. *)

LEMMA Counted ==
    ASSUME NEW n \in Nat, NEW T \in SUBSET (1..n), NEW S \in SUBSET T
    PROVE  Cardinality(S) \in Nat /\ Cardinality(T) \in Nat /\ Cardinality(S) <= Cardinality(T)
<1>1. IsFiniteSet(1..n)
  BY FS_Interval
<1>2. IsFiniteSet(T)
  BY <1>1, FS_Subset
<1>3. QED BY <1>2, FS_Subset, FS_CardinalityType

\* What a change of the table does to a walk. Unless it shrinks, the rows that
\* were ahead of a steady one are still ahead of it.
TableStep ==
    /\ TypeOK' /\ UNCHANGED walk
    /\ steady' \subseteq steady
    /\ \A i \in steady' : rows'[i].status # "scheduled"
    /\ ~shrunk' =>
        /\ ~shrunk
        /\ Listed \subseteq Listed'
        /\ \A j \in Listed : rows'[j].finish >= rows[j].finish
        /\ \A i \in steady' : rows'[i].finish = rows[i].finish

LEMMA TableKeeps == ASSUME OnWalk, TableStep PROVE OnWalk'
<1>0. TypeOK /\ TypeOK' /\ UNCHANGED walk
  BY DEF OnWalk, TableStep
<1>1. Len(rows') \in Nat /\ Listed' \subseteq 1..Len(rows')
  BY <1>0, LenProperties DEF TypeOK, Listed
<1>2. ASSUME ~shrunk'
      PROVE  /\ GetTotalJobCountForNode \in Nat /\ GetTotalJobCountForNode' \in Nat
             /\ GetTotalJobCountForNode <= GetTotalJobCountForNode'
  BY <1>1, <1>2, Counted DEF TableStep, GetTotalJobCountForNode
<1>3. ASSUME ~shrunk', NEW i \in steady'
      PROVE  Rank(i) \in Nat /\ Rank(i)' \in Nat /\ Rank(i) <= Rank(i)'
  <2>1. i \in Listed /\ rows'[i].finish = rows[i].finish
    BY <1>3 DEF TableStep, OnWalk, TypeOK
  <2>2. ASSUME NEW j \in Listed, Before(j, i) PROVE j \in Listed' /\ Before(j, i)'
    <3>1. j \in Listed' /\ rows'[j].finish >= rows[j].finish
      BY <1>3 DEF TableStep
    <3>2. rows[j].finish \in Int /\ rows[i].finish \in Int
      BY <1>0, <2>1, RowTyped DEF Listed
    <3>3. rows'[j].finish \in Int
      <4>1. rows' \in Seq(Rows) /\ j \in DOMAIN rows' /\ MaxFinish \in Nat
        BY <1>0, <3>1, BoundsAssumption DEF TypeOK, Listed
      <4>2. rows'[j] \in Rows
        BY <4>1
      <4>3. QED BY <4>1, <4>2 DEF Rows, Null
    <3>4. QED BY <2>1, <2>2, <3>1, <3>2, <3>3 DEF Before
  <2>3. Ahead(i) \subseteq Ahead(i)' /\ Ahead(i)' \subseteq 1..Len(rows')
    BY <1>1, <2>2 DEF Ahead
  <2>4. QED BY <1>1, <2>3, Counted DEF Rank, Ahead
<1>4. ASSUME ~shrunk', NEW i \in steady' PROVE ToCome(i)'
  <2>1. ToCome(i)
    BY <1>4 DEF TableStep, OnWalk
  <2>2. Rank(i) \in Nat /\ Rank(i)' \in Nat /\ Rank(i) <= Rank(i)'
    BY <1>3, <1>4
  <2>3. /\ walk.page * PageSize \in Nat
        /\ walk.at = "read" => (walk.page - 1) * PageSize \in Nat
    BY <1>0, WalkTyped, Offsets
  <2>4. QED BY <1>0, <2>1, <2>2, <2>3 DEF ToCome
<1>5. ASSUME ~shrunk', walk'.next # 0
      PROVE  (walk'.next - 1) * PageSize < GetTotalJobCountForNode'
  <2>1. (walk.next - 1) * PageSize < GetTotalJobCountForNode
    BY <1>0, <1>5 DEF TableStep, OnWalk
  <2>2. (walk.next - 1) * PageSize \in Nat
    BY <1>0, <1>5, WalkTyped, Offsets
  <2>3. QED BY <1>0, <1>2, <1>5, <2>1, <2>2
<1>6. QED BY <1>0, <1>4, <1>5 DEF OnWalk, TableStep

LEMMA InsertKeeps ==
    ASSUME OnWalk, NEW status, NEW finish, InsertJob(status, finish),
           [status |-> status, finish |-> finish, deleted |-> FALSE] \in Rows
    PROVE  OnWalk'
<1> DEFINE row == [status |-> status, finish |-> finish, deleted |-> FALSE]
<1>1. /\ rows \in Seq(Rows) /\ Len(rows) \in Nat /\ Len(rows) < MaxRows /\ rows' = Append(rows, row)
      /\ changes < MaxChanges /\ changes' = changes + 1 /\ MaxRows \in Nat /\ MaxChanges \in Nat
      /\ UNCHANGED <<walk, faults, steady, shrunk>>
      /\ TypeOK
  BY LenProperties, BoundsAssumption DEF OnWalk, TypeOK, InsertJob, May
<1>2. /\ rows' \in Seq(Rows) /\ Len(rows') = Len(rows) + 1
      /\ \A i \in 1..Len(rows) : rows'[i] = rows[i]
  BY <1>1, AppendProperties
<1>3. Listed \subseteq Listed' /\ \A i \in Listed : rows'[i] = rows[i]
  BY <1>1, <1>2, LenProperties DEF Listed
<1>4. changes' \in 0..MaxChanges /\ Len(rows') <= MaxRows
  BY <1>1, <1>2 DEF TypeOK
<1>5. TypeOK'
  BY <1>1, <1>2, <1>3, <1>4 DEF TypeOK
<1>6. \A j \in Listed : rows'[j].finish >= rows[j].finish
  BY <1>1, <1>3, RowTyped DEF Listed
<1>7. TableStep
  BY <1>1, <1>3, <1>5, <1>6 DEF TableStep, OnWalk, TypeOK
<1>8. QED BY <1>7, TableKeeps

\* A statement changes one row.
LEMMA RowSet ==
    ASSUME TypeOK, NEW i \in DOMAIN rows, NEW row \in Rows, rows' = [rows EXCEPT ![i] = row]
    PROVE  /\ rows' \in Seq(Rows) /\ Len(rows') = Len(rows) /\ DOMAIN rows' = DOMAIN rows
           /\ rows'[i] = row /\ \A j \in DOMAIN rows \ {i} : rows'[j] = rows[j]
<1>1. rows \in Seq(Rows) /\ DOMAIN rows = 1..Len(rows)
  BY LenProperties DEF TypeOK
<1>2. /\ rows' \in Seq(Rows) /\ Len(rows') = Len(rows)
      /\ \A j \in 1..Len(rows) : rows'[j] = IF j = i THEN row ELSE rows[j]
  BY <1>1, ExceptSeq
<1>3. QED BY <1>1, <1>2, LenProperties

LEMMA UpdateKeeps ==
    ASSUME OnWalk, NEW i, NEW status \in {"pending", "running", "finished"},
           NEW finish \in 0..MaxFinish, UpdateJob(i, status, finish)
    PROVE  OnWalk'
<1> DEFINE row == [[rows[i] EXCEPT !.status = status] EXCEPT !.finish = finish]
<1>1. /\ TypeOK /\ i \in Listed /\ i \in DOMAIN rows
      /\ changes < MaxChanges /\ changes' = changes + 1 /\ MaxChanges \in Nat /\ MaxFinish \in Nat
      /\ rows' = [rows EXCEPT ![i] = row] /\ UNCHANGED <<walk, faults>>
      /\ steady' = IF finish = rows[i].finish THEN steady ELSE steady \ {i}
      /\ shrunk' = (shrunk \/ finish < rows[i].finish)
  BY BoundsAssumption DEF OnWalk, TypeOK, UpdateJob, May, Listed
<1>2. /\ row \in Rows /\ row.status = status /\ row.finish = finish /\ row.deleted = rows[i].deleted
      /\ rows[i].finish \in Int
  <2>1. rows[i] \in Rows /\ rows[i].finish \in Int
    BY <1>1, RowTyped
  <2> DEFINE half == [rows[i] EXCEPT !.status = status]
  <2>2. /\ half \in Rows /\ half.status = status
        /\ half.finish = rows[i].finish /\ half.deleted = rows[i].deleted
    BY <2>1 DEF Rows
  <2>3. finish \in Null..MaxFinish /\ row = [half EXCEPT !.finish = finish]
    BY <1>1 DEF Null
  <2> HIDE DEF half, row
  <2>4. QED BY <2>1, <2>2, <2>3 DEF Rows
<1> HIDE DEF row
<1>3. /\ rows' \in Seq(Rows) /\ Len(rows') = Len(rows) /\ DOMAIN rows' = DOMAIN rows
      /\ rows'[i] = row /\ \A j \in DOMAIN rows \ {i} : rows'[j] = rows[j]
  BY <1>1, <1>2, RowSet
<1>4. Listed' = Listed
  BY <1>2, <1>3 DEF Listed
<1>5. changes' \in 0..MaxChanges /\ shrunk' \in BOOLEAN /\ steady' \subseteq steady
  BY <1>1 DEF TypeOK
<1>6. TypeOK'
  BY <1>1, <1>3, <1>4, <1>5 DEF TypeOK
<1>7. ASSUME NEW j \in steady' PROVE rows'[j].status # "scheduled"
  <2>1. j \in DOMAIN rows /\ rows[j].status # "scheduled"
    BY <1>1, <1>5, <1>7, WalkTyped DEF OnWalk, Listed
  <2>2. CASE j = i
    BY <1>2, <1>3, <2>2
  <2>3. CASE j # i
    BY <1>3, <2>1, <2>3
  <2>4. QED BY <2>2, <2>3
<1>8. ASSUME ~shrunk', NEW j \in Listed PROVE ~shrunk /\ rows'[j].finish >= rows[j].finish
  <2>1. ~shrunk /\ ~(finish < rows[i].finish)
    BY <1>1, <1>8
  <2>2. j \in DOMAIN rows /\ rows[j].finish \in Int
    BY <1>1, RowTyped DEF Listed
  <2>3. j = i \/ rows'[j] = rows[j]
    BY <1>3, <2>2
  <2>4. QED BY <1>2, <1>3, <2>1, <2>2, <2>3
<1>9. \A j \in steady' : rows'[j].finish = rows[j].finish
  BY <1>1, <1>2, <1>3, WalkTyped DEF Listed
<1>10. TableStep
  <2>1. shrunk' \/ ~shrunk
    BY <1>1
  <2>2. QED BY <1>1, <1>4, <1>5, <1>6, <1>7, <1>8, <1>9, <2>1 DEF TableStep
<1>11. QED BY <1>10, TableKeeps

LEMMA ErrorKeeps ==
    ASSUME OnWalk, NEW i, SetErrorWhereJobId(i)
    PROVE  OnWalk'
<1> DEFINE row == [rows[i] EXCEPT !.status = "error"]
<1>1. /\ TypeOK /\ i \in DOMAIN rows
      /\ changes < MaxChanges /\ changes' = changes + 1 /\ MaxChanges \in Nat
      /\ rows' = [rows EXCEPT ![i] = row] /\ UNCHANGED <<walk, faults, steady, shrunk>>
  BY BoundsAssumption DEF OnWalk, TypeOK, SetErrorWhereJobId, May
<1>2. /\ row \in Rows /\ row.status = "error" /\ row.finish = rows[i].finish
      /\ row.deleted = rows[i].deleted
  BY <1>1, RowTyped DEF Rows
<1> HIDE DEF row
<1>3. /\ rows' \in Seq(Rows) /\ Len(rows') = Len(rows) /\ DOMAIN rows' = DOMAIN rows
      /\ rows'[i] = row /\ \A j \in DOMAIN rows \ {i} : rows'[j] = rows[j]
  BY <1>1, <1>2, RowSet
<1>4. Listed' = Listed
  BY <1>2, <1>3 DEF Listed
<1>5. changes' \in 0..MaxChanges
  BY <1>1 DEF TypeOK
<1>6. TypeOK'
  BY <1>1, <1>3, <1>4, <1>5 DEF TypeOK
<1>7. \A j \in steady : rows'[j].status # "scheduled"
  BY <1>1, <1>2, <1>3, WalkTyped DEF OnWalk, Listed
<1>8. \A j \in Listed : rows'[j].finish = rows[j].finish /\ rows[j].finish \in Int
  BY <1>1, <1>2, <1>3, RowTyped DEF Listed
<1>9. TableStep
  BY <1>1, <1>4, <1>6, <1>7, <1>8, WalkTyped DEF TableStep
<1>10. QED BY <1>9, TableKeeps

LEMMA SoftDeleteKeeps ==
    ASSUME OnWalk, NEW i, SoftDeleteJob(i)
    PROVE  OnWalk'
<1> DEFINE row == [rows[i] EXCEPT !.deleted = TRUE]
<1>1. /\ TypeOK /\ i \in DOMAIN rows
      /\ changes < MaxChanges /\ changes' = changes + 1 /\ MaxChanges \in Nat
      /\ rows' = [rows EXCEPT ![i] = row] /\ UNCHANGED <<walk, faults>>
      /\ steady' = steady \ {i} /\ shrunk' = TRUE
  BY BoundsAssumption DEF OnWalk, TypeOK, SoftDeleteJob, May, Listed
<1>2. row \in Rows
  BY <1>1, RowTyped DEF Rows
<1> HIDE DEF row
<1>3. /\ rows' \in Seq(Rows) /\ Len(rows') = Len(rows) /\ DOMAIN rows' = DOMAIN rows
      /\ \A j \in DOMAIN rows \ {i} : rows'[j] = rows[j]
  BY <1>1, <1>2, RowSet
<1>4. steady' \subseteq Listed' /\ \A j \in steady' : rows'[j] = rows[j]
  BY <1>1, <1>3, WalkTyped DEF Listed
<1>5. changes' \in 0..MaxChanges
  BY <1>1 DEF TypeOK
<1>6. TypeOK'
  BY <1>1, <1>3, <1>4, <1>5 DEF TypeOK
<1>7. TableStep
  BY <1>1, <1>4, <1>6 DEF TableStep, OnWalk
<1>8. QED BY <1>7, TableKeeps

-------------------------------------------------------------------------------
LEMMA FirstTable ==
    ASSUME Init
    PROVE  rows \in Seq(Rows) /\ Len(rows) <= MaxRows
<1>1. PICK n \in 0..(MaxRows - 1) :
        rows \in [1..n -> [status : {"finished"}, finish : 1..MaxFinish, deleted : BOOLEAN]
                            \cup [status : {"running"}, finish : {Zero}, deleted : {FALSE}]]
  BY DEF Init
<1>2. n \in Nat /\ n <= MaxRows /\ MaxFinish \in Nat
  BY BoundsAssumption
<1>3. /\ [status : {"finished"}, finish : 1..MaxFinish, deleted : BOOLEAN] \subseteq Rows
      /\ [status : {"running"}, finish : {Zero}, deleted : {FALSE}] \subseteq Rows
  <2>1. 1..MaxFinish \subseteq Null..MaxFinish /\ Zero \in Null..MaxFinish
    BY <1>2 DEF Null, Zero
  <2>2. QED BY <2>1 DEF Rows
<1>4. rows \in [1..n -> Rows]
  BY <1>1, <1>3
<1>5. rows \in Seq(Rows) /\ Len(rows) = n
  BY <1>2, <1>4
<1>6. QED BY <1>2, <1>5

LEMMA WalkInductive == Spec => []OnWalk
<1>1. Init => OnWalk
  <2> SUFFICES ASSUME Init PROVE OnWalk
    OBVIOUS
  <2>1. walk = IdleWalk /\ steady = {} /\ shrunk = FALSE /\ changes = 0 /\ faults = 0
    BY DEF Init
  <2>2. IdleWalk \in Walks /\ IdleWalk.at = "idle" /\ IdleWalk.next = 0
    BY DEF IdleWalk, Walks
  <2>3. 0 \in 0..MaxChanges /\ 0 \in 0..MaxFaults
    BY BoundsAssumption
  <2>4. TypeOK
    BY <2>1, <2>2, <2>3, FirstTable DEF TypeOK
  <2>5. QED BY <2>1, <2>2, <2>4 DEF OnWalk
<1>2. OnWalk /\ [Next]_vars => OnWalk'
  <2> SUFFICES ASSUME OnWalk, [Next]_vars PROVE OnWalk'
    OBVIOUS
  <2>0. MaxFinish \in Nat
    BY BoundsAssumption
  <2>1. ASSUME NEW how \in Polled
        PROVE  /\ how[1] \in {"pending", "running", "finished"} /\ how[2] \in 0..MaxFinish
               /\ [status |-> how[1], finish |-> how[2], deleted |-> FALSE] \in Rows
    <3>1. how[1] \in {"pending", "running", "finished"} /\ how[2] \in 0..MaxFinish
      BY <2>0, <2>1 DEF Polled, Zero
    <3>2. QED BY <2>0, <3>1 DEF Rows, Null
  <2>2. CASE OpenPages \/ ReadJobs \/ CountJobs \/ FollowNext \/ Leave \/ PageFails
    BY <2>2, OpenKeeps, ReadKeeps, CountKeeps, FollowKeeps, EndKeeps
  <2>3. CASE InsertJob("scheduled", Null)
    <3>1. [status |-> "scheduled", finish |-> Null, deleted |-> FALSE] \in Rows
      BY <2>0 DEF Rows, Null
    <3>2. QED BY <2>3, <3>1, InsertKeeps
  <2>4. ASSUME NEW how \in Polled, InsertJob(how[1], how[2]) PROVE OnWalk'
    BY <2>1, <2>4, InsertKeeps
  <2>5. ASSUME NEW i \in 1..MaxRows, NEW how \in Polled, UpdateJob(i, how[1], how[2])
        PROVE  OnWalk'
    BY <2>1, <2>5, UpdateKeeps
  <2>6. ASSUME NEW i \in 1..MaxRows, SetErrorWhereJobId(i) \/ SoftDeleteJob(i) PROVE OnWalk'
    BY <2>6, ErrorKeeps, SoftDeleteKeeps
  <2>7. CASE UNCHANGED vars
    <3>1. UNCHANGED <<rows, walk, changes, faults, steady, shrunk>>
      BY <2>7 DEF vars
    <3>2. TypeOK' /\ \A i : ToCome(i)' <=> ToCome(i)
      BY <3>1, SameTable DEF OnWalk, TypeOK, ToCome
    <3>3. QED BY <3>1, <3>2, SameTable DEF OnWalk
  <2>8. QED BY <2>2, <2>3, <2>4, <2>5, <2>6, <2>7 DEF Next
<1>3. QED BY <1>1, <1>2, PTL DEF Spec

-------------------------------------------------------------------------------
(* The theorems. *)

\* The table, the walk and what it has to show are always what their
\* declarations say (handlers.go:216-290).
THEOREM TypeCorrect == Spec => []TypeOK
<1>1. OnWalk => TypeOK
  BY DEF OnWalk
<1>2. QED BY <1>1, WalkInductive, PTL

\* Whatever is inserted, updated or finished during a walk, a client who followed
\* "Next" to its end has seen every row that stayed in its place, because each
\* page reads its rows before it counts them (handlers.go:240, 249).
THEOREM WalksShowAll == Spec => []WalkShowsAll
<1>1. OnWalk => WalkShowsAll
  BY DEF OnWalk, ToCome, WalkShowsAll
<1>2. QED BY <1>1, WalkInductive, PTL

\* A page's link leads to a row, also after the rows between the count and the
\* click have changed (handlers.go:282).
THEOREM LinksHaveRows == Spec => []LinksLeadSomewhere
<1>1. OnWalk => LinksLeadSomewhere
  BY PageHasRow, WalkTyped DEF OnWalk, LinksLeadSomewhere
<1>2. QED BY <1>1, WalkInductive, PTL
===============================================================================
