------------------------- MODULE ProjectSyncProofs -------------------------
(***************************************************************************)
(* Theorems about ProjectSync, for every value of its constants.           *)
(*                                                                         *)
(* A page holds the issues whose ranks in the list are the next PageSize,  *)
(* and the ranks of a list are 0, 1, 2, ... without a gap; so a page that  *)
(* comes back empty is the end of the list.  The log only grows, and a     *)
(* change that was in the list when a run began can only be ranked later   *)
(* as long as nothing is deleted: it cannot slip onto a page that the run  *)
(* has read already.                                                       *)
(***************************************************************************)
EXTENDS ProjectSync, FiniteSetTheorems, SequenceTheorems, TLAPS

-----------------------------------------------------------------------------
(***************************************************************************)
(* The list of changed issues and its pages                                *)
(***************************************************************************)
LogOK == log \in Seq(Change)

\* The first rank on page n.
From(n) == (n - 1) * PageSize

\* What is on page n.
OnPage(since, n) ==
    {c \in List(since) : /\ Rank(List(since), c) >= From(n)
                         /\ Rank(List(since), c) < From(n) + PageSize}

\* A log has positions, and they hold changes.
LEMMA LogTypes ==
  ASSUME LogOK
  PROVE  /\ Now \in Nat /\ DOMAIN log = 1..Now
         /\ \A c \in DOMAIN log : log[c] \in Change
         /\ \A c \in DOMAIN log : log[c].issue \in Nat
<1>1. Now \in Nat /\ DOMAIN log = 1..Now
  BY DEF LogOK, Now
<1>2. \A c \in DOMAIN log : log[c] \in Change
  BY DEF LogOK
<1>3. Numbers \subseteq Nat
  BY ConstantsAssumption DEF Numbers
<1>4. \A c \in DOMAIN log : log[c].issue \in Numbers
  BY <1>2 DEF Change
<1> QED
  BY <1>1, <1>2, <1>3, <1>4

\* The list is finite, and no issue is in it twice.
LEMMA ListFacts ==
  ASSUME LogOK, NEW since
  PROVE  /\ IsFiniteSet(List(since)) /\ List(since) \subseteq DOMAIN log
         /\ \A c, d \in List(since) : log[c].issue = log[d].issue => c = d
<1>1. List(since) \subseteq DOMAIN log
  BY DEF List
<1>2. IsFiniteSet(DOMAIN log)
  BY LogTypes, FS_Interval
<1>3. IsFiniteSet(List(since))
  BY <1>1, <1>2, FS_Subset
<1>4. ASSUME NEW c \in List(since), NEW d \in List(since), log[c].issue = log[d].issue
      PROVE  c = d
  <2>1. c \in Nat /\ d \in Nat
    BY <1>1, LogTypes
  <2>2. ~(c > d) /\ ~(d > c)
    BY <1>1, <1>4 DEF List, IsLatest
  <2> QED
    BY <2>1, <2>2
<1> QED
  BY <1>1, <1>3, <1>4

\* Those listed before c.
Before(list, c) == {d \in list : log[d].issue > log[c].issue}

\* A rank is a number below the length of the list.
LEMMA RankType ==
  ASSUME LogOK, NEW since, NEW c \in List(since)
  PROVE  /\ Rank(List(since), c) \in Nat
         /\ Rank(List(since), c) < Cardinality(List(since))
         /\ Cardinality(List(since)) \in Nat
         /\ IsFiniteSet(Before(List(since), c))
<1> DEFINE list == List(since)
           first == Before(list, c)
<1>1. IsFiniteSet(list) /\ list \subseteq DOMAIN log
  BY ListFacts
<1>2. log[c].issue \in Nat
  BY <1>1, LogTypes
<1>3. c \notin first /\ first \subseteq list
  BY <1>2 DEF Before
<1> HIDE DEF list, first
<1>4. IsFiniteSet(first) /\ Cardinality(first) <= Cardinality(list)
      /\ (Cardinality(first) = Cardinality(list) => first = list)
  BY <1>1, <1>3, FS_Subset
<1>5. Cardinality(first) \in Nat /\ Cardinality(list) \in Nat
  BY <1>1, <1>4, FS_CardinalityType
<1>6. first # list
  BY <1>3 DEF list
<1>7. Cardinality(first) < Cardinality(list)
  BY <1>4, <1>5, <1>6
<1>8. Rank(list, c) = Cardinality(first)
  BY DEF Rank, first, Before
<1> QED
  BY <1>4, <1>5, <1>7, <1>8 DEF list, first

\* Two issues of the list do not have the same rank.
LEMMA RankInjective ==
  ASSUME LogOK, NEW since, NEW c \in List(since), NEW d \in List(since),
         Rank(List(since), c) = Rank(List(since), d)
  PROVE  c = d
<1> DEFINE list == List(since)
<1>1. log[c].issue \in Nat /\ log[d].issue \in Nat
  BY ListFacts, LogTypes
<1>2. ASSUME NEW x \in list, NEW y \in list, log[x].issue > log[y].issue
      PROVE  Rank(list, x) # Rank(list, y)
  <2>1. \A e \in list : log[e].issue \in Nat
    BY ListFacts, LogTypes
  <2>2. Before(list, x) \subseteq Before(list, y)
    BY <1>2, <2>1 DEF Before
  <2>3. x \in Before(list, y) /\ x \notin Before(list, x)
    BY <1>2, <2>1 DEF Before
  <2>4. IsFiniteSet(Before(list, y))
    BY RankType
  <2>5. Cardinality(Before(list, y)) # Cardinality(Before(list, x))
    BY <2>2, <2>3, <2>4, FS_Subset
  <2> QED
    BY <2>5 DEF Rank, Before
<1>3. log[c].issue = log[d].issue
  BY <1>1, <1>2
<1> QED
  BY <1>3, ListFacts

\* The ranks of a list leave no number out.
LEMMA RanksHaveNoGap ==
  ASSUME LogOK, NEW since, NEW r \in Nat, r < Cardinality(List(since))
  PROVE  \E c \in List(since) : Rank(List(since), c) = r
<1> DEFINE list == List(since)
           n == Cardinality(list)
           f == [c \in list |-> Rank(list, c)]
<1>1. IsFiniteSet(list)
  BY ListFacts
<1>2. n \in Nat
  BY <1>1, FS_CardinalityType
<1>3. \A c \in list : Rank(list, c) \in 0..(n - 1)
  BY <1>2, RankType
<1>4. f \in Injection(list, 0..(n - 1))
  BY <1>3, RankInjective DEF Injection, IsInjective
<1>5. IsFiniteSet(0..(n - 1)) /\ Cardinality(0..(n - 1)) = n
  <2> HIDE DEF n
  <2>1. n - 1 \in Int /\ 0 \in Int
    BY <1>2
  <2>2. /\ IsFiniteSet(0..(n - 1))
        /\ Cardinality(0..(n - 1)) = IF 0 > n - 1 THEN 0 ELSE (n - 1) - 0 + 1
    BY <2>1, FS_Interval
  <2>3. (IF 0 > n - 1 THEN 0 ELSE (n - 1) - 0 + 1) = n
    BY <1>2
  <2> QED
    BY <2>2, <2>3
<1>6. f \in Surjection(list, 0..(n - 1))
  <2> HIDE DEF f, list
  <2> QED
    BY <1>4, <1>5, FS_Injection
<1>7. r \in 0..(n - 1)
  BY <1>2
<1> QED
  BY <1>6, <1>7 DEF Surjection

\* Pages follow each other, each with PageSize ranks.
LEMMA FromFacts ==
  ASSUME NEW n \in Nat \ {0}
  PROVE  From(n) \in Nat /\ From(n + 1) = From(n) + PageSize /\ From(1) = 0
<1>1. PageSize \in Nat
  BY ConstantsAssumption
<1>2. (n - 1) * PageSize \in Nat
  <2>1. PICK m \in Nat : m = n - 1
    OBVIOUS
  <2>2. m * PageSize \in Nat
    BY <1>1
  <2> QED
    BY <2>1, <2>2
<1>3. n * PageSize = (n - 1) * PageSize + PageSize
  BY <1>1
<1>4. n + 1 - 1 = n /\ (1 - 1) * PageSize = 0
  BY <1>1
<1> QED
  BY <1>2, <1>3, <1>4 DEF From

\* There are as many issues on a page as ranks that are taken, from its first one on.
LEMMA PageRanks ==
  ASSUME LogOK, NEW since, NEW n \in Nat \ {0}
  PROVE  LET P == OnPage(since, n)
             K == Cardinality(P)
         IN  /\ IsFiniteSet(P) /\ K \in Nat /\ P \subseteq List(since)
             /\ \A k \in 1..K : \E c \in P : Rank(List(since), c) = From(n) + k - 1
             /\ \A c \in P : Rank(List(since), c) - From(n) + 1 \in 1..K
<1> DEFINE list == List(since)
           P == OnPage(since, n)
           K == Cardinality(P)
           N == Cardinality(list)
           rank == [c \in P |-> Rank(list, c)]
<1> PICK from \in Nat : from = From(n)
  BY FromFacts
<1>1. IsFiniteSet(list) /\ N \in Nat
  BY ListFacts, FS_CardinalityType
<1>2. P \subseteq list
  BY DEF OnPage
<1>3. IsFiniteSet(P) /\ K \in Nat
  <2> HIDE DEF P, list
  <2> QED
    BY <1>1, <1>2, FS_Subset, FS_CardinalityType
<1>4. PageSize \in Nat
  BY ConstantsAssumption
<1>5. \A c \in list : Rank(list, c) \in 0..(N - 1)
  BY <1>1, RankType
<1>6. \A c, d \in P : rank[c] = rank[d] => c = d
  BY <1>2, RankInjective
<1>7. \A c \in P : rank[c] \in from..(from + PageSize - 1) /\ rank[c] \in from..(N - 1)
  BY <1>1, <1>2, <1>4, <1>5 DEF OnPage
<1>8. \A r \in from..(N - 1) : r < from + PageSize => \E c \in P : rank[c] = r
  <2> TAKE r \in from..(N - 1)
  <2> HAVE r < from + PageSize
  <2>1. r \in Nat /\ r < N
    BY <1>1
  <2>2. PICK c \in list : Rank(list, c) = r
    BY <2>1, RanksHaveNoGap
  <2>3. c \in P
    BY <2>2 DEF OnPage
  <2> QED
    BY <2>2, <2>3
<1>9. \A c \in P : rank[c] = Rank(list, c)
  OBVIOUS
<1> HIDE DEF P, list, rank
<1>10. DOMAIN rank = P /\ rank = [c \in P |-> rank[c]]
  BY DEF rank
<1>11. K <= PageSize
  <2> PICK last \in Int : last = from + PageSize - 1
    BY <1>4
  <2>1. rank \in Injection(P, from..last)
    BY <1>6, <1>7, <1>10 DEF Injection, IsInjective
  <2>2. from \in Int
    OBVIOUS
  <2>3. IsFiniteSet(from..last)
    BY <2>2, FS_Interval
  <2>4. Cardinality(from..last) = IF from > last THEN 0 ELSE last - from + 1
    BY <2>2, FS_Interval
  <2>5. K <= Cardinality(from..last)
    BY <2>1, <2>3, FS_Injection
  <2> QED
    BY <2>4, <2>5, <1>3, <1>4
<1>12. \A k \in 1..K : from + k - 1 <= N - 1
  <2>1. rank \in Injection(P, from..(N - 1))
    BY <1>6, <1>7, <1>10 DEF Injection, IsInjective
  <2>2. from \in Int /\ N - 1 \in Int
    BY <1>1
  <2>3. IsFiniteSet(from..(N - 1))
    BY <2>2, FS_Interval
  <2>4. Cardinality(from..(N - 1)) = IF from > N - 1 THEN 0 ELSE N - 1 - from + 1
    BY <2>2, FS_Interval
  <2>5. K <= Cardinality(from..(N - 1))
    BY <2>1, <2>3, FS_Injection
  <2> QED
    BY <2>4, <2>5, <1>1, <1>3
<1>13. ASSUME NEW k \in 1..K
       PROVE  \E c \in P : Rank(list, c) = from + k - 1
  <2>1. from + k - 1 \in from..(N - 1) /\ from + k - 1 < from + PageSize
    BY <1>1, <1>3, <1>4, <1>11, <1>12
  <2>2. PICK r \in from..(N - 1) : r = from + k - 1 /\ r < from + PageSize
    BY <2>1
  <2> QED
    BY <2>2, <1>8, <1>9
<1>14. ASSUME NEW c \in P
       PROVE  Rank(list, c) - from + 1 \in 1..K
  <2> PICK top \in from..(N - 1) : top = rank[c] /\ top < from + PageSize
    BY <1>4, <1>7
  <2> DEFINE at == [r \in from..top |-> CHOOSE d \in P : rank[d] = r]
  <2>1. \A r \in from..top : \E d \in P : rank[d] = r
    BY <1>1, <1>4, <1>8
  <2>2. \A r \in from..top : at[r] \in P /\ rank[at[r]] = r
    BY <2>1
  <2>3. at \in Injection(from..top, P)
    <3>1. DOMAIN at = from..top /\ at = [r \in from..top |-> at[r]]
      OBVIOUS
    <3> HIDE DEF at
    <3>2. at \in [from..top -> P]
      BY <2>2, <3>1
    <3>3. IsInjective(at)
      BY <2>2, <3>1 DEF IsInjective
    <3> QED
      BY <3>2, <3>3 DEF Injection
  <2>4. Cardinality(from..top) <= K
    BY <1>3, <2>3, FS_Injection
  <2>5. from \in Int /\ top \in Int
    OBVIOUS
  <2>6. Cardinality(from..top) = IF from > top THEN 0 ELSE top - from + 1
    BY <2>5, FS_Interval
  <2>7. top - from + 1 \in 1..K
    BY <1>3, <2>4, <2>6
  <2> QED
    BY <1>9, <2>7
<1>15. /\ \A k \in 1..K : \E c \in P : Rank(list, c) = From(n) + k - 1
       /\ \A c \in P : Rank(list, c) - From(n) + 1 \in 1..K
  BY <1>13, <1>14
<1> QED
  BY <1>2, <1>3, <1>15 DEF P, list

\* A page shows what is on it; the list is over when there is nothing.
LEMMA PageFacts ==
  ASSUME LogOK, NEW since, NEW n \in Nat \ {0}
  PROVE  /\ Page(since, n) \in Seq(OnPage(since, n))
         /\ \A c \in OnPage(since, n) :
               \E k \in DOMAIN Page(since, n) : Page(since, n)[k] = c
         /\ Page(since, n) = <<>> =>
               \A c \in List(since) : Rank(List(since), c) < From(n)
<1> DEFINE list == List(since)
           P == OnPage(since, n)
           K == Cardinality(P)
<1> PICK from \in Nat : from = From(n)
  BY FromFacts
<1>1. /\ IsFiniteSet(P) /\ K \in Nat /\ P \subseteq list
      /\ \A k \in 1..K : \E c \in P : Rank(list, c) = from + k - 1
      /\ \A c \in P : Rank(list, c) - from + 1 \in 1..K
  BY PageRanks
<1>2. Page(since, n) =
        [k \in 1..K |-> CHOOSE c \in P : Rank(list, c) = from + k - 1]
  <2> DEFINE first == (n - 1) * PageSize
             Q == {c \in list : /\ Rank(list, c) >= first
                                /\ Rank(list, c) < first + PageSize}
             Show(S, m) == [k \in 1..Cardinality(S) |->
                              CHOOSE c \in S : Rank(list, c) = m + k - 1]
  <2>1. Q = P
    BY DEF OnPage, From
  <2>2. from = first
    BY DEF From
  <2>3. Page(since, n) = Show(Q, first)
    BY DEF Page
  <2>4. Page(since, n) = Show(P, from)
    <3> HIDE DEF Q, P, first, Show, list
    <3> QED
      BY <2>1, <2>2, <2>3
  <2> QED
    BY <2>4
<1>3. \A c \in list : Rank(list, c) \in Nat /\ Rank(list, c) < Cardinality(list)
                      /\ Cardinality(list) \in Nat
  BY RankType
<1>4. \A c, d \in list : Rank(list, c) = Rank(list, d) => c = d
  BY RankInjective
<1>5. ASSUME NEW c \in list, Rank(list, c) >= from
      PROVE  P # {}
  <2>1. from < Cardinality(list)
    BY <1>3, <1>5
  <2>2. PICK d \in list : Rank(list, d) = from
    BY <2>1, RanksHaveNoGap
  <2>3. from < from + PageSize
    BY ConstantsAssumption
  <2>4. d \in P
    BY <2>2, <2>3 DEF OnPage
  <2> QED
    BY <2>4
<1> HIDE DEF P, list
<1> DEFINE page == Page(since, n)
<1>6. DOMAIN page = 1..K /\ \A k \in 1..K : page[k] \in P /\ Rank(list, page[k]) = from + k - 1
  BY <1>1, <1>2
<1>7. page \in Seq(P)
  <2>1. page = [k \in 1..K |-> page[k]]
    BY <1>2
  <2> HIDE DEF page, K
  <2>2. page \in [1..K -> P]
    BY <1>6, <2>1
  <2> QED
    BY <1>1, <2>2, SeqDef
<1>8. ASSUME NEW c \in P PROVE \E k \in DOMAIN page : page[k] = c
  <2>1. PICK k \in 1..K : k = Rank(list, c) - from + 1
    BY <1>1
  <2>2. Rank(list, c) \in Nat /\ Rank(list, page[k]) = from + k - 1
    BY <1>1, <1>3, <1>6
  <2>3. Rank(list, page[k]) = Rank(list, c)
    BY <2>1, <2>2
  <2>4. page[k] = c
    BY <1>1, <1>4, <1>6, <2>3
  <2> QED
    BY <1>6, <2>4
<1>9. ASSUME page = <<>>, NEW c \in list
      PROVE  Rank(list, c) < from
  <2>1. P = {}
    BY <1>8, <1>9
  <2> QED
    BY <1>3, <1>5, <1>9, <2>1
<1> QED
  BY <1>7, <1>8, <1>9 DEF P, list

-----------------------------------------------------------------------------
(***************************************************************************)
(* The invariant.  A process relies on what it read: the changes it has in *)
(* hand are in the log, and the row it is about to write was made from     *)
(* their issue.  Rows are never taken away, nor is their origin changed.   *)
(***************************************************************************)
\* What process p can rely on.
LocalOK(p) ==
    /\ job[p].pc \in OnItem => job[p].todo # <<>>
    /\ \A k \in DOMAIN job[p].todo : job[p].todo[k] \in DOMAIN log
    /\ job[p].pc \in {"map", "update"} =>
          job[p].elder \in DOMAIN issues /\ issues[job[p].elder].of = Issue(p)
    /\ job[p].since <= Now /\ job[p].began <= Now
    /\ p \in Batches /\ job[p].pc # "idle" => job[p].page >= 1
    /\ p \in Hooks => job[p].pc \in {"idle", "update"}

LocalsOK == \A p \in Processes : LocalOK(p)

\* The watermark is no later than now, and only moves on under the runs of its
\* configuration; no process works for one that is not there yet.
WatermarkOK ==
    /\ config.id >= 1 /\ config.since <= Now
    /\ ~config.live => ~config.creates /\ config.since = 0
    /\ \A p \in Processes :
          /\ job[p].config <= config.id
          /\ config.live /\ job[p].config = config.id => job[p].since <= config.since

MappingsOK ==
    \A m \in mappings : m.elder \in DOMAIN issues /\ issues[m.elder].of = m.external

\* NoMixups, and every row shows something that happened.
RowsOK ==
    \A k \in DOMAIN issues :
        issues[k].content \in DOMAIN log /\ log[issues[k].content].issue = issues[k].of

IInv ==
    /\ TypeOK /\ Now <= MaxChanges
    /\ WatermarkOK /\ MappingsOK /\ RowsOK /\ LocalsOK

OthersWait(p) == \A q \in Processes \ {p} : job'[q] = job[q]

\* Nothing that happened is changed.
LogGrows ==
    DOMAIN log \subseteq DOMAIN log' /\ \A c \in DOMAIN log : log'[c] = log[c]

\* No row is lost or made over to another issue.
RowsStay ==
    DOMAIN issues \subseteq DOMAIN issues' /\ \A k \in DOMAIN issues : issues'[k].of = issues[k].of

-----------------------------------------------------------------------------
(***************************************************************************)
(* Bookkeeping                                                             *)
(***************************************************************************)
\* Which facts about types the invariant gives.
LEMMA Types ==
  ASSUME IInv
  PROVE  /\ LogOK /\ Now \in Nat /\ DOMAIN log = 1..Now /\ DOMAIN log \subseteq Instants
         /\ \A c \in DOMAIN log : log[c].issue \in Numbers
         /\ Len(issues) \in Nat /\ DOMAIN issues = 1..Len(issues)
         /\ \A k \in DOMAIN issues : issues[k] \in IssueRow
<1>1. LogOK
  BY DEF IInv, TypeOK, LogOK
<1>2. Now \in Nat /\ DOMAIN log = 1..Now /\ \A c \in DOMAIN log : log[c] \in Change
  BY <1>1, LogTypes
<1>3. DOMAIN log \subseteq Instants
  BY <1>2, ConstantsAssumption DEF IInv, Instants
<1>4. \A c \in DOMAIN log : log[c].issue \in Numbers
  BY <1>2 DEF Change
<1>5. issues \in Seq(IssueRow)
  BY DEF IInv, TypeOK
<1> QED
  BY <1>1, <1>2, <1>3, <1>4, <1>5

\* The types of a process's locals.
LEMMA JobTypes ==
  ASSUME TypeOK, NEW p \in Processes
  PROVE  /\ job[p] \in Job /\ job[p].pc \in Places /\ job[p].since \in Nat
         /\ job[p].began \in Nat /\ job[p].page \in Nat /\ job[p].todo \in Seq(Instants)
         /\ job[p].elder \in Nat /\ job[p].partial \in BOOLEAN /\ job[p].config \in Nat
<1>1. job[p] \in Job
  BY DEF TypeOK
<1> QED
  BY <1>1 DEF Job

\* An idle process has the type of a process.
LEMMA IdleType == Idle \in Job
<1>1. <<>> \in Seq(Instants)
  OBVIOUS
<1> QED
  BY <1>1 DEF Idle, Job, Places

\* New locals go to one process, and the others stay where they are.
LEMMA JobEffect ==
  ASSUME TypeOK, NEW p \in Processes, NEW j \in Job, job' = [job EXCEPT ![p] = j]
  PROVE  job' \in [Processes -> Job] /\ job'[p] = j /\ OthersWait(p)
  BY DEF TypeOK, OthersWait

\* What a process relies on survives the steps of others.
LEMMA StillOK ==
  ASSUME IInv, LogGrows, RowsStay, Now' >= Now, Now' \in Nat,
         NEW q \in Processes, KeepsPlace(q)
  PROVE  LocalOK(q)'
<1>1. LocalOK(q) /\ Now \in Nat
  BY Types DEF IInv, LocalsOK
<1>2. job[q].since \in Nat /\ job[q].began \in Nat /\ job[q].todo \in Seq(Instants)
  BY JobTypes DEF IInv
<1>3. job[q].pc \in OnItem => Content(q) \in DOMAIN log
  <2>1. job[q].todo # <<>> => 1 \in DOMAIN job[q].todo /\ Head(job[q].todo) = job[q].todo[1]
    BY <1>2
  <2> QED
    BY <1>1, <2>1 DEF LocalOK, Content
<1>4. job[q].pc \in OnItem => Issue(q)' = Issue(q)
  BY <1>3 DEF Issue, Content, LogGrows, KeepsPlace
<1>5. job[q].since <= Now' /\ job[q].began <= Now'
  BY <1>1, <1>2 DEF LocalOK
<1>6. job'[q].since <= Now' /\ job'[q].began <= Now'
  BY <1>5 DEF KeepsPlace
<1>7. job'[q].pc \in {"map", "update"} =>
          job'[q].elder \in DOMAIN issues' /\ issues'[job'[q].elder].of = Issue(q)'
  BY <1>1, <1>4 DEF LocalOK, RowsStay, OnItem, KeepsPlace
<1>8. \A k \in DOMAIN job'[q].todo : job'[q].todo[k] \in DOMAIN log'
  BY <1>1 DEF LocalOK, LogGrows, KeepsPlace
<1> QED
  BY <1>1, <1>6, <1>7, <1>8 DEF LocalOK, KeepsPlace

\* What a process has in hand is in the log.
LEMMA InHand ==
  ASSUME IInv, NEW p \in Processes, job[p].pc \in OnItem
  PROVE  /\ job[p].todo # <<>> /\ Content(p) \in DOMAIN log /\ Content(p) \in Instants
         /\ Issue(p) \in Numbers /\ Content(p) = job[p].todo[1]
         /\ Len(job[p].todo) \in Nat /\ Len(job[p].todo) >= 1
         /\ DOMAIN job[p].todo = 1..Len(job[p].todo)
<1>1. job[p].todo \in Seq(Instants) /\ job[p].todo # <<>>
  BY JobTypes DEF IInv, LocalsOK, LocalOK
<1>2. /\ Len(job[p].todo) \in Nat /\ DOMAIN job[p].todo = 1..Len(job[p].todo)
      /\ Len(job[p].todo) >= 1 /\ Head(job[p].todo) = job[p].todo[1]
  BY <1>1
<1>3. Content(p) = job[p].todo[1] /\ 1 \in DOMAIN job[p].todo
  BY <1>2 DEF Content
<1>4. Content(p) \in DOMAIN log
  BY <1>3 DEF IInv, LocalsOK, LocalOK
<1> QED
  BY <1>1, <1>2, <1>3, <1>4, Types DEF Issue

\* What is left to show of a step of one process.
LEMMA ProcessStep ==
  ASSUME IInv, NEW p \in Processes, UNCHANGED log, RowsStay, OthersWait(p),
         TypeOK', LocalOK(p)', WatermarkOK', MappingsOK', RowsOK'
  PROVE  IInv'
<1>1. LogGrows /\ Now' = Now /\ Now \in Nat
  BY Types DEF LogGrows, Now
<1>2. Now' >= Now
  BY <1>1
<1>3. \A q \in Processes \ {p} : LocalOK(q)'
  BY <1>1, <1>2, StillOK DEF OthersWait, KeepsPlace
<1>4. LocalsOK'
  BY <1>3 DEF LocalsOK
<1> QED
  BY <1>1, <1>4 DEF IInv

\* Process p works on from the watermark it has, or from none, or from the one that
\* there is.
KeepsSince(p) ==
    \/ job'[p].since = job[p].since /\ job'[p].config = job[p].config
    \/ job'[p].since \in {0, config.since} /\ job'[p].config <= config.id

\* The watermark stays good when a process does.
LEMMA WatermarkKept ==
  ASSUME IInv, NEW p \in Processes, UNCHANGED <<log, config>>, OthersWait(p), KeepsSince(p)
  PROVE  WatermarkOK'
<1>1. Now' = Now /\ config.since \in Nat /\ config.id \in Nat
  BY DEF Now, IInv, TypeOK, Config
<1>2. /\ job'[p].config <= config.id
      /\ config.live /\ job'[p].config = config.id => job'[p].since <= config.since
  BY <1>1 DEF IInv, WatermarkOK, KeepsSince
<1>3. \A q \in Processes :
         /\ job'[q].config <= config.id
         /\ config.live /\ job'[q].config = config.id => job'[q].since <= config.since
  BY <1>2 DEF IInv, WatermarkOK, OthersWait
<1> QED
  BY <1>1, <1>3 DEF IInv, WatermarkOK

\* Rows and mappings that stay as they are stay good.
LEMMA TablesKept ==
  ASSUME IInv, UNCHANGED <<log, issues, mappings>>
  PROVE  RowsStay /\ MappingsOK' /\ RowsOK'
  BY DEF IInv, RowsStay, MappingsOK, RowsOK

\* A process that has nothing in hand, is idle or goes idle, relies on nothing.
LEMMA IdleLocalOK ==
  ASSUME NEW p \in Processes, Now' \in Nat, job'[p] = Idle
  PROVE  LocalOK(p)'
  BY DEF LocalOK, Idle, OnItem

\* After an item comes the rest of its page, or the next page.
LEMMA RestEffect ==
  ASSUME IInv, NEW p \in Processes, job[p].pc \in OnItem, Rest(p), UNCHANGED log, RowsStay
  PROVE  /\ job' \in [Processes -> Job] /\ OthersWait(p) /\ LocalOK(p)'
         /\ KeepsSince(p)
         /\ \/ p \in Hooks /\ job'[p] = Idle
            \/ /\ p \in Batches
               /\ job'[p].todo = Tail(job[p].todo)
               /\ job'[p].since = job[p].since /\ job'[p].began = job[p].began
               /\ job'[p].partial = job[p].partial /\ job'[p].config = job[p].config
               /\ Tail(job[p].todo) = <<>> =>
                     job'[p].pc = "fetch" /\ job'[p].page = job[p].page + 1
               /\ Tail(job[p].todo) # <<>> =>
                     job'[p].pc = "lookup" /\ job'[p].page = job[p].page
<1>1. CASE p \in Hooks
  <2>1. job' = [job EXCEPT ![p] = Idle]
    BY <1>1 DEF Rest
  <2>2. job' \in [Processes -> Job] /\ job'[p] = Idle /\ OthersWait(p)
    BY <2>1, JobEffect, IdleType DEF IInv
  <2>3. job'[p].since = 0 /\ job'[p].config = 0 /\ Now' \in Nat
    BY <2>2, Types DEF Idle, Now
  <2>4. KeepsSince(p)
    BY <2>3 DEF KeepsSince, IInv, TypeOK, Config
  <2> QED
    BY <1>1, <2>2, <2>3, <2>4, IdleLocalOK
<1>2. CASE p \notin Hooks
  <2> DEFINE todo == Tail(job[p].todo)
             j == [job[p] EXCEPT !.todo = todo, !.elder = 0,
                                 !.pc = IF todo = <<>> THEN "fetch" ELSE "lookup",
                                 !.page = IF todo = <<>> THEN job[p].page + 1
                                          ELSE job[p].page]
  <2>1. job' = [job EXCEPT ![p] = j]
    BY <1>2 DEF Rest
  <2>2. /\ job[p].todo \in Seq(Instants) /\ job[p].todo # <<>> /\ job[p].page \in Nat
        /\ job[p] \in Job
    BY InHand, JobTypes DEF IInv
  <2>3. todo \in Seq(Instants)
    BY <2>2
  <2>4. \A k \in DOMAIN todo : k + 1 \in DOMAIN job[p].todo /\ todo[k] = job[p].todo[k + 1]
    BY <2>2
  <2>5. \A k \in DOMAIN todo : todo[k] \in DOMAIN log
    BY <2>4 DEF IInv, LocalsOK, LocalOK
  <2> HIDE DEF todo
  <2>6. j \in Job
    <3> DEFINE place == IF todo = <<>> THEN "fetch" ELSE "lookup"
               page == IF todo = <<>> THEN job[p].page + 1 ELSE job[p].page
    <3>1. place \in Places /\ page \in Nat
      BY <2>2 DEF Places
    <3> HIDE DEF place, page
    <3>2. [job[p] EXCEPT !.todo = todo, !.elder = 0, !.pc = place, !.page = page] \in Job
      BY <2>2, <2>3, <3>1 DEF Job
    <3> QED
      BY <3>2 DEF place, page
  <2>7. /\ j.todo = todo /\ j.since = job[p].since /\ j.began = job[p].began
        /\ j.partial = job[p].partial /\ j.config = job[p].config
        /\ todo = <<>> => j.pc = "fetch" /\ j.page = job[p].page + 1
        /\ todo # <<>> => j.pc = "lookup" /\ j.page = job[p].page
    BY <2>2 DEF Job
  <2> HIDE DEF j
  <2>8. job' \in [Processes -> Job] /\ job'[p] = j /\ OthersWait(p)
    BY <2>1, <2>6, JobEffect DEF IInv
  <2>9. p \in Batches
    BY <1>2 DEF Processes
  <2>10. LocalOK(p)
    BY DEF IInv, LocalsOK
  <2>11. job[p].page >= 1
    BY <2>9, <2>10 DEF LocalOK, OnItem
  <2>12. j.page >= 1
    BY <2>2, <2>7, <2>11
  <2>13. Now' = Now
    BY DEF Now
  <2>14. LocalOK(p)'
    <3>1. j.pc \in {"fetch", "lookup"} /\ (j.pc = "lookup" => j.todo # <<>>)
      BY <2>7
    <3>2. \A k \in DOMAIN j.todo : j.todo[k] \in DOMAIN log
      BY <2>5, <2>7
    <3>3. j.since <= Now /\ j.began <= Now
      BY <2>7, <2>10 DEF LocalOK
    <3> QED
      BY <1>2, <2>8, <2>12, <2>13, <3>1, <3>2, <3>3 DEF LocalOK, OnItem
  <2>15. KeepsSince(p)
    BY <2>7, <2>8 DEF KeepsSince
  <2> QED
    BY <2>7, <2>8, <2>9, <2>14, <2>15 DEF todo
<1> QED
  BY <1>1, <1>2

\* What a run leaves undone when it goes on to its end.
LEMMA AbandonEffect ==
  ASSUME IInv, NEW b \in Batches, UNCHANGED log, job[b].pc # "idle",
         job' = [job EXCEPT ![b] = [job[b] EXCEPT !.pc = "finish", !.partial = TRUE]]
  PROVE  /\ job' \in [Processes -> Job] /\ OthersWait(b) /\ LocalOK(b)'
         /\ job'[b].since = job[b].since /\ job'[b].config = job[b].config
         /\ job'[b].pc = "finish" /\ job'[b].partial
<1> DEFINE j == [job[b] EXCEPT !.pc = "finish", !.partial = TRUE]
<1>1. b \in Processes /\ b \notin Hooks
  BY ConstantsAssumption DEF Processes
<1>2. job[b] \in Job
  BY <1>1, JobTypes DEF IInv
<1>3. j \in Job
  BY <1>2 DEF Job, Places
<1>4. /\ j.pc = "finish" /\ j.partial /\ j.since = job[b].since /\ j.began = job[b].began
      /\ j.todo = job[b].todo /\ j.page = job[b].page /\ j.config = job[b].config
  BY <1>2 DEF Job
<1> HIDE DEF j
<1>5. job' \in [Processes -> Job] /\ job'[b] = j /\ OthersWait(b)
  <2>1. job' = [job EXCEPT ![b] = j]
    BY DEF j
  <2> QED
    BY <1>1, <1>3, <2>1, JobEffect DEF IInv
<1>6. Now' = Now
  BY DEF Now
<1>7. LocalOK(b)
  BY <1>1 DEF IInv, LocalsOK
<1>8. LocalOK(b)'
  BY <1>1, <1>4, <1>5, <1>6, <1>7 DEF LocalOK, OnItem
<1> QED
  BY <1>4, <1>5, <1>8

-----------------------------------------------------------------------------
(***************************************************************************)
(* The steps of batches and webhooks                                       *)
(***************************************************************************)
\* What is left to show of a step that only moves a process.
LEMMA MoveStep ==
  ASSUME IInv, NEW p \in Processes, UNCHANGED <<log, tables, missed>>, OthersWait(p),
         KeepsSince(p), job' \in [Processes -> Job], handled' \subseteq Instants, faults' \in Nat,
         LocalOK(p)'
  PROVE  IInv'
<1>1. UNCHANGED <<log, config, issues, mappings>>
  BY DEF tables
<1>2. TypeOK'
  BY <1>1 DEF IInv, TypeOK, tables
<1>3. WatermarkOK'
  BY <1>1, WatermarkKept
<1>4. RowsStay /\ MappingsOK' /\ RowsOK'
  BY <1>1, TablesKept
<1> QED
  BY <1>2, <1>3, <1>4, ProcessStep

\* A batch that begins.
LEMMA BatchBeginStep ==
  ASSUME IInv, NEW b \in Batches, BatchBegin(b)
  PROVE  /\ IInv' /\ OthersWait(b) /\ job'[b].pc = "fetch" /\ job'[b].page = 1
         /\ UNCHANGED <<log, tables, history>>
<1>1. b \in Processes /\ b \notin Hooks
  BY ConstantsAssumption DEF Processes
<1>2. Now \in Nat /\ config.since \in Nat /\ config.id \in Nat /\ config.since <= Now
  BY Types DEF IInv, TypeOK, Config, WatermarkOK
<1>3. PICK id \in 1..config.id :
         job' = [job EXCEPT ![b] =
            [Idle EXCEPT !.pc = "fetch", !.config = id, !.page = 1, !.began = Now,
                         !.since = IF id = config.id THEN config.since ELSE 0]]
  BY DEF BatchBegin
<1>4. PICK s \in {0, config.since} : s = IF id = config.id THEN config.since ELSE 0
  OBVIOUS
<1> DEFINE j == [Idle EXCEPT !.pc = "fetch", !.config = id, !.page = 1, !.began = Now,
                             !.since = s]
<1>5. id \in Nat /\ id <= config.id /\ s \in Nat /\ s <= Now
  BY <1>2
<1>6. j \in Job
  BY <1>2, <1>5, IdleType DEF Job, Places
<1>7. /\ j.pc = "fetch" /\ j.page = 1 /\ j.began = Now /\ j.since = s /\ j.config = id
      /\ j.todo = <<>>
  BY DEF Idle
<1>8. job' = [job EXCEPT ![b] = j]
  BY <1>3, <1>4
<1>9. UNCHANGED <<log, tables, history, faults>>
  BY DEF BatchBegin, At
<1> HIDE DEF j
<1>10. job' \in [Processes -> Job] /\ job'[b] = j /\ OthersWait(b)
  BY <1>1, <1>6, <1>8, JobEffect DEF IInv
<1>11. Now' = Now /\ Now <= Now
  BY <1>2, <1>9 DEF Now
<1>12. LocalOK(b)'
  BY <1>1, <1>5, <1>7, <1>10, <1>11 DEF LocalOK, OnItem
<1>13. handled' \subseteq Instants /\ faults' \in Nat /\ UNCHANGED <<log, tables, missed>>
  BY <1>9 DEF IInv, TypeOK, history
<1>14. KeepsSince(b)
  BY <1>5, <1>7, <1>10 DEF KeepsSince
<1>15. IInv'
  BY <1>1, <1>10, <1>12, <1>13, <1>14, MoveStep
<1> QED
  BY <1>7, <1>9, <1>10, <1>15

\* A batch that gets a page.
LEMMA FetchStep ==
  ASSUME IInv, NEW b \in Batches, Fetch(b)
  PROVE  /\ IInv' /\ OthersWait(b) /\ UNCHANGED <<log, tables, history>>
         /\ job'[b].since = job[b].since /\ job'[b].began = job[b].began
         /\ job'[b].partial = job[b].partial /\ job'[b].page = job[b].page
         /\ job'[b].config = job[b].config
         /\ job'[b].todo = Page(job[b].since, job[b].page)
         /\ job'[b].todo = <<>> => job'[b].pc = "finish"
         /\ job'[b].todo # <<>> => job'[b].pc = "lookup"
<1> DEFINE page == Page(job[b].since, job[b].page)
           place == IF page = <<>> THEN "finish" ELSE "lookup"
           j == [job[b] EXCEPT !.todo = page, !.pc = place]
<1>1. b \in Processes /\ b \notin Hooks
  BY ConstantsAssumption DEF Processes
<1>2. LogOK /\ DOMAIN log \subseteq Instants /\ LocalOK(b) /\ job[b].pc = "fetch"
  BY <1>1, Types DEF IInv, LocalsOK, Fetch, At
<1>3. job[b] \in Job /\ job[b].page \in Nat \ {0}
  BY <1>1, <1>2, JobTypes DEF IInv, LocalOK
<1>4. page \in Seq(OnPage(job[b].since, job[b].page))
  BY <1>2, <1>3, PageFacts
<1>5. OnPage(job[b].since, job[b].page) \subseteq DOMAIN log
  BY <1>2, ListFacts DEF OnPage
<1>6. job' = [job EXCEPT ![b] = j] /\ UNCHANGED <<log, tables, history, faults>>
  BY DEF Fetch, At
<1> HIDE DEF page
<1>7. page \in Seq(Instants) /\ \A k \in DOMAIN page : page[k] \in DOMAIN log
  <2>1. /\ Len(page) \in Nat /\ DOMAIN page = 1..Len(page)
        /\ page \in [1..Len(page) -> OnPage(job[b].since, job[b].page)]
    BY <1>4
  <2>2. \A k \in 1..Len(page) : page[k] \in DOMAIN log
    BY <1>5, <2>1
  <2>3. page \in [1..Len(page) -> Instants]
    BY <1>2, <2>1, <2>2
  <2> QED
    BY <2>1, <2>2, <2>3, SeqDef
<1>8. place \in Places
  BY DEF Places
<1>9. place \notin {"idle", "map", "update"} /\ (place \in OnItem => page # <<>>)
      /\ (page = <<>> => place = "finish") /\ (page # <<>> => place = "lookup")
  BY DEF OnItem
<1> HIDE DEF place
<1>10. j \in Job
  BY <1>3, <1>7, <1>8 DEF Job
<1>11. /\ j.todo = page /\ j.pc = place /\ j.page = job[b].page
       /\ j.since = job[b].since /\ j.began = job[b].began /\ j.partial = job[b].partial
       /\ j.config = job[b].config
  BY <1>3 DEF Job
<1> HIDE DEF j
<1>12. job' \in [Processes -> Job] /\ job'[b] = j /\ OthersWait(b)
  BY <1>1, <1>6, <1>10, JobEffect DEF IInv
<1>13. Now' = Now
  BY <1>6 DEF Now
<1>14. LocalOK(b)'
  BY <1>1, <1>2, <1>6, <1>7, <1>9, <1>11, <1>12, <1>13 DEF LocalOK
<1>15. handled' \subseteq Instants /\ faults' \in Nat /\ UNCHANGED <<log, tables, missed>>
  BY <1>6 DEF IInv, TypeOK, history
<1>16. KeepsSince(b)
  BY <1>11, <1>12 DEF KeepsSince
<1>17. IInv'
  BY <1>1, <1>12, <1>14, <1>15, <1>16, MoveStep
<1> QED
  BY <1>6, <1>9, <1>11, <1>12, <1>17 DEF page

\* Process p keeps the run and the page it is on.
SameRun(p) ==
    /\ job'[p].since = job[p].since /\ job'[p].began = job[p].began
    /\ job'[p].partial = job[p].partial /\ job'[p].page = job[p].page
    /\ job'[p].todo = job[p].todo /\ job'[p].config = job[p].config

\* A process that goes to another place within an item.
LEMMA StayEffect ==
  ASSUME IInv, NEW b \in Batches, job[b].pc \in OnItem,
         NEW place \in OnItem, NEW e \in Nat,
         job' = [job EXCEPT ![b] = [job[b] EXCEPT !.pc = place, !.elder = e]],
         UNCHANGED log,
         place \in {"map", "update"} =>
            e \in DOMAIN issues' /\ issues'[e].of = Issue(b)
  PROVE  /\ job' \in [Processes -> Job] /\ OthersWait(b) /\ LocalOK(b)' /\ SameRun(b)
         /\ job'[b].pc = place /\ Issue(b)' = Issue(b) /\ job'[b].elder = e
<1> DEFINE j == [job[b] EXCEPT !.pc = place, !.elder = e]
<1>1. b \in Processes /\ b \notin Hooks
  BY ConstantsAssumption DEF Processes
<1>2. job[b] \in Job /\ LocalOK(b)
  BY <1>1, JobTypes DEF IInv, LocalsOK
<1>3. j \in Job
  BY <1>2 DEF Job, Places, OnItem
<1>4. /\ j.todo = job[b].todo /\ j.pc = place /\ j.page = job[b].page /\ j.elder = e
      /\ j.since = job[b].since /\ j.began = job[b].began /\ j.partial = job[b].partial
      /\ j.config = job[b].config
  BY <1>2 DEF Job
<1>5. job' = [job EXCEPT ![b] = j]
  OBVIOUS
<1> HIDE DEF j
<1>6. job' \in [Processes -> Job] /\ job'[b] = j /\ OthersWait(b)
  BY <1>1, <1>3, <1>5, JobEffect DEF IInv
<1>7. Now' = Now /\ Issue(b)' = Issue(b)
  BY <1>4, <1>6 DEF Now, Issue, Content
<1>8. job[b].pc # "idle" /\ place # "idle"
  BY DEF OnItem
<1>9. LocalOK(b)'
  BY <1>1, <1>2, <1>4, <1>6, <1>7, <1>8 DEF LocalOK
<1> QED
  BY <1>4, <1>6, <1>7, <1>9 DEF SameRun

\* A batch that looks for the mapping of the issue in hand.
LEMMA LookupStep ==
  ASSUME IInv, NEW b \in Batches, Lookup(b)
  PROVE  /\ IInv' /\ OthersWait(b) /\ UNCHANGED <<log, tables, history>> /\ SameRun(b)
         /\ job'[b].pc \in {"create", "update"} /\ Issue(b)' = Issue(b)
         /\ job'[b].pc = "create" => Found(b) = {}
<1>1. b \in Processes
  BY DEF Processes
<1>2. job[b].pc = "lookup" /\ job[b].pc \in OnItem /\ job[b] \in Job /\ job[b].elder \in Nat
  BY <1>1, JobTypes DEF IInv, Lookup, At, OnItem
<1>3. UNCHANGED <<log, tables, history, faults>>
  BY DEF Lookup, At
<1>4. /\ OthersWait(b) /\ SameRun(b) /\ job' \in [Processes -> Job] /\ LocalOK(b)'
      /\ job'[b].pc \in {"create", "update"} /\ Issue(b)' = Issue(b)
      /\ job'[b].pc = "create" => Found(b) = {}
  <2>1. CASE Found(b) = {} /\ Goto(b, "create")
    <3>1. job' = [job EXCEPT ![b] = [job[b] EXCEPT !.pc = "create", !.elder = job[b].elder]]
      <4>1. [job[b] EXCEPT !.pc = "create", !.elder = job[b].elder]
              = [job[b] EXCEPT !.pc = "create"]
        BY <1>2 DEF Job
      <4> QED
        BY <2>1, <4>1 DEF Goto
    <3>2. "create" \in OnItem
      BY DEF OnItem
    <3> QED
      BY <1>2, <1>3, <2>1, <3>1, <3>2, StayEffect
  <2>2. ASSUME NEW m \in Found(b),
               job' = [job EXCEPT ![b] = [job[b] EXCEPT !.pc = "update",
                                                        !.elder = m.elder]]
        PROVE  /\ OthersWait(b) /\ SameRun(b) /\ job' \in [Processes -> Job]
               /\ LocalOK(b)' /\ job'[b].pc = "update" /\ Issue(b)' = Issue(b)
    <3>1. m \in mappings /\ m.external = Issue(b)
      BY DEF Found, MappingsOf
    <3>2. m.elder \in DOMAIN issues /\ issues[m.elder].of = Issue(b)
      BY <3>1 DEF IInv, MappingsOK
    <3>3. m.elder \in Nat
      BY <3>1 DEF IInv, TypeOK, Mapping
    <3>4. "update" \in OnItem /\ issues' = issues
      BY <1>3 DEF OnItem, tables
    <3> QED
      BY <1>2, <1>3, <2>2, <3>2, <3>3, <3>4, StayEffect
  <2> QED
    BY <2>1, <2>2 DEF Lookup
<1>5. handled' \subseteq Instants /\ faults' \in Nat /\ UNCHANGED <<log, tables, missed>>
  BY <1>3 DEF IInv, TypeOK, history
<1>6. KeepsSince(b)
  BY <1>4 DEF SameRun, KeepsSince
<1>7. IInv'
  BY <1>1, <1>4, <1>5, <1>6, MoveStep
<1> QED
  BY <1>3, <1>4, <1>7

\* A row is appended: the others stay, and mappings that were good are good.
LEMMA AppendRow ==
  ASSUME IInv, NEW row \in IssueRow, issues' = Append(issues, row),
         row.content \in DOMAIN log, log[row.content].issue = row.of,
         UNCHANGED <<log, mappings>>
  PROVE  /\ issues' \in Seq(IssueRow) /\ RowsStay /\ MappingsOK' /\ RowsOK'
         /\ DOMAIN issues' = DOMAIN issues \union {Len(issues) + 1}
         /\ Len(issues) + 1 \in Nat /\ Len(issues) + 1 \notin DOMAIN issues
         /\ issues'[Len(issues) + 1] = row
         /\ \A k \in DOMAIN issues : issues'[k] = issues[k]
<1>1. issues \in Seq(IssueRow)
  BY DEF IInv, TypeOK
<1>2. /\ Len(issues) \in Nat /\ DOMAIN issues = 1..Len(issues)
      /\ issues' \in Seq(IssueRow) /\ Len(issues') = Len(issues) + 1
      /\ \A k \in 1..Len(issues) : issues'[k] = issues[k]
      /\ issues'[Len(issues) + 1] = row
  BY <1>1
<1>3. DOMAIN issues' = 1..(Len(issues) + 1)
  BY <1>2
<1>4. DOMAIN issues' = DOMAIN issues \union {Len(issues) + 1}
      /\ Len(issues) + 1 \notin DOMAIN issues
  BY <1>2, <1>3
<1>5. \A k \in DOMAIN issues : issues'[k] = issues[k]
  BY <1>2
<1>6. RowsStay
  BY <1>4, <1>5 DEF RowsStay
<1>7. MappingsOK'
  BY <1>6 DEF IInv, MappingsOK, RowsStay
<1>8. RowsOK'
  BY <1>2, <1>4, <1>5 DEF IInv, RowsOK
<1> QED
  BY <1>2, <1>4, <1>5, <1>6, <1>7, <1>8

\* The item in hand has been dealt with, and the run goes on with the next one.
ItemDone(p) == Deal(p) /\ Rest(p)

\* The batch makes an issue for what it has in hand.
Made(b) ==
    /\ Mine(b) /\ config.creates /\ SameRun(b) /\ job'[b].pc = "map" /\ Issue(b)' = Issue(b)
    /\ issues' = Append(issues, [of |-> Issue(b), content |-> Content(b)])
    /\ handled' = handled

\* A batch that creates an issue, or passes over it.
LEMMA CreateStep ==
  ASSUME IInv, NEW b \in Batches, Create(b)
  PROVE  /\ IInv' /\ OthersWait(b) /\ UNCHANGED <<log, config, mappings, missed, faults>>
         /\ RowsStay
         /\ Made(b) \/ (ItemDone(b) /\ issues' = issues)
<1>1. b \in Processes
  BY DEF Processes
<1>2. job[b].pc = "create" /\ job[b].pc \in OnItem
  BY DEF Create, At, OnItem
<1>3. UNCHANGED <<log, config, mappings, missed, faults>>
  BY DEF Create, At
<1>4. Content(b) \in DOMAIN log /\ Content(b) \in Instants /\ Issue(b) \in Numbers
  BY <1>1, <1>2, InHand
<1>5. CASE /\ Mine(b) /\ config.creates
           /\ issues' = Append(issues, [of |-> Issue(b), content |-> Content(b)])
           /\ job' = [job EXCEPT ![b] = [job[b] EXCEPT !.pc = "map",
                                                       !.elder = Len(issues) + 1]]
           /\ handled' = handled
  <2> DEFINE row == [of |-> Issue(b), content |-> Content(b)]
  <2>1. row \in IssueRow /\ row.content \in DOMAIN log /\ log[row.content].issue = row.of
    BY <1>4 DEF IssueRow, Issue
  <2>2. issues' = Append(issues, row) /\ row.of = Issue(b)
    BY <1>5
  <2> HIDE DEF row
  <2>3. /\ issues' \in Seq(IssueRow) /\ RowsStay /\ MappingsOK' /\ RowsOK'
        /\ DOMAIN issues' = DOMAIN issues \union {Len(issues) + 1}
        /\ Len(issues) + 1 \in Nat
        /\ issues'[Len(issues) + 1] = row
    BY <1>3, <2>1, <2>2, AppendRow
  <2>4. "map" \in OnItem
    BY DEF OnItem
  <2>5. /\ job' \in [Processes -> Job] /\ OthersWait(b) /\ LocalOK(b)' /\ SameRun(b)
        /\ job'[b].pc = "map" /\ Issue(b)' = Issue(b)
    BY <1>2, <1>3, <1>5, <2>2, <2>3, <2>4, StayEffect
  <2>6. WatermarkOK'
    BY <1>1, <1>3, <2>5, WatermarkKept DEF SameRun, KeepsSince
  <2>7. TypeOK'
    BY <1>3, <1>5, <2>3, <2>5 DEF IInv, TypeOK
  <2>8. IInv'
    BY <1>1, <1>3, <2>3, <2>5, <2>6, <2>7, ProcessStep
  <2>9. Made(b)
    BY <1>5, <2>5 DEF Made
  <2> QED
    BY <1>3, <2>3, <2>5, <2>8, <2>9
<1>6. CASE ~(Mine(b) /\ config.creates) /\ Deal(b) /\ Rest(b) /\ issues' = issues
  <2>1. RowsStay /\ MappingsOK' /\ RowsOK'
    BY <1>3, <1>6, TablesKept
  <2>2. /\ job' \in [Processes -> Job] /\ OthersWait(b) /\ LocalOK(b)'
        /\ KeepsSince(b)
    BY <1>1, <1>2, <1>3, <1>6, <2>1, RestEffect
  <2>3. handled' \subseteq Instants /\ faults' \in Nat /\ UNCHANGED <<log, tables, missed>>
    BY <1>3, <1>4, <1>6 DEF IInv, TypeOK, Deal, tables
  <2>4. IInv'
    BY <1>1, <2>2, <2>3, MoveStep
  <2> QED
    BY <1>3, <1>6, <2>1, <2>2, <2>4 DEF ItemDone
<1> QED
  BY <1>5, <1>6 DEF Create

\* A run that breaks off.
Abandoned(b) ==
    /\ job'[b].pc = "finish" /\ job'[b].partial /\ handled' = handled

\* A batch that records which issue it made, or finds its configuration gone.
LEMMA MapStep ==
  ASSUME IInv, NEW b \in Batches, MapIssue(b)
  PROVE  /\ IInv' /\ OthersWait(b) /\ UNCHANGED <<log, config, issues, missed, faults>>
         /\ \/ /\ ItemDone(b) /\ Mine(b)
               /\ mappings' = mappings \union
                     {[elder |-> job[b].elder, external |-> Issue(b)]}
            \/ Abandoned(b) /\ ~Mine(b) /\ mappings' = mappings
<1>1. b \in Processes
  BY DEF Processes
<1>2. job[b].pc = "map" /\ job[b].pc \in OnItem
  BY DEF MapIssue, At, OnItem
<1>3. UNCHANGED <<log, config, issues, missed, faults>>
  BY DEF MapIssue, At
<1>4. Content(b) \in DOMAIN log /\ Content(b) \in Instants /\ Issue(b) \in Numbers
  BY <1>1, <1>2, InHand
<1>5. RowsStay /\ RowsOK'
  BY <1>3 DEF RowsStay, IInv, RowsOK
<1>6. CASE /\ Mine(b) /\ Deal(b) /\ Rest(b)
           /\ mappings' = mappings \union
                {[elder |-> job[b].elder, external |-> Issue(b)]}
  <2>1. job[b].elder \in DOMAIN issues /\ issues[job[b].elder].of = Issue(b)
    BY <1>1, <1>2 DEF IInv, LocalsOK, LocalOK
  <2>2. job[b].elder \in Nat
    BY <1>1, JobTypes DEF IInv
  <2>3. mappings' \subseteq Mapping
    BY <1>4, <1>6, <2>2 DEF IInv, TypeOK, Mapping
  <2>4. MappingsOK'
    BY <1>3, <1>6, <2>1 DEF IInv, MappingsOK
  <2>5. /\ job' \in [Processes -> Job] /\ OthersWait(b) /\ LocalOK(b)'
        /\ KeepsSince(b)
    BY <1>1, <1>2, <1>3, <1>5, <1>6, RestEffect
  <2>6. WatermarkOK'
    BY <1>1, <1>3, <2>5, WatermarkKept
  <2>7. handled' \subseteq Instants
    BY <1>4, <1>6 DEF IInv, TypeOK, Deal
  <2>8. TypeOK'
    BY <1>3, <2>3, <2>5, <2>7 DEF IInv, TypeOK
  <2>9. IInv'
    BY <1>1, <1>3, <1>5, <2>4, <2>5, <2>6, <2>8, ProcessStep
  <2> QED
    BY <1>3, <1>6, <2>5, <2>9 DEF ItemDone
<1>7. CASE /\ ~Mine(b) /\ mappings' = mappings /\ handled' = handled
           /\ job' = [job EXCEPT ![b] = [job[b] EXCEPT !.pc = "finish", !.partial = TRUE]]
  <2>1. /\ job' \in [Processes -> Job] /\ OthersWait(b) /\ LocalOK(b)'
        /\ job'[b].since = job[b].since /\ job'[b].config = job[b].config
        /\ job'[b].pc = "finish" /\ job'[b].partial
    BY <1>2, <1>3, <1>7, AbandonEffect
  <2>2. handled' \subseteq Instants /\ faults' \in Nat /\ UNCHANGED <<log, tables, missed>>
    BY <1>3, <1>7 DEF IInv, TypeOK, tables
  <2>3. IInv'
    BY <1>1, <2>1, <2>2, MoveStep DEF KeepsSince
  <2> QED
    BY <1>3, <1>7, <2>1, <2>3 DEF Abandoned
<1> QED
  BY <1>6, <1>7 DEF MapIssue

\* A batch or a webhook that writes what it has in hand into the row it found.
LEMMA UpdateStep ==
  ASSUME IInv, NEW p \in Processes, Update(p)
  PROVE  /\ IInv' /\ OthersWait(p) /\ UNCHANGED <<log, config, mappings, missed, faults>>
         /\ DOMAIN issues' = DOMAIN issues /\ RowsStay /\ ItemDone(p)
<1>1. job[p].pc = "update" /\ job[p].pc \in OnItem
  BY DEF Update, At, OnItem
<1>2. UNCHANGED <<log, config, mappings, missed, faults>> /\ ItemDone(p)
  BY DEF Update, At, ItemDone
<1>3. Content(p) \in DOMAIN log /\ Content(p) \in Instants
  BY <1>1, InHand
<1> PICK e \in DOMAIN issues : e = job[p].elder /\ issues[e].of = Issue(p)
  BY <1>1 DEF IInv, LocalsOK, LocalOK
<1> DEFINE row == [issues[e] EXCEPT !.content = Content(p)]
<1>4. issues' = [issues EXCEPT ![e] = row]
  BY DEF Update
<1>5. issues \in Seq(IssueRow) /\ issues[e] \in IssueRow
  BY Types DEF IInv, TypeOK
<1>6. row \in IssueRow /\ row.of = Issue(p) /\ row.content = Content(p)
  BY <1>3, <1>5 DEF IssueRow
<1> HIDE DEF row
<1>7. issues' \in Seq(IssueRow) /\ DOMAIN issues' = DOMAIN issues
  BY <1>4, <1>5, <1>6
<1>8. issues'[e] = row /\ \A k \in DOMAIN issues \ {e} : issues'[k] = issues[k]
  BY <1>4, <1>5
<1>9. \A k \in DOMAIN issues : issues'[k].of = issues[k].of
  BY <1>6, <1>8
<1>10. RowsStay
  BY <1>7, <1>9 DEF RowsStay
<1>11. MappingsOK'
  BY <1>2, <1>10 DEF IInv, MappingsOK, RowsStay
<1>12. RowsOK'
  <2>1. ASSUME NEW k \in DOMAIN issues
        PROVE  /\ issues'[k].content \in DOMAIN log
               /\ log[issues'[k].content].issue = issues'[k].of
    <3>1. CASE k = e
      BY <1>3, <1>6, <1>8, <3>1 DEF Issue
    <3>2. CASE k # e
      BY <1>8, <3>2 DEF IInv, RowsOK
    <3> QED
      BY <3>1, <3>2
  <2> QED
    BY <1>2, <1>7, <2>1 DEF RowsOK
<1>13. /\ job' \in [Processes -> Job] /\ OthersWait(p) /\ LocalOK(p)'
       /\ KeepsSince(p)
  BY <1>1, <1>2, <1>10, RestEffect DEF ItemDone
<1>14. WatermarkOK'
  BY <1>2, <1>13, WatermarkKept
<1>15. handled' \subseteq Instants
  BY <1>2, <1>3 DEF IInv, TypeOK, ItemDone, Deal
<1>16. TypeOK'
  BY <1>2, <1>7, <1>13, <1>15 DEF IInv, TypeOK
<1>17. IInv'
  BY <1>2, <1>10, <1>11, <1>12, <1>13, <1>14, <1>16, ProcessStep
<1> QED
  BY <1>2, <1>7, <1>10, <1>13, <1>17

\* A batch that ends: the watermark moves on, if there still is one.
LEMMA FinishStep ==
  ASSUME IInv, NEW b \in Batches, Finish(b)
  PROVE  /\ IInv' /\ OthersWait(b) /\ UNCHANGED <<log, issues, mappings, handled, faults>>
         /\ job'[b] = Idle
         /\ Mine(b) =>
               /\ config'.live /\ config'.since = Now /\ config.since <= Now
               /\ config'.creates = config.creates /\ config'.id = config.id
               /\ missed' = missed \union Unseen(b)
         /\ ~Mine(b) => config' = config /\ missed' = missed
<1>1. b \in Processes
  BY DEF Processes
<1>2. UNCHANGED <<log, issues, mappings, handled, faults>> /\ job' = [job EXCEPT ![b] = Idle]
  BY DEF Finish, At
<1>3. job' \in [Processes -> Job] /\ job'[b] = Idle /\ OthersWait(b)
  BY <1>1, <1>2, IdleType, JobEffect DEF IInv
<1>4. Now \in Nat /\ Now' = Now /\ config \in Config /\ config.since \in Nat
      /\ config.since <= Now
  BY <1>2, Types DEF Now, IInv, TypeOK, Config, WatermarkOK
<1>5. Mine(b) =>
        /\ config'.live /\ config'.since = Now /\ config.since <= Now
        /\ config'.creates = config.creates /\ config'.id = config.id
        /\ missed' = missed \union Unseen(b)
  BY <1>4 DEF Finish, Config, Mine
<1>6. ~Mine(b) => config' = config /\ missed' = missed
  BY DEF Finish
<1>7. config' \in Config
  BY <1>4 DEF Finish, Config
<1>8. missed' \subseteq Instants
  <2>1. Unseen(b) \subseteq Instants
    BY Types DEF Unseen
  <2> QED
    BY <1>5, <1>6, <2>1 DEF IInv, TypeOK
<1>9. TypeOK'
  BY <1>2, <1>3, <1>7, <1>8 DEF IInv, TypeOK
<1>10. LocalOK(b)'
  BY <1>1, <1>3, <1>4, IdleLocalOK
<1>11. WatermarkOK'
  <2>1. \A q \in Processes : job'[q].since <= Now
    <3>1. job'[b].since = 0 /\ 0 <= Now
      BY <1>3, <1>4 DEF Idle
    <3>2. \A q \in Processes \ {b} : job'[q].since <= Now
      BY <1>3 DEF IInv, LocalsOK, LocalOK, OthersWait
    <3> QED
      BY <3>1, <3>2
  <2>2. \A q \in Processes : job'[q].config <= config.id
    <3>1. job'[b].config = 0 /\ config.id \in Nat
      BY <1>3, <1>4 DEF Idle, Config
    <3> QED
      BY <1>3, <3>1 DEF IInv, WatermarkOK, OthersWait
  <2>3. CASE Mine(b)
    BY <1>4, <1>5, <2>1, <2>2, <2>3 DEF IInv, WatermarkOK
  <2>4. CASE ~Mine(b)
    <3>1. \A q \in Processes :
             config.live /\ job'[q].config = config.id => job'[q].since <= config.since
      <4>1. job'[b].since = 0 /\ 0 <= config.since
        BY <1>3, <1>4 DEF Idle
      <4> QED
        BY <1>3, <4>1 DEF IInv, WatermarkOK, OthersWait
    <3> QED
      BY <1>4, <1>6, <2>2, <2>4, <3>1 DEF IInv, WatermarkOK
  <2> QED
    BY <2>3, <2>4
<1>12. RowsStay /\ MappingsOK' /\ RowsOK'
  BY <1>2, TablesKept
<1>13. IInv'
  BY <1>1, <1>2, <1>3, <1>9, <1>10, <1>11, <1>12, ProcessStep
<1> QED
  BY <1>2, <1>3, <1>5, <1>6, <1>13

\* A request that fails, a commit that fails, a process that dies.
LEMMA FaultStep ==
  ASSUME IInv, NEW b \in Batches, Break(b) \/ Crash(b)
  PROVE  /\ IInv' /\ OthersWait(b) /\ UNCHANGED <<log, tables, history>>
         /\ faults' = faults + 1
         /\ Abandoned(b) \/ job'[b] = Idle
<1>1. b \in Processes
  BY DEF Processes
<1>2. UNCHANGED <<log, tables, history>> /\ faults' = faults + 1
  BY DEF Break, Crash, Fault
<1>3. handled' \subseteq Instants /\ faults' \in Nat /\ UNCHANGED <<log, tables, missed>>
  BY <1>2 DEF IInv, TypeOK, history
<1>4. CASE Break(b)
  <2>1. /\ job[b].pc # "idle"
        /\ job' = [job EXCEPT ![b] = [job[b] EXCEPT !.pc = "finish", !.partial = TRUE]]
    BY <1>4 DEF Break
  <2>2. /\ job' \in [Processes -> Job] /\ OthersWait(b) /\ LocalOK(b)'
        /\ job'[b].since = job[b].since /\ job'[b].config = job[b].config
        /\ job'[b].pc = "finish" /\ job'[b].partial
    BY <1>2, <2>1, AbandonEffect
  <2>3. IInv'
    BY <1>1, <1>3, <2>2, MoveStep DEF KeepsSince
  <2> QED
    BY <1>2, <2>2, <2>3 DEF Abandoned, history
<1>5. CASE Crash(b)
  <2>1. job' = [job EXCEPT ![b] = Idle]
    BY <1>5 DEF Crash
  <2>2. job' \in [Processes -> Job] /\ job'[b] = Idle /\ OthersWait(b)
    BY <1>1, <2>1, IdleType, JobEffect DEF IInv
  <2>3. KeepsSince(b) /\ Now' \in Nat
    BY <1>2, <2>2, Types DEF Idle, Now, KeepsSince, IInv, TypeOK, Config
  <2>4. LocalOK(b)'
    BY <1>1, <2>2, <2>3, IdleLocalOK
  <2>5. IInv'
    BY <1>1, <1>3, <2>2, <2>3, <2>4, MoveStep
  <2> QED
    BY <1>2, <2>2, <2>5
<1> QED
  BY <1>4, <1>5

\* A webhook that is taken up.
LEMMA HookCallStep ==
  ASSUME IInv, NEW h \in Hooks, HookCall(h)
  PROVE  IInv' /\ OthersWait(h) /\ UNCHANGED <<log, tables, history, faults>>
<1>1. h \in Processes /\ h \notin Batches
  BY ConstantsAssumption DEF Processes
<1>2. PICK c \in DOMAIN log : \E m \in MappingsOf(log[c].issue) :
         /\ job' = [job EXCEPT ![h] = [Idle EXCEPT !.pc = "update", !.config = config.id,
                                                   !.elder = m.elder, !.todo = <<c>>]]
         /\ UNCHANGED <<log, tables, history, faults>>
  BY DEF HookCall, At
<1>3. PICK m \in MappingsOf(log[c].issue) :
         /\ job' = [job EXCEPT ![h] = [Idle EXCEPT !.pc = "update", !.config = config.id,
                                                   !.elder = m.elder, !.todo = <<c>>]]
         /\ UNCHANGED <<log, tables, history, faults>>
  BY <1>2
<1> DEFINE j == [Idle EXCEPT !.pc = "update", !.config = config.id, !.elder = m.elder,
                             !.todo = <<c>>]
<1>4. m \in mappings /\ m.external = log[c].issue
  BY DEF MappingsOf
<1>5. m.elder \in Nat /\ m.elder \in DOMAIN issues /\ issues[m.elder].of = log[c].issue
  BY <1>4 DEF IInv, TypeOK, Mapping, MappingsOK
<1>6. c \in Instants /\ <<c>> \in Seq(Instants) /\ config.id \in Nat
  BY Types DEF IInv, TypeOK, Config
<1>7. j \in Job
  BY <1>5, <1>6, IdleType DEF Job, Places
<1>8. /\ j.pc = "update" /\ j.elder = m.elder /\ j.todo = <<c>> /\ j.since = 0
      /\ j.began = 0 /\ j.config = config.id
  BY DEF Idle
<1> HIDE DEF j
<1>9. job' = [job EXCEPT ![h] = j]
  BY <1>3 DEF j
<1>10. job' \in [Processes -> Job] /\ job'[h] = j /\ OthersWait(h)
  BY <1>1, <1>7, <1>9, JobEffect DEF IInv
<1>11. UNCHANGED <<log, issues>> /\ Now' \in Nat
  BY <1>3, Types DEF tables, Now
<1>12. Issue(h)' = log[c].issue
  BY <1>8, <1>10, <1>11 DEF Issue, Content
<1>13. LocalOK(h)'
  <2>1. <<c>> # <<>> /\ \A k \in DOMAIN <<c>> : <<c>>[k] \in DOMAIN log
    OBVIOUS
  <2>2. job'[h].todo # <<>> /\ \A k \in DOMAIN job'[h].todo : job'[h].todo[k] \in DOMAIN log'
    BY <1>8, <1>10, <1>11, <2>1
  <2>3. job'[h].elder \in DOMAIN issues' /\ issues'[job'[h].elder].of = Issue(h)'
    BY <1>5, <1>8, <1>10, <1>11, <1>12
  <2>4. job'[h].since <= Now' /\ job'[h].began <= Now'
    BY <1>8, <1>10, <1>11
  <2>5. job'[h].pc = "update"
    BY <1>8, <1>10
  <2> QED
    BY <1>1, <2>2, <2>3, <2>4, <2>5 DEF LocalOK
<1>14. handled' \subseteq Instants /\ faults' \in Nat /\ UNCHANGED <<log, tables, missed>>
  BY <1>3 DEF IInv, TypeOK, history
<1>15. KeepsSince(h)
  BY <1>6, <1>8, <1>10 DEF KeepsSince
<1>16. IInv'
  BY <1>1, <1>10, <1>13, <1>14, <1>15, MoveStep
<1> QED
  BY <1>3, <1>10, <1>16

-----------------------------------------------------------------------------
(***************************************************************************)
(* The host and the configuration                                          *)
(***************************************************************************)
\* What happens to the log when something happens on the host.
LEMMA AppendChange ==
  ASSUME IInv, Now < MaxChanges, NEW e \in Change, log' = Append(log, e)
  PROVE  /\ LogGrows /\ Now \in Nat /\ Now' = Now + 1 /\ Now' \in Nat /\ Now' <= MaxChanges
         /\ log' \in Seq(Change) /\ DOMAIN log' = DOMAIN log \union {Now + 1}
         /\ log'[Now + 1] = e
<1>1. log \in Seq(Change) /\ MaxChanges \in Nat
  BY ConstantsAssumption DEF IInv, TypeOK
<1>2. Now \in Nat /\ DOMAIN log = 1..Now
  BY Types
<1>3. /\ log' \in Seq(Change) /\ Len(log') = Now + 1 /\ log'[Now + 1] = e
      /\ \A c \in 1..Now : log'[c] = log[c]
  BY <1>1 DEF Now
<1>4. Now' = Now + 1 /\ Now' <= MaxChanges
  BY <1>1, <1>2, <1>3 DEF Now
<1>5. DOMAIN log' = 1..(Now + 1)
  BY <1>3
<1>6. DOMAIN log' = DOMAIN log \union {Now + 1}
  BY <1>2, <1>5
<1> QED
  BY <1>2, <1>3, <1>4, <1>6 DEF LogGrows

\* What is left to show of something that happens on the host.
LEMMA HostStep ==
  ASSUME IInv, Now < MaxChanges, NEW e \in Change, log' = Append(log, e),
         UNCHANGED <<tables, history, faults>>, job' \in [Processes -> Job],
         \A q \in Processes : KeepsPlace(q)
  PROVE  IInv'
<1>1. /\ LogGrows /\ Now \in Nat /\ Now' = Now + 1 /\ Now' \in Nat /\ Now' <= MaxChanges
      /\ log' \in Seq(Change)
  BY AppendChange
<1>2. UNCHANGED <<config, issues, mappings, handled, missed, faults>>
  BY DEF tables, history
<1>3. TypeOK'
  BY <1>1, <1>2 DEF IInv, TypeOK
<1>4. RowsStay /\ MappingsOK'
  BY <1>2 DEF IInv, RowsStay, MappingsOK
<1>5. RowsOK'
  BY <1>1, <1>2 DEF IInv, RowsOK, LogGrows
<1>6. LocalsOK'
  <2>1. Now' >= Now
    BY <1>1
  <2> QED
    BY <1>1, <1>4, <2>1, StillOK DEF LocalsOK
<1>7. WatermarkOK'
  <2>1. config.since \in Nat
    BY DEF IInv, TypeOK, Config
  <2>2. config.since <= Now'
    BY <1>1, <2>1 DEF IInv, WatermarkOK
  <2>3. \A q \in Processes : job'[q].since = job[q].since /\ job'[q].config = job[q].config
    BY DEF KeepsPlace
  <2> QED
    BY <1>2, <2>2, <2>3 DEF IInv, WatermarkOK
<1> QED
  BY <1>1, <1>3, <1>4, <1>5, <1>6, <1>7 DEF IInv

\* What may happen on the host: an issue that exists changes, or a new one is opened.
LEMMA HostChanges ==
  ASSUME IInv, Open \/ Edit \/ Delete
  PROVE  /\ Now < MaxChanges /\ UNCHANGED <<tables, history, faults>>
         /\ \E e \in Change : log' = Append(log, e)
<1>1. LogOK
  BY Types
<1>2. ASSUME NEW c \in List(0) PROVE log[c].issue \in Numbers
  BY <1>1, ListFacts, Types
<1>3. CASE Open
  BY <1>3 DEF Open, Change
<1>4. CASE Edit
  <2>1. PICK c \in List(0), a \in Actions :
           log' = Append(log, [issue |-> log[c].issue, action |-> a])
    BY <1>4 DEF Edit
  <2>2. [issue |-> log[c].issue, action |-> a] \in Change
    BY <1>2 DEF Change
  <2> QED
    BY <1>4, <2>1, <2>2 DEF Edit
<1>5. CASE Delete
  <2>1. PICK c \in List(0) :
           log' = Append(log, [issue |-> log[c].issue, action |-> Deleted])
    BY <1>5 DEF Delete
  <2>2. [issue |-> log[c].issue, action |-> Deleted] \in Change
    BY <1>2 DEF Change
  <2> QED
    BY <1>5, <2>1, <2>2 DEF Delete
<1> QED
  BY <1>3, <1>4, <1>5

\* A deletion makes the runs that are reading pages partial, and moves nobody.
LEMMA DeleteEffect ==
  ASSUME IInv, Delete
  PROVE  /\ job' \in [Processes -> Job] /\ \A q \in Processes : KeepsPlace(q)
         /\ \A b \in Batches :
               job'[b].partial \/ (job'[b] = job[b] /\ job[b].pc \in {"idle", "finish"})
<1> DEFINE new(q) == IF q \in Hooks \/ job[q].pc \in {"idle", "finish"} THEN job[q]
                     ELSE [job[q] EXCEPT !.partial = TRUE]
<1>1. job' = [q \in Processes |-> new(q)]
  BY DEF Delete
<1>2. ASSUME NEW q \in Processes
      PROVE  /\ new(q) \in Job /\ new(q).pc = job[q].pc /\ new(q).todo = job[q].todo
             /\ new(q).elder = job[q].elder /\ new(q).since = job[q].since
             /\ new(q).began = job[q].began /\ new(q).page = job[q].page
             /\ new(q).config = job[q].config
             /\ q \in Hooks \/ new(q).partial
                  \/ (new(q) = job[q] /\ job[q].pc \in {"idle", "finish"})
  <2>1. job[q] \in Job
    BY JobTypes DEF IInv
  <2> QED
    BY <2>1 DEF Job
<1> HIDE DEF new
<1>3. \A q \in Processes : job'[q] = new(q)
  BY <1>1
<1>4. job' \in [Processes -> Job]
  BY <1>1, <1>2
<1>5. \A q \in Processes : KeepsPlace(q)
  BY <1>2, <1>3 DEF KeepsPlace
<1>6. \A b \in Batches : b \in Processes /\ b \notin Hooks
  BY ConstantsAssumption DEF Processes
<1> QED
  BY <1>2, <1>3, <1>4, <1>5, <1>6

\* The configuration is edited or deleted.
LEMMA ConfigStep ==
  ASSUME IInv, UpdateConfig \/ DeleteConfig
  PROVE  /\ IInv' /\ UNCHANGED <<log, issues, job, history, faults>>
         /\ config'.id = config.id
         /\ config'.live =>
               config.live /\ mappings' = mappings /\ config'.since = config.since
<1>1. UNCHANGED <<log, issues, job, history, faults>>
  BY DEF UpdateConfig, DeleteConfig
<1>2. config \in Config
  BY DEF IInv, TypeOK
<1>3. /\ config' \in Config /\ config'.id = config.id
      /\ config'.live => config.live /\ mappings' = mappings /\ config'.since = config.since
      /\ ~config'.live => ~config'.creates /\ config'.since = 0
      /\ mappings' \subseteq mappings
  <2>1. CASE UpdateConfig
    <3>1. PICK on \in BOOLEAN : config' = [config EXCEPT !.creates = on]
      BY <2>1 DEF UpdateConfig
    <3>2. config.live /\ mappings' = mappings
      BY <2>1 DEF UpdateConfig
    <3> QED
      BY <1>2, <3>1, <3>2 DEF Config
  <2>2. CASE DeleteConfig
    BY <1>2, <2>2 DEF DeleteConfig, Config
  <2> QED
    BY <2>1, <2>2
<1>4. Now' = Now /\ Now \in Nat
  BY <1>1, Types DEF Now
<1>5. TypeOK'
  BY <1>1, <1>3 DEF IInv, TypeOK, history
<1>6. WatermarkOK'
  <2>1. config'.since <= Now
    BY <1>3, <1>4 DEF IInv, WatermarkOK
  <2> QED
    BY <1>1, <1>3, <1>4, <2>1 DEF IInv, WatermarkOK
<1>7. MappingsOK' /\ RowsOK' /\ RowsStay
  BY <1>1, <1>3 DEF IInv, MappingsOK, RowsOK, RowsStay
<1>8. LogGrows /\ Now' >= Now /\ Now' \in Nat /\ \A q \in Processes : KeepsPlace(q)
  BY <1>1, <1>4 DEF LogGrows, KeepsPlace
<1>9. LocalsOK'
  BY <1>7, <1>8, StillOK DEF LocalsOK
<1> QED
  BY <1>1, <1>3, <1>4, <1>5, <1>6, <1>7, <1>9 DEF IInv

\* A configuration is created: nobody works for it yet.
LEMMA CreateConfigStep ==
  ASSUME IInv, CreateConfig
  PROVE  /\ IInv' /\ UNCHANGED <<log, issues, mappings, job, faults>>
         /\ config'.id = config.id + 1 /\ config'.since = 0
         /\ \A p \in Processes : job[p].config # config'.id
<1>1. UNCHANGED <<log, issues, mappings, job, faults>> /\ handled' = {} /\ missed' = {}
  BY DEF CreateConfig
<1>2. config \in Config /\ config.id \in Nat
  BY DEF IInv, TypeOK, Config
<1> PICK n \in Nat : n = config.id + 1
  BY <1>2
<1>3. config' \in Config /\ config'.id = n /\ config'.since = 0 /\ config'.live = TRUE
  <2>1. config' \in [id: {n}, live: {TRUE}, creates: BOOLEAN, since: {0}]
    BY DEF CreateConfig
  <2>2. config'.id = n /\ config'.live = TRUE /\ config'.since = 0
    BY <2>1
  <2>3. {n} \subseteq Nat /\ {TRUE} \subseteq BOOLEAN /\ {0} \subseteq Nat
    OBVIOUS
  <2>4. config' \in Config
    BY <2>1, <2>3 DEF Config
  <2> QED
    BY <2>2, <2>4
<1>4. Now' = Now /\ Now \in Nat
  BY <1>1, Types DEF Now
<1>5. \A p \in Processes : job[p].config \in Nat /\ job[p].config <= config.id
  BY JobTypes DEF IInv, WatermarkOK
<1>6. TypeOK'
  BY <1>1, <1>3 DEF IInv, TypeOK
<1>7. WatermarkOK'
  BY <1>1, <1>2, <1>3, <1>4, <1>5 DEF IInv, WatermarkOK
<1>8. MappingsOK' /\ RowsOK' /\ RowsStay
  BY <1>1 DEF IInv, MappingsOK, RowsOK, RowsStay
<1>9. LogGrows /\ Now' >= Now /\ Now' \in Nat /\ \A q \in Processes : KeepsPlace(q)
  BY <1>1, <1>4 DEF LogGrows, KeepsPlace
<1>10. LocalsOK'
  BY <1>8, <1>9, StillOK DEF LocalsOK
<1>11. \A p \in Processes : job[p].config # config'.id
  BY <1>2, <1>3, <1>5
<1> QED
  BY <1>1, <1>3, <1>4, <1>6, <1>7, <1>8, <1>10, <1>11 DEF IInv

-----------------------------------------------------------------------------
(***************************************************************************)
(* The invariant, and what follows from it                                 *)
(***************************************************************************)
\* The invariant holds at the start.
LEMMA InvInit == Init => IInv
<1> SUFFICES ASSUME Init PROVE IInv
  OBVIOUS
<1> USE DEF Init
<1>1. /\ log = <<>> /\ issues = <<>> /\ Now = 0
      /\ DOMAIN log = {} /\ DOMAIN issues = {}
      /\ log \in Seq(Change) /\ issues \in Seq(IssueRow)
  BY DEF Now
<1>2. MaxChanges \in Nat
  BY ConstantsAssumption
<1>3. config \in Config /\ config.live /\ config.since = 0 /\ config.id = 1
  <2>1. config \in [id: {1}, live: {TRUE}, creates: BOOLEAN, since: {0}]
    OBVIOUS
  <2>2. 0 \in Nat /\ 1 \in Nat /\ TRUE \in BOOLEAN
    OBVIOUS
  <2>3. config.live = TRUE /\ config.since = 0 /\ config.id = 1
    BY <2>1
  <2>4. config \in Config
    BY <2>1, <2>2 DEF Config
  <2> QED
    BY <2>3, <2>4
<1>4. job \in [Processes -> Job] /\ \A p \in Processes : job[p] = Idle
  BY IdleType
<1>5. TypeOK
  BY <1>1, <1>3, <1>4 DEF TypeOK
<1>6. LocalsOK
  BY <1>1, <1>4 DEF LocalsOK, LocalOK, Idle, OnItem
<1>7. WatermarkOK
  BY <1>1, <1>3, <1>4 DEF WatermarkOK, Idle
<1>8. MappingsOK /\ RowsOK
  BY <1>1 DEF MappingsOK, RowsOK
<1> QED
  BY <1>1, <1>2, <1>5, <1>6, <1>7, <1>8 DEF IInv

\* Something that happens on the host keeps the invariant.
LEMMA HostStepInv ==
  ASSUME IInv, Open \/ Edit \/ Delete
  PROVE  IInv'
<1>1. job' \in [Processes -> Job] /\ \A q \in Processes : KeepsPlace(q)
  <2>1. CASE Open \/ Edit
    BY <2>1 DEF Open, Edit, KeepsPlace, IInv, TypeOK
  <2>2. CASE Delete
    BY <2>2, DeleteEffect
  <2> QED
    BY <2>1, <2>2
<1> QED
  BY <1>1, HostChanges, HostStep

\* Every step keeps the invariant.
LEMMA InvNext == IInv /\ [Next]_vars => IInv'
<1> SUFFICES ASSUME IInv, [Next]_vars PROVE IInv'
  OBVIOUS
<1>1. CASE Open \/ Edit \/ Delete
  BY <1>1, HostStepInv
<1>2. CASE UpdateConfig \/ DeleteConfig
  BY <1>2, ConfigStep
<1>3. ASSUME NEW b \in Batches, BatchBegin(b) \/ BatchStep(b) \/ Break(b) \/ Crash(b)
      PROVE  IInv'
  <2>1. b \in Processes
    BY DEF Processes
  <2> QED
    BY <1>3, <2>1, BatchBeginStep, FetchStep, LookupStep, CreateStep, MapStep,
       UpdateStep, FinishStep, FaultStep DEF BatchStep
<1>4. ASSUME NEW h \in Hooks, HookCall(h) \/ Update(h)
      PROVE  IInv'
  <2>1. h \in Processes
    BY DEF Processes
  <2> QED
    BY <1>4, <2>1, HookCallStep, UpdateStep
<1>5. CASE CreateConfig
  BY <1>5, CreateConfigStep
<1>6. CASE UNCHANGED vars
  <2>1. IInv = IInv'
    BY <1>6 DEF vars, IInv, TypeOK, Now, WatermarkOK, MappingsOK, RowsOK, LocalsOK, LocalOK,
                Issue, Content
  <2> QED
    BY <2>1
<1> QED
  BY <1>1, <1>2, <1>3, <1>4, <1>5, <1>6 DEF Next

\* Every reachable state satisfies the invariant.
LEMMA Invariant == Spec => []IInv
<1> QED
  BY InvInit, InvNext, PTL DEF Spec

\* Every table, every process's locals and the history keep their type, whatever
\* runs, webhooks and failures interleave.
THEOREM TypeCorrect == Spec => []TypeOK
<1>1. IInv => TypeOK
  BY DEF IInv
<1> QED
  BY <1>1, Invariant, PTL

\* Nothing of one issue is written into the row of another, through whatever
\* mappings, pages and late webhooks it got there.
THEOREM NoMixupsTheorem == Spec => []NoMixups
<1>1. IInv => NoMixups
  BY DEF IInv, RowsOK, NoMixups
<1> QED
  BY <1>1, Invariant, PTL

-----------------------------------------------------------------------------
(***************************************************************************)
(* The watermark.  A run that is not partial has dealt with every change   *)
(* from before it began that is listed ahead of the page it is on, or has  *)
(* it in hand; and when it is at its end, with every one in the list.      *)
(***************************************************************************)
InHandOf(j, c) == \E k \in DOMAIN j.todo : j.todo[k] = c

\* What a run with the locals j has dealt with, while its configuration is there.
PagedAt(j) ==
    ~j.partial /\ config.live /\ j.config = config.id =>
        \A c \in List(j.since) : c <= j.began =>
            /\ j.pc = "fetch" /\ Rank(List(j.since), c) < From(j.page) => c \in handled
            /\ j.pc \in OnItem /\ Rank(List(j.since), c) < From(j.page + 1) =>
                  c \in handled \/ InHandOf(j, c)
            /\ j.pc = "finish" => c \in handled

Window == LostOnlyInWindow /\ \A b \in Batches : PagedAt(job[b])

\* The list only depends on the log.
LEMMA ListSame ==
  ASSUME UNCHANGED log, NEW s
  PROVE  List(s)' = List(s) /\ \A c : Rank(List(s), c)' = Rank(List(s), c)
<1>1. List(s)' = List(s)
  BY DEF List, IsLatest
<1>2. ASSUME NEW c PROVE Rank(List(s), c)' = Rank(List(s), c)
  BY <1>1 DEF Rank
<1> QED
  BY <1>1, <1>2

\* What is in the list and not new has been there before.
LEMMA ListedBefore ==
  ASSUME IInv, Now < MaxChanges, NEW e \in Change, log' = Append(log, e),
         NEW s, NEW c \in List(s)', c <= Now
  PROVE  c \in List(s) /\ log[c].issue # e.issue
<1>1. /\ LogGrows /\ Now \in Nat /\ DOMAIN log' = DOMAIN log \union {Now + 1}
      /\ log'[Now + 1] = e
  BY AppendChange
<1>2. /\ c \in DOMAIN log' /\ IsLatest(c)' /\ log'[c].action # Deleted /\ c > s
  BY DEF List
<1>3. c \in DOMAIN log /\ c < Now + 1
  BY <1>1, <1>2
<1>4. log'[c] = log[c] /\ \A d \in DOMAIN log : log'[d] = log[d] /\ d \in DOMAIN log'
  BY <1>1, <1>3 DEF LogGrows
<1>5. IsLatest(c)
  BY <1>2, <1>4 DEF IsLatest
<1>6. log[c].issue # e.issue
  BY <1>1, <1>2, <1>3, <1>4 DEF IsLatest
<1> QED
  BY <1>2, <1>3, <1>4, <1>5, <1>6 DEF List

\* Unless something is deleted, nothing is listed earlier than it was.
LEMMA RankGrows ==
  ASSUME IInv, Now < MaxChanges, NEW e \in Change, log' = Append(log, e),
         e.action # Deleted, NEW s \in Nat, s <= Now, NEW c \in List(s)', c <= Now
  PROVE  /\ Rank(List(s), c) \in Nat /\ Rank(List(s), c)' \in Nat
         /\ Rank(List(s), c) <= Rank(List(s), c)'
<1> PICK n : n = Now + 1
  OBVIOUS
<1> DEFINE A == Before(List(s), c)
           B == Before(List(s), c)'
           f == [d \in A |-> IF log[d].issue = e.issue THEN n ELSE d]
<1>1. /\ LogGrows /\ Now \in Nat /\ n \in Nat /\ n > Now
      /\ DOMAIN log' = DOMAIN log \union {n}
      /\ log'[n] = e
  BY AppendChange
<1>2. LogOK /\ DOMAIN log = 1..Now
  BY Types
<1>3. c \in List(s) /\ log[c].issue # e.issue /\ c \in DOMAIN log
  BY <1>2, ListedBefore, ListFacts
<1>4. log'[c] = log[c]
  BY <1>1, <1>3 DEF LogGrows
<1>5. ASSUME NEW d \in A
      PROVE  /\ log[d].issue = e.issue => n \in B
             /\ log[d].issue # e.issue => d \in B
             /\ d \in List(s) /\ d # n
  <2>1. d \in List(s) /\ log[d].issue > log[c].issue
    BY DEF Before
  <2>2. d \in DOMAIN log /\ d \in 1..Now /\ d # n
    BY <1>1, <1>2, <2>1, ListFacts
  <2>3. log'[d] = log[d]
    BY <1>1, <2>2 DEF LogGrows
  <2>4. CASE log[d].issue = e.issue
    <3>1. IsLatest(n)'
      <4>1. \A x \in DOMAIN log' : ~(x > n)
        BY <1>1, <1>2
      <4> QED
        BY <4>1 DEF IsLatest
    <3>2. n > s /\ n \in DOMAIN log'
      BY <1>1
    <3>3. n \in List(s)'
      BY <1>1, <3>1, <3>2 DEF List
    <3>4. log'[n].issue > log'[c].issue
      BY <1>1, <1>4, <2>1, <2>4
    <3>5. n \in B
      BY <3>3, <3>4 DEF Before
    <3> QED
      BY <2>1, <2>2, <2>4, <3>5
  <2>5. CASE log[d].issue # e.issue
    <3>1. \A x \in DOMAIN log : log'[x] = log[x]
      BY <1>1 DEF LogGrows
    <3>2. IsLatest(d)'
      BY <1>1, <2>1, <2>3, <2>5, <3>1 DEF List, IsLatest
    <3>3. d \in List(s)'
      BY <1>1, <2>1, <2>2, <2>3, <3>2 DEF List
    <3>4. d \in B
      BY <1>4, <2>1, <2>3, <3>3 DEF Before
    <3> QED
      BY <2>1, <2>2, <2>5, <3>4
  <2> QED
    BY <2>4, <2>5
<1>6. IsFiniteSet(B)
  <2>1. B \subseteq DOMAIN log'
    BY DEF Before, List
  <2>2. IsFiniteSet(DOMAIN log)
    BY <1>1, <1>2, FS_Interval
  <2>3. IsFiniteSet(DOMAIN log \union {n})
    BY <2>2, FS_AddElement
  <2>4. IsFiniteSet(DOMAIN log')
    <3> HIDE DEF Now
    <3> QED
      BY <1>1, <2>3
  <2> HIDE DEF B
  <2> QED
    BY <2>1, <2>4, FS_Subset
<1>7. \A x, y \in List(s) : log[x].issue = log[y].issue => x = y
  BY <1>2, ListFacts
<1>8. f \in Injection(A, B)
  <2>1. \A d \in A : f[d] \in B
    BY <1>5
  <2>2. \A x, y \in A : f[x] = f[y] => x = y
    BY <1>5, <1>7
  <2>3. DOMAIN f = A /\ f = [d \in A |-> f[d]]
    OBVIOUS
  <2> HIDE DEF f, A, B
  <2>4. f \in [A -> B]
    BY <2>1, <2>3
  <2>5. IsInjective(f)
    BY <2>2, <2>3 DEF IsInjective
  <2> QED
    BY <2>4, <2>5 DEF Injection
<1>9. /\ Cardinality(A) \in Nat /\ Cardinality(B) \in Nat
      /\ Cardinality(A) <= Cardinality(B)
  <2> HIDE DEF f, A, B
  <2> QED
    BY <1>6, <1>8, FS_Injection, FS_CardinalityType
<1>10. Rank(List(s), c) = Cardinality(A) /\ Rank(List(s), c)' = Cardinality(B)
  BY DEF Rank, Before
<1> QED
  BY <1>9, <1>10

\* A run stands where it stood when the log does, and more has been dealt with.
LEMMA PagedKept ==
  ASSUME UNCHANGED log, handled \subseteq handled', NEW j, PagedAt(j),
         config'.live => config.live /\ config'.id = config.id
  PROVE  PagedAt(j)'
<1>1. List(j.since)' = List(j.since)
      /\ \A c : Rank(List(j.since), c)' = Rank(List(j.since), c)
  BY ListSame
<1> QED
  BY <1>1 DEF PagedAt, InHandOf

\* A run that is idle or partial owes nothing.
LEMMA PagedOver ==
  ASSUME NEW j, j.partial \/ j = Idle
  PROVE  PagedAt(j)'
  BY DEF PagedAt, Idle, OnItem

\* After a step of batch b, and where the watermark stays, only b has to be looked at.
LEMMA WindowStep ==
  ASSUME IInv, Window, UNCHANGED log, handled \subseteq handled', missed \subseteq missed',
         config'.since = config.since \/ config'.since = 0,
         config'.live => config.live /\ config'.id = config.id,
         NEW p \in Processes, OthersWait(p), p \in Batches => PagedAt(job[p])'
  PROVE  Window'
<1>1. LostOnlyInWindow'
  <2>1. List(0)' = List(0)
    BY ListSame
  <2>2. ASSUME config'.since = 0, NEW c \in List(0)
        PROVE  ~(c <= config'.since)
    <3>1. c > 0 /\ c \in DOMAIN log
      BY DEF List
    <3>2. c \in Nat
      BY <3>1, Types
    <3> QED
      BY <2>2, <3>1, <3>2
  <2> QED
    BY <2>1, <2>2 DEF Window, LostOnlyInWindow
<1>2. ASSUME NEW b \in Batches PROVE PagedAt(job[b])'
  <2>1. CASE b = p
    BY <2>1
  <2>2. CASE b # p
    <3>1. job'[b] = job[b] /\ PagedAt(job[b])
      BY <2>2 DEF OthersWait, Window, Processes
    <3>2. PICK j : j = job[b]
      OBVIOUS
    <3>3. PagedAt(j)'
      BY <3>1, <3>2, PagedKept
    <3>4. j = job'[b]
      BY <3>1, <3>2
    <3> QED
      BY <3>3, <3>4
  <2> QED
    BY <2>1, <2>2
<1> QED
  BY <1>1, <1>2 DEF Window

\* A page number of a run under way, and what is listed before its pages.
LEMMA RunFacts ==
  ASSUME IInv, NEW b \in Batches, job[b].pc # "idle"
  PROVE  /\ b \in Processes /\ job[b].page \in Nat \ {0} /\ LogOK
         /\ From(job[b].page) \in Nat
         /\ From(job[b].page + 1) = From(job[b].page) + PageSize
<1>1. b \in Processes
  BY DEF Processes
<1>2. LocalOK(b) /\ job[b].page \in Nat
  BY <1>1, JobTypes DEF IInv, LocalsOK
<1>3. job[b].page \in Nat \ {0}
  BY <1>2 DEF LocalOK
<1> QED
  BY <1>1, <1>3, FromFacts, Types

\* A batch that begins has read no page yet.
LEMMA PagedBegin ==
  ASSUME IInv, NEW b \in Batches, BatchBegin(b)
  PROVE  PagedAt(job[b])'
<1>1. UNCHANGED log /\ job'[b].pc = "fetch" /\ job'[b].page = 1
  BY BatchBeginStep
<1>2. PICK j : j = job'[b]
  OBVIOUS
<1>3. j.pc = "fetch" /\ j.page = 1
  BY <1>1, <1>2
<1>4. From(1) = 0
  BY FromFacts
<1>5. ASSUME NEW c \in List(j.since) PROVE ~(Rank(List(j.since), c) < From(j.page))
  <2>1. Rank(List(j.since), c) \in Nat
    BY RankType, Types
  <2> QED
    BY <1>3, <1>4, <2>1
<1>6. List(j.since)' = List(j.since)
      /\ \A c : Rank(List(j.since), c)' = Rank(List(j.since), c)
  BY <1>1, ListSame
<1>7. PagedAt(j)'
  BY <1>3, <1>5, <1>6 DEF PagedAt, OnItem
<1> QED
  BY <1>2, <1>7

\* A page that has come in is what is listed next; an empty one is the end of the
\* list.
LEMMA PagedFetch ==
  ASSUME IInv, Window, NEW b \in Batches, Fetch(b)
  PROVE  PagedAt(job[b])'
<1> PICK j : j = job[b]
  OBVIOUS
<1> PICK k : k = job'[b]
  OBVIOUS
<1>0. job[b].pc = "fetch"
  BY DEF Fetch, At
<1>1. /\ UNCHANGED <<log, config, handled>> /\ j.pc = "fetch" /\ k.config = j.config
      /\ k.since = j.since /\ k.began = j.began /\ k.partial = j.partial /\ k.page = j.page
      /\ k.todo = Page(j.since, j.page)
      /\ k.todo = <<>> => k.pc = "finish"
      /\ k.todo # <<>> => k.pc = "lookup"
  BY <1>0, FetchStep DEF tables, history
<1>2. /\ j.page \in Nat \ {0} /\ LogOK /\ From(j.page) \in Nat
      /\ From(j.page + 1) = From(j.page) + PageSize
  BY <1>1, RunFacts
<1>3. /\ \A c \in OnPage(j.since, j.page) : InHandOf(k, c)
      /\ k.todo = <<>> => \A c \in List(j.since) : Rank(List(j.since), c) < From(j.page)
  BY <1>1, <1>2, PageFacts DEF InHandOf
<1>4. PagedAt(j)
  BY DEF Window
<1>5. ASSUME ~j.partial, config.live, j.config = config.id, NEW c \in List(j.since), c <= j.began
      PROVE  /\ Rank(List(j.since), c) < From(j.page) => c \in handled
             /\ Rank(List(j.since), c) < From(j.page + 1) => c \in handled \/ InHandOf(k, c)
  <2>1. Rank(List(j.since), c) < From(j.page) => c \in handled
    BY <1>1, <1>4, <1>5 DEF PagedAt
  <2>2. Rank(List(j.since), c) \in Nat
    BY <1>2, RankType
  <2>3. CASE Rank(List(j.since), c) < From(j.page)
    BY <2>1, <2>3
  <2>4. CASE Rank(List(j.since), c) >= From(j.page)
    BY <1>2, <1>3, <2>1, <2>4 DEF OnPage
  <2> QED
    BY <1>2, <2>2, <2>3, <2>4
<1>6. List(j.since)' = List(j.since)
      /\ \A c : Rank(List(j.since), c)' = Rank(List(j.since), c)
  BY <1>1, ListSame
<1>7. PagedAt(k)'
  <2>1. CASE k.todo = <<>>
    BY <1>1, <1>3, <1>5, <1>6, <2>1 DEF PagedAt, OnItem
  <2>2. CASE k.todo # <<>>
    <3>1. k.pc = "lookup" /\ k.pc \notin {"fetch", "finish"}
      BY <1>1, <2>2
    <3>2. ASSUME ~k.partial, config'.live, k.config = config'.id, NEW c \in List(k.since)', c <= k.began,
                 Rank(List(k.since), c)' < From(k.page + 1)'
          PROVE  c \in handled' \/ InHandOf(k, c)
      BY <1>1, <1>5, <1>6, <3>2 DEF From
    <3> QED
      BY <3>1, <3>2 DEF PagedAt, InHandOf
  <2> QED
    BY <2>1, <2>2
<1> QED
  BY <1>7

\* Within an item a run owes what it owed.
LEMMA PagedSame ==
  ASSUME Window, NEW b \in Batches, SameRun(b), job[b].pc \in OnItem, job'[b].pc \in OnItem,
         UNCHANGED <<log, config>>, handled \subseteq handled'
  PROVE  PagedAt(job[b])'
<1> PICK j : j = job[b]
  OBVIOUS
<1> PICK k : k = job'[b]
  OBVIOUS
<1>1. /\ k.since = j.since /\ k.began = j.began /\ k.partial = j.partial /\ k.page = j.page
      /\ k.todo = j.todo /\ k.config = j.config /\ k.pc \in OnItem /\ j.pc \in OnItem
  BY DEF SameRun
<1>2. PagedAt(j)
  BY DEF Window
<1>3. List(j.since)' = List(j.since)
      /\ \A c : Rank(List(j.since), c)' = Rank(List(j.since), c)
  BY ListSame
<1>4. PagedAt(k)'
  BY <1>1, <1>2, <1>3 DEF PagedAt, InHandOf, OnItem
<1> QED
  BY <1>4

\* An item that has been dealt with is off the run's hands.
LEMMA PagedDone ==
  ASSUME IInv, Window, NEW b \in Batches, job[b].pc \in OnItem, ItemDone(b),
         UNCHANGED <<log, config>>, RowsStay
  PROVE  PagedAt(job[b])'
<1> PICK j : j = job[b]
  OBVIOUS
<1> PICK k : k = job'[b]
  OBVIOUS
<1>1. b \in Processes /\ b \notin Hooks
  BY ConstantsAssumption DEF Processes
<1>2. /\ k.todo = Tail(j.todo) /\ k.since = j.since /\ k.began = j.began
      /\ k.partial = j.partial /\ k.config = j.config
      /\ Tail(j.todo) = <<>> => k.pc = "fetch" /\ k.page = j.page + 1
      /\ Tail(j.todo) # <<>> => k.pc = "lookup" /\ k.page = j.page
  BY <1>1, RestEffect DEF ItemDone
<1>3. j.todo \in Seq(Instants) /\ j.todo # <<>> /\ Content(b) = j.todo[1]
  BY <1>1, InHand, JobTypes DEF IInv
<1>gone. CASE ~Mine(b)
  <2>1. PagedAt(k)'
    BY <1>2, <1>gone DEF PagedAt, Mine
  <2> QED
    BY <2>1
<1>mine. SUFFICES ASSUME Mine(b) PROVE PagedAt(job[b])'
  BY <1>gone
<1>4. handled' = handled \union {j.todo[1]}
  BY <1>3, <1>mine DEF ItemDone, Deal
<1>5. PagedAt(j) /\ j.pc \in OnItem /\ config.live /\ j.config = config.id
  BY <1>mine DEF Window, Mine
<1>6. ASSUME NEW c, InHandOf(j, c) PROVE c \in handled' \/ InHandOf(k, c)
  <2>1. PICK i \in DOMAIN j.todo : j.todo[i] = c
    BY <1>6 DEF InHandOf
  <2>2. CASE i = 1
    BY <1>4, <2>1, <2>2
  <2>3. CASE i # 1
    <3>1. i - 1 \in DOMAIN Tail(j.todo) /\ Tail(j.todo)[i - 1] = j.todo[i]
      BY <1>3, <2>3
    <3> QED
      BY <1>2, <2>1, <3>1 DEF InHandOf
  <2> QED
    BY <2>2, <2>3
<1>7. List(j.since)' = List(j.since)
      /\ \A c : Rank(List(j.since), c)' = Rank(List(j.since), c)
  BY <1>2, ListSame
<1>8. ASSUME ~j.partial, NEW c \in List(j.since), c <= j.began,
             Rank(List(j.since), c) < From(j.page + 1)
      PROVE  c \in handled' \/ InHandOf(k, c)
  BY <1>4, <1>5, <1>6, <1>8 DEF PagedAt
<1>9. PagedAt(k)'
  <2>1. CASE Tail(j.todo) = <<>>
    <3>1. k.pc = "fetch" /\ k.page = j.page + 1 /\ k.pc \notin OnItem /\ k.pc # "finish"
      BY <1>2, <2>1 DEF OnItem
    <3>2. \A c : ~InHandOf(k, c)
      BY <1>2, <2>1 DEF InHandOf
    <3> QED
      BY <1>2, <1>7, <1>8, <3>1, <3>2 DEF PagedAt
  <2>2. CASE Tail(j.todo) # <<>>
    <3>1. k.pc \notin {"fetch", "finish"} /\ k.page = j.page
      BY <1>2, <2>2
    <3> QED
      BY <1>2, <1>7, <1>8, <3>1 DEF PagedAt, InHandOf
  <2> QED
    BY <2>1, <2>2
<1> QED
  BY <1>9

\* Steps of a batch that leave the watermark alone.
LEMMA WindowBatch ==
  ASSUME IInv, Window, NEW b \in Batches,
         \/ BatchBegin(b) \/ Fetch(b) \/ Lookup(b) \/ Create(b) \/ MapIssue(b) \/ Update(b)
         \/ Break(b) \/ Crash(b)
  PROVE  Window'
<1>1. b \in Processes
  BY DEF Processes
<1>2. ASSUME PagedAt(job[b])', OthersWait(b), UNCHANGED <<log, config, missed>>,
             handled \subseteq handled'
      PROVE  Window'
  BY <1>1, <1>2, WindowStep
<1>3. ASSUME job'[b].partial \/ job'[b] = Idle PROVE PagedAt(job[b])'
  <2>1. PICK k : k = job'[b]
    OBVIOUS
  <2>2. PagedAt(k)'
    BY <1>3, <2>1, PagedOver
  <2> QED
    BY <2>1, <2>2
<1>4. CASE BatchBegin(b)
  BY <1>2, <1>4, BatchBeginStep, PagedBegin DEF tables, history
<1>5. CASE Fetch(b)
  BY <1>2, <1>5, FetchStep, PagedFetch DEF tables, history
<1>6. CASE Lookup(b)
  <2>1. job[b].pc \in OnItem /\ job'[b].pc \in OnItem /\ SameRun(b)
    BY <1>6, LookupStep DEF Lookup, At, OnItem
  <2>2. UNCHANGED <<log, config, missed, handled>> /\ OthersWait(b)
    BY <1>6, LookupStep DEF tables, history
  <2> QED
    BY <1>2, <2>1, <2>2, PagedSame
<1>7. CASE Create(b)
  <2>1. job[b].pc \in OnItem
    BY <1>7 DEF Create, At, OnItem
  <2>2. /\ OthersWait(b) /\ UNCHANGED <<log, config, missed>> /\ RowsStay
        /\ Made(b) \/ ItemDone(b)
    BY <1>7, CreateStep
  <2>3. CASE Made(b)
    <3>1. SameRun(b) /\ job'[b].pc \in OnItem /\ handled' = handled
      BY <2>3 DEF Made, OnItem
    <3> QED
      BY <1>2, <2>1, <2>2, <3>1, PagedSame
  <2>4. CASE ItemDone(b)
    <3>1. handled \subseteq handled'
      BY <2>4 DEF ItemDone, Deal
    <3> QED
      BY <1>2, <2>1, <2>2, <2>4, <3>1, PagedDone
  <2> QED
    BY <2>2, <2>3, <2>4
<1>8. CASE MapIssue(b)
  <2>1. job[b].pc \in OnItem
    BY <1>8 DEF MapIssue, At, OnItem
  <2>2. /\ OthersWait(b) /\ UNCHANGED <<log, config, issues, missed>>
        /\ ItemDone(b) \/ Abandoned(b)
    BY <1>8, MapStep
  <2>3. CASE ItemDone(b)
    <3>1. handled \subseteq handled' /\ RowsStay
      BY <2>2, <2>3 DEF ItemDone, Deal, RowsStay
    <3> QED
      BY <1>2, <2>1, <2>2, <2>3, <3>1, PagedDone
  <2>4. CASE Abandoned(b)
    BY <1>2, <1>3, <2>2, <2>4 DEF Abandoned
  <2> QED
    BY <2>2, <2>3, <2>4
<1>9. CASE Update(b)
  <2>1. job[b].pc \in OnItem
    BY <1>9 DEF Update, At, OnItem
  <2>2. /\ OthersWait(b) /\ UNCHANGED <<log, config, missed>> /\ RowsStay /\ ItemDone(b)
    BY <1>1, <1>9, UpdateStep
  <2>3. handled \subseteq handled'
    BY <2>2 DEF ItemDone, Deal
  <2> QED
    BY <1>2, <2>1, <2>2, <2>3, PagedDone
<1>10. CASE Break(b) \/ Crash(b)
  <2>1. /\ OthersWait(b) /\ UNCHANGED <<log, config, missed, handled>>
        /\ job'[b].partial \/ job'[b] = Idle
    BY <1>10, FaultStep DEF tables, history, Abandoned
  <2> QED
    BY <1>2, <1>3, <2>1
<1> QED
  BY <1>4, <1>5, <1>6, <1>7, <1>8, <1>9, <1>10

\* The watermark passes what a run has dealt with, and what it is known to have missed.
LEMMA WindowFinish ==
  ASSUME IInv, Window, NEW b \in Batches, Finish(b)
  PROVE  Window'
<1>1. b \in Processes /\ job[b].pc = "finish"
  BY DEF Processes, Finish, At
<1>2. /\ OthersWait(b) /\ UNCHANGED <<log, handled>> /\ job'[b] = Idle
      /\ Mine(b) =>
            /\ config'.live /\ config'.id = config.id /\ config'.since = Now
            /\ missed' = missed \union Unseen(b)
      /\ ~Mine(b) => config' = config /\ missed' = missed
  BY FinishStep
<1>3. PagedAt(job[b])'
  <2>1. PICK k : k = job'[b]
    OBVIOUS
  <2>2. PagedAt(k)'
    BY <1>2, <2>1, PagedOver
  <2> QED
    BY <2>1, <2>2
<1>4. CASE ~Mine(b)
  BY <1>1, <1>2, <1>3, <1>4, WindowStep
<1>5. CASE Mine(b)
  <2>1. ASSUME NEW c \in List(0) PROVE c \in handled' \union missed'
    <3>1. c \in DOMAIN log /\ c \in Nat /\ c > 0 /\ IsLatest(c) /\ log[c].action # Deleted
      BY Types DEF List
    <3>2. job[b].since \in Nat /\ job[b].began \in Nat /\ config.since \in Nat
          /\ job[b].since <= config.since
      BY <1>1, <1>5, JobTypes DEF IInv, TypeOK, Config, WatermarkOK, Mine
    <3>3. CASE c <= config.since
      BY <1>2, <1>5, <3>3 DEF Window, LostOnlyInWindow
    <3>4. CASE c > config.since /\ job[b].partial
      BY <1>2, <1>5, <3>1, <3>2, <3>4 DEF Unseen
    <3>5. CASE c > config.since /\ ~job[b].partial /\ c > job[b].began
      BY <1>2, <1>5, <3>1, <3>5 DEF Unseen
    <3>6. CASE c > config.since /\ ~job[b].partial /\ c <= job[b].began
      <4>1. c \in List(job[b].since)
        BY <3>1, <3>2, <3>6 DEF List
      <4>2. PagedAt(job[b])
        BY DEF Window
      <4> QED
        BY <1>1, <1>2, <1>5, <3>6, <4>1, <4>2 DEF PagedAt, Mine
    <3> QED
      BY <3>1, <3>2, <3>3, <3>4, <3>5, <3>6
  <2>2. LostOnlyInWindow'
    <3>1. List(0)' = List(0)
      BY <1>2, ListSame
    <3> QED
      BY <2>1, <3>1 DEF LostOnlyInWindow
  <2>3. ASSUME NEW q \in Batches PROVE PagedAt(job[q])'
    <3>1. CASE q = b
      BY <1>3, <3>1
    <3>2. CASE q # b
      <4>1. job'[q] = job[q] /\ PagedAt(job[q])
        BY <1>2, <3>2 DEF OthersWait, Window, Processes
      <4>2. PICK j : j = job[q]
        OBVIOUS
      <4>3. PagedAt(j)'
        BY <1>2, <1>5, <4>1, <4>2, PagedKept DEF Mine
      <4>4. j = job'[q]
        BY <4>1, <4>2
      <4> QED
        BY <4>3, <4>4
    <3> QED
      BY <3>1, <3>2
  <2> QED
    BY <2>2, <2>3 DEF Window
<1> QED
  BY <1>4, <1>5

\* Steps of webhooks are about single changes, and the watermark is not theirs.
LEMMA WindowHook ==
  ASSUME IInv, Window, NEW h \in Hooks, HookCall(h) \/ Update(h)
  PROVE  Window'
<1>1. h \in Processes /\ h \notin Batches
  BY ConstantsAssumption DEF Processes
<1>2. CASE HookCall(h)
  <2>1. OthersWait(h) /\ UNCHANGED <<log, config, missed, handled>>
    BY <1>2, HookCallStep DEF tables, history
  <2> QED
    BY <1>1, <2>1, WindowStep
<1>3. CASE Update(h)
  <2>1. OthersWait(h) /\ UNCHANGED <<log, config, missed>> /\ handled \subseteq handled'
    BY <1>1, <1>3, UpdateStep DEF ItemDone, Deal
  <2> QED
    BY <1>1, <2>1, WindowStep
<1> QED
  BY <1>2, <1>3

\* The log grows: what is new is later than every watermark and every run.
LEMMA WindowHost ==
  ASSUME IInv, Window, Open \/ Edit \/ Delete
  PROVE  Window'
<1>1. /\ Now < MaxChanges /\ UNCHANGED <<config, handled, missed>>
      /\ \E e \in Change : log' = Append(log, e)
  BY HostChanges DEF tables, history
<1>2. LostOnlyInWindow'
  <2>1. ASSUME NEW c \in List(0)', c <= config.since PROVE c \in handled \union missed
    <3>1. c <= Now
      <4>1. c \in DOMAIN log' /\ config.since \in Nat /\ Now \in Nat /\ config.since <= Now
        BY Types DEF List, IInv, TypeOK, Config, WatermarkOK
      <4>2. c \in Nat
        BY <1>1, <4>1, AppendChange, Types
      <4> QED
        BY <2>1, <4>1, <4>2
    <3>2. c \in List(0)
      BY <1>1, <2>1, <3>1, ListedBefore
    <3> QED
      BY <2>1, <3>2 DEF Window, LostOnlyInWindow
  <2> QED
    BY <1>1, <2>1 DEF LostOnlyInWindow
<1>3. ASSUME NEW b \in Batches PROVE PagedAt(job[b])'
  <2> PICK j : j = job[b]
    OBVIOUS
  <2> PICK k : k = job'[b]
    OBVIOUS
  <2>1. b \in Processes
    BY DEF Processes
  <2>2. PagedAt(j) /\ j.since \in Nat /\ j.began \in Nat /\ j.since <= Now /\ j.began <= Now
        /\ Now \in Nat /\ j.page \in Nat
    BY <2>1, JobTypes, Types DEF Window, IInv, LocalsOK, LocalOK
  <2>3. ASSUME NEW c \in List(j.since)', c <= j.began
        PROVE  c \in List(j.since) /\ c <= Now
    <3>1. c \in Nat
      <4>1. c \in DOMAIN log'
        BY DEF List
      <4> QED
        BY <1>1, <4>1, AppendChange, Types
    <3>2. c <= Now
      BY <2>2, <2>3, <3>1
    <3> QED
      BY <1>1, <2>3, <3>2, ListedBefore
  <2>4. CASE Open \/ Edit
    <3>1. k = j
      BY <2>4 DEF Open, Edit
    <3>2. PICK e \in Change : log' = Append(log, e) /\ e.action # Deleted
      <4>1. LogOK
        BY Types
      <4>2. CASE Open
        BY <4>2 DEF Open, Change, Opened, Deleted
      <4>3. CASE Edit
        <5>1. PICK c \in List(0), a \in Actions :
                 log' = Append(log, [issue |-> log[c].issue, action |-> a])
          BY <4>3 DEF Edit
        <5>2. log[c].issue \in Numbers /\ a # Deleted
          BY <4>1, ListFacts, Types, ConstantsAssumption
        <5> QED
          BY <5>1, <5>2 DEF Change
      <4> QED
        BY <2>4, <4>2, <4>3
    <3>3. ASSUME NEW c \in List(j.since)', c <= j.began, NEW n \in Nat,
                 Rank(List(j.since), c)' < n
          PROVE  c \in List(j.since) /\ Rank(List(j.since), c) < n
      <4>1. c \in List(j.since) /\ c <= Now
        BY <2>3, <3>3
      <4>2. /\ Rank(List(j.since), c) \in Nat /\ Rank(List(j.since), c)' \in Nat
            /\ Rank(List(j.since), c) <= Rank(List(j.since), c)'
        BY <1>1, <2>2, <3>2, <3>3, <4>1, RankGrows
      <4> QED
        BY <3>3, <4>1, <4>2
    <3>4. j.pc # "idle" => From(j.page) \in Nat /\ From(j.page + 1) \in Nat
      BY RunFacts, ConstantsAssumption
    <3>5. ASSUME ~j.partial, config.live, j.config = config.id,
                 NEW c \in List(j.since)', c <= j.began
          PROVE  /\ j.pc = "fetch" /\ Rank(List(j.since), c)' < From(j.page) => c \in handled
                 /\ j.pc \in OnItem /\ Rank(List(j.since), c)' < From(j.page + 1) =>
                       c \in handled \/ InHandOf(j, c)
                 /\ j.pc = "finish" => c \in handled
      <4>1. c \in List(j.since)
        BY <2>3, <3>5
      <4>2. ASSUME j.pc = "fetch", Rank(List(j.since), c)' < From(j.page)
            PROVE  c \in handled
        <5>1. Rank(List(j.since), c) < From(j.page)
          BY <3>3, <3>4, <3>5, <4>2
        <5> QED
          BY <2>2, <3>5, <4>1, <4>2, <5>1 DEF PagedAt
      <4>3. ASSUME j.pc \in OnItem, Rank(List(j.since), c)' < From(j.page + 1)
            PROVE  c \in handled \/ InHandOf(j, c)
        <5>1. j.pc # "idle"
          BY <4>3 DEF OnItem
        <5>2. Rank(List(j.since), c) < From(j.page + 1)
          BY <3>3, <3>4, <3>5, <4>3, <5>1
        <5> QED
          BY <2>2, <3>5, <4>1, <4>3, <5>2 DEF PagedAt
      <4>4. ASSUME j.pc = "finish" PROVE c \in handled
        BY <2>2, <3>5, <4>1, <4>4 DEF PagedAt
      <4> QED
        BY <4>2, <4>3, <4>4
    <3>6. PagedAt(j)'
      BY <1>1, <3>5 DEF PagedAt, From, InHandOf
    <3> QED
      BY <3>1, <3>6
  <2>5. CASE Delete
    <3>1. k.partial \/ (k = j /\ j.pc \in {"idle", "finish"})
      BY <2>5, DeleteEffect
    <3>2. CASE k.partial
      <4>1. PagedAt(k)'
        BY <3>2, PagedOver
      <4> QED
        BY <4>1
    <3>3. CASE k = j /\ j.pc \in {"idle", "finish"}
      <4>1. j.pc \notin OnItem /\ j.pc # "fetch"
        BY <3>3 DEF OnItem
      <4>2. PagedAt(j)'
        BY <1>1, <2>2, <2>3, <4>1 DEF PagedAt
      <4> QED
        BY <3>3, <4>2
    <3> QED
      BY <3>1, <3>2, <3>3
  <2> QED
    BY <2>4, <2>5
<1> QED
  BY <1>2, <1>3 DEF Window

\* What the watermark passes, in every step.
LEMMA WindowNext ==
  ASSUME IInv, Window, [Next]_vars
  PROVE  Window'
<1>1. CASE Open \/ Edit \/ Delete
  BY <1>1, WindowHost
<1>2. CASE UpdateConfig \/ DeleteConfig
  <2>1. /\ UNCHANGED <<log, job, handled, missed>>
        /\ config'.live => config.live /\ config'.since = config.since
        /\ config'.id = config.id
    BY <1>2, ConfigStep DEF history
  <2>2. ~config'.live => config'.since = 0
    BY <1>2, ConfigStep DEF IInv, WatermarkOK
  <2>3. List(0)' = List(0) /\ \A c \in List(0) : c > 0 /\ c \in Nat
    <3>1. List(0)' = List(0)
      BY <2>1, ListSame
    <3>2. \A c \in List(0) : c > 0 /\ c \in Nat
      BY Types DEF List
    <3> QED
      BY <3>1, <3>2
  <2>4. LostOnlyInWindow'
    BY <2>1, <2>2, <2>3 DEF Window, LostOnlyInWindow
  <2>5. ASSUME NEW b \in Batches PROVE PagedAt(job[b])'
    <3>1. PICK j : j = job[b]
      OBVIOUS
    <3>2. PagedAt(j)'
      BY <2>1, <3>1, PagedKept DEF Window
    <3> QED
      BY <2>1, <3>1, <3>2
  <2> QED
    BY <2>4, <2>5 DEF Window
<1>3. ASSUME NEW b \in Batches, BatchBegin(b) \/ BatchStep(b) \/ Break(b) \/ Crash(b)
      PROVE  Window'
  BY <1>3, WindowBatch, WindowFinish DEF BatchStep
<1>4. ASSUME NEW h \in Hooks, HookCall(h) \/ Update(h) PROVE Window'
  BY <1>4, WindowHook
<1>5. CASE CreateConfig
  <2>1. /\ UNCHANGED <<log, job>> /\ config'.since = 0
        /\ \A p \in Processes : job[p].config # config'.id
    BY <1>5, CreateConfigStep
  <2>2. List(0)' = List(0) /\ \A c \in List(0) : c > 0 /\ c \in Nat
    <3>1. List(0)' = List(0)
      BY <2>1, ListSame
    <3>2. \A c \in List(0) : c > 0 /\ c \in Nat
      BY Types DEF List
    <3> QED
      BY <3>1, <3>2
  <2>3. LostOnlyInWindow'
    BY <2>1, <2>2 DEF LostOnlyInWindow
  <2>4. ASSUME NEW b \in Batches PROVE PagedAt(job[b])'
    <3>1. PICK j : j = job[b]
      OBVIOUS
    <3>2. j.config # config'.id /\ j = job'[b]
      BY <2>1, <3>1 DEF Processes
    <3>3. PagedAt(j)'
      BY <3>2 DEF PagedAt
    <3> QED
      BY <3>2, <3>3
  <2> QED
    BY <2>3, <2>4 DEF Window
<1>6. CASE UNCHANGED vars
  <2>1. UNCHANGED <<log, config, job, handled, missed>>
    BY <1>6 DEF vars
  <2>2. List(0)' = List(0)
    BY <2>1, ListSame
  <2>3. LostOnlyInWindow'
    BY <2>1, <2>2 DEF Window, LostOnlyInWindow
  <2>4. ASSUME NEW b \in Batches PROVE PagedAt(job[b])'
    <3>1. PICK j : j = job[b]
      OBVIOUS
    <3>2. PagedAt(j)'
      BY <2>1, <3>1, PagedKept DEF Window
    <3> QED
      BY <2>1, <3>1, <3>2
  <2> QED
    BY <2>3, <2>4 DEF Window
<1> QED
  BY <1>1, <1>2, <1>3, <1>4, <1>5, <1>6 DEF Next

\* A change behind the watermark that was not dealt with was made while a run was
\* under way, or is one of a run that broke off or whose pages moved.
THEOREM LostOnlyInWindowTheorem == Spec => []LostOnlyInWindow
<1>1. Init => Window
  <2> SUFFICES ASSUME Init PROVE Window
    OBVIOUS
  <2>1. List(0) = {}
    BY DEF Init, List
  <2>2. \A b \in Batches : job[b] = Idle
    BY DEF Init, Processes
  <2>3. PagedAt(Idle)
    BY DEF PagedAt, Idle, OnItem
  <2> QED
    BY <2>1, <2>2, <2>3 DEF Window, LostOnlyInWindow
<1>2. IInv /\ Window /\ [Next]_vars => Window'
  BY WindowNext
<1>3. Window => LostOnlyInWindow
  BY DEF Window
<1> QED
  BY <1>1, <1>2, <1>3, Invariant, PTL DEF Spec

-----------------------------------------------------------------------------
(***************************************************************************)
(* The rows of an issue.  As long as it has no mapping, its rows are those *)
(* that a batch is about to map, those whose run was interrupted, and what *)
(* earlier configurations left; so a batch that finds no mapping adds one  *)
(* to at most as many as there are other batches and rows accounted for.   *)
(***************************************************************************)
Rows(i) == {k \in DOMAIN issues : issues[k].of = i}
AtPlace(place, i) ==
    {b \in Batches : job[b].config = config.id /\ job[b].pc = place /\ Issue(b) = i}

\* The rows that faults and the configurations that are gone may have left.
Allowed == Cardinality(Batches) * (config.id - 1) + faults

CountAt(i) ==
    /\ Cardinality(Rows(i)) <= Cardinality(Batches) + Allowed
    /\ config.live =>
          Cardinality(Rows(i)) + Cardinality(AtPlace("create", i))
              <= Cardinality(Batches) + Allowed
    /\ config.live /\ MappingsOf(i) = {} =>
          Cardinality(Rows(i)) <= Cardinality(AtPlace("map", i)) + Allowed

CountOK == \A i \in Numbers : CountAt(i)

\* What is allowed for is a number; it grows with the faults, and by a row for each
\* batch with a new configuration.
LEMMA AllowedFacts ==
  ASSUME IInv
  PROVE  /\ Allowed \in Nat
         /\ Cardinality(Batches) + Allowed = Cardinality(Batches) * config.id + faults
         /\ faults' \in Nat /\ config'.id = config.id =>
               Allowed' \in Nat /\ Allowed' - Allowed = faults' - faults
         /\ faults' = faults /\ config'.id = config.id + 1 =>
               Allowed' = Cardinality(Batches) + Allowed
<1>1. PICK n \in Nat : n = Cardinality(Batches)
  BY ConstantsAssumption, FS_CardinalityType
<1>2. config.id \in Nat /\ config.id >= 1 /\ faults \in Nat
  BY DEF IInv, TypeOK, Config, WatermarkOK
<1>3. PICK m \in Nat : m + 1 = config.id
  <2>1. config.id - 1 \in Nat /\ (config.id - 1) + 1 = config.id
    BY <1>2
  <2> QED
    BY <2>1
<1>4. n * m \in Nat /\ n * (m + 1) = n * m + n
  OBVIOUS
<1>5. config.id - 1 = m /\ (config.id + 1) - 1 = m + 1
  BY <1>2, <1>3
<1>6. Allowed = n * m + faults
  BY <1>1, <1>5 DEF Allowed
<1>7. config'.id = config.id => Allowed' = n * m + faults'
  BY <1>1, <1>5 DEF Allowed
<1>8. config'.id = config.id + 1 => Allowed' = n * (m + 1) + faults'
  BY <1>1, <1>5 DEF Allowed
<1>9. PICK k \in Nat : k = n * m /\ n * (m + 1) = k + n
  BY <1>4
<1>10. Allowed \in Nat /\ n + Allowed = n * (m + 1) + faults
  BY <1>2, <1>6, <1>9
<1>11. ASSUME faults' \in Nat, config'.id = config.id
       PROVE  Allowed' \in Nat /\ Allowed' - Allowed = faults' - faults
  <2>1. Allowed = k + faults /\ Allowed' = k + faults'
    BY <1>6, <1>7, <1>9, <1>11
  <2>2. faults \in Nat /\ faults' \in Nat
    BY <1>2, <1>11
  <2>3. PICK f \in Nat, g \in Nat : f = faults /\ g = faults'
    BY <2>2
  <2>4. k + f \in Nat /\ k + g \in Nat /\ (k + g) - (k + f) = g - f
    OBVIOUS
  <2> QED
    BY <2>1, <2>3, <2>4
<1>12. ASSUME faults' = faults, config'.id = config.id + 1
       PROVE  Allowed' = n + Allowed
  <2>1. Allowed = k + faults /\ Allowed' = k + n + faults
    BY <1>6, <1>8, <1>9, <1>12
  <2> QED
    BY <1>2, <1>9, <2>1
<1> QED
  BY <1>1, <1>3, <1>10, <1>11, <1>12

\* What is counted is finite.
LEMMA CountTypes ==
  ASSUME IInv, NEW i
  PROVE  /\ IsFiniteSet(Rows(i)) /\ Cardinality(Rows(i)) \in Nat
         /\ \A place : /\ IsFiniteSet(AtPlace(place, i))
                       /\ Cardinality(AtPlace(place, i)) \in Nat
         /\ IsFiniteSet(Batches) /\ Cardinality(Batches) \in Nat /\ Allowed \in Nat
         /\ faults \in Nat
<1>1. IsFiniteSet(DOMAIN issues)
  BY Types, FS_Interval
<1>2. Rows(i) \subseteq DOMAIN issues
  BY DEF Rows
<1>3. IsFiniteSet(Rows(i)) /\ Cardinality(Rows(i)) \in Nat
  BY <1>1, <1>2, FS_Subset, FS_CardinalityType
<1>4. IsFiniteSet(Batches) /\ Cardinality(Batches) \in Nat
  BY ConstantsAssumption, FS_CardinalityType
<1>5. ASSUME NEW place
      PROVE  IsFiniteSet(AtPlace(place, i)) /\ Cardinality(AtPlace(place, i)) \in Nat
  <2>1. AtPlace(place, i) \subseteq Batches
    BY DEF AtPlace
  <2> QED
    BY <1>4, <2>1, FS_Subset, FS_CardinalityType
<1> QED
  BY <1>3, <1>4, <1>5, AllowedFacts DEF IInv, TypeOK

\* Without a fault and a new configuration, what is allowed for stays.
LEMMA AllowedKept ==
  ASSUME faults' = faults, config'.id = config.id
  PROVE  Allowed' = Allowed
  BY DEF Allowed

\* A step that makes no row and sets nobody to make one.
LEMMA CountNoCreate ==
  ASSUME IInv, NEW i \in Numbers, CountAt(i), Rows(i)' = Rows(i),
         AtPlace("create", i)' \subseteq AtPlace("create", i),
         Allowed' \in Nat, Allowed' >= Allowed, config'.live => config.live,
         config'.live /\ MappingsOf(i)' = {} =>
            /\ MappingsOf(i) = {}
            /\ Cardinality(AtPlace("map", i))' + Allowed'
                  >= Cardinality(AtPlace("map", i)) + Allowed
            /\ Cardinality(AtPlace("map", i))' \in Nat
  PROVE  CountAt(i)'
<1>1. /\ Cardinality(Rows(i)) \in Nat /\ Cardinality(Batches) \in Nat /\ Allowed \in Nat
      /\ IsFiniteSet(AtPlace("create", i)) /\ Cardinality(AtPlace("create", i)) \in Nat
      /\ Cardinality(AtPlace("map", i)) \in Nat
  BY CountTypes
<1>2. /\ Cardinality(AtPlace("create", i))' \in Nat
      /\ Cardinality(AtPlace("create", i))' <= Cardinality(AtPlace("create", i))
  <2> DEFINE S == AtPlace("create", i)
             T == AtPlace("create", i)'
  <2>1. T \subseteq S /\ IsFiniteSet(S)
    BY <1>1
  <2> HIDE DEF S, T
  <2>2. Cardinality(T) \in Nat /\ Cardinality(T) <= Cardinality(S)
    BY <2>1, FS_Subset, FS_CardinalityType
  <2> QED
    BY <2>2 DEF S, T
<1>3. Cardinality(Rows(i))' = Cardinality(Rows(i))
  OBVIOUS
<1>4. Cardinality(Rows(i))' <= Cardinality(Batches) + Allowed'
  BY <1>1, <1>3 DEF CountAt
<1>5. ASSUME config'.live
      PROVE  Cardinality(Rows(i))' + Cardinality(AtPlace("create", i))'
                <= Cardinality(Batches) + Allowed'
  BY <1>1, <1>2, <1>3, <1>5 DEF CountAt
<1>6. ASSUME config'.live, MappingsOf(i)' = {}
      PROVE  Cardinality(Rows(i))' <= Cardinality(AtPlace("map", i))' + Allowed'
  BY <1>1, <1>3, <1>6 DEF CountAt
<1> QED
  BY <1>4, <1>5, <1>6 DEF CountAt

\* The batches that step p does not move are where they were.
LEMMA OthersAtPlace ==
  ASSUME NEW p \in Processes, OthersWait(p), UNCHANGED log, config'.id = config.id, NEW place, NEW i
  PROVE  AtPlace(place, i)' \ {p} = AtPlace(place, i) \ {p}
<1>1. \A b \in Batches : b \in Processes
  BY DEF Processes
<1>2. ASSUME NEW b \in Batches, b # p PROVE job'[b] = job[b] /\ Issue(b)' = Issue(b)
  BY <1>1, <1>2 DEF OthersWait, Issue, Content
<1> QED
  BY <1>2 DEF AtPlace

\* A process that is not at the place, before and after, does not count there.
LEMMA AtPlaceKept ==
  ASSUME NEW p \in Processes, OthersWait(p), UNCHANGED log, config'.id = config.id,
         NEW place, NEW i,
         p \notin Batches \/ (job[p].pc # place /\ job'[p].pc # place)
  PROVE  AtPlace(place, i)' = AtPlace(place, i)
<1>1. p \notin AtPlace(place, i) /\ p \notin AtPlace(place, i)'
  BY DEF AtPlace
<1>2. AtPlace(place, i)' \ {p} = AtPlace(place, i) \ {p}
  BY OthersAtPlace
<1> QED
  BY <1>1, <1>2

\* A step of a process that is not at either place.
LEMMA CountQuiet ==
  ASSUME IInv, CountOK, NEW p \in Processes, OthersWait(p), UNCHANGED log,
         \/ p \notin Batches
         \/ job[p].pc \notin {"create", "map"} /\ job'[p].pc \notin {"create", "map"},
         RowsStay, DOMAIN issues' = DOMAIN issues, mappings' = mappings, faults' = faults,
         config'.live => config.live, config'.id = config.id
  PROVE  CountOK'
<1>1. ASSUME NEW i \in Numbers PROVE CountAt(i)'
  <2>1. AtPlace("create", i)' = AtPlace("create", i) /\ AtPlace("map", i)' = AtPlace("map", i)
    BY AtPlaceKept
  <2>2. Rows(i)' = Rows(i) /\ MappingsOf(i)' = MappingsOf(i)
    BY DEF Rows, RowsStay, MappingsOf
  <2>3. CountAt(i) /\ faults \in Nat /\ Allowed \in Nat /\ Allowed' = Allowed /\ Cardinality(AtPlace("map", i)) \in Nat
    BY CountTypes, AllowedKept DEF CountOK
  <2>4. Cardinality(AtPlace("map", i))' = Cardinality(AtPlace("map", i))
    BY <2>1
  <2>5. Allowed' >= Allowed
        /\ Cardinality(AtPlace("map", i))' + Allowed' >= Cardinality(AtPlace("map", i)) + Allowed
    BY <2>3, <2>4
  <2> QED
    BY <2>1, <2>2, <2>3, <2>4, <2>5, CountNoCreate
<1> QED
  BY <1>1 DEF CountOK

\* A process that is not at the place afterwards has left it, if it was there.
LEMMA AtPlaceLeft ==
  ASSUME NEW p \in Processes, OthersWait(p), UNCHANGED log, config'.id = config.id,
         NEW place, NEW i,
         job'[p].pc # place
  PROVE  AtPlace(place, i)' = AtPlace(place, i) \ {p}
<1>1. p \notin AtPlace(place, i)'
  BY DEF AtPlace
<1>2. AtPlace(place, i)' \ {p} = AtPlace(place, i) \ {p}
  BY OthersAtPlace
<1> QED
  BY <1>1, <1>2

\* A batch that finds no mapping is one of those that may make a row.
LEMMA CountLookup ==
  ASSUME IInv, CountOK, NEW b \in Batches, Lookup(b)
  PROVE  CountOK'
<1>1. b \in Processes /\ job[b].pc = "lookup"
  BY DEF Processes, Lookup, At
<1>2. /\ OthersWait(b) /\ UNCHANGED <<log, config, issues, mappings>>
      /\ job'[b].pc \in {"create", "update"} /\ Issue(b)' = Issue(b)
      /\ job'[b].pc = "create" => Found(b) = {}
      /\ job'[b].config = job[b].config
  BY LookupStep DEF tables, SameRun
<1>3. faults' = faults /\ Allowed' = Allowed
  BY <1>2, AllowedKept DEF Lookup
<1>4. CASE job'[b].pc = "update"
  <2>1. RowsStay
    BY <1>2 DEF RowsStay
  <2> QED
    BY <1>1, <1>2, <1>3, <1>4, <2>1, CountQuiet
<1>5. ASSUME job'[b].pc = "create", NEW i \in Numbers
      PROVE  CountAt(i)'
  <2> DEFINE C == AtPlace("create", i)
             M == AtPlace("map", i)
             R == Rows(i)
  <2>1. CountAt(i)
    BY DEF CountOK
  <2>2. /\ IsFiniteSet(C) /\ IsFiniteSet(M) /\ Cardinality(C) \in Nat /\ Cardinality(M) \in Nat
        /\ Cardinality(R) \in Nat /\ Cardinality(Batches) \in Nat /\ Allowed \in Nat
        /\ IsFiniteSet(Batches)
    BY CountTypes
  <2>3. AtPlace("map", i)' = M /\ Rows(i)' = R /\ MappingsOf(i)' = MappingsOf(i)
    BY <1>1, <1>2, <1>5, AtPlaceKept DEF Rows, MappingsOf
  <2>4. Cardinality(AtPlace("map", i))' = Cardinality(M) /\ Cardinality(Rows(i))' = Cardinality(R)
    BY <2>3
  <2>5. AtPlace("create", i)' \ {b} = C \ {b} /\ b \notin C
    BY <1>1, <1>2, OthersAtPlace DEF AtPlace
  <2>6. CASE Issue(b) # i \/ job[b].config # config.id
    <3>1. b \notin AtPlace("create", i)'
      BY <1>2, <2>6 DEF AtPlace
    <3>2. AtPlace("create", i)' = C
      BY <2>5, <3>1
    <3>3. Cardinality(AtPlace("create", i))' = Cardinality(C)
      BY <3>2
    <3> QED
      BY <1>2, <1>3, <2>1, <2>3, <2>4, <3>3 DEF CountAt
  <2>7. CASE Issue(b) = i /\ job[b].config = config.id
    <3>1. b \in AtPlace("create", i)'
      BY <1>2, <1>5, <2>7 DEF AtPlace
    <3>2. AtPlace("create", i)' = C \union {b}
      BY <2>5, <3>1
    <3>3. C \subseteq Batches /\ M \subseteq Batches \ {b} /\ C \subseteq Batches \ {b}
          /\ C \intersect M = {}
      BY <1>1 DEF AtPlace
    <3>4. Cardinality(AtPlace("create", i))' = Cardinality(C) + 1
      <4>1. Cardinality(AtPlace("create", i))' = Cardinality(C \union {b})
        BY <3>2
      <4> HIDE DEF C
      <4> QED
        BY <2>2, <2>5, <4>1, FS_AddElement
    <3>5. Cardinality(C) + Cardinality(M) + 1 <= Cardinality(Batches)
      <4> HIDE DEF C, M
      <4>1. IsFiniteSet(C \union M)
            /\ Cardinality(C \union M) = Cardinality(C) + Cardinality(M) - Cardinality(C \intersect M)
        BY <2>2, FS_Union
      <4>2. Cardinality(C \intersect M) = 0
        BY <3>3, FS_EmptySet
      <4>3. /\ IsFiniteSet(Batches \ {b})
            /\ Cardinality(Batches \ {b}) = Cardinality(Batches) - 1
        BY <2>2, FS_RemoveElement
      <4>4. C \union M \subseteq Batches \ {b}
        BY <3>3
      <4>5. Cardinality(C \union M) <= Cardinality(Batches \ {b})
        BY <4>3, <4>4, FS_Subset
      <4> QED
        BY <2>2, <4>1, <4>2, <4>3, <4>5
    <3>6. config.live => MappingsOf(i) = {}
      BY <1>2, <1>5, <2>7 DEF Found, Mine
    <3> HIDE DEF C, M, R
    <3>7. config.live => Cardinality(R) <= Cardinality(M) + Allowed
      BY <2>1, <3>6 DEF CountAt, R, M
    <3>8. Cardinality(R) <= Cardinality(Batches) + Allowed
      BY <2>1 DEF CountAt, R
    <3>9. config.live => Cardinality(R) + (Cardinality(C) + 1) <= Cardinality(Batches) + Allowed
      BY <2>2, <3>5, <3>7
    <3> QED
      BY <1>2, <1>3, <2>3, <2>4, <3>4, <3>7, <3>8, <3>9 DEF CountAt
  <2> QED
    BY <2>6, <2>7
<1> QED
  BY <1>2, <1>4, <1>5 DEF CountOK

\* A row that is made is about to be mapped.
LEMMA CountMade ==
  ASSUME IInv, CountOK, NEW b \in Batches, job[b].pc = "create", Made(b), OthersWait(b),
         UNCHANGED <<log, config, mappings, faults>>
  PROVE  CountOK'
<1>1. b \in Processes /\ job[b].pc \in OnItem
  BY DEF Processes, OnItem
<1>2. /\ job'[b].pc = "map" /\ Issue(b)' = Issue(b) /\ config.creates
      /\ job'[b].config = job[b].config /\ job[b].config = config.id
      /\ issues' = Append(issues, [of |-> Issue(b), content |-> Content(b)])
  BY DEF Made, Mine, SameRun
<1>3. Content(b) \in DOMAIN log /\ Content(b) \in Instants /\ Issue(b) \in Numbers
  BY <1>1, InHand
<1>4. /\ DOMAIN issues' = DOMAIN issues \union {Len(issues) + 1}
      /\ Len(issues) + 1 \notin DOMAIN issues /\ issues'[Len(issues) + 1].of = Issue(b)
      /\ \A k \in DOMAIN issues : issues'[k] = issues[k]
  <2> DEFINE row == [of |-> Issue(b), content |-> Content(b)]
  <2>1. row \in IssueRow /\ row.content \in DOMAIN log /\ log[row.content].issue = row.of
    BY <1>3 DEF IssueRow, Issue
  <2>2. issues' = Append(issues, row) /\ row.of = Issue(b)
    BY <1>2
  <2> HIDE DEF row
  <2> QED
    BY <2>1, <2>2, AppendRow
<1>5. config.live
  BY <1>2 DEF IInv, WatermarkOK
<1>6. ASSUME NEW i \in Numbers PROVE CountAt(i)'
  <2> DEFINE C == AtPlace("create", i)
             M == AtPlace("map", i)
             R == Rows(i)
             n == Len(issues) + 1
  <2>1. CountAt(i)
    BY DEF CountOK
  <2>2. /\ IsFiniteSet(C) /\ IsFiniteSet(M) /\ Cardinality(C) \in Nat /\ Cardinality(M) \in Nat
        /\ Cardinality(R) \in Nat /\ Cardinality(Batches) \in Nat /\ Allowed \in Nat
        /\ IsFiniteSet(R) /\ Allowed' = Allowed
    BY CountTypes, AllowedKept
  <2>3. AtPlace("create", i)' = C \ {b}
    BY <1>1, <1>2, AtPlaceLeft
  <2>4. AtPlace("map", i)' \ {b} = M \ {b} /\ b \notin M
    BY <1>1, OthersAtPlace DEF AtPlace
  <2>5. MappingsOf(i)' = MappingsOf(i)
    BY DEF MappingsOf
  <2>6. CASE Issue(b) # i
    <3>1. b \notin AtPlace("map", i)' /\ b \notin C
      BY <1>2, <2>6 DEF AtPlace
    <3>2. AtPlace("map", i)' = M /\ AtPlace("create", i)' = C
      BY <2>3, <2>4, <3>1
    <3>3. Rows(i)' = R
      BY <1>4, <2>6 DEF Rows
    <3>4. Cardinality(AtPlace("map", i))' = Cardinality(M)
          /\ Cardinality(AtPlace("create", i))' = Cardinality(C)
          /\ Cardinality(Rows(i))' = Cardinality(R)
      BY <3>2, <3>3
    <3> QED
      BY <2>1, <2>2, <2>5, <3>4 DEF CountAt
  <2>7. CASE Issue(b) = i
    <3>1. b \in AtPlace("map", i)' /\ b \in C
      BY <1>2, <2>7 DEF AtPlace
    <3>2. AtPlace("map", i)' = M \union {b}
      BY <2>4, <3>1
    <3>3. Rows(i)' = R \union {n} /\ n \notin R
      BY <1>4, <2>7 DEF Rows
    <3> HIDE DEF C, M, R, n
    <3>4. Cardinality(AtPlace("map", i))' = Cardinality(M) + 1
      <4>1. Cardinality(AtPlace("map", i))' = Cardinality(M \union {b})
        BY <3>2
      <4> QED
        BY <2>2, <2>4, <4>1, FS_AddElement
    <3>5. Cardinality(AtPlace("create", i))' = Cardinality(C) - 1
      <4>1. Cardinality(AtPlace("create", i))' = Cardinality(C \ {b})
        BY <2>3
      <4> QED
        BY <2>2, <3>1, <4>1, FS_RemoveElement
    <3>6. Cardinality(Rows(i))' = Cardinality(R) + 1
      <4>1. Cardinality(Rows(i))' = Cardinality(R \union {n})
        BY <3>3
      <4> QED
        BY <2>2, <3>3, <4>1, FS_AddElement
    <3>7. Cardinality(C) >= 1
      BY <2>2, <3>1, FS_EmptySet
    <3>8. /\ Cardinality(R) + Cardinality(C) <= Cardinality(Batches) + Allowed
          /\ MappingsOf(i) = {} => Cardinality(R) <= Cardinality(M) + Allowed
      BY <1>5, <2>1 DEF CountAt, R, C, M
    <3>9. /\ Cardinality(R) + 1 <= Cardinality(Batches) + Allowed
          /\ (Cardinality(R) + 1) + (Cardinality(C) - 1) <= Cardinality(Batches) + Allowed
          /\ MappingsOf(i) = {} => Cardinality(R) + 1 <= (Cardinality(M) + 1) + Allowed
      BY <2>2, <3>7, <3>8
    <3> QED
      BY <2>2, <2>5, <3>4, <3>5, <3>6, <3>9 DEF CountAt
  <2> QED
    BY <2>6, <2>7
<1> QED
  BY <1>6 DEF CountOK

\* A batch that leaves its place makes no row; when it was about to map one, the issue
\* is mapped, or the configuration has gone, or it is a fault that is counted.
LEMMA CountLeft ==
  ASSUME IInv, CountOK, NEW b \in Batches, OthersWait(b),
         UNCHANGED <<log, config>>, RowsStay, DOMAIN issues' = DOMAIN issues,
         mappings \subseteq mappings', faults' \in Nat, faults' >= faults,
         job'[b].pc \notin {"create", "map"},
         \/ job[b].pc # "map" \/ ~Mine(b) \/ faults' >= faults + 1
         \/ \E m \in mappings' : m.external = Issue(b)
  PROVE  CountOK'
<1>1. b \in Processes
  BY DEF Processes
<1>2. ASSUME NEW i \in Numbers PROVE CountAt(i)'
  <2> DEFINE M == AtPlace("map", i)
  <2>1. AtPlace("create", i)' = AtPlace("create", i) \ {b} /\ AtPlace("map", i)' = M \ {b}
    BY <1>1, AtPlaceLeft
  <2>2. Rows(i)' = Rows(i)
    BY DEF Rows, RowsStay
  <2>3. /\ CountAt(i) /\ IsFiniteSet(M) /\ Cardinality(M) \in Nat /\ faults \in Nat
        /\ Allowed \in Nat /\ Allowed' \in Nat /\ Allowed' - Allowed = faults' - faults
    BY CountTypes, AllowedFacts DEF CountOK
  <2>4. Cardinality(AtPlace("map", i))' = Cardinality(M \ {b})
    BY <2>1
  <2>5. /\ Cardinality(M \ {b}) \in Nat
        /\ Cardinality(M \ {b}) = IF b \in M THEN Cardinality(M) - 1 ELSE Cardinality(M)
    <3> HIDE DEF M
    <3> QED
      BY <2>3, FS_RemoveElement, FS_CardinalityType
  <2>6. MappingsOf(i)' = {} => MappingsOf(i) = {}
    BY DEF MappingsOf
  <2>7. ASSUME config'.live, MappingsOf(i)' = {}
        PROVE  Cardinality(AtPlace("map", i))' + Allowed' >= Cardinality(M) + Allowed
    <3>1. CASE b \notin M
      BY <2>3, <2>4, <2>5, <3>1
    <3>2. CASE b \in M
      <4>1. job[b].pc = "map" /\ Issue(b) = i /\ job[b].config = config.id
        BY <3>2 DEF AtPlace
      <4>2. faults' >= faults + 1
        <5>1. ~\E m \in mappings' : m.external = Issue(b)
          BY <2>7, <4>1 DEF MappingsOf
        <5> QED
          BY <2>7, <4>1, <5>1 DEF Mine
      <4> QED
        BY <2>3, <2>4, <2>5, <3>2, <4>2
    <3> QED
      BY <3>1, <3>2
  <2>8. Allowed' >= Allowed
    BY <2>3
  <2> QED
    BY <2>1, <2>2, <2>3, <2>4, <2>5, <2>6, <2>7, <2>8, CountNoCreate
<1> QED
  BY <1>2 DEF CountOK

\* What becomes of the host leaves everybody where they were.
LEMMA CountHost ==
  ASSUME IInv, CountOK, Open \/ Edit \/ Delete
  PROVE  CountOK'
<1>1. /\ Now < MaxChanges /\ UNCHANGED <<config, issues, mappings, faults>>
      /\ \E e \in Change : log' = Append(log, e)
  BY HostChanges DEF tables
<1>2. LogGrows
  BY <1>1, AppendChange
<1>3. \A q \in Processes : KeepsPlace(q)
  <2>1. CASE Open \/ Edit
    BY <2>1 DEF Open, Edit, KeepsPlace
  <2>2. CASE Delete
    BY <2>2, DeleteEffect
  <2> QED
    BY <1>1, <2>1, <2>2
<1>4. ASSUME NEW b \in Batches
      PROVE  job'[b].pc = job[b].pc /\ job'[b].config = job[b].config
             /\ (job[b].pc \in OnItem => Issue(b)' = Issue(b))
  <2>1. b \in Processes
    BY DEF Processes
  <2>2. job[b].pc \in OnItem => Content(b) \in DOMAIN log
    BY <2>1, InHand
  <2> QED
    BY <1>2, <1>3, <2>1, <2>2 DEF KeepsPlace, LogGrows, Issue, Content
<1>5. ASSUME NEW i \in Numbers PROVE CountAt(i)'
  <2>1. AtPlace("create", i)' = AtPlace("create", i) /\ AtPlace("map", i)' = AtPlace("map", i)
    BY <1>1, <1>4 DEF AtPlace, OnItem
  <2>2. Rows(i)' = Rows(i) /\ MappingsOf(i)' = MappingsOf(i)
    BY <1>1 DEF Rows, MappingsOf
  <2>3. /\ Cardinality(AtPlace("create", i))' = Cardinality(AtPlace("create", i))
        /\ Cardinality(AtPlace("map", i))' = Cardinality(AtPlace("map", i))
        /\ Cardinality(Rows(i))' = Cardinality(Rows(i)) /\ Allowed' = Allowed
    BY <1>1, <2>1, <2>2, AllowedKept
  <2> QED
    BY <1>1, <2>2, <2>3 DEF CountOK, CountAt
<1> QED
  BY <1>5 DEF CountOK

\* What becomes of the configuration, too; without one nothing is promised of places.
LEMMA CountConfig ==
  ASSUME IInv, CountOK, UNCHANGED <<log, issues, job, faults>>,
         config'.id = config.id,
         config'.live => config.live /\ mappings' = mappings
  PROVE  CountOK'
<1>1. ASSUME NEW i \in Numbers PROVE CountAt(i)'
  <2>1. AtPlace("create", i)' = AtPlace("create", i) /\ AtPlace("map", i)' = AtPlace("map", i)
    BY DEF AtPlace, Issue, Content
  <2>2. Rows(i)' = Rows(i) /\ (config'.live => MappingsOf(i)' = MappingsOf(i))
    BY DEF Rows, MappingsOf
  <2>3. /\ Cardinality(AtPlace("create", i))' = Cardinality(AtPlace("create", i))
        /\ Cardinality(AtPlace("map", i))' = Cardinality(AtPlace("map", i))
        /\ Cardinality(Rows(i))' = Cardinality(Rows(i)) /\ Allowed' = Allowed
    BY <2>1, <2>2, AllowedKept
  <2> QED
    BY <2>2, <2>3 DEF CountOK, CountAt
<1> QED
  BY <1>1 DEF CountOK

\* A new configuration has nobody at work, and every row may be an old one.
LEMMA CountCreateConfig ==
  ASSUME IInv, CountOK, CreateConfig
  PROVE  CountOK'
<1>1. /\ UNCHANGED <<log, issues, mappings, job, faults>> /\ config'.id = config.id + 1
      /\ \A p \in Processes : job[p].config # config'.id
  BY CreateConfigStep
<1>2. ASSUME NEW i \in Numbers PROVE CountAt(i)'
  <2>1. AtPlace("create", i)' = {} /\ AtPlace("map", i)' = {}
    BY <1>1 DEF AtPlace, Processes
  <2>2. Cardinality(AtPlace("create", i))' = 0 /\ Cardinality(AtPlace("map", i))' = 0
    BY <2>1, FS_EmptySet
  <2>3. Rows(i)' = Rows(i)
    BY <1>1 DEF Rows
  <2>4. Cardinality(Rows(i))' = Cardinality(Rows(i))
    BY <2>3
  <2>5. /\ Cardinality(Rows(i)) \in Nat /\ Cardinality(Batches) \in Nat /\ Allowed \in Nat
        /\ Allowed' = Cardinality(Batches) + Allowed
        /\ Cardinality(Rows(i)) <= Cardinality(Batches) + Allowed
    BY <1>1, CountTypes, AllowedFacts DEF CountOK, CountAt
  <2>6. /\ Cardinality(Rows(i)) <= Cardinality(Batches) + (Cardinality(Batches) + Allowed)
        /\ Cardinality(Rows(i)) + 0 <= Cardinality(Batches) + (Cardinality(Batches) + Allowed)
        /\ Cardinality(Rows(i)) <= 0 + (Cardinality(Batches) + Allowed)
    BY <2>5
  <2> QED
    BY <2>2, <2>4, <2>5, <2>6 DEF CountAt
<1> QED
  BY <1>2 DEF CountOK

\* A batch that goes on with the next item or page, or a webhook that is over.
LEMMA DonePlace ==
  ASSUME IInv, NEW p \in Processes, job[p].pc \in OnItem, ItemDone(p), UNCHANGED log, RowsStay
  PROVE  OthersWait(p) /\ job'[p].pc \in {"idle", "fetch", "lookup"}
<1>1. Rest(p)
  BY DEF ItemDone
<1>2. /\ OthersWait(p)
      /\ \/ p \in Hooks /\ job'[p] = Idle
         \/ /\ Tail(job[p].todo) = <<>> => job'[p].pc = "fetch"
            /\ Tail(job[p].todo) # <<>> => job'[p].pc = "lookup"
  BY <1>1, RestEffect
<1> QED
  BY <1>2 DEF Idle

\* How many rows an issue has, in every step of a batch.
LEMMA CountBatch ==
  ASSUME IInv, CountOK, NEW b \in Batches,
         BatchBegin(b) \/ BatchStep(b) \/ Break(b) \/ Crash(b)
  PROVE  CountOK'
<1>1. b \in Processes /\ faults \in Nat
  BY DEF Processes, IInv, TypeOK
<1>2. CASE BatchBegin(b)
  <2>1. job[b].pc = "idle" /\ job'[b].pc = "fetch" /\ OthersWait(b) /\ faults' = faults
        /\ UNCHANGED <<log, config, issues, mappings>>
    BY <1>2, BatchBeginStep DEF BatchBegin, At, tables
  <2>2. RowsStay
    BY <2>1 DEF RowsStay
  <2> QED
    BY <1>1, <2>1, <2>2, CountQuiet
<1>3. CASE Fetch(b)
  <2>1. job[b].pc = "fetch" /\ job'[b].pc \in {"finish", "lookup"} /\ OthersWait(b)
        /\ faults' = faults /\ UNCHANGED <<log, config, issues, mappings>>
    BY <1>3, FetchStep DEF Fetch, At, tables
  <2>2. RowsStay
    BY <2>1 DEF RowsStay
  <2> QED
    BY <1>1, <2>1, <2>2, CountQuiet
<1>4. CASE Lookup(b)
  BY <1>4, CountLookup
<1>5. CASE Create(b)
  <2>1. job[b].pc = "create" /\ job[b].pc \in OnItem
    BY <1>5 DEF Create, At, OnItem
  <2>2. /\ OthersWait(b) /\ UNCHANGED <<log, config, mappings, faults>> /\ RowsStay
        /\ Made(b) \/ (ItemDone(b) /\ issues' = issues)
    BY <1>5, CreateStep
  <2>3. CASE Made(b)
    BY <2>1, <2>2, <2>3, CountMade
  <2>4. CASE ItemDone(b) /\ issues' = issues
    <3>1. job'[b].pc \in {"idle", "fetch", "lookup"}
      BY <1>1, <2>1, <2>2, <2>4, DonePlace
    <3>2. faults' \in Nat /\ faults' >= faults
      BY <1>1, <2>2
    <3> QED
      BY <2>1, <2>2, <2>4, <3>1, <3>2, CountLeft
  <2> QED
    BY <2>2, <2>3, <2>4
<1>6. CASE MapIssue(b)
  <2>1. job[b].pc \in OnItem
    BY <1>6 DEF MapIssue, At, OnItem
  <2>2. /\ OthersWait(b) /\ UNCHANGED <<log, config, issues, faults>>
        /\ \/ /\ ItemDone(b)
              /\ mappings' = mappings \union
                    {[elder |-> job[b].elder, external |-> Issue(b)]}
           \/ Abandoned(b) /\ ~Mine(b) /\ mappings' = mappings
    BY <1>6, MapStep
  <2>3. RowsStay /\ faults' \in Nat /\ faults' >= faults
    BY <1>1, <2>2 DEF RowsStay
  <2>4. CASE /\ ItemDone(b)
             /\ mappings' = mappings \union
                   {[elder |-> job[b].elder, external |-> Issue(b)]}
    <3>1. job'[b].pc \in {"idle", "fetch", "lookup"}
      BY <1>1, <2>1, <2>2, <2>3, <2>4, DonePlace
    <3>2. PICK m : m = [elder |-> job[b].elder, external |-> Issue(b)]
      OBVIOUS
    <3>3. m \in mappings' /\ m.external = Issue(b) /\ mappings \subseteq mappings'
      BY <2>4, <3>2
    <3>4. \E x \in mappings' : x.external = Issue(b)
      BY <3>3
    <3>5. job'[b].pc \notin {"create", "map"} /\ DOMAIN issues' = DOMAIN issues
      BY <2>2, <3>1
    <3> QED
      BY <2>2, <2>3, <3>3, <3>4, <3>5, CountLeft
  <2>5. CASE Abandoned(b) /\ ~Mine(b) /\ mappings' = mappings
    <3>1. job'[b].pc \notin {"create", "map"} /\ mappings \subseteq mappings'
      BY <2>5 DEF Abandoned
    <3>2. DOMAIN issues' = DOMAIN issues
      BY <2>2
    <3> QED
      BY <2>2, <2>3, <2>5, <3>1, <3>2, CountLeft
  <2> QED
    BY <2>2, <2>4, <2>5
<1>7. CASE Update(b)
  <2>1. job[b].pc = "update" /\ job[b].pc \in OnItem
    BY <1>7 DEF Update, At, OnItem
  <2>2. /\ OthersWait(b) /\ UNCHANGED <<log, config, mappings, faults>>
        /\ DOMAIN issues' = DOMAIN issues /\ RowsStay /\ ItemDone(b)
    BY <1>1, <1>7, UpdateStep
  <2>3. job'[b].pc \in {"idle", "fetch", "lookup"}
    BY <1>1, <2>1, <2>2, DonePlace
  <2> QED
    BY <1>1, <2>1, <2>2, <2>3, CountQuiet
<1>8. CASE Finish(b)
  <2>1. /\ OthersWait(b) /\ UNCHANGED <<log, issues, mappings, faults>> /\ job'[b] = Idle
        /\ config'.live => config.live
        /\ config'.id = config.id
    BY <1>8, FinishStep DEF Mine
  <2>2. job[b].pc = "finish" /\ job'[b].pc = "idle"
    BY <1>8, <2>1 DEF Finish, At, Idle
  <2>3. config'.live => config.live
    BY <2>1
  <2>4. RowsStay
    BY <2>1 DEF RowsStay
  <2> QED
    BY <1>1, <2>1, <2>2, <2>3, <2>4, CountQuiet
<1>9. CASE Break(b) \/ Crash(b)
  <2>1. /\ OthersWait(b) /\ UNCHANGED <<log, config, issues, mappings>>
        /\ faults' = faults + 1 /\ job'[b].pc \in {"finish", "idle"}
    BY <1>9, FaultStep DEF tables, Abandoned, Idle
  <2>2. faults' \in Nat /\ faults' >= faults /\ faults' >= faults + 1 /\ RowsStay
    BY <1>1, <2>1 DEF RowsStay
  <2> QED
    BY <2>1, <2>2, CountLeft
<1> QED
  BY <1>2, <1>3, <1>4, <1>5, <1>6, <1>7, <1>8, <1>9 DEF BatchStep

\* How many rows an issue has, in every step.
LEMMA CountNext ==
  ASSUME IInv, CountOK, [Next]_vars
  PROVE  CountOK'
<1>1. CASE Open \/ Edit \/ Delete
  BY <1>1, CountHost
<1>2. CASE UpdateConfig \/ DeleteConfig
  BY <1>2, ConfigStep, CountConfig
<1>3. ASSUME NEW b \in Batches, BatchBegin(b) \/ BatchStep(b) \/ Break(b) \/ Crash(b)
      PROVE  CountOK'
  BY <1>3, CountBatch
<1>4. ASSUME NEW h \in Hooks, HookCall(h) \/ Update(h)
      PROVE  CountOK'
  <2>1. h \in Processes /\ h \notin Batches
    BY ConstantsAssumption DEF Processes
  <2>2. CASE HookCall(h)
    <3>1. OthersWait(h) /\ UNCHANGED <<log, config, issues, mappings, faults>>
      BY <2>2, HookCallStep DEF tables
    <3>2. RowsStay
      BY <3>1 DEF RowsStay
    <3> QED
      BY <2>1, <3>1, <3>2, CountQuiet
  <2>3. CASE Update(h)
    <3>1. /\ OthersWait(h) /\ UNCHANGED <<log, config, mappings, faults>>
          /\ DOMAIN issues' = DOMAIN issues /\ RowsStay
      BY <2>1, <2>3, UpdateStep
    <3> QED
      BY <2>1, <3>1, CountQuiet
  <2> QED
    BY <1>4, <2>2, <2>3
<1>5. CASE CreateConfig
  BY <1>5, CountCreateConfig
<1>6. CASE UNCHANGED vars
  BY <1>6, CountConfig DEF vars
<1> QED
  BY <1>1, <1>2, <1>3, <1>4, <1>5, <1>6 DEF Next

\* An issue of the host becomes more rows of Elder than one only where batch runs
\* overlap, a run is interrupted between an issue and its mapping, or its configuration
\* is created again.
THEOREM OneIssuePerRunTheorem == Spec => []OneIssuePerRun
<1>1. Init => CountOK
  <2> SUFFICES ASSUME Init PROVE CountOK
    OBVIOUS
  <2>1. IInv
    BY InvInit
  <2>2. ASSUME NEW i \in Numbers PROVE CountAt(i)
    <3>1. \A b \in Batches : b \in Processes /\ job[b].pc = "idle"
      BY DEF Init, Processes, Idle
    <3>2. Rows(i) = {} /\ AtPlace("create", i) = {} /\ AtPlace("map", i) = {}
      BY <3>1 DEF Init, Rows, AtPlace
    <3>3. /\ Cardinality(Rows(i)) = 0 /\ Cardinality(AtPlace("create", i)) = 0
          /\ Cardinality(AtPlace("map", i)) = 0
      BY <3>2, FS_EmptySet
    <3>4. Cardinality(Batches) \in Nat /\ Allowed \in Nat
      BY <2>1, CountTypes
    <3> QED
      BY <3>3, <3>4 DEF CountAt
  <2> QED
    BY <2>2 DEF CountOK
<1>2. IInv /\ CountOK /\ [Next]_vars => CountOK'
  BY CountNext
<1>3. IInv /\ CountOK => OneIssuePerRun
  <2> SUFFICES ASSUME IInv, CountOK, NEW i \in Numbers
               PROVE  Cardinality({k \in DOMAIN issues : issues[k].of = i})
                          <= Cardinality(Batches) * config.id + faults
    BY DEF OneIssuePerRun
  <2>1. Cardinality(Rows(i)) <= Cardinality(Batches) * config.id + faults
    BY AllowedFacts DEF CountOK, CountAt
  <2> QED
    BY <2>1 DEF Rows
<1> QED
  BY <1>1, <1>2, <1>3, Invariant, PTL DEF Spec

-----------------------------------------------------------------------------
(***************************************************************************)
(* Runs end.  The page a run is on is never further than the log is long,  *)
(* because every page before it had something on it when it was fetched;   *)
(* and each step of a run brings it closer to its end: through the items   *)
(* of a page, and from page to page.                                       *)
(***************************************************************************)
\* How far batch b has read: page n is handled only when n issues have changed.
PagesWithinLog ==
    \A b \in Batches :
        /\ job[b].pc \in OnItem => job[b].page <= Now
        /\ job[b].pc = "fetch" => job[b].page <= Now + 1

\* Whatever a step does to a run brings it closer to its end.
Advances == \A b \in Batches : job[b].pc = "idle" \/ KeepsPlace(b) \/ Closer(b)

\* A page that is not empty is no further than the log is long.
LEMMA PageWithinLog ==
  ASSUME LogOK, NEW since, NEW n \in Nat \ {0}, Page(since, n) # <<>>
  PROVE  n <= Now
<1> DEFINE list == List(since)
<1>1. \E c \in list : Rank(list, c) >= From(n)
  <2>1. Page(since, n) \in Seq(OnPage(since, n))
    BY PageFacts
  <2>2. Head(Page(since, n)) \in OnPage(since, n)
    BY <2>1
  <2> QED
    BY <2>2 DEF OnPage
<1>2. PICK c \in list : Rank(list, c) >= From(n)
  BY <1>1
<1>3. Rank(list, c) \in Nat /\ Rank(list, c) < Cardinality(list) /\ Cardinality(list) \in Nat
  BY RankType
<1>4. Cardinality(list) <= Now /\ Now \in Nat
  <2>1. list \subseteq 1..Now /\ Now \in Nat
    BY ListFacts, LogTypes
  <2>2. IsFiniteSet(1..Now) /\ Cardinality(1..Now) = Now
    BY <2>1, FS_Interval
  <2> HIDE DEF list
  <2>3. Cardinality(list) <= Cardinality(1..Now)
    BY <2>1, <2>2, FS_Subset
  <2> QED
    BY <2>1, <2>2, <2>3
<1>5. From(n) >= n - 1
  <2>1. PICK m \in Nat : m = n - 1
    OBVIOUS
  <2>2. PageSize \in Nat /\ PageSize >= 1
    BY ConstantsAssumption
  <2>3. m * PageSize >= m
    <3>1. PICK k \in Nat : k + 1 = PageSize
      <4>1. PageSize - 1 \in Nat /\ (PageSize - 1) + 1 = PageSize
        BY <2>2
      <4> QED
        BY <4>1
    <3>2. m * (k + 1) = m * k + m /\ m * k \in Nat
      OBVIOUS
    <3> QED
      BY <3>1, <3>2
  <2> QED
    BY <2>1, <2>3 DEF From
<1>6. From(n) \in Nat
  BY FromFacts
<1> HIDE DEF list
<1> QED
  BY <1>2, <1>3, <1>4, <1>5, <1>6

\* Where a run is after an item.
LEMMA DoneCloser ==
  ASSUME IInv, PagesWithinLog, NEW b \in Batches, job[b].pc \in OnItem, ItemDone(b),
         UNCHANGED log, RowsStay
  PROVE  /\ Closer(b)
         /\ job'[b].pc \in OnItem => job'[b].page <= Now
         /\ job'[b].pc = "fetch" => job'[b].page <= Now + 1
<1>1. b \in Processes /\ b \notin Hooks
  BY ConstantsAssumption DEF Processes
<1>2. /\ job'[b].todo = Tail(job[b].todo)
      /\ Tail(job[b].todo) = <<>> =>
            job'[b].pc = "fetch" /\ job'[b].page = job[b].page + 1
      /\ Tail(job[b].todo) # <<>> =>
            job'[b].pc = "lookup" /\ job'[b].page = job[b].page
  BY <1>1, RestEffect DEF ItemDone
<1>3. job[b].page <= Now /\ Now \in Nat /\ job[b].page \in Nat
  BY <1>1, Types, JobTypes DEF PagesWithinLog, IInv
<1>4. Len(Tail(job[b].todo)) < Len(job[b].todo)
  BY <1>1, InHand, JobTypes DEF IInv
<1>5. CASE Tail(job[b].todo) = <<>>
  <2>1. job'[b].pc = "fetch" /\ job'[b].page = job[b].page + 1
    BY <1>2, <1>5
  <2> QED
    BY <1>3, <2>1 DEF Closer, OnItem
<1>6. CASE Tail(job[b].todo) # <<>>
  <2>1. job'[b].pc = "lookup" /\ job'[b].page = job[b].page
    BY <1>2, <1>6
  <2> QED
    BY <1>2, <1>3, <1>4, <2>1 DEF Closer, OnItem
<1> QED
  BY <1>5, <1>6

\* Where a run is after a further step with the same item.
LEMMA StayCloser ==
  ASSUME IInv, PagesWithinLog, NEW b \in Batches, SameRun(b),
         \/ job[b].pc = "lookup" /\ job'[b].pc \in {"create", "update"}
         \/ job[b].pc = "create" /\ job'[b].pc = "map"
  PROVE  Closer(b) /\ job'[b].page <= Now /\ job'[b].pc # "fetch"
<1>1. job[b].page <= Now /\ job'[b].page = job[b].page /\ job'[b].todo = job[b].todo
  BY DEF PagesWithinLog, OnItem, SameRun
<1>2. Turn(job'[b].pc) < Turn(job[b].pc) /\ job[b].pc \in OnItem /\ job'[b].pc \in OnItem
  BY DEF Turn, OnItem
<1> QED
  BY <1>1, <1>2 DEF Closer

\* A run that is over, or at its end, is on no page.
LEMMA EndCloser ==
  ASSUME NEW b \in Batches,
         job'[b].pc = "idle" \/ (job'[b].pc = "finish" /\ job[b].pc # "finish")
  PROVE  Closer(b) /\ job'[b].pc \notin OnItem /\ job'[b].pc # "fetch"
  BY DEF Closer, OnItem

\* Each step of a batch.
LEMMA BatchCloser ==
  ASSUME IInv, PagesWithinLog, NEW b \in Batches,
         BatchBegin(b) \/ BatchStep(b) \/ Break(b) \/ Crash(b)
  PROVE  /\ OthersWait(b) /\ Now' = Now
         /\ job[b].pc = "idle" \/ Closer(b)
         /\ job'[b].pc \in OnItem => job'[b].page <= Now
         /\ job'[b].pc = "fetch" => job'[b].page <= Now + 1
<1>1. b \in Processes /\ b \notin Hooks /\ Now \in Nat
  BY ConstantsAssumption, Types DEF Processes
<1>2. CASE BatchBegin(b)
  <2>1. OthersWait(b) /\ job'[b].pc = "fetch" /\ job'[b].page = 1 /\ log' = log
        /\ job[b].pc = "idle"
    BY <1>2, BatchBeginStep DEF BatchBegin, At
  <2> QED
    BY <1>1, <2>1 DEF OnItem, Now
<1>3. CASE Fetch(b)
  <2>1. /\ OthersWait(b) /\ log' = log /\ job'[b].page = job[b].page
        /\ job'[b].todo = Page(job[b].since, job[b].page)
        /\ job'[b].todo = <<>> => job'[b].pc = "finish"
        /\ job'[b].todo # <<>> => job'[b].pc = "lookup"
        /\ job[b].pc = "fetch"
    BY <1>3, FetchStep DEF Fetch, At
  <2>2. LogOK /\ job[b].page \in Nat \ {0}
    BY <1>1, <2>1, Types, JobTypes DEF IInv, LocalsOK, LocalOK
  <2>3. CASE job'[b].todo = <<>>
    BY <2>1, <2>3, EndCloser DEF Now
  <2>4. CASE job'[b].todo # <<>>
    <3>1. job[b].page <= Now
      BY <2>1, <2>2, <2>4, PageWithinLog
    <3>2. job'[b].pc = "lookup"
      BY <2>1, <2>4
    <3> QED
      BY <2>1, <3>1, <3>2 DEF Closer, OnItem, Now
  <2> QED
    BY <2>3, <2>4
<1>4. CASE Lookup(b)
  <2>1. OthersWait(b) /\ log' = log /\ SameRun(b) /\ job[b].pc = "lookup"
        /\ job'[b].pc \in {"create", "update"}
    BY <1>4, LookupStep DEF Lookup, At
  <2>2. Closer(b) /\ job'[b].page <= Now /\ job'[b].pc # "fetch"
    BY <2>1, StayCloser
  <2> QED
    BY <1>1, <2>1, <2>2 DEF Now
<1>5. CASE Create(b)
  <2>1. OthersWait(b) /\ log' = log /\ RowsStay /\ job[b].pc = "create"
        /\ (Made(b) \/ ItemDone(b))
    BY <1>5, CreateStep DEF Create, At
  <2>2. CASE Made(b)
    <3>1. SameRun(b) /\ job'[b].pc = "map"
      BY <2>2 DEF Made
    <3>2. Closer(b) /\ job'[b].page <= Now /\ job'[b].pc # "fetch"
      BY <2>1, <3>1, StayCloser
    <3> QED
      BY <1>1, <2>1, <3>2 DEF Now
  <2>3. CASE ItemDone(b)
    <3>1. job[b].pc \in OnItem
      BY <2>1 DEF OnItem
    <3>2. /\ Closer(b)
          /\ job'[b].pc \in OnItem => job'[b].page <= Now
          /\ job'[b].pc = "fetch" => job'[b].page <= Now + 1
      BY <2>1, <2>3, <3>1, DoneCloser
    <3> QED
      BY <2>1, <3>2 DEF Now
  <2> QED
    BY <2>1, <2>2, <2>3
<1>6. CASE MapIssue(b)
  <2>1. OthersWait(b) /\ log' = log /\ issues' = issues /\ job[b].pc = "map"
        /\ (ItemDone(b) \/ Abandoned(b))
    BY <1>6, MapStep DEF MapIssue, At
  <2>2. RowsStay
    BY <2>1 DEF RowsStay
  <2>3. CASE Abandoned(b)
    <3>1. job'[b].pc = "finish"
      BY <2>3 DEF Abandoned
    <3> QED
      BY <2>1, <3>1, EndCloser DEF Now
  <2>4. CASE ItemDone(b)
    <3>1. job[b].pc \in OnItem
      BY <2>1 DEF OnItem
    <3>2. /\ Closer(b)
          /\ job'[b].pc \in OnItem => job'[b].page <= Now
          /\ job'[b].pc = "fetch" => job'[b].page <= Now + 1
      BY <2>1, <2>2, <2>4, <3>1, DoneCloser
    <3> QED
      BY <2>1, <3>2 DEF Now
  <2> QED
    BY <2>1, <2>3, <2>4
<1>7. CASE Update(b)
  <2>1. OthersWait(b) /\ log' = log /\ RowsStay /\ job[b].pc = "update" /\ ItemDone(b)
    BY <1>1, <1>7, UpdateStep DEF Update, At
  <2>2. job[b].pc \in OnItem
    BY <2>1 DEF OnItem
  <2>3. /\ Closer(b)
        /\ job'[b].pc \in OnItem => job'[b].page <= Now
        /\ job'[b].pc = "fetch" => job'[b].page <= Now + 1
    BY <2>1, <2>2, DoneCloser
  <2> QED
    BY <2>1, <2>3 DEF Now
<1>8. CASE Finish(b)
  <2>1. OthersWait(b) /\ log' = log /\ job'[b].pc = "idle"
    BY <1>8, FinishStep DEF Idle
  <2> QED
    BY <2>1, EndCloser DEF Now
<1>9. CASE Break(b) \/ Crash(b)
  <2>1. OthersWait(b) /\ log' = log /\ (Abandoned(b) \/ job'[b] = Idle)
    BY <1>9, FaultStep
  <2>2. job'[b].pc = "idle" \/ (job'[b].pc = "finish" /\ job[b].pc # "finish")
    <3>1. CASE Break(b)
      BY <2>1, <3>1 DEF Break, Abandoned, Idle
    <3>2. CASE Crash(b)
      <4>1. job' = [job EXCEPT ![b] = Idle]
        BY <3>2 DEF Crash
      <4>2. job'[b] = Idle
        BY <1>1, <4>1, IdleType, JobEffect DEF IInv
      <4> QED
        BY <4>2 DEF Idle
    <3> QED
      BY <1>9, <3>1, <3>2
  <2> QED
    BY <2>1, <2>2, EndCloser DEF Now
<1> QED
  BY <1>2, <1>3, <1>4, <1>5, <1>6, <1>7, <1>8, <1>9 DEF BatchStep

\* Batches that stay where they are while the log stays or grows.
LEMMA PagesKept ==
  ASSUME IInv, PagesWithinLog, \A b \in Batches : KeepsPlace(b), Now' \in Nat, Now' >= Now
  PROVE  PagesWithinLog' /\ Advances
<1>1. ASSUME NEW b \in Batches
      PROVE  /\ job'[b].pc \in OnItem => job'[b].page <= Now'
             /\ job'[b].pc = "fetch" => job'[b].page <= Now' + 1
  <2>1. job[b].page \in Nat /\ Now \in Nat
    BY Types, JobTypes DEF IInv, Processes
  <2>2. job'[b].pc = job[b].pc /\ job'[b].page = job[b].page
    BY DEF KeepsPlace
  <2> QED
    BY <2>1, <2>2 DEF PagesWithinLog
<1> QED
  BY <1>1 DEF PagesWithinLog, Advances

\* Each step.
LEMMA NextCloser ==
  ASSUME IInv, PagesWithinLog, [Next]_vars
  PROVE  PagesWithinLog' /\ Advances
<1>1. CASE Open \/ Edit \/ Delete
  <2>1. \A q \in Processes : KeepsPlace(q)
    <3>1. CASE Open \/ Edit
      BY <3>1 DEF Open, Edit, KeepsPlace
    <3>2. CASE Delete
      BY <3>2, DeleteEffect
    <3> QED
      BY <1>1, <3>1, <3>2
  <2>2. \A b \in Batches : KeepsPlace(b)
    BY <2>1 DEF Processes
  <2>3. PICK e \in Change : log' = Append(log, e)
    BY <1>1, HostChanges
  <2>4. Now \in Nat /\ Now' = Now + 1
    BY <1>1, <2>3, AppendChange, HostChanges
  <2> QED
    BY <2>2, <2>4, PagesKept
<1>2. CASE CreateConfig \/ UpdateConfig \/ DeleteConfig \/ UNCHANGED vars
  <2>1. UNCHANGED <<log, job>>
    BY <1>2, ConfigStep, CreateConfigStep DEF vars
  <2>2. (\A b \in Batches : KeepsPlace(b)) /\ Now' = Now /\ Now \in Nat
    BY <2>1, Types DEF KeepsPlace, Now
  <2> QED
    BY <2>2, PagesKept
<1>3. ASSUME NEW b \in Batches, BatchBegin(b) \/ BatchStep(b) \/ Break(b) \/ Crash(b)
      PROVE  PagesWithinLog' /\ Advances
  <2>1. /\ OthersWait(b) /\ Now' = Now
        /\ job[b].pc = "idle" \/ Closer(b)
        /\ job'[b].pc \in OnItem => job'[b].page <= Now
        /\ job'[b].pc = "fetch" => job'[b].page <= Now + 1
    BY <1>3, BatchCloser
  <2>2. \A q \in Batches \ {b} : job'[q] = job[q]
    BY <2>1 DEF OthersWait, Processes
  <2>3. PagesWithinLog'
    BY <2>1, <2>2 DEF PagesWithinLog
  <2>4. Advances
    BY <2>1, <2>2 DEF Advances, KeepsPlace
  <2> QED
    BY <2>3, <2>4
<1>4. ASSUME NEW h \in Hooks, HookCall(h) \/ Update(h)
      PROVE  PagesWithinLog' /\ Advances
  <2>1. h \in Processes /\ h \notin Batches
    BY ConstantsAssumption DEF Processes
  <2>2. OthersWait(h) /\ log' = log
    <3>1. CASE HookCall(h)
      BY <3>1, HookCallStep
    <3>2. CASE Update(h)
      BY <2>1, <3>2, UpdateStep
    <3> QED
      BY <1>4, <3>1, <3>2
  <2>3. \A b \in Batches : job'[b] = job[b]
    BY <2>1, <2>2 DEF OthersWait, Processes
  <2>4. (\A b \in Batches : KeepsPlace(b)) /\ Now' = Now /\ Now \in Nat
    BY <2>2, <2>3, Types DEF KeepsPlace, Now
  <2> QED
    BY <2>4, PagesKept
<1> QED
  BY <1>1, <1>2, <1>3, <1>4 DEF Next

\* A run asks for at most one page more than there have been changes: whatever is
\* deleted, opened or edited meanwhile, the loop of fetch_changes cannot go on without
\* the host.
THEOREM PagesWithinLogTheorem == Spec => []PagesWithinLog
<1>1. Init => PagesWithinLog
  <2> SUFFICES ASSUME Init PROVE PagesWithinLog
    OBVIOUS
  <2>1. \A b \in Batches : job[b].pc = "idle"
    BY DEF Init, Processes, Idle
  <2> QED
    BY <2>1 DEF PagesWithinLog, OnItem
<1>2. IInv /\ PagesWithinLog /\ [Next]_vars => PagesWithinLog'
  BY NextCloser
<1> QED
  BY <1>1, <1>2, Invariant, PTL DEF Spec

\* A run never goes back: each of its steps ends it, or takes it to a later page, or to
\* a later item of the page, or further on with the item, and it is never on a page
\* further than there are changes: a measure that falls, so that a run whose steps are
\* taken ends once the host is quiet.
THEOREM RunsAdvanceTheorem == Spec => RunsAdvance
<1>1. IInv /\ PagesWithinLog /\ [Next]_vars => [Advances]_vars
  BY NextCloser
<1>2. IInv /\ PagesWithinLog /\ [Next]_vars
          => [\A b \in Batches : job[b].pc = "idle" \/ KeepsPlace(b) \/ Closer(b)]_vars
  BY <1>1 DEF Advances
<1> QED
  BY <1>2, Invariant, PagesWithinLogTheorem, PTL DEF Spec, RunsAdvance
=============================================================================
