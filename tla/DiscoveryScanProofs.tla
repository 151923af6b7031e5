------------------------ MODULE DiscoveryScanProofs ------------------------
(***************************************************************************)
(* No result of a scan is dropped, for any number of scanners and jobs:    *)
(* whenever complete_job looks for a running row, there is one.            *)
(*                                                                         *)
(* complete_job takes the newest running row, which may be another scan's, *)
(* and writes to it later, when a third call may hold it too.  What is     *)
(* invariant is a count: the rows that say "running" are enough for the    *)
(* scans under way, the results not yet looked at, and the rows some call  *)
(* already holds.  Conversely, with one scanner and nothing lost, a        *)
(* running row has a scan: no call finds any row but its own.              *)
(***************************************************************************)
EXTENDS DiscoveryJobsProofs, FiniteSetTheorems

\* The running rows of a job that a call has read and not yet written.
HeldRows(j) == {r \in RunningFor(j) : \E q \in Submitted(j) : q.row = r.id}

Counted(j) ==
    /\ IsFiniteSet(Scanning(j)) /\ IsFiniteSet(Unread(j)) /\ IsFiniteSet(RunningFor(j))
    /\ Exists(j) => Cardinality(Scanning(j)) + Cardinality(Unread(j))
                       + Cardinality(HeldRows(j)) <= Cardinality(RunningFor(j))

\* A call holds rows of its own job.
HoldsItsOwn ==
    \A q \in requests, r \in history : q.row = r.id => r.job = q.job

\* Scanners and calls know only jobs that are, or were, there.
WorkIsUsed ==
    /\ \A s \in Scanners :
          proc[s].todo \subseteq used /\ proc[s].job \in used \union {None}
    /\ \A q \in requests : q.job \in used

Balance == HoldsItsOwn /\ WorkIsUsed /\ \A j \in Jobs : Counted(j)

-----------------------------------------------------------------------------
(***************************************************************************)
(* Counting                                                                *)
(***************************************************************************)
\* A set with at most one element more.
LEMMA OneMore ==
  ASSUME NEW S, IsFiniteSet(S), NEW x, NEW T, T \subseteq S \union {x}
  PROVE  /\ IsFiniteSet(T) /\ Cardinality(T) \in Nat /\ Cardinality(S) \in Nat
         /\ Cardinality(T) <= Cardinality(S) + 1
<1>1. PICK W : W = S \union {x}
  OBVIOUS
<1>2. IsFiniteSet(W) /\ Cardinality(S) \in Nat /\ Cardinality(W) <= Cardinality(S) + 1
  BY <1>1, FS_AddElement, FS_CardinalityType
<1>3. T \in SUBSET W
  BY <1>1
<1>4. IsFiniteSet(T) /\ Cardinality(T) <= Cardinality(W)
  BY <1>2, <1>3, FS_Subset
<1> QED  BY <1>2, <1>4, FS_CardinalityType

\* A set with at least one element less.
LEMMA OneLess ==
  ASSUME NEW S, IsFiniteSet(S), NEW x \in S, NEW T, T \subseteq S \ {x}
  PROVE  /\ IsFiniteSet(T) /\ Cardinality(T) \in Nat /\ Cardinality(S) \in Nat
         /\ Cardinality(T) + 1 <= Cardinality(S)
<1>1. PICK W : W = S \ {x}
  OBVIOUS
<1>2. IsFiniteSet(W) /\ Cardinality(S) \in Nat /\ Cardinality(W) = Cardinality(S) - 1
  BY <1>1, FS_RemoveElement, FS_CardinalityType
<1>3. T \in SUBSET W
  BY <1>1
<1>4. IsFiniteSet(T) /\ Cardinality(T) <= Cardinality(W)
  BY <1>2, <1>3, FS_Subset
<1> QED  BY <1>2, <1>4, FS_CardinalityType

\* A set with no element more.
LEMMA NoMore ==
  ASSUME NEW S, IsFiniteSet(S), NEW T, T \subseteq S
  PROVE  /\ IsFiniteSet(T) /\ Cardinality(T) \in Nat /\ Cardinality(S) \in Nat
         /\ Cardinality(T) <= Cardinality(S)
<1>1. T \in SUBSET S
  OBVIOUS
<1> QED  BY <1>1, FS_Subset, FS_CardinalityType

\* The image of a finite set is finite and not larger.
LEMMA ImageNoLarger ==
  ASSUME NEW S, IsFiniteSet(S), NEW f
  PROVE  /\ IsFiniteSet({f[x] : x \in S})
         /\ Cardinality({f[x] : x \in S}) <= Cardinality(S)
<1> DEFINE T == {f[x] : x \in S}
           g == [x \in S |-> f[x]]
<1>1. g \in Surjection(S, T)
  BY DEF Surjection
<1> QED  BY <1>1, FS_Surjection

\* The sets of a job have the sizes of finite sets.
LEMMA Sizes ==
  ASSUME NEW j, Counted(j)
  PROVE  /\ IsFiniteSet(HeldRows(j))
         /\ Cardinality(Scanning(j)) \in Nat /\ Cardinality(Unread(j)) \in Nat
         /\ Cardinality(HeldRows(j)) \in Nat /\ Cardinality(RunningFor(j)) \in Nat
<1>1. HeldRows(j) \subseteq RunningFor(j)
  BY DEF HeldRows
<1> QED  BY <1>1, NoMore, FS_CardinalityType DEF Counted

-----------------------------------------------------------------------------
(***************************************************************************)
(* What a step can do to the sets of a job                                 *)
(***************************************************************************)
\* Nothing new needs a row, and no row is finished.
LEMMA CountKept ==
  ASSUME NEW j \in Jobs, Counted(j), Exists(j)' => Exists(j),
         Scanning(j)' \subseteq Scanning(j),
         IsFiniteSet(Unread(j)'), Cardinality(Unread(j)') <= Cardinality(Unread(j)),
         HeldRows(j)' \subseteq HeldRows(j),
         IsFiniteSet(RunningFor(j)'), RunningFor(j) \subseteq RunningFor(j)'
  PROVE  Counted(j)'
<1>1. /\ IsFiniteSet(HeldRows(j)) /\ Cardinality(Scanning(j)) \in Nat
      /\ Cardinality(Unread(j)) \in Nat /\ Cardinality(HeldRows(j)) \in Nat
      /\ Cardinality(RunningFor(j)) \in Nat
  BY Sizes
<1>2. /\ IsFiniteSet(Scanning(j)') /\ Cardinality(Scanning(j)') \in Nat
      /\ Cardinality(Scanning(j)') <= Cardinality(Scanning(j))
  BY NoMore DEF Counted
<1>3. /\ Cardinality(HeldRows(j)') \in Nat
      /\ Cardinality(HeldRows(j)') <= Cardinality(HeldRows(j))
  BY <1>1, NoMore
<1>4. Cardinality(RunningFor(j)') \in Nat
      /\ Cardinality(RunningFor(j)) <= Cardinality(RunningFor(j)')
  BY NoMore, FS_CardinalityType
<1>5. Cardinality(Unread(j)') \in Nat
  BY FS_CardinalityType
<1> QED  BY <1>1, <1>2, <1>3, <1>4, <1>5 DEF Counted

\* A new running row makes room for one scan more.
LEMMA CountStarted ==
  ASSUME NEW j \in Jobs, Counted(j), Exists(j), NEW s, NEW row,
         Scanning(j)' \subseteq Scanning(j) \union {s},
         Unread(j)' \subseteq Unread(j), HeldRows(j)' \subseteq HeldRows(j),
         RunningFor(j)' = RunningFor(j) \union {row}, row \notin RunningFor(j)
  PROVE  Counted(j)'
<1>1. /\ IsFiniteSet(HeldRows(j)) /\ Cardinality(Scanning(j)) \in Nat
      /\ Cardinality(Unread(j)) \in Nat /\ Cardinality(HeldRows(j)) \in Nat
      /\ Cardinality(RunningFor(j)) \in Nat
  BY Sizes
<1>2. /\ IsFiniteSet(Scanning(j)') /\ Cardinality(Scanning(j)') \in Nat
      /\ Cardinality(Scanning(j)') <= Cardinality(Scanning(j)) + 1
  BY OneMore DEF Counted
<1>3. /\ Cardinality(HeldRows(j)') \in Nat
      /\ Cardinality(HeldRows(j)') <= Cardinality(HeldRows(j))
  BY <1>1, NoMore
<1>4. /\ IsFiniteSet(Unread(j)') /\ Cardinality(Unread(j)') \in Nat
      /\ Cardinality(Unread(j)') <= Cardinality(Unread(j))
  BY NoMore DEF Counted
<1>5. /\ IsFiniteSet(RunningFor(j)')
      /\ Cardinality(RunningFor(j)') = Cardinality(RunningFor(j)) + 1
  BY FS_AddElement DEF Counted
<1> QED  BY <1>1, <1>2, <1>3, <1>4, <1>5 DEF Counted

\* A scan under way becomes a result that has not been looked at.
LEMMA CountSubmitted ==
  ASSUME NEW j \in Jobs, Counted(j), Exists(j)' => Exists(j),
         NEW s \in Scanning(j), NEW q,
         Scanning(j)' \subseteq Scanning(j) \ {s},
         Unread(j)' \subseteq Unread(j) \union {q}, HeldRows(j)' \subseteq HeldRows(j),
         RunningFor(j)' = RunningFor(j)
  PROVE  Counted(j)'
<1>1. /\ IsFiniteSet(HeldRows(j)) /\ Cardinality(Scanning(j)) \in Nat
      /\ Cardinality(Unread(j)) \in Nat /\ Cardinality(HeldRows(j)) \in Nat
      /\ Cardinality(RunningFor(j)) \in Nat
  BY Sizes
<1>2. /\ IsFiniteSet(Scanning(j)') /\ Cardinality(Scanning(j)') \in Nat
      /\ Cardinality(Scanning(j)') + 1 <= Cardinality(Scanning(j))
  BY OneLess DEF Counted
<1>3. /\ Cardinality(HeldRows(j)') \in Nat
      /\ Cardinality(HeldRows(j)') <= Cardinality(HeldRows(j))
  BY <1>1, NoMore
<1>4. /\ IsFiniteSet(Unread(j)') /\ Cardinality(Unread(j)') \in Nat
      /\ Cardinality(Unread(j)') <= Cardinality(Unread(j)) + 1
  BY OneMore DEF Counted
<1> QED  BY <1>1, <1>2, <1>3, <1>4 DEF Counted

\* A result that was not looked at gets hold of a row.
LEMMA CountRead ==
  ASSUME NEW j \in Jobs, Counted(j), Exists(j)' => Exists(j),
         NEW q \in Unread(j), NEW row,
         Scanning(j)' \subseteq Scanning(j),
         Unread(j)' \subseteq Unread(j) \ {q},
         HeldRows(j)' \subseteq HeldRows(j) \union {row},
         RunningFor(j)' = RunningFor(j)
  PROVE  Counted(j)'
<1>1. /\ IsFiniteSet(HeldRows(j)) /\ Cardinality(Scanning(j)) \in Nat
      /\ Cardinality(Unread(j)) \in Nat /\ Cardinality(HeldRows(j)) \in Nat
      /\ Cardinality(RunningFor(j)) \in Nat
  BY Sizes
<1>2. /\ IsFiniteSet(Scanning(j)') /\ Cardinality(Scanning(j)') \in Nat
      /\ Cardinality(Scanning(j)') <= Cardinality(Scanning(j))
  BY NoMore DEF Counted
<1>3. /\ Cardinality(HeldRows(j)') \in Nat
      /\ Cardinality(HeldRows(j)') <= Cardinality(HeldRows(j)) + 1
  BY <1>1, OneMore
<1>4. /\ IsFiniteSet(Unread(j)') /\ Cardinality(Unread(j)') \in Nat
      /\ Cardinality(Unread(j)') + 1 <= Cardinality(Unread(j))
  BY OneLess DEF Counted
<1> QED  BY <1>1, <1>2, <1>3, <1>4 DEF Counted

\* A row that a call holds is finished.
LEMMA CountWritten ==
  ASSUME NEW j \in Jobs, Counted(j), Exists(j)' => Exists(j), NEW row \in HeldRows(j),
         Scanning(j)' \subseteq Scanning(j), Unread(j)' \subseteq Unread(j),
         HeldRows(j)' \subseteq HeldRows(j) \ {row},
         RunningFor(j)' = RunningFor(j) \ {row}
  PROVE  Counted(j)'
<1>1. /\ IsFiniteSet(HeldRows(j)) /\ Cardinality(Scanning(j)) \in Nat
      /\ Cardinality(Unread(j)) \in Nat /\ Cardinality(HeldRows(j)) \in Nat
      /\ Cardinality(RunningFor(j)) \in Nat
  BY Sizes
<1>2. /\ IsFiniteSet(Scanning(j)') /\ Cardinality(Scanning(j)') \in Nat
      /\ Cardinality(Scanning(j)') <= Cardinality(Scanning(j))
  BY NoMore DEF Counted
<1>3. /\ Cardinality(HeldRows(j)') \in Nat
      /\ Cardinality(HeldRows(j)') + 1 <= Cardinality(HeldRows(j))
  BY <1>1, OneLess
<1>4. /\ IsFiniteSet(Unread(j)') /\ Cardinality(Unread(j)') \in Nat
      /\ Cardinality(Unread(j)') <= Cardinality(Unread(j))
  BY NoMore DEF Counted
<1>5. row \in RunningFor(j)
  BY DEF HeldRows
<1>6. /\ IsFiniteSet(RunningFor(j)')
      /\ Cardinality(RunningFor(j)') = Cardinality(RunningFor(j)) - 1
  BY <1>5, FS_RemoveElement DEF Counted
<1> QED  BY <1>1, <1>2, <1>3, <1>4, <1>6 DEF Counted

-----------------------------------------------------------------------------
(***************************************************************************)
(* The steps                                                               *)
(***************************************************************************)
\* The scanners stay where they are, and so do the calls.
ScannersRest == UNCHANGED requests /\ \A s \in Scanners : proc'[s] = proc[s]

\* At most a row of a discovery that has ended is added, and no job appears.
EndedRowsOnly ==
    \/ UNCHANGED <<history, jobs>>
    \/ \E j \in Jobs, status \in {"completed", "failed"} :
          AddRow(j, status) /\ \A k \in Jobs : Exists(k)' => Exists(k)

\* A step that has nothing to do with scanners, and adds no row that says running,
\* leaves the count of a job alone.
LEMMA RowsOnly ==
  ASSUME NEW j \in Jobs, Counted(j), ScannersRest,
         Exists(j)' => Exists(j), RunningFor(j) = RunningFor(j)'
  PROVE  Counted(j)'
<1>1. Scanning(j)' = Scanning(j) /\ Unread(j)' = Unread(j) /\ HeldRows(j)' = HeldRows(j)
  BY DEF ScannersRest, Scanning, Unread, Submitted, HeldRows
<1>2. /\ IsFiniteSet(Unread(j)') /\ Cardinality(Unread(j)) \in Nat
      /\ IsFiniteSet(RunningFor(j)')
  BY <1>1, Sizes DEF Counted
<1>3. Cardinality(Unread(j)') <= Cardinality(Unread(j))
  BY <1>1, <1>2
<1> QED  BY <1>1, <1>2, <1>3, CountKept

\* Work that is known stays known while ids are only handed out.
LEMMA RestUsed ==
  ASSUME WorkIsUsed, ScannersRest, used \subseteq used'
  PROVE  WorkIsUsed'
  BY DEF WorkIsUsed, ScannersRest

\* A row that is new belongs to no call yet.
LEMMA NewRowUnheld ==
  ASSUME Shape, Story, HeldRowsBegan, HoldsItsOwn, NEW j \in Jobs, NEW status,
         AddRow(j, status),
         \A q \in requests' : \E k \in requests : k.row = q.row /\ k.job = q.job
  PROVE  HoldsItsOwn'
<1>1. lastRow \in Nat /\ None \notin Nat
  BY ConstantsAssumption DEF Shape, TypeOK
<1>2. SUFFICES ASSUME NEW q \in requests', NEW r \in history', q.row = r.id
               PROVE  r.job = q.job
  BY DEF HoldsItsOwn
<1>3. PICK k \in requests : k.row = q.row /\ k.job = q.job
  OBVIOUS
<1>4. k.row # None => k.row <= lastRow
  BY DEF HeldRowsBegan
<1>5. CASE r \in history
  BY <1>2, <1>3, <1>5 DEF HoldsItsOwn
<1>6. CASE r \notin history
  <2>1. r.id = lastRow + 1
    BY <1>6 DEF AddRow
  <2>2. k.row \in Nat /\ k.row # None
    BY <1>1, <1>2, <1>3, <2>1
  <2> QED  BY <1>1, <1>2, <1>3, <1>4, <2>1, <2>2
<1> QED  BY <1>5, <1>6

\* The calls of the API keep the balance: they touch neither scanners nor calls, a
\* job that is created has no work yet, and one that is deleted takes its rows along.
LEMMA ApiBalance ==
  ASSUME Shape, Balance, Api
  PROVE  Balance'
<1>1. ScannersRest /\ used \subseteq used'
  BY DEF Api, create_job, update_job, delete_job, queue_job_for_worker, ScannersRest
<1>2. WorkIsUsed'
  BY <1>1, RestUsed DEF Balance
<1>3. HoldsItsOwn'
  <2>1. requests' = requests /\ history' \subseteq history
    BY DEF Api, create_job, update_job, delete_job, queue_job_for_worker
  <2> QED  BY <2>1 DEF Balance, HoldsItsOwn
<1>4. ASSUME NEW j \in Jobs
      PROVE  Counted(j)'
  <2>1. Counted(j)
    BY DEF Balance
  <2>2. CASE update_job \/ queue_job_for_worker
    <3>1. RunningFor(j)' = RunningFor(j)
      BY <2>2 DEF update_job, queue_job_for_worker, RunningFor
    <3>2. Exists(j)' => Exists(j)
      BY <2>2 DEF update_job, queue_job_for_worker, Exists, Shape, TypeOK
    <3> QED  BY <1>1, <2>1, <3>1, <3>2, RowsOnly
  <2>3. CASE create_job
    <3>1. PICK k \in Jobs \ used : \A i \in Jobs \ {k} : jobs'[i] = jobs[i]
      BY <2>3 DEF create_job, Shape, TypeOK
    <3>2. RunningFor(j)' = RunningFor(j)
      BY <2>3 DEF create_job, RunningFor
    <3>3. CASE j # k
      <4>1. Exists(j)' => Exists(j)
        BY <3>1, <3>3 DEF Exists
      <4> QED  BY <1>1, <2>1, <3>2, <4>1, RowsOnly
    <3>4. CASE j = k
      <4>1. j \notin used /\ j # None
        BY <3>1, <3>4, ConstantsAssumption
      <4>2. Scanning(j)' = {} /\ Submitted(j)' = {}
        <5>1. \A s \in Scanners : proc[s].job # j
          BY <4>1 DEF Balance, WorkIsUsed
        <5>2. \A q \in requests : q.job # j
          BY <4>1 DEF Balance, WorkIsUsed
        <5> QED  BY <1>1, <5>1, <5>2 DEF ScannersRest, Scanning, Submitted
      <4>3. Unread(j)' = {} /\ HeldRows(j)' = {}
        BY <4>2 DEF Unread, HeldRows
      <4>4. /\ IsFiniteSet(RunningFor(j)') /\ Cardinality(RunningFor(j)') \in Nat
        BY <2>1, <3>2, FS_CardinalityType DEF Counted
      <4>5. /\ IsFiniteSet(Scanning(j)') /\ IsFiniteSet(Unread(j)')
            /\ Cardinality(Scanning(j)') = 0 /\ Cardinality(Unread(j)') = 0
            /\ Cardinality(HeldRows(j)') = 0
        BY <4>2, <4>3, FS_EmptySet
      <4> QED  BY <4>4, <4>5 DEF Counted
    <3> QED  BY <3>3, <3>4
  <2>4. CASE delete_job
    <3>1. PICK k \in Jobs : history' = history \ RowsFor(k) /\ jobs' = [jobs EXCEPT ![k] = None]
      BY <2>4 DEF delete_job
    <3>2. CASE j # k
      <4>1. RunningFor(j)' = RunningFor(j)
        BY <3>1, <3>2 DEF RowsFor, RunningFor
      <4>2. Exists(j)' => Exists(j)
        BY <3>1, <3>2 DEF Exists, Shape, TypeOK
      <4> QED  BY <1>1, <2>1, <4>1, <4>2, RowsOnly
    <3>3. CASE j = k
      <4>1. ~Exists(j)'
        BY <3>1, <3>3 DEF Exists, Shape, TypeOK
      <4>2. /\ Scanning(j)' \subseteq Scanning(j) /\ Unread(j)' \subseteq Unread(j)
            /\ RunningFor(j)' \subseteq RunningFor(j)
        BY <1>1, <3>1 DEF ScannersRest, Scanning, Unread, Submitted, RunningFor
      <4>3. /\ IsFiniteSet(Scanning(j)') /\ IsFiniteSet(Unread(j)')
            /\ IsFiniteSet(RunningFor(j)')
        BY <2>1, <4>2, NoMore DEF Counted
      <4> QED  BY <4>1, <4>3 DEF Counted
    <3> QED  BY <3>2, <3>3
  <2> QED  BY <2>2, <2>3, <2>4 DEF Api
<1> QED  BY <1>2, <1>3, <1>4 DEF Balance

\* Runs of workers and callers, and time, keep the balance: they are no scans, and
\* the rows they add say completed or failed.
LEMMA WorkerBalance ==
  ASSUME Shape, Shape', Story, HeldRowsBegan, Balance,
         \/ Tick
         \/ \E p \in Workers \union Callers :
               WorkerPoll(p) \/ WorkerBegin(p) \/ CallerBegin(p) \/ RunDiscovery(p)
  PROVE  Balance'
<1>1. UNCHANGED <<requests, used>>
  BY DEF Tick, WorkerPoll, WorkerBegin, CallerBegin, RunDiscovery, RecordSuccess,
     RecordFailure, StoreResults, tables
<1>2. ScannersRest
  <2>1. ASSUME NEW p \in Workers \union Callers, NEW q, Become(p, q)
        PROVE  \A s \in Scanners : proc'[s] = proc[s]
    BY <2>1, ConstantsAssumption DEF Become, Shape, TypeOK, Procs
  <2>2. CASE Tick
    BY <1>1, <2>2 DEF Tick, ScannersRest
  <2>3. ASSUME NEW p \in Workers \union Callers,
               WorkerPoll(p) \/ WorkerBegin(p) \/ CallerBegin(p) \/ RunDiscovery(p)
        PROVE  \E q : Become(p, q)
    BY <2>3 DEF WorkerPoll, WorkerBegin, CallerBegin, RunDiscovery, RecordSuccess,
       RecordFailure, StoreResults
  <2> QED  BY <1>1, <2>1, <2>2, <2>3 DEF ScannersRest
<1>3. EndedRowsOnly
  <2>1. CASE Tick
    BY <2>1 DEF Tick, tables, EndedRowsOnly
  <2>2. ASSUME NEW p \in Workers \union Callers,
               WorkerPoll(p) \/ WorkerBegin(p) \/ CallerBegin(p) \/ RunDiscovery(p)
        PROVE  EndedRowsOnly
    <3>1. p \in Procs
      BY DEF Procs
    <3>2. CASE RecordSuccess(p)
      BY <3>1, <3>2 DEF RecordSuccess, Jobs, Exists, Shape, TypeOK, EndedRowsOnly
    <3>3. CASE RecordFailure(p)
      <4>1. proc[p].job \in Jobs
        BY <3>1, <3>3 DEF RecordFailure, Shape, Working
      <4> QED  BY <3>3, <4>1 DEF RecordFailure, Exists, EndedRowsOnly
    <3>4. CASE WorkerPoll(p) \/ WorkerBegin(p) \/ CallerBegin(p) \/ StoreResults(p)
      BY <3>4 DEF WorkerPoll, WorkerBegin, CallerBegin, StoreResults, tables,
         EndedRowsOnly
    <3> QED  BY <2>2, <3>2, <3>3, <3>4 DEF RunDiscovery
  <2> QED  BY <2>1, <2>2
<1>4. HoldsItsOwn'
  <2>1. CASE UNCHANGED <<history, jobs>>
    BY <1>1, <2>1 DEF Balance, HoldsItsOwn
  <2>2. ASSUME NEW j \in Jobs, NEW status, AddRow(j, status)
        PROVE  HoldsItsOwn'
    BY <1>1, <2>2, NewRowUnheld DEF Balance
  <2> QED  BY <1>3, <2>1, <2>2 DEF EndedRowsOnly
<1>5. ASSUME NEW j \in Jobs
      PROVE  RunningFor(j)' = RunningFor(j) /\ (Exists(j)' => Exists(j))
  <2>1. CASE UNCHANGED <<history, jobs>>
    BY <2>1 DEF RunningFor, Exists
  <2>2. ASSUME NEW k \in Jobs, NEW status \in {"completed", "failed"}, AddRow(k, status)
        PROVE  RunningFor(j)' = RunningFor(j)
    BY <2>2 DEF AddRow, RunningFor
  <2> QED  BY <1>3, <2>1, <2>2 DEF EndedRowsOnly
<1>6. WorkIsUsed'
  BY <1>1, <1>2, RestUsed DEF Balance
<1> QED  BY <1>2, <1>4, <1>5, <1>6, RowsOnly DEF Balance

\* A call that is left behind, or lost, is the call it was, but for who waits.
LEMMA LeftCallsSame ==
  ASSUME Shape, NEW p \in Procs,
         requests' \in {Abandoned(p), {r \in requests : r.from # p}}
  PROVE  \A q \in requests' : \E k \in requests :
            k.job = q.job /\ k.row = q.row /\ k.kind = q.kind
<1>1. ASSUME NEW k \in requests
      PROVE  /\ [k EXCEPT !.from = FaultCount].job = k.job
             /\ [k EXCEPT !.from = FaultCount].row = k.row
             /\ [k EXCEPT !.from = FaultCount].kind = k.kind
  BY DEF Shape, TypeOK, Request
<1>2. CASE requests' = Abandoned(p)
  BY <1>1, <1>2 DEF Abandoned
<1>3. CASE requests' = {r \in requests : r.from # p}
  BY <1>3
<1> QED  BY <1>2, <1>3

\* The results not looked at do not get more when calls are left behind.
LEMMA LeftUnread ==
  ASSUME Shape, NEW p \in Procs, NEW j \in Jobs, IsFiniteSet(Unread(j)),
         requests' \in {Abandoned(p), {r \in requests : r.from # p}}
  PROVE  IsFiniteSet(Unread(j)') /\ Cardinality(Unread(j)') <= Cardinality(Unread(j))
<1>1. CASE requests' = {r \in requests : r.from # p}
  <2>1. Unread(j)' \subseteq Unread(j)
    BY <1>1 DEF Unread, Submitted
  <2> QED  BY <2>1, NoMore
<1>2. CASE requests' = Abandoned(p)
  <2>1. PICK n : n = FaultCount
    OBVIOUS
  <2>2. PICK U : U = Unread(j)
    OBVIOUS
  <2> DEFINE left(q) == IF q.from = p THEN [q EXCEPT !.from = n] ELSE q
             f == [q \in U |-> left(q)]
             T == {f[q] : q \in U}
  <2>3. \A q \in requests : left(q).job = q.job /\ left(q).row = q.row /\ left(q).kind = q.kind
    BY DEF Shape, TypeOK, Request
  <2>4. requests' = {left(q) : q \in requests}
    BY <1>2, <2>1 DEF Abandoned
  <2>5. IsFiniteSet(T) /\ Cardinality(T) <= Cardinality(U) /\ Cardinality(U) \in Nat
    <3> HIDE DEF f
    <3>1. IsFiniteSet(U)
      BY <2>2
    <3> QED  BY <3>1, ImageNoLarger, FS_CardinalityType
  <2>6. Unread(j)' \subseteq T
    <3> SUFFICES ASSUME NEW k \in Unread(j)'
                 PROVE  \E q \in U : k = left(q)
      OBVIOUS
    <3>1. k \in requests' /\ k.kind = "complete" /\ k.job = j /\ k.row = None
      BY DEF Unread, Submitted
    <3> HIDE DEF left
    <3>2. PICK q \in requests : k = left(q)
      BY <2>4, <3>1
    <3>3. q \in U
      BY <2>2, <2>3, <3>1, <3>2 DEF Unread, Submitted
    <3> QED  BY <3>2, <3>3
  <2> HIDE DEF T
  <2>7. IsFiniteSet(Unread(j)') /\ Cardinality(Unread(j)') <= Cardinality(T)
        /\ Cardinality(Unread(j)') \in Nat /\ Cardinality(T) \in Nat
    BY <2>5, <2>6, NoMore
  <2> QED  BY <2>2, <2>5, <2>7
<1> QED  BY <1>1, <1>2

\* A process that gives up or dies leaves its row behind, which only makes room.
LEMMA LeaveBalance ==
  ASSUME Shape, Balance, NEW p \in Procs, NEW q, Become(p, q),
         q.pc \in {"idle", "list"}, q.todo \subseteq proc[p].todo, q.job = None,
         requests' \in {Abandoned(p), {r \in requests : r.from # p}}, UNCHANGED tables
  PROVE  Balance'
<1>1. /\ proc'[p] = q /\ \A k \in Procs \ {p} : proc'[k] = proc[k]
      /\ UNCHANGED <<jobs, used, history>>
  BY DEF Become, Shape, TypeOK, tables
<1>2. \A r \in requests' : \E k \in requests :
         k.job = r.job /\ k.row = r.row /\ k.kind = r.kind
  BY LeftCallsSame
<1>3. HoldsItsOwn'
  <2> SUFFICES ASSUME NEW r \in requests', NEW h \in history, r.row = h.id
               PROVE  h.job = r.job
    BY <1>1 DEF HoldsItsOwn
  <2> QED  BY <1>2 DEF Balance, HoldsItsOwn
<1>4. WorkIsUsed'
  <2>1. ASSUME NEW s \in Scanners
        PROVE  proc'[s].todo \subseteq used /\ proc'[s].job \in used \union {None}
    BY <1>1 DEF Balance, WorkIsUsed, Procs
  <2>2. \A r \in requests' : r.job \in used
    BY <1>2 DEF Balance, WorkIsUsed
  <2> QED  BY <1>1, <2>1, <2>2 DEF WorkIsUsed
<1>5. ASSUME NEW j \in Jobs
      PROVE  Counted(j)'
  <2>1. Counted(j) /\ IsFiniteSet(RunningFor(j))
    BY DEF Balance, Counted
  <2>2. Scanning(j)' \subseteq Scanning(j)
    BY <1>1 DEF Scanning, Procs
  <2>3. HeldRows(j)' \subseteq HeldRows(j) /\ RunningFor(j)' = RunningFor(j)
    BY <1>1, <1>2 DEF HeldRows, Submitted, RunningFor
  <2>4. IsFiniteSet(Unread(j)') /\ Cardinality(Unread(j)') <= Cardinality(Unread(j))
    BY <2>1, LeftUnread DEF Counted
  <2>5. Exists(j)' => Exists(j)
    BY <1>1 DEF Exists
  <2>6. IsFiniteSet(RunningFor(j)')
    BY <2>1, <2>3
  <2> QED  BY <2>1, <2>2, <2>3, <2>4, <2>5, <2>6, CountKept
<1> QED  BY <1>3, <1>4, <1>5 DEF Balance

\* A scanner polls, is done, starts a scan, submits a result, or gives up waiting.
LEMMA ScannerBalance ==
  ASSUME Shape, Story, Balance, NEW s \in Scanners, ScannerStep(s) \/ ScannerGivesUp(s)
  PROVE  Balance'
<1>1. s \in Procs /\ UNCHANGED <<jobs, used, history>> /\ proc[s] \in Process
  BY DEF ScannerStep, ScannerPoll, ScannerDone, ScannerStart, ScannerSubmit,
     ScannerGivesUp, tables, Procs, Shape, TypeOK
<1>2. ASSUME NEW j \in Jobs
      PROVE  /\ Counted(j) /\ RunningFor(j)' = RunningFor(j)
             /\ IsFiniteSet(RunningFor(j)') /\ (Exists(j)' => Exists(j))
  <2>1. RunningFor(j)' = RunningFor(j) /\ Counted(j)
    BY <1>1 DEF RunningFor, Balance
  <2> QED  BY <1>1, <2>1 DEF Exists, Counted
<1>3. ASSUME NEW q, Become(s, q)
      PROVE  proc'[s] = q /\ \A k \in Scanners \ {s} : proc'[k] = proc[k]
  BY <1>1, <1>3 DEF Become, Shape, TypeOK, Procs
<1>4. ASSUME NEW q, Become(s, q), q.pc # "scan", q.todo \subseteq used, q.job = None,
             UNCHANGED requests
      PROVE  Balance'
  <2>1. HoldsItsOwn' /\ WorkIsUsed'
    BY <1>1, <1>3, <1>4 DEF Balance, HoldsItsOwn, WorkIsUsed
  <2>2. ASSUME NEW j \in Jobs
        PROVE  Counted(j)'
    <3>1. /\ Scanning(j)' \subseteq Scanning(j) /\ Unread(j)' = Unread(j)
          /\ HeldRows(j)' = HeldRows(j)
      BY <1>1, <1>3, <1>4 DEF Scanning, Unread, Submitted, HeldRows, RunningFor
    <3>2. IsFiniteSet(Unread(j)') /\ Cardinality(Unread(j)') \in Nat
      BY <1>2, <3>1, FS_CardinalityType DEF Counted
    <3>3. Cardinality(Unread(j)') <= Cardinality(Unread(j))
      BY <3>1, <3>2
    <3> QED  BY <1>2, <3>1, <3>2, <3>3, CountKept
  <2> QED  BY <2>1, <2>2 DEF Balance
<1>5. CASE ScannerPoll(s)
  <2> DEFINE q == [Idle EXCEPT !.pc = "list", !.todo = {j \in Jobs : Pending(j)}]
  <2>1. q.pc = "list" /\ q.todo = {j \in Jobs : Pending(j)} /\ q.job = None
    BY DEF Idle
  <2>2. {j \in Jobs : Pending(j)} \subseteq used
    BY DEF Pending, Story, JobsUsed
  <2>3. Become(s, q) /\ UNCHANGED requests
    BY <1>5 DEF ScannerPoll
  <2> HIDE DEF q
  <2> QED  BY <1>4, <2>1, <2>2, <2>3
<1>6. CASE ScannerDone(s)
  <2>1. Idle.pc = "idle" /\ Idle.todo = {} /\ Idle.job = None
    BY DEF Idle
  <2> QED  BY <1>4, <1>6, <2>1 DEF ScannerDone
<1>7. CASE ScannerGivesUp(s)
  <2>1. Rest(s).pc \in {"idle", "list"} /\ Rest(s).todo = proc[s].todo /\ Rest(s).job = None
    BY DEF Rest, Idle
  <2> QED  BY <1>1, <1>7, <2>1, LeaveBalance DEF ScannerGivesUp
<1>8. ASSUME NEW kind, NEW j \in used, NEW ok, Send(s, kind, j, ok)
      PROVE  /\ HoldsItsOwn' /\ \A q \in requests' : q.job \in used
             /\ \E new : /\ new.row = None /\ new.kind = kind /\ new.job = j
                         /\ requests' = requests \union {new}
  <2> DEFINE new == [kind |-> kind, from |-> s, job |-> j, ok |-> ok, row |-> None,
                     interval |-> 0]
  <2>1. new.row = None /\ new.kind = kind /\ new.job = j /\ requests' = requests \union {new}
    BY <1>8 DEF Send
  <2> HIDE DEF new
  <2>2. \A r \in history : r.id # None
    BY ConstantsAssumption DEF Shape, TypeOK, HistoryRow
  <2>3. HoldsItsOwn'
    BY <1>1, <2>1, <2>2 DEF Balance, HoldsItsOwn
  <2> QED  BY <2>1, <2>3 DEF Balance, WorkIsUsed
<1>9. CASE ScannerStart(s)
  <2>1. PICK j \in proc[s].todo :
           /\ Send(s, "start", j, FALSE)
           /\ Become(s, [pc |-> "starting", todo |-> proc[s].todo \ {j}, job |-> j,
                         org |-> FALSE])
    BY <1>9 DEF ScannerStart
  <2>2. j \in used /\ proc[s].todo \subseteq used
    BY <2>1 DEF Balance, WorkIsUsed
  <2>3. PICK new : new.kind = "start" /\ requests' = requests \union {new}
    BY <1>8, <2>1, <2>2
  <2>4. proc'[s].pc = "starting" /\ proc'[s].todo \subseteq used /\ proc'[s].job = j
    BY <1>3, <2>1, <2>2
  <2>5. HoldsItsOwn' /\ WorkIsUsed'
    <3>1. HoldsItsOwn' /\ \A q \in requests' : q.job \in used
      BY <1>8, <2>1, <2>2
    <3>2. \A k \in Scanners \ {s} : proc'[k] = proc[k]
      BY <1>3, <2>1
    <3> QED  BY <1>1, <2>2, <2>4, <3>1, <3>2 DEF WorkIsUsed, Balance
  <2>6. ASSUME NEW i \in Jobs
        PROVE  Counted(i)'
    <3>1. Scanning(i)' \subseteq Scanning(i)
      BY <1>3, <2>1, <2>4 DEF Scanning
    <3>2. Submitted(i)' = Submitted(i)
      BY <2>3 DEF Submitted
    <3>3. Unread(i)' = Unread(i) /\ HeldRows(i)' = HeldRows(i)
      BY <1>2, <3>2 DEF Unread, HeldRows
    <3>4. IsFiniteSet(Unread(i)') /\ Cardinality(Unread(i)') \in Nat
      BY <1>2, <3>3, FS_CardinalityType DEF Counted
    <3>5. Cardinality(Unread(i)') <= Cardinality(Unread(i))
      BY <3>3, <3>4
    <3> QED  BY <1>2, <3>1, <3>3, <3>4, <3>5, CountKept
  <2> QED  BY <2>5, <2>6 DEF Balance
<1>10. CASE ScannerSubmit(s)
  <2>1. PICK j : j = proc[s].job
    OBVIOUS
  <2>2. proc[s].pc = "scan" /\ j \in Jobs
    BY <1>1, <1>10, <2>1 DEF ScannerSubmit, At, Shape, Working
  <2>3. j \in used
    BY <2>1, <2>2, ConstantsAssumption DEF Balance, WorkIsUsed
  <2>4. PICK ok \in BOOLEAN : Send(s, "complete", j, ok)
    BY <1>10, <2>1 DEF ScannerSubmit
  <2>5. PICK new : /\ new.row = None /\ new.kind = "complete" /\ new.job = j
                   /\ requests' = requests \union {new}
    BY <1>8, <2>3, <2>4
  <2>6. /\ proc'[s].pc = "submitting" /\ proc'[s].todo = proc[s].todo
        /\ proc'[s].job = proc[s].job /\ \A k \in Scanners \ {s} : proc'[k] = proc[k]
    <3>1. Become(s, [proc[s] EXCEPT !.pc = "submitting"])
      BY <1>10 DEF ScannerSubmit
    <3>2. proc'[s] = [proc[s] EXCEPT !.pc = "submitting"]
      BY <1>3, <3>1
    <3> QED  BY <1>1, <1>3, <3>1, <3>2 DEF Process
  <2>7. HoldsItsOwn' /\ WorkIsUsed'
    BY <1>1, <1>8, <2>3, <2>4, <2>6 DEF WorkIsUsed, Balance
  <2>8. ASSUME NEW i \in Jobs, i # j
        PROVE  Counted(i)'
    <3>1. Scanning(i)' \subseteq Scanning(i)
      BY <2>1, <2>6 DEF Scanning
    <3>2. Submitted(i)' = Submitted(i)
      BY <2>5, <2>8 DEF Submitted
    <3>3. Unread(i)' = Unread(i) /\ HeldRows(i)' = HeldRows(i)
      BY <1>2, <3>2 DEF Unread, HeldRows
    <3>4. IsFiniteSet(Unread(i)') /\ Cardinality(Unread(i)') \in Nat
      BY <1>2, <3>3, FS_CardinalityType DEF Counted
    <3>5. Cardinality(Unread(i)') <= Cardinality(Unread(i))
      BY <3>3, <3>4
    <3> QED  BY <1>2, <3>1, <3>3, <3>4, <3>5, CountKept
  <2>9. Counted(j)'
    <3>1. s \in Scanning(j) /\ Scanning(j)' \subseteq Scanning(j) \ {s}
      BY <2>1, <2>2, <2>6 DEF Scanning
    <3>2. Unread(j)' \subseteq Unread(j) \union {new}
      BY <2>5 DEF Unread, Submitted
    <3>3. HeldRows(j)' \subseteq HeldRows(j)
      <4>1. \A r \in RunningFor(j) : r.id # None
        BY ConstantsAssumption DEF RunningFor, Shape, TypeOK, HistoryRow
      <4> QED  BY <1>2, <2>2, <2>5, <4>1 DEF HeldRows, Submitted
    <3> QED  BY <1>2, <2>2, <3>1, <3>2, <3>3, CountSubmitted
  <2> QED  BY <2>7, <2>8, <2>9 DEF Balance
<1> QED  BY <1>5, <1>6, <1>7, <1>9, <1>10 DEF ScannerStep

\* Answering a call takes it away and moves no scanner but the one that waits.
LEMMA AnswerMoves ==
  ASSUME Shape, NEW q \in requests, NEW pc, Answer(q, pc)
  PROVE  /\ requests' = requests \ {q}
         /\ \A s \in Scanners :
               \/ proc'[s] = proc[s]
               \/ /\ s = q.from /\ proc[s].job = q.job
                  /\ \/ pc = "scan" /\ proc'[s].pc = "scan"
                        /\ proc'[s].job = q.job /\ proc'[s].todo = proc[s].todo
                     \/ pc # "scan" /\ proc'[s].pc # "scan"
                        /\ proc'[s].job = None /\ proc'[s].todo = proc[s].todo
<1>1. requests' = requests \ {q}
  BY DEF Answer
<1>2. ASSUME NEW s \in Scanners
      PROVE  \/ proc'[s] = proc[s]
             \/ /\ s = q.from /\ proc[s].job = q.job
                /\ \/ pc = "scan" /\ proc'[s].pc = "scan"
                      /\ proc'[s].job = q.job /\ proc'[s].todo = proc[s].todo
                   \/ pc # "scan" /\ proc'[s].pc # "scan"
                      /\ proc'[s].job = None /\ proc'[s].todo = proc[s].todo
  <2>1. proc[s] \in Process /\ s \in Procs
    BY DEF Procs, Shape, TypeOK
  <2>2. CASE s # q.from
    BY <2>1, <2>2 DEF Answer, Shape, TypeOK
  <2>3. CASE s = q.from
    <3>1. proc[s].job = q.job
      BY <2>3 DEF Shape, Links
    <3>2. CASE pc = "scan"
      <4>1. proc'[s] = [proc[s] EXCEPT !.pc = "scan"]
        BY <2>1, <2>3, <3>2 DEF Answer, Shape, TypeOK
      <4> QED  BY <2>1, <2>3, <3>1, <3>2, <4>1 DEF Process
    <3>3. CASE pc # "scan"
      <4>1. proc'[s] = Rest(s)
        BY <2>1, <2>3, <3>3 DEF Answer, Shape, TypeOK
      <4>2. Rest(s).pc # "scan" /\ Rest(s).job = None /\ Rest(s).todo = proc[s].todo
        BY DEF Rest, Idle
      <4> QED  BY <2>3, <3>1, <3>3, <4>1, <4>2
    <3> QED  BY <3>2, <3>3
  <2> QED  BY <2>2, <2>3
<1> QED  BY <1>1, <1>2

\* What an answer does to the work that is known, and to the calls.
LEMMA AnswerUsed ==
  ASSUME Shape, WorkIsUsed, NEW q \in requests, NEW pc, Answer(q, pc), used' = used
  PROVE  /\ WorkIsUsed'
         /\ \A k \in requests' : \E r \in requests : r.row = k.row /\ r.job = k.job
<1>1. q.job \in used /\ requests' \subseteq requests
  BY DEF WorkIsUsed, Answer
<1>2. ASSUME NEW s \in Scanners
      PROVE  proc'[s].todo \subseteq used /\ proc'[s].job \in used \union {None}
  BY <1>1, AnswerMoves DEF WorkIsUsed
<1> QED  BY <1>1, <1>2 DEF WorkIsUsed

\* A call that is answered with an error leaves the count alone.
LEMMA ErrorBalance ==
  ASSUME Shape, Balance, NEW q \in requests, Answer(q, "list"), UNCHANGED tables
  PROVE  Balance'
<1>1. UNCHANGED <<jobs, used, history>>
  BY DEF tables
<1>2. WorkIsUsed' /\ HoldsItsOwn'
  <2>1. requests' \subseteq requests
    BY DEF Answer
  <2> QED  BY <1>1, <2>1, AnswerUsed DEF Balance, HoldsItsOwn
<1>3. ASSUME NEW j \in Jobs
      PROVE  Counted(j)'
  <2>1. Counted(j)
    BY DEF Balance
  <2>2. Scanning(j)' \subseteq Scanning(j)
    BY AnswerMoves DEF Scanning
  <2>3. /\ Unread(j)' \subseteq Unread(j) /\ RunningFor(j)' = RunningFor(j)
        /\ HeldRows(j)' \subseteq HeldRows(j)
    BY <1>1 DEF Answer, Unread, Submitted, HeldRows, RunningFor
  <2>4. IsFiniteSet(Unread(j)') /\ Cardinality(Unread(j)') <= Cardinality(Unread(j))
    BY <2>1, <2>3, NoMore DEF Counted
  <2>5. IsFiniteSet(RunningFor(j)') /\ (Exists(j)' => Exists(j))
    BY <1>1, <2>1, <2>3 DEF Counted, Exists
  <2> QED  BY <2>1, <2>2, <2>3, <2>4, <2>5, CountKept
<1> QED  BY <1>2, <1>3 DEF Balance

\* A scan that is let begin has got a row of its own before.
LEMMA StartBalance ==
  ASSUME Shape, Story, HeldRowsBegan, Balance, NEW q \in requests, mark_job_running(q)
  PROVE  Balance'
<1>1. q.job \in Jobs /\ UNCHANGED used
  BY DEF mark_job_running, Shape, TypeOK, Request
<1>2. CASE ~Exists(q.job)
  BY <1>1, <1>2, ErrorBalance DEF mark_job_running, tables
<1>3. CASE Exists(q.job)
  <2>1. /\ AddRow(q.job, "running") /\ Answer(q, "scan")
        /\ jobs' = [jobs EXCEPT ![q.job].last = clock]
    BY <1>3 DEF mark_job_running
  <2>2. WorkIsUsed'
    BY <1>1, <2>1, AnswerUsed DEF Balance
  <2>3. HoldsItsOwn'
    BY <1>1, <2>1, AnswerUsed, NewRowUnheld DEF Balance
  <2>4. ASSUME NEW j \in Jobs
        PROVE  /\ Counted(j) /\ (Exists(j)' => Exists(j))
               /\ Unread(j)' \subseteq Unread(j) /\ Submitted(j)' \subseteq Submitted(j)
    <3>1. Exists(j)' => Exists(j)
      BY <1>3, <2>1 DEF Exists, Shape, TypeOK
    <3> QED  BY <2>1, <3>1 DEF Balance, Answer, Unread, Submitted
  <2>5. PICK row : /\ row.id = lastRow + 1 /\ row.job = q.job /\ row.status = "running"
                   /\ history' = history \union {row}
    BY <2>1 DEF AddRow
  <2>6. ASSUME NEW j \in Jobs
        PROVE  HeldRows(j)' \subseteq HeldRows(j)
    <3> SUFFICES ASSUME NEW r \in HeldRows(j)'
                 PROVE  r \in HeldRows(j)
      OBVIOUS
    <3>1. PICK k \in Submitted(j)' : k.row = r.id
      BY DEF HeldRows
    <3>2. k \in Submitted(j) /\ r \in history' /\ r.job = j /\ r.status = "running"
      BY <2>4 DEF HeldRows, RunningFor
    <3>3. k \in requests
      BY <3>2 DEF Submitted
    <3>4. lastRow \in Nat /\ None \notin Nat
      BY ConstantsAssumption DEF Shape, TypeOK
    <3>5. r # row
      <4> SUFFICES ASSUME r = row
                   PROVE  FALSE
        OBVIOUS
      <4>1. k.row = lastRow + 1
        BY <2>5, <3>1
      <4>2. k.row # None
        BY <3>4, <4>1
      <4>3. k.row <= lastRow
        BY <3>3, <4>2 DEF HeldRowsBegan
      <4> QED  BY <3>4, <4>1, <4>3
    <3>6. r \in history
      BY <2>5, <3>2, <3>5
    <3> QED  BY <3>1, <3>2, <3>6 DEF HeldRows, RunningFor
  <2>7. ASSUME NEW j \in Jobs, j # q.job
        PROVE  Counted(j)'
    <3>1. Scanning(j)' \subseteq Scanning(j)
      BY <2>1, <2>7, AnswerMoves DEF Scanning
    <3>2. RunningFor(j)' = RunningFor(j)
      BY <2>5, <2>7 DEF RunningFor
    <3>3. /\ IsFiniteSet(Unread(j)') /\ Cardinality(Unread(j)') <= Cardinality(Unread(j))
      BY <2>4, NoMore DEF Counted
    <3>4. IsFiniteSet(RunningFor(j)')
      BY <2>4, <3>2 DEF Counted
    <3> QED  BY <2>4, <2>6, <3>1, <3>2, <3>3, <3>4, CountKept
  <2>8. Counted(q.job)'
    <3>1. PICK j \in Jobs : j = q.job
      BY <1>1
    <3>2. Scanning(j)' \subseteq Scanning(j) \union {q.from}
      BY <2>1, AnswerMoves DEF Scanning
    <3>3. RunningFor(j)' = RunningFor(j) \union {row}
      BY <2>5, <3>1 DEF RunningFor
    <3>4. row \notin RunningFor(j)
      <4>1. \A r \in history : r.id <= lastRow
        BY DEF Story, RowsNumbered
      <4>2. lastRow \in Nat
        BY DEF Shape, TypeOK
      <4> QED  BY <2>5, <4>1, <4>2 DEF RunningFor
    <3>5. Counted(j)'
      BY <1>3, <2>4, <2>6, <3>1, <3>2, <3>3, <3>4, CountStarted
    <3> QED  BY <3>1, <3>5
  <2> QED  BY <2>2, <2>3, <2>7, <2>8 DEF Balance
<1> QED  BY <1>2, <1>3

\* complete_job gets hold of a running row, or finds none and holds nothing.
LEMMA ReadBalance ==
  ASSUME Shape, Story, Balance, NEW q \in requests, complete_job_read(q)
  PROVE  Balance'
<1>1. /\ q \in Request /\ q.job \in Jobs /\ UNCHANGED <<jobs, used, history>>
      /\ q.kind = "complete" /\ q.row = None /\ UNCHANGED tables
  BY DEF complete_job_read, tables, Shape, TypeOK, Request
<1>2. CASE ~Exists(q.job)
  BY <1>1, <1>2, ErrorBalance DEF complete_job_read
<1>3. CASE Exists(q.job)
  <2>1. \A r \in history : r.id \in Nat /\ r.id # 0
    BY DEF Shape, TypeOK, HistoryRow
  <2>2. PICK row \in Nat :
           /\ Reading(q, row)
           /\ row = 0 \/ \E r \in RunningFor(q.job) : r.id = row
    BY <1>3, <2>1 DEF complete_job_read, RunningFor
  <2>3. UNCHANGED proc
    BY <1>3 DEF complete_job_read
  <2>4. PICK new : /\ new.row = row /\ new.kind = "complete" /\ new.job = q.job
                   /\ requests' = (requests \ {q}) \union {new}
    <3> DEFINE new == [q EXCEPT !.row = row, !.interval = jobs[q.job].interval]
    <3>1. new.row = row /\ new.kind = "complete" /\ new.job = q.job
      BY <1>1 DEF Request
    <3> QED  BY <2>2, <3>1 DEF Reading
  <2>5. \A r \in history : r.id = row => r.job = q.job /\ r \in RunningFor(q.job)
    BY <2>1, <2>2 DEF Story, RowsNumbered, RunningFor
  <2>6. HoldsItsOwn' /\ WorkIsUsed'
    BY <1>1, <2>3, <2>4, <2>5 DEF Balance, HoldsItsOwn, WorkIsUsed
  <2>7. ASSUME NEW j \in Jobs
        PROVE  /\ Counted(j) /\ (Exists(j)' => Exists(j))
               /\ Scanning(j)' = Scanning(j) /\ RunningFor(j)' = RunningFor(j)
               /\ IsFiniteSet(RunningFor(j)')
    <3>1. Counted(j) /\ Scanning(j)' = Scanning(j) /\ RunningFor(j)' = RunningFor(j)
      BY <1>1, <2>3 DEF Balance, Scanning, RunningFor
    <3> QED  BY <1>1, <3>1 DEF Exists, Counted
  <2>8. ASSUME NEW j \in Jobs, j # q.job
        PROVE  Counted(j)'
    <3>1. Submitted(j)' = Submitted(j)
      BY <2>4, <2>8 DEF Submitted
    <3>2. Unread(j)' = Unread(j) /\ HeldRows(j)' = HeldRows(j)
      BY <2>7, <3>1 DEF Unread, HeldRows
    <3>3. IsFiniteSet(Unread(j)') /\ Cardinality(Unread(j)') \in Nat
      BY <2>7, <3>2, FS_CardinalityType DEF Counted
    <3>4. Cardinality(Unread(j)') <= Cardinality(Unread(j))
      BY <3>2, <3>3
    <3> QED  BY <2>7, <3>2, <3>3, <3>4, CountKept
  <2>9. Counted(q.job)'
    <3>1. PICK j \in Jobs : j = q.job
      BY <1>1
    <3>2. q \in Unread(j) /\ Unread(j)' \subseteq Unread(j) \ {q}
      BY <1>1, <2>2, <2>4, <3>1, ConstantsAssumption DEF Unread, Submitted
    <3>3. \E r : HeldRows(j)' \subseteq HeldRows(j) \union {r}
      <4>1. \A k \in Submitted(j)' : k \in Submitted(j) \/ k.row = row
        BY <2>4 DEF Submitted
      <4>2. CASE row = 0
        <5>1. \A r \in RunningFor(j) : r.id # row
          BY <2>1, <4>2 DEF RunningFor
        <5>2. HeldRows(j)' \subseteq HeldRows(j)
          BY <2>7, <4>1, <5>1 DEF HeldRows
        <5> QED  BY <5>2
      <4>3. CASE row # 0
        <5>1. PICK r \in RunningFor(j) : r.id = row
          BY <2>2, <3>1, <4>3
        <5>2. \A h \in RunningFor(j) : h.id = row => h = r
          BY <5>1 DEF RunningFor, Story, RowsNumbered
        <5>3. HeldRows(j)' \subseteq HeldRows(j) \union {r}
          BY <2>7, <4>1, <5>2 DEF HeldRows
        <5> QED  BY <5>3
      <4> QED  BY <4>2, <4>3
    <3>4. Counted(j)'
      BY <2>7, <3>2, <3>3, CountRead
    <3> QED  BY <3>1, <3>4
  <2> QED  BY <2>6, <2>8, <2>9 DEF Balance
<1> QED  BY <1>2, <1>3

\* complete_job finishes the row it holds, if no other call has finished it.
LEMMA WriteBalance ==
  ASSUME Shape, Story, Balance, NEW q \in requests, complete_job_write(q)
  PROVE  Balance'
<1>1. /\ q \in Request /\ q.job \in Jobs /\ UNCHANGED used
      /\ q.kind = "complete" /\ q.row # None /\ Answer(q, "list")
  BY DEF complete_job_write, Shape, TypeOK, Request
<1>2. \A r \in history : r \in HistoryRow
  BY DEF Shape, TypeOK
<1> DEFINE done(r) == [r EXCEPT !.status = IF q.ok THEN "completed" ELSE "failed"]
<1>3. \A r \in history : done(r).job = r.job /\ done(r).id = r.id /\ done(r).status # "running"
  BY <1>2 DEF HistoryRow
<1>4. history' = {IF r.id = q.row THEN done(r) ELSE r : r \in history}
  BY DEF complete_job_write
<1> HIDE DEF done
<1>5. \A j \in Jobs : Exists(j)' => Exists(j)
  BY <1>1 DEF complete_job_write, Exists, Shape, TypeOK
<1>6. WorkIsUsed' /\ requests' \subseteq requests
  BY <1>1, AnswerUsed DEF Balance, Answer
<1>7. HoldsItsOwn'
  <2> SUFFICES ASSUME NEW k \in requests', NEW r \in history', k.row = r.id
               PROVE  r.job = k.job
    BY DEF HoldsItsOwn
  <2>1. PICK h \in history : h.id = r.id /\ h.job = r.job
    BY <1>3, <1>4
  <2> QED  BY <1>6, <2>1 DEF Balance, HoldsItsOwn
<1>8. ASSUME NEW j \in Jobs
      PROVE  RunningFor(j)' = {r \in RunningFor(j) : r.id # q.row}
  <2>1. ASSUME NEW k \in RunningFor(j)'
        PROVE  k \in RunningFor(j) /\ k.id # q.row
    <3>1. k \in history' /\ k.job = j /\ k.status = "running"
      BY DEF RunningFor
    <3>2. PICK r \in history : k = IF r.id = q.row THEN done(r) ELSE r
      BY <1>4, <3>1
    <3> QED  BY <1>3, <3>1, <3>2 DEF RunningFor
  <2>2. ASSUME NEW k \in RunningFor(j), k.id # q.row
        PROVE  k \in RunningFor(j)'
    BY <1>4, <2>2 DEF RunningFor
  <2> QED  BY <2>1, <2>2
<1>9. ASSUME NEW j \in Jobs
      PROVE  Counted(j)'
  <2>1. Counted(j)
    BY DEF Balance
  <2>2. Scanning(j)' \subseteq Scanning(j)
    BY <1>1, AnswerMoves DEF Scanning
  <2>3. /\ Unread(j)' \subseteq Unread(j) /\ Submitted(j)' \subseteq Submitted(j)
        /\ RunningFor(j)' \subseteq RunningFor(j)
    BY <1>6, <1>8 DEF Unread, Submitted
  <2>4. HeldRows(j)' \subseteq HeldRows(j)
    BY <2>3 DEF HeldRows
  <2>5. CASE \E r \in RunningFor(j) : r.id = q.row
    <3>1. PICK r \in RunningFor(j) : r.id = q.row
      BY <2>5
    <3>2. r \in history /\ r.job = j
      BY DEF RunningFor
    <3>3. q.job = j
      BY <3>1, <3>2 DEF Balance, HoldsItsOwn
    <3>4. r \in HeldRows(j)
      BY <1>1, <3>1, <3>3 DEF HeldRows, Submitted
    <3>5. RunningFor(j)' = RunningFor(j) \ {r}
      <4>1. \A h \in RunningFor(j) : h.id = q.row => h = r
        BY <3>1, <3>2 DEF RunningFor, Story, RowsNumbered
      <4> QED  BY <1>8, <3>1, <4>1
    <3>6. HeldRows(j)' \subseteq HeldRows(j) \ {r}
      BY <2>4, <3>5 DEF HeldRows
    <3> QED  BY <1>5, <2>1, <2>2, <2>3, <3>4, <3>5, <3>6, CountWritten
  <2>6. CASE \A r \in RunningFor(j) : r.id # q.row
    <3>1. RunningFor(j)' = RunningFor(j)
      BY <1>8, <2>6
    <3>2. IsFiniteSet(RunningFor(j)')
      BY <2>1, <3>1 DEF Counted
    <3>3. IsFiniteSet(Unread(j)') /\ Cardinality(Unread(j)') <= Cardinality(Unread(j))
      BY <2>1, <2>3, NoMore DEF Counted
    <3> QED  BY <1>5, <2>1, <2>2, <2>4, <3>1, <3>2, <3>3, CountKept
  <2> QED  BY <2>5, <2>6
<1> QED  BY <1>6, <1>7, <1>9 DEF Balance

-----------------------------------------------------------------------------
(***************************************************************************)
(* The theorem                                                             *)
(***************************************************************************)
\* At first there is no work at all.
LEMMA InitBalance == Init => Balance
<1> SUFFICES ASSUME Init
             PROVE  Balance
  OBVIOUS
<1>1. HoldsItsOwn /\ WorkIsUsed
  BY DEF Init, HoldsItsOwn, WorkIsUsed, Procs, Idle
<1>2. ASSUME NEW j \in Jobs
      PROVE  Counted(j)
  <2>1. Scanning(j) = {}
    BY DEF Init, Scanning, Procs, Idle
  <2>2. Unread(j) = {} /\ RunningFor(j) = {} /\ HeldRows(j) = {}
    BY DEF Init, Unread, Submitted, RunningFor, HeldRows
  <2> QED  BY <2>1, <2>2, FS_EmptySet DEF Counted
<1> QED  BY <1>1, <1>2 DEF Balance

\* A step keeps the balance.
LEMMA BalanceStep ==
  ASSUME IInv, IInv', Balance, [Next]_vars
  PROVE  Balance'
<1>1. Shape /\ Shape' /\ Story /\ HeldRowsBegan
  BY DEF IInv
<1>2. CASE Api
  BY <1>1, <1>2, ApiBalance
<1>3. CASE \/ Tick
           \/ \E p \in Workers \union Callers :
                 WorkerPoll(p) \/ WorkerBegin(p) \/ CallerBegin(p) \/ RunDiscovery(p)
  BY <1>1, <1>3, WorkerBalance
<1>4. ASSUME NEW s \in Scanners, ScannerStep(s) \/ ScannerGivesUp(s)
      PROVE  Balance'
  BY <1>1, <1>4, ScannerBalance
<1>5. ASSUME NEW q \in requests, Handle(q)
      PROVE  Balance'
  BY <1>1, <1>5, StartBalance, ReadBalance, WriteBalance DEF Handle
<1>6. ASSUME NEW p \in Procs, Crash(p)
      PROVE  Balance'
  <2>1. Idle.pc = "idle" /\ Idle.todo = {} /\ Idle.job = None
    BY DEF Idle
  <2> QED  BY <1>1, <1>6, <2>1, LeaveBalance DEF Crash
<1>7. CASE UNCHANGED vars
  <2>1. ScannersRest /\ HoldsItsOwn' /\ WorkIsUsed'
    BY <1>7 DEF vars, ScannersRest, Balance, HoldsItsOwn, WorkIsUsed
  <2>2. ASSUME NEW j \in Jobs
        PROVE  Counted(j)'
    <3>1. RunningFor(j)' = RunningFor(j) /\ (Exists(j)' => Exists(j))
      BY <1>7 DEF vars, RunningFor, Exists
    <3> QED  BY <2>1, <3>1, RowsOnly DEF Balance
  <2> QED  BY <2>1, <2>2 DEF Balance
<1> QED  BY <1>2, <1>3, <1>4, <1>5, <1>6, <1>7 DEF Next, WorkerStep

\* complete_job finds a running row for every scan under way and every result not
\* yet looked at, with any number of scanners, and whatever calls are lost.
THEOREM EveryScanHasARowTheorem == Spec => []EveryScanHasARow
<1>1. Init => Balance
  BY InitBalance
<1>2. IInv /\ IInv' /\ Balance /\ [Next]_vars => Balance'
  BY BalanceStep
<1>3. Balance => EveryScanHasARow
  <2> SUFFICES ASSUME Balance, NEW j \in Jobs, Exists(j)
               PROVE  Cardinality(Scanning(j)) + Cardinality(Unread(j))
                         <= Cardinality(RunningFor(j))
    BY DEF EveryScanHasARow
  <2>1. Counted(j)
    BY DEF Balance
  <2> QED  BY <2>1, Sizes DEF Counted
<1> QED  BY <1>1, <1>2, <1>3, Invariance, PTL DEF Spec

-----------------------------------------------------------------------------
(***************************************************************************)
(* One scanner, and nothing goes wrong                                     *)
(***************************************************************************)
Calm == faults["lost"] + faults["crash"] = 0

RunningRows == {r \in history : r.status = "running"}

\* The only row that says running is that of the scan that s makes, or has
\* submitted to a call that holds no other row.
ScannedBy(s, r) ==
    /\ proc[s].job = r.job
    /\ \/ proc[s].pc = "scan"
       \/ /\ proc[s].pc = "submitting"
          /\ \E q \in requests :
                q.kind = "complete" /\ q.job = r.job /\ q.row \in {None, r.id}

OnlyItsRow(s) ==
    Calm => /\ \A q \in requests : q.from = s
            /\ \A r \in RunningRows :
                  ScannedBy(s, r) /\ \A k \in RunningRows : k = r

\* Faults are counted, so a state without one comes after a state without one.
LEMMA CalmBefore ==
  ASSUME TypeOK, [Next]_vars, Calm'
  PROVE  Calm /\ ~(\E p : Crash(p)) /\ ~(\E s : ScannerGivesUp(s))
<1>1. /\ faults["lost"] \in Nat /\ faults["crash"] \in Nat /\ faults["fail"] \in Nat
      /\ DOMAIN faults = FaultKinds
  BY DEF TypeOK, FaultKinds
<1>2. ASSUME NEW kind, Fault(kind)
      PROVE  /\ kind \in {"lost", "crash"} => ~Calm'
             /\ Calm' => Calm
  <2>1. kind \in FaultKinds /\ faults' = [faults EXCEPT ![kind] = @ + 1]
    BY <1>2, ConstantsAssumption DEF Fault
  <2>2. kind \in {"fail", "lost", "crash"}
    BY <2>1 DEF FaultKinds
  <2>3. CASE kind = "lost"
    BY <1>1, <2>1, <2>3 DEF Calm, FaultKinds
  <2>4. CASE kind = "crash"
    BY <1>1, <2>1, <2>4 DEF Calm, FaultKinds
  <2>5. CASE kind = "fail"
    BY <1>1, <2>1, <2>5 DEF Calm, FaultKinds
  <2> QED  BY <2>2, <2>3, <2>4, <2>5
<1>3. ~(\E p : Crash(p)) /\ ~(\E s : ScannerGivesUp(s))
  BY <1>2 DEF Crash, ScannerGivesUp
<1>4. CASE UNCHANGED faults
  BY <1>3, <1>4 DEF Calm
<1>5. ASSUME Next, ~UNCHANGED faults
      PROVE  \E kind : Fault(kind)
  <2>1. ASSUME Api \/ Tick
        PROVE  UNCHANGED faults
    BY <2>1 DEF Api, create_job, update_job, delete_job, queue_job_for_worker, Tick
  <2>2. ASSUME NEW p, RunDiscovery(p)
        PROVE  UNCHANGED faults \/ \E kind : Fault(kind)
    BY <2>2 DEF RunDiscovery, RecordSuccess, RecordFailure, StoreResults, NoFault
  <2>3. ASSUME NEW p, WorkerPoll(p) \/ WorkerBegin(p) \/ CallerBegin(p) \/ ScannerStep(p)
        PROVE  UNCHANGED faults
    BY <2>3 DEF WorkerPoll, WorkerBegin, CallerBegin, ScannerStep, ScannerPoll,
       ScannerDone, ScannerStart, ScannerSubmit, NoFault
  <2>4. ASSUME NEW q, Handle(q)
        PROVE  UNCHANGED faults
    BY <2>4 DEF Handle, mark_job_running, complete_job_read, complete_job_write
  <2> QED  BY <1>3, <1>5, <2>1, <2>2, <2>3, <2>4 DEF Next, WorkerStep
<1> QED  BY <1>2, <1>3, <1>4, <1>5 DEF vars

\* The API's calls, runs of workers and callers, and time add no running row and
\* leave the scanner alone.
LEMMA OthersAlone ==
  ASSUME NEW s \in Scanners, OnlyItsRow(s), Calm, UNCHANGED requests,
         proc'[s] = proc[s], RunningRows' \subseteq RunningRows
  PROVE  OnlyItsRow(s)'
<1>1. ASSUME NEW r \in RunningRows
      PROVE  ScannedBy(s, r) => ScannedBy(s, r)'
  BY DEF ScannedBy
<1> QED  BY <1>1 DEF OnlyItsRow

\* What the API, workers, callers and time do to the scanner's row: nothing.
LEMMA OthersAloneStep ==
  ASSUME Shape, Story, NEW s \in Scanners, OnlyItsRow(s), Calm,
         \/ Api \/ Tick
         \/ \E p \in Workers \union Callers :
               WorkerPoll(p) \/ WorkerBegin(p) \/ CallerBegin(p) \/ RunDiscovery(p)
  PROVE  OnlyItsRow(s)'
<1>1. UNCHANGED requests
  BY DEF Api, create_job, update_job, delete_job, queue_job_for_worker, Tick,
     WorkerPoll, WorkerBegin, CallerBegin, RunDiscovery, RecordSuccess,
     RecordFailure, StoreResults, tables
<1>2. proc'[s] = proc[s]
  <2>1. ASSUME NEW p \in Workers \union Callers, NEW q, Become(p, q)
        PROVE  proc'[s] = proc[s]
    BY <2>1, ConstantsAssumption DEF Become, Shape, TypeOK, Procs
  <2>2. CASE Api \/ Tick
    BY <2>2 DEF Api, create_job, update_job, delete_job, queue_job_for_worker, Tick
  <2>3. ASSUME NEW p \in Workers \union Callers,
               WorkerPoll(p) \/ WorkerBegin(p) \/ CallerBegin(p) \/ RunDiscovery(p)
        PROVE  \E q : Become(p, q)
    BY <2>3 DEF WorkerPoll, WorkerBegin, CallerBegin, RunDiscovery, RecordSuccess,
       RecordFailure, StoreResults
  <2> QED  BY <2>1, <2>2, <2>3
<1>3. RunningRows' \subseteq RunningRows
  <2>1. ASSUME NEW j, NEW status \in {"completed", "failed"}, AddRow(j, status)
        PROVE  RunningRows' \subseteq RunningRows
    BY <2>1 DEF AddRow, RunningRows
  <2>2. ASSUME history' \subseteq history
        PROVE  RunningRows' \subseteq RunningRows
    BY <2>2 DEF RunningRows
  <2>3. CASE Api \/ Tick
    BY <2>2, <2>3 DEF Api, create_job, update_job, delete_job, queue_job_for_worker,
       Tick, tables
  <2>4. ASSUME NEW p, RunDiscovery(p)
        PROVE  RunningRows' \subseteq RunningRows
    BY <2>1, <2>2, <2>4 DEF RunDiscovery, RecordSuccess, RecordFailure, StoreResults,
       tables
  <2>5. ASSUME NEW p, WorkerPoll(p) \/ WorkerBegin(p) \/ CallerBegin(p)
        PROVE  RunningRows' \subseteq RunningRows
    BY <2>2, <2>5 DEF WorkerPoll, WorkerBegin, CallerBegin, tables
  <2> QED  BY <2>3, <2>4, <2>5
<1> QED  BY <1>1, <1>2, <1>3, OthersAlone

\* The scanner begins a call only when no row says running, and submits the result
\* of the scan whose row it is.
LEMMA ScannerAlone ==
  ASSUME Shape, NEW s \in Scanners, OnlyItsRow(s), Calm, ScannerStep(s)
  PROVE  OnlyItsRow(s)'
<1>1. s \in Procs /\ UNCHANGED history /\ proc[s] \in Process
  BY DEF ScannerStep, ScannerPoll, ScannerDone, ScannerStart, ScannerSubmit, tables,
     Procs, Shape, TypeOK
<1>2. RunningRows' = RunningRows
  BY <1>1 DEF RunningRows
<1>3. ASSUME proc[s].pc \in {"idle", "list"}, \A q \in requests' : q.from = s
      PROVE  OnlyItsRow(s)'
  <2>1. RunningRows = {}
    BY <1>3 DEF OnlyItsRow, ScannedBy
  <2> QED  BY <1>2, <1>3, <2>1 DEF OnlyItsRow
<1>4. ASSUME NEW kind, NEW j, NEW ok, Send(s, kind, j, ok)
      PROVE  /\ \A q \in requests' : q.from = s
             /\ \E q \in requests' : q.kind = kind /\ q.job = j /\ q.row = None
  <2> DEFINE new == [kind |-> kind, from |-> s, job |-> j, ok |-> ok, row |-> None,
                     interval |-> 0]
  <2>1. new.row = None /\ new.kind = kind /\ new.job = j /\ new.from = s
    OBVIOUS
  <2>2. requests' = requests \union {new}
    BY <1>4 DEF Send
  <2> HIDE DEF new
  <2> QED  BY <2>1, <2>2 DEF OnlyItsRow
<1>5. CASE ScannerPoll(s) \/ ScannerDone(s)
  BY <1>3, <1>5 DEF ScannerPoll, ScannerDone, At, OnlyItsRow
<1>6. CASE ScannerStart(s)
  BY <1>3, <1>4, <1>6 DEF ScannerStart, At
<1>7. CASE ScannerSubmit(s)
  <2>1. PICK ok \in BOOLEAN : Send(s, "complete", proc[s].job, ok)
    BY <1>7 DEF ScannerSubmit
  <2>2. PICK j : j = proc[s].job
    OBVIOUS
  <2>3. /\ \A q \in requests' : q.from = s
        /\ \E q \in requests' : q.kind = "complete" /\ q.job = j /\ q.row = None
    BY <1>4, <2>1, <2>2
  <2>4. proc'[s].pc = "submitting" /\ proc'[s].job = j
    <3>1. proc'[s] = [proc[s] EXCEPT !.pc = "submitting"]
      BY <1>1, <1>7 DEF ScannerSubmit, Become, Shape, TypeOK
    <3> QED  BY <1>1, <2>2, <3>1 DEF Process
  <2>5. ASSUME NEW r \in RunningRows
        PROVE  ScannedBy(s, r)' /\ \A k \in RunningRows : k = r
    <3>1. r.job = j /\ \A k \in RunningRows : k = r
      BY <2>2 DEF OnlyItsRow, ScannedBy
    <3> QED  BY <2>3, <2>4, <3>1 DEF ScannedBy
  <2> QED  BY <1>2, <2>3, <2>5 DEF OnlyItsRow
<1> QED  BY <1>5, <1>6, <1>7 DEF ScannerStep

\* The API begins the scan of a scanner that has no other, finds its row, and
\* finishes it.
LEMMA HandleAlone ==
  ASSUME Shape, Story, NEW s \in Scanners, OnlyItsRow(s), Calm,
         NEW q \in requests, Handle(q)
  PROVE  OnlyItsRow(s)'
<1>1. /\ q \in Request /\ q.from = s /\ s \in Procs /\ proc[s] \in Process
      /\ proc[s].pc # "scan" /\ proc[s].job = q.job
  BY DEF Shape, TypeOK, Links, OnlyItsRow, Procs
<1>2. \A k \in requests : k = q
  BY <1>1 DEF Shape, Links, OnlyItsRow
<1>3. \A r \in RunningRows : /\ q.kind = "complete" /\ q.job = r.job
                             /\ q.row \in {None, r.id} /\ proc[s].pc = "submitting"
                             /\ \A k \in RunningRows : k = r
  BY <1>1, <1>2 DEF OnlyItsRow, ScannedBy
<1>4. ASSUME RunningRows' = {}, \A k \in requests' : k.from = s
      PROVE  OnlyItsRow(s)'
  BY <1>4 DEF OnlyItsRow
<1>5. ASSUME NEW pc, Answer(q, pc)
      PROVE  requests' = {}
  BY <1>2, <1>5 DEF Answer
<1>6. \A r \in history : Exists(r.job)
  BY DEF Story, LastRunMatchesHistory
<1>7. CASE mark_job_running(q)
  <2>1. RunningRows = {}
    BY <1>3, <1>7 DEF mark_job_running
  <2>2. CASE ~Exists(q.job)
    BY <1>4, <1>5, <1>7, <2>1, <2>2 DEF mark_job_running, RunningRows
  <2>3. CASE Exists(q.job)
    <3>1. AddRow(q.job, "running") /\ Answer(q, "scan")
      BY <1>7, <2>3 DEF mark_job_running
    <3>2. PICK row : row.job = q.job /\ history' = history \union {row}
      BY <3>1 DEF AddRow
    <3>3. RunningRows' \subseteq {row}
      BY <2>1, <3>2 DEF RunningRows
    <3>4. proc'[s].pc = "scan" /\ proc'[s].job = q.job
      <4>1. proc'[s] = [proc[s] EXCEPT !.pc = "scan"]
        BY <1>1, <3>1 DEF Answer, Shape, TypeOK
      <4> QED  BY <1>1, <4>1 DEF Process
    <3>5. ScannedBy(s, row)'
      BY <3>2, <3>4 DEF ScannedBy
    <3> QED  BY <1>5, <3>1, <3>3, <3>5 DEF OnlyItsRow
  <2> QED  BY <2>2, <2>3
<1>8. CASE complete_job_read(q)
  <2>1. UNCHANGED history /\ RunningRows' = RunningRows
    BY <1>8 DEF complete_job_read, tables, RunningRows
  <2>2. CASE ~Exists(q.job)
    <3>1. RunningRows = {}
      BY <1>3, <1>6, <2>2 DEF RunningRows
    <3> QED  BY <1>4, <1>5, <1>8, <2>1, <2>2, <3>1 DEF complete_job_read
  <2>3. CASE Exists(q.job)
    <3>1. UNCHANGED proc /\ q.kind = "complete"
      BY <1>8, <2>3 DEF complete_job_read
    <3>2. PICK row :
             /\ Reading(q, row)
             /\ \/ RunningFor(q.job) = {}
                \/ \E r \in RunningFor(q.job) : r.id = row
      BY <1>8, <2>3 DEF complete_job_read
    <3>3. PICK new : /\ new.row = row /\ new.kind = "complete" /\ new.job = q.job
                     /\ new.from = s /\ requests' = {new}
      <4> DEFINE new == [q EXCEPT !.row = row, !.interval = jobs[q.job].interval]
      <4>1. /\ new.row = row /\ new.kind = "complete" /\ new.job = q.job /\ new.from = s
        BY <1>1, <3>1 DEF Request
      <4>2. requests' = (requests \ {q}) \union {new}
        BY <3>2 DEF Reading
      <4> HIDE DEF new
      <4>3. requests' = {new}
        BY <1>2, <4>2
      <4> QED  BY <4>1, <4>3
    <3>4. ASSUME NEW r \in RunningRows
          PROVE  ScannedBy(s, r)' /\ \A k \in RunningRows : k = r
      <4>1. r \in RunningFor(q.job) /\ \A k \in RunningFor(q.job) : k = r
        BY <1>3 DEF RunningRows, RunningFor
      <4>2. row = r.id
        BY <3>2, <4>1
      <4> QED  BY <1>1, <1>3, <3>1, <3>3, <4>2 DEF ScannedBy
    <3> QED  BY <2>1, <3>3, <3>4 DEF OnlyItsRow
  <2> QED  BY <2>2, <2>3
<1>9. CASE complete_job_write(q)
  <2> DEFINE done(r) == [r EXCEPT !.status = IF q.ok THEN "completed" ELSE "failed"]
  <2>1. \A r \in history : done(r).status # "running"
    BY DEF Shape, TypeOK, HistoryRow
  <2>2. history' = {IF r.id = q.row THEN done(r) ELSE r : r \in history}
    BY <1>9 DEF complete_job_write
  <2>3. \A r \in RunningRows : r.id = q.row
    BY <1>3, <1>9 DEF complete_job_write
  <2> HIDE DEF done
  <2>4. RunningRows' = {}
    BY <2>1, <2>2, <2>3 DEF RunningRows
  <2> QED  BY <1>4, <1>5, <1>9, <2>4 DEF complete_job_write
<1> QED  BY <1>7, <1>8, <1>9 DEF Handle

\* A step keeps the scanner with its row.
LEMMA AloneStep ==
  ASSUME NEW s, Scanners = {s}, IInv, OnlyItsRow(s), [Next]_vars
  PROVE  OnlyItsRow(s)'
<1>1. Shape /\ Story /\ TypeOK /\ s \in Scanners
  BY DEF IInv, Shape
<1>2. SUFFICES ASSUME Calm'
               PROVE  OnlyItsRow(s)'
  BY DEF OnlyItsRow
<1>3. Calm /\ ~(\E p : Crash(p)) /\ ~(\E k : ScannerGivesUp(k))
  BY <1>1, <1>2, CalmBefore
<1>4. CASE \/ Api \/ Tick
           \/ \E p \in Workers \union Callers :
                 WorkerPoll(p) \/ WorkerBegin(p) \/ CallerBegin(p) \/ RunDiscovery(p)
  BY <1>1, <1>3, <1>4, OthersAloneStep
<1>5. ASSUME NEW k \in Scanners, ScannerStep(k)
      PROVE  OnlyItsRow(s)'
  <2>1. k = s
    OBVIOUS
  <2> QED  BY <1>1, <1>3, <1>5, <2>1, ScannerAlone
<1>6. ASSUME NEW q \in requests, Handle(q)
      PROVE  OnlyItsRow(s)'
  BY <1>1, <1>3, <1>6, HandleAlone
<1>7. CASE UNCHANGED vars
  BY <1>1, <1>3, <1>7, OthersAlone DEF vars, RunningRows
<1> QED  BY <1>3, <1>4, <1>5, <1>6, <1>7 DEF Next, WorkerStep

\* One scanner leaves no row that says running of a scan nobody makes, as long as
\* no call is lost and no process dies.
THEOREM NoPhantomScansTheorem ==
  ASSUME NEW s, Scanners = {s}
  PROVE  Spec => []NoPhantomScans
<1>1. Init => OnlyItsRow(s)
  BY DEF Init, OnlyItsRow, RunningRows
<1>2. IInv /\ OnlyItsRow(s) /\ [Next]_vars => OnlyItsRow(s)'
  BY AloneStep
<1>3. IInv /\ OnlyItsRow(s) => NoPhantomScans
  <2> SUFFICES ASSUME IInv, OnlyItsRow(s), Calm, NEW j \in Jobs
               PROVE  Cardinality(RunningFor(j))
                         <= Cardinality(Scanning(j)) + Cardinality(Submitted(j))
    BY DEF NoPhantomScans, NothingLost, Calm
  <2>1. Shape
    BY DEF IInv
  <2>2. RunningFor(j) = {} \/ \E r \in RunningRows : RunningFor(j) = {r} /\ r.job = j
    BY DEF RunningFor, RunningRows, OnlyItsRow
  <2>3. Scanning(j) = {} \/ Scanning(j) = {s}
    BY DEF Scanning
  <2>4. Submitted(j) = {} \/ \E q \in requests : Submitted(j) = {q}
    BY <2>1 DEF Submitted, OnlyItsRow, Shape, Links
  <2>5. RunningFor(j) # {} => Scanning(j) # {} \/ Submitted(j) # {}
    BY <2>2 DEF OnlyItsRow, ScannedBy, Scanning, Submitted
  <2>6. /\ Cardinality(RunningFor(j)) = IF RunningFor(j) = {} THEN 0 ELSE 1
        /\ Cardinality(Scanning(j)) = IF Scanning(j) = {} THEN 0 ELSE 1
        /\ Cardinality(Submitted(j)) = IF Submitted(j) = {} THEN 0 ELSE 1
    BY <2>2, <2>3, <2>4, FS_EmptySet, FS_Singleton
  <2> QED  BY <2>5, <2>6
<1> QED  BY <1>1, <1>2, <1>3, Invariance, PTL DEF Spec
=============================================================================
