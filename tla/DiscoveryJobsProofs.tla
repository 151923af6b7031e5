------------------------- MODULE DiscoveryJobsProofs -------------------------
(***************************************************************************)
(* Theorems about DiscoveryJobs, for any number of jobs, workers, scanners *)
(* and API threads, and without its bounds.                                *)
(*                                                                         *)
(* last_run_at and the history are written by different processes, and the *)
(* result of a scan goes to a row read some time before.  What keeps the   *)
(* two in agreement is that rows are numbered, that nothing happened later *)
(* than now, and that a row a call holds is one of a scan that began.      *)
(***************************************************************************)
EXTENDS DiscoveryJobs, TLAPS

RowsNumbered ==
    \A r \in history :
        /\ r.id <= lastRow
        /\ \A p \in history : p.id = r.id => p = r

NothingLater ==
    /\ \A r \in history : r.started <= clock
    /\ \A j \in Jobs : (Exists(j) /\ jobs[j].last # None) => jobs[j].last <= clock

JobsUsed == \A j \in Jobs : Exists(j) => j \in used

\* The row r is one of a run that last_run_at knows of.
Began(r) == jobs[r.job].last # None /\ r.started <= jobs[r.job].last

HeldRowsBegan ==
    \A q \in requests : q.row # None =>
        /\ q.row <= lastRow
        /\ \A r \in history : r.id = q.row => Began(r)

Story == RowsNumbered /\ NothingLater /\ JobsUsed /\ LastRunMatchesHistory

\* Whoever is at work knows the job; a scanner waits for one call at a time, and
\* that call is about its job.
Working == {q \in Process : q.pc \notin {"idle", "list"} => q.job \in Jobs}

Links ==
    \A q \in requests : q.from \in Scanners =>
        /\ proc[q.from].pc \in {"starting", "submitting"}
        /\ proc[q.from].job = q.job
        /\ \A p \in requests : p.from = q.from => p = q

Shape == TypeOK /\ proc \in [Procs -> Working] /\ Links

IInv == Shape /\ Story /\ HeldRowsBegan

\* No call takes hold of a row.
NoNewHold ==
    \A q \in requests' : q.row # None => \E p \in requests : p.row = q.row

-----------------------------------------------------------------------------
(***************************************************************************)
(* Types                                                                   *)
(***************************************************************************)
\* An idle process has the type of a process.
LEMMA IdleType == Idle \in Working
  BY DEF Idle, Process, Working

\* Going back to the list keeps the type.
LEMMA RestType ==
  ASSUME TypeOK, NEW p \in Procs
  PROVE  Rest(p) \in Working
  BY DEF TypeOK, Rest, Idle, Process, Working

\* A process that becomes something of the type of a process.
LEMMA BecomeType ==
  ASSUME Shape, NEW p \in Procs, NEW q \in Working, Become(p, q)
  PROVE  proc' \in [Procs -> Process] /\ proc' \in [Procs -> Working]
  BY DEF Shape, TypeOK, Become, Working

\* A worker or a caller has no part in the calls of scanners.
LEMMA BecomeShape ==
  ASSUME Shape, NEW p \in Workers \union Callers, NEW q \in Working, Become(p, q),
         UNCHANGED requests
  PROVE  proc' \in [Procs -> Process] /\ proc' \in [Procs -> Working] /\ Links'
<1>1. p \in Procs /\ p \notin Scanners
  BY ConstantsAssumption DEF Procs
<1>2. \A s \in Scanners : proc'[s] = proc[s]
  BY <1>1 DEF Shape, TypeOK, Become, Procs
<1> QED  BY <1>1, <1>2, BecomeType DEF Shape, Links

\* The number of faults is a number.
LEMMA FaultCountType ==
  ASSUME TypeOK
  PROVE  FaultCount \in Nat
  BY DEF TypeOK, FaultCount, FaultKinds

\* Counting a fault keeps the type of the counters.
LEMMA FaultType ==
  ASSUME TypeOK, NEW kind, Fault(kind) \/ NoFault
  PROVE  faults' \in [FaultKinds -> Nat]
<1>1. CASE NoFault
  BY <1>1 DEF TypeOK, NoFault
<1>2. CASE Fault(kind)
  BY <1>2, ConstantsAssumption DEF TypeOK, Fault, FaultKinds
<1> QED  BY <1>1, <1>2

\* A row inserted for a job has the type of a row.
LEMMA AddRowType ==
  ASSUME TypeOK, NEW j \in Jobs, NEW status \in Statuses, AddRow(j, status)
  PROVE  history' \subseteq HistoryRow /\ lastRow' \in Nat
  BY DEF TypeOK, AddRow, HistoryRow

\* A job that exists has a row.
LEMMA ExistsType ==
  ASSUME TypeOK, NEW j \in Jobs, Exists(j)
  PROVE  jobs[j] \in JobRow
  BY DEF TypeOK, Exists

\* Answering a call keeps the types, and nothing waits for it any more.
LEMMA AnswerType ==
  ASSUME Shape, NEW q \in requests, NEW pc, Answer(q, pc)
  PROVE  /\ proc' \in [Procs -> Process] /\ proc' \in [Procs -> Working]
         /\ requests' \subseteq Request /\ Links'
<1>1. requests' \subseteq Request
  BY DEF Shape, TypeOK, Answer
<1>2. CASE q.from \in Scanners
  <2>1. q.from \in Procs /\ Rest(q.from) \in Working
    BY <1>2, RestType DEF Procs, Shape
  <2>2. [proc[q.from] EXCEPT !.pc = "scan"] \in Working
    <3>1. proc[q.from] \in Working /\ proc[q.from].pc \notin {"idle", "list"}
      BY <1>2, <2>1 DEF Shape, Links
    <3> QED  BY <3>1 DEF Working, Process
  <2>3. \E r \in Working : proc' = [proc EXCEPT ![q.from] = r]
    BY <1>2, <2>1, <2>2 DEF Answer
  <2>4. Links'
    BY <1>2, <2>1, <2>3 DEF Shape, TypeOK, Links, Answer
  <2> QED  BY <1>1, <2>1, <2>3, <2>4 DEF Shape, TypeOK, Working
<1>3. CASE q.from \notin Scanners
  BY <1>1, <1>3 DEF Shape, TypeOK, Answer, Links
<1> QED  BY <1>2, <1>3

\* The calls of the API keep the types.
LEMMA ApiType ==
  ASSUME Shape, Api
  PROVE  Shape'
<1>0. TypeOK /\ UNCHANGED <<proc, requests>> => (TypeOK' => Shape')
  BY DEF Shape, Links
<1>1. CASE create_job
  <2>1. PICK j \in Jobs, arg \in Intervals \union {None} :
           /\ used' = used \union {j}
           /\ jobs' = [jobs EXCEPT
                 ![j] = NewJob(IF arg \in {None, 0} THEN DefaultInterval ELSE arg)]
    BY <1>1 DEF create_job
  <2>2. NewJob(IF arg \in {None, 0} THEN DefaultInterval ELSE arg) \in JobRow
    BY ConstantsAssumption DEF NewJob, JobRow, Instant
  <2>3. TypeOK'
    BY <1>1, <2>1, <2>2 DEF create_job, ApiCall, Shape, TypeOK
  <2> QED  BY <1>0, <1>1, <2>3 DEF create_job, Shape
<1>2. CASE update_job
  <2>1. PICK j \in Jobs, u \in Updates :
           /\ Exists(j)
           /\ jobs' = [jobs EXCEPT
                  ![j] = [enabled |-> Given(u.enabled, @.enabled),
                          interval |-> Given(u.interval, @.interval),
                          last |-> @.last, next |-> @.next,
                          org |-> Given(u.org, @.org)]]
    BY <1>2 DEF update_job
  <2>2. jobs[j] \in JobRow
    BY <2>1, ExistsType DEF Shape
  <2>3. /\ Given(u.interval, jobs[j].interval) \in Nat
        /\ Given(u.enabled, jobs[j].enabled) \in BOOLEAN
        /\ Given(u.org, jobs[j].org) \in BOOLEAN
    BY <2>2, ConstantsAssumption DEF JobRow, Given
  <2>4. jobs' \in [Jobs -> JobRow \union {None}]
    BY <2>1, <2>2, <2>3 DEF Shape, TypeOK, JobRow
  <2>5. TypeOK'
    BY <1>2, <2>4 DEF update_job, ApiCall, Shape, TypeOK
  <2> QED  BY <1>0, <1>2, <2>5 DEF update_job, Shape
<1>3. CASE delete_job
  <2>1. TypeOK'
    BY <1>3 DEF delete_job, ApiCall, Shape, TypeOK
  <2> QED  BY <1>0, <1>3, <2>1 DEF delete_job, Shape
<1>4. CASE queue_job_for_worker
  <2>1. jobs' \in [Jobs -> JobRow \union {None}]
    BY <1>4, ExistsType DEF queue_job_for_worker, Shape, TypeOK, JobRow, Instant
  <2>2. TypeOK'
    BY <1>4, <2>1 DEF queue_job_for_worker, ApiCall, Shape, TypeOK
  <2> QED  BY <1>0, <1>4, <2>2 DEF queue_job_for_worker, Shape
<1> QED  BY <1>1, <1>2, <1>3, <1>4 DEF Api

\* The runs of workers and callers keep the types.
LEMMA WorkerType ==
  ASSUME Shape, NEW p \in Workers \union Callers,
         WorkerPoll(p) \/ WorkerBegin(p) \/ CallerBegin(p) \/ RunDiscovery(p)
  PROVE  Shape'
<1>1. TypeOK /\ p \in Procs /\ proc[p] \in Working
  BY DEF Shape, Procs
<1>2. UNCHANGED requests
  BY DEF WorkerPoll, WorkerBegin, CallerBegin, RunDiscovery, RecordSuccess,
         RecordFailure, StoreResults
<1>3. faults' \in [FaultKinds -> Nat]
  BY <1>1, FaultType DEF WorkerPoll, WorkerBegin, CallerBegin, RunDiscovery,
     RecordSuccess, RecordFailure, StoreResults
<1>4. ASSUME \E q \in Working : Become(p, q), UNCHANGED used,
             jobs' \in [Jobs -> JobRow \union {None}], history' \subseteq HistoryRow,
             lastRow' \in Nat, clock' = clock, calls' \in Nat
      PROVE  Shape'
  BY <1>2, <1>3, <1>4, BecomeShape DEF Shape, TypeOK
<1>5. CASE WorkerPoll(p)
  <2>1. [Idle EXCEPT !.pc = "list", !.todo = {j \in Jobs : Due(j)}] \in Working
    BY DEF Idle, Process, Working
  <2> QED  BY <1>4, <1>5, <2>1 DEF WorkerPoll, tables, Shape, TypeOK
<1>6. CASE WorkerBegin(p)
  <2>1. ASSUME NEW j \in proc[p].todo
        PROVE  /\ j \in Jobs
               /\ [proc[p] EXCEPT !.todo = proc[p].todo \ {j}] \in Working
               /\ Exists(j) => [pc |-> "discover", todo |-> proc[p].todo \ {j},
                                job |-> j, org |-> jobs[j].org] \in Working
    <3>1. j \in Jobs /\ proc[p].todo \ {j} \subseteq Jobs
      BY <1>1 DEF Working, Process
    <3>2. Exists(j) => jobs[j].org \in BOOLEAN
      BY <1>1, <3>1, ExistsType DEF JobRow
    <3> QED  BY <1>1, <3>1, <3>2 DEF Working, Process
  <2>2. \E q \in Working : Become(p, q)
    BY <1>6, <2>1, IdleType DEF WorkerBegin
  <2> QED  BY <1>4, <1>6, <2>2 DEF WorkerBegin, tables, Shape, TypeOK
<1>7. CASE CallerBegin(p)
  <2>1. PICK j \in Jobs :
           /\ Exists(j)
           /\ Become(p, [pc |-> "discover", todo |-> {}, job |-> j,
                         org |-> jobs[j].org])
    BY <1>7 DEF CallerBegin
  <2>2. [pc |-> "discover", todo |-> {}, job |-> j, org |-> jobs[j].org] \in Working
    BY <1>1, <2>1, ExistsType DEF JobRow, Process, Working
  <2> QED  BY <1>4, <1>7, <2>1, <2>2 DEF CallerBegin, ApiCall, tables, Shape, TypeOK
<1>8. CASE RecordSuccess(p)
  <2> DEFINE j == proc[p].job
  <2>1. j \in Jobs
    BY <1>8 DEF RecordSuccess, Jobs
  <2>2. \E q \in Working : Become(p, q)
    <3>1. [proc[p] EXCEPT !.pc = "store"] \in Working
      BY <1>1, <2>1 DEF Working, Process
    <3> QED  BY <1>1, <1>8, <3>1, RestType DEF RecordSuccess
  <2>3. CASE ~Exists(j)
    BY <1>4, <1>8, <2>2, <2>3 DEF RecordSuccess, Shape, TypeOK
  <2>4. CASE Exists(j)
    <3>1. jobs' \in [Jobs -> JobRow \union {None}]
      BY <1>1, <1>8, <2>1, <2>4, ExistsType DEF RecordSuccess, TypeOK, JobRow, Instant
    <3>2. history' \subseteq HistoryRow /\ lastRow' \in Nat
      BY <1>1, <1>8, <2>1, <2>4, AddRowType DEF RecordSuccess, Statuses
    <3> QED  BY <1>1, <1>4, <1>8, <2>2, <3>1, <3>2 DEF RecordSuccess, TypeOK
  <2> QED  BY <2>3, <2>4
<1>9. CASE RecordFailure(p)
  <2> DEFINE j == proc[p].job
  <2>1. j \in Jobs
    BY <1>1, <1>9 DEF RecordFailure, Working
  <2>2. \E q \in Working : Become(p, q)
    BY <1>1, <1>9, RestType DEF RecordFailure
  <2>3. history' \subseteq HistoryRow /\ lastRow' \in Nat
    BY <1>1, <1>9, <2>1, AddRowType DEF RecordFailure, Statuses, TypeOK
  <2> QED  BY <1>1, <1>4, <1>9, <2>2, <2>3 DEF RecordFailure, TypeOK
<1>10. CASE StoreResults(p)
  BY <1>1, <1>4, <1>10, RestType DEF StoreResults, tables, TypeOK
<1> QED  BY <1>5, <1>6, <1>7, <1>8, <1>9, <1>10 DEF RunDiscovery

\* A scanner that waits for no call and sends one.
LEMMA SendShape ==
  ASSUME Shape, NEW s \in Scanners, NEW kind \in {"start", "complete"}, NEW j \in Jobs,
         NEW ok \in BOOLEAN, NEW q \in Working, Send(s, kind, j, ok), Become(s, q),
         proc[s].pc \notin {"starting", "submitting"},
         q.pc \in {"starting", "submitting"}, q.job = j
  PROVE  /\ proc' \in [Procs -> Process] /\ proc' \in [Procs -> Working]
         /\ requests' \subseteq Request /\ Links'
<1> DEFINE new == [kind |-> kind, from |-> s, job |-> j, ok |-> ok, row |-> None,
                   interval |-> 0]
<1>1. s \in Procs
  BY DEF Procs
<1>2. new \in Request /\ requests' = requests \union {new}
  BY DEF Send, Request
<1>3. /\ proc' \in [Procs -> Process] /\ proc' \in [Procs -> Working]
      /\ proc'[s] = q /\ \A k \in Procs \ {s} : proc'[k] = proc[k]
  BY <1>1, BecomeType DEF Become, Shape, TypeOK
<1>4. \A p \in requests : p.from # s
  BY DEF Shape, Links
<1>5. Links'
  <2> SUFFICES ASSUME NEW p \in requests', p.from \in Scanners
               PROVE  /\ proc'[p.from].pc \in {"starting", "submitting"}
                      /\ proc'[p.from].job = p.job
                      /\ \A r \in requests' : r.from = p.from => r = p
    BY DEF Links
  <2>1. new.from = s /\ new.job = j
    OBVIOUS
  <2>2. CASE p \in requests
    <3>1. p.from # s /\ p.from \in Procs
      BY <1>4, <2>2 DEF Procs
    <3> QED  BY <1>2, <1>3, <2>1, <2>2, <3>1 DEF Shape, Links
  <2>3. CASE p = new
    <3>1. proc'[p.from].pc \in {"starting", "submitting"} /\ proc'[p.from].job = p.job
      BY <1>3, <2>1, <2>3
    <3>2. \A r \in requests' : r.from = p.from => r = p
      BY <1>2, <1>4, <2>1, <2>3
    <3> QED  BY <3>1, <3>2
  <2> QED  BY <1>2, <2>2, <2>3
<1> QED  BY <1>2, <1>3, <1>5 DEF Shape, TypeOK

\* A process that leaves its call behind waits for nothing any more.
LEMMA LeaveShape ==
  ASSUME Shape, NEW p \in Procs, NEW q \in Working, Become(p, q),
         requests' \in {Abandoned(p), {r \in requests : r.from # p}}
  PROVE  /\ proc' \in [Procs -> Process] /\ proc' \in [Procs -> Working]
         /\ requests' \subseteq Request /\ Links'
<1>1. /\ proc' \in [Procs -> Process] /\ proc' \in [Procs -> Working]
      /\ \A k \in Procs \ {p} : proc'[k] = proc[k]
  BY BecomeType DEF Become, Shape, TypeOK
<1>2. FaultCount \in Nat /\ FaultCount \notin Scanners
  BY FaultCountType, ConstantsAssumption DEF Shape
<1>3. requests' \subseteq Request
  <2>1. ASSUME NEW r \in requests
        PROVE  [r EXCEPT !.from = FaultCount] \in Request
    BY <1>2 DEF Shape, TypeOK, Request
  <2> QED  BY <2>1 DEF Abandoned, Shape, TypeOK
<1>4. \A r \in requests' : r.from \in Scanners => r \in requests /\ r.from # p
  <2>1. ASSUME NEW r \in requests
        PROVE  [r EXCEPT !.from = FaultCount].from = FaultCount
    BY DEF Shape, TypeOK, Request
  <2>2. CASE requests' = {r \in requests : r.from # p}
    BY <2>2
  <2>3. CASE requests' = Abandoned(p)
    <3> SUFFICES ASSUME NEW r \in requests, NEW k, k.from \in Scanners,
                        k = IF r.from = p THEN [r EXCEPT !.from = FaultCount] ELSE r
                 PROVE  k \in requests /\ k.from # p
      BY <2>3 DEF Abandoned
    <3> QED  BY <1>2, <2>1
  <2> QED  BY <2>2, <2>3
<1>5. Links'
  BY <1>1, <1>4 DEF Links, Shape, Procs
<1> QED  BY <1>1, <1>3, <1>5

\* The steps of a scanner keep the types.
LEMMA ScannerType ==
  ASSUME Shape, NEW s \in Scanners, ScannerStep(s) \/ ScannerGivesUp(s)
  PROVE  Shape'
<1>1. TypeOK /\ s \in Procs /\ proc[s] \in Working
  BY DEF Shape, Procs
<1>2. faults' \in [FaultKinds -> Nat]
  BY <1>1, FaultType DEF ScannerStep, ScannerPoll, ScannerDone, ScannerStart,
     ScannerSubmit, ScannerGivesUp
<1>3. UNCHANGED <<tables, clock, calls>>
  BY DEF ScannerStep, ScannerPoll, ScannerDone, ScannerStart, ScannerSubmit,
         ScannerGivesUp
<1>4. ASSUME proc' \in [Procs -> Process], proc' \in [Procs -> Working],
             requests' \subseteq Request, Links'
      PROVE  Shape'
  BY <1>2, <1>3, <1>4 DEF Shape, TypeOK, tables
<1>5. ASSUME NEW q \in Working, Become(s, q), UNCHANGED requests,
             proc[s].pc \in {"idle", "list"}
      PROVE  Shape'
  <2>1. \A p \in requests : p.from # s
    BY <1>5 DEF Shape, Links
  <2>2. \A k \in Procs \ {s} : proc'[k] = proc[k]
    BY <1>1, <1>5 DEF Become, TypeOK
  <2>3. Links'
    BY <1>5, <2>1, <2>2 DEF Shape, Links, Procs
  <2> QED  BY <1>1, <1>4, <1>5, <2>3, BecomeType DEF TypeOK
<1>6. CASE ScannerPoll(s)
  <2>1. [Idle EXCEPT !.pc = "list", !.todo = {j \in Jobs : Pending(j)}] \in Working
    BY DEF Idle, Process, Working
  <2> QED  BY <1>5, <1>6, <2>1 DEF ScannerPoll, At
<1>7. CASE ScannerDone(s)
  BY <1>5, <1>7, IdleType DEF ScannerDone, At
<1>8. CASE ScannerStart(s)
  <2>1. PICK j \in proc[s].todo :
           /\ Send(s, "start", j, FALSE)
           /\ Become(s, [pc |-> "starting", todo |-> proc[s].todo \ {j}, job |-> j,
                         org |-> FALSE])
    BY <1>8 DEF ScannerStart
  <2>2. /\ j \in Jobs
        /\ [pc |-> "starting", todo |-> proc[s].todo \ {j}, job |-> j, org |-> FALSE]
              \in Working
    BY <1>1 DEF Working, Process
  <2>3. proc[s].pc \notin {"starting", "submitting"}
    BY <1>8 DEF ScannerStart, At
  <2> QED  BY <1>4, <2>1, <2>2, <2>3, SendShape
<1>9. CASE ScannerSubmit(s)
  <2>1. PICK ok \in BOOLEAN : Send(s, "complete", proc[s].job, ok)
    BY <1>9 DEF ScannerSubmit
  <2>2. proc[s].pc = "scan" /\ proc[s].job \in Jobs
    BY <1>1, <1>9 DEF ScannerSubmit, At, Working
  <2>3. /\ [proc[s] EXCEPT !.pc = "submitting"] \in Working
        /\ [proc[s] EXCEPT !.pc = "submitting"].pc = "submitting"
        /\ [proc[s] EXCEPT !.pc = "submitting"].job = proc[s].job
    BY <1>1, <2>2 DEF Working, Process
  <2>4. Become(s, [proc[s] EXCEPT !.pc = "submitting"])
    BY <1>9 DEF ScannerSubmit
  <2> QED  BY <1>4, <2>1, <2>2, <2>3, <2>4, SendShape
<1>10. CASE ScannerGivesUp(s)
  <2>1. Rest(s) \in Working
    BY <1>1, RestType
  <2> QED  BY <1>1, <1>4, <1>10, <2>1, LeaveShape DEF ScannerGivesUp
<1> QED  BY <1>6, <1>7, <1>8, <1>9, <1>10 DEF ScannerStep

\* The API's handlers of the scanners' calls keep the types.
LEMMA HandleType ==
  ASSUME Shape, NEW q \in requests, Handle(q)
  PROVE  Shape'
<1>1. TypeOK /\ q \in Request /\ q.job \in Jobs
  BY DEF Shape, TypeOK, Request
<1>2. UNCHANGED <<used, clock, calls, faults>>
  BY DEF Handle, mark_job_running, complete_job_read, complete_job_write, tables
<1>3. ASSUME NEW pc, Answer(q, pc), jobs' \in [Jobs -> JobRow \union {None}],
             history' \subseteq HistoryRow, lastRow' \in Nat
      PROVE  Shape'
  BY <1>2, <1>3, AnswerType DEF Shape, TypeOK
<1>4. CASE mark_job_running(q)
  <2>1. CASE Exists(q.job)
    <3>1. jobs' \in [Jobs -> JobRow \union {None}]
      BY <1>1, <1>4, <2>1, ExistsType DEF mark_job_running, TypeOK, JobRow, Instant
    <3>2. history' \subseteq HistoryRow /\ lastRow' \in Nat
      BY <1>1, <1>4, <2>1, AddRowType DEF mark_job_running, Statuses
    <3> QED  BY <1>3, <1>4, <2>1, <3>1, <3>2 DEF mark_job_running
  <2>2. CASE ~Exists(q.job)
    BY <1>1, <1>3, <1>4, <2>2 DEF mark_job_running, TypeOK
  <2> QED  BY <2>1, <2>2
<1>5. CASE complete_job_read(q)
  <2>1. CASE ~Exists(q.job)
    BY <1>1, <1>3, <1>5, <2>1 DEF complete_job_read, tables, TypeOK
  <2>2. CASE Exists(q.job)
    <3>1. PICK row \in Nat : Reading(q, row)
      <4>1. \A r \in RunningFor(q.job) : r.id \in Nat
        BY <1>1 DEF RunningFor, TypeOK, HistoryRow
      <4> QED  BY <1>5, <2>2, <4>1 DEF complete_job_read
    <3> DEFINE new == [q EXCEPT !.row = row, !.interval = jobs[q.job].interval]
    <3>2. /\ new \in Request /\ new.from = q.from /\ new.job = q.job
          /\ requests' = (requests \ {q}) \union {new}
      <4>1. jobs[q.job].interval \in Nat
        BY <1>1, <2>2, ExistsType DEF JobRow
      <4>2. new \in Request /\ new.from = q.from /\ new.job = q.job
        BY <1>1, <4>1 DEF Request
      <4> QED  BY <3>1, <4>2 DEF Reading
    <3>3. UNCHANGED <<proc, jobs, history, lastRow>>
      BY <1>5, <2>2 DEF complete_job_read, tables
    <3>4. Links'
      <4> HIDE DEF new
      <4>1. \A p \in requests' : (p # new => p \in requests /\ p # q)
        BY <3>2
      <4> QED  BY <3>2, <3>3, <4>1 DEF Shape, Links
    <3> QED  BY <1>1, <1>2, <3>2, <3>3, <3>4 DEF Shape, TypeOK
  <2> QED  BY <2>1, <2>2
<1>6. CASE complete_job_write(q)
  <2>1. history' \subseteq HistoryRow
    BY <1>1, <1>6 DEF complete_job_write, TypeOK, HistoryRow, Statuses
  <2>2. jobs' \in [Jobs -> JobRow \union {None}]
    <3>1. q.interval \in Nat /\ clock \in Nat
      BY <1>1 DEF Request, TypeOK
    <3>2. CASE Exists(q.job)
      BY <1>1, <1>6, <3>1, <3>2, ExistsType DEF complete_job_write, TypeOK, JobRow, Instant
    <3>3. CASE ~Exists(q.job)
      BY <1>1, <1>6, <3>3 DEF complete_job_write, TypeOK
    <3> QED  BY <3>2, <3>3
  <2> QED  BY <1>1, <1>3, <1>6, <2>1, <2>2 DEF complete_job_write, TypeOK
<1> QED  BY <1>4, <1>5, <1>6 DEF Handle

\* A step keeps the shape of the state.
LEMMA ShapeStep ==
  ASSUME Shape, [Next]_vars
  PROVE  Shape'
<1>1. CASE Api
  BY <1>1, ApiType
<1>2. CASE Tick
  BY <1>2 DEF Tick, Shape, TypeOK, Links, tables
<1>3. ASSUME NEW w \in Workers, WorkerStep(w)
      PROVE  Shape'
  BY <1>3, WorkerType DEF WorkerStep
<1>4. ASSUME NEW c \in Callers, CallerBegin(c) \/ RunDiscovery(c)
      PROVE  Shape'
  BY <1>4, WorkerType
<1>5. ASSUME NEW s \in Scanners, ScannerStep(s) \/ ScannerGivesUp(s)
      PROVE  Shape'
  BY <1>5, ScannerType
<1>6. ASSUME NEW q \in requests, Handle(q)
      PROVE  Shape'
  BY <1>6, HandleType
<1>7. ASSUME NEW p \in Procs, Crash(p)
      PROVE  Shape'
  BY <1>7, IdleType, LeaveShape, FaultType DEF Crash, Shape, TypeOK, tables
<1>8. CASE UNCHANGED vars
  BY <1>8 DEF vars, Shape, TypeOK, Links
<1> QED  BY <1>1, <1>2, <1>3, <1>4, <1>5, <1>6, <1>7, <1>8 DEF Next

-----------------------------------------------------------------------------
(***************************************************************************)
(* last_run_at and the history                                             *)
(***************************************************************************)
\* A step that adds no row, keeps last_run_at of the jobs whose rows it keeps, and
\* leaves the others never run.
LEMMA StoryKept ==
  ASSUME Shape, Shape', Story, HeldRowsBegan, NoNewHold, clock <= clock', JobsUsed',
         lastRow' = lastRow, history' \subseteq history,
         \A r \in history' : Exists(r.job)' /\ jobs'[r.job].last = jobs[r.job].last,
         \A j \in Jobs : (Exists(j)' /\ jobs'[j].last # None) =>
             /\ Exists(j) /\ jobs'[j].last = jobs[j].last
             /\ RowsFor(j) \subseteq history'
  PROVE  Story' /\ HeldRowsBegan'
<1>1. /\ clock \in Nat /\ clock' \in Nat /\ history \subseteq HistoryRow
      /\ \A j \in Jobs : Exists(j) => jobs[j].last \in Nat \union {None}
  BY ExistsType DEF Shape, TypeOK, JobRow, Instant
<1>2. RowsNumbered'
  BY DEF Story, RowsNumbered
<1>3. NothingLater'
  <2>1. \A r \in history' : r.started <= clock'
    BY <1>1 DEF Story, NothingLater, HistoryRow
  <2>2. ASSUME NEW j \in Jobs, Exists(j)', jobs'[j].last # None
        PROVE  jobs'[j].last <= clock'
    BY <1>1, <2>2, ConstantsAssumption DEF Story, NothingLater
  <2> QED  BY <2>1, <2>2 DEF NothingLater
<1>4. LastRunMatchesHistory'
  <2>1. ASSUME NEW j \in Jobs, Exists(j)', jobs'[j].last # None
        PROVE  \E r \in RowsFor(j)' : r.started = jobs'[j].last
    BY <2>1 DEF Story, LastRunMatchesHistory, RowsFor
  <2>2. ASSUME NEW r \in history', r.status \in {"running", "completed"}
        PROVE  jobs'[r.job].last # None /\ r.started <= jobs'[r.job].last
    BY <2>2 DEF Story, LastRunMatchesHistory
  <2> QED  BY <2>1, <2>2 DEF LastRunMatchesHistory
<1>5. HeldRowsBegan'
  <2> SUFFICES ASSUME NEW q \in requests', q.row # None
               PROVE  /\ q.row <= lastRow'
                      /\ \A r \in history' : r.id = q.row => Began(r)'
    BY DEF HeldRowsBegan
  <2>1. PICK p \in requests : p.row = q.row
    BY DEF NoNewHold
  <2> QED  BY <2>1 DEF HeldRowsBegan, Began
<1> QED  BY <1>2, <1>3, <1>4, <1>5 DEF Story

\* A step that adds a row to the history of a job: one that failed, or one whose
\* time is the job's last_run_at.
LEMMA StoryRow ==
  ASSUME Shape, Shape', Story, HeldRowsBegan, NoNewHold, UNCHANGED <<used, clock>>,
         NEW j \in Jobs, Exists(j), NEW status \in Statuses, AddRow(j, status),
         \/ jobs' = jobs /\ status = "failed"
         \/ jobs' = [jobs EXCEPT ![j].last = clock]
  PROVE  Story' /\ HeldRowsBegan'
<1> DEFINE new == [id |-> lastRow + 1, job |-> j, status |-> status, started |-> clock]
<1>1. /\ clock \in Nat /\ lastRow \in Nat /\ history \subseteq HistoryRow
      /\ jobs \in [Jobs -> JobRow \union {None}]
      /\ \A k \in Jobs : Exists(k) => jobs[k].last \in Nat \union {None}
  BY ExistsType DEF Shape, TypeOK, JobRow, Instant
<1>2. /\ history' = history \union {new} /\ lastRow' = lastRow + 1
      /\ new.id = lastRow + 1 /\ new.job = j /\ new.started = clock
      /\ new.status = status
  BY DEF AddRow
<1> HIDE DEF new
<1>3. /\ \A k \in Jobs : Exists(k)' <=> Exists(k)
      /\ \A k \in Jobs \ {j} : Exists(k) => jobs'[k].last = jobs[k].last
      /\ \/ jobs'[j].last = jobs[j].last /\ status = "failed"
         \/ jobs'[j].last = clock
  <2>1. CASE jobs' = jobs /\ status = "failed"
    BY <2>1 DEF Exists
  <2>2. CASE jobs' = [jobs EXCEPT ![j].last = clock]
    <3>1. [jobs[j] EXCEPT !.last = clock] \in JobRow
      BY <1>1, ExistsType DEF Shape, JobRow, Instant
    <3>2. jobs'[j] = [jobs[j] EXCEPT !.last = clock]
          /\ \A k \in Jobs \ {j} : jobs'[k] = jobs[k]
      BY <1>1, <2>2
    <3>3. jobs'[j].last = clock
      <4>1. jobs[j] \in JobRow
        BY ExistsType DEF Shape
      <4> QED  BY <3>2, <4>1 DEF JobRow
    <3> QED  BY <3>1, <3>2, <3>3, ConstantsAssumption DEF Exists
  <2> QED  BY <2>1, <2>2
<1>4. RowsNumbered'
  <2>1. \A r \in history : r.id \in Nat /\ r.id <= lastRow
    BY <1>1 DEF Story, RowsNumbered, HistoryRow
  <2>2. ASSUME NEW r \in history'
        PROVE  r.id <= lastRow' /\ \A p \in history' : p.id = r.id => p = r
    BY <1>1, <1>2, <2>1 DEF Story, RowsNumbered
  <2> QED  BY <2>2 DEF RowsNumbered
<1>5. NothingLater'
  <2>1. \A r \in history' : r.started <= clock'
    BY <1>1, <1>2 DEF Story, NothingLater
  <2>2. ASSUME NEW k \in Jobs, Exists(k)', jobs'[k].last # None
        PROVE  jobs'[k].last <= clock'
    BY <1>1, <1>3, <2>2 DEF Story, NothingLater
  <2> QED  BY <2>1, <2>2 DEF NothingLater
<1>6. JobsUsed'
  BY <1>3 DEF Story, JobsUsed
<1>7. ASSUME NEW r \in history, Began(r)
      PROVE  Began(r)'
  <2>1. r.job \in Jobs /\ Exists(r.job) /\ r.started \in Nat /\ r.started <= clock
    BY <1>1 DEF Story, LastRunMatchesHistory, NothingLater, HistoryRow
  <2> QED  BY <1>1, <1>3, <1>7, <2>1, ConstantsAssumption DEF Began
<1>8. LastRunMatchesHistory'
  <2>1. ASSUME NEW k \in Jobs, Exists(k)', jobs'[k].last # None
        PROVE  \E r \in RowsFor(k)' : r.started = jobs'[k].last
    <3>1. CASE k = j /\ jobs'[j].last = clock
      BY <1>2, <3>1 DEF RowsFor
    <3>2. CASE jobs'[k].last = jobs[k].last
      <4>1. PICK r \in RowsFor(k) : r.started = jobs[k].last
        BY <1>3, <2>1, <3>2 DEF Story, LastRunMatchesHistory
      <4> QED  BY <1>2, <3>2, <4>1 DEF RowsFor
    <3> QED  BY <1>3, <2>1, <3>1, <3>2
  <2>2. ASSUME NEW r \in history'
        PROVE  Exists(r.job)' /\ (r.status \in {"running", "completed"} => Began(r)')
    <3>1. CASE r = new
      BY <1>1, <1>2, <1>3, <3>1, ConstantsAssumption DEF Began
    <3>2. CASE r \in history
      <4>1. r.job \in Jobs /\ Exists(r.job)
            /\ (r.status \in {"running", "completed"} => Began(r))
        BY <1>1, <3>2 DEF Story, LastRunMatchesHistory, HistoryRow, Began
      <4> QED  BY <1>3, <1>7, <3>2, <4>1
    <3> QED  BY <1>2, <3>1, <3>2
  <2> QED  BY <2>1, <2>2 DEF LastRunMatchesHistory, Began
<1>9. HeldRowsBegan'
  <2> SUFFICES ASSUME NEW q \in requests', q.row # None
               PROVE  /\ q.row <= lastRow'
                      /\ \A r \in history' : r.id = q.row => Began(r)'
    BY DEF HeldRowsBegan
  <2>1. PICK p \in requests : p.row = q.row
    BY DEF NoNewHold
  <2>2. q.row \in Nat /\ q.row <= lastRow
    BY <2>1 DEF HeldRowsBegan, Shape, TypeOK, Request
  <2>3. ASSUME NEW r \in history', r.id = q.row
        PROVE  Began(r)'
    BY <1>1, <1>2, <1>7, <2>1, <2>2, <2>3 DEF HeldRowsBegan
  <2> QED  BY <1>1, <1>2, <2>2, <2>3
<1> QED  BY <1>4, <1>5, <1>6, <1>8, <1>9 DEF Story

\* Nothing is written, and no call takes hold of a row.
LEMMA StoryUnchanged ==
  ASSUME Shape, Shape', Story, HeldRowsBegan, NoNewHold, UNCHANGED tables,
         clock <= clock'
  PROVE  Story' /\ HeldRowsBegan'
<1>1. JobsUsed' /\ \A j \in Jobs : Exists(j)' <=> Exists(j)
  BY DEF tables, Story, JobsUsed, Exists
<1>2. \A r \in history' : r.job \in Jobs
  BY DEF Shape, TypeOK, HistoryRow
<1>3. \A r \in history' : Exists(r.job)' /\ jobs'[r.job].last = jobs[r.job].last
  BY <1>1, <1>2 DEF tables, Story, LastRunMatchesHistory
<1>4. \A j \in Jobs : RowsFor(j) \subseteq history'
  BY DEF tables, RowsFor
<1> QED  BY <1>1, <1>3, <1>4, StoryKept DEF tables

\* The API's calls keep the two in agreement.
LEMMA ApiStory ==
  ASSUME Shape, Shape', Story, HeldRowsBegan, Api
  PROVE  Story' /\ HeldRowsBegan'
<1>1. NoNewHold /\ clock \in Nat /\ clock' = clock /\ lastRow' = lastRow
  BY DEF Shape, TypeOK, NoNewHold, Api, create_job, update_job, delete_job,
         queue_job_for_worker
<1>2. \A r \in history : r.job \in Jobs /\ Exists(r.job)
  BY DEF Shape, TypeOK, HistoryRow, Story, LastRunMatchesHistory
<1>3. jobs \in [Jobs -> JobRow \union {None}] /\ jobs' \in [Jobs -> JobRow \union {None}]
  BY DEF Shape, TypeOK
<1>4. ASSUME NEW j \in Jobs, history' = history, used' = used, Exists(j),
             jobs'[j] # None, jobs'[j].last = jobs[j].last,
             \A k \in Jobs \ {j} : jobs'[k] = jobs[k]
      PROVE  Story' /\ HeldRowsBegan'
  <2>1. \A k \in Jobs : (Exists(k)' <=> Exists(k)) /\ jobs'[k].last = jobs[k].last
    BY <1>4 DEF Exists
  <2>2. JobsUsed'
    BY <1>4, <2>1 DEF Story, JobsUsed
  <2>3. \A k \in Jobs : RowsFor(k) \subseteq history'
    BY <1>4 DEF RowsFor
  <2> QED  BY <1>1, <1>2, <1>4, <2>1, <2>2, <2>3, StoryKept
<1>5. CASE create_job
  <2>1. PICK j \in Jobs \ used, arg \in Intervals \union {None} :
           /\ used' = used \union {j}
           /\ jobs' = [jobs EXCEPT
                 ![j] = NewJob(IF arg \in {None, 0} THEN DefaultInterval ELSE arg)]
    BY <1>5 DEF create_job
  <2>2. jobs'[j].last = None /\ ~Exists(j)
    BY <1>3, <2>1 DEF NewJob, Story, JobsUsed
  <2>3. \A k \in Jobs \ {j} : jobs'[k] = jobs[k] /\ (Exists(k)' <=> Exists(k))
    BY <1>3, <2>1 DEF Exists
  <2>4. history' = history /\ \A k \in Jobs : RowsFor(k) \subseteq history'
    BY <1>5 DEF create_job, RowsFor
  <2>5. JobsUsed'
    BY <2>1, <2>3 DEF Story, JobsUsed
  <2>6. \A r \in history' : Exists(r.job)' /\ jobs'[r.job].last = jobs[r.job].last
    BY <1>2, <2>2, <2>3, <2>4
  <2> QED  BY <1>1, <2>2, <2>3, <2>4, <2>5, <2>6, StoryKept
<1>6. CASE update_job
  <2>1. PICK j \in Jobs, u \in Updates :
           /\ Exists(j)
           /\ jobs' = [jobs EXCEPT
                  ![j] = [enabled |-> Given(u.enabled, @.enabled),
                          interval |-> Given(u.interval, @.interval),
                          last |-> @.last, next |-> @.next,
                          org |-> Given(u.org, @.org)]]
    BY <1>6 DEF update_job
  <2>2. jobs'[j] \in JobRow /\ jobs'[j].last = jobs[j].last
    <3>1. /\ Given(u.interval, jobs[j].interval) \in Nat
          /\ Given(u.enabled, jobs[j].enabled) \in BOOLEAN
          /\ Given(u.org, jobs[j].org) \in BOOLEAN
          /\ jobs[j].last \in Instant /\ jobs[j].next \in Instant
      BY <2>1, ExistsType, ConstantsAssumption DEF Shape, JobRow, Given
    <3> QED  BY <1>3, <2>1, <3>1 DEF JobRow
  <2>3. \A k \in Jobs \ {j} : jobs'[k] = jobs[k]
    BY <1>3, <2>1
  <2> QED  BY <1>4, <1>6, <2>1, <2>2, <2>3, ConstantsAssumption DEF update_job
<1>7. CASE delete_job
  <2>1. PICK j \in Jobs : history' = history \ RowsFor(j) /\ jobs' = [jobs EXCEPT ![j] = None]
    BY <1>7 DEF delete_job
  <2>2. ~Exists(j)' /\ \A k \in Jobs \ {j} : jobs'[k] = jobs[k] /\ (Exists(k)' <=> Exists(k))
    BY <1>3, <2>1 DEF Exists
  <2>3. \A r \in history' : r \in history /\ r.job # j
    BY <2>1 DEF RowsFor
  <2>4. \A k \in Jobs \ {j} : RowsFor(k) \subseteq history'
    BY <2>1 DEF RowsFor
  <2>5. JobsUsed'
    BY <1>7, <2>2 DEF delete_job, Story, JobsUsed
  <2>6. \A r \in history' : Exists(r.job)' /\ jobs'[r.job].last = jobs[r.job].last
    BY <1>2, <2>2, <2>3
  <2>7. \A k \in Jobs : Exists(k)' => k # j
    BY <2>2
  <2> QED  BY <1>1, <2>2, <2>3, <2>4, <2>5, <2>6, <2>7, StoryKept
<1>8. CASE queue_job_for_worker
  <2>1. PICK j \in Jobs : Exists(j) /\ jobs' = [jobs EXCEPT ![j].next = clock]
    BY <1>8 DEF queue_job_for_worker
  <2>2. jobs'[j] \in JobRow /\ jobs'[j].last = jobs[j].last
    BY <1>1, <1>3, <2>1, ExistsType DEF Shape, JobRow, Instant
  <2>3. \A k \in Jobs \ {j} : jobs'[k] = jobs[k]
    BY <1>3, <2>1
  <2> QED  BY <1>4, <1>8, <2>1, <2>2, <2>3, ConstantsAssumption DEF queue_job_for_worker
<1> QED  BY <1>5, <1>6, <1>7, <1>8 DEF Api

\* A run of a worker or a caller keeps the two in agreement.
LEMMA RunStory ==
  ASSUME Shape, Shape', Story, HeldRowsBegan, NEW p \in Procs,
         RecordSuccess(p) \/ RecordFailure(p)
  PROVE  Story' /\ HeldRowsBegan'
<1> DEFINE j == proc[p].job
<1>1. j \in Jobs /\ NoNewHold /\ UNCHANGED <<used, clock>> /\ clock \in Nat
  BY DEF RecordSuccess, RecordFailure, At, Shape, TypeOK, Working, NoNewHold
<1>2. CASE Exists(j) /\ RecordSuccess(p)
  <2>1. AddRow(j, "completed") /\ jobs' = [jobs EXCEPT ![j].last = clock]
    BY <1>2 DEF RecordSuccess
  <2> QED  BY <1>1, <1>2, <2>1, StoryRow DEF Statuses
<1>3. CASE Exists(j) /\ RecordFailure(p)
  <2>1. AddRow(j, "failed") /\ jobs' = jobs
    BY <1>3 DEF RecordFailure
  <2> QED  BY <1>1, <1>3, <2>1, StoryRow DEF Statuses
<1>4. CASE ~Exists(j)
  <2>1. UNCHANGED tables
    BY <1>1, <1>4 DEF RecordSuccess, RecordFailure, tables
  <2> QED  BY <1>1, <2>1, StoryUnchanged
<1> QED  BY <1>2, <1>3, <1>4

\* The result of a scan goes to a row that a scan which began had made.
LEMMA WriteStory ==
  ASSUME Shape, Shape', Story, HeldRowsBegan, NEW q \in requests, complete_job_write(q)
  PROVE  Story' /\ HeldRowsBegan'
<1> DEFINE done(r) == [r EXCEPT !.status = IF q.ok THEN "completed" ELSE "failed"]
<1>1. /\ TypeOK /\ q \in Request /\ q.job \in Jobs /\ clock \in Nat /\ q.row # None
      /\ UNCHANGED <<used, lastRow, clock>>
  BY DEF Shape, TypeOK, Request, complete_job_write
<1>2. \A r \in history : /\ done(r).id = r.id /\ done(r).job = r.job
                         /\ done(r).started = r.started
  BY <1>1 DEF TypeOK, HistoryRow
<1>3. history' = {IF r.id = q.row THEN done(r) ELSE r : r \in history}
  BY DEF complete_job_write
<1>4. \A k \in Jobs : /\ Exists(k)' <=> Exists(k)
                      /\ Exists(k) => jobs'[k].last = jobs[k].last
  <2>1. CASE Exists(q.job) /\ q.interval > 0
    <3>1. jobs' = [jobs EXCEPT ![q.job].next = clock + q.interval]
      BY <2>1 DEF complete_job_write
    <3>2. \A k \in Jobs \ {q.job} : jobs'[k] = jobs[k]
      BY <1>1, <3>1 DEF TypeOK
    <3>3. jobs[q.job] \in JobRow /\ q.interval \in Nat
      BY <1>1, <2>1, ExistsType DEF Request
    <3>4. jobs'[q.job] \in JobRow /\ jobs'[q.job].last = jobs[q.job].last
      BY <1>1, <3>1, <3>3 DEF TypeOK, JobRow, Instant
    <3> QED  BY <2>1, <3>2, <3>4, ConstantsAssumption DEF Exists
  <2>2. CASE ~(Exists(q.job) /\ q.interval > 0)
    BY <2>2 DEF complete_job_write, Exists
  <2> QED  BY <2>1, <2>2
<1> HIDE DEF done
<1>5. \A k \in history' :
         \E r \in history : /\ k.id = r.id /\ k.job = r.job /\ k.started = r.started
                            /\ k = IF r.id = q.row THEN done(r) ELSE r
  BY <1>2, <1>3
<1>6. RowsNumbered'
  <2>1. ASSUME NEW k \in history'
        PROVE  k.id <= lastRow' /\ \A p \in history' : p.id = k.id => p = k
    BY <1>1, <1>5 DEF Story, RowsNumbered
  <2> QED  BY <2>1 DEF RowsNumbered
<1>7. NothingLater' /\ JobsUsed'
  BY <1>1, <1>4, <1>5 DEF Story, NothingLater, JobsUsed
<1>8. ASSUME NEW k \in history', NEW r \in history, k.job = r.job, k.started = r.started,
             Began(r)
      PROVE  Began(k)' /\ Exists(k.job)'
  <2>1. r.job \in Jobs /\ Exists(r.job)
    BY <1>1 DEF TypeOK, HistoryRow, Story, LastRunMatchesHistory
  <2> QED  BY <1>4, <1>8, <2>1 DEF Began
<1>9. LastRunMatchesHistory'
  <2>1. ASSUME NEW j \in Jobs, Exists(j)', jobs'[j].last # None
        PROVE  \E k \in RowsFor(j)' : k.started = jobs'[j].last
    <3>1. PICK r \in RowsFor(j) : r.started = jobs'[j].last
      BY <1>4, <2>1 DEF Story, LastRunMatchesHistory
    <3>2. \E k \in history' : k.job = r.job /\ k.started = r.started
      BY <1>2, <1>3 DEF RowsFor
    <3> QED  BY <3>1, <3>2 DEF RowsFor
  <2>2. ASSUME NEW k \in history'
        PROVE  Exists(k.job)' /\ (k.status \in {"running", "completed"} => Began(k)')
    <3>1. PICK r \in history : /\ k.id = r.id /\ k.job = r.job /\ k.started = r.started
                               /\ k = IF r.id = q.row THEN done(r) ELSE r
      BY <1>5
    <3>2. r.job \in Jobs /\ Exists(r.job)
      BY <1>1 DEF TypeOK, HistoryRow, Story, LastRunMatchesHistory
    <3>3. CASE r.id = q.row
      BY <1>1, <1>8, <3>1, <3>3 DEF HeldRowsBegan
    <3>4. CASE r.id # q.row
      BY <1>4, <1>8, <3>1, <3>2, <3>4 DEF Story, LastRunMatchesHistory, Began
    <3> QED  BY <3>3, <3>4
  <2> QED  BY <2>1, <2>2 DEF LastRunMatchesHistory, Began
<1>10. HeldRowsBegan'
  <2> SUFFICES ASSUME NEW p \in requests', p.row # None
               PROVE  /\ p.row <= lastRow'
                      /\ \A k \in history' : k.id = p.row => Began(k)'
    BY DEF HeldRowsBegan
  <2>1. p \in requests
    BY DEF complete_job_write, Answer
  <2> QED  BY <1>1, <1>5, <1>8, <2>1 DEF HeldRowsBegan
<1> QED  BY <1>6, <1>7, <1>9, <1>10 DEF Story

\* The API's handlers of the scanners' calls keep the two in agreement.
LEMMA HandleStory ==
  ASSUME Shape, Shape', Story, HeldRowsBegan, NEW q \in requests, Handle(q)
  PROVE  Story' /\ HeldRowsBegan'
<1>1. /\ TypeOK /\ q \in Request /\ q.job \in Jobs /\ clock \in Nat
      /\ UNCHANGED <<used, clock>>
  BY DEF Shape, TypeOK, Request, Handle, mark_job_running, complete_job_read,
         complete_job_write, tables
<1>2. ASSUME NEW pc, Answer(q, pc)
      PROVE  NoNewHold
  BY <1>2 DEF Answer, NoNewHold
<1>3. CASE mark_job_running(q)
  <2>1. CASE Exists(q.job)
    <3>1. /\ AddRow(q.job, "running") /\ Answer(q, "scan")
          /\ jobs' = [jobs EXCEPT ![q.job].last = clock]
      BY <1>3, <2>1 DEF mark_job_running
    <3> QED  BY <1>1, <1>2, <2>1, <3>1, StoryRow DEF Statuses
  <2>2. CASE ~Exists(q.job)
    <3>1. Answer(q, "list") /\ UNCHANGED tables
      BY <1>1, <1>3, <2>2 DEF mark_job_running, tables
    <3> QED  BY <1>1, <1>2, <3>1, StoryUnchanged
  <2> QED  BY <2>1, <2>2
<1>4. CASE complete_job_read(q)
  <2>1. UNCHANGED tables
    BY <1>4 DEF complete_job_read
  <2>2. CASE ~Exists(q.job)
    <3>1. Answer(q, "list")
      BY <1>4, <2>2 DEF complete_job_read
    <3> QED  BY <1>1, <1>2, <2>1, <3>1, StoryUnchanged
  <2>3. CASE Exists(q.job)
    <3>1. PICK row \in Nat :
             /\ Reading(q, row)
             /\ row = 0 \/ \E r \in RunningFor(q.job) : r.id = row
      <4>1. \A r \in RunningFor(q.job) : r.id \in Nat
        BY <1>1 DEF RunningFor, TypeOK, HistoryRow
      <4> QED  BY <1>4, <2>3, <4>1 DEF complete_job_read
    <3>2. \A k \in requests' : k \in requests \/ k.row = row
      BY <1>1, <3>1 DEF Reading, Request
    <3>3. row <= lastRow /\ \A r \in history : r.id = row => Began(r)
      <4>1. CASE row = 0
        BY <1>1, <4>1 DEF TypeOK, HistoryRow
      <4>2. CASE \E r \in RunningFor(q.job) : r.id = row
        <5>1. PICK r \in history : r.id = row /\ r.status = "running"
          BY <4>2 DEF RunningFor
        <5>2. Began(r) /\ r.id <= lastRow /\ \A k \in history : k.id = row => k = r
          BY <5>1 DEF Story, LastRunMatchesHistory, RowsNumbered, Began
        <5> QED  BY <5>1, <5>2
      <4> QED  BY <3>1, <4>1, <4>2
    <3>4. HeldRowsBegan'
      <4> SUFFICES ASSUME NEW k \in requests', k.row # None
                   PROVE  /\ k.row <= lastRow
                          /\ \A r \in history : r.id = k.row => Began(r)
        BY <2>1 DEF HeldRowsBegan, tables, Began
      <4> QED  BY <3>2, <3>3 DEF HeldRowsBegan
    <3>5. Story'
      <4>1. RowsNumbered'
        BY <2>1 DEF Story, RowsNumbered, tables
      <4>2. NothingLater' /\ JobsUsed'
        BY <1>1, <2>1 DEF Story, NothingLater, JobsUsed, Exists, tables
      <4>3. LastRunMatchesHistory'
        BY <2>1 DEF Story, LastRunMatchesHistory, Exists, RowsFor, tables
      <4> QED  BY <4>1, <4>2, <4>3 DEF Story
    <3> QED  BY <3>4, <3>5
  <2> QED  BY <2>2, <2>3
<1>5. CASE complete_job_write(q)
  BY <1>5, WriteStory
<1> QED  BY <1>3, <1>4, <1>5 DEF Handle

-----------------------------------------------------------------------------
(***************************************************************************)
(* The invariant and the theorems                                          *)
(***************************************************************************)
\* The first state has the invariant.
LEMMA InitInvariant == Init => IInv
<1> SUFFICES ASSUME Init
             PROVE  IInv
  OBVIOUS
<1>1. NewJob(DefaultInterval) \in JobRow /\ NewJob(DefaultInterval).last = None
  BY ConstantsAssumption DEF NewJob, JobRow, Instant
<1>2. Shape
  <2>1. TypeOK
    BY <1>1, IdleType, ConstantsAssumption DEF Init, TypeOK, Working
  <2> QED  BY <2>1, IdleType DEF Init, Shape, Links
<1>3. \A j \in Jobs : Exists(j) => j \in InitJobs /\ jobs[j].last = None
  BY <1>1 DEF Init, Exists
<1>4. Story
  BY <1>3 DEF Init, Story, RowsNumbered, NothingLater, JobsUsed, LastRunMatchesHistory
<1>5. HeldRowsBegan
  BY DEF Init, HeldRowsBegan
<1> QED  BY <1>2, <1>4, <1>5 DEF IInv

\* A call that is left behind, or lost, is about the job and the row it was about.
LEMMA LeftCalls ==
  ASSUME Shape, NEW p \in Procs,
         requests' \in {Abandoned(p), {r \in requests : r.from # p}}
  PROVE  \A q \in requests' : \E k \in requests : k.job = q.job /\ k.row = q.row
<1>1. ASSUME NEW k \in requests
      PROVE  /\ [k EXCEPT !.from = FaultCount].job = k.job
             /\ [k EXCEPT !.from = FaultCount].row = k.row
  BY DEF Shape, TypeOK, Request
<1>2. CASE requests' = Abandoned(p)
  BY <1>1, <1>2 DEF Abandoned
<1>3. CASE requests' = {r \in requests : r.from # p}
  BY <1>3
<1> QED  BY <1>2, <1>3

\* A call that a scanner sends has not looked at the history.
LEMMA SentCalls ==
  ASSUME NEW s, ScannerStep(s)
  PROVE  \A q \in requests' : q.row # None => q \in requests
<1>1. ASSUME NEW kind, NEW j, NEW ok, Send(s, kind, j, ok)
      PROVE  \A q \in requests' : q.row # None => q \in requests
  <2> DEFINE new == [kind |-> kind, from |-> s, job |-> j, ok |-> ok, row |-> None,
                     interval |-> 0]
  <2>1. new.row = None /\ requests' = requests \union {new}
    BY <1>1 DEF Send
  <2> QED  BY <2>1
<1>2. CASE ScannerPoll(s) \/ ScannerDone(s)
  BY <1>2 DEF ScannerPoll, ScannerDone
<1>3. CASE ScannerStart(s) \/ ScannerSubmit(s)
  BY <1>1, <1>3 DEF ScannerStart, ScannerSubmit
<1> QED  BY <1>2, <1>3 DEF ScannerStep

\* A step keeps the two in agreement.
LEMMA StoryStep ==
  ASSUME Shape, Shape', Story, HeldRowsBegan, [Next]_vars
  PROVE  Story' /\ HeldRowsBegan'
<1>1. ASSUME UNCHANGED tables, clock' = clock \/ clock' = clock + 1, NoNewHold
      PROVE  Story' /\ HeldRowsBegan'
  <2>1. clock <= clock'
    BY <1>1 DEF Shape, TypeOK
  <2> QED  BY <1>1, <2>1, StoryUnchanged
<1>2. CASE Api
  BY <1>2, ApiStory
<1>3. CASE Tick
  BY <1>1, <1>3 DEF Tick, NoNewHold
<1>4. ASSUME NEW p \in Workers \union Callers,
             WorkerPoll(p) \/ WorkerBegin(p) \/ CallerBegin(p) \/ RunDiscovery(p)
      PROVE  Story' /\ HeldRowsBegan'
  <2>1. CASE RecordSuccess(p) \/ RecordFailure(p)
    BY <2>1, RunStory DEF Procs
  <2>2. CASE WorkerPoll(p) \/ WorkerBegin(p) \/ CallerBegin(p) \/ StoreResults(p)
    BY <1>1, <2>2 DEF WorkerPoll, WorkerBegin, CallerBegin, StoreResults, NoNewHold
  <2> QED  BY <1>4, <2>1, <2>2 DEF RunDiscovery
<1>5. ASSUME NEW s \in Scanners, ScannerStep(s) \/ ScannerGivesUp(s)
      PROVE  Story' /\ HeldRowsBegan'
  <2>1. UNCHANGED <<tables, clock>>
    BY <1>5 DEF ScannerStep, ScannerPoll, ScannerDone, ScannerStart, ScannerSubmit,
       ScannerGivesUp
  <2>2. CASE ScannerGivesUp(s)
    <3>1. NoNewHold
      BY <2>2, LeftCalls DEF ScannerGivesUp, NoNewHold, Procs
    <3> QED  BY <1>1, <2>1, <3>1
  <2>3. CASE ScannerStep(s)
    <3>1. NoNewHold
      BY <2>3, SentCalls DEF NoNewHold
    <3> QED  BY <1>1, <2>1, <3>1
  <2> QED  BY <1>5, <2>2, <2>3
<1>6. ASSUME NEW q \in requests, Handle(q)
      PROVE  Story' /\ HeldRowsBegan'
  BY <1>6, HandleStory
<1>7. ASSUME NEW p \in Procs, Crash(p)
      PROVE  Story' /\ HeldRowsBegan'
  <2>1. NoNewHold /\ UNCHANGED <<tables, clock>>
    BY <1>7, LeftCalls DEF Crash, NoNewHold
  <2> QED  BY <1>1, <2>1
<1>8. CASE UNCHANGED vars
  BY <1>1, <1>8 DEF vars, tables, NoNewHold
<1> QED
  BY <1>2, <1>3, <1>4, <1>5, <1>6, <1>7, <1>8 DEF Next, WorkerStep

\* Every state has the invariant.
THEOREM Invariance == Spec => []IInv
<1>1. Init => IInv
  BY InitInvariant
<1>2. IInv /\ [Next]_vars => IInv'
  BY ShapeStep, StoryStep DEF IInv
<1> QED  BY <1>1, <1>2, PTL DEF Spec

\* Every row of discovery_jobs and discovery_history, every process and every call
\* has its type.
THEOREM TypeCorrect == Spec => []TypeOK
<1>1. IInv => TypeOK
  BY DEF IInv, Shape
<1> QED  BY <1>1, Invariance, PTL

\* last_run_at and the history of a job tell the same story, whoever runs it.
THEOREM LastRunTheorem == Spec => []LastRunMatchesHistory
<1>1. IInv => LastRunMatchesHistory
  BY DEF IInv, Story
<1> QED  BY <1>1, Invariance, PTL

-----------------------------------------------------------------------------
(***************************************************************************)
(* Who rewrites a finished row                                             *)
(***************************************************************************)
\* Only deletions and results take a row away or change it.
LEMMA RowsKept ==
  ASSUME Shape, [Next]_vars, ~delete_job, ~\E q \in requests : complete_job_write(q)
  PROVE  history \subseteq history'
<1>1. ASSUME NEW j, NEW status, AddRow(j, status)
      PROVE  history \subseteq history'
  BY <1>1 DEF AddRow
<1>2. CASE Api
  BY <1>2 DEF Api, create_job, update_job, queue_job_for_worker
<1>3. ASSUME NEW p, RunDiscovery(p)
      PROVE  history \subseteq history'
  BY <1>1, <1>3 DEF RunDiscovery, RecordSuccess, RecordFailure, StoreResults, tables
<1>4. ASSUME NEW p, WorkerPoll(p) \/ WorkerBegin(p) \/ CallerBegin(p) \/ Crash(p)
      PROVE  history \subseteq history'
  BY <1>4 DEF WorkerPoll, WorkerBegin, CallerBegin, Crash, tables
<1>5. ASSUME NEW s, ScannerStep(s) \/ ScannerGivesUp(s)
      PROVE  history \subseteq history'
  BY <1>5 DEF ScannerStep, ScannerPoll, ScannerDone, ScannerStart, ScannerSubmit,
     ScannerGivesUp, tables
<1>6. ASSUME NEW q \in requests, Handle(q)
      PROVE  history \subseteq history'
  BY <1>1, <1>6 DEF Handle, mark_job_running, complete_job_read, tables
<1>7. CASE Tick \/ UNCHANGED vars
  BY <1>7 DEF Tick, vars, tables
<1> QED
  BY <1>2, <1>3, <1>4, <1>5, <1>6, <1>7 DEF Next, WorkerStep

\* A call in flight after a step was in flight before it, perhaps with somebody
\* who waited for it, or it has not looked at the history, or it just did.
LEMMA CallsTraced ==
  ASSUME Shape, [Next]_vars, NEW q \in requests', q.row \notin {None, 0}
  PROVE  \/ \E p \in requests : p.job = q.job /\ p.row = q.row
         \/ \E r \in RunningFor(q.job) : r.id = q.row
<1>1. ASSUME NEW p, WorkerPoll(p) \/ WorkerBegin(p) \/ CallerBegin(p) \/ RunDiscovery(p)
      PROVE  UNCHANGED requests
  BY <1>1 DEF WorkerPoll, WorkerBegin, CallerBegin, RunDiscovery, RecordSuccess,
     RecordFailure, StoreResults
<1>2. CASE Api \/ Tick \/ UNCHANGED vars
  BY <1>2 DEF Api, create_job, update_job, delete_job, queue_job_for_worker, Tick, vars
<1>3. ASSUME NEW s \in Scanners, ScannerStep(s)
      PROVE  q \in requests
  BY <1>3, SentCalls
<1>4. ASSUME NEW p \in Procs, Crash(p) \/ (p \in Scanners /\ ScannerGivesUp(p))
      PROVE  \E k \in requests : k.job = q.job /\ k.row = q.row
  BY <1>4, LeftCalls DEF Crash, ScannerGivesUp
<1>5. ASSUME NEW k \in requests, Handle(k)
      PROVE  q \in requests \/ \E r \in RunningFor(q.job) : r.id = q.row
  <2>1. CASE mark_job_running(k) \/ complete_job_write(k)
    BY <2>1 DEF mark_job_running, complete_job_write, Answer
  <2>2. CASE complete_job_read(k)
    <3>1. k \in Request
      BY DEF Shape, TypeOK
    <3>2. ASSUME NEW row, Reading(k, row), q \notin requests
          PROVE  q.job = k.job /\ q.row = row
      BY <3>1, <3>2 DEF Reading, Request
    <3> QED  BY <2>2, <3>2 DEF complete_job_read, Answer
  <2> QED  BY <1>5, <2>1, <2>2 DEF Handle
<1> QED
  BY <1>1, <1>2, <1>3, <1>4, <1>5 DEF Next, WorkerStep, Procs

\* A finished row of the history is rewritten only by a call that read it before
\* it was finished.
THEOREM OnlyOverlapRewritesTheorem == Spec => OnlyOverlapRewrites
<1>1. ASSUME IInv, [Next]_vars
      PROVE  /\ \A r \in history : r.status # "running" =>
                   \/ r \in history' \/ ~Exists(r.job)'
                   \/ \E q \in requests : q.row = r.id
             /\ \A q \in requests' : (q.row \notin {None, 0} /\ q \notin requests) =>
                   \/ \E r \in RunningFor(q.job) : r.id = q.row
                   \/ \E p \in requests : p.job = q.job /\ p.row = q.row
  <2>1. Shape
    BY <1>1 DEF IInv
  <2>2. ASSUME NEW r \in history, ~Exists(r.job)' => FALSE
        PROVE  r \in history' \/ \E q \in requests : q.row = r.id
    <3>1. CASE delete_job
      BY <2>1, <2>2, <3>1 DEF delete_job, RowsFor, Exists, Shape, TypeOK
    <3>2. CASE \E q \in requests : complete_job_write(q)
      BY <3>2 DEF complete_job_write
    <3> QED  BY <1>1, <2>1, <3>1, <3>2, RowsKept
  <2> QED  BY <1>1, <2>1, <2>2, CallsTraced
<1> QED  BY <1>1, Invariance, PTL DEF Spec, OnlyOverlapRewrites

-----------------------------------------------------------------------------
(***************************************************************************)
(* Polls are worked off.  A scanner that waits for an answer has a call    *)
(* that somebody will answer, so it is never stuck; and each step of a     *)
(* process takes it further down the list of its poll, from which nothing  *)
(* is dropped unless the process dies.                                     *)
(***************************************************************************)
CallFor(s, kind) == \E q \in requests : q.from = s /\ q.kind = kind

\* A waiting scanner has the call it waits for in flight.
WaitersHaveCalls ==
    \A s \in Scanners :
        /\ proc[s].pc = "starting" => CallFor(s, "start")
        /\ proc[s].pc = "submitting" => CallFor(s, "complete")

\* How many steps a job has still in front of it at a place.
Left(place) ==
    IF place \in {"discover", "starting"} THEN 3
    ELSE IF place \in {"store", "scan"} THEN 2
    ELSE IF place = "submitting" THEN 1 ELSE 0

\* Process p is further on with the list of its poll, or with the job it is at.
FurtherOn(p) ==
    \/ proc'[p].pc = "idle"
    \/ /\ proc'[p].todo \subseteq proc[p].todo
       /\ proc'[p].todo = proc[p].todo => Left(proc'[p].pc) < Left(proc[p].pc)

\* What process p takes from its list it begins, unless the job has been deleted.
TakesWhatItBegins(p) ==
    \A j \in proc[p].todo \ proc'[p].todo :
        \/ proc'[p].pc \in {"discover", "starting"} /\ proc'[p].job = j
        \/ ~Exists(j)

\* A step of a process that is at a list takes it further on, and only a death
\* takes a job from a list that is not begun.
ListsWorkedOff ==
    \A p \in Procs : proc'[p] # proc[p] /\ proc[p].pc # "idle" =>
        /\ FurtherOn(p)
        /\ TakesWhatItBegins(p) \/ faults' # faults

\* The call of a scanner is the one it waits for.
LEMMA CallMatches ==
  ASSUME Shape, WaitersHaveCalls, NEW q \in requests, q.from \in Scanners
  PROVE  /\ proc[q.from].pc = "starting" => q.kind = "start"
         /\ proc[q.from].pc = "submitting" => q.kind = "complete"
         /\ proc[q.from].pc \in {"starting", "submitting"}
  BY DEF Shape, Links, WaitersHaveCalls, CallFor

\* Scanners that go on waiting keep their calls.
LEMMA WaitersKept ==
  ASSUME WaitersHaveCalls,
         \A s \in Scanners : proc'[s].pc \in {"starting", "submitting"} =>
            /\ proc'[s].pc = proc[s].pc
            /\ \A q \in requests : q.from = s =>
                  \E k \in requests' : k.from = s /\ k.kind = q.kind
  PROVE  WaitersHaveCalls'
<1>1. ASSUME NEW s \in Scanners, NEW kind, CallFor(s, kind),
             proc'[s].pc \in {"starting", "submitting"}
      PROVE  CallFor(s, kind)'
  <2>1. PICK q \in requests : q.from = s /\ q.kind = kind
    BY <1>1 DEF CallFor
  <2>2. \E k \in requests' : k.from = s /\ k.kind = kind
    BY <1>1, <2>1
  <2> QED
    BY <2>2 DEF CallFor
<1>2. \A s \in Scanners :
         /\ proc'[s].pc = "starting" => CallFor(s, "start")'
         /\ proc'[s].pc = "submitting" => CallFor(s, "complete")'
  BY <1>1 DEF WaitersHaveCalls
<1> QED
  BY <1>2 DEF WaitersHaveCalls

\* A process that becomes something else leaves the others alone.
LEMMA BecomeEffect ==
  ASSUME TypeOK, NEW p \in Procs, NEW r, Become(p, r)
  PROVE  proc'[p] = r /\ \A k \in Procs \ {p} : proc'[k] = proc[k]
  BY DEF Become, TypeOK

\* Back at its list, or idle, a process has finished a job.
LEMMA RestFurther ==
  ASSUME TypeOK, NEW p \in Procs, proc'[p] = Rest(p), Left(proc[p].pc) > 0
  PROVE  FurtherOn(p) /\ TakesWhatItBegins(p)
<1>1. proc'[p].todo = proc[p].todo /\ proc'[p].pc \in {"idle", "list"}
  BY DEF Rest, Idle
<1>2. Left("list") = 0
  BY DEF Left
<1> QED
  BY <1>1, <1>2 DEF FurtherOn, TakesWhatItBegins

\* Workers and API threads.
LEMMA WorkerFurther ==
  ASSUME Shape, WaitersHaveCalls, NEW p \in Workers \union Callers,
         WorkerPoll(p) \/ WorkerBegin(p) \/ CallerBegin(p) \/ RunDiscovery(p)
  PROVE  WaitersHaveCalls' /\ ListsWorkedOff
<1>1. p \in Procs /\ TypeOK /\ proc[p] \in Process /\ p \notin Scanners
  BY ConstantsAssumption DEF Procs, Shape, TypeOK
<1>2. UNCHANGED requests
  BY DEF WorkerPoll, WorkerBegin, CallerBegin, RunDiscovery, RecordSuccess,
         RecordFailure, StoreResults
<1>3. \E r : Become(p, r)
  BY DEF WorkerPoll, WorkerBegin, CallerBegin, RunDiscovery, RecordSuccess,
         RecordFailure, StoreResults
<1>4. \A k \in Procs \ {p} : proc'[k] = proc[k]
  BY <1>1, <1>3, BecomeEffect
<1>5. WaitersHaveCalls'
  <2>1. \A s \in Scanners : proc'[s] = proc[s]
    BY <1>1, <1>4 DEF Procs
  <2> QED
    BY <1>2, <2>1, WaitersKept
<1>6. proc[p].pc # "idle" => FurtherOn(p) /\ TakesWhatItBegins(p)
  <2>1. CASE WorkerPoll(p) \/ CallerBegin(p)
    BY <2>1 DEF WorkerPoll, CallerBegin, At
  <2>2. CASE WorkerBegin(p)
    <3>1. CASE proc[p].todo = {} /\ Become(p, Idle)
      <4>1. proc'[p] = Idle
        BY <1>1, <3>1, BecomeEffect
      <4> QED
        BY <3>1, <4>1 DEF FurtherOn, TakesWhatItBegins, Idle
    <3>2. ASSUME NEW j \in proc[p].todo,
                 Become(p, IF Exists(j)
                           THEN [pc |-> "discover", todo |-> proc[p].todo \ {j}, job |-> j,
                                 org |-> jobs[j].org]
                           ELSE [proc[p] EXCEPT !.todo = proc[p].todo \ {j}])
          PROVE  FurtherOn(p) /\ TakesWhatItBegins(p)
      <4>1. proc'[p] = IF Exists(j)
                       THEN [pc |-> "discover", todo |-> proc[p].todo \ {j}, job |-> j,
                             org |-> jobs[j].org]
                       ELSE [proc[p] EXCEPT !.todo = proc[p].todo \ {j}]
        BY <1>1, <3>2, BecomeEffect
      <4>2. /\ proc'[p].todo = proc[p].todo \ {j}
            /\ Exists(j) => proc'[p].pc = "discover" /\ proc'[p].job = j
        BY <1>1, <4>1 DEF Process
      <4> QED
        BY <4>2 DEF FurtherOn, TakesWhatItBegins
    <3> QED
      BY <2>2, <3>1, <3>2 DEF WorkerBegin
  <2>3. CASE RunDiscovery(p)
    <3>1. proc[p].pc \in {"discover", "store"} /\ Left(proc[p].pc) > 0
      BY <2>3 DEF RunDiscovery, RecordSuccess, RecordFailure, StoreResults, At, Left
    <3>2. CASE Become(p, Rest(p))
      <4>1. proc'[p] = Rest(p)
        BY <1>1, <3>2, BecomeEffect
      <4> QED
        BY <1>1, <3>1, <4>1, RestFurther
    <3>3. CASE proc[p].pc = "discover" /\ Become(p, [proc[p] EXCEPT !.pc = "store"])
      <4>1. proc'[p] = [proc[p] EXCEPT !.pc = "store"]
        BY <1>1, <3>3, BecomeEffect
      <4>2. proc'[p].todo = proc[p].todo /\ proc'[p].pc = "store"
        BY <1>1, <4>1 DEF Process
      <4>3. Left("store") < Left("discover")
        BY DEF Left
      <4> QED
        BY <3>3, <4>2, <4>3 DEF FurtherOn, TakesWhatItBegins
    <3> QED
      BY <2>3, <3>2, <3>3 DEF RunDiscovery, RecordSuccess, RecordFailure, StoreResults, At
  <2> QED
    BY <2>1, <2>2, <2>3
<1>7. ListsWorkedOff
  BY <1>4, <1>6 DEF ListsWorkedOff
<1> QED
  BY <1>5, <1>7

\* A process that leaves its call behind leaves the others their calls.
LEMMA LeaveWaiters ==
  ASSUME Shape, WaitersHaveCalls, NEW p \in Procs, NEW r, Become(p, r),
         r.pc \notin {"starting", "submitting"},
         requests' \in {Abandoned(p), {q \in requests : q.from # p}}
  PROVE  WaitersHaveCalls'
<1>1. proc'[p] = r /\ \A k \in Procs \ {p} : proc'[k] = proc[k]
  BY BecomeEffect DEF Shape
<1>2. ASSUME NEW q \in requests, q.from # p
      PROVE  q \in requests'
  <2>1. CASE requests' = Abandoned(p)
    BY <1>2, <2>1 DEF Abandoned
  <2>2. CASE requests' = {k \in requests : k.from # p}
    BY <1>2, <2>2
  <2> QED
    BY <2>1, <2>2
<1>3. ASSUME NEW s \in Scanners, proc'[s].pc \in {"starting", "submitting"}
      PROVE  /\ proc'[s].pc = proc[s].pc
             /\ \A q \in requests : q.from = s =>
                   \E k \in requests' : k.from = s /\ k.kind = q.kind
  <2>1. s # p /\ s \in Procs
    BY <1>1, <1>3 DEF Procs
  <2> QED
    BY <1>1, <1>2, <2>1
<1> QED
  BY <1>3, WaitersKept

\* A scanner that sends a call waits for it.
LEMMA SendWaiters ==
  ASSUME Shape, WaitersHaveCalls, NEW s \in Scanners, NEW kind, NEW j, NEW ok, NEW r,
         Send(s, kind, j, ok), Become(s, r),
         \/ r.pc = "starting" /\ kind = "start"
         \/ r.pc = "submitting" /\ kind = "complete"
  PROVE  WaitersHaveCalls'
<1> DEFINE new == [kind |-> kind, from |-> s, job |-> j, ok |-> ok, row |-> None,
                   interval |-> 0]
<1>1. s \in Procs /\ TypeOK
  BY DEF Procs, Shape
<1>2. proc'[s] = r /\ \A k \in Procs \ {s} : proc'[k] = proc[k]
  BY <1>1, BecomeEffect
<1>3. requests' = requests \union {new} /\ new.from = s /\ new.kind = kind
  BY DEF Send
<1> HIDE DEF new
<1>4. CallFor(s, kind)'
  BY <1>3 DEF CallFor
<1>5. ASSUME NEW k \in Scanners, k # s
      PROVE  /\ proc'[k].pc = "starting" => CallFor(k, "start")'
             /\ proc'[k].pc = "submitting" => CallFor(k, "complete")'
  <2>1. proc'[k] = proc[k]
    BY <1>2, <1>5 DEF Procs
  <2>2. \A m : CallFor(k, m) => CallFor(k, m)'
    BY <1>3 DEF CallFor
  <2> QED
    BY <2>1, <2>2 DEF WaitersHaveCalls
<1>6. /\ proc'[s].pc = "starting" => CallFor(s, "start")'
      /\ proc'[s].pc = "submitting" => CallFor(s, "complete")'
  BY <1>2, <1>4
<1> QED
  BY <1>5, <1>6 DEF WaitersHaveCalls

\* Scanners.
LEMMA ScannerFurther ==
  ASSUME Shape, WaitersHaveCalls, NEW s \in Scanners, ScannerStep(s) \/ ScannerGivesUp(s)
  PROVE  WaitersHaveCalls' /\ ListsWorkedOff
<1>1. s \in Procs /\ TypeOK /\ proc[s] \in Process
  BY DEF Procs, Shape, TypeOK
<1>2. \E r : Become(s, r)
  BY DEF ScannerStep, ScannerPoll, ScannerDone, ScannerStart, ScannerSubmit, ScannerGivesUp
<1>3. \A k \in Procs \ {s} : proc'[k] = proc[k]
  BY <1>1, <1>2, BecomeEffect
<1>4. ASSUME proc[s].pc # "idle" => FurtherOn(s) /\ TakesWhatItBegins(s)
      PROVE  ListsWorkedOff
  BY <1>3, <1>4 DEF ListsWorkedOff
<1>5. ASSUME UNCHANGED requests, proc'[s].pc \notin {"starting", "submitting"}
      PROVE  WaitersHaveCalls'
  <2>1. \A k \in Scanners : proc'[k] = proc[k] \/ proc'[k].pc \notin {"starting", "submitting"}
    BY <1>3, <1>5 DEF Procs
  <2> QED
    BY <1>5, <2>1, WaitersKept
<1>6. CASE ScannerPoll(s)
  <2>1. proc[s].pc = "idle" /\ requests' = requests
        /\ Become(s, [Idle EXCEPT !.pc = "list", !.todo = {j \in Jobs : Pending(j)}])
    BY <1>6 DEF ScannerPoll, At
  <2>2. proc'[s] = [Idle EXCEPT !.pc = "list", !.todo = {j \in Jobs : Pending(j)}]
    BY <1>1, <2>1, BecomeEffect
  <2>3. proc'[s].pc = "list"
    BY <2>2 DEF Idle
  <2> QED
    BY <1>4, <1>5, <2>1, <2>3
<1>7. CASE ScannerDone(s)
  <2>1. proc[s].todo = {} /\ requests' = requests /\ Become(s, Idle)
    BY <1>7 DEF ScannerDone
  <2>2. proc'[s].pc = "idle"
    BY <1>1, <2>1, BecomeEffect DEF Idle
  <2>3. FurtherOn(s) /\ TakesWhatItBegins(s)
    BY <2>1, <2>2 DEF FurtherOn, TakesWhatItBegins
  <2> QED
    BY <1>4, <1>5, <2>1, <2>2, <2>3
<1>8. CASE ScannerStart(s)
  <2>1. PICK j \in proc[s].todo :
           /\ Send(s, "start", j, FALSE)
           /\ Become(s, [pc |-> "starting", todo |-> proc[s].todo \ {j}, job |-> j,
                         org |-> FALSE])
    BY <1>8 DEF ScannerStart
  <2>2. PICK r : r = [pc |-> "starting", todo |-> proc[s].todo \ {j}, job |-> j,
                      org |-> FALSE]
    OBVIOUS
  <2>3. r.pc = "starting" /\ r.todo = proc[s].todo \ {j} /\ r.job = j
    BY <2>2
  <2>4. Become(s, r) /\ Send(s, "start", j, FALSE)
    BY <2>1, <2>2
  <2>5. WaitersHaveCalls'
    BY <2>3, <2>4, SendWaiters
  <2>6. proc'[s] = r
    BY <1>1, <2>4, BecomeEffect
  <2>7. FurtherOn(s) /\ TakesWhatItBegins(s)
    BY <2>3, <2>6 DEF FurtherOn, TakesWhatItBegins
  <2> QED
    BY <1>4, <2>5, <2>7
<1>9. CASE ScannerSubmit(s)
  <2>1. PICK ok \in BOOLEAN : Send(s, "complete", proc[s].job, ok)
    BY <1>9 DEF ScannerSubmit
  <2>2. PICK r : r = [proc[s] EXCEPT !.pc = "submitting"]
    OBVIOUS
  <2>3. r.pc = "submitting" /\ r.todo = proc[s].todo
    BY <1>1, <2>2 DEF Process
  <2>4. Become(s, r) /\ proc[s].pc = "scan"
    BY <1>9, <2>2 DEF ScannerSubmit, At
  <2>5. WaitersHaveCalls'
    BY <2>1, <2>3, <2>4, SendWaiters
  <2>6. proc'[s] = r
    BY <1>1, <2>4, BecomeEffect
  <2>7. Left("submitting") < Left("scan")
    BY DEF Left
  <2>8. FurtherOn(s) /\ TakesWhatItBegins(s)
    BY <2>3, <2>4, <2>6, <2>7 DEF FurtherOn, TakesWhatItBegins
  <2> QED
    BY <1>4, <2>5, <2>8
<1>10. CASE ScannerGivesUp(s)
  <2>1. /\ proc[s].pc \in {"starting", "submitting"} /\ Become(s, Rest(s))
        /\ requests' \in {Abandoned(s), {q \in requests : q.from # s}}
    BY <1>10 DEF ScannerGivesUp
  <2>2. proc'[s] = Rest(s) /\ Left(proc[s].pc) > 0
    BY <1>1, <2>1, BecomeEffect DEF Left
  <2>3. FurtherOn(s) /\ TakesWhatItBegins(s)
    BY <1>1, <2>2, RestFurther
  <2>4. Rest(s).pc \notin {"starting", "submitting"}
    BY DEF Rest, Idle
  <2>5. WaitersHaveCalls'
    BY <1>1, <2>1, <2>4, LeaveWaiters
  <2> QED
    BY <1>4, <2>3, <2>5
<1> QED
  BY <1>6, <1>7, <1>8, <1>9, <1>10 DEF ScannerStep

\* An answer takes the scanner that waits for it on, and nobody else's call away.
LEMMA AnswerFurther ==
  ASSUME Shape, WaitersHaveCalls, NEW q \in requests, NEW pc, Answer(q, pc),
         pc = "list" \/ (pc = "scan" /\ q.kind = "start")
  PROVE  WaitersHaveCalls' /\ ListsWorkedOff
<1>1. TypeOK /\ requests' = requests \ {q} /\ Scanners \subseteq Procs
  BY DEF Shape, Answer, Procs
<1>2. CASE q.from \notin Scanners
  <2>1. proc' = proc
    BY <1>2 DEF Answer
  <2>2. \A k \in requests : k.from \in Scanners => k \in requests'
    BY <1>1, <1>2
  <2>3. WaitersHaveCalls'
    BY <2>1, <2>2, WaitersKept
  <2> QED
    BY <2>1, <2>3 DEF ListsWorkedOff
<1>3. CASE q.from \in Scanners
  <2> PICK s \in Scanners : s = q.from
    BY <1>3
  <2>1. proc[s] \in Process /\ s \in Procs
    BY <1>1 DEF TypeOK
  <2>2. /\ \A k \in Procs \ {s} : proc'[k] = proc[k]
        /\ proc'[s] = IF pc = "scan" THEN [proc[s] EXCEPT !.pc = "scan"] ELSE Rest(s)
    BY <1>1, <1>3, <2>1 DEF Answer, TypeOK
  <2>3. proc[s].pc \in {"starting", "submitting"}
        /\ (proc[s].pc = "submitting" => q.kind = "complete")
    BY <1>3, CallMatches
  <2>4. FurtherOn(s) /\ TakesWhatItBegins(s) /\ proc'[s].pc \notin {"starting", "submitting"}
    <3>1. CASE pc = "scan"
      <4>1. proc'[s].pc = "scan" /\ proc'[s].todo = proc[s].todo
        BY <2>1, <2>2, <3>1 DEF Process
      <4>2. proc[s].pc = "starting" /\ Left("scan") < Left("starting")
        BY <2>3, <3>1 DEF Left
      <4> QED
        BY <4>1, <4>2 DEF FurtherOn, TakesWhatItBegins
    <3>2. CASE pc # "scan"
      <4>1. proc'[s] = Rest(s) /\ Left(proc[s].pc) > 0
        BY <2>2, <2>3, <3>2 DEF Left
      <4>2. proc'[s].pc \notin {"starting", "submitting"}
        BY <4>1 DEF Rest, Idle
      <4> QED
        BY <1>1, <2>1, <4>1, <4>2, RestFurther
    <3> QED
      BY <3>1, <3>2
  <2>5. ListsWorkedOff
    BY <2>2, <2>4 DEF ListsWorkedOff
  <2>6. ASSUME NEW k \in Scanners, proc'[k].pc \in {"starting", "submitting"}
        PROVE  /\ proc'[k].pc = proc[k].pc
               /\ \A r \in requests : r.from = k =>
                     \E m \in requests' : m.from = k /\ m.kind = r.kind
    <3>1. k # s /\ k \in Procs
      BY <1>1, <2>4, <2>6
    <3> QED
      BY <1>1, <2>2, <3>1
  <2> QED
    BY <2>5, <2>6, WaitersKept
<1> QED
  BY <1>2, <1>3

\* The API's handlers.
LEMMA HandleFurther ==
  ASSUME Shape, WaitersHaveCalls, NEW q \in requests, Handle(q)
  PROVE  WaitersHaveCalls' /\ ListsWorkedOff
<1>1. CASE mark_job_running(q) \/ complete_job_write(q)
  <2>1. Answer(q, "list") \/ (Answer(q, "scan") /\ q.kind = "start")
    BY <1>1 DEF mark_job_running, complete_job_write
  <2> QED
    BY <2>1, AnswerFurther
<1>2. CASE complete_job_read(q)
  <2>1. CASE Answer(q, "list")
    BY <2>1, AnswerFurther
  <2>2. ASSUME NEW row, Reading(q, row), UNCHANGED proc
        PROVE  WaitersHaveCalls' /\ ListsWorkedOff
    <3> DEFINE new == [q EXCEPT !.row = row, !.interval = jobs[q.job].interval]
    <3>1. q \in Request
      BY DEF Shape, TypeOK
    <3>2. new.from = q.from /\ new.kind = q.kind /\ requests' = (requests \ {q}) \union {new}
      BY <2>2, <3>1 DEF Reading, Request
    <3> HIDE DEF new
    <3>3. \A k \in requests : \E m \in requests' : m.from = k.from /\ m.kind = k.kind
      BY <3>2
    <3>4. WaitersHaveCalls'
      BY <2>2, <3>3, WaitersKept
    <3> QED
      BY <2>2, <3>4 DEF ListsWorkedOff
  <2> QED
    BY <1>2, <2>1, <2>2 DEF complete_job_read
<1> QED
  BY <1>1, <1>2 DEF Handle

\* Each step.
LEMMA NextFurther ==
  ASSUME Shape, WaitersHaveCalls, [Next]_vars
  PROVE  WaitersHaveCalls' /\ ListsWorkedOff
<1>1. CASE Api \/ Tick \/ UNCHANGED vars
  <2>1. UNCHANGED <<proc, requests>>
    BY <1>1 DEF Api, create_job, update_job, delete_job, queue_job_for_worker, Tick, vars
  <2> QED
    BY <2>1 DEF WaitersHaveCalls, CallFor, ListsWorkedOff
<1>2. ASSUME NEW w \in Workers, WorkerStep(w)
      PROVE  WaitersHaveCalls' /\ ListsWorkedOff
  BY <1>2, WorkerFurther DEF WorkerStep
<1>3. ASSUME NEW c \in Callers, CallerBegin(c) \/ RunDiscovery(c)
      PROVE  WaitersHaveCalls' /\ ListsWorkedOff
  BY <1>3, WorkerFurther
<1>4. ASSUME NEW s \in Scanners, ScannerStep(s) \/ ScannerGivesUp(s)
      PROVE  WaitersHaveCalls' /\ ListsWorkedOff
  BY <1>4, ScannerFurther
<1>5. ASSUME NEW q \in requests, Handle(q)
      PROVE  WaitersHaveCalls' /\ ListsWorkedOff
  BY <1>5, HandleFurther
<1>6. ASSUME NEW p \in Procs, Crash(p)
      PROVE  WaitersHaveCalls' /\ ListsWorkedOff
  <2>1. Become(p, Idle) /\ Idle.pc = "idle" /\ requests' = Abandoned(p) /\ Fault("crash")
    BY <1>6 DEF Crash, Idle
  <2>2. WaitersHaveCalls'
    BY <2>1, LeaveWaiters
  <2>3. faults' # faults
    <3>1. "crash" \in FaultKinds /\ faults["crash"] \in Nat
      BY DEF FaultKinds, Shape, TypeOK
    <3>2. faults'["crash"] = faults["crash"] + 1
      BY <2>1, <3>1 DEF Fault, Shape, TypeOK
    <3> QED
      BY <3>1, <3>2
  <2>4. proc'[p].pc = "idle" /\ \A k \in Procs \ {p} : proc'[k] = proc[k]
    BY <2>1, BecomeEffect DEF Shape
  <2>5. ListsWorkedOff
    BY <2>3, <2>4 DEF ListsWorkedOff, FurtherOn
  <2> QED
    BY <2>2, <2>5
<1> QED
  BY <1>1, <1>2, <1>3, <1>4, <1>5, <1>6 DEF Next

\* A scanner that waits has the call it waits for on its way to the API, whatever was
\* lost, given up or answered before: it never waits for something that nobody is
\* going to answer.
THEOREM WaitersHaveCallsTheorem == Spec => []WaitersHaveCalls
<1>1. Init => WaitersHaveCalls
  BY DEF Init, Idle, WaitersHaveCalls, Procs
<1>2. IInv /\ WaitersHaveCalls /\ [Next]_vars => WaitersHaveCalls'
  BY NextFurther DEF IInv
<1> QED
  BY <1>1, <1>2, Invariance, PTL DEF Spec

\* The list of a poll is worked off: each step of a process that has polled takes it
\* to the end of the poll, or to a shorter list, or further on with the job it is
\* at; and a job leaves the list by being begun, unless it has been deleted or the
\* process dies.
THEOREM ListsWorkedOffTheorem == Spec => [][ListsWorkedOff]_vars
<1>1. IInv /\ WaitersHaveCalls /\ [Next]_vars => [ListsWorkedOff]_vars
  BY NextFurther DEF IInv
<1> QED
  BY <1>1, Invariance, WaitersHaveCallsTheorem, PTL DEF Spec
=============================================================================
