---------------------------- MODULE DiscoveryJobs ----------------------------
(***************************************************************************)
(* Discovery jobs: the table discovery_jobs, edited through the API, and   *)
(* the three kinds of process that run a job and write discovery_history.  *)
(*                                                                         *)
(*   Workers   poll the database every five minutes and run cloud jobs     *)
(*             (apps/worker/discovery);                                    *)
(*   Scanners  poll the API over HTTP, announce that a local job starts,   *)
(*             scan, and submit the result (apps/scanner);                 *)
(*   Callers   are API threads that run a job themselves, the legacy mode  *)
(*             of POST /jobs/<id>/run.                                     *)
(*                                                                         *)
(* Nothing claims a job: a poll remembers ids, and what happens to a row   *)
(* between the poll and the run is not looked at again.  What a discovery  *)
(* finds, and the inventory rows it stores, are left out; whether it fails *)
(* is kept.                                                                *)
(***************************************************************************)
EXTENDS Naturals, FiniteSets

CONSTANTS
    CloudJobs,      \* ids of jobs with provider aws, gcp, azure or kubernetes
    LocalJobs,      \* ids of jobs with provider network, banner or http_screenshot
    None,           \* NULL
    Workers, Scanners, Callers,
    InitJobs,       \* jobs created before the behaviour starts
    Ops,            \* the API calls a run exercises, a subset of AllOps
    Intervals,      \* values of schedule_interval that callers send
    DefaultInterval,\* stored by create_job when the caller sends none, or 0
    Updates,        \* the arguments of update_job, None for "not sent"
    Faults,         \* what may go wrong: a subset of FaultKinds
    MaxCalls,       \* bound: API calls in a behaviour
    MaxFaults,      \* bound: faults in a behaviour
    MaxClock        \* bound: time units that pass in a behaviour

AllOps == {"create", "update", "delete", "queue", "run"}
FaultKinds == {"fail", "lost", "crash"}
Jobs == CloudJobs \union LocalJobs
Procs == Workers \union Scanners \union Callers

Instant == Nat \union {None}
JobRow ==
    [enabled: BOOLEAN, interval: Nat, last: Instant, next: Instant, org: BOOLEAN]

ASSUME ConstantsAssumption ==
    /\ CloudJobs \intersect LocalJobs = {}
    /\ Workers \intersect Scanners = {}
    /\ Callers \intersect (Workers \union Scanners) = {}
    /\ None \notin Jobs /\ None \notin Nat /\ None \notin JobRow
    /\ Scanners \intersect Nat = {}
    /\ Ops \subseteq AllOps /\ InitJobs \subseteq Jobs
    /\ Faults \subseteq FaultKinds
    /\ Updates \subseteq [interval: Nat \union {None}, enabled: BOOLEAN \union {None},
                           org: BOOLEAN \union {None}]
    /\ Intervals \subseteq Nat /\ DefaultInterval \in Nat \ {0}
    /\ MaxCalls \in Nat /\ MaxFaults \in Nat /\ MaxClock \in Nat

Statuses == {"running", "completed", "failed"}
HistoryRow == [id: Nat \ {0}, job: Jobs, status: Statuses, started: Nat]

\* todo: the ids of the poll that are still to be run; org: the job names an
\* organization, so the run stores what it finds.
Process ==
    [pc: {"idle", "list", "discover", "store", "starting", "scan", "submitting"},
     todo: SUBSET Jobs, job: Jobs \union {None}, org: BOOLEAN]

\* from: the scanner that waits for the answer, or a number once it has given up;
\* row: what complete_job has read (None: it has not read yet).
Request ==
    [kind: {"start", "complete"}, from: Scanners \union Nat, job: Jobs, ok: BOOLEAN,
     row: Nat \union {None}, interval: Nat]

VARIABLES
    jobs,       \* discovery_jobs: the row of each id, None if there is none
    used,       \* ids handed out so far; an id is never handed out twice
    history,    \* discovery_history
    lastRow,    \* its serial
    proc,       \* the processes
    requests,   \* calls of scanners that the API has not finished
    clock,
    calls, faults

vars == <<jobs, used, history, lastRow, proc, requests, clock, calls, faults>>
tables == <<jobs, used, history, lastRow>>

Idle == [pc |-> "idle", todo |-> {}, job |-> None, org |-> FALSE]

NewJob(interval) == [enabled |-> TRUE, interval |-> interval, last |-> None,
                     next |-> None, org |-> TRUE]

Init ==
    /\ jobs = [j \in Jobs |-> IF j \in InitJobs THEN NewJob(DefaultInterval) ELSE None]
    /\ used = InitJobs
    /\ history = {}
    /\ lastRow = 0
    /\ proc = [p \in Procs |-> Idle]
    /\ requests = {}
    /\ clock = 0
    /\ calls = 0
    /\ faults = [f \in FaultKinds |-> 0]

-----------------------------------------------------------------------------
(***************************************************************************)
(* Queries                                                                 *)
(***************************************************************************)
Exists(j) == jobs[j] # None

\* The worker's question: never run, or long enough ago.  It does not read
\* next_run_at, and an interval of 0 is due only once.
Due(j) ==
    /\ Exists(j) /\ j \in CloudJobs /\ jobs[j].enabled
    /\ \/ jobs[j].last = None
       \/ jobs[j].interval > 0 /\ jobs[j].last + jobs[j].interval <= clock

\* The scanner's question, asked through the API: it reads next_run_at.
Pending(j) ==
    /\ Exists(j) /\ j \in LocalJobs /\ jobs[j].enabled
    /\ \/ jobs[j].interval = 0 /\ jobs[j].last = None
       \/ /\ jobs[j].interval > 0
          /\ jobs[j].next = None \/ jobs[j].next <= clock

RowsFor(j) == {r \in history : r.job = j}
RunningFor(j) == {r \in history : r.job = j /\ r.status = "running"}

\* A row can only refer to a job that is there: the foreign key.
AddRow(j, status) ==
    /\ lastRow' = lastRow + 1
    /\ history' = history \union
         {[id |-> lastRow + 1, job |-> j, status |-> status, started |-> clock]}

-----------------------------------------------------------------------------
(***************************************************************************)
(* Bookkeeping                                                             *)
(***************************************************************************)
At(p, place) == proc[p].pc = place
NoFault == UNCHANGED faults
FaultCount == faults["fail"] + faults["lost"] + faults["crash"]
NothingLost == faults["lost"] + faults["crash"] = 0
Fault(kind) ==
    /\ kind \in Faults
    /\ FaultCount < MaxFaults
    /\ faults' = [faults EXCEPT ![kind] = @ + 1]

ApiCall(op) == op \in Ops /\ calls < MaxCalls /\ calls' = calls + 1

\* Back to the list a poll made; a caller, which has none, is done.
Rest(p) == [Idle EXCEPT !.pc = IF p \in Callers THEN "idle" ELSE "list",
                        !.todo = proc[p].todo]
Become(p, q) == proc' = [proc EXCEPT ![p] = q]

-----------------------------------------------------------------------------
(***************************************************************************)
(* The API: one transaction each.                                          *)
(***************************************************************************)
create_job ==
    \E j \in Jobs \ used, arg \in Intervals \union {None} :
        /\ ApiCall("create")
        /\ used' = used \union {j}
        /\ jobs' = [jobs EXCEPT
              ![j] = NewJob(IF arg \in {None, 0} THEN DefaultInterval ELSE arg)]
        /\ UNCHANGED <<history, lastRow, proc, requests, clock, faults>>

Given(new, old) == IF new # None THEN new ELSE old

\* The form sends some columns; a config sent without the organization that
\* create_job put there drops it.
update_job ==
    \E j \in Jobs, u \in Updates :
        /\ ApiCall("update")
        /\ Exists(j)
        /\ jobs' = [jobs EXCEPT
               ![j] = [enabled |-> Given(u.enabled, @.enabled),
                       interval |-> Given(u.interval, @.interval),
                       last |-> @.last, next |-> @.next,
                       org |-> Given(u.org, @.org)]]
        /\ UNCHANGED <<used, history, lastRow, proc, requests, clock, faults>>

\* Slip: the history of the job survives it.
delete_job_slip ==
    \E j \in Jobs :
        /\ ApiCall("delete")
        /\ Exists(j)
        /\ jobs' = [jobs EXCEPT ![j] = None]
        /\ UNCHANGED <<used, history, lastRow, proc, requests, clock, faults>>

delete_job ==
    \E j \in Jobs :
        /\ ApiCall("delete")
        /\ Exists(j)
        /\ history' = history \ RowsFor(j)
        /\ jobs' = [jobs EXCEPT ![j] = None]
        /\ UNCHANGED <<used, lastRow, proc, requests, clock, faults>>

queue_job_for_worker ==
    \E j \in Jobs :
        /\ ApiCall("queue")
        /\ Exists(j)
        /\ jobs' = [jobs EXCEPT ![j].next = clock]
        /\ UNCHANGED <<used, history, lastRow, proc, requests, clock, faults>>

-----------------------------------------------------------------------------
(***************************************************************************)
(* run_discovery: read the row, discover, record, store.  A worker runs it *)
(* for every id of a poll; execute_job swallows what it raises.            *)
(***************************************************************************)
WorkerPoll(w) ==
    /\ At(w, "idle")
    /\ Become(w, [Idle EXCEPT !.pc = "list", !.todo = {j \in Jobs : Due(j)}])
    /\ NoFault
    /\ UNCHANGED <<tables, requests, clock, calls>>

WorkerBegin(w) ==
    /\ At(w, "list")
    /\ \/ proc[w].todo = {} /\ Become(w, Idle)
       \/ \E j \in proc[w].todo :
             LET rest == proc[w].todo \ {j}
             IN  Become(w, IF Exists(j)
                           THEN [pc |-> "discover", todo |-> rest, job |-> j,
                                 org |-> jobs[j].org]
                           ELSE [proc[w] EXCEPT !.todo = rest])
    /\ NoFault
    /\ UNCHANGED <<tables, requests, clock, calls>>

CallerBegin(c) ==
    \E j \in Jobs :
        /\ ApiCall("run")
        /\ At(c, "idle")
        /\ Exists(j)
        /\ Become(c, [pc |-> "discover", todo |-> {}, job |-> j, org |-> jobs[j].org])
        /\ NoFault
        /\ UNCHANGED <<tables, requests, clock>>

\* The history row, with the time of its insertion, and last_run_at in one
\* transaction; the insert fails if the job has been deleted in the meantime.
RecordSuccess(p) ==
    LET j == proc[p].job
    IN  /\ At(p, "discover")
        /\ j \in CloudJobs
        /\ IF Exists(j)
           THEN /\ AddRow(j, "completed")
                /\ jobs' = [jobs EXCEPT ![j].last = clock]
                /\ Become(p, IF proc[p].org THEN [proc[p] EXCEPT !.pc = "store"]
                             ELSE Rest(p))
           ELSE Become(p, Rest(p)) /\ UNCHANGED <<jobs, history, lastRow>>
        /\ NoFault
        /\ UNCHANGED <<used, requests, clock, calls>>

\* Slip: a status the table does not know.
RecordFailure_slip(p) ==
    /\ proc[p].pc \in {"discover", "store"}
    /\ IF proc[p].job \in LocalJobs THEN NoFault ELSE Fault("fail")
    /\ IF Exists(proc[p].job) THEN AddRow(proc[p].job, "error")
       ELSE UNCHANGED <<history, lastRow>>
    /\ Become(p, Rest(p))
    /\ UNCHANGED <<jobs, used, requests, clock, calls>>

\* An exception: before the transaction above, or after it while the results
\* are stored.  A local job has no client and always fails.
RecordFailure(p) ==
    LET j == proc[p].job
    IN  /\ proc[p].pc \in {"discover", "store"}
        /\ IF j \in LocalJobs THEN NoFault ELSE Fault("fail")
        /\ IF Exists(j) THEN AddRow(j, "failed") ELSE UNCHANGED <<history, lastRow>>
        /\ Become(p, Rest(p))
        /\ UNCHANGED <<jobs, used, requests, clock, calls>>

\* The inventory is written and committed: no table of this module changes.
StoreResults(p) ==
    /\ At(p, "store")
    /\ Become(p, Rest(p))
    /\ NoFault
    /\ UNCHANGED <<tables, requests, clock, calls>>

-----------------------------------------------------------------------------
(***************************************************************************)
(* The scanner: three HTTP calls to the API, none of them repeated.  After *)
(* 30 seconds it gives a call up; the call may still be on its way.        *)
(***************************************************************************)
\* Slip: a job that has no next_run_at yet is not listed.
ScannerPoll_slip(s) ==
    /\ At(s, "idle")
    /\ Become(s, [Idle EXCEPT !.pc = "list",
                     !.todo = {j \in Jobs : Pending(j) /\ jobs[j].next # None}])
    /\ NoFault
    /\ UNCHANGED <<tables, requests, clock, calls>>

ScannerPoll(s) ==
    /\ At(s, "idle")
    /\ Become(s, [Idle EXCEPT !.pc = "list", !.todo = {j \in Jobs : Pending(j)}])
    /\ NoFault
    /\ UNCHANGED <<tables, requests, clock, calls>>

ScannerDone(s) ==
    /\ At(s, "list")
    /\ proc[s].todo = {}
    /\ Become(s, Idle)
    /\ NoFault
    /\ UNCHANGED <<tables, requests, clock, calls>>

Send(s, kind, j, ok) ==
    requests' = requests \union {[kind |-> kind, from |-> s, job |-> j, ok |-> ok,
                                  row |-> None, interval |-> 0]}

ScannerStart(s) ==
    /\ At(s, "list")
    /\ \E j \in proc[s].todo :
          /\ Send(s, "start", j, FALSE)
          /\ Become(s, [pc |-> "starting", todo |-> proc[s].todo \ {j}, job |-> j,
                        org |-> FALSE])
    /\ NoFault
    /\ UNCHANGED <<tables, clock, calls>>

\* The scan has succeeded or raised.
ScannerSubmit(s) ==
    /\ At(s, "scan")
    /\ \E ok \in BOOLEAN : Send(s, "complete", proc[s].job, ok)
    /\ Become(s, [proc[s] EXCEPT !.pc = "submitting"])
    /\ NoFault
    /\ UNCHANGED <<tables, clock, calls>>

\* A request nobody waits for any more carries the number of the fault.
Abandoned(s) ==
    {IF q.from = s THEN [q EXCEPT !.from = FaultCount] ELSE q : q \in requests}

\* The scanner goes on with its list, as it does when the answer to the last
\* call is an error.
ScannerGivesUp(s) ==
    /\ proc[s].pc \in {"starting", "submitting"}
    /\ Fault("lost")
    /\ requests' \in {Abandoned(s), {q \in requests : q.from # s}}
    /\ Become(s, Rest(s))
    /\ UNCHANGED <<tables, clock, calls>>

-----------------------------------------------------------------------------
(***************************************************************************)
(* The API's side of the last two calls.                                   *)
(***************************************************************************)
\* The call is over, and the scanner that waits for it stands at pc.
Answer(q, pc) ==
    /\ requests' = requests \ {q}
    /\ proc' = IF q.from \in Scanners
               THEN [proc EXCEPT ![q.from] =
                        IF pc = "scan" THEN [@ EXCEPT !.pc = "scan"] ELSE Rest(q.from)]
               ELSE proc

\* Slip: a job that says running already gets no row of its own.
mark_job_running_slip(q) ==
    LET j == q.job
    IN  /\ q.kind = "start"
        /\ IF Exists(j)
           THEN /\ jobs' = [jobs EXCEPT ![j].last = clock]
                /\ IF RunningFor(j) = {} THEN AddRow(j, "running")
                   ELSE UNCHANGED <<history, lastRow>>
                /\ Answer(q, "scan")
           ELSE UNCHANGED <<jobs, history, lastRow>> /\ Answer(q, "list")
        /\ UNCHANGED <<used, clock, calls, faults>>

\* mark_job_running does not ask whether another scanner has started the job.
mark_job_running(q) ==
    LET j == q.job
    IN  /\ q.kind = "start"
        /\ IF Exists(j)
           THEN /\ jobs' = [jobs EXCEPT ![j].last = clock]
                /\ AddRow(j, "running")
                /\ Answer(q, "scan")
           ELSE UNCHANGED <<jobs, history, lastRow>> /\ Answer(q, "list")
        /\ UNCHANGED <<used, clock, calls, faults>>

Reading(q, row) ==
    requests' = (requests \ {q}) \union
        {[q EXCEPT !.row = row, !.interval = jobs[q.job].interval]}

\* Slip: the newest row of the job, whatever its status.
complete_job_read_slip(q) ==
    /\ q.kind = "complete" /\ q.row = None
    /\ IF Exists(q.job)
       THEN /\ \/ RowsFor(q.job) = {} /\ Reading(q, 0)
               \/ \E r \in RowsFor(q.job) :
                     /\ \A p \in RowsFor(q.job) : p.started <= r.started
                     /\ Reading(q, r.id)
            /\ UNCHANGED proc
       ELSE Answer(q, "list")
    /\ UNCHANGED <<tables, clock, calls, faults>>

\* complete_job looks for the newest running row of the job, whichever scan
\* began it (0: there is none), ...
complete_job_read(q) ==
    /\ q.kind = "complete" /\ q.row = None
    /\ IF Exists(q.job)
       THEN /\ \/ RunningFor(q.job) = {} /\ Reading(q, 0)
               \/ \E r \in RunningFor(q.job) :
                     /\ \A p \in RunningFor(q.job) : p.started <= r.started
                     /\ Reading(q, r.id)
            /\ UNCHANGED proc
       ELSE Answer(q, "list")
    /\ UNCHANGED <<tables, clock, calls, faults>>

\* Slip: only a success is written to the history.
complete_job_write_slip(q) ==
    /\ q.kind = "complete" /\ q.row # None
    /\ history' = {IF r.id = q.row /\ q.ok THEN [r EXCEPT !.status = "completed"]
                   ELSE r : r \in history}
    /\ jobs' = IF Exists(q.job) /\ q.interval > 0
               THEN [jobs EXCEPT ![q.job].next = clock + q.interval] ELSE jobs
    /\ Answer(q, "list")
    /\ UNCHANGED <<used, lastRow, clock, calls, faults>>

\* ... and writes the result to it by its id, without another look at the row.
\* The interval is the one it read.
complete_job_write(q) ==
    /\ q.kind = "complete" /\ q.row # None
    /\ history' = {IF r.id = q.row
                   THEN [r EXCEPT !.status = IF q.ok THEN "completed" ELSE "failed"]
                   ELSE r : r \in history}
    /\ jobs' = IF Exists(q.job) /\ q.interval > 0
               THEN [jobs EXCEPT ![q.job].next = clock + q.interval] ELSE jobs
    /\ Answer(q, "list")
    /\ UNCHANGED <<used, lastRow, clock, calls, faults>>

-----------------------------------------------------------------------------
(***************************************************************************)
(* A process dies and starts over.  Time passes.                           *)
(***************************************************************************)
Crash(p) ==
    /\ ~At(p, "idle")
    /\ Fault("crash")
    /\ Become(p, Idle)
    /\ requests' = Abandoned(p)
    /\ UNCHANGED <<tables, clock, calls>>

Tick ==
    /\ clock < MaxClock
    /\ clock' = clock + 1
    /\ UNCHANGED <<tables, proc, requests, calls, faults>>

Api == create_job \/ update_job \/ delete_job \/ queue_job_for_worker

RunDiscovery(p) == RecordSuccess(p) \/ RecordFailure(p) \/ StoreResults(p)
WorkerStep(w) == WorkerPoll(w) \/ WorkerBegin(w) \/ RunDiscovery(w)
ScannerStep(s) ==
    ScannerPoll(s) \/ ScannerDone(s) \/ ScannerStart(s) \/ ScannerSubmit(s)
Handle(q) == mark_job_running(q) \/ complete_job_read(q) \/ complete_job_write(q)

Next ==
    \/ Api \/ Tick
    \/ \E w \in Workers : WorkerStep(w)
    \/ \E s \in Scanners : ScannerStep(s) \/ ScannerGivesUp(s)
    \/ \E q \in requests : Handle(q)
    \/ \E c \in Callers : CallerBegin(c) \/ RunDiscovery(c)
    \/ \E p \in Procs : Crash(p)

Spec == Init /\ [][Next]_vars

\* The poll loops of workers and scanners never stop: the container restarts a
\* process that died, and the next poll comes after a fixed pause.  The API
\* finishes the calls that somebody waits for.
FairSpec ==
    /\ Spec
    /\ \A w \in Workers : WF_vars(WorkerStep(w))
    /\ \A s \in Scanners :
          /\ WF_vars(ScannerStep(s))
          /\ WF_vars(\E q \in requests : q.from = s /\ Handle(q))

-----------------------------------------------------------------------------
(***************************************************************************)
(* Properties                                                              *)
(***************************************************************************)

\* Every row of the two tables and every process's locals have their type.
TypeOK ==
    /\ jobs \in [Jobs -> JobRow \union {None}]
    /\ used \subseteq Jobs
    /\ history \subseteq HistoryRow
    /\ lastRow \in Nat
    /\ proc \in [Procs -> Process]
    /\ requests \subseteq Request
    /\ clock \in Nat /\ calls \in Nat
    /\ faults \in [FaultKinds -> Nat]

Scanning(j) == {s \in Scanners : proc[s].pc = "scan" /\ proc[s].job = j}
Submitted(j) == {q \in requests : q.kind = "complete" /\ q.job = j}
Unread(j) == {q \in Submitted(j) : q.row = None}

\* No result is dropped: complete_job finds a running row for every scan that is
\* under way or submitted and not yet looked at, although it takes the newest one
\* of the job, several scanners may be at it, and calls may be late or lost.
EveryScanHasARow ==
    \A j \in Jobs : Exists(j) =>
        Cardinality(Scanning(j)) + Cardinality(Unread(j)) <= Cardinality(RunningFor(j))

\* With one scanner, as long as no call was lost and no process died, no row says
\* "running" of a scan that nobody makes.  (Two scanners whose results for the
\* same job come in together can leave one: both may write to the same row.)
NoPhantomScans ==
    NothingLost =>
        \A j \in Jobs : Cardinality(RunningFor(j))
                            <= Cardinality(Scanning(j)) + Cardinality(Submitted(j))

\* last_run_at and the history tell the same story: the time is that of a row of
\* the job, no scan of the job began and no discovery completed after it, and a
\* job without one has no such row.  (run_discovery records a failure without
\* touching last_run_at.  The clock is coarser than the moments that pass between
\* the two statements of a transaction.)
LastRunMatchesHistory ==
    /\ \A j \in Jobs : (Exists(j) /\ jobs[j].last # None) =>
          \E r \in RowsFor(j) : r.started = jobs[j].last
    /\ \A r \in history :
          /\ Exists(r.job)
          /\ r.status \in {"running", "completed"} =>
                jobs[r.job].last # None /\ r.started <= jobs[r.job].last

\* complete_job takes hold of a row only while the row says running, and a
\* finished row is rewritten only by a call that holds it, which is one that read
\* it before it was finished: a result that comes after another one was recorded
\* never replaces it.
OnlyOverlapRewrites ==
    [][/\ \A r \in history : r.status # "running" =>
             \/ r \in history' \/ ~Exists(r.job)'
             \/ \E q \in requests : q.row = r.id
       /\ \A q \in requests' : (q.row \notin {None, 0} /\ q \notin requests) =>
             \/ \E r \in RunningFor(q.job) : r.id = q.row
             \/ \E p \in requests : p.job = q.job /\ p.row = q.row]_vars

OneTime(j) == j \in LocalJobs /\ jobs[j].interval = 0
Outcomes(j) == {r \in RowsFor(j) : r.status # "running"}

\* The turn of j is over: it was run, or taken away by an edit.
Served(j) ==
    \/ ~Exists(j) \/ ~jobs[j].enabled
    \/ /\ ~Due(j) /\ ~Pending(j)
       /\ OneTime(j) /\ NothingLost => Outcomes(j) # {}

\* A job whose turn has come is run, unless it is switched off or deleted.  For
\* cloud jobs and for jobs with an interval, losses, crashes and failures, as long
\* as they end, only delay it: it stays due until a result is recorded.  A one-time
\* local job is offered no more once its start is recorded, so its result is
\* promised only while no call is lost and no process dies.
DueJobsRun == \A j \in Jobs : (Due(j) \/ Pending(j)) ~> Served(j)

\* If no call is lost and no process dies, every scan that began is recorded as
\* completed or failed, or its job is deleted.
ScansEnd ==
    \A j \in LocalJobs :
        RunningFor(j) # {} ~>
            \/ RunningFor(j) = {}
            \/ ~NothingLost

(***************************************************************************)
(* What the documentation says and the code does not do                    *)
(***************************************************************************)
\* queue_job_for_worker: "The worker polls discovery_jobs and will pick this up
\* on its next cycle."  A poll lists every enabled cloud job that was queued
\* after its last run.
QueuedJobIsPickedUp ==
    [][\A w \in Workers, j \in CloudJobs :
          (/\ proc[w].pc = "idle" /\ proc'[w].pc = "list"
           /\ Exists(j) /\ jobs[j].enabled
           /\ jobs[j].next # None /\ jobs[j].next <= clock
           /\ jobs[j].last = None \/ jobs[j].last < jobs[j].next)
             => j \in proc'[w].todo]_vars
=============================================================================
