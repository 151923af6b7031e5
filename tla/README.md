# Elder: specifications, model checking and proofs

Elder is an infrastructure inventory with an access-management side: a Flask/Quart
API over a relational database, background workers, scanners that talk to the API
over HTTP, and a web interface. These files specify the parts of it whose
correctness depends on the order in which independent processes act, check them
with TLC on small instances, and prove the central facts with TLAPS for every
instance. Paths below are relative to the root of the repository.

- [Inventory](#inventory)
- [Modules](#modules)
- [GroupAccess](#groupaccess)
- [DiscoveryJobs](#discoveryjobs)
- [AccessReview](#accessreview)
- [WebhookDelivery](#webhookdelivery)
- [ProjectSync](#projectsync)
- [ResourceGraph](#resourcegraph)
- [Runs, bounds and fairness](#runs-bounds-and-fairness)
- [Proofs](#proofs)
- [Where the code and its documentation disagree](#where-the-code-and-its-documentation-disagree)
- [Assumptions about the environment](#assumptions-about-the-environment)
- [Not modelled, and why](#not-modelled-and-why)
- [Plan](#plan)

## Inventory

The processes of a deployment: API servers (several, with threads), the worker
(connectors, cloud discovery, project sync), the scanner (local discovery, SBOM
scans), and in every API process a scheduler thread for access reviews. They share
the database and nothing else; scanners reach it only through the API.

| component | state | operations | what is hard | what makes it correct |
|---|---|---|---|---|
| **Group access** (`apps/api/services/group_membership`) | `identity_groups`, `identity_group_memberships`, `group_access_requests`, `group_access_approvals` | request, approve (single, bulk), deny, cancel, add, remove, edit a group; expiry sweeps | a handler checks a row and writes it several commits later; votes and decisions are different transactions; no unique constraint backs the checks | grants are accounted for by a request and a vote; decisions are made by owners and stay made |
| **Discovery jobs** (`apps/api/services/discovery`, `apps/worker/discovery`, `apps/scanner/main.py`) | `discovery_jobs`, `discovery_history`; a worker's and a scanner's list of ids | create, edit, delete, queue; polls; start, scan, submit over HTTP | nothing claims a job; results are matched to history rows by "newest running"; calls are late, lost, not repeated | every scan is recorded once; `last_run_at` and the history agree; due jobs run |
| **Access reviews** (`apps/api/services/access_review`) | reviews, items with decisions, the group's next review date | create, decide, complete, schedule, overdue | completion applies decisions through `remove_member`, which commits; every API process has a scheduler; decisions do not ask whether the review is over | a completed review has been decided in full and its decisions applied; only what was under way reopens it |
| **Project sync** (`apps/worker/sync`) | the watermark `last_sync_at`, mappings, Elder's issues | run a batch, handle a webhook, edit the configuration | changes and moving pages during a batch, failures between an issue and its mapping, webhooks that are late or repeated | the watermark passes nothing that was not looked at; an issue stays one issue |
| **Webhooks** (`apps/api/services/webhooks`) | webhooks, deliveries with attempts and outcome | deliver, redeliver, test, broadcast, switch off, delete | the HTTP request is made between two transactions; the answer may be lost; the history may be deleted meanwhile | what the history shows as delivered was accepted; each request is counted once |
| **Organizations, entities, dependencies** (`apps/api/api/v1`, `apps/api/grpc`) | two hierarchies with cascading keys, dependencies without keys | create, change, delete; bulk; two front ends | counts and looks before a deletion or an insert lock nothing; cascades go further than the counts | nothing is deleted over the head of what was there; no dangling ends but those that are accounted for |
| **SBOM scans and schedules** (`apps/api/api/v1/sbom_*`) | scans, schedules with `next_run_at` | create, start, result, due | scanner creates a scan and then updates the schedule, in two calls | a due schedule runs once |
| **Retries and transactions** (`apps/api/utils/async_utils.py`, `shared/database`) | the request's connection | run in thread, retry on connection error, commit or roll back at teardown | a retry repeats what may have committed; teardown commits what a handler half did | a handler's writes are all or nothing |
| **Authentication** (`apps/api/auth`, `portal_auth`) | users, login attempts, lockout | login, refresh, logout | counters under concurrent logins | lockout after the configured number of failures |
| **Backup** (`apps/api/services/backup`) | jobs, runs | run, restore, prune | files and rows in step | retention keeps what it promises |
| **On-call** (`on_call_calculator.py`) | rotations, overrides | who is on call at a time | boundaries, empty rotations | exactly one participant, overrides win |
| **IPAM** (`apps/api/api/v1/ipam.py`) | prefixes, addresses, VLANs | allocate, edit | overlap checks before inserts | no overlapping allocation |
| **Connectors** (`apps/worker/connectors`) | last sync, ids of created rows | periodic sync | external services | idempotence |
| **Issues, projects, inventory rows** (`apps/api/api/v1/*`) | one table each | create, read, update, delete | little: single rows | referential integrity |

The rest (parsers, vault and cloud adapters, single sign-on, search, audit, gRPC
front end, migrations, web interface, deployment files) is listed with its reason in
`PROJECT.json` under `components`; `hazards` there lists the places where this code
can go wrong in a way a test would hardly reach, with the properties that watch
them.

How components interact: access reviews and the group workflow write the same
memberships (`complete_review` calls `remove_member`, which takes the items of the
membership with it by a cascade, and `add_member` may add a person twice); the worker and the API's
legacy run share `DiscoveryService`'s tables; the scanner's discovery and SBOM loops
share one process; all of them share the transaction and retry layer.

## Modules

| file | what it is |
|---|---|
| `AccessWorkflow.tla` | what the access workflow promises the people who use it: an abstract specification |
| `GroupAccess.tla` | the access workflow: state, one action per step of each handler, properties; implements `AccessWorkflow` with one handler at a time |
| `MCGroupAccess.tla`, `GroupSerial.cfg`, `GroupConcurrent.cfg`, `GroupOwnersApprove.cfg`, `GroupLateApproval.cfg` | its instances for TLC |
| `GroupAccessProofs.tla` | its theorems about types, grants and decisions for any number of handlers, and that a decision is final with one |
| `GroupSerialProofs.tla` | its theorems for one handler at a time, the refinement among them; and for any number: the rows that leave, the bounds per handler, that handlers end, that votes are in hand |
| `DiscoveryJobs.tla` | the jobs and their history, the API, workers, scanners and the calls between them |
| `MCDiscoveryJobs.tla`, `DiscoveryScan.cfg`, `DiscoveryPoll.cfg`, `DiscoveryRunNow.cfg` | its instances for TLC |
| `DiscoveryJobsProofs.tla` | its theorems about types, rows and `last_run_at`, and that polls are worked off |
| `DiscoveryScanProofs.tla` | its theorems that count scans against running rows |
| `AccessReview.tla` | reviews, their items, the scheduler threads, and the memberships they act on |
| `MCAccessReview.tla`, `AccessReview.cfg`, `AccessReviewSchedule.cfg` | its instances for TLC |
| `AccessReviewProofs.tla` | its theorems, about the next review's date too |
| `DeliveryPromise.tla` | what the delivery history promises its reader: the abstract specification |
| `WebhookDelivery.tla` | webhooks, deliveries and the workers that send them; implements `DeliveryPromise` |
| `MCWebhookDelivery.tla`, `WebhookDelivery.cfg` | its instance for TLC |
| `WebhookDeliveryProofs.tla` | its theorems, the refinement and what is left open among them |
| `ProjectSync.tla` | the code host, the batch scheduler, the webhook handler, mappings and watermark |
| `MCProjectSync.tla`, `ProjectSync.cfg` | its instance for TLC |
| `ProjectSyncProofs.tla` | its theorems, and that a run advances to its end |
| `ResourceGraph.tla` | organizations, entities and dependencies behind the REST and gRPC servers |
| `MCResourceGraph.tla`, `ResourceGraph.cfg` | its instance for TLC |
| `ResourceGraphProofs.tla` | its theorems |

A definition whose name ends in `_slip` is the definition after it with one
plausible mistake. No specification uses one: exchanging the two is how each
property was seen to fail when the code is wrong in a way it should notice. The
pairs are listed in `PROJECT.json` under `mutants`.

## GroupAccess

**State.** The four tables are `groups` (a function; groups are neither created nor
deleted by this service), `memberships` (a set of rows with ids from the serial
`lastId`), `requests` and `approvals` (sequences in order of id; nothing deletes
from them). `job[h]` is API handler *h*: the place it has reached and its local
variables. Timestamps are days, `clock`.

**Actions.** A handler's step is one transaction, or one read whose result is used
later; the place names the step to come.

| operation (`service.py`) | steps |
|---|---|
| `create_access_request` 193 | `CreateCheckMember`, `CreateCheckPending`, `CreateInsert` |
| `approve_request` 336, `bulk_approve_requests` 467 | `ApproveRead`, `ApproveAuthorize`, `ApproveRecord` (commit), `ApproveCount`, `ApproveFinalize` (commit), `ApproveSync` (commit), `ApproveNext` |
| `deny_request` 389 | `DenyRead`, `DenyAuthorize`, `DenyWrite` |
| `cancel_request` 446 | `CancelRead`, `CancelWrite` |
| `add_member` 526 | `AddCheck`, `AddInsert` (commit), `AddSync` |
| `remove_member` 581 | `RemoveFind`, `RemoveSync`, `RemoveDelete` |
| `update_group` 126 | `UpdateGroup` |
| `process_expired_memberships` 936 | `SweepSelect`, `SweepSync`, `SweepDelete` |
| `process_stale_requests` 1024 | `StaleSelect`, `StaleWrite` |

Handlers that fail a check go back to `idle`, which stands for the error response.
`Crash` is the end of a process between two steps. `approve_request` calls
`is_group_owner`, `_check_approval_complete` and `_count_group_owners`, which are
operators of the same names (rows are counted, not people, as in the code). The
provider synchronization marks the row; the call to the provider is a TODO in the
source.

**The workflow.** `AccessWorkflow` is what the service promises, without handlers or transactions: `Submit`,
`Support` (a vote), `Approve` (with the grant), `Deny`, `Close` (cancelled or expired) and `Revoke`. Its state is read
off the tables: `Ledger` (requests without their dates), `Votes`, `Granted` (requests with a membership in force), `OwnersOf`.

**Properties.** *One handler at a time* (`group_serial`), which may die anywhere: `FollowsWorkflow` says that
the module implements `AccessWorkflow`. One pending request per person and group, decisions that stay, votes by
owners on pending requests, and an approval that comes with its grant are all parts of it; `GroupAccess` states the first three by
themselves too (`OnePendingPerRequester`, `DecisionFinal`, `OnlyOwnersDecide`), for the proofs. Beside it: nobody has two memberships
of the same origin (`AtMostOneGrant`); a request is approved only while its group's mode is satisfied
(`ApprovedOnlyWhenComplete`); a membership row disappears only because it lapsed or was chosen for removal
(`RowsLeaveForAReason`).

*Several handlers* (`group_concurrent`): the checks come before the writes and no constraint backs them, so the workflow is
not followed. What holds is that a check is passed at most once per handler: no more pending requests of a person for a
group than handlers (`PendingPerHandler`), and no more memberships from one request than handlers
(`GrantsPerHandler`). `GrantsTraceToApproval` and `DecisionsBacked` account for every grant and decision by a request and a vote;
`OnlyInFlightOverwrites`: only a handler that read the request while it was pending can overwrite a decision.
`VoteDecides` (liveness): where one vote is enough, a request with a vote does not stay pending.

## DiscoveryJobs

**State.** `jobs[j]` is the row of id *j* or `None`; `used` the ids handed out;
`history` the rows of `discovery_history`, ids from `lastRow`. `proc[p]` is a worker,
a scanner, or an API thread that runs a job synchronously; `todo` is what is left of
the list of its poll. `requests` are the scanners' HTTP calls that the API has not
finished, so the scanner's and the API's side of a call are different steps, and a
call may outlive the interest in it. `clock` counts time units (compare
`schedule_interval`).

**Actions.**

| code | actions |
|---|---|
| `DiscoveryService.create_job`, `update_job`, `delete_job`, `queue_job_for_worker` (`apps/api/services/discovery/service.py`) | the actions of the same names |
| `get_pending_jobs` and the run loop of `apps/worker/discovery/executor.py` | `WorkerPoll`, `WorkerBegin` |
| `run_discovery` (`apps/worker/discovery/service.py`, and the API's own for the legacy mode of `POST /jobs/<id>/run`) | `WorkerBegin`/`CallerBegin` (read the job), `RecordSuccess`, `RecordFailure`, `StoreResults` (all of `_store_discovered_resources`: it writes no table of the module) |
| the discovery loop of `apps/scanner/main.py` | `ScannerPoll`, `ScannerStart`, `ScannerSubmit`, `ScannerDone`, `ScannerGivesUp` |
| `mark_job_running`, `complete_job` | `mark_job_running`, `complete_job_read`, `complete_job_write` |

What a run finds, and the inventory rows it stores, are left out; whether it fails
is kept, before its record is written or after, while results are stored. A deletion
takes the job's history with it.

**Faults.** `"fail"`: a discovery raises. `"lost"`: a scanner stops waiting for a call
(30 seconds, or a broken connection); the call is gone or stays and is handled later.
`"crash"`: a process dies and starts over; a scanner's call stays on its way.

**Properties.** `EveryScanHasARow`: there is a running row for every scan that is under
way or submitted and not yet looked at, although `complete_job` takes the newest
running row of the job, whichever scan made it. `OnlyOverlapRewrites`: a finished row is
rewritten only by a call that read it while it was running. `NoPhantomScans`: with
one scanner and no faults a running row has a scan. (With two scanners it fails, which
is why it is stated for one: two results of the same job that come in together read the same
newest row, and the other one says "running" for ever.) `LastRunMatchesHistory`:
`last_run_at` is the time of a row of the job, and no scan that began or discovery
that completed is later.

*Liveness.* `DueJobsRun`: a job whose turn has come is served. For cloud jobs and jobs with an interval, losses, crashes and
failures only delay that. A one-time local job is another matter: its start sets `last_run_at`, so when the start is lost on
the way back, or the scanner dies after it, the job has no result and is never offered again. What is promised of
it is a result while nothing has been lost and nobody died. `ScansEnd`: a scan that began is recorded, under the same condition.

## AccessReview

**State.** `groups[g]` has the review columns of the group (enabled, applied
automatically, date of the next review); `members` and `lastId` are the membership table
that `GroupAccess` models in full, here with the two operations others call meanwhile, each in its
two steps: nothing keeps a person from being added twice.
`reviews` is a sequence in order of id, `items` a set keyed by review and membership.
`job[p]` is an API request or a scheduler thread. `complete_review` keeps its
transaction open over several reads; what it has written and not committed is in the job:
`open` locks the row of the review, `staged` are the extensions written so far. An item remembers whether
its decision was committed on a review that was completed already (`late`; the column `reviewed_at` is stamped before that commit and
does not tell). `astray` and `abandoned` are history: removals that took another row of the person, and
reviews whose completion died after its first commit.

| operation (`service.py`, `scheduler.py`) | steps |
|---|---|
| `create_review` 99, `_create_pending_reviews` 74 | `CreateCall` or `SchedulePass`, then for each group `CreateInsert` (`_assign_reviewers` commits), `CreateOpen` (commit) |
| `submit_review_decision` 384 | `DecideFind`, `DecideCount` (`_update_review_progress`), `DecideCommit` |
| `complete_review` 487 | `CompleteRead`, `CompleteMark`, per item `ApplyFind` and `ApplyDelete` (`remove_member`, whose commit takes the mark with it) or `ApplyExtend`, `ApplyCommit`, `CompleteSchedule` |
| `check_overdue_reviews` 672 | `OverdueSelect`, `OverdueWrite` |
| `add_member`, `remove_member` of the group service | `AddCheck`, `AddInsert`; `RemoveFind`, `RemoveDelete` |

A membership's deletion deletes its items (alembic 011). `Crash` ends a process
named in `Mortal` and rolls its open transaction back.

**Properties.** `CompletedFullyDecided`: a review completes with no undecided item and gets none
later. `ProgressNeverOverstates`: counters of reviewers who decide at the same time may lag, and
never run ahead. `AppliedUnlessLate`: once the completion of an
automatic review is through, every removal has been carried out but those that were decided late. There are two exceptions, and the property
says that there are no others. `remove_member` looks for a row of the *person* and deletes the first; with two rows of one person it may delete the one that
was to be kept and leave the other (`astray`). And a process may die after `remove_member` has committed the mark and before the
rest (`abandoned`): the review is completed then and nothing takes up what is left. `OnlyInFlightReopens`: a completed review changes its status only through an overdue check, or the
end of a creation, that read it before. `CompletionReschedules` (liveness): who completes a review moves the
date of the next one, or died after its first commit.

## WebhookDelivery

**State.** `hooks[w]` is a webhook or its absence; `deliveries` a sequence in order of id, whose
rows keep a flag when they are deleted; `job[h]` an API worker, which, once dead, keeps the locals it died with.
`sent` and `accepted` are outside: how often the receiver was asked and what it accepted.

| operation (`service.py`) | steps |
|---|---|
| `create_webhook` 78, `update_webhook` 130, `delete_webhook` 198 | `CreateHook`, `UpdateHook`, `DeleteHook` (history included) |
| `test_webhook` 409, `broadcast_event` 769 | `TestCall`, `BroadcastCall` |
| `deliver_webhook` 229 | `DeliverRead`, `DeliverInsert` (commit) |
| `redeliver_webhook` 351 | `RedeliverCall` |
| `_attempt_delivery` 280 | `Post` (the request, accepted or not, answered or not), `Record` (commit) |

`broadcast_event` compares a column with `True` by `is`, which is `False` for every row: it reaches
no webhook, and `BroadcastCall` changes nothing.

**Properties.** `EveryPostCounted`: `attempts` lags behind the requests exactly by those whose workers
have not recorded them. `NoOrphans`: no row without its webhook. `DeletedGathersNothing`: a deleted
history stays deleted, and no request is begun for it. `DeliveriesSettle` (liveness): a delivery a living
worker is about to send gets an outcome. `KeepsPromise`: the module implements `DeliveryPromise`, whose
state is what the receiver accepted and what the history shows, under the mapping
`claim[d] = Claim(deliveries, d)`: a delivery shown as successful was accepted. The
converse is no promise: a redelivery, or the first attempt's timeout, may overwrite a success
with a failure.

## ProjectSync

**State.** `log` is what happened on the host; an instant is a position in it, and an issue's content is
the instant of its last change. `config` is the row of `sync_configs` with the watermark: one
at a time, told from those before it by its id,
`issues` Elder's issues, `mappings` the rows of `sync_mappings`; `job[p]` a batch run or a webhook handler.

| code | actions |
|---|---|
| GitHub | `Open`, `Edit`, `Delete` (the pages of a run under way move) |
| `create_sync_config`, `update_sync_config`, `delete_sync_config` (`apps/api/api/v1/sync.py`) | `CreateConfig`, `UpdateConfig`, `DeleteConfig` (mappings go, issues stay) |
| `_run_batch_sync` (`batch_scheduler.py` 172) | `BatchBegin`, `Finish` (the watermark is set to the end of the run) |
| `_batch_sync_issues` (`github_client.py` 530) | `Fetch`, `Lookup`, `Break` (an answer that is no list ends the loop) |
| `_sync_issue_from_github` 270 | `Create` (commit), `MapIssue` (commit), `Update` (commit) |
| `handle_webhook` 620 | `HookCall`, `Update` |

Webhooks whose action is opened, edited or closed are passed on as the type of operation,
which is none the client knows, and fail; the others are updates when a mapping exists.

**Properties.** `LostOnlyInWindow`: what is behind the watermark was dealt with, or changed while a run
was under way, or belongs to a run that broke off; these are lost, and they are the only ones.
`OneIssuePerRun`: an issue is imported more than once only by overlapping runs,
after a failure between the issue and its mapping, or when its configuration was deleted and created
again; the bound counts all three. `NoMixups`: no content of one issue in the row of another.
`RunsAdvance`: every step that moves a run brings it closer to its end, although the pages of the host move under it, and no page
is further than there were changes. So a run whose steps are taken ends, and `LostOnlyInWindow` says of the watermark it leaves what was dealt with.

There is no liveness property: `start()` takes its jobs from `_load_sync_configs`, whose `is True` selects no configuration
(`batch_scheduler.py:318`), and nothing else calls `add_batch_job`, so the code schedules no run. `BatchBegin` is what a run would be if one were
scheduled.

Two configurations of one repository that exist at the same time keep their own mappings, so each imports its own issues; that
is no race, and is left out.

## ResourceGraph

**State.** `orgs` and `entities` hold the hierarchies (functions from ids to rows; 0 is NULL), `deps` the dependencies,
`serial` the sequences. `job[h]` is a thread of either server between a read and its write.
`gone`, `late`, `checked` and `last` are history, kept for the properties.

| operation (REST, gRPC) | steps |
|---|---|
| `create_organization`, `update_organization`; `CreateOrganization`, `UpdateOrganization` | the actions of the same names |
| `delete_organization`; `DeleteOrganization` | `OrganizationChildren` (count), `OrganizationDelete` (with what is beneath it and its entities) |
| `create_entity`, `update_entity`; `CreateEntity`, `UpdateEntity` | the actions of the same names |
| `delete_entity` | `EntityOutgoing`, `EntityIncoming` (two counts), `EntityDelete` (with what is beneath it) |
| `DeleteEntity` (gRPC) | `DeleteEntity`: no count |
| `create_dependency` | `DependencyEnds`, `DependencyExisting`, `DependencyInsert` |
| `CreateDependency` (gRPC) | `CreateDependency`: the source is looked up, nothing else |
| `update_dependency`, `delete_dependency`, the bulk deletions | `update_dependency`, `DeleteDependencies` |
| `create_dependencies_bulk`; `BulkCreateDependencies` | `BulkBegin`, `BulkRow` per row, `BulkCommit` |

Operations that check and write in one statement's reach are one step; gRPC's `CreateDependency` is one step because
nothing is promised of its row. `Below` is what a cascade takes: the least set that is
closed under children. `update_organization` and `update_entity` accept a parent that is the row itself or lies
beneath it, so cycles are part of the model.

**Properties.** `TypeOK` says with the types that both hierarchies are whole: every organization and parent that is
named exists. `ChildrenCameLate`: an organization about to be deleted has only children
that came after the count. `TwinsOverlapped`: two equal dependencies made by
`create_dependency` come from overlapping requests. `LossesExplained`: such a dependency loses an end only to a deletion
that counts nothing, or to one that had begun to count before it was inserted.
`CyclesStay`: an organization beneath itself can be deleted only when a child came late.

## Runs, bounds and fairness

| run | shows | size |
|---|---|---|
| `group_serial` | that the service implements `AccessWorkflow`, and the rules about modes and memberships, over every sequence of four operations by one handler, which may die anywhere; the group's table starts in mode all, in threshold, or in none of the three, and is edited in between | 1 handler, 3 people, 2 groups (the members of one own the other), 4 operations, 2 days |
| `group_concurrent` | what stays true when two handlers interleave at every read and commit: what is accounted for, how often a check can be passed, and that a sufficient vote decides | 2 handlers, 2 people, 4 operations among create, approve, deny, cancel, expire |
| `discovery_scan` | two scanners at one job, with late and lost calls, crashes, edits and deletion | 2 scanners (symmetric), 1 job, 1 edit, 1 fault, 1 time unit |
| `discovery_poll` | worker, scanner, API thread and all edits together; agreement of the tables and both liveness properties | 1 of each process, 2 jobs, 2 API calls, 1 fault, 1 time unit |
| `access_review` | what completion, concurrent decisions, membership changes and a scheduler make of one review | 2 callers (1 may die), 1 scheduler, 1 group with one member or one member twice, 2 people, 3 calls, 1 review, 2 memberships, 1 day |
| `webhook_delivery` | accounting, deletion, liveness, refinement | 1 webhook, 2 workers (1 may die), 6 calls, 2 deliveries |
| `project_sync` | which changes are lost, duplicates, that runs advance | 1 batch process, 1 webhook thread, pages of 1 issue, 2 issues, 2 configurations one after the other, 3 changes, 1 fault |
| `resource_graph` | what the counts and looks guarantee between two handlers and every edit | 2 handlers (symmetric), ids up to 3, 4 operations, four initial hierarchies |
| `group_owners_approve`, `group_late_approval`, `discovery_run_now`, `access_review_schedule` | counterexamples, see below | |

*Why the bounds are enough.* The races of the workflow need a request and two
handlers that both hold it: two of the four operations of `group_concurrent` make and
decide a request and two more interfere. The rules of the serial run need at most a
request, two votes and a third operation between; the owner count's corner cases
(direct owner, owning group, both) are in the initial tables. In the discovery
model the interesting collisions are two scans of one job, one of them abandoned, and
a third that begins meanwhile; one lost call and one time unit give them, and an interval of one
unit makes a job due again within the run. A review is created by the scheduler, so three calls are two decisions and a completion, or a decision, a completion and one call that comes
between its steps or after it: a late decision, a removal, a second completion of a review that an overdue pass reopened. One review is enough, as
reviews meet only in the group's date. Two rows of one person are in the first tables (two additions that overlap make them);
with them the two decisions may differ. None of the exceptions of `AppliedUnlessLate` can be left out at these bounds. A delivery meets at most one
redelivery, a switch and a deletion of its webhook; two rows are there so that the ids matter. The sync's cases
are: an issue changed while its page is read, a page that moved because another was deleted, a
failure between two commits, a late webhook, and a configuration that is created again; three changes of two issues and two
configurations give each. In the graph two
operations interleave and two more edit between their steps; a third id is what a creation adds
to the two that are there. `MaxReviews`, `MaxId` and the like, `MaxCalls`, `MaxFaults`, `MaxOps` and `MaxClock`
stand only in guards; the theorems do not depend on them.

*Deadlock.* Every configuration says `CHECK_DEADLOCK FALSE`: once the allowed number of calls has
been made and nothing is under way, the system is idle, as the real one may be. What must not
stop is stated by the liveness properties.

*Fairness.* `GroupAccess`: weak fairness of each handler's `Continue` (a thread that runs
a request keeps running), none of `Call` (nobody has to call) and none of `Crash`.
`DiscoveryJobs`: weak fairness of the steps of each worker and each scanner, whose loops
the container restarts and whose polls come after a fixed pause (`apps/worker/main.py`,
`apps/scanner/main.py`), and of the API finishing a call somebody waits for. A call nobody
waits for any more may stay for ever; time, edits, faults and callers have no fairness.
`AccessReview` and `WebhookDelivery`: weak fairness of `Continue` for each process (a request that has begun goes on, and a
delivery's request has a timeout); dead processes have nothing to continue. `ProjectSync` and `ResourceGraph` have no liveness. Symmetry is
used only where no liveness property is checked.

## Proofs

All theorems hold for any sets of people, groups, handlers, jobs, workers, scanners and
API threads and for any bounds, from `ConstantsAssumption` of the module (sets of ids
are disjoint from each other and from `None`; initial tables and arguments have their
types), which TLC evaluates in the runs. A theorem that needs more says so in its `ASSUME`: one handler (`Handlers = {h}`),
finitely many processes where they are counted, members who are distinct at the start, groups that are not edited and processes that do not
die; the paragraphs below name it.

**GroupAccessProofs.** `IInv` = types, `LocalsOK`, `GrantsTraceToApproval`, `DecisionsBacked`. The two
properties are not inductive alone: `ApproveFinalize` writes a decision on the strength of a
vote recorded two steps before. `LocalOK(h)` says what handler *h* may rely on at each place (its
request exists; at `approve_count` and `approve_finalize` its vote is recorded), and survives the
steps of the others because requests and votes only grow (`Grows`). From it:
`TypeCorrect`, `GrantsTraced`, `DecisionsBackedTheorem`. `OverwritesInFlight` (an action property)
goes through `HoldStep`: each step either leaves the status and the holds alone, or takes hold of a pending request,
or writes as a holder. `SerialDecisionsFinal` assumes a single handler (`Handlers = {h0}`) and adds that a held request is
pending (`HeldArePending`).

**GroupSerialProofs.** The rules that hold of handlers run one at a time, each of which may die between any two
steps. To `HeldArePending` comes `Promise(h)`: what the handler has checked (ownership, enough votes, no membership, no
pending request) is still so at the place where it relies on it, because nobody else moves in between. `SerialInv` adds
`OnePendingPerRequester`, which `CreateInsert` keeps by the promise and every other step because only an insert
makes a request pending (`OnlyInsertPends`). That is `OnePendingTheorem`; `OnlyOwnersDecideTheorem` and
`ApprovedWhenCompleteTheorem` read the two action properties off the promise, once it is shown which steps add a vote
or approve. `AtMostOneGrantTheorem` needs `PendingUngranted` (a pending request has not been granted before; the
vote may have been committed by a handler that died, the grant and the status are one commit), and starts from members who
are distinct. `RowsLeaveTheorem` assumes nothing about the number of handlers: `SweepInv` says that membership ids are unique and
below the serial, and that whatever a sweep has selected is `Doomed`: a row that still has this id has lapsed. That survives
everybody's steps because expiries do not change, time does not go back and ids are not reused.

`WorkflowFollowed` is the refinement, `Spec => Workflow!Spec` with one handler. `CreateInsert` is `Submit`, `ApproveRecord` is
`Support`, `ApproveFinalize` is `Approve`, `DenyWrite` is `Deny`, `CancelWrite` and `StaleWrite` are `Close`; everything that changes
memberships or groups is `Revoke`, and what is left stutters. The guards of the abstract steps are what the handler
has checked (`Promise`, `HeldArePending`) and the vote it has recorded (`LocalOK`); that nothing but `Approve` grants
follows from which steps insert a membership with a request (`OthersRevoke`). `WorkflowSettles` proves of the abstract specification what
its users rely on: a membership in force was approved by the one it names, who voted for it, and what is
decided stays decided (`Accounted`, `Settled`).

For any finite number of handlers, `PendingPerHandlerTheorem`, `GrantsPerHandlerTheorem` and `DirectPerHandlerTheorem` bound what the
unlocked checks let through. The bounds are not inductive: the invariants (`PendingLoad`, `GrantLoad`, `DirectLoad`) count the
handlers that have passed a check and not yet used it beside the rows the check forbids. A check passes only when
there are no such rows, so the handlers that have passed are then all there is to count; an insert moves its
handler from one side of the sum to the other. For grants this rests on a granted request never being pending again. The
bound for `add_member` starts from distinct members and at least one handler.

`HandlersEnd` gives each handler a variant, `Work`: every step of a handler that has begun makes it smaller, through the lists of
sweeps, stale requests and bulk approvals (which `WorkInv` shows to be finite), whatever other handlers do. `VotesInHand` says, when no
process dies and groups are not edited, that a pending request with a vote in mode "any" is in the hands of a
handler that is about to count the votes.

**DiscoveryJobsProofs.** `IInv` = `Shape`, `Story`, `HeldRowsBegan`. `Shape` is the types plus what links
processes and calls: whoever is at work knows its job, and a waiting scanner has one
call in flight, about its job. `Story` adds to `LastRunMatchesHistory` that rows are numbered uniquely up to
`lastRow`, that nothing happened later than now (so setting `last_run_at` to now keeps
every earlier row covered), and that an unused id has no job (so a new job inherits no
history). `HeldRowsBegan` is what the last step of `complete_job` needs: it turns the row it read into "completed" without
another look, and that row's scan must be covered by `last_run_at` although other
scans, deletions and rows came in between; row ids are never reused, so a held id names
the same row or none. The cases of `Next` reduce to three effects: rows kept (`StoryKept`), a row
added (`StoryRow`), a result written (`WriteStory`). `OnlyOverlapRewritesTheorem` is an action property on top of `Shape`.
`WaitersHaveCallsTheorem` is the converse of what `Shape` says of calls: whoever waits has its call in flight, although calls are lost, given up and answered
late. `ListsWorkedOffTheorem` then says of every step of a process at the list of a poll that the list gets shorter, or
that the job in hand is further on, and that a job leaves the list by being begun, unless it is deleted or the process dies.

**DiscoveryScanProofs.** `EveryScanHasARow` compares counts and is not inductive: between the read and the write of
`complete_job` a row is still "running" although it is as good as used. `Balance` counts the rows that some call holds
(`HeldRows`) as well: scans under way, results not yet looked at and held rows are together no more than the running
rows, all three being finite, since they begin empty and a step changes each by at most one. A start adds a row and a scan, a
submission turns a scan into an unread result, a read turns an unread result into a held row (or shares one that is held
already, which only helps), a write takes the row and its holders away together. `HoldsItsOwn` keeps jobs apart. The theorem
needs no assumption on scanners, losses or crashes. `NoPhantomScansTheorem` is the converse for one scanner
without losses (`OnlyItsRow`): the one running row is the one its scan or its call is about.

**AccessReviewProofs.** `IInv` = `TypeOK`, `TablesOK` (finite tables, no item without its review), `LocalsOK`,
`CompletedFullyDecided`. The last is inductive because items of a review only go or get decided (`Grows`), so the
look of `complete_review` that found nothing undecided stays true until the mark is committed. Most steps are
`Quiet`: they change the status of a review and take items away at most; one lemma (`QuietStep`,
`QuietCounters`, `QuietApplied`) then leaves only the process's own locals to show. `ProgressNeverOverstatesTheorem`
adds that a review has no more items than it was created with, and that what a reviewer's transaction has
counted leaves room for all it does not decide (`PendingOK`): others decide meanwhile, which only makes more room.
`AppliedUnlessLateTheorem` adds `InHand`: a removal of a completed review that was decided in time is in the list of
some process that applies it, unless it went astray or a completion of that review died. A process that holds the lock on the
review's row has all of them (`HoldOK`), since a decision has to wait for the lock; and a removal leaves the list only with its item, or as one of `astray`,
because every item is about a row of its review's group that is there (`RowsOK`), so `remove_member` finds a row of the person. Neither this theorem nor the next
assumes that callers live or that members are distinct. `OnlyInFlightReopensTheorem` looks at who starts to hold a review.
`RescheduleTheorem`: a completed review of a group with reviews switched on has moved the group's next date
past the day it was created, or whoever completed it is still on the way, or a completion of it died. The mark is visible before the date is set, so the
invariant names the process in between (`Rescheduling`); it adds that reviews were not created in the future, hence the date
that `CompleteSchedule` sets is late enough whenever it comes.

**WebhookDeliveryProofs.** `IInv` = `TypeOK`, `LocalsOK`, `Backed`, `NoOrphans`. `LocalsOK` ties a worker at `post` or `record` to a
row that was inserted (and at `post` was there when the worker began); `Backed` says that a row that says
success, and a worker that is about to write it, stand on a delivery in `accepted`. From them
the step simulation: `Post` is `Accept` or a stutter, `DeliverInsert` is `Open`, `Record` is `ClaimSuccess` or `ClaimFailure` or a
stutter, `DeleteHook` is `Forget`, the rest stutters; `PromiseKept` is `Spec => Promise!Spec`. `EveryPostCountedTheorem`
counts workers: its cases move one worker into or out of the set of those that have posted and not recorded, whose
cardinality changes by one while `sent` or `attempts` does. It is the only theorem of the module that needs the set of
workers to be finite. `OpenUnderWayTheorem`: a delivery without an outcome has a worker on it or one that died;
`OutcomesStayTheorem`: an outcome is replaced, never taken back.

**ProjectSyncProofs.** `IInv` = types, `WatermarkOK`, `MappingsOK`, `RowsOK` and `LocalsOK`: a mapping names a row of its own
issue, a row shows a change of its own issue, and a process has in hand only changes that happened and a row that is theirs, for a configuration that is or was there; rows
and the log never shrink (`RowsStay`, `LogGrows`). That gives `TypeCorrect` and `NoMixupsTheorem`.
`LostOnlyInWindowTheorem` is about paging. The ranks of a list are 0, 1, 2, ... without a gap (`RanksHaveNoGap`: distinct numbers
below its length), so a page shows exactly its `PageSize` ranks and an empty page is the end of the list (`PageFacts`);
an issue that is opened or edited only moves others to higher ranks (`RankGrows`: an injection of those that were ahead into
those that are), so no change from before the run slips onto a page already read. `PagedAt` says this of a run at each place: what is
ranked before its page was dealt with or is in hand. `OneIssuePerRunTheorem` counts: an issue without a mapping has no more rows than there are
batches of the configuration about to map it, and rows left by faults and by earlier configurations (`Allowed`); each of the other batches may add
one. A configuration that goes leaves at most a row per batch to the account of those that follow. The bound needs a finite set of
batches. `PagesWithinLogTheorem` says how far a run can get: an earlier page was not empty when it was fetched, its ranks
are below the length of the log, and so page *n* is asked for only after *n* changes but one. `RunsAdvanceTheorem`: each step that
moves a run ends it, or takes it to a later page within that bound, to a later item, or further on with the item. Together they are a
measure that falls as long as the host is quiet.

**ResourceGraphProofs.** `IInv` = `TypeOK`, `LocalsOK`, `ChildrenCameLate`, `TwinsOverlapped`, `LossesExplained`, `LossesDated`. `Below` is defined by its
minimality; `BelowClosed` shows it is closed under children, and that is what keeps the
hierarchies whole when a cascade takes a set of rows. `LocalOK` says of a handler between its
read and its write that rows which contradict what it read are younger than the read (a
dependency's id is above `last`, a child is in `late`); ids come from a growing serial, so this
survives the steps of others. `LossesDated` links the record of a counted deletion to the serial. `CyclesStay`
needs no case analysis of the cascade beyond `BelowLeaf`: an organization without children takes only itself.

**Model-checked only.** The liveness properties: fairness and `ENABLED` are outside the prover's reach. For each of
them the part that is not about fairness is a theorem, so what rests on TLC alone is that enabled steps are taken:

| liveness | what is proved of it |
|---|---|
| `VoteDecides` | the vote is in somebody's hands (`VotesInHand`), and each step of a handler shortens its work (`HandlersEnd`) |
| `CompletionReschedules` | who completed is on the way, has set the date, or died (`RescheduleTheorem`) |
| `DeliveriesSettle` | an open delivery has its worker (`OpenUnderWayTheorem`), an outcome stays (`OutcomesStayTheorem`) |
| `DueJobsRun`, `ScansEnd` | who waits has a call (`WaitersHaveCallsTheorem`), and lists are worked off (`ListsWorkedOffTheorem`); that a scan has a row for its result is `EveryScanHasARowTheorem` |

Every other property of a passing run is a theorem.

## Where the code and its documentation disagree

- `group_owners_approve` / `OwnersApproved`: approvals are counted as rows
  (`service.py:687`), so one owner who approves twice stands for "All owners must approve" or for
  "N owners".
- `group_late_approval` / `NoApprovalAfterRefusal`: an approval under way when the request is denied
  approves it afterwards (`service.py:757`); the endpoint documents "400: Request not pending".
- `discovery_run_now` / `QueuedJobIsPickedUp`: `queue_job_for_worker` sets `next_run_at`, the worker polls by
  `last_run_at` (`executor.py:68`), so a job that has run before is not picked up "on its next cycle".
- `access_review_schedule` / `ReviewsAnIntervalApart`: a pass of the scheduler does not move the date it found
  due (`scheduler.py:86`), so a group gets one more review every hour until one is completed; the README speaks of
  quarterly and annual reviews.

Met while modelling, and visible in the modules, without a run of their own:

- `broadcast_event` promises to reach "all applicable webhooks and notification rules" (`webhooks/service.py:772`);
  its query, like those of the batch scheduler's health check (`batch_scheduler.py:278`) and the due SBOM
  schedules (`sbom_schedules.py:391`), compares with `is True` and selects nothing. `docs/SYNC.md:18` names batch polling as the
  "Fallback Method" when webhooks fail.
- A job is pending when it is "one-time and never run" (`discovery/service.py:1523`): `last_run_at` is set when a scan is
  announced (1573), and the scanner may give that call up (`scanner/main.py:202`) or die before it scans. The job has no result then and is not
  offered again. `DueJobsRun` makes the exception.
- "Retry a failed webhook delivery." (`webhooks/service.py:353`): neither the outcome of the delivery nor the state of the
  webhook is asked for, and a success may become a failure.
- A webhook's opened, edited and closed actions are refused by the client they are passed to
  (`github_client.py:641`).
- "400: Cannot delete entity with dependencies" (`entities.py:254`): not for the children a cascade takes, not over gRPC,
  and not when the dependency comes after the count.
- The docstring of the conflict resolver promises Elder's value on a tie (`conflict_resolver.py:217`), the code takes the external one (254).

## Assumptions about the environment

- *The schema.* The ORM models, the alembic revisions and the SQL migrations name some columns differently
  (for example `discovery_history.job_id` and `discovery_job_id`). The specifications take the tables to have the
  columns the services name, and inserts to succeed unless a foreign key forbids them.
- *Isolation.* A statement sees what is committed (READ COMMITTED): a read and a later write by id
  are separate steps; one commit is one step. The persistence library is external to the repository.
- *Time.* The statements of one transaction take the time moments apart (`last_run_at` and `started_at` of a run
  differ by microseconds); the clock of the specifications does not advance within a step, so orders are meant up to
  its unit, a polling interval.
- *Foreign keys.* `discovery_history` refers to `discovery_jobs`; inserting a row for a deleted job fails.
- *Replicas.* Reads go to the state last committed; lag of a read replica is not modelled.
- *Processes.* The deployment files ask for one worker and one scanner; a rolling update overlaps two, hence two scanners.
- *Access reviews.* The columns the service writes are taken to exist (its ORM model and alembic 011 differ, and the
  cascade from a membership to its items is alembic's). The endpoints read `g.user`, while the decorators set
  `g.current_user`; the module specifies the service's operations, whoever calls them. PostgreSQL's aborts of deadlocked
  transactions are left out.
- *Project sync.* Nothing in the repository puts the sync engine together, and its scheduler selects no configuration; the module takes one
  scheduler per process and configuration, as `add_batch_job` asks, and lets runs begin. The columns are those of
  `apps/api/models/discovery.py`. Its keys to `sync_configs` (87, 124) have no `ondelete`, so a deletion fails while mappings or history refer to the
  configuration; alembic 011 (379) creates the key with a cascade. `DeleteConfig` is the deletion that succeeds, with the cascade; where it fails nothing happens. The
  clocks of the worker and of the host are taken to agree.
- *Graph.* A `ValueError` in a bulk call leaves the handler and rolls back (`shared/database/__init__.py`). The gRPC servicer
  is taken to use the columns that exist.
- *Partial commits.* `StoreResults` is all or nothing: what it stores is not in the model.
- *Faults are finitely many* in the runs that check liveness; with infinitely many lost calls nothing need ever finish.

## Not modelled, and why

- *SBOM scans and schedules*: starting a scan reads an attribute that does not exist and raises, and the query for due
  schedules selects nothing, so the two-call protocol of the scanner never starts.
- *Retries and the teardown that commits*: the endpoints of `ResourceGraph` and of the sync configurations run in `run_in_threadpool`,
  which repeats a function when the connection is lost. The modules run it once; a creation that is repeated after a commit is in them
  as a second call. The layer itself is a few lines whose effect depends on the handler.
- *Conflict resolution, pushes to a host, the other platforms*: no caller in the repository.
- *Parsers, scanner plug-ins, vault, cloud and directory adapters, single sign-on, SCIM, alerting, costs*: I/O and text formats;
  their outcome (a success or a failure) is in the modules that call them.
- *CRUD on single rows* (issues, projects, software, services, tenants, users, API keys, and the like): an operation is one
  statement on one row, and there is nothing between its steps.
- *Search, lookup, audit, web interface, deployment, migrations*: no state that another part reads, or no behaviour.

`PROJECT.json` gives the reason for each component.

## Plan

What is left, in this order:

1. The rows that a discovery run stores (`apps/worker/discovery/service.py`, from line 511): look-then-insert without
   a key, so overlapping runs store a resource twice.
2. On-call calculation and IPAM overlap checks as operators; backup jobs and login lockout.
