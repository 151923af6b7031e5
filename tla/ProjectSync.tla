---------------------------- MODULE ProjectSync ----------------------------
(***************************************************************************)
(* Issues of a code host pulled into Elder: apps/worker/sync, with the     *)
(* GitHub client as the platform.                                          *)
(*                                                                         *)
(* A batch run lists the issues changed since the watermark of its         *)
(* configuration, page by page, and writes each into the Elder issue that  *)
(* a mapping names, or into a new one.  Webhooks carry single changes to   *)
(* the same rows.  job[p] holds the local variables of a batch run or a    *)
(* webhook handler; a step is a commit, an HTTP request or a read used     *)
(* later.                                                                  *)
(*                                                                         *)
(* Outside: log is what happened on the host, in order.  An instant is a   *)
(* position in it, and the content of an issue is the instant it was last  *)
(* changed.  Pushes to the host, conflict resolution, the other resource   *)
(* types (which the client answers with success and does not synchronize)  *)
(* and the rows of sync_history are left out.                              *)
(***************************************************************************)
EXTENDS Naturals, Sequences, FiniteSets

CONSTANTS
    Batches,        \* batch schedulers, one per process that runs one
    Hooks,          \* threads that handle webhooks
    PageSize,       \* issues on a page of the host's answer
    Actions,        \* what happens to an issue that exists
    MaxIssues,      \* bound: issues opened on the host
    MaxConfigs,     \* bound: configurations created, the first one included
    MaxChanges,     \* bound: length of the log
    MaxFaults       \* bound: failed requests, failed commits and dead processes

Opened == "opened"
Deleted == "deleted"
\* The actions that handle_webhook takes for types of operation.
Untranslated == {"opened", "edited", "closed"}

Processes == Batches \union Hooks
Numbers == 1..MaxIssues
Instants == 1..MaxChanges
Places == {"idle", "fetch", "lookup", "create", "map", "update", "finish"}

Change == [issue: Numbers, action: Actions \union {Opened, Deleted}]

\* id: the id handed out last; live: its row is there; creates: two_way_create is set
\* and an organization is named; since: last_sync_at, 0 when it is NULL.
Config == [id: Nat, live: BOOLEAN, creates: BOOLEAN, since: Nat]

\* of: the issue of the host the row was made from; Elder does not store it.
IssueRow == [of: Numbers, content: Instants]
Mapping == [elder: Nat, external: Numbers]

\* config: the id its client was made with; todo: what is left of a page, each issue
\* as the change it shows; partial: the run broke off, or its pages moved under it.
Job ==
    [pc: Places, config: Nat, since: Nat, began: Nat, page: Nat, todo: Seq(Instants), elder: Nat,
     partial: BOOLEAN]

ASSUME ConstantsAssumption ==
    /\ Batches \intersect Hooks = {}
    /\ IsFiniteSet(Batches)
    /\ PageSize \in Nat \ {0}
    /\ Opened \notin Actions /\ Deleted \notin Actions
    /\ MaxIssues \in Nat /\ MaxConfigs \in Nat /\ MaxChanges \in Nat
    /\ MaxFaults \in Nat

VARIABLES
    log,            \* what happened on the host
    config,         \* the row of sync_configs; one at a time
    issues,         \* Elder's issues, in order of id
    mappings,       \* sync_mappings
    job,            \* the processes
    handled,        \* history: changes written, skipped or rejected for config
    missed,         \* history: changes a run moved its watermark past unseen
    faults          \* for MaxFaults

vars == <<log, config, issues, mappings, job, handled, missed, faults>>
tables == <<config, issues, mappings>>
history == <<handled, missed>>

Idle ==
    [pc |-> "idle", config |-> 0, since |-> 0, began |-> 0, page |-> 0, todo |-> <<>>,
     elder |-> 0, partial |-> FALSE]

Init ==
    /\ log = <<>>
    /\ config \in [id: {1}, live: {TRUE}, creates: BOOLEAN, since: {0}]
    /\ issues = <<>>
    /\ mappings = {}
    /\ job = [p \in Processes |-> Idle]
    /\ handled = {}
    /\ missed = {}
    /\ faults = 0

-----------------------------------------------------------------------------
(***************************************************************************)
(* The host                                                                *)
(***************************************************************************)
Now == Len(log)
ChangesOf(i) == {c \in DOMAIN log : log[c].issue = i}
IsLatest(c) == \A d \in DOMAIN log : d > c => log[d].issue # log[c].issue

\* The issues of GET .../issues?state=all&since=..., as the changes they show.
List(since) ==
    {c \in DOMAIN log : IsLatest(c) /\ log[c].action # Deleted /\ c > since}

\* Newest issues first: how many are listed before that of change c.
Rank(list, c) == Cardinality({d \in list : log[d].issue > log[c].issue})

\* Slip: pages are counted in larger steps than they have items.
Page_slip(since, n) ==
    LET list == List(since)
        from == (n - 1) * (PageSize + 1)
        page == {c \in list : Rank(list, c) >= from /\ Rank(list, c) < from + PageSize}
    IN  [k \in 1..Cardinality(page) |->
            CHOOSE c \in page : Rank(list, c) = from + k - 1]

\* The n-th page of the list as it is now.
Page(since, n) ==
    LET list == List(since)
        from == (n - 1) * PageSize
        page == {c \in list : Rank(list, c) >= from /\ Rank(list, c) < from + PageSize}
    IN  [k \in 1..Cardinality(page) |->
            CHOOSE c \in page : Rank(list, c) = from + k - 1]

Open ==
    /\ Now < MaxChanges
    /\ \E i \in Numbers :
          /\ ChangesOf(i) = {}
          /\ \A j \in 1..(i - 1) : ChangesOf(j) # {}
          /\ log' = Append(log, [issue |-> i, action |-> Opened])
    /\ UNCHANGED <<tables, job, history, faults>>

Edit ==
    /\ Now < MaxChanges
    /\ \E c \in List(0), a \in Actions :
          log' = Append(log, [issue |-> log[c].issue, action |-> a])
    /\ UNCHANGED <<tables, job, history, faults>>

\* The pages after it move up under the runs that are reading them.
Delete ==
    /\ Now < MaxChanges
    /\ \E c \in List(0) :
          log' = Append(log, [issue |-> log[c].issue, action |-> Deleted])
    /\ job' = [p \in Processes |->
                  IF p \in Hooks \/ job[p].pc \in {"idle", "finish"} THEN job[p]
                  ELSE [job[p] EXCEPT !.partial = TRUE]]
    /\ UNCHANGED <<tables, history, faults>>

-----------------------------------------------------------------------------
(***************************************************************************)
(* create_sync_config, update_sync_config and delete_sync_config.  In a    *)
(* migrated database the mappings of a configuration go with it (ON DELETE *)
(* CASCADE, alembic 011); the keys of models/discovery.py have no such     *)
(* clause and refuse the deletion while a row refers to it, which is this  *)
(* step not being taken.  The issues stay in both.                         *)
(***************************************************************************)
CreateConfig ==
    /\ ~config.live
    /\ config.id < MaxConfigs
    /\ config' \in [id: {config.id + 1}, live: {TRUE}, creates: BOOLEAN, since: {0}]
    /\ handled' = {} /\ missed' = {}
    /\ UNCHANGED <<log, issues, mappings, job, faults>>

UpdateConfig ==
    /\ config.live
    /\ \E on \in BOOLEAN : config' = [config EXCEPT !.creates = on]
    /\ UNCHANGED <<log, issues, mappings, job, history, faults>>

DeleteConfig ==
    /\ config.live
    /\ config' = [id |-> config.id, live |-> FALSE, creates |-> FALSE, since |-> 0]
    /\ mappings' = {}
    /\ UNCHANGED <<log, issues, job, history, faults>>

-----------------------------------------------------------------------------
At(p, place) == job[p].pc = place /\ UNCHANGED log
Goto(p, place) == job' = [job EXCEPT ![p].pc = place]
Content(p) == Head(job[p].todo)
Issue(p) == log[Content(p)].issue

\* The configuration p works for is there.
Mine(p) == config.live /\ job[p].config = config.id

\* Slip: the number of the page stays when the page is worked off.
Rest_slip(p) ==
    LET todo == Tail(job[p].todo)
    IN  IF p \in Hooks THEN job' = [job EXCEPT ![p] = Idle]
        ELSE job' = [job EXCEPT ![p] =
                [job[p] EXCEPT !.todo = todo, !.elder = 0,
                               !.pc = IF todo = <<>> THEN "fetch" ELSE "lookup"]]

\* The next issue of the page, or the next page; a webhook has one issue.
Rest(p) ==
    LET todo == Tail(job[p].todo)
    IN  IF p \in Hooks THEN job' = [job EXCEPT ![p] = Idle]
        ELSE job' = [job EXCEPT ![p] =
                [job[p] EXCEPT !.todo = todo, !.elder = 0,
                               !.pc = IF todo = <<>> THEN "fetch" ELSE "lookup",
                               !.page = IF todo = <<>> THEN job[p].page + 1
                                        ELSE job[p].page]]

Deal(p) == handled' = IF Mine(p) THEN handled \union {Content(p)} ELSE handled

\* _run_batch_sync up to the first request, for a configuration that was there when
\* the process started: the watermark is read, or nothing is when it has gone.
BatchBegin(b) ==
    /\ At(b, "idle")
    /\ \E id \in 1..config.id :
          job' = [job EXCEPT ![b] =
              [Idle EXCEPT !.pc = "fetch", !.config = id, !.page = 1, !.began = Now,
                           !.since = IF id = config.id THEN config.since ELSE 0]]
    /\ UNCHANGED <<tables, history, faults>>

Fetch(b) ==
    LET page == Page(job[b].since, job[b].page)
    IN  /\ At(b, "fetch")
        /\ job' = [job EXCEPT ![b] =
              [job[b] EXCEPT !.todo = page,
                             !.pc = IF page = <<>> THEN "finish" ELSE "lookup"]]
        /\ UNCHANGED <<tables, history, faults>>

\* The rows get_mapping chooses from; no key keeps them to one.
MappingsOf(i) == {m \in mappings : m.external = i}
Found(b) == {m \in MappingsOf(Issue(b)) : Mine(b)}

\* Slip: the mapping is looked up without the id of the issue.
Lookup_slip(b) ==
    /\ At(b, "lookup")
    /\ \/ /\ mappings = {}
          /\ Goto(b, "create")
       \/ \E m \in mappings :
             job' = [job EXCEPT ![b] = [job[b] EXCEPT !.pc = "update",
                                                      !.elder = m.elder]]
    /\ UNCHANGED <<tables, history, faults>>

Lookup(b) ==
    /\ At(b, "lookup")
    /\ \/ /\ Found(b) = {}
          /\ Goto(b, "create")
       \/ \E m \in Found(b) :
             job' = [job EXCEPT ![b] = [job[b] EXCEPT !.pc = "update",
                                                      !.elder = m.elder]]
    /\ UNCHANGED <<tables, history, faults>>

\* Slip: a new issue is stored without what it says.
Create_slip(b) ==
    /\ At(b, "create")
    /\ \/ /\ Mine(b) /\ config.creates
          /\ issues' = Append(issues, [of |-> Issue(b), content |-> 0])
          /\ job' = [job EXCEPT ![b] = [job[b] EXCEPT !.pc = "map",
                                                      !.elder = Len(issues) + 1]]
          /\ UNCHANGED handled
       \/ /\ ~(Mine(b) /\ config.creates)
          /\ Deal(b)
          /\ Rest(b)
          /\ UNCHANGED issues
    /\ UNCHANGED <<config, mappings, missed, faults>>

\* _sync_issue_from_github, "create": skipped without two-way creation, rejected
\* without an organization, and otherwise a commit of its own.
Create(b) ==
    /\ At(b, "create")
    /\ \/ /\ Mine(b) /\ config.creates
          /\ issues' = Append(issues, [of |-> Issue(b), content |-> Content(b)])
          /\ job' = [job EXCEPT ![b] = [job[b] EXCEPT !.pc = "map",
                                                      !.elder = Len(issues) + 1]]
          /\ UNCHANGED handled
       \/ /\ ~(Mine(b) /\ config.creates)
          /\ Deal(b)
          /\ Rest(b)
          /\ UNCHANGED issues
    /\ UNCHANGED <<config, mappings, missed, faults>>

\* Slip: the mapping is forgotten.
MapIssue_slip(b) ==
    /\ At(b, "map")
    /\ Mine(b)
    /\ Deal(b)
    /\ Rest(b)
    /\ UNCHANGED <<tables, missed, faults>>

\* create_mapping; a configuration deleted meanwhile makes it fail.
MapIssue(b) ==
    /\ At(b, "map")
    /\ \/ /\ Mine(b)
          /\ mappings' = mappings \union
                {[elder |-> job[b].elder, external |-> Issue(b)]}
          /\ Deal(b)
          /\ Rest(b)
       \/ /\ ~Mine(b)
          /\ job' = [job EXCEPT ![b] = [job[b] EXCEPT !.pc = "finish", !.partial = TRUE]]
          /\ UNCHANGED <<mappings, handled>>
    /\ UNCHANGED <<config, issues, missed, faults>>

\* _sync_issue_from_github, "update": what Elder has is overwritten.
Update(p) ==
    /\ At(p, "update")
    /\ issues' = [issues EXCEPT ![job[p].elder].content = Content(p)]
    /\ Deal(p)
    /\ Rest(p)
    /\ UNCHANGED <<config, mappings, missed, faults>>

\* The changes a run may not have seen: those made while it was under way, and all
\* it was about when it broke off or its pages moved.
Unseen(b) ==
    {c \in DOMAIN log :
        c > IF job[b].partial THEN job[b].since ELSE job[b].began}

\* The watermark is the end of the run, whatever became of its pages.
Finish(b) ==
    /\ At(b, "finish")
    /\ config' = IF Mine(b) THEN [config EXCEPT !.since = Now] ELSE config
    /\ missed' = IF Mine(b) THEN missed \union Unseen(b) ELSE missed
    /\ job' = [job EXCEPT ![b] = Idle]
    /\ UNCHANGED <<issues, mappings, handled, faults>>

Fault ==
    /\ faults < MaxFaults
    /\ faults' = faults + 1
    /\ UNCHANGED <<log, tables, history>>

\* An answer other than 200 or an exception: the loop over the pages ends, and
\* the run is not told of it.
Break(b) ==
    /\ job[b].pc \in {"fetch", "lookup", "create", "map", "update"}
    /\ job' = [job EXCEPT ![b] = [job[b] EXCEPT !.pc = "finish", !.partial = TRUE]]
    /\ Fault

\* A handler that dies is a webhook that was not sent.
Crash(b) ==
    /\ job[b].pc # "idle"
    /\ job' = [job EXCEPT ![b] = Idle]
    /\ Fault

(***************************************************************************)
(* A webhook for the change at instant c, which may be late, lost, out of  *)
(* order or repeated.  Most actions are passed on as the type of operation,*)
(* which is none the client knows; of the others, those with a mapping are *)
(* updates.                                                                *)
(***************************************************************************)
HookCall(h) ==
    \E c \in DOMAIN log :
        /\ At(h, "idle")
        /\ log[c].action \notin Untranslated
        /\ \E m \in MappingsOf(log[c].issue) :
              job' = [job EXCEPT ![h] =
                 [Idle EXCEPT !.pc = "update", !.config = config.id,
                              !.elder = m.elder, !.todo = <<c>>]]
        /\ UNCHANGED <<tables, history, faults>>

BatchStep(b) ==
    \/ Fetch(b) \/ Lookup(b) \/ Create(b) \/ MapIssue(b) \/ Update(b) \/ Finish(b)

Next ==
    \/ Open \/ Edit \/ Delete
    \/ CreateConfig \/ UpdateConfig \/ DeleteConfig
    \/ \E b \in Batches : BatchBegin(b) \/ BatchStep(b) \/ Break(b) \/ Crash(b)
    \/ \E h \in Hooks : HookCall(h) \/ Update(h)

Spec == Init /\ [][Next]_vars

-----------------------------------------------------------------------------
(***************************************************************************)
(* Properties                                                              *)
(***************************************************************************)

\* Every table, every process's locals and the history have their type.
TypeOK ==
    /\ log \in Seq(Change)
    /\ config \in Config
    /\ issues \in Seq(IssueRow)
    /\ mappings \subseteq Mapping
    /\ job \in [Processes -> Job]
    /\ handled \union missed \subseteq Instants
    /\ faults \in Nat

\* What the watermark has passed, no later batch looks at; so a change that is
\* behind it and was not dealt with is lost.  That happens to the changes made
\* during a run and to those of a run that broke off, and to no others.
LostOnlyInWindow ==
    \A c \in List(0) : c <= config.since => c \in handled \union missed

\* An issue of the host becomes two issues of Elder only when batch runs overlap,
\* when a process dies or a commit fails between the issue and its mapping, or when
\* its configuration, and the mapping with it, was deleted and created again.
OneIssuePerRun ==
    \A i \in Numbers :
        Cardinality({k \in DOMAIN issues : issues[k].of = i})
            <= Cardinality(Batches) * config.id + faults

\* Nothing of one issue is written into the row of another, through whatever
\* mappings, pages and late webhooks it got there.
NoMixups ==
    \A k \in DOMAIN issues : log[issues[k].content].issue = issues[k].of

\* The run is where it was, though it may have become partial.
KeepsPlace(p) ==
    /\ job'[p].pc = job[p].pc /\ job'[p].todo = job[p].todo /\ job'[p].elder = job[p].elder
    /\ job'[p].since = job[p].since /\ job'[p].began = job[p].began
    /\ job'[p].page = job[p].page /\ job'[p].config = job[p].config

OnItem == {"lookup", "create", "map", "update"}

\* The commits that an item still has in front of it.
Turn(place) ==
    IF place = "lookup" THEN 3 ELSE IF place \in {"create", "update"} THEN 2 ELSE 1

\* Batch b is closer to the end of its run: there, or at a later page, which is no
\* further than there are changes, or on the page it fetched, or at a later item of
\* it, or further on with the same item.
Closer(b) ==
    \/ job'[b].pc = "idle"
    \/ job[b].pc # "finish" /\ job'[b].pc = "finish"
    \/ /\ job[b].pc # "finish" /\ job'[b].pc = "fetch"
       /\ job'[b].page > job[b].page /\ job'[b].page <= Now + 1
    \/ job[b].pc = "fetch" /\ job'[b].pc \in OnItem /\ job'[b].page = job[b].page
    \/ /\ job[b].pc \in OnItem /\ job'[b].pc \in OnItem /\ job'[b].page = job[b].page
       /\ Len(job'[b].todo) < Len(job[b].todo)
    \/ /\ job[b].pc \in OnItem /\ job'[b].pc \in OnItem /\ job'[b].page = job[b].page
       /\ job'[b].todo = job[b].todo /\ Turn(job'[b].pc) < Turn(job[b].pc)

\* The loop over pages that move under it ends: whatever a step does to a run, it
\* leaves it where it was or brings it closer to its end, and no page is further than
\* the host has had changes.
RunsAdvance ==
    [][\A b \in Batches : job[b].pc = "idle" \/ KeepsPlace(b) \/ Closer(b)]_vars
=============================================================================
