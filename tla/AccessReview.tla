---------------------------- MODULE AccessReview ----------------------------
(***************************************************************************)
(* Periodic reviews of group memberships: apps/api/services/access_review  *)
(* with its scheduler thread, composed with the members of the groups.     *)
(*                                                                         *)
(* A review holds one item per member.  Reviewers decide items, somebody   *)
(* completes the review, and completing it applies the decisions and sets  *)
(* the date of the next one.  job[p] holds the local variables of a process*)
(* (an API request or a scheduler thread) and the place it has reached; a  *)
(* step is a transaction or a read whose result is used later.             *)
(*                                                                         *)
(* A transaction of complete_review stays open over several reads, so what *)
(* it has written and not committed is kept in the job: open means that the*)
(* row of the review is locked, staged holds the extensions written so far.*)
(* PostgreSQL's aborts of deadlocked transactions are left out, and so are *)
(* the assignments of reviewers and the audit rows: nothing here reads     *)
(* them.                                                                   *)
(***************************************************************************)
EXTENDS Naturals, Sequences, FiniteSets

CONSTANTS
    Identities,     \* people
    Groups,         \* identity_groups rows
    None,           \* NULL
    Callers,        \* API workers
    Schedulers,     \* scheduler threads, one per API process
    Ops,            \* the operations a run exercises, a subset of AllOps
    InitGroups,     \* the group tables a behaviour may start from
    InitMembers,    \* the members it may start with, as sequences of
                    \* <<group, identity>> pairs
    Expiries,       \* values of new_expiration that reviewers send
    DueDays,        \* review_due_days
    IntervalDays,   \* review_interval_days
    Mortal,         \* the processes that may die between two of their steps
    MaxCalls,       \* bound: API operations begun in a behaviour
    MaxReviews,     \* bound: reviews created in a behaviour
    MaxMembers,     \* bound: memberships created in a behaviour
    MaxClock        \* bound: days that pass in a behaviour

AllOps == {"create", "decide", "complete", "add", "remove", "schedule", "overdue"}
Decisions == {"keep", "remove", "extend"}
Statuses == {"scheduled", "in_progress", "completed", "overdue"}
Processes == Callers \union Schedulers

\* Places of a completion after its update of the status.
Applying == {"complete_apply", "complete_delete"}
Ending == Applying \union {"complete_schedule"}

GroupRow == [enabled: BOOLEAN, auto: BOOLEAN, next: Nat \union {None}]

MemberRow ==
    [id: Nat, group: Groups, identity: Identities, expires: Nat \union {None}]

\* total, reviewed, kept and removed are the counters shown to the reviewers.
ReviewRow ==
    [group: Groups, status: Statuses, auto: BOOLEAN, created: Nat, due: Nat,
     total: Nat, reviewed: Nat, kept: Nat, removed: Nat]

\* late is no column but remembers that the decision was committed on a review that
\* was completed already.  (reviewed_at is stamped before that commit and may be
\* earlier than completed_at.)
ItemRow ==
    [review: Nat, membership: Nat, identity: Identities,
     decision: Decisions \union {None}, expires: Nat \union {None}, late: BOOLEAN]

Places == {"idle", "create_insert", "create_open", "decide_count", "decide_commit",
           "complete_mark", "complete_apply", "complete_delete", "complete_schedule",
           "add_insert", "remove_delete", "overdue_write"}

\* counts holds what _update_review_progress counted, todo the items still to
\* apply, taken the one whose member is being removed, groups the groups a pass still
\* has to review, lapsed its overdue reviews, people the person to add.
Job ==
    [pc: Places, review: Nat, member: Nat, decision: Decisions \union {None},
     expires: Nat \union {None}, counts: [reviewed: Nat, kept: Nat, removed: Nat],
     todo: SUBSET ItemRow, taken: SUBSET ItemRow, staged: SUBSET ItemRow,
     open: BOOLEAN, people: SUBSET Identities, groups: SUBSET Groups,
     auto: BOOLEAN, due: Nat, lapsed: SUBSET Nat]

ASSUME ConstantsAssumption ==
    /\ None \notin Nat /\ None \notin Decisions
    /\ Ops \subseteq AllOps
    /\ InitGroups \subseteq [Groups -> GroupRow]
    /\ InitMembers \subseteq Seq(Groups \X Identities)
    /\ Expiries \subseteq Nat
    /\ DueDays \in Nat /\ IntervalDays \in Nat \ {0}
    /\ Mortal \subseteq Processes
    /\ MaxCalls \in Nat /\ MaxReviews \in Nat
    /\ MaxMembers \in Nat /\ MaxClock \in Nat

VARIABLES
    groups,         \* the review columns of identity_groups
    members,        \* identity_group_memberships
    lastId,         \* the serial of identity_group_memberships
    reviews,        \* access_reviews, in order of id
    items,          \* access_review_items
    job,            \* the processes
    clock,          \* days passed
    calls,          \* API operations begun, for MaxCalls
    astray,         \* history: removals that took another row of the person
    abandoned       \* history: reviews whose completion died after its first commit

history == <<astray, abandoned>>
vars == <<groups, members, lastId, reviews, items, job, clock, calls, astray, abandoned>>
tables == <<groups, members, lastId, reviews, items>>

Idle ==
    [pc |-> "idle", review |-> 0, member |-> 0, decision |-> None, expires |-> None,
     counts |-> [reviewed |-> 0, kept |-> 0, removed |-> 0],
     todo |-> {}, taken |-> {}, staged |-> {}, open |-> FALSE, people |-> {},
     groups |-> {}, auto |-> FALSE, due |-> 0, lapsed |-> {}]

Init ==
    /\ groups \in InitGroups
    /\ \E start \in InitMembers :
          /\ members = {[id |-> k, group |-> start[k][1], identity |-> start[k][2],
                         expires |-> None] : k \in DOMAIN start}
          /\ lastId = Len(start)
    /\ reviews = <<>>
    /\ items = {}
    /\ job = [p \in Processes |-> Idle]
    /\ clock = 0
    /\ calls = 0
    /\ astray = {} /\ abandoned = {}

-----------------------------------------------------------------------------
MembersOf(g) == {m \in members : m.group = g}
ItemsOf(r) == {i \in items : i.review = r}
Decided(its, d) == {i \in its : i.decision = d}
Undecided(r) == Decided(ItemsOf(r), None)

\* The row lock of an UPDATE that its transaction has not committed.
Locked(r) == \E p \in Processes : job[p].open /\ job[p].review = r

Here(p, place) == job[p].pc = place /\ UNCHANGED <<clock, calls>>
At(p, place) == Here(p, place) /\ UNCHANGED history
Goto(p, place) == job' = [job EXCEPT ![p].pc = place]
Finish(p) == job' = [job EXCEPT ![p] = Idle]

Begin(p, op, j) ==
    /\ op \in Ops
    /\ job[p].pc = "idle"
    /\ IF p \in Callers THEN calls < MaxCalls /\ calls' = calls + 1
                         ELSE UNCHANGED calls
    /\ job' = [job EXCEPT ![p] = j]
    /\ UNCHANGED <<clock, history>>

(***************************************************************************)
(* create_review, called by an administrator or for every due group of a   *)
(* scheduler pass.  _assign_reviewers commits the review as scheduled; the *)
(* second transaction opens it whatever became of it in between.           *)
(***************************************************************************)
CreateCall(p) ==
    \E g \in Groups, due \in {clock, clock + DueDays}, auto \in BOOLEAN :
        /\ Begin(p, "create", [Idle EXCEPT !.pc = "create_insert", !.groups = {g},
                                           !.due = due, !.auto = auto])
        /\ UNCHANGED tables

DueGroups ==
    {g \in Groups : groups[g].enabled /\ groups[g].next # None /\ groups[g].next <= clock}

SchedulePass(p) ==
    /\ DueGroups # {}
    /\ Begin(p, "schedule", [Idle EXCEPT !.pc = "create_insert", !.groups = DueGroups,
                                         !.due = clock + DueDays])
    /\ UNCHANGED tables

\* The next group of the pass, or the end of it.
CreateNext(p) ==
    IF job[p].groups = {} THEN Finish(p)
    ELSE job' = [job EXCEPT ![p].pc = "create_insert"]

\* An administrator chooses auto_apply, the scheduler takes the group's setting.
CreateInsert(p) ==
    /\ At(p, "create_insert")
    /\ Len(reviews) < MaxReviews
    /\ \E g \in job[p].groups :
          LET r == Len(reviews) + 1
              auto == IF p \in Schedulers THEN groups[g].auto ELSE job[p].auto
          IN  /\ reviews' = Append(reviews,
                    [group |-> g, status |-> "scheduled", auto |-> auto,
                     created |-> clock, due |-> job[p].due,
                     total |-> Cardinality(MembersOf(g)),
                     reviewed |-> 0, kept |-> 0, removed |-> 0])
              /\ items' = items \union
                    {[review |-> r, membership |-> m.id, identity |-> m.identity,
                      decision |-> None, expires |-> None, late |-> FALSE]
                          : m \in MembersOf(g)}
              /\ job' = [job EXCEPT ![p] =
                    [job[p] EXCEPT !.pc = "create_open", !.review = r,
                                   !.groups = @ \ {g}]]
    /\ UNCHANGED <<groups, members, lastId>>

\* Slip: the status is spelt as it is shown.
CreateOpen_slip(p) ==
    LET r == job[p].review
    IN  /\ At(p, "create_open")
        /\ ~Locked(r) /\ reviews' = [reviews EXCEPT ![r].status = "in progress"]
        /\ CreateNext(p)
        /\ UNCHANGED <<groups, members, lastId, items>>

CreateOpen(p) ==
    LET r == job[p].review
    IN  /\ At(p, "create_open")
        /\ IF reviews[r].total > 0
           THEN ~Locked(r) /\ reviews' = [reviews EXCEPT ![r].status = "in_progress"]
           ELSE UNCHANGED reviews
        /\ CreateNext(p)
        /\ UNCHANGED <<groups, members, lastId, items>>

(***************************************************************************)
(* submit_review_decision: the decision and the counters are committed     *)
(* together, but the counters were counted before other reviewers' commits.*)
(* The status of the review is not looked at.                              *)
(***************************************************************************)
DecideFind(p) ==
    \E i \in items, d \in Decisions, e \in Expiries \union {None} :
        /\ (d = "extend") = (e # None)
        /\ Begin(p, "decide", [Idle EXCEPT !.pc = "decide_count", !.review = i.review,
                       !.member = i.membership, !.decision = d, !.expires = e])
        /\ UNCHANGED tables

\* Item i as the transaction of p sees it.
Own(p, i) == i.review = job[p].review /\ i.membership = job[p].member
View(p) ==
    {IF Own(p, i) THEN [i EXCEPT !.decision = job[p].decision] ELSE i
        : i \in ItemsOf(job[p].review)}

\* Slip: the counter is incremented instead of counted.
Progress_slip(p) ==
    [reviewed |-> reviews[job[p].review].reviewed + 1,
     kept |-> Cardinality(Decided(View(p), "keep")),
     removed |-> Cardinality(Decided(View(p), "remove"))]

Progress(p) ==
    [reviewed |-> Cardinality({i \in View(p) : i.decision # None}),
     kept |-> Cardinality(Decided(View(p), "keep")),
     removed |-> Cardinality(Decided(View(p), "remove"))]

\* The update of the item waits for another transaction's update of it.
DecideCount(p) ==
    /\ At(p, "decide_count")
    /\ \A q \in Processes \ {p} :
          ~(/\ job[q].pc = "decide_commit"
            /\ job[q].review = job[p].review /\ job[q].member = job[p].member)
    /\ job' = [job EXCEPT ![p] = [job[p] EXCEPT !.pc = "decide_commit",
                                                !.counts = Progress(p)]]
    /\ UNCHANGED tables

DecideCommit(p) ==
    LET r == job[p].review
    IN  /\ At(p, "decide_commit")
        /\ ~Locked(r)
        /\ items' = {IF Own(p, i)
                     THEN [i EXCEPT !.decision = job[p].decision,
                                    !.expires = job[p].expires,
                                    !.late = reviews[r].status = "completed"]
                     ELSE i : i \in items}
        /\ reviews' = [reviews EXCEPT ![r] =
              [@ EXCEPT !.reviewed = job[p].counts.reviewed,
                        !.kept = job[p].counts.kept,
                        !.removed = job[p].counts.removed]]
        /\ Finish(p)
        /\ UNCHANGED <<groups, members, lastId>>

(***************************************************************************)
(* complete_review with apply_review_decisions and schedule_next_review    *)
(***************************************************************************)
\* What there is to apply in the items of r.
Effects(r) == {i \in ItemsOf(r) : i.decision \in {"remove", "extend"}}

\* Slip: nobody asks whether every item was decided.
CompleteRead_slip(p) ==
    \E r \in DOMAIN reviews :
        /\ reviews[r].status # "completed"
        /\ Begin(p, "complete", [Idle EXCEPT !.pc = "complete_mark", !.review = r])
        /\ UNCHANGED tables

CompleteRead(p) ==
    \E r \in DOMAIN reviews :
        /\ reviews[r].status # "completed"
        /\ Undecided(r) = {}
        /\ Begin(p, "complete", [Idle EXCEPT !.pc = "complete_mark", !.review = r])
        /\ UNCHANGED tables

\* Slip: nothing to apply when the counter shows no removals.
CompleteMark_slip(p) ==
    LET r == job[p].review
        apply == reviews[r].auto /\ reviews[r].removed > 0
    IN  /\ At(p, "complete_mark")
        /\ ~Locked(r)
        /\ job' = [job EXCEPT ![p] =
              [job[p] EXCEPT !.pc = IF apply THEN "complete_apply"
                                                  ELSE "complete_schedule",
                             !.open = TRUE,
                             !.todo = IF apply THEN Effects(r) ELSE {}]]
        /\ UNCHANGED tables

\* The update of the status, not committed, and the items as they are then.
CompleteMark(p) ==
    LET r == job[p].review
    IN  /\ At(p, "complete_mark")
        /\ ~Locked(r)
        /\ job' = [job EXCEPT ![p] =
              [job[p] EXCEPT !.pc = IF reviews[r].auto THEN "complete_apply"
                                                       ELSE "complete_schedule",
                             !.open = TRUE,
                             !.todo = IF reviews[r].auto THEN Effects(r) ELSE {}]]
        /\ UNCHANGED tables

\* COMMIT: the status becomes visible, and so do the extensions written so far
\* for memberships that are still there.
Extended(p, ms) ==
    {IF \E i \in job[p].staged : i.membership = m.id
     THEN [m EXCEPT !.expires =
               (CHOOSE i \in job[p].staged : i.membership = m.id).expires]
     ELSE m : m \in ms}

Marked(p) ==
    IF job[p].open THEN [reviews EXCEPT ![job[p].review].status = "completed"]
    ELSE reviews

\* remove_member looks for a row of the person in the group, the first it is given.
ApplyFind(p) ==
    /\ At(p, "complete_apply")
    /\ \E i \in Decided(job[p].todo, "remove") :
          LET found == {m \in members : /\ m.group = reviews[job[p].review].group
                                        /\ m.identity = i.identity}
          IN  \/ /\ found = {}
                 /\ job' = [job EXCEPT ![p].todo = @ \ {i}]
              \/ \E m \in found :
                    job' = [job EXCEPT ![p] = [job[p] EXCEPT !.pc = "complete_delete",
                                                             !.taken = {i},
                                                             !.member = m.id]]
    /\ UNCHANGED tables

\* It deletes that row and commits, and with it everything this transaction has
\* written.  The items of a membership go with its row (ON DELETE CASCADE).
ApplyDelete(p) ==
    /\ Here(p, "complete_delete")
    /\ members' = Extended(p, {m \in members : m.id # job[p].member})
    /\ items' = {i \in items : i.membership # job[p].member}
    /\ reviews' = Marked(p)
    /\ job' = [job EXCEPT ![p] = [job[p] EXCEPT !.pc = "complete_apply",
                                                !.todo = @ \ job[p].taken, !.taken = {},
                                                !.staged = {}, !.open = FALSE]]
    /\ astray' = astray \union
          {[review |-> job[p].review, membership |-> i.membership]
              : i \in {i \in job[p].taken : i.membership # job[p].member}}
    /\ UNCHANGED <<groups, lastId, abandoned>>

ApplyExtend(p) ==
    /\ At(p, "complete_apply")
    /\ \E i \in Decided(job[p].todo, "extend") :
          job' = [job EXCEPT ![p] =
              [job[p] EXCEPT !.todo = @ \ {i},
                             !.staged = IF \E m \in members : m.id = i.membership
                                        THEN @ \union {i} ELSE @]]
    /\ UNCHANGED tables

ApplyCommit(p) ==
    /\ At(p, "complete_apply")
    /\ job[p].todo = {}
    /\ members' = Extended(p, members)
    /\ reviews' = Marked(p)
    /\ job' = [job EXCEPT ![p] = [job[p] EXCEPT !.pc = "complete_schedule",
                                                !.staged = {}, !.open = FALSE]]
    /\ UNCHANGED <<groups, lastId, items>>

\* Slip: the interval is counted from the date that has passed.
CompleteSchedule_slip(p) ==
    LET g == reviews[job[p].review].group
        last == IF groups[g].next = None THEN 0 ELSE groups[g].next
    IN  /\ At(p, "complete_schedule")
        /\ groups' = IF groups[g].enabled
                     THEN [groups EXCEPT ![g].next = last + IntervalDays]
                     ELSE groups
        /\ reviews' = Marked(p)
        /\ Finish(p)
        /\ UNCHANGED <<members, lastId, items>>

CompleteSchedule(p) ==
    LET g == reviews[job[p].review].group
    IN  /\ At(p, "complete_schedule")
        /\ groups' = IF groups[g].enabled
                     THEN [groups EXCEPT ![g].next = clock + IntervalDays]
                     ELSE groups
        /\ reviews' = Marked(p)
        /\ Finish(p)
        /\ UNCHANGED <<members, lastId, items>>

(***************************************************************************)
(* check_overdue_reviews: one query, then all its rows in one transaction. *)
(***************************************************************************)
Lapsed(r) ==
    /\ reviews[r].status \in {"scheduled", "in_progress"}
    /\ reviews[r].due < clock

\* Slip: only completed reviews are left out when their date is looked at.
OverdueSelect_slip(p) ==
    LET late == {r \in DOMAIN reviews : reviews[r].due < clock}
    IN  /\ late # {}
        /\ Begin(p, "overdue", [Idle EXCEPT !.pc = "overdue_write", !.lapsed = late])
        /\ UNCHANGED tables

OverdueSelect(p) ==
    LET late == {r \in DOMAIN reviews : Lapsed(r)}
    IN  /\ late # {}
        /\ Begin(p, "overdue", [Idle EXCEPT !.pc = "overdue_write", !.lapsed = late])
        /\ UNCHANGED tables

OverdueWrite(p) ==
    /\ At(p, "overdue_write")
    /\ \A r \in job[p].lapsed : ~Locked(r)
    /\ reviews' = [r \in DOMAIN reviews |->
                      IF r \in job[p].lapsed
                      THEN [reviews[r] EXCEPT !.status = "overdue"] ELSE reviews[r]]
    /\ Finish(p)
    /\ UNCHANGED <<groups, members, lastId, items>>

-----------------------------------------------------------------------------
(***************************************************************************)
(* add_member and remove_member of the group service, called by others.    *)
(* Nothing holds between add_member's look for the person and its insert,  *)
(* so two of them may add the person twice.                                *)
(***************************************************************************)
AddCheck(p) ==
    \E g \in Groups, i \in Identities :
        /\ \A m \in MembersOf(g) : m.identity # i
        /\ Begin(p, "add", [Idle EXCEPT !.pc = "add_insert", !.groups = {g},
                                        !.people = {i}])
        /\ UNCHANGED tables

AddInsert(p) ==
    /\ At(p, "add_insert")
    /\ lastId < MaxMembers
    /\ lastId' = lastId + 1
    /\ \E g \in job[p].groups, i \in job[p].people :
          members' = members \union
               {[id |-> lastId + 1, group |-> g, identity |-> i, expires |-> None]}
    /\ Finish(p)
    /\ UNCHANGED <<groups, reviews, items>>

RemoveFind(p) ==
    \E m \in members :
        /\ Begin(p, "remove", [Idle EXCEPT !.pc = "remove_delete", !.member = m.id])
        /\ UNCHANGED tables

RemoveDelete(p) ==
    /\ At(p, "remove_delete")
    /\ members' = {m \in members : m.id # job[p].member}
    /\ items' = {i \in items : i.membership # job[p].member}
    /\ Finish(p)
    /\ UNCHANGED <<groups, lastId, reviews>>

\* A transaction that is open is rolled back.  A completion that has committed its
\* mark leaves the rest undone, which nothing takes up.
Crash(p) ==
    /\ p \in Mortal
    /\ job[p].pc # "idle"
    /\ abandoned' = IF job[p].pc \in Ending /\ ~job[p].open
                    THEN abandoned \union {job[p].review} ELSE abandoned
    /\ Finish(p)
    /\ UNCHANGED <<tables, clock, calls, astray>>

Tick ==
    /\ clock < MaxClock
    /\ clock' = clock + 1
    /\ UNCHANGED <<tables, job, calls, history>>

Call(p) ==
    \/ p \in Callers /\ (\/ CreateCall(p) \/ DecideFind(p) \/ CompleteRead(p)
                         \/ AddCheck(p) \/ RemoveFind(p))
    \/ p \in Schedulers /\ (SchedulePass(p) \/ OverdueSelect(p))

Continue(p) ==
    \/ CreateInsert(p) \/ CreateOpen(p)
    \/ DecideCount(p) \/ DecideCommit(p)
    \/ CompleteMark(p) \/ ApplyFind(p) \/ ApplyDelete(p) \/ ApplyExtend(p)
    \/ ApplyCommit(p) \/ CompleteSchedule(p) \/ OverdueWrite(p)
    \/ AddInsert(p) \/ RemoveDelete(p)

Next == Tick \/ \E p \in Processes : Call(p) \/ Continue(p) \/ Crash(p)

Spec == Init /\ [][Next]_vars

\* A process that has begun goes on unless it dies; nobody is obliged to decide
\* or to complete anything.
FairSpec == Spec /\ \A p \in Processes : WF_vars(Continue(p))

-----------------------------------------------------------------------------
(***************************************************************************)
(* Properties                                                              *)
(***************************************************************************)

\* Every row of every table and every process's locals have their type.
TypeOK ==
    /\ groups \in [Groups -> GroupRow]
    /\ members \subseteq MemberRow
    /\ lastId \in Nat
    /\ reviews \in Seq(ReviewRow)
    /\ items \subseteq ItemRow
    /\ job \in [Processes -> Job]
    /\ clock \in Nat
    /\ calls \in Nat
    /\ astray \subseteq [review: Nat, membership: Nat]
    /\ abandoned \subseteq Nat

\* A completed review has no undecided item, although the check, the update of
\* the status and the decisions are in transactions of their own and a review may
\* be reopened and completed twice.
CompletedFullyDecided ==
    \A r \in DOMAIN reviews : reviews[r].status = "completed" => Undecided(r) = {}

\* The progress shown may lag behind concurrent reviewers and never runs ahead of
\* them: the members it counts as not reviewed include every undecided item.
ProgressNeverOverstates ==
    \A r \in DOMAIN reviews :
        /\ Cardinality(Undecided(r)) + reviews[r].reviewed <= reviews[r].total
        /\ reviews[r].kept + reviews[r].removed <= reviews[r].reviewed

Completing(r) == \E p \in Processes : job[p].review = r /\ job[p].pc \in Applying

\* A removal decided before an automatic review was completed has been carried out
\* once the completion is through.  What stays was decided on a review that was
\* completed already, or the completion removed another row of the same person in
\* its place, or a completion of the review died after it had committed its mark.
AppliedUnlessLate ==
    \A r \in DOMAIN reviews :
        (/\ reviews[r].status = "completed" /\ reviews[r].auto
         /\ ~Completing(r) /\ r \notin abandoned)
            => \A i \in Decided(ItemsOf(r), "remove") :
                  i.late \/ [review |-> r, membership |-> i.membership] \in astray

\* Process p is about to write the status of r that was decided when p read it.
Reopens(p, r) ==
    \/ job[p].pc = "create_open" /\ job[p].review = r
    \/ job[p].pc = "overdue_write" /\ r \in job[p].lapsed

\* A completed review is reopened only by the second transaction of its own
\* creation or by an overdue pass that selected it while it was open: none of them
\* takes hold of a review that is completed.
OnlyInFlightReopens ==
    [][\A r \in DOMAIN reviews :
          /\ (reviews[r].status = "completed" /\ reviews'[r].status # "completed")
                => \E p \in Processes : Reopens(p, r)
          /\ \A p \in Processes : (~Reopens(p, r) /\ Reopens(p, r)')
                => reviews[r].status # "completed"]_vars

\* A group whose review was completed is not due again on the day that review was
\* created: its next review moves past it, unless a completion of the review died
\* after it had committed its mark.
CompletionReschedules ==
    \A r \in 1..MaxReviews :
        (/\ r \in DOMAIN reviews
         /\ reviews[r].status = "completed"
         /\ groups[reviews[r].group].enabled)
        ~> \/ r \in abandoned
           \/ /\ r \in DOMAIN reviews
              /\ groups[reviews[r].group].next # None
              /\ groups[reviews[r].group].next > reviews[r].created

(***************************************************************************)
(* What the documentation says and the code does not do                    *)
(***************************************************************************)
\* "Automated quarterly/annual access reviews": the scheduler's reviews of a
\* group are an interval apart.
ReviewsAnIntervalApart ==
    \A r, s \in DOMAIN reviews :
        (r < s /\ reviews[r].group = reviews[s].group)
            => reviews[s].created >= reviews[r].created + IntervalDays
=============================================================================
