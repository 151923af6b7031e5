------------------------- MODULE AccessReviewProofs -------------------------
(***************************************************************************)
(* Theorems about AccessReview, for every value of its constants.          *)
(*                                                                         *)
(* A process acts on what it read some transactions ago.  LocalOK says what*)
(* it may still rely on: its review exists, and a review that is being     *)
(* completed has no undecided item, because undecided items only go        *)
(* (Grows).  Most steps change nothing of the reviews but their status and *)
(* take items away, if anything (Quiet); the others have cases of their    *)
(* own.                                                                    *)
(***************************************************************************)
EXTENDS AccessReview, FiniteSetTheorems, SequenceTheorems, TLAPS

Completion == {"complete_mark", "complete_apply", "complete_delete", "complete_schedule"}

\* What process p can rely on at the place it has reached.
LocalOK(p) ==
    /\ job[p].pc \in {"create_open", "decide_count", "decide_commit"} \union Completion
          => job[p].review \in DOMAIN reviews
    /\ job[p].pc \in {"decide_count", "decide_commit"} => job[p].decision \in Decisions
    /\ job[p].pc \in Completion => Undecided(job[p].review) = {}
    /\ job[p].open => job[p].pc \in {"complete_apply", "complete_delete", "complete_schedule"}
    /\ job[p].lapsed \subseteq DOMAIN reviews

LocalsOK == \A p \in Processes : LocalOK(p)

\* Tables are finite, and items belong to reviews that are there.
TablesOK ==
    /\ IsFiniteSet(members) /\ IsFiniteSet(items)
    /\ \A i \in items : i.review \in DOMAIN reviews

IInv == TypeOK /\ TablesOK /\ LocalsOK /\ CompletedFullyDecided

\* What was remembered has its type, and is not forgotten.
HistoryOK ==
    /\ astray \subseteq [review: Nat, membership: Nat] /\ abandoned \subseteq Nat

Remembers == astray \subseteq astray' /\ abandoned \subseteq abandoned'

OthersWait(p) == \A q \in Processes \ {p} : job'[q] = job[q]

\* No review is lost, and no item of one that is there becomes undecided.
Grows ==
    /\ DOMAIN reviews \subseteq DOMAIN reviews'
    /\ \A r \in DOMAIN reviews : Undecided(r)' \subseteq Undecided(r)

\* Nothing of a review changes but its status.
StatusOnly ==
    /\ DOMAIN reviews' = DOMAIN reviews
    /\ \A r \in DOMAIN reviews :
          /\ reviews'[r].group = reviews[r].group
          /\ reviews'[r].auto = reviews[r].auto
          /\ reviews'[r].total = reviews[r].total
          /\ reviews'[r].reviewed = reviews[r].reviewed
          /\ reviews'[r].kept = reviews[r].kept
          /\ reviews'[r].removed = reviews[r].removed

\* A review becomes completed only when p commits its mark.
MarksOnly(p) ==
    \A r \in DOMAIN reviews : reviews'[r].status = "completed" =>
        reviews[r].status = "completed" \/ (job[p].open /\ job[p].review = r)

\* The step of p leaves the decisions, the counters and their readers alone.
Quiet(p) ==
    /\ items' \subseteq items
    /\ StatusOnly /\ MarksOnly(p) /\ OthersWait(p)
    /\ job'[p].pc # "decide_commit"

-----------------------------------------------------------------------------
(***************************************************************************)
(* Sets and sequences                                                      *)
(***************************************************************************)
\* An image of a finite set is finite and no larger.
LEMMA ImageBound ==
  ASSUME NEW S, IsFiniteSet(S), NEW f
  PROVE  /\ IsFiniteSet({f[x] : x \in S})
         /\ Cardinality({f[x] : x \in S}) <= Cardinality(S)
<1> DEFINE T == {f[x] : x \in S}
           g == [x \in S |-> f[x]]
<1>1. g \in Surjection(S, T)
  BY DEF Surjection
<1> QED
  BY <1>1, FS_Surjection

\* What the type of the table says of its rows.
LEMMA RowTypes ==
  ASSUME TypeOK
  PROVE  /\ Len(reviews) \in Nat /\ DOMAIN reviews = 1..Len(reviews)
         /\ \A r \in DOMAIN reviews : reviews[r] \in ReviewRow
  BY DEF TypeOK

\* A table of as many rows, each of the right type, has its type.
LEMMA ReviewsType ==
  ASSUME TypeOK, DOMAIN reviews' = DOMAIN reviews,
         reviews' = [r \in DOMAIN reviews |-> reviews'[r]],
         \A r \in DOMAIN reviews : reviews'[r] \in ReviewRow
  PROVE  reviews' \in Seq(ReviewRow)
<1>1. reviews' \in [1..Len(reviews) -> ReviewRow] /\ Len(reviews) \in Nat
  BY RowTypes
<1> QED
  BY <1>1, SeqDef

-----------------------------------------------------------------------------
(***************************************************************************)
(* Process bookkeeping                                                     *)
(***************************************************************************)
\* An idle process has the type of a process.
LEMMA IdleType == Idle \in Job
  BY DEF Idle, Job, Places

\* New locals go to one process, and the others stay where they are.
LEMMA JobEffect ==
  ASSUME TypeOK, NEW p \in Processes, NEW j \in Job, job' = [job EXCEPT ![p] = j]
  PROVE  job' \in [Processes -> Job] /\ job'[p] = j /\ OthersWait(p)
  BY DEF TypeOK, OthersWait

\* A process that finishes is idle.
LEMMA FinishEffect ==
  ASSUME TypeOK, NEW p \in Processes, Finish(p)
  PROVE  job' \in [Processes -> Job] /\ job'[p] = Idle /\ OthersWait(p)
  BY IdleType, JobEffect DEF Finish

\* An operation that begins gives its process the locals it starts with.
LEMMA BeginEffect ==
  ASSUME TypeOK, NEW p \in Processes, NEW op, NEW j \in Job, Begin(p, op, j)
  PROVE  /\ job' \in [Processes -> Job] /\ job'[p] = j /\ OthersWait(p)
         /\ clock' = clock /\ calls' \in Nat
<1>1. /\ job' = [job EXCEPT ![p] = j] /\ clock' = clock
      /\ calls' = calls \/ calls' = calls + 1
  BY DEF Begin
<1>2. calls' \in Nat
  BY <1>1 DEF TypeOK
<1>3. job' \in [Processes -> Job] /\ job'[p] = j /\ OthersWait(p)
  BY <1>1, JobEffect
<1> QED
  BY <1>1, <1>2, <1>3

\* Nothing is promised of an idle process.
LEMMA IdleLocalOK ==
  ASSUME NEW p \in Processes, job'[p] = Idle
  PROVE  LocalOK(p)'
  BY DEF LocalOK, Idle, Completion

\* What a process relies on survives the steps of others.
LEMMA StillOK ==
  ASSUME Grows, NEW q \in Processes, LocalOK(q), job'[q] = job[q]
  PROVE  LocalOK(q)'
<1>1. job[q].pc \in Completion => Undecided(job[q].review)' = {}
  BY DEF LocalOK, Grows
<1> QED
  BY <1>1 DEF LocalOK, Grows

\* After a step of one process only its own locals have to be looked at.
LEMMA LocalsFromOne ==
  ASSUME LocalsOK, Grows, NEW p \in Processes, OthersWait(p), LocalOK(p)'
  PROVE  LocalsOK'
  BY StillOK DEF LocalsOK, OthersWait

\* Items that are taken away are no longer undecided.
LEMMA QuietGrows ==
  ASSUME items' \subseteq items, StatusOnly
  PROVE  Grows
  BY DEF StatusOnly, Grows, Undecided, ItemsOf, Decided

\* What is left to show of a step that is quiet.
LEMMA QuietStep ==
  ASSUME IInv, NEW p \in Processes, Quiet(p), TypeOK', IsFiniteSet(members'), LocalOK(p)'
  PROVE  IInv'
<1>1. Grows
  BY QuietGrows DEF Quiet
<1>2. LocalsOK'
  BY <1>1, LocalsFromOne DEF IInv, Quiet
<1>3. IsFiniteSet(items')
  BY FS_Subset DEF IInv, TablesOK, Quiet
<1>4. TablesOK'
  BY <1>3 DEF IInv, TablesOK, Quiet, StatusOnly
<1>5. ASSUME NEW r \in DOMAIN reviews', reviews'[r].status = "completed"
      PROVE  Undecided(r)' = {}
  <2>1. r \in DOMAIN reviews /\ Undecided(r)' \subseteq Undecided(r)
    BY <1>1, <1>5 DEF Quiet, StatusOnly, Grows
  <2>2. CASE reviews[r].status = "completed"
    BY <2>1, <2>2 DEF IInv, CompletedFullyDecided
  <2>3. CASE job[p].open /\ job[p].review = r
    BY <2>1, <2>3 DEF IInv, LocalsOK, LocalOK, Completion
  <2> QED
    BY <1>5, <2>1, <2>2, <2>3 DEF Quiet, MarksOnly
<1>6. CompletedFullyDecided'
  BY <1>5 DEF CompletedFullyDecided
<1> QED
  BY <1>2, <1>4, <1>6 DEF IInv
-----------------------------------------------------------------------------
(***************************************************************************)
(* Operations that begin, and those that only read                         *)
(***************************************************************************)
\* A step that leaves the tables alone is quiet when it does not count.
LEMMA ReadStep ==
  ASSUME IInv, NEW p \in Processes, UNCHANGED tables, OthersWait(p),
         job' \in [Processes -> Job], job'[p].pc # "decide_commit",
         clock' \in Nat, calls' \in Nat, HistoryOK', LocalOK(p)'
  PROVE  Quiet(p) /\ IInv'
<1>1. Quiet(p)
  BY DEF Quiet, StatusOnly, MarksOnly, tables
<1>2. TypeOK'
  BY DEF IInv, TypeOK, HistoryOK, tables
<1>3. IsFiniteSet(members')
  BY DEF IInv, TablesOK, tables
<1> QED
  BY <1>1, <1>2, <1>3, QuietStep

\* What is left to show of an operation that begins.
LEMMA BeginStep ==
  ASSUME IInv, NEW p \in Processes, NEW op, NEW j \in Job, Begin(p, op, j),
         UNCHANGED tables,
         j.pc \in {"create_insert", "decide_count", "complete_mark", "overdue_write",
                   "add_insert", "remove_delete"},
         j.pc \in {"decide_count", "complete_mark"} => j.review \in DOMAIN reviews,
         j.pc = "decide_count" => j.decision \in Decisions,
         j.pc = "complete_mark" => Undecided(j.review) = {},
         ~j.open, j.lapsed \subseteq DOMAIN reviews
  PROVE  Quiet(p) /\ IInv'
<1>1. /\ job' \in [Processes -> Job] /\ job'[p] = j /\ OthersWait(p)
      /\ clock' = clock /\ calls' \in Nat
  BY BeginEffect DEF IInv
<1>2. \A r : Undecided(r)' = Undecided(r)
  BY DEF Undecided, ItemsOf, Decided, tables
<1>3. LocalOK(p)'
  BY <1>1, <1>2 DEF LocalOK, Completion, tables
<1>4. clock' \in Nat
  BY <1>1 DEF IInv, TypeOK
<1>5. HistoryOK'
  BY DEF Begin, history, HistoryOK, IInv, TypeOK
<1> QED
  BY <1>1, <1>3, <1>4, <1>5, ReadStep

\* The operations of callers that begin with a look at the tables.
LEMMA CallerBegins ==
  ASSUME IInv, NEW p \in Processes,
         CreateCall(p) \/ DecideFind(p) \/ CompleteRead(p) \/ AddCheck(p) \/ RemoveFind(p)
  PROVE  Quiet(p) /\ IInv'
<1>1. CASE CreateCall(p)
  <2>1. PICK g \in Groups, due \in {clock, clock + DueDays}, auto \in BOOLEAN :
           /\ Begin(p, "create", [Idle EXCEPT !.pc = "create_insert", !.groups = {g},
                                              !.due = due, !.auto = auto])
           /\ UNCHANGED tables
    BY <1>1 DEF CreateCall
  <2> DEFINE j == [Idle EXCEPT !.pc = "create_insert", !.groups = {g},
                               !.due = due, !.auto = auto]
  <2>2. due \in Nat
    BY ConstantsAssumption DEF IInv, TypeOK
  <2>3. j \in Job
    BY <2>2, IdleType DEF Job, Places
  <2>4. j.pc = "create_insert" /\ ~j.open /\ j.lapsed = {}
    BY DEF Idle
  <2> HIDE DEF j
  <2> QED
    BY <2>1, <2>3, <2>4, BeginStep DEF j
<1>2. CASE DecideFind(p)
  <2>1. PICK i \in items, d \in Decisions, e \in Expiries \union {None} :
           /\ Begin(p, "decide", [Idle EXCEPT !.pc = "decide_count", !.review = i.review,
                         !.member = i.membership, !.decision = d, !.expires = e])
           /\ UNCHANGED tables
    BY <1>2 DEF DecideFind
  <2> DEFINE j == [Idle EXCEPT !.pc = "decide_count", !.review = i.review,
                         !.member = i.membership, !.decision = d, !.expires = e]
  <2>2. i \in ItemRow /\ i.review \in DOMAIN reviews
    BY DEF IInv, TypeOK, TablesOK
  <2>3. i.review \in Nat /\ i.membership \in Nat
    BY <2>2 DEF ItemRow
  <2>4. e \in Nat \union {None}
    BY ConstantsAssumption
  <2>5. j \in Job
    BY <2>3, <2>4, IdleType DEF Job, Places
  <2>6. /\ j.pc = "decide_count" /\ j.review = i.review /\ j.decision = d
        /\ ~j.open /\ j.lapsed = {}
    BY DEF Idle
  <2> HIDE DEF j
  <2> QED
    BY <2>1, <2>2, <2>5, <2>6, BeginStep DEF j
<1>3. CASE CompleteRead(p)
  <2>1. PICK r \in DOMAIN reviews :
           /\ Undecided(r) = {}
           /\ Begin(p, "complete", [Idle EXCEPT !.pc = "complete_mark", !.review = r])
           /\ UNCHANGED tables
    BY <1>3 DEF CompleteRead
  <2> DEFINE j == [Idle EXCEPT !.pc = "complete_mark", !.review = r]
  <2>2. r \in Nat
    BY RowTypes DEF IInv
  <2>3. j \in Job
    BY <2>2, IdleType DEF Job, Places
  <2>4. j.pc = "complete_mark" /\ j.review = r /\ ~j.open /\ j.lapsed = {}
    BY DEF Idle
  <2> HIDE DEF j
  <2> QED
    BY <2>1, <2>3, <2>4, BeginStep DEF j
<1>4. CASE RemoveFind(p)
  <2>1. PICK m \in members :
           /\ Begin(p, "remove", [Idle EXCEPT !.pc = "remove_delete", !.member = m.id])
           /\ UNCHANGED tables
    BY <1>4 DEF RemoveFind
  <2> DEFINE j == [Idle EXCEPT !.pc = "remove_delete", !.member = m.id]
  <2>2. m.id \in Nat
    BY DEF IInv, TypeOK, MemberRow
  <2>3. j \in Job
    BY <2>2, IdleType DEF Job, Places
  <2>4. j.pc = "remove_delete" /\ ~j.open /\ j.lapsed = {}
    BY DEF Idle
  <2> HIDE DEF j
  <2> QED
    BY <2>1, <2>3, <2>4, BeginStep DEF j
<1>5. CASE AddCheck(p)
  <2>1. PICK g \in Groups, i \in Identities :
           /\ Begin(p, "add", [Idle EXCEPT !.pc = "add_insert", !.groups = {g},
                                           !.people = {i}])
           /\ UNCHANGED tables
    BY <1>5 DEF AddCheck
  <2> DEFINE j == [Idle EXCEPT !.pc = "add_insert", !.groups = {g}, !.people = {i}]
  <2>2. j \in Job
    BY IdleType DEF Job, Places
  <2>3. j.pc = "add_insert" /\ ~j.open /\ j.lapsed = {}
    BY DEF Idle
  <2> HIDE DEF j
  <2> QED
    BY <2>1, <2>2, <2>3, BeginStep DEF j
<1> QED
  BY <1>1, <1>2, <1>3, <1>4, <1>5

\* The scheduler's passes.
LEMMA SchedulerBegins ==
  ASSUME IInv, NEW p \in Processes, SchedulePass(p) \/ OverdueSelect(p)
  PROVE  Quiet(p) /\ IInv'
<1>1. CASE SchedulePass(p)
  <2> DEFINE j == [Idle EXCEPT !.pc = "create_insert", !.groups = DueGroups,
                               !.due = clock + DueDays]
  <2>1. Begin(p, "schedule", j) /\ UNCHANGED tables
    BY <1>1 DEF SchedulePass
  <2>2. clock + DueDays \in Nat /\ DueGroups \subseteq Groups
    BY ConstantsAssumption DEF IInv, TypeOK, DueGroups
  <2>3. j \in Job
    BY <2>2, IdleType DEF Job, Places
  <2>4. j.pc = "create_insert" /\ ~j.open /\ j.lapsed = {}
    BY DEF Idle
  <2> HIDE DEF j
  <2> QED
    BY <2>1, <2>3, <2>4, BeginStep
<1>2. CASE OverdueSelect(p)
  <2> DEFINE late == {r \in DOMAIN reviews : Lapsed(r)}
             j == [Idle EXCEPT !.pc = "overdue_write", !.lapsed = late]
  <2>1. Begin(p, "overdue", j) /\ UNCHANGED tables
    BY <1>2 DEF OverdueSelect
  <2>2. late \subseteq Nat /\ late \subseteq DOMAIN reviews
    BY RowTypes DEF IInv
  <2> HIDE DEF late
  <2>3. j \in Job
    BY <2>2, IdleType DEF Job, Places
  <2>4. j.pc = "overdue_write" /\ ~j.open /\ j.lapsed = late
    BY DEF Idle
  <2> HIDE DEF j
  <2> QED
    BY <2>1, <2>2, <2>3, <2>4, BeginStep
<1> QED
  BY <1>1, <1>2
-----------------------------------------------------------------------------
(***************************************************************************)
(* Writes to a status                                                      *)
(***************************************************************************)
\* A table that differs from the old one in a status here and there has its type.
LEMMA StatusWrite ==
  ASSUME TypeOK, NEW R \in SUBSET DOMAIN reviews, NEW s \in Statuses,
         reviews' = [r \in DOMAIN reviews |->
                       IF r \in R THEN [reviews[r] EXCEPT !.status = s] ELSE reviews[r]]
  PROVE  /\ reviews' \in Seq(ReviewRow) /\ StatusOnly
         /\ \A r \in DOMAIN reviews :
               reviews'[r].status = IF r \in R THEN s ELSE reviews[r].status
<1>1. \A r \in DOMAIN reviews :
         /\ reviews'[r] \in ReviewRow
         /\ reviews'[r].group = reviews[r].group
         /\ reviews'[r].auto = reviews[r].auto
         /\ reviews'[r].total = reviews[r].total
         /\ reviews'[r].reviewed = reviews[r].reviewed
         /\ reviews'[r].kept = reviews[r].kept
         /\ reviews'[r].removed = reviews[r].removed
         /\ reviews'[r].status = IF r \in R THEN s ELSE reviews[r].status
  BY RowTypes DEF ReviewRow
<1>2. /\ DOMAIN reviews' = DOMAIN reviews
      /\ reviews' = [r \in DOMAIN reviews |-> reviews'[r]]
  OBVIOUS
<1>3. reviews' \in Seq(ReviewRow)
  BY <1>1, <1>2, ReviewsType
<1> QED
  BY <1>1, <1>2, <1>3 DEF StatusOnly

\* An update of one row is such a write.
LEMMA OneStatus ==
  ASSUME TypeOK, NEW r \in DOMAIN reviews, NEW s \in Statuses,
         reviews' = [reviews EXCEPT ![r].status = s]
  PROVE  /\ reviews' \in Seq(ReviewRow) /\ StatusOnly
         /\ \A x \in DOMAIN reviews :
               reviews'[x].status = IF x = r THEN s ELSE reviews[x].status
<1> DEFINE R == {r}
<1>1. reviews \in [1..Len(reviews) -> ReviewRow]
  BY RowTypes, LenProperties DEF TypeOK
<1>2. reviews' = [x \in DOMAIN reviews |->
                    IF x \in R THEN [reviews[x] EXCEPT !.status = s] ELSE reviews[x]]
  BY <1>1
<1>3. R \in SUBSET DOMAIN reviews /\ \A x : x \in R <=> x = r
  OBVIOUS
<1> HIDE DEF R
<1> QED
  BY <1>2, <1>3, StatusWrite

\* What the commit of a completion's mark does to the reviews.
LEMMA MarkedEffect ==
  ASSUME IInv, NEW p \in Processes, reviews' = Marked(p)
  PROVE  /\ reviews' \in Seq(ReviewRow) /\ StatusOnly /\ MarksOnly(p)
         /\ \A r \in DOMAIN reviews :
               reviews'[r].status = IF job[p].open /\ r = job[p].review THEN "completed"
                                    ELSE reviews[r].status
<1>1. CASE job[p].open
  <2>1. job[p].review \in DOMAIN reviews
    BY <1>1 DEF IInv, LocalsOK, LocalOK, Completion
  <2>2. reviews' = [reviews EXCEPT ![job[p].review].status = "completed"]
    BY <1>1 DEF Marked
  <2>3. "completed" \in Statuses
    BY DEF Statuses
  <2>4. TypeOK
    BY DEF IInv
  <2>5. /\ reviews' \in Seq(ReviewRow) /\ StatusOnly
        /\ \A r \in DOMAIN reviews :
              reviews'[r].status = IF r = job[p].review THEN "completed"
                                   ELSE reviews[r].status
    BY <2>1, <2>2, <2>3, <2>4, OneStatus
  <2> QED
    BY <1>1, <2>5 DEF MarksOnly
<1>2. CASE ~job[p].open
  <2>1. reviews' = reviews
    BY <1>2 DEF Marked
  <2> QED
    BY <1>2, <2>1 DEF IInv, TypeOK, StatusOnly, MarksOnly
<1> QED
  BY <1>1, <1>2

\* Extensions change when a membership ends and nothing else of it.
LEMMA ExtendedEffect ==
  ASSUME IInv, NEW p \in Processes, NEW ms \in SUBSET members
  PROVE  /\ Extended(p, ms) \subseteq MemberRow
         /\ IsFiniteSet(Extended(p, ms))
         /\ \A m \in Extended(p, ms) : \E n \in ms :
               m.id = n.id /\ m.group = n.group /\ m.identity = n.identity
         /\ \A n \in ms : \E m \in Extended(p, ms) :
               m.id = n.id /\ m.group = n.group /\ m.identity = n.identity
<1> DEFINE last(m) == CHOOSE i \in job[p].staged : i.membership = m.id
           f == [m \in ms |->
                   IF \E i \in job[p].staged : i.membership = m.id
                   THEN [m EXCEPT !.expires = last(m).expires] ELSE m]
<1>1. ASSUME NEW m \in ms
      PROVE  f[m] \in MemberRow /\ f[m].id = m.id /\ f[m].group = m.group
             /\ f[m].identity = m.identity
  <2>1. m \in MemberRow
    BY DEF IInv, TypeOK
  <2>2. job[p].staged \subseteq ItemRow
    BY DEF IInv, TypeOK, Job
  <2>3. CASE \E x \in job[p].staged : x.membership = m.id
    <3>1. last(m) \in ItemRow
      BY <2>2, <2>3
    <3>2. last(m).expires \in Nat \union {None}
      BY <3>1 DEF ItemRow
    <3>3. f[m] = [m EXCEPT !.expires = last(m).expires]
      BY <2>3
    <3> HIDE DEF last, f
    <3> QED
      BY <2>1, <3>2, <3>3 DEF MemberRow
  <2>4. CASE ~\E x \in job[p].staged : x.membership = m.id
    BY <2>1, <2>4
  <2> QED
    BY <2>3, <2>4
<1>2. Extended(p, ms) = {f[m] : m \in ms}
  BY DEF Extended
<1>3. IsFiniteSet(ms)
  BY FS_Subset DEF IInv, TablesOK
<1> HIDE DEF f
<1>4. IsFiniteSet({f[m] : m \in ms})
  BY <1>3, ImageBound
<1> QED
  BY <1>1, <1>2, <1>4

\* The second transaction of a creation opens the review.
LEMMA CreateOpenStep ==
  ASSUME IInv, NEW p \in Processes, CreateOpen(p)
  PROVE  Quiet(p) /\ IInv'
<1>1. job[p].review \in DOMAIN reviews /\ ~job[p].open
  BY DEF CreateOpen, At, Here, IInv, LocalsOK, LocalOK
<1>2. job' \in [Processes -> Job] /\ OthersWait(p)
      /\ job'[p].pc \in {"idle", "create_insert"}
      /\ ~job'[p].open /\ job'[p].lapsed \subseteq job[p].lapsed
  <2>1. CASE job[p].groups = {}
    BY <2>1, FinishEffect DEF CreateOpen, CreateNext, Idle, IInv
  <2>2. CASE job[p].groups # {}
    <3> DEFINE j == [job[p] EXCEPT !.pc = "create_insert"]
    <3>1. job' = [job EXCEPT ![p] = j]
      BY <2>2 DEF CreateOpen, CreateNext
    <3>2. job[p] \in Job
      BY DEF IInv, TypeOK
    <3>3. /\ j \in Job /\ j.pc = "create_insert"
          /\ j.open = job[p].open /\ j.lapsed = job[p].lapsed
      BY <3>2 DEF Job, Places
    <3> HIDE DEF j
    <3> QED
      BY <1>1, <3>1, <3>3, JobEffect DEF IInv
  <2> QED
    BY <2>1, <2>2
<1>3. reviews' \in Seq(ReviewRow) /\ StatusOnly /\ MarksOnly(p)
  <2>1. CASE reviews' = reviews
    BY <2>1 DEF StatusOnly, MarksOnly, IInv, TypeOK
  <2>2. CASE reviews' = [reviews EXCEPT ![job[p].review].status = "in_progress"]
    <3>1. "in_progress" \in Statuses
      BY DEF Statuses
    <3>2. TypeOK
      BY DEF IInv
    <3>3. /\ reviews' \in Seq(ReviewRow) /\ StatusOnly
          /\ \A r \in DOMAIN reviews :
                reviews'[r].status = IF r = job[p].review THEN "in_progress"
                                     ELSE reviews[r].status
      BY <1>1, <2>2, <3>1, <3>2, OneStatus
    <3> QED
      BY <3>3 DEF MarksOnly
  <2> QED
    BY <2>1, <2>2 DEF CreateOpen
<1>4. Quiet(p)
  BY <1>2, <1>3 DEF Quiet, CreateOpen
<1>5. LocalOK(p)'
  BY <1>2, <1>3 DEF LocalOK, Completion, StatusOnly, IInv, LocalsOK
<1>6. TypeOK'
  BY <1>2, <1>3 DEF IInv, TypeOK, CreateOpen, At, Here, history
<1>7. IsFiniteSet(members')
  BY DEF CreateOpen, IInv, TablesOK
<1> QED
  BY <1>4, <1>5, <1>6, <1>7, QuietStep

\* The overdue check completes nothing.
LEMMA OverdueWriteStep ==
  ASSUME IInv, NEW p \in Processes, OverdueWrite(p)
  PROVE  Quiet(p) /\ IInv'
<1>1. job' \in [Processes -> Job] /\ job'[p] = Idle /\ OthersWait(p)
  BY FinishEffect DEF OverdueWrite, IInv
<1>2. job[p].lapsed \subseteq DOMAIN reviews /\ "overdue" \in Statuses
  BY DEF IInv, LocalsOK, LocalOK, Statuses
<1>3. /\ reviews' \in Seq(ReviewRow) /\ StatusOnly
      /\ \A r \in DOMAIN reviews :
            reviews'[r].status = IF r \in job[p].lapsed THEN "overdue"
                                 ELSE reviews[r].status
  BY <1>2, StatusWrite DEF OverdueWrite, IInv
<1>4. Quiet(p)
  BY <1>1, <1>3 DEF Quiet, MarksOnly, OverdueWrite, Idle
<1>5. TypeOK'
  BY <1>1, <1>3 DEF IInv, TypeOK, OverdueWrite, At, Here, history
<1>6. IsFiniteSet(members')
  BY DEF OverdueWrite, IInv, TablesOK
<1> QED
  BY <1>1, <1>4, <1>5, <1>6, IdleLocalOK, QuietStep
-----------------------------------------------------------------------------
(***************************************************************************)
(* The completion of a review                                              *)
(***************************************************************************)
\* A completing process goes on with its review; what it relies on stands.
LEMMA CompletingOK ==
  ASSUME IInv, NEW p \in Processes, items' \subseteq items, StatusOnly,
         job[p].pc \in Completion, job'[p].review = job[p].review,
         job'[p].pc \in {"complete_apply", "complete_delete", "complete_schedule"},
         job'[p].lapsed = job[p].lapsed
  PROVE  LocalOK(p)'
<1>1. job[p].review \in DOMAIN reviews /\ Undecided(job[p].review) = {}
      /\ job[p].lapsed \subseteq DOMAIN reviews
  BY DEF IInv, LocalsOK, LocalOK
<1>2. Undecided(job[p].review)' = {}
  BY <1>1, QuietGrows DEF Grows
<1> QED
  BY <1>1, <1>2 DEF LocalOK, Completion, StatusOnly

\* The items to apply are items of the review.
LEMMA EffectsType ==
  ASSUME TypeOK, NEW r
  PROVE  Effects(r) \subseteq ItemRow
  BY DEF TypeOK, Effects, ItemsOf

\* What the mark puts into the locals.
LEMMA CompleteMarkEffect ==
  ASSUME IInv, NEW p \in Processes, CompleteMark(p)
  PROVE  /\ job' \in [Processes -> Job] /\ OthersWait(p)
         /\ job'[p].pc = IF reviews[job[p].review].auto THEN "complete_apply"
                         ELSE "complete_schedule"
         /\ job'[p].open = TRUE
         /\ job'[p].todo = IF reviews[job[p].review].auto THEN Effects(job[p].review)
                           ELSE {}
         /\ job'[p].review = job[p].review /\ job'[p].lapsed = job[p].lapsed
<1> DEFINE r == job[p].review
           pc == IF reviews[r].auto THEN "complete_apply" ELSE "complete_schedule"
           todo == IF reviews[r].auto THEN Effects(r) ELSE {}
           j == [job[p] EXCEPT !.pc = pc, !.open = TRUE, !.todo = todo]
<1>1. job' = [job EXCEPT ![p] = j]
  BY DEF CompleteMark
<1>2. job[p] \in Job
  BY DEF IInv, TypeOK
<1>3. todo \subseteq ItemRow
  BY EffectsType DEF IInv
<1>4. pc \in Places
  BY DEF Places
<1> HIDE DEF pc, todo
<1>5. /\ j \in Job /\ j.pc = pc /\ j.open = TRUE /\ j.todo = todo
      /\ j.review = job[p].review /\ j.lapsed = job[p].lapsed
  BY <1>2, <1>3, <1>4 DEF Job
<1> HIDE DEF j
<1>6. job' \in [Processes -> Job] /\ job'[p] = j /\ OthersWait(p)
  BY <1>1, <1>5, JobEffect DEF IInv
<1> QED
  BY <1>5, <1>6 DEF pc, todo

\* The mark leaves the tables as they are.
LEMMA CompleteMarkStep ==
  ASSUME IInv, NEW p \in Processes, CompleteMark(p)
  PROVE  Quiet(p) /\ IInv'
<1>1. UNCHANGED <<tables, clock, calls>> /\ job[p].pc = "complete_mark"
  BY DEF CompleteMark, At, Here
<1>2. /\ job' \in [Processes -> Job] /\ OthersWait(p)
      /\ job'[p].pc \in {"complete_apply", "complete_schedule"}
      /\ job'[p].review = job[p].review /\ job'[p].lapsed = job[p].lapsed
  BY CompleteMarkEffect
<1>3. StatusOnly /\ items' = items
  BY <1>1 DEF StatusOnly, tables
<1>4. LocalOK(p)'
  BY <1>1, <1>2, <1>3, CompletingOK DEF Completion
<1>5. clock' \in Nat /\ calls' \in Nat /\ HistoryOK'
  BY <1>1 DEF IInv, TypeOK, HistoryOK, CompleteMark, At, Here, history
<1> QED
  BY <1>1, <1>2, <1>4, <1>5, ReadStep

\* What an item that was applied does to the locals.
LEMMA ApplyEffect ==
  ASSUME IInv, NEW p \in Processes, NEW i, NEW staged \in SUBSET ItemRow,
         NEW open \in BOOLEAN, job[p].pc = "complete_apply",
         job' = [job EXCEPT ![p] =
            [job[p] EXCEPT !.todo = @ \ {i}, !.staged = staged, !.open = open]]
  PROVE  /\ job' \in [Processes -> Job] /\ OthersWait(p)
         /\ job'[p].pc = "complete_apply" /\ job'[p].review = job[p].review
         /\ job'[p].lapsed = job[p].lapsed /\ job'[p].todo = job[p].todo \ {i}
         /\ job'[p].open = open
<1> DEFINE j == [job[p] EXCEPT !.todo = @ \ {i}, !.staged = staged, !.open = open]
<1>1. job' = [job EXCEPT ![p] = j]
  OBVIOUS
<1>2. job[p] \in Job
  BY DEF IInv, TypeOK
<1>3. /\ j \in Job /\ j.pc = "complete_apply" /\ j.review = job[p].review
      /\ j.lapsed = job[p].lapsed /\ j.todo = job[p].todo \ {i} /\ j.open = open
  BY <1>2 DEF Job
<1> HIDE DEF j
<1>4. job' \in [Processes -> Job] /\ job'[p] = j /\ OthersWait(p)
  BY <1>1, <1>3, JobEffect DEF IInv
<1> QED
  BY <1>3, <1>4

\* A removal finds a membership of the person, or is through with the item.
LEMMA ApplyFindEffect ==
  ASSUME IInv, NEW p \in Processes, ApplyFind(p)
  PROVE  \E i \in Decided(job[p].todo, "remove") :
            /\ job' \in [Processes -> Job] /\ OthersWait(p)
            /\ job'[p].review = job[p].review /\ job'[p].lapsed = job[p].lapsed
            /\ job'[p].open = job[p].open
            /\ \/ /\ \A m \in members : ~(/\ m.group = reviews[job[p].review].group
                                          /\ m.identity = i.identity)
                  /\ job'[p].pc = "complete_apply" /\ job'[p].todo = job[p].todo \ {i}
               \/ /\ job'[p].pc = "complete_delete" /\ job'[p].todo = job[p].todo
<1> DEFINE found(i) == {m \in members : /\ m.group = reviews[job[p].review].group
                                        /\ m.identity = i.identity}
<1>1. job[p] \in Job /\ job[p].pc = "complete_apply"
  BY DEF IInv, TypeOK, ApplyFind, At, Here
<1>2. PICK i \in Decided(job[p].todo, "remove") :
          \/ /\ found(i) = {}
             /\ job' = [job EXCEPT ![p].todo = @ \ {i}]
          \/ \E m \in found(i) :
                job' = [job EXCEPT ![p] = [job[p] EXCEPT !.pc = "complete_delete",
                                                         !.taken = {i},
                                                         !.member = m.id]]
  BY DEF ApplyFind
<1>3. CASE found(i) = {} /\ job' = [job EXCEPT ![p].todo = @ \ {i}]
  <2> DEFINE j == [job[p] EXCEPT !.todo = @ \ {i}]
  <2>1. job' = [job EXCEPT ![p] = j]
    BY <1>3
  <2>2. /\ j \in Job /\ j.pc = "complete_apply" /\ j.review = job[p].review
        /\ j.lapsed = job[p].lapsed /\ j.todo = job[p].todo \ {i}
        /\ j.open = job[p].open
    BY <1>1 DEF Job
  <2> HIDE DEF j
  <2>3. job' \in [Processes -> Job] /\ job'[p] = j /\ OthersWait(p)
    BY <2>1, <2>2, JobEffect DEF IInv
  <2> QED
    BY <1>3, <2>2, <2>3
<1>4. ASSUME NEW m \in found(i),
             job' = [job EXCEPT ![p] = [job[p] EXCEPT !.pc = "complete_delete",
                                                      !.taken = {i}, !.member = m.id]]
      PROVE  /\ job' \in [Processes -> Job] /\ OthersWait(p)
             /\ job'[p].review = job[p].review /\ job'[p].lapsed = job[p].lapsed
             /\ job'[p].open = job[p].open
             /\ job'[p].pc = "complete_delete" /\ job'[p].todo = job[p].todo
  <2> DEFINE j == [job[p] EXCEPT !.pc = "complete_delete", !.taken = {i},
                                 !.member = m.id]
  <2>1. job' = [job EXCEPT ![p] = j]
    BY <1>4
  <2>2. m.id \in Nat /\ i \in ItemRow
    BY <1>1 DEF IInv, TypeOK, MemberRow, Job, Decided
  <2>3. /\ j \in Job /\ j.pc = "complete_delete" /\ j.review = job[p].review
        /\ j.lapsed = job[p].lapsed /\ j.todo = job[p].todo /\ j.open = job[p].open
    BY <1>1, <2>2 DEF Job, Places
  <2> HIDE DEF j
  <2>4. job' \in [Processes -> Job] /\ job'[p] = j /\ OthersWait(p)
    BY <2>1, <2>3, JobEffect DEF IInv
  <2> QED
    BY <2>3, <2>4
<1> QED
  BY <1>2, <1>3, <1>4

\* Looking for the membership changes no table.
LEMMA ApplyFindStep ==
  ASSUME IInv, NEW p \in Processes, ApplyFind(p)
  PROVE  Quiet(p) /\ IInv'
<1>1. /\ job' \in [Processes -> Job] /\ OthersWait(p)
      /\ job'[p].pc \in {"complete_apply", "complete_delete"}
      /\ job'[p].review = job[p].review /\ job'[p].lapsed = job[p].lapsed
  BY ApplyFindEffect
<1>2. /\ job[p].pc = "complete_apply" /\ UNCHANGED tables
      /\ UNCHANGED <<clock, calls, astray, abandoned>>
  BY DEF ApplyFind, At, Here, history
<1>3. clock' \in Nat /\ calls' \in Nat /\ HistoryOK'
  BY <1>2 DEF IInv, TypeOK, HistoryOK
<1>4. StatusOnly /\ items' \subseteq items
  BY <1>2 DEF StatusOnly, tables
<1>5. LocalOK(p)'
  BY <1>1, <1>2, <1>4, CompletingOK DEF Completion
<1> QED
  BY <1>1, <1>2, <1>3, <1>5, ReadStep

\* What the deletion leaves in the locals.
LEMMA ApplyDeleteEffect ==
  ASSUME IInv, NEW p \in Processes, ApplyDelete(p)
  PROVE  /\ job' \in [Processes -> Job] /\ OthersWait(p)
         /\ job'[p].pc = "complete_apply" /\ job'[p].review = job[p].review
         /\ job'[p].lapsed = job[p].lapsed /\ job'[p].open = FALSE
         /\ job'[p].todo = job[p].todo \ job[p].taken
<1> DEFINE j == [job[p] EXCEPT !.pc = "complete_apply", !.todo = @ \ job[p].taken,
                               !.taken = {}, !.staged = {}, !.open = FALSE]
<1>1. job' = [job EXCEPT ![p] = j]
  BY DEF ApplyDelete
<1>2. job[p] \in Job
  BY DEF IInv, TypeOK
<1>3. /\ j \in Job /\ j.pc = "complete_apply" /\ j.review = job[p].review
      /\ j.lapsed = job[p].lapsed /\ j.open = FALSE
      /\ j.todo = job[p].todo \ job[p].taken
  BY <1>2 DEF Job, Places
<1> HIDE DEF j
<1>4. job' \in [Processes -> Job] /\ job'[p] = j /\ OthersWait(p)
  BY <1>1, <1>3, JobEffect DEF IInv
<1> QED
  BY <1>3, <1>4

\* The deletion commits the mark and takes the items of its membership away.
LEMMA ApplyDeleteStep ==
  ASSUME IInv, NEW p \in Processes, ApplyDelete(p)
  PROVE  Quiet(p) /\ IInv'
<1>1. /\ job' \in [Processes -> Job] /\ OthersWait(p)
      /\ job'[p].pc = "complete_apply" /\ job'[p].review = job[p].review
      /\ job'[p].lapsed = job[p].lapsed
  BY ApplyDeleteEffect
<1>2. /\ job[p].pc = "complete_delete" /\ UNCHANGED <<clock, calls>>
      /\ members' = Extended(p, {m \in members : m.id # job[p].member})
      /\ reviews' = Marked(p) /\ items' \subseteq items
      /\ UNCHANGED <<groups, lastId, abandoned>>
  BY DEF ApplyDelete, Here
<1>3. astray' \subseteq [review: Nat, membership: Nat]
  <2>1. job[p] \in Job
    BY DEF IInv, TypeOK
  <2>2. \A i \in job[p].taken : i.membership \in Nat
    BY <2>1 DEF Job, ItemRow
  <2> QED
    BY <2>1, <2>2 DEF ApplyDelete, IInv, TypeOK, Job
<1>4. reviews' \in Seq(ReviewRow) /\ StatusOnly /\ MarksOnly(p)
  BY <1>2, MarkedEffect
<1>5. members' \subseteq MemberRow /\ IsFiniteSet(members')
  BY <1>2, ExtendedEffect
<1>6. Quiet(p)
  BY <1>1, <1>2, <1>4 DEF Quiet
<1>7. LocalOK(p)'
  BY <1>1, <1>2, <1>4, CompletingOK DEF Completion
<1>8. TypeOK'
  BY <1>1, <1>2, <1>3, <1>4, <1>5 DEF IInv, TypeOK
<1> QED
  BY <1>5, <1>6, <1>7, <1>8, QuietStep

\* An extension is kept in the locals until the commit.
LEMMA ApplyExtendStep ==
  ASSUME IInv, NEW p \in Processes, ApplyExtend(p)
  PROVE  Quiet(p) /\ IInv'
<1>1. /\ job[p].pc = "complete_apply" /\ UNCHANGED <<clock, calls>>
      /\ UNCHANGED tables
  BY DEF ApplyExtend, At, Here
<1>2. PICK i \in Decided(job[p].todo, "extend") :
          job' = [job EXCEPT ![p] =
              [job[p] EXCEPT !.todo = @ \ {i},
                             !.staged = IF \E m \in members : m.id = i.membership
                                        THEN @ \union {i} ELSE @]]
  BY DEF ApplyExtend
<1> DEFINE staged == IF \E m \in members : m.id = i.membership
                     THEN job[p].staged \union {i} ELSE job[p].staged
           open == job[p].open
<1>3. job[p] \in Job
  BY DEF IInv, TypeOK
<1>4. staged \in SUBSET ItemRow /\ open \in BOOLEAN
  BY <1>3 DEF Job, Decided
<1>5. job' = [job EXCEPT ![p] =
          [job[p] EXCEPT !.todo = @ \ {i}, !.staged = staged, !.open = open]]
  <2>1. [job[p] EXCEPT !.todo = @ \ {i},
                       !.staged = IF \E m \in members : m.id = i.membership
                                  THEN @ \union {i} ELSE @]
        = [job[p] EXCEPT !.todo = @ \ {i}, !.staged = staged, !.open = open]
    BY <1>3 DEF Job
  <2> QED
    BY <1>2, <2>1
<1> HIDE DEF staged, open
<1>6. /\ job' \in [Processes -> Job] /\ OthersWait(p)
      /\ job'[p].pc = "complete_apply" /\ job'[p].review = job[p].review
      /\ job'[p].lapsed = job[p].lapsed
  BY <1>1, <1>4, <1>5, ApplyEffect
<1>7. items' \subseteq items /\ StatusOnly
  BY <1>1 DEF StatusOnly, tables
<1>8. LocalOK(p)'
  BY <1>1, <1>6, <1>7, CompletingOK DEF Completion
<1>9. clock' \in Nat /\ calls' \in Nat /\ HistoryOK'
  BY <1>1 DEF IInv, TypeOK, HistoryOK, ApplyExtend, At, Here, history
<1> QED
  BY <1>1, <1>6, <1>8, <1>9, ReadStep

\* What the commit of the applied decisions leaves in the locals.
LEMMA ApplyCommitEffect ==
  ASSUME IInv, NEW p \in Processes, ApplyCommit(p)
  PROVE  /\ job' \in [Processes -> Job] /\ OthersWait(p)
         /\ job'[p].pc = "complete_schedule" /\ job'[p].review = job[p].review
         /\ job'[p].lapsed = job[p].lapsed /\ job'[p].todo = {}
         /\ job'[p].open = FALSE
<1> DEFINE j == [job[p] EXCEPT !.pc = "complete_schedule", !.staged = {}, !.open = FALSE]
<1>1. job' = [job EXCEPT ![p] = j] /\ job[p].todo = {}
  BY DEF ApplyCommit
<1>2. job[p] \in Job
  BY DEF IInv, TypeOK
<1>3. /\ j \in Job /\ j.pc = "complete_schedule" /\ j.review = job[p].review
      /\ j.lapsed = job[p].lapsed /\ j.todo = {} /\ j.open = FALSE
  BY <1>1, <1>2 DEF Job, Places
<1> HIDE DEF j
<1>4. job' \in [Processes -> Job] /\ job'[p] = j /\ OthersWait(p)
  BY <1>1, <1>3, JobEffect DEF IInv
<1> QED
  BY <1>3, <1>4

\* The commit of the applied decisions makes the mark visible.
LEMMA ApplyCommitStep ==
  ASSUME IInv, NEW p \in Processes, ApplyCommit(p)
  PROVE  Quiet(p) /\ IInv'
<1>1. /\ job[p].pc = "complete_apply" /\ UNCHANGED <<clock, calls>>
      /\ members' = Extended(p, members) /\ reviews' = Marked(p)
      /\ UNCHANGED <<groups, lastId, items>>
  BY DEF ApplyCommit, At, Here
<1>2. /\ job' \in [Processes -> Job] /\ OthersWait(p)
      /\ job'[p].pc = "complete_schedule" /\ job'[p].review = job[p].review
      /\ job'[p].lapsed = job[p].lapsed
  BY ApplyCommitEffect
<1>3. reviews' \in Seq(ReviewRow) /\ StatusOnly /\ MarksOnly(p)
  BY <1>1, MarkedEffect
<1>4. members' \subseteq MemberRow /\ IsFiniteSet(members')
  BY <1>1, ExtendedEffect
<1>5. Quiet(p)
  BY <1>1, <1>2, <1>3 DEF Quiet
<1>6. LocalOK(p)'
  BY <1>1, <1>2, <1>3, CompletingOK DEF Completion
<1>7. TypeOK'
  BY <1>1, <1>2, <1>3, <1>4 DEF IInv, TypeOK, ApplyCommit, At, Here, history
<1> QED
  BY <1>4, <1>5, <1>6, <1>7, QuietStep

\* The date of the next review is set with the mark, if that is still open.
LEMMA CompleteScheduleStep ==
  ASSUME IInv, NEW p \in Processes, CompleteSchedule(p)
  PROVE  Quiet(p) /\ IInv'
<1> DEFINE g == reviews[job[p].review].group
<1>1. /\ job[p].pc = "complete_schedule" /\ UNCHANGED <<clock, calls>>
      /\ groups' = IF groups[g].enabled
                   THEN [groups EXCEPT ![g].next = clock + IntervalDays] ELSE groups
      /\ reviews' = Marked(p) /\ Finish(p)
      /\ UNCHANGED <<members, lastId, items>>
  BY DEF CompleteSchedule, At, Here
<1>2. job' \in [Processes -> Job] /\ job'[p] = Idle /\ OthersWait(p)
  BY <1>1, FinishEffect DEF IInv
<1>3. reviews' \in Seq(ReviewRow) /\ StatusOnly /\ MarksOnly(p)
  BY <1>1, MarkedEffect
<1>4. clock + IntervalDays \in Nat
  BY ConstantsAssumption DEF IInv, TypeOK
<1>5. groups' \in [Groups -> GroupRow]
  BY <1>1, <1>4 DEF IInv, TypeOK, GroupRow
<1>6. Quiet(p)
  BY <1>1, <1>2, <1>3 DEF Quiet, Idle
<1>7. UNCHANGED <<astray, abandoned>>
  BY DEF CompleteSchedule, At, Here, history
<1>8. TypeOK' /\ IsFiniteSet(members')
  BY <1>1, <1>2, <1>3, <1>5, <1>7 DEF IInv, TypeOK, TablesOK
<1> QED
  BY <1>2, <1>6, <1>8, IdleLocalOK, QuietStep
-----------------------------------------------------------------------------
(***************************************************************************)
(* Members, crashes and the clock                                          *)
(***************************************************************************)
\* Steps that only touch the members and the items of one that goes.
LEMMA MemberSteps ==
  ASSUME IInv, NEW p \in Processes, AddInsert(p) \/ RemoveDelete(p)
  PROVE  Quiet(p) /\ IInv'
<1>1. /\ job' \in [Processes -> Job] /\ job'[p] = Idle /\ OthersWait(p)
      /\ clock' \in Nat /\ calls' \in Nat /\ HistoryOK'
  BY FinishEffect DEF AddInsert, RemoveDelete, At, Here, IInv, TypeOK, HistoryOK, history
<1>2. members' \subseteq MemberRow /\ IsFiniteSet(members') /\ lastId' \in Nat
  <2>1. CASE AddInsert(p)
    <3>1. job[p] \in Job
      BY DEF IInv, TypeOK
    <3>2. PICK g \in Groups, i \in Identities :
             /\ lastId' = lastId + 1
             /\ members' = members \union
                  {[id |-> lastId + 1, group |-> g, identity |-> i, expires |-> None]}
      BY <2>1, <3>1 DEF AddInsert, Job
    <3>3. [id |-> lastId + 1, group |-> g, identity |-> i, expires |-> None] \in MemberRow
      BY DEF MemberRow, IInv, TypeOK
    <3>4. IsFiniteSet(members')
      BY <3>2, FS_AddElement DEF IInv, TablesOK
    <3> QED
      BY <3>2, <3>3, <3>4 DEF IInv, TypeOK
  <2>2. CASE RemoveDelete(p)
    BY <2>2, FS_Subset DEF RemoveDelete, IInv, TypeOK, TablesOK
  <2> QED
    BY <2>1, <2>2
<1>3. UNCHANGED <<groups, reviews>> /\ items' \subseteq items
  BY DEF AddInsert, RemoveDelete
<1>4. Quiet(p)
  BY <1>1, <1>3 DEF Quiet, StatusOnly, MarksOnly, Idle
<1>5. TypeOK'
  BY <1>1, <1>2, <1>3 DEF IInv, TypeOK, HistoryOK
<1> QED
  BY <1>1, <1>2, <1>4, <1>5, IdleLocalOK, QuietStep

\* A process that dies leaves the tables as they are.
LEMMA CrashStep ==
  ASSUME IInv, NEW p \in Processes, Crash(p)
  PROVE  Quiet(p) /\ IInv'
<1>1. job' \in [Processes -> Job] /\ job'[p] = Idle /\ OthersWait(p)
  BY FinishEffect DEF Crash, IInv
<1>2. UNCHANGED <<tables, clock, calls, astray>>
  BY DEF Crash
<1>3. clock' \in Nat /\ calls' \in Nat /\ job'[p].pc # "decide_commit"
  BY <1>1, <1>2 DEF IInv, TypeOK, Idle
<1>4. HistoryOK'
  BY <1>2 DEF Crash, IInv, TypeOK, Job, HistoryOK
<1> QED
  BY <1>1, <1>2, <1>3, <1>4, IdleLocalOK, ReadStep
-----------------------------------------------------------------------------
(***************************************************************************)
(* Creation and decisions                                                  *)
(***************************************************************************)
\* What the first transaction of a creation adds: a review of a group with an
\* undecided item for each of its members.
LEMMA CreateInsertEffect ==
  ASSUME IInv, NEW p \in Processes, CreateInsert(p)
  PROVE  \E g \in Groups :
            LET r == Len(reviews) + 1
            IN  /\ Len(reviews) \in Nat /\ DOMAIN reviews = 1..Len(reviews)
                /\ DOMAIN reviews' = 1..r
                /\ \A x \in DOMAIN reviews : reviews'[x] = reviews[x]
                /\ reviews' \in Seq(ReviewRow)
                /\ reviews'[r].group = g /\ reviews'[r].status = "scheduled"
                /\ reviews'[r].total = Cardinality(MembersOf(g))
                /\ reviews'[r].reviewed = 0 /\ reviews'[r].kept = 0
                /\ reviews'[r].removed = 0
                /\ items' = items \union
                     {[review |-> r, membership |-> m.id, identity |-> m.identity,
                       decision |-> None, expires |-> None, late |-> FALSE]
                           : m \in MembersOf(g)}
                /\ job' \in [Processes -> Job] /\ OthersWait(p)
                /\ job'[p].pc = "create_open" /\ job'[p].review = r
                /\ job'[p].open = job[p].open /\ job'[p].lapsed = job[p].lapsed
<1>1. PICK g \in job[p].groups :
         LET r == Len(reviews) + 1
             auto == IF p \in Schedulers THEN groups[g].auto ELSE job[p].auto
         IN  /\ reviews' = Append(reviews,
                   [group |-> g, status |-> "scheduled", auto |-> auto,
                    created |-> clock, due |-> job[p].due,
                    total |-> Cardinality(MembersOf(g)),
                    reviewed |-> 0, kept |-> 0, removed |-> 0])
             /\ items' = items \union
                   {[review |-> r, membership |-> m.id, identity |-> m.identity,
                     decision |-> None, expires |-> None, late |-> FALSE]
                         : m \in MembersOf(g)}
             /\ job' = [job EXCEPT ![p] =
                   [job[p] EXCEPT !.pc = "create_open", !.review = r,
                                  !.groups = @ \ {g}]]
  BY DEF CreateInsert
<1> DEFINE r == Len(reviews) + 1
           auto == IF p \in Schedulers THEN groups[g].auto ELSE job[p].auto
           row == [group |-> g, status |-> "scheduled", auto |-> auto,
                   created |-> clock, due |-> job[p].due,
                   total |-> Cardinality(MembersOf(g)),
                   reviewed |-> 0, kept |-> 0, removed |-> 0]
           j == [job[p] EXCEPT !.pc = "create_open", !.review = r, !.groups = @ \ {g}]
<1>2. job[p] \in Job /\ reviews \in Seq(ReviewRow) /\ clock \in Nat
  BY DEF IInv, TypeOK
<1>3. g \in Groups
  BY <1>2 DEF Job
<1>4. groups[g] \in GroupRow
  BY <1>3 DEF IInv, TypeOK
<1>5. IsFiniteSet(MembersOf(g))
  BY FS_Subset DEF IInv, TablesOK, MembersOf
<1>6. Cardinality(MembersOf(g)) \in Nat
  BY <1>5, FS_CardinalityType
<1>7. auto \in BOOLEAN
  BY <1>2, <1>4 DEF GroupRow, Job
<1>8. row \in ReviewRow
  BY <1>2, <1>3, <1>6, <1>7 DEF ReviewRow, Statuses, Job
<1>9. Len(reviews) \in Nat /\ DOMAIN reviews = 1..Len(reviews)
  BY RowTypes DEF IInv
<1>10. /\ row.group = g /\ row.status = "scheduled"
       /\ row.total = Cardinality(MembersOf(g))
       /\ row.reviewed = 0 /\ row.kept = 0 /\ row.removed = 0
  OBVIOUS
<1>11. reviews' = Append(reviews, row)
  BY <1>1
<1> HIDE DEF row
<1>12. /\ reviews' \in Seq(ReviewRow) /\ DOMAIN reviews' = 1..r
       /\ \A x \in DOMAIN reviews : reviews'[x] = reviews[x]
       /\ reviews'[r] = row
  BY <1>2, <1>8, <1>9, <1>11, AppendProperties
<1>13. r \in Nat
  BY <1>9
<1>14. job' = [job EXCEPT ![p] = j]
  BY <1>1
<1>15. /\ j \in Job /\ j.pc = "create_open" /\ j.review = r
       /\ j.open = job[p].open /\ j.lapsed = job[p].lapsed
  BY <1>2, <1>13 DEF Job, Places
<1> HIDE DEF j
<1>16. job' \in [Processes -> Job] /\ job'[p] = j /\ OthersWait(p)
  BY <1>14, <1>15, JobEffect DEF IInv
<1> QED
  BY <1>1, <1>3, <1>9, <1>10, <1>12, <1>15, <1>16

\* A creation adds a review and its items, and lets the others be.
LEMMA CreateInsertStep ==
  ASSUME IInv, NEW p \in Processes, CreateInsert(p)
  PROVE  IInv'
<1>1. PICK g \in Groups :
            LET r == Len(reviews) + 1
            IN  /\ Len(reviews) \in Nat /\ DOMAIN reviews = 1..Len(reviews)
                /\ DOMAIN reviews' = 1..r
                /\ \A x \in DOMAIN reviews : reviews'[x] = reviews[x]
                /\ reviews' \in Seq(ReviewRow)
                /\ reviews'[r].status = "scheduled"
                /\ items' = items \union
                     {[review |-> r, membership |-> m.id, identity |-> m.identity,
                       decision |-> None, expires |-> None, late |-> FALSE]
                           : m \in MembersOf(g)}
                /\ job' \in [Processes -> Job] /\ OthersWait(p)
                /\ job'[p].pc = "create_open" /\ job'[p].review = r
                /\ job'[p].open = job[p].open /\ job'[p].lapsed = job[p].lapsed
  BY CreateInsertEffect
<1> DEFINE r == Len(reviews) + 1
           f == [m \in MembersOf(g) |->
                   [review |-> r, membership |-> m.id, identity |-> m.identity,
                    decision |-> None, expires |-> None, late |-> FALSE]]
           new == {f[m] : m \in MembersOf(g)}
<1>2. /\ job[p].pc = "create_insert"
      /\ UNCHANGED <<clock, calls, groups, members, lastId, astray, abandoned>>
  BY DEF CreateInsert, At, Here, history
<1>3. items' = items \union new /\ r \in Nat
  BY <1>1
<1>4. IsFiniteSet(MembersOf(g))
  BY FS_Subset DEF IInv, TablesOK, MembersOf
<1>5. ASSUME NEW m \in MembersOf(g)
      PROVE  f[m] \in ItemRow /\ f[m].review = r
  <2>1. m \in MemberRow
    BY DEF IInv, TypeOK, MembersOf
  <2> QED
    BY <1>3, <2>1 DEF ItemRow, MemberRow
<1> HIDE DEF f
<1>6. IsFiniteSet(new)
  BY <1>4, ImageBound
<1>7. new \subseteq ItemRow /\ \A i \in new : i.review = r
  BY <1>5
<1> HIDE DEF new
<1>8. \A x \in DOMAIN reviews : x # r
  BY <1>1
<1>9. Grows
  BY <1>1, <1>3, <1>7, <1>8 DEF Grows, Undecided, ItemsOf, Decided
<1>10. TypeOK'
  BY <1>1, <1>2, <1>3, <1>7 DEF IInv, TypeOK
<1>11. IsFiniteSet(items')
  BY <1>3, <1>6, FS_Union DEF IInv, TablesOK
<1>12. TablesOK'
  BY <1>1, <1>2, <1>3, <1>7, <1>11 DEF IInv, TablesOK
<1>13. ~job'[p].open /\ job'[p].lapsed \subseteq DOMAIN reviews'
  BY <1>1, <1>2 DEF IInv, LocalsOK, LocalOK, Completion
<1>14. LocalOK(p)'
  BY <1>1, <1>13 DEF LocalOK, Completion
<1>15. LocalsOK'
  BY <1>1, <1>9, <1>14, LocalsFromOne DEF IInv
<1>16. CompletedFullyDecided'
  <2>1. ASSUME NEW x \in DOMAIN reviews', reviews'[x].status = "completed"
        PROVE  Undecided(x)' = {}
    <3>1. x \in DOMAIN reviews /\ reviews[x].status = "completed"
      BY <1>1, <2>1
    <3> QED
      BY <1>9, <3>1 DEF Grows, IInv, CompletedFullyDecided
  <2> QED
    BY <2>1 DEF CompletedFullyDecided
<1> QED
  BY <1>10, <1>12, <1>15, <1>16 DEF IInv

\* What the transaction of a decision sees of its review: as many items, the one
\* it decides among the decided.
LEMMA ViewBounds ==
  ASSUME IInv, NEW p \in Processes, job[p].decision # None
  PROVE  LET r == job[p].review
             open == {i \in Undecided(r) : ~Own(p, i)}
         IN  /\ Progress(p).reviewed \in Nat
             /\ Progress(p).kept \in Nat /\ Progress(p).removed \in Nat
             /\ Progress(p).kept + Progress(p).removed <= Progress(p).reviewed
             /\ Cardinality(open) + Progress(p).reviewed <= Cardinality(ItemsOf(r))
<1> DEFINE r == job[p].review
           open == {i \in Undecided(r) : ~Own(p, i)}
           f == [i \in items |-> IF Own(p, i) THEN [i EXCEPT !.decision = job[p].decision]
                                 ELSE i]
           done == {i \in View(p) : i.decision # None}
           kept == Decided(View(p), "keep")
           removed == Decided(View(p), "remove")
           A == {i \in ItemsOf(r) : i \notin open}
<1>1. IsFiniteSet(ItemsOf(r)) /\ IsFiniteSet(A) /\ IsFiniteSet(open)
      /\ A \subseteq items
  <2>1. ItemsOf(r) \subseteq items /\ A \subseteq items /\ open \subseteq items
    BY DEF ItemsOf, Undecided, Decided
  <2> QED
    BY <2>1, FS_Subset DEF IInv, TablesOK
<1>2. Cardinality(open) + Cardinality(A) = Cardinality(ItemsOf(r))
      /\ Cardinality(open) \in Nat /\ Cardinality(A) \in Nat
  <2>1. open \cap A = {} /\ open \union A = ItemsOf(r)
    BY DEF Undecided, Decided
  <2> HIDE DEF open, A
  <2>2. Cardinality(open \cap A) = 0
    BY <2>1, FS_EmptySet
  <2>3. Cardinality(open \union A)
        = Cardinality(open) + Cardinality(A) - Cardinality(open \cap A)
    BY <1>1, FS_Union
  <2>4. Cardinality(open) \in Nat /\ Cardinality(A) \in Nat
    BY <1>1, FS_CardinalityType
  <2>5. Cardinality(open \union A) = Cardinality(ItemsOf(r))
    BY <2>1, Zenon
  <2> QED
    BY <2>2, <2>3, <2>4, <2>5
<1>3. done \subseteq {f[i] : i \in A}
  <2>1. ASSUME NEW v \in done
        PROVE  v \in {f[i] : i \in A}
    <3>1. PICK i \in ItemsOf(r) :
             v = IF Own(p, i) THEN [i EXCEPT !.decision = job[p].decision] ELSE i
      BY DEF View
    <3>2. i \in items
      BY DEF ItemsOf
    <3>3. v = f[i]
      BY <3>1, <3>2
    <3>4. i \in A
      BY <2>1, <3>1 DEF Undecided, Decided
    <3> QED
      BY <3>3, <3>4
  <2> QED
    BY <2>1
<1>4. IsFiniteSet({f[i] : i \in A}) /\ Cardinality({f[i] : i \in A}) <= Cardinality(A)
  BY <1>1, ImageBound
<1>5. IsFiniteSet(done) /\ Cardinality(done) <= Cardinality({f[i] : i \in A})
  BY <1>3, <1>4, FS_Subset
<1>6. kept \subseteq done /\ removed \subseteq done /\ kept \cap removed = {}
  BY ConstantsAssumption DEF Decided, Decisions
<1>7. Progress(p) = [reviewed |-> Cardinality(done), kept |-> Cardinality(kept),
                     removed |-> Cardinality(removed)]
  BY DEF Progress
<1> HIDE DEF done, kept, removed, open, A, f
<1>8. /\ Cardinality(kept) + Cardinality(removed) <= Cardinality(done)
      /\ Cardinality(kept) \in Nat /\ Cardinality(removed) \in Nat
      /\ Cardinality(done) \in Nat
  <2>1. IsFiniteSet(kept) /\ IsFiniteSet(removed)
    BY <1>5, <1>6, FS_Subset
  <2>2. Cardinality(kept \union removed)
        = Cardinality(kept) + Cardinality(removed) - Cardinality(kept \cap removed)
    BY <2>1, FS_Union
  <2>3. Cardinality(kept \cap removed) = 0
    BY <1>6, FS_EmptySet
  <2>4. kept \union removed \subseteq done
    BY <1>6
  <2>5. Cardinality(kept \union removed) <= Cardinality(done)
    BY <1>5, <2>4, FS_Subset
  <2>6. /\ Cardinality(kept) \in Nat /\ Cardinality(removed) \in Nat
        /\ Cardinality(done) \in Nat
    BY <1>5, <2>1, FS_CardinalityType
  <2> QED
    BY <2>2, <2>3, <2>5, <2>6
<1>9. Cardinality({f[i] : i \in A}) \in Nat
  BY <1>4, FS_CardinalityType
<1> QED
  BY <1>2, <1>4, <1>5, <1>7, <1>8, <1>9 DEF open

\* The count of a reviewer's transaction is kept for its commit.
LEMMA DecideCountEffect ==
  ASSUME IInv, NEW p \in Processes, DecideCount(p)
  PROVE  /\ job' \in [Processes -> Job] /\ OthersWait(p)
         /\ job'[p].pc = "decide_commit" /\ job'[p].counts = Progress(p)
         /\ job'[p].review = job[p].review /\ job'[p].member = job[p].member
         /\ job'[p].decision = job[p].decision /\ job'[p].open = job[p].open
         /\ job'[p].lapsed = job[p].lapsed
<1> DEFINE j == [job[p] EXCEPT !.pc = "decide_commit", !.counts = Progress(p)]
<1>1. job' = [job EXCEPT ![p] = j]
  BY DEF DecideCount
<1>2. job[p] \in Job /\ job[p].decision # None
  BY ConstantsAssumption DEF IInv, TypeOK, LocalsOK, LocalOK, DecideCount, At, Here
<1>3. /\ Progress(p).reviewed \in Nat
      /\ Progress(p).kept \in Nat /\ Progress(p).removed \in Nat
  BY <1>2, ViewBounds
<1>4. Progress(p) \in [reviewed: Nat, kept: Nat, removed: Nat]
  BY <1>3 DEF Progress
<1>5. /\ j \in Job /\ j.pc = "decide_commit" /\ j.counts = Progress(p)
      /\ j.review = job[p].review /\ j.member = job[p].member
      /\ j.decision = job[p].decision /\ j.open = job[p].open
      /\ j.lapsed = job[p].lapsed
  BY <1>2, <1>4 DEF Job, Places
<1> HIDE DEF j
<1>6. job' \in [Processes -> Job] /\ job'[p] = j /\ OthersWait(p)
  BY <1>1, <1>5, JobEffect DEF IInv
<1> QED
  BY <1>5, <1>6

\* Counting changes no table.
LEMMA DecideCountStep ==
  ASSUME IInv, NEW p \in Processes, DecideCount(p)
  PROVE  IInv'
<1>1. /\ UNCHANGED <<tables, clock, calls, astray, abandoned>>
      /\ job[p].pc = "decide_count"
  BY DEF DecideCount, At, Here, history
<1>2. /\ job' \in [Processes -> Job] /\ OthersWait(p)
      /\ job'[p].pc = "decide_commit"
      /\ job'[p].review = job[p].review /\ job'[p].decision = job[p].decision
      /\ job'[p].open = job[p].open /\ job'[p].lapsed = job[p].lapsed
  BY DecideCountEffect
<1>3. Grows
  BY <1>1 DEF Grows, tables, Undecided, ItemsOf, Decided
<1>4. LocalOK(p)
  BY DEF IInv, LocalsOK
<1>5. LocalOK(p)'
  BY <1>1, <1>2, <1>4 DEF LocalOK, Completion, tables
<1>6. LocalsOK'
  BY <1>2, <1>3, <1>5, LocalsFromOne DEF IInv
<1>7. TypeOK'
  BY <1>1, <1>2 DEF IInv, TypeOK, tables
<1>8. TablesOK' /\ CompletedFullyDecided'
  BY <1>1 DEF IInv, TablesOK, CompletedFullyDecided, Undecided, ItemsOf, Decided, tables
<1> QED
  BY <1>6, <1>7, <1>8 DEF IInv

\* A decision changes its own items and the counters of its review, and leaves
\* fewer items undecided.
LEMMA DecideCommitEffect ==
  ASSUME IInv, NEW p \in Processes, DecideCommit(p)
  PROVE  /\ job' \in [Processes -> Job] /\ job'[p] = Idle /\ OthersWait(p)
         /\ job[p].review \in DOMAIN reviews
         /\ reviews' \in Seq(ReviewRow) /\ DOMAIN reviews' = DOMAIN reviews
         /\ \A r \in DOMAIN reviews :
               /\ reviews'[r].status = reviews[r].status
               /\ reviews'[r].auto = reviews[r].auto
               /\ reviews'[r].group = reviews[r].group
               /\ reviews'[r].total = reviews[r].total
         /\ \A r \in DOMAIN reviews : r # job[p].review => reviews'[r] = reviews[r]
         /\ reviews'[job[p].review].reviewed = job[p].counts.reviewed
         /\ reviews'[job[p].review].kept = job[p].counts.kept
         /\ reviews'[job[p].review].removed = job[p].counts.removed
<1> DEFINE r == job[p].review
           row == [reviews[r] EXCEPT !.reviewed = job[p].counts.reviewed,
                                     !.kept = job[p].counts.kept,
                                     !.removed = job[p].counts.removed]
<1>1. job[p].pc = "decide_commit" /\ reviews' = [reviews EXCEPT ![r] = row] /\ Finish(p)
  BY DEF DecideCommit, At, Here
<1>2. job[p] \in Job /\ r \in DOMAIN reviews
  BY <1>1 DEF IInv, TypeOK, LocalsOK, LocalOK
<1>3. TypeOK
  BY DEF IInv
<1>4. \A x \in DOMAIN reviews : reviews[x] \in ReviewRow
  BY <1>3, RowTypes
<1>5. /\ job[p].counts.reviewed \in Nat /\ job[p].counts.kept \in Nat
      /\ job[p].counts.removed \in Nat
  BY <1>2 DEF Job
<1>6. /\ row \in ReviewRow /\ row.status = reviews[r].status
      /\ row.auto = reviews[r].auto /\ row.group = reviews[r].group
      /\ row.total = reviews[r].total
      /\ row.reviewed = job[p].counts.reviewed
      /\ row.kept = job[p].counts.kept /\ row.removed = job[p].counts.removed
  BY <1>2, <1>4, <1>5 DEF ReviewRow
<1> HIDE DEF row
<1>7. reviews \in [1..Len(reviews) -> ReviewRow]
  BY RowTypes, LenProperties DEF IInv, TypeOK
<1>8. /\ DOMAIN reviews' = DOMAIN reviews
      /\ reviews' = [x \in DOMAIN reviews |-> reviews'[x]]
      /\ reviews'[r] = row
      /\ \A x \in DOMAIN reviews : x # r => reviews'[x] = reviews[x]
  BY <1>1, <1>2, <1>7
<1>9. \A x \in DOMAIN reviews : reviews'[x] \in ReviewRow
  BY <1>4, <1>6, <1>8
<1>10. reviews' \in Seq(ReviewRow)
  BY <1>3, <1>8, <1>9, ReviewsType
<1>11. job' \in [Processes -> Job] /\ job'[p] = Idle /\ OthersWait(p)
  BY <1>1, <1>3, FinishEffect
<1> QED
  BY <1>2, <1>6, <1>8, <1>10, <1>11

\* A decision leaves every item in its place.
LEMMA DecideItems ==
  ASSUME IInv, NEW p \in Processes, DecideCommit(p)
  PROVE  /\ items' \subseteq ItemRow /\ IsFiniteSet(items')
         /\ \A v \in items' : \E i \in items :
               /\ v.review = i.review /\ v.membership = i.membership
               /\ v.identity = i.identity
               /\ ~Own(p, i) => v = i
               /\ Own(p, i) => /\ v.decision = job[p].decision
                               /\ v.late = (reviews[i.review].status = "completed")
         /\ \A r : Undecided(r)' \subseteq {i \in Undecided(r) : ~Own(p, i)}
         /\ \A r : /\ IsFiniteSet(ItemsOf(r)) /\ IsFiniteSet(ItemsOf(r)')
                   /\ Cardinality(ItemsOf(r)') <= Cardinality(ItemsOf(r))
<1> DEFINE f == [i \in items |->
                   IF Own(p, i)
                   THEN [i EXCEPT !.decision = job[p].decision,
                                  !.expires = job[p].expires,
                                  !.late = reviews[job[p].review].status = "completed"]
                   ELSE i]
<1>1. items' = {f[i] : i \in items}
  BY DEF DecideCommit
<1>2. job[p] \in Job /\ job[p].decision \in Decisions
  BY DEF IInv, TypeOK, LocalsOK, LocalOK, DecideCommit, At, Here
<1>3. ASSUME NEW i \in items
      PROVE  /\ f[i] \in ItemRow
             /\ f[i].review = i.review /\ f[i].membership = i.membership
             /\ f[i].identity = i.identity
             /\ ~Own(p, i) => f[i] = i
             /\ Own(p, i) => /\ f[i].decision = job[p].decision
                             /\ f[i].late = (reviews[i.review].status = "completed")
  <2>1. i \in ItemRow
    BY DEF IInv, TypeOK
  <2>2. CASE Own(p, i)
    <3>1. f[i] = [i EXCEPT !.decision = job[p].decision, !.expires = job[p].expires,
                           !.late = reviews[job[p].review].status = "completed"]
      BY <2>2
    <3>2. (reviews[job[p].review].status = "completed") \in BOOLEAN
          /\ i.review = job[p].review
      BY <2>2 DEF Own
    <3>3. job[p].expires \in Nat \union {None}
      BY <1>2 DEF Job
    <3> HIDE DEF f
    <3> QED
      BY <1>2, <2>1, <2>2, <3>1, <3>2, <3>3 DEF ItemRow
  <2>3. CASE ~Own(p, i)
    BY <2>1, <2>3
  <2> QED
    BY <2>2, <2>3
<1> HIDE DEF f
<1>4. items' \subseteq ItemRow
  BY <1>1, <1>3
<1>5. IsFiniteSet(items) /\ IsFiniteSet(items')
  BY <1>1, ImageBound DEF IInv, TablesOK
<1>6. ASSUME NEW r
      PROVE  Undecided(r)' \subseteq {i \in Undecided(r) : ~Own(p, i)}
  <2>1. ASSUME NEW v \in items', v.review = r, v.decision = None
        PROVE  v \in {i \in Undecided(r) : ~Own(p, i)}
    <3>1. PICK i \in items : v = f[i]
      BY <1>1
    <3>2. ~Own(p, i)
      BY <1>2, <1>3, <2>1, <3>1, ConstantsAssumption
    <3>3. v = i
      BY <1>3, <3>1, <3>2
    <3> QED
      BY <2>1, <3>2, <3>3 DEF Undecided, ItemsOf, Decided
  <2> QED
    BY <2>1 DEF Undecided, ItemsOf, Decided
<1>7. ASSUME NEW r
      PROVE  /\ IsFiniteSet(ItemsOf(r)) /\ IsFiniteSet(ItemsOf(r)')
             /\ Cardinality(ItemsOf(r)') <= Cardinality(ItemsOf(r))
  <2>1. IsFiniteSet(ItemsOf(r))
    BY <1>5, FS_Subset DEF ItemsOf
  <2> DEFINE S == ItemsOf(r)
             T == {f[i] : i \in S}
  <2>2. ItemsOf(r)' \subseteq T
    BY <1>1, <1>3 DEF ItemsOf
  <2> HIDE DEF S
  <2>3. IsFiniteSet(S)
    BY <2>1 DEF S
  <2>4. IsFiniteSet(T) /\ Cardinality(T) <= Cardinality(S)
    BY <2>3, ImageBound
  <2> HIDE DEF T
  <2>5. IsFiniteSet(ItemsOf(r)') /\ Cardinality(ItemsOf(r)') <= Cardinality(T)
    BY <2>2, <2>4, FS_Subset
  <2>6. /\ Cardinality(S) \in Nat /\ Cardinality(T) \in Nat
        /\ Cardinality(ItemsOf(r)') \in Nat
    BY <2>3, <2>4, <2>5, FS_CardinalityType
  <2>7. Cardinality(ItemsOf(r)') <= Cardinality(S)
    BY <2>4, <2>5, <2>6
  <2> QED
    BY <2>1, <2>5, <2>7 DEF S
<1>8. ASSUME NEW v \in items'
      PROVE  \E i \in items :
               /\ v.review = i.review /\ v.membership = i.membership
               /\ v.identity = i.identity
               /\ ~Own(p, i) => v = i
               /\ Own(p, i) => /\ v.decision = job[p].decision
                               /\ v.late = (reviews[i.review].status = "completed")
  BY <1>1, <1>3
<1> QED
  BY <1>4, <1>5, <1>6, <1>7, <1>8

\* A decision may come late and undoes nothing.
LEMMA DecideCommitStep ==
  ASSUME IInv, NEW p \in Processes, DecideCommit(p)
  PROVE  IInv'
<1>1. UNCHANGED <<clock, calls, groups, members, lastId, astray, abandoned>>
  BY DEF DecideCommit, At, Here, history
<1>2. /\ job' \in [Processes -> Job] /\ job'[p] = Idle /\ OthersWait(p)
      /\ reviews' \in Seq(ReviewRow) /\ DOMAIN reviews' = DOMAIN reviews
      /\ \A r \in DOMAIN reviews : reviews'[r].status = reviews[r].status
  BY DecideCommitEffect
<1>3. /\ items' \subseteq ItemRow /\ IsFiniteSet(items')
      /\ \A v \in items' : \E i \in items : v.review = i.review
      /\ \A r : Undecided(r)' \subseteq {i \in Undecided(r) : ~Own(p, i)}
  BY DecideItems
<1>4. Grows
  BY <1>2, <1>3 DEF Grows
<1>5. LocalsOK'
  BY <1>2, <1>4, IdleLocalOK, LocalsFromOne DEF IInv
<1>6. TypeOK'
  BY <1>1, <1>2, <1>3 DEF IInv, TypeOK
<1>7. TablesOK'
  BY <1>1, <1>2, <1>3 DEF IInv, TablesOK
<1>8. CompletedFullyDecided'
  BY <1>2, <1>3 DEF IInv, CompletedFullyDecided
<1> QED
  BY <1>5, <1>6, <1>7, <1>8 DEF IInv
-----------------------------------------------------------------------------
(***************************************************************************)
(* The invariant                                                           *)
(***************************************************************************)
\* It holds at the start.
LEMMA InitInv == Init => IInv
<1> SUFFICES ASSUME Init
             PROVE  IInv
  OBVIOUS
<1>0. PICK start \in InitMembers :
          /\ members = {[id |-> k, group |-> start[k][1], identity |-> start[k][2],
                         expires |-> None] : k \in DOMAIN start}
          /\ lastId = Len(start)
  BY DEF Init
<1> DEFINE f == [k \in DOMAIN start |->
                   [id |-> k, group |-> start[k][1], identity |-> start[k][2],
                    expires |-> None]]
<1>1. /\ DOMAIN start = 1..Len(start) /\ Len(start) \in Nat
      /\ \A k \in DOMAIN start : start[k] \in Groups \X Identities
  <2>1. start \in Seq(Groups \X Identities)
    BY ConstantsAssumption
  <2> QED
    BY <2>1, LenProperties
<1>2. \A k \in DOMAIN start : f[k] \in MemberRow
  BY <1>1 DEF MemberRow
<1>3. members = {f[k] : k \in DOMAIN start}
  BY <1>0
<1>4. IsFiniteSet(DOMAIN start)
  <2>1. 1 \in Int /\ Len(start) \in Int
    BY <1>1
  <2>2. IsFiniteSet(1..Len(start))
    BY <2>1, FS_Interval, Zenon
  <2>3. DOMAIN start = 1..Len(start)
    BY <1>1
  <2> QED
    BY <2>2, <2>3, Zenon
<1> HIDE DEF f
<1>5. IsFiniteSet(members) /\ members \subseteq MemberRow
  <2>1. IsFiniteSet({f[k] : k \in DOMAIN start})
    BY <1>4, ImageBound
  <2> QED
    BY <1>2, <1>3, <2>1
<1>6. job \in [Processes -> Job] /\ \A p \in Processes : job[p] = Idle
  BY IdleType DEF Init
<1>7. reviews = <<>> /\ items = {} /\ reviews \in Seq(ReviewRow) /\ DOMAIN reviews = {}
  BY DEF Init
<1>8. TypeOK
  <2>1. groups \in [Groups -> GroupRow]
    BY ConstantsAssumption DEF Init
  <2>2. lastId \in Nat
    BY <1>0, <1>1
  <2>3. clock \in Nat /\ calls \in Nat /\ astray = {} /\ abandoned = {}
    BY DEF Init
  <2> QED
    BY <1>5, <1>6, <1>7, <2>1, <2>2, <2>3 DEF TypeOK
<1>9. TablesOK
  BY <1>5, <1>7, FS_EmptySet DEF TablesOK
<1>10. LocalsOK
  BY <1>6 DEF LocalsOK, LocalOK, Idle, Completion
<1>11. CompletedFullyDecided
  BY <1>7 DEF CompletedFullyDecided
<1> QED
  BY <1>8, <1>9, <1>10, <1>11 DEF IInv

\* The steps that are quiet, together.
LEMMA QuietSteps ==
  ASSUME IInv, NEW p \in Processes, Call(p) \/ Continue(p) \/ Crash(p),
         ~CreateInsert(p), ~DecideCount(p), ~DecideCommit(p)
  PROVE  Quiet(p) /\ IInv'
<1>1. CASE Call(p)
  <2>1. CASE CreateCall(p) \/ DecideFind(p) \/ CompleteRead(p) \/ AddCheck(p) \/ RemoveFind(p)
    BY <2>1, CallerBegins
  <2>2. CASE SchedulePass(p) \/ OverdueSelect(p)
    BY <2>2, SchedulerBegins
  <2> QED
    BY <1>1, <2>1, <2>2 DEF Call
<1>2. CASE Continue(p)
  <2>1. CASE CreateOpen(p)
    BY <2>1, CreateOpenStep
  <2>2. CASE CompleteMark(p)
    BY <2>2, CompleteMarkStep
  <2>3. CASE ApplyFind(p) \/ ApplyDelete(p)
    BY <2>3, ApplyFindStep, ApplyDeleteStep
  <2>4. CASE ApplyExtend(p)
    BY <2>4, ApplyExtendStep
  <2>5. CASE ApplyCommit(p)
    BY <2>5, ApplyCommitStep
  <2>6. CASE CompleteSchedule(p)
    BY <2>6, CompleteScheduleStep
  <2>7. CASE OverdueWrite(p)
    BY <2>7, OverdueWriteStep
  <2>8. CASE AddInsert(p) \/ RemoveDelete(p)
    BY <2>8, MemberSteps
  <2> QED
    BY <1>2, <2>1, <2>2, <2>3, <2>4, <2>5, <2>6, <2>7, <2>8 DEF Continue
<1>3. CASE Crash(p)
  BY <1>3, CrashStep
<1> QED
  BY <1>1, <1>2, <1>3

\* A day that passes, or nothing.
LEMMA TickStep ==
  ASSUME IInv, Tick \/ UNCHANGED vars
  PROVE  IInv' /\ UNCHANGED <<tables, job, astray, abandoned>>
<1>1. /\ UNCHANGED <<tables, job, calls, astray, abandoned>>
      /\ clock' = clock \/ clock' = clock + 1
  BY DEF Tick, vars, tables, history
<1>2. TypeOK'
  BY <1>1 DEF IInv, TypeOK, tables
<1>3. TablesOK' /\ CompletedFullyDecided'
  BY <1>1 DEF IInv, TablesOK, CompletedFullyDecided, Undecided, ItemsOf, Decided, tables
<1>4. LocalsOK'
  BY <1>1 DEF IInv, LocalsOK, LocalOK, Undecided, ItemsOf, Decided, tables
<1> QED
  BY <1>1, <1>2, <1>3, <1>4 DEF IInv

\* Every step keeps it.
LEMMA NextInv == IInv /\ [Next]_vars => IInv'
<1> SUFFICES ASSUME IInv, [Next]_vars
             PROVE  IInv'
  OBVIOUS
<1>1. CASE Tick \/ UNCHANGED vars
  BY <1>1, TickStep
<1>2. ASSUME NEW p \in Processes, Call(p) \/ Continue(p) \/ Crash(p)
      PROVE  IInv'
  BY <1>2, CreateInsertStep, DecideCountStep, DecideCommitStep, QuietSteps
<1> QED
  BY <1>1, <1>2 DEF Next

\* The reviews, their items, the members and every process's locals have their
\* types in every reachable state.
THEOREM TypeCorrect == Spec => []TypeOK
<1>1. IInv => TypeOK
  BY DEF IInv
<1> QED
  BY <1>1, InitInv, NextInv, PTL DEF Spec

\* A completed review has no undecided item, whatever was decided, removed or
\* reopened between the check of complete_review and its commit.
THEOREM CompletedFullyDecidedTheorem == Spec => []CompletedFullyDecided
<1>1. IInv => CompletedFullyDecided
  BY DEF IInv
<1> QED
  BY <1>1, InitInv, NextInv, PTL DEF Spec
-----------------------------------------------------------------------------
(***************************************************************************)
(* The progress of a review                                                *)
(***************************************************************************)
\* The undecided items that p's transaction leaves undecided.
LeftOpen(p) == {i \in Undecided(job[p].review) : ~Own(p, i)}

\* The rest of a review is large enough for what p is about to write into it.
PendingOK(p) ==
    LET r == job[p].review
        c == job[p].counts
    IN  job[p].pc = "decide_commit" =>
            /\ Cardinality(LeftOpen(p)) + c.reviewed <= reviews[r].total
            /\ c.kept + c.removed <= c.reviewed

\* A review never has more items than it was created with.
NoItemsAdded == \A r \in DOMAIN reviews : Cardinality(ItemsOf(r)) <= reviews[r].total

CountersInv ==
    /\ NoItemsAdded
    /\ ProgressNeverOverstates
    /\ \A p \in Processes : PendingOK(p)

\* All the sets that are counted are finite, and all the numbers are numbers.
LEMMA CountTypes ==
  ASSUME IInv
  PROVE  /\ \A r : /\ IsFiniteSet(ItemsOf(r)) /\ Cardinality(ItemsOf(r)) \in Nat
                   /\ IsFiniteSet(Undecided(r)) /\ Cardinality(Undecided(r)) \in Nat
         /\ \A p : IsFiniteSet(LeftOpen(p)) /\ Cardinality(LeftOpen(p)) \in Nat
         /\ \A r \in DOMAIN reviews :
               /\ reviews[r].total \in Nat /\ reviews[r].reviewed \in Nat
               /\ reviews[r].kept \in Nat /\ reviews[r].removed \in Nat
         /\ \A p \in Processes :
               /\ job[p].counts.reviewed \in Nat /\ job[p].counts.kept \in Nat
               /\ job[p].counts.removed \in Nat
<1>1. ASSUME NEW r
      PROVE  /\ IsFiniteSet(ItemsOf(r)) /\ Cardinality(ItemsOf(r)) \in Nat
             /\ IsFiniteSet(Undecided(r)) /\ Cardinality(Undecided(r)) \in Nat
  <2>1. ItemsOf(r) \subseteq items /\ Undecided(r) \subseteq items
    BY DEF ItemsOf, Undecided, Decided
  <2>2. IsFiniteSet(ItemsOf(r)) /\ IsFiniteSet(Undecided(r))
    BY <2>1, FS_Subset DEF IInv, TablesOK
  <2> QED
    BY <2>2, FS_CardinalityType
<1>2. ASSUME NEW p
      PROVE  IsFiniteSet(LeftOpen(p)) /\ Cardinality(LeftOpen(p)) \in Nat
  <2>1. LeftOpen(p) \subseteq Undecided(job[p].review)
    BY DEF LeftOpen
  <2>2. IsFiniteSet(LeftOpen(p))
    BY <1>1, <2>1, FS_Subset
  <2> QED
    BY <2>2, FS_CardinalityType
<1>3. \A r \in DOMAIN reviews :
         /\ reviews[r].total \in Nat /\ reviews[r].reviewed \in Nat
         /\ reviews[r].kept \in Nat /\ reviews[r].removed \in Nat
  BY RowTypes DEF IInv, ReviewRow
<1>4. \A p \in Processes :
         /\ job[p].counts.reviewed \in Nat /\ job[p].counts.kept \in Nat
         /\ job[p].counts.removed \in Nat
  BY DEF IInv, TypeOK, Job
<1> QED
  BY <1>1, <1>2, <1>3, <1>4

\* Fewer undecided items leave room for what a process is about to write.
LEMMA PendingStays ==
  ASSUME IInv, NEW q \in Processes, PendingOK(q), job'[q] = job[q],
         NEW r \in DOMAIN reviews, r = job[q].review, r \in DOMAIN reviews',
         reviews'[r].total = reviews[r].total, Undecided(r)' \subseteq Undecided(r)
  PROVE  PendingOK(q)'
<1>1. LeftOpen(q)' \subseteq LeftOpen(q)
  BY DEF LeftOpen, Own
<1>2. IsFiniteSet(LeftOpen(q)') /\ Cardinality(LeftOpen(q)') <= Cardinality(LeftOpen(q))
  BY <1>1, CountTypes, FS_Subset
<1>3. /\ Cardinality(LeftOpen(q)') \in Nat /\ Cardinality(LeftOpen(q)) \in Nat
      /\ reviews[r].total \in Nat
      /\ job[q].counts.reviewed \in Nat
  BY <1>2, CountTypes, FS_CardinalityType
<1> QED
  BY <1>2, <1>3 DEF PendingOK

\* A review whose items only go and whose counters stand shows no more than before.
LEMMA RoomStays ==
  ASSUME IInv, CountersInv, NEW r \in DOMAIN reviews, r \in DOMAIN reviews',
         ItemsOf(r)' \subseteq ItemsOf(r), Undecided(r)' \subseteq Undecided(r),
         reviews'[r].total = reviews[r].total,
         reviews'[r].reviewed = reviews[r].reviewed,
         reviews'[r].kept = reviews[r].kept, reviews'[r].removed = reviews[r].removed
  PROVE  /\ Cardinality(ItemsOf(r)') <= reviews'[r].total
         /\ Cardinality(Undecided(r)') + reviews'[r].reviewed <= reviews'[r].total
         /\ reviews'[r].kept + reviews'[r].removed <= reviews'[r].reviewed
<1>1. /\ IsFiniteSet(ItemsOf(r)) /\ Cardinality(ItemsOf(r)) \in Nat
      /\ IsFiniteSet(Undecided(r)) /\ Cardinality(Undecided(r)) \in Nat
      /\ reviews[r].total \in Nat /\ reviews[r].reviewed \in Nat
  BY CountTypes
<1>2. /\ IsFiniteSet(ItemsOf(r)') /\ Cardinality(ItemsOf(r)') <= Cardinality(ItemsOf(r))
      /\ IsFiniteSet(Undecided(r)')
      /\ Cardinality(Undecided(r)') <= Cardinality(Undecided(r))
  BY <1>1, FS_Subset
<1>3. Cardinality(ItemsOf(r)') \in Nat /\ Cardinality(Undecided(r)') \in Nat
  BY <1>2, FS_CardinalityType
<1>4. /\ Cardinality(ItemsOf(r)) <= reviews[r].total
      /\ Cardinality(Undecided(r)) + reviews[r].reviewed <= reviews[r].total
      /\ reviews[r].kept + reviews[r].removed <= reviews[r].reviewed
  BY DEF CountersInv, NoItemsAdded, ProgressNeverOverstates
<1> QED
  BY <1>1, <1>2, <1>3, <1>4

\* A quiet step counts nothing and adds no item.
LEMMA QuietCounters ==
  ASSUME IInv, CountersInv, NEW p \in Processes, Quiet(p)
  PROVE  CountersInv'
<1>1. /\ DOMAIN reviews' = DOMAIN reviews
      /\ \A r \in DOMAIN reviews :
            /\ reviews'[r].total = reviews[r].total
            /\ reviews'[r].reviewed = reviews[r].reviewed
            /\ reviews'[r].kept = reviews[r].kept
            /\ reviews'[r].removed = reviews[r].removed
  BY DEF Quiet, StatusOnly
<1>2. \A r : ItemsOf(r)' \subseteq ItemsOf(r) /\ Undecided(r)' \subseteq Undecided(r)
  BY DEF Quiet, ItemsOf, Undecided, Decided
<1>3. NoItemsAdded' /\ ProgressNeverOverstates'
  <2>1. ASSUME NEW r \in DOMAIN reviews'
        PROVE  /\ Cardinality(ItemsOf(r)') <= reviews'[r].total
               /\ Cardinality(Undecided(r)') + reviews'[r].reviewed <= reviews'[r].total
               /\ reviews'[r].kept + reviews'[r].removed <= reviews'[r].reviewed
    BY <1>1, <1>2, RoomStays
  <2> QED
    BY <2>1 DEF NoItemsAdded, ProgressNeverOverstates
<1>4. ASSUME NEW q \in Processes
      PROVE  PendingOK(q)'
  <2>1. CASE q = p \/ job[q].pc # "decide_commit"
    BY <2>1 DEF Quiet, OthersWait, PendingOK
  <2>2. CASE q # p /\ job[q].pc = "decide_commit"
    <3>1. job[q].review \in DOMAIN reviews
      BY <2>2 DEF IInv, LocalsOK, LocalOK
    <3>2. job'[q] = job[q] /\ PendingOK(q)
      BY <2>2 DEF Quiet, OthersWait, CountersInv
    <3> QED
      BY <1>1, <1>2, <3>1, <3>2, PendingStays
  <2> QED
    BY <2>1, <2>2
<1> QED
  BY <1>3, <1>4 DEF CountersInv

\* A new review shows no progress and has an item for each of its members.
LEMMA CreateCounters ==
  ASSUME IInv, CountersInv, NEW p \in Processes, CreateInsert(p)
  PROVE  CountersInv'
<1>1. PICK g \in Groups :
            LET r == Len(reviews) + 1
            IN  /\ Len(reviews) \in Nat /\ DOMAIN reviews = 1..Len(reviews)
                /\ DOMAIN reviews' = 1..r
                /\ \A x \in DOMAIN reviews : reviews'[x] = reviews[x]
                /\ reviews'[r].total = Cardinality(MembersOf(g))
                /\ reviews'[r].reviewed = 0 /\ reviews'[r].kept = 0
                /\ reviews'[r].removed = 0
                /\ items' = items \union
                     {[review |-> r, membership |-> m.id, identity |-> m.identity,
                       decision |-> None, expires |-> None, late |-> FALSE]
                           : m \in MembersOf(g)}
                /\ OthersWait(p) /\ job'[p].pc = "create_open"
  BY CreateInsertEffect
<1>0. PICK new \in Nat : new = Len(reviews) + 1
  BY <1>1
<1> DEFINE f == [m \in MembersOf(g) |->
                   [review |-> new, membership |-> m.id, identity |-> m.identity,
                    decision |-> None, expires |-> None, late |-> FALSE]]
           added == {f[m] : m \in MembersOf(g)}
<1>2. items' = items \union added /\ \A m \in MembersOf(g) : f[m].review = new
  BY <1>0, <1>1
<1>3. IsFiniteSet(MembersOf(g)) /\ Cardinality(MembersOf(g)) \in Nat
  <2>1. IsFiniteSet(MembersOf(g))
    BY FS_Subset DEF IInv, TablesOK, MembersOf
  <2> QED
    BY <2>1, FS_CardinalityType
<1> HIDE DEF f
<1>4. IsFiniteSet(added) /\ Cardinality(added) <= Cardinality(MembersOf(g))
  BY <1>3, ImageBound
<1>5. \A i \in added : i.review = new
  BY <1>2
<1>6. Cardinality(added) \in Nat
  BY <1>4, FS_CardinalityType
<1> HIDE DEF added
<1>7. /\ \A r \in DOMAIN reviews : r # new
      /\ \A i \in items : i.review # new
  BY <1>0, <1>1 DEF IInv, TablesOK
<1>8. \A r \in DOMAIN reviews :
         ItemsOf(r)' \subseteq ItemsOf(r) /\ Undecided(r)' \subseteq Undecided(r)
  BY <1>2, <1>5, <1>7 DEF ItemsOf, Undecided, Decided
<1>9. ItemsOf(new)' \subseteq added /\ Undecided(new)' \subseteq added
  BY <1>2, <1>7 DEF ItemsOf, Undecided, Decided
<1>10. /\ Cardinality(ItemsOf(new)') \in Nat /\ Cardinality(Undecided(new)') \in Nat
       /\ Cardinality(ItemsOf(new)') <= Cardinality(added)
       /\ Cardinality(Undecided(new)') <= Cardinality(added)
  <2>1. /\ IsFiniteSet(ItemsOf(new)') /\ IsFiniteSet(Undecided(new)')
        /\ Cardinality(ItemsOf(new)') <= Cardinality(added)
        /\ Cardinality(Undecided(new)') <= Cardinality(added)
    BY <1>4, <1>9, FS_Subset
  <2> QED
    BY <2>1, FS_CardinalityType
<1>11. NoItemsAdded' /\ ProgressNeverOverstates'
  <2>1. ASSUME NEW r \in DOMAIN reviews'
        PROVE  /\ Cardinality(ItemsOf(r)') <= reviews'[r].total
               /\ Cardinality(Undecided(r)') + reviews'[r].reviewed <= reviews'[r].total
               /\ reviews'[r].kept + reviews'[r].removed <= reviews'[r].reviewed
    <3>1. CASE r = new
      BY <1>0, <1>1, <1>3, <1>4, <1>6, <1>10, <3>1
    <3>2. CASE r # new
      <4>1. r \in DOMAIN reviews
        BY <1>0, <1>1, <3>2
      <4> QED
        BY <1>1, <1>8, <4>1, RoomStays
    <3> QED
      BY <3>1, <3>2
  <2> QED
    BY <2>1 DEF NoItemsAdded, ProgressNeverOverstates
<1>12. ASSUME NEW q \in Processes
       PROVE  PendingOK(q)'
  <2>1. CASE q = p \/ job[q].pc # "decide_commit"
    BY <1>1, <2>1 DEF OthersWait, PendingOK
  <2>2. CASE q # p /\ job[q].pc = "decide_commit"
    <3>1. job[q].review \in DOMAIN reviews
      BY <2>2 DEF IInv, LocalsOK, LocalOK
    <3>2. job'[q] = job[q] /\ PendingOK(q)
      BY <1>1, <2>2 DEF OthersWait, CountersInv
    <3>3. /\ job[q].review \in DOMAIN reviews'
          /\ reviews'[job[q].review].total = reviews[job[q].review].total
      BY <1>1, <3>1
    <3> QED
      BY <1>8, <3>1, <3>2, <3>3, PendingStays
  <2> QED
    BY <2>1, <2>2
<1> QED
  BY <1>11, <1>12 DEF CountersInv

\* What a transaction counts leaves room for what it does not decide.
LEMMA CountCounters ==
  ASSUME IInv, CountersInv, NEW p \in Processes, DecideCount(p)
  PROVE  CountersInv'
<1>1. UNCHANGED tables /\ job[p].pc = "decide_count"
  BY DEF DecideCount, At, Here
<1>2. /\ OthersWait(p)
      /\ job'[p].counts = Progress(p)
      /\ job'[p].review = job[p].review /\ job'[p].member = job[p].member
  BY DecideCountEffect
<1>3. \A r : ItemsOf(r)' = ItemsOf(r) /\ Undecided(r)' = Undecided(r)
  BY <1>1 DEF tables, ItemsOf, Undecided, Decided
<1>4. NoItemsAdded' /\ ProgressNeverOverstates'
  <2>1. reviews' = reviews
    BY <1>1 DEF tables
  <2> QED
    BY <1>3, <2>1 DEF CountersInv, NoItemsAdded, ProgressNeverOverstates
<1>5. PendingOK(p)'
  <2> DEFINE r == job[p].review
  <2>1. r \in DOMAIN reviews /\ job[p].decision # None
    BY <1>1, ConstantsAssumption DEF IInv, LocalsOK, LocalOK
  <2>2. /\ Progress(p).reviewed \in Nat
        /\ Progress(p).kept + Progress(p).removed <= Progress(p).reviewed
        /\ Cardinality(LeftOpen(p)) + Progress(p).reviewed <= Cardinality(ItemsOf(r))
    BY <2>1, ViewBounds DEF LeftOpen
  <2>3. Cardinality(ItemsOf(r)) <= reviews[r].total
    BY <2>1 DEF CountersInv, NoItemsAdded
  <2>4. /\ Cardinality(LeftOpen(p)) \in Nat /\ Cardinality(ItemsOf(r)) \in Nat
        /\ reviews[r].total \in Nat
    BY <2>1, CountTypes
  <2>5. Cardinality(LeftOpen(p)) + Progress(p).reviewed <= reviews[r].total
    BY <2>2, <2>3, <2>4
  <2>6. LeftOpen(p)' = LeftOpen(p)
    BY <1>2, <1>3 DEF LeftOpen, Own
  <2>7. reviews' = reviews
    BY <1>1 DEF tables
  <2> HIDE DEF r
  <2>8. job'[p].review = r
    BY <1>2 DEF r
  <2> QED
    BY <1>2, <2>2, <2>5, <2>6, <2>7, <2>8 DEF PendingOK
<1>6. ASSUME NEW q \in Processes, q # p
      PROVE  PendingOK(q)'
  <2>1. job'[q] = job[q] /\ PendingOK(q) /\ reviews' = reviews
    BY <1>1, <1>2, <1>6 DEF OthersWait, CountersInv, tables
  <2>2. LeftOpen(q)' = LeftOpen(q)
    BY <1>3, <2>1 DEF LeftOpen, Own
  <2> QED
    BY <2>1, <2>2 DEF PendingOK
<1> QED
  BY <1>4, <1>5, <1>6 DEF CountersInv

\* The commit writes what was counted, and by then its item is decided.
LEMMA CommitCounters ==
  ASSUME IInv, CountersInv, NEW p \in Processes, DecideCommit(p)
  PROVE  CountersInv'
<1> PICK mine : mine = job[p].review
  OBVIOUS
<1>1. /\ OthersWait(p) /\ job'[p] = Idle
      /\ mine \in DOMAIN reviews /\ DOMAIN reviews' = DOMAIN reviews
      /\ \A r \in DOMAIN reviews : reviews'[r].total = reviews[r].total
      /\ \A r \in DOMAIN reviews : r # mine => reviews'[r] = reviews[r]
      /\ reviews'[mine].reviewed = job[p].counts.reviewed
      /\ reviews'[mine].kept = job[p].counts.kept
      /\ reviews'[mine].removed = job[p].counts.removed
  BY DecideCommitEffect
<1>2. /\ \A r : Undecided(r)' \subseteq {i \in Undecided(r) : ~Own(p, i)}
      /\ \A r : /\ IsFiniteSet(ItemsOf(r)) /\ IsFiniteSet(ItemsOf(r)')
                /\ Cardinality(ItemsOf(r)') <= Cardinality(ItemsOf(r))
  BY DecideItems
<1>3. \A r : Undecided(r)' \subseteq Undecided(r)
  BY <1>2
<1>4. ASSUME NEW r \in DOMAIN reviews
      PROVE  Cardinality(ItemsOf(r)') <= reviews'[r].total
  <2>1. Cardinality(ItemsOf(r)') \in Nat /\ Cardinality(ItemsOf(r)) \in Nat
    BY <1>2, FS_CardinalityType
  <2>2. Cardinality(ItemsOf(r)) <= reviews[r].total /\ reviews[r].total \in Nat
    BY CountTypes DEF CountersInv, NoItemsAdded
  <2> QED
    BY <1>1, <1>2, <2>1, <2>2
<1>5. ASSUME NEW r \in DOMAIN reviews, r # mine
      PROVE  /\ Cardinality(Undecided(r)') + reviews'[r].reviewed <= reviews'[r].total
             /\ reviews'[r].kept + reviews'[r].removed <= reviews'[r].reviewed
  <2>1. /\ IsFiniteSet(Undecided(r)) /\ Cardinality(Undecided(r)) \in Nat
        /\ reviews[r].total \in Nat /\ reviews[r].reviewed \in Nat
    BY CountTypes
  <2>2. /\ IsFiniteSet(Undecided(r)')
        /\ Cardinality(Undecided(r)') <= Cardinality(Undecided(r))
    BY <1>3, <2>1, FS_Subset
  <2>3. Cardinality(Undecided(r)') \in Nat
    BY <2>2, FS_CardinalityType
  <2>4. /\ Cardinality(Undecided(r)) + reviews[r].reviewed <= reviews[r].total
        /\ reviews[r].kept + reviews[r].removed <= reviews[r].reviewed
    BY DEF CountersInv, ProgressNeverOverstates
  <2>5. reviews'[r] = reviews[r]
    BY <1>1, <1>5
  <2> QED
    BY <2>1, <2>2, <2>3, <2>4, <2>5
<1>6. /\ Cardinality(Undecided(mine)') + reviews'[mine].reviewed <= reviews'[mine].total
      /\ reviews'[mine].kept + reviews'[mine].removed <= reviews'[mine].reviewed
  <2>1. PendingOK(p) /\ job[p].pc = "decide_commit"
    BY DEF CountersInv, DecideCommit, At, Here
  <2>2. /\ Cardinality(LeftOpen(p)) + job[p].counts.reviewed <= reviews[mine].total
        /\ job[p].counts.kept + job[p].counts.removed <= job[p].counts.reviewed
    BY <2>1 DEF PendingOK
  <2>3. /\ IsFiniteSet(LeftOpen(p)) /\ Cardinality(LeftOpen(p)) \in Nat
        /\ reviews[mine].total \in Nat /\ job[p].counts.reviewed \in Nat
    BY <1>1, CountTypes
  <2>4. Undecided(mine)' \subseteq LeftOpen(p)
    BY <1>2 DEF LeftOpen
  <2>5. /\ IsFiniteSet(Undecided(mine)')
        /\ Cardinality(Undecided(mine)') <= Cardinality(LeftOpen(p))
    BY <2>3, <2>4, FS_Subset
  <2>6. Cardinality(Undecided(mine)') \in Nat
    BY <2>5, FS_CardinalityType
  <2> QED
    BY <1>1, <2>2, <2>3, <2>5, <2>6
<1>7. NoItemsAdded' /\ ProgressNeverOverstates'
  BY <1>1, <1>4, <1>5, <1>6 DEF NoItemsAdded, ProgressNeverOverstates
<1>8. ASSUME NEW q \in Processes
      PROVE  PendingOK(q)'
  <2>1. CASE q = p
    BY <1>1, <2>1 DEF PendingOK, Idle
  <2>2. CASE q # p /\ job[q].pc # "decide_commit"
    BY <1>1, <2>2 DEF OthersWait, PendingOK
  <2>3. CASE q # p /\ job[q].pc = "decide_commit"
    <3>1. job[q].review \in DOMAIN reviews
      BY <2>3 DEF IInv, LocalsOK, LocalOK
    <3>2. job'[q] = job[q] /\ PendingOK(q)
      BY <1>1, <2>3 DEF OthersWait, CountersInv
    <3> QED
      BY <1>1, <1>3, <3>1, <3>2, PendingStays
  <2> QED
    BY <2>1, <2>2, <2>3
<1> QED
  BY <1>7, <1>8 DEF CountersInv

\* The counters of every review stay within its items at every step.
LEMMA NextCounters == IInv /\ CountersInv /\ [Next]_vars => CountersInv'
<1> SUFFICES ASSUME IInv, CountersInv, [Next]_vars
             PROVE  CountersInv'
  OBVIOUS
<1>1. CASE Tick \/ UNCHANGED vars
  <2>1. reviews' = reviews /\ items' = items /\ job' = job
    BY <1>1, TickStep DEF tables
  <2> QED
    BY <2>1 DEF CountersInv, NoItemsAdded, ProgressNeverOverstates, PendingOK, LeftOpen,
                Own, Undecided, ItemsOf, Decided
<1>2. ASSUME NEW p \in Processes, Call(p) \/ Continue(p) \/ Crash(p)
      PROVE  CountersInv'
  BY <1>2, CreateCounters, CountCounters, CommitCounters, QuietSteps, QuietCounters
<1> QED
  BY <1>1, <1>2 DEF Next

\* However the transactions of concurrent reviewers, completions and removals of
\* members interleave, the counters that submit_review_decision writes from what it
\* counted earlier never show more progress than was made.
THEOREM ProgressNeverOverstatesTheorem == Spec => []ProgressNeverOverstates
<1>1. Init => CountersInv
  BY DEF Init, CountersInv, NoItemsAdded, ProgressNeverOverstates, PendingOK, Idle
<1>2. CountersInv => ProgressNeverOverstates
  BY DEF CountersInv
<1> QED
  BY <1>1, <1>2, InitInv, NextInv, NextCounters, PTL DEF Spec
-----------------------------------------------------------------------------
(***************************************************************************)
(* Who reopens a review                                                    *)
(***************************************************************************)
Writing == {"create_open", "overdue_write"}

\* Process p begins.
Starts(p) ==
    /\ job[p].pc = "idle" /\ ~job'[p].open
    /\ job'[p].pc \notin {"complete_apply", "complete_delete", "complete_schedule"}

\* An operation that begins takes hold of no review but a lapsed one, to write its
\* status.
LEMMA BeginHolds ==
  ASSUME IInv, NEW p \in Processes, Call(p), ~OverdueSelect(p)
  PROVE  job'[p].pc \notin Writing /\ reviews' = reviews /\ Starts(p)
<1>1. ASSUME NEW op, NEW j, Begin(p, op, j)
      PROVE  job[p].pc = "idle" /\ job'[p] = j
  BY <1>1 DEF Begin, IInv, TypeOK
<1>2. CASE CreateCall(p)
  <2>1. PICK g \in Groups, due \in {clock, clock + DueDays}, auto \in BOOLEAN :
           /\ Begin(p, "create", [Idle EXCEPT !.pc = "create_insert", !.groups = {g},
                                              !.due = due, !.auto = auto])
           /\ UNCHANGED tables
    BY <1>2 DEF CreateCall
  <2>2. job[p].pc = "idle" /\ job'[p] =
          [Idle EXCEPT !.pc = "create_insert", !.groups = {g}, !.due = due, !.auto = auto]
    BY <1>1, <2>1
  <2> QED
    BY <2>1, <2>2 DEF Idle, tables, Writing, Starts
<1>3. CASE DecideFind(p)
  <2>1. PICK i \in items, d \in Decisions, e \in Expiries \union {None} :
           /\ Begin(p, "decide", [Idle EXCEPT !.pc = "decide_count", !.review = i.review,
                         !.member = i.membership, !.decision = d, !.expires = e])
           /\ UNCHANGED tables
    BY <1>3 DEF DecideFind
  <2>2. job[p].pc = "idle" /\ job'[p] =
          [Idle EXCEPT !.pc = "decide_count", !.review = i.review,
                       !.member = i.membership, !.decision = d, !.expires = e]
    BY <1>1, <2>1
  <2> QED
    BY <2>1, <2>2 DEF Idle, tables, Writing, Starts
<1>4. CASE CompleteRead(p) /\ p \in Callers
  <2>1. PICK r \in DOMAIN reviews :
           /\ Begin(p, "complete", [Idle EXCEPT !.pc = "complete_mark", !.review = r])
           /\ UNCHANGED tables
    BY <1>4 DEF CompleteRead
  <2>2. job[p].pc = "idle" /\ job'[p] = [Idle EXCEPT !.pc = "complete_mark", !.review = r]
    BY <1>1, <2>1
  <2> QED
    BY <1>4, <2>1, <2>2 DEF Idle, tables, Writing, Starts
<1>5. CASE AddCheck(p)
  <2>1. PICK g \in Groups, i \in Identities :
           /\ Begin(p, "add", [Idle EXCEPT !.pc = "add_insert", !.groups = {g},
                                           !.people = {i}])
           /\ UNCHANGED tables
    BY <1>5 DEF AddCheck
  <2>2. /\ job[p].pc = "idle"
        /\ job'[p] = [Idle EXCEPT !.pc = "add_insert", !.groups = {g}, !.people = {i}]
    BY <1>1, <2>1
  <2> QED
    BY <2>1, <2>2 DEF Idle, tables, Writing, Starts
<1>6. CASE RemoveFind(p)
  <2>1. PICK m \in members :
           /\ Begin(p, "remove", [Idle EXCEPT !.pc = "remove_delete", !.member = m.id])
           /\ UNCHANGED tables
    BY <1>6 DEF RemoveFind
  <2>2. /\ job[p].pc = "idle"
        /\ job'[p] = [Idle EXCEPT !.pc = "remove_delete", !.member = m.id]
    BY <1>1, <2>1
  <2> QED
    BY <2>1, <2>2 DEF Idle, tables, Writing, Starts
<1>7. CASE SchedulePass(p)
  <2>1. /\ Begin(p, "schedule", [Idle EXCEPT !.pc = "create_insert",
                                  !.groups = DueGroups, !.due = clock + DueDays])
        /\ UNCHANGED tables
    BY <1>7 DEF SchedulePass
  <2>2. job[p].pc = "idle" /\ job'[p] =
          [Idle EXCEPT !.pc = "create_insert", !.groups = DueGroups,
                       !.due = clock + DueDays]
    BY <1>1, <2>1
  <2> QED
    BY <2>1, <2>2 DEF Idle, tables, Writing, Starts
<1> QED
  BY <1>2, <1>3, <1>4, <1>5, <1>6, <1>7 DEF Call

\* What an overdue pass takes hold of is open.
LEMMA OverdueHolds ==
  ASSUME IInv, NEW p \in Processes, OverdueSelect(p)
  PROVE  /\ reviews' = reviews /\ job'[p].pc = "overdue_write"
         /\ \A r \in job'[p].lapsed : reviews[r].status # "completed"
         /\ Starts(p)
<1> DEFINE late == {r \in DOMAIN reviews : Lapsed(r)}
           j == [Idle EXCEPT !.pc = "overdue_write", !.lapsed = late]
<1>1. Begin(p, "overdue", j) /\ UNCHANGED tables
  BY DEF OverdueSelect
<1>2. j.pc = "overdue_write" /\ j.lapsed = late /\ j.open = FALSE
  BY DEF Idle
<1> HIDE DEF j
<1>3. job[p].pc = "idle" /\ job'[p] = j
  BY <1>1 DEF Begin, IInv, TypeOK
<1>4. \A r \in late : reviews[r].status # "completed"
  BY DEF Lapsed
<1> QED
  BY <1>1, <1>2, <1>3, <1>4 DEF tables, Starts

\* An operation that goes on takes hold of no review but the one it creates, and
\* only the two writes of a status reopen one.
LEMMA ContinueHolds ==
  ASSUME IInv, NEW p \in Processes, Continue(p) \/ Crash(p)
  PROVE  /\ job'[p].pc \in Writing =>
                job'[p].pc = "create_open" /\ job'[p].review \notin DOMAIN reviews
         /\ \A r \in DOMAIN reviews :
               (reviews[r].status = "completed" /\ reviews'[r].status # "completed")
                   => Reopens(p, r)
<1>1. CASE CreateInsert(p)
  <2>1. /\ \A x \in DOMAIN reviews : reviews'[x] = reviews[x]
        /\ Len(reviews) \in Nat /\ DOMAIN reviews = 1..Len(reviews)
        /\ job'[p].pc = "create_open" /\ job'[p].review = Len(reviews) + 1
    BY <1>1, CreateInsertEffect
  <2> QED
    BY <2>1
<1>2. CASE CreateOpen(p)
  <2>1. job'[p].pc \in {"idle", "create_insert"}
    <3>1. CASE job[p].groups = {}
      <4>1. job'[p] = Idle
        BY <1>2, <3>1, FinishEffect DEF CreateOpen, CreateNext, IInv
      <4> QED
        BY <4>1 DEF Idle
    <3>2. CASE job[p].groups # {}
      <4>1. job' = [job EXCEPT ![p].pc = "create_insert"]
        BY <1>2, <3>2 DEF CreateOpen, CreateNext
      <4> QED
        BY <4>1 DEF IInv, TypeOK, Job
    <3> QED
      BY <3>1, <3>2
  <2>2. reviews \in [1..Len(reviews) -> ReviewRow]
    BY RowTypes, LenProperties DEF IInv, TypeOK
  <2>3. \A r \in DOMAIN reviews : r # job[p].review => reviews'[r] = reviews[r]
    BY <1>2, <2>2 DEF CreateOpen
  <2> QED
    BY <1>2, <2>1, <2>3 DEF Writing, Reopens, CreateOpen, At, Here
<1>3. CASE DecideCount(p)
  <2>1. job'[p].pc = "decide_commit" /\ reviews' = reviews
    BY <1>3, DecideCountEffect DEF DecideCount, tables
  <2> QED
    BY <2>1 DEF Writing
<1>4. CASE DecideCommit(p)
  <2>1. /\ job'[p] = Idle
        /\ \A r \in DOMAIN reviews : reviews'[r].status = reviews[r].status
    BY <1>4, DecideCommitEffect
  <2> QED
    BY <2>1 DEF Writing, Idle
<1>5. CASE CompleteMark(p)
  <2>1. /\ job'[p].pc \in {"complete_apply", "complete_schedule"}
        /\ reviews' = reviews
    BY <1>5, CompleteMarkEffect DEF CompleteMark, tables
  <2> QED
    BY <2>1 DEF Writing
<1>6. ASSUME reviews' = reviews \/ reviews' = Marked(p)
      PROVE  \A r \in DOMAIN reviews :
                 reviews[r].status = "completed" => reviews'[r].status = "completed"
  BY <1>6, MarkedEffect
<1>7. CASE ApplyFind(p) \/ ApplyDelete(p)
  <2>1. /\ job'[p].pc \in {"complete_apply", "complete_delete"}
        /\ reviews' = reviews \/ reviews' = Marked(p)
    BY <1>7, ApplyFindEffect, ApplyDeleteEffect DEF ApplyFind, ApplyDelete, tables
  <2> QED
    BY <1>6, <2>1 DEF Writing
<1>8. CASE ApplyExtend(p)
  <2>1. /\ job'[p].pc = job[p].pc /\ job[p].pc = "complete_apply" /\ reviews' = reviews
    BY <1>8 DEF ApplyExtend, At, Here, tables, IInv, TypeOK, Job
  <2> QED
    BY <2>1 DEF Writing
<1>9. CASE ApplyCommit(p)
  <2>1. job'[p].pc = "complete_schedule" /\ reviews' = Marked(p)
    BY <1>9, ApplyCommitEffect DEF ApplyCommit
  <2> QED
    BY <1>6, <2>1 DEF Writing
<1>10. CASE CompleteSchedule(p)
  <2>1. job'[p] = Idle /\ reviews' = Marked(p)
    BY <1>10, FinishEffect DEF CompleteSchedule, IInv
  <2> QED
    BY <1>6, <2>1 DEF Writing, Idle
<1>11. CASE OverdueWrite(p)
  <2>1. job'[p] = Idle
    BY <1>11, FinishEffect DEF OverdueWrite, IInv
  <2>2. \A r \in DOMAIN reviews : r \notin job[p].lapsed => reviews'[r] = reviews[r]
    BY <1>11 DEF OverdueWrite
  <2> QED
    BY <1>11, <2>1, <2>2 DEF Writing, Idle, Reopens, OverdueWrite, At, Here
<1>12. CASE AddInsert(p) \/ RemoveDelete(p) \/ Crash(p)
  <2>1. job'[p] = Idle /\ reviews' = reviews
    BY <1>12, FinishEffect DEF AddInsert, RemoveDelete, Crash, tables, IInv
  <2> QED
    BY <2>1 DEF Writing, Idle
<1> QED
  BY <1>1, <1>2, <1>3, <1>4, <1>5, <1>7, <1>8, <1>9, <1>10, <1>11, <1>12 DEF Continue

\* Every step of the others leaves p's hold on a review as it is.
LEMMA StepHolds ==
  ASSUME IInv, NEW p \in Processes, Call(p) \/ Continue(p) \/ Crash(p),
         NEW r \in DOMAIN reviews
  PROVE  /\ (reviews[r].status = "completed" /\ reviews'[r].status # "completed")
                => \E q \in Processes : Reopens(q, r)
         /\ \A q \in Processes : (~Reopens(q, r) /\ Reopens(q, r)')
                => reviews[r].status # "completed"
<1>1. OthersWait(p)
  <2>1. CASE CreateInsert(p)
    BY <2>1, CreateInsertEffect
  <2>2. CASE DecideCount(p) \/ DecideCommit(p)
    BY <2>2, DecideCountEffect, DecideCommitEffect
  <2> QED
    BY <2>1, <2>2, QuietSteps DEF Quiet
<1>2. ASSUME NEW q \in Processes, q # p
      PROVE  Reopens(q, r)' <=> Reopens(q, r)
  BY <1>1, <1>2 DEF OthersWait, Reopens
<1>3. CASE OverdueSelect(p)
  <2>1. /\ reviews' = reviews /\ job'[p].pc = "overdue_write"
        /\ \A x \in job'[p].lapsed : reviews[x].status # "completed"
    BY <1>3, OverdueHolds
  <2>2. Reopens(p, r)' => reviews[r].status # "completed"
    BY <2>1 DEF Reopens
  <2> QED
    BY <1>2, <2>1, <2>2
<1>4. CASE Call(p) /\ ~OverdueSelect(p)
  <2>1. job'[p].pc \notin Writing /\ reviews' = reviews
    BY <1>4, BeginHolds
  <2>2. ~Reopens(p, r)'
    BY <2>1 DEF Reopens, Writing
  <2> QED
    BY <1>2, <2>1, <2>2
<1>5. CASE Continue(p) \/ Crash(p)
  <2>1. /\ job'[p].pc \in Writing =>
               job'[p].pc = "create_open" /\ job'[p].review \notin DOMAIN reviews
        /\ (reviews[r].status = "completed" /\ reviews'[r].status # "completed")
               => Reopens(p, r)
    BY <1>5, ContinueHolds
  <2>2. ~Reopens(p, r)'
    BY <2>1 DEF Reopens, Writing
  <2> QED
    BY <1>2, <2>1, <2>2
<1> QED
  BY <1>3, <1>4, <1>5

\* A completed review is reopened only by the second transaction of its creation or
\* by an overdue pass that selected it while it was open, and nothing takes hold of
\* a completed review in order to reopen it.
THEOREM OnlyInFlightReopensTheorem == Spec => OnlyInFlightReopens
<1> DEFINE Step ==
             \A r \in DOMAIN reviews :
                /\ (reviews[r].status = "completed" /\ reviews'[r].status # "completed")
                      => \E p \in Processes : Reopens(p, r)
                /\ \A p \in Processes : (~Reopens(p, r) /\ Reopens(p, r)')
                      => reviews[r].status # "completed"
<1>1. IInv /\ [Next]_vars => [Step]_vars
  <2> SUFFICES ASSUME IInv, Next
               PROVE  Step \/ UNCHANGED vars
    OBVIOUS
  <2>1. CASE Tick
    <3>1. reviews' = reviews /\ job' = job
      BY <2>1, TickStep DEF tables
    <3> QED
      BY <3>1 DEF Reopens
  <2>2. ASSUME NEW p \in Processes, Call(p) \/ Continue(p) \/ Crash(p)
        PROVE  Step
    BY <2>2, StepHolds
  <2> QED
    BY <2>1, <2>2 DEF Next
<1> QED
  BY <1>1, InitInv, NextInv, PTL DEF Spec, OnlyInFlightReopens
-----------------------------------------------------------------------------
(***************************************************************************)
(* What was decided is applied                                             *)
(***************************************************************************)
\* A completion removed another row of the person that item i is about.
Strayed(i) == [review |-> i.review, membership |-> i.membership] \in astray

\* Removals of r that were decided in time and are still to be carried out.
Unapplied(r) == {i \in Decided(ItemsOf(r), "remove") : ~i.late /\ ~Strayed(i)}

\* Every item is about a membership of the group of its review.
RowsOK ==
    \A i \in items : \E m \in members :
        /\ m.id = i.membership /\ m.identity = i.identity
        /\ m.group = reviews[i.review].group

\* What a process that completes a review has in hand: until its mark is committed,
\* everything there is to apply.
HoldOK(p) ==
    /\ job[p].pc \in Applying => \A i \in job[p].todo : i.review = job[p].review
    /\ (job[p].open /\ reviews[job[p].review].auto)
          => job[p].pc \in Applying /\ Unapplied(job[p].review) \subseteq job[p].todo

\* Process q has committed the mark of r and holds item i.
Holds(q, r, i) ==
    /\ job[q].pc \in Applying /\ ~job[q].open
    /\ job[q].review = r /\ i \in job[q].todo

\* Removals of a completed review are in the hands of a process, if none that held
\* them died.
InHand ==
    \A r \in DOMAIN reviews :
        (reviews[r].status = "completed" /\ reviews[r].auto /\ r \notin abandoned) =>
            \A i \in Unapplied(r) : \E p \in Processes : Holds(p, r, i)

AppliedInv == RowsOK /\ InHand /\ \A p \in Processes : HoldOK(p)

\* Items that are taken away are no longer to be applied.
LEMMA QuietUnapplied ==
  ASSUME items' \subseteq items, astray \subseteq astray', NEW r
  PROVE  Unapplied(r)' \subseteq Unapplied(r) /\ Unapplied(r)' \subseteq items'
  BY DEF Unapplied, Strayed, ItemsOf, Decided

\* Process p goes on with item i, or has committed nothing of its completion and
\* rolls it back, or is known to have died with it.
Keeps(p, i) ==
    \/ /\ job'[p].pc \in Applying /\ job'[p].review = job[p].review
       /\ i \in job'[p].todo /\ (job'[p].open => job[p].open)
    \/ job[p].open /\ reviews' = reviews
    \/ job[p].review \in abandoned'

\* What is left to show of a quiet step: p lets go of no removal of an item that
\* stays, and has everything in hand when it opens its transaction.
LEMMA QuietApplied ==
  ASSUME IInv, AppliedInv, NEW p \in Processes, Quiet(p), RowsOK', Remembers,
         job'[p].open => reviews' = reviews,
         \A i \in job[p].todo :
            (/\ job[p].pc \in Applying /\ i \in items' /\ i.decision = "remove"
             /\ ~Strayed(i)') => Keeps(p, i),
         HoldOK(p)'
  PROVE  AppliedInv'
<1>1. /\ DOMAIN reviews' = DOMAIN reviews
      /\ \A r \in DOMAIN reviews : reviews'[r].auto = reviews[r].auto
      /\ \A r \in DOMAIN reviews : reviews'[r].status = "completed" =>
            reviews[r].status = "completed" \/ (job[p].open /\ job[p].review = r)
      /\ \A q \in Processes \ {p} : job'[q] = job[q]
      /\ items' \subseteq items
  BY DEF Quiet, StatusOnly, MarksOnly, OthersWait
<1>2. \A r : Unapplied(r)' \subseteq Unapplied(r) /\ Unapplied(r)' \subseteq items'
  BY <1>1, QuietUnapplied DEF Remembers
<1>3. ASSUME NEW r \in DOMAIN reviews', reviews'[r].status = "completed",
             reviews'[r].auto, r \notin abandoned', NEW i \in Unapplied(r)'
      PROVE  \E q \in Processes : Holds(q, r, i)'
  <2>1. r \in DOMAIN reviews /\ reviews[r].auto /\ r \notin abandoned
    BY <1>1, <1>3 DEF Remembers
  <2>2. i \in Unapplied(r) /\ i \in items' /\ i.decision = "remove" /\ ~Strayed(i)'
    BY <1>2, <1>3 DEF Unapplied, Decided
  <2>3. CASE reviews[r].status = "completed"
    <3>1. PICK q \in Processes : Holds(q, r, i)
      BY <2>1, <2>2, <2>3 DEF AppliedInv, InHand
    <3>2. CASE q = p
      <4>1. Keeps(p, i)
        BY <2>2, <3>1, <3>2 DEF Holds
      <4>2. Holds(p, r, i)'
        BY <1>3, <3>1, <3>2, <4>1 DEF Holds, Keeps
      <4> QED
        BY <4>2
    <3>3. CASE q # p
      <4>1. Holds(q, r, i)'
        BY <1>1, <3>1, <3>3 DEF Holds
      <4> QED
        BY <4>1
    <3> QED
      BY <3>2, <3>3
  <2>4. CASE reviews[r].status # "completed" /\ job[p].open /\ job[p].review = r
    <3>1. job[p].pc \in Applying /\ i \in job[p].todo
      BY <2>1, <2>2, <2>4 DEF AppliedInv, HoldOK
    <3>2. reviews' # reviews
      BY <1>3, <2>4
    <3>3. Keeps(p, i) /\ ~job'[p].open
      BY <2>2, <3>1, <3>2
    <3>4. Holds(p, r, i)'
      BY <1>3, <2>4, <3>2, <3>3 DEF Holds, Keeps
    <3> QED
      BY <3>4
  <2> QED
    BY <1>1, <1>3, <2>1, <2>3, <2>4
<1>4. InHand'
  BY <1>3 DEF InHand
<1>5. ASSUME NEW q \in Processes, q # p
      PROVE  HoldOK(q)'
  <2>1. job'[q] = job[q] /\ HoldOK(q) /\ LocalOK(q)
    BY <1>1, <1>5 DEF AppliedInv, IInv, LocalsOK
  <2>2. job[q].open => job[q].review \in DOMAIN reviews
    BY <2>1 DEF LocalOK, Completion
  <2>3. Unapplied(job[q].review)' \subseteq Unapplied(job[q].review)
    <3> PICK r : r = job[q].review
      OBVIOUS
    <3>1. Unapplied(r)' \subseteq Unapplied(r)
      BY <1>2
    <3> QED
      BY <2>1, <3>1 DEF Unapplied, Strayed, ItemsOf, Decided
  <2> QED
    BY <1>1, <2>1, <2>2, <2>3 DEF HoldOK
<1> QED
  BY <1>4, <1>5 DEF AppliedInv

\* Nothing is forgotten.
LEMMA AllRemember ==
  ASSUME NEW p \in Processes, Call(p) \/ Continue(p) \/ Crash(p)
  PROVE  Remembers
<1>1. CASE Call(p)
  BY <1>1 DEF Remembers, Call, CreateCall, DecideFind, CompleteRead, AddCheck, RemoveFind,
     SchedulePass, OverdueSelect, Begin, history
<1>2. CASE Continue(p)
  <2>1. CASE ApplyDelete(p)
    BY <2>1 DEF ApplyDelete, Remembers
  <2>2. CASE ~ApplyDelete(p)
    BY <1>2, <2>2 DEF Remembers, Continue, CreateInsert, CreateOpen, DecideCount,
       DecideCommit, CompleteMark, ApplyFind, ApplyExtend, ApplyCommit, CompleteSchedule,
       OverdueWrite, AddInsert, RemoveDelete, At, history
  <2> QED
    BY <2>1, <2>2
<1>3. CASE Crash(p)
  BY <1>3 DEF Crash, Remembers
<1> QED
  BY <1>1, <1>2, <1>3

\* Rows that differ from the old ones in their expiry, and the items of those that
\* are left.
LEMMA ExtendedRows ==
  ASSUME IInv, RowsOK, NEW p \in Processes, Quiet(p), NEW ms \in SUBSET members,
         members' = Extended(p, ms),
         \A v \in items' : \A m \in members : m.id = v.membership => m \in ms
  PROVE  RowsOK'
<1>1. \A n \in ms : \E x \in members' :
         x.id = n.id /\ x.group = n.group /\ x.identity = n.identity
  BY ExtendedEffect
<1>2. ASSUME NEW v \in items'
      PROVE  \E x \in members' :
                /\ x.id = v.membership /\ x.identity = v.identity
                /\ x.group = reviews'[v.review].group
  <2>1. v \in items /\ v.review \in DOMAIN reviews
    BY DEF Quiet, IInv, TablesOK
  <2>2. PICK n \in members : /\ n.id = v.membership /\ n.identity = v.identity
                             /\ n.group = reviews[v.review].group
    BY <2>1 DEF RowsOK
  <2>3. n \in ms
    BY <2>2
  <2>4. reviews'[v.review].group = reviews[v.review].group
    BY <2>1 DEF Quiet, StatusOnly
  <2> QED
    BY <1>1, <2>2, <2>3, <2>4
<1> QED
  BY <1>2 DEF RowsOK

\* A step that touches neither members nor items keeps the rows.
LEMMA RowsStay ==
  ASSUME IInv, RowsOK, members' = members, items' \subseteq items, StatusOnly
  PROVE  RowsOK'
  BY DEF RowsOK, StatusOnly, IInv, TablesOK

\* Operations that begin.
LEMMA CallApplied ==
  ASSUME IInv, AppliedInv, NEW p \in Processes, Call(p)
  PROVE  AppliedInv'
<1>1. Starts(p)
  BY BeginHolds, OverdueHolds
<1>2. ~CreateInsert(p) /\ ~DecideCount(p) /\ ~DecideCommit(p)
  BY <1>1 DEF Starts, CreateInsert, DecideCount, DecideCommit, At, Here
<1>3. Quiet(p)
  BY <1>2, QuietSteps
<1>4. RowsOK'
  <2>1. UNCHANGED tables
    BY DEF Call, CreateCall, DecideFind, CompleteRead, AddCheck, RemoveFind, SchedulePass,
           OverdueSelect
  <2> QED
    BY <2>1 DEF AppliedInv, RowsOK, tables
<1>5. HoldOK(p)' /\ ~job'[p].open
  BY <1>1 DEF Starts, HoldOK, Applying
<1>6. job[p].pc \notin Applying
  BY <1>1 DEF Starts, Applying
<1> QED
  BY <1>3, <1>4, <1>5, <1>6, AllRemember, QuietApplied

\* Steps of a process that holds no removals before and after.
LEMMA EmptyHandsApplied ==
  ASSUME IInv, AppliedInv, NEW p \in Processes,
         \/ CreateOpen(p) \/ OverdueWrite(p) \/ AddInsert(p) \/ RemoveDelete(p)
         \/ CompleteSchedule(p)
  PROVE  AppliedInv'
<1>1. /\ job[p].pc \in {"create_open", "overdue_write", "add_insert", "remove_delete",
                        "complete_schedule"}
      /\ ~CreateInsert(p) /\ ~DecideCount(p) /\ ~DecideCommit(p)
  BY DEF CreateOpen, OverdueWrite, AddInsert, RemoveDelete, CompleteSchedule, CreateInsert,
         DecideCount, DecideCommit, At, Here
<1>2. Quiet(p)
  BY <1>1, QuietSteps DEF Continue
<1>3. job'[p].pc \in {"idle", "create_insert"} /\ ~job'[p].open
  <2>1. CASE job'[p] = Idle
    BY <2>1 DEF Idle
  <2>2. CASE job' = [job EXCEPT ![p].pc = "create_insert"] /\ CreateOpen(p)
    <3>1. ~job[p].open
      BY <2>2 DEF CreateOpen, At, Here, IInv, LocalsOK, LocalOK
    <3> QED
      BY <2>2, <3>1 DEF IInv, TypeOK, Job
  <2>3. Finish(p) => job'[p] = Idle
    BY FinishEffect DEF IInv
  <2> QED
    BY <2>1, <2>2, <2>3 DEF CreateOpen, CreateNext, OverdueWrite, AddInsert, RemoveDelete,
                            CompleteSchedule
<1>4. HoldOK(p)'
  BY <1>3 DEF HoldOK, Applying
<1>5. RowsOK'
  <2>1. CASE AddInsert(p) \/ RemoveDelete(p)
    BY <2>1 DEF AddInsert, RemoveDelete, AppliedInv, RowsOK
  <2>2. CASE CreateOpen(p) \/ OverdueWrite(p) \/ CompleteSchedule(p)
    <3>1. members' = members /\ items' \subseteq items
      BY <2>2 DEF CreateOpen, OverdueWrite, CompleteSchedule
    <3> QED
      BY <1>2, <3>1, RowsStay DEF Quiet, AppliedInv
  <2> QED
    BY <2>1, <2>2
<1>6. job[p].pc \notin Applying /\ Continue(p)
  BY <1>1 DEF Applying, Continue
<1> QED
  BY <1>2, <1>3, <1>4, <1>5, <1>6, AllRemember, QuietApplied

\* The process that marks a review has everything there is to apply in hand.
LEMMA MarkApplied ==
  ASSUME IInv, AppliedInv, NEW p \in Processes, CompleteMark(p)
  PROVE  AppliedInv'
<1>1. Quiet(p)
  BY CompleteMarkStep
<1> PICK r : r = job[p].review
  OBVIOUS
<1>2. /\ UNCHANGED tables /\ job[p].pc = "complete_mark"
  BY DEF CompleteMark, At, Here
<1>3. /\ job'[p].pc = IF reviews[r].auto THEN "complete_apply" ELSE "complete_schedule"
      /\ job'[p].todo = IF reviews[r].auto THEN Effects(r) ELSE {}
      /\ job'[p].review = r
  BY CompleteMarkEffect
<1>4. RowsOK'
  BY <1>2 DEF AppliedInv, RowsOK, tables
<1>5. Continue(p) /\ job[p].pc \notin Applying /\ reviews' = reviews
  BY <1>2 DEF Continue, Applying, tables
<1>6. \A i \in Effects(r) : i.review = r
  BY DEF Effects, ItemsOf
<1>7. Unapplied(r) \subseteq Effects(r)
  BY DEF Unapplied, Effects, Decided
<1>8. Unapplied(r)' \subseteq Unapplied(r)
  BY <1>1, <1>5, AllRemember, QuietUnapplied DEF Quiet, Remembers
<1>9. reviews[r].auto => Unapplied(job[p].review)' \subseteq job'[p].todo
  BY <1>3, <1>7, <1>8 DEF Unapplied, Strayed, ItemsOf, Decided
<1>10. HoldOK(p)'
  BY <1>3, <1>5, <1>6, <1>8, <1>9 DEF HoldOK, Applying
<1> QED
  BY <1>1, <1>4, <1>5, <1>10, AllRemember, QuietApplied

\* An open transaction holds what is to be applied after a step that lets go of no
\* item that is.
LEMMA HoldGoesOn ==
  ASSUME IInv, AppliedInv, NEW p \in Processes, Quiet(p), Remembers,
         job[p].pc \in Applying, job'[p].review = job[p].review,
         job'[p].pc \in Applying, job'[p].open => job[p].open,
         job'[p].todo \subseteq job[p].todo,
         \A i \in job[p].todo : (/\ i \in items' /\ i.decision = "remove"
                                 /\ ~Strayed(i)') => i \in job'[p].todo
  PROVE  HoldOK(p)'
<1> PICK r : r = job[p].review
  OBVIOUS
<1>1. HoldOK(p) /\ r \in DOMAIN reviews
  BY DEF AppliedInv, IInv, LocalsOK, LocalOK, Applying, Completion
<1>2. reviews'[r].auto = reviews[r].auto
  BY <1>1 DEF Quiet, StatusOnly
<1>3. Unapplied(r)' \subseteq Unapplied(r) /\ Unapplied(r)' \subseteq items'
  BY QuietUnapplied DEF Quiet, Remembers
<1>4. \A i \in Unapplied(r)' : i.decision = "remove" /\ ~Strayed(i)'
  BY DEF Unapplied, Decided
<1>5. (job'[p].open /\ reviews'[r].auto) => Unapplied(r)' \subseteq job'[p].todo
  BY <1>1, <1>2, <1>3, <1>4 DEF HoldOK
<1>6. (job'[p].open /\ reviews'[job'[p].review].auto)
            => Unapplied(job[p].review)' \subseteq job'[p].todo
  BY <1>5 DEF Unapplied, Strayed, ItemsOf, Decided
<1> QED
  BY <1>1, <1>6 DEF HoldOK

\* An item whose member is not found is gone.
LEMMA FindApplied ==
  ASSUME IInv, AppliedInv, NEW p \in Processes, ApplyFind(p)
  PROVE  AppliedInv'
<1>1. Quiet(p) /\ Remembers
  BY ApplyFindStep, AllRemember DEF Continue
<1>2. /\ job[p].pc = "complete_apply" /\ UNCHANGED tables /\ HoldOK(p) /\ RowsOK
  BY DEF ApplyFind, At, Here, AppliedInv
<1>3. PICK i \in Decided(job[p].todo, "remove") :
            /\ job'[p].review = job[p].review /\ job'[p].open = job[p].open
            /\ \/ /\ \A m \in members : ~(/\ m.group = reviews[job[p].review].group
                                          /\ m.identity = i.identity)
                  /\ job'[p].pc = "complete_apply" /\ job'[p].todo = job[p].todo \ {i}
               \/ /\ job'[p].pc = "complete_delete" /\ job'[p].todo = job[p].todo
  BY ApplyFindEffect
<1>4. i \in job[p].todo /\ i.review = job[p].review
  BY <1>2 DEF HoldOK, Applying, Decided
<1>5. /\ job'[p].pc \in Applying /\ job'[p].todo \subseteq job[p].todo
      /\ \A x \in job[p].todo : x \in items' => x \in job'[p].todo
  <2>1. CASE /\ \A m \in members : ~(/\ m.group = reviews[job[p].review].group
                                     /\ m.identity = i.identity)
             /\ job'[p].pc = "complete_apply" /\ job'[p].todo = job[p].todo \ {i}
    <3>1. i \notin items'
      BY <1>2, <1>4, <2>1 DEF RowsOK, tables
    <3> QED
      BY <2>1, <3>1 DEF Applying
  <2>2. CASE job'[p].pc = "complete_delete" /\ job'[p].todo = job[p].todo
    BY <2>2 DEF Applying
  <2> QED
    BY <1>3, <2>1, <2>2
<1>6. RowsOK' /\ reviews' = reviews
  BY <1>2 DEF RowsOK, tables
<1>7. job[p].pc \in Applying
  BY <1>2 DEF Applying
<1>8. HoldOK(p)'
  BY <1>1, <1>3, <1>5, <1>7, HoldGoesOn
<1> QED
  BY <1>1, <1>3, <1>5, <1>6, <1>8, QuietApplied DEF Keeps

\* The row that is deleted takes the item with it, or it was another row.
LEMMA DeleteApplied ==
  ASSUME IInv, AppliedInv, NEW p \in Processes, ApplyDelete(p)
  PROVE  AppliedInv'
<1>1. Quiet(p) /\ Remembers
  BY ApplyDeleteStep, AllRemember DEF Continue
<1>2. /\ job[p].pc = "complete_delete" /\ HoldOK(p) /\ RowsOK
      /\ members' = Extended(p, {m \in members : m.id # job[p].member})
      /\ items' = {i \in items : i.membership # job[p].member}
      /\ astray' = astray \union
            {[review |-> job[p].review, membership |-> i.membership]
                : i \in {i \in job[p].taken : i.membership # job[p].member}}
  BY DEF ApplyDelete, Here, AppliedInv
<1>3. /\ job'[p].pc = "complete_apply" /\ job'[p].review = job[p].review
      /\ job'[p].open = FALSE /\ job'[p].todo = job[p].todo \ job[p].taken
  BY ApplyDeleteEffect
<1>4. ASSUME NEW x \in job[p].todo, x \in items', ~Strayed(x)'
      PROVE  x \in job'[p].todo
  <2>1. x.review = job[p].review /\ x.membership # job[p].member
    BY <1>2, <1>4 DEF HoldOK, Applying
  <2>2. x \notin job[p].taken
    BY <1>2, <1>4, <2>1 DEF Strayed
  <2> QED
    BY <1>3, <2>2
<1>5. RowsOK'
  BY <1>1, <1>2, ExtendedRows
<1>6. /\ job[p].pc \in Applying /\ job'[p].pc \in Applying /\ ~job'[p].open
      /\ job'[p].todo \subseteq job[p].todo
  BY <1>2, <1>3 DEF Applying
<1>7. HoldOK(p)'
  BY <1>1, <1>3, <1>4, <1>6, HoldGoesOn
<1> QED
  BY <1>1, <1>3, <1>4, <1>5, <1>6, <1>7, QuietApplied DEF Keeps

\* An extension is no removal.
LEMMA ExtendApplied ==
  ASSUME IInv, AppliedInv, NEW p \in Processes, ApplyExtend(p)
  PROVE  AppliedInv'
<1>1. Quiet(p) /\ UNCHANGED tables /\ job[p].pc = "complete_apply"
  BY ApplyExtendStep DEF ApplyExtend, At, Here
<1>2. PICK i \in Decided(job[p].todo, "extend") :
          job' = [job EXCEPT ![p] =
              [job[p] EXCEPT !.todo = @ \ {i},
                             !.staged = IF \E m \in members : m.id = i.membership
                                        THEN @ \union {i} ELSE @]]
  BY DEF ApplyExtend
<1>3. /\ job'[p].pc = "complete_apply" /\ job'[p].review = job[p].review
      /\ job'[p].todo = job[p].todo \ {i} /\ job'[p].open = job[p].open
  BY <1>1, <1>2 DEF IInv, TypeOK, Job
<1>4. RowsOK' /\ reviews' = reviews
  BY <1>1 DEF AppliedInv, RowsOK, tables
<1>5. \A x \in job[p].todo : x.decision = "remove" => x \in job'[p].todo
  BY <1>3 DEF Decided
<1>6. /\ job[p].pc \in Applying /\ job'[p].pc \in Applying /\ Remembers
      /\ job'[p].todo \subseteq job[p].todo
  BY <1>1, <1>3, AllRemember DEF Applying, Continue
<1>7. HoldOK(p)'
  BY <1>1, <1>3, <1>5, <1>6, HoldGoesOn
<1> QED
  BY <1>1, <1>3, <1>4, <1>5, <1>6, <1>7, QuietApplied DEF Keeps

\* Nothing is left to apply when the applied decisions are committed.
LEMMA CommitApplied ==
  ASSUME IInv, AppliedInv, NEW p \in Processes, ApplyCommit(p)
  PROVE  AppliedInv'
<1>1. Quiet(p) /\ items' = items /\ job[p].todo = {} /\ job[p].pc = "complete_apply"
      /\ members' = Extended(p, members)
  BY ApplyCommitStep DEF ApplyCommit, At, Here
<1>2. job'[p].pc = "complete_schedule" /\ ~job'[p].open
  BY ApplyCommitEffect
<1>3. HoldOK(p)' /\ Continue(p)
  BY <1>2 DEF HoldOK, Applying, Continue
<1>4. RowsOK'
  BY <1>1, ExtendedRows DEF AppliedInv
<1> QED
  BY <1>1, <1>2, <1>3, <1>4, AllRemember, QuietApplied

\* A process that dies rolls back what it has not committed, and is known to have
\* died otherwise.
LEMMA CrashApplied ==
  ASSUME IInv, AppliedInv, NEW p \in Processes, Crash(p)
  PROVE  AppliedInv'
<1>1. UNCHANGED tables /\ Quiet(p) /\ Remembers
  BY CrashStep, AllRemember DEF Crash
<1>2. job'[p] = Idle
  BY FinishEffect DEF Crash, IInv
<1>3. /\ RowsOK' /\ reviews' = reviews /\ HoldOK(p)' /\ ~job'[p].open
  BY <1>1, <1>2 DEF AppliedInv, RowsOK, HoldOK, Idle, Applying, tables
<1>4. ASSUME job[p].pc \in Applying, NEW i
      PROVE  Keeps(p, i)
  BY <1>3, <1>4 DEF Keeps, Crash, Ending
<1> QED
  BY <1>1, <1>3, <1>4, QuietApplied

\* The steps of others leave in p's hands what is to be applied to a review that p
\* has locked.
LEMMA HoldStays ==
  ASSUME NEW q \in Processes, HoldOK(q), job'[q] = job[q],
         NEW r, r = job[q].review,
         job[q].open => /\ reviews'[r].auto = reviews[r].auto
                        /\ Unapplied(r)' \subseteq Unapplied(r)
  PROVE  HoldOK(q)'
<1>1. job[q].open => Unapplied(job[q].review)' \subseteq Unapplied(r)
  BY DEF Unapplied, Strayed, ItemsOf, Decided
<1> QED
  BY <1>1 DEF HoldOK

\* The items of a new review are about members of its group.
LEMMA CreateApplied ==
  ASSUME IInv, AppliedInv, NEW p \in Processes, CreateInsert(p)
  PROVE  AppliedInv'
<1>1. PICK g \in Groups :
            LET r == Len(reviews) + 1
            IN  /\ Len(reviews) \in Nat /\ DOMAIN reviews = 1..Len(reviews)
                /\ DOMAIN reviews' = 1..r
                /\ \A x \in DOMAIN reviews : reviews'[x] = reviews[x]
                /\ reviews'[r].group = g /\ reviews'[r].status = "scheduled"
                /\ items' = items \union
                     {[review |-> r, membership |-> m.id, identity |-> m.identity,
                       decision |-> None, expires |-> None, late |-> FALSE]
                           : m \in MembersOf(g)}
                /\ OthersWait(p) /\ job'[p].pc = "create_open"
                /\ job'[p].open = job[p].open
  BY CreateInsertEffect
<1> PICK new : new = Len(reviews) + 1
  OBVIOUS
<1>2. /\ job[p].pc = "create_insert" /\ members' = members /\ ~job[p].open
      /\ astray' = astray /\ abandoned' = abandoned
      /\ \A r \in DOMAIN reviews : r # new
      /\ \A i \in items : i.review # new /\ i.review \in DOMAIN reviews
  BY <1>1 DEF CreateInsert, At, Here, history, IInv, LocalsOK, LocalOK, Completion, TablesOK
<1>3. ASSUME NEW i \in items', i \notin items
      PROVE  i.review = new /\ i.decision = None /\ \E m \in MembersOf(g) :
                i.membership = m.id /\ i.identity = m.identity
  BY <1>1, <1>3
<1>4. RowsOK'
  <2>1. ASSUME NEW i \in items'
        PROVE  \E m \in members : /\ m.id = i.membership /\ m.identity = i.identity
                                  /\ m.group = reviews'[i.review].group
    <3>1. CASE i \in items
      <4>1. reviews'[i.review] = reviews[i.review]
        BY <1>1, <1>2, <3>1
      <4> QED
        BY <3>1, <4>1 DEF AppliedInv, RowsOK
    <3>2. CASE i \notin items
      <4>1. reviews'[i.review].group = g
        BY <1>1, <1>3, <3>2
      <4> QED
        BY <1>3, <3>2, <4>1 DEF MembersOf
    <3> QED
      BY <3>1, <3>2
  <2> QED
    BY <1>2, <2>1 DEF RowsOK
<1>5. \A r : Unapplied(r)' \subseteq Unapplied(r)
  BY <1>2, <1>3, ConstantsAssumption DEF Unapplied, Strayed, ItemsOf, Decided, Decisions
<1>6. ASSUME NEW r \in DOMAIN reviews', reviews'[r].status = "completed",
             reviews'[r].auto, r \notin abandoned', NEW i \in Unapplied(r)'
      PROVE  \E q \in Processes : Holds(q, r, i)'
  <2>1. r \in DOMAIN reviews /\ reviews'[r] = reviews[r]
    BY <1>1, <1>6
  <2>2. PICK q \in Processes : Holds(q, r, i)
    BY <1>2, <1>5, <1>6, <2>1 DEF AppliedInv, InHand
  <2>3. q # p
    BY <1>2, <2>2 DEF Holds, Applying
  <2>4. Holds(q, r, i)'
    BY <1>1, <2>2, <2>3 DEF Holds, OthersWait
  <2> QED
    BY <2>4
<1>7. HoldOK(p)'
  BY <1>1, <1>2 DEF HoldOK, Applying
<1>8. ASSUME NEW q \in Processes, q # p
      PROVE  HoldOK(q)'
  <2> PICK r : r = job[q].review
    OBVIOUS
  <2>1. job'[q] = job[q] /\ HoldOK(q)
    BY <1>1, <1>8 DEF OthersWait, AppliedInv
  <2>2. job[q].open => r \in DOMAIN reviews
    BY DEF IInv, LocalsOK, LocalOK, Completion
  <2> QED
    BY <1>1, <1>5, <2>1, <2>2, HoldStays
<1> QED
  BY <1>4, <1>6, <1>7, <1>8 DEF AppliedInv, InHand

\* Counting leaves everything in the hands it is in.
LEMMA CountApplied ==
  ASSUME IInv, AppliedInv, NEW p \in Processes, DecideCount(p)
  PROVE  AppliedInv'
<1>1. /\ UNCHANGED tables /\ job[p].pc = "decide_count"
      /\ astray' = astray /\ abandoned' = abandoned
  BY DEF DecideCount, At, Here, history
<1>2. OthersWait(p) /\ job'[p].pc = "decide_commit" /\ job'[p].open = job[p].open
  BY DecideCountEffect
<1>3. reviews' = reviews /\ \A r : Unapplied(r)' = Unapplied(r)
  BY <1>1 DEF tables, Unapplied, Strayed, ItemsOf, Decided
<1>4. RowsOK'
  BY <1>1 DEF AppliedInv, RowsOK, tables
<1>5. InHand'
  <2>1. ASSUME NEW q \in Processes, NEW r, NEW i, Holds(q, r, i)
        PROVE  Holds(q, r, i)'
    <3>1. q # p
      BY <1>1, <2>1 DEF Holds, Applying
    <3> QED
      BY <1>2, <2>1, <3>1 DEF Holds, OthersWait
  <2> QED
    BY <1>1, <1>3, <2>1 DEF AppliedInv, InHand
<1>6. HoldOK(p)'
  BY <1>1, <1>2 DEF HoldOK, Applying, IInv, LocalsOK, LocalOK
<1>7. ASSUME NEW q \in Processes, q # p
      PROVE  HoldOK(q)'
  <2> PICK r : r = job[q].review
    OBVIOUS
  <2>1. job'[q] = job[q] /\ HoldOK(q)
    BY <1>2, <1>7 DEF OthersWait, AppliedInv
  <2> QED
    BY <1>3, <2>1, HoldStays
<1> QED
  BY <1>4, <1>5, <1>6, <1>7 DEF AppliedInv

\* A decision waits for the process that has its review locked, and on a review that
\* is completed it is late.
LEMMA DecideApplied ==
  ASSUME IInv, AppliedInv, NEW p \in Processes, DecideCommit(p)
  PROVE  AppliedInv'
<1> PICK mine : mine = job[p].review
  OBVIOUS
<1>1. /\ OthersWait(p) /\ job'[p] = Idle /\ job[p].pc = "decide_commit"
      /\ members' = members /\ ~Locked(mine)
      /\ astray' = astray /\ abandoned' = abandoned
      /\ DOMAIN reviews' = DOMAIN reviews
      /\ \A r \in DOMAIN reviews : /\ reviews'[r].status = reviews[r].status
                                   /\ reviews'[r].auto = reviews[r].auto
                                   /\ reviews'[r].group = reviews[r].group
  BY DecideCommitEffect DEF DecideCommit, At, Here, history
<1>2. \A v \in items' : \E i \in items :
         /\ v.review = i.review /\ v.membership = i.membership
         /\ v.identity = i.identity
         /\ ~Own(p, i) => v = i
         /\ Own(p, i) => v.late = (reviews[i.review].status = "completed")
  BY DecideItems
<1>3. RowsOK'
  <2>1. ASSUME NEW v \in items'
        PROVE  \E m \in members : /\ m.id = v.membership /\ m.identity = v.identity
                                  /\ m.group = reviews'[v.review].group
    <3>1. PICK i \in items : /\ v.review = i.review /\ v.membership = i.membership
                             /\ v.identity = i.identity
      BY <1>2
    <3>2. i.review \in DOMAIN reviews
      BY DEF IInv, TablesOK
    <3> QED
      BY <1>1, <3>1, <3>2 DEF AppliedInv, RowsOK
  <2> QED
    BY <1>1, <2>1 DEF RowsOK
<1>4. ASSUME NEW r \in DOMAIN reviews, r # mine \/ reviews[r].status = "completed"
      PROVE  Unapplied(r)' \subseteq Unapplied(r)
  <2>1. ASSUME NEW v \in items', v.review = r, v.decision = "remove", ~v.late,
               ~Strayed(v)
        PROVE  v \in Unapplied(r)
    <3>1. PICK i \in items :
             /\ v.review = i.review
             /\ ~Own(p, i) => v = i
             /\ Own(p, i) => v.late = (reviews[i.review].status = "completed")
      BY <1>2
    <3>2. ~Own(p, i)
      BY <1>4, <2>1, <3>1 DEF Own
    <3> QED
      BY <2>1, <3>1, <3>2 DEF Unapplied, ItemsOf, Decided
  <2> QED
    BY <1>1, <2>1 DEF Unapplied, Strayed, ItemsOf, Decided
<1>5. ASSUME NEW r \in DOMAIN reviews', reviews'[r].status = "completed",
             reviews'[r].auto, r \notin abandoned', NEW i \in Unapplied(r)'
      PROVE  \E q \in Processes : Holds(q, r, i)'
  <2>1. r \in DOMAIN reviews /\ reviews[r].status = "completed" /\ reviews[r].auto
    BY <1>1, <1>5
  <2>2. i \in Unapplied(r)
    BY <1>4, <1>5, <2>1
  <2>3. PICK q \in Processes : Holds(q, r, i)
    BY <1>1, <1>5, <2>1, <2>2 DEF AppliedInv, InHand
  <2>4. q # p
    BY <1>1, <2>3 DEF Holds, Applying
  <2>5. Holds(q, r, i)'
    BY <1>1, <2>3, <2>4 DEF Holds, OthersWait
  <2> QED
    BY <2>5
<1>6. HoldOK(p)'
  BY <1>1 DEF HoldOK, Idle, Applying
<1>7. ASSUME NEW q \in Processes, q # p
      PROVE  HoldOK(q)'
  <2> PICK r : r = job[q].review
    OBVIOUS
  <2>1. job'[q] = job[q] /\ HoldOK(q)
    BY <1>1, <1>7 DEF OthersWait, AppliedInv
  <2>2. job[q].open => r \in DOMAIN reviews /\ r # mine
    BY <1>1 DEF IInv, LocalsOK, LocalOK, Completion, Locked
  <2>3. job[q].open => /\ reviews'[r].auto = reviews[r].auto
                       /\ Unapplied(r)' \subseteq Unapplied(r)
    BY <1>1, <1>4, <2>2
  <2> QED
    BY <2>1, <2>3, HoldStays
<1> QED
  BY <1>3, <1>5, <1>6, <1>7 DEF AppliedInv, InHand

\* Every step keeps what is to be applied in hand.
LEMMA NextApplied == IInv /\ AppliedInv /\ [Next]_vars => AppliedInv'
<1> SUFFICES ASSUME IInv, AppliedInv, [Next]_vars
             PROVE  AppliedInv'
  OBVIOUS
<1>1. CASE Tick \/ UNCHANGED vars
  <2>1. /\ reviews' = reviews /\ items' = items /\ members' = members /\ job' = job
        /\ astray' = astray /\ abandoned' = abandoned
    BY <1>1, TickStep DEF tables
  <2> QED
    BY <2>1 DEF AppliedInv, RowsOK, InHand, Holds, HoldOK, Unapplied, Strayed, ItemsOf,
                Decided
<1>2. ASSUME NEW p \in Processes, Continue(p)
      PROVE  AppliedInv'
  BY <1>2, CreateApplied, CountApplied, DecideApplied, EmptyHandsApplied, MarkApplied,
     FindApplied, DeleteApplied, ExtendApplied, CommitApplied DEF Continue
<1>3. ASSUME NEW p \in Processes, Call(p) \/ Crash(p)
      PROVE  AppliedInv'
  BY <1>3, CallApplied, CrashApplied
<1> QED
  BY <1>1, <1>2, <1>3 DEF Next

\* Every removal that was decided before an automatic review was completed is carried
\* out by the time complete_review is through, however decisions, reopenings, a second
\* completion, two rows of one person and crashes interleave with it.  There are two
\* ways out, and no others: remove_member was given another row of the person, or a
\* completion of the review died after it had committed its mark.
THEOREM AppliedUnlessLateTheorem == Spec => []AppliedUnlessLate
<1>1. Init => AppliedInv
  <2> SUFFICES ASSUME Init
               PROVE  AppliedInv
    OBVIOUS
  <2>1. \A p \in Processes : job[p] = Idle
    BY DEF Init
  <2>2. items = {} /\ DOMAIN reviews = {}
    BY DEF Init
  <2> QED
    BY <2>1, <2>2 DEF AppliedInv, RowsOK, InHand, HoldOK, Idle, Applying
<1>2. AppliedInv => AppliedUnlessLate
  <2> SUFFICES ASSUME AppliedInv, NEW r \in DOMAIN reviews,
                      reviews[r].status = "completed", reviews[r].auto,
                      ~Completing(r), r \notin abandoned,
                      NEW i \in Decided(ItemsOf(r), "remove"), ~i.late
               PROVE  [review |-> r, membership |-> i.membership] \in astray
    BY DEF AppliedUnlessLate
  <2>1. i \notin Unapplied(r)
    BY DEF AppliedInv, InHand, Holds, Completing
  <2> QED
    BY <2>1 DEF Unapplied, Strayed, ItemsOf, Decided
<1> QED
  BY <1>1, <1>2, InitInv, NextInv, NextApplied, PTL DEF Spec
-----------------------------------------------------------------------------
(***************************************************************************)
(* A completed review is rescheduled                                       *)
(*                                                                         *)
(* The mark of a completion becomes visible before the date of the next    *)
(* review is set, by whichever commit comes first.  Until the date is set  *)
(* the completion is still under way.                                      *)
(***************************************************************************)
Rescheduled(r) ==
    LET next == groups[reviews[r].group].next
    IN  next # None /\ next > reviews[r].created

Rescheduling(r) ==
    \E p \in Processes :
        job[p].review = r /\ job[p].pc \in Ending /\ ~job[p].open

RescheduleInHand ==
    \A r \in DOMAIN reviews :
        (/\ reviews[r].status = "completed" /\ groups[reviews[r].group].enabled
         /\ r \notin abandoned)
            => Rescheduled(r) \/ Rescheduling(r)

CreatedInThePast == \A r \in DOMAIN reviews : reviews[r].created <= clock

RescheduleInv == RescheduleInHand /\ CreatedInThePast

\* A step keeps the group and the date of a review, and marks one as completed only
\* when it commits a completion.
KeepsReviews(p) ==
    \A r \in DOMAIN reviews :
        /\ r \in DOMAIN reviews'
        /\ reviews'[r].group = reviews[r].group
        /\ reviews'[r].created = reviews[r].created
        /\ reviews'[r].status = "completed" =>
              reviews[r].status = "completed" \/ (job[p].open /\ job[p].review = r)

\* Reviews that are there keep their date of creation.
LEMMA CreatedStays ==
  ASSUME IInv, NEW p \in Processes, Call(p) \/ Continue(p) \/ Crash(p),
         NEW r \in DOMAIN reviews
  PROVE  reviews'[r].created = reviews[r].created
<1>0. /\ reviews \in Seq(ReviewRow)
      /\ \A x \in DOMAIN reviews : reviews[x] \in ReviewRow
  BY RowTypes DEF IInv, TypeOK
<1>1. CASE UNCHANGED reviews
  BY <1>1
<1>2. ASSUME NEW x, NEW s, reviews' = [reviews EXCEPT ![x].status = s]
      PROVE  reviews'[r].created = reviews[r].created
  BY <1>0, <1>2 DEF ReviewRow
<1>3. CASE reviews' = Marked(p)
  BY <1>1, <1>2, <1>3 DEF Marked
<1>4. CASE CreateInsert(p)
  BY <1>4, CreateInsertEffect
<1>5. CASE CreateOpen(p)
  BY <1>1, <1>2, <1>5 DEF CreateOpen
<1>6. CASE DecideCommit(p)
  <2>1. PICK x, row : /\ reviews' = [reviews EXCEPT ![x] = row]
                      /\ x = job[p].review
                      /\ row = [reviews[x] EXCEPT !.reviewed = job[p].counts.reviewed,
                                                  !.kept = job[p].counts.kept,
                                                  !.removed = job[p].counts.removed]
    BY <1>6 DEF DecideCommit
  <2>2. CASE x = r
    <3>1. reviews'[r] = row
      BY <1>0, <2>1, <2>2
    <3>2. row.created = reviews[r].created
      BY <1>0, <2>1, <2>2 DEF ReviewRow
    <3> QED  BY <3>1, <3>2
  <2>3. CASE x # r
    BY <1>0, <2>1, <2>3
  <2> QED  BY <2>2, <2>3
<1>7. CASE OverdueWrite(p)
  <2>1. reviews'[r] = IF r \in job[p].lapsed THEN [reviews[r] EXCEPT !.status = "overdue"]
                      ELSE reviews[r]
    BY <1>7 DEF OverdueWrite
  <2> QED  BY <1>0, <2>1 DEF ReviewRow
<1>8. CASE ApplyDelete(p) \/ ApplyCommit(p) \/ CompleteSchedule(p)
  BY <1>3, <1>8 DEF ApplyDelete, ApplyCommit, CompleteSchedule
<1>9. CASE \/ DecideCount(p) \/ CompleteMark(p) \/ ApplyFind(p) \/ ApplyExtend(p)
           \/ AddInsert(p) \/ RemoveDelete(p)
  BY <1>1, <1>9 DEF DecideCount, CompleteMark, ApplyFind, ApplyExtend, AddInsert,
     RemoveDelete, tables
<1>10. CASE Call(p) \/ Crash(p)
  BY <1>1, <1>10 DEF Call, CreateCall, DecideFind, CompleteRead, AddCheck, RemoveFind,
     SchedulePass, OverdueSelect, Crash, tables
<1> QED
  BY <1>4, <1>5, <1>6, <1>7, <1>8, <1>9, <1>10 DEF Continue

\* What a step leaves of the reviews, and which one it may add.
LEMMA ReviewsKept ==
  ASSUME IInv, NEW p \in Processes, Call(p) \/ Continue(p) \/ Crash(p)
  PROVE  /\ KeepsReviews(p)
         /\ \A r \in DOMAIN reviews' \ DOMAIN reviews :
               reviews'[r].created = clock /\ reviews'[r].status = "scheduled"
<1>1. CASE CreateInsert(p)
  <2>1. /\ DOMAIN reviews = 1..Len(reviews) /\ DOMAIN reviews' = 1..(Len(reviews) + 1)
        /\ Len(reviews) \in Nat
        /\ \A x \in DOMAIN reviews : reviews'[x] = reviews[x]
        /\ reviews'[Len(reviews) + 1].status = "scheduled"
    BY <1>1, CreateInsertEffect
  <2>2. PICK row : reviews' = Append(reviews, row) /\ row.created = clock
    BY <1>1 DEF CreateInsert
  <2>3. reviews \in Seq(ReviewRow)
    BY DEF IInv, TypeOK
  <2>4. reviews'[Len(reviews) + 1] = row
    BY <2>1, <2>2, <2>3, AppendProperties
  <2>5. \A r \in DOMAIN reviews' \ DOMAIN reviews : r = Len(reviews) + 1
    BY <2>1
  <2> QED  BY <2>1, <2>2, <2>4, <2>5 DEF KeepsReviews
<1>2. CASE DecideCount(p)
  BY <1>2 DEF DecideCount, tables, KeepsReviews
<1>3. CASE DecideCommit(p)
  BY <1>3, DecideCommitEffect, CreatedStays DEF KeepsReviews
<1>4. CASE ~CreateInsert(p) /\ ~DecideCount(p) /\ ~DecideCommit(p)
  BY <1>4, QuietSteps, CreatedStays DEF KeepsReviews, Quiet, StatusOnly, MarksOnly
<1> QED  BY <1>1, <1>2, <1>3, <1>4

\* A step moves one process.
LEMMA OneMoves ==
  ASSUME IInv, NEW p \in Processes, Call(p) \/ Continue(p) \/ Crash(p)
  PROVE  OthersWait(p)
  BY CreateInsertEffect, DecideCountEffect, DecideCommitEffect, QuietSteps DEF Quiet

\* The date of the next review is written by completions only, and moves past today.
LEMMA GroupsKept ==
  ASSUME IInv, NEW p \in Processes, Call(p) \/ Continue(p) \/ Crash(p),
         NEW g \in Groups
  PROVE  /\ groups'[g].enabled = groups[g].enabled
         /\ groups'[g].next = groups[g].next \/ groups'[g].next = clock + IntervalDays
<1>1. CASE CompleteSchedule(p)
  <2>1. PICK x : \/ groups' = groups
                 \/ groups' = [groups EXCEPT ![x].next = clock + IntervalDays]
    BY <1>1 DEF CompleteSchedule
  <2>2. groups \in [Groups -> GroupRow]
    BY DEF IInv, TypeOK
  <2> QED  BY <2>1, <2>2 DEF GroupRow
<1>2. CASE ~CompleteSchedule(p)
  <2>1. UNCHANGED groups
    <3>1. CASE Call(p) \/ Crash(p)
      BY <3>1 DEF Call, CreateCall, DecideFind, CompleteRead, AddCheck, RemoveFind,
         SchedulePass, OverdueSelect, Crash, tables
    <3>2. CASE Continue(p)
      BY <1>2, <3>2 DEF Continue, CreateInsert, CreateOpen, DecideCount, DecideCommit,
         CompleteMark, ApplyFind, ApplyDelete, ApplyExtend, ApplyCommit, OverdueWrite,
         AddInsert, RemoveDelete, tables
    <3> QED  BY <3>1, <3>2
  <2> QED  BY <2>1
<1> QED  BY <1>1, <1>2

\* A completion that is ending goes on, sets the date, or dies: then it has marked
\* nothing, or is known to have died.
LEMMA EndingStep ==
  ASSUME IInv, NEW p \in Processes, Call(p) \/ Continue(p) \/ Crash(p),
         job[p].pc \in Ending, NEW r \in DOMAIN reviews, r = job[p].review,
         groups[reviews[r].group].enabled
  PROVE  \/ /\ job'[p].pc \in Ending /\ job'[p].review = r
            /\ job'[p].open => job[p].open /\ reviews' = reviews
         \/ groups'[reviews[r].group].next = clock + IntervalDays
         \/ job[p].open /\ reviews' = reviews
         \/ r \in abandoned'
<1>1. CASE Crash(p)
  BY <1>1 DEF Crash, tables
<1>2. ~Call(p)
  <2>1. job[p].pc # "idle"
    BY DEF Ending, Applying
  <2> QED  BY <2>1 DEF Call, CreateCall, DecideFind, CompleteRead, AddCheck, RemoveFind,
              SchedulePass, OverdueSelect, Begin
<1>3. CASE ApplyFind(p)
  BY <1>3, ApplyFindEffect DEF ApplyFind, Ending, Applying, tables
<1>4. CASE ApplyDelete(p)
  BY <1>4, ApplyDeleteEffect DEF Ending, Applying
<1>5. CASE ApplyCommit(p)
  BY <1>5, ApplyCommitEffect DEF Ending
<1>6. CASE ApplyExtend(p)
  <2>1. PICK j : /\ job' = [job EXCEPT ![p] = j] /\ j.pc = job[p].pc
                 /\ j.review = job[p].review /\ j.open = job[p].open
    <3>1. job[p] \in Job
      BY DEF IInv, TypeOK
    <3> QED  BY <1>6, <3>1 DEF ApplyExtend, Job
  <2>2. job'[p] = j /\ reviews' = reviews
    BY <1>6, <2>1 DEF IInv, TypeOK, ApplyExtend, tables
  <2> QED  BY <2>1, <2>2
<1>7. CASE CompleteSchedule(p)
  <2>1. groups' = [groups EXCEPT ![reviews[r].group].next = clock + IntervalDays]
    BY <1>7 DEF CompleteSchedule
  <2>2. reviews[r].group \in Groups /\ groups \in [Groups -> GroupRow]
    BY RowTypes DEF IInv, TypeOK, ReviewRow
  <2> QED  BY <2>1, <2>2 DEF GroupRow
<1>8. CASE Continue(p)
  <2>1. \/ ApplyFind(p) \/ ApplyDelete(p) \/ ApplyExtend(p) \/ ApplyCommit(p)
        \/ CompleteSchedule(p)
    BY <1>8 DEF Continue, Ending, Applying, CreateInsert, CreateOpen, DecideCount,
       DecideCommit, CompleteMark, OverdueWrite, AddInsert, RemoveDelete, At, Here
  <2> QED  BY <1>3, <1>4, <1>5, <1>6, <1>7, <2>1
<1> QED  BY <1>1, <1>2, <1>8

\* A step keeps completed reviews rescheduled, or in the hands of their completion.
LEMMA RescheduleStep ==
  ASSUME IInv, RescheduleInv, NEW p \in Processes, Call(p) \/ Continue(p) \/ Crash(p)
  PROVE  RescheduleInv'
<1>0. clock' = clock
  <2>1. CASE Call(p)
    BY <2>1 DEF Call, CreateCall, DecideFind, CompleteRead, AddCheck, RemoveFind,
       SchedulePass, OverdueSelect, Begin
  <2>2. CASE Continue(p)
    BY <2>2 DEF Continue, CreateInsert, CreateOpen, DecideCount, DecideCommit, CompleteMark,
       ApplyFind, ApplyDelete, ApplyExtend, ApplyCommit, CompleteSchedule, OverdueWrite,
       AddInsert, RemoveDelete, At, Here
  <2>3. CASE Crash(p)
    BY <2>3 DEF Crash
  <2> QED  BY <2>1, <2>2, <2>3
<1>1. clock' = clock /\ clock \in Nat /\ IntervalDays \in Nat \ {0}
  BY <1>0, ConstantsAssumption DEF IInv, TypeOK
<1>2. CreatedInThePast'
  BY <1>1, ReviewsKept DEF KeepsReviews, RescheduleInv, CreatedInThePast
<1>3. ASSUME NEW r \in DOMAIN reviews', reviews'[r].status = "completed",
             groups'[reviews'[r].group].enabled, r \notin abandoned'
      PROVE  Rescheduled(r)' \/ Rescheduling(r)'
  <2>1. r \in DOMAIN reviews
    BY <1>3, ReviewsKept
  <2>2. /\ reviews[r].group \in Groups /\ reviews[r].created \in Nat
        /\ reviews[r].created <= clock
        /\ reviews'[r].group = reviews[r].group /\ reviews'[r].created = reviews[r].created
    BY <2>1, RowTypes, ReviewsKept
       DEF KeepsReviews, RescheduleInv, CreatedInThePast, IInv, ReviewRow
  <2>3. PICK g \in Groups : g = reviews[r].group
    BY <2>2
  <2>4. /\ groups[g].enabled
        /\ groups'[g].next = groups[g].next \/ groups'[g].next = clock + IntervalDays
    BY <1>3, <2>2, <2>3, GroupsKept
  <2>5. ASSUME groups'[g].next = clock + IntervalDays
        PROVE  Rescheduled(r)'
    <3>1. clock + IntervalDays > reviews[r].created /\ clock + IntervalDays # None
      BY <1>1, <2>2, ConstantsAssumption
    <3> QED  BY <2>2, <2>3, <2>5, <3>1 DEF Rescheduled
  <2>6. CASE Rescheduled(r)
    <3>1. CASE groups'[g].next = groups[g].next
      BY <2>2, <2>3, <2>6, <3>1 DEF Rescheduled
    <3> QED  BY <2>4, <2>5, <3>1
  <2>7. ASSUME job[p].review = r, job[p].pc \in Ending, ~job[p].open \/ reviews' # reviews
        PROVE  Rescheduled(r)' \/ Rescheduling(r)'
    <3>1. \/ /\ job'[p].pc \in Ending /\ job'[p].review = r
             /\ job'[p].open => job[p].open /\ reviews' = reviews
          \/ groups'[g].next = clock + IntervalDays
          \/ job[p].open /\ reviews' = reviews
      BY <1>3, <2>1, <2>3, <2>4, <2>7, EndingStep
    <3> QED  BY <2>5, <2>7, <3>1 DEF Rescheduling
  <2>8. CASE reviews[r].status # "completed" /\ job[p].open /\ job[p].review = r
    <3>1. job[p].pc \in Ending
      BY <2>8 DEF IInv, LocalsOK, LocalOK, Ending, Applying
    <3>2. reviews' # reviews
      BY <1>3, <2>8
    <3> QED  BY <2>7, <2>8, <3>1, <3>2
  <2>9. CASE reviews[r].status = "completed"
    <3>1. r \notin abandoned
      BY <1>3, AllRemember DEF Remembers
    <3>2. Rescheduled(r) \/ Rescheduling(r)
      BY <2>1, <2>3, <2>4, <2>9, <3>1 DEF RescheduleInv, RescheduleInHand
    <3>3. CASE Rescheduling(r)
      <4>1. PICK q \in Processes : job[q].review = r /\ job[q].pc \in Ending /\ ~job[q].open
        BY <3>3 DEF Rescheduling
      <4>2. CASE q # p
        <5>1. job'[q] = job[q]
          BY <4>2, OneMoves DEF OthersWait
        <5> QED  BY <4>1, <5>1 DEF Rescheduling
      <4>3. CASE q = p
        BY <2>7, <4>1, <4>3
      <4> QED  BY <4>2, <4>3
    <3> QED  BY <2>6, <3>2, <3>3
  <2> QED  BY <1>3, <2>1, <2>8, <2>9, ReviewsKept DEF KeepsReviews
<1>4. RescheduleInHand'
  BY <1>3 DEF RescheduleInHand
<1> QED  BY <1>2, <1>4 DEF RescheduleInv

\* A completed review of a group that has reviews switched on has moved the group's
\* next review past the day it was created, or the process that completed it is still
\* on the way to do so, whatever is applied, reopened or completed again meanwhile,
\* unless a completion of the review died after it had committed its mark.
THEOREM RescheduleTheorem == Spec => []RescheduleInHand
<1>1. Init => RescheduleInv
  <2> SUFFICES ASSUME Init
               PROVE  RescheduleInv
    OBVIOUS
  <2>1. DOMAIN reviews = {} /\ \A p \in Processes : job[p].pc = "idle"
    BY DEF Init, Idle
  <2> QED  BY <2>1 DEF RescheduleInv, RescheduleInHand, CreatedInThePast
<1>2. IInv /\ RescheduleInv /\ [Next]_vars => RescheduleInv'
  <2> SUFFICES ASSUME IInv, RescheduleInv, [Next]_vars
               PROVE  RescheduleInv'
    OBVIOUS
  <2>1. CASE Tick \/ UNCHANGED vars
    <3>1. /\ UNCHANGED <<groups, reviews, job, abandoned>>
          /\ clock' = clock \/ clock' = clock + 1
      BY <2>1 DEF Tick, vars, tables, history
    <3>2. \A r \in DOMAIN reviews : reviews[r].created \in Nat
      BY RowTypes DEF IInv, ReviewRow
    <3>3. CreatedInThePast'
      BY <3>1, <3>2 DEF RescheduleInv, CreatedInThePast, IInv, TypeOK
    <3> QED  BY <3>1, <3>3 DEF RescheduleInv, RescheduleInHand, Rescheduled, Rescheduling
  <2>2. CASE \E p \in Processes : Call(p) \/ Continue(p) \/ Crash(p)
    BY <2>2, RescheduleStep
  <2> QED  BY <2>1, <2>2 DEF Next
<1>3. RescheduleInv => RescheduleInHand
  BY DEF RescheduleInv
<1> QED  BY <1>1, <1>2, <1>3, InitInv, NextInv, PTL DEF Spec
=============================================================================
