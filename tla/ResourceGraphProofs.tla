------------------------ MODULE ResourceGraphProofs ------------------------
(***************************************************************************)
(* Theorems about ResourceGraph, for every value of its constants.         *)
(*                                                                         *)
(* The hierarchies stay whole because a cascade takes a closed set of rows *)
(* (BelowClosed).  The other properties compare what an operation read     *)
(* with what the tables say when it writes; LocalOK says what is still     *)
(* true of its reading: rows that contradict it are younger.               *)
(***************************************************************************)
EXTENDS ResourceGraph, TLAPS

\* What handler h can rely on at the place it has reached.
LocalOK(h) ==
    /\ job[h].last <= serial.deps
    /\ job[h].pc \in {"dep_existing", "dep_insert"} =>
          {job[h].ends.source, job[h].ends.target}
             \subseteq DOMAIN entities \union DOMAIN gone
    /\ job[h].pc = "dep_insert" =>
          \A d \in DOMAIN deps :
              deps[d].checked /\ deps[d].ends = job[h].ends => job[h].last < d
    /\ job[h].pc \in {"entity_incoming", "entity_delete"} =>
          \A d \in DOMAIN deps :
              deps[d].checked /\ deps[d].ends.source = job[h].target => job[h].last < d
    /\ job[h].pc = "entity_delete" =>
          \A d \in DOMAIN deps :
              deps[d].checked /\ deps[d].ends.target = job[h].target => job[h].last < d

LocalsOK == \A h \in Handlers : LocalOK(h)

\* No entity went later than now.
LossesDated == \A e \in DOMAIN gone : gone[e].last <= serial.deps

IInv ==
    /\ TypeOK /\ LocalsOK /\ ChildrenCameLate
    /\ TwinsOverlapped /\ LossesExplained /\ LossesDated

OthersWait(h) == \A k \in Handlers \ {h} : job'[k] = job[k]

\* Rows of create_dependency are old ones, or have an id that was not given before.
DepsAge ==
    /\ serial'.deps >= serial.deps
    /\ DOMAIN deps' \subseteq Nat
    /\ \A d \in DOMAIN deps' : deps'[d].checked =>
          (d \in DOMAIN deps /\ deps'[d] = deps[d]) \/ d > serial.deps

\* No entity goes unrecorded.
Recorded ==
    DOMAIN entities \union DOMAIN gone \subseteq DOMAIN entities' \union DOMAIN gone'

-----------------------------------------------------------------------------
(***************************************************************************)
(* Cascades                                                                *)
(***************************************************************************)
\* Below is a set of rows that holds those it is asked for and every child of its own.
LEMMA BelowClosed ==
  ASSUME NEW parent, NEW ids
  PROVE  /\ Below(parent, ids) \subseteq DOMAIN parent
         /\ ids \intersect DOMAIN parent \subseteq Below(parent, ids)
         /\ \A y \in DOMAIN parent :
               parent[y] \in Below(parent, ids) => y \in Below(parent, ids)
  BY DEF Below

\* Nothing but a row without children goes with it.
LEMMA BelowLeaf ==
  ASSUME NEW parent, NEW x, \A y \in DOMAIN parent : parent[y] # x
  PROVE  Below(parent, {x}) \subseteq {x}
<1> DEFINE S == {x} \intersect DOMAIN parent
<1>1. /\ S \in SUBSET DOMAIN parent
      /\ {x} \intersect DOMAIN parent \subseteq S
      /\ \A y \in DOMAIN parent : parent[y] \in S => y \in S
  OBVIOUS
<1>2. \A y \in Below(parent, {x}) : y \in S
  BY <1>1 DEF Below
<1> QED
  BY <1>2

-----------------------------------------------------------------------------
(***************************************************************************)
(* Handler bookkeeping                                                     *)
(***************************************************************************)
\* An idle handler has the type of a handler.
LEMMA IdleType == Idle \in Job
  BY DEF Idle, Job, Places, Fronts, Ends, None

\* New locals go to one handler, and the others stay where they are.
LEMMA DoEffect ==
  ASSUME TypeOK, NEW h \in Handlers, NEW j \in Job, Do(h, j)
  PROVE  job' \in [Handlers -> Job] /\ job'[h] = j /\ OthersWait(h)
  BY DEF TypeOK, Do, OthersWait

\* Nothing is promised of an idle handler.
LEMMA IdleLocalOK ==
  ASSUME NEW h \in Handlers, job'[h] = Idle, serial'.deps \in Nat
  PROVE  LocalOK(h)'
  BY DEF LocalOK, Idle

\* What a handler relies on survives a step that leaves it where it is.
LEMMA StillOK ==
  ASSUME TypeOK, DepsAge, Recorded, serial'.deps \in Nat, NEW k \in Handlers, LocalOK(k),
         job'[k].pc = job[k].pc, job'[k].target = job[k].target,
         job'[k].ends = job[k].ends, job'[k].last = job[k].last
  PROVE  LocalOK(k)'
<1>1. job[k].last \in Nat /\ serial.deps \in Nat /\ job[k].last <= serial.deps
  BY DEF TypeOK, Job, LocalOK
<1>2. ASSUME NEW d \in DOMAIN deps', deps'[d].checked
      PROVE  (d \in DOMAIN deps /\ deps'[d] = deps[d]) \/ job[k].last < d
  BY <1>1, <1>2 DEF DepsAge
<1>3. job'[k].last <= serial'.deps
  BY <1>1 DEF DepsAge, LocalOK
<1>4. job[k].pc \in {"dep_existing", "dep_insert"} =>
         {job[k].ends.source, job[k].ends.target}
            \subseteq DOMAIN entities' \union DOMAIN gone'
  BY DEF Recorded, LocalOK
<1>5. job[k].pc = "dep_insert" =>
         \A d \in DOMAIN deps' :
             deps'[d].checked /\ deps'[d].ends = job[k].ends => job[k].last < d
  BY <1>2 DEF LocalOK
<1>6. job[k].pc \in {"entity_incoming", "entity_delete"} =>
         \A d \in DOMAIN deps' :
             deps'[d].checked /\ deps'[d].ends.source = job[k].target => job[k].last < d
  BY <1>2 DEF LocalOK
<1>7. job[k].pc = "entity_delete" =>
         \A d \in DOMAIN deps' :
             deps'[d].checked /\ deps'[d].ends.target = job[k].target => job[k].last < d
  BY <1>2 DEF LocalOK
<1> QED
  BY <1>3, <1>4, <1>5, <1>6, <1>7 DEF LocalOK

\* After a step of one handler only its own locals have to be looked at.
LEMMA LocalsFromOne ==
  ASSUME IInv, DepsAge, Recorded, serial'.deps \in Nat, NEW h \in Handlers,
         OthersWait(h), LocalOK(h)'
  PROVE  LocalsOK'
  BY StillOK DEF IInv, LocalsOK, OthersWait

\* Children stay explained when the hierarchy loses rows or stays, and whoever begins to
\* delete has counted none.
LEMMA LateFromOne ==
  ASSUME ChildrenCameLate, NEW h \in Handlers, OthersWait(h),
         DOMAIN orgs' \subseteq DOMAIN orgs, \A o \in DOMAIN orgs' : orgs'[o] = orgs[o],
         job'[h].pc = "org_delete" =>
            \A o \in DOMAIN orgs : orgs[o] # job'[h].target
  PROVE  ChildrenCameLate'
  BY DEF ChildrenCameLate, OthersWait, At, Children

\* What is left to show of a step that writes no table.
LEMMA ReadStep ==
  ASSUME IInv, NEW h \in Handlers, UNCHANGED <<orgs, entities, deps, serial, gone>>,
         calls' \in Nat, job' \in [Handlers -> Job], OthersWait(h), LocalOK(h)',
         job'[h].pc = "org_delete" =>
            \A o \in DOMAIN orgs : orgs[o] # job'[h].target
  PROVE  IInv'
<1>1. TypeOK'
  BY DEF IInv, TypeOK, KeysHold
<1>2. DepsAge /\ Recorded /\ serial'.deps \in Nat
  BY DEF IInv, TypeOK, DepsAge, Recorded
<1>3. LocalsOK'
  BY <1>2, LocalsFromOne
<1>4. ChildrenCameLate'
  BY LateFromOne DEF IInv
<1>5. TwinsOverlapped' /\ LossesExplained' /\ LossesDated'
  BY DEF IInv, TwinsOverlapped, LossesExplained, LossesDated
<1> QED
  BY <1>1, <1>3, <1>4, <1>5 DEF IInv

\* What is left to show of a step that writes dependencies, none of them checked.
LEMMA UncheckedStep ==
  ASSUME IInv, UNCHANGED <<orgs, entities, gone>>, calls' \in Nat,
         serial' \in [orgs: Nat, entities: Nat, deps: Nat],
         serial'.orgs = serial.orgs, serial'.entities = serial.entities,
         serial'.deps >= serial.deps,
         DOMAIN deps' \subseteq 1..serial'.deps,
         \A d \in DOMAIN deps' :
            \/ d \in DOMAIN deps /\ deps'[d] = deps[d]
            \/ deps'[d] \in Dependency /\ ~deps'[d].checked,
         \/ job' = job
         \/ \E h \in Handlers : Finish(h)
  PROVE  IInv'
<1>1. serial \in [orgs: Nat, entities: Nat, deps: Nat]
  BY DEF IInv, TypeOK
<1>2. DepsAge /\ Recorded
  BY <1>1 DEF DepsAge, Recorded
<1>3. job' \in [Handlers -> Job] /\ LocalsOK' /\ ChildrenCameLate'
  <2>1. CASE job' = job
    <3>1. LocalsOK'
      BY <1>1, <1>2, <2>1, StillOK DEF IInv, LocalsOK
    <3> QED
      BY <2>1, <3>1 DEF IInv, TypeOK, ChildrenCameLate, At, Children
  <2>2. ASSUME NEW h \in Handlers, Finish(h)
        PROVE  job' \in [Handlers -> Job] /\ LocalsOK' /\ ChildrenCameLate'
    <3>1. job' \in [Handlers -> Job] /\ job'[h] = Idle /\ OthersWait(h)
      BY <2>2, DoEffect, IdleType DEF IInv, Finish
    <3>2. LocalOK(h)'
      BY <1>1, <3>1, IdleLocalOK
    <3>3. LocalsOK'
      BY <1>1, <1>2, <3>1, <3>2, LocalsFromOne
    <3>4. job'[h].pc # "org_delete"
      BY <3>1 DEF Idle
    <3>5. ChildrenCameLate'
      BY <3>1, <3>4, LateFromOne DEF IInv
    <3> QED
      BY <3>1, <3>3, <3>5
  <2> QED
    BY <2>1, <2>2
<1>4. TypeOK'
  BY <1>1, <1>3 DEF IInv, TypeOK, KeysHold
<1>5. TwinsOverlapped'
  BY DEF IInv, TwinsOverlapped
<1>6. LossesExplained'
  BY DEF IInv, LossesExplained
<1>7. LossesDated'
  BY <1>1 DEF IInv, TypeOK, LossesDated, Departure
<1> QED
  BY <1>3, <1>4, <1>5, <1>6, <1>7 DEF IInv

\* Entities that go with all their children leave the hierarchy whole, and what was lost
\* with them is explained when the one that was counted had younger dependencies only.
LEMMA DepartStep ==
  ASSUME IInv, NEW out \in SUBSET DOMAIN entities, NEW counted, NEW last \in Nat,
         last <= serial.deps, Depart(out, counted, last), UNCHANGED <<deps, serial>>,
         \A e \in DOMAIN entities : entities[e].parent \in out => e \in out,
         counted \in out =>
            \A d \in DOMAIN deps :
                deps[d].checked /\ counted \in {deps[d].ends.source, deps[d].ends.target}
                => last < d
  PROVE  /\ DOMAIN entities' = DOMAIN entities \ out
         /\ \A e \in DOMAIN entities' :
               /\ entities'[e] = entities[e]
               /\ entities'[e].parent \in DOMAIN entities' \union {0}
         /\ \A e \in DOMAIN gone' : gone'[e] \in Departure
         /\ DepsAge /\ Recorded
         /\ TwinsOverlapped' /\ LossesExplained' /\ LossesDated'
<1>1. /\ DOMAIN entities' = DOMAIN entities \ out
      /\ \A e \in DOMAIN entities' : entities'[e] = entities[e]
  BY DEF Depart, Without
<1>2. /\ DOMAIN gone' = DOMAIN gone \union out
      /\ \A e \in out : gone'[e] = [counted |-> e = counted, last |-> last]
      /\ \A e \in DOMAIN gone \ out : gone'[e] = gone[e]
  BY DEF Depart
<1>3. \A e \in out : /\ gone'[e] \in Departure
                     /\ gone'[e].counted => e = counted
                     /\ gone'[e].last = last
  <2> TAKE e \in out
  <2> DEFINE b == e = counted
  <2>1. b \in BOOLEAN
    OBVIOUS
  <2>2. gone'[e] = [counted |-> b, last |-> last]
    BY <1>2
  <2>3. b => e = counted
    OBVIOUS
  <2> HIDE DEF b
  <2> QED
    BY <2>1, <2>2, <2>3 DEF Departure
<1>4. \A e \in DOMAIN entities' : entities'[e].parent \in DOMAIN entities' \union {0}
  BY <1>1 DEF IInv, TypeOK, KeysHold
<1>5. \A e \in DOMAIN gone' : gone'[e] \in Departure
  BY <1>2, <1>3 DEF IInv, TypeOK
<1>6. DepsAge /\ Recorded
  BY <1>1, <1>2 DEF IInv, TypeOK, DepsAge, Recorded
<1>7. TwinsOverlapped'
  BY DEF IInv, TwinsOverlapped
<1>8. LossesExplained'
  <2> SUFFICES ASSUME NEW d \in DOMAIN deps, deps[d].checked,
                      NEW e \in {deps[d].ends.source, deps[d].ends.target},
                      e \notin DOMAIN entities'
               PROVE  /\ e \in DOMAIN gone'
                      /\ gone'[e].counted => d > gone'[e].last
    BY DEF LossesExplained
  <2>1. d \in Nat
    BY DEF IInv, TypeOK
  <2>2. CASE e \in out
    BY <1>2, <1>3, <2>1, <2>2
  <2>3. CASE e \notin out
    BY <1>1, <1>2, <2>3 DEF IInv, LossesExplained
  <2> QED
    BY <2>2, <2>3
<1>9. LossesDated'
  BY <1>2, <1>3 DEF IInv, LossesDated
<1> QED
  BY <1>1, <1>4, <1>5, <1>6, <1>7, <1>8, <1>9

-----------------------------------------------------------------------------
(***************************************************************************)
(* Organizations                                                           *)
(***************************************************************************)
\* An organization put under a parent that is there becomes a late child of whoever is
\* about to delete the parent.
LEMMA PutOrganizationStep ==
  ASSUME IInv, NEW o \in Nat \ {0}, NEW parent \in DOMAIN orgs \union {0},
         PutOrganization(o, parent), UNCHANGED <<entities, deps, gone>>, calls' \in Nat,
         serial' \in [orgs: Nat, entities: Nat, deps: Nat],
         serial'.orgs >= serial.orgs, serial'.orgs >= o,
         serial'.entities = serial.entities, serial'.deps = serial.deps
  PROVE  IInv'
<1>1. serial \in [orgs: Nat, entities: Nat, deps: Nat]
  BY DEF IInv, TypeOK
<1>2. /\ DOMAIN orgs' = DOMAIN orgs \union {o}
      /\ orgs'[o] = parent
      /\ \A x \in DOMAIN orgs \ {o} : orgs'[x] = orgs[x]
  BY DEF PutOrganization, Put
<1>3. ASSUME NEW h \in Handlers
      PROVE  /\ job'[h] \in Job
             /\ job'[h].pc = job[h].pc /\ job'[h].target = job[h].target
             /\ job'[h].ends = job[h].ends /\ job'[h].last = job[h].last
             /\ job[h].late \subseteq job'[h].late
             /\ At(h, "org_delete") /\ job[h].target = parent => o \in job'[h].late
  <2>1. job[h] \in Job
    BY DEF IInv, TypeOK
  <2>2. job'[h] = IF At(h, "org_delete") /\ job[h].target = parent
                  THEN [job[h] EXCEPT !.late = @ \union {o}] ELSE job[h]
    BY DEF PutOrganization
  <2>3. CASE At(h, "org_delete") /\ job[h].target = parent
    <3> DEFINE new == [job[h] EXCEPT !.late = @ \union {o}]
    <3>1. new \in Job
      BY <2>1 DEF Job
    <3>2. /\ new.pc = job[h].pc /\ new.target = job[h].target
          /\ new.ends = job[h].ends /\ new.last = job[h].last
          /\ new.late = job[h].late \union {o}
      BY <2>1 DEF Job
    <3>3. job'[h] = new
      BY <2>2, <2>3
    <3> QED
      BY <3>1, <3>2, <3>3
  <2>4. CASE ~(At(h, "org_delete") /\ job[h].target = parent)
    BY <2>1, <2>2, <2>4
  <2> QED
    BY <2>3, <2>4
<1>4. job' \in [Handlers -> Job]
  BY <1>3 DEF PutOrganization
<1>5. KeysHold(orgs', entities')
  BY <1>2 DEF IInv, TypeOK, KeysHold
<1>6. TypeOK'
  BY <1>1, <1>2, <1>4, <1>5 DEF IInv, TypeOK
<1>7. DepsAge /\ Recorded
  BY <1>1 DEF IInv, TypeOK, DepsAge, Recorded
<1>8. LocalsOK'
  BY <1>1, <1>3, <1>7, StillOK DEF IInv, TypeOK, LocalsOK
<1>9. ChildrenCameLate'
  BY <1>2, <1>3 DEF IInv, ChildrenCameLate, At, Children
<1>10. TwinsOverlapped' /\ LossesExplained' /\ LossesDated'
  BY <1>1 DEF IInv, TwinsOverlapped, LossesExplained, LossesDated
<1> QED
  BY <1>6, <1>8, <1>9, <1>10 DEF IInv

\* create_organization and update_organization keep the invariant.
LEMMA OrganizationPuts ==
  ASSUME IInv, create_organization \/ update_organization
  PROVE  IInv'
<1>1. CASE create_organization
  <2>1. PICK parent \in DOMAIN orgs \union {0} : PutOrganization(serial.orgs + 1, parent)
    BY <1>1 DEF create_organization
  <2>2. /\ serial' \in [orgs: Nat, entities: Nat, deps: Nat]
        /\ serial'.orgs = serial.orgs + 1
        /\ serial'.entities = serial.entities /\ serial'.deps = serial.deps
    BY <1>1 DEF create_organization, IInv, TypeOK
  <2>3. serial.orgs \in Nat /\ calls' \in Nat
    BY <1>1 DEF create_organization, Operation, IInv, TypeOK
  <2>4. serial.orgs + 1 \in Nat \ {0} /\ serial'.orgs >= serial.orgs
    BY <2>2, <2>3
  <2> QED
    BY <1>1, <2>1, <2>2, <2>3, <2>4, PutOrganizationStep DEF create_organization
<1>2. CASE update_organization
  <2>1. PICK o \in DOMAIN orgs, parent \in DOMAIN orgs : PutOrganization(o, parent)
    BY <1>2 DEF update_organization
  <2>2. /\ serial' = serial /\ serial \in [orgs: Nat, entities: Nat, deps: Nat]
        /\ calls' \in Nat
        /\ o \in Nat \ {0} /\ o <= serial.orgs
    BY <1>2 DEF update_organization, Operation, IInv, TypeOK
  <2> QED
    BY <1>2, <2>1, <2>2, PutOrganizationStep DEF update_organization
<1> QED
  BY <1>1, <1>2

\* delete_organization goes on with an organization that has no children.
LEMMA OrganizationChildrenStep ==
  ASSUME IInv, NEW h \in Handlers, OrganizationChildren(h)
  PROVE  IInv'
<1>1. PICK o \in DOMAIN orgs :
         /\ Children(o) = {}
         /\ Do(h, [Idle EXCEPT !.pc = "org_delete", !.target = o])
  BY DEF OrganizationChildren
<1> DEFINE new == [Idle EXCEPT !.pc = "org_delete", !.target = o]
<1>2. new \in Job /\ new.pc = "org_delete" /\ new.target = o /\ new.last = 0
  <2>1. o \in Nat
    BY DEF IInv, TypeOK
  <2>2. new \in Job
    BY <2>1, IdleType DEF Job, Places
  <2> QED
    BY <2>2 DEF Idle
<1> HIDE DEF new
<1>3. Do(h, new)
  BY <1>1 DEF new
<1>4. job' \in [Handlers -> Job] /\ job'[h] = new /\ OthersWait(h)
  BY <1>2, <1>3, DoEffect DEF IInv
<1>5. UNCHANGED <<orgs, entities, deps, serial, gone>> /\ calls' \in Nat
  BY DEF OrganizationChildren, Operation, IInv, TypeOK
<1>6. serial'.deps \in Nat
  BY <1>5 DEF IInv, TypeOK
<1>7. LocalOK(h)'
  BY <1>2, <1>4, <1>6 DEF LocalOK
<1>8. \A x \in DOMAIN orgs : orgs[x] # job'[h].target
  BY <1>1, <1>2, <1>4 DEF Children
<1> QED
  BY <1>4, <1>5, <1>7, <1>8, ReadStep

\* What is left to show of a step that sends entities away.
LEMMA GoneStep ==
  ASSUME IInv,
         NEW out \in SUBSET DOMAIN entities, NEW counted, NEW last \in Nat,
         last <= serial.deps, Depart(out, counted, last), UNCHANGED <<deps, serial>>,
         \A e \in DOMAIN entities : entities[e].parent \in out => e \in out,
         counted \in out =>
            \A d \in DOMAIN deps :
                deps[d].checked /\ counted \in {deps[d].ends.source, deps[d].ends.target}
                => last < d,
         DOMAIN orgs' \subseteq DOMAIN orgs,
         \A o \in DOMAIN orgs' :
            orgs'[o] = orgs[o] /\ orgs'[o] \in DOMAIN orgs' \union {0},
         \A e \in DOMAIN entities \ out : entities[e].org \in DOMAIN orgs',
         calls' \in Nat,
         \/ job' = job
         \/ \E h \in Handlers : Finish(h)
  PROVE  IInv'
<1>1. /\ DOMAIN entities' = DOMAIN entities \ out
      /\ \A e \in DOMAIN entities' :
            /\ entities'[e] = entities[e]
            /\ entities'[e].parent \in DOMAIN entities' \union {0}
      /\ \A e \in DOMAIN gone' : gone'[e] \in Departure
      /\ DepsAge /\ Recorded
      /\ TwinsOverlapped' /\ LossesExplained' /\ LossesDated'
  BY DepartStep
<1>2. serial'.deps \in Nat
  BY DEF IInv, TypeOK
<1>3. job' \in [Handlers -> Job] /\ LocalsOK' /\ ChildrenCameLate'
  <2>1. ASSUME NEW h \in Handlers, Finish(h)
        PROVE  job' \in [Handlers -> Job] /\ LocalsOK' /\ ChildrenCameLate'
    <3>1. job' \in [Handlers -> Job] /\ job'[h] = Idle /\ OthersWait(h)
      BY <2>1, DoEffect, IdleType DEF IInv, Finish
    <3>2. LocalsOK'
      BY <1>1, <1>2, <3>1, IdleLocalOK, LocalsFromOne
    <3>3. job'[h].pc # "org_delete"
      BY <3>1 DEF Idle
    <3> QED
      BY <3>1, <3>2, <3>3, LateFromOne DEF IInv
  <2>2. CASE job' = job
    <3>1. LocalsOK'
      BY <1>1, <1>2, <2>2, StillOK DEF IInv, LocalsOK
    <3> QED
      BY <2>2, <3>1 DEF IInv, TypeOK, ChildrenCameLate, At, Children
  <2> QED
    BY <2>1, <2>2
<1>4. KeysHold(orgs', entities')
  BY <1>1 DEF KeysHold
<1>5. TypeOK'
  BY <1>1, <1>3, <1>4 DEF IInv, TypeOK
<1> QED
  BY <1>1, <1>3, <1>5 DEF IInv

\* The entities that Below takes are some of them, and take their children along.
LEMMA BelowEntities ==
  ASSUME NEW ids
  PROVE  /\ Below(EntityParent, ids) \subseteq DOMAIN entities
         /\ ids \intersect DOMAIN entities \subseteq Below(EntityParent, ids)
         /\ \A e \in DOMAIN entities :
               entities[e].parent \in Below(EntityParent, ids)
               => e \in Below(EntityParent, ids)
<1>1. /\ DOMAIN EntityParent = DOMAIN entities
      /\ \A e \in DOMAIN entities : EntityParent[e] = entities[e].parent
  BY DEF EntityParent
<1>2. /\ Below(EntityParent, ids) \subseteq DOMAIN EntityParent
      /\ ids \intersect DOMAIN EntityParent \subseteq Below(EntityParent, ids)
      /\ \A y \in DOMAIN EntityParent :
            EntityParent[y] \in Below(EntityParent, ids) => y \in Below(EntityParent, ids)
  BY BelowClosed
<1> HIDE DEF EntityParent
<1> QED
  BY <1>1, <1>2

\* The cascade of an organization leaves both hierarchies whole.
LEMMA OrganizationDeleteStep ==
  ASSUME IInv, NEW h \in Handlers, OrganizationDelete(h)
  PROVE  IInv'
<1> DEFINE out == Below(orgs, {job[h].target})
           with == {e \in DOMAIN entities : entities[e].org \in out}
           away == Below(EntityParent, with)
<1>1. /\ out \subseteq DOMAIN orgs
      /\ \A o \in DOMAIN orgs : orgs[o] \in out => o \in out
  BY BelowClosed
<1>2. /\ away \in SUBSET DOMAIN entities
      /\ with \subseteq away
      /\ \A e \in DOMAIN entities : entities[e].parent \in away => e \in away
  <2>1. with \intersect DOMAIN entities = with
    OBVIOUS
  <2> HIDE DEF with
  <2> QED
    BY <2>1, BelowEntities
<1>3. orgs' = Without(orgs, out) /\ Depart(away, 0, 0)
  BY DEF OrganizationDelete
<1> HIDE DEF out
<1>4. \A e \in DOMAIN entities \ away : entities[e].org \notin out
  BY <1>2
<1> HIDE DEF away, with
<1>5. /\ DOMAIN orgs' = DOMAIN orgs \ out
      /\ \A o \in DOMAIN orgs' : orgs'[o] = orgs[o]
  BY <1>3 DEF Without
<1>6. \A o \in DOMAIN orgs' : orgs'[o] \in DOMAIN orgs' \union {0}
  BY <1>1, <1>5 DEF IInv, TypeOK, KeysHold
<1>7. \A e \in DOMAIN entities \ away : entities[e].org \in DOMAIN orgs'
  BY <1>4, <1>5 DEF IInv, TypeOK, KeysHold
<1>8. 0 \notin away /\ 0 <= serial.deps
  BY <1>2 DEF IInv, TypeOK
<1>9. UNCHANGED <<deps, serial>> /\ calls' \in Nat /\ Finish(h)
  BY DEF OrganizationDelete, IInv, TypeOK
<1> QED
  BY <1>2, <1>3, <1>5, <1>6, <1>7, <1>8, <1>9, GoneStep

-----------------------------------------------------------------------------
(***************************************************************************)
(* Entities                                                                *)
(***************************************************************************)
\* An entity written with an organization and a parent that are there.
LEMMA PutEntityStep ==
  ASSUME IInv, UNCHANGED <<orgs, deps, job, gone>>, calls' \in Nat,
         serial' \in [orgs: Nat, entities: Nat, deps: Nat],
         serial'.orgs = serial.orgs, serial'.deps = serial.deps,
         serial'.entities >= serial.entities,
         NEW e \in Nat \ {0}, serial'.entities >= e,
         NEW row \in Entity, row.org \in DOMAIN orgs,
         row.parent \in DOMAIN entities \union {0},
         entities' = Put(entities, e, row)
  PROVE  IInv'
<1>1. serial \in [orgs: Nat, entities: Nat, deps: Nat]
  BY DEF IInv, TypeOK
<1>2. /\ DOMAIN entities' = DOMAIN entities \union {e}
      /\ entities'[e] = row
      /\ \A x \in DOMAIN entities \ {e} : entities'[x] = entities[x]
  BY DEF Put
<1>3. KeysHold(orgs', entities')
  BY <1>2 DEF IInv, TypeOK, KeysHold
<1>4. TypeOK'
  BY <1>1, <1>2, <1>3 DEF IInv, TypeOK
<1>5. DepsAge /\ Recorded
  BY <1>1, <1>2 DEF IInv, TypeOK, DepsAge, Recorded
<1>6. LocalsOK'
  BY <1>1, <1>5, StillOK DEF IInv, LocalsOK
<1>7. ChildrenCameLate' /\ TwinsOverlapped' /\ LossesDated'
  BY DEF IInv, ChildrenCameLate, At, Children, TwinsOverlapped, LossesDated
<1>8. LossesExplained'
  BY <1>2 DEF IInv, LossesExplained
<1> QED
  BY <1>4, <1>6, <1>7, <1>8 DEF IInv

\* create_entity and update_entity keep the invariant.
LEMMA EntityPuts ==
  ASSUME IInv, create_entity \/ update_entity
  PROVE  IInv'
<1>1. /\ serial \in [orgs: Nat, entities: Nat, deps: Nat]
      /\ DOMAIN orgs \subseteq Nat \ {0} /\ DOMAIN entities \subseteq Nat \ {0}
      /\ calls \in Nat
      /\ KeysHold(orgs, entities)
      /\ \A e \in DOMAIN entities : e <= serial.entities /\ entities[e] \in Entity
  BY DEF IInv, TypeOK
<1>2. CASE create_entity
  <2>1. PICK o \in DOMAIN orgs, parent \in DOMAIN entities \union {0} :
           entities' = Put(entities, serial.entities + 1, [org |-> o, parent |-> parent])
    BY <1>2 DEF create_entity
  <2>2. /\ serial' \in [orgs: Nat, entities: Nat, deps: Nat]
        /\ serial'.orgs = serial.orgs /\ serial'.deps = serial.deps
        /\ serial'.entities = serial.entities + 1
    BY <1>1, <1>2 DEF create_entity
  <2>3. calls' \in Nat /\ UNCHANGED <<orgs, deps, job, gone>>
    BY <1>1, <1>2 DEF create_entity, Operation
  <2> DEFINE row == [org |-> o, parent |-> parent]
  <2>4. row \in Entity /\ row.org = o /\ row.parent = parent
    BY <1>1 DEF Entity, Parents
  <2>5. entities' = Put(entities, serial.entities + 1, row)
    BY <2>1
  <2>6. serial.entities + 1 \in Nat \ {0} /\ serial'.entities >= serial.entities
    BY <1>1, <2>2
  <2> HIDE DEF row
  <2> QED
    BY <2>2, <2>3, <2>4, <2>5, <2>6, PutEntityStep
<1>3. CASE update_entity
  <2>1. PICK e \in DOMAIN entities :
           \/ \E o \in DOMAIN orgs :
                 entities' = Put(entities, e, [entities[e] EXCEPT !.org = o])
           \/ \E parent \in DOMAIN entities :
                 entities' = Put(entities, e, [entities[e] EXCEPT !.parent = parent])
    BY <1>3 DEF update_entity
  <2>2. calls' \in Nat /\ UNCHANGED <<orgs, deps, serial, job, gone>>
    BY <1>1, <1>3 DEF update_entity, Operation
  <2>3. /\ entities[e] \in Entity /\ entities[e].org \in DOMAIN orgs
        /\ entities[e].parent \in DOMAIN entities \union {0}
    BY <1>1 DEF KeysHold
  <2>4. ASSUME NEW o \in DOMAIN orgs,
               entities' = Put(entities, e, [entities[e] EXCEPT !.org = o])
        PROVE  IInv'
    <3> DEFINE row == [entities[e] EXCEPT !.org = o]
    <3>1. row \in Entity /\ row.org = o /\ row.parent = entities[e].parent
      BY <1>1, <2>3 DEF Entity
    <3>2. entities' = Put(entities, e, row)
      BY <2>4
    <3> HIDE DEF row
    <3> QED
      BY <1>1, <2>2, <2>3, <3>1, <3>2, PutEntityStep
  <2>5. ASSUME NEW parent \in DOMAIN entities,
               entities' = Put(entities, e, [entities[e] EXCEPT !.parent = parent])
        PROVE  IInv'
    <3> DEFINE row == [entities[e] EXCEPT !.parent = parent]
    <3>1. row \in Entity /\ row.org = entities[e].org /\ row.parent = parent
      BY <1>1, <2>3 DEF Entity, Parents
    <3>2. entities' = Put(entities, e, row)
      BY <2>5
    <3> HIDE DEF row
    <3> QED
      BY <1>1, <2>2, <2>3, <3>1, <3>2, PutEntityStep
  <2> QED
    BY <2>1, <2>4, <2>5
<1> QED
  BY <1>2, <1>3

\* delete_entity goes on with an entity no dependency starts from.
LEMMA EntityOutgoingStep ==
  ASSUME IInv, NEW h \in Handlers, EntityOutgoing(h)
  PROVE  IInv'
<1>1. PICK e \in DOMAIN entities :
         /\ Outgoing(e) = {}
         /\ Do(h, [Idle EXCEPT !.pc = "entity_incoming", !.target = e,
                               !.last = serial.deps])
  BY DEF EntityOutgoing
<1> DEFINE new == [Idle EXCEPT !.pc = "entity_incoming", !.target = e,
                               !.last = serial.deps]
<1>2. /\ new \in Job /\ new.pc = "entity_incoming" /\ new.target = e
      /\ new.last = serial.deps
  <2>1. e \in Nat /\ serial.deps \in Nat
    BY DEF IInv, TypeOK
  <2>2. new \in Job
    BY <2>1, IdleType DEF Job, Places
  <2> QED
    BY <2>2 DEF Idle
<1> HIDE DEF new
<1>3. Do(h, new)
  BY <1>1 DEF new
<1>4. job' \in [Handlers -> Job] /\ job'[h] = new /\ OthersWait(h)
  BY <1>2, <1>3, DoEffect DEF IInv
<1>5. UNCHANGED <<orgs, entities, deps, serial, gone>> /\ calls' \in Nat
  BY DEF EntityOutgoing, Operation, IInv, TypeOK
<1>6. serial.deps \in Nat /\ \A d \in DOMAIN deps : deps[d].ends.source # e
  BY <1>1 DEF IInv, TypeOK, Outgoing
<1>7. LocalOK(h)'
  BY <1>2, <1>4, <1>5, <1>6 DEF LocalOK
<1> QED
  BY <1>2, <1>4, <1>5, <1>7, ReadStep

\* ... and with one where none ends.
LEMMA EntityIncomingStep ==
  ASSUME IInv, NEW h \in Handlers, EntityIncoming(h)
  PROVE  IInv'
<1>1. UNCHANGED <<orgs, entities, deps, serial, gone, calls>> /\ calls' \in Nat
  BY DEF EntityIncoming, IInv, TypeOK
<1>2. job[h] \in Job /\ serial.deps \in Nat /\ LocalOK(h) /\ job[h].pc = "entity_incoming"
  BY DEF IInv, TypeOK, LocalsOK, EntityIncoming, At
<1>3. CASE Incoming(job[h].target) = {}
  <2> DEFINE new == [job[h] EXCEPT !.pc = "entity_delete"]
  <2>1. /\ new \in Job /\ new.pc = "entity_delete" /\ new.target = job[h].target
        /\ new.last = job[h].last
    BY <1>2 DEF Job, Places
  <2>2. Do(h, new)
    BY <1>3 DEF EntityIncoming
  <2> HIDE DEF new
  <2>3. job' \in [Handlers -> Job] /\ job'[h] = new /\ OthersWait(h)
    BY <2>1, <2>2, DoEffect DEF IInv
  <2>4. \A d \in DOMAIN deps : deps[d].ends.target # job[h].target
    BY <1>3 DEF Incoming
  <2>5. LocalOK(h)'
    BY <1>1, <1>2, <2>1, <2>3, <2>4 DEF LocalOK
  <2> QED
    BY <1>1, <2>1, <2>3, <2>5, ReadStep
<1>4. CASE Incoming(job[h].target) # {}
  <2>1. Do(h, Idle)
    BY <1>4 DEF EntityIncoming, Finish
  <2>2. job' \in [Handlers -> Job] /\ job'[h] = Idle /\ OthersWait(h)
    BY <2>1, IdleType, DoEffect DEF IInv
  <2>3. LocalOK(h)' /\ job'[h].pc # "org_delete"
    BY <1>1, <1>2, <2>2, IdleLocalOK DEF Idle
  <2> QED
    BY <1>1, <2>2, <2>3, ReadStep
<1> QED
  BY <1>3, <1>4

\* The cascade of an entity that was counted loses younger dependencies only.
LEMMA EntityDeleteStep ==
  ASSUME IInv, NEW h \in Handlers, EntityDelete(h)
  PROVE  IInv'
<1> DEFINE t == job[h].target
           out == Below(EntityParent, {t})
<1>1. /\ out \in SUBSET DOMAIN entities
      /\ \A e \in DOMAIN entities : entities[e].parent \in out => e \in out
  BY BelowEntities
<1>2. /\ Depart(out, t, job[h].last)
      /\ UNCHANGED <<orgs, deps, serial, calls>> /\ Finish(h)
  BY DEF EntityDelete
<1> HIDE DEF out
<1>3. /\ job[h].last \in Nat /\ job[h].last <= serial.deps /\ job[h].pc = "entity_delete"
      /\ LocalOK(h) /\ calls' \in Nat
  BY <1>2 DEF IInv, TypeOK, LocalsOK, LocalOK, Job, EntityDelete, At
<1>4. \A d \in DOMAIN deps :
         deps[d].checked /\ t \in {deps[d].ends.source, deps[d].ends.target}
         => job[h].last < d
  BY <1>3 DEF LocalOK
<1>5. /\ \A o \in DOMAIN orgs : orgs[o] \in DOMAIN orgs \union {0}
      /\ \A e \in DOMAIN entities : entities[e].org \in DOMAIN orgs
  BY DEF IInv, TypeOK, KeysHold
<1> HIDE DEF t
<1> QED
  BY <1>1, <1>2, <1>3, <1>4, <1>5, GoneStep

\* DeleteEntity of the gRPC servicer is a loss without a count.
LEMMA UncountedDeleteStep ==
  ASSUME IInv, DeleteEntity
  PROVE  IInv'
<1>1. PICK e \in DOMAIN entities : Depart(Below(EntityParent, {e}), 0, 0)
  BY DEF DeleteEntity
<1> DEFINE out == Below(EntityParent, {e})
<1>2. /\ out \in SUBSET DOMAIN entities
      /\ \A x \in DOMAIN entities : entities[x].parent \in out => x \in out
  BY BelowEntities
<1>3. Depart(out, 0, 0)
  BY <1>1
<1> HIDE DEF out
<1>4. 0 \notin out /\ 0 <= serial.deps /\ calls' \in Nat
  BY <1>2 DEF IInv, TypeOK, DeleteEntity, Operation
<1>5. UNCHANGED <<orgs, deps, serial, job>>
  BY DEF DeleteEntity
<1>6. /\ \A o \in DOMAIN orgs : orgs[o] \in DOMAIN orgs \union {0}
      /\ \A x \in DOMAIN entities : entities[x].org \in DOMAIN orgs
  BY DEF IInv, TypeOK, KeysHold
<1> QED
  BY <1>2, <1>3, <1>4, <1>5, <1>6, GoneStep

-----------------------------------------------------------------------------
(***************************************************************************)
(* Dependencies                                                            *)
(***************************************************************************)
\* create_dependency goes on with two ends that are there.
LEMMA DependencyEndsStep ==
  ASSUME IInv, NEW h \in Handlers, DependencyEnds(h)
  PROVE  IInv'
<1>1. PICK s \in DOMAIN entities, t \in DOMAIN entities :
         Do(h, [Idle EXCEPT !.pc = "dep_existing",
                            !.ends = [source |-> s, target |-> t]])
  BY DEF DependencyEnds
<1> DEFINE ends == [source |-> s, target |-> t]
           new == [Idle EXCEPT !.pc = "dep_existing", !.ends = ends]
<1>2. ends \in Ends /\ ends.source = s /\ ends.target = t
  BY DEF IInv, TypeOK, Ends
<1>3. Do(h, new)
  BY <1>1
<1> HIDE DEF ends
<1>4. /\ new \in Job /\ new.pc = "dep_existing" /\ new.ends = ends /\ new.last = 0
  <2>1. new \in Job
    BY <1>2, IdleType DEF Job, Places
  <2> QED
    BY <2>1 DEF Idle
<1> HIDE DEF new
<1>5. job' \in [Handlers -> Job] /\ job'[h] = new /\ OthersWait(h)
  BY <1>3, <1>4, DoEffect DEF IInv
<1>6. UNCHANGED <<orgs, entities, deps, serial, gone>> /\ calls' \in Nat
  BY DEF DependencyEnds, Operation, IInv, TypeOK
<1>7. serial.deps \in Nat
  BY DEF IInv, TypeOK
<1>8. LocalOK(h)'
  BY <1>2, <1>4, <1>5, <1>6, <1>7 DEF LocalOK
<1> QED
  BY <1>4, <1>5, <1>6, <1>8, ReadStep

\* ... and when there is no row equal to the new one.
LEMMA DependencyExistingStep ==
  ASSUME IInv, NEW h \in Handlers, DependencyExisting(h)
  PROVE  IInv'
<1>1. UNCHANGED <<orgs, entities, deps, serial, gone, calls>> /\ calls' \in Nat
  BY DEF DependencyExisting, IInv, TypeOK
<1>2. job[h] \in Job /\ serial.deps \in Nat /\ LocalOK(h) /\ job[h].pc = "dep_existing"
  BY DEF IInv, TypeOK, LocalsOK, DependencyExisting, At
<1>3. CASE \E d \in DOMAIN deps : deps[d].ends = job[h].ends
  <2>1. Do(h, Idle)
    BY <1>3 DEF DependencyExisting, Finish
  <2>2. job' \in [Handlers -> Job] /\ job'[h] = Idle /\ OthersWait(h)
    BY <2>1, IdleType, DoEffect DEF IInv
  <2>3. LocalOK(h)' /\ job'[h].pc # "org_delete"
    BY <1>1, <1>2, <2>2, IdleLocalOK DEF Idle
  <2> QED
    BY <1>1, <2>2, <2>3, ReadStep
<1>4. CASE \A d \in DOMAIN deps : deps[d].ends # job[h].ends
  <2> DEFINE new == [job[h] EXCEPT !.pc = "dep_insert", !.last = serial.deps]
  <2>1. /\ new \in Job /\ new.pc = "dep_insert" /\ new.ends = job[h].ends
        /\ new.last = serial.deps
    BY <1>2 DEF Job, Places
  <2>2. Do(h, new)
    BY <1>4 DEF DependencyExisting
  <2> HIDE DEF new
  <2>3. job' \in [Handlers -> Job] /\ job'[h] = new /\ OthersWait(h)
    BY <2>1, <2>2, DoEffect DEF IInv
  <2>4. LocalOK(h)'
    BY <1>1, <1>2, <1>4, <2>1, <2>3 DEF LocalOK
  <2> QED
    BY <1>1, <2>1, <2>3, <2>4, ReadStep
<1> QED
  BY <1>3, <1>4

\* The new row is younger than every loss and every row it could be equal to but those
\* that came after the look.
LEMMA DependencyInsertStep ==
  ASSUME IInv, NEW h \in Handlers, DependencyInsert(h)
  PROVE  IInv'
<1> DEFINE n == serial.deps + 1
           row == [ends |-> job[h].ends, checked |-> TRUE, last |-> job[h].last]
<1>1. /\ job[h] \in Job /\ LocalOK(h) /\ job[h].pc = "dep_insert"
      /\ serial \in [orgs: Nat, entities: Nat, deps: Nat]
      /\ DOMAIN deps \subseteq 1..serial.deps
  BY DEF IInv, TypeOK, LocalsOK, DependencyInsert, At
<1>2. /\ serial' \in [orgs: Nat, entities: Nat, deps: Nat]
      /\ serial'.orgs = serial.orgs /\ serial'.entities = serial.entities
      /\ serial'.deps = n
  BY <1>1 DEF DependencyInsert, Insert
<1>3. UNCHANGED <<orgs, entities, gone, calls>> /\ Finish(h)
  BY DEF DependencyInsert
<1>4. row \in Dependency /\ row.ends = job[h].ends /\ row.last = job[h].last
  BY <1>1 DEF Dependency, Job
<1>5. deps' = Put(deps, n, row)
  BY DEF DependencyInsert, Insert
<1> HIDE DEF row
<1>6. n \in Nat /\ n > serial.deps /\ serial.deps \in Nat /\ n \notin DOMAIN deps
  BY <1>1
<1> HIDE DEF n
<1>7. /\ DOMAIN deps' = DOMAIN deps \union {n} /\ deps'[n] = row
      /\ \A d \in DOMAIN deps : deps'[d] = deps[d]
  BY <1>5, <1>6 DEF Put
<1>8. DepsAge /\ Recorded
  BY <1>1, <1>2, <1>3, <1>6, <1>7 DEF DepsAge, Recorded
<1>9. job' \in [Handlers -> Job] /\ job'[h] = Idle /\ OthersWait(h)
  BY <1>3, IdleType, DoEffect DEF IInv, Finish
<1>10. LocalsOK'
  BY <1>2, <1>6, <1>8, <1>9, IdleLocalOK, LocalsFromOne
<1>11. ChildrenCameLate'
  BY <1>3, <1>9, LateFromOne DEF IInv, Idle
<1>12. TypeOK'
  <2>1. DOMAIN deps' \subseteq 1..serial'.deps
    BY <1>1, <1>2, <1>6, <1>7
  <2>2. \A d \in DOMAIN deps' : deps'[d] \in Dependency
    BY <1>4, <1>7 DEF IInv, TypeOK
  <2> QED
    BY <1>2, <1>3, <1>9, <2>1, <2>2 DEF IInv, TypeOK, KeysHold
<1>13. TwinsOverlapped'
  <2> SUFFICES ASSUME NEW c \in DOMAIN deps', NEW d \in DOMAIN deps', c < d,
                      deps'[c].checked, deps'[d].checked,
                      deps'[c].ends = deps'[d].ends
               PROVE  deps'[d].last < c
    BY DEF TwinsOverlapped
  <2>1. CASE c \in DOMAIN deps /\ d \in DOMAIN deps
    BY <1>7, <2>1 DEF IInv, TwinsOverlapped
  <2>2. CASE c \in DOMAIN deps /\ d = n
    BY <1>1, <1>4, <1>7, <2>2 DEF LocalOK
  <2>3. CASE c = n
    BY <1>1, <1>6, <1>7, <2>3
  <2> QED
    BY <1>7, <2>1, <2>2, <2>3
<1>14. LossesExplained'
  <2> SUFFICES ASSUME NEW d \in DOMAIN deps', deps'[d].checked,
                      NEW e \in {deps'[d].ends.source, deps'[d].ends.target},
                      e \notin DOMAIN entities
               PROVE  /\ e \in DOMAIN gone
                      /\ gone[e].counted => d > gone[e].last
    BY <1>3 DEF LossesExplained
  <2>1. CASE d \in DOMAIN deps
    BY <1>7, <2>1 DEF IInv, LossesExplained
  <2>2. CASE d = n
    <3>1. e \in DOMAIN gone
      BY <1>1, <1>4, <1>7, <2>2 DEF LocalOK
    <3>2. gone[e].last \in Nat /\ gone[e].last <= serial.deps
      BY <3>1 DEF IInv, TypeOK, LossesDated, Departure
    <3> QED
      BY <1>6, <2>2, <3>1, <3>2
  <2> QED
    BY <1>7, <2>1, <2>2
<1>15. LossesDated'
  <2>1. \A e \in DOMAIN gone : gone[e].last \in Nat /\ gone[e].last <= serial.deps
    BY DEF IInv, TypeOK, LossesDated, Departure
  <2> QED
    BY <1>2, <1>3, <1>6, <2>1 DEF LossesDated
<1> QED
  BY <1>10, <1>11, <1>12, <1>13, <1>14, <1>15 DEF IInv

\* The operations that ask for no equal row.
LEMMA UncheckedWrites ==
  ASSUME IInv, CreateDependency \/ update_dependency \/ DeleteDependencies
  PROVE  IInv'
<1>1. /\ serial \in [orgs: Nat, entities: Nat, deps: Nat]
      /\ DOMAIN deps \subseteq 1..serial.deps /\ DOMAIN entities \subseteq Nat \ {0}
      /\ calls \in Nat /\ Ids \subseteq Nat \ {0}
  BY DEF IInv, TypeOK, Ids
<1>2. ASSUME NEW s \in Nat \ {0}, NEW t \in Nat \ {0}
      PROVE  LET row == [ends |-> [source |-> s, target |-> t], checked |-> FALSE,
                         last |-> 0]
             IN  row \in Dependency /\ ~row.checked
  BY DEF Dependency, Ends
<1>3. CASE CreateDependency
  <2>1. PICK s \in DOMAIN entities, t \in Ids :
           Insert([ends |-> [source |-> s, target |-> t], checked |-> FALSE, last |-> 0])
    BY <1>3 DEF CreateDependency
  <2> DEFINE row == [ends |-> [source |-> s, target |-> t], checked |-> FALSE, last |-> 0]
  <2>2. row \in Dependency /\ ~row.checked
    BY <1>1, <1>2
  <2>3. deps' = Put(deps, serial.deps + 1, row)
    BY <2>1 DEF Insert
  <2> HIDE DEF row
  <2>4. /\ serial' \in [orgs: Nat, entities: Nat, deps: Nat]
        /\ serial'.orgs = serial.orgs /\ serial'.entities = serial.entities
        /\ serial'.deps = serial.deps + 1
    BY <1>1, <2>1 DEF Insert
  <2>5. DOMAIN deps' \subseteq 1..serial'.deps /\ serial'.deps >= serial.deps
    BY <1>1, <2>3, <2>4 DEF Put
  <2>6. \A d \in DOMAIN deps' : \/ d \in DOMAIN deps /\ deps'[d] = deps[d]
                                \/ deps'[d] \in Dependency /\ ~deps'[d].checked
    BY <2>2, <2>3 DEF Put
  <2>7. UNCHANGED <<orgs, entities, gone, job>> /\ calls' \in Nat
    BY <1>1, <1>3 DEF CreateDependency, Operation
  <2> QED
    BY <2>4, <2>5, <2>6, <2>7, UncheckedStep
<1>4. CASE update_dependency
  <2>1. PICK d \in DOMAIN deps, s \in Ids, t \in Ids :
           deps' = Put(deps, d, [ends |-> [source |-> s, target |-> t],
                                 checked |-> FALSE, last |-> 0])
    BY <1>4 DEF update_dependency
  <2> DEFINE row == [ends |-> [source |-> s, target |-> t], checked |-> FALSE, last |-> 0]
  <2>2. row \in Dependency /\ ~row.checked
    BY <1>1, <1>2
  <2>3. deps' = Put(deps, d, row)
    BY <2>1
  <2> HIDE DEF row
  <2>4. /\ DOMAIN deps' \subseteq DOMAIN deps
        /\ \A x \in DOMAIN deps' : \/ x \in DOMAIN deps /\ deps'[x] = deps[x]
                                   \/ deps'[x] \in Dependency /\ ~deps'[x].checked
    BY <2>2, <2>3 DEF Put
  <2>5. UNCHANGED <<orgs, entities, gone, job, serial>> /\ calls' \in Nat
    BY <1>1, <1>4 DEF update_dependency, Operation
  <2> QED
    BY <1>1, <2>4, <2>5, UncheckedStep
<1>5. CASE DeleteDependencies
  <2>1. PICK out \in SUBSET DOMAIN deps : deps' = Without(deps, out)
    BY <1>5 DEF DeleteDependencies
  <2>2. /\ DOMAIN deps' \subseteq DOMAIN deps
        /\ \A x \in DOMAIN deps' : deps'[x] = deps[x]
    BY <2>1 DEF Without
  <2>3. UNCHANGED <<orgs, entities, gone, job, serial>> /\ calls' \in Nat
    BY <1>1, <1>5 DEF DeleteDependencies, Operation
  <2> QED
    BY <1>1, <2>2, <2>3, UncheckedStep
<1> QED
  BY <1>3, <1>4, <1>5

-----------------------------------------------------------------------------
(***************************************************************************)
(* Bulk requests                                                           *)
(***************************************************************************)
\* A bulk request starts with a body.
LEMMA BulkBeginStep ==
  ASSUME IInv, NEW h \in Handlers, BulkBegin(h)
  PROVE  IInv'
<1>1. PICK front \in Fronts, todo \in Bulks :
         Do(h, [Idle EXCEPT !.pc = "bulk", !.front = front, !.todo = todo])
  BY DEF BulkBegin
<1> DEFINE new == [Idle EXCEPT !.pc = "bulk", !.front = front, !.todo = todo]
<1>2. new \in Job /\ new.pc = "bulk" /\ new.last = 0
  <2>1. todo \in Seq(Ends)
    BY ConstantsAssumption
  <2>2. new \in Job
    BY <2>1, IdleType DEF Job, Places
  <2> QED
    BY <2>2 DEF Idle
<1>3. Do(h, new)
  BY <1>1
<1> HIDE DEF new
<1>4. job' \in [Handlers -> Job] /\ job'[h] = new /\ OthersWait(h)
  BY <1>2, <1>3, DoEffect DEF IInv
<1>5. UNCHANGED <<orgs, entities, deps, serial, gone>> /\ calls' \in Nat
  BY DEF BulkBegin, Operation, IInv, TypeOK
<1>6. serial.deps \in Nat
  BY DEF IInv, TypeOK
<1>7. LocalOK(h)'
  BY <1>2, <1>4, <1>5, <1>6 DEF LocalOK
<1> QED
  BY <1>2, <1>4, <1>5, <1>7, ReadStep

\* A row of the body is taken, left out, or ends the request.
LEMMA BulkRowStep ==
  ASSUME IInv, NEW h \in Handlers, BulkRow(h)
  PROVE  IInv'
<1> DEFINE ends == Head(job[h].todo)
           rest == [job[h] EXCEPT !.todo = Tail(@)]
           more == [rest EXCEPT !.made = Append(@, ends)]
<1>1. /\ UNCHANGED <<orgs, entities, deps, serial, gone, calls>> /\ calls' \in Nat
      /\ job[h] \in Job /\ job[h].todo # <<>> /\ job[h].pc = "bulk"
      /\ serial.deps \in Nat /\ LocalOK(h)
  BY DEF BulkRow, IInv, TypeOK, LocalsOK, At
<1>2. /\ ends \in Ends /\ Tail(job[h].todo) \in Seq(Ends)
      /\ Append(job[h].made, ends) \in Seq(Ends)
  BY <1>1 DEF Job
<1>3. rest \in Job /\ rest.pc = "bulk" /\ rest.last = job[h].last /\ rest.made = job[h].made
  BY <1>1, <1>2 DEF Job
<1>4. \/ Do(h, more) \/ Do(h, Idle) \/ Do(h, rest)
  BY DEF BulkRow
<1> HIDE DEF rest
<1>5. more \in Job /\ more.pc = "bulk" /\ more.last = job[h].last
  BY <1>2, <1>3 DEF Job
<1> HIDE DEF ends, more
<1>6. ASSUME NEW j \in Job, Do(h, j), j.pc = "bulk", j.last = job[h].last
      PROVE  IInv'
  <2>1. job' \in [Handlers -> Job] /\ job'[h] = j /\ OthersWait(h)
    BY <1>6, DoEffect DEF IInv
  <2>2. LocalOK(h)'
    BY <1>1, <1>6, <2>1 DEF LocalOK
  <2> QED
    BY <1>1, <1>6, <2>1, <2>2, ReadStep
<1>7. CASE Do(h, Idle)
  <2>1. job' \in [Handlers -> Job] /\ job'[h] = Idle /\ OthersWait(h)
    BY <1>7, IdleType, DoEffect DEF IInv
  <2>2. LocalOK(h)' /\ job'[h].pc # "org_delete"
    BY <1>1, <2>1, IdleLocalOK DEF Idle
  <2> QED
    BY <1>1, <2>1, <2>2, ReadStep
<1> QED
  BY <1>3, <1>4, <1>5, <1>6, <1>7

\* The rows of a bulk request appear together and are not checked.
LEMMA BulkCommitStep ==
  ASSUME IInv, NEW h \in Handlers, BulkCommit(h)
  PROVE  IInv'
<1> DEFINE made == job[h].made
           last == serial.deps
<1>1. /\ serial \in [orgs: Nat, entities: Nat, deps: Nat]
      /\ DOMAIN deps \subseteq 1..last
      /\ made \in Seq(Ends) /\ Len(made) \in Nat /\ last \in Nat
  BY DEF IInv, TypeOK, Job
<1>2. /\ serial' = [serial EXCEPT !.deps = last + Len(made)]
      /\ deps' = [d \in DOMAIN deps \union ((last + 1)..(last + Len(made))) |->
                     IF d \in DOMAIN deps THEN deps[d]
                     ELSE [ends |-> made[d - last], checked |-> FALSE, last |-> 0]]
      /\ UNCHANGED <<orgs, entities, gone, calls>> /\ Finish(h)
  BY DEF BulkCommit
<1>3. /\ serial' \in [orgs: Nat, entities: Nat, deps: Nat]
      /\ serial'.orgs = serial.orgs /\ serial'.entities = serial.entities
      /\ serial'.deps = last + Len(made)
  BY <1>1, <1>2
<1>4. DOMAIN deps' \subseteq 1..serial'.deps /\ serial'.deps >= serial.deps
  BY <1>1, <1>2, <1>3
<1>5. \A d \in DOMAIN deps' : \/ d \in DOMAIN deps /\ deps'[d] = deps[d]
                              \/ deps'[d] \in Dependency /\ ~deps'[d].checked
  <2> SUFFICES ASSUME NEW d \in DOMAIN deps', d \notin DOMAIN deps
               PROVE  deps'[d] \in Dependency /\ ~deps'[d].checked
    BY <1>2
  <2>1. deps'[d] = [ends |-> made[d - last], checked |-> FALSE, last |-> 0]
    BY <1>2
  <2>2. d \in (last + 1)..(last + Len(made))
    BY <1>2
  <2>3. made[d - last] \in Ends
    BY <1>1, <2>2
  <2> HIDE DEF made, last
  <2> QED
    BY <2>1, <2>3 DEF Dependency
<1>6. calls' \in Nat
  BY <1>2 DEF IInv, TypeOK
<1> HIDE DEF made, last
<1> QED
  BY <1>2, <1>3, <1>4, <1>5, <1>6, UncheckedStep

-----------------------------------------------------------------------------
(***************************************************************************)
(* The invariant                                                           *)
(***************************************************************************)
\* It holds at first.
LEMMA InitHolds == Init => IInv
<1> SUFFICES ASSUME Init PROVE IInv
  OBVIOUS
<1>1. /\ DOMAIN deps = {} /\ DOMAIN gone = {}
      /\ serial = [orgs |-> MaxId - 1, entities |-> MaxId - 1, deps |-> 0]
      /\ job = [h \in Handlers |-> Idle] /\ calls = 0
      /\ DOMAIN orgs \subseteq 1..(MaxId - 1)
      /\ DOMAIN entities \subseteq 1..(MaxId - 1)
      /\ \A e \in DOMAIN entities : entities[e] \in Entity
      /\ KeysHold(orgs, entities)
      /\ MaxId - 1 \in Nat
  BY ConstantsAssumption DEF Init, Known
<1>2. TypeOK
  BY <1>1, IdleType DEF TypeOK
<1>3. LocalsOK
  BY <1>1 DEF LocalsOK, LocalOK, Idle
<1>4. ChildrenCameLate
  BY <1>1 DEF ChildrenCameLate, At, Idle
<1>5. TwinsOverlapped /\ LossesExplained /\ LossesDated
  BY <1>1 DEF TwinsOverlapped, LossesExplained, LossesDated
<1> QED
  BY <1>2, <1>3, <1>4, <1>5 DEF IInv

\* It survives a stutter.
LEMMA StutterStep ==
  ASSUME IInv, UNCHANGED vars
  PROVE  IInv'
<1>1. TypeOK'
  BY DEF IInv, vars, TypeOK, KeysHold
<1>2. DepsAge /\ Recorded /\ serial'.deps \in Nat
  BY DEF IInv, vars, TypeOK, DepsAge, Recorded
<1>3. LocalsOK'
  BY <1>2, StillOK DEF IInv, LocalsOK, vars
<1>4. /\ ChildrenCameLate' /\ TwinsOverlapped' /\ LossesExplained' /\ LossesDated'
  BY DEF IInv, vars, ChildrenCameLate, At, Children, TwinsOverlapped, LossesExplained,
         LossesDated
<1> QED
  BY <1>1, <1>3, <1>4 DEF IInv

\* It survives every step.
LEMMA NextHolds == IInv /\ [Next]_vars => IInv'
<1> SUFFICES ASSUME IInv, [Next]_vars PROVE IInv'
  OBVIOUS
<1>1. CASE \E h \in Handlers : Step(h)
  <2> PICK h \in Handlers : Step(h)
    BY <1>1
  <2> QED
    BY OrganizationChildrenStep, OrganizationDeleteStep, EntityOutgoingStep,
       EntityIncomingStep, EntityDeleteStep, DependencyEndsStep, DependencyExistingStep,
       DependencyInsertStep, BulkBeginStep, BulkRowStep, BulkCommitStep
    DEF Step
<1> QED
  BY <1>1, OrganizationPuts, EntityPuts, UncountedDeleteStep, UncheckedWrites,
     StutterStep
  DEF Next

\* The invariant of everything below.
LEMMA Invariance == Spec => []IInv
  BY InitHolds, NextHolds, PTL DEF Spec

-----------------------------------------------------------------------------
(***************************************************************************)
(* The theorems                                                            *)
(***************************************************************************)
\* No order of operations of the two servers leaves an organization or an entity that
\* refers to a row a cascade took.
THEOREM TypeCorrect == Spec => []TypeOK
  BY Invariance, PTL DEF IInv

\* delete_organization takes no subtree that was there when it counted the children.
THEOREM ChildrenCameLateTheorem == Spec => []ChildrenCameLate
  BY Invariance, PTL DEF IInv

\* create_dependency makes two equal rows only for requests that overlapped.
THEOREM TwinsOverlappedTheorem == Spec => []TwinsOverlapped
  BY Invariance, PTL DEF IInv

\* A dependency that create_dependency made outlives an end only through a deletion that
\* counts nothing or had counted before it.
THEOREM LossesExplainedTheorem == Spec => []LossesExplained
  BY Invariance, PTL DEF IInv

\* An organization that is beneath itself can only be deleted together with a child that
\* was put beneath it after the count.
THEOREM CyclesStayTheorem == Spec => CyclesStay
<1> DEFINE Stays(o) == \/ o \in DOMAIN orgs'
                       \/ \E h \in Handlers : At(h, "org_delete") /\ job[h].late # {}
<1>1. ASSUME IInv, Next, NEW o \in DOMAIN orgs, OnCycle(o)
      PROVE  Stays(o)
  <2>1. ASSUME NEW h \in Handlers, OrganizationDelete(h)
        PROVE  Stays(o)
    <3> DEFINE t == job[h].target
               out == Below(orgs, {t})
    <3>1. At(h, "org_delete") /\ orgs' = Without(orgs, out)
      BY <2>1 DEF OrganizationDelete
    <3>2. CASE job[h].late # {}
      BY <3>1, <3>2
    <3>3. CASE job[h].late = {}
      <4>1. \A x \in DOMAIN orgs : orgs[x] # t
        BY <1>1, <3>1, <3>3 DEF IInv, ChildrenCameLate, Children
      <4>2. out \subseteq {t}
        BY <4>1, BelowLeaf
      <4>3. \E y \in DOMAIN orgs : orgs[y] = o
        BY <1>1 DEF OnCycle
      <4>4. o \notin out
        BY <4>1, <4>2, <4>3
      <4> HIDE DEF out
      <4>5. o \in DOMAIN orgs'
        BY <3>1, <4>4 DEF Without
      <4> QED
        BY <4>5
    <3> QED
      BY <3>2, <3>3
  <2>2. CASE create_organization \/ update_organization
    <3>1. \E x, parent : PutOrganization(x, parent)
      BY <2>2 DEF create_organization, update_organization
    <3>2. o \in DOMAIN orgs'
      BY <3>1 DEF PutOrganization, Put
    <3> QED
      BY <3>2
  <2>3. CASE UNCHANGED orgs
    BY <2>3
  <2>4. \/ UNCHANGED orgs
        \/ create_organization \/ update_organization
        \/ \E h \in Handlers : OrganizationDelete(h)
    BY <1>1 DEF Next, Step, create_entity, update_entity, DeleteEntity,
       CreateDependency, update_dependency, DeleteDependencies, OrganizationChildren,
       EntityOutgoing, EntityIncoming, EntityDelete, DependencyEnds, DependencyExisting,
       DependencyInsert, BulkBegin, BulkRow, BulkCommit
  <2> QED
    BY <2>1, <2>2, <2>3, <2>4
<1>2. IInv /\ [Next]_vars => [\A o \in DOMAIN orgs : OnCycle(o) => Stays(o)]_vars
  BY <1>1
<1> QED
  BY <1>2, Invariance, PTL DEF Spec, CyclesStay
=============================================================================
