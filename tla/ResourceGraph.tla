--------------------------- MODULE ResourceGraph ---------------------------
(***************************************************************************)
(* Organizations, entities and the dependencies between entities, as the   *)
(* REST endpoints of apps/api/api/v1 and the gRPC servicer change them.    *)
(*                                                                         *)
(* Both hierarchies hang on foreign keys with ON DELETE CASCADE; a         *)
(* dependency names its ends by number and no key holds it to them.  An    *)
(* operation that reads and then writes has a step for each: job[h] holds  *)
(* its local variables.  One that writes whatever it read is one step.     *)
(*                                                                         *)
(* Ends of other types, types of dependency, names, tenants and attributes *)
(* are left out.  0 is a parent that is NULL.                              *)
(***************************************************************************)
EXTENDS Naturals, Sequences, FiniteSets

CONSTANTS
    Handlers,       \* threads of the two servers
    FirstOrgs,      \* the hierarchies of organizations to start from
    FirstEntities,  \* the hierarchies of entities to start from
    Bulks,          \* the bodies of the bulk endpoints: sequences of pairs
    MaxId,          \* bound: ids of a table, and those a caller may name
    MaxCalls        \* bound: operations begun

Places ==
    {"idle", "org_delete", "entity_incoming", "entity_delete", "dep_existing",
     "dep_insert", "bulk"}
Fronts == {"rest", "grpc"}

Ids == 1..MaxId
Known == 1..(MaxId - 1)
Parents == Nat
Ends == [source: Nat \ {0}, target: Nat \ {0}]
None == [source |-> 1, target |-> 1]

Entity == [org: Nat \ {0}, parent: Parents]

\* checked (history): create_dependency made the row, and last was the newest row when
\* it looked for an equal one.
Dependency == [ends: Ends, checked: BOOLEAN, last: Nat]

\* How an entity went (history): deleted by delete_entity, which began to count when
\* last was the newest dependency; or without a count, by DeleteEntity or a cascade.
Departure == [counted: BOOLEAN, last: Nat]

\* late (history): organizations put beneath the target since its children were counted.
Job ==
    [pc: Places, target: Nat, late: SUBSET Nat, ends: Ends, last: Nat,
     front: Fronts, todo: Seq(Ends), made: Seq(Ends)]

Idle ==
    [pc |-> "idle", target |-> 0, late |-> {}, ends |-> None, last |-> 0,
     front |-> "rest", todo |-> <<>>, made |-> <<>>]

\* What the foreign keys say of the two hierarchies.
KeysHold(orgs, entities) ==
    /\ \A o \in DOMAIN orgs : orgs[o] \in DOMAIN orgs \union {0}
    /\ \A e \in DOMAIN entities :
          /\ entities[e].org \in DOMAIN orgs
          /\ entities[e].parent \in DOMAIN entities \union {0}

ASSUME ConstantsAssumption ==
    /\ MaxId \in Nat \ {0} /\ MaxCalls \in Nat
    /\ \A orgs \in FirstOrgs : DOMAIN orgs \subseteq Known
    /\ \A entities \in FirstEntities :
          /\ DOMAIN entities \subseteq Known
          /\ \A e \in DOMAIN entities : entities[e] \in Entity
    /\ \A orgs \in FirstOrgs, entities \in FirstEntities : KeysHold(orgs, entities)
    /\ Bulks \subseteq Seq(Ends)

VARIABLES
    orgs,           \* organizations: the parent of each
    entities,       \* entities: the organization and the parent of each
    deps,           \* dependencies
    serial,         \* the last id given in each table
    job,            \* the handlers
    gone,           \* history: how entities went
    calls           \* for MaxCalls

vars == <<orgs, entities, deps, serial, job, gone, calls>>

Init ==
    /\ orgs \in FirstOrgs
    /\ entities \in FirstEntities
    /\ deps = <<>>
    /\ serial = [orgs |-> MaxId - 1, entities |-> MaxId - 1, deps |-> 0]
    /\ job = [h \in Handlers |-> Idle]
    /\ gone = <<>>
    /\ calls = 0

-----------------------------------------------------------------------------
(***************************************************************************)
(* Tables                                                                  *)
(***************************************************************************)
Put(table, id, row) ==
    [x \in DOMAIN table \union {id} |-> IF x = id THEN row ELSE table[x]]

Without(table, ids) == [x \in DOMAIN table \ ids |-> table[x]]

\* The rows that go with those of ids: the least set that holds them and, with a row,
\* its children.
Below(parent, ids) ==
    {x \in DOMAIN parent :
        \A S \in SUBSET DOMAIN parent :
            (/\ ids \intersect DOMAIN parent \subseteq S
             /\ \A y \in DOMAIN parent : parent[y] \in S => y \in S)
            => x \in S}

EntityParent == [e \in DOMAIN entities |-> entities[e].parent]
Children(o) == {c \in DOMAIN orgs : orgs[c] = o}

Operation == calls < MaxCalls /\ calls' = calls + 1
At(h, place) == job[h].pc = place
Do(h, new) == job' = [job EXCEPT ![h] = new]
Finish(h) == Do(h, Idle)

-----------------------------------------------------------------------------
(***************************************************************************)
(* Organizations.  The key refuses a parent that is not there; nothing     *)
(* refuses one that is the organization itself or beneath it.              *)
(***************************************************************************)
PutOrganization(o, parent) ==
    /\ orgs' = Put(orgs, o, parent)
    /\ job' = [h \in Handlers |->
                  IF At(h, "org_delete") /\ job[h].target = parent
                  THEN [job[h] EXCEPT !.late = @ \union {o}] ELSE job[h]]

create_organization ==
    /\ Operation
    /\ serial.orgs < MaxId
    /\ serial' = [serial EXCEPT !.orgs = @ + 1]
    /\ \E parent \in DOMAIN orgs \union {0} : PutOrganization(serial.orgs + 1, parent)
    /\ UNCHANGED <<entities, deps, gone>>

update_organization ==
    /\ Operation
    /\ \E o, parent \in DOMAIN orgs : PutOrganization(o, parent)
    /\ UNCHANGED <<entities, deps, serial, gone>>

\* Slip: the count asks for other children than itself.
OrganizationChildren_slip(h) ==
    /\ Operation
    /\ At(h, "idle")
    /\ \E o \in DOMAIN orgs :
          /\ Children(o) \subseteq {o}
          /\ Do(h, [Idle EXCEPT !.pc = "org_delete", !.target = o])
    /\ UNCHANGED <<orgs, entities, deps, serial, gone>>

\* delete_organization up to the count.
OrganizationChildren(h) ==
    /\ Operation
    /\ At(h, "idle")
    /\ \E o \in DOMAIN orgs :
          /\ Children(o) = {}
          /\ Do(h, [Idle EXCEPT !.pc = "org_delete", !.target = o])
    /\ UNCHANGED <<orgs, entities, deps, serial, gone>>

\* The entities of out go, without a count but for the one that was counted.
Depart(out, counted, last) ==
    /\ entities' = Without(entities, out)
    /\ gone' = [e \in DOMAIN gone \union out |->
                   IF e \in out THEN [counted |-> e = counted, last |-> last]
                   ELSE gone[e]]

\* Slip: the entities of the organization stay.
OrganizationDelete_slip(h) ==
    /\ At(h, "org_delete")
    /\ orgs' = Without(orgs, Below(orgs, {job[h].target}))
    /\ Finish(h)
    /\ UNCHANGED <<entities, deps, serial, gone, calls>>

\* The row, everything beneath it, and the entities of all these.
OrganizationDelete(h) ==
    LET out == Below(orgs, {job[h].target})
    IN  /\ At(h, "org_delete")
        /\ orgs' = Without(orgs, out)
        /\ Depart(Below(EntityParent, {e \in DOMAIN entities : entities[e].org \in out}),
                  0, 0)
        /\ Finish(h)
        /\ UNCHANGED <<deps, serial, calls>>

-----------------------------------------------------------------------------
(***************************************************************************)
(* Entities.  create_entity and update_entity look the organization up     *)
(* before they write; the key decides.                                     *)
(***************************************************************************)
create_entity ==
    /\ Operation
    /\ serial.entities < MaxId
    /\ serial' = [serial EXCEPT !.entities = @ + 1]
    /\ \E o \in DOMAIN orgs, parent \in DOMAIN entities \union {0} :
          entities' = Put(entities, serial.entities + 1, [org |-> o, parent |-> parent])
    /\ UNCHANGED <<orgs, deps, job, gone>>

update_entity ==
    /\ Operation
    /\ \E e \in DOMAIN entities :
          \/ \E o \in DOMAIN orgs :
                entities' = Put(entities, e, [entities[e] EXCEPT !.org = o])
          \/ \E parent \in DOMAIN entities :
                entities' = Put(entities, e, [entities[e] EXCEPT !.parent = parent])
    /\ UNCHANGED <<orgs, deps, serial, job, gone>>

Outgoing(e) == {d \in DOMAIN deps : deps[d].ends.source = e}
Incoming(e) == {d \in DOMAIN deps : deps[d].ends.target = e}

\* delete_entity counts twice and deletes, in one transaction that locks nothing.
EntityOutgoing(h) ==
    /\ Operation
    /\ At(h, "idle")
    /\ \E e \in DOMAIN entities :
          /\ Outgoing(e) = {}
          /\ Do(h, [Idle EXCEPT !.pc = "entity_incoming", !.target = e,
                                !.last = serial.deps])
    /\ UNCHANGED <<orgs, entities, deps, serial, gone>>

\* Slip: the second count is of the first kind.
EntityIncoming_slip(h) ==
    /\ At(h, "entity_incoming")
    /\ IF Outgoing(job[h].target) = {}
       THEN Do(h, [job[h] EXCEPT !.pc = "entity_delete"]) ELSE Finish(h)
    /\ UNCHANGED <<orgs, entities, deps, serial, gone, calls>>

EntityIncoming(h) ==
    /\ At(h, "entity_incoming")
    /\ IF Incoming(job[h].target) = {}
       THEN Do(h, [job[h] EXCEPT !.pc = "entity_delete"]) ELSE Finish(h)
    /\ UNCHANGED <<orgs, entities, deps, serial, gone, calls>>

EntityDelete(h) ==
    /\ At(h, "entity_delete")
    /\ Depart(Below(EntityParent, {job[h].target}), job[h].target, job[h].last)
    /\ Finish(h)
    /\ UNCHANGED <<orgs, deps, serial, calls>>

\* The gRPC servicer counts nothing.
DeleteEntity ==
    /\ Operation
    /\ \E e \in DOMAIN entities : Depart(Below(EntityParent, {e}), 0, 0)
    /\ UNCHANGED <<orgs, deps, serial, job>>

-----------------------------------------------------------------------------
(***************************************************************************)
(* Dependencies                                                            *)
(***************************************************************************)
Insert(row) ==
    /\ serial.deps < MaxId
    /\ serial' = [serial EXCEPT !.deps = @ + 1]
    /\ deps' = Put(deps, serial.deps + 1, row)

\* create_dependency: both ends are looked up, ...
DependencyEnds(h) ==
    /\ Operation
    /\ At(h, "idle")
    /\ \E s, t \in DOMAIN entities :
          /\ s # t
          /\ Do(h, [Idle EXCEPT !.pc = "dep_existing",
                                !.ends = [source |-> s, target |-> t]])
    /\ UNCHANGED <<orgs, entities, deps, serial, gone>>

\* Slip: a row the other way round is taken for the equal one.
DependencyExisting_slip(h) ==
    /\ At(h, "dep_existing")
    /\ IF \E d \in DOMAIN deps : /\ deps[d].ends.source = job[h].ends.target
                                 /\ deps[d].ends.target = job[h].ends.source
       THEN Finish(h)
       ELSE Do(h, [job[h] EXCEPT !.pc = "dep_insert", !.last = serial.deps])
    /\ UNCHANGED <<orgs, entities, deps, serial, gone, calls>>

\* ... then an equal row, ...
DependencyExisting(h) ==
    /\ At(h, "dep_existing")
    /\ IF \E d \in DOMAIN deps : deps[d].ends = job[h].ends
       THEN Finish(h)
       ELSE Do(h, [job[h] EXCEPT !.pc = "dep_insert", !.last = serial.deps])
    /\ UNCHANGED <<orgs, entities, deps, serial, gone, calls>>

\* ... and the new row refers to what was there then.
DependencyInsert(h) ==
    /\ At(h, "dep_insert")
    /\ Insert([ends |-> job[h].ends, checked |-> TRUE, last |-> job[h].last])
    /\ Finish(h)
    /\ UNCHANGED <<orgs, entities, gone, calls>>

\* The gRPC servicer looks for the source only.  Nothing is promised of the row, so the
\* look and the insert are one step.
CreateDependency ==
    /\ Operation
    /\ \E s \in DOMAIN entities, t \in Ids :
          Insert([ends |-> [source |-> s, target |-> t], checked |-> FALSE, last |-> 0])
    /\ UNCHANGED <<orgs, entities, job, gone>>

\* Any end may be changed, to anything.
update_dependency ==
    /\ Operation
    /\ \E d \in DOMAIN deps, s, t \in Ids :
          deps' = Put(deps, d, [ends |-> [source |-> s, target |-> t],
                                checked |-> FALSE, last |-> 0])
    /\ UNCHANGED <<orgs, entities, serial, job, gone>>

\* delete_dependency, and the bulk endpoints, which skip what is not there.
DeleteDependencies ==
    /\ Operation
    /\ \E out \in SUBSET DOMAIN deps : out # {} /\ deps' = Without(deps, out)
    /\ UNCHANGED <<orgs, entities, serial, job, gone>>

BulkBegin(h) ==
    /\ Operation
    /\ At(h, "idle")
    /\ \E front \in Fronts, todo \in Bulks :
          Do(h, [Idle EXCEPT !.pc = "bulk", !.front = front, !.todo = todo])
    /\ UNCHANGED <<orgs, entities, deps, serial, gone>>

\* One row of the body.  A source that is not there ends the call with a rollback
\* (REST), or is left out (gRPC).
BulkRow(h) ==
    LET ends == Head(job[h].todo)
        rest == [job[h] EXCEPT !.todo = Tail(@)]
    IN  /\ At(h, "bulk")
        /\ job[h].todo # <<>>
        /\ \/ /\ ends.source \in DOMAIN entities
              /\ Do(h, [rest EXCEPT !.made = Append(@, ends)])
           \/ /\ ends.source \notin DOMAIN entities
              /\ Do(h, IF job[h].front = "rest" THEN Idle ELSE rest)
        /\ UNCHANGED <<orgs, entities, deps, serial, gone, calls>>

\* Ids are given here, which nobody can see earlier.
BulkCommit(h) ==
    LET made == job[h].made
        last == serial.deps
    IN  /\ At(h, "bulk")
        /\ job[h].todo = <<>>
        /\ last + Len(made) <= MaxId
        /\ serial' = [serial EXCEPT !.deps = last + Len(made)]
        /\ deps' = [d \in DOMAIN deps \union ((last + 1)..(last + Len(made))) |->
                       IF d \in DOMAIN deps THEN deps[d]
                       ELSE [ends |-> made[d - last], checked |-> FALSE, last |-> 0]]
        /\ Finish(h)
        /\ UNCHANGED <<orgs, entities, gone, calls>>

Step(h) ==
    \/ OrganizationChildren(h) \/ OrganizationDelete(h)
    \/ EntityOutgoing(h) \/ EntityIncoming(h) \/ EntityDelete(h)
    \/ DependencyEnds(h) \/ DependencyExisting(h) \/ DependencyInsert(h)
    \/ BulkBegin(h) \/ BulkRow(h) \/ BulkCommit(h)

Next ==
    \/ create_organization \/ update_organization
    \/ create_entity \/ update_entity \/ DeleteEntity
    \/ CreateDependency \/ update_dependency \/ DeleteDependencies
    \/ \E h \in Handlers : Step(h)

Spec == Init /\ [][Next]_vars

-----------------------------------------------------------------------------
(***************************************************************************)
(* Properties                                                              *)
(***************************************************************************)

\* Every table has its type and refers to rows that are there, whatever cascades
\* went through it.
TypeOK ==
    /\ DOMAIN orgs \subseteq 1..serial.orgs
    /\ DOMAIN entities \subseteq 1..serial.entities
    /\ DOMAIN deps \subseteq 1..serial.deps
    /\ \A e \in DOMAIN entities : entities[e] \in Entity
    /\ \A d \in DOMAIN deps : deps[d] \in Dependency
    /\ \A e \in DOMAIN gone : gone[e] \in Departure
    /\ KeysHold(orgs, entities)
    /\ serial \in [orgs: Nat, entities: Nat, deps: Nat]
    /\ job \in [Handlers -> Job]
    /\ calls \in Nat

\* An organization that is about to be deleted has the children that were put beneath it
\* after delete_organization had counted, and no others: the cascade takes no subtree
\* that was there when the caller was answered for.
ChildrenCameLate ==
    \A h \in Handlers : At(h, "org_delete") => Children(job[h].target) \subseteq job[h].late

\* Two equal dependencies that create_dependency made come from requests that
\* overlapped: the younger looked before the older was there.
TwinsOverlapped ==
    \A c, d \in DOMAIN deps :
        (/\ c < d
         /\ deps[c].checked /\ deps[d].checked
         /\ deps[c].ends = deps[d].ends)
        => deps[d].last < c

\* A dependency that create_dependency made has lost an end only to a deletion that
\* counts no dependencies (a cascade, or gRPC), or came after delete_entity had begun
\* to count.
LossesExplained ==
    \A d \in DOMAIN deps : deps[d].checked =>
        \A e \in {deps[d].ends.source, deps[d].ends.target} \ DOMAIN entities :
            /\ e \in DOMAIN gone
            /\ gone[e].counted => d > gone[e].last

\* Organizations that are beneath themselves stay: each has a child when its children
\* are counted.  Only a child that came late lets one go.
OnCycle(o) ==
    \E S \in SUBSET DOMAIN orgs : /\ o \in S
                                  /\ \A x \in S : orgs[x] \in S
                                  /\ \A x \in S : \E y \in S : orgs[y] = x
CyclesStay ==
    [][\A o \in DOMAIN orgs : OnCycle(o) =>
          \/ o \in DOMAIN orgs'
          \/ \E h \in Handlers : At(h, "org_delete") /\ job[h].late # {}]_vars
=============================================================================
