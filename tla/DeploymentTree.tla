--------------------------- MODULE DeploymentTree ---------------------------
(***************************************************************************)
(* Deployments and what ties them to one another: the labels that name the *)
(* parents of a deployment, the labels graph made from them, inter-        *)
(* deployment dependencies, a deployment group that hands its labels to    *)
(* its members, and deletion.  Every row sums up what is below it; a       *)
(* request that changes something commits, and then recalc_ancestors       *)
(* brings the rows above it up to date in a transaction of its own.        *)
(*                                                                         *)
(* REST handlers run concurrently on one database (READ COMMITTED).  Rows  *)
(* of deployments are locked FOR UPDATE where the code says so; inserting  *)
(* an edge or a label takes a key-share lock on the rows it refers to, and *)
(* the database ends one of the requests that wait for each other.         *)
(***************************************************************************)
EXTENDS DeploymentStatus, Sequences, SequencesExt

CONSTANTS
  Deployment,    \* numbers, in the order of their _storage_ids
  Handler,       \* REST handlers at work
  InitLabels,    \* labels of the deployments there are at first
  OwnStates,     \* statuses of their own that deployments come to
  LabelSets,     \* sets of labels that requests ask for
  Dependencies,  \* inter-deployment dependencies that requests ask for
  MaxRequests    \* bound: requests

\* A label names a parent, or says that the deployment is an environment.
EnvLabel == 0
Label == Deployment \cup {EnvLabel}

ASSUME TreeAssumption ==
  /\ Deployment \subseteq Nat \ {0} /\ IsFiniteSet(Deployment)
  /\ DOMAIN InitLabels \subseteq Deployment
  /\ \A d \in DOMAIN InitLabels :
       InitLabels[d] \subseteq {EnvLabel} \cup {p \in DOMAIN InitLabels : p > d}
  /\ OwnStates \subseteq DeploymentState
  /\ LabelSets \subseteq SUBSET Label
  /\ Dependencies \subseteq Deployment \X Deployment
  /\ MaxRequests \in Nat

VARIABLES
  exists,     \* deployments that exist
  labels,     \* labels of each deployment
  edges,      \* deployment_labels_dependencies <<child, parent>>, by _storage_id
  idds,       \* inter_deployment_dependencies: {<<source, target>>}
  own,        \* what its executions and node instances make of a deployment
  row,        \* the summary kept with each deployment
  deleting,   \* deployments whose delete has been asked for
  members,    \* deployments of the deployment group
  glabels,    \* labels of the group
  job,        \* what each handler is doing
  requests,   \* requests so far (bounded)
  lost,       \* history: a recalculation was never done, as when an execution is
              \* cancelled, a delete cannot be started, or a deployment becomes
              \* an environment by joining a group that gives it no parent; or
              \* it went over rows in an order that is not, or since edges were
              \* added is no more, from the bottom up
  overtaken   \* history: requests that added edges after others had added some
              \* since they looked for cycles

vars == <<exists, labels, edges, idds, own, row, deleting, members, glabels, job,
          requests, lost, overtaken>>

groupVars == <<members, glabels>>
graphVars == <<labels, edges, idds>>
rowVars == <<exists, own, row, deleting>>
history == <<lost, overtaken>>

Parents(L) == L \ {EnvLabel}
Edges == Range(edges)
Children(d) == {e[1] : e \in {x \in Edges : x[2] = d}}
IsEnvironment(d) == EnvLabel \in labels[d]

Idle == [op |-> "idle"]
Job ==
  {Idle} \cup [op : {"recalc"}, ids : SUBSET Deployment]
    \cup [op : {"patch"}, dep : Deployment, add : SUBSET Label, drop : SUBSET Label,
          child : BOOLEAN, stale : BOOLEAN]
    \cup [op : {"add"}, deps : SUBSET Deployment, parents : SUBSET Deployment,
          missing : SUBSET Label, stale : BOOLEAN]
    \cup [op : {"set"}, deps : SUBSET Deployment, parents : SUBSET Deployment,
          create : SUBSET Label, missing : SUBSET Label, drop : SUBSET Label,
          all : SUBSET Deployment, stale : BOOLEAN]
    \cup [op : {"idd"}, src : Deployment, tgt : Deployment]
    \cup [op : {"lock"}, todo : Seq(Deployment), held : SUBSET Deployment,
          order : Seq(Deployment), stale : BOOLEAN]

Recalc(ids) == IF ids = {} THEN Idle ELSE [op |-> "recalc", ids |-> ids]
--------------------------------------------------------------------------
(***************************************************************************)
(* Lists, made element by element so that proofs can follow them.          *)
(***************************************************************************)

\* The elements of s that are in S.
Selected(s, S) ==
  LET kept[n \in 0..Len(s)] ==
        IF n = 0 THEN <<>>
        ELSE IF s[n] \in S THEN Append(kept[n - 1], s[n]) ELSE kept[n - 1]
  IN kept[Len(s)]

\* Each element of s where it comes first.
Deduplicated(s) ==
  LET kept[n \in 0..Len(s)] ==
        IF n = 0 THEN <<>>
        ELSE LET before == kept[n - 1]
             IN IF s[n] \in Range(before) THEN before ELSE Append(before, s[n])
  IN kept[Len(s)]

\* The elements of S in the order R.
Listed(S, R) ==
  LET list[n \in 0..Cardinality(S)] ==
        IF n = 0 THEN <<>>
        ELSE LET before == list[n - 1]
                 rest == S \ Range(before)
             IN Append(before, CHOOSE x \in rest : \A y \in rest \ {x} : <<x, y>> \in R)
  IN list[Cardinality(S)]

\* Deployments in the order of their _storage_ids.
ById(D) == Listed(D, {x \in D \X D : x[1] < x[2]})
--------------------------------------------------------------------------
(***************************************************************************)
(* Locks.                                                                  *)
(***************************************************************************)

\* Rows a handler has locked FOR UPDATE, and FOR KEY SHARE.
Held(h) == CASE job[h].op = "patch" -> {job[h].dep}
             [] job[h].op = "lock" -> job[h].held
             [] OTHER -> {}
Shared(h) == IF job[h].op = "add" THEN job[h].deps ELSE {}

\* Rows whose lock a handler needs next, and who keeps it from them.
Wanted(h) == CASE job[h].op = "patch" -> Parents(job[h].add)
               [] job[h].op \in {"add", "set"} -> job[h].deps \cup job[h].parents
               [] job[h].op = "idd" -> {job[h].src, job[h].tgt}
               [] job[h].op = "lock" /\ job[h].todo # <<>> -> {Head(job[h].todo)}
               [] OTHER -> {}
Blocks(k, d, update) == d \in Held(k) \/ (update /\ d \in Shared(k))
Free(h, D, update) == \A k \in Handler \ {h}, d \in D : ~ Blocks(k, d, update)
Waits(h) == {k \in Handler \ {h} :
               \E d \in Wanted(h) : Blocks(k, d, job[h].op = "lock")}
--------------------------------------------------------------------------
(***************************************************************************)
(* The labels graph.                                                       *)
(***************************************************************************)
Targets(es) == {e[2] : e \in Range(es)}

\* _dependencies_adjacency: the edges of each level above ids.
Depth == Cardinality(Deployment) + 1
From(es, ids) == Selected(es, {e \in Range(es) : e[1] \in ids})
Levels(es, ids) ==
  LET level[n \in 1..Depth] ==
        From(es, IF n = 1 THEN ids ELSE Targets(level[n - 1]))
  IN level

\* A recursive query on a graph with a cycle never ends.
Endless(es, ids) == Levels(es, ids)[Depth] # <<>>

\* get_dependencies: the deployments above ids, by level and then by the
\* _storage_id of an edge, each where it comes first.
get_dependencies(es, ids) ==
  LET all == FlattenSeq(Levels(es, ids))
  IN Deduplicated([i \in DOMAIN all |-> all[i][2]])

\* A deployment is reached at two levels (ids themselves are at level 0): where it
\* comes first, one below it may still be to come.
Uneven(es, ids) ==
  LET at(n) == IF n = 0 THEN ids ELSE Targets(Levels(es, ids)[n])
  IN \E m, n \in 0..Depth : m # n /\ at(m) \cap at(n) # {}

\* (mutant) only the parents themselves are looked at
AddsCycleParents(es, deps, parents) == deps \cap parents # {}

\* add_deployment_to_labels_graph: a deployment would be above itself.
AddsCycle(es, deps, parents) ==
  deps \cap (parents \cup Range(get_dependencies(es, parents))) # {}

CanBeAdded(es, deps, parents) ==
  parents = {} \/ /\ parents \subseteq exists
                  /\ ~ Endless(es, parents)
                  /\ ~ AddsCycle(es, deps, parents)

\* The edges it inserts, by parent and then by deployment; there is one at most
\* from one deployment to another.
NewEdges(deps, parents) ==
  LET pairs == deps \X parents
  IN Listed(pairs, {x \in pairs \X pairs :
                      \/ x[1][2] < x[2][2]
                      \/ x[1][2] = x[2][2] /\ x[1][1] < x[2][1]})
CanInsert(deps, parents) ==
  /\ (deps \cup parents) \subseteq exists
  /\ (deps \X parents) \cap Edges = {}

\* (mutant) edges outlive the labels they come from
WithoutNone(es, deps, parents) == es

\* delete_deployment_from_labels_graph
Without(es, deps, parents) ==
  Selected(es, Range(es) \ (deps \X parents))

\* The others have looked at a graph that is not the graph any more: edges have
\* been added, or, what matters to _set_group_labels, have been dropped.
Overtaking(h, adds, drops, j) ==
  LET misled == (IF adds THEN {"patch", "add", "set", "lock"} ELSE {})
                  \cup (IF drops THEN {"set"} ELSE {})
  IN [k \in Handler |-> IF k = h THEN j
                        ELSE IF job[k].op \in misled
                             THEN [job[k] EXCEPT !.stale = TRUE] ELSE job[k]]
--------------------------------------------------------------------------
(***************************************************************************)
(* Labels of a deployment.                                                 *)
(***************************************************************************)
Asked(h) == /\ job[h] = Idle /\ requests < MaxRequests
            /\ requests' = requests + 1

\* DeploymentsId.patch, up to its inserts: the row is locked, parents that are
\* dropped must exist, and the new ones are looked at.
Patch(h, d, L) ==
  /\ Asked(h)
  /\ d \in exists /\ Free(h, {d}, TRUE)
  /\ LET drop == labels[d] \ L
         add == L \ labels[d]
     IN /\ Parents(drop) \subseteq exists
        /\ CanBeAdded(Without(edges, {d}, Parents(drop)), {d}, Parents(add))
        /\ job' = [job EXCEPT ![h] = [op |-> "patch", dep |-> d, add |-> add, drop |-> drop,
                                      child |-> Parents(L) # {}, stale |-> FALSE]]
  /\ UNCHANGED <<rowVars, graphVars, groupVars, history>>

\* (mutant) only the parents that were dropped are brought up to date
PatchCommitDropped(h) ==
  LET d == job[h].dep
      dropped == Parents(job[h].drop)
      added == Parents(job[h].add)
  IN /\ job[h].op = "patch"
     /\ CanInsert({d}, added) /\ Free(h, added, FALSE)
     /\ labels' = [labels EXCEPT ![d] = (@ \cup job[h].add) \ job[h].drop]
     /\ edges' = Without(edges, {d}, dropped) \o NewEdges({d}, added)
     /\ job' = Overtaking(h, added # {}, dropped # {}, Recalc(dropped))
     /\ overtaken' = IF job[h].stale /\ added # {} THEN overtaken \cup {"patch"}
                     ELSE overtaken
     /\ UNCHANGED <<rowVars, idds, groupVars, requests, lost>>

\* _update_labels_for_deployment, and the commit.
PatchCommit(h) ==
  LET d == job[h].dep
      dropped == Parents(job[h].drop)
      added == Parents(job[h].add)
  IN /\ job[h].op = "patch"
     /\ CanInsert({d}, added) /\ Free(h, added, FALSE)
     /\ labels' = [labels EXCEPT ![d] = (@ \cup job[h].add) \ job[h].drop]
     /\ edges' = Without(edges, {d}, dropped) \o NewEdges({d}, added)
     /\ job' = Overtaking(h, added # {}, dropped # {},
                 Recalc(dropped \cup IF job[h].child THEN {d} ELSE {}))
     /\ overtaken' = IF job[h].stale /\ added # {} THEN overtaken \cup {"patch"}
                     ELSE overtaken
     /\ UNCHANGED <<rowVars, idds, groupVars, requests, lost>>
--------------------------------------------------------------------------
(***************************************************************************)
(* The deployment group.                                                   *)
(***************************************************************************)

\* _add_group_deployments: the member gets the labels of the group, and with
\* them its parents.
GroupAdd(h, d) ==
  LET new == glabels \ labels[d]
  IN /\ Asked(h)
     /\ d \in exists /\ Free(h, {d}, FALSE)
     /\ CanBeAdded(edges, {d}, Parents(new))
     /\ job' = [job EXCEPT ![h] =
                  [op |-> "add", deps |-> {d}, parents |-> Parents(new),
                   missing |-> new, stale |-> FALSE]]
     /\ UNCHANGED <<rowVars, graphVars, groupVars, history>>

\* A row is gone, or an edge or a label is there already.
Conflicts(h) ==
  LET deps == job[h].deps
      parents == job[h].parents
  IN \/ ~ CanInsert(deps, parents)
     \/ \E d \in deps : labels[d] \cap job[h].missing # {}

GroupAddCommit(h) ==
  LET deps == job[h].deps
      parents == job[h].parents
  IN /\ job[h].op = "add"
     /\ ~ Conflicts(h) /\ Free(h, deps \cup parents, FALSE)
     /\ members' = members \cup deps
     /\ labels' = [d \in Deployment |-> IF d \in deps THEN labels[d] \cup job[h].missing
                                        ELSE labels[d]]
     /\ edges' = edges \o NewEdges(deps, parents)
     /\ job' = Overtaking(h, parents # {}, FALSE, Recalc(IF parents # {} THEN deps ELSE {}))
     /\ overtaken' = IF job[h].stale /\ parents # {} THEN overtaken \cup {"group"}
                     ELSE overtaken
     /\ lost' = (lost \/ (EnvLabel \in job[h].missing /\ parents = {}))
     /\ UNCHANGED <<rowVars, idds, glabels, requests>>

\* _remove_group_deployments: its labels stay.
GroupRemove(h, d) ==
  /\ Asked(h)
  /\ d \in members
  /\ members' = members \ {d}
  /\ UNCHANGED <<rowVars, graphVars, glabels, job, history>>

\* _set_group_labels: deps are the members that lack one of the new labels; they
\* get all of them, and all of the parents among them.
GroupSet(h, L) ==
  LET create == L \ glabels
      deps == {d \in members : ~ create \subseteq labels[d]}
      missing == {l \in create : \E d \in members : l \notin labels[d]}
      parents == IF deps = {} THEN {} ELSE Parents(create)
  IN /\ Asked(h)
     /\ CanBeAdded(edges, deps, parents)
     /\ job' = [job EXCEPT ![h] =
                  [op |-> "set", deps |-> deps, parents |-> parents,
                   create |-> create, missing |-> missing, drop |-> glabels \ L,
                   all |-> members, stale |-> FALSE]]
     /\ UNCHANGED <<rowVars, graphVars, groupVars, history>>

GroupSetCommit(h) ==
  LET deps == job[h].deps
      parents == job[h].parents
      drop == job[h].drop
      converted == IF EnvLabel \in job[h].create \cup drop THEN job[h].all ELSE {}
      dropped == IF job[h].all = {} THEN {} ELSE Parents(drop) \cap exists
  IN /\ job[h].op = "set"
     /\ ~ Conflicts(h) /\ Free(h, deps \cup parents, FALSE)
     /\ labels' = [d \in Deployment |->
                     IF d \notin job[h].all THEN labels[d]
                     ELSE (labels[d] \cup IF d \in deps THEN job[h].missing ELSE {}) \ drop]
     /\ edges' = Without(edges \o NewEdges(deps, parents), job[h].all, dropped)
     /\ glabels' = (glabels \cup job[h].create) \ drop
     /\ job' = Overtaking(h, parents # {}, dropped # {},
                 Recalc(converted \cup dropped \cup IF parents # {} THEN deps ELSE {}))
     /\ overtaken' = IF job[h].stale /\ parents # {} THEN overtaken \cup {"group"}
                     ELSE overtaken
     /\ UNCHANGED <<rowVars, idds, members, requests, lost>>

\* The request fails and is undone.
Fails(h) ==
  /\ \/ /\ job[h].op = "patch"
        /\ ~ CanInsert({job[h].dep}, Parents(job[h].add))
     \/ job[h].op \in {"add", "set"} /\ Conflicts(h)
     \/ job[h].op = "idd" /\ ~ {job[h].src, job[h].tgt} \subseteq exists
  /\ job' = [job EXCEPT ![h] = Idle]
  /\ UNCHANGED <<rowVars, graphVars, groupVars, requests, history>>
--------------------------------------------------------------------------
(***************************************************************************)
(* Inter-deployment dependencies.                                          *)
(***************************************************************************)
IddSeq == SetToSeq(idds)
Reversed(es) == [i \in DOMAIN es |-> <<es[i][2], es[i][1]>>]

\* InterDeploymentDependencies.put looks for the target among everything below
\* the source, post for the source among the dependencies of the target.
IddPut(h, s, t) ==
  /\ Asked(h)
  /\ {s, t} \subseteq exists
  /\ \/ /\ ~ Endless(Reversed(IddSeq), {s}) /\ ~ Endless(Reversed(edges), {s})
        /\ t \notin Range(get_dependencies(Reversed(IddSeq), {s}))
                      \cup Range(get_dependencies(Reversed(edges), {s}))
     \/ /\ ~ Endless(IddSeq, {t})
        /\ s # t /\ s \notin Range(get_dependencies(IddSeq, {t}))
  /\ job' = [job EXCEPT ![h] = [op |-> "idd", src |-> s, tgt |-> t]]
  /\ UNCHANGED <<rowVars, graphVars, groupVars, history>>

IddCommit(h) ==
  /\ job[h].op = "idd"
  /\ {job[h].src, job[h].tgt} \subseteq exists
  /\ Free(h, {job[h].src, job[h].tgt}, FALSE)
  /\ idds' = idds \cup {<<job[h].src, job[h].tgt>>}
  /\ job' = [job EXCEPT ![h] = Idle]
  /\ UNCHANGED <<rowVars, labels, edges, groupVars, requests, history>>

IddDelete(h, s, t) ==
  /\ Asked(h)
  /\ <<s, t>> \in idds
  /\ idds' = idds \ {<<s, t>>}
  /\ UNCHANGED <<rowVars, labels, edges, groupVars, job, history>>
--------------------------------------------------------------------------
(***************************************************************************)
(* Executions, creation and deletion.                                      *)
(***************************************************************************)

\* update_execution_status: update_deployment_statuses writes the row, and the
\* rows above are brought up to date once that is committed.
SetStatus(h, d, s) ==
  /\ Asked(h)
  /\ d \in exists /\ Free(h, {d}, TRUE) /\ d \notin deleting
  /\ own' = [own EXCEPT ![d] = s]
  /\ row' = [row EXCEPT ![d].status =
               decide_deployment_status(s, row[d].srvStatus, row[d].envStatus)]
  /\ job' = [job EXCEPT ![h] = Recalc({d})]
  /\ UNCHANGED <<exists, deleting, graphVars, groupVars, history>>

\* cancel_execution writes the row of the deployment in the same way, and nobody
\* brings the rows above up to date.
Cancel(h, d, s) ==
  /\ Asked(h)
  /\ d \in exists /\ Free(h, {d}, TRUE) /\ d \notin deleting
  /\ own' = [own EXCEPT ![d] = s]
  /\ row' = [row EXCEPT ![d].status =
               decide_deployment_status(s, row[d].srvStatus, row[d].envStatus)]
  /\ lost' = TRUE
  /\ UNCHANGED <<exists, deleting, graphVars, groupVars, job, overtaken>>

\* _get_blocking_dependencies: children, and deployments that depend on it,
\* unless they are being stopped, uninstalled, updated or healed.
Blocked(d, recursive, excused) ==
  \/ ~ recursive /\ Children(d) # {}
  \/ \E s \in Deployment \ excused : <<s, d>> \in idds

\* check_deployment_delete
Deletable(d, force, recursive) ==
  /\ own[d] # "in_progress"
  /\ \E excused \in SUBSET {s \in exists : own[s] = "in_progress"} :
       force \/ ~ Blocked(d, recursive, excused)

\* DeploymentsId.delete: the status is committed, and then the execution.
Delete(h, d, force, recursive) ==
  /\ Asked(h)
  /\ d \in exists /\ Free(h, {d}, TRUE) /\ d \notin deleting
  /\ Deletable(d, force, recursive)
  /\ row' = [row EXCEPT ![d].status = "in_progress"]
  /\ deleting' = deleting \cup {d}
  /\ UNCHANGED <<exists, own, graphVars, groupVars, job, history>>

\* prepare_executions fails: the deployment keeps the status, and is not deleted.
DeleteRefused(h, d, force, recursive) ==
  /\ Asked(h)
  /\ d \in exists /\ Free(h, {d}, TRUE) /\ d \notin deleting
  /\ Deletable(d, force, recursive)
  /\ row' = [row EXCEPT ![d].status = "in_progress"]
  /\ lost' = TRUE
  /\ UNCHANGED <<exists, own, deleting, graphVars, groupVars, job, overtaken>>

\* The execution of delete_deployment_environment starts.
DeleteStarted(h, d) ==
  /\ job[h] = Idle
  /\ d \in exists \cap deleting /\ Free(h, {d}, TRUE) /\ own[d] # "in_progress"
  /\ own' = [own EXCEPT ![d] = "in_progress"]
  /\ row' = [row EXCEPT ![d].status = "in_progress"]
  /\ job' = [job EXCEPT ![h] = Recalc({d})]
  /\ UNCHANGED <<exists, deleting, graphVars, groupVars, requests, history>>

\* It fails (without force) or is cancelled, and the deployment stays.
DeleteFailed(h, d) ==
  /\ job[h] = Idle
  /\ d \in exists \cap deleting /\ own[d] = "in_progress"
  /\ own' = [own EXCEPT ![d] = "requires_attention"]
  /\ deleting' = deleting \ {d}
  /\ job' = [job EXCEPT ![h] = Recalc({d})]
  /\ UNCHANGED <<exists, row, graphVars, groupVars, requests, history>>

\* (mutant) the edges of its children stay
DeleteEndedKeeps(h, d) ==
  /\ job[h] = Idle
  /\ d \in exists \cap deleting /\ Free(h, {d}, TRUE) /\ own[d] = "in_progress"
  /\ exists' = exists \ {d}
  /\ edges' = Selected(edges, {e \in Edges : d # e[1]})
  /\ idds' = {x \in idds : d \notin {x[1], x[2]}}
  /\ members' = members \ {d}
  /\ labels' = [labels EXCEPT ![d] = {}]
  /\ job' = [job EXCEPT ![h] = Recalc({d} \cup (Parents(labels[d]) \cap exists))]
  /\ UNCHANGED <<own, row, deleting, glabels, requests, history>>

\* It ends: delete_deployment.  Edges from and to the deployment go with it, the
\* labels of its children stay.
DeleteEnded(h, d) ==
  /\ job[h] = Idle
  /\ d \in exists \cap deleting /\ Free(h, {d}, TRUE) /\ own[d] = "in_progress"
  /\ exists' = exists \ {d}
  /\ edges' = Selected(edges, {e \in Edges : d \notin {e[1], e[2]}})
  /\ idds' = {x \in idds : d \notin {x[1], x[2]}}
  /\ members' = members \ {d}
  /\ labels' = [labels EXCEPT ![d] = {}]
  /\ job' = [job EXCEPT ![h] = Recalc({d} \cup (Parents(labels[d]) \cap exists))]
  /\ UNCHANGED <<own, row, deleting, glabels, requests, history>>
--------------------------------------------------------------------------
(***************************************************************************)
(* recalc_ancestors.                                                       *)
(***************************************************************************)

\* The rows above ids are read and then locked one after the other; what is left
\* of ids is locked after them.
RecalcQuery(h) ==
  LET ids == job[h].ids
      deps == get_dependencies(edges, ids)
      rest == ById(ids \ Range(deps))
  IN /\ job[h].op = "recalc"
     /\ ~ Endless(edges, ids)
     /\ job' = [job EXCEPT ![h] = [op |-> "lock", todo |-> deps \o rest, held |-> {},
                                   order |-> rest \o deps, stale |-> Uneven(edges, ids)]]
     /\ UNCHANGED <<rowVars, graphVars, groupVars, requests, history>>

RecalcLock(h) ==
  /\ job[h].op = "lock" /\ job[h].todo # <<>>
  /\ Free(h, {Head(job[h].todo)}, TRUE)
  /\ job' = [job EXCEPT ![h].todo = Tail(@),
                        ![h].held = @ \cup {Head(job[h].todo)}]
  /\ UNCHANGED <<rowVars, graphVars, groupVars, requests, history>>

Summarised(d, rows) ==
  LET kids == Children(d)
      envs == {k \in kids : IsEnvironment(k)}
  IN Summary(own[d], envs, kids \ envs, rows)

\* The rows once those of order are summed up one after the other.
Resummed(rows, order) ==
  LET upTo[n \in 0..Len(order)] ==
        IF n = 0 THEN rows
        ELSE LET before == upTo[n - 1]
                 d == order[n]
             IN IF d \in exists THEN [before EXCEPT ![d] = Summarised(d, before)]
                ELSE before
  IN upTo[Len(order)]

RecalcCommit(h) ==
  /\ job[h].op = "lock" /\ job[h].todo = <<>>
  /\ row' = Resummed(row, job[h].order)
  /\ job' = [job EXCEPT ![h] = Idle]
  /\ lost' = (lost \/ job[h].stale)
  /\ UNCHANGED <<exists, own, deleting, graphVars, groupVars, requests, overtaken>>

\* The database ends a request that waits for itself: what it was to recalculate
\* is not.
Deadlocked(h) == \E k \in Waits(h) : h \in Waits(k) \cup UNION {Waits(m) : m \in Waits(k)}

DeadlockAbort(h) ==
  /\ Deadlocked(h)
  /\ job' = [job EXCEPT ![h] = Idle]
  /\ lost' = (lost \/ job[h].op = "lock")
  /\ UNCHANGED <<rowVars, graphVars, groupVars, requests, overtaken>>
--------------------------------------------------------------------------
\* Rows are up to date at first, and edges are in the order of the children.
InitEdges ==
  LET pairs == {x \in Deployment \X Deployment :
                  x[1] \in DOMAIN InitLabels /\ x[2] \in InitLabels[x[1]]}
  IN Listed(pairs, {x \in pairs \X pairs :
                      \/ x[1][1] < x[2][1]
                      \/ x[1][1] = x[2][1] /\ x[1][2] < x[2][2]})

Init ==
  /\ exists = DOMAIN InitLabels
  /\ labels = [d \in Deployment |-> IF d \in exists THEN InitLabels[d] ELSE {}]
  /\ edges = InitEdges
  /\ idds = {}
  /\ own = [d \in Deployment |-> "good"]
  /\ row = Resummed([d \in Deployment |-> Leaf("good")], ById(exists))
  /\ deleting = {}
  /\ members = {} /\ glabels = {}
  /\ job = [h \in Handler |-> Idle]
  /\ requests = 0 /\ lost = FALSE /\ overtaken = {}

Request(h) ==
  \/ \E d \in Deployment : \/ \E L \in LabelSets : d \notin L /\ Patch(h, d, L)
                           \/ GroupAdd(h, d) \/ GroupRemove(h, d)
                           \/ \E s \in OwnStates : SetStatus(h, d, s) \/ Cancel(h, d, s)
                           \/ \E f, r \in BOOLEAN : \/ Delete(h, d, f, r)
                                                     \/ DeleteRefused(h, d, f, r)
  \/ \E L \in LabelSets : GroupSet(h, L)
  \/ \E x \in Dependencies : IddPut(h, x[1], x[2]) \/ IddDelete(h, x[1], x[2])

DeleteStep(h) ==
  \E d \in Deployment : DeleteStarted(h, d) \/ DeleteFailed(h, d) \/ DeleteEnded(h, d)

Work(h) ==
  \/ PatchCommit(h) \/ GroupAddCommit(h) \/ GroupSetCommit(h) \/ Fails(h) \/ IddCommit(h)
  \/ RecalcQuery(h) \/ RecalcLock(h) \/ RecalcCommit(h) \/ DeadlockAbort(h)

Next == \E h \in Handler : Request(h) \/ DeleteStep(h) \/ Work(h)

Spec == Init /\ [][Next]_vars
--------------------------------------------------------------------------
Acyclic(es) == ~ Endless(es, Deployment)

\* The variables have their types.
TypeOK ==
  /\ exists \subseteq Deployment
  /\ labels \in [Deployment -> SUBSET Label]
  /\ edges \in Seq(Deployment \X Deployment) /\ Edges \subseteq exists \X exists
  /\ idds \subseteq exists \X exists
  /\ own \in [Deployment -> DeploymentState] /\ row \in [Deployment -> Row]
  /\ deleting \subseteq Deployment
  /\ members \subseteq exists /\ glabels \subseteq Label
  /\ job \in [Handler -> Job] /\ requests \in 0..MaxRequests
  /\ lost \in BOOLEAN /\ overtaken \subseteq {"patch", "group"}

\* The labels graph gets a cycle, on which every later query would go on for
\* ever, only when two requests that add edges overtake each other; two requests
\* for the labels of two deployments never make them parents of one another,
\* since each holds the row the other one needs.
NoCycles ==
  /\ overtaken = {} => Acyclic(edges)
  /\ "group" \notin overtaken => \A e \in Edges : <<e[2], e[1]>> \notin Edges

\* The graph is what the labels say: a deployment is below every parent its
\* labels name that exists, once, and below no other, unless it lost a label
\* while its group was about to give it others.
GraphMatchesLabels ==
  LET named == {x \in exists \X exists : x[2] \in labels[x[1]]}
  IN /\ named \subseteq Edges
     /\ "group" \notin overtaken => Edges = named
     /\ Len(edges) = Cardinality(Edges)

\* No request is at work, and no execution that deletes has yet to start.
Quiet == /\ \A h \in Handler : job[h] = Idle
         /\ \A d \in exists \cap deleting : own[d] = "in_progress"

\* Once all requests are done, every row sums up the rows below it, in whatever
\* order changes were committed and recalculated, unless a recalculation was lost
\* or a group left an edge that no label names, by which nobody looks for parents.
RollupCurrent ==
  Quiet /\ ~ lost /\ "group" \notin overtaken =>
    \A d \in exists : row[d] = Summarised(d, row)
=============================================================================
