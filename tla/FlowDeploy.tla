----------------------------- MODULE FlowDeploy -----------------------------
(***************************************************************************)
(* Deployment of flow templates from CRose to one Node-RED instance        *)
(* (crose/feitas_iot/models/nr_instance.py, nr_flow.py and the instance    *)
(* wizard).  A deployment is a sequence of HTTP calls to the instance's    *)
(* admin API and of changes to fts.nr.flow records in the database:        *)
(*   - action_deploy_flows takes the chosen templates one by one and       *)
(*     goes on with the next one when one fails;                           *)
(*   - _nr_deploy_single_flow first makes sure that every subflow the      *)
(*     template uses is deployed, which recurses for nested subflows, and  *)
(*     then posts the flow;                                                *)
(*   - Node-RED has no call that adds a subflow: all flows are read, the   *)
(*     new elements merged in and everything is posted back;               *)
(*   - api_sync_flows copies what Node-RED has into the records, and       *)
(*     swallows its own errors.                                            *)
(* Any call may fail, and a POST may take effect although its answer is    *)
(* lost.  What is deployed stays when the flow it was deployed for fails.  *)
(* The Node-RED runtime and the people who use its editor are external.    *)
(* Config nodes, credentials and parameters, which travel with a flow, are *)
(* left out.                                                               *)
(***************************************************************************)
EXTENDS Naturals, Sequences, FiniteSets

CONSTANTS
    Flows,          \* templates of flows
    Subflows,       \* subflows of the source instance
    Refs,           \* Refs[x]: the subflows that template x uses
    None,
    EditorDuring,   \* TRUE iff the editor is used while a deployment runs
    MaxDeploys, MaxFaults, MaxEdits     \* bounds

ASSUME FlowDeployAssumption ==
    /\ Refs \in [Flows \cup Subflows -> SUBSET Subflows]
    /\ Flows \cap Subflows = {}
    /\ None \notin Flows \cup Subflows
    /\ EditorDuring \in BOOLEAN
    /\ MaxDeploys \in Nat /\ MaxFaults \in Nat /\ MaxEdits \in Nat

VARIABLES
    runtime,    \* external: the elements of the Node-RED instance
    flows,      \* fts.nr.flow records of the instance
    published,  \* subflows of the source instance that have a template
    phase,      \* "idle", "deploy" or, at the end of a deployment, "link"
    queue,      \* templates the running deployment has not come to
    deployed,   \* ids of the flows it has posted
    stack,      \* what it is working on, a frame per level of recursion
    fetched,    \* what GET /flows returned to it
    nextId, deploys, faults, edits,
    request,    \* ghost: the templates of the last deployment
    clean,      \* ghost: no call of the last deployment has failed
    badSyncs    \* ghost: synchronisations that have failed

odoo == <<flows, published>>
deployer == <<queue, deployed, stack, fetched>>
ghosts == <<request, clean, badSyncs>>
vars == <<runtime, odoo, phase, deployer, nextId, deploys, faults, edits, ghosts>>

\* An element of Node-RED: a tab or a subflow, the template it was made from
\* (None for one drawn in the editor), and the subflows it uses.
Element(id, kind, of, refs) == [id |-> id, kind |-> kind, of |-> of, refs |-> refs]

\* A record: app is the template that app_store_id points to.  The name of a
\* record is that of the template its element was made from.
Record(e, app) == [id |-> e.id, kind |-> e.kind, of |-> e.of, app |-> app]

Ids(elements) == {e.id : e \in elements}
SubflowIds == Ids({e \in runtime : e.kind = "subflow"})
Tabs == {e \in runtime : e.kind = "tab"}

\* A level of the recursion: the template, where it is, the subflows it still
\* has to see to, the ids of those it has, and the id it was posted under.
Frame(x, at, todo) == [of |-> x, at |-> at, todo |-> todo, map |-> {}, id |-> 0]

Top == stack[Len(stack)]
At(label) == stack # <<>> /\ Top.at = label
Goto(label) == stack' = [stack EXCEPT ![Len(stack)].at = label]

\* Where a template goes once its subflows are there: all flows are read and
\* posted back for a subflow and for a flow that uses one.
Post(x) == IF x \in Flows /\ Refs[x] = {} THEN "add" ELSE "read"

Init ==
    /\ runtime = {} /\ flows = {} /\ published = {}
    /\ phase = "idle" /\ queue = {} /\ deployed = {} /\ stack = <<>> /\ fetched = {}
    /\ nextId = 1 /\ deploys = 0 /\ faults = 0 /\ edits = 0
    /\ request = {} /\ clean = TRUE /\ badSyncs = 0

-----------------------------------------------------------------------------
(* HTTP calls. *)

\* A call raises an error: the flow fails, action_deploy_flows goes on.
fault ==
    /\ faults < MaxFaults
    /\ faults' = faults + 1
    /\ clean' = FALSE

callOK == UNCHANGED <<faults, clean>>

giveUp == stack' = <<>>

\* Mutant: the records of subflows are not brought up to date.
SyncedTabs ==
    {r \in flows : r.id \in Ids(runtime)}
    \cup {Record(e, None) : e \in {t \in Tabs : t.id \notin Ids(flows)}}

\* What api_sync_flows leaves: a record for each element, the old one where
\* there is one.
Synced ==
    {r \in flows : r.id \in Ids(runtime)}
    \cup {Record(e, None) : e \in {t \in runtime : t.id \notin Ids(flows)}}

\* api_sync_flows: all of it, or, when one of its calls fails, the records of
\* some tabs; stale records then stay.  Its caller does not notice.
api_sync_flows ==
    \/ /\ flows' = Synced
       /\ callOK
       /\ UNCHANGED badSyncs
    \/ /\ fault
       /\ badSyncs' = badSyncs + 1
       /\ \E some \in SUBSET {t \in Tabs : t.id \notin Ids(flows)} :
             flows' = flows \cup {Record(t, None) : t \in some}

-----------------------------------------------------------------------------
(* The deployment. *)

\* The user chooses templates: action_deploy_flows.
action_deploy_flows ==
    /\ phase = "idle" /\ deploys < MaxDeploys
    /\ \E chosen \in SUBSET Flows \ {{}} : queue' = chosen /\ request' = chosen
    /\ phase' = "deploy"
    /\ deployed' = {} /\ clean' = TRUE
    /\ deploys' = deploys + 1
    /\ UNCHANGED <<runtime, odoo, stack, fetched, nextId, faults, edits, badSyncs>>

\* _nr_deploy_single_flow for the next template.
_nr_deploy_single_flow ==
    /\ phase = "deploy" /\ stack = <<>>
    /\ \E x \in queue :
          /\ queue' = queue \ {x}
          /\ stack' = <<Frame(x, IF Refs[x] = {} THEN Post(x) ELSE "sync", Refs[x])>>
    /\ UNCHANGED <<runtime, odoo, phase, deployed, fetched, nextId, deploys, faults, edits, ghosts>>

\* _nr_ensure_subflows_deployed brings the records up to date first.
ensureSync ==
    /\ At("sync")
    /\ api_sync_flows
    /\ Goto("subflows")
    /\ UNCHANGED <<runtime, published, phase, queue, deployed, fetched, nextId, deploys, edits, request>>

\* Its loop: a subflow that has no template is published, then deployed.
_nr_ensure_subflows_deployed ==
    /\ At("subflows")
    /\ \/ /\ Top.todo = {}
          /\ Goto(Post(Top.of))
          /\ UNCHANGED published
       \/ \E s \in Top.todo :
             /\ published' = published \cup {s}
             /\ stack' = Append([stack EXCEPT ![Len(stack)].todo = @ \ {s}],
                                Frame(s, "lookup", Refs[s]))
    /\ UNCHANGED <<runtime, flows, phase, queue, deployed, fetched, nextId, deploys, faults, edits, ghosts>>

\* Mutant: runtime_subflow_ids is not given, so any record counts.
SearchRecords(records, otherwise) ==
    IF records = {} THEN otherwise ELSE {r.id : r \in records}

\* A search with limit=1 over records, whose result counts only if Node-RED
\* has the subflow; otherwise the next search decides.  Which of several
\* records a search returns is left open.
Search(records, otherwise) ==
    LET live == {r \in records : r.id \in SubflowIds}
    IN  {r.id : r \in live} \cup (IF records = {} \/ records # live THEN otherwise ELSE {})

\* Mutant: the subflow's name is not searched for.
ResolvedNoName(s, expected) ==
    LET records(test(_)) == {r \in flows : r.kind = "subflow" /\ test(r)}
    IN  Search(records(LAMBDA r : r.app = s),
        Search(records(LAMBDA r : r.id = expected), {0}))

\* _nr_resolve_deployed_subflow_flow: the record of the template, else the one
\* with the expected id, else one with the subflow's name; 0 for none.
Resolved(s, expected) ==
    LET records(test(_)) == {r \in flows : r.kind = "subflow" /\ test(r)}
    IN  Search(records(LAMBDA r : r.app = s),
        Search(records(LAMBDA r : r.id = expected),
        Search(records(LAMBDA r : r.of = s), {0})))

\* A subflow is there: its user goes on with its id.
Return(id) ==
    LET user == Len(stack) - 1
    IN  stack' = [SubSeq(stack, 1, user) EXCEPT ![user].map = @ \cup {id}]

\* _nr_deploy_subflow_template up to the recursion: a subflow that is there
\* already is used as it is.
lookup ==
    /\ At("lookup")
    /\ \/ /\ callOK
          /\ \E id \in Resolved(Top.of, 0) :
                IF id # 0 THEN Return(id)
                          ELSE Goto(IF Top.todo = {} THEN "read" ELSE "sync")
       \/ fault /\ giveUp
    /\ UNCHANGED <<runtime, odoo, phase, queue, deployed, fetched, nextId, deploys, edits, request, badSyncs>>

\* _nr_deploy_subflow_deps and _nr_post_main_flow_payload: GET /flows ...
readFlows ==
    /\ At("read")
    /\ \/ callOK /\ fetched' = runtime /\ Goto("write")
       \/ fault /\ giveUp /\ UNCHANGED fetched
    /\ UNCHANGED <<runtime, odoo, phase, queue, deployed, nextId, deploys, edits, request, badSyncs>>

\* The element that the template on top becomes.
NewElement ==
    Element(nextId, IF Top.of \in Flows THEN "tab" ELSE "subflow", Top.of, Top.map)

\* A POST took effect and was answered: a subflow is looked up, a flow is done.
posted ==
    /\ callOK
    /\ IF Top.of \in Flows
       THEN /\ deployed' = deployed \cup {[id |-> nextId, of |-> Top.of]}
            /\ giveUp
       ELSE /\ stack' = [stack EXCEPT ![Len(stack)].at = "resync", ![Len(stack)].id = nextId]
            /\ UNCHANGED deployed

\* Everything that was read, with the new elements.
Merged == fetched \cup {NewElement}

\* ... and POST /flows, which replaces what Node-RED has.
writeFlows ==
    /\ At("write")
    /\ \/ runtime' = Merged /\ posted
       \/ runtime' = Merged /\ fault /\ giveUp /\ UNCHANGED deployed
       \/ UNCHANGED runtime /\ fault /\ giveUp /\ UNCHANGED deployed
    /\ nextId' = nextId + 1
    /\ fetched' = {}
    /\ UNCHANGED <<odoo, phase, queue, deploys, edits, request, badSyncs>>

\* POST /flow adds a flow that uses no subflow.
addFlow ==
    /\ At("add")
    /\ \/ runtime' = runtime \cup {NewElement} /\ posted
       \/ runtime' = runtime \cup {NewElement} /\ fault /\ giveUp /\ UNCHANGED deployed
       \/ UNCHANGED runtime /\ fault /\ giveUp /\ UNCHANGED deployed
    /\ nextId' = nextId + 1
    /\ UNCHANGED <<odoo, phase, queue, fetched, deploys, edits, request, badSyncs>>

\* _nr_deploy_subflow_template after the POST: synchronise, ...
resync ==
    /\ At("resync")
    /\ api_sync_flows
    /\ Goto("confirm")
    /\ UNCHANGED <<runtime, published, phase, queue, deployed, fetched, nextId, deploys, edits, request>>

\* ... look the subflow up and note its template.
confirm ==
    /\ At("confirm")
    /\ \/ /\ callOK
          /\ \E id \in Resolved(Top.of, Top.id) :
                IF id = 0
                THEN giveUp /\ UNCHANGED flows
                ELSE /\ flows' = {IF r.id = id THEN [r EXCEPT !.app = Top.of] ELSE r : r \in flows}
                     /\ Return(id)
       \/ fault /\ giveUp /\ UNCHANGED flows
    /\ UNCHANGED <<runtime, published, phase, queue, deployed, fetched, nextId, deploys, edits, request, badSyncs>>

\* action_deploy_flows at its end: synchronise, ...
finalSync ==
    /\ phase = "deploy" /\ stack = <<>> /\ queue = {}
    /\ api_sync_flows
    /\ phase' = "link"
    /\ UNCHANGED <<runtime, published, deployer, nextId, deploys, edits, request>>

\* ... and note the template of each flow that was posted.
link ==
    /\ phase = "link"
    /\ flows' = {IF \E d \in deployed : d.id = r.id /\ r.kind = "tab"
                 THEN [r EXCEPT !.app = r.of] ELSE r : r \in flows}
    /\ phase' = "idle"
    /\ UNCHANGED <<runtime, published, deployer, nextId, deploys, faults, edits, ghosts>>

-----------------------------------------------------------------------------
(* Other users. *)

\* The wizard deletes a flow: the record goes, even when the call fails.
deleteFlow ==
    /\ phase = "idle" /\ edits < MaxEdits
    /\ edits' = edits + 1
    /\ \E r \in {q \in flows : q.kind = "tab"} :
          /\ flows' = flows \ {r}
          /\ \/ runtime' = {e \in runtime : e.id # r.id} /\ UNCHANGED faults
             \/ UNCHANGED runtime /\ fault
    /\ clean' = FALSE
    /\ UNCHANGED <<published, phase, deployer, nextId, deploys, request, badSyncs>>

\* External: somebody draws a flow, or removes a flow or an unused subflow, in
\* the editor.
editor ==
    /\ EditorDuring \/ phase = "idle"
    /\ edits < MaxEdits
    /\ edits' = edits + 1
    /\ \/ /\ runtime' = runtime \cup {Element(nextId, "tab", None, {})}
          /\ nextId' = nextId + 1
       \/ \E e \in runtime :
             /\ \A u \in runtime : e.id \notin u.refs
             /\ runtime' = runtime \ {e}
             /\ UNCHANGED nextId
    /\ clean' = FALSE
    /\ UNCHANGED <<odoo, phase, deployer, deploys, faults, request, badSyncs>>

deployment ==
    \/ _nr_deploy_single_flow \/ ensureSync \/ _nr_ensure_subflows_deployed
    \/ lookup \/ readFlows \/ writeFlows \/ addFlow \/ resync \/ confirm
    \/ finalSync \/ link

Next == action_deploy_flows \/ deployment \/ deleteFlow \/ editor

Spec == Init /\ [][Next]_vars

-----------------------------------------------------------------------------
(* Properties. *)

\* Whatever fails in the middle of a deployment, and however stale the records
\* are, Node-RED never holds a flow or a subflow that uses a subflow it does
\* not have (_nr_ensure_subflows_deployed, _nr_apply_subflow_mapping).
RefsResolve ==
    \A e \in runtime : e.refs \subseteq SubflowIds

\* A subflow that was left behind by a failed deployment is found again by the
\* next one, so no subflow is deployed twice: only a synchronisation whose
\* error was swallowed can hide it.
SubflowOnce ==
    badSyncs = 0 =>
        \A d, e \in runtime :
            d.kind = "subflow" /\ e.kind = "subflow" /\ d.of = e.of => d = e

\* No failure leaves a state that a later deployment cannot cope with: one
\* whose calls all succeed leaves every chosen flow in Node-RED, with a record
\* that knows its template.
CleanDeployWorks ==
    phase = "idle" /\ clean =>
        \A x \in request :
            \E r \in flows : r.of = x /\ r.app = x /\ r.id \in Ids(Tabs)

\* A deployment adds to what Node-RED has and takes nothing away: "Post a main
\* flow payload to Node-RED, handling subflow instances by merging."
DeployKeeps == [][deployment => runtime \subseteq runtime']_vars
=============================================================================
