----------------------------- MODULE DesiredLoop -----------------------------
(***************************************************************************)
(* The desired-state loop: the Poller and its Client                       *)
(* (internal/desired/poller.go, client.go), the gate of Executor.Reconcile *)
(* and the scaling pass (internal/executor/executor.go), and the actions   *)
(* store they report into (internal/actions/store.go), against a server    *)
(* that changes its mind and a cluster that is also scaled by hand.        *)
(*                                                                         *)
(* The upgrade pass and the heal pass are modules of their own (Upgrader,  *)
(* Healer); what this one needs of them is whether they ask for a re-run.  *)
(* One poll is a conditional GET; the server's answer is the one it gives  *)
(* when it handles the request.                                            *)
(***************************************************************************)
EXTENDS Integers, FiniteSets

CONSTANTS
  Pools,           \* worker pools of the document; processed by name, so naturals
  Refusing,        \* pools without a MachineDeployment, control-plane or autoscaled
  Executions,      \* the combinations of execution flags the server may send
  Wanted,          \* the values of desiredReplicas the server may send
  MaxReplicas,     \* KUBEHZ_MAX_REPLICAS
  MaxPoolsPerPass, \* maxPoolsPerPass
  MaxRevision,     \* bound of the model: desired-state writes
  MaxSwitches,     \* bound of the model: changes of the execution flags
  MaxManual,       \* bound of the model: replica changes by somebody else
  MaxFaults,       \* bound of the model: calls that fail by themselves
  MaxRotations,    \* bound of the model: re-enrolments
  MaxRestarts      \* bound of the model: crashes of the agent

ASSUME PoolsAssumption ==
  /\ Pools \subseteq Nat /\ IsFiniteSet(Pools) /\ Refusing \subseteq Pools
  /\ Executions \subseteq SUBSET {"scaling", "upgrades", "healing"} /\ {} \in Executions
  /\ Wanted \subseteq Int /\ MaxReplicas \in Nat /\ MaxPoolsPerPass \in Nat
ASSUME BoundsAssumption ==
  {MaxRevision, MaxSwitches, MaxManual, MaxFaults, MaxRotations, MaxRestarts} \subseteq Nat

VARIABLES
  doc,             \* the server's document: revision, execution, want
  source, accepted,\* version of the token at its source, and at the server
  spec,            \* pool -> spec.replicas of its MachineDeployment
  token, etag,     \* Client.token, Client.etag
  cached, retryPending, \* locals of Poller.Run
  revision, report,\* actions.Store: its revision, and pool -> scale action
  pc,              \* where the Poller's goroutine is
  pass,            \* locals of the running scalePools
  switches, manuals, faults, restarts, \* counters of the bounded events
  applied          \* history: pool -> revision whose replicas were last seen in place

server == <<doc, accepted>>
client == <<token, etag>>
poller == <<cached, retryPending>>
store == <<revision, report>>
bounds == <<switches, manuals, faults, restarts>>
vars == <<server, source, spec, client, poller, store, pc, pass, bounds, applied>>

NoDoc == [revision |-> -1, execution |-> {}, want |-> [p \in Pools |-> 0]]
NoTag == <<>>
NoReport == [status |-> "none", revision |-> 0]
NoList == [p \in {} |-> 0]
NoPass == [list |-> NoList, todo |-> {}, halted |-> FALSE, retry |-> FALSE]
NoReports == [p \in Pools |-> NoReport]

-----------------------------------------------------------------------------
(* Operators.                                                              *)

\* The server's ETag: the revision and the execution flags (desired.go:14).
Tag(d) == <<d.revision, d.execution>>

\* scalePools: the first pools by name, at most maxPoolsPerPass of them.
InPass == {p \in Pools : Cardinality({k \in Pools : k < p}) < MaxPoolsPerPass}

\* scaleOne's refusals, final for the revision.  (Mutant first: off by one.)
RefusedTooLate(p) == p \in Refusing \/ cached.want[p] < 0 \/ cached.want[p] > MaxReplicas + 1
Refused(p) == p \in Refusing \/ cached.want[p] < 0 \/ cached.want[p] > MaxReplicas

ReportAll(ps, status) ==
  report' = [p \in Pools |-> IF p \in ps THEN [status |-> status, revision |-> cached.revision]
                             ELSE report[p]]

\* Store.Begin: a new revision drops the reports of the old one.
\* (Mutant first: they are kept until they are overwritten.)
KeptByBegin(r) == report
Begun(r) == IF r # revision THEN NoReports ELSE report

\* Store.Clear.
Clear == revision' = 0 /\ report' = NoReports

-----------------------------------------------------------------------------
Init ==
  /\ \E x \in Executions, w \in [Pools -> Wanted] :
       doc = [revision |-> 1, execution |-> x, want |-> w]
  /\ source = 0 /\ accepted = 0
  /\ spec = [p \in Pools |-> 1]
  /\ token = 0 /\ etag = NoTag
  /\ cached = NoDoc /\ retryPending = FALSE
  /\ revision = 0 /\ report = NoReports
  /\ pc = "poll" /\ pass = NoPass
  /\ switches = 0 /\ manuals = 0 /\ faults = 0 /\ restarts = 0
  /\ applied = [p \in Pools |-> 0]

-----------------------------------------------------------------------------
(* The poll.                                                               *)

\* Executor.Reconcile(d) up to its first pass: with every execution flag off
\* the reports are cleared and nothing is touched.
Reconcile(d) ==
  \/ /\ d.execution = {}
     /\ Clear
     /\ retryPending' = FALSE
     /\ pc' = "wait"
     /\ UNCHANGED pass
  \/ /\ d.execution # {}
     /\ revision' = d.revision
     /\ report' = Begun(d.revision)
     /\ pc' = "scale"
     /\ pass' = NoPass
     /\ UNCHANGED retryPending

\* Mutant of ETagOf: a missing header leaves the previous tag in place.
ETagKept(d) == {Tag(d), etag}

\* A 200 carries an ETag header or not; a missing header clears the cache.
ETagOf(d) == {Tag(d), NoTag}

\* 200: the document is decoded and valid; only then its tag is kept.
FetchDoc ==
  /\ pc = "poll" /\ token = accepted
  /\ etag # Tag(doc)
  /\ etag' \in ETagOf(doc)
  /\ cached' = doc
  /\ Reconcile(doc)
  /\ UNCHANGED <<server, source, spec, token, bounds, applied>>

ActOn304 == retryPending /\ cached # NoDoc

\* 304: the cached document is acted on again only if a re-run is pending.
FetchNotModified ==
  /\ pc = "poll" /\ token = accepted
  /\ etag = Tag(doc)
  /\ \/ ActOn304 /\ Reconcile(cached)
     \/ ~ActOn304 /\ pc' = "wait" /\ UNCHANGED <<retryPending, store, pass>>
  /\ UNCHANGED <<server, source, spec, client, cached, bounds, applied>>

\* A transport error, another status, an undecodable or invalid document.
FetchFails ==
  /\ pc = "poll" /\ faults < MaxFaults
  /\ faults' = faults + 1
  /\ pc' = "wait"
  /\ UNCHANGED <<server, source, spec, client, poller, store, pass, switches, manuals,
                 restarts, applied>>

\* 401 or 403: a token that changed at its source is tried at once; an unchanged
\* one, or a source that cannot be read, leads to a wait.
FetchRejected ==
  /\ pc = "poll" /\ token # accepted
  /\ \/ source # token /\ token' = source /\ UNCHANGED <<pc, faults>>
     \/ /\ \/ source = token /\ UNCHANGED faults
           \/ source # token /\ faults < MaxFaults /\ faults' = faults + 1
        /\ pc' = "wait" /\ UNCHANGED token
  /\ UNCHANGED <<server, source, spec, etag, poller, store, pass, switches, manuals, restarts, applied>>

\* The interval or the backoff has elapsed; nothing preempts it.
Wait ==
  /\ pc = "wait"
  /\ pc' = "poll"
  /\ UNCHANGED <<server, source, spec, client, poller, store, pass, bounds, applied>>

-----------------------------------------------------------------------------
(* scalePools.                                                             *)

SkipScaling ==
  /\ pc = "scale" /\ "scaling" \notin cached.execution
  /\ pc' = "rest"
  /\ UNCHANGED <<server, source, spec, client, poller, store, pass, bounds, applied>>

List ==
  /\ pc = "scale" /\ "scaling" \in cached.execution
  /\ pc' = "act"
  /\ pass' = [pass EXCEPT !.list = spec, !.todo = InPass]
  /\ UNCHANGED <<server, source, spec, client, poller, store, bounds, applied>>

\* The MachineDeployments cannot be listed: every pool fails, to be retried.
ListFails ==
  /\ pc = "scale" /\ "scaling" \in cached.execution /\ faults < MaxFaults
  /\ faults' = faults + 1
  /\ ReportAll(InPass, "failed")
  /\ pc' = "rest"
  /\ pass' = [pass EXCEPT !.retry = TRUE]
  /\ UNCHANGED <<server, source, spec, client, poller, revision, switches, manuals, restarts, applied>>

\* It is p's turn: pools are taken in name order.
Turn(p) == pc = "act" /\ p \in pass.todo /\ \A k \in pass.todo : p <= k
Converged(p) == pass.list[p] = cached.want[p]

\* An earlier action failed: the rest is queued.
Queue(p) ==
  /\ Turn(p) /\ pass.halted
  /\ ReportAll({p}, "pending")
  /\ pass' = [pass EXCEPT !.todo = @ \ {p}]
  /\ UNCHANGED <<server, source, spec, client, poller, revision, pc, bounds, applied>>

\* A refusal is final for the revision and does not halt the pass.
\* (Mutant first: it halts like a failure.)
RefuseHalts(p) ==
  /\ Turn(p) /\ ~pass.halted /\ Refused(p)
  /\ ReportAll({p}, "failed")
  /\ pass' = [pass EXCEPT !.todo = @ \ {p}, !.halted = TRUE]
  /\ UNCHANGED <<server, source, spec, client, poller, revision, pc, bounds, applied>>
Refuse(p) ==
  /\ Turn(p) /\ ~pass.halted /\ Refused(p)
  /\ ReportAll({p}, "failed")
  /\ pass' = [pass EXCEPT !.todo = @ \ {p}]
  /\ UNCHANGED <<server, source, spec, client, poller, revision, pc, bounds, applied>>

\* The list says the pool is where it should be: done, without a write.
Confirm(p) ==
  /\ Turn(p) /\ ~pass.halted /\ ~Refused(p) /\ Converged(p)
  /\ ReportAll({p}, "done")
  /\ pass' = [pass EXCEPT !.todo = @ \ {p}]
  /\ applied' = [applied EXCEPT ![p] = cached.revision]
  /\ UNCHANGED <<server, source, spec, client, poller, revision, pc, bounds>>

Patch(p) ==
  /\ Turn(p) /\ ~pass.halted /\ ~Refused(p) /\ ~Converged(p)
  /\ spec' = [spec EXCEPT ![p] = cached.want[p]]
  /\ ReportAll({p}, "done")
  /\ pass' = [pass EXCEPT !.todo = @ \ {p}]
  /\ applied' = [applied EXCEPT ![p] = cached.revision]
  /\ UNCHANGED <<server, source, client, poller, revision, pc, bounds>>

\* A failed patch halts the pass, and it is retried.  It was not applied, or it
\* was and only its reply is lost.
PatchFails(p) ==
  /\ Turn(p) /\ ~pass.halted /\ ~Refused(p) /\ ~Converged(p)
  /\ faults < MaxFaults
  /\ faults' = faults + 1
  /\ \/ spec' = [spec EXCEPT ![p] = cached.want[p]]
     \/ UNCHANGED spec
  /\ ReportAll({p}, "failed")
  /\ pass' = [pass EXCEPT !.todo = @ \ {p}, !.halted = TRUE, !.retry = TRUE]
  /\ UNCHANGED <<server, source, client, poller, revision, pc, switches, manuals, restarts, applied>>

-----------------------------------------------------------------------------
(* The rest of Reconcile: upgrades ask for a re-run while a roll waits or  *)
(* runs, healing always does.                                              *)

\* Mutant of Retry: the answer of the upgrade pass replaces that of scaling.
RetryOfLast(upgradesRetry) ==
  \/ pass.retry /\ "upgrades" \notin cached.execution
  \/ "upgrades" \in cached.execution /\ upgradesRetry
  \/ "healing" \in cached.execution
Retry(upgradesRetry) ==
  \/ pass.retry
  \/ "upgrades" \in cached.execution /\ upgradesRetry
  \/ "healing" \in cached.execution

Finish ==
  /\ pc = "rest" \/ (pc = "act" /\ pass.todo = {})
  /\ \E again \in BOOLEAN : retryPending' = Retry(again)
  /\ pc' = "wait"
  /\ pass' = NoPass
  /\ UNCHANGED <<server, source, spec, client, cached, store, bounds, applied>>

\* The agent dies: everything but the server and the cluster is built anew.
Restart ==
  /\ restarts < MaxRestarts
  /\ restarts' = restarts + 1
  /\ token' = source /\ etag' = NoTag
  /\ cached' = NoDoc /\ retryPending' = FALSE
  /\ revision' = 0 /\ report' = NoReports
  /\ pc' = "poll" /\ pass' = NoPass
  /\ UNCHANGED <<server, source, spec, switches, manuals, faults, applied>>

-----------------------------------------------------------------------------
(* The surroundings.                                                       *)

\* A desired-state write bumps the revision.
Write ==
  /\ doc.revision < MaxRevision
  /\ \E p \in Pools, n \in Wanted :
       doc' = [doc EXCEPT !.revision = @ + 1, !.want[p] = n]
  /\ UNCHANGED <<accepted, source, spec, client, poller, store, pc, pass, bounds, applied>>

\* Tier, access or kill switch change the execution flags, not the revision.
Switch ==
  /\ switches < MaxSwitches
  /\ switches' = switches + 1
  /\ \E x \in Executions \ {doc.execution} : doc' = [doc EXCEPT !.execution = x]
  /\ UNCHANGED <<accepted, source, spec, client, poller, store, pc, pass, manuals, faults,
                 restarts, applied>>

Rotate ==
  /\ accepted < MaxRotations
  /\ accepted' = accepted + 1
  /\ UNCHANGED <<doc, source, spec, client, poller, store, pc, pass, bounds, applied>>

SourceUpdate ==
  /\ source # accepted
  /\ source' = accepted
  /\ UNCHANGED <<server, spec, client, poller, store, pc, pass, bounds, applied>>

\* The user or an autoscaler of its own scales a pool.
ManualScale ==
  /\ manuals < MaxManual
  /\ manuals' = manuals + 1
  /\ \E p \in Pools \ Refusing, n \in 0..MaxReplicas :
       spec[p] # n /\ spec' = [spec EXCEPT ![p] = n]
  /\ UNCHANGED <<server, source, client, poller, store, pc, pass, switches, faults, restarts, applied>>

-----------------------------------------------------------------------------
Agent ==
  \/ FetchDoc \/ FetchNotModified \/ FetchFails \/ FetchRejected \/ Wait
  \/ SkipScaling \/ List \/ ListFails \/ Finish
  \/ \E p \in Pools : Queue(p) \/ Refuse(p) \/ Confirm(p) \/ Patch(p) \/ PatchFails(p)

Next == Agent \/ Restart \/ Write \/ Switch \/ Rotate \/ SourceUpdate \/ ManualScale

\* The Poller's goroutine runs and its waits elapse; the source follows the
\* server.  Nothing is assumed of faults, writes, switches or restarts.
Spec == Init /\ [][Next]_vars /\ WF_vars(Agent) /\ WF_vars(SourceUpdate)

-----------------------------------------------------------------------------
(* Properties.                                                             *)

\* A 304 never hides a change (client.go:138): whenever the server would answer
\* 304, the document the agent holds is the server's, also after flags went off
\* and on again and after a 200 without an ETag.
NoChangeMissed == etag = Tag(doc) => cached = doc

\* Each of these pools is refused for good, or was seen at, or set to, the replicas of
\* the very revision that is held.
AllDone(ps) == \A p \in ps : Refused(p) \/ applied[p] = cached.revision

\* What a pass left undone is done again (poller.go:105): as long as scaling is on, the
\* loop never rests between two polls, no re-run pending, while a pool is queued or is
\* not done, whatever failed before and whatever the other passes answer.
UndoneIsRetried ==
  pc \in {"poll", "wait"} /\ "scaling" \in cached.execution /\ ~retryPending
    => /\ \A p \in Pools : report[p].status # "pending"
       /\ AllDone(InPass)

\* The store never mixes revisions: each report is about the document the agent
\* acts on, at every moment a heartbeat may be built.
ReportsOfOneRevision ==
  \A p \in Pools : report[p] # NoReport =>
    report[p].revision = revision /\ revision = cached.revision

\* What a document asks for is done in the end if it stays, through failures,
\* restarts, re-enrolments and refused pools: its replicas are put in place at
\* least once, and a server that switches everything off finds the reports gone.
EventuallyApplied ==
  []<>( /\ \A p \in InPass \ Refusing :
             "scaling" \in doc.execution /\ doc.want[p] \in 0..MaxReplicas
               => applied[p] = doc.revision
        /\ doc.execution = {} => report = NoReports )

\* The loop implements scaling on behalf of the server: what it writes was published,
\* is permitted and within the limits, and no crash, failure or late answer lets an
\* older revision follow a newer one.
S == INSTANCE Scaling WITH held <- cached, replicas <- spec, looked <- pass.list,
                           others <- manuals

ScalesAsPromised == S!Spec

-----------------------------------------------------------------------------
(* The inductive invariants of DesiredLoopProofs.                          *)

\* A pass that asks for no re-run has dealt with all the pools it is done with.
PassComplete == pc = "act" /\ ~pass.retry => AllDone(InPass \ pass.todo)

\* A pass that acts has listed the pools under a document that permits it, and no
\* revision newer than the held one was applied.
HeldIsNewest ==
  /\ pc = "act" => "scaling" \in cached.execution /\ DOMAIN pass.list = Pools
  /\ \A p \in Pools : /\ applied[p] <= doc.revision
                      /\ cached # NoDoc => applied[p] <= cached.revision
=============================================================================
