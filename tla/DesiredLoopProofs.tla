-------------------------- MODULE DesiredLoopProofs --------------------------
(***************************************************************************)
(* Theorems about DesiredLoop for every set of pools and flags, every      *)
(* limit, and any number of writes, switches, failures and restarts.       *)
(***************************************************************************)
EXTENDS DesiredLoop, TLAPS

-----------------------------------------------------------------------------
(* Types.                                                                  *)

Docs == [revision : Nat \ {0}, execution : Executions, want : [Pools -> Wanted]]
Reports == [status : {"none", "pending", "done", "failed"}, revision : Int]
Lists == [Pools -> Int] \cup {NoList}
Passes == [list : Lists, todo : SUBSET Pools, halted : BOOLEAN, retry : BOOLEAN]
Pcs == {"poll", "wait", "scale", "act", "rest"}

DocType == doc \in Docs /\ cached \in Docs \cup {NoDoc}
LoopType == pc \in Pcs /\ pass \in Passes /\ spec \in [Pools -> Int]
StoreType == report \in [Pools -> Reports] /\ revision \in Int

TypeOK == DocType /\ LoopType /\ StoreType

LEMMA InPassType == InPass \subseteq Pools
BY DEF InPass

LEMMA NoPassType == NoPass \in Passes
BY DEF NoPass, Passes, Lists

LEMMA NoReportsType == NoReports \in [Pools -> Reports] /\ \A p \in Pools : NoReports[p] = NoReport
BY DEF NoReports, NoReport, Reports

LEMMA CachedRevision == ASSUME DocType PROVE cached.revision \in Int /\ doc.revision \in Int
BY DEF DocType, Docs, NoDoc

LEMMA CachedWant == ASSUME TypeOK, NEW p \in Pools PROVE cached.want[p] \in Int
<1>1. CASE cached \in Docs
  <2>1. cached.want \in [Pools -> Wanted]
    BY <1>1 DEF Docs
  <2> QED
    BY <2>1, PoolsAssumption
<1>2. CASE cached = NoDoc
  BY <1>2 DEF NoDoc
<1> QED
  BY <1>1, <1>2 DEF TypeOK, DocType

\* A write raises the revision; a switch keeps it, and the replicas.
LEMMA WriteStep ==
  ASSUME TypeOK, Write
  PROVE  /\ doc' \in Docs /\ doc'.revision = doc.revision + 1
         /\ UNCHANGED <<cached, retryPending, etag, revision, report, pc, pass, spec>>
<1>1. UNCHANGED <<cached, retryPending, etag, revision, report, pc, pass, spec>>
  BY DEF Write, client, poller, store
<1>2. PICK p \in Pools, n \in Wanted : doc' = [doc EXCEPT !.revision = @ + 1, !.want[p] = n]
  BY DEF Write
<1>3. doc.revision \in Nat \ {0} /\ doc.execution \in Executions /\ doc.want \in [Pools -> Wanted]
      /\ doc = [revision |-> doc.revision, execution |-> doc.execution, want |-> doc.want]
  BY DEF TypeOK, DocType, Docs
<1>4. doc' = [revision |-> doc.revision + 1, execution |-> doc.execution,
               want |-> [doc.want EXCEPT ![p] = n]]
  BY <1>2, <1>3
<1>5. [doc.want EXCEPT ![p] = n] \in [Pools -> Wanted] /\ doc.revision + 1 \in Nat \ {0}
  BY <1>3
<1> QED
  BY <1>1, <1>3, <1>4, <1>5 DEF Docs

LEMMA SwitchStep ==
  ASSUME TypeOK, Switch
  PROVE  /\ doc' \in Docs /\ doc'.revision = doc.revision /\ doc'.want = doc.want
         /\ UNCHANGED <<cached, retryPending, etag, revision, report, pc, pass, spec>>
BY DEF Switch, client, poller, store, TypeOK, DocType, Docs

LEMMA ReportAllType ==
  ASSUME TypeOK, NEW ps, NEW status \in {"pending", "done", "failed"}, ReportAll(ps, status)
  PROVE  /\ report' \in [Pools -> Reports]
         /\ \A p \in Pools : p \in ps => report'[p] = [status |-> status, revision |-> cached.revision]
         /\ \A p \in Pools : p \notin ps => report'[p] = report[p]
BY CachedRevision DEF TypeOK, StoreType, ReportAll, Reports

\* What Reconcile leads to before its first pass.
LEMMA ReconcileCases ==
  ASSUME TypeOK, NEW d \in Docs \cup {NoDoc}, Reconcile(d)
  PROVE  /\ pc' \in Pcs /\ pass' \in Passes /\ StoreType'
         /\ \/ report' = NoReports /\ pc' = "wait"
            \/ /\ revision' = d.revision /\ pc' = "scale" /\ pass' = NoPass
               /\ report' = NoReports \/ (report' = report /\ revision = d.revision)
<1>1. d.revision \in Int
  BY DEF Docs, NoDoc
<1> QED
  BY <1>1, NoPassType, NoReportsType
     DEF Reconcile, Clear, Begun, TypeOK, LoopType, StoreType, Pcs

\* The steps of the poll, as far as they concern the document and the store.
Polls == FetchDoc \/ FetchNotModified

Idles == FetchFails \/ FetchRejected \/ Wait \/ Rotate \/ SourceUpdate \/ ManualScale
           \/ UNCHANGED vars

LEMMA IdleStep ==
  ASSUME TypeOK, Idles
  PROVE  /\ UNCHANGED <<doc, cached, retryPending, etag, revision, report, pass>>
         /\ pc' = pc \/ (pc' \in {"poll", "wait"} /\ pc \in {"poll", "wait"})
         /\ spec' \in [Pools -> Int]
<1>1. CASE FetchFails
  BY <1>1 DEF FetchFails, server, client, poller, store, TypeOK, LoopType
<1>2. CASE FetchRejected
  BY <1>2 DEF FetchRejected, server, client, poller, store, TypeOK, LoopType
<1>3. CASE Wait
  BY <1>3 DEF Wait, server, client, poller, store, TypeOK, LoopType
<1>4. CASE Rotate \/ SourceUpdate \/ UNCHANGED vars
  BY <1>4 DEF Rotate, SourceUpdate, vars, server, client, poller, store, TypeOK, LoopType
<1>5. CASE ManualScale
  BY <1>5 DEF ManualScale, server, client, poller, store, TypeOK, LoopType
<1> QED
  BY <1>1, <1>2, <1>3, <1>4, <1>5 DEF Idles

\* A step of the scaling pass that settles pool p.
Settles(p, status) ==
  /\ Turn(p)
  /\ ReportAll({p}, status)
  /\ pass'.todo = pass.todo \ {p} /\ pass' \in Passes
  /\ UNCHANGED <<doc, cached, retryPending, etag, revision, pc>>
  /\ spec' \in [Pools -> Int]

LEMMA SettlingStep ==
  ASSUME TypeOK, NEW p \in Pools,
         Queue(p) \/ Refuse(p) \/ Confirm(p) \/ Patch(p) \/ PatchFails(p)
  PROVE  /\ \E status \in {"pending", "done", "failed"} :
              Settles(p, status) /\ (status = "pending" => pass.halted)
         /\ pass.retry => pass'.retry
         /\ pass'.halted => pass.halted \/ pass'.retry
<1>1. CASE Queue(p)
  <2>1. Settles(p, "pending")
    BY <1>1 DEF Queue, Settles, TypeOK, LoopType, Passes, server, client, poller
  <2> QED
    BY <1>1, <2>1 DEF Queue, TypeOK, LoopType, Passes
<1>2. CASE Refuse(p)
  <2>1. Settles(p, "failed")
    BY <1>2 DEF Refuse, Settles, TypeOK, LoopType, Passes, server, client, poller
  <2> QED
    BY <1>2, <2>1 DEF Refuse, TypeOK, LoopType, Passes
<1>3. CASE Confirm(p)
  <2>1. Settles(p, "done")
    BY <1>3 DEF Confirm, Settles, TypeOK, LoopType, Passes, server, client, poller
  <2> QED
    BY <1>3, <2>1 DEF Confirm, TypeOK, LoopType, Passes
<1>4. CASE Patch(p)
  <2>1. cached.want[p] \in Int
    BY CachedWant
  <2>2. Settles(p, "done")
    BY <1>4, <2>1 DEF Patch, Settles, TypeOK, LoopType, Passes, server, client, poller
  <2> QED
    BY <1>4, <2>2 DEF Patch, TypeOK, LoopType, Passes
<1>5. CASE PatchFails(p)
  <2>1. cached.want[p] \in Int
    BY CachedWant
  <2>2. Settles(p, "failed")
    BY <1>5, <2>1 DEF PatchFails, Settles, TypeOK, LoopType, Passes, server, client, poller
  <2> QED
    BY <1>5, <2>2 DEF PatchFails, TypeOK, LoopType, Passes
<1> QED
  BY <1>1, <1>2, <1>3, <1>4, <1>5

\* The steps, grouped by what they do to the document, the reports and the pass.
LEMMA StepCases ==
  ASSUME [Next]_vars
  PROVE  \/ Polls \/ Idles \/ SkipScaling \/ List \/ ListFails \/ Finish \/ Restart \/ Write \/ Switch
         \/ \E p \in Pools : Queue(p) \/ Refuse(p) \/ Confirm(p) \/ Patch(p) \/ PatchFails(p)
BY Zenon DEF Next, Agent, Polls, Idles

LEMMA PollStep ==
  ASSUME TypeOK, Polls
  PROVE  \/ /\ pc = "poll" /\ cached' \in Docs \cup {NoDoc} /\ Reconcile(cached')
            /\ UNCHANGED <<doc, spec>>
            /\ \/ cached' = doc /\ etag' \in {Tag(doc), NoTag}
               \/ UNCHANGED <<cached, etag>>
         \/ /\ pc = "poll" /\ pc' = "wait"
            /\ UNCHANGED <<doc, spec, cached, retryPending, etag, revision, report, pass>>
<1>1. CASE FetchDoc
  BY <1>1 DEF FetchDoc, ETagOf, server, TypeOK, DocType
<1>2. CASE FetchNotModified
  BY <1>2 DEF FetchNotModified, ActOn304, server, client, store, TypeOK, DocType
<1> QED
  BY <1>1, <1>2 DEF Polls

THEOREM TypeCorrect == Spec => []TypeOK
<1>1. Init => TypeOK
  <2>1. Init => pc = "poll" /\ pass = NoPass /\ report = NoReports /\ revision = 0 /\ cached = NoDoc
    BY DEF Init
  <2>2. Init => spec \in [Pools -> Int]
    BY DEF Init
  <2>3. Init => doc \in Docs
    BY DEF Init, Docs
  <2> QED
    BY <2>1, <2>2, <2>3, NoPassType, NoReportsType
       DEF TypeOK, DocType, LoopType, StoreType, Pcs
<1>2. ASSUME TypeOK, [Next]_vars PROVE TypeOK'
  <2>1. CASE Polls
    BY <1>2, <2>1, PollStep, ReconcileCases DEF TypeOK, DocType, LoopType, StoreType, Pcs
  <2>2. CASE Idles
    BY <1>2, <2>2, IdleStep DEF TypeOK, DocType, LoopType, StoreType, Pcs
  <2>3. CASE SkipScaling
    BY <1>2, <2>3
       DEF SkipScaling, TypeOK, DocType, LoopType, StoreType, Pcs, server, poller, store
  <2>4. CASE List
    BY <1>2, <2>4, InPassType
       DEF List, TypeOK, DocType, LoopType, StoreType, Pcs, Passes, Lists, server, poller, store
  <2>5. CASE ListFails
    <3>1. report' \in [Pools -> Reports]
      BY <1>2, <2>5, ReportAllType DEF ListFails
    <3> QED
      BY <1>2, <2>5, <3>1
         DEF ListFails, TypeOK, DocType, LoopType, StoreType, Pcs, Passes, server, poller
  <2>6. CASE Finish
    BY <1>2, <2>6, NoPassType
       DEF Finish, TypeOK, DocType, LoopType, StoreType, Pcs, server, store
  <2>7. CASE Restart
    BY <1>2, <2>7, NoPassType, NoReportsType
       DEF Restart, TypeOK, DocType, LoopType, StoreType, Pcs, server
  <2>8. CASE Write \/ Switch
    BY <1>2, <2>8, WriteStep, SwitchStep DEF TypeOK, DocType, LoopType, StoreType
  <2>9. ASSUME NEW p \in Pools,
               Queue(p) \/ Refuse(p) \/ Confirm(p) \/ Patch(p) \/ PatchFails(p)
        PROVE  TypeOK'
    <3>1. PICK status \in {"pending", "done", "failed"} : Settles(p, status)
      BY <1>2, <2>9, SettlingStep
    <3>2. report' \in [Pools -> Reports]
      BY <1>2, <3>1, ReportAllType DEF Settles
    <3> QED
      BY <1>2, <3>1, <3>2 DEF Settles, TypeOK, DocType, LoopType, StoreType
  <2> QED
    BY <1>2, <2>1, <2>2, <2>3, <2>4, <2>5, <2>6, <2>7, <2>8, <2>9, StepCases
<1> QED
  BY <1>1, <1>2, PTL DEF Spec

-----------------------------------------------------------------------------
(* A 304 never hides a change.                                             *)

\* The tag is that of the cached document, which the server held once.
CacheInv ==
  /\ etag \in {NoTag, Tag(cached)}
  /\ cached.revision <= doc.revision
  /\ cached.revision = doc.revision => cached.want = doc.want

LEMMA CacheStep ==
  ASSUME TypeOK, CacheInv, [Next]_vars
  PROVE  CacheInv'
<1>1. CASE Polls
  BY <1>1, PollStep, CachedRevision DEF CacheInv, Tag, TypeOK
<1>2. CASE Idles
  BY <1>2, IdleStep DEF CacheInv, Tag
<1>3. CASE SkipScaling \/ List \/ ListFails \/ Finish
  <2>1. UNCHANGED <<doc, cached, etag>>
    BY <1>3 DEF SkipScaling, List, ListFails, Finish, server, client, poller
  <2> QED
    BY <2>1 DEF CacheInv, Tag
<1>4. CASE Restart
  BY <1>4 DEF Restart, server, CacheInv, NoDoc, TypeOK, DocType, Docs
<1>5. CASE Write
  BY <1>5, WriteStep, CachedRevision DEF CacheInv, Tag, TypeOK
<1>6. CASE Switch
  BY <1>6, SwitchStep DEF CacheInv, Tag
<1>7. ASSUME NEW p \in Pools,
             Queue(p) \/ Refuse(p) \/ Confirm(p) \/ Patch(p) \/ PatchFails(p)
      PROVE  CacheInv'
  BY <1>7, SettlingStep DEF Settles, CacheInv, Tag
<1> QED
  BY <1>1, <1>2, <1>3, <1>4, <1>5, <1>6, <1>7, StepCases

\* Whenever the server would answer 304 to what the agent holds, the agent holds
\* the server's document: a tag names one document, and a 200 replaces both.
THEOREM NothingHidden == Spec => []NoChangeMissed
<1>1. Init => CacheInv
  BY DEF Init, CacheInv, NoDoc
<1>2. TypeOK /\ CacheInv => NoChangeMissed
  <2> SUFFICES ASSUME TypeOK, CacheInv, etag = Tag(doc) PROVE cached = doc
    BY DEF NoChangeMissed
  <2>1. Tag(cached) = Tag(doc)
    BY DEF CacheInv, NoTag, Tag
  <2>2. cached.revision = doc.revision /\ cached.execution = doc.execution
    BY <2>1 DEF Tag
  <2>3. cached.want = doc.want
    BY <2>2 DEF CacheInv
  <2>4. cached \in Docs
    BY <2>2 DEF TypeOK, DocType, Docs, NoDoc
  <2> QED
    BY <2>2, <2>3, <2>4 DEF TypeOK, DocType, Docs
<1> QED
  BY <1>1, <1>2, CacheStep, TypeCorrect, PTL DEF Spec

-----------------------------------------------------------------------------
(* The reports are about the document the agent acts on.                   *)

PassRevision == pc \in {"scale", "act", "rest"} => revision = cached.revision

LEMMA ReportsStep ==
  ASSUME TypeOK, PassRevision, ReportsOfOneRevision, [Next]_vars
  PROVE  PassRevision' /\ ReportsOfOneRevision'
<1>1. CASE Polls
  <2>1. CASE /\ pc = "poll" /\ cached' \in Docs \cup {NoDoc} /\ Reconcile(cached')
    <3>1. \/ report' = NoReports /\ pc' = "wait"
          \/ /\ revision' = cached'.revision /\ pc' = "scale"
             /\ report' = NoReports \/ (report' = report /\ revision = cached'.revision)
      BY <2>1, ReconcileCases
    <3> QED
      BY <3>1, NoReportsType DEF PassRevision, ReportsOfOneRevision
  <2>2. CASE pc' = "wait" /\ UNCHANGED <<cached, revision, report>>
    BY <2>2 DEF PassRevision, ReportsOfOneRevision
  <2> QED
    BY <1>1, <2>1, <2>2, PollStep
<1>2. CASE Idles
  BY <1>2, IdleStep DEF PassRevision, ReportsOfOneRevision
<1>3. CASE SkipScaling \/ List \/ Finish
  <2>1. UNCHANGED <<cached, revision, report>> /\ (pc' = "wait" \/ pc = "scale")
    BY <1>3 DEF SkipScaling, List, Finish, poller, store
  <2> QED
    BY <2>1 DEF PassRevision, ReportsOfOneRevision
<1>4. CASE ListFails
  <2>1. UNCHANGED <<cached, revision>> /\ pc = "scale" /\ ReportAll(InPass, "failed")
    BY <1>4 DEF ListFails, poller
  <2>2. \A p \in Pools : report'[p] = report[p] \/ report'[p].revision = cached.revision
    BY <2>1, ReportAllType
  <2> QED
    BY <2>1, <2>2 DEF PassRevision, ReportsOfOneRevision
<1>5. CASE Restart
  BY <1>5, NoReportsType DEF Restart, PassRevision, ReportsOfOneRevision
<1>6. CASE Write \/ Switch
  BY <1>6, WriteStep, SwitchStep DEF PassRevision, ReportsOfOneRevision
<1>7. ASSUME NEW p \in Pools,
             Queue(p) \/ Refuse(p) \/ Confirm(p) \/ Patch(p) \/ PatchFails(p)
      PROVE  PassRevision' /\ ReportsOfOneRevision'
  <2>1. PICK status \in {"pending", "done", "failed"} : Settles(p, status)
    BY <1>7, SettlingStep
  <2>2. \A k \in Pools : report'[k] = report[k] \/ report'[k].revision = cached.revision
    BY <2>1, ReportAllType DEF Settles
  <2> QED
    BY <2>1, <2>2 DEF Settles, Turn, PassRevision, ReportsOfOneRevision
<1> QED
  BY <1>1, <1>2, <1>3, <1>4, <1>5, <1>6, <1>7, StepCases

\* A report of an older document never stands beside one of a newer, at whatever
\* moment a heartbeat reads the store.
THEOREM OneRevision == Spec => []ReportsOfOneRevision
<1>1. Init => PassRevision /\ ReportsOfOneRevision
  BY NoReportsType DEF Init, PassRevision, ReportsOfOneRevision
<1> QED
  BY <1>1, ReportsStep, TypeCorrect, PTL DEF Spec

-----------------------------------------------------------------------------
(* What is undone is done again.                                           *)

Pending(p) == report[p].status = "pending"

AtRest == pc \in {"poll", "wait"} /\ "scaling" \in cached.execution /\ ~retryPending
NoneQueued == AtRest => \A p \in Pools : ~Pending(p)

QueueInv ==
  /\ \A p \in Pools : Pending(p) => p \in InPass
  /\ pc = "scale" => pass = NoPass
  /\ pc = "act" => /\ pass.todo \subseteq InPass
                   /\ pass.halted => pass.retry
                   /\ \A p \in Pools : Pending(p) /\ p \notin pass.todo => pass.retry
  /\ pc = "rest" /\ "scaling" \in cached.execution => pass.retry

LEMMA QueueStep ==
  ASSUME TypeOK, QueueInv, NoneQueued, [Next]_vars
  PROVE  QueueInv' /\ NoneQueued'
<1>i. InPass' = InPass
  BY DEF InPass
<1>1. CASE Polls
  <2>1. CASE /\ pc = "poll" /\ cached' \in Docs \cup {NoDoc} /\ Reconcile(cached')
    <3>1. \/ report' = NoReports /\ pc' = "wait"
          \/ /\ pc' = "scale" /\ pass' = NoPass
             /\ report' = NoReports \/ report' = report
      BY <2>1, ReconcileCases
    <3>2. report' = NoReports => \A p \in Pools : report'[p].status = "none"
      BY NoReportsType DEF NoReport
    <3> QED
      BY <1>i, <3>1, <3>2 DEF QueueInv, NoneQueued, AtRest, Pending
  <2>2. CASE /\ pc = "poll" /\ pc' = "wait"
             /\ UNCHANGED <<cached, retryPending, report, pass>>
    BY <1>i, <2>2 DEF QueueInv, NoneQueued, AtRest, Pending
  <2> QED
    BY <1>1, <2>1, <2>2, PollStep
<1>2. CASE Idles
  BY <1>i, <1>2, IdleStep DEF QueueInv, NoneQueued, AtRest, Pending
<1>3. CASE SkipScaling
  BY <1>i, <1>3 DEF SkipScaling, poller, store, QueueInv, NoneQueued, AtRest, Pending
<1>4. CASE List
  <2>1. /\ pc = "scale" /\ pc' = "act" /\ UNCHANGED <<cached, retryPending, report>>
        /\ pass' = [pass EXCEPT !.list = spec, !.todo = InPass]
    BY <1>4 DEF List, poller, store
  <2>2. pass'.todo = InPass /\ pass'.halted = FALSE
    BY <2>1 DEF QueueInv, NoPass
  <2> QED
    BY <1>i, <2>1, <2>2 DEF QueueInv, NoneQueued, AtRest, Pending
<1>5. CASE ListFails
  <2>1. /\ pc = "scale" /\ pc' = "rest" /\ UNCHANGED <<cached, retryPending>>
        /\ pass'.retry = TRUE /\ ReportAll(InPass, "failed")
    BY <1>5 DEF ListFails, poller, TypeOK, LoopType, Passes
  <2>2. \A p \in Pools : ~Pending(p)'
    BY <2>1, ReportAllType DEF QueueInv, Pending
  <2> QED
    BY <1>i, <2>1, <2>2 DEF QueueInv, NoneQueued, AtRest, Pending
<1>6. CASE Finish
  <2>1. /\ pc' = "wait" /\ UNCHANGED <<cached, report>>
        /\ pc = "rest" \/ (pc = "act" /\ pass.todo = {})
    BY <1>6 DEF Finish, store
  <2>2. pass.retry => retryPending'
    BY <1>6 DEF Finish, Retry
  <2> QED
    BY <1>i, <2>1, <2>2 DEF QueueInv, NoneQueued, AtRest, Pending
<1>7. CASE Restart
  BY <1>i, <1>7, NoReportsType DEF Restart, QueueInv, NoneQueued, AtRest, Pending, NoReport
<1>8. CASE Write \/ Switch
  BY <1>i, <1>8, WriteStep, SwitchStep DEF QueueInv, NoneQueued, AtRest, Pending
<1>9. ASSUME NEW p \in Pools,
             Queue(p) \/ Refuse(p) \/ Confirm(p) \/ Patch(p) \/ PatchFails(p)
      PROVE  QueueInv' /\ NoneQueued'
  <2>1. PICK status \in {"pending", "done", "failed"} :
               Settles(p, status) /\ (status = "pending" => pass.halted)
    BY <1>9, SettlingStep
  <2>2. (pass.retry => pass'.retry) /\ (pass'.halted => pass.halted \/ pass'.retry)
    BY <1>9, SettlingStep
  <2>3. pc = "act" /\ pc' = "act" /\ p \in pass.todo /\ pass'.todo = pass.todo \ {p}
    BY <2>1 DEF Settles, Turn
  <2>4. /\ Pending(p)' => pass.halted
        /\ \A k \in Pools \ {p} : Pending(k)' <=> Pending(k)
    BY <2>1, ReportAllType DEF Settles, Pending
  <2>5. p \in InPass /\ (pass.halted => pass.retry)
    BY <2>3 DEF QueueInv
  <2>6. QueueInv'
    BY <1>i, <2>2, <2>3, <2>4, <2>5 DEF QueueInv
  <2> QED
    BY <2>3, <2>6 DEF NoneQueued, AtRest
<1> QED
  BY <1>1, <1>2, <1>3, <1>4, <1>5, <1>6, <1>7, <1>8, <1>9, StepCases

CompleteInv ==
  /\ DOMAIN applied = Pools
  /\ PassComplete
  /\ AtRest => AllDone(InPass)

\* A settled pool is done, or the pass asks for a re-run.
LEMMA SettledIsDone ==
  ASSUME TypeOK, QueueInv, DOMAIN applied = Pools, NEW p \in Pools,
         Queue(p) \/ Refuse(p) \/ Confirm(p) \/ Patch(p) \/ PatchFails(p)
  PROVE  /\ DOMAIN applied' = Pools /\ \A k \in Pools \ {p} : applied'[k] = applied[k]
         /\ pass'.retry \/ Refused(p) \/ applied'[p] = cached.revision
<1>1. CASE Queue(p)
  <2>1. applied' = applied /\ pass.halted /\ pc = "act"
    BY <1>1 DEF Queue, Turn
  <2>2. pass'.retry
    BY <1>1, <2>1, SettlingStep DEF QueueInv
  <2> QED
    BY <2>1, <2>2
<1>2. CASE Refuse(p)
  BY <1>2 DEF Refuse
<1>3. CASE Confirm(p) \/ Patch(p)
  <2>1. applied' = [applied EXCEPT ![p] = cached.revision]
    BY <1>3 DEF Confirm, Patch
  <2> QED
    BY <2>1
<1>4. CASE PatchFails(p)
  BY <1>4 DEF PatchFails, TypeOK, LoopType, Passes
<1> QED
  BY <1>1, <1>2, <1>3, <1>4

LEMMA CompleteStep ==
  ASSUME TypeOK, QueueInv, CompleteInv, [Next]_vars
  PROVE  CompleteInv'
<1>i. InPass' = InPass /\ InPass \subseteq Pools
  BY DEF InPass
<1> USE DEF CompleteInv, PassComplete, AtRest, AllDone, Refused
<1>1. CASE Polls
  <2>1. applied' = applied
    BY <1>1 DEF Polls, FetchDoc, FetchNotModified
  <2>2. CASE /\ pc = "poll" /\ pc' = "wait" /\ UNCHANGED <<cached, retryPending>>
    BY <1>i, <2>1, <2>2
  <2>3. CASE pc' = "scale"
    BY <2>1, <2>3
  <2>4. CASE pc' = "wait" /\ cached'.execution = {}
    BY <2>1, <2>4
  <2> QED
    BY <1>1, <2>2, <2>3, <2>4, PollStep DEF Reconcile
<1>2. CASE Idles
  <2>1. applied' = applied
    BY <1>2
       DEF Idles, FetchFails, FetchRejected, Wait, Rotate, SourceUpdate, ManualScale, vars
  <2>2. /\ UNCHANGED <<cached, retryPending, pass>>
        /\ pc' = pc \/ (pc' \in {"poll", "wait"} /\ pc \in {"poll", "wait"})
    BY <1>2, IdleStep
  <2>3. CASE pc' = pc
    BY <1>i, <2>1, <2>2, <2>3
  <2>4. CASE pc' \in {"poll", "wait"} /\ pc \in {"poll", "wait"}
    BY <1>i, <2>1, <2>2, <2>4
  <2> QED
    BY <2>2, <2>3, <2>4
<1>3. CASE SkipScaling \/ List \/ ListFails
  <2>1. applied' = applied /\ (pc' = "rest" \/ (pc' = "act" /\ pass'.todo = InPass))
    BY <1>3 DEF SkipScaling, List, ListFails, TypeOK, LoopType, Passes
  <2>2. pc' = "act" => AllDone(InPass \ pass.todo)'
    BY <1>i, <2>1 DEF AllDone
  <2> QED
    BY <2>1, <2>2
<1>4. CASE Finish
  <2>1. pc' = "wait" /\ UNCHANGED <<cached, applied>>
    BY <1>4 DEF Finish
  <2>2. pass.retry => retryPending'
    BY <1>4 DEF Finish, Retry
  <2>3. CASE pc = "rest"
    BY <2>1, <2>2, <2>3 DEF QueueInv
  <2>4. CASE pc = "act" /\ pass.todo = {}
    <3>1. ~pass.retry => AllDone(InPass)
      BY <2>4 DEF AllDone
    <3> QED
      BY <1>i, <2>1, <2>2, <3>1
  <2> QED
    BY <1>4, <2>3, <2>4 DEF Finish
<1>5. CASE Restart
  BY <1>5 DEF Restart, NoDoc
<1>6. CASE Write \/ Switch
  <2>1. applied' = applied
    BY <1>6 DEF Write, Switch
  <2>2. UNCHANGED <<cached, retryPending, pc, pass>>
    BY <1>6, WriteStep, SwitchStep
  <2> QED
    BY <1>i, <2>1, <2>2
<1>7. ASSUME NEW p \in Pools,
             Queue(p) \/ Refuse(p) \/ Confirm(p) \/ Patch(p) \/ PatchFails(p)
      PROVE  CompleteInv'
  <2>1. /\ pc = "act" /\ pc' = "act" /\ pass'.todo = pass.todo \ {p} /\ cached' = cached
        /\ pass.retry => pass'.retry
    BY <1>7, SettlingStep DEF Settles, Turn
  <2>2. /\ DOMAIN applied' = Pools /\ \A k \in Pools \ {p} : applied'[k] = applied[k]
        /\ pass'.retry \/ Refused(p) \/ applied'[p] = cached.revision
    BY <1>7, SettledIsDone
  <2>3. \A k \in Pools : Refused(k)' <=> Refused(k)
    BY <2>1 DEF Refused
  <2>4. ~pass'.retry => AllDone(InPass \ pass.todo)'
    <3> SUFFICES ASSUME ~pass'.retry PROVE AllDone(InPass \ pass.todo)'
      OBVIOUS
    <3>1. AllDone(InPass \ pass.todo)
      BY <2>1
    <3>2. \A k \in InPass \ pass'.todo : k = p \/ k \in InPass \ pass.todo
      BY <2>1
    <3>3. \A k \in InPass \ pass'.todo : Refused(k) \/ applied'[k] = cached'.revision
      BY <1>i, <2>1, <2>2, <3>1, <3>2 DEF AllDone
    <3> QED
      BY <1>i, <2>3, <3>3 DEF AllDone
  <2> QED
    BY <2>1, <2>2, <2>4
<1> QED
  BY <1>1, <1>2, <1>3, <1>4, <1>5, <1>6, <1>7, StepCases

\* The loop never rests on a document it has not carried out: while scaling is on and
\* no re-run is pending, no pool is queued and each was seen at, or set to, the
\* replicas of the revision held, for every order of failures, switches and restarts
\* and every answer of the other passes.
THEOREM UndoneComesBack == Spec => []UndoneIsRetried
<1>1. Init => QueueInv /\ NoneQueued
  BY NoReportsType DEF Init, QueueInv, NoneQueued, Pending, NoReport
<1>2. Init => CompleteInv
  BY DEF Init, CompleteInv, PassComplete, AtRest, NoDoc
<1>3. NoneQueued /\ CompleteInv => UndoneIsRetried
  BY DEF NoneQueued, CompleteInv, AtRest, AllDone, Pending, UndoneIsRetried
<1> QED
  BY <1>1, <1>2, <1>3, QueueStep, CompleteStep, TypeCorrect, PTL DEF Spec

-----------------------------------------------------------------------------
(* Refinement.                                                             *)

ScalingInv == applied \in [Pools -> Int] /\ HeldIsNewest

LEMMA NoDocIsNone == NoDoc.execution = {} /\ NoDoc.revision = -1 /\ \A d \in Docs : d # NoDoc
BY DEF NoDoc, Docs

\* The steps of a pass that write no replicas and settle none.
Quiet ==
  /\ UNCHANGED <<doc, cached, spec, applied, manuals>>
  /\ pass'.list \in {pass.list, spec, NoList}
  /\ pc' = "act" => "scaling" \in cached.execution /\ DOMAIN pass'.list = Pools

LEMMA QuietStep ==
  ASSUME TypeOK, HeldIsNewest,
         \/ FetchNotModified \/ FetchFails \/ FetchRejected \/ Wait \/ Rotate \/ SourceUpdate
         \/ SkipScaling \/ List \/ ListFails \/ Finish \/ UNCHANGED vars
         \/ \E p \in Pools : Queue(p) \/ Refuse(p)
  PROVE  Quiet
<1> USE DEF Quiet, HeldIsNewest, server, client, poller, bounds
<1>1. CASE FetchNotModified
  <2>1. UNCHANGED pass \/ pass' = NoPass
    BY <1>1 DEF FetchNotModified, Reconcile
  <2>2. pc' # "act" /\ UNCHANGED <<doc, cached, spec, applied, manuals>>
    BY <1>1 DEF FetchNotModified, Reconcile
  <2> QED
    BY <2>1, <2>2 DEF NoPass
<1>2. CASE FetchFails \/ FetchRejected \/ Wait \/ Rotate \/ SourceUpdate \/ UNCHANGED vars
  BY <1>2 DEF FetchFails, FetchRejected, Wait, Rotate, SourceUpdate, vars
<1>3. CASE SkipScaling \/ Finish
  BY <1>3 DEF SkipScaling, Finish, NoPass
<1>4. CASE List
  BY <1>4 DEF List, TypeOK, LoopType, Passes
<1>5. CASE ListFails
  BY <1>5 DEF ListFails, TypeOK, LoopType, Passes
<1>6. ASSUME NEW p \in Pools, Queue(p) \/ Refuse(p) PROVE Quiet
  BY <1>6 DEF Queue, Refuse, Turn, TypeOK, LoopType, Passes
<1> QED
  BY <1>1, <1>2, <1>3, <1>4, <1>5, <1>6

\* Each step of the loop is a step of Scaling, or leaves its state alone.
LEMMA StepScales ==
  ASSUME TypeOK, CacheInv, ScalingInv, [Next]_vars
  PROVE  [S!Next]_(S!scalingVars) /\ ScalingInv'
<1> USE DEF S!Next, S!scalingVars, ScalingInv, HeldIsNewest
<1>1. CASE Quiet
  BY <1>1 DEF Quiet, S!Look, S!Unread, NoList
<1>2. CASE FetchDoc
  <2>1. UNCHANGED pass \/ pass' = NoPass
    BY <1>2 DEF FetchDoc, Reconcile
  <2>2. pc' # "act" /\ cached' = doc /\ UNCHANGED <<doc, spec, applied, manuals>>
    BY <1>2 DEF FetchDoc, Reconcile, server, bounds
  <2>3. S!Fetch
    BY <2>1, <2>2 DEF S!Fetch, S!Unread, NoPass, NoList
  <2> QED
    BY <2>2, <2>3
<1>3. CASE ManualScale
  <2>1. /\ manuals' = manuals + 1
        /\ \E p \in Pools : \A k \in Pools \ {p} : spec'[k] = spec[k]
        /\ UNCHANGED <<doc, cached, pass, pc, applied>>
    BY <1>3 DEF ManualScale, server, poller, TypeOK, LoopType
  <2>2. S!Interfere
    BY <2>1 DEF S!Interfere
  <2> QED
    BY <2>1, <2>2
<1>4. CASE Restart
  <2>1. /\ cached' = NoDoc /\ pass'.list = NoList /\ pc' = "poll"
        /\ UNCHANGED <<doc, spec, applied, manuals>>
    BY <1>4 DEF Restart, server, NoPass
  <2>2. S!Crash
    BY <2>1 DEF S!Crash, S!Unread, NoList
  <2> QED
    BY <2>1, <2>2
<1>5. CASE Write \/ Switch
  <2>1. UNCHANGED <<applied, manuals>>
    BY <1>5 DEF Write, Switch, bounds
  <2>2. /\ doc'.revision >= doc.revision /\ doc'.revision \in Int
        /\ doc'.revision = doc.revision => doc'.want = doc.want
        /\ UNCHANGED <<cached, pc, pass, spec>>
    BY <1>5, WriteStep, SwitchStep, CachedRevision DEF TypeOK
  <2>3. S!Publish
    BY <2>1, <2>2 DEF S!Publish
  <2>4. \A p \in Pools : applied[p] <= doc'.revision
    BY <2>2, CachedRevision DEF TypeOK
  <2> QED
    BY <2>1, <2>2, <2>3, <2>4
<1>6. ASSUME NEW p \in Pools, Confirm(p) \/ Patch(p) \/ PatchFails(p)
      PROVE  [S!Next]_(S!scalingVars) /\ ScalingInv'
  <2>1. /\ "scaling" \in cached.execution /\ cached # NoDoc /\ p \in DOMAIN pass.list
        /\ applied[p] <= cached.revision /\ cached.revision <= doc.revision
    BY <1>6, NoDocIsNone DEF Confirm, Patch, PatchFails, Turn, CacheInv
  <2>2. p \notin Refusing /\ cached.want[p] \in 0..MaxReplicas
    BY <1>6, CachedWant, PoolsAssumption DEF Confirm, Patch, PatchFails, Refused
  <2>3. S!Permits(p)
    BY <2>1, <2>2 DEF S!Permits
  <2>4. /\ pass'.list = pass.list /\ UNCHANGED <<doc, cached, pc, manuals>>
        /\ applied' \in {applied, [applied EXCEPT ![p] = cached.revision]}
    BY <1>6 DEF Confirm, Patch, PatchFails, server, poller, bounds, TypeOK, LoopType, Passes
  <2>5. ScalingInv'
    BY <2>1, <2>4, CachedRevision DEF TypeOK
  <2>6. Confirm(p) => S!Confirm(p)
    BY <2>3, <2>4 DEF Confirm, Converged, S!Confirm
  <2>7. (Patch(p) \/ PatchFails(p)) /\ spec' = [spec EXCEPT ![p] = cached.want[p]] => S!Apply(p)
    BY <2>3, <2>4 DEF Patch, PatchFails, Converged, S!Apply
  <2>8. PatchFails(p) /\ UNCHANGED spec => UNCHANGED S!scalingVars
    BY <2>4 DEF PatchFails
  <2>9. S!Apply(p) \/ S!Confirm(p) \/ UNCHANGED S!scalingVars
    <3>1. Patch(p) => spec' = [spec EXCEPT ![p] = cached.want[p]]
      BY DEF Patch
    <3>2. PatchFails(p) => spec' = [spec EXCEPT ![p] = cached.want[p]] \/ UNCHANGED spec
      BY DEF PatchFails
    <3> HIDE DEF S!scalingVars
    <3> QED
      BY <1>6, <2>6, <2>7, <2>8, <3>1, <3>2
  <2> QED
    BY <2>5, <2>9
<1> QED
  BY <1>1, <1>2, <1>3, <1>4, <1>5, <1>6, QuietStep DEF Next, Agent

\* Every behaviour of the loop is one that Scaling allows: whatever is scaled was
\* published, is permitted and within the limits, and no older revision follows a
\* newer one.
THEOREM ScalesSafely == Spec => ScalesAsPromised
<1>1. Init => ScalingInv /\ CacheInv /\ S!Init
  <2>1. Init => ScalingInv
    BY DEF Init, ScalingInv, HeldIsNewest
  <2>2. Init => CacheInv
    BY DEF Init, CacheInv, NoDoc
  <2>3. Init => S!Init
    BY DEF Init, S!Init, S!Unread, NoPass, NoList
  <2> QED
    BY <2>1, <2>2, <2>3
<1>2. TypeOK /\ CacheInv /\ ScalingInv /\ [Next]_vars
        => [S!Next]_(S!scalingVars) /\ ScalingInv' /\ CacheInv'
  BY StepScales, CacheStep
<1> QED
  BY <1>1, <1>2, TypeCorrect, PTL DEF Spec, ScalesAsPromised, S!Spec
=============================================================================
