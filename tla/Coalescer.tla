------------------------------ MODULE Coalescer ------------------------------
(***************************************************************************)
(* The cadence of heartbeats: publisher.Coalescer (internal/publisher/     *)
(* debounce.go), the change channel that wakes it and the flush that       *)
(* builds a payload from the agent's stores (internal/agent/agent.go).     *)
(*                                                                         *)
(* A store stands for an informer cache or one of the stores the payload   *)
(* is built from; its state is a version number.  Whoever changes a store  *)
(* signals afterwards, without blocking.  The flush reads one store after  *)
(* the other while they go on changing.                                    *)
(*                                                                         *)
(* Time is an integer clock.  The Coalescer is prompt: the clock does not  *)
(* pass a timer that is due or a signal that is pending while it waits in  *)
(* its select, and a flush takes at most MaxFlush.                         *)
(***************************************************************************)
EXTENDS Integers

CONSTANTS
  Stores,        \* what a payload is built from
  FullInterval, Debounce, MinGap, \* Cadence
  MaxFlush,      \* the longest a flush takes
  MaxChanges,    \* bound of the model: changes of a store
  MaxClock       \* bound of the model: the clock stops here

ASSUME CadenceAssumption ==
  /\ FullInterval \in Nat \ {0} /\ Debounce \in Nat /\ MinGap \in Nat
  /\ MaxFlush \in Nat /\ MaxChanges \in Nat /\ MaxClock \in Nat

VARIABLES
  clock,
  version,     \* store -> version of its present content
  unsignalled, \* stores that changed and whose signal is still to be sent
  changes,     \* the change channel: capacity one
  pc,          \* where Run is: "select" or "flush"
  timer,       \* when the timer fires
  dirtySince, lastPush, lastFull, \* locals of Run
  now,         \* the time Run read before it decided to flush
  draft,       \* store -> version in the payload under construction, or Unread
  sent,        \* store -> version in the newest payload handed to the Sender
  oldest       \* history: store -> when its oldest change in no payload happened

stores == <<version, unsignalled, oldest>>
locals == <<dirtySince, lastPush, lastFull>>
vars == <<clock, stores, changes, pc, timer, locals, now, draft, sent>>

Zero == -(FullInterval + Debounce + MinGap + 1) \* Go's zero time: long ago
Unread == -1
NoDraft == [s \in Stores |-> Unread]

Later(a, b) == IF a > b THEN a ELSE b

-----------------------------------------------------------------------------
(* decide.                                                                 *)

PeriodicDue == Later(lastFull + FullInterval, lastPush + MinGap)

\* Mutant of ChangeDue: a change only has to settle.
ChangeDueDebounced(since) == since + Debounce
ChangeDue(since) == Later(since + Debounce, lastPush + MinGap)

\* The earliest due time; a change that is due comes before the period.
Due(since) ==
  IF since # Zero /\ (ChangeDue(since) < PeriodicDue \/ ChangeDue(since) <= clock)
  THEN ChangeDue(since) ELSE PeriodicDue

\* Push now, or set the timer to the time it is due.
Decide(since) ==
  \/ /\ Due(since) <= clock
     /\ pc' = "flush" /\ now' = clock
     /\ UNCHANGED timer
  \/ /\ Due(since) > clock
     /\ timer' = Due(since)
     /\ UNCHANGED <<pc, now>>

-----------------------------------------------------------------------------
Init ==
  /\ clock = 0
  /\ version = [s \in Stores |-> 1]
  /\ unsignalled = {} /\ changes = FALSE
  /\ pc = "select" /\ timer = 0
  /\ dirtySince = Zero /\ lastPush = Zero /\ lastFull = Zero
  /\ now = 0
  /\ draft = NoDraft
  /\ sent = [s \in Stores |-> 0]
  /\ oldest = [s \in Stores |-> 0]

\* The newest payload, or the one under construction, shows what s holds.
Covered(s) == version[s] \in {sent[s], draft[s]}

\* An informer's cache or a store changes ...
Change(s) ==
  /\ version[s] <= MaxChanges /\ s \notin unsignalled
  /\ version' = [version EXCEPT ![s] = @ + 1]
  /\ unsignalled' = unsignalled \cup {s}
  /\ oldest' = [oldest EXCEPT ![s] = IF Covered(s) THEN clock ELSE @]
  /\ UNCHANGED <<clock, changes, pc, timer, locals, now, draft, sent>>

\* ... and then signals: a signal that is already pending is enough.
Signal(s) ==
  /\ s \in unsignalled
  /\ unsignalled' = unsignalled \ {s}
  /\ changes' = TRUE
  /\ UNCHANGED <<clock, version, oldest, pc, timer, locals, now, draft, sent>>

\* Mutant of DirtySince: every change starts the debounce anew.
DirtySinceLatest == clock
DirtySince == IF dirtySince = Zero THEN clock ELSE dirtySince

\* Run takes a signal from the channel, or its timer fires.
TakeChange ==
  /\ pc = "select" /\ changes
  /\ changes' = FALSE
  /\ dirtySince' = DirtySince
  /\ Decide(DirtySince)
  /\ UNCHANGED <<clock, stores, lastPush, lastFull, draft, sent>>

TimerFires ==
  /\ pc = "select" /\ timer <= clock
  /\ Decide(dirtySince)
  /\ UNCHANGED <<clock, stores, changes, locals, draft, sent>>

\* flush: the snapshot of one store after the other, in any order.
Snapshot(s) ==
  /\ pc = "flush" /\ draft[s] = Unread
  /\ draft' = [draft EXCEPT ![s] = version[s]]
  /\ UNCHANGED <<clock, stores, changes, pc, timer, locals, now, sent>>

\* Mutant of Pushed: signals that came during the flush are thrown away.
PushedDrained == changes' = FALSE /\ dirtySince' = Zero /\ lastPush' = now /\ lastFull' = now
Pushed == dirtySince' = Zero /\ lastPush' = now /\ lastFull' = now /\ UNCHANGED changes

\* Mutant of NextTimer: the gap is added to the interval.
NextTimerAfterGap == clock + MinGap + FullInterval
NextTimer == clock + FullInterval

\* The payload is handed to the Sender and the flush returns.
Enqueue ==
  /\ pc = "flush" /\ \A s \in Stores : draft[s] # Unread
  /\ sent' = draft /\ draft' = NoDraft
  /\ Pushed
  /\ timer' = NextTimer
  /\ pc' = "select"
  /\ UNCHANGED <<clock, stores, now>>

Tick ==
  /\ clock < MaxClock
  /\ \/ pc = "select" /\ ~changes /\ clock < timer
     \/ pc = "flush" /\ clock < now + MaxFlush
  /\ unsignalled = {}
  /\ clock' = clock + 1
  /\ UNCHANGED <<stores, changes, pc, timer, locals, now, draft, sent>>

Next ==
  \/ TakeChange \/ TimerFires \/ Enqueue \/ Tick
  \/ \E s \in Stores : Change(s) \/ Signal(s) \/ Snapshot(s)

Spec == Init /\ [][Next]_vars

-----------------------------------------------------------------------------
(* Properties.                                                             *)

\* No change is lost: what the newest payload does not show is signalled or will
\* be, whenever during a flush it happened.
NoChangeLost ==
  \A s \in Stores : version[s] # sent[s] =>
    \/ s \in unsignalled \/ changes
    \/ dirtySince # Zero /\ pc = "select"
    \/ pc = "flush" /\ draft[s] \in {Unread, version[s]}
    \/ lastPush = Zero

\* MinGap is the floor between any two pushes (debounce.go:17), counted from the
\* time each of them was decided.
MinGapKept == [][ lastPush' # lastPush /\ lastPush # Zero => lastPush' - lastPush >= MinGap ]_vars

\* FullInterval forces a push at least this often (debounce.go:11): while no
\* flush runs, the last one is never older, or MinGap where that is longer.
PushedOften == pc = "select" /\ lastPush # Zero =>
  clock - lastPush <= Later(FullInterval, MinGap) + MaxFlush

\* No burst of changes starves the push: a change is in a payload as soon as it
\* settled and MinGap allows, two flushes and the one it came during apart.
ChangesAreTimely ==
  \A s \in Stores : ~Covered(s) =>
    clock - oldest[s] <= Later(Debounce, MinGap) + 2 * MaxFlush
=============================================================================
