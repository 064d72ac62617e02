--------------------------- MODULE CoalescerProofs ---------------------------
(***************************************************************************)
(* Theorems about Coalescer for every set of stores, every interval,       *)
(* debounce and gap (zero included), and any number of changes.            *)
(***************************************************************************)
EXTENDS Coalescer, TLAPS

-----------------------------------------------------------------------------
(* Types.                                                                  *)

TypeOK ==
  /\ clock \in Nat /\ now \in Nat /\ timer \in Int
  /\ version \in [Stores -> Nat] /\ sent \in [Stores -> Nat] /\ oldest \in [Stores -> Nat]
  /\ draft \in [Stores -> Nat \cup {Unread}]
  /\ unsignalled \subseteq Stores /\ changes \in BOOLEAN
  /\ pc \in {"select", "flush"}
  /\ dirtySince \in Nat \cup {Zero} /\ lastPush \in Nat \cup {Zero}
  /\ lastFull = lastPush

LEMMA ZeroIsPast ==
  /\ Zero \in Int /\ Zero < 0 /\ Zero + FullInterval < 0 /\ Zero + MinGap < 0
  /\ Zero + Debounce < 0 /\ Zero \notin Nat
BY CadenceAssumption DEF Zero

\* What decide leads to, in one formula.
LEMMA DecideCases ==
  ASSUME TypeOK, NEW since \in Nat \cup {Zero}, Decide(since)
  PROVE  \/ Due(since) <= clock /\ pc' = "flush" /\ now' = clock /\ timer' = timer
         \/ Due(since) > clock /\ pc' = pc /\ now' = now /\ timer' = Due(since)
BY DEF Decide

LEMMA DueType ==
  ASSUME TypeOK, NEW since \in Nat \cup {Zero}
  PROVE  Due(since) \in Int /\ lastPush + MinGap <= Due(since)
BY CadenceAssumption, ZeroIsPast DEF TypeOK, Due, ChangeDue, PeriodicDue, Later

THEOREM TypeCorrect == Spec => []TypeOK
<1>1. Init => TypeOK
  <2>1. Init => changes \in BOOLEAN /\ unsignalled \subseteq Stores /\ pc \in {"select", "flush"}
    BY Zenon DEF Init
  <2>2. Init => /\ version \in [Stores -> Nat] /\ sent \in [Stores -> Nat]
                /\ oldest \in [Stores -> Nat]
    BY DEF Init
  <2>3. Init => draft \in [Stores -> Nat \cup {Unread}]
    BY Zenon DEF Init, NoDraft
  <2>4. Init => /\ clock \in Nat /\ now \in Nat /\ timer \in Int
                /\ dirtySince = Zero /\ lastPush = Zero /\ lastFull = lastPush
    BY DEF Init
  <2> QED
    BY <2>1, <2>2, <2>3, <2>4 DEF TypeOK
<1>2. ASSUME TypeOK, [Next]_vars PROVE TypeOK'
  <2>1. CASE TakeChange
    <3>1. DirtySince \in Nat
      BY <1>2 DEF TypeOK, DirtySince
    <3> QED
      BY <1>2, <2>1, <3>1, DecideCases, DueType DEF TypeOK, TakeChange, stores
  <2>2. CASE TimerFires
    <3>1. dirtySince \in Nat \cup {Zero} /\ Decide(dirtySince)
      BY <1>2, <2>2 DEF TypeOK, TimerFires
    <3> QED
      BY <1>2, <2>2, <3>1, DecideCases, DueType DEF TypeOK, TimerFires, stores, locals
  <2>3. CASE Enqueue
    BY <1>2, <2>3, CadenceAssumption DEF TypeOK, Enqueue, Pushed, NextTimer, NoDraft, stores
  <2>4. CASE Tick
    BY <1>2, <2>4 DEF TypeOK, Tick, stores, locals
  <2>5. ASSUME NEW s \in Stores, Change(s) PROVE TypeOK'
    BY <1>2, <2>5 DEF TypeOK, Change, locals
  <2>6. ASSUME NEW s \in Stores, Signal(s) PROVE TypeOK'
    BY <1>2, <2>6 DEF TypeOK, Signal, locals
  <2>7. ASSUME NEW s \in Stores, Snapshot(s) PROVE TypeOK'
    BY <1>2, <2>7 DEF TypeOK, Snapshot, stores, locals
  <2>8. CASE UNCHANGED vars
    BY <1>2, <2>8 DEF TypeOK, vars, stores, locals
  <2> QED
    BY <1>2, <2>1, <2>2, <2>3, <2>4, <2>5, <2>6, <2>7, <2>8 DEF Next
<1> QED
  BY <1>1, <1>2, PTL DEF Spec

-----------------------------------------------------------------------------
(* No change is lost.                                                      *)

\* A flush starts from nothing, and what it read and is no longer true is
\* signalled or will be.
DraftInv ==
  /\ pc = "select" => draft = NoDraft
  /\ pc = "flush" => \A s \in Stores :
       draft[s] \in {Unread, version[s]} \/ s \in unsignalled \/ changes

\* The time a flush was decided is not the zero time.
LEMMA LossStep ==
  ASSUME TypeOK, DraftInv, NoChangeLost, [Next]_vars
  PROVE  DraftInv' /\ NoChangeLost'
<1>1. CASE TakeChange
  <2>1. DirtySince \in Nat /\ dirtySince' # Zero /\ draft' = draft /\ draft = NoDraft
    BY <1>1, ZeroIsPast DEF TypeOK, TakeChange, DirtySince, DraftInv
  <2>2. pc' \in {"select", "flush"} /\ UNCHANGED <<version, sent, unsignalled>>
    BY <1>1, <2>1, DecideCases DEF TakeChange, stores
  <2> QED
    BY <2>1, <2>2 DEF DraftInv, NoChangeLost, NoDraft
<1>2. CASE TimerFires
  <2>1. UNCHANGED <<version, sent, unsignalled, changes, dirtySince, lastPush, draft>>
    BY <1>2 DEF TimerFires, stores, locals
  <2>2. draft = NoDraft /\ pc = "select" /\ pc' \in {"select", "flush"}
    BY <1>2 DEF TimerFires, DraftInv, Decide
  <2> QED
    BY <2>1, <2>2 DEF DraftInv, NoChangeLost, NoDraft
<1>3. CASE Enqueue
  <2>1. \A s \in Stores : draft[s] = version[s] \/ s \in unsignalled \/ changes
    BY <1>3 DEF Enqueue, DraftInv
  <2>2. UNCHANGED <<version, unsignalled, changes>> /\ sent' = draft /\ draft' = NoDraft
    BY <1>3 DEF Enqueue, Pushed, stores
  <2>3. pc' = "select"
    BY <1>3 DEF Enqueue
  <2> QED
    BY <2>1, <2>2, <2>3 DEF DraftInv, NoChangeLost
<1>4. CASE Tick \/ UNCHANGED vars
  <2>1. UNCHANGED <<version, sent, unsignalled, changes, dirtySince, lastPush, draft, pc>>
    BY <1>4 DEF Tick, vars, stores, locals
  <2> QED
    BY <2>1 DEF DraftInv, NoChangeLost
<1>5. ASSUME NEW s \in Stores, Change(s) PROVE DraftInv' /\ NoChangeLost'
  <2>1. /\ UNCHANGED <<sent, changes, dirtySince, lastPush, draft, pc>>
        /\ unsignalled' = unsignalled \cup {s}
        /\ \A t \in Stores \ {s} : version'[t] = version[t]
    BY <1>5 DEF TypeOK, Change, locals
  <2> QED
    BY <2>1 DEF DraftInv, NoChangeLost
<1>6. ASSUME NEW s \in Stores, Signal(s) PROVE DraftInv' /\ NoChangeLost'
  <2>1. UNCHANGED <<draft, pc>> /\ changes' = TRUE
    BY <1>6 DEF Signal
  <2> QED
    BY <2>1 DEF DraftInv, NoChangeLost
<1>7. ASSUME NEW s \in Stores, Snapshot(s) PROVE DraftInv' /\ NoChangeLost'
  <2>1. /\ UNCHANGED <<version, sent, unsignalled, changes, dirtySince, lastPush, pc>>
        /\ pc = "flush" /\ draft'[s] = version[s]
        /\ \A t \in Stores \ {s} : draft'[t] = draft[t]
    BY <1>7 DEF TypeOK, Snapshot, stores, locals
  <2> QED
    BY <2>1 DEF DraftInv, NoChangeLost
<1> QED
  BY <1>1, <1>2, <1>3, <1>4, <1>5, <1>6, <1>7 DEF Next

\* Whenever a store changes, before, during or after the reads of a flush, a
\* signal or a dirty mark is left for what the newest payload does not show.
THEOREM NothingLost == Spec => [](DraftInv /\ NoChangeLost)
<1>1. Init => DraftInv /\ NoChangeLost
  BY DEF Init, DraftInv, NoChangeLost
<1> QED
  BY <1>1, LossStep, TypeCorrect, PTL DEF Spec

-----------------------------------------------------------------------------
(* The cadence.                                                            *)

\* A flush was decided when it was due and is not older than MaxFlush; while none
\* runs, the timer is set and the clock stopped before the period is over.
Period == Later(FullInterval, MinGap) + MaxFlush

FlushInv ==
  pc = "flush" => now - lastPush >= MinGap /\ now <= clock /\ clock <= now + MaxFlush

PeriodInv ==
  /\ pc = "select" /\ lastPush # Zero => timer <= lastPush + Period /\ clock <= lastPush + Period
  /\ lastPush # Zero => now + MaxFlush >= lastPush /\ lastPush <= clock

CadenceInv == FlushInv /\ PeriodInv

LEMMA DueLatest ==
  ASSUME TypeOK, NEW since \in Nat \cup {Zero}, Due(since) > clock, lastPush # Zero
  PROVE  Due(since) <= lastPush + Period
BY CadenceAssumption, ZeroIsPast DEF TypeOK, Due, ChangeDue, PeriodicDue, Later, Period

LEMMA DecideKeepsCadence ==
  ASSUME TypeOK, CadenceInv, NEW since \in Nat \cup {Zero}, Decide(since), pc = "select",
         UNCHANGED <<clock, lastPush>>
  PROVE  CadenceInv'
<1>1. CASE Due(since) <= clock /\ pc' = "flush" /\ now' = clock /\ timer' = timer
  <2>1. clock - lastPush >= MinGap
    BY <1>1, DueType, CadenceAssumption, ZeroIsPast DEF TypeOK
  <2> QED
    BY <1>1, <2>1, CadenceAssumption, ZeroIsPast DEF TypeOK, CadenceInv, FlushInv, PeriodInv
<1>2. CASE Due(since) > clock /\ pc' = pc /\ now' = now /\ timer' = Due(since)
  BY <1>2, DueLatest DEF CadenceInv, FlushInv, PeriodInv, Period
<1> QED
  BY <1>1, <1>2, DecideCases

LEMMA CadenceStep ==
  ASSUME TypeOK, CadenceInv, [Next]_vars
  PROVE  /\ CadenceInv'
         /\ lastPush' # lastPush => lastPush' - lastPush >= MinGap
<1>1. CASE TakeChange
  <2>1. DirtySince \in Nat /\ Decide(DirtySince) /\ pc = "select"
    BY <1>1 DEF TypeOK, TakeChange, DirtySince
  <2>2. UNCHANGED <<clock, lastPush>>
    BY <1>1 DEF TakeChange
  <2> QED
    BY <2>1, <2>2, DecideKeepsCadence
<1>2. CASE TimerFires
  BY <1>2, DecideKeepsCadence DEF TypeOK, TimerFires, locals
<1>3. CASE Enqueue
  <2>1. /\ pc = "flush" /\ pc' = "select" /\ lastPush' = now /\ UNCHANGED <<clock, now>>
        /\ timer' = clock + FullInterval
    BY <1>3 DEF Enqueue, Pushed, NextTimer
  <2>2. now - lastPush >= MinGap /\ now <= clock /\ clock <= now + MaxFlush
    BY <2>1 DEF CadenceInv, FlushInv
  <2>3. Later(FullInterval, MinGap) \in Nat /\ FullInterval <= Later(FullInterval, MinGap)
    BY CadenceAssumption DEF Later
  <2> QED
    BY <2>1, <2>2, <2>3, CadenceAssumption DEF TypeOK, CadenceInv, FlushInv, PeriodInv, Period
<1>4. CASE Tick
  <2>1. UNCHANGED <<pc, timer, lastPush, now>> /\ clock' = clock + 1
    BY <1>4 DEF Tick, locals
  <2>2. pc = "select" => clock < timer
    BY <1>4 DEF Tick
  <2>3. pc = "flush" => clock < now + MaxFlush
    BY <1>4 DEF Tick
  <2>4. FlushInv'
    BY <2>1, <2>3, CadenceAssumption DEF TypeOK, CadenceInv, FlushInv
  <2>5. PeriodInv'
    <3>1. Period \in Nat
      BY CadenceAssumption DEF Period, Later
    <3> QED
      BY <2>1, <2>2, <3>1, CadenceAssumption, ZeroIsPast DEF TypeOK, CadenceInv, PeriodInv, Period
  <2> QED
    BY <2>1, <2>4, <2>5 DEF CadenceInv
<1>5. CASE UNCHANGED vars \/ \E s \in Stores : Change(s) \/ Signal(s) \/ Snapshot(s)
  <2>1. UNCHANGED <<pc, timer, lastPush, now, clock>>
    BY <1>5 DEF vars, stores, locals, Change, Signal, Snapshot
  <2> QED
    BY <2>1 DEF CadenceInv, FlushInv, PeriodInv, Period
<1> QED
  BY <1>1, <1>2, <1>3, <1>4, <1>5 DEF Next

\* MinGap is the floor between the decisions of any two pushes, whatever the
\* interval and the debounce are.
THEOREM GapKept == Spec => MinGapKept
<1>1. Init => CadenceInv
  <2>1. Period \in Nat
    BY CadenceAssumption DEF Period, Later
  <2> QED
    BY <2>1 DEF Init, CadenceInv, FlushInv, PeriodInv
<1>2. TypeOK /\ CadenceInv /\ [Next]_vars =>
        [lastPush' # lastPush /\ lastPush # Zero => lastPush' - lastPush >= MinGap]_vars
  BY CadenceStep
<1> QED
  BY <1>1, <1>2, CadenceStep, TypeCorrect, PTL DEF Spec, MinGapKept

\* Between flushes the newest payload is never older than the period, the gap
\* where that is longer, and the time its own flush took.
THEOREM OftenPushed == Spec => [](CadenceInv /\ PushedOften)
<1>1. Init => CadenceInv
  <2>1. Period \in Nat
    BY CadenceAssumption DEF Period, Later
  <2> QED
    BY <2>1 DEF Init, CadenceInv, FlushInv, PeriodInv
<1>2. TypeOK /\ CadenceInv => PushedOften
  <2>1. Period \in Nat
    BY CadenceAssumption DEF Period, Later
  <2> QED
    BY <2>1, ZeroIsPast DEF TypeOK, CadenceInv, PeriodInv, PushedOften, Period
<1> QED
  BY <1>1, <1>2, CadenceStep, TypeCorrect, PTL DEF Spec

-----------------------------------------------------------------------------
(* Changes are timely.                                                     *)

\* How long a change that was signalled waits for a flush.
Wait == Later(Debounce, MinGap)

VersionInv ==
  \A s \in Stores :
    /\ sent[s] <= version[s] /\ oldest[s] <= clock
    /\ draft[s] # Unread => sent[s] <= draft[s] /\ draft[s] <= version[s]

\* The first flush is immediate.
FirstInv == lastPush = Zero => timer = 0 /\ now = 0 /\ (pc = "select" => clock = 0)

\* The timer of a dirty agent.
DirtyInv ==
  /\ dirtySince # Zero => lastPush <= dirtySince /\ dirtySince <= clock
  /\ pc = "select" /\ dirtySince # Zero =>
       lastPush # Zero /\ timer <= dirtySince + Wait /\ clock <= dirtySince + Wait

\* A change waits to be noticed for no longer than the flush that missed it.
Noticed(s) ==
  \/ dirtySince # Zero /\ dirtySince <= oldest[s] + MaxFlush
  \/ (s \in unsignalled \/ changes) /\ clock <= oldest[s] + MaxFlush

WaitingInv ==
  pc = "select" /\ lastPush # Zero => \A s \in Stores : ~Covered(s) => Noticed(s)

\* What a flush does not show yet happened during it, or is still to be read.
MissedInv ==
  pc = "flush" => \A s \in Stores : ~Covered(s) =>
    \/ oldest[s] >= now
    \/ draft[s] = Unread /\ now <= oldest[s] + MaxFlush + Wait

TimelyInv == VersionInv /\ FirstInv /\ DirtyInv /\ WaitingInv /\ MissedInv

\* The other invariants the argument uses.
Known == TypeOK /\ DraftInv /\ NoChangeLost /\ CadenceInv

LEMMA WaitType == Wait \in Nat /\ Debounce <= Wait /\ MinGap <= Wait
BY CadenceAssumption DEF Wait, Later

LEMMA FirstIsDue ==
  ASSUME TypeOK, lastPush = Zero, NEW since \in Nat \cup {Zero}
  PROVE  Due(since) <= clock
BY CadenceAssumption, ZeroIsPast DEF TypeOK, Due, ChangeDue, PeriodicDue, Later

LEMMA DueOfDirty ==
  ASSUME TypeOK, NEW since \in Nat, lastPush <= since, Due(since) > clock
  PROVE  Due(since) <= since + Wait
BY CadenceAssumption, ZeroIsPast DEF TypeOK, Due, ChangeDue, PeriodicDue, Later, Wait

\* A decision of Run, with the dirty mark it leaves.
LEMMA DecideIsTimely ==
  ASSUME Known, TimelyInv, pc = "select", NEW since \in Nat \cup {Zero}, Decide(since),
         dirtySince' = since, UNCHANGED <<clock, stores, lastPush, lastFull, draft, sent>>,
         since # Zero => lastPush <= since /\ since <= clock /\ clock <= since + Wait,
         lastPush # Zero => \A s \in Stores : ~Covered(s) =>
           \/ since # Zero /\ since <= oldest[s] + MaxFlush
           \/ (s \in unsignalled \/ changes') /\ clock <= oldest[s] + MaxFlush
  PROVE  TimelyInv'
<1>1. VersionInv' /\ \A s \in Stores : Covered(s)' <=> Covered(s)
  BY DEF TimelyInv, VersionInv, Covered, stores
<1>2. UNCHANGED <<oldest, unsignalled>>
  BY DEF stores
<1>3. CASE Due(since) <= clock /\ pc' = "flush" /\ now' = clock /\ timer' = timer
  <2>1. FirstInv' /\ DirtyInv' /\ WaitingInv'
    BY <1>3 DEF TimelyInv, FirstInv, DirtyInv, WaitingInv
  <2>2. ASSUME NEW s \in Stores, ~Covered(s)
        PROVE  clock = 0 \/ clock <= oldest[s] + MaxFlush + Wait
    <3>1. CASE lastPush = Zero
      BY <3>1 DEF TimelyInv, FirstInv
    <3>2. CASE lastPush # Zero /\ since # Zero /\ since <= oldest[s] + MaxFlush
      BY <3>2, WaitType, CadenceAssumption DEF Known, TypeOK
    <3>3. CASE clock <= oldest[s] + MaxFlush
      BY <3>3, WaitType, CadenceAssumption DEF Known, TypeOK
    <3> QED
      BY <2>2, <3>1, <3>2, <3>3
  <2>3. draft = NoDraft
    BY DEF Known, DraftInv
  <2>4. \A s \in Stores : draft'[s] = Unread
    BY <2>3 DEF NoDraft
  <2>5. MissedInv'
    <3> SUFFICES ASSUME NEW s \in Stores, ~Covered(s)
                 PROVE  oldest[s] >= clock \/ clock <= oldest[s] + MaxFlush + Wait
      BY <1>1, <1>2, <1>3, <2>4 DEF MissedInv, Wait, Later
    <3> QED
      BY <2>2 DEF Known, TypeOK
  <2> QED
    BY <1>1, <2>1, <2>5 DEF TimelyInv
<1>4. CASE Due(since) > clock /\ pc' = pc /\ now' = now /\ timer' = Due(since)
  <2>1. lastPush # Zero
    BY <1>4, FirstIsDue, DueType DEF Known, TypeOK
  <2>2. FirstInv' /\ MissedInv'
    BY <1>4, <2>1 DEF FirstInv, MissedInv
  <2>3. since # Zero => Due(since) <= since + Wait
    BY <1>4, DueOfDirty DEF Known
  <2>4. DirtyInv'
    BY <1>4, <2>1, <2>3 DEF DirtyInv, Wait, Later
  <2>5. WaitingInv'
    BY <1>1, <1>2, <1>4, <2>1 DEF WaitingInv, Noticed
  <2> QED
    BY <1>1, <2>2, <2>4, <2>5 DEF TimelyInv
<1> QED
  BY <1>3, <1>4, DecideCases DEF Known

LEMMA TimelyStep ==
  ASSUME Known, TimelyInv, [Next]_vars
  PROVE  TimelyInv'
<1>1. CASE TakeChange
  <2>1. DirtySince \in Nat /\ Decide(DirtySince) /\ pc = "select"
    BY <1>1 DEF Known, TypeOK, TakeChange, DirtySince
  <2>2. dirtySince' = DirtySince /\ UNCHANGED <<clock, stores, lastPush, lastFull, draft, sent>>
    BY <1>1 DEF TakeChange
  <2>3. DirtySince # Zero => lastPush <= DirtySince /\ DirtySince <= clock
                               /\ clock <= DirtySince + Wait
    BY <2>1, WaitType, ZeroIsPast
       DEF Known, TypeOK, CadenceInv, PeriodInv, TimelyInv, DirtyInv, DirtySince
  <2>4. ASSUME lastPush # Zero, NEW s \in Stores, ~Covered(s)
        PROVE  DirtySince # Zero /\ DirtySince <= oldest[s] + MaxFlush
    <3>1. Noticed(s)
      BY <2>1, <2>4 DEF TimelyInv, WaitingInv
    <3>2. DirtySince <= clock
      BY <2>1, <2>3, ZeroIsPast DEF Known, TypeOK
    <3> QED
      BY <2>1, <3>1, <3>2, ZeroIsPast, CadenceAssumption DEF Known, TypeOK, Noticed, DirtySince
  <2> HIDE DEF DirtySince
  <2> QED
    BY <2>1, <2>2, <2>3, <2>4, DecideIsTimely
<1>2. CASE TimerFires
  <2>1. Decide(dirtySince) /\ pc = "select" /\ dirtySince \in Nat \cup {Zero}
    BY <1>2 DEF Known, TypeOK, TimerFires
  <2>2. UNCHANGED <<clock, stores, changes, lastPush, lastFull, dirtySince, draft, sent>>
    BY <1>2 DEF TimerFires, locals
  <2>3. dirtySince # Zero => lastPush <= dirtySince /\ dirtySince <= clock
                               /\ clock <= dirtySince + Wait
    BY <2>1 DEF TimelyInv, DirtyInv
  <2>4. lastPush # Zero => \A s \in Stores : ~Covered(s) => Noticed(s)
    BY <2>1 DEF TimelyInv, WaitingInv
  <2> QED
    BY <2>1, <2>2, <2>3, <2>4, DecideIsTimely DEF Noticed
<1>3. CASE Enqueue
  <2>1. /\ pc = "flush" /\ pc' = "select" /\ lastPush' = now /\ dirtySince' = Zero
        /\ sent' = draft /\ draft' = NoDraft
        /\ UNCHANGED <<clock, now, version, unsignalled, oldest, changes>>
        /\ \A s \in Stores : draft[s] # Unread
    BY <1>3 DEF Enqueue, Pushed, stores
  <2>2. \A s \in Stores : draft'[s] = Unread
    BY <2>1 DEF NoDraft
  <2>3. now \in Nat /\ clock <= now + MaxFlush
    BY <2>1 DEF Known, TypeOK, CadenceInv, FlushInv
  <2>4. VersionInv'
    BY <2>1, <2>2 DEF TimelyInv, VersionInv
  <2>5. FirstInv' /\ DirtyInv' /\ MissedInv'
    BY <2>1, <2>3, ZeroIsPast DEF FirstInv, DirtyInv, MissedInv
  <2>6. WaitingInv'
    <3> SUFFICES ASSUME NEW s \in Stores, ~Covered(s)'
                 PROVE  (s \in unsignalled \/ changes) /\ clock <= oldest[s] + MaxFlush
      BY <2>1 DEF WaitingInv, Noticed
    <3>1. version[s] # draft[s]
      BY <2>1 DEF Covered
    <3>2. ~Covered(s)
      BY <2>1, <3>1 DEF Known, TypeOK, TimelyInv, VersionInv, Covered
    <3>3. oldest[s] >= now
      BY <2>1, <3>2 DEF TimelyInv, MissedInv
    <3> QED
      BY <2>1, <2>3, <3>1, <3>3, CadenceAssumption DEF Known, DraftInv, TypeOK
  <2> QED
    BY <2>4, <2>5, <2>6 DEF TimelyInv
<1>4. CASE Tick
  <2>1. /\ UNCHANGED <<stores, changes, pc, timer, locals, now, draft, sent>>
        /\ clock' = clock + 1 /\ unsignalled = {}
        /\ pc = "select" => ~changes /\ clock < timer
    BY <1>4 DEF Tick
  <2>2. \A s \in Stores : Covered(s)' <=> Covered(s)
    BY <2>1 DEF Covered, stores
  <2>3. VersionInv'
    BY <2>1 DEF Known, TypeOK, TimelyInv, VersionInv, stores
  <2>4. FirstInv'
    BY <2>1 DEF Known, TypeOK, TimelyInv, FirstInv, locals
  <2>5. DirtyInv'
    BY <2>1, WaitType, ZeroIsPast DEF Known, TypeOK, TimelyInv, DirtyInv, locals, Wait, Later
  <2>6. WaitingInv'
    BY <2>1, <2>2 DEF TimelyInv, WaitingInv, Noticed, locals, stores
  <2>7. MissedInv'
    BY <2>1, <2>2 DEF TimelyInv, MissedInv, stores, Wait, Later
  <2> QED
    BY <2>3, <2>4, <2>5, <2>6, <2>7 DEF TimelyInv
<1>5. ASSUME NEW s \in Stores, Change(s) PROVE TimelyInv'
  <2>1. /\ UNCHANGED <<clock, changes, pc, timer, locals, now, draft, sent>>
        /\ unsignalled' = unsignalled \cup {s}
        /\ version'[s] = version[s] + 1
        /\ \A t \in Stores \ {s} : version'[t] = version[t] /\ oldest'[t] = oldest[t]
        /\ oldest'[s] = IF Covered(s) THEN clock ELSE oldest[s]
    BY <1>5 DEF Known, TypeOK, Change
  <2>2. \A t \in Stores \ {s} : Covered(t)' <=> Covered(t)
    BY <2>1 DEF Covered
  <2>3. VersionInv'
    <3>1. ASSUME NEW t \in Stores, t # s
          PROVE  /\ sent'[t] <= version'[t] /\ oldest'[t] <= clock'
                 /\ draft'[t] # Unread => sent'[t] <= draft'[t] /\ draft'[t] <= version'[t]
      BY <2>1, <3>1 DEF TimelyInv, VersionInv
    <3>2. /\ sent'[s] <= version'[s] /\ oldest'[s] <= clock'
          /\ draft'[s] # Unread => sent'[s] <= draft'[s] /\ draft'[s] <= version'[s]
      BY <2>1 DEF Known, TypeOK, TimelyInv, VersionInv
    <3> QED
      BY <3>1, <3>2 DEF VersionInv
  <2>4. FirstInv' /\ DirtyInv'
    BY <2>1 DEF TimelyInv, FirstInv, DirtyInv, locals, Wait, Later
  <2>5. WaitingInv'
    <3> SUFFICES ASSUME pc = "select", lastPush # Zero, NEW t \in Stores, ~Covered(t)'
                 PROVE  Noticed(t)'
      BY <2>1 DEF WaitingInv, locals
    <3>1. CASE t # s
      BY <2>1, <2>2, <3>1 DEF TimelyInv, WaitingInv, Noticed, locals
    <3>2. CASE t = s /\ Covered(s)
      BY <2>1, <3>2, CadenceAssumption DEF Known, TypeOK, Noticed
    <3>3. CASE t = s /\ ~Covered(s)
      BY <2>1, <3>3 DEF TimelyInv, WaitingInv, Noticed, locals
    <3> QED
      BY <3>1, <3>2, <3>3
  <2>6. MissedInv'
    <3> SUFFICES ASSUME pc = "flush", NEW t \in Stores, ~Covered(t)'
                 PROVE  \/ oldest'[t] >= now
                        \/ draft[t] = Unread /\ now <= oldest'[t] + MaxFlush + Wait
      BY <2>1 DEF MissedInv, Wait, Later
    <3>1. CASE t # s
      BY <2>1, <2>2, <3>1 DEF TimelyInv, MissedInv
    <3>2. CASE t = s /\ Covered(s)
      BY <2>1, <3>2 DEF Known, CadenceInv, FlushInv
    <3>3. CASE t = s /\ ~Covered(s)
      BY <2>1, <3>3 DEF TimelyInv, MissedInv
    <3> QED
      BY <3>1, <3>2, <3>3
  <2> QED
    BY <2>3, <2>4, <2>5, <2>6 DEF TimelyInv
<1>6. ASSUME NEW s \in Stores, Signal(s) PROVE TimelyInv'
  <2>1. /\ UNCHANGED <<clock, version, oldest, pc, timer, locals, now, draft, sent>>
        /\ unsignalled' = unsignalled \ {s} /\ changes' = TRUE
    BY <1>6 DEF Signal
  <2>2. \A t \in Stores : Covered(t)' <=> Covered(t)
    BY <2>1 DEF Covered
  <2>3. VersionInv' /\ FirstInv' /\ DirtyInv'
    BY <2>1 DEF TimelyInv, VersionInv, FirstInv, DirtyInv, locals, Wait, Later
  <2>4. WaitingInv' /\ MissedInv'
    BY <2>1, <2>2 DEF TimelyInv, WaitingInv, MissedInv, Noticed, locals, Wait, Later
  <2> QED
    BY <2>3, <2>4 DEF TimelyInv
<1>7. ASSUME NEW s \in Stores, Snapshot(s) PROVE TimelyInv'
  <2>1. /\ UNCHANGED <<clock, stores, changes, pc, timer, locals, now, sent>>
        /\ pc = "flush" /\ draft[s] = Unread /\ draft'[s] = version[s]
        /\ \A t \in Stores \ {s} : draft'[t] = draft[t]
    BY <1>7 DEF Known, TypeOK, Snapshot
  <2>2. Covered(s)' /\ \A t \in Stores \ {s} : Covered(t)' <=> Covered(t)
    BY <2>1 DEF Covered, stores
  <2>3. VersionInv'
    BY <2>1 DEF Known, TypeOK, TimelyInv, VersionInv, stores
  <2>4. FirstInv' /\ DirtyInv' /\ WaitingInv'
    BY <2>1 DEF TimelyInv, FirstInv, DirtyInv, WaitingInv, locals
  <2>5. MissedInv'
    BY <2>1, <2>2 DEF TimelyInv, MissedInv, stores, Wait, Later
  <2> QED
    BY <2>3, <2>4, <2>5 DEF TimelyInv
<1>8. CASE UNCHANGED vars
  <2>1. UNCHANGED <<clock, version, unsignalled, oldest, changes, pc, timer, dirtySince,
                    lastPush, now, draft, sent>>
    BY <1>8 DEF vars, stores, locals
  <2> QED
    BY <2>1 DEF TimelyInv, VersionInv, FirstInv, DirtyInv, WaitingInv, MissedInv, Covered,
                Noticed, Wait, Later
<1> QED
  BY <1>1, <1>2, <1>3, <1>4, <1>5, <1>6, <1>7, <1>8 DEF Next

\* A change of a store is in a payload, or in the one under construction, within
\* the debounce (or the gap) and two flushes, however many changes come.
THEOREM ChangesAreInTime == Spec => []ChangesAreTimely
<1>1. Init => TimelyInv
  <2>1. Init => \A s \in Stores : sent[s] = 0 /\ version[s] = 1 /\ oldest[s] = 0 /\ draft[s] = Unread
    BY DEF Init, NoDraft
  <2>2. Init => clock = 0 /\ timer = 0 /\ now = 0 /\ pc = "select" /\ lastPush = Zero
                /\ dirtySince = Zero
    BY DEF Init
  <2> QED
    BY <2>1, <2>2 DEF TimelyInv, VersionInv, FirstInv, DirtyInv, WaitingInv, MissedInv
<1>2. Known /\ TimelyInv => ChangesAreTimely
  <2> SUFFICES ASSUME Known, TimelyInv, NEW s \in Stores, ~Covered(s)
               PROVE  clock - oldest[s] <= Wait + 2 * MaxFlush
    BY DEF ChangesAreTimely, Wait
  <2>1. clock \in Nat /\ now \in Nat /\ oldest[s] \in Nat /\ Wait \in Nat /\ MaxFlush \in Nat
    BY WaitType, CadenceAssumption DEF Known, TypeOK
  <2>2. CASE pc = "select" /\ lastPush = Zero
    BY <2>1, <2>2 DEF TimelyInv, FirstInv
  <2>3. CASE pc = "select" /\ lastPush # Zero
    <3>1. Noticed(s)
      BY <2>3 DEF TimelyInv, WaitingInv
    <3>2. CASE dirtySince # Zero /\ dirtySince <= oldest[s] + MaxFlush
      <4>1. dirtySince \in Nat /\ clock <= dirtySince + Wait
        BY <2>3, <3>2 DEF Known, TypeOK, TimelyInv, DirtyInv
      <4> QED
        BY <2>1, <3>2, <4>1
    <3>3. CASE clock <= oldest[s] + MaxFlush
      BY <2>1, <3>3
    <3> QED
      BY <3>1, <3>2, <3>3 DEF Noticed
  <2>4. CASE pc = "flush"
    <3>1. clock <= now + MaxFlush
      BY <2>4 DEF Known, CadenceInv, FlushInv
    <3>2. oldest[s] >= now \/ now <= oldest[s] + MaxFlush + Wait
      BY <2>4 DEF TimelyInv, MissedInv
    <3> QED
      BY <2>1, <3>1, <3>2
  <2> QED
    BY <2>2, <2>3, <2>4 DEF Known, TypeOK
<1>3. Known /\ TimelyInv /\ [Next]_vars => TimelyInv'
  BY TimelyStep
<1>4. Spec => []Known
  BY TypeCorrect, NothingLost, OftenPushed, PTL DEF Known
<1> QED
  BY <1>1, <1>2, <1>3, <1>4, PTL DEF Spec
=============================================================================
