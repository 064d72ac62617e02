------------------------------- MODULE Sender -------------------------------
(***************************************************************************)
(* The delivery of heartbeats: publisher.Sender with its one-payload slot  *)
(* (internal/publisher/sender.go), the outcomes of Publisher.Publish and   *)
(* the reload of the agent's token (publisher.go).  Two goroutines share   *)
(* the slot and the wake channel: the Coalescer calls Enqueue, the Sender  *)
(* runs Run.  Payloads are numbered in the order the Coalescer builds them *)
(* (one goroutine builds and enqueues them).                               *)
(*                                                                         *)
(* A token is a version number.  A re-enrolment makes the server accept a  *)
(* new version; the agent's source of it (the projected file, the Secret)  *)
(* shows it some time later.  A wait lasts until its timer fires; how long *)
(* that is makes no difference here.                                       *)
(***************************************************************************)
EXTENDS Naturals

CONSTANTS
  MaxPayloads,   \* bound of the model: payloads the Coalescer enqueues
  MaxFaults,     \* bound of the model: pushes or token reads that fail by themselves
  MaxRotations,  \* bound of the model: re-enrolments
  MayStop        \* whether the context may be cancelled

ASSUME BoundsAssumption ==
  /\ MaxPayloads \in Nat /\ MaxFaults \in Nat /\ MaxRotations \in Nat
  /\ MayStop \in BOOLEAN

VARIABLES
  latest,     \* Sender.latest: the slot (Nil or a payload)
  wake,       \* Sender.wake: a channel of capacity one
  enqueued,   \* number of payloads stored so far
  enqueuing,  \* the Coalescer is in Enqueue between the store and the send
  pc,         \* where Run is
  p,          \* Run's local: the payload it took
  token, source, accepted, \* the agent's token, its source's, the server's
  cancelled,  \* ctx is done
  faults,     \* counter of the bounded faults
  seen,       \* history: newest payload the server received
  acked,      \* history: newest payload the Sender saw a 2xx for
  unpaced     \* history: rejections of the present token since the last full wait

slot == <<latest, wake, enqueued, enqueuing>>
tokens == <<source, accepted>>
history == <<seen, acked, unpaced>>
vars == <<slot, pc, p, token, tokens, cancelled, faults, history>>

Nil == 0

-----------------------------------------------------------------------------
Init ==
  /\ latest = Nil /\ wake = FALSE
  /\ enqueued = 0 /\ enqueuing = FALSE
  /\ pc = "idle" /\ p = Nil
  /\ token = 0 /\ source = 0 /\ accepted = 0
  /\ cancelled = FALSE /\ faults = 0
  /\ seen = 0 /\ acked = 0 /\ unpaced = 0

-----------------------------------------------------------------------------
(* The Coalescer's goroutine: Enqueue.                                     *)

\* Mutant of EnqueueStore: payloads are built by goroutines that overtake each other.
EnqueueStoreUnordered ==
  /\ ~enqueuing /\ enqueued < MaxPayloads /\ ~cancelled
  /\ enqueued' = enqueued + 1
  /\ latest' \in 1..(enqueued + 1)
  /\ enqueuing' = TRUE
  /\ UNCHANGED <<wake, pc, p, token, tokens, cancelled, faults, history>>

EnqueueStore ==
  /\ ~enqueuing /\ enqueued < MaxPayloads /\ ~cancelled
  /\ enqueued' = enqueued + 1
  /\ latest' = enqueued + 1
  /\ enqueuing' = TRUE
  /\ UNCHANGED <<wake, pc, p, token, tokens, cancelled, faults, history>>

\* Mutant of EnqueueWake: a send that finds no one waiting is dropped.
EnqueueWakeUnbuffered ==
  /\ enqueuing
  /\ enqueuing' = FALSE
  /\ wake' = (wake \/ pc \in {"idle", "backoff"})
  /\ UNCHANGED <<latest, enqueued, pc, p, token, tokens, cancelled, faults, history>>

\* The non-blocking send: a wake that is already pending is enough.
EnqueueWake ==
  /\ enqueuing
  /\ enqueuing' = FALSE
  /\ wake' = TRUE
  /\ UNCHANGED <<latest, enqueued, pc, p, token, tokens, cancelled, faults, history>>

-----------------------------------------------------------------------------
(* The Sender's goroutine: Run.                                            *)

Wake ==
  /\ pc = "idle" /\ wake
  /\ wake' = FALSE
  /\ pc' = "take"
  /\ UNCHANGED <<latest, enqueued, enqueuing, p, token, tokens, cancelled, faults, history>>

\* take: an empty slot ends the drain.
Take ==
  /\ pc = "take"
  /\ p' = latest
  /\ pc' = IF latest = Nil THEN "drained" ELSE "publish"
  /\ UNCHANGED <<slot, token, tokens, cancelled, faults, history>>

\* Back in the select: until then nobody receives from the wake channel.
Select ==
  /\ pc = "drained"
  /\ pc' = "idle"
  /\ UNCHANGED <<slot, p, token, tokens, cancelled, faults, history>>

\* clearIfSame: only the payload that was sent is taken out of the slot.
\* (Mutant first: whatever the slot holds is taken out.)
ClearedAlways(x) == Nil
ClearedIfSame(x) == IF latest = x THEN Nil ELSE latest

PublishOK ==
  /\ pc = "publish" /\ ~cancelled
  /\ token = accepted
  /\ seen' = p
  /\ acked' = p
  /\ latest' = ClearedIfSame(p)
  /\ unpaced' = 0
  /\ pc' = "take"
  /\ UNCHANGED <<wake, enqueued, enqueuing, p, token, tokens, cancelled, faults>>

\* A network error, a timeout or a status that is neither 2xx nor an auth
\* rejection.  The server may have received the payload all the same.
PublishFails ==
  /\ pc = "publish" /\ ~cancelled
  /\ faults < MaxFaults
  /\ faults' = faults + 1
  /\ \/ seen' = p /\ token = accepted
     \/ seen' = seen
  /\ pc' = "backoff"
  /\ UNCHANGED <<slot, p, token, tokens, cancelled, acked, unpaced>>

\* 401 or 403: the token is read again from its source.  A changed token is
\* tried at once; an unchanged one, or a read that fails, leads to a wait.
PublishRejected ==
  /\ pc = "publish" /\ ~cancelled
  /\ token # accepted
  /\ \/ /\ source # token
        /\ token' = source
        /\ unpaced' = 0
        /\ pc' = "take"
        /\ UNCHANGED faults
     \/ /\ \/ source = token /\ UNCHANGED faults
           \/ source # token /\ faults < MaxFaults /\ faults' = faults + 1
        /\ unpaced' = unpaced + 1
        /\ pc' = "auth"
        /\ UNCHANGED token
  /\ UNCHANGED <<slot, p, tokens, cancelled, seen, acked>>

\* Mutant of AuthWait: a newer payload cuts the wait short.
AuthWaitPreempted ==
  /\ pc = "auth"
  /\ pc' = "take"
  /\ \/ unpaced' = 0 /\ UNCHANGED wake
     \/ wake /\ wake' = FALSE /\ UNCHANGED unpaced
  /\ UNCHANGED <<latest, enqueued, enqueuing, p, token, tokens, cancelled, faults, seen, acked>>

\* After a rejection only the timer ends the wait, never a newer payload.
AuthWait ==
  /\ pc = "auth"
  /\ pc' = "take"
  /\ unpaced' = 0
  /\ UNCHANGED <<slot, p, token, tokens, cancelled, faults, seen, acked>>

\* After any other failure the timer or a wake ends the wait.
BackoffElapsed ==
  /\ pc = "backoff"
  /\ pc' = "take"
  /\ UNCHANGED <<slot, p, token, tokens, cancelled, faults, history>>

BackoffPreempted ==
  /\ pc = "backoff" /\ wake
  /\ wake' = FALSE
  /\ pc' = "take"
  /\ UNCHANGED <<latest, enqueued, enqueuing, p, token, tokens, cancelled, faults, history>>

\* Run returns: a select sees ctx.Done, or a push fails and ctx is done (the
\* server may have received that one).
\* (Mutant first: the wait for a payload does not look at ctx.)
ReturnUnlessIdle ==
  /\ cancelled
  /\ \/ pc \in {"auth", "backoff"} /\ UNCHANGED seen
     \/ pc = "publish" /\ UNCHANGED seen
     \/ pc = "publish" /\ token = accepted /\ seen' = p
  /\ pc' = "stopped"
  /\ UNCHANGED <<slot, p, token, tokens, cancelled, faults, acked, unpaced>>
Return ==
  /\ cancelled
  /\ \/ pc \in {"idle", "auth", "backoff"} /\ UNCHANGED seen
     \/ pc = "publish" /\ UNCHANGED seen
     \/ pc = "publish" /\ token = accepted /\ seen' = p
  /\ pc' = "stopped"
  /\ UNCHANGED <<slot, p, token, tokens, cancelled, faults, acked, unpaced>>

-----------------------------------------------------------------------------
(* The surroundings: re-enrolment, the token's source, shutdown.           *)

Rotate ==
  /\ accepted < MaxRotations
  /\ accepted' = accepted + 1
  /\ UNCHANGED <<slot, pc, p, token, source, cancelled, faults, history>>

SourceUpdate ==
  /\ source # accepted
  /\ source' = accepted
  /\ UNCHANGED <<slot, pc, p, token, accepted, cancelled, faults, history>>

Cancel ==
  /\ MayStop /\ ~cancelled
  /\ cancelled' = TRUE
  /\ UNCHANGED <<slot, pc, p, token, tokens, faults, history>>

-----------------------------------------------------------------------------
Run == \/ Wake \/ Take \/ Select \/ PublishOK \/ PublishFails \/ PublishRejected
       \/ AuthWait \/ BackoffElapsed \/ BackoffPreempted \/ Return

Next == EnqueueStore \/ EnqueueWake \/ Run \/ Rotate \/ SourceUpdate \/ Cancel

\* Both goroutines keep running, timers fire, the source follows the server.
\* Nothing is assumed of faults, rotations, shutdown or new payloads.
Fairness ==
  /\ WF_vars(EnqueueWake)
  /\ WF_vars(Run)
  /\ WF_vars(SourceUpdate)

Spec == Init /\ [][Next]_vars /\ Fairness

-----------------------------------------------------------------------------
(* Properties.                                                             *)

\* Every variable has its type, and Publish is never called with a nil payload.
TypeOK ==
  /\ latest \in Nat /\ enqueued \in Nat /\ p \in Nat
  /\ wake \in BOOLEAN /\ enqueuing \in BOOLEAN /\ cancelled \in BOOLEAN
  /\ pc \in {"idle", "take", "drained", "publish", "auth", "backoff", "stopped"}
  /\ token \in Nat /\ source \in Nat /\ accepted \in Nat
  /\ faults \in Nat /\ seen \in Nat /\ acked \in Nat /\ unpaced \in Nat
  /\ pc = "publish" => p # Nil

\* A payload in the slot of an idle Sender has a wake pending, or its Enqueue is
\* still to send it: no interleaving of Enqueue and Run loses the wake-up.
NoLostWakeup == pc \in {"drained", "idle"} /\ latest # Nil => wake \/ enqueuing

\* An empty slot means that the newest payload was acknowledged: clearIfSame
\* drops nothing that arrived while an older payload was being sent.
EmptyMeansDelivered == latest = Nil => acked = enqueued

\* The retry still sends the LATEST payload, so nothing stale is ever delivered
\* (sender.go:120): no payload reaches the server after a newer one.
NothingStaleDelivered == [][seen' >= seen]_vars

\* A rejected token is not tried a second time before a full wait (sender.go:117),
\* however fast payloads are enqueued.
RejectedTokenIsPaced == unpaced <= 1

\* A cancelled context ends Run from wherever it is.
StopsWhenCancelled == cancelled ~> pc = "stopped"

\* The Sender implements the delivery of heartbeats.
HB == INSTANCE Heartbeats WITH newest <- enqueued, seen <- seen, stopped <- cancelled

DeliversHeartbeats == HB!Spec

-----------------------------------------------------------------------------
(* The inductive strengthenings of SenderProofs.                           *)

\* Payloads are numbered in order, and the slot holds the newest until it is
\* acknowledged; what Run holds is no older than what the server has.
SlotInv ==
  /\ seen <= enqueued /\ acked <= seen
  /\ latest \in {Nil, enqueued}
  /\ latest = Nil => acked = enqueued
  /\ pc = "publish" => p # Nil /\ seen <= p /\ p <= enqueued /\ latest # Nil

\* A rejection leads to the wait, and nothing else does.
PacedInv == unpaced <= 1 /\ (pc \in {"idle", "take", "drained", "publish", "backoff"} => unpaced = 0)
=============================================================================
