---------------------------- MODULE WorkerRuntime ----------------------------
(***************************************************************************)
(* One worker replica: WorkerRunner::run takes requests off its            *)
(* subscription, gives each a semaphore permit and a spawned task that     *)
(* runs handle_one, and on a shutdown signal waits for those tasks up to a *)
(* grace period.  An action is what happens between two awaits, of the     *)
(* loop or of one spawned task.                                            *)
(*                                                                         *)
(* Covered: the select over signal and subscription, the wait for a permit *)
(* inside its arm, undecodable requests, handlers and publishes that fail, *)
(* handlers that never return, a subscription that closes, the drain and   *)
(* the tasks it aborts, answers the NATS client has queued but not sent.   *)
(* Abstracted: payloads, the order of the subscription and its capacity, a *)
(* signal before the loop's first poll (it kills the process), and time:   *)
(* the grace period may elapse whenever a task is still in flight, and the *)
(* abort that follows takes effect at once.                                *)
(***************************************************************************)
EXTENDS Naturals, FiniteSets

CONSTANTS
  Requests,        \* the copies of worker requests sent to this replica
  MaxConcurrency,  \* WorkerRuntimeConfig::max_concurrency
  Malformed,       \* requests that do not decode as a WorkerRequest
  Fallible,        \* requests whose handler or publish may return an error
  Hanging          \* requests whose handler never returns

ASSUME RequestsAssumption == /\ IsFiniteSet(Requests)
                             /\ Malformed \cup Fallible \cup Hanging \subseteq Requests
ASSUME LimitAssumption    == MaxConcurrency \in Nat

VARIABLES
  runner,     \* where WorkerRunner::run is
  stage,      \* where each request is
  permits,    \* permits the semaphore has left
  signalled,  \* SIGINT or SIGTERM has arrived
  closed      \* the subscription will yield nothing beyond what it has buffered

vars == <<runner, stage, permits, signalled, closed>>

\* A spawned task holds its permit from its first poll to its last.
InFlightStage == {"spawned", "handling", "publishing"}

\* Answered, or given up: nack does nothing, so nobody sends the request again.
Settled == {"answered", "nacked"}

Stages == {"unsent", "buffered", "held", "queued", "aborted", "unsent_answer"}
            \cup InFlightStage \cup Settled

At(s)    == {r \in Requests : stage[r] = s}
InFlight == {r \in Requests : stage[r] \in InFlightStage}

Move(r, s) == stage' = [stage EXCEPT ![r] = s]

Init ==
  /\ runner = "select"
  /\ stage = [r \in Requests |-> "unsent"]
  /\ permits = MaxConcurrency
  /\ signalled = FALSE
  /\ closed = FALSE

----------------------------------------------------------------------------
(* The environment: NATS and the operating system. *)

\* A copy of a request reaches the subscription's buffer.
Deliver(r) ==
  /\ stage[r] = "unsent" /\ ~closed /\ runner # "stopped"
  /\ Move(r, "buffered")
  /\ UNCHANGED <<runner, permits, signalled, closed>>

\* The first signal completes the shutdown future; later ones do nothing.
Signal ==
  /\ ~signalled
  /\ signalled' = TRUE
  /\ UNCHANGED <<runner, stage, permits, closed>>

\* The connection is lost for good: the subscription ends after its buffer.
CloseSubscription ==
  /\ ~closed
  /\ closed' = TRUE
  /\ UNCHANGED <<runner, stage, permits, signalled>>

\* The NATS client sends an answer that publish left in its queue.
Flush(r) ==
  /\ stage[r] = "queued" /\ ~closed
  /\ Move(r, "answered")
  /\ UNCHANGED <<runner, permits, signalled, closed>>

----------------------------------------------------------------------------
(* The loop of WorkerRunner::run. *)

\* Defect: the wait for a permit is given up on a signal, with the message.
SelectShutdownAnywhere ==
  /\ runner \in {"select", "acquire"} /\ signalled
  /\ runner' = "drain"
  /\ UNCHANGED <<stage, permits, signalled, closed>>

\* The shutdown arm of the select, which picks among its ready arms at random.
SelectShutdown ==
  /\ runner = "select" /\ signalled
  /\ runner' = "drain"
  /\ UNCHANGED <<stage, permits, signalled, closed>>

\* The subscription arm: the message is taken, then the arm's body waits for a
\* permit, during which neither the signal nor the subscription is polled.
SelectMessage(r) ==
  /\ runner = "select" /\ stage[r] = "buffered"
  /\ runner' = "acquire"
  /\ Move(r, "held")
  /\ UNCHANGED <<permits, signalled, closed>>

\* The subscription has ended: the loop breaks and drains like on a signal.
SelectClosed ==
  /\ runner = "select" /\ closed /\ At("buffered") = {}
  /\ runner' = "drain"
  /\ UNCHANGED <<stage, permits, signalled, closed>>

\* Defect: the task is spawned without waiting for a permit.
AcquireUnbounded ==
  /\ runner = "acquire"
  /\ \E r \in At("held") : Move(r, "spawned")
  /\ permits' = permits - 1
  /\ runner' = "select"
  /\ UNCHANGED <<signalled, closed>>

\* acquire_owned returns, the task is spawned and the loop turns.
Acquire ==
  /\ runner = "acquire" /\ permits > 0
  /\ \E r \in At("held") : Move(r, "spawned")
  /\ permits' = permits - 1
  /\ runner' = "select"
  /\ UNCHANGED <<signalled, closed>>

\* Defect: the drain waits for one task instead of all.
DrainOne ==
  /\ runner = "drain"
  /\ runner' = "stopped"
  /\ UNCHANGED <<stage, permits, signalled, closed>>

\* join_next has returned the last task within the grace period.
DrainDone ==
  /\ runner = "drain" /\ InFlight = {}
  /\ runner' = "stopped"
  /\ UNCHANGED <<stage, permits, signalled, closed>>

\* Defect: no timeout around the drain.
GraceNeverElapses == FALSE /\ UNCHANGED vars

\* run returns with tasks in flight: its JoinSet aborts them, which drops their
\* permits with them.
GraceElapses ==
  /\ runner = "drain" /\ InFlight # {}
  /\ runner' = "stopped"
  /\ stage' = [r \in Requests |-> IF r \in InFlight THEN "aborted" ELSE stage[r]]
  /\ permits' = permits + Cardinality(InFlight)
  /\ UNCHANGED <<signalled, closed>>

\* After run has returned the process exits, and what its NATS client had not
\* sent yet is never sent: nothing flushes the connection.
Exit ==
  /\ runner = "stopped" /\ At("queued") # {}
  /\ stage' = [r \in Requests |-> IF stage[r] = "queued" THEN "unsent_answer" ELSE stage[r]]
  /\ UNCHANGED <<runner, permits, signalled, closed>>

----------------------------------------------------------------------------
(* One spawned task: handle_one. *)

\* The task is over, whatever came of it: its permit is dropped.
Finish(r, s) ==
  /\ Move(r, s)
  /\ permits' = permits + 1
  /\ UNCHANGED <<runner, signalled, closed>>

Decode(r) ==
  /\ stage[r] = "spawned" /\ r \notin Malformed
  /\ Move(r, "handling")
  /\ UNCHANGED <<runner, permits, signalled, closed>>

NackMalformed(r) ==
  /\ stage[r] = "spawned" /\ r \in Malformed
  /\ Finish(r, "nacked")

HandlerReturns(r) ==
  /\ stage[r] = "handling" /\ r \notin Hanging
  /\ Move(r, "publishing")
  /\ UNCHANGED <<runner, permits, signalled, closed>>

\* Defect: the permit of a task is forgotten when its handler fails.
NackFailedLeak(r) ==
  /\ \/ stage[r] = "handling" /\ r \in Fallible \ Hanging
     \/ stage[r] = "publishing" /\ (r \in Fallible \/ closed)
  /\ Move(r, "nacked")
  /\ UNCHANGED <<runner, permits, signalled, closed>>

\* The handler or the publish of its status returned an error, as every publish
\* does on a lost connection; a handler that panics ends its task alike.
NackFailed(r) ==
  /\ \/ stage[r] = "handling" /\ r \in Fallible \ Hanging
     \/ stage[r] = "publishing" /\ (r \in Fallible \/ closed)
  /\ Finish(r, "nacked")

\* publish hands the status to the NATS client; the ack does nothing.
Publish(r) ==
  /\ stage[r] = "publishing"
  /\ Finish(r, "queued")

----------------------------------------------------------------------------
Runner == \/ SelectShutdown \/ SelectClosed \/ Acquire \/ DrainDone
          \/ \E r \in Requests : SelectMessage(r)

HandleOne(r) ==
  Decode(r) \/ NackMalformed(r) \/ HandlerReturns(r) \/ NackFailed(r) \/ Publish(r)

Next ==
  \/ Runner \/ GraceElapses \/ Exit
  \/ Signal \/ CloseSubscription
  \/ \E r \in Requests : Deliver(r) \/ Flush(r) \/ HandleOne(r)

Spec == Init /\ [][Next]_vars

\* Loop and tasks run on a multi-threaded runtime that polls what can go on, and
\* the grace period elapses.  No request has to arrive, and no signal.
Fairness ==
  /\ WF_vars(Runner) /\ WF_vars(GraceElapses)
  /\ \A r \in Requests : WF_vars(HandleOne(r)) /\ WF_vars(Flush(r))

FairSpec == Spec /\ Fairness

----------------------------------------------------------------------------
(* Properties. *)

TypeOK ==
  /\ runner \in {"select", "acquire", "drain", "stopped"}
  /\ stage \in [Requests -> Stages]
  /\ permits \in 0..MaxConcurrency
  /\ signalled \in BOOLEAN
  /\ closed \in BOOLEAN

\* Every exit of a spawned task (answered, undecodable, failed, aborted) returns
\* exactly one permit: permits and tasks in flight add up to the limit.
PermitsConserved == permits + Cardinality(InFlight) = MaxConcurrency

\* A request taken off the subscription is in the loop's hands exactly while the
\* loop waits for a permit: no shutdown drops it, no second one is taken.
OneHeldWhileAcquiring ==
  /\ runner = "acquire" <=> At("held") # {}
  /\ \A r, q \in At("held") : r = q

\* When run has returned, no request is half-way: each one was never taken, came
\* to its end, was aborted by the grace period or is left to the client's queue.
NothingInFlightWhenStopped ==
  runner = "stopped" => InFlight = {} /\ At("held") = {}

\* Fewer hanging handlers than permits: a buffered request gets a permit and an
\* answer, or a nack, unless the replica stops first.
RequestsServed ==
  \A r \in Requests \ Hanging :
    stage[r] = "buffered" ~> stage[r] \in Settled \/ runner = "stopped"

\* What the configuration says of shutdown_grace: after a signal the shutdown
\* takes a bounded time.  It needs fewer hanging handlers than permits, since
\* the loop sees no signal while it waits for one.
ShutdownEnds == signalled ~> runner = "stopped"

=============================================================================
