----------------------------- MODULE RetryRules -----------------------------
(***************************************************************************)
(* The retry policy of a task: RetryPolicyKind::decide of contexide-core   *)
(* on the policy that retry_logic.rs of the executor reads off the task's  *)
(* row. One task is followed from attempt to attempt for as long as the    *)
(* decision is to retry. Nothing in the repository calls these rules yet:  *)
(* the scheduler counts attempts itself. The rules number attempts 1, 2,   *)
(* ..., whereas decide_retry_for_task passes on the number that is stored, *)
(* and stored numbers begin with 0; FirstNumbers has the numberings to     *)
(* explore. Durations are numbers of milliseconds.                         *)
(***************************************************************************)
EXTENDS Integers, Sequences

CONSTANTS
  Limits,    \* stored max_attempts, NULL (Unset) or a number, perhaps negative
  Bases,     \* stored delay_ms and base_delay_ms, or Unset
  Maxima,    \* stored max_delay_ms, or Unset
  Defaults,  \* the defaults of the domain, [policy, max_attempts]
  MaxRuns,   \* bound on the attempts that are followed
  FirstNumbers,  \* the number that the first attempt may have
  Unset

VARIABLES
  row,       \* the task: [retry_policy, max_attempts, base, max]
  defaults,  \* the defaults of its domain
  first,     \* the number of the first attempt
  runs,      \* attempts made
  delays,    \* the delays waited, in order
  fate       \* "running", "waiting", "done" or "failed"

vars == <<row, defaults, first, runs, delays, fate>>

Names == {"never", "fixed", "exponential", "infinite_exponential", "other"}

OrElse(v, d) == IF v = Unset THEN d ELSE v

\* A negative i32 read as u32 is beyond any number of attempts.
Beyond == MaxRuns + 2
AsU32(n) == IF n < 0 THEN Beyond ELSE n

Min2(a, b) == IF a < b THEN a ELSE b

\* parse_policy: the fields that are missing have defaults; a policy that is not
\* known is the one of the domain, with the domain's own limit.
Policy ==
  LET limit == IF row.max_attempts = Unset THEN defaults.max_attempts ELSE AsU32(row.max_attempts) IN
  CASE row.retry_policy = "never" -> [kind |-> "never"]
    [] row.retry_policy = "fixed" ->
         [kind |-> "fixed", limit |-> limit, base |-> OrElse(row.base, 30000)]
    [] row.retry_policy = "exponential" ->
         [kind |-> "exponential", limit |-> limit,
          base |-> OrElse(row.base, 1000), max |-> OrElse(row.max, 600000)]
    [] row.retry_policy = "infinite_exponential" ->
         [kind |-> "infinite_exponential",
          base |-> OrElse(row.base, 1000), max |-> OrElse(row.max, 600000)]
    [] OTHER -> defaults.policy

\* Mutation of Backoff: the maximum bounds the base and not what it grows to.
BackoffUnclamped(no) ==
  Min2(Policy.max, Policy.base) * 2 ^ Min2(IF no > 0 THEN no - 1 ELSE 0, 16)

\* The delay doubles with every attempt but the first, up to a maximum.
Backoff(no) ==
  Min2(Policy.max, Policy.base * 2 ^ Min2(IF no > 0 THEN no - 1 ELSE 0, 16))

Limited == Policy.kind \in {"fixed", "exponential"}

\* Mutation of Retries: the attempt that reaches the limit is not the last.
RetriesBeyond(no, transient) ==
  /\ transient
  /\ Policy.kind # "never"
  /\ Limited => no <= Policy.limit

\* decide: is attempt no, which failed, to be followed by another?
Retries(no, transient) ==
  /\ transient
  /\ Policy.kind # "never"
  /\ Limited => no < Policy.limit

DelayAfter(no) == IF Policy.kind = "fixed" THEN Policy.base ELSE Backoff(no)

\* The number of the attempt that runs.
AttemptNo == first + runs - 1

AttemptFails(transient) ==
  /\ fate = "running"
  /\ IF Retries(AttemptNo, transient)
     THEN fate' = "waiting" /\ delays' = Append(delays, DelayAfter(AttemptNo))
     ELSE fate' = "failed" /\ UNCHANGED delays
  /\ UNCHANGED <<row, defaults, first, runs>>

AttemptSucceeds ==
  /\ fate = "running"
  /\ fate' = "done"
  /\ UNCHANGED <<row, defaults, first, runs, delays>>

NextAttempt ==
  /\ fate = "waiting" /\ runs < MaxRuns
  /\ fate' = "running"
  /\ runs' = runs + 1
  /\ UNCHANGED <<row, defaults, first, delays>>

Init ==
  /\ row \in [retry_policy : Names, max_attempts : Limits, base : Bases, max : Maxima]
  /\ defaults \in Defaults
  /\ first \in FirstNumbers
  /\ runs = 1
  /\ delays = <<>>
  /\ fate = "running"

Next == NextAttempt \/ AttemptSucceeds \/ \E transient \in BOOLEAN : AttemptFails(transient)

Spec == Init /\ [][Next]_vars

-----------------------------------------------------------------------------

\* A task has at most max_attempts attempts, and none is waited for beyond them; a
\* limit of 0 allows the first, and a task with policy never has no other. This is
\* so if attempts are numbered from 1, as the rules have it.
RetriesBounded ==
  /\ Limited => runs <= IF Policy.limit = 0 THEN 1 ELSE Policy.limit
  /\ Limited /\ fate = "waiting" => runs < Policy.limit
  /\ Policy.kind = "never" => runs = 1 /\ fate # "waiting"

Exponential == Policy.kind \in {"exponential", "infinite_exponential"}

\* The delays of a backoff never shrink, at most double, are never shorter than the
\* base and never exceed the maximum, even when the base does.
DelaysGrow ==
  Exponential =>
    \A i \in DOMAIN delays :
      /\ Min2(Policy.base, Policy.max) <= delays[i] /\ delays[i] <= Policy.max
      /\ i > 1 => delays[i - 1] <= delays[i] /\ delays[i] <= 2 * delays[i - 1]

\* What the comments on the policy promise of a backoff, its attempts counted from 1: no
\* more than max_attempts, and after attempt i a delay of base_delay * 2^i, clamped by
\* max_delay. Neither is so of attempts as they are numbered in the database.
BackoffAsDocumented ==
  Policy.kind = "exponential" =>
    /\ Policy.limit > 0 => Len(delays) < Policy.limit
    /\ \A i \in DOMAIN delays : delays[i] = Min2(Policy.max, Policy.base * 2 ^ i)
=============================================================================
