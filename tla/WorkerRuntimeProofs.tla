------------------------- MODULE WorkerRuntimeProofs -------------------------
(* The safety properties of WorkerRuntime, for every set of requests and every *)
(* limit.                                                                      *)
EXTENDS WorkerRuntime, FiniteSetTheorems, TLAPS

\* Together the four are inductive: a permit taken leaves one fewer, so types
\* need PermitsConserved, and the last two need each other's program counter.
IInv ==
  /\ TypeOK
  /\ PermitsConserved
  /\ OneHeldWhileAcquiring
  /\ NothingInFlightWhenStopped

\* Requests is finite, so the tasks in flight can be counted.
LEMMA InFlightFinite ==
  ASSUME TypeOK
  PROVE  IsFiniteSet(InFlight) /\ Cardinality(InFlight) \in Nat
<1>1. InFlight \in SUBSET Requests
  BY DEF InFlight
<1> QED
  BY <1>1, RequestsAssumption, FS_Subset, FS_CardinalityType

\* A step that leaves permits and the tasks in flight alone conserves permits.
LEMMA SameInFlight ==
  ASSUME IInv, permits' = permits, InFlight' = InFlight
  PROVE  PermitsConserved'
BY DEF IInv, PermitsConserved

\* A request that moves between two stages outside the spawned task, or between
\* two stages inside it, leaves the tasks in flight alone.
LEMMA MoveOutside ==
  ASSUME TypeOK, NEW r \in Requests, NEW s \in Stages, Move(r, s),
         stage[r] \in InFlightStage <=> s \in InFlightStage
  PROVE  InFlight' = InFlight /\ stage' \in [Requests -> Stages]
BY DEF TypeOK, Move, InFlight

\* A task that is over returns its permit.
LEMMA FinishKeeps ==
  ASSUME IInv, NEW r \in Requests, NEW s \in Stages \ (InFlightStage \cup {"held"}),
         stage[r] \in InFlightStage, Finish(r, s)
  PROVE  IInv'
<1>1. InFlight' = InFlight \ {r} /\ r \in InFlight /\ stage' \in [Requests -> Stages]
  BY DEF IInv, TypeOK, Finish, Move, InFlight
<1>2. Cardinality(InFlight') = Cardinality(InFlight) - 1
  BY <1>1, InFlightFinite, FS_RemoveElement DEF IInv
<1>3. PermitsConserved'
  BY <1>2, InFlightFinite, LimitAssumption DEF IInv, TypeOK, PermitsConserved, Finish
<1>4. permits' \in 0..MaxConcurrency
  <2>1. Cardinality(InFlight') \in Nat
    BY <1>1, <1>2, InFlightFinite, FS_RemoveElement, FS_CardinalityType DEF IInv
  <2> QED
    BY <2>1, <1>3, LimitAssumption DEF IInv, TypeOK, PermitsConserved, Finish
<1>5. TypeOK'
  BY <1>1, <1>4 DEF IInv, TypeOK, Finish
<1>6. At("held")' = At("held")
  BY DEF IInv, TypeOK, Finish, Move, At, InFlightStage
<1>7. OneHeldWhileAcquiring'
  BY <1>6 DEF IInv, OneHeldWhileAcquiring, Finish
<1>8. NothingInFlightWhenStopped'
  BY <1>1, <1>6 DEF IInv, NothingInFlightWhenStopped, Finish
<1> QED
  BY <1>3, <1>5, <1>7, <1>8 DEF IInv

\* The invariant holds before the first request arrives.
LEMMA InitIInv == Init => IInv
<1> SUFFICES ASSUME Init PROVE IInv
  OBVIOUS
<1>1. InFlight = {} /\ At("held") = {}
  BY DEF Init, InFlight, InFlightStage, At
<1>2. TypeOK
  <2>1. "unsent" \in Stages
    BY DEF Stages
  <2>2. stage \in [Requests -> Stages]
    BY <2>1 DEF Init
  <2>3. MaxConcurrency \in 0..MaxConcurrency
    BY LimitAssumption
  <2> QED
    BY <2>2, <2>3 DEF Init, TypeOK
<1>3. PermitsConserved
  BY <1>1, FS_EmptySet, LimitAssumption DEF Init, PermitsConserved
<1>4. OneHeldWhileAcquiring /\ NothingInFlightWhenStopped
  BY <1>1 DEF Init, OneHeldWhileAcquiring, NothingInFlightWhenStopped
<1> QED
  BY <1>2, <1>3, <1>4 DEF IInv

\* Every step of the environment, the loop and a spawned task keeps it.
LEMMA NextIInv == IInv /\ [Next]_vars => IInv'
<1> SUFFICES ASSUME IInv, [Next]_vars PROVE IInv'
  OBVIOUS
<1> USE DEF IInv
<1>1. ASSUME NEW r \in Requests, Deliver(r) PROVE IInv'
  <2>1. InFlight' = InFlight /\ stage' \in [Requests -> Stages]
    BY <1>1, MoveOutside DEF Deliver, Stages, InFlightStage
  <2>2. At("held")' = At("held")
    BY <1>1 DEF Deliver, Move, At, TypeOK
  <2> QED
    BY <1>1, <2>1, <2>2, SameInFlight
    DEF Deliver, TypeOK, OneHeldWhileAcquiring, NothingInFlightWhenStopped
<1>2. ASSUME NEW r \in Requests, Flush(r) PROVE IInv'
  <2>1. InFlight' = InFlight /\ stage' \in [Requests -> Stages]
    BY <1>2, MoveOutside DEF Flush, Stages, Settled, InFlightStage
  <2>2. At("held")' = At("held")
    BY <1>2 DEF Flush, Move, At, TypeOK
  <2> QED
    BY <1>2, <2>1, <2>2, SameInFlight
    DEF Flush, TypeOK, OneHeldWhileAcquiring, NothingInFlightWhenStopped
<1>3. CASE Signal \/ CloseSubscription
  <2>1. InFlight' = InFlight /\ At("held")' = At("held")
    BY <1>3 DEF Signal, CloseSubscription, InFlight, At
  <2> QED
    BY <1>3, <2>1, SameInFlight
    DEF Signal, CloseSubscription, TypeOK, OneHeldWhileAcquiring, NothingInFlightWhenStopped
<1>4. CASE SelectShutdown \/ SelectClosed \/ DrainDone
  <2>1. InFlight' = InFlight /\ At("held")' = At("held")
    BY <1>4 DEF SelectShutdown, SelectClosed, DrainDone, InFlight, At
  <2> QED
    BY <1>4, <2>1, SameInFlight
    DEF SelectShutdown, SelectClosed, DrainDone, TypeOK, OneHeldWhileAcquiring,
        NothingInFlightWhenStopped
<1>5. ASSUME NEW r \in Requests, SelectMessage(r) PROVE IInv'
  <2>1. InFlight' = InFlight /\ stage' \in [Requests -> Stages]
    BY <1>5, MoveOutside DEF SelectMessage, Stages, InFlightStage
  <2>2. At("held")' = {r}
    BY <1>5 DEF SelectMessage, Move, At, TypeOK, OneHeldWhileAcquiring
  <2> QED
    BY <1>5, <2>1, <2>2, SameInFlight
    DEF SelectMessage, TypeOK, OneHeldWhileAcquiring, NothingInFlightWhenStopped
<1>6. CASE Acquire
  <2>1. PICK r \in At("held") : Move(r, "spawned")
    BY <1>6 DEF Acquire
  <2>2. r \in Requests /\ InFlight' = InFlight \cup {r} /\ r \notin InFlight
        /\ stage' \in [Requests -> Stages]
    BY <2>1 DEF Move, At, InFlight, InFlightStage, Stages, TypeOK
  <2>3. At("held")' = {}
    BY <1>6, <2>1 DEF Acquire, Move, At, TypeOK, OneHeldWhileAcquiring
  <2>4. Cardinality(InFlight') = Cardinality(InFlight) + 1
    BY <2>2, InFlightFinite, FS_AddElement
  <2>5. PermitsConserved' /\ permits' \in 0..MaxConcurrency
    BY <1>6, <2>4, InFlightFinite, LimitAssumption DEF Acquire, TypeOK, PermitsConserved
  <2> QED
    BY <1>6, <2>2, <2>3, <2>5
    DEF Acquire, TypeOK, OneHeldWhileAcquiring, NothingInFlightWhenStopped
<1>7. CASE GraceElapses
  <2>1. InFlight' = {} /\ stage' \in [Requests -> Stages]
    BY <1>7 DEF GraceElapses, InFlight, InFlightStage, Stages, TypeOK
  <2>2. At("held")' = At("held")
    BY <1>7 DEF GraceElapses, At, InFlight, InFlightStage, TypeOK
  <2>3. PermitsConserved' /\ permits' \in 0..MaxConcurrency
    BY <1>7, <2>1, FS_EmptySet, InFlightFinite, LimitAssumption
    DEF GraceElapses, TypeOK, PermitsConserved
  <2> QED
    BY <1>7, <2>1, <2>2, <2>3
    DEF GraceElapses, TypeOK, OneHeldWhileAcquiring, NothingInFlightWhenStopped
<1>8. CASE Exit
  <2>1. InFlight' = InFlight /\ stage' \in [Requests -> Stages]
    BY <1>8 DEF Exit, InFlight, InFlightStage, Stages, TypeOK
  <2>2. At("held")' = At("held")
    BY <1>8 DEF Exit, At, TypeOK
  <2> QED
    BY <1>8, <2>1, <2>2, SameInFlight
    DEF Exit, TypeOK, OneHeldWhileAcquiring, NothingInFlightWhenStopped
<1>9. ASSUME NEW r \in Requests, Decode(r) \/ HandlerReturns(r) PROVE IInv'
  <2>1. InFlight' = InFlight /\ stage' \in [Requests -> Stages]
    BY <1>9, MoveOutside DEF Decode, HandlerReturns, Stages, InFlightStage
  <2>2. At("held")' = At("held")
    BY <1>9 DEF Decode, HandlerReturns, Move, At, TypeOK
  <2> QED
    BY <1>9, <2>1, <2>2, SameInFlight
    DEF Decode, HandlerReturns, TypeOK, OneHeldWhileAcquiring, NothingInFlightWhenStopped
<1>10. ASSUME NEW r \in Requests, NackMalformed(r) \/ NackFailed(r) \/ Publish(r)
       PROVE  IInv'
  <2>1. PICK s \in {"nacked", "queued"} : Finish(r, s) /\ stage[r] \in InFlightStage
    BY <1>10 DEF NackMalformed, NackFailed, Publish, InFlightStage
  <2>2. s \in Stages \ (InFlightStage \cup {"held"})
    BY DEF Stages, Settled, InFlightStage
  <2> QED
    BY <2>1, <2>2, FinishKeeps
<1>11. CASE UNCHANGED vars
  <2>1. InFlight' = InFlight /\ At("held")' = At("held")
    BY <1>11 DEF vars, InFlight, At
  <2> QED
    BY <1>11, <2>1, SameInFlight
    DEF vars, TypeOK, OneHeldWhileAcquiring, NothingInFlightWhenStopped
<1> QED
  BY <1>1, <1>2, <1>3, <1>4, <1>5, <1>6, <1>7, <1>8, <1>9, <1>10, <1>11
  DEF Next, Runner, HandleOne

\* The runner's invariant, for any number of requests and any limit.
THEOREM Invariance == Spec => []IInv
<1> QED
  BY InitIInv, NextIInv, PTL DEF Spec

\* Every variable of the runner holds a value of its kind: the semaphore never
\* has more permits than it began with, and none is taken that is not there.
THEOREM TypeCorrect == Spec => []TypeOK
<1>1. IInv => TypeOK
  BY DEF IInv
<1> QED
  BY <1>1, Invariance, PTL

\* However tasks end, permits and tasks in flight add up to max_concurrency, so
\* no more than that many requests are ever in flight and no permit is lost.
THEOREM PermitsAlwaysConserved == Spec => []PermitsConserved
<1>1. IInv => PermitsConserved
  BY DEF IInv
<1> QED
  BY <1>1, Invariance, PTL

\* A request taken off the subscription is handed to a task: a shutdown never
\* finds the loop with a message in its hands.
THEOREM HeldIsHandedOver == Spec => []OneHeldWhileAcquiring
<1>1. IInv => OneHeldWhileAcquiring
  BY DEF IInv
<1> QED
  BY <1>1, Invariance, PTL

\* run never returns while a task is in flight or a message in the loop's hands.
THEOREM StopsQuietly == Spec => []NothingInFlightWhenStopped
<1>1. IInv => NothingInFlightWhenStopped
  BY DEF IInv
<1> QED
  BY <1>1, Invariance, PTL
=============================================================================
