------------------------- MODULE JobFlowTimeProofs -------------------------
(***************************************************************************)
(* The clock: the active deadline, the TTL and the timeouts of the steps,  *)
(* judged on copies of the JobFlow that may be old.                        *)
(*                                                                         *)
(* Each argument compares what a copy says with what is stored.  The start *)
(* of a JobFlow is stored once, with its first phase, so that a            *)
(* reconciliation gets past the deadline check only before the deadline of *)
(* the stored JobFlow too, and the clock does not go back.  A worker comes *)
(* to the TTL check with the status it has just stored.  And no copy has   *)
(* an older start of a step than the Job that is there for it.             *)
(***************************************************************************)
EXTENDS JobFlowSuccessProofs

Overdue(f) ==
  \E i \in 1 .. Len(f.conditions) : f.conditions[i].reason = "ActiveDeadlineExceeded"
OverdueCopy(f) == Overdue(f) => f.phase = "Failed" /\ After(f.startTime, ActiveDeadline)

Phased(f) == f.listed => f.phase # ""
SameStart(f, g) == f.phase # "" => g.phase # "" /\ g.startTime = f.startTime

DeadlineInv ==
  /\ OverdueCopy(flow) /\ OverdueCopy(cacheFlow) /\ OverdueCopy(local)
  /\ Phased(flow) /\ Phased(cacheFlow) /\ Phased(local)
  /\ flow.exists => SameStart(cacheFlow, flow) /\ SameStart(local, flow)
  /\ pc = "check" /\ localCurrent => local = flow
  /\ pc = "execute" => ~Overdue(local) /\ ~Overdue(flow) /\ local.phase # ""

----------------------------------------------------------------------------
(* The methods of the reconciler.                                           *)

(* What every method after the deadline check leaves as it is.              *)
Carried(f, g) ==
  /\ g.startTime = f.startTime /\ g.listed = f.listed
  /\ f.phase # "" => g.phase # ""
  /\ Overdue(g) => Overdue(f)

LEMMA CarriedOn ==
  ASSUME NEW f, NEW g, NEW h, Carried(f, g), Carried(g, h)
  PROVE  Carried(f, h)
  BY DEF Carried

CarriedWithConditions(f, g) ==
  /\ g.startTime = f.startTime /\ g.listed = f.listed /\ g.conditions = f.conditions
  /\ f.phase # "" => g.phase # ""

LEMMA SameConditions ==
  ASSUME NEW f, NEW g, CarriedWithConditions(f, g)
  PROVE  Carried(f, g)
  BY DEF CarriedWithConditions, Carried, Overdue

LEMMA PlanCarries ==
  ASSUME NEW f \in Flow
  PROVE  /\ Carried(f, checkManualApprovals(f)) /\ Carried(f, refreshStepStatuses(f))
         /\ Carried(f, checkStepTimeouts(f)) /\ Carried(f, handleStepRetries(f))
<1>1. CarriedWithConditions(f, checkManualApprovals(f))
  BY DEF CarriedWithConditions, checkManualApprovals, Flow
<1>2. CarriedWithConditions(f, refreshStepStatuses(f))
  BY DEF CarriedWithConditions, refreshStepStatuses, Flow
<1>3. CarriedWithConditions(f, checkStepTimeouts(f))
  BY DEF CarriedWithConditions, checkStepTimeouts, Flow
<1>4. CarriedWithConditions(f, handleStepRetries(f))
  BY DEF CarriedWithConditions, handleStepRetries, Flow
<1> QED
  BY <1>1, <1>2, <1>3, <1>4, SameConditions

LEMMA ExecuteCarries ==
  ASSUME NEW f \in Flow, NEW s \in Steps
  PROVE  /\ Carried(f, handleStepFailure(f, s)) /\ Carried(f, Start(f, s))
         /\ Carried(f, Gate(f, s))
<1>1. CarriedWithConditions(f, handleStepFailure(f, s))
  BY DEF CarriedWithConditions, handleStepFailure, Flow
<1>2. CarriedWithConditions(f, Start(f, s))
  BY DEF CarriedWithConditions, Start, Flow
<1>3. CarriedWithConditions(f, Gate(f, s))
  BY DEF CarriedWithConditions, Gate, Flow
<1> QED
  BY <1>1, <1>2, <1>3, SameConditions

(* The Ready condition replaced by updateConditions is never the deadline's.*)
LEMMA UpdateCarries ==
  ASSUME NEW f \in Flow
  PROVE  Carried(f, updateJobFlowStatus(f))
<1> DEFINE g == updateJobFlowStatus(f)
<1>1. g.startTime = f.startTime /\ g.listed = f.listed
  BY DEF updateJobFlowStatus, updateConditions, Flow
<1>2. f.phase # "" => g.phase # ""
  BY DEF updateJobFlowStatus, updateConditions, Flow
<1>3. \E ready : /\ ready.reason # "ActiveDeadlineExceeded"
                 /\ g.conditions = IF f.conditions = <<>> THEN <<ready>>
                                   ELSE [f.conditions EXCEPT ![1] = ready]
  <2> DEFINE ready == [reason |-> ReadyReason(g.phase), at |-> now]
  <2>1. g.conditions = IF f.conditions = <<>> THEN <<ready>>
                       ELSE [f.conditions EXCEPT ![1] = ready]
    BY DEF updateJobFlowStatus, updateConditions, Flow
  <2>2. ready.reason # "ActiveDeadlineExceeded"
    BY DEF ReadyReason
  <2> QED
    BY <2>1, <2>2
<1> HIDE DEF g
<1>4. Overdue(g) => Overdue(f)
  BY <1>3 DEF Overdue, Flow
<1>5. Carried(f, g)
  BY <1>1, <1>2, <1>4 DEF Carried
<1> QED
  BY <1>5 DEF g

LEMMA RejectOverdue ==
  ASSUME NEW f \in Flow, NEW reason, now \in Nat,
         \/ reason \in {"ValidationFailed", "BackoffLimitExceeded", "DAGCycle"}
         \/ reason = "ActiveDeadlineExceeded" /\ After(f.startTime, ActiveDeadline),
         OverdueCopy(f),
         NEW g \in {Reject(f, reason), RejectAndComplete(f, reason)}
  PROVE  OverdueCopy(g) /\ g.phase = "Failed" /\ g.startTime = f.startTime
<1> DEFINE c == [reason |-> reason, at |-> now]
<1>1. /\ g.conditions = Append(f.conditions, c)
      /\ g.phase = "Failed" /\ g.startTime = f.startTime
  BY DEF Reject, RejectAndComplete, Flow
<1>2. Overdue(g) => Overdue(f) \/ reason = "ActiveDeadlineExceeded"
  <2> SUFFICES ASSUME NEW i \in 1 .. Len(Append(f.conditions, c)),
                      Append(f.conditions, c)[i].reason = "ActiveDeadlineExceeded",
                      reason # "ActiveDeadlineExceeded"
               PROVE  Overdue(f)
    BY <1>1 DEF Overdue
  <2>1. f.conditions \in Seq(Condition)
    BY DEF Flow
  <2>2. i \in 1 .. Len(f.conditions) /\ Append(f.conditions, c)[i] = f.conditions[i]
    BY <2>1
  <2> QED
    BY <2>2 DEF Overdue
<1> QED
  BY <1>1, <1>2 DEF OverdueCopy
----------------------------------------------------------------------------
(* DeadlineInv is an invariant.                                             *)

LEMMA ClockRuns ==
  ASSUME TypeOK, [Next]_vars
  PROVE  now' \in Nat /\ now <= now'
<1>0. now \in Nat
  BY DEF TypeOK
<1>1. CASE Worker \/ Crash
  <2>1. now' = now
    BY <1>1 DEF Worker, Dequeue, FailValidation, FailDeadline, FailBackoff, Initialize,
       FailCycle, Exit, PlanSteps, Finish, CheckTTL, Crash, StepStatusNotFound,
       ReachGate, StartJob
  <2> QED
    BY <1>0, <2>1
<1>2. CASE Informers \/ Cluster \/ UNCHANGED vars
  BY <1>0, <1>2 DEF Informers, SyncFlow, SyncJob, Resync, Cluster, EditFlow, DeleteFlow,
     Tick, ApproveStep, OtherWriter, PodEnds, JobEnds, DeleteJob, CollectJob,
     ChangeJob, vars
<1> QED
  BY <1>1, <1>2 DEF Next

LEMMA OverdueLater ==
  ASSUME TypeOK, [Next]_vars, NEW f \in Flow, After(f.startTime, ActiveDeadline)
  PROVE  After(f.startTime, ActiveDeadline)'
<1>1. now' \in Nat /\ now \in Nat /\ now <= now'
  BY ClockRuns DEF TypeOK
<1>2. f.startTime \in Int /\ ActiveDeadline \in Int
  BY PolicyAssumption DEF Flow, Times, NoTime, Unset
<1> QED
  BY <1>1, <1>2 DEF After
LEMMA NothingOverdue ==
  /\ ~Overdue(NoFlow) /\ Phased(NoFlow) /\ OverdueCopy(NoFlow)
  /\ \A g : SameStart(NoFlow, g)
  BY EmptySeq DEF Overdue, OverdueCopy, Phased, SameStart, NoFlow, NewFlow

(* What every action has to establish, by the clock before it.              *)
CopiesInTime(f, c, l) ==
  /\ OverdueCopy(f) /\ OverdueCopy(c) /\ OverdueCopy(l)
  /\ Phased(f) /\ Phased(c) /\ Phased(l)
  /\ f.exists => SameStart(c, f) /\ SameStart(l, f)

LEMMA DeadlineKept ==
  ASSUME TypeOK, TypeOK', [Next]_vars, CopiesInTime(flow', cacheFlow', local'),
         pc' = "check" /\ localCurrent' => local' = flow',
         pc' = "execute" => ~Overdue(local') /\ ~Overdue(flow') /\ local'.phase # ""
  PROVE  DeadlineInv'
<1>1. flow' \in Flow /\ cacheFlow' \in Flow /\ local' \in Flow
  BY DEF TypeOK
<1>2. OverdueCopy(flow)' /\ OverdueCopy(cacheFlow)' /\ OverdueCopy(local)'
  <2>1. \A f \in Flow : OverdueCopy(f) =>
          (Overdue(f) => f.phase = "Failed" /\ After(f.startTime, ActiveDeadline)')
    BY OverdueLater DEF OverdueCopy
  <2> QED
    BY <1>1, <2>1 DEF CopiesInTime, OverdueCopy, Overdue, After
<1> QED
  BY <1>2 DEF DeadlineInv, CopiesInTime, Phased, SameStart, Overdue

(* An exit before the plan, from a copy that may be old: the server takes   *)
(* it only if it is the stored JobFlow.                                     *)
LEMMA ExitInTime ==
  ASSUME TypeOK, TypeOK', [Next]_vars, Alive, DeadlineInv, NEW verdict, NEW f,
         Exit(verdict, f), OverdueCopy(f), Phased(f),
         local.phase = "" \/ (f.phase # "" /\ f.startTime = local.startTime)
  PROVE  DeadlineInv'
<1>1. pc' = "idle" /\ local' = NoFlow /\ cacheFlow' = cacheFlow /\ pc = "check"
  BY DEF Exit, WriteAndReturn, Return, caches
<1>2. flow' = flow \/ (flow' = f /\ localCurrent)
  BY DEF Exit, WriteAndReturn, Written, NotWritten, Refused
<1>3. CASE flow' = flow
  BY <1>1, <1>3, NothingOverdue, DeadlineKept DEF DeadlineInv, CopiesInTime
<1>4. CASE flow' = f /\ localCurrent
  <2>1. local = flow /\ flow.exists
    BY <1>1, <1>4 DEF DeadlineInv, Alive
  <2>2. SameStart(cacheFlow, f)
    BY <2>1 DEF DeadlineInv, SameStart
  <2> QED
    BY <1>1, <1>4, <2>2, NothingOverdue, DeadlineKept DEF DeadlineInv, CopiesInTime
<1> QED
  BY <1>2, <1>3, <1>4

LEMMA RejectInTime ==
  ASSUME TypeOK, TypeOK', [Next]_vars, Alive, DeadlineInv, NEW verdict, NEW reason,
         \/ reason \in {"ValidationFailed", "BackoffLimitExceeded", "DAGCycle"}
         \/ reason = "ActiveDeadlineExceeded" /\ After(local.startTime, ActiveDeadline),
         NEW f \in {Reject(local, reason), RejectAndComplete(local, reason)},
         Exit(verdict, f)
  PROVE  DeadlineInv'
<1>1. local \in Flow /\ now \in Nat /\ OverdueCopy(local)
  BY DEF TypeOK, DeadlineInv
<1>2. OverdueCopy(f) /\ f.phase = "Failed" /\ f.startTime = local.startTime
  BY <1>1, RejectOverdue
<1> QED
  BY <1>2, ExitInTime DEF Phased

LEMMA InitializeInTime ==
  ASSUME TypeOK, TypeOK', [Next]_vars, Alive, DeadlineInv, Initialize
  PROVE  DeadlineInv'
<1> DEFINE f == initializeJobFlow(local)
<1>1. local.phase = "" /\ local \in Flow
  BY DEF Initialize, Exit, Verdict, hasInitialized, TypeOK
<1>2. ~Overdue(local)
  BY <1>1 DEF DeadlineInv, OverdueCopy
<1>3. f.conditions = local.conditions /\ f.phase = "Pending"
  BY <1>1 DEF initializeJobFlow, Flow
<1>4. Exit("new", f)
  BY DEF Initialize
<1> HIDE DEF f
<1>5. OverdueCopy(f) /\ Phased(f)
  BY <1>2, <1>3 DEF OverdueCopy, Overdue, Phased
<1> QED
  BY <1>1, <1>4, <1>5, ExitInTime

LEMMA PlanStepsInTime ==
  ASSUME TypeOK, TypeOK', [Next]_vars, Alive, DeadlineInv, PlanSteps
  PROVE  DeadlineInv'
<1> DEFINE approved  == checkManualApprovals(local)
           refreshed == refreshStepStatuses(approved)
           checked   == checkStepTimeouts(refreshed)
           retried   == handleStepRetries(checked)
<1>1. now \in Nat /\ local \in Flow /\ approved \in Flow /\ refreshed \in Flow /\ checked \in Flow
  BY CheckApprovalsType, RefreshType, TimeoutsType DEF TypeOK
<1>2. Carried(local, retried)
  BY <1>1, PlanCarries, CarriedOn
<1>3. local' = retried /\ flow' = flow /\ cacheFlow' = cacheFlow /\ pc' = "execute"
  BY DEF PlanSteps, caches
<1>4. ~After(local.startTime, ActiveDeadline) /\ hasInitialized(local)
  BY DEF PlanSteps, Verdict, checkActiveDeadline
<1> HIDE DEF retried
<1>5. local.phase # "" /\ ~Overdue(local)
  BY <1>4 DEF DeadlineInv, Phased, OverdueCopy, hasInitialized
<1>6. ~Overdue(flow)
  <2>1. CASE flow.exists
    BY <1>4, <1>5, <2>1 DEF DeadlineInv, SameStart, OverdueCopy
  <2>2. CASE ~flow.exists
    BY <2>2, NothingOverdue DEF Alive
  <2> QED
    BY <2>1, <2>2
<1>7. ~Overdue(local') /\ local'.phase # "" /\ local'.startTime = local.startTime
  BY <1>2, <1>3, <1>5 DEF Carried
<1>8. CopiesInTime(flow', cacheFlow', local')
  BY <1>3, <1>5, <1>7 DEF DeadlineInv, CopiesInTime, OverdueCopy, Phased, SameStart
<1> QED
  BY <1>3, <1>6, <1>7, <1>8, DeadlineKept

(* What is written and kept while the plan is executed comes from the       *)
(* worker's copy by the methods.                                            *)
LEMMA ExecuteInTime ==
  ASSUME TypeOK, TypeOK', [Next]_vars, Alive, DeadlineInv, pc = "execute",
         cacheFlow' = cacheFlow,
         flow' = flow \/ (localCurrent /\ Carried(local, flow')),
         \/ Carried(local, local') /\ pc' # "check"
         \/ local' = NoFlow /\ pc' = "idle"
  PROVE  DeadlineInv'
<1>1. ~Overdue(local) /\ ~Overdue(flow) /\ local.phase # ""
  BY DEF DeadlineInv
<1>2. ~Overdue(flow') /\ Phased(flow')
      /\ (flow'.exists => SameStart(cacheFlow', flow') /\ SameStart(local, flow'))
  <2>1. CASE flow' = flow
    BY <1>1, <2>1 DEF DeadlineInv
  <2>2. CASE localCurrent /\ Carried(local, flow')
    <3>1. flow.exists
      BY <2>2 DEF Alive
    <3>2. SameStart(local, flow') /\ SameStart(cacheFlow, flow')
      BY <1>1, <2>2, <3>1 DEF DeadlineInv, Carried, SameStart
    <3> QED
      BY <1>1, <2>2, <3>2 DEF Carried, Phased
  <2> QED
    BY <2>1, <2>2
<1>3. CASE Carried(local, local') /\ pc' # "check"
  <2>1. ~Overdue(local') /\ Phased(local') /\ local'.phase # ""
        /\ (flow'.exists => SameStart(local', flow'))
    BY <1>1, <1>2, <1>3 DEF Carried, Phased, SameStart
  <2> QED
    BY <1>2, <1>3, <2>1, DeadlineKept DEF DeadlineInv, CopiesInTime, OverdueCopy
<1>4. CASE local' = NoFlow /\ pc' = "idle"
  BY <1>2, <1>4, NothingOverdue, DeadlineKept DEF DeadlineInv, CopiesInTime, OverdueCopy
<1> QED
  BY <1>3, <1>4

LEMMA ReachGateInTime ==
  ASSUME TypeOK, TypeOK', [Next]_vars, Alive, DeadlineInv, NEW s \in Steps, ReachGate(s)
  PROVE  DeadlineInv'
<1> DEFINE g == Gate(local, s)
           failed == handleStepFailure(g, s)
<1>1. /\ now \in Nat /\ local \in Flow /\ g \in Flow
      /\ pc = "execute" /\ cacheFlow' = cacheFlow
  BY GateType DEF TypeOK, ReachGate, caches
<1>2. Carried(local, g) /\ Carried(local, failed)
  BY <1>1, ExecuteCarries, CarriedOn
<1>3. \/ local' \in {g, failed} /\ pc' = pc
      \/ local' = NoFlow /\ pc' = "idle"
  BY DEF ReachGate, StepFailed, StepDone, Return
<1>4. flow' = flow \/ (localCurrent /\ flow' = g)
  BY DEF ReachGate, Written, NotWritten, Refused
<1> HIDE DEF g, failed
<1> QED
  BY <1>1, <1>2, <1>3, <1>4, ExecuteInTime

LEMMA StartJobInTime ==
  ASSUME TypeOK, TypeOK', [Next]_vars, Alive, DeadlineInv, NEW s \in Steps, StartJob(s)
  PROVE  DeadlineInv'
<1>1. local \in Flow /\ pc = "execute" /\ cacheFlow' = cacheFlow /\ flow' = flow
  BY DEF TypeOK, StartJob, caches
<1>2. Carried(local, Start(local, s)) /\ Carried(local, handleStepFailure(local, s))
  BY <1>1, ExecuteCarries
<1>3. \/ local' \in {Start(local, s), handleStepFailure(local, s)} /\ pc' = pc
      \/ local' = NoFlow /\ pc' = "idle"
  BY DEF StartJob, StepFailed, StepDone, Return
<1> QED
  BY <1>1, <1>2, <1>3, ExecuteInTime

LEMMA FinishInTime ==
  ASSUME TypeOK, TypeOK', [Next]_vars, Alive, DeadlineInv, Finish
  PROVE  DeadlineInv'
<1> DEFINE f == updateJobFlowStatus(local)
<1>1. local \in Flow /\ pc = "execute" /\ cacheFlow' = cacheFlow
  BY DEF TypeOK, Finish, caches
<1>2. Carried(local, f)
  BY <1>1, UpdateCarries
<1>3. /\ flow' = flow \/ (localCurrent /\ flow' = f)
      /\ (local' = f /\ pc' = "ttl") \/ (local' = NoFlow /\ pc' = "idle")
  BY DEF Finish, Written, NotWritten, Refused, Return
<1> HIDE DEF f
<1> QED
  BY <1>1, <1>2, <1>3, ExecuteInTime

LEMMA WorkerInTime ==
  ASSUME TypeOK, TypeOK', [Next]_vars, Alive, DeadlineInv, Worker \/ Crash
  PROVE  DeadlineInv'
<1>1. CASE FailValidation
  BY <1>1, RejectInTime DEF FailValidation
<1>2. CASE FailDeadline
  BY <1>2, RejectInTime DEF FailDeadline, Exit, Verdict, checkActiveDeadline
<1>3. CASE FailBackoff
  BY <1>3, RejectInTime DEF FailBackoff
<1>4. CASE Initialize
  BY <1>4, InitializeInTime
<1>5. CASE FailCycle
  BY <1>5, RejectInTime DEF FailCycle
<1>6. CASE PlanSteps
  BY <1>6, PlanStepsInTime
<1>7. ASSUME NEW s \in Steps, ReachGate(s) PROVE DeadlineInv'
  BY <1>7, ReachGateInTime
<1>8. ASSUME NEW s \in Steps, StartJob(s) PROVE DeadlineInv'
  BY <1>8, StartJobInTime
<1>9. CASE Dequeue
  <2>1. /\ flow' = flow /\ cacheFlow' = cacheFlow
        /\ \/ local' = cacheFlow /\ localCurrent' = cacheCurrent /\ pc' = "check"
           \/ local' = local /\ localCurrent' = localCurrent /\ pc' = "idle"
    BY <1>9 DEF Dequeue, server, caches
  <2>2. pc' = "check" /\ localCurrent' => local' = flow'
    BY <2>1 DEF Alive
  <2>3. pc' # "execute" /\ CopiesInTime(flow', cacheFlow', local')
    BY <2>1 DEF DeadlineInv, CopiesInTime
  <2> QED
    BY <2>2, <2>3, DeadlineKept
<1>10. CASE Finish
  BY <1>10, FinishInTime
<1>11. CASE CheckTTL
  <2>1. /\ flow' \in {flow, NoFlow} /\ cacheFlow' = cacheFlow
        /\ local' = NoFlow /\ pc' = "idle"
    BY <1>11 DEF CheckTTL, RemoveFlow, Return, caches
  <2>2. ~NoFlow.exists
    BY DEF NoFlow, NewFlow
  <2> QED
    BY <2>1, <2>2, NothingOverdue, DeadlineKept DEF DeadlineInv, CopiesInTime
<1>12. CASE Crash
  <2>1. flow' = flow /\ cacheFlow' = flow /\ local' = NoFlow /\ pc' = "idle"
    BY <1>12 DEF Crash, Return, server
  <2> QED
    BY <2>1, NothingOverdue, DeadlineKept DEF DeadlineInv, CopiesInTime, SameStart
<1>13. ASSUME NEW s \in Steps, StepStatusNotFound(s) PROVE DeadlineInv'
  <2>1. flow' = flow /\ cacheFlow' = cacheFlow /\ local' = NoFlow /\ pc' = "idle"
    BY <1>13 DEF StepStatusNotFound, Return, server, caches
  <2> QED
    BY <2>1, NothingOverdue, DeadlineKept DEF DeadlineInv, CopiesInTime
<1> QED
  BY <1>1, <1>2, <1>3, <1>4, <1>5, <1>6, <1>7, <1>8, <1>9, <1>10, <1>11, <1>12,
     <1>13 DEF Worker

LEMMA OthersInTime ==
  ASSUME TypeOK, TypeOK', [Next]_vars, Alive, DeadlineInv,
         Informers \/ Cluster \/ UNCHANGED vars
  PROVE  DeadlineInv'
<1>1. UNCHANGED <<pc, local>>
  BY DEF Informers, SyncFlow, SyncJob, Resync, Cluster, EditFlow, DeleteFlow, Tick,
         ApproveStep, OtherWriter, PodEnds, JobEnds, DeleteJob, CollectJob, ChangeJob,
         vars, worker
<1>2. \/ cacheFlow' \in {cacheFlow, flow} /\ UNCHANGED <<flow, localCurrent>>
      \/ ~localCurrent' /\ flow.exists /\ cacheFlow' = cacheFlow
  BY DEF Informers, SyncFlow, SyncJob, Resync, Cluster, EditFlow, DeleteFlow, Tick,
         ApproveStep, OtherWriter, PodEnds, JobEnds, DeleteJob, CollectJob, ChangeJob,
         vars, caches, server, worker
<1>3. \/ flow' \in {flow, NoFlow}
      \/ \E v : flow' = [flow EXCEPT !.valid = v]
      \/ \E s \in Steps : flow' = [flow EXCEPT !.approved = @ \cup {s}]
  BY DEF Informers, SyncFlow, SyncJob, Resync, Cluster, EditFlow, DeleteFlow, Tick,
         ApproveStep, OtherWriter, PodEnds, JobEnds, DeleteJob, CollectJob, ChangeJob,
         vars, server
<1>4. \/ flow' = NoFlow /\ ~flow'.exists
      \/ /\ flow'.phase = flow.phase /\ flow'.startTime = flow.startTime
         /\ flow'.listed = flow.listed /\ flow'.conditions = flow.conditions
  <2>1. ~NoFlow.exists
    BY DEF NoFlow, NewFlow
  <2> QED
    BY <1>3, <2>1 DEF TypeOK, Flow
<1>5. CASE cacheFlow' \in {cacheFlow, flow} /\ UNCHANGED <<flow, localCurrent>>
  BY <1>1, <1>5, DeadlineKept DEF DeadlineInv, CopiesInTime, SameStart
<1>6. CASE ~localCurrent' /\ flow.exists /\ cacheFlow' = cacheFlow
  <2>1. OverdueCopy(flow') /\ Phased(flow') /\ (Overdue(flow') => Overdue(flow))
    BY <1>4, NothingOverdue DEF DeadlineInv, OverdueCopy, Overdue, Phased
  <2>2. flow'.exists => SameStart(cacheFlow, flow') /\ SameStart(local, flow')
    BY <1>4, <1>6 DEF DeadlineInv, SameStart
  <2> QED
    BY <1>1, <1>6, <2>1, <2>2, DeadlineKept DEF DeadlineInv, CopiesInTime
<1> QED
  BY <1>2, <1>5, <1>6

LEMMA DeadlineInit == Init => DeadlineInv
<1> SUFFICES ASSUME Init PROVE DeadlineInv
  OBVIOUS
<1>1. /\ flow.conditions = <<>> /\ flow.phase = "" /\ flow.listed = FALSE
      /\ cacheFlow = flow /\ local = NoFlow /\ pc = "idle"
  BY DEF Init, NewFlow
<1>2. ~Overdue(flow)
  <2>1. NoFlow.conditions = <<>>
    BY DEF NoFlow, NewFlow
  <2> QED
    BY <1>1, <2>1, NothingOverdue DEF Overdue
<1> QED
  BY <1>1, <1>2, NothingOverdue DEF DeadlineInv, OverdueCopy, Phased, SameStart

(* Once the active deadline has failed the JobFlow, no step is begun again  *)
(* and no reconciliation revives it, whatever copy it reads and whatever    *)
(* else is edited, lost or refused.                                         *)
THEOREM DeadlineIsKept == Spec => DeadlineIsFinal
<1> DEFINE Late == FailedFor("ActiveDeadlineExceeded")
           Rests == begun' = begun /\ (flow'.exists => flow'.phase = "Failed")
<1>1. TypeOK /\ TypeOK' /\ Alive /\ DeadlineInv /\ [Next]_vars => DeadlineInv'
  BY WorkerInTime, OthersInTime DEF Next
<1>2. TypeOK /\ Alive /\ DeadlineInv /\ [Next]_vars => [Late => Rests]_vars
  <2> SUFFICES ASSUME TypeOK, Alive, DeadlineInv, [Next]_vars, Late
               PROVE  Rests
    OBVIOUS
  <2>1. flow.phase = "Failed" /\ pc # "execute"
    BY DEF FailedFor, DeadlineInv, OverdueCopy, Overdue
  <2>2. begun' = begun
    BY <2>1, BegunInExecute
  <2>3. ASSUME NEW verdict, NEW f, Exit(verdict, f), f.phase = "Failed" \/ verdict = "new"
        PROVE  flow'.phase = "Failed"
    <3>1. flow' = flow \/ (flow' = f /\ localCurrent)
      BY <2>3 DEF Exit, WriteAndReturn, Written, NotWritten, Refused
    <3>2. verdict = "new" /\ localCurrent => local = flow /\ local.phase = ""
      BY <2>3 DEF Exit, Verdict, hasInitialized, DeadlineInv
    <3> QED
      BY <2>1, <2>3, <3>1, <3>2
  <2>4. \A reason : /\ Reject(local, reason).phase = "Failed"
                    /\ RejectAndComplete(local, reason).phase = "Failed"
    BY DEF Reject, RejectAndComplete, TypeOK, Flow
  <2>5. CASE Worker \/ Crash
    <3>1. CASE FailValidation \/ FailDeadline \/ FailBackoff \/ Initialize \/ FailCycle
      <4>1. \E verdict, f : Exit(verdict, f) /\ (f.phase = "Failed" \/ verdict = "new")
        BY <3>1, <2>4
           DEF FailValidation, FailDeadline, FailBackoff, Initialize, FailCycle
      <4> QED
        BY <2>2, <2>3, <4>1
    <3>2. CASE \/ Dequeue \/ PlanSteps \/ Finish \/ CheckTTL \/ Crash
               \/ \E s \in Steps : StepStatusNotFound(s) \/ ReachGate(s) \/ StartJob(s)
      <4>1. flow' \in {flow, NoFlow}
        BY <2>1, <3>2 DEF Dequeue, PlanSteps, Finish, CheckTTL, RemoveFlow, Crash,
           StepStatusNotFound, ReachGate, StartJob, server
      <4> QED
        BY <2>1, <2>2, <4>1 DEF NoFlow, NewFlow
    <3> QED
      BY <2>2, <2>5, <3>1, <3>2 DEF Worker
  <2>6. CASE Informers \/ Cluster \/ UNCHANGED vars
    <3>1. \/ flow' \in {flow, NoFlow}
          \/ \E v : flow' = [flow EXCEPT !.valid = v]
          \/ \E s \in Steps : flow' = [flow EXCEPT !.approved = @ \cup {s}]
      BY <2>6 DEF Informers, SyncFlow, SyncJob, Resync, Cluster, EditFlow, DeleteFlow,
         Tick, ApproveStep, OtherWriter, PodEnds, JobEnds, DeleteJob, CollectJob,
         ChangeJob, vars, server
    <3>2. ~NoFlow.exists
      BY DEF NoFlow, NewFlow
    <3> QED
      BY <2>1, <2>2, <3>1, <3>2 DEF TypeOK, Flow
  <2> QED
    BY <2>5, <2>6 DEF Next
<1> QED
  BY <1>1, <1>2, DeadlineInit, AliveInvariant, PTL DEF Spec, DeadlineIsFinal
----------------------------------------------------------------------------
(* The TTL.  No copy was completed in the future, and what the TTL check    *)
(* judges is what is stored, as far as it judges it.                        *)

EndedInTime(f, clock) == f.completionTime <= clock

TTLInv ==
  /\ EndedInTime(flow, now) /\ EndedInTime(cacheFlow, now) /\ EndedInTime(local, now)
  /\ pc = "ttl" /\ flow.exists =>
       flow.phase = local.phase /\ flow.completionTime = local.completionTime

LEMMA MethodsEndInTime ==
  ASSUME NEW f \in Flow, now \in Nat, EndedInTime(f, now)
  PROVE  /\ \A reason : /\ EndedInTime(Reject(f, reason), now)
                        /\ EndedInTime(RejectAndComplete(f, reason), now)
         /\ EndedInTime(initializeJobFlow(f), now)
         /\ EndedInTime(checkManualApprovals(f), now)
         /\ EndedInTime(refreshStepStatuses(f), now)
         /\ EndedInTime(checkStepTimeouts(f), now)
         /\ EndedInTime(handleStepRetries(f), now)
         /\ EndedInTime(updateJobFlowStatus(f), now)
         /\ \A s \in Steps : /\ EndedInTime(handleStepFailure(f, s), now)
                             /\ EndedInTime(Start(f, s), now)
                             /\ EndedInTime(Gate(f, s), now)
<1>1. \A reason : /\ EndedInTime(Reject(f, reason), now)
                  /\ EndedInTime(RejectAndComplete(f, reason), now)
  BY DEF EndedInTime, Reject, RejectAndComplete, Flow
<1>2. EndedInTime(initializeJobFlow(f), now)
  BY DEF EndedInTime, initializeJobFlow, Flow
<1>3. EndedInTime(checkManualApprovals(f), now) /\ EndedInTime(refreshStepStatuses(f), now)
  BY DEF EndedInTime, checkManualApprovals, refreshStepStatuses, Flow
<1>4. EndedInTime(checkStepTimeouts(f), now) /\ EndedInTime(handleStepRetries(f), now)
  BY DEF EndedInTime, checkStepTimeouts, handleStepRetries, Flow
<1>5. EndedInTime(updateJobFlowStatus(f), now)
  BY DEF EndedInTime, updateJobFlowStatus, updateConditions, Flow
<1>6. \A s \in Steps : /\ EndedInTime(handleStepFailure(f, s), now)
                       /\ EndedInTime(Start(f, s), now)
                       /\ EndedInTime(Gate(f, s), now)
  BY DEF EndedInTime, handleStepFailure, Start, Gate, Flow
<1> QED
  BY <1>1, <1>2, <1>3, <1>4, <1>5, <1>6

LEMMA NothingEnded ==
  ASSUME now \in Nat
  PROVE  EndedInTime(NewFlow, now) /\ EndedInTime(NoFlow, now)
  BY DEF EndedInTime, NewFlow, NoFlow, NoTime

LEMMA TTLKept ==
  ASSUME TypeOK, TypeOK', [Next]_vars,
         EndedInTime(flow', now), EndedInTime(cacheFlow', now), EndedInTime(local', now),
         pc' = "ttl" /\ flow'.exists =>
           flow'.phase = local'.phase /\ flow'.completionTime = local'.completionTime
  PROVE  TTLInv'
<1>1. now' \in Nat /\ now \in Nat /\ now <= now'
  BY ClockRuns DEF TypeOK
<1>2. /\ flow'.completionTime \in Int /\ cacheFlow'.completionTime \in Int
      /\ local'.completionTime \in Int
  <2>1. \A f \in Flow : f.completionTime \in Int
    BY DEF Flow, Times, NoTime
  <2>2. flow' \in Flow /\ cacheFlow' \in Flow /\ local' \in Flow
    BY DEF TypeOK
  <2> QED
    BY <2>1, <2>2
<1>3. /\ flow'.completionTime <= now' /\ cacheFlow'.completionTime <= now'
      /\ local'.completionTime <= now'
  BY <1>1, <1>2 DEF EndedInTime
<1> QED
  BY <1>3 DEF TTLInv, EndedInTime

LEMMA ExitTTL ==
  ASSUME TypeOK, TypeOK', [Next]_vars, TTLInv, NEW verdict, NEW f,
         Exit(verdict, f), EndedInTime(f, now)
  PROVE  TTLInv'
<1>1. /\ pc' = "idle" /\ local' = NoFlow /\ cacheFlow' = cacheFlow /\ flow' \in {flow, f}
      /\ now \in Nat
  BY DEF Exit, WriteAndReturn, Written, NotWritten, Refused, Return, caches, TypeOK
<1> QED
  BY <1>1, NothingEnded, TTLKept DEF TTLInv

LEMMA PlanStepsTTL ==
  ASSUME TypeOK, TypeOK', [Next]_vars, TTLInv, PlanSteps
  PROVE  TTLInv'
<1> DEFINE approved  == checkManualApprovals(local)
           refreshed == refreshStepStatuses(approved)
           checked   == checkStepTimeouts(refreshed)
           retried   == handleStepRetries(checked)
<1>1. now \in Nat /\ local \in Flow /\ approved \in Flow /\ refreshed \in Flow /\ checked \in Flow
  BY CheckApprovalsType, RefreshType, TimeoutsType DEF TypeOK
<1>2. EndedInTime(refreshed, now)
  BY <1>1, MethodsEndInTime DEF TTLInv
<1>3. EndedInTime(retried, now)
  BY <1>1, <1>2, MethodsEndInTime
<1>4. local' = retried /\ flow' = flow /\ cacheFlow' = cacheFlow /\ pc' = "execute"
  BY DEF PlanSteps, caches
<1> HIDE DEF retried
<1> QED
  BY <1>3, <1>4, TTLKept DEF TTLInv

LEMMA ExecuteStepTTL ==
  ASSUME TypeOK, TypeOK', [Next]_vars, TTLInv, NEW s \in Steps, ReachGate(s) \/ StartJob(s)
  PROVE  TTLInv'
<1> DEFINE g == Gate(local, s)
<1>1. now \in Nat /\ local \in Flow /\ g \in Flow /\ EndedInTime(local, now)
  BY GateType DEF TypeOK, TTLInv
<1>2. /\ EndedInTime(g, now) /\ EndedInTime(handleStepFailure(g, s), now)
      /\ EndedInTime(Start(local, s), now) /\ EndedInTime(handleStepFailure(local, s), now)
  BY <1>1, MethodsEndInTime
<1>3. /\ \/ local' \in {g, handleStepFailure(g, s), Start(local, s), handleStepFailure(local, s)}
            /\ pc' = "execute"
         \/ local' = NoFlow /\ pc' = "idle"
      /\ flow' \in {flow, g} /\ cacheFlow' = cacheFlow
  BY DEF ReachGate, StartJob, StepFailed, StepDone, Return, Written, NotWritten, Refused, caches
<1> HIDE DEF g
<1> QED
  BY <1>1, <1>2, <1>3, NothingEnded, TTLKept DEF TTLInv

LEMMA WorkerTTL ==
  ASSUME TypeOK, TypeOK', [Next]_vars, TTLInv, Worker \/ Crash
  PROVE  TTLInv'
<1>0. now \in Nat /\ local \in Flow /\ EndedInTime(local, now)
  BY DEF TypeOK, TTLInv
<1>1. CASE FailValidation
  BY <1>0, <1>1, MethodsEndInTime, ExitTTL DEF FailValidation
<1>2. CASE FailDeadline
  BY <1>0, <1>2, MethodsEndInTime, ExitTTL DEF FailDeadline
<1>3. CASE FailBackoff
  BY <1>0, <1>3, MethodsEndInTime, ExitTTL DEF FailBackoff
<1>4. CASE Initialize
  BY <1>0, <1>4, MethodsEndInTime, ExitTTL DEF Initialize
<1>5. CASE FailCycle
  BY <1>0, <1>5, MethodsEndInTime, ExitTTL DEF FailCycle
<1>6. CASE PlanSteps
  BY <1>6, PlanStepsTTL
<1>7. ASSUME NEW s \in Steps, ReachGate(s) \/ StartJob(s) PROVE TTLInv'
  BY <1>7, ExecuteStepTTL
<1>8. CASE Dequeue
  <2>1. /\ UNCHANGED <<flow, cacheFlow>> /\ pc' # "ttl" /\ local' \in {local, cacheFlow}
    BY <1>8 DEF Dequeue, server, caches
  <2> QED
    BY <2>1, TTLKept DEF TTLInv
<1>9. CASE Finish
  <2> DEFINE f == updateJobFlowStatus(local)
  <2>1. EndedInTime(f, now)
    BY <1>0, MethodsEndInTime
  <2>2. /\ \/ local' = f /\ flow' = f
           \/ local' = NoFlow /\ pc' = "idle" /\ flow' \in {flow, f}
        /\ cacheFlow' = cacheFlow
    BY <1>9 DEF Finish, Written, NotWritten, Refused, Return, caches
  <2> HIDE DEF f
  <2> QED
    BY <1>0, <2>1, <2>2, NothingEnded, TTLKept DEF TTLInv
<1>10. CASE CheckTTL \/ Crash \/ \E s \in Steps : StepStatusNotFound(s)
  <2>1. /\ flow' \in {flow, NoFlow} /\ cacheFlow' \in {cacheFlow, flow}
        /\ local' = NoFlow /\ pc' = "idle"
    BY <1>10 DEF CheckTTL, RemoveFlow, Crash, StepStatusNotFound, Return, server, caches
  <2> QED
    BY <1>0, <2>1, NothingEnded, TTLKept DEF TTLInv
<1> QED
  BY <1>1, <1>2, <1>3, <1>4, <1>5, <1>6, <1>7, <1>8, <1>9, <1>10 DEF Worker

LEMMA OthersTTL ==
  ASSUME TypeOK, TypeOK', [Next]_vars, TTLInv, Informers \/ Cluster \/ UNCHANGED vars
  PROVE  TTLInv'
<1>1. UNCHANGED <<pc, local>> /\ cacheFlow' \in {cacheFlow, flow}
  BY DEF Informers, SyncFlow, SyncJob, Resync, Cluster, EditFlow, DeleteFlow, Tick,
         ApproveStep, OtherWriter, PodEnds, JobEnds, DeleteJob, CollectJob, ChangeJob,
         vars, worker, caches
<1>2. \/ flow' \in {flow, NoFlow}
      \/ \E v : flow' = [flow EXCEPT !.valid = v]
      \/ \E s \in Steps : flow' = [flow EXCEPT !.approved = @ \cup {s}]
  BY DEF Informers, SyncFlow, SyncJob, Resync, Cluster, EditFlow, DeleteFlow, Tick,
         ApproveStep, OtherWriter, PodEnds, JobEnds, DeleteJob, CollectJob, ChangeJob,
         vars, server
<1>3. \/ flow' = NoFlow /\ ~flow'.exists
      \/ /\ flow'.phase = flow.phase /\ flow'.completionTime = flow.completionTime
         /\ flow'.exists = flow.exists
  <2>1. ~NoFlow.exists
    BY DEF NoFlow, NewFlow
  <2> QED
    BY <1>2, <2>1 DEF TypeOK, Flow
<1>4. EndedInTime(flow', now)
  BY <1>3, NothingEnded DEF TTLInv, EndedInTime, TypeOK
<1> QED
  BY <1>1, <1>3, <1>4, TTLKept DEF TTLInv

(* The TTL deletes a JobFlow only when its stored status is final and was   *)
(* completed that long ago, however long ago the worker read it.            *)
THEOREM TTLIsKept == Spec => TTLDeletesFinishedFlow
<1>1. Init => TTLInv
  <2> SUFFICES ASSUME Init PROVE TTLInv
    OBVIOUS
  <2>1. /\ flow.completionTime = NoTime /\ cacheFlow = flow /\ local = NoFlow
        /\ pc = "idle" /\ now = 0
    BY DEF Init, NewFlow
  <2> QED
    BY <2>1, NothingEnded DEF TTLInv, EndedInTime, NoTime
<1>2. TypeOK /\ TypeOK' /\ TTLInv /\ [Next]_vars => TTLInv'
  BY WorkerTTL, OthersTTL DEF Next
<1>3. TypeOK /\ TTLInv /\ [Next]_vars
        => [pc = "ttl" /\ pc' = "idle" /\ flow.exists /\ ~flow'.exists =>
              /\ flow.phase \in {"Succeeded", "Failed"}
              /\ now >= flow.completionTime + TTL]_vars
  <2> SUFFICES ASSUME TypeOK, TTLInv, [Next]_vars,
                      pc = "ttl", pc' = "idle", flow.exists, ~flow'.exists
               PROVE  /\ flow.phase \in {"Succeeded", "Failed"}
                      /\ now >= flow.completionTime + TTL
    OBVIOUS
  <2>1. ~Informers /\ ~Cluster /\ ~UNCHANGED vars
    BY DEF Informers, SyncFlow, SyncJob, Resync, Cluster, EditFlow, DeleteFlow, Tick,
         ApproveStep, OtherWriter, PodEnds, JobEnds, DeleteJob, CollectJob, ChangeJob,
         vars, worker
  <2>2. ~Crash
    BY DEF Crash, server
  <2>3. CheckTTL
    BY <2>1, <2>2 DEF Next, Worker, Dequeue, FailValidation, FailDeadline, FailBackoff,
       Initialize, FailCycle, Exit, PlanSteps, Finish, StepStatusNotFound, ReachGate, StartJob
  <2>4. shouldDeleteJobFlow(local)
    BY <2>3 DEF CheckTTL
  <2>5. /\ flow.phase = local.phase /\ flow.completionTime = local.completionTime
        /\ flow.completionTime <= now /\ flow.completionTime \in Int /\ now \in Nat
    BY DEF TTLInv, EndedInTime, TypeOK, Flow, Times, NoTime
  <2> QED
    BY <2>4, <2>5, PolicyAssumption DEF shouldDeleteJobFlow
<1> QED
  BY <1>1, <1>2, <1>3, TypeCorrect, PTL DEF Spec, TTLDeletesFinishedFlow
----------------------------------------------------------------------------
(* The timeout.  What a copy of the JobFlow says of the start of a step is  *)
(* compared with the Job of that step, which is later only if it is another *)
(* one.  No copy has an older start than the Job: a step gets a new Job     *)
(* when there is none, and then no copy has a Job for it but the one that   *)
(* got it.                                                                  *)

(* j[s] and at[s] are the Job of step s and when it was created.            *)
Fresh(f, j, at) ==
  \A s \in Steps : j[s] # "absent" /\ f.steps[s].jobRef => at[s] <= f.steps[s].startTime

(* Of the steps S, the one copy has no Job that the other lacks but one     *)
(* that is there.                                                           *)
Seen(older, newer, j, S) ==
  \A s \in S : newer.steps[s].jobRef /\ ~older.steps[s].jobRef => j[s] # "absent"

FreshCopies(f, c, l, j, at) ==
  Fresh(f, j, at) /\ Fresh(c, j, at) /\ Fresh(l, j, at) /\ Seen(c, f, j, Steps)
Checking(f, c, l, j) ==
  c.steps \in {l.steps, f.steps} /\ Seen(l, f, j, Steps)
Executing(f, c, l, j, p, current) ==
  /\ Seen(l, f, j, p) /\ Seen(l, c, j, p)
  /\ current => Seen(c, l, j, Steps) /\ Seen(f, l, j, Steps)

LateInv ==
  Untouched =>
    /\ FreshCopies(flow, cacheFlow, local, jobs, createdAt)
    /\ pc = "check" => Checking(flow, cacheFlow, local, jobs)
    /\ pc = "execute" => Executing(flow, cacheFlow, local, jobs, plan, localCurrent)

(* The copy g has the Jobs of the copy f, or some of them.                  *)
SameRefs(f, g) ==
  \A s \in Steps : /\ g.steps[s].jobRef = f.steps[s].jobRef
                   /\ f.steps[s].jobRef => g.steps[s].startTime = f.steps[s].startTime
FewerRefs(f, g) ==
  \A s \in Steps : g.steps[s].jobRef =>
    f.steps[s].jobRef /\ g.steps[s].startTime = f.steps[s].startTime
NoRefs(f) == \A s \in Steps : ~f.steps[s].jobRef

LEMMA RefsOfMethods ==
  ASSUME NEW f \in Flow
  PROVE  /\ \A reason : /\ SameRefs(f, Reject(f, reason))
                        /\ SameRefs(f, RejectAndComplete(f, reason))
         /\ NoRefs(initializeJobFlow(f)) /\ NoRefs(NewFlow) /\ NoRefs(NoFlow)
         /\ SameRefs(f, checkStepTimeouts(f))
         /\ FewerRefs(f, handleStepRetries(f))
         /\ SameRefs(f, updateJobFlowStatus(f))
         /\ \A v : SameRefs(f, [f EXCEPT !.valid = v])
         /\ \A S : SameRefs(f, [f EXCEPT !.approved = S])
         /\ \A s \in Steps : SameRefs(f, handleStepFailure(f, s))
<1>1. \A reason : /\ SameRefs(f, Reject(f, reason))
                  /\ SameRefs(f, RejectAndComplete(f, reason))
  BY DEF SameRefs, Reject, RejectAndComplete, Flow
<1>2. NoRefs(initializeJobFlow(f)) /\ NoRefs(NewFlow) /\ NoRefs(NoFlow)
  BY DEF NoRefs, initializeJobFlow, NewFlow, NoFlow, NewStep, Flow
<1>3. SameRefs(f, checkStepTimeouts(f))
  BY DEF SameRefs, checkStepTimeouts, Flow, StepStatus
<1>4. FewerRefs(f, handleStepRetries(f))
  BY DEF FewerRefs, handleStepRetries, NewStep, Flow, StepStatus
<1>5. SameRefs(f, updateJobFlowStatus(f))
  BY DEF SameRefs, updateJobFlowStatus, updateConditions, Flow
<1>6. /\ \A v : SameRefs(f, [f EXCEPT !.valid = v])
      /\ \A S : SameRefs(f, [f EXCEPT !.approved = S])
  BY DEF SameRefs, Flow
<1>7. \A s \in Steps : SameRefs(f, handleStepFailure(f, s))
  BY DEF SameRefs, handleStepFailure, Flow, StepStatus
<1> QED
  BY <1>1, <1>2, <1>3, <1>4, <1>5, <1>6, <1>7

(* A gate has no Job.                                                       *)
LEMMA RefsOfGates ==
  ASSUME NEW f \in Flow
  PROVE  /\ \A s \in Steps : ~f.steps[s].jobRef => SameRefs(f, Gate(f, s))
         /\ (\A s \in Steps : f.steps[s].phase = "PendingApproval" => ~f.steps[s].jobRef)
              => SameRefs(f, checkManualApprovals(f))
<1>1. ASSUME NEW s \in Steps, ~f.steps[s].jobRef
      PROVE  SameRefs(f, Gate(f, s))
  BY <1>1 DEF SameRefs, Gate, Approve, Flow, StepStatus
<1>2. ASSUME \A s \in Steps : f.steps[s].phase = "PendingApproval" => ~f.steps[s].jobRef
      PROVE  SameRefs(f, checkManualApprovals(f))
  BY <1>2 DEF SameRefs, checkManualApprovals, Approve, InPhase, Flow, StepStatus
<1> QED
  BY <1>1, <1>2

LEMMA RefsOfRefresh ==
  ASSUME NEW f \in Flow
  PROVE  SameRefs(f, refreshStepStatuses(f))
<1>1. \A st \in StepStatus : \A job : LET r == refreshStep(st, job)
                                      IN  r.jobRef = st.jobRef /\ r.startTime = st.startTime
  BY DEF refreshStep, refreshStepStatusFromJob, StepStatus
<1>2. \A s \in Steps : refreshStepStatuses(f).steps[s] = refreshStep(f.steps[s], cacheJobs[s])
  BY DEF refreshStepStatuses, Flow
<1> QED
  BY <1>1, <1>2 DEF SameRefs, Flow

LEMMA SameRefsOn ==
  ASSUME NEW f, NEW g, NEW h, SameRefs(f, g)
  PROVE  /\ SameRefs(g, h) => SameRefs(f, h)
         /\ FewerRefs(g, h) => FewerRefs(f, h)
  BY DEF SameRefs, FewerRefs

(* What every action has to establish that neither creates nor deletes a    *)
(* Job.                                                                     *)
JobsAsBefore ==
  \A s \in Steps : /\ jobs'[s] # "absent" <=> jobs[s] # "absent"
                   /\ createdAt'[s] = createdAt[s]

LEMMA LateKept ==
  ASSUME FreshCopies(flow', cacheFlow', local', jobs', createdAt'),
         pc' = "check" => Checking(flow', cacheFlow', local', jobs'),
         pc' = "execute" =>
           Executing(flow', cacheFlow', local', jobs', plan', localCurrent')
  PROVE  LateInv'
  BY DEF LateInv, FreshCopies, Checking, Executing, Fresh, Seen

LEMMA LateKeptJobs ==
  ASSUME TypeOK', JobsAsBefore,
         FreshCopies(flow', cacheFlow', local', jobs, createdAt),
         pc' = "check" => Checking(flow', cacheFlow', local', jobs),
         pc' = "execute" =>
           Executing(flow', cacheFlow', local', jobs, plan', localCurrent')
  PROVE  LateInv'
<1>1. FreshCopies(flow', cacheFlow', local', jobs', createdAt')
  BY DEF FreshCopies, Fresh, Seen, JobsAsBefore
<1>2. pc' = "check" => Checking(flow', cacheFlow', local', jobs')
  BY DEF Checking, Seen, JobsAsBefore
<1>3. plan' \subseteq Steps
  BY DEF TypeOK
<1>4. pc' = "execute" =>
        Executing(flow', cacheFlow', local', jobs', plan', localCurrent')
  BY <1>3 DEF Executing, Seen, JobsAsBefore
<1> QED
  BY <1>1, <1>2, <1>4, LateKept

LEMMA FreshKept ==
  ASSUME NEW f, NEW g, NEW j, NEW at, Fresh(f, j, at), FewerRefs(f, g) \/ SameRefs(f, g)
  PROVE  Fresh(g, j, at)
  BY DEF Fresh, FewerRefs, SameRefs

LEMMA NothingFresh ==
  ASSUME NEW f, NoRefs(f)
  PROVE  \A j, at, g : Fresh(f, j, at) /\ Seen(g, f, j, Steps)
  BY DEF Fresh, NoRefs, Seen

(* The context of a step from a JobFlow whose Jobs are left alone.          *)
LateBefore ==
  /\ TypeOK /\ TypeOK' /\ [Next]_vars /\ PlanInv /\ Alive /\ SuccessInv
  /\ DeadlineInv /\ LateInv /\ Untouched /\ Untouched'

LEMMA ExitLate ==
  ASSUME LateBefore, NEW verdict, NEW f, Exit(verdict, f), SameRefs(local, f) \/ NoRefs(f)
  PROVE  LateInv'
<1>1. /\ pc' = "idle" /\ local' = NoFlow /\ cacheFlow' = cacheFlow /\ pc = "check"
      /\ UNCHANGED <<jobs, createdAt>>
  BY DEF Exit, WriteAndReturn, Return, caches, history
<1>2. flow' = flow \/ (flow' = f /\ local = flow)
  BY <1>1 DEF Exit, WriteAndReturn, Written, NotWritten, Refused, LateBefore, DeadlineInv
<1>3. FreshCopies(flow, cacheFlow, local, jobs, createdAt) /\ JobsAsBefore
  BY <1>1 DEF LateBefore, LateInv, JobsAsBefore
<1>4. NoRefs(NoFlow)
  BY NewFlowType, RefsOfMethods
<1>5. Fresh(flow', jobs, createdAt) /\ Seen(cacheFlow, flow', jobs, Steps)
  <2>1. CASE flow' = flow
    BY <1>3, <2>1 DEF FreshCopies
  <2>2. CASE flow' = f /\ local = flow /\ SameRefs(local, f)
    BY <1>3, <2>2, FreshKept DEF FreshCopies, Seen, SameRefs
  <2>3. CASE flow' = f /\ NoRefs(f)
    BY <2>3, NothingFresh
  <2> QED
    BY <1>2, <2>1, <2>2, <2>3
<1>6. FreshCopies(flow', cacheFlow', local', jobs, createdAt)
  BY <1>1, <1>3, <1>4, <1>5, NothingFresh DEF FreshCopies
<1> QED
  BY <1>1, <1>3, <1>6, LateKeptJobs DEF LateBefore

LEMMA PlanStepsLate ==
  ASSUME LateBefore, PlanSteps
  PROVE  /\ LateInv'
         /\ \A s \in Steps : jobs[s] # jobs'[s] => /\ Timeout[s] # Unset
                                                   /\ now > createdAt[s] + Timeout[s]
<1> DEFINE approved  == checkManualApprovals(local)
           refreshed == refreshStepStatuses(approved)
           checked   == checkStepTimeouts(refreshed)
           retried   == handleStepRetries(checked)
<1>1. now \in Nat /\ local \in Flow /\ approved \in Flow /\ refreshed \in Flow /\ checked \in Flow
  BY CheckApprovalsType, RefreshType, TimeoutsType DEF TypeOK, LateBefore
<1>2. /\ FreshCopies(flow, cacheFlow, local, jobs, createdAt)
      /\ Checking(flow, cacheFlow, local, jobs)
      /\ Truthful(local, cacheJobs) /\ Unstarted(local)
      /\ localCurrent => local = flow
  BY DEF LateBefore, LateInv, PlanSteps, SuccessInv, PlanInv, DeadlineInv
<1>3. SameRefs(local, approved)
  BY <1>1, <1>2, RefsOfGates DEF Truthful, TruthfulStep
<1>4. SameRefs(local, refreshed)
  BY <1>1, <1>3, RefsOfRefresh, SameRefsOn
<1>5. FewerRefs(local, retried)
  <2>1. SameRefs(local, checked)
    BY <1>1, <1>4, RefsOfMethods, SameRefsOn
  <2> QED
    BY <1>1, <2>1, RefsOfMethods, SameRefsOn
<1>6. Truthful(refreshed, cacheJobs) /\ Unstarted(refreshed)
  BY <1>1, <1>2, TruthfulApprovals, TruthfulRefresh, ApprovalsUnstarted, RefreshUnstarted
<1>7. /\ local' = retried /\ flow' = flow /\ cacheFlow' = cacheFlow /\ pc' = "execute"
      /\ createdAt' = createdAt /\ localCurrent' = localCurrent
      /\ plan' \subseteq InPhase(refreshed, {"Pending"})
  BY DEF PlanSteps, caches, createExecutionPlan
<1>8. \E kept \in SUBSET TimedOut(refreshed) :
        jobs' = [s \in Steps |-> IF s \in TimedOut(refreshed) \ kept
                                   THEN "absent" ELSE jobs[s]]
  BY DEF PlanSteps
<1> HIDE DEF approved, refreshed, checked, retried
<1>9. ASSUME NEW s \in Steps, jobs[s] # jobs'[s]
      PROVE  /\ local.steps[s].jobRef /\ jobs'[s] = "absent" /\ jobs[s] # "absent"
             /\ Timeout[s] # Unset /\ now > local.steps[s].startTime + Timeout[s]
  <2>1. s \in TimedOut(refreshed) /\ jobs'[s] = "absent" /\ jobs[s] # "absent"
    BY <1>8, <1>9
  <2>2. refreshed.steps[s].phase = "Running" /\ After(refreshed.steps[s].startTime, Timeout[s])
    BY <2>1 DEF TimedOut, InPhase
  <2>3. local.steps[s].jobRef /\ refreshed.steps[s].startTime = local.steps[s].startTime
    BY <1>4, <1>6, <2>2 DEF Truthful, TruthfulStep, SameRefs
  <2> QED
    BY <2>1, <2>2, <2>3 DEF After
<1>10. \A s \in Steps : jobs[s] # jobs'[s] => /\ Timeout[s] # Unset
                                              /\ now > createdAt[s] + Timeout[s]
  <2> SUFFICES ASSUME NEW s \in Steps, jobs[s] # jobs'[s]
               PROVE  Timeout[s] # Unset /\ now > createdAt[s] + Timeout[s]
    OBVIOUS
  <2>1. /\ local.steps[s].jobRef /\ jobs[s] # "absent"
        /\ Timeout[s] # Unset /\ now > local.steps[s].startTime + Timeout[s]
    BY <1>9
  <2>2. createdAt[s] <= local.steps[s].startTime
    BY <1>2, <2>1 DEF FreshCopies, Fresh
  <2>3. createdAt[s] \in Int /\ local.steps[s].startTime \in Int /\ Timeout[s] \in Int
    <3>1. createdAt[s] \in Int
      BY DEF LateBefore, TypeOK, Times, NoTime
    <3>2. \A st \in StepStatus : st.startTime \in Int
      BY DEF StepStatus, Times, NoTime
    <3>3. local.steps[s] \in StepStatus
      BY <1>1 DEF Flow
    <3>4. Timeout[s] \in Int
      BY PolicyAssumption DEF Unset
    <3> QED
      BY <3>1, <3>2, <3>3, <3>4
  <2> QED
    BY <1>1, <2>1, <2>2, <2>3
<1>11. FreshCopies(flow', cacheFlow', local', jobs', createdAt')
  <2>1. Fresh(retried, jobs, createdAt)
    BY <1>2, <1>5, FreshKept DEF FreshCopies
  <2>2. Fresh(flow', jobs', createdAt') /\ Fresh(cacheFlow', jobs', createdAt')
        /\ Fresh(local', jobs', createdAt')
    BY <1>2, <1>7, <1>9, <2>1 DEF FreshCopies, Fresh
  <2>3. Seen(cacheFlow, flow, jobs', Steps)
    BY <1>2, <1>9 DEF FreshCopies, Checking, Seen
  <2> QED
    BY <1>7, <2>2, <2>3 DEF FreshCopies
<1>12. Executing(flow', cacheFlow', local', jobs', plan', localCurrent')
  <2>1. \A s \in plan' : s \in Steps /\ ~local.steps[s].jobRef
    BY <1>4, <1>6, <1>7 DEF InPhase, Unstarted, UnstartedStep, SameRefs
  <2>2. \A s \in plan' : jobs'[s] = jobs[s]
    BY <1>9, <2>1
  <2>3. \A s \in plan' : flow.steps[s].jobRef => jobs[s] # "absent"
    BY <1>2, <2>1 DEF Checking, Seen
  <2>4. \A s \in plan' : cacheFlow.steps[s].jobRef => flow.steps[s].jobRef
    BY <1>2, <2>1 DEF Checking
  <2>5. localCurrent => \A s \in Steps : retried.steps[s].jobRef =>
                          flow.steps[s].jobRef /\ cacheFlow.steps[s].jobRef
    BY <1>2, <1>5 DEF Checking, FewerRefs
  <2> QED
    BY <1>7, <2>2, <2>3, <2>4, <2>5 DEF Executing, Seen
<1> QED
  BY <1>7, <1>10, <1>11, <1>12, LateKept

(* Execution: the copies differ in the planned step only, which has no Job  *)
(* in the worker's copy.                                                    *)
LEMMA SameRefsLate ==
  ASSUME LateBefore, pc = "execute", NEW f, SameRefs(local, f), JobsAsBefore,
         flow' = flow \/ (flow' = f /\ localCurrent), cacheFlow' = cacheFlow,
         \/ /\ local' = f /\ pc' = "execute" /\ plan' \subseteq plan
            /\ localCurrent' = localCurrent
         \/ local' \in {f, NoFlow} /\ pc' \notin {"check", "execute"}
  PROVE  LateInv'
<1>1. /\ FreshCopies(flow, cacheFlow, local, jobs, createdAt)
      /\ Executing(flow, cacheFlow, local, jobs, plan, localCurrent)
      /\ plan \subseteq Steps
  BY DEF LateBefore, LateInv, TypeOK
<1>2. Fresh(f, jobs, createdAt)
  BY <1>1, FreshKept DEF FreshCopies
<1>3. NoRefs(NoFlow)
  BY NewFlowType, RefsOfMethods
<1>4. localCurrent => Seen(cacheFlow, f, jobs, Steps) /\ Seen(flow, f, jobs, Steps)
  BY <1>1 DEF Executing, Seen, SameRefs
<1>5. Seen(f, flow, jobs, plan) /\ Seen(f, cacheFlow, jobs, plan)
  BY <1>1 DEF Executing, Seen, SameRefs
<1>6. FreshCopies(flow', cacheFlow', local', jobs, createdAt)
  BY <1>1, <1>2, <1>3, <1>4, NothingFresh DEF FreshCopies
<1>7. /\ local' = f /\ plan' \subseteq plan /\ localCurrent' = localCurrent
      => Executing(flow', cacheFlow', local', jobs, plan', localCurrent')
  BY <1>4, <1>5 DEF Executing, Seen
<1> QED
  BY <1>6, <1>7, LateKeptJobs DEF LateBefore

LEMMA ReachGateLate ==
  ASSUME LateBefore, NEW s \in Steps, ReachGate(s)
  PROVE  LateInv'
<1> DEFINE g == Gate(local, s)
           failed == handleStepFailure(g, s)
<1>1. /\ pc = "execute" /\ local \in Flow /\ g \in Flow /\ ~local.steps[s].jobRef
      /\ cacheFlow' = cacheFlow /\ JobsAsBefore
  BY GateType DEF LateBefore, TypeOK, PlanInv, ReachGate, caches, JobsAsBefore
<1>2. SameRefs(local, g) /\ SameRefs(g, failed)
  BY <1>1, RefsOfGates, RefsOfMethods
<1>3. SameRefs(local, failed)
  BY <1>2, SameRefsOn
<1>4. \/ /\ local' = g /\ flow' = g /\ localCurrent
         /\ pc' = "execute" /\ plan' \subseteq plan /\ localCurrent' = localCurrent
      \/ /\ local' = failed /\ flow' = flow
         /\ pc' = "execute" /\ plan' \subseteq plan /\ localCurrent' = localCurrent
      \/ /\ local' = NoFlow /\ pc' = "idle"
         /\ flow' = flow \/ (flow' = g /\ localCurrent)
  BY DEF ReachGate, Written, NotWritten, Refused, StepFailed, StepDone, Return
<1> HIDE DEF g, failed
<1> QED
  BY <1>1, <1>2, <1>3, <1>4, SameRefsLate

(* A step gets a Job when there is none.  No copy that may still be read    *)
(* has a Job for it then.                                                   *)
LEMMA CreateLate ==
  ASSUME LateBefore, pc = "execute", NEW s \in plan, Create(s),
         UNCHANGED <<flow, cacheFlow>>,
         \/ /\ local' = Start(local, s) /\ pc' = "execute" /\ plan' \subseteq plan
            /\ localCurrent' = localCurrent
         \/ local' = NoFlow /\ pc' = "idle"
  PROVE  LateInv'
<1>1. /\ FreshCopies(flow, cacheFlow, local, jobs, createdAt)
      /\ Executing(flow, cacheFlow, local, jobs, plan, localCurrent)
      /\ plan \subseteq Steps /\ local \in Flow /\ now \in Nat
      /\ ~local.steps[s].jobRef
  BY DEF LateBefore, LateInv, TypeOK, PlanInv
<1>2. /\ jobs[s] = "absent" /\ jobs'[s] = "active" /\ createdAt'[s] = now
      /\ \A t \in Steps \ {s} : jobs'[t] = jobs[t] /\ createdAt'[t] = createdAt[t]
  BY <1>1 DEF Create, LateBefore, TypeOK
<1>3. ~flow.steps[s].jobRef /\ ~cacheFlow.steps[s].jobRef
  BY <1>1, <1>2 DEF Executing, Seen
<1>4. NoRefs(NoFlow)
  BY NewFlowType, RefsOfMethods
<1>5. /\ \A t \in Steps \ {s} : Start(local, s).steps[t] = local.steps[t]
      /\ Start(local, s).steps[s].startTime = now
  BY <1>1 DEF Start, Flow, StepStatus
<1>6. /\ Fresh(flow, jobs', createdAt') /\ Fresh(cacheFlow, jobs', createdAt')
      /\ Fresh(Start(local, s), jobs', createdAt')
  BY <1>1, <1>2, <1>3, <1>5 DEF FreshCopies, Fresh
<1>7. FreshCopies(flow', cacheFlow', local', jobs', createdAt')
  <2>1. Seen(cacheFlow, flow, jobs', Steps)
    BY <1>1, <1>2 DEF FreshCopies, Seen
  <2> QED
    BY <1>4, <1>6, <2>1, NothingFresh DEF FreshCopies
<1>8. Executing(flow, cacheFlow, Start(local, s), jobs', plan, localCurrent)
  BY <1>1, <1>2, <1>5 DEF Executing, Seen
<1>9. pc' = "execute" =>
        Executing(flow', cacheFlow', local', jobs', plan', localCurrent')
  BY <1>8 DEF Executing, Seen
<1> QED
  BY <1>7, <1>9, LateKept

LEMMA StartJobLate ==
  ASSUME LateBefore, NEW s \in Steps, StartJob(s)
  PROVE  LateInv'
<1> DEFINE failed == handleStepFailure(local, s)
<1>1. /\ pc = "execute" /\ s \in plan /\ local \in Flow /\ SameRefs(local, local)
      /\ UNCHANGED <<flow, cacheFlow>>
  BY DEF LateBefore, TypeOK, StartJob, caches, SameRefs
<1>2. SameRefs(local, failed)
  BY <1>1, RefsOfMethods
<1>3. \/ /\ Create(s)
         /\ \/ /\ local' = Start(local, s) /\ pc' = "execute" /\ plan' \subseteq plan
               /\ localCurrent' = localCurrent
            \/ local' = NoFlow /\ pc' = "idle"
      \/ /\ UNCHANGED <<jobs, createdAt>>
         /\ \/ /\ local' = failed /\ pc' = "execute" /\ plan' \subseteq plan
               /\ localCurrent' = localCurrent
            \/ local' = NoFlow /\ pc' = "idle"
  BY <1>1 DEF StartJob, StepFailed, StepDone, Return
<1> HIDE DEF failed
<1>4. CASE Create(s) /\ ~UNCHANGED <<jobs, createdAt>>
  BY <1>1, <1>3, <1>4, CreateLate
<1>5. CASE UNCHANGED <<jobs, createdAt>>
  <2>1. JobsAsBefore /\ ~Create(s)
    BY <1>5 DEF JobsAsBefore, Create, LateBefore, TypeOK
  <2> QED
    BY <1>1, <1>2, <1>3, <2>1, SameRefsLate
<1> QED
  BY <1>3, <1>4, <1>5

LEMMA FinishLate ==
  ASSUME LateBefore, Finish
  PROVE  LateInv'
<1> DEFINE f == updateJobFlowStatus(local)
<1>1. /\ pc = "execute" /\ local \in Flow /\ cacheFlow' = cacheFlow /\ JobsAsBefore
  BY DEF LateBefore, TypeOK, Finish, caches, history, JobsAsBefore
<1>2. SameRefs(local, f)
  BY <1>1, RefsOfMethods
<1>3. /\ flow' = flow \/ (flow' = f /\ localCurrent)
      /\ (local' = f /\ pc' = "ttl") \/ (local' = NoFlow /\ pc' = "idle")
  BY DEF Finish, Written, NotWritten, Refused, Return
<1> HIDE DEF f
<1> QED
  BY <1>1, <1>2, <1>3, SameRefsLate

LEMMA WorkerLate ==
  ASSUME LateBefore, Worker \/ Crash
  PROVE  LateInv'
<1>0. /\ local \in Flow /\ FreshCopies(flow, cacheFlow, local, jobs, createdAt)
      /\ NoRefs(NoFlow)
  BY NewFlowType, RefsOfMethods DEF LateBefore, TypeOK, LateInv
<1>1. CASE FailValidation \/ FailDeadline \/ FailBackoff \/ Initialize \/ FailCycle
  <2>1. \E verdict, f : Exit(verdict, f) /\ (SameRefs(local, f) \/ NoRefs(f))
    BY <1>0, <1>1, RefsOfMethods
       DEF FailValidation, FailDeadline, FailBackoff, Initialize, FailCycle
  <2> QED
    BY <2>1, ExitLate
<1>2. CASE PlanSteps
  BY <1>2, PlanStepsLate
<1>3. ASSUME NEW s \in Steps, ReachGate(s) \/ StartJob(s) PROVE LateInv'
  BY <1>3, ReachGateLate, StartJobLate
<1>4. CASE Finish
  BY <1>4, FinishLate
<1>5. CASE Dequeue
  <2>1. /\ UNCHANGED <<flow, cacheFlow>> /\ JobsAsBefore
        /\ \/ local' = cacheFlow /\ pc' = "check"
           \/ local' = local /\ pc' = "idle"
    BY <1>5 DEF Dequeue, server, caches, history, JobsAsBefore
  <2>2. FreshCopies(flow', cacheFlow', local', jobs, createdAt)
    BY <1>0, <2>1 DEF FreshCopies
  <2>3. pc' = "check" => Checking(flow', cacheFlow', local', jobs)
    BY <1>0, <2>1 DEF FreshCopies, Checking
  <2> QED
    BY <2>1, <2>2, <2>3, LateKeptJobs DEF LateBefore
<1>6. CASE CheckTTL \/ Crash \/ \E s \in Steps : StepStatusNotFound(s)
  <2>1. /\ flow' = flow /\ cacheFlow' \in {cacheFlow, flow}
        /\ local' = NoFlow /\ pc' = "idle" /\ JobsAsBefore
    <3>1. ~NoFlow.exists /\ flow'.exists
      BY DEF NoFlow, NewFlow, LateBefore, Untouched
    <3> QED
      BY <1>6, <3>1 DEF CheckTTL, RemoveFlow, Crash, StepStatusNotFound, Return, server,
         caches, history, JobsAsBefore
  <2>2. FreshCopies(flow', cacheFlow', local', jobs, createdAt)
    BY <1>0, <2>1, NothingFresh DEF FreshCopies, Seen
  <2> QED
    BY <2>1, <2>2, LateKeptJobs DEF LateBefore
<1> QED
  BY <1>1, <1>2, <1>3, <1>4, <1>5, <1>6 DEF Worker

LEMMA OthersLate ==
  ASSUME LateBefore, Informers \/ Cluster \/ UNCHANGED vars
  PROVE  LateInv'
<1>0. /\ flow \in Flow /\ plan \subseteq Steps /\ flow'.exists
      /\ FreshCopies(flow, cacheFlow, local, jobs, createdAt)
      /\ pc = "check" => Checking(flow, cacheFlow, local, jobs)
      /\ pc = "execute" => Executing(flow, cacheFlow, local, jobs, plan, localCurrent)
  BY DEF LateBefore, TypeOK, LateInv, Untouched
<1>1. UNCHANGED <<pc, local, plan>>
  BY DEF Informers, SyncFlow, SyncJob, Resync, Cluster, EditFlow, DeleteFlow, Tick,
         ApproveStep, OtherWriter, PodEnds, JobEnds, DeleteJob, CollectJob, ChangeJob,
         vars, worker
<1>2. JobsAsBefore
  <2>1. ASSUME NEW s \in Steps, PodEnds(s) \/ JobEnds(s)
        PROVE  JobsAsBefore
    <3>1. jobs[s] # "absent" /\ createdAt' = createdAt
      BY <2>1 DEF PodEnds, JobEnds, ChangeJob
    <3>2. \E state : state # "absent" /\ jobs' = [jobs EXCEPT ![s] = state]
      BY <2>1 DEF PodEnds, JobEnds, ChangeJob
    <3> QED
      BY <3>1, <3>2 DEF JobsAsBefore, LateBefore, TypeOK
  <2>2. ASSUME NEW s \in Steps, DeleteJob(s) \/ CollectJob(s)
        PROVE  FALSE
    <3>1. CASE DeleteJob(s)
      <4>1. Spend("jobDeletion")
        BY <3>1 DEF DeleteJob
      <4> QED
        BY <4>1 DEF Spend, LateBefore, Untouched, JobsLeftAlone, TypeOK, Disturbances
    <3>2. CASE CollectJob(s)
      BY <3>2 DEF CollectJob, LateBefore, Untouched
    <3> QED
      BY <2>2, <3>1, <3>2
  <2>3. CASE UNCHANGED <<jobs, createdAt>>
    BY <2>3 DEF JobsAsBefore
  <2> QED
    BY <2>1, <2>2, <2>3 DEF Informers, SyncFlow, SyncJob, Resync, Cluster, EditFlow,
       DeleteFlow, Tick, ApproveStep, OtherWriter, vars, server, history
<1>3. CASE flow' = flow /\ localCurrent' = localCurrent /\ cacheFlow' \in {cacheFlow, flow}
  <2>1. FreshCopies(flow', cacheFlow', local', jobs, createdAt)
    BY <1>0, <1>1, <1>3 DEF FreshCopies, Seen
  <2>2. pc' = "check" => Checking(flow', cacheFlow', local', jobs)
    BY <1>0, <1>1, <1>3 DEF Checking
  <2>3. pc' = "execute" =>
          Executing(flow', cacheFlow', local', jobs, plan', localCurrent')
    BY <1>0, <1>1, <1>3 DEF Executing
  <2> QED
    BY <1>2, <2>1, <2>2, <2>3, LateKeptJobs DEF LateBefore
<1>4. CASE flow'.steps = flow.steps /\ ~localCurrent' /\ cacheFlow' = cacheFlow
  <2>1. FreshCopies(flow', cacheFlow', local', jobs, createdAt)
    BY <1>0, <1>1, <1>4 DEF FreshCopies, Fresh, Seen
  <2>2. pc' = "check" => Checking(flow', cacheFlow', local', jobs)
    BY <1>0, <1>1, <1>4 DEF Checking, Seen
  <2>3. pc' = "execute" =>
          Executing(flow', cacheFlow', local', jobs, plan', localCurrent')
    BY <1>0, <1>1, <1>4 DEF Executing, Seen
  <2> QED
    BY <1>2, <2>1, <2>2, <2>3, LateKeptJobs DEF LateBefore
<1>5. ~NoFlow.exists
  BY DEF NoFlow, NewFlow
<1>6. \/ flow' = flow /\ localCurrent' = localCurrent /\ cacheFlow' \in {cacheFlow, flow}
      \/ flow'.steps = flow.steps /\ ~localCurrent' /\ cacheFlow' = cacheFlow
  <2>1. /\ \A v : [flow EXCEPT !.valid = v].steps = flow.steps
        /\ \A S : [flow EXCEPT !.approved = S].steps = flow.steps
    BY <1>0 DEF Flow
  <2>2. CASE EditFlow \/ DeleteFlow \/ \E s \in Steps : ApproveStep(s)
    BY <1>0, <1>5, <2>1, <2>2 DEF EditFlow, DeleteFlow, ApproveStep, OtherWriter, caches
  <2>3. CASE \/ Informers \/ Tick \/ UNCHANGED vars
             \/ \E s \in Steps : PodEnds(s) \/ JobEnds(s) \/ DeleteJob(s) \/ CollectJob(s)
    BY <2>3 DEF Informers, SyncFlow, SyncJob, Resync, Tick, PodEnds, JobEnds, DeleteJob,
       CollectJob, ChangeJob, vars, server, worker, caches
  <2> QED
    BY <2>2, <2>3 DEF Cluster
<1> QED
  BY <1>3, <1>4, <1>6

(* The controller deletes a Job only when that very Job has run for longer  *)
(* than the timeout of its step, however old the copy it judges by.         *)
THEOREM TimeoutIsKept == Spec => OnlyLateJobsDeleted
<1>1. Init => LateInv
  <2> SUFFICES ASSUME Init PROVE LateInv
    OBVIOUS
  <2>1. \A v : NoRefs([NewFlow EXCEPT !.valid = v])
    BY DEF NoRefs, NewFlow, NewStep
  <2>2. NoRefs(flow) /\ cacheFlow = flow /\ NoRefs(local) /\ pc = "idle"
    BY <2>1, NewFlowType, RefsOfMethods DEF Init
  <2> QED
    BY <2>2, NothingFresh DEF LateInv, FreshCopies
<1>2. /\ TypeOK /\ TypeOK' /\ PlanInv /\ Alive /\ SuccessInv /\ DeadlineInv /\ LateInv
      /\ [Next]_vars
      => LateInv'
  <2> SUFFICES ASSUME TypeOK, TypeOK', PlanInv, Alive, SuccessInv, DeadlineInv, LateInv,
                      [Next]_vars, Untouched'
               PROVE  LateInv'
    BY DEF LateInv
  <2>1. LateBefore
    BY UntouchedBefore DEF LateBefore
  <2> QED
    BY <2>1, WorkerLate, OthersLate DEF Next
<1>3. /\ TypeOK /\ TypeOK' /\ PlanInv /\ Alive /\ SuccessInv /\ DeadlineInv /\ LateInv
      /\ [Next]_vars
      => [PlanSteps /\ flow.exists /\ JobsLeftAlone => \A s \in Steps :
            jobs[s] # jobs'[s] => /\ Timeout[s] # Unset
                                  /\ now > createdAt[s] + Timeout[s]]_vars
  <2> SUFFICES ASSUME TypeOK, TypeOK', PlanInv, Alive, SuccessInv, DeadlineInv, LateInv,
                      [Next]_vars, PlanSteps, flow.exists, JobsLeftAlone
               PROVE  \A s \in Steps : jobs[s] # jobs'[s] =>
                        Timeout[s] # Unset /\ now > createdAt[s] + Timeout[s]
    OBVIOUS
  <2>1. flow' = flow /\ JobsLeftAlone'
    BY DEF PlanSteps, JobsLeftAlone, Spend, TypeOK, Disturbances
  <2>2. LateBefore
    BY <2>1 DEF LateBefore, Untouched
  <2> QED
    BY <2>2, PlanStepsLate
<1>4. TypeOK /\ PlanInv /\ Alive /\ SuccessInv /\ [Next]_vars => SuccessInv'
  BY SuccessStep
<1>5. TypeOK /\ TypeOK' /\ Alive /\ DeadlineInv /\ [Next]_vars => DeadlineInv'
  BY WorkerInTime, OthersInTime DEF Next
<1> QED
  BY <1>1, <1>2, <1>3, <1>4, <1>5, DeadlineInit, SuccessInit, AliveInvariant, PTL
     DEF Spec, OnlyLateJobsDeleted
=============================================================================
