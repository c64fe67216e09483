----------------------------- MODULE Automation -----------------------------
(***************************************************************************)
(* Workflow runs with human approval (internal/core/automation/service.go).*)
(* An event or a test run executes the steps of a workflow one after the   *)
(* other and pauses before the first DRAFT_EMAIL; ApproveStep, called by a *)
(* user, executes the pending step and those after it.  An execution holds *)
(* the run in memory and writes workflow_runs once, at its end.            *)
(*                                                                         *)
(* A workflow is the sequence of its step kinds, numbered from one.        *)
(* "draft" is DRAFT_EMAIL, "auto" every kind that needs no approval.       *)
(* TriggerEvent starts its workflows one by one; here any execution may    *)
(* start any workflow, which covers every order.                           *)
(***************************************************************************)
EXTENDS Naturals, Sequences, FiniteSets

CONSTANTS
    Steps,          \* workflow -> sequence of step kinds
    Active,         \* workflows an event starts
    Runs,           \* supply of run ids
    Actors,         \* requests and jobs that execute workflows
    MaxInterrupts   \* bound on the interrupted executions of a run

Workflows == DOMAIN Steps

ASSUME AutomationAssumption ==
    /\ \A w \in Workflows : Steps[w] \in Seq({"auto", "draft"})
    /\ Active \subseteq Workflows
    /\ IsFiniteSet(Actors)
    /\ MaxInterrupts \in Nat

VARIABLES
    run,           \* workflow_runs
    exec,          \* what an actor executes
    done,          \* history: how often a step of a run took effect
    approved,      \* history: approvals given while a run was paused at a step
    interrupted,   \* history: executions of a run that ended without being recorded
    overlapped     \* history: approvals of a run while an execution of it was under way

runVars == <<run, exec, done, approved, interrupted, overlapped>>

Length(w) == Len(Steps[w])

StepNumbers == UNION {DOMAIN Steps[w] : w \in Workflows}

Recorded == {"WAITING_APPROVAL", "COMPLETED", "FAILED"}

Unrecorded == [status |-> "none"]

(* An execution: the run, its workflow, the step it was resumed from (zero *)
(* for a new run), the step it is at, and its status in memory.            *)
Execution ==
    [run : Runs, wf : Workflows, from : {0} \cup StepNumbers, at : {0} \cup StepNumbers,
     status : Recorded \cup {"IN_PROGRESS"}]

Idle == [status |-> "idle"]

RunsTypeOK ==
    /\ run \in [Runs -> [wf : Workflows, status : Recorded, step : {0} \cup StepNumbers]
                        \cup {Unrecorded}]
    /\ exec \in [Actors -> Execution \cup {Idle}]
    /\ done \in [Runs -> [StepNumbers -> Nat]]
    /\ approved \in [Runs -> [StepNumbers -> Nat]]
    /\ interrupted \in [Runs -> 0..MaxInterrupts]
    /\ overlapped \in [Runs -> Nat]

RunsInit ==
    /\ run = [r \in Runs |-> Unrecorded]
    /\ exec = [a \in Actors |-> Idle]
    /\ done = [r \in Runs |-> [i \in StepNumbers |-> 0]]
    /\ approved = [r \in Runs |-> [i \in StepNumbers |-> 0]]
    /\ interrupted = [r \in Runs |-> 0]
    /\ overlapped = [r \in Runs |-> 0]

Executing(r) == {a \in Actors : exec[a] # Idle /\ exec[a].run = r}

(* Where an execution stands once step i is behind it.                     *)
After(w, i) == IF i = Length(w) THEN "COMPLETED" ELSE "IN_PROGRESS"

Begin(a, r, w) ==
    /\ exec[a] = Idle
    /\ run[r] = Unrecorded /\ Executing(r) = {} /\ interrupted[r] = 0
    /\ exec' = [exec EXCEPT ![a] =
          [run |-> r, wf |-> w, from |-> 0, at |-> IF Length(w) = 0 THEN 0 ELSE 1,
           status |-> After(w, 0)]]
    /\ UNCHANGED <<run, done, approved, interrupted, overlapped>>

TriggerEvent(a, r, w) == w \in Active /\ Begin(a, r, w)

(* A user's test run of any workflow.                                      *)
TestRunWorkflow(a, r, w) == Begin(a, r, w)

CountOverlap(r) ==
    overlapped' = IF Executing(r) = {} THEN overlapped ELSE [overlapped EXCEPT ![r] = @ + 1]

(* Deliberately wrong variants (mutants): the status is not checked; the   *)
(* run is replayed from its first step.                                    *)
ApproveStepUnchecked(a, r) ==
    /\ exec[a] = Idle
    /\ run[r] # Unrecorded /\ run[r].step > 0
    /\ exec' = [exec EXCEPT ![a] =
          [run |-> r, wf |-> run[r].wf, from |-> run[r].step, at |-> run[r].step,
           status |-> "IN_PROGRESS"]]
    /\ approved' = [approved EXCEPT ![r][run[r].step] = @ + 1]
    /\ CountOverlap(r)
    /\ UNCHANGED <<run, done, interrupted>>
ApproveStepReplays(a, r) ==
    /\ exec[a] = Idle
    /\ run[r].status = "WAITING_APPROVAL"
    /\ exec' = [exec EXCEPT ![a] =
          [run |-> r, wf |-> run[r].wf, from |-> run[r].step, at |-> 1, status |-> "IN_PROGRESS"]]
    /\ approved' = [approved EXCEPT ![r][run[r].step] = @ + 1]
    /\ CountOverlap(r)
    /\ UNCHANGED <<run, done, interrupted>>
(* ApproveStep: read the run, check its status, resume at its step.  The   *)
(* row keeps its status until the execution is over, so the same approval  *)
(* may be given again in the meantime.                                     *)
ApproveStep(a, r) ==
    /\ exec[a] = Idle
    /\ run[r].status = "WAITING_APPROVAL"
    /\ exec' = [exec EXCEPT ![a] =
          [run |-> r, wf |-> run[r].wf, from |-> run[r].step, at |-> run[r].step,
           status |-> "IN_PROGRESS"]]
    /\ approved' = [approved EXCEPT ![r][run[r].step] = @ + 1]
    /\ CountOverlap(r)
    /\ UNCHANGED <<run, done, interrupted>>

Draft(e) == Steps[e.wf][e.at] = "draft"

(* Deliberately wrong variant (mutant): drafts do not wait.                *)
PausesBeforeNever(e) == FALSE

(* A new run pauses before a draft.                                        *)
PausesBefore(e) == e.from = 0 /\ Draft(e)

(* A resumed run pauses after a further draft.                             *)
PausesAfter(e) == e.from > 0 /\ e.at > e.from /\ Draft(e)

Pause(a) ==
    /\ exec[a].status = "IN_PROGRESS"
    /\ PausesBefore(exec[a])
    /\ exec' = [exec EXCEPT ![a].status = "WAITING_APPROVAL"]
    /\ UNCHANGED <<run, done, approved, interrupted, overlapped>>

(* executeStep succeeds, and the loop goes on to the next step.            *)
ExecuteStep(a) ==
    LET e == exec[a]
        next == IF PausesAfter(e) THEN "WAITING_APPROVAL" ELSE After(e.wf, e.at)
    IN /\ e.status = "IN_PROGRESS"
       /\ ~PausesBefore(e)
       /\ done' = [done EXCEPT ![e.run][e.at] = @ + 1]
       /\ exec' = [exec EXCEPT ![a].status = next,
                               ![a].at = IF next = "IN_PROGRESS" THEN @ + 1 ELSE @]
       /\ UNCHANGED <<run, approved, interrupted, overlapped>>

(* Deliberately wrong variant (mutant): the error is logged and forgotten. *)
StepFailsSilently(a) ==
    LET e == exec[a]
        next == After(e.wf, e.at)
    IN /\ e.status = "IN_PROGRESS"
       /\ ~PausesBefore(e)
       /\ exec' = [exec EXCEPT ![a].status = next,
                               ![a].at = IF next = "IN_PROGRESS" THEN @ + 1 ELSE @]
       /\ UNCHANGED <<run, done, approved, interrupted, overlapped>>

(* executeStep returns an error.  It may have taken effect all the same: a *)
(* tag whose audit row failed, a webhook whose answer was late.            *)
StepFails(a) ==
    LET e == exec[a]
    IN /\ e.status = "IN_PROGRESS"
       /\ ~PausesBefore(e)
       /\ \E effect \in {0, 1} : done' = [done EXCEPT ![e.run][e.at] = @ + effect]
       /\ exec' = [exec EXCEPT ![a].status = "FAILED"]
       /\ UNCHANGED <<run, approved, interrupted, overlapped>>

(* CreateWorkflowRun of a new run, UpdateWorkflowRunStatus of a resumed    *)
(* one, the latter without looking at what the row says by now.            *)
Record(a) ==
    LET e == exec[a]
    IN /\ e.status \in Recorded
       /\ run' = [run EXCEPT ![e.run] = [wf |-> e.wf, status |-> e.status, step |-> e.at]]
       /\ exec' = [exec EXCEPT ![a] = Idle]
       /\ UNCHANGED <<done, approved, interrupted, overlapped>>

(* The execution leaves no record: the process dies, the request is        *)
(* cancelled, or the final statement fails.                                *)
Interrupt(a) ==
    /\ exec[a] # Idle
    /\ interrupted[exec[a].run] < MaxInterrupts
    /\ interrupted' = [interrupted EXCEPT ![exec[a].run] = @ + 1]
    /\ exec' = [exec EXCEPT ![a] = Idle]
    /\ UNCHANGED <<run, done, approved, overlapped>>

RunsNext ==
    \E a \in Actors :
        \/ \E r \in Runs, w \in Workflows : TriggerEvent(a, r, w) \/ TestRunWorkflow(a, r, w)
        \/ \E r \in Runs : ApproveStep(a, r)
        \/ Pause(a) \/ ExecuteStep(a) \/ StepFails(a) \/ Record(a) \/ Interrupt(a)

RunsSpec == RunsInit /\ [][RunsNext]_runVars

(***************************************************************************)
(* Properties.                                                             *)
(***************************************************************************)
StepsOf(r) == {i \in StepNumbers : run[r] # Unrecorded /\ i <= Length(run[r].wf)}

(* Human in the loop, as the code's comments promise it: no draft is       *)
(* written without an approval of its own, given while the run was waiting *)
(* at that step.  The code does not keep it.                               *)
DraftsAreApproved ==
    \A r \in Runs : \A i \in StepsOf(r) :
        Steps[run[r].wf][i] = "draft" => done[r][i] <= approved[r][i]

(* A draft that follows another one.                                       *)
LaterDraft(w, i) ==
    Steps[w][i] = "draft" /\ \E j \in 1..(i - 1) : Steps[w][j] = "draft"

(* What it does keep: the first draft of a workflow is never written more  *)
(* often than it was approved, and nothing after it before it is.          *)
FirstDraftIsApproved ==
    \A r \in Runs : \A i \in StepsOf(r) :
        Steps[run[r].wf][i] = "draft" /\ ~LaterDraft(run[r].wf, i) =>
            /\ done[r][i] <= approved[r][i]
            /\ \A j \in StepsOf(r) : j > i /\ done[r][j] > 0 => approved[r][i] > 0

(* A step takes effect once, and once more only for an execution that was  *)
(* interrupted and for an approval that was given while another execution  *)
(* of the run was under way.  A later draft is the exception: the approval *)
(* before it executes it, its own one executes it again.                   *)
AtMostOncePerAttempt ==
    \A r \in Runs : \A i \in StepsOf(r) :
        LaterDraft(run[r].wf, i) \/ done[r][i] <= 1 + interrupted[r] + overlapped[r]

(* A run recorded as COMPLETED has executed every step.                    *)
CompletedMeansDone ==
    \A r \in Runs : run[r].status = "COMPLETED" => \A i \in StepsOf(r) : done[r][i] > 0

(* No step is executed before the ones it follows.                         *)
StepsInOrder ==
    \A r \in Runs : \A i, j \in StepNumbers : i < j /\ done[r][j] > 0 => done[r][i] > 0

(* What is recorded of a run is well formed and true of its steps.         *)
RunsAreConsistent == RunsTypeOK /\ CompletedMeansDone /\ StepsInOrder

(* A run that has ended stays as it ended, unless two executions of it     *)
(* overlapped: the one that ends last then writes over the other's result. *)
TerminalIsFinal ==
    [][\A r \in Runs : run[r].status \in {"COMPLETED", "FAILED"} /\ run'[r] # run[r] =>
          overlapped[r] > 0]_runVars
=============================================================================
