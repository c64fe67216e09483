-------------------------- MODULE AutomationProofs --------------------------
(***************************************************************************)
(* Proofs about Automation for any workflows, runs and actors, however     *)
(* executions overlap and whatever is interrupted: what is recorded of a   *)
(* run is true; the first draft waits for its approval; a step is repeated *)
(* only for an interruption or an overlapping approval; and a run that     *)
(* ended stays ended unless executions of it overlapped.                   *)
(***************************************************************************)
EXTENDS Automation, FiniteSetTheorems, TLAPS

IsDraft(w, i) == Steps[w][i] = "draft"

(* The first draft of a workflow.                                          *)
FirstDraft(w, i) == IsDraft(w, i) /\ ~LaterDraft(w, i)

Busy(a) == exec[a] # Idle

(* Every step before the i-th has taken effect.                            *)
DoneBefore(r, i) == \A j \in StepNumbers : j < i => done[r][j] > 0

(* Where a run or an execution stands: under way and waiting ones are at a *)
(* step, with those before it done, and completed ones have them all done. *)
StandsBy(d, r, w, status, i) ==
    /\ status \in {"IN_PROGRESS", "WAITING_APPROVAL"} =>
          i \in DOMAIN Steps[w] /\ \A j \in StepNumbers : j < i => d[r][j] > 0
    /\ status = "COMPLETED" => \A j \in DOMAIN Steps[w] : d[r][j] > 0
Stands(r, w, status, i) == StandsBy(done, r, w, status, i)

OrderInv ==
    /\ StepsInOrder
    /\ \A r \in Runs : run[r] # Unrecorded => Stands(r, run[r].wf, run[r].status, run[r].step)
    /\ \A a \in Actors : Busy(a) =>
          Stands(exec[a].run, exec[a].wf, exec[a].status, exec[a].at)

(* A new run has no row and one execution; a resumed one has a row, and    *)
(* was resumed at or before the step it is at.                             *)
OriginInv ==
    \A a \in Actors : Busy(a) =>
        LET e == exec[a]
        IN /\ e.from = 0 => /\ run[e.run] = Unrecorded
                            /\ \A b \in Actors : Busy(b) /\ exec[b].run = e.run => b = a
           /\ e.from # 0 => run[e.run] # Unrecorded /\ run[e.run].wf = e.wf /\ e.from <= e.at

(* Runs wait at drafts only, and are resumed there.                        *)
WaitInv ==
    /\ \A r \in Runs : run[r].status = "WAITING_APPROVAL" => IsDraft(run[r].wf, run[r].step)
    /\ \A a \in Actors : Busy(a) =>
          LET e == exec[a]
          IN /\ e.status = "WAITING_APPROVAL" => IsDraft(e.wf, e.at)
             /\ e.from # 0 => e.from \in DOMAIN Steps[e.wf] /\ IsDraft(e.wf, e.from)

(* Resumed executions that have their approved step still before them.     *)
Counts(e, r, i) == e.status = "IN_PROGRESS" /\ e.run = r /\ e.from = i /\ e.at = i
Owed(r, i) == {a \in Actors : Counts(exec[a], r, i)}

(* A run nobody has begun has done nothing.                                *)
FreshInv ==
    \A r \in Runs : run[r] = Unrecorded /\ interrupted[r] = 0 /\ (\A a \in Actors : Busy(a) => exec[a].run # r)
        => \A i \in StepNumbers : done[r][i] = 0

(* A new run has drafted nothing.                                          *)
UndraftedInv ==
    \A a \in Actors : Busy(a) /\ exec[a].from = 0 =>
        \A i \in DOMAIN Steps[exec[a].wf] : IsDraft(exec[a].wf, i) => done[exec[a].run][i] = 0

(* The first draft of a recorded run is covered by its approvals, with     *)
(* those that resumed executions still have before them.                   *)
CoveredInv ==
    \A r \in Runs : run[r] # Unrecorded =>
        \A i \in DOMAIN Steps[run[r].wf] : FirstDraft(run[r].wf, i) =>
            done[r][i] + Cardinality(Owed(r, i)) <= approved[r][i]

ApprovalInv ==
    /\ OriginInv
    /\ WaitInv
    /\ FreshInv
    /\ UndraftedInv
    /\ CoveredInv

(* Until approvals overlap, a run has one execution, and has not ended.    *)
AloneInv ==
    \A r \in Runs : overlapped[r] = 0 =>
        /\ \A a, b \in Executing(r) : a = b
        /\ \A a \in Executing(r) : exec[a].from # 0 => run[r].status = "WAITING_APPROVAL"

(* Executions that may still carry out step i of run r, here or after an   *)
(* approval; and the row that may, once nobody executes the run.           *)
MayDo(e, r, i) == e.status \in {"IN_PROGRESS", "WAITING_APPROVAL"} /\ e.run = r /\ e.at <= i
Doers(r, i) == {a \in Actors : MayDo(exec[a], r, i)}
RowMayDo(r, i) ==
    IF run[r].status = "WAITING_APPROVAL" /\ run[r].step <= i /\ Executing(r) = {} THEN 1 ELSE 0

(* Step i is no later draft of the workflow that run r follows.            *)
Plain(r, i) ==
    \/ run[r] # Unrecorded /\ ~LaterDraft(run[r].wf, i)
    \/ \E a \in Executing(r) : ~LaterDraft(exec[a].wf, i)

(* What took effect and what still may are within the attempts.            *)
AttemptInv ==
    \A r \in Runs, i \in StepNumbers : Plain(r, i) =>
        done[r][i] + Cardinality(Doers(r, i)) + RowMayDo(r, i) <= 1 + interrupted[r] + overlapped[r]

(***************************************************************************)
(* Operators.                                                              *)
(***************************************************************************)
(* Steps are numbered from one.                                            *)
LEMMA StepFacts ==
    /\ \A w \in Workflows : /\ Length(w) \in Nat
                            /\ DOMAIN Steps[w] = 1..Length(w)
                            /\ DOMAIN Steps[w] \subseteq StepNumbers
    /\ StepNumbers \subseteq Nat \ {0}
    /\ \A i \in {0} \cup StepNumbers : i \in Nat
  <1>1. \A w \in Workflows : Length(w) \in Nat /\ DOMAIN Steps[w] = 1..Length(w)
    BY AutomationAssumption DEF Length
  <1>2. \A w \in Workflows : DOMAIN Steps[w] \subseteq StepNumbers
    BY DEF StepNumbers
  <1>3. StepNumbers \subseteq Nat \ {0}
    BY <1>1 DEF StepNumbers
  <1>4. \A i : i \in StepNumbers => i \in Nat
    BY <1>3
  <1>5. \A i \in {0} \cup StepNumbers : i \in Nat
    <2>1. TAKE i \in {0} \cup StepNumbers
    <2>2. i = 0 \/ i \in StepNumbers
      OBVIOUS
    <2>3. QED
      BY <1>4, <2>2
  <1>6. QED
    BY <1>1, <1>2, <1>3, <1>5

(* The fields of an execution and of a row.                                *)
LEMMA Fields ==
    ASSUME RunsTypeOK
    PROVE  /\ \A a \in Actors : Busy(a) <=> exec[a].status # "idle"
           /\ \A a \in Actors : Busy(a) => exec[a] \in Execution
           /\ \A r \in Runs : run[r] # Unrecorded <=> run[r].status # "none"
           /\ \A r \in Runs : run[r] # Unrecorded =>
                 run[r] \in [wf : Workflows, status : Recorded, step : {0} \cup StepNumbers]
  <1>1. \A a \in Actors : exec[a] \in Execution \/ exec[a] = Idle
    BY DEF RunsTypeOK
  <1>2. \A r \in Runs : \/ run[r] \in [wf : Workflows, status : Recorded, step : {0} \cup StepNumbers]
                       \/ run[r] = Unrecorded
    BY DEF RunsTypeOK
  <1>3. \A e \in Execution : e.status # "idle"
    BY DEF Execution, Recorded
  <1>4. \A a \in Actors : Busy(a) <=> exec[a].status # "idle"
    BY <1>1, <1>3 DEF Busy, Idle
  <1>5. \A r \in Runs : run[r] # Unrecorded <=> run[r].status # "none"
    BY <1>2 DEF Unrecorded, Recorded
  <1>6. QED
    BY <1>1, <1>2, <1>4, <1>5 DEF Busy

(* The steps of a recorded run are those of its workflow.                  *)
LEMMA StepsOfRun ==
    ASSUME RunsTypeOK, NEW r \in Runs, run[r] # Unrecorded
    PROVE  StepsOf(r) = DOMAIN Steps[run[r].wf]
  <1>1. run[r].wf \in Workflows
    BY Fields
  <1>2. DOMAIN Steps[run[r].wf] = 1..Length(run[r].wf) /\ Length(run[r].wf) \in Nat
    BY <1>1, StepFacts
  <1>3. \A i \in StepNumbers : i <= Length(run[r].wf) <=> i \in DOMAIN Steps[run[r].wf]
    BY <1>2, StepFacts
  <1>4. DOMAIN Steps[run[r].wf] \subseteq StepNumbers
    BY <1>1, StepFacts
  <1>5. QED
    BY <1>3, <1>4 DEF StepsOf

(***************************************************************************)
(* What a step changes: the execution it starts, moves on or ends, and the *)
(* entry of its run in one of the other variables.                         *)
(***************************************************************************)
(* One actor's execution becomes e.                                        *)
Becomes(a, e) == exec' = [exec EXCEPT ![a] = e]

Started(r, w) ==
    [run |-> r, wf |-> w, from |-> 0, at |-> IF Length(w) = 0 THEN 0 ELSE 1, status |-> After(w, 0)]

Resumed(r) ==
    [run |-> r, wf |-> run[r].wf, from |-> run[r].step, at |-> run[r].step, status |-> "IN_PROGRESS"]

Moved(e, i, status) == [run |-> e.run, wf |-> e.wf, from |-> e.from, at |-> i, status |-> status]

(* An execution with some fields replaced.                                 *)
LEMMA MovedIs ==
    ASSUME NEW e \in Execution, NEW st, NEW i
    PROVE  /\ [e EXCEPT !.status = st] = Moved(e, e.at, st)
           /\ [e EXCEPT !.status = st, !.at = i] = Moved(e, i, st)
  <1> DEFINE Fixed(j) == [run : {e.run}, wf : {e.wf}, from : {e.from}, at : {j}, status : {st}]
  <1>1. \A j : \A n \in Fixed(j) : n = Moved(e, j, st)
    BY DEF Moved
  <1>2. [e EXCEPT !.status = st] \in Fixed(e.at)
    BY DEF Execution
  <1>3. [e EXCEPT !.status = st, !.at = i] \in Fixed(i)
    BY DEF Execution
  <1>4. QED
    BY <1>1, <1>2, <1>3

LEMMA MovedFields ==
    ASSUME NEW e, NEW i, NEW st
    PROVE  LET m == Moved(e, i, st)
           IN m.run = e.run /\ m.wf = e.wf /\ m.from = e.from /\ m.at = i /\ m.status = st
  BY DEF Moved

(* ExecuteStep, with the step and the status it leads to.                  *)
LEMMA ExecuteStepIs ==
    ASSUME RunsTypeOK, NEW a \in Actors, ExecuteStep(a)
    PROVE  \E st \in Recorded \cup {"IN_PROGRESS"} : \E i \in {exec[a].at, exec[a].at + 1} :
              /\ Becomes(a, Moved(exec[a], i, st))
              /\ st = IF PausesAfter(exec[a]) THEN "WAITING_APPROVAL"
                      ELSE After(exec[a].wf, exec[a].at)
              /\ i = IF st = "IN_PROGRESS" THEN exec[a].at + 1 ELSE exec[a].at
  <1> DEFINE next == IF PausesAfter(exec[a]) THEN "WAITING_APPROVAL"
                     ELSE After(exec[a].wf, exec[a].at)
             i == IF next = "IN_PROGRESS" THEN exec[a].at + 1 ELSE exec[a].at
  <1>1. exec[a] \in Execution
    BY Fields DEF ExecuteStep
  <1>2. exec' = [exec EXCEPT ![a].status = next,
                             ![a].at = IF next = "IN_PROGRESS" THEN @ + 1 ELSE @]
    BY DEF ExecuteStep
  <1>3. exec' = [exec EXCEPT ![a] = [exec[a] EXCEPT !.status = next, !.at = i]]
    BY <1>1, <1>2 DEF RunsTypeOK, Execution
  <1>4. next \in Recorded \cup {"IN_PROGRESS"}
    BY DEF After, Recorded
  <1>5. [exec[a] EXCEPT !.status = next, !.at = i] = Moved(exec[a], i, next)
    <2> HIDE DEF next, i
    <2>1. PICK e \in Execution : e = exec[a]
      BY <1>1
    <2>2. [e EXCEPT !.status = next, !.at = i] = Moved(e, i, next)
      BY MovedIs
    <2>3. QED
      BY <2>1, <2>2
  <1> HIDE DEF next
  <1>6. Becomes(a, Moved(exec[a], i, next))
    BY <1>3, <1>5 DEF Becomes
  <1>7. i \in {exec[a].at, exec[a].at + 1}
    OBVIOUS
  <1>8. QED
    BY <1>4, <1>6, <1>7 DEF next

(* The status an execution moves to without touching its step.             *)
LEMMA StatusIs ==
    ASSUME RunsTypeOK, NEW a \in Actors, Pause(a) \/ StepFails(a)
    PROVE  Becomes(a, Moved(exec[a], exec[a].at,
                            IF Pause(a) THEN "WAITING_APPROVAL" ELSE "FAILED"))
  <1>1. exec[a] \in Execution
    BY Fields DEF Pause, StepFails
  <1>2. CASE Pause(a)
    <2>1. exec' = [exec EXCEPT ![a] = [exec[a] EXCEPT !.status = "WAITING_APPROVAL"]]
      BY <1>2 DEF Pause
    <2>2. QED
      BY <1>1, <1>2, <2>1, MovedIs DEF Becomes
  <1>3. CASE ~Pause(a)
    <2>1. exec' = [exec EXCEPT ![a] = [exec[a] EXCEPT !.status = "FAILED"]]
      BY <1>3 DEF StepFails
    <2>2. QED
      BY <1>1, <1>3, <2>1, MovedIs DEF Becomes
  <1>4. QED
    BY <1>2, <1>3

(* The other executions stay as they are.                                  *)
LEMMA BecomesIs ==
    ASSUME RunsTypeOK, NEW a \in Actors, NEW e \in Execution \cup {Idle}, Becomes(a, e)
    PROVE  /\ exec' \in [Actors -> Execution \cup {Idle}]
           /\ exec'[a] = e
           /\ \A b \in Actors \ {a} : exec'[b] = exec[b]
  BY DEF RunsTypeOK, Becomes

(* A step that takes effect, or fails to, counts for itself only.          *)
LEMMA DoneIs ==
    ASSUME RunsTypeOK, NEW r \in Runs, NEW i \in StepNumbers, NEW n \in {0, 1},
           done' = [done EXCEPT ![r][i] = @ + n]
    PROVE  /\ done' \in [Runs -> [StepNumbers -> Nat]]
           /\ \A q \in Runs, j \in StepNumbers :
                 done'[q][j] = IF q = r /\ j = i THEN done[q][j] + n ELSE done[q][j]
  BY DEF RunsTypeOK

(* An execution under way is at a step of its workflow, and has done those *)
(* before it.                                                              *)
LEMMA UnderWay ==
    ASSUME RunsTypeOK, OrderInv, NEW a \in Actors, exec[a].status = "IN_PROGRESS"
    PROVE  /\ Busy(a) /\ exec[a] \in Execution
           /\ exec[a].run \in Runs /\ exec[a].wf \in Workflows
           /\ exec[a].at \in DOMAIN Steps[exec[a].wf] /\ exec[a].at \in StepNumbers
           /\ exec[a].at \in Nat
           /\ DoneBefore(exec[a].run, exec[a].at)
  <1>1. Busy(a) /\ exec[a] \in Execution
    BY Fields
  <1>2. exec[a].run \in Runs /\ exec[a].wf \in Workflows
    BY <1>1 DEF Execution
  <1>3. exec[a].at \in DOMAIN Steps[exec[a].wf] /\ DoneBefore(exec[a].run, exec[a].at)
    BY <1>1 DEF OrderInv, Stands, StandsBy, DoneBefore
  <1>4. QED
    BY <1>1, <1>2, <1>3, StepFacts

(***************************************************************************)
(* Types and the order of steps.                                           *)
(***************************************************************************)
(* Where the step after a step is.                                         *)
LEMMA AfterIs ==
    ASSUME RunsTypeOK, NEW w \in Workflows, NEW i \in DOMAIN Steps[w]
    PROVE  \/ After(w, i) = "COMPLETED" /\ i = Length(w)
           \/ After(w, i) = "IN_PROGRESS" /\ i + 1 \in DOMAIN Steps[w]
  <1>1. DOMAIN Steps[w] = 1..Length(w) /\ Length(w) \in Nat
    BY StepFacts
  <1>2. QED
    BY <1>1 DEF After

(* Steps that change no row and take no effect keep the order if the       *)
(* execution they leave stands well.                                       *)
LEMMA OrderOfExecution ==
    ASSUME RunsTypeOK, OrderInv, UNCHANGED <<run, done>>, NEW a \in Actors,
           NEW e \in Execution \cup {Idle}, Becomes(a, e),
           e # Idle => Stands(e.run, e.wf, e.status, e.at)
    PROVE  OrderInv'
  <1>1. StepsInOrder'
    BY DEF OrderInv, StepsInOrder
  <1>3. \A r \in Runs : run'[r] # Unrecorded => Stands(r, run[r].wf, run[r].status, run[r].step)'
    BY DEF OrderInv, Stands
  <1>4. \A b \in Actors : exec'[b] # Idle =>
           Stands(exec'[b].run, exec'[b].wf, exec'[b].status, exec'[b].at)
    BY BecomesIs DEF OrderInv, Busy
  <1>5. \A b \in Actors : Busy(b)' => Stands(exec[b].run, exec[b].wf, exec[b].status, exec[b].at)'
    BY <1>4 DEF Busy, Stands
  <1>6. QED
    BY <1>1, <1>3, <1>5 DEF OrderInv

(* Steps that take effect keep what stood well, in order.                  *)
LEMMA OrderOfEffects ==
    ASSUME RunsTypeOK, OrderInv, UNCHANGED run, NEW a \in Actors, exec[a].status = "IN_PROGRESS",
           NEW n \in {0, 1}, done' = [done EXCEPT ![exec[a].run][exec[a].at] = @ + n],
           NEW e \in Execution, Becomes(a, e),
           StandsBy(done', e.run, e.wf, e.status, e.at)
    PROVE  OrderInv'
  <1>1. exec[a].run \in Runs /\ exec[a].at \in StepNumbers /\ DoneBefore(exec[a].run, exec[a].at)
    BY UnderWay
  <1>2. \A q \in Runs, j \in StepNumbers :
           done'[q][j] = IF q = exec[a].run /\ j = exec[a].at THEN done[q][j] + n ELSE done[q][j]
    BY <1>1, DoneIs
  <1>3. \A q \in Runs, j \in StepNumbers : done[q][j] \in Nat
    BY DEF RunsTypeOK
  <1>4. \A q \in Runs, j \in StepNumbers : done[q][j] > 0 => done'[q][j] > 0
    BY <1>2, <1>3
  <1>5. \A q \in Runs, j \in StepNumbers :
           done'[q][j] > 0 /\ ~(done[q][j] > 0) => q = exec[a].run /\ j = exec[a].at
    BY <1>2, <1>3
  <1>6. StepsInOrder'
    BY <1>1, <1>4, <1>5 DEF OrderInv, StepsInOrder, DoneBefore
  <1>7. \A r \in Runs, w \in Workflows : \A st, i :
           StandsBy(done, r, w, st, i) => StandsBy(done', r, w, st, i)
    BY <1>4, StepFacts DEF StandsBy
  <1>8. \A r \in Runs : run'[r] # Unrecorded => Stands(r, run[r].wf, run[r].status, run[r].step)'
    <2>1. TAKE r \in Runs
    <2>2. HAVE run'[r] # Unrecorded
    <2>3. run'[r] = run[r] /\ run[r].wf \in Workflows
      BY <2>2, Fields
    <2>4. Stands(r, run[r].wf, run[r].status, run[r].step)
      BY <2>2, <2>3 DEF OrderInv
    <2>5. QED
      BY <2>3, <2>4, <1>7 DEF Stands
  <1>9. \A b \in Actors : Busy(b)' => Stands(exec[b].run, exec[b].wf, exec[b].status, exec[b].at)'
    <2>1. TAKE b \in Actors
    <2>2. HAVE Busy(b)'
    <2>3. CASE b = a
      <3>1. exec'[b] = e
        BY <2>3, BecomesIs
      <3>2. QED
        BY <3>1 DEF Stands
    <2>4. CASE b # a
      <3>1. exec'[b] = exec[b] /\ Busy(b)
        BY <2>2, <2>4, BecomesIs DEF Busy
      <3>2. exec[b].run \in Runs /\ exec[b].wf \in Workflows
        BY <3>1, Fields DEF Execution
      <3>3. Stands(exec[b].run, exec[b].wf, exec[b].status, exec[b].at)
        BY <3>1 DEF OrderInv
      <3>4. QED
        BY <3>1, <3>2, <3>3, <1>7 DEF Stands
    <2>5. QED
      BY <2>3, <2>4
  <1>10. QED
    BY <1>6, <1>8, <1>9 DEF OrderInv
(* The execution a Begin starts.                                           *)
LEMMA StartedIs ==
    ASSUME RunsTypeOK, OrderInv, NEW r \in Runs, NEW w \in Workflows
    PROVE  /\ Started(r, w) \in Execution
           /\ Stands(r, w, Started(r, w).status, Started(r, w).at)
  <1>1. Length(w) \in Nat /\ DOMAIN Steps[w] = 1..Length(w) /\ DOMAIN Steps[w] \subseteq StepNumbers
        /\ StepNumbers \subseteq Nat \ {0}
    BY StepFacts
  <1>2. CASE Length(w) = 0
    <2>1. After(w, 0) = "COMPLETED" /\ DOMAIN Steps[w] = {}
      BY <1>1, <1>2 DEF After
    <2>2. QED
      BY <1>2, <2>1 DEF Started, Execution, Recorded, Stands, StandsBy
  <1>3. CASE Length(w) # 0
    <2>1. After(w, 0) = "IN_PROGRESS" /\ 1 \in DOMAIN Steps[w] /\ 1 \in StepNumbers
      BY <1>1, <1>3 DEF After
    <2>2. \A j \in StepNumbers : ~(j < 1)
      BY <1>1
    <2>3. QED
      BY <1>3, <2>1, <2>2 DEF Started, Execution, Recorded, Stands, StandsBy
  <1>4. QED
    BY <1>2, <1>3

(* The execution an approval resumes.                                      *)
LEMMA ResumedIs ==
    ASSUME RunsTypeOK, OrderInv, NEW r \in Runs, run[r].status = "WAITING_APPROVAL"
    PROVE  /\ run[r] # Unrecorded /\ run[r].wf \in Workflows
           /\ run[r].step \in DOMAIN Steps[run[r].wf] /\ run[r].step \in StepNumbers
           /\ Resumed(r) \in Execution
           /\ Stands(r, Resumed(r).wf, Resumed(r).status, Resumed(r).at)
  <1>1. run[r] # Unrecorded /\ run[r].wf \in Workflows
    BY Fields
  <1>2. run[r].step \in DOMAIN Steps[run[r].wf] /\ DoneBefore(r, run[r].step)
    BY <1>1 DEF OrderInv, Stands, StandsBy, DoneBefore
  <1>3. run[r].step \in StepNumbers
    BY <1>1, <1>2, StepFacts
  <1>4. QED
    BY <1>1, <1>2, <1>3 DEF Resumed, Execution, Stands, StandsBy, DoneBefore

(* A moved execution has the type if its step and status have.             *)
LEMMA MovedType ==
    ASSUME NEW e \in Execution, NEW i \in StepNumbers, NEW st \in Recorded \cup {"IN_PROGRESS"}
    PROVE  Moved(e, i, st) \in Execution
  BY DEF Moved, Execution

LEMMA BeginOrder ==
    ASSUME RunsTypeOK, OrderInv, NEW a \in Actors, NEW r \in Runs, NEW w \in Workflows, Begin(a, r, w)
    PROVE  RunsTypeOK' /\ OrderInv'
  <1>1. Becomes(a, Started(r, w))
    BY DEF Begin, Becomes, Started
  <1>2. Started(r, w) \in Execution /\ Stands(r, w, Started(r, w).status, Started(r, w).at)
    BY StartedIs
  <1>3. Started(r, w).run = r /\ Started(r, w).wf = w
    BY DEF Started
  <1>4. RunsTypeOK'
    BY <1>1, <1>2, BecomesIs DEF RunsTypeOK, Begin
  <1>5. UNCHANGED <<run, done>>
    BY DEF Begin
  <1>6. QED
    BY <1>1, <1>2, <1>3, <1>4, <1>5, OrderOfExecution

LEMMA ApproveOrder ==
    ASSUME RunsTypeOK, OrderInv, NEW a \in Actors, NEW r \in Runs, ApproveStep(a, r)
    PROVE  RunsTypeOK' /\ OrderInv'
  <1>1. Becomes(a, Resumed(r)) /\ run[r].status = "WAITING_APPROVAL" /\ UNCHANGED <<run, done>>
    BY DEF ApproveStep, Becomes, Resumed
  <1>2. Resumed(r) \in Execution /\ Stands(r, Resumed(r).wf, Resumed(r).status, Resumed(r).at)
        /\ run[r].step \in StepNumbers
    BY <1>1, ResumedIs
  <1>3. Resumed(r).run = r
    BY DEF Resumed
  <1>4. approved' \in [Runs -> [StepNumbers -> Nat]]
    <2>1. approved' = [approved EXCEPT ![r][run[r].step] = @ + 1]
      BY DEF ApproveStep
    <2>2. QED
      BY <1>2, <2>1 DEF RunsTypeOK
  <1>7. overlapped' \in [Runs -> Nat]
    BY DEF ApproveStep, CountOverlap, RunsTypeOK
  <1>5. RunsTypeOK'
    BY <1>1, <1>2, <1>4, <1>7, BecomesIs DEF RunsTypeOK, ApproveStep
  <1>6. QED
    BY <1>1, <1>2, <1>3, <1>5, OrderOfExecution

LEMMA PauseOrder ==
    ASSUME RunsTypeOK, OrderInv, NEW a \in Actors, Pause(a)
    PROVE  RunsTypeOK' /\ OrderInv'
  <1> DEFINE e == Moved(exec[a], exec[a].at, "WAITING_APPROVAL")
  <1>1. exec[a].status = "IN_PROGRESS" /\ UNCHANGED <<run, done>>
    BY DEF Pause
  <1>2. /\ exec[a] \in Execution /\ exec[a].at \in StepNumbers
        /\ exec[a].at \in DOMAIN Steps[exec[a].wf] /\ DoneBefore(exec[a].run, exec[a].at)
    BY <1>1, UnderWay
  <1>3. Becomes(a, e)
    BY StatusIs
  <1>4. e \in Execution
    BY <1>2, MovedType DEF Recorded
  <1>5. Stands(e.run, e.wf, e.status, e.at)
    BY <1>2, MovedFields DEF Stands, StandsBy, DoneBefore
  <1> HIDE DEF e
  <1>6. RunsTypeOK'
    BY <1>3, <1>4, BecomesIs DEF RunsTypeOK, Pause
  <1>7. QED
    BY <1>1, <1>3, <1>4, <1>5, <1>6, OrderOfExecution

LEMMA ExecuteOrder ==
    ASSUME RunsTypeOK, OrderInv, NEW a \in Actors, ExecuteStep(a)
    PROVE  RunsTypeOK' /\ OrderInv'
  <1>1. exec[a].status = "IN_PROGRESS" /\ UNCHANGED <<run, approved, interrupted, overlapped>>
    BY DEF ExecuteStep
  <1>2. /\ exec[a] \in Execution /\ exec[a].run \in Runs /\ exec[a].wf \in Workflows
        /\ exec[a].at \in StepNumbers /\ exec[a].at \in Nat
        /\ exec[a].at \in DOMAIN Steps[exec[a].wf] /\ DoneBefore(exec[a].run, exec[a].at)
    BY <1>1, UnderWay
  <1>3. done' = [done EXCEPT ![exec[a].run][exec[a].at] = @ + 1]
    BY DEF ExecuteStep
  <1>4. PICK st \in Recorded \cup {"IN_PROGRESS"}, i \in {exec[a].at, exec[a].at + 1} :
              /\ Becomes(a, Moved(exec[a], i, st))
              /\ st = IF PausesAfter(exec[a]) THEN "WAITING_APPROVAL"
                      ELSE After(exec[a].wf, exec[a].at)
              /\ i = IF st = "IN_PROGRESS" THEN exec[a].at + 1 ELSE exec[a].at
    BY ExecuteStepIs
  <1>5. \/ After(exec[a].wf, exec[a].at) = "COMPLETED" /\ exec[a].at = Length(exec[a].wf)
        \/ After(exec[a].wf, exec[a].at) = "IN_PROGRESS"
           /\ exec[a].at + 1 \in DOMAIN Steps[exec[a].wf]
    BY <1>2, AfterIs
  <1>6. i \in DOMAIN Steps[exec[a].wf] /\ i \in StepNumbers
        /\ (st = "COMPLETED" => exec[a].at = Length(exec[a].wf))
    BY <1>2, <1>4, <1>5, StepFacts
  <1> DEFINE e == Moved(exec[a], i, st)
  <1>7. e \in Execution
    BY <1>2, <1>6, MovedType
  <1>8. \A j \in StepNumbers : j <= exec[a].at => done'[exec[a].run][j] > 0
    <2>1. \A j \in StepNumbers : j \in Nat /\ done[exec[a].run][j] \in Nat
      BY <1>2, StepFacts DEF RunsTypeOK
    <2>2. \A j \in StepNumbers : done'[exec[a].run][j] =
             IF j = exec[a].at THEN done[exec[a].run][j] + 1 ELSE done[exec[a].run][j]
      BY <1>2, <1>3, DoneIs
    <2>3. QED
      BY <1>2, <2>1, <2>2 DEF DoneBefore
  <1>9. e.run = exec[a].run /\ e.wf = exec[a].wf /\ e.status = st /\ e.at = i
    BY MovedFields
  <1> HIDE DEF e
  <1>10. e.status = "COMPLETED" => \A j \in DOMAIN Steps[e.wf] : done'[e.run][j] > 0
    <2>1. \A j \in DOMAIN Steps[e.wf] : j \in StepNumbers /\ j <= Length(e.wf)
      BY <1>2, <1>9, StepFacts
    <2>2. QED
      BY <1>6, <1>8, <1>9, <2>1
  <1>11. \A j \in StepNumbers : j < e.at => done'[e.run][j] > 0
    <2>1. i = exec[a].at \/ i = exec[a].at + 1
      BY <1>4
    <2>2. \A j \in StepNumbers : j < i => j <= exec[a].at
      BY <1>2, <2>1, StepFacts
    <2>3. QED
      BY <1>8, <1>9, <2>2
  <1>12. Becomes(a, e)
    BY <1>4 DEF e
  <1>13. OrderInv'
    <2>1. StandsBy(done', e.run, e.wf, e.status, e.at)
      BY <1>6, <1>9, <1>10, <1>11 DEF StandsBy
    <2>2. QED
      BY <1>1, <1>3, <1>7, <1>12, <2>1, OrderOfEffects
  <1>14. done' \in [Runs -> [StepNumbers -> Nat]]
    BY <1>2, <1>3, DoneIs
  <1>15. RunsTypeOK'
    BY <1>1, <1>7, <1>12, <1>14, BecomesIs DEF RunsTypeOK
  <1>16. QED
    BY <1>13, <1>15

LEMMA FailsOrder ==
    ASSUME RunsTypeOK, OrderInv, NEW a \in Actors, StepFails(a)
    PROVE  RunsTypeOK' /\ OrderInv'
  <1> DEFINE e == Moved(exec[a], exec[a].at, "FAILED")
  <1>1. exec[a].status = "IN_PROGRESS" /\ UNCHANGED <<run, approved, interrupted, overlapped>>
    BY DEF StepFails
  <1>2. PICK n \in {0, 1} : done' = [done EXCEPT ![exec[a].run][exec[a].at] = @ + n]
    BY DEF StepFails
  <1>3. exec[a] \in Execution /\ exec[a].run \in Runs /\ exec[a].at \in StepNumbers
    BY <1>1, UnderWay
  <1>4. ~Pause(a)
    BY DEF Pause, StepFails
  <1>5. Becomes(a, e)
    BY <1>4, StatusIs
  <1>6. e \in Execution
    BY <1>3, MovedType DEF Recorded
  <1>7. e.status = "FAILED"
    BY MovedFields
  <1> HIDE DEF e
  <1>8. OrderInv'
    <2>1. StandsBy(done', e.run, e.wf, e.status, e.at)
      BY <1>7 DEF StandsBy
    <2>2. QED
      BY <1>1, <1>2, <1>5, <1>6, <2>1, OrderOfEffects
  <1>9. done' \in [Runs -> [StepNumbers -> Nat]]
    BY <1>2, <1>3, DoneIs
  <1>10. RunsTypeOK'
    BY <1>1, <1>5, <1>6, <1>9, BecomesIs DEF RunsTypeOK
  <1>11. QED
    BY <1>8, <1>10

LEMMA InterruptOrder ==
    ASSUME RunsTypeOK, OrderInv, NEW a \in Actors, Interrupt(a)
    PROVE  RunsTypeOK' /\ OrderInv'
  <1>1. Becomes(a, Idle) /\ UNCHANGED <<run, done, approved, overlapped>>
    BY DEF Interrupt, Becomes
  <1>2. exec[a].run \in Runs
    BY Fields DEF Interrupt, Busy, Execution
  <1>3. interrupted' \in [Runs -> 0..MaxInterrupts]
    <2>1. interrupted' = [interrupted EXCEPT ![exec[a].run] = @ + 1]
          /\ interrupted[exec[a].run] < MaxInterrupts
      BY DEF Interrupt
    <2>2. QED
      BY <1>2, <2>1, AutomationAssumption DEF RunsTypeOK
  <1>4. RunsTypeOK'
    BY <1>1, <1>3, BecomesIs DEF RunsTypeOK
  <1>5. QED
    BY <1>1, <1>4, OrderOfExecution

LEMMA RecordOrder ==
    ASSUME RunsTypeOK, OrderInv, NEW a \in Actors, Record(a)
    PROVE  RunsTypeOK' /\ OrderInv'
  <1> DEFINE e == exec[a]
             row == [wf |-> exec[a].wf, status |-> exec[a].status, step |-> exec[a].at]
  <1>1. Becomes(a, Idle) /\ UNCHANGED <<done, approved, interrupted, overlapped>>
        /\ run' = [run EXCEPT ![exec[a].run] = row] /\ e.status \in Recorded
    BY DEF Record, Becomes
  <1>2. Busy(a) /\ exec[a] \in Execution
    BY <1>1, Fields DEF Recorded
  <1>3. exec[a].run \in Runs
        /\ row \in [wf : Workflows, status : Recorded, step : {0} \cup StepNumbers]
    BY <1>1, <1>2 DEF Execution
  <1>4. RunsTypeOK'
    BY <1>1, <1>3, BecomesIs DEF RunsTypeOK
  <1>5. Stands(e.run, row.wf, row.status, row.step)
    BY <1>2 DEF OrderInv
  <1> HIDE DEF e, row
  <1>6. \A r, w, st, i : Stands(r, w, st, i) => Stands(r, w, st, i)'
    BY <1>1 DEF Stands, StandsBy, DoneBefore
  <1>7. \A r \in Runs : run'[r] # Unrecorded => Stands(r, run'[r].wf, run'[r].status, run'[r].step)
    <2>1. TAKE r \in Runs
    <2>2. run'[r] = IF r = exec[a].run THEN row ELSE run[r]
      BY <1>1, <1>3 DEF RunsTypeOK
    <2>3. QED
      BY <1>5, <2>2 DEF OrderInv, e
  <1>8. \A b \in Actors : exec'[b] # Idle =>
           Stands(exec'[b].run, exec'[b].wf, exec'[b].status, exec'[b].at)
    BY <1>1, BecomesIs DEF OrderInv, Busy
  <1>9. \A r \in Runs : run'[r] # Unrecorded => Stands(r, run[r].wf, run[r].status, run[r].step)'
    BY <1>1, <1>7 DEF Stands, StandsBy, DoneBefore
  <1>10. \A b \in Actors : Busy(b)' => Stands(exec[b].run, exec[b].wf, exec[b].status, exec[b].at)'
    BY <1>1, <1>8 DEF Busy, Stands
  <1>11. StepsInOrder'
    BY <1>1 DEF OrderInv, StepsInOrder
  <1>12. QED
    BY <1>4, <1>9, <1>10, <1>11 DEF OrderInv

(* The steps that move an execution on.                                    *)
LEMMA Moves ==
    ASSUME RunsTypeOK, OrderInv, NEW a \in Actors, Pause(a) \/ ExecuteStep(a) \/ StepFails(a)
    PROVE  /\ exec[a].status = "IN_PROGRESS" /\ UNCHANGED <<run, approved, interrupted, overlapped>>
           /\ \E i \in {exec[a].at, exec[a].at + 1}, st \in Recorded \cup {"IN_PROGRESS"} :
                 /\ Moved(exec[a], i, st) \in Execution
                 /\ Becomes(a, Moved(exec[a], i, st))
                 /\ i = exec[a].at <=> st # "IN_PROGRESS"
                 /\ st = "WAITING_APPROVAL" => i = exec[a].at /\ (Pause(a) \/ PausesAfter(exec[a]))
  <1>1. exec[a].status = "IN_PROGRESS" /\ UNCHANGED <<run, approved, interrupted, overlapped>>
    BY DEF Pause, ExecuteStep, StepFails
  <1>2. exec[a] \in Execution /\ exec[a].wf \in Workflows
        /\ exec[a].at \in DOMAIN Steps[exec[a].wf] /\ exec[a].at \in StepNumbers /\ exec[a].at \in Nat
    BY <1>1, UnderWay
  <1>3. CASE Pause(a) \/ StepFails(a)
    <2> DEFINE st == IF Pause(a) THEN "WAITING_APPROVAL" ELSE "FAILED"
    <2>1. st \in Recorded /\ (st = "WAITING_APPROVAL" => Pause(a)) /\ st # "IN_PROGRESS"
      BY DEF Recorded
    <2>2. Becomes(a, Moved(exec[a], exec[a].at, st))
      BY <1>3, StatusIs
    <2> HIDE DEF st
    <2>3. Moved(exec[a], exec[a].at, st) \in Execution
      BY <1>2, <2>1, MovedType
    <2>4. QED
      BY <1>1, <2>1, <2>2, <2>3
  <1>4. CASE ExecuteStep(a)
    <2>1. PICK st \in Recorded \cup {"IN_PROGRESS"}, i \in {exec[a].at, exec[a].at + 1} :
              /\ Becomes(a, Moved(exec[a], i, st))
              /\ st = IF PausesAfter(exec[a]) THEN "WAITING_APPROVAL"
                      ELSE After(exec[a].wf, exec[a].at)
              /\ i = IF st = "IN_PROGRESS" THEN exec[a].at + 1 ELSE exec[a].at
      BY <1>4, ExecuteStepIs
    <2>2. \/ After(exec[a].wf, exec[a].at) = "COMPLETED"
          \/ After(exec[a].wf, exec[a].at) = "IN_PROGRESS"
             /\ exec[a].at + 1 \in DOMAIN Steps[exec[a].wf]
      BY <1>2, AfterIs
    <2>3. i \in StepNumbers
      BY <1>2, <2>1, <2>2, StepFacts
    <2>4. Moved(exec[a], i, st) \in Execution
      BY <1>2, <2>1, <2>3, MovedType
    <2>5. i = exec[a].at <=> st # "IN_PROGRESS"
      BY <1>2, <2>1
    <2>6. st = "WAITING_APPROVAL" => i = exec[a].at /\ PausesAfter(exec[a])
      BY <2>1, <2>2
    <2>7. QED
      BY <1>1, <2>1, <2>4, <2>5, <2>6
  <1>5. QED
    BY <1>3, <1>4

LEMMA OrderInit ==
    ASSUME RunsInit
    PROVE  RunsTypeOK /\ OrderInv
  <1>1. RunsTypeOK
    BY AutomationAssumption DEF RunsInit, RunsTypeOK
  <1>2. StepsInOrder
    BY DEF RunsInit, StepsInOrder
  <1>3. QED
    BY <1>1, <1>2 DEF RunsInit, OrderInv, Busy

LEMMA OrderNext ==
    ASSUME RunsTypeOK, OrderInv, [RunsNext]_runVars
    PROVE  RunsTypeOK' /\ OrderInv'
  <1>1. CASE UNCHANGED runVars
    <2>1. RunsTypeOK'
      BY <1>1 DEF RunsTypeOK, runVars
    <2>2. StepsInOrder'
      BY <1>1 DEF OrderInv, StepsInOrder, runVars
    <2>3. QED
      BY <1>1, <2>1, <2>2 DEF OrderInv, Stands, Busy, runVars
  <1>2. CASE RunsNext
    <2>1. PICK a \in Actors :
             \/ \E r \in Runs, w \in Workflows : TriggerEvent(a, r, w) \/ TestRunWorkflow(a, r, w)
             \/ \E r \in Runs : ApproveStep(a, r)
             \/ Pause(a) \/ ExecuteStep(a) \/ StepFails(a) \/ Record(a) \/ Interrupt(a)
      BY <1>2 DEF RunsNext
    <2>2. CASE \E r \in Runs, w \in Workflows : TriggerEvent(a, r, w) \/ TestRunWorkflow(a, r, w)
      BY <2>2, BeginOrder DEF TriggerEvent, TestRunWorkflow
    <2>3. CASE \E r \in Runs : ApproveStep(a, r)
      BY <2>3, ApproveOrder
    <2>4. CASE Pause(a)
      BY <2>4, PauseOrder
    <2>5. CASE ExecuteStep(a)
      BY <2>5, ExecuteOrder
    <2>6. CASE StepFails(a)
      BY <2>6, FailsOrder
    <2>7. CASE Record(a)
      BY <2>7, RecordOrder
    <2>8. CASE Interrupt(a)
      BY <2>8, InterruptOrder
    <2>9. QED
      BY <2>1, <2>2, <2>3, <2>4, <2>5, <2>6, <2>7, <2>8
  <1>3. QED
    BY <1>1, <1>2

(* Whatever fails, is interrupted or overlaps: no step of a run is carried *)
(* out before the ones it follows, and a run recorded as COMPLETED has     *)
(* carried out all of them.                                                *)
THEOREM RunsStayConsistent == RunsSpec => []RunsAreConsistent
  <1>1. RunsTypeOK /\ OrderInv => RunsAreConsistent
    <2> SUFFICES ASSUME RunsTypeOK, OrderInv PROVE RunsAreConsistent
      OBVIOUS
    <2>1. CompletedMeansDone
      <3>1. SUFFICES ASSUME NEW r \in Runs, run[r].status = "COMPLETED", NEW i \in StepsOf(r)
                     PROVE  done[r][i] > 0
        BY DEF CompletedMeansDone
      <3>2. run[r] # Unrecorded
        BY <3>1, Fields
      <3>3. QED
        BY <3>1, <3>2, StepsOfRun DEF OrderInv, Stands, StandsBy, DoneBefore
    <2>2. QED
      BY <2>1 DEF RunsAreConsistent, OrderInv
  <1>2. QED
    BY <1>1, OrderInit, OrderNext, PTL DEF RunsSpec

(***************************************************************************)
(* Approvals.                                                              *)
(***************************************************************************)
(* How a step of an actor changes what is owed.                            *)
LEMMA OwedIs ==
    ASSUME RunsTypeOK, NEW a \in Actors, NEW e \in Execution \cup {Idle}, Becomes(a, e),
           NEW r \in Runs, NEW i \in StepNumbers
    PROVE  /\ Cardinality(Owed(r, i)) \in Nat
           /\ Counts(e, r, i) /\ Counts(exec[a], r, i)
                 => Cardinality(Owed(r, i)') = Cardinality(Owed(r, i))
           /\ ~Counts(e, r, i) /\ ~Counts(exec[a], r, i)
                 => Cardinality(Owed(r, i)') = Cardinality(Owed(r, i))
           /\ Counts(e, r, i) /\ ~Counts(exec[a], r, i)
                 => Cardinality(Owed(r, i)') = Cardinality(Owed(r, i)) + 1
           /\ ~Counts(e, r, i) /\ Counts(exec[a], r, i)
                 => Cardinality(Owed(r, i)') = Cardinality(Owed(r, i)) - 1
  <1>1. IsFiniteSet(Owed(r, i))
    BY AutomationAssumption, FS_Subset DEF Owed
  <1>2. Cardinality(Owed(r, i)) \in Nat
    BY <1>1, FS_CardinalityType
  <1>3. a \in Owed(r, i) <=> Counts(exec[a], r, i)
    BY DEF Owed
  <1>4. exec'[a] = e /\ \A b \in Actors \ {a} : exec'[b] = exec[b]
    BY BecomesIs
  <1>5. Owed(r, i)' = {b \in Actors : Counts(exec'[b], r, i)}
    BY DEF Owed, Counts
  <1>6. Owed(r, i)' = IF Counts(e, r, i) THEN Owed(r, i) \cup {a} ELSE Owed(r, i) \ {a}
    <2> HIDE DEF Counts
    <2>1. \A b : b \in Owed(r, i)' <=> b \in Actors /\ Counts(exec'[b], r, i)
      BY <1>5
    <2>2. \A b : b \in Owed(r, i) <=> b \in Actors /\ Counts(exec[b], r, i)
      BY DEF Owed
    <2>3. QED
      BY <2>1, <2>2, <1>4
  <1>7. /\ Cardinality(Owed(r, i) \cup {a}) =
              IF a \in Owed(r, i) THEN Cardinality(Owed(r, i)) ELSE Cardinality(Owed(r, i)) + 1
        /\ Cardinality(Owed(r, i) \ {a}) =
              IF a \in Owed(r, i) THEN Cardinality(Owed(r, i)) - 1 ELSE Cardinality(Owed(r, i))
    BY <1>1, FS_AddElement, FS_RemoveElement
  <1>8. QED
    BY <1>2, <1>3, <1>6, <1>7

(* Where executions come from, action by action.                           *)
LEMMA OriginNext ==
    ASSUME RunsTypeOK, OrderInv, OriginInv, [RunsNext]_runVars
    PROVE  OriginInv'
  <1>1. CASE UNCHANGED runVars
    BY <1>1 DEF OriginInv, Busy, runVars
  <1>2. ASSUME NEW a \in Actors, NEW r \in Runs, NEW w \in Workflows, Begin(a, r, w)
        PROVE  OriginInv'
    <2>1. Becomes(a, Started(r, w)) /\ UNCHANGED run /\ run[r] = Unrecorded
      BY <1>2 DEF Begin, Becomes, Started
    <2>2. \A b \in Actors : Busy(b) => exec[b].run # r
      BY <1>2 DEF Begin, Executing, Busy
    <2>3. Started(r, w) \in Execution
      BY StartedIs
    <2>4. Started(r, w).run = r /\ Started(r, w).from = 0
      BY DEF Started
    <2>5. exec'[a] = Started(r, w) /\ \A b \in Actors \ {a} : exec'[b] = exec[b]
      BY <2>1, <2>3, BecomesIs
    <2>6. QED
      BY <2>1, <2>2, <2>4, <2>5 DEF OriginInv, Busy
  <1>3. ASSUME NEW a \in Actors, NEW r \in Runs, ApproveStep(a, r)
        PROVE  OriginInv'
    <2>1. Becomes(a, Resumed(r)) /\ run[r].status = "WAITING_APPROVAL" /\ UNCHANGED run
      BY <1>3 DEF ApproveStep, Becomes, Resumed
    <2>2. Resumed(r) \in Execution /\ run[r] # Unrecorded /\ run[r].step \in Nat \ {0}
      BY <2>1, ResumedIs, StepFacts
    <2>3. Resumed(r).run = r /\ Resumed(r).from # 0 /\ Resumed(r).wf = run[r].wf
          /\ Resumed(r).from <= Resumed(r).at
      BY <2>2 DEF Resumed
    <2>4. exec'[a] = Resumed(r) /\ \A b \in Actors \ {a} : exec'[b] = exec[b]
      BY <2>1, <2>2, BecomesIs
    <2>5. QED
      BY <2>1, <2>2, <2>3, <2>4 DEF OriginInv, Busy
  <1>4. ASSUME NEW a \in Actors, NEW i \in {exec[a].at, exec[a].at + 1}, NEW st,
               Moved(exec[a], i, st) \in Execution, exec[a].status = "IN_PROGRESS",
               Becomes(a, Moved(exec[a], i, st)), UNCHANGED run
        PROVE  OriginInv'
    <2> DEFINE e == Moved(exec[a], i, st)
    <2>1. Busy(a) /\ exec[a].at \in Nat /\ exec[a] \in Execution
      BY <1>4, UnderWay
    <2>2. e.run = exec[a].run /\ e.wf = exec[a].wf /\ e.from = exec[a].from /\ e.at = i
      BY MovedFields
    <2>3. exec'[a] = e /\ \A b \in Actors \ {a} : exec'[b] = exec[b]
      BY <1>4, BecomesIs
    <2>4. e # Idle
      BY <1>4, <2>3 DEF Execution, Idle, Recorded
    <2> HIDE DEF e
    <2>5. exec[a].from <= exec[a].at => e.from <= e.at
      <3>1. exec[a].from \in {0} \cup StepNumbers
        BY <2>1 DEF Execution
      <3>2. exec[a].from \in Nat
        BY <3>1, StepFacts
      <3>3. QED
        BY <2>1, <2>2, <3>2
    <2>6. QED
      BY <1>4, <2>1, <2>2, <2>3, <2>4, <2>5 DEF OriginInv, Busy
  <1>5. ASSUME NEW a \in Actors, Record(a)
        PROVE  OriginInv'
    <2> DEFINE row == [wf |-> exec[a].wf, status |-> exec[a].status, step |-> exec[a].at]
    <2>1. Becomes(a, Idle) /\ run' = [run EXCEPT ![exec[a].run] = row]
          /\ exec[a].status \in Recorded
      BY <1>5 DEF Record, Becomes
    <2>2. Busy(a) /\ exec[a] \in Execution
      BY <2>1, Fields DEF Recorded
    <2>3. exec[a].run \in Runs /\ row.wf = exec[a].wf /\ row # Unrecorded
      BY <2>1, <2>2 DEF Execution, Unrecorded, Recorded
    <2> HIDE DEF row
    <2>4. \A r \in Runs : run'[r] = IF r = exec[a].run THEN row ELSE run[r]
      BY <2>1, <2>3 DEF RunsTypeOK
    <2>5. exec'[a] = Idle /\ \A b \in Actors \ {a} : exec'[b] = exec[b]
      BY <2>1, BecomesIs
    <2>6. \A b \in Actors : Busy(b) => exec[b].run \in Runs
      BY Fields DEF Execution
    <2>7. QED
      BY <2>2, <2>3, <2>4, <2>5, <2>6 DEF OriginInv, Busy
  <1>6. ASSUME NEW a \in Actors, Interrupt(a)
        PROVE  OriginInv'
    <2>1. Becomes(a, Idle) /\ UNCHANGED run
      BY <1>6 DEF Interrupt, Becomes
    <2>2. exec'[a] = Idle /\ \A b \in Actors \ {a} : exec'[b] = exec[b]
      BY <2>1, BecomesIs
    <2>3. QED
      BY <2>1, <2>2 DEF OriginInv, Busy
  <1>7. QED
    <2>1. CASE RunsNext
      <3>1. PICK a \in Actors :
               \/ \E r \in Runs, w \in Workflows : TriggerEvent(a, r, w) \/ TestRunWorkflow(a, r, w)
               \/ \E r \in Runs : ApproveStep(a, r)
               \/ Pause(a) \/ ExecuteStep(a) \/ StepFails(a) \/ Record(a) \/ Interrupt(a)
        BY <2>1 DEF RunsNext
      <3>2. CASE Pause(a) \/ ExecuteStep(a) \/ StepFails(a)
        BY <3>2, <1>4, Moves
      <3>3. QED
        BY <3>1, <3>2, <1>2, <1>3, <1>5, <1>6 DEF TriggerEvent, TestRunWorkflow
    <2>2. QED
      BY <2>1, <1>1

(* The steps of RunsNext, with those that move an execution on taken together. *)
LEMMA NextCases ==
    ASSUME RunsNext
    PROVE  \E a \in Actors :
              \/ \E r \in Runs, w \in Workflows : Begin(a, r, w)
              \/ \E r \in Runs : ApproveStep(a, r)
              \/ Pause(a) \/ ExecuteStep(a) \/ StepFails(a)
              \/ Record(a)
              \/ Interrupt(a)
  BY DEF RunsNext, TriggerEvent, TestRunWorkflow

(* A recorded execution's row, and who is busy afterwards.                 *)
LEMMA RecordIs ==
    ASSUME RunsTypeOK, NEW a \in Actors, Record(a)
    PROVE  /\ Busy(a) /\ exec[a] \in Execution /\ exec[a].run \in Runs /\ exec[a].wf \in Workflows
           /\ exec[a].status \in Recorded /\ exec[a].status # "IN_PROGRESS"
           /\ UNCHANGED <<done, approved, interrupted, overlapped>>
           /\ Becomes(a, Idle) /\ exec'[a] = Idle
           /\ \A b \in Actors \ {a} : exec'[b] = exec[b]
           /\ run'[exec[a].run] # Unrecorded
           /\ run'[exec[a].run].wf = exec[a].wf
           /\ run'[exec[a].run].status = exec[a].status
           /\ run'[exec[a].run].step = exec[a].at
           /\ \A r \in Runs \ {exec[a].run} : run'[r] = run[r]
  <1> DEFINE row == [wf |-> exec[a].wf, status |-> exec[a].status, step |-> exec[a].at]
  <1>1. Becomes(a, Idle) /\ run' = [run EXCEPT ![exec[a].run] = row]
        /\ exec[a].status \in Recorded /\ UNCHANGED <<done, approved, interrupted, overlapped>>
    BY DEF Record, Becomes
  <1>2. Busy(a) /\ exec[a] \in Execution
    BY <1>1, Fields DEF Recorded
  <1>3. exec[a].run \in Runs /\ exec[a].wf \in Workflows
    BY <1>2 DEF Execution
  <1>4. row # Unrecorded /\ row.wf = exec[a].wf /\ row.status = exec[a].status /\ row.step = exec[a].at
    BY <1>1 DEF Unrecorded, Recorded
  <1> HIDE DEF row
  <1>5. run'[exec[a].run] = row /\ \A r \in Runs \ {exec[a].run} : run'[r] = run[r]
    BY <1>1, <1>3 DEF RunsTypeOK
  <1>6. exec'[a] = Idle /\ \A b \in Actors \ {a} : exec'[b] = exec[b]
    BY <1>1, BecomesIs
  <1>7. QED
    BY <1>1, <1>2, <1>3, <1>4, <1>5, <1>6 DEF Recorded

LEMMA WaitNext ==
    ASSUME RunsTypeOK, OrderInv, OriginInv, WaitInv, [RunsNext]_runVars
    PROVE  WaitInv'
  <1>1. CASE UNCHANGED runVars
    BY <1>1 DEF WaitInv, IsDraft, Busy, runVars
  <1>2. ASSUME NEW a \in Actors, NEW e \in Execution \cup {Idle}, Becomes(a, e), UNCHANGED run,
               e # Idle => /\ e.status = "WAITING_APPROVAL" => IsDraft(e.wf, e.at)
                           /\ e.from # 0 => e.from \in DOMAIN Steps[e.wf] /\ IsDraft(e.wf, e.from)
        PROVE  WaitInv'
    <2>1. exec'[a] = e /\ \A b \in Actors \ {a} : exec'[b] = exec[b]
      BY <1>2, BecomesIs
    <2>2. QED
      BY <1>2, <2>1 DEF WaitInv, IsDraft, Busy
  <1>3. ASSUME NEW a \in Actors, NEW r \in Runs, NEW w \in Workflows, Begin(a, r, w)
        PROVE  WaitInv'
    <2>1. Becomes(a, Started(r, w)) /\ UNCHANGED run
      BY <1>3 DEF Begin, Becomes, Started
    <2>2. Started(r, w).from = 0 /\ Started(r, w).status # "WAITING_APPROVAL"
      BY DEF Started, After
    <2>3. QED
      BY <1>2, <2>1, <2>2, StartedIs
  <1>4. ASSUME NEW a \in Actors, NEW r \in Runs, ApproveStep(a, r)
        PROVE  WaitInv'
    <2>1. Becomes(a, Resumed(r)) /\ run[r].status = "WAITING_APPROVAL" /\ UNCHANGED run
      BY <1>4 DEF ApproveStep, Becomes, Resumed
    <2>2. Resumed(r).from = run[r].step /\ Resumed(r).wf = run[r].wf
          /\ Resumed(r).status = "IN_PROGRESS"
      BY DEF Resumed
    <2>3. Resumed(r) \in Execution /\ run[r].step \in DOMAIN Steps[run[r].wf]
      BY <2>1, ResumedIs
    <2>4. IsDraft(run[r].wf, run[r].step)
      BY <2>1 DEF WaitInv
    <2>5. QED
      BY <1>2, <2>1, <2>2, <2>3, <2>4
  <1>5. ASSUME NEW a \in Actors, Pause(a) \/ ExecuteStep(a) \/ StepFails(a)
        PROVE  WaitInv'
    <2>1. PICK i \in {exec[a].at, exec[a].at + 1}, st \in Recorded \cup {"IN_PROGRESS"} :
                 /\ Moved(exec[a], i, st) \in Execution
                 /\ Becomes(a, Moved(exec[a], i, st))
                 /\ st = "WAITING_APPROVAL" => i = exec[a].at /\ (Pause(a) \/ PausesAfter(exec[a]))
      BY <1>5, Moves
    <2>2. UNCHANGED run /\ exec[a].status = "IN_PROGRESS"
      BY <1>5, Moves
    <2>3. Busy(a) /\ exec[a].at \in DOMAIN Steps[exec[a].wf] /\ exec[a].wf \in Workflows
          /\ exec[a].at \in Nat
      BY <2>2, UnderWay
    <2> DEFINE e == Moved(exec[a], i, st)
    <2>4. e.wf = exec[a].wf /\ e.from = exec[a].from /\ e.at = i /\ e.status = st
      BY MovedFields
    <2>5. exec[a].from # 0 =>
             exec[a].from \in DOMAIN Steps[exec[a].wf] /\ IsDraft(exec[a].wf, exec[a].from)
      BY <2>3 DEF WaitInv
    <2>7. st = "WAITING_APPROVAL" => IsDraft(exec[a].wf, i)
      BY <2>1 DEF Pause, PausesBefore, PausesAfter, Draft, IsDraft
    <2> HIDE DEF e
    <2>8. e \in Execution /\ Becomes(a, e)
      BY <2>1 DEF e
    <2>9. QED
      BY <1>2, <2>2, <2>4, <2>5, <2>7, <2>8
  <1>6. ASSUME NEW a \in Actors, Record(a)
        PROVE  WaitInv'
    <2>1. exec[a].status = "WAITING_APPROVAL" => IsDraft(exec[a].wf, exec[a].at)
      BY <1>6, RecordIs DEF WaitInv
    <2>2. \A r \in Runs : run'[r].status = "WAITING_APPROVAL" => IsDraft(run'[r].wf, run'[r].step)
      BY <1>6, <2>1, RecordIs DEF WaitInv
    <2>3. QED
      BY <1>6, <2>2, RecordIs DEF WaitInv, IsDraft, Busy
  <1>7. ASSUME NEW a \in Actors, Interrupt(a)
        PROVE  WaitInv'
    BY <1>2, <1>7 DEF Interrupt, Becomes
  <1>8. QED
    <2>1. CASE RunsNext
      BY <2>1, NextCases, <1>3, <1>4, <1>5, <1>6, <1>7
    <2>2. QED
      BY <2>1, <1>1

(* Nothing has been done for a run that nobody began.                      *)
LEMMA FreshNext ==
    ASSUME RunsTypeOK, OrderInv, FreshInv, [RunsNext]_runVars
    PROVE  FreshInv'
  <1>1. CASE UNCHANGED runVars
    BY <1>1 DEF FreshInv, Busy, runVars
  <1>2. ASSUME NEW a \in Actors, NEW e \in Execution, Becomes(a, e),
               Busy(a) => e.run = exec[a].run, UNCHANGED <<run, interrupted>>,
               \A r \in Runs, i \in StepNumbers : r # e.run => done'[r][i] = done[r][i]
        PROVE  FreshInv'
    <2>1. exec'[a] = e /\ \A b \in Actors \ {a} : exec'[b] = exec[b]
      BY <1>2, BecomesIs
    <2>2. e # Idle
      BY DEF Execution, Idle, Recorded
    <2>3. \A r \in Runs : (\A b \in Actors : Busy(b)' => exec'[b].run # r) =>
             r # e.run /\ \A b \in Actors : Busy(b) => exec[b].run # r
      BY <1>2, <2>1, <2>2 DEF Busy
    <2>4. QED
      BY <1>2, <2>3 DEF FreshInv
  <1>3. ASSUME NEW a \in Actors, NEW r \in Runs, NEW w \in Workflows, Begin(a, r, w)
        PROVE  FreshInv'
    <2>1. Becomes(a, Started(r, w)) /\ UNCHANGED <<run, done, interrupted>> /\ ~Busy(a)
      BY <1>3 DEF Begin, Becomes, Started, Busy
    <2>2. QED
      BY <1>2, <2>1, StartedIs
  <1>4. ASSUME NEW a \in Actors, NEW r \in Runs, ApproveStep(a, r)
        PROVE  FreshInv'
    <2>1. Becomes(a, Resumed(r)) /\ run[r].status = "WAITING_APPROVAL"
          /\ UNCHANGED <<run, done, interrupted>> /\ ~Busy(a)
      BY <1>4 DEF ApproveStep, Becomes, Resumed, Busy
    <2>2. QED
      BY <1>2, <2>1, ResumedIs
  <1>5. ASSUME NEW a \in Actors, Pause(a) \/ ExecuteStep(a) \/ StepFails(a)
        PROVE  FreshInv'
    <2>1. PICK i, st : Moved(exec[a], i, st) \in Execution /\ Becomes(a, Moved(exec[a], i, st))
      BY <1>5, Moves
    <2>2. UNCHANGED <<run, interrupted>> /\ exec[a].status = "IN_PROGRESS"
      BY <1>5, Moves
    <2>3. Moved(exec[a], i, st).run = exec[a].run
      BY MovedFields
    <2>4. \A r \in Runs, j \in StepNumbers : r # exec[a].run => done'[r][j] = done[r][j]
      <3>1. exec[a].run \in Runs /\ exec[a].at \in StepNumbers
        BY <2>2, UnderWay
      <3>2. CASE Pause(a)
        BY <3>2 DEF Pause
      <3>3. CASE ExecuteStep(a) \/ StepFails(a)
        <4>1. PICK n \in {0, 1} : done' = [done EXCEPT ![exec[a].run][exec[a].at] = @ + n]
          BY <3>3 DEF ExecuteStep, StepFails
        <4>2. QED
          BY <3>1, <4>1, DoneIs
      <3>4. QED
        BY <1>5, <3>2, <3>3
    <2>5. QED
      BY <1>2, <2>1, <2>2, <2>3, <2>4
  <1>6. ASSUME NEW a \in Actors, Record(a)
        PROVE  FreshInv'
    BY <1>6, RecordIs DEF FreshInv, Busy
  <1>7. ASSUME NEW a \in Actors, Interrupt(a)
        PROVE  FreshInv'
    <2>1. Becomes(a, Idle) /\ UNCHANGED <<run, done>> /\ Busy(a)
          /\ interrupted' = [interrupted EXCEPT ![exec[a].run] = @ + 1]
      BY <1>7 DEF Interrupt, Becomes, Busy
    <2>2. exec[a].run \in Runs
      BY <2>1, Fields DEF Execution
    <2>3. interrupted'[exec[a].run] # 0
          /\ \A r \in Runs \ {exec[a].run} : interrupted'[r] = interrupted[r]
      BY <2>1, <2>2 DEF RunsTypeOK
    <2>4. exec'[a] = Idle /\ \A b \in Actors \ {a} : exec'[b] = exec[b]
      BY <2>1, BecomesIs
    <2>5. QED
      BY <2>1, <2>3, <2>4 DEF FreshInv, Busy
  <1>8. QED
    <2>1. CASE RunsNext
      BY <2>1, NextCases, <1>3, <1>4, <1>5, <1>6, <1>7
    <2>2. QED
      BY <2>1, <1>1

(* What the steps that move an execution on do to the steps' effects: a    *)
(* pause has none, and a new run has none at a draft.                      *)
LEMMA Effects ==
    ASSUME RunsTypeOK, OrderInv, NEW a \in Actors, Pause(a) \/ ExecuteStep(a) \/ StepFails(a)
    PROVE  /\ Busy(a) /\ exec[a] \in Execution
           /\ exec[a].run \in Runs /\ exec[a].wf \in Workflows
           /\ exec[a].at \in DOMAIN Steps[exec[a].wf] /\ exec[a].at \in StepNumbers
           /\ exec[a].at \in Nat
           /\ \E n \in {0, 1} :
                 /\ \A r \in Runs, j \in StepNumbers :
                       done'[r][j] = IF r = exec[a].run /\ j = exec[a].at
                                     THEN done[r][j] + n ELSE done[r][j]
                 /\ Pause(a) => n = 0
                 /\ exec[a].from = 0 /\ IsDraft(exec[a].wf, exec[a].at) => n = 0
  <1>1. exec[a].status = "IN_PROGRESS"
    BY Moves
  <1>2. /\ Busy(a) /\ exec[a] \in Execution
        /\ exec[a].run \in Runs /\ exec[a].wf \in Workflows
        /\ exec[a].at \in DOMAIN Steps[exec[a].wf] /\ exec[a].at \in StepNumbers
        /\ exec[a].at \in Nat
    BY <1>1, UnderWay
  <1>3. CASE Pause(a)
    <2>1. UNCHANGED done
      BY <1>3 DEF Pause
    <2>2. \A r \in Runs, j \in StepNumbers : done[r][j] \in Nat
      BY DEF RunsTypeOK
    <2>3. \A r \in Runs, j \in StepNumbers :
             done'[r][j] = IF r = exec[a].run /\ j = exec[a].at THEN done[r][j] + 0 ELSE done[r][j]
      BY <2>1, <2>2
    <2>4. QED
      BY <1>2, <2>3
  <1>4. CASE ExecuteStep(a) \/ StepFails(a)
    <2>1. PICK n \in {0, 1} : done' = [done EXCEPT ![exec[a].run][exec[a].at] = @ + n]
      BY <1>4 DEF ExecuteStep, StepFails
    <2>2. ~PausesBefore(exec[a])
      BY <1>4 DEF ExecuteStep, StepFails
    <2>3. ~Pause(a) /\ ~(exec[a].from = 0 /\ IsDraft(exec[a].wf, exec[a].at))
      BY <2>2 DEF Pause, PausesBefore, Draft, IsDraft
    <2>4. \A r \in Runs, j \in StepNumbers :
             done'[r][j] = IF r = exec[a].run /\ j = exec[a].at THEN done[r][j] + n ELSE done[r][j]
      BY <1>2, <2>1, DoneIs
    <2>5. QED
      BY <1>2, <2>3, <2>4
  <1>5. QED
    BY <1>3, <1>4

(* New runs draft nothing.                                                 *)
LEMMA UndraftedNext ==
    ASSUME RunsTypeOK, OrderInv, OriginInv, FreshInv, UndraftedInv, [RunsNext]_runVars
    PROVE  UndraftedInv'
  <1>1. CASE UNCHANGED runVars
    BY <1>1 DEF UndraftedInv, IsDraft, Busy, runVars
  <1>2. ASSUME NEW a \in Actors, NEW e \in Execution \cup {Idle}, Becomes(a, e), UNCHANGED done,
               e # Idle /\ e.from = 0 =>
                  \A i \in DOMAIN Steps[e.wf] : IsDraft(e.wf, i) => done[e.run][i] = 0
        PROVE  UndraftedInv'
    <2>1. exec'[a] = e /\ \A b \in Actors \ {a} : exec'[b] = exec[b]
      BY <1>2, BecomesIs
    <2>2. QED
      BY <1>2, <2>1 DEF UndraftedInv, IsDraft, Busy
  <1>3. ASSUME NEW a \in Actors, NEW r \in Runs, NEW w \in Workflows, Begin(a, r, w)
        PROVE  UndraftedInv'
    <2>1. Becomes(a, Started(r, w)) /\ UNCHANGED done
      BY <1>3 DEF Begin, Becomes, Started
    <2>2. \A b \in Actors : Busy(b) => exec[b].run # r
      BY <1>3 DEF Begin, Executing, Busy
    <2>3. \A i \in StepNumbers : done[r][i] = 0
      BY <1>3, <2>2 DEF Begin, FreshInv
    <2>4. Started(r, w).run = r /\ Started(r, w).wf = w
      BY DEF Started
    <2>5. \A i \in DOMAIN Steps[w] : done[r][i] = 0
      BY <2>3, StepFacts
    <2>6. QED
      BY <1>2, <2>1, <2>4, <2>5, StartedIs
  <1>4. ASSUME NEW a \in Actors, NEW r \in Runs, ApproveStep(a, r)
        PROVE  UndraftedInv'
    <2>1. Becomes(a, Resumed(r)) /\ run[r].status = "WAITING_APPROVAL" /\ UNCHANGED done
      BY <1>4 DEF ApproveStep, Becomes, Resumed
    <2>2. Resumed(r) \in Execution /\ run[r].step # 0
      BY <2>1, ResumedIs, StepFacts
    <2>3. Resumed(r).from # 0
      BY <2>2 DEF Resumed
    <2>4. QED
      BY <1>2, <2>1, <2>2, <2>3
  <1>5. ASSUME NEW a \in Actors, Pause(a) \/ ExecuteStep(a) \/ StepFails(a)
        PROVE  UndraftedInv'
    <2>1. PICK i, st : Moved(exec[a], i, st) \in Execution /\ Becomes(a, Moved(exec[a], i, st))
      BY <1>5, Moves
    <2> DEFINE e == Moved(exec[a], i, st)
    <2>2. e.wf = exec[a].wf /\ e.from = exec[a].from /\ e.run = exec[a].run
      BY MovedFields
    <2> HIDE DEF e
    <2>3. e \in Execution /\ Becomes(a, e)
      BY <2>1 DEF e
    <2>4. exec'[a] = e /\ \A b \in Actors \ {a} : exec'[b] = exec[b]
      BY <2>3, BecomesIs
    <2>5. Busy(a)
      BY <1>5, Effects
    <2>6. \A b \in Actors : Busy(b)' =>
             Busy(b) /\ exec'[b].run = exec[b].run /\ exec'[b].wf = exec[b].wf
             /\ exec'[b].from = exec[b].from
      BY <2>2, <2>4, <2>5 DEF Busy
    <2>7. PICK n \in {0, 1} :
                 /\ \A r \in Runs, j \in StepNumbers :
                       done'[r][j] = IF r = exec[a].run /\ j = exec[a].at
                                     THEN done[r][j] + n ELSE done[r][j]
                 /\ exec[a].from = 0 /\ IsDraft(exec[a].wf, exec[a].at) => n = 0
      BY <1>5, Effects
    <2>8. SUFFICES ASSUME NEW b \in Actors, Busy(b), exec[b].from = 0,
                          NEW k \in DOMAIN Steps[exec[b].wf], IsDraft(exec[b].wf, k)
                   PROVE  done'[exec[b].run][k] = 0
      BY <2>6 DEF UndraftedInv, IsDraft
    <2>9. exec[b].run \in Runs /\ k \in StepNumbers /\ done[exec[b].run][k] = 0
      <3>1. exec[b].run \in Runs /\ exec[b].wf \in Workflows
        BY <2>8, Fields DEF Execution
      <3>2. QED
        BY <2>8, <3>1, StepFacts DEF UndraftedInv
    <2>10. exec[b].run = exec[a].run => a = b
      BY <2>5, <2>8 DEF OriginInv
    <2>11. QED
      BY <2>7, <2>8, <2>9, <2>10
  <1>6. ASSUME NEW a \in Actors, Record(a) \/ Interrupt(a)
        PROVE  UndraftedInv'
    BY <1>2, <1>6 DEF Record, Interrupt, Becomes
  <1>7. QED
    <2>1. CASE RunsNext
      BY <2>1, NextCases, <1>3, <1>4, <1>5, <1>6
    <2>2. QED
      BY <2>1, <1>1

(* Approvals cover what resumed executions owe.                            *)
LEMMA CoveredNext ==
    ASSUME RunsTypeOK, OrderInv, OriginInv, WaitInv, UndraftedInv, CoveredInv, [RunsNext]_runVars
    PROVE  CoveredInv'
  <1>1. CASE UNCHANGED runVars
    BY <1>1 DEF CoveredInv, FirstDraft, LaterDraft, IsDraft, Owed, Counts, runVars
  <1>2. CASE RunsNext
    <2>1. SUFFICES ASSUME NEW r \in Runs, run'[r] # Unrecorded,
                          NEW i \in DOMAIN Steps[run'[r].wf], FirstDraft(run'[r].wf, i)
                   PROVE  done'[r][i] + Cardinality(Owed(r, i)') <= approved'[r][i]
      BY DEF CoveredInv, FirstDraft, LaterDraft, IsDraft, Owed, Counts
    <2>2. i \in StepNumbers /\ i \in Nat /\ i # 0
      <3>1. RunsTypeOK'
        BY OrderNext
      <3>2. run'[r].wf \in Workflows
        BY <2>1, <3>1 DEF RunsTypeOK, Unrecorded
      <3>3. QED
        BY <2>1, <3>2, StepFacts
    <2>3. done[r][i] \in Nat /\ approved[r][i] \in Nat /\ Cardinality(Owed(r, i)) \in Nat
      <3>1. IsFiniteSet(Owed(r, i))
        BY AutomationAssumption, FS_Subset DEF Owed
      <3>2. QED
        BY <2>2, <3>1, FS_CardinalityType DEF RunsTypeOK
    <2>4. run'[r] = run[r] => done[r][i] + Cardinality(Owed(r, i)) <= approved[r][i]
      BY <2>1 DEF CoveredInv
    <2>5. PICK a \in Actors :
              \/ \E q \in Runs, w \in Workflows : Begin(a, q, w)
              \/ \E q \in Runs : ApproveStep(a, q)
              \/ Pause(a) \/ ExecuteStep(a) \/ StepFails(a)
              \/ Record(a)
              \/ Interrupt(a)
      BY <1>2, NextCases
    <2>6. ASSUME NEW q \in Runs, NEW w \in Workflows, Begin(a, q, w)
          PROVE  done'[r][i] + Cardinality(Owed(r, i)') <= approved'[r][i]
      <3>1. Becomes(a, Started(q, w)) /\ UNCHANGED <<run, done, approved>> /\ exec[a] = Idle
        BY <2>6 DEF Begin, Becomes, Started
      <3>2. ~Counts(Started(q, w), r, i) /\ ~Counts(exec[a], r, i)
        BY <2>2, <3>1 DEF Counts, Started, Idle
      <3>3. Cardinality(Owed(r, i)') = Cardinality(Owed(r, i))
        BY <2>2, <3>1, <3>2, OwedIs, StartedIs
      <3>4. QED
        BY <2>4, <3>1, <3>3
    <2>7. ASSUME NEW q \in Runs, ApproveStep(a, q)
          PROVE  done'[r][i] + Cardinality(Owed(r, i)') <= approved'[r][i]
      <3>1. Becomes(a, Resumed(q)) /\ UNCHANGED <<run, done>> /\ exec[a] = Idle
            /\ run[q].status = "WAITING_APPROVAL"
            /\ approved' = [approved EXCEPT ![q][run[q].step] = @ + 1]
        BY <2>7 DEF ApproveStep, Becomes, Resumed
      <3>2. run[q].step \in StepNumbers /\ Resumed(q) \in Execution
        BY <3>1, ResumedIs
      <3>3. approved'[r][i] = IF r = q /\ i = run[q].step THEN approved[r][i] + 1 ELSE approved[r][i]
        BY <2>2, <3>1, <3>2 DEF RunsTypeOK
      <3>4. ~Counts(exec[a], r, i)
        BY <3>1 DEF Counts, Idle
      <3>5. Counts(Resumed(q), r, i) <=> r = q /\ i = run[q].step
        BY DEF Counts, Resumed
      <3>6. Cardinality(Owed(r, i)') = IF r = q /\ i = run[q].step
                                       THEN Cardinality(Owed(r, i)) + 1 ELSE Cardinality(Owed(r, i))
        BY <2>2, <3>1, <3>2, <3>4, <3>5, OwedIs
      <3>7. QED
        BY <2>3, <2>4, <3>1, <3>3, <3>6
    <2>8. CASE Pause(a) \/ ExecuteStep(a) \/ StepFails(a)
      <3>1. PICK k \in {exec[a].at, exec[a].at + 1}, st \in Recorded \cup {"IN_PROGRESS"} :
                 /\ Moved(exec[a], k, st) \in Execution
                 /\ Becomes(a, Moved(exec[a], k, st))
                 /\ k = exec[a].at <=> st # "IN_PROGRESS"
        BY <2>8, Moves
      <3>2. UNCHANGED <<run, approved>> /\ exec[a].status = "IN_PROGRESS"
        BY <2>8, Moves
      <3>3. /\ Busy(a) /\ exec[a].run \in Runs /\ exec[a].wf \in Workflows
            /\ exec[a].at \in DOMAIN Steps[exec[a].wf] /\ exec[a].at \in Nat
            /\ exec[a] \in Execution
        BY <2>8, Effects
      <3>4. PICK n \in {0, 1} :
                 done'[r][i] = IF r = exec[a].run /\ i = exec[a].at THEN done[r][i] + n ELSE done[r][i]
        BY <2>2, <2>8, Effects
      <3> DEFINE e == Moved(exec[a], k, st)
      <3>5. e.run = exec[a].run /\ e.from = exec[a].from /\ e.at = k /\ e.status = st
        BY MovedFields
      <3> HIDE DEF e
      <3>6. e \in Execution /\ Becomes(a, e)
        BY <3>1 DEF e
      <3>7. exec[a].from \in Nat
        <4>1. exec[a].from \in {0} \cup StepNumbers
          BY <3>3 DEF Execution
        <4>2. QED
          BY <4>1, StepFacts
      <3>8. exec[a].from # 0 => exec[a].from <= exec[a].at /\ run[exec[a].run].wf = exec[a].wf
        BY <3>3 DEF OriginInv
      <3>9. ~Counts(e, r, i)
        BY <2>2, <3>1, <3>3, <3>5, <3>7, <3>8 DEF Counts
      <3>10. CASE Counts(exec[a], r, i)
        <4>1. Cardinality(Owed(r, i)') = Cardinality(Owed(r, i)) - 1
          BY <2>2, <3>6, <3>9, <3>10, OwedIs
        <4>2. QED
          BY <2>3, <2>4, <3>2, <3>4, <4>1
      <3>11. CASE ~Counts(exec[a], r, i)
        <4>1. Cardinality(Owed(r, i)') = Cardinality(Owed(r, i))
          BY <2>2, <3>6, <3>9, <3>11, OwedIs
        <4>2. ~(r = exec[a].run /\ i = exec[a].at)
          <5>1. SUFFICES ASSUME r = exec[a].run, i = exec[a].at
                         PROVE  FALSE
            OBVIOUS
          <5>2. exec[a].from # 0
            BY <2>1, <3>2, <3>3, <5>1 DEF OriginInv
          <5>3. exec[a].from \in DOMAIN Steps[exec[a].wf] /\ IsDraft(exec[a].wf, exec[a].from)
            BY <3>3, <5>2 DEF WaitInv
          <5>4. FirstDraft(exec[a].wf, exec[a].at)
            BY <2>1, <3>2, <3>8, <5>1, <5>2
          <5>5. exec[a].at = exec[a].from
            <6>1. exec[a].from \in 1..(exec[a].at - 1) \/ exec[a].from = exec[a].at
              BY <3>3, <3>7, <3>8, <5>2
            <6>2. QED
              BY <5>3, <5>4, <6>1 DEF FirstDraft, LaterDraft, IsDraft
          <5>6. QED
            BY <3>2, <3>11, <5>1, <5>5 DEF Counts
        <4>3. QED
          BY <2>4, <3>2, <3>4, <4>1, <4>2
      <3>12. QED
        BY <3>10, <3>11
    <2>9. CASE Record(a)
      <3>1. ~Counts(exec[a], r, i) /\ ~Counts(Idle, r, i)
        BY <2>9, RecordIs DEF Counts, Idle
      <3>2. Cardinality(Owed(r, i)') = Cardinality(Owed(r, i)) /\ UNCHANGED <<done, approved>>
        BY <2>2, <2>9, <3>1, OwedIs, RecordIs
      <3>3. CASE r # exec[a].run
        BY <2>4, <2>9, <3>2, <3>3, RecordIs
      <3>4. CASE r = exec[a].run /\ exec[a].from # 0
        <4>1. run[r] # Unrecorded /\ run[r].wf = exec[a].wf
          BY <2>9, <3>4, RecordIs DEF OriginInv
        <4>2. run'[r].wf = run[r].wf
          BY <2>9, <3>4, <4>1, RecordIs
        <4>3. QED
          BY <2>1, <3>2, <4>1, <4>2 DEF CoveredInv
      <3>5. CASE r = exec[a].run /\ exec[a].from = 0
        <4>1. run'[r].wf = exec[a].wf /\ Busy(a)
          BY <2>9, <3>5, RecordIs
        <4>2. done[r][i] = 0
          BY <2>1, <3>5, <4>1 DEF UndraftedInv, FirstDraft
        <4>3. \A b \in Actors : Busy(b) /\ exec[b].run = r => b = a
          BY <3>5, <4>1 DEF OriginInv
        <4>4. \A b \in Actors : ~Counts(exec[b], r, i)
          BY <3>1, <4>3, Fields DEF Counts
        <4>5. Owed(r, i) = {}
          BY <4>4 DEF Owed
        <4>6. Cardinality(Owed(r, i)) = 0
          BY <4>5, FS_EmptySet
        <4>7. QED
          BY <2>3, <3>2, <4>2, <4>6
      <3>6. QED
        BY <3>3, <3>4, <3>5
    <2>10. CASE Interrupt(a)
      <3>1. Becomes(a, Idle) /\ UNCHANGED <<run, done, approved>>
        BY <2>10 DEF Interrupt, Becomes
      <3>2. ~Counts(Idle, r, i)
        BY DEF Counts, Idle
      <3>3. Cardinality(Owed(r, i)') \in {Cardinality(Owed(r, i)), Cardinality(Owed(r, i)) - 1}
        BY <2>2, <3>1, <3>2, OwedIs
      <3>4. QED
        BY <2>3, <2>4, <3>1, <3>3
    <2>11. QED
      BY <2>5, <2>6, <2>7, <2>8, <2>9, <2>10
  <1>3. QED
    BY <1>1, <1>2

ApprovedInv == RunsTypeOK /\ OrderInv /\ ApprovalInv

LEMMA ApprovedInit ==
    ASSUME RunsInit
    PROVE  ApprovedInv
  <1>1. RunsTypeOK /\ OrderInv
    BY OrderInit
  <1>2. \A a \in Actors : ~Busy(a)
    BY DEF RunsInit, Busy
  <1>3. \A r \in Runs : run[r] = Unrecorded /\ run[r].status # "WAITING_APPROVAL"
    BY DEF RunsInit, Unrecorded
  <1>4. \A r \in Runs, i \in StepNumbers : done[r][i] = 0
    BY DEF RunsInit
  <1>5. QED
    BY <1>1, <1>2, <1>3, <1>4
       DEF ApprovedInv, ApprovalInv, OriginInv, WaitInv, FreshInv, UndraftedInv, CoveredInv

LEMMA ApprovedNext ==
    ASSUME ApprovedInv, [RunsNext]_runVars
    PROVE  ApprovedInv'
  <1>1. RunsTypeOK /\ OrderInv /\ OriginInv /\ WaitInv /\ FreshInv /\ UndraftedInv /\ CoveredInv
    BY DEF ApprovedInv, ApprovalInv
  <1>2. RunsTypeOK' /\ OrderInv'
    BY <1>1, OrderNext
  <1>3. OriginInv' /\ WaitInv' /\ FreshInv'
    BY <1>1, OriginNext, WaitNext, FreshNext
  <1>4. UndraftedInv' /\ CoveredInv'
    BY <1>1, UndraftedNext, CoveredNext
  <1>5. QED
    BY <1>2, <1>3, <1>4 DEF ApprovedInv, ApprovalInv

(* Human in the loop as far as the code keeps it, also when two users      *)
(* approve one run at the same time and executions are interrupted: the    *)
(* first draft of a workflow is written at most as often as it was         *)
(* approved, and nothing after it before it was.                           *)
THEOREM FirstDraftStaysApproved == RunsSpec => []FirstDraftIsApproved
  <1>1. ApprovedInv => FirstDraftIsApproved
    <2> SUFFICES ASSUME ApprovedInv, NEW r \in Runs, NEW i \in StepsOf(r), FirstDraft(run[r].wf, i)
                 PROVE  /\ done[r][i] <= approved[r][i]
                        /\ \A j \in StepsOf(r) : j > i /\ done[r][j] > 0 => approved[r][i] > 0
      BY DEF FirstDraftIsApproved, FirstDraft, IsDraft
    <2>1. RunsTypeOK /\ CoveredInv /\ StepsInOrder
      BY DEF ApprovedInv, ApprovalInv, OrderInv
    <2>2. run[r] # Unrecorded /\ i \in StepNumbers
      BY DEF StepsOf
    <2>3. i \in DOMAIN Steps[run[r].wf]
      BY <2>1, <2>2, StepsOfRun
    <2>4. done[r][i] + Cardinality(Owed(r, i)) <= approved[r][i]
      BY <2>1, <2>2, <2>3 DEF CoveredInv
    <2>5. IsFiniteSet(Owed(r, i))
      BY AutomationAssumption, FS_Subset DEF Owed
    <2>6. done[r][i] \in Nat /\ approved[r][i] \in Nat /\ Cardinality(Owed(r, i)) \in Nat
      BY <2>1, <2>2, <2>5, FS_CardinalityType DEF RunsTypeOK
    <2>7. done[r][i] <= approved[r][i]
      BY <2>4, <2>6
    <2>8. ASSUME NEW j \in StepsOf(r), j > i, done[r][j] > 0 PROVE approved[r][i] > 0
      <3>1. j \in StepNumbers /\ j \in Nat /\ i \in Nat
        BY <2>2, StepFacts DEF StepsOf
      <3>2. done[r][i] > 0
        BY <2>1, <2>2, <2>8, <3>1 DEF StepsInOrder
      <3>3. QED
        BY <2>6, <2>7, <3>2
    <2>9. QED
      BY <2>7, <2>8
  <1>2. QED
    BY <1>1, ApprovedInit, ApprovedNext, PTL DEF RunsSpec

(***************************************************************************)
(* Overlapping executions.                                                 *)
(***************************************************************************)
(* How a step of an actor changes who executes run r.                      *)
LEMMA ExecutingIs ==
    ASSUME RunsTypeOK, NEW a \in Actors, NEW e \in Execution \cup {Idle}, Becomes(a, e), NEW r \in Runs
    PROVE  Executing(r)' = IF e # Idle /\ e.run = r THEN Executing(r) \cup {a} ELSE Executing(r) \ {a}
  <1>1. exec'[a] = e /\ \A b \in Actors \ {a} : exec'[b] = exec[b]
    BY BecomesIs
  <1>2. Executing(r)' = {b \in Actors : exec'[b] # Idle /\ exec'[b].run = r}
    BY DEF Executing
  <1>3. \A b : b \in Executing(r)' <=> b \in Actors /\ exec'[b] # Idle /\ exec'[b].run = r
    BY <1>2
  <1>4. \A b : b \in Executing(r) <=> b \in Actors /\ exec[b] # Idle /\ exec[b].run = r
    BY DEF Executing
  <1>5. QED
    BY <1>1, <1>3, <1>4

LEMMA AloneNext ==
    ASSUME RunsTypeOK, OrderInv, OriginInv, AloneInv, [RunsNext]_runVars
    PROVE  AloneInv'
  <1>1. CASE UNCHANGED runVars
    BY <1>1 DEF AloneInv, Executing, runVars
  <1>2. ASSUME NEW a \in Actors, NEW r \in Runs, NEW w \in Workflows, Begin(a, r, w)
        PROVE  AloneInv'
    <2>1. Becomes(a, Started(r, w)) /\ UNCHANGED <<run, overlapped>> /\ Executing(r) = {}
      BY <1>2 DEF Begin, Becomes, Started
    <2>2. Started(r, w) \in Execution /\ Started(r, w).run = r /\ Started(r, w).from = 0
      BY StartedIs DEF Started
    <2> DEFINE e == Started(r, w)
    <2> HIDE DEF e
    <2>3. e \in Execution /\ Becomes(a, e) /\ e.run = r /\ e.from = 0
      BY <2>1, <2>2 DEF e
    <2>4. exec'[a] = e /\ \A b \in Actors \ {a} : exec'[b] = exec[b]
      BY <2>3, BecomesIs
    <2>5. \A q \in Runs : q # r => Executing(q)' \subseteq Executing(q) /\ a \notin Executing(q)'
      BY <2>3, ExecutingIs
    <2>6. Executing(r)' \subseteq {a}
      BY <2>1, <2>3, ExecutingIs
    <2>7. \A q \in Runs : Executing(q) \subseteq Actors
      BY DEF Executing
    <2>8. QED
      BY <2>1, <2>3, <2>4, <2>5, <2>6, <2>7 DEF AloneInv
  <1>3. ASSUME NEW a \in Actors, NEW r \in Runs, ApproveStep(a, r)
        PROVE  AloneInv'
    <2>1. Becomes(a, Resumed(r)) /\ run[r].status = "WAITING_APPROVAL" /\ UNCHANGED run
          /\ CountOverlap(r)
      BY <1>3 DEF ApproveStep, Becomes, Resumed
    <2>2. Resumed(r) \in Execution /\ Resumed(r).run = r
      BY <2>1, ResumedIs DEF Resumed
    <2> DEFINE e == Resumed(r)
    <2> HIDE DEF e
    <2>3. e \in Execution /\ Becomes(a, e) /\ e.run = r
      BY <2>1, <2>2 DEF e
    <2>4. exec'[a] = e /\ \A b \in Actors \ {a} : exec'[b] = exec[b]
      BY <2>3, BecomesIs
    <2>5. \A q \in Runs \ {r} : /\ Executing(q)' \subseteq Executing(q) /\ a \notin Executing(q)'
                                /\ overlapped'[q] = overlapped[q]
      BY <2>1, <2>3, ExecutingIs DEF CountOverlap, RunsTypeOK
    <2>6. overlapped'[r] = 0 => Executing(r)' \subseteq {a}
      <3>1. CASE Executing(r) = {}
        BY <2>3, <3>1, ExecutingIs
      <3>2. CASE Executing(r) # {}
        BY <2>1, <3>2 DEF CountOverlap, RunsTypeOK
      <3>3. QED
        BY <3>1, <3>2
    <2>7. \A q \in Runs : Executing(q) \subseteq Actors
      BY DEF Executing
    <2>8. QED
      BY <2>1, <2>4, <2>5, <2>6, <2>7 DEF AloneInv
  <1>4. ASSUME NEW a \in Actors, Pause(a) \/ ExecuteStep(a) \/ StepFails(a)
        PROVE  AloneInv'
    <2>1. PICK i, st : Moved(exec[a], i, st) \in Execution /\ Becomes(a, Moved(exec[a], i, st))
      BY <1>4, Moves
    <2>2. UNCHANGED <<run, overlapped>>
      BY <1>4, Moves
    <2> DEFINE e == Moved(exec[a], i, st)
    <2>3. e.from = exec[a].from /\ e.run = exec[a].run
      BY MovedFields
    <2>4. Busy(a) /\ exec[a].run \in Runs
      BY <1>4, Effects
    <2> HIDE DEF e
    <2>5. e \in Execution /\ Becomes(a, e)
      BY <2>1 DEF e
    <2>6. exec'[a] = e /\ \A b \in Actors \ {a} : exec'[b] = exec[b]
      BY <2>5, BecomesIs
    <2>7. \A q \in Runs : Executing(q)' = Executing(q) /\ Executing(q) \subseteq Actors
      BY <2>3, <2>4, <2>5, ExecutingIs, BecomesIs DEF Executing, Busy, Execution, Idle, Recorded
    <2>8. \A q \in Runs : \A b \in Executing(q) : exec'[b].from = exec[b].from
      BY <2>3, <2>6, <2>7
    <2>9. QED
      BY <2>2, <2>7, <2>8 DEF AloneInv
  <1>5. ASSUME NEW a \in Actors, Record(a)
        PROVE  AloneInv'
    <2>1. /\ Becomes(a, Idle) /\ UNCHANGED overlapped
          /\ \A b \in Actors \ {a} : exec'[b] = exec[b]
          /\ \A q \in Runs \ {exec[a].run} : run'[q] = run[q]
          /\ Busy(a) /\ exec[a].run \in Runs
      BY <1>5, RecordIs
    <2>2. \A q \in Runs : Executing(q)' = Executing(q) \ {a} /\ Executing(q) \subseteq Actors
      BY <2>1, ExecutingIs DEF Executing
    <2>3. a \in Executing(exec[a].run)
      BY <2>1 DEF Executing, Busy
    <2>4. QED
      BY <2>1, <2>2, <2>3 DEF AloneInv
  <1>6. ASSUME NEW a \in Actors, Interrupt(a)
        PROVE  AloneInv'
    <2>1. Becomes(a, Idle) /\ UNCHANGED <<run, overlapped>>
      BY <1>6 DEF Interrupt, Becomes
    <2>2. \A b \in Actors \ {a} : exec'[b] = exec[b]
      BY <2>1, BecomesIs
    <2>3. \A q \in Runs : Executing(q)' = Executing(q) \ {a} /\ Executing(q) \subseteq Actors
      BY <2>1, ExecutingIs DEF Executing
    <2>4. QED
      BY <2>1, <2>2, <2>3 DEF AloneInv
  <1>7. QED
    <2>1. CASE RunsNext
      BY <2>1, NextCases, <1>2, <1>3, <1>4, <1>5, <1>6
    <2>2. QED
      BY <2>1, <1>1

AloneRunInv == RunsTypeOK /\ OrderInv /\ OriginInv /\ AloneInv

LEMMA AloneRunInit ==
    ASSUME RunsInit
    PROVE  AloneRunInv
  <1>1. RunsTypeOK /\ OrderInv
    BY OrderInit
  <1>2. \A a \in Actors : exec[a] = Idle
    BY DEF RunsInit
  <1>3. QED
    BY <1>1, <1>2 DEF AloneRunInv, OriginInv, AloneInv, Executing, Busy

LEMMA AloneRunNext ==
    ASSUME AloneRunInv, [RunsNext]_runVars
    PROVE  AloneRunInv'
  BY OrderNext, OriginNext, AloneNext DEF AloneRunInv

(* Only a recording changes a row, and the row of a run that ended only if *)
(* executions of it overlapped.                                            *)
LEMMA EndedRunsStay ==
    ASSUME AloneRunInv, [RunsNext]_runVars, NEW r \in Runs, run[r].status \in {"COMPLETED", "FAILED"},
           run'[r] # run[r]
    PROVE  overlapped[r] > 0
  <1>1. RunsTypeOK /\ OrderInv
    BY DEF AloneRunInv
  <1>2. RunsNext
    BY DEF runVars
  <1>3. PICK a \in Actors :
            \/ \E q \in Runs, w \in Workflows : Begin(a, q, w)
            \/ \E q \in Runs : ApproveStep(a, q)
            \/ Pause(a) \/ ExecuteStep(a) \/ StepFails(a)
            \/ Record(a)
            \/ Interrupt(a)
    BY <1>2, NextCases
  <1>4. Record(a)
    BY <1>3 DEF Begin, ApproveStep, Pause, ExecuteStep, StepFails, Interrupt
  <1>5. r = exec[a].run /\ Busy(a)
    BY <1>1, <1>4, RecordIs
  <1>6. exec[a].from # 0
    BY <1>5 DEF AloneRunInv, OriginInv, Unrecorded
  <1>7. a \in Executing(r)
    BY <1>5 DEF Executing, Busy
  <1>8. overlapped[r] # 0
    BY <1>6, <1>7 DEF AloneRunInv, AloneInv
  <1>9. QED
    BY <1>1, <1>8 DEF RunsTypeOK

(* A run that has ended stays as it ended, whatever fails or is            *)
(* interrupted, unless a second approval came while an execution of it was *)
(* under way: UpdateWorkflowRunStatus writes without looking at the row.   *)
THEOREM EndedRunsStayEnded == RunsSpec => TerminalIsFinal
  <1>1. AloneRunInv /\ [RunsNext]_runVars =>
           [\A r \in Runs : run[r].status \in {"COMPLETED", "FAILED"} /\ run'[r] # run[r] =>
              overlapped[r] > 0]_runVars
    BY EndedRunsStay
  <1>2. QED
    BY <1>1, AloneRunInit, AloneRunNext, PTL DEF RunsSpec, TerminalIsFinal

(***************************************************************************)
(* Attempts: what took effect, and what still may.                         *)
(***************************************************************************)
(* How a step of an actor changes who may still carry out step i of run r. *)
LEMMA DoersIs ==
    ASSUME RunsTypeOK, NEW a \in Actors, NEW e \in Execution \cup {Idle}, Becomes(a, e),
           NEW r \in Runs, NEW i \in StepNumbers
    PROVE  /\ Cardinality(Doers(r, i)) \in Nat
           /\ MayDo(exec[a], r, i) => Cardinality(Doers(r, i)) >= 1
           /\ Cardinality(Doers(r, i)') =
                 Cardinality(Doers(r, i)) + (IF MayDo(e, r, i) THEN 1 ELSE 0)
                                          - (IF MayDo(exec[a], r, i) THEN 1 ELSE 0)
  <1>1. IsFiniteSet(Doers(r, i))
    BY AutomationAssumption, FS_Subset DEF Doers
  <1>2. Cardinality(Doers(r, i)) \in Nat
    BY <1>1, FS_CardinalityType
  <1>3. a \in Doers(r, i) <=> MayDo(exec[a], r, i)
    BY DEF Doers
  <1>4. exec'[a] = e /\ \A b \in Actors \ {a} : exec'[b] = exec[b]
    BY BecomesIs
  <1>5. Doers(r, i)' = {b \in Actors : MayDo(exec'[b], r, i)}
    BY DEF Doers, MayDo
  <1>6. Doers(r, i)' = IF MayDo(e, r, i) THEN Doers(r, i) \cup {a} ELSE Doers(r, i) \ {a}
    <2> HIDE DEF MayDo
    <2>1. \A b : b \in Doers(r, i)' <=> b \in Actors /\ MayDo(exec'[b], r, i)
      BY <1>5
    <2>2. \A b : b \in Doers(r, i) <=> b \in Actors /\ MayDo(exec[b], r, i)
      BY DEF Doers
    <2>3. QED
      BY <2>1, <2>2, <1>4
  <1>7. /\ Cardinality(Doers(r, i) \cup {a}) =
              IF a \in Doers(r, i) THEN Cardinality(Doers(r, i)) ELSE Cardinality(Doers(r, i)) + 1
        /\ Cardinality(Doers(r, i) \ {a}) =
              IF a \in Doers(r, i) THEN Cardinality(Doers(r, i)) - 1 ELSE Cardinality(Doers(r, i))
    BY <1>1, FS_AddElement, FS_RemoveElement
  <1>8. a \in Doers(r, i) => Cardinality(Doers(r, i)) # 0
    BY <1>1, FS_EmptySet
  <1>9. QED
    BY <1>2, <1>3, <1>6, <1>7, <1>8

(* All executions of a run follow one workflow.                            *)
LEMMA OneWorkflow ==
    ASSUME OriginInv, NEW a \in Actors, Busy(a), exec[a].run \in Runs, NEW i, Plain(exec[a].run, i)
    PROVE  ~LaterDraft(exec[a].wf, i)
  <1> DEFINE r == exec[a].run
  <1>1. CASE run[r] # Unrecorded
    <2>1. exec[a].from # 0 /\ run[r].wf = exec[a].wf
      BY <1>1 DEF OriginInv
    <2>2. \A b \in Executing(r) : exec[b].wf = run[r].wf
      BY <1>1 DEF OriginInv, Executing, Busy
    <2>3. QED
      BY <1>1, <2>1, <2>2 DEF Plain
  <1>2. CASE run[r] = Unrecorded
    <2>1. PICK b \in Executing(r) : ~LaterDraft(exec[b].wf, i)
      BY <1>2 DEF Plain
    <2>2. b \in Actors /\ Busy(b) /\ exec[b].run = r
      BY <2>1 DEF Executing, Busy
    <2>3. a = b
      BY <1>2, <2>2 DEF OriginInv
    <2>4. QED
      BY <2>1, <2>3
  <1>3. QED
    BY <1>1, <1>2

LEMMA AttemptNext ==
    ASSUME RunsTypeOK, OrderInv, OriginInv, WaitInv, FreshInv, AttemptInv, [RunsNext]_runVars
    PROVE  AttemptInv'
  <1>1. CASE UNCHANGED runVars
    BY <1>1 DEF AttemptInv, Plain, LaterDraft, Doers, MayDo, RowMayDo, Executing, runVars
  <1>2. CASE RunsNext
    <2> SUFFICES ASSUME NEW r \in Runs, NEW i \in StepNumbers, Plain(r, i)'
                 PROVE  (done[r][i] + Cardinality(Doers(r, i)) + RowMayDo(r, i)
                            <= 1 + interrupted[r] + overlapped[r])'
      BY DEF AttemptInv
    <2> DEFINE D == Cardinality(Doers(r, i))
               row == RowMayDo(r, i)
    <2>1. done[r][i] \in Nat /\ interrupted[r] \in Nat /\ overlapped[r] \in Nat /\ D \in Nat
          /\ row \in {0, 1} /\ i \in Nat
      <3>1. IsFiniteSet(Doers(r, i))
        BY AutomationAssumption, FS_Subset DEF Doers
      <3>2. QED
        BY <3>1, FS_CardinalityType, StepFacts, AutomationAssumption DEF RunsTypeOK, RowMayDo
    <2>2. Plain(r, i) => done[r][i] + D + row <= 1 + interrupted[r] + overlapped[r]
      BY DEF AttemptInv
    <2>3. row' = IF run'[r].status = "WAITING_APPROVAL" /\ run'[r].step <= i /\ Executing(r)' = {}
                 THEN 1 ELSE 0
      BY DEF RowMayDo
    <2>4. row' \in {0, 1}
      BY <2>3
    <2>5. PICK a \in Actors :
              \/ \E q \in Runs, w \in Workflows : Begin(a, q, w)
              \/ \E q \in Runs : ApproveStep(a, q)
              \/ Pause(a) \/ ExecuteStep(a) \/ StepFails(a)
              \/ Record(a)
              \/ Interrupt(a)
      BY <1>2, NextCases
    <2> DEFINE Kept == done'[r][i] + D' + row' <= 1 + interrupted'[r] + overlapped'[r]
    <2>6. ASSUME NEW q \in Runs, NEW w \in Workflows, Begin(a, q, w)
          PROVE  Kept
      <3>1. /\ Becomes(a, Started(q, w)) /\ UNCHANGED <<run, done, interrupted, overlapped>>
            /\ exec[a] = Idle /\ Executing(q) = {} /\ run[q] = Unrecorded /\ interrupted[q] = 0
        BY <2>6 DEF Begin, Becomes, Started
      <3>2. Started(q, w) \in Execution /\ Started(q, w).run = q
        BY StartedIs DEF Started
      <3> DEFINE e == Started(q, w)
      <3> HIDE DEF e
      <3>3. e \in Execution /\ e.run = q /\ Becomes(a, e)
        BY <3>1, <3>2 DEF e
      <3>4. ~MayDo(exec[a], r, i)
        BY <3>1 DEF MayDo, Idle
      <3>5. D' = D + IF MayDo(e, r, i) THEN 1 ELSE 0
        BY <2>1, <3>3, <3>4, DoersIs
      <3>6. CASE r = q
        <4>1. done[r][i] = 0
          BY <3>1, <3>6 DEF FreshInv, Executing, Busy
        <4>2. Doers(r, i) = {}
          BY <3>1, <3>6 DEF Doers, MayDo, Executing, Idle
        <4>3. D = 0
          BY <4>2, FS_EmptySet
        <4>4. row' = 0
          BY <2>3, <3>1, <3>6 DEF Unrecorded
        <4>5. QED
          BY <2>1, <3>1, <3>5, <4>1, <4>3, <4>4
      <3>7. CASE r # q
        <4>1. Executing(r)' = Executing(r)
          BY <3>1, <3>3, <3>7, ExecutingIs DEF Executing
        <4>2. \A b \in Executing(r) : exec'[b] = exec[b]
          BY <3>1, <3>3, BecomesIs DEF Executing
        <4>3. Plain(r, i)
          BY <3>1, <4>1, <4>2 DEF Plain, LaterDraft
        <4>4. row' = row
          BY <2>3, <3>1, <4>1 DEF RowMayDo
        <4>5. ~MayDo(e, r, i)
          BY <3>3, <3>7 DEF MayDo
        <4>6. QED
          BY <2>1, <2>2, <3>1, <3>5, <4>3, <4>4, <4>5
      <3>8. QED
        BY <3>6, <3>7
    <2>7. ASSUME NEW q \in Runs, ApproveStep(a, q)
          PROVE  Kept
      <3>1. /\ Becomes(a, Resumed(q)) /\ UNCHANGED <<run, done, interrupted>>
            /\ exec[a] = Idle /\ run[q].status = "WAITING_APPROVAL" /\ CountOverlap(q)
        BY <2>7 DEF ApproveStep, Becomes, Resumed
      <3>2. /\ Resumed(q) \in Execution /\ Resumed(q).run = q /\ Resumed(q).wf = run[q].wf
            /\ Resumed(q).at = run[q].step
            /\ run[q] # Unrecorded
        BY <3>1, ResumedIs DEF Resumed
      <3> DEFINE e == Resumed(q)
      <3> HIDE DEF e
      <3>3. /\ e \in Execution /\ e.run = q /\ e.wf = run[q].wf /\ e.at = run[q].step
            /\ Becomes(a, e)
        BY <3>1, <3>2 DEF e
      <3>4. ~MayDo(exec[a], r, i)
        BY <3>1 DEF MayDo, Idle
      <3>5. D' = D + IF MayDo(e, r, i) THEN 1 ELSE 0
        BY <2>1, <3>3, <3>4, DoersIs
      <3>6. e # Idle
        BY <3>3 DEF Execution, Idle, Recorded
      <3>7. Executing(r)' = IF r = q THEN Executing(r) \cup {a} ELSE Executing(r) \ {a}
        BY <3>3, <3>6, ExecutingIs
      <3>8. Plain(r, i)
        <4>1. \A b \in Executing(r)' : b # a => exec'[b] = exec[b] /\ b \in Executing(r)
          BY <3>3, <3>7, BecomesIs DEF Executing
        <4>2. exec'[a] = e
          BY <3>3, BecomesIs
        <4>3. a \in Executing(r)' => r = q
          BY <3>7
        <4>4. QED
          BY <3>1, <3>2, <3>3, <4>1, <4>2, <4>3 DEF Plain, LaterDraft
      <3>9. CASE r = q
        <4>1. row' = 0
          BY <2>3, <3>7, <3>9
        <4>2. overlapped'[r] = IF Executing(r) = {} THEN overlapped[r] ELSE overlapped[r] + 1
          BY <3>1, <3>9 DEF CountOverlap, RunsTypeOK
        <4>3. Executing(r) = {} /\ MayDo(e, r, i) => row = 1
          BY <3>1, <3>3, <3>9 DEF MayDo, RowMayDo
        <4>4. QED
          BY <2>1, <2>2, <3>1, <3>5, <3>8, <4>1, <4>2, <4>3
      <3>10. CASE r # q
        <4>1. row' = row
          BY <2>3, <3>1, <3>7, <3>10 DEF RowMayDo, Executing
        <4>2. overlapped'[r] = overlapped[r]
          BY <3>1, <3>10 DEF CountOverlap, RunsTypeOK
        <4>3. ~MayDo(e, r, i)
          BY <3>3, <3>10 DEF MayDo
        <4>4. QED
          BY <2>1, <2>2, <3>1, <3>5, <3>8, <4>1, <4>2, <4>3
      <3>11. QED
        BY <3>9, <3>10
    <2>8. CASE Pause(a) \/ ExecuteStep(a) \/ StepFails(a)
      <3>1. PICK k \in {exec[a].at, exec[a].at + 1}, st \in Recorded \cup {"IN_PROGRESS"} :
                 /\ Moved(exec[a], k, st) \in Execution
                 /\ Becomes(a, Moved(exec[a], k, st))
                 /\ k = exec[a].at <=> st # "IN_PROGRESS"
                 /\ st = "WAITING_APPROVAL" => k = exec[a].at /\ (Pause(a) \/ PausesAfter(exec[a]))
        BY <2>8, Moves
      <3>2. UNCHANGED <<run, interrupted, overlapped>> /\ exec[a].status = "IN_PROGRESS"
        BY <2>8, Moves
      <3>3. /\ Busy(a) /\ exec[a] \in Execution /\ exec[a].run \in Runs /\ exec[a].wf \in Workflows
            /\ exec[a].at \in Nat
        BY <2>8, Effects
      <3>4. PICK n \in {0, 1} :
                 /\ done'[r][i] = IF r = exec[a].run /\ i = exec[a].at THEN done[r][i] + n ELSE done[r][i]
                 /\ Pause(a) => n = 0
        BY <2>8, Effects
      <3> DEFINE e == Moved(exec[a], k, st)
      <3>5. e.run = exec[a].run /\ e.wf = exec[a].wf /\ e.at = k /\ e.status = st
        BY MovedFields
      <3> HIDE DEF e
      <3>6. e \in Execution /\ Becomes(a, e)
        BY <3>1 DEF e
      <3>7. e # Idle
        BY <3>6 DEF Execution, Idle, Recorded
      <3>8. D' = D + (IF MayDo(e, r, i) THEN 1 ELSE 0) - (IF MayDo(exec[a], r, i) THEN 1 ELSE 0)
            /\ (MayDo(exec[a], r, i) => D >= 1)
        BY <3>6, DoersIs
      <3>9. Executing(r)' = Executing(r)
        BY <3>3, <3>5, <3>6, <3>7, ExecutingIs DEF Executing, Busy
      <3>10. exec'[a] = e /\ \A b \in Actors \ {a} : exec'[b] = exec[b]
        BY <3>6, BecomesIs
      <3>11. \A b \in Executing(r) : exec'[b].wf = exec[b].wf
        BY <3>5, <3>10 DEF Executing
      <3>12. Plain(r, i)
        BY <3>2, <3>9, <3>11 DEF Plain, LaterDraft
      <3>13. row' = row
        BY <2>3, <3>2, <3>9 DEF RowMayDo
      <3>14. MayDo(e, r, i) => MayDo(exec[a], r, i)
        BY <2>1, <3>1, <3>2, <3>3, <3>5 DEF MayDo
      <3>15. ASSUME r = exec[a].run, i = exec[a].at, n = 1
             PROVE  MayDo(exec[a], r, i) /\ ~MayDo(e, r, i)
        <4>1. MayDo(exec[a], r, i)
          BY <2>1, <3>2, <3>15 DEF MayDo
        <4>2. st # "WAITING_APPROVAL"
          <5>1. SUFFICES ASSUME PausesAfter(exec[a]) PROVE FALSE
            BY <3>1, <3>4, <3>15
          <5>2. exec[a].from \in {0} \cup StepNumbers
            BY <3>3 DEF Execution
          <5>3. exec[a].from \in Nat /\ exec[a].from # 0 /\ exec[a].from < exec[a].at /\ IsDraft(exec[a].wf, i)
            BY <3>3, <3>15, <5>1, <5>2, StepFacts DEF PausesAfter, Draft, IsDraft
          <5>4. IsDraft(exec[a].wf, exec[a].from)
            BY <3>3, <5>3 DEF WaitInv
          <5>5. exec[a].from \in 1..(i - 1)
            BY <2>1, <3>3, <3>15, <5>3
          <5>6. ~LaterDraft(exec[a].wf, i)
            BY <3>3, <3>12, <3>15, OneWorkflow
          <5>7. QED
            BY <5>3, <5>4, <5>5, <5>6 DEF LaterDraft, IsDraft
        <4>3. st = "IN_PROGRESS" => k = exec[a].at + 1
          BY <3>1, <3>3
        <4>4. ~MayDo(e, r, i)
          BY <2>1, <3>3, <3>5, <3>15, <4>2, <4>3 DEF MayDo
        <4>5. QED
          BY <4>1, <4>4
      <3>16. QED
        BY <2>1, <2>2, <3>2, <3>4, <3>8, <3>12, <3>13, <3>14, <3>15
    <2>9. CASE Record(a)
      <3>1. /\ Becomes(a, Idle) /\ UNCHANGED <<done, interrupted, overlapped>>
            /\ Busy(a) /\ exec[a].run \in Runs
            /\ \A b \in Actors \ {a} : exec'[b] = exec[b]
        BY <2>9, RecordIs
      <3>2. ~MayDo(Idle, r, i)
        BY DEF MayDo, Idle
      <3>3. D' = D - (IF MayDo(exec[a], r, i) THEN 1 ELSE 0)
        BY <2>1, <3>1, <3>2, DoersIs
      <3>4. Executing(r)' = Executing(r) \ {a}
        BY <3>1, ExecutingIs
      <3>5. \A b \in Executing(r)' : exec'[b].wf = exec[b].wf /\ b \in Executing(r)
        BY <3>1, <3>4 DEF Executing
      <3>6. CASE r = exec[a].run
        <4>1. /\ run'[r] # Unrecorded /\ run'[r].wf = exec[a].wf
              /\ run'[r].status = exec[a].status /\ run'[r].step = exec[a].at
          BY <2>9, <3>6, RecordIs
        <4>2. a \in Executing(r)
          BY <3>1, <3>6 DEF Executing, Busy
        <4>3. row = 0
          BY <4>2 DEF RowMayDo
        <4>4. Plain(r, i)
          BY <3>5, <4>1, <4>2 DEF Plain, LaterDraft
        <4>5. row' = 1 => MayDo(exec[a], r, i)
          BY <2>3, <3>6, <4>1 DEF MayDo
        <4>6. QED
          BY <2>1, <2>2, <2>4, <3>1, <3>3, <4>3, <4>4, <4>5
      <3>7. CASE r # exec[a].run
        <4>1. run'[r] = run[r]
          BY <2>9, <3>7, RecordIs
        <4>2. a \notin Executing(r)
          BY <3>7 DEF Executing
        <4>3. row' = row
          BY <2>3, <3>4, <4>1, <4>2 DEF RowMayDo
        <4>4. Plain(r, i)
          BY <3>5, <4>1 DEF Plain, LaterDraft
        <4>5. QED
          BY <2>1, <2>2, <3>1, <3>3, <4>3, <4>4
      <3>8. QED
        BY <3>6, <3>7
    <2>10. CASE Interrupt(a)
      <3>1. /\ Becomes(a, Idle) /\ UNCHANGED <<run, done, overlapped>> /\ Busy(a)
            /\ interrupted' = [interrupted EXCEPT ![exec[a].run] = @ + 1]
        BY <2>10 DEF Interrupt, Becomes, Busy
      <3>2. ~MayDo(Idle, r, i)
        BY DEF MayDo, Idle
      <3>3. D' = D - (IF MayDo(exec[a], r, i) THEN 1 ELSE 0)
        BY <2>1, <3>1, <3>2, DoersIs
      <3>4. Executing(r)' = Executing(r) \ {a}
        BY <3>1, ExecutingIs
      <3>5. \A b \in Executing(r)' : exec'[b].wf = exec[b].wf /\ b \in Executing(r)
        BY <3>1, <3>4, BecomesIs DEF Executing
      <3>6. Plain(r, i)
        BY <3>1, <3>5 DEF Plain, LaterDraft
      <3>7. interrupted'[r] = IF r = exec[a].run THEN interrupted[r] + 1 ELSE interrupted[r]
        BY <3>1 DEF RunsTypeOK
      <3>8. r # exec[a].run => row' = row
        BY <2>3, <3>1, <3>4 DEF RowMayDo, Executing
      <3>9. QED
        BY <2>1, <2>2, <2>4, <3>1, <3>3, <3>6, <3>7, <3>8
    <2>11. QED
      BY <2>5, <2>6, <2>7, <2>8, <2>9, <2>10
  <1>3. QED
    BY <1>1, <1>2

AttemptRunInv == ApprovedInv /\ AttemptInv

LEMMA AttemptRunInit ==
    ASSUME RunsInit
    PROVE  AttemptRunInv
  <1>1. ApprovedInv
    BY ApprovedInit
  <1>2. /\ \A a \in Actors : exec[a] = Idle
        /\ \A r \in Runs : run[r] = Unrecorded /\ interrupted[r] = 0 /\ overlapped[r] = 0
        /\ \A r \in Runs, i \in StepNumbers : done[r][i] = 0
    BY DEF RunsInit
  <1>3. \A r \in Runs, i \in StepNumbers : Executing(r) = {} /\ ~(run[r] # Unrecorded)
    BY <1>2 DEF Executing
  <1>4. AttemptInv
    BY <1>3 DEF AttemptInv, Plain
  <1>5. QED
    BY <1>1, <1>4 DEF AttemptRunInv

LEMMA AttemptRunNext ==
    ASSUME AttemptRunInv, [RunsNext]_runVars
    PROVE  AttemptRunInv'
  <1>1. RunsTypeOK /\ OrderInv /\ OriginInv /\ WaitInv /\ FreshInv /\ AttemptInv /\ ApprovedInv
    BY DEF AttemptRunInv, ApprovedInv, ApprovalInv
  <1>2. ApprovedInv' /\ AttemptInv'
    BY <1>1, ApprovedNext, AttemptNext
  <1>3. QED
    BY <1>2 DEF AttemptRunInv

(* However executions overlap and are interrupted: a step that is no later *)
(* draft takes effect once, and once more at most for each execution that  *)
(* left no record and each approval given while another was executing.     *)
THEOREM StepsTakeEffectOncePerAttempt == RunsSpec => []AtMostOncePerAttempt
  <1>1. AttemptRunInv => AtMostOncePerAttempt
    <2> SUFFICES ASSUME AttemptRunInv, NEW r \in Runs, NEW i \in StepsOf(r),
                        ~LaterDraft(run[r].wf, i)
                 PROVE  done[r][i] <= 1 + interrupted[r] + overlapped[r]
      BY DEF AtMostOncePerAttempt
    <2>1. RunsTypeOK /\ AttemptInv
      BY DEF AttemptRunInv, ApprovedInv
    <2>2. run[r] # Unrecorded /\ i \in StepNumbers
      BY DEF StepsOf
    <2>3. done[r][i] + Cardinality(Doers(r, i)) + RowMayDo(r, i) <= 1 + interrupted[r] + overlapped[r]
      BY <2>1, <2>2 DEF AttemptInv, Plain
    <2>4. IsFiniteSet(Doers(r, i))
      BY AutomationAssumption, FS_Subset DEF Doers
    <2>5. /\ done[r][i] \in Nat /\ Cardinality(Doers(r, i)) \in Nat /\ RowMayDo(r, i) \in {0, 1}
          /\ interrupted[r] \in Nat /\ overlapped[r] \in Nat
      BY <2>1, <2>2, <2>4, FS_CardinalityType, AutomationAssumption DEF RunsTypeOK, RowMayDo
    <2>6. QED
      BY <2>3, <2>5
  <1>2. QED
    BY <1>1, AttemptRunInit, AttemptRunNext, PTL DEF RunsSpec
=============================================================================
