------------------------ MODULE AutomationEngineProofs ------------------------
(***************************************************************************)
(* Proofs about AutomationEngine, for any number of automations, workflows,*)
(* jobs and workers and any bounds.                                        *)
(***************************************************************************)
EXTENDS AutomationEngine, TLAPS

(* A job has a row under evaluation whenever it walks or records, and nothing
   in memory when it is not running. *)
Evaluating == \A j \in Job :
    /\ exec[j].pc \in {"walk", "record"} => exec[j].row \in Row
    /\ job[j].state # "running" => exec[j] = Idle

TypeInv == TypeOK /\ Evaluating

USE AutomationAssumption, ScheduleAssumption, JobAssumption, NoActionAssumption, NoRowAssumption

LEMMA IdleTyped == Idle \in Executions
BY DEF Idle, Executions, Edge, Outcome

LEMMA UnusedTyped == \A k \in Job : Unused(k) \in Jobs
BY DEF Unused, Jobs, JobRows, Target, Binding, Edge

LEMMA GraphTyped == \A g \in Graph : g \in ActionGraphs
BY GraphAssumption

LEMMA RowOfTyped == 
  ASSUME TypeOK, NEW a \in Automation
  PROVE RowOf(a) \in Row
BY DEF TypeOK, RowOf, Row, AutomationRows

LEMMA InitType == Init => TypeInv
<1> SUFFICES ASSUME Init PROVE TypeInv
  OBVIOUS
<1>1. automation \in [Automation -> AutomationRows]
  <2>1. (CHOOSE g \in Graph : TRUE) \in Graph
    BY GraphAssumption
  <2> QED BY <2>1 DEF Init, AutomationRows, Binding
<1>2. job \in [Job -> Jobs]
  BY UnusedTyped DEF Init
<1>3. exec \in [Job -> Executions]
  BY IdleTyped DEF Init
<1>4. effect \in [Job -> [Automation -> [Action -> Nat]]]
  BY DEF Init
<1>5. Evaluating
  BY DEF Init, Evaluating, Idle
<1> QED BY <1>1, <1>2, <1>3, <1>4, <1>5 DEF Init, TypeInv, TypeOK

(* Executions that a handler's steps build. *)
LEMMA MoveTyped ==
  ASSUME TypeInv, NEW j \in Job, exec[j].pc = "walk", Here(j) # NoAction, NEW n \in Edge
  PROVE /\ MoveTo(j, n) \in Executions
        /\ MoveTo(j, n).row \in Row
        /\ MoveTo(j, n).pc = "walk"
<1>1. exec[j] \in Executions /\ exec[j].row \in Row
  BY DEF TypeInv, TypeOK, Evaluating
<1>2. Here(j) \in Action /\ exec[j].visited \cup {Here(j)} \in SUBSET Action
  BY <1>1 DEF Here, Executions, Edge
<1>3. exec[j].steps + 1 \in Nat
  BY <1>1 DEF Executions
<1> QED BY <1>1, <1>2, <1>3 DEF MoveTo, Executions

LEMMA EndedTyped ==
  ASSUME NEW e \in Executions, NEW o \in Outcome
  PROVE /\ Ended(e, o) \in Executions
        /\ Ended(e, o).row = e.row
BY DEF Ended, Executions

LEMMA CountedTyped ==
  ASSUME NEW e \in Executions, NEW x \in Action
  PROVE /\ Counted(e, x) \in Executions
        /\ Counted(e, x).row = e.row
        /\ Counted(e, x).pc = e.pc
BY DEF Counted, Executions

LEMMA WalkedTyped ==
  ASSUME TypeInv, NEW j \in Job, exec[j].pc = "walk", Here(j) # NoAction
  PROVE /\ Here(j) \in Action
        /\ Walked(j).succ[Here(j)] \in Edge
        /\ Walked(j).err[Here(j)] \in Edge
        /\ exec[j].row.id \in Automation
BY GraphTyped DEF TypeInv, TypeOK, Evaluating, Here, Walked, Executions, Edge, Row, ActionGraphs

LEMMA AfterErrorTyped ==
  ASSUME TypeInv, NEW j \in Job, exec[j].pc = "walk", Here(j) # NoAction
  PROVE /\ AfterError(j) \in Executions
        /\ AfterError(j).row \in Row
        /\ AfterError(j).pc # "idle"
<1>1. Here(j) \in Edge /\ Walked(j).err[Here(j)] \in Edge
  BY WalkedTyped DEF Edge
<1>2. CASE Walked(j).err[Here(j)] = NoAction
  <2>1. AfterError(j) = Ended(MoveTo(j, Here(j)), "error")
    BY <1>2 DEF AfterError
  <2>2. MoveTo(j, Here(j)) \in Executions /\ MoveTo(j, Here(j)).row \in Row
    BY <1>1, MoveTyped
  <2>3. "error" \in Outcome
    BY DEF Outcome
  <2>4. Ended(MoveTo(j, Here(j)), "error").pc = "record"
    BY <2>2 DEF Ended, Executions
  <2> QED BY <2>1, <2>2, <2>3, <2>4, EndedTyped
<1>3. CASE Walked(j).err[Here(j)] # NoAction
  <2>1. AfterError(j) = MoveTo(j, Walked(j).err[Here(j)])
    BY <1>3 DEF AfterError
  <2> QED BY <1>1, <2>1, MoveTyped
<1> QED BY <1>2, <1>3

(* Writing one entry of exec, and how the job's own state must follow. *)
LEMMA ExecUpdate ==
  ASSUME TypeInv, NEW j \in Job, NEW e \in Executions,
         e.pc \in {"walk", "record"} => e.row \in Row,
         exec' = [exec EXCEPT ![j] = e],
         \A i \in Job \ {j} : job'[i].state # "running" => job[i].state # "running",
         job'[j].state # "running" => e = Idle
  PROVE exec' \in [Job -> Executions] /\ Evaluating'
BY DEF TypeInv, TypeOK, Evaluating

LEMMA JobInsert ==
  ASSUME TypeOK, NEW k \in Job, NextJobID(k), NEW r \in Jobs, r.state = "available",
         job' = [job EXCEPT ![k] = r]
  PROVE /\ job' \in [Job -> Jobs]
        /\ \A i \in Job : job'[i].state = "running" <=> job[i].state = "running"
        /\ \A i \in Job : job[i].state # "none" => job'[i] = job[i]
BY DEF TypeOK, NextJobID

LEMMA EventJobTyped ==
  ASSUME NEW k \in Job, NEW a \in Target, NEW s \in Firing \cup {NoSchedule}
  PROVE EventJob(k, a, s) \in Jobs /\ EventJob(k, a, s).state = "available"
BY DEF EventJob, Unused, Jobs, JobRows, Edge

LEMMA EffectiveTyped ==
  ASSUME NEW s \in Binding
  PROVE Effective(s) \in Firing \cup {NoSchedule}
<1>1. CASE s = NoSchedule
  BY <1>1 DEF Effective
<1>2. CASE s \in Schedule
  BY <1>2 DEF Effective, Schedule, Firing
<1> QED BY <1>1, <1>2 DEF Binding

LEMMA TickJobTyped ==
  ASSUME NEW k \in Job, NEW d \in SUBSET Firing
  PROVE TickJob(k, d) \in Jobs /\ TickJob(k, d).state = "available"
BY DEF TickJob, Unused, Jobs, JobRows, Edge, Target, Binding

LEMMA ResumeJobTyped ==
  ASSUME TypeOK, NEW k \in Job, NEW j \in Job, NEW a \in Automation, NEW n \in Edge
  PROVE ResumeJob(k, j, a, n) \in Jobs /\ ResumeJob(k, j, a, n).state = "available"
<1>1. job[j] \in Jobs
  BY DEF TypeOK
<1> QED BY <1>1 DEF ResumeJob, Unused, Jobs, JobRows, Edge, Target, Binding

LEMMA SpendTyped ==
  ASSUME TypeOK, NEW w \in {"event", "tick", "edit", "fault"}, Spend(w)
  PROVE spent' \in [event : Nat, tick : Nat, edit : Nat, fault : Nat]
BY DEF TypeOK, Spend

LEMMA CompleteTyped ==
  ASSUME TypeInv, NEW j \in Job, CompleteJob(j)
  PROVE job' \in [Job -> Jobs] /\ exec' \in [Job -> Executions] /\ Evaluating'
<1>0. job[j] \in Jobs
  BY DEF TypeInv, TypeOK
<1>a. [job[j] EXCEPT !.state = "completed"] \in Jobs
  BY <1>0 DEF Jobs, JobRows
<1>1. job' \in [Job -> Jobs]
  BY <1>a DEF TypeInv, TypeOK, CompleteJob
<1>2. job'[j].state = "completed" /\ \A i \in Job \ {j} : job'[i] = job[i]
  BY DEF TypeInv, TypeOK, CompleteJob, Jobs, JobRows
<1>3. Idle.pc = "idle"
  BY DEF Idle
<1> QED BY <1>1, <1>2, <1>3, IdleTyped, ExecUpdate DEF CompleteJob

LEMMA FailTyped ==
  ASSUME TypeInv, NEW j \in Job, FailAttempt(j)
  PROVE job' \in [Job -> Jobs] /\ exec' \in [Job -> Executions] /\ Evaluating'
<1>0. job[j] \in Jobs
  BY DEF TypeInv, TypeOK
<1> DEFINE s == IF job[j].attempt < MaxAttempts THEN "available" ELSE "discarded"
<1>a. [job[j] EXCEPT !.state = s] \in Jobs /\ [job[j] EXCEPT !.state = s].state = s
  BY <1>0 DEF Jobs, JobRows
<1>1. job' \in [Job -> Jobs] /\ job'[j].state \in {"available", "discarded"}
  BY <1>a DEF TypeInv, TypeOK, FailAttempt
<1>2. \A i \in Job \ {j} : job'[i] = job[i]
  BY DEF TypeInv, TypeOK, FailAttempt, Jobs, JobRows
<1>3. Idle.pc = "idle"
  BY DEF Idle
<1> QED BY <1>1, <1>2, <1>3, IdleTyped, ExecUpdate DEF FailAttempt

LEMMA RecordNextTyped ==
  ASSUME TypeInv, NEW j \in Job, NEW r \in Row, NEW o \in Outcome,
         job[j].state = "running", job' = job, RecordNext(j, r, o)
  PROVE exec' \in [Job -> Executions] /\ Evaluating'
<1> DEFINE e == [exec[j] EXCEPT !.pc = "record", !.row = r, !.outcome = o]
<1>0. exec[j] \in Executions
  BY DEF TypeInv, TypeOK
<1>1. e \in Executions /\ e.row = r
  BY <1>0 DEF Executions
<1>2. exec' = [exec EXCEPT ![j] = e]
  BY DEF RecordNext, TypeInv, TypeOK, Executions
<1> QED BY <1>1, <1>2, ExecUpdate

LEMMA BeginWalkTyped ==
  ASSUME TypeInv, NEW j \in Job, NEW r \in Row, NEW n \in Edge,
         job[j].state = "running", job' = job, BeginWalk(j, r, n)
  PROVE exec' \in [Job -> Executions] /\ Evaluating'
<1> DEFINE e == [exec[j] EXCEPT !.pc = IF n \in r.graph.nodes THEN "walk" ELSE "record",
                                !.outcome = IF n \in r.graph.nodes THEN "none" ELSE "error",
                                !.row = r, !.cur = n, !.visited = {}, !.steps = 0,
                                !.times = [x \in Action |-> 0]]
<1>0. exec[j] \in Executions
  BY DEF TypeInv, TypeOK
<1>1. e \in Executions /\ e.row = r
  <2> DEFINE pc == IF n \in r.graph.nodes THEN "walk" ELSE "record"
             oc == IF n \in r.graph.nodes THEN "none" ELSE "error"
  <2>1. pc \in {"idle", "load", "rows", "walk", "record"} /\ oc \in Outcome
    BY DEF Outcome
  <2>2. {} \in SUBSET Action /\ 0 \in Nat /\ [x \in Action |-> 0] \in [Action -> Nat]
    OBVIOUS
  <2> HIDE DEF pc, oc
  <2>3. [exec[j] EXCEPT !.pc = pc, !.outcome = oc, !.row = r, !.cur = n,
                        !.visited = {}, !.steps = 0, !.times = [x \in Action |-> 0]] \in Executions
    BY <1>0, <2>1, <2>2 DEF Executions
  <2> QED BY <1>0, <2>3 DEF Executions, pc, oc
<1>2. exec' = [exec EXCEPT ![j] = e]
  BY DEF BeginWalk, TypeInv, TypeOK, Executions
<1> QED BY <1>1, <1>2, ExecUpdate

LEMMA TypeStep == TypeInv /\ [Next]_vars => TypeInv'
<1> SUFFICES ASSUME TypeInv, [Next]_vars PROVE TypeInv'
  OBVIOUS
<1> USE DEF TypeInv
<1>t. TypeOK /\ Evaluating
  OBVIOUS
<1>f. ASSUME Fault PROVE spent' \in [event : Nat, tick : Nat, edit : Nat, fault : Nat]
  BY <1>f, SpendTyped DEF Fault
<1>0. ASSUME UNCHANGED vars PROVE TypeInv'
  BY <1>0 DEF vars, TypeOK, Evaluating
<1>1. ASSUME PublishEvent PROVE TypeInv'
  <2>1. PICK k \in Job : NextJobID(k) /\ job' = [job EXCEPT ![k] = EventJob(k, NoAutomation, NoSchedule)]
    BY <1>1 DEF PublishEvent
  <2>2. NoAutomation \in Target
    BY DEF Target
  <2>3. job' \in [Job -> Jobs] /\ \A i \in Job : job'[i].state = "running" <=> job[i].state = "running"
    BY <2>1, <2>2, EventJobTyped, JobInsert
  <2> QED BY <1>1, <2>3, SpendTyped DEF PublishEvent, TypeOK, Evaluating
<1>2. ASSUME PeriodicTick PROVE TypeInv'
  <2>1. PICK k \in Job, d \in SUBSET Firing : NextJobID(k) /\ job' = [job EXCEPT ![k] = TickJob(k, d)]
    BY <1>2 DEF PeriodicTick
  <2>2. job' \in [Job -> Jobs] /\ \A i \in Job : job'[i].state = "running" <=> job[i].state = "running"
    BY <2>1, TickJobTyped, JobInsert
  <2> QED BY <1>2, <2>2, SpendTyped DEF PeriodicTick, TypeOK, Evaluating
<1>3. ASSUME WorkerCrash PROVE TypeInv'
  <2>1. ASSUME NEW j \in Job PROVE [job[j] EXCEPT !.state = "orphaned"] \in Jobs
    <3>1. job[j] \in Jobs
      BY DEF TypeOK
    <3> QED BY <3>1 DEF Jobs, JobRows
  <2>2. job' \in [Job -> Jobs] /\ exec' \in [Job -> Executions]
    BY <1>3, <2>1, IdleTyped DEF WorkerCrash, TypeOK
  <2>3. Evaluating'
    BY <1>3 DEF WorkerCrash, Evaluating, Idle
  <2> QED BY <1>3, <1>f, <2>2, <2>3 DEF WorkerCrash, TypeOK
<1>4. ASSUME NEW a \in Automation, CreateAutomation(a) \/ UpdateAutomation(a) PROVE TypeInv'
  <2>1. PICK row \in AutomationRows : SaveAutomation(a, row)
    BY <1>4 DEF CreateAutomation, UpdateAutomation, LiveRows
  <2>2. automation' \in [Automation -> AutomationRows]
    BY <2>1 DEF SaveAutomation, TypeOK
  <2>3. spent' \in [event : Nat, tick : Nat, edit : Nat, fault : Nat]
    BY <1>4, SpendTyped DEF CreateAutomation, UpdateAutomation, TypeOK
  <2>4. runs' = runs
    BY <1>4 DEF CreateAutomation, UpdateAutomation
  <2> QED BY <2>1, <2>2, <2>3, <2>4 DEF SaveAutomation, TypeOK, Evaluating
<1>5. ASSUME NEW a \in Automation, DeleteAutomation(a) PROVE TypeInv'
  <2>1. [automation[a] EXCEPT !.status = "deleted", !.enabled = FALSE] \in AutomationRows
    <3>1. automation[a] \in AutomationRows
      BY DEF TypeOK
    <3> QED BY <3>1 DEF AutomationRows
  <2>2. automation' \in [Automation -> AutomationRows]
    BY <1>5, <2>1 DEF DeleteAutomation, SaveAutomation, TypeOK
  <2> QED BY <1>5, <2>2, SpendTyped DEF DeleteAutomation, SaveAutomation, TypeOK, Evaluating
<1>6. ASSUME NEW j \in Job, StartJob(j) PROVE TypeInv'
  <2> DEFINE e == [Idle EXCEPT !.pc = "load"]
  <2>1. e \in Executions /\ e.pc = "load"
    BY IdleTyped DEF Executions, Idle
  <2>2. [[job[j] EXCEPT !.state = "running"] EXCEPT !.attempt = @ + 1] \in Jobs
    <3>1. job[j] \in Jobs
      BY DEF TypeOK
    <3> DEFINE q == [job[j] EXCEPT !.state = "running"]
    <3>2. q \in Jobs
      BY <3>1 DEF Jobs, JobRows
    <3> HIDE DEF q
    <3>3. q \in JobRows /\ q.attempt + 1 \in Nat
      BY <3>2 DEF Jobs, JobRows
    <3>4. [q EXCEPT !.attempt = @ + 1] \in Jobs
      BY <3>2, <3>3 DEF Jobs, JobRows
    <3> QED BY <3>4 DEF q
  <2>3. job' \in [Job -> Jobs] /\ job'[j].state = "running" /\ \A i \in Job \ {j} : job'[i] = job[i]
    BY <1>6, <2>2 DEF StartJob, TypeOK, Jobs, JobRows
  <2>4. exec' = [exec EXCEPT ![j] = e]
    BY <1>6 DEF StartJob
  <2>5. exec' \in [Job -> Executions] /\ Evaluating'
    BY <2>1, <2>3, <2>4, ExecUpdate
  <2> QED BY <1>6, <2>3, <2>5 DEF StartJob, TypeOK
<1>7. ASSUME NEW j \in Job, RescueJob(j) PROVE TypeInv'
  BY <1>7, FailTyped DEF RescueJob, TypeOK
<1>8. ASSUME NEW j \in Job, LoadRows(j) PROVE TypeInv'
  <2>1. CASE Fault /\ FailAttempt(j)
    BY <1>8, <1>f, <2>1, FailTyped DEF LoadRows, TypeOK
  <2> DEFINE found == IF job[j].kind = "event" THEN RowsForEvent(j) ELSE RowsForTick(j)
  <2>2. CASE /\ exec' = [exec EXCEPT ![j].pc = "rows", ![j].rows = found,
                                     ![j].listed = {r.id : r \in found}]
             /\ UNCHANGED <<job, spent>>
    <3> DEFINE e == [exec[j] EXCEPT !.pc = "rows", !.rows = found, !.listed = {r.id : r \in found}]
    <3>1. found \in SUBSET Row
      BY RowOfTyped DEF RowsForEvent, RowsOfTrigger, RowsForTick, EnabledRows
    <3>2. {r.id : r \in found} \in SUBSET Automation
      BY <3>1 DEF Row
    <3>3. exec[j] \in Executions /\ job[j].state = "running"
      BY <1>8 DEF TypeOK, LoadRows, At
    <3> HIDE DEF found
    <3>4. e \in Executions /\ e.pc = "rows"
      BY <3>1, <3>2, <3>3 DEF Executions
    <3>5. exec' = [exec EXCEPT ![j] = e]
      BY <2>2 DEF found
    <3>6. exec' \in [Job -> Executions] /\ Evaluating'
      BY <2>2, <3>3, <3>4, <3>5, ExecUpdate
    <3> QED BY <1>8, <2>2, <3>6 DEF LoadRows, TypeOK
  <2> QED BY <1>8, <2>1, <2>2 DEF LoadRows
<1>9. ASSUME NEW j \in Job, LoadResumed(j) PROVE TypeInv'
  <2> DEFINE a == job[j].automation
  <2>1. CASE FailAttempt(j) /\ (UNCHANGED spent \/ Fault)
    BY <1>9, <1>f, <2>1, FailTyped DEF LoadResumed, TypeOK
  <2>2. CASE job' = job /\ (UNCHANGED spent \/ Fault)
             /\ (RecordNext(j, RowOf(a), "skipped") \/ RecordNext(j, RowOf(a), "error")
                 \/ BeginWalk(j, RowOf(a), job[j].next))
    <3>1. job[j] \in Jobs /\ job[j].kind = "resume" /\ job[j].state = "running"
      BY <1>9 DEF TypeOK, LoadResumed, At
    <3>2. a \in Automation /\ job[j].next \in Edge
      BY <3>1 DEF Jobs, JobRows
    <3>3. RowOf(a) \in Row /\ "skipped" \in Outcome /\ "error" \in Outcome
      BY <3>2, RowOfTyped DEF Outcome
    <3>4. exec' \in [Job -> Executions] /\ Evaluating'
      <4>1. CASE RecordNext(j, RowOf(a), "skipped")
        BY <2>2, <3>1, <3>3, <4>1, RecordNextTyped
      <4>2. CASE RecordNext(j, RowOf(a), "error")
        BY <2>2, <3>1, <3>3, <4>2, RecordNextTyped
      <4>3. CASE BeginWalk(j, RowOf(a), job[j].next)
        BY <2>2, <3>1, <3>2, <3>3, <4>3, BeginWalkTyped
      <4> QED BY <2>2, <4>1, <4>2, <4>3
    <3>5. spent' \in [event : Nat, tick : Nat, edit : Nat, fault : Nat]
      BY <1>f, <2>2 DEF TypeOK
    <3> QED BY <1>9, <2>2, <3>4, <3>5 DEF LoadResumed, TypeOK
  <2> QED BY <1>9, <2>1, <2>2 DEF LoadResumed
<1>10. ASSUME NEW j \in Job, NextRow(j) PROVE TypeInv'
  <2>1. PICK r \in exec[j].rows :
            \/ RecordNext(j, r, "skipped") /\ UNCHANGED spent
            \/ Fault /\ RecordNext(j, r, "error")
            \/ BeginWalk(j, r, r.graph.entry) /\ UNCHANGED spent
    BY <1>10 DEF NextRow
  <2>2. r \in Row /\ job[j].state = "running" /\ job' = job
    BY <1>10 DEF TypeOK, Executions, NextRow, At
  <2>3. r.graph.entry \in Edge /\ "skipped" \in Outcome /\ "error" \in Outcome
    BY <2>2, GraphTyped DEF Row, ActionGraphs, Edge, Outcome
  <2>4. exec' \in [Job -> Executions] /\ Evaluating'
    BY <2>1, <2>2, <2>3, RecordNextTyped, BeginWalkTyped
  <2>5. spent' \in [event : Nat, tick : Nat, edit : Nat, fault : Nat]
    BY <1>f, <2>1 DEF TypeOK
  <2> QED BY <1>10, <2>4, <2>5 DEF NextRow, TypeOK
<1>11. ASSUME NEW j \in Job, EnqueueDue(j) PROVE TypeInv'
  <2>1. PICK r \in exec[j].rows :
            /\ exec' = [exec EXCEPT ![j].rows = @ \ {r}, ![j].dealt = @ \cup {r.id}]
            /\ \/ /\ \E k \in Job : NextJobID(k) /\ job' = [job EXCEPT ![k] = EventJob(k, r.id, Effective(r.sched))]
                  /\ UNCHANGED spent
               \/ Fault /\ UNCHANGED job
    BY <1>11 DEF EnqueueDue
  <2> DEFINE e == [exec[j] EXCEPT !.rows = @ \ {r}, !.dealt = @ \cup {r.id}]
  <2>2. exec[j] \in Executions /\ r \in Row /\ job[j].state = "running" /\ exec[j].pc = "rows"
    BY <1>11 DEF TypeOK, Executions, EnqueueDue, At
  <2>3. e \in Executions /\ e.pc = "rows"
    BY <2>2 DEF Executions, Row
  <2>4. exec' = [exec EXCEPT ![j] = e]
    BY <2>1
  <2>5. job' \in [Job -> Jobs] /\ \A i \in Job : job'[i].state = "running" <=> job[i].state = "running"
    <3>1. r.id \in Target /\ Effective(r.sched) \in Firing \cup {NoSchedule}
      BY <2>2, EffectiveTyped DEF Row, Target
    <3>2. CASE job' = job
      BY <3>2 DEF TypeOK
    <3>3. ASSUME NEW k \in Job, NextJobID(k), job' = [job EXCEPT ![k] = EventJob(k, r.id, Effective(r.sched))]
          PROVE job' \in [Job -> Jobs] /\ \A i \in Job : job'[i].state = "running" <=> job[i].state = "running"
      BY <3>1, <3>3, EventJobTyped, JobInsert
    <3> QED BY <2>1, <3>2, <3>3
  <2>6. exec' \in [Job -> Executions] /\ Evaluating'
    BY <2>2, <2>3, <2>4, <2>5, ExecUpdate
  <2>7. spent' \in [event : Nat, tick : Nat, edit : Nat, fault : Nat]
    BY <1>f, <2>1 DEF TypeOK
  <2> QED BY <1>11, <2>5, <2>6, <2>7 DEF EnqueueDue, TypeOK
<1>12. ASSUME NEW j \in Job, FinishRows(j) PROVE TypeInv'
  BY <1>12, CompleteTyped DEF FinishRows, TypeOK
<1>13. ASSUME NEW j \in Job, WalkEnds(j) PROVE TypeInv'
  <2>1. PICK o \in {"success", "error"} : exec' = [exec EXCEPT ![j] = Ended(@, o)]
    BY <1>13 DEF WalkEnds
  <2>2. exec[j] \in Executions /\ exec[j].row \in Row /\ job[j].state = "running" /\ o \in Outcome
    BY <1>13 DEF TypeOK, Evaluating, WalkEnds, At, Outcome
  <2>3. exec' = [exec EXCEPT ![j] = Ended(exec[j], o)]
    BY <2>1
  <2>4. exec' \in [Job -> Executions] /\ Evaluating'
    BY <1>13, <2>2, <2>3, EndedTyped, ExecUpdate DEF WalkEnds
  <2> QED BY <1>13, <2>4 DEF WalkEnds, TypeOK
<1>14. ASSUME NEW j \in Job, ExecuteEffect(j) PROVE TypeInv'
  <2> DEFINE x == Here(j)
             n == Walked(j).succ[x]
  <2>1. exec[j].pc = "walk" /\ x # NoAction /\ job[j].state = "running"
    BY <1>14 DEF ExecuteEffect, Executes, At
  <2>2. x \in Action /\ n \in Edge /\ exec[j].row.id \in Automation
    BY <2>1, WalkedTyped
  <2>3. PICK e \in {Counted(MoveTo(j, n), x), Counted(AfterError(j), x), AfterError(j)} :
            exec' = [exec EXCEPT ![j] = e]
    BY <1>14 DEF ExecuteEffect
  <2>4. e \in Executions /\ e.row \in Row
    <3>1. MoveTo(j, n) \in Executions /\ MoveTo(j, n).row \in Row
      BY <2>1, <2>2, MoveTyped
    <3>2. AfterError(j) \in Executions /\ AfterError(j).row \in Row
      BY <2>1, AfterErrorTyped
    <3>3. CASE e = Counted(MoveTo(j, n), x)
      BY <2>2, <3>1, <3>3, CountedTyped
    <3>4. CASE e = Counted(AfterError(j), x)
      BY <2>2, <3>2, <3>4, CountedTyped
    <3> QED BY <2>3, <3>2, <3>3, <3>4
  <2>5. exec' \in [Job -> Executions] /\ Evaluating'
    BY <1>14, <2>1, <2>3, <2>4, ExecUpdate DEF ExecuteEffect
  <2>6. effect' \in [Job -> [Automation -> [Action -> Nat]]]
    <3>1. job[j].event \in Job
      BY DEF TypeOK, Jobs, JobRows
    <3>2. effect' = effect \/ effect' = [effect EXCEPT ![job[j].event][exec[j].row.id][x] = @ + 1]
      BY <1>14 DEF ExecuteEffect
    <3> QED BY <2>2, <3>1, <3>2 DEF TypeOK
  <2>7. spent' \in [event : Nat, tick : Nat, edit : Nat, fault : Nat]
    BY <1>14, <1>f DEF ExecuteEffect, TypeOK
  <2> QED BY <1>14, <2>5, <2>6, <2>7 DEF ExecuteEffect, TypeOK
<1>15. ASSUME NEW j \in Job, ExecuteDelay(j) PROVE TypeInv'
  <2> DEFINE x == Here(j)
             n == Walked(j).succ[x]
  <2>1. exec[j].pc = "walk" /\ x # NoAction /\ job[j].state = "running"
    BY <1>15 DEF ExecuteDelay, Executes, At
  <2>2. x \in Action /\ n \in Edge /\ exec[j].row.id \in Automation
    BY <2>1, WalkedTyped
  <2>3. PICK e \in {MoveTo(j, NoAction), Ended(MoveTo(j, x), "paused"), AfterError(j)} :
            exec' = [exec EXCEPT ![j] = e]
    BY <1>15 DEF ExecuteDelay
  <2>4. e \in Executions /\ e.row \in Row
    <3>1. x \in Edge /\ NoAction \in Edge /\ "paused" \in Outcome
      BY <2>2 DEF Edge, Outcome
    <3> QED BY <2>1, <2>3, <3>1, MoveTyped, AfterErrorTyped, EndedTyped
  <2>5. job' \in [Job -> Jobs] /\ \A i \in Job : job'[i].state = "running" <=> job[i].state = "running"
    <3>1. CASE job' = job
      BY <3>1 DEF TypeOK
    <3>2. CASE \E k \in Job :
                NextJobID(k) /\ job' = [job EXCEPT ![k] = ResumeJob(k, j, exec[j].row.id, n)]
      <4>1. PICK k \in Job : NextJobID(k) /\ job' = [job EXCEPT ![k] = ResumeJob(k, j, exec[j].row.id, n)]
        BY <3>2
      <4>2. ResumeJob(k, j, exec[j].row.id, n) \in Jobs /\ ResumeJob(k, j, exec[j].row.id, n).state = "available"
        BY <2>2, ResumeJobTyped
      <4> HIDE DEF n
      <4> QED BY <4>1, <4>2, JobInsert
    <3> QED BY <1>15, <3>1, <3>2 DEF ExecuteDelay
  <2>6. exec' \in [Job -> Executions] /\ Evaluating'
    BY <2>1, <2>3, <2>4, <2>5, ExecUpdate
  <2>7. spent' \in [event : Nat, tick : Nat, edit : Nat, fault : Nat]
    BY <1>15, <1>f DEF ExecuteDelay, TypeOK
  <2> QED BY <1>15, <2>5, <2>6, <2>7 DEF ExecuteDelay, TypeOK
<1>16. ASSUME NEW j \in Job, RecordRun(j) PROVE TypeInv'
  <2>1. PICK i \in BOOLEAN :
            /\ i => RunInsertable(j)
            /\ runs' = IF i THEN runs \cup {RunRow(j)} ELSE runs
            /\ IF RunInsertable(j) /\ ~ i THEN Fault ELSE UNCHANGED spent
            /\ IF job[j].kind = "event" THEN AfterEventRun(j) ELSE AfterResumeRun(j, i)
    BY <1>16 DEF RecordRun
  <2>2. exec[j] \in Executions /\ exec[j].row \in Row /\ job[j].state = "running" /\ job[j] \in Jobs
    BY <1>16 DEF TypeOK, Evaluating, RecordRun, At
  <2>3. exec[j].row.id \in Automation
    BY <2>2 DEF Row
  <2>4. runs' \subseteq Run
    <3>1. CASE i
      <4>1. RunRow(j) \in Run
        BY <2>1, <2>2, <2>3, <3>1 DEF RunRow, Run, RunInsertable, Jobs, JobRows
      <4> QED BY <2>1, <3>1, <4>1 DEF TypeOK
    <3> QED BY <2>1, <3>1 DEF TypeOK
  <2>5. spent' \in [event : Nat, tick : Nat, edit : Nat, fault : Nat]
    BY <1>f, <2>1 DEF TypeOK
  <2>6. job' \in [Job -> Jobs] /\ exec' \in [Job -> Executions] /\ Evaluating'
    <3>1. CASE AfterEventRun(j)
      <4> DEFINE e == [exec[j] EXCEPT !.pc = "rows", !.rows = @ \ {exec[j].row},
                                      !.dealt = @ \cup {exec[j].row.id},
                                      !.row = NoRow, !.outcome = "none"]
      <4>1. e \in Executions /\ e.pc = "rows"
        BY <2>2, <2>3 DEF Executions, Outcome
      <4>2. exec' = [exec EXCEPT ![j] = e] /\ job' = job
        BY <3>1 DEF AfterEventRun
      <4> QED BY <2>2, <4>1, <4>2, ExecUpdate DEF TypeOK
    <3>2. CASE CompleteJob(j)
      BY <3>2, CompleteTyped
    <3>3. CASE FailAttempt(j)
      BY <3>3, FailTyped
    <3> QED BY <2>1, <3>1, <3>2, <3>3 DEF AfterResumeRun
  <2> QED BY <1>16, <2>4, <2>5, <2>6 DEF RecordRun, TypeOK
<1>17. ASSUME Quiescent PROVE TypeInv'
  BY <1>0, <1>17 DEF Quiescent
<1> QED BY <1>0, <1>1, <1>2, <1>3, <1>4, <1>5, <1>6, <1>7, <1>8, <1>9, <1>10, <1>11, <1>12,
           <1>13, <1>14, <1>15, <1>16, <1>17 DEF Next, JobStep

(* The job, run and automation tables, the worker's memory and the counters
   keep their types: in particular no run is stored with a status the CHECK
   of migration 000014 does not list. *)
THEOREM TypeCorrect == Spec => []TypeOK
<1>1. TypeInv => TypeOK
  BY DEF TypeInv
<1> QED BY <1>1, InitType, TypeStep, PTL DEF Spec

---------------------------------------------------------------------------
(* One walk, one effect of each action: an action that has had its effect has
   been visited, and a visited action is not executed. *)

Once(e) == \A x \in Action : e.times[x] <= 1 /\ (e.times[x] > 0 => x \in e.visited)

OnceInv == \A j \in Job : Once(exec[j])

LEMMA OnceIdle == Once(Idle)
BY DEF Once, Idle

LEMMA OnceUpdate ==
  ASSUME TypeInv, OnceInv, NEW j \in Job, NEW e, Once(e), exec' = [exec EXCEPT ![j] = e]
  PROVE OnceInv'
BY DEF OnceInv, TypeInv, TypeOK, Once

LEMMA OnceSame ==
  ASSUME NEW e \in Executions, Once(e), NEW f \in Executions,
         f.times = e.times, e.visited \subseteq f.visited
  PROVE Once(f)
BY DEF Once, Executions

LEMMA OnceFresh ==
  ASSUME NEW f, f.times = [x \in Action |-> 0]
  PROVE Once(f)
BY DEF Once

LEMMA OnceStep == TypeInv /\ OnceInv /\ [Next]_vars => OnceInv'
<1> SUFFICES ASSUME TypeInv, OnceInv, [Next]_vars PROVE OnceInv'
  OBVIOUS
<1>e. \A i \in Job : exec[i] \in Executions /\ Once(exec[i])
  BY DEF TypeInv, TypeOK, OnceInv
<1>0. CASE exec' = exec
  BY <1>0 DEF OnceInv, Once
<1>1. CASE exec' = [i \in Job |-> Idle]
  BY <1>1, OnceIdle DEF OnceInv, Once
<1>2. CASE \E j \in Job : exec' = [exec EXCEPT ![j] = Idle]
  BY <1>2, OnceIdle, OnceUpdate
<1>3. ASSUME NEW j \in Job, StartJob(j) PROVE OnceInv'
  <2>1. Once([Idle EXCEPT !.pc = "load"])
    BY DEF Once, Idle
  <2> QED BY <1>3, <2>1, OnceUpdate DEF StartJob
<1>4. ASSUME NEW j \in Job, LoadRows(j), ~ FailAttempt(j) PROVE OnceInv'
  <2> DEFINE found == IF job[j].kind = "event" THEN RowsForEvent(j) ELSE RowsForTick(j)
             ids == {r.id : r \in found}
             e == [exec[j] EXCEPT !.pc = "rows", !.rows = found, !.listed = ids]
  <2>1. exec' = [exec EXCEPT ![j] = e]
    BY <1>4 DEF LoadRows
  <2> HIDE DEF found, ids
  <2>2. e.times = exec[j].times /\ e.visited = exec[j].visited
    BY <1>e DEF Executions
  <2>3. Once(e)
    BY <1>e, <2>2 DEF Once
  <2> QED BY <2>1, <2>3, OnceUpdate
<1>5. ASSUME NEW j \in Job, NEW r, NEW o, RecordNext(j, r, o) PROVE OnceInv'
  <2> DEFINE e == [exec[j] EXCEPT !.pc = "record", !.row = r, !.outcome = o]
  <2>1. e.times = exec[j].times /\ e.visited = exec[j].visited
    BY <1>e DEF Executions
  <2>2. Once(e) /\ exec' = [exec EXCEPT ![j] = e]
    BY <1>e, <1>5, <2>1 DEF Once, RecordNext
  <2> QED BY <2>2, OnceUpdate
<1>6. ASSUME NEW j \in Job, NEW r, NEW n, BeginWalk(j, r, n) PROVE OnceInv'
  <2> DEFINE pc == IF n \in r.graph.nodes THEN "walk" ELSE "record"
             oc == IF n \in r.graph.nodes THEN "none" ELSE "error"
             e == [exec[j] EXCEPT !.pc = pc, !.outcome = oc,
                                  !.row = r, !.cur = n, !.visited = {}, !.steps = 0,
                                  !.times = [x \in Action |-> 0]]
  <2>1. exec' = [exec EXCEPT ![j] = e]
    BY <1>6 DEF BeginWalk
  <2> HIDE DEF pc, oc
  <2>2. e.times = [x \in Action |-> 0]
    BY <1>e DEF Executions
  <2> QED BY <2>1, <2>2, OnceFresh, OnceUpdate
<1>7. ASSUME NEW j \in Job, EnqueueDue(j) PROVE OnceInv'
  <2>1. PICK r : exec' = [exec EXCEPT ![j].rows = @ \ {r}, ![j].dealt = @ \cup {r.id}]
    BY <1>7 DEF EnqueueDue
  <2> DEFINE e == [exec[j] EXCEPT !.rows = @ \ {r}, !.dealt = @ \cup {r.id}]
  <2>2. e.times = exec[j].times /\ e.visited = exec[j].visited
    BY <1>e DEF Executions
  <2>3. Once(e) /\ exec' = [exec EXCEPT ![j] = e]
    BY <1>e, <2>1, <2>2 DEF Once
  <2> QED BY <2>3, OnceUpdate
<1>m. ASSUME NEW j \in Job, exec[j].pc = "walk", NEW n
      PROVE /\ MoveTo(j, n).times = exec[j].times
            /\ MoveTo(j, n).visited = exec[j].visited \cup {Here(j)}
            /\ Ended(MoveTo(j, n), "error").times = exec[j].times
            /\ Ended(MoveTo(j, n), "error").visited = exec[j].visited \cup {Here(j)}
            /\ Ended(MoveTo(j, n), "paused").times = exec[j].times
            /\ Ended(MoveTo(j, n), "paused").visited = exec[j].visited \cup {Here(j)}
  BY <1>e, <1>m DEF MoveTo, Ended, Executions
<1>a. ASSUME NEW j \in Job, exec[j].pc = "walk"
      PROVE /\ AfterError(j).times = exec[j].times
            /\ AfterError(j).visited = exec[j].visited \cup {Here(j)}
  BY <1>a, <1>m DEF AfterError
<1>8. ASSUME NEW j \in Job, WalkEnds(j) PROVE OnceInv'
  <2>1. PICK o : exec' = [exec EXCEPT ![j] = Ended(@, o)]
    BY <1>8 DEF WalkEnds
  <2>2. Ended(exec[j], o).times = exec[j].times /\ Ended(exec[j], o).visited = exec[j].visited
    BY <1>e DEF Ended, Executions
  <2>3. Once(Ended(exec[j], o)) /\ exec' = [exec EXCEPT ![j] = Ended(exec[j], o)]
    BY <1>e, <2>1, <2>2 DEF Once
  <2> QED BY <2>3, OnceUpdate
<1>9. ASSUME NEW j \in Job, ExecuteEffect(j) PROVE OnceInv'
  <2> DEFINE x == Here(j)
             n == Walked(j).succ[x]
  <2>1. exec[j].pc = "walk" /\ x # NoAction /\ x \notin exec[j].visited
    BY <1>9 DEF ExecuteEffect, Executes, At, WalkIsStuck
  <2>2. x \in Action /\ n \in Edge
    BY <2>1, WalkedTyped
  <2>3. exec[j].times[x] = 0
    BY <1>e, <2>1, <2>2 DEF Once, Executions
  <2>4. ASSUME NEW e \in Executions, e.times = exec[j].times,
               e.visited = exec[j].visited \cup {x}
        PROVE Once(e) /\ Once(Counted(e, x))
    <3>1. Once(e)
      BY <1>e, <2>4 DEF Once
    <3>2. Counted(e, x).times = [exec[j].times EXCEPT ![x] = 1] /\ Counted(e, x).visited = e.visited
      BY <2>2, <2>3, <2>4 DEF Counted, Executions
    <3>3. \A y \in Action : Counted(e, x).times[y] = IF y = x THEN 1 ELSE exec[j].times[y]
      BY <1>e, <2>2, <3>2 DEF Executions
    <3> QED BY <1>e, <2>2, <2>4, <3>1, <3>2, <3>3 DEF Once
  <2>5. MoveTo(j, n) \in Executions /\ AfterError(j) \in Executions
    BY <2>1, <2>2, MoveTyped, AfterErrorTyped
  <2>6. Once(Counted(MoveTo(j, n), x)) /\ Once(Counted(AfterError(j), x)) /\ Once(AfterError(j))
    BY <1>a, <1>m, <2>1, <2>4, <2>5
  <2>7. \/ exec' = [exec EXCEPT ![j] = Counted(MoveTo(j, n), x)]
        \/ exec' = [exec EXCEPT ![j] = Counted(AfterError(j), x)]
        \/ exec' = [exec EXCEPT ![j] = AfterError(j)]
    BY <1>9 DEF ExecuteEffect
  <2> QED BY <2>6, <2>7, OnceUpdate
<1>10. ASSUME NEW j \in Job, ExecuteDelay(j) PROVE OnceInv'
  <2> DEFINE x == Here(j)
  <2>1. exec[j].pc = "walk" /\ x # NoAction
    BY <1>10 DEF ExecuteDelay, Executes, At
  <2>2. PICK e \in {MoveTo(j, NoAction), Ended(MoveTo(j, x), "paused"), AfterError(j)} :
            exec' = [exec EXCEPT ![j] = e]
    BY <1>10 DEF ExecuteDelay
  <2>3. e.times = exec[j].times /\ e.visited = exec[j].visited \cup {x}
    BY <1>a, <1>m, <2>1, <2>2
  <2>4. Once(e)
    BY <1>e, <2>3 DEF Once
  <2> QED BY <2>2, <2>4, OnceUpdate
<1>11. ASSUME NEW j \in Job, AfterEventRun(j) PROVE OnceInv'
  <2> DEFINE e == [exec[j] EXCEPT !.pc = "rows", !.rows = @ \ {exec[j].row},
                                  !.dealt = @ \cup {exec[j].row.id},
                                  !.row = NoRow, !.outcome = "none"]
  <2>1. e.times = exec[j].times /\ e.visited = exec[j].visited
    BY <1>e DEF Executions
  <2>2. Once(e) /\ exec' = [exec EXCEPT ![j] = e]
    BY <1>e, <1>11, <2>1 DEF Once, AfterEventRun
  <2> QED BY <2>2, OnceUpdate
<1>12. ASSUME NEW j \in Job, CompleteJob(j) \/ FailAttempt(j) PROVE OnceInv'
  BY <1>2, <1>12 DEF CompleteJob, FailAttempt
<1>13. ASSUME NEW j \in Job, LoadResumed(j) PROVE OnceInv'
  BY <1>5, <1>6, <1>12, <1>13 DEF LoadResumed
<1>14. ASSUME NEW j \in Job, NextRow(j) PROVE OnceInv'
  BY <1>5, <1>6, <1>14 DEF NextRow
<1>15. ASSUME NEW j \in Job, RecordRun(j) PROVE OnceInv'
  BY <1>11, <1>12, <1>15 DEF RecordRun, AfterResumeRun
<1>16. ASSUME NEW j \in Job, JobStep(j) PROVE OnceInv'
  BY <1>3, <1>4, <1>7, <1>8, <1>9, <1>10, <1>12, <1>13, <1>14, <1>15, <1>16
     DEF JobStep, RescueJob, FinishRows
<1>17. CASE UNCHANGED vars
  BY <1>0, <1>17 DEF vars
<1>18. CASE PublishEvent \/ PeriodicTick \/ WorkerCrash \/ Quiescent
  BY <1>0, <1>1, <1>18 DEF PublishEvent, PeriodicTick, WorkerCrash, Quiescent, vars
<1>19. ASSUME NEW a \in Automation, CreateAutomation(a) \/ UpdateAutomation(a) \/ DeleteAutomation(a)
       PROVE OnceInv'
  BY <1>0, <1>19 DEF CreateAutomation, UpdateAutomation, DeleteAutomation, SaveAutomation
<1> QED BY <1>16, <1>17, <1>18, <1>19 DEF Next

(* No action of a workflow takes effect twice in one walk, on whatever cycle
   of success and error edges the validation has let through: the visited map
   of RunActionGraphFrom. *)
THEOREM EffectsOncePerWalk == Spec => []NoEffectTwiceInAWalk
<1>1. Init => OnceInv
  BY OnceIdle DEF Init, OnceInv
<1>2. OnceInv => NoEffectTwiceInAWalk
  BY DEF OnceInv, Once, NoEffectTwiceInAWalk
<1> QED BY <1>1, <1>2, InitType, TypeStep, OnceStep, PTL DEF Spec

---------------------------------------------------------------------------
(* Provenance.  A job that waits has its own id as event, or, as a resume, an
   event whose target admits the automation it resumes; an execution holds
   rows that the job's event admits. *)

Admits(k, a) == job[k].automation \in {NoAutomation, a}

QueueRow(i) ==
    /\ job[i].state = "none" =>
        /\ job[i] = Unused(i)
        /\ \A a \in Automation, x \in Action : effect[i][a][x] = 0
    /\ job[i].kind # "resume" => job[i].event = i
    /\ job[i].kind = "resume" =>
        job[job[i].event].state # "none" /\ Admits(job[i].event, job[i].automation)

QueueInv == \A i \in Job : QueueRow(i)

Matches(s, fired) ==
    /\ s = NoSchedule <=> fired = NoSchedule
    /\ s # NoSchedule => MatchTriggerParams(s, fired)

RowAdmitted(j, r) ==
    /\ r.enabled
    /\ job[j].kind = "event" => Matches(r.sched, job[j].sched) /\ Admits(j, r.id)

Held(j) ==
    /\ \A r \in exec[j].rows : RowAdmitted(j, r)
    /\ exec[j].pc \in {"walk", "record"} =>
        /\ job[j].kind # "tick"
        /\ job[j].kind = "event" => exec[j].row \in exec[j].rows
        /\ job[j].kind = "resume" => exec[j].row.id = job[j].automation
    /\ exec[j].pc = "walk" => exec[j].row.enabled
    /\ exec[j].pc = "load" => exec[j].dealt = {}
    /\ exec[j].pc = "rows" => job[j].kind # "resume"
    /\ job[j].kind = "event" /\ exec[j].pc \in {"rows", "walk", "record"} =>
        exec[j].listed = exec[j].dealt \cup {r.id : r \in exec[j].rows}

HeldInv == \A j \in Job : Held(j)

ScopeInv == QueueInv /\ HeldInv /\ TargetedEventTouchesOnlyTarget

SameWork(i) ==
    /\ job'[i] = [job[i] EXCEPT !.state = job'[i].state, !.attempt = job'[i].attempt]
    /\ job'[i].state = "none" <=> job[i].state = "none"
    /\ job[i].state = "none" => job'[i] = job[i]

SameArgs(i) ==
    job'[i].kind = job[i].kind /\ job'[i].event = job[i].event
    /\ job'[i].automation = job[i].automation /\ job'[i].sched = job[i].sched

LEMMA SameWorkArgs ==
  ASSUME TypeInv, NEW i \in Job, SameWork(i)
  PROVE SameArgs(i)
<1>1. job[i] \in JobRows
  BY DEF TypeInv, TypeOK, Jobs
<1> QED BY <1>1 DEF SameWork, SameArgs, JobRows

(* Steps that only move jobs along leave the queue's provenance alone. *)
LEMMA QueueKept ==
  ASSUME TypeInv, ScopeInv, effect' = effect, \A i \in Job : SameWork(i)
  PROVE QueueInv' /\ TargetedEventTouchesOnlyTarget'
<1>1. \A i \in Job : SameArgs(i) /\ job[i].event \in Job
  BY SameWorkArgs DEF TypeInv, TypeOK, Jobs, JobRows
<1>2. ASSUME NEW i \in Job PROVE QueueRow(i)'
  <2>1. QueueRow(i)
    BY DEF ScopeInv, QueueInv
  <2>2. Unused(i)' = Unused(i)
    BY DEF Unused
  <2>3. job'[i].state = "none" => job[i].state = "none" /\ job'[i] = job[i]
    BY DEF SameWork
  <2>4. job'[i].kind = job[i].kind /\ job'[i].event = job[i].event /\ job'[i].automation = job[i].automation
    BY <1>1 DEF SameArgs
  <2>5. job'[job[i].event].automation = job[job[i].event].automation
    BY <1>1 DEF SameArgs
  <2>6. job[job[i].event].state # "none" => job'[job[i].event].state # "none"
    BY <1>1 DEF SameWork
  <2> QED BY <2>1, <2>2, <2>3, <2>4, <2>5, <2>6 DEF QueueRow, Admits
<1>3. TargetedEventTouchesOnlyTarget'
  BY <1>1 DEF ScopeInv, TargetedEventTouchesOnlyTarget, SameArgs
<1> QED BY <1>2, <1>3 DEF QueueInv

LEMMA QueueInsert ==
  ASSUME TypeInv, ScopeInv, effect' = effect, NEW k \in Job, NextJobID(k), NEW r \in Jobs,
         r.state = "available", job' = [job EXCEPT ![k] = r],
         r.kind # "resume" => r.event = k,
         r.kind = "resume" => job[r.event].state # "none" /\ Admits(r.event, r.automation)
  PROVE QueueInv' /\ TargetedEventTouchesOnlyTarget'
<1>1. job[k].state = "none" /\ job'[k] = r /\ r.event \in Job
  BY DEF NextJobID, TypeInv, TypeOK, Jobs, JobRows
<1>2. \A i \in Job \ {k} : job'[i] = job[i]
  BY DEF TypeInv, TypeOK
<1>3. \A i \in Job : job[i].event \in Job
  BY DEF TypeInv, TypeOK, Jobs, JobRows
<1>4. ASSUME NEW i \in Job PROVE QueueRow(i)'
  <2>1. CASE i = k
    <3>1. r.kind = "resume" => job'[r.event] = job[r.event]
      BY <1>1, <1>2
    <3> QED BY <1>1, <2>1, <3>1 DEF QueueRow, Admits
  <2>2. CASE i # k
    <3>1. QueueRow(i) /\ job'[i] = job[i]
      BY <1>2, <2>2 DEF ScopeInv, QueueInv
    <3>2. job[i].kind = "resume" => job'[job[i].event] = job[job[i].event]
      BY <1>1, <1>2, <1>3, <3>1 DEF QueueRow
    <3>3. Unused(i)' = Unused(i)
      BY DEF Unused
    <3> QED BY <3>1, <3>2, <3>3 DEF QueueRow, Admits
  <2> QED BY <2>1, <2>2
<1>5. TargetedEventTouchesOnlyTarget'
  <2>1. \A a \in Automation, x \in Action : effect[k][a][x] = 0
    BY <1>1 DEF ScopeInv, QueueInv, QueueRow
  <2> QED BY <1>2, <2>1 DEF ScopeInv, TargetedEventTouchesOnlyTarget
<1> QED BY <1>4, <1>5 DEF QueueInv

(* What a job holds is unaffected by steps of other jobs. *)
LEMMA HeldIdle == ASSUME NEW j \in Job, exec'[j] = Idle PROVE Held(j)'
BY DEF Held, Idle

LEMMA HeldKept ==
  ASSUME TypeInv, ScopeInv, NEW j \in Job, exec'[j] = exec[j],
         job[j].state = "running" => SameArgs(j)
  PROVE Held(j)'
<1>1. CASE job[j].state = "running"
  <2>1. Held(j) /\ SameArgs(j)
    BY <1>1 DEF ScopeInv, HeldInv
  <2>2. ASSUME NEW r \in exec[j].rows PROVE RowAdmitted(j, r)'
    <3>1. RowAdmitted(j, r)
      BY <2>1 DEF Held
    <3> QED BY <2>1, <3>1 DEF RowAdmitted, Admits, SameArgs
  <2>3. \A r \in exec'[j].rows : RowAdmitted(j, r)'
    BY <2>2
  <2>4. exec'[j] = exec[j] /\ job'[j].kind = job[j].kind /\ job'[j].automation = job[j].automation
    BY <2>1 DEF SameArgs
  <2> QED BY <2>1, <2>3, <2>4 DEF Held
<1>2. CASE job[j].state # "running"
  BY <1>2, HeldIdle DEF TypeInv, Evaluating
<1> QED BY <1>1, <1>2

LEMMA HeldOthers ==
  ASSUME TypeInv, ScopeInv, NEW j \in Job, NEW e \in Executions, exec' = [exec EXCEPT ![j] = e],
         \A i \in Job : job[i].state = "running" => SameArgs(i)
  PROVE /\ \A i \in Job \ {j} : Held(i)'
        /\ exec'[j] = e
<1>1. \A i \in Job \ {j} : exec'[i] = exec[i]
  BY DEF TypeInv, TypeOK
<1> QED BY <1>1, HeldKept DEF TypeInv, TypeOK

LEMMA SettleKeepsScope ==
  ASSUME TypeInv, ScopeInv, NEW j \in Job, CompleteJob(j) \/ FailAttempt(j), effect' = effect,
         job[j].state # "none"
  PROVE ScopeInv'
<1>1. PICK s \in {"completed", "available", "discarded"} : job' = [job EXCEPT ![j].state = s]
  BY DEF CompleteJob, FailAttempt
<1>2. exec' = [exec EXCEPT ![j] = Idle]
  BY DEF CompleteJob, FailAttempt
<1>3. ASSUME NEW i \in Job PROVE SameWork(i)
  <2>1. job[i] \in JobRows
    BY DEF TypeInv, TypeOK, Jobs
  <2>2. CASE i = j
    <3>1. job'[i] = [job[i] EXCEPT !.state = s]
      BY <1>1, <2>2 DEF TypeInv, TypeOK
    <3> QED BY <2>1, <2>2, <3>1 DEF SameWork, JobRows
  <2>3. CASE i # j
    BY <1>1, <2>1, <2>3 DEF SameWork, JobRows, TypeInv, TypeOK
  <2> QED BY <2>2, <2>3
<1>4. \A i \in Job : SameArgs(i)
  BY <1>3, SameWorkArgs
<1>5. QueueInv' /\ TargetedEventTouchesOnlyTarget'
  BY <1>3, QueueKept
<1>6. HeldInv'
  BY <1>2, <1>4, IdleTyped, HeldOthers, HeldIdle DEF HeldInv
<1> QED BY <1>5, <1>6 DEF ScopeInv

LEMMA HandlerKeepsScope ==
  ASSUME TypeInv, ScopeInv, NEW j \in Job, NEW e \in Executions, exec' = [exec EXCEPT ![j] = e],
         job' = job, effect' = effect, exec'[j] = e => Held(j)'
  PROVE ScopeInv'
<1>1. \A i \in Job : SameArgs(i)
  BY DEF SameArgs
<1>2. HeldInv'
  BY <1>1, HeldOthers DEF HeldInv
<1>3. QueueInv'
  BY DEF ScopeInv, QueueInv, QueueRow, Unused, Admits
<1>4. TargetedEventTouchesOnlyTarget'
  BY DEF ScopeInv, TargetedEventTouchesOnlyTarget
<1> QED BY <1>2, <1>3, <1>4 DEF ScopeInv

LEMMA InsertKeepsArgs ==
  ASSUME TypeInv, NEW k \in Job, NextJobID(k), NEW r, job' = [job EXCEPT ![k] = r]
  PROVE \A i \in Job : job[i].state # "none" => job'[i] = job[i] /\ SameArgs(i)
BY DEF TypeInv, TypeOK, NextJobID, SameArgs

LEMMA RecordNextKeepsScope ==
  ASSUME TypeInv, ScopeInv, NEW j \in Job, NEW r \in Row, NEW o \in Outcome, RecordNext(j, r, o),
         job' = job, effect' = effect, job[j].state = "running",
         \/ job[j].kind = "event" /\ exec[j].pc = "rows" /\ r \in exec[j].rows
         \/ job[j].kind = "resume" /\ r.id = job[j].automation
  PROVE ScopeInv'
<1> DEFINE e == [exec[j] EXCEPT !.pc = "record", !.row = r, !.outcome = o]
<1>0. exec[j] \in Executions
  BY DEF TypeInv, TypeOK
<1>1. /\ e \in Executions /\ exec' = [exec EXCEPT ![j] = e] /\ e.row = r /\ e.rows = exec[j].rows
      /\ e.pc = "record" /\ e.dealt = exec[j].dealt /\ e.listed = exec[j].listed
  BY <1>0, ZenonT(240) DEF Executions, RecordNext
<1> HIDE DEF e
<1>2. Held(j) /\ job'[j] = job[j]
  BY DEF ScopeInv, HeldInv
<1>3. exec'[j] = e => Held(j)'
  BY <1>1, <1>2 DEF Held, RowAdmitted, Admits
<1> QED BY <1>1, <1>3, HandlerKeepsScope

LEMMA BeginWalkKeepsScope ==
  ASSUME TypeInv, ScopeInv, NEW j \in Job, NEW r \in Row, NEW n \in Edge, BeginWalk(j, r, n),
         job' = job, effect' = effect, job[j].state = "running", r.enabled,
         \/ job[j].kind = "event" /\ exec[j].pc = "rows" /\ r \in exec[j].rows
         \/ job[j].kind = "resume" /\ r.id = job[j].automation
  PROVE ScopeInv'
<1> DEFINE pc == IF n \in r.graph.nodes THEN "walk" ELSE "record"
           oc == IF n \in r.graph.nodes THEN "none" ELSE "error"
           e == [exec[j] EXCEPT !.pc = pc, !.outcome = oc, !.row = r, !.cur = n,
                                !.visited = {}, !.steps = 0, !.times = [x \in Action |-> 0]]
<1>0. exec[j] \in Executions /\ pc \in {"walk", "record"} /\ oc \in Outcome
  BY DEF TypeInv, TypeOK, Outcome
<1>a. exec' = [exec EXCEPT ![j] = e]
  BY DEF BeginWalk
<1> HIDE DEF pc, oc
<1>b. {} \in SUBSET Action /\ 0 \in Nat /\ [x \in Action |-> 0] \in [Action -> Nat]
  OBVIOUS
<1>1. /\ e \in Executions /\ e.row = r /\ e.rows = exec[j].rows
      /\ e.pc \in {"walk", "record"} /\ e.dealt = exec[j].dealt /\ e.listed = exec[j].listed
  BY <1>0, <1>b DEF Executions
<1> HIDE DEF e
<1>2. Held(j) /\ job'[j] = job[j]
  BY DEF ScopeInv, HeldInv
<1>3. exec'[j] = e => Held(j)'
  BY <1>1, <1>2 DEF Held, RowAdmitted, Admits
<1> QED BY <1>1, <1>a, <1>3, HandlerKeepsScope

(* The event behind a walk has been published, for this automation or for all. *)
LEMMA WalkDescends ==
  ASSUME TypeInv, ScopeInv, NEW j \in Job, exec[j].pc = "walk", job[j].state = "running"
  PROVE job[job[j].event].state # "none" /\ Admits(job[j].event, exec[j].row.id)
<1>1. Held(j) /\ QueueRow(j) /\ job[j].kind \in {"event", "resume", "tick"}
  BY DEF ScopeInv, HeldInv, QueueInv, TypeInv, TypeOK, Jobs, JobRows
<1>2. job[j].kind # "tick"
  BY <1>1 DEF Held
<1>3. CASE job[j].kind = "event"
  <2>1. job[j].event = j
    BY <1>1, <1>3 DEF QueueRow
  <2>2. RowAdmitted(j, exec[j].row)
    BY <1>1, <1>3 DEF Held
  <2> QED BY <1>3, <2>1, <2>2 DEF RowAdmitted
<1>4. CASE job[j].kind = "resume"
  <2>1. exec[j].row.id = job[j].automation
    BY <1>1, <1>4 DEF Held
  <2> QED BY <1>1, <1>4, <2>1 DEF QueueRow
<1> QED BY <1>1, <1>2, <1>3, <1>4

LEMMA ScopeStep == TypeInv /\ ScopeInv /\ [Next]_vars => ScopeInv'
<1> SUFFICES ASSUME TypeInv, ScopeInv, [Next]_vars PROVE ScopeInv'
  OBVIOUS
<1>e. \A i \in Job : exec[i] \in Executions /\ job[i] \in Jobs /\ job[i] \in JobRows /\ Held(i) /\ QueueRow(i)
  BY DEF TypeInv, TypeOK, ScopeInv, HeldInv, QueueInv, Jobs
<1>r. \A i \in Job : exec[i].pc \in {"walk", "record"} => exec[i].row \in Row
  BY DEF TypeInv, Evaluating
<1>0. ASSUME exec' = exec, job' = job, effect' = effect PROVE ScopeInv'
  BY <1>0 DEF ScopeInv, HeldInv, Held, RowAdmitted, QueueInv, QueueRow, Unused, Admits,
              TargetedEventTouchesOnlyTarget
<1>1. ASSUME NEW k \in Job, NEW r \in Jobs, NextJobID(k), job' = [job EXCEPT ![k] = r],
             r.state = "available", r.kind # "resume", r.event = k, exec' = exec, effect' = effect
      PROVE ScopeInv'
  <2>1. QueueInv' /\ TargetedEventTouchesOnlyTarget'
    BY <1>1, QueueInsert
  <2>2. \A i \in Job : job[i].state = "running" => SameArgs(i)
    BY <1>1, InsertKeepsArgs
  <2> QED BY <1>1, <2>1, <2>2, HeldKept DEF ScopeInv, HeldInv
<1>2. ASSUME PublishEvent PROVE ScopeInv'
  <2>1. PICK k \in Job : NextJobID(k) /\ job' = [job EXCEPT ![k] = EventJob(k, NoAutomation, NoSchedule)]
    BY <1>2 DEF PublishEvent
  <2> DEFINE r == EventJob(k, NoAutomation, NoSchedule)
  <2>2. r \in Jobs /\ r.state = "available" /\ r.kind # "resume" /\ r.event = k
    BY EventJobTyped DEF EventJob, Unused, Target
  <2> HIDE DEF r
  <2> QED BY <1>1, <1>2, <2>1, <2>2 DEF PublishEvent, r
<1>3. ASSUME PeriodicTick PROVE ScopeInv'
  <2>1. PICK k \in Job, d \in SUBSET Firing : NextJobID(k) /\ job' = [job EXCEPT ![k] = TickJob(k, d)]
    BY <1>3 DEF PeriodicTick
  <2> DEFINE r == TickJob(k, d)
  <2>2. r \in Jobs /\ r.state = "available" /\ r.kind # "resume" /\ r.event = k
    BY TickJobTyped DEF TickJob, Unused
  <2> HIDE DEF r
  <2> QED BY <1>1, <1>3, <2>1, <2>2 DEF PeriodicTick, r
<1>4. ASSUME WorkerCrash PROVE ScopeInv'
  <2>1. ASSUME NEW i \in Job PROVE SameWork(i)
    BY <1>4, <1>e DEF WorkerCrash, SameWork, JobRows
  <2>2. effect' = effect /\ \A i \in Job : exec'[i] = Idle
    BY <1>4 DEF WorkerCrash
  <2> QED BY <2>1, <2>2, QueueKept, HeldIdle DEF ScopeInv, HeldInv
<1>5. ASSUME NEW a \in Automation, CreateAutomation(a) \/ UpdateAutomation(a) \/ DeleteAutomation(a)
      PROVE ScopeInv'
  BY <1>0, <1>5 DEF CreateAutomation, UpdateAutomation, DeleteAutomation, SaveAutomation
<1>6. ASSUME NEW j \in Job, StartJob(j) PROVE ScopeInv'
  <2> DEFINE e == [Idle EXCEPT !.pc = "load"]
  <2>1. exec' = [exec EXCEPT ![j] = e] /\ effect' = effect
    BY <1>6 DEF StartJob
  <2>2. ASSUME NEW i \in Job PROVE SameWork(i)
    <3>1. job \in [Job -> Jobs] /\ job[i] \in JobRows
      BY <1>e DEF TypeInv, TypeOK
    <3>2. /\ job[j].state = "available"
          /\ job' = [job EXCEPT ![j].state = "running", ![j].attempt = @ + 1]
      BY <1>6 DEF StartJob
    <3>3. CASE i = j
      <4>1. job'[i] = [job[i] EXCEPT !.state = "running", !.attempt = @ + 1]
        BY <3>1, <3>2, <3>3
      <4> QED BY <3>1, <3>2, <3>3, <4>1 DEF SameWork, JobRows
    <3>4. CASE i # j
      <4>1. job'[i] = job[i]
        BY <3>1, <3>2, <3>4
      <4> QED BY <3>1, <4>1 DEF SameWork, JobRows
    <3> QED BY <3>3, <3>4
  <2>3. \A i \in Job : SameArgs(i)
    BY <2>2, SameWorkArgs
  <2>4. e \in Executions /\ e.rows = {} /\ e.pc = "load" /\ e.dealt = {}
    BY IdleTyped DEF Executions, Idle
  <2> HIDE DEF e
  <2>5. exec'[j] = e /\ \A i \in Job \ {j} : Held(i)'
    BY <2>1, <2>3, <2>4, HeldOthers
  <2>6. Held(j)'
    BY <2>4, <2>5 DEF Held
  <2> QED BY <2>1, <2>2, <2>5, <2>6, QueueKept DEF ScopeInv, HeldInv
<1>7. ASSUME NEW j \in Job, CompleteJob(j) \/ FailAttempt(j), effect' = effect, job[j].state # "none"
      PROVE ScopeInv'
  BY <1>7, SettleKeepsScope
<1>8. ASSUME NEW j \in Job, LoadRows(j) PROVE ScopeInv'
  <2> DEFINE found == IF job[j].kind = "event" THEN RowsForEvent(j) ELSE RowsForTick(j)
             ids == {r.id : r \in found}
             e == [exec[j] EXCEPT !.pc = "rows", !.rows = found, !.listed = ids]
  <2>1. CASE FailAttempt(j)
    BY <1>7, <1>8, <2>1 DEF LoadRows, At
  <2>2. CASE exec' = [exec EXCEPT ![j] = e] /\ job' = job
    <3>1. found \in SUBSET Row /\ \A r \in found : RowAdmitted(j, r)
      <4>1. \A r \in EnabledRows : r \in Row /\ r.enabled
        BY RowOfTyped DEF EnabledRows, RowOf, TypeInv, TypeOK, AutomationRows
      <4>2. \A r \in found : r \in EnabledRows
        BY DEF RowsForEvent, RowsOfTrigger, RowsForTick
      <4>3. job[j].kind = "event" => \A r \in found : Matches(r.sched, job[j].sched) /\ Admits(j, r.id)
        BY DEF RowsForEvent, RowsOfTrigger, Matches, Admits
      <4> QED BY <4>1, <4>2, <4>3 DEF RowAdmitted
    <3>2. exec[j].dealt = {} /\ job[j].kind \in {"event", "tick"}
      BY <1>8, <1>e DEF LoadRows, At, Held
    <3> HIDE DEF found
    <3>3. ids \in SUBSET Automation
      BY <3>1 DEF Row
    <3>4. /\ e \in Executions /\ e.rows = found /\ e.pc = "rows"
          /\ e.listed = e.dealt \cup {r.id : r \in e.rows}
      BY <1>e, <3>1, <3>2, <3>3 DEF Executions
    <3> HIDE DEF e
    <3>5. exec'[j] = e => Held(j)'
      BY <2>2, <3>1, <3>2, <3>4 DEF Held, RowAdmitted, Admits
    <3> QED BY <1>8, <2>2, <3>4, <3>5, HandlerKeepsScope DEF LoadRows
  <2> QED BY <1>8, <2>1, <2>2 DEF LoadRows
<1>9. ASSUME NEW j \in Job, LoadResumed(j) PROVE ScopeInv'
  <2> DEFINE a == job[j].automation
  <2>1. job[j].kind = "resume" /\ job[j].state = "running" /\ effect' = effect
    BY <1>9 DEF LoadResumed, At
  <2>2. a \in Automation /\ job[j].next \in Edge
    BY <1>e, <2>1 DEF Jobs, JobRows
  <2>3. RowOf(a) \in Row /\ RowOf(a).id = a /\ "skipped" \in Outcome /\ "error" \in Outcome
    BY <2>2, RowOfTyped DEF Outcome, TypeInv, RowOf
  <2>4. CASE FailAttempt(j)
    BY <1>7, <2>1, <2>4
  <2>5. CASE job' = job /\ \/ RecordNext(j, RowOf(a), "skipped")
                           \/ RecordNext(j, RowOf(a), "error")
    BY <2>1, <2>3, <2>5, RecordNextKeepsScope
  <2>6. CASE job' = job /\ automation[a].enabled /\ BeginWalk(j, RowOf(a), job[j].next)
    <3>1. RowOf(a).enabled
      BY <2>6 DEF RowOf
    <3> QED BY <2>1, <2>2, <2>3, <2>6, <3>1, BeginWalkKeepsScope
  <2> QED BY <1>9, <2>4, <2>5, <2>6 DEF LoadResumed
<1>10. ASSUME NEW j \in Job, NextRow(j) PROVE ScopeInv'
  <2>1. PICK r \in exec[j].rows :
            RecordNext(j, r, "skipped") \/ RecordNext(j, r, "error") \/ BeginWalk(j, r, r.graph.entry)
    BY <1>10 DEF NextRow
  <2>2. /\ r \in Row /\ r.enabled /\ job[j].state = "running" /\ job' = job /\ effect' = effect
        /\ job[j].kind = "event" /\ exec[j].pc = "rows"
    BY <1>10, <1>e DEF Executions, NextRow, At, Held, RowAdmitted
  <2>3. r.graph.entry \in Edge /\ "skipped" \in Outcome /\ "error" \in Outcome
    BY <2>2, GraphTyped DEF Row, ActionGraphs, Edge, Outcome
  <2> QED BY <2>1, <2>2, <2>3, RecordNextKeepsScope, BeginWalkKeepsScope
<1>11. ASSUME NEW j \in Job, EnqueueDue(j) PROVE ScopeInv'
  <2>1. PICK r \in exec[j].rows :
            /\ exec' = [exec EXCEPT ![j].rows = @ \ {r}, ![j].dealt = @ \cup {r.id}]
            /\ \/ \E k \in Job : NextJobID(k) /\ job' = [job EXCEPT ![k] = EventJob(k, r.id, Effective(r.sched))]
               \/ UNCHANGED job
    BY <1>11 DEF EnqueueDue
  <2> DEFINE e == [exec[j] EXCEPT !.rows = @ \ {r}, !.dealt = @ \cup {r.id}]
  <2>2. /\ r \in Row /\ job[j].state = "running" /\ job[j].kind = "tick" /\ exec[j].pc = "rows"
        /\ effect' = effect
    BY <1>11, <1>e DEF Executions, EnqueueDue, At
  <2>3. e \in Executions /\ e.pc = "rows" /\ e.rows \subseteq exec[j].rows
    BY <1>e, <2>2, ZenonT(240) DEF Executions, Row
  <2>4. exec' = [exec EXCEPT ![j] = e]
    BY <2>1
  <2> HIDE DEF e
  <2>5. CASE UNCHANGED job
    <3>1. exec'[j] = e => Held(j)'
      BY <1>e, <2>2, <2>3, <2>5 DEF Held, RowAdmitted, Admits
    <3> QED BY <2>2, <2>3, <2>4, <2>5, <3>1, HandlerKeepsScope
  <2>6. CASE \E k \in Job : NextJobID(k) /\ job' = [job EXCEPT ![k] = EventJob(k, r.id, Effective(r.sched))]
    <3>1. PICK k \in Job : NextJobID(k) /\ job' = [job EXCEPT ![k] = EventJob(k, r.id, Effective(r.sched))]
      BY <2>6
    <3> DEFINE q == EventJob(k, r.id, Effective(r.sched))
    <3>2. q \in Jobs /\ q.state = "available" /\ q.kind # "resume" /\ q.event = k
      BY <2>2, EventJobTyped, EffectiveTyped DEF EventJob, Unused, Target, Row
    <3> HIDE DEF q
    <3>3. job' = [job EXCEPT ![k] = q]
      BY <3>1 DEF q
    <3>4. QueueInv' /\ TargetedEventTouchesOnlyTarget'
      BY <2>2, <3>1, <3>2, <3>3, QueueInsert
    <3>5. \A i \in Job : job[i].state = "running" => job'[i] = job[i] /\ SameArgs(i)
      BY <3>1, <3>3, InsertKeepsArgs
    <3>6. exec'[j] = e /\ \A i \in Job \ {j} : Held(i)'
      BY <2>3, <2>4, <3>5, HeldOthers
    <3>7. Held(j)'
      BY <1>e, <2>2, <2>3, <3>5, <3>6 DEF Held, RowAdmitted
    <3> QED BY <3>4, <3>6, <3>7 DEF ScopeInv, HeldInv
  <2> QED BY <2>1, <2>5, <2>6
<1>12. ASSUME NEW j \in Job, exec[j].pc = "walk", job[j].state = "running", NEW e \in Executions,
              exec' = [exec EXCEPT ![j] = e], e.row = exec[j].row, e.rows = exec[j].rows,
              e.dealt = exec[j].dealt, e.listed = exec[j].listed, e.pc \in {"walk", "record"},
              \A i \in Job : job[i].state = "running" => SameArgs(i)
       PROVE HeldInv'
  <2>1. exec'[j] = e /\ \A i \in Job \ {j} : Held(i)'
    BY <1>12, HeldOthers
  <2>2. Held(j)'
    BY <1>12, <1>e, <2>1 DEF Held, RowAdmitted, Admits, SameArgs
  <2> QED BY <2>1, <2>2 DEF HeldInv
<1>m. ASSUME NEW j \in Job, exec[j].pc = "walk", NEW n, NEW o
      PROVE LET f == MoveTo(j, n)
                g == Ended(MoveTo(j, n), o)
            IN  /\ f.row = exec[j].row /\ f.rows = exec[j].rows /\ f.dealt = exec[j].dealt
                /\ f.listed = exec[j].listed /\ f.pc = "walk"
                /\ g.row = exec[j].row /\ g.rows = exec[j].rows /\ g.dealt = exec[j].dealt
                /\ g.listed = exec[j].listed /\ g.pc = "record"
  BY <1>e, <1>m DEF MoveTo, Ended, Executions
<1>a. ASSUME NEW j \in Job, exec[j].pc = "walk"
      PROVE LET f == AfterError(j)
            IN  /\ f.row = exec[j].row /\ f.rows = exec[j].rows /\ f.dealt = exec[j].dealt
                /\ f.listed = exec[j].listed /\ f.pc \in {"walk", "record"}
  BY <1>a, <1>m DEF AfterError
<1>13. ASSUME NEW j \in Job, WalkEnds(j) PROVE ScopeInv'
  <2>1. PICK o \in {"success", "error"} : exec' = [exec EXCEPT ![j] = Ended(@, o)]
    BY <1>13 DEF WalkEnds
  <2> DEFINE e == Ended(exec[j], o)
  <2>2. o \in Outcome /\ exec' = [exec EXCEPT ![j] = e] /\ exec[j].pc = "walk" /\ job[j].state = "running"
    BY <1>13, <2>1 DEF Outcome, WalkEnds, At
  <2>3. /\ e.row = exec[j].row /\ e.rows = exec[j].rows /\ e.dealt = exec[j].dealt
        /\ e.listed = exec[j].listed /\ e.pc = "record" /\ e \in Executions
    BY <1>e, <2>2, ZenonT(60) DEF Ended, Executions
  <2> HIDE DEF e
  <2>4. job' = job /\ effect' = effect
    BY <1>13 DEF WalkEnds
  <2>5. HeldInv'
    BY <1>12, <2>2, <2>3, <2>4 DEF SameArgs
  <2>6. Held(j)'
    BY <2>5 DEF HeldInv
  <2> QED BY <2>2, <2>3, <2>4, <2>6, HandlerKeepsScope
<1>14. ASSUME NEW j \in Job, ExecuteEffect(j) PROVE ScopeInv'
  <2> DEFINE x == Here(j)
             n == Walked(j).succ[x]
             a == exec[j].row.id
             ev == job[j].event
  <2>1. exec[j].pc = "walk" /\ x # NoAction /\ job[j].state = "running" /\ job' = job
    BY <1>14 DEF ExecuteEffect, Executes, At
  <2>2. x \in Action /\ n \in Edge /\ a \in Automation /\ ev \in Job
    BY <1>e, <2>1, WalkedTyped DEF JobRows
  <2>3. PICK e \in {Counted(MoveTo(j, n), x), Counted(AfterError(j), x), AfterError(j)} :
            exec' = [exec EXCEPT ![j] = e]
    BY <1>14 DEF ExecuteEffect
  <2>4. /\ e \in Executions /\ e.row = exec[j].row /\ e.rows = exec[j].rows /\ e.dealt = exec[j].dealt
        /\ e.listed = exec[j].listed /\ e.pc \in {"walk", "record"}
    <3>1. MoveTo(j, n) \in Executions /\ AfterError(j) \in Executions
      BY <2>1, <2>2, MoveTyped, AfterErrorTyped
    <3>2. ASSUME NEW f \in Executions
          PROVE LET g == Counted(f, x)
                IN  /\ g \in Executions /\ g.row = f.row /\ g.rows = f.rows /\ g.dealt = f.dealt
                    /\ g.listed = f.listed /\ g.pc = f.pc
      <4>1. Counted(f, x) \in Executions
        BY <2>2, CountedTyped
      <4> QED BY <4>1 DEF Counted, Executions
    <3> QED BY <1>a, <1>m, <2>1, <2>3, <3>1, <3>2
  <2>5. HeldInv'
    BY <1>12, <2>1, <2>3, <2>4 DEF SameArgs
  <2>6. job[ev].state # "none" /\ Admits(ev, a)
    BY <2>1, WalkDescends
  <2>7. effect' = effect \/ effect' = [effect EXCEPT ![ev][a][x] = @ + 1]
    BY <1>14 DEF ExecuteEffect
  <2>8. \A i \in Job, b \in Automation, y \in Action :
            i # ev \/ b # a => effect'[i][b][y] = effect[i][b][y]
    <3> SUFFICES ASSUME NEW i \in Job, NEW b \in Automation, NEW y \in Action, i # ev \/ b # a
                 PROVE effect'[i][b][y] = effect[i][b][y]
      OBVIOUS
    <3>1. effect \in [Job -> [Automation -> [Action -> Nat]]]
      BY DEF TypeInv, TypeOK
    <3> HIDE DEF x, a, ev
    <3>2. CASE i # ev
      BY <2>7, <3>1, <3>2
    <3>3. CASE i = ev /\ b # a
      BY <2>7, <3>1, <3>3
    <3> QED BY <3>2, <3>3
  <2>9. QueueInv'
    BY <2>1, <2>6, <2>8 DEF ScopeInv, QueueInv, QueueRow, Unused, Admits
  <2>10. TargetedEventTouchesOnlyTarget'
    BY <2>1, <2>6, <2>8 DEF ScopeInv, TargetedEventTouchesOnlyTarget, Admits
  <2> QED BY <2>5, <2>9, <2>10 DEF ScopeInv
<1>15. ASSUME NEW j \in Job, ExecuteDelay(j) PROVE ScopeInv'
  <2> DEFINE x == Here(j)
             n == Walked(j).succ[x]
             a == exec[j].row.id
  <2>1. exec[j].pc = "walk" /\ x # NoAction /\ job[j].state = "running" /\ effect' = effect
    BY <1>15 DEF ExecuteDelay, Executes, At
  <2>2. x \in Action /\ n \in Edge /\ a \in Automation /\ x \in Edge /\ NoAction \in Edge /\ "paused" \in Outcome
    BY <2>1, WalkedTyped DEF Edge, Outcome
  <2>3. PICK e \in {MoveTo(j, NoAction), Ended(MoveTo(j, x), "paused"), AfterError(j)} :
            exec' = [exec EXCEPT ![j] = e]
    BY <1>15 DEF ExecuteDelay
  <2>4. /\ e \in Executions /\ e.row = exec[j].row /\ e.rows = exec[j].rows /\ e.dealt = exec[j].dealt
        /\ e.listed = exec[j].listed /\ e.pc \in {"walk", "record"}
    BY <1>a, <1>m, <2>1, <2>2, <2>3, MoveTyped, AfterErrorTyped, EndedTyped
  <2>5. CASE job' = job
    <3>1. HeldInv'
      BY <1>12, <2>1, <2>3, <2>4, <2>5 DEF SameArgs
    <3>2. Held(j)'
      BY <3>1 DEF HeldInv
    <3> QED BY <2>1, <2>3, <2>4, <2>5, <3>2, HandlerKeepsScope
  <2>6. CASE \E k \in Job : NextJobID(k) /\ job' = [job EXCEPT ![k] = ResumeJob(k, j, a, n)]
    <3>1. PICK k \in Job : NextJobID(k) /\ job' = [job EXCEPT ![k] = ResumeJob(k, j, a, n)]
      BY <2>6
    <3> DEFINE q == ResumeJob(k, j, a, n)
    <3>2. /\ q \in Jobs /\ q.state = "available" /\ q.kind = "resume"
          /\ q.event = job[j].event /\ q.automation = a
      BY <1>e, <2>2, ResumeJobTyped DEF ResumeJob, Unused, TypeInv
    <3>3. job[q.event].state # "none" /\ Admits(q.event, q.automation)
      BY <2>1, <3>2, WalkDescends
    <3> HIDE DEF q
    <3>4. job' = [job EXCEPT ![k] = q]
      BY <3>1 DEF q
    <3>5. QueueInv' /\ TargetedEventTouchesOnlyTarget'
      BY <2>1, <3>1, <3>2, <3>3, <3>4, QueueInsert
    <3>6. \A i \in Job : job[i].state = "running" => SameArgs(i)
      BY <3>1, <3>4, InsertKeepsArgs
    <3>7. HeldInv'
      BY <1>12, <2>1, <2>3, <2>4, <3>6
    <3> QED BY <3>5, <3>7 DEF ScopeInv
  <2> QED BY <1>15, <2>5, <2>6 DEF ExecuteDelay
<1>16. ASSUME NEW j \in Job, RecordRun(j) PROVE ScopeInv'
  <2>1. effect' = effect /\ job[j].state = "running" /\ exec[j].pc = "record"
    BY <1>16 DEF RecordRun, At
  <2>2. CASE CompleteJob(j) \/ FailAttempt(j)
    BY <1>7, <2>1, <2>2
  <2>3. CASE AfterEventRun(j) /\ job[j].kind = "event"
    <3> DEFINE e == [exec[j] EXCEPT !.pc = "rows", !.rows = @ \ {exec[j].row},
                                    !.dealt = @ \cup {exec[j].row.id},
                                    !.row = NoRow, !.outcome = "none"]
    <3>1. exec' = [exec EXCEPT ![j] = e] /\ job' = job
      BY <2>3 DEF AfterEventRun
    <3>2. exec[j].row \in Row /\ exec[j].row \in exec[j].rows
      BY <1>e, <1>r, <2>1, <2>3 DEF Held
    <3>3. /\ e \in Executions /\ e.pc = "rows" /\ e.rows = exec[j].rows \ {exec[j].row}
          /\ e.dealt = exec[j].dealt \cup {exec[j].row.id} /\ e.listed = exec[j].listed
      BY <1>e, <3>2, ZenonT(240) DEF Executions, Outcome, Row
    <3> HIDE DEF e
    <3>4. exec[j].listed = exec[j].dealt \cup {r.id : r \in exec[j].rows}
      BY <1>e, <2>1, <2>3 DEF Held
    <3>5. e.listed = e.dealt \cup {r.id : r \in e.rows}
      BY <3>2, <3>3, <3>4
    <3>6. exec'[j] = e => Held(j)'
      BY <1>e, <2>3, <3>1, <3>3, <3>5 DEF Held, RowAdmitted, Admits
    <3> QED BY <2>1, <3>1, <3>3, <3>6, HandlerKeepsScope
  <2> QED BY <1>16, <2>2, <2>3 DEF RecordRun, AfterResumeRun
<1>17. ASSUME NEW j \in Job, RescueJob(j) \/ FinishRows(j) PROVE ScopeInv'
  BY <1>7, <1>17 DEF RescueJob, FinishRows, At
<1>18. CASE UNCHANGED vars \/ Quiescent
  BY <1>0, <1>18 DEF vars, Quiescent
<1>19. ASSUME NEW j \in Job, JobStep(j) PROVE ScopeInv'
  BY <1>6, <1>8, <1>9, <1>10, <1>11, <1>13, <1>14, <1>15, <1>16, <1>17, <1>19 DEF JobStep
<1> QED BY <1>2, <1>3, <1>4, <1>5, <1>18, <1>19 DEF Next

LEMMA InitScope == Init => ScopeInv
<1> SUFFICES ASSUME Init PROVE ScopeInv
  OBVIOUS
<1>1. \A i \in Job : job[i] = Unused(i) /\ exec[i] = Idle
  BY DEF Init
<1>2. QueueInv
  BY <1>1 DEF Init, QueueInv, QueueRow, Unused
<1>3. HeldInv
  <2>1. Idle.pc = "idle" /\ Idle.rows = {}
    BY DEF Idle
  <2>2. ASSUME NEW j \in Job PROVE Held(j)
    BY <1>1, <2>1 DEF Held
  <2> QED BY <2>2 DEF HeldInv
<1>4. TargetedEventTouchesOnlyTarget
  BY <1>1 DEF Init, TargetedEventTouchesOnlyTarget
<1> QED BY <1>2, <1>3, <1>4 DEF ScopeInv

LEMMA Scope == Spec => [](TypeInv /\ ScopeInv)
BY InitType, InitScope, TypeStep, ScopeStep, PTL DEF Spec

(* An event with an automation_id changes the outside world through that
   automation alone, over all its attempts and the resume jobs it leads to. *)
THEOREM TargetedEventIsScoped == Spec => []TargetedEventTouchesOnlyTarget
<1>1. ScopeInv => TargetedEventTouchesOnlyTarget
  BY DEF ScopeInv
<1> QED BY <1>1, Scope, PTL

---------------------------------------------------------------------------
(* Completion: only the two handlers' last steps complete a job. *)

LEMMA InsertCompletesNone ==
  ASSUME TypeInv, NEW k \in Job, NextJobID(k), NEW q, q.state = "available",
         job' = [job EXCEPT ![k] = q], NEW j \in Job, ~ Settled(j)
  PROVE job'[j].state # "completed"
<1>1. CASE j = k
  BY <1>1 DEF TypeInv, TypeOK
<1>2. CASE j # k
  BY <1>2 DEF TypeInv, TypeOK, Settled
<1> QED BY <1>1, <1>2

LEMMA OthersCompleteNone ==
  ASSUME TypeInv, NEW i \in Job, CompleteJob(i) \/ FailAttempt(i), NEW j \in Job, ~ Settled(j),
         job'[j].state = "completed"
  PROVE i = j /\ CompleteJob(j)
<1>1. i = j
  BY DEF CompleteJob, FailAttempt, TypeInv, TypeOK, Settled
<1>2. ASSUME FailAttempt(j) PROVE job'[j].state # "completed"
  BY <1>2 DEF FailAttempt, TypeInv, TypeOK
<1> QED BY <1>1, <1>2

LEMMA StepCompletes ==
  ASSUME TypeInv, [Next]_vars, NEW j \in Job, ~ Settled(j), job'[j].state = "completed"
  PROVE CompleteJob(j) /\ (FinishRows(j) \/ RecordRun(j))
<1>0. job' # job
  BY DEF Settled
<1>1. ASSUME PublishEvent PROVE FALSE
  <2>1. PICK k \in Job : NextJobID(k) /\ job' = [job EXCEPT ![k] = EventJob(k, NoAutomation, NoSchedule)]
    BY <1>1 DEF PublishEvent
  <2>2. EventJob(k, NoAutomation, NoSchedule).state = "available"
    BY DEF EventJob, Unused
  <2> QED BY <2>1, <2>2, InsertCompletesNone
<1>2. ASSUME PeriodicTick PROVE FALSE
  <2>1. PICK k \in Job, d \in SUBSET Firing : NextJobID(k) /\ job' = [job EXCEPT ![k] = TickJob(k, d)]
    BY <1>2 DEF PeriodicTick
  <2>2. TickJob(k, d).state = "available"
    BY DEF TickJob, Unused
  <2> QED BY <2>1, <2>2, InsertCompletesNone
<1>3. ASSUME WorkerCrash PROVE FALSE
  BY <1>3 DEF WorkerCrash, Settled, TypeInv, TypeOK
<1>4. ASSUME NEW a \in Automation, CreateAutomation(a) \/ UpdateAutomation(a) \/ DeleteAutomation(a)
      PROVE FALSE
  BY <1>0, <1>4 DEF CreateAutomation, UpdateAutomation, DeleteAutomation, SaveAutomation
<1>5. ASSUME NEW i \in Job, StartJob(i) PROVE FALSE
  BY <1>5 DEF StartJob, Settled, TypeInv, TypeOK
<1>6. ASSUME NEW i \in Job, EnqueueDue(i) PROVE FALSE
  <2>1. PICK r \in exec[i].rows, k \in Job :
            NextJobID(k) /\ job' = [job EXCEPT ![k] = EventJob(k, r.id, Effective(r.sched))]
    BY <1>0, <1>6 DEF EnqueueDue
  <2>2. EventJob(k, r.id, Effective(r.sched)).state = "available"
    BY DEF EventJob, Unused
  <2> QED BY <2>1, <2>2, InsertCompletesNone
<1>7. ASSUME NEW i \in Job, ExecuteDelay(i) PROVE FALSE
  <2>1. PICK k \in Job :
            /\ NextJobID(k)
            /\ job' = [job EXCEPT ![k] =
                    ResumeJob(k, i, exec[i].row.id, Walked(i).succ[Here(i)])]
    BY <1>0, <1>7 DEF ExecuteDelay
  <2> DEFINE q == ResumeJob(k, i, exec[i].row.id, Walked(i).succ[Here(i)])
  <2>2. q.state = "available"
    BY DEF ResumeJob, Unused
  <2> HIDE DEF q
  <2>3. job' = [job EXCEPT ![k] = q]
    BY <2>1 DEF q
  <2> QED BY <2>1, <2>2, <2>3, InsertCompletesNone
<1>8. ASSUME NEW i \in Job, LoadRows(i) \/ LoadResumed(i) \/ RescueJob(i) PROVE FALSE
  <2>1. FailAttempt(i)
    BY <1>0, <1>8 DEF LoadRows, LoadResumed, RescueJob
  <2>2. i = j /\ CompleteJob(j)
    BY <2>1, OthersCompleteNone
  <2> QED BY <2>1, <2>2 DEF FailAttempt, TypeInv, TypeOK
<1>9. ASSUME NEW i \in Job, NextRow(i) \/ WalkEnds(i) \/ ExecuteEffect(i) PROVE FALSE
  BY <1>0, <1>9 DEF NextRow, WalkEnds, ExecuteEffect
<1>10. ASSUME NEW i \in Job, FinishRows(i) \/ RecordRun(i)
       PROVE CompleteJob(j) /\ (FinishRows(j) \/ RecordRun(j))
  <2>1. CompleteJob(i) \/ FailAttempt(i)
    BY <1>0, <1>10 DEF FinishRows, RecordRun, AfterEventRun, AfterResumeRun
  <2> QED BY <1>10, <2>1, OthersCompleteNone
<1> QED BY <1>0, <1>1, <1>2, <1>3, <1>4, <1>5, <1>6, <1>7, <1>8, <1>9, <1>10
        DEF Next, JobStep, vars, Quiescent

(* An event job completes only when it has dealt with every automation it
   listed: an automation's failure, whatever it is, does not end the loop of
   ProcessAutomationEvent. *)
LEMMA StepReachesEveryRow ==
  ASSUME TypeInv, ScopeInv, [Next]_vars, NEW j \in Job, ~ Settled(j), job'[j].state = "completed"
  PROVE EveryRowReached(j)
<1> SUFFICES ASSUME job[j].kind = "event" PROVE exec[j].dealt = exec[j].listed
  BY DEF EveryRowReached
<1>1. CASE FinishRows(j)
  <2>1. Held(j) /\ exec[j].pc = "rows" /\ exec[j].rows = {}
    BY <1>1 DEF FinishRows, At, ScopeInv, HeldInv
  <2>2. exec[j].listed = exec[j].dealt \cup {r.id : r \in exec[j].rows}
    BY <2>1 DEF Held
  <2> QED BY <2>1, <2>2
<1>2. CASE RecordRun(j)
  <2>1. job' = job
    BY <1>2 DEF RecordRun, AfterEventRun
  <2> QED BY <2>1 DEF Settled
<1> QED BY <1>1, <1>2, StepCompletes

(* A resume job completes only with the run of that attempt in the log. *)
LEMMA StepLogsResume ==
  ASSUME TypeInv, ScopeInv, [Next]_vars, NEW j \in Job, ~ Settled(j), job'[j].state = "completed"
  PROVE ResumeLogged(j)
<1> SUFFICES ASSUME job[j].kind = "resume"
             PROVE \E r \in runs' : r.job = j /\ r.attempt = job[j].attempt
  BY DEF ResumeLogged
<1>1. CASE FinishRows(j)
  BY <1>1 DEF FinishRows, At, ScopeInv, HeldInv, Held
<1>2. CASE RecordRun(j)
  <2>1. PICK inserted \in BOOLEAN :
          /\ runs' = IF inserted THEN runs \cup {RunRow(j)} ELSE runs
          /\ AfterResumeRun(j, inserted)
    BY <1>2 DEF RecordRun
  <2>2. inserted
    <3>1. job \in [Job -> Jobs] /\ job'[j].state = "completed"
      BY DEF TypeInv, TypeOK
    <3>2. ASSUME FailAttempt(j) PROVE job'[j].state \in {"available", "discarded"}
      BY <3>1, <3>2 DEF FailAttempt
    <3>3. ~ FailAttempt(j)
      BY <3>1, <3>2
    <3> QED BY <2>1, <3>3 DEF AfterResumeRun
  <2>3. RunRow(j) \in runs' /\ RunRow(j).job = j /\ RunRow(j).attempt = job[j].attempt
    BY <2>1, <2>2 DEF RunRow
  <2> QED BY <2>3
<1> QED BY <1>1, <1>2, StepCompletes

(* Whatever fails and however often, a job that is completed has done its work:
   every automation that its event reached, or the run it owed to the log. *)
THEOREM CompletedJobsHaveWorked == Spec => CompletedJobsAreDone
<1>1. TypeInv /\ ScopeInv /\ [Next]_vars =>
        [\A j \in Job : ~ Settled(j) /\ job'[j].state = "completed"
                            => EveryRowReached(j) /\ ResumeLogged(j)]_vars
  BY StepReachesEveryRow, StepLogsResume
<1> QED BY <1>1, Scope, PTL DEF Spec, CompletedJobsAreDone

---------------------------------------------------------------------------
(* What is in the queue stays what it is, whatever becomes of it. *)

Stays(i) == job[i].state # "none" =>
    /\ job'[i].state # "none" /\ job'[i].kind = job[i].kind /\ job'[i].event = job[i].event
    /\ job'[i].automation = job[i].automation /\ job'[i].next = job[i].next
    /\ job'[i].sched = job[i].sched

LEMMA RestatedStays ==
  ASSUME TypeInv, NEW i \in Job, NEW s, s # "none",
         \/ job'[i] = [job[i] EXCEPT !.state = s]
         \/ job'[i] = [job[i] EXCEPT !.state = s, !.attempt = @ + 1]
  PROVE Stays(i)
<1>1. job[i] \in JobRows
  BY DEF TypeInv, TypeOK, Jobs
<1> QED BY <1>1 DEF Stays, JobRows

LEMMA SettledStays ==
  ASSUME TypeInv, NEW j \in Job, CompleteJob(j) \/ FailAttempt(j), NEW i \in Job
  PROVE Stays(i)
<1>1. PICK s \in {"completed", "available", "discarded"} : job' = [job EXCEPT ![j].state = s]
  BY DEF CompleteJob, FailAttempt
<1>2. job'[i] = job[i] \/ job'[i] = [job[i] EXCEPT !.state = s]
  BY <1>1 DEF TypeInv, TypeOK
<1> QED BY <1>2, RestatedStays DEF Stays

LEMMA InsertedStays ==
  ASSUME TypeInv, NEW k \in Job, NextJobID(k), NEW r, job' = [job EXCEPT ![k] = r], NEW i \in Job
  PROVE Stays(i)
BY DEF TypeInv, TypeOK, NextJobID, Stays

LEMMA QueueStays == TypeInv /\ [Next]_vars => \A i \in Job : Stays(i)
<1> SUFFICES ASSUME TypeInv, [Next]_vars, NEW i \in Job PROVE Stays(i)
  OBVIOUS
<1>0. ASSUME job' = job PROVE Stays(i)
  BY <1>0 DEF Stays
<1>1. ASSUME PublishEvent \/ PeriodicTick PROVE Stays(i)
  BY <1>1, InsertedStays DEF PublishEvent, PeriodicTick
<1>2. ASSUME WorkerCrash PROVE Stays(i)
  <2>1. job'[i] = job[i] \/ job'[i] = [job[i] EXCEPT !.state = "orphaned"]
    BY <1>2 DEF WorkerCrash
  <2> QED BY <2>1, RestatedStays DEF Stays
<1>3. ASSUME NEW j \in Job, StartJob(j) PROVE Stays(i)
  <2>1. job' = [job EXCEPT ![j] = [job[j] EXCEPT !.state = "running", !.attempt = @ + 1]]
    BY <1>3 DEF StartJob, TypeInv, TypeOK
  <2>2. job'[i] = job[i] \/ job'[i] = [job[i] EXCEPT !.state = "running", !.attempt = @ + 1]
    BY <2>1 DEF TypeInv, TypeOK
  <2> QED BY <2>2, RestatedStays DEF Stays
<1>4. ASSUME NEW j \in Job, RescueJob(j) \/ LoadRows(j) \/ LoadResumed(j) PROVE Stays(i)
  BY <1>4, <1>0, SettledStays DEF RescueJob, LoadRows, LoadResumed
<1>5. ASSUME NEW j \in Job, EnqueueDue(j) PROVE Stays(i)
  BY <1>5, <1>0, InsertedStays DEF EnqueueDue
<1>6. ASSUME NEW j \in Job, ExecuteDelay(j) PROVE Stays(i)
  BY <1>6, <1>0, InsertedStays DEF ExecuteDelay
<1>7. ASSUME NEW j \in Job, FinishRows(j) \/ RecordRun(j) PROVE Stays(i)
  BY <1>7, <1>0, SettledStays DEF FinishRows, RecordRun, AfterEventRun, AfterResumeRun
<1>8. ASSUME NEW j \in Job, NextRow(j) \/ WalkEnds(j) \/ ExecuteEffect(j) PROVE Stays(i)
  BY <1>8, <1>0 DEF NextRow, WalkEnds, ExecuteEffect
<1>9. ASSUME NEW a \in Automation, CreateAutomation(a) \/ UpdateAutomation(a) \/ DeleteAutomation(a)
      PROVE Stays(i)
  BY <1>9, <1>0 DEF CreateAutomation, UpdateAutomation, DeleteAutomation, SaveAutomation
<1> QED BY <1>0, <1>1, <1>2, <1>3, <1>4, <1>5, <1>6, <1>7, <1>8, <1>9
        DEF Next, JobStep, vars, Quiescent

---------------------------------------------------------------------------
(* Schedules: while no automation is edited, a row that is held is bound as the
   table says, and a tick's event fires at the time its automation is due. *)

Stands(r) == automation[r.id].status # "unborn" /\ automation[r.id].sched = r.sched

DueStands(i) ==
    job[i].state # "none" /\ job[i].kind = "event" /\ job[i].sched # NoSchedule =>
        /\ job[i].automation \in Automation
        /\ automation[job[i].automation].status # "unborn"
        /\ Effective(automation[job[i].automation].sched) = job[i].sched

ScheduleInv == spent.edit = 0 => \A i \in Job : DueStands(i) /\ \A r \in exec[i].rows : Stands(r)

(* Rows are held because they were held before, or were read in this step. *)
LEMMA RowsAreRead ==
  ASSUME TypeInv, [Next]_vars, NEW i \in Job
  PROVE \A r \in exec'[i].rows : r \in exec[i].rows \/ (r \in EnabledRows /\ automation' = automation)
<1>e. exec \in [Job -> Executions] /\ \A j \in Job : exec[j] \in Executions
  BY DEF TypeInv, TypeOK
<1>0. ASSUME exec' = exec PROVE exec'[i].rows \subseteq exec[i].rows
  BY <1>0
<1>i. ASSUME exec'[i] = Idle PROVE exec'[i].rows \subseteq exec[i].rows
  BY <1>i DEF Idle
<1>s. ASSUME NEW j \in Job, CompleteJob(j) \/ FailAttempt(j) PROVE exec'[i].rows \subseteq exec[i].rows
  BY <1>s, <1>e, <1>i DEF CompleteJob, FailAttempt
<1>1. ASSUME NEW j \in Job, StartJob(j) PROVE exec'[i].rows \subseteq exec[i].rows
  BY <1>1, <1>e DEF StartJob, Idle
<1>2. ASSUME WorkerCrash PROVE exec'[i].rows \subseteq exec[i].rows
  BY <1>2, <1>i DEF WorkerCrash
<1>3. ASSUME NEW j \in Job, LoadRows(j)
      PROVE \A r \in exec'[i].rows : r \in exec[i].rows \/ (r \in EnabledRows /\ automation' = automation)
  <2> DEFINE found == IF job[j].kind = "event" THEN RowsForEvent(j) ELSE RowsForTick(j)
             e == [exec[j] EXCEPT !.pc = "rows", !.rows = found, !.listed = {r.id : r \in found}]
  <2>1. automation' = automation /\ (FailAttempt(j) \/ exec' = [exec EXCEPT ![j] = e])
    BY <1>3 DEF LoadRows
  <2>2. \A r \in found : r \in EnabledRows
    BY DEF RowsForEvent, RowsOfTrigger, RowsForTick
  <2>3. e.rows = found
    BY <1>e DEF Executions
  <2> HIDE DEF found, e
  <2> QED BY <1>e, <1>s, <2>1, <2>2, <2>3
<1>w. ASSUME NEW j \in Job, NEW r, NEW o, RecordNext(j, r, o) \/ BeginWalk(j, r, o)
      PROVE exec'[i].rows \subseteq exec[i].rows
  <2>1. CASE RecordNext(j, r, o)
    BY <2>1, <1>e DEF RecordNext, Executions
  <2>2. CASE BeginWalk(j, r, o)
    <3> DEFINE e == [exec[j] EXCEPT
                        !.pc = IF o \in r.graph.nodes THEN "walk" ELSE "record",
                        !.outcome = IF o \in r.graph.nodes THEN "none" ELSE "error",
                        !.row = r, !.cur = o, !.visited = {}, !.steps = 0,
                        !.times = [x \in Action |-> 0]]
    <3>1. exec' = [exec EXCEPT ![j] = e]
      BY <2>2 DEF BeginWalk
    <3>2. e.rows = exec[j].rows
      BY <1>e DEF Executions
    <3> HIDE DEF e
    <3> QED BY <1>e, <3>1, <3>2
  <2> QED BY <1>w, <2>1, <2>2
<1>4. ASSUME NEW j \in Job, LoadResumed(j) \/ NextRow(j) PROVE exec'[i].rows \subseteq exec[i].rows
  BY <1>4, <1>s, <1>w DEF LoadResumed, NextRow
<1>5. ASSUME NEW j \in Job, EnqueueDue(j) PROVE exec'[i].rows \subseteq exec[i].rows
  BY <1>5, <1>e DEF EnqueueDue, Executions
<1>m. ASSUME NEW j \in Job, NEW n, NEW o
      PROVE /\ MoveTo(j, n).rows = exec[j].rows /\ Ended(exec[j], o).rows = exec[j].rows
            /\ Ended(MoveTo(j, n), o).rows = exec[j].rows
  BY <1>e DEF MoveTo, Ended, Executions
<1>a. ASSUME NEW j \in Job PROVE AfterError(j).rows = exec[j].rows
  BY <1>m DEF AfterError
<1>6. ASSUME NEW j \in Job, WalkEnds(j) PROVE exec'[i].rows \subseteq exec[i].rows
  BY <1>6, <1>e, <1>m DEF WalkEnds
<1>7. ASSUME NEW j \in Job, ExecuteEffect(j) PROVE exec'[i].rows \subseteq exec[i].rows
  <2>1. PICK e \in {MoveTo(j, Walked(j).succ[Here(j)]), AfterError(j)} :
            exec' = [exec EXCEPT ![j] = e] \/ exec' = [exec EXCEPT ![j] = Counted(e, Here(j))]
    BY <1>7 DEF ExecuteEffect
  <2>2. e.rows = exec[j].rows /\ Counted(e, Here(j)).rows = e.rows
    <3>1. e.rows = exec[j].rows
      BY <1>a, <1>m, <2>1
    <3>2. Counted(e, Here(j)).rows = e.rows
      BY <1>e DEF Counted, MoveTo, AfterError, Ended, Executions
    <3> QED BY <3>1, <3>2
  <2> QED BY <1>e, <2>1, <2>2
<1>8. ASSUME NEW j \in Job, ExecuteDelay(j) PROVE exec'[i].rows \subseteq exec[i].rows
  BY <1>8, <1>e, <1>a, <1>m DEF ExecuteDelay
<1>9. ASSUME NEW j \in Job, RecordRun(j) PROVE exec'[i].rows \subseteq exec[i].rows
  <2>1. CASE AfterEventRun(j)
    BY <2>1, <1>e DEF AfterEventRun, Executions
  <2> QED BY <1>9, <1>s, <2>1 DEF RecordRun, AfterResumeRun
<1>10. ASSUME NEW j \in Job, RescueJob(j) \/ FinishRows(j) PROVE exec'[i].rows \subseteq exec[i].rows
  BY <1>10, <1>s DEF RescueJob, FinishRows
<1>11. ASSUME \/ PublishEvent \/ PeriodicTick \/ Quiescent \/ UNCHANGED vars
              \/ \E a \in Automation : CreateAutomation(a) \/ UpdateAutomation(a) \/ DeleteAutomation(a)
       PROVE exec'[i].rows \subseteq exec[i].rows
  BY <1>0, <1>11 DEF PublishEvent, PeriodicTick, Quiescent, vars, CreateAutomation, UpdateAutomation,
                     DeleteAutomation, SaveAutomation
<1> QED BY <1>1, <1>2, <1>3, <1>4, <1>5, <1>6, <1>7, <1>8, <1>9, <1>10, <1>11 DEF Next, JobStep

(* A scheduled event is put into the queue for a row that a tick holds. *)
LEMMA DueIsHeld ==
  ASSUME TypeInv, [Next]_vars, NEW i \in Job, job[i].state = "none",
         job'[i].state # "none", job'[i].kind = "event", job'[i].sched # NoSchedule
  PROVE /\ automation' = automation
        /\ \E j \in Job : \E r \in exec[j].rows :
              job'[i].automation = r.id /\ job'[i].sched = Effective(r.sched)
<1>0. job' # job
  OBVIOUS
<1>n. ASSUME NEW k \in Job, NEW q, NextJobID(k), job' = [job EXCEPT ![k] = q]
      PROVE k = i /\ job'[i] = q
  BY <1>n DEF NextJobID, TypeInv, TypeOK
<1>s. ASSUME NEW j \in Job, job[j].state # "none", CompleteJob(j) \/ FailAttempt(j) PROVE FALSE
  BY <1>s DEF CompleteJob, FailAttempt, TypeInv, TypeOK
<1>1. ASSUME PublishEvent PROVE FALSE
  BY <1>1, <1>n DEF PublishEvent, EventJob, Unused
<1>2. ASSUME PeriodicTick PROVE FALSE
  BY <1>2, <1>n DEF PeriodicTick, TickJob, Unused
<1>3. ASSUME NEW j \in Job, ExecuteDelay(j) PROVE FALSE
  <2>1. PICK k \in Job : NextJobID(k) /\ job' = [job EXCEPT ![k] =
            ResumeJob(k, j, exec[j].row.id, Walked(j).succ[Here(j)])]
    BY <1>0, <1>3 DEF ExecuteDelay
  <2> QED BY <1>n, <2>1 DEF ResumeJob, Unused
<1>4. ASSUME NEW j \in Job, EnqueueDue(j)
      PROVE /\ automation' = automation
            /\ \E r \in exec[j].rows : job'[i].automation = r.id /\ job'[i].sched = Effective(r.sched)
  <2>1. PICK r \in exec[j].rows, k \in Job :
            NextJobID(k) /\ job' = [job EXCEPT ![k] = EventJob(k, r.id, Effective(r.sched))]
    BY <1>0, <1>4 DEF EnqueueDue
  <2>2. job'[i] = EventJob(k, r.id, Effective(r.sched))
    BY <1>n, <2>1
  <2> QED BY <1>4, <2>2 DEF EnqueueDue, EventJob, Unused
<1>5. ASSUME WorkerCrash \/ \E j \in Job : StartJob(j) PROVE FALSE
  BY <1>5 DEF WorkerCrash, StartJob, TypeInv, TypeOK
<1>6. ASSUME NEW j \in Job, LoadRows(j) \/ LoadResumed(j) \/ RescueJob(j) \/ FinishRows(j) \/ RecordRun(j)
      PROVE FALSE
  BY <1>0, <1>s, <1>6 DEF LoadRows, LoadResumed, RescueJob, FinishRows, RecordRun, AfterEventRun,
                          AfterResumeRun, At
<1>7. ASSUME NEW j \in Job, NextRow(j) \/ WalkEnds(j) \/ ExecuteEffect(j) PROVE FALSE
  BY <1>0, <1>7 DEF NextRow, WalkEnds, ExecuteEffect
<1>8. ASSUME NEW a \in Automation, CreateAutomation(a) \/ UpdateAutomation(a) \/ DeleteAutomation(a)
      PROVE FALSE
  BY <1>0, <1>8 DEF CreateAutomation, UpdateAutomation, DeleteAutomation, SaveAutomation
<1> QED BY <1>0, <1>1, <1>2, <1>3, <1>4, <1>5, <1>6, <1>7, <1>8 DEF Next, JobStep, vars, Quiescent

(* Short of an edit, an automation that has been created stays as it is. *)
LEMMA UneditedStays ==
  ASSUME TypeInv, [Next]_vars, spent'.edit = 0
  PROVE /\ spent.edit = 0
        /\ \A a \in Automation : automation[a].status # "unborn" => automation'[a] = automation[a]
<1>1. spent \in [event : Nat, tick : Nat, edit : Nat, fault : Nat]
  BY DEF TypeInv, TypeOK
<1>2. ASSUME NEW a \in Automation, UpdateAutomation(a) \/ DeleteAutomation(a) PROVE FALSE
  BY <1>1, <1>2 DEF UpdateAutomation, DeleteAutomation, Spend
<1>3. ASSUME NEW a \in Automation, CreateAutomation(a)
      PROVE /\ spent' = spent
            /\ \A b \in Automation : automation[b].status # "unborn" => automation'[b] = automation[b]
  BY <1>3 DEF CreateAutomation, SaveAutomation, TypeInv, TypeOK
<1>4. ASSUME ~ \E a \in Automation : CreateAutomation(a) \/ UpdateAutomation(a) \/ DeleteAutomation(a)
      PROVE automation' = automation /\ (spent' = spent \/ Spend("event") \/ Spend("tick") \/ Fault)
  BY <1>4 DEF Next, JobStep, vars, Quiescent, PublishEvent, PeriodicTick, WorkerCrash, StartJob, RescueJob,
     LoadRows, LoadResumed, NextRow, EnqueueDue, FinishRows, WalkEnds, ExecuteEffect, ExecuteDelay, RecordRun
<1> QED BY <1>1, <1>2, <1>3, <1>4 DEF Spend, Fault

LEMMA ScheduleStep == TypeInv /\ ScheduleInv /\ [Next]_vars => ScheduleInv'
<1> SUFFICES ASSUME TypeInv, ScheduleInv, [Next]_vars, spent'.edit = 0, NEW i \in Job
             PROVE (DueStands(i) /\ \A r \in exec[i].rows : Stands(r))'
  BY DEF ScheduleInv
<1>1. /\ \A a \in Automation : automation[a].status # "unborn" => automation'[a] = automation[a]
      /\ \A j \in Job : DueStands(j) /\ \A r \in exec[j].rows : Stands(r)
  BY UneditedStays DEF ScheduleInv
<1>e. \A j \in Job : \A r \in exec[j].rows : r \in Row
  BY DEF TypeInv, TypeOK, Executions
<1>2. ASSUME NEW r \in exec'[i].rows PROVE Stands(r)'
  <2>1. CASE r \in exec[i].rows
    <3>1. r.id \in Automation /\ Stands(r)
      BY <1>1, <1>e, <2>1 DEF Row
    <3> QED BY <1>1, <3>1 DEF Stands
  <2>2. CASE r \in EnabledRows /\ automation' = automation
    BY <2>2 DEF EnabledRows, RowOf, Stands
  <2> QED BY <2>1, <2>2, RowsAreRead
<1>3. DueStands(i)'
  <2> SUFFICES ASSUME job'[i].state # "none", job'[i].kind = "event", job'[i].sched # NoSchedule
               PROVE /\ job'[i].automation \in Automation
                     /\ automation'[job'[i].automation].status # "unborn"
                     /\ Effective(automation'[job'[i].automation].sched) = job'[i].sched
    BY DEF DueStands, Effective
  <2>1. CASE job[i].state # "none"
    <3>1. Stays(i)
      BY QueueStays
    <3>2. /\ job'[i].kind = job[i].kind /\ job'[i].sched = job[i].sched
          /\ job'[i].automation = job[i].automation
      BY <2>1, <3>1 DEF Stays
    <3>3. /\ job[i].automation \in Automation
          /\ automation[job[i].automation].status # "unborn"
          /\ Effective(automation[job[i].automation].sched) = job[i].sched
      BY <1>1, <2>1, <3>2 DEF DueStands
    <3> QED BY <1>1, <3>2, <3>3
  <2>2. CASE job[i].state = "none"
    <3>1. PICK j \in Job : \E r \in exec[j].rows :
              job'[i].automation = r.id /\ job'[i].sched = Effective(r.sched)
      BY <2>2, DueIsHeld
    <3>2. PICK r \in exec[j].rows : job'[i].automation = r.id /\ job'[i].sched = Effective(r.sched)
      BY <3>1
    <3>3. automation' = automation
      BY <2>2, DueIsHeld
    <3>4. r.id \in Automation /\ Stands(r)
      BY <1>1, <1>e DEF Row
    <3> QED BY <3>2, <3>3, <3>4 DEF Stands
  <2> QED BY <2>1, <2>2
<1> QED BY <1>2, <1>3

LEMMA InitSchedule == Init => ScheduleInv
BY DEF Init, ScheduleInv, DueStands, Unused, Idle

(* A binding that a row's parameters match fires when the row is due, unless
   the row leaves the time zone out. *)
LEMMA MatchedIsDue ==
  ASSUME NEW s \in Binding, NEW fired \in Firing \cup {NoSchedule}, Matches(s, fired)
  PROVE \/ Effective(s) = fired
        \/ s # NoSchedule /\ fired # NoSchedule /\ s.expr = fired.expr /\ s.zone = Unset
<1>1. CASE s = NoSchedule
  BY <1>1 DEF Matches, Effective
<1>2. CASE s # NoSchedule
  <2>1. s \in Schedule /\ fired \in Firing /\ s.expr = fired.expr /\ s.zone \in {Unset, fired.zone}
    BY <1>2 DEF Matches, MatchTriggerParams, Binding
  <2>2. CASE s.zone = fired.zone
    <3>1. s = fired
      BY <2>1, <2>2 DEF Schedule, Firing
    <3>2. s.zone # Unset
      BY <2>1, <2>2 DEF Firing
    <3> QED BY <3>1, <3>2 DEF Effective
  <2>3. CASE s.zone = Unset
    <3>1. fired # NoSchedule
      BY <1>2 DEF Matches
    <3> QED BY <1>2, <2>1, <2>3, <3>1
  <2> QED BY <2>1, <2>2, <2>3
<1> QED BY <1>1, <1>2

LEMMA MatchedWalks == TypeInv /\ ScopeInv /\ ScheduleInv => WalkMatchesEvent
<1> SUFFICES ASSUME TypeInv, ScopeInv, ScheduleInv, NEW j \in Job, exec[j].pc = "walk"
             PROVE /\ exec[j].row.enabled
                   /\ job[j].kind = "event" =>
                         \/ Effective(exec[j].row.sched) = job[j].sched
                         \/ ZoneDropped(exec[j].row.sched, job[j].sched)
  BY DEF WalkMatchesEvent
<1>1. Held(j) /\ exec[j] \in Executions /\ job[j] \in Jobs /\ exec[j].row \in Row
  BY DEF ScopeInv, HeldInv, TypeInv, TypeOK, Evaluating
<1>2. exec[j].row.enabled
  BY <1>1 DEF Held
<1>3. ASSUME job[j].kind = "event", Effective(exec[j].row.sched) # job[j].sched
      PROVE ZoneDropped(exec[j].row.sched, job[j].sched)
  <2> DEFINE row == exec[j].row
  <2>1. row \in exec[j].rows /\ RowAdmitted(j, row)
    BY <1>1, <1>3 DEF Held
  <2>2. row.sched \in Binding /\ job[j].sched \in Firing \cup {NoSchedule} /\ Matches(row.sched, job[j].sched)
    BY <1>1, <1>3, <2>1 DEF Row, Jobs, JobRows, RowAdmitted
  <2>3. /\ row.sched # NoSchedule /\ job[j].sched # NoSchedule
        /\ row.sched.expr = job[j].sched.expr /\ row.sched.zone = Unset
    BY <1>3, <2>2, MatchedIsDue
  <2>4. job[j].state # "none"
    <3>1. exec[j] # Idle
      BY DEF Idle
    <3> QED BY <3>1 DEF TypeInv, Evaluating
  <2>5. spent.edit # 0
    <3> SUFFICES ASSUME spent.edit = 0 PROVE FALSE
      OBVIOUS
    <3>1. DueStands(j) /\ Stands(row)
      BY <2>1 DEF ScheduleInv
    <3>2. job[j].automation \in Automation /\ Effective(automation[job[j].automation].sched) = job[j].sched
      BY <1>3, <2>3, <2>4, <3>1 DEF DueStands
    <3>3. row.id = job[j].automation
      BY <1>3, <2>1, <3>2 DEF RowAdmitted, Admits
    <3> QED BY <1>3, <3>1, <3>2, <3>3 DEF Stands
  <2>6. spent.edit > 0
    BY <2>5 DEF TypeInv, TypeOK
  <2> QED BY <2>3, <2>6 DEF ZoneDropped
<1> QED BY <1>2, <1>3

(* Whatever is being walked was enabled when its attempt read it, and a walk that
   an event started is of an automation bound to what the event says fired: to
   the same trigger, expression and time zone, a zone left out being the default.
   Only an edit that leaves the zone out lets an automation run at an old time. *)
THEOREM WalksMatchEvents == Spec => []WalkMatchesEvent
BY InitType, InitScope, InitSchedule, TypeStep, ScopeStep, ScheduleStep, MatchedWalks, PTL DEF Spec

---------------------------------------------------------------------------
(* A pause has its continuation in the queue. *)
HandedOver(j) ==
    \E k \in Job \ {j} :
        /\ job[k].state # "none" /\ job[k].kind = "resume"
        /\ job[k].event = job[j].event
        /\ job[k].automation = exec[j].row.id
        /\ job[k].next = Walked(j).succ[Here(j)]

(* A walk is paused only between its delay and the record of its run. *)
Paused(j) == exec[j].outcome = "paused" => exec[j].pc = "record" /\ HandedOver(j)

PauseInv == \A j \in Job : Paused(j)

LEMMA PausedKept ==
  ASSUME TypeInv, PauseInv, [Next]_vars, NEW j \in Job, exec'[j] = exec[j]
  PROVE Paused(j)'
<1> SUFFICES ASSUME exec[j].outcome = "paused" PROVE exec[j].pc = "record" /\ HandedOver(j)'
  BY DEF Paused
<1>1. exec[j].pc = "record" /\ HandedOver(j)
  BY DEF PauseInv, Paused
<1>2. job[j].state # "none"
  BY <1>1 DEF TypeInv, Evaluating, Idle
<1>3. PICK k \in Job \ {j} :
        /\ job[k].state # "none" /\ job[k].kind = "resume"
        /\ job[k].event = job[j].event
        /\ job[k].automation = exec[j].row.id
        /\ job[k].next = Walked(j).succ[Here(j)]
  BY <1>1 DEF HandedOver
<1>4. Stays(k) /\ Stays(j)
  BY QueueStays
<1>5. Walked(j)' = Walked(j) /\ Here(j)' = Here(j)
  BY DEF Walked, Here
<1>6. /\ job'[k].state # "none" /\ job'[k].kind = "resume"
      /\ job'[k].event = job'[j].event
      /\ job'[k].automation = exec'[j].row.id
      /\ job'[k].next = Walked(j)'.succ[Here(j)']
  BY <1>2, <1>3, <1>4, <1>5 DEF Stays
<1> QED BY <1>1, <1>6 DEF HandedOver

(* A step of j that leaves it not paused. *)
LEMMA PausedUpdate ==
  ASSUME TypeInv, PauseInv, [Next]_vars, NEW j \in Job, NEW e, exec' = [exec EXCEPT ![j] = e],
         e.outcome # "paused"
  PROVE PauseInv'
<1> SUFFICES ASSUME NEW i \in Job PROVE Paused(i)'
  BY DEF PauseInv
<1>1. exec'[i] = IF i = j THEN e ELSE exec[i]
  BY DEF TypeInv, TypeOK
<1>2. CASE i = j
  BY <1>1, <1>2 DEF Paused
<1>3. CASE i # j
  BY <1>1, <1>3, PausedKept
<1> QED BY <1>2, <1>3

(* The delay pauses the walk where it stands and names its own success edge. *)
LEMMA PausedDelay ==
  ASSUME TypeInv, PauseInv, [Next]_vars, NEW j \in Job, job[j].state = "running",
         exec[j].pc = "walk", Here(j) # NoAction,
         NEW k \in Job, NextJobID(k),
         job' = [job EXCEPT ![k] = ResumeJob(k, j, exec[j].row.id, Walked(j).succ[Here(j)])],
         exec' = [exec EXCEPT ![j] = Ended(MoveTo(j, Here(j)), "paused")]
  PROVE PauseInv'
<1> DEFINE e == Ended(MoveTo(j, Here(j)), "paused")
           n == Walked(j).succ[Here(j)]
           q == ResumeJob(k, j, exec[j].row.id, n)
<1>1. k # j /\ job'[k] = q /\ job'[j] = job[j]
  BY DEF NextJobID, TypeInv, TypeOK
<1>2. /\ q.state = "available" /\ q.kind = "resume" /\ q.event = job[j].event
      /\ q.automation = exec[j].row.id /\ q.next = n
  BY DEF ResumeJob, Unused
<1>3. e.pc = "record" /\ e.row = exec[j].row /\ e.cur = Here(j)
  <2>1. exec[j] \in Executions
    BY DEF TypeInv, TypeOK
  <2> QED BY <2>1 DEF Ended, MoveTo, Executions
<1>4. \A i \in Job : exec'[i] = IF i = j THEN e ELSE exec[i]
  BY DEF TypeInv, TypeOK
<1>5. Walked(j)' = Walked(j) /\ Here(j)' = Here(j)
  BY <1>3, <1>4 DEF Walked, Here
<1> HIDE DEF e, q
<1>6. HandedOver(j)'
  <2>1. n = Walked(j)'.succ[Here(j)']
    BY <1>5
  <2> HIDE DEF n
  <2> QED BY <1>1, <1>2, <1>3, <1>4, <2>1 DEF HandedOver
<1>7. ASSUME NEW i \in Job PROVE Paused(i)'
  <2>1. CASE i = j
    BY <1>3, <1>4, <1>6, <2>1 DEF Paused
  <2>2. CASE i # j
    BY <1>4, <2>2, PausedKept
  <2> QED BY <2>1, <2>2
<1> QED BY <1>7 DEF PauseInv

(* What the walk's own steps make of the outcome. *)
LEMMA MovedOutcome ==
  ASSUME TypeInv, NEW j \in Job, exec[j].outcome # "paused", exec[j].pc = "walk", Here(j) # NoAction
  PROVE /\ \A n : MoveTo(j, n).outcome # "paused"
        /\ AfterError(j).outcome # "paused"
        /\ \A n, x : Counted(MoveTo(j, n), x).outcome # "paused"
        /\ \A x : Counted(AfterError(j), x).outcome # "paused"
<1>1. exec[j] \in Executions
  BY DEF TypeInv, TypeOK
<1>2. \A n : MoveTo(j, n).outcome = exec[j].outcome
  BY <1>1 DEF MoveTo, Executions
<1>3. AfterError(j).outcome # "paused"
  <2>1. CASE Walked(j).err[Here(j)] = NoAction
    <3>1. AfterError(j) = Ended(MoveTo(j, Here(j)), "error")
      BY <2>1 DEF AfterError
    <3>2. Ended(MoveTo(j, Here(j)), "error").outcome = "error"
      BY <1>1 DEF Ended, MoveTo, Executions
    <3> QED BY <3>1, <3>2
  <2>2. CASE Walked(j).err[Here(j)] # NoAction
    BY <1>2, <2>2 DEF AfterError
  <2> QED BY <2>1, <2>2
<1>4. \A e, x : Counted(e, x).outcome = e.outcome
  BY DEF Counted
<1> QED BY <1>2, <1>3, <1>4

LEMMA PausedStep == TypeInv /\ PauseInv /\ [Next]_vars => PauseInv'
<1> SUFFICES ASSUME TypeInv, PauseInv, [Next]_vars PROVE PauseInv'
  OBVIOUS
<1>e. \A j \in Job : exec[j] \in Executions /\ Paused(j)
  BY DEF TypeInv, TypeOK, PauseInv
<1>0. ASSUME exec' = exec PROVE PauseInv'
  BY <1>0, PausedKept DEF PauseInv
<1>i. Idle.outcome = "none" /\ [Idle EXCEPT !.pc = "load"].outcome = "none"
  BY DEF Idle
<1>s. ASSUME NEW j \in Job, CompleteJob(j) \/ FailAttempt(j) PROVE PauseInv'
  BY <1>s, <1>i, PausedUpdate DEF CompleteJob, FailAttempt
<1>n. ASSUME NEW j \in Job, NEW r, NEW o \in {"skipped", "error"}, RecordNext(j, r, o) PROVE PauseInv'
  <2> DEFINE e == [exec[j] EXCEPT !.pc = "record", !.row = r, !.outcome = o]
  <2>1. exec' = [exec EXCEPT ![j] = e] /\ e.outcome = o
    BY <1>e, <1>n, ZenonT(60) DEF RecordNext, Executions
  <2> HIDE DEF e
  <2> QED BY <2>1, PausedUpdate
<1>b. ASSUME NEW j \in Job, NEW r, NEW n, BeginWalk(j, r, n) PROVE PauseInv'
  <2> DEFINE pc == IF n \in r.graph.nodes THEN "walk" ELSE "record"
             oc == IF n \in r.graph.nodes THEN "none" ELSE "error"
             e == [exec[j] EXCEPT !.pc = pc, !.outcome = oc, !.row = r, !.cur = n,
                                  !.visited = {}, !.steps = 0, !.times = [x \in Action |-> 0]]
  <2>1. exec' = [exec EXCEPT ![j] = e]
    BY <1>b DEF BeginWalk
  <2>2. oc # "paused"
    OBVIOUS
  <2> HIDE DEF pc, oc
  <2>3. e.outcome = oc
    BY <1>e DEF Executions
  <2> HIDE DEF e
  <2> QED BY <2>1, <2>2, <2>3, PausedUpdate
<1>1. ASSUME PublishEvent \/ PeriodicTick PROVE PauseInv'
  BY <1>0, <1>1 DEF PublishEvent, PeriodicTick
<1>2. ASSUME WorkerCrash PROVE PauseInv'
  BY <1>2, <1>i DEF WorkerCrash, PauseInv, Paused
<1>3. ASSUME NEW j \in Job, StartJob(j) PROVE PauseInv'
  BY <1>3, <1>i, PausedUpdate DEF StartJob
<1>4. ASSUME NEW j \in Job, LoadRows(j) PROVE PauseInv'
  <2> DEFINE found == IF job[j].kind = "event" THEN RowsForEvent(j) ELSE RowsForTick(j)
             e == [exec[j] EXCEPT !.pc = "rows", !.rows = found, !.listed = {r.id : r \in found}]
  <2>1. CASE exec' = [exec EXCEPT ![j] = e]
    <3>1. exec[j].outcome # "paused" /\ e.outcome = exec[j].outcome
      BY <1>4, <1>e DEF LoadRows, At, Paused, Executions
    <3> HIDE DEF e
    <3> QED BY <2>1, <3>1, PausedUpdate
  <2> QED BY <1>4, <1>s, <2>1 DEF LoadRows
<1>5. ASSUME NEW j \in Job, LoadResumed(j) PROVE PauseInv'
  BY <1>5, <1>s, <1>n, <1>b DEF LoadResumed
<1>6. ASSUME NEW j \in Job, NextRow(j) PROVE PauseInv'
  BY <1>6, <1>n, <1>b DEF NextRow
<1>7. ASSUME NEW j \in Job, EnqueueDue(j) PROVE PauseInv'
  <2>1. PICK r : exec' = [exec EXCEPT ![j].rows = @ \ {r}, ![j].dealt = @ \cup {r.id}]
    BY <1>7 DEF EnqueueDue
  <2> DEFINE e == [exec[j] EXCEPT !.rows = @ \ {r}, !.dealt = @ \cup {r.id}]
  <2>2. exec' = [exec EXCEPT ![j] = e]
    BY <2>1
  <2>3. exec[j].outcome # "paused" /\ e.outcome = exec[j].outcome
    BY <1>7, <1>e DEF EnqueueDue, At, Paused, Executions
  <2> HIDE DEF e
  <2> QED BY <2>2, <2>3, PausedUpdate
<1>8. ASSUME NEW j \in Job, WalkEnds(j) PROVE PauseInv'
  <2>1. PICK o \in {"success", "error"} : exec' = [exec EXCEPT ![j] = Ended(exec[j], o)]
    BY <1>8 DEF WalkEnds
  <2>2. Ended(exec[j], o).outcome = o
    BY <1>e DEF Ended, Executions
  <2> QED BY <2>1, <2>2, PausedUpdate
<1>9. ASSUME NEW j \in Job, ExecuteEffect(j) PROVE PauseInv'
  <2> DEFINE x == Here(j)
             n == Walked(j).succ[x]
  <2>1. exec[j].pc = "walk" /\ Here(j) # NoAction /\ exec[j].outcome # "paused"
    BY <1>9, <1>e DEF ExecuteEffect, Executes, At, Paused
  <2>2. PICK e \in {Counted(MoveTo(j, n), x), Counted(AfterError(j), x), AfterError(j)} :
            exec' = [exec EXCEPT ![j] = e]
    BY <1>9 DEF ExecuteEffect
  <2>3. e.outcome # "paused"
    BY <2>1, <2>2, MovedOutcome
  <2> QED BY <2>2, <2>3, PausedUpdate
<1>10. ASSUME NEW j \in Job, ExecuteDelay(j) PROVE PauseInv'
  <2>1. /\ job[j].state = "running" /\ exec[j].pc = "walk" /\ Here(j) # NoAction
        /\ exec[j].outcome # "paused"
    BY <1>10, <1>e DEF ExecuteDelay, Executes, At, Paused
  <2>2. ASSUME NEW e \in {MoveTo(j, NoAction), AfterError(j)}, exec' = [exec EXCEPT ![j] = e]
        PROVE PauseInv'
    BY <2>1, <2>2, MovedOutcome, PausedUpdate
  <2> QED BY <1>10, <2>1, <2>2, PausedDelay DEF ExecuteDelay
<1>11. ASSUME NEW j \in Job, RecordRun(j) PROVE PauseInv'
  <2> DEFINE e == [exec[j] EXCEPT !.pc = "rows", !.rows = @ \ {exec[j].row},
                                  !.dealt = @ \cup {exec[j].row.id},
                                  !.row = NoRow, !.outcome = "none"]
  <2>1. CASE AfterEventRun(j)
    <3>1. exec' = [exec EXCEPT ![j] = e]
      BY <2>1 DEF AfterEventRun
    <3>2. e.outcome = "none"
      BY <1>e DEF Executions
    <3> HIDE DEF e
    <3> QED BY <3>1, <3>2, PausedUpdate
  <2> QED BY <1>11, <1>s, <2>1 DEF RecordRun, AfterResumeRun
<1>12. ASSUME NEW j \in Job, RescueJob(j) \/ FinishRows(j) PROVE PauseInv'
  BY <1>12, <1>s DEF RescueJob, FinishRows
<1>13. ASSUME NEW a \in Automation, CreateAutomation(a) \/ UpdateAutomation(a) \/ DeleteAutomation(a)
       PROVE PauseInv'
  BY <1>0, <1>13 DEF CreateAutomation, UpdateAutomation, DeleteAutomation, SaveAutomation
<1> QED BY <1>0, <1>1, <1>2, <1>3, <1>4, <1>5, <1>6, <1>7, <1>8, <1>9, <1>10, <1>11, <1>12, <1>13
        DEF Next, JobStep, vars, Quiescent

(* A walk that has paused has its continuation in the queue before anything
   else can happen to it, and the queue never loses it: a crash, a failed
   record or an edit after the pause can repeat work but not lose the rest. *)
THEOREM PausesAreHandedOver == Spec => []PauseHandsOver
<1>1. Init => PauseInv
  BY DEF Init, PauseInv, Paused, Idle
<1>2. PauseInv => PauseHandsOver
  BY DEF PauseInv, Paused, HandedOver, PauseHandsOver
<1> QED BY <1>1, <1>2, InitType, TypeStep, PausedStep, PTL DEF Spec

---------------------------------------------------------------------------
(* Effects.  As long as nothing has failed and nothing has been edited, every
   automation's part in an event is in one hand at a time: the event job until
   it has walked the workflow up to its pause, then the one resume job.  What
   has happened so far lies on the success route before the action that hand
   has reached.  A resume job is never tried again, as it neither fails nor
   comes to a second pause.  This is where two delays on the route would
   break the argument: the record of the second pause is refused. *)

Route(g) ==
    CHOOSE route \in SUBSET g.nodes :
        \E place \in [route -> 1 .. MaxSteps] : PausesOnceAlong(g, route, place)

Place(g) == CHOOSE place \in [Route(g) -> 1 .. MaxSteps] : PausesOnceAlong(g, Route(g), place)

Quiet == spent.fault = 0 /\ spent.edit = 0

(* x is on the route, after everything event e has made automation a do. *)
Ahead(e, a, x) ==
    LET g == automation[a].graph
    IN  /\ x \in Route(g)
        /\ \A y \in Action : effect[e][a][y] > 0 => y \in Route(g) /\ Place(g)[y] < Place(g)[x]

(* The pause of the workflow, if it has one, is before x. *)
PastPause(a, x) ==
    LET g == automation[a].graph
    IN  \A y \in Route(g) \cap g.delay : g.succ[y] # NoAction => Place(g)[y] < Place(g)[x]

(* Job i may yet have effects of event e through automation a: as the event,
   while it walks that automation's workflow, or as a resume, always. *)
Acts(i, e, a) ==
    /\ job[i].event = e
    /\ \/ job[i].kind = "resume" /\ job[i].automation = a
       \/ job[i].kind = "event" /\ exec[i].pc = "walk" /\ exec[i].row.id = a

(* Event e may yet come to evaluate automation a. *)
Pending(e, a) ==
    /\ job[e].kind = "event"
    /\ \/ job[e].state \in {"none", "available"} \/ exec[e].pc = "load"
       \/ \E r \in exec[e].rows : r.id = a /\ (exec[e].pc = "rows" \/ exec[e].row.id # a)

Sole == \A i, k, e \in Job, a \in Automation : Acts(i, e, a) /\ Acts(k, e, a) => i = k

Untouched ==
    \A e \in Job, a \in Automation : Pending(e, a) =>
        /\ \A x \in Action : effect[e][a][x] = 0
        /\ \A i \in Job : ~ Acts(i, e, a)

Current(r) == r = RowOf(r.id) /\ automation[r.id].status = "live"

OnTheWay(i) ==
    exec[i].pc = "walk" /\ exec[i].cur # NoAction =>
        LET route == Route(exec[i].row.graph)
            place == Place(exec[i].row.graph)
        IN  /\ Ahead(job[i].event, exec[i].row.id, exec[i].cur)
            /\ \A y \in exec[i].visited : y \in route /\ place[y] < place[exec[i].cur]
            /\ exec[i].steps < place[exec[i].cur]
            /\ job[i].kind = "resume" => PastPause(exec[i].row.id, exec[i].cur)

Waits(i) == job[i].state = "available" \/ exec[i].pc = "load"

ResumesOnce(i) ==
    job[i].kind = "resume" =>
        /\ automation[job[i].automation].status = "live"
        /\ Waits(i) => /\ Ahead(job[i].event, job[i].automation, job[i].next)
                       /\ PastPause(job[i].automation, job[i].next)
        /\ exec[i].pc = "record" => exec[i].outcome \in {"success", "skipped"}

RowsCurrent(i) == \A r \in exec[i].rows : Current(r)

RowCurrent(i) == exec[i].pc \in {"walk", "record"} => Current(exec[i].row)

Calm(i) ==
    /\ job[i].state \notin {"orphaned", "discarded"}
    /\ RowsCurrent(i) /\ RowCurrent(i)
    /\ OnTheWay(i)
    /\ ResumesOnce(i)

EffectsOnce == \A e \in Job, a \in Automation, x \in Action : effect[e][a][x] <= 1

QuietInv == Sole /\ Untouched /\ EffectsOnce /\ \A i \in Job : Calm(i)

UndisturbedInv == Quiet => QuietInv

PauseOnce == \A g \in Graph : PausesOnce(g)

LEMMA RouteFacts ==
  ASSUME NEW g, PausesOnce(g)
  PROVE /\ g.entry \in Route(g)
        /\ \A x \in Route(g) :
              /\ x \in g.nodes /\ Place(g)[x] \in 1 .. MaxSteps
              /\ g.succ[x] # NoAction => g.succ[x] \in Route(g) /\ Place(g)[x] < Place(g)[g.succ[x]]
        /\ \A x, y \in Route(g) \cap g.delay :
              g.succ[x] # NoAction /\ g.succ[y] # NoAction => x = y
<1>1. /\ Route(g) \in SUBSET g.nodes
      /\ \E place \in [Route(g) -> 1 .. MaxSteps] : PausesOnceAlong(g, Route(g), place)
  BY DEF PausesOnce, Route
<1>2. Place(g) \in [Route(g) -> 1 .. MaxSteps] /\ PausesOnceAlong(g, Route(g), Place(g))
  BY <1>1 DEF Place
<1> QED BY <1>1, <1>2 DEF PausesOnceAlong

LEMMA RowRoute ==
  ASSUME PauseOnce, TypeOK, NEW a \in Automation
  PROVE PausesOnce(automation[a].graph) /\ RowOf(a).graph = automation[a].graph
BY DEF PauseOnce, TypeOK, AutomationRows, RowOf

(* What an undisturbed step spends. *)
LEMMA QuietStep == TypeInv /\ [Next]_vars /\ Quiet' => Quiet /\ ~ Fault /\ ~ Spend("edit")
<1> SUFFICES ASSUME TypeInv, [Next]_vars, Quiet' PROVE Quiet /\ ~ Fault /\ ~ Spend("edit")
  OBVIOUS
<1>1. spent \in [event : Nat, tick : Nat, edit : Nat, fault : Nat]
  BY DEF TypeInv, TypeOK
<1>2. ~ Fault /\ ~ Spend("edit")
  BY <1>1 DEF Fault, Spend, Quiet
<1>3. UNCHANGED spent \/ Spend("event") \/ Spend("tick")
  <2>1. CASE UNCHANGED vars
    BY <2>1 DEF vars
  <2>2. CASE PublishEvent \/ PeriodicTick \/ WorkerCrash \/ Quiescent
    BY <1>2, <2>2 DEF PublishEvent, PeriodicTick, WorkerCrash, Quiescent, vars
  <2>3. CASE \E a \in Automation : CreateAutomation(a) \/ UpdateAutomation(a) \/ DeleteAutomation(a)
    BY <1>2, <2>3 DEF CreateAutomation, UpdateAutomation, DeleteAutomation
  <2>4. CASE \E j \in Job : \/ StartJob(j) \/ RescueJob(j) \/ LoadRows(j) \/ LoadResumed(j)
                            \/ NextRow(j) \/ EnqueueDue(j)
    BY <1>2, <2>4 DEF StartJob, RescueJob, LoadRows, LoadResumed, NextRow, EnqueueDue
  <2>5. CASE \E j \in Job : \/ FinishRows(j) \/ WalkEnds(j) \/ ExecuteEffect(j)
                            \/ ExecuteDelay(j) \/ RecordRun(j)
    BY <1>2, <2>5 DEF FinishRows, WalkEnds, ExecuteEffect, ExecuteDelay, RecordRun
  <2> QED BY <2>1, <2>2, <2>3, <2>4, <2>5 DEF Next, JobStep
<1>4. Quiet
  BY <1>1, <1>3 DEF Quiet, Spend
<1> QED BY <1>2, <1>4

---------------------------------------------------------------------------
(* What a step leaves as it is. *)

LiveStays == \A a \in Automation : automation[a].status = "live" => automation'[a] = automation[a]

LEMMA AheadKept ==
  ASSUME NEW e, NEW a, NEW x, automation'[a] = automation[a], effect'[e][a] = effect[e][a]
  PROVE Ahead(e, a, x) => Ahead(e, a, x)'
BY DEF Ahead

LEMMA PastPauseKept ==
  ASSUME NEW a, NEW x, automation'[a] = automation[a]
  PROVE PastPause(a, x) => PastPause(a, x)'
BY DEF PastPause

LEMMA CurrentKept ==
  ASSUME LiveStays, NEW r \in Row
  PROVE Current(r) => Current(r)'
BY DEF LiveStays, Current, RowOf, Row

SameWalk(i) ==
    /\ exec'[i].pc = exec[i].pc /\ exec'[i].row = exec[i].row /\ exec'[i].cur = exec[i].cur
    /\ exec'[i].visited = exec[i].visited /\ exec'[i].steps = exec[i].steps
    /\ exec'[i].outcome = exec[i].outcome

SameJob(i) == SameArgs(i) /\ job'[i].next = job[i].next

(* A job that is not at a step of its own walk stays calm. *)
LEMMA CalmKept ==
  ASSUME TypeInv, TypeInv', ScopeInv, NEW i \in Job, Calm(i), SameJob(i), LiveStays,
         exec'[i].pc \in {"walk", "record"} => SameWalk(i),
         \A r \in Row : r \in exec'[i].rows => r \in exec[i].rows \/ Current(r)',
         job'[i].state \notin {"orphaned", "discarded"},
         Waits(i)' => Waits(i),
         \A a \in Automation : Acts(i, job[i].event, a) =>
            effect'[job[i].event][a] = effect[job[i].event][a]
  PROVE Calm(i)'
<1>t. /\ job[i] \in Jobs /\ job[i] \in JobRows /\ exec[i] \in Executions /\ Held(i)
      /\ exec[i].pc \in {"walk", "record"} => exec[i].row \in Row
  BY DEF TypeInv, TypeOK, Evaluating, ScopeInv, HeldInv, Jobs
<1>k. /\ job'[i].kind = job[i].kind /\ job'[i].event = job[i].event
      /\ job'[i].automation = job[i].automation /\ job'[i].next = job[i].next
  BY DEF SameJob, SameArgs
<1>1. RowsCurrent(i)'
  <2>1. \A r \in exec[i].rows : r \in Row /\ Current(r)
    BY <1>t DEF Calm, RowsCurrent, Executions
  <2>2. \A r \in Row : r \in exec'[i].rows => Current(r)'
    BY <2>1, CurrentKept
  <2> QED BY <2>2 DEF RowsCurrent, TypeInv, TypeOK, Executions
<1>2. RowCurrent(i)'
  <2> SUFFICES ASSUME exec'[i].pc \in {"walk", "record"} PROVE RowCurrent(i)'
    BY DEF RowCurrent
  <2> DEFINE r == exec[i].row
  <2>1. exec'[i].row = r /\ r \in Row /\ Current(r)
    BY <1>t DEF SameWalk, Calm, RowCurrent
  <2>2. Current(r)'
    BY <2>1, CurrentKept
  <2> QED BY <2>1, <2>2 DEF RowCurrent, Current
<1>3. OnTheWay(i)'
  <2> SUFFICES ASSUME exec'[i].pc = "walk", exec'[i].cur # NoAction PROVE OnTheWay(i)'
    BY DEF OnTheWay
  <2>1. /\ exec[i].pc = "walk" /\ exec'[i].row = exec[i].row /\ exec'[i].cur = exec[i].cur
        /\ exec'[i].visited = exec[i].visited /\ exec'[i].steps = exec[i].steps
    BY DEF SameWalk
  <2>p. PICK e, a, x : e = job[i].event /\ a = exec[i].row.id /\ x = exec[i].cur
    OBVIOUS
  <2>2. OnTheWay(i) /\ Current(exec[i].row) /\ a \in Automation
    BY <1>t, <2>1, <2>p DEF Calm, RowCurrent, Row
  <2>3. Acts(i, e, a)
    <3>1. job[i].kind \in {"event", "resume", "tick"}
      BY <1>t DEF JobRows
    <3> QED BY <1>t, <2>1, <2>p, <3>1 DEF Acts, Held
  <2>4. automation'[a] = automation[a] /\ effect'[e][a] = effect[e][a]
    BY <2>2, <2>3, <2>p DEF LiveStays, Current
  <2>5. Ahead(e, a, x) /\ (job[i].kind = "resume" => PastPause(a, x))
    BY <2>1, <2>2, <2>p DEF OnTheWay
  <2>6. Ahead(e, a, x)' /\ (job[i].kind = "resume" => PastPause(a, x)')
    BY <2>4, <2>5, AheadKept, PastPauseKept
  <2>7. job'[i].event = e /\ exec'[i].row.id = a /\ exec'[i].cur = x /\ job'[i].kind = job[i].kind
    BY <1>k, <2>1, <2>p
  <2>8. /\ \A y \in exec'[i].visited : /\ y \in Route(exec'[i].row.graph)
                                       /\ Place(exec'[i].row.graph)[y] < Place(exec'[i].row.graph)[exec'[i].cur]
        /\ exec'[i].steps < Place(exec'[i].row.graph)[exec'[i].cur]
    BY <2>1, <2>2 DEF OnTheWay
  <2> QED BY <2>6, <2>7, <2>8 DEF OnTheWay, Route, Place
<1>4. ResumesOnce(i)'
  <2> SUFFICES ASSUME job'[i].kind = "resume" PROVE ResumesOnce(i)'
    BY DEF ResumesOnce
  <2>p. PICK e, a, x : e = job[i].event /\ a = job[i].automation /\ x = job[i].next
    OBVIOUS
  <2>1. ResumesOnce(i) /\ job[i].kind = "resume" /\ a \in Automation
    BY <1>t, <1>k, <2>p DEF Calm, Jobs
  <2>2. automation[a].status = "live" /\ automation'[a] = automation[a]
    BY <2>1, <2>p DEF ResumesOnce, LiveStays
  <2>3. effect'[e][a] = effect[e][a]
    BY <2>1, <2>p DEF Acts
  <2>4. Waits(i)' => Ahead(e, a, x) /\ PastPause(a, x)
    BY <2>1, <2>p DEF ResumesOnce
  <2>5. Waits(i)' => Ahead(e, a, x)' /\ PastPause(a, x)'
    BY <2>2, <2>3, <2>4, AheadKept, PastPauseKept
  <2>6. job'[i].event = e /\ job'[i].automation = a /\ job'[i].next = x
    BY <1>k, <2>p
  <2>7. exec'[i].pc = "record" => exec'[i].outcome \in {"success", "skipped"}
    BY <2>1 DEF ResumesOnce, SameWalk
  <2> QED BY <2>2, <2>5, <2>6, <2>7 DEF ResumesOnce
<1> QED BY <1>1, <1>2, <1>3, <1>4 DEF Calm

(* The invariant, from what each job is after a step that has no effect. *)
LEMMA QuietFromCalm ==
  ASSUME QuietInv, effect' = effect, \A i \in Job : Calm(i)',
         \A i, e \in Job, a \in Automation : Acts(i, e, a)' =>
            \/ Acts(i, e, a)
            \/ ~ Pending(e, a)' /\ \A k \in Job : Acts(k, e, a)' => k = i,
         \A e \in Job, a \in Automation : Pending(e, a)' => Pending(e, a)
  PROVE QuietInv'
<1>1. Sole'
  BY DEF QuietInv, Sole
<1>2. Untouched'
  BY DEF QuietInv, Untouched
<1>3. EffectsOnce'
  BY DEF QuietInv, EffectsOnce
<1> QED BY <1>1, <1>2, <1>3 DEF QuietInv

LEMMA OthersCalm ==
  ASSUME TypeInv, TypeInv', ScopeInv, QuietInv, LiveStays, effect' = effect, NEW i \in Job,
         exec'[i] = exec[i], job'[i] = job[i]
  PROVE Calm(i)'
<1>1. Calm(i) /\ SameJob(i) /\ SameWalk(i)
  BY DEF QuietInv, SameJob, SameArgs, SameWalk
<1>2. Waits(i)' => Waits(i)
  BY DEF Waits
<1> QED BY <1>1, <1>2, CalmKept DEF Calm

(* A step of one job's handler that has no effect. *)
LEMMA LocalStep ==
  ASSUME TypeInv, TypeInv', ScopeInv, QuietInv, automation' = automation, effect' = effect,
         NEW j \in Job, \A i \in Job \ {j} : exec'[i] = exec[i] /\ job'[i] = job[i],
         Calm(j)',
         \A e \in Job, a \in Automation : Acts(j, e, a)' =>
            Acts(j, e, a) \/ (Pending(e, a) /\ ~ Pending(e, a)'),
         \A a \in Automation : Pending(j, a)' => Pending(j, a)
  PROVE QuietInv'
<1>1. LiveStays
  BY DEF LiveStays
<1>2. \A i \in Job : Calm(i)'
  BY <1>1, OthersCalm
<1>3. \A i \in Job \ {j}, e \in Job, a \in Automation : Acts(i, e, a)' => Acts(i, e, a)
  BY DEF Acts
<1>4. \A e \in Job, a \in Automation : Pending(e, a)' => Pending(e, a)
  BY DEF Pending
<1>5. ASSUME NEW i \in Job, NEW e \in Job, NEW a \in Automation, Acts(i, e, a)', ~ Acts(i, e, a)
      PROVE ~ Pending(e, a)' /\ \A k \in Job : Acts(k, e, a)' => k = i
  <2>1. i = j /\ Pending(e, a) /\ ~ Pending(e, a)'
    BY <1>3, <1>5
  <2>2. \A k \in Job : ~ Acts(k, e, a)
    BY <2>1 DEF QuietInv, Untouched
  <2> QED BY <1>3, <2>1, <2>2
<1> QED BY <1>2, <1>4, <1>5, QuietFromCalm

(* A handler that writes its own execution, leaving its walk or going on as it was. *)
LEMMA RestStep ==
  ASSUME TypeInv, TypeInv', ScopeInv, QuietInv, automation' = automation, effect' = effect,
         NEW j \in Job, \A i \in Job \ {j} : exec'[i] = exec[i] /\ job'[i] = job[i],
         SameJob(j), exec'[j].pc \notin {"walk", "record"},
         \A r \in Row : r \in exec'[j].rows => r \in exec[j].rows \/ Current(r)',
         job'[j].state \notin {"orphaned", "discarded"},
         Waits(j)' => Waits(j),
         \A a \in Automation : Pending(j, a)' => Pending(j, a)
  PROVE QuietInv'
<1>1. Calm(j) /\ LiveStays
  BY DEF QuietInv, LiveStays
<1>2. Calm(j)'
  BY <1>1, CalmKept
<1>3. \A e \in Job, a \in Automation : Acts(j, e, a)' => Acts(j, e, a)
  BY DEF Acts, SameJob, SameArgs
<1> QED BY <1>2, <1>3, LocalStep

(* The handler of a job that stays as it is comes to record a run. *)
LEMMA RecordStep ==
  ASSUME TypeInv, TypeInv', ScopeInv, QuietInv, automation' = automation, effect' = effect,
         job' = job, NEW j \in Job, \A i \in Job \ {j} : exec'[i] = exec[i],
         job[j].state = "running", exec'[j].pc = "record", exec'[j].rows = exec[j].rows,
         Current(exec'[j].row),
         exec[j].pc \in {"load", "rows"} \/ exec'[j].row = exec[j].row,
         job[j].kind = "resume" => exec'[j].outcome \in {"success", "skipped"}
  PROVE QuietInv'
<1>c. Calm(j)
  BY DEF QuietInv
<1>1. Calm(j)'
  <2>1. RowsCurrent(j)' /\ RowCurrent(j)'
    BY <1>c DEF Calm, RowsCurrent, RowCurrent, Current, RowOf
  <2>2. ~ Waits(j)' /\ OnTheWay(j)'
    BY DEF Waits, OnTheWay
  <2>3. ResumesOnce(j)'
    BY <1>c, <2>2 DEF Calm, ResumesOnce
  <2> QED BY <1>c, <2>1, <2>2, <2>3 DEF Calm
<1>2. \A e \in Job, a \in Automation : Acts(j, e, a)' => Acts(j, e, a)
  BY DEF Acts
<1>3. \A a \in Automation : Pending(j, a)' => Pending(j, a)
  BY DEF Pending
<1> QED BY <1>1, <1>2, <1>3, LocalStep

(* A walk begins at the entry of an automation nothing has been done for yet, or
   where the pause of its workflow left off. *)
LEMMA BeginStep ==
  ASSUME PauseOnce, TypeInv, TypeInv', ScopeInv, QuietInv, automation' = automation,
         effect' = effect, job' = job, NEW j \in Job, NEW r \in Row, NEW n, Current(r),
         BeginWalk(j, r, n), job[j].state = "running",
         \/ /\ job[j].kind = "event" /\ exec[j].pc = "rows" /\ r \in exec[j].rows
            /\ n = r.graph.entry
         \/ /\ job[j].kind = "resume" /\ exec[j].pc = "load" /\ r.id = job[j].automation
            /\ n = job[j].next
  PROVE QuietInv'
<1>t. /\ exec[j] \in Executions /\ job[j] \in Jobs /\ job[j].event \in Job /\ QueueRow(j) /\ Calm(j)
      /\ r.id \in Automation
  BY DEF TypeInv, TypeOK, Jobs, JobRows, ScopeInv, QueueInv, QuietInv, Row
<1> DEFINE g == automation[r.id].graph
<1>g. r.graph = g /\ PausesOnce(g)
  BY <1>t, RowRoute DEF Current, TypeInv
<1>r. /\ g.entry \in Route(g)
      /\ \A x \in Route(g) : x \in g.nodes /\ Place(g)[x] \in 1 .. MaxSteps
  BY <1>g, RouteFacts
<1>1. /\ Ahead(job[j].event, r.id, n)
      /\ job[j].kind = "resume" => PastPause(r.id, n)
      /\ job[j].kind = "event" => job[j].event = j /\ Pending(j, r.id)
  <2>1. CASE job[j].kind = "event"
    <3>1. Pending(j, r.id) /\ job[j].event = j
      BY <1>t, <2>1 DEF Pending, QueueRow
    <3>2. \A x \in Action : effect[j][r.id][x] = 0
      BY <1>t, <3>1 DEF QuietInv, Untouched
    <3> QED BY <1>g, <1>r, <2>1, <3>1, <3>2 DEF Ahead
  <2>2. CASE job[j].kind = "resume"
    BY <1>t, <2>2 DEF Calm, ResumesOnce, Waits
  <2> QED BY <2>1, <2>2
<1>2. n \in Route(g)
  BY <1>1 DEF Ahead
<1>3. n \in r.graph.nodes /\ Place(g)[n] \in 1 .. MaxSteps
  BY <1>g, <1>r, <1>2
<1>4. /\ exec'[j].pc = "walk" /\ exec'[j].row = r /\ exec'[j].cur = n /\ exec'[j].visited = {}
      /\ exec'[j].steps = 0 /\ exec'[j].rows = exec[j].rows
      /\ \A i \in Job \ {j} : exec'[i] = exec[i]
  <2> DEFINE e == [exec[j] EXCEPT !.pc = "walk", !.outcome = "none", !.row = r, !.cur = n,
                                  !.visited = {}, !.steps = 0, !.times = [x \in Action |-> 0]]
  <2>1. exec' = [exec EXCEPT ![j] = e]
    BY <1>3 DEF BeginWalk
  <2>2. /\ e.pc = "walk" /\ e.row = r /\ e.cur = n /\ e.visited = {} /\ e.steps = 0
        /\ e.rows = exec[j].rows
    BY <1>t DEF Executions
  <2> HIDE DEF e
  <2> QED BY <2>1, <2>2 DEF TypeInv, TypeOK
<1>5. Calm(j)'
  <2>1. RowsCurrent(j)' /\ RowCurrent(j)'
    BY <1>t, <1>4 DEF Calm, RowsCurrent, RowCurrent, Current, RowOf
  <2>2. OnTheWay(j)'
    <3>p. PICK e, a : e = job[j].event /\ a = r.id
      OBVIOUS
    <3>1. Ahead(e, a, n)' /\ (job[j].kind = "resume" => PastPause(a, n)')
      BY <1>1, <3>p, AheadKept, PastPauseKept
    <3>2. Route(r.graph) = Route(g) /\ Place(r.graph)[n] \in 1 .. MaxSteps
      BY <1>3, <1>g
    <3>3. 0 < Place(r.graph)[n]
      BY <3>2
    <3> QED BY <1>4, <3>1, <3>3, <3>p DEF OnTheWay
  <2>3. ~ Waits(j)' /\ ResumesOnce(j)'
    BY <1>t, <1>4 DEF Waits, Calm, ResumesOnce
  <2> QED BY <1>t, <2>1, <2>2, <2>3 DEF Calm
<1>6. \A e \in Job, a \in Automation : Acts(j, e, a)' =>
        Acts(j, e, a) \/ (Pending(e, a) /\ ~ Pending(e, a)')
  BY <1>1, <1>4 DEF Acts, Pending
<1>7. \A a \in Automation : Pending(j, a)' => Pending(j, a)
  BY <1>4 DEF Pending
<1> QED BY <1>4, <1>5, <1>6, <1>7, LocalStep

(* A job enters the queue that is not a resume. *)
LEMMA InsertStep ==
  ASSUME TypeInv, TypeInv', ScopeInv, QuietInv, automation' = automation, effect' = effect,
         NEW k \in Job, NextJobID(k), NEW q \in Jobs, q.kind # "resume", q.state = "available",
         job' = [job EXCEPT ![k] = q],
         \A i \in Job : \/ exec'[i] = exec[i]
                        \/ /\ job[i].kind = "tick" /\ exec'[i].pc = "rows"
                           /\ exec'[i].rows \subseteq exec[i].rows
  PROVE QuietInv'
<1>1. /\ job'[k] = q /\ job[k].state = "none" /\ job[k].kind = "event" /\ exec[k] = Idle
      /\ \A i \in Job \ {k} : job'[i] = job[i]
  BY DEF TypeInv, TypeOK, Evaluating, NextJobID, ScopeInv, QueueInv, QueueRow, Unused
<1>2. exec'[k] = Idle
  BY <1>1
<1>3. LiveStays
  BY DEF LiveStays
<1>4. ASSUME NEW i \in Job PROVE Calm(i)'
  <2>1. CASE i = k
    BY <1>1, <1>2, <2>1 DEF Idle, Calm, RowsCurrent, RowCurrent, OnTheWay, ResumesOnce
  <2>2. CASE i # k
    <3>1. Calm(i) /\ SameJob(i) /\ job'[i] = job[i]
      BY <1>1, <2>2 DEF QuietInv, SameJob, SameArgs
    <3>2. exec'[i].pc \in {"walk", "record"} => SameWalk(i)
      BY DEF SameWalk
    <3>3. Waits(i)' => Waits(i)
      BY <3>1 DEF Waits
    <3>4. \A r \in Row : r \in exec'[i].rows => r \in exec[i].rows
      OBVIOUS
    <3> QED BY <1>3, <3>1, <3>2, <3>3, <3>4, CalmKept DEF Calm
  <2> QED BY <2>1, <2>2
<1>5. \A i, e \in Job, a \in Automation : Acts(i, e, a)' => Acts(i, e, a)
  <2> SUFFICES ASSUME NEW i \in Job, NEW e \in Job, NEW a \in Automation, Acts(i, e, a)'
               PROVE Acts(i, e, a)
    OBVIOUS
  <2>1. i # k
    BY <1>1, <1>2 DEF Acts, Idle
  <2> QED BY <1>1, <2>1 DEF Acts
<1>6. \A e \in Job, a \in Automation : Pending(e, a)' => Pending(e, a)
  BY <1>1 DEF Pending
<1> QED BY <1>4, <1>5, <1>6, QuietFromCalm

(* Nothing of the worker changes, and no automation but one not there before. *)
LEMMA StillStep ==
  ASSUME TypeInv, TypeInv', ScopeInv, QuietInv, LiveStays, job' = job, exec' = exec, effect' = effect
  PROVE QuietInv'
<1>1. \A i \in Job : Calm(i)'
  BY OthersCalm
<1>2. \A i, e \in Job, a \in Automation : Acts(i, e, a)' => Acts(i, e, a)
  BY DEF Acts
<1>3. \A e \in Job, a \in Automation : Pending(e, a)' => Pending(e, a)
  BY DEF Pending
<1> QED BY <1>1, <1>2, <1>3, QuietFromCalm

---------------------------------------------------------------------------
(* The walk *)

(* A walk on its way stands on an action of the route that it may execute and
   that no walk of this event and automation has executed. *)
LEMMA WalkStands ==
  ASSUME PauseOnce, TypeInv, NEW j \in Job, Calm(j), exec[j].pc = "walk", Here(j) # NoAction
  PROVE /\ exec[j].row.id \in Automation /\ Here(j) \in Action
        /\ automation[exec[j].row.id].graph = Walked(j)
        /\ PausesOnce(Walked(j))
        /\ Ahead(job[j].event, exec[j].row.id, Here(j))
        /\ Here(j) \in Route(Walked(j))
        /\ ~ WalkIsStuck(j)
<1> DEFINE g == Walked(j)
           x == Here(j)
<1>1. exec[j].row.id \in Automation /\ Current(exec[j].row) /\ x \in Action /\ OnTheWay(j)
  BY WalkedTyped DEF Calm, RowCurrent
<1>2. automation[exec[j].row.id].graph = g /\ PausesOnce(g)
  BY <1>1, RowRoute DEF Current, Walked, TypeInv
<1>3. /\ Ahead(job[j].event, exec[j].row.id, x)
      /\ \A y \in exec[j].visited : Place(g)[y] < Place(g)[x]
      /\ exec[j].steps < Place(g)[x]
  BY <1>1 DEF OnTheWay, Here, Walked
<1>4. x \in Route(g)
  BY <1>2, <1>3 DEF Ahead
<1>5. Place(g)[x] \in 1 .. MaxSteps
  BY <1>2, <1>4, RouteFacts
<1>6. ~ WalkIsStuck(j)
  <2>1. x \notin exec[j].visited
    BY <1>3, <1>5
  <2>2. exec[j].steps \in Nat
    BY DEF TypeInv, TypeOK, Executions
  <2>3. ~ (exec[j].steps >= MaxSteps)
    BY <1>3, <1>5, <2>2, LimitAssumption
  <2> QED BY <2>1, <2>3 DEF WalkIsStuck
<1> QED BY <1>1, <1>2, <1>3, <1>4, <1>6

(* Moving along on_success, with or without an effect, stays on the way. *)
LEMMA MoveStaysOnTheWay ==
  ASSUME PauseOnce, TypeInv, NEW j \in Job, Calm(j), exec[j].pc = "walk", Here(j) # NoAction,
         automation' = automation, job' = job, exec'[j].row = exec[j].row,
         exec'[j].cur = Walked(j).succ[Here(j)],
         exec'[j].visited = exec[j].visited \cup {Here(j)},
         exec'[j].steps = exec[j].steps + 1,
         \A y \in Action \ {Here(j)} :
            effect'[job[j].event][exec[j].row.id][y] = effect[job[j].event][exec[j].row.id][y]
  PROVE OnTheWay(j)'
<1> SUFFICES ASSUME exec'[j].pc = "walk", exec'[j].cur # NoAction PROVE OnTheWay(j)'
  BY DEF OnTheWay
<1>p. PICK g, x, n, e, a : /\ g = Walked(j) /\ x = Here(j) /\ n = g.succ[x]
                           /\ e = job[j].event /\ a = exec[j].row.id
  OBVIOUS
<1>1. /\ a \in Automation /\ x \in Action /\ automation[a].graph = g /\ PausesOnce(g)
      /\ Ahead(e, a, x) /\ x \in Route(g) /\ OnTheWay(j)
  BY <1>p, WalkStands DEF Calm
<1>2. /\ \A y \in exec[j].visited : y \in Route(g) /\ Place(g)[y] < Place(g)[x]
      /\ exec[j].steps < Place(g)[x]
      /\ job[j].kind = "resume" => PastPause(a, x)
  BY <1>1, <1>p DEF OnTheWay, Walked, Here
<1>r. \A y \in Route(g) : Place(g)[y] \in 1 .. MaxSteps
  BY <1>1, RouteFacts
<1>3. n \in Route(g) /\ Place(g)[x] < Place(g)[n]
  BY <1>1, <1>p, RouteFacts
<1>q. \A y \in Route(g) : Place(g)[y] < Place(g)[x] => Place(g)[y] < Place(g)[n]
  BY <1>r, <1>1, <1>3
<1>4. Ahead(e, a, n)'
  <2>1. \A y \in Action : effect'[e][a][y] > 0 => y = x \/ effect[e][a][y] > 0
    BY <1>p
  <2>2. \A y \in Action : effect[e][a][y] > 0 => y \in Route(g) /\ Place(g)[y] < Place(g)[x]
    BY <1>1 DEF Ahead
  <2>3. \A y \in Action : effect'[e][a][y] > 0 => y \in Route(g) /\ Place(g)[y] < Place(g)[n]
    BY <1>1, <1>3, <1>q, <2>1, <2>2
  <2> QED BY <1>1, <1>3, <2>3 DEF Ahead
<1>5. job[j].kind = "resume" => PastPause(a, n)'
  BY <1>1, <1>2, <1>q DEF PastPause
<1>6. \A y \in exec'[j].visited : y \in Route(g) /\ Place(g)[y] < Place(g)[n]
  BY <1>1, <1>2, <1>3, <1>q, <1>p
<1>7. exec'[j].steps < Place(g)[n]
  <2>1. exec[j].steps \in Nat /\ Place(g)[x] \in Nat /\ Place(g)[n] \in Nat
    BY <1>1, <1>3, <1>r DEF TypeInv, TypeOK, Executions
  <2> QED BY <1>2, <1>3, <2>1, SMTT(30)
<1>8. job'[j].event = e /\ exec'[j].row.id = a /\ exec'[j].cur = n /\ exec'[j].row.graph = g
  BY <1>p DEF Walked
<1> QED BY <1>4, <1>5, <1>6, <1>7, <1>8 DEF OnTheWay, Route, Place

LEMMA EffectStep ==
  ASSUME PauseOnce, TypeInv, TypeInv', ScopeInv, QuietInv, NEW j \in Job, ExecuteEffect(j), ~ Fault
  PROVE QuietInv'
<1>0. /\ job[j].state = "running" /\ exec[j].pc = "walk" /\ Here(j) # NoAction
      /\ automation' = automation /\ job' = job
  BY DEF ExecuteEffect, Executes, At
<1>p. PICK e, a, x, n : /\ e = job[j].event /\ a = exec[j].row.id /\ x = Here(j)
                        /\ n = Walked(j).succ[x]
  OBVIOUS
<1>1. /\ effect' = [effect EXCEPT ![e][a][x] = @ + 1]
      /\ exec' = [exec EXCEPT ![j] = Counted(MoveTo(j, n), x)]
  BY <1>p DEF ExecuteEffect
<1>t. /\ exec[j] \in Executions /\ job[j] \in Jobs /\ e \in Job /\ Calm(j) /\ Held(j)
      /\ QueueRow(j) /\ job[j].kind \in {"event", "resume", "tick"}
      /\ effect \in [Job -> [Automation -> [Action -> Nat]]]
  BY <1>p DEF TypeInv, TypeOK, Jobs, JobRows, ScopeInv, HeldInv, QueueInv, QuietInv
<1>2. a \in Automation /\ x \in Action /\ Ahead(e, a, x)
  BY <1>0, <1>p, <1>t, WalkStands
<1>3. /\ exec'[j].pc = "walk" /\ exec'[j].row = exec[j].row /\ exec'[j].cur = n
      /\ exec'[j].rows = exec[j].rows /\ exec'[j].steps = exec[j].steps + 1
      /\ exec'[j].visited = exec[j].visited \cup {x}
      /\ \A i \in Job \ {j} : exec'[i] = exec[i]
  <2> DEFINE m == Counted(MoveTo(j, n), x)
  <2>1. /\ m.pc = "walk" /\ m.row = exec[j].row /\ m.cur = n /\ m.rows = exec[j].rows
        /\ m.steps = exec[j].steps + 1 /\ m.visited = exec[j].visited \cup {x}
    BY <1>0, <1>t, <1>p DEF Counted, MoveTo, Executions
  <2>2. exec' = [exec EXCEPT ![j] = m]
    BY <1>1
  <2> HIDE DEF m
  <2> QED BY <2>1, <2>2 DEF TypeInv, TypeOK
<1>4. \A f \in Job, b \in Automation, y \in Action :
        effect'[f][b][y] = IF f = e /\ b = a /\ y = x THEN effect[f][b][y] + 1 ELSE effect[f][b][y]
  BY <1>1, <1>2, <1>t
<1>5. \A f \in Job, b \in Automation : ~ (f = e /\ b = a) => effect'[f][b] = effect[f][b]
  BY <1>1, <1>2, <1>t
<1>6. Acts(j, e, a)
  BY <1>0, <1>p, <1>t DEF Acts, Held
<1>7. LiveStays
  BY <1>0 DEF LiveStays
<1>8. ASSUME NEW i \in Job PROVE Calm(i)'
  <2>1. CASE i = j
    <3>1. OnTheWay(j)'
      BY <1>0, <1>2, <1>3, <1>4, <1>p, <1>t, MoveStaysOnTheWay
    <3>2. RowsCurrent(j)' /\ RowCurrent(j)'
      BY <1>0, <1>3, <1>t DEF Calm, RowsCurrent, RowCurrent, Current, RowOf
    <3>3. ~ Waits(j)' /\ ResumesOnce(j)'
      BY <1>0, <1>3, <1>t DEF Waits, Calm, ResumesOnce
    <3> QED BY <1>0, <1>t, <2>1, <3>1, <3>2, <3>3 DEF Calm
  <2>2. CASE i # j
    <3>1. Calm(i) /\ SameJob(i) /\ SameWalk(i) /\ exec'[i] = exec[i] /\ job'[i] = job[i]
      BY <1>0, <1>3, <2>2 DEF QuietInv, SameJob, SameArgs, SameWalk
    <3>2. job[i].event \in Job
      BY DEF TypeInv, TypeOK, Jobs, JobRows
    <3>3. \A b \in Automation : Acts(i, job[i].event, b) =>
            effect'[job[i].event][b] = effect[job[i].event][b]
      BY <1>2, <1>5, <1>6, <1>t, <2>2, <3>2 DEF QuietInv, Sole
    <3>4. Waits(i)' => Waits(i)
      BY <3>1 DEF Waits
    <3> QED BY <1>7, <3>1, <3>3, <3>4, CalmKept DEF Calm
  <2> QED BY <2>1, <2>2
<1>9. \A i, f \in Job, b \in Automation : Acts(i, f, b)' => Acts(i, f, b)
  BY <1>0, <1>3 DEF Acts
<1>10. \A f \in Job, b \in Automation : Pending(f, b)' => Pending(f, b)
  BY <1>0, <1>3 DEF Pending
<1>11. Sole'
  BY <1>9 DEF QuietInv, Sole
<1>12. Untouched'
  <2> SUFFICES ASSUME NEW f \in Job, NEW b \in Automation, Pending(f, b)'
               PROVE /\ \A y \in Action : effect'[f][b][y] = 0
                     /\ \A i \in Job : ~ Acts(i, f, b)'
    BY DEF Untouched
  <2>1. /\ \A y \in Action : effect[f][b][y] = 0
        /\ \A i \in Job : ~ Acts(i, f, b)
    BY <1>10 DEF QuietInv, Untouched
  <2>2. ~ (f = e /\ b = a)
    BY <1>6, <2>1
  <2> QED BY <1>5, <1>9, <2>1, <2>2
<1>13. EffectsOnce'
  <2> SUFFICES ASSUME NEW f \in Job, NEW b \in Automation, NEW y \in Action
               PROVE effect'[f][b][y] <= 1
    BY DEF EffectsOnce
  <2>1. effect[f][b][y] <= 1 /\ effect[f][b][y] \in Nat
    BY <1>t DEF QuietInv, EffectsOnce
  <2>2. CASE f = e /\ b = a /\ y = x
    <3>1. ~ (effect[e][a][x] > 0)
      <4>1. PausesOnce(automation[a].graph) /\ x \in Route(automation[a].graph)
        BY <1>2, RowRoute DEF TypeInv, Ahead
      <4>2. Place(automation[a].graph)[x] \in 1 .. MaxSteps
        BY <4>1, RouteFacts
      <4>3. effect[e][a][x] > 0 => Place(automation[a].graph)[x] < Place(automation[a].graph)[x]
        BY <1>2 DEF Ahead
      <4> QED BY <4>2, <4>3
    <3>2. effect[f][b][y] = 0
      BY <2>1, <2>2, <3>1
    <3>3. effect'[f][b][y] = effect[f][b][y] + 1
      BY <1>4, <2>2
    <3> QED BY <3>2, <3>3
  <2>3. CASE ~ (f = e /\ b = a /\ y = x)
    BY <1>4, <2>1, <2>3
  <2> QED BY <2>2, <2>3
<1> QED BY <1>8, <1>11, <1>12, <1>13 DEF QuietInv

(* The delay of the workflow: a resume for the rest of the route and no other. *)
LEMMA PauseStep ==
  ASSUME PauseOnce, TypeInv, TypeInv', ScopeInv, QuietInv, automation' = automation,
         effect' = effect, NEW j \in Job, Executes(j), Here(j) \in Walked(j).delay,
         Walked(j).succ[Here(j)] # NoAction, NEW k \in Job, NextJobID(k),
         job' = [job EXCEPT ![k] = ResumeJob(k, j, exec[j].row.id, Walked(j).succ[Here(j)])],
         exec' = [exec EXCEPT ![j] = Ended(MoveTo(j, Here(j)), "paused")]
  PROVE QuietInv'
<1>0. job[j].state = "running" /\ exec[j].pc = "walk" /\ Here(j) # NoAction
  BY DEF Executes, At
<1>p. PICK g, e, a, x, n : /\ g = Walked(j) /\ e = job[j].event /\ a = exec[j].row.id
                           /\ x = Here(j) /\ n = g.succ[x]
  OBVIOUS
<1>t. /\ exec[j] \in Executions /\ job[j] \in Jobs /\ e \in Job /\ Calm(j) /\ Held(j)
      /\ QueueRow(j) /\ job[j].kind \in {"event", "resume", "tick"}
  BY <1>p DEF TypeInv, TypeOK, Jobs, JobRows, ScopeInv, HeldInv, QueueInv, QuietInv
<1>1. /\ a \in Automation /\ x \in Action /\ Ahead(e, a, x) /\ automation[a].graph = g
      /\ PausesOnce(g) /\ x \in Route(g) /\ n # NoAction /\ x \in g.delay
  BY <1>0, <1>p, <1>t, WalkStands
<1>2. job[j].kind = "event" /\ e = j
  <2>1. job[j].kind # "resume"
    <3>1. Place(g)[x] \in 1 .. MaxSteps
      BY <1>1, RouteFacts
    <3>2. job[j].kind = "resume" => PastPause(a, x)
      BY <1>0, <1>p, <1>t DEF Calm, OnTheWay, Here
    <3>3. PastPause(a, x) => Place(g)[x] < Place(g)[x]
      BY <1>1, <1>p DEF PastPause
    <3> QED BY <3>1, <3>2, <3>3
  <2> QED BY <1>0, <1>p, <1>t, <2>1 DEF Held, QueueRow
<1>3. /\ k # j /\ job[k].state = "none" /\ job[k].kind = "event" /\ exec[k] = Idle
      /\ job'[k] = ResumeJob(k, j, a, n) /\ \A i \in Job \ {k} : job'[i] = job[i]
  BY <1>0, <1>p DEF TypeInv, TypeOK, Evaluating, NextJobID, ScopeInv, QueueInv, QueueRow, Unused
<1>4. /\ job'[k].kind = "resume" /\ job'[k].event = e /\ job'[k].automation = a
      /\ job'[k].next = n /\ job'[k].state = "available"
  <2>1. job[j].event = e
    BY <1>p
  <2>2. LET q == ResumeJob(k, j, a, n)
        IN  /\ q.kind = "resume" /\ q.event = e /\ q.automation = a /\ q.next = n
            /\ q.state = "available"
    BY <2>1 DEF ResumeJob, Unused
  <2> QED BY <1>3, <2>2
<1>5. /\ exec'[j].pc = "record" /\ exec'[j].row = exec[j].row /\ exec'[j].rows = exec[j].rows
      /\ \A i \in Job \ {j} : exec'[i] = exec[i]
  <2> DEFINE m == Ended(MoveTo(j, Here(j)), "paused")
  <2>1. m.pc = "record" /\ m.row = exec[j].row /\ m.rows = exec[j].rows
    BY <1>t DEF Ended, MoveTo, Executions
  <2>2. exec' = [exec EXCEPT ![j] = m]
    OBVIOUS
  <2> HIDE DEF m
  <2> QED BY <2>1, <2>2 DEF TypeInv, TypeOK
<1>6. Acts(j, e, a)
  BY <1>0, <1>p, <1>2 DEF Acts
<1>7. LiveStays
  BY DEF LiveStays
<1>8. Calm(j)'
  <2>1. job'[j] = job[j]
    BY <1>3
  <2>2. RowsCurrent(j)' /\ RowCurrent(j)'
    BY <1>0, <1>5, <1>t DEF Calm, RowsCurrent, RowCurrent, Current, RowOf
  <2>3. OnTheWay(j)' /\ ResumesOnce(j)'
    BY <1>2, <1>5, <2>1 DEF OnTheWay, ResumesOnce
  <2> QED BY <1>t, <2>1, <2>2, <2>3 DEF Calm
<1>9. Calm(k)'
  <2>1. exec'[k] = Idle /\ Idle.pc = "idle" /\ Idle.rows = {}
    BY <1>3, <1>5 DEF Idle
  <2>2. automation'[a].status = "live"
    BY <1>0, <1>p, <1>t DEF Calm, RowCurrent, Current
  <2>r. \A y \in Route(g) : Place(g)[y] \in 1 .. MaxSteps
    BY <1>1, RouteFacts
  <2>3. n \in Route(g) /\ Place(g)[x] < Place(g)[n]
    BY <1>1, <1>p, RouteFacts
  <2>4. Ahead(e, a, n)'
    <3>1. \A y \in Action : effect[e][a][y] > 0 => y \in Route(g) /\ Place(g)[y] < Place(g)[x]
      BY <1>1 DEF Ahead
    <3>2. \A y \in Action : effect[e][a][y] > 0 => y \in Route(g) /\ Place(g)[y] < Place(g)[n]
      BY <1>1, <2>r, <2>3, <3>1
    <3> QED BY <1>1, <2>3, <3>2 DEF Ahead
  <2>5. PastPause(a, n)'
    <3>1. \A y \in Route(g) \cap g.delay : g.succ[y] # NoAction => y = x
      BY <1>1, <1>p, RouteFacts
    <3> QED BY <1>1, <2>3, <3>1 DEF PastPause
  <2>6. ResumesOnce(k)'
    BY <1>4, <2>1, <2>2, <2>4, <2>5 DEF ResumesOnce
  <2> QED BY <1>4, <2>1, <2>6 DEF Calm, RowsCurrent, RowCurrent, OnTheWay
<1>10. \A i \in Job : Calm(i)'
  BY <1>3, <1>5, <1>7, <1>8, <1>9, OthersCalm
<1>11. \A i \in Job \ {k}, f \in Job, b \in Automation : Acts(i, f, b)' => i # j /\ Acts(i, f, b)
  BY <1>2, <1>3, <1>5 DEF Acts
<1>12. \A f \in Job, b \in Automation : Pending(f, b)' => Pending(f, b) /\ ~ (f = e /\ b = a)
  <2> SUFFICES ASSUME NEW f \in Job, NEW b \in Automation, Pending(f, b)'
               PROVE Pending(f, b) /\ ~ (f = e /\ b = a)
    OBVIOUS
  <2>1. f # k
    BY <1>4 DEF Pending
  <2>2. CASE f = j
    <3>1. job'[j] = job[j] /\ exec'[j].row = exec[j].row /\ exec[j].row.id = a
      BY <1>3, <1>5, <1>p
    <3> QED BY <1>0, <1>2, <1>5, <2>2, <3>1 DEF Pending
  <2>3. CASE f # j
    <3>1. job'[f] = job[f] /\ exec'[f] = exec[f]
      BY <1>3, <1>5, <2>1, <2>3
    <3> QED BY <1>2, <2>3, <3>1 DEF Pending
  <2> QED BY <2>2, <2>3
<1>13. \A f \in Job, b \in Automation : Acts(k, f, b)' => f = e /\ b = a
  BY <1>4 DEF Acts
<1>14. \A i \in Job : Acts(i, e, a)' => i = k
  BY <1>1, <1>6, <1>11, <1>t DEF QuietInv, Sole
<1>15. ASSUME NEW i \in Job, NEW f \in Job, NEW b \in Automation, Acts(i, f, b)', ~ Acts(i, f, b)
       PROVE ~ Pending(f, b)' /\ \A m \in Job : Acts(m, f, b)' => m = i
  <2>1. i = k /\ f = e /\ b = a
    BY <1>11, <1>13, <1>15
  <2> QED BY <1>12, <1>14, <2>1
<1> QED BY <1>10, <1>12, <1>15, QuietFromCalm

(* A delay at the end of the route has nothing to resume: the walk passes it. *)
LEMMA PassStep ==
  ASSUME TypeInv, TypeInv', ScopeInv, QuietInv, automation' = automation, effect' = effect,
         job' = job, NEW j \in Job, Executes(j),
         exec' = [exec EXCEPT ![j] = MoveTo(j, NoAction)]
  PROVE QuietInv'
<1>t. exec[j] \in Executions /\ Calm(j) /\ job[j].state = "running" /\ exec[j].pc = "walk"
  BY DEF TypeInv, TypeOK, QuietInv, Executes, At
<1>1. /\ exec'[j].pc = "walk" /\ exec'[j].row = exec[j].row /\ exec'[j].rows = exec[j].rows
      /\ exec'[j].cur = NoAction /\ \A i \in Job \ {j} : exec'[i] = exec[i]
  <2> DEFINE m == MoveTo(j, NoAction)
  <2>1. /\ m.pc = "walk" /\ m.row = exec[j].row /\ m.rows = exec[j].rows /\ m.cur = NoAction
    BY <1>t DEF MoveTo, Executions
  <2>2. exec' = [exec EXCEPT ![j] = m]
    OBVIOUS
  <2> HIDE DEF m
  <2> QED BY <2>1, <2>2 DEF TypeInv, TypeOK
<1>2. Calm(j)'
  <2>1. RowsCurrent(j)' /\ RowCurrent(j)'
    BY <1>1, <1>t DEF Calm, RowsCurrent, RowCurrent, Current, RowOf
  <2>2. OnTheWay(j)' /\ ~ Waits(j)'
    BY <1>1, <1>t DEF OnTheWay, Waits
  <2>3. ResumesOnce(j)'
    BY <1>1, <1>t, <2>2 DEF Calm, ResumesOnce
  <2> QED BY <1>t, <2>1, <2>2, <2>3 DEF Calm
<1>3. \A e \in Job, a \in Automation : Acts(j, e, a)' => Acts(j, e, a)
  BY <1>1, <1>t DEF Acts
<1>4. \A a \in Automation : Pending(j, a)' => Pending(j, a)
  BY <1>1, <1>t DEF Pending
<1> QED BY <1>1, <1>2, <1>3, <1>4, LocalStep

LEMMA CompleteStep ==
  ASSUME TypeInv, TypeInv', ScopeInv, QuietInv, automation' = automation, effect' = effect,
         NEW j \in Job, CompleteJob(j)
  PROVE QuietInv'
<1>1. exec'[j] = Idle /\ \A i \in Job \ {j} : exec'[i] = exec[i] /\ job'[i] = job[i]
  BY DEF CompleteJob, TypeInv, TypeOK
<1>2. job'[j].state = "completed" /\ SameJob(j)
  <2>1. job[j] \in JobRows
    BY DEF TypeInv, TypeOK, Jobs
  <2>2. job'[j] = [job[j] EXCEPT !.state = "completed"]
    BY DEF CompleteJob, TypeInv, TypeOK
  <2> QED BY <2>1, <2>2 DEF SameJob, SameArgs, JobRows
<1>3. exec'[j].pc = "idle" /\ exec'[j].rows = {}
  BY <1>1 DEF Idle
<1>4. ~ Waits(j)' /\ \A a \in Automation : ~ Pending(j, a)'
  BY <1>2, <1>3 DEF Waits, Pending
<1> QED BY <1>1, <1>2, <1>3, <1>4, RestStep

(* The event handler goes on with the rows that are left. *)
LEMMA NextEventRow ==
  ASSUME TypeInv, TypeInv', ScopeInv, QuietInv, automation' = automation, effect' = effect,
         NEW j \in Job, At(j, "record"), job[j].kind = "event", AfterEventRun(j)
  PROVE QuietInv'
<1>t. exec[j] \in Executions /\ Calm(j) /\ job[j].state = "running" /\ job' = job
  BY DEF TypeInv, TypeOK, QuietInv, At, AfterEventRun
<1>1. /\ exec'[j].pc = "rows" /\ exec'[j].rows = exec[j].rows \ {exec[j].row}
      /\ \A i \in Job \ {j} : exec'[i] = exec[i]
  <2> DEFINE m == [exec[j] EXCEPT !.pc = "rows", !.rows = @ \ {exec[j].row},
                                  !.dealt = @ \cup {exec[j].row.id},
                                  !.row = NoRow, !.outcome = "none"]
  <2>1. m.pc = "rows" /\ m.rows = exec[j].rows \ {exec[j].row}
    BY <1>t DEF Executions
  <2>2. exec' = [exec EXCEPT ![j] = m]
    BY DEF AfterEventRun
  <2> HIDE DEF m
  <2> QED BY <2>1, <2>2 DEF TypeInv, TypeOK
<1>2. ASSUME NEW a \in Automation, Pending(j, a)' PROVE Pending(j, a)
  <2>1. PICK r \in exec[j].rows : r # exec[j].row /\ r.id = a
    BY <1>1, <1>2, <1>t DEF Pending
  <2>2. Current(r) /\ Current(exec[j].row)
    BY <1>t DEF Calm, RowsCurrent, RowCurrent, At
  <2>3. exec[j].row.id # a
    BY <2>1, <2>2 DEF Current
  <2> QED BY <2>1, <2>3 DEF Pending
<1>3. SameJob(j) /\ (Waits(j)' => Waits(j)) /\ job'[j].state \notin {"orphaned", "discarded"}
  BY <1>1, <1>t DEF SameJob, SameArgs, Waits
<1> QED BY <1>1, <1>2, <1>3, <1>t, RestStep

LEMMA SkipStep ==
  ASSUME TypeInv, TypeInv', ScopeInv, QuietInv, automation' = automation, effect' = effect,
         job' = job, NEW j \in Job, NEW r \in Row, RecordNext(j, r, "skipped"), Current(r),
         job[j].state = "running", exec[j].pc \in {"load", "rows"}
  PROVE QuietInv'
<1> DEFINE m == [exec[j] EXCEPT !.pc = "record", !.row = r, !.outcome = "skipped"]
<1>t. exec[j] \in Executions
  BY DEF TypeInv, TypeOK
<1>1. m.pc = "record" /\ m.row = r /\ m.rows = exec[j].rows /\ m.outcome = "skipped"
  BY <1>t DEF Executions
<1>2. exec' = [exec EXCEPT ![j] = m]
  BY DEF RecordNext
<1> HIDE DEF m
<1>3. exec'[j] = m /\ \A i \in Job \ {j} : exec'[i] = exec[i]
  BY <1>2 DEF TypeInv, TypeOK
<1> QED BY <1>1, <1>3, RecordStep

LEMMA EndStep ==
  ASSUME TypeInv, TypeInv', ScopeInv, QuietInv, automation' = automation, effect' = effect,
         job' = job, NEW j \in Job, At(j, "walk"), exec' = [exec EXCEPT ![j] = Ended(@, "success")]
  PROVE QuietInv'
<1> DEFINE m == Ended(exec[j], "success")
<1>t. exec[j] \in Executions /\ job[j].state = "running" /\ Current(exec[j].row)
  BY DEF TypeInv, TypeOK, At, QuietInv, Calm, RowCurrent
<1>1. m.pc = "record" /\ m.row = exec[j].row /\ m.rows = exec[j].rows /\ m.outcome = "success"
  BY <1>t DEF Executions, Ended
<1>2. exec' = [exec EXCEPT ![j] = m]
  OBVIOUS
<1> HIDE DEF m
<1>3. exec'[j] = m /\ \A i \in Job \ {j} : exec'[i] = exec[i]
  BY <1>2 DEF TypeInv, TypeOK
<1> QED BY <1>1, <1>3, <1>t, RecordStep

---------------------------------------------------------------------------
(* The invariant is inductive; each step that needs a fault or an edit is none
   of an undisturbed behaviour. *)
LEMMA UndisturbedStep ==
  ASSUME PauseOnce
  PROVE TypeInv /\ TypeInv' /\ ScopeInv /\ UndisturbedInv /\ [Next]_vars => UndisturbedInv'
<1> SUFFICES ASSUME TypeInv, TypeInv', ScopeInv, UndisturbedInv, [Next]_vars, Quiet' PROVE QuietInv'
  BY DEF UndisturbedInv
<1>q. QuietInv /\ ~ Fault /\ ~ Spend("edit")
  BY QuietStep DEF UndisturbedInv
<1>e. \A j \in Job : /\ exec[j] \in Executions /\ job[j] \in Jobs /\ job[j] \in JobRows
                     /\ Held(j) /\ Calm(j)
  BY <1>q DEF TypeInv, TypeOK, ScopeInv, HeldInv, QuietInv, Jobs
<1>0. ASSUME UNCHANGED vars PROVE QuietInv'
  BY <1>0, <1>q, StillStep DEF vars, LiveStays
<1>1. ASSUME PublishEvent PROVE QuietInv'
  <2>1. PICK k \in Job : NextJobID(k) /\ job' = [job EXCEPT ![k] = EventJob(k, NoAutomation, NoSchedule)]
    BY <1>1 DEF PublishEvent
  <2> DEFINE q == EventJob(k, NoAutomation, NoSchedule)
  <2>2. q \in Jobs /\ q.state = "available" /\ q.kind # "resume"
    <3>1. NoAutomation \in Target
      BY DEF Target
    <3>2. q.kind = "event"
      BY DEF EventJob, Unused
    <3> QED BY <3>1, <3>2, EventJobTyped
  <2>3. automation' = automation /\ effect' = effect /\ exec' = exec
    BY <1>1 DEF PublishEvent
  <2> QED BY <1>q, <2>1, <2>2, <2>3, InsertStep
<1>2. ASSUME PeriodicTick PROVE QuietInv'
  <2>1. PICK k \in Job, d \in SUBSET Firing : NextJobID(k) /\ job' = [job EXCEPT ![k] = TickJob(k, d)]
    BY <1>2 DEF PeriodicTick
  <2> DEFINE q == TickJob(k, d)
  <2>2. q \in Jobs /\ q.state = "available" /\ q.kind # "resume"
    <3>1. q.kind = "tick"
      BY DEF TickJob, Unused
    <3> QED BY <3>1, TickJobTyped
  <2>3. automation' = automation /\ effect' = effect /\ exec' = exec
    BY <1>2 DEF PeriodicTick
  <2> QED BY <1>q, <2>1, <2>2, <2>3, InsertStep
<1>3. ASSUME NEW a \in Automation, CreateAutomation(a) PROVE QuietInv'
  <2>1. PICK row : automation' = [automation EXCEPT ![a] = row]
    BY <1>3 DEF CreateAutomation, SaveAutomation
  <2>2. LiveStays
    BY <1>3, <2>1 DEF CreateAutomation, LiveStays, TypeInv, TypeOK
  <2> QED BY <1>3, <1>q, <2>2, StillStep DEF CreateAutomation, SaveAutomation
<1>4. ASSUME NEW j \in Job, StartJob(j) PROVE QuietInv'
  <2>1. /\ job[j].state = "available" /\ automation' = automation /\ effect' = effect
        /\ exec' = [exec EXCEPT ![j] = [Idle EXCEPT !.pc = "load"]]
        /\ job' = [job EXCEPT ![j] = [job[j] EXCEPT !.state = "running", !.attempt = @ + 1]]
    BY <1>4 DEF StartJob, TypeInv, TypeOK
  <2> DEFINE m == [Idle EXCEPT !.pc = "load"]
             q == [job[j] EXCEPT !.state = "running", !.attempt = @ + 1]
  <2>2. m.pc = "load" /\ m.rows = {}
    BY DEF Idle
  <2>3. /\ q.state = "running" /\ q.kind = job[j].kind /\ q.event = job[j].event
        /\ q.automation = job[j].automation /\ q.sched = job[j].sched /\ q.next = job[j].next
    BY <1>e DEF JobRows
  <2>4. exec' = [exec EXCEPT ![j] = m] /\ job' = [job EXCEPT ![j] = q]
    BY <2>1
  <2> HIDE DEF m, q
  <2>5. /\ exec'[j] = m /\ job'[j] = q
        /\ \A i \in Job \ {j} : exec'[i] = exec[i] /\ job'[i] = job[i]
    BY <2>4 DEF TypeInv, TypeOK
  <2>6. SameJob(j) /\ Waits(j) /\ job'[j].state = "running" /\ exec'[j].pc = "load" /\ exec'[j].rows = {}
    BY <2>1, <2>2, <2>3, <2>5 DEF SameJob, SameArgs, Waits
  <2>7. \A a \in Automation : Pending(j, a)' => Pending(j, a)
    BY <2>1, <2>3, <2>5 DEF Pending
  <2> QED BY <1>q, <2>1, <2>5, <2>6, <2>7, RestStep
<1>5. ASSUME NEW j \in Job, LoadRows(j) PROVE QuietInv'
  <2> DEFINE found == IF job[j].kind = "event" THEN RowsForEvent(j) ELSE RowsForTick(j)
             m == [exec[j] EXCEPT !.pc = "rows", !.rows = found, !.listed = {r.id : r \in found}]
  <2>1. /\ At(j, "load") /\ automation' = automation /\ effect' = effect /\ job' = job
        /\ exec' = [exec EXCEPT ![j] = m]
    BY <1>5, <1>q DEF LoadRows
  <2>2. m.pc = "rows" /\ m.rows = found
    BY <1>e DEF Executions
  <2>3. \A r \in found : Current(r)
    <3>1. found \subseteq EnabledRows
      BY DEF RowsForEvent, RowsOfTrigger, RowsForTick
    <3>2. \A r \in EnabledRows : Current(r)
      BY DEF EnabledRows, Current, RowOf
    <3> QED BY <3>1, <3>2
  <2> HIDE DEF found, m
  <2>4. exec'[j] = m /\ \A i \in Job \ {j} : exec'[i] = exec[i]
    BY <2>1 DEF TypeInv, TypeOK
  <2>5. \A r \in Row : r \in exec'[j].rows => Current(r)'
    BY <2>1, <2>2, <2>3, <2>4 DEF Current, RowOf
  <2>6. SameJob(j) /\ Waits(j) /\ job'[j].state = "running" /\ exec'[j].pc = "rows"
    BY <2>1, <2>2, <2>4 DEF SameJob, SameArgs, Waits, At
  <2>7. \A a \in Automation : Pending(j, a)' => Pending(j, a)
    BY <2>1 DEF Pending, At
  <2> QED BY <1>q, <2>1, <2>4, <2>5, <2>6, <2>7, RestStep
<1>6. ASSUME NEW j \in Job, LoadResumed(j) PROVE QuietInv'
  <2> DEFINE a == job[j].automation
  <2>1. /\ At(j, "load") /\ job[j].kind = "resume" /\ automation' = automation /\ effect' = effect
        /\ automation[a].status = "live" /\ a \in Automation
    BY <1>6, <1>e DEF LoadResumed, Calm, ResumesOnce, Jobs
  <2>2. /\ job' = job
        /\ RecordNext(j, RowOf(a), "skipped") \/ BeginWalk(j, RowOf(a), job[j].next)
    BY <1>6, <1>q, <2>1 DEF LoadResumed
  <2>3. RowOf(a) \in Row /\ RowOf(a).id = a /\ Current(RowOf(a))
    <3>1. RowOf(a).id = a
      BY DEF RowOf
    <3> QED BY <2>1, <3>1, RowOfTyped DEF TypeInv, Current
  <2>4. CASE RecordNext(j, RowOf(a), "skipped")
    BY <1>q, <2>1, <2>2, <2>3, <2>4, SkipStep DEF At
  <2>5. CASE BeginWalk(j, RowOf(a), job[j].next)
    BY <1>q, <2>1, <2>2, <2>3, <2>5, BeginStep DEF At
  <2> QED BY <2>2, <2>4, <2>5
<1>7. ASSUME NEW j \in Job, NextRow(j) PROVE QuietInv'
  <2>1. PICK r \in exec[j].rows : RecordNext(j, r, "skipped") \/ BeginWalk(j, r, r.graph.entry)
    BY <1>7, <1>q DEF NextRow
  <2>2. /\ At(j, "rows") /\ job[j].kind = "event" /\ automation' = automation
        /\ effect' = effect /\ job' = job
    BY <1>7 DEF NextRow
  <2>3. r \in Row /\ Current(r)
    BY <1>e DEF Executions, Calm, RowsCurrent
  <2>4. CASE RecordNext(j, r, "skipped")
    BY <1>q, <2>2, <2>3, <2>4, SkipStep DEF At
  <2>5. CASE BeginWalk(j, r, r.graph.entry)
    BY <1>q, <2>2, <2>3, <2>5, BeginStep DEF At
  <2> QED BY <2>1, <2>4, <2>5
<1>8. ASSUME NEW j \in Job, EnqueueDue(j) PROVE QuietInv'
  <2>1. PICK r \in exec[j].rows :
            /\ exec' = [exec EXCEPT ![j].rows = @ \ {r}, ![j].dealt = @ \cup {r.id}]
            /\ \E k \in Job : NextJobID(k) /\ job' = [job EXCEPT ![k] = EventJob(k, r.id, Effective(r.sched))]
    BY <1>8, <1>q DEF EnqueueDue
  <2>2. PICK k \in Job : NextJobID(k) /\ job' = [job EXCEPT ![k] = EventJob(k, r.id, Effective(r.sched))]
    BY <2>1
  <2> DEFINE m == [exec[j] EXCEPT !.rows = @ \ {r}, !.dealt = @ \cup {r.id}]
             q == EventJob(k, r.id, Effective(r.sched))
  <2>3. At(j, "rows") /\ job[j].kind = "tick" /\ automation' = automation /\ effect' = effect
    BY <1>8 DEF EnqueueDue
  <2>4. m.pc = "rows" /\ m.rows \subseteq exec[j].rows
    BY <1>e, <2>3 DEF Executions, At
  <2>5. exec' = [exec EXCEPT ![j] = m]
    BY <2>1
  <2> HIDE DEF m
  <2>6. \A i \in Job : \/ exec'[i] = exec[i]
                       \/ /\ job[i].kind = "tick" /\ exec'[i].pc = "rows"
                          /\ exec'[i].rows \subseteq exec[i].rows
    BY <2>3, <2>4, <2>5 DEF TypeInv, TypeOK
  <2>7. q \in Jobs /\ q.state = "available" /\ q.kind # "resume"
    <3>1. r.id \in Target /\ Effective(r.sched) \in Firing \cup {NoSchedule}
      BY <1>e, EffectiveTyped DEF Executions, Row, Target
    <3>2. q.kind = "event"
      BY DEF EventJob, Unused
    <3> QED BY <3>1, <3>2, EventJobTyped
  <2> QED BY <1>q, <2>2, <2>3, <2>6, <2>7, InsertStep
<1>9. ASSUME NEW j \in Job, FinishRows(j) PROVE QuietInv'
  BY <1>9, <1>q, CompleteStep DEF FinishRows
<1>10. ASSUME NEW j \in Job, WalkEnds(j) PROVE QuietInv'
  <2>1. At(j, "walk") /\ automation' = automation /\ effect' = effect /\ job' = job
    BY <1>10 DEF WalkEnds
  <2>2. Here(j) # NoAction => ~ WalkIsStuck(j)
    BY <1>e, <2>1, WalkStands DEF At
  <2>3. exec' = [exec EXCEPT ![j] = Ended(@, "success")]
    BY <1>10, <2>2 DEF WalkEnds
  <2> QED BY <1>q, <2>1, <2>3, EndStep
<1>11. ASSUME NEW j \in Job, ExecuteEffect(j) PROVE QuietInv'
  BY <1>11, <1>q, EffectStep
<1>12. ASSUME NEW j \in Job, ExecuteDelay(j) PROVE QuietInv'
  <2> DEFINE n == Walked(j).succ[Here(j)]
  <2>1. /\ Executes(j) /\ Here(j) \in Walked(j).delay /\ automation' = automation /\ effect' = effect
    BY <1>12 DEF ExecuteDelay
  <2>2. CASE n = NoAction
    BY <1>12, <1>q, <2>1, <2>2, PassStep DEF ExecuteDelay
  <2>3. CASE n # NoAction
    BY <1>12, <1>q, <2>1, <2>3, PauseStep DEF ExecuteDelay
  <2> QED BY <2>2, <2>3
<1>13. ASSUME NEW j \in Job, RecordRun(j) PROVE QuietInv'
  <2>1. At(j, "record") /\ automation' = automation /\ effect' = effect
    BY <1>13 DEF RecordRun
  <2>2. CASE job[j].kind = "event"
    BY <1>13, <1>q, <2>1, <2>2, NextEventRow DEF RecordRun
  <2>3. CASE job[j].kind # "event"
    <3>1. job[j].kind = "resume"
      BY <1>e, <2>1, <2>3 DEF Held, At, JobRows
    <3>2. exec[j].outcome \in {"success", "skipped"} /\ Current(exec[j].row)
      BY <1>e, <2>1, <3>1 DEF Calm, ResumesOnce, RowCurrent, At
    <3>3. RunInsertable(j)
      BY <3>2 DEF RunInsertable, RunStatus, Current
    <3>4. CompleteJob(j)
      BY <1>13, <1>q, <2>3, <3>2, <3>3 DEF RecordRun, AfterResumeRun
    <3> QED BY <1>q, <2>1, <3>4, CompleteStep
  <2> QED BY <2>2, <2>3
<1>14. ASSUME NEW j \in Job, RescueJob(j) PROVE FALSE
  BY <1>14, <1>e DEF RescueJob, Calm
<1>15. ASSUME NEW a \in Automation, UpdateAutomation(a) \/ DeleteAutomation(a) PROVE FALSE
  BY <1>15, <1>q DEF UpdateAutomation, DeleteAutomation
<1>16. ASSUME WorkerCrash PROVE FALSE
  BY <1>16, <1>q DEF WorkerCrash
<1> QED BY <1>0, <1>1, <1>2, <1>3, <1>4, <1>5, <1>6, <1>7, <1>8, <1>9, <1>10, <1>11, <1>12, <1>13,
           <1>14, <1>15, <1>16 DEF Next, JobStep, Quiescent

LEMMA InitUndisturbed == Init => UndisturbedInv
<1> SUFFICES ASSUME Init PROVE QuietInv
  BY DEF UndisturbedInv
<1>1. \A i \in Job : /\ exec[i] = Idle /\ job[i] = Unused(i) /\ exec[i].pc = "idle" /\ exec[i].rows = {}
                     /\ job[i].kind = "event" /\ job[i].state = "none"
  BY DEF Init, Idle, Unused
<1>2. \A i, e \in Job, a \in Automation : ~ Acts(i, e, a)
  BY <1>1 DEF Acts
<1>3. \A e \in Job, a \in Automation, x \in Action : effect[e][a][x] = 0
  BY DEF Init
<1>4. \A i \in Job : Calm(i)
  BY <1>1 DEF Calm, RowsCurrent, RowCurrent, OnTheWay, ResumesOnce
<1>5. EffectsOnce
  <2>1. ASSUME NEW e \in Job, NEW a \in Automation, NEW x \in Action PROVE effect[e][a][x] <= 1
    <3>1. effect[e][a][x] = 0
      BY <1>3
    <3> QED BY <3>1
  <2> QED BY <2>1 DEF EffectsOnce
<1>6. Sole /\ Untouched
  BY <1>2, <1>3 DEF Sole, Untouched
<1> QED BY <1>4, <1>5, <1>6 DEF QuietInv

(* While nothing fails and nobody edits, an event has each effect at most once,
   in however many jobs and walks, if every workflow that may be saved pauses
   at most once on its success route and has no more actions there than
   RunActionGraphFrom's step limit.  For a workflow with a second delay the
   run replayed shows it to be false. *)
THEOREM UndisturbedWorkIsDoneOnce ==
  ASSUME \A g \in Graph : PausesOnce(g)
  PROVE Spec => []UndisturbedEffectsOnce
<1>1. PauseOnce
  BY DEF PauseOnce
<1>2. TypeInv /\ TypeInv' /\ ScopeInv /\ UndisturbedInv /\ [Next]_vars => UndisturbedInv'
  BY <1>1, UndisturbedStep
<1>3. UndisturbedInv => UndisturbedEffectsOnce
  BY DEF UndisturbedInv, Quiet, QuietInv, EffectsOnce, UndisturbedEffectsOnce
<1> QED BY <1>2, <1>3, InitUndisturbed, Scope, PTL DEF Spec
=============================================================================
