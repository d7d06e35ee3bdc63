-------------------------- MODULE AutomationEngine --------------------------
(***************************************************************************)
(* The automations engine of one organisation: the automations table, the  *)
(* River job queue, the worker's handlers for automation_event,            *)
(* automation_resume and schedule_tick jobs, and the automation_runs table *)
(* (internal/service/automations.go, internal/jobs/river_client.go,        *)
(* core/automations/workflow.go, migrations 000014 and 000030).            *)
(*                                                                         *)
(* Every database statement, queue insert and outside effect is a step of  *)
(* its own, so the jobs interleave with each other, with the API's edits   *)
(* and with the death of the worker.  River itself is not in the           *)
(* repository: it is modelled as what the handlers rely on, at-least-once  *)
(* delivery with a bounded number of attempts.                             *)
(***************************************************************************)
EXTENDS ActionGraph

CONSTANTS
    Automation,     \* row ids, numbered in order of created_at
    NoAutomation,   \* an event without payload.automation_id
    CronExpr,       \* what trigger_params.expr of a schedule.cron may be
    Zone,           \* what its timezone may be
    DefaultTimezone,    \* the one that a rule without a timezone is due by
    Unset,          \* a timezone that is left out
    NoSchedule,     \* the binding of any other trigger: one domain trigger
    Graph,          \* the action workflows an API client may save
    NoRow,          \* no automation under evaluation
    Job,            \* River job ids, in insertion order
    MaxWorkers,     \* QueueConfig.MaxWorkers, 4 in the code
    MaxAttempts,    \* River's attempt limit, 25 by default
    MaxSteps,       \* maxWorkflowSteps, 64 in the code
    Bound           \* how many events, ticks, edits and faults to explore

ASSUME AutomationAssumption == Automation \subseteq Nat /\ NoAutomation \notin Automation

(* The bindings that a schedule.cron rule may have, and what a tick finds due. *)
Schedule == [expr : CronExpr, zone : Zone \cup {Unset}]
Firing == [expr : CronExpr, zone : Zone]

ASSUME ScheduleAssumption ==
    DefaultTimezone \in Zone /\ Unset \notin Zone /\ NoSchedule \notin Schedule
ASSUME JobAssumption == Job \subseteq Nat
ASSUME GraphAssumption ==
    Graph \subseteq ActionGraphs /\ Graph # {} /\ \A g \in Graph : ValidateActionGraph(g)
ASSUME LimitAssumption ==
    /\ MaxWorkers \in Nat /\ MaxAttempts \in Nat \ {0} /\ MaxSteps \in Nat
    /\ Bound \in [event : Nat, tick : Nat, edit : Nat, fault : Nat]

VARIABLES
    automation,     \* the automations table
    job,            \* the river_job table
    exec,           \* what the worker's memory holds of each job it works
    runs,           \* the automation_runs table
    effect,         \* history: outside effects, by the event that caused them
    spent           \* how much of Bound has been used

vars == <<automation, job, exec, runs, effect, spent>>

Binding == Schedule \cup {NoSchedule}
Target == Automation \cup {NoAutomation}

AutomationRows ==
    [status : {"unborn", "live", "deleted"}, enabled : BOOLEAN,
     sched : Binding, graph : Graph]

(* What a handler reads of a row. *)
Row == [id : Automation, enabled : BOOLEAN, sched : Binding, graph : Graph]

ASSUME NoRowAssumption == NoRow \notin Row

JobRows ==
    [state : {"none", "available", "running", "orphaned", "completed", "discarded"},
     kind : {"event", "resume", "tick"},
     attempt : Nat,
     event : Job,               \* history: the event job this work descends from
     automation : Target,       \* payload.automation_id, or the resumed row
     sched : Firing \cup {NoSchedule},  \* payload.expr and payload.timezone
     next : Edge,               \* next_action_id of a resume
     due : SUBSET Firing]       \* what fires at a tick's minute

Jobs == {k \in JobRows : k.kind = "resume" => k.automation \in Automation}

Outcome == {"none", "success", "skipped", "error", "paused"}

Executions ==
    [pc : {"idle", "load", "rows", "walk", "record"},
     rows : SUBSET Row, row : Row \cup {NoRow},
     listed : SUBSET Automation,    \* history: ids the event listed
     dealt : SUBSET Automation,     \* history: ids evaluated in this attempt
     cur : Edge, visited : SUBSET Action, steps : Nat,
     times : [Action -> Nat],       \* history: effects of this walk
     outcome : Outcome]

(* CHECK (status IN (...)) of migration 000014; no later migration changes it. *)
RunStatus == {"success", "skipped", "error"}

Run == [job : Job, attempt : Nat, automation : Automation, status : RunStatus]

Idle ==
    [pc |-> "idle", rows |-> {}, row |-> NoRow, listed |-> {}, dealt |-> {},
     cur |-> NoAction, visited |-> {}, steps |-> 0,
     times |-> [x \in Action |-> 0], outcome |-> "none"]

Unused(k) ==
    [state |-> "none", kind |-> "event", attempt |-> 0, event |-> k,
     automation |-> NoAutomation, sched |-> NoSchedule, next |-> NoAction, due |-> {}]

Init ==
    /\ automation = [a \in Automation |->
            [status |-> "unborn", enabled |-> FALSE, sched |-> NoSchedule,
             graph |-> CHOOSE g \in Graph : TRUE]]
    /\ job = [k \in Job |-> Unused(k)]
    /\ exec = [k \in Job |-> Idle]
    /\ runs = {}
    /\ effect = [e \in Job |-> [a \in Automation |-> [x \in Action |-> 0]]]
    /\ spent = [event |-> 0, tick |-> 0, edit |-> 0, fault |-> 0]

---------------------------------------------------------------------------
(* Faults and bounds *)

Spend(what) ==
    /\ spent[what] < Bound[what]
    /\ spent' = [spent EXCEPT ![what] = @ + 1]

Fault == Spend("fault")

---------------------------------------------------------------------------
(* The queue *)

NextJobID(k) ==
    /\ job[k].state = "none"
    /\ \A i \in Job : job[i].state = "none" => k <= i

EventJob(k, a, s) ==
    [Unused(k) EXCEPT !.state = "available", !.automation = a, !.sched = s]

ResumeJob(k, j, a, next) ==
    [Unused(k) EXCEPT !.state = "available", !.kind = "resume", !.automation = a,
                      !.event = job[j].event, !.sched = job[j].sched, !.next = next]

TickJob(k, due) ==
    [Unused(k) EXCEPT !.state = "available", !.kind = "tick", !.due = due]

(* A domain write calls EnqueueAutomationEvent after it has committed: the
   insert is not part of its transaction and a failed one is only logged. *)
PublishEvent ==
    /\ Spend("event")
    /\ \E k \in Job :
        NextJobID(k) /\ job' = [job EXCEPT ![k] = EventJob(k, NoAutomation, NoSchedule)]
    /\ UNCHANGED <<automation, exec, runs, effect>>

(* The periodic job of NewWorkerClient.  Which cron expressions fire at the
   tick's minute is fixed by the minute, so a retried tick sees the same ones. *)
PeriodicTick ==
    /\ Spend("tick")
    /\ \E k \in Job, due \in SUBSET Firing :
        NextJobID(k) /\ job' = [job EXCEPT ![k] = TickJob(k, due)]
    /\ UNCHANGED <<automation, exec, runs, effect>>

StartJob(j) ==
    /\ job[j].state = "available"
    /\ Cardinality({i \in Job : job[i].state = "running"}) < MaxWorkers
    /\ job' = [job EXCEPT ![j].state = "running", ![j].attempt = @ + 1]
    /\ exec' = [exec EXCEPT ![j] = [Idle EXCEPT !.pc = "load"]]
    /\ UNCHANGED <<automation, runs, effect, spent>>

(* The handler returned nil, or an error: River retries until the limit. *)
CompleteJob(j) ==
    /\ job' = [job EXCEPT ![j].state = "completed"]
    /\ exec' = [exec EXCEPT ![j] = Idle]

(* Mutant: a retry that does not count. *)
FailAttempt_Uncounted(j) ==
    /\ job' = [job EXCEPT ![j].state = "available", ![j].attempt = 0]
    /\ exec' = [exec EXCEPT ![j] = Idle]

FailAttempt(j) ==
    /\ job' = [job EXCEPT ![j].state =
                  IF job[j].attempt < MaxAttempts THEN "available" ELSE "discarded"]
    /\ exec' = [exec EXCEPT ![j] = Idle]

(* The worker process dies: what it held in memory is gone, the rows of its
   running jobs stay until River's rescuer finds them. *)
WorkerCrash ==
    /\ \E j \in Job : job[j].state = "running"
    /\ Fault
    /\ job' = [j \in Job |-> IF job[j].state = "running"
                             THEN [job[j] EXCEPT !.state = "orphaned"] ELSE job[j]]
    /\ exec' = [j \in Job |-> Idle]
    /\ UNCHANGED <<automation, runs, effect>>

RescueJob(j) ==
    /\ job[j].state = "orphaned"
    /\ FailAttempt(j)
    /\ UNCHANGED <<automation, runs, effect, spent>>

---------------------------------------------------------------------------
(* Loading: the first statement of each handler *)

At(j, pc) == job[j].state = "running" /\ exec[j].pc = pc

RowOf(a) == [id |-> a, enabled |-> automation[a].enabled,
             sched |-> automation[a].sched, graph |-> automation[a].graph]

EnabledRows ==
    {RowOf(a) : a \in {b \in Automation : automation[b].status = "live" /\ automation[b].enabled}}

(* ListEnabledAutomationsByTrigger: rows of the event's own trigger. *)
RowsOfTrigger(j) == {r \in EnabledRows : r.sched = NoSchedule <=> job[j].sched = NoSchedule}

(* MatchTriggerParams for the parameters of a schedule: one that the row leaves
   out is passed over, whatever the event says. *)
MatchTriggerParams(s, fired) == s.expr = fired.expr /\ s.zone \in {Unset, fired.zone}

(* Mutants: the loop without MatchTriggerParams, and without the target. *)
RowsForEvent_AnyBinding(j) ==
    {r \in RowsOfTrigger(j) : job[j].automation # NoAutomation => r.id = job[j].automation}

RowsForEvent_AnyTarget(j) ==
    {r \in RowsOfTrigger(j) : r.sched # NoSchedule => MatchTriggerParams(r.sched, job[j].sched)}

(* The query and the two `continue`s of the loop over its rows: the event's
   target, and the parameters of the row against the payload of the tick. *)
RowsForEvent(j) ==
    {r \in RowsOfTrigger(j) :
        /\ r.sched # NoSchedule => MatchTriggerParams(r.sched, job[j].sched)
        /\ job[j].automation # NoAutomation => r.id = job[j].automation}

(* CronDueAt, and the payload of the tick: a timezone left out is the default. *)
Effective(s) ==
    IF s # NoSchedule /\ s.zone = Unset THEN [s EXCEPT !.zone = DefaultTimezone] ELSE s

RowsForTick(j) == {r \in EnabledRows : Effective(r.sched) \in job[j].due}

LoadRows(j) ==
    /\ At(j, "load") /\ job[j].kind \in {"event", "tick"}
    /\ \/ LET found == IF job[j].kind = "event" THEN RowsForEvent(j) ELSE RowsForTick(j)
          IN  /\ exec' = [exec EXCEPT ![j].pc = "rows", ![j].rows = found,
                                      ![j].listed = {r.id : r \in found}]
              /\ UNCHANGED <<job, spent>>
       \/ Fault /\ FailAttempt(j)
    /\ UNCHANGED <<automation, runs, effect>>

(* The start of RunActionGraphFrom: an id the current actions do not have is
   an error of the run, not of the lookup. *)
BeginWalk(j, r, start) ==
    exec' = [exec EXCEPT ![j].pc = IF start \in r.graph.nodes THEN "walk" ELSE "record",
                         ![j].outcome = IF start \in r.graph.nodes THEN "none" ELSE "error",
                         ![j].row = r, ![j].cur = start, ![j].visited = {}, ![j].steps = 0,
                         ![j].times = [x \in Action |-> 0]]

RecordNext(j, r, outcome) ==
    exec' = [exec EXCEPT ![j].pc = "record", ![j].row = r, ![j].outcome = outcome]

(* runOneAutomation on the oldest row left: conditions, then subjects, then
   the walk.  Whether the conditions match the payload is left open. *)
NextRow(j) ==
    /\ At(j, "rows") /\ job[j].kind = "event"
    /\ \E r \in exec[j].rows :
        /\ \A q \in exec[j].rows : r.id <= q.id
        /\ \/ RecordNext(j, r, "skipped") /\ UNCHANGED spent
           \/ Fault /\ RecordNext(j, r, "error")            \* resolveSubjects
           \/ BeginWalk(j, r, r.graph.entry) /\ UNCHANGED spent
    /\ UNCHANGED <<automation, job, runs, effect>>

(* ResumeAutomation reads the row as it is now: gone is an error, and so a
   retry; disabled is recorded; otherwise the walk goes on in the actions of
   today, at the id the delay named when it paused. *)
LoadResumed(j) ==
    /\ At(j, "load") /\ job[j].kind = "resume"
    /\ LET a == job[j].automation
       IN  \/ /\ automation[a].status # "live"
              /\ FailAttempt(j) /\ UNCHANGED spent
           \/ Fault /\ FailAttempt(j)
           \/ /\ automation[a].status = "live" /\ ~ automation[a].enabled
              /\ RecordNext(j, RowOf(a), "skipped") /\ UNCHANGED <<job, spent>>
           \/ /\ automation[a].status = "live" /\ automation[a].enabled
              /\ \/ BeginWalk(j, RowOf(a), job[j].next) /\ UNCHANGED spent
                 \/ Fault /\ RecordNext(j, RowOf(a), "error")  \* resolveSubjects
              /\ UNCHANGED job
    /\ UNCHANGED <<automation, runs, effect>>

(* ProcessScheduleTick: one event per due row, scoped to that row.  The insert
   may fail and is then only logged. *)
EnqueueDue(j) ==
    /\ At(j, "rows") /\ job[j].kind = "tick"
    /\ \E r \in exec[j].rows :
        /\ \A q \in exec[j].rows : r.id <= q.id
        /\ exec' = [exec EXCEPT ![j].rows = @ \ {r}, ![j].dealt = @ \cup {r.id}]
        /\ \/ /\ \E k \in Job : NextJobID(k) /\ job' = [job EXCEPT ![k] = EventJob(k, r.id, Effective(r.sched))]
              /\ UNCHANGED spent
           \/ Fault /\ UNCHANGED job
    /\ UNCHANGED <<automation, runs, effect>>

FinishRows(j) ==
    /\ At(j, "rows") /\ exec[j].rows = {}
    /\ CompleteJob(j)
    /\ UNCHANGED <<automation, runs, effect, spent>>

---------------------------------------------------------------------------
(* The walk: RunActionGraphFrom with executeAction as its runner *)

Here(j) == exec[j].cur
Walked(j) == exec[j].row.graph

(* Mutant: the step limit alone. *)
WalkIsStuck_LimitOnly(j) == exec[j].steps >= MaxSteps

(* Why the walk may not execute the action it has reached. *)
WalkIsStuck(j) == exec[j].steps >= MaxSteps \/ Here(j) \in exec[j].visited

Executes(j) == At(j, "walk") /\ Here(j) # NoAction /\ ~ WalkIsStuck(j)

MoveTo(j, next) ==
    [exec[j] EXCEPT !.cur = next, !.visited = @ \cup {Here(j)}, !.steps = @ + 1]

Ended(e, outcome) == [e EXCEPT !.pc = "record", !.outcome = outcome]

(* A failed action hops to on_error, or ends the walk when there is none. *)
AfterError(j) ==
    LET next == Walked(j).err[Here(j)]
    IN  IF next = NoAction THEN Ended(MoveTo(j, Here(j)), "error") ELSE MoveTo(j, next)

WalkEnds(j) ==
    /\ At(j, "walk")
    /\ \/ Here(j) = NoAction /\ exec' = [exec EXCEPT ![j] = Ended(@, "success")]
       \/ /\ Here(j) # NoAction /\ WalkIsStuck(j)
          /\ exec' = [exec EXCEPT ![j] = Ended(@, "error")]
    /\ UNCHANGED <<automation, job, runs, effect, spent>>

Counted(e, x) == [e EXCEPT !.times[x] = @ + 1]

(* send_email, call_webhook, db_insert.  A failure says nothing about the
   outside world: the request may have been served before it was lost. *)
ExecuteEffect(j) ==
    LET x == Here(j)
        happens == effect' = [effect EXCEPT ![job[j].event][exec[j].row.id][x] = @ + 1]
    IN  /\ Executes(j) /\ x \notin Walked(j).delay
        /\ \/ /\ happens /\ UNCHANGED spent
              /\ exec' = [exec EXCEPT ![j] = Counted(MoveTo(j, Walked(j).succ[x]), x)]
           \/ /\ Fault /\ happens
              /\ exec' = [exec EXCEPT ![j] = Counted(AfterError(j), x)]
           \/ /\ Fault /\ UNCHANGED effect
              /\ exec' = [exec EXCEPT ![j] = AfterError(j)]
        /\ UNCHANGED <<automation, job, runs>>

(* Mutant: pauses although the continuation could not be queued. *)
ExecuteDelay_IgnoringInsert(j) ==
    LET x == Here(j)
        next == Walked(j).succ[x]
    IN  /\ Executes(j) /\ x \in Walked(j).delay /\ next # NoAction
        /\ \/ /\ \E k \in Job :
                    NextJobID(k) /\ job' = [job EXCEPT ![k] = ResumeJob(k, j, exec[j].row.id, next)]
              /\ UNCHANGED spent
           \/ Fault /\ UNCHANGED job
        /\ exec' = [exec EXCEPT ![j] = Ended(MoveTo(j, x), "paused")]
        /\ UNCHANGED <<automation, runs, effect>>

(* execDelay: schedule the continuation, then stop the walk with ErrActionPaused,
   which is not a failure and does not follow on_error.  How long the job then
   waits is not modelled: it may be started at any later moment. *)
ExecuteDelay(j) ==
    LET x == Here(j)
        next == Walked(j).succ[x]
    IN  /\ Executes(j) /\ x \in Walked(j).delay
        /\ \/ /\ next = NoAction
              /\ exec' = [exec EXCEPT ![j] = MoveTo(j, NoAction)]
              /\ UNCHANGED <<job, spent>>
           \/ /\ next # NoAction
              /\ \E k \in Job :
                    NextJobID(k) /\ job' = [job EXCEPT ![k] = ResumeJob(k, j, exec[j].row.id, next)]
              /\ exec' = [exec EXCEPT ![j] = Ended(MoveTo(j, x), "paused")]
              /\ UNCHANGED spent
           \/ /\ next # NoAction /\ Fault
              /\ exec' = [exec EXCEPT ![j] = AfterError(j)]
              /\ UNCHANGED job
        /\ UNCHANGED <<automation, runs, effect>>

---------------------------------------------------------------------------
(* recordRun and what the two handlers make of its result *)

(* The insert passes the CHECK on status and the foreign key on automation_id. *)
RunInsertable(j) ==
    /\ exec[j].outcome \in RunStatus
    /\ automation[exec[j].row.id].status = "live"

RunRow(j) == [job |-> j, attempt |-> job[j].attempt,
              automation |-> exec[j].row.id, status |-> exec[j].outcome]

(* Mutant: the loop stops at the first automation that fails. *)
AfterEventRun_StopOnError(j) ==
    /\ exec' = [exec EXCEPT ![j].pc = "rows",
                            ![j].rows = IF exec[j].outcome = "error" THEN {} ELSE @ \ {exec[j].row},
                            ![j].dealt = @ \cup {exec[j].row.id},
                            ![j].row = NoRow, ![j].outcome = "none"]
    /\ UNCHANGED job

(* ProcessAutomationEvent logs any error and goes on to the next row. *)
AfterEventRun(j) ==
    /\ exec' = [exec EXCEPT ![j].pc = "rows", ![j].rows = @ \ {exec[j].row},
                            ![j].dealt = @ \cup {exec[j].row.id},
                            ![j].row = NoRow, ![j].outcome = "none"]
    /\ UNCHANGED job

(* ResumeAutomation returns the walk's error, else the error of the insert. *)
AfterResumeRun(j, inserted) ==
    IF exec[j].outcome # "error" /\ inserted THEN CompleteJob(j) ELSE FailAttempt(j)

(* Mutant: an event job that returns the error of recordRun. *)
RecordRun_EventReturnsError(j) ==
    /\ At(j, "record")
    /\ \E inserted \in BOOLEAN :
        /\ inserted => RunInsertable(j)
        /\ runs' = IF inserted THEN runs \cup {RunRow(j)} ELSE runs
        /\ IF RunInsertable(j) /\ ~ inserted THEN Fault ELSE UNCHANGED spent
        /\ IF job[j].kind = "event" /\ inserted
           THEN AfterEventRun(j) ELSE AfterResumeRun(j, inserted)
    /\ UNCHANGED <<automation, effect>>

RecordRun(j) ==
    /\ At(j, "record")
    /\ \E inserted \in BOOLEAN :
        /\ inserted => RunInsertable(j)
        /\ runs' = IF inserted THEN runs \cup {RunRow(j)} ELSE runs
        /\ IF RunInsertable(j) /\ ~ inserted THEN Fault ELSE UNCHANGED spent
        /\ IF job[j].kind = "event" THEN AfterEventRun(j) ELSE AfterResumeRun(j, inserted)
    /\ UNCHANGED <<automation, effect>>

---------------------------------------------------------------------------
(* The automations API, one statement each *)

SaveAutomation(a, row) ==
    /\ automation' = [automation EXCEPT ![a] = row]
    /\ UNCHANGED <<job, exec, effect>>

LiveRows == {row \in AutomationRows : row.status = "live"}

(* Ids follow created_at. *)
CreateAutomation(a) ==
    /\ automation[a].status = "unborn"
    /\ \A b \in Automation : b < a => automation[b].status # "unborn"
    /\ \E row \in LiveRows : SaveAutomation(a, row)
    /\ UNCHANGED <<runs, spent>>

UpdateAutomation(a) ==
    /\ automation[a].status = "live" /\ Spend("edit")
    /\ \E row \in LiveRows : row # automation[a] /\ SaveAutomation(a, row)
    /\ UNCHANGED runs

(* ON DELETE CASCADE takes the run log along. *)
DeleteAutomation(a) ==
    /\ automation[a].status = "live" /\ Spend("edit")
    /\ SaveAutomation(a, [automation[a] EXCEPT !.status = "deleted", !.enabled = FALSE])
    /\ runs' = {r \in runs : r.automation # a}

---------------------------------------------------------------------------
Settled(j) == job[j].state \in {"completed", "discarded"}

(* Nothing is left to do: not a deadlock. *)
Quiescent ==
    /\ \A j \in Job : Settled(j) \/ job[j].state = "none"
    /\ UNCHANGED vars

JobStep(j) ==
    \/ StartJob(j) \/ RescueJob(j)
    \/ LoadRows(j) \/ LoadResumed(j) \/ NextRow(j) \/ EnqueueDue(j) \/ FinishRows(j)
    \/ WalkEnds(j) \/ ExecuteEffect(j) \/ ExecuteDelay(j) \/ RecordRun(j)

Next ==
    \/ PublishEvent \/ PeriodicTick \/ WorkerCrash
    \/ \E a \in Automation : CreateAutomation(a) \/ UpdateAutomation(a) \/ DeleteAutomation(a)
    \/ \E j \in Job : JobStep(j)
    \/ Quiescent

Spec == Init /\ [][Next]_vars

(* River's fetchers poll in order of insertion and its rescuer runs for ever;
   a handler that has been started runs on.  Neither events, ticks, edits nor
   crashes need ever happen. *)
FairSpec == Spec /\ \A j \in Job : WF_vars(JobStep(j))

---------------------------------------------------------------------------
(* Properties *)

TypeOK ==
    /\ automation \in [Automation -> AutomationRows]
    /\ job \in [Job -> Jobs]
    /\ exec \in [Job -> Executions]
    /\ runs \subseteq Run
    /\ effect \in [Job -> [Automation -> [Action -> Nat]]]
    /\ spent \in [event : Nat, tick : Nat, edit : Nat, fault : Nat]

(* No action has two outside effects in one walk of the graph, whichever
   success and error edges the walk takes: a saved workflow may be cyclic
   through its error edges, and RunActionGraphFrom's visited map is what
   stops it. *)
NoEffectTwiceInAWalk ==
    \A j \in Job, x \in Action : exec[j].times[x] <= 1

(* An event that carries automation_id has effects through that automation
   only, in its own attempts, in its retries and in every resume job that
   descends from it: the tick scopes each event to the rule that was due. *)
TargetedEventTouchesOnlyTarget ==
    \A e \in Job, a \in Automation :
        job[e].automation \notin {NoAutomation, a} =>
            \A x \in Action : effect[e][a][x] = 0

(* A walk under way belongs to an automation that was enabled when the attempt
   read it; and one started by an event to an automation bound, as read, to what
   the event says fired: to its trigger, and of a schedule to that expression and
   time zone, the default one if the rule names none.  A rule that is rescheduled
   between the tick and its processing does not run at the old time.  The one
   exception: edited to the same expression without a time zone it does, in
   whatever zone it fired before, as MatchTriggerParams passes over what is left
   out although CronDueAt reads it as UTC. *)
ZoneDropped(s, fired) ==
    spent.edit > 0 /\ s # NoSchedule /\ fired # NoSchedule /\ s.expr = fired.expr /\ s.zone = Unset

WalkMatchesEvent ==
    \A j \in Job : exec[j].pc = "walk" =>
        /\ exec[j].row.enabled
        /\ job[j].kind = "event" =>
              \/ Effective(exec[j].row.sched) = job[j].sched
              \/ ZoneDropped(exec[j].row.sched, job[j].sched)

(* A walk that has paused has its continuation in the queue, for the same
   automation and event and at the delay's own success edge, before the run is
   recorded: a crash after the pause can repeat work but not lose the rest. *)
PauseHandsOver ==
    \A j \in Job : exec[j].outcome = "paused" =>
        \E k \in Job \ {j} :
            /\ job[k].state # "none" /\ job[k].kind = "resume"
            /\ job[k].event = job[j].event
            /\ job[k].automation = exec[j].row.id
            /\ job[k].next = Walked(j).succ[Here(j)]

(* The success route of a workflow: the actions on_success leads to from the
   entry, at most MaxSteps of them, each placed before the next.  The workflow
   pauses once if at most one delay on the route has anything to resume: what
   UndisturbedEffectsOnce needs of the saved workflows, and the save-time check
   does not ask. *)
PausesOnceAlong(g, route, place) ==
    /\ g.entry \in route
    /\ \A x \in route : g.succ[x] # NoAction =>
            g.succ[x] \in route /\ place[x] < place[g.succ[x]]
    /\ \A x, y \in route \cap g.delay :
            g.succ[x] # NoAction /\ g.succ[y] # NoAction => x = y

PausesOnce(g) ==
    \E route \in SUBSET g.nodes : \E place \in [route -> 1 .. MaxSteps] :
        PausesOnceAlong(g, route, place)

(* With no failure of any kind and no edit, an event makes each action of each
   automation happen at most once, over all attempts and all resumes. *)
UndisturbedEffectsOnce ==
    spent.fault = 0 /\ spent.edit = 0 =>
        \A e \in Job, a \in Automation, x \in Action : effect[e][a][x] <= 1

(* A job is completed only when its work is done.  Of an event that is the
   evaluation, in the same attempt, of every automation it listed: a failing
   one does not take those created after it down with it.  Of a resume it is a
   run of that very attempt in the log: when the insert fails it is retried. *)
EveryRowReached(j) == job[j].kind = "event" => exec[j].dealt = exec[j].listed

ResumeLogged(j) ==
    job[j].kind = "resume" => \E r \in runs' : r.job = j /\ r.attempt = job[j].attempt

CompletedJobsAreDone ==
    [][\A j \in Job : ~ Settled(j) /\ job'[j].state = "completed"
                           => EveryRowReached(j) /\ ResumeLogged(j)]_vars

(* Every job that is in the queue is eventually completed or given up. *)
EveryJobSettles == \A j \in Job : (job[j].state # "none") ~> Settled(j)
=============================================================================
