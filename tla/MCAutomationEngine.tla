------------------------ MODULE MCAutomationEngine ------------------------
(* Small instances of AutomationEngine: which workflows and limits each run
   explores. *)
EXTENDS AutomationEngine, TLC

CONSTANTS
    mail, wait, hook, wait2,    \* action ids
    utc, sydney                 \* time zones

None == [x \in Action |-> NoAction]

(* mail, then a delay, then hook; the hook falls back to mail when it fails, a
   cycle the save-time check lets through. *)
OneDelay ==
    [entry |-> mail, nodes |-> {mail, wait, hook}, delay |-> {wait},
     succ |-> (mail :> wait @@ wait :> hook) @@ None,
     err |-> (hook :> mail) @@ None]

(* Two effects that fall back to each other. *)
ErrorCycle ==
    [entry |-> mail, nodes |-> {mail, hook}, delay |-> {},
     succ |-> None, err |-> (mail :> hook @@ hook :> mail) @@ None]

(* wait, hook, wait2, mail: the second delay is reached by a resume job. *)
TwoDelays ==
    [entry |-> wait, nodes |-> {mail, wait, hook, wait2}, delay |-> {wait, wait2},
     succ |-> (wait :> hook @@ hook :> wait2 @@ wait2 :> mail) @@ None,
     err |-> None]

(* A delay, then mail. *)
WaitMail ==
    [entry |-> wait, nodes |-> {mail, wait}, delay |-> {wait},
     succ |-> (wait :> mail) @@ None, err |-> None]

ErrorGraphs == {ErrorCycle, OneDelay}
TwoDelayGraphs == {TwoDelays}
EventGraphs == {OneDelay, WaitMail}

(* The workflows of the run events are ones the theorem on
   UndisturbedEffectsOnce is about. *)
ASSUME EventGraphsPauseOnce == \A g \in EventGraphs : PausesOnce(g)

EventsBound == [event |-> 1, tick |-> 1, edit |-> 1, fault |-> 1]
ErrorsBound == [event |-> 1, tick |-> 0, edit |-> 1, fault |-> 2]
UndisturbedBound == [event |-> 1, tick |-> 0, edit |-> 0, fault |-> 0]

Interchangeable == Permutations(CronExpr)

Saved(graph) ==
    \A a \in Automation : automation[a].status = "unborn" \/ automation[a].graph = graph

(* The scenarios that are explored together: a domain event, two workers and a longer
   workflow, or a cron tick that finds one schedule due, with one worker and either the edit or
   the fault. *)
Scenario ==
    \/ /\ spent.tick = 0 /\ \A a \in Automation : automation[a].sched = NoSchedule
       /\ Saved(OneDelay) /\ job[6].state = "none"
    \/ /\ spent.event = 0 /\ Saved(WaitMail)
       /\ spent.edit + spent.fault <= 1
       /\ \A j \in Job : Cardinality(job[j].due) <= 1
       /\ Cardinality({j \in Job : job[j].state = "running"}) <= 1
=============================================================================
