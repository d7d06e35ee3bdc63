------------------------------ MODULE EventInbox ------------------------------
(***************************************************************************)
(* What the webhook inbox promises of events that a payment processor      *)
(* sends at least once: the requirement, apart from the machine that       *)
(* PaymentWebhooks describes.                                              *)
(*                                                                         *)
(* An attempt at an event may begin only while the event is not settled.   *)
(* It takes effect once at most, and settles the event only after it has   *)
(* taken effect or found that the event concerns nobody.  Attempts at one  *)
(* event may overlap and may be given up, which is all that can make an    *)
(* event take effect twice.                                                *)
(***************************************************************************)
EXTENDS Naturals

CONSTANTS Event, NoEvent, Attempt   \* NoEvent is not one of Event

VARIABLES
    received,   \* events in the inbox
    settled,    \* events that are acknowledged from now on
    about,      \* the event each attempt is at, NoEvent when it is at none
    stage,      \* how far each attempt is
    effects,    \* how often each event has taken effect
    excused     \* events of which an attempt began while another was open, or
                \* was given up between its effect and its end

vars == <<received, settled, about, stage, effects, excused>>

Init ==
    /\ received = {} /\ settled = {} /\ excused = {}
    /\ about = [a \in Attempt |-> NoEvent]
    /\ stage = [a \in Attempt |-> "none"]
    /\ effects = [e \in Event |-> 0]

Receive(e) ==
    /\ received' = received \cup {e}
    /\ UNCHANGED <<settled, about, stage, effects, excused>>

Contended(a, e) == \E b \in Attempt \ {a} : about[b] = e

Begin(a, e) ==
    /\ about[a] = NoEvent /\ e \in received \ settled
    /\ about' = [about EXCEPT ![a] = e]
    /\ stage' = [stage EXCEPT ![a] = "open"]
    /\ excused' = IF Contended(a, e) THEN excused \cup {e} ELSE excused
    /\ UNCHANGED <<received, settled, effects>>

TakeEffect(a) ==
    /\ about[a] # NoEvent /\ stage[a] = "open"
    /\ stage' = [stage EXCEPT ![a] = "effective"]
    /\ effects' = [effects EXCEPT ![about[a]] = @ + 1]
    /\ UNCHANGED <<received, settled, about, excused>>

(* The event concerns nobody the service knows. *)
Dismiss(a) ==
    /\ about[a] # NoEvent /\ stage[a] = "open"
    /\ stage' = [stage EXCEPT ![a] = "dismissed"]
    /\ UNCHANGED <<received, settled, about, effects, excused>>

Leave(a) ==
    /\ about' = [about EXCEPT ![a] = NoEvent]
    /\ stage' = [stage EXCEPT ![a] = "none"]

Settle(a) ==
    /\ about[a] # NoEvent /\ stage[a] \in {"effective", "dismissed"}
    /\ settled' = settled \cup {about[a]}
    /\ Leave(a)
    /\ UNCHANGED <<received, effects, excused>>

GiveUp(a) ==
    /\ about[a] # NoEvent
    /\ excused' = IF stage[a] = "effective" THEN excused \cup {about[a]} ELSE excused
    /\ Leave(a)
    /\ UNCHANGED <<received, settled, effects>>

Next ==
    \/ \E e \in Event : Receive(e)
    \/ \E a \in Attempt, e \in Event : Begin(a, e)
    \/ \E a \in Attempt : TakeEffect(a) \/ Dismiss(a) \/ Settle(a) \/ GiveUp(a)

Spec == Init /\ [][Next]_vars

(* An event takes effect again only when two attempts at it overlapped or one
   was given up between its effect and its end: one delivery after another,
   however many, apply an event once. *)
RepeatsAreExcused == \A e \in Event : effects[e] > 1 => e \in excused
=============================================================================
