---------------------------- MODULE EventDelivery ----------------------------
(***************************************************************************)
(* What webhook and notification delivery promises once an event is on the *)
(* queue, without queues, workers, attempts or acknowledgements: it is     *)
(* settled only when every subscription that was in force all along has    *)
(* received it, and it is abandoned only after as many failed tries as the *)
(* retry budget allows or after losing its worker too often.  Receivers    *)
(* may see an event any number of times.  WebhookDelivery implements this. *)
(***************************************************************************)
EXTENDS Naturals, FiniteSets

CONSTANTS
  Event,    \* domain events
  Target,   \* webhook endpoints and notification channels
  Budget,   \* failed tries after which an event is abandoned
  Losses    \* lost workers after which an event is abandoned

VARIABLES
  phase,    \* of each event: "none", "offered", "settled" or "abandoned"
  tries,    \* failed tries
  losses,   \* workers lost while they had the event
  steady,   \* subscriptions to the event in force ever since it was offered
  got       \* <<event, target>>: received at least once

avars == <<phase, tries, losses, steady, got>>

Init ==
  /\ phase = [e \in Event |-> "none"]
  /\ tries = [e \in Event |-> 0] /\ losses = [e \in Event |-> 0]
  /\ steady = [e \in Event |-> {}]
  /\ got = {}

Offer(e, T) ==
  /\ phase[e] = "none"
  /\ phase' = [phase EXCEPT ![e] = "offered"]
  /\ steady' = [steady EXCEPT ![e] = T]
  /\ UNCHANGED <<tries, losses, got>>

\* A subscription that is switched off is owed nothing any more.
Unsubscribe(t) ==
  /\ steady' = [e \in Event |-> steady[e] \ {t}]
  /\ UNCHANGED <<phase, tries, losses, got>>

\* A copy may still arrive after the event was settled or abandoned.
Deliver(e, t) ==
  /\ phase[e] # "none"
  /\ got' = got \cup {<<e, t>>}
  /\ UNCHANGED <<phase, tries, losses, steady>>

Settle(e) ==
  /\ phase[e] = "offered"
  /\ \A t \in steady[e] : <<e, t>> \in got
  /\ phase' = [phase EXCEPT ![e] = "settled"]
  /\ UNCHANGED <<tries, losses, steady, got>>

TryFails(e) ==
  /\ phase[e] = "offered" /\ tries[e] < Budget
  /\ tries' = [tries EXCEPT ![e] = @ + 1]
  /\ phase' = [phase EXCEPT ![e] =
                 IF tries[e] + 1 = Budget THEN "abandoned" ELSE "offered"]
  /\ UNCHANGED <<losses, steady, got>>

WorkerLost(e) ==
  /\ phase[e] = "offered" /\ losses[e] <= Losses
  /\ losses' = [losses EXCEPT ![e] = @ + 1]
  /\ phase' = [phase EXCEPT ![e] =
                 IF losses[e] = Losses THEN "abandoned" ELSE "offered"]
  /\ UNCHANGED <<tries, steady, got>>

Next ==
  \/ \E e \in Event :
       Settle(e) \/ TryFails(e) \/ WorkerLost(e) \/ \E T \in SUBSET Target : Offer(e, T)
  \/ \E t \in Target : Unsubscribe(t) \/ \E e \in Event : Deliver(e, t)

\* Every event on the queue comes to an end, one way or the other.
Spec == Init /\ [][Next]_avars
        /\ \A e \in Event : WF_avars(Settle(e) \/ TryFails(e) \/ WorkerLost(e))
=============================================================================
