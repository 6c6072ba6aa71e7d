---------------------------- MODULE TimerCalendar ----------------------------
(***************************************************************************)
(* What a timing wheel promises: a clock of ticks and a set of deadlines.  *)
(* The tick of a deadline, and no other, hands its timer out to be run.    *)
(***************************************************************************)
EXTENDS Naturals

CONSTANT Timers     \* timers; each is added at most once

VARIABLES clock,    \* the next tick to be processed
          pending,  \* pairs <<timer, deadline>>
          out       \* timers handed out and not finished

Init == clock = 0 /\ pending = {} /\ out = {}

Add(t) == /\ \A p \in pending : p[1] # t
          /\ t \notin out
          /\ \E p \in pending' : /\ p[1] = t
                                 /\ p[2] >= clock
                                 /\ pending' = pending \cup {p}
          /\ UNCHANGED <<clock, out>>

Advance == /\ clock' = clock + 1
           /\ pending' = {p \in pending : p[2] # clock}
           /\ out' = out \cup {p[1] : p \in {q \in pending : q[2] = clock}}

Finish(t) == /\ t \in out
             /\ out' = out \ {t}
             /\ UNCHANGED <<clock, pending>>

Next == Advance \/ \E t \in Timers : Add(t) \/ Finish(t)

Spec == Init /\ [][Next]_<<clock, pending, out>>
=============================================================================
