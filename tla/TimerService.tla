---------------------------- MODULE TimerService ----------------------------
(***************************************************************************)
(* What Gateway.Events.ScheduleEvent promises its callers: a set of timers *)
(* that each fire once, not before they are due, and before time moves on. *)
(***************************************************************************)
EXTENDS Naturals

CONSTANTS Delays,  \* delays in seconds
          Deltas   \* the amounts by which time advances, in ms

VARIABLES now,      \* the time in ms
          created,  \* timers created so far: their names are 1..created
          armed     \* the timers that have not fired: [name, due]

tvars == <<now, created, armed>>

TInit ==
    /\ now = 0
    /\ created = 0
    /\ armed = {}

\* A caller asks for an event delay seconds from now.
Arm(delay) ==
    /\ created' = created + 1
    /\ armed' = armed \cup {[name |-> created + 1, due |-> now + delay * 1000]}
    /\ UNCHANGED now

\* A timer that is due fires.
Fire(timer) ==
    /\ timer.due <= now
    /\ armed' = armed \ {timer}
    /\ UNCHANGED <<now, created>>

\* Time never moves past a timer that is still armed.
Advance(delta) ==
    /\ \A timer \in armed : now <= timer.due
    /\ now' = now + delta
    /\ UNCHANGED <<created, armed>>

TNext ==
    \/ \E delay \in Delays : Arm(delay)
    \/ \E timer \in armed : Fire(timer)
    \/ \E delta \in Deltas : Advance(delta)

TSpec == TInit /\ [][TNext]_tvars
=============================================================================
