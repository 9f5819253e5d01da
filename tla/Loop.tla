-------------------------------- MODULE Loop --------------------------------
(***************************************************************************)
(* The pacing of a main loop: loop_init and loop_sync of the Loop          *)
(* extension.  A script does some work, calls Sync, and is told how many   *)
(* milliseconds went by since its last call; Gateway.lua adds these up as  *)
(* the clock of its scheduled events.                                      *)
(*                                                                         *)
(* The clock of AL::OS::Timer is finer than a millisecond: it is counted   *)
(* in ticks here, TicksPerMs to the millisecond.  AL::Sleep is taken to    *)
(* last at least as long as it was asked to.                               *)
(***************************************************************************)
EXTENDS Integers

CONSTANTS TicksPerMs,  \* resolution of the timer
          Interval,    \* interval_ms
          Starts,      \* readings of the new timer in loop_init
          Works,       \* ticks the script may spend between two calls
          Lates,       \* ticks by which a call may return late
          MaxNow       \* bound: the time modelled, in ticks

VARIABLES now,          \* loop->timer.GetElapsed()
          last_update,  \* loop->last_update
          next_update,  \* loop->next_update
          start,        \* history: the time at which loop_init ran
          syncs,        \* history: calls of loop_sync
          reported      \* history: the sum of the milliseconds they returned

vars == <<now, last_update, next_update, start, syncs, reported>>

\* AL::TimeSpan::ToMilliseconds
ToMilliseconds(ticks) == ticks \div TicksPerMs

\* AL::TimeSpan::FromMilliseconds
FromMilliseconds(ms) == ms * TicksPerMs

\* When AL::Sleep, called if there is time left, may return at the earliest.
Woken == IF now < next_update THEN next_update ELSE now

\* loop_init: the first deadline is a whole number of milliseconds.
Init ==
    /\ now \in Starts
    /\ start = now
    /\ last_update = now
    /\ next_update = FromMilliseconds(ToMilliseconds(now) + Interval)
    /\ syncs = 0
    /\ reported = 0

\* The script works, or is kept from working.
Work(ticks) ==
    /\ now + ticks <= MaxNow
    /\ now' = now + ticks
    /\ UNCHANGED <<last_update, next_update, start, syncs, reported>>

\* Mutant of Sync: the next deadline is counted from this return.
SyncFromNow(late) ==
    LET time == Woken + late
    IN  /\ time <= MaxNow
        /\ now' = time
        /\ last_update' = time
        /\ next_update' = time + FromMilliseconds(Interval)
        /\ syncs' = syncs + 1
        /\ reported' = reported + ToMilliseconds(time - last_update)
        /\ UNCHANGED start

\* Mutant of Sync: last_update keeps the deadline instead of the time.
SyncKeepsDeadline(late) ==
    LET time == Woken + late
    IN  /\ time <= MaxNow
        /\ now' = time
        /\ last_update' = next_update
        /\ next_update' = next_update + FromMilliseconds(Interval)
        /\ syncs' = syncs + 1
        /\ reported' = reported + ToMilliseconds(time - last_update)
        /\ UNCHANGED start

\* loop_sync: sleeps until the deadline if there is time left, reads the clock
\* again, and moves the deadline one interval on, however late it is.
Sync(late) ==
    LET time == Woken + late
    IN  /\ time <= MaxNow
        /\ now' = time
        /\ last_update' = time
        /\ next_update' = next_update + FromMilliseconds(Interval)
        /\ syncs' = syncs + 1
        /\ reported' = reported + ToMilliseconds(time - last_update)
        /\ UNCHANGED start

Next ==
    \/ \E ticks \in Works : Work(ticks)
    \/ \E late \in Lates : Sync(late)

Spec == Init /\ [][Next]_vars

-----------------------------------------------------------------------------
\* The type invariant of a loop.
TypeOK ==
    /\ {now, last_update, start, next_update, syncs, reported} \subseteq Nat
    /\ start <= last_update /\ last_update <= now

\* Sync returns for the k-th time not before k intervals have passed since
\* loop_init, less the fraction of a millisecond that loop_init cut off:
\* a late call makes the following ones come sooner, and never too soon.
PaceHeld ==
    syncs > 0 =>
      last_update - start > FromMilliseconds(syncs * Interval) - TicksPerMs

\* A call that finds time left returns on the schedule loop_init laid out, late
\* only by its own delay, however late the calls before it were.
OnScheduleAgain ==
    [][\A late \in Lates : Sync(late) /\ now < next_update
         => now' <= start + FromMilliseconds(syncs' * Interval) + late]_vars

\* The clock made of the returned milliseconds never runs ahead of the time, so
\* what Gateway.lua schedules is never early; it loses less than a millisecond
\* at every call.
ClockNeverAhead ==
    /\ FromMilliseconds(reported) <= last_update - start
    /\ last_update - start <= FromMilliseconds(reported) + syncs * (TicksPerMs - 1)
=============================================================================
