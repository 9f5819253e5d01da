--------------------------- MODULE EventScheduler ---------------------------
(***************************************************************************)
(* The scheduled events of Gateway.lua: ScheduleEvent, UpdateScheduledEvents *)
(* and ExecuteScheduledEvents.  An entry is an event with its arguments,   *)
(* kept in the bucket of the timestamp at which it is due; the main loop   *)
(* advances the timer and runs buckets until none is due.                  *)
(*                                                                         *)
(* Entries are named 1, 2, ... in the order they were scheduled.  due, log *)
(* known and last are history: no guard of the code's own steps reads them,*)
(* except that MaxEntries bounds the number of entries ever scheduled.     *)
(***************************************************************************)
EXTENDS Naturals, Sequences

CONSTANTS Delays,      \* the delays callers pass to ScheduleEvent, in seconds
          Deltas,      \* the loop deltas passed to UpdateScheduledEvents, in ms
          MaxEntries,  \* bound: entries ever scheduled
          MaxTimer     \* bound: value of ScheduledEventTimer, in ms

ASSUME DelaysAssumption == Delays \subseteq Nat
ASSUME DeltasAssumption == Deltas \subseteq Nat

VARIABLES timer,    \* Gateway.Private.ScheduledEventTimer
          buckets,  \* Gateway.Private.ScheduledEvents: timestamp -> entries
          pc,       \* where UpdateScheduledEvents is
          cur,      \* the timestamp whose bucket is being run
          index,    \* event_index: the entries of that bucket run so far
          due,      \* history: the timestamp of every entry ever scheduled
          log,      \* history: the entries executed, in order
          known,    \* history: entries scheduled when this update began
          last      \* history: the timer before this update

vars == <<timer, buckets, pc, cur, index, due, log, known, last>>

Entry == 1..Len(due)

Init ==
    /\ timer = 0
    /\ buckets = [t \in {} |-> <<>>]
    /\ pc = "idle"
    /\ cur = 0
    /\ index = 0
    /\ due = <<>>
    /\ log = <<>>
    /\ known = 0
    /\ last = 0

\* The entries already waiting at timestamp t.
Bucket(t) == IF t \in DOMAIN buckets THEN buckets[t] ELSE <<>>

\* The timestamp ScheduleEvent computes for a delay in seconds.
Timestamp(delay) == timer + delay * 1000

\* Mutant of Schedule: the entry is inserted at the front of its bucket.
ScheduleAtFront(delay) ==
    /\ pc \in {"idle", "callback"}
    /\ Len(due) < MaxEntries
    /\ due' = Append(due, Timestamp(delay))
    /\ buckets' = [t \in DOMAIN buckets \cup {Timestamp(delay)} |->
                     IF t = Timestamp(delay)
                       THEN <<Len(due) + 1>> \o Bucket(t)
                       ELSE buckets[t]]
    /\ UNCHANGED <<timer, pc, cur, index, log, known, last>>

\* ScheduleEvent(event, delay): between updates, or from a running callback.
Schedule(delay) ==
    /\ pc \in {"idle", "callback"}
    /\ Len(due) < MaxEntries
    /\ due' = Append(due, Timestamp(delay))
    /\ buckets' = [t \in DOMAIN buckets \cup {Timestamp(delay)} |->
                     IF t = Timestamp(delay)
                       THEN Append(Bucket(t), Len(due) + 1)
                       ELSE buckets[t]]
    /\ UNCHANGED <<timer, pc, cur, index, log, known, last>>

\* UpdateScheduledEvents(delta_ms), up to its while loop.
Update(delta) ==
    /\ pc = "idle"
    /\ timer + delta <= MaxTimer
    /\ timer' = timer + delta
    /\ pc' = "scan"
    /\ known' = Len(due)
    /\ last' = timer
    /\ UNCHANGED <<buckets, cur, index, due, log>>

\* Mutant of PickBucket: a bucket less than a second ahead counts as due.
PickBucketEarly(t) ==
    /\ pc = "scan"
    /\ t < timer + 1000
    /\ cur' = t
    /\ index' = 0
    /\ pc' = "bucket"
    /\ UNCHANGED <<timer, buckets, due, log, known, last>>

\* pairs() meets a bucket that is due: any of them, its order is unspecified.
PickBucket(t) ==
    /\ pc = "scan"
    /\ t <= timer
    /\ cur' = t
    /\ index' = 0
    /\ pc' = "bucket"
    /\ UNCHANGED <<timer, buckets, due, log, known, last>>

\* ipairs() reads the next entry of the live bucket and its callbacks start.
ExecuteEntry ==
    /\ pc = "bucket"
    /\ index < Len(buckets[cur])
    /\ index' = index + 1
    /\ log' = Append(log, [entry |-> buckets[cur][index + 1], at |-> timer,
                           since |-> last, known |-> known])
    /\ pc' = "callback"
    /\ UNCHANGED <<timer, buckets, cur, due, known, last>>

\* The callbacks of the entry return.
CallbackReturns ==
    /\ pc = "callback"
    /\ pc' = "bucket"
    /\ UNCHANGED <<timer, buckets, cur, index, due, log, known, last>>

\* Mutant of RemoveBucket: the bucket is run but stays.
RemoveBucketForgotten ==
    /\ pc = "bucket"
    /\ index = Len(buckets[cur])
    /\ pc' = "scan"
    /\ UNCHANGED <<timer, buckets, cur, index, due, log, known, last>>

\* The bucket is used up: it is removed and the scan starts over.
RemoveBucket ==
    /\ pc = "bucket"
    /\ index = Len(buckets[cur])
    /\ buckets' = [t \in DOMAIN buckets \ {cur} |-> buckets[t]]
    /\ pc' = "scan"
    /\ UNCHANGED <<timer, cur, index, due, log, known, last>>

\* Mutant of NoneDue: the scan is repeated while there are buckets at all.
NoneLeft ==
    /\ pc = "scan"
    /\ DOMAIN buckets = {}
    /\ pc' = "idle"
    /\ UNCHANGED <<timer, buckets, cur, index, due, log, known, last>>

\* No bucket is due: ExecuteScheduledEvents returns false, the update is over.
NoneDue ==
    /\ pc = "scan"
    /\ \A t \in DOMAIN buckets : t > timer
    /\ pc' = "idle"
    /\ UNCHANGED <<timer, buckets, cur, index, due, log, known, last>>

ScheduleAny == \E delay \in Delays : Schedule(delay)
UpdateAny   == \E delta \in Deltas : Update(delta)
PickAny     == \E t \in DOMAIN buckets : PickBucket(t)

Next ==
    \/ ScheduleAny
    \/ UpdateAny
    \/ PickAny
    \/ ExecuteEntry
    \/ CallbackReturns
    \/ RemoveBucket
    \/ NoneDue

\* The single script thread finishes an update it has begun, and callbacks return.
Fairness ==
    /\ WF_vars(PickAny)
    /\ WF_vars(ExecuteEntry)
    /\ WF_vars(CallbackReturns)
    /\ WF_vars(RemoveBucket)
    /\ WF_vars(NoneDue)

Spec == Init /\ [][Next]_vars

FairSpec == Spec /\ Fairness

-----------------------------------------------------------------------------
Executed == [entry : Nat, at : Nat, since : Nat, known : Nat]

\* The type invariant of the scheduler's state.
TypeOK ==
    /\ timer \in Nat
    /\ DOMAIN buckets \subseteq Nat
    /\ \A t \in DOMAIN buckets : buckets[t] \in Seq(Nat)
    /\ pc \in {"idle", "scan", "bucket", "callback"}
    /\ cur \in Nat
    /\ index \in Nat
    /\ due \in Seq(Nat)
    /\ log \in Seq(Executed)
    /\ known \in Nat
    /\ last \in Nat

\* Bucket cur is being run: UpdateScheduledEvents is inside its ipairs loop.
Running == pc \in {"bucket", "callback"}

\* The places of bucket t whose entries have not been executed.
Pending(t) == {i \in 1..Len(buckets[t]) : Running /\ t = cur => index < i}

\* The entries that wait to be executed.
Waiting ==
    {e \in Entry :
        \E t \in DOMAIN buckets : \E i \in Pending(t) : buckets[t][i] = e}

ExecutedEntries == {log[k].entry : k \in 1..Len(log)}

\* Every entry is executed by the update that reaches its timestamp: never
\* while the timer is before it, never later than the first update that
\* takes the timer to it (a zero delay counts for the next update).
OnTime ==
    \A k \in 1..Len(log) :
        /\ log[k].since <= due[log[k].entry]
        /\ due[log[k].entry] <= log[k].at

\* No entry is executed twice, although ScheduleEvent may append to the
\* bucket that ipairs is walking and buckets are removed only afterwards.
AtMostOnce ==
    \A j, k \in 1..Len(log) : log[j].entry = log[k].entry => j = k

\* No entry is lost: each one scheduled was executed or still waits, never both.
NothingLost ==
    /\ ExecutedEntries \cup Waiting = Entry
    /\ ExecutedEntries \cap Waiting = {}

\* Every entry is executed once, when it is due, and none is lost.
ExecutedOnceOnTime == OnTime /\ AtMostOnce /\ NothingLost

\* Entries of the same timestamp are executed in the order of ScheduleEvent.
FifoPerTimestamp ==
    \A j, k \in 1..Len(log) :
        j < k /\ due[log[j].entry] = due[log[k].entry]
            => log[j].entry < log[k].entry

\* What an update executes was scheduled before it began, or in its callbacks with
\* a delay of zero: nothing else that callbacks schedule can keep it going.
NoSelfFeeding ==
    \A k \in 1..Len(log) :
        log[k].entry <= log[k].known \/ due[log[k].entry] = log[k].at

\* An update that has begun ends (once its callbacks cease to schedule at zero
\* delay, as they do here after MaxEntries).
UpdateEnds == (pc = "scan") ~> (pc = "idle")

-----------------------------------------------------------------------------
\* The timers TimerService sees: the waiting entries with their timestamps.
Armed == {[name |-> e, due |-> due[e]] : e \in Waiting}

Service == INSTANCE TimerService
             WITH now <- timer, created <- Len(due), armed <- Armed

\* The buckets implement the timer service: an entry fires when its callbacks
\* start, and removing a bucket or scanning for one is invisible to callers.
ImplementsTimerService == Service!TSpec
=============================================================================
