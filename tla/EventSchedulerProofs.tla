------------------------ MODULE EventSchedulerProofs ------------------------
(***************************************************************************)
(* Proofs, for every set of delays and deltas and every bound, of the      *)
(* safety properties of EventScheduler and of its refinement of            *)
(* TimerService.                                                           *)
(***************************************************************************)
EXTENDS EventScheduler, TLAPS

\* While a bucket is being run it exists, it is due, and index is within it.
CurrentBucket ==
    Running => /\ cur \in DOMAIN buckets
               /\ cur <= timer
               /\ index <= Len(buckets[cur])

\* The bucket of a timestamp holds entries of that timestamp only.
Stamped ==
    \A t \in DOMAIN buckets : \A i \in 1..Len(buckets[t]) :
        buckets[t][i] \in Entry /\ due[buckets[t][i]] = t

\* ScheduleEvent appends, so that a bucket is in the order of scheduling.
Sorted ==
    \A t \in DOMAIN buckets : \A i, j \in 1..Len(buckets[t]) :
        i < j => buckets[t][i] < buckets[t][j]

\* No bucket was already due when the update in progress began.
NotOverdue ==
    /\ last <= timer
    /\ \A t \in DOMAIN buckets : (IF pc = "idle" THEN timer ELSE last) <= t

\* The log names entries that were scheduled.
Logged == \A k \in 1..Len(log) : log[k].entry \in Entry

\* An executed entry does not wait any more.
ExecutedNotPending ==
    \A t \in DOMAIN buckets : \A i \in Pending(t) : \A k \in 1..Len(log) :
        log[k].entry # buckets[t][i]

\* Every entry was executed or waits in some bucket.
Accounted ==
    \A e \in Entry :
        \/ \E k \in 1..Len(log) : log[k].entry = e
        \/ \E t \in DOMAIN buckets : \E i \in Pending(t) : buckets[t][i] = e

\* Entries executed at a timestamp precede those that wait at it.
ExecutedFirst ==
    \A t \in DOMAIN buckets : \A i \in Pending(t) : \A k \in 1..Len(log) :
        due[log[k].entry] = t => log[k].entry < buckets[t][i]

\* What was scheduled during an update is not overdue.
NewNotDue ==
    pc # "idle" =>
        \A t \in DOMAIN buckets : \A i \in 1..Len(buckets[t]) :
            buckets[t][i] <= known \/ timer <= t

IInv ==
    /\ TypeOK
    /\ CurrentBucket
    /\ Stamped
    /\ Sorted
    /\ NotOverdue
    /\ Logged
    /\ ExecutedNotPending
    /\ Accounted
    /\ ExecutedFirst
    /\ NewNotDue
    /\ OnTime
    /\ AtMostOnce
    /\ FifoPerTimestamp
    /\ NoSelfFeeding

-----------------------------------------------------------------------------
\* The initial state satisfies the inductive invariant.
LEMMA InitIInv == Init => IInv
<1> SUFFICES ASSUME Init PROVE IInv
  OBVIOUS
<1> USE DEF Init
<1>1. TypeOK
  BY DEF TypeOK, Entry
<1>2. /\ CurrentBucket /\ Stamped /\ Sorted /\ NotOverdue /\ Logged
      /\ ExecutedNotPending /\ Accounted /\ ExecutedFirst /\ NewNotDue
  BY DEF CurrentBucket, Running, Stamped, Sorted, NotOverdue, Logged,
         ExecutedNotPending, Accounted, ExecutedFirst, NewNotDue, Entry
<1>3. OnTime /\ AtMostOnce /\ FifoPerTimestamp /\ NoSelfFeeding
  BY DEF OnTime, AtMostOnce, FifoPerTimestamp, NoSelfFeeding
<1> QED
  BY <1>1, <1>2, <1>3 DEF IInv

\* What ScheduleEvent does to the buckets: the new entry is last in the bucket
\* of its timestamp, which is not before the timer, and nothing else moves.
LEMMA ScheduleEffect ==
    ASSUME TypeOK, Stamped, NEW delay \in Delays, Schedule(delay)
    PROVE  /\ Timestamp(delay) \in Nat /\ Len(due) + 1 \in Nat /\ timer <= Timestamp(delay)
           /\ (delay # 0 => timer < Timestamp(delay))
           /\ Len(due') = Len(due) + 1 /\ due' \in Seq(Nat)
           /\ \A e \in Entry : due'[e] = due[e] /\ e < Len(due) + 1
           /\ due'[Len(due) + 1] = Timestamp(delay)
           /\ DOMAIN buckets' = DOMAIN buckets \cup {Timestamp(delay)}
           /\ \A t \in DOMAIN buckets : /\ Len(buckets[t]) \in Nat
                                        /\ Len(buckets[t]) <= Len(buckets'[t])
           /\ \A t \in DOMAIN buckets : \A i \in 1..Len(buckets[t]) :
                buckets'[t][i] = buckets[t][i] /\ buckets[t][i] \in Entry
           /\ \A t \in DOMAIN buckets' : \A i \in 1..Len(buckets'[t]) :
                \/ t \in DOMAIN buckets /\ i \in 1..Len(buckets[t])
                \/ t = Timestamp(delay) /\ i = Len(buckets'[t]) /\ buckets'[t][i] = Len(due) + 1
           /\ Len(buckets'[Timestamp(delay)]) \in Nat \ {0}
           /\ buckets'[Timestamp(delay)][Len(buckets'[Timestamp(delay)])] = Len(due) + 1
           /\ (Timestamp(delay) \in DOMAIN buckets => Len(buckets'[Timestamp(delay)]) = Len(buckets[Timestamp(delay)]) + 1)
           /\ \A t \in DOMAIN buckets' : buckets'[t] \in Seq(Nat) /\ Len(buckets'[t]) \in Nat
<1> DEFINE T == Timestamp(delay)
           n == Len(due) + 1
<1> USE DEF TypeOK
<1>1. delay \in Nat /\ timer \in Nat
  BY DelaysAssumption
<1>2. T \in Nat /\ timer <= T /\ (delay # 0 => timer < T)
  BY <1>1 DEF Timestamp
<1>3. /\ n \in Nat /\ Len(due') = n /\ due' \in Seq(Nat) /\ due'[n] = T
      /\ \A e \in Entry : due'[e] = due[e] /\ e < n
  BY <1>2 DEF Schedule, Entry
<1>4. Bucket(T) \in Seq(Nat)
  BY DEF Bucket
<1>5. /\ DOMAIN buckets' = DOMAIN buckets \cup {T}
      /\ buckets'[T] = Append(Bucket(T), n)
      /\ \A t \in DOMAIN buckets : t # T => buckets'[t] = buckets[t]
  BY DEF Schedule
<1>6. /\ Len(buckets'[T]) = Len(Bucket(T)) + 1
      /\ buckets'[T][Len(buckets'[T])] = n
      /\ \A i \in 1..Len(Bucket(T)) : buckets'[T][i] = Bucket(T)[i]
  BY <1>4, <1>5, <1>3
<1>7. T \in DOMAIN buckets => Bucket(T) = buckets[T]
  BY DEF Bucket
<1>8. T \notin DOMAIN buckets => Len(Bucket(T)) = 0
  BY DEF Bucket
<1>10. ASSUME NEW t \in DOMAIN buckets'
       PROVE  buckets'[t] \in Seq(Nat) /\ Len(buckets'[t]) \in Nat
  <2>1. CASE t = T
    BY <2>1, <1>3, <1>4, <1>5
  <2>2. CASE t # T
    BY <2>2, <1>5
  <2> QED
    BY <2>1, <2>2
<1>11. ASSUME NEW t \in DOMAIN buckets
       PROVE  /\ Len(buckets[t]) \in Nat
              /\ Len(buckets[t]) <= Len(buckets'[t])
              /\ \A i \in 1..Len(buckets[t]) :
                   buckets'[t][i] = buckets[t][i] /\ buckets[t][i] \in Entry
  <2>1. Len(buckets[t]) \in Nat /\ \A i \in 1..Len(buckets[t]) : buckets[t][i] \in Entry
    BY DEF Stamped
  <2>2. CASE t = T
    BY <2>1, <2>2, <1>6, <1>7
  <2>3. CASE t # T
    BY <2>1, <2>3, <1>5
  <2> QED
    BY <2>2, <2>3
<1>13. ASSUME NEW t \in DOMAIN buckets', NEW i \in 1..Len(buckets'[t])
       PROVE  \/ t \in DOMAIN buckets /\ i \in 1..Len(buckets[t])
              \/ t = T /\ i = Len(buckets'[t]) /\ buckets'[t][i] = n
  <2>1. CASE t # T
    BY <2>1, <1>5
  <2>2. CASE t = T /\ T \in DOMAIN buckets
    BY <2>2, <1>4, <1>6, <1>7
  <2>3. CASE t = T /\ T \notin DOMAIN buckets
    BY <2>3, <1>4, <1>6, <1>8
  <2> QED
    BY <2>1, <2>2, <2>3
<1>14. /\ Len(buckets'[T]) \in Nat \ {0}
       /\ (T \in DOMAIN buckets => Len(buckets'[T]) = Len(buckets[T]) + 1)
  BY <1>4, <1>6, <1>7
<1> QED
  BY <1>2, <1>3, <1>5, <1>6, <1>10, <1>11, <1>13, <1>14

\* ScheduleEvent keeps the inductive invariant, between updates and inside one.
LEMMA ScheduleIInv ==
    ASSUME IInv, NEW delay \in Delays, Schedule(delay) PROVE IInv'
<1> USE DEF IInv
<1> DEFINE T == Timestamp(delay)
           n == Len(due) + 1
           L == Len(buckets'[T])
<1>1. /\ T \in Nat /\ n \in Nat /\ timer <= T
      /\ (delay # 0 => timer < T)
      /\ Len(due') = n /\ due' \in Seq(Nat)
      /\ \A e \in Entry : due'[e] = due[e] /\ e < n
      /\ due'[n] = T
  BY ScheduleEffect
<1>2. /\ DOMAIN buckets' = DOMAIN buckets \cup {T}
      /\ \A t \in DOMAIN buckets : /\ Len(buckets[t]) \in Nat
                                   /\ Len(buckets[t]) <= Len(buckets'[t])
      /\ \A t \in DOMAIN buckets : \A i \in 1..Len(buckets[t]) :
           buckets'[t][i] = buckets[t][i] /\ buckets[t][i] \in Entry
  BY ScheduleEffect
<1>3. \A t \in DOMAIN buckets' : \A i \in 1..Len(buckets'[t]) :
        \/ t \in DOMAIN buckets /\ i \in 1..Len(buckets[t])
        \/ t = T /\ i = L /\ buckets'[t][i] = n
  BY ScheduleEffect
<1>4. /\ L \in Nat \ {0} /\ buckets'[T][L] = n
      /\ (T \in DOMAIN buckets => L = Len(buckets[T]) + 1)
      /\ \A t \in DOMAIN buckets' : buckets'[t] \in Seq(Nat) /\ Len(buckets'[t]) \in Nat
  BY ScheduleEffect
<1>5. /\ pc \in {"idle", "callback"}
      /\ UNCHANGED <<timer, pc, cur, index, log, known, last>>
  BY DEF Schedule
<1>6. Entry' = 1..n /\ Entry = 1..(n - 1) /\ n # 0
  BY <1>1 DEF Entry, TypeOK
<1>7. \A k \in 1..Len(log) : log[k].entry \in Entry /\ due'[log[k].entry] = due[log[k].entry]
  BY <1>1 DEF Logged
<1> HIDE DEF T, n, L
<1>8. TypeOK'
  BY <1>1, <1>2, <1>4, <1>5 DEF TypeOK
<1>9. CurrentBucket'
  BY <1>2, <1>5 DEF CurrentBucket, Running, TypeOK
<1>10. Stamped'
  <2> SUFFICES ASSUME NEW t \in DOMAIN buckets', NEW i \in 1..Len(buckets'[t])
               PROVE  buckets'[t][i] \in 1..n /\ due'[buckets'[t][i]] = t
    BY <1>6 DEF Stamped
  <2>1. CASE t \in DOMAIN buckets /\ i \in 1..Len(buckets[t])
    <3>1. buckets[t][i] \in Entry /\ due[buckets[t][i]] = t
      BY <2>1 DEF Stamped
    <3>2. buckets[t][i] \in 1..n
      BY <3>1, <1>1, <1>6
    <3>3. due'[buckets[t][i]] = t
      BY <3>1, <1>1
    <3>4. buckets'[t][i] = buckets[t][i]
      BY <2>1, <1>2
    <3> QED
      BY <3>2, <3>3, <3>4
  <2>2. CASE t = T /\ buckets'[t][i] = n
    BY <2>2, <1>1, <1>6
  <2> QED
    BY <2>1, <2>2, <1>3
<1>11. Sorted'
  <2> SUFFICES ASSUME NEW t \in DOMAIN buckets', NEW i \in 1..Len(buckets'[t]),
                      NEW j \in 1..Len(buckets'[t]), i < j
               PROVE  buckets'[t][i] < buckets'[t][j]
    BY DEF Sorted
  <2>1. CASE t \in DOMAIN buckets /\ j \in 1..Len(buckets[t])
    <3>1. i \in 1..Len(buckets[t]) /\ j \in 1..Len(buckets[t])
      BY <2>1, <1>2
    <3> QED
      BY <2>1, <3>1, <1>2 DEF Sorted
  <2>2. CASE t = T /\ j = L /\ buckets'[t][j] = n
    <3>1. i # L /\ t \in DOMAIN buckets /\ i \in 1..Len(buckets[t])
      BY <2>2, <1>3, <1>4
    <3> QED
      BY <2>2, <3>1, <1>1, <1>2
  <2> QED
    BY <2>1, <2>2, <1>3
<1>12. NotOverdue'
  BY <1>1, <1>2, <1>5 DEF NotOverdue, TypeOK
<1>13. Logged'
  BY <1>5, <1>6, <1>7, <1>1 DEF Logged
<1>14. ASSUME NEW t \in DOMAIN buckets', NEW i \in Pending(t)'
       PROVE  \/ t \in DOMAIN buckets /\ i \in Pending(t)
                 /\ buckets'[t][i] = buckets[t][i]
              \/ t = T /\ i = L /\ buckets'[t][i] = n
  BY <1>2, <1>3, <1>5 DEF Pending, Running
<1>15. ExecutedNotPending'
  <2> SUFFICES ASSUME NEW t \in DOMAIN buckets', NEW i \in Pending(t)',
                      NEW k \in 1..Len(log)
               PROVE  log[k].entry # buckets'[t][i]
    BY <1>5 DEF ExecutedNotPending
  <2> QED
    BY <1>14, <1>7, <1>1 DEF ExecutedNotPending
<1>16. Accounted'
  <2> SUFFICES ASSUME NEW e \in 1..n
               PROVE  \/ \E k \in 1..Len(log) : log[k].entry = e
                      \/ \E t \in DOMAIN buckets' : \E i \in Pending(t)' : buckets'[t][i] = e
    BY <1>5, <1>6 DEF Accounted
  <2>1. CASE e = n
    <3>1. /\ T \in DOMAIN buckets' /\ L \in 1..Len(buckets'[T])
          /\ Running' /\ T = cur' => index' < L
      BY <1>2, <1>4, <1>5 DEF CurrentBucket, Running, TypeOK, L
    <3>2. PICK t \in DOMAIN buckets' : t = T
      BY <3>1
    <3>3. L \in Pending(t)' /\ buckets'[t][L] = e
      BY <3>1, <3>2, <2>1, <1>4 DEF Pending
    <3> QED
      BY <3>3
  <2>2. CASE e \in Entry
    <3>1. ASSUME NEW t \in DOMAIN buckets, NEW i \in Pending(t), buckets[t][i] = e
          PROVE  t \in DOMAIN buckets' /\ i \in Pending(t)' /\ buckets'[t][i] = e
      <4>1. i \in 1..Len(buckets[t]) /\ (Running /\ t = cur => index < i)
        BY DEF Pending
      <4>2. i \in 1..Len(buckets'[t]) /\ t \in DOMAIN buckets' /\ buckets'[t][i] = e
        BY <3>1, <4>1, <1>2, <1>4
      <4> QED
        BY <4>1, <4>2, <1>5 DEF Pending, Running
    <3> QED
      BY <2>2, <3>1 DEF Accounted
  <2> QED
    BY <2>1, <2>2, <1>1, <1>6
<1>17. ExecutedFirst'
  <2> SUFFICES ASSUME NEW t \in DOMAIN buckets', NEW i \in Pending(t)',
                      NEW k \in 1..Len(log), due[log[k].entry] = t
               PROVE  log[k].entry < buckets'[t][i]
    BY <1>5, <1>7 DEF ExecutedFirst
  <2> QED
    BY <1>14, <1>7, <1>1 DEF ExecutedFirst
<1>18. NewNotDue'
  <2> SUFFICES ASSUME pc # "idle",
                      NEW t \in DOMAIN buckets', NEW i \in 1..Len(buckets'[t])
               PROVE  buckets'[t][i] <= known \/ timer <= t
    BY <1>5 DEF NewNotDue
  <2>1. timer <= T
    BY <1>1
  <2> QED
    BY <2>1, <1>2, <1>3 DEF NewNotDue
<1>19. OnTime' /\ FifoPerTimestamp'
  BY <1>5, <1>7 DEF OnTime, FifoPerTimestamp
<1>20. AtMostOnce' /\ NoSelfFeeding'
  BY <1>5, <1>7 DEF AtMostOnce, NoSelfFeeding
<1> QED
  BY <1>8, <1>9, <1>10, <1>11, <1>12, <1>13, <1>15, <1>16, <1>17, <1>18, <1>19, <1>20

\* UpdateScheduledEvents begins: nothing is overdue, so last becomes the timer.
LEMMA UpdateIInv ==
    ASSUME IInv, NEW delta \in Deltas, Update(delta) PROVE IInv'
<1> USE DEF IInv, Update
<1>1. delta \in Nat
  BY DeltasAssumption
<1>2. Entry' = Entry /\ ~Running /\ ~Running'
  BY DEF Entry, Running
<1>3. TypeOK' /\ CurrentBucket' /\ Logged'
  BY <1>1, <1>2 DEF TypeOK, CurrentBucket, Logged
<1>4. Stamped' /\ Sorted'
  BY <1>2 DEF Stamped, Sorted
<1>5. NotOverdue'
  BY <1>1 DEF NotOverdue, TypeOK
<1>6. \A t \in DOMAIN buckets : Pending(t)' = Pending(t)
  BY <1>2 DEF Pending
<1>7. ExecutedNotPending' /\ ExecutedFirst'
  BY <1>6 DEF ExecutedNotPending, ExecutedFirst
<1>8. Accounted'
  BY <1>2, <1>6 DEF Accounted
<1>9. NewNotDue'
  <2>1. \A t \in DOMAIN buckets : \A i \in 1..Len(buckets[t]) : buckets[t][i] <= Len(due)
    BY DEF Stamped, Entry
  <2> QED
    BY <2>1 DEF NewNotDue
<1>10. OnTime' /\ AtMostOnce' /\ FifoPerTimestamp' /\ NoSelfFeeding'
  BY DEF OnTime, AtMostOnce, FifoPerTimestamp, NoSelfFeeding
<1> QED
  BY <1>3, <1>4, <1>5, <1>7, <1>8, <1>9, <1>10

\* Choosing a due bucket changes what is running, not what waits.
LEMMA PickIInv ==
    ASSUME IInv, NEW t0 \in DOMAIN buckets, PickBucket(t0) PROVE IInv'
<1> USE DEF IInv, PickBucket
<1>1. Entry' = Entry /\ ~Running /\ t0 \in Nat
  BY DEF Entry, Running, TypeOK
<1>2. TypeOK' /\ Logged'
  BY <1>1 DEF TypeOK, Logged
<1>3. CurrentBucket'
  BY DEF CurrentBucket, TypeOK
<1>4. Stamped' /\ Sorted' /\ NotOverdue' /\ NewNotDue'
  BY <1>1 DEF Stamped, Sorted, NotOverdue, NewNotDue
<1>5. \A t \in DOMAIN buckets : Pending(t)' = Pending(t)
  BY <1>1 DEF Pending
<1>6. ExecutedNotPending' /\ ExecutedFirst'
  BY <1>5 DEF ExecutedNotPending, ExecutedFirst
<1>7. Accounted'
  BY <1>1, <1>5 DEF Accounted
<1>8. OnTime' /\ AtMostOnce' /\ FifoPerTimestamp' /\ NoSelfFeeding'
  BY DEF OnTime, AtMostOnce, FifoPerTimestamp, NoSelfFeeding
<1> QED
  BY <1>2, <1>3, <1>4, <1>6, <1>7, <1>8

\* The next entry of the running bucket moves from the pending to the log.
LEMMA ExecuteIInv ==
    ASSUME IInv, ExecuteEntry PROVE IInv'
<1> USE DEF IInv
<1> DEFINE e == buckets[cur][index + 1]
           r == [entry |-> e, at |-> timer, since |-> last, known |-> known]
<1>1. /\ pc = "bucket" /\ pc' = "callback"
      /\ index < Len(buckets[cur]) /\ index' = index + 1
      /\ log' = Append(log, r)
      /\ UNCHANGED <<timer, buckets, cur, due, known, last>>
  BY DEF ExecuteEntry
<1>2. Entry' = Entry /\ Running /\ Running'
  BY <1>1 DEF Entry, Running
<1>3. /\ cur \in DOMAIN buckets /\ index \in Nat /\ index + 1 \in 1..Len(buckets[cur])
      /\ e \in Entry /\ due[e] = cur /\ cur <= timer /\ e \in Nat
  BY <1>1, <1>2 DEF CurrentBucket, Stamped, TypeOK, Entry
<1>4. index + 1 \in Pending(cur)
  BY <1>3 DEF Pending
<1>5. r \in Executed
  BY <1>3 DEF Executed, TypeOK
<1>6. /\ log' \in Seq(Executed) /\ Len(log') = Len(log) + 1 /\ Len(log) \in Nat
      /\ \A k \in 1..Len(log) : log'[k] = log[k]
      /\ log'[Len(log) + 1] = r
  BY <1>1, <1>5 DEF TypeOK
<1>7. \A t \in DOMAIN buckets : \A i \in Pending(t)' :
        i \in Pending(t) /\ (t = cur => index + 1 < i)
  BY <1>1, <1>2, <1>3 DEF Pending
<1>8. \A t \in DOMAIN buckets : \A i \in Pending(t) :
        i \in Pending(t)' \/ (t = cur /\ i = index + 1)
  BY <1>1, <1>2, <1>3 DEF Pending
<1>9. r.entry = e /\ r.at = timer /\ r.since = last /\ r.known = known
  OBVIOUS
<1> HIDE DEF e, r
<1>10. TypeOK' /\ CurrentBucket'
  BY <1>1, <1>2, <1>3, <1>6 DEF TypeOK, CurrentBucket
<1>11. Stamped' /\ Sorted' /\ NotOverdue' /\ NewNotDue'
  BY <1>1, <1>2 DEF Stamped, Sorted, NotOverdue, NewNotDue
<1>12. Logged'
  BY <1>2, <1>3, <1>6, <1>9 DEF Logged
<1>13. ExecutedNotPending'
  <2> SUFFICES ASSUME NEW t \in DOMAIN buckets, NEW i \in Pending(t)',
                      NEW k \in 1..Len(log')
               PROVE  log'[k].entry # buckets[t][i]
    BY <1>1 DEF ExecutedNotPending
  <2>1. CASE k \in 1..Len(log)
    BY <2>1, <1>6, <1>7 DEF ExecutedNotPending
  <2>2. CASE k = Len(log) + 1 /\ t = cur
    <3>1. i \in 1..Len(buckets[cur]) /\ index + 1 < i
      BY <2>2, <1>7 DEF Pending
    <3>2. e < buckets[cur][i]
      BY <3>1, <1>3 DEF Sorted, e
    <3>3. buckets[cur][i] \in Nat
      BY <3>1, <1>3 DEF Stamped, Entry
    <3> QED
      BY <2>2, <3>2, <3>3, <1>3, <1>6, <1>9
  <2>3. CASE k = Len(log) + 1 /\ t # cur
    <3>1. due[buckets[t][i]] = t
      BY <1>7 DEF Stamped, Pending
    <3> QED
      BY <2>3, <3>1, <1>3, <1>6, <1>9
  <2> QED
    BY <2>1, <2>2, <2>3, <1>6
<1>14. Accounted'
  <2> SUFFICES ASSUME NEW f \in Entry
               PROVE  \/ \E k \in 1..Len(log') : log'[k].entry = f
                      \/ \E t \in DOMAIN buckets : \E i \in Pending(t)' : buckets[t][i] = f
    BY <1>1, <1>2 DEF Accounted
  <2>1. CASE \E k \in 1..Len(log) : log[k].entry = f
    BY <2>1, <1>6
  <2>2. CASE \E t \in DOMAIN buckets : \E i \in Pending(t) : buckets[t][i] = f
    <3>0. PICK t \in DOMAIN buckets : \E i \in Pending(t) : buckets[t][i] = f
      BY <2>2
    <3>1. PICK i \in Pending(t) : buckets[t][i] = f
      BY <3>0
    <3>2. CASE i \in Pending(t)'
      BY <3>1, <3>2
    <3>3. CASE t = cur /\ i = index + 1
      <4>1. f = e /\ Len(log) + 1 \in 1..Len(log')
        BY <3>1, <3>3, <1>6 DEF e
      <4> QED
        BY <4>1, <1>6, <1>9
    <3> QED
      BY <3>2, <3>3, <1>8
  <2> QED
    BY <2>1, <2>2 DEF Accounted
<1>15. ExecutedFirst'
  <2> SUFFICES ASSUME NEW t \in DOMAIN buckets, NEW i \in Pending(t)',
                      NEW k \in 1..Len(log'), due[log'[k].entry] = t
               PROVE  log'[k].entry < buckets[t][i]
    BY <1>1 DEF ExecutedFirst
  <2>1. CASE k \in 1..Len(log)
    BY <2>1, <1>6, <1>7 DEF ExecutedFirst
  <2>2. CASE k = Len(log) + 1
    <3>1. t = cur
      BY <2>2, <1>3, <1>6, <1>9
    <3>2. i \in 1..Len(buckets[cur]) /\ index + 1 < i
      BY <3>1, <1>7 DEF Pending
    <3>3. e < buckets[cur][i]
      BY <3>2, <1>3 DEF Sorted, e
    <3> QED
      BY <2>2, <3>1, <3>3, <1>6, <1>9
  <2> QED
    BY <2>1, <2>2, <1>6
<1>16. OnTime'
  <2> SUFFICES ASSUME NEW k \in 1..Len(log')
               PROVE  log'[k].since <= due[log'[k].entry] /\ due[log'[k].entry] <= log'[k].at
    BY <1>1 DEF OnTime
  <2>1. CASE k \in 1..Len(log)
    BY <2>1, <1>6 DEF OnTime
  <2>2. CASE k = Len(log) + 1
    BY <2>2, <1>1, <1>3, <1>6, <1>9 DEF NotOverdue
  <2> QED
    BY <2>1, <2>2, <1>6
<1>17. \A k \in 1..Len(log) : log[k].entry # e /\ (due[log[k].entry] = cur => log[k].entry < e)
  BY <1>3, <1>4 DEF ExecutedNotPending, ExecutedFirst, e
<1>18. AtMostOnce'
  <2> SUFFICES ASSUME NEW j \in 1..Len(log'), NEW k \in 1..Len(log'),
                      log'[j].entry = log'[k].entry
               PROVE  j = k
    BY DEF AtMostOnce
  <2>1. CASE j \in 1..Len(log) /\ k \in 1..Len(log)
    BY <2>1, <1>6 DEF AtMostOnce
  <2> QED
    BY <2>1, <1>6, <1>9, <1>17
<1>19. FifoPerTimestamp'
  <2> SUFFICES ASSUME NEW j \in 1..Len(log'), NEW k \in 1..Len(log'), j < k,
                      due[log'[j].entry] = due[log'[k].entry]
               PROVE  log'[j].entry < log'[k].entry
    BY <1>1 DEF FifoPerTimestamp
  <2>1. CASE k \in 1..Len(log)
    <3>1. j \in 1..Len(log)
      BY <2>1
    <3> QED
      BY <2>1, <3>1, <1>6 DEF FifoPerTimestamp
  <2>2. CASE k = Len(log) + 1
    <3>1. j \in 1..Len(log)
      BY <2>2, <1>6
    <3> QED
      BY <2>2, <3>1, <1>3, <1>6, <1>9, <1>17
  <2> QED
    BY <2>1, <2>2, <1>6
<1>20. NoSelfFeeding'
  <2> SUFFICES ASSUME NEW k \in 1..Len(log')
               PROVE  log'[k].entry <= log'[k].known \/ due[log'[k].entry] = log'[k].at
    BY <1>1 DEF NoSelfFeeding
  <2>1. CASE k \in 1..Len(log)
    BY <2>1, <1>6 DEF NoSelfFeeding
  <2>2. CASE k = Len(log) + 1
    <3>1. e <= known \/ timer <= cur
      BY <1>1, <1>3 DEF NewNotDue, e
    <3> QED
      BY <2>2, <3>1, <1>3, <1>6, <1>9 DEF TypeOK
  <2> QED
    BY <2>1, <2>2, <1>6
<1> QED
  BY <1>10, <1>11, <1>12, <1>13, <1>14, <1>15, <1>16, <1>18, <1>19, <1>20

\* The callbacks of an entry return: the bucket goes on where it was.
LEMMA ReturnIInv ==
    ASSUME IInv, CallbackReturns PROVE IInv'
<1> USE DEF IInv, CallbackReturns
<1>1. Entry' = Entry /\ Running /\ Running'
  BY DEF Entry, Running
<1>2. \A t \in DOMAIN buckets : Pending(t)' = Pending(t)
  BY <1>1 DEF Pending
<1>3. TypeOK' /\ CurrentBucket' /\ Logged'
  BY <1>1 DEF TypeOK, CurrentBucket, Logged
<1>4. Stamped' /\ Sorted' /\ NotOverdue' /\ NewNotDue'
  BY <1>1 DEF Stamped, Sorted, NotOverdue, NewNotDue
<1>5. ExecutedNotPending' /\ ExecutedFirst'
  BY <1>2 DEF ExecutedNotPending, ExecutedFirst
<1>6. Accounted'
  BY <1>1, <1>2 DEF Accounted
<1>7. OnTime' /\ AtMostOnce' /\ FifoPerTimestamp' /\ NoSelfFeeding'
  BY DEF OnTime, AtMostOnce, FifoPerTimestamp, NoSelfFeeding
<1> QED
  BY <1>3, <1>4, <1>5, <1>6, <1>7

\* The removed bucket had nothing pending.
LEMMA RemoveIInv ==
    ASSUME IInv, RemoveBucket PROVE IInv'
<1> USE DEF IInv
<1>1. /\ pc = "bucket" /\ pc' = "scan" /\ index = Len(buckets[cur])
      /\ UNCHANGED <<timer, cur, index, due, log, known, last>>
      /\ DOMAIN buckets' = DOMAIN buckets \ {cur}
      /\ \A t \in DOMAIN buckets' : buckets'[t] = buckets[t]
  BY DEF RemoveBucket
<1>2. Entry' = Entry /\ Running /\ ~Running'
  BY <1>1 DEF Entry, Running
<1>3. \A t \in DOMAIN buckets' : Pending(t)' = Pending(t)
  BY <1>1, <1>2 DEF Pending
<1>4. Pending(cur) = {}
  BY <1>1, <1>2 DEF Pending, TypeOK
<1>5. TypeOK' /\ CurrentBucket' /\ Logged'
  BY <1>1, <1>2 DEF TypeOK, CurrentBucket, Logged
<1>6. Stamped' /\ Sorted' /\ NotOverdue' /\ NewNotDue'
  BY <1>1, <1>2 DEF Stamped, Sorted, NotOverdue, NewNotDue
<1>7. ExecutedNotPending' /\ ExecutedFirst'
  BY <1>1, <1>3 DEF ExecutedNotPending, ExecutedFirst
<1>8. Accounted'
  <2> SUFFICES ASSUME NEW e \in Entry,
                      NEW t \in DOMAIN buckets, NEW i \in Pending(t), buckets[t][i] = e
               PROVE  \E u \in DOMAIN buckets' : \E j \in Pending(u)' : buckets'[u][j] = e
    BY <1>1, <1>2 DEF Accounted
  <2>1. t \in DOMAIN buckets' /\ i \in Pending(t)' /\ buckets'[t][i] = e
    BY <1>1, <1>3, <1>4
  <2> QED
    BY <2>1
<1>9. OnTime' /\ AtMostOnce' /\ FifoPerTimestamp' /\ NoSelfFeeding'
  BY <1>1 DEF OnTime, AtMostOnce, FifoPerTimestamp, NoSelfFeeding
<1> QED
  BY <1>5, <1>6, <1>7, <1>8, <1>9

\* The update is over: every remaining bucket is ahead of the timer.
LEMMA NoneDueIInv ==
    ASSUME IInv, NoneDue PROVE IInv'
<1> USE DEF IInv, NoneDue
<1>1. Entry' = Entry /\ ~Running /\ ~Running'
  BY DEF Entry, Running
<1>2. \A t \in DOMAIN buckets : Pending(t)' = Pending(t)
  BY <1>1 DEF Pending
<1>3. TypeOK' /\ CurrentBucket' /\ Logged'
  BY <1>1 DEF TypeOK, CurrentBucket, Logged
<1>4. Stamped' /\ Sorted' /\ NewNotDue'
  BY <1>1 DEF Stamped, Sorted, NewNotDue
<1>5. NotOverdue'
  BY DEF NotOverdue, TypeOK
<1>6. ExecutedNotPending' /\ ExecutedFirst'
  BY <1>2 DEF ExecutedNotPending, ExecutedFirst
<1>7. Accounted'
  BY <1>1, <1>2 DEF Accounted
<1>8. OnTime' /\ AtMostOnce' /\ FifoPerTimestamp' /\ NoSelfFeeding'
  BY DEF OnTime, AtMostOnce, FifoPerTimestamp, NoSelfFeeding
<1> QED
  BY <1>3, <1>4, <1>5, <1>6, <1>7, <1>8

\* A step that changes nothing.
LEMMA StutterIInv ==
    ASSUME IInv, UNCHANGED vars PROVE IInv'
BY DEF IInv, vars, TypeOK, CurrentBucket, Running, Stamped, Sorted, NotOverdue,
       Logged, ExecutedNotPending, Accounted, ExecutedFirst, NewNotDue, OnTime,
       AtMostOnce, FifoPerTimestamp, NoSelfFeeding, Entry, Pending

\* Every step of the scheduler keeps the inductive invariant.
LEMMA NextIInv == IInv /\ [Next]_vars => IInv'
<1> SUFFICES ASSUME IInv, [Next]_vars PROVE IInv'
  OBVIOUS
<1>1. CASE ScheduleAny
  BY <1>1, ScheduleIInv DEF ScheduleAny
<1>2. CASE UpdateAny
  BY <1>2, UpdateIInv DEF UpdateAny
<1>3. CASE PickAny
  BY <1>3, PickIInv DEF PickAny
<1>4. CASE ExecuteEntry
  BY <1>4, ExecuteIInv
<1>5. CASE CallbackReturns
  BY <1>5, ReturnIInv
<1>6. CASE RemoveBucket
  BY <1>6, RemoveIInv
<1>7. CASE NoneDue
  BY <1>7, NoneDueIInv
<1>8. CASE UNCHANGED vars
  BY <1>8, StutterIInv
<1> QED
  BY <1>1, <1>2, <1>3, <1>4, <1>5, <1>6, <1>7, <1>8 DEF Next

\* The inductive invariant holds in every behaviour of the scheduler.
THEOREM Invariant == Spec => []IInv
BY InitIInv, NextIInv, PTL DEF Spec

-----------------------------------------------------------------------------
\* The scheduler's state has its types.
THEOREM TypeCorrect == Spec => []TypeOK
<1>1. IInv => TypeOK
  BY DEF IInv
<1> QED
  BY <1>1, Invariant, PTL

\* Each entry is executed in exactly the update that reaches its timestamp,
\* whatever the order in which pairs() meets the due buckets.
THEOREM PunctualExecution == Spec => []OnTime
<1>1. IInv => OnTime
  BY DEF IInv
<1> QED
  BY <1>1, Invariant, PTL

\* No entry is executed twice, even when callbacks schedule into the bucket
\* that is being run.
THEOREM SingleExecution == Spec => []AtMostOnce
<1>1. IInv => AtMostOnce
  BY DEF IInv
<1> QED
  BY <1>1, Invariant, PTL

\* The inductive invariant accounts for every entry.
LEMMA NothingLostInIInv == IInv => NothingLost
<1> SUFFICES ASSUME IInv PROVE NothingLost
  OBVIOUS
<1> USE DEF IInv
<1>1. ExecutedEntries \subseteq Entry /\ Waiting \subseteq Entry
  BY DEF ExecutedEntries, Waiting, Logged
<1>2. ASSUME NEW e \in Entry PROVE e \in ExecutedEntries \cup Waiting
  BY DEF ExecutedEntries, Waiting, Accounted
<1>3. ASSUME NEW e \in Waiting PROVE e \notin ExecutedEntries
  BY DEF ExecutedEntries, Waiting, ExecutedNotPending
<1> QED
  BY <1>1, <1>2, <1>3 DEF NothingLost

\* Every entry ever scheduled was executed or waits, never both.
THEOREM NothingIsLost == Spec => []NothingLost
BY NothingLostInIInv, Invariant, PTL

\* Entries with the same timestamp are executed in scheduling order.
THEOREM FifoExecution == Spec => []FifoPerTimestamp
<1>1. IInv => FifoPerTimestamp
  BY DEF IInv
<1> QED
  BY <1>1, Invariant, PTL

\* An update executes what was scheduled before it began, or at zero delay in it:
\* without zero delays it cannot feed itself.
THEOREM FiniteUpdate == Spec => []NoSelfFeeding
<1>1. IInv => NoSelfFeeding
  BY DEF IInv
<1> QED
  BY <1>1, Invariant, PTL

-----------------------------------------------------------------------------
\* The timers the service sees are determined by due and log.
Unexecuted == {[name |-> e, due |-> due[e]] : e \in Entry \ ExecutedEntries}

\* The inductive invariant makes the armed timers the unexecuted entries.
LEMMA ArmedIs == IInv => Armed = Unexecuted
BY NothingLostInIInv DEF Armed, NothingLost, Unexecuted

\* The same in the next state.
LEMMA ArmedIsNext == IInv' => Armed' = Unexecuted'
<1>1. (IInv => Armed = Unexecuted)'
  BY ArmedIs, PTL
<1> QED
  BY <1>1

\* Scheduling arms one timer with the next name.
LEMMA ScheduleArms ==
    ASSUME IInv, IInv', NEW delay \in Delays, Schedule(delay)
    PROVE  Service!Arm(delay)
<1>2. /\ due' = Append(due, Timestamp(delay)) /\ log' = log /\ timer' = timer
      /\ due \in Seq(Nat) /\ Timestamp(delay) \in Nat
  BY DelaysAssumption DEF Schedule, Timestamp, IInv, TypeOK
<1>3. ExecutedEntries' = ExecutedEntries /\ ExecutedEntries \subseteq Entry
  BY <1>2 DEF ExecutedEntries, IInv, Logged
<1>4. /\ Entry' = Entry \cup {Len(due) + 1} /\ Len(due) + 1 \notin Entry
      /\ Len(due') = Len(due) + 1 /\ due'[Len(due) + 1] = Timestamp(delay)
      /\ \A e \in Entry : due'[e] = due[e]
  BY <1>2 DEF Entry
<1>5. Armed' = Armed \cup {[name |-> Len(due) + 1, due |-> Timestamp(delay)]}
  BY <1>3, <1>4, ArmedIs, ArmedIsNext DEF Unexecuted
<1> QED
  BY <1>2, <1>4, <1>5 DEF Service!Arm, Timestamp

\* Executing an entry fires its timer.
LEMMA ExecuteFires ==
    ASSUME IInv, IInv', ExecuteEntry
    PROVE  \E a \in Armed : Service!Fire(a)
<1> DEFINE e == buckets[cur][index + 1]
           a == [name |-> e, due |-> due[e]]
<1>2. /\ cur \in DOMAIN buckets /\ index + 1 \in 1..Len(buckets[cur])
      /\ e \in Entry /\ due[e] = cur /\ cur <= timer
  BY DEF ExecuteEntry, IInv, CurrentBucket, Running, Stamped, TypeOK
<1>3. e \in Waiting
  <2>1. index + 1 \in Pending(cur)
    BY <1>2 DEF Pending, IInv, TypeOK
  <2> QED
    BY <1>2, <2>1 DEF Waiting
<1>4. ExecutedEntries' = ExecutedEntries \cup {e}
  <2>1. /\ Len(log') = Len(log) + 1 /\ Len(log) \in Nat
        /\ \A k \in 1..Len(log) : log'[k] = log[k]
        /\ log'[Len(log) + 1].entry = e
    BY DEF ExecuteEntry, IInv, TypeOK
  <2> QED
    BY <2>1 DEF ExecutedEntries
<1>5. /\ UNCHANGED <<timer, due>> /\ Entry' = Entry
  BY DEF ExecuteEntry, Entry
<1>6. a \in Armed /\ Armed' = Armed \ {a}
  BY <1>3, <1>4, <1>5, ArmedIs, ArmedIsNext DEF Armed, Unexecuted
<1> QED
  BY <1>2, <1>5, <1>6 DEF Service!Fire

\* Time advances only when no waiting entry is overdue.
LEMMA UpdateAdvances ==
    ASSUME IInv, IInv', NEW delta \in Deltas, Update(delta)
    PROVE  Service!Advance(delta)
<1>1. Armed' = Armed
  <2>1. Unexecuted' = Unexecuted
    BY DEF Update, Entry, ExecutedEntries, Unexecuted
  <2> QED
    BY <2>1, ArmedIs, ArmedIsNext
<1>2. ASSUME NEW e \in Waiting PROVE timer <= due[e]
  BY DEF Waiting, Pending, Update, IInv, Stamped, NotOverdue
<1> QED
  BY <1>1, <1>2 DEF Service!Advance, Update, Armed

\* Choosing and removing buckets is invisible to callers of the service.
LEMMA InternalStutters ==
    ASSUME IInv, IInv', UNCHANGED <<timer, due, log>>
    PROVE  UNCHANGED <<timer, Len(due), Armed>>
<1>1. Unexecuted' = Unexecuted /\ Len(due') = Len(due)
  BY DEF Entry, ExecutedEntries, Unexecuted
<1> QED
  BY <1>1, ArmedIs, ArmedIsNext

\* The buckets of Gateway.lua implement the timer service: for every set of
\* delays and deltas, no event fires early, twice, or after time has moved on.
THEOREM Refinement == Spec => ImplementsTimerService
<1>1. Init => Service!TInit
  BY DEF Init, Service!TInit, Armed, Waiting, Entry
<1>2. IInv /\ IInv' /\ [Next]_vars => [Service!TNext]_(Service!tvars)
  <2> SUFFICES ASSUME IInv, IInv', [Next]_vars
               PROVE  [Service!TNext]_(Service!tvars)
    OBVIOUS
  <2>1. CASE ScheduleAny
    BY <2>1, ScheduleArms DEF ScheduleAny, Service!TNext
  <2>2. CASE UpdateAny
    BY <2>2, UpdateAdvances DEF UpdateAny, Service!TNext
  <2>3. CASE ExecuteEntry
    BY <2>3, ExecuteFires DEF Service!TNext
  <2>4. CASE PickAny \/ CallbackReturns \/ RemoveBucket \/ NoneDue \/ UNCHANGED vars
    <3>1. UNCHANGED <<timer, due, log>>
      BY <2>4 DEF PickAny, PickBucket, CallbackReturns, RemoveBucket, NoneDue, vars
    <3> QED
      BY <3>1, InternalStutters DEF Service!tvars
  <2> QED
    BY <2>1, <2>2, <2>3, <2>4 DEF Next
<1> QED
  BY <1>1, <1>2, Invariant, PTL DEF Spec, ImplementsTimerService, Service!TSpec

\* Every scheduled event is executed once, in the update that reaches its time.
THEOREM OnceOnTime == Spec => []ExecutedOnceOnTime
BY PunctualExecution, SingleExecution, NothingIsLost, PTL DEF ExecutedOnceOnTime
=============================================================================
