--------------------------- MODULE ExtensionsProofs ---------------------------
(***************************************************************************)
(* Proofs about the modules under Extensions.  A step of Extensions is a   *)
(* step of one of them and leaves the others as they are, so that each has *)
(* its own invariant (LInv of Loop, HInv of Host, SInv of Socket, BInv of  *)
(* ByteBuffer), which is shown to hold of Extensions by Alone and the      *)
(* lemmas about it.                                                        *)
(***************************************************************************)
EXTENDS Extensions, SequenceTheorems, TLAPS

\* Seen from each of the modules, a step is one of its own or changes nothing.
LEMMA Alone ==
    ASSUME [Next]_vars
    PROVE  [S!Next]_socketVars /\ [B!Next]_bufferVars /\ [H!Next]_hostVars /\ [L!Next]_loopVars
<1>1. CASE UNCHANGED vars
  BY <1>1 DEF vars
<1>2. CASE Next
  BY <1>2 DEF Next
<1> QED
  BY <1>1, <1>2

-----------------------------------------------------------------------------
(* Loop *)

\* No interval is dropped or added, however late the calls came.
Laid == next_update = L!FromMilliseconds(L!ToMilliseconds(start) + (syncs + 1) * Interval)

LInv == L!TypeOK /\ Laid /\ L!PaceHeld /\ L!ClockNeverAhead

\* A time in ticks, cut to milliseconds and back, loses less than a millisecond.
LEMMA Truncation ==
  ASSUME NEW t \in Nat
  PROVE  /\ L!ToMilliseconds(t) \in Nat
         /\ L!FromMilliseconds(L!ToMilliseconds(t)) <= t
         /\ t <= L!FromMilliseconds(L!ToMilliseconds(t)) + (TicksPerMs - 1)
<1> DEFINE q == t \div TicksPerMs  r == t % TicksPerMs
<1>1. q \in Nat /\ r \in 0..(TicksPerMs - 1) /\ t = TicksPerMs * q + r
  BY LoopAssumption
<1>2. TicksPerMs * q = q * TicksPerMs /\ q * TicksPerMs \in Nat
  BY <1>1, LoopAssumption
<1> QED  BY <1>1, <1>2, LoopAssumption DEF L!ToMilliseconds, L!FromMilliseconds

\* Milliseconds add up as ticks.
LEMMA Linear ==
  ASSUME NEW a \in Nat, NEW b \in Nat
  PROVE  /\ L!FromMilliseconds(a) \in Nat
         /\ L!FromMilliseconds(a + b) = L!FromMilliseconds(a) + L!FromMilliseconds(b)
BY LoopAssumption DEF L!FromMilliseconds

\* One more call is one more interval.
LEMMA OneMore ==
  ASSUME NEW k \in Nat
  PROVE  /\ k * Interval \in Nat /\ k * (TicksPerMs - 1) \in Nat
         /\ (k + 1) * Interval = k * Interval + Interval
         /\ (k + 1) * (TicksPerMs - 1) = k * (TicksPerMs - 1) + (TicksPerMs - 1)
BY LoopAssumption

\* loop_init establishes the invariant.
LEMMA LoopInit == L!Init => LInv
<1> SUFFICES ASSUME L!Init PROVE LInv
  OBVIOUS
<1>1. now \in Nat /\ start = now /\ last_update = now /\ syncs = 0 /\ reported = 0
  BY LoopAssumption DEF L!Init
<1>2. L!ToMilliseconds(now) + Interval \in Nat
  BY <1>1, Truncation, LoopAssumption
<1>3. next_update \in Nat
  BY <1>2, Linear, LoopAssumption DEF L!Init
<1>4. Laid
  BY <1>1, OneMore, LoopAssumption DEF L!Init, Laid
<1>5. L!ClockNeverAhead
  BY <1>1, LoopAssumption DEF L!ClockNeverAhead, L!FromMilliseconds
<1> QED  BY <1>1, <1>3, <1>4, <1>5 DEF LInv, L!TypeOK, L!PaceHeld

\* The step of a call of loop_sync that returns late by the given ticks.
LEMMA SyncStep ==
  ASSUME LInv, NEW late \in Lates, L!Sync(late)
  PROVE  LInv'
<1>1. {now, last_update, start, next_update, syncs, reported} \subseteq Nat
      /\ start <= last_update /\ last_update <= now /\ late \in Nat
  BY LoopAssumption DEF LInv, L!TypeOK
<1> DEFINE time == L!Woken + late
           delta == L!ToMilliseconds(time - last_update)
<1>2. time \in Nat /\ time >= now /\ time >= next_update
  BY <1>1 DEF L!Woken
<1>3. /\ now' = time /\ last_update' = time /\ syncs' = syncs + 1 /\ start' = start
      /\ next_update' = next_update + L!FromMilliseconds(Interval)
      /\ reported' = reported + delta
  BY DEF L!Sync
<1> HIDE DEF time
<1>4. time - last_update \in Nat
  BY <1>1, <1>2
<1>5. /\ delta \in Nat
      /\ L!FromMilliseconds(delta) <= time - last_update
      /\ time - last_update <= L!FromMilliseconds(delta) + (TicksPerMs - 1)
  BY <1>4, Truncation
<1> HIDE DEF delta
<1>6. L!TypeOK'
  <2>1. L!FromMilliseconds(Interval) \in Nat
    BY Linear, LoopAssumption
  <2>2. next_update' \in Nat /\ syncs' \in Nat /\ reported' \in Nat /\ last_update' \in Nat
    BY <1>1, <1>2, <1>3, <1>5, <2>1
  <2>3. start' <= last_update' /\ last_update' <= now'
    BY <1>1, <1>2, <1>3
  <2> QED  BY <1>1, <1>2, <1>3, <2>2, <2>3 DEF L!TypeOK
<1> DEFINE base == L!ToMilliseconds(start)
<1>7. base \in Nat /\ L!FromMilliseconds(base) <= start
      /\ start <= L!FromMilliseconds(base) + (TicksPerMs - 1)
  BY <1>1, Truncation
<1>8. next_update = L!FromMilliseconds(base) + L!FromMilliseconds(syncs' * Interval)
  <2>1. next_update = L!FromMilliseconds(base + (syncs + 1) * Interval)
    BY DEF LInv, Laid
  <2> QED  BY <1>1, <1>3, <1>7, <2>1, Linear, OneMore, LoopAssumption
<1>9. Laid'
  <2>1. (syncs' + 1) * Interval = syncs' * Interval + Interval /\ syncs' * Interval \in Nat
    BY <1>1, <1>3, OneMore
  <2>2. L!FromMilliseconds(base + (syncs' * Interval + Interval))
          = L!FromMilliseconds(base) + (L!FromMilliseconds(syncs' * Interval) + L!FromMilliseconds(Interval))
    BY <1>7, <2>1, Linear, LoopAssumption
  <2>3. /\ L!FromMilliseconds(base) \in Nat /\ L!FromMilliseconds(Interval) \in Nat
        /\ L!FromMilliseconds(syncs' * Interval) \in Nat
    BY <1>7, <2>1, Linear, LoopAssumption
  <2> QED  BY <1>3, <1>8, <2>1, <2>2, <2>3 DEF Laid
<1>10. L!PaceHeld'
  <2>1. syncs' * Interval \in Nat
    BY <1>1, <1>3, OneMore
  <2>2. L!FromMilliseconds(base) \in Nat /\ L!FromMilliseconds(syncs' * Interval) \in Nat
    BY <1>7, <2>1, Linear
  <2>3. last_update' >= next_update /\ start' = start
    BY <1>2, <1>3
  <2> QED  BY <1>1, <1>2, <1>3, <1>7, <1>8, <2>2, <2>3, LoopAssumption DEF L!PaceHeld
<1>11. L!ClockNeverAhead'
  <2>1. L!FromMilliseconds(reported') = L!FromMilliseconds(reported) + L!FromMilliseconds(delta)
    BY <1>1, <1>3, <1>5, Linear
  <2>2. syncs' * (TicksPerMs - 1) = syncs * (TicksPerMs - 1) + (TicksPerMs - 1)
        /\ syncs * (TicksPerMs - 1) \in Nat
    BY <1>1, <1>3, OneMore
  <2>3. L!FromMilliseconds(reported) \in Nat /\ L!FromMilliseconds(delta) \in Nat
    BY <1>1, <1>5, Linear
  <2> QED
    BY <1>1, <1>2, <1>3, <1>5, <2>1, <2>2, <2>3, LoopAssumption DEF LInv, L!ClockNeverAhead
<1> QED  BY <1>6, <1>9, <1>10, <1>11 DEF LInv

LEMMA LoopInvariant == Spec => []LInv
<1>1. Init => LInv
  BY LoopInit DEF Init
<1>2. LInv /\ [Next]_vars => LInv'
  <2> SUFFICES ASSUME LInv, [Next]_vars PROVE LInv'
    OBVIOUS
  <2>1. ASSUME NEW ticks \in Works, L!Work(ticks) PROVE LInv'
    BY <2>1, LoopAssumption
    DEF L!Work, LInv, L!TypeOK, Laid, L!PaceHeld, L!ClockNeverAhead
  <2>2. CASE UNCHANGED loopVars
    BY <2>2 DEF loopVars, LInv, L!TypeOK, Laid, L!PaceHeld, L!ClockNeverAhead
  <2> QED
    BY <2>1, <2>2, Alone, SyncStep DEF L!Next
<1> QED
  BY <1>1, <1>2, PTL DEF Spec

\* For every interval and however late its calls come, Sync keeps the pace, and the
\* clock made of what it returns never runs ahead of the time.
THEOREM KeepsTime == Spec => []TimeKept
<1>1. LInv => TimeKept
  BY DEF LInv, TimeKept
<1> QED
  BY <1>1, LoopInvariant, PTL

\* A loop that has caught up is back on its schedule (Loop/main.cpp:51).
THEOREM Schedule == Spec => OnScheduleAgain
<1> DEFINE Back == \A late \in Lates : L!Sync(late) /\ now < next_update
                     => now' <= start + L!FromMilliseconds(syncs' * Interval) + late
<1>1. LInv /\ [Next]_vars => [Back]_loopVars
  <2> SUFFICES ASSUME LInv, NEW late \in Lates, L!Sync(late), now < next_update
               PROVE  now' <= start + L!FromMilliseconds(syncs' * Interval) + late
    OBVIOUS
  <2>1. now' = next_update + late /\ syncs' = syncs + 1
    BY DEF L!Sync, L!Woken
  <2>2. /\ start \in Nat /\ syncs \in Nat /\ late \in Nat
        /\ L!ToMilliseconds(start) \in Nat /\ L!FromMilliseconds(L!ToMilliseconds(start)) <= start
    BY Truncation, LoopAssumption DEF LInv, L!TypeOK
  <2>3. next_update = L!FromMilliseconds(L!ToMilliseconds(start))
                        + L!FromMilliseconds((syncs + 1) * Interval)
    BY <2>2, OneMore, Linear, LoopAssumption DEF LInv, Laid
  <2>4. L!FromMilliseconds(L!ToMilliseconds(start)) \in Nat
        /\ L!FromMilliseconds((syncs + 1) * Interval) \in Nat
    <3>1. (syncs + 1) * Interval \in Nat
      BY <2>2, OneMore, LoopAssumption
    <3> QED  BY <2>2, <3>1, Linear
  <2> QED  BY <2>1, <2>2, <2>3, <2>4
<1> QED  BY <1>1, LoopInvariant, PTL DEF Spec, OnScheduleAgain, L!OnScheduleAgain, L!vars, loopVars

-----------------------------------------------------------------------------
(* Host *)

\* An extension can be stale only when it is ready.
StaleReady == \A h \in stale : H!At(h, "ready")

\* The only module that can have missed its constants is the shared one.
MissedShared == \A l \in Libraries : required[l] = FALSE => l = Shared

HInv == H!TypeOK /\ ResourcesBalanced /\ GlobalsFollowLibraries /\ StaleReady /\ MissedShared

Record == [library : Libraries, stage : H!Stages]

LEMMA HostInit == H!Init => HInv
<1> SUFFICES ASSUME H!Init PROVE HInv
  OBVIOUS
<1>1. H!Live = {} /\ H!Loading = {} /\ \A l : H!Ready(l) = {}
  BY DEF H!Init, H!Live, H!Loading, H!Ready
<1>2. H!TypeOK /\ ResourcesBalanced
  <2>1. 0 \in H!Int16s /\ 0 \in 0..MaxLoads
    BY HostAssumption DEF H!Int16s
  <2> QED
    BY <1>1, <2>1 DEF H!Init, H!TypeOK, ResourcesBalanced, H!ResourcesBalanced
<1>3. GlobalsFollowLibraries /\ StaleReady /\ MissedShared
  BY <1>1, NilIsNoRecord
  DEF H!Init, GlobalsFollowLibraries, H!DanglingOnlyForgotten, H!GlobalsDefined,
      H!ConstantsCaptured, StaleReady, MissedShared
<1> QED
  BY <1>2, <1>3 DEF HInv

\* An exit code is cut down to 16 bits.
LEMMA Wraps ==
    ASSUME NEW code \in Int
    PROVE  H!Int16(code) \in H!Int16s
<1> DEFINE sum == code + 32768
           low == sum % 65536
<1>1. sum \in Int
  OBVIOUS
<1>2. H!Int16(code) = low - 32768
  BY DEF H!Int16
<1> HIDE DEF sum
<1>3. low \in 0..65535
  BY <1>1
<1> HIDE DEF low
<1>4. low - 32768 \in H!Int16s
  BY <1>3 DEF H!Int16s
<1> QED
  BY <1>2, <1>4

\* main and the script around the extensions.
LEMMA HostScript ==
    ASSUME HInv,
           \/ H!InitFails \/ H!LoadScript \/ H!ScriptEnds \/ H!ScriptRaises
           \/ \E code \in ExitCodes : H!SetExitCode(code)
    PROVE  HInv'
<1>1. UNCHANGED <<extension, processes, images, globals, required, stale, loads>>
  BY DEF H!InitFails, H!LoadScript, H!ScriptEnds, H!ScriptRaises, H!SetExitCode, H!extensions
<1>2. /\ H!Live' = H!Live /\ H!Loading' = H!Loading
      /\ \A l : H!Ready(l)' = H!Ready(l)
      /\ \A h, stage : H!At(h, stage)' <=> H!At(h, stage)
  BY <1>1 DEF H!Live, H!Loading, H!Ready, H!At
<1>3. /\ pc' \in {"init", "script", "exited"} /\ fileExists' \in BOOLEAN /\ lua' \in BOOLEAN
      /\ result' \in {nil, "true", "throws"}
      /\ exitCode' \in H!Int16s /\ status' \in H!Int16s \cup {nil}
  <2>1. ASSUME NEW code \in ExitCodes PROVE H!Int16(code) \in H!Int16s
    BY HostAssumption, Wraps
  <2>2. 0 \in H!Int16s /\ -1 \in H!Int16s
    BY DEF H!Int16s
  <2>3. CASE H!InitFails \/ H!LoadScript
    BY <2>2, <2>3 DEF H!InitFails, H!LoadScript, H!Exit, HInv, H!TypeOK
  <2>4. CASE H!ScriptEnds \/ H!ScriptRaises
    BY <2>2, <2>4 DEF H!ScriptEnds, H!ScriptRaises, H!Exit, HInv, H!TypeOK
  <2>5. ASSUME NEW code \in ExitCodes, H!SetExitCode(code)
        PROVE  /\ exitCode' \in H!Int16s
               /\ UNCHANGED <<pc, fileExists, result, status, lua>>
    BY <2>1, <2>5 DEF H!SetExitCode
  <2> QED
    BY <2>3, <2>4, <2>5 DEF HInv, H!TypeOK
<1>4. H!TypeOK'
  BY <1>1, <1>2, <1>3 DEF HInv, H!TypeOK
<1>5. ResourcesBalanced' /\ StaleReady' /\ MissedShared'
  BY <1>1, <1>2 DEF HInv, ResourcesBalanced, H!ResourcesBalanced, StaleReady, MissedShared
<1>6. GlobalsFollowLibraries'
  BY <1>1, <1>2
  DEF HInv, GlobalsFollowLibraries, H!DanglingOnlyForgotten, H!GlobalsDefined,
      H!ConstantsCaptured
<1> QED
  BY <1>4, <1>5, <1>6 DEF HInv

\* The next stage of loading changes nothing but the stage of one object.
LEMMA NextStage ==
    ASSUME HInv, NEW h \in H!Live, NEW stage \in H!Stages,
           extension' = [extension EXCEPT ![h].stage = stage]
    PROVE  /\ extension' \in [Handles -> Record \cup {nil}]
           /\ \A k \in Handles : k # h => extension'[k] = extension[k]
           /\ extension[h] \in Record /\ extension'[h] \in Record /\ extension'[h] # nil
           /\ extension'[h].library = extension[h].library /\ extension'[h].stage = stage
<1>1. h \in Handles /\ extension[h] \in Record
  BY DEF HInv, H!TypeOK, H!Live, Record
<1>2. extension' = [extension EXCEPT ![h] = [extension[h] EXCEPT !.stage = stage]]
  OBVIOUS
<1>3. /\ [extension[h] EXCEPT !.stage = stage] \in Record
      /\ [extension[h] EXCEPT !.stage = stage].library = extension[h].library
      /\ [extension[h] EXCEPT !.stage = stage].stage = stage
  BY <1>1 DEF Record
<1>4. \A r \in Record : r # nil
  BY NilIsNoRecord DEF Record
<1>5. extension \in [Handles -> Record \cup {nil}]
  BY DEF HInv, H!TypeOK, Record
<1> HIDE DEF Record
<1> QED
  BY <1>1, <1>2, <1>3, <1>4, <1>5

\* The stages before the extension is initialised.
LEMMA HostStages ==
    ASSUME HInv, NEW h \in Handles, H!OpenProcess(h) \/ H!LoadLibrary(h) \/ H!Resolve(h)
    PROVE  HInv'
<1> DEFINE stage == IF H!OpenProcess(h) THEN "opened"
                    ELSE IF H!LoadLibrary(h) THEN "loaded" ELSE "resolved"
<1>1. /\ h \in H!Live /\ stage \in H!Stages \ {"allocated", "ready"} /\ extension[h].stage # "ready"
      /\ extension' = [extension EXCEPT ![h].stage = stage]
      /\ UNCHANGED <<pc, fileExists, result, exitCode, status, lua,
                     globals, required, stale, loads>>
  BY DEF H!OpenProcess, H!LoadLibrary, H!Resolve, H!At, H!Stages, H!host
<1>2. /\ processes' = IF stage = "opened" THEN processes \cup {h} ELSE processes
      /\ images' = IF stage = "loaded" THEN images \cup {h} ELSE images
      /\ extension[h].stage = IF stage = "opened" THEN "allocated"
                              ELSE IF stage = "loaded" THEN "opened" ELSE "loaded"
  BY DEF H!OpenProcess, H!LoadLibrary, H!Resolve, H!At
<1> HIDE DEF stage
<1>3. /\ extension' \in [Handles -> Record \cup {nil}]
      /\ \A k \in Handles : k # h => extension'[k] = extension[k]
      /\ extension'[h] # nil /\ extension'[h].library = extension[h].library
      /\ extension'[h].stage = stage
  BY <1>1, NextStage
<1>4. /\ H!Live' = H!Live /\ H!Loading' = H!Loading
      /\ \A l : H!Ready(l)' = H!Ready(l)
      /\ \A k \in Handles : H!At(k, "ready") => H!At(k, "ready")'
  BY <1>1, <1>3 DEF H!Live, H!Loading, H!Ready, H!At
<1>5. H!TypeOK'
  BY <1>1, <1>3, <1>4 DEF HInv, H!TypeOK, Record
<1>6. ResourcesBalanced'
  <2>1. H!Live \subseteq Handles /\ stage \in {"opened", "loaded", "resolved"}
    BY <1>1 DEF H!Live, H!Stages
  <2>2. processes' = {k \in H!Live' : extension'[k].stage # "allocated"}
    BY <1>1, <1>2, <1>3, <1>4, <2>1 DEF HInv, ResourcesBalanced, H!ResourcesBalanced
  <2>3. images' = {k \in H!Live' : extension'[k].stage \in {"loaded", "resolved", "ready"}}
    BY <1>1, <1>2, <1>3, <1>4, <2>1 DEF HInv, ResourcesBalanced, H!ResourcesBalanced
  <2> QED
    BY <2>2, <2>3 DEF ResourcesBalanced, H!ResourcesBalanced
<1>7. GlobalsFollowLibraries'
  BY <1>1, <1>3, <1>4
  DEF HInv, GlobalsFollowLibraries, H!DanglingOnlyForgotten, H!GlobalsDefined,
      H!ConstantsCaptured, H!Live
<1>8. StaleReady' /\ MissedShared'
  BY <1>1, <1>4 DEF HInv, StaleReady, MissedShared, H!At, H!Live
<1> QED
  BY <1>5, <1>6, <1>7, <1>8 DEF HInv

\* LoadExtension begins, or fails at one of its stages.
LEMMA HostLoads ==
    ASSUME HInv, NEW h \in Handles,
           (\E library \in Libraries : H!Load(h, library)) \/ H!LoadFails(h)
    PROVE  HInv'
<1>1. ASSUME NEW library \in Libraries, H!Load(h, library) PROVE HInv'
  <2> DEFINE new == [library |-> library, stage |-> "allocated"]
  <2>1. /\ extension' = [extension EXCEPT ![h] = new] /\ loads' = loads + 1
        /\ loads < MaxLoads /\ h \notin H!Live /\ H!Loading = {}
        /\ UNCHANGED <<pc, fileExists, result, exitCode, status, lua,
                       processes, images, globals, required, stale>>
    BY <1>1 DEF H!Load, H!host, H!Script
  <2>2. new \in Record /\ new # nil /\ new.library = library /\ new.stage = "allocated"
    BY NilIsNoRecord DEF H!Stages, Record
  <2> HIDE DEF new
  <2>3. /\ extension' \in [Handles -> Record \cup {nil}] /\ extension'[h] = new
        /\ \A k \in Handles : k # h => extension'[k] = extension[k]
    BY <2>1, <2>2 DEF HInv, H!TypeOK, Record
  <2>4. /\ H!Live' = H!Live \cup {h} /\ H!Loading' = {h}
        /\ \A l : H!Ready(l)' = H!Ready(l)
    BY <2>1, <2>2, <2>3 DEF H!Live, H!Loading, H!Ready
  <2>5. H!TypeOK'
    BY <2>1, <2>3, <2>4, HostAssumption DEF HInv, H!TypeOK, Record
  <2>6. ResourcesBalanced'
    BY <2>1, <2>2, <2>3, <2>4 DEF HInv, ResourcesBalanced, H!ResourcesBalanced, H!Live
  <2>7. GlobalsFollowLibraries'
    BY <2>1, <2>2, <2>3, <2>4
    DEF HInv, GlobalsFollowLibraries, H!DanglingOnlyForgotten, H!GlobalsDefined,
        H!ConstantsCaptured, H!Live
  <2>8. StaleReady' /\ MissedShared'
    BY <2>1, <2>3, <2>4 DEF HInv, StaleReady, MissedShared, H!At, H!Live
  <2> QED
    BY <2>5, <2>6, <2>7, <2>8 DEF HInv
<1>2. CASE H!LoadFails(h)
  <2>1. /\ extension' = [extension EXCEPT ![h] = nil] /\ h \in H!Loading
        /\ UNCHANGED <<pc, fileExists, result, exitCode, status, lua,
                       globals, required, stale, loads>>
    BY <1>2 DEF H!LoadFails, H!host
  <2>2. /\ extension' \in [Handles -> Record \cup {nil}] /\ extension'[h] = nil
        /\ \A k \in Handles : k # h => extension'[k] = extension[k]
    BY <2>1 DEF HInv, H!TypeOK, Record
  <2>3. /\ H!Live' = H!Live \ {h} /\ H!Loading' = H!Loading \ {h}
        /\ \A l : H!Ready(l)' = H!Ready(l)
    BY <2>1, <2>2 DEF H!Live, H!Loading, H!Ready
  <2>4. StaleReady' /\ MissedShared'
    BY <2>1, <2>2, <2>3 DEF HInv, StaleReady, MissedShared, H!At, H!Live, H!Loading
  <2>5. H!TypeOK'
    BY <2>1, <2>2, <2>3, <2>4 DEF HInv, H!TypeOK, Record, StaleReady, H!At
  <2>6. ResourcesBalanced'
    BY <1>2, <2>1, <2>2, <2>3
    DEF HInv, ResourcesBalanced, H!ResourcesBalanced, H!LoadFails, H!At, H!Live, H!Loading
  <2>7. GlobalsFollowLibraries'
    BY <2>1, <2>2, <2>3
    DEF HInv, GlobalsFollowLibraries, H!DanglingOnlyForgotten, H!GlobalsDefined,
        H!ConstantsCaptured, H!Live
  <2> QED
    BY <2>4, <2>5, <2>6, <2>7 DEF HInv
<1> QED
  BY <1>1, <1>2

\* The extension registers its globals and its module is required, after that of the
\* shared library if it asks for it.
LEMMA HostInitialise ==
    ASSUME HInv, NEW h \in Handles, H!Initialise(h)
    PROVE  HInv'
<1> DEFINE library == extension[h].library
<1>1. /\ h \in H!Live /\ extension[h].stage = "resolved"
      /\ extension' = [extension EXCEPT ![h].stage = "ready"]
      /\ globals' = globals \cup H!Registered(library)
      /\ required' = H!Require(library, globals')
      /\ stale' = {s \in stale : extension[s].library # library}
      /\ UNCHANGED <<pc, fileExists, result, exitCode, status, lua, processes, images, loads>>
  BY DEF H!Initialise, H!At, H!host
<1>2. "ready" \in H!Stages
  BY DEF H!Stages
<1>3. /\ extension' \in [Handles -> Record \cup {nil}]
      /\ \A k \in Handles : k # h => extension'[k] = extension[k]
      /\ extension[h] \in Record /\ extension'[h] # nil
      /\ extension'[h].library = library /\ extension'[h].stage = "ready"
  BY <1>1, <1>2, NextStage
<1>4. library \in Libraries
  BY <1>3 DEF Record
<1> HIDE DEF library
<1>5. /\ H!Live' = H!Live /\ H!Loading' = H!Loading \ {h} /\ H!Live \subseteq Handles
      /\ \A l : H!Ready(l)' = IF l = library THEN H!Ready(l) \cup {h} ELSE H!Ready(l)
  BY <1>1, <1>3 DEF H!Live, H!Loading, H!Ready
<1>6. /\ <<library, "most">> \in globals' /\ globals \subseteq globals'
      /\ \A l \in Libraries : required[l] # nil => required'[l] = required[l]
      /\ \A l \in Libraries : required[l] = nil =>
           \/ required'[l] = nil /\ l # library
           \/ required'[l] = (<<l, "most">> \in globals') /\ l \in {library, Shared}
      /\ required' \in [Libraries -> BOOLEAN \cup {nil}]
  BY <1>1, <1>4 DEF H!Require, H!Registered, HInv, H!TypeOK
<1>7. H!TypeOK'
  <2>1. globals' \subseteq Libraries \X {"most", "rest"}
    BY <1>1, <1>4 DEF HInv, H!TypeOK, H!Registered
  <2>2. /\ \A j, k \in H!Loading' : j = k
        /\ stale' \subseteq H!Live'
    BY <1>1, <1>5 DEF HInv, H!TypeOK
  <2> QED
    BY <1>1, <1>3, <1>6, <2>1, <2>2 DEF HInv, H!TypeOK, Record
<1>8. ResourcesBalanced'
  BY <1>1, <1>3, <1>5 DEF HInv, ResourcesBalanced, H!ResourcesBalanced
<1>9. StaleReady' /\ MissedShared'
  <2>1. StaleReady'
    BY <1>1, <1>3, <1>5 DEF HInv, H!TypeOK, StaleReady, H!At
  <2>2. ASSUME NEW l \in Libraries, required'[l] = FALSE PROVE l = Shared
    <3>1. CASE required[l] = nil
      BY <1>6, <2>2, <3>1, NilIsNoRecord
    <3>2. CASE required[l] # nil
      BY <1>6, <2>2, <3>2 DEF HInv, MissedShared
    <3> QED
      BY <3>1, <3>2
  <2> QED
    BY <2>1, <2>2 DEF MissedShared
<1>10. H!DanglingOnlyForgotten'
  BY <1>1, <1>5
  DEF HInv, GlobalsFollowLibraries, H!DanglingOnlyForgotten, H!Registered
<1>11. H!GlobalsDefined'
  BY <1>1, <1>3, <1>5 DEF HInv, GlobalsFollowLibraries, H!GlobalsDefined
<1>12. H!ConstantsCaptured'
  BY <1>4, <1>5, <1>6, NilIsNoRecord
  DEF HInv, GlobalsFollowLibraries, H!ConstantsCaptured, MissedShared
<1> QED
  BY <1>7, <1>8, <1>9, <1>10, <1>11, <1>12 DEF HInv, GlobalsFollowLibraries

\* An extension is unloaded, and takes the globals of its library along.
LEMMA HostUnload ==
    ASSUME HInv, NEW h \in Handles, H!Unload(h)
    PROVE  HInv'
<1> DEFINE library == extension[h].library
<1>1. /\ h \in H!Live /\ extension[h].stage = "ready"
      /\ extension' = [extension EXCEPT ![h] = nil]
      /\ processes' = processes \ {h} /\ images' = images \ {h}
      /\ globals' = globals \ H!Unregistered(library)
      /\ stale' = (stale \cup H!Ready(library)) \ {h}
      /\ UNCHANGED <<pc, fileExists, result, exitCode, status, lua, required, loads>>
  BY DEF H!Unload, H!At, H!host
<1>2. /\ extension' \in [Handles -> Record \cup {nil}] /\ extension'[h] = nil
      /\ \A k \in Handles : k # h => extension'[k] = extension[k]
  BY <1>1 DEF HInv, H!TypeOK, Record
<1>3. library \in Libraries
  BY <1>1 DEF HInv, H!TypeOK, H!Live
<1> HIDE DEF library
<1>4. /\ H!Live' = H!Live \ {h} /\ H!Loading' = H!Loading \ {h} /\ H!Live \subseteq Handles
      /\ \A l : H!Ready(l)' = H!Ready(l) \ {h}
      /\ \A l : h \in H!Ready(l) <=> l = library
  BY <1>1, <1>2 DEF H!Live, H!Loading, H!Ready, library
<1>5. StaleReady' /\ MissedShared'
  BY <1>1, <1>2, <1>4 DEF HInv, StaleReady, MissedShared, H!At, H!Ready
<1>6. H!TypeOK'
  BY <1>1, <1>2, <1>4, <1>5 DEF HInv, H!TypeOK, Record, StaleReady, H!At
<1>7. ResourcesBalanced'
  BY <1>1, <1>2, <1>4 DEF HInv, ResourcesBalanced, H!ResourcesBalanced
<1>8. H!DanglingOnlyForgotten'
  <2> SUFFICES ASSUME NEW name \in globals', H!Ready(name[1])' = {}
               PROVE  name \in H!Registered(name[1]) \ H!Unregistered(name[1])
    BY DEF H!DanglingOnlyForgotten, H!Registered, H!Unregistered
  <2>1. name \in globals /\ name \in Libraries \X {"most", "rest"}
    BY <1>1 DEF HInv, H!TypeOK
  <2>2. CASE name[1] = library
    BY <1>1, <2>1, <2>2 DEF H!Registered
  <2>3. CASE name[1] # library
    <3>1. H!Ready(name[1]) = {}
      BY <1>4, <2>3
    <3> QED
      BY <2>1, <3>1 DEF HInv, GlobalsFollowLibraries, H!DanglingOnlyForgotten
  <2> QED
    BY <2>2, <2>3
<1>9. H!GlobalsDefined'
  BY <1>1, <1>2, <1>4
  DEF HInv, GlobalsFollowLibraries, H!GlobalsDefined, H!Registered, H!Unregistered, H!Ready
<1>10. H!ConstantsCaptured'
  BY <1>1, <1>4 DEF HInv, GlobalsFollowLibraries, H!ConstantsCaptured
<1> QED
  BY <1>5, <1>6, <1>7, <1>8, <1>9, <1>10 DEF HInv, GlobalsFollowLibraries

LEMMA HostInvariant == Spec => []HInv
<1>1. Init => HInv
  BY HostInit DEF Init
<1>2. HInv /\ [Next]_vars => HInv'
  <2> SUFFICES ASSUME HInv, [Next]_vars PROVE HInv'
    OBVIOUS
  <2>1. CASE UNCHANGED hostVars
    <3>1. /\ H!Live' = H!Live /\ H!Loading' = H!Loading
          /\ \A l : H!Ready(l)' = H!Ready(l)
          /\ \A h, stage : H!At(h, stage)' <=> H!At(h, stage)
      BY <2>1 DEF hostVars, H!Live, H!Loading, H!Ready, H!At
    <3>2. H!TypeOK' /\ ResourcesBalanced' /\ StaleReady' /\ MissedShared'
      BY <2>1, <3>1
      DEF hostVars, HInv, H!TypeOK, ResourcesBalanced, H!ResourcesBalanced, StaleReady,
          MissedShared
    <3>3. GlobalsFollowLibraries'
      BY <2>1, <3>1
      DEF hostVars, HInv, GlobalsFollowLibraries, H!DanglingOnlyForgotten, H!GlobalsDefined,
          H!ConstantsCaptured
    <3> QED
      BY <3>2, <3>3 DEF HInv
  <2> QED
    BY <2>1, Alone, HostScript, HostStages, HostLoads, HostInitialise, HostUnload DEF H!Next
<1> QED
  BY <1>1, <1>2, PTL DEF Spec

\* Whichever stage of loading fails, and in whatever order extensions come and go, an
\* open process or a loaded library belongs to an extension that needs it.
THEOREM ResourcesAreBalanced == Spec => []ResourcesBalanced
<1>1. HInv => ResourcesBalanced
  BY DEF HInv
<1> QED
  BY <1>1, HostInvariant, PTL

\* The globals of a loaded extension are defined, unless another extension of its
\* library was unloaded; those that dangle are the forgotten ones; and the constants
\* that are missed are those of the shared module.
THEOREM GlobalsAreFollowed == Spec => []GlobalsFollowLibraries
<1>1. HInv => GlobalsFollowLibraries
  BY DEF HInv
<1> QED
  BY <1>1, HostInvariant, PTL

-----------------------------------------------------------------------------
(* Socket: sockets and descriptors *)

Mode == [type : S!Types, blocking : BOOLEAN, set : BOOLEAN]

SocketsTyped ==
    /\ socket \in [Sockets -> S!SocketObject \cup {nil}]
    /\ heap \in [Descriptors -> Mode \cup {nil}]

\* A socket has a descriptor of its type, and a peer, if it says that it is connected.
Matched ==
    \A s \in Sockets : socket[s] # nil =>
      /\ S!Connected(s) <=> S!Descriptor(s) # nil
      /\ S!Connected(s) => /\ heap[S!Descriptor(s)] # nil
                           /\ heap[S!Descriptor(s)].type = socket[s].type
                           /\ socket[s].end_point \in Peers

\* Its descriptor is that of no other socket ...
Separate ==
    \A s, t \in Sockets :
      socket[s] # nil /\ socket[t] # nil /\ S!Connected(s) /\ S!Descriptor(s) = S!Descriptor(t)
        => s = t

\* ... and there is none without a socket.
Owned ==
    \A d \in Descriptors : heap[d] # nil =>
      \E s \in Sockets : socket[s] # nil /\ S!Descriptor(s) = d

OwnInv == SocketsTyped /\ Matched /\ Separate /\ Owned /\ S!ModeAgrees

LEMMA OwnInvImplies == OwnInv => S!DescriptorsOwned
<1> SUFFICES ASSUME OwnInv PROVE S!DescriptorsOwned
  OBVIOUS
<1>1. ASSUME NEW d \in Descriptors, heap[d] # nil
      PROVE  \E s \in Sockets : \A t \in Sockets :
               (socket[t] # nil /\ S!Descriptor(t) = d) <=> t = s
  <2>1. PICK s \in Sockets : socket[s] # nil /\ S!Descriptor(s) = d
    BY <1>1 DEF OwnInv, Owned
  <2>2. S!Connected(s)
    BY <2>1, NilAssumption DEF OwnInv, Matched
  <2> QED
    BY <2>1, <2>2 DEF OwnInv, Separate
<1> QED
  BY <1>1 DEF OwnInv, Matched, S!DescriptorsOwned

LEMMA OwnInit == S!Init => OwnInv
BY DEF S!Init, OwnInv, SocketsTyped, Matched, Separate, Owned, S!ModeAgrees

\* Records of sockets and descriptors are no nil.
LEMMA NotNil == (\A o \in S!SocketObject : o # nil) /\ (\A m \in Mode : m # nil)
BY NilIsNoRecord DEF Mode

LEMMA OwnOpen ==
    ASSUME OwnInv, NEW s \in Sockets, NEW type \in S!Types, S!Open(s, type)
    PROVE  OwnInv'
<1> DEFINE new == [type |-> type, is_blocking |-> TRUE, is_connected |-> FALSE,
                   is_listening |-> FALSE, descriptor |-> nil, end_point |-> nil]
<1>1. socket' = [socket EXCEPT ![s] = new] /\ socket[s] = nil /\ heap' = heap
  BY DEF S!Open
<1>2. new \in S!SocketObject /\ ~new.is_connected /\ new.descriptor = nil
  BY DEF S!SocketObject
<1>3. new # nil
  BY <1>2, NotNil
<1> HIDE DEF new
<1>4. /\ socket' \in [Sockets -> S!SocketObject \cup {nil}] /\ socket'[s] = new
      /\ \A t \in Sockets : t # s => socket'[t] = socket[t]
  BY <1>1, <1>2 DEF OwnInv, SocketsTyped
<1> QED
  BY <1>1, <1>2, <1>3, <1>4, NilAssumption
  DEF OwnInv, SocketsTyped, Matched, Separate, Owned, S!ModeAgrees, S!Connected, S!Descriptor

LEMMA OwnClose ==
    ASSUME OwnInv, NEW s \in Sockets, S!Close(s)
    PROVE  OwnInv'
<1>1. /\ socket[s] # nil /\ socket' = [socket EXCEPT ![s] = nil]
      /\ heap' = [d \in Descriptors |-> IF d = S!Descriptor(s) THEN nil ELSE heap[d]]
  BY DEF S!Close, S!Open_
<1>2. SocketsTyped'
  BY <1>1 DEF OwnInv, SocketsTyped
<1>3. socket'[s] = nil /\ \A t \in Sockets : t # s => socket'[t] = socket[t]
  BY <1>1 DEF OwnInv, SocketsTyped
<1>4. \A t \in Sockets : t # s /\ socket[t] # nil /\ S!Connected(t) =>
        /\ S!Descriptor(t) # S!Descriptor(s) /\ S!Descriptor(t) \in Descriptors
        /\ heap'[S!Descriptor(t)] = heap[S!Descriptor(t)]
  BY <1>1 DEF OwnInv, SocketsTyped, Matched, Separate, S!SocketObject, S!Descriptor
<1>5. Matched' /\ Separate' /\ S!ModeAgrees'
  BY <1>3, <1>4
  DEF OwnInv, Matched, Separate, S!ModeAgrees, S!Connected, S!Descriptor
<1>6. Owned'
  BY <1>1, <1>3 DEF OwnInv, Owned, S!Descriptor
<1> QED
  BY <1>2, <1>5, <1>6 DEF OwnInv

\* A socket that keeps its type, its connection and its descriptor.
LEMMA OwnKept ==
    ASSUME OwnInv, NEW s \in Sockets, socket[s] # nil, NEW new \in S!SocketObject,
           socket' = [socket EXCEPT ![s] = new], heap' = heap,
           new.type = socket[s].type, new.descriptor = socket[s].descriptor,
           new.is_connected = socket[s].is_connected,
           S!Connected(s) => new.end_point \in Peers /\ new.is_blocking = socket[s].is_blocking
    PROVE  OwnInv'
<1>1. /\ socket' \in [Sockets -> S!SocketObject \cup {nil}] /\ socket'[s] = new /\ new # nil
      /\ \A t \in Sockets : t # s => socket'[t] = socket[t]
  BY NotNil DEF OwnInv, SocketsTyped
<1>2. SocketsTyped' /\ Matched'
  BY <1>1 DEF OwnInv, SocketsTyped, Matched, S!Connected, S!Descriptor
<1>3. Separate' /\ Owned'
  BY <1>1 DEF OwnInv, Separate, Owned, S!Connected, S!Descriptor
<1>4. S!ModeAgrees'
  BY <1>1 DEF OwnInv, S!ModeAgrees, S!Connected, S!Descriptor
<1> QED
  BY <1>2, <1>3, <1>4 DEF OwnInv

LEMMA OwnListenOrFails ==
    ASSUME OwnInv, NEW s \in Sockets,
           S!Listen(s) \/ \E peer \in Peers : S!ConnectFails(s, peer)
    PROVE  OwnInv'
<1>1. socket[s] # nil /\ heap' = heap
  BY DEF S!Listen, S!ConnectFails, S!Open_
<1>2. socket[s] \in S!SocketObject
  BY <1>1 DEF OwnInv, SocketsTyped
<1>3. CASE S!Listen(s)
  <2> DEFINE new == [socket[s] EXCEPT !.is_listening = TRUE]
  <2>1. socket' = [socket EXCEPT ![s] = new]
    BY <1>3 DEF S!Listen
  <2>2. /\ new \in S!SocketObject /\ new.type = socket[s].type
        /\ new.descriptor = socket[s].descriptor
        /\ new.is_connected = socket[s].is_connected
        /\ new.end_point = socket[s].end_point /\ new.is_blocking = socket[s].is_blocking
    BY <1>2 DEF S!SocketObject
  <2> HIDE DEF new
  <2>3. S!Connected(s) => new.end_point \in Peers
    BY <1>1, <2>2 DEF OwnInv, Matched
  <2> QED
    BY <1>1, <2>1, <2>2, <2>3, OwnKept
<1>4. ASSUME NEW peer \in Peers, S!ConnectFails(s, peer) PROVE OwnInv'
  <2> DEFINE new == [socket[s] EXCEPT !.end_point = peer]
  <2>1. socket' = [socket EXCEPT ![s] = new]
    BY <1>4 DEF S!ConnectFails
  <2>2. /\ new \in S!SocketObject /\ new.type = socket[s].type
        /\ new.descriptor = socket[s].descriptor
        /\ new.is_connected = socket[s].is_connected
        /\ new.end_point = peer /\ new.is_blocking = socket[s].is_blocking
    BY <1>2 DEF S!SocketObject
  <2> HIDE DEF new
  <2> QED
    BY <1>1, <2>1, <2>2, OwnKept
<1> QED
  BY <1>3, <1>4

LEMMA OwnSetBlocking ==
    ASSUME OwnInv, NEW s \in Sockets, NEW flag \in BOOLEAN, S!SetBlocking(s, flag)
    PROVE  OwnInv'
<1> DEFINE new == [socket[s] EXCEPT !.is_blocking = flag]
           d == socket[s].descriptor
           mode == [heap[d] EXCEPT !.blocking = flag, !.set = TRUE]
<1>1. /\ socket[s] # nil
      /\ \/ ~S!Connected(s) /\ socket' = [socket EXCEPT ![s] = new] /\ heap' = heap
         \/ /\ S!Connected(s) /\ socket' = [socket EXCEPT ![s] = new]
            /\ heap' = [heap EXCEPT ![d].blocking = flag, ![d].set = TRUE]
         \/ socket' = socket /\ heap' = heap
  BY DEF S!SetBlocking, S!Open_, S!Descriptor
<1>2. socket[s] \in S!SocketObject
  BY <1>1 DEF OwnInv, SocketsTyped
<1>3. /\ new \in S!SocketObject /\ new.type = socket[s].type
      /\ new.descriptor = socket[s].descriptor
      /\ new.is_connected = socket[s].is_connected
      /\ new.end_point = socket[s].end_point /\ new.is_blocking = flag
  BY <1>2 DEF S!SocketObject
<1> HIDE DEF new
<1>4. CASE socket' = socket /\ heap' = heap
  BY <1>4
  DEF OwnInv, SocketsTyped, Matched, Separate, Owned, S!ModeAgrees, S!Connected, S!Descriptor
<1>5. CASE ~S!Connected(s) /\ socket' = [socket EXCEPT ![s] = new] /\ heap' = heap
  BY <1>1, <1>3, <1>5, OwnKept
<1>6. CASE /\ S!Connected(s) /\ socket' = [socket EXCEPT ![s] = new]
           /\ heap' = [heap EXCEPT ![d].blocking = flag, ![d].set = TRUE]
  <2>1. /\ d \in Descriptors /\ heap[d] \in Mode /\ heap[d] # nil
        /\ heap[d].type = socket[s].type /\ socket[s].end_point \in Peers
    BY <1>1, <1>2, <1>6
    DEF OwnInv, SocketsTyped, Matched, S!SocketObject, S!Descriptor
  <2>2. mode \in Mode /\ mode.blocking = flag /\ mode.type = heap[d].type
    BY <2>1 DEF Mode
  <2>3. heap' = [heap EXCEPT ![d] = mode]
    BY <1>6, <2>1 DEF OwnInv, SocketsTyped
  <2> HIDE DEF mode, d
  <2>4. /\ heap' \in [Descriptors -> Mode \cup {nil}] /\ heap'[d] = mode /\ mode # nil
        /\ \A e \in Descriptors : e # d => heap'[e] = heap[e]
    BY <2>1, <2>2, <2>3, NotNil DEF OwnInv, SocketsTyped
  <2>5. /\ socket' \in [Sockets -> S!SocketObject \cup {nil}] /\ socket'[s] = new /\ new # nil
        /\ \A t \in Sockets : t # s => socket'[t] = socket[t]
    BY <1>3, <1>6, NotNil DEF OwnInv, SocketsTyped
  <2>6. \A t \in Sockets : t # s /\ socket[t] # nil /\ S!Connected(t) =>
          socket[t].descriptor \in Descriptors /\ socket[t].descriptor # d
    BY <1>1, <1>6 DEF OwnInv, SocketsTyped, Matched, Separate, S!SocketObject, S!Descriptor, d
  <2>7. SocketsTyped'
    BY <2>4, <2>5 DEF SocketsTyped
  <2>8. Separate' /\ Owned'
    <3>1. \A t \in Sockets : /\ socket'[t] # nil <=> socket[t] # nil
                             /\ socket'[t] # nil =>
                                  /\ socket'[t].descriptor = socket[t].descriptor
                                  /\ socket'[t].is_connected = socket[t].is_connected
      BY <1>1, <1>3, <2>5
    <3>2. \A e \in Descriptors : heap'[e] # nil <=> heap[e] # nil
      BY <2>1, <2>4
    <3> QED
      BY <3>1, <3>2 DEF OwnInv, Separate, Owned, S!Connected, S!Descriptor
  <2>9. Matched'
    <3> SUFFICES ASSUME NEW t \in Sockets, socket'[t] # nil
                 PROVE  /\ socket'[t].is_connected <=> socket'[t].descriptor # nil
                        /\ socket'[t].is_connected =>
                             /\ heap'[socket'[t].descriptor] # nil
                             /\ heap'[socket'[t].descriptor].type = socket'[t].type
                             /\ socket'[t].end_point \in Peers
      BY DEF Matched, S!Connected, S!Descriptor
    <3>1. CASE t = s
      BY <1>1, <1>3, <1>6, <2>1, <2>2, <2>4, <2>5, <3>1, NilAssumption
      DEF S!Connected, d
    <3>2. CASE t # s
      BY <2>4, <2>5, <2>6, <3>2 DEF OwnInv, Matched, S!Connected, S!Descriptor
    <3> QED
      BY <3>1, <3>2
  <2>10. S!ModeAgrees'
    BY <1>3, <2>2, <2>4, <2>5, <2>6
    DEF OwnInv, S!ModeAgrees, S!Connected, S!Descriptor, d
  <2> QED
    BY <2>7, <2>8, <2>9, <2>10 DEF OwnInv
<1> QED
  BY <1>1, <1>4, <1>5, <1>6

LEMMA OwnConnect ==
    ASSUME OwnInv, NEW s \in Sockets, NEW peer \in Peers, NEW d \in Descriptors,
           S!Connect(s, peer, d)
    PROVE  OwnInv'
<1> DEFINE new == [socket[s] EXCEPT !.end_point = peer, !.is_connected = TRUE, !.descriptor = d]
           mode == [type |-> socket[s].type, set |-> FALSE,
                    blocking |-> socket[s].type = "UDP" \/ socket[s].is_blocking]
<1>1. /\ socket[s] # nil /\ ~S!Connected(s) /\ heap[d] = nil
      /\ heap' = [heap EXCEPT ![d] = mode]
      /\ socket' = [socket EXCEPT ![s].end_point = peer, ![s].is_connected = TRUE,
                                  ![s].descriptor = d]
  BY DEF S!Connect, S!Open_
<1>2. socket[s] \in S!SocketObject /\ socket' = [socket EXCEPT ![s] = new]
  <2> DEFINE r1 == [socket[s] EXCEPT !.end_point = peer]
             r2 == [r1 EXCEPT !.is_connected = TRUE]
             f1 == [socket EXCEPT ![s] = r1]
             f2 == [socket EXCEPT ![s] = r2]
  <2>1. socket \in [Sockets -> S!SocketObject \cup {nil}]
    BY DEF OwnInv, SocketsTyped
  <2>2. [f1 EXCEPT ![s].is_connected = TRUE] = f2
    BY <2>1
  <2>3. [f2 EXCEPT ![s].descriptor = d] = [socket EXCEPT ![s] = [r2 EXCEPT !.descriptor = d]]
    BY <2>1
  <2> QED
    BY <1>1, <2>1, <2>2, <2>3
<1>3. /\ new \in S!SocketObject /\ new.type = socket[s].type /\ new.descriptor = d
      /\ new.is_connected /\ new.end_point = peer /\ new.is_blocking = socket[s].is_blocking
  BY <1>2 DEF S!SocketObject
<1>4. /\ mode \in Mode /\ mode.type = socket[s].type /\ ~mode.set
      /\ socket[s].type # "UDP" => mode.blocking = socket[s].is_blocking
  BY <1>2 DEF S!SocketObject, Mode
<1> HIDE DEF new, mode
<1>5. /\ heap' \in [Descriptors -> Mode \cup {nil}] /\ heap'[d] = mode /\ mode # nil
      /\ \A e \in Descriptors : e # d => heap'[e] = heap[e]
  BY <1>1, <1>4, NotNil DEF OwnInv, SocketsTyped
<1>6. /\ socket' \in [Sockets -> S!SocketObject \cup {nil}] /\ socket'[s] = new /\ new # nil
      /\ \A t \in Sockets : t # s => socket'[t] = socket[t]
  BY <1>2, <1>3, NotNil DEF OwnInv, SocketsTyped
<1>7. /\ d # nil
      /\ \A t \in Sockets : socket[t] # nil => socket[t].descriptor # d
      /\ \A t \in Sockets : socket[t] # nil /\ S!Connected(t) =>
           socket[t].descriptor \in Descriptors
  BY <1>1, NilAssumption
  DEF OwnInv, SocketsTyped, Matched, S!SocketObject, S!Descriptor
<1>8. SocketsTyped' /\ Matched' /\ Separate'
  BY <1>3, <1>4, <1>5, <1>6, <1>7
  DEF OwnInv, SocketsTyped, Matched, Separate, S!Connected, S!Descriptor
<1>9. Owned'
  <2> SUFFICES ASSUME NEW e \in Descriptors, heap'[e] # nil
               PROVE  \E t \in Sockets : socket'[t] # nil /\ socket'[t].descriptor = e
    BY DEF Owned, S!Descriptor
  <2>1. CASE e = d
    BY <1>3, <1>6, <2>1
  <2>2. CASE e # d
    <3>1. PICK t \in Sockets : socket[t] # nil /\ socket[t].descriptor = e
      BY <1>5, <2>2 DEF OwnInv, Owned, S!Descriptor
    <3>2. t # s
      BY <1>1, <3>1, NilAssumption DEF OwnInv, Matched, S!Descriptor
    <3> QED
      BY <1>6, <3>1, <3>2
  <2> QED
    BY <2>1, <2>2
<1>10. S!ModeAgrees'
  BY <1>3, <1>4, <1>5, <1>6, <1>7 DEF OwnInv, S!ModeAgrees, S!Connected, S!Descriptor
<1> QED
  BY <1>8, <1>9, <1>10 DEF OwnInv

-----------------------------------------------------------------------------
(* Socket: what waits at the descriptors *)

Datagram == [id : 1..MaxArrivals, from : Peers, size : S!Sizes]

\* What waits at a descriptor waits in the order in which it arrived.
BoxInv ==
    /\ inbox \in [Descriptors -> Seq(Datagram)]
    /\ closed \subseteq Descriptors /\ arrivals \in 0..MaxArrivals
    /\ \A d \in Descriptors :
         /\ \A i \in 1..Len(inbox[d]) : inbox[d][i].id <= arrivals
         /\ \A i, j \in 1..Len(inbox[d]) : i < j => inbox[d][i].id < inbox[d][j].id

\* What is left of a queue when the first count of it are taken.
LEMMA Rest ==
    ASSUME NEW T, NEW q \in Seq(T), NEW count \in 0..Len(q)
    PROVE  /\ SubSeq(q, count + 1, Len(q)) \in Seq(T)
           /\ Len(SubSeq(q, count + 1, Len(q))) = Len(q) - count
           /\ \A i \in 1..(Len(q) - count) : SubSeq(q, count + 1, Len(q))[i] = q[count + i]
<1>1. Len(q) \in Nat /\ \A i \in count + 1 .. Len(q) : q[i] \in T
  BY ElementOfSeq, LenProperties
<1>2. /\ SubSeq(q, count + 1, Len(q)) \in Seq(T)
      /\ Len(SubSeq(q, count + 1, Len(q)))
           = IF count + 1 <= Len(q) THEN Len(q) - (count + 1) + 1 ELSE 0
      /\ \A i \in 1..(Len(q) - (count + 1) + 1) :
           SubSeq(q, count + 1, Len(q))[i] = q[count + 1 + i - 1]
  BY <1>1, SubSeqProperties
<1>3. \A i \in 1..(Len(q) - count) : count + 1 + i - 1 = count + i
  BY <1>1
<1> QED
  BY <1>1, <1>2, <1>3

LEMMA BoxArrive ==
    ASSUME BoxInv, NEW d \in Descriptors, NEW from \in Peers, NEW size \in S!Sizes,
           S!Arrive(d, from, size)
    PROVE  BoxInv'
<1> DEFINE new == [id |-> arrivals + 1, from |-> from, size |-> size]
<1>1. /\ arrivals < MaxArrivals /\ arrivals' = arrivals + 1 /\ closed' = closed
      /\ inbox' = [inbox EXCEPT ![d] = Append(inbox[d], new)]
  BY DEF S!Arrive
<1>2. new \in Datagram /\ new.id = arrivals + 1 /\ arrivals \in Nat /\ arrivals' \in 0..MaxArrivals
  BY <1>1, SocketAssumption DEF BoxInv, Datagram
<1> HIDE DEF new, Datagram
<1>3. /\ Append(inbox[d], new) \in Seq(Datagram) /\ Len(inbox[d]) \in Nat
      /\ Len(Append(inbox[d], new)) = Len(inbox[d]) + 1
      /\ \A i \in 1..Len(inbox[d]) : Append(inbox[d], new)[i] = inbox[d][i]
      /\ Append(inbox[d], new)[Len(inbox[d]) + 1] = new
  BY <1>2 DEF BoxInv
<1>4. /\ inbox' \in [Descriptors -> Seq(Datagram)]
      /\ inbox'[d] = Append(inbox[d], new)
      /\ \A e \in Descriptors : e # d => inbox'[e] = inbox[e]
  BY <1>1, <1>3 DEF BoxInv
<1>5. ASSUME NEW e \in Descriptors
      PROVE  /\ \A i \in 1..Len(inbox'[e]) : inbox'[e][i].id <= arrivals'
             /\ \A i, j \in 1..Len(inbox'[e]) : i < j => inbox'[e][i].id < inbox'[e][j].id
  <2>1. \A i \in 1..Len(inbox[e]) : inbox[e][i].id \in Int
    <3>1. ASSUME NEW i \in 1..Len(inbox[e]) PROVE inbox[e][i] \in Datagram
      BY ElementOfSeq DEF BoxInv
    <3> QED
      BY <3>1 DEF Datagram
  <2>2. CASE e = d
    <3>1. \A i \in 1..Len(inbox'[d]) :
            IF i \in 1..Len(inbox[d]) THEN inbox'[d][i].id = inbox[d][i].id
            ELSE i = Len(inbox[d]) + 1 /\ inbox'[d][i].id = arrivals + 1
      BY <1>2, <1>3, <1>4
    <3>2. \A i \in 1..Len(inbox[d]) : inbox[d][i].id <= arrivals
      BY DEF BoxInv
    <3>3. \A i, j \in 1..Len(inbox[d]) : i < j => inbox[d][i].id < inbox[d][j].id
      BY DEF BoxInv
    <3> QED
      BY <1>1, <1>2, <1>3, <1>4, <2>1, <2>2, <3>1, <3>2, <3>3
  <2>3. CASE e # d
    BY <1>1, <1>2, <1>4, <2>1, <2>3 DEF BoxInv
  <2> QED
    BY <2>2, <2>3
<1> QED
  BY <1>1, <1>2, <1>4, <1>5 DEF BoxInv

\* A closed descriptor has nothing waiting; a peer that closes leaves what waits.
LEMMA BoxClose ==
    ASSUME BoxInv,
           \/ \E s \in Sockets : S!Close(s)
           \/ \E d \in Descriptors : S!PeerCloses(d)
    PROVE  BoxInv'
<1>1. ASSUME NEW s \in Sockets, S!Close(s) PROVE BoxInv'
  <2>1. /\ inbox' = [d \in Descriptors |-> IF d = S!Descriptor(s) THEN <<>> ELSE inbox[d]]
        /\ closed' \subseteq closed /\ arrivals' = arrivals
    BY <1>1 DEF S!Close
  <2>2. <<>> \in Seq(Datagram) /\ Len(<<>>) = 0
    BY EmptySeq
  <2>3. inbox' \in [Descriptors -> Seq(Datagram)]
        /\ \A d \in Descriptors : inbox'[d] = <<>> \/ inbox'[d] = inbox[d]
    BY <2>1, <2>2 DEF BoxInv
  <2>4. ASSUME NEW d \in Descriptors
        PROVE  /\ \A i \in 1..Len(inbox'[d]) : inbox'[d][i].id <= arrivals
               /\ \A i, j \in 1..Len(inbox'[d]) : i < j => inbox'[d][i].id < inbox'[d][j].id
    <3>1. CASE inbox'[d] = <<>>
      BY <2>2, <3>1
    <3>2. CASE inbox'[d] = inbox[d]
      BY <3>2 DEF BoxInv
    <3> QED
      BY <2>3, <3>1, <3>2
  <2> QED
    BY <2>1, <2>3, <2>4 DEF BoxInv
<1>2. ASSUME NEW d \in Descriptors, S!PeerCloses(d) PROVE BoxInv'
  BY <1>2 DEF BoxInv, S!PeerCloses
<1> QED
  BY <1>1, <1>2

\* A step in which every socket stays, with its connection and its descriptor.
ConnectionsKept ==
    \A t \in Sockets : socket[t] # nil =>
      /\ socket'[t] # nil /\ socket'[t].is_connected = socket[t].is_connected
      /\ socket'[t].descriptor = socket[t].descriptor

\* How many of what waits at a descriptor go with count bytes of it.
Gone(d, count) == IF heap[d].type = "UDP" THEN 1 ELSE count

\* The descriptor of a connected socket hands over count bytes.
HandsOver(s, d, room, count) ==
    /\ s \in Sockets /\ socket[s] # nil /\ S!Connected(s) /\ d = S!Descriptor(s)
    /\ room \in 1..Size /\ count \in S!Receivable(d, room) /\ S!Take(s, d, count)
    /\ UNCHANGED <<heap, closed, arrivals>>

LEMMA Taken ==
    ASSUME OwnInv, BoxInv, NEW s, NEW d, NEW room, NEW count, HandsOver(s, d, room, count)
    PROVE  /\ d \in Descriptors /\ inbox[d] \in Seq(Datagram) /\ count \in 0..room
           /\ inbox[d][1] \in Datagram /\ Len(inbox[d]) \in Nat
           /\ heap[d].type = "UDP" =>
                count = IF inbox[d][1].size < room THEN inbox[d][1].size ELSE room
           /\ heap[d].type # "UDP" => count \in 1..Len(inbox[d])
           /\ Gone(d, count) \in 1..Len(inbox[d])
           /\ Len(inbox'[d]) = Len(inbox[d]) - Gone(d, count)
           /\ \A i \in 1..(Len(inbox[d]) - Gone(d, count)) :
                inbox'[d][i] = inbox[d][Gone(d, count) + i]
           /\ OwnInv' /\ BoxInv' /\ ConnectionsKept
<1> USE DEF HandsOver
<1> DEFINE q == inbox[d]
           first == q[1].size
<1>1. d \in Descriptors /\ socket[s] \in S!SocketObject /\ socket[s].end_point \in Peers
  BY DEF OwnInv, SocketsTyped, Matched, S!SocketObject, S!Descriptor
<1>2. q \in Seq(Datagram) /\ Len(q) \in Nat
  BY <1>1, LenProperties DEF BoxInv
<1>3. /\ q # <<>>
      /\ heap[d].type = "UDP" => count = IF first < room THEN first ELSE room
      /\ heap[d].type # "UDP" => count \in 1..room /\ count <= Len(q)
  BY DEF S!Receivable
<1>4. Len(q) \in Nat \ {0} /\ q[1] \in Datagram
  <2>1. Len(q) \in Nat \ {0}
    BY <1>2, <1>3, EmptySeq
  <2>2. 1 \in 1..Len(q)
    BY <2>1
  <2> QED
    BY <1>2, <2>1, <2>2, ElementOfSeq
<1>5. first \in S!Sizes /\ q[1].from \in Peers
  BY <1>4 DEF Datagram
<1>6. count \in 0..room /\ Gone(d, count) \in 1..Len(q)
  BY <1>3, <1>4, <1>5, SocketAssumption DEF Gone, S!Sizes
<1>7. inbox' = [inbox EXCEPT ![d] = SubSeq(q, Gone(d, count) + 1, Len(q))]
  <2>1. CASE heap[d].type = "UDP"
    <3>1. Tail(q) = SubSeq(q, 1 + 1, Len(q))
      BY <1>2, <1>3, TailIsSubSeq
    <3> QED
      BY <2>1, <3>1 DEF S!Take, Gone
  <2>2. CASE heap[d].type # "UDP"
    BY <2>2 DEF S!Take, Gone
  <2> QED
    BY <2>1, <2>2
<1> DEFINE gone == Gone(d, count)
           r == SubSeq(q, gone + 1, Len(q))
<1>8. /\ r \in Seq(Datagram) /\ Len(r) = Len(q) - gone
      /\ \A i \in 1..(Len(q) - gone) : r[i] = q[gone + i]
      /\ gone \in 1..Len(q) /\ gone \in Nat /\ Len(q) \in Nat
  <2>1. gone \in 0..Len(q) /\ gone \in 1..Len(q) /\ gone \in Nat
    BY <1>2, <1>6
  <2> HIDE DEF gone, q
  <2> QED
    BY <1>2, <2>1, Rest
<1>9. /\ inbox' \in [Descriptors -> Seq(Datagram)] /\ inbox'[d] = r
      /\ \A e \in Descriptors : e # d => inbox'[e] = inbox[e]
  BY <1>1, <1>7, <1>8 DEF BoxInv
<1> HIDE DEF gone, r
<1>10. BoxInv'
  <2> SUFFICES ASSUME NEW e \in Descriptors
               PROVE  /\ \A i \in 1..Len(inbox'[e]) : inbox'[e][i].id <= arrivals
                      /\ \A i, j \in 1..Len(inbox'[e]) :
                           i < j => inbox'[e][i].id < inbox'[e][j].id
    BY <1>9 DEF BoxInv
  <2>1. CASE e = d
    <3>1. \A i \in 1..Len(r) : gone + i \in 1..Len(q) /\ r[i] = q[gone + i]
      BY <1>8
    <3>2. \A i \in 1..Len(q) : q[i].id <= arrivals
      BY <1>1 DEF BoxInv
    <3>3. \A i, j \in 1..Len(q) : i < j => q[i].id < q[j].id
      BY <1>1 DEF BoxInv
    <3>4. \A i, j \in 1..Len(r) : i < j => gone + i < gone + j
      BY <1>8
    <3>5. \A i \in 1..Len(r) : r[i].id <= arrivals
      BY <3>1, <3>2
    <3>6. ASSUME NEW i \in 1..Len(r), NEW j \in 1..Len(r), i < j
          PROVE  r[i].id < r[j].id
      <4>1. gone + i \in 1..Len(q) /\ gone + j \in 1..Len(q) /\ gone + i < gone + j
        BY <3>1, <3>4, <3>6
      <4>2. q[gone + i].id < q[gone + j].id
        BY <3>3, <4>1
      <4> QED
        BY <3>1, <4>2
    <3> QED
      BY <1>9, <2>1, <3>5, <3>6
  <2>2. CASE e # d
    BY <1>9, <2>2 DEF BoxInv
  <2> QED
    BY <2>1, <2>2
<1> DEFINE new == [socket[s] EXCEPT !.end_point = q[1].from]
<1>11. socket' = [socket EXCEPT ![s] = new] \/ socket' = socket
  BY DEF S!Take
<1>12. /\ new \in S!SocketObject /\ new.type = socket[s].type
       /\ new.descriptor = socket[s].descriptor
       /\ new.is_connected = socket[s].is_connected
       /\ new.end_point \in Peers /\ new.is_blocking = socket[s].is_blocking
  BY <1>1, <1>5 DEF S!SocketObject
<1> HIDE DEF new
<1>13. OwnInv'
  <2>1. CASE socket' = [socket EXCEPT ![s] = new]
    BY <1>12, <2>1, OwnKept
  <2>2. CASE socket' = socket
    BY <2>2
    DEF OwnInv, SocketsTyped, Matched, Separate, Owned, S!ModeAgrees, S!Connected,
        S!Descriptor
  <2> QED
    BY <1>11, <2>1, <2>2
<1>14. ConnectionsKept
  BY <1>11, <1>12, NotNil DEF OwnInv, SocketsTyped, ConnectionsKept
<1> QED
  BY <1>1, <1>2, <1>3, <1>4, <1>6, <1>8, <1>9, <1>10, <1>13, <1>14 DEF gone

-----------------------------------------------------------------------------
(* Socket: the transfer under way *)

CallRecord ==
    [op : {"none", "send", "send_all", "receive", "receive_all"},
     on : Sockets \cup {nil}, size : S!Sizes, buffer : Datas \cup {nil},
     total : S!Sizes, running : BOOLEAN, closed : BOOLEAN, would_block : BOOLEAN]

\* The loop of a transfer runs on a connected socket, and is not done; if it
\* receives, its buffer is allocated and not yet the script's.
CallInv ==
    /\ call \in CallRecord
    /\ call.running =>
         /\ call.op \in {"send_all", "receive_all"} /\ call.total < call.size
         /\ call.on \in Sockets /\ socket[call.on] # nil /\ S!Connected(call.on)
    /\ S!Receiving => call.buffer \in live /\ call.buffer \notin held
    /\ held \subseteq live /\ live \subseteq Datas
    /\ S!BuffersAccounted

LEMMA BoxInit == S!Init => BoxInv
<1> SUFFICES ASSUME S!Init PROVE BoxInv
  OBVIOUS
<1>1. /\ \A d \in Descriptors : inbox[d] = <<>>
      /\ inbox = [d \in Descriptors |-> <<>>] /\ closed = {} /\ arrivals = 0
  BY DEF S!Init
<1>2. <<>> \in Seq(Datagram) /\ Len(<<>>) = 0
  BY EmptySeq
<1> QED
  BY <1>1, <1>2, SocketAssumption DEF BoxInv

\* A transfer as it begins.
LEMMA Begun ==
    ASSUME NEW op \in {"none", "send", "send_all", "receive", "receive_all"},
           NEW s \in Sockets \cup {nil}, NEW size \in S!Sizes, NEW b \in Datas \cup {nil}
    PROVE  /\ S!Transfer(op, s, size, b) \in CallRecord
           /\ S!Transfer(op, s, size, b).op = op /\ S!Transfer(op, s, size, b).on = s
           /\ S!Transfer(op, s, size, b).size = size /\ S!Transfer(op, s, size, b).buffer = b
           /\ S!Transfer(op, s, size, b).total = 0
           /\ S!Transfer(op, s, size, b).running = FALSE
           /\ S!Transfer(op, s, size, b).closed = FALSE
BY SocketAssumption DEF S!Transfer, CallRecord, S!Sizes

LEMMA CallInit == S!Init => CallInv
<1> SUFFICES ASSUME S!Init PROVE CallInv
  OBVIOUS
<1>1. call = S!Transfer("none", nil, 0, nil) /\ live = {} /\ held = {}
  BY DEF S!Init
<1>2. call \in CallRecord /\ call.running = FALSE
  BY <1>1, SocketAssumption DEF S!Transfer, CallRecord, S!Sizes
<1> QED
  BY <1>1, <1>2 DEF CallInv, S!Receiving, S!BuffersAccounted

\* A step that leaves transfers and buffers alone, and connections if one is under way.
LEMMA CallKept ==
    ASSUME CallInv, UNCHANGED <<call, live, held>>, call.running => ConnectionsKept
    PROVE  CallInv'
<1>1. call.running => socket'[call.on] # nil /\ S!Connected(call.on)'
  BY DEF CallInv, ConnectionsKept, S!Connected
<1>2. S!BuffersAccounted' /\ (S!Receiving' <=> S!Receiving)
  BY DEF CallInv, S!BuffersAccounted, S!Receiving
<1> QED
  BY <1>1, <1>2 DEF CallInv

-----------------------------------------------------------------------------
(* Socket: what is sent *)

Sent == IF call.op \in {"send", "send_all"} THEN call.total ELSE 0

\* Bytes 1 to count of a buffer, all sent to one peer.
SentTo(peer, count) == [i \in 1..count |-> [to |-> peer, at |-> i]]

\* The begin of the buffer was sent, to one peer, and that is where the rest will go.
SentInv ==
    /\ \E peer \in Peers :
         /\ wire = SentTo(peer, Sent)
         /\ S!Sending => peer = socket[call.on].end_point
    /\ call.op = "send_all" /\ ~call.running /\ ~call.closed => call.total \in {0, call.size}

LEMMA NothingYet == \A peer : SentTo(peer, 0) = <<>>
BY DEF SentTo

\* A function on 1..n is a sequence of length n.
LEMMA LenOfFunction ==
    ASSUME NEW T, NEW n \in Nat, NEW f \in [1..n -> T]
    PROVE  f \in Seq(T) /\ Len(f) = n
<1>1. f \in Seq(T)
  BY SeqDef
<1>2. Len(f) \in Nat /\ DOMAIN f = 1..Len(f) /\ DOMAIN f = 1..n
  BY <1>1, LenProperties
<1>3. \A i \in Nat \ {0} : i <= Len(f) <=> i <= n
  <2>1. \A i \in Nat \ {0} : (i \in 1..Len(f) <=> i <= Len(f)) /\ (i \in 1..n <=> i <= n)
    BY <1>2
  <2> QED
    BY <1>2, <2>1
<1>4. Len(f) + 1 \in Nat \ {0} /\ n + 1 \in Nat \ {0}
  BY <1>2
<1>5. ~(Len(f) < n) /\ ~(n < Len(f))
  BY <1>2, <1>3, <1>4
<1> QED
  BY <1>1, <1>2, <1>5

LEMMA SentIsSeq ==
    ASSUME NEW peer, NEW count \in Nat
    PROVE  /\ SentTo(peer, count) \in Seq([to : {peer}, at : 1..count])
           /\ Len(SentTo(peer, count)) = count
<1> DEFINE T == [to : {peer}, at : 1..count]
           f == SentTo(peer, count)
<1>1. f \in [1..count -> T]
  BY DEF SentTo
<1> HIDE DEF f, T
<1>2. f \in Seq(T) /\ Len(f) = count
  BY <1>1, LenOfFunction
<1> QED
  BY <1>2 DEF f, T

\* Sending more of it to the same peer.
LEMMA SentMore ==
    ASSUME NEW peer, NEW count \in Nat, NEW more \in Nat
    PROVE  SentTo(peer, count) \o [i \in 1..more |-> [to |-> peer, at |-> count + i]]
             = SentTo(peer, count + more)
<1> DEFINE T == [to : {peer}, at : 1..(count + more)]
           f == SentTo(peer, count)
           g == [i \in 1..more |-> [to |-> peer, at |-> count + i]]
           h == SentTo(peer, count + more)
<1>1. f \in [1..count -> T] /\ g \in [1..more -> T] /\ h \in [1..(count + more) -> T]
  BY DEF SentTo
<1>2. /\ \A i \in 1..count : f[i] = h[i]
      /\ \A i \in 1..more : g[i] = h[count + i]
  BY DEF SentTo
<1> HIDE DEF f, g, h, T
<1>3. f \in Seq(T) /\ g \in Seq(T) /\ h \in Seq(T)
  BY <1>1, SeqDef
<1>4. Len(f) = count /\ Len(g) = more /\ Len(h) = count + more
  BY <1>1, LenOfFunction
<1>5. /\ f \o g \in Seq(T) /\ Len(f \o g) = count + more
      /\ \A i \in 1..(count + more) :
           (f \o g)[i] = IF i <= count THEN f[i] ELSE g[i - count]
  BY <1>3, <1>4, ConcatProperties
<1>6. ASSUME NEW i \in 1..(count + more) PROVE (f \o g)[i] = h[i]
  <2>1. CASE i <= count
    BY <1>2, <1>5, <2>1
  <2>2. CASE ~(i <= count)
    <3>1. i - count \in 1..more /\ count + (i - count) = i
      BY <2>2
    <3> QED
      BY <1>2, <1>5, <2>2, <3>1
  <2> QED
    BY <2>1, <2>2
<1>7. f \o g = h
  BY <1>3, <1>4, <1>5, <1>6, SeqEqual
<1> QED
  BY <1>7 DEF f, g, h

-----------------------------------------------------------------------------
(* Socket: what is received *)

Received == IF call.op \in {"receive", "receive_all"} THEN call.total ELSE 0

\* Two bytes side by side in a buffer.
Follows(a, b) ==
    \/ b = [a EXCEPT !.at = @ + 1]
    \/ a.at = a.of /\ b.at = 1 /\ b.id > a.id

\* The first n bytes of a buffer are filled, without a gap in what arrived.
Ordered(m, n) ==
    /\ m \in [1..Size -> S!Byte \cup {nil}]
    /\ \A i \in 1..Size : i <= n <=> m[i] # nil
    /\ \A i \in 1..(Size - 1) : m[i + 1] # nil => Follows(m[i], m[i + 1])

\* The last of them ends a datagram that was before all of those that wait.
Whole(m, n, box) ==
    n > 0 => /\ m[n].at = m[n].of /\ m[n].id <= arrivals
             /\ \A k \in 1..Len(box) : m[n].id < box[k].id

ReceivedInv ==
    /\ Ordered(memory, Received)
    /\ S!Receiving => Whole(memory, call.total, inbox[S!Descriptor(call.on)])
    /\ call.op = "receive_all" /\ ~call.running /\ ~call.closed => call.total \in {0, call.size}

LEMMA BlankOrdered == Ordered(S!Blank, 0)
BY SocketAssumption DEF Ordered, S!Blank

\* Bytes that follow what is in the buffer are put behind it.
LEMMA FilledOrdered ==
    ASSUME NEW m, NEW total \in 0..Size, Ordered(m, total),
           NEW count \in 0..Size, total + count <= Size,
           NEW bytes \in [1..count -> S!Byte],
           \A i \in 1..(count - 1) : Follows(bytes[i], bytes[i + 1]),
           total > 0 /\ count > 0 => Follows(m[total], bytes[1])
    PROVE  /\ Ordered(S!Filled(m, total, bytes), total + count)
           /\ \A i \in 1..count : S!Filled(m, total, bytes)[total + i] = bytes[i]
           /\ \A i \in 1..total : S!Filled(m, total, bytes)[i] = m[i]
<1> DEFINE f == S!Filled(m, total, bytes)
<1>1. Len(bytes) = count /\ Size \in Nat \ {0} /\ count \in Nat /\ total \in Nat
  BY LenOfFunction, SocketAssumption
<1>2. f = [i \in 1..Size |-> IF i \in total + 1 .. total + count
                               THEN bytes[i - total] ELSE m[i]]
  BY <1>1 DEF S!Filled
<1> HIDE DEF f
<1>3. \A i \in 1..count : f[total + i] = bytes[i] /\ bytes[i] \in S!Byte
  BY <1>1, <1>2
<1>4. \A i \in 1..Size : ~(total < i /\ i <= total + count) => f[i] = m[i]
  BY <1>1, <1>2
<1>5. \A i \in 1..Size : total < i /\ i <= total + count =>
         i - total \in 1..count /\ f[i] = bytes[i - total] /\ f[i] # nil /\ f[i] \in S!Byte
  <2> SUFFICES ASSUME NEW i \in 1..Size, total < i, i <= total + count
               PROVE  i - total \in 1..count /\ f[i] = bytes[i - total] /\ f[i] # nil
                        /\ f[i] \in S!Byte
    OBVIOUS
  <2>1. i - total \in 1..count /\ total + (i - total) = i
    BY <1>1
  <2> QED
    BY <1>3, <2>1, NilIsNoRecord
<1>6. f \in [1..Size -> S!Byte \cup {nil}]
  <2>1. \A i \in 1..Size : f[i] \in S!Byte \cup {nil}
    BY <1>4, <1>5 DEF Ordered
  <2> QED
    BY <1>2, <2>1
<1>7. \A i \in 1..Size : i <= total + count <=> f[i] # nil
  <2> SUFFICES ASSUME NEW i \in 1..Size PROVE i <= total + count <=> f[i] # nil
    OBVIOUS
  <2>1. i <= total <=> m[i] # nil
    BY DEF Ordered
  <2> QED
    BY <1>1, <1>4, <1>5, <2>1
<1>8. \A i \in 1..(Size - 1) : f[i + 1] # nil => Follows(f[i], f[i + 1])
  <2> SUFFICES ASSUME NEW i \in 1..(Size - 1), f[i + 1] # nil
               PROVE  Follows(f[i], f[i + 1])
    OBVIOUS
  <2>1. i \in 1..Size /\ i + 1 \in 1..Size /\ i + 1 <= total + count
    BY <1>1, <1>7
  <2>2. CASE i + 1 <= total
    <3>1. f[i] = m[i] /\ f[i + 1] = m[i + 1]
      BY <1>1, <1>4, <2>1, <2>2
    <3> QED
      BY <2>1, <2>2, <3>1 DEF Ordered
  <2>3. CASE i = total
    <3>1. f[i] = m[total] /\ f[i + 1] = bytes[1] /\ total > 0 /\ count > 0
      BY <1>1, <1>3, <1>4, <2>1, <2>3
    <3> QED
      BY <3>1
  <2>4. CASE i > total
    <3>1. i - total \in 1..(count - 1) /\ (i + 1) - total = (i - total) + 1
      BY <1>1, <2>1, <2>4
    <3>2. f[i] = bytes[i - total] /\ f[i + 1] = bytes[(i - total) + 1]
      BY <1>1, <1>5, <2>1, <2>4, <3>1
    <3> QED
      BY <3>1, <3>2
  <2> QED
    BY <1>1, <2>1, <2>2, <2>3, <2>4
<1>9. \A i \in 1..total : f[i] = m[i]
  BY <1>1, <1>4
<1> QED
  BY <1>3, <1>6, <1>7, <1>8, <1>9 DEF Ordered, f

\* The bytes that a descriptor hands over.
LEMMA Handed ==
    ASSUME NEW d, inbox[d] \in Seq(Datagram), NEW room \in 1..Size, NEW count \in 0..room,
           inbox[d][1] \in Datagram, Gone(d, count) \in 1..Len(inbox[d]),
           heap[d].type = "UDP" =>
             count = IF inbox[d][1].size < room THEN inbox[d][1].size ELSE room,
           heap[d].type # "UDP" => count \in 1..Len(inbox[d]),
           \A i, j \in 1..Len(inbox[d]) : i < j => inbox[d][i].id < inbox[d][j].id
    PROVE  /\ S!BytesOf(d, count) \in [1..count -> S!Byte]
           /\ \A i \in 1..(count - 1) : Follows(S!BytesOf(d, count)[i], S!BytesOf(d, count)[i + 1])
           /\ count > 0 => /\ S!BytesOf(d, count)[1].at = 1
                           /\ S!BytesOf(d, count)[1].id = inbox[d][1].id
                           /\ S!BytesOf(d, count)[count].id = inbox[d][Gone(d, count)].id
           /\ count > 0 /\ count < room =>
                S!BytesOf(d, count)[count].at = S!BytesOf(d, count)[count].of
<1> DEFINE q == inbox[d]
           bytes == S!BytesOf(d, count)
<1>1. count \in Nat /\ room \in Nat /\ count <= Size /\ Len(q) \in Nat /\ Size \in Nat \ {0}
  BY SocketAssumption, LenProperties
<1>2. \A i \in 1..Len(q) : q[i] \in Datagram
  BY ElementOfSeq
<1>3. CASE heap[d].type = "UDP"
  <2> DEFINE byte(i) == [id |-> q[1].id, at |-> i, of |-> q[1].size]
  <2>1. bytes = [i \in 1..count |-> byte(i)]
    BY <1>3 DEF S!BytesOf
  <2>2. \A i \in 1..count : byte(i) \in S!Byte
    BY <1>1 DEF Datagram, S!Byte
  <2>3. \A i \in 1..(count - 1) : Follows(bytes[i], bytes[i + 1])
    <3> SUFFICES ASSUME NEW i \in 1..(count - 1) PROVE Follows(bytes[i], bytes[i + 1])
      OBVIOUS
    <3>1. i \in 1..count /\ i + 1 \in 1..count
      BY <1>1
    <3>2. bytes[i] = byte(i) /\ bytes[i + 1] = byte(i + 1)
      BY <2>1, <3>1
    <3> QED
      BY <3>2 DEF Follows
  <2>4. bytes \in [1..count -> S!Byte]
    BY <2>1, <2>2
  <2>5. \A i \in 1..count : bytes[i].at = i /\ bytes[i].id = q[1].id /\ bytes[i].of = q[1].size
    BY <2>1
  <2>6. Gone(d, count) = 1
    BY <1>3 DEF Gone
  <2>7. count < room => count = q[1].size
    BY <1>1, <1>3
  <2> QED
    BY <1>1, <2>3, <2>4, <2>5, <2>6, <2>7
<1>4. CASE heap[d].type # "UDP"
  <2> DEFINE byte(i) == [id |-> q[i].id, at |-> 1, of |-> 1]
  <2>1. bytes = [i \in 1..count |-> byte(i)] /\ count \in 1..Len(q) /\ Gone(d, count) = count
    BY <1>4 DEF S!BytesOf, Gone
  <2>2. ASSUME NEW i \in 1..count PROVE byte(i) \in S!Byte
    <3>1. q[i] \in Datagram
      BY <1>1, <1>2, <2>1
    <3> QED
      BY <1>1, <3>1 DEF Datagram, S!Byte, S!Sizes
  <2>3. \A i \in 1..(count - 1) : Follows(bytes[i], bytes[i + 1])
    <3> SUFFICES ASSUME NEW i \in 1..(count - 1) PROVE Follows(bytes[i], bytes[i + 1])
      OBVIOUS
    <3>1. i \in 1..count /\ i + 1 \in 1..count /\ i < i + 1
          /\ i \in 1..Len(q) /\ i + 1 \in 1..Len(q)
      BY <1>1, <2>1
    <3>2. bytes[i] = byte(i) /\ bytes[i + 1] = byte(i + 1)
      BY <2>1, <3>1
    <3>3. q[i].id < q[i + 1].id /\ q[i].id \in Int /\ q[i + 1].id \in Int
      BY <1>2, <3>1 DEF Datagram
    <3> QED
      BY <3>2, <3>3 DEF Follows
  <2>4. bytes \in [1..count -> S!Byte]
    BY <2>1, <2>2
  <2>5. \A i \in 1..count : bytes[i].at = 1 /\ bytes[i].id = q[i].id /\ bytes[i].of = 1
    BY <2>1
  <2>6. 1 \in 1..count /\ count \in 1..count
    BY <1>1, <2>1
  <2> QED
    BY <1>1, <2>1, <2>3, <2>4, <2>5, <2>6
<1> QED
  BY <1>3, <1>4

\* A descriptor that hands over bytes fills the buffer further; if the buffer is
\* not full then, it ends with the end of a datagram.
LEMMA Fills ==
    ASSUME OwnInv, BoxInv, NEW s, NEW d, NEW room, NEW count, HandsOver(s, d, room, count),
           NEW m, NEW total \in S!Sizes, Ordered(m, total), Whole(m, total, inbox[d]),
           total + room <= Size
    PROVE  /\ count \in 0..room
           /\ Ordered(S!Filled(m, total, S!BytesOf(d, count)), total + count)
           /\ count < room =>
                Whole(S!Filled(m, total, S!BytesOf(d, count)), total + count, inbox'[d])
<1> DEFINE q == inbox[d]
           r == inbox'[d]
           g == Gone(d, count)
           bytes == S!BytesOf(d, count)
           f == S!Filled(m, total, bytes)
<1>0. room \in 1..Size
  BY DEF HandsOver
<1>1. /\ d \in Descriptors /\ q \in Seq(Datagram) /\ count \in 0..room
      /\ q[1] \in Datagram /\ Len(q) \in Nat
      /\ heap[d].type = "UDP" => count = IF q[1].size < room THEN q[1].size ELSE room
      /\ heap[d].type # "UDP" => count \in 1..Len(q)
      /\ g \in 1..Len(q)
      /\ Len(r) = Len(q) - g
      /\ \A i \in 1..(Len(q) - g) : r[i] = q[g + i]
  BY Taken
<1>2. /\ \A i, j \in 1..Len(q) : i < j => q[i].id < q[j].id
      /\ \A i \in 1..Len(q) : q[i].id <= arrivals
  BY <1>1 DEF BoxInv
<1>3. /\ bytes \in [1..count -> S!Byte]
      /\ \A i \in 1..(count - 1) : Follows(bytes[i], bytes[i + 1])
      /\ count > 0 => bytes[1].at = 1 /\ bytes[1].id = q[1].id /\ bytes[count].id = q[g].id
      /\ count > 0 /\ count < room => bytes[count].at = bytes[count].of
  BY <1>0, <1>1, <1>2, Handed
<1>4. total \in 0..Size /\ count \in 0..Size /\ total + count <= Size /\ Size \in Nat
  BY <1>0, <1>1, SocketAssumption DEF S!Sizes
<1>5. 1 \in 1..Len(q) /\ g \in Nat
  BY <1>1
<1> HIDE DEF q, r, g, bytes, f
<1>6. total > 0 /\ count > 0 => Follows(m[total], bytes[1])
  BY <1>3, <1>5 DEF Whole, Follows, q
<1>7. /\ Ordered(f, total + count)
      /\ \A i \in 1..count : f[total + i] = bytes[i]
      /\ \A i \in 1..total : f[i] = m[i]
  BY <1>3, <1>4, <1>6, FilledOrdered DEF f
<1>8. ASSUME count < room PROVE Whole(f, total + count, r)
  <2> SUFFICES ASSUME total + count > 0
               PROVE  /\ f[total + count].at = f[total + count].of
                      /\ f[total + count].id <= arrivals
                      /\ \A k \in 1..Len(r) : f[total + count].id < r[k].id
    BY DEF Whole
  <2>1. \A k \in 1..Len(r) : g + k \in 1..Len(q) /\ r[k] = q[g + k] /\ g < g + k
    BY <1>1, <1>5
  <2>2. CASE count > 0
    <3>1. f[total + count] = bytes[count]
      <4>1. count \in 1..count
        BY <1>4, <2>2
      <4> QED
        BY <1>7, <4>1
    <3>2. g \in 1..Len(q)
      BY <1>1 DEF q, g
    <3>3. bytes[count].at = bytes[count].of /\ bytes[count].id = q[g].id
      BY <1>3, <1>8, <2>2
    <3>4. q[g].id <= arrivals
      BY <1>2, <3>2
    <3>5. \A k \in 1..Len(r) : q[g].id < r[k].id
      BY <1>2, <2>1, <3>2
    <3> QED
      BY <3>1, <3>3, <3>4, <3>5
  <2>3. CASE count = 0
    <3>1. total > 0 /\ total + count = total /\ f[total] = m[total]
      BY <1>4, <1>7, <2>3
    <3> QED
      BY <2>1, <3>1 DEF Whole, q
  <2> QED
    BY <1>4, <2>2, <2>3
<1> QED
  BY <1>1, <1>7, <1>8 DEF f, bytes, r

-----------------------------------------------------------------------------
(* Socket: the steps of a transfer *)

SInv == OwnInv /\ BoxInv /\ CallInv /\ SentInv /\ ReceivedInv

\* A step that leaves sockets, descriptors and the network alone.
LEMMA SocketsRest ==
    ASSUME SInv, UNCHANGED <<socket, heap, inbox, closed, arrivals>>
    PROVE  OwnInv' /\ BoxInv'
<1>1. OwnInv'
  BY DEF SInv, OwnInv, SocketsTyped, Matched, Separate, Owned, S!ModeAgrees, S!Connected,
         S!Descriptor
<1>2. BoxInv'
  BY DEF SInv, BoxInv
<1> QED
  BY <1>1, <1>2

LEMMA TransferInit == S!Init => CallInv /\ SentInv /\ ReceivedInv
<1> SUFFICES ASSUME S!Init PROVE SentInv /\ ReceivedInv
  BY CallInit
<1>1. call = S!Transfer("none", nil, 0, nil) /\ wire = <<>> /\ memory = S!Blank
  BY DEF S!Init
<1>2. call.op = "none" /\ call.running = FALSE
  BY <1>1 DEF S!Transfer
<1>3. Sent = 0 /\ Received = 0 /\ ~S!Sending /\ ~S!Receiving
  BY <1>2 DEF Sent, Received, S!Sending, S!Receiving
<1>4. PICK peer \in Peers : TRUE
  BY SocketAssumption
<1>5. SentInv
  BY <1>1, <1>2, <1>3, <1>4, NothingYet DEF SentInv
<1>6. ReceivedInv
  BY <1>1, <1>2, <1>3, BlankOrdered DEF ReceivedInv
<1> QED
  BY <1>5, <1>6

\* A call that sends nothing yet, or all it will.
LEMMA SendBegins ==
    ASSUME SInv, NEW s \in Sockets, socket[s] # nil, NEW peer \in Peers,
           call' \in CallRecord, call'.op \in {"send", "send_all"}, call'.on = s,
           call'.running => /\ call'.op = "send_all" /\ call'.total < call'.size
                            /\ S!Connected(s) /\ peer = socket[s].end_point,
           call'.op = "send_all" => call'.total = 0,
           wire' = SentTo(peer, call'.total), memory' = S!Blank,
           ~call.running, UNCHANGED <<socket, live, held>>
    PROVE  CallInv' /\ SentInv' /\ ReceivedInv'
<1>1. Sent' = call'.total /\ Received' = 0 /\ ~S!Receiving' /\ ~S!Receiving
  BY DEF Sent, Received, S!Receiving
<1>2. CallInv'
  BY <1>1 DEF SInv, CallInv, S!BuffersAccounted, S!Connected
<1>3. SentInv'
  BY <1>1 DEF SentInv, S!Sending
<1>4. ReceivedInv'
  BY <1>1, BlankOrdered DEF ReceivedInv, Ordered, Follows, S!Blank
<1> QED
  BY <1>2, <1>3, <1>4

LEMMA SendSteps ==
    ASSUME SInv, NEW s \in Sockets, NEW size \in S!Sizes,
           \/ \E op \in {"send", "send_all"} : S!NothingSent(op, s, size)
           \/ S!Send(s, size)
           \/ S!SendAll(s, size)
    PROVE  CallInv' /\ SentInv' /\ ReceivedInv'
<1>1. socket[s] # nil /\ ~call.running /\ UNCHANGED <<socket, live, held>> /\ memory' = S!Blank
  BY DEF S!NothingSent, S!Send, S!SendAll, S!Open_, S!Idle, S!buffers
<1>2. size \in 0..Size /\ size \in Nat /\ 0 \in S!Sizes
  BY SocketAssumption DEF S!Sizes
<1>3. PICK any \in Peers : TRUE
  BY SocketAssumption
<1>4. ASSUME NEW op \in {"send", "send_all"}, S!NothingSent(op, s, size)
      PROVE  CallInv' /\ SentInv' /\ ReceivedInv'
  <2>1. call' = S!Transfer(op, s, size, nil) /\ wire' = <<>>
    BY <1>4 DEF S!NothingSent
  <2>2. /\ call' \in CallRecord /\ call'.op = op /\ call'.on = s
        /\ call'.running = FALSE /\ call'.total = 0
    BY <2>1, <1>2 DEF S!Transfer, CallRecord
  <2> QED
    BY <1>1, <1>3, <2>1, <2>2, NothingYet, SendBegins
<1>5. CASE S!Send(s, size)
  <2> DEFINE new == S!Transfer("send", s, size, nil)
             peer == socket[s].end_point
  <2>1. peer \in Peers
    BY <1>1, <1>5 DEF SInv, OwnInv, Matched, S!Send
  <2>2. new \in CallRecord /\ new.op = "send" /\ new.on = s /\ new.running = FALSE /\ new.total = 0
    BY <1>2 DEF S!Transfer, CallRecord
  <2>3. ASSUME NEW sent \in 0..size, call' = [new EXCEPT !.total = sent],
               wire' = S!Outgoing(s, 0, sent)
        PROVE  CallInv' /\ SentInv' /\ ReceivedInv'
    <3>1. /\ call' \in CallRecord /\ call'.op = "send" /\ call'.on = s
          /\ call'.running = FALSE /\ call'.total = sent
      <4>1. sent \in S!Sizes
        BY <1>2, SocketAssumption DEF S!Sizes
      <4> QED
        BY <2>2, <2>3, <4>1 DEF CallRecord
    <3>2. wire' = SentTo(peer, sent)
      <4>1. \A i \in 1..sent : 0 + i = i
        OBVIOUS
      <4> QED
        BY <2>3, <4>1 DEF S!Outgoing, SentTo
    <3> QED
      BY <1>1, <2>1, <3>1, <3>2, SendBegins
  <2>4. ASSUME call' = [new EXCEPT !.closed = TRUE], wire' = <<>>
        PROVE  CallInv' /\ SentInv' /\ ReceivedInv'
    <3>1. /\ call' \in CallRecord /\ call'.op = "send" /\ call'.on = s
          /\ call'.running = FALSE /\ call'.total = 0
      BY <2>2, <2>4 DEF CallRecord
    <3> QED
      BY <1>1, <2>1, <2>4, <3>1, NothingYet, SendBegins
  <2> QED
    BY <1>5, <2>3, <2>4 DEF S!Send
<1>6. CASE S!SendAll(s, size)
  <2> DEFINE new == S!Transfer("send_all", s, size, nil)
             peer == socket[s].end_point
             more == size > 0
  <2>1. /\ peer \in Peers /\ S!Connected(s) /\ wire' = <<>>
        /\ call' = [new EXCEPT !.running = more] /\ more \in BOOLEAN
    BY <1>1, <1>6 DEF SInv, OwnInv, Matched, S!SendAll
  <2>2. new \in CallRecord /\ new.op = "send_all" /\ new.on = s /\ new.total = 0 /\ new.size = size
    BY <1>2 DEF S!Transfer, CallRecord
  <2> HIDE DEF more
  <2>3. /\ call' \in CallRecord /\ call'.op = "send_all" /\ call'.on = s
        /\ call'.total = 0 /\ call'.size = size /\ call'.running = more
    BY <2>1, <2>2 DEF CallRecord
  <2>4. call'.running => call'.total < call'.size
    BY <1>2, <2>3 DEF more
  <2> QED
    BY <1>1, <2>1, <2>3, <2>4, NothingYet, SendBegins
<1> QED
  BY <1>4, <1>5, <1>6

LEMMA SendTurn ==
    ASSUME SInv, S!SendAllTurn
    PROVE  CallInv' /\ SentInv' /\ ReceivedInv'
<1>1. /\ call.running /\ call.op = "send_all" /\ UNCHANGED <<socket, live, held, memory>>
      /\ call \in CallRecord /\ call.total < call.size
      /\ call.on \in Sockets /\ socket[call.on] # nil /\ S!Connected(call.on)
  BY DEF SInv, CallInv, S!SendAllTurn, S!Sending, S!buffers
<1>2. call.total \in Nat /\ call.size \in 0..Size /\ Size \in Nat
  BY <1>1, SocketAssumption DEF CallRecord, S!Sizes
<1> DEFINE peer == socket[call.on].end_point
<1>3. peer \in Peers /\ wire = SentTo(peer, call.total)
  BY <1>1 DEF SInv, OwnInv, Matched, SentInv, Sent, S!Sending
<1>4. Received = 0 /\ ~S!Receiving
  BY <1>1 DEF Received, S!Receiving
<1>5. ASSUME NEW sent \in 1..(call.size - call.total),
             call' = [call EXCEPT !.total = call.total + sent,
                                  !.running = (call.total + sent < call.size)],
             wire' = wire \o S!Outgoing(call.on, call.total, sent)
      PROVE  CallInv' /\ SentInv' /\ ReceivedInv'
  <2> DEFINE sum == call.total + sent
             more == sum < call.size
  <2>1. /\ call' \in CallRecord /\ call'.op = "send_all" /\ call'.on = call.on
        /\ call'.size = call.size /\ call'.total = sum /\ call'.running = more
    <3>1. sum \in S!Sizes /\ more \in BOOLEAN /\ call' = [call EXCEPT !.total = sum, !.running = more]
      BY <1>2, <1>5 DEF S!Sizes
    <3> HIDE DEF sum, more
    <3> QED
      BY <1>1, <3>1 DEF CallRecord
  <2>2. sent \in Nat /\ (call'.running => call'.total < call'.size)
        /\ (~call'.running => call'.total = call'.size)
    <3>1. sent \in Nat /\ (more => sum < call.size) /\ (~more => sum = call.size)
      BY <1>2
    <3> HIDE DEF sum, more
    <3> QED
      BY <2>1, <3>1
  <2>3. wire' = SentTo(peer, call.total + sent)
    BY <1>2, <1>3, <1>5, <2>2, SentMore DEF S!Outgoing
  <2>4. Sent' = call.total + sent /\ Received' = 0 /\ ~S!Receiving'
    BY <2>1 DEF Sent, Received, S!Receiving
  <2>5. CallInv'
    BY <1>1, <1>4, <2>1, <2>4 DEF SInv, CallInv, S!BuffersAccounted, S!Connected
  <2>6. SentInv'
    BY <1>1, <1>3, <2>1, <2>2, <2>3, <2>4 DEF SentInv
  <2>7. ReceivedInv'
    BY <1>1, <1>4, <2>1, <2>4 DEF SInv, ReceivedInv, Ordered, Follows
  <2> QED
    BY <2>5, <2>6, <2>7
<1>6. ASSUME call' = [call EXCEPT !.closed = TRUE, !.running = FALSE], UNCHANGED wire
      PROVE  CallInv' /\ SentInv' /\ ReceivedInv'
  <2>1. /\ call' \in CallRecord /\ call'.op = "send_all" /\ call'.on = call.on
        /\ call'.total = call.total /\ call'.running = FALSE /\ call'.closed = TRUE
    BY <1>1, <1>6 DEF CallRecord
  <2>2. Sent' = call.total /\ Received' = 0 /\ ~S!Receiving' /\ ~S!Sending'
    BY <2>1 DEF Sent, Received, S!Receiving, S!Sending
  <2>3. CallInv'
    BY <1>1, <1>4, <2>1, <2>2 DEF SInv, CallInv, S!BuffersAccounted
  <2>4. SentInv'
    BY <1>3, <1>6, <2>1, <2>2 DEF SentInv
  <2>5. ReceivedInv'
    BY <1>1, <1>4, <2>1, <2>2 DEF SInv, ReceivedInv, Ordered, Follows
  <2> QED
    BY <2>3, <2>4, <2>5
<1> QED
  BY <1>5, <1>6 DEF S!SendAllTurn

\* Nothing is sent by a call that receives.
LEMMA NothingSentThen ==
    ASSUME call'.op \in {"receive", "receive_all"}, wire' = <<>>
    PROVE  SentInv'
<1>1. Sent' = 0 /\ ~S!Sending' /\ call'.op # "send_all"
  BY DEF Sent, S!Sending
<1>2. PICK peer \in Peers : TRUE
  BY SocketAssumption
<1> QED
  BY <1>1, <1>2, NothingYet DEF SentInv

LEMMA ReceiveAllBegins ==
    ASSUME SInv, NEW s \in Sockets, NEW size \in S!Sizes \ {0}, NEW b \in Datas,
           S!ReceiveAll(s, size, b)
    PROVE  CallInv' /\ SentInv' /\ ReceivedInv'
<1> DEFINE new == S!Transfer("receive_all", s, size, b)
           more == S!Connected(s) /\ size > 0
<1>1. /\ socket[s] # nil /\ ~call.running /\ b \notin live /\ socket' = socket
      /\ memory' = S!Blank /\ wire' = <<>> /\ live' = live \cup {b}
      /\ held' = IF call'.running THEN held ELSE held \cup {b}
  BY DEF S!ReceiveAll, S!Open_, S!Idle
<1>2. call' = [new EXCEPT !.running = more] /\ more \in BOOLEAN
  <2>1. call' = [new EXCEPT !.running = more]
    BY DEF S!ReceiveAll
  <2>2. more \in BOOLEAN
    BY <1>1, SocketAssumption DEF SInv, OwnInv, SocketsTyped, S!SocketObject, S!Connected
  <2> QED
    BY <2>1, <2>2
<1>3. size \in Nat /\ size > 0 /\ 0 \in S!Sizes
  BY SocketAssumption DEF S!Sizes
<1>4. new \in CallRecord /\ new.op = "receive_all" /\ new.on = s /\ new.size = size
      /\ new.total = 0 /\ new.buffer = b
  BY <1>3 DEF S!Transfer, CallRecord
<1>5. more => S!Connected(s)
  OBVIOUS
<1> HIDE DEF more, new
<1>6. /\ call' \in CallRecord /\ call'.op = "receive_all" /\ call'.on = s
      /\ call'.size = size /\ call'.total = 0 /\ call'.buffer = b /\ call'.running = more
  BY <1>2, <1>4 DEF CallRecord
<1>7. /\ ~S!Receiving /\ (S!Receiving' <=> more) /\ Received' = 0
  BY <1>1, <1>6 DEF S!Receiving, Received
<1>8. live = held /\ live \subseteq Datas
  BY <1>7 DEF SInv, CallInv, S!BuffersAccounted
<1>9. CallInv'
  <2>1. held' = IF more THEN held ELSE held \cup {b}
    BY <1>1, <1>6
  <2>2. S!BuffersAccounted' /\ (more => b \in live' /\ b \notin held')
    BY <1>1, <1>6, <1>7, <1>8, <2>1 DEF S!BuffersAccounted
  <2>3. held' \subseteq live' /\ live' \subseteq Datas
    BY <1>1, <1>8, <2>1
  <2>4. call'.running => /\ call'.op \in {"send_all", "receive_all"} /\ call'.total < call'.size
                         /\ call'.on \in Sockets /\ socket'[call'.on] # nil /\ S!Connected(call.on)'
    BY <1>1, <1>3, <1>5, <1>6 DEF S!Connected
  <2> QED
    BY <1>6, <1>7, <2>2, <2>3, <2>4 DEF CallInv
<1>10. ReceivedInv'
  <2>1. Ordered(memory, Received)'
    BY <1>1, <1>7, BlankOrdered DEF Ordered, Follows
  <2>2. Whole(memory, call.total, inbox[S!Descriptor(call.on)])'
    BY <1>6 DEF Whole
  <2> QED
    BY <1>6, <2>1, <2>2 DEF ReceivedInv
<1> QED
  BY <1>1, <1>6, <1>9, <1>10, NothingSentThen

\* A receive that has returned, with a buffer for the script or without.
LEMMA ReceiveReturns ==
    ASSUME SInv, NEW b \in Datas, ~call.running, wire' = <<>>,
           call' \in CallRecord, call'.op = "receive", call'.running = FALSE,
           \/ live' = live /\ held' = held
           \/ live' = live \cup {b} /\ held' = held \cup {b},
           Ordered(memory', call'.total)
    PROVE  CallInv' /\ SentInv' /\ ReceivedInv'
<1>1. ~S!Receiving /\ ~S!Receiving' /\ Received' = call'.total
  BY DEF S!Receiving, Received
<1>2. CallInv'
  BY <1>1 DEF SInv, CallInv, S!BuffersAccounted
<1>3. ReceivedInv'
  BY <1>1 DEF ReceivedInv, Ordered, Follows
<1> QED
  BY <1>2, <1>3, NothingSentThen

LEMMA ReceiveStep ==
    ASSUME SInv, NEW s \in Sockets, NEW size \in S!Sizes \ {0}, NEW b \in Datas,
           S!Receive(s, size, b)
    PROVE  OwnInv' /\ BoxInv' /\ CallInv' /\ SentInv' /\ ReceivedInv'
<1> DEFINE d == S!Descriptor(s)
           new == S!Transfer("receive", s, size, b)
<1>1. /\ socket[s] # nil /\ ~call.running /\ wire' = <<>>
      /\ UNCHANGED <<heap, closed, arrivals>>
  BY DEF S!Receive, S!Open_, S!Idle
<1>2. size \in 1..Size /\ size \in Nat /\ 0 \in S!Sizes /\ Size \in Nat
  BY SocketAssumption DEF S!Sizes
<1>3. new \in CallRecord /\ new.op = "receive" /\ new.running = FALSE /\ new.total = 0
  BY <1>2 DEF S!Transfer, CallRecord
<1>4. ASSUME call' \in {new, [new EXCEPT !.would_block = TRUE], [new EXCEPT !.closed = TRUE]},
             memory' = S!Blank, UNCHANGED <<socket, inbox>>,
             \/ live' = live /\ held' = held
             \/ live' = live \cup {b} /\ held' = held \cup {b}
      PROVE  OwnInv' /\ BoxInv' /\ CallInv' /\ SentInv' /\ ReceivedInv'
  <2>1. OwnInv' /\ BoxInv'
    BY <1>1, <1>4, SocketsRest
  <2>3. call' \in CallRecord /\ call'.op = "receive" /\ call'.running = FALSE /\ call'.total = 0
    BY <1>3, <1>4 DEF CallRecord
  <2>4. Ordered(memory', call'.total)
    BY <1>4, <2>3, BlankOrdered
  <2> QED
    BY <1>1, <1>4, <2>1, <2>3, <2>4, ReceiveReturns
<1>5. ASSUME S!Connected(s), NEW count \in S!Receivable(d, size), S!Take(s, d, count),
             call' = [new EXCEPT !.total = count, !.would_block = (count = 0)],
             memory' = S!Filled(S!Blank, 0, S!BytesOf(d, count)),
             live' = IF count = 0 THEN live ELSE live \cup {b},
             held' = IF count = 0 THEN held ELSE held \cup {b}
      PROVE  OwnInv' /\ BoxInv' /\ CallInv' /\ SentInv' /\ ReceivedInv'
  <2> HIDE DEF d, new
  <2>1. HandsOver(s, d, size, count)
    BY <1>1, <1>2, <1>5 DEF HandsOver, d
  <2>2. OwnInv' /\ BoxInv'
    BY <2>1, Taken DEF SInv
  <2>3. Whole(S!Blank, 0, inbox[d])
    BY DEF Whole
  <2>4. count \in 0..size /\ Ordered(memory', 0 + count)
    BY <1>2, <1>5, <2>1, <2>3, BlankOrdered, Fills DEF SInv
  <2>5. count \in S!Sizes /\ 0 + count = count
    BY <1>2, <2>4 DEF S!Sizes
  <2>6. call' \in CallRecord /\ call'.op = "receive" /\ call'.running = FALSE /\ call'.total = count
    <3> DEFINE none == count = 0
    <3>1. none \in BOOLEAN /\ call' = [new EXCEPT !.total = count, !.would_block = none]
      BY <1>5
    <3> HIDE DEF none
    <3> QED
      BY <1>3, <2>5, <3>1 DEF CallRecord
  <2> QED
    BY <1>1, <1>5, <2>2, <2>4, <2>5, <2>6, ReceiveReturns
<1> QED
  BY <1>4, <1>5 DEF S!Receive

LEMMA ReceiveTurn ==
    ASSUME SInv, S!ReceiveAllTurn
    PROVE  OwnInv' /\ BoxInv' /\ CallInv' /\ SentInv' /\ ReceivedInv'
<1> DEFINE s == call.on
           d == S!Descriptor(call.on)
           room == call.size - call.total
<1>1. /\ call.running /\ call.op = "receive_all" /\ wire' = wire
      /\ UNCHANGED <<heap, closed, arrivals>>
      /\ call \in CallRecord /\ call.total < call.size
      /\ s \in Sockets /\ socket[s] # nil /\ S!Connected(s) /\ S!Receiving
  BY DEF SInv, CallInv, S!ReceiveAllTurn, S!Receiving
<1>2. /\ call.total \in Nat /\ call.size \in 0..Size /\ Size \in Nat
      /\ room \in 1..Size /\ call.total + room = call.size /\ call.total \in S!Sizes
  BY <1>1, SocketAssumption DEF CallRecord, S!Sizes
<1>3. /\ Ordered(memory, call.total) /\ Whole(memory, call.total, inbox[d])
      /\ Received = call.total /\ Sent = 0 /\ ~S!Sending
  BY <1>1 DEF SInv, ReceivedInv, Received, Sent, S!Sending
<1>4. /\ live = held \cup {call.buffer} /\ call.buffer \notin held /\ call.buffer \in live
      /\ live \subseteq Datas
  BY <1>1 DEF SInv, CallInv, S!BuffersAccounted
<1>5. ASSUME NEW count \in S!Receivable(d, room), S!Take(s, d, count),
             call' = [call EXCEPT !.total = call.total + count,
                                  !.running = (call.total + count < call.size)],
             memory' = S!Filled(memory, call.total, S!BytesOf(d, count)),
             held' = IF call'.running THEN held ELSE held \cup {call.buffer},
             live' = live
      PROVE  OwnInv' /\ BoxInv' /\ CallInv' /\ SentInv' /\ ReceivedInv'
  <2> DEFINE sum == call.total + count
             more == sum < call.size
  <2>0. call' = [call EXCEPT !.total = sum, !.running = more] /\ more \in BOOLEAN
    BY <1>5
  <2>1. HandsOver(s, d, room, count)
    BY <1>1, <1>2, <1>5 DEF HandsOver
  <2> HIDE DEF s, d, room, more
  <2>2. OwnInv' /\ BoxInv' /\ ConnectionsKept
    BY <2>1, Taken DEF SInv
  <2>3. /\ count \in 0..room /\ Ordered(memory', sum)
        /\ count < room => Whole(memory', sum, inbox'[d])
    <3>1. call.total + room <= Size
      BY <1>2
    <3> HIDE DEF sum
    <3> QED
      BY <1>2, <1>3, <1>5, <2>1, <3>1, Fills DEF SInv, sum
  <2>4. /\ sum \in S!Sizes /\ count \in Nat
        /\ more => sum < call.size /\ count < room
        /\ ~more => sum = call.size
    BY <1>2, <2>3 DEF S!Sizes, more
  <2> HIDE DEF sum
  <2>5. /\ call' \in CallRecord /\ call'.op = "receive_all" /\ call'.on = call.on
        /\ call'.size = call.size /\ call'.total = sum /\ call'.running = more
        /\ call'.buffer = call.buffer
    BY <1>1, <2>0, <2>4 DEF CallRecord
  <2>6. (S!Receiving' <=> more) /\ Received' = sum
    BY <2>5 DEF S!Receiving, Received
  <2>7. CallInv'
    <3>1. held' = IF more THEN held ELSE held \cup {call.buffer}
      BY <1>5, <2>5
    <3>2. S!BuffersAccounted' /\ (more => call'.buffer \in live' /\ call'.buffer \notin held')
      BY <1>4, <1>5, <2>5, <2>6, <3>1 DEF S!BuffersAccounted
    <3>3. held' \subseteq live' /\ live' \subseteq Datas
      BY <1>4, <1>5, <3>1
    <3>4. call'.on \in Sockets /\ socket'[call'.on] # nil /\ S!Connected(call.on)'
      BY <1>1, <2>2, <2>5 DEF ConnectionsKept, S!Connected, s
    <3>5. call'.running => call'.total < call'.size
      BY <2>4, <2>5
    <3> QED
      BY <2>5, <2>6, <3>2, <3>3, <3>4, <3>5 DEF CallInv
  <2>8. SentInv'
    <3>1. Sent' = 0 /\ ~S!Sending'
      BY <2>5 DEF Sent, S!Sending
    <3> QED
      BY <1>1, <1>3, <2>5, <3>1 DEF SInv, SentInv
  <2>9. ReceivedInv'
    <3>1. Ordered(memory, Received)'
      BY <2>3, <2>6 DEF Ordered, Follows
    <3>2. more => Whole(memory, call.total, inbox[S!Descriptor(call.on)])'
      <4>1. S!Descriptor(call.on)' = d
        BY <1>1, <2>2, <2>5 DEF ConnectionsKept, S!Descriptor, d, s
      <4> QED
        BY <1>1, <2>3, <2>4, <2>5, <4>1 DEF Whole
    <3> QED
      BY <2>4, <2>5, <2>6, <3>1, <3>2 DEF ReceivedInv
  <2> QED
    BY <2>2, <2>7, <2>8, <2>9
<1>6. ASSUME call' = [call EXCEPT !.closed = TRUE, !.running = FALSE],
             live' = live \ {call.buffer},
             UNCHANGED <<socket, inbox, held, memory>>
      PROVE  OwnInv' /\ BoxInv' /\ CallInv' /\ SentInv' /\ ReceivedInv'
  <2>1. OwnInv' /\ BoxInv'
    BY <1>1, <1>6, SocketsRest
  <2>3. /\ call' \in CallRecord /\ call'.op = "receive_all" /\ call'.total = call.total
        /\ call'.running = FALSE /\ call'.closed = TRUE
    BY <1>1, <1>6 DEF CallRecord
  <2>4. ~S!Receiving' /\ ~S!Sending' /\ Received' = call.total /\ Sent' = 0
    BY <2>3 DEF S!Receiving, S!Sending, Received, Sent
  <2>5. CallInv'
    BY <1>4, <1>6, <2>3, <2>4 DEF CallInv, S!BuffersAccounted
  <2>6. SentInv'
    BY <1>1, <1>3, <2>3, <2>4 DEF SInv, SentInv
  <2>7. ReceivedInv'
    BY <1>3, <1>6, <2>3, <2>4 DEF ReceivedInv, Ordered, Follows
  <2> QED
    BY <2>1, <2>5, <2>6, <2>7
<1> QED
  BY <1>5, <1>6 DEF S!ReceiveAllTurn

-----------------------------------------------------------------------------
(* Socket: the other steps *)

\* Between two transfers what was sent and received does not depend on the rest.
LEMMA TransferKept ==
    ASSUME SInv, ~call.running, UNCHANGED <<call, wire, memory>>
    PROVE  SentInv' /\ ReceivedInv'
<1>1. /\ Sent' = Sent /\ Received' = Received
      /\ ~S!Sending' /\ ~S!Receiving' /\ ~S!Sending /\ ~S!Receiving
  BY DEF Sent, Received, S!Sending, S!Receiving
<1>2. SentInv'
  BY <1>1 DEF SInv, SentInv
<1>3. ReceivedInv'
  BY <1>1 DEF SInv, ReceivedInv, Ordered, Follows
<1> QED
  BY <1>2, <1>3

LEMMA SocketSteps ==
    ASSUME SInv, NEW s \in Sockets,
           \/ \E type \in S!Types : S!Open(s, type)
           \/ S!Close(s)
           \/ \E flag \in BOOLEAN : S!SetBlocking(s, flag)
           \/ S!Listen(s)
           \/ \E peer \in Peers : S!ConnectFails(s, peer)
           \/ \E peer \in Peers, d \in Descriptors : S!Connect(s, peer, d)
    PROVE  SInv'
<1>1. ~call.running /\ UNCHANGED <<call, wire, memory, live, held>>
  BY DEF S!Open, S!Close, S!SetBlocking, S!Listen, S!ConnectFails, S!Connect, S!Open_,
         S!Idle, S!transfer, S!buffers
<1>2. CallInv'
  BY <1>1, CallKept DEF SInv
<1>3. SentInv' /\ ReceivedInv'
  BY <1>1, TransferKept
<1>4. CASE S!Close(s)
  <2>1. OwnInv' /\ BoxInv'
    BY <1>4, OwnClose, BoxClose DEF SInv
  <2> QED
    BY <1>2, <1>3, <2>1 DEF SInv
<1>5. CASE ~S!Close(s)
  <2>1. UNCHANGED <<inbox, closed, arrivals>>
    BY <1>5
    DEF S!Open, S!SetBlocking, S!Listen, S!ConnectFails, S!Connect, S!network
  <2>2. BoxInv'
    BY <2>1 DEF SInv, BoxInv
  <2>3. OwnInv'
    BY <1>5, OwnOpen, OwnSetBlocking, OwnListenOrFails, OwnConnect DEF SInv
  <2> QED
    BY <1>2, <1>3, <2>2, <2>3 DEF SInv
<1> QED
  BY <1>4, <1>5

LEMMA ReleaseStep ==
    ASSUME SInv, NEW b \in Datas, S!Release(b)
    PROVE  SInv'
<1>1. /\ ~call.running /\ UNCHANGED <<call, wire, memory, socket, heap, inbox, closed, arrivals>>
      /\ live' = live \ {b} /\ held' = held \ {b}
  BY DEF S!Release, S!Idle, S!network, S!transfer
<1>2. OwnInv' /\ BoxInv'
  BY <1>1, SocketsRest
<1>4. CallInv'
  <2>1. ~S!Receiving /\ ~S!Receiving'
    BY <1>1 DEF S!Receiving
  <2> QED
    BY <1>1, <2>1 DEF SInv, CallInv, S!BuffersAccounted
<1> QED
  BY <1>1, <1>2, <1>4, TransferKept DEF SInv

\* What the network does while a transfer is under way, or between two.
LEMMA NetworkSteps ==
    ASSUME SInv, NEW d \in Descriptors,
           \/ \E from \in Peers, size \in S!Sizes : S!Arrive(d, from, size)
           \/ S!PeerCloses(d)
    PROVE  SInv'
<1>1. UNCHANGED <<call, wire, memory, live, held, socket, heap>>
  BY DEF S!Arrive, S!PeerCloses, S!transfer, S!buffers
<1>2. OwnInv'
  BY <1>1
  DEF SInv, OwnInv, SocketsTyped, Matched, Separate, Owned, S!ModeAgrees, S!Connected,
      S!Descriptor
<1>3. BoxInv'
  BY BoxArrive, BoxClose DEF SInv
<1>4. CallInv'
  BY <1>1, CallKept DEF SInv, ConnectionsKept
<1>5. SentInv'
  <2>1. Sent' = Sent /\ (S!Sending' <=> S!Sending)
    BY <1>1 DEF Sent, S!Sending
  <2> QED
    BY <1>1, <2>1 DEF SInv, SentInv
<1>6. Received' = Received /\ (S!Receiving' <=> S!Receiving)
      /\ S!Descriptor(call.on)' = S!Descriptor(call.on)
  BY <1>1 DEF Received, S!Receiving, S!Descriptor
<1>7. ASSUME S!Receiving
      PROVE  Whole(memory, call.total, inbox[S!Descriptor(call.on)])'
  <2> DEFINE e == S!Descriptor(call.on)
  <2>1. Whole(memory, call.total, inbox[e]) /\ arrivals \in Nat /\ e \in Descriptors
    <3>1. call.on \in Sockets /\ socket[call.on] # nil /\ S!Connected(call.on)
      BY <1>7 DEF SInv, CallInv, S!Receiving
    <3> QED
      BY <1>7, <3>1
      DEF SInv, ReceivedInv, BoxInv, OwnInv, SocketsTyped, Matched, S!SocketObject, S!Descriptor
  <2>2. memory[call.total].id \in Int \/ call.total = 0
    <3>1. call.total \in 0..Size /\ Received = call.total
      BY <1>7 DEF SInv, CallInv, CallRecord, S!Sizes, Received, S!Receiving
    <3>2. call.total # 0 => call.total \in 1..Size /\ memory[call.total] \in S!Byte
      <4>1. call.total # 0 => call.total \in 1..Size /\ call.total <= Received
        BY <3>1, SocketAssumption
      <4> QED
        BY <4>1 DEF SInv, ReceivedInv, Ordered
    <3> QED
      BY <3>2 DEF S!Byte
  <2>3. CASE S!PeerCloses(d)
    BY <1>1, <1>6, <2>1, <2>3 DEF S!PeerCloses, Whole
  <2>4. ASSUME NEW from \in Peers, NEW size \in S!Sizes, S!Arrive(d, from, size)
        PROVE  Whole(memory, call.total, inbox[S!Descriptor(call.on)])'
    <3> DEFINE new == [id |-> arrivals + 1, from |-> from, size |-> size]
    <3>1. /\ arrivals' = arrivals + 1 /\ arrivals < MaxArrivals
          /\ inbox' = [inbox EXCEPT ![d] = Append(inbox[d], new)]
      BY <2>4 DEF S!Arrive
    <3>2. inbox[d] \in Seq(Datagram) /\ new \in Datagram /\ new.id = arrivals + 1
      <4>1. arrivals + 1 \in 1..MaxArrivals
        BY <2>1, <3>1, SocketAssumption
      <4> QED
        BY <4>1 DEF SInv, BoxInv, Datagram
    <3> HIDE DEF new
    <3>3. /\ Len(inbox[d]) \in Nat /\ Len(Append(inbox[d], new)) = Len(inbox[d]) + 1
          /\ \A i \in 1..Len(inbox[d]) : Append(inbox[d], new)[i] = inbox[d][i]
          /\ Append(inbox[d], new)[Len(inbox[d]) + 1] = new
      BY <3>2
    <3>4. inbox'[e] = IF e = d THEN Append(inbox[d], new) ELSE inbox[e]
      BY <2>1, <3>1 DEF SInv, BoxInv
    <3> HIDE DEF e
    <3>5. call.total > 0 =>
            /\ memory[call.total].at = memory[call.total].of
            /\ memory[call.total].id <= arrivals + 1
            /\ \A k \in 1..Len(inbox'[e]) : memory[call.total].id < inbox'[e][k].id
      <4> SUFFICES ASSUME call.total > 0
                   PROVE  /\ memory[call.total].at = memory[call.total].of
                          /\ memory[call.total].id <= arrivals + 1
                          /\ \A k \in 1..Len(inbox'[e]) : memory[call.total].id < inbox'[e][k].id
        OBVIOUS
      <4>1. /\ memory[call.total].at = memory[call.total].of
            /\ memory[call.total].id <= arrivals /\ memory[call.total].id \in Int
            /\ \A k \in 1..Len(inbox[e]) : memory[call.total].id < inbox[e][k].id
        BY <2>1, <2>2 DEF Whole
      <4>2. CASE e = d
        <5>1. \A k \in 1..Len(inbox'[e]) : k \in 1..Len(inbox[e]) \/ k = Len(inbox[e]) + 1
          BY <3>3, <3>4, <4>2
        <5> QED
          BY <2>1, <3>2, <3>3, <3>4, <4>1, <4>2, <5>1
      <4>3. CASE e # d
        BY <2>1, <3>4, <4>1, <4>3
      <4> QED
        BY <4>2, <4>3
    <3> QED
      BY <1>1, <1>6, <3>1, <3>5 DEF Whole, e
  <2> QED
    BY <2>3, <2>4
<1>8. ReceivedInv'
  BY <1>1, <1>6, <1>7 DEF SInv, ReceivedInv, Ordered, Follows
<1> QED
  BY <1>2, <1>3, <1>4, <1>5, <1>8 DEF SInv

LEMMA SocketStep ==
    ASSUME SInv, [S!Next]_socketVars
    PROVE  SInv'
<1>1. CASE UNCHANGED socketVars
  <2>1. OwnInv' /\ BoxInv'
    BY <1>1, SocketsRest DEF socketVars
  <2>2. CallInv'
    BY <1>1, CallKept DEF SInv, socketVars, ConnectionsKept
  <2>3. SentInv'
    BY <1>1 DEF SInv, socketVars, SentInv, Sent, S!Sending
  <2>4. ReceivedInv'
    BY <1>1
    DEF SInv, socketVars, ReceivedInv, Received, S!Receiving, Ordered, Follows, Whole,
        S!Descriptor
  <2> QED
    BY <2>1, <2>2, <2>3, <2>4 DEF SInv
<1>2. ASSUME NEW s \in Sockets, NEW size \in S!Sizes,
             \/ \E op \in {"send", "send_all"} : S!NothingSent(op, s, size)
             \/ S!Send(s, size)
             \/ S!SendAll(s, size)
      PROVE  SInv'
  <2>1. UNCHANGED <<socket, heap, inbox, closed, arrivals>>
    BY <1>2 DEF S!NothingSent, S!Send, S!SendAll, S!network
  <2>2. OwnInv' /\ BoxInv'
    BY <2>1, SocketsRest
  <2> QED
    BY <1>2, <2>2, SendSteps DEF SInv
<1>3. ASSUME NEW s \in Sockets, NEW size \in S!Sizes \ {0}, NEW b \in Datas, S!ReceiveAll(s, size, b)
      PROVE  SInv'
  <2>1. UNCHANGED <<socket, heap, inbox, closed, arrivals>>
    BY <1>3 DEF S!ReceiveAll, S!network
  <2>2. OwnInv' /\ BoxInv'
    BY <2>1, SocketsRest
  <2> QED
    BY <1>3, <2>2, ReceiveAllBegins DEF SInv
<1>4. CASE S!SendAllTurn
  <2>1. UNCHANGED <<socket, heap, inbox, closed, arrivals>>
    BY <1>4 DEF S!SendAllTurn, S!network
  <2>2. OwnInv' /\ BoxInv'
    BY <2>1, SocketsRest
  <2> QED
    BY <1>4, <2>2, SendTurn DEF SInv
<1>5. CASE S!ReceiveAllTurn
  BY <1>5, ReceiveTurn DEF SInv
<1>6. ASSUME NEW s \in Sockets, NEW size \in S!Sizes \ {0}, NEW b \in Datas, S!Receive(s, size, b)
      PROVE  SInv'
  BY <1>6, ReceiveStep DEF SInv
<1>7. ASSUME NEW s \in Sockets,
             \/ \E type \in S!Types : S!Open(s, type)
             \/ S!Close(s)
             \/ \E flag \in BOOLEAN : S!SetBlocking(s, flag)
             \/ S!Listen(s)
             \/ \E peer \in Peers : S!ConnectFails(s, peer)
             \/ \E peer \in Peers, d \in Descriptors : S!Connect(s, peer, d)
      PROVE  SInv'
  BY <1>7, SocketSteps
<1>8. CASE \E b \in Datas : S!Release(b)
  BY <1>8, ReleaseStep
<1>9. CASE \E d \in Descriptors :
             \/ \E from \in Peers, size \in S!Sizes : S!Arrive(d, from, size)
             \/ S!PeerCloses(d)
  BY <1>9, NetworkSteps
<1>10. CASE S!Next
  BY <1>2, <1>3, <1>4, <1>5, <1>6, <1>7, <1>8, <1>9, <1>10 DEF S!Next
<1> QED
  BY <1>1, <1>10

LEMMA SocketInvariant == Spec => []SInv
<1>1. Init => SInv
  BY OwnInit, BoxInit, TransferInit DEF Init, SInv
<1>2. SInv /\ [Next]_vars => SInv'
  BY Alone, SocketStep
<1> QED
  BY <1>1, <1>2, PTL DEF Spec

\* A step leaves every socket the descriptor it is connected to, unless it is closed.
LEMMA OneConnection ==
    ASSUME SInv, [S!Next]_socketVars, NEW s \in Sockets, socket[s] # nil, S!Connected(s),
           socket'[s] # nil
    PROVE  socket'[s].is_connected /\ socket'[s].descriptor = socket[s].descriptor
<1>1. /\ socket \in [Sockets -> S!SocketObject \cup {nil}]
      /\ socket[s] \in S!SocketObject /\ socket[s].is_connected
  BY DEF SInv, OwnInv, SocketsTyped, S!Connected
<1>2. CASE socket' = socket
  BY <1>1, <1>2
<1>3. ASSUME NEW t \in Sockets,
             \/ \E type \in S!Types : S!Open(t, type)
             \/ S!Close(t)
             \/ \E peer \in Peers, d \in Descriptors : S!Connect(t, peer, d)
      PROVE  socket'[s].is_connected /\ socket'[s].descriptor = socket[s].descriptor
  <2>1. CASE t = s
    <3>1. S!Close(s)
      BY <1>3, <2>1 DEF S!Open, S!Connect
    <3>2. socket'[s] = nil
      BY <1>1, <3>1 DEF S!Close
    <3> QED
      BY <3>2
  <2>2. CASE t # s
    <3>1. socket'[s] = socket[s]
      BY <1>1, <1>3, <2>2 DEF S!Open, S!Close, S!Connect
    <3> QED
      BY <1>1, <3>1
  <2> QED
    BY <2>1, <2>2
<1>4. ASSUME NEW t \in Sockets,
             \/ \E flag \in BOOLEAN : S!SetBlocking(t, flag)
             \/ S!Listen(t)
             \/ \E peer \in Peers : S!ConnectFails(t, peer)
      PROVE  socket'[s].is_connected /\ socket'[s].descriptor = socket[s].descriptor
  <2>1. CASE S!Listen(t)
    BY <1>1, <2>1 DEF S!Listen, S!SocketObject
  <2>2. CASE \E peer \in Peers : S!ConnectFails(t, peer)
    BY <1>1, <2>2 DEF S!ConnectFails, S!SocketObject
  <2>3. ASSUME NEW flag \in BOOLEAN, S!SetBlocking(t, flag)
        PROVE  socket'[s].is_connected /\ socket'[s].descriptor = socket[s].descriptor
    <3>1. socket' = socket \/ socket' = [socket EXCEPT ![t].is_blocking = flag]
      BY <2>3 DEF S!SetBlocking
    <3> QED
      BY <1>1, <1>2, <3>1 DEF S!SocketObject
  <2> QED
    BY <1>4, <2>1, <2>2, <2>3
<1>5. ASSUME NEW t, NEW d, \E count : S!Take(t, d, count)
      PROVE  socket'[s].is_connected /\ socket'[s].descriptor = socket[s].descriptor
  BY <1>1, <1>5 DEF S!Take, S!SocketObject
<1>6. ASSUME NEW t \in Sockets, NEW size \in S!Sizes, NEW b \in Datas, S!Receive(t, size, b)
      PROVE  socket'[s].is_connected /\ socket'[s].descriptor = socket[s].descriptor
  BY <1>2, <1>5, <1>6 DEF S!Receive
<1>7. CASE S!ReceiveAllTurn
  BY <1>2, <1>5, <1>7 DEF S!ReceiveAllTurn
<1>8. CASE /\ S!Next /\ ~S!ReceiveAllTurn
           /\ \A t \in Sockets :
                /\ \A size \in S!Sizes, b \in Datas : ~S!Receive(t, size, b)
                /\ ~(\/ \E type \in S!Types : S!Open(t, type)
                     \/ S!Close(t)
                     \/ \E peer \in Peers, d \in Descriptors : S!Connect(t, peer, d))
                /\ ~(\/ \E flag \in BOOLEAN : S!SetBlocking(t, flag)
                     \/ S!Listen(t)
                     \/ \E peer \in Peers : S!ConnectFails(t, peer))
  <2>1. socket' = socket
    BY <1>8
    DEF S!Next, S!NothingSent, S!Send, S!SendAll, S!ReceiveAll, S!SendAllTurn, S!Release,
        S!Arrive, S!PeerCloses
  <2> QED
    BY <1>2, <2>1
<1> QED
  BY <1>2, <1>3, <1>4, <1>6, <1>7, <1>8 DEF socketVars

\* However opening, connecting, failing and closing follow each other, every descriptor
\* belongs to one socket, which tells its mode and keeps it until it is closed; and
\* every buffer of a receive is with the script, released, or being filled.
THEOREM SocketsAreOwned == Spec => SocketsOwned
<1>1. SInv => S!DescriptorsOwned /\ S!ModeAgrees /\ S!BuffersAccounted
  BY OwnInvImplies DEF SInv, OwnInv, CallInv
<1>2. SInv /\ [Next]_vars =>
        [\A s \in Sockets : socket[s] # nil /\ S!Connected(s) /\ socket'[s] # nil =>
           socket'[s].is_connected /\ socket'[s].descriptor = socket[s].descriptor]_S!vars
  BY Alone, OneConnection
<1> QED
  BY <1>1, <1>2, SocketInvariant, PTL DEF Spec, SocketsOwned, S!OneConnectionPerSocket

\* What was sent is the begin of the buffer, each byte once, to one peer; what was
\* received fills the buffer without a gap, in the order of arrival.
THEOREM TransfersAreInOrder == Spec => []TransfersInOrder
<1>1. SInv => S!SentOnceInOrder
  <2> SUFFICES ASSUME SInv PROVE S!SentOnceInOrder
    OBVIOUS
  <2>1. PICK peer \in Peers : wire = SentTo(peer, Sent)
    BY DEF SInv, SentInv
  <2>2. Sent \in Nat
    BY SocketAssumption DEF SInv, CallInv, CallRecord, S!Sizes, Sent
  <2>3. Len(wire) = Sent
    BY <2>1, <2>2, SentIsSeq
  <2>4. wire = [i \in 1..Len(wire) |-> [to |-> peer, at |-> i]]
    BY <2>1, <2>3 DEF SentTo
  <2>5. call.op \in {"send", "send_all"} => Len(wire) = call.total
    BY <2>3 DEF Sent
  <2> QED
    BY <2>4, <2>5 DEF SInv, SentInv, S!SentOnceInOrder
<1>2. SInv => S!ReceivedInOrder
  <2> SUFFICES ASSUME SInv PROVE S!ReceivedInOrder
    OBVIOUS
  <2>1. \A i \in 1..Size :
          i <= call.total /\ call.op \in {"receive", "receive_all"} <=> memory[i] # nil
    BY DEF SInv, ReceivedInv, Ordered, Received
  <2>2. \A i \in 1..(Size - 1) : memory[i + 1] # nil => Follows(memory[i], memory[i + 1])
    BY DEF SInv, ReceivedInv, Ordered
  <2> QED
    BY <2>1, <2>2 DEF SInv, ReceivedInv, S!ReceivedInOrder, Follows
<1> QED
  BY <1>1, <1>2, SocketInvariant, PTL DEF TransfersInOrder

-----------------------------------------------------------------------------
(* ByteBuffer *)

Entry == [at : Nat, type : B!Types, value : Int]

\* The bytes of a value are found where it was put.
Placed(entry, memory_, endian) ==
    \E number \in Nat :
      /\ entry.value = B!Wrap(entry.type, number)
      /\ \A place \in 0..(entry.type.width - 1) :
           memory_[entry.at + place] = B!Encode(endian, entry.type, number)[place]

Fits(entry, object) ==
    /\ entry \in Entry /\ entry.at + entry.type.width <= object.capacity
    /\ Placed(entry, object.memory, object.endian)

\* A buffer reads and writes within its capacity, and holds the values which its
\* script has written and not overwritten.
Sound(object) ==
    /\ object \in B!BufferObject
    /\ object.read <= object.capacity /\ object.write <= object.capacity
    /\ object.memory \in [0..(object.capacity - 1) -> 0..(Base - 1)]

Good(object, entries) ==
    \/ object = nil /\ entries = {}
    \/ Sound(object) /\ \A entry \in entries : Fits(entry, object)

BInv ==
    /\ buffer = [b \in Buffers |-> buffer[b]] /\ intact = [b \in Buffers |-> intact[b]]
    /\ \A b \in Buffers : Good(buffer[b], intact[b])

\* The bytes of a number are bytes, and its value in a type is a number.
LEMMA EncodeType ==
    ASSUME NEW endian, NEW type \in B!Types, NEW number \in Nat
    PROVE  /\ B!Encode(endian, type, number) \in [0..(type.width - 1) -> 0..(Base - 1)]
           /\ B!Wrap(type, number) \in Int
<1> DEFINE width == type.width
           power == Base ^ width
           rest == number % power
<1>1. width \in Widths /\ width \in Nat \ {0} /\ Base \in Nat \ {0}
  BY ByteBufferAssumption DEF B!Types
<1>2. power \in Nat \ {0} /\ \A place \in 0..width : Base ^ place \in Nat \ {0}
  <2>1. width \in 0..width
    BY <1>1
  <2> QED
    BY <1>1, <2>1, PowersAreNumbers
<1>3. rest \in Nat /\ power \in Int
  <2> HIDE DEF power
  <2> QED
    BY <1>2
<1>4. ASSUME NEW place \in 0..(width - 1)
      PROVE  (rest \div B!Weight(endian, width, place)) % Base \in 0..(Base - 1)
  <2> DEFINE weight == B!Weight(endian, width, place)
  <2>1. place \in 0..width /\ width - 1 - place \in 0..width
    BY <1>1
  <2>2. weight \in Nat \ {0}
    BY <1>2, <2>1 DEF B!Weight
  <2> HIDE DEF weight, rest, width
  <2>3. rest \div weight \in Int
    BY <1>3, <2>2
  <2> QED
    BY <1>1, <2>3 DEF weight
<1>5. B!Wrap(type, number) \in {rest, rest - power}
  BY DEF B!Wrap
<1>6. B!Wrap(type, number) \in Int
  <2> HIDE DEF rest, power
  <2> QED
    BY <1>3, <1>5
<1> QED
  BY <1>4, <1>6 DEF B!Encode

\* The order of the bytes matters to none of the endians of one order, and not to
\* a number of one byte.
LEMMA EncodeAgrees ==
    ASSUME NEW e1, NEW e2, NEW type \in B!Types, NEW number,
           B!Order(e1) = B!Order(e2) \/ type.width = 1
    PROVE  B!Encode(e1, type, number) = B!Encode(e2, type, number)
<1>1. type.width \in Nat \ {0}
  BY ByteBufferAssumption DEF B!Types
<1>2. ASSUME NEW place \in 0..(type.width - 1)
      PROVE  B!Weight(e1, type.width, place) = B!Weight(e2, type.width, place)
  <2>1. type.width = 1 => type.width - 1 - place = place
    <3> SUFFICES ASSUME type.width = 1 PROVE type.width - 1 - place = place
      OBVIOUS
    <3>1. place = 0 /\ type.width - 1 = 0
      BY <1>1
    <3>2. place - place = 0 /\ place \in Int
      BY <3>1
    <3> QED
      BY <3>1, <3>2
  <2> QED
    BY <2>1 DEF B!Weight
<1> QED
  BY <1>2 DEF B!Encode

LEMMA BufferInit == B!Init => BInv
BY DEF B!Init, BInv, Good

\* A new buffer.
LEMMA NewIsSound ==
    ASSUME NEW endian \in B!Endians, NEW capacity \in 0..Capacity
    PROVE  Sound(B!New(endian, capacity))
<1> DEFINE new == B!New(endian, capacity)
           zero == [i \in 0..(capacity - 1) |-> 0]
<1>1. zero \in [0..(capacity - 1) -> 0..(Base - 1)] /\ 0 \in 0..capacity /\ 0 \in 0..Capacity
  BY ByteBufferAssumption
<1>2. /\ new.endian = endian /\ new.capacity = capacity /\ new.memory = zero
      /\ new.read = 0 /\ new.write = 0
      /\ new = [endian |-> endian, capacity |-> capacity, memory |-> zero, read |-> 0, write |-> 0]
  BY DEF B!New
<1> HIDE DEF zero
<1>3. new \in B!BufferObject
  BY <1>1, <1>2 DEF B!BufferObject
<1> QED
  BY <1>1, <1>2, <1>3, ByteBufferAssumption DEF Sound

\* A step that changes one buffer.
LEMMA OneBuffer ==
    ASSUME BInv, NEW b \in Buffers, NEW object, NEW entries,
           buffer' = [buffer EXCEPT ![b] = object],
           intact' = [intact EXCEPT ![b] = entries],
           Good(object, entries)
    PROVE  BInv'
<1>1. /\ buffer' = [x \in Buffers |-> buffer'[x]] /\ intact' = [x \in Buffers |-> intact'[x]]
      /\ buffer'[b] = object /\ intact'[b] = entries
      /\ \A x \in Buffers : x # b => buffer'[x] = buffer[x] /\ intact'[x] = intact[x]
  BY DEF BInv
<1> QED
  BY <1>1 DEF BInv, Good, Sound, Fits, Placed

\* A buffer that is there, and what a place moved in it leaves of it.
LEMMA LiveBuffer ==
    ASSUME BInv, NEW b \in Buffers, buffer[b] # nil
    PROVE  /\ Sound(buffer[b]) /\ \A entry \in intact[b] : Fits(entry, buffer[b])
           /\ buffer[b].capacity \in Nat /\ buffer[b].read \in Nat /\ buffer[b].write \in Nat
           /\ intact = [intact EXCEPT ![b] = intact[b]]
<1>1. Good(buffer[b], intact[b])
  BY DEF BInv
<1>2. Sound(buffer[b]) /\ \A entry \in intact[b] : Fits(entry, buffer[b])
  BY <1>1 DEF Good
<1> QED
  BY <1>2, ByteBufferAssumption DEF BInv, Sound, B!BufferObject

LEMMA PlacesMoved ==
    ASSUME BInv, NEW b \in Buffers, buffer[b] # nil, NEW object,
           object \in B!BufferObject, object.capacity = buffer[b].capacity,
           object.memory = buffer[b].memory, object.endian = buffer[b].endian,
           object.read <= object.capacity, object.write <= object.capacity,
           buffer' = [buffer EXCEPT ![b] = object], intact' = intact
    PROVE  BInv'
<1>1. Sound(object) /\ \A entry \in intact[b] : Fits(entry, object)
  BY LiveBuffer DEF Sound, Fits
<1> QED
  BY <1>1, LiveBuffer, OneBuffer DEF Good

LEMMA BufferAllocates ==
    ASSUME BInv, NEW b \in Buffers,
           \/ \E endian \in B!Endians, capacity \in 1..Capacity : B!Allocate(b, endian, capacity)
           \/ B!Release(b)
    PROVE  BInv'
<1>1. ASSUME NEW endian \in B!Endians, NEW capacity \in 1..Capacity,
             B!Allocate(b, endian, capacity)
      PROVE  BInv'
  <2>1. /\ buffer[b] = nil /\ buffer' = [buffer EXCEPT ![b] = B!New(endian, capacity)]
        /\ intact' = intact
    BY <1>1 DEF B!Allocate, B!Live
  <2>2. Sound(B!New(endian, capacity))
    BY NewIsSound, ByteBufferAssumption
  <2>3. intact[b] = {} /\ intact = [intact EXCEPT ![b] = {}]
    <3>1. ~Sound(nil)
      BY NilIsNoRecord DEF Sound
    <3>2. Good(nil, intact[b])
      BY <2>1 DEF BInv
    <3> QED
      BY <3>1, <3>2 DEF BInv, Good
  <2> QED
    BY <2>1, <2>2, <2>3, OneBuffer DEF Good
<1>2. CASE B!Release(b)
  BY <1>2, OneBuffer DEF B!Release, Good
<1> QED
  BY <1>1, <1>2

LEMMA BufferSeeks ==
    ASSUME BInv, NEW b \in Buffers, NEW offset \in 0..Capacity,
           B!SetReadOffset(b, offset) \/ B!SetWriteOffset(b, offset)
    PROVE  BInv'
<1>1. /\ buffer[b] # nil /\ offset <= buffer[b].capacity /\ intact' = intact
      /\ \/ buffer' = [buffer EXCEPT ![b].read = offset]
         \/ buffer' = [buffer EXCEPT ![b].write = offset]
  BY DEF B!SetReadOffset, B!SetWriteOffset, B!Live
<1>2. buffer[b] \in B!BufferObject /\ buffer[b].read <= buffer[b].capacity
        /\ buffer[b].write <= buffer[b].capacity
  BY <1>1, LiveBuffer DEF Sound
<1>3. CASE buffer' = [buffer EXCEPT ![b].read = offset]
  <2> DEFINE object == [buffer[b] EXCEPT !.read = offset]
  <2>1. /\ object \in B!BufferObject /\ object.capacity = buffer[b].capacity
        /\ object.memory = buffer[b].memory /\ object.endian = buffer[b].endian
        /\ object.read = offset /\ object.write = buffer[b].write
    BY <1>2 DEF B!BufferObject
  <2> HIDE DEF object
  <2>2. buffer' = [buffer EXCEPT ![b] = object]
    BY <1>3 DEF object
  <2> QED
    BY <1>1, <1>2, <2>1, <2>2, PlacesMoved
<1>4. CASE buffer' = [buffer EXCEPT ![b].write = offset]
  <2> DEFINE object == [buffer[b] EXCEPT !.write = offset]
  <2>1. /\ object \in B!BufferObject /\ object.capacity = buffer[b].capacity
        /\ object.memory = buffer[b].memory /\ object.endian = buffer[b].endian
        /\ object.write = offset /\ object.read = buffer[b].read
    BY <1>2 DEF B!BufferObject
  <2> HIDE DEF object
  <2>2. buffer' = [buffer EXCEPT ![b] = object]
    BY <1>4 DEF object
  <2> QED
    BY <1>1, <1>2, <2>1, <2>2, PlacesMoved
<1> QED
  BY <1>1, <1>3, <1>4

LEMMA BufferReadsInteger ==
    ASSUME BInv, NEW b \in Buffers, NEW type \in B!Types, B!ReadInteger(b, type)
    PROVE  BInv'
<1>1. /\ buffer[b] # nil /\ intact' = intact
      /\ \/ buffer' = buffer
         \/ /\ buffer[b].read + type.width <= buffer[b].capacity
            /\ buffer' = [buffer EXCEPT ![b].read = buffer[b].read + type.width]
  BY DEF B!ReadInteger, B!Live
<1>2. /\ buffer[b] \in B!BufferObject /\ buffer[b].write <= buffer[b].capacity
      /\ buffer[b].read \in Nat /\ buffer[b].capacity \in 0..Capacity
  BY <1>1, LiveBuffer DEF Sound, B!BufferObject
<1>3. CASE buffer' = buffer
  BY <1>1, <1>3 DEF BInv, Good, Sound, Fits, Placed
<1>4. CASE /\ buffer[b].read + type.width <= buffer[b].capacity
           /\ buffer' = [buffer EXCEPT ![b].read = buffer[b].read + type.width]
  <2> DEFINE next == buffer[b].read + type.width
             object == [buffer[b] EXCEPT !.read = next]
  <2>1. next \in 0..Capacity /\ next <= buffer[b].capacity
    <3>1. type.width \in Nat
      BY ByteBufferAssumption DEF B!Types
    <3> QED
      BY <1>2, <1>4, <3>1, ByteBufferAssumption
  <2>2. buffer' = [buffer EXCEPT ![b] = object]
    BY <1>4
  <2> HIDE DEF next
  <2>3. /\ object \in B!BufferObject /\ object.capacity = buffer[b].capacity
        /\ object.memory = buffer[b].memory /\ object.endian = buffer[b].endian
        /\ object.read = next /\ object.write = buffer[b].write
    BY <1>2, <2>1 DEF B!BufferObject
  <2> HIDE DEF object
  <2> QED
    BY <1>1, <1>2, <2>1, <2>2, <2>3, PlacesMoved
<1> QED
  BY <1>1, <1>3, <1>4

\* A buffer has room for count bytes at a place.
Room(object, at, count, bytes) ==
    /\ Sound(object) /\ at \in Nat /\ count \in Nat /\ at + count <= object.capacity
    /\ \A i \in 0..(count - 1) : bytes[i] \in 0..(Base - 1)

\* Bytes stored in a buffer are where they were put, and all others stay.
LEMMA StoredBytes ==
    ASSUME NEW object, NEW at, NEW count, NEW bytes, Room(object, at, count, bytes)
    PROVE  /\ B!Stored(object.memory, at, bytes, count)
                \in [0..(object.capacity - 1) -> 0..(Base - 1)]
           /\ \A i \in 0..(count - 1) : B!Stored(object.memory, at, bytes, count)[at + i] = bytes[i]
           /\ \A i \in 0..(object.capacity - 1) : ~(at <= i /\ i < at + count) =>
                B!Stored(object.memory, at, bytes, count)[i] = object.memory[i]
<1> USE DEF Room
<1> DEFINE capacity == object.capacity
           m == object.memory
           f == B!Stored(m, at, bytes, count)
<1>1. capacity \in Nat /\ m \in [0..(capacity - 1) -> 0..(Base - 1)]
  BY ByteBufferAssumption DEF Sound, B!BufferObject
<1>2. f = [i \in 0..(capacity - 1) |-> IF i \in at .. at + count - 1 THEN bytes[i - at] ELSE m[i]]
  BY <1>1 DEF B!Stored
<1>3. at + count <= capacity
  OBVIOUS
<1> HIDE DEF f, m, capacity
<1>4. \A i \in 0..(capacity - 1) : ~(at <= i /\ i < at + count) => f[i] = m[i]
  BY <1>1, <1>2
<1>5. \A i \in 0..(count - 1) : f[at + i] = bytes[i]
  <2> SUFFICES ASSUME NEW i \in 0..(count - 1) PROVE f[at + i] = bytes[i]
    OBVIOUS
  <2>1. at + i \in 0..(capacity - 1) /\ at + i \in at .. at + count - 1 /\ (at + i) - at = i
    BY <1>1, <1>3
  <2> QED
    BY <1>2, <2>1
<1>6. ASSUME NEW i \in 0..(capacity - 1) PROVE f[i] \in 0..(Base - 1)
  <2>1. CASE at <= i /\ i < at + count
    <3>1. i - at \in 0..(count - 1) /\ at + (i - at) = i
      BY <1>1, <2>1
    <3> QED
      BY <1>5, <3>1
  <2>2. CASE ~(at <= i /\ i < at + count)
    BY <1>1, <1>4, <2>2
  <2> QED
    BY <2>1, <2>2
<1> QED
  BY <1>2, <1>4, <1>5, <1>6 DEF f, m, capacity

\* A value whose bytes were not overwritten is still there ...
LEMMA StillFits ==
    ASSUME NEW entry, NEW old, NEW new, Fits(entry, old), NEW at \in Nat, NEW count \in Nat,
           new.capacity = old.capacity, new.endian = old.endian, old.capacity \in Nat,
           \A i \in 0..(old.capacity - 1) : ~(at <= i /\ i < at + count) =>
             new.memory[i] = old.memory[i],
           ~B!Overlaps(entry, at, count)
    PROVE  Fits(entry, new)
<1> DEFINE width == entry.type.width
<1>1. entry \in Entry /\ entry.at \in Nat /\ width \in Nat /\ entry.at + width <= old.capacity
  BY ByteBufferAssumption DEF Fits, Entry, B!Types
<1>2. entry.at >= at + count \/ at >= entry.at + width
  BY <1>1 DEF B!Overlaps
<1>3. PICK number \in Nat :
        /\ entry.value = B!Wrap(entry.type, number)
        /\ \A place \in 0..(width - 1) :
             old.memory[entry.at + place] = B!Encode(old.endian, entry.type, number)[place]
  BY DEF Fits, Placed
<1>4. ASSUME NEW place \in 0..(width - 1)
      PROVE  new.memory[entry.at + place] = old.memory[entry.at + place]
  <2>1. /\ entry.at + place \in 0..(old.capacity - 1)
        /\ ~(at <= entry.at + place /\ entry.at + place < at + count)
    BY <1>1, <1>2
  <2> QED
    BY <2>1
<1>5. Placed(entry, new.memory, new.endian)
  BY <1>3, <1>4 DEF Placed
<1> QED
  BY <1>1, <1>5 DEF Fits

\* The bytes of a value are copied from one buffer into another.
Copied(entry, old, new, from, to, count, offset) ==
    /\ Fits(entry, old)
    /\ from \in Nat /\ to \in Nat /\ count \in Nat /\ offset = to - from
    /\ entry.at >= from /\ entry.at + entry.type.width <= from + count
    /\ new.capacity \in Nat /\ to + count <= new.capacity
    /\ \A i \in 0..(count - 1) : new.memory[to + i] = old.memory[from + i]
    /\ B!Order(new.endian) = B!Order(old.endian) \/ entry.type.width = 1

\* ... and one whose bytes were copied is also where they were put.
LEMMA MovedFits ==
    ASSUME NEW entry, NEW old, NEW new, NEW from, NEW to, NEW count, NEW offset,
           Copied(entry, old, new, from, to, count, offset)
    PROVE  Fits([entry EXCEPT !.at = entry.at + offset], new)
<1> USE DEF Copied
<1> DEFINE width == entry.type.width
           moved == [entry EXCEPT !.at = entry.at + offset]
<1>1. /\ entry \in Entry /\ entry.at \in Nat /\ width \in Nat /\ entry.type \in B!Types
  BY ByteBufferAssumption DEF Fits, Entry, B!Types
<1>2. entry.at + offset \in Nat /\ entry.at + offset + width <= new.capacity
  BY <1>1
<1>3. /\ moved \in Entry /\ moved.at = entry.at + offset /\ moved.type = entry.type
      /\ moved.value = entry.value
  BY <1>1, <1>2 DEF Entry
<1> HIDE DEF moved
<1>4. PICK number \in Nat :
        /\ entry.value = B!Wrap(entry.type, number)
        /\ \A place \in 0..(width - 1) :
             old.memory[entry.at + place] = B!Encode(old.endian, entry.type, number)[place]
  BY DEF Fits, Placed
<1>5. B!Encode(new.endian, entry.type, number) = B!Encode(old.endian, entry.type, number)
  BY <1>1, EncodeAgrees
<1>6. ASSUME NEW place \in 0..(width - 1)
      PROVE  new.memory[moved.at + place] = old.memory[entry.at + place]
  <2> DEFINE i == entry.at + place - from
  <2>1. i \in 0..(count - 1) /\ to + i = moved.at + place /\ from + i = entry.at + place
    BY <1>1, <1>3
  <2> HIDE DEF i
  <2> QED
    BY <2>1
<1>7. Placed(moved, new.memory, new.endian)
  BY <1>3, <1>4, <1>5, <1>6 DEF Placed
<1> QED
  BY <1>2, <1>3, <1>7 DEF Fits, moved

\* A buffer that gets count bytes at its place to write.
Put(object, count, bytes) ==
    [object EXCEPT !.memory = B!Stored(object.memory, object.write, bytes, count),
                   !.write = object.write + count]

LEMMA BytesPut ==
    ASSUME NEW object, NEW count, NEW bytes, Room(object, object.write, count, bytes)
    PROVE  /\ Sound(Put(object, count, bytes))
           /\ Put(object, count, bytes).capacity = object.capacity
           /\ Put(object, count, bytes).endian = object.endian
           /\ \A i \in 0..(count - 1) : Put(object, count, bytes).memory[object.write + i] = bytes[i]
           /\ \A entry : Fits(entry, object) /\ ~B!Overlaps(entry, object.write, count)
                           => Fits(entry, Put(object, count, bytes))
<1> DEFINE new == Put(object, count, bytes)
           at == object.write
           stored == B!Stored(object.memory, at, bytes, count)
           next == at + count
<1>1. /\ object \in B!BufferObject /\ at \in Nat /\ object.capacity \in Nat
      /\ object.capacity <= Capacity /\ object.read <= object.capacity
      /\ count \in Nat /\ at + count <= object.capacity
  BY ByteBufferAssumption DEF Room, Sound, B!BufferObject
<1>2. /\ stored \in [0..(object.capacity - 1) -> 0..(Base - 1)]
      /\ \A i \in 0..(count - 1) : stored[at + i] = bytes[i]
      /\ \A i \in 0..(object.capacity - 1) : ~(at <= i /\ i < at + count) =>
           stored[i] = object.memory[i]
  BY StoredBytes
<1>3. next \in 0..Capacity /\ next <= object.capacity
  BY <1>1, ByteBufferAssumption
<1> HIDE DEF stored, next
<1>4. new = [object EXCEPT !.memory = stored, !.write = next]
  BY DEF stored, next, Put
<1> HIDE DEF new
<1>5. /\ new.memory = stored /\ new.write = next /\ new.read = object.read
      /\ new.capacity = object.capacity /\ new.endian = object.endian
      /\ new = [endian |-> object.endian, capacity |-> object.capacity, memory |-> stored,
                read |-> object.read, write |-> next]
  BY <1>1, <1>4 DEF B!BufferObject
<1>6. new \in B!BufferObject
  <2>1. object.capacity \in 0..Capacity
    BY <1>1 DEF B!BufferObject
  <2>2. stored \in UNION {[0..(capacity - 1) -> 0..(Base - 1)] : capacity \in 0..Capacity}
    BY <1>2, <2>1
  <2> QED
    BY <1>1, <1>3, <1>5, <2>2 DEF B!BufferObject
<1>7. Sound(new)
  BY <1>1, <1>2, <1>3, <1>5, <1>6 DEF Sound
<1>8. ASSUME NEW entry, Fits(entry, object), ~B!Overlaps(entry, at, count)
      PROVE  Fits(entry, new)
  <2>1. \A i \in 0..(object.capacity - 1) : ~(at <= i /\ i < at + count) =>
          new.memory[i] = object.memory[i]
    BY <1>2, <1>5
  <2> QED
    BY <1>1, <1>5, <1>8, <2>1, StillFits, ZenonT(30)
<1> QED
  BY <1>2, <1>5, <1>7, <1>8 DEF new

LEMMA BufferWritesInteger ==
    ASSUME BInv, NEW b \in Buffers, NEW type \in B!Types, NEW number \in Values,
           B!WriteInteger(b, type, number)
    PROVE  BInv'
<1> DEFINE object == buffer[b]
           at == object.write
           bytes == B!Encode(object.endian, type, number)
           new == Put(object, type.width, bytes)
           written == [at |-> at, type |-> type, value |-> B!Wrap(type, number)]
           kept == {e \in intact[b] : ~B!Overlaps(e, at, type.width)}
<1>1. /\ object # nil
      /\ IF at + type.width <= object.capacity
           THEN /\ buffer' = [buffer EXCEPT
                     ![b].memory = B!Stored(object.memory, at, bytes, type.width),
                     ![b].write = at + type.width]
                /\ intact' = [intact EXCEPT ![b] = kept \cup {written}]
           ELSE UNCHANGED <<buffer, intact>>
  BY DEF B!WriteInteger, B!Live
<1>2. /\ Sound(object) /\ \A entry \in intact[b] : Fits(entry, object)
      /\ at \in Nat /\ object.capacity \in Nat
  BY <1>1, LiveBuffer
<1>3. type.width \in Nat /\ number \in Nat
  BY ByteBufferAssumption DEF B!Types
<1>4. bytes \in [0..(type.width - 1) -> 0..(Base - 1)] /\ B!Wrap(type, number) \in Int
  BY <1>3, EncodeType
<1>5. CASE UNCHANGED <<buffer, intact>>
  BY <1>5 DEF BInv, Good, Sound, Fits, Placed
<1>6. CASE at + type.width <= object.capacity
  <2>1. buffer' = [buffer EXCEPT ![b] = new]
    <3> DEFINE stored == B!Stored(object.memory, at, bytes, type.width)
               next == at + type.width
               o1 == [object EXCEPT !.memory = stored]
    <3>1. buffer' = [buffer EXCEPT ![b].memory = stored, ![b].write = next]
      BY <1>1, <1>6
    <3> HIDE DEF stored, next
    <3>2. [buffer EXCEPT ![b].memory = stored] = [buffer EXCEPT ![b] = o1]
      OBVIOUS
    <3>3. [[buffer EXCEPT ![b] = o1] EXCEPT ![b].write = next]
            = [buffer EXCEPT ![b] = [o1 EXCEPT !.write = next]]
      BY DEF BInv
    <3>4. new = [o1 EXCEPT !.write = next]
      BY DEF stored, next, Put
    <3> QED
      BY <3>1, <3>2, <3>3, <3>4
  <2>2. /\ Sound(new) /\ new.capacity = object.capacity /\ new.endian = object.endian
        /\ \A i \in 0..(type.width - 1) : new.memory[at + i] = bytes[i]
        /\ \A entry : Fits(entry, object) /\ ~B!Overlaps(entry, at, type.width)
                        => Fits(entry, new)
    <3>1. Room(object, at, type.width, bytes)
      BY <1>2, <1>3, <1>4, <1>6 DEF Room
    <3> HIDE DEF object, bytes
    <3> QED
      BY <3>1, BytesPut
  <2> HIDE DEF new
  <2>3. Fits(written, new)
    <3>1. /\ written \in Entry /\ written.at = at /\ written.type = type
          /\ written.value = B!Wrap(type, number)
      BY <1>2, <1>4 DEF Entry
    <3> HIDE DEF written
    <3>2. Placed(written, new.memory, new.endian)
      BY <1>3, <2>2, <3>1 DEF Placed
    <3> QED
      BY <1>6, <2>2, <3>1, <3>2 DEF Fits
  <2>4. \A entry \in kept \cup {written} : Fits(entry, new)
    BY <1>2, <2>2, <2>3
  <2>5. Good(new, kept \cup {written})
    BY <2>2, <2>4 DEF Good
  <2>6. intact' = [intact EXCEPT ![b] = kept \cup {written}]
    BY <1>1, <1>6
  <2> QED
    BY <2>1, <2>5, <2>6, OneBuffer
<1> QED
  BY <1>1, <1>5, <1>6

\* What is moved with the bytes it lies in.
LEMMA MovedEntries ==
    ASSUME NEW entries, NEW at \in Nat, NEW count \in Nat, NEW offset, NEW new,
           \A e \in entries : e \in Entry,
           \A e \in entries : e.at >= at /\ e.at + e.type.width <= at + count
                               => Fits([e EXCEPT !.at = e.at + offset], new)
    PROVE  \A entry \in B!Moved(entries, at, count, offset) : Fits(entry, new)
BY DEF B!Moved

LEMMA BufferWrites ==
    ASSUME BInv, NEW b \in Buffers, NEW source \in Buffers, NEW size \in 0..Capacity,
           B!Write(b, source, size)
    PROVE  BInv'
<1> DEFINE object == buffer[b]
           other == buffer[source]
           at == object.write
           new == Put(object, size, other.memory)
           kept == {e \in intact[source] : B!Order(object.endian) = B!Order(other.endian)
                                             \/ e.type.width = 1}
           entries == {e \in intact[b] : ~B!Overlaps(e, at, size)} \cup B!Moved(kept, 0, size, at)
<1>1. /\ object # nil /\ other # nil /\ size <= other.capacity
      /\ IF at + size <= object.capacity
           THEN /\ buffer' = [buffer EXCEPT
                     ![b].memory = B!Stored(object.memory, at, other.memory, size),
                     ![b].write = at + size]
                /\ intact' = [intact EXCEPT ![b] = entries]
           ELSE UNCHANGED <<buffer, intact>>
  BY DEF B!Write, B!Live
<1>2. /\ Sound(object) /\ (\A entry \in intact[b] : Fits(entry, object))
      /\ at \in Nat /\ object.capacity \in Nat
      /\ Sound(other) /\ (\A entry \in intact[source] : Fits(entry, other))
      /\ other.capacity \in Nat /\ size \in Nat
  BY <1>1, LiveBuffer, ByteBufferAssumption
<1>3. CASE UNCHANGED <<buffer, intact>>
  BY <1>3 DEF BInv, Good, Sound, Fits, Placed
<1>4. CASE at + size <= object.capacity
  <2>1. buffer' = [buffer EXCEPT ![b] = new]
    <3> DEFINE stored == B!Stored(object.memory, at, other.memory, size)
               next == at + size
               o1 == [object EXCEPT !.memory = stored]
    <3>1. buffer' = [buffer EXCEPT ![b].memory = stored, ![b].write = next]
      BY <1>1, <1>4
    <3> HIDE DEF stored, next
    <3>2. [buffer EXCEPT ![b].memory = stored] = [buffer EXCEPT ![b] = o1]
      OBVIOUS
    <3>3. [[buffer EXCEPT ![b] = o1] EXCEPT ![b].write = next]
            = [buffer EXCEPT ![b] = [o1 EXCEPT !.write = next]]
      BY DEF BInv
    <3>4. new = [o1 EXCEPT !.write = next]
      BY DEF stored, next, Put
    <3> QED
      BY <3>1, <3>2, <3>3, <3>4
  <2>2. intact' = [intact EXCEPT ![b] = entries]
    BY <1>1, <1>4
  <2> HIDE DEF object, other, new
  <2>3. Room(object, at, size, other.memory)
    BY <1>1, <1>2, <1>4 DEF Room, Sound
  <2> DEFINE bytes == other.memory
  <2>4. /\ Sound(new) /\ new.capacity = object.capacity /\ new.endian = object.endian
        /\ \A i \in 0..(size - 1) : new.memory[at + i] = other.memory[i]
        /\ \A entry : Fits(entry, object) /\ ~B!Overlaps(entry, at, size) => Fits(entry, new)
    BY <2>3, BytesPut DEF new
  <2>5. ASSUME NEW e \in kept, e.at >= 0, e.at + e.type.width <= 0 + size
        PROVE  Fits([e EXCEPT !.at = e.at + at], new)
    <3>1. \A i \in 0..(size - 1) : new.memory[at + i] = other.memory[0 + i]
      BY <2>4
    <3>2. at = at - 0 /\ 0 \in Nat
      BY <1>2
    <3>3. Copied(e, other, new, 0, at, size, at)
      BY <1>2, <1>4, <2>4, <2>5, <3>1, <3>2 DEF Copied
    <3> QED
      BY <3>3, MovedFits
  <2>6. \A e \in kept : e \in Entry
    BY <1>2 DEF Fits
  <2>7. \A entry \in B!Moved(kept, 0, size, at) : Fits(entry, new)
    <3> HIDE DEF kept
    <3> QED
      BY <1>2, <2>5, <2>6, MovedEntries
  <2>8. Good(new, entries)
    BY <1>2, <2>4, <2>7 DEF Good
  <2> QED
    BY <2>1, <2>2, <2>8, OneBuffer
<1> QED
  BY <1>1, <1>3, <1>4

LEMMA BufferReads ==
    ASSUME BInv, NEW b \in Buffers, NEW other \in Buffers, NEW size \in 0..Capacity,
           B!Read(b, other, size)
    PROVE  BInv'
<1> DEFINE object == buffer[b]
           from == object.read
           got == B!New(object.endian, size)
           cut == [i \in 0..(size - 1) |-> object.memory[from + i]]
           new == [got EXCEPT !.memory = cut]
           next == from + size
           rest == [object EXCEPT !.read = next]
           entries == B!Moved(intact[b], from, size, -from)
<1>1. /\ object # nil /\ buffer[other] = nil
      /\ IF next <= object.capacity
           THEN /\ buffer' = [buffer EXCEPT ![b].read = next, ![other] = new]
                /\ intact' = [intact EXCEPT ![other] = entries]
           ELSE buffer' = [buffer EXCEPT ![other] = got] /\ intact' = intact
  BY DEF B!Read, B!Live
<1>2. /\ Sound(object) /\ (\A entry \in intact[b] : Fits(entry, object))
      /\ from \in Nat /\ object.capacity \in 0..Capacity /\ size \in Nat
      /\ object \in B!BufferObject /\ object.endian \in B!Endians
  BY <1>1, LiveBuffer, ByteBufferAssumption DEF Sound, B!BufferObject
<1>3. Sound(got) /\ got.capacity = size /\ got.endian = object.endian
  BY <1>2, NewIsSound DEF B!New
<1>4. CASE buffer' = [buffer EXCEPT ![other] = got] /\ intact' = intact
  <2>1. intact[other] = {} /\ intact = [intact EXCEPT ![other] = {}]
    <3>1. ~Sound(nil)
      BY NilIsNoRecord DEF Sound
    <3>2. Good(nil, intact[other])
      BY <1>1 DEF BInv
    <3> QED
      BY <3>1, <3>2 DEF BInv, Good
  <2>2. Good(got, {})
    BY <1>3 DEF Good
  <2> QED
    BY <1>4, <2>1, <2>2, OneBuffer
<1>5. CASE next <= object.capacity
  <2>1. /\ b # other /\ buffer' = [buffer EXCEPT ![b] = rest, ![other] = new]
        /\ intact' = [intact EXCEPT ![other] = entries]
    BY <1>1, <1>5
  <2>2. next \in 0..Capacity
    BY <1>2, <1>5, ByteBufferAssumption
  <2>3. cut \in [0..(size - 1) -> 0..(Base - 1)]
    <3>1. \A i \in 0..(size - 1) : from + i \in 0..(object.capacity - 1)
      BY <1>2, <1>5
    <3>2. object.memory \in [0..(object.capacity - 1) -> 0..(Base - 1)]
      BY <1>2 DEF Sound
    <3> QED
      BY <3>1, <3>2
  <2>4. /\ new.memory = cut /\ new.capacity = size /\ new.endian = object.endian
        /\ Sound(new)
    <3>1. got \in B!BufferObject /\ got.read <= size /\ got.write <= size
      BY <1>3 DEF Sound
    <3> HIDE DEF got, cut
    <3>2. /\ new.memory = cut /\ new.capacity = got.capacity /\ new.endian = got.endian
          /\ new.read = got.read /\ new.write = got.write
      BY <3>1 DEF B!BufferObject
    <3>3. cut \in UNION {[0..(capacity - 1) -> 0..(Base - 1)] : capacity \in 0..Capacity}
      BY <2>3
    <3>4. new \in B!BufferObject
      BY <3>1, <3>3 DEF B!BufferObject
    <3> QED
      BY <1>3, <2>3, <3>1, <3>2, <3>4 DEF Sound
  <2> HIDE DEF next
  <2>5. /\ rest.memory = object.memory /\ rest.capacity = object.capacity
        /\ rest.endian = object.endian /\ Sound(rest)
    <3>1. /\ rest.memory = object.memory /\ rest.capacity = object.capacity
          /\ rest.endian = object.endian /\ rest.read = next /\ rest.write = object.write
          /\ rest \in B!BufferObject
      BY <1>2, <2>2 DEF B!BufferObject
    <3> HIDE DEF rest
    <3> QED
      BY <1>2, <1>5, <3>1 DEF Sound
  <2>6. \A i \in 0..(size - 1) : new.memory[0 + i] = object.memory[from + i]
    BY <1>2, <2>4
  <2> HIDE DEF rest, new, got, cut
  <2>7. ASSUME NEW e \in intact[b], e.at >= from, e.at + e.type.width <= from + size
        PROVE  Fits([e EXCEPT !.at = e.at + (-from)], new)
    <3>1. -from = 0 - from /\ 0 \in Nat /\ 0 + size <= size
      BY <1>2
    <3>2. Copied(e, object, new, from, 0, size, -from)
      BY <1>2, <2>4, <2>6, <2>7, <3>1 DEF Copied
    <3> QED
      BY <3>2, MovedFits
  <2>8. \A entry \in entries : Fits(entry, new)
    <3>1. \A e \in intact[b] : e \in Entry
      BY <1>2 DEF Fits
    <3> HIDE DEF object
    <3> QED
      BY <1>2, <2>7, <3>1, MovedEntries
  <2>9. \A entry \in intact[b] : Fits(entry, rest)
    BY <1>2, <2>5 DEF Fits
  <2>10. /\ buffer' = [x \in Buffers |-> buffer'[x]] /\ intact' = [x \in Buffers |-> intact'[x]]
         /\ buffer'[b] = rest /\ intact'[b] = intact[b]
         /\ buffer'[other] = new /\ intact'[other] = entries
         /\ \A x \in Buffers : x # b /\ x # other => buffer'[x] = buffer[x] /\ intact'[x] = intact[x]
    <3> HIDE DEF entries
    <3> QED
      BY <2>1 DEF BInv
  <2>11. Good(rest, intact[b]) /\ Good(new, entries)
    BY <2>4, <2>5, <2>8, <2>9 DEF Good
  <2> HIDE DEF entries
  <2>12. ASSUME NEW x \in Buffers PROVE Good(buffer'[x], intact'[x])
    BY <2>10, <2>11 DEF BInv
  <2> QED
    BY <2>10, <2>12 DEF BInv, Good, Sound, Fits, Placed
<1> QED
  BY <1>1, <1>4, <1>5

LEMMA BufferStep ==
    ASSUME BInv, [B!Next]_bufferVars
    PROVE  BInv'
<1>1. CASE UNCHANGED bufferVars
  BY <1>1 DEF bufferVars, BInv, Good, Sound, Fits, Placed
<1>2. CASE B!Next
  BY <1>2, BufferAllocates, BufferSeeks, BufferReadsInteger, BufferWritesInteger, BufferReads,
     BufferWrites
  DEF B!Next
<1> QED
  BY <1>1, <1>2

LEMMA BufferInvariant == Spec => []BInv
<1>1. Init => BInv
  BY BufferInit DEF Init
<1>2. BInv /\ [Next]_vars => BInv'
  BY Alone, BufferStep
<1> QED
  BY <1>1, <1>2, PTL DEF Spec

\* The bytes of a value that were not overwritten are those it was written with, in
\* the order of the buffer they are in now, at a place within its capacity.
BytesStay ==
    \A b \in B!Live : \A entry \in intact[b] :
      /\ entry.at \in Nat /\ entry.at + entry.type.width <= buffer[b].capacity
      /\ Placed(entry, buffer[b].memory, buffer[b].endian)

\* Whatever was written, cut out and copied in between, in whatever byte order: the
\* bytes of the Write functions are found where they were put.
THEOREM WrittenBytesStay == Spec => []BytesStay
<1>1. BInv => BytesStay
  BY DEF BInv, Good, BytesStay, Fits, Entry, B!Live
<1> QED
  BY <1>1, BufferInvariant, PTL

-----------------------------------------------------------------------------
(* The types of all of them *)

\* No place of a buffer lies beyond its capacity, no socket or descriptor, no stage of
\* loading and no clock leaves its type.
THEOREM TypeCorrect == Spec => []TypeOK
<1>1. BInv => B!TypeOK
  <2> SUFFICES ASSUME BInv PROVE B!TypeOK
    OBVIOUS
  <2>1. buffer \in [Buffers -> B!BufferObject \cup {nil}]
    BY DEF BInv, Good, Sound
  <2>2. ASSUME NEW b \in B!Live
        PROVE  /\ {buffer[b].read, buffer[b].write} \subseteq 0..buffer[b].capacity
               /\ buffer[b].memory \in [0..(buffer[b].capacity - 1) -> 0..(Base - 1)]
    BY LiveBuffer DEF B!Live, Sound
  <2> QED
    BY <2>1, <2>2 DEF B!TypeOK
<1>2. SInv => S!TypeOK
  <2> SUFFICES ASSUME SInv PROVE S!TypeOK
    OBVIOUS
  <2>1. PICK peer \in Peers : wire = SentTo(peer, Sent)
    BY DEF SInv, SentInv
  <2>2. Sent \in 0..Size /\ Sent \in Nat
    BY SocketAssumption DEF SInv, CallInv, CallRecord, S!Sizes, Sent
  <2>3. wire \in Seq([to : Peers, at : 1..Size])
    <3> DEFINE T == [to : Peers, at : 1..Size]
    <3>1. SentTo(peer, Sent) \in [1..Sent -> T]
      <4>1. \A i \in 1..Sent : i \in 1..Size
        BY <2>2, SocketAssumption
      <4> QED
        BY <4>1 DEF SentTo
    <3> HIDE DEF T
    <3>2. SentTo(peer, Sent) \in Seq(T)
      BY <2>2, <3>1, LenOfFunction
    <3> QED
      BY <2>1, <3>2 DEF T
  <2> QED
    BY <2>3
    DEF SInv, OwnInv, SocketsTyped, Mode, BoxInv, Datagram, CallInv, CallRecord, ReceivedInv,
        Ordered, S!TypeOK
<1>3. HInv => H!TypeOK
  BY DEF HInv
<1>4. LInv => L!TypeOK
  BY DEF LInv
<1> QED
  BY <1>1, <1>2, <1>3, <1>4, SocketInvariant, BufferInvariant, HostInvariant, LoopInvariant, PTL
  DEF TypeOK
=============================================================================
