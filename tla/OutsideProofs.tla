---------------------------- MODULE OutsideProofs ----------------------------
(***************************************************************************)
(* Proofs about Outside.  The timers of the gateway are never cancelled,   *)
(* so what is true of chains of updates after the idle state was left has  *)
(* to be said with the time that their timers have left: Aging and         *)
(* Overtaken relate it to the time since then and to the idle time.        *)
(***************************************************************************)
EXTENDS Outside, TLAPS

\* The presence lasts as long as Run, and the idle state no longer.
Present == IF phase = "ended" THEN ~idle ELSE presence

\* After the timers were run none is due.
Waiting == phase \in {"idle", "wait"} => \A c \in Chains : due[c] # 0

\* Once the idle state is left, timers are as old as that.
Aging == ~idle => \A c \in Chains : due[c] # nil => due[c] + away <= Delay

Inv == TypeOK /\ HandleOwned /\ PresenceKeptUp /\ Present /\ Waiting /\ Aging

USE TimesAssumption, NilAssumption

-----------------------------------------------------------------------------
LEMMA InvInit == Init => Inv
<1> SUFFICES ASSUME Init PROVE Inv
  OBVIOUS
<1>1. TypeOK
  <2>1. due \in [Chains -> 0..Delay \cup {nil}] /\ away \in 0..Delay
    BY DEF Init
  <2> QED
    BY <2>1 DEF Init, TypeOK
<1>2. HandleOwned
  BY DEF Init, HandleOwned
<1>3. PresenceKeptUp /\ Present /\ Waiting /\ Aging
  BY DEF Init, PresenceKeptUp, Present, Waiting, Aging
<1> QED
  BY <1>1, <1>2, <1>3 DEF Inv

\* The clock: all that a round changes.
LEMMA InvRound ==
    ASSUME Inv, NEW seconds \in Rounds, Round(seconds)
    PROVE  Inv'
<1>1. seconds \in Nat /\ away \in Nat /\ idleTime \in Nat
  BY DEF Inv, TypeOK
<1>2. away' = Least(away + seconds, Delay) /\ away' \in 0..Delay
  BY <1>1 DEF Round, Least
<1>3. idleTime' \in 0..MinIdleTime
  BY <1>1 DEF Round, Least
<1>4. \A c \in Chains : due[c] = nil => due'[c] = nil
  BY DEF Round
<1>5. \A c \in Chains : due[c] # nil =>
        /\ due[c] \in 0..Delay /\ due'[c] \in 0..Delay
        /\ due'[c] = IF seconds <= due[c] THEN due[c] - seconds ELSE 0
  BY <1>1 DEF Round, Inv, TypeOK, Least
<1>6. TypeOK'
  <2>1. due' \in [Chains -> 0..Delay \cup {nil}]
    BY <1>4, <1>5 DEF Round
  <2> QED
    BY <1>2, <1>3, <2>1 DEF Round, Inv, TypeOK, state, discord
<1>7. HandleOwned' /\ Present' /\ Waiting'
  BY DEF Round, Inv, HandleOwned, Present, Waiting, state, discord
<1>8. PresenceKeptUp'
  BY <1>5 DEF Round, Inv, TypeOK, PresenceKeptUp, state
<1>9. Aging'
  BY <1>1, <1>2, <1>4, <1>5 DEF Round, Inv, Aging, Least, state
<1> QED
  BY <1>6, <1>7, <1>8, <1>9 DEF Inv

\* An update that is over leaves a timer behind.
LEMMA InvUpdateDone ==
    ASSUME Inv, updating # nil, UpdateDone,
           allocated' \subseteq Connections, handle' \in Connections \cup {nil},
           allocated' = {handle'} \ {nil}
    PROVE  Inv'
<1>1. idle /\ autoUpdate /\ updating \in Chains
  BY DEF Inv, TypeOK, PresenceKeptUp
<1>2. due' = [due EXCEPT ![updating] = Delay]
  BY <1>1 DEF UpdateDone
<1>3. due' \in [Chains -> 0..Delay \cup {nil}]
  BY <1>2 DEF Inv, TypeOK
<1>4. TypeOK'
  BY <1>3 DEF UpdateDone, Inv, TypeOK, state, time
<1>5. HandleOwned' /\ Present'
  BY <1>1 DEF UpdateDone, Inv, HandleOwned, PresenceKeptUp, Present, state
<1>6. PresenceKeptUp' /\ Aging'
  BY <1>1, <1>2 DEF UpdateDone, Inv, TypeOK, PresenceKeptUp, Aging, state
<1>7. Waiting'
  BY <1>1, <1>2 DEF UpdateDone, Inv, TypeOK, PresenceKeptUp, Waiting
<1> QED
  BY <1>4, <1>5, <1>6, <1>7 DEF Inv

\* Discord is connected to again while the plugin is idle: the old object is gone.
LEMMA InvReconnect ==
    ASSUME Inv, idle, Reconnect, UNCHANGED <<phase, time, state, due, updating>>
    PROVE  Inv'
<1>1. PICK k \in Connections : allocated' = {k} /\ handle' = k
  BY DEF Inv, HandleOwned, Reconnect
<1>2. TypeOK'
  BY <1>1 DEF Inv, TypeOK, time, state
<1>3. HandleOwned'
  BY <1>1 DEF Inv, HandleOwned, Present, time, state
<1>4. PresenceKeptUp' /\ Present' /\ Waiting' /\ Aging'
  BY DEF Inv, PresenceKeptUp, Present, Waiting, Aging, time, state
<1> QED
  BY <1>2, <1>3, <1>4 DEF Inv

LEMMA InvDisconnect ==
    ASSUME Inv, Disconnect
    PROVE  /\ allocated' \subseteq Connections /\ handle' \in Connections \cup {nil}
           /\ allocated' = {handle'} \ {nil}
           /\ allocated' = {}
  BY DEF Inv, TypeOK, HandleOwned, Disconnect

LEMMA InvUpdate == Inv /\ Update => Inv'
<1> SUFFICES ASSUME Inv, Update PROVE Inv'
  OBVIOUS
<1>1. CASE UpdateShows
  BY <1>1, InvUpdateDone DEF UpdateShows, Inv, TypeOK, HandleOwned, discord
<1>2. CASE UpdateReconnects
  BY <1>2, InvReconnect DEF UpdateReconnects, Inv, PresenceKeptUp
<1>3. CASE UpdateGivesUp
  BY <1>3, InvUpdateDone, InvDisconnect DEF UpdateGivesUp
<1> QED
  BY <1>1, <1>2, <1>3 DEF Update

LEMMA InvPoll == Inv /\ Poll => Inv'
<1> SUFFICES ASSUME Inv, Poll PROVE Inv'
  OBVIOUS
<1>1. CASE PollAnswers
  BY <1>1 DEF PollAnswers, Inv, TypeOK, HandleOwned, PresenceKeptUp, Present, Waiting, Aging,
              time, state, discord
<1>2. CASE PollReconnects
  BY <1>2, InvReconnect DEF PollReconnects
<1>3. CASE PollGivesUp
  BY <1>3, InvDisconnect
  DEF PollGivesUp, Inv, TypeOK, HandleOwned, PresenceKeptUp, Present, Waiting, Aging,
      time, state
<1> QED
  BY <1>1, <1>2, <1>3 DEF Poll

\* The timers run their callbacks, or end their chains.
LEMMA InvTimers ==
    ASSUME Inv, TimersDone \/ \E chain \in Chains : Fire(chain)
    PROVE  Inv'
<1>1. CASE TimersDone
  BY <1>1 DEF TimersDone, Inv, TypeOK, HandleOwned, PresenceKeptUp, Present, Waiting, Aging,
              time, state, discord
<1>2. ASSUME NEW chain \in Chains, Fire(chain) PROVE Inv'
  <2>1. due' \in [Chains -> 0..Delay \cup {nil}] /\ updating' \in Chains \cup {nil}
    BY <1>2 DEF Fire, Inv, TypeOK
  <2>2. TypeOK'
    BY <1>2, <2>1 DEF Fire, Inv, TypeOK, time, state, discord
  <2>3. HandleOwned' /\ Present' /\ Waiting'
    BY <1>2 DEF Fire, Inv, HandleOwned, Present, Waiting, state, discord
  <2>4. PresenceKeptUp' /\ Aging'
    BY <1>2 DEF Fire, Inv, TypeOK, PresenceKeptUp, Present, Aging, state, time
  <2> QED
    BY <2>2, <2>3, <2>4 DEF Inv
<1> QED
  BY <1>1, <1>2

\* Entering and leaving the idle state.
LEMMA InvIdleState ==
    ASSUME Inv,
           \/ NotIdle \/ EnterFails \/ UserReturns \/ GatewayEnds
           \/ \E chain \in Chains : EnterIdleState(chain)
    PROVE  Inv'
<1>1. CASE NotIdle
  BY <1>1 DEF NotIdle, Inv, TypeOK, HandleOwned, PresenceKeptUp, Present, Waiting, Aging,
              time, state, discord
<1>2. CASE EnterFails
  BY <1>2 DEF EnterFails, Inv, TypeOK, HandleOwned, PresenceKeptUp, Present, Waiting, Aging,
              time, state
<1>3. ASSUME NEW chain \in Chains, EnterIdleState(chain) PROVE Inv'
  <2>1. PICK k \in Connections : allocated' = allocated \cup {k} /\ handle' = k
    BY <1>3 DEF EnterIdleState
  <2>2. allocated = {} /\ presence /\ phase = "idle"
    BY <1>3 DEF EnterIdleState, Inv, HandleOwned, Present
  <2>3. TypeOK'
    BY <1>3, <2>1 DEF EnterIdleState, Inv, TypeOK, time
  <2>4. HandleOwned' /\ PresenceKeptUp' /\ Present'
    BY <1>3, <2>1, <2>2
    DEF EnterIdleState, Inv, HandleOwned, PresenceKeptUp, Present, time
  <2>5. Waiting' /\ Aging'
    BY <1>3 DEF EnterIdleState, Inv, Waiting, Aging, time
  <2> QED
    BY <2>3, <2>4, <2>5 DEF Inv
<1>4. ASSUME LeaveIdleState
      PROVE  /\ away' \in 0..Delay /\ idle' = FALSE /\ autoUpdate' = FALSE
             /\ allocated' = {} /\ handle' = nil
             /\ UNCHANGED due => Aging'
  BY <1>4, InvDisconnect
  DEF LeaveIdleState, Disconnect, Inv, TypeOK, HandleOwned, Aging, discord
<1>5. CASE UserReturns
  <2>1. LeaveIdleState /\ UNCHANGED <<due, idleTime, slow, updating, presence>>
        /\ phase = "idle" /\ phase' = "wait" /\ updating = nil
    BY <1>5 DEF UserReturns
  <2>2. TypeOK' /\ Aging'
    BY <1>4, <2>1 DEF Inv, TypeOK
  <2>3. HandleOwned' /\ PresenceKeptUp' /\ Present' /\ Waiting'
    BY <1>4, <2>1 DEF Inv, HandleOwned, PresenceKeptUp, Present, Waiting
  <2> QED
    BY <2>2, <2>3 DEF Inv
<1>6. CASE GatewayEnds
  <2>1. updating = nil
    BY <1>6 DEF GatewayEnds, Inv, PresenceKeptUp
  <2>2. LeaveIdleState /\ UNCHANGED <<due, idleTime, slow, updating>>
        /\ phase' = "ended" /\ presence' = FALSE
    BY <1>6 DEF GatewayEnds
  <2>3. TypeOK' /\ Aging'
    BY <1>4, <2>2 DEF Inv, TypeOK
  <2>4. HandleOwned' /\ PresenceKeptUp' /\ Present' /\ Waiting'
    BY <1>4, <2>1, <2>2, NilAssumption DEF HandleOwned, PresenceKeptUp, Present, Waiting
  <2> QED
    BY <2>3, <2>4 DEF Inv
<1> QED
  BY <1>1, <1>2, <1>3, <1>5, <1>6

LEMMA InvNext == Inv /\ [Next]_vars => Inv'
<1> SUFFICES ASSUME Inv, [Next]_vars PROVE Inv'
  OBVIOUS
<1>1. CASE GatewayFails \/ GatewayRuns
  BY <1>1 DEF GatewayFails, GatewayRuns, Inv, TypeOK, HandleOwned, PresenceKeptUp, Present,
              Waiting, Aging, time, state, discord
<1>2. CASE UNCHANGED vars
  BY <1>2 DEF vars, Inv, TypeOK, HandleOwned, PresenceKeptUp, Present, Waiting, Aging
<1> QED
  BY <1>1, <1>2, InvRound, InvUpdate, InvPoll, InvTimers, InvIdleState DEF Next, Step

-----------------------------------------------------------------------------
THEOREM Invariant == Spec => []Inv
  BY InvInit, InvNext, PTL DEF Spec

\* Every reachable state of the plugin has the types of Outside.
THEOREM TypeCorrect == Spec => []TypeOK
<1>1. Inv => TypeOK
  BY DEF Inv
<1> QED
  BY <1>1, Invariant, PTL

\* Whichever call of DiscordRPC fails, Outside.lua owns the one connection object of
\* its handle, none unless it is idle, and nothing when Run is over.
THEOREM ConnectionsOwned == Spec => []HandleOwned
<1>1. Inv => HandleOwned
  BY DEF Inv
<1> QED
  BY <1>1, Invariant, PTL

\* While the plugin is idle an update of its presence is running or due.
THEOREM UpdatesGoOn == Spec => []PresenceKeptUp
<1>1. Inv => PresenceKeptUp
  BY DEF Inv
<1> QED
  BY <1>1, Invariant, PTL

\* A chain of updates ends by itself, as the timers of UpdateDiscord that outlive the
\* idle state fire within their delay and arm no other.
THEOREM ChainsAreEnded == Spec => []ChainsEnd
<1>1. Inv => ChainsEnd
  <2> SUFFICES ASSUME Inv, phase \in {"idle", "wait"}, ~idle, away = Delay, NEW c \in Chains
               PROVE  due[c] = nil
    BY DEF ChainsEnd
  <2>1. due[c] # nil => due[c] \in 0..Delay /\ due[c] + Delay <= Delay /\ due[c] # 0
    BY DEF Inv, TypeOK, Aging, Waiting
  <2> QED
    BY <2>1
<1> QED
  BY <1>1, Invariant, PTL

-----------------------------------------------------------------------------
\* A round is so short that a timer fires before the user can be idle again.

\* While the idle state lasts the user is idle, or has come back in this round.
Noticed ==
    idle => /\ phase = "wait" \/ (phase = "idle" /\ updating # nil) => IsIdle
            /\ IsIdle \/ idleTime + Delay <= MinIdleTime

\* A timer that outlives the idle state is due before the user is idle again.
Overtaken ==
    ~idle /\ phase # "ended" =>
      \A c \in Chains : due[c] # nil => idleTime + due[c] <= MinIdleTime

AtMostOne == \A c, d \in Chains : Running(c) /\ Running(d) => c = d

InvOne == Noticed /\ Overtaken /\ AtMostOne

\* Rounds and what else lets the time go on or a timer fire.
LEMMA OneRound ==
    ASSUME ~slow', Inv, InvOne, NEW seconds \in Rounds, Round(seconds)
    PROVE  InvOne'
<1>1. /\ seconds \in Nat /\ idleTime \in 0..MinIdleTime
      /\ seconds + Delay <= MinIdleTime /\ phase = "wait" /\ phase' = "timers"
      /\ idle' = idle /\ updating' = updating
  <2>1. ~(seconds + Delay > MinIdleTime)
    BY Zenon DEF Round
  <2> QED
    BY <2>1 DEF Inv, TypeOK, Round, state
<1>2. \/ idleTime' \in 0..seconds
      \/ idleTime' = Least(idleTime + seconds, MinIdleTime)
  <2>1. PICK input \in 0..seconds \cup {idleTime + seconds} :
          idleTime' = Least(input, MinIdleTime)
    BY DEF Round
  <2> QED
    BY <1>1, <2>1 DEF Least
<1>3. \A c \in Chains : due[c] = nil => due'[c] = nil
  BY DEF Round
<1>4. \A c \in Chains : due[c] # nil =>
        /\ due[c] \in 0..Delay
        /\ due'[c] = IF seconds <= due[c] THEN due[c] - seconds ELSE 0
  BY <1>1 DEF Round, Inv, TypeOK, Least
<1>5. Noticed'
  BY <1>1, <1>2 DEF InvOne, Noticed, IsIdle, Least
<1>6. Overtaken'
  BY <1>1, <1>2, <1>3, <1>4 DEF InvOne, Overtaken, Least
<1>7. AtMostOne'
  BY <1>1, <1>3 DEF InvOne, AtMostOne, Running
<1> QED
  BY <1>5, <1>6, <1>7 DEF InvOne

LEMMA OneUpdateDone ==
    ASSUME Inv, InvOne, updating # nil, UpdateDone
    PROVE  InvOne'
<1>1. idle /\ autoUpdate /\ updating \in Chains /\ phase \in {"timers", "idle"}
  BY DEF Inv, TypeOK, PresenceKeptUp
<1>2. due' = [due EXCEPT ![updating] = Delay] /\ updating' = nil
  BY <1>1 DEF UpdateDone
<1>3. \A c \in Chains : Running(c)' => Running(c)
  BY <1>1, <1>2 DEF Running, Inv, TypeOK
<1>4. AtMostOne'
  BY <1>3 DEF InvOne, AtMostOne
<1> QED
  BY <1>1, <1>4 DEF UpdateDone, InvOne, Noticed, Overtaken, IsIdle, state, time

\* What concerns neither the user nor the timers.
LEMMA OneDiscord ==
    ASSUME InvOne, UNCHANGED <<phase, time, state, due, updating>>
    PROVE  InvOne'
  BY DEF InvOne, Noticed, Overtaken, AtMostOne, Running, IsIdle, time, state

LEMMA OneTimers ==
    ASSUME Inv, InvOne, TimersDone \/ \E chain \in Chains : Fire(chain)
    PROVE  InvOne'
<1>1. CASE TimersDone
  BY <1>1 DEF TimersDone, InvOne, Noticed, Overtaken, AtMostOne, Running, IsIdle, time, state
<1>2. ASSUME NEW chain \in Chains, Fire(chain) PROVE InvOne'
  <2>1. /\ due' = [due EXCEPT ![chain] = nil] /\ updating' \in {chain, nil}
        /\ due[chain] = 0 /\ phase = "timers" /\ UNCHANGED <<phase, time, state>>
    BY <1>2 DEF Fire
  <2>2. \A c \in Chains : Running(c)' => Running(c)
    BY <2>1 DEF Running, Inv, TypeOK
  <2>3. AtMostOne'
    BY <2>2 DEF InvOne, AtMostOne
  <2>4. Noticed' /\ Overtaken'
    BY <2>1 DEF InvOne, Noticed, Overtaken, Inv, TypeOK, IsIdle, time, state
  <2> QED
    BY <2>3, <2>4 DEF InvOne
<1> QED
  BY <1>1, <1>2

\* A chain is started only where no other is left.
LEMMA OneEnter ==
    ASSUME Inv, InvOne, NEW chain \in Chains, EnterIdleState(chain)
    PROVE  InvOne'
<1>1. /\ phase = "idle" /\ phase' = "idle" /\ updating = nil /\ updating' = chain
      /\ ~idle /\ idle' = TRUE /\ IsIdle /\ UNCHANGED <<due, idleTime>>
  BY DEF EnterIdleState, time
<1>2. idleTime = MinIdleTime
  BY <1>1 DEF Inv, TypeOK, IsIdle
<1>3. ASSUME NEW c \in Chains PROVE due[c] = nil
  <2>1. due[c] # nil => due[c] \in 0..Delay /\ due[c] # 0 /\ idleTime + due[c] <= MinIdleTime
    BY <1>1 DEF Inv, TypeOK, Waiting, InvOne, Overtaken
  <2> QED
    BY <1>2, <2>1
<1>4. AtMostOne'
  BY <1>1, <1>3 DEF AtMostOne, Running
<1> QED
  BY <1>1, <1>4 DEF InvOne, Noticed, Overtaken, IsIdle

\* The user is back, and every timer that is left is due before the next idle time.
LEMMA OneLeave ==
    ASSUME Inv, InvOne, NotIdle \/ EnterFails \/ UserReturns \/ GatewayEnds
    PROVE  InvOne'
<1>1. AtMostOne'
  BY DEF NotIdle, EnterFails, UserReturns, GatewayEnds, InvOne, AtMostOne, Running
<1>2. CASE NotIdle \/ EnterFails
  BY <1>1, <1>2
  DEF NotIdle, EnterFails, InvOne, Noticed, Overtaken, IsIdle, time, state
<1>3. CASE UserReturns
  <2>1. /\ idle' = FALSE /\ idleTime + Delay <= MinIdleTime /\ UNCHANGED <<due, idleTime>>
    BY <1>3 DEF UserReturns, LeaveIdleState, InvOne, Noticed
  <2>2. \A c \in Chains : due[c] # nil => due[c] \in 0..Delay
    BY DEF Inv, TypeOK
  <2> QED
    BY <1>1, <2>1, <2>2 DEF InvOne, Noticed, Overtaken, Inv, TypeOK
<1>4. CASE GatewayEnds
  BY <1>1, <1>4
  DEF GatewayEnds, LeaveIdleState, InvOne, Noticed, Overtaken, Inv, TypeOK, IsIdle
<1> QED
  BY <1>2, <1>3, <1>4

LEMMA OneNext == ~slow' /\ Inv /\ InvOne /\ [Next]_vars => InvOne'
<1> SUFFICES ASSUME ~slow', Inv, InvOne, [Next]_vars PROVE InvOne'
  OBVIOUS
<1>1. CASE GatewayFails \/ GatewayRuns
  BY <1>1 DEF GatewayFails, GatewayRuns, InvOne, Noticed, Overtaken, AtMostOne, Running,
              IsIdle, time, state, Inv, PresenceKeptUp
<1>2. CASE UNCHANGED vars
  BY <1>2, OneDiscord DEF vars, time, state
<1>3. CASE Update
  BY <1>3, OneUpdateDone, OneDiscord DEF Update, UpdateShows, UpdateReconnects, UpdateGivesUp
<1>4. CASE Poll
  <2>1. CASE PollReconnects
    BY <2>1, OneDiscord DEF PollReconnects
  <2>2. CASE PollAnswers \/ PollGivesUp
    BY <2>2 DEF PollAnswers, PollGivesUp, InvOne, Noticed, Overtaken, AtMostOne, Running,
                IsIdle, time, state
  <2> QED
    BY <1>4, <2>1, <2>2 DEF Poll
<1> QED
  BY <1>1, <1>2, <1>3, <1>4, OneRound, OneTimers, OneEnter, OneLeave DEF Next, Step

\* A slow round is not forgotten.
LEMMA SlowStays == [Next]_vars => (slow => slow')
BY DEF Next, Step, GatewayFails, GatewayRuns, Round, Fire, TimersDone, Update, UpdateShows,
       UpdateReconnects, UpdateGivesUp, UpdateDone, Poll, PollAnswers, PollReconnects,
       PollGivesUp, NotIdle, EnterFails, EnterIdleState, UserReturns, GatewayEnds, time, vars

\* However often the user leaves and returns, UpdateDiscord has one chain of timers as
\* long as a round and the delay of a timer are together no longer than the time after
\* which the user is idle.
THEOREM ChainIsOne == Spec => []OneChain
<1>1. Init => InvOne
  <2> SUFFICES ASSUME Init PROVE InvOne
    OBVIOUS
  <2>1. \A c \in Chains : ~Running(c)
    BY DEF Init, Running
  <2> QED
    BY <2>1 DEF Init, InvOne, Noticed, Overtaken, AtMostOne, Running
<1>2. Inv /\ (~slow => InvOne) /\ [Next]_vars => (~slow => InvOne)'
  BY OneNext, SlowStays
<1>3. (~slow => InvOne) => OneChain
  BY DEF InvOne, AtMostOne, OneChain
<1> QED
  BY <1>1, <1>2, <1>3, Invariant, PTL DEF Spec

\* Whatever Discord refuses, connection and presence are kept up and given back.
THEOREM PresenceIsKept == Spec => []PresenceKept
BY ConnectionsOwned, UpdatesGoOn, PTL DEF PresenceKept

\* Chains of updates end, and short rounds have one of them.
THEOREM ChainsAreBounded == Spec => []ChainsBounded
BY ChainsAreEnded, ChainIsOne, PTL DEF ChainsBounded
=============================================================================
