------------------------------- MODULE Outside -------------------------------
(***************************************************************************)
(* The Outside plugin shows a presence on Discord while the user has been  *)
(* idle.  Each round of the main loop runs the timers that are due and     *)
(* then looks at the idle time.  An UpdateDiscord callback arms a timer    *)
(* for the next: a chain of updates, one of which starts whenever the idle *)
(* state is entered.  Discord may fail in every call, and both the update  *)
(* and the poll then connect again until they succeed.                     *)
(*                                                                         *)
(* Time is counted in seconds.  The calls of DiscordRPC are modelled by    *)
(* the connection objects they leave behind.                               *)
(***************************************************************************)
EXTENDS Integers, FiniteSets

CONSTANTS MinIdleTime,  \* seconds without input after which the user is idle
          Delay,        \* seconds between two updates of a chain
          Rounds,       \* seconds a round of the main loop may take
          Chains,       \* bound: names of chains of updates
          Connections,  \* addresses of DiscordRPC::IPCConnection objects
          nil

ASSUME TimesAssumption == MinIdleTime \in Nat \ {0} /\ Delay \in Nat \ {0} /\ Rounds \subseteq Nat
ASSUME NilAssumption == nil \notin Chains \cup Connections \cup Int

VARIABLES phase,      \* where Outside.Run is
          idleTime,   \* System.GetIdleTime(), up to MinIdleTime
          idle,       \* IdleTimestamp ~= nil
          autoUpdate, \* DiscordAutoUpdate
          due,        \* seconds until the timer of a chain fires, or nil
          updating,   \* the chain whose callback runs, or nil
          allocated,  \* the connection objects that exist
          handle,     \* Discord.Handle
          presence,   \* whether there is Presence.Handle
          away,       \* history: seconds since the idle state was left, up to Delay
          slow        \* history: a round left no time for a timer before the user was idle

vars == <<phase, idleTime, idle, autoUpdate, due, updating, allocated, handle, presence,
          away, slow>>
discord == <<allocated, handle>>
state == <<idle, autoUpdate, presence>>
time == <<idleTime, away, slow>>

Least(a, b) == IF a <= b THEN a ELSE b
IsIdle == idleTime >= MinIdleTime

\* Outside.Init creates the presence first and initialises Gateway then.
Init ==
    /\ phase = "init" /\ idleTime \in 0..MinIdleTime /\ idle = FALSE /\ autoUpdate = FALSE
    /\ due = [c \in Chains |-> nil] /\ updating = nil
    /\ allocated = {} /\ handle = nil /\ presence = TRUE
    /\ away = Delay /\ slow = FALSE

\* Gateway.Init or Gateway.Run fails: Outside returns false at once.
GatewayFails ==
    /\ phase = "init" /\ phase' = "failed"
    /\ UNCHANGED <<time, state, due, updating, discord>>

\* Gateway.Run connects and starts its loop.
GatewayRuns ==
    /\ phase = "init" /\ phase' = "timers"
    /\ UNCHANGED <<time, state, due, updating, discord>>

\* A round takes some seconds; the user may last touch the keyboard any number of
\* them ago.
Round(seconds) ==
    /\ phase = "wait" /\ phase' = "timers"
    /\ \E input \in 0..seconds \cup {idleTime + seconds} :
         idleTime' = Least(input, MinIdleTime)
    /\ away' = Least(away + seconds, Delay)
    /\ slow' = (slow \/ seconds + Delay > MinIdleTime)
    /\ due' = [c \in Chains |->
                 IF due[c] = nil THEN nil ELSE due[c] - Least(seconds, due[c])]
    /\ UNCHANGED <<state, updating, discord>>

-----------------------------------------------------------------------------
\* Mutant of Fire: the callback does not look whether the user is idle.
FireAlways(chain) ==
    /\ phase = "timers" /\ updating = nil /\ due[chain] = 0
    /\ due' = [due EXCEPT ![chain] = IF idle THEN nil ELSE Delay]
    /\ updating' = IF idle THEN chain ELSE nil
    /\ UNCHANGED <<phase, time, state, discord>>

\* The timer of a chain fires: its callback runs, or the chain ends.
Fire(chain) ==
    /\ phase = "timers" /\ updating = nil /\ due[chain] = 0
    /\ due' = [due EXCEPT ![chain] = nil]
    /\ updating' = IF idle THEN chain ELSE nil
    /\ UNCHANGED <<phase, time, state, discord>>

TimersDone ==
    /\ phase = "timers" /\ updating = nil
    /\ \A c \in Chains : due[c] # 0
    /\ phase' = "idle"
    /\ UNCHANGED <<time, state, due, updating, discord>>

\* Mutant of Reconnect: Discord.Init overwrites the handle.
ReconnectLeaks ==
    \E k \in Connections \ allocated :
      allocated' = allocated \cup {k} /\ handle' = k

\* Discord.Deinit and Discord.Init.
Reconnect ==
    \E k \in Connections \ (allocated \ {handle}) :
      allocated' = (allocated \ {handle}) \cup {k} /\ handle' = k

\* Discord.Deinit, and Discord.Init if it was called and failed.
Disconnect ==
    allocated' = allocated \ {handle} /\ handle' = nil

\* The end of the callback: the timer of the next is armed.
UpdateDone ==
    /\ due' = [due EXCEPT ![updating] = IF autoUpdate THEN Delay ELSE nil]
    /\ updating' = nil
    /\ phase' = IF phase = "timers" THEN "timers" ELSE "wait"
    /\ UNCHANGED <<time, state>>

\* Mutant of UpdateShows: the loop goes on after a success.
UpdateShowsAgain ==
    /\ updating # nil /\ handle # nil
    /\ Reconnect /\ UNCHANGED <<phase, time, state, due, updating>>

\* Presence.Update: Discord takes the presence ...
UpdateShows ==
    /\ updating # nil /\ handle # nil
    /\ UNCHANGED discord /\ UpdateDone

\* ... or not, which is tried again on a new connection ...
UpdateReconnects ==
    /\ updating # nil /\ Reconnect
    /\ UNCHANGED <<phase, time, state, due, updating>>

\* ... unless there is none.
UpdateGivesUp ==
    /\ updating # nil /\ Disconnect
    /\ UpdateDone

-----------------------------------------------------------------------------
\* UpdateIdleState while the user is idle: Discord.Poll answers, ...
PollAnswers ==
    /\ phase = "idle" /\ updating = nil /\ idle /\ IsIdle /\ handle # nil
    /\ phase' = "wait"
    /\ UNCHANGED <<time, state, due, updating, discord>>

\* ... fails, and is tried again on a new connection ...
PollReconnects ==
    /\ phase = "idle" /\ updating = nil /\ idle /\ IsIdle
    /\ Reconnect
    /\ UNCHANGED <<phase, time, state, due, updating>>

\* ... unless there is none.
PollGivesUp ==
    /\ phase = "idle" /\ updating = nil /\ idle /\ IsIdle
    /\ Disconnect /\ phase' = "wait"
    /\ UNCHANGED <<time, state, due, updating>>

NotIdle ==
    /\ phase = "idle" /\ ~idle /\ ~IsIdle
    /\ phase' = "wait"
    /\ UNCHANGED <<time, state, due, updating, discord>>

\* EnterIdleState without a connection: the next round tries again.
EnterFails ==
    /\ phase = "idle" /\ ~idle /\ IsIdle
    /\ phase' = "wait" /\ handle' = nil
    /\ UNCHANGED <<time, state, due, updating, allocated>>

\* EnterIdleState: UpdateDiscord is executed at once, whatever timers there are.
EnterIdleState(chain) ==
    /\ phase = "idle" /\ updating = nil /\ ~idle /\ IsIdle
    /\ due[chain] = nil
    /\ \E k \in Connections \ allocated : allocated' = allocated \cup {k} /\ handle' = k
    /\ idle' = TRUE /\ autoUpdate' = TRUE /\ updating' = chain
    /\ UNCHANGED <<phase, time, due, presence>>

\* LeaveIdleState does nothing unless the state is idle.
LeaveIdleState ==
    /\ idle' = FALSE /\ autoUpdate' = FALSE
    /\ away' = IF idle THEN 0 ELSE away
    /\ IF idle THEN Disconnect ELSE UNCHANGED discord

UserReturns ==
    /\ phase = "idle" /\ updating = nil /\ idle /\ ~IsIdle
    /\ LeaveIdleState /\ phase' = "wait"
    /\ UNCHANGED <<idleTime, slow, presence, due, updating>>

\* Gateway.Run returns: the timers that are left never fire.
GatewayEnds ==
    /\ phase = "wait" /\ phase' = "ended"
    /\ LeaveIdleState /\ presence' = FALSE
    /\ UNCHANGED <<idleTime, slow, due, updating>>

Update == UpdateShows \/ UpdateReconnects \/ UpdateGivesUp
Poll == PollAnswers \/ PollReconnects \/ PollGivesUp
Step ==
    \/ \E seconds \in Rounds : Round(seconds)
    \/ \E chain \in Chains : Fire(chain) \/ EnterIdleState(chain)
    \/ TimersDone \/ Update \/ Poll \/ NotIdle \/ EnterFails \/ UserReturns

Next == GatewayFails \/ GatewayRuns \/ Step \/ GatewayEnds

Spec == Init /\ [][Next]_vars

\* The loop goes on, and a Discord that takes connections again and again takes a
\* presence, and answers a poll, sooner or later.
FairSpec ==
    /\ Spec
    /\ WF_vars(GatewayRuns \/ Step)
    /\ SF_vars(UpdateShows) /\ SF_vars(PollAnswers)

-----------------------------------------------------------------------------
\* The type invariant of the plugin.
TypeOK ==
    /\ phase \in {"init", "failed", "timers", "idle", "wait", "ended"}
    /\ idleTime \in 0..MinIdleTime /\ away \in 0..Delay
    /\ slow \in BOOLEAN /\ idle \in BOOLEAN /\ autoUpdate = idle /\ presence \in BOOLEAN
    /\ due \in [Chains -> 0..Delay \cup {nil}]
    /\ updating \in Chains \cup {nil}
    /\ allocated \subseteq Connections /\ handle \in Connections \cup {nil}

\* Whichever call of DiscordRPC fails, the plugin has no connection object but the
\* one of its handle, and that one only while it is idle; when Run is over it has
\* neither that nor a presence.
HandleOwned ==
    /\ allocated = {handle} \ {nil}
    /\ handle # nil => idle
    /\ phase = "ended" => allocated = {} /\ ~presence

\* An update finds the presence it dereferences, and while the plugin is idle one
\* is running or due: a presence that was not shown is not lost for good.
PresenceKeptUp ==
    /\ updating # nil => idle /\ presence /\ phase \in {"timers", "idle"}
    /\ idle => updating # nil \/ \E c \in Chains : due[c] # nil

\* Connections and presence are kept while the plugin is idle, and given back.
PresenceKept == HandleOwned /\ PresenceKeptUp

\* Once the user has been back for as long as a timer takes, no chain is left.
ChainsEnd ==
    phase \in {"idle", "wait"} /\ ~idle /\ away = Delay => \A c \in Chains : due[c] = nil

Running(c) == updating = c \/ due[c] # nil

\* There is one chain of updates, although each entry of the idle state starts one
\* and leaving it stops none, as long as no round was so long that the user could
\* return and be idle again before the timer fires.
OneChain == ~slow => \A c, d \in Chains : Running(c) /\ Running(d) => c = d

\* Chains of updates end, and there is one of them unless rounds are long.
ChainsBounded == OneChain /\ ChainsEnd

\* Neither of the two loops that reconnect starves the rounds of the gateway.
RoundsGoOn == phase = "timers" ~> phase \in {"wait", "ended"}
=============================================================================
