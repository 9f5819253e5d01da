------------------------------- MODULE Threads -------------------------------
(***************************************************************************)
(* Scripts with threads: Thread.Start and Thread.Join with the life of the *)
(* thread objects, and Console.ReadLine and Console.WriteLine, which hold  *)
(* the default mutex while they use the console.  Each thread is at a      *)
(* place of its own; Lua code between the calls is left out.               *)
(***************************************************************************)
EXTENDS FiniteSets

CONSTANTS Main,      \* the thread of the script
          Workers,   \* threads it can start, and the addresses of their objects
          Careless,  \* threads that may write a nil
          nil

Everyone == {Main} \cup Workers

VARIABLES pc,      \* where a thread is
          mutex,   \* the owner of the default mutex, or nil
          line,    \* whose output stands on the current line of the console, or nil
          broken,  \* history: an output that met a line of another thread
          objects, \* the thread objects that exist
          asked,   \* the worker that Main waits for, or nil
          joined,  \* history: the workers Join answered true for
          missed,  \* history: those that were not running when Join looked
          raised   \* history: those that raised an error while they held the mutex

vars == <<pc, mutex, line, broken, objects, asked, joined, missed, raised>>
console == <<mutex, line, broken>>
threads == <<objects, asked, joined, missed>>

Init ==
    /\ pc = [t \in Everyone |-> IF t = Main THEN "ready" ELSE "none"]
    /\ mutex = nil /\ line = nil /\ broken = FALSE
    /\ objects = {} /\ asked = nil /\ joined = {} /\ missed = {} /\ raised = {}

Goes(t, from, to) == pc[t] = from /\ pc' = [pc EXCEPT ![t] = to]

-----------------------------------------------------------------------------
\* thread_start by the script; the callback runs in the new thread.
Start(w) ==
    /\ pc[Main] = "ready" /\ Goes(w, "none", "ready")
    /\ objects' = objects \cup {w}
    /\ UNCHANGED <<console, asked, joined, missed, raised>>

\* AL::OS::Thread::Start fails: the object is deleted and the script gets nil.
StartFails(w) ==
    /\ pc[Main] = "ready" /\ Goes(w, "none", "failed")
    /\ UNCHANGED <<console, threads, raised>>

\* The callback of a worker returns.
Ends(w) ==
    /\ Goes(w, "ready", "ended")
    /\ UNCHANGED <<console, threads, raised>>

\* thread_join of a thread that is not running: true at once.
JoinMissed(w) ==
    /\ pc[Main] = "ready" /\ pc[w] = "ended" /\ w \notin joined
    /\ joined' = joined \cup {w} /\ missed' = missed \cup {w}
    /\ UNCHANGED <<pc, console, objects, asked, raised>>

\* thread_join of a running one waits for it ...
Join(w) ==
    /\ pc[w] \notin {"none", "failed", "ended"}
    /\ Goes(Main, "ready", "joining") /\ asked' = w
    /\ UNCHANGED <<console, objects, joined, missed, raised>>

\* ... and deletes it when it has ended, ...
JoinEnds ==
    /\ Goes(Main, "joining", "ready") /\ pc[asked] = "ended"
    /\ objects' = objects \ {asked} /\ joined' = joined \cup {asked} /\ asked' = nil
    /\ UNCHANGED <<console, missed, raised>>

\* Mutant of JoinTimesOut: the time is up, and the thread is deleted.
JoinTimesOutTrue ==
    /\ Goes(Main, "joining", "ready")
    /\ objects' = objects \ {asked} /\ joined' = joined \cup {asked} /\ asked' = nil
    /\ UNCHANGED <<console, missed, raised>>

\* Mutant of JoinTimesOut: the wait goes on in the background.
JoinTimesOutAsked ==
    /\ Goes(Main, "joining", "ready")
    /\ UNCHANGED <<console, threads, raised>>

\* ... or until the time is up, or the wait fails: false.
JoinTimesOut ==
    /\ Goes(Main, "joining", "ready") /\ asked' = nil
    /\ UNCHANGED <<console, objects, joined, missed, raised>>

-----------------------------------------------------------------------------
\* ReadLine and WriteLine ask for the default mutex ...
Call(t, lock) ==
    /\ Goes(t, "ready", lock)
    /\ UNCHANGED <<console, threads, raised>>

\* ... and get it.
Lock(t, lock, then) ==
    /\ mutex = nil /\ Goes(t, lock, then) /\ mutex' = t
    /\ UNCHANGED <<line, broken, threads, raised>>

\* What a thread puts on a line that another has begun breaks it.
Output(t, rest) ==
    /\ broken' = (broken \/ line \notin {nil, t})
    /\ line' = rest

\* Mutant of Prompt: the mutex is not held while the user types.
PromptUnlocks(t) ==
    /\ Goes(t, "prompt", "read") /\ Output(t, t) /\ mutex' = nil
    /\ UNCHANGED <<threads, raised>>

\* ReadLine writes its prompt without an end of line ...
Prompt(t) ==
    /\ Goes(t, "prompt", "read") /\ Output(t, t)
    /\ UNCHANGED <<mutex, threads, raised>>

\* ... and waits for a line, which it copies to Lua before it unlocks.
Read(t) ==
    /\ Goes(t, "read", "unlock") /\ Output(t, nil)
    /\ UNCHANGED <<mutex, threads, raised>>

\* WriteLine writes a whole line.
Write(t) ==
    /\ Goes(t, "write", "unlock") /\ Output(t, nil)
    /\ UNCHANGED <<mutex, threads, raised>>

\* A nil cannot be concatenated: the error leaves WriteLine with the mutex locked,
\* and ends the callback of the thread.
WriteRaises(t) ==
    /\ t \in Careless /\ Goes(t, "write", "ended")
    /\ raised' = raised \cup {t}
    /\ UNCHANGED <<console, threads>>

Unlock(t) ==
    /\ Goes(t, "unlock", "ready") /\ mutex' = nil
    /\ UNCHANGED <<line, broken, threads, raised>>

ReadLine(t) == Call(t, "lock_read") \/ Lock(t, "lock_read", "prompt") \/ Prompt(t) \/ Read(t)
WriteLine(t) == Call(t, "lock_write") \/ Lock(t, "lock_write", "write") \/ Write(t) \/ WriteRaises(t)

Next ==
    \/ \E w \in Workers : Start(w) \/ StartFails(w) \/ Ends(w) \/ JoinMissed(w) \/ Join(w)
    \/ JoinEnds \/ JoinTimesOut
    \/ \E t \in Everyone : ReadLine(t) \/ WriteLine(t) \/ Unlock(t)

Spec == Init /\ [][Next]_vars

\* Threads run, the user types a line that is asked for, and whoever waits for the
\* mutex gets it if it is free again and again.
Fairness ==
    \A t \in Everyone :
      /\ WF_vars(Prompt(t) \/ Read(t) \/ Write(t) \/ Unlock(t))
      /\ SF_vars(Lock(t, "lock_read", "prompt")) /\ SF_vars(Lock(t, "lock_write", "write"))

FairSpec == Spec /\ Fairness

-----------------------------------------------------------------------------
\* The type invariant of threads and console.
TypeOK ==
    /\ pc \in [Everyone -> {"none", "failed", "ready", "joining", "ended", "lock_read",
                            "prompt", "read", "lock_write", "write", "unlock"}]
    /\ mutex \in Everyone \cup {nil} /\ line \in Everyone \cup {nil} /\ broken \in BOOLEAN
    /\ objects \subseteq Workers /\ joined \subseteq Workers /\ missed \subseteq joined
    /\ asked \in Workers \cup {nil} /\ (asked # nil <=> pc[Main] = "joining")
    /\ raised \subseteq Careless

\* A worker that Join has answered true for has ended, and one that is alive has
\* its object: no running thread is deleted, whenever the time of a Join is up.
JoinedEnded ==
    \A w \in Workers :
      /\ w \in joined => pc[w] = "ended"
      /\ pc[w] \notin {"none", "failed"} /\ w \notin joined => w \in objects

\* The objects of joined threads that are never deleted are those of threads that
\* ended before Join looked at them.
LeakedWereMissed == objects \cap joined = missed

\* No line is written into the prompt at which another thread reads.
LinesWhole == ~broken

\* The default mutex is held by a thread inside a call, or by one that raised an
\* error there, and then for good.
MutexAbandoned ==
    mutex # nil => mutex \in raised \/ pc[mutex] \in {"prompt", "read", "write", "unlock"}

\* Whoever calls the console gets through, though ReadLine keeps the mutex while
\* the user thinks: no thread waits for one that waits for it.  What can stop it is
\* an error of another thread that left the mutex locked.
ConsoleServes ==
    \A t \in Everyone :
      pc[t] \in {"lock_read", "lock_write"} ~> (pc[t] = "ready" \/ raised # {})
=============================================================================
