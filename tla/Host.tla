-------------------------------- MODULE Host --------------------------------
(***************************************************************************)
(* The host: main initialises Lua and runs one script, which loads and     *)
(* unloads extensions.  Loading goes through four stages, each of which    *)
(* may fail and has to give back what the stages before it acquired.  A    *)
(* loaded extension defines globals; the Lua module of the same name is    *)
(* then required, once, and copies the constants among them into a table.  *)
(***************************************************************************)
EXTENDS Integers, FiniteSets

CONSTANTS Libraries,  \* the shared libraries of the extensions
          Forgetful,   \* those that unregister only a part of what they register
          Requirers,   \* those whose Lua module requires that of Shared
          Shared,
          Handles,     \* addresses of APRS::IS::Extension objects
          ExitCodes,   \* values scripts set
          MaxLoads,    \* bound: extensions loaded
          nil

VARIABLES pc,          \* where main is
          fileExists,  \* whether there is the file of the script
          result,      \* what LoadScript answered
          exitCode,    \* script_exit_code
          status,      \* what main returned
          lua,         \* whether the Lua state exists
          extension,   \* the Extension objects: [library, stage], or nil
          processes,   \* the objects whose process is open
          images,      \* the objects whose library is loaded
          globals,     \* the names that are defined: <<library, part>>
          required,    \* package.loaded: library -> whether its constants were there, or nil
          stale,       \* history: extensions whose library was unloaded for another
          loads        \* bound

vars == <<pc, fileExists, result, exitCode, status, lua,
          extension, processes, images, globals, required, stale, loads>>
extensions == <<extension, processes, images, globals, required, stale, loads>>
host == <<pc, fileExists, result, exitCode, status, lua>>

Stages == {"allocated", "opened", "loaded", "resolved", "ready"}
Live == {h \in Handles : extension[h] # nil}
Loading == {h \in Live : extension[h].stage # "ready"}
Ready(library) == {h \in Live : extension[h].library = library /\ extension[h].stage = "ready"}
At(h, stage) == h \in Live /\ extension[h].stage = stage
Script == pc = "script" /\ Loading = {}

\* What an extension registers, and what it unregisters.
Registered(library) == {<<library, "most">>, <<library, "rest">>}
Unregistered(library) ==
    IF library \in Forgetful THEN {<<library, "most">>} ELSE Registered(library)

Init ==
    /\ pc = "init" /\ fileExists \in BOOLEAN /\ result = nil
    /\ exitCode = 0 /\ status = nil /\ lua = FALSE
    /\ extension = [h \in Handles |-> nil] /\ processes = {} /\ images = {} /\ globals = {}
    /\ required = [l \in Libraries |-> nil] /\ stale = {} /\ loads = 0

-----------------------------------------------------------------------------
Exit(code) == pc' = "exited" /\ status' = code

\* API::Init fails: Lua is not created, or its libraries are not there and it is
\* destroyed again.  main returns -1.
InitFails ==
    /\ pc = "init" /\ Exit(-1)
    /\ UNCHANGED <<fileExists, result, exitCode, lua, extensions>>

\* API::Init, and LoadScript up to RunFile: a file that does not exist is an
\* exception, which main answers with -1.
LoadScript ==
    /\ pc = "init"
    /\ lua' = TRUE /\ exitCode' = 0
    /\ IF fileExists
         THEN pc' = "script" /\ UNCHANGED <<result, status>>
         ELSE result' = "throws" /\ Exit(-1)
    /\ UNCHANGED <<fileExists, extensions>>

\* The script ends: LoadScript hands its exit code to main.
ScriptEnds ==
    /\ Script
    /\ result' = "true" /\ Exit(exitCode)
    /\ UNCHANGED <<fileExists, exitCode, lua, extensions>>

\* The script raises an error that nothing catches.
ScriptRaises ==
    /\ Script
    /\ result' = "throws" /\ Exit(-1)
    /\ UNCHANGED <<fileExists, exitCode, lua, extensions>>

\* A number as AL::int16.
Int16s == (0 - 32768)..32767
Int16(value) == ((value + 32768) % 65536) - 32768

\* script_set_exit_code
SetExitCode(value) ==
    /\ Script /\ exitCode' = Int16(value)
    /\ UNCHANGED <<pc, fileExists, result, status, lua, extensions>>

-----------------------------------------------------------------------------
\* LoadExtension allocates the object ...
Load(h, library) ==
    /\ Script /\ h \notin Live /\ loads < MaxLoads
    /\ loads' = loads + 1
    /\ extension' = [extension EXCEPT ![h] = [library |-> library, stage |-> "allocated"]]
    /\ UNCHANGED <<host, processes, images, globals, required, stale>>

\* ... opens the process ...
OpenProcess(h) ==
    /\ At(h, "allocated")
    /\ extension' = [extension EXCEPT ![h].stage = "opened"]
    /\ processes' = processes \cup {h}
    /\ UNCHANGED <<host, images, globals, required, stale, loads>>

\* ... loads the library ...
LoadLibrary(h) ==
    /\ At(h, "opened")
    /\ extension' = [extension EXCEPT ![h].stage = "loaded"]
    /\ images' = images \cup {h}
    /\ UNCHANGED <<host, processes, globals, required, stale, loads>>

\* ... and resolves its two functions.
Resolve(h) ==
    /\ At(h, "loaded")
    /\ extension' = [extension EXCEPT ![h].stage = "resolved"]
    /\ UNCHANGED <<host, processes, images, globals, required, stale, loads>>

\* Mutant of LoadFails: a library that lacks a function is not unloaded.
LoadFailsKeepsLibrary(h) ==
    /\ h \in Loading
    /\ extension' = [extension EXCEPT ![h] = nil]
    /\ processes' = processes \ {h}
    /\ images' = IF At(h, "loaded") THEN images ELSE images \ {h}
    /\ UNCHANGED <<host, globals, required, stale, loads>>

\* A stage fails, or the extension cannot be initialised: what the stages before
\* acquired is given back, and script_load_extension answers nil.
LoadFails(h) ==
    /\ h \in Loading
    /\ extension' = [extension EXCEPT ![h] = nil]
    /\ processes' = IF At(h, "allocated") THEN processes ELSE processes \ {h}
    /\ images' = IF At(h, "allocated") \/ At(h, "opened") THEN images ELSE images \ {h}
    /\ UNCHANGED <<host, globals, required, stale, loads>>

\* Requiring the module of a library, after that of Shared if it asks for it:
\* a module is run once, and finds the constants its library has defined.
Require(library, defined) ==
    LET modules == {library} \cup (IF library \in Requirers THEN {Shared} ELSE {})
    IN  [m \in Libraries |->
           IF m \in modules /\ required[m] = nil THEN <<m, "most">> \in defined ELSE required[m]]

\* Mutant of Initialise: the module is required before its library is initialised.
InitialiseLate(h) ==
    LET library == extension[h].library
    IN  /\ At(h, "resolved")
        /\ extension' = [extension EXCEPT ![h].stage = "ready"]
        /\ globals' = globals \cup Registered(library)
        /\ required' = Require(library, globals)
        /\ stale' = {s \in stale : extension[s].library # library}
        /\ UNCHANGED <<host, processes, images, loads>>

\* lua_aprs_is_extension_init registers the globals; back in the script, the
\* module of the extension is required.
Initialise(h) ==
    LET library == extension[h].library
    IN  /\ At(h, "resolved")
        /\ extension' = [extension EXCEPT ![h].stage = "ready"]
        /\ globals' = globals \cup Registered(library)
        /\ required' = Require(library, globals')
        /\ stale' = {s \in stale : extension[s].library # library}
        /\ UNCHANGED <<host, processes, images, loads>>

\* UnloadExtension: the extension unregisters its globals, also for others of the
\* same library; library, process and object are given back.
Unload(h) ==
    /\ Script /\ At(h, "ready")
    /\ extension' = [extension EXCEPT ![h] = nil]
    /\ processes' = processes \ {h} /\ images' = images \ {h}
    /\ globals' = globals \ Unregistered(extension[h].library)
    /\ stale' = (stale \cup Ready(extension[h].library)) \ {h}
    /\ UNCHANGED <<host, required, loads>>

Next ==
    \/ InitFails \/ LoadScript \/ ScriptEnds \/ ScriptRaises
    \/ \E value \in ExitCodes : SetExitCode(value)
    \/ \E h \in Handles :
         \/ \E library \in Libraries : Load(h, library)
         \/ OpenProcess(h) \/ LoadLibrary(h) \/ Resolve(h) \/ Initialise(h)
         \/ LoadFails(h)
         \/ Unload(h)

Spec == Init /\ [][Next]_vars

-----------------------------------------------------------------------------
\* The type invariant of the host; at most one extension is being loaded.
TypeOK ==
    /\ pc \in {"init", "script", "exited"} /\ fileExists \in BOOLEAN /\ lua \in BOOLEAN
    /\ result \in {nil, "true", "throws"}
    /\ exitCode \in Int16s /\ status \in Int16s \cup {nil}
    /\ extension \in [Handles -> [library : Libraries, stage : Stages] \cup {nil}]
    /\ \A h, k \in Loading : h = k
    /\ globals \subseteq Libraries \X {"most", "rest"}
    /\ required \in [Libraries -> BOOLEAN \cup {nil}]
    /\ stale \subseteq Live /\ loads \in 0..MaxLoads

\* Whichever stage fails, an open process and a loaded library belong to an
\* extension that is loaded or being loaded, and a loaded one has both.
ResourcesBalanced ==
    /\ processes = {h \in Live : extension[h].stage # "allocated"}
    /\ images = {h \in Live : extension[h].stage \in {"loaded", "resolved", "ready"}}

\* A global that outlives the last extension of its library is one that the
\* library forgets to unregister (Socket: socket_send_all, socket_receive_all).
DanglingOnlyForgotten ==
    \A name \in globals :
      Ready(name[1]) = {} => name \in Registered(name[1]) \ Unregistered(name[1])

\* The globals of a loaded extension are defined, unless another extension of
\* the same library has been unloaded since.
GlobalsDefined ==
    \A h \in Live : extension[h].stage = "ready" /\ h \notin stale =>
      Registered(extension[h].library) \subseteq globals

\* The only constants that a script misses although their extension is loaded are
\* those of the shared module, when an extension that requires it was loaded
\* first (FireWatch loads Socket before ByteBuffer): a module is not run again.
ConstantsCaptured ==
    \A l \in Libraries : Ready(l) # {} /\ required[l] # TRUE => l = Shared /\ required[l] = FALSE
=============================================================================
