--------------------------- MODULE GatewayStorage ---------------------------
(***************************************************************************)
(* The storage of Gateway.lua: the public and the private table in memory, *)
(* Storage.Save, which rewrites each SQLite table with DROP, CREATE and    *)
(* INSERT, Storage.Load, and the SQLite3 extension they call.  A statement *)
(* succeeds or fails as a whole (SQLite, external); the process can end    *)
(* between any two of them.                                                *)
(*                                                                         *)
(* A table's contents map keys to values; a value stands for its class:    *)
(*   "a", "b"    strings, integers, booleans: what is read is what was     *)
(*               written                                                   *)
(*   "fraction"  a number whose fraction %f rounds, to "rounded"           *)
(*   "infinite"  inf or nan: written as text that tonumber rejects         *)
(*   "huge"      integral but no 64 bit integer: string.format raises      *)
(*   "object"    any other type, or a string with a quote in it: INSERT    *)
(*               is no valid statement                                     *)
(***************************************************************************)
CONSTANTS Keys,        \* the keys of Storage.Set
          StringKeys,  \* those that are strings: SaveTable skips the others
          Values,      \* the values of Storage.Set
          Nil,         \* no table in memory
          Absent,      \* no value for a key
          NoTable,     \* no table on disk
          NoRow        \* a table on disk without its row

ASSUME KeysAssumption == StringKeys \subseteq Keys
\* The classes of values SaveTable tells apart.
Classes == {"a", "b", "fraction", "rounded", "infinite", "huge", "object"}

ASSUME ValuesAssumption ==
    /\ Values \subseteq Classes
    /\ Absent \notin Classes
    /\ "fraction" \in Values => "rounded" \in Values

Tables == {"public", "private"}

Contents == [Keys -> Values \cup {Absent}]

ASSUME ContentsAssumption == {Nil, NoTable, NoRow} \cap Contents = {}
ASSUME DiskAssumption == NoTable # NoRow

VARIABLES mem,      \* Gateway.Private.Storage.Public and .Private
          disk,     \* the tables storage_public and storage_private
          pc,       \* idle, the next statement of SaveTable, or down
          table,    \* the table SaveTable is working on
          fresh,    \* history: SaveTable returned true in the last Save begun
          promise,  \* history: memory as the last Save wrote it, if it returned
                    \* true and no other has begun
          had,      \* history: the table has had its row
          hurt      \* history: its last save failed or was cut off after DROP

vars == <<mem, disk, pc, table, fresh, promise, had, hurt>>

NoMemory == [t \in Tables |-> Nil]

Init ==
    /\ mem = NoMemory
    /\ disk = [t \in Tables |-> NoTable]
    /\ pc = "down"
    /\ table = "public"
    /\ fresh = [t \in Tables |-> FALSE]
    /\ promise = NoMemory
    /\ had = [t \in Tables |-> FALSE]
    /\ hurt = [t \in Tables |-> FALSE]

-----------------------------------------------------------------------------
\* Formatting a value into a column and parsing it back.
Stored(v) ==
    CASE v = "fraction" -> "rounded"
      [] v = "infinite" -> Absent
      [] OTHER          -> v

Columns(c) == {k \in StringKeys : c[k] # Absent}

\* The contents LoadTable reads from the row SaveTable writes.
RowOf(c) == [k \in Keys |-> IF k \in StringKeys THEN Stored(c[k]) ELSE Absent]

\* CREATE TABLE needs a column.
CanCreate(c) == Columns(c) # {}

\* Mutant of CanInsert: a value of another type is written as some text.
CanInsertObjects(c) == Columns(c) # {}

\* INSERT needs a value for each column.
CanInsert(c) == \A k \in Columns(c) : c[k] # "object"

\* string.format('%i') has no representation for the value.
FormatRaises(c) == \E k \in Columns(c) : c[k] = "huge"

-----------------------------------------------------------------------------
\* Storage.Set, and its private twin; Absent is nil and removes the key.
Set(t, k, v) ==
    /\ pc = "idle"
    /\ mem' = [mem EXCEPT ![t] =
                 [IF @ = Nil THEN [j \in Keys |-> Absent] ELSE @ EXCEPT ![k] = v]]
    /\ UNCHANGED <<disk, pc, table, fresh, promise, had, hurt>>

-----------------------------------------------------------------------------
\* Mutant of BeginSave: no Save is tried once one has failed.
BeginSaveUnlessFailed ==
    /\ pc = "idle"
    /\ \A t \in Tables : ~hurt[t]
    /\ pc' = "enter"
    /\ table' = "public"
    /\ fresh' = [t \in Tables |-> FALSE]
    /\ promise' = NoMemory
    /\ UNCHANGED <<mem, disk, had, hurt>>

\* Storage.Save begins, with the public table.
BeginSave ==
    /\ pc = "idle"
    /\ pc' = "enter"
    /\ table' = "public"
    /\ fresh' = [t \in Tables |-> FALSE]
    /\ promise' = NoMemory
    /\ UNCHANGED <<mem, disk, had, hurt>>

\* SaveTable returns true: the private table follows the public one, and after
\* it Save returns true.
TableDone ==
    /\ fresh' = [fresh EXCEPT ![table] = TRUE]
    /\ IF table = "public"
         THEN /\ pc' = "enter"
              /\ table' = "private"
              /\ UNCHANGED promise
         ELSE /\ pc' = "idle"
              /\ promise' = mem
              /\ UNCHANGED table
    /\ UNCHANGED mem

\* Mutant of SaveFails: Save goes on with the private table.
SaveFailsAndContinues ==
    /\ IF table = "public"
         THEN pc' = "enter" /\ table' = "private"
         ELSE pc' = "idle" /\ UNCHANGED table
    /\ UNCHANGED <<mem, fresh, promise, had>>

\* SaveTable and with it Save return false; the caller only prints a message.
SaveFails ==
    /\ pc' = "idle"
    /\ UNCHANGED <<mem, table, fresh, promise, had>>

\* SaveTable does nothing for a table that is nil.
SkipTable ==
    /\ pc = "enter"
    /\ mem[table] = Nil
    /\ TableDone
    /\ UNCHANGED <<disk, had, hurt>>

\* SaveTable formats the columns.
FormatTable ==
    /\ pc = "enter"
    /\ mem[table] # Nil
    /\ ~FormatRaises(mem[table])
    /\ pc' = "drop"
    /\ UNCHANGED <<mem, disk, table, fresh, promise, had, hurt>>

\* The script's error ends the process.
FormatTableRaises ==
    /\ pc = "enter"
    /\ mem[table] # Nil
    /\ FormatRaises(mem[table])
    /\ mem' = NoMemory
    /\ pc' = "down"
    /\ UNCHANGED <<disk, table, fresh, promise, had, hurt>>

\* Mutant of Drop: both tables are dropped before either is written.
DropBoth ==
    /\ pc = "drop"
    /\ \/ /\ disk' = [t \in Tables |-> NoTable]
          /\ pc' = "create"
          /\ UNCHANGED <<mem, table, fresh, promise, had>>
       \/ SaveFails /\ UNCHANGED disk
    /\ UNCHANGED hurt

\* DROP TABLE IF EXISTS
Drop ==
    /\ pc = "drop"
    /\ \/ /\ disk' = [disk EXCEPT ![table] = NoTable]
          /\ pc' = "create"
          /\ UNCHANGED <<mem, table, fresh, promise, had>>
       \/ SaveFails /\ UNCHANGED disk
    /\ UNCHANGED hurt

\* CREATE TABLE
Create ==
    /\ pc = "create"
    /\ \/ /\ CanCreate(mem[table])
          /\ disk' = [disk EXCEPT ![table] = NoRow]
          /\ pc' = "insert"
          /\ UNCHANGED <<mem, table, fresh, promise, had, hurt>>
       \/ /\ SaveFails
          /\ hurt' = [hurt EXCEPT ![table] = TRUE]
          /\ UNCHANGED disk

\* INSERT INTO
Insert ==
    /\ pc = "insert"
    /\ \/ /\ CanInsert(mem[table])
          /\ disk' = [disk EXCEPT ![table] = RowOf(mem[table])]
          /\ TableDone
          /\ had' = [had EXCEPT ![table] = TRUE]
          /\ hurt' = [hurt EXCEPT ![table] = FALSE]
       \/ /\ SaveFails
          /\ hurt' = [hurt EXCEPT ![table] = TRUE]
          /\ UNCHANGED disk

-----------------------------------------------------------------------------
\* The process ends, by a crash or at the end of the script.
Stop ==
    /\ pc # "down"
    /\ mem' = NoMemory
    /\ pc' = "down"
    /\ hurt' = IF pc \in {"create", "insert"}
                 THEN [hurt EXCEPT ![table] = TRUE]
                 ELSE hurt
    /\ UNCHANGED <<disk, table, fresh, promise, had>>

\* LoadTable when its queries succeed: a table without its row is read as nil.
LoadTable(t) == IF disk[t] \in {NoTable, NoRow} THEN Nil ELSE disk[t]

\* Gateway.Init opens the database and Storage.Load reads both tables.  The
\* query on sqlite_master fails for the tables in masked, which TableExists
\* reports as their absence.  (When a SELECT fails Load does, and with it Init.)
Load(masked) ==
    /\ pc = "down"
    /\ mem' = [t \in Tables |-> IF t \in masked THEN Nil ELSE LoadTable(t)]
    /\ pc' = "idle"
    /\ UNCHANGED <<disk, table, fresh, promise, had, hurt>>

SetAny  == \E t \in Tables, k \in Keys, v \in Values \cup {Absent} : Set(t, k, v)
LoadAny == \E masked \in SUBSET Tables : Load(masked)

SaveStep == SkipTable \/ FormatTable \/ FormatTableRaises \/ Drop \/ Create \/ Insert

Next ==
    \/ SetAny
    \/ BeginSave
    \/ SkipTable
    \/ FormatTable
    \/ FormatTableRaises
    \/ Drop
    \/ Create
    \/ Insert
    \/ Stop
    \/ LoadAny

Spec == Init /\ [][Next]_vars

\* Gateway saves again and again (the SaveStorage event), a started program loads
\* its tables, and a statement that can succeed does not fail for ever.
Fairness ==
    /\ WF_vars(BeginSave)
    /\ WF_vars(SaveStep)
    /\ WF_vars(LoadAny)
    /\ \A t \in Tables :
        /\ SF_vars(Drop /\ table = t /\ pc' = "create")
        /\ SF_vars(Create /\ table = t /\ pc' = "insert")
        /\ SF_vars(Insert /\ table = t /\ fresh'[t])

FairSpec == Spec /\ Fairness

-----------------------------------------------------------------------------
Memory == Contents \cup {Nil}

\* The type invariant of the storage.
TypeOK ==
    /\ mem \in [Tables -> Memory]
    /\ disk \in [Tables -> Contents \cup {NoTable, NoRow}]
    /\ pc \in {"idle", "enter", "drop", "create", "insert", "down"}
    /\ table \in Tables
    /\ fresh \in [Tables -> BOOLEAN]
    /\ promise \in [Tables -> Memory]
    /\ had \in [Tables -> BOOLEAN]
    /\ hurt \in [Tables -> BOOLEAN]

\* SaveTable is between the DROP and the end of the INSERT of table t.
Rewriting(t) == table = t /\ pc \in {"create", "insert"}

\* What a Save that returned true has written stays on disk, whatever is set in
\* memory and however often the process ends, until another Save begins.
SaveKeepsPromise ==
    \A t \in Tables : promise[t] # Nil => disk[t] = RowOf(promise[t])

\* A row once written is missing only while it is rewritten, or after a save of
\* that very table that failed or was cut off behind its DROP.
RowLostOnlyByBrokenSave ==
    \A t \in Tables :
        had[t] /\ disk[t] \in {NoTable, NoRow} => Rewriting(t) \/ hurt[t]

\* The private table never gets ahead of the public one: in each Save it is
\* completed only after the public table, also when a Save is cut off.
PrivateNotAhead == fresh["private"] => fresh["public"]

\* What was saved stays, and the two tables are saved in their order.
SavedInOrder == SaveKeepsPromise /\ PrivateNotAhead

\* What Load reads can be saved again and then reads the same: formatting and
\* parsing settle after one round, and no value is read that cannot be written.
ReloadIsStable ==
    \A t \in Tables : disk[t] \notin {NoTable, NoRow} =>
        /\ RowOf(disk[t]) = disk[t]
        /\ \A k \in Keys : disk[t][k] \notin {"huge", "object"}

Savable(t) == mem[t] # Nil =>
    CanCreate(mem[t]) /\ CanInsert(mem[t]) /\ ~FormatRaises(mem[t])

OnDisk(t) == mem[t] # Nil => disk[t] = RowOf(mem[t])

\* A failed save is made good by a later one: when memory stays as it is and can
\* be saved, both tables come to be on disk, time and again.
EventuallySaved ==
    /\ <>[][BeginSave \/ SaveStep \/ LoadAny]_vars
    /\ <>[](\A t \in Tables : Savable(t))
    => []<>(\A t \in Tables : OnDisk(t))
=============================================================================
