------------------------ MODULE GatewayStorageProofs ------------------------
(***************************************************************************)
(* Proofs, for every set of keys and values, of the safety properties of   *)
(* GatewayStorage.                                                         *)
(***************************************************************************)
EXTENDS GatewayStorage, TLAPS

Saving == pc \in {"enter", "drop", "create", "insert"}

\* Nothing is promised while a Save is under way.
NoPromiseWhileSaving == Saving => promise = NoMemory

\* When the private table's turn has come, the public table is as in memory.
PublicWritten ==
    Saving /\ table = "private" =>
        /\ fresh["public"]
        /\ mem["public"] # Nil => disk["public"] = RowOf(mem["public"])

\* The statements are executed for a table that could be formatted.
Formatted ==
    pc \in {"drop", "create", "insert"} =>
        mem[table] # Nil /\ ~FormatRaises(mem[table])

IInv ==
    /\ TypeOK
    /\ NoPromiseWhileSaving
    /\ PublicWritten
    /\ Formatted
    /\ SaveKeepsPromise
    /\ RowLostOnlyByBrokenSave
    /\ PrivateNotAhead
    /\ ReloadIsStable

-----------------------------------------------------------------------------
\* The markers for no table and no row are no contents.
LEMMA Markers ==
    /\ Nil \notin Contents /\ NoTable \notin Contents /\ NoRow \notin Contents
    /\ NoTable # NoRow
BY ContentsAssumption, DiskAssumption

\* What is read back of a value is a value or nothing, and is written unchanged
\* the next time.
LEMMA StoredType ==
    ASSUME NEW v \in Values \cup {Absent}
    PROVE  /\ Stored(v) \in Values \cup {Absent}
           /\ Stored(Stored(v)) = Stored(v)
           /\ Stored(v) \in {"huge", "object"} => Stored(v) = v
<1>1. Absent \notin Classes /\ Values \subseteq Classes
  BY ValuesAssumption
<1>2. CASE v = "fraction"
  BY <1>1, <1>2, ValuesAssumption DEF Stored, Classes
<1>3. CASE v = "infinite"
  BY <1>1, <1>3 DEF Stored, Classes
<1>4. CASE v \notin {"fraction", "infinite"}
  BY <1>4 DEF Stored
<1> QED
  BY <1>2, <1>3, <1>4

\* The row of contents is contents, and reading it once more changes nothing.
LEMMA RowOfType ==
    ASSUME NEW c \in Contents
    PROVE  /\ RowOf(c) \in Contents
           /\ RowOf(RowOf(c)) = RowOf(c)
<1>1. \A k \in Keys : c[k] \in Values \cup {Absent}
  BY DEF Contents
<1>2. RowOf(c) \in Contents
  BY <1>1, StoredType DEF RowOf, Contents
<1>3. \A k \in Keys : RowOf(RowOf(c))[k] = RowOf(c)[k]
  BY <1>1, StoredType DEF RowOf
<1> QED
  BY <1>2, <1>3 DEF RowOf

\* A row that could be formatted and inserted holds only what can be again.
LEMMA RowOfWritable ==
    ASSUME NEW c \in Contents, CanInsert(c), ~FormatRaises(c)
    PROVE  \A k \in Keys : RowOf(c)[k] \notin {"huge", "object"}
<1> SUFFICES ASSUME NEW k \in Keys, RowOf(c)[k] \in {"huge", "object"} PROVE FALSE
  OBVIOUS
<1>1. Absent \notin Classes /\ c[k] \in Values \cup {Absent}
  BY ValuesAssumption DEF Contents
<1>2. k \in StringKeys /\ c[k] = RowOf(c)[k]
  BY <1>1, StoredType DEF RowOf, Classes
<1>3. k \in Columns(c)
  BY <1>1, <1>2 DEF Columns, Classes
<1> QED
  BY <1>2, <1>3 DEF CanInsert, FormatRaises

-----------------------------------------------------------------------------
\* The initial state satisfies the inductive invariant.
LEMMA InitIInv == Init => IInv
<1> SUFFICES ASSUME Init PROVE IInv
  OBVIOUS
<1>1. TypeOK
  BY DEF Init, TypeOK, NoMemory, Memory, Tables
<1>2. NoPromiseWhileSaving /\ PublicWritten /\ Formatted
  BY DEF Init, NoPromiseWhileSaving, PublicWritten, Formatted, Saving
<1>3. SaveKeepsPromise /\ RowLostOnlyByBrokenSave /\ PrivateNotAhead /\ ReloadIsStable
  BY DEF Init, SaveKeepsPromise, RowLostOnlyByBrokenSave, PrivateNotAhead,
         ReloadIsStable, NoMemory, Tables
<1> QED
  BY <1>1, <1>2, <1>3 DEF IInv

\* Storage.Set changes memory only, and only between Saves.
LEMMA SetIInv ==
    ASSUME IInv, NEW t \in Tables, NEW k \in Keys, NEW v \in Values \cup {Absent},
           Set(t, k, v)
    PROVE  IInv'
<1> USE DEF IInv
<1>1. /\ pc = "idle" /\ UNCHANGED <<disk, pc, table, fresh, promise, had, hurt>>
  BY DEF Set
<1>2. mem' \in [Tables -> Memory]
  <2>1. CASE mem[t] = Nil
    BY <2>1 DEF Set, TypeOK, Memory, Contents
  <2>2. CASE mem[t] # Nil
    BY <2>2 DEF Set, TypeOK, Memory, Contents
  <2> QED
    BY <2>1, <2>2
<1>3. TypeOK'
  BY <1>1, <1>2 DEF TypeOK
<1>4. NoPromiseWhileSaving' /\ PublicWritten' /\ Formatted'
  BY <1>1 DEF NoPromiseWhileSaving, PublicWritten, Formatted, Saving
<1>5. SaveKeepsPromise' /\ RowLostOnlyByBrokenSave' /\ PrivateNotAhead' /\ ReloadIsStable'
  BY <1>1 DEF SaveKeepsPromise, RowLostOnlyByBrokenSave, Rewriting, PrivateNotAhead,
              ReloadIsStable
<1> QED
  BY <1>3, <1>4, <1>5

\* A Save begins by giving up the promise of the one before.
LEMMA BeginSaveIInv == ASSUME IInv, BeginSave PROVE IInv'
<1> USE DEF IInv, BeginSave
<1>1. TypeOK'
  BY DEF TypeOK, NoMemory, Memory, Tables
<1>2. NoPromiseWhileSaving' /\ PublicWritten' /\ Formatted'
  BY DEF NoPromiseWhileSaving, PublicWritten, Formatted
<1>3. SaveKeepsPromise' /\ PrivateNotAhead'
  BY DEF SaveKeepsPromise, PrivateNotAhead, NoMemory, Tables
<1>4. RowLostOnlyByBrokenSave' /\ ReloadIsStable'
  BY DEF RowLostOnlyByBrokenSave, Rewriting, ReloadIsStable
<1> QED
  BY <1>1, <1>2, <1>3, <1>4

\* What it takes for a table to be done: it is nil or on disk as in memory.
LEMMA TableDoneIInv ==
    ASSUME IInv, Saving, TableDone, disk' \in [Tables -> Contents \cup {NoTable, NoRow}],
           \A t \in Tables : t # table => disk'[t] = disk[t],
           mem[table] # Nil => disk'[table] = RowOf(mem[table])
    PROVE  NoPromiseWhileSaving' /\ PublicWritten' /\ Formatted' /\ SaveKeepsPromise'
           /\ PrivateNotAhead' /\ pc' \in {"enter", "idle"} /\ table' \in Tables
           /\ mem' = mem /\ promise' \in [Tables -> Memory]
           /\ fresh' \in [Tables -> BOOLEAN]
<1> USE DEF IInv, TableDone
<1>1. fresh' \in [Tables -> BOOLEAN] /\ fresh'[table] /\ table \in Tables
  BY DEF TypeOK
<1>2. CASE table = "public"
  <2>1. pc' = "enter" /\ table' = "private" /\ promise' = promise /\ promise = NoMemory
    BY <1>2 DEF NoPromiseWhileSaving
  <2>2. SaveKeepsPromise'
    BY <2>1 DEF SaveKeepsPromise, NoMemory, Tables
  <2>3. fresh'["public"] /\ mem' = mem
    BY <1>1, <1>2
  <2>4. PublicWritten'
    BY <1>2, <2>3 DEF PublicWritten
  <2> QED
    BY <1>1, <2>1, <2>2, <2>3, <2>4
       DEF NoPromiseWhileSaving, Formatted, PrivateNotAhead, TypeOK, Tables
<1>3. CASE table = "private"
  <2>1. pc' = "idle" /\ table' = "private" /\ promise' = mem /\ mem' = mem
    BY <1>3
  <2>2. fresh["public"] /\ (mem["public"] # Nil => disk["public"] = RowOf(mem["public"]))
    BY <1>3 DEF PublicWritten
  <2>3. SaveKeepsPromise'
    BY <1>3, <2>1, <2>2 DEF SaveKeepsPromise, Tables
  <2>4. fresh'["public"]
    BY <1>3, <2>2 DEF TypeOK, Tables
  <2> QED
    BY <1>1, <2>1, <2>3, <2>4
       DEF NoPromiseWhileSaving, PublicWritten, Formatted, PrivateNotAhead, Saving, TypeOK
<1> QED
  BY <1>1, <1>2, <1>3 DEF Tables

\* A table that is nil is done as it is.
LEMMA SkipTableIInv == ASSUME IInv, SkipTable PROVE IInv'
<1>1. Saving /\ mem[table] = Nil /\ TableDone /\ UNCHANGED <<disk, had, hurt>>
  BY DEF SkipTable, Saving
<1>2. /\ NoPromiseWhileSaving' /\ PublicWritten' /\ Formatted' /\ SaveKeepsPromise'
      /\ PrivateNotAhead' /\ pc' \in {"enter", "idle"} /\ table' \in Tables
      /\ mem' = mem /\ promise' \in [Tables -> Memory] /\ fresh' \in [Tables -> BOOLEAN]
  BY <1>1, TableDoneIInv DEF IInv, TypeOK
<1>3. TypeOK'
  BY <1>1, <1>2 DEF IInv, TypeOK
<1>4. RowLostOnlyByBrokenSave' /\ ReloadIsStable'
  BY <1>1, <1>2 DEF IInv, RowLostOnlyByBrokenSave, Rewriting, ReloadIsStable, SkipTable
<1> QED
  BY <1>2, <1>3, <1>4 DEF IInv

\* Formatting decides whether the statements are reached.
LEMMA FormatIInv == ASSUME IInv, FormatTable \/ FormatTableRaises PROVE IInv'
<1> USE DEF IInv
<1>1. TypeOK'
  BY DEF FormatTable, FormatTableRaises, TypeOK, NoMemory, Memory
<1>2. NoPromiseWhileSaving' /\ PublicWritten' /\ Formatted'
  BY DEF FormatTable, FormatTableRaises, NoPromiseWhileSaving, PublicWritten,
         Formatted, Saving
<1>3. SaveKeepsPromise' /\ RowLostOnlyByBrokenSave' /\ PrivateNotAhead' /\ ReloadIsStable'
  BY DEF FormatTable, FormatTableRaises, SaveKeepsPromise, RowLostOnlyByBrokenSave,
         Rewriting, PrivateNotAhead, ReloadIsStable
<1> QED
  BY <1>1, <1>2, <1>3

\* The row goes, and the table counts as being rewritten.
LEMMA DropIInv == ASSUME IInv, Drop PROVE IInv'
<1> USE DEF IInv
<1>1. /\ pc = "drop" /\ table \in Tables /\ promise = NoMemory
      /\ UNCHANGED <<mem, table, fresh, promise, had, hurt>>
      /\ \/ pc' = "create" /\ disk' = [disk EXCEPT ![table] = NoTable]
         \/ pc' = "idle" /\ disk' = disk
  BY DEF Drop, SaveFails, TypeOK, NoPromiseWhileSaving, Saving
<1>2. TypeOK'
  BY <1>1 DEF TypeOK
<1>3. NoPromiseWhileSaving' /\ PublicWritten' /\ Formatted'
  BY <1>1 DEF NoPromiseWhileSaving, PublicWritten, Formatted, Saving, TypeOK, Tables
<1>4. SaveKeepsPromise' /\ PrivateNotAhead'
  BY <1>1 DEF SaveKeepsPromise, PrivateNotAhead, NoMemory, Tables
<1>5. RowLostOnlyByBrokenSave' /\ ReloadIsStable'
  BY <1>1 DEF RowLostOnlyByBrokenSave, Rewriting, ReloadIsStable, TypeOK
<1> QED
  BY <1>2, <1>3, <1>4, <1>5

\* The table is there without its row; a failure leaves it hurt.
LEMMA CreateIInv == ASSUME IInv, Create PROVE IInv'
<1> USE DEF IInv
<1>1. /\ pc = "create" /\ table \in Tables /\ promise = NoMemory
      /\ UNCHANGED <<mem, table, fresh, promise, had>>
      /\ \/ pc' = "insert" /\ disk' = [disk EXCEPT ![table] = NoRow] /\ hurt' = hurt
         \/ pc' = "idle" /\ disk' = disk /\ hurt' = [hurt EXCEPT ![table] = TRUE]
  BY DEF Create, SaveFails, TypeOK, NoPromiseWhileSaving, Saving
<1>2. TypeOK'
  BY <1>1 DEF TypeOK
<1>3. NoPromiseWhileSaving' /\ PublicWritten' /\ Formatted'
  BY <1>1 DEF NoPromiseWhileSaving, PublicWritten, Formatted, Saving, TypeOK, Tables
<1>4. SaveKeepsPromise' /\ PrivateNotAhead'
  BY <1>1 DEF SaveKeepsPromise, PrivateNotAhead, NoMemory, Tables
<1>5. RowLostOnlyByBrokenSave' /\ ReloadIsStable'
  BY <1>1 DEF RowLostOnlyByBrokenSave, Rewriting, ReloadIsStable, TypeOK
<1> QED
  BY <1>2, <1>3, <1>4, <1>5

\* The row is there; a failure leaves the table hurt.
LEMMA InsertIInv == ASSUME IInv, Insert PROVE IInv'
<1> USE DEF IInv
<1>1. pc = "insert" /\ Saving /\ table \in Tables /\ promise = NoMemory
  BY DEF Insert, TypeOK, NoPromiseWhileSaving, Saving
<1>2. mem[table] \in Contents /\ ~FormatRaises(mem[table])
  BY <1>1 DEF Formatted, TypeOK, Memory
<1> DEFINE row == RowOf(mem[table])
<1>3. row \in Contents /\ RowOf(row) = row
  BY <1>2, RowOfType
<1>4. CASE /\ CanInsert(mem[table]) /\ TableDone
           /\ disk' = [disk EXCEPT ![table] = row]
           /\ had' = [had EXCEPT ![table] = TRUE]
           /\ hurt' = [hurt EXCEPT ![table] = FALSE]
  <2>1. \A k \in Keys : row[k] \notin {"huge", "object"}
    BY <1>2, <1>4, RowOfWritable
  <2> HIDE DEF row
  <2>2. /\ disk' \in [Tables -> Contents \cup {NoTable, NoRow}] /\ disk'[table] = row
        /\ \A t \in Tables : t # table => disk'[t] = disk[t]
    BY <1>1, <1>3, <1>4 DEF TypeOK
  <2>3. /\ NoPromiseWhileSaving' /\ PublicWritten' /\ Formatted' /\ SaveKeepsPromise'
        /\ PrivateNotAhead' /\ pc' \in {"enter", "idle"} /\ table' \in Tables
        /\ mem' = mem /\ promise' \in [Tables -> Memory] /\ fresh' \in [Tables -> BOOLEAN]
    BY <1>1, <1>4, <2>2, TableDoneIInv DEF row
  <2>4. TypeOK'
    BY <1>4, <2>2, <2>3 DEF TypeOK
  <2>5. row \notin {NoTable, NoRow}
    BY <1>3, Markers
  <2>6. RowLostOnlyByBrokenSave'
    <3> SUFFICES ASSUME NEW t \in Tables, had'[t], disk'[t] \in {NoTable, NoRow}
                 PROVE  hurt'[t]
      BY DEF RowLostOnlyByBrokenSave
    <3>1. t # table
      BY <2>2, <2>5
    <3> QED
      BY <3>1, <1>4, <2>2 DEF RowLostOnlyByBrokenSave, Rewriting, TypeOK
  <2>7. ReloadIsStable'
    <3> SUFFICES ASSUME NEW t \in Tables, disk'[t] \notin {NoTable, NoRow}
                 PROVE  /\ RowOf(disk'[t]) = disk'[t]
                        /\ \A k \in Keys : disk'[t][k] \notin {"huge", "object"}
      BY DEF ReloadIsStable, RowOf
    <3> QED
      BY <1>3, <2>1, <2>2 DEF ReloadIsStable
  <2> QED
    BY <2>3, <2>4, <2>6, <2>7
<1>5. CASE SaveFails /\ hurt' = [hurt EXCEPT ![table] = TRUE] /\ UNCHANGED disk
  <2>1. TypeOK'
    BY <1>5 DEF SaveFails, TypeOK
  <2>2. NoPromiseWhileSaving' /\ PublicWritten' /\ Formatted'
    BY <1>5 DEF SaveFails, NoPromiseWhileSaving, PublicWritten, Formatted, Saving
  <2>3. SaveKeepsPromise' /\ PrivateNotAhead' /\ ReloadIsStable'
    BY <1>5 DEF SaveFails, SaveKeepsPromise, PrivateNotAhead, ReloadIsStable
  <2>4. RowLostOnlyByBrokenSave'
    BY <1>5 DEF SaveFails, RowLostOnlyByBrokenSave, Rewriting, TypeOK
  <2> QED
    BY <2>1, <2>2, <2>3, <2>4
<1> QED
  BY <1>4, <1>5 DEF Insert

\* The process ends: a table that was being rewritten is hurt.
LEMMA StopIInv == ASSUME IInv, Stop PROVE IInv'
<1> USE DEF IInv, Stop
<1>1. TypeOK'
  BY DEF TypeOK, NoMemory, Memory
<1>2. NoPromiseWhileSaving' /\ PublicWritten' /\ Formatted'
  BY DEF NoPromiseWhileSaving, PublicWritten, Formatted, Saving
<1>3. SaveKeepsPromise' /\ PrivateNotAhead' /\ ReloadIsStable'
  BY DEF SaveKeepsPromise, PrivateNotAhead, ReloadIsStable
<1>4. RowLostOnlyByBrokenSave'
  BY DEF RowLostOnlyByBrokenSave, Rewriting, TypeOK
<1> QED
  BY <1>1, <1>2, <1>3, <1>4

\* Load changes memory only.
LEMMA LoadIInv ==
    ASSUME IInv, NEW masked \in SUBSET Tables, Load(masked) PROVE IInv'
<1> USE DEF IInv, Load
<1>1. \A t \in Tables : LoadTable(t) \in Memory
  BY DEF LoadTable, TypeOK, Memory
<1>2. TypeOK'
  BY <1>1 DEF TypeOK, Memory
<1>3. NoPromiseWhileSaving' /\ PublicWritten' /\ Formatted'
  BY DEF NoPromiseWhileSaving, PublicWritten, Formatted, Saving
<1>4. SaveKeepsPromise' /\ PrivateNotAhead' /\ ReloadIsStable' /\ RowLostOnlyByBrokenSave'
  BY DEF SaveKeepsPromise, PrivateNotAhead, ReloadIsStable, RowLostOnlyByBrokenSave, Rewriting
<1> QED
  BY <1>2, <1>3, <1>4

\* Every step of the storage keeps the inductive invariant.
LEMMA NextIInv == IInv /\ [Next]_vars => IInv'
<1> SUFFICES ASSUME IInv, [Next]_vars PROVE IInv'
  OBVIOUS
<1>1. CASE SetAny
  BY <1>1, SetIInv DEF SetAny
<1>2. CASE BeginSave
  BY <1>2, BeginSaveIInv
<1>3. CASE SkipTable
  BY <1>3, SkipTableIInv
<1>4. CASE FormatTable \/ FormatTableRaises
  BY <1>4, FormatIInv
<1>5. CASE Drop
  BY <1>5, DropIInv
<1>6. CASE Create
  BY <1>6, CreateIInv
<1>7. CASE Insert
  BY <1>7, InsertIInv
<1>8. CASE Stop
  BY <1>8, StopIInv
<1>9. CASE LoadAny
  BY <1>9, LoadIInv DEF LoadAny
<1>10. CASE UNCHANGED vars
  BY <1>10 DEF IInv, vars, TypeOK, NoPromiseWhileSaving, PublicWritten, Formatted, Saving,
     SaveKeepsPromise, RowLostOnlyByBrokenSave, Rewriting, PrivateNotAhead, ReloadIsStable
<1> QED
  BY <1>1, <1>2, <1>3, <1>4, <1>5, <1>6, <1>7, <1>8, <1>9, <1>10 DEF Next

\* The inductive invariant holds in every behaviour of the storage.
THEOREM Invariant == Spec => []IInv
BY InitIInv, NextIInv, PTL DEF Spec

\* The storage's state has its types.
THEOREM TypeCorrect == Spec => []TypeOK
<1>1. IInv => TypeOK
  BY DEF IInv
<1> QED
  BY <1>1, Invariant, PTL

\* What a successful Save wrote stays until the next Save, through any number
\* of crashes and restarts.
THEOREM Durability == Spec => []SaveKeepsPromise
<1>1. IInv => SaveKeepsPromise
  BY DEF IInv
<1> QED
  BY <1>1, Invariant, PTL

\* A row is lost only by a save of its own table that failed or was cut off.
THEOREM LossIsExplained == Spec => []RowLostOnlyByBrokenSave
<1>1. IInv => RowLostOnlyByBrokenSave
  BY DEF IInv
<1> QED
  BY <1>1, Invariant, PTL

\* The private table is completed only after the public one.
THEOREM PublicFirst == Spec => []PrivateNotAhead
<1>1. IInv => PrivateNotAhead
  BY DEF IInv
<1> QED
  BY <1>1, Invariant, PTL

\* What can be read from disk can be written again and reads the same.
THEOREM ReloadStable == Spec => []ReloadIsStable
<1>1. IInv => ReloadIsStable
  BY DEF IInv
<1> QED
  BY <1>1, Invariant, PTL

\* Whatever fails and crashes, what was saved stays and the public table is first.
THEOREM SavesInOrder == Spec => []SavedInOrder
BY Durability, PublicFirst, PTL DEF SavedInOrder
=============================================================================
