----------------------------- MODULE LogStore -----------------------------
(***************************************************************************)
(* A Collection of src/internal/store/engine.go: a map in memory and an    *)
(* append-only log of CRC-checked records that is replayed at the start.   *)
(* The collection's mutex makes each operation atomic for the readers, but *)
(* not for a crash, nor for an error between its steps.                    *)
(***************************************************************************)
EXTENDS Integers, Sequences

CONSTANTS
  Key, Val, Absent,   \* as in KVStore
  NoWrite,            \* no write is in progress
  MaxLog,             \* bound on the records in the log
  MaxCrash,           \* bound on crashes
  TornWrites          \* TRUE: a write may put only a part of a record in the file

ASSUME LogAssumption ==
  /\ Absent \notin Val
  /\ MaxLog \in Nat /\ MaxCrash \in Nat
  /\ TornWrites \in BOOLEAN

VARIABLES
  mem,       \* Collection.data; after a crash, what it was
  file,      \* the log: records and, where a write was cut short, torn cells
  synced,    \* how many cells are known to be on the disk
  writing,   \* the record that was written but not yet synced
  handle,    \* Collection.f: "open", "nil" after a failed reopen, "down"
  crashes,   \* crashes so far
  unsure     \* writes not acknowledged, as in KVStore (observed only)

vars == <<mem, file, synced, writing, handle, crashes, unsure>>

Content == Val \cup {Absent}
Cell    == [key : Key, val : Content, torn : {FALSE}]
Torn    == [torn |-> TRUE]

LogTypeOK ==
  /\ mem \in [Key -> Content]
  /\ file \in Seq(Cell \cup {Torn})
  /\ synced \in 0..Len(file)
  /\ writing \in Cell \cup {NoWrite}
  /\ handle \in {"open", "nil", "down"}
  /\ crashes \in 0..MaxCrash
  /\ unsure \in [Key -> SUBSET Content]

LogInit ==
  /\ mem = [k \in Key |-> Absent]
  /\ file = <<>>
  /\ synced = 0
  /\ writing = NoWrite
  /\ handle = "open"
  /\ crashes = 0
  /\ unsure = [k \in Key |-> {}]

-----------------------------------------------------------------------------
(* load: replaying the log *)

\* The cells that replay gets to see.  Up to the first torn cell, all.  A torn
\* cell takes the bytes that follow for its own rest: the next record is lost
\* with it, and the read goes on out of step, until by chance it meets the
\* start of a record again or the end of the file.
Readable(f, R) ==
  /\ \A i \in R : ~f[i].torn /\ (i > 1 => ~f[i - 1].torn)
  /\ \A i \in 1..Len(f) :
       ~f[i].torn /\ (i = 1 \/ i - 1 \in R) => i \in R

\* The map a replay of the cells R of log f builds: a later record of an id
\* replaces an earlier one.
Replay(f, R) ==
  [k \in Key |->
     IF \E i \in R : f[i].key = k
     THEN f[CHOOSE i \in R : f[i].key = k /\ \A j \in R : f[j].key = k => j <= i].val
     ELSE Absent]

\* NewCollection: replay the log and open it for appending, as it is.
Load ==
  /\ handle = "down"
  /\ \E R \in SUBSET (1..Len(file)) :
       /\ Readable(file, R)
       /\ mem' = Replay(file, R)
  /\ unsure' = [k \in Key |-> IF unsure[k] = {} THEN {} ELSE unsure[k] \cup {mem[k]}]
  /\ handle' = "open"
  /\ UNCHANGED <<file, synced, writing, crashes>>

-----------------------------------------------------------------------------
(* Save and Delete: appendRecord, then the map *)

CellOf(k, v) == [key |-> k, val |-> v, torn |-> FALSE]

\* The whole record reaches the file with one write, or only a part of it does
\* and the operation fails.
AppendRecord(k, v) ==
  /\ handle = "open" /\ writing = NoWrite
  /\ Len(file) < MaxLog
  /\ v = Absent => mem[k] # Absent
  /\ unsure' = [unsure EXCEPT ![k] = @ \cup {v}]
  /\ \/ /\ file' = Append(file, CellOf(k, v))
        /\ writing' = CellOf(k, v)
     \/ /\ TornWrites
        /\ file' = Append(file, Torn)
        /\ UNCHANGED writing
  /\ UNCHANGED <<mem, synced, handle, crashes>>

\* The file is synced and the map updated.  Mutant: an update of the map only.
SyncRecord_NoSync ==
  /\ writing # NoWrite
  /\ mem' = [mem EXCEPT ![writing.key] = writing.val]
  /\ unsure' = [unsure EXCEPT ![writing.key] = {}]
  /\ writing' = NoWrite
  /\ UNCHANGED <<file, synced, handle, crashes>>

SyncRecord ==
  /\ writing # NoWrite
  /\ synced' = Len(file)
  /\ mem' = [mem EXCEPT ![writing.key] = writing.val]
  /\ unsure' = [unsure EXCEPT ![writing.key] = {}]
  /\ writing' = NoWrite
  /\ UNCHANGED <<file, handle, crashes>>

\* The sync fails: the operation returns the error, the record stays in the file.
SyncFails ==
  /\ writing # NoWrite
  /\ writing' = NoWrite
  /\ UNCHANGED <<mem, file, synced, handle, crashes, unsure>>

-----------------------------------------------------------------------------
(* Compact *)

LiveCells == {CellOf(k, mem[k]) : k \in {x \in Key : mem[x] # Absent}}

\* A log that says what the map says, once for each live id, in any order.
\* Mutant: ids are dropped from the new log.
IsCompaction_Partial(f) ==
  \A i \in 1..Len(f) : f[i].val = mem[f[i].key]

IsCompaction(f) ==
  /\ \A i \in 1..Len(f) : f[i].val = mem[f[i].key]
  /\ \A k \in Key : mem[k] # Absent => \E i \in 1..Len(f) : f[i].key = k

\* The new log is written aside, synced and renamed over the old one.  If it
\* cannot be opened again after that, the collection is left without a handle.
\* Mutant: what was synced of the old log counts for the new one.
Compact_StaleSync ==
  /\ handle \in {"open", "nil"} /\ writing = NoWrite
  /\ \E n \in 0..Len(file) : \E f \in [1..n -> LiveCells] :
       /\ \A i, j \in 1..n : f[i].key = f[j].key => i = j
       /\ IsCompaction(f)
       /\ file' = f
  /\ handle' \in {"open", "nil"}
  /\ UNCHANGED <<mem, synced, writing, crashes, unsure>>

Compact ==
  /\ handle \in {"open", "nil"} /\ writing = NoWrite
  /\ \E n \in 0..Len(file) : \E f \in [1..n -> LiveCells] :
       /\ \A i, j \in 1..n : f[i].key = f[j].key => i = j
       /\ IsCompaction(f)
       /\ file' = f
       /\ synced' = n
  /\ handle' \in {"open", "nil"}
  /\ UNCHANGED <<mem, writing, crashes, unsure>>

\* The rename fails: the old log is opened again, if it can be.  An earlier
\* error changes nothing at all.
CompactFails ==
  /\ handle \in {"open", "nil"} /\ writing = NoWrite
  /\ handle' \in {"open", "nil"}
  /\ UNCHANGED <<mem, file, synced, writing, crashes, unsure>>

-----------------------------------------------------------------------------
\* The process dies, perhaps with the whole machine: of the cells not synced a
\* part may be gone, the last of the rest cut short, and if a write was
\* in progress it may have been cut short as well.
Crash ==
  /\ handle # "down"
  /\ crashes < MaxCrash
  /\ crashes' = crashes + 1
  /\ handle' = "down"
  /\ writing' = NoWrite
  /\ \E n \in synced..Len(file) :
       \/ file' = SubSeq(file, 1, n)
       \/ TornWrites /\ n < Len(file) /\ file' = Append(SubSeq(file, 1, n), Torn)
  /\ UNCHANGED <<mem, synced, unsure>>

LogNext ==
  \/ \E k \in Key, v \in Content : AppendRecord(k, v)
  \/ SyncRecord \/ SyncFails \/ Compact \/ CompactFails \/ Crash \/ Load

LogSpec == LogInit /\ [][LogNext]_vars

-----------------------------------------------------------------------------
(* Properties *)

\* A collection is the map it promises to be: acknowledged writes survive
\* process crashes, power failures, failed syncs and compactions.  With torn
\* writes this is what "safe to stop" at a truncated record promises and what
\* appending after one breaks.
KV == INSTANCE KVStore WITH kv <- mem, doubt <- unsure

ImplementsKV == KV!KVSpec

\* "Truncated record at end of file -- safe to stop": a torn record at the very
\* end of the log costs nothing but itself, and so does any number of crashes,
\* failed writes and compactions before it.
TornTailHarmless ==
  [][\A k \in Key :
       /\ handle = "down" /\ handle' = "open"
       /\ unsure[k] = {}
       /\ \A i \in 1..Len(file) : file[i].torn => i = Len(file)
       => mem'[k] = mem[k]]_<<mem, handle>>
=============================================================================
