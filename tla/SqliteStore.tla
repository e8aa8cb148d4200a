---------------------------- MODULE SqliteStore -----------------------------
(***************************************************************************)
(* The event database of the canister: an SQLite database in main memory   *)
(* behind the handle g_db (sqlite_bridge.c) and its snapshot in stable     *)
(* memory (sqlite_stable.c).  The operators say what each function makes   *)
(* of the database or of the snapshot; whether a call into SQLite succeeds *)
(* is their argument.                                                      *)
(*                                                                         *)
(* A row stands for an event and for the space it takes.  The snapshot is  *)
(* the only thing this canister writes to stable memory, and it is written *)
(* within one message: its format and its checksum are always in order.    *)
(***************************************************************************)
EXTENDS Integers, Sequences

CONSTANT MaxRows   \* rows that fit in SQLITE_STABLE_MAX_SIZE

ASSUME MaxRowsAssumption == MaxRows \in Nat

Databases == [open : BOOLEAN, rows : Seq(Nat), growable : BOOLEAN, room : Nat]
Snapshots == [magic : BOOLEAN, rows : Seq(Nat)]

Closed     == [open |-> FALSE, rows |-> << >>, growable |-> FALSE, room |-> 0]
NoSnapshot == [magic |-> FALSE, rows |-> << >>]

\* SQLite's own: an empty database that allocates as it needs.
sqlite3_open(ok) == IF ok THEN [Closed EXCEPT !.open = TRUE, !.growable = TRUE]
                          ELSE Closed

\* A handle that is there is kept.
sql_open(db, ok) == IF db.open THEN db ELSE sqlite3_open(ok)

\* SQLite's own: a database that was deserialized without
\* SQLITE_DESERIALIZE_RESIZEABLE has the pages it came with and no more; room
\* is the number of rows for which these have space.
HasSpace(db) == db.open /\ (db.growable \/ db.room > 0)

Insert(db, row) == [db EXCEPT !.rows = Append(@, row),
                              !.room = IF db.growable THEN @ ELSE @ - 1]

\* The database that was open is closed first, whatever happens next.
sql_deserialize(rows, room, ok) ==
  IF ok THEN [open |-> TRUE, rows |-> rows, growable |-> FALSE, room |-> room]
        ELSE Closed

\* What keeps a snapshot from being made: no database, no memory to serialize
\* it in, or too many rows.
saves(db, ok) == db.open /\ ok /\ Len(db.rows) <= MaxRows

\* The snapshot after a save; one that fails leaves the old one.
sqlite_stable_save(db, snapshot, ok) ==
  IF saves(db, ok) THEN [magic |-> TRUE, rows |-> db.rows] ELSE snapshot

sqlite_stable_has_snapshot(snapshot) == snapshot.magic

\* The database after a load of a snapshot that is there.
sqlite_stable_load(snapshot, room, ok) == sql_deserialize(snapshot.rows, room, ok)
=============================================================================
