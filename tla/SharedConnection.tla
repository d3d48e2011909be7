---------------------------- MODULE SharedConnection ----------------------------
(***************************************************************************)
(* memory/db.py: every coroutine of the process writes through one SQLite  *)
(* connection.  A statement and its commit are two awaits, so the open     *)
(* transaction is everybody's: a commit makes all of it durable, and what  *)
(* a failed or cancelled caller has executed waits there for the next one. *)
(* The callers: single statements (Database.execute, for goals, receipts   *)
(* and selections), the patterns of the tool executor with their entry in  *)
(* the search index, and the curator that deletes the aged ones.           *)
(***************************************************************************)
EXTENDS Naturals

CONSTANTS Writes, Patterns,     \* the calls of this history
          RowIds,               \* the rowids SQLite has
          Stored,               \* <<rowid, pattern>> stored before it, past their retention
          MaxFaults             \* bound: failures and crashes

Calls == Writes \cup Patterns
Ids(rows) == {e[1] : e \in rows}
Aged == {e[2] : e \in Stored}

ASSUME SharedConnectionAssumption ==
  /\ Writes \cap Patterns = {} /\ Aged \cap Calls = {}
  /\ Ids(Stored) \subseteq RowIds /\ Stored \subseteq RowIds \X Aged
  /\ \A d, e \in Stored : d[1] = e[1] => d = e
  /\ MaxFaults \in Nat

VARIABLES disk,                 \* what is committed
          open,                 \* what the connection sees: disk and its open transaction
          pc,                   \* of each call: what it did last, or its result
          cleaner,              \* the step of Curator._cleanup_old_patterns
          listed,               \* the rowids it read
          undone,               \* calls of which a rollback took something back
          restored,             \* index entries whose deletion a rollback took back
          faults

rolledBack == <<undone, restored>>
vars == <<disk, open, pc, cleaner, listed, rolledBack, faults>>

Results == {"ok", "failed", "cancelled", "gone"}
Active(c) == pc[c] \notin Results

\* SQLite gives a rowid no row has; without AUTOINCREMENT it may be one of a deleted row.
FreeIds == RowIds \ Ids(open.rows)

Init ==
  /\ open = [writes |-> {}, rows |-> Stored, index |-> Stored] /\ disk = open
  /\ pc = [c \in Calls |-> "start"] /\ cleaner = "list" /\ listed = {} /\ faults = 0
  /\ undone = {} /\ restored = {}

-----------------------------------------------------------------------------
\* A call

\* Its statement is done by the connection's thread; the caller is there to go on, or
\* was cancelled meanwhile.
Goes(c, from, to) ==
  /\ pc[c] = from
  /\ pc' \in {[pc EXCEPT ![c] = to], [pc EXCEPT ![c] = "cancelled"]}
  /\ UNCHANGED <<cleaner, listed, rolledBack, faults>>

Execute(c) ==
  /\ c \in Writes /\ Goes(c, "start", "executed")
  /\ open' = [open EXCEPT !.writes = @ \cup {c}] /\ UNCHANGED disk

InsertRow(p) ==
  /\ p \in Patterns /\ Goes(p, "start", "row")
  /\ \E n \in FreeIds : open' = [open EXCEPT !.rows = @ \cup {<<n, p>>}]
  /\ UNCHANGED disk

\* INSERT ... SELECT rowid FROM patterns WHERE id = p: nothing if the row is not there.
InsertIndex(p) ==
  /\ p \in Patterns /\ Goes(p, "row", "executed")
  /\ open' = [open EXCEPT !.index = @ \cup {e \in open.rows : e[2] = p}] /\ UNCHANGED disk

\* Mutant: the answer is given without the commit.
AnswerUncommitted(c) == Goes(c, "executed", "ok") /\ UNCHANGED <<disk, open>>

\* All that is open is committed, whoever executed it.
Commit(c) == Goes(c, "executed", "ok") /\ disk' = open /\ UNCHANGED open

\* What is open and not committed: what calls have added, and what the curator deleted.
Added == {c \in Calls : \/ c \in open.writes \ disk.writes
                        \/ \E e \in (open.rows \ disk.rows) \cup (open.index \ disk.index) :
                             e[2] = c}
RollBack == /\ open' = disk /\ undone' = undone \cup Added
            /\ restored' = restored \cup (disk.index \ open.index)

\* Most failures leave the transaction open; after some (a full disk, an I/O error) SQLite
\* has rolled back all of it, whoever executed it.
MayRollBack == UNCHANGED <<open, rolledBack>> \/ RollBack

\* A statement or a commit raises; no caller rolls anything back.
Fail(c) ==
  /\ Active(c) /\ faults < MaxFaults /\ faults' = faults + 1
  /\ pc' = [pc EXCEPT ![c] = "failed"] /\ MayRollBack
  /\ UNCHANGED <<disk, cleaner, listed>>

-----------------------------------------------------------------------------
\* PatternStore.delete_older_than

Cleans(from, to) == cleaner = from /\ cleaner' = to /\ UNCHANGED <<pc, rolledBack, faults>>

AgedRows == {e \in open.rows : e[2] \in Aged}

ListAged ==
  /\ AgedRows # {} /\ Cleans("list", "listed") /\ listed' = Ids(AgedRows)
  /\ UNCHANGED <<disk, open>>

\* Mutant: the rows are deleted first.
DeleteRowsFirst ==
  /\ Cleans("listed", "index") /\ UNCHANGED <<disk, listed>>
  /\ open' = [open EXCEPT !.rows = @ \ AgedRows]

DeleteIndex ==
  /\ Cleans("listed", "index") /\ UNCHANGED <<disk, listed>>
  /\ open' = [open EXCEPT !.index = {e \in @ : e[1] \notin listed}]

CommitIndex == Cleans("index", "unindexed") /\ disk' = open /\ UNCHANGED <<open, listed>>

DeleteRows ==
  /\ Cleans("unindexed", "rows") /\ UNCHANGED <<disk, listed>>
  /\ open' = [open EXCEPT !.rows = @ \ AgedRows]

CommitRows ==
  /\ Cleans("rows", "list") /\ disk' = open /\ listed' = {} /\ UNCHANGED open

\* An exception ends Curator._periodic_loop for good.
CleanerFails ==
  /\ cleaner # "dead" /\ faults < MaxFaults /\ faults' = faults + 1
  /\ cleaner' = "dead" /\ MayRollBack /\ UNCHANGED <<disk, pc, listed>>

-----------------------------------------------------------------------------
\* The process ends and is started again: what was open is gone.
Crash ==
  /\ faults < MaxFaults /\ faults' = faults + 1
  /\ open' = disk /\ cleaner' = "list" /\ listed' = {}
  /\ pc' = [c \in Calls |-> IF Active(c) /\ pc[c] # "start" THEN "gone" ELSE pc[c]]
  /\ UNCHANGED <<disk, rolledBack>>

Call(c) == Execute(c) \/ InsertRow(c) \/ InsertIndex(c) \/ Commit(c)
Clean == ListAged \/ DeleteIndex \/ CommitIndex \/ DeleteRows \/ CommitRows

Next == (\E c \in Calls : Call(c) \/ Fail(c)) \/ Clean \/ CleanerFails \/ Crash

Spec == Init /\ [][Next]_vars

-----------------------------------------------------------------------------
Entries == RowIds \X (Aged \cup Patterns)
Contents == [writes : SUBSET Writes, rows : SUBSET Entries, index : SUBSET Entries]

\* Types; a rowid belongs to one pattern.
TypeOK ==
  /\ disk \in Contents /\ open \in Contents /\ listed \subseteq RowIds
  /\ pc \in [Calls -> {"start", "row", "executed"} \cup Results]
  /\ cleaner \in {"list", "listed", "index", "unindexed", "rows", "dead"}
  /\ undone \subseteq Calls /\ restored \subseteq Entries /\ faults \in 0..MaxFaults
  /\ \A d, e \in open.rows : d[1] = e[1] => d = e

Stays(c) == \/ c \in disk.writes
            \/ \E e \in disk.rows \cap disk.index : e[2] = c

\* A write that was answered is on disk, whatever its neighbours on the connection, a
\* cancel or a crash do afterwards: a pattern with its row and its index entry.  Except
\* for a write that a rollback took back, between its statement and its commit.
AckedIsDurable == \A c \in Calls : pc[c] = "ok" => Stays(c) \/ c \in undone

\* The search joins index and table on the rowid: an entry that outlived its row would
\* find another pattern, the next one to get that rowid.  It happens only to an entry of
\* an aged pattern whose deletion a rollback took back.
Outlived(db) == db.index \ db.rows
SearchMatches == \A e \in Outlived(open) \cup Outlived(disk) : e \in restored /\ e[2] \in Aged

\* Violated, each by a rollback between the two awaits of a neighbour: what is answered
\* is on disk, and what is found in the index has its row.
EveryAckIsDurable == \A c \in Calls : pc[c] = "ok" => Stays(c)
EveryEntryHasItsRow == Outlived(open) \cup Outlived(disk) = {}

=============================================================================
