----------------------------- MODULE AgentWorkProofs -----------------------------
(***************************************************************************)
(* What holds of the parts of AgentWork for every value of the constants:  *)
(* of the shared connection for every number of callers, whether or not a  *)
(* failing statement rolls back what is open, then of the agent's turns,   *)
(* of the router and of the shell tool.                                    *)
(***************************************************************************)
EXTENDS AgentWork, Sequences, WellFoundedInduction, TLAPS

\* What a caller has executed is open, and what it was told is done is on disk as well,
\* unless a rollback took it back.
Has(db, c) == \/ c \in db.writes
              \/ \E e \in db.rows \cap db.index : e[2] = c
HasRow(db, p) == \E e \in db.rows : e[2] = p

RowThere == \A p \in Patterns : pc[p] = "row" => p \in undone \/ HasRow(open, p)
ExecutedIsOpen == \A c \in Calls : pc[c] = "executed" => c \in undone \/ Has(open, c)
OkIsKept == \A c \in Calls : pc[c] = "ok" => c \in undone \/ (Has(open, c) /\ Has(disk, c))

\* The curator deletes the entries of the aged rows and, after them, the rows.  Before it
\* begins, nothing of that is open, so that a rollback changes nothing of what it listed.
AgedAlike(rows1, rows2) == \A e \in Entries : e[2] \in Aged => (e \in rows1 <=> e \in rows2)
NothingBegun == cleaner \in {"list", "listed"} => AgedAlike(open.rows, disk.rows)
ListedAreAged == cleaner = "listed" => listed = Ids(AgedRows)
AgedUnindexed == \A e \in open.index : e[2] \in Aged => e \in restored
UnindexedFirst == cleaner \in {"index", "unindexed", "rows"} => AgedUnindexed
Functional(rows) == \A d, e \in rows : d[1] = e[1] => d = e

IInv == /\ TypeOK /\ RowThere /\ ExecutedIsOpen /\ OkIsKept /\ NothingBegun
        /\ ListedAreAged /\ UnindexedFirst /\ Functional(disk.rows) /\ SearchMatches

-----------------------------------------------------------------------------
\* Types are kept; so is that a rowid has one pattern, on disk and in the transaction.
LEMMA InitIInv == Init => IInv
<1> SUFFICES ASSUME Init PROVE IInv
  OBVIOUS
<1>1. TypeOK
  BY SharedConnectionAssumption DEF Init, TypeOK, Contents, Entries, Results, Aged
<1>2. RowThere /\ ExecutedIsOpen /\ OkIsKept
  BY DEF Init, RowThere, ExecutedIsOpen, OkIsKept, Calls
<1>3. /\ NothingBegun /\ ListedAreAged /\ UnindexedFirst /\ Functional(disk.rows)
      /\ SearchMatches
  BY SharedConnectionAssumption
  DEF Init, NothingBegun, AgedAlike, ListedAreAged, UnindexedFirst, Functional, SearchMatches,
      Outlived
<1> QED
  BY <1>1, <1>2, <1>3 DEF IInv
-----------------------------------------------------------------------------
\* A call's own step, or its cancellation: the others keep their place.
LEMMA StepOfCall ==
  ASSUME NEW c \in Calls, NEW from, NEW to, IInv, Goes(c, from, to),
         from \in {"start", "row", "executed"}, to \in {"row", "executed", "ok"}
  PROVE  /\ pc' \in [Calls -> {"start", "row", "executed"} \cup Results]
         /\ \A d \in Calls : d # c => pc'[d] = pc[d]
         /\ pc'[c] \in {to, "cancelled"} /\ pc[c] = from
         /\ UNCHANGED <<cleaner, listed, undone, restored, faults>>
BY DEF Goes, IInv, TypeOK, Results, rolledBack

\* Database.execute for a single statement.
LEMMA ExecuteIInv == ASSUME NEW c \in Calls, IInv, Execute(c) PROVE IInv'
<1> USE DEF IInv, TypeOK, Contents, Has
<1>1. /\ open'.writes = open.writes \cup {c} /\ open'.rows = open.rows
      /\ open'.index = open.index /\ open' \in Contents /\ disk' = disk /\ c \in Writes
  BY DEF Execute
<1>2. /\ pc' \in [Calls -> {"start", "row", "executed"} \cup Results]
      /\ \A d \in Calls : d # c => pc'[d] = pc[d]
      /\ pc'[c] \in {"executed", "cancelled"} /\ pc[c] = "start"
      /\ UNCHANGED <<cleaner, listed, undone, restored, faults>>
  BY StepOfCall DEF Execute
<1>3. c \notin Patterns
  BY <1>1, SharedConnectionAssumption
<1>4. TypeOK'
  BY <1>1, <1>2
<1>5. RowThere'
  BY <1>1, <1>2, <1>3 DEF RowThere, HasRow, Calls
<1>6. ExecutedIsOpen'
  BY <1>1, <1>2 DEF ExecutedIsOpen
<1>7. OkIsKept'
  BY <1>1, <1>2 DEF OkIsKept
<1>8. ListedAreAged' /\ UnindexedFirst' /\ Functional(disk.rows)' /\ SearchMatches'
  BY <1>1, <1>2
  DEF ListedAreAged, AgedRows, UnindexedFirst, AgedUnindexed, Functional, SearchMatches, Outlived
<1>9. NothingBegun'
  BY <1>1, <1>2 DEF NothingBegun, AgedAlike
<1> QED
  BY <1>4, <1>5, <1>6, <1>7, <1>8, <1>9

\* The row of a pattern gets a rowid that no row has.
LEMMA InsertRowIInv == ASSUME NEW c \in Calls, IInv, InsertRow(c) PROVE IInv'
<1> USE DEF IInv, TypeOK, Contents, Entries, Has
<1>1. PICK n \in FreeIds : open' = [open EXCEPT !.rows = @ \cup {<<n, c>>}]
  BY DEF InsertRow
<1>2. /\ open'.writes = open.writes /\ open'.rows = open.rows \cup {<<n, c>>}
      /\ open'.index = open.index /\ disk' = disk /\ c \in Patterns /\ c \notin Aged
      /\ n \in RowIds /\ n \notin Ids(open.rows)
  BY <1>1, SharedConnectionAssumption DEF InsertRow, FreeIds, Calls
<1>3. /\ pc' \in [Calls -> {"start", "row", "executed"} \cup Results]
      /\ \A d \in Calls : d # c => pc'[d] = pc[d]
      /\ pc'[c] \in {"row", "cancelled"} /\ pc[c] = "start"
      /\ UNCHANGED <<cleaner, listed, undone, restored, faults>>
  BY StepOfCall DEF InsertRow
<1>4. \A e \in open.rows : e[1] # n
  BY <1>2 DEF Ids
<1>5. open' \in Contents
  BY <1>1, <1>2
<1>6. TypeOK'
  BY <1>2, <1>3, <1>4, <1>5
<1>7. RowThere'
  <2>1. <<n, c>> \in open'.rows /\ <<n, c>>[2] = c
    BY <1>2
  <2>2. \A e \in open.rows : e \in open'.rows
    BY <1>2
  <2> QED
    BY <1>3, <2>1, <2>2 DEF RowThere, HasRow, Calls
<1>8. ExecutedIsOpen' /\ OkIsKept'
  BY <1>2, <1>3 DEF ExecutedIsOpen, OkIsKept
<1>9. ListedAreAged'
  <2>1. AgedRows' = AgedRows
    BY <1>2 DEF AgedRows
  <2> QED
    BY <1>3, <2>1 DEF ListedAreAged, Ids
<1>10. UnindexedFirst' /\ Functional(disk.rows)' /\ SearchMatches'
  BY <1>2, <1>3 DEF UnindexedFirst, AgedUnindexed, Functional, SearchMatches, Outlived
<1>11. NothingBegun'
  BY <1>2, <1>3 DEF NothingBegun, AgedAlike
<1> QED
  BY <1>6, <1>7, <1>8, <1>9, <1>10, <1>11

\* Its entry is of the row it finds under its name.
LEMMA InsertIndexIInv == ASSUME NEW c \in Calls, IInv, InsertIndex(c) PROVE IInv'
<1> USE DEF IInv, TypeOK, Contents, Has
<1>1. /\ open'.writes = open.writes /\ open'.rows = open.rows
      /\ open'.index = open.index \cup {e \in open.rows : e[2] = c}
      /\ open' \in Contents /\ disk' = disk /\ c \in Patterns /\ c \notin Aged
  BY SharedConnectionAssumption DEF InsertIndex, Calls
<1>2. /\ pc' \in [Calls -> {"start", "row", "executed"} \cup Results]
      /\ \A d \in Calls : d # c => pc'[d] = pc[d]
      /\ pc'[c] \in {"executed", "cancelled"} /\ pc[c] = "row"
      /\ UNCHANGED <<cleaner, listed, undone, restored, faults>>
  BY StepOfCall DEF InsertIndex
<1>3. TypeOK'
  BY <1>1, <1>2
<1>4. RowThere'
  BY <1>1, <1>2 DEF RowThere, HasRow, Calls
<1>5. ExecutedIsOpen'
  <2>1. c \in undone \/ HasRow(open, c)
    BY <1>1, <1>2 DEF RowThere
  <2>2. HasRow(open, c) => Has(open, c)'
    BY <1>1 DEF HasRow
  <2> QED
    BY <1>1, <1>2, <2>1, <2>2 DEF ExecutedIsOpen
<1>6. OkIsKept'
  BY <1>1, <1>2 DEF OkIsKept
<1>7. ListedAreAged' /\ UnindexedFirst' /\ Functional(disk.rows)' /\ SearchMatches'
  BY <1>1, <1>2
  DEF ListedAreAged, AgedRows, UnindexedFirst, AgedUnindexed, Functional, SearchMatches, Outlived
<1>8. NothingBegun'
  BY <1>1, <1>2 DEF NothingBegun, AgedAlike
<1> QED
  BY <1>3, <1>4, <1>5, <1>6, <1>7, <1>8

\* A commit makes durable what every caller has executed.
LEMMA CommitIInv == ASSUME NEW c \in Calls, IInv, Commit(c) PROVE IInv'
<1> USE DEF IInv, TypeOK
<1>1. open' = open /\ disk' = open
  BY DEF Commit
<1>2. /\ pc' \in [Calls -> {"start", "row", "executed"} \cup Results]
      /\ \A d \in Calls : d # c => pc'[d] = pc[d]
      /\ pc'[c] \in {"ok", "cancelled"} /\ pc[c] = "executed"
      /\ UNCHANGED <<cleaner, listed, undone, restored, faults>>
  BY StepOfCall DEF Commit
<1>3. TypeOK' /\ Functional(disk.rows)'
  BY <1>1, <1>2 DEF Functional
<1>4. RowThere' /\ ExecutedIsOpen' /\ OkIsKept'
  BY <1>1, <1>2 DEF RowThere, ExecutedIsOpen, OkIsKept, Calls, Has, HasRow
<1>5. NothingBegun' /\ ListedAreAged' /\ UnindexedFirst' /\ SearchMatches'
  BY <1>1, <1>2
  DEF NothingBegun, AgedAlike, ListedAreAged, AgedRows, UnindexedFirst, AgedUnindexed, SearchMatches,
      Outlived
<1> QED
  BY <1>3, <1>4, <1>5

\* A rollback takes back what is open, and what it takes from whom is remembered.
LEMMA RollBackFacts ==
  ASSUME IInv, MayRollBack, UNCHANGED disk
  PROVE  /\ open' \in Contents /\ undone' \subseteq Calls /\ restored' \subseteq Entries
         /\ Functional(open.rows)' /\ undone \subseteq undone' /\ SearchMatches'
         /\ \A c \in Calls : Has(open, c) => Has(open, c)' \/ c \in undone'
         /\ \A c \in Calls : Has(open, c) /\ Has(disk, c) => Has(open, c)'
         /\ \A p \in Patterns : HasRow(open, p) => HasRow(open, p)' \/ p \in undone'
         /\ AgedUnindexed => AgedUnindexed'
         /\ AgedAlike(open.rows, disk.rows) => AgedAlike(open.rows, disk.rows)' /\ AgedRows' = AgedRows
<1>1. CASE UNCHANGED <<open, rolledBack>>
  BY <1>1
  DEF rolledBack, IInv, TypeOK, Functional, SearchMatches, Outlived, Has, HasRow, AgedUnindexed,
      AgedAlike, AgedRows
<1>2. CASE RollBack
  <2>1. /\ open' = disk /\ disk' = disk /\ undone' = undone \cup Added
        /\ restored' = restored \cup (disk.index \ open.index)
    BY <1>2 DEF RollBack
  <2>2. Added \subseteq Calls /\ disk.index \subseteq Entries /\ open.rows \subseteq Entries
        /\ disk.rows \subseteq Entries
    BY DEF Added, IInv, TypeOK, Contents
  <2>3. /\ open' \in Contents /\ undone' \subseteq Calls /\ restored' \subseteq Entries
        /\ Functional(open.rows)' /\ undone \subseteq undone'
    BY <2>1, <2>2 DEF IInv, TypeOK, Functional
  <2>4. SearchMatches'
    BY <2>1 DEF IInv, SearchMatches, Outlived
  <2>5. ASSUME NEW c \in Calls, Has(open, c), ~Has(disk, c) PROVE c \in Added
    BY <2>5 DEF Has, Added
  <2>6. ASSUME NEW p \in Patterns, HasRow(open, p), ~HasRow(disk, p) PROVE p \in Added
    BY <2>6 DEF HasRow, Added, Calls
  <2>7. \A c : (Has(open, c)' <=> Has(disk, c)) /\ (HasRow(open, c)' <=> HasRow(disk, c))
    BY <2>1 DEF Has, HasRow
  <2>8. AgedUnindexed => AgedUnindexed'
    BY <2>1 DEF AgedUnindexed
  <2>9. AgedAlike(open.rows, disk.rows) =>
          AgedAlike(open.rows, disk.rows)' /\ AgedRows' = AgedRows
    BY <2>1, <2>2 DEF AgedAlike, AgedRows
  <2> QED
    BY <2>1, <2>3, <2>4, <2>5, <2>6, <2>7, <2>8, <2>9
<1> QED
  BY <1>1, <1>2 DEF MayRollBack

\* A failing call ends, and what was open is there or remembered as taken back.
LEMMA FailIInv == ASSUME NEW c \in Calls, IInv, Fail(c) PROVE IInv'
<1>1. MayRollBack /\ UNCHANGED <<disk, cleaner, listed>>
  BY DEF Fail
<1>2. /\ pc' \in [Calls -> {"start", "row", "executed"} \cup Results]
      /\ \A d \in Calls : pc'[d] = pc[d] \/ pc'[d] = "failed"
      /\ faults' \in 0..MaxFaults
  BY SharedConnectionAssumption DEF Fail, Results, IInv, TypeOK
<1>3. TypeOK' /\ Functional(disk.rows)' /\ SearchMatches'
  BY <1>1, <1>2, RollBackFacts DEF IInv, TypeOK, Functional
<1>4. RowThere'
  BY <1>1, <1>2, RollBackFacts DEF IInv, RowThere, Calls
<1>5. ExecutedIsOpen'
  BY <1>1, <1>2, RollBackFacts DEF IInv, ExecutedIsOpen
<1>6. OkIsKept'
  <2>1. \A d : Has(disk, d)' <=> Has(disk, d)
    BY <1>1 DEF Has
  <2> QED
    BY <1>1, <1>2, <2>1, RollBackFacts DEF IInv, OkIsKept
<1>7. NothingBegun' /\ ListedAreAged' /\ UnindexedFirst'
  <2>1. cleaner = "listed" => AgedRows' = AgedRows
    BY <1>1, RollBackFacts DEF IInv, NothingBegun
  <2>2. NothingBegun' /\ UnindexedFirst'
    BY <1>1, RollBackFacts DEF IInv, NothingBegun, UnindexedFirst
  <2> QED
    BY <1>1, <2>1, <2>2 DEF IInv, ListedAreAged
<1> QED
  BY <1>3, <1>4, <1>5, <1>6, <1>7 DEF IInv

-----------------------------------------------------------------------------
\* The curator's steps take nothing but what is aged.
LEMMA CleanIInv == IInv /\ Clean => IInv'
<1> SUFFICES ASSUME IInv, Clean PROVE IInv'
  OBVIOUS
<1> USE DEF IInv, TypeOK, Contents, Has, Cleans, rolledBack
<1>1. CASE ListAged
  <2>1. /\ UNCHANGED <<disk, open, pc, undone, restored, faults>> /\ cleaner' = "listed"
        /\ listed' = Ids(AgedRows) /\ cleaner = "list"
    BY <1>1 DEF ListAged
  <2>2. listed' \subseteq RowIds
    BY <2>1 DEF Ids, AgedRows, Entries
  <2>3. TypeOK' /\ Functional(disk.rows)'
    BY <2>1, <2>2
  <2>4. RowThere' /\ ExecutedIsOpen' /\ OkIsKept'
    BY <2>1 DEF RowThere, HasRow, ExecutedIsOpen, OkIsKept
  <2>5. NothingBegun' /\ ListedAreAged' /\ UnindexedFirst' /\ SearchMatches'
    BY <2>1
    DEF NothingBegun, AgedAlike, ListedAreAged, AgedRows, UnindexedFirst, SearchMatches, Outlived
  <2> QED
    BY <2>3, <2>4, <2>5
<1>2. CASE DeleteIndex
  <2>1. /\ UNCHANGED <<disk, pc, undone, restored, faults, listed>> /\ cleaner' = "index" /\ cleaner = "listed"
        /\ open'.writes = open.writes /\ open'.rows = open.rows
        /\ open'.index = {e \in open.index : e[1] \notin listed} /\ open' \in Contents
    BY <1>2 DEF DeleteIndex
  <2>2. listed = Ids(AgedRows)
    BY <2>1 DEF ListedAreAged
  <2>3. AgedUnindexed'
    <3> SUFFICES ASSUME NEW e \in open'.index, e[2] \in Aged PROVE e \in restored
      BY <2>1 DEF AgedUnindexed
    <3>1. e \notin open.rows
      BY <2>1, <2>2 DEF AgedRows, Ids
    <3> QED
      BY <2>1, <3>1 DEF SearchMatches, Outlived
  <2>4. \A e \in open.index \cap open.rows : e[2] \notin Aged => e \in open'.index
    <3> SUFFICES ASSUME NEW e \in open.index \cap open.rows, e[2] \notin Aged, e[1] \in listed
                 PROVE FALSE
      BY <2>1
    <3>1. PICK d \in open.rows : d[2] \in Aged /\ d[1] = e[1]
      BY <2>2 DEF Ids, AgedRows
    <3>2. d = e
      BY <3>1
    <3> QED
      BY <3>1, <3>2
  <2>5. TypeOK' /\ Functional(disk.rows)'
    BY <2>1
  <2>6. \A c \in Calls : Has(open, c) => Has(open, c)'
    <3> SUFFICES ASSUME NEW c \in Calls, Has(open, c) PROVE Has(open, c)'
      OBVIOUS
    <3>1. CASE c \in open.writes
      BY <2>1, <3>1
    <3>2. CASE \E e \in open.rows \cap open.index : e[2] = c
      <4>1. PICK e \in open.rows \cap open.index : e[2] = c
        BY <3>2
      <4>2. e \in open'.index
        BY <2>4, <4>1, SharedConnectionAssumption
      <4> QED
        BY <2>1, <4>1, <4>2
    <3> QED
      BY <3>1, <3>2
  <2>7. RowThere' /\ ExecutedIsOpen' /\ OkIsKept'
    BY <2>1, <2>6 DEF RowThere, HasRow, ExecutedIsOpen, OkIsKept
  <2>8. NothingBegun' /\ ListedAreAged' /\ UnindexedFirst' /\ SearchMatches'
    BY <2>1, <2>3 DEF NothingBegun, ListedAreAged, UnindexedFirst, SearchMatches, Outlived
  <2> QED
    BY <2>5, <2>7, <2>8
<1>3. CASE CommitIndex
  <2>1. /\ UNCHANGED <<open, pc, undone, restored, faults, listed>> /\ disk' = open
        /\ cleaner' = "unindexed" /\ cleaner = "index"
    BY <1>3 DEF CommitIndex
  <2>2. TypeOK' /\ Functional(disk.rows)'
    BY <2>1 DEF Functional
  <2>3. RowThere' /\ ExecutedIsOpen' /\ OkIsKept'
    BY <2>1 DEF RowThere, HasRow, ExecutedIsOpen, OkIsKept
  <2>4. NothingBegun' /\ ListedAreAged' /\ UnindexedFirst' /\ SearchMatches'
    BY <2>1
    DEF NothingBegun, AgedAlike, ListedAreAged, UnindexedFirst, AgedUnindexed, SearchMatches, Outlived
  <2> QED
    BY <2>2, <2>3, <2>4
<1>4. CASE DeleteRows
  <2>1. /\ UNCHANGED <<disk, pc, undone, restored, faults, listed>> /\ cleaner' = "rows" /\ cleaner = "unindexed"
        /\ open'.writes = open.writes /\ open'.rows = open.rows \ AgedRows
        /\ open'.index = open.index /\ open' \in Contents
    BY <1>4 DEF DeleteRows
  <2>2. \A e \in open.rows : e[2] \notin Aged => e \in open'.rows
    BY <2>1 DEF AgedRows
  <2>3. TypeOK' /\ Functional(disk.rows)'
    BY <2>1
  <2>4. \A c \in Calls : Has(open, c) => Has(open, c)'
    <3>1. \A c \in Calls : c \notin Aged
      BY SharedConnectionAssumption
    <3> QED
      BY <2>1, <2>2, <3>1
  <2>5. RowThere' /\ ExecutedIsOpen' /\ OkIsKept'
    BY <2>1, <2>2, <2>4, SharedConnectionAssumption DEF RowThere, HasRow, ExecutedIsOpen, OkIsKept, Calls
  <2>6. NothingBegun' /\ ListedAreAged' /\ UnindexedFirst' /\ SearchMatches'
    BY <2>1, <2>2
    DEF NothingBegun, ListedAreAged, UnindexedFirst, AgedUnindexed, AgedRows, SearchMatches, Outlived
  <2> QED
    BY <2>3, <2>5, <2>6
<1>5. CASE CommitRows
  <2>1. /\ UNCHANGED <<open, pc, undone, restored, faults>> /\ listed' = {} /\ disk' = open
        /\ cleaner' = "list" /\ cleaner = "rows"
    BY <1>5 DEF CommitRows
  <2>2. TypeOK' /\ Functional(disk.rows)'
    BY <2>1 DEF Functional
  <2>3. RowThere' /\ ExecutedIsOpen' /\ OkIsKept'
    BY <2>1 DEF RowThere, HasRow, ExecutedIsOpen, OkIsKept
  <2>4. NothingBegun' /\ ListedAreAged' /\ UnindexedFirst' /\ SearchMatches'
    BY <2>1
    DEF NothingBegun, AgedAlike, ListedAreAged, UnindexedFirst, AgedUnindexed, SearchMatches, Outlived
  <2> QED
    BY <2>2, <2>3, <2>4
<1> QED
  BY <1>1, <1>2, <1>3, <1>4, <1>5 DEF Clean

\* The end of the curator's loop, which may roll back like any other failure.
LEMMA CleanerFailsIInv == ASSUME IInv, CleanerFails PROVE IInv'
<1>1. /\ MayRollBack /\ UNCHANGED <<disk, pc, listed>> /\ cleaner' = "dead"
      /\ faults' \in 0..MaxFaults
  BY SharedConnectionAssumption DEF CleanerFails, IInv, TypeOK
<1>2. TypeOK' /\ Functional(disk.rows)' /\ SearchMatches'
  BY <1>1, RollBackFacts DEF IInv, TypeOK, Functional
<1>3. RowThere' /\ ExecutedIsOpen'
  BY <1>1, RollBackFacts DEF IInv, RowThere, ExecutedIsOpen, Calls
<1>4. OkIsKept'
  <2>1. \A d : Has(disk, d)' <=> Has(disk, d)
    BY <1>1 DEF Has
  <2> QED
    BY <1>1, <2>1, RollBackFacts DEF IInv, OkIsKept
<1>5. NothingBegun' /\ ListedAreAged' /\ UnindexedFirst'
  BY <1>1 DEF NothingBegun, ListedAreAged, UnindexedFirst
<1> QED
  BY <1>2, <1>3, <1>4, <1>5 DEF IInv

\* A crash leaves what is on disk, and nobody who had begun.
LEMMA CrashIInv == IInv /\ Crash => IInv'
<1> SUFFICES ASSUME IInv, Crash PROVE IInv'
  OBVIOUS
<1> USE DEF IInv, TypeOK
<1>1. /\ open' = disk /\ disk' = disk /\ cleaner' = "list" /\ listed' = {}
      /\ faults' \in 0..MaxFaults /\ undone' = undone /\ restored' = restored
  BY SharedConnectionAssumption DEF Crash, rolledBack
<1>2. /\ pc' \in [Calls -> {"start", "row", "executed"} \cup Results]
      /\ \A c \in Calls : pc'[c] # "row" /\ pc'[c] # "executed" /\ (pc'[c] = "ok" => pc[c] = "ok")
  BY DEF Crash, Active, Results
<1>3. TypeOK' /\ Functional(disk.rows)'
  BY <1>1, <1>2 DEF Functional
<1>4. RowThere' /\ ExecutedIsOpen' /\ OkIsKept'
  BY <1>1, <1>2 DEF RowThere, HasRow, ExecutedIsOpen, OkIsKept, Calls
<1>5. NothingBegun' /\ ListedAreAged' /\ UnindexedFirst' /\ SearchMatches'
  BY <1>1 DEF NothingBegun, AgedAlike, ListedAreAged, UnindexedFirst, SearchMatches, Outlived
<1> QED
  BY <1>3, <1>4, <1>5

-----------------------------------------------------------------------------
\* Every step keeps the invariant.
LEMMA StepIInv == IInv /\ [Next]_vars => IInv'
<1> SUFFICES ASSUME IInv, [Next]_vars PROVE IInv'
  OBVIOUS
<1>1. CASE \E c \in Calls : Call(c) \/ Fail(c)
  BY <1>1, ExecuteIInv, InsertRowIInv, InsertIndexIInv, CommitIInv, FailIInv DEF Call
<1>2. CASE Clean
  BY <1>2, CleanIInv
<1>3. CASE CleanerFails
  BY <1>3, CleanerFailsIInv
<1>4. CASE Crash
  BY <1>4, CrashIInv
<1>5. CASE UNCHANGED vars
  BY <1>5
  DEF vars, rolledBack, IInv, TypeOK, RowThere, HasRow, ExecutedIsOpen, OkIsKept, NothingBegun,
      AgedAlike, ListedAreAged, AgedRows, UnindexedFirst, AgedUnindexed, Functional, SearchMatches,
      Outlived, Has
<1> QED
  BY <1>1, <1>2, <1>3, <1>4, <1>5 DEF Next

\* Whatever callers share the connection, each answered write is on disk for good, but for
\* what a rollback took back between the statement and its commit.
THEOREM Durable == Spec => []AckedIsDurable
<1>1. IInv => AckedIsDurable
  BY DEF IInv, OkIsKept, AckedIsDurable, Stays, Has
<1>2. IInv /\ [Next]_vars => IInv'
  BY StepIInv
<1> QED
  BY <1>1, <1>2, InitIInv, PTL DEF Spec

\* No search entry outlives its row, whatever the curator and the writers do, but for one of
\* an aged pattern whose deletion was rolled back.
THEOREM SearchIsTrue == Spec => []SearchMatches
<1>1. IInv => SearchMatches
  BY DEF IInv
<1>2. IInv /\ [Next]_vars => IInv'
  BY StepIInv
<1> QED
  BY <1>1, <1>2, InitIInv, PTL DEF Spec

\* Types, and one pattern per rowid.
THEOREM TypeCorrect == Spec => []TypeOK
<1>1. IInv => TypeOK
  BY DEF IInv
<1>2. IInv /\ [Next]_vars => IInv'
  BY StepIInv
<1> QED
  BY <1>1, <1>2, InitIInv, PTL DEF Spec

------------------------------------------------------------------------------
\* Every set of numbers that has one has a least one.
LEMMA LeastExists ==
  ASSUME NEW S \in SUBSET Nat, S # {}
  PROVE  \E x \in S : \A y \in S : x <= y
<1> DEFINE R == {ss \in Nat \X Nat : ss[1] < ss[2]}
<1>1. IsWellFoundedOn(R, Nat)
  BY NatLessThanWellFounded DEF OpToRel
<1>2. \E x \in S : \A y \in S : ~(<<y, x>> \in R)
  <2> HIDE DEF R
  <2> QED
    BY <1>1, WFMin
<1>3. PICK x \in S : \A y \in S : ~(<<y, x>> \in R)
  BY <1>2
<1>4. ASSUME NEW y \in S PROVE x <= y
  <2>1. x \in Nat /\ y \in Nat /\ <<y, x>> \notin R
    BY <1>3
  <2> QED
    BY <2>1
<1> QED
  BY <1>4

\* AgentTurn

Entry == [goal : Turns, to : Turn!Statuses]
Final == {"DONE", "FAILED"}

\* No write of c is one of goal t.
None(c, t) == \A i \in 1..Len(c) : c[i].goal # t

\* No write of c ends goal t.
NotFinal(c, t) == \A i \in 1..Len(c) : c[i].goal = t => c[i].to \notin Final

\* With the rows r, each write of c follows the one before it of the same goal.
Legal(c, r) ==
  \A i \in 1..Len(c) :
    \/ \E j \in 1..(i - 1) : /\ c[j].goal = c[i].goal
                             /\ \A k \in (j + 1)..(i - 1) : c[k].goal # c[i].goal
                             /\ <<c[j].to, c[i].to>> \in Turn!Allowed
    \/ /\ \A k \in 1..(i - 1) : c[k].goal # c[i].goal
       /\ <<r[c[i].goal], c[i].to>> \in Turn!Allowed

\* Once all of c is written, goal t has the status st.
Ends(c, r, t, st) ==
  \/ None(c, t) /\ r[t] = st
  \/ \E i \in 1..Len(c) : /\ c[i] = [goal |-> t, to |-> st]
                          /\ \A k \in (i + 1)..Len(c) : c[k].goal # t

\* The oldest write is made.
LEMMA HeadFacts ==
  ASSUME NEW c \in Seq(Entry), c # <<>>, NEW r \in [Turns -> Turn!Statuses \cup {"none"}],
         Legal(c, r)
  PROVE  LET w == Head(c)
             new == [r EXCEPT ![w.goal] = w.to]
         IN  /\ w \in Entry /\ w = c[1] /\ <<r[w.goal], w.to>> \in Turn!Allowed
             /\ new \in [Turns -> Turn!Statuses \cup {"none"}]
             /\ Tail(c) \in Seq(Entry) /\ Legal(Tail(c), new)
             /\ \A t \in Turns : None(c, t) => None(Tail(c), t) /\ t # w.goal
             /\ \A t \in Turns : NotFinal(c, t) => /\ NotFinal(Tail(c), t)
                                                   /\ t = w.goal => w.to \notin Final
             /\ \A t \in Turns : \A st : Ends(c, r, t, st) => Ends(Tail(c), new, t, st)
<1> DEFINE w == c[1]
           d == Tail(c)
           new == [r EXCEPT ![w.goal] = w.to]
<1>1. /\ w = Head(c) /\ w \in Entry /\ d \in Seq(Entry) /\ Len(d) = Len(c) - 1
      /\ Len(c) \in Nat \ {0} /\ \A i \in 1..Len(d) : d[i] = c[i + 1]
  OBVIOUS
<1>2. /\ \A t \in Turns : new[t] = IF t = w.goal THEN w.to ELSE r[t]
      /\ new \in [Turns -> Turn!Statuses \cup {"none"}]
  BY <1>1 DEF Entry
<1>3. <<r[w.goal], w.to>> \in Turn!Allowed
  <2>1. 1 \in 1..Len(c) /\ 1..(1 - 1) = {}
    BY <1>1
  <2> QED
    BY <2>1 DEF Legal
<1> HIDE DEF d, new, w
<1>9. w = c[1]
  BY DEF w
<1>4. Legal(d, new)
  <2> SUFFICES ASSUME NEW i \in 1..Len(d)
               PROVE  \/ \E j \in 1..(i - 1) : /\ d[j].goal = d[i].goal
                                               /\ \A k \in (j + 1)..(i - 1) : d[k].goal # d[i].goal
                                               /\ <<d[j].to, d[i].to>> \in Turn!Allowed
                      \/ /\ \A k \in 1..(i - 1) : d[k].goal # d[i].goal
                         /\ <<new[d[i].goal], d[i].to>> \in Turn!Allowed
    BY DEF Legal
  <2>1. i + 1 \in 1..Len(c) /\ c[i + 1] = d[i] /\ d[i].goal \in Turns
    <3>1. d[i] \in Entry
      BY <1>1
    <3> QED
      BY <1>1, <3>1 DEF Entry
  <2>2. ASSUME NEW j \in 1..i, c[j].goal = c[i + 1].goal,
               \A k \in (j + 1)..i : c[k].goal # c[i + 1].goal,
               <<c[j].to, c[i + 1].to>> \in Turn!Allowed
        PROVE  \/ \E m \in 1..(i - 1) : /\ d[m].goal = d[i].goal
                                        /\ \A k \in (m + 1)..(i - 1) : d[k].goal # d[i].goal
                                        /\ <<d[m].to, d[i].to>> \in Turn!Allowed
               \/ /\ \A k \in 1..(i - 1) : d[k].goal # d[i].goal
                  /\ <<new[d[i].goal], d[i].to>> \in Turn!Allowed
    <3>1. CASE j = 1
      <4>1. new[d[i].goal] = c[1].to
        BY <1>2, <1>9, <2>1, <2>2, <3>1
      <4>2. ASSUME NEW k \in 1..(i - 1) PROVE d[k].goal # d[i].goal
        <5>1. k + 1 \in (j + 1)..i /\ d[k] = c[k + 1]
          BY <1>1, <3>1
        <5> QED
          BY <2>1, <2>2, <5>1
      <4> QED
        BY <2>1, <2>2, <3>1, <4>1, <4>2
    <3>2. CASE j > 1
      <4>1. PICK m \in 1..(i - 1) : m + 1 = j
        <5>1. j - 1 \in 1..(i - 1) /\ (j - 1) + 1 = j
          BY <3>2
        <5> QED
          BY <5>1
      <4>2. d[m] = c[j]
        BY <1>1, <4>1
      <4>3. ASSUME NEW k \in (m + 1)..(i - 1) PROVE d[k].goal # d[i].goal
        <5>1. k + 1 \in (j + 1)..i /\ d[k] = c[k + 1]
          BY <1>1, <4>1
        <5> QED
          BY <2>1, <2>2, <5>1
      <4> QED
        BY <2>1, <2>2, <4>2, <4>3
    <3>3. j = 1 \/ j > 1
      OBVIOUS
    <3> QED
      BY <3>1, <3>2, <3>3, Zenon
  <2>3. ASSUME \A k \in 1..i : c[k].goal # c[i + 1].goal,
               <<r[c[i + 1].goal], c[i + 1].to>> \in Turn!Allowed
        PROVE  /\ \A k \in 1..(i - 1) : d[k].goal # d[i].goal
               /\ <<new[d[i].goal], d[i].to>> \in Turn!Allowed
    <3>1. ASSUME NEW k \in 1..(i - 1) PROVE d[k].goal # d[i].goal
      <4>1. k + 1 \in 1..i /\ d[k] = c[k + 1]
        BY <1>1
      <4> QED
        BY <2>1, <2>3, <4>1
    <3>2. c[1].goal # d[i].goal
      BY <2>1, <2>3
    <3> QED
      BY <1>2, <1>9, <2>1, <2>3, <3>1, <3>2
  <2>4. (i + 1) - 1 = i
    OBVIOUS
  <2> QED
    BY <2>1, <2>2, <2>3, <2>4 DEF Legal
<1>5. ASSUME NEW t \in Turns, None(c, t) PROVE None(d, t) /\ t # w.goal
  BY <1>1, <1>5, <1>9 DEF None
<1>7. ASSUME NEW t \in Turns, NotFinal(c, t) PROVE NotFinal(d, t) /\ (t = w.goal => w.to \notin Final)
  <2>1. 1 \in 1..Len(c) /\ \A i \in 1..Len(d) : i + 1 \in 1..Len(c)
    BY <1>1
  <2> QED
    BY <1>1, <1>7, <1>9, <2>1 DEF NotFinal
<1>6. ASSUME NEW t \in Turns, NEW st, Ends(c, r, t, st) PROVE Ends(d, new, t, st)
  <2>1. CASE None(c, t) /\ r[t] = st
    BY <1>2, <1>5, <2>1 DEF Ends
  <2>2. ASSUME NEW i \in 1..Len(c), c[i] = [goal |-> t, to |-> st],
               \A k \in (i + 1)..Len(c) : c[k].goal # t
        PROVE  Ends(d, new, t, st)
    <3>1. ASSUME NEW k \in i..Len(d) PROVE d[k].goal # t
      <4>1. k + 1 \in (i + 1)..Len(c) /\ d[k] = c[k + 1]
        BY <1>1
      <4> QED
        BY <2>2, <4>1
    <3>2. CASE i = 1
      <4>1. new[t] = st
        BY <1>2, <1>9, <2>2, <3>2
      <4> QED
        BY <3>1, <3>2, <4>1 DEF Ends, None
    <3>3. CASE i > 1
      <4>1. PICK m \in 1..Len(d) : m + 1 = i
        <5>1. i - 1 \in 1..Len(d) /\ (i - 1) + 1 = i
          BY <1>1, <3>3
        <5> QED
          BY <5>1
      <4>2. d[m] = [goal |-> t, to |-> st]
        BY <1>1, <2>2, <4>1
      <4> QED
        BY <3>1, <4>1, <4>2 DEF Ends
    <3> QED
      BY <3>2, <3>3
  <2> QED
    BY <1>6, <2>1, <2>2 DEF Ends
<1> QED
  BY <1>1, <1>2, <1>3, <1>4, <1>5, <1>6, <1>7, <1>9 DEF d, new

\* What is scheduled for goal t after c leads to the status "to", and concerns nobody else.
Leads(c, d, r, t, to) ==
  /\ d \in Seq(Entry) /\ Legal(d, r) /\ Ends(d, r, t, to)
  /\ \A g \in Turns \ {t} :
       /\ None(c, g) => None(d, g)
       /\ NotFinal(c, g) => NotFinal(d, g)
       /\ \A x : Ends(c, r, g, x) => Ends(d, r, g, x)
  /\ to \notin Final /\ NotFinal(c, t) => NotFinal(d, t)

\* One more write is scheduled.
LEMMA AppendFacts ==
  ASSUME NEW c \in Seq(Entry), NEW r, Legal(c, r), NEW t \in Turns, NEW st, Ends(c, r, t, st),
         NEW to \in Turn!Statuses, <<st, to>> \in Turn!Allowed
  PROVE  Leads(c, Append(c, [goal |-> t, to |-> to]), r, t, to)
<1> DEFINE w == [goal |-> t, to |-> to]
           d == Append(c, w)
           n == Len(c)
<1>1. /\ w \in Entry /\ w.goal = t /\ w.to = to /\ d \in Seq(Entry) /\ Len(d) = n + 1 /\ n \in Nat
      /\ \A i \in 1..n : d[i] = c[i]
      /\ d[n + 1] = w
  BY DEF Entry
<1> HIDE DEF w, d
<1>2. ASSUME NEW i \in 1..(n + 1)
      PROVE  \/ \E j \in 1..(i - 1) : /\ d[j].goal = d[i].goal
                                      /\ \A k \in (j + 1)..(i - 1) : d[k].goal # d[i].goal
                                      /\ <<d[j].to, d[i].to>> \in Turn!Allowed
             \/ /\ \A k \in 1..(i - 1) : d[k].goal # d[i].goal
                /\ <<r[d[i].goal], d[i].to>> \in Turn!Allowed
  <2>1. CASE i <= n
    <3>1. i \in 1..n /\ \A k \in 1..i : d[k] = c[k]
      BY <1>1, <2>1
    <3>2. \/ \E j \in 1..(i - 1) : /\ c[j].goal = c[i].goal
                                   /\ \A k \in (j + 1)..(i - 1) : c[k].goal # c[i].goal
                                   /\ <<c[j].to, c[i].to>> \in Turn!Allowed
          \/ /\ \A k \in 1..(i - 1) : c[k].goal # c[i].goal
             /\ <<r[c[i].goal], c[i].to>> \in Turn!Allowed
      BY <3>1, Zenon DEF Legal
    <3>3. 1..(i - 1) \subseteq 1..i /\ i \in 1..i /\ \A j \in 1..i : (j + 1)..(i - 1) \subseteq 1..i
      OBVIOUS
    <3> QED
      BY <3>1, <3>2, <3>3
  <2>2. CASE i = n + 1
    <3>1. CASE None(c, t) /\ r[t] = st
      <4>1. d[i].goal = t /\ d[i].to = to /\ 1..(i - 1) = 1..n
        BY <1>1, <2>2
      <4>2. \A k \in 1..n : d[k].goal # t
        BY <1>1, <3>1 DEF None
      <4> QED
        BY <3>1, <4>1, <4>2
    <3>2. ASSUME NEW m \in 1..n, c[m] = [goal |-> t, to |-> st],
                 \A k \in (m + 1)..n : c[k].goal # t
          PROVE  \E j \in 1..(i - 1) : /\ d[j].goal = d[i].goal
                                       /\ \A k \in (j + 1)..(i - 1) : d[k].goal # d[i].goal
                                       /\ <<d[j].to, d[i].to>> \in Turn!Allowed
      <4>1. m \in 1..(i - 1) /\ d[m].goal = d[i].goal /\ d[m].to = st /\ d[i].to = to
        BY <1>1, <2>2, <3>2
      <4>2. \A k \in (m + 1)..(i - 1) : d[k].goal # d[i].goal
        BY <1>1, <2>2, <3>2
      <4> QED
        BY <4>1, <4>2
    <3> QED
      BY <3>1, <3>2 DEF Ends
  <2>3. i <= n \/ i = n + 1
    BY <1>1
  <2> QED
    BY <2>1, <2>2, <2>3, Zenon
<1>3. Legal(d, r)
  BY <1>1, <1>2 DEF Legal
<1>4. Ends(d, r, t, to)
  <2>1. n + 1 \in 1..Len(d) /\ d[n + 1] = [goal |-> t, to |-> to]
    BY <1>1 DEF w
  <2> QED
    BY <1>1, <2>1 DEF Ends
<1>5. ASSUME NEW g \in Turns, g # t, None(c, g) PROVE None(d, g)
  BY <1>1, <1>5 DEF None
<1>6. ASSUME NEW g \in Turns, g # t, NEW x, Ends(c, r, g, x) PROVE Ends(d, r, g, x)
  <2>1. CASE None(c, g) /\ r[g] = x
    BY <1>5, <1>6, <2>1 DEF Ends
  <2>2. ASSUME NEW i \in 1..n, c[i] = [goal |-> g, to |-> x], \A k \in (i + 1)..n : c[k].goal # g
        PROVE  Ends(d, r, g, x)
    <3>1. i \in 1..Len(d) /\ d[i] = [goal |-> g, to |-> x]
      BY <1>1, <2>2
    <3>2. \A k \in (i + 1)..Len(d) : d[k].goal # g
      BY <1>1, <1>6, <2>2, SMTT(30)
    <3> QED
      BY <3>1, <3>2 DEF Ends
  <2> QED
    BY <1>6, <2>1, <2>2 DEF Ends
<1>7. ASSUME NEW g \in Turns, g # t \/ to \notin Final, NotFinal(c, g) PROVE NotFinal(d, g)
  <2> SUFFICES ASSUME NEW i \in 1..(n + 1), d[i].goal = g PROVE d[i].to \notin Final
    BY <1>1 DEF NotFinal
  <2>1. CASE i = n + 1
    BY <1>1, <1>7, <2>1
  <2>2. CASE i # n + 1
    <3>1. i \in 1..n /\ d[i] = c[i]
      BY <1>1, <2>2
    <3> QED
      BY <1>7, <3>1 DEF NotFinal
  <2> QED
    BY <2>1, <2>2
<1> QED
  BY <1>1, <1>3, <1>4, <1>5, <1>6, <1>7 DEF d, w, Leads

LEMMA LeadsTwice ==
  ASSUME NEW c, NEW m, NEW d, NEW r, NEW t \in Turns, NEW mid, NEW to, mid \notin Final,
         Leads(c, m, r, t, mid), Leads(m, d, r, t, to)
  PROVE  Leads(c, d, r, t, to)
<1>1. d \in Seq(Entry) /\ Legal(d, r) /\ Ends(d, r, t, to)
  BY DEF Leads
<1>2. ASSUME NEW g \in Turns \ {t}
      PROVE  /\ None(c, g) => None(d, g)
             /\ NotFinal(c, g) => NotFinal(d, g)
             /\ \A x : Ends(c, r, g, x) => Ends(d, r, g, x)
  <2>1. None(c, g) => None(d, g)
    <3>1. None(c, g) => None(m, g)
      BY <1>2, Zenon DEF Leads
    <3>2. None(m, g) => None(d, g)
      BY <1>2, Zenon DEF Leads
    <3> QED
      BY <3>1, <3>2
  <2>2. NotFinal(c, g) => NotFinal(d, g)
    <3>1. NotFinal(c, g) => NotFinal(m, g)
      BY <1>2, Zenon DEF Leads
    <3>2. NotFinal(m, g) => NotFinal(d, g)
      BY <1>2, Zenon DEF Leads
    <3> QED
      BY <3>1, <3>2
  <2>3. ASSUME NEW x, Ends(c, r, g, x) PROVE Ends(d, r, g, x)
    <3>1. Ends(m, r, g, x)
      BY <1>2, <2>3, Zenon DEF Leads
    <3> QED
      BY <1>2, <3>1, Zenon DEF Leads
  <2> QED
    BY <2>1, <2>2, <2>3
<1>3. to \notin Final /\ NotFinal(c, t) => NotFinal(d, t)
  BY Zenon DEF Leads
<1> QED
  BY <1>1, <1>2, <1>3, Zenon DEF Leads

\* schedule_status_update
LEMMA ScheduleFacts ==
  ASSUME chain \in Seq(Entry), NEW r, Legal(chain, r), NEW t \in Turns, NEW st, ~broken,
         Ends(chain, r, t, st)
  PROVE  /\ \A to \in Turn!Statuses :
              <<st, to>> \in Turn!Allowed /\ Turn!Schedule(t, <<to>>) => Leads(chain, chain', r, t, to)
         /\ \A mid \in Turn!Statuses \ Final, to \in Turn!Statuses :
              /\ <<st, mid>> \in Turn!Allowed /\ <<mid, to>> \in Turn!Allowed
              /\ Turn!Schedule(t, <<mid, to>>)
              => Leads(chain, chain', r, t, to)
<1>1. ASSUME NEW to \in Turn!Statuses, <<st, to>> \in Turn!Allowed, Turn!Schedule(t, <<to>>)
      PROVE  Leads(chain, chain', r, t, to)
  <2>1. chain' = chain \o <<[goal |-> t, to |-> to]>>
    BY <1>1 DEF Turn!Schedule, Turn!WritesOf
  <2>2. [goal |-> t, to |-> to] \in Entry
    BY DEF Entry
  <2>3. chain' = Append(chain, [goal |-> t, to |-> to])
    BY <2>1, <2>2
  <2> QED
    BY <1>1, <2>3, AppendFacts
<1>2. ASSUME NEW mid \in Turn!Statuses \ Final, NEW to \in Turn!Statuses, <<st, mid>> \in Turn!Allowed,
             <<mid, to>> \in Turn!Allowed, Turn!Schedule(t, <<mid, to>>)
      PROVE  Leads(chain, chain', r, t, to)
  <2> DEFINE v == [goal |-> t, to |-> mid]
             w == [goal |-> t, to |-> to]
             m == Append(chain, v)
  <2>1. v \in Entry /\ w \in Entry
    BY DEF Entry
  <2>2. chain' = chain \o <<v, w>>
    BY <1>2 DEF Turn!Schedule, Turn!WritesOf
  <2>3. chain' = Append(m, w)
    <3> HIDE DEF v, w
    <3> QED
      BY <2>1, <2>2
  <2>4. Leads(chain, m, r, t, mid)
    BY <1>2, AppendFacts
  <2>5. Leads(m, Append(m, w), r, t, to)
    <3> HIDE DEF m
    <3> QED
      BY <1>2, <2>4, AppendFacts DEF Leads
  <2> HIDE DEF m, w
  <2> QED
    BY <2>3, <2>4, <2>5, LeadsTwice
<1> QED
  BY <1>1, <1>2

\* What comes after a failing write is not written.
LEMMA PrefixFacts ==
  ASSUME NEW c \in Seq(Entry), NEW r, Legal(c, r), NEW k \in 1..Len(c)
  PROVE  LET d == SubSeq(c, 1, k - 1)
         IN  /\ d \in Seq(Entry) /\ Legal(d, r)
             /\ \A t \in Turns : None(c, t) => None(d, t)
             /\ \A t \in Turns : NotFinal(c, t) => NotFinal(d, t)
<1> DEFINE d == SubSeq(c, 1, k - 1)
<1>1. /\ d \in Seq(Entry) /\ Len(d) = k - 1 /\ Len(c) \in Nat
      /\ \A i \in 1..(k - 1) : i \in 1..Len(c) /\ d[i] = c[i]
  OBVIOUS
<1> HIDE DEF d
<1>2. Legal(d, r)
  <2>1. \A i \in 1..(k - 1) : /\ 1..(i - 1) \subseteq 1..(k - 1)
                              /\ \A j \in 1..(i - 1) : (j + 1)..(i - 1) \subseteq 1..(k - 1)
    OBVIOUS
  <2> QED
    BY <1>1, <2>1 DEF Legal
<1> QED
  BY <1>1, <1>2 DEF d, None, NotFinal

-----------------------------------------------------------------------------
\* Where the writes of a turn lead, unless one has failed.
Due(p) == CASE p \in {"compress", "run"} -> {"PLANNING"}
            [] p = "tool" -> {"AWAITING_RESULT"}
            [] p = "summarise" -> {"EVALUATING"}
            [] p = "ended" -> Final
Going == {"compress", "run", "tool", "summarise", "ended"}

Follows(t) ==
  /\ turn[t] = "out" => row[t] = "none" /\ None(chain, t)
  /\ turn[t] # "ended" => row[t] \notin Final /\ NotFinal(chain, t)
  /\ ~broken /\ turn[t] \in Going => \E st \in Due(turn[t]) : Ends(chain, row, t, st)

Rows == [Turns -> Turn!Statuses \cup {"none"}]
RowTypes == /\ setting \in Settings /\ broken \in BOOLEAN /\ mishaps \in 0..MaxMishaps
            /\ turn \in [Turns -> {"out", "raised"} \cup Going] /\ row \in Rows
            /\ chain \in Seq(Entry) /\ refused = {}
            /\ Legal(chain, row) /\ \A t \in Turns : Follows(t)

Context == /\ history \in Seq(Turn!Entries) /\ summary \subseteq Turn!Entries
           /\ middle \in [Turns -> Seq(Turn!Entries)]
           /\ \A t \in Turns : turn[t] = "compress" => middle[t] # <<>>

TurnInv == RowTypes /\ Context

LEMMA TurnSafety == TurnInv => TurnsAgree
<1> SUFFICES ASSUME TurnInv PROVE TurnsAgree
  OBVIOUS
<1>1. Turn!TypeOK
  BY DEF TurnInv, RowTypes, Context, Turn!TypeOK, Entry, Rows, Going
<1>2. ASSUME NEW t \in Turns, row[t] \in {"DONE", "FAILED"} PROVE turn[t] = "ended"
  BY <1>2 DEF TurnInv, RowTypes, Follows, Final
<1>3. ASSUME NEW t \in Turns, turn[t] = "ended", ~broken, chain = <<>>
      PROVE  row[t] \in {"DONE", "FAILED"}
  <2>1. PICK st \in Final : Ends(<<>>, row, t, st)
    BY <1>3 DEF TurnInv, RowTypes, Follows, Going, Due
  <2> QED
    BY <2>1 DEF Ends, Final
<1> QED
  BY <1>1, <1>2, <1>3
  DEF TurnInv, RowTypes, TurnsAgree, Turn!WritesAreLegal, Turn!RowsAgreeWithTurns

LEMMA InitTurnInv == Turn!Init => TurnInv
<1> SUFFICES ASSUME Turn!Init PROVE TurnInv
  OBVIOUS
<1>1. chain = <<>> /\ chain \in Seq(Entry) /\ Legal(chain, row)
  BY DEF Turn!Init, Legal
<1>2. \A t \in Turns : Follows(t)
  BY <1>1 DEF Turn!Init, Follows, None, NotFinal, Final, Going
<1>3. mishaps \in 0..MaxMishaps
  BY TurnAssumption DEF Turn!Init, Turn!AgentTurnAssumption
<1>5. turn \in [Turns -> {"out", "raised"} \cup Going] /\ row \in Rows
  BY DEF Turn!Init, Rows
<1>6. RowTypes
  BY <1>1, <1>2, <1>3, <1>5 DEF Turn!Init, RowTypes
<1>4. Context
  BY DEF Turn!Init, Context
<1> QED
  BY <1>4, <1>6 DEF TurnInv

\* A step of turn t, which schedules what leads it to the status "to".
LEMMA MoveFacts ==
  ASSUME RowTypes, NEW t \in Turns, NEW p \in Going, NEW to \in Due(p), Turn!At(t, p),
         UNCHANGED <<setting, broken, refused>>, mishaps' \in 0..MaxMishaps,
         row' \in Rows, \A g \in Turns \ {t} : row'[g] = row[g],
         p # "ended" => row'[t] \notin Final /\ NotFinal(chain, t),
         \/ broken /\ chain' = chain /\ Legal(chain, row')
         \/ Leads(chain, chain', row', t, to)
  PROVE  RowTypes'
<1> USE DEF RowTypes
<1>1. turn' \in [Turns -> {"out", "raised"} \cup Going] /\ turn'[t] = p
      /\ \A g \in Turns \ {t} : turn'[g] = turn[g]
  BY DEF Turn!At
<1>2. chain' \in Seq(Entry) /\ Legal(chain', row')
  BY DEF Leads
<1>3. p # "ended" => to \notin Final
  BY DEF Due, Going, Final
<1>4. Follows(t)'
  <2>1. p # "out" /\ p \in Going
    BY DEF Going
  <2>2. p # "ended" => NotFinal(chain', t)
    BY <1>3 DEF Leads
  <2>3. ~broken => Ends(chain', row', t, to)
    BY DEF Leads
  <2> QED
    BY <1>1, <2>1, <2>2, <2>3 DEF Follows
<1>5. ASSUME NEW g \in Turns, g # t PROVE Follows(g)'
  <2>1. turn'[g] = turn[g] /\ row'[g] = row[g] /\ broken' = broken /\ Follows(g)
    BY <1>1, <1>5
  <2>2. /\ None(chain, g) => None(chain', g)
        /\ NotFinal(chain, g) => NotFinal(chain', g)
        /\ \A st : ~broken /\ Ends(chain, row', g, st) => Ends(chain', row', g, st)
    <3>1. CASE broken /\ chain' = chain
      BY <3>1
    <3>2. CASE Leads(chain, chain', row', t, to)
      <4>1. g \in Turns \ {t}
        BY <1>5
      <4> QED
        BY <3>2, <4>1, Zenon DEF Leads
    <3> QED
      BY <3>1, <3>2
  <2>3. ASSUME ~broken, NEW st, Ends(chain, row, g, st) PROVE Ends(chain', row', g, st)
    <3>1. Ends(chain, row', g, st)
      BY <2>1, <2>3 DEF Ends
    <3> QED
      BY <2>2, <2>3, <3>1
  <2>4. turn'[g] = "out" => row'[g] = "none" /\ None(chain', g)
    BY <2>1, <2>2 DEF Follows
  <2>5. turn'[g] # "ended" => row'[g] \notin Final /\ NotFinal(chain', g)
    BY <2>1, <2>2 DEF Follows
  <2>6. ASSUME ~broken', turn'[g] \in Going
        PROVE  \E st \in Due(turn'[g]) : Ends(chain', row', g, st)
    <3>1. PICK st \in Due(turn[g]) : Ends(chain, row, g, st)
      BY <2>1, <2>6 DEF Follows
    <3> QED
      BY <2>1, <2>3, <2>6, <3>1
  <2> QED
    BY <2>4, <2>5, <2>6 DEF Follows
<1>6. \A g \in Turns : Follows(g)'
  BY <1>4, <1>5
<1>7. mishaps' \in 0..MaxMishaps /\ row' \in Rows /\ setting' = setting /\ broken' = broken
      /\ refused' = refused
  OBVIOUS
<1> QED
  BY <1>1, <1>2, <1>6, <1>7

\* A turn that goes on schedules one write or two.
LEMMA SendFacts ==
  ASSUME RowTypes, NEW t \in Turns, turn[t] \in Going \ {"ended"}, NEW p \in Going, Turn!At(t, p),
         UNCHANGED <<setting, row, broken, refused, mishaps>>, NEW to \in Due(p),
         \/ Turn!Schedule(t, <<to>>) /\ \A st \in Due(turn[t]) : <<st, to>> \in Turn!Allowed
         \/ \E mid \in Turn!Statuses \ Final :
              /\ Turn!Schedule(t, <<mid, to>>) /\ <<mid, to>> \in Turn!Allowed
              /\ \A st \in Due(turn[t]) : <<st, mid>> \in Turn!Allowed
  PROVE  RowTypes'
<1>1. to \in Turn!Statuses
  BY DEF Due, Going, Final, Turn!Statuses
<1>2. row[t] \notin Final /\ NotFinal(chain, t)
  BY DEF RowTypes, Follows
<1>3. row' = row /\ row' \in Rows /\ mishaps' \in 0..MaxMishaps
  BY DEF RowTypes
<1>4. CASE broken
  <2>1. chain' = chain
    BY <1>4 DEF Turn!Schedule
  <2> QED
    BY <1>2, <1>3, <1>4, <2>1, MoveFacts DEF RowTypes
<1>5. CASE ~broken
  <2>1. PICK st \in Due(turn[t]) : Ends(chain, row, t, st)
    BY <1>5 DEF RowTypes, Follows
  <2>2. Leads(chain, chain', row, t, to)
    BY <1>1, <1>5, <2>1, ScheduleFacts DEF RowTypes
  <2> QED
    BY <1>2, <1>3, <2>2, MoveFacts
<1> QED
  BY <1>4, <1>5

\* A write fails, or is refused the one it waits for.
LEMMA BreakFacts ==
  ASSUME RowTypes, NEW k \in 1..Len(chain), Turn!BreakAt(k),
         UNCHANGED <<setting, turn, row, refused>>, mishaps' \in 0..MaxMishaps
  PROVE  RowTypes'
<1>1. chain' = SubSeq(chain, 1, k - 1) /\ broken' = TRUE /\ row' = row /\ turn' = turn
  BY DEF Turn!BreakAt
<1>2. /\ chain' \in Seq(Entry) /\ Legal(chain', row)
      /\ \A t \in Turns : None(chain, t) => None(chain', t)
      /\ \A t \in Turns : NotFinal(chain, t) => NotFinal(chain', t)
  BY <1>1, PrefixFacts DEF RowTypes
<1>3. ASSUME NEW t \in Turns PROVE Follows(t)'
  BY <1>1, <1>2 DEF RowTypes, Follows
<1> QED
  BY <1>1, <1>2, <1>3 DEF RowTypes

LEMMA WriteFacts == RowTypes /\ Turn!Write => RowTypes'
<1> SUFFICES ASSUME RowTypes, Turn!Write PROVE RowTypes'
  OBVIOUS
<1> DEFINE w == Head(chain)
<1>1. chain \in Seq(Entry) /\ chain # <<>> /\ Legal(chain, row) /\ row \in Rows
  BY DEF RowTypes, Turn!Write
<1>2. /\ w \in Entry /\ <<row[w.goal], w.to>> \in Turn!Allowed
      /\ [row EXCEPT ![w.goal] = w.to] \in Rows
      /\ Tail(chain) \in Seq(Entry) /\ Legal(Tail(chain), [row EXCEPT ![w.goal] = w.to])
      /\ \A t \in Turns : None(chain, t) => None(Tail(chain), t) /\ t # w.goal
      /\ \A t \in Turns : NotFinal(chain, t) => /\ NotFinal(Tail(chain), t)
                                                /\ t = w.goal => w.to \notin Final
      /\ \A t \in Turns : \A st :
           Ends(chain, row, t, st) => Ends(Tail(chain), [row EXCEPT ![w.goal] = w.to], t, st)
  BY <1>1, HeadFacts DEF Rows
<1>3. chain' = Tail(chain) /\ row' = [row EXCEPT ![w.goal] = w.to]
      /\ UNCHANGED <<setting, turn, broken, refused, mishaps>>
  BY <1>2 DEF Turn!Write
<1>4. \A t \in Turns : row'[t] = IF t = w.goal THEN w.to ELSE row[t]
  BY <1>1, <1>2, <1>3 DEF Rows, Entry
<1> HIDE DEF w
<1>5. ASSUME NEW t \in Turns PROVE Follows(t)'
  <2>0. Follows(t)
    BY DEF RowTypes
  <2>1. turn'[t] = "out" => row'[t] = "none" /\ None(chain', t)
    BY <1>2, <1>3, <1>4, <2>0 DEF Follows
  <2>2. turn'[t] # "ended" => row'[t] \notin Final /\ NotFinal(chain', t)
    BY <1>2, <1>3, <1>4, <2>0 DEF Follows
  <2>3. ~broken' /\ turn'[t] \in Going => \E st \in Due(turn'[t]) : Ends(chain', row', t, st)
    BY <1>2, <1>3, <2>0 DEF Follows
  <2> QED
    BY <2>1, <2>2, <2>3 DEF Follows
<1> QED
  BY <1>2, <1>3, <1>5 DEF RowTypes

LEMMA BeginFacts ==
  ASSUME RowTypes, NEW t \in Turns, Turn!Begin(t)
  PROVE  RowTypes'
<1>1. turn[t] = "out" /\ row[t] = "none" /\ None(chain, t) /\ row \in Rows /\ NotFinal(chain, t)
  BY DEF RowTypes, Turn!Begin, Follows
<1>2. /\ row' = [row EXCEPT ![t] = "IDLE"] /\ row' \in Rows /\ row'[t] = "IDLE"
      /\ \A g \in Turns \ {t} : row'[g] = row[g]
  BY <1>1 DEF Rows, Turn!Begin, Turn!Statuses
<1>3. PICK p \in {"run", "compress"} : Turn!At(t, p)
  BY DEF Turn!Begin, Turn!MaybeCompress
<1>4. p \in Going /\ "PLANNING" \in Due(p) /\ p # "ended"
  BY <1>3 DEF Going, Due
<1>5. /\ UNCHANGED <<setting, broken, refused>> /\ mishaps' \in 0..MaxMishaps
      /\ Turn!Schedule(t, <<"ROUTING", "PLANNING">>)
  BY DEF RowTypes, Turn!Begin
<1>6. Legal(chain, row')
  <2>1. Legal(chain, row) /\ \A i \in 1..Len(chain) : chain[i].goal \in Turns \ {t}
    <3>1. Legal(chain, row) /\ chain \in Seq(Entry)
      BY DEF RowTypes
    <3>2. \A i \in 1..Len(chain) : chain[i] \in Entry
      BY <3>1
    <3> QED
      BY <1>1, <3>1, <3>2 DEF None, Entry
  <2>2. \A i \in 1..Len(chain) : row'[chain[i].goal] = row[chain[i].goal]
    BY <1>2, <2>1
  <2> QED
    BY <2>1, <2>2 DEF Legal
<1>7. row'[t] \notin Final
  BY <1>2 DEF Final
<1>8. CASE broken
  <2>1. chain' = chain
    BY <1>5, <1>8 DEF Turn!Schedule
  <2> QED
    BY <1>1, <1>2, <1>3, <1>4, <1>5, <1>6, <1>7, <1>8, <2>1, MoveFacts
<1>9. CASE ~broken
  <2>1. Ends(chain, row', t, "IDLE")
    BY <1>1, <1>2 DEF Ends
  <2>2. /\ <<"IDLE", "ROUTING">> \in Turn!Allowed /\ <<"ROUTING", "PLANNING">> \in Turn!Allowed
        /\ "ROUTING" \in Turn!Statuses \ Final /\ "PLANNING" \in Turn!Statuses
    BY DEF Turn!Allowed, Turn!Statuses, Final
  <2>3. Leads(chain, chain', row', t, "PLANNING")
    <3> DEFINE r == row'
    <3>1. Legal(chain, r) /\ Ends(chain, r, t, "IDLE") /\ chain \in Seq(Entry)
      BY <1>6, <2>1 DEF RowTypes
    <3> HIDE DEF r
    <3>2. Leads(chain, chain', r, t, "PLANNING")
      BY <1>5, <1>9, <2>2, <3>1, ScheduleFacts
    <3> QED
      BY <3>2 DEF r
  <2> QED
    BY <1>1, <1>2, <1>3, <1>4, <1>5, <1>7, <2>3, MoveFacts
<1> QED
  BY <1>8, <1>9

LEMMA StepRowTypes == RowTypes /\ [Turn!Next]_turnVars => RowTypes'
<1> SUFFICES ASSUME RowTypes, [Turn!Next]_turnVars PROVE RowTypes'
  OBVIOUS
<1>0. MaxMishaps \in Nat /\ mishaps \in 0..MaxMishaps /\ chain \in Seq(Entry) /\ Len(chain) \in Nat
  BY TurnAssumption DEF Turn!AgentTurnAssumption, RowTypes
<1>1. CASE Turn!Write
  BY <1>1, WriteFacts
<1>2. CASE Turn!WriteFails
  <2>1. 1 \in 1..Len(chain) /\ mishaps' \in 0..MaxMishaps
    BY <1>0, <1>2 DEF Turn!WriteFails, Turn!Fault
  <2> QED
    BY <1>2, <2>1, BreakFacts DEF Turn!WriteFails
<1>3. CASE Turn!ForeignWait
  <2>1. PICK k \in 2..Len(chain) : Turn!BreakAt(k)
    BY <1>3 DEF Turn!ForeignWait
  <2>2. k \in 1..Len(chain)
    BY <1>0
  <2> QED
    BY <1>0, <1>3, <2>1, <2>2, BreakFacts DEF Turn!ForeignWait
<1>4. ASSUME NEW t \in Turns, Turn!LoopEnds(t) PROVE RowTypes'
  <2> DEFINE S == {i \in 1..Len(chain) : chain[i].goal = t}
             k == Turn!SelectInSeq(chain, LAMBDA v : v.goal = t)
  <2>1. k > 0 /\ Turn!BreakAt(k)
    BY <1>4 DEF Turn!LoopEnds
  <2>2. k = IF S # {} THEN Turn!Min(S) ELSE 0
    BY DEF Turn!SelectInSeq
  <2>3. S # {}
    BY <2>1, <2>2
  <2>4. \E x \in S : \A y \in S : x <= y
    <3>1. S \in SUBSET Nat
      BY <1>0
    <3> HIDE DEF S
    <3> QED
      BY <2>3, <3>1, LeastExists
  <2>5. k \in S
    <3> HIDE DEF S, k
    <3> QED
      BY <2>2, <2>3, <2>4 DEF Turn!Min
  <2>6. k \in 1..Len(chain)
    BY <2>5
  <2> HIDE DEF k
  <2> QED
    BY <1>0, <1>4, <2>1, <2>6, BreakFacts DEF Turn!LoopEnds
<1>5. ASSUME NEW t \in Turns, Turn!Compressed(t) PROVE RowTypes'
  <2>1. /\ turn[t] = "compress" /\ Turn!At(t, "run") /\ "run" \in Going
        /\ "PLANNING" \in Due("run") /\ row[t] \notin Final /\ NotFinal(chain, t)
        /\ UNCHANGED <<setting, row, chain, broken, refused, mishaps>>
    BY <1>5 DEF Turn!Compressed, Turn!writes, Going, Due, RowTypes, Follows
  <2>2. broken \/ Leads(chain, chain, row, t, "PLANNING")
    BY <2>1 DEF RowTypes, Follows, Leads, Going, Due, Final
  <2>3. row' \in Rows /\ Legal(chain, row)
    BY <2>1 DEF RowTypes
  <2> QED
    BY <1>0, <2>1, <2>2, <2>3, MoveFacts
<1>6. ASSUME NEW t \in Turns, Turn!AnswerGraph(t) \/ Turn!AnswerLegacy(t) PROVE RowTypes'
  <2>1. /\ turn[t] = "run" /\ turn[t] \in Going \ {"ended"} /\ Due(turn[t]) = {"PLANNING"}
        /\ Turn!At(t, "ended") /\ "ended" \in Going /\ Due("ended") = {"DONE", "FAILED"}
        /\ UNCHANGED <<setting, row, broken, refused, mishaps>>
        /\ Turn!Schedule(t, <<"EVALUATING", "DONE">>) \/ Turn!Schedule(t, <<"FAILED">>)
    BY <1>6 DEF Turn!AnswerGraph, Turn!AnswerLegacy, Going, Due, Final
  <2>2. /\ <<"PLANNING", "EVALUATING">> \in Turn!Allowed /\ <<"EVALUATING", "DONE">> \in Turn!Allowed
        /\ <<"PLANNING", "FAILED">> \in Turn!Allowed /\ "EVALUATING" \in Turn!Statuses \ Final
    BY DEF Turn!Allowed, Turn!Statuses, Final
  <2>3. CASE Turn!Schedule(t, <<"EVALUATING", "DONE">>)
    BY <2>1, <2>2, <2>3, SendFacts
  <2>4. CASE Turn!Schedule(t, <<"FAILED">>)
    BY <2>1, <2>2, <2>4, SendFacts
  <2> QED
    BY <2>1, <2>3, <2>4
<1>7. ASSUME NEW t \in Turns, Turn!CallTool(t) PROVE RowTypes'
  <2>1. /\ turn[t] \in Going \ {"ended"} /\ Due(turn[t]) = {"PLANNING"}
        /\ Turn!At(t, "tool") /\ "tool" \in Going /\ "AWAITING_RESULT" \in Due("tool")
        /\ UNCHANGED <<setting, row, broken, refused, mishaps>>
        /\ Turn!Schedule(t, <<"EXECUTING", "AWAITING_RESULT">>)
    BY <1>7 DEF Turn!CallTool, Going, Due
  <2>2. /\ <<"PLANNING", "EXECUTING">> \in Turn!Allowed /\ "EXECUTING" \in Turn!Statuses \ Final
        /\ <<"EXECUTING", "AWAITING_RESULT">> \in Turn!Allowed
    BY DEF Turn!Allowed, Turn!Statuses, Final
  <2> QED
    BY <2>1, <2>2, SendFacts
<1>8. ASSUME NEW t \in Turns, Turn!ToolReturns(t) PROVE RowTypes'
  <2>1. /\ turn[t] \in Going \ {"ended"} /\ Due(turn[t]) = {"AWAITING_RESULT"}
        /\ Turn!At(t, "summarise") /\ "summarise" \in Going /\ "EVALUATING" \in Due("summarise")
        /\ UNCHANGED <<setting, row, broken, refused, mishaps>>
        /\ Turn!Schedule(t, <<"EVALUATING">>)
    BY <1>8 DEF Turn!ToolReturns, Going, Due
  <2>2. <<"AWAITING_RESULT", "EVALUATING">> \in Turn!Allowed
    BY DEF Turn!Allowed
  <2> QED
    BY <2>1, <2>2, SendFacts
<1>9. ASSUME NEW t \in Turns, Turn!Summarised(t) PROVE RowTypes'
  <2>1. PICK st \in {"DONE", "FAILED"} : Turn!Schedule(t, <<st>>)
    BY <1>9 DEF Turn!Summarised
  <2>2. /\ turn[t] \in Going \ {"ended"} /\ Due(turn[t]) = {"EVALUATING"}
        /\ Turn!At(t, "ended") /\ "ended" \in Going /\ st \in Due("ended")
        /\ UNCHANGED <<setting, row, broken, refused, mishaps>>
        /\ <<"EVALUATING", st>> \in Turn!Allowed
    BY <1>9, <2>1 DEF Turn!Summarised, Going, Due, Final, Turn!Allowed
  <2> QED
    BY <2>1, <2>2, SendFacts
<1>10. ASSUME NEW t \in Turns, Turn!Raises(t) PROVE RowTypes'
  <2>1. /\ turn[t] \notin {"out", "ended"} /\ turn' = [turn EXCEPT ![t] = "raised"]
        /\ UNCHANGED <<setting, row, chain, broken, refused>> /\ mishaps' \in 0..MaxMishaps
    BY <1>0, <1>10 DEF Turn!Raises, Turn!At, Turn!Fault, Turn!writes
  <2>2. /\ turn' \in [Turns -> {"out", "raised"} \cup Going] /\ turn'[t] = "raised"
        /\ \A g \in Turns : g # t => turn'[g] = turn[g]
    BY <2>1 DEF RowTypes
  <2>3. ASSUME NEW g \in Turns PROVE Follows(g)'
    <3>1. Follows(g)
      BY DEF RowTypes
    <3>2. CASE g = t
      BY <2>1, <2>2, <3>1, <3>2 DEF Follows, Going
    <3>3. CASE g # t
      BY <2>1, <2>2, <3>1, <3>3 DEF Follows
    <3> QED
      BY <3>2, <3>3
  <2> QED
    BY <2>1, <2>2, <2>3 DEF RowTypes
<1>11. CASE UNCHANGED turnVars
  <2>1. UNCHANGED <<setting, turn, row, chain, broken, refused, mishaps>>
    BY <1>11 DEF turnVars
  <2>2. ASSUME NEW g \in Turns PROVE Follows(g)'
    BY <2>1 DEF RowTypes, Follows
  <2> QED
    BY <2>1, <2>2 DEF RowTypes
<1> QED
  BY <1>1, <1>2, <1>3, <1>4, <1>5, <1>6, <1>7, <1>8, <1>9, <1>10, <1>11, BeginFacts
  DEF Turn!Next, Turn!Work

LEMMA StepContext == RowTypes /\ Context /\ [Turn!Next]_turnVars => Context'
<1> SUFFICES ASSUME RowTypes, Context, [Turn!Next]_turnVars PROVE Context'
  OBVIOUS
<1> DEFINE Quiet == UNCHANGED <<history, summary, middle>> /\ \A g \in Turns : turn'[g] = "compress" => turn[g] = "compress"
<1>0. /\ history \in Seq(Turn!Entries) /\ Len(history) \in Nat /\ TailCount \in Nat
      /\ summary \subseteq Turn!Entries /\ middle \in [Turns -> Seq(Turn!Entries)]
      /\ \A t \in Turns : turn[t] = "compress" => middle[t] # <<>>
      /\ turn \in [Turns -> {"out", "raised"} \cup Going]
  BY TurnAssumption DEF Context, RowTypes, Turn!AgentTurnAssumption
<1>1. CASE Quiet
  BY <1>1 DEF Context
<1>2. CASE Turn!Write \/ Turn!WriteFails \/ Turn!ForeignWait \/ UNCHANGED turnVars
  <2>1. UNCHANGED <<history, summary, middle, turn>>
    BY <1>2 DEF Turn!Write, Turn!WriteFails, Turn!ForeignWait, turnVars, Turn!context
  <2> QED
    BY <1>1, <2>1
<1>3. ASSUME NEW t \in Turns, Turn!LoopEnds(t) PROVE Context'
  <2>1. UNCHANGED <<history, summary, middle, turn>>
    BY <1>3 DEF Turn!LoopEnds, Turn!context
  <2> QED
    BY <1>1, <2>1
<1>4. ASSUME NEW t \in Turns, Turn!Begin(t) PROVE Context'
  <2>1. history' = history /\ summary' = summary
    BY <1>4 DEF Turn!Begin
  <2>2. CASE Turn!At(t, "run") /\ UNCHANGED middle
    <3>1. \A g \in Turns : turn'[g] = IF g = t THEN "run" ELSE turn[g]
      BY <1>0, <2>2 DEF Turn!At
    <3> QED
      BY <1>1, <2>1, <2>2, <3>1
  <2>3. CASE /\ Len(history) > TailCount /\ Turn!At(t, "compress")
             /\ middle' = [middle EXCEPT ![t] = SubSeq(history, 1, Len(history) - TailCount)]
    <3>1. \A g \in Turns : turn'[g] = IF g = t THEN "compress" ELSE turn[g]
      BY <1>0, <2>3 DEF Turn!At
    <3>2. /\ SubSeq(history, 1, Len(history) - TailCount) \in Seq(Turn!Entries)
          /\ SubSeq(history, 1, Len(history) - TailCount) # <<>>
      <4> DEFINE m == Len(history) - TailCount
      <4>1. m \in 1..Len(history)
        BY <1>0, <2>3
      <4> HIDE DEF m
      <4>2. \A i \in 1..m : history[i] \in Turn!Entries
        BY <1>0, <4>1
      <4>3. SubSeq(history, 1, m) \in Seq(Turn!Entries) /\ Len(SubSeq(history, 1, m)) = m
        BY <1>0, <4>1, <4>2
      <4> QED
        BY <4>1, <4>3 DEF m
    <3> QED
      BY <1>0, <2>1, <2>3, <3>1, <3>2 DEF Context
  <2> QED
    BY <1>4, <2>2, <2>3 DEF Turn!Begin, Turn!MaybeCompress
<1>5. ASSUME NEW t \in Turns, Turn!Compressed(t) PROVE Context'
  <2>1. /\ \A g \in Turns : turn'[g] = IF g = t THEN "run" ELSE turn[g]
        /\ middle' = [middle EXCEPT ![t] = <<>>]
    BY <1>0, <1>5 DEF Turn!Compressed, Turn!At
  <2>2. summary' \subseteq Turn!Entries
    BY <1>0, <1>5 DEF Turn!Compressed, Turn!Range
  <2>3. history' \in Seq(Turn!Entries)
    <3>1. ASSUME Len(history) > TailCount
          PROVE  SubSeq(history, Len(history) - TailCount + 1, Len(history)) \in Seq(Turn!Entries)
      <4> DEFINE m == Len(history) - TailCount + 1
      <4>1. m \in 1..(Len(history) + 1) /\ m \in Int
        BY <1>0, <3>1
      <4>2. \A i \in m..Len(history) : history[i] \in Turn!Entries
        BY <1>0, <4>1
      <4> HIDE DEF m
      <4>3. SubSeq(history, m, Len(history)) \in Seq(Turn!Entries)
        BY <1>0, <4>1, <4>2
      <4> QED
        BY <4>3 DEF m
    <3> QED
      BY <1>0, <1>5, <3>1 DEF Turn!Compressed
  <2>4. <<>> \in Seq(Turn!Entries)
    OBVIOUS
  <2> QED
    BY <1>0, <2>1, <2>2, <2>3, <2>4 DEF Context
<1>6. ASSUME NEW t \in Turns, Turn!AnswerGraph(t) \/ Turn!AnswerLegacy(t) \/ Turn!Summarised(t)
      PROVE  Context'
  <2>1. /\ \A g \in Turns : turn'[g] = IF g = t THEN "ended" ELSE turn[g]
        /\ UNCHANGED <<summary, middle>>
        /\ history' = history \o <<<<t, "user">>, <<t, "assistant">>>>
    BY <1>0, <1>6 DEF Turn!AnswerGraph, Turn!AnswerLegacy, Turn!Summarised, Turn!Record, Turn!At
  <2>2. <<<<t, "user">>, <<t, "assistant">>>> \in Seq(Turn!Entries)
    <3>1. <<t, "user">> \in Turn!Entries /\ <<t, "assistant">> \in Turn!Entries
      BY DEF Turn!Entries
    <3> QED
      BY <3>1
  <2>3. history' \in Seq(Turn!Entries)
    BY <1>0, <2>1, <2>2
  <2> QED
    BY <1>0, <2>1, <2>3 DEF Context
<1>7. ASSUME NEW t \in Turns, Turn!CallTool(t) \/ Turn!ToolReturns(t) \/ Turn!Raises(t)
      PROVE  Context'
  <2>1. PICK p \in {"tool", "summarise", "raised"} : Turn!At(t, p)
    BY <1>7 DEF Turn!CallTool, Turn!ToolReturns, Turn!Raises
  <2>2. \A g \in Turns : turn'[g] = IF g = t THEN p ELSE turn[g]
    BY <1>0, <2>1 DEF Turn!At
  <2>3. UNCHANGED <<history, summary, middle>>
    BY <1>7 DEF Turn!CallTool, Turn!ToolReturns, Turn!Raises, Turn!context
  <2> QED
    BY <1>1, <2>2, <2>3
<1> QED
  BY <1>2, <1>3, <1>4, <1>5, <1>6, <1>7 DEF Turn!Next, Turn!Work

LEMMA StepTurnInv == TurnInv /\ [Turn!Next]_turnVars => TurnInv'
  BY StepRowTypes, StepContext DEF TurnInv

------------------------------------------------------------------------------
\* LLMRouter

LEMMA MinFacts ==
  ASSUME NEW S \in SUBSET Nat, S # {}
  PROVE  Router!Min(S) \in S /\ \A y \in S : Router!Min(S) <= y
BY LeastExists DEF Router!Min

LEMMA MaxFacts ==
  ASSUME NEW a \in Nat, NEW b \in Nat
  PROVE  Router!Max({a, b}) \in Nat /\ Router!Max({a, b}) >= a /\ Router!Max({a, b}) >= b
<1> DEFINE m == IF a >= b THEN a ELSE b
<1>1. m \in {a, b} /\ \A y \in {a, b} : m >= y
  OBVIOUS
<1>2. Router!Max({a, b}) \in {a, b} /\ \A y \in {a, b} : Router!Max({a, b}) >= y
  BY <1>1 DEF Router!Max
<1> QED
  BY <1>2

\* The elements of a sequence of providers, and a sequence that names each once.
LEMMA RangeFacts ==
  ASSUME NEW D, NEW s \in Seq(D)
  PROVE  /\ Router!Range(s) \subseteq D
         /\ \A x : x \in Router!Range(s) <=> \E i \in 1..Len(s) : x = s[i]
BY DEF Router!Range

Distinct(s) == /\ s \in Seq(Router!Providers)
               /\ \A i, j \in 1..Len(s) : s[i] = s[j] => i = j

LEMMA CutFacts ==
  ASSUME NEW s, Distinct(s), NEW k \in 1..Len(s)
  PROVE  /\ Distinct(SubSeq(s, k, Len(s))) /\ SubSeq(s, k, Len(s)) # <<>>
         /\ SubSeq(s, 1, k - 1) \in Seq(Router!Providers)
         /\ Router!Range(SubSeq(s, 1, k - 1)) \cap Router!Range(SubSeq(s, k, Len(s))) = {}
         /\ Router!Range(SubSeq(s, 1, k - 1)) \cup Router!Range(SubSeq(s, k, Len(s)))
              = Router!Range(s)
<1> DEFINE a == SubSeq(s, 1, k - 1)
           b == SubSeq(s, k, Len(s))
<1>1. /\ a \in Seq(Router!Providers) /\ b \in Seq(Router!Providers)
      /\ Len(a) = k - 1 /\ Len(b) = Len(s) - k + 1 /\ Len(s) \in Nat
      /\ \A i \in 1..Len(a) : a[i] = s[i]
      /\ \A i \in 1..Len(b) : b[i] = s[i + k - 1]
  BY DEF Distinct
<1> HIDE DEF a, b
<1>5. /\ \A x : x \in Router!Range(a) <=> \E i \in 1..Len(a) : x = a[i]
      /\ \A x : x \in Router!Range(b) <=> \E i \in 1..Len(b) : x = b[i]
  BY <1>1, RangeFacts
<1>2. Distinct(b) /\ b # <<>>
  BY <1>1 DEF Distinct
<1>3. ASSUME NEW x \in Router!Range(a), x \in Router!Range(b) PROVE FALSE
  <2>1. PICK i \in 1..Len(a), j \in 1..Len(b) : x = a[i] /\ x = b[j]
    BY <1>1, <1>3, RangeFacts
  <2>2. i \in 1..Len(s) /\ j + k - 1 \in 1..Len(s) /\ i < j + k - 1 /\ s[i] = s[j + k - 1]
    <3>1. x = s[i] /\ x = s[j + k - 1]
      BY <1>1, <2>1
    <3>2. i \in 1..Len(s) /\ j + k - 1 \in 1..Len(s) /\ i < j + k - 1
      BY <1>1
    <3> QED
      BY <3>1, <3>2
  <2> QED
    BY <2>2 DEF Distinct
<1>4. ASSUME NEW x PROVE x \in Router!Range(a) \cup Router!Range(b) <=> x \in Router!Range(s)
  <2>1. ASSUME NEW i \in 1..Len(s), x = s[i] PROVE x \in Router!Range(a) \cup Router!Range(b)
    <3>1. CASE i < k
      <4>1. i \in 1..Len(a) /\ a[i] = s[i]
        BY <1>1, <3>1
      <4> QED
        BY <1>5, <2>1, <4>1
    <3>2. CASE i >= k
      <4>1. PICK j \in 1..Len(b) : j + k - 1 = i
        <5>1. i - k + 1 \in 1..Len(b) /\ (i - k + 1) + k - 1 = i
          BY <1>1, <3>2
        <5> QED
          BY <5>1
      <4>2. b[j] = s[i]
        BY <1>1, <4>1
      <4> QED
        BY <1>5, <2>1, <4>2
    <3> QED
      BY <3>1, <3>2
  <2>2. ASSUME x \in Router!Range(a) PROVE \E i \in 1..Len(s) : x = s[i]
    BY <1>1, <2>2, RangeFacts
  <2>3. ASSUME x \in Router!Range(b) PROVE \E i \in 1..Len(s) : x = s[i]
    <3>1. PICK j \in 1..Len(b) : x = b[j]
      BY <1>1, <2>3, RangeFacts
    <3>2. j + k - 1 \in 1..Len(s)
      BY <1>1
    <3> QED
      BY <1>1, <3>1, <3>2
  <2> QED
    BY <2>1, <2>2, <2>3, RangeFacts DEF Distinct
<1> QED
  BY <1>1, <1>2, <1>3, <1>4 DEF a, b

LEMMA TailFacts ==
  ASSUME NEW s, Distinct(s), s # <<>>
  PROVE  /\ Distinct(Tail(s)) /\ Head(s) \in Router!Providers
         /\ Head(s) \notin Router!Range(Tail(s))
         /\ Router!Range(s) = Router!Range(Tail(s)) \cup {Head(s)}
<1> DEFINE t == Tail(s)
<1>1. /\ t \in Seq(Router!Providers) /\ Len(t) = Len(s) - 1 /\ Len(s) \in Nat \ {0}
      /\ \A i \in 1..Len(t) : t[i] = s[i + 1]
      /\ Head(s) = s[1] /\ s[1] \in Router!Providers
  BY DEF Distinct
<1> HIDE DEF t
<1>2. Distinct(t)
  BY <1>1 DEF Distinct
<1>3. s[1] \notin Router!Range(t)
  BY <1>1, RangeFacts DEF Distinct
<1>4. ASSUME NEW x PROVE x \in Router!Range(s) <=> x \in Router!Range(t) \cup {s[1]}
  <2>1. ASSUME NEW i \in 1..Len(s), x = s[i] PROVE x \in Router!Range(t) \cup {s[1]}
    <3>1. CASE i # 1
      <4>1. i - 1 \in 1..Len(t) /\ t[i - 1] = s[i]
        BY <1>1, <3>1
      <4> QED
        BY <1>1, <2>1, <4>1, RangeFacts
    <3> QED
      BY <2>1, <3>1
  <2>2. ASSUME x \in Router!Range(t) PROVE \E i \in 1..Len(s) : x = s[i]
    BY <1>1, <2>2, RangeFacts
  <2> QED
    BY <1>1, <2>1, <2>2, RangeFacts DEF Distinct
<1> QED
  BY <1>1, <1>2, <1>3, <1>4 DEF t

\* The first provider of a sequence whose circuit is closed.
LEMMA NextFacts ==
  ASSUME NEW s \in Seq(Router!Providers)
  PROVE  Router!NextOf(s) \in 0..Len(s) /\ Router!Target(s) \subseteq Router!Providers
<1> DEFINE I == {i \in 1..Len(s) : ~Router!Open(s[i])}
<1>1. Router!NextOf(s) = IF I # {} THEN Router!Min(I) ELSE 0
  BY DEF Router!NextOf, Router!SelectInSeq
<1>2. I \in SUBSET Nat /\ I \subseteq 1..Len(s)
  OBVIOUS
<1> HIDE DEF I
<1>3. I # {} => Router!Min(I) \in I
  BY <1>2, MinFacts
<1>4. Router!NextOf(s) \in 0..Len(s)
  <2>1. Len(s) \in Nat
    OBVIOUS
  <2>2. CASE I = {}
    BY <1>1, <2>1, <2>2
  <2>3. CASE I # {}
    <3>1. Router!NextOf(s) = Router!Min(I) /\ Router!Min(I) \in 1..Len(s)
      BY <1>1, <1>2, <1>3, <2>3
    <3> QED
      BY <2>1, <3>1
  <2> QED
    BY <2>2, <2>3
<1>5. Router!NextOf(s) # 0 => s[Router!NextOf(s)] \in Router!Providers
  BY <1>4
<1> QED
  BY <1>4, <1>5 DEF Router!Target

\* The candidates are the providers, each once.
LEMMA CandidatesFacts ==
  ASSUME active \in Router!Providers
  PROVE  Distinct(Router!Candidates) /\ Router!Range(Router!Candidates) = Router!Providers
<1> DEFINE I == {i \in 1..Len(Order) : Order[i] = active}
           c == Router!Candidates
           n == Len(Order)
<1>0. Distinct(Order)
  BY RouterAssumption DEF Router!LLMRouterAssumption, Router!IsInjective, Distinct
<1>1. PICK k \in 1..n : c = SubSeq(Order, k, n) \o SubSeq(Order, 1, k - 1)
  <2>1. I # {} /\ I \in SUBSET Nat
    BY <1>0, RangeFacts DEF Router!Providers, Distinct
  <2>2. Router!SelectInSeq(Order, LAMBDA p : p = active) = Router!Min(I)
    BY <2>1 DEF Router!SelectInSeq
  <2>3. Router!Min(I) \in I
    <3> HIDE DEF I
    <3> QED
      BY <2>1, MinFacts
  <2> QED
    BY <2>2, <2>3 DEF Router!Candidates
<1>2. /\ c \in Seq(Router!Providers) /\ Len(c) = n /\ n \in Nat
      /\ \A j \in 1..n : c[j] = IF j <= n - k + 1 THEN Order[j + k - 1] ELSE Order[j - (n - k + 1)]
  BY <1>0, <1>1 DEF Distinct
<1> HIDE DEF c
<1>3. Distinct(c)
  <2>1. ASSUME NEW i \in 1..n, NEW j \in 1..n, c[i] = c[j] PROVE i = j
    <3> DEFINE at(l) == IF l <= n - k + 1 THEN l + k - 1 ELSE l - (n - k + 1)
    <3>1. c[i] = Order[at(i)] /\ c[j] = Order[at(j)]
      BY <1>2
    <3>2. at(i) \in 1..n /\ at(j) \in 1..n
      BY <1>2
    <3>3. at(i) = at(j)
      <4> HIDE DEF at
      <4> QED
        BY <1>0, <2>1, <3>1, <3>2 DEF Distinct
    <3> QED
      BY <1>2, <3>3
  <2> QED
    BY <1>2, <2>1 DEF Distinct
<1>4. ASSUME NEW x \in Router!Providers PROVE x \in Router!Range(c)
  <2>1. PICK i \in 1..n : x = Order[i]
    BY <1>0, RangeFacts DEF Distinct, Router!Providers
  <2>2. PICK j \in 1..n : c[j] = Order[i]
    <3>1. CASE i >= k
      <4>1. PICK j \in 1..n : j <= n - k + 1 /\ j + k - 1 = i
        <5>1. i - k + 1 \in 1..n /\ i - k + 1 <= n - k + 1 /\ (i - k + 1) + k - 1 = i
          BY <1>2, <3>1
        <5> QED
          BY <5>1
      <4> QED
        BY <1>2, <4>1
    <3>2. CASE i < k
      <4>1. PICK j \in 1..n : j > n - k + 1 /\ j - (n - k + 1) = i
        <5>1. /\ i + (n - k + 1) \in 1..n /\ i + (n - k + 1) > n - k + 1
              /\ (i + (n - k + 1)) - (n - k + 1) = i
          BY <1>2, <3>2
        <5> QED
          BY <5>1
      <4>2. ~(j <= n - k + 1)
        BY <1>2, <4>1
      <4>3. c[j] = IF j <= n - k + 1 THEN Order[j + k - 1] ELSE Order[j - (n - k + 1)]
        BY <1>2, Zenon
      <4> QED
        BY <4>1, <4>2, <4>3
    <3> QED
      BY <3>1, <3>2
  <2> QED
    BY <1>2, <2>1, <2>2, RangeFacts
<1> QED
  BY <1>2, <1>3, <1>4, RangeFacts DEF c

-----------------------------------------------------------------------------
CallType == [at : {"idle", "asked"} \cup Router!Ended, todo : Seq(Router!Providers),
             attempt : 0..Retries, errors : SUBSET Router!Errors]

Failed(errs) == {e[1] : e \in errs}

\* Whom a call has asked or passed and whom it has not are all providers, each once.
Well(q) ==
  /\ q.at = "asked" => /\ q.todo # <<>> /\ Distinct(q.todo)
                       /\ Failed(q.errors) \cap Router!Range(q.todo) = {}
                       /\ Failed(q.errors) \cup Router!Range(q.todo) = Router!Providers
  /\ q.at \in {"unavailable", "auth"} => Failed(q.errors) = Router!Providers

Longest == Router!Max({Cooldown, QuotaCooldown})

Circuits ==
  /\ now \in 0..MaxTime /\ active \in Router!Providers
  /\ failures \in [Router!Providers -> Nat] /\ quotaUntil \in [Router!Providers -> Nat]
  /\ until \in [Router!Providers -> 0..(now + Longest)]

CallsAreWell == /\ request \in [Invocations -> CallType]
                /\ \A c \in Invocations : Well(request[c])

RouterInv == Circuits /\ Router!CountedOut /\ CallsAreWell

LEMMA RouterSafety == RouterInv => Router!TypeOK /\ Router!EachProviderOnce /\ Router!CountedOut
BY DEF RouterInv, Circuits, CallsAreWell, CallType, Longest, Well, Failed, Router!TypeOK,
       Router!EachProviderOnce, Router!FailedAt, Router!Asked

LEMMA RouterConstants ==
  /\ Order \in Seq(Router!Providers) /\ Order # <<>> /\ Head(Order) \in Router!Providers
  /\ Retries \in Nat /\ Threshold \in Nat \ {0} /\ MaxTime \in Nat
  /\ Cooldown \in Nat \ {0} /\ QuotaCooldown \in Nat \ {0}
  /\ Longest \in Nat /\ Longest >= Cooldown /\ Longest >= QuotaCooldown
BY RouterAssumption, MaxFacts DEF Router!LLMRouterAssumption, Longest

LEMMA InitRouterInv == Router!Init => RouterInv
<1> SUFFICES ASSUME Router!Init PROVE RouterInv
  OBVIOUS
<1>1. Circuits
  BY RouterConstants DEF Router!Init, Circuits
<1>2. Router!CountedOut
  BY RouterConstants DEF Router!Init, Router!CountedOut
<1>3. Router!Idle \in CallType /\ Well(Router!Idle)
  BY RouterConstants DEF Router!Idle, CallType, Well
<1> QED
  BY <1>1, <1>2, <1>3 DEF Router!Init, RouterInv, CallsAreWell

\* A call that goes on with the rest, having failed at all others.
LEMMA GoOnFacts ==
  ASSUME CallsAreWell, NEW c \in Invocations,
         NEW rest, Distinct(rest), NEW errs \in SUBSET Router!Errors,
         Failed(errs) \cap Router!Range(rest) = {},
         Failed(errs) \cup Router!Range(rest) = Router!Providers,
         Router!GoOn(c, rest, errs)
  PROVE  CallsAreWell'
<1> DEFINE k == Router!NextOf(rest)
           passed == IF k = 0 THEN Router!Range(rest) ELSE Router!Range(SubSeq(rest, 1, k - 1))
           all == errs \cup {<<p, "unavailable">> : p \in passed}
           left == IF k > 0 THEN SubSeq(rest, k, Len(rest)) ELSE <<>>
           how == IF k > 0 THEN "asked"
                  ELSE IF \A e \in all : e[2] = "auth" THEN "auth" ELSE "unavailable"
           new == [at |-> how, todo |-> left, attempt |-> 0, errors |-> all]
<1>1. request' = [request EXCEPT ![c] = new]
  BY Zenon DEF Router!GoOn
<1>2. k \in 0..Len(rest) /\ Len(rest) \in Nat /\ rest \in Seq(Router!Providers)
  BY NextFacts DEF Distinct
<1>3. /\ Distinct(left) /\ passed \cap Router!Range(left) = {}
      /\ passed \cup Router!Range(left) = Router!Range(rest)
      /\ k > 0 => left # <<>>
      /\ k = 0 => passed = Router!Range(rest)
  <2>1. CASE k = 0
    <3>1. left = <<>> /\ passed = Router!Range(rest)
      BY <2>1
    <3>2. Router!Range(<<>>) = {} /\ Distinct(<<>>)
      BY DEF Router!Range, Distinct
    <3> QED
      BY <2>1, <3>1, <3>2
  <2>2. CASE k # 0
    <3>1. left = SubSeq(rest, k, Len(rest)) /\ passed = Router!Range(SubSeq(rest, 1, k - 1))
      BY <1>2, <2>2
    <3>2. k \in 1..Len(rest)
      BY <1>2, <2>2
    <3> HIDE DEF k, left, passed
    <3> QED
      BY <2>2, <3>1, <3>2, CutFacts
  <2> QED
    BY <2>1, <2>2
<1> HIDE DEF k, passed, left
<1>4. passed \subseteq Router!Providers
  BY <1>2, <1>3, RangeFacts
<1>5. all \in SUBSET Router!Errors /\ Failed(all) = Failed(errs) \cup passed
  <2>1. all \in SUBSET Router!Errors
    BY <1>4 DEF Router!Errors
  <2>2. ASSUME NEW p \in passed PROVE p \in Failed(all)
    <3>1. <<p, "unavailable">> \in all /\ <<p, "unavailable">>[1] = p
      OBVIOUS
    <3> QED
      BY <3>1, Zenon DEF Failed
  <2>3. Failed(errs) \subseteq Failed(all)
    BY DEF Failed
  <2>4. ASSUME NEW x \in Failed(all) PROVE x \in Failed(errs) \cup passed
    BY DEF Failed
  <2> QED
    BY <2>1, <2>2, <2>3, <2>4
<1> HIDE DEF all
<1>6. how \in {"idle", "asked"} \cup Router!Ended /\ (how = "asked" <=> k > 0)
  BY DEF Router!Ended
<1>7. how # "asked" => k = 0
  BY <1>2, <1>6
<1> HIDE DEF how
<1>8. new \in CallType /\ Well(new)
  <2>1. new \in CallType
    BY <1>3, <1>5, <1>6, RouterConstants DEF CallType, Distinct
  <2>2. how = "asked" => /\ left # <<>> /\ Distinct(left)
                         /\ Failed(all) \cap Router!Range(left) = {}
                         /\ Failed(all) \cup Router!Range(left) = Router!Providers
    BY <1>3, <1>5, <1>6
  <2>3. how # "asked" => Failed(all) = Router!Providers
    BY <1>3, <1>5, <1>7
  <2> QED
    BY <2>1, <2>2, <2>3 DEF Well
<1> HIDE DEF new
<1> QED
  BY <1>1, <1>8 DEF CallsAreWell

LEMMA EndedTyped ==
  ASSUME NEW q \in CallType, NEW how \in {"answered", "rejected", "raised"}
  PROVE  /\ [q EXCEPT !.at = how, !.todo = <<>>] \in CallType
         /\ [q EXCEPT !.at = how, !.todo = <<>>].at = how
<1>1. how \in {"idle", "asked"} \cup Router!Ended /\ <<>> \in Seq(Router!Providers)
  BY DEF Router!Ended
<1> QED
  BY <1>1 DEF CallType

\* A call that ends for another reason.
LEMMA EndFacts ==
  ASSUME CallsAreWell, NEW c \in Invocations, NEW how \in {"answered", "rejected", "raised"},
         Router!End(c, how)
  PROVE  CallsAreWell'
<1> DEFINE new == [request[c] EXCEPT !.at = how, !.todo = <<>>]
<1>1. request' = [request EXCEPT ![c] = new]
  BY DEF Router!End, CallsAreWell, CallType
<1>2. request[c] \in CallType
  BY DEF CallsAreWell
<1>3. new \in CallType /\ new.at = how
  BY <1>2, EndedTyped
<1> HIDE DEF new
<1>4. Well(new)
  BY <1>3 DEF Well
<1> QED
  BY <1>1, <1>3, <1>4 DEF CallsAreWell

\* What a step leaves in the circuits.
LEMMA FailureFacts ==
  ASSUME Circuits, Router!CountedOut, NEW p \in Router!Providers, NEW kind,
         NEW to \in SUBSET Router!Providers, Router!Failure(p, kind, to), now' = now
  PROVE  /\ failures' \in [Router!Providers -> Nat] /\ Router!CountedOut'
         /\ until' \in [Router!Providers -> 0..(now + Longest)]
<1> DEFINE count == IF kind = "quota" THEN Threshold ELSE failures[p] + 1
           reset == {q \in to \ {p} : until[q] > 0}
           later == now + (IF kind = "quota" THEN QuotaCooldown ELSE Cooldown)
<1>1. /\ failures' = [q \in Router!Providers |-> IF q = p THEN count
                                            ELSE IF q \in reset THEN 0 ELSE failures[q]]
      /\ until' = [q \in Router!Providers |-> IF q = p /\ count >= Threshold THEN later
                                               ELSE IF q \in reset THEN 0 ELSE until[q]]
  BY Zenon DEF Router!Failure
<1>2. /\ count \in Nat /\ later \in 0..(now + Longest) /\ later > 0
      /\ now \in Nat /\ Threshold > 0
  <2>1. now \in Nat /\ failures[p] \in Nat /\ Threshold \in Nat /\ Threshold > 0
    BY RouterConstants DEF Circuits
  <2>2. count \in Nat
    BY <2>1
  <2>3. later \in 0..(now + Longest) /\ later > 0
    BY <2>1, RouterConstants
  <2> QED
    BY <2>1, <2>2, <2>3
<1> HIDE DEF count, later, reset
<1>3. failures' \in [Router!Providers -> Nat]
  BY <1>1, <1>2 DEF Circuits
<1>4. until' \in [Router!Providers -> 0..(now + Longest)]
  <2>1. 0 \in 0..(now + Longest)
    BY <1>2, RouterConstants
  <2> QED
    BY <1>1, <1>2, <2>1 DEF Circuits
<1>5. ASSUME NEW q \in Router!Providers, failures'[q] >= Threshold PROVE until'[q] > 0
  <2>1. CASE q = p
    BY <1>1, <1>2, <1>5, <2>1
  <2>2. CASE q # p
    <3>1. q \notin reset
      BY <1>1, <1>5, <2>2, RouterConstants
    <3>2. failures'[q] = failures[q] /\ until'[q] = until[q]
      BY <1>1, <2>2, <3>1
    <3> QED
      BY <1>5, <3>2 DEF Router!CountedOut
  <2> QED
    BY <2>1, <2>2
<1> QED
  BY <1>3, <1>4, <1>5 DEF Router!CountedOut

LEMMA EnsureFacts ==
  ASSUME Circuits, Router!CountedOut, NEW to \in SUBSET Router!Providers, Router!Ensure(to)
  PROVE  /\ failures' \in [Router!Providers -> Nat] /\ Router!CountedOut'
         /\ until' \in [Router!Providers -> 0..(now + Longest)]
<1> DEFINE reset == {q \in to : until[q] > 0}
<1>1. /\ until' = [q \in Router!Providers |-> IF q \in reset THEN 0 ELSE until[q]]
      /\ failures' = [q \in Router!Providers |-> IF q \in reset THEN 0 ELSE failures[q]]
  BY Zenon DEF Router!Ensure
<1>2. 0 \in 0..(now + Longest) /\ Threshold \in Nat /\ Threshold > 0
  BY RouterConstants DEF Circuits
<1> HIDE DEF reset
<1>3. failures' \in [Router!Providers -> Nat] /\ until' \in [Router!Providers -> 0..(now + Longest)]
  BY <1>1, <1>2 DEF Circuits
<1>4. ASSUME NEW q \in Router!Providers, failures'[q] >= Threshold PROVE until'[q] > 0
  <2>1. q \notin reset
    BY <1>1, <1>2, <1>4
  <2> QED
    BY <1>1, <1>4, <2>1 DEF Router!CountedOut
<1> QED
  BY <1>3, <1>4 DEF Router!CountedOut

\* The step of a call that asks its first provider, and goes on to the others.
LEMMA AskedFacts ==
  ASSUME CallsAreWell, NEW c \in Invocations, Router!Asked(c)
  PROVE  /\ request[c] \in CallType /\ Router!Asks(c) \in Router!Providers
         /\ Distinct(Tail(request[c].todo)) /\ request[c].errors \in SUBSET Router!Errors
         /\ \A kind \in {"unavailable", "auth"} :
              LET errs == request[c].errors \cup {<<Router!Asks(c), kind>>}
                  left == Router!Range(Tail(request[c].todo))
              IN  /\ errs \in SUBSET Router!Errors /\ Failed(errs) \cap left = {}
                  /\ Failed(errs) \cup left = Router!Providers
<1>1. request[c] \in CallType /\ Well(request[c]) /\ request[c].at = "asked"
  BY DEF CallsAreWell, Router!Asked
<1>2. request[c].todo # <<>> /\ Distinct(request[c].todo)
  BY <1>1 DEF Well
<1> DEFINE p == Router!Asks(c)
           left == Router!Range(Tail(request[c].todo))
           before == request[c].errors
<1>3. /\ p \in Router!Providers /\ Distinct(Tail(request[c].todo)) /\ p \notin left
      /\ Router!Range(request[c].todo) = left \cup {p}
  BY <1>2, TailFacts DEF Router!Asks
<1>4. before \in SUBSET Router!Errors
  BY <1>1 DEF CallType
<1>5. Failed(before) \cap (left \cup {p}) = {} /\ Failed(before) \cup left \cup {p} = Router!Providers
  BY <1>1, <1>3 DEF Well
<1>6. ASSUME NEW kind \in {"unavailable", "auth"}
      PROVE  /\ before \cup {<<p, kind>>} \in SUBSET Router!Errors
             /\ Failed(before \cup {<<p, kind>>}) = Failed(before) \cup {p}
  <2> HIDE DEF p, before
  <2>1. <<p, kind>> \in Router!Errors
    BY <1>3 DEF Router!Errors
  <2> QED
    BY <1>4, <2>1 DEF Failed
<1> HIDE DEF p, left, before
<1>7. ASSUME NEW kind \in {"unavailable", "auth"}
      PROVE  /\ before \cup {<<p, kind>>} \in SUBSET Router!Errors
             /\ Failed(before \cup {<<p, kind>>}) \cap left = {}
             /\ Failed(before \cup {<<p, kind>>}) \cup left = Router!Providers
  BY <1>3, <1>5, <1>6
<1> QED
  BY <1>1, <1>3, <1>4, <1>7 DEF p, left, before

LEMMA StepRouterInv == RouterInv /\ [Router!Next]_routerVars => RouterInv'
<1> SUFFICES ASSUME RouterInv, [Router!Next]_routerVars PROVE RouterInv'
  OBVIOUS
<1>0. Circuits /\ Router!CountedOut /\ CallsAreWell
  BY DEF RouterInv
<1>1. CASE Router!Tick
  <2>1. Circuits'
    BY <1>0, <1>1, RouterConstants, SMTT(30) DEF Router!Tick, Router!circuits, Circuits
  <2> QED
    BY <1>0, <1>1, <2>1 DEF Router!Tick, Router!circuits, RouterInv, Router!CountedOut, CallsAreWell
<1>2. ASSUME NEW c \in Invocations, Router!Begin(c) PROVE RouterInv'
  <2>1. /\ Distinct(Router!Candidates) /\ Router!Range(Router!Candidates) = Router!Providers
        /\ Router!Target(Router!Candidates) \in SUBSET Router!Providers
    BY <1>0, CandidatesFacts, NextFacts DEF Circuits, Distinct
  <2>2. Failed({}) = {}
    BY DEF Failed
  <2>3. CallsAreWell'
    BY <1>0, <1>2, <2>1, <2>2, GoOnFacts DEF Router!Begin
  <2>4. UNCHANGED <<now, active, quotaUntil>>
    BY <1>2 DEF Router!Begin
  <2> QED
    BY <1>0, <1>2, <2>1, <2>3, <2>4, EnsureFacts DEF Router!Begin, RouterInv, Circuits
<1>3. ASSUME NEW c \in Invocations, Router!Answer(c) PROVE RouterInv'
  <2>1. Router!Asks(c) \in Router!Providers /\ request[c] \in CallType
    BY <1>0, <1>3, AskedFacts DEF Router!Answer
  <2>2. Circuits' /\ Router!CountedOut'
    BY <1>0, <1>3, <2>1, RouterConstants, SMTT(30) DEF Router!Answer, Circuits, Router!CountedOut
  <2>3. CallsAreWell'
    BY <1>0, <1>3, EndFacts DEF Router!Answer
  <2> QED
    BY <2>2, <2>3 DEF RouterInv
<1>4. ASSUME NEW c \in Invocations, Router!Retry(c) PROVE RouterInv'
  <2>1. request[c] \in CallType /\ Well(request[c])
    BY <1>0 DEF CallsAreWell
  <2>2. request' = [request EXCEPT ![c] = [request[c] EXCEPT !.attempt = request[c].attempt + 1]]
    BY <1>4 DEF Router!Retry
  <2>3. /\ [request[c] EXCEPT !.attempt = request[c].attempt + 1] \in CallType
        /\ Well([request[c] EXCEPT !.attempt = request[c].attempt + 1])
    BY <1>4, <2>1, RouterConstants, SMTT(30) DEF CallType, Well, Router!Retry
  <2>4. Circuits' /\ Router!CountedOut'
    BY <1>0, <1>4 DEF Router!Retry, Router!circuits, Circuits, Router!CountedOut
  <2> QED
    BY <1>0, <2>2, <2>3, <2>4 DEF RouterInv, CallsAreWell
<1>5. ASSUME NEW c \in Invocations, NEW kind \in {"quota", "transient"}, Router!Unavailable(c, kind)
      PROVE  RouterInv'
  <2>1. /\ Router!Asked(c) /\ UNCHANGED <<now, active>>
        /\ Router!GoOn(c, Tail(request[c].todo), request[c].errors \cup {<<Router!Asks(c), "unavailable">>})
        /\ Router!Failure(Router!Asks(c), kind, Router!Target(Tail(request[c].todo)))
    BY <1>5 DEF Router!Unavailable
  <2>2. /\ Router!Asks(c) \in Router!Providers /\ Distinct(Tail(request[c].todo))
        /\ Router!Target(Tail(request[c].todo)) \in SUBSET Router!Providers
    BY <1>0, <2>1, AskedFacts, NextFacts DEF Distinct
  <2>3. CallsAreWell'
    BY <1>0, <2>1, <2>2, AskedFacts, GoOnFacts
  <2>4. quotaUntil' \in [Router!Providers -> Nat]
    <3>1. now + QuotaCooldown \in Nat /\ quotaUntil \in [Router!Providers -> Nat]
      BY <1>0, RouterConstants DEF Circuits
    <3>2. \/ quotaUntil' = quotaUntil
          \/ quotaUntil' = [quotaUntil EXCEPT ![Router!Asks(c)] = now + QuotaCooldown]
      BY <1>5 DEF Router!Unavailable
    <3> QED
      BY <3>1, <3>2
  <2> QED
    BY <1>0, <2>1, <2>2, <2>3, <2>4, FailureFacts DEF RouterInv, Circuits
<1>6. ASSUME NEW c \in Invocations, Router!AuthFails(c) PROVE RouterInv'
  <2>1. /\ Router!Asked(c) /\ UNCHANGED <<now, active, quotaUntil>>
        /\ Router!GoOn(c, Tail(request[c].todo), request[c].errors \cup {<<Router!Asks(c), "auth">>})
        /\ Router!Ensure(Router!Target(Tail(request[c].todo)))
    BY <1>6 DEF Router!AuthFails
  <2>2. /\ Distinct(Tail(request[c].todo))
        /\ Router!Target(Tail(request[c].todo)) \in SUBSET Router!Providers
    BY <1>0, <2>1, AskedFacts, NextFacts DEF Distinct
  <2>3. CallsAreWell'
    BY <1>0, <2>1, <2>2, AskedFacts, GoOnFacts
  <2> QED
    BY <1>0, <2>1, <2>2, <2>3, EnsureFacts DEF RouterInv, Circuits
<1>7. ASSUME NEW c \in Invocations, Router!Rejected(c) PROVE RouterInv'
  <2>1. CallsAreWell'
    BY <1>0, <1>7, EndFacts DEF Router!Rejected
  <2>2. Circuits' /\ Router!CountedOut'
    BY <1>0, <1>7 DEF Router!Rejected, Router!circuits, Circuits, Router!CountedOut
  <2> QED
    BY <2>1, <2>2 DEF RouterInv
<1>8. CASE UNCHANGED routerVars
  BY <1>0, <1>8 DEF routerVars, RouterInv, Circuits, Router!CountedOut, CallsAreWell
<1> QED
  BY <1>1, <1>2, <1>3, <1>4, <1>5, <1>6, <1>7, <1>8 DEF Router!Next, Router!Reply

------------------------------------------------------------------------------
\* ShellTool

ShellInv == /\ Shell!TypeOK /\ Shell!OkIsWhole
            /\ call \notin {"waiting", "cancelled"} => shell # "running"
            /\ shell = "zero" => wrote = Output

LEMMA ShellSafety == ShellInv => Shell!TypeOK /\ Shell!OkIsWhole /\ Shell!ShellIsGone
BY DEF ShellInv, Shell!ShellIsGone, Shell!Results

LEMMA InitShellInv == Shell!Init => ShellInv
BY ShellAssumption
   DEF Shell!Init, ShellInv, Shell!TypeOK, Shell!OkIsWhole, Shell!Unread, Shell!Results,
       Shell!ShellToolAssumption

LEMMA StepShellInv == ShellInv /\ [Shell!Next]_shellVars => ShellInv'
<1> SUFFICES ASSUME ShellInv, [Shell!Next]_shellVars PROVE ShellInv'
  OBVIOUS
<1> USE ShellAssumption
    DEF ShellInv, Shell!TypeOK, Shell!OkIsWhole, Shell!Unread, Shell!Results, Shell!answer,
        Shell!ShellToolAssumption
\* Who writes finds room, and nobody writes any more once the answer is good.
<1>1. CASE Shell!Write
  BY <1>1 DEF Shell!Write, Shell!HasRoom
<1>2. CASE Shell!JobWrites
  BY <1>2 DEF Shell!JobWrites, Shell!HasRoom
<1>3. CASE Shell!Fork \/ Shell!JobEnds \/ Shell!ShellEnds
  BY <1>3 DEF Shell!Fork, Shell!JobEnds, Shell!ShellEnds
<1>4. CASE Shell!Waited \/ Shell!TimesOut \/ Shell!ExecutorTimesOut \/ Shell!Cancelled
  BY <1>4 DEF Shell!Waited, Shell!TimesOut, Shell!ExecutorTimesOut, Shell!Cancelled, Shell!Killed
<1>5. CASE Shell!Read
  BY <1>5 DEF Shell!Read
<1>6. CASE Shell!Answered
  <2>1. /\ call = "reading" /\ job # "running" /\ taken = wrote + jobWrote
        /\ call' = IF shell = "zero" THEN "ok" ELSE "error"
        /\ UNCHANGED <<shell, job, wrote, jobWrote, taken>>
    BY <1>6 DEF Shell!Answered, Shell!EndOfFile
  <2>2. /\ shown' = IF taken <= Limit THEN taken ELSE Limit
        /\ mark' = IF taken <= Limit THEN "whole" ELSE "truncated"
    BY <1>6 DEF Shell!Answered, Shell!Truncate
  <2> QED
    BY <2>1, <2>2
<1>7. CASE UNCHANGED shellVars
  BY <1>7 DEF shellVars
<1> QED
  BY <1>1, <1>2, <1>3, <1>4, <1>5, <1>6, <1>7 DEF Shell!Next

LEMMA JointStep ==
  [JointNext]_jointVars => [Turn!Next]_turnVars /\ [Router!Next]_routerVars /\ [Shell!Next]_shellVars
BY DEF JointNext, jointVars

LEMMA JointStart == JointInit => Turn!Init /\ Router!Init /\ Shell!Init
BY DEF JointInit

\* Whatever fails, is cancelled or is compressed, and in whatever loops the turns run,
\* the store refuses no status that a turn schedules, no row is ahead of its turn, and an
\* answered turn whose writes are made is final.
THEOREM StatusesFollowTheTurns == JointSpec => []TurnsAgree
<1>1. JointInit => TurnInv
  BY JointStart, InitTurnInv
<1>2. TurnInv /\ [JointNext]_jointVars => TurnInv'
  BY JointStep, StepTurnInv
<1>3. TurnInv => TurnsAgree
  BY TurnSafety
<1> QED
  BY <1>1, <1>2, <1>3, PTL DEF JointSpec

\* For every order of the providers: a call asks or passes each of them once, gives up
\* only after all, and a provider at the threshold has a time at which it is asked again.
THEOREM EveryProviderIsTried == JointSpec => []FailoverIsComplete
<1>1. JointInit => RouterInv
  BY JointStart, InitRouterInv
<1>2. RouterInv /\ [JointNext]_jointVars => RouterInv'
  BY JointStep, StepRouterInv
<1>3. RouterInv => FailoverIsComplete
  BY RouterSafety DEF FailoverIsComplete
<1> QED
  BY <1>1, <1>2, <1>3, PTL DEF JointSpec

\* Whatever a command and the job it leaves behind write, and however large the pipe and the
\* limit: a good answer is the whole of it, or its beginning with a mark, and no call but a
\* cancelled one is over with its shell running.
THEOREM GoodOutputIsWhole == JointSpec => []ShellIsHonest
<1>1. JointInit => ShellInv
  BY JointStart, InitShellInv
<1>2. ShellInv /\ [JointNext]_jointVars => ShellInv'
  BY JointStep, StepShellInv
<1>3. ShellInv => ShellIsHonest
  BY ShellSafety DEF ShellIsHonest
<1> QED
  BY <1>1, <1>2, <1>3, PTL DEF JointSpec

\* The parts run as their own specifications say: what is proved of a part holds of the
\* whole, and the other parts' steps are stutters of it.
THEOREM EachPartBehaves == JointSpec => Spec /\ Turn!Spec /\ Router!Spec /\ Shell!Spec
<1>1. JointInit => Init /\ Turn!Init /\ Router!Init /\ Shell!Init
  BY DEF JointInit
<1>2. [JointNext]_jointVars => [Next]_vars
  BY DEF JointNext, jointVars, routerVars, shellVars, turnVars
<1>3. [JointNext]_jointVars => [Turn!Next]_(Turn!vars)
  BY DEF JointNext, jointVars, routerVars, shellVars, turnVars,
     Turn!vars, Turn!writes, Turn!context
<1>4. [JointNext]_jointVars => [Router!Next]_(Router!vars)
  BY DEF JointNext, jointVars, routerVars, shellVars, turnVars,
     Router!vars, Router!circuits
<1>5. [JointNext]_jointVars => [Shell!Next]_(Shell!vars)
  BY DEF JointNext, jointVars, routerVars, shellVars, turnVars, Shell!vars, Shell!answer
<1> QED
  BY <1>1, <1>2, <1>3, <1>4, <1>5, PTL DEF JointSpec, Spec, Turn!Spec, Router!Spec, Shell!Spec
=============================================================================
