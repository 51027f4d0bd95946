----------------------------- MODULE Migrations -----------------------------
(***************************************************************************)
(* The migration tool, cmd/migrate/main.go, the schema check and warm-up   *)
(* an API makes before it listens, and the database between them.          *)
(*                                                                         *)
(* Version v creates one table, which refers to the tables of the versions *)
(* before it (migrations/*.sql); a table and the row of schema_migrations  *)
(* that records it are written by two statements of one transaction.       *)
(* PostgreSQL runs it at READ COMMITTED: a statement sees what others have *)
(* committed by then, and waits for a table or a row another transaction   *)
(* has in hand.  A step a tool waits for is one it cannot take; an error,  *)
(* a deadlock PostgreSQL breaks, the 30 s context and a kill are Fail.     *)
(***************************************************************************)
EXTENDS Naturals, TLC

CONSTANTS
    Tool,       \* the runs of the tool
    Latest      \* the last version; expectedSchemaVersion of the API (3)

ASSUME LatestAssumption == Latest \in Nat \ {0}

VARIABLES
    ledger,     \* has schema_migrations been created?
    tables,     \* the versions whose table exists
    versions,   \* the versions schema_migrations records
    op,         \* what a run of the tool is for: "up" or "down"
    pc,         \* where it is
    applied,    \* appliedMap of an up
    target,     \* the version in hand, 0 before the first
    ddl,        \* what the last transaction did to the table of target
    row,        \* and to its row
    api         \* the start-up of an API

database == <<ledger, tables, versions>>
tool == <<op, pc, applied, target, ddl, row>>
vars == <<database, tool, api>>

Version == 1..Latest

References(v) == 1..v - 1

Least(S) == {v \in S : \A w \in S : v <= w}

Greatest(S) == {v \in S : \A w \in S : w <= v}

InTransaction == {"record", "erase", "commit"}
Ended == {"ok", "failed"}
Label == {"idle", "read", "next", "drop"} \cup InTransaction \cup Ended

\* Earlier runs, one after the other, have brought the schema to a version.
Init ==
    /\ \E k \in 0..Latest : tables = 1..k /\ versions = 1..k
    /\ ledger \in BOOLEAN
    /\ versions # {} => ledger
    /\ op = [t \in Tool |-> "none"]
    /\ pc = [t \in Tool |-> "idle"]
    /\ applied = [t \in Tool |-> {}]
    /\ target = [t \in Tool |-> 0]
    /\ ddl = [t \in Tool |-> "none"]
    /\ row = [t \in Tool |-> "none"]
    /\ api = "off"

-----------------------------------------------------------------------------
Goto(t, label) == pc' = [pc EXCEPT ![t] = label]

\* Another transaction, not yet committed, has done this to version v.
OthersBuild(t, what, v) ==
    \E u \in Tool \ {t} : pc[u] \in InTransaction /\ target[u] = v /\ ddl[u] = what

OthersWrite(t, v) ==
    \E u \in Tool \ {t} : pc[u] \in InTransaction /\ target[u] = v /\ row[u] # "none"

\* main: the flags, the ping and ensureMigrationTable.
Start(t, what) ==
    /\ pc[t] = "idle"
    /\ Goto(t, "read")
    /\ op' = [op EXCEPT ![t] = what]
    /\ ledger' = TRUE
    /\ UNCHANGED <<tables, versions, applied, target, ddl, row, api>>

\* An error at any point: the transaction is rolled back.
Fail(t) ==
    /\ pc[t] \notin {"idle"} \cup Ended
    /\ Goto(t, "failed")
    /\ ddl' = [ddl EXCEPT ![t] = "none"]
    /\ row' = [row EXCEPT ![t] = "none"]
    /\ UNCHANGED <<database, op, applied, target, api>>

-----------------------------------------------------------------------------
(* runUp                                                                   *)

ReadApplied(t) ==
    /\ pc[t] = "read" /\ op[t] = "up"
    /\ applied' = [applied EXCEPT ![t] = versions]
    /\ Goto(t, "next")
    /\ UNCHANGED <<database, op, target, ddl, row, api>>

\* Mutant: the loop starts after the first pending version.
PendingLate(t) == {v \in Version \ applied[t] : v > target[t] + 1}

\* The versions the loop has still to apply.
Pending(t) == {v \in Version \ applied[t] : v > target[t]}

\* BEGIN and the statements of the up file: the table must not exist, and the
\* ones it refers to must.
CreateTable(t) ==
    /\ pc[t] = "next"
    /\ \E v \in Least(Pending(t)) :
         /\ v \notin tables /\ References(v) \subseteq tables
         /\ ~ OthersBuild(t, "created", v)
         /\ \A w \in References(v) : ~ OthersBuild(t, "dropped", w)
         /\ target' = [target EXCEPT ![t] = v]
    /\ ddl' = [ddl EXCEPT ![t] = "created"]
    /\ row' = [row EXCEPT ![t] = "none"]
    /\ Goto(t, "record")
    /\ UNCHANGED <<database, op, applied, api>>

\* Mutant: the version is not recorded.
RecordNothing(t) ==
    /\ pc[t] = "record"
    /\ Goto(t, "commit")
    /\ UNCHANGED <<database, op, applied, target, ddl, row, api>>

\* INSERT INTO schema_migrations: the version is its primary key.
RecordVersion(t) ==
    /\ pc[t] = "record"
    /\ target[t] \notin versions /\ ~ OthersWrite(t, target[t])
    /\ row' = [row EXCEPT ![t] = "inserted"]
    /\ Goto(t, "commit")
    /\ UNCHANGED <<database, op, applied, target, ddl, api>>

UpDone(t) ==
    /\ pc[t] = "next" /\ Pending(t) = {}
    /\ Goto(t, "ok")
    /\ UNCHANGED <<database, op, applied, target, ddl, row, api>>

-----------------------------------------------------------------------------
(* runDown                                                                 *)

\* Mutant: the version to go to, not the one to undo, off by one.
ReadMaxBeyond(t) ==
    /\ pc[t] = "read" /\ op[t] = "down"
    /\ \E v \in Greatest(versions) : target' = [target EXCEPT ![t] = v + 1]
    /\ Goto(t, "drop")
    /\ UNCHANGED <<database, op, applied, ddl, row, api>>

ReadMax(t) ==
    /\ pc[t] = "read" /\ op[t] = "down"
    /\ \E v \in Greatest(versions) : target' = [target EXCEPT ![t] = v]
    /\ Goto(t, "drop")
    /\ UNCHANGED <<database, op, applied, ddl, row, api>>

NothingToUndo(t) ==
    /\ pc[t] = "read" /\ op[t] = "down" /\ versions = {}
    /\ Goto(t, "ok")
    /\ UNCHANGED <<database, op, applied, target, ddl, row, api>>

\* BEGIN and DROP TABLE IF EXISTS, without CASCADE.  A table that another
\* transaction is creating is not seen.
DropTable(t) ==
    /\ pc[t] = "drop"
    /\ \/ /\ target[t] \in tables
          /\ \A w \in tables : target[t] \notin References(w)
          /\ \A w \in Version : target[t] \in References(w) => ~ OthersBuild(t, "created", w)
          /\ ~ OthersBuild(t, "dropped", target[t])
          /\ ddl' = [ddl EXCEPT ![t] = "dropped"]
       \/ /\ target[t] \notin tables
          /\ UNCHANGED ddl
    /\ Goto(t, "erase")
    /\ UNCHANGED <<database, op, applied, target, row, api>>

\* Mutant: the version stays recorded.
EraseNothing(t) ==
    /\ pc[t] = "erase"
    /\ Goto(t, "commit")
    /\ UNCHANGED <<database, op, applied, target, ddl, row, api>>

\* DELETE FROM schema_migrations: no row is no error, and a row that another
\* transaction is inserting is not seen.
EraseVersion(t) ==
    /\ pc[t] = "erase"
    /\ \/ /\ target[t] \in versions /\ ~ OthersWrite(t, target[t])
          /\ row' = [row EXCEPT ![t] = "deleted"]
       \/ /\ target[t] \notin versions
          /\ UNCHANGED row
    /\ Goto(t, "commit")
    /\ UNCHANGED <<database, op, applied, target, ddl, api>>

-----------------------------------------------------------------------------
\* COMMIT makes the two statements seen; its answer may be lost.
Commit(t) ==
    /\ pc[t] = "commit"
    /\ tables' = CASE ddl[t] = "created" -> tables \cup {target[t]}
                   [] ddl[t] = "dropped" -> tables \ {target[t]}
                   [] OTHER -> tables
    /\ versions' = CASE row[t] = "inserted" -> versions \cup {target[t]}
                     [] row[t] = "deleted" -> versions \ {target[t]}
                     [] OTHER -> versions
    /\ Goto(t, IF op[t] = "up" THEN "next" ELSE "ok") \/ Goto(t, "failed")
    /\ UNCHANGED <<ledger, op, applied, target, ddl, row, api>>

-----------------------------------------------------------------------------
(* The API: ValidateSchema, then the warm-up, which reads the last table.  *)

\* Mutant: any recorded version will do.
ValidateSome ==
    /\ api = "off"
    /\ api' = IF versions # {} THEN "valid" ELSE "refused"
    /\ UNCHANGED <<database, tool>>

ValidateSchema ==
    /\ api = "off"
    /\ api' = IF ledger /\ \E v \in Greatest(versions) : v >= Latest THEN "valid" ELSE "refused"
    /\ UNCHANGED <<database, tool>>

WarmUp ==
    /\ api = "valid"
    /\ \A t \in Tool : ~ (pc[t] \in InTransaction /\ target[t] = Latest /\ ddl[t] = "dropped")
    /\ api' = IF Latest \in tables THEN "serving" ELSE "refused"
    /\ UNCHANGED <<database, tool>>

-----------------------------------------------------------------------------
Up(t) == ReadApplied(t) \/ CreateTable(t) \/ RecordVersion(t) \/ UpDone(t)

Down(t) == ReadMax(t) \/ NothingToUndo(t) \/ DropTable(t) \/ EraseVersion(t)

Next ==
    \/ \E t \in Tool :
          \/ \E what \in {"up", "down"} : Start(t, what)
          \/ Up(t) \/ Down(t) \/ Commit(t) \/ Fail(t)
    \/ ValidateSchema
    \/ WarmUp

Spec == Init /\ [][Next]_vars

Symmetry == Permutations(Tool)
-----------------------------------------------------------------------------
\* The types of the database, the tool and the API.
TypeOK ==
    /\ ledger \in BOOLEAN
    /\ tables \subseteq Version
    /\ versions \subseteq Version
    /\ op \in [Tool -> {"none", "up", "down"}]
    /\ pc \in [Tool -> Label]
    /\ applied \in [Tool -> SUBSET Version]
    /\ target \in [Tool -> 0..Latest]
    /\ ddl \in [Tool -> {"none", "created", "dropped"}]
    /\ row \in [Tool -> {"none", "inserted", "deleted"}]
    /\ api \in {"off", "valid", "serving", "refused"}

\* A recorded version has its table, and a table has the ones it refers to:
\* whichever tools run at once and wherever one of them stops, what the ledger
\* says is there (main.go:129-161, 195-212).
RecordedAreBuilt ==
    /\ versions \subseteq tables
    /\ \A v \in tables : References(v) \subseteq tables

\* A down that found no table to drop and yet a row to delete, because an up
\* committed between its two statements.
StaleDown(t, v) ==
    /\ op[t] = "down" /\ pc[t] \in Ended
    /\ target[t] = v /\ ddl[t] = "none" /\ row[t] = "deleted"

\* A table without its row, which no later up or down repairs, is left only by
\* a down whose version two other runs undid and applied again after it had
\* read it (main.go:172, outside the transaction).  Ups at once, kills and lost
\* commits never separate the ledger from the schema.
DriftNeedsStaleDown ==
    \A v \in tables \ versions : \E t \in Tool : StaleDown(t, v)

\* An up that ends without an error leaves every version recorded, but for the
\* ones a down has removed.
UpMeansApplied ==
    \A t \in Tool : op[t] = "up" /\ pc[t] = "ok" =>
        \A v \in Version \ versions :
            \E u \in Tool : op[u] = "down" /\ target[u] = v /\ row[u] = "deleted"

\* An API goes past ValidateSchema (postgres.go:63-94) only when every table it
\* is about to use exists at that moment, although it looks at one number.
BootsOnCompleteSchema ==
    [][api' = "valid" /\ api # "valid" => tables = Version]_vars
=============================================================================
