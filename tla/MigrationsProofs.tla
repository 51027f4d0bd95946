-------------------------- MODULE MigrationsProofs --------------------------
(***************************************************************************)
(* Proofs about Migrations, for every set of tools and every last version. *)
(*                                                                         *)
(* The two statements of a transaction keep the ledger and the schema      *)
(* together only because of what the transaction holds while it is open:   *)
(* a table it creates is one nobody has or makes, a table it drops is one  *)
(* nobody refers to or is about to (Held and Apart).  Progress relates an  *)
(* up to the versions it has passed, which a down may have undone since.   *)
(***************************************************************************)
EXTENDS Migrations, TLAPS

Tx(t) == pc[t] \in InTransaction

\* Where a run is, and what it has in hand there.
Stage(t) ==
    /\ pc[t] \in {"idle", "read"} => target[t] = 0
    /\ pc[t] \in {"idle", "read", "drop"} => ddl[t] = "none" /\ row[t] = "none"
    /\ pc[t] = "next" => op[t] = "up"
    /\ pc[t] = "drop" => op[t] = "down" /\ target[t] \in Version
    /\ Tx(t) => target[t] \in Version
    /\ pc[t] = "record" => op[t] = "up" /\ ddl[t] = "created" /\ row[t] = "none"
    /\ pc[t] = "erase" => op[t] = "down" /\ ddl[t] # "created" /\ row[t] = "none"
    /\ pc[t] = "commit" =>
          \/ op[t] = "up" /\ ddl[t] = "created" /\ row[t] = "inserted"
          \/ op[t] = "down" /\ ddl[t] # "created" /\ row[t] # "inserted"

\* What an open transaction can rely on until it ends.
Held(t) ==
    /\ Tx(t) /\ ddl[t] = "created" =>
          target[t] \notin tables /\ References(target[t]) \subseteq tables
    /\ Tx(t) /\ ddl[t] = "dropped" =>
          target[t] \in tables /\ \A w \in tables : target[t] \notin References(w)
    /\ pc[t] = "commit" /\ ddl[t] = "dropped" /\ row[t] # "deleted" =>
          target[t] \notin versions

\* What the locks of one keep from another.
Apart(t, u) ==
    t # u /\ Tx(t) /\ Tx(u) =>
        /\ ddl[t] = ddl[u] /\ ddl[t] # "none" => target[t] # target[u]
        /\ ddl[t] = "created" /\ ddl[u] = "dropped" => target[u] \notin References(target[t])

\* A down has removed the row of v, and has committed.
Undone(v) ==
    \E u \in Tool : /\ op[u] = "down" /\ target[u] = v
                    /\ row[u] = "deleted" /\ pc[u] \in Ended

Passed(t, v) ==
    v \in applied[t] \/ v < target[t] \/ (v = target[t] /\ pc[t] \in {"next", "ok"})

Progress(t) ==
    op[t] = "up" /\ (pc[t] \in {"next", "ok"} \/ Tx(t)) =>
        /\ \A v \in Version : Passed(t, v) => v \in versions \/ Undone(v)
        /\ pc[t] = "ok" => \A v \in Version : Passed(t, v)

LocalInv == TypeOK /\ \A t \in Tool : Stage(t)

SharedInv ==
    /\ RecordedAreBuilt
    /\ \A t \in Tool : Held(t)
    /\ \A t, u \in Tool : Apart(t, u)

IInv == LocalInv /\ SharedInv

-----------------------------------------------------------------------------
(* What a step of one run leaves of the others.                            *)

LEMMA TypeFacts ==
    ASSUME TypeOK
    PROVE  /\ DOMAIN op = Tool /\ DOMAIN pc = Tool /\ DOMAIN applied = Tool
           /\ DOMAIN target = Tool /\ DOMAIN ddl = Tool /\ DOMAIN row = Tool
  BY DEF TypeOK

LEMMA VersionFacts ==
    /\ Version \subseteq 0..Latest /\ 0 \in 0..Latest
    /\ \A v \in Version : v \in Nat
  BY LatestAssumption, SMT DEF Version

LEMMA LocalInit == Init => LocalInv
<1> SUFFICES ASSUME Init PROVE LocalInv
    OBVIOUS
<1>1. tables \subseteq Version /\ versions \subseteq Version
    BY LatestAssumption, SMT DEF Init, Version
<1>2. TypeOK
    BY <1>1, VersionFacts DEF Init, TypeOK, Label
<1>3. \A t \in Tool : Stage(t)
    BY DEF Init, Stage, Tx, InTransaction
<1> QED
    BY <1>2, <1>3 DEF LocalInv

LEMMA LocalNext ==
    ASSUME LocalInv, [Next]_vars
    PROVE  LocalInv'
<1> USE DEF LocalInv
<1>1. ASSUME NEW t \in Tool, NEW what \in {"up", "down"}, Start(t, what) PROVE LocalInv'
  <2>1. TypeOK'
      BY <1>1 DEF Start, Goto, TypeOK, Label
  <2>2. ASSUME NEW u \in Tool PROVE Stage(u)'
      BY <1>1, <2>2 DEF Start, Goto, TypeOK, Stage, Tx, InTransaction
  <2> QED
      BY <2>1, <2>2
<1>2. ASSUME NEW t \in Tool, Fail(t) PROVE LocalInv'
  <2>1. TypeOK'
      BY <1>2 DEF Fail, Goto, TypeOK, Label, Ended, database
  <2>2. ASSUME NEW u \in Tool PROVE Stage(u)'
      BY <1>2, <2>2 DEF Fail, Goto, TypeOK, Stage, Tx, InTransaction, database
  <2> QED
      BY <2>1, <2>2
<1>3. ASSUME NEW t \in Tool, ReadApplied(t) PROVE LocalInv'
  <2>1. TypeOK'
      BY <1>3 DEF ReadApplied, Goto, TypeOK, Label, database
  <2>2. ASSUME NEW u \in Tool PROVE Stage(u)'
      BY <1>3, <2>2 DEF ReadApplied, Goto, TypeOK, Stage, Tx, InTransaction, database
  <2> QED
      BY <2>1, <2>2
<1>4. ASSUME NEW t \in Tool, CreateTable(t) PROVE LocalInv'
  <2>1. PICK v \in Version : target' = [target EXCEPT ![t] = v]
      BY <1>4 DEF CreateTable, Least, Pending
  <2>2. TypeOK'
      BY <1>4, <2>1, VersionFacts DEF CreateTable, Goto, TypeOK, Label, InTransaction, database
  <2>3. ASSUME NEW u \in Tool PROVE Stage(u)'
      BY <1>4, <2>1, <2>3 DEF CreateTable, Goto, TypeOK, Stage, Tx, InTransaction, database
  <2> QED
      BY <2>2, <2>3
<1>5. ASSUME NEW t \in Tool, RecordVersion(t) PROVE LocalInv'
  <2>1. TypeOK'
      BY <1>5 DEF RecordVersion, Goto, TypeOK, Label, InTransaction, database
  <2>2. ASSUME NEW u \in Tool PROVE Stage(u)'
      BY <1>5, <2>2 DEF RecordVersion, Goto, TypeOK, Stage, Tx, InTransaction, database
  <2> QED
      BY <2>1, <2>2
<1>6. ASSUME NEW t \in Tool, UpDone(t) \/ NothingToUndo(t) PROVE LocalInv'
  <2>1. TypeOK'
      BY <1>6 DEF UpDone, NothingToUndo, Goto, TypeOK, Label, Ended, database
  <2>2. ASSUME NEW u \in Tool PROVE Stage(u)'
      BY <1>6, <2>2 DEF UpDone, NothingToUndo, Goto, TypeOK, Stage, Tx, InTransaction, database
  <2> QED
      BY <2>1, <2>2
<1>7. ASSUME NEW t \in Tool, ReadMax(t) PROVE LocalInv'
  <2>1. PICK v \in Version : target' = [target EXCEPT ![t] = v]
      BY <1>7 DEF ReadMax, Greatest, TypeOK
  <2>2. TypeOK'
      BY <1>7, <2>1, VersionFacts DEF ReadMax, Goto, TypeOK, Label, database
  <2>3. ASSUME NEW u \in Tool PROVE Stage(u)'
      BY <1>7, <2>1, <2>3 DEF ReadMax, Goto, TypeOK, Stage, Tx, InTransaction, database
  <2> QED
      BY <2>2, <2>3
<1>8. ASSUME NEW t \in Tool, DropTable(t) PROVE LocalInv'
  <2>1. TypeOK'
      BY <1>8 DEF DropTable, Goto, TypeOK, Label, InTransaction, database
  <2>2. ASSUME NEW u \in Tool PROVE Stage(u)'
      BY <1>8, <2>2 DEF DropTable, Goto, TypeOK, Stage, Tx, InTransaction, database
  <2> QED
      BY <2>1, <2>2
<1>9. ASSUME NEW t \in Tool, EraseVersion(t) PROVE LocalInv'
  <2>1. TypeOK'
      BY <1>9 DEF EraseVersion, Goto, TypeOK, Label, InTransaction, database
  <2>2. ASSUME NEW u \in Tool PROVE Stage(u)'
      BY <1>9, <2>2 DEF EraseVersion, Goto, TypeOK, Stage, Tx, InTransaction, database
  <2> QED
      BY <2>1, <2>2
<1>10. ASSUME NEW t \in Tool, Commit(t) PROVE LocalInv'
  <2>1. target[t] \in Version
      BY <1>10 DEF Commit, Stage, Tx, InTransaction
  <2>2. tables' \subseteq Version
      BY <1>10, <2>1 DEF Commit, TypeOK
  <2>3. versions' \subseteq Version
      BY <1>10, <2>1 DEF Commit, TypeOK
  <2>4. pc' \in [Tool -> Label]
      BY <1>10 DEF Commit, Goto, TypeOK, Label, Ended
  <2>5. TypeOK'
      BY <1>10, <2>2, <2>3, <2>4 DEF Commit, TypeOK
  <2>6. ASSUME NEW u \in Tool PROVE Stage(u)'
      BY <1>10, <2>1, <2>6 DEF Commit, Goto, TypeOK, Stage, Tx, InTransaction
  <2> QED
      BY <2>5, <2>6
<1>11. ASSUME ValidateSchema \/ WarmUp PROVE LocalInv'
  <2>1. UNCHANGED <<database, tool>> /\ api' \in {"off", "valid", "serving", "refused"}
      BY <1>11 DEF ValidateSchema, WarmUp
  <2>2. TypeOK'
      BY <2>1 DEF TypeOK, database, tool
  <2>3. ASSUME NEW u \in Tool PROVE Stage(u)'
      BY <2>1, <2>3 DEF Stage, Tx, database, tool
  <2> QED
      BY <2>2, <2>3
<1>12. CASE UNCHANGED vars
  <2>1. TypeOK'
      BY <1>12 DEF TypeOK, vars, database, tool
  <2>2. ASSUME NEW u \in Tool PROVE Stage(u)'
      BY <1>12, <2>2 DEF Stage, Tx, vars, database, tool
  <2> QED
      BY <2>1, <2>2
<1> QED
    BY <1>1, <1>2, <1>3, <1>4, <1>5, <1>6, <1>7, <1>8, <1>9, <1>10, <1>11, <1>12
    DEF Next, Up, Down

\* The database, the runs and the API stay within their types, and a run that
\* writes has a version of the tool in hand.
THEOREM MigrationsTypeOK == Spec => []TypeOK
<1>1. LocalInv => TypeOK
    BY DEF LocalInv
<1>2. LocalInv /\ [Next]_vars => LocalInv'
    BY LocalNext
<1> QED
    BY LocalInit, <1>1, <1>2, PTL DEF Spec
-----------------------------------------------------------------------------
(* The ledger and the schema.                                              *)

SameButFor(t) ==
    \A u \in Tool \ {t} :
        pc'[u] = pc[u] /\ op'[u] = op[u] /\ target'[u] = target[u] /\ ddl'[u] = ddl[u]
        /\ row'[u] = row[u] /\ applied'[u] = applied[u]

\* A step that does not write the database asks only what its own run now has.
LEMMA QuietStep ==
    ASSUME SharedInv, NEW t \in Tool, SameButFor(t),
           tables' = tables, versions' = versions,
           Held(t)', \A u \in Tool : Apart(t, u)' /\ Apart(u, t)'
    PROVE  SharedInv'
<1>1. RecordedAreBuilt'
    BY DEF SharedInv, RecordedAreBuilt
<1>2. ASSUME NEW u \in Tool PROVE Held(u)'
  <2>1. CASE u = t
      BY <2>1
  <2>2. CASE u # t
      BY <2>2 DEF SharedInv, Held, SameButFor, Tx
  <2> QED
      BY <2>1, <2>2
<1>3. ASSUME NEW u \in Tool, NEW w \in Tool PROVE Apart(u, w)'
  <2>1. CASE u = t \/ w = t
      BY <2>1
  <2>2. CASE u # t /\ w # t
      BY <2>2 DEF SharedInv, Apart, SameButFor, Tx
  <2> QED
      BY <2>1, <2>2
<1> QED
    BY <1>1, <1>2, <1>3 DEF SharedInv

LEMMA QuietOutside ==
    ASSUME SharedInv, NEW t \in Tool, SameButFor(t),
           tables' = tables, versions' = versions, pc'[t] \notin InTransaction
    PROVE  SharedInv'
<1>1. ~ Tx(t)' /\ pc'[t] # "commit"
    BY DEF Tx, InTransaction
<1>2. Held(t)' /\ \A u \in Tool : Apart(t, u)' /\ Apart(u, t)'
    BY <1>1 DEF Held, Apart
<1> QED
    BY <1>2, QuietStep

LEMMA SharedInit == Init => SharedInv
<1> SUFFICES ASSUME Init PROVE SharedInv
    OBVIOUS
<1>1. RecordedAreBuilt
  <2>1. PICK k \in 0..Latest : tables = 1..k /\ versions = 1..k
      BY DEF Init
  <2>2. \A v \in 1..k : 1..v - 1 \subseteq 1..k
      BY <2>1, LatestAssumption, SMT
  <2> QED
      BY <2>1, <2>2 DEF RecordedAreBuilt, References
<1>2. \A t \in Tool : Held(t)
    BY DEF Init, Held, Tx, InTransaction
<1>3. \A t, u \in Tool : Apart(t, u)
    BY DEF Init, Apart, Tx, InTransaction
<1> QED
    BY <1>1, <1>2, <1>3 DEF SharedInv

LEMMA CreateShared ==
    ASSUME IInv, NEW t \in Tool, CreateTable(t)
    PROVE  SharedInv'
<1> USE DEF IInv
<1>1. PICK v \in Version :
         /\ v \notin tables /\ References(v) \subseteq tables
         /\ ~ OthersBuild(t, "created", v)
         /\ \A w \in References(v) : ~ OthersBuild(t, "dropped", w)
         /\ target' = [target EXCEPT ![t] = v]
    BY DEF CreateTable, Least, Pending
<1>2. /\ pc'[t] = "record" /\ target'[t] = v /\ ddl'[t] = "created" /\ row'[t] = "none"
      /\ tables' = tables /\ versions' = versions
    BY <1>1, TypeFacts DEF LocalInv, CreateTable, Goto, database
<1>3. SameButFor(t)
    BY <1>1, TypeFacts DEF LocalInv, CreateTable, Goto, SameButFor
<1>4. Held(t)'
    BY <1>1, <1>2 DEF Held, Tx
<1>5. ASSUME NEW u \in Tool PROVE Apart(t, u)' /\ Apart(u, t)'
  <2>1. SUFFICES ASSUME u # t, Tx(u) PROVE Apart(t, u)' /\ Apart(u, t)'
      BY <1>3 DEF Apart, SameButFor, Tx
  <2>2. ddl[u] = "created" => target[u] # v
      BY <1>1, <2>1 DEF OthersBuild, Tx
  <2>3. ddl[u] = "dropped" => target[u] \notin References(v)
      BY <1>1, <2>1 DEF OthersBuild, Tx
  <2> QED
      BY <1>2, <1>3, <2>1, <2>2, <2>3 DEF Apart, SameButFor
<1> QED
    BY <1>2, <1>3, <1>4, <1>5, QuietStep

LEMMA DropShared ==
    ASSUME IInv, NEW t \in Tool, DropTable(t)
    PROVE  SharedInv'
<1> USE DEF IInv
<1>1. /\ pc[t] = "drop" /\ pc'[t] = "erase" /\ target' = target /\ row' = row
      /\ tables' = tables /\ versions' = versions
    BY TypeFacts DEF LocalInv, DropTable, Goto, database
<1>2. SameButFor(t)
    BY TypeFacts DEF LocalInv, DropTable, Goto, SameButFor
<1>3. ddl[t] = "none"
    BY <1>1 DEF LocalInv, Stage
<1>4. CASE target[t] \notin tables
  <2>1. ddl'[t] = "none"
      BY <1>3, <1>4 DEF DropTable
  <2>2. Held(t)'
      BY <1>1, <2>1 DEF Held
  <2>3. ASSUME NEW u \in Tool PROVE Apart(t, u)' /\ Apart(u, t)'
      BY <2>1 DEF Apart
  <2> QED
      BY <1>1, <1>2, <2>2, <2>3, QuietStep
<1>5. CASE target[t] \in tables
  <2>1. /\ \A w \in tables : target[t] \notin References(w)
        /\ \A w \in Version : target[t] \in References(w) => ~ OthersBuild(t, "created", w)
        /\ ~ OthersBuild(t, "dropped", target[t])
        /\ ddl'[t] = "dropped"
      BY <1>5, TypeFacts DEF LocalInv, DropTable
  <2>2. Held(t)'
      BY <1>1, <1>5, <2>1 DEF Held
  <2>3. ASSUME NEW u \in Tool PROVE Apart(t, u)' /\ Apart(u, t)'
    <3>1. SUFFICES ASSUME u # t, Tx(u) PROVE Apart(t, u)' /\ Apart(u, t)'
        BY <1>2 DEF Apart, SameButFor, Tx
    <3>2. target[u] \in Version
        BY <3>1 DEF LocalInv, Stage
    <3>3. ddl[u] = "dropped" => target[u] # target[t]
        BY <2>1, <3>1 DEF OthersBuild, Tx
    <3>4. ddl[u] = "created" => target[t] \notin References(target[u])
        BY <2>1, <3>1, <3>2 DEF OthersBuild, Tx
    <3> QED
        BY <1>1, <1>2, <2>1, <3>1, <3>3, <3>4 DEF Apart, SameButFor
  <2> QED
      BY <1>1, <1>2, <2>2, <2>3, QuietStep
<1> QED
    BY <1>4, <1>5

\* The second statement of a transaction: the table it has in hand stays so.
LEMMA WriteShared ==
    ASSUME IInv, NEW t \in Tool, RecordVersion(t) \/ EraseVersion(t)
    PROVE  SharedInv'
<1> USE DEF IInv
<1>1. /\ Tx(t) /\ pc'[t] = "commit" /\ target' = target /\ ddl' = ddl
      /\ tables' = tables /\ versions' = versions
    BY TypeFacts DEF LocalInv, RecordVersion, EraseVersion, Goto, Tx, InTransaction, database
<1>2. SameButFor(t)
    BY TypeFacts DEF LocalInv, RecordVersion, EraseVersion, Goto, SameButFor
<1>3. Held(t)'
  <2>1. ddl[t] = "dropped" /\ row'[t] # "deleted" => target[t] \notin versions
    <3>1. RecordVersion(t) => ddl[t] = "created"
        BY DEF LocalInv, Stage, RecordVersion
    <3>2. EraseVersion(t) => row'[t] = "deleted" \/ target[t] \notin versions
        BY TypeFacts DEF LocalInv, EraseVersion
    <3> QED
        BY <3>1, <3>2
  <2>2. Held(t)
      BY DEF SharedInv
  <2> QED
      BY <1>1, <2>1, <2>2 DEF Held
<1>4. ASSUME NEW u \in Tool PROVE Apart(t, u)' /\ Apart(u, t)'
  <2>1. Apart(t, u) /\ Apart(u, t)
      BY DEF SharedInv
  <2> QED
      BY <1>1, <1>2, <2>1 DEF Apart, SameButFor, Tx
<1> QED
    BY <1>1, <1>2, <1>3, <1>4, QuietStep

LEMMA CommitShared ==
    ASSUME IInv, NEW t \in Tool, Commit(t)
    PROVE  SharedInv'
<1> USE DEF IInv
<1>1. /\ Tx(t) /\ pc[t] = "commit" /\ pc'[t] \notin InTransaction
      /\ target' = target /\ ddl' = ddl /\ row' = row
    BY TypeFacts DEF LocalInv, Commit, Goto, Tx, InTransaction
<1>2. SameButFor(t)
    BY TypeFacts DEF LocalInv, Commit, Goto, SameButFor
<1>3. Held(t)' /\ \A u \in Tool : Apart(t, u)' /\ Apart(u, t)'
    BY <1>1 DEF Held, Apart, Tx, InTransaction
<1>4. ASSUME NEW u \in Tool, NEW w \in Tool, u # t, w # t PROVE Apart(u, w)'
    BY <1>2, <1>4 DEF SharedInv, Apart, SameButFor, Tx
<1>5. Held(t) /\ RecordedAreBuilt
    BY DEF SharedInv
<1>6. ASSUME NEW u \in Tool, u # t
      PROVE  /\ Held(u) /\ Apart(t, u) /\ Apart(u, t)
             /\ Tx(u)' = Tx(u) /\ target'[u] = target[u] /\ ddl'[u] = ddl[u]
             /\ pc'[u] = pc[u] /\ row'[u] = row[u]
    BY <1>2, <1>6 DEF SharedInv, SameButFor, Tx
<1>7. CASE ddl[t] = "created"
  <2>1. tables' = tables \cup {target[t]} /\ versions' = versions \cup {target[t]}
      BY <1>1, <1>7 DEF LocalInv, Stage, Commit
  <2>2. RecordedAreBuilt'
      BY <1>1, <1>5, <1>7, <2>1 DEF RecordedAreBuilt, Held
  <2>3. ASSUME NEW u \in Tool, u # t PROVE Held(u)'
    <3>1. Tx(u) /\ ddl[u] = "created" => target[u] # target[t]
        BY <1>1, <1>6, <1>7, <2>3 DEF Apart
    <3>2. Tx(u) /\ ddl[u] = "dropped" =>
             target[u] \notin References(target[t]) /\ target[u] # target[t]
        BY <1>1, <1>5, <1>6, <1>7, <2>3 DEF Apart, Held
    <3>3. pc[u] = "commit" => Tx(u)
        BY DEF Tx, InTransaction
    <3> QED
        BY <1>6, <2>1, <2>3, <3>1, <3>2, <3>3 DEF Held
  <2> QED
      BY <1>3, <1>4, <2>2, <2>3 DEF SharedInv
<1>8. CASE ddl[t] = "dropped"
  <2>1. tables' = tables \ {target[t]} /\ versions' = versions \ {target[t]}
      BY <1>1, <1>5, <1>8 DEF LocalInv, Stage, Commit, Held
  <2>2. RecordedAreBuilt'
      BY <1>1, <1>5, <1>8, <2>1 DEF RecordedAreBuilt, Held
  <2>3. ASSUME NEW u \in Tool, u # t PROVE Held(u)'
    <3>1. Tx(u) /\ ddl[u] = "created" =>
             target[u] # target[t] /\ target[t] \notin References(target[u])
        BY <1>1, <1>5, <1>6, <1>8, <2>3 DEF Apart, Held
    <3>2. Tx(u) /\ ddl[u] = "dropped" => target[u] # target[t]
        BY <1>1, <1>6, <1>8, <2>3 DEF Apart
    <3> QED
        BY <1>6, <2>1, <2>3, <3>1, <3>2 DEF Held
  <2> QED
      BY <1>3, <1>4, <2>2, <2>3 DEF SharedInv
<1>9. CASE ddl[t] = "none"
  <2>1. tables' = tables /\ versions' \subseteq versions
      BY <1>1, <1>9 DEF LocalInv, Stage, Commit
  <2>2. RecordedAreBuilt'
      BY <1>5, <2>1 DEF RecordedAreBuilt
  <2>3. ASSUME NEW u \in Tool, u # t PROVE Held(u)'
      BY <1>6, <2>1, <2>3 DEF Held
  <2> QED
      BY <1>3, <1>4, <2>2, <2>3 DEF SharedInv
<1>10. ddl[t] \in {"none", "created", "dropped"}
    BY DEF LocalInv, TypeOK
<1> QED
    BY <1>7, <1>8, <1>9, <1>10

LEMMA IInvNext ==
    ASSUME IInv, [Next]_vars
    PROVE  IInv'
<1> USE DEF IInv
<1>1. LocalInv'
    BY LocalNext
<1>2. ASSUME NEW t \in Tool,
             \/ \E what \in {"up", "down"} : Start(t, what)
             \/ Fail(t) \/ ReadApplied(t) \/ UpDone(t) \/ ReadMax(t) \/ NothingToUndo(t)
      PROVE  SharedInv'
  <2>1. SameButFor(t) /\ tables' = tables /\ versions' = versions
    <3>1. ReadMax(t) => \E v : target' = [target EXCEPT ![t] = v]
        BY DEF ReadMax
    <3> QED
        BY <1>2, <3>1, TypeFacts
        DEF LocalInv, Start, Fail, ReadApplied, UpDone, ReadMax, NothingToUndo, Goto,
            SameButFor, database
  <2>2. pc'[t] \notin InTransaction
      BY <1>2, TypeFacts
      DEF LocalInv, Start, Fail, ReadApplied, UpDone, ReadMax, NothingToUndo, Goto, InTransaction
  <2> QED
      BY <2>1, <2>2, QuietOutside
<1>3. ASSUME ValidateSchema \/ WarmUp \/ UNCHANGED vars PROVE SharedInv'
  <2>1. UNCHANGED <<database, tool>>
      BY <1>3 DEF ValidateSchema, WarmUp, vars
  <2> QED
      BY <2>1 DEF SharedInv, RecordedAreBuilt, Held, Apart, Tx, database, tool
<1> QED
    BY <1>1, <1>2, <1>3, CreateShared, DropShared, WriteShared, CommitShared
    DEF Next, Up, Down

LEMMA IInvAlways == Spec => []IInv
<1>1. Init => IInv
    BY LocalInit, SharedInit DEF IInv
<1>2. IInv /\ [Next]_vars => IInv'
    BY IInvNext
<1> QED
    BY <1>1, <1>2, PTL DEF Spec

\* What the ledger records is there, with all it refers to, whichever tools run
\* at once and wherever one of them stops.
THEOREM LedgerIsBacked == Spec => []RecordedAreBuilt
<1>1. IInv => RecordedAreBuilt
    BY DEF IInv, SharedInv
<1> QED
    BY IInvAlways, <1>1, PTL

\* The one number ValidateSchema compares stands for the whole schema.
THEOREM SchemaCheckSuffices == Spec => BootsOnCompleteSchema
<1>1. ASSUME IInv, [Next]_vars PROVE [api' = "valid" /\ api # "valid" => tables = Version]_vars
  <2>1. SUFFICES ASSUME Next, api' = "valid", api # "valid" PROVE tables = Version
      BY <1>1
  <2>2. ValidateSchema
      BY <2>1 DEF Next, Start, Up, Down, Commit, Fail, WarmUp, ReadApplied, CreateTable,
                  RecordVersion, UpDone, ReadMax, NothingToUndo, DropTable, EraseVersion
  <2>3. PICK v \in Greatest(versions) : v >= Latest
      BY <2>1, <2>2 DEF ValidateSchema
  <2>4. v \in versions /\ versions \subseteq tables /\ tables \subseteq Version
      BY <1>1, <2>3 DEF Greatest, IInv, LocalInv, TypeOK, SharedInv, RecordedAreBuilt
  <2>5. v = Latest
      BY <2>3, <2>4, LatestAssumption, SMT DEF Version
  <2>6. 1..Latest - 1 \subseteq tables
      BY <1>1, <2>4, <2>5 DEF IInv, SharedInv, RecordedAreBuilt, References
  <2>7. \A w \in Version : w = Latest \/ w \in 1..Latest - 1
      BY LatestAssumption, SMT DEF Version
  <2> QED
      BY <2>4, <2>5, <2>6, <2>7
<1> QED
    BY IInvAlways, <1>1, PTL DEF Spec, BootsOnCompleteSchema
-----------------------------------------------------------------------------
(* What a down can undo behind the others.                                 *)

\* A run that has ended keeps what it did.
LEMMA EndedStays ==
    ASSUME LocalInv, [Next]_vars, NEW u \in Tool, pc[u] \in Ended
    PROVE  /\ pc'[u] = pc[u] /\ op'[u] = op[u] /\ target'[u] = target[u]
           /\ ddl'[u] = ddl[u] /\ row'[u] = row[u]
<1> USE TypeFacts DEF LocalInv, Ended
<1>1. ASSUME NEW t \in Tool, NEW what \in {"up", "down"}, Start(t, what)
      PROVE  t # u /\ pc' = [pc EXCEPT ![t] = "read"] /\ op' = [op EXCEPT ![t] = what]
             /\ target' = target /\ ddl' = ddl /\ row' = row
    BY <1>1 DEF Start, Goto
<1>2. ASSUME NEW t \in Tool, Fail(t)
      PROVE  /\ t # u /\ pc' = [pc EXCEPT ![t] = "failed"] /\ op' = op /\ target' = target
             /\ ddl' = [ddl EXCEPT ![t] = "none"] /\ row' = [row EXCEPT ![t] = "none"]
    BY <1>2 DEF Fail, Goto
<1>3. ASSUME NEW t \in Tool,
             ReadApplied(t) \/ UpDone(t) \/ NothingToUndo(t) \/ Commit(t)
      PROVE  /\ pc'[u] = pc[u] /\ op' = op /\ target' = target
             /\ ddl' = ddl /\ row' = row
    BY <1>3 DEF ReadApplied, UpDone, NothingToUndo, Commit, Goto
<1>4. ASSUME NEW t \in Tool,
             CreateTable(t) \/ RecordVersion(t) \/ ReadMax(t) \/ DropTable(t) \/ EraseVersion(t)
      PROVE  t # u /\ SameButFor(t)
  <2>1. t # u
      BY <1>4 DEF CreateTable, RecordVersion, ReadMax, DropTable, EraseVersion
  <2>2. CreateTable(t) \/ ReadMax(t) => \E v : target' = [target EXCEPT ![t] = v]
      BY DEF CreateTable, ReadMax
  <2>3. SameButFor(t)
      BY <1>4, <2>2
      DEF CreateTable, RecordVersion, ReadMax, DropTable, EraseVersion, Goto, SameButFor
  <2> QED
      BY <2>1, <2>3
<1>5. CASE ValidateSchema \/ WarmUp \/ UNCHANGED vars
    BY <1>5 DEF ValidateSchema, WarmUp, vars, tool
<1> QED
    BY <1>1, <1>2, <1>3, <1>4, <1>5 DEF Next, Up, Down, SameButFor

LEMMA UndoneStays ==
    ASSUME LocalInv, [Next]_vars, NEW v, Undone(v)
    PROVE  Undone(v)'
  BY EndedStays DEF Undone

\* Only a commit touches the tables and the ledger's rows.
LEMMA DatabaseSteps ==
    ASSUME [Next]_vars, \A t \in Tool : ~ Commit(t)
    PROVE  tables' = tables /\ versions' = versions
  BY DEF Next, Start, Up, Down, Fail, WarmUp, ValidateSchema, ReadApplied, CreateTable,
         RecordVersion, UpDone, ReadMax, NothingToUndo, DropTable, EraseVersion, vars, database

\* What a commit does to them, by what the transaction had done.
LEMMA CommitCases ==
    ASSUME IInv, NEW t \in Tool, Commit(t)
    PROVE  /\ target' = target /\ ddl' = ddl /\ row' = row /\ op' = op /\ applied' = applied
           /\ \/ /\ op[t] = "up" /\ pc'[t] \in {"next", "failed"}
                 /\ tables' = tables \cup {target[t]} /\ versions' = versions \cup {target[t]}
              \/ /\ op[t] = "down" /\ pc'[t] \in Ended
                 /\ \/ ddl[t] = "dropped" /\ tables' = tables \ {target[t]}
                    \/ ddl[t] = "none" /\ tables' = tables
                 /\ \/ row[t] = "deleted" /\ versions' = versions \ {target[t]}
                    \/ row[t] = "none" /\ versions' = versions
<1>1. UNCHANGED <<op, applied, target, ddl, row>> /\ pc[t] = "commit"
    BY DEF Commit
<1>2. /\ ddl[t] \in {"none", "created", "dropped"} /\ row[t] \in {"none", "inserted", "deleted"}
      /\ Stage(t)
    BY DEF IInv, LocalInv, TypeOK
<1>3. pc'[t] = (IF op[t] = "up" THEN "next" ELSE "ok") \/ pc'[t] = "failed"
    BY TypeFacts DEF IInv, LocalInv, Commit, Goto
<1>4. /\ tables' = CASE ddl[t] = "created" -> tables \cup {target[t]}
                     [] ddl[t] = "dropped" -> tables \ {target[t]}
                     [] OTHER -> tables
      /\ versions' = CASE row[t] = "inserted" -> versions \cup {target[t]}
                       [] row[t] = "deleted" -> versions \ {target[t]}
                       [] OTHER -> versions
    BY DEF Commit
<1>5. CASE op[t] = "up" /\ ddl[t] = "created" /\ row[t] = "inserted"
    BY <1>1, <1>3, <1>4, <1>5
<1>6. CASE op[t] = "down" /\ ddl[t] # "created" /\ row[t] # "inserted"
  <2>1. pc'[t] \in Ended
      BY <1>3, <1>6 DEF Ended
  <2>2. \/ row[t] = "deleted" /\ versions' = versions \ {target[t]}
        \/ row[t] = "none" /\ versions' = versions
      BY <1>2, <1>4, <1>6
  <2>3. \/ ddl[t] = "dropped" /\ tables' = tables \ {target[t]}
        \/ ddl[t] = "none" /\ tables' = tables
      BY <1>2, <1>4, <1>6
  <2> QED
      BY <1>1, <1>6, <2>1, <2>2, <2>3
<1> QED
    BY <1>1, <1>2, <1>5, <1>6 DEF Stage

LEMMA DriftNext ==
    ASSUME IInv, [Next]_vars, DriftNeedsStaleDown
    PROVE  DriftNeedsStaleDown'
<1>1. SUFFICES ASSUME NEW v \in tables', v \notin versions'
      PROVE  (\E t \in Tool : StaleDown(t, v))'
    BY DEF DriftNeedsStaleDown
<1>2. CASE v \in tables /\ v \notin versions
  <2>1. PICK t \in Tool : StaleDown(t, v)
      BY <1>2 DEF DriftNeedsStaleDown
  <2>2. StaleDown(t, v)'
      BY <2>1, EndedStays DEF IInv, StaleDown
  <2> QED
      BY <2>2
<1>3. CASE ~ (v \in tables /\ v \notin versions)
  <2>1. PICK t \in Tool : Commit(t)
      BY <1>1, <1>3, DatabaseSteps
  <2>2. op[t] = "down" /\ pc'[t] \in Ended /\ ddl[t] = "none" /\ row[t] = "deleted"
        /\ target[t] = v
    <3>1. versions \subseteq tables
        BY DEF IInv, SharedInv, RecordedAreBuilt
    <3> QED
        BY <1>1, <1>3, <2>1, <3>1, CommitCases
  <2>3. StaleDown(t, v)'
      BY <2>1, <2>2, CommitCases DEF StaleDown
  <2> QED
      BY <2>3
<1> QED
    BY <1>2, <1>3

\* The ledger and the schema part only behind a down that read a version
\* others then undid and applied again.
THEOREM OnlyAStaleDownDrifts == Spec => []DriftNeedsStaleDown
<1>1. Init => DriftNeedsStaleDown
    BY DEF Init, DriftNeedsStaleDown
<1>2. IInv /\ DriftNeedsStaleDown /\ [Next]_vars => DriftNeedsStaleDown'
    BY DriftNext
<1> QED
    BY IInvAlways, <1>1, <1>2, PTL DEF Spec
-----------------------------------------------------------------------------
(* What an up can promise when it ends.                                    *)

\* A version a step takes out of the ledger has been undone, by a down.
LEMMA GoneIsUndone ==
    ASSUME IInv, [Next]_vars, NEW v \in Version, v \in versions \/ Undone(v)
    PROVE  v \in versions' \/ Undone(v)'
<1>1. CASE Undone(v)
    BY <1>1, UndoneStays DEF IInv
<1>2. CASE v \in versions /\ v \notin versions'
  <2>1. PICK t \in Tool : Commit(t)
      BY <1>2, DatabaseSteps
  <2>2. op'[t] = "down" /\ target'[t] = v /\ row'[t] = "deleted" /\ pc'[t] \in Ended
      BY <1>2, <2>1, CommitCases
  <2> QED
      BY <2>2 DEF Undone
<1> QED
    BY <1>1, <1>2

\* What a run has passed only grows by a step that leaves it so.
LEMMA ProgressKept ==
    ASSUME IInv, [Next]_vars, NEW u \in Tool, Progress(u),
           op'[u] = op[u], pc'[u] = pc[u], target'[u] = target[u], applied'[u] = applied[u]
    PROVE  Progress(u)'
<1>1. SUFFICES ASSUME op[u] = "up", pc[u] \in {"next", "ok"} \/ Tx(u)
      PROVE  Progress(u)'
    BY DEF Progress, Tx
<1>2. \A v \in Version : Passed(u, v)' = Passed(u, v)
    BY DEF Passed
<1>3. \A v \in Version : Passed(u, v) => v \in versions' \/ Undone(v)'
    BY <1>1, GoneIsUndone DEF Progress
<1> QED
    BY <1>1, <1>2, <1>3 DEF Progress

LEMMA ProgressOwn ==
    ASSUME IInv, [Next]_vars, NEW t \in Tool, Progress(t),
           ReadApplied(t) \/ CreateTable(t) \/ RecordVersion(t) \/ UpDone(t) \/ Commit(t)
    PROVE  Progress(t)'
<1> USE TypeFacts DEF IInv, LocalInv
<1>1. target[t] \in 0..Latest /\ Stage(t)
    BY DEF TypeOK
<1>2. CASE ReadApplied(t)
  <2>1. /\ pc'[t] = "next" /\ applied'[t] = versions /\ target'[t] = 0 /\ versions' = versions
      BY <1>1, <1>2 DEF ReadApplied, Goto, Stage, database
  <2>2. \A v \in Version : Passed(t, v)' => v \in versions'
      BY <2>1, SMT DEF Passed, Version
  <2> QED
      BY <2>1, <2>2 DEF Progress
<1>3. CASE CreateTable(t)
  <2>1. PICK v \in Least(Pending(t)) : target' = [target EXCEPT ![t] = v]
      BY <1>3 DEF CreateTable
  <2>2. /\ pc[t] = "next" /\ pc'[t] = "record" /\ target'[t] = v /\ op' = op
        /\ applied' = applied
      BY <1>3, <2>1 DEF CreateTable, Goto
  <2>3. op[t] = "up"
      BY <1>1, <2>2 DEF Stage
  <2>4. /\ v \in Version
        /\ \A w \in Version : w \notin applied[t] /\ w > target[t] => v <= w
      BY <2>1 DEF Least, Pending
  <2>5. \A w \in Version : w < v => w \in applied[t] \/ w < target[t] \/ w = target[t]
      BY <1>1, <2>4, LatestAssumption, SMT DEF Version
  <2>6. \A w \in Version : Passed(t, w)' => Passed(t, w)
      BY <2>2, <2>5 DEF Passed
  <2>7. \A w \in Version : Passed(t, w) => w \in versions' \/ Undone(w)'
      BY <2>2, <2>3, GoneIsUndone DEF Progress
  <2> QED
      BY <2>2, <2>6, <2>7 DEF Progress
<1>4. CASE RecordVersion(t)
  <2>1. /\ Tx(t) /\ op[t] = "up" /\ pc[t] = "record" /\ pc'[t] = "commit" /\ target' = target /\ op' = op
        /\ applied' = applied
      BY <1>1, <1>4 DEF RecordVersion, Goto, Stage, Tx, InTransaction
  <2>2. \A w \in Version : Passed(t, w)' => Passed(t, w)
      BY <2>1 DEF Passed
  <2>3. \A w \in Version : Passed(t, w) => w \in versions' \/ Undone(w)'
      BY <2>1, GoneIsUndone DEF Progress
  <2> QED
      BY <2>1, <2>2, <2>3 DEF Progress
<1>5. CASE UpDone(t)
  <2>1. /\ op[t] = "up" /\ pc[t] = "next" /\ pc'[t] = "ok" /\ target' = target /\ op' = op
        /\ applied' = applied
      BY <1>1, <1>5 DEF UpDone, Goto, Stage
  <2>2. \A w \in Version : Passed(t, w)' = Passed(t, w)
      BY <2>1 DEF Passed
  <2>3. \A w \in Version : Passed(t, w) => w \in versions' \/ Undone(w)'
      BY <2>1, GoneIsUndone DEF Progress
  <2>4. \A w \in Version : w \in applied[t] \/ ~ (w > target[t])
      BY <1>5 DEF UpDone, Pending
  <2>5. \A w \in Version : w \in applied[t] \/ w < target[t] \/ w = target[t]
      BY <1>1, <2>4, LatestAssumption, SMT DEF Version
  <2>6. \A w \in Version : Passed(t, w)
      BY <2>1, <2>5 DEF Passed
  <2> QED
      BY <2>1, <2>2, <2>3, <2>6 DEF Progress
<1>6. CASE Commit(t)
  <2>1. SUFFICES ASSUME op[t] = "up", pc'[t] # "failed" PROVE Progress(t)'
      BY <1>6, CommitCases DEF Progress, Tx, InTransaction, Ended
  <2>2. /\ Tx(t) /\ pc[t] = "commit" /\ pc'[t] = "next" /\ target' = target /\ op' = op
        /\ applied' = applied /\ target[t] \in versions'
      BY <1>6, <2>1, CommitCases DEF Commit, Tx, InTransaction
  <2>3. \A w \in Version : Passed(t, w)' => Passed(t, w) \/ w = target[t]
      BY <2>2 DEF Passed
  <2>4. \A w \in Version : Passed(t, w) => w \in versions' \/ Undone(w)'
      BY <2>1, <2>2, GoneIsUndone DEF Progress
  <2> QED
      BY <2>2, <2>3, <2>4 DEF Progress
<1> QED
    BY <1>2, <1>3, <1>4, <1>5, <1>6

LEMMA ProgressNext ==
    ASSUME IInv, [Next]_vars, \A t \in Tool : Progress(t)
    PROVE  \A t \in Tool : Progress(t)'
<1> USE TypeFacts DEF IInv, LocalInv
<1> SUFFICES ASSUME NEW u \in Tool PROVE Progress(u)'
    OBVIOUS
<1>1. ASSUME NEW t \in Tool, t # u, SameButFor(t) PROVE Progress(u)'
    BY <1>1, ProgressKept DEF SameButFor
<1>2. ASSUME NEW t \in Tool, NEW what \in {"up", "down"}, Start(t, what) PROVE Progress(u)'
  <2>1. SameButFor(t) /\ pc'[t] = "read"
      BY <1>2 DEF Start, Goto, SameButFor
  <2> QED
      BY <1>1, <2>1 DEF Progress, Tx, InTransaction
<1>3. ASSUME NEW t \in Tool, Fail(t) PROVE Progress(u)'
  <2>1. SameButFor(t) /\ pc'[t] = "failed"
      BY <1>3 DEF Fail, Goto, SameButFor
  <2> QED
      BY <1>1, <2>1 DEF Progress, Tx, InTransaction
<1>4. ASSUME NEW t \in Tool,
             ReadApplied(t) \/ CreateTable(t) \/ RecordVersion(t) \/ UpDone(t) \/ Commit(t)
      PROVE  Progress(u)'
  <2>1. CreateTable(t) => \E v : target' = [target EXCEPT ![t] = v]
      BY DEF CreateTable
  <2>2. SameButFor(t)
      BY <1>4, <2>1
      DEF ReadApplied, CreateTable, RecordVersion, UpDone, Commit, Goto, SameButFor
  <2> QED
      BY <1>1, <1>4, <2>2, ProgressOwn
<1>5. ASSUME NEW t \in Tool, Down(t) PROVE Progress(u)'
  <2>1. ReadMax(t) => \E v : target' = [target EXCEPT ![t] = v]
      BY DEF ReadMax
  <2>2. SameButFor(t)
      BY <1>5, <2>1 DEF Down, ReadMax, NothingToUndo, DropTable, EraseVersion, Goto, SameButFor
  <2>3. op[t] = "down" /\ op' = op
      BY <1>5 DEF Down, ReadMax, NothingToUndo, DropTable, EraseVersion, Stage
  <2> QED
      BY <1>1, <2>2, <2>3 DEF Progress
<1>6. CASE ValidateSchema \/ WarmUp \/ UNCHANGED vars
    BY <1>6, ProgressKept DEF ValidateSchema, WarmUp, vars, tool
<1> QED
    BY <1>2, <1>3, <1>4, <1>5, <1>6 DEF Next, Up

\* A version an up that ended well leaves unrecorded is one a down has removed.
THEOREM UpAppliesAll == Spec => []UpMeansApplied
<1> DEFINE PInv == \A t \in Tool : Progress(t)
<1>1. Init => PInv
    BY DEF Init, Progress, Tx, InTransaction
<1>2. IInv /\ PInv /\ [Next]_vars => PInv'
    BY ProgressNext
<1>3. PInv => UpMeansApplied
    BY DEF Progress, UpMeansApplied, Undone
<1> HIDE DEF PInv
<1> QED
    BY IInvAlways, <1>1, <1>2, <1>3, PTL DEF Spec
=============================================================================
