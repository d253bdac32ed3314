--------------------------- MODULE GcpWriterProofs ---------------------------
(***************************************************************************)
(* Theorems about GcpWriter, for any cycles, rows, number of attempts and   *)
(* pump ids, and however often connections are lost.                        *)
(***************************************************************************)
EXTENDS GcpWriter, SequenceTheorems, TLAPS

USE GcpAssumption

-----------------------------------------------------------------------------
(* Types *)

\* A transaction is open only between its statement and its commit, on a
\* connection that is there, and is about what is being written. The database
\* has an id left for a pump it doesn't know.
Orderly ==
    /\ pump = None => assigned < MaxId
    /\ tx # NoChange <=> pc = "commit"
    /\ \A a \in orphans \union (IF pc = "commit" THEN {tx} ELSE {}) :
          a.kind # "none" /\ a.id \in Ids
    /\ pc = "commit" => alive /\ tx.job = job /\ (job # <<>> => tx.id = cached)
    /\ pc \in {"object", "update", "insert"} => job # <<>>
    /\ pc \in {"update", "insert"} => alive /\ cached \in Ids
    /\ pc = "insert" => ~database.unique
    /\ pc = "down" => ~alive /\ attempt < Retries

LEMMA JobsType == \A j \in Jobs : j # <<>> => j[1] \in Cycles /\ j[2] \in Values
BY DEF Jobs

LEMMA ChangesType ==
    \A a \in Changes :
        a.kind \in {"none", "insert", "update"} /\ a.id \in 0..MaxId /\ a.job \in Jobs
BY DEF Changes

LEMMA NoChangeType == NoChange \in Changes /\ NoChange.job = <<>> /\ NoChange.kind = "none"
BY DEF NoChange, Changes, Jobs

\* A change that is made is one, of what is being written.
LEMMA ChangeMade ==
    ASSUME TypeOK, NEW k \in {"insert", "update"}, NEW i \in Ids
    PROVE  /\ Change(k, i) \in Changes /\ Change(k, i) # NoChange
           /\ Change(k, i).kind = k /\ Change(k, i).id = i /\ Change(k, i).job = job
BY DEF TypeOK, Change, Changes, Ids, NoChange

\* A transaction left behind is the one that was open, but for what became of
\* its COMMIT.
LEMMA LostConnection ==
    ASSUME TypeOK, Orderly, LoseConnection
    PROVE  \/ pc # "commit" /\ orphans' = orphans
           \/ pc = "commit" /\ \E b \in Changes :
                 /\ orphans' = orphans \union {b}
                 /\ b.kind = tx.kind /\ b.id = tx.id /\ b.job = tx.job
<1>1. CASE pc # "commit"
  BY <1>1 DEF LoseConnection, Orderly
<1>2. CASE pc = "commit"
  <2>1. PICK sent \in BOOLEAN : orphans' = orphans \union {[tx EXCEPT !.sent = sent]}
    BY <1>2 DEF LoseConnection, Orderly
  <2>2. tx \in Changes
    BY DEF TypeOK
  <2> DEFINE b == [tx EXCEPT !.sent = sent]
  <2>3. b \in Changes /\ b.kind = tx.kind /\ b.id = tx.id /\ b.job = tx.job
    BY <2>2 DEF Changes
  <2> QED BY <1>2, <2>1, <2>3
<1> QED BY <1>1, <1>2

\* Doing a change keeps the tables what they are.
LEMMA ApplyType ==
    ASSUME TypeOK, NEW a \in Changes, a.kind # "none", a.id \in Ids, Apply(a)
    PROVE  /\ database' = database /\ UNCHANGED bucket
           /\ pump' \in Ids \union {None} /\ assigned' \in 0..MaxId
           /\ (pump' = None => pump = None /\ assigned' = assigned)
           /\ rows' \in [Ids -> [Cycles -> Seq(Values)]]
<1>1. CASE a.job = <<>>
  BY <1>1 DEF Apply, TypeOK, Ids
<1>2. CASE a.job # <<>>
  <2> DEFINE i == a.id
             c == a.job[1]
             old == rows[i][c]
             new == IF a.kind = "insert" THEN Append(old, a.job[2])
                    ELSE [n \in 1..Len(old) |-> a.job[2]]
  <2>1. i \in Ids /\ c \in Cycles /\ a.job[2] \in Values /\ old \in Seq(Values)
    BY <1>2, JobsType, ChangesType DEF TypeOK
  <2>2. new \in Seq(Values)
    <3>1. CASE a.kind = "insert"
      BY <2>1, <3>1
    <3>2. CASE a.kind # "insert"
      BY <2>1, <3>2
    <3> QED BY <3>1, <3>2
  <2>3. rows' = [rows EXCEPT ![i][c] = new]
    BY <1>2 DEF Apply
  <2>4. rows' \in [Ids -> [Cycles -> Seq(Values)]]
    <3> HIDE DEF new, i, c
    <3> QED BY <2>1, <2>2, <2>3 DEF TypeOK
  <2> QED BY <1>2, <2>4 DEF Apply, TypeOK
<1> QED BY <1>1, <1>2

LEMMA TypeStep == ASSUME TypeOK, Orderly, [Next]_vars PROVE TypeOK'
<1> USE DEF tables, client, bucket
<1>1. CASE UNCHANGED vars
  BY <1>1 DEF TypeOK, vars
<1>2. CASE WritePump
  BY <1>2 DEF TypeOK, WritePump, Jobs
<1>3. ASSUME NEW c \in Cycles, NEW v \in Values, WriteDispense(c, v) PROVE TypeOK'
  BY <1>3 DEF TypeOK, WriteDispense, Jobs
<1>4. ASSUME NEW to \in {"begin", "idle"}, Upload(to) PROVE TypeOK'
  BY <1>4, JobsType DEF TypeOK, Upload, Orderly
<1>5. CASE WriteObj \/ WriteObjFails
  BY <1>4, <1>5 DEF TypeOK, WriteObj, WriteObjFails
<1>6. CASE EndRun \/ NoPump \/ TroubleEnds
  BY <1>6 DEF TypeOK, EndRun, NoPump, TroubleEnds
<1>f. CASE StatementFails
  BY <1>f, NoChangeType DEF TypeOK, StatementFails
<1>7. CASE UpsertPump
  <2>1. /\ pump = None => assigned + 1 \in Ids
        /\ pump # None => pump \in Ids
    BY DEF TypeOK, Orderly, Ids
  <2>2. tx' \in Changes
    BY <1>7, <2>1, ChangeMade DEF UpsertPump
  <2> QED BY <1>7, <2>2 DEF TypeOK, UpsertPump
<1>8. CASE LinkPump \/ NothingUpdated
  BY <1>8 DEF TypeOK, LinkPump, NothingUpdated, Statement
<1>9. CASE UpdateRow \/ InsertRow \/ UpsertRow
  <2>1. tx' \in Changes
    BY <1>9, ChangeMade DEF UpdateRow, InsertRow, UpsertRow, Statement, Orderly
  <2> QED BY <1>9, <2>1 DEF TypeOK, UpdateRow, InsertRow, UpsertRow, Statement
<1>10. CASE Commit
  <2>1. tx \in Changes /\ tx.kind # "none" /\ tx.id \in Ids
    BY <1>10 DEF Commit, Orderly, TypeOK
  <2>2. acked' \in [Cycles -> Values \union {None}]
    BY <1>10, JobsType DEF Commit, TypeOK
  <2> QED BY <1>10, <2>1, <2>2, ApplyType, NoChangeType DEF Commit, TypeOK
<1>11. CASE LoseConnection
  <2>1. orphans' \subseteq Changes
    BY <1>11, LostConnection DEF TypeOK
  <2> QED BY <1>11, <2>1, NoChangeType DEF LoseConnection, AfterLoss, TypeOK
<1>12. CASE DeadConnection
  BY <1>12 DEF DeadConnection, AfterLoss, TypeOK
<1>13. CASE Reconnect
  <2>1. attempt' \in 0..Retries
    BY <1>13 DEF Reconnect, Orderly, TypeOK
  <2>2. alive' \in BOOLEAN
    BY <1>13 DEF Reconnect
  <2> QED BY <1>13, <2>1, <2>2 DEF Reconnect, TypeOK
<1>14. CASE Resolve
  <2>1. PICK a \in orphans : orphans' = orphans \ {a} /\ (Apply(a) \/ UNCHANGED tables)
    BY <1>14 DEF Resolve
  <2>2. a \in Changes /\ a.kind # "none" /\ a.id \in Ids
    BY <2>1 DEF Orderly, TypeOK
  <2>3. CASE Apply(a)
    BY <1>14, <2>1, <2>2, <2>3, ApplyType DEF Resolve, TypeOK
  <2>4. CASE UNCHANGED tables
    BY <1>14, <2>1, <2>4 DEF Resolve, TypeOK
  <2> QED BY <2>1, <2>3, <2>4
<1>15. CASE Delete
  BY <1>15 DEF Delete, TypeOK
<1>16. CASE ListObjects \/ \E c \in Cycles : DeleteObject(c)
  BY <1>16 DEF ListObjects, DeleteObject, TypeOK
<1> QED BY <1>1, <1>2, <1>3, <1>5, <1>6, <1>7, <1>8, <1>9, <1>10, <1>11, <1>12, <1>13,
           <1>14, <1>15, <1>16, <1>f DEF Next, Writer

LEMMA OrderlyStep == ASSUME TypeOK, Orderly, [Next]_vars PROVE Orderly'
<1> USE DEF tables, client, bucket
<1>1. CASE UNCHANGED vars
  BY <1>1 DEF Orderly, vars
<1>2. CASE WritePump \/ \E c \in Cycles, v \in Values : WriteDispense(c, v)
  BY <1>2 DEF Orderly, WritePump, WriteDispense
<1>3. CASE WriteObj \/ WriteObjFails \/ EndRun \/ NoPump \/ TroubleEnds
  BY <1>3 DEF Orderly, WriteObj, WriteObjFails, Upload, EndRun, NoPump, TroubleEnds
<1>4. CASE UpsertPump
  <2>1. /\ pump = None => assigned + 1 \in Ids
        /\ pump # None => pump \in Ids
    BY DEF TypeOK, Orderly, Ids
  <2>2. tx' # NoChange /\ tx'.kind # "none" /\ tx'.id \in Ids /\ tx'.job = job
    BY <1>4, <2>1, ChangeMade DEF UpsertPump
  <2> QED BY <1>4, <2>2 DEF UpsertPump, Orderly
<1>5. CASE LinkPump \/ NothingUpdated
  BY <1>5 DEF TypeOK, Orderly, LinkPump, NothingUpdated, Statement
<1>6. CASE UpdateRow \/ InsertRow \/ UpsertRow
  <2>1. /\ tx' # NoChange /\ tx'.kind # "none"
        /\ tx'.id = cached /\ tx'.job = job /\ cached \in Ids /\ job # <<>>
    BY <1>6, ChangeMade DEF UpdateRow, InsertRow, UpsertRow, Statement, Orderly
  <2> QED BY <1>6, <2>1 DEF UpdateRow, InsertRow, UpsertRow, Statement, Orderly
<1>7. CASE Commit
  <2>1. tx \in Changes /\ tx.kind # "none" /\ tx.id \in Ids
    BY <1>7 DEF Commit, Orderly, TypeOK
  <2> QED BY <1>7, <2>1, ApplyType DEF Commit, Orderly
<1>f. CASE StatementFails
  BY <1>f, NoChangeType DEF StatementFails, Orderly
<1>8. CASE LoseConnection
  <2>2. \A a \in orphans' : a.kind # "none" /\ a.id \in Ids
    BY <1>8, LostConnection DEF Orderly
  <2>3. pc' \in {"idle", "down"} /\ (pc' = "down" => attempt < Retries)
    BY <1>8 DEF LoseConnection, AfterLoss, TypeOK
  <2> QED BY <1>8, <2>2, <2>3 DEF LoseConnection, Orderly
<1>9. CASE DeadConnection
  BY <1>9 DEF DeadConnection, AfterLoss, TypeOK, Orderly
<1>10. CASE Reconnect
  BY <1>10 DEF Reconnect, Orderly
<1>11. CASE Resolve
  <2>1. PICK a \in orphans : orphans' = orphans \ {a} /\ (Apply(a) \/ UNCHANGED tables)
    BY <1>11 DEF Resolve
  <2>2. a \in Changes /\ a.kind # "none" /\ a.id \in Ids
    BY <2>1 DEF Orderly, TypeOK
  <2>3. database' = database /\ (pump' = None => assigned' < MaxId)
    BY <2>1, <2>2, ApplyType DEF Orderly
  <2> QED BY <1>11, <2>1, <2>3 DEF Resolve, Orderly
<1>12. CASE Delete
  BY <1>12 DEF Delete, Orderly
<1>13. CASE ListObjects \/ \E c \in Cycles : DeleteObject(c)
  BY <1>13 DEF ListObjects, DeleteObject, Orderly
<1> QED BY <1>1, <1>2, <1>3, <1>4, <1>5, <1>6, <1>7, <1>8, <1>9, <1>10, <1>11, <1>12,
           <1>13, <1>f DEF Next, Writer

LEMMA Start == Init => TypeOK /\ Orderly
<1> SUFFICES ASSUME Init PROVE TypeOK /\ Orderly
  OBVIOUS
<1>1. rows \in [Ids -> [Cycles -> Seq(Values)]]
  BY DEF Init
<1>2. objects \in [Cycles -> Values \union {None}] /\ acked \in [Cycles -> Values \union {None}]
  BY DEF Init
<1>i. assigned \in 0..MaxId /\ attempt \in 0..Retries
  BY DEF Init
<1>3. TypeOK
  BY <1>1, <1>2, <1>i, NoChangeType DEF Init, TypeOK, Jobs
<1>4. Orderly
  BY NoChangeType DEF Init, Orderly
<1> QED BY <1>3, <1>4

\* Types, for any number of attempts and ids; a row is tried at most Retries + 1
\* times, each on a connection of its own (gcp_writer.py, write_row).
THEOREM TypeCorrect == Spec => []TypeOK
<1> QED BY Start, TypeStep, OrderlyStep, PTL DEF Spec

-----------------------------------------------------------------------------
(* One row *)

SafeDatabases == \A d \in Databases : d.unique \/ d.settles

OfRow(a, i, c) == a.job # <<>> /\ a.id = i /\ a.job[1] = c

\* where what is lost is settled first, a connection is only had without it
Settled == database.settles /\ alive => orphans = {}

\* the transactions of one row that may still be done are at most one, and when
\* it is an insert the row isn't there
OneChange ==
    \A i \in Ids, c \in Cycles :
        /\ \A a, b \in orphans : OfRow(a, i, c) /\ OfRow(b, i, c) => a = b
        /\ OfRow(tx, i, c) => \A a \in orphans : ~OfRow(a, i, c)
        /\ \A a \in orphans \union {tx} :
              OfRow(a, i, c) /\ a.kind = "insert" => rows[i][c] = <<>>
        /\ OfRow(tx, i, c) /\ tx.kind = "update" => Len(rows[i][c]) = 1

NoneToUpdate == pc = "insert" => rows[cached][job[1]] = <<>>

RowInv == Settled /\ OneChange /\ NoneToUpdate /\ OneRow

LEMMA Lengths == ASSUME NEW s \in Seq(Values), Len(s) <= 1 PROVE s = <<>> \/ Len(s) = 1
<1> DEFINE n == Len(s)
<1>1. s # <<>> => n \in Nat \ {0}
  BY EmptySeq
<1>2. n <= 1
  OBVIOUS
<1> HIDE DEF n
<1>3. s # <<>> => n = 1
  BY <1>1, <1>2
<1> QED BY <1>3 DEF n

\* What doing a change does to a row: nothing to another one, and to its own one
\* more copy or none.
LEMMA ApplyRow ==
    ASSUME TypeOK, NEW a \in Changes, a.kind # "none", a.id \in Ids, Apply(a),
           NEW i \in Ids, NEW c \in Cycles
    PROVE  /\ ~OfRow(a, i, c) => rows'[i][c] = rows[i][c]
           /\ OfRow(a, i, c) /\ a.kind = "insert" =>
                 rows'[i][c] = Append(rows[i][c], a.job[2])
           /\ OfRow(a, i, c) /\ a.kind = "update" =>
                 rows'[i][c] = [n \in 1..Len(rows[i][c]) |-> a.job[2]]
<1>1. CASE a.job = <<>>
  BY <1>1 DEF Apply, OfRow
<1>2. CASE a.job # <<>>
  <2> DEFINE new == IF a.kind = "insert" THEN Append(rows[a.id][a.job[1]], a.job[2])
                    ELSE [n \in 1..Len(rows[a.id][a.job[1]]) |-> a.job[2]]
  <2>1. rows' = [rows EXCEPT ![a.id][a.job[1]] = new]
    BY <1>2 DEF Apply
  <2>2. a.job[1] \in Cycles
    BY <1>2, JobsType, ChangesType
  <2>3. rows'[i][c] = IF OfRow(a, i, c) THEN new ELSE rows[i][c]
    <3> HIDE DEF new
    <3> QED BY <1>2, <2>1, <2>2 DEF TypeOK, OfRow
  <2> QED BY <2>3, ChangesType DEF OfRow
<1> QED BY <1>1, <1>2

\* Doing the one change there is of a row leaves one row.
LEMMA ApplyOnce ==
    ASSUME TypeOK, NEW a \in Changes, a.kind # "none", a.id \in Ids, Apply(a),
           NEW i \in Ids, NEW c \in Cycles, Len(rows[i][c]) <= 1,
           OfRow(a, i, c) /\ a.kind = "insert" => rows[i][c] = <<>>
    PROVE  /\ Len(rows'[i][c]) <= 1
           /\ OfRow(a, i, c) /\ (a.kind = "update" => Len(rows[i][c]) = 1) =>
                 rows'[i][c] = <<a.job[2]>>
<1>t. rows[i][c] \in Seq(Values)
  BY DEF TypeOK
<1>1. CASE ~OfRow(a, i, c)
  BY <1>1, ApplyRow, ZenonT(60)
<1>2. CASE OfRow(a, i, c) /\ a.kind = "insert"
  <2>a. rows[i][c] = <<>>
    BY <1>2
  <2>b. rows'[i][c] = Append(rows[i][c], a.job[2])
    BY <1>2, ApplyRow
  <2>1. rows'[i][c] = Append(<<>>, a.job[2])
    BY <2>a, <2>b
  <2>2. Append(<<>>, a.job[2]) = <<a.job[2]>> /\ Len(<<a.job[2]>>) = 1
    OBVIOUS
  <2>3. rows'[i][c] = <<a.job[2]>> /\ Len(rows'[i][c]) = 1
    BY <2>1, <2>2
  <2> QED BY <2>3
<1>3. CASE OfRow(a, i, c) /\ a.kind = "update"
  <2> DEFINE n == Len(rows[i][c])
  <2>1. rows'[i][c] = [k \in 1..n |-> a.job[2]] /\ n \in Nat
    BY <1>3, <1>t, ApplyRow
  <2>2. Len(rows'[i][c]) = n
    BY <2>1
  <2>3. n = 1 => rows'[i][c] = <<a.job[2]>>
    BY <2>1
  <2> QED BY <1>3, <2>2, <2>3
<1> QED BY <1>1, <1>2, <1>3, ChangesType

\* A step that leaves the rows and the transactions alone.
LEMMA RowsQuiet ==
    ASSUME RowInv, UNCHANGED <<database, rows, orphans, tx>>,
           alive' => alive \/ (database.settles => orphans = {}), pc' # "insert"
    PROVE  RowInv'
BY DEF RowInv, Settled, OneChange, NoneToUpdate, OneRow

\* A statement, that makes the only change there is of its row.
LEMMA RowsChange ==
    ASSUME RowInv, UNCHANGED <<database, rows, orphans, alive>>, pc' = "commit",
           \A i \in Ids, c \in Cycles : OfRow(tx', i, c) =>
              /\ \A a \in orphans : ~OfRow(a, i, c)
              /\ tx'.kind = "insert" => rows[i][c] = <<>>
              /\ tx'.kind = "update" => Len(rows[i][c]) = 1
    PROVE  RowInv'
<1>1. OneChange'
  BY DEF RowInv, OneChange
<1> QED BY <1>1 DEF RowInv, Settled, NoneToUpdate, OneRow

LEMMA RowStep ==
    ASSUME SafeDatabases, TypeOK, Orderly, RowInv, [Next]_vars PROVE RowInv'
<1> USE DEF tables, client, bucket
<1>s. ~database.unique /\ alive => orphans = {}
  BY DEF SafeDatabases, TypeOK, RowInv, Settled
<1>1. CASE UNCHANGED vars
  BY <1>1 DEF vars, RowInv, Settled, OneChange, NoneToUpdate, OneRow
<1>2. CASE \/ WritePump \/ \E c \in Cycles, v \in Values : WriteDispense(c, v)
           \/ WriteObj \/ WriteObjFails \/ EndRun \/ NoPump \/ TroubleEnds
           \/ ListObjects \/ \E c \in Cycles : DeleteObject(c)
  <2>1. UNCHANGED <<database, rows, orphans, tx, alive>> /\ (pc' # "insert" \/ pc' = pc)
    BY <1>2 DEF WritePump, WriteDispense, WriteObj, WriteObjFails, Upload, EndRun, NoPump,
                TroubleEnds, ListObjects, DeleteObject
  <2>2. CASE pc' # "insert"
    BY <2>1, <2>2, RowsQuiet
  <2>3. CASE pc' = "insert"
    <3>1. UNCHANGED <<job, cached, pc>>
      BY <1>2, <2>3 DEF WritePump, WriteDispense, WriteObj, WriteObjFails, Upload, EndRun,
                        NoPump, TroubleEnds, ListObjects, DeleteObject
    <3> QED BY <2>1, <3>1 DEF RowInv, Settled, OneChange, NoneToUpdate, OneRow
  <2> QED BY <2>2, <2>3
<1>3. CASE LinkPump
  BY <1>3, RowsQuiet DEF LinkPump, Statement
<1>4. CASE UpsertPump
  <2>1. tx'.job = job
    BY <1>4 DEF UpsertPump, Change
  <2> QED BY <1>4, <2>1, RowsChange DEF UpsertPump, OfRow
<1>5. CASE NothingUpdated
  BY <1>5 DEF NothingUpdated, Statement, Copies, RowInv, Settled, OneChange, NoneToUpdate, OneRow
<1>6. CASE UpdateRow \/ InsertRow \/ UpsertRow
  <2>1. /\ cached \in Ids /\ job # <<>> /\ job[1] \in Cycles
        /\ tx'.kind \in {"insert", "update"} /\ tx'.id = cached /\ tx'.job = job
    BY <1>6, JobsType DEF UpdateRow, InsertRow, UpsertRow, Statement, Orderly, TypeOK, Change
  <2>2. rows[cached][job[1]] = <<>> \/ Len(rows[cached][job[1]]) = 1
    BY <2>1, Lengths DEF TypeOK, RowInv, OneRow
  <2>3. \A a \in orphans : ~OfRow(a, cached, job[1])
    BY <1>6, <1>s, <2>1 DEF UpdateRow, InsertRow, UpsertRow, Statement, Orderly, Reserved,
                            SameRow, OfRow
  <2>4. /\ tx'.kind = "insert" => rows[cached][job[1]] = <<>>
        /\ tx'.kind = "update" => rows[cached][job[1]] # <<>>
    BY <1>6 DEF UpdateRow, InsertRow, UpsertRow, Statement, Change, Copies, RowInv, NoneToUpdate
  <2>5. UNCHANGED <<database, rows, orphans, alive>> /\ pc' = "commit"
    BY <1>6 DEF UpdateRow, InsertRow, UpsertRow, Statement
  <2>6. \A i \in Ids, c \in Cycles : OfRow(tx', i, c) => i = cached /\ c = job[1]
    BY <2>1 DEF OfRow
  <2> HIDE DEF tables, client, bucket
  <2> QED BY <2>2, <2>3, <2>4, <2>5, <2>6, RowsChange
<1>7. CASE Commit
  <2>1. tx \in Changes /\ tx.kind # "none" /\ tx.id \in Ids /\ Apply(tx)
    BY <1>7 DEF Commit, Orderly, TypeOK
  <2>2. UNCHANGED <<database, orphans, alive>> /\ tx'.job = <<>> /\ pc' = "ready"
    BY <1>7, <2>1, ApplyType, NoChangeType DEF Commit
  <2>3. ASSUME NEW i \in Ids, NEW c \in Cycles
        PROVE  /\ Len(rows'[i][c]) <= 1
               /\ \A a \in orphans : OfRow(a, i, c) => rows'[i][c] = rows[i][c]
    <3>1. /\ Len(rows[i][c]) <= 1
          /\ OfRow(tx, i, c) /\ tx.kind = "insert" => rows[i][c] = <<>>
          /\ \A a \in orphans : OfRow(a, i, c) => ~OfRow(tx, i, c)
      BY DEF RowInv, OneRow, OneChange
    <3>2. Len(rows'[i][c]) <= 1
      BY <2>1, <3>1, ApplyOnce
    <3>3. ~OfRow(tx, i, c) => rows'[i][c] = rows[i][c]
      BY <2>1, ApplyRow, ZenonT(60)
    <3> QED BY <3>1, <3>2, <3>3
  <2> QED BY <2>2, <2>3 DEF RowInv, Settled, OneChange, NoneToUpdate, OneRow, OfRow
<1>f. CASE StatementFails
  <2>1. UNCHANGED <<database, rows, orphans, alive>> /\ tx'.job = <<>> /\ pc' # "insert"
    BY <1>f, NoChangeType DEF StatementFails
  <2>2. OneChange'
    BY <2>1 DEF RowInv, OneChange, OfRow
  <2> QED BY <2>1, <2>2 DEF RowInv, Settled, NoneToUpdate, OneRow
<1>8. CASE LoseConnection
  <2>1. UNCHANGED <<database, rows>> /\ ~alive' /\ tx'.job = <<>> /\ pc' # "insert"
    BY <1>8, NoChangeType DEF LoseConnection, AfterLoss
  <2>2. CASE orphans' = orphans
    BY <2>1, <2>2 DEF RowInv, Settled, OneChange, NoneToUpdate, OneRow, OfRow
  <2>3. ASSUME NEW b \in Changes, orphans' = orphans \union {b},
               b.kind = tx.kind, b.id = tx.id, b.job = tx.job
        PROVE  RowInv'
    <3>1. \A i \in Ids, c \in Cycles : OfRow(b, i, c) <=> OfRow(tx, i, c)
      BY <2>3 DEF OfRow
    <3>2. OneChange'
      <4> SUFFICES ASSUME NEW i \in Ids, NEW c \in Cycles
                   PROVE  /\ \A x, y \in orphans' : OfRow(x, i, c) /\ OfRow(y, i, c) => x = y
                          /\ \A x \in orphans' :
                                OfRow(x, i, c) /\ x.kind = "insert" => rows[i][c] = <<>>
        BY <2>1 DEF OneChange, OfRow
      <4> QED BY <2>3, <3>1 DEF RowInv, OneChange
    <3> QED BY <2>1, <3>2 DEF RowInv, Settled, NoneToUpdate, OneRow
  <2> QED BY <1>8, <2>2, <2>3, LostConnection
<1>9. CASE DeadConnection
  BY <1>9, RowsQuiet DEF DeadConnection, AfterLoss
<1>10. CASE Reconnect
  BY <1>10, RowsQuiet DEF Reconnect
<1>11. CASE Resolve
  <2>1. PICK a \in orphans : orphans' = orphans \ {a} /\ (Apply(a) \/ UNCHANGED tables)
    BY <1>11 DEF Resolve
  <2>2. a \in Changes /\ a.kind # "none" /\ a.id \in Ids
    BY <2>1 DEF Orderly, TypeOK
  <2>3. UNCHANGED <<database, tx, alive, pc>>
    BY <1>11, <2>1, <2>2, ApplyType DEF Resolve
  <2>4. pc # "insert"
    BY <1>s DEF Orderly
  <2>5. ASSUME NEW i \in Ids, NEW c \in Cycles
        PROVE  /\ Len(rows'[i][c]) <= 1
               /\ ~OfRow(a, i, c) => rows'[i][c] = rows[i][c]
    <3>1. CASE Apply(a)
      <4>1. /\ Len(rows[i][c]) <= 1
            /\ OfRow(a, i, c) /\ a.kind = "insert" => rows[i][c] = <<>>
        BY DEF RowInv, OneRow, OneChange
      <4>2. Len(rows'[i][c]) <= 1
        BY <2>2, <3>1, <4>1, ApplyOnce
      <4>3. ~OfRow(a, i, c) => rows'[i][c] = rows[i][c]
        BY <2>2, <3>1, ApplyRow, ZenonT(60)
      <4> QED BY <4>2, <4>3
    <3>2. CASE UNCHANGED tables
      BY <3>2 DEF RowInv, OneRow
    <3> QED BY <2>1, <3>1, <3>2
  <2>6. OneChange'
    <3> SUFFICES ASSUME NEW i \in Ids, NEW c \in Cycles
                 PROVE  /\ \A x, y \in orphans' : OfRow(x, i, c) /\ OfRow(y, i, c) => x = y
                        /\ OfRow(tx, i, c) => \A x \in orphans' : ~OfRow(x, i, c)
                        /\ \A x \in orphans' \union {tx} :
                              OfRow(x, i, c) /\ x.kind = "insert" => rows'[i][c] = <<>>
                        /\ OfRow(tx, i, c) /\ tx.kind = "update" => Len(rows'[i][c]) = 1
      BY <2>3 DEF OneChange
    <3>1. \A x \in orphans' \union {tx} : OfRow(x, i, c) => rows'[i][c] = rows[i][c]
      BY <2>1, <2>5 DEF RowInv, OneChange
    <3> QED BY <2>1, <3>1 DEF RowInv, OneChange
  <2> QED BY <2>1, <2>3, <2>4, <2>5, <2>6 DEF RowInv, Settled, NoneToUpdate, OneRow
<1>12. CASE Delete
  <2>1. UNCHANGED <<database, orphans, tx, alive, pc, job, cached>> /\ tx.kind # "update"
    BY <1>12 DEF Delete
  <2>2. ASSUME NEW i \in Ids, NEW c \in Cycles
        PROVE  rows'[i][c] = IF i = pump THEN <<>> ELSE rows[i][c]
    BY <1>12 DEF Delete, TypeOK
  <2>3. OneChange'
    BY <2>1, <2>2 DEF RowInv, OneChange
  <2>4. NoneToUpdate'
    BY <2>1, <2>2, JobsType DEF RowInv, NoneToUpdate, Orderly, TypeOK
  <2>5. OneRow'
    BY <2>2 DEF RowInv, OneRow
  <2> QED BY <2>1, <2>3, <2>4, <2>5 DEF RowInv, Settled
<1> QED BY <1>1, <1>2, <1>3, <1>4, <1>5, <1>6, <1>7, <1>8, <1>9, <1>10, <1>11, <1>12,
           <1>f DEF Next, Writer

LEMMA RowStart == Init => RowInv
BY NoChangeType DEF Init, RowInv, Settled, OneChange, NoneToUpdate, OneRow, OfRow

\* A cycle never has two rows (gcp_writer.py, write_row, update_or_insert),
\* however often connections are lost and whichever of the commits sent were
\* done, if the table has its unique key or if a lost transaction is settled
\* before the next attempt.
THEOREM OneRowAlways == ASSUME SafeDatabases PROVE Spec => []OneRow
<1>1. TypeOK /\ Orderly /\ RowInv /\ [Next]_vars => (TypeOK /\ Orderly /\ RowInv)'
  BY TypeStep, OrderlyStep, RowStep
<1>2. RowInv => OneRow
  BY DEF RowInv
<1> QED BY Start, RowStart, <1>1, <1>2, PTL DEF Spec

-----------------------------------------------------------------------------
(* What was acknowledged *)

Writing == job # <<>> /\ pc \in {"object", "begin", "update", "insert", "commit", "down"}

\* What is being written is not acknowledged, and from its upload on its profile
\* is there; no transaction is left of a row that was acknowledged.
Acknowledged ==
    /\ Writing => acked[job[1]] = None
    /\ Writing /\ pc # "object" => objects[job[1]] = job[2] \/ job[1] \in swept
    /\ \A c \in Cycles : acked[c] # None =>
          cached \in Ids /\ \A a \in orphans : ~OfRow(a, cached, c)

AckInv == Acknowledged /\ AckedIsStored

\* A step that leaves the tables and what was acknowledged alone, loses no
\* transaction and goes on with what is written, or ends it.
LEMMA AckQuiet ==
    ASSUME AckInv, UNCHANGED <<rows, objects, swept, acked, orphans, job>>,
           cached' = cached \/ cached = None,
           pc' \in {"idle", "ready"} \/ job = <<>>
              \/ (pc \in {"begin", "update", "insert", "commit", "down"} /\ pc' # "object")
    PROVE  AckInv'
<1>1. \A c \in Cycles : acked[c] # None => cached' = cached
  BY DEF AckInv, Acknowledged
<1>2. Writing' => Writing /\ pc' # "object" /\ pc # "object"
  BY DEF Writing
<1>3. Acknowledged'
  BY <1>1, <1>2 DEF AckInv, Acknowledged, Writing
<1> QED BY <1>1, <1>3 DEF AckInv, AckedIsStored

LEMMA AckStep ==
    ASSUME TypeOK, Orderly, RowInv, AckInv, [Next]_vars PROVE AckInv'
<1> USE DEF tables, client, bucket
<1>1. CASE UNCHANGED vars
  BY <1>1 DEF vars, AckInv, Acknowledged, AckedIsStored, Writing
<1>2. CASE WritePump
  BY <1>2 DEF WritePump, AckInv, Acknowledged, AckedIsStored, Writing
<1>3. ASSUME NEW c \in Cycles, NEW v \in Values, WriteDispense(c, v) PROVE AckInv'
  <2>1. /\ job' = <<c, v>> /\ pc' = "object" /\ acked' = [acked EXCEPT ![c] = None]
        /\ UNCHANGED <<rows, objects, swept, orphans, cached>>
    BY <1>3 DEF WriteDispense
  <2>2. acked'[c] = None /\ \A d \in Cycles : acked'[d] # None => acked'[d] = acked[d]
    BY <2>1 DEF TypeOK
  <2>3. job'[1] = c
    BY <2>1
  <2>4. Acknowledged'
    BY <2>1, <2>2, <2>3 DEF AckInv, Acknowledged, Writing
  <2>5. AckedIsStored'
    BY <2>1, <2>2 DEF AckInv, AckedIsStored
  <2> QED BY <2>4, <2>5 DEF AckInv
<1>4. ASSUME NEW to \in {"begin", "idle"}, Upload(to) PROVE AckInv'
  <2>1. /\ job # <<>> /\ job[1] \in Cycles /\ Writing
    BY <1>4, JobsType DEF Upload, Orderly, TypeOK, Writing
  <2>2. /\ objects' = [objects EXCEPT ![job[1]] = job[2]] /\ swept' = swept \ {job[1]}
        /\ UNCHANGED <<rows, orphans, cached, acked, job>> /\ pc' = to
    BY <1>4 DEF Upload
  <2>3. objects'[job[1]] = job[2]
    BY <2>1, <2>2 DEF TypeOK
  <2>4. \A c \in Cycles : acked[c] # None =>
           objects'[c] = objects[c] /\ (c \in swept => c \in swept')
    BY <2>1, <2>2 DEF TypeOK, AckInv, Acknowledged
  <2>5. Acknowledged'
    BY <2>1, <2>2, <2>3 DEF AckInv, Acknowledged, Writing
  <2>6. AckedIsStored'
    BY <2>2, <2>4 DEF AckInv, AckedIsStored
  <2> QED BY <2>5, <2>6 DEF AckInv
<1>5. CASE WriteObj \/ WriteObjFails
  <2>1. CASE \E to \in {"begin", "idle"} : Upload(to)
    BY <1>4, <2>1
  <2>2. CASE pc' = "idle" /\ UNCHANGED <<tables, orphans, client, acked>>
    BY <2>2, AckQuiet
  <2> QED BY <1>5, <2>1, <2>2 DEF WriteObj, WriteObjFails
<1>6. CASE EndRun \/ NoPump \/ StatementFails
  BY <1>6, AckQuiet DEF EndRun, NoPump, StatementFails
<1>7. CASE TroubleEnds \/ ListObjects
  BY <1>7 DEF TroubleEnds, ListObjects, AckInv, Acknowledged, AckedIsStored, Writing
<1>8. CASE UpsertPump
  BY <1>8, AckQuiet DEF UpsertPump
<1>9. CASE LinkPump
  <2>1. cached' = cached \/ cached = None
    BY <1>9 DEF LinkPump
  <2> QED BY <1>9, <2>1, AckQuiet DEF LinkPump, Statement
<1>10. CASE NothingUpdated \/ UpdateRow \/ InsertRow \/ UpsertRow
  BY <1>10, AckQuiet DEF NothingUpdated, UpdateRow, InsertRow, UpsertRow, Statement
<1>11. CASE DeadConnection \/ Reconnect
  BY <1>11, AckQuiet DEF DeadConnection, Reconnect, AfterLoss
<1>12. CASE LoseConnection
  <2>1. /\ UNCHANGED <<rows, objects, swept, acked, job, cached>>
        /\ pc \in {"begin", "update", "insert", "commit"} /\ pc' \in {"idle", "down"}
    BY <1>12 DEF LoseConnection, AfterLoss
  <2>2. ASSUME NEW c \in Cycles, acked[c] # None, NEW a \in orphans'
        PROVE  ~OfRow(a, cached, c)
    <3>1. CASE a \in orphans
      BY <2>2, <3>1 DEF AckInv, Acknowledged
    <3>2. CASE a.job = job
      BY <2>1, <2>2, <3>2 DEF AckInv, Acknowledged, Writing, OfRow
    <3> QED BY <1>12, <2>2, <3>1, <3>2, LostConnection DEF Orderly
  <2>3. Acknowledged'
    BY <2>1, <2>2 DEF AckInv, Acknowledged, Writing
  <2> QED BY <2>1, <2>3 DEF AckInv, AckedIsStored
<1>13. CASE Commit
  <2>1. tx \in Changes /\ tx.kind # "none" /\ tx.id \in Ids /\ Apply(tx) /\ tx.job = job
    BY <1>13 DEF Commit, Orderly, TypeOK
  <2>2. /\ UNCHANGED <<objects, swept, orphans, job, cached>> /\ pc' = "ready" /\ pc = "commit"
    BY <1>13, <2>1, ApplyType DEF Commit
  <2>3. CASE job = <<>>
    <3>1. acked' = acked /\ rows' = rows
      BY <1>13, <2>1, <2>3 DEF Commit, Apply
    <3> QED BY <2>2, <3>1, AckQuiet
  <2>4. CASE job # <<>>
    <3>1. /\ tx.id = cached /\ cached \in Ids /\ job[1] \in Cycles /\ Writing
          /\ OfRow(tx, cached, job[1])
      BY <2>1, <2>2, <2>4, JobsType DEF Orderly, TypeOK, Writing, OfRow
    <3>2. acked' = [acked EXCEPT ![job[1]] = job[2]]
      BY <1>13, <2>4 DEF Commit
    <3>3. /\ Len(rows[cached][job[1]]) <= 1
          /\ tx.kind = "insert" => rows[cached][job[1]] = <<>>
          /\ tx.kind = "update" => Len(rows[cached][job[1]]) = 1
          /\ \A a \in orphans : ~OfRow(a, cached, job[1])
      BY <3>1 DEF RowInv, OneRow, OneChange
    <3>4. rows'[cached][job[1]] = <<job[2]>>
      BY <2>1, <3>1, <3>3, ApplyOnce
    <3>5. objects[job[1]] = job[2] \/ job[1] \in swept
      BY <2>2, <3>1 DEF AckInv, Acknowledged
    <3>6. ASSUME NEW c \in Cycles, c # job[1], acked[c] # None
          PROVE  rows'[cached][c] = rows[cached][c]
      BY <2>1, <3>1, <3>6, ApplyRow, ZenonT(60) DEF OfRow
    <3>7. acked'[job[1]] = job[2] /\ \A c \in Cycles : c # job[1] => acked'[c] = acked[c]
      BY <3>1, <3>2 DEF TypeOK
    <3>8. Acknowledged'
      BY <2>2, <3>1, <3>3, <3>7 DEF AckInv, Acknowledged, Writing
    <3>9. AckedIsStored'
      BY <2>2, <3>4, <3>5, <3>6, <3>7 DEF AckInv, AckedIsStored
    <3> QED BY <3>8, <3>9 DEF AckInv
  <2> QED BY <2>3, <2>4
<1>14. CASE Resolve
  <2>1. PICK a \in orphans : orphans' = orphans \ {a} /\ (Apply(a) \/ UNCHANGED tables)
    BY <1>14 DEF Resolve
  <2>2. a \in Changes /\ a.kind # "none" /\ a.id \in Ids
    BY <2>1 DEF Orderly, TypeOK
  <2>3. UNCHANGED <<objects, swept, acked, job, cached, pc>>
    BY <1>14, <2>1, <2>2, ApplyType DEF Resolve
  <2>4. ASSUME NEW c \in Cycles, acked[c] # None
        PROVE  cached \in Ids /\ rows'[cached][c] = rows[cached][c]
    <3>1. cached \in Ids /\ ~OfRow(a, cached, c)
      BY <2>1, <2>4 DEF AckInv, Acknowledged
    <3>2. CASE Apply(a)
      BY <2>2, <3>1, <3>2, ApplyRow, ZenonT(60)
    <3> QED BY <2>1, <3>1, <3>2
  <2>5. Acknowledged'
    BY <2>1, <2>3 DEF AckInv, Acknowledged, Writing
  <2> QED BY <2>3, <2>4, <2>5 DEF AckInv, AckedIsStored
<1>15. CASE Delete
  <2>1. \A c \in Cycles : acked'[c] = None
    BY <1>15 DEF Delete
  <2>2. UNCHANGED <<objects, swept, job, pc>>
    BY <1>15 DEF Delete
  <2>3. Acknowledged'
    BY <2>1, <2>2, JobsType DEF AckInv, Acknowledged, Writing, TypeOK
  <2> QED BY <2>1, <2>3 DEF AckInv, AckedIsStored
<1>16. ASSUME NEW d \in Cycles, DeleteObject(d) PROVE AckInv'
  <2>1. /\ swept' = swept \union {d} /\ \A c \in Cycles : c # d => objects'[c] = objects[c]
        /\ UNCHANGED <<rows, acked, orphans, job, pc, cached>>
    BY <1>16 DEF DeleteObject, TypeOK
  <2>2. Writing => job[1] \in Cycles
    BY JobsType DEF Writing, TypeOK
  <2>3. Acknowledged'
    BY <2>1, <2>2 DEF AckInv, Acknowledged, Writing
  <2> QED BY <2>1, <2>3 DEF AckInv, AckedIsStored
<1> QED BY <1>1, <1>2, <1>3, <1>5, <1>6, <1>7, <1>8, <1>9, <1>10, <1>11, <1>12, <1>13,
           <1>14, <1>15, <1>16 DEF Next, Writer

LEMMA AckStart == Init => AckInv
BY DEF Init, AckInv, Acknowledged, AckedIsStored, Writing

\* What was acknowledged stays stored (gcp_writer.py, write_row): no transaction
\* of an earlier attempt or run is left that could still change or double the
\* row, on the same assumption; and the profile uploaded before it is of the same
\* collection.
THEOREM AckedIsStoredAlways == ASSUME SafeDatabases PROVE Spec => []AckedIsStored
<1>1. TypeOK /\ Orderly /\ RowInv /\ AckInv /\ [Next]_vars =>
        (TypeOK /\ Orderly /\ RowInv /\ AckInv)'
  BY TypeStep, OrderlyStep, RowStep, AckStep
<1>2. AckInv => AckedIsStored
  BY DEF AckInv
<1> QED BY Start, RowStart, AckStart, <1>1, <1>2, PTL DEF Spec
=============================================================================
