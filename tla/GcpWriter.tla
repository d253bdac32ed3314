------------------------------ MODULE GcpWriter ------------------------------
(***************************************************************************)
(* gcp_writer.py: the profiles of one pump in the bucket, and its rows in   *)
(* the cloud database. Each row written is a transaction of its own, done   *)
(* again on a new connection when the one it was on is lost. The database   *)
(* may not have noticed yet: the transaction left behind keeps its locks    *)
(* until it is resolved, and if its COMMIT was on the way it may still be   *)
(* done.                                                                    *)
(***************************************************************************)
EXTENDS Integers, Sequences

CONSTANTS
    Cycles,         \* cycle numbers
    Values,         \* what a dispense row may say
    MaxId,          \* bound: how many pump ids the database ever assigns
    Retries,        \* GCPDBWriter.retries
    Databases,      \* what the database may be like, see below
    None

Ids == 1..MaxId

ASSUME GcpAssumption ==
    /\ MaxId \in Nat \ {0}
    /\ Retries \in Nat \ {0}
    /\ Databases \subseteq [unique : BOOLEAN, settles : BOOLEAN]
    /\ None \notin Ids \union Values

VARIABLES
    \* unique: whether dispense is unique on (pump_id, cycle_number), as
    \* unique_keys remembers it; settles: whether what becomes of a lost
    \* transaction is settled before the next attempt
    database,
    pump,       \* the pump_id of the pump's row, if it has one
    assigned,   \* the last pump_id assigned to a row that is there, or was
    rows,       \* the dispense rows of each pump_id and cycle_number
    objects,    \* the profile of each cycle in the bucket
    listing,    \* whether --delete has its rows gone and the objects not listed
    listed,     \* the cycles whose objects it is going to delete
    swept,      \* history: those whose last object it has deleted
    orphans,    \* transactions whose connection is lost, not resolved yet
    pc,         \* where the writer is
    job,        \* the row being written: <<cycle, value>>, <<>> for the pump's
    attempt,    \* the loop variable of write_row
    alive,      \* whether gcp.connection is
    tx,         \* the change made on it, not committed yet
    cached,     \* pump_ids of this pump
    acked,      \* the value of each cycle last written without an error since
    trouble     \* whether connections may still be lost and statements fail

bucket == <<objects, listing, listed, swept>>
tables == <<database, pump, assigned, rows, bucket>>
client == <<job, attempt, cached>>
vars == <<tables, orphans, pc, client, alive, tx, acked, trouble>>

-----------------------------------------------------------------------------
(* The database, external to src/py: a change is [kind, id, job, sent]. *)

NoChange == [kind |-> "none", id |-> 0, job |-> <<>>, sent |-> FALSE]
Change(kind, id) == [kind |-> kind, id |-> id, job |-> job, sent |-> FALSE]

Copies(id) == rows[id][job[1]]

SameRow(a, id) == IF job = <<>> THEN a.job = <<>>
                  ELSE a.job # <<>> /\ a.job[1] = job[1] /\ a.id = id

\* an updated row is locked; one not yet committed is neither seen nor locked,
\* but under a unique key the second of two such inserts waits for the first
Locked(id) == \E a \in orphans : SameRow(a, id) /\ a.kind = "update"
Reserved(id) == \E a \in orphans : SameRow(a, id)

Apply(a) ==
    IF a.job = <<>>
    THEN pump' = a.id /\ assigned' = a.id /\ UNCHANGED <<database, rows, bucket>>
    ELSE /\ rows' = [rows EXCEPT ![a.id][a.job[1]] =
                        IF a.kind = "insert" THEN Append(@, a.job[2])
                        ELSE [n \in 1..Len(@) |-> a.job[2]]]
         /\ UNCHANGED <<database, pump, assigned, bucket>>

\* a transaction without its connection: rolled back, or done after all if its
\* COMMIT got through
Resolve ==
    \E a \in orphans :
        /\ orphans' = orphans \ {a}
        /\ (a.sent /\ Apply(a)) \/ UNCHANGED tables
        /\ UNCHANGED <<pc, client, alive, tx, acked, trouble>>

\* python gcp_writer.py --delete, from another process; it waits for rows being
\* updated and doesn't see those being inserted
Delete ==
    /\ ~listing /\ listed = {}
    /\ pump # None
    /\ assigned < MaxId
    /\ \A a \in orphans \union {tx} : a.kind # "update"
    /\ rows' = [rows EXCEPT ![pump] = [c \in Cycles |-> <<>>]]
    /\ pump' = None
    /\ listing' = TRUE
    /\ acked' = [c \in Cycles |-> None]
    /\ UNCHANGED <<database, assigned, objects, listed, swept, orphans, pc, client, alive, tx, trouble>>

\* then the objects there are now, one by one
ListObjects ==
    /\ listing
    /\ listing' = FALSE
    /\ listed' = {c \in Cycles : objects[c] # None}
    /\ UNCHANGED <<database, pump, assigned, rows, objects, swept,
                   orphans, pc, client, alive, tx, acked, trouble>>

DeleteObject(c) ==
    /\ c \in listed
    /\ listed' = listed \ {c}
    /\ objects' = [objects EXCEPT ![c] = None]
    /\ swept' = swept \union {c}
    /\ UNCHANGED <<database, pump, assigned, rows, listing,
                   orphans, pc, client, alive, tx, acked, trouble>>

TroubleEnds ==
    /\ trouble
    /\ trouble' = FALSE
    /\ UNCHANGED <<tables, orphans, pc, client, alive, tx, acked>>

-----------------------------------------------------------------------------
(* write_row *)

Init ==
    /\ database \in Databases
    /\ pump = None /\ assigned = 0
    /\ rows = [i \in Ids |-> [c \in Cycles |-> <<>>]]
    /\ objects = [c \in Cycles |-> None]
    /\ listing = FALSE /\ listed = {} /\ swept = {}
    /\ orphans = {}
    /\ pc = "idle"
    /\ job = <<>> /\ attempt = 0
    /\ alive = TRUE
    /\ tx = NoChange
    /\ cached = None
    /\ acked = [c \in Cycles |-> None]
    /\ trouble = TRUE

\* a run writes the pump's row first (write_pump), and its dispenses' if it could
WritePump ==
    /\ pc = "idle"
    /\ pc' = "begin" /\ job' = <<>> /\ attempt' = 0
    /\ UNCHANGED <<tables, orphans, cached, alive, tx, acked, trouble>>

\* (mutant of WriteDispense: only the row)
WriteRowOnly(c, v) ==
    /\ pc = "ready"
    /\ pc' = "begin" /\ job' = <<c, v>> /\ attempt' = 0
    /\ acked' = [acked EXCEPT ![c] = None]
    /\ UNCHANGED <<tables, orphans, cached, alive, tx, trouble>>

WriteDispense(c, v) ==
    /\ pc = "ready"
    /\ pc' = "object" /\ job' = <<c, v>> /\ attempt' = 0
    /\ acked' = [acked EXCEPT ![c] = None]
    /\ UNCHANGED <<tables, orphans, cached, alive, tx, trouble>>

Upload(to) ==
    /\ pc = "object"
    /\ pc' = to
    /\ objects' = [objects EXCEPT ![job[1]] = job[2]]
    /\ swept' = swept \ {job[1]}
    /\ UNCHANGED <<database, pump, assigned, rows, listing, listed,
                   orphans, client, alive, tx, acked, trouble>>

\* write_obj
WriteObj == Upload("begin")

\* An error ends the run (render); the object may be there all the same.
WriteObjFails ==
    /\ trouble
    /\ \/ Upload("idle")
       \/ pc = "object" /\ pc' = "idle"
          /\ UNCHANGED <<tables, orphans, client, alive, tx, acked, trouble>>

EndRun ==
    /\ pc = "ready"
    /\ pc' = "idle"
    /\ UNCHANGED <<tables, orphans, client, alive, tx, acked, trouble>>

Statement(from, to) ==
    /\ alive
    /\ pc = from
    /\ pc' = to
    /\ UNCHANGED <<tables, orphans, job, attempt, alive, acked, trouble>>

\* upsert of the pump's row, unique on its serial number
UpsertPump ==
    /\ job = <<>>
    /\ ~Reserved(pump)
    /\ tx' = IF pump = None THEN Change("insert", assigned + 1) ELSE Change("update", pump)
    /\ alive /\ pc = "begin" /\ pc' = "commit"
    /\ UNCHANGED <<tables, orphans, client, alive, acked, trouble>>

\* prepare: the pump_id for the serial number, looked up once
LinkPump ==
    /\ Statement("begin", "update")
    /\ job # <<>>
    /\ IF cached # None THEN UNCHANGED cached ELSE pump # None /\ cached' = pump
    /\ UNCHANGED tx

\* prepare finds no row: ValueError, rolled back
NoPump ==
    /\ alive
    /\ job # <<>> /\ pc = "begin" /\ cached = None /\ pump = None
    /\ pc' = "idle"
    /\ UNCHANGED <<tables, orphans, client, alive, tx, acked, trouble>>

\* any other error of a statement or of the COMMIT: rolled back, and raised
StatementFails ==
    /\ trouble /\ alive
    /\ pc \in {"begin", "update", "insert", "commit"}
    /\ pc' = "idle"
    /\ tx' = NoChange
    /\ UNCHANGED <<tables, orphans, client, alive, acked, trouble>>

\* update_or_insert, without a unique key
UpdateRow ==
    /\ Statement("update", "commit")
    /\ ~database.unique
    /\ ~Locked(cached)
    /\ Copies(cached) # <<>>
    /\ tx' = Change("update", cached)
    /\ UNCHANGED cached

\* (mutant of NothingUpdated: rowcount isn't looked at)
InsertAnyway ==
    /\ Statement("update", "insert")
    /\ ~database.unique
    /\ UNCHANGED <<tx, cached>>

NothingUpdated ==
    /\ Statement("update", "insert")
    /\ ~database.unique
    /\ Copies(cached) = <<>>
    /\ UNCHANGED <<tx, cached>>

InsertRow ==
    /\ Statement("insert", "commit")
    /\ tx' = Change("insert", cached)
    /\ UNCHANGED cached

\* INSERT ... ON CONFLICT DO UPDATE, with one
UpsertRow ==
    /\ Statement("update", "commit")
    /\ database.unique
    /\ ~Reserved(cached)
    /\ tx' = Change(IF Copies(cached) = <<>> THEN "insert" ELSE "update", cached)
    /\ UNCHANGED cached

\* (mutant of Commit: the commit is forgotten)
NoCommit ==
    /\ alive /\ pc = "commit"
    /\ tx' = NoChange
    /\ acked' = IF job = <<>> THEN acked ELSE [acked EXCEPT ![job[1]] = job[2]]
    /\ pc' = "ready"
    /\ UNCHANGED <<tables, orphans, client, alive, trouble>>

Commit ==
    /\ alive /\ pc = "commit"
    /\ Apply(tx)
    /\ tx' = NoChange
    /\ acked' = IF job = <<>> THEN acked ELSE [acked EXCEPT ![job[1]] = job[2]]
    /\ pc' = "ready"
    /\ UNCHANGED <<orphans, client, alive, trouble>>

\* (mutant of AfterLoss: a lost connection is an error like any other)
RaiseAfterLoss == pc' = "idle"

\* (mutant of AfterLoss: one attempt too many)
OneMoreAttempt == pc' = IF attempt > Retries THEN "idle" ELSE "down"

\* the last attempt raises, without a reconnect; the others sleep and reconnect
AfterLoss == pc' = IF attempt = Retries THEN "idle" ELSE "down"

\* CONNECTION_ERRORS while a transaction is open, its COMMIT maybe sent
LoseConnection ==
    /\ trouble /\ alive
    /\ pc \in {"begin", "update", "insert", "commit"}
    /\ alive' = FALSE
    /\ \E sent \in IF pc = "commit" THEN BOOLEAN ELSE {FALSE} :
          orphans' = IF tx = NoChange THEN orphans
                     ELSE orphans \union {[tx EXCEPT !.sent = sent]}
    /\ tx' = NoChange
    /\ AfterLoss
    /\ UNCHANGED <<tables, client, acked, trouble>>

\* an attempt on a connection that is lost already
DeadConnection ==
    /\ ~alive
    /\ pc = "begin"
    /\ AfterLoss
    /\ UNCHANGED <<tables, orphans, client, alive, tx, acked, trouble>>

\* after the sleep; a reconnect that fails is left for the next attempt to find
Reconnect ==
    /\ pc = "down"
    /\ database.settles => orphans = {}
    /\ alive' \in IF trouble THEN BOOLEAN ELSE {TRUE}
    /\ attempt' = attempt + 1
    /\ pc' = "begin"
    /\ UNCHANGED <<tables, orphans, job, cached, tx, acked, trouble>>

-----------------------------------------------------------------------------
Writer ==
    \/ WritePump \/ EndRun \/ (\E c \in Cycles, v \in Values : WriteDispense(c, v))
    \/ WriteObj \/ WriteObjFails
    \/ UpsertPump \/ LinkPump \/ NoPump
    \/ UpdateRow \/ NothingUpdated \/ InsertRow \/ UpsertRow \/ Commit
    \/ StatementFails \/ LoseConnection \/ DeadConnection \/ Reconnect

Next ==
    \/ Writer \/ Resolve \/ TroubleEnds
    \/ Delete \/ ListObjects \/ (\E c \in Cycles : DeleteObject(c))

\* the bridge runs the pump again and again, and the database resolves what was
\* left behind
Fairness == WF_vars(Writer) /\ WF_vars(Resolve)

Spec == Init /\ [][Next]_vars
FairSpec == Spec /\ Fairness

-----------------------------------------------------------------------------
(* Properties *)

Jobs == {<<>>} \union (Cycles \X Values)
Changes == [kind : {"none", "insert", "update"}, id : 0..MaxId, job : Jobs, sent : BOOLEAN]

\* Every variable has its type; a row is tried at most Retries + 1 times.
TypeOK ==
    /\ database \in Databases
    /\ pump \in Ids \union {None} /\ cached \in Ids \union {None}
    /\ assigned \in 0..MaxId
    /\ rows \in [Ids -> [Cycles -> Seq(Values)]]
    /\ objects \in [Cycles -> Values \union {None}]
    /\ listing \in BOOLEAN /\ listed \subseteq Cycles /\ swept \subseteq Cycles
    /\ orphans \subseteq Changes /\ tx \in Changes
    /\ pc \in {"idle", "ready", "object", "begin", "update", "insert", "commit", "down"}
    /\ job \in Jobs
    /\ attempt \in 0..Retries
    /\ alive \in BOOLEAN /\ trouble \in BOOLEAN
    /\ acked \in [Cycles -> Values \union {None}]

\* "The upsert makes sending it again safe" (gcp_writer.py, write_row): a cycle
\* never has two rows, however often its row was sent and whichever of the
\* commits sent was done.
OneRow == \A i \in Ids, c \in Cycles : Len(rows[i][c]) <= 1

\* Once write_row has returned, the cycle has that row and no other until it is
\* written again, no commit of an earlier attempt or run coming in later, and the
\* profile of the same collection is in the bucket. Only --delete can take that
\* away: it deletes the objects it finds after its rows are gone, those of a
\* bridge that is writing at the time among them.
AckedIsStored ==
    \A c \in Cycles : acked[c] # None =>
        /\ rows[cached][c] = <<acked[c]>>
        /\ objects[c] = acked[c] \/ c \in swept

\* Once connections can be had, a run gets its rows written, although the one
\* it finds may have been lost in the run before.
WritesComeThrough == (~trouble /\ pc = "begin") ~> (pc = "ready")
=============================================================================
