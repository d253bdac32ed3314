------------------------------- MODULE Render -------------------------------
(***************************************************************************)
(* render.py and file_writer.py: storing what was collected of one pump.   *)
(* Every writer gets the profile object and then the dispense row, one     *)
(* writer after the other; how clean each cycle came out is remembered in  *)
(* a file of its own (CollectedCycles) once every writer has both.         *)
(*                                                                         *)
(* A process is one that renders: the bridge, or `python render.py` on a   *)
(* saved capture. It can die between any two writes, or inside one, and a  *)
(* write can fail with or without having happened.                         *)
(***************************************************************************)
EXTENDS Integers

CONSTANTS
    Procs,          \* the processes that render captures of this pump
    Bridges,        \* those of them that collect, and skip what is clean
    Writers,        \* how many writers options.writers lists, at least one
    Overwriting,    \* those that overwrite a file in place, by their place in it
    Cycles,         \* cycle numbers
    KeptCycles,     \* KEPT_CYCLES
    Traces,         \* how many traces a profile has
    Captures,       \* bound: what is rendered, <<cycle, flaws>>
    None, Torn      \* nothing there; half of a write

Places == 1..Writers

\* What flaws() compares: (number of blank traces, reconstructed), the second
\* as the number Python's comparison makes of it. It takes a trace that isn't blank.
Flaws == {f \in (0..Traces) \X (0..1) : f[1] + f[2] <= Traces}
Clean == <<0, 0>>

ASSUME StoreAssumption ==
    /\ Writers \in Nat \ {0}
    /\ Bridges \subseteq Procs
    /\ Overwriting \subseteq Places
    /\ Cycles \subseteq Nat
    /\ KeptCycles \in Nat \ {0}
    /\ Traces \in Nat
    /\ Captures \subseteq Cycles \X Flaws
    /\ None # Torn
    /\ None \notin Flaws /\ Torn \notin Flaws

VARIABLES
    file,       \* the CollectedCycles file: cycle -> flaws remembered
    rows,       \* the dispense row of each cycle at each writer, by its flaws
    objs,       \* the profile of each cycle at each writer, by its flaws
    pc,         \* where each process is
    memory,     \* its CollectedCycles.cycles
    job,        \* the cycle it is rendering, and its flaws
    place,      \* the writer it has come to
    failing     \* the processes with something in failures

stores == <<file, rows, objs>>
vars == <<file, rows, objs, pc, memory, job, place, failing>>

\* Tuple comparison in Python: lexicographic.
Better(a, b) == a[1] < b[1] \/ (a[1] = b[1] /\ a[2] < b[2])

NothingYet == [c \in Cycles |-> None]
NoJob == <<None, None>>
JobCycle(p) == job[p][1]
JobFlaws(p) == job[p][2]

Init ==
    /\ file = NothingYet
    /\ rows = [w \in Places |-> NothingYet]
    /\ objs = [w \in Places |-> NothingYet]
    /\ pc = [p \in Procs |-> "idle"]
    /\ memory = [p \in Procs |-> NothingYet]
    /\ job = [p \in Procs |-> NoJob]
    /\ place = [p \in Procs |-> 1]
    /\ failing = {}

-----------------------------------------------------------------------------
\* CollectedCycles.__init__, at the start of a pump's run or of a re-render
Load(p) ==
    /\ pc[p] = "idle"
    /\ pc' = [pc EXCEPT ![p] = "loaded"]
    /\ memory' = [memory EXCEPT ![p] = file]
    /\ UNCHANGED <<stores, job, place, failing>>

\* already_clean
AlreadyClean(p, c) == memory[p][c] = Clean

\* (mutant of StartRender: rendered without looking at what is remembered)
StartAnyRender(p, c, f) ==
    /\ pc[p] = "loaded"
    /\ p \in Bridges => ~AlreadyClean(p, c)
    /\ pc' = [pc EXCEPT ![p] = "object"]
    /\ job' = [job EXCEPT ![p] = <<c, f>>]
    /\ UNCHANGED <<stores, memory, place, failing>>

\* A capture of cycle c comes to render. The bridge has none of a cycle it
\* remembers clean; a capture worse than what is remembered is not written.
StartRender(p, c, f) ==
    /\ pc[p] = "loaded"
    /\ p \in Bridges => ~AlreadyClean(p, c)
    /\ memory[p][c] # None => ~Better(memory[p][c], f)
    /\ pc' = [pc EXCEPT ![p] = "object"]
    /\ job' = [job EXCEPT ![p] = <<c, f>>]
    /\ UNCHANGED <<stores, memory, place, failing>>

\* a run that is over has nothing left in memory
Forget(p) ==
    /\ pc' = [pc EXCEPT ![p] = "idle"]
    /\ memory' = [memory EXCEPT ![p] = NothingYet]
    /\ job' = [job EXCEPT ![p] = NoJob]
    /\ place' = [place EXCEPT ![p] = 1]
    /\ failing' = failing \ {p}

\* (mutant of LastWriter: one past the last)
PastWriters(p) == place[p] > Writers

LastWriter(p) == place[p] = Writers

\* On to the next writer, or past the last one: WriteError ends the run if any
\* writer failed, otherwise the cycle gets remembered.
NextWriter(p, failures) ==
    \/ /\ ~LastWriter(p)
       /\ pc' = [pc EXCEPT ![p] = "object"]
       /\ place' = [place EXCEPT ![p] = place[p] + 1]
       /\ failing' = failures
       /\ UNCHANGED <<memory, job>>
    \/ /\ LastWriter(p)
       /\ p \in failures
       /\ Forget(p)
    \/ /\ LastWriter(p)
       /\ p \notin failures
       /\ pc' = [pc EXCEPT ![p] = "remember"]
       /\ UNCHANGED <<memory, job, place, failing>>

WriteObj(p) ==
    /\ pc[p] = "object"
    /\ objs' = [objs EXCEPT ![place[p]][JobCycle(p)] = JobFlaws(p)]
    /\ pc' = [pc EXCEPT ![p] = "row"]
    /\ UNCHANGED <<file, rows, memory, job, place, failing>>

WriteRow(p) ==
    /\ pc[p] = "row"
    /\ rows' = [rows EXCEPT ![place[p]][JobCycle(p)] = JobFlaws(p)]
    /\ NextWriter(p, failing)
    /\ UNCHANGED <<file, objs>>

\* What an interrupted or failed write leaves: what was there, what was to be
\* written, or, where a file is overwritten in place, part of it.
Leaves(p, was) ==
    {was, JobFlaws(p)} \union (IF place[p] \in Overwriting THEN {Torn} ELSE {})

LeaveObj(p) ==
    \E left \in Leaves(p, objs[place[p]][JobCycle(p)]) :
        objs' = [objs EXCEPT ![place[p]][JobCycle(p)] = left]

LeaveRow(p) ==
    \E left \in Leaves(p, rows[place[p]][JobCycle(p)]) :
        rows' = [rows EXCEPT ![place[p]][JobCycle(p)] = left]

\* (mutant of WriteObjFails: the failure is not noted)
WriteObjFailsUnnoted(p) ==
    /\ pc[p] = "object"
    /\ LeaveObj(p)
    /\ NextWriter(p, failing)
    /\ UNCHANGED <<file, rows>>

\* (mutant of WriteObjFails: the row is written all the same)
WriteObjFailsThenRow(p) ==
    /\ pc[p] = "object"
    /\ LeaveObj(p)
    /\ pc' = [pc EXCEPT ![p] = "row"]
    /\ failing' = failing \union {p}
    /\ UNCHANGED <<file, rows, memory, job, place>>

\* The except around the two writes: the failure is noted, this writer's row is
\* not written, and the next writer still gets its turn.
WriteObjFails(p) ==
    /\ pc[p] = "object"
    /\ LeaveObj(p)
    /\ NextWriter(p, failing \union {p})
    /\ UNCHANGED <<file, rows>>

WriteRowFails(p) ==
    /\ pc[p] = "row"
    /\ LeaveRow(p)
    /\ NextWriter(p, failing \union {p})
    /\ UNCHANGED <<file, objs>>

\* (mutant of Remembering: one cycle too many is kept)
RememberingOneMore(cycles, c, f) ==
    LET added == [cycles EXCEPT ![c] = f]
    IN  [d \in Cycles |->
            IF \E e \in Cycles : added[e] # None /\ d < e - KeptCycles
            THEN None
            ELSE added[d]]

\* CollectedCycles.set: the cycle is added, those KeptCycles behind the newest
\* are dropped
Remembering(cycles, c, f) ==
    LET added == [cycles EXCEPT ![c] = f]
    IN  [d \in Cycles |->
            IF \E e \in Cycles : added[e] # None /\ d <= e - KeptCycles
            THEN None
            ELSE added[d]]

\* the file is replaced in one step by one written aside
Remember(p) ==
    /\ pc[p] = "remember"
    /\ file' = Remembering(memory[p], JobCycle(p), JobFlaws(p))
    /\ memory' = [memory EXCEPT ![p] = Remembering(memory[p], JobCycle(p), JobFlaws(p))]
    /\ pc' = [pc EXCEPT ![p] = "loaded"]
    /\ job' = [job EXCEPT ![p] = NoJob]
    /\ place' = [place EXCEPT ![p] = 1]
    /\ UNCHANGED <<rows, objs, failing>>

EndRun(p) ==
    /\ pc[p] = "loaded"
    /\ Forget(p)
    /\ UNCHANGED stores

\* The process dies, with everything it has in memory, maybe inside a write.
\* An OSError out of CollectedCycles.set ends a run the same way.
Crash(p) ==
    /\ \/ pc[p] = "object" /\ LeaveObj(p) /\ UNCHANGED rows
       \/ pc[p] = "row" /\ LeaveRow(p) /\ UNCHANGED objs
       \/ pc[p] = "remember" /\ UNCHANGED <<rows, objs>>
    /\ Forget(p)
    /\ UNCHANGED file

Step(p) ==
    \/ Load(p)
    \/ \E c \in Cycles, f \in Flaws : <<c, f>> \in Captures /\ StartRender(p, c, f)
    \/ WriteObj(p) \/ WriteRow(p)
    \/ WriteObjFails(p) \/ WriteRowFails(p)
    \/ Remember(p) \/ EndRun(p)

Next == \E p \in Procs : Step(p) \/ Crash(p)

\* a process that has begun to render goes on, one way or the other
Fairness == \A p \in Procs : WF_vars(Step(p))

Spec == Init /\ [][Next]_vars
FairSpec == Spec /\ Fairness

-----------------------------------------------------------------------------
(* Properties *)

Found == Flaws \union {None}
Stored == Flaws \union {None, Torn}

Writing == {"object", "row", "remember"}

\* Every variable has its type, and a process that is writing knows which
\* cycle, and how clean.
TypeOK ==
    /\ file \in [Cycles -> Found]
    /\ rows \in [Places -> [Cycles -> Stored]]
    /\ objs \in [Places -> [Cycles -> Stored]]
    /\ pc \in [Procs -> {"idle", "loaded"} \union Writing]
    /\ memory \in [Procs -> [Cycles -> Found]]
    /\ job \in [Procs -> (Cycles \X Flaws) \union {NoJob}]
    /\ \A p \in Procs : pc[p] \in Writing => job[p] \in Cycles \X Flaws
    /\ place \in [Procs -> Places]
    /\ failing \subseteq Procs

\* A row never points at a profile that isn't there (render.py: each writer
\* gets the profile first), whichever write failed or died.
RowHasProfile ==
    \A w \in Places, c \in Cycles : rows[w][c] # None => objs[w][c] # None

\* At least as clean as f, or, unless f is clean and so skipped from now on,
\* cut short by a write that a later run makes again.
AsGoodAs(stored, f) ==
    IF stored = Torn THEN f # Clean ELSE stored # None /\ ~Better(f, stored)

\* What the bridge remembers of a cycle is what every writer has: a row and a
\* profile at least that clean, and whole if the cycle is remembered clean,
\* because such a cycle is never collected again. Writers failing one by one
\* and crashes in the middle of a rewrite included.
RememberedIsStored ==
    \A c \in Cycles : file[c] # None =>
        \A w \in Places : AsGoodAs(rows[w][c], file[c]) /\ AsGoodAs(objs[w][c], file[c])

\* A clean collection of a cycle replaces a reconstructed or blank one, never
\* the other way round (Docs/mvp_notes.md).
CleanNeverReplaced ==
    [][\A w \in Places, c \in Cycles : rows[w][c] = Clean => rows'[w][c] = Clean]_vars

\* While one process at a time renders a pump's captures, its rows and what is
\* remembered of them keep the promise of Shelf, and so do its profiles.
RowShelf == INSTANCE Shelf WITH Quality <- Flaws, remembered <- file, stored <- rows
ObjShelf == INSTANCE Shelf WITH Quality <- Flaws, remembered <- file, stored <- objs
KeepsRowPromise == RowShelf!Spec
KeepsObjPromise == ObjShelf!Spec
=============================================================================
