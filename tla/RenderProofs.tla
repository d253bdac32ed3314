---------------------------- MODULE RenderProofs ----------------------------
(***************************************************************************)
(* Proofs about Render, for any number of cycles and writers and any of    *)
(* them overwriting in place: types, rows that have their profile, what is *)
(* remembered is stored, and the refinement of Shelf, the last two for one *)
(* bridge.                                                                 *)
(***************************************************************************)
EXTENDS Render, TLAPS

-----------------------------------------------------------------------------
(* Types *)

LEMMA CleanIsFlaws == Clean \in Flaws
BY StoreAssumption DEF Clean, Flaws

\* What CollectedCycles.set leaves is again flaws, or nothing, for each cycle.
LEMMA RememberingType ==
    ASSUME NEW cycles \in [Cycles -> Found], NEW c \in Cycles, NEW f \in Flaws
    PROVE  Remembering(cycles, c, f) \in [Cycles -> Found]
BY DEF Remembering, Found

\* The types of what Forget and NextWriter change.
LocalType ==
    /\ pc \in [Procs -> {"idle", "loaded"} \union Writing]
    /\ memory \in [Procs -> [Cycles -> Found]]
    /\ job \in [Procs -> (Cycles \X Flaws) \union {NoJob}]
    /\ \A p \in Procs : pc[p] \in Writing => job[p] \in Cycles \X Flaws
    /\ place \in [Procs -> Places]
    /\ failing \subseteq Procs

LEMMA ForgetType ==
    ASSUME TypeOK, NEW p \in Procs, Forget(p) PROVE LocalType'
BY StoreAssumption DEF TypeOK, LocalType, Forget, Writing, NothingYet, Found, Places

LEMMA NextWriterType ==
    ASSUME TypeOK, NEW p \in Procs, pc[p] \in Writing,
           NEW STATE failures, failures \in SUBSET Procs, NextWriter(p, failures)
    PROVE  LocalType'
<1>1. CASE Forget(p)
  BY <1>1, ForgetType
<1>2. CASE /\ ~LastWriter(p)
           /\ pc' = [pc EXCEPT ![p] = "object"]
           /\ place' = [place EXCEPT ![p] = place[p] + 1]
           /\ failing' = failures
           /\ UNCHANGED <<memory, job>>
  <2>1. place[p] + 1 \in Places
    BY <1>2, StoreAssumption DEF TypeOK, Places, LastWriter
  <2> QED BY <1>2, <2>1 DEF TypeOK, LocalType, Writing
<1>3. CASE /\ pc' = [pc EXCEPT ![p] = "remember"]
           /\ UNCHANGED <<memory, job, place, failing>>
  BY <1>3 DEF TypeOK, LocalType, Writing
<1> QED BY <1>1, <1>2, <1>3 DEF NextWriter, LastWriter

\* What a failed or interrupted write leaves can be stored.
LEMMA LeavesType ==
    ASSUME TypeOK, NEW p \in Procs, pc[p] \in Writing, NEW was \in Stored
    PROVE  Leaves(p, was) \subseteq Stored
BY DEF TypeOK, Leaves, Stored, JobFlaws

LEMMA LeaveObjType ==
    ASSUME TypeOK, NEW p \in Procs, pc[p] \in Writing, LeaveObj(p)
    PROVE  objs' \in [Places -> [Cycles -> Stored]]
<1>1. place[p] \in Places /\ JobCycle(p) \in Cycles
  BY DEF TypeOK, JobCycle
<1>2. PICK left \in Leaves(p, objs[place[p]][JobCycle(p)]) :
        objs' = [objs EXCEPT ![place[p]][JobCycle(p)] = left]
  BY DEF LeaveObj
<1>3. left \in Stored
  BY <1>1, LeavesType DEF TypeOK
<1> QED BY <1>1, <1>2, <1>3 DEF TypeOK

LEMMA LeaveRowType ==
    ASSUME TypeOK, NEW p \in Procs, pc[p] \in Writing, LeaveRow(p)
    PROVE  rows' \in [Places -> [Cycles -> Stored]]
<1>1. place[p] \in Places /\ JobCycle(p) \in Cycles
  BY DEF TypeOK, JobCycle
<1>2. PICK left \in Leaves(p, rows[place[p]][JobCycle(p)]) :
        rows' = [rows EXCEPT ![place[p]][JobCycle(p)] = left]
  BY DEF LeaveRow
<1>3. left \in Stored
  BY <1>1, LeavesType DEF TypeOK
<1> QED BY <1>1, <1>2, <1>3 DEF TypeOK

LEMMA TypeInit == Init => TypeOK
BY StoreAssumption
   DEF Init, TypeOK, NothingYet, Found, Stored, NoJob, Writing, Places

LEMMA TypeStep == TypeOK /\ [Next]_vars => TypeOK'
<1> SUFFICES ASSUME TypeOK, [Next]_vars PROVE TypeOK'
  OBVIOUS
<1>1. CASE UNCHANGED vars
  BY <1>1 DEF vars, TypeOK
<1>2. ASSUME NEW p \in Procs, Load(p) PROVE TypeOK'
  BY <1>2 DEF Load, TypeOK, stores, Writing
<1>3. ASSUME NEW p \in Procs, NEW c \in Cycles, NEW f \in Flaws, StartRender(p, c, f)
      PROVE  TypeOK'
  BY <1>3 DEF StartRender, TypeOK, stores, Writing
<1>4. ASSUME NEW p \in Procs, WriteObj(p) PROVE TypeOK'
  BY <1>4 DEF WriteObj, TypeOK, Writing, Stored, JobCycle, JobFlaws
<1>5. ASSUME NEW p \in Procs, WriteRow(p) PROVE TypeOK'
  <2>1. LocalType'
    BY <1>5, NextWriterType DEF WriteRow, TypeOK, Writing
  <2>2. rows' \in [Places -> [Cycles -> Stored]]
    BY <1>5 DEF WriteRow, TypeOK, Writing, Stored, JobCycle, JobFlaws
  <2> QED BY <1>5, <2>1, <2>2 DEF WriteRow, TypeOK, LocalType
<1>6. ASSUME NEW p \in Procs, WriteObjFails(p) PROVE TypeOK'
  <2>1. failing \union {p} \in SUBSET Procs
    BY DEF TypeOK
  <2>2. LocalType'
    BY <1>6, <2>1, NextWriterType DEF WriteObjFails, Writing
  <2>3. objs' \in [Places -> [Cycles -> Stored]]
    BY <1>6, LeaveObjType DEF WriteObjFails, Writing
  <2> QED BY <1>6, <2>2, <2>3 DEF WriteObjFails, TypeOK, LocalType
<1>7. ASSUME NEW p \in Procs, WriteRowFails(p) PROVE TypeOK'
  <2>1. failing \union {p} \in SUBSET Procs
    BY DEF TypeOK
  <2>2. LocalType'
    BY <1>7, <2>1, NextWriterType DEF WriteRowFails, Writing
  <2>3. rows' \in [Places -> [Cycles -> Stored]]
    BY <1>7, LeaveRowType DEF WriteRowFails, Writing
  <2> QED BY <1>7, <2>2, <2>3 DEF WriteRowFails, TypeOK, LocalType
<1>8. ASSUME NEW p \in Procs, Remember(p) PROVE TypeOK'
  <2> DEFINE m == Remembering(memory[p], JobCycle(p), JobFlaws(p))
  <2>1. m \in [Cycles -> Found]
    BY <1>8, RememberingType DEF Remember, TypeOK, Writing, JobCycle, JobFlaws
  <2>2. file' = m /\ memory' = [memory EXCEPT ![p] = m]
    BY <1>8 DEF Remember
  <2> HIDE DEF m
  <2> QED BY <1>8, <2>1, <2>2, StoreAssumption DEF Remember, TypeOK, Writing, Places
<1>9. ASSUME NEW p \in Procs, EndRun(p) PROVE TypeOK'
  BY <1>9, ForgetType DEF EndRun, TypeOK, LocalType, stores
<1>10. ASSUME NEW p \in Procs, Crash(p) PROVE TypeOK'
  <2>1. LocalType'
    BY <1>10, ForgetType DEF Crash
  <2>2. objs' \in [Places -> [Cycles -> Stored]]
    BY <1>10, LeaveObjType DEF Crash, TypeOK, Writing
  <2>3. rows' \in [Places -> [Cycles -> Stored]]
    BY <1>10, LeaveRowType DEF Crash, TypeOK, Writing
  <2> QED BY <1>10, <2>1, <2>2, <2>3 DEF Crash, TypeOK, LocalType
<1> QED BY <1>1, <1>2, <1>3, <1>4, <1>5, <1>6, <1>7, <1>8, <1>9, <1>10 DEF Next, Step

\* The types of Render hold, whichever and however many processes render.
THEOREM TypeCorrect == Spec => []TypeOK
BY TypeInit, TypeStep, PTL DEF Spec

-----------------------------------------------------------------------------
(* A row never points at a profile that isn't there *)

\* A profile is there before its row is written, and is never removed.
RowInv ==
    /\ RowHasProfile
    /\ \A p \in Procs : pc[p] = "row" => objs[place[p]][JobCycle(p)] # None

Untouched(w, c) == rows'[w][c] = rows[w][c]

LEMMA JobFacts ==
    ASSUME TypeOK, NEW p \in Procs, pc[p] \in Writing
    PROVE  /\ place[p] \in Places /\ JobCycle(p) \in Cycles
           /\ JobFlaws(p) \in Flaws /\ JobFlaws(p) # None /\ JobFlaws(p) # Torn
BY StoreAssumption DEF TypeOK, JobCycle, JobFlaws

\* No write, finished or not, takes a profile away.
LEMMA ObjsStay ==
    ASSUME TypeOK, NEW p \in Procs, pc[p] \in Writing, LeaveObj(p),
           NEW w \in Places, NEW c \in Cycles, objs[w][c] # None
    PROVE  objs'[w][c] # None
<1>1. PICK left \in Leaves(p, objs[place[p]][JobCycle(p)]) :
        objs' = [objs EXCEPT ![place[p]][JobCycle(p)] = left]
  BY DEF LeaveObj
<1>2. CASE w = place[p] /\ c = JobCycle(p)
  <2>1. left # None
    BY <1>1, <1>2, JobFacts, StoreAssumption DEF Leaves
  <2> QED BY <1>1, <1>2, <2>1, JobFacts DEF TypeOK
<1>3. CASE ~(w = place[p] /\ c = JobCycle(p))
  BY <1>1, <1>3, JobFacts DEF TypeOK
<1> QED BY <1>2, <1>3

\* A row is only written, or half written, where p is writing.
LEMMA RowsElsewhere ==
    ASSUME TypeOK, NEW p \in Procs, pc[p] \in Writing, LeaveRow(p),
           NEW w \in Places, NEW c \in Cycles, ~(w = place[p] /\ c = JobCycle(p))
    PROVE  Untouched(w, c)
BY JobFacts DEF LeaveRow, Untouched, TypeOK

\* A process that moves on is not about to write a row.
LEMMA MovesOn ==
    ASSUME TypeOK, NEW p \in Procs, pc[p] \in Writing, NEW STATE failures,
           NextWriter(p, failures) \/ Forget(p), NEW q \in Procs, pc'[q] = "row"
    PROVE  q # p /\ pc[q] = "row" /\ place'[q] = place[q] /\ JobCycle(q)' = JobCycle(q)
BY DEF NextWriter, Forget, TypeOK, JobCycle

LEMMA RowStep == TypeOK /\ RowInv /\ [Next]_vars => RowInv'
<1> SUFFICES ASSUME TypeOK, RowInv, [Next]_vars PROVE RowInv'
  OBVIOUS
<1>1. CASE UNCHANGED vars
  BY <1>1 DEF vars, RowInv, RowHasProfile, JobCycle
<1>2. ASSUME NEW p \in Procs, Load(p) PROVE RowInv'
  BY <1>2 DEF Load, RowInv, RowHasProfile, stores, JobCycle, TypeOK
<1>3. ASSUME NEW p \in Procs, NEW c \in Cycles, NEW f \in Flaws, StartRender(p, c, f)
      PROVE  RowInv'
  BY <1>3 DEF StartRender, RowInv, RowHasProfile, stores, JobCycle, TypeOK
<1>4. ASSUME NEW p \in Procs, WriteObj(p) PROVE RowInv'
  <2>1. \A w \in Places, c \in Cycles : objs[w][c] # None => objs'[w][c] # None
    BY <1>4, JobFacts DEF WriteObj, TypeOK, Writing
  <2>2. objs'[place[p]][JobCycle(p)] # None
    BY <1>4, JobFacts DEF WriteObj, TypeOK, Writing
  <2>3. RowHasProfile'
    BY <1>4, <2>1 DEF WriteObj, RowInv, RowHasProfile
  <2>4. ASSUME NEW q \in Procs, pc'[q] = "row" PROVE objs'[place'[q]][JobCycle(q)'] # None
    <3>1. place'[q] = place[q] /\ JobCycle(q)' = JobCycle(q)
      BY <1>4 DEF WriteObj, JobCycle
    <3>2. CASE q = p
      BY <2>2, <3>1, <3>2
    <3>3. CASE q # p
      <4>1. pc[q] = "row"
        BY <1>4, <2>4, <3>3 DEF WriteObj, TypeOK
      <4> QED BY <2>1, <3>1, <4>1, JobFacts DEF RowInv, Writing
    <3> QED BY <3>2, <3>3
  <2> QED BY <2>3, <2>4 DEF RowInv
<1>5. ASSUME NEW p \in Procs, LeaveObj(p), pc[p] \in Writing, UNCHANGED rows,
             NEW STATE failures, NextWriter(p, failures) \/ Forget(p)
      PROVE  RowInv'
  <2>1. \A w \in Places, c \in Cycles : objs[w][c] # None => objs'[w][c] # None
    BY <1>5, ObjsStay
  <2>2. RowHasProfile'
    BY <1>5, <2>1 DEF RowInv, RowHasProfile
  <2>3. ASSUME NEW q \in Procs, pc'[q] = "row" PROVE objs'[place'[q]][JobCycle(q)'] # None
    BY <1>5, <2>1, <2>3, MovesOn, JobFacts DEF RowInv, Writing
  <2> QED BY <2>2, <2>3 DEF RowInv
<1>6. ASSUME NEW p \in Procs, pc[p] \in Writing, UNCHANGED objs,
             \A w \in Places, c \in Cycles :
                Untouched(w, c) \/ (pc[p] = "row" /\ w = place[p] /\ c = JobCycle(p)),
             NEW STATE failures, NextWriter(p, failures) \/ Forget(p)
      PROVE  RowInv'
  <2>1. RowHasProfile'
    BY <1>6 DEF RowInv, RowHasProfile, Untouched
  <2>2. ASSUME NEW q \in Procs, pc'[q] = "row" PROVE objs'[place'[q]][JobCycle(q)'] # None
    BY <1>6, <2>2, MovesOn DEF RowInv
  <2> QED BY <2>1, <2>2 DEF RowInv
<1>7. ASSUME NEW p \in Procs, WriteRow(p) PROVE RowInv'
  <2>1. \A w \in Places, c \in Cycles :
          Untouched(w, c) \/ (pc[p] = "row" /\ w = place[p] /\ c = JobCycle(p))
    BY <1>7, JobFacts DEF WriteRow, Untouched, TypeOK, Writing
  <2> QED BY <1>6, <1>7, <2>1 DEF WriteRow, Writing
<1>8. ASSUME NEW p \in Procs, WriteObjFails(p) PROVE RowInv'
  BY <1>5, <1>8 DEF WriteObjFails, Writing
<1>9. ASSUME NEW p \in Procs, WriteRowFails(p) PROVE RowInv'
  <2>1. \A w \in Places, c \in Cycles :
          Untouched(w, c) \/ (pc[p] = "row" /\ w = place[p] /\ c = JobCycle(p))
    BY <1>9, RowsElsewhere DEF WriteRowFails, Writing
  <2> QED BY <1>6, <1>9, <2>1 DEF WriteRowFails, Writing
<1>10. ASSUME NEW p \in Procs, Remember(p) PROVE RowInv'
  BY <1>10 DEF Remember, RowInv, RowHasProfile, JobCycle, TypeOK
<1>11. ASSUME NEW p \in Procs, EndRun(p) PROVE RowInv'
  BY <1>11 DEF EndRun, Forget, RowInv, RowHasProfile, JobCycle, TypeOK, stores
<1>12. ASSUME NEW p \in Procs, Crash(p) PROVE RowInv'
  <2>1. CASE pc[p] = "object" /\ LeaveObj(p) /\ UNCHANGED rows
    BY <1>5, <1>12, <2>1 DEF Crash, Writing
  <2>2. CASE pc[p] = "row" /\ LeaveRow(p) /\ UNCHANGED objs
    <3>1. \A w \in Places, c \in Cycles :
            Untouched(w, c) \/ (pc[p] = "row" /\ w = place[p] /\ c = JobCycle(p))
      BY <2>2, RowsElsewhere DEF Writing
    <3> QED BY <1>6, <1>12, <2>2, <3>1 DEF Crash, Writing
  <2>3. CASE pc[p] = "remember" /\ UNCHANGED <<rows, objs>>
    BY <1>6, <1>12, <2>3 DEF Crash, Writing, Untouched
  <2> QED BY <1>12, <2>1, <2>2, <2>3 DEF Crash
<1> QED
  BY <1>1, <1>2, <1>3, <1>4, <1>7, <1>8, <1>9, <1>10, <1>11, <1>12 DEF Next, Step

\* A row never points at a profile that isn't there, for any number of writers
\* and of processes rendering the same pump's captures at the same time.
THEOREM RowHasProfileAlways == Spec => []RowHasProfile
<1>1. Init => RowInv
  BY DEF Init, RowInv, RowHasProfile, NothingYet
<1> QED BY <1>1, TypeInit, TypeStep, RowStep, PTL DEF Spec, RowInv

-----------------------------------------------------------------------------
(* What is remembered is stored, when one bridge collects *)

\* One bridge collects from the pump, and nothing else renders its captures.
OneBridge == Procs = Bridges /\ \A p, q \in Procs : p = q

\* These writers have both the row and the profile of what p is rendering.
HaveBoth(p, places) ==
    \A w \in places : /\ rows[w][JobCycle(p)] = JobFlaws(p)
                      /\ objs[w][JobCycle(p)] = JobFlaws(p)

\* What p renders may take the place of what is remembered.
Allowed(p) ==
    /\ file[JobCycle(p)] # Clean
    /\ file[JobCycle(p)] # None => ~Better(file[JobCycle(p)], JobFlaws(p))

\* What makes RememberedIsStored inductive: the bridge's memory is the file, it
\* only writes over a cycle that is not remembered clean, with nothing worse
\* than is remembered, and as long as nothing failed the writers it has been
\* through have what it is about to remember.
Rendering(p) ==
    /\ pc[p] # "idle" => memory[p] = file
    /\ pc[p] \notin Writing => place[p] = 1 /\ p \notin failing
    /\ pc[p] \in Writing => Allowed(p)
    /\ pc[p] \in {"object", "row"} /\ p \notin failing => HaveBoth(p, 1..(place[p] - 1))
    /\ pc[p] = "row" => objs[place[p]][JobCycle(p)] = JobFlaws(p)
    /\ pc[p] = "remember" => HaveBoth(p, Places) /\ p \notin failing

IInv == RememberedIsStored /\ \A p \in Procs : Rendering(p)

LEMMA NotBetterThanItself == ASSUME NEW f \in Flaws PROVE ~Better(f, f)
BY StoreAssumption DEF Better, Flaws

\* Whatever an allowed write leaves behind is as good as what is remembered.
LEMMA WritesAreGoodEnough ==
    ASSUME TypeOK, NEW p \in Procs, pc[p] \in Writing, Allowed(p),
           file[JobCycle(p)] # None,
           NEW was, AsGoodAs(was, file[JobCycle(p)]), NEW left \in Leaves(p, was)
    PROVE  AsGoodAs(left, file[JobCycle(p)])
BY JobFacts DEF Allowed, AsGoodAs, Leaves

LEMMA WriteKeepsStored ==
    ASSUME TypeOK, RememberedIsStored, NEW p \in Procs, pc[p] \in Writing, Allowed(p),
           UNCHANGED file, LeaveObj(p) \/ UNCHANGED objs, LeaveRow(p) \/ UNCHANGED rows
    PROVE  RememberedIsStored'
<1> SUFFICES ASSUME NEW c \in Cycles, file[c] # None, NEW w \in Places
             PROVE  AsGoodAs(rows'[w][c], file[c]) /\ AsGoodAs(objs'[w][c], file[c])
  BY DEF RememberedIsStored
<1>1. AsGoodAs(rows[w][c], file[c]) /\ AsGoodAs(objs[w][c], file[c])
  BY DEF RememberedIsStored
<1>2. AsGoodAs(objs'[w][c], file[c])
  <2>1. CASE UNCHANGED objs
    BY <1>1, <2>1
  <2>2. CASE LeaveObj(p)
    <3>1. PICK left \in Leaves(p, objs[place[p]][JobCycle(p)]) :
            objs' = [objs EXCEPT ![place[p]][JobCycle(p)] = left]
      BY <2>2 DEF LeaveObj
    <3>2. CASE w = place[p] /\ c = JobCycle(p)
      <4>1. objs'[w][c] = left
        BY <3>1, <3>2 DEF TypeOK
      <4> QED BY <1>1, <3>1, <3>2, <4>1, WritesAreGoodEnough
    <3>3. CASE ~(w = place[p] /\ c = JobCycle(p))
      <4>1. objs'[w][c] = objs[w][c]
        BY <3>1, <3>3, JobFacts DEF TypeOK
      <4> QED BY <1>1, <4>1
    <3> QED BY <3>2, <3>3
  <2> QED BY <2>1, <2>2
<1>3. AsGoodAs(rows'[w][c], file[c])
  <2>1. CASE UNCHANGED rows
    BY <1>1, <2>1
  <2>2. CASE LeaveRow(p)
    <3>1. PICK left \in Leaves(p, rows[place[p]][JobCycle(p)]) :
            rows' = [rows EXCEPT ![place[p]][JobCycle(p)] = left]
      BY <2>2 DEF LeaveRow
    <3>2. CASE w = place[p] /\ c = JobCycle(p)
      <4>1. rows'[w][c] = left
        BY <3>1, <3>2 DEF TypeOK
      <4> QED BY <1>1, <3>1, <3>2, <4>1, WritesAreGoodEnough
    <3>3. CASE ~(w = place[p] /\ c = JobCycle(p))
      <4>1. rows'[w][c] = rows[w][c]
        BY <3>1, <3>3, JobFacts DEF TypeOK
      <4> QED BY <1>1, <4>1
    <3> QED BY <3>2, <3>3
  <2> QED BY <2>1, <2>2
<1> QED BY <1>2, <1>3

\* A finished write is one of the writes that LeaveObj and LeaveRow allow.
LEMMA FinishedWrites ==
    ASSUME NEW p \in Procs
    PROVE  /\ WriteObj(p) => LeaveObj(p)
           /\ WriteRow(p) => LeaveRow(p)
BY DEF WriteObj, WriteRow, LeaveObj, LeaveRow, Leaves

\* Forgetting leaves nothing to be kept of what was being rendered.
LEMMA ForgetRendering ==
    ASSUME TypeOK, NEW p \in Procs, Forget(p) PROVE Rendering(p)'
BY DEF TypeOK, Forget, Rendering, Writing

\* The writer p was at has the profile and, unless it failed, the row: what p
\* knows of the writers it has been through when it goes on to the next.
LEMMA NextWriterRendering ==
    ASSUME TypeOK, NEW p \in Procs, Rendering(p), pc[p] \in {"object", "row"},
           NEW STATE failures, failing \subseteq failures, NextWriter(p, failures),
           UNCHANGED file,
           p \notin failures =>
              \A w \in 1..place[p] : /\ rows'[w][JobCycle(p)] = JobFlaws(p)
                                     /\ objs'[w][JobCycle(p)] = JobFlaws(p)
    PROVE  Rendering(p)'
<1>1. CASE Forget(p)
  BY <1>1, ForgetRendering
<1>2. CASE /\ ~LastWriter(p)
           /\ pc' = [pc EXCEPT ![p] = "object"]
           /\ place' = [place EXCEPT ![p] = place[p] + 1]
           /\ failing' = failures
           /\ UNCHANGED <<memory, job>>
  <2>1. pc'[p] = "object" /\ place'[p] = place[p] + 1
    BY <1>2 DEF TypeOK
  <2>2. JobCycle(p)' = JobCycle(p) /\ JobFlaws(p)' = JobFlaws(p)
    BY <1>2 DEF JobCycle, JobFlaws
  <2>3. 1..(place'[p] - 1) = 1..place[p]
    BY <2>1 DEF TypeOK, Places
  <2>4. p \notin failing' => HaveBoth(p, 1..(place[p] - 1))'
    BY <1>2, <2>2, <2>3 DEF HaveBoth
  <2>5. memory'[p] = file'
    BY <1>2 DEF Rendering
  <2>6. Allowed(p)'
    BY <2>2 DEF Rendering, Allowed, Writing
  <2> QED BY <2>1, <2>4, <2>5, <2>6 DEF Rendering, Writing
<1>3. CASE /\ place[p] = Writers
           /\ p \notin failures
           /\ pc' = [pc EXCEPT ![p] = "remember"]
           /\ UNCHANGED <<memory, job, place, failing>>
  <2>1. pc'[p] = "remember" /\ p \notin failing'
    BY <1>3 DEF TypeOK
  <2>2. JobCycle(p)' = JobCycle(p) /\ JobFlaws(p)' = JobFlaws(p)
    BY <1>3 DEF JobCycle, JobFlaws
  <2>3. HaveBoth(p, Places)'
    BY <1>3, <2>2 DEF HaveBoth, Places
  <2> QED BY <1>3, <2>1, <2>2, <2>3 DEF Rendering, Allowed, Writing
<1> QED BY <1>1, <1>2, <1>3 DEF NextWriter, LastWriter

\* The writers before p's are not touched by what p does at its own.
LEMMA EarlierWritersStay ==
    ASSUME TypeOK, NEW p \in Procs, pc[p] \in Writing,
           LeaveObj(p) \/ UNCHANGED objs, LeaveRow(p) \/ UNCHANGED rows,
           NEW w \in 1..(place[p] - 1)
    PROVE  /\ rows'[w][JobCycle(p)] = rows[w][JobCycle(p)]
           /\ objs'[w][JobCycle(p)] = objs[w][JobCycle(p)]
<1>1. w # place[p] /\ w \in Places
  BY StoreAssumption DEF TypeOK, Places
<1> QED BY <1>1, JobFacts DEF LeaveObj, LeaveRow, TypeOK

LEMMA RememberedStep ==
    ASSUME TypeOK, IInv, OneBridge, [Next]_vars PROVE IInv'
<1>1. CASE UNCHANGED vars
  BY <1>1 DEF vars, IInv, RememberedIsStored, Rendering, Allowed, HaveBoth, JobCycle, JobFlaws
<1> SUFFICES ASSUME NEW p \in Procs, Step(p) \/ Crash(p) PROVE IInv'
  BY <1>1 DEF Next
<1>2. Rendering(p) /\ RememberedIsStored /\ p \in Bridges
  BY DEF IInv, OneBridge
<1>3. SUFFICES RememberedIsStored' /\ Rendering(p)'
  BY DEF IInv, OneBridge
<1>4. CASE Load(p)
  <2>1. pc'[p] = "loaded" /\ memory'[p] = file'
    BY <1>4 DEF Load, TypeOK, stores
  <2> QED BY <1>2, <1>4, <2>1 DEF Load, stores, RememberedIsStored, Rendering, Writing
<1>5. ASSUME NEW c \in Cycles, NEW f \in Flaws, StartRender(p, c, f)
      PROVE  RememberedIsStored' /\ Rendering(p)'
  <2>1. pc'[p] = "object" /\ JobCycle(p)' = c /\ JobFlaws(p)' = f
    BY <1>5 DEF StartRender, TypeOK, JobCycle, JobFlaws
  <2>2. Allowed(p)'
    BY <1>2, <1>5, <2>1 DEF StartRender, AlreadyClean, Rendering, Allowed, stores
  <2>3. place'[p] = 1 /\ memory'[p] = file'
    BY <1>2, <1>5 DEF StartRender, Rendering, Writing, stores
  <2> QED BY <1>2, <1>5, <2>1, <2>2, <2>3
          DEF StartRender, stores, RememberedIsStored, Rendering, Writing, HaveBoth
<1>6. CASE WriteObj(p)
  <2>1. RememberedIsStored'
    BY <1>2, <1>6, WriteKeepsStored, FinishedWrites DEF WriteObj, Rendering, Writing
  <2>2. pc'[p] = "row" /\ JobCycle(p)' = JobCycle(p) /\ JobFlaws(p)' = JobFlaws(p)
    BY <1>6 DEF WriteObj, TypeOK, JobCycle, JobFlaws
  <2>3. objs'[place[p]][JobCycle(p)] = JobFlaws(p)
    BY <1>6, JobFacts DEF WriteObj, TypeOK, Writing
  <2>4. p \notin failing => HaveBoth(p, 1..(place[p] - 1))'
    BY <1>2, <1>6, <2>2, FinishedWrites, EarlierWritersStay
       DEF WriteObj, Rendering, Writing, HaveBoth
  <2> QED BY <1>2, <1>6, <2>1, <2>2, <2>3, <2>4 DEF WriteObj, Rendering, Writing, Allowed
<1>7. CASE WriteRow(p)
  <2>1. RememberedIsStored'
    BY <1>2, <1>7, WriteKeepsStored, FinishedWrites DEF WriteRow, Rendering, Writing
  <2>2. rows'[place[p]][JobCycle(p)] = JobFlaws(p)
    BY <1>7, JobFacts DEF WriteRow, TypeOK, Writing
  <2>3. objs'[place[p]][JobCycle(p)] = JobFlaws(p)
    BY <1>2, <1>7 DEF WriteRow, Rendering
  <2>4. p \notin failing =>
          \A w \in 1..place[p] : /\ rows'[w][JobCycle(p)] = JobFlaws(p)
                                 /\ objs'[w][JobCycle(p)] = JobFlaws(p)
    <3> SUFFICES ASSUME p \notin failing, NEW w \in 1..place[p]
                 PROVE  /\ rows'[w][JobCycle(p)] = JobFlaws(p)
                        /\ objs'[w][JobCycle(p)] = JobFlaws(p)
      OBVIOUS
    <3>1. CASE w = place[p]
      BY <2>2, <2>3, <3>1
    <3>2. CASE w # place[p]
      <4>1. w \in 1..(place[p] - 1)
        BY <3>2 DEF TypeOK, Places
      <4>2. rows[w][JobCycle(p)] = JobFlaws(p) /\ objs[w][JobCycle(p)] = JobFlaws(p)
        BY <1>2, <1>7, <4>1 DEF WriteRow, Rendering, HaveBoth
      <4> QED BY <1>7, <4>1, <4>2, FinishedWrites, EarlierWritersStay DEF WriteRow, Writing
    <3> QED BY <3>1, <3>2
  <2>5. Rendering(p)'
    BY <1>2, <1>7, <2>4, NextWriterRendering DEF WriteRow
  <2> QED BY <2>1, <2>5
<1>8. CASE WriteObjFails(p)
  <2>1. RememberedIsStored'
    BY <1>2, <1>8, WriteKeepsStored DEF WriteObjFails, Rendering, Writing
  <2>2. Rendering(p)'
    BY <1>2, <1>8, NextWriterRendering DEF WriteObjFails
  <2> QED BY <2>1, <2>2
<1>9. CASE WriteRowFails(p)
  <2>1. RememberedIsStored'
    BY <1>2, <1>9, WriteKeepsStored DEF WriteRowFails, Rendering, Writing
  <2>2. Rendering(p)'
    BY <1>2, <1>9, NextWriterRendering DEF WriteRowFails
  <2> QED BY <2>1, <2>2
<1>10. CASE Remember(p)
  <2> DEFINE job_c == JobCycle(p)
             job_f == JobFlaws(p)
  <2>1. job_c \in Cycles /\ job_f \in Flaws /\ job_f # None /\ job_f # Torn
    BY <1>10, JobFacts DEF Remember, Writing
  <2>2. memory[p] = file /\ HaveBoth(p, Places) /\ p \notin failing
    BY <1>2, <1>10 DEF Remember, Rendering
  <2>3. file' = Remembering(file, job_c, job_f) /\ memory'[p] = file'
    BY <1>10, <2>2 DEF Remember, TypeOK
  <2>4. ASSUME NEW c \in Cycles, file'[c] # None
        PROVE  file'[c] = IF c = job_c THEN job_f ELSE file[c]
    <3>1. file'[c] = [file EXCEPT ![job_c] = job_f][c]
      BY <2>3, <2>4 DEF Remembering
    <3> QED BY <2>1, <3>1 DEF TypeOK
  <2>5. RememberedIsStored'
    <3> SUFFICES ASSUME NEW c \in Cycles, file'[c] # None, NEW w \in Places
                 PROVE  AsGoodAs(rows[w][c], file'[c]) /\ AsGoodAs(objs[w][c], file'[c])
      BY <1>10 DEF Remember, RememberedIsStored
    <3>1. CASE c = job_c
      BY <2>1, <2>2, <2>4, <3>1, NotBetterThanItself DEF HaveBoth, AsGoodAs
    <3>2. CASE c # job_c
      BY <1>2, <2>4, <3>2 DEF RememberedIsStored
    <3> QED BY <3>1, <3>2
  <2>6. pc'[p] = "loaded" /\ place'[p] = 1 /\ p \notin failing'
    BY <1>10, <2>2 DEF Remember, TypeOK
  <2> QED BY <2>3, <2>5, <2>6 DEF Rendering, Writing
<1>11. CASE EndRun(p)
  BY <1>2, <1>11, ForgetRendering DEF EndRun, stores, RememberedIsStored
<1>12. CASE Crash(p)
  <2>1. pc[p] \in Writing /\ UNCHANGED file
    BY <1>12 DEF Crash, Writing
  <2>2. (LeaveObj(p) \/ UNCHANGED objs) /\ (LeaveRow(p) \/ UNCHANGED rows)
    BY <1>12 DEF Crash
  <2>3. Allowed(p)
    BY <1>2, <2>1 DEF Rendering
  <2>4. RememberedIsStored'
    BY <1>2, <2>1, <2>2, <2>3, WriteKeepsStored
  <2> QED BY <1>12, <2>4, ForgetRendering DEF Crash
<1> QED
  BY <1>4, <1>5, <1>6, <1>7, <1>8, <1>9, <1>10, <1>11, <1>12 DEF Step

LEMMA RememberedInit == Init => IInv
BY DEF Init, IInv, RememberedIsStored, Rendering, Writing, NothingYet

\* What one bridge remembers of a cycle is what every writer has, whatever
\* writes fail and wherever it dies, for any number of cycles and writers.
THEOREM RememberedIsStoredAlways ==
    ASSUME OneBridge PROVE Spec => []RememberedIsStored
<1>1. IInv => RememberedIsStored
  BY DEF IInv
<1>2. TypeOK /\ IInv /\ [Next]_vars => IInv'
  BY RememberedStep
<1> QED BY <1>1, <1>2, TypeInit, TypeStep, RememberedInit, PTL DEF Spec

-----------------------------------------------------------------------------
(* Render implements Shelf *)

\* One write at the place p has come to is a Put of the rows' shelf, and
LEMMA RowWriteIsPut ==
    ASSUME TypeOK, IInv, NEW p \in Procs, pc[p] \in Writing, LeaveRow(p), UNCHANGED file
    PROVE  RowShelf!Next
<1>1. Rendering(p) /\ RememberedIsStored
  BY DEF IInv
<1> DEFINE c == JobCycle(p)
           w == place[p]
<1>2. c \in Cycles /\ w \in Places
  BY JobFacts
<1>3. PICK left \in Leaves(p, rows[w][c]) : rows' = [rows EXCEPT ![w][c] = left]
  BY DEF LeaveRow
<1>4. left \in Stored
  BY <1>2, <1>3, LeavesType DEF TypeOK
<1>5. file[c] # None => AsGoodAs(left, file[c])
  BY <1>1, <1>2, <1>3, WritesAreGoodEnough DEF RememberedIsStored, Rendering
<1>6. RowShelf!Put(w, c, left)
  BY <1>3, <1>5 DEF RowShelf!Put
<1> QED BY <1>2, <1>4, <1>6 DEF RowShelf!Next

\* of the profiles' shelf;
LEMMA ObjWriteIsPut ==
    ASSUME TypeOK, IInv, NEW p \in Procs, pc[p] \in Writing, LeaveObj(p), UNCHANGED file
    PROVE  ObjShelf!Next
<1>1. Rendering(p) /\ RememberedIsStored
  BY DEF IInv
<1> DEFINE c == JobCycle(p)
           w == place[p]
<1>2. c \in Cycles /\ w \in Places
  BY JobFacts
<1>3. PICK left \in Leaves(p, objs[w][c]) : objs' = [objs EXCEPT ![w][c] = left]
  BY DEF LeaveObj
<1>4. left \in Stored
  BY <1>2, <1>3, LeavesType DEF TypeOK
<1>5. file[c] # None => AsGoodAs(left, file[c])
  BY <1>1, <1>2, <1>3, WritesAreGoodEnough DEF RememberedIsStored, Rendering
<1>6. ObjShelf!Put(w, c, left)
  BY <1>3, <1>5 DEF ObjShelf!Put
<1> QED BY <1>2, <1>4, <1>6 DEF ObjShelf!Next

\* and CollectedCycles.set is a Remember of both.
LEMMA RememberIsRemember ==
    ASSUME TypeOK, IInv, NEW p \in Procs, Remember(p)
    PROVE  RowShelf!Next /\ ObjShelf!Next
<1>1. Rendering(p) /\ pc[p] = "remember"
  BY DEF IInv, Remember
<1> DEFINE c == JobCycle(p)
           f == JobFlaws(p)
<1>2. c \in Cycles /\ f \in Flaws /\ f # None /\ f # Torn
  BY <1>1, JobFacts DEF Writing
<1>3. file' = Remembering(file, c, f) /\ HaveBoth(p, Places) /\ UNCHANGED <<rows, objs>>
  BY <1>1 DEF Remember, Rendering
<1>4. \A w \in Places : AsGoodAs(rows[w][c], f) /\ AsGoodAs(objs[w][c], f)
  BY <1>2, <1>3, NotBetterThanItself DEF HaveBoth, AsGoodAs
<1>5. file[c] # None => ~Better(file[c], f)
  BY <1>1 DEF Rendering, Allowed, Writing
<1>6. RowShelf!Remember(c, f)
  BY <1>3, <1>4, <1>5 DEF RowShelf!Remember, Remembering
<1>7. ObjShelf!Remember(c, f)
  BY <1>3, <1>4, <1>5 DEF ObjShelf!Remember, Remembering
<1> QED BY <1>2, <1>6, <1>7 DEF RowShelf!Next, ObjShelf!Next

LEMMA ShelfStep ==
    ASSUME TypeOK, IInv, [Next]_vars
    PROVE  /\ RowShelf!Next \/ UNCHANGED <<file, rows>>
           /\ ObjShelf!Next \/ UNCHANGED <<file, objs>>
<1>1. CASE UNCHANGED vars
  BY <1>1 DEF vars
<1> SUFFICES ASSUME NEW p \in Procs, Step(p) \/ Crash(p)
             PROVE  /\ RowShelf!Next \/ UNCHANGED <<file, rows>>
                    /\ ObjShelf!Next \/ UNCHANGED <<file, objs>>
  BY <1>1 DEF Next
<1>2. CASE Load(p) \/ EndRun(p) \/ \E c \in Cycles, f \in Flaws : StartRender(p, c, f)
  BY <1>2 DEF Load, EndRun, StartRender, stores
<1>3. CASE Remember(p)
  BY <1>3, RememberIsRemember
<1>4. CASE WriteObj(p) \/ WriteRow(p) \/ WriteObjFails(p) \/ WriteRowFails(p) \/ Crash(p)
  <2>1. pc[p] \in Writing /\ UNCHANGED file
    BY <1>4 DEF WriteObj, WriteRow, WriteObjFails, WriteRowFails, Crash, Writing
  <2>2. LeaveRow(p) \/ UNCHANGED rows
    BY <1>4, FinishedWrites DEF WriteObj, WriteRowFails, WriteObjFails, Crash
  <2>3. LeaveObj(p) \/ UNCHANGED objs
    BY <1>4, FinishedWrites DEF WriteRow, WriteRowFails, WriteObjFails, Crash
  <2> QED BY <2>1, <2>2, <2>3, RowWriteIsPut, ObjWriteIsPut
<1> QED BY <1>2, <1>3, <1>4 DEF Step

\* While one bridge renders a pump's captures, its rows and what it remembers
\* of them implement Shelf: rows only change to what is as good as what is
\* remembered, and that only to something no worse that every writer has.
THEOREM RowsImplementShelf == ASSUME OneBridge PROVE Spec => KeepsRowPromise
<1>1. Init => RowShelf!Init
  BY DEF Init, RowShelf!Init, NothingYet
<1>2. TypeOK /\ IInv /\ [Next]_vars => IInv'
  BY RememberedStep
<1>3. TypeOK /\ IInv /\ [Next]_vars => [RowShelf!Next]_(RowShelf!vars)
  BY ShelfStep DEF RowShelf!vars
<1> QED
  BY <1>1, <1>2, <1>3, TypeInit, TypeStep, RememberedInit, PTL
  DEF Spec, KeepsRowPromise, RowShelf!Spec

\* And so do its profiles.
THEOREM ObjsImplementShelf == ASSUME OneBridge PROVE Spec => KeepsObjPromise
<1>1. Init => ObjShelf!Init
  BY DEF Init, ObjShelf!Init, NothingYet
<1>2. TypeOK /\ IInv /\ [Next]_vars => IInv'
  BY RememberedStep
<1>3. TypeOK /\ IInv /\ [Next]_vars => [ObjShelf!Next]_(ObjShelf!vars)
  BY ShelfStep DEF ObjShelf!vars
<1> QED
  BY <1>1, <1>2, <1>3, TypeInit, TypeStep, RememberedInit, PTL
  DEF Spec, KeepsObjPromise, ObjShelf!Spec
=============================================================================
