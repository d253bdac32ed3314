-------------------------------- MODULE Files --------------------------------
(***************************************************************************)
(* capture.py, comms_log.py and file_writer.py: the files of one pump, step  *)
(* by step. A run of the bridge saves each cycle's raw capture, then its     *)
(* row, then remembers the cycle, and at last writes its comms log; render.py *)
(* reads a capture back and stores its row again. A file that is being       *)
(* written is open from its truncation until it is closed; a process can     *)
(* fail (OSError) or die at any step.                                        *)
(***************************************************************************)
EXTENDS Integers, Sequences, SequencesExt

CONSTANTS
    Bridge, Tool,   \* bridge.py, and render.py by hand
    Cycles,
    Traces,         \* the traces of a profile, in order
    BadReplies,     \* replies kept for diagnosis, <<trace, start, attempt>>
    Exchanges,      \* bound: how many requests a run sends
    Saves,          \* which --save its runs may have
    MaxRuns,        \* bound: how many runs each of the two makes
    None

Procs == {Bridge, Tool}
SAVE_CAPTURE == 1
SAVE_COMMS == 2

ASSUME FilesAssumption ==
    /\ Bridge # Tool
    /\ Cycles \subseteq Nat
    /\ Traces \in Seq(Nat)
    /\ IsFiniteSet(BadReplies)
    /\ BadReplies \subseteq ToSet(Traces) \X Nat \X Nat
    /\ Exchanges \in Nat /\ MaxRuns \in [Procs -> Nat] /\ Saves \subseteq 0..2

VARIABLES
    disk,       \* path -> what the file holds, and whether it is whole
    open,       \* the path each process has a file open for writing at, or None
    todo,       \* what each process has still to do to the disk, in order
    memory,     \* its CollectedCycles.cycles: cycle -> the run it is from
    runs,       \* how many runs each has begun
    save,       \* options.save of the bridge's runs, by number
    taken,      \* history: directory -> the capture that was taken
    shared      \* history: whether two had the temporary file at one time

work == <<open, todo>>
vars == <<disk, work, memory, runs, save, taken, shared>>

-----------------------------------------------------------------------------
(* Paths, and how a list of files is written *)

CaptureDir(c, run) == <<"captures", c, run>>
CommsDir(run) == <<"comms", run>>
InfoFile(dir) == Append(dir, "info")
CaptureFile(dir) == Append(dir, "capture")
TraceFile(dir, t) == dir \o <<"trace", t>>
BadFile(dir, bad) == dir \o <<"bad">> \o bad
IndexFile(dir) == Append(dir, "index")
ExchangeFile(dir, i, part) == dir \o <<part, i>>
RowPath(c) == <<"row", c>>
Collected == <<"collected">>
Temp == <<"collected", "tmp">>

ASSUME NoneAssumption == None \notin {Collected, Temp} \union [Cycles -> Nat \union {None}]

\* f with x mapped to y
Put(f, x, y) == [z \in DOMAIN f \union {x} |-> IF z = x THEN y ELSE f[z]]

Exists(path) == path \in DOMAIN disk
Write(path, content) == [path |-> path, content |-> content]
Swap == [path |-> Collected, content |-> None]      \* os.replace

\* what json.load or read gives of a file: binary files have no end of their own
Loads(path) == Exists(path) /\ disk[path].whole

-----------------------------------------------------------------------------
(* Capture.write_raw and read_raw *)

\* (mutant of WriteRaw: the list of the files before the files)
WriteRawListFirst(capture) ==
    LET dir == CaptureDir(capture.cycle, capture.run)
    IN  <<Write(CaptureFile(dir), capture), Write(InfoFile(dir), capture.run)>>
        \o FlattenSeq([k \in DOMAIN Traces |->
              <<Write(TraceFile(dir, Traces[k]), capture.run)>>
              \o SetToSeq({Write(BadFile(dir, bad), capture.run) :
                              bad \in {b \in capture.bad : b[1] = Traces[k]}})])

WriteRaw(capture) ==
    LET dir == CaptureDir(capture.cycle, capture.run)
    IN  <<Write(InfoFile(dir), capture.run)>>
        \o FlattenSeq([k \in DOMAIN Traces |->
              <<Write(TraceFile(dir, Traces[k]), capture.run)>>
              \o SetToSeq({Write(BadFile(dir, bad), capture.run) :
                              bad \in {b \in capture.bad : b[1] = Traces[k]}})])
        \o <<Write(CaptureFile(dir), capture)>>

\* the files that capture.json says there are
Named(dir) ==
    {TraceFile(dir, Traces[k]) : k \in DOMAIN Traces}
        \union {BadFile(dir, bad) : bad \in disk[CaptureFile(dir)].content.bad}

Reads(dir) ==
    /\ Loads(CaptureFile(dir)) /\ Loads(InfoFile(dir))
    /\ \A path \in Named(dir) : Exists(path)

\* The capture read back: with whatever is in its binary files.
ReadRaw(dir) ==
    [listed |-> disk[CaptureFile(dir)].content,
     data |-> {disk[path] : path \in Named(dir) \union {InfoFile(dir)}}]

AsTaken(capture) ==
    [listed |-> capture, data |-> {[content |-> capture.run, whole |-> TRUE]}]

-----------------------------------------------------------------------------
(* CollectedCycles.set, render and CommsLog.write as what they do to the disk *)

\* (mutant of SetCollected: overwritten in place)
SetCollectedInPlace(cycles) == <<Write(Collected, cycles)>>

SetCollected(cycles) == <<Write(Temp, cycles), Swap>>

\* the row, then the memory of it, unless one more cleanly collected is
\* remembered (see Render)
RenderCapture(cycles, capture) ==
    {<<>>, <<Write(RowPath(capture.cycle), capture)>>
              \o SetCollected([cycles EXCEPT ![capture.cycle] = capture.run])}

WriteLog(run) ==
    LET dir == CommsDir(run)
    IN  FlattenSeq([i \in 1..Exchanges |->
              <<Write(ExchangeFile(dir, i, "req"), run), Write(ExchangeFile(dir, i, "resp"), run)>>])
        \o <<Write(IndexFile(dir), Exchanges)>>

-----------------------------------------------------------------------------
NothingYet == [c \in Cycles |-> None]

Init ==
    /\ disk = <<>>
    /\ open = [p \in Procs |-> None]
    /\ todo = [p \in Procs |-> <<>>]
    /\ memory = [p \in Procs |-> None]
    /\ runs = [p \in Procs |-> 0]
    /\ save = <<>>
    /\ taken = <<>>
    /\ shared = FALSE

Running(p) == memory[p] # None

\* the comms log, in a finally
Log(run) == IF save[run] >= SAVE_COMMS THEN WriteLog(run) ELSE <<>>
InLog == todo[Bridge] # <<>> /\ Last(todo[Bridge]).path = IndexFile(CommsDir(runs[Bridge]))

\* CollectedCycles.__init__: a file that doesn't load ends the run here,
\* before anything of what follows is written
LoadCollected == IF Exists(Collected) THEN disk[Collected].content ELSE NothingYet
Loadable == Exists(Collected) => Loads(Collected)

StartRun(s) ==
    /\ ~Running(Bridge) /\ todo[Bridge] = <<>> /\ runs[Bridge] < MaxRuns[Bridge]
    /\ runs' = [runs EXCEPT ![Bridge] = @ + 1]
    /\ save' = Append(save, s)
    /\ Loadable
    /\ memory' = [memory EXCEPT ![Bridge] = LoadCollected]
    /\ UNCHANGED <<disk, work, taken, shared>>

\* (mutant of SaveThenRender: the other way round)
RenderThenSave(raw, stored) == stored \o raw

SaveThenRender(raw, stored) == raw \o stored

\* extract_pump's loop: each cycle once, the newest first
Collect(c, bad) ==
    LET run == runs[Bridge]
        capture == [cycle |-> c, run |-> run, bad |-> bad]
        raw == IF save[run] >= SAVE_CAPTURE THEN WriteRaw(capture) ELSE <<>>
    IN  /\ Running(Bridge) /\ todo[Bridge] = <<>>
        /\ \A d \in Cycles : <<"captures", d, run>> \in DOMAIN taken => c < d
        /\ \E stored \in RenderCapture(memory[Bridge], capture) :
              todo' = [todo EXCEPT ![Bridge] = SaveThenRender(raw, stored)]
        /\ taken' = Put(taken, CaptureDir(c, run), capture)
        /\ UNCHANGED <<disk, open, memory, runs, save, shared>>

\* render.py: main, with a capture that reads
Rerender(c, run) ==
    /\ ~Running(Tool) /\ todo[Tool] = <<>> /\ runs[Tool] < MaxRuns[Tool]
    /\ Reads(CaptureDir(c, run)) /\ Loadable
    /\ runs' = [runs EXCEPT ![Tool] = @ + 1]
    /\ memory' = [memory EXCEPT ![Tool] = LoadCollected]
    /\ \E stored \in RenderCapture(LoadCollected, ReadRaw(CaptureDir(c, run)).listed) :
          todo' = [todo EXCEPT ![Tool] = stored]
    /\ UNCHANGED <<disk, open, save, taken, shared>>

Busy(p) == todo[p] # <<>>
Now(p) == Head(todo[p])

\* open(path, "w") truncates
OpenFile(p) ==
    /\ Busy(p) /\ open[p] = None /\ Now(p) # Swap
    /\ disk' = Put(disk, Now(p).path, [content |-> None, whole |-> FALSE])
    /\ open' = [open EXCEPT ![p] = Now(p).path]
    /\ shared' = (shared \/ \E q \in Procs \ {p} :
                     Now(p).path = Temp /\ Busy(q) /\ (open[q] = Temp \/ Now(q) = Swap))
    /\ UNCHANGED <<todo, memory, runs, save, taken>>

\* All is written when the file is closed; over what another process has
\* written there in the meantime, of which the end may remain.
CloseFile(p) ==
    /\ open[p] # None
    /\ \E whole \in {TRUE, disk[open[p]].content = None} :
          disk' = Put(disk, open[p], [content |-> Now(p).content, whole |-> whole])
    /\ memory' = IF Now(p).path = Temp THEN [memory EXCEPT ![p] = Now(p).content] ELSE memory
    /\ open' = [open EXCEPT ![p] = None]
    /\ todo' = [todo EXCEPT ![p] = Tail(@)]
    /\ UNCHANGED <<runs, save, taken, shared>>

\* os.replace: a file that is open stays open under its new name
SwapIn(p) ==
    /\ Busy(p) /\ Now(p) = Swap /\ Exists(Temp)
    /\ disk' = [path \in (DOMAIN disk \ {Temp}) \union {Collected} |->
                  IF path = Collected THEN disk[Temp] ELSE disk[path]]
    /\ open' = [q \in Procs |-> IF open[q] = Temp THEN Collected ELSE open[q]]
    /\ todo' = [todo EXCEPT ![p] = Tail(@)]
    /\ UNCHANGED <<memory, runs, save, taken, shared>>

\* the process is left with nothing in memory and these still to write
Leave(p, rest) ==
    /\ open' = [open EXCEPT ![p] = None]
    /\ todo' = [todo EXCEPT ![p] = rest]
    /\ memory' = [memory EXCEPT ![p] = None]
    /\ UNCHANGED <<disk, runs, save, taken, shared>>

\* The loop is over, or what was collected next failed.
EndRun(p) ==
    /\ Running(p) /\ ~Busy(p)
    /\ Leave(p, IF p = Bridge THEN Log(runs[p]) ELSE <<>>)

\* (mutant of Fails: the file stays open)
FailsStillOpen(p) ==
    /\ Busy(p)
    /\ todo' = [todo EXCEPT ![p] = <<>>]
    /\ UNCHANGED <<disk, open, memory, runs, save, taken, shared>>

\* An OSError from any of it ends the run, and then the log is written.
Fails(p) ==
    /\ Busy(p)
    /\ Leave(p, IF p = Bridge /\ ~InLog THEN Log(runs[p]) ELSE <<>>)

Crash(p) ==
    /\ Running(p) \/ Busy(p)
    /\ Leave(p, <<>>)

Step(p) == OpenFile(p) \/ CloseFile(p) \/ SwapIn(p) \/ EndRun(p) \/ Fails(p)

Next ==
    \/ \E s \in Saves : StartRun(s)
    \/ \E c \in Cycles, bad \in SUBSET BadReplies : Collect(c, bad)
    \/ \E dir \in DOMAIN taken : Rerender(dir[2], dir[3])
    \/ \E p \in Procs : Step(p) \/ Crash(p)

Spec == Init /\ [][Next]_vars

-----------------------------------------------------------------------------
(* Properties *)

\* Every variable has its type, and a file that a process has open is the one
\* it is writing, or the memory file if its temporary one was swapped in.
TypeOK ==
    /\ \A path \in DOMAIN disk : disk[path].whole \in BOOLEAN
    /\ \A p \in Procs : open[p] # None =>
          /\ Busy(p) /\ Exists(open[p])
          /\ open[p] = Now(p).path \/ (Now(p).path = Temp /\ open[p] = Collected)
    /\ memory \in [Procs -> [Cycles -> 1..MaxRuns[Bridge] \union {None}] \union {None}]
    /\ \A p \in Procs : runs[p] \in 0..MaxRuns[p]
    /\ Len(save) = runs[Bridge]
    /\ shared \in BOOLEAN

InHand(dir) == Reads(dir) /\ ReadRaw(dir) = AsTaken(taken[dir])

\* A capture that reads back (capture.py) is the one taken, whole, with every
\* reply kept for diagnosis, whenever the process that wrote it failed or died.
\* A comms log, too, lists only exchanges whose files are there, whole.
ReadBackIsTaken ==
    /\ \A dir \in DOMAIN taken : Reads(dir) => InHand(dir)
    /\ \A run \in 1..runs[Bridge] : Loads(IndexFile(CommsDir(run))) =>
          \A i \in 1..Exchanges, part \in {"req", "resp"} :
              Loads(ExchangeFile(CommsDir(run), i, part))

\* With --save, whatever has a row or is remembered can be rendered again: its
\* capture is on disk and reads back (extract.py saves it first).
StoredCanBeRerendered ==
    \A c \in Cycles :
        /\ Loads(RowPath(c)) =>
              LET capture == disk[RowPath(c)].content
              IN  save[capture.run] >= SAVE_CAPTURE => InHand(CaptureDir(c, capture.run))
        /\ Loads(Collected) /\ disk[Collected].content[c] # None =>
              LET run == disk[Collected].content[c]
              IN  save[run] >= SAVE_CAPTURE => InHand(CaptureDir(c, run))

\* "a crash mid write can't leave a file that breaks every later run"
\* (file_writer.py), as long as no two processes have the temporary file
\* between its opening and its swap at one time. If they do, it can.
MemoryLoads == Loadable \/ shared
=============================================================================
