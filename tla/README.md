# A specification of the pump bridge

This directory holds TLA+ models of the program in `src/`: a bridge that
collects dispense profiles from Entegris pumps behind a serial gateway (an NCS)
and stores them as files and in a cloud database. TLC checks the models on
small instances; TLAPS proves the theorems in the `*Proofs` modules for all of
them. `PROJECT.json` lists the runs, the lines each definition is about, the
hazards and the theorems.

## The system

One process, `py/bridge.py`, runs the pumps of a table, one after the other, a
bus at a time. For each pump that is due, `extract_pump` (`py/extract.py`)

1. reads who the pump is and stores it (`read_pump_info`, `write_pump`);
2. reads the newest cycle number and the *header*, everything the pump says of
   its most recent dispense (`py/pump_reader.py`);
3. goes through the newest three cycles. One that is remembered as clean is
   skipped. For the others it asks for the profile info, pulls every trace a
   chunk at a time (`py/profile_pull.py`), attaches the header if it describes
   this cycle, and stores the outcome (`py/render.py`): for each writer the
   profile object, then the dispense row; when every writer has both, the cycle
   and how clean it came out are remembered in a file of this machine
   (`CollectedCycles`, `py/file_writer.py`).

Every read goes through `paced` (a gap before each command, a long sleep after
a read timeout), `PumpClient.command` (which kind of failure a reply is) and
`NCSClient.transact` (one TCP connection per command).

Three parties act at their own time. The *pump* goes on dispensing while it is
read: its newest cycle moves on, its oldest profile goes, its status replies
change between two reads, some later than others. The *bus* flips bits, loses
replies and delivers some after their request has timed out. And
`python render.py` can render a saved capture while the bridge runs.

| Component | State | Operations | Hard because | Correct when |
|---|---|---|---|---|
| `profile_pull.py` | words, chunks, attempts, bad replies | ask, retry, repair, give up | late, damaged, short replies; the profile goes away | the words kept are the pump's, in place; every gap is told; it ends |
| `pump_reader.py`, `pump_structs.py`, `svid.py` | the values read, the problems | reads in a row, parsing by layout | the pump dispenses in between; short, late and refused replies | a value is read from where the pump put it; a part of another dispense never reaches a row; what is missing is told |
| `extract.py` | newest, the loop, the capture | collect or skip each cycle | the pump moves on; any step may raise | nothing left out, no cycles mixed, faults heal |
| `render.py`, `file_writer.py` | rows, objects, the memory of each cycle | compare, write, remember | writers fail one by one; crashes; a second process | a row has its profile; what is remembered is stored |
| `gcp_writer.py` | connection, caches, the tables | upsert, retry, reconnect | a commit whose answer is lost | one row per cycle |
| `bridge.py`, `pump_config.py` | when each pump is due | run what is due, sleep | long runs, the clock | no pump starves, none is run too often |
| `pump_client.py`, `ncs_client.py`, protocols | one connection | send, receive, classify | partial replies, timeouts | nothing damaged is taken for good; what is raised says what happened |
| `profile_decode.py`, `crc16.py`, `crc_repair.py`, the end of `render.py` | none | pure functions | edges of words; repairs that go wrong | decode inverts encode, one bit is found, a row without flaws has the pump's profile |
| `capture.py`, `comms_log.py`, `file_writer.py` | files | write, read back, swap in | errors and crashes between and inside files | what reads back is whole; what is stored can be rendered again |
| `util.py`, `units.py` | tables of constants | print, parse arguments | | not modelled |
| `cpp/`, `py/legacy/`, `mock/` | | | | an earlier client, past probes, a test double |

## The modules

### ProfilePull

One pull: `pull_profile`, `pull_trace`, `request_chunk`, `try_repair`, and
`paced` around each request. A word of a trace is the pair of the trace and its
index, so a word in the wrong place shows. `pc` is where the code is (`chunk` at
the head of `pull_trace`'s loop, `request` in `request_chunk`'s, `recovery` in
`paced`'s sleep, `repair` in `try_repair`); each outcome of a request is an
action: `GoodReply`, `Refused` (a return code), `Damaged` (seen by the gateway,
which is retried, or only by the client, which is not), `ReadTimeout`,
`GatewayError`, `NetworkFailure`.

A damaged reply carries what try_repair would make of it (`fix`). The frames
are shorter than the period of the CRC, so a reply with one flipped bit is
repaired by that bit alone; CRC-16 keeps parity, so one with two by none; one
with three by none, or by a bit that makes of it a frame the pump never sent.

`late` is a reply still on its way when its request timed out. Nothing in a
reply says which request it answers: if one were on the bus when the next
request is sent, it would be taken for its answer (`Answers`). The sleep after
a timeout, `WaitOut`, is what keeps that from happening; that it is long enough
is assumed, as the code does.

The pump may refuse at any time, send less than was asked for, nothing, or one
word too many, and drop the profile (`Evict`) at any point of the pull.

Checked: `WordsInPlace`, `TracesAccountedFor` and `PullEnds`, with two traces
of 3 and 1 words in chunks of up to 2, so that there is a full chunk, a short
last one and a trace in one chunk; 2 retries; and one to three flipped bits.
With three, only the mark `repaired` tells that the words may not be the
pump's.

### PumpClient

One `PumpClient.command` over one `NCSClient.transact`, with the gateway and the
bus as its environment: what happened on the bus (`event`: a frame, intact or
not, from the pump asked or from another one, with or without an error code; a
silence; a refusal; garbage), the gateway's answer to it, and how much of the
answer has arrived. `Recv` takes any part of what is there. Lengths are in units
of a few bytes, and the longest packet is a unit longer than an ordinary answer,
so that garbage can be as long as allowed and longer. `age` is how long the
current socket call has waited: `RecvTimeout` comes when it reaches
`SocketTimeout`, `timeout_ms` and the margin.

`prompt` is TRUE in behaviours where the network and the gateway are neither
slow nor broken: the way there and back takes less than the margin, and the
gateway gives up on a silent pump after `timeout_ms`. In those a command must
end with what happened on the bus (`HeardAsItHappened`). In all of them it ends
(`CommandEnds`), and what it returns is the reply of the pump that was asked
(`RepliesAreThePumps`). ProfilePull's outcomes of a request are these.

A timeout is one socket call's: a gateway that sends a byte before each runs out
can hold a command for as many timeouts as a packet has bytes. Nothing in the
code says it may not; `CommandEnds` only says that it ends.

### Reader, Layouts and Svids

`Layouts` has the fixed layouts of `pump_structs.py` as sequences of struct
codes, the places parsing by them takes the fields from that the reader uses,
and the check of their lengths at import (`TranscriptionAssumption`, which TLC
evaluates). Where the pump puts the same fields (`PumpPuts`) is counted in the
formats `mock_ncs.py` builds its replies from. `Svids` is the registry of
`svid.py` and its walk over a reply without tags, with a pump that pads strings
of odd length, or doesn't.

`Reader` is one of `read_pump_info`, `read_newest_cycle` and
`read_dispense_header`, request by request. A value is modelled by where it was
read: the request whose reply it was in, its place, and whether the pump had
dispensed since DISPENSE_INFO. A reply may have all of its layout, more, or end
before or inside any field; a read may fail (`ReadFails`), be refused for a
list (`UnknownSvid`, after which the SVIDs are read one by one, each to be answered or
noted by itself: the refusal's own note, `Refused`, does not stand for them), time out
(`TimesOut`) with the answer late, or end the read (`NetworkFails`).

Three things to know of what it shows:

* Where the pump pads, a string of odd length shifts every value of a list after
  it. `walk_reply` then has bytes left over, which `read_svids` doesn't look at.
  `KeptIsThePumps` is about lists without any left over. That nothing shifted
  goes unnoticed there is checked for strings of up to 2 bytes, as long as they
  need be for a length of either parity and none. For a pump that pads none of
  the strings asked for it is proved for all lengths.
* The pump answers a list of SVIDs with whole values, or fewer of them.
* `read_dispense_header` says that "each part that can't be tied to that same
  cycle is left out". `PartsAreTied` shows how far that is so. It holds of the
  volumes. The confirmation is kept also when its time and DISPENSE_INFO's are
  both missing, as None equals None. The recipe's title (`RecipeTitle`) is tied
  to nothing, and may be of a later dispense. It is read before the
  confirmation's time, or with it, and so `problems` says then that the SVIDs are
  for a different dispense time, unless both times are missing: `PartsAreTied`
  has this of the title, and fails if the title is asked for last. The header is
  dropped as a whole if the pump dispensed in the meantime (Extract).

### Crc, Decode, Table and TraceFrame

`Crc` has `crc16.py` and `crc_repair.py`, with bytes and words as sets of bits,
so that XOR is the symmetric difference. `Decode` is `decode`, a block or a
packed word of deltas at a step, with words of 16 bits. `Table` is what becomes
of a decoded trace: its column, signed and scaled by `TRACE_COLUMNS`, next to
the times (`profile_frame`), and what the dispense row says of it (the end of
`dispense_record`). `TraceFrame` joins them: the pump encodes a recording (as
`mock_ncs.py` does) into a frame, the bus flips bits of it, the frame is
received or repaired, its words are decoded, and the result becomes a column or
stays blank. `DecodeCapture` is `profile_decode.py` run on a saved capture,
which decodes a trace of which the last chunks are missing as well. What it does
with a missing file, an odd number of bytes or an unknown encoding is left out:
a capture that can be read back has all the files it lists, each whole (Files),
and those are of whole words; of an unknown encoding nothing is decoded.

Any one or two bits of a frame are flipped, and any three that are no further
apart than `Burst`. That is far enough for the shortest pattern of four bits
that the CRC cannot see (bits 0, 2, 15 and 16 of the generator), three of which
are repaired by flipping the fourth: the model does reach wrong repairs. Many of
them keep the trace's length, for example any in the value of a run, so the
length check that `decode_traces` calls the second check on every repaired trace
does not see those; what remains is that the row says `reconstructed`
(`ColumnsAreRecorded`, `RowIsHonest`).

A frame's bytes, a recording's blocks and a block's deltas have any number, and
what is computed from them is a recursive function of how many there were
(`Register`, `Effects`, `Joined`, `Lowered`), so that it can be proved about. The
constants say what the code's callers know: a recording has samples, its blocks
are no longer than their first words can say, and it fits into a frame
(`RecordingsAssumption`); no two bits of the longest frame change its CRC alike
(`EffectsAssumption`). The second is what the repair rests on. It holds while a
frame has fewer bits than the generator's period, 32767; the longest packet has
4096 bytes with its own header, so that no frame reaches it. TLC evaluates it for
the run's `MaxLen`.

A column's values are integers here, counted in the last decimal the column is
shown with: scaling is division and rounding to that decimal, and
`CsvIsRecorded` says that nothing of a sample is lost by it.

### Extract

Run after run of `extract_pump` for one pump that goes on dispensing. Each
value the pump gives is modelled by the cycle it describes, so the header is a
record of cycle numbers. A dispense begins (`Dispense`, from when DISPENSE_INFO
describes it) and ends with its profile recorded (`RecordProfile`); the sources
in `Lagging` may go on describing the dispense before. The three SVIDs come in
one reply, or, if the pump does not know one of them, one at a time.

A request for cycle 0 answers as the newest (`Answering`), and one for a cycle
no longer held is refused. The pull of a trace and the rendering are single
steps here: ProfilePull and Render have them in detail. While `trouble` lasts
any read may fail, any trace may come out blank or repaired, and any step may
end the run with an error; once it ends the faults stop.

Checked: `HeaderIsOfItsCycle`, `RunLeavesNothingOut`, `TracesAreOfTheirCycle`
with both sources lagging, a window and a retention of 3, as in the code, and
cycles 1 to 4, so that cycle 0 and its alias are asked for and the window slides
over what the pump dropped; and `Heals` under fairness.

A docstring says that each part of a header that cannot be tied to its dispense
is left out. The recipe title is not tied to it. It does no harm: the header is
dropped as a whole if the pump dispensed during the pull, and
`HeaderIsOfItsCycle` holds.

### Render and Shelf

`render` and `CollectedCycles` for one pump, any number of writers, and any
number of processes that render: the bridge, which skips what is remembered as
clean, and `python render.py`, which does not. A capture is its cycle and its
flaws (blank traces, and whether one of the others was reconstructed); what is
stored is the flaws of what was rendered, or `Torn`, half of a
file that was being overwritten. The bridge's file writer overwrites in place,
the cloud writer's row and object change in one step (`Overwriting`). A write
fails or dies having happened or not. `Crash` may come at any write.

`Shelf` is what storing promises: the quality remembered of a cycle never gets
worse until the cycle is forgotten, and copies only change to ones as good as
what is remembered. Render implements it twice, for rows and for profiles
(`KeepsRowPromise`, `KeepsObjPromise`).

### Files

The files behind the two modules above, step by step: a run saves the raw
capture of a cycle (`WriteRaw`: `info.json`, each trace's words and the bad
replies kept of it, and `capture.json`, which lists them, last), stores its row,
swaps in the memory (`SetCollected`, a temporary file and a rename) and at its
end writes its comms log (`WriteLog`). `render.py` reads a capture back and
stores its row again. A file is open from its truncation (`OpenFile`) until all
of it is written (`CloseFile`); any step may fail, after which the log is still
written as the `finally` has it, or be the process's last (`Crash`).

A file is what its content is of (a capture by its cycle and run) and whether it
is whole. A text file that is not whole does not load; a binary one does, with
what it has.

`MemoryLoads` has an exception, `shared`: `set` gives the temporary file the
same name in every process. If `render.py` opens it after the bridge has and
before the bridge swaps it in, the bridge swaps in what `render.py` has just
truncated. Should `render.py` then die, the memory file doesn't load, and
`CollectedCycles` fails in every later run of this pump until the file is
deleted by hand.

The directories of captures and logs are named by the time of the run, and no
two runs have the same. Losing what was written before a power cut is not
modelled (nothing is synced). A row's own content is Render's; here a row says
what capture it is of.

### GcpWriter

The profiles and rows of one pump in the cloud, and what `GCPDBWriter` does to
them: the object first (`WriteObj`), then the row. Every row is one transaction
on the writer's connection, tried again on a new connection when it was lost.
`orphans` are the transactions left behind on lost connections. They keep their
locks until the database notices, and one whose COMMIT was already on the way
may still be done (`Resolve`). `database` says whether `dispense` has the unique
key that `ON CONFLICT` needs, which the writer looks up, and whether a lost
transaction is settled before the next attempt. Without the key a row is written
by `UPDATE`, then `INSERT` if there was nothing to update. Any other error is
rolled back and ends the run (`StatementFails`). `Delete` is
`gcp_writer.py --delete`, run beside the bridge: its rows go in one transaction,
then the objects are listed (`ListObjects`) and deleted one by one. Those a
bridge has uploaded in the meantime go with them, which `AckedIsStored` allows
(`swept`).

After a `--delete` the pump gets a new id, and the bridge goes on with the one
it has cached. Whether its rows are then refused or end up under the old id
depends on a foreign key that this repository does not show, so no property is
about it.

### Bridge

The main loop over the table of pumps. Times are kept relative to the clock and
cut off at the longest frequency, beyond which they make no difference, so that
nothing bounds the clock. A round takes any time, `Tick` being enabled
everywhere. A pump is due a frequency after the *round* it was last in began,
not after it was itself started: within one long round it may be started late,
and early in the next. `NotTooOften` is about rounds for that reason.

A run's directory is named by whole seconds, so that two rounds within one
second, possible when collections fail at once and pumps are overdue, share a
directory and its `run.json`. An empty table makes `min` fail. Neither is in the
model.

## What the runs show

| Run | Shows | Bounds | States |
|---|---|---|---|
| `pull` | words in place, every trace accounted for, the pull ends | 2 traces, 3 and 1 words, chunks of 2, 2 retries, 1 to 3 flips | 223 234 |
| `reader` | what is kept is read from where the pump put it, what of a header may be of another dispense and when that is told, what is missing is told | 3 of the name SVIDs, strings of 0 to 2 bytes, padded or not, both serial numbers there or empty | 274 236 |
| `client` | a command ends, returns only its pump's replies, and on a prompt network tells what happened | answers of up to 4 units, packets of up to 5, garbage of 6; timeout and margin of 2 ticks | 56 707 |
| `trace` | one flipped bit is mended, two never reach a column, a column is what was recorded, in the CSV too, and the row doesn't hide what is not; the table is the CRC's | frames of 10 to 20 bytes, 1 or 2 flips anywhere, 3 within 14 bits, cut after any word; a signed, an unsigned and a plain column | 263 937 |
| `render` | what is remembered is stored at every writer, no row without its profile; rows and profiles implement Shelf | 2 writers, 2 cycles of which 1 is kept, 1 trace | 797 159 |
| `files` | what reads back is whole, what is stored can be rendered again, the memory loads | 1 cycle, 2 traces, 1 bad reply, 2 runs of the bridge and a re-render, with `--save` 0 and 2 | 1 208 103 |
| `extract` | no header of another cycle, nothing left out, no cycles mixed; after the faults every held cycle ends up clean | 3 cycles asked for and held, cycles to 4, 1 trace | 1 314 952 |
| `gcp` | a cycle has one row, what was acknowledged stays stored with its profile, rows come through | 1 cycle, 2 versions of its row, 2 retries, 2 pump ids; a unique key, or lost transactions settled first | 54 908 |
| `bridge` | no pump too often, none starved, each again and again | 3 pumps on 2 buses, frequencies of 1, 2 and 3 | 2 801 |
| `render_clean` (violated) | a clean row that is not in the memory a render goes by is replaced by a worse one | 1 writer, 2 processes | |
| `gcp_lost` (violated) | without the key, a commit still on its way makes two rows | as `gcp`, neither key nor settling | |
| `bridge_log` (violated) | an error in one pump's log stops the pumps after it | as `bridge` | |

The bounds are small, and enough for what can go wrong: two traces and two
chunks for a word to end up in the wrong one; two writers for one to fail and
the other not; two processes for one to be behind the other; two runs for one to
find what the other left; a window as long as the code's, and one cycle more
than it, for it to slide; three pumps for one to be overtaken, two of them
sharing a bus out of order; a retry after a retry. Bounds on counters
(`MaxCycle`, `MaxRetries`, `MaxId`, `Retries`, `Burst`, `MaxRuns`, `Exchanges`)
and on what comes to be rendered (`Captures`) are constants of the modules.

Deadlock is checked in every run but `files`, where all of the runs there may be
are over in the end.

### The three violations

* `render_clean`: a comment of `render` promises that a clean result is never
  replaced by a worse one, going by what is remembered, and the notes promise
  that a clean collection is never replaced by a worse one. A cycle is only
  remembered after all writers are done, so that a clean row can be there without
  being remembered, after an error or a crash; and what is remembered is read
  once, when a run begins, so that with two processes it can be out of date.
* `gcp_lost`: a comment of `write_row` says that the upsert makes sending a row
  again safe, and `update_or_insert` that it is safe with one bridge. Without
  the unique key it is neither, if the first attempt's commit is done after the
  second attempt's UPDATE found nothing.
* `bridge_log`: `extract_pump` means to let nothing stop the pumps after it, but
  writes its log in a `finally`, outside of what it catches.

## Fairness

* `PullEnds`: weak fairness of the pull's own steps. Each request ends, at the
  latest by the socket's timeout (`CommandEnds`), and each sleep ends.
* `CommandEnds`: of the client's steps and of time. Nothing is assumed of the
  gateway, but in the behaviours that are `prompt`.
* `Heals`: of the run's steps; the bridge runs the pump again and again. It is
  about behaviours where faults have stopped and the pump rests; nothing says
  that they do.
* `WritesComeThrough`: of the writer's steps, for the same reason, and that the
  database in the end resolves a transaction whose connection is gone.
* `CollectedAgain`: of the loop and of time: a collection ends, all its requests
  having timeouts.

The safety properties need none of this. Nothing in Render needs fairness; its
specification states it of a process that has begun. Reader and Files state
none: a read has no more requests than its plan and the SVIDs of its list, and
each of them ends as above.

## What is proved

`ProfilePullProofs` proves for any traces, sizes, chunk size and number of
retries:

* `TypeCorrect`: types, with the bound on attempts and on the words asked for.
* `WordsInPlaceAlways`: the words kept are the pump's own, in order from the
  first. The words alone say nothing of the next ones; the invariant `IInv`
  adds that the next word asked for is the one after those kept, that the
  traces to come have none yet, that a late reply is there only during the
  recovery sleep, and that every bad reply kept, once its damage is undone,
  answers the open chunk. Two lemmas about slices carry the arithmetic.
* `TracesAccountedForAlways`: a trace that was left has a failed chunk or
  nothing missing, and a chunk only fails while words are missing (`AllTold`).

`ExtractProofs` proves for any number of cycles asked for, any retention, any
traces and any sources that lag:

* `TypeCorrect`, with no trace of a capture counted blank twice.
* `HeaderIsOfItsCycleAlways`: a part that doesn't say what it describes was read
  after DISPENSE_INFO, so that its dispense lies between the header's and the
  newest (`Since`). When the two are the same cycle again, so is the part.
* `TracesAreOfTheirCycleAlways`: cycle 0 is never pulled, as the pump has always
  dispensed more.
* `RunLeavesNothingOutAlways`: the loop has settled all it has come past
  (`Past`), and what the pump no longer holds it never holds again.

`RenderProofs` proves for any number of writers, cycles and processes:

* `TypeCorrect` and `RowHasProfileAlways`: the latter because a process that is
  to write a row has just written the profile at that writer, and no step takes
  a profile away.
* for a single process (`OneBridge`): `RememberedIsStoredAlways`, and that
  Render implements Shelf, `RowsImplementShelf` and `ObjsImplementShelf`. The
  invariant says that what a process has in memory is what the file has, that
  what it is writing is allowed by it, and that the writers before the one it
  has come to have both parts if none has failed.

`GcpWriterProofs` proves for any number of attempts, cycles, versions and ids:

* `TypeCorrect`, with `Orderly`: what is at hand in each place of the code.
* `OneRowAlways`, assuming that every database has the unique key or settles a
  lost transaction before the next attempt (`SafeDatabases`). At most one
  transaction is then under way for a row that has no key to go by, it only
  inserts where nothing is, and nothing lost can still do it later (`RowInv`).
* `AckedIsStoredAlways`, on the same assumption: only `--delete` takes a row
  that was acknowledged, and its objects only after that (`Acknowledged`).

`BridgeProofs` proves for any table of pumps, buses and frequencies, and
however long rounds take:

* `TypeCorrect`, with `Rounds`: a round's pumps are only there while it lasts.
* `NotTooOftenAlways`: the wait that is left of a pump and the time since its
  last round began are together never less than its frequency (`DueInTime`);
  while a round lasts, at least as much time has passed since it took the pump
  in as the schedule will take off its frequency.
* `NoneStarvedAlways`: another pump can be started once in the round in which
  this one became due, and once in the next, which has this one too (`InTurn`).

`ReplyProofs` proves of a command (`PumpClient`), for any lengths of answers and
packets and for any timeouts:

* `TypeCorrect`: types, and that an answer is never read further than one past
  the largest packet.
* `RepliesAreThePumpsAlways`: what a command returns is the whole reply of the
  pump it asked. The invariant `Answered` ties the gateway's answer to what
  happened on the bus, has nothing received before that, and no outcome before
  the end.
* `HeardAsItHappenedAlways`: on a prompt network the socket has waited no longer
  than the way and the pump have taken (`OnTime`), so that its timeout comes
  only if the answer doesn't, and only a whole answer is parsed.

And of a trace (`TraceFrame`), for any recordings in any blocks, any frame
length, address, trigger, interval and distance between flipped bits:

* `TraceTypeCorrect`: types; whatever the words, never more samples than the
  profile has, and nothing read past the words.
* `CrcAsDefinedAlways`: the table takes the register where eight shifts of the
  generator take it. After each shift the register is as if the table's word of
  the bits shifted out had been added to it.
* `OneFlipMendedAlways`: the register is linear, so a flip changes a frame's CRC
  by an effect that only its place has a say in; the effects differ
  (`EffectsAssumption`), so one flipped bit is the only one found. Every effect
  has an odd number of bits, as the generator has x + 1 for a factor: two flips
  make an even change, which is no one bit's and not none, and three an odd one,
  which is not none.
* `ColumnsAreRecordedAlways`: so a frame passes only if it is as it was sent, and
  a repair leaves the recording's words or had three flips before it
  (`FrameByFlips`, `AsSent`). From the recording's words, all or the first ones,
  the decoder always has what the blocks behind it recorded and stands at the
  next block or in a delta block at its next word (`Tracked`), whatever kinds of
  blocks follow one another; as long as the profile, it is the recording.
* `CsvIsRecordedAlways`: each of the columns has the decimals that its scale
  needs, so the rounded value times the scale is the word as its column reads it.
* `RowIsHonestAlways`: a row without flaws is of a trace that was not repaired and
  not refused, which then is the recording; it says `reconstructed` only where a
  repaired bit is in a column (`Judged`, `Tabled`).

The six follow from one inductive invariant, `TraceInv`, which was checked with TLC
on the run's instance before it was proved. That recursive functions exist and what holds of them at each
number is proved from the naturals' induction once, and cited from there on.

`FilesProofs` proves for any cycles, profile, bad replies kept for diagnosis and
number of requests, and any number of runs of the bridge and of `render.py`:

* `TypeCorrect`, with what a process has open.
* `ReadBackIsTakenAlways`: of each list of files, a capture's or a log's, those
  listed are whole before the file that lists them is there, and none of them is
  written again (`Ordered`). No two lists have a path in common, a run having
  its own directory. That each file listed is among those written before is read
  off the way `WriteRaw` and `WriteLog` put their lists together; the elements
  of `FlattenSeq` and `SetToSeq` are found by induction over the naturals.
* `StoredCanBeRerenderedAlways`: with `--save`, the capture of what a row or the
  memory is of is whole, or comes before it in what the process still has to do
  (`Kept`). A row says nothing of its own capture; the invariant follows the
  capture through what is still to be done (`Phases`, `Stored`).
* `MemoryLoadsAlways`: unless `shared`, one process at a time has the temporary
  file, and what it swaps in is whole (`Swaps`).

`ReaderProofs` proves for any SVIDs of names, lengths of strings and serial
numbers:

* `TypeCorrect`, and that a reply is late only while it is waited for.
* `KeptIsThePumpsAlways`: a struct's fields were read from the reply to their own
  command, from where the pump put them, always; and so was each SVID, alone or
  in a list, of a pump that pads none of the task's strings (`NoneShifted`). The
  layouts' offsets and the walk over a reply recur on a position, and are
  followed by induction over the naturals.
* `PartsAreTiedAlways`: the pump's next dispense counts from when DISPENSE_INFO
  was read (`MovedSinceRead`), and neither the title nor the percentage is read
  after the time that confirms it (`BeforeTime`). The title itself may be of
  another dispense; the theorem has when, and that it is told.
* `MissingIsToldAlways`: `InTurn` says how far a read is in its plan, or in the
  list that is read one by one after a refusal, and that each request behind it
  has its answer or its note, each SVID its own.

The proofs use the constants' assumptions (`TracesAssumption`,
`SizesAssumption`, `ExtractAssumption`, `StoreAssumption`, `GcpAssumption`,
`TableAssumption`, `LengthsAssumption`, `FilesAssumption`, `ReaderAssumption`,
`NoneAssumption`, `MaxLenAssumption`, `EffectsAssumption`,
`RecordingsAssumption`, `TraceAssumption`, `NothingAssumption`, and
`TranscriptionAssumption`, which has no constant in it but
the layouts' own lengths), which TLC evaluates in each run, as it does those of
the other modules. `OneBridge`, `SafeDatabases` and `NoneShifted` are not
assumptions of a module but hypotheses of the theorems that need them:
`render_clean` and `gcp_lost` show what happens without the first two, and
without the third a shifted list can only be told by the bytes it leaves over.
No run has `RowHasProfile` with two processes: the theorem covers any number.

Only model-checked:

* `PullEnds`, `CommandEnds`, `Heals`, `WritesComeThrough` and `CollectedAgain`:
  temporal reasoning under fairness is out of this prover's reach.
* `EffectsAssumption` itself: that the CRC's generator has a period of 32767 is
  arithmetic over as many words, which no prover here does. TLC evaluates it for
  the run's frames, and the proofs have it as a hypothesis.
* `KeptIsThePumps` for a list in which the pump pads a string. Whether a shift
  leaves bytes over depends on which SVIDs follow the string and on their
  lengths, which the walk then reads from the wrong places; no such claim is made
  for lengths that were not checked.

## Not modelled

* `util.py`, `units.py` and everything that is printed; unit factors.
* Reading the table of pumps and the command lines. Extract and Bridge have what
  follows from them as constants.
* The bytes of a request (`build_frame`, the requests' layouts): the models have
  what is asked for. The layouts of the alarms and of the utility status, and
  the questions `ncs_client.py` has for the gateway itself, whose replies the
  bridge does not use.
* `gcp_writer.py` run by itself, which tries out the database and the bucket and
  rolls its rows back, and its `--show`; and what the writer caches of the
  columns' types and keys, which are constants here.
* Power loss: nothing is synced, and the models' crashes are of a process.
* `cpp/`, an earlier client with the same framing; `py/legacy/`, whose scripts
  exit when they are imported (`deprecated()`); `mock/`, a test double.

What the models assume of pump and gateway (cycle 0 as an alias, retention, a
refusal of what is not held, the damaged reply behind a gateway's CRC error) is
what `mock/mock_ncs.py` and the notes in `Docs/` say.

## Plan

Done, in this order: ProfilePull, Render and Shelf with their proofs, Extract,
GcpWriter, Bridge, PumpClient, and Crc, Decode and TraceFrame; then Reader with
Layouts and Svids, Files, Table, the cloud writer's objects, and the proofs of
GcpWriter, Extract, `TracesAccountedFor`, `NoneStarved` and
`HeardAsItHappened`; then the proofs of Files, of Reader and of TraceFrame. Left:

1. An abstract pull, of which trace is whole and which is blank, that
   ProfilePull implements and Extract uses in place of its single step.
2. The table of pumps as it is read, with the bridge's checks of it;
   `build_frame` and the commands that the client lets through.
3. The C++ client.
