# RDKLink: TLA+ models, checks and proofs

RDKLink lets a developer's machine (GUI, CLI, an MCP client such as Codex) work
with an RDK X5 board: push a project, run processes, use serial ports.  This
directory holds TLA+ modules of the program's concurrent core, the TLC
configurations that check them, and TLAPS proofs of the most important results.
Line numbers refer to `rdklink/` unless another path is given.

## 1. Inventory

```
GUI / CLI / MCP server --(JSON lines)--> service (Windows) --(JSON lines)--> agent (board)
        ServiceClient     service_server.py + service.py         agent.py
                                                             |- file branches of handle
                                                             |- process supervisor
                                                             `- serial log <- SerialBroker
```

The service and the agent are asyncio servers; each request runs on a worker
thread (`asyncio.to_thread`), so requests of different connections interleave at
every lock boundary.  The agent adds a reader thread per serial connection and
two readers and a watcher per process.

| Component | State | Operations | What is hard | What makes it correct |
|---|---|---|---|---|
| Serial port buffer (`serial_broker.py` 20-47) | deque of records, byte count | append, snapshot | two bounds at once | latest records kept, in order |
| Serial broker (`serial_broker.py` 71-297) | `_sessions`, `_connections`, a SerialSession and a reader thread per connection, raw buffers | open, close, write, `_reader`, `_emit` | physical I/O, stop flags and the callback run outside of `_lock`; late cleanup of an old session | one configuration per leased port, no leaked connection, no lost or doubled record |
| Serial log and reads (`agent.py` 111-158, 326-377) | `serial_buffers`, `serial_sequences`, `_serial_condition` | `_record`, read_since, tail, wait | eviction against cursors, sort by wall clock, restarts, lost wake-ups | loss-aware polling, waits satisfied by real matches only, a match that stays is found |
| Process supervisor (`agent.py` 86-109, 227-275) | `processes`, `recent_processes`, `_reader_threads`, ProcessInfo | run, stop, output, readers, watcher | pid reuse, grandchildren that keep pipes open, undecodable output, stop against exit | a process not yet waited for is found, output is the latest and complete, ends are reported |
| Project push (`service.py` 66-121) | locals of the call; the remote directory | scan, list, compare, upload, delete | partial failure, abandoned writes, overlapping pushes, edits during a push | the remote project equals the local one; only changed files move |
| Agent files (`agent.py` 160-226) | the file system | list, info, read, write, delete | truncate-then-write | bounded answers, exact digests |
| Serial line framing (`serial_broker.py` 212-234) | the bytes of the present read | read_until, cut, strip, emit | a size limit, a timeout and a line end, any of which ends a read; the strip of 231 after every one of them | nothing within the limit is lost but carriage returns; one record for a line unless a cut was due |
| RPC loops and the chain (`mcp_server.py`, `service_server.py`, `agent.py` 388-416, `protocol.py`, `service.py` 29-41) | a connection each: its input, the request in hand, `req` | read a line, do or pass on, answer | nested timeouts, an answer after its caller gave up, malformed and too long lines, errors rewritten at each hop, a crash between two hops | answers match their lines; a definite answer is true; every request ends whose peer reads |
| Project registry (`config.py`, `service.py` 52-61) | `projects.yaml` | load, add, save | unlocked read-modify-write, a crash inside write_text, an unreadable or too large file taken for an empty one | no project lost by adds that nothing disturbs |
| Mock serial (`agent.py` 306-313, 340-343, 351-358, 380-386) | `_mock_serial_configs`, heartbeat counter | open, close, write, heartbeat | no lock at all | as the real port |
| Serial discovery, activity log, GUI, CLI, hardware_test | - | - | thin clients or pure I/O | - |

The hazards of this code, each at its line and with the properties that cover
it, are listed in `PROJECT.json`.

## 2. Modules

| Module | Models | Kind |
|---|---|---|
| `SerialPortBuffer` | `SerialPortBuffer.append` as an operator on sequences | algorithm, used by the next two |
| `SerialBroker` | `SerialBroker` and the reader threads | state machine |
| `PortLease` | what the broker promises of a port's configuration | abstract specification |
| `SerialLog` | `Agent._record`, `_serial_records_for`, read_since, tail, wait | state machine |
| `AgentSerial` | the framing of `_reader`, composed with `SerialLog` and its waiters | composition |
| `ProcessSupervisor` | run_process, stop_process, process_output, readers, watcher | state machine |
| `ProjectPush` | `project_push` and the agent's file branches it calls | state machine |
| `ProjectRegistry` | `ConfigStore.load`, `save`, `project_add` on the service's threads | state machine |
| `RpcChain` | the loops of MCP server, service and agent, and `request` between them; the registry on the service is an instance of `ProjectRegistry` | composition |
| `RemoteCall` | what the chain promises of one job | abstract specification |
| `MC*` | instances for TLC: symmetry sets, sizes of payloads | |
| `*Proofs` | theorems of the module they name | proofs |

### How state and actions correspond to the code

**SerialBroker.**  A member of `Sids` is a `SerialSession` object together with
its connection (`conn`) and its thread (`reader`); `sessions` is `_sessions`
(`_connections` is always changed with it).  What runs under `_lock` is one
step: all of `open`, the pops of `close`, the lookup of `write`, the buffer
append of `_emit`, the cleanup of `_reader`.  The code between two holds of the
lock is cut where another thread could see a difference: `CloseStop` (set the
event), `CloseConnection`, `WriteCheck`, `WriteSend`, `WriteKeep`,
`WriteDeliver`, the loop test, the read, `ReaderKeep`, `ReaderDeliver`,
`ReaderFails`, `ReaderUnregister`, `ReaderClose`.  `serial_tail` and
`serial_wait` enter as `TailOpen`, which fills in 8N1.  Lines and writes are
numbered per port, and every record weighs one byte.

**SerialPortBuffer.**  `Appended(records, record)` is the set holding the one
result of append; as a set it needs no search for the number of evictions in a
proof.  The counter `bytes` is derived.

**SerialLog.**  `Add` is `_record` under `_serial_condition`, with its
`notify_all`.  A read copies the buffers under the lock and computes its answer
from the copy, so it is one step.  `Earlier` is the stable sort by timestamp
(`Rank` is the order in which ports entered the dict), `Newest` the slice
`[-n:]`, `Truncated` and `NextSequence` the expressions of 333-335.  A waiter
moves through `checked` (the test of the loop), `blocked` (inside
`Condition.wait`), `woken`, and back.  The wall clock ticks and may be set
back; the deadline is on the monotonic clock and simply passes (`Expire`).
`Restart` is a new agent process: the maps of `Agent.__init__` are empty again
and the pollers keep their cursors.  `got`, `warned`, `since`, `seen` and
`stepped` are history.

**AgentSerial.**  Extends `SerialLog` and takes the place of its free `Add`: a
device sends bytes, `ReadByte` gives each to the `read_until` in progress
(whether it waits in a queue makes no difference to what is recorded), and the
read ends at a line end or at 4097 bytes (`EndRead`) or after 0.2 s with what it
has (`TimeOutRead`); the 0.2 s run from the start of the call, so that a line can run
out of them without a pause in it.  `Payload` is line 231: the cut, then the strip of
every `\r` and `\n` at the end of the read, in the middle of a line too.  `lines` is
history: what the device sent, line by line, and the places of it that were recorded.

**RpcChain.**  One record per connection, named by the tier that serves it and
by who made it: an external peer (Codex, GUI, CLI, another client of the agent)
or, between two tiers, the job it was made for, since `request` opens a
connection for each call.  `pc` is where the serving loop is; `req` is its local
variable of that name, unbound in the agent until the first line parses.  A line
is a sequence of pieces, one per bounded read; only a too long line has more
than one, and the MCP server's loop throws pieces away until the line ends
(`Discard`, closing at its limit).  `Ask` is `request` up to the write,
`TakeAnswer`, `Broke` and `TimeOut` are its three ends, `Received` the mapping
of error codes.  `Execute` is everything the agent does for a job in one step:
its parts are the subject of the other modules.  `Step(n)` is one iteration
part of a loop; `Stalled(n)` is a loop that waits for its peer to read.  `done` is
history.

**ProjectRegistry.**  A call of project_add is `Load` (35 and 55-59), `Truncate`
(the opening half of `write_text`) and `Write`; `Fail` and `Crash` end it
anywhere.  `Loadable` is what a load may answer: the list in the file, or no projects
- when the text is no YAML or longer than 1 MiB (`TooLarge`), and at any time when the
file cannot be opened or read (30-31).  Two texts written over each other are the later one, the later one
with a rest of the other, or no YAML (`Overlaid`).  `kept` and `disturbed` are
history.

**ProcessSupervisor.**  A member of `Runs` is one call of run_process: Popen
object, ProcessInfo, threads.  Holds of `_process_lock` are single steps; the
unlocked `info.state = "stopping"` (262) is one of its own (`StopMark`).
`Spawn`/`Register`/`StartThreads` are the parts of run_process that others can
interleave with.  `WatchJoinRaises` is `Thread.join` on a thread that was not
started.  Children, grandchildren and pid allocation are external.

**ProjectPush.**  The remote directory is a function from files to contents;
`Torn` is a file that `write_bytes` truncated and has not filled.  Each call to
the agent is one step, except `write_file`, which is two (`WriteOpen`,
`WriteData`).  `CallFails` is any call of the push that raises: a timeout, a
broken connection, an error answer.  A write that already reached the agent
then stops there, or goes on without its caller (`late`).  `start`, `alone` and
`calm` are history.  A digest stands for the content (collisions are left out).

## 3. What the runs check

| Run | Instance | Shows |
|---|---|---|
| `broker` | 1 port, 2 sessions, 2 requests at a time, 2 framings, 2 lines, 1 write, raw buffer of 2 | types; a registered session is served; no open connection is orphaned; every line and write is recorded exactly once; raw buffer and callback agree; a live session leaves only by close; the broker implements `PortLease` |
| `broker_live` | the same with 1 framing, 1 line | requests end, but for physical writes that block; released connections are closed and their threads end; a lost device frees its port |
| `serial_log` | 1 port, buffer of 3 records / 4 bytes, 5 records of 1 or 2 bytes, limits 1 and 2, clock corrections, 1 restart | types; buffers without gaps; loss-aware polling; the tail is the most recent traffic and `truncated` no false alarm while the clock is not set back |
| `agent_serial` | 1 port, a device that sends 5 bytes, carriage returns among them, in lines cut at 2, a waiter on its port, buffer of 1 record, TX records, 1 restart | what lines lose and when they are one record; a match is real; a match that stays is found; a deadline ends the wait |
| `process_tables` | 2 runs, 2 pids with reuse, recent_processes of 1, 1 stopper | types; a process is found under its pid until it was waited for, unless the late watcher of an earlier one with that pid pops it |
| `process_output` | 1 run, 2 streams, pipe of 1 line, 2 lines per stream, output of 2 records, a grandchild | output is the latest, exited means drained, the end is reported, live readers drain their pipes |
| `project_push` | 2 callers, 2 files, 2 contents, 1 edit, 1 abandoned write | types; a push that reports success in calm has synchronised; a push that was alone moved exactly what differed and deleted exactly the surplus, if it was to |
| `rpc_chain` | 5 sets of peers, 7 scripts of up to 9 pieces, 7 jobs of which 3 are project_add, discard limit 3, a list of 2 projects that is too large, 1 crash | types; answers match their lines; definite answers are true; the registry is kept; each job is a `RemoteCall`; every request ends whose peer is not stalled for ever |

Runs that find the code at odds with its documents (each a finding in
`PROJECT.json`):

| Run | Property | What happens |
|---|---|---|
| `two_connections` | `OnePhysicalConnection` | close() frees the port before it closes the connection (270, 276), and a failing reader marks its session (236) before it closes (246): an open in between makes a second connection |
| `log_restart` | `LossAwareAcrossRestarts` | a restarted agent numbers from 1; a poller with an old cursor gets no records and `truncated: false` |
| `streams_read` | `StreamsAreRead` | output that cannot be decoded ends the reader thread; the child then blocks on the full pipe |
| `exited_stays` | `ExitedStays` | a stop that looked the process up before it ended overwrites `exited` with `stopping`, for good |

### Bounds and why they are enough

* Two sessions on one port are what the broker's races need: an old one whose
  cleanup is late and its successor.  Ports do not interact in the broker (every
  action touches one key), so one port suffices; the proofs hold for any number.
* Two worker threads give close against open, close against write, and two
  closes; one write and two lines put RX and TX records in flight together.
* Five records in a buffer of three with sizes 1 and 2 reach eviction by number,
  by size, of one and of two records at once; limits 1 and 2 lie below the buffer
  size, so an answer can be cut by its limit, by eviction and by both.
* The wait meets TX records that hold the pattern (they must not match) and a buffer of
  one record (a match can be pushed out again).  A second port would add nothing to the
  framing, and that a match is on a port of the wait is proved for any number of them.
* Two runs with a recent_processes of 1 evict an entry, and two pids with reuse
  let a late watcher meet its successor.  Two streams share an output of 2, so
  it overflows in every order.
* Two bytes to a line make every length matter: shorter than the limit, equal to
  it, one more (a full read without its line end) and a line over two reads, each with
  carriage returns at every place; five bytes give each of these and the line after it.
* The chain's scripts put each kind of malformed line before and after a good
  one on every tier that can receive it, too long lines of one, two and four
  pieces (the last beyond the discard limit), a second request after one that
  timed out, and two adds of one name at once.  Connections of different peers
  share nothing but the registry and the crash, so they are checked in the sets
  of `Parties`: those that add projects together, those of the agent together,
  the others alone.  One crash meets every step.  One list is over the size limit.
* Two files and two callers give a half-done push, an overlap and an abandoned
  write over the same file.
* `MaxLines`, `MaxWrites`, `MaxSequence`, `MaxTime`, `MaxRestarts`, `MaxEdits`,
  `MaxLate`, `MaxSent` and `MaxCrashes` cap counters; they appear only in the
  guards of the actions that count.  `Parties` and `Foreign` bound who takes part.
* Deadlock is checked except in the process runs, where every process may have
  ended, in `agent_serial`, where every byte may have been sent, and in
  `rpc_chain`, where every peer may have left: nothing is left to do then.

Every property was also checked against a mutated definition of the model (the
definitions commented as mutants in the modules; `PROJECT.json` lists which goes
with which property), and TLC finds each of them violated.

### Fairness

Weak fairness of the program's own threads: `Proceed(c)` and `Read(s)` of the
broker, the steps of a waiter, the readers, watchers, starters and stops of the
supervisor.  The code justifies it: reads have a 0.2 s timeout (175), waits
and joins are timed (`agent.py` 371 and 100), no lock is held across a wait, and
the operating system schedules every runnable thread.  `connection.write` (294) is not
fair: the connection has no write timeout (175), and a device that takes no more blocks
the thread that writes, so `RequestsEnd` allows a write to stay there.  `Connect` and the other
first steps of requests are not fair: no request has to arrive.  Nothing is
assumed of devices, children, grandchildren or signals, and time need not pass
(`Expire` is not fair): the deadline property speaks of waits whose deadline
did pass.

In the chain the loops and threads of the MCP server and of the service are
fair, for they wait on sockets only, and `request` gives every socket a timeout
(`protocol.py` 22).  The agent is not: a job there may hang for ever, and
`RequestsEnd` holds all the same.  No peer has to connect or to leave.  Nor has one to
read: `writer.drain()` (`service_server.py` 52) and the flushed `print`
(`mcp_server.py` 85, 88) then wait without a timeout, so a loop is fair only while its
peer is not `Stalled`, and `RequestsEnd` speaks of connections whose peer is not stalled
for ever, whatever the peers of the others do.  The loops in between always read.

## 4. What is proved

All proofs are checked by TLAPS for every value of the constants that satisfies
the named assumptions:

* `BufferAssumption` is what the constructor enforces;
* `BrokerAssumption`: 8N1 is a framing and None is no session;
* `LogAssumption`: finitely many ports are allowlisted, a record fits into a
  buffer by itself (4096 bytes against 4 MiB) and limits are positive;
* `PushAssumption`, `RegistryAssumption` (nothing is assumed of which lists are too
  large), `SupervisorAssumption`: the markers for
  an absent or torn file, for a broken text and for "no run" are no contents, texts
  or runs, and the bounds are numbers;
* `ChainAssumption`: the scripts are sequences of pieces, a job appears in one
  place of one script only (so that "done twice" means something) and in some script
  (nobody else makes a request), project_add is asked of the service, an MCP server
  discards at least two pieces, and the pieces of a script are those of lines
  (`LinesInPieces`: what follows a piece `long` is more of that line, and only a
  request asks for a job);
* `ReaderAssumption`: a line end is none of the other bytes, a carriage return is one of them, what a line may say is
  among the payloads, and nobody but the reader records RX of the device's port.

**SerialPortBufferProofs**: what append returns is a suffix of the old records
followed by the new one (`AppendedIsSuffix`), has the right type and, when the
record fits at all, ends with it (`AppendedKeepsNewest`).  `AppendHasOneOutcome`: it
is always exactly one buffer.  This is an induction over the length of a buffer, and
shows the form in which the project does one: no induction theorem of the library is
used, but the smallest counterexample (`LeastNatural`, from `WFMin`) - the set of
lengths for which the count does not exist has no least member.

**SerialBrokerProofs**: the inductive invariant `IInv` is `TypeOK` together with
* `HasSession`: who acts on a session has one that was connected, and a session
  has a connection exactly when its reader was born;
* `PoppedIsFree`: a session popped by a close never comes back;
* `RegisteredIsServed` and `NoOrphanConnection`.

Neither of the last two is inductive alone: a close that sets the stop event
would break `RegisteredIsServed` if its session could still be registered
(hence `PoppedIsFree`), and a new connection must take a session that nobody
holds (hence `HasSession`).  Most steps are quiet: they change neither the
registry nor a session nor a connection, and one lemma
(`QuietStepKeeps`) treats them all; `StepKinds` shows that every other step is
a connect, a step of close or the end of a reader, with a lemma each.  From
`IInv` follow `BrokerTypeOK`, `BrokerRegisteredIsServed`,
`BrokerNoOrphanConnection`, the action property
`BrokerLiveSessionLeavesByClose`, and the refinement `BrokerImplementsLease`:
every step of the broker grants a free port, releases a leased one, or leaves
the leases alone.

`RecordedOnce` counts: the number of threads that hold a line plus the number of its
records is one.  No step changes such a sum in a way a prover sees, so the
inductive invariant `Placed` says where things are: a reader between its read and its
delivery holds a line no other reader of the port has and no record carries
(`HeldLines`), a worker the same of its write (`HeldWrites`), a record is of a line
that was taken and is there once (`DeliveredOnce`), and what was taken or sent is
held or delivered (`NothingLost`).  `Undisturbed` treats the steps that move nothing;
`BrokerPlaced` gives `BrokerRecordedOnce`.  `RawBufferAgrees` becomes inductive with
the bounds (`Agrees`): a full buffer that drops a record for a new one is full again.
Its theorem is `BrokerRawBufferAgrees`.

**SerialLogProofs**: the inductive invariant `LogInv` is `TypeOK`,
`BufferContiguous`, `NoFutureEpoch` (a poller's last answer is not from a later
incarnation of the agent) and `LossAware`.  The core is
`SilentAnswerIsComplete`: on a contiguous buffer an answer that does not say
`truncated` brings every number between the cursor and `next_sequence`.  It
holds however the wall clock moves, because the oldest record by time, whichever
it is, bounds the cursor.  Theorems: `LogTypeOK`, `LogBufferContiguous`,
`LogLossAware`, and, with the auxiliary invariant `MatchesWereSeen`,
`LogMatchIsReal`.  Two results need the clock: while it was never set back, the
times in a buffer ascend (`TimesAscend`), so the sort by time is the order of the
sequence numbers (`EarlierIsBefore`).  From it follow `LogTailIsRecent` (the tail
is the end of the buffer, counted by `LatestCount`) and, with the invariant that a
poller holds nothing beyond its cursor (`GotBehind`), `LogNoFalseAlarm`: when more
lies after the cursor than the answer holds, the first of it is left out
(`FirstIsLeftOut`); when the oldest record is beyond the cursor's successor, that
successor is.

**ProjectPushProofs**: the inductive invariant `PushInv` follows a push from its
scan to its return.  `CalmIsShared`: of the pushes under way either all met an
edit, a failure or an abandoned write, or none did.  `LocalIsKnown`: in calm, the
scan is the local project.  `RemoteFollows`: in calm, a remote file equals its local
one, is still to be looked at, or somebody is about to write it; without the last
alternative two overlapping pushes of one file would break it.  `StartIsKnown`, for
a push that is alone: the files it has not touched are as they were when it began.  What
`PushIsMinimal` says of deletions follows from it together with `PushSyncs`: without
`delete` every remote file that is not local stays what it was, with it none is left.
Theorems: `PushTypeOK`, `PushSyncsFiles`, `PushMovesTheMinimum`.

**ProjectRegistryProofs**: `RegistryInv` is the types and `Undisturbed`: while no
add overlapped another, was cut short or loaded something else than the file holds, what
an add holds was made from the list that is kept, and only its own truncation makes the
file differ from that list.  The other cases are steps of the model, and the property
says nothing from them on, because the code does lose projects then (section 5).
Theorem: `RegistryKeeps`.

**RpcChainProofs**: the inductive invariant `ChainInv`.  `Holds(n, j)`: the
connection `n` has still to see to job `j` - its peer is going to ask for it, its
line was not read, or its loop is about to carry the job out or to pass it on.  A job
is held by one connection at most and only while it was not done; once nobody holds
it, it can never be done any more.  This is what makes a refusal definite, and what a
timed-out caller does not know: `TrueClaims` says that whatever an answer claims is
so and stays so.  `Sound` ties the jobs of a connection to its lines and to the job
it was made for.  Theorems: `ChainAnswersAreTrue`, `ChainTypeOK`, and
`ChainKeepsTheRegistry`, which maps every step of the chain to a step of
`ProjectRegistry` or a stutter and takes over `RegistryInv` from there.

`ChainImplementsCall` is the refinement `CallSpec`: each job, with what its client
was told and how often it was carried out, behaves as a `RemoteCall`.  A step of a
peer sends the job, a step of the agent or of the registry acts on it, an answer to
the client ends it as `TrueClaims` allows, and everything else is a stutter - above
all what happens to the connections in between and to a request already given up.

`ChainAnswersMatchLines` has its own invariant, `AllTrack`.  `InOrder`: the k-th
answer is to the k-th line that wants one.  `InPlace`: what a connection has not
read is the rest of its script, it discards exactly when it is inside a too long line,
and `req` is unbound or carries an id that was read.  `Tracks` adds that every answer
due was given, but the one to the line in hand, and that this one carries the line's id
and job.  `LinesInPieces` is what makes the next line be found again after a
too long one.

**AgentSerialProofs**: `ReaderInv` says of the line under way (`Heard`) that the bytes
of the present read are those of the line that no read before had (`Reading`), and what
was recorded of the bytes before (`Recorded`): the places that are in no record and
are no carriage returns (`Missing`) lie beyond `LineBytes` and more than `LineBytes`
apart, since each is the last byte of a full read; and, unless a read was late, a text
that ends within the limit is one record (`OneRecord`).  Without a late read there was no
read of the line before, or those before were full: this is what the last of these rests
on.  Of a line that is over it says `WellRead`.  The strip is not an induction:
`StrippedFacts` takes the largest place of a byte that is no carriage return or line end
(`LargestOf`).  `ReadLoses` and `ReadIsOneRecord` say what one read adds to a line,
however it ended.  Theorems: `AgentReaderTypeOK`, `AgentLinesAreComplete`,
`AgentWholeLineIsOneRecord`, for every `LineBytes` and every device.
`AgentImplementsLog`: what the reader and the other sources do to the log is what
`SerialLog` says of a callback, so that what is proved of the log holds of the
composition; `AgentMatchIsReal` is taken over that way.

**ProcessSupervisorProofs**: `SupervisorInv` says of each run what it holds from
registration to the end of its watcher: the entry under its pid, unless the pid was
given again.  `Unwaited` (`PidsAreFreed`) is about reuse: of two processes with one pid
one was waited for, and nobody can wait for a process that run_process has not put into
the table yet.  With it, a registration never takes the entry of a process that was not
waited for, and a watcher that takes one is late: its own process was waited for before.
Theorems: `RunningProcessIsFound`, an action property for any reuse of pids, which names
the one step by which an entry is lost too early, and `ExitedIsDrained`, with the auxiliary invariant `Drained`, where no pid is given
twice (a late watcher otherwise joins the readers of its successor).

`RecentOK` is the invariant of the tables: `recent` holds at most `MaxRecent`
entries, one for a pid, and the entries of both tables are under a pid their process
had (`SupervisorTables`).  It gives `SupervisorTypeOK` and `TablesNameTheirPid`: a
pid is answered with one process at most, and with one that had that pid.
`OutputInv` counts what `OutputIsLatest` states: the kept lines of a stream are the
last ones of what its reader stored, the count is the number of lines stored on both
streams (`StoredLines`, a set, so that one more line is one more member), and output
is as long as the count or full.  When a line is stored in a full output, the one that
leaves is the oldest of its stream, whichever stream the new one is of.  The theorem
is `OutputIsTheLatest`.

Every invariant that a passing run checks is stated by a theorem, and so are the action
properties and the refinements.  Model-checked only:

* liveness (`RequestsEnd`, `ReleasedIsClosed`, `LostSessionLeaves`, `MatchIsFound`,
  `DeadlineEndsWait`, `EndIsReported`, `LiveReaderDrains`): liveness under fairness
  is out of the prover's reach, and so is ENABLED, which weak fairness is made of;
* that the properties bite: what the mutants show.

## 5. What is not modelled

* The mock serial port (306-313, 340-343, 351-358, 380-386): a stand-in for a board in
  tests and demonstrations.  It sets its configuration without a lock.
* `serial_list` and discovery: a read-only view over pyserial and device nodes.
  The `reused` flag of serial_open (314) is advisory and can be stale.
* Path confinement, allowlists, command splitting and size limits: input checks
  without state.  Limits that make a push fail are among the causes of
  `CallFails`.
* A process request for an unknown pid, a refused command, an allowlist refusal:
  they change nothing.
* GUI, CLI, hardware_test, activity log: thin clients and output.
* A project path that is an alias of the remote root (`./robot`, an absolute
  path): list_files answers in another form than the push looks up, so it
  re-uploads everything and deletes nothing.
* A crash of the MCP server: its clients start it anew, and it has no state.

Where a property is narrower than one may expect, the code gives no more:

* serial_tail and serial_wait open with 8N1 and are refused on a port that is open
  with another framing at the same baud rate (`agent.py` 360), where `README.md` 80
  promises reuse at the same baud rate.
* DeviceOfflineError (`README.md` 105) does not survive two hops: the service's
  answer carries the code, and `protocol.py` 37 makes of it an error of another
  class in the client.
* Two project_add that overlap lose one of the two projects, and one that is cut
  short after the truncation loses all of them, where `README.md` 61 says that the
  service persists what is added.
* A project_add that meets an error on reading `projects.yaml`, or a text of more than
  1 MiB, takes the list for empty and writes its one project over all the others
  (`config.py` 26-31), also when it is alone.
* A process whose pid came back can leave the table while it runs: the watcher of the
  earlier process pops whatever is under the pid (`agent.py` 104).
* What a definite answer says holds for a job that is one call to the agent or a
  project_add.  project_push is several calls (`service.py` 99-119): it may end in
  `device_offline` with files written, and running it again repairs them
  (`ProjectPush`).
* Carriage returns in the middle of a line are lost when a read ends right after them,
  and the last byte of a read of 4097 bytes without its line end (`serial_broker.py`
  218, 231).
* A physical write that blocks (`serial_broker.py` 294) and an answer to a peer that
  does not read (`service_server.py` 52) have no timeout.
* The answer of the agent to a line that does not parse carries the id of the request
  before it (`agent.py` 397), or the connection ends when there was none.

## 6. Plan

Done: the buffer, the broker with `PortLease`, the log, the supervisor and the push;
`ProjectRegistry`; `RpcChain` with `RemoteCall`; `AgentSerial` with the framing; the
proofs of section 4.

Left, in this order:

1. The answers of the log under restarts: what a poller that starts again from zero
   is promised.
2. The steps of the liveness arguments that are safety: that a wait past its deadline
   has a step that ends it, that a reader of a closed connection can only leave.
3. The broker's reader in place of `AgentSerial`'s device, to check the order of
   records against the order on the wire when a port is reopened.
