--------------------------- MODULE ProcessSupervisor ---------------------------
(***************************************************************************)
(* The agent's process supervisor: the run_process, stop_process and       *)
(* process_output branches of Agent.handle with the two reader threads and *)
(* the watcher thread of every process, rdklink/agent.py.                  *)
(*                                                                         *)
(* A run is one call of run_process: the Popen object, its ProcessInfo and *)
(* its threads.  The tables processes, recent_processes and                *)
(* _reader_threads are keyed by pid, and a pid can come back: PidReuse     *)
(* says whether the operating system hands out the pid of a process that   *)
(* was waited for.                                                         *)
(***************************************************************************)
EXTENDS Integers, Sequences, FiniteSets

CONSTANTS
    Runs,           \* calls of run_process
    Pids,           \* process ids of the operating system
    Streams,        \* stdout and stderr
    Stoppers,       \* worker threads serving stop_process
    None,           \* no entry under a key
    PidReuse,       \* a pid may be given again once its process was waited for
    MaxRecent,      \* entries of recent_processes (200)
    MaxOutput,      \* records kept per process (200)
    PipeCapacity,   \* bound: lines a pipe holds before its writer blocks
    MaxLines        \* bound: lines written per stream

ASSUME SupervisorAssumption ==
    /\ None \notin Runs \cup Pids
    /\ PidReuse \in BOOLEAN
    /\ MaxRecent \in Nat \ {0} /\ MaxOutput \in Nat \ {0}
    /\ PipeCapacity \in Nat \ {0} /\ MaxLines \in Nat

VARIABLES
    os,              \* each run's child as the operating system sees it
    pid,             \* the pid of each run's child
    writers,         \* who holds the write end of the pipes of each run
    pipe,            \* lines in each pipe
    written,         \* number of lines written to each pipe; names the lines
    reader,          \* the reader thread of each stream, and the line it holds
    watcher,         \* the watcher thread of each run, and the readers it joins
    starter,         \* the worker thread inside run_process
    info,            \* ProcessInfo of each run
    processes,       \* processes: the run of a pid
    recent,          \* recent_processes, oldest first
    readerThreads,   \* _reader_threads: the run whose readers are under a pid
    stop             \* what each stopping worker thread is doing

vars == <<os, pid, writers, pipe, written, reader, watcher, starter, info,
          processes, recent, readerThreads, stop>>

childVars == <<os, pid, writers, pipe, written>>
tableVars == <<processes, recent, readerThreads>>

NoStop == [pc |-> "idle", run |-> None]

Init ==
    /\ os = [r \in Runs |-> "unborn"]
    /\ pid = [r \in Runs |-> None]
    /\ writers = [r \in Runs |-> {}]
    /\ pipe = [r \in Runs |-> [s \in Streams |-> <<>>]]
    /\ written = [r \in Runs |-> [s \in Streams |-> 0]]
    /\ reader = [r \in Runs |-> [s \in Streams |-> [pc |-> "unborn", line |-> 0]]]
    /\ watcher = [r \in Runs |->
                    [pc |-> "unborn", of |-> None, left |-> {}, timedOut |-> FALSE]]
    /\ starter = [r \in Runs |-> "unborn"]
    /\ info = [r \in Runs |-> [state |-> "running", output |-> <<>>, count |-> 0]]
    /\ processes = [i \in Pids |-> None]
    /\ recent = <<>>
    /\ readerThreads = [i \in Pids |-> None]
    /\ stop = [c \in Stoppers |-> NoStop]

-----------------------------------------------------------------------------
(* The operating system (external): a child runs until it ends or is       *)
(* killed, and stays a zombie until it is waited for.  A grandchild may    *)
(* inherit the pipes and outlive the child.                                *)

\* The pid is free: no child that was not waited for has it.
Available(i) == \A r \in Runs : pid[r] = i => PidReuse /\ os[r] = "reaped"

\* A writer whose pipe is full blocks.
ChildWrites(r, s) ==
    /\ writers[r] # {}
    /\ Len(pipe[r][s]) < PipeCapacity
    /\ written[r][s] < MaxLines
    /\ written' = [written EXCEPT ![r][s] = @ + 1]
    /\ pipe' = [pipe EXCEPT ![r][s] = Append(@, written[r][s] + 1)]
    /\ UNCHANGED <<os, pid, writers, reader, watcher, starter, info, stop>>
    /\ UNCHANGED tableVars

ChildEnds(r) ==
    /\ os[r] = "running"
    /\ os' = [os EXCEPT ![r] = "zombie"]
    /\ writers' = [writers EXCEPT ![r] = @ \ {"child"}]
    /\ UNCHANGED <<pid, pipe, written, reader, watcher, starter, info, stop>>
    /\ UNCHANGED tableVars

GrandchildEnds(r) ==
    /\ "grandchild" \in writers[r]
    /\ writers' = [writers EXCEPT ![r] = @ \ {"grandchild"}]
    /\ UNCHANGED <<os, pid, pipe, written, reader, watcher, starter, info, stop>>
    /\ UNCHANGED tableVars

-----------------------------------------------------------------------------
(* recent_processes: setting a key, moving it to the end, and dropping the *)
(* oldest entries beyond the bound.                                        *)

Trim(entries) ==
    IF Len(entries) <= MaxRecent THEN entries
    ELSE SubSeq(entries, Len(entries) - MaxRecent + 1, Len(entries))

\* The entries but the one of a pid: a key has at most one.
Others(entries, i) ==
    IF \A k \in DOMAIN entries : entries[k].pid # i THEN entries
    ELSE LET at == CHOOSE k \in DOMAIN entries : entries[k].pid = i
         IN  SubSeq(entries, 1, at - 1) \o SubSeq(entries, at + 1, Len(entries))

Remember(r) ==
    recent' = Trim(Append(Others(recent, pid[r]), [pid |-> pid[r], run |-> r]))

(* run_process                                                             *)

Spawn(r, i) ==
    /\ os[r] = "unborn"
    /\ Available(i)
    /\ os' = [os EXCEPT ![r] = "running"]
    /\ pid' = [pid EXCEPT ![r] = i]
    /\ \E held \in {{"child"}, {"child", "grandchild"}} :
          writers' = [writers EXCEPT ![r] = held]
    /\ starter' = [starter EXCEPT ![r] = "spawned"]
    /\ UNCHANGED <<pipe, written, reader, watcher, info, stop>>
    /\ UNCHANGED tableVars

\* Under _process_lock.
Register(r) ==
    /\ starter[r] = "spawned"
    /\ processes' = [processes EXCEPT ![pid[r]] = r]
    /\ readerThreads' = [readerThreads EXCEPT ![pid[r]] = r]
    /\ Remember(r)
    /\ starter' = [starter EXCEPT ![r] = "registered"]
    /\ UNCHANGED <<reader, watcher, info, stop>> /\ UNCHANGED childVars

\* The two readers and the watcher are started, and the request is answered.
StartThreads(r) ==
    /\ starter[r] = "registered"
    /\ reader' = [reader EXCEPT ![r] = [s \in Streams |-> [pc |-> "reading", line |-> 0]]]
    /\ watcher' = [watcher EXCEPT ![r].pc = "waiting"]
    /\ starter' = [starter EXCEPT ![r] = "answered"]
    /\ UNCHANGED <<info, stop>> /\ UNCHANGED childVars /\ UNCHANGED tableVars

Start(r) == Register(r) \/ StartThreads(r)

-----------------------------------------------------------------------------
(* _read_process_stream                                                    *)

ReaderReads(r, s) ==
    /\ reader[r][s].pc = "reading"
    /\ pipe[r][s] # <<>>
    /\ reader' = [reader EXCEPT ![r][s] = [pc |-> "line", line |-> Head(pipe[r][s])]]
    /\ pipe' = [pipe EXCEPT ![r][s] = Tail(@)]
    /\ UNCHANGED <<os, pid, writers, written, watcher, starter, info, stop>>
    /\ UNCHANGED tableVars

(* The bytes are no text in the locale's encoding: readline raises, the    *)
(* bytes are gone and the thread ends.                                     *)
ReaderCannotDecode(r, s) ==
    /\ reader[r][s].pc = "reading"
    /\ pipe[r][s] # <<>>
    /\ reader' = [reader EXCEPT ![r][s].pc = "died"]
    /\ pipe' = [pipe EXCEPT ![r][s] = Tail(@)]
    /\ UNCHANGED <<os, pid, writers, written, watcher, starter, info, stop>>
    /\ UNCHANGED tableVars

\* End of file: nobody holds the write end and the pipe is empty.
ReaderEnds(r, s) ==
    /\ reader[r][s].pc = "reading"
    /\ pipe[r][s] = <<>> /\ writers[r] = {}
    /\ reader' = [reader EXCEPT ![r][s].pc = "ended"]
    /\ UNCHANGED <<watcher, starter, info, stop>> /\ UNCHANGED childVars /\ UNCHANGED tableVars

\* Mutant of Kept: a full deque drops the new record.
KeptUnlessFull(records, record) ==
    IF Len(records) < MaxOutput THEN Append(records, record) ELSE records

\* deque(maxlen=MaxOutput).append
Kept(records, record) ==
    LET all == Append(records, record)
    IN  IF Len(all) <= MaxOutput THEN all ELSE Tail(all)

\* Mutant of ReaderStores: a bounded queue, which blocks when it is full.
StoresWhileRoom(r, s) ==
    /\ reader[r][s].pc = "line"
    /\ Len(info[r].output) < MaxOutput
    /\ info' = [info EXCEPT
          ![r].output = Append(@, [stream |-> s, line |-> reader[r][s].line]),
          ![r].count = @ + 1]
    /\ reader' = [reader EXCEPT ![r][s] = [pc |-> "reading", line |-> 0]]
    /\ UNCHANGED <<watcher, starter, stop>> /\ UNCHANGED childVars /\ UNCHANGED tableVars

\* Under _process_lock.
ReaderStores(r, s) ==
    /\ reader[r][s].pc = "line"
    /\ info' = [info EXCEPT
          ![r].output = Kept(@, [stream |-> s, line |-> reader[r][s].line]),
          ![r].count = @ + 1]
    /\ reader' = [reader EXCEPT ![r][s] = [pc |-> "reading", line |-> 0]]
    /\ UNCHANGED <<watcher, starter, stop>> /\ UNCHANGED childVars /\ UNCHANGED tableVars

ReadStream(r, s) ==
    ReaderReads(r, s) \/ ReaderCannotDecode(r, s) \/ ReaderEnds(r, s) \/ ReaderStores(r, s)

-----------------------------------------------------------------------------
(* _watch_process                                                          *)

Over(r, s) == reader[r][s].pc \in {"ended", "died"}

\* Mutant of WatchWait: poll instead of wait.
WatchPolls(r) ==
    /\ watcher[r].pc = "waiting"
    /\ watcher' = [watcher EXCEPT ![r].pc = "looking"]
    /\ UNCHANGED <<reader, starter, info, stop>> /\ UNCHANGED childVars /\ UNCHANGED tableVars

\* proc.wait(): the child is waited for, if a stop did not do it before.
WatchWait(r) ==
    /\ watcher[r].pc = "waiting"
    /\ os[r] \in {"zombie", "reaped"}
    /\ os' = [os EXCEPT ![r] = "reaped"]
    /\ watcher' = [watcher EXCEPT ![r].pc = "looking"]
    /\ UNCHANGED <<pid, writers, pipe, written, reader, starter, info, stop>>
    /\ UNCHANGED tableVars

\* Mutant of WatchLookup: no reader is joined.
WatchJoinsNobody(r) ==
    /\ watcher[r].pc = "looking"
    /\ watcher' = [watcher EXCEPT ![r].pc = "joining"]
    /\ UNCHANGED <<reader, starter, info, stop>> /\ UNCHANGED childVars /\ UNCHANGED tableVars

\* Under _process_lock: whatever readers are under the pid now.
WatchLookup(r) ==
    LET of == readerThreads[pid[r]]
    IN  /\ watcher[r].pc = "looking"
        /\ watcher' = [watcher EXCEPT ![r].pc = "joining", ![r].of = of,
                                      ![r].left = IF of = None THEN {} ELSE Streams]
        /\ UNCHANGED <<reader, starter, info, stop>>
        /\ UNCHANGED childVars /\ UNCHANGED tableVars

\* reader.join returns because the reader is over ...
WatchJoins(r, s) ==
    /\ watcher[r].pc = "joining" /\ s \in watcher[r].left
    /\ Over(watcher[r].of, s)
    /\ watcher' = [watcher EXCEPT ![r].left = @ \ {s}]
    /\ UNCHANGED <<reader, starter, info, stop>> /\ UNCHANGED childVars /\ UNCHANGED tableVars

JoinWithoutTimeout(r, s) == FALSE   \* mutant of WatchJoinTimesOut

\* ... or because the two seconds are over ...
WatchJoinTimesOut(r, s) ==
    /\ watcher[r].pc = "joining" /\ s \in watcher[r].left
    /\ ~Over(watcher[r].of, s) /\ reader[watcher[r].of][s].pc # "unborn"
    /\ watcher' = [watcher EXCEPT ![r].left = @ \ {s}, ![r].timedOut = TRUE]
    /\ UNCHANGED <<reader, starter, info, stop>> /\ UNCHANGED childVars /\ UNCHANGED tableVars

\* ... or raises: a thread that was not started cannot be joined.
WatchJoinRaises(r, s) ==
    /\ watcher[r].pc = "joining" /\ s \in watcher[r].left
    /\ reader[watcher[r].of][s].pc = "unborn"
    /\ watcher' = [watcher EXCEPT ![r].pc = "died"]
    /\ UNCHANGED <<reader, starter, info, stop>> /\ UNCHANGED childVars /\ UNCHANGED tableVars

\* Under _process_lock.
WatchFinish(r) ==
    /\ watcher[r].pc = "joining" /\ watcher[r].left = {}
    /\ info' = [info EXCEPT ![r].state = "exited"]
    /\ processes' = [processes EXCEPT ![pid[r]] = None]
    /\ readerThreads' = [readerThreads EXCEPT ![pid[r]] = None]
    /\ Remember(r)
    /\ watcher' = [watcher EXCEPT ![r].pc = "done"]
    /\ UNCHANGED <<reader, starter, stop>> /\ UNCHANGED childVars

Watch(r) ==
    \/ WatchWait(r) \/ WatchLookup(r) \/ WatchFinish(r)
    \/ \E s \in Streams : WatchJoins(r, s) \/ WatchJoinTimesOut(r, s) \/ WatchJoinRaises(r, s)

-----------------------------------------------------------------------------
(* stop_process: only the lookup is under _process_lock.                   *)

\* A pid that is not in the table is answered `process not found'.
StopLookup(c, i) ==
    /\ stop[c].pc = "idle"
    /\ processes[i] # None
    /\ stop' = [stop EXCEPT ![c] = [pc |-> "found", run |-> processes[i]]]
    /\ UNCHANGED <<reader, watcher, starter, info>>
    /\ UNCHANGED childVars /\ UNCHANGED tableVars

(* proc.terminate() polls first, which waits for a zombie; a child that is *)
(* still running gets a signal and may end, now, later or never.           *)
StopTerminate(c) ==
    /\ stop[c].pc = "found"
    /\ stop' = [stop EXCEPT ![c].pc = "terminated"]
    /\ os' = [os EXCEPT ![stop[c].run] = IF @ = "zombie" THEN "reaped" ELSE @]
    /\ UNCHANGED <<pid, writers, pipe, written, reader, watcher, starter, info>>
    /\ UNCHANGED tableVars

\* Mutant of StopMark: a state that is none.
MarkStopped(c) ==
    /\ stop[c].pc = "terminated"
    /\ info' = [info EXCEPT ![stop[c].run].state = "stopped"]
    /\ stop' = [stop EXCEPT ![c] = NoStop]
    /\ UNCHANGED <<reader, watcher, starter>> /\ UNCHANGED childVars /\ UNCHANGED tableVars

\* Without the lock.
StopMark(c) ==
    /\ stop[c].pc = "terminated"
    /\ info' = [info EXCEPT ![stop[c].run].state = "stopping"]
    /\ stop' = [stop EXCEPT ![c] = NoStop]
    /\ UNCHANGED <<reader, watcher, starter>> /\ UNCHANGED childVars /\ UNCHANGED tableVars

-----------------------------------------------------------------------------
(* process_output: the run a pid stands for, and what the answer says.     *)

InRecent(i) == {e.run : e \in {recent[k] : k \in {j \in DOMAIN recent : recent[j].pid = i}}}

Shown(i) == IF processes[i] # None THEN {processes[i]} ELSE InRecent(i)

\* The last `limit' records; truncated when the process wrote more than these.
Answer(r, limit) ==
    LET all == info[r].output
        records == IF Len(all) <= limit THEN all
                   ELSE SubSeq(all, Len(all) - limit + 1, Len(all))
    IN  [records |-> records, truncated |-> info[r].count > Len(records)]

Next ==
    \/ \E r \in Runs :
         \/ \E i \in Pids : Spawn(r, i)
         \/ \E s \in Streams : ChildWrites(r, s) \/ ReadStream(r, s)
         \/ ChildEnds(r) \/ GrandchildEnds(r)
         \/ Start(r) \/ Watch(r)
    \/ \E c \in Stoppers :
         \/ \E i \in Pids : StopLookup(c, i)
         \/ StopTerminate(c) \/ StopMark(c)

Spec == Init /\ [][Next]_vars

(* The agent's threads get on when they can.  Children need not write, end *)
(* or react to a signal, and nobody has to ask for a stop.                 *)
Fairness ==
    /\ \A r \in Runs : WF_vars(Start(r)) /\ WF_vars(Watch(r))
    /\ \A r \in Runs, s \in Streams : WF_vars(ReadStream(r, s))
    /\ \A c \in Stoppers : WF_vars(StopTerminate(c) \/ StopMark(c))

FairSpec == Spec /\ Fairness

-----------------------------------------------------------------------------
(* Properties                                                              *)

\* Every variable has the type its Python or system counterpart has.
TypeOK ==
    /\ os \in [Runs -> {"unborn", "running", "zombie", "reaped"}]
    /\ pid \in [Runs -> Pids \cup {None}]
    /\ writers \in [Runs -> SUBSET {"child", "grandchild"}]
    /\ pipe \in [Runs -> [Streams -> Seq(Nat)]]
    /\ written \in [Runs -> [Streams -> Nat]]
    /\ reader \in [Runs -> [Streams ->
          [pc : {"unborn", "reading", "line", "ended", "died"}, line : Nat]]]
    /\ watcher \in [Runs -> [pc : {"unborn", "waiting", "looking", "joining", "done", "died"},
                             of : Runs \cup {None}, left : SUBSET Streams,
                             timedOut : BOOLEAN]]
    /\ starter \in [Runs -> {"unborn", "spawned", "registered", "answered"}]
    /\ info \in [Runs -> [state : {"running", "stopping", "exited"},
                          output : Seq([stream : Streams, line : Nat]), count : Nat]]
    /\ processes \in [Pids -> Runs \cup {None}]
    /\ recent \in Seq([pid : Pids, run : Runs])
    /\ readerThreads \in [Pids -> Runs \cup {None}]
    /\ stop \in [Stoppers -> [pc : {"idle", "found", "terminated"}, run : Runs \cup {None}]]

\* The pid of a run finds it in the table, and it is not called exited.
Found(r) ==
    processes[pid[r]] = r /\ Shown(pid[r]) = {r} /\ info[r].state # "exited"

\* The watcher of another run that had the same pid finishes only now.
LateWatcher(r) ==
    \E q \in Runs \ {r} : pid[q] = pid[r] /\ watcher[q].pc = "joining" /\ watcher'[q].pc = "done"

(* "Use the returned pid with output or stop" (mcp_server.py:26): once     *)
(* run_process has registered a process, its pid finds it and it is not    *)
(* called exited, for as long as it was not waited for.  Evictions from    *)
(* recent_processes, stops, and registrations under a pid that came back   *)
(* do not change that (95-109, 243-263).  One thing does: the watcher of   *)
(* an earlier process with the same pid that was waiting for its readers   *)
(* (100) and pops whatever is under the pid when it is done (104).         *)
RunningIsFound ==
    [][\A r \in Runs :
          /\ starter[r] = "spawned" /\ starter'[r] = "registered" => Found(r)'
          /\ starter[r] \in {"registered", "answered"} /\ Found(r) /\ os'[r] # "reaped" =>
                Found(r)' \/ LateWatcher(r)]_vars

\* Number of lines of a stream that were stored: what left the pipe, but for the line in hand.
Stored(r, s) ==
    written[r][s] - Len(pipe[r][s]) - IF reader[r][s].pc \in {"line", "died"} THEN 1 ELSE 0

\* The lines that were stored.
StoredLines(r) == UNION {{s} \X (1..Stored(r, s)) : s \in Streams}

(* The kept output is the latest output: of each stream the last stored    *)
(* lines, in order and without a gap, however the two readers interleave;  *)
(* and an answer that does not say `truncated' brings every line stored    *)
(* (_read_process_stream 88-93, process_output 264-275).                   *)
OutputIsLatest ==
    \A r \in Runs :
        LET out == info[r].output
            stored == Cardinality(StoredLines(r))
        IN  /\ \A i \in DOMAIN out :
                  out[i].line = Stored(r, out[i].stream)
                      - Cardinality({j \in DOMAIN out : j > i /\ out[j].stream = out[i].stream})
            /\ Len(out) = IF stored < MaxOutput THEN stored ELSE MaxOutput
            /\ \A limit \in 1..MaxOutput :
                  ~Answer(r, limit).truncated => Len(Answer(r, limit).records) = stored

(* `exited' comes after the output: once a run is finished, every line its *)
(* child wrote can be read, unless a reader did not get to the end of its  *)
(* stream in time or could not decode it (the joins of 97-100).            *)
ExitedMeansDrained ==
    \A r \in Runs : watcher[r].pc = "done" /\ ~watcher[r].timedOut =>
        \A s \in Streams : reader[r][s].pc = "died" \/ Stored(r, s) = written[r][s]

(* The end of a child is always reported in the end, and its pid leaves    *)
(* the table, though a grandchild keeps the pipes open for ever or a       *)
(* reader has died (the join timeout of 100).                              *)
EndIsReported ==
    \A r \in Runs : os[r] = "zombie" ~> watcher[r].pc = "done" /\ processes[pid[r]] # r

(* While a reader has not died, what is written to its pipe is read: the   *)
(* child is not held up for ever, however much it writes (86-93).          *)
LiveReaderDrains ==
    \A r \in Runs, s \in Streams :
        pipe[r][s] # <<>> ~> (pipe[r][s] = <<>> \/ reader[r][s].pc = "died")

(* "Continuously read a single output stream in the background"            *)
(* (agent.py:87, in Chinese): what is written to a pipe is read.  The code *)
(* breaks this: output that is no text in the locale's encoding raises in  *)
(* readline, the reader thread ends and the child blocks on the full pipe. *)
StreamsAreRead ==
    \A r \in Runs, s \in Streams : pipe[r][s] # <<>> ~> pipe[r][s] = <<>>

(* A finished process is reported as exited for good, as the tests wait    *)
(* for (test_features.py, `state == "exited"').  The code breaks this: a   *)
(* stop that found the process before it ended overwrites the state, which *)
(* nothing sets back.                                                      *)
ExitedStays == \A r \in Runs : os[r] = "zombie" ~> [](info[r].state = "exited")
=============================================================================
