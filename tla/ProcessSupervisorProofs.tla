------------------------ MODULE ProcessSupervisorProofs ------------------------
(* Theorems of ProcessSupervisor, for any number of processes, streams and *)
(* stops and any sizes of the tables and the pipes.                        *)
EXTENDS ProcessSupervisor, FiniteSetTheorems, SequenceTheorems, TLAPS

ReaderRecord == [pc : {"unborn", "reading", "line", "ended", "died"}, line : Nat]
WatcherRecord ==
    [pc : {"unborn", "waiting", "looking", "joining", "done", "died"},
     of : Runs \cup {None}, left : SUBSET Streams, timedOut : BOOLEAN]
OutputRecord == [stream : Streams, line : Nat]
InfoRecord ==
    [state : {"running", "stopping", "exited"}, output : Seq(OutputRecord), count : Nat]

\* The types of all the variables but recent.
Types ==
    /\ os \in [Runs -> {"unborn", "running", "zombie", "reaped"}]
    /\ pid \in [Runs -> Pids \cup {None}]
    /\ writers \in [Runs -> SUBSET {"child", "grandchild"}]
    /\ pipe \in [Runs -> [Streams -> Seq(Nat)]]
    /\ written \in [Runs -> [Streams -> Nat]]
    /\ reader \in [Runs -> [Streams -> ReaderRecord]]
    /\ watcher \in [Runs -> WatcherRecord]
    /\ starter \in [Runs -> {"unborn", "spawned", "registered", "answered"}]
    /\ info \in [Runs -> InfoRecord]
    /\ processes \in [Pids -> Runs \cup {None}]
    /\ readerThreads \in [Pids -> Runs \cup {None}]
    /\ stop \in [Stoppers -> [pc : {"idle", "found", "terminated"}, run : Runs \cup {None}]]

\* No other run has had this pid.
OwnPid(r) == \A q \in Runs \ {r} : pid[q] # pid[r]

\* How far the threads of a run are, and that its pid is in the tables until its watcher is done.
Registered(r) ==
    /\ os[r] = "unborn" <=> starter[r] = "unborn"
    /\ pid[r] = None <=> starter[r] = "unborn"
    /\ watcher[r].pc = "unborn" <=> starter[r] # "answered"
    /\ watcher[r].pc \in {"looking", "joining", "done", "died"} => os[r] = "reaped"
    /\ info[r].state = "exited" => watcher[r].pc = "done"
    /\ starter[r] \in {"registered", "answered"} /\ watcher[r].pc # "done" /\ OwnPid(r) =>
          processes[pid[r]] = r /\ readerThreads[pid[r]] = r

SupervisorInv == Types /\ \A r \in Runs : Registered(r)

-----------------------------------------------------------------------------
\* What a bounded list keeps has the type of its records.
LEMMA KeptType ==
    ASSUME NEW S, NEW records \in Seq(S), NEW record \in S
    PROVE  Kept(records, record) \in Seq(S)
<1>1. Append(records, record) \in Seq(S) /\ Len(Append(records, record)) = Len(records) + 1
  OBVIOUS
<1>2. Append(records, record) # <<>>
  <2>1. Len(records) \in Nat /\ Len(<<>>) = 0
    OBVIOUS
  <2> QED
    BY <1>1, <2>1
<1>3. \A all \in Seq(S) : all # <<>> => Tail(all) \in Seq(S)
  OBVIOUS
<1> QED
  BY <1>1, <1>2, <1>3 DEF Kept

\* Every step of a watcher keeps its record one.
LEMMA WatcherType ==
    ASSUME NEW w \in WatcherRecord
    PROVE  /\ \A pc \in {"waiting", "looking", "done", "died"} :
                 [w EXCEPT !.pc = pc] \in WatcherRecord
           /\ \A of \in Runs \cup {None}, left \in SUBSET Streams :
                 [w EXCEPT !.pc = "joining", !.of = of, !.left = left] \in WatcherRecord
           /\ \A left \in SUBSET Streams : [w EXCEPT !.left = left] \in WatcherRecord
           /\ \A left \in SUBSET Streams :
                 [w EXCEPT !.left = left, !.timedOut = TRUE] \in WatcherRecord
<1>1. \A pc \in {"waiting", "looking", "done", "died"} :
          [w EXCEPT !.pc = pc] \in WatcherRecord
  BY DEF WatcherRecord
<1>2. \A of \in Runs \cup {None}, left \in SUBSET Streams :
          [w EXCEPT !.pc = "joining", !.of = of, !.left = left] \in WatcherRecord
  BY DEF WatcherRecord
<1>3. \A left \in SUBSET Streams : [w EXCEPT !.left = left] \in WatcherRecord
  BY DEF WatcherRecord
<1>4. \A left \in SUBSET Streams :
          [w EXCEPT !.left = left, !.timedOut = TRUE] \in WatcherRecord
  BY DEF WatcherRecord
<1> QED
  BY <1>1, <1>2, <1>3, <1>4

\* So do changes to a ProcessInfo.
LEMMA InfoType ==
    ASSUME NEW i \in InfoRecord
    PROVE  /\ i.output \in Seq(OutputRecord) /\ i.count \in Nat
           /\ \A state \in {"running", "stopping", "exited"} :
                 [i EXCEPT !.state = state] \in InfoRecord
           /\ \A output \in Seq(OutputRecord), count \in Nat :
                 [i EXCEPT !.output = output, !.count = count] \in InfoRecord
<1>1. i.output \in Seq(OutputRecord) /\ i.count \in Nat
  BY DEF InfoRecord
<1>2. \A state \in {"running", "stopping", "exited"} : [i EXCEPT !.state = state] \in InfoRecord
  BY DEF InfoRecord
<1>3. \A output \in Seq(OutputRecord), count \in Nat :
          [i EXCEPT !.output = output, !.count = count] \in InfoRecord
  BY DEF InfoRecord
<1> QED
  BY <1>1, <1>2, <1>3

\* What a watcher's step does to its record.
LEMMA WatchShape ==
    ASSUME SupervisorInv, NEW r \in Runs, Watch(r)
    PROVE  \E w \in WatcherRecord : watcher' = [watcher EXCEPT ![r] = w]
<1> DEFINE b == watcher[r]
<1>0. b \in WatcherRecord /\ b.left \in SUBSET Streams
  BY DEF SupervisorInv, Types, WatcherRecord
<1>1. CASE WatchWait(r)
  <2>1. watcher' = [watcher EXCEPT ![r] = [b EXCEPT !.pc = "looking"]]
    BY <1>1 DEF WatchWait
  <2>2. [b EXCEPT !.pc = "looking"] \in WatcherRecord
    BY <1>0, WatcherType
  <2> QED
    BY <2>1, <2>2
<1>2. CASE WatchLookup(r)
  <2> DEFINE of == readerThreads[pid[r]]
             left == IF of = None THEN {} ELSE Streams
             w == [b EXCEPT !.pc = "joining", !.of = of, !.left = left]
  <2>1. pid[r] \in Pids
    BY <1>2 DEF WatchLookup, SupervisorInv, Registered, Types
  <2>2. of \in Runs \cup {None} /\ left \in SUBSET Streams
    BY <2>1 DEF SupervisorInv, Types
  <2>3. watcher' = [watcher EXCEPT ![r] = w]
    BY <1>2 DEF WatchLookup
  <2>4. w \in WatcherRecord
    <3> HIDE DEF of, left
    <3> QED
      BY <1>0, <2>2, WatcherType
  <2> QED
    BY <2>3, <2>4
<1>3. CASE WatchFinish(r)
  <2>1. watcher' = [watcher EXCEPT ![r] = [b EXCEPT !.pc = "done"]]
    BY <1>3 DEF WatchFinish
  <2>2. [b EXCEPT !.pc = "done"] \in WatcherRecord
    BY <1>0, WatcherType
  <2> QED
    BY <2>1, <2>2
<1>4. ASSUME NEW s \in Streams, WatchJoins(r, s)
      PROVE  \E w \in WatcherRecord : watcher' = [watcher EXCEPT ![r] = w]
  <2>1. watcher' = [watcher EXCEPT ![r] = [b EXCEPT !.left = b.left \ {s}]]
    BY <1>4 DEF WatchJoins
  <2>2. b.left \ {s} \in SUBSET Streams
    BY <1>0
  <2>3. [b EXCEPT !.left = b.left \ {s}] \in WatcherRecord
    BY <1>0, <2>2, WatcherType
  <2> QED
    BY <2>1, <2>3
<1>5. ASSUME NEW s \in Streams, WatchJoinTimesOut(r, s)
      PROVE  \E w \in WatcherRecord : watcher' = [watcher EXCEPT ![r] = w]
  <2>1. watcher' = [watcher EXCEPT ![r] =
                       [b EXCEPT !.left = b.left \ {s}, !.timedOut = TRUE]]
    BY <1>5 DEF WatchJoinTimesOut
  <2>2. b.left \ {s} \in SUBSET Streams
    BY <1>0
  <2>3. [b EXCEPT !.left = b.left \ {s}, !.timedOut = TRUE] \in WatcherRecord
    BY <1>0, <2>2, WatcherType
  <2> QED
    BY <2>1, <2>3
<1>6. ASSUME NEW s \in Streams, WatchJoinRaises(r, s)
      PROVE  \E w \in WatcherRecord : watcher' = [watcher EXCEPT ![r] = w]
  <2>1. watcher' = [watcher EXCEPT ![r] = [b EXCEPT !.pc = "died"]]
    BY <1>6 DEF WatchJoinRaises
  <2>2. [b EXCEPT !.pc = "died"] \in WatcherRecord
    BY <1>0, WatcherType
  <2> QED
    BY <2>1, <2>2
<1> QED
  BY <1>1, <1>2, <1>3, <1>4, <1>5, <1>6 DEF Watch

\* Every step keeps the types.
LEMMA TypesStep ==
    ASSUME SupervisorAssumption, SupervisorInv, [Next]_vars
    PROVE  Types'
<1> USE DEF Types, childVars, tableVars
<1>0. Types
  BY DEF SupervisorInv
<1>1. ASSUME NEW r \in Runs, NEW i \in Pids, Spawn(r, i)
      PROVE  Types'
  <2>1. PICK held \in {{"child"}, {"child", "grandchild"}} :
            writers' = [writers EXCEPT ![r] = held]
    BY <1>1 DEF Spawn
  <2>2. held \in SUBSET {"child", "grandchild"}
    OBVIOUS
  <2>3. writers' \in [Runs -> SUBSET {"child", "grandchild"}]
    <3> HIDE <2>1
    <3> QED
      BY <1>0, <2>1, <2>2
  <2>4. /\ os' \in [Runs -> {"unborn", "running", "zombie", "reaped"}]
        /\ pid' \in [Runs -> Pids \cup {None}]
        /\ starter' \in [Runs -> {"unborn", "spawned", "registered", "answered"}]
    BY <1>0, <1>1 DEF Spawn
  <2> QED
    BY <1>0, <1>1, <2>3, <2>4 DEF Spawn
<1>2. ASSUME NEW r \in Runs, NEW s \in Streams, ChildWrites(r, s)
      PROVE  Types'
  <2>1. written[r][s] \in Nat /\ pipe[r][s] \in Seq(Nat)
    BY <1>0
  <2>2. written[r][s] + 1 \in Nat /\ Append(pipe[r][s], written[r][s] + 1) \in Seq(Nat)
    BY <2>1
  <2>3. pipe' = [pipe EXCEPT ![r] = [@ EXCEPT ![s] = Append(pipe[r][s], written[r][s] + 1)]]
    BY <1>2 DEF ChildWrites
  <2>4. pipe' \in [Runs -> [Streams -> Seq(Nat)]]
    BY <1>0, <2>2, <2>3
  <2>5. written' \in [Runs -> [Streams -> Nat]]
    BY <1>0, <1>2, <2>2 DEF ChildWrites
  <2> QED
    BY <1>0, <1>2, <2>4, <2>5 DEF ChildWrites
<1>3. ASSUME NEW r \in Runs, ChildEnds(r) \/ GrandchildEnds(r)
      PROVE  Types'
  <2>1. \A x : writers[r] \ {x} \in SUBSET {"child", "grandchild"}
    BY <1>0
  <2>2. writers' \in [Runs -> SUBSET {"child", "grandchild"}]
    <3>1. PICK x : writers' = [writers EXCEPT ![r] = writers[r] \ {x}]
      BY <1>3 DEF ChildEnds, GrandchildEnds
    <3>2. writers[r] \ {x} \in SUBSET {"child", "grandchild"}
      BY <2>1
    <3> QED
      BY <1>0, <3>1, <3>2
  <2>3. os' \in [Runs -> {"unborn", "running", "zombie", "reaped"}]
    <3>1. os' = os \/ os' = [os EXCEPT ![r] = "zombie"]
      BY <1>3 DEF ChildEnds, GrandchildEnds
    <3>2. os \in [Runs -> {"unborn", "running", "zombie", "reaped"}]
      BY <1>0
    <3> QED
      BY ONLY <3>1, <3>2
  <2> QED
    BY <1>0, <1>3, <2>2, <2>3 DEF ChildEnds, GrandchildEnds
<1>4. ASSUME NEW r \in Runs, Register(r)
      PROVE  Types'
  BY <1>0, <1>4 DEF Register
<1>5. ASSUME NEW r \in Runs, StartThreads(r)
      PROVE  Types'
  <2>1. watcher' \in [Runs -> WatcherRecord]
    <3>1. watcher' = [watcher EXCEPT ![r] = [watcher[r] EXCEPT !.pc = "waiting"]]
      BY <1>5 DEF StartThreads
    <3>2. [watcher[r] EXCEPT !.pc = "waiting"] \in WatcherRecord
      BY <1>0, WatcherType
    <3> QED
      BY <1>0, <3>1, <3>2
  <2>2. reader' \in [Runs -> [Streams -> ReaderRecord]]
    BY <1>0, <1>5 DEF StartThreads, ReaderRecord
  <2> QED
    BY <1>0, <1>5, <2>1, <2>2 DEF StartThreads
<1>6. ASSUME NEW r \in Runs, NEW s \in Streams, ReadStream(r, s)
      PROVE  Types'
  <2>1. /\ pipe[r][s] \in Seq(Nat) /\ reader[r][s] \in ReaderRecord
        /\ reader[r][s].line \in Nat
    BY <1>0 DEF ReaderRecord
  <2>2. \A q \in Seq(Nat) : q # <<>> => Head(q) \in Nat /\ Tail(q) \in Seq(Nat)
    OBVIOUS
  <2>3. CASE ReaderReads(r, s) \/ ReaderCannotDecode(r, s)
    <3>1. Head(pipe[r][s]) \in Nat /\ Tail(pipe[r][s]) \in Seq(Nat)
      BY <2>1, <2>2, <2>3 DEF ReaderReads, ReaderCannotDecode
    <3>2. pipe' = [pipe EXCEPT ![r] = [@ EXCEPT ![s] = Tail(pipe[r][s])]]
      BY <2>3 DEF ReaderReads, ReaderCannotDecode
    <3>3. pipe' \in [Runs -> [Streams -> Seq(Nat)]]
      BY <1>0, <3>1, <3>2
    <3>4. \/ reader' = [reader EXCEPT ![r][s] = [pc |-> "line", line |-> Head(pipe[r][s])]]
          \/ reader' = [reader EXCEPT ![r][s] = [reader[r][s] EXCEPT !.pc = "died"]]
      BY <2>3 DEF ReaderReads, ReaderCannotDecode
    <3>5. /\ [pc |-> "line", line |-> Head(pipe[r][s])] \in ReaderRecord
          /\ [reader[r][s] EXCEPT !.pc = "died"] \in ReaderRecord
      BY <2>1, <3>1 DEF ReaderRecord
    <3>6. reader' \in [Runs -> [Streams -> ReaderRecord]]
      <4>1. PICK x \in ReaderRecord : reader' = [reader EXCEPT ![r][s] = x]
        BY <3>4, <3>5
      <4> QED
        BY <1>0, <4>1
    <3> QED
      BY <1>0, <2>3, <3>3, <3>6 DEF ReaderReads, ReaderCannotDecode
  <2>4. CASE ReaderEnds(r, s)
    <3>1. [reader[r][s] EXCEPT !.pc = "ended"] \in ReaderRecord
      BY <2>1 DEF ReaderRecord
    <3>2. reader' = [reader EXCEPT ![r][s] = [reader[r][s] EXCEPT !.pc = "ended"]]
      BY <2>4 DEF ReaderEnds
    <3>3. reader' \in [Runs -> [Streams -> ReaderRecord]]
      BY <1>0, <3>1, <3>2
    <3> QED
      BY <1>0, <2>4, <3>3 DEF ReaderEnds
  <2>5. CASE ReaderStores(r, s)
    <3> DEFINE record == [stream |-> s, line |-> reader[r][s].line]
               output == Kept(info[r].output, record)
               next == [info[r] EXCEPT !.output = output, !.count = info[r].count + 1]
    <3>1. /\ record \in OutputRecord /\ info[r] \in InfoRecord
          /\ info[r].output \in Seq(OutputRecord) /\ info[r].count + 1 \in Nat
      <4>1. record \in OutputRecord /\ info[r] \in InfoRecord
        BY <1>0, <2>1 DEF OutputRecord
      <4>2. info[r].output \in Seq(OutputRecord) /\ info[r].count \in Nat
        BY <4>1, InfoType
      <4> QED
        BY <4>1, <4>2
    <3>2. output \in Seq(OutputRecord)
      <4> HIDE DEF record
      <4> QED
        BY <3>1, KeptType
    <3>3. info' = [info EXCEPT ![r] = next]
      BY <2>5 DEF ReaderStores
    <3>4. next \in InfoRecord
      <4> HIDE DEF output
      <4> QED
        BY <3>1, <3>2, InfoType
    <3> HIDE DEF next
    <3>5. info' \in [Runs -> InfoRecord]
      BY <1>0, <3>3, <3>4
    <3>6. [pc |-> "reading", line |-> 0] \in ReaderRecord
      BY DEF ReaderRecord
    <3>7. reader' \in [Runs -> [Streams -> ReaderRecord]]
      BY <1>0, <2>5, <3>6 DEF ReaderStores
    <3> QED
      BY <1>0, <2>5, <3>5, <3>7 DEF ReaderStores
  <2> QED
    BY <1>6, <2>3, <2>4, <2>5 DEF ReadStream
<1>7. ASSUME NEW r \in Runs, Watch(r)
      PROVE  Types'
  <2>1. watcher' \in [Runs -> WatcherRecord]
    BY <1>0, <1>7, WatchShape
  <2>2. info' \in [Runs -> InfoRecord]
    <3>1. [info[r] EXCEPT !.state = "exited"] \in InfoRecord
      BY <1>0, InfoType
    <3>2. info' = info \/ info' = [info EXCEPT ![r] = [info[r] EXCEPT !.state = "exited"]]
      BY <1>7 DEF Watch, WatchWait, WatchLookup, WatchFinish, WatchJoins, WatchJoinTimesOut,
         WatchJoinRaises
    <3> QED
      BY <1>0, <3>1, <3>2
  <2>3. CASE WatchWait(r)
    BY <1>0, <2>1, <2>2, <2>3 DEF WatchWait
  <2>4. CASE WatchFinish(r)
    BY <1>0, <2>1, <2>2, <2>4 DEF WatchFinish
  <2>5. CASE \/ WatchLookup(r)
             \/ \E s \in Streams :
                   WatchJoins(r, s) \/ WatchJoinTimesOut(r, s) \/ WatchJoinRaises(r, s)
    BY <1>0, <2>1, <2>2, <2>5 DEF WatchLookup, WatchJoins, WatchJoinTimesOut, WatchJoinRaises
  <2> QED
    BY <1>7, <2>3, <2>4, <2>5 DEF Watch
<1>8. ASSUME NEW c \in Stoppers, NEW i \in Pids, StopLookup(c, i)
      PROVE  Types'
  BY <1>0, <1>8 DEF StopLookup
<1>9. ASSUME NEW c \in Stoppers, StopTerminate(c)
      PROVE  Types'
  <2>1. stop' \in [Stoppers -> [pc : {"idle", "found", "terminated"}, run : Runs \cup {None}]]
    BY <1>0, <1>9 DEF StopTerminate
  <2>2. os' \in [Runs -> {"unborn", "running", "zombie", "reaped"}]
    BY <1>0, <1>9 DEF StopTerminate
  <2> QED
    BY <1>0, <1>9, <2>1, <2>2 DEF StopTerminate, tableVars
<1>10. ASSUME NEW c \in Stoppers, StopMark(c)
       PROVE  Types'
  <2> DEFINE r == stop[c].run
  <2>1. r \in Runs => [info[r] EXCEPT !.state = "stopping"] \in InfoRecord
    BY <1>0, InfoType
  <2>2. info' = [info EXCEPT ![r] = [info[r] EXCEPT !.state = "stopping"]]
    BY <1>10 DEF StopMark
  <2>3. info' \in [Runs -> InfoRecord]
    <3> HIDE DEF r
    <3> QED
      BY <1>0, <2>1, <2>2
  <2> QED
    BY <1>0, <1>10, <2>3 DEF StopMark, NoStop
<1>11. CASE UNCHANGED vars
  BY <1>0, <1>11 DEF vars
<1> QED
  BY <1>1, <1>2, <1>3, <1>4, <1>5, <1>6, <1>7, <1>8, <1>9, <1>10, <1>11 DEF Next, Start

\* Every step keeps pids in the tables until their watchers are done.
LEMMA RegisteredStep ==
    ASSUME SupervisorAssumption, SupervisorInv, [Next]_vars, NEW q \in Runs
    PROVE  Registered(q)'
<1> USE DEF Registered, OwnPid, childVars, tableVars
<1>0. Types /\ Registered(q)
  BY DEF SupervisorInv
<1>1. ASSUME NEW r \in Runs, NEW i \in Pids, Spawn(r, i)
      PROVE  Registered(q)'
  <2>1. i # None /\ pid[r] = None /\ starter[r] = "unborn"
    BY <1>1 DEF Spawn, SupervisorAssumption, SupervisorInv, Types
  <2>2. /\ os' = [os EXCEPT ![r] = "running"] /\ pid' = [pid EXCEPT ![r] = i]
        /\ starter' = [starter EXCEPT ![r] = "spawned"]
        /\ UNCHANGED <<watcher, info, processes, readerThreads>>
    BY <1>1 DEF Spawn
  <2>3. CASE q = r
    BY <1>0, <2>1, <2>2, <2>3 DEF Types
  <2>4. CASE q # r
    <3>1. os'[q] = os[q] /\ pid'[q] = pid[q] /\ starter'[q] = starter[q]
      BY <1>0, <2>2, <2>4 DEF Types
    <3>2. starter[q] # "unborn" /\ OwnPid(q)' => OwnPid(q)
      BY <1>0, <2>1, <2>2, <3>1 DEF Types
    <3> QED
      BY <1>0, <2>2, <3>1, <3>2
  <2> QED
    BY <2>3, <2>4
<1>2. ASSUME NEW r \in Runs, NEW s \in Streams, ChildWrites(r, s)
      PROVE  Registered(q)'
  BY <1>0, <1>2 DEF ChildWrites
<1>3. ASSUME NEW r \in Runs, ChildEnds(r) \/ GrandchildEnds(r)
      PROVE  Registered(q)'
  BY <1>0, <1>3 DEF ChildEnds, GrandchildEnds, Types
<1>4. ASSUME NEW r \in Runs, Register(r)
      PROVE  Registered(q)'
  <2>1. starter[r] = "spawned" /\ pid[r] \in Pids
    BY <1>0, <1>4 DEF Register, SupervisorInv, Types
  <2>2. /\ processes' = [processes EXCEPT ![pid[r]] = r]
        /\ readerThreads' = [readerThreads EXCEPT ![pid[r]] = r]
        /\ starter' = [starter EXCEPT ![r] = "registered"]
        /\ UNCHANGED <<os, pid, watcher, info>>
    BY <1>4 DEF Register
  <2>3. CASE q = r
    BY <1>0, <2>1, <2>2, <2>3 DEF Types
  <2>4. CASE q # r
    <3>1. OwnPid(q) => pid[q] # pid[r]
      BY <2>4
    <3> QED
      BY <1>0, <2>1, <2>2, <2>4, <3>1 DEF Types
  <2> QED
    BY <2>3, <2>4
<1>5. ASSUME NEW r \in Runs, StartThreads(r)
      PROVE  Registered(q)'
  <2>1. /\ starter[r] = "registered" /\ starter' = [starter EXCEPT ![r] = "answered"]
        /\ watcher' = [watcher EXCEPT ![r] = [watcher[r] EXCEPT !.pc = "waiting"]]
        /\ UNCHANGED <<os, pid, info, processes, readerThreads>>
    BY <1>5 DEF StartThreads
  <2>2. watcher[r] \in WatcherRecord /\ Registered(r)
    BY <1>0 DEF SupervisorInv, Types
  <2>3. watcher'[r].pc = "waiting" /\ starter'[r] = "answered"
    BY <1>0, <2>1, <2>2 DEF Types, WatcherRecord
  <2>4. q # r => watcher'[q] = watcher[q] /\ starter'[q] = starter[q]
    BY <1>0, <2>1 DEF Types
  <2> QED
    BY <1>0, <2>1, <2>2, <2>3, <2>4
<1>6. ASSUME NEW r \in Runs, NEW s \in Streams, ReadStream(r, s)
      PROVE  Registered(q)'
  <2>1. UNCHANGED <<os, pid, starter, watcher, processes, readerThreads>>
    BY <1>6 DEF ReadStream, ReaderReads, ReaderCannotDecode, ReaderEnds, ReaderStores
  <2>2. info'[q].state = info[q].state
    <3>1. CASE ReaderStores(r, s)
      <4>1. \E output, count : info' = [info EXCEPT ![r] =
                [info[r] EXCEPT !.output = output, !.count = count]]
        BY <3>1 DEF ReaderStores
      <4>2. info[r] \in InfoRecord
        BY <1>0 DEF Types
      <4> QED
        BY <1>0, <4>1, <4>2 DEF Types, InfoRecord
    <3> QED
      BY <1>6, <3>1 DEF ReadStream, ReaderReads, ReaderCannotDecode, ReaderEnds
  <2> QED
    BY <1>0, <2>1, <2>2
<1>7. ASSUME NEW r \in Runs, Watch(r)
      PROVE  Registered(q)'
  <2>1. watcher[r] \in WatcherRecord /\ Registered(r) /\ pid[r] \in Pids \cup {None}
    BY <1>0 DEF SupervisorInv, Types
  <2>2. CASE WatchWait(r)
    <3>1. /\ os[r] \in {"zombie", "reaped"} /\ os' = [os EXCEPT ![r] = "reaped"]
          /\ watcher[r].pc = "waiting"
          /\ watcher' = [watcher EXCEPT ![r] = [watcher[r] EXCEPT !.pc = "looking"]]
          /\ UNCHANGED <<pid, starter, info, processes, readerThreads>>
      BY <2>2 DEF WatchWait
    <3>2. watcher'[r].pc = "looking" /\ os'[r] = "reaped"
      BY <1>0, <2>1, <3>1 DEF Types, WatcherRecord
    <3>3. q # r => watcher'[q] = watcher[q] /\ os'[q] = os[q]
      BY <1>0, <3>1 DEF Types
    <3> QED
      BY <1>0, <2>1, <3>1, <3>2, <3>3
  <2>3. CASE WatchFinish(r)
    <3>1. /\ watcher[r].pc = "joining"
          /\ watcher' = [watcher EXCEPT ![r] = [watcher[r] EXCEPT !.pc = "done"]]
          /\ info' = [info EXCEPT ![r] = [info[r] EXCEPT !.state = "exited"]]
          /\ processes' = [processes EXCEPT ![pid[r]] = None]
          /\ readerThreads' = [readerThreads EXCEPT ![pid[r]] = None]
          /\ UNCHANGED <<os, pid, starter>>
      BY <2>3 DEF WatchFinish
    <3>2. watcher'[r].pc = "done"
      BY <1>0, <2>1, <3>1 DEF Types, WatcherRecord
    <3>3. q # r => watcher'[q] = watcher[q] /\ info'[q] = info[q]
      BY <1>0, <3>1 DEF Types
    <3>4. CASE q = r
      BY <2>1, <3>1, <3>2, <3>4
    <3>5. CASE q # r
      <4>1. OwnPid(q) => pid[q] # pid[r]
        BY <3>5
      <4>2. starter[q] # "unborn" => pid[q] \in Pids
        BY <1>0 DEF Types
      <4> QED
        BY <1>0, <3>1, <3>3, <3>5, <4>1, <4>2 DEF Types
    <3> QED
      BY <3>4, <3>5
  <2>4. CASE \/ WatchLookup(r)
             \/ \E s \in Streams :
                   WatchJoins(r, s) \/ WatchJoinTimesOut(r, s) \/ WatchJoinRaises(r, s)
    <3>1. /\ watcher[r].pc \in {"looking", "joining"}
          /\ UNCHANGED <<os, pid, starter, info, processes, readerThreads>>
      BY <2>4 DEF WatchLookup, WatchJoins, WatchJoinTimesOut, WatchJoinRaises
    <3>2. watcher'[r].pc \in {"joining", "died"}
      <4>1. CASE WatchLookup(r)
        BY <1>0, <2>1, <4>1 DEF WatchLookup, Types, WatcherRecord
      <4>2. ASSUME NEW s \in Streams, WatchJoins(r, s) PROVE watcher'[r].pc = "joining"
        BY <1>0, <2>1, <4>2 DEF WatchJoins, Types, WatcherRecord
      <4>3. ASSUME NEW s \in Streams, WatchJoinTimesOut(r, s) PROVE watcher'[r].pc = "joining"
        BY <1>0, <2>1, <4>3 DEF WatchJoinTimesOut, Types, WatcherRecord
      <4>4. ASSUME NEW s \in Streams, WatchJoinRaises(r, s) PROVE watcher'[r].pc = "died"
        BY <1>0, <2>1, <4>4 DEF WatchJoinRaises, Types, WatcherRecord
      <4> QED
        BY <2>4, <4>1, <4>2, <4>3, <4>4
    <3>3. q # r => watcher'[q] = watcher[q]
      BY <1>0, <1>7, WatchShape DEF Types
    <3> QED
      BY <1>0, <2>1, <3>1, <3>2, <3>3
  <2> QED
    BY <1>7, <2>2, <2>3, <2>4 DEF Watch
<1>8. ASSUME NEW c \in Stoppers, NEW i \in Pids, StopLookup(c, i)
      PROVE  Registered(q)'
  BY <1>0, <1>8 DEF StopLookup
<1>9. ASSUME NEW c \in Stoppers, StopTerminate(c)
      PROVE  Registered(q)'
  <2>1. os'[q] = os[q] \/ (os[q] = "zombie" /\ os'[q] = "reaped")
    BY <1>0, <1>9 DEF StopTerminate, Types
  <2>2. UNCHANGED <<pid, starter, watcher, info, processes, readerThreads>>
    BY <1>9 DEF StopTerminate
  <2> QED
    BY <1>0, <2>1, <2>2
<1>10. ASSUME NEW c \in Stoppers, StopMark(c)
       PROVE  Registered(q)'
  <2>1. info'[q].state \in {info[q].state, "stopping"}
    <3>1. info' = [info EXCEPT ![stop[c].run] =
                      [info[stop[c].run] EXCEPT !.state = "stopping"]]
      BY <1>10 DEF StopMark
    <3>2. info[q] \in InfoRecord
      BY <1>0 DEF Types
    <3> QED
      BY <1>0, <3>1, <3>2 DEF Types, InfoRecord
  <2>2. UNCHANGED <<os, pid, starter, watcher, processes, readerThreads>>
    BY <1>10 DEF StopMark
  <2> QED
    BY <1>0, <2>1, <2>2
<1>11. CASE UNCHANGED vars
  BY <1>0, <1>11 DEF vars
<1> QED
  BY <1>1, <1>2, <1>3, <1>4, <1>5, <1>6, <1>7, <1>8, <1>9, <1>10, <1>11 DEF Next, Start

\* The invariant holds when the agent starts.
LEMMA SupervisorInit ==
    ASSUME SupervisorAssumption, Init
    PROVE  SupervisorInv
<1>1. Types
  <2>1. [state |-> "running", output |-> <<>>, count |-> 0] \in InfoRecord
    BY DEF InfoRecord
  <2>2. [pc |-> "unborn", of |-> None, left |-> {}, timedOut |-> FALSE] \in WatcherRecord
    BY DEF WatcherRecord
  <2>3. [pc |-> "unborn", line |-> 0] \in ReaderRecord
    BY DEF ReaderRecord
  <2> QED
    BY <2>1, <2>2, <2>3 DEF Init, Types, NoStop
<1>2. \A r \in Runs : Registered(r)
  BY DEF Init, Registered
<1> QED
  BY <1>1, <1>2 DEF SupervisorInv

-----------------------------------------------------------------------------
\* A pid is in the tables from its registration until its watcher is done.
THEOREM SupervisorInvariant == Spec => []SupervisorInv
<1>1. Init => SupervisorInv
  BY SupervisorAssumption, SupervisorInit
<1>2. SupervisorInv /\ [Next]_vars => SupervisorInv'
  <2> SUFFICES ASSUME SupervisorInv, [Next]_vars PROVE SupervisorInv'
    OBVIOUS
  <2>1. Types'
    BY SupervisorAssumption, TypesStep
  <2>2. \A r \in Runs : Registered(r)'
    BY SupervisorAssumption, RegisteredStep
  <2> QED
    BY <2>1, <2>2 DEF SupervisorInv
<1> QED
  BY <1>1, <1>2, PTL DEF Spec

\* The runs that run_process has put into the tables.
InTables == {r \in Runs : starter[r] \in {"registered", "answered"}}

(* Of two processes with one pid, one was waited for; and before its run   *)
(* is in the table nobody can wait for a process.                          *)
Unwaited ==
    /\ \A q, r \in Runs : q # r /\ pid[q] = pid[r] /\ pid[q] # None =>
          os[q] = "reaped" \/ os[r] = "reaped"
    /\ \A r \in Runs : starter[r] = "spawned" => os[r] # "reaped"
    /\ \A i \in Pids : processes[i] # None => processes[i] \in InTables
    /\ \A c \in Stoppers : stop[c].pc # "idle" => stop[c].run \in InTables

\* A step that waits for nobody but runs in the tables and starts none.
LEMMA UnwaitedStays ==
    ASSUME SupervisorInv, Unwaited,
           pid' = pid,
           \A r \in Runs : /\ r \in InTables => r \in InTables'
                           /\ starter'[r] = "spawned" => starter[r] = "spawned"
                           /\ os'[r] # "reaped" => os[r] # "reaped"
                           /\ os'[r] = "reaped" => os[r] = "reaped" \/ r \in InTables,
           \A r \in Runs : os[r] = "reaped" => os'[r] = "reaped",
           \A i \in Pids : processes'[i] # None =>
              processes'[i] \in InTables',
           \A c \in Stoppers : stop'[c].pc # "idle" =>
              stop'[c].run \in InTables'
    PROVE  Unwaited'
<1>1. \A r \in Runs : starter'[r] = "spawned" => os'[r] # "reaped"
  BY DEF Unwaited, InTables
<1>2. \A q, r \in Runs : q # r /\ pid'[q] = pid'[r] /\ pid'[q] # None =>
          os'[q] = "reaped" \/ os'[r] = "reaped"
  BY DEF Unwaited
<1> QED
  BY <1>1, <1>2 DEF Unwaited

\* Every step keeps this.
LEMMA UnwaitedStep ==
    ASSUME SupervisorAssumption, SupervisorInv, Unwaited, [Next]_vars
    PROVE  Unwaited'
<1> USE DEF childVars, tableVars
<1>0. /\ Types /\ None \notin Pids /\ None \notin Runs
      /\ \A i \in Pids : processes[i] # None => processes[i] \in Runs
      /\ \A i \in Pids : processes[i] # None => processes[i] \in InTables
      /\ \A c \in Stoppers : stop[c].pc # "idle" => stop[c].run \in InTables
      /\ InTables \subseteq Runs
  BY DEF SupervisorInv, SupervisorAssumption, Unwaited, Types, InTables
<1>1. ASSUME NEW r \in Runs, NEW i \in Pids, Spawn(r, i)
      PROVE  Unwaited'
  <2>1. /\ os' = [os EXCEPT ![r] = "running"] /\ pid' = [pid EXCEPT ![r] = i]
        /\ starter' = [starter EXCEPT ![r] = "spawned"]
        /\ processes' = processes /\ stop' = stop
        /\ \A q \in Runs : pid[q] = i => os[q] = "reaped"
        /\ starter[r] = "unborn"
    BY <1>1 DEF Spawn, Available, SupervisorInv, Registered
  <2>2. \A q \in Runs \ {r} :
          pid'[q] = pid[q] /\ os'[q] = os[q] /\ starter'[q] = starter[q]
    BY <1>0, <2>1 DEF Types
  <2>3. pid'[r] = i /\ os'[r] = "running" /\ starter'[r] = "spawned"
    BY <1>0, <2>1 DEF Types
  <2>4. \A p, q \in Runs : p # q /\ pid'[p] = pid'[q] /\ pid'[p] # None =>
          os'[p] = "reaped" \/ os'[q] = "reaped"
    BY <2>1, <2>2, <2>3 DEF Unwaited
  <2>5. \A q \in Runs : starter'[q] = "spawned" => os'[q] # "reaped"
    BY <2>2, <2>3 DEF Unwaited
  <2>6. \A q \in Runs : q \in InTables => q \in InTables'
    BY <2>1, <2>2 DEF InTables
  <2>7. \A p \in Pids : processes'[p] # None => processes'[p] \in InTables'
    BY <1>0, <2>1, <2>6
  <2>8. \A c \in Stoppers : stop'[c].pc # "idle" =>
           stop'[c].run \in InTables'
    BY <1>0, <2>1, <2>6
  <2> QED
    BY <2>4, <2>5, <2>7, <2>8 DEF Unwaited
<1>2. ASSUME NEW r \in Runs, Register(r) \/ StartThreads(r)
      PROVE  Unwaited'
  <2>1. \E to \in {"registered", "answered"} :
          starter' = [starter EXCEPT ![r] = to]
    BY <1>2 DEF Register, StartThreads
  <2>2. UNCHANGED <<os, pid, stop>>
    BY <1>2 DEF Register, StartThreads
  <2>3. r \in InTables' /\ \A q \in Runs \ {r} : starter'[q] = starter[q]
    BY <1>0, <2>1 DEF Types, InTables
  <2>4. \A q \in Runs : (q \in InTables => q \in InTables')
                        /\ (starter'[q] = "spawned" => starter[q] = "spawned")
    BY <2>3 DEF InTables
  <2>5. \A p \in Pids : processes'[p] \in {processes[p], r}
    BY <1>0, <1>2 DEF Register, StartThreads, Types
  <2>6. \A p \in Pids : processes'[p] # None =>
           processes'[p] \in InTables'
    BY <1>0, <2>3, <2>4, <2>5
  <2>7. \A c \in Stoppers : stop'[c].pc # "idle" =>
           stop'[c].run \in InTables'
    BY <1>0, <2>2, <2>4
  <2> QED
    BY <2>2, <2>4, <2>6, <2>7, UnwaitedStays
<1>3. ASSUME NEW r \in Runs, Watch(r)
      PROVE  Unwaited'
  <2>1. UNCHANGED <<pid, starter, stop>>
    BY <1>3 DEF Watch, WatchWait, WatchLookup, WatchJoins, WatchJoinTimesOut, WatchJoinRaises,
       WatchFinish
  <2>2. \A q \in Runs : q \in InTables => q \in InTables'
    BY <2>1 DEF InTables
  <2>3. os' = os \/ (os' = [os EXCEPT ![r] = "reaped"] /\ watcher[r].pc = "waiting")
    BY <1>3 DEF Watch, WatchWait, WatchLookup, WatchJoins, WatchJoinTimesOut, WatchJoinRaises,
       WatchFinish
  <2>4. watcher[r].pc = "waiting" => r \in InTables
    BY DEF SupervisorInv, Registered, InTables
  <2>5. \A q \in Runs : /\ os[q] = "reaped" => os'[q] = "reaped"
                        /\ os'[q] = "reaped" => os[q] = "reaped" \/ q \in InTables
    BY <1>0, <2>3, <2>4 DEF Types
  <2>6. processes' = processes \/ processes' = [processes EXCEPT ![pid[r]] = None]
    BY <1>3 DEF Watch, WatchWait, WatchLookup, WatchJoins, WatchJoinTimesOut, WatchJoinRaises,
       WatchFinish
  <2>7. \A p \in Pids : processes'[p] \in {processes[p], None}
    BY <1>0, <2>6 DEF Types
  <2>8. \A p \in Pids : processes'[p] # None =>
           processes'[p] \in InTables'
    BY <1>0, <2>2, <2>7
  <2>9. \A c \in Stoppers : stop'[c].pc # "idle" =>
           stop'[c].run \in InTables'
    BY <1>0, <2>1, <2>2
  <2> QED
    BY <2>1, <2>2, <2>5, <2>8, <2>9, UnwaitedStays
<1>4. ASSUME UNCHANGED <<pid, starter, processes, stop>>,
             \A q \in Runs : os'[q] = "reaped" <=> os[q] = "reaped"
      PROVE  Unwaited'
  <2>1. \A q \in Runs : q \in InTables => q \in InTables'
    BY <1>4 DEF InTables
  <2>2. \A p \in Pids : processes'[p] # None =>
           processes'[p] \in InTables'
    BY <1>0, <1>4, <2>1
  <2>3. \A c \in Stoppers : stop'[c].pc # "idle" =>
           stop'[c].run \in InTables'
    BY <1>0, <1>4, <2>1
  <2> QED
    BY <1>4, <2>1, <2>2, <2>3, UnwaitedStays
<1>5. ASSUME NEW r \in Runs,
             \/ ChildEnds(r) \/ GrandchildEnds(r)
             \/ \E s \in Streams : ChildWrites(r, s) \/ ReadStream(r, s)
      PROVE  Unwaited'
  <2>1. UNCHANGED <<pid, starter, processes, stop>>
    BY <1>5 DEF ChildEnds, GrandchildEnds, ChildWrites, ReadStream, ReaderReads,
       ReaderCannotDecode, ReaderEnds, ReaderStores
  <2>2. os' = os \/ (os' = [os EXCEPT ![r] = "zombie"] /\ os[r] = "running")
    BY <1>5 DEF ChildEnds, GrandchildEnds, ChildWrites, ReadStream, ReaderReads,
       ReaderCannotDecode, ReaderEnds, ReaderStores
  <2>3. \A q \in Runs : os'[q] = "reaped" <=> os[q] = "reaped"
    BY <1>0, <2>2 DEF Types
  <2> QED
    BY <1>4, <2>1, <2>3
<1>6. ASSUME NEW c \in Stoppers,
             StopTerminate(c) \/ StopMark(c) \/ \E i \in Pids : StopLookup(c, i)
      PROVE  Unwaited'
  <2>1. UNCHANGED <<pid, starter, processes>>
    BY <1>6 DEF StopTerminate, StopMark, StopLookup
  <2>2. \A q \in Runs : q \in InTables => q \in InTables'
    BY <2>1 DEF InTables
  <2>3. os' = os \/ /\ stop[c].pc = "found"
                    /\ os' = [os EXCEPT ![stop[c].run] = IF @ = "zombie" THEN "reaped" ELSE @]
    BY <1>6 DEF StopTerminate, StopMark, StopLookup
  <2>4. \A q \in Runs : /\ os[q] = "reaped" => os'[q] = "reaped"
                        /\ os'[q] = "reaped" => os[q] = "reaped" \/ q \in InTables
    BY <1>0, <2>3 DEF Types
  <2>5. stop'[c].pc # "idle" => stop'[c].run \in InTables
    <3>1. CASE StopTerminate(c)
      <4>1. stop' = [stop EXCEPT ![c] = [stop[c] EXCEPT !.pc = "terminated"]]
            /\ stop[c].pc = "found"
        BY <3>1 DEF StopTerminate
      <4>2. stop'[c].run = stop[c].run
        BY <1>0, <4>1 DEF Types
      <4> QED
        BY <1>0, <4>1, <4>2
    <3>2. CASE StopMark(c)
      BY <1>0, <3>2 DEF StopMark, NoStop, Types
    <3>3. ASSUME NEW i \in Pids, StopLookup(c, i)
          PROVE  stop'[c].run \in InTables
      <4>1. stop'[c].run = processes[i] /\ processes[i] # None
        BY <1>0, <3>3 DEF StopLookup, Types
      <4> QED
        BY <1>0, <4>1
    <3> QED
      BY <1>6, <3>1, <3>2, <3>3
  <2>6. \A d \in Stoppers \ {c} : stop'[d] = stop[d]
    BY <1>0, <1>6 DEF StopTerminate, StopMark, StopLookup, Types
  <2>7. \A d \in Stoppers : stop'[d].pc # "idle" =>
           stop'[d].run \in InTables'
    BY <1>0, <2>2, <2>5, <2>6
  <2>8. \A p \in Pids : processes'[p] # None =>
           processes'[p] \in InTables'
    BY <1>0, <2>1, <2>2
  <2> QED
    BY <2>1, <2>2, <2>4, <2>7, <2>8, UnwaitedStays
<1>7. CASE UNCHANGED vars
  BY <1>4, <1>7 DEF vars
<1> QED
  BY <1>1, <1>2, <1>3, <1>5, <1>6, <1>7 DEF Next, Start

\* Nobody waits for a process that is in no table, nor gets its pid before it was waited for.
THEOREM PidsAreFreed == Spec => []Unwaited
<1>1. Init => Unwaited
  BY DEF Init, Unwaited, NoStop
<1>2. SupervisorInv /\ Unwaited /\ [Next]_vars => Unwaited'
  BY SupervisorAssumption, UnwaitedStep
<1> QED
  BY <1>1, <1>2, SupervisorInvariant, PTL DEF Spec

\* A process that was waited for stays so.
LEMMA StaysReaped ==
    ASSUME Types, [Next]_vars, NEW r \in Runs, os[r] = "reaped"
    PROVE  os'[r] = "reaped"
<1> USE DEF childVars, tableVars
<1>1. \/ os' = os
      \/ \E q \in Runs : \/ os' = [os EXCEPT ![q] = "running"] /\ os[q] = "unborn"
                         \/ os' = [os EXCEPT ![q] = "zombie"] /\ os[q] = "running"
                         \/ os' = [os EXCEPT ![q] = "reaped"]
      \/ \E c \in Stoppers :
            os' = [os EXCEPT ![stop[c].run] = IF @ = "zombie" THEN "reaped" ELSE @]
  <2>1. ASSUME NEW q \in Runs, NEW i \in Pids, Spawn(q, i)
        PROVE  os' = [os EXCEPT ![q] = "running"] /\ os[q] = "unborn"
    BY <2>1 DEF Spawn
  <2>2. ASSUME NEW q \in Runs, NEW s \in Streams, ChildWrites(q, s) \/ ReadStream(q, s)
        PROVE  os' = os
    BY <2>2 DEF ChildWrites, ReadStream, ReaderReads, ReaderCannotDecode, ReaderEnds, ReaderStores
  <2>3. ASSUME NEW q \in Runs, ChildEnds(q) \/ GrandchildEnds(q)
        PROVE  os' = os \/ (os' = [os EXCEPT ![q] = "zombie"] /\ os[q] = "running")
    BY <2>3 DEF ChildEnds, GrandchildEnds
  <2>4. ASSUME NEW q \in Runs, Start(q) \/ Watch(q)
        PROVE  os' = os \/ os' = [os EXCEPT ![q] = "reaped"]
    BY <2>4 DEF Start, Register, StartThreads, Watch, WatchWait, WatchLookup, WatchJoins,
       WatchJoinTimesOut, WatchJoinRaises, WatchFinish
  <2>5. ASSUME NEW c \in Stoppers, StopTerminate(c)
        PROVE  os' = [os EXCEPT ![stop[c].run] = IF @ = "zombie" THEN "reaped" ELSE @]
    BY <2>5 DEF StopTerminate
  <2>6. ASSUME NEW c \in Stoppers, StopMark(c) \/ \E i \in Pids : StopLookup(c, i)
        PROVE  os' = os
    BY <2>6 DEF StopMark, StopLookup
  <2>7. CASE UNCHANGED vars
    BY <2>7 DEF vars
  <2> QED
    BY <2>1, <2>2, <2>3, <2>4, <2>5, <2>6, <2>7 DEF Next
<1> QED
  BY <1>1 DEF Types

\* A process keeps its pid.
LEMMA KeepsPid ==
    ASSUME SupervisorInv, [Next]_vars, NEW r \in Runs, pid[r] \in Pids, None \notin Pids
    PROVE  pid'[r] = pid[r]
<1> USE DEF childVars, tableVars
<1>1. ASSUME NEW q \in Runs, NEW i \in Pids, Spawn(q, i)
      PROVE  pid'[r] = pid[r]
  <2>1. pid' = [pid EXCEPT ![q] = i] /\ pid[q] = None
    BY <1>1 DEF Spawn, SupervisorInv, Registered
  <2> QED
    BY <2>1 DEF SupervisorInv, Types
<1>2. ASSUME NEW q \in Runs, NEW s \in Streams, ChildWrites(q, s) \/ ReadStream(q, s)
      PROVE  pid' = pid
  BY <1>2 DEF ChildWrites, ReadStream, ReaderReads, ReaderCannotDecode, ReaderEnds, ReaderStores
<1>3. ASSUME NEW q \in Runs, ChildEnds(q) \/ GrandchildEnds(q) \/ Start(q) \/ Watch(q)
      PROVE  pid' = pid
  BY <1>3 DEF ChildEnds, GrandchildEnds, Start, Register, StartThreads, Watch, WatchWait,
     WatchLookup, WatchJoins, WatchJoinTimesOut, WatchJoinRaises, WatchFinish
<1>4. ASSUME NEW c \in Stoppers,
             StopTerminate(c) \/ StopMark(c) \/ \E i \in Pids : StopLookup(c, i)
      PROVE  pid' = pid
  BY <1>4 DEF StopTerminate, StopMark, StopLookup
<1>5. CASE UNCHANGED vars
  BY <1>5 DEF vars
<1> QED
  BY <1>1, <1>2, <1>3, <1>4, <1>5 DEF Next

\* A run gets into the tables by Register only, and leaves them by WatchFinish only.
LEMMA TablesChange ==
    ASSUME [Next]_vars
    PROVE  \/ processes' = processes /\ starter' = starter
           \/ \E q \in Runs :
                 \/ Register(q)
                 \/ WatchFinish(q) /\ starter' = starter
                 \/ /\ processes' = processes
                    /\ \/ starter' = [starter EXCEPT ![q] = "spawned"]
                       \/ starter' = [starter EXCEPT ![q] = "answered"]
<1> USE DEF childVars, tableVars
<1>1. ASSUME NEW q \in Runs, (\E i \in Pids : Spawn(q, i)) \/ StartThreads(q)
      PROVE  /\ processes' = processes
             /\ \/ starter' = [starter EXCEPT ![q] = "spawned"]
                \/ starter' = [starter EXCEPT ![q] = "answered"]
  BY <1>1 DEF Spawn, StartThreads
<1>2. ASSUME NEW q \in Runs, NEW s \in Streams, ChildWrites(q, s) \/ ReadStream(q, s)
      PROVE  processes' = processes /\ starter' = starter
  BY <1>2 DEF ChildWrites, ReadStream, ReaderReads, ReaderCannotDecode, ReaderEnds, ReaderStores
<1>3. ASSUME NEW q \in Runs, ChildEnds(q) \/ GrandchildEnds(q)
      PROVE  processes' = processes /\ starter' = starter
  BY <1>3 DEF ChildEnds, GrandchildEnds
<1>4. ASSUME NEW q \in Runs, Watch(q)
      PROVE  (processes' = processes \/ WatchFinish(q)) /\ starter' = starter
  BY <1>4 DEF Watch, WatchWait, WatchLookup, WatchJoins, WatchJoinTimesOut, WatchJoinRaises,
     WatchFinish
<1>5. ASSUME NEW c \in Stoppers,
             StopTerminate(c) \/ StopMark(c) \/ \E i \in Pids : StopLookup(c, i)
      PROVE  processes' = processes /\ starter' = starter
  BY <1>5 DEF StopTerminate, StopMark, StopLookup
<1>6. CASE UNCHANGED vars
  BY <1>6 DEF vars
<1> QED
  BY <1>1, <1>2, <1>3, <1>4, <1>5, <1>6 DEF Next, Start

\* What a step does to the entry under a pid and to the state of a process that was not waited for.
LEMMA EntryStays ==
    ASSUME SupervisorAssumption, SupervisorInv, SupervisorInv', Unwaited, [Next]_vars,
           NEW r \in Runs, r \in InTables, Found(r), os'[r] # "reaped"
    PROVE  Found(r)' \/ LateWatcher(r)
<1> USE DEF childVars, tableVars
<1>0. /\ Types /\ None \notin Pids /\ None \notin Runs
      /\ pid[r] \in Pids /\ processes[pid[r]] = r /\ os[r] \in {"running", "zombie"}
  <2>1. Types /\ None \notin Pids /\ None \notin Runs /\ processes[pid[r]] = r
    BY DEF SupervisorInv, SupervisorAssumption, Found
  <2>2. pid[r] # None /\ os[r] # "unborn"
    BY DEF SupervisorInv, Registered, InTables
  <2>3. os[r] # "reaped"
    BY <2>1, StaysReaped
  <2> QED
    BY <2>1, <2>2, <2>3 DEF Types
<1>1. pid'[r] = pid[r]
  BY <1>0, KeepsPid
<1>2. info'[r].state # "exited"
  <2>1. info'[r].state = "exited" => watcher'[r].pc = "done" /\ os'[r] = "reaped"
    BY DEF SupervisorInv, Registered
  <2> QED
    BY <2>1
<1>3. processes'[pid[r]] = r \/ LateWatcher(r)
  <2>1. CASE processes' = processes
    BY <1>0, <2>1
  <2>2. ASSUME NEW q \in Runs, Register(q)
        PROVE  processes'[pid[r]] = r
    <3>1. /\ processes' = [processes EXCEPT ![pid[q]] = q] /\ starter[q] = "spawned"
      BY <2>2 DEF Register
    <3>2. q # r /\ os[q] # "reaped"
      BY <3>1 DEF InTables, Unwaited
    <3>3. pid[q] # pid[r]
      BY <1>0, <3>2 DEF Unwaited
    <3> QED
      BY <1>0, <3>1, <3>3 DEF Types
  <2>3. ASSUME NEW q \in Runs, WatchFinish(q)
        PROVE  processes'[pid[r]] = r \/ LateWatcher(r)
    <3>1. /\ processes' = [processes EXCEPT ![pid[q]] = None]
          /\ watcher[q].pc = "joining"
          /\ watcher' = [watcher EXCEPT ![q] = [watcher[q] EXCEPT !.pc = "done"]]
      BY <2>3 DEF WatchFinish
    <3>2. watcher[q] \in WatcherRecord
      BY <1>0 DEF Types
    <3>3. watcher'[q].pc = "done"
      BY <1>0, <3>1, <3>2 DEF Types, WatcherRecord
    <3>4. os[q] = "reaped"
      BY <3>1 DEF SupervisorInv, Registered
    <3>5. q # r
      BY <1>0, <3>4
    <3>6. CASE pid[q] = pid[r]
      BY <3>1, <3>3, <3>5, <3>6 DEF LateWatcher
    <3>7. CASE pid[q] # pid[r]
      BY <1>0, <3>1, <3>7 DEF Types
    <3> QED
      BY <3>6, <3>7
  <2>4. processes' = processes \/ \E q \in Runs : Register(q) \/ WatchFinish(q)
    BY TablesChange
  <2> QED
    BY <2>1, <2>2, <2>3, <2>4
<1> QED
  BY <1>0, <1>1, <1>2, <1>3 DEF Found, Shown

(* However many processes and stops there are, whatever pids come back,    *)
(* and however small recent_processes is: a registered process that was    *)
(* not waited for is found under its pid and not called exited, until the  *)
(* late watcher of an earlier process with the same pid pops its entry     *)
(* (agent.py 95-109, 243-263).                                             *)
THEOREM RunningProcessIsFound == Spec => RunningIsFound
<1> DEFINE Step ==
      \A r \in Runs :
          /\ starter[r] = "spawned" /\ starter'[r] = "registered" => Found(r)'
          /\ starter[r] \in {"registered", "answered"} /\ Found(r) /\ os'[r] # "reaped" =>
                Found(r)' \/ LateWatcher(r)
<1>1. SupervisorInv /\ SupervisorInv' /\ Unwaited /\ [Next]_vars => Step
  <2> SUFFICES ASSUME SupervisorInv, SupervisorInv', Unwaited, [Next]_vars, NEW r \in Runs
               PROVE  /\ starter[r] = "spawned" /\ starter'[r] = "registered" => Found(r)'
                      /\ starter[r] \in {"registered", "answered"} /\ Found(r) /\ os'[r] # "reaped" =>
                            Found(r)' \/ LateWatcher(r)
    OBVIOUS
  <2>1. ASSUME starter[r] = "spawned", starter'[r] = "registered"
        PROVE  Found(r)'
    <3>1. Register(r)
      <4>1. \A q \in Runs : Register(q) => starter' = [starter EXCEPT ![q] = "registered"]
        BY DEF Register
      <4>2. starter \in [Runs -> {"unborn", "spawned", "registered", "answered"}]
        BY DEF SupervisorInv, Types
      <4> QED
        BY <2>1, <4>1, <4>2, TablesChange
    <3>2. /\ processes' = [processes EXCEPT ![pid[r]] = r] /\ pid' = pid /\ info' = info
          /\ watcher' = watcher
      BY <3>1 DEF Register, childVars
    <3>3. pid[r] \in Pids /\ processes \in [Pids -> Runs \cup {None}]
      BY <2>1 DEF SupervisorInv, Types, Registered
    <3>4. processes'[pid'[r]] = r
      BY <3>2, <3>3
    <3>5. info'[r].state # "exited"
      BY <2>1, <3>2 DEF SupervisorInv, Registered
    <3>6. r # None
      BY SupervisorAssumption DEF SupervisorAssumption
    <3> QED
      BY <3>4, <3>5, <3>6 DEF Found, Shown
  <2>2. ASSUME starter[r] \in {"registered", "answered"}, Found(r), os'[r] # "reaped"
        PROVE  Found(r)' \/ LateWatcher(r)
    BY <2>2, SupervisorAssumption, EntryStays DEF InTables
  <2> QED
    BY <2>1, <2>2
<1>2. Spec => [][Step]_vars
  <2> HIDE DEF Step
  <2> QED
    BY <1>1, SupervisorInvariant, PidsAreFreed, PTL DEF Spec
<1> QED
  BY <1>2 DEF RunningIsFound

-----------------------------------------------------------------------------
(* A reader that came to the end of its stream left nothing in the pipe,   *)
(* and a watcher waits for the readers of its own run.                     *)
Drained(r) ==
    /\ \A s \in Streams :
          /\ reader[r][s].pc # "unborn" => starter[r] = "answered"
          /\ reader[r][s].pc = "ended" => writers[r] = {} /\ pipe[r][s] = <<>>
    /\ starter[r] # "unborn" => OwnPid(r)
    /\ watcher[r].pc = "joining" => watcher[r].of = r
    /\ watcher[r].pc \in {"joining", "done"} /\ ~watcher[r].timedOut =>
          \A s \in Streams \ watcher[r].left : Over(r, s)
    /\ watcher[r].pc = "done" => watcher[r].left = {}

\* Every step keeps this, when no pid is given twice.
LEMMA DrainedStep ==
    ASSUME SupervisorAssumption, ~PidReuse, SupervisorInv, \A r \in Runs : Drained(r),
           [Next]_vars, NEW q \in Runs
    PROVE  Drained(q)'
<1> USE DEF Drained, OwnPid, Over, childVars, tableVars
<1>0. Types /\ Drained(q) /\ Registered(q)
  BY DEF SupervisorInv
<1>1. ASSUME NEW r \in Runs, NEW i \in Pids, Spawn(r, i)
      PROVE  Drained(q)'
  <2>1. i # None /\ starter[r] = "unborn" /\ \A p \in Runs : pid[p] # i
    BY <1>1 DEF Spawn, SupervisorAssumption, SupervisorInv, Registered, Available
  <2>2. /\ pid' = [pid EXCEPT ![r] = i] /\ starter' = [starter EXCEPT ![r] = "spawned"]
        /\ UNCHANGED <<pipe, reader, watcher>>
        /\ \A p \in Runs \ {r} : writers'[p] = writers[p]
    BY <1>0, <1>1 DEF Spawn, Types
  <2>3. \A s \in Streams : reader[r][s].pc = "unborn"
    BY <2>1
  <2>4. starter'[q] # "unborn" => \A p \in Runs \ {q} : pid'[p] # pid'[q]
    BY <1>0, <2>1, <2>2 DEF Types
  <2>5. q # r => starter'[q] = starter[q] /\ writers'[q] = writers[q]
    BY <1>0, <2>2 DEF Types
  <2>6. \A s \in Streams :
          /\ reader'[q][s].pc # "unborn" => starter'[q] = "answered"
          /\ reader'[q][s].pc = "ended" => writers'[q] = {} /\ pipe'[q][s] = <<>>
    BY <1>0, <2>2, <2>3, <2>5
  <2> QED
    BY <1>0, <2>2, <2>4, <2>6
<1>2. ASSUME NEW r \in Runs, NEW s \in Streams, ChildWrites(r, s)
      PROVE  Drained(q)'
  <2>1. writers[r] # {} /\ UNCHANGED <<pid, writers, starter, reader, watcher>>
    BY <1>2 DEF ChildWrites
  <2>2. q # r => pipe'[q] = pipe[q]
    BY <1>0, <1>2 DEF ChildWrites, Types
  <2> QED
    BY <1>0, <2>1, <2>2
<1>3. ASSUME NEW r \in Runs, ChildEnds(r) \/ GrandchildEnds(r)
      PROVE  Drained(q)'
  <2>1. UNCHANGED <<pid, pipe, starter, reader, watcher>>
    BY <1>3 DEF ChildEnds, GrandchildEnds
  <2>2. writers[q] = {} => writers'[q] = {}
    <3>1. PICK x : writers' = [writers EXCEPT ![r] = writers[r] \ {x}]
      BY <1>3 DEF ChildEnds, GrandchildEnds
    <3>2. writers'[q] = writers[q] \/ writers'[q] = writers[q] \ {x}
      BY <1>0, <3>1 DEF Types
    <3> QED
      BY <3>2
  <2> QED
    BY <1>0, <2>1, <2>2
<1>4. ASSUME NEW r \in Runs, Register(r)
      PROVE  Drained(q)'
  <2>1. /\ starter[r] = "spawned" /\ starter' = [starter EXCEPT ![r] = "registered"]
        /\ UNCHANGED <<pid, pipe, writers, reader, watcher>>
    BY <1>4 DEF Register
  <2>2. starter'[q] = starter[q] \/ (starter[q] = "spawned" /\ starter'[q] = "registered")
    BY <1>0, <2>1 DEF Types
  <2> QED
    BY <1>0, <2>1, <2>2
<1>5. ASSUME NEW r \in Runs, StartThreads(r)
      PROVE  Drained(q)'
  <2>1. /\ starter[r] = "registered" /\ starter' = [starter EXCEPT ![r] = "answered"]
        /\ watcher' = [watcher EXCEPT ![r] = [watcher[r] EXCEPT !.pc = "waiting"]]
        /\ reader' = [reader EXCEPT ![r] = [s \in Streams |-> [pc |-> "reading", line |-> 0]]]
        /\ UNCHANGED <<pid, pipe, writers>>
    BY <1>5 DEF StartThreads
  <2>2. q # r => watcher'[q] = watcher[q] /\ starter'[q] = starter[q] /\ reader'[q] = reader[q]
    BY <1>0, <2>1 DEF Types
  <2>3. watcher'[r].pc = "waiting" /\ starter'[r] = "answered"
    BY <1>0, <2>1 DEF Types, WatcherRecord
  <2>4. \A s \in Streams : reader'[r][s].pc = "reading"
    BY <1>0, <2>1 DEF Types
  <2> QED
    BY <1>0, <2>1, <2>2, <2>3, <2>4
<1>6. ASSUME NEW r \in Runs, NEW s \in Streams, ReadStream(r, s)
      PROVE  Drained(q)'
  <2>1. /\ reader[r][s].pc \in {"reading", "line"} /\ UNCHANGED <<pid, writers, starter, watcher>>
        /\ \E x : reader' = [reader EXCEPT ![r][s] = x]
    BY <1>6 DEF ReadStream, ReaderReads, ReaderCannotDecode, ReaderEnds, ReaderStores
  <2>2. \A t \in Streams : q # r \/ t # s => reader'[q][t] = reader[q][t]
    BY <1>0, <2>1 DEF Types
  <2>3. \A t \in Streams : q # r \/ t # s => pipe'[q][t] = pipe[q][t]
    BY <1>0, <1>6 DEF Types, ReadStream, ReaderReads, ReaderCannotDecode, ReaderEnds, ReaderStores
  <2>4. /\ reader'[r][s].pc # "unborn"
        /\ reader'[r][s].pc = "ended" => writers[r] = {} /\ pipe'[r][s] = <<>>
    <3>1. reader[r][s] \in ReaderRecord
      BY <1>0 DEF Types
    <3>2. CASE ReaderReads(r, s) \/ ReaderStores(r, s)
      BY <1>0, <3>2 DEF Types, ReaderReads, ReaderStores
    <3>3. CASE ReaderCannotDecode(r, s)
      BY <1>0, <3>1, <3>3 DEF Types, ReaderCannotDecode, ReaderRecord
    <3>4. CASE ReaderEnds(r, s)
      BY <1>0, <3>1, <3>4 DEF Types, ReaderEnds, ReaderRecord
    <3> QED
      BY <1>6, <3>2, <3>3, <3>4 DEF ReadStream
  <2>5. \A t \in Streams : Over(q, t) => reader'[q][t] = reader[q][t]
    BY <2>1, <2>2
  <2>6. \A t \in Streams :
          /\ reader'[q][t].pc # "unborn" => starter[q] = "answered"
          /\ reader'[q][t].pc = "ended" => writers[q] = {} /\ pipe'[q][t] = <<>>
    BY <1>0, <2>1, <2>2, <2>3, <2>4
  <2> QED
    BY <1>0, <2>1, <2>5, <2>6
<1>7. ASSUME NEW r \in Runs, Watch(r)
      PROVE  Drained(q)'
  <2>1. /\ UNCHANGED <<pid, writers, pipe, starter, reader>>
        /\ q # r => watcher'[q] = watcher[q]
    <3>1. UNCHANGED <<pid, writers, pipe, starter, reader>>
      BY <1>7 DEF Watch, WatchWait, WatchLookup, WatchFinish, WatchJoins, WatchJoinTimesOut,
         WatchJoinRaises
    <3>2. q # r => watcher'[q] = watcher[q]
      BY <1>0, <1>7, WatchShape DEF Types
    <3> QED
      BY <3>1, <3>2
  <2>2. CASE q # r
    BY <1>0, <2>1, <2>2
  <2>3. CASE q = r
    <3> DEFINE b == watcher[r]
    <3>1. b \in WatcherRecord /\ watcher \in [Runs -> WatcherRecord]
      BY <1>0 DEF Types
    <3>2. CASE WatchWait(r)
      BY <1>0, <2>1, <2>3, <3>1, <3>2 DEF WatchWait, WatcherRecord
    <3>3. CASE WatchLookup(r)
      <4>1. b.pc = "looking" /\ starter[r] = "answered" /\ OwnPid(r)
        BY <1>0, <2>3, <3>3 DEF WatchLookup, Registered
      <4>2. readerThreads[pid[r]] = r /\ r # None
        BY <1>0, <2>3, <4>1 DEF Registered, SupervisorAssumption
      <4>3. watcher' = [watcher EXCEPT ![r] =
                           [b EXCEPT !.pc = "joining", !.of = r, !.left = Streams]]
        BY <3>3, <4>2, ZenonT(30) DEF WatchLookup
      <4>4. watcher'[r].pc = "joining" /\ watcher'[r].of = r /\ watcher'[r].left = Streams
        BY <3>1, <4>3 DEF WatcherRecord
      <4> QED
        BY <1>0, <2>1, <2>3, <4>4
    <3>4. ASSUME NEW s \in Streams, WatchJoins(r, s)
          PROVE  Drained(q)'
      <4>1. watcher' = [watcher EXCEPT ![r] = [b EXCEPT !.left = b.left \ {s}]]
        BY <3>4 DEF WatchJoins
      <4>2. /\ watcher'[r].pc = b.pc /\ watcher'[r].of = b.of
            /\ watcher'[r].left = b.left \ {s} /\ watcher'[r].timedOut = b.timedOut
        BY <3>1, <4>1 DEF WatcherRecord
      <4>3. b.pc = "joining" /\ Over(r, s)
        BY <1>0, <2>3, <3>4 DEF WatchJoins
      <4> QED
        BY <1>0, <2>1, <2>3, <4>2, <4>3
    <3>5. ASSUME NEW s \in Streams, WatchJoinTimesOut(r, s)
          PROVE  Drained(q)'
      <4>1. watcher' = [watcher EXCEPT ![r] =
                           [b EXCEPT !.left = b.left \ {s}, !.timedOut = TRUE]]
        BY <3>5, ZenonT(60) DEF WatchJoinTimesOut
      <4>2. watcher'[r].pc = b.pc /\ watcher'[r].of = b.of /\ watcher'[r].timedOut = TRUE
        BY <3>1, <4>1 DEF WatcherRecord
      <4>3. b.pc = "joining"
        BY <3>5 DEF WatchJoinTimesOut
      <4> QED
        BY <1>0, <2>1, <2>3, <4>2, <4>3
    <3>6. ASSUME NEW s \in Streams, WatchJoinRaises(r, s)
          PROVE  Drained(q)'
      <4>1. watcher'[r].pc = "died"
        BY <3>1, <3>6 DEF WatchJoinRaises, WatcherRecord
      <4> QED
        BY <1>0, <2>1, <2>3, <4>1
    <3>7. CASE WatchFinish(r)
      <4>1. watcher' = [watcher EXCEPT ![r] = [b EXCEPT !.pc = "done"]]
        BY <3>7 DEF WatchFinish
      <4>2. /\ watcher'[r].pc = "done" /\ watcher'[r].left = b.left
            /\ watcher'[r].timedOut = b.timedOut
        BY <3>1, <4>1 DEF WatcherRecord
      <4>3. b.pc = "joining" /\ b.left = {}
        BY <3>7 DEF WatchFinish
      <4> QED
        BY <1>0, <2>1, <2>3, <4>2, <4>3
    <3> QED
      BY <1>7, <3>2, <3>3, <3>4, <3>5, <3>6, <3>7 DEF Watch
  <2> QED
    BY <2>2, <2>3
<1>8. ASSUME NEW c \in Stoppers,
             StopTerminate(c) \/ StopMark(c) \/ \E i \in Pids : StopLookup(c, i)
      PROVE  Drained(q)'
  <2>1. UNCHANGED <<pid, writers, pipe, starter, reader, watcher>>
    BY <1>8 DEF StopTerminate, StopMark, StopLookup
  <2> QED
    BY <1>0, <2>1
<1>9. CASE UNCHANGED vars
  BY <1>0, <1>9 DEF vars
<1> QED
  BY <1>1, <1>2, <1>3, <1>4, <1>5, <1>6, <1>7, <1>8, <1>9 DEF Next, Start

(* Where the operating system gives no pid twice, `exited' comes after the *)
(* output: whatever the pipes hold and the readers do, once a run is       *)
(* finished without a join that timed out, each of its streams was stored  *)
(* to the end or its reader has died (agent.py 95-109).                    *)
THEOREM ExitedIsDrained == ~PidReuse => (Spec => []ExitedMeansDrained)
<1> SUFFICES ASSUME ~PidReuse PROVE Spec => []ExitedMeansDrained
  OBVIOUS
<1> DEFINE AllDrained == \A r \in Runs : Drained(r)
<1>1. Init => AllDrained
  BY DEF Init, Drained
<1>2. SupervisorInv /\ AllDrained /\ [Next]_vars => AllDrained'
  <2> SUFFICES ASSUME SupervisorInv, AllDrained, [Next]_vars PROVE \A r \in Runs : Drained(r)'
    OBVIOUS
  <2> QED
    BY SupervisorAssumption, DrainedStep
<1>3. SupervisorInv /\ AllDrained => ExitedMeansDrained
  <2> SUFFICES ASSUME SupervisorInv, AllDrained, NEW r \in Runs, watcher[r].pc = "done",
                      ~watcher[r].timedOut, NEW s \in Streams, reader[r][s].pc # "died"
               PROVE  Stored(r, s) = written[r][s]
    BY DEF ExitedMeansDrained
  <2>1. watcher[r].left = {} /\ Over(r, s)
    BY DEF Drained
  <2>2. reader[r][s].pc = "ended" /\ pipe[r][s] = <<>>
    BY <2>1 DEF Drained, Over
  <2>3. written[r][s] \in Nat
    BY DEF SupervisorInv, Types
  <2> QED
    BY <2>2, <2>3 DEF Stored
<1> HIDE DEF AllDrained
<1> QED
  BY <1>1, <1>2, <1>3, SupervisorInvariant, PTL DEF Spec

-----------------------------------------------------------------------------
(* The table of the past processes                                         *)

\* An element is taken out of a sequence.
LEMMA TakenOut ==
    ASSUME NEW S, NEW e \in Seq(S), NEW at \in 1..Len(e)
    PROVE  LET out == SubSeq(e, 1, at - 1) \o SubSeq(e, at + 1, Len(e))
           IN  /\ out \in Seq(S) /\ Len(out) = Len(e) - 1
               /\ \A k \in 1..(Len(e) - 1) : out[k] = IF k < at THEN e[k] ELSE e[k + 1]
<1> DEFINE a == SubSeq(e, 1, at - 1)
           b == SubSeq(e, at + 1, Len(e))
<1>1. at \in Nat /\ at >= 1 /\ at <= Len(e) /\ Len(e) \in Nat /\ \A k \in 1..Len(e) : e[k] \in S
  OBVIOUS
<1>2. /\ a \in Seq(S) /\ Len(a) = at - 1 /\ \A k \in 1..(at - 1) : a[k] = e[k]
  <2>1. \A k \in 1..(at - 1) : e[k] \in S
    BY <1>1
  <2>2. /\ a \in Seq(S) /\ Len(a) = IF 1 <= at - 1 THEN at - 1 - 1 + 1 ELSE 0
        /\ \A k \in 1..(at - 1 - 1 + 1) : a[k] = e[1 + k - 1]
    BY <1>1, <2>1, SubSeqProperties
  <2> HIDE DEF a
  <2> QED
    BY <1>1, <2>2
<1>3. /\ b \in Seq(S) /\ Len(b) = Len(e) - at /\ \A k \in 1..(Len(e) - at) : b[k] = e[at + k]
  <2>1. \A k \in (at + 1)..Len(e) : e[k] \in S
    BY <1>1
  <2>2. /\ b \in Seq(S) /\ Len(b) = IF at + 1 <= Len(e) THEN Len(e) - (at + 1) + 1 ELSE 0
        /\ \A k \in 1..(Len(e) - (at + 1) + 1) : b[k] = e[at + 1 + k - 1]
    BY <1>1, <2>1, SubSeqProperties
  <2> HIDE DEF b
  <2> QED
    BY <1>1, <2>2
<1> HIDE DEF a, b
<1>4. /\ a \o b \in Seq(S) /\ Len(a \o b) = Len(a) + Len(b)
      /\ \A k \in 1..(Len(a) + Len(b)) :
            (a \o b)[k] = IF k <= Len(a) THEN a[k] ELSE b[k - Len(a)]
  BY <1>2, <1>3, ConcatProperties
<1> DEFINE out == a \o b
<1>5. out \in Seq(S) /\ Len(out) = Len(e) - 1
  BY <1>1, <1>2, <1>3, <1>4
<1>6. ASSUME NEW k \in 1..(Len(e) - 1) PROVE out[k] = IF k < at THEN e[k] ELSE e[k + 1]
  <2>1. out[k] = IF k <= at - 1 THEN a[k] ELSE b[k - (at - 1)]
    BY <1>1, <1>2, <1>3, <1>4
  <2> HIDE DEF out
  <2>2. CASE k < at
    <3>1. k <= at - 1 /\ k \in 1..(at - 1)
      BY <1>1, <2>2
    <3> QED
      BY <1>2, <2>1, <2>2, <3>1
  <2>3. CASE ~(k < at)
    <3>1. ~(k <= at - 1) /\ k - (at - 1) \in 1..(Len(e) - at) /\ at + (k - (at - 1)) = k + 1
      BY <1>1, <2>3
    <3>2. b[k - (at - 1)] = e[at + (k - (at - 1))]
      BY <1>3, <3>1
    <3> QED
      BY <2>1, <2>3, <3>1, <3>2
  <2> QED
    BY <2>2, <2>3
<1> QED
  BY <1>5, <1>6 DEF a, b

Entry == [pid : Pids, run : Runs]

\* A table has one entry under a key.
Table(entries) == \A j, k \in DOMAIN entries : entries[j].pid = entries[k].pid => j = k

\* The entries of the other pids are those of the table but one, in their order.
LEMMA OthersFacts ==
    ASSUME NEW entries \in Seq(Entry), Table(entries), NEW i \in Pids
    PROVE  LET others == Others(entries, i)
           IN  /\ others \in Seq(Entry) /\ Table(others)
               /\ \A k \in DOMAIN others :
                     others[k].pid # i /\ \E j \in DOMAIN entries : others[k] = entries[j]
<1>1. CASE \A k \in DOMAIN entries : entries[k].pid # i
  <2>1. Others(entries, i) = entries
    BY <1>1 DEF Others
  <2> QED
    BY <1>1, <2>1
<1>2. CASE \E k \in DOMAIN entries : entries[k].pid = i
  <2> DEFINE at == CHOOSE k \in DOMAIN entries : entries[k].pid = i
             others == SubSeq(entries, 1, at - 1) \o SubSeq(entries, at + 1, Len(entries))
  <2>1. at \in DOMAIN entries /\ entries[at].pid = i
    BY <1>2
  <2>2. Others(entries, i) = others
    BY <1>2 DEF Others
  <2>3. DOMAIN entries = 1..Len(entries) /\ Len(entries) \in Nat
    OBVIOUS
  <2> HIDE DEF at
  <2>4. /\ others \in Seq(Entry) /\ Len(others) = Len(entries) - 1
        /\ \A k \in 1..(Len(entries) - 1) :
              others[k] = IF k < at THEN entries[k] ELSE entries[k + 1]
    BY <2>1, <2>3, TakenOut
  <2> HIDE DEF others
  <2>5. DOMAIN others = 1..(Len(entries) - 1)
    BY <2>4
  <2> DEFINE from(k) == IF k < at THEN k ELSE k + 1
  <2>6. ASSUME NEW k \in DOMAIN others
        PROVE  /\ from(k) \in DOMAIN entries /\ from(k) # at
               /\ others[k] = entries[from(k)]
    BY <2>1, <2>3, <2>4, <2>5
  <2>7. ASSUME NEW j \in DOMAIN others, NEW k \in DOMAIN others, from(j) = from(k)
        PROVE  j = k
    BY <2>1, <2>3, <2>5, <2>7
  <2> HIDE DEF from
  <2>8. Table(others)
    BY <2>6, <2>7 DEF Table
  <2>9. \A k \in DOMAIN others :
            others[k].pid # i /\ \E j \in DOMAIN entries : others[k] = entries[j]
    BY <2>1, <2>6 DEF Table
  <2> QED
    BY <2>2, <2>4, <2>8, <2>9
<1> QED
  BY <1>1, <1>2

\* Trimming keeps the last entries, MaxRecent at most.
LEMMA TrimFacts ==
    ASSUME SupervisorAssumption, NEW entries \in Seq(Entry), Table(entries)
    PROVE  /\ Trim(entries) \in Seq(Entry) /\ Table(Trim(entries)) /\ Len(Trim(entries)) <= MaxRecent
           /\ \A k \in DOMAIN Trim(entries) : \E j \in DOMAIN entries : Trim(entries)[k] = entries[j]
<1>0. /\ MaxRecent \in Nat /\ MaxRecent >= 1 /\ Len(entries) \in Nat
      /\ DOMAIN entries = 1..Len(entries)
  BY DEF SupervisorAssumption
<1>1. CASE Len(entries) <= MaxRecent
  BY <1>0, <1>1 DEF Trim
<1>2. CASE ~(Len(entries) <= MaxRecent)
  <2> DEFINE m == Len(entries) - MaxRecent
             last == SubSeq(entries, m + 1, Len(entries))
  <2>1. m \in Nat /\ m + 1 <= Len(entries) /\ Len(entries) = m + MaxRecent
    BY <1>0, <1>2
  <2>2. Trim(entries) = last
    BY <1>2 DEF Trim
  <2> HIDE DEF m
  <2>3. \A k \in (m + 1)..Len(entries) : entries[k] \in Entry
    BY <1>0, <2>1
  <2>4. /\ last \in Seq(Entry)
        /\ Len(last) = IF m + 1 <= Len(entries) THEN Len(entries) - (m + 1) + 1 ELSE 0
        /\ \A k \in 1..(Len(entries) - (m + 1) + 1) : last[k] = entries[m + 1 + k - 1]
    BY <1>0, <2>1, <2>3, SubSeqProperties
  <2> HIDE DEF last
  <2>5. /\ DOMAIN last = 1..MaxRecent /\ Len(last) = MaxRecent
        /\ \A k \in 1..MaxRecent : last[k] = entries[m + k] /\ m + k \in DOMAIN entries
    <3>1. Len(last) = MaxRecent /\ DOMAIN last = 1..Len(last)
      BY <1>0, <2>1, <2>4
    <3>2. ASSUME NEW k \in 1..MaxRecent PROVE last[k] = entries[m + k] /\ m + k \in DOMAIN entries
      <4>1. k \in 1..(Len(entries) - (m + 1) + 1) /\ m + 1 + k - 1 = m + k /\ m + k \in 1..Len(entries)
        BY <1>0, <2>1
      <4> QED
        BY <1>0, <2>4, <4>1
    <3> QED
      BY <3>1, <3>2
  <2>6. Table(last)
    <3>1. ASSUME NEW j \in DOMAIN last, NEW k \in DOMAIN last, last[j].pid = last[k].pid
          PROVE  j = k
      <4>1. m + j = m + k
        BY <2>5, <3>1 DEF Table
      <4> QED
        BY <1>0, <2>1, <2>5, <4>1
    <3> QED
      BY <3>1 DEF Table
  <2> QED
    BY <1>0, <2>2, <2>4, <2>5, <2>6
<1> QED
  BY <1>1, <1>2

\* The table has one entry for a pid and at most MaxRecent of them, each of a process that had
\* the pid; so has the table of the running ones.
RecentOK ==
    /\ recent \in Seq(Entry) /\ Len(recent) <= MaxRecent /\ Table(recent)
    /\ \A k \in DOMAIN recent : pid[recent[k].run] = recent[k].pid
    /\ \A i \in Pids : processes[i] # None => pid[processes[i]] = i

\* A run is put at the end of the table, under its pid.
LEMMA RememberFacts ==
    ASSUME SupervisorAssumption, RecentOK, NEW r \in Runs, pid[r] \in Pids, Remember(r)
    PROVE  /\ recent' \in Seq(Entry) /\ Len(recent') <= MaxRecent /\ Table(recent')
           /\ \A k \in DOMAIN recent' :
                 \/ recent'[k] = [pid |-> pid[r], run |-> r]
                 \/ \E j \in DOMAIN recent : recent'[k] = recent[j]
<1> DEFINE others == Others(recent, pid[r])
           entry == [pid |-> pid[r], run |-> r]
           all == Append(others, entry)
<1>1. /\ others \in Seq(Entry) /\ Table(others)
      /\ \A k \in DOMAIN others :
            others[k].pid # pid[r] /\ \E j \in DOMAIN recent : others[k] = recent[j]
  BY OthersFacts DEF RecentOK
<1>2. entry \in Entry /\ entry.pid = pid[r]
  BY DEF Entry
<1>3. recent' = Trim(all)
  BY DEF Remember
<1> HIDE DEF others, entry
<1>4. /\ all \in Seq(Entry) /\ Len(all) = Len(others) + 1 /\ all[Len(others) + 1] = entry
      /\ \A k \in 1..Len(others) : all[k] = others[k]
  BY <1>1, <1>2, AppendProperties
<1> HIDE DEF all
<1>5. /\ DOMAIN all = 1..(Len(others) + 1) /\ DOMAIN others = 1..Len(others)
      /\ Len(others) \in Nat
  BY <1>1, <1>4
<1>6. Table(all)
  <2>1. ASSUME NEW j \in DOMAIN all, NEW k \in DOMAIN all, all[j].pid = all[k].pid
        PROVE  j = k
    <3>1. CASE j \in DOMAIN others /\ k \in DOMAIN others
      BY <1>1, <1>4, <1>5, <2>1, <3>1 DEF Table
    <3>2. CASE j = Len(others) + 1 /\ k = Len(others) + 1
      BY <3>2
    <3>3. CASE j = Len(others) + 1 /\ k \in DOMAIN others
      BY <1>1, <1>2, <1>4, <1>5, <2>1, <3>3
    <3>4. CASE k = Len(others) + 1 /\ j \in DOMAIN others
      BY <1>1, <1>2, <1>4, <1>5, <2>1, <3>4
    <3> QED
      BY <1>5, <3>1, <3>2, <3>3, <3>4
  <2> QED
    BY <2>1 DEF Table
<1>7. /\ Trim(all) \in Seq(Entry) /\ Table(Trim(all)) /\ Len(Trim(all)) <= MaxRecent
      /\ \A k \in DOMAIN Trim(all) : \E j \in DOMAIN all : Trim(all)[k] = all[j]
  BY <1>4, <1>6, TrimFacts
<1>8. ASSUME NEW k \in DOMAIN recent'
      PROVE  recent'[k] = entry \/ \E j \in DOMAIN recent : recent'[k] = recent[j]
  <2>1. PICK j \in DOMAIN all : recent'[k] = all[j]
    BY <1>3, <1>7
  <2>2. j = Len(others) + 1 \/ j \in DOMAIN others
    BY <1>5
  <2> QED
    BY <1>1, <1>4, <1>5, <2>1, <2>2
<1>9. /\ recent' \in Seq(Entry) /\ Len(recent') <= MaxRecent /\ Table(recent')
  BY <1>3, <1>7 DEF Table
<1> QED
  BY <1>8, <1>9 DEF entry

\* A step that keeps the tables and the pids they name.
LEMMA TablesStay ==
    ASSUME RecentOK, UNCHANGED <<recent, processes, pid>>
    PROVE  RecentOK'
BY DEF RecentOK, Table

\* Every step keeps the tables.
LEMMA RecentStep ==
    ASSUME SupervisorAssumption, SupervisorInv, RecentOK, [Next]_vars
    PROVE  RecentOK'
<1> USE DEF childVars, tableVars
<1>0. /\ Types /\ None \notin Pids /\ None \notin Runs
      /\ recent \in Seq(Entry) /\ Len(recent) <= MaxRecent /\ Table(recent)
      /\ \A k \in DOMAIN recent : pid[recent[k].run] = recent[k].pid
      /\ \A i \in Pids : processes[i] # None => pid[processes[i]] = i
  BY DEF SupervisorInv, SupervisorAssumption, RecentOK
<1>1. \A k \in DOMAIN recent : recent[k] \in Entry /\ recent[k].pid \in Pids /\ recent[k].run \in Runs
  <2>1. \A k \in DOMAIN recent : recent[k] \in Entry
    BY <1>0
  <2> QED
    BY <2>1 DEF Entry
<1>2. ASSUME NEW r \in Runs, NEW i \in Pids, Spawn(r, i)
      PROVE  RecentOK'
  <2>1. /\ pid' = [pid EXCEPT ![r] = i] /\ recent' = recent /\ processes' = processes
        /\ os[r] = "unborn"
    BY <1>2 DEF Spawn
  <2>2. pid[r] = None
    BY <2>1 DEF SupervisorInv, Registered
  <2>3. pid \in [Runs -> Pids \cup {None}] /\ processes \in [Pids -> Runs \cup {None}]
    BY <1>0 DEF Types
  <2>4. \A k \in DOMAIN recent : pid'[recent[k].run] = recent[k].pid
    BY <1>0, <1>1, <2>1, <2>2, <2>3
  <2>5. \A p \in Pids : processes[p] # None => pid'[processes[p]] = p
    BY <1>0, <2>1, <2>2, <2>3
  <2> QED
    BY <1>0, <2>1, <2>4, <2>5 DEF RecentOK, Table
<1>3. ASSUME NEW r \in Runs, Remember(r), pid' = pid, pid[r] \in Pids,
             processes' \in {[processes EXCEPT ![pid[r]] = r], [processes EXCEPT ![pid[r]] = None]}
      PROVE  RecentOK'
  <2>1. /\ recent' \in Seq(Entry) /\ Len(recent') <= MaxRecent /\ Table(recent')
        /\ \A k \in DOMAIN recent' :
              \/ recent'[k] = [pid |-> pid[r], run |-> r]
              \/ \E j \in DOMAIN recent : recent'[k] = recent[j]
    BY <1>3, RememberFacts
  <2>2. \A k \in DOMAIN recent' : pid[recent'[k].run] = recent'[k].pid
    BY <1>0, <2>1
  <2>3. \A p \in Pids : processes'[p] # None => pid[processes'[p]] = p
    <3> SUFFICES ASSUME NEW p \in Pids, processes'[p] # None PROVE pid[processes'[p]] = p
      OBVIOUS
    <3>1. processes \in [Pids -> Runs \cup {None}]
      BY <1>0 DEF Types
    <3>2. CASE p = pid[r]
      <4>1. processes'[p] \in {r, None}
        BY <1>3, <3>1, <3>2
      <4> QED
        BY <3>2, <4>1
    <3>3. CASE p # pid[r]
      <4>1. processes'[p] = processes[p]
        BY <1>3, <3>1, <3>3
      <4> QED
        BY <1>0, <4>1
    <3> QED
      BY <3>2, <3>3
  <2> QED
    BY <1>3, <2>1, <2>2, <2>3 DEF RecentOK, Table
<1>4. ASSUME NEW r \in Runs, Register(r)
      PROVE  RecentOK'
  <2>1. pid[r] \in Pids
    BY <1>0, <1>4 DEF Register, SupervisorInv, Registered, Types
  <2> QED
    BY <1>3, <1>4, <2>1 DEF Register
<1>5. ASSUME NEW r \in Runs, WatchFinish(r)
      PROVE  RecentOK'
  <2>1. watcher[r].pc = "joining"
    BY <1>5 DEF WatchFinish
  <2>2. pid[r] \in Pids
    BY <1>0, <2>1 DEF SupervisorInv, Registered, Types
  <2> QED
    BY <1>3, <1>5, <2>2 DEF WatchFinish
<1>6. ASSUME NEW r \in Runs, Watch(r), ~WatchFinish(r)
      PROVE  RecentOK'
  <2>1. UNCHANGED <<recent, processes, pid>>
    BY <1>6 DEF Watch, WatchWait, WatchLookup, WatchJoins, WatchJoinTimesOut, WatchJoinRaises
  <2> QED
    BY <2>1, TablesStay
<1>7. ASSUME NEW r \in Runs,
             \/ StartThreads(r) \/ ChildEnds(r) \/ GrandchildEnds(r)
             \/ \E s \in Streams : ChildWrites(r, s) \/ ReadStream(r, s)
      PROVE  RecentOK'
  <2>1. UNCHANGED <<recent, processes, pid>>
    BY <1>7 DEF StartThreads, ChildEnds, GrandchildEnds, ChildWrites, ReadStream, ReaderReads,
       ReaderCannotDecode, ReaderEnds, ReaderStores
  <2> QED
    BY <2>1, TablesStay
<1>8. ASSUME NEW c \in Stoppers,
             StopTerminate(c) \/ StopMark(c) \/ \E i \in Pids : StopLookup(c, i)
      PROVE  RecentOK'
  <2>1. UNCHANGED <<recent, processes, pid>>
    BY <1>8 DEF StopTerminate, StopMark, StopLookup
  <2> QED
    BY <2>1, TablesStay
<1>9. CASE UNCHANGED vars
  BY <1>9, TablesStay DEF vars
<1> QED
  BY <1>2, <1>4, <1>5, <1>6, <1>7, <1>8, <1>9 DEF Next, Start

\* The tables are kept by every behaviour.
THEOREM SupervisorTables == Spec => []RecentOK
<1>1. Init => RecentOK
  <2> SUFFICES ASSUME Init PROVE RecentOK
    OBVIOUS
  <2>1. recent = <<>> /\ processes = [i \in Pids |-> None]
    BY DEF Init
  <2>2. recent \in Seq(Entry) /\ Len(recent) = 0 /\ DOMAIN recent = {}
    BY <2>1
  <2> QED
    BY SupervisorAssumption, <2>1, <2>2 DEF RecentOK, Table, SupervisorAssumption
<1>2. SupervisorInv /\ RecentOK /\ [Next]_vars => RecentOK'
  BY SupervisorAssumption, RecentStep
<1> QED
  BY <1>1, <1>2, SupervisorInvariant, PTL DEF Spec

(* What a pid is answered with is a process that had the pid, one at most, *)
(* however often it is reused and evicted, and there are never more past   *)
(* processes than the bound (agent.py 105-109, 243-249, 264-269).          *)
THEOREM TablesNameTheirPid ==
    Spec => [](/\ Len(recent) <= MaxRecent
               /\ \A i \in Pids : \A q, r \in Shown(i) : q = r /\ pid[r] = i)
<1>1. RecentOK => /\ Len(recent) <= MaxRecent
                  /\ \A i \in Pids : \A q, r \in Shown(i) : q = r /\ pid[r] = i
  <2> SUFFICES ASSUME RecentOK, NEW i \in Pids, NEW q \in Shown(i), NEW r \in Shown(i)
               PROVE  q = r /\ pid[r] = i
    BY DEF RecentOK
  <2>1. CASE processes[i] # None
    BY <2>1 DEF Shown, RecentOK
  <2>2. CASE processes[i] = None
    <3>1. PICK j \in DOMAIN recent : recent[j].pid = i /\ q = recent[j].run
      BY <2>2 DEF Shown, InRecent
    <3>2. PICK k \in DOMAIN recent : recent[k].pid = i /\ r = recent[k].run
      BY <2>2 DEF Shown, InRecent
    <3>3. j = k
      BY <3>1, <3>2 DEF RecentOK, Table
    <3> QED
      BY <3>1, <3>2, <3>3 DEF RecentOK
  <2> QED
    BY <2>1, <2>2
<1> QED
  BY <1>1, SupervisorTables, PTL

(* Every variable of the supervisor has the type of its counterpart.       *)
THEOREM SupervisorTypeOK == Spec => []TypeOK
<1>1. SupervisorInv /\ RecentOK => TypeOK
  BY DEF SupervisorInv, Types, RecentOK, Entry, TypeOK, ReaderRecord, WatcherRecord, InfoRecord,
     OutputRecord
<1> QED
  BY <1>1, SupervisorInvariant, SupervisorTables, PTL

-----------------------------------------------------------------------------
(* The kept output                                                         *)

\* The lines that left a pipe.
Taken(r, s) == written[r][s] - Len(pipe[r][s])

\* A pipe holds the last lines written to it; the reader has the one it took last.
StreamOK(r, s) ==
    /\ Taken(r, s) >= 0
    /\ \A k \in 1..Len(pipe[r][s]) : pipe[r][s][k] = Taken(r, s) + k
    /\ reader[r][s].pc = "line" => reader[r][s].line = Taken(r, s)
    /\ reader[r][s].pc \in {"line", "died"} => Taken(r, s) >= 1
    /\ reader[r][s].pc # "unborn" => starter[r] = "answered"

\* The later records of the same stream.
Later(out, i) == {j \in DOMAIN out : j > i /\ out[j].stream = out[i].stream}

\* Of each stream the last lines up to the count f, in order and without a gap.
UpTo(out, f) ==
    \A i \in DOMAIN out : out[i].line = f[out[i].stream] - Cardinality(Later(out, i))

\* The kept output of a run is the last part of what was stored, and the count is right.
OutputOK(r) ==
    /\ UpTo(info[r].output, [s \in Streams |-> Stored(r, s)])
    /\ IsFiniteSet(StoredLines(r))
    /\ info[r].count = Cardinality(StoredLines(r))
    /\ Len(info[r].output) = IF info[r].count < MaxOutput THEN info[r].count ELSE MaxOutput

OutputInv == \A r \in Runs : OutputOK(r) /\ \A s \in Streams : StreamOK(r, s)

\* The later records of a stream are finitely many.
LEMMA LaterType ==
    ASSUME NEW out \in Seq(OutputRecord), NEW i \in DOMAIN out
    PROVE  /\ IsFiniteSet(Later(out, i)) /\ Cardinality(Later(out, i)) \in Nat
           /\ out[i].stream \in Streams /\ out[i].line \in Nat
           /\ DOMAIN out = 1..Len(out) /\ Len(out) \in Nat
<1>1. DOMAIN out = 1..Len(out) /\ Len(out) \in Nat /\ out[i] \in OutputRecord
  OBVIOUS
<1>2. IsFiniteSet(1..Len(out))
  BY <1>1, FS_Interval
<1>3. Later(out, i) \in SUBSET (1..Len(out))
  BY <1>1 DEF Later
<1>4. IsFiniteSet(Later(out, i))
  BY <1>2, <1>3, FS_Subset
<1>5. Cardinality(Later(out, i)) \in Nat
  BY <1>4, FS_CardinalityType
<1> QED
  BY <1>1, <1>4, <1>5 DEF OutputRecord

\* The next line of a stream is appended.
LEMMA UpToAppend ==
    ASSUME NEW out \in Seq(OutputRecord), NEW f \in [Streams -> Nat], UpTo(out, f),
           NEW s \in Streams
    PROVE  UpTo(Append(out, [stream |-> s, line |-> f[s] + 1]), [f EXCEPT ![s] = f[s] + 1])
<1> DEFINE record == [stream |-> s, line |-> f[s] + 1]
           new == Append(out, record)
           g == [f EXCEPT ![s] = f[s] + 1]
           n == Len(out)
<1>1. record \in OutputRecord /\ record.stream = s /\ record.line = f[s] + 1
  BY DEF OutputRecord
<1>2. f[s] \in Nat /\ g[s] = f[s] + 1 /\ \A t \in Streams : t # s => g[t] = f[t]
  OBVIOUS
<1> HIDE DEF record, g
<1>3. /\ new \in Seq(OutputRecord) /\ Len(new) = Len(out) + 1 /\ new[Len(out) + 1] = record
      /\ \A i \in 1..Len(out) : new[i] = out[i]
  BY <1>1, AppendProperties
<1> HIDE DEF new
<1>4. /\ DOMAIN out = 1..n /\ n \in Nat /\ DOMAIN new = 1..(n + 1)
      /\ new[n + 1] = record /\ \A i \in 1..n : new[i] = out[i]
  BY <1>3
<1> HIDE DEF n
<1>5. CASE TRUE
  <2> SUFFICES ASSUME NEW i \in DOMAIN new
               PROVE  new[i].line = g[new[i].stream] - Cardinality(Later(new, i))
    BY DEF UpTo, new, g, record
  <2>1. CASE i = n + 1
    <3>1. Later(new, i) = {}
      BY <1>4, <2>1 DEF Later
    <3>2. Cardinality(Later(new, i)) = 0
      BY <3>1, FS_EmptySet
    <3>3. new[i].line = f[s] + 1 /\ g[new[i].stream] = f[s] + 1
      BY <1>1, <1>2, <1>4, <2>1
    <3> QED
      BY <1>2, <3>2, <3>3
  <2>2. CASE i # n + 1
    <3>1. i \in DOMAIN out /\ new[i] = out[i] /\ i \in 1..n
      BY <1>4, <2>2
    <3>2. /\ IsFiniteSet(Later(out, i)) /\ Cardinality(Later(out, i)) \in Nat
          /\ out[i].stream \in Streams
      BY <3>1, LaterType
    <3>3. out[i].line = f[out[i].stream] - Cardinality(Later(out, i))
      BY <3>1 DEF UpTo
    <3>4. CASE out[i].stream = s
      <4>1. Later(new, i) = Later(out, i) \cup {n + 1}
        BY <1>1, <1>4, <3>1, <3>4 DEF Later
      <4>2. n + 1 \notin Later(out, i)
        BY <1>4 DEF Later
      <4>3. Cardinality(Later(new, i)) = Cardinality(Later(out, i)) + 1
        BY <3>2, <4>1, <4>2, FS_AddElement
      <4> QED
        BY <1>2, <3>1, <3>2, <3>3, <3>4, <4>3
    <3>5. CASE out[i].stream # s
      <4>1. Later(new, i) = Later(out, i)
        BY <1>1, <1>4, <3>1, <3>5 DEF Later
      <4>2. g[out[i].stream] = f[out[i].stream]
        BY <1>2, <3>2, <3>5
      <4> QED
        BY <3>1, <3>3, <4>1, <4>2
    <3> QED
      BY <3>4, <3>5
  <2> QED
    BY <2>1, <2>2
<1> QED
  BY <1>5

\* The oldest line is dropped.
LEMMA UpToTail ==
    ASSUME NEW out \in Seq(OutputRecord), NEW f, UpTo(out, f), out # <<>>
    PROVE  UpTo(Tail(out), f)
<1> DEFINE new == Tail(out)
           n == Len(out)
<1>1. /\ new \in Seq(OutputRecord) /\ DOMAIN new = 1..(n - 1) /\ DOMAIN out = 1..n
      /\ n \in Nat /\ n >= 1 /\ \A i \in 1..(n - 1) : new[i] = out[i + 1]
  OBVIOUS
<1> HIDE DEF new, n
<1> SUFFICES ASSUME NEW i \in DOMAIN new
             PROVE  new[i].line = f[new[i].stream] - Cardinality(Later(new, i))
  BY DEF UpTo, new
<1> DEFINE S == Later(new, i)
           T == Later(out, i + 1)
           h == [j \in S |-> j + 1]
<1>2. i + 1 \in DOMAIN out /\ new[i] = out[i + 1]
  BY <1>1
<1>3. \A j \in S : j \in 1..(n - 1) /\ j > i /\ new[j].stream = new[i].stream
  BY <1>1 DEF Later
<1>4. \A j \in S : j + 1 \in T
  BY <1>1, <1>2, <1>3 DEF Later
<1>5. \A k \in T : \E j \in S : j + 1 = k
  <2> SUFFICES ASSUME NEW k \in T PROVE \E j \in S : j + 1 = k
    OBVIOUS
  <2>1. k \in 1..n /\ k > i + 1 /\ out[k].stream = out[i + 1].stream
    BY <1>1 DEF Later
  <2>2. k - 1 \in 1..(n - 1) /\ k - 1 > i /\ k - 1 + 1 = k
    BY <1>1, <2>1
  <2>3. new[k - 1] = out[k]
    BY <1>1, <2>2
  <2>4. k - 1 \in S
    BY <1>1, <1>2, <2>1, <2>2, <2>3 DEF Later
  <2> QED
    BY <2>2, <2>4
<1>6. IsFiniteSet(S)
  BY <1>1, LaterType
<1>7. S \subseteq Int
  BY <1>3
<1> HIDE DEF S, T
<1>8. h \in Bijection(S, T)
  <2>1. h \in [S -> T] /\ \A j \in S : h[j] = j + 1
    BY <1>4
  <2>2. \A j, k \in S : j + 1 = k + 1 => j = k
    BY <1>7
  <2> HIDE DEF h
  <2> QED
    BY <1>5, <2>1, <2>2 DEF Bijection, Injection, Surjection, IsInjective
<1>9. ExistsBijection(S, T)
  BY <1>8 DEF ExistsBijection
<1>10. Cardinality(T) = Cardinality(S)
  BY <1>6, <1>9, FS_Bijection
<1>11. out[i + 1].line = f[out[i + 1].stream] - Cardinality(T)
  BY <1>2 DEF UpTo, T
<1> QED
  BY <1>2, <1>10, <1>11 DEF S

\* What the bounded list keeps, and how long it is.
LEMMA KeptFacts ==
    ASSUME SupervisorAssumption, NEW out \in Seq(OutputRecord), NEW f \in [Streams -> Nat],
           UpTo(out, f), NEW s \in Streams, Len(out) <= MaxOutput
    PROVE  LET kept == Kept(out, [stream |-> s, line |-> f[s] + 1])
           IN  /\ UpTo(kept, [f EXCEPT ![s] = f[s] + 1])
               /\ Len(kept) = IF Len(out) < MaxOutput THEN Len(out) + 1 ELSE MaxOutput
<1> DEFINE record == [stream |-> s, line |-> f[s] + 1]
           all == Append(out, record)
           g == [f EXCEPT ![s] = f[s] + 1]
<1>1. record \in OutputRecord
  BY DEF OutputRecord
<1>2. UpTo(all, g)
  BY UpToAppend
<1> HIDE DEF record, g
<1>3. all \in Seq(OutputRecord) /\ Len(all) = Len(out) + 1 /\ Len(out) \in Nat
  BY <1>1, AppendProperties
<1>4. Kept(out, record) = IF Len(all) <= MaxOutput THEN all ELSE Tail(all)
  BY DEF Kept
<1> HIDE DEF all
<1>5. all # <<>>
  BY <1>3
<1>6. Tail(all) \in Seq(OutputRecord) /\ Len(Tail(all)) = Len(all) - 1
  BY <1>3, <1>5
<1>7. UpTo(Tail(all), g)
  BY <1>2, <1>3, <1>5, UpToTail
<1>8. MaxOutput \in Nat
  BY DEF SupervisorAssumption
<1>9. /\ UpTo(Kept(out, record), g)
      /\ Len(Kept(out, record)) = IF Len(out) < MaxOutput THEN Len(out) + 1 ELSE MaxOutput
  <2>1. CASE Len(all) <= MaxOutput
    BY <1>2, <1>3, <1>4, <1>8, <2>1
  <2>2. CASE ~(Len(all) <= MaxOutput)
    BY <1>3, <1>4, <1>6, <1>7, <1>8, <2>2
  <2> QED
    BY <2>1, <2>2
<1> QED
  BY <1>9 DEF record, g

\* The numbers of a stream.
LEMMA StreamNumbers ==
    ASSUME Types, NEW r \in Runs, NEW s \in Streams, StreamOK(r, s)
    PROVE  /\ Taken(r, s) \in Nat /\ Stored(r, s) \in Nat
           /\ Stored(r, s) = Taken(r, s) - (IF reader[r][s].pc \in {"line", "died"} THEN 1 ELSE 0)
           /\ pipe[r][s] \in Seq(Nat) /\ Len(pipe[r][s]) \in Nat /\ written[r][s] \in Nat
           /\ written[r][s] = Taken(r, s) + Len(pipe[r][s])
           /\ reader[r][s] \in ReaderRecord
<1>1. /\ pipe[r][s] \in Seq(Nat) /\ Len(pipe[r][s]) \in Nat /\ written[r][s] \in Nat
      /\ reader[r][s] \in ReaderRecord
  BY DEF Types
<1>2. Taken(r, s) = written[r][s] - Len(pipe[r][s])
  BY DEF Taken
<1>3. Taken(r, s) \in Nat /\ written[r][s] = Taken(r, s) + Len(pipe[r][s])
  BY <1>1, <1>2 DEF StreamOK
<1>4. Stored(r, s) = Taken(r, s) - (IF reader[r][s].pc \in {"line", "died"} THEN 1 ELSE 0)
  BY <1>2 DEF Stored
<1>5. reader[r][s].pc \in {"line", "died"} => Taken(r, s) >= 1
  BY DEF StreamOK
<1> HIDE DEF Taken
<1>6. Stored(r, s) \in Nat
  BY <1>3, <1>4, <1>5
<1> QED
  BY <1>1, <1>3, <1>4, <1>6

\* A step that stores nothing of a run.
Quiet(q) ==
    /\ info'[q].output = info[q].output /\ info'[q].count = info[q].count
    /\ \A t \in Streams : StreamOK(q, t)' /\ Stored(q, t)' = Stored(q, t)

\* The output stays what it is.
LEMMA QuietStep ==
    ASSUME NEW q \in Runs, OutputOK(q), Quiet(q)
    PROVE  OutputOK(q)'
<1>1. [s \in Streams |-> Stored(q, s)]' = [s \in Streams |-> Stored(q, s)]
  BY DEF Quiet
<1>2. StoredLines(q)' = StoredLines(q)
  BY DEF Quiet, StoredLines
<1>3. info'[q].output = info[q].output /\ info'[q].count = info[q].count
  BY DEF Quiet
<1> QED
  BY <1>1, <1>2, <1>3 DEF OutputOK, UpTo, Later

\* A reader that stores a line.
LEMMA StoresStep ==
    ASSUME SupervisorAssumption, SupervisorInv, OutputInv, NEW r \in Runs, NEW s \in Streams,
           ReaderStores(r, s), NEW q \in Runs
    PROVE  OutputOK(q)' /\ \A t \in Streams : StreamOK(q, t)'
<1> DEFINE f == [t \in Streams |-> Stored(r, t)]
           out == info[r].output
           record == [stream |-> s, line |-> f[s] + 1]
<1>0. /\ Types /\ reader \in [Runs -> [Streams -> ReaderRecord]] /\ info \in [Runs -> InfoRecord]
      /\ \A p \in Runs, t \in Streams : StreamOK(p, t)
      /\ \A p \in Runs : OutputOK(p)
  BY DEF SupervisorInv, OutputInv, Types
<1>1. /\ reader[r][s].pc = "line"
      /\ reader' = [reader EXCEPT ![r][s] = [pc |-> "reading", line |-> 0]]
      /\ UNCHANGED <<pipe, written, starter>>
  BY DEF ReaderStores, childVars
<1>2. \A p \in Runs, t \in Streams : Taken(p, t)' = Taken(p, t)
  BY <1>1 DEF Taken
<1>3. /\ \A p \in Runs, t \in Streams : p # r \/ t # s => reader'[p][t] = reader[p][t]
      /\ reader'[r][s].pc = "reading"
  BY <1>0, <1>1
<1>4. \A p \in Runs, t \in Streams : p # r \/ t # s => Stored(p, t)' = Stored(p, t)
  BY <1>1, <1>3 DEF Stored
<1>5. \A t \in Streams : StreamOK(q, t)'
  <2> SUFFICES ASSUME NEW t \in Streams PROVE StreamOK(q, t)'
    OBVIOUS
  <2>1. /\ Taken(q, t)' = Taken(q, t) /\ pipe'[q][t] = pipe[q][t] /\ starter' = starter
        /\ StreamOK(q, t) /\ StreamOK(r, s)
    BY <1>0, <1>1, <1>2
  <2>2. CASE q = r /\ t = s
    BY <1>1, <1>3, <2>1, <2>2 DEF StreamOK
  <2>3. CASE q # r \/ t # s
    <3>1. reader'[q][t] = reader[q][t]
      BY <1>3, <2>3
    <3> QED
      BY <2>1, <3>1 DEF StreamOK
  <2> QED
    BY <2>2, <2>3
<1>6. /\ info' = [info EXCEPT ![r] = [info[r] EXCEPT
                     !.output = Kept(out, [stream |-> s, line |-> reader[r][s].line]),
                     !.count = info[r].count + 1]]
  BY DEF ReaderStores
<1>7. CASE q # r
  <2>1. info'[q] = info[q]
    BY <1>0, <1>6, <1>7
  <2>2. Quiet(q)
    BY <1>4, <1>5, <1>7, <2>1 DEF Quiet
  <2> QED
    BY <1>0, <1>5, <2>2, QuietStep
<1>8. CASE q = r
  <2>1. /\ Taken(r, s) \in Nat /\ Stored(r, s) = Taken(r, s) - 1
        /\ Stored(r, s) \in Nat /\ reader[r][s].line = Taken(r, s)
    BY <1>0, <1>1, StreamNumbers DEF StreamOK
  <2>2. f \in [Streams -> Nat]
    <3>1. \A t \in Streams : Stored(r, t) \in Nat
      BY <1>0, StreamNumbers
    <3> QED
      BY <3>1
  <2>3. f[s] = Stored(r, s) /\ reader[r][s].line = f[s] + 1
    BY <2>1
  <2>4. Stored(r, s)' = Stored(r, s) + 1
    <3>1. Stored(r, s)' = Taken(r, s)' - 0
      BY <1>3 DEF Stored, Taken
    <3> QED
      BY <1>2, <2>1, <3>1
  <2>5. [t \in Streams |-> Stored(r, t)]' = [f EXCEPT ![s] = f[s] + 1]
    <3>1. \A t \in Streams : Stored(r, t)' = IF t = s THEN f[s] + 1 ELSE f[t]
      BY <1>4, <2>3, <2>4
    <3> QED
      BY <3>1
  <2>6. StoredLines(r)' = StoredLines(r) \cup {<<s, Stored(r, s) + 1>>}
    <3>1. ASSUME NEW x \in StoredLines(r)'
          PROVE  x \in StoredLines(r) \cup {<<s, Stored(r, s) + 1>>}
      <4>1. PICK t \in Streams : \E n \in 1..Stored(r, t)' : x = <<t, n>>
        BY <3>1 DEF StoredLines
      <4>2. PICK n \in 1..Stored(r, t)' : x = <<t, n>>
        BY <4>1
      <4>3. (t = s /\ n = Stored(r, s) + 1) \/ n \in 1..Stored(r, t)
        BY <1>4, <2>1, <2>4
      <4> QED
        BY <4>2, <4>3 DEF StoredLines
    <3>2. StoredLines(r) \subseteq StoredLines(r)'
      <4> SUFFICES ASSUME NEW x \in StoredLines(r) PROVE x \in StoredLines(r)'
        OBVIOUS
      <4>1. PICK t \in Streams : \E n \in 1..Stored(r, t) : x = <<t, n>>
        BY DEF StoredLines
      <4>2. PICK n \in 1..Stored(r, t) : x = <<t, n>>
        BY <4>1
      <4>3. n \in 1..Stored(r, t)'
        BY <1>4, <2>1, <2>4
      <4> QED
        BY <4>2, <4>3 DEF StoredLines
    <3>3. <<s, Stored(r, s) + 1>> \in StoredLines(r)'
      BY <2>1, <2>4 DEF StoredLines
    <3> QED
      BY <3>1, <3>2, <3>3
  <2>7. <<s, Stored(r, s) + 1>> \notin StoredLines(r)
    BY <2>1 DEF StoredLines
  <2>8. /\ UpTo(out, f) /\ IsFiniteSet(StoredLines(r))
        /\ info[r].count = Cardinality(StoredLines(r))
        /\ Len(out) = IF info[r].count < MaxOutput THEN info[r].count ELSE MaxOutput
    BY <1>0 DEF OutputOK
  <2>9. /\ IsFiniteSet(StoredLines(r)')
        /\ Cardinality(StoredLines(r)') = Cardinality(StoredLines(r)) + 1
    <3> DEFINE T == StoredLines(r) x == <<s, Stored(r, s) + 1>>
    <3>1. IsFiniteSet(T) /\ x \notin T /\ StoredLines(r)' = T \cup {x}
      BY <2>6, <2>7, <2>8
    <3> HIDE DEF T, x
    <3>2. IsFiniteSet(T \cup {x}) /\ Cardinality(T \cup {x}) = Cardinality(T) + 1
      BY <3>1, FS_AddElement
    <3>3. IsFiniteSet(StoredLines(r)') /\ Cardinality(StoredLines(r)') = Cardinality(T) + 1
      BY <3>1, <3>2
    <3> QED
      BY <3>3 DEF T
  <2>10. out \in Seq(OutputRecord) /\ info[r].count \in Nat /\ info[r] \in InfoRecord
    BY <1>0, InfoType
  <2>11. MaxOutput \in Nat /\ Len(out) <= MaxOutput
    BY <2>8, <2>10 DEF SupervisorAssumption
  <2>12. /\ UpTo(Kept(out, record), [f EXCEPT ![s] = f[s] + 1])
         /\ Len(Kept(out, record)) = IF Len(out) < MaxOutput THEN Len(out) + 1 ELSE MaxOutput
    <3> HIDE DEF f, out
    <3> QED
      BY <2>2, <2>8, <2>10, <2>11, KeptFacts
  <2>13. info'[r].output = Kept(out, record) /\ info'[r].count = info[r].count + 1
    <3>1. Kept(out, [stream |-> s, line |-> reader[r][s].line]) = Kept(out, record)
      BY <2>3
    <3> HIDE DEF record, out, f
    <3> QED
      BY <1>0, <1>6, <2>10, <3>1 DEF InfoRecord
  <2> DEFINE kept == Kept(out, record)
  <2> HIDE DEF kept, f, out
  <2>14. UpTo(info'[r].output, [t \in Streams |-> Stored(r, t)]')
    BY <2>5, <2>12, <2>13 DEF kept
  <2>15. info'[r].count = Cardinality(StoredLines(r)')
    BY <2>8, <2>9, <2>13
  <2>16. Len(info'[r].output) = IF info'[r].count < MaxOutput THEN info'[r].count ELSE MaxOutput
    BY <2>8, <2>10, <2>11, <2>12, <2>13
  <2>17. OutputOK(r)'
    BY <2>9, <2>14, <2>15, <2>16 DEF OutputOK
  <2> QED
    BY <1>5, <1>8, <2>17
<1> QED
  BY <1>7, <1>8

\* A step that leaves the streams and their readers alone.
LEMMA StreamsStay ==
    ASSUME OutputInv, NEW q \in Runs, UNCHANGED <<pipe, written, reader>>,
           starter[q] = "answered" => starter'[q] = "answered",
           info'[q].output = info[q].output, info'[q].count = info[q].count
    PROVE  Quiet(q)
<1>1. \A t \in Streams : StreamOK(q, t)
  BY DEF OutputInv
<1>2. \A t \in Streams : Taken(q, t)' = Taken(q, t) /\ Stored(q, t)' = Stored(q, t)
  BY DEF Taken, Stored
<1>3. \A t \in Streams : StreamOK(q, t)'
  BY <1>1, <1>2 DEF StreamOK
<1> QED
  BY <1>2, <1>3 DEF Quiet

\* A step of one stream that stores nothing.
LEMMA OneStream ==
    ASSUME OutputInv, NEW q \in Runs, NEW r \in Runs, NEW s \in Streams,
           UNCHANGED <<starter, info>>,
           \A p \in Runs, t \in Streams : p # r \/ t # s =>
              /\ pipe'[p][t] = pipe[p][t] /\ written'[p][t] = written[p][t]
              /\ reader'[p][t] = reader[p][t],
           StreamOK(r, s)', Stored(r, s)' = Stored(r, s)
    PROVE  Quiet(q)
<1>1. ASSUME NEW t \in Streams PROVE StreamOK(q, t)' /\ Stored(q, t)' = Stored(q, t)
  <2>1. CASE q = r /\ t = s
    BY <2>1
  <2>2. CASE q # r \/ t # s
    <3>1. /\ pipe'[q][t] = pipe[q][t] /\ written'[q][t] = written[q][t]
          /\ reader'[q][t] = reader[q][t] /\ StreamOK(q, t)
      BY <2>2 DEF OutputInv
    <3>2. Taken(q, t)' = Taken(q, t) /\ Stored(q, t)' = Stored(q, t)
      BY <3>1 DEF Taken, Stored
    <3> QED
      BY <3>1, <3>2 DEF StreamOK
  <2> QED
    BY <2>1, <2>2
<1> QED
  BY <1>1 DEF Quiet

\* Of a watcher and of a stop only the state of the process changes in its ProcessInfo.
LEMMA OnlyState ==
    ASSUME Types, NEW q \in Runs, NEW r, NEW state,
           info' = [info EXCEPT ![r] = [info[r] EXCEPT !.state = state]]
    PROVE  info'[q].output = info[q].output /\ info'[q].count = info[q].count
<1>1. info \in [Runs -> InfoRecord] /\ info[q] \in InfoRecord
  BY DEF Types
<1>2. CASE q = r
  <2>1. info'[q] = [info[q] EXCEPT !.state = state]
    BY <1>1, <1>2
  <2> QED
    BY <1>1, <2>1 DEF InfoRecord
<1>3. CASE q # r
  BY <1>1, <1>3
<1> QED
  BY <1>2, <1>3

\* A line is written to a pipe.
LEMMA WritesStep ==
    ASSUME Types, OutputInv, NEW q \in Runs, NEW r \in Runs, NEW s \in Streams, ChildWrites(r, s)
    PROVE  Quiet(q)
<1> DEFINE old == pipe[r][s]
           new == Append(old, written[r][s] + 1)
           taken == Taken(r, s)
<1>1. StreamOK(r, s) /\ Types
  BY DEF OutputInv
<1>2. /\ taken \in Nat /\ old \in Seq(Nat) /\ Len(old) \in Nat /\ written[r][s] \in Nat
      /\ written[r][s] = taken + Len(old)
  BY <1>1, StreamNumbers
<1>3. /\ written' = [written EXCEPT ![r] = [written[r] EXCEPT ![s] = written[r][s] + 1]]
      /\ pipe' = [pipe EXCEPT ![r] = [pipe[r] EXCEPT ![s] = new]]
      /\ UNCHANGED <<reader, starter, info>>
  BY DEF ChildWrites
<1>4. /\ \A p \in Runs, t \in Streams : p # r \/ t # s =>
            pipe'[p][t] = pipe[p][t] /\ written'[p][t] = written[p][t]
      /\ pipe'[r][s] = new /\ written'[r][s] = written[r][s] + 1
  <2>1. pipe \in [Runs -> [Streams -> Seq(Nat)]] /\ written \in [Runs -> [Streams -> Nat]]
    BY <1>1 DEF Types
  <2> HIDE DEF new
  <2> QED
    BY <1>3, <2>1
<1>5. /\ new \in Seq(Nat) /\ Len(new) = Len(old) + 1 /\ new[Len(old) + 1] = written[r][s] + 1
      /\ \A k \in 1..Len(old) : new[k] = old[k]
  <2>1. written[r][s] + 1 \in Nat
    BY <1>2
  <2> HIDE DEF old
  <2> QED
    BY <1>2, <2>1, AppendProperties
<1>6. Taken(r, s)' = taken
  <2>1. Taken(r, s)' = written[r][s] + 1 - (Len(old) + 1)
    <3>1. Taken(r, s)' = written'[r][s] - Len(pipe'[r][s])
      BY DEF Taken
    <3>2. pipe'[r][s] = new /\ written'[r][s] = written[r][s] + 1
      BY <1>4
    <3>3. Len(new) = Len(old) + 1
      BY <1>5
    <3> HIDE DEF new, old
    <3> QED
      BY <1>2, <3>1, <3>2, <3>3
  <2> HIDE DEF taken, old
  <2> QED
    BY <1>2, <2>1
<1>7. Stored(r, s)' = Stored(r, s)
  BY <1>3, <1>6 DEF Stored, Taken
<1>8. /\ taken >= 0 /\ \A k \in 1..Len(old) : old[k] = taken + k
      /\ reader[r][s].pc = "line" => reader[r][s].line = taken
      /\ reader[r][s].pc \in {"line", "died"} => taken >= 1
      /\ reader[r][s].pc # "unborn" => starter[r] = "answered"
  BY <1>1 DEF StreamOK
<1> HIDE DEF new, taken, old
<1>9. \A k \in 1..Len(new) : new[k] = taken + k
  <2> SUFFICES ASSUME NEW k \in 1..Len(new) PROVE new[k] = taken + k
    OBVIOUS
  <2>1. CASE k = Len(old) + 1
    BY <1>2, <1>5, <2>1
  <2>2. CASE k # Len(old) + 1
    <3>1. k \in 1..Len(old)
      BY <1>2, <1>5, <2>2
    <3> QED
      BY <1>5, <1>8, <3>1
  <2> QED
    BY <2>1, <2>2
<1>10. StreamOK(r, s)'
  BY <1>3, <1>4, <1>6, <1>8, <1>9 DEF StreamOK
<1> QED
  BY <1>3, <1>4, <1>7, <1>10, OneStream

\* A reader takes a line out of a pipe, and holds it or loses it.
LEMMA TakesStep ==
    ASSUME Types, OutputInv, NEW q \in Runs, NEW r \in Runs, NEW s \in Streams,
           ReaderReads(r, s) \/ ReaderCannotDecode(r, s)
    PROVE  Quiet(q)
<1> DEFINE old == pipe[r][s]
           new == Tail(old)
           taken == Taken(r, s)
<1>1. StreamOK(r, s) /\ Types
  BY DEF OutputInv
<1>2. /\ taken \in Nat /\ old \in Seq(Nat) /\ Len(old) \in Nat /\ written[r][s] \in Nat
      /\ written[r][s] = taken + Len(old) /\ reader[r][s] \in ReaderRecord
  BY <1>1, StreamNumbers
<1>3. /\ old # <<>> /\ reader[r][s].pc = "reading"
      /\ pipe' = [pipe EXCEPT ![r] = [pipe[r] EXCEPT ![s] = new]]
      /\ UNCHANGED <<written, starter, info>>
      /\ \/ reader' = [reader EXCEPT ![r][s] = [pc |-> "line", line |-> Head(old)]]
         \/ reader' = [reader EXCEPT ![r][s] = [reader[r][s] EXCEPT !.pc = "died"]]
  BY DEF ReaderReads, ReaderCannotDecode
<1>4. /\ new \in Seq(Nat) /\ Len(new) = Len(old) - 1 /\ Len(old) >= 1 /\ Head(old) = old[1]
      /\ \A k \in 1..(Len(old) - 1) : new[k] = old[k + 1]
  <2> HIDE DEF old
  <2> QED
    BY <1>2, <1>3
<1>5. /\ \A p \in Runs, t \in Streams : p # r \/ t # s =>
            pipe'[p][t] = pipe[p][t] /\ reader'[p][t] = reader[p][t]
      /\ pipe'[r][s] = new
      /\ \/ reader'[r][s] = [pc |-> "line", line |-> Head(old)]
         \/ reader'[r][s] = [reader[r][s] EXCEPT !.pc = "died"]
  <2>1. /\ pipe \in [Runs -> [Streams -> Seq(Nat)]]
        /\ reader \in [Runs -> [Streams -> ReaderRecord]]
    BY <1>1 DEF Types
  <2>2. /\ \A p \in Runs, t \in Streams : p # r \/ t # s => pipe'[p][t] = pipe[p][t]
        /\ pipe'[r][s] = new
    <3> HIDE DEF new
    <3> QED
      BY <1>3, <2>1
  <2>3. ASSUME NEW x, reader' = [reader EXCEPT ![r][s] = x]
        PROVE  /\ \A p \in Runs, t \in Streams : p # r \/ t # s => reader'[p][t] = reader[p][t]
               /\ reader'[r][s] = x
    BY <2>1, <2>3
  <2> HIDE DEF old, new
  <2> QED
    BY <1>3, <2>2, <2>3
<1>6. reader'[r][s].pc \in {"line", "died"} /\ (reader'[r][s].pc = "line" => reader'[r][s].line = old[1])
  BY <1>2, <1>4, <1>5 DEF ReaderRecord
<1>7. Taken(r, s)' = taken + 1
  <2>1. Taken(r, s)' = written[r][s] - (Len(old) - 1)
    BY <1>3, <1>4, <1>5 DEF Taken
  <2> HIDE DEF taken, old
  <2> QED
    BY <1>2, <2>1
<1>8. Stored(r, s)' = Stored(r, s)
  <2>1. Stored(r, s)' = Taken(r, s)' - 1
    BY <1>6 DEF Stored, Taken
  <2>2. Stored(r, s) = Taken(r, s) - 0
    BY <1>3 DEF Stored, Taken
  <2> HIDE DEF Taken
  <2> QED
    BY <1>2, <1>7, <2>1, <2>2
<1>9. \A k \in 1..Len(old) : old[k] = taken + k
  BY <1>1 DEF StreamOK
<1>10. starter[r] = "answered"
  BY <1>1, <1>3 DEF StreamOK
<1> HIDE DEF new, taken, old
<1>11. old[1] = taken + 1
  BY <1>2, <1>4, <1>9
<1>12. \A k \in 1..Len(new) : new[k] = taken + 1 + k
  <2> SUFFICES ASSUME NEW k \in 1..Len(new) PROVE new[k] = taken + 1 + k
    OBVIOUS
  <2>1. k \in 1..(Len(old) - 1) /\ k + 1 \in 1..Len(old)
    BY <1>2, <1>4
  <2>2. new[k] = taken + (k + 1)
    BY <1>4, <1>9, <2>1
  <2> QED
    BY <1>2, <2>1, <2>2
<1>13. StreamOK(r, s)'
  <2>1. /\ Taken(r, s)' >= 1 /\ Taken(r, s)' >= 0
        /\ \A k \in 1..Len(pipe'[r][s]) : pipe'[r][s][k] = Taken(r, s)' + k
        /\ reader'[r][s].pc = "line" => reader'[r][s].line = Taken(r, s)'
    BY <1>2, <1>5, <1>6, <1>7, <1>11, <1>12
  <2> QED
    BY <1>3, <1>10, <2>1 DEF StreamOK
<1> QED
  BY <1>3, <1>5, <1>8, <1>13, OneStream

\* What is not the storing of a line leaves the output as it is.
LEMMA OtherStep ==
    ASSUME SupervisorAssumption, SupervisorInv, OutputInv, [Next]_vars, NEW q \in Runs,
           \A r \in Runs, s \in Streams : ~ReaderStores(r, s)
    PROVE  Quiet(q)
<1> USE DEF childVars, tableVars
<1>0. Types /\ \A r \in Runs : Registered(r)
  BY DEF SupervisorInv
<1>1. ASSUME NEW r \in Runs, NEW i \in Pids, Spawn(r, i)
      PROVE  Quiet(q)
  <2>1. /\ starter[r] = "unborn" /\ starter' = [starter EXCEPT ![r] = "spawned"]
        /\ UNCHANGED <<pipe, written, reader, info>>
    BY <1>0, <1>1 DEF Spawn, Registered
  <2>2. starter[q] = "answered" => starter'[q] = "answered"
    BY <1>0, <2>1 DEF Types
  <2> QED
    BY <2>1, <2>2, StreamsStay
<1>2. ASSUME NEW r \in Runs, NEW s \in Streams, ChildWrites(r, s)
      PROVE  Quiet(q)
  BY <1>0, <1>2, WritesStep
<1>3. ASSUME NEW r \in Runs, ChildEnds(r) \/ GrandchildEnds(r)
      PROVE  Quiet(q)
  <2>1. UNCHANGED <<pipe, written, reader, starter, info>>
    BY <1>3 DEF ChildEnds, GrandchildEnds
  <2> QED
    BY <2>1, StreamsStay
<1>4. ASSUME NEW r \in Runs, Register(r)
      PROVE  Quiet(q)
  <2>1. /\ starter[r] = "spawned" /\ starter' = [starter EXCEPT ![r] = "registered"]
        /\ UNCHANGED <<pipe, written, reader, info>>
    BY <1>4 DEF Register
  <2>2. starter[q] = "answered" => starter'[q] = "answered"
    BY <1>0, <2>1 DEF Types
  <2> QED
    BY <2>1, <2>2, StreamsStay
<1>5. ASSUME NEW r \in Runs, StartThreads(r)
      PROVE  Quiet(q)
  <2>1. /\ starter[r] = "registered" /\ starter' = [starter EXCEPT ![r] = "answered"]
        /\ reader' = [reader EXCEPT ![r] = [s \in Streams |-> [pc |-> "reading", line |-> 0]]]
        /\ UNCHANGED <<pipe, written, info>>
    BY <1>5 DEF StartThreads
  <2>2. /\ starter'[r] = "answered" /\ \A s \in Streams : reader'[r][s].pc = "reading"
        /\ q # r => starter'[q] = starter[q] /\ reader'[q] = reader[q]
    BY <1>0, <2>1 DEF Types
  <2>3. \A s \in Streams : Taken(q, s)' = Taken(q, s) /\ StreamOK(q, s)
    BY <2>1 DEF Taken, OutputInv
  <2>4. CASE q = r
    <3>1. ASSUME NEW s \in Streams PROVE StreamOK(q, s)' /\ Stored(q, s)' = Stored(q, s)
      <4>1. reader[q][s].pc = "unborn" /\ reader'[q][s].pc = "reading" /\ starter'[q] = "answered"
        BY <2>1, <2>2, <2>3, <2>4 DEF StreamOK
      <4>2. Stored(q, s)' = Stored(q, s)
        BY <2>1, <4>1 DEF Stored
      <4> QED
        BY <2>1, <2>3, <4>1, <4>2 DEF StreamOK
    <3> QED
      BY <2>1, <3>1 DEF Quiet
  <2>5. CASE q # r
    <3>1. \A s \in Streams : StreamOK(q, s)' /\ Stored(q, s)' = Stored(q, s)
      BY <2>1, <2>2, <2>3, <2>5 DEF StreamOK, Stored
    <3> QED
      BY <2>1, <3>1 DEF Quiet
  <2> QED
    BY <2>4, <2>5
<1>6. ASSUME NEW r \in Runs, NEW s \in Streams, ReadStream(r, s)
      PROVE  Quiet(q)
  <2>1. CASE ReaderReads(r, s) \/ ReaderCannotDecode(r, s)
    BY <1>0, <2>1, TakesStep
  <2>2. CASE ReaderEnds(r, s)
    <3>1. /\ reader[r][s].pc = "reading" /\ UNCHANGED <<pipe, written, starter, info>>
          /\ reader' = [reader EXCEPT ![r][s] = [reader[r][s] EXCEPT !.pc = "ended"]]
      BY <2>2 DEF ReaderEnds
    <3>2. reader[r][s] \in ReaderRecord /\ reader \in [Runs -> [Streams -> ReaderRecord]]
      BY <1>0 DEF Types
    <3>3. /\ \A p \in Runs, t \in Streams : p # r \/ t # s => reader'[p][t] = reader[p][t]
          /\ reader'[r][s].pc = "ended"
      BY <3>1, <3>2 DEF ReaderRecord
    <3>4. Taken(r, s)' = Taken(r, s) /\ Stored(r, s)' = Stored(r, s)
      BY <3>1, <3>3 DEF Taken, Stored
    <3>5. StreamOK(r, s)
      BY DEF OutputInv
    <3>6. StreamOK(r, s)'
      BY <3>1, <3>3, <3>4, <3>5 DEF StreamOK
    <3> QED
      BY <3>1, <3>3, <3>4, <3>6, OneStream
  <2> QED
    BY <1>6, <2>1, <2>2 DEF ReadStream
<1>7. ASSUME NEW r \in Runs, Watch(r)
      PROVE  Quiet(q)
  <2>1. UNCHANGED <<pipe, written, reader, starter>>
    BY <1>7 DEF Watch, WatchWait, WatchLookup, WatchFinish, WatchJoins, WatchJoinTimesOut,
       WatchJoinRaises
  <2>2. info' = info \/ info' = [info EXCEPT ![r] = [info[r] EXCEPT !.state = "exited"]]
    BY <1>7 DEF Watch, WatchWait, WatchLookup, WatchFinish, WatchJoins, WatchJoinTimesOut,
       WatchJoinRaises
  <2>3. info'[q].output = info[q].output /\ info'[q].count = info[q].count
    BY <1>0, <2>2, OnlyState
  <2> QED
    BY <2>1, <2>3, StreamsStay
<1>8. ASSUME NEW c \in Stoppers,
             StopTerminate(c) \/ StopMark(c) \/ \E i \in Pids : StopLookup(c, i)
      PROVE  Quiet(q)
  <2>1. UNCHANGED <<pipe, written, reader, starter>>
    BY <1>8 DEF StopTerminate, StopMark, StopLookup
  <2>2. \/ info' = info
        \/ info' = [info EXCEPT ![stop[c].run] = [info[stop[c].run] EXCEPT !.state = "stopping"]]
    BY <1>8 DEF StopTerminate, StopMark, StopLookup
  <2>3. info'[q].output = info[q].output /\ info'[q].count = info[q].count
    BY <1>0, <2>2, OnlyState
  <2> QED
    BY <2>1, <2>3, StreamsStay
<1>9. CASE UNCHANGED vars
  BY <1>9, StreamsStay DEF vars
<1> QED
  BY <1>1, <1>2, <1>3, <1>4, <1>5, <1>6, <1>7, <1>8, <1>9 DEF Next, Start

\* Nothing is stored when the agent starts.
LEMMA OutputInit ==
    ASSUME SupervisorAssumption, Init
    PROVE  OutputInv
<1> SUFFICES ASSUME NEW r \in Runs PROVE OutputOK(r) /\ \A s \in Streams : StreamOK(r, s)
  BY DEF OutputInv
<1>1. /\ info[r].output = <<>> /\ info[r].count = 0
      /\ \A s \in Streams : /\ pipe[r][s] = <<>> /\ written[r][s] = 0
                            /\ reader[r][s].pc = "unborn"
  BY DEF Init
<1>2. \A s \in Streams : Taken(r, s) = 0 /\ Stored(r, s) = 0
  BY <1>1 DEF Taken, Stored
<1>3. \A s \in Streams : StreamOK(r, s)
  BY <1>1, <1>2 DEF StreamOK
<1>4. StoredLines(r) = {}
  BY <1>2 DEF StoredLines
<1>5. OutputOK(r)
  <2>1. IsFiniteSet(StoredLines(r)) /\ Cardinality(StoredLines(r)) = 0
    BY <1>4, FS_EmptySet
  <2>2. DOMAIN info[r].output = {} /\ Len(info[r].output) = 0
    BY <1>1
  <2>3. 0 < MaxOutput
    BY DEF SupervisorAssumption
  <2> QED
    BY <1>1, <2>1, <2>2, <2>3 DEF OutputOK, UpTo
<1> QED
  BY <1>3, <1>5

\* Every step keeps the output.
LEMMA OutputStep ==
    ASSUME SupervisorAssumption, SupervisorInv, OutputInv, [Next]_vars
    PROVE  OutputInv'
<1>1. CASE \E r \in Runs, s \in Streams : ReaderStores(r, s)
  BY <1>1, StoresStep DEF OutputInv
<1>2. CASE \A r \in Runs, s \in Streams : ~ReaderStores(r, s)
  <2> SUFFICES ASSUME NEW q \in Runs PROVE OutputOK(q)' /\ \A s \in Streams : StreamOK(q, s)'
    BY DEF OutputInv
  <2>1. Quiet(q)
    BY <1>2, OtherStep
  <2>2. OutputOK(q)
    BY DEF OutputInv
  <2> QED
    BY <2>1, <2>2, QuietStep DEF Quiet
<1> QED
  BY <1>1, <1>2

\* Of every stream the last lines stored are kept, and the count is the number of all of them.
THEOREM SupervisorOutput == Spec => []OutputInv
<1>1. Init => OutputInv
  BY SupervisorAssumption, OutputInit
<1>2. SupervisorInv /\ OutputInv /\ [Next]_vars => OutputInv'
  BY SupervisorAssumption, OutputStep
<1> QED
  BY <1>1, <1>2, SupervisorInvariant, PTL DEF Spec

\* The last elements of a sequence are no more than all of them.
LEMMA LastOf ==
    ASSUME NEW S, NEW all \in Seq(S), NEW limit \in Nat \ {0}
    PROVE  LET last == IF Len(all) <= limit THEN all
                       ELSE SubSeq(all, Len(all) - limit + 1, Len(all))
           IN  Len(last) \in Nat /\ Len(last) <= Len(all)
<1> DEFINE n == Len(all)
           m == n - limit + 1
<1>1. n \in Nat /\ \A k \in 1..n : all[k] \in S
  OBVIOUS
<1>2. CASE n <= limit
  BY <1>1, <1>2
<1>3. CASE ~(n <= limit)
  <2> HIDE DEF n
  <2>1. m \in Nat /\ m >= 1 /\ m <= n
    BY <1>1, <1>3
  <2> HIDE DEF m
  <2>2. \A k \in m..n : all[k] \in S
    BY <1>1, <2>1
  <2>3. Len(SubSeq(all, m, n)) = IF m <= n THEN n - m + 1 ELSE 0
    BY <1>1, <2>1, <2>2, SubSeqProperties
  <2>4. Len(SubSeq(all, m, n)) \in Nat /\ Len(SubSeq(all, m, n)) <= n
    BY <1>1, <2>1, <2>3
  <2> QED
    BY <1>3, <2>4 DEF n, m
<1> QED
  BY <1>2, <1>3

\* The last of the kept records, as many as were asked for.
LEMMA AnswerLength ==
    ASSUME NEW r, NEW limit \in Nat \ {0}, NEW S, info[r].output \in Seq(S)
    PROVE  /\ Len(Answer(r, limit).records) \in Nat
           /\ Len(Answer(r, limit).records) <= Len(info[r].output)
           /\ Answer(r, limit).truncated = (info[r].count > Len(Answer(r, limit).records))
BY LastOf DEF Answer

(* However the readers of a process interleave and however few lines are   *)
(* kept, these are the last lines of each stream, in order and without a   *)
(* gap, and an answer that does not say `truncated' brings every line that *)
(* was stored (agent.py 86-93, 264-275).                                   *)
THEOREM OutputIsTheLatest == Spec => []OutputIsLatest
<1>1. SupervisorInv /\ OutputInv => OutputIsLatest
  <2> SUFFICES ASSUME SupervisorInv, OutputInv, NEW r \in Runs
               PROVE  LET out == info[r].output
                          stored == Cardinality(StoredLines(r))
                      IN  /\ \A i \in DOMAIN out :
                                out[i].line = Stored(r, out[i].stream)
                                    - Cardinality({j \in DOMAIN out :
                                                      j > i /\ out[j].stream = out[i].stream})
                          /\ Len(out) = IF stored < MaxOutput THEN stored ELSE MaxOutput
                          /\ \A limit \in 1..MaxOutput :
                                ~Answer(r, limit).truncated
                                    => Len(Answer(r, limit).records) = stored
    BY DEF OutputIsLatest
  <2>1. /\ UpTo(info[r].output, [s \in Streams |-> Stored(r, s)])
        /\ info[r].count = Cardinality(StoredLines(r))
        /\ Len(info[r].output) = IF info[r].count < MaxOutput THEN info[r].count ELSE MaxOutput
    BY DEF OutputInv, OutputOK
  <2>2. info[r] \in InfoRecord
    BY DEF SupervisorInv, Types
  <2>3. info[r].output \in Seq(OutputRecord) /\ info[r].count \in Nat /\ MaxOutput \in Nat
    BY <2>2, InfoType, SupervisorAssumption DEF SupervisorAssumption
  <2>4. ASSUME NEW i \in DOMAIN info[r].output
        PROVE  info[r].output[i].line = Stored(r, info[r].output[i].stream)
                 - Cardinality(Later(info[r].output, i))
    <3>1. info[r].output[i].stream \in Streams
      BY <2>3, LaterType
    <3> QED
      BY <2>1, <3>1 DEF UpTo
  <2>5. ASSUME NEW limit \in 1..MaxOutput, ~Answer(r, limit).truncated
        PROVE  Len(Answer(r, limit).records) = Cardinality(StoredLines(r))
    <3>1. /\ Len(Answer(r, limit).records) \in Nat
          /\ Len(Answer(r, limit).records) <= Len(info[r].output)
          /\ Answer(r, limit).truncated = (info[r].count > Len(Answer(r, limit).records))
      <4>1. limit \in Nat \ {0}
        BY <2>3
      <4> QED
        BY <2>3, <4>1, AnswerLength
    <3>2. ~(info[r].count > Len(Answer(r, limit).records))
      BY <2>5, <3>1
    <3>3. Len(info[r].output) <= info[r].count
      BY <2>1, <2>3
    <3> HIDE DEF Answer
    <3>4. info[r].count = Len(Answer(r, limit).records)
      BY <2>3, <3>1, <3>2, <3>3
    <3> QED
      BY <2>1, <3>4
  <2> QED
    BY <2>1, <2>4, <2>5 DEF Later
<1> QED
  BY <1>1, SupervisorInvariant, SupervisorOutput, PTL
=============================================================================
