------------------------------- MODULE SerialLog -------------------------------
(***************************************************************************)
(* The agent's numbered serial records and the three ways to read them:    *)
(* Agent._record and the serial_read_since, serial_tail and serial_wait    *)
(* branches of Agent.handle, rdklink/agent.py.                             *)
(*                                                                         *)
(* Records come from the broker's readers and writers (_record is its      *)
(* callback).  A poller is a client that calls serial_read_since again and *)
(* again with the next_sequence of the answer before; its got, warned and  *)
(* since fields are history.  A waiter is a worker thread inside           *)
(* serial_wait.  Restart ends the agent's process: every port starts again *)
(* at sequence 1 while the clients keep their cursors.                     *)
(***************************************************************************)
EXTENDS SerialPortBuffer, FiniteSets

CONSTANTS
    Ports,          \* serial ports
    Payloads,       \* contents of a record
    SizeOf,         \* number of raw bytes of each payload
    Matching,       \* the payloads whose decoded text contains the awaited pattern
    Scopes,         \* sets of ports a request looks at: one port, or all when it names none
    Limits,         \* max_records a read may ask for, after clamping to 1..300
    Pollers,        \* clients that poll with serial_read_since
    Waiters,        \* worker threads serving serial_wait
    MaxSequence,    \* bound: records per port
    MaxTime,        \* bound: ticks of the wall clock
    MaxRestarts     \* bound: restarts of the agent

(* The allowlist names finitely many ports, and record sizes stay far      *)
(* below the buffer: the agent cuts a record to 4096 bytes and gives each  *)
(* port 4 MiB.                                                             *)
ASSUME LogAssumption ==
    /\ IsFiniteSet(Ports)
    /\ SizeOf \in [Payloads -> 0..MaxBytes]
    /\ Matching \subseteq Payloads
    /\ Scopes \subseteq SUBSET Ports
    /\ Limits \subseteq Nat \ {0}
    /\ MaxSequence \in Nat /\ MaxTime \in Nat /\ MaxRestarts \in Nat

VARIABLES
    sequences,   \* serial_sequences: number of the last record of each port
    buffers,     \* serial_buffers: the records kept per port
    known,       \* the keys of serial_buffers in the order they were added
    clock,       \* the wall clock records are stamped with
    stepped,     \* history: the wall clock was set back
    epoch,       \* how often the agent was restarted
    seen,        \* history: where the pattern was recorded since the agent started
    poll,        \* state of each poller
    wait         \* state of each waiter

vars == <<sequences, buffers, known, clock, stepped, epoch, seen, poll, wait>>
agentVars == <<sequences, buffers, known, clock, stepped, epoch, seen>>

Directions == {"RX", "TX"}
Record == [sequence : Nat, time : Nat, dir : Directions, port : Ports,
           payload : Payloads, size : 0..MaxBytes]

NewPoller(scope) == [scope |-> scope, cursor |-> 0, epoch |-> 0, truncated |-> FALSE,
                     since |-> 0, got |-> {}, warned |-> {}]
NoWait == [pc |-> "idle", scope |-> {}, dirs |-> {}, expired |-> FALSE]

Init ==
    /\ sequences = [p \in Ports |-> 0]
    /\ buffers = [p \in Ports |-> <<>>]
    /\ known = <<>>
    /\ clock = 0
    /\ stepped = FALSE
    /\ epoch = 0
    /\ seen = {}
    /\ poll \in [Pollers -> {NewPoller(scope) : scope \in Scopes}]
    /\ wait = [w \in Waiters |-> NoWait]

-----------------------------------------------------------------------------
(* _record(direction, data, port): under _serial_condition, which it       *)
(* notifies.                                                               *)

\* notify_all: every blocked waiter goes on.
Notify == wait' = [w \in Waiters |-> IF wait[w].pc = "blocked"
                                     THEN [wait[w] EXCEPT !.pc = "woken"] ELSE wait[w]]

IsKnown(p) == \E i \in DOMAIN known : known[i] = p

NewRecord(p, dir, payload) ==
    [sequence |-> sequences[p] + 1, time |-> clock, dir |-> dir, port |-> p,
     payload |-> payload, size |-> SizeOf[payload]]

Add(p, dir, payload) ==
    /\ sequences[p] < MaxSequence
    /\ sequences' = [sequences EXCEPT ![p] = @ + 1]
    /\ \E new \in Appended(buffers[p], NewRecord(p, dir, payload)) :
          buffers' = [buffers EXCEPT ![p] = new]
    /\ known' = IF IsKnown(p) THEN known ELSE Append(known, p)
    /\ seen' = seen \cup {[port |-> p, dir |-> dir] : m \in Matching \cap {payload}}
    /\ Notify
    /\ UNCHANGED <<clock, stepped, epoch, poll>>

Tick ==
    /\ clock < MaxTime
    /\ clock' = clock + 1
    /\ UNCHANGED <<sequences, buffers, known, stepped, epoch, seen, poll, wait>>

\* The wall clock is corrected backwards, as time synchronisation may do.
SetBack ==
    /\ clock > 0
    /\ clock' = clock - 1
    /\ stepped' = TRUE
    /\ UNCHANGED <<sequences, buffers, known, epoch, seen, poll, wait>>

-----------------------------------------------------------------------------
(* _serial_records_for(port): a copy of the buffers, sorted by timestamp.  *)
(* The sort is stable: equal timestamps keep the order of the buffers.     *)

Scoped(scope) == UNION {{buffers[p][i] : i \in DOMAIN buffers[p]} : p \in scope}

Rank(p) == {i \in DOMAIN known : \E j \in DOMAIN known : i <= j /\ known[j] = p}

\* Mutant of Earlier: an unstable sort turns equal timestamps round.
EarlierUnstable(a, b) ==
    \/ a.time < b.time
    \/ a.time = b.time /\ a.sequence > b.sequence

Earlier(a, b) ==
    \/ a.time < b.time
    \/ a.time = b.time /\ a.port = b.port /\ a.sequence < b.sequence
    \/ a.time = b.time /\ a.port # b.port /\ Rank(a.port) \subseteq Rank(b.port)

\* records[-n:] of the sorted list.
Newest(records, n) == {r \in records : Cardinality({q \in records : Earlier(r, q)}) < n}

\* scoped[0] of the sorted list.
IsOldest(r, records) == \A q \in records : ~Earlier(q, r)

-----------------------------------------------------------------------------
(* serial_read_since: the copy is taken under the lock, the answer is made *)
(* from the copy.                                                          *)

After(records, cursor) == {r \in records : r.sequence > cursor}

\* Mutant of NextSequence: -1 for an empty buffer.
NextOrMinusOne(records) ==
    IF records = {} THEN -1
    ELSE CHOOSE n \in {r.sequence : r \in records} : \A r \in records : r.sequence <= n

NextSequence(records) ==
    IF records = {} THEN 0
    ELSE CHOOSE n \in {r.sequence : r \in records} : \A r \in records : r.sequence <= n

\* Mutants of Truncated: the comparison with the oldest record is off by one, either way.
TruncatedLate(records, cursor, limit) ==
    \/ Cardinality(After(records, cursor)) > limit
    \/ \E o \in records : IsOldest(o, records) /\ cursor < o.sequence - 2

TruncatedEarly(records, cursor, limit) ==
    \/ Cardinality(After(records, cursor)) > limit
    \/ \E o \in records : IsOldest(o, records) /\ cursor < o.sequence

\* More records than the answer holds, or some were evicted since the cursor.
Truncated(records, cursor, limit) ==
    \/ Cardinality(After(records, cursor)) > limit
    \/ \E o \in records : IsOldest(o, records) /\ cursor < o.sequence - 1

(* A truncated answer warns of everything it does not bring; an answer of  *)
(* a restarted agent to an old cursor starts the history anew.             *)
ReadSince(c, limit) ==
    LET me == poll[c]
        records == Scoped(me.scope)
        answer == {r.sequence : r \in Newest(After(records, me.cursor), limit)}
        next == NextSequence(records)
        truncated == Truncated(records, me.cursor, limit)
        fresh == me.epoch # epoch
    IN  /\ poll' = [poll EXCEPT ![c] =
             [scope |-> me.scope, cursor |-> next, epoch |-> epoch, truncated |-> truncated,
              since |-> IF fresh /\ me.cursor # 0 THEN next ELSE me.since,
              got |-> answer \cup (IF fresh THEN {} ELSE me.got),
              warned |-> (IF truncated THEN (me.cursor + 1)..next ELSE {})
                         \cup (IF fresh THEN {} ELSE me.warned)]]
        /\ UNCHANGED agentVars /\ UNCHANGED wait

-----------------------------------------------------------------------------
(* serial_tail: the newest max_records, and whether there were more.       *)
TailAnswer(scope, n) == Newest(Scoped(scope), n)

(* serial_wait                                                             *)

\* The directions that may satisfy the wait.
Watched(includeTx) == IF includeTx THEN {"RX", "TX"} ELSE {"RX"}

\* Mutant of Found: the direction is not looked at.
FoundAnyDirection(scope, dirs) == \E r \in Scoped(scope) : r.payload \in Matching

Found(scope, dirs) ==
    \E r \in Scoped(scope) : r.dir \in dirs /\ r.payload \in Matching

WaitBegin(w, scope, includeTx) ==
    /\ wait[w].pc = "idle"
    /\ wait' = [wait EXCEPT ![w] =
         [pc |-> IF Found(scope, Watched(includeTx)) THEN "matched" ELSE "checked",
          scope |-> scope, dirs |-> Watched(includeTx), expired |-> FALSE]]
    /\ UNCHANGED agentVars /\ UNCHANGED poll

\* time.monotonic() reaches the deadline.
Expire(w) ==
    /\ wait[w].pc \in {"checked", "blocked", "woken"}
    /\ ~wait[w].expired
    /\ wait' = [wait EXCEPT ![w].expired = TRUE]
    /\ UNCHANGED agentVars /\ UNCHANGED poll

\* The test of the while loop, and the wait on the condition when it goes on.
WaitBlock(w) ==
    /\ wait[w].pc = "checked"
    /\ wait' = [wait EXCEPT ![w].pc = IF wait[w].expired THEN "timedout" ELSE "blocked"]
    /\ UNCHANGED agentVars /\ UNCHANGED poll

WaitForNotify(w) == FALSE   \* mutant of WaitSlice: only a notification ends the wait

\* The wait on the condition is cut off after 50 ms, notified or not.
WaitSlice(w) ==
    /\ wait[w].pc = "blocked"
    /\ wait' = [wait EXCEPT ![w].pc = "woken"]
    /\ UNCHANGED agentVars /\ UNCHANGED poll

\* Mutant of WaitRecheck: the copy made at the beginning is looked at again.
RecheckStaleCopy(w) ==
    /\ wait[w].pc = "woken"
    /\ wait' = [wait EXCEPT ![w].pc = "checked"]
    /\ UNCHANGED agentVars /\ UNCHANGED poll

WaitRecheck(w) ==
    /\ wait[w].pc = "woken"
    /\ wait' = [wait EXCEPT ![w].pc =
                  IF Found(wait[w].scope, wait[w].dirs) THEN "matched" ELSE "checked"]
    /\ UNCHANGED agentVars /\ UNCHANGED poll

WaitAnswer(w) ==
    /\ wait[w].pc \in {"matched", "timedout"}
    /\ wait' = [wait EXCEPT ![w] = NoWait]
    /\ UNCHANGED agentVars /\ UNCHANGED poll

WaitStep(w) == WaitBlock(w) \/ WaitSlice(w) \/ WaitRecheck(w) \/ WaitAnswer(w)

-----------------------------------------------------------------------------
\* The agent's process is started again: it has no stored state.
Restart ==
    /\ epoch < MaxRestarts
    /\ epoch' = epoch + 1
    /\ sequences' = [p \in Ports |-> 0]
    /\ buffers' = [p \in Ports |-> <<>>]
    /\ known' = <<>>
    /\ seen' = {}
    /\ wait' = [w \in Waiters |-> NoWait]
    /\ UNCHANGED <<clock, stepped, poll>>

\* What the clients and the clock do.
ClientStep ==
    \/ Tick \/ SetBack
    \/ \E c \in Pollers, limit \in Limits : ReadSince(c, limit)
    \/ \E w \in Waiters :
         \/ \E scope \in Scopes, includeTx \in BOOLEAN : WaitBegin(w, scope, includeTx)
         \/ Expire(w)
         \/ WaitStep(w)

Next ==
    \/ \E p \in Ports, dir \in Directions, payload \in Payloads : Add(p, dir, payload)
    \/ ClientStep
    \/ Restart

Spec == Init /\ [][Next]_vars

(* A waiting thread always gets on: its wait on the condition is timed.    *)
(* Nothing has to be recorded, and no deadline has to pass.                *)
FairSpec == Spec /\ \A w \in Waiters : WF_vars(WaitStep(w))

-----------------------------------------------------------------------------
(* Properties                                                              *)

\* Every variable has the type its Python counterpart has.
TypeOK ==
    /\ sequences \in [Ports -> Nat]
    /\ buffers \in [Ports -> Seq(Record)]
    /\ known \in Seq(Ports)
    /\ clock \in Nat
    /\ stepped \in BOOLEAN
    /\ epoch \in Nat
    /\ seen \subseteq [port : Ports, dir : Directions]
    /\ poll \in [Pollers -> [scope : SUBSET Ports, cursor : Nat, epoch : Nat,
                             truncated : BOOLEAN, since : Nat,
                             got : SUBSET Nat, warned : SUBSET Nat]]
    /\ wait \in [Waiters -> [pc : {"idle", "checked", "blocked", "woken", "matched", "timedout"},
                             scope : SUBSET Ports, dirs : SUBSET Directions,
                             expired : BOOLEAN]]

(* The buffer of a port holds the latest records of that port, numbered    *)
(* without a gap up to serial_sequences, and it is empty only before the   *)
(* first record: _record 119-134 with the eviction of append 36-44.        *)
BufferContiguous ==
    \A p \in Ports :
        /\ \A i \in DOMAIN buffers[p] :
              /\ buffers[p][i].port = p
              /\ buffers[p][i].sequence = sequences[p] - Len(buffers[p]) + i
        /\ sequences[p] > 0 => buffers[p] # <<>>
        /\ Len(buffers[p]) <= sequences[p]

\* The poller names a port.
OnePort(c) == \E p \in Ports : poll[c].scope = {p}

(* "Loss-aware polling" (mcp_server.py:35) of one port: whatever was       *)
(* recorded since the agent started and lies before the poller's cursor    *)
(* was in an answer it got, or an answer it got said `truncated'; however  *)
(* the clock moves, whatever limits it asks with (read_since 326-335).     *)
LossAware ==
    \A c \in Pollers : OnePort(c) /\ poll[c].epoch = epoch =>
        \A n \in (poll[c].since + 1)..poll[c].cursor : n \in poll[c].got \cup poll[c].warned

(* The same without the excuse of a restart: the poller keeps its cursor,  *)
(* as "loss-aware polling. Response includes next_sequence and truncation" *)
(* (mcp_server.py:35) invites it to.  The code breaks this: a restarted    *)
(* agent numbers from 1 again and answers an old cursor with no records    *)
(* and truncated = FALSE.                                                  *)
LossAwareAcrossRestarts ==
    \A c \in Pollers : OnePort(c) /\ poll[c].epoch = epoch =>
        \A n \in 1..poll[c].cursor : n \in poll[c].got \cup poll[c].warned

(* While the wall clock is never set back, `truncated' is no false alarm:  *)
(* an answer that says so leaves out a record after the cursor it was      *)
(* asked with (read_since 333-335).                                        *)
NoFalseAlarm ==
    [][\A c \in Pollers :
          poll'[c] # poll[c] /\ poll'[c].truncated /\ OnePort(c) /\ ~stepped =>
             \E n \in (poll[c].cursor + 1)..poll'[c].cursor : n \notin poll'[c].got]_vars

(* While the wall clock is never set back, the tail of a port is its most  *)
(* recent traffic (mcp_server.py:34): no record left out is newer than one *)
(* in the answer, and records of one instant are cut in order too          *)
(* (_serial_records_for 150-158, tail 374-376).                            *)
TailIsRecent ==
    ~stepped => \A p \in Ports, n \in Limits :
        LET tail == TailAnswer({p}, n)
        IN  /\ Cardinality(tail) = IF Len(buffers[p]) < n THEN Len(buffers[p]) ELSE n
            /\ \A r \in tail, q \in Scoped({p}) \ tail : q.sequence < r.sequence

(* A wait is satisfied by nothing but a record of its own port, in the     *)
(* watched direction, that contains the pattern (mcp_server.py:36 "other   *)
(* ports cannot satisfy this wait; TX is excluded", agent.py 364-373).     *)
MatchIsReal ==
    \A w \in Waiters : wait[w].pc = "matched" =>
        \E r \in seen : r.port \in wait[w].scope /\ r.dir \in wait[w].dirs

\* The wait is going on and its deadline has not passed.
Waiting(w) == wait[w].pc \in {"checked", "blocked", "woken"} /\ ~wait[w].expired

(* No lost wake-up: a match that is in the buffer and stays there ends the *)
(* wait, even when it was recorded between the copy of the records and the *)
(* wait on the condition (366-373), unless the deadline passes first.      *)
MatchIsFound ==
    \A w \in Waiters :
        (Waiting(w) /\ Found(wait[w].scope, wait[w].dirs))
            ~> (~Waiting(w) \/ ~Found(wait[w].scope, wait[w].dirs))

(* A wait whose deadline has passed is answered, even when nothing is ever *)
(* recorded again (the 50 ms slices of 371).                               *)
DeadlineEndsWait == \A w \in Waiters : wait[w].expired ~> wait[w].pc = "idle"
=============================================================================
