------------------------------ MODULE SerialBroker ------------------------------
(***************************************************************************)
(* The shared serial broker of the agent: class SerialBroker in            *)
(* rdklink/serial_broker.py, called by the worker threads that serve       *)
(* requests (serial_open, serial_tail, serial_wait, serial_close,          *)
(* serial_write), with one reader thread per opened connection.            *)
(*                                                                         *)
(* What runs under _lock is one step.  What runs outside of it - the       *)
(* physical reads, writes and closes, the stop event, the connected flag   *)
(* and the record callback - is a step of its own, so that the threads     *)
(* interleave where the code lets them.                                    *)
(***************************************************************************)
EXTENDS SerialPortBuffer, FiniteSets

CONSTANTS
    Ports,            \* serial device paths, all allowlisted
    Sids,             \* SerialSession objects, each with its connection and thread
    Clients,          \* worker threads of the agent that serve requests
    Bauds,            \* baud rates a request may ask for
    Framings,         \* (bytesize, parity, stopbits) a request may ask for
    DefaultFraming,   \* 8N1, what open() assumes when the caller gives no framing
    None,             \* Python's None: no session, no port
    MaxLines,         \* bound: lines read off a port
    MaxWrites         \* bound: writes that reach a port

ASSUME BrokerAssumption ==
    /\ DefaultFraming \in Framings
    /\ None \notin Sids /\ None \notin [baud : Bauds, framing : Framings]
    /\ MaxLines \in Nat /\ MaxWrites \in Nat

VARIABLES
    sessions,   \* _sessions (and _connections, popped with it): the session of a port
    session,    \* the fields of each SerialSession that steer control
    conn,       \* the physical connection of each session
    reader,     \* the thread running _reader for each session, and the line it holds
    call,       \* what each worker thread is doing inside the broker
    taken,      \* number of lines read off each port; names the lines
    sent,       \* number of writes put on each port; names the writes
    buffers,    \* broker.buffers: the raw records kept per port
    delivered   \* the records handed to the record callback, per port

vars == <<sessions, session, conn, reader, call, taken, sent, buffers, delivered>>

Config == [baud : Bauds, framing : Framings]
Record == [dir : {"RX", "TX"}, n : Nat, size : {1}]

\* The record of one line or write; sizes, those of the raw bytes, are taken equal.
Rx(n) == [dir |-> "RX", n |-> n, size |-> 1]
LowerCaseTx(n) == [dir |-> "tx", n |-> n, size |-> 1]   \* mutant of Tx
Tx(n) == [dir |-> "TX", n |-> n, size |-> 1]

Registered(s) == \E p \in Ports : sessions[p] = s

AlwaysReconnect(p) == FALSE   \* mutant of Live: open() does not look for a session
\* The port has a session whose reader has not seen its connection fail.
Live(p) == sessions[p] # None /\ session[sessions[p]].connected

\* A worker thread between two requests.
IdleCall == [pc |-> "idle", sid |-> None, n |-> 0]
Idle(c) == call[c].pc = "idle"

Init ==
    /\ sessions = [p \in Ports |-> None]
    /\ session = [s \in Sids |->
                     [port |-> None, config |-> None, connected |-> FALSE, stop |-> FALSE]]
    /\ conn = [s \in Sids |-> "none"]
    /\ reader = [s \in Sids |-> [pc |-> "unborn", line |-> 0]]
    /\ call = [c \in Clients |-> IdleCall]
    /\ taken = [p \in Ports |-> 0]
    /\ sent = [p \in Ports |-> 0]
    /\ buffers = [p \in Ports |-> <<>>]
    /\ delivered = [p \in Ports |-> <<>>]

\* The worker thread finishes the request with this outcome.
Finish(c, outcome) == call' = [call EXCEPT ![c] = [IdleCall EXCEPT !.pc = outcome]]

\* The answer of a finished request goes out and the thread is free again.
Answer(c) ==
    /\ call[c].pc \in {"answered", "refused"}
    /\ call' = [call EXCEPT ![c] = IdleCall]
    /\ UNCHANGED <<sessions, session, conn, reader, taken, sent, buffers, delivered>>

-----------------------------------------------------------------------------
(* open(port, baudrate, framing): all of it under _lock.                   *)

Reuse(c, p, config) ==
    /\ Idle(c) /\ Live(p)
    /\ session[sessions[p]].config = config
    /\ Finish(c, "answered")
    /\ UNCHANGED <<sessions, session, conn, reader, taken, sent, buffers, delivered>>

\* SerialConfigurationConflictError
Refuse(c, p, config) ==
    /\ Idle(c) /\ Live(p)
    /\ session[sessions[p]].config # config
    /\ Finish(c, "refused")
    /\ UNCHANGED <<sessions, session, conn, reader, taken, sent, buffers, delivered>>

\* Mutant of Connect: another configuration replaces the session instead of being refused.
ConnectOnConflict(c, p, config) ==
    /\ Idle(c) /\ (Live(p) => session[sessions[p]].config # config)
    /\ \E s \in Sids :
        /\ conn[s] = "none"
        /\ conn' = [conn EXCEPT ![s] = "open"]
        /\ session' = [session EXCEPT ![s] =
                [port |-> p, config |-> config, connected |-> TRUE, stop |-> FALSE]]
        /\ sessions' = [sessions EXCEPT ![p] = s]
        /\ reader' = [reader EXCEPT ![s].pc = "loop"]
    /\ Finish(c, "answered")
    /\ UNCHANGED <<taken, sent, buffers, delivered>>

(* No session, or one whose reader has already failed: a new connection    *)
(* is made and takes the port's place in the registry.                     *)
Connect(c, p, config) ==
    /\ Idle(c) /\ ~Live(p)
    /\ \E s \in Sids :
        /\ conn[s] = "none"
        /\ conn' = [conn EXCEPT ![s] = "open"]
        /\ session' = [session EXCEPT ![s] =
                [port |-> p, config |-> config, connected |-> TRUE, stop |-> FALSE]]
        /\ sessions' = [sessions EXCEPT ![p] = s]
        /\ reader' = [reader EXCEPT ![s].pc = "loop"]
    /\ Finish(c, "answered")
    /\ UNCHANGED <<taken, sent, buffers, delivered>>

\* The serial factory raises.
ConnectFails(c, p) ==
    /\ Idle(c) /\ ~Live(p)
    /\ Finish(c, "answered")
    /\ UNCHANGED <<sessions, session, conn, reader, taken, sent, buffers, delivered>>

Open(c, p, config) ==
    \/ Reuse(c, p, config)
    \/ Refuse(c, p, config)
    \/ Connect(c, p, config)
    \/ ConnectFails(c, p)

\* serial_open passes on the framing that was asked for.
SerialOpen(c) == \E p \in Ports, config \in Config : Open(c, p, config)

\* serial_tail and serial_wait open the port by baud rate only.
ByBaud(b) == [baud |-> b, framing |-> DefaultFraming]
TailOpen(c, p, b) == Open(c, p, ByBaud(b))
SerialTail(c) == \E p \in Ports, b \in Bauds : TailOpen(c, p, b)

-----------------------------------------------------------------------------
(* close(port): only the two pops are under _lock.                         *)

\* Mutant of ClosePop: the session is looked up and stays in the registry.
CloseLookup(c, p) ==
    /\ Idle(c)
    /\ call' = [call EXCEPT ![c] =
                   IF sessions[p] = None THEN [IdleCall EXCEPT !.pc = "answered"]
                   ELSE [IdleCall EXCEPT !.pc = "popped", !.sid = sessions[p]]]
    /\ UNCHANGED <<sessions, session, conn, reader, taken, sent, buffers, delivered>>

ClosePop(c, p) ==
    /\ Idle(c)
    /\ sessions' = [sessions EXCEPT ![p] = None]
    /\ call' = [call EXCEPT ![c] =
                   IF sessions[p] = None THEN [IdleCall EXCEPT !.pc = "answered"]
                   ELSE [IdleCall EXCEPT !.pc = "popped", !.sid = sessions[p]]]
    /\ UNCHANGED <<session, conn, reader, taken, sent, buffers, delivered>>

CloseStop(c) ==
    /\ call[c].pc = "popped"
    /\ session' = [session EXCEPT ![call[c].sid].stop = TRUE]
    /\ call' = [call EXCEPT ![c].pc = "stopped"]
    /\ UNCHANGED <<sessions, conn, reader, taken, sent, buffers, delivered>>

CloseConnection(c) ==
    /\ call[c].pc = "stopped"
    /\ conn' = [conn EXCEPT ![call[c].sid] = "closed"]
    /\ Finish(c, "answered")
    /\ UNCHANGED <<sessions, session, reader, taken, sent, buffers, delivered>>

-----------------------------------------------------------------------------
(* _emit: the raw record goes into the port's buffer under _lock, then to  *)
(* the record callback outside of it.                                      *)

\* Mutant of Keep: transmitted records are not kept.
KeepReceived(p, record) ==
    IF record.dir = "RX" THEN \E new \in Appended(buffers[p], record) :
                                  buffers' = [buffers EXCEPT ![p] = new]
    ELSE UNCHANGED buffers

Keep(p, record) == \E new \in Appended(buffers[p], record) :
                       buffers' = [buffers EXCEPT ![p] = new]

Deliver(p, record) == delivered' = [delivered EXCEPT ![p] = Append(@, record)]

-----------------------------------------------------------------------------
(* write(port, data)                                                       *)

\* The registry is read under _lock, what follows is not.
WriteLookup(c, p) ==
    /\ Idle(c)
    /\ call' = [call EXCEPT ![c] =
                   IF sessions[p] = None THEN [IdleCall EXCEPT !.pc = "answered"]
                   ELSE [IdleCall EXCEPT !.pc = "found", !.sid = sessions[p]]]
    /\ UNCHANGED <<sessions, session, conn, reader, taken, sent, buffers, delivered>>

\* Mutant of WriteCheck: waits for the session to come back.
WriteAwaits(c) ==
    /\ call[c].pc = "found"
    /\ session[call[c].sid].connected
    /\ call' = [call EXCEPT ![c].pc = "sending"]
    /\ UNCHANGED <<sessions, session, conn, reader, taken, sent, buffers, delivered>>

WriteCheck(c) ==
    /\ call[c].pc = "found"
    /\ IF session[call[c].sid].connected
       THEN call' = [call EXCEPT ![c].pc = "sending"]
       ELSE Finish(c, "answered")
    /\ UNCHANGED <<sessions, session, conn, reader, taken, sent, buffers, delivered>>

WriteSend(c) ==
    LET s == call[c].sid
        p == session[s].port
    IN  /\ call[c].pc = "sending"
        /\ conn[s] = "open"
        /\ sent[p] < MaxWrites
        /\ sent' = [sent EXCEPT ![p] = @ + 1]
        /\ call' = [call EXCEPT ![c].pc = "sent", ![c].n = sent[p] + 1]
        /\ UNCHANGED <<sessions, session, conn, reader, taken, buffers, delivered>>

\* connection.write raises: always once the connection is closed, maybe before.
WriteFails(c) ==
    /\ call[c].pc = "sending"
    /\ Finish(c, "answered")
    /\ UNCHANGED <<sessions, session, conn, reader, taken, sent, buffers, delivered>>

WriteKeep(c) ==
    /\ call[c].pc = "sent"
    /\ Keep(session[call[c].sid].port, Tx(call[c].n))
    /\ call' = [call EXCEPT ![c].pc = "kept"]
    /\ UNCHANGED <<sessions, session, conn, reader, taken, sent, delivered>>

WriteDeliver(c) ==
    /\ call[c].pc = "kept"
    /\ Deliver(session[call[c].sid].port, Tx(call[c].n))
    /\ Finish(c, "answered")
    /\ UNCHANGED <<sessions, session, conn, reader, taken, sent, buffers>>

-----------------------------------------------------------------------------
(* _reader: the thread of session s.                                       *)

At(s, pc) == reader[s].pc = pc
GoTo(s, pc) == reader' = [reader EXCEPT ![s].pc = pc]

ReadForEver(s) == TRUE   \* mutant of MayRead

\* The condition of the while loop.
MayRead(s) == ~session[s].stop /\ conn[s] = "open"

ReaderLoop(s) ==
    /\ At(s, "loop")
    /\ GoTo(s, IF MayRead(s) THEN "read" ELSE "cleanup")
    /\ UNCHANGED <<sessions, session, conn, call, taken, sent, buffers, delivered>>

\* A line arrives at the open connection and this reader takes it.
ReaderLine(s) ==
    LET p == session[s].port
    IN  /\ At(s, "read")
        /\ conn[s] = "open"
        /\ taken[p] < MaxLines
        /\ taken' = [taken EXCEPT ![p] = @ + 1]
        /\ reader' = [reader EXCEPT ![s] = [pc |-> "line", line |-> taken[p] + 1]]
        /\ UNCHANGED <<sessions, session, conn, call, sent, buffers, delivered>>

\* The 0.2 s read timeout passes, or the line is nothing but its line ending.
ReaderBlank(s) ==
    /\ At(s, "read")
    /\ GoTo(s, "loop")
    /\ UNCHANGED <<sessions, session, conn, call, taken, sent, buffers, delivered>>

\* The read raises: the device is gone or the connection was closed under it.
ReaderFails(s) ==
    /\ At(s, "read")
    /\ session' = [session EXCEPT ![s].connected = FALSE]
    /\ GoTo(s, "cleanup")
    /\ UNCHANGED <<sessions, conn, call, taken, sent, buffers, delivered>>

ReaderKeep(s) ==
    /\ At(s, "line")
    /\ Keep(session[s].port, Rx(reader[s].line))
    /\ GoTo(s, "kept")
    /\ UNCHANGED <<sessions, session, conn, call, taken, sent, delivered>>

\* Mutant of ReaderDeliver: a line read before the stop is dropped after it.
DeliverUnlessStopped(s) ==
    /\ At(s, "kept")
    /\ IF session[s].stop THEN UNCHANGED delivered
       ELSE Deliver(session[s].port, Rx(reader[s].line))
    /\ reader' = [reader EXCEPT ![s] = [pc |-> "loop", line |-> 0]]
    /\ UNCHANGED <<sessions, session, conn, call, taken, sent, buffers>>

ReaderDeliver(s) ==
    /\ At(s, "kept")
    /\ Deliver(session[s].port, Rx(reader[s].line))
    /\ reader' = [reader EXCEPT ![s] = [pc |-> "loop", line |-> 0]]
    /\ UNCHANGED <<sessions, session, conn, call, taken, sent, buffers>>

\* Mutants of IsCurrent: whoever holds the port; and only while it is connected.
AnySession(s) == sessions[session[s].port] # None
StillConnected(s) == sessions[session[s].port] = s /\ session[s].connected

\* `current is session': the port may have been given to another session meanwhile.
IsCurrent(s) == sessions[session[s].port] = s

ReaderUnregister(s) ==
    /\ At(s, "cleanup")
    /\ sessions' = IF IsCurrent(s) THEN [sessions EXCEPT ![session[s].port] = None]
                   ELSE sessions
    /\ GoTo(s, "closing")
    /\ UNCHANGED <<session, conn, call, taken, sent, buffers, delivered>>

ReaderClose(s) ==
    /\ At(s, "closing")
    /\ conn' = [conn EXCEPT ![s] = "closed"]
    /\ GoTo(s, "done")
    /\ UNCHANGED <<sessions, session, call, taken, sent, buffers, delivered>>

-----------------------------------------------------------------------------
\* A request arrives at a free worker thread.
Request(c) ==
    \/ SerialOpen(c)
    \/ SerialTail(c)
    \/ \E p \in Ports : ClosePop(c, p) \/ WriteLookup(c, p)

\* A worker thread goes on with its request, outside of the physical write.
Proceed(c) ==
    \/ CloseStop(c) \/ CloseConnection(c)
    \/ WriteCheck(c) \/ WriteKeep(c) \/ WriteDeliver(c)
    \/ Answer(c)

Continue(c) == Proceed(c) \/ WriteSend(c) \/ WriteFails(c)

Read(s) ==
    \/ ReaderLoop(s) \/ ReaderLine(s) \/ ReaderBlank(s) \/ ReaderFails(s)
    \/ ReaderKeep(s) \/ ReaderDeliver(s)
    \/ ReaderUnregister(s) \/ ReaderClose(s)

Next ==
    \/ \E c \in Clients : Request(c) \/ Continue(c)
    \/ \E s \in Sids : Read(s)

Spec == Init /\ [][Next]_vars

(* Threads are scheduled by the operating system, reads time out after     *)
(* 0.2 s and the lock is never held across a wait.  A physical write has   *)
(* no timeout and need not return, as when the device takes no more.  No   *)
(* request has to arrive.                                                  *)
Fairness ==
    /\ \A c \in Clients : WF_vars(Proceed(c))
    /\ \A s \in Sids : WF_vars(Read(s))

FairSpec == Spec /\ Fairness

-----------------------------------------------------------------------------
(* Properties                                                              *)

ReaderPcs == {"unborn", "loop", "read", "line", "kept", "cleanup", "closing", "done"}
CallPcs == {"idle", "popped", "stopped", "found", "sending", "sent", "kept",
            "answered", "refused"}

\* Every variable has the type its Python counterpart has.
TypeOK ==
    /\ sessions \in [Ports -> Sids \cup {None}]
    /\ session \in [Sids -> [port : Ports \cup {None}, config : Config \cup {None},
                             connected : BOOLEAN, stop : BOOLEAN]]
    /\ conn \in [Sids -> {"none", "open", "closed"}]
    /\ reader \in [Sids -> [pc : ReaderPcs, line : Nat]]
    /\ call \in [Clients -> [pc : CallPcs, sid : Sids \cup {None}, n : Nat]]
    /\ taken \in [Ports -> Nat]
    /\ sent \in [Ports -> Nat]
    /\ buffers \in [Ports -> Seq(Record)]
    /\ delivered \in [Ports -> Seq(Record)]

(* A registered session owns an open connection that its own reader still  *)
(* serves, and is marked disconnected only while that reader is about to   *)
(* take it out of the registry: _sessions never points at a dead session   *)
(* that nobody would remove (open 182-210, _reader's finally 239-248).     *)
RegisteredIsServed ==
    \A p \in Ports : sessions[p] # None =>
        LET s == sessions[p]
        IN  /\ session[s].port = p
            /\ conn[s] = "open"
            /\ ~session[s].stop
            /\ reader[s].pc \in {"loop", "read", "line", "kept", "cleanup"}
            /\ session[s].connected <=> ~At(s, "cleanup")

(* An open connection is never forgotten: it is registered, or its reader  *)
(* is about to close it, or a close() that popped it is (close 269-278,    *)
(* the replacement of a disconnected session in open 187-207).             *)
NoOrphanConnection ==
    \A s \in Sids : conn[s] = "open" =>
        \/ Registered(s)
        \/ reader[s].pc \in {"cleanup", "closing"}
        \/ \E c \in Clients : call[c].sid = s /\ call[c].pc \in {"popped", "stopped"}

(* A live session loses its port to nothing but a close request; above all *)
(* the late cleanup of an earlier reader does not evict its successor (the *)
(* `current is session' test, 241-244), nor does another port's traffic.   *)
LiveSessionLeavesByClose ==
    [][\A p \in Ports : Live(p) /\ sessions'[p] # sessions[p] =>
          \E c \in Clients : /\ Idle(c)
                             /\ call'[c].pc = "popped"
                             /\ call'[c].sid = sessions[p]]_vars

\* How often a record was handed to the callback.
Delivered(p, record) == Cardinality({i \in DOMAIN delivered[p] : delivered[p][i] = record})

(* Every line taken off a port and every write put on it is recorded once: *)
(* it is in the hands of exactly one thread or was delivered exactly once, *)
(* whatever closes, failures and reopenings happen around it (_reader      *)
(* 228-234, write 294-296, _emit 250-267).                                 *)
RecordedOnce ==
    \A p \in Ports :
        /\ \A n \in 1..taken[p] :
              Delivered(p, Rx(n))
              + Cardinality({s \in Sids : session[s].port = p /\ reader[s].line = n}) = 1
        /\ \A n \in 1..sent[p] :
              Delivered(p, Tx(n))
              + Cardinality({c \in Clients : /\ call[c].pc \in {"sent", "kept"}
                                             /\ session[call[c].sid].port = p
                                             /\ call[c].n = n}) = 1

\* The records that are in the raw buffer and not yet with the callback.
OnItsWay(p) ==
    {Rx(reader[s].line) : s \in {r \in Sids : session[r].port = p /\ At(r, "kept")}}
    \cup {Tx(call[c].n) : c \in {d \in Clients : call[d].pc = "kept"
                                               /\ session[call[d].sid].port = p}}

(* The broker's raw buffer and the callback's consumer hold the same       *)
(* traffic: what the buffer keeps was delivered or is on its way, and what *)
(* it does not keep was pushed out by its bounds, never skipped (_emit).   *)
RawBufferAgrees ==
    \A p \in Ports :
        LET kept == {buffers[p][i] : i \in DOMAIN buffers[p]}
            given == {delivered[p][i] : i \in DOMAIN delivered[p]}
        IN  /\ kept \subseteq given \cup OnItsWay(p)
            /\ \/ given \cup OnItsWay(p) = kept
               \/ Len(buffers[p]) = MaxRecords \/ Bytes(buffers[p]) = MaxBytes

\* The refinement mapping: a port is leased with the configuration of its live session.
lease == [p \in Ports |-> IF Live(p) THEN session[sessions[p]].config ELSE None]

Lease == INSTANCE PortLease WITH Configs <- Config, Free <- None

(* The broker implements the abstract lease of PortLease.  No interleaving *)
(* of opens, closes, failures and late cleanups changes the configuration  *)
(* of a port that is in use (open 182-210, close 269-278, _reader 212-248).*)
LeaseSpec == Lease!Spec

(* A request is left hanging nowhere in the broker but inside the device's *)
(* own write, which has no timeout (line 294): every other path of close   *)
(* and write ends in an answer, whatever the device does to the readers    *)
(* and however many other requests hang there (269-278, 288-297).          *)
RequestsEnd == \A c \in Clients : ~Idle(c) ~> (Idle(c) \/ call[c].pc = "sending")

(* A connection that left the registry is closed in the end, and so is its *)
(* reader: a close, a lost device or a replacement leaks no descriptor and *)
(* no thread (212-248, 269-278).                                           *)
ReleasedIsClosed ==
    \A s \in Sids : (conn[s] = "open" /\ ~Registered(s)) ~> (conn[s] = "closed" /\ At(s, "done"))

(* A session whose device failed does not stay in the registry for ever    *)
(* (235-244): the port becomes available again without a close.            *)
LostSessionLeaves ==
    \A s \in Sids : (Registered(s) /\ ~session[s].connected) ~> ~Registered(s)

(* "Own one physical serial session per port" (serial_broker.py:72): at    *)
(* most one connection to a port is open at any moment.  The code breaks   *)
(* this: close() frees the port before it closes the connection, and a     *)
(* failed reader marks the session before it closes it.                    *)
OnePhysicalConnection ==
    \A s, t \in Sids :
        conn[s] = "open" /\ conn[t] = "open" /\ session[s].port = session[t].port => s = t
=============================================================================
