--------------------------- MODULE SerialBrokerProofs ---------------------------
(***************************************************************************)
(* Proofs about SerialBroker for every number of ports, sessions, worker   *)
(* threads and configurations, and for every bound of the raw buffers.     *)
(***************************************************************************)
EXTENDS SerialBroker, SerialPortBufferProofs, FiniteSetTheorems

-----------------------------------------------------------------------------
(* Type correctness                                                        *)

\* The records of lines and of writes are records.
LEMMA RxTxType == \A n \in Nat : Rx(n) \in Record /\ Tx(n) \in Record
BY DEF Rx, Tx, Record

\* Keeping a record in the raw buffer keeps the buffers well-formed.
LEMMA KeepType ==
    ASSUME TypeOK, NEW p \in Ports, NEW record \in Record, Keep(p, record)
    PROVE  buffers' \in [Ports -> Seq(Record)]
<1>1. PICK new \in Appended(buffers[p], record) : buffers' = [buffers EXCEPT ![p] = new]
  BY DEF Keep
<1>2. buffers[p] \in Seq(Record)
  BY DEF TypeOK
<1>3. new \in Seq(Record)
  BY <1>2, AppendedType
<1> QED
  BY <1>1, <1>3 DEF TypeOK

\* Handing a record to the callback keeps the deliveries well-formed.
LEMMA DeliverType ==
    ASSUME TypeOK, NEW p \in Ports, NEW record \in Record, Deliver(p, record)
    PROVE  delivered' \in [Ports -> Seq(Record)]
BY AppendProperties DEF TypeOK, Deliver

(* A thread of a session or of a request that is past its first step has a *)
(* session, and that session has a port: the steps below rely on it.       *)
HasSession ==
    /\ \A c \in Clients : call[c].pc \in {"popped", "stopped", "found", "sending", "sent", "kept"} =>
          call[c].sid \in Sids /\ conn[call[c].sid] # "none"
    /\ \A s \in Sids : conn[s] = "none" <=> At(s, "unborn")
    /\ \A s \in Sids : conn[s] # "none" =>
          session[s].port \in Ports /\ session[s].config \in Config

\* Setting a flag of one session keeps the type.
LEMMA FlagType ==
    ASSUME NEW S, NEW A, NEW B, NEW s \in S, NEW b \in BOOLEAN,
           NEW f \in [S -> [port : A, config : B, connected : BOOLEAN, stop : BOOLEAN]]
    PROVE  /\ [f EXCEPT ![s].connected = b]
                 \in [S -> [port : A, config : B, connected : BOOLEAN, stop : BOOLEAN]]
           /\ [f EXCEPT ![s].stop = b]
                 \in [S -> [port : A, config : B, connected : BOOLEAN, stop : BOOLEAN]]
OBVIOUS

\* At the start every variable has its type and nobody has a session yet.
LEMMA TypeInit == Init => TypeOK /\ HasSession
<1> SUFFICES ASSUME Init PROVE TypeOK /\ HasSession
  OBVIOUS
<1>1. TypeOK
  BY EmptySeq, BrokerAssumption DEF Init, TypeOK, IdleCall, ReaderPcs, CallPcs
<1>2. HasSession
  BY DEF Init, HasSession, IdleCall, At
<1> QED
  BY <1>1, <1>2

\* Every step keeps the type, given that whoever acts on a session has one.
LEMMA TypeStep ==
    ASSUME TypeOK, HasSession, [Next]_vars
    PROVE  TypeOK'
<1> USE DEF TypeOK, ReaderPcs, CallPcs
<1>1. ASSUME NEW c \in Clients, NEW p \in Ports, NEW config \in Config, Open(c, p, config)
      PROVE  TypeOK'
  <2>1. CASE Reuse(c, p, config)
    BY <2>1 DEF Reuse, Finish, IdleCall
  <2>2. CASE Refuse(c, p, config)
    BY <2>2 DEF Refuse, Finish, IdleCall
  <2>3. CASE Connect(c, p, config)
    <3>1. PICK s \in Sids :
             /\ conn' = [conn EXCEPT ![s] = "open"]
             /\ session' = [session EXCEPT ![s] =
                    [port |-> p, config |-> config, connected |-> TRUE, stop |-> FALSE]]
             /\ sessions' = [sessions EXCEPT ![p] = s]
             /\ reader' = [reader EXCEPT ![s].pc = "loop"]
      BY <2>3 DEF Connect
    <3>2. session' \in [Sids -> [port : Ports \cup {None}, config : Config \cup {None},
                                 connected : BOOLEAN, stop : BOOLEAN]]
      BY <3>1
    <3>3. reader' \in [Sids -> [pc : ReaderPcs, line : Nat]]
      BY <3>1, ZenonT(30)
    <3>4. /\ sessions' \in [Ports -> Sids \cup {None}]
          /\ conn' \in [Sids -> {"none", "open", "closed"}]
      BY <3>1
    <3>5. call' \in [Clients -> [pc : CallPcs, sid : Sids \cup {None}, n : Nat]]
      BY <2>3 DEF Connect, Finish, IdleCall
    <3> QED
      BY <2>3, <3>2, <3>3, <3>4, <3>5 DEF Connect
  <2>4. CASE ConnectFails(c, p)
    BY <2>4 DEF ConnectFails, Finish, IdleCall
  <2> QED
    BY <1>1, <2>1, <2>2, <2>3, <2>4 DEF Open
<1>2. ASSUME NEW c \in Clients, NEW p \in Ports, ClosePop(c, p) \/ WriteLookup(c, p)
      PROVE  TypeOK'
  <2>1. CASE ClosePop(c, p)
    BY <2>1 DEF ClosePop, IdleCall
  <2>2. CASE WriteLookup(c, p)
    BY <2>2 DEF WriteLookup, IdleCall
  <2> QED
    BY <1>2, <2>1, <2>2
<1>3. ASSUME NEW c \in Clients, Continue(c)
      PROVE  TypeOK'
  <2>1. CASE CloseStop(c)
    <3>1. session' \in [Sids -> [port : Ports \cup {None}, config : Config \cup {None},
                                 connected : BOOLEAN, stop : BOOLEAN]]
      <4>1. call[c].sid \in Sids
        BY <2>1 DEF CloseStop, HasSession
      <4> QED
        BY <2>1, <4>1, FlagType DEF CloseStop
    <3>2. call' \in [Clients -> [pc : CallPcs, sid : Sids \cup {None}, n : Nat]]
      BY <2>1, ZenonT(30) DEF CloseStop
    <3> QED
      BY <2>1, <3>1, <3>2 DEF CloseStop
  <2>2. CASE CloseConnection(c)
    BY <2>2 DEF CloseConnection, Finish, IdleCall
  <2>3. CASE WriteCheck(c)
    <3>1. [IdleCall EXCEPT !.pc = "answered"] \in [pc : CallPcs, sid : Sids \cup {None}, n : Nat]
      BY DEF IdleCall
    <3>2. [call[c] EXCEPT !.pc = "sending"] \in [pc : CallPcs, sid : Sids \cup {None}, n : Nat]
      BY ZenonT(30)
    <3>3. call' \in [Clients -> [pc : CallPcs, sid : Sids \cup {None}, n : Nat]]
      BY <2>3, <3>1, <3>2, ZenonT(30) DEF WriteCheck, Finish
    <3> QED
      BY <2>3, <3>3 DEF WriteCheck
  <2>4. CASE WriteSend(c)
    <3> DEFINE p == session[call[c].sid].port
    <3>1. p \in Ports
      BY <2>4 DEF WriteSend, HasSession
    <3>2. sent' \in [Ports -> Nat] /\ sent[p] + 1 \in Nat
      <4>1. sent' = [sent EXCEPT ![p] = @ + 1]
        BY <2>4 DEF WriteSend
      <4>2. sent \in [Ports -> Nat]
        OBVIOUS
      <4> HIDE DEF TypeOK, CallPcs, p
      <4> QED
        BY <3>1, <4>1, <4>2
    <3>3. call' \in [Clients -> [pc : CallPcs, sid : Sids \cup {None}, n : Nat]]
      <4>1. call' = [call EXCEPT ![c].pc = "sent", ![c].n = sent[p] + 1]
        BY <2>4 DEF WriteSend
      <4>2. "sent" \in CallPcs /\ sent[p] + 1 \in Nat
        BY <3>2
      <4>3. call \in [Clients -> [pc : CallPcs, sid : Sids \cup {None}, n : Nat]]
        OBVIOUS
      <4> HIDE DEF TypeOK, CallPcs, p
      <4> QED
        BY <4>1, <4>2, <4>3
    <3> QED
      BY <2>4, <3>2, <3>3 DEF WriteSend
  <2>5. CASE WriteFails(c)
    BY <2>5 DEF WriteFails, Finish, IdleCall
  <2>6. CASE WriteKeep(c)
    <3>1. session[call[c].sid].port \in Ports
      BY <2>6 DEF WriteKeep, HasSession
    <3>2. Tx(call[c].n) \in Record
      BY RxTxType
    <3>3. buffers' \in [Ports -> Seq(Record)]
      BY <2>6, <3>1, <3>2, KeepType DEF WriteKeep
    <3> QED
      BY <2>6, <3>3 DEF WriteKeep
  <2>7. CASE WriteDeliver(c)
    <3>1. session[call[c].sid].port \in Ports
      BY <2>7 DEF WriteDeliver, HasSession
    <3>2. Tx(call[c].n) \in Record
      BY RxTxType
    <3>3. delivered' \in [Ports -> Seq(Record)]
      BY <2>7, <3>1, <3>2, DeliverType DEF WriteDeliver
    <3> QED
      BY <2>7, <3>3 DEF WriteDeliver, Finish, IdleCall
  <2>8. CASE Answer(c)
    BY <2>8 DEF Answer, IdleCall
  <2> QED
    BY <1>3, <2>1, <2>2, <2>3, <2>4, <2>5, <2>6, <2>7, <2>8 DEF Continue, Proceed
<1>4. ASSUME NEW s \in Sids, Read(s)
      PROVE  TypeOK'
  <2>1. CASE ReaderLoop(s)
    BY <2>1, ZenonT(30) DEF ReaderLoop, GoTo
  <2>2. CASE ReaderLine(s)
    <3> DEFINE p == session[s].port
    <3>1. p \in Ports
      BY <2>2 DEF ReaderLine, HasSession
    <3>2. taken' \in [Ports -> Nat] /\ taken[p] + 1 \in Nat
      BY <2>2, <3>1 DEF ReaderLine
    <3>3. reader' \in [Sids -> [pc : ReaderPcs, line : Nat]]
      BY <2>2, <3>2 DEF ReaderLine
    <3> QED
      BY <2>2, <3>2, <3>3 DEF ReaderLine
  <2>3. CASE ReaderBlank(s)
    BY <2>3, ZenonT(30) DEF ReaderBlank, GoTo
  <2>4. CASE ReaderFails(s)
    <3>1. session' \in [Sids -> [port : Ports \cup {None}, config : Config \cup {None},
                                 connected : BOOLEAN, stop : BOOLEAN]]
      BY <2>4, FlagType DEF ReaderFails
    <3>2. reader' \in [Sids -> [pc : ReaderPcs, line : Nat]]
      BY <2>4 DEF ReaderFails, GoTo
    <3> QED
      BY <2>4, <3>1, <3>2 DEF ReaderFails
  <2>5. CASE ReaderKeep(s)
    <3>1. session[s].port \in Ports
      BY <2>5 DEF ReaderKeep, HasSession, At
    <3>2. Rx(reader[s].line) \in Record
      BY RxTxType
    <3>3. buffers' \in [Ports -> Seq(Record)]
      BY <2>5, <3>1, <3>2, KeepType DEF ReaderKeep
    <3> QED
      BY <2>5, <3>3, ZenonT(30) DEF ReaderKeep, GoTo
  <2>6. CASE ReaderDeliver(s)
    <3>1. session[s].port \in Ports
      BY <2>6 DEF ReaderDeliver, HasSession, At
    <3>2. Rx(reader[s].line) \in Record
      BY RxTxType
    <3>3. delivered' \in [Ports -> Seq(Record)]
      BY <2>6, <3>1, <3>2, DeliverType DEF ReaderDeliver
    <3> QED
      BY <2>6, <3>3 DEF ReaderDeliver
  <2>7. CASE ReaderUnregister(s)
    BY <2>7, ZenonT(30) DEF ReaderUnregister, GoTo
  <2>8. CASE ReaderClose(s)
    BY <2>8, ZenonT(30) DEF ReaderClose, GoTo
  <2> QED
    BY <1>4, <2>1, <2>2, <2>3, <2>4, <2>5, <2>6, <2>7, <2>8 DEF Read
<1>5. CASE UNCHANGED vars
  BY <1>5 DEF vars
<1>6. ASSUME NEW c \in Clients, Request(c)
      PROVE  TypeOK'
  <2>1. \A b \in Bauds : ByBaud(b) \in Config
    BY BrokerAssumption DEF ByBaud, Config
  <2> QED
    BY <1>1, <1>2, <1>6, <2>1 DEF Request, SerialOpen, SerialTail, TailOpen
<1> QED
  BY <1>3, <1>4, <1>5, <1>6 DEF Next

-----------------------------------------------------------------------------
(* The inductive invariant                                                 *)

\* A session that a close() popped never comes back into the registry.
PoppedIsFree ==
    \A c \in Clients : call[c].pc \in {"popped", "stopped"} =>
        \A p \in Ports : sessions[p] # call[c].sid

IInv == TypeOK /\ HasSession /\ PoppedIsFree /\ RegisteredIsServed /\ NoOrphanConnection

\* The inductive invariant holds at the start.
LEMMA InvInit == Init => IInv
<1> SUFFICES ASSUME Init PROVE IInv
  OBVIOUS
<1>1. PoppedIsFree
  BY DEF Init, PoppedIsFree, IdleCall
<1>2. RegisteredIsServed
  BY DEF Init, RegisteredIsServed
<1>3. NoOrphanConnection
  BY DEF Init, NoOrphanConnection
<1> QED
  BY <1>1, <1>2, <1>3, TypeInit DEF IInv

\* The part of the type that says which session an actor holds.
LEMMA Shapes ==
    ASSUME TypeOK
    PROVE  /\ sessions \in [Ports -> Sids \cup {None}]
           /\ conn \in [Sids -> {"none", "open", "closed"}]
           /\ DOMAIN session = Sids /\ DOMAIN reader = Sids /\ DOMAIN call = Clients
           /\ \A s \in Sids : /\ DOMAIN session[s] = {"port", "config", "connected", "stop"}
                              /\ DOMAIN reader[s] = {"pc", "line"}
           /\ \A c \in Clients : DOMAIN call[c] = {"pc", "sid", "n"}
BY DEF TypeOK

Working == {"found", "sending", "sent", "kept"}
Reading == {"loop", "read", "line", "kept"}

(* A step that changes neither the registry nor a session nor a connection *)
(* and starts or ends no close, no cleanup: requests that are answered at  *)
(* once, writes, and readers that go on reading.                           *)
QuietStep ==
    /\ UNCHANGED <<sessions, session, conn>>
    /\ \A s \in Sids : \/ reader'[s].pc = reader[s].pc
                       \/ reader[s].pc \in Reading /\ reader'[s].pc \in Reading
    /\ \A c \in Clients :
          \/ call'[c] = call[c]
          \/ /\ call[c].pc \notin {"popped", "stopped"}
             /\ call'[c].pc \notin {"popped", "stopped"}
             /\ call'[c].pc \in Working =>
                   call'[c].sid \in Sids /\ conn[call'[c].sid] # "none"

\* A quiet step keeps every part of the invariant.
LEMMA QuietStepKeeps ==
    ASSUME IInv, QuietStep
    PROVE  HasSession' /\ PoppedIsFree' /\ RegisteredIsServed' /\ NoOrphanConnection'
<1> USE DEF QuietStep, Working, Reading
<1>1. TypeOK /\ HasSession /\ PoppedIsFree /\ RegisteredIsServed /\ NoOrphanConnection
  BY DEF IInv
<1>2. HasSession'
  BY <1>1, Shapes DEF HasSession, At
<1>3. PoppedIsFree'
  BY <1>1, Shapes DEF PoppedIsFree
<1>4. RegisteredIsServed'
  BY <1>1, Shapes DEF RegisteredIsServed, At
<1>5. NoOrphanConnection'
  BY <1>1, Shapes DEF NoOrphanConnection, Registered
<1> QED
  BY <1>2, <1>3, <1>4, <1>5

\* An open that reuses, refuses or fails is quiet.
LEMMA RequestIsQuiet ==
    ASSUME IInv, NEW c \in Clients, NEW p \in Ports, NEW config \in Config,
           Reuse(c, p, config) \/ Refuse(c, p, config) \/ ConnectFails(c, p)
    PROVE  QuietStep
<1>1. TypeOK
  BY DEF IInv
<1> QED
  BY <1>1, Shapes DEF Reuse, Refuse, ConnectFails, Finish, IdleCall, Idle, QuietStep, Working

\* The lookup of a write is quiet.
LEMMA LookupIsQuiet ==
    ASSUME IInv, NEW c \in Clients, NEW p \in Ports, WriteLookup(c, p)
    PROVE  QuietStep
<1>1. TypeOK /\ RegisteredIsServed
  BY DEF IInv
<1> QED
  BY <1>1, Shapes DEF WriteLookup, IdleCall, Idle, QuietStep, Working, RegisteredIsServed

\* The rest of a write, and every answer, is quiet.
LEMMA WriteIsQuiet ==
    ASSUME IInv, NEW c \in Clients,
           \/ WriteCheck(c) \/ WriteSend(c) \/ WriteFails(c) \/ WriteKeep(c) \/ WriteDeliver(c)
           \/ Answer(c)
    PROVE  QuietStep
<1>1. TypeOK /\ HasSession
  BY DEF IInv
<1> USE <1>1, Shapes DEF QuietStep, Working, HasSession
<1>2. CASE WriteCheck(c)
  BY <1>2 DEF WriteCheck, Finish, IdleCall
<1>3. CASE WriteSend(c)
  BY <1>3 DEF WriteSend
<1>4. CASE WriteFails(c)
  BY <1>4 DEF WriteFails, Finish, IdleCall
<1>5. CASE WriteKeep(c)
  BY <1>5 DEF WriteKeep
<1>6. CASE WriteDeliver(c)
  BY <1>6 DEF WriteDeliver, Finish, IdleCall
<1>7. CASE Answer(c)
  BY <1>7 DEF Answer, IdleCall
<1> QED
  BY <1>2, <1>3, <1>4, <1>5, <1>6, <1>7

\* A reader that goes on reading is quiet.
LEMMA ReadIsQuiet ==
    ASSUME IInv, NEW s \in Sids,
           \/ ReaderLoop(s) /\ MayRead(s)
           \/ ReaderLine(s) \/ ReaderBlank(s) \/ ReaderKeep(s) \/ ReaderDeliver(s)
    PROVE  QuietStep
<1>1. TypeOK
  BY DEF IInv
<1> USE <1>1, Shapes DEF QuietStep, Reading, At, GoTo
<1>2. CASE ReaderLoop(s) /\ MayRead(s)
  BY <1>2 DEF ReaderLoop
<1>3. CASE ReaderLine(s)
  BY <1>3 DEF ReaderLine
<1>4. CASE ReaderBlank(s)
  BY <1>4 DEF ReaderBlank
<1>5. CASE ReaderKeep(s)
  BY <1>5 DEF ReaderKeep
<1>6. CASE ReaderDeliver(s)
  BY <1>6 DEF ReaderDeliver
<1> QED
  BY <1>2, <1>3, <1>4, <1>5, <1>6
Bookkeeping == HasSession /\ PoppedIsFree /\ RegisteredIsServed /\ NoOrphanConnection

\* A new connection takes the place of a session that its reader gives up.
LEMMA ConnectKeeps ==
    ASSUME IInv, NEW c \in Clients, NEW p \in Ports, NEW config \in Config,
           Connect(c, p, config)
    PROVE  Bookkeeping'
<1>1. Bookkeeping /\ TypeOK
  BY DEF IInv, Bookkeeping
<1>2. PICK s \in Sids :
         /\ conn[s] = "none"
         /\ conn' = [conn EXCEPT ![s] = "open"]
         /\ session' = [session EXCEPT ![s] =
                [port |-> p, config |-> config, connected |-> TRUE, stop |-> FALSE]]
         /\ sessions' = [sessions EXCEPT ![p] = s]
         /\ reader' = [reader EXCEPT ![s].pc = "loop"]
  BY DEF Connect
<1>3. Idle(c) /\ ~Live(p) /\ Finish(c, "answered")
  BY DEF Connect
<1> USE <1>1, <1>2, <1>3, Shapes, BrokerAssumption DEF Bookkeeping, Idle, Finish, IdleCall
<1>4. HasSession'
  BY DEF HasSession, At
<1>5. PoppedIsFree'
  BY DEF PoppedIsFree, HasSession
<1>6. RegisteredIsServed'
  BY DEF RegisteredIsServed, At
<1>7. NoOrphanConnection'
  <2>1. sessions[p] # None => reader[sessions[p]].pc = "cleanup"
    BY DEF RegisteredIsServed, Live, At
  <2> QED
    BY <2>1 DEF NoOrphanConnection, Registered, HasSession
<1> QED
  BY <1>4, <1>5, <1>6, <1>7

\* The three steps of close() keep the invariant.
LEMMA CloseKeeps ==
    ASSUME IInv, NEW c \in Clients,
           (\E p \in Ports : ClosePop(c, p)) \/ CloseStop(c) \/ CloseConnection(c)
    PROVE  Bookkeeping'
<1>1. Bookkeeping /\ TypeOK
  BY DEF IInv, Bookkeeping
<1> USE <1>1, Shapes, BrokerAssumption DEF Bookkeeping, IdleCall
<1>2. ASSUME NEW p \in Ports, ClosePop(c, p)
      PROVE  Bookkeeping'
  <2> DEFINE t == sessions[p]
  <2>1. /\ sessions' = [sessions EXCEPT ![p] = None]
        /\ UNCHANGED <<session, conn, reader>>
        /\ call[c].pc = "idle"
        /\ \A d \in Clients \ {c} : call'[d] = call[d]
    BY <1>2 DEF ClosePop, Idle
  <2>2. t = None => call'[c].pc = "answered"
    BY <1>2 DEF ClosePop
  <2>3. t # None => call'[c].pc = "popped" /\ call'[c].sid = t
    BY <1>2 DEF ClosePop
  <2>4. t # None => t \in Sids /\ conn[t] = "open" /\ session[t].port = p
    BY DEF RegisteredIsServed
  <2> HIDE DEF t
  <2> USE <2>1, <2>2, <2>3, <2>4
  <2>5. HasSession'
    BY DEF HasSession, At
  <2>6. PoppedIsFree'
    <3>1. t # None => \A q \in Ports : q # p => sessions[q] # t
      BY DEF RegisteredIsServed
    <3> QED
      BY <3>1 DEF PoppedIsFree, HasSession
  <2>7. RegisteredIsServed'
    BY DEF RegisteredIsServed, At
  <2>8. NoOrphanConnection'
    BY DEF NoOrphanConnection, Registered, t
  <2> QED
    BY <2>5, <2>6, <2>7, <2>8
<1>3. CASE CloseStop(c)
  <2> USE <1>3 DEF CloseStop
  <2>1. HasSession'
    BY DEF HasSession, At
  <2>2. PoppedIsFree'
    BY DEF PoppedIsFree
  <2>3. RegisteredIsServed'
    BY DEF RegisteredIsServed, At, PoppedIsFree
  <2>4. NoOrphanConnection'
    BY DEF NoOrphanConnection, Registered
  <2> QED
    BY <2>1, <2>2, <2>3, <2>4
<1>4. CASE CloseConnection(c)
  <2> USE <1>4 DEF CloseConnection, Finish
  <2>1. HasSession'
    BY DEF HasSession, At
  <2>2. PoppedIsFree'
    BY DEF PoppedIsFree
  <2>3. RegisteredIsServed'
    BY DEF RegisteredIsServed, At, PoppedIsFree
  <2>4. NoOrphanConnection'
    BY DEF NoOrphanConnection, Registered
  <2> QED
    BY <2>1, <2>2, <2>3, <2>4
<1> QED
  BY <1>2, <1>3, <1>4

\* A reader that fails, leaves its loop or cleans up keeps the invariant.
LEMMA ReaderEndKeeps ==
    ASSUME IInv, NEW s \in Sids,
           \/ ReaderLoop(s) /\ ~MayRead(s)
           \/ ReaderFails(s) \/ ReaderUnregister(s) \/ ReaderClose(s)
    PROVE  Bookkeeping'
<1>1. Bookkeeping /\ TypeOK
  BY DEF IInv, Bookkeeping
<1> USE <1>1, Shapes, BrokerAssumption DEF Bookkeeping, At, GoTo
<1>2. CASE ReaderLoop(s) /\ ~MayRead(s)
  <2> USE <1>2 DEF ReaderLoop, MayRead
  <2>1. HasSession'
    BY DEF HasSession
  <2>2. PoppedIsFree'
    BY DEF PoppedIsFree
  <2>3. RegisteredIsServed'
    BY DEF RegisteredIsServed
  <2>4. NoOrphanConnection'
    BY DEF NoOrphanConnection, Registered
  <2> QED
    BY <2>1, <2>2, <2>3, <2>4
<1>3. CASE ReaderFails(s)
  <2> USE <1>3 DEF ReaderFails
  <2>1. HasSession'
    BY DEF HasSession
  <2>2. PoppedIsFree'
    BY DEF PoppedIsFree
  <2>3. RegisteredIsServed'
    BY DEF RegisteredIsServed
  <2>4. NoOrphanConnection'
    BY DEF NoOrphanConnection, Registered
  <2> QED
    BY <2>1, <2>2, <2>3, <2>4
<1>4. CASE ReaderUnregister(s)
  <2> USE <1>4 DEF ReaderUnregister, IsCurrent
  <2>1. HasSession'
    BY DEF HasSession
  <2>2. PoppedIsFree'
    BY DEF PoppedIsFree, HasSession
  <2>3. RegisteredIsServed'
    BY DEF RegisteredIsServed, HasSession
  <2>4. NoOrphanConnection'
    BY DEF NoOrphanConnection, Registered
  <2> QED
    BY <2>1, <2>2, <2>3, <2>4
<1>5. CASE ReaderClose(s)
  <2> USE <1>5 DEF ReaderClose
  <2>1. HasSession'
    BY DEF HasSession
  <2>2. PoppedIsFree'
    BY DEF PoppedIsFree
  <2>3. RegisteredIsServed'
    BY DEF RegisteredIsServed
  <2>4. NoOrphanConnection'
    BY DEF NoOrphanConnection, Registered
  <2> QED
    BY <2>1, <2>2, <2>3, <2>4
<1> QED
  BY <1>2, <1>3, <1>4, <1>5

(* The steps that matter to the registry, the sessions or the connections; *)
(* all the others are quiet.                                               *)
Eventful ==
    \/ \E c \in Clients, p \in Ports :
          \/ \E config \in Config : Connect(c, p, config)
          \/ ClosePop(c, p)
    \/ \E c \in Clients : CloseStop(c) \/ CloseConnection(c)
    \/ \E s \in Sids :
          \/ ReaderLoop(s) /\ ~MayRead(s)
          \/ ReaderFails(s) \/ ReaderUnregister(s) \/ ReaderClose(s)

\* Every step is quiet or one of those that the lemmas above treat.
LEMMA StepKinds ==
    ASSUME IInv, [Next]_vars
    PROVE  QuietStep \/ Eventful
<1>1. ASSUME NEW c \in Clients, NEW p \in Ports, NEW config \in Config, Open(c, p, config)
      PROVE  QuietStep \/ Eventful
  BY <1>1, RequestIsQuiet DEF Open, Eventful
<1>2. ASSUME NEW c \in Clients, Request(c)
      PROVE  QuietStep \/ Eventful
  <2>1. \A b \in Bauds : ByBaud(b) \in Config
    BY BrokerAssumption DEF ByBaud, Config
  <2>2. CASE SerialOpen(c)
    BY <1>1, <2>2 DEF SerialOpen
  <2>3. CASE SerialTail(c)
    BY <1>1, <2>1, <2>3 DEF SerialTail, TailOpen
  <2>4. CASE \E p \in Ports : ClosePop(c, p) \/ WriteLookup(c, p)
    BY <2>4, LookupIsQuiet DEF Eventful
  <2> QED
    BY <1>2, <2>2, <2>3, <2>4 DEF Request
<1>3. ASSUME NEW c \in Clients, Continue(c)
      PROVE  QuietStep \/ Eventful
  BY <1>3, WriteIsQuiet DEF Continue, Proceed, Eventful
<1>4. ASSUME NEW s \in Sids, Read(s)
      PROVE  QuietStep \/ Eventful
  BY <1>4, ReadIsQuiet DEF Read, Eventful
<1>5. CASE UNCHANGED vars
  BY <1>5 DEF QuietStep, vars
<1> QED
  BY <1>2, <1>3, <1>4, <1>5 DEF Next

\* The invariant is inductive.
LEMMA InvStep == IInv /\ [Next]_vars => IInv'
<1> SUFFICES ASSUME IInv, [Next]_vars
             PROVE  IInv'
  OBVIOUS
<1>1. TypeOK'
  BY TypeStep DEF IInv
<1>2. CASE QuietStep
  BY <1>1, <1>2, QuietStepKeeps DEF IInv
<1>3. CASE Eventful
  <2>1. Bookkeeping'
    BY <1>3, ConnectKeeps, CloseKeeps, ReaderEndKeeps DEF Eventful
  <2> QED
    BY <1>1, <2>1 DEF IInv, Bookkeeping
<1> QED
  BY <1>2, <1>3, StepKinds

-----------------------------------------------------------------------------
(* Theorems                                                                *)

(* Every behaviour of the broker keeps its variables in their types and    *)
(* the bookkeeping of sessions, connections and threads consistent.        *)
THEOREM BrokerInvariant == Spec => []IInv
BY InvInit, InvStep, PTL DEF Spec

\* The type invariant.
THEOREM BrokerTypeOK == Spec => []TypeOK
<1>1. IInv => TypeOK
  BY DEF IInv
<1> QED
  BY <1>1, BrokerInvariant, PTL

(* _sessions never points at a session whose connection is closed, whose   *)
(* reader is gone or that a close() has told to stop.                      *)
THEOREM BrokerRegisteredIsServed == Spec => []RegisteredIsServed
<1>1. IInv => RegisteredIsServed
  BY DEF IInv
<1> QED
  BY <1>1, BrokerInvariant, PTL

(* No open connection is ever forgotten by the registry, its reader and    *)
(* every close() at once.                                                  *)
THEOREM BrokerNoOrphanConnection == Spec => []NoOrphanConnection
<1>1. IInv => NoOrphanConnection
  BY DEF IInv
<1> QED
  BY <1>1, BrokerInvariant, PTL

-----------------------------------------------------------------------------
(* A live session leaves its port by a close only.                         *)

\* No step but the pop of close() takes a live session out of the registry.
LEMMA LeavesByCloseStep ==
    ASSUME IInv, [Next]_vars, NEW p \in Ports, Live(p), sessions'[p] # sessions[p]
    PROVE  \E c \in Clients :
              Idle(c) /\ call'[c].pc = "popped" /\ call'[c].sid = sessions[p]
<1>1. TypeOK /\ RegisteredIsServed
  BY DEF IInv
<1>2. Eventful
  BY StepKinds DEF QuietStep
<1>3. ASSUME NEW c \in Clients, NEW q \in Ports, ClosePop(c, q)
      PROVE  Idle(c) /\ call'[c].pc = "popped" /\ call'[c].sid = sessions[p]
  <2>1. q = p
    BY <1>1, <1>3, Shapes DEF ClosePop
  <2>2. sessions[p] # None
    BY DEF Live
  <2>3. call'[c] = [IdleCall EXCEPT !.pc = "popped", !.sid = sessions[p]]
    BY <1>1, <1>3, <2>1, <2>2, Shapes DEF ClosePop
  <2> QED
    BY <1>3, <2>3 DEF ClosePop, IdleCall
<1>4. ASSUME NEW c \in Clients, NEW q \in Ports, NEW config \in Config, Connect(c, q, config)
      PROVE  FALSE
  BY <1>1, <1>4, Shapes DEF Connect
<1>5. ASSUME NEW s \in Sids, ReaderUnregister(s)
      PROVE  FALSE
  BY <1>1, <1>5, Shapes DEF ReaderUnregister, IsCurrent, Live, RegisteredIsServed, At
<1>6. ~UNCHANGED sessions
  OBVIOUS
<1> QED
  BY <1>2, <1>3, <1>4, <1>5, <1>6
     DEF Eventful, CloseStop, CloseConnection, ReaderLoop, ReaderFails, ReaderClose

(* No late cleanup, no failed open and no other request takes a live       *)
(* session out of the registry: only the close() that pops it does.        *)
THEOREM BrokerLiveSessionLeavesByClose == Spec => LiveSessionLeavesByClose
<1>1. IInv /\ [Next]_vars =>
        [\A p \in Ports : Live(p) /\ sessions'[p] # sessions[p] =>
            \E c \in Clients : /\ Idle(c)
                               /\ call'[c].pc = "popped"
                               /\ call'[c].sid = sessions[p]]_vars
  BY LeavesByCloseStep
<1> QED
  BY <1>1, BrokerInvariant, PTL DEF Spec, LiveSessionLeavesByClose

-----------------------------------------------------------------------------
(* The broker implements the abstract lease.                               *)

\* At the start every port is free.
LEMMA LeaseInit == Init => Lease!Init
BY DEF Init, Lease!Init, lease, Live

\* A step that changes no registration and neither flag nor configuration of a session.
LEMMA LeaseUnchanged ==
    ASSUME IInv, UNCHANGED sessions,
           \A s \in Sids : session'[s].connected = session[s].connected
                           /\ session'[s].config = session[s].config
    PROVE  UNCHANGED lease
<1>1. \A p \in Ports : sessions[p] # None => sessions[p] \in Sids
  BY Shapes DEF IInv
<1> QED
  BY <1>1 DEF lease, Live

\* Every step of the broker grants a lease, releases one or leaves them alone.
LEMMA LeaseStep ==
    ASSUME IInv, [Next]_vars
    PROVE  [Lease!Next]_lease
<1>1. TypeOK /\ RegisteredIsServed /\ HasSession
  BY DEF IInv
<1>2. CASE QuietStep
  BY <1>2, LeaseUnchanged DEF QuietStep
<1>3. ASSUME NEW c \in Clients, NEW p \in Ports, NEW config \in Config, Connect(c, p, config)
      PROVE  Lease!Grant(p, config)
  <2>1. PICK s \in Sids :
           /\ conn[s] = "none"
           /\ session' = [session EXCEPT ![s] =
                  [port |-> p, config |-> config, connected |-> TRUE, stop |-> FALSE]]
           /\ sessions' = [sessions EXCEPT ![p] = s]
    BY <1>3 DEF Connect
  <2>2. lease[p] = None
    BY <1>3 DEF Connect, lease
  <2>3. lease'[p] = config
    BY <1>1, <2>1, Shapes, BrokerAssumption DEF lease, Live
  <2>4. ASSUME NEW q \in Ports, q # p
        PROVE  lease'[q] = lease[q]
    <3>1. sessions'[q] = sessions[q] /\ sessions[q] # s
      BY <1>1, <2>1, <2>4, Shapes, BrokerAssumption DEF RegisteredIsServed
    <3>2. sessions[q] # None => session'[sessions[q]] = session[sessions[q]]
      BY <1>1, <2>1, <3>1, Shapes
    <3> QED
      BY <3>1, <3>2 DEF lease, Live
  <2>5. lease' = [lease EXCEPT ![p] = config]
    BY <2>3, <2>4 DEF lease
  <2> QED
    BY <2>2, <2>5 DEF Lease!Grant
<1>4. ASSUME NEW p \in Ports, lease[p] # None,
             \A q \in Ports : lease'[q] = IF q = p THEN None ELSE lease[q]
      PROVE  Lease!Release(p)
  <2>1. lease' = [lease EXCEPT ![p] = None]
    BY <1>4 DEF lease
  <2> QED
    BY <1>4, <2>1 DEF Lease!Release
<1>5. ASSUME NEW c \in Clients, NEW p \in Ports, ClosePop(c, p)
      PROVE  [Lease!Next]_lease
  <2>1. sessions' = [sessions EXCEPT ![p] = None] /\ session' = session
    BY <1>5 DEF ClosePop
  <2>2. \A q \in Ports : lease'[q] = IF q = p THEN None ELSE lease[q]
    BY <1>1, <2>1, Shapes DEF lease, Live
  <2>3. CASE lease[p] = None
    <3>1. lease' = lease
      BY <2>2, <2>3 DEF lease
    <3> QED
      BY <3>1
  <2>4. CASE lease[p] # None
    BY <1>4, <2>2, <2>4 DEF Lease!Next
  <2> QED
    BY <2>3, <2>4
<1>6. ASSUME NEW s \in Sids, ReaderFails(s)
      PROVE  [Lease!Next]_lease
  <2>1. sessions' = sessions /\ session' = [session EXCEPT ![s].connected = FALSE]
    BY <1>6 DEF ReaderFails
  <2>2. /\ session'[s].connected = FALSE /\ session'[s].config = session[s].config
        /\ \A t \in Sids \ {s} : session'[t] = session[t]
    BY <1>1, <2>1, Shapes
  <2>3. CASE Registered(s)
    <3>1. PICK p \in Ports : sessions[p] = s
      BY <2>3 DEF Registered
    <3>2. \A q \in Ports : q # p => sessions[q] # s
      BY <1>1, <3>1, BrokerAssumption DEF RegisteredIsServed
    <3>3. lease[p] # None
      <4>1. session[s].connected /\ conn[s] = "open"
        BY <1>1, <1>6, <3>1, BrokerAssumption DEF RegisteredIsServed, ReaderFails, At
      <4>2. session[s].config # None
        BY <1>1, <4>1, BrokerAssumption DEF HasSession, Config
      <4> QED
        BY <3>1, <4>1, <4>2, BrokerAssumption DEF lease, Live
    <3>4. \A q \in Ports : lease'[q] = IF q = p THEN None ELSE lease[q]
      BY <1>1, <2>1, <2>2, <3>1, <3>2, Shapes, BrokerAssumption DEF lease, Live
    <3> QED
      BY <1>4, <3>3, <3>4 DEF Lease!Next
  <2>4. CASE ~Registered(s)
    <3>1. \A q \in Ports : sessions[q] # s
      BY <2>4 DEF Registered
    <3>2. \A q \in Ports : lease'[q] = lease[q]
      BY <1>1, <2>1, <2>2, <3>1, Shapes DEF lease, Live
    <3>3. lease' = lease
      BY <3>2 DEF lease
    <3> QED
      BY <3>3
  <2> QED
    BY <2>3, <2>4
<1>7. ASSUME NEW s \in Sids, ReaderUnregister(s)
      PROVE  UNCHANGED lease
  <2>1. session' = session /\ UNCHANGED conn /\ At(s, "cleanup")
    BY <1>7 DEF ReaderUnregister
  <2>2. CASE IsCurrent(s)
    <3> DEFINE p == session[s].port
    <3>1. sessions' = [sessions EXCEPT ![p] = None] /\ sessions[p] = s
      BY <1>7, <2>2 DEF ReaderUnregister, IsCurrent
    <3>2. p \in Ports => ~session[s].connected
      BY <1>1, <2>1, <3>1, BrokerAssumption DEF RegisteredIsServed
    <3>3. \A q \in Ports : lease'[q] = lease[q]
      BY <1>1, <2>1, <3>1, <3>2, Shapes DEF lease, Live
    <3> QED
      BY <3>3 DEF lease
  <2>3. CASE ~IsCurrent(s)
    BY <1>7, <2>1, <2>3, LeaseUnchanged DEF ReaderUnregister
  <2> QED
    BY <2>2, <2>3
<1>8. ASSUME NEW s \in Sids, ReaderClose(s) \/ ReaderLoop(s)
      PROVE  UNCHANGED lease
  BY <1>8, LeaseUnchanged DEF ReaderClose, ReaderLoop
<1>9. ASSUME NEW c \in Clients, CloseConnection(c) \/ CloseStop(c)
      PROVE  UNCHANGED lease
  BY <1>1, <1>9, LeaseUnchanged, Shapes DEF CloseConnection, CloseStop
<1> QED
  BY <1>2, <1>3, <1>5, <1>6, <1>7, <1>8, <1>9, StepKinds DEF Eventful, Lease!Next

(* However opens, closes, device failures and late cleanups interleave,    *)
(* the configuration of a port in use never changes under its users.       *)
THEOREM BrokerImplementsLease == Spec => LeaseSpec
<1>1. IInv /\ [Next]_vars => [Lease!Next]_lease
  BY LeaseStep
<1> QED
  BY <1>1, LeaseInit, BrokerInvariant, PTL DEF Spec, LeaseSpec, Lease!Spec

-----------------------------------------------------------------------------
(* Every line and every write is recorded exactly once.                    *)

HoldsLine(s) == reader[s].pc \in {"line", "kept"}
HoldsWrite(c) == call[c].pc \in {"sent", "kept"}
WritePort(c) == session[call[c].sid].port

(* A reader between its read and its delivery holds a line that was taken  *)
(* off its port, that no other reader of the port holds and that was not   *)
(* delivered; any other reader holds none.                                 *)
HeldLines ==
    \A s \in Sids :
        /\ HoldsLine(s) <=> reader[s].line # 0
        /\ HoldsLine(s) =>
              /\ reader[s].line <= taken[session[s].port]
              /\ \A t \in Sids : t # s /\ session[t].port = session[s].port =>
                    reader[t].line # reader[s].line
              /\ \A i \in DOMAIN delivered[session[s].port] :
                    delivered[session[s].port][i] # Rx(reader[s].line)

\* The same of a worker thread between its write and the delivery of its record.
HeldWrites ==
    \A c \in Clients : HoldsWrite(c) =>
        /\ call[c].n \in 1..sent[WritePort(c)]
        /\ \A d \in Clients : d # c /\ HoldsWrite(d) /\ WritePort(d) = WritePort(c) =>
              call[d].n # call[c].n
        /\ \A i \in DOMAIN delivered[WritePort(c)] : delivered[WritePort(c)][i] # Tx(call[c].n)

\* What was delivered was read off the port or written to it, and is delivered once.
DeliveredOnce ==
    \A p \in Ports : \A i \in DOMAIN delivered[p] :
        /\ \/ delivered[p][i].dir = "RX" /\ delivered[p][i].n \in 1..taken[p]
           \/ delivered[p][i].dir = "TX" /\ delivered[p][i].n \in 1..sent[p]
        /\ \A j \in DOMAIN delivered[p] : delivered[p][j] = delivered[p][i] => j = i

\* Every line and every write is in some thread's hands or was delivered.
NothingLost ==
    \A p \in Ports :
        /\ \A n \in 1..taken[p] :
              \/ \E s \in Sids : HoldsLine(s) /\ session[s].port = p /\ reader[s].line = n
              \/ \E i \in DOMAIN delivered[p] : delivered[p][i] = Rx(n)
        /\ \A n \in 1..sent[p] :
              \/ \E c \in Clients : HoldsWrite(c) /\ WritePort(c) = p /\ call[c].n = n
              \/ \E i \in DOMAIN delivered[p] : delivered[p][i] = Tx(n)

Placed == HeldLines /\ HeldWrites /\ DeliveredOnce /\ NothingLost

\* A step that takes, puts and delivers nothing, and lets everyone keep what it holds.
Undisturbed ==
    /\ UNCHANGED <<delivered, taken, sent>>
    /\ \A s \in Sids : /\ conn[s] # "none" => session'[s].port = session[s].port
                       /\ reader'[s].line = reader[s].line
                       /\ HoldsLine(s)' <=> HoldsLine(s)
    /\ \A c \in Clients : /\ HoldsWrite(c)' <=> HoldsWrite(c)
                          /\ HoldsWrite(c) => call'[c].n = call[c].n /\ call'[c].sid = call[c].sid

\* The facts about sessions that the steps below rely on.
LEMMA HoldersHaveSessions ==
    ASSUME TypeOK, HasSession
    PROVE  /\ \A s \in Sids : HoldsLine(s) => conn[s] # "none" /\ session[s].port \in Ports
           /\ \A c \in Clients : HoldsWrite(c) =>
                 /\ call[c].sid \in Sids /\ conn[call[c].sid] # "none" /\ WritePort(c) \in Ports
           /\ \A s \in Sids : conn[s] = "none" => ~HoldsLine(s)
           /\ taken \in [Ports -> Nat] /\ sent \in [Ports -> Nat]
           /\ \A s \in Sids : reader[s].line \in Nat
BY DEF TypeOK, HasSession, At, HoldsLine, HoldsWrite, WritePort

\* Such a step changes nothing about where a record is.
LEMMA UndisturbedKeeps ==
    ASSUME TypeOK, HasSession, Placed, Undisturbed
    PROVE  Placed'
<1>1. \A c \in Clients : HoldsWrite(c) => WritePort(c)' = WritePort(c)
  BY HoldersHaveSessions DEF Undisturbed, WritePort
<1>2. HeldLines'
  BY HoldersHaveSessions DEF Placed, HeldLines, Undisturbed
<1>3. HeldWrites'
  BY <1>1 DEF Placed, HeldWrites, Undisturbed
<1>4. DeliveredOnce'
  BY DEF Placed, DeliveredOnce, Undisturbed
<1>5. NothingLost'
  <2> SUFFICES ASSUME NEW p \in Ports
               PROVE  /\ \A n \in 1..taken[p] :
                            \/ \E s \in Sids : /\ HoldsLine(s)' /\ session'[s].port = p
                                               /\ reader'[s].line = n
                            \/ \E i \in DOMAIN delivered[p] : delivered[p][i] = Rx(n)
                      /\ \A n \in 1..sent[p] :
                            \/ \E c \in Clients : /\ HoldsWrite(c)' /\ WritePort(c)' = p
                                                  /\ call'[c].n = n
                            \/ \E i \in DOMAIN delivered[p] : delivered[p][i] = Tx(n)
    BY DEF NothingLost, Undisturbed, Rx, Tx
  <2>1. /\ \A n \in 1..taken[p] :
              \/ \E s \in Sids : HoldsLine(s) /\ session[s].port = p /\ reader[s].line = n
              \/ \E i \in DOMAIN delivered[p] : delivered[p][i] = Rx(n)
        /\ \A n \in 1..sent[p] :
              \/ \E c \in Clients : HoldsWrite(c) /\ WritePort(c) = p /\ call[c].n = n
              \/ \E i \in DOMAIN delivered[p] : delivered[p][i] = Tx(n)
    BY DEF Placed, NothingLost
  <2>2. \A s \in Sids : HoldsLine(s) =>
           HoldsLine(s)' /\ session'[s].port = session[s].port /\ reader'[s].line = reader[s].line
    BY HoldersHaveSessions DEF Undisturbed
  <2>3. \A c \in Clients : HoldsWrite(c) =>
           HoldsWrite(c)' /\ WritePort(c)' = WritePort(c) /\ call'[c].n = call[c].n
    BY <1>1 DEF Undisturbed
  <2> QED
    BY <2>1, <2>2, <2>3
<1> QED
  BY <1>2, <1>3, <1>4, <1>5 DEF Placed

\* Requests, and the steps of close() and of write() around the write itself.
LEMMA ClientUndisturbed ==
    ASSUME TypeOK, HasSession, NEW c \in Clients,
           \/ \E p \in Ports, config \in Config : Open(c, p, config)
           \/ \E p \in Ports : ClosePop(c, p) \/ WriteLookup(c, p)
           \/ CloseStop(c) \/ CloseConnection(c) \/ WriteCheck(c) \/ WriteFails(c)
           \/ WriteKeep(c) \/ Answer(c)
    PROVE  Undisturbed
<1> USE Shapes DEF Undisturbed, HoldsLine, HoldsWrite, IdleCall, Idle, Finish
<1>1. ASSUME NEW p \in Ports, NEW config \in Config, Open(c, p, config)
      PROVE  Undisturbed
  <2>1. CASE Connect(c, p, config)
    <3>1. PICK s \in Sids :
             /\ conn[s] = "none"
             /\ session' = [session EXCEPT ![s] =
                    [port |-> p, config |-> config, connected |-> TRUE, stop |-> FALSE]]
             /\ reader' = [reader EXCEPT ![s].pc = "loop"]
      BY <2>1 DEF Connect
    <3>2. reader[s].pc = "unborn"
      BY <3>1 DEF HasSession, At
    <3> QED
      BY <2>1, <3>1, <3>2 DEF Connect
  <2>2. CASE Reuse(c, p, config) \/ Refuse(c, p, config) \/ ConnectFails(c, p)
    BY <2>2 DEF Reuse, Refuse, ConnectFails
  <2> QED
    BY <1>1, <2>1, <2>2 DEF Open
<1>2. ASSUME NEW p \in Ports, ClosePop(c, p) \/ WriteLookup(c, p)
      PROVE  Undisturbed
  <2>1. /\ call[c].pc = "idle" /\ call'[c].pc \in {"answered", "popped", "found"}
        /\ \A d \in Clients \ {c} : call'[d] = call[d]
    <3>1. CASE ClosePop(c, p) /\ sessions[p] = None
      BY <3>1 DEF ClosePop
    <3>2. CASE ClosePop(c, p) /\ sessions[p] # None
      BY <3>2 DEF ClosePop
    <3>3. CASE WriteLookup(c, p) /\ sessions[p] = None
      BY <3>3 DEF WriteLookup
    <3>4. CASE WriteLookup(c, p) /\ sessions[p] # None
      BY <3>4 DEF WriteLookup
    <3> QED
      BY <1>2, <3>1, <3>2, <3>3, <3>4
  <2>2. UNCHANGED <<delivered, taken, sent, session, reader>>
    BY <1>2 DEF ClosePop, WriteLookup
  <2> QED
    BY <2>1, <2>2
<1>3. CASE CloseStop(c)
  BY <1>3 DEF CloseStop
<1>4. CASE CloseConnection(c)
  BY <1>4 DEF CloseConnection
<1>5. CASE WriteCheck(c)
  BY <1>5 DEF WriteCheck
<1>6. CASE WriteFails(c)
  BY <1>6 DEF WriteFails
<1>7. CASE WriteKeep(c)
  BY <1>7 DEF WriteKeep
<1>8. CASE Answer(c)
  BY <1>8 DEF Answer
<1> QED
  BY <1>1, <1>2, <1>3, <1>4, <1>5, <1>6, <1>7, <1>8

\* The steps of a reader but its read of a line and its delivery.
LEMMA ReaderUndisturbed ==
    ASSUME TypeOK, HasSession, NEW s \in Sids,
           \/ ReaderLoop(s) \/ ReaderBlank(s) \/ ReaderFails(s) \/ ReaderKeep(s)
           \/ ReaderUnregister(s) \/ ReaderClose(s)
    PROVE  Undisturbed
<1> USE Shapes DEF Undisturbed, HoldsLine, HoldsWrite, At, GoTo
<1>1. CASE ReaderLoop(s)
  BY <1>1 DEF ReaderLoop
<1>2. CASE ReaderBlank(s)
  BY <1>2 DEF ReaderBlank
<1>3. CASE ReaderFails(s)
  BY <1>3 DEF ReaderFails
<1>4. CASE ReaderKeep(s)
  BY <1>4 DEF ReaderKeep
<1>5. CASE ReaderUnregister(s)
  BY <1>5 DEF ReaderUnregister
<1>6. CASE ReaderClose(s)
  BY <1>6 DEF ReaderClose
<1> QED
  BY <1>1, <1>2, <1>3, <1>4, <1>5, <1>6

\* Appending a record delivers it once more and leaves the earlier deliveries.
LEMMA DeliverEffect ==
    ASSUME TypeOK, NEW p \in Ports, NEW record \in Record, Deliver(p, record)
    PROVE  /\ \A q \in Ports : q # p => delivered'[q] = delivered[q]
           /\ Len(delivered[p]) \in Nat
           /\ DOMAIN delivered[p] = 1..Len(delivered[p])
           /\ DOMAIN delivered'[p] = 1..(Len(delivered[p]) + 1)
           /\ \A i \in DOMAIN delivered[p] : delivered'[p][i] = delivered[p][i]
           /\ delivered'[p][Len(delivered[p]) + 1] = record
<1>1. delivered[p] \in Seq(Record) /\ DOMAIN delivered = Ports
  BY DEF TypeOK
<1>2. delivered' = [delivered EXCEPT ![p] = Append(delivered[p], record)]
  BY DEF Deliver
<1>3. delivered'[p] = Append(delivered[p], record)
  BY <1>1, <1>2
<1>4. /\ Append(delivered[p], record) \in Seq(Record)
      /\ Len(Append(delivered[p], record)) = Len(delivered[p]) + 1
      /\ \A i \in 1..Len(delivered[p]) : Append(delivered[p], record)[i] = delivered[p][i]
      /\ Append(delivered[p], record)[Len(delivered[p]) + 1] = record
  BY <1>1, AppendProperties
<1>5. /\ Len(delivered[p]) \in Nat /\ DOMAIN delivered[p] = 1..Len(delivered[p])
      /\ DOMAIN Append(delivered[p], record) = 1..Len(Append(delivered[p], record))
  BY <1>1, <1>4, LenProperties
<1>6. \A q \in Ports : q # p => delivered'[q] = delivered[q]
  BY <1>1, <1>2
<1> QED
  BY <1>3, <1>4, <1>5, <1>6

\* A reader that reads a line holds the next line of its port.
LEMMA LinePlaced ==
    ASSUME TypeOK, HasSession, Placed, NEW s \in Sids, ReaderLine(s)
    PROVE  Placed'
<1> DEFINE p == session[s].port
           n == taken[p] + 1
<1>1. p \in Ports /\ taken[p] \in Nat
  BY DEF ReaderLine, HasSession, At, TypeOK
<1>2. /\ reader[s].pc = "read" /\ ~HoldsLine(s)
      /\ reader'[s].pc = "line" /\ reader'[s].line = n /\ HoldsLine(s)'
      /\ \A t \in Sids \ {s} : reader'[t] = reader[t]
  BY Shapes DEF ReaderLine, At, HoldsLine
<1>3. taken'[p] = n /\ \A q \in Ports : q # p => taken'[q] = taken[q]
  BY <1>1, HoldersHaveSessions DEF ReaderLine
<1>4. UNCHANGED <<session, call, sent, delivered>>
  BY DEF ReaderLine
<1>5. n \in Nat /\ n # 0 /\ n > taken[p] /\ n = taken[p] + 1
  BY <1>1
<1>6. \A i \in DOMAIN delivered[p] : delivered[p][i] # Rx(n)
  <2>1. \A i \in DOMAIN delivered[p] : delivered[p][i].dir = "RX" => delivered[p][i].n \in 1..taken[p]
    BY <1>1 DEF Placed, DeliveredOnce
  <2> QED
    BY <1>1, <2>1 DEF Rx
<1> HIDE DEF p, n
<1>7. HeldLines'
  <2>1. ASSUME NEW t \in Sids, t # s
        PROVE  /\ HoldsLine(t)' <=> reader'[t].line # 0
               /\ HoldsLine(t)' => /\ HoldsLine(t)
                                   /\ reader'[t].line <= taken'[session[t].port]
                                   /\ session[t].port = p => reader[t].line <= taken[p]
    BY <1>1, <1>2, <1>3, <1>5, <2>1, HoldersHaveSessions DEF Placed, HeldLines, HoldsLine
  <2>2. \A t \in Sids : session[t].port = p /\ t # s => reader[t].line # n
    BY <1>1, <1>5, HoldersHaveSessions DEF Placed, HeldLines
  <2>3. ASSUME NEW t \in Sids, HoldsLine(t)'
        PROVE  /\ \A u \in Sids : u # t /\ session[u].port = session[t].port =>
                     reader'[u].line # reader'[t].line
               /\ \A i \in DOMAIN delivered[session[t].port] :
                     delivered[session[t].port][i] # Rx(reader'[t].line)
    BY <1>2, <1>6, <2>1, <2>2, <2>3 DEF Placed, HeldLines, p
  <2>4. HoldsLine(s)' <=> reader'[s].line # 0
    BY <1>2, <1>5
  <2>5. reader'[s].line <= taken'[session[s].port]
    BY <1>2, <1>3, <1>5 DEF p
  <2> QED
    BY <1>4, <2>1, <2>3, <2>4, <2>5 DEF HeldLines, Rx
<1>8. HeldWrites'
  BY <1>4 DEF Placed, HeldWrites, HoldsWrite, WritePort, Tx
<1>9. DeliveredOnce'
  BY <1>1, <1>3, <1>4, <1>5, HoldersHaveSessions DEF Placed, DeliveredOnce
<1>10. NothingLost'
  <2>1. ASSUME NEW q \in Ports, NEW m \in 1..taken'[q]
        PROVE  \/ \E t \in Sids : HoldsLine(t)' /\ session[t].port = q /\ reader'[t].line = m
               \/ \E i \in DOMAIN delivered[q] : delivered[q][i] = Rx(m)
    <3>1. CASE q = p /\ m = n
      BY <1>2, <3>1 DEF p
    <3>2. CASE ~(q = p /\ m = n)
      <4>1. m \in 1..taken[q]
        BY <1>1, <1>3, <1>5, <3>2
      <4>2. \A t \in Sids : HoldsLine(t) => HoldsLine(t)' /\ reader'[t].line = reader[t].line
        BY <1>2 DEF HoldsLine
      <4> QED
        BY <4>1, <4>2 DEF Placed, NothingLost
    <3> QED
      BY <3>1, <3>2
  <2>2. \A q \in Ports : \A m \in 1..sent[q] :
           \/ \E c \in Clients : HoldsWrite(c) /\ WritePort(c) = q /\ call[c].n = m
           \/ \E i \in DOMAIN delivered[q] : delivered[q][i] = Tx(m)
    BY DEF Placed, NothingLost
  <2> QED
    BY <1>4, <2>1, <2>2 DEF NothingLost, HoldsWrite, WritePort, Rx, Tx
<1> QED
  BY <1>7, <1>8, <1>9, <1>10 DEF Placed

\* A reader that delivers its line lets go of it.
LEMMA LineDelivered ==
    ASSUME TypeOK, HasSession, Placed, NEW s \in Sids, ReaderDeliver(s)
    PROVE  Placed'
<1> DEFINE p == session[s].port
           n == reader[s].line
           last == Len(delivered[p]) + 1
<1>1. HoldsLine(s) /\ p \in Ports /\ n \in Nat
  BY HoldersHaveSessions DEF ReaderDeliver, At, HoldsLine
<1>2. Deliver(p, Rx(n))
  BY DEF ReaderDeliver
<1>3. /\ reader'[s].line = 0 /\ ~HoldsLine(s)'
      /\ \A t \in Sids \ {s} : reader'[t] = reader[t]
  BY Shapes DEF ReaderDeliver, HoldsLine
<1>4. UNCHANGED <<session, call, sent, taken>>
  BY DEF ReaderDeliver
<1>5. n \in 1..taken[p]
  BY <1>1, HoldersHaveSessions DEF Placed, HeldLines
<1>6. /\ \A q \in Ports : q # p => delivered'[q] = delivered[q]
      /\ last \in Nat
      /\ DOMAIN delivered'[p] = DOMAIN delivered[p] \cup {last}
      /\ \A i \in DOMAIN delivered[p] : i # last /\ delivered'[p][i] = delivered[p][i]
      /\ delivered'[p][last] = Rx(n)
  <2>1. /\ Len(delivered[p]) \in Nat
        /\ DOMAIN delivered[p] = 1..Len(delivered[p])
        /\ DOMAIN delivered'[p] = 1..(Len(delivered[p]) + 1)
        /\ \A q \in Ports : q # p => delivered'[q] = delivered[q]
        /\ \A i \in DOMAIN delivered[p] : delivered'[p][i] = delivered[p][i]
        /\ delivered'[p][last] = Rx(n)
    BY <1>1, <1>2, RxTxType, DeliverEffect
  <2> QED
    BY <2>1
<1>7. \A i \in DOMAIN delivered[p] : delivered[p][i] # Rx(n)
  BY <1>1 DEF Placed, HeldLines
<1>8. \A t \in Sids : t # s /\ session[t].port = p => reader[t].line # n
  BY <1>1 DEF Placed, HeldLines
<1>9. \A m : Rx(m).n = m /\ Rx(m).dir = "RX" /\ Tx(m).dir = "TX" /\ Tx(m).n = m
  BY DEF Rx, Tx
<1> HIDE DEF p, n, last
<1>10. HeldLines'
  <2>1. ASSUME NEW t \in Sids, HoldsLine(t)'
        PROVE  t # s /\ HoldsLine(t) /\ reader'[t] = reader[t]
    BY <1>3, <2>1 DEF HoldsLine
  <2>2. ASSUME NEW t \in Sids, HoldsLine(t)', NEW i \in DOMAIN delivered'[session[t].port]
        PROVE  delivered'[session[t].port][i] # Rx(reader'[t].line)
    <3>1. CASE session[t].port = p /\ i = last
      <4>1. reader[t].line # n
        BY <1>8, <2>1, <2>2, <3>1
      <4> QED
        BY <1>6, <1>9, <2>1, <2>2, <3>1, <4>1
    <3>2. CASE ~(session[t].port = p /\ i = last)
      <4>1. session[t].port \in Ports
        BY <2>1, <2>2, HoldersHaveSessions
      <4>2. i \in DOMAIN delivered[session[t].port]
            /\ delivered'[session[t].port][i] = delivered[session[t].port][i]
        BY <1>6, <2>2, <3>2, <4>1
      <4> QED
        BY <2>1, <2>2, <4>2 DEF Placed, HeldLines
    <3> QED
      BY <3>1, <3>2
  <2>3. ASSUME NEW t \in Sids
        PROVE  /\ HoldsLine(t)' <=> reader'[t].line # 0
               /\ HoldsLine(t)' =>
                     /\ reader'[t].line <= taken[session[t].port]
                     /\ \A u \in Sids : u # t /\ session[u].port = session[t].port =>
                           reader'[u].line # reader'[t].line
    <3>1. CASE t = s
      BY <1>3, <3>1
    <3>2. CASE t # s
      <4>1. HoldsLine(t)' <=> HoldsLine(t)
        BY <1>3, <3>2 DEF HoldsLine
      <4> QED
        BY <1>3, <3>2, <4>1 DEF Placed, HeldLines
    <3> QED
      BY <3>1, <3>2
  <2> QED
    BY <1>4, <2>2, <2>3 DEF HeldLines, Rx
<1>11. HeldWrites'
  <2>1. ASSUME NEW c \in Clients, HoldsWrite(c), NEW i \in DOMAIN delivered'[WritePort(c)]
        PROVE  delivered'[WritePort(c)][i] # Tx(call[c].n)
    <3>1. WritePort(c) \in Ports
      BY <2>1, HoldersHaveSessions
    <3>2. CASE WritePort(c) = p /\ i = last
      BY <1>6, <1>9, <3>2
    <3>3. CASE ~(WritePort(c) = p /\ i = last)
      <4>1. i \in DOMAIN delivered[WritePort(c)]
            /\ delivered'[WritePort(c)][i] = delivered[WritePort(c)][i]
        BY <1>6, <2>1, <3>1, <3>3
      <4> QED
        BY <2>1, <4>1 DEF Placed, HeldWrites
    <3> QED
      BY <3>2, <3>3
  <2> QED
    BY <1>4, <2>1 DEF Placed, HeldWrites, HoldsWrite, WritePort, Tx
<1>12. DeliveredOnce'
  <2> SUFFICES ASSUME NEW q \in Ports, NEW i \in DOMAIN delivered'[q]
               PROVE  /\ \/ /\ delivered'[q][i].dir = "RX"
                            /\ delivered'[q][i].n \in 1..taken[q]
                         \/ /\ delivered'[q][i].dir = "TX"
                            /\ delivered'[q][i].n \in 1..sent[q]
                      /\ \A j \in DOMAIN delivered'[q] :
                            delivered'[q][j] = delivered'[q][i] => j = i
    BY <1>4 DEF DeliveredOnce
  <2>1. /\ \A k \in DOMAIN delivered[q] :
              /\ \/ delivered[q][k].dir = "RX" /\ delivered[q][k].n \in 1..taken[q]
                 \/ delivered[q][k].dir = "TX" /\ delivered[q][k].n \in 1..sent[q]
              /\ \A j \in DOMAIN delivered[q] : delivered[q][j] = delivered[q][k] => j = k
    BY DEF Placed, DeliveredOnce
  <2>2. CASE q # p
    BY <1>6, <2>1, <2>2
  <2>3. CASE q = p
    BY <1>5, <1>6, <1>7, <1>9, <2>1, <2>3
  <2> QED
    BY <2>2, <2>3
<1>13. NothingLost'
  <2>1. \A q \in Ports : \A i \in DOMAIN delivered[q] :
           i \in DOMAIN delivered'[q] /\ delivered'[q][i] = delivered[q][i]
    BY <1>6
  <2>2. ASSUME NEW q \in Ports, NEW m \in 1..taken[q]
        PROVE  \/ \E t \in Sids : HoldsLine(t)' /\ session[t].port = q /\ reader'[t].line = m
               \/ \E i \in DOMAIN delivered'[q] : delivered'[q][i] = Rx(m)
    <3>1. CASE q = p /\ m = n
      BY <1>6, <3>1
    <3>2. ASSUME NEW t \in Sids, HoldsLine(t), session[t].port = q, reader[t].line = m,
                 ~(q = p /\ m = n)
          PROVE  HoldsLine(t)' /\ reader'[t].line = m
      <4>1. t # s
        BY <3>2 DEF p, n
      <4> QED
        BY <1>3, <3>2, <4>1 DEF HoldsLine
    <3>3. \/ \E t \in Sids : HoldsLine(t) /\ session[t].port = q /\ reader[t].line = m
          \/ \E i \in DOMAIN delivered[q] : delivered[q][i] = Rx(m)
      BY DEF Placed, NothingLost
    <3> QED
      BY <2>1, <3>1, <3>2, <3>3
  <2>3. \A q \in Ports : \A m \in 1..sent[q] :
           \/ \E c \in Clients : HoldsWrite(c) /\ WritePort(c) = q /\ call[c].n = m
           \/ \E i \in DOMAIN delivered'[q] : delivered'[q][i] = Tx(m)
    BY <2>1 DEF Placed, NothingLost
  <2> QED
    BY <1>4, <2>2, <2>3 DEF NothingLost, HoldsWrite, WritePort, Rx, Tx
<1> QED
  BY <1>10, <1>11, <1>12, <1>13 DEF Placed

\* A worker thread whose write went out holds the next write of its port.
LEMMA WritePlaced ==
    ASSUME TypeOK, HasSession, Placed, NEW c \in Clients, WriteSend(c)
    PROVE  Placed'
<1> DEFINE p == WritePort(c)
           n == sent[p] + 1
<1>1. p \in Ports /\ sent[p] \in Nat
  BY HoldersHaveSessions DEF WriteSend, HasSession, WritePort
<1>2. /\ ~HoldsWrite(c) /\ HoldsWrite(c)' /\ call'[c].n = n /\ call'[c].sid = call[c].sid
      /\ \A d \in Clients \ {c} : call'[d] = call[d]
  BY Shapes DEF WriteSend, HoldsWrite, WritePort
<1>3. sent'[p] = n /\ \A q \in Ports : q # p => sent'[q] = sent[q]
  BY <1>1, HoldersHaveSessions DEF WriteSend, WritePort
<1>4. UNCHANGED <<session, reader, taken, delivered>>
  BY DEF WriteSend
<1>5. n \in Nat /\ n # 0 /\ n = sent[p] + 1
  BY <1>1
<1>6. \A i \in DOMAIN delivered[p] : delivered[p][i] # Tx(n)
  <2>1. \A i \in DOMAIN delivered[p] : delivered[p][i].dir = "TX" => delivered[p][i].n \in 1..sent[p]
    BY <1>1 DEF Placed, DeliveredOnce
  <2> QED
    BY <1>1, <2>1 DEF Tx
<1>7. WritePort(c)' = p
  BY <1>2, <1>4 DEF WritePort
<1>8. \A d \in Clients \ {c} : /\ HoldsWrite(d)' <=> HoldsWrite(d)
                               /\ WritePort(d)' = WritePort(d) /\ call'[d].n = call[d].n
  BY <1>2, <1>4 DEF HoldsWrite, WritePort
<1> HIDE DEF p, n
<1>9. HeldLines'
  BY <1>4 DEF Placed, HeldLines, HoldsLine, Rx
<1>10. HeldWrites'
  <2>1. \A d \in Clients \ {c} : HoldsWrite(d) /\ WritePort(d) = p => call[d].n # n
    BY <1>1, <1>5 DEF Placed, HeldWrites
  <2>2. ASSUME NEW d \in Clients, HoldsWrite(d)'
        PROVE  /\ call'[d].n \in 1..sent'[WritePort(d)']
               /\ \A e \in Clients : e # d /\ HoldsWrite(e)' /\ WritePort(e)' = WritePort(d)' =>
                     call'[e].n # call'[d].n
               /\ \A i \in DOMAIN delivered[WritePort(d)'] :
                     delivered[WritePort(d)'][i] # Tx(call'[d].n)
    <3>1. CASE d = c
      BY <1>1, <1>2, <1>3, <1>5, <1>6, <1>7, <1>8, <2>1, <3>1
    <3>2. CASE d # c
      <4>1. HoldsWrite(d) /\ WritePort(d) \in Ports
        BY <1>8, <2>2, <3>2, HoldersHaveSessions
      <4>2. call[d].n \in 1..sent'[WritePort(d)]
        BY <1>1, <1>3, <1>5, <4>1, HoldersHaveSessions DEF Placed, HeldWrites
      <4>3. /\ \A e \in Clients : e # d /\ HoldsWrite(e) /\ WritePort(e) = WritePort(d) =>
                     call[e].n # call[d].n
            /\ \A i \in DOMAIN delivered[WritePort(d)] :
                  delivered[WritePort(d)][i] # Tx(call[d].n)
        BY <4>1 DEF Placed, HeldWrites
      <4> QED
        BY <1>2, <1>7, <1>8, <2>1, <3>2, <4>1, <4>2, <4>3
    <3> QED
      BY <3>1, <3>2
  <2> QED
    BY <1>4, <2>2 DEF HeldWrites, Tx
<1>11. DeliveredOnce'
  BY <1>1, <1>3, <1>4, <1>5, HoldersHaveSessions DEF Placed, DeliveredOnce
<1>12. NothingLost'
  <2>1. ASSUME NEW q \in Ports, NEW m \in 1..sent'[q]
        PROVE  \/ \E d \in Clients : HoldsWrite(d)' /\ WritePort(d)' = q /\ call'[d].n = m
               \/ \E i \in DOMAIN delivered[q] : delivered[q][i] = Tx(m)
    <3>1. CASE q = p /\ m = n
      BY <1>2, <1>7, <3>1
    <3>2. CASE ~(q = p /\ m = n)
      <4>1. m \in 1..sent[q]
        BY <1>1, <1>3, <1>5, <3>2
      <4>2. \A d \in Clients : HoldsWrite(d) =>
               HoldsWrite(d)' /\ WritePort(d)' = WritePort(d) /\ call'[d].n = call[d].n
        BY <1>2, <1>8
      <4> QED
        BY <4>1, <4>2 DEF Placed, NothingLost
    <3> QED
      BY <3>1, <3>2
  <2>2. \A q \in Ports : \A m \in 1..taken[q] :
           \/ \E s \in Sids : HoldsLine(s) /\ session[s].port = q /\ reader[s].line = m
           \/ \E i \in DOMAIN delivered[q] : delivered[q][i] = Rx(m)
    BY DEF Placed, NothingLost
  <2> QED
    BY <1>4, <2>1, <2>2 DEF NothingLost, HoldsLine, Rx, Tx
<1> QED
  BY <1>9, <1>10, <1>11, <1>12 DEF Placed

\* A worker thread that delivers the record of its write lets go of it.
LEMMA WriteDelivered ==
    ASSUME TypeOK, HasSession, Placed, NEW c \in Clients, WriteDeliver(c)
    PROVE  Placed'
<1> DEFINE p == WritePort(c)
           n == call[c].n
           last == Len(delivered[p]) + 1
<1>1. HoldsWrite(c) /\ p \in Ports
  BY HoldersHaveSessions DEF WriteDeliver, HoldsWrite
<1>2. n \in 1..sent[p] /\ n \in Nat
  BY <1>1, HoldersHaveSessions DEF Placed, HeldWrites
<1>3. Deliver(p, Tx(n))
  BY DEF WriteDeliver, WritePort
<1>4. /\ ~HoldsWrite(c)'
      /\ \A d \in Clients \ {c} : call'[d] = call[d]
  BY Shapes DEF WriteDeliver, HoldsWrite, Finish, IdleCall
<1>5. UNCHANGED <<session, reader, sent, taken>>
  BY DEF WriteDeliver
<1>6. /\ \A q \in Ports : q # p => delivered'[q] = delivered[q]
      /\ last \in Nat
      /\ DOMAIN delivered'[p] = DOMAIN delivered[p] \cup {last}
      /\ \A i \in DOMAIN delivered[p] : i # last /\ delivered'[p][i] = delivered[p][i]
      /\ delivered'[p][last] = Tx(n)
  <2>1. /\ Len(delivered[p]) \in Nat
        /\ DOMAIN delivered[p] = 1..Len(delivered[p])
        /\ DOMAIN delivered'[p] = 1..(Len(delivered[p]) + 1)
        /\ \A q \in Ports : q # p => delivered'[q] = delivered[q]
        /\ \A i \in DOMAIN delivered[p] : delivered'[p][i] = delivered[p][i]
        /\ delivered'[p][last] = Tx(n)
    BY <1>1, <1>2, <1>3, RxTxType, DeliverEffect
  <2> QED
    BY <2>1
<1>7. \A i \in DOMAIN delivered[p] : delivered[p][i] # Tx(n)
  BY <1>1 DEF Placed, HeldWrites
<1>8. \A d \in Clients : d # c /\ HoldsWrite(d) /\ WritePort(d) = p => call[d].n # n
  BY <1>1 DEF Placed, HeldWrites
<1>9. \A m : Rx(m).n = m /\ Rx(m).dir = "RX" /\ Tx(m).dir = "TX" /\ Tx(m).n = m
  BY DEF Rx, Tx
<1>10. \A d \in Clients \ {c} : /\ HoldsWrite(d)' <=> HoldsWrite(d)
                                /\ WritePort(d)' = WritePort(d) /\ call'[d].n = call[d].n
  BY <1>4, <1>5 DEF HoldsWrite, WritePort
<1> HIDE DEF p, n, last
<1>11. HeldLines'
  <2>1. ASSUME NEW s \in Sids, HoldsLine(s), NEW i \in DOMAIN delivered'[session[s].port]
        PROVE  delivered'[session[s].port][i] # Rx(reader[s].line)
    <3>1. session[s].port \in Ports
      BY <2>1, HoldersHaveSessions
    <3>2. CASE session[s].port = p /\ i = last
      BY <1>6, <1>9, <3>2
    <3>3. CASE ~(session[s].port = p /\ i = last)
      <4>1. i \in DOMAIN delivered[session[s].port]
            /\ delivered'[session[s].port][i] = delivered[session[s].port][i]
        BY <1>6, <2>1, <3>1, <3>3
      <4> QED
        BY <2>1, <4>1 DEF Placed, HeldLines
    <3> QED
      BY <3>2, <3>3
  <2> QED
    BY <1>5, <2>1 DEF Placed, HeldLines, HoldsLine, Rx
<1>12. HeldWrites'
  <2>1. ASSUME NEW d \in Clients, HoldsWrite(d)'
        PROVE  d # c /\ HoldsWrite(d) /\ WritePort(d) \in Ports
    BY <1>4, <1>10, <2>1, HoldersHaveSessions
  <2>2. ASSUME NEW d \in Clients, HoldsWrite(d)', NEW i \in DOMAIN delivered'[WritePort(d)]
        PROVE  delivered'[WritePort(d)][i] # Tx(call[d].n)
    <3>1. CASE WritePort(d) = p /\ i = last
      <4>1. call[d].n # n
        BY <1>8, <2>1, <2>2, <3>1
      <4> QED
        BY <1>6, <1>9, <3>1, <4>1
    <3>2. CASE ~(WritePort(d) = p /\ i = last)
      <4>1. i \in DOMAIN delivered[WritePort(d)]
            /\ delivered'[WritePort(d)][i] = delivered[WritePort(d)][i]
        BY <1>6, <2>1, <2>2, <3>2
      <4> QED
        BY <2>1, <2>2, <4>1 DEF Placed, HeldWrites
    <3> QED
      BY <3>1, <3>2
  <2>3. ASSUME NEW d \in Clients, HoldsWrite(d)'
        PROVE  /\ call[d].n \in 1..sent[WritePort(d)]
               /\ \A e \in Clients : e # d /\ HoldsWrite(e)' /\ WritePort(e)' = WritePort(d) =>
                     call[e].n # call[d].n
    <3>1. d # c /\ HoldsWrite(d)
      BY <2>1, <2>3
    <3>2. \A e \in Clients : HoldsWrite(e)' => e # c
      BY <1>4
    <3> QED
      BY <1>10, <3>1, <3>2 DEF Placed, HeldWrites
  <2>4. \A d \in Clients : HoldsWrite(d)' => WritePort(d)' = WritePort(d) /\ call'[d].n = call[d].n
    BY <1>10, <2>1
  <2>5. ASSUME NEW d \in Clients, HoldsWrite(d)'
        PROVE  /\ call'[d].n \in 1..sent[WritePort(d)']
               /\ \A e \in Clients : e # d /\ HoldsWrite(e)' /\ WritePort(e)' = WritePort(d)' =>
                     call'[e].n # call'[d].n
               /\ \A i \in DOMAIN delivered'[WritePort(d)'] :
                     delivered'[WritePort(d)'][i] # Tx(call'[d].n)
    BY <2>2, <2>3, <2>4, <2>5
  <2> QED
    BY <1>5, <2>5 DEF HeldWrites, Tx
<1>13. DeliveredOnce'
  <2> SUFFICES ASSUME NEW q \in Ports, NEW i \in DOMAIN delivered'[q]
               PROVE  /\ \/ /\ delivered'[q][i].dir = "RX"
                            /\ delivered'[q][i].n \in 1..taken[q]
                         \/ /\ delivered'[q][i].dir = "TX"
                            /\ delivered'[q][i].n \in 1..sent[q]
                      /\ \A j \in DOMAIN delivered'[q] :
                            delivered'[q][j] = delivered'[q][i] => j = i
    BY <1>5 DEF DeliveredOnce
  <2>1. /\ \A k \in DOMAIN delivered[q] :
              /\ \/ delivered[q][k].dir = "RX" /\ delivered[q][k].n \in 1..taken[q]
                 \/ delivered[q][k].dir = "TX" /\ delivered[q][k].n \in 1..sent[q]
              /\ \A j \in DOMAIN delivered[q] : delivered[q][j] = delivered[q][k] => j = k
    BY DEF Placed, DeliveredOnce
  <2>2. CASE q # p
    BY <1>6, <2>1, <2>2
  <2>3. CASE q = p
    BY <1>2, <1>6, <1>7, <1>9, <2>1, <2>3
  <2> QED
    BY <2>2, <2>3
<1>14. NothingLost'
  <2>1. \A q \in Ports : \A i \in DOMAIN delivered[q] :
           i \in DOMAIN delivered'[q] /\ delivered'[q][i] = delivered[q][i]
    BY <1>6
  <2>2. ASSUME NEW q \in Ports, NEW m \in 1..sent[q]
        PROVE  \/ \E d \in Clients : HoldsWrite(d)' /\ WritePort(d)' = q /\ call'[d].n = m
               \/ \E i \in DOMAIN delivered'[q] : delivered'[q][i] = Tx(m)
    <3>1. CASE q = p /\ m = n
      BY <1>6, <3>1
    <3>2. ASSUME NEW d \in Clients, HoldsWrite(d), WritePort(d) = q, call[d].n = m,
                 ~(q = p /\ m = n)
          PROVE  HoldsWrite(d)' /\ WritePort(d)' = q /\ call'[d].n = m
      <4>1. d # c
        BY <3>2 DEF p, n
      <4> QED
        BY <1>10, <3>2, <4>1
    <3>3. \/ \E d \in Clients : HoldsWrite(d) /\ WritePort(d) = q /\ call[d].n = m
          \/ \E i \in DOMAIN delivered[q] : delivered[q][i] = Tx(m)
      BY DEF Placed, NothingLost
    <3> QED
      BY <2>1, <3>1, <3>2, <3>3
  <2>3. \A q \in Ports : \A m \in 1..taken[q] :
           \/ \E s \in Sids : HoldsLine(s) /\ session[s].port = q /\ reader[s].line = m
           \/ \E i \in DOMAIN delivered'[q] : delivered'[q][i] = Rx(m)
    BY <2>1 DEF Placed, NothingLost
  <2> QED
    BY <1>5, <2>2, <2>3 DEF NothingLost, HoldsLine, Rx, Tx
<1> QED
  BY <1>11, <1>12, <1>13, <1>14 DEF Placed

\* Nothing is read, written or delivered at the start.
LEMMA PlacedInit == Init => Placed
<1> SUFFICES ASSUME Init PROVE Placed
  OBVIOUS
<1>1. HeldLines /\ HeldWrites
  BY DEF Init, HeldLines, HeldWrites, HoldsLine, HoldsWrite, IdleCall
<1>2. DeliveredOnce /\ NothingLost
  BY DEF Init, DeliveredOnce, NothingLost
<1> QED
  BY <1>1, <1>2 DEF Placed

\* Every step keeps every line and every write in exactly one place.
LEMMA PlacedStep ==
    ASSUME IInv, Placed, [Next]_vars
    PROVE  Placed'
<1> USE DEF IInv
<1>1. ASSUME NEW c \in Clients, Request(c)
      PROVE  Placed'
  <2>1. \A b \in Bauds : ByBaud(b) \in Config
    BY BrokerAssumption DEF ByBaud, Config
  <2>2. \/ \E p \in Ports, config \in Config : Open(c, p, config)
        \/ \E p \in Ports : ClosePop(c, p) \/ WriteLookup(c, p)
    BY <1>1, <2>1 DEF Request, SerialOpen, SerialTail, TailOpen
  <2> QED
    BY <2>2, ClientUndisturbed, UndisturbedKeeps
<1>2. ASSUME NEW c \in Clients, Continue(c)
      PROVE  Placed'
  BY <1>2, ClientUndisturbed, UndisturbedKeeps, WritePlaced, WriteDelivered DEF Continue, Proceed
<1>3. ASSUME NEW s \in Sids, Read(s)
      PROVE  Placed'
  BY <1>3, ReaderUndisturbed, UndisturbedKeeps, LinePlaced, LineDelivered DEF Read
<1>4. CASE UNCHANGED vars
  <2>1. Undisturbed
    BY <1>4 DEF vars, Undisturbed, HoldsLine, HoldsWrite
  <2> QED
    BY <2>1, UndisturbedKeeps
<1> QED
  BY <1>1, <1>2, <1>3, <1>4 DEF Next

\* A set with no member, or with one that all members are, counts 0 or 1.
LEMMA CountAtMostOne ==
    ASSUME NEW S, \A x, y \in S : x = y
    PROVE  Cardinality(S) = IF S = {} THEN 0 ELSE 1
<1>1. CASE S = {}
  BY <1>1, FS_EmptySet
<1>2. CASE S # {}
  <2>1. PICK x \in S : TRUE
    BY <1>2
  <2>2. S = {x}
    BY <2>1
  <2> QED
    BY <2>2, FS_Singleton
<1> QED
  BY <1>1, <1>2

\* In one place means counted once.
LEMMA PlacedIsOnce ==
    ASSUME TypeOK, HasSession, Placed
    PROVE  RecordedOnce
<1> SUFFICES ASSUME NEW p \in Ports
             PROVE  /\ \A n \in 1..taken[p] :
                          Delivered(p, Rx(n))
                          + Cardinality({s \in Sids : session[s].port = p /\ reader[s].line = n}) = 1
                    /\ \A n \in 1..sent[p] :
                          Delivered(p, Tx(n))
                          + Cardinality({c \in Clients : /\ call[c].pc \in {"sent", "kept"}
                                                         /\ session[call[c].sid].port = p
                                                         /\ call[c].n = n}) = 1
  BY DEF RecordedOnce
<1>1. ASSUME NEW record
      PROVE  Delivered(p, record)
             = IF \E i \in DOMAIN delivered[p] : delivered[p][i] = record THEN 1 ELSE 0
  <2> DEFINE S == {i \in DOMAIN delivered[p] : delivered[p][i] = record}
  <2>1. \A i, j \in S : i = j
    BY DEF Placed, DeliveredOnce
  <2>2. Cardinality(S) = IF S = {} THEN 0 ELSE 1
    BY <2>1, CountAtMostOne
  <2> QED
    BY <2>2 DEF Delivered
<1>2. ASSUME NEW n \in 1..taken[p]
      PROVE  Delivered(p, Rx(n))
             + Cardinality({s \in Sids : session[s].port = p /\ reader[s].line = n}) = 1
  <2> DEFINE S == {s \in Sids : session[s].port = p /\ reader[s].line = n}
  <2>1. n # 0
    BY HoldersHaveSessions
  <2>2. \A s \in S : HoldsLine(s)
    BY <2>1 DEF Placed, HeldLines
  <2>3. \A s, t \in S : s = t
    BY <2>2 DEF Placed, HeldLines
  <2>4. Cardinality(S) = IF S = {} THEN 0 ELSE 1
    BY <2>3, CountAtMostOne
  <2>5. S # {} <=> ~\E i \in DOMAIN delivered[p] : delivered[p][i] = Rx(n)
    BY <2>2 DEF Placed, HeldLines, NothingLost
  <2> QED
    BY <1>1, <2>4, <2>5
<1>3. ASSUME NEW n \in 1..sent[p]
      PROVE  Delivered(p, Tx(n))
             + Cardinality({c \in Clients : /\ call[c].pc \in {"sent", "kept"}
                                            /\ session[call[c].sid].port = p
                                            /\ call[c].n = n}) = 1
  <2> DEFINE S == {c \in Clients : /\ call[c].pc \in {"sent", "kept"}
                                   /\ session[call[c].sid].port = p
                                   /\ call[c].n = n}
  <2>1. \A c \in S : HoldsWrite(c) /\ WritePort(c) = p /\ call[c].n = n
    BY DEF HoldsWrite, WritePort
  <2>2. \A c, d \in S : c = d
    BY <2>1 DEF Placed, HeldWrites
  <2>3. Cardinality(S) = IF S = {} THEN 0 ELSE 1
    BY <2>2, CountAtMostOne
  <2>4. \A c \in Clients : HoldsWrite(c) /\ WritePort(c) = p /\ call[c].n = n => c \in S
    BY DEF HoldsWrite, WritePort
  <2>5. S # {} <=> ~\E i \in DOMAIN delivered[p] : delivered[p][i] = Tx(n)
    <3>1. S # {} => ~\E i \in DOMAIN delivered[p] : delivered[p][i] = Tx(n)
      BY <2>1 DEF Placed, HeldWrites
    <3>2. S = {} => \E i \in DOMAIN delivered[p] : delivered[p][i] = Tx(n)
      BY <2>4 DEF Placed, NothingLost
    <3> QED
      BY <3>1, <3>2
  <2> QED
    BY <1>1, <2>3, <2>5
<1> QED
  BY <1>2, <1>3

\* The places of lines and writes are as the invariant says in every state.
THEOREM BrokerPlaced == Spec => []Placed
<1>1. Placed /\ IInv /\ [Next]_vars => Placed'
  BY PlacedStep
<1> QED
  BY <1>1, PlacedInit, BrokerInvariant, PTL DEF Spec

(* No close, failure, late cleanup or reopening loses a line or a write or *)
(* has it recorded twice, however many threads there are.                  *)
THEOREM BrokerRecordedOnce == Spec => []RecordedOnce
<1>1. IInv /\ Placed => RecordedOnce
  BY PlacedIsOnce DEF IInv
<1> QED
  BY <1>1, BrokerInvariant, BrokerPlaced, PTL

-----------------------------------------------------------------------------
(* The raw buffer and the callback hold the same traffic.                  *)

Kept(p) == {buffers[p][i] : i \in DOMAIN buffers[p]}
Given(p) == {delivered[p][i] : i \in DOMAIN delivered[p]}

\* The records of the port that were kept, or are by now with the callback.
Known(p) == Given(p) \cup OnItsWay(p)

(* What RawBufferAgrees says of one port, and that the buffer is within    *)
(* its bounds: a full one stays full when its oldest record makes room.    *)
PortAgrees(p) ==
    /\ Fits(buffers[p])
    /\ Kept(p) \subseteq Known(p)
    /\ Known(p) \subseteq Kept(p) \/ IsFull(buffers[p])

Agrees == \A p \in Ports : PortAgrees(p)

\* A record is known if it was delivered, or a thread that kept it is about to deliver it.
LEMMA KnownMembers ==
    ASSUME NEW p, NEW record
    PROVE  record \in Known(p) <=>
              \/ \E i \in DOMAIN delivered[p] : delivered[p][i] = record
              \/ \E s \in Sids : session[s].port = p /\ At(s, "kept") /\ record = Rx(reader[s].line)
              \/ \E c \in Clients : /\ call[c].pc = "kept" /\ WritePort(c) = p
                                    /\ record = Tx(call[c].n)
BY DEF Known, Given, OnItsWay, WritePort

\* The threads that are about to deliver a record stay the same, and so do their records.
CarriersStay ==
    /\ \A s \in Sids : /\ At(s, "kept")' <=> At(s, "kept")
                       /\ At(s, "kept") => /\ session'[s].port = session[s].port
                                           /\ reader'[s].line = reader[s].line
    /\ \A c \in Clients : /\ call'[c].pc = "kept" <=> call[c].pc = "kept"
                          /\ call[c].pc = "kept" => /\ WritePort(c)' = WritePort(c)
                                                    /\ call'[c].n = call[c].n

\* Such a step that keeps and delivers nothing changes nothing here.
LEMMA CarriersStayAgrees ==
    ASSUME Agrees, CarriersStay, UNCHANGED <<buffers, delivered>>
    PROVE  Agrees'
<1> SUFFICES ASSUME NEW p \in Ports
             PROVE  PortAgrees(p)'
  BY DEF Agrees
<1>1. Kept(p)' = Kept(p) /\ Given(p)' = Given(p) /\ buffers' = buffers
  BY DEF Kept, Given
<1>2. OnItsWay(p)' = OnItsWay(p)
  <2>1. {s \in Sids : session'[s].port = p /\ At(s, "kept")'}
        = {s \in Sids : session[s].port = p /\ At(s, "kept")}
    BY DEF CarriersStay
  <2>2. {c \in Clients : call'[c].pc = "kept" /\ WritePort(c)' = p}
        = {c \in Clients : call[c].pc = "kept" /\ WritePort(c) = p}
    BY DEF CarriersStay
  <2>3. \A s \in {r \in Sids : session[r].port = p /\ At(r, "kept")} :
           Rx(reader'[s].line) = Rx(reader[s].line)
    BY DEF CarriersStay
  <2>4. \A c \in {d \in Clients : call[d].pc = "kept" /\ WritePort(d) = p} :
           Tx(call'[c].n) = Tx(call[c].n)
    BY DEF CarriersStay
  <2>5. OnItsWay(p) = {Rx(reader[s].line) : s \in {r \in Sids : session[r].port = p /\ At(r, "kept")}}
                      \cup {Tx(call[c].n) : c \in {d \in Clients : call[d].pc = "kept"
                                                                   /\ WritePort(d) = p}}
    BY DEF OnItsWay, WritePort
  <2>6. OnItsWay(p)' = {Rx(reader'[s].line) : s \in {r \in Sids : session'[r].port = p
                                                                  /\ At(r, "kept")'}}
                       \cup {Tx(call'[c].n) : c \in {d \in Clients : call'[d].pc = "kept"
                                                                     /\ WritePort(d)' = p}}
    BY DEF OnItsWay, WritePort, Rx, Tx
  <2> QED
    BY <2>1, <2>2, <2>3, <2>4, <2>5, <2>6
<1> QED
  BY <1>1, <1>2 DEF Agrees, PortAgrees, Known, Fits, IsFull

\* The steps of worker threads that keep and deliver nothing.
LEMMA ClientCarriersStay ==
    ASSUME TypeOK, HasSession, NEW c \in Clients,
           \/ \E p \in Ports, config \in Config : Open(c, p, config)
           \/ \E p \in Ports : ClosePop(c, p) \/ WriteLookup(c, p)
           \/ CloseStop(c) \/ CloseConnection(c) \/ WriteCheck(c) \/ WriteSend(c)
           \/ WriteFails(c) \/ Answer(c)
    PROVE  CarriersStay /\ UNCHANGED <<buffers, delivered>>
<1> USE Shapes DEF CarriersStay, WritePort, At, IdleCall, Idle, Finish
<1>1. ASSUME NEW p \in Ports, NEW config \in Config, Open(c, p, config)
      PROVE  CarriersStay /\ UNCHANGED <<buffers, delivered>>
  <2>1. CASE Connect(c, p, config)
    <3>1. PICK s \in Sids :
             /\ conn[s] = "none"
             /\ session' = [session EXCEPT ![s] =
                    [port |-> p, config |-> config, connected |-> TRUE, stop |-> FALSE]]
             /\ reader' = [reader EXCEPT ![s].pc = "loop"]
      BY <2>1 DEF Connect
    <3>2. reader[s].pc = "unborn" /\ reader'[s].pc = "loop"
          /\ \A t \in Sids \ {s} : reader'[t] = reader[t] /\ session'[t] = session[t]
      BY <3>1 DEF HasSession
    <3>3. /\ call[c].pc = "idle" /\ call'[c].pc = "answered"
          /\ \A d \in Clients \ {c} : call'[d] = call[d]
      BY <2>1 DEF Connect
    <3>4. \A d \in Clients : call[d].pc = "kept" => call[d].sid \in Sids /\ call[d].sid # s
      BY <3>1 DEF HasSession
    <3>5. \A t \in Sids : /\ At(t, "kept")' <=> At(t, "kept")
                          /\ At(t, "kept") => /\ session'[t].port = session[t].port
                                              /\ reader'[t].line = reader[t].line
      BY <3>2
    <3>6. \A d \in Clients : /\ call'[d].pc = "kept" <=> call[d].pc = "kept"
                             /\ call[d].pc = "kept" => /\ WritePort(d)' = WritePort(d)
                                                       /\ call'[d].n = call[d].n
      BY <3>2, <3>3, <3>4
    <3> QED
      BY <2>1, <3>5, <3>6 DEF Connect
  <2>2. CASE Reuse(c, p, config) \/ Refuse(c, p, config) \/ ConnectFails(c, p)
    BY <2>2 DEF Reuse, Refuse, ConnectFails
  <2> QED
    BY <1>1, <2>1, <2>2 DEF Open
<1>2. ASSUME NEW p \in Ports, ClosePop(c, p) \/ WriteLookup(c, p)
      PROVE  CarriersStay /\ UNCHANGED <<buffers, delivered>>
  <2>1. /\ call[c].pc = "idle" /\ call'[c].pc # "kept"
        /\ \A d \in Clients \ {c} : call'[d] = call[d]
    <3>1. CASE ClosePop(c, p) /\ sessions[p] = None
      BY <3>1 DEF ClosePop
    <3>2. CASE ClosePop(c, p) /\ sessions[p] # None
      BY <3>2 DEF ClosePop
    <3>3. CASE WriteLookup(c, p) /\ sessions[p] = None
      BY <3>3 DEF WriteLookup
    <3>4. CASE WriteLookup(c, p) /\ sessions[p] # None
      BY <3>4 DEF WriteLookup
    <3> QED
      BY <1>2, <3>1, <3>2, <3>3, <3>4
  <2>2. UNCHANGED <<buffers, delivered, session, reader>>
    BY <1>2 DEF ClosePop, WriteLookup
  <2> QED
    BY <2>1, <2>2
<1>3. CASE CloseStop(c)
  <2>1. /\ \A s \in Sids : session'[s].port = session[s].port
        /\ \A d \in Clients \ {c} : call'[d] = call[d]
        /\ call[c].pc = "popped" /\ call'[c].pc = "stopped"
        /\ UNCHANGED <<buffers, delivered, reader>>
    BY <1>3 DEF CloseStop
  <2>2. \A d \in Clients : call[d].pc = "kept" => call[d].sid \in Sids
    BY DEF HasSession
  <2> QED
    BY <2>1, <2>2
<1>4. CASE CloseConnection(c)
  BY <1>4 DEF CloseConnection
<1>5. CASE WriteCheck(c)
  BY <1>5 DEF WriteCheck
<1>6. CASE WriteSend(c)
  BY <1>6 DEF WriteSend
<1>7. CASE WriteFails(c)
  BY <1>7 DEF WriteFails
<1>8. CASE Answer(c)
  BY <1>8 DEF Answer
<1> QED
  BY <1>1, <1>2, <1>3, <1>4, <1>5, <1>6, <1>7, <1>8

\* The steps of readers that keep and deliver nothing.
LEMMA ReaderCarriersStay ==
    ASSUME TypeOK, HasSession, NEW s \in Sids,
           \/ ReaderLoop(s) \/ ReaderLine(s) \/ ReaderBlank(s) \/ ReaderFails(s)
           \/ ReaderUnregister(s) \/ ReaderClose(s)
    PROVE  CarriersStay /\ UNCHANGED <<buffers, delivered>>
<1> USE Shapes DEF CarriersStay, WritePort, At, GoTo
<1>1. CASE ReaderLoop(s)
  BY <1>1 DEF ReaderLoop
<1>2. CASE ReaderLine(s)
  BY <1>2 DEF ReaderLine
<1>3. CASE ReaderBlank(s)
  BY <1>3 DEF ReaderBlank
<1>4. CASE ReaderFails(s)
  <2>1. /\ \A t \in Sids : session'[t].port = session[t].port
        /\ \A t \in Sids \ {s} : reader'[t] = reader[t]
        /\ reader[s].pc = "read" /\ reader'[s].pc = "cleanup"
        /\ UNCHANGED <<buffers, delivered, call>>
    BY <1>4 DEF ReaderFails
  <2>2. \A d \in Clients : call[d].pc = "kept" => call[d].sid \in Sids
    BY DEF HasSession
  <2> QED
    BY <2>1, <2>2
<1>5. CASE ReaderUnregister(s)
  BY <1>5 DEF ReaderUnregister
<1>6. CASE ReaderClose(s)
  BY <1>6 DEF ReaderClose
<1> QED
  BY <1>1, <1>2, <1>3, <1>4, <1>5, <1>6

\* A record that is kept, and is from now on known, keeps buffer and callback in agreement.
LEMMA KeepAgrees ==
    ASSUME TypeOK, Agrees, NEW p \in Ports, NEW record \in Record, Keep(p, record),
           \A q \in Ports : Known(q)' = IF q = p THEN Known(q) \cup {record} ELSE Known(q)
    PROVE  Agrees'
<1>1. PICK new \in Appended(buffers[p], record) : buffers' = [buffers EXCEPT ![p] = new]
  BY DEF Keep
<1>2. DOMAIN buffers = Ports /\ buffers[p] \in Seq(Record) /\ \A r \in Record : r.size = 1
  BY DEF TypeOK, Record
<1>3. Fits(buffers[p])
  BY DEF Agrees, PortAgrees
<1>4. /\ new \in Seq(Record) /\ Fits(new) /\ Len(new) > 0
      /\ new[Len(new)] = record
      /\ \A i \in 1..(Len(new) - 1) : \E j \in 1..Len(buffers[p]) : new[i] = buffers[p][j]
      /\ \/ \A j \in 1..Len(buffers[p]) : \E i \in 1..Len(new) : new[i] = buffers[p][j]
         \/ IsFull(new)
      /\ IsFull(buffers[p]) => IsFull(new)
  BY <1>2, <1>3, AppendedUnits
<1>5. buffers'[p] = new /\ \A q \in Ports : q # p => buffers'[q] = buffers[q]
  BY <1>1, <1>2
<1>6. /\ DOMAIN new = 1..Len(new) /\ Len(new) \in Nat
      /\ DOMAIN buffers[p] = 1..Len(buffers[p])
  BY <1>2, <1>4, LenProperties
<1>7. PortAgrees(p)'
  <2>1. Kept(p)' \subseteq Kept(p) \cup {record}
    <3>1. \A n \in Nat : \A i \in 1..n : i = n \/ i \in 1..(n - 1)
      OBVIOUS
    <3>2. \A i \in 1..Len(new) : new[i] \in Kept(p) \cup {record}
      <4> SUFFICES ASSUME NEW i \in 1..Len(new)
                   PROVE  new[i] \in Kept(p) \cup {record}
        OBVIOUS
      <4>1. i = Len(new) \/ i \in 1..(Len(new) - 1)
        BY <1>6, <3>1
      <4>2. i \in 1..(Len(new) - 1) => new[i] \in Kept(p)
        BY <1>4, <1>6 DEF Kept
      <4> QED
        BY <1>4, <4>1, <4>2
    <3>3. Kept(p)' = {new[i] : i \in DOMAIN new}
      BY <1>5 DEF Kept
    <3> QED
      BY <1>6, <3>2, <3>3
  <2>2. Kept(p)' = {new[i] : i \in 1..Len(new)}
    BY <1>5, <1>6 DEF Kept
  <2>3. record \in Kept(p)'
    <3>1. Len(new) \in 1..Len(new)
      BY <1>4, <1>6
    <3> QED
      BY <1>4, <2>2, <3>1
  <2>4. Kept(p) \subseteq Kept(p)' \/ IsFull(new)
    <3> SUFFICES ASSUME ~IsFull(new), NEW j \in 1..Len(buffers[p])
                 PROVE  buffers[p][j] \in Kept(p)'
      BY <1>6 DEF Kept
    <3>1. \E i \in 1..Len(new) : new[i] = buffers[p][j]
      BY <1>4
    <3> QED
      BY <2>2, <3>1
  <2>5. Known(p)' = Known(p) \cup {record}
    OBVIOUS
  <2>6. PortAgrees(p)
    BY DEF Agrees
  <2>7. Kept(p)' \subseteq Known(p)'
    BY <2>1, <2>5, <2>6 DEF PortAgrees
  <2>8. Known(p)' \subseteq Kept(p)' \/ IsFull(new)
    BY <1>4, <2>3, <2>4, <2>5, <2>6 DEF PortAgrees
  <2>9. Fits(buffers[p])' /\ (IsFull(new) <=> IsFull(buffers[p])')
    BY <1>4, <1>5 DEF Fits, IsFull
  <2> QED
    BY <2>7, <2>8, <2>9 DEF PortAgrees
<1>8. ASSUME NEW q \in Ports, q # p
      PROVE  PortAgrees(q)'
  <2>1. Kept(q)' = Kept(q) /\ buffers'[q] = buffers[q]
    BY <1>5, <1>8 DEF Kept
  <2>2. Known(q)' = Known(q)
    BY <1>8
  <2> QED
    BY <2>1, <2>2 DEF Agrees, PortAgrees, Fits, IsFull
<1> QED
  BY <1>7, <1>8 DEF Agrees

\* A record that was known stays known while it is handed to the callback.
LEMMA KnownAgrees ==
    ASSUME Agrees, UNCHANGED buffers, \A q \in Ports : Known(q)' = Known(q)
    PROVE  Agrees'
BY DEF Agrees, PortAgrees, Kept, Fits, IsFull

\* The reader's record is kept: it becomes known, and nothing else does.
LEMMA ReaderKeepAgrees ==
    ASSUME TypeOK, HasSession, Agrees, NEW s \in Sids, ReaderKeep(s)
    PROVE  Agrees'
<1> DEFINE p == session[s].port
           record == Rx(reader[s].line)
<1>1. p \in Ports /\ reader[s].line \in Nat
  BY HoldersHaveSessions DEF ReaderKeep, At, HoldsLine
<1>2. Keep(p, record) /\ UNCHANGED <<session, call, delivered>>
  BY DEF ReaderKeep
<1>3. /\ reader[s].pc = "line" /\ reader'[s].pc = "kept" /\ reader'[s].line = reader[s].line
      /\ \A t \in Sids \ {s} : reader'[t] = reader[t]
  BY Shapes DEF ReaderKeep, At, GoTo
<1>4. ASSUME NEW q \in Ports
      PROVE  Known(q)' = IF q = p THEN Known(q) \cup {record} ELSE Known(q)
  <2>1. Given(q)' = Given(q)
    BY <1>2 DEF Given
  <2>2. {Tx(call[c].n) : c \in {d \in Clients : call[d].pc = "kept" /\ session[call[d].sid].port = q}}'
        = {Tx(call[c].n) : c \in {d \in Clients : call[d].pc = "kept" /\ session[call[d].sid].port = q}}
    BY <1>2 DEF Tx
  <2> DEFINE Now == {Rx(reader[t].line) : t \in {r \in Sids : session[r].port = q /\ At(r, "kept")}}
             Then == {Rx(reader'[t].line) : t \in {r \in Sids : session[r].port = q
                                                                /\ reader'[r].pc = "kept"}}
  <2>3. Then = IF q = p THEN Now \cup {record} ELSE Now
    <3>1. \A t \in Sids \ {s} : At(t, "kept") <=> reader'[t].pc = "kept"
      BY <1>3 DEF At
    <3>2. CASE q = p
      BY <1>3, <3>1, <3>2 DEF At
    <3>3. CASE q # p
      BY <1>3, <3>1, <3>3 DEF At
    <3> QED
      BY <3>2, <3>3
  <2>4. Then = Now'
    BY <1>2 DEF At, Rx
  <2> QED
    BY <2>1, <2>2, <2>3, <2>4 DEF Known, OnItsWay
<1>5. record \in Record
  BY <1>1, RxTxType
<1> HIDE DEF p, record
<1> QED
  BY <1>1, <1>2, <1>4, <1>5, KeepAgrees

\* The record of a write is kept.
LEMMA WriteKeepAgrees ==
    ASSUME TypeOK, HasSession, Agrees, NEW c \in Clients, WriteKeep(c)
    PROVE  Agrees'
<1> DEFINE p == WritePort(c)
           record == Tx(call[c].n)
<1>1. p \in Ports /\ call[c].n \in Nat
  <2>1. call[c].n \in Nat
    BY DEF TypeOK
  <2> QED
    BY <2>1, HoldersHaveSessions DEF WriteKeep, HoldsWrite
<1>2. Keep(p, record) /\ UNCHANGED <<session, reader, delivered>>
  BY DEF WriteKeep, WritePort
<1>3. /\ call[c].pc = "sent" /\ call'[c].pc = "kept" /\ call'[c].n = call[c].n
      /\ call'[c].sid = call[c].sid
      /\ \A d \in Clients \ {c} : call'[d] = call[d]
  BY Shapes DEF WriteKeep
<1>4. ASSUME NEW q \in Ports
      PROVE  Known(q)' = IF q = p THEN Known(q) \cup {record} ELSE Known(q)
  <2>1. Given(q)' = Given(q)
    BY <1>2 DEF Given
  <2>2. {Rx(reader[t].line) : t \in {r \in Sids : session[r].port = q /\ At(r, "kept")}}'
        = {Rx(reader[t].line) : t \in {r \in Sids : session[r].port = q /\ At(r, "kept")}}
    BY <1>2 DEF Rx, At
  <2> DEFINE Now == {Tx(call[e].n) : e \in {d \in Clients : call[d].pc = "kept"
                                                            /\ WritePort(d) = q}}
             Then == {Tx(call'[e].n) : e \in {d \in Clients : call'[d].pc = "kept"
                                                              /\ WritePort(d)' = q}}
  <2>3. Then = IF q = p THEN Now \cup {record} ELSE Now
    <3>1. \A d \in Clients : WritePort(d)' = WritePort(d)
      BY <1>2, <1>3 DEF WritePort
    <3>2. CASE q = p
      BY <1>3, <3>1, <3>2
    <3>3. CASE q # p
      BY <1>3, <3>1, <3>3
    <3> QED
      BY <3>2, <3>3
  <2>4. Then = Now'
    BY DEF Tx
  <2>5. Now = {Tx(call[e].n) : e \in {d \in Clients : call[d].pc = "kept"
                                                      /\ session[call[d].sid].port = q}}
    BY DEF WritePort
  <2>6. Now' = {Tx(call[e].n) : e \in {d \in Clients : call[d].pc = "kept"
                                                       /\ session[call[d].sid].port = q}}'
    BY DEF WritePort, Tx
  <2> QED
    BY <2>1, <2>2, <2>3, <2>4, <2>5, <2>6 DEF Known, OnItsWay
<1>5. record \in Record
  BY <1>1, RxTxType
<1> HIDE DEF p, record
<1> QED
  BY <1>1, <1>2, <1>4, <1>5, KeepAgrees

\* Delivering a record adds it to what was given.
LEMMA GivenAfter ==
    ASSUME TypeOK, NEW p \in Ports, NEW record \in Record, Deliver(p, record)
    PROVE  \A q \in Ports : Given(q)' = IF q = p THEN Given(q) \cup {record} ELSE Given(q)
<1> DEFINE last == Len(delivered[p]) + 1
<1>1. /\ \A q \in Ports : q # p => delivered'[q] = delivered[q]
      /\ Len(delivered[p]) \in Nat
      /\ DOMAIN delivered[p] = 1..Len(delivered[p])
      /\ DOMAIN delivered'[p] = 1..(Len(delivered[p]) + 1)
      /\ \A i \in DOMAIN delivered[p] : delivered'[p][i] = delivered[p][i]
      /\ delivered'[p][last] = record
  BY DeliverEffect
<1>2. DOMAIN delivered'[p] = DOMAIN delivered[p] \cup {last}
  BY <1>1
<1> HIDE DEF last
<1> SUFFICES ASSUME NEW q \in Ports
             PROVE  Given(q)' = IF q = p THEN Given(q) \cup {record} ELSE Given(q)
  OBVIOUS
<1>3. Given(q)' = {delivered'[q][i] : i \in DOMAIN delivered'[q]}
  BY DEF Given
<1>4. CASE q = p
  BY <1>1, <1>2, <1>3, <1>4 DEF Given
<1>5. CASE q # p
  BY <1>1, <1>3, <1>5 DEF Given
<1> QED
  BY <1>4, <1>5

\* The reader's record goes to the callback: it was known and stays so.
LEMMA ReaderDeliverAgrees ==
    ASSUME TypeOK, HasSession, Agrees, NEW s \in Sids, ReaderDeliver(s)
    PROVE  Agrees'
<1> DEFINE p == session[s].port
           record == Rx(reader[s].line)
<1>1. p \in Ports /\ record \in Record
  BY HoldersHaveSessions, RxTxType DEF ReaderDeliver, At, HoldsLine
<1>2. Deliver(p, record) /\ UNCHANGED <<session, call, buffers>>
  BY DEF ReaderDeliver
<1>3. /\ reader[s].pc = "kept" /\ reader'[s].pc = "loop"
      /\ \A t \in Sids \ {s} : reader'[t] = reader[t]
  BY Shapes DEF ReaderDeliver, At
<1>4. ASSUME NEW q \in Ports
      PROVE  Known(q)' = Known(q)
  <2>1. Given(q)' = IF q = p THEN Given(q) \cup {record} ELSE Given(q)
    BY <1>1, <1>2, GivenAfter
  <2>2. {Tx(call[c].n) : c \in {d \in Clients : call[d].pc = "kept" /\ session[call[d].sid].port = q}}'
        = {Tx(call[c].n) : c \in {d \in Clients : call[d].pc = "kept" /\ session[call[d].sid].port = q}}
    BY <1>2 DEF Tx
  <2> DEFINE Now == {Rx(reader[t].line) : t \in {r \in Sids : session[r].port = q /\ At(r, "kept")}}
             Then == {Rx(reader'[t].line) : t \in {r \in Sids : session[r].port = q
                                                                /\ reader'[r].pc = "kept"}}
  <2>3. Now = IF q = p THEN Then \cup {record} ELSE Then
    <3>1. \A t \in Sids \ {s} : At(t, "kept") <=> reader'[t].pc = "kept"
      BY <1>3 DEF At
    <3>2. CASE q = p
      BY <1>3, <3>1, <3>2 DEF At
    <3>3. CASE q # p
      BY <1>3, <3>1, <3>3 DEF At
    <3> QED
      BY <3>2, <3>3
  <2>4. Then = Now'
    BY <1>2 DEF At, Rx
  <2> HIDE DEF Now, Then, record, p
  <2>5. Known(q) = Given(q) \cup Now
                   \cup {Tx(call[c].n) : c \in {d \in Clients : call[d].pc = "kept"
                                                                /\ session[call[d].sid].port = q}}
    BY DEF Known, OnItsWay, Now
  <2>6. Known(q)' = Given(q)' \cup Now'
                    \cup {Tx(call[c].n) : c \in {d \in Clients : call[d].pc = "kept"
                                                                 /\ session[call[d].sid].port = q}}'
    BY DEF Known, OnItsWay, Now
  <2> QED
    BY <2>1, <2>2, <2>3, <2>4, <2>5, <2>6
<1> QED
  BY <1>2, <1>4, KnownAgrees

\* The record of a write goes to the callback.
LEMMA WriteDeliverAgrees ==
    ASSUME TypeOK, HasSession, Agrees, NEW c \in Clients, WriteDeliver(c)
    PROVE  Agrees'
<1> DEFINE p == WritePort(c)
           record == Tx(call[c].n)
<1>1. p \in Ports /\ record \in Record
  <2>1. call[c].n \in Nat
    BY DEF TypeOK
  <2> QED
    BY <2>1, HoldersHaveSessions, RxTxType DEF WriteDeliver, HoldsWrite
<1>2. Deliver(p, record) /\ UNCHANGED <<session, reader, buffers>>
  BY DEF WriteDeliver, WritePort
<1>3. /\ call[c].pc = "kept" /\ call'[c].pc = "answered"
      /\ \A d \in Clients \ {c} : call'[d] = call[d]
  BY Shapes DEF WriteDeliver, Finish, IdleCall
<1>4. ASSUME NEW q \in Ports
      PROVE  Known(q)' = Known(q)
  <2>1. Given(q)' = IF q = p THEN Given(q) \cup {record} ELSE Given(q)
    BY <1>1, <1>2, GivenAfter
  <2> DEFINE Lines == {Rx(reader[t].line) : t \in {r \in Sids : session[r].port = q /\ At(r, "kept")}}
             Now == {Tx(call[e].n) : e \in {d \in Clients : call[d].pc = "kept"
                                                            /\ WritePort(d) = q}}
             Then == {Tx(call'[e].n) : e \in {d \in Clients : call'[d].pc = "kept"
                                                              /\ WritePort(d)' = q}}
  <2>2. Lines' = Lines
    BY <1>2 DEF Rx, At
  <2>3. Now = IF q = p THEN Then \cup {record} ELSE Then
    <3>1. \A d \in Clients \ {c} : WritePort(d)' = WritePort(d)
      BY <1>2, <1>3 DEF WritePort
    <3>2. CASE q = p
      BY <1>3, <3>1, <3>2
    <3>3. CASE q # p
      BY <1>3, <3>1, <3>3
    <3> QED
      BY <3>2, <3>3
  <2>4. Then = Now'
    BY DEF Tx
  <2>5. Known(q) = Given(q) \cup Lines \cup Now
    BY DEF Known, OnItsWay, WritePort
  <2>6. Known(q)' = Given(q)' \cup Lines' \cup Now'
    BY DEF Known, OnItsWay, WritePort, Rx, Tx
  <2> HIDE DEF Lines, Now, Then, record, p
  <2> QED
    BY <2>1, <2>2, <2>3, <2>4, <2>5, <2>6
<1> QED
  BY <1>2, <1>4, KnownAgrees

\* Nothing is kept and nothing is known at the start.
LEMMA AgreesInit == Init => Agrees
<1> SUFFICES ASSUME Init, NEW p \in Ports
             PROVE  PortAgrees(p)
  BY DEF Agrees
<1>1. buffers[p] = <<>> /\ delivered[p] = <<>>
  BY DEF Init
<1>2. Fits(<<>>)
  <2>1. <<>> \in Seq(Record) /\ Len(<<>>) = 0
    BY EmptySeq
  <2>2. \A r \in Record : r.size = 1
    BY DEF Record
  <2>3. Bytes(<<>>) = Len(<<>>)
    BY <2>1, <2>2, BytesOfUnits
  <2> QED
    BY <2>1, <2>3, BufferAssumption DEF Fits
<1>3. Kept(p) = {} /\ Given(p) = {}
  BY <1>1 DEF Kept, Given
<1>4. OnItsWay(p) = {}
  BY DEF Init, OnItsWay, At, IdleCall
<1> QED
  BY <1>1, <1>2, <1>3, <1>4 DEF PortAgrees, Known

\* No step makes the raw buffer and the callback disagree.
LEMMA AgreesStep ==
    ASSUME IInv, Agrees, [Next]_vars
    PROVE  Agrees'
<1> USE DEF IInv
<1>1. ASSUME NEW c \in Clients, Request(c)
      PROVE  Agrees'
  <2>1. \A b \in Bauds : ByBaud(b) \in Config
    BY BrokerAssumption DEF ByBaud, Config
  <2>2. \/ \E p \in Ports, config \in Config : Open(c, p, config)
        \/ \E p \in Ports : ClosePop(c, p) \/ WriteLookup(c, p)
    BY <1>1, <2>1 DEF Request, SerialOpen, SerialTail, TailOpen
  <2> QED
    BY <2>2, ClientCarriersStay, CarriersStayAgrees
<1>2. ASSUME NEW c \in Clients, Continue(c)
      PROVE  Agrees'
  BY <1>2, ClientCarriersStay, CarriersStayAgrees, WriteKeepAgrees, WriteDeliverAgrees DEF Continue, Proceed
<1>3. ASSUME NEW s \in Sids, Read(s)
      PROVE  Agrees'
  BY <1>3, ReaderCarriersStay, CarriersStayAgrees, ReaderKeepAgrees, ReaderDeliverAgrees DEF Read
<1>4. CASE UNCHANGED vars
  <2>1. CarriersStay /\ UNCHANGED <<buffers, delivered>>
    BY <1>4 DEF vars, CarriersStay, At, WritePort
  <2> QED
    BY <2>1, CarriersStayAgrees
<1> QED
  BY <1>1, <1>2, <1>3, <1>4 DEF Next

(* What the raw buffer keeps was delivered or is on its way, and what it   *)
(* does not keep was pushed out by its bounds, for every pair of bounds.   *)
THEOREM BrokerRawBufferAgrees == Spec => []RawBufferAgrees
<1>1. Agrees /\ IInv /\ [Next]_vars => Agrees'
  BY AgreesStep
<1>2. Agrees => RawBufferAgrees
  BY DEF Agrees, PortAgrees, RawBufferAgrees, Kept, Known, Given, IsFull
<1> QED
  BY <1>1, <1>2, AgreesInit, BrokerInvariant, PTL DEF Spec
=============================================================================
