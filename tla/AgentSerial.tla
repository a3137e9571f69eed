------------------------------- MODULE AgentSerial -------------------------------
(***************************************************************************)
(* A device sends bytes, the broker's reader thread makes lines of them    *)
(* (SerialBroker._reader in rdklink/serial_broker.py) and the agent        *)
(* records and serves them (SerialLog).                                    *)
(*                                                                         *)
(* read_until of pyserial returns at a line end, at its size limit, or     *)
(* when the connection's timeout of 0.2 s is over, with whatever it has    *)
(* then.  The timeout runs from the start of the call, so that a line may  *)
(* run out of it without a pause in it.  Of what was read every "\r" and   *)
(* "\n" at the end is stripped, in the middle of a line as well.           *)
(***************************************************************************)
EXTENDS SerialLog, SequencesExt

CONSTANTS
    Device,      \* the port the device is on
    Letters,     \* what a byte may be besides "\n"
    CarriageReturn,   \* "\r"
    NewLine,     \* "\n", the line end
    LineBytes,   \* MAX_LINE_BYTES
    Foreign,     \* bound: what others record, as [port, dir, payload]
    MaxSent      \* bound: bytes the device sends

ASSUME ReaderAssumption ==
    /\ Device \in Ports /\ NewLine \notin Letters /\ CarriageReturn \in Letters
    /\ LineBytes \in Nat \ {0} /\ MaxSent \in Nat
    /\ \A n \in 1..LineBytes : [1..n -> Letters] \subseteq Payloads
    /\ \A x \in Foreign : x.port # Device \/ x.dir = "TX"

VARIABLES
    sent,        \* number of bytes the device sent
    raw,         \* the bytes the present read_until has
    lines        \* history: the device's lines, the last one is not over yet

readerVars == <<sent, raw, lines>>

\* sent: its bytes; past: how many of them reads returned; kept: the places of those that were
\* recorded; records: in how many records; late: a read ran out of time in the middle of it.
NewLineHistory == [sent |-> <<>>, past |-> 0, kept |-> {}, records |-> 0, late |-> FALSE]

ReaderInit ==
    /\ sent = 0 /\ raw = <<>>
    /\ lines = <<NewLineHistory>>

EndsLine(bytes) == bytes # <<>> /\ bytes[Len(bytes)] = NewLine

ReadShort == LineBytes - 1   \* mutant of ReadSize: a line that fits is read in two

ReadLong == LineBytes + 2   \* mutant of ReadSize: room for a line end of two bytes

ReadSize == LineBytes + 1

\* The device sends a byte, and read_until gets it: at once or from a queue makes no difference.
ReadByte(byte) ==
    /\ sent < MaxSent
    /\ ~EndsLine(raw) /\ Len(raw) # ReadSize
    /\ sent' = sent + 1
    /\ raw' = Append(raw, byte)
    /\ lines' = IF byte = NewLine THEN lines
                ELSE [lines EXCEPT ![Len(lines)].sent = Append(@, byte)]
    /\ UNCHANGED vars

\* rstrip(b"\r\n")
Stripped(bytes) ==
    SubSeq(bytes, 1, SelectLastInSeq(bytes, LAMBDA byte : byte \notin {CarriageReturn, NewLine}))

First(n, bytes) == SubSeq(bytes, 1, IF Len(bytes) < n THEN Len(bytes) ELSE n)

\* Mutant of Payload: the cut leaves room for the line end, which is stripped after it.
CutTooShort(bytes) == Stripped(First(LineBytes - 1, bytes))

\* raw[:MAX_LINE_BYTES].rstrip(b"\r\n")
Payload(bytes) == Stripped(First(LineBytes, bytes))

\* read_until returns; a payload that is not empty is recorded.
ReadReturns(timeout) ==
    /\ LET payload == Payload(raw)
           last == Len(lines)
           line == [lines[last] EXCEPT
                       !.past = Len(lines[last].sent),
                       !.kept = @ \cup {lines[last].past + i : i \in 1..Len(payload)},
                       !.records = IF payload = <<>> THEN @ ELSE @ + 1,
                       !.late = @ \/ timeout]
           heard == [lines EXCEPT ![last] = line]
       IN  /\ lines' = IF EndsLine(raw) THEN Append(heard, NewLineHistory) ELSE heard
           /\ IF payload = <<>> THEN UNCHANGED vars ELSE Add(Device, "RX", payload)
    /\ raw' = <<>>
    /\ UNCHANGED sent

Complete == EndsLine(raw) \/ Len(raw) = ReadSize

EndRead == Complete /\ ReadReturns(FALSE)

\* The 0.2 s since the call are over in the middle of a line.
TimeOutRead == raw # <<>> /\ ~Complete /\ ReadReturns(TRUE)

-----------------------------------------------------------------------------
AgentInit == Init /\ ReaderInit

\* Bytes written to the device, and the traffic of other ports.
OthersRecord ==
    /\ \E p \in Ports, dir \in Directions, payload \in Payloads :
          [port |-> p, dir |-> dir, payload |-> payload] \in Foreign /\ Add(p, dir, payload)
    /\ UNCHANGED readerVars

\* The agent's process is started again; what the reader had is gone with it.
AgentRestart ==
    /\ Restart
    /\ raw' = <<>> /\ lines' = <<NewLineHistory>>
    /\ UNCHANGED sent

AgentNext ==
    \/ \E byte \in Letters \cup {NewLine} : ReadByte(byte)
    \/ EndRead \/ TimeOutRead
    \/ OthersRecord
    \/ ClientStep /\ UNCHANGED readerVars
    \/ AgentRestart

allVars == <<vars, readerVars>>

(* As in SerialLog: a waiting thread gets on; nothing has to be received.  *)
AgentSpec ==
    /\ AgentInit /\ [][AgentNext]_allVars
    /\ \A w \in Waiters : WF_allVars(WaitStep(w) /\ UNCHANGED readerVars)

-----------------------------------------------------------------------------
(* Properties                                                              *)

\* Every variable of the reader has the type its Python counterpart has.
ReaderTypeOK ==
    /\ raw \in Seq(Letters \cup {NewLine}) /\ Len(raw) <= LineBytes + 1
    /\ sent \in Nat
    /\ lines \in Seq([sent : Seq(Letters), past : Nat, kept : SUBSET Nat, records : Nat,
                      late : BOOLEAN])

\* The lines that were read to their end, by an agent that was not restarted since they began.
Over == {lines[i] : i \in 1..(Len(lines) - 1)}

\* The places of the bytes of a line, but for carriage returns, that no record has.
Lost(line) == {i \in 1..Len(line.sent) : i \notin line.kept /\ line.sent[i] # CarriageReturn}

(* However the reads are cut by their timeout and their limit, nothing of  *)
(* the first LineBytes bytes of a line is lost but carriage returns, and   *)
(* after those nothing but single bytes with more than LineBytes others    *)
(* since the one before: the last bytes of reads that were full            *)
(* (serial_broker.py 218-233).                                             *)
LinesAreComplete ==
    \A line \in Over : \A i \in Lost(line) :
        /\ i > LineBytes
        /\ \A j \in Lost(line) : i < j => i + LineBytes < j

(* A line whose text, without the carriage returns at its end, has at most *)
(* LineBytes bytes and none of whose reads ran out of its 0.2 s is one     *)
(* record that holds the whole text, so that serial_wait, which looks at   *)
(* one record at a time, can find what it says (serial_broker.py 218-233,  *)
(* agent.py 364).                                                          *)
WholeLineIsOneRecord ==
    \A line \in Over :
        LET length == Len(Stripped(line.sent))
        IN  length \in 1..LineBytes /\ ~line.late => line.records = 1 /\ line.kept = 1..length
=============================================================================
