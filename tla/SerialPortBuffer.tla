--------------------------- MODULE SerialPortBuffer ---------------------------
(***************************************************************************)
(* The bounded record store of one serial port: class SerialPortBuffer in  *)
(* rdklink/serial_broker.py.  The broker keeps one per port for raw lines  *)
(* and the agent keeps another for the numbered records it serves.         *)
(*                                                                         *)
(* A record is any record with a natural `size' field; the running byte    *)
(* counter of the class is always the sum of those sizes, so it is derived *)
(* here instead of being kept.                                             *)
(***************************************************************************)
EXTENDS Integers, Sequences

CONSTANTS MaxRecords,   \* max_records of the buffer
          MaxBytes      \* max_bytes of the buffer

\* The constructor clamps both limits to at least 1.
ASSUME BufferAssumption == MaxRecords \in Nat \ {0} /\ MaxBytes \in Nat \ {0}

\* self.bytes: the total size of the records held.
Bytes(records) ==
    LET upTo[i \in 0..Len(records)] ==
            IF i = 0 THEN 0 ELSE upTo[i - 1] + records[i].size
    IN  upTo[Len(records)]

Fits(records) == Len(records) <= MaxRecords /\ Bytes(records) <= MaxBytes

\* Mutant of WithoutOldest: the wrong end is popped.
WithoutNewest(records, k) == SubSeq(records, 1, Len(records) - k)

\* What is left of `records' once its k oldest members are popped.
WithoutOldest(records, k) == SubSeq(records, k + 1, Len(records))

\* The while loop of append stops at the first k for which the rest fits.
StopsAfter(records, k) ==
    /\ Fits(WithoutOldest(records, k))
    /\ \A j \in 0..(k - 1) : ~Fits(WithoutOldest(records, j))

(***************************************************************************)
(* append: a record larger than the whole buffer is dropped, any other     *)
(* record is added at the end and the oldest records make room for it.     *)
(* The set has exactly one member; it is a set so that no proof has to     *)
(* find the least k.                                                       *)
(***************************************************************************)
Appended(records, record) ==
    IF record.size > MaxBytes
    THEN {records}
    ELSE LET all == Append(records, record)
         IN  {WithoutOldest(all, k) : k \in {i \in 0..Len(all) : StopsAfter(all, i)}}
=============================================================================
