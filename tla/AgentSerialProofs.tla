--------------------------- MODULE AgentSerialProofs ---------------------------
(***************************************************************************)
(* Proofs about AgentSerial for every limit of a line, every device and    *)
(* however its bytes are cut into reads: the reader's types, what of a     *)
(* line is recorded and what is lost, that a line that fits and no read of *)
(* which ran out of time is one record, and that what the reader does to   *)
(* the log is what SerialLog says of a callback.                           *)
(***************************************************************************)
EXTENDS AgentSerial, SerialLogProofs

LineRecord == [sent : Seq(Letters), past : Nat, kept : SUBSET Nat, records : Nat, late : BOOLEAN]

\* The bytes of a read without the line end.
Body(bytes) == IF EndsLine(bytes) THEN SubSeq(bytes, 1, Len(bytes) - 1) ELSE bytes

\* What read_until has: a line end is its last byte, and the limit was not passed.
RawOK(bytes) ==
    /\ bytes \in Seq(Letters \cup {NewLine}) /\ Len(bytes) <= ReadSize
    /\ \A i \in 1..(Len(bytes) - 1) : bytes[i] \in Letters

\* The bytes a read has are those of its line that no read before had.
Reading(line, body) ==
    /\ Len(line.sent) = line.past + Len(body)
    /\ \A i \in 1..Len(body) : body[i] = line.sent[line.past + i]

\* The places that were read and are in no record, but for carriage returns.
Missing(line) == {i \in 1..line.past : i \notin line.kept /\ line.sent[i] # CarriageReturn}

\* Of what was read, the text ends at byte k, after which only carriage returns came.
TextEnds(line, k) ==
    /\ k \in 1..line.past /\ line.sent[k] # CarriageReturn
    /\ \A i \in 1..line.past : i > k => line.sent[i] = CarriageReturn

\* A text that fits, as far as it was read without a late read, is one record.
OneRecord(line) ==
    ~line.late => \A k \in 1..LineBytes :
                      TextEnds(line, k) => line.kept = 1..k /\ line.records = 1

(* What was read of a line is recorded but for carriage returns and the    *)
(* last bytes of full reads.                                               *)
Recorded(line) ==
    /\ \A i \in Missing(line) : i > LineBytes
    /\ \A i, j \in Missing(line) : i < j => i + LineBytes < j
    /\ OneRecord(line)

(* A line that is being read: unless a read was late, there was none yet   *)
(* or the reads before were full.                                          *)
Heard(line, bytes) ==
    /\ Reading(line, Body(bytes)) /\ Recorded(line)
    /\ ~line.late => \/ line.past = 0 /\ line.kept = {} /\ line.records = 0
                     \/ line.past > LineBytes

\* A line that was read to its end.
WellRead(line) == line.past = Len(line.sent) /\ Recorded(line)

ReaderInv ==
    /\ RawOK(raw) /\ sent \in Nat
    /\ lines \in Seq(LineRecord) /\ lines # <<>>
    /\ Heard(lines[Len(lines)], raw)
    /\ \A line \in Over : WellRead(line)

-----------------------------------------------------------------------------
(* The bytes of a read                                                     *)

\* The parts of a record of a line.
LEMMA LineParts ==
    ASSUME NEW line \in LineRecord
    PROVE  /\ line.sent \in Seq(Letters) /\ Len(line.sent) \in Nat /\ line.past \in Nat
           /\ line.kept \in SUBSET Nat /\ line.records \in Nat /\ line.late \in BOOLEAN
<1>1. /\ line.sent \in Seq(Letters) /\ line.past \in Nat
      /\ line.kept \in SUBSET Nat /\ line.records \in Nat /\ line.late \in BOOLEAN
  BY DEF LineRecord
<1> QED
  BY <1>1

\* The first n elements of a sequence.
LEMMA FirstOf ==
    ASSUME NEW S, NEW s \in Seq(S), NEW n \in Nat, n <= Len(s),
           NEW T, \A i \in 1..n : s[i] \in T
    PROVE  /\ SubSeq(s, 1, n) \in Seq(S) /\ SubSeq(s, 1, n) \in Seq(T)
           /\ Len(SubSeq(s, 1, n)) = n
           /\ \A i \in 1..n : SubSeq(s, 1, n)[i] = s[i]
<1>1. \A i \in 1..n : s[i] \in S
  OBVIOUS
<1>2. SubSeq(s, 1, n) \in Seq(T)
  BY SubSeqProperties
<1>3. /\ SubSeq(s, 1, n) \in Seq(S) /\ Len(SubSeq(s, 1, n)) = IF 1 <= n THEN n - 1 + 1 ELSE 0
      /\ \A i \in 1..(n - 1 + 1) : SubSeq(s, 1, n)[i] = s[1 + i - 1]
  BY <1>1, SubSeqProperties
<1> HIDE DEF SubSeq
<1> QED
  BY <1>2, <1>3

\* The bytes of a read but for a line end are letters.
LEMMA BodyFacts ==
    ASSUME ReaderAssumption, NEW bytes, RawOK(bytes)
    PROVE  /\ Body(bytes) \in Seq(Letters) /\ Len(Body(bytes)) \in Nat /\ Len(bytes) \in Nat
           /\ Len(Body(bytes)) = IF EndsLine(bytes) THEN Len(bytes) - 1 ELSE Len(bytes)
           /\ \A i \in 1..Len(Body(bytes)) : Body(bytes)[i] = bytes[i] /\ bytes[i] \in Letters
           /\ EndsLine(bytes) => Len(bytes) >= 1 /\ bytes[Len(bytes)] = NewLine
<1>1. bytes \in Seq(Letters \cup {NewLine}) /\ Len(bytes) \in Nat
  BY DEF RawOK
<1>2. \A i \in 1..(Len(bytes) - 1) : bytes[i] \in Letters
  BY DEF RawOK
<1>3. CASE EndsLine(bytes)
  <2>1. Len(bytes) >= 1 /\ bytes[Len(bytes)] = NewLine
    BY <1>1, <1>3 DEF EndsLine
  <2>2. Body(bytes) = SubSeq(bytes, 1, Len(bytes) - 1)
    BY <1>3 DEF Body
  <2>3. Len(bytes) - 1 \in Nat /\ Len(bytes) - 1 <= Len(bytes)
    BY <1>1, <2>1
  <2>4. /\ Body(bytes) \in Seq(Letters) /\ Len(Body(bytes)) = Len(bytes) - 1
        /\ \A i \in 1..(Len(bytes) - 1) : Body(bytes)[i] = bytes[i]
    <3> DEFINE k == Len(bytes) - 1
    <3>1. k \in Nat /\ k <= Len(bytes) /\ \A i \in 1..k : bytes[i] \in Letters
      BY <1>2, <2>3
    <3>2. Body(bytes) = SubSeq(bytes, 1, k)
      BY <2>2
    <3> HIDE DEF k
    <3>3. /\ SubSeq(bytes, 1, k) \in Seq(Letters) /\ Len(SubSeq(bytes, 1, k)) = k
          /\ \A i \in 1..k : SubSeq(bytes, 1, k)[i] = bytes[i]
      BY <1>1, <3>1, FirstOf
    <3>4. /\ Body(bytes) \in Seq(Letters) /\ Len(Body(bytes)) = k
          /\ \A i \in 1..k : Body(bytes)[i] = bytes[i]
      BY <3>2, <3>3
    <3> QED
      BY <3>4 DEF k
  <2>5. \A i \in 1..Len(Body(bytes)) : Body(bytes)[i] = bytes[i] /\ bytes[i] \in Letters
    BY <1>2, <2>4
  <2> QED
    BY <1>1, <1>3, <2>1, <2>4, <2>5
<1>4. CASE ~EndsLine(bytes)
  <2>1. Body(bytes) = bytes
    BY <1>4 DEF Body
  <2>2. \A i \in 1..Len(bytes) : bytes[i] \in Letters
    <3> SUFFICES ASSUME NEW i \in 1..Len(bytes) PROVE bytes[i] \in Letters
      OBVIOUS
    <3>1. CASE i = Len(bytes)
      <4>1. bytes # <<>> /\ bytes[i] \in Letters \cup {NewLine}
        BY <1>1
      <4> QED
        BY <1>4, <3>1, <4>1 DEF EndsLine
    <3>2. CASE i # Len(bytes)
      BY <1>1, <1>2, <3>2
    <3> QED
      BY <3>1, <3>2
  <2>3. bytes \in Seq(Letters)
    <3>1. bytes = [i \in 1..Len(bytes) |-> bytes[i]]
      BY <1>1
    <3> QED
      BY <1>1, <2>2, <3>1
  <2> QED
    BY <1>1, <1>4, <2>1, <2>2, <2>3
<1> QED
  BY <1>3, <1>4

\* A read that goes on gets one byte more.
LEMMA BodyAppend ==
    ASSUME ReaderAssumption, NEW bytes, RawOK(bytes), ~EndsLine(bytes), Len(bytes) # ReadSize,
           NEW byte \in Letters \cup {NewLine}
    PROVE  /\ RawOK(Append(bytes, byte)) /\ Body(bytes) = bytes
           /\ Body(Append(bytes, byte)) = IF byte = NewLine THEN bytes ELSE Append(bytes, byte)
<1> DEFINE new == Append(bytes, byte)
<1>1. bytes \in Seq(Letters) /\ Body(bytes) = bytes /\ Len(bytes) \in Nat
  BY BodyFacts DEF Body
<1>2. Len(bytes) <= ReadSize /\ ReadSize \in Nat
  BY DEF RawOK, ReaderAssumption, ReadSize
<1>3. bytes \in Seq(Letters \cup {NewLine})
  BY DEF RawOK
<1>4. /\ new \in Seq(Letters \cup {NewLine}) /\ Len(new) = Len(bytes) + 1
      /\ new[Len(bytes) + 1] = byte /\ \A i \in 1..Len(bytes) : new[i] = bytes[i]
  BY <1>3
<1>5. RawOK(new)
  <2>1. Len(new) <= ReadSize
    BY <1>1, <1>2, <1>4
  <2>2. \A i \in 1..(Len(new) - 1) : new[i] \in Letters
    BY <1>1, <1>4
  <2> HIDE DEF new
  <2> QED
    BY <1>4, <2>1, <2>2 DEF RawOK
<1>6. EndsLine(new) <=> byte = NewLine
  <2>1. new # <<>> /\ new[Len(new)] = byte
    BY <1>1, <1>4
  <2> QED
    BY <2>1 DEF EndsLine
<1>7. SubSeq(new, 1, Len(new) - 1) = bytes
  BY <1>1, <1>3, <1>4
<1> QED
  BY <1>1, <1>5, <1>6, <1>7 DEF Body

\* A set of numbers of 1..n that is not empty has a largest member.
LEMMA LargestOf ==
    ASSUME NEW n \in Nat, NEW S \in SUBSET (1..n), S # {}
    PROVE  Max(S) \in S /\ \A i \in S : i <= Max(S)
<1> DEFINE bounds == {m \in Nat : \A i \in S : i <= m}
<1>0. \A i \in S : i \in Nat /\ i >= 1 /\ i <= n
  OBVIOUS
<1>1. n \in bounds
  BY <1>0
<1>2. bounds \in SUBSET Nat /\ bounds # {}
  BY <1>1
<1> HIDE DEF bounds
<1>3. PICK m \in bounds : \A k \in bounds : m <= k
  BY <1>2, LeastNatural
<1>4. m \in Nat /\ \A i \in S : i <= m
  BY <1>3 DEF bounds
<1>5. m \in S
  <2> SUFFICES ASSUME m \notin S PROVE FALSE
    OBVIOUS
  <2>1. \A i \in S : i \in Nat /\ i >= 1 /\ i <= m /\ i # m
    BY <1>0, <1>4
  <2>2. m - 1 \in Nat /\ \A i \in S : i <= m - 1
    <3>1. PICK i \in S : TRUE
      OBVIOUS
    <3>2. m >= 1
      BY <1>4, <2>1, <3>1
    <3>3. ASSUME NEW k \in S PROVE k <= m - 1
      <4>1. k \in Nat /\ k <= m /\ k # m
        BY <2>1
      <4> QED
        BY <1>4, <4>1
    <3> QED
      BY <1>4, <3>2, <3>3
  <2>3. m - 1 \in bounds
    BY <2>2 DEF bounds
  <2>4. m <= m - 1
    BY <1>3, <2>3
  <2> QED
    BY <1>4, <2>4
<1>6. \E k \in S : \A i \in S : k >= i
  <2>1. ASSUME NEW i \in S PROVE m >= i
    <3>1. i \in Nat /\ i <= m
      BY <1>0, <1>4
    <3> QED
      BY <1>4, <3>1
  <2> QED
    BY <1>5, <2>1
<1>7. Max(S) \in S /\ \A i \in S : Max(S) >= i
  BY <1>6 DEF Max
<1>8. ASSUME NEW i \in S PROVE i <= Max(S)
  <2>1. Max(S) \in Nat /\ i \in Nat /\ Max(S) >= i
    BY <1>0, <1>7
  <2> QED
    BY <2>1
<1> QED
  BY <1>7, <1>8

\* What is left of bytes without the line ends and carriage returns after the last other byte.
LEMMA StrippedFacts ==
    ASSUME NEW S, NEW bytes \in Seq(S)
    PROVE  LET n == Len(Stripped(bytes))
           IN  /\ n \in Nat /\ n <= Len(bytes)
               /\ Stripped(bytes) \in Seq(S)
               /\ \A i \in 1..n : Stripped(bytes)[i] = bytes[i]
               /\ n > 0 => bytes[n] \notin {CarriageReturn, NewLine}
               /\ \A i \in 1..Len(bytes) : i > n => bytes[i] \in {CarriageReturn, NewLine}
<1> DEFINE others == {i \in 1..Len(bytes) : bytes[i] \notin {CarriageReturn, NewLine}}
           n == IF others # {} THEN Max(others) ELSE 0
<1>1. Stripped(bytes) = SubSeq(bytes, 1, n)
  BY DEF Stripped, SelectLastInSeq
<1>2. Len(bytes) \in Nat /\ others \in SUBSET (1..Len(bytes))
  OBVIOUS
<1>3. others # {} => Max(others) \in others /\ \A i \in others : i <= Max(others)
  <2> HIDE DEF others
  <2> QED
    BY <1>2, LargestOf
<1>4. /\ n \in Nat /\ n <= Len(bytes)
      /\ n > 0 => bytes[n] \notin {CarriageReturn, NewLine}
      /\ \A i \in 1..Len(bytes) : i > n => bytes[i] \in {CarriageReturn, NewLine}
  <2>1. CASE others = {}
    BY <1>2, <2>1
  <2>2. CASE others # {}
    <3>1. n \in others /\ \A i \in others : i <= n
      BY <1>3, <2>2
    <3> HIDE DEF n
    <3>2. n \in 1..Len(bytes) /\ bytes[n] \notin {CarriageReturn, NewLine}
      BY <3>1
    <3>3. ASSUME NEW i \in 1..Len(bytes), i > n PROVE bytes[i] \in {CarriageReturn, NewLine}
      <4>1. ~(i <= n)
        BY <3>2, <3>3
      <4> QED
        BY <3>1, <4>1
    <3> QED
      BY <1>2, <3>2, <3>3
  <2> QED
    BY <2>1, <2>2
<1> HIDE DEF n
<1>5. \A i \in 1..n : bytes[i] \in S
  BY <1>2, <1>4
<1>6. /\ SubSeq(bytes, 1, n) \in Seq(S) /\ Len(SubSeq(bytes, 1, n)) = n
      /\ \A i \in 1..n : SubSeq(bytes, 1, n)[i] = bytes[i]
  BY <1>4, <1>5, FirstOf
<1> QED
  BY <1>1, <1>4, <1>6

(* What is recorded of a read: its bytes without the line end, cut to      *)
(* LineBytes, up to the last that is no carriage return.                   *)
LEMMA PayloadFacts ==
    ASSUME ReaderAssumption, NEW bytes, RawOK(bytes)
    PROVE  LET payload == Payload(bytes)
               body == Body(bytes)
               n == Len(payload)
           IN  /\ payload \in Seq(Letters) /\ n \in Nat /\ n <= LineBytes /\ n <= Len(body)
               /\ \A i \in 1..n : payload[i] = body[i]
               /\ n > 0 => body[n] # CarriageReturn
               /\ \A i \in 1..Len(body) : n < i /\ i <= LineBytes => body[i] = CarriageReturn
               /\ Len(body) <= ReadSize
               /\ Len(body) > LineBytes => Len(body) = ReadSize
<1> DEFINE body == Body(bytes)
           size == IF Len(bytes) < LineBytes THEN Len(bytes) ELSE LineBytes
           cut == SubSeq(bytes, 1, size)
           n == Len(Payload(bytes))
<1>1. /\ bytes \in Seq(Letters \cup {NewLine}) /\ Len(bytes) \in Nat /\ Len(bytes) <= LineBytes + 1
      /\ LineBytes \in Nat /\ LineBytes >= 1 /\ ReadSize = LineBytes + 1
  BY DEF RawOK, ReaderAssumption, ReadSize
<1>2. /\ body \in Seq(Letters) /\ Len(body) \in Nat
      /\ Len(body) = IF EndsLine(bytes) THEN Len(bytes) - 1 ELSE Len(bytes)
      /\ \A i \in 1..Len(body) : body[i] = bytes[i] /\ bytes[i] \in Letters
      /\ EndsLine(bytes) => Len(bytes) >= 1 /\ bytes[Len(bytes)] = NewLine
  BY BodyFacts
<1>3. /\ size \in Nat /\ size <= Len(bytes) /\ size <= LineBytes
      /\ \A i \in 1..Len(bytes) : i <= LineBytes => i <= size
  BY <1>1
<1>4. /\ cut \in Seq(Letters \cup {NewLine}) /\ Len(cut) = size
      /\ \A i \in 1..size : cut[i] = bytes[i]
  <2> HIDE DEF size
  <2>1. \A i \in 1..size : bytes[i] \in Letters \cup {NewLine}
    BY <1>1, <1>3
  <2> QED
    BY <1>1, <1>3, <2>1, FirstOf
<1>5. Payload(bytes) = Stripped(cut)
  BY DEF Payload, First
<1>6. NewLine \notin Letters /\ CarriageReturn \in Letters
  BY DEF ReaderAssumption
<1> HIDE DEF body, cut, size
<1>7. /\ n \in Nat /\ n <= size
      /\ Payload(bytes) \in Seq(Letters \cup {NewLine})
      /\ \A i \in 1..n : Payload(bytes)[i] = cut[i]
      /\ n > 0 => cut[n] \notin {CarriageReturn, NewLine}
      /\ \A i \in 1..size : i > n => cut[i] \in {CarriageReturn, NewLine}
  BY <1>4, <1>5, StrippedFacts
<1> DEFINE payload == Payload(bytes)
<1> HIDE DEF n, payload
<1>8. n <= Len(body)
  <2>1. CASE n = 0
    BY <1>2, <2>1
  <2>2. CASE n > 0
    <3>1. n \in 1..size /\ n \in 1..Len(bytes)
      BY <1>1, <1>3, <1>7, <2>2
    <3>2. bytes[n] # NewLine
      BY <1>4, <1>7, <2>2, <3>1
    <3>3. EndsLine(bytes) => n # Len(bytes)
      BY <1>2, <3>2
    <3> QED
      BY <1>1, <1>2, <3>1, <3>3
  <2> QED
    BY <1>7, <2>1, <2>2
<1>9. \A i \in 1..n : i \in 1..size /\ i \in 1..Len(body)
  BY <1>2, <1>3, <1>7, <1>8
<1>10. \A i \in 1..n : payload[i] = body[i] /\ payload[i] \in Letters
  BY <1>2, <1>4, <1>7, <1>9 DEF payload
<1>11. payload \in Seq(Letters)
  <2>1. payload \in Seq(Letters \cup {NewLine}) /\ Len(payload) = n
    BY <1>7 DEF payload, n
  <2>2. payload = [i \in 1..n |-> payload[i]]
    BY <2>1
  <2> QED
    BY <1>7, <1>10, <2>2
<1>12. n > 0 => body[n] # CarriageReturn
  <2> SUFFICES ASSUME n > 0 PROVE body[n] # CarriageReturn
    OBVIOUS
  <2>1. n \in 1..n
    BY <1>7
  <2>2. n \in 1..size /\ n \in 1..Len(body)
    BY <1>9, <2>1
  <2> QED
    BY <1>2, <1>4, <1>7, <2>2
<1>13. ASSUME NEW i \in 1..Len(body), n < i, i <= LineBytes PROVE body[i] = CarriageReturn
  <2>1. i \in 1..Len(bytes)
    BY <1>1, <1>2
  <2>2. i \in 1..size
    BY <1>3, <1>13, <2>1
  <2>3. bytes[i] \in {CarriageReturn, NewLine}
    BY <1>4, <1>7, <1>13, <2>2
  <2> QED
    BY <1>2, <1>6, <2>3
<1>14. /\ Len(body) <= ReadSize
       /\ Len(body) > LineBytes => Len(body) = ReadSize
  BY <1>1, <1>2
<1>15. n <= LineBytes
  BY <1>3, <1>7, <1>1
<1> QED
  BY <1>7, <1>8, <1>10, <1>11, <1>12, <1>13, <1>14, <1>15 DEF body, n, payload

\* The line after a read returned.
AfterRead(line, bytes, timeout) ==
    [line EXCEPT !.past = Len(line.sent),
                 !.kept = @ \cup {line.past + i : i \in 1..Len(Payload(bytes))},
                 !.records = IF Payload(bytes) = <<>> THEN @ ELSE @ + 1,
                 !.late = @ \/ timeout]

\* The parts of that line.
LEMMA AfterReadParts ==
    ASSUME ReaderAssumption, NEW line \in LineRecord, NEW bytes, RawOK(bytes),
           NEW timeout \in BOOLEAN
    PROVE  LET new == AfterRead(line, bytes, timeout)
           IN  /\ new \in LineRecord
               /\ new.sent = line.sent /\ new.past = Len(line.sent)
               /\ new.kept = line.kept \cup {line.past + i : i \in 1..Len(Payload(bytes))}
               /\ new.records = IF Payload(bytes) = <<>> THEN line.records ELSE line.records + 1
               /\ new.late = (line.late \/ timeout)
<1> DEFINE more == {line.past + i : i \in 1..Len(Payload(bytes))}
           records == IF Payload(bytes) = <<>> THEN line.records ELSE line.records + 1
           new == AfterRead(line, bytes, timeout)
<1>1. /\ line.sent \in Seq(Letters) /\ Len(line.sent) \in Nat /\ line.past \in Nat
      /\ line.kept \in SUBSET Nat /\ line.records \in Nat /\ line.late \in BOOLEAN
  BY LineParts
<1>2. Len(Payload(bytes)) \in Nat
  BY PayloadFacts
<1>3. more \in SUBSET Nat
  BY <1>1, <1>2
<1>4. records \in Nat
  BY <1>1
<1>5. new = [line EXCEPT !.past = Len(line.sent), !.kept = line.kept \cup more,
                         !.records = records, !.late = line.late \/ timeout]
  BY DEF AfterRead
<1> HIDE DEF more, records, new
<1>6. line.kept \cup more \in SUBSET Nat /\ (line.late \/ timeout) \in BOOLEAN
  BY <1>1, <1>3
<1>7. line \in [sent : Seq(Letters), past : Nat, kept : SUBSET Nat, records : Nat, late : BOOLEAN]
  BY DEF LineRecord
<1>8. new \in LineRecord
  BY <1>1, <1>4, <1>5, <1>6, <1>7 DEF LineRecord
<1>9. /\ new.sent = line.sent /\ new.past = Len(line.sent) /\ new.kept = line.kept \cup more
      /\ new.records = records /\ new.late = (line.late \/ timeout)
  BY <1>5, <1>7
<1> QED
  BY <1>8, <1>9 DEF more, records, new

\* A read that returns loses of its line no more than carriage returns and a byte past its limit.
LEMMA ReadLoses ==
    ASSUME ReaderAssumption, NEW line \in LineRecord, NEW bytes, RawOK(bytes),
           Reading(line, Body(bytes)), Recorded(line), NEW timeout \in BOOLEAN
    PROVE  LET new == AfterRead(line, bytes, timeout)
           IN  /\ \A i \in Missing(new) : i > LineBytes
               /\ \A i, j \in Missing(new) : i < j => i + LineBytes < j
<1> DEFINE body == Body(bytes)
           n == Len(Payload(bytes))
           new == AfterRead(line, bytes, timeout)
           all == Len(line.sent)
           past == line.past
           size == Len(body)
<1>1. all \in Nat /\ past \in Nat /\ line.kept \in SUBSET Nat
  BY LineParts
<1>2. new.sent = line.sent /\ new.past = all /\ new.kept = line.kept \cup {past + i : i \in 1..n}
  BY AfterReadParts
<1>3. /\ n \in Nat /\ size \in Nat
      /\ \A i \in 1..size : n < i /\ i <= LineBytes => body[i] = CarriageReturn
      /\ size > LineBytes => size = LineBytes + 1
      /\ size <= LineBytes + 1
      /\ LineBytes \in Nat
  BY BodyFacts, PayloadFacts DEF ReaderAssumption, ReadSize
<1>4. all = past + size /\ \A i \in 1..size : body[i] = line.sent[past + i]
  BY DEF Reading
<1>5. /\ \A i \in Missing(line) : i > LineBytes
      /\ \A i, j \in Missing(line) : i < j => i + LineBytes < j
  BY DEF Recorded
<1> HIDE DEF body, n, new, all, past, size
<1>6. \A i \in Missing(line) : i \in 1..past
  BY DEF Missing, past
<1>7. ASSUME NEW i \in Missing(new), i \notin Missing(line)
      PROVE  i = past + LineBytes + 1 /\ size = LineBytes + 1
  <2>1. i \in 1..all /\ i \notin line.kept /\ i \notin {past + k : k \in 1..n}
        /\ line.sent[i] # CarriageReturn
    BY <1>2, <1>7 DEF Missing
  <2>2. i \notin 1..past
    BY <1>7, <2>1 DEF Missing, past
  <2>3. i - past \in 1..size /\ past + (i - past) = i
    BY <1>1, <1>3, <1>4, <2>1, <2>2
  <2>4. i - past \notin 1..n
    BY <2>1, <2>3
  <2>5. body[i - past] # CarriageReturn
    BY <1>4, <2>1, <2>3
  <2>6. n < i - past
    BY <1>1, <1>3, <2>1, <2>3, <2>4
  <2>7. ~(i - past <= LineBytes)
    BY <1>3, <2>3, <2>5, <2>6
  <2>8. i \in Nat
    BY <1>1, <2>1
  <2> QED
    BY <1>1, <1>3, <2>3, <2>7, <2>8
<1>8. ASSUME NEW i \in Missing(new) PROVE i \in Nat /\ i > LineBytes
  <2>1. CASE i \in Missing(line)
    BY <1>1, <1>5, <1>6, <2>1
  <2>2. CASE i \notin Missing(line)
    BY <1>1, <1>3, <1>7, <2>2
  <2> QED
    BY <2>1, <2>2
<1>9. ASSUME NEW i \in Missing(new), NEW j \in Missing(new), i < j PROVE i + LineBytes < j
  <2>1. CASE i \in Missing(line) /\ j \in Missing(line)
    BY <1>5, <1>9, <2>1
  <2>2. CASE i \in Missing(line) /\ j \notin Missing(line)
    BY <1>1, <1>3, <1>6, <1>7, <2>2
  <2>3. CASE i \notin Missing(line) /\ j \in Missing(line)
    <3>1. i = past + LineBytes + 1 /\ j \in 1..past
      BY <1>6, <1>7, <2>3
    <3> QED
      BY <1>1, <1>3, <1>9, <3>1
  <2>4. CASE i \notin Missing(line) /\ j \notin Missing(line)
    <3>1. i = past + LineBytes + 1 /\ j = past + LineBytes + 1
      BY <1>7, <2>4
    <3> QED
      BY <1>1, <1>3, <1>9, <3>1
  <2> QED
    BY <2>1, <2>2, <2>3, <2>4
<1> QED
  BY <1>8, <1>9 DEF new

\* A text that fits is one record when no read of its line was late.
LEMMA ReadIsOneRecord ==
    ASSUME ReaderAssumption, NEW line \in LineRecord, NEW bytes, RawOK(bytes), Heard(line, bytes),
           NEW timeout \in BOOLEAN
    PROVE  OneRecord(AfterRead(line, bytes, timeout))
<1> DEFINE body == Body(bytes)
           payload == Payload(bytes)
           n == Len(payload)
           new == AfterRead(line, bytes, timeout)
           all == Len(line.sent)
           past == line.past
           size == Len(body)
<1>1. /\ all \in Nat /\ past \in Nat /\ line.kept \in SUBSET Nat /\ line.records \in Nat
      /\ line.late \in BOOLEAN
  BY LineParts
<1>2. /\ new.sent = line.sent /\ new.past = all /\ new.kept = line.kept \cup {past + i : i \in 1..n}
      /\ new.records = IF payload = <<>> THEN line.records ELSE line.records + 1
      /\ new.late = (line.late \/ timeout)
  BY AfterReadParts
<1>3. /\ payload \in Seq(Letters) /\ n \in Nat /\ n <= LineBytes /\ n <= size /\ size \in Nat
      /\ n > 0 => body[n] # CarriageReturn
      /\ \A i \in 1..size : n < i /\ i <= LineBytes => body[i] = CarriageReturn
      /\ LineBytes \in Nat
  BY BodyFacts, PayloadFacts DEF ReaderAssumption
<1>4. all = past + size /\ \A i \in 1..size : body[i] = line.sent[past + i]
  BY DEF Heard, Reading
<1>5. payload = <<>> <=> n = 0
  BY <1>3
<1>6. /\ OneRecord(line)
      /\ ~line.late => \/ past = 0 /\ line.kept = {} /\ line.records = 0
                       \/ past > LineBytes
  BY DEF Heard, Recorded
<1> HIDE DEF body, payload, n, new, all, past, size
<1> SUFFICES ASSUME ~new.late, NEW k \in 1..LineBytes, TextEnds(new, k)
             PROVE  new.kept = 1..k /\ new.records = 1
  BY DEF OneRecord, new
<1>7. /\ k \in 1..all /\ line.sent[k] # CarriageReturn
      /\ \A i \in 1..all : i > k => line.sent[i] = CarriageReturn
  BY <1>2 DEF TextEnds
<1>8. ~line.late
  BY <1>1, <1>2
<1>9. CASE past = 0 /\ line.kept = {} /\ line.records = 0
  <2>1. size = all /\ \A i \in 1..size : body[i] = line.sent[i]
    BY <1>1, <1>3, <1>4, <1>9
  <2>2. n >= k
    <3> SUFFICES ASSUME n < k PROVE FALSE
      BY <1>3
    <3>1. k \in 1..size /\ k <= LineBytes
      BY <1>7, <2>1
    <3> QED
      BY <1>3, <1>7, <2>1, <3>1
  <2>3. n <= k
    <3> SUFFICES ASSUME n > k PROVE FALSE
      BY <1>3
    <3>1. n \in 1..size /\ n \in 1..all /\ n > 0
      BY <1>3, <2>1
    <3> QED
      BY <1>3, <1>7, <2>1, <3>1
  <2>4. n = k /\ n > 0
    BY <1>3, <2>2, <2>3
  <2>5. {past + i : i \in 1..n} = 1..k
    <3>1. \A i \in 1..n : past + i = i
      BY <1>3, <1>9
    <3> QED
      BY <2>4, <3>1
  <2> QED
    BY <1>2, <1>5, <1>9, <2>4, <2>5
<1>10. CASE past > LineBytes
  <2>1. k \in 1..past /\ past <= all
    BY <1>1, <1>3, <1>4, <1>10
  <2>2. TextEnds(line, k)
    <3>1. \A i \in 1..past : i \in 1..all
      BY <1>1, <2>1
    <3> QED
      BY <1>7, <2>1, <3>1 DEF TextEnds, past
  <2>3. line.kept = 1..k /\ line.records = 1
    BY <1>6, <1>8, <2>2 DEF OneRecord
  <2>4. n = 0
    <3> SUFFICES ASSUME n > 0 PROVE FALSE
      BY <1>3
    <3>1. n \in 1..size /\ past + n \in 1..all /\ past + n > k
      BY <1>1, <1>3, <1>4, <1>10
    <3>2. body[n] = line.sent[past + n]
      BY <1>4, <3>1
    <3> QED
      BY <1>3, <1>7, <3>1, <3>2
  <2>5. {past + i : i \in 1..n} = {}
    BY <2>4
  <2> QED
    BY <1>2, <1>5, <2>3, <2>4, <2>5
<1> QED
  BY <1>6, <1>8, <1>9, <1>10

\* A read that returns has recorded its line well.
LEMMA ReadRecords ==
    ASSUME ReaderAssumption, NEW line \in LineRecord, NEW bytes, RawOK(bytes), Heard(line, bytes),
           NEW timeout \in BOOLEAN
    PROVE  WellRead(AfterRead(line, bytes, timeout))
<1> DEFINE new == AfterRead(line, bytes, timeout)
<1>1. new.past = Len(new.sent)
  BY AfterReadParts
<1>2. /\ \A i \in Missing(new) : i > LineBytes
      /\ \A i, j \in Missing(new) : i < j => i + LineBytes < j
  BY ReadLoses DEF Heard
<1>3. OneRecord(new)
  BY ReadIsOneRecord
<1> HIDE DEF new
<1>4. WellRead(new)
  BY <1>1, <1>2, <1>3 DEF WellRead, Recorded
<1> QED
  BY <1>4 DEF new

\* A line whose read was not its last goes on with nothing of it read.
LEMMA LineGoesOn ==
    ASSUME ReaderAssumption, NEW line \in LineRecord, NEW bytes, RawOK(bytes), Heard(line, bytes),
           ~EndsLine(bytes), NEW timeout \in BOOLEAN, timeout \/ Len(bytes) = ReadSize
    PROVE  Heard(AfterRead(line, bytes, timeout), <<>>)
<1> DEFINE new == AfterRead(line, bytes, timeout)
<1>1. /\ new.past = Len(new.sent) /\ new.late = (line.late \/ timeout)
      /\ new.sent = line.sent
  BY AfterReadParts
<1>2. Len(line.sent) \in Nat /\ line.past \in Nat /\ line.late \in BOOLEAN
  BY LineParts
<1>3. Recorded(new)
  BY ReadRecords DEF WellRead
<1>4. Body(<<>>) = <<>> /\ Len(<<>>) = 0
  BY DEF Body, EndsLine
<1>5. ~new.late => new.past > LineBytes
  <2> SUFFICES ASSUME ~new.late PROVE new.past > LineBytes
    OBVIOUS
  <2>1. Len(bytes) = ReadSize
    BY <1>1
  <2>2. Len(Body(bytes)) = ReadSize
    BY <2>1, BodyFacts
  <2>3. Len(line.sent) = line.past + ReadSize
    BY <2>2 DEF Heard, Reading
  <2>4. LineBytes \in Nat /\ ReadSize = LineBytes + 1
    BY DEF ReaderAssumption, ReadSize
  <2> HIDE DEF new
  <2> QED
    BY <1>1, <1>2, <2>3, <2>4
<1>6. Reading(new, <<>>)
  <2>1. new.past = new.past + 0
    BY <1>1, <1>2
  <2> HIDE DEF new
  <2> QED
    BY <1>1, <1>4, <2>1 DEF Reading
<1> HIDE DEF new
<1>7. Heard(new, <<>>)
  BY <1>3, <1>4, <1>5, <1>6 DEF Heard
<1> QED
  BY <1>7 DEF new

\* The device sends a byte more: what was read of the line before stays read.
LEMMA ByteIsHeard ==
    ASSUME ReaderAssumption, NEW line \in LineRecord, NEW bytes, RawOK(bytes), Heard(line, bytes),
           ~EndsLine(bytes), Len(bytes) # ReadSize, NEW byte \in Letters \cup {NewLine}
    PROVE  LET new == IF byte = NewLine THEN line ELSE [line EXCEPT !.sent = Append(@, byte)]
           IN  new \in LineRecord /\ Heard(new, Append(bytes, byte))
<1>1. /\ Body(bytes) = bytes
      /\ Body(Append(bytes, byte)) = IF byte = NewLine THEN bytes ELSE Append(bytes, byte)
  BY BodyAppend
<1>2. CASE byte = NewLine
  BY <1>1, <1>2 DEF Heard
<1>3. CASE byte # NewLine
  <2> DEFINE new == [line EXCEPT !.sent = Append(@, byte)]
             past == line.past
  <2>1. byte \in Letters /\ line.sent \in Seq(Letters) /\ past \in Nat
    BY <1>3, LineParts
  <2>2. /\ new \in LineRecord /\ new.sent = Append(line.sent, byte) /\ new.past = past
        /\ new.kept = line.kept /\ new.records = line.records /\ new.late = line.late
    <3> line \in [sent : Seq(Letters), past : Nat, kept : SUBSET Nat, records : Nat, late : BOOLEAN]
      BY DEF LineRecord
    <3> DEFINE longer == Append(line.sent, byte)
    <3>1. longer \in Seq(Letters)
      BY <2>1
    <3>2. new = [line EXCEPT !.sent = longer]
      OBVIOUS
    <3> HIDE DEF longer, new
    <3>3. new \in [sent : Seq(Letters), past : Nat, kept : SUBSET Nat, records : Nat,
                   late : BOOLEAN]
      BY <3>1, <3>2
    <3>4. /\ new.sent = longer /\ new.past = line.past
          /\ new.kept = line.kept /\ new.records = line.records /\ new.late = line.late
      BY <3>2
    <3> QED
      BY <3>3, <3>4 DEF LineRecord, longer, past
  <2>3. bytes \in Seq(Letters) /\ Len(bytes) \in Nat
    BY <1>1, BodyFacts
  <2>4. Len(line.sent) = past + Len(bytes) /\ \A i \in 1..Len(bytes) : bytes[i] = line.sent[past + i]
    BY <1>1 DEF Heard, Reading
  <2>5. /\ Len(Append(bytes, byte)) = Len(bytes) + 1 /\ Append(bytes, byte)[Len(bytes) + 1] = byte
        /\ \A i \in 1..Len(bytes) : Append(bytes, byte)[i] = bytes[i]
    BY <2>1, <2>3, AppendProperties
  <2>6. /\ Len(new.sent) = Len(line.sent) + 1 /\ new.sent[Len(line.sent) + 1] = byte
        /\ \A i \in 1..Len(line.sent) : new.sent[i] = line.sent[i]
    <3> HIDE DEF new
    <3> QED
      BY <2>1, <2>2, AppendProperties
  <2> HIDE DEF new, past
  <2>7. Reading(new, Append(bytes, byte))
    <3>1. Len(new.sent) = past + Len(Append(bytes, byte))
      BY <2>1, <2>3, <2>4, <2>5, <2>6
    <3>2. ASSUME NEW i \in 1..(Len(bytes) + 1) PROVE Append(bytes, byte)[i] = new.sent[past + i]
      <4>1. CASE i = Len(bytes) + 1
        <5>1. past + i = Len(line.sent) + 1
          BY <2>1, <2>3, <2>4, <4>1
        <5> QED
          BY <2>5, <2>6, <4>1, <5>1
      <4>2. CASE i # Len(bytes) + 1
        <5>1. i \in 1..Len(bytes) /\ past + i \in 1..Len(line.sent)
          BY <2>1, <2>3, <2>4, <4>2
        <5> QED
          BY <2>4, <2>5, <2>6, <5>1
      <4> QED
        BY <4>1, <4>2
    <3> QED
      BY <2>2, <2>5, <3>1, <3>2 DEF Reading
  <2>8. \A i \in 1..past : new.sent[i] = line.sent[i]
    <3>1. \A i \in 1..past : i \in 1..Len(line.sent)
      BY <2>1, <2>3, <2>4
    <3> QED
      BY <2>6, <3>1
  <2>9. Missing(new) = Missing(line)
    BY <2>2, <2>8 DEF Missing, past
  <2>10. \A k \in 1..LineBytes : TextEnds(new, k) => TextEnds(line, k)
    BY <2>2, <2>8 DEF TextEnds, past
  <2>11. OneRecord(new)
    BY <2>2, <2>10 DEF OneRecord, Heard, Recorded
  <2>12. Recorded(new)
    BY <2>9, <2>11 DEF Heard, Recorded
  <2>13. Heard(new, Append(bytes, byte))
    BY <1>1, <1>3, <2>2, <2>7, <2>12 DEF Heard, past
  <2> QED
    BY <1>3, <2>2, <2>13 DEF new
<1> QED
  BY <1>2, <1>3

-----------------------------------------------------------------------------
(* The lines of the device, step by step                                   *)

\* Between two reads nothing is had, and a new line has nothing of it recorded.
LEMMA NewLineIsHeard ==
    ASSUME ReaderAssumption
    PROVE  RawOK(<<>>) /\ NewLineHistory \in LineRecord /\ Heard(NewLineHistory, <<>>)
<1>1. LineBytes \in Nat /\ ReadSize = LineBytes + 1
  BY DEF ReaderAssumption, ReadSize
<1>2. RawOK(<<>>)
  BY <1>1 DEF RawOK
<1>3. NewLineHistory \in LineRecord
  BY DEF NewLineHistory, LineRecord
<1>4. Body(<<>>) = <<>>
  BY DEF Body, EndsLine
<1>5. /\ NewLineHistory.sent = <<>> /\ NewLineHistory.past = 0 /\ NewLineHistory.kept = {}
      /\ NewLineHistory.records = 0 /\ Len(<<>>) = 0
  BY DEF NewLineHistory
<1> HIDE DEF NewLineHistory
<1>6. Reading(NewLineHistory, <<>>)
  BY <1>5 DEF Reading
<1>7. Recorded(NewLineHistory)
  <2>1. Missing(NewLineHistory) = {} /\ \A k \in 1..LineBytes : ~TextEnds(NewLineHistory, k)
    BY <1>5 DEF Missing, TextEnds
  <2> QED
    BY <2>1 DEF Recorded, OneRecord
<1>8. Heard(NewLineHistory, <<>>)
  BY <1>4, <1>5, <1>6, <1>7 DEF Heard
<1> QED
  BY <1>2, <1>3, <1>8

\* The last element of a sequence is another one.
LEMMA LastChanges ==
    ASSUME NEW S, NEW s \in Seq(S), s # <<>>, NEW x \in S
    PROVE  LET new == [s EXCEPT ![Len(s)] = x]
           IN  /\ new \in Seq(S) /\ new # <<>> /\ Len(new) = Len(s) /\ new[Len(s)] = x
               /\ \A i \in 1..(Len(s) - 1) : new[i] = s[i]
               /\ Len(s) \in Nat /\ Len(s) >= 1 /\ s[Len(s)] \in S
<1>1. Len(s) \in Nat /\ Len(s) >= 1 /\ s[Len(s)] \in S /\ s \in [1..Len(s) -> S]
  OBVIOUS
<1> DEFINE n == Len(s)
           new == [s EXCEPT ![n] = x]
<1>2. n \in Nat /\ n >= 1 /\ s \in [1..n -> S]
  BY <1>1
<1> HIDE DEF n
<1>3. /\ new \in [1..n -> S] /\ new[n] = x
      /\ \A i \in 1..(n - 1) : new[i] = s[i]
  BY <1>2
<1> HIDE DEF new
<1>4. new \in Seq(S) /\ Len(new) = n
  BY <1>2, <1>3
<1>5. new # <<>>
  BY <1>2, <1>4
<1> QED
  BY <1>1, <1>3, <1>4, <1>5 DEF n, new

\* The reader begins with nothing read of a new line.
LEMMA ReaderStart ==
    ASSUME ReaderAssumption, raw = <<>>, lines = <<NewLineHistory>>, sent \in Nat
    PROVE  ReaderInv
<1>1. RawOK(raw) /\ NewLineHistory \in LineRecord /\ Heard(NewLineHistory, raw)
  BY NewLineIsHeard
<1>2. lines \in Seq(LineRecord) /\ lines # <<>> /\ Len(lines) = 1 /\ lines[1] = NewLineHistory
  BY <1>1
<1>3. Over = {}
  BY <1>2 DEF Over
<1> QED
  BY <1>1, <1>2, <1>3 DEF ReaderInv

\* A line that goes on takes its last place; the lines before stay.
LEMMA SameLine ==
    ASSUME ReaderInv, NEW new \in LineRecord, lines' = [lines EXCEPT ![Len(lines)] = new],
           RawOK(raw'), sent' \in Nat, Heard(new, raw')
    PROVE  ReaderInv'
<1>1. lines \in Seq(LineRecord) /\ lines # <<>> /\ \A line \in Over : WellRead(line)
  BY DEF ReaderInv
<1>2. /\ lines' \in Seq(LineRecord) /\ lines' # <<>> /\ Len(lines') = Len(lines)
      /\ lines'[Len(lines)] = new /\ \A i \in 1..(Len(lines) - 1) : lines'[i] = lines[i]
  BY <1>1, LastChanges
<1>3. Over' = Over
  BY <1>2 DEF Over
<1>4. Heard(lines'[Len(lines')], raw')
  BY <1>2
<1> QED
  BY <1>1, <1>2, <1>3, <1>4 DEF ReaderInv

\* A line that was read to its end joins those that are over, and a new one begins.
LEMMA LineEnds ==
    ASSUME ReaderAssumption, ReaderInv, NEW new \in LineRecord, WellRead(new),
           lines' = Append([lines EXCEPT ![Len(lines)] = new], NewLineHistory),
           raw' = <<>>, sent' \in Nat
    PROVE  ReaderInv'
<1> DEFINE heard == [lines EXCEPT ![Len(lines)] = new]
<1>1. lines \in Seq(LineRecord) /\ lines # <<>> /\ \A line \in Over : WellRead(line)
  BY DEF ReaderInv
<1>2. /\ heard \in Seq(LineRecord) /\ Len(heard) = Len(lines) /\ heard[Len(lines)] = new
      /\ Len(lines) \in Nat /\ \A i \in 1..(Len(lines) - 1) : heard[i] = lines[i]
  BY <1>1, LastChanges
<1>3. RawOK(raw') /\ NewLineHistory \in LineRecord /\ Heard(NewLineHistory, raw')
  BY NewLineIsHeard
<1>4. lines' = Append(heard, NewLineHistory)
  OBVIOUS
<1> HIDE DEF heard
<1>5. /\ lines' \in Seq(LineRecord) /\ Len(lines') = Len(lines) + 1
      /\ lines'[Len(lines) + 1] = NewLineHistory /\ \A i \in 1..Len(lines) : lines'[i] = heard[i]
  <2> DEFINE next == Append(heard, NewLineHistory)
  <2>1. /\ next \in Seq(LineRecord) /\ Len(next) = Len(heard) + 1
        /\ next[Len(heard) + 1] = NewLineHistory
        /\ \A i \in 1..Len(heard) : next[i] = heard[i]
    BY <1>2, <1>3, AppendProperties
  <2> HIDE DEF next
  <2> QED
    BY <1>2, <1>4, <2>1 DEF next
<1>6. lines' # <<>> /\ Len(lines') - 1 = Len(lines)
  BY <1>2, <1>5
<1>7. ASSUME NEW line \in Over' PROVE WellRead(line)
  <2>1. PICK i \in 1..Len(lines) : line = lines'[i]
    BY <1>6, <1>7 DEF Over
  <2>2. CASE i = Len(lines)
    BY <1>2, <1>5, <2>1, <2>2
  <2>3. CASE i # Len(lines)
    <3>1. i \in 1..(Len(lines) - 1)
      BY <1>2, <2>3
    <3>2. line = lines[i]
      BY <1>2, <1>5, <2>1, <3>1
    <3>3. line \in Over
      BY <3>1, <3>2 DEF Over
    <3> QED
      BY <1>1, <3>3
  <2> QED
    BY <2>2, <2>3
<1>8. Heard(lines'[Len(lines')], raw')
  BY <1>3, <1>5
<1>9. \A line \in Over' : WellRead(line)
  BY <1>7
<1> QED
  BY <1>3, <1>5, <1>6, <1>8, <1>9 DEF ReaderInv, WellRead

\* read_until gets a byte.
LEMMA ReadByteStep ==
    ASSUME ReaderAssumption, ReaderInv, NEW byte \in Letters \cup {NewLine}, ReadByte(byte)
    PROVE  ReaderInv'
<1> DEFINE line == lines[Len(lines)]
           new == IF byte = NewLine THEN line ELSE [line EXCEPT !.sent = Append(@, byte)]
<1>1. /\ lines \in Seq(LineRecord) /\ lines # <<>> /\ RawOK(raw) /\ sent \in Nat
      /\ Heard(line, raw)
  BY DEF ReaderInv
<1>2. line \in LineRecord
  BY <1>1, LastChanges
<1>3. /\ ~EndsLine(raw) /\ Len(raw) # ReadSize /\ sent' = sent + 1
      /\ raw' = Append(raw, byte)
      /\ lines' = IF byte = NewLine THEN lines
                  ELSE [lines EXCEPT ![Len(lines)].sent = Append(@, byte)]
  BY DEF ReadByte
<1>4. RawOK(raw')
  BY <1>1, <1>3, BodyAppend
<1>5. new \in LineRecord /\ Heard(new, raw')
  <2>1. new \in LineRecord /\ Heard(new, Append(raw, byte))
    <3> HIDE DEF line
    <3> QED
      BY <1>1, <1>2, <1>3, ByteIsHeard
  <2> QED
    BY <1>3, <2>1
<1>6. lines' = [lines EXCEPT ![Len(lines)] = new]
  <2>1. CASE byte = NewLine
    <3>1. lines = [lines EXCEPT ![Len(lines)] = lines[Len(lines)]]
      BY <1>1
    <3> QED
      BY <1>3, <2>1, <3>1
  <2>2. CASE byte # NewLine
    BY <1>3, <2>2
  <2> QED
    BY <2>1, <2>2
<1>7. sent' \in Nat
  BY <1>1, <1>3
<1> HIDE DEF new
<1> QED
  BY <1>4, <1>5, <1>6, <1>7, SameLine

\* read_until returns, at the end of a line, when it is full or when its time is over.
LEMMA ReadReturnsStep ==
    ASSUME ReaderAssumption, ReaderInv, NEW timeout \in BOOLEAN, ReadReturns(timeout),
           EndsLine(raw) => ~timeout, timeout \/ EndsLine(raw) \/ Len(raw) = ReadSize
    PROVE  ReaderInv'
<1> DEFINE line == lines[Len(lines)]
           new == AfterRead(line, raw, timeout)
<1>1. /\ lines \in Seq(LineRecord) /\ lines # <<>> /\ RawOK(raw) /\ sent \in Nat
      /\ Heard(line, raw)
  BY DEF ReaderInv
<1>2. line \in LineRecord
  BY <1>1, LastChanges
<1>3. /\ raw' = <<>> /\ sent' = sent
      /\ lines' = IF EndsLine(raw) THEN Append([lines EXCEPT ![Len(lines)] = new], NewLineHistory)
                  ELSE [lines EXCEPT ![Len(lines)] = new]
  BY DEF ReadReturns, AfterRead
<1>4. sent' \in Nat /\ RawOK(raw')
  BY <1>1, <1>3, NewLineIsHeard
<1> HIDE DEF line
<1>5. new \in LineRecord
  BY <1>1, <1>2, AfterReadParts
<1>6. CASE EndsLine(raw)
  <2>1. WellRead(new)
    BY <1>1, <1>2, ReadRecords
  <2> HIDE DEF new
  <2> QED
    BY <1>3, <1>4, <1>5, <1>6, <2>1, LineEnds
<1>7. CASE ~EndsLine(raw)
  <2>1. Heard(new, raw')
    <3>1. timeout \/ Len(raw) = ReadSize
      BY <1>7
    <3>2. Heard(new, <<>>)
      BY <1>1, <1>2, <1>7, <3>1, LineGoesOn
    <3> HIDE DEF new
    <3> QED
      BY <1>3, <3>2
  <2> HIDE DEF new
  <2> QED
    BY <1>3, <1>4, <1>5, <1>7, <2>1, SameLine
<1> QED
  BY <1>6, <1>7

\* Everything else leaves the reader alone.
LEMMA ReaderStays ==
    ASSUME ReaderInv, UNCHANGED readerVars
    PROVE  ReaderInv'
<1>1. raw' = raw /\ sent' = sent /\ lines' = lines
  BY DEF readerVars
<1>2. Over' = Over
  BY <1>1 DEF Over
<1> QED
  BY <1>1, <1>2 DEF ReaderInv, WellRead

\* The invariant is kept by every step of the system.
LEMMA ReaderStep ==
    ASSUME ReaderAssumption, ReaderInv, [AgentNext]_allVars
    PROVE  ReaderInv'
<1>1. CASE \E byte \in Letters \cup {NewLine} : ReadByte(byte)
  BY <1>1, ReadByteStep
<1>2. CASE EndRead
  <2>1. FALSE \in BOOLEAN /\ ReadReturns(FALSE) /\ (EndsLine(raw) \/ Len(raw) = ReadSize)
    BY <1>2 DEF EndRead, Complete
  <2> QED
    BY <2>1, ReadReturnsStep
<1>3. CASE TimeOutRead
  <2>1. TRUE \in BOOLEAN /\ ReadReturns(TRUE) /\ ~EndsLine(raw)
    BY <1>3 DEF TimeOutRead, Complete
  <2> QED
    BY <2>1, ReadReturnsStep
<1>4. CASE OthersRecord
  BY <1>4, ReaderStays DEF OthersRecord
<1>5. CASE ClientStep /\ UNCHANGED readerVars
  BY <1>5, ReaderStays
<1>6. CASE AgentRestart
  <2>1. raw' = <<>> /\ lines' = <<NewLineHistory>> /\ sent' = sent /\ sent \in Nat
    BY <1>6 DEF AgentRestart, ReaderInv
  <2>2. RawOK(raw') /\ NewLineHistory \in LineRecord /\ Heard(NewLineHistory, raw')
    BY <2>1, NewLineIsHeard
  <2>3. /\ lines' \in Seq(LineRecord) /\ lines' # <<>> /\ Len(lines') = 1
        /\ lines'[1] = NewLineHistory
    BY <2>1, <2>2
  <2>4. Over' = {}
    BY <2>3 DEF Over
  <2> QED
    BY <2>1, <2>2, <2>3, <2>4 DEF ReaderInv
<1>7. CASE UNCHANGED allVars
  BY <1>7, ReaderStays DEF allVars
<1> QED
  BY <1>1, <1>2, <1>3, <1>4, <1>5, <1>6, <1>7 DEF AgentNext

\* The invariant says what the properties say.
LEMMA ReaderInvSays ==
    ASSUME ReaderAssumption, ReaderInv
    PROVE  ReaderTypeOK /\ LinesAreComplete /\ WholeLineIsOneRecord
<1>1. ReaderTypeOK
  BY DEF ReaderInv, RawOK, ReadSize, ReaderTypeOK, LineRecord
<1>2. \A line \in Over : line \in LineRecord /\ WellRead(line)
  BY DEF ReaderInv, Over
<1>3. \A line \in Over : Lost(line) = Missing(line)
  BY <1>2 DEF WellRead, Lost, Missing
<1>4. LinesAreComplete
  BY <1>2, <1>3 DEF WellRead, Recorded, LinesAreComplete
<1>5. WholeLineIsOneRecord
  <2> SUFFICES ASSUME NEW line \in Over, ~line.late, Len(Stripped(line.sent)) \in 1..LineBytes
               PROVE  line.records = 1 /\ line.kept = 1..Len(Stripped(line.sent))
    BY DEF WholeLineIsOneRecord
  <2> DEFINE n == Len(Stripped(line.sent))
  <2>1. line.sent \in Seq(Letters) /\ Len(line.sent) \in Nat /\ line.past = Len(line.sent)
    BY <1>2, LineParts DEF WellRead
  <2>2. NewLine \notin Letters
    BY DEF ReaderAssumption
  <2>3. /\ n \in Nat /\ n <= Len(line.sent)
        /\ n > 0 => line.sent[n] \notin {CarriageReturn, NewLine}
        /\ \A i \in 1..Len(line.sent) : i > n => line.sent[i] \in {CarriageReturn, NewLine}
    BY <2>1, StrippedFacts
  <2>4. n \in 1..LineBytes
    OBVIOUS
  <2> HIDE DEF n
  <2>5. n > 0 /\ n \in 1..line.past
    BY <2>1, <2>3, <2>4
  <2>6. \A i \in 1..line.past : i > n => line.sent[i] = CarriageReturn
    BY <2>1, <2>2, <2>3
  <2>7. TextEnds(line, n)
    BY <2>3, <2>5, <2>6 DEF TextEnds
  <2>8. line.records = 1 /\ line.kept = 1..n
    BY <1>2, <2>4, <2>7 DEF WellRead, Recorded, OneRecord
  <2> QED
    BY <2>8 DEF n
<1> QED
  BY <1>1, <1>4, <1>5

(* The reader's invariant: what the read in progress has is the end of its *)
(* line, what came before it is recorded but for the bytes that were cut,  *)
(* and the lines before were read to their ends.                           *)
THEOREM ReaderInvariant == AgentSpec => []ReaderInv
<1>1. AgentInit => ReaderInv
  BY ReaderAssumption, ReaderStart DEF AgentInit, ReaderInit
<1>2. ReaderInv /\ [AgentNext]_allVars => ReaderInv'
  BY ReaderAssumption, ReaderStep
<1> QED
  BY <1>1, <1>2, PTL DEF AgentSpec

(* The reader's variables have the types of their counterparts, and a read *)
(* never has more than the limit it was made with (serial_broker.py 219).  *)
THEOREM AgentReaderTypeOK == AgentSpec => []ReaderTypeOK
<1>1. ReaderInv => ReaderTypeOK
  BY ReaderAssumption, ReaderInvSays
<1> QED
  BY <1>1, ReaderInvariant, PTL

(* For every limit, every device and every way its bytes are cut into      *)
(* reads, a line loses nothing of its first LineBytes bytes but carriage   *)
(* returns, and after those nothing else but single bytes more than        *)
(* LineBytes apart (_reader 216-233).                                      *)
THEOREM AgentLinesAreComplete == AgentSpec => []LinesAreComplete
<1>1. ReaderInv => LinesAreComplete
  BY ReaderAssumption, ReaderInvSays
<1> QED
  BY <1>1, ReaderInvariant, PTL

(* A line whose text fits and none of whose reads ran out of time is one   *)
(* record with the whole text, whatever came before it and however the     *)
(* reads before it ended (_reader 216-233).                                *)
THEOREM AgentWholeLineIsOneRecord == AgentSpec => []WholeLineIsOneRecord
<1>1. ReaderInv => WholeLineIsOneRecord
  BY ReaderAssumption, ReaderInvSays
<1> QED
  BY <1>1, ReaderInvariant, PTL

-----------------------------------------------------------------------------
(* The reader is a callback of the log                                     *)

\* What is recorded of a read is something the log records.
LEMMA PayloadIsRecorded ==
    ASSUME ReaderAssumption, NEW bytes, RawOK(bytes), Payload(bytes) # <<>>
    PROVE  Payload(bytes) \in Payloads
<1> DEFINE payload == Payload(bytes)
           n == Len(payload)
<1>1. LineBytes \in Nat /\ \A m \in 1..LineBytes : [1..m -> Letters] \subseteq Payloads
  BY DEF ReaderAssumption
<1>2. /\ payload \in Seq(Letters) /\ Len(Body(bytes)) \in Nat
      /\ n \in Nat /\ n <= LineBytes
  BY BodyFacts, PayloadFacts
<1>3. payload # <<>>
  OBVIOUS
<1> HIDE DEF payload
<1>4. n \in Nat /\ n # 0 /\ payload \in [1..n -> Letters]
  BY <1>2, <1>3
<1>5. n \in 1..LineBytes
  BY <1>1, <1>2, <1>4
<1>6. payload \in Payloads
  BY <1>1, <1>4, <1>5
<1> QED
  BY <1>6 DEF payload

\* A read that returns records its payload as the log does, or nothing.
LEMMA ReadReturnsRecords ==
    ASSUME ReaderAssumption, ReaderInv, NEW timeout, ReadReturns(timeout)
    PROVE  [Next]_vars
<1>1. CASE Payload(raw) = <<>>
  BY <1>1 DEF ReadReturns
<1>2. CASE Payload(raw) # <<>>
  <2>1. Add(Device, "RX", Payload(raw))
    BY <1>2 DEF ReadReturns
  <2>2. Device \in Ports /\ "RX" \in Directions /\ RawOK(raw)
    BY DEF ReaderAssumption, Directions, ReaderInv
  <2>3. Payload(raw) \in Payloads
    BY <1>2, <2>2, PayloadIsRecorded
  <2> QED
    BY <2>1, <2>2, <2>3 DEF Next
<1> QED
  BY <1>1, <1>2

\* Every step of the agent with its reader is a step of the log or leaves the log as it is.
LEMMA AgentStepIsLogStep ==
    ASSUME ReaderAssumption, ReaderInv, [AgentNext]_allVars
    PROVE  [Next]_vars
<1>1. CASE \E byte \in Letters \cup {NewLine} : ReadByte(byte)
  BY <1>1 DEF ReadByte
<1>2. CASE EndRead
  BY <1>2, ReadReturnsRecords DEF EndRead
<1>3. CASE TimeOutRead
  BY <1>3, ReadReturnsRecords DEF TimeOutRead
<1>4. CASE OthersRecord
  BY <1>4 DEF OthersRecord, Next
<1>5. CASE ClientStep /\ UNCHANGED readerVars
  BY <1>5 DEF Next
<1>6. CASE AgentRestart
  BY <1>6 DEF AgentRestart, Next
<1>7. CASE UNCHANGED allVars
  BY <1>7 DEF allVars
<1> QED
  BY <1>1, <1>2, <1>3, <1>4, <1>5, <1>6, <1>7 DEF AgentNext

(* The agent with a device's reader is an implementation of the log: what  *)
(* the reader passes to _record is a payload like any other, so that every *)
(* theorem about the log holds of what the device said.                    *)
THEOREM AgentImplementsLog == AgentSpec => Spec
<1>1. AgentInit => Init
  BY DEF AgentInit
<1>2. ReaderInv /\ [AgentNext]_allVars => [Next]_vars
  BY ReaderAssumption, AgentStepIsLogStep
<1> QED
  BY <1>1, <1>2, ReaderInvariant, PTL DEF AgentSpec, Spec

(* A wait on the device's port is satisfied by nothing but a record with   *)
(* the pattern, however its lines are cut into reads (agent.py 364-373).   *)
THEOREM AgentMatchIsReal == AgentSpec => []MatchIsReal
BY AgentImplementsLog, LogMatchIsReal, PTL
=============================================================================
