---------------------------- MODULE SerialLogProofs ----------------------------
(***************************************************************************)
(* Proofs about SerialLog for every number of ports, pollers and waiters,  *)
(* every answer limit and every bound of the buffers.                      *)
(***************************************************************************)
EXTENDS SerialLog, SerialPortBufferProofs, FiniteSetTheorems, FunctionTheorems

-----------------------------------------------------------------------------
(* Finite sets                                                             *)

\* A relation that is irreflexive and transitive on a finite set leaves some member first.
LEMMA FiniteHasFirst ==
    ASSUME NEW S, IsFiniteSet(S), S # {},
           NEW R, \A x \in S : <<x, x>> \notin R,
           \A x, y, z \in S : <<x, y>> \in R /\ <<y, z>> \in R => <<x, z>> \in R
    PROVE  \E x \in S : \A y \in S : <<y, x>> \notin R
<1> DEFINE before(x) == {y \in S : <<y, x>> \in R}
           T == {before(x) : x \in S}
<1>1. IsWellFoundedOn(StrictSubsetOrdering(S), SUBSET S)
  <2>1. FiniteSubsetsOf(S) = SUBSET S
    BY FS_FiniteSubsetsOfFinite
  <2>2. IsWellFoundedOn(StrictSubsetOrdering(S), FiniteSubsetsOf(S))
    BY FS_StrictSubsetOrderingWellFounded, Zenon
  <2> QED
    BY <2>1, <2>2, Zenon
<1>2. T \subseteq SUBSET S /\ T # {}
  <2>1. PICK s : s \in S
    OBVIOUS
  <2>2. before(s) \in T
    BY <2>1
  <2>3. T \subseteq SUBSET S
    OBVIOUS
  <2> QED
    BY <2>2, <2>3
<1>3. \E t \in T : \A u \in T : ~(<<u, t>> \in StrictSubsetOrdering(S))
  <2> HIDE DEF T
  <2> QED
    BY <1>1, <1>2, WFMin
<1>4. PICK x \in S : \A u \in T : ~(<<u, before(x)>> \in StrictSubsetOrdering(S))
  BY <1>3
<1>5. ASSUME NEW y \in S, <<y, x>> \in R
      PROVE  FALSE
  <2>1. before(y) \subseteq before(x) /\ before(y) # before(x)
    BY <1>5
  <2>2. <<before(y), before(x)>> \in StrictSubsetOrdering(S)
    BY <2>1 DEF StrictSubsetOrdering
  <2> QED
    BY <1>4, <2>2
<1> QED
  BY <1>5

\* A finite, non-empty set of naturals has a greatest member.
LEMMA FiniteHasMax ==
    ASSUME NEW S \in SUBSET Nat, IsFiniteSet(S), S # {}
    PROVE  \E x \in S : \A y \in S : y <= x
<1> DEFINE R == {ab \in S \X S : ab[1] > ab[2]}
<1>1. \A a, b \in S : <<a, b>> \in R <=> a > b
  OBVIOUS
<1> HIDE DEF R
<1>2. \A a \in S : <<a, a>> \notin R
  BY <1>1
<1>3. \A a, b, c \in S : <<a, b>> \in R /\ <<b, c>> \in R => <<a, c>> \in R
  BY <1>1
<1>4. PICK x \in S : \A y \in S : <<y, x>> \notin R
  BY <1>2, <1>3, FiniteHasFirst, Zenon
<1>5. \A y \in S : ~(y > x)
  BY <1>1, <1>4
<1> QED
  BY <1>5

-----------------------------------------------------------------------------
(* Type correctness                                                        *)

\* The records of the buffers of finitely many ports are finitely many.
LEMMA ScopedType ==
    ASSUME TypeOK, NEW scope \in SUBSET Ports
    PROVE  /\ Scoped(scope) \subseteq Record
           /\ IsFiniteSet(Scoped(scope))
<1> DEFINE held == [p \in scope |-> Range(buffers[p])]
<1>1. \A p \in scope : buffers[p] \in Seq(Record)
  BY DEF TypeOK
<1>2. ASSUME NEW p \in scope
      PROVE  Range(buffers[p]) \subseteq Record /\ IsFiniteSet(Range(buffers[p]))
  <2>1. buffers[p] \in [1..Len(buffers[p]) -> Record] /\ Len(buffers[p]) \in Nat
    BY <1>1, LenProperties
  <2>2. buffers[p] \in Surjection(1..Len(buffers[p]), Range(buffers[p]))
    BY <2>1, Fun_RangeProperties
  <2>3. IsFiniteSet(1..Len(buffers[p]))
    BY <2>1, FS_Interval
  <2> QED
    BY <2>1, <2>2, <2>3, Fun_RangeProperties, FS_Surjection
<1>3. Scoped(scope) = UNION Range(held)
  BY DEF Scoped, Range
<1>4. IsFiniteSet(Range(held))
  <2>1. IsFiniteSet(scope)
    BY LogAssumption, FS_Subset
  <2>2. held \in [scope -> SUBSET Record]
    BY <1>2
  <2>3. held \in Surjection(scope, Range(held))
    <3> HIDE DEF held
    <3> QED
      BY <2>2, Fun_RangeProperties
  <2> QED
    BY <2>1, <2>3, FS_Surjection
<1>5. \A t \in Range(held) : t \subseteq Record /\ IsFiniteSet(t)
  BY <1>2 DEF Range
<1> HIDE DEF held
<1> QED
  BY <1>3, <1>4, <1>5, FS_UNION

\* next_sequence is the greatest number among the records looked at.
LEMMA NextSequenceIsGreatest ==
    ASSUME TypeOK, NEW scope \in SUBSET Ports
    PROVE  LET records == Scoped(scope) IN
           /\ NextSequence(records) \in Nat
           /\ records = {} => NextSequence(records) = 0
           /\ records # {} =>
                 /\ NextSequence(records) \in {r.sequence : r \in records}
                 /\ \A r \in records : r.sequence <= NextSequence(records)
<1> DEFINE records == Scoped(scope)
           numbers == {r.sequence : r \in records}
<1>1. records \subseteq Record /\ IsFiniteSet(records)
  BY ScopedType
<1>2. CASE records = {}
  BY <1>2 DEF NextSequence
<1>3. CASE records # {}
  <2>1. numbers \subseteq Nat /\ numbers # {}
    BY <1>1, <1>3 DEF Record
  <2>2. IsFiniteSet(numbers)
    <3> DEFINE numberOf == [r \in records |-> r.sequence]
    <3>1. numberOf \in [records -> Nat] /\ numbers = Range(numberOf)
      BY <1>1 DEF Record, Range
    <3>2. numberOf \in Surjection(records, Range(numberOf))
      <4> HIDE DEF numberOf, records
      <4> QED
        BY <3>1, Fun_RangeProperties
    <3> HIDE DEF numberOf, records, numbers
    <3> QED
      BY <1>1, <3>1, <3>2, FS_Surjection
  <2>3. PICK n \in numbers : \A m \in numbers : m <= n
    BY <2>1, <2>2, FiniteHasMax
  <2> QED
    BY <1>3, <2>1, <2>3 DEF NextSequence
<1> QED
  BY <1>2, <1>3

\* At the start every variable has its type.
LEMMA LogTypeInit == Init => TypeOK
<1> SUFFICES ASSUME Init PROVE TypeOK
  OBVIOUS
<1>1. \A scope \in Scopes :
         NewPoller(scope) \in [scope : SUBSET Ports, cursor : Nat, epoch : Nat,
                               truncated : BOOLEAN, since : Nat,
                               got : SUBSET Nat, warned : SUBSET Nat]
  BY LogAssumption DEF NewPoller
<1>2. NoWait \in [pc : {"idle", "checked", "blocked", "woken", "matched", "timedout"},
                  scope : SUBSET Ports, dirs : SUBSET Directions, expired : BOOLEAN]
  BY DEF NoWait
<1>3. /\ sequences \in [Ports -> Nat] /\ buffers \in [Ports -> Seq(Record)]
      /\ known \in Seq(Ports) /\ clock \in Nat /\ stepped \in BOOLEAN /\ epoch \in Nat
      /\ seen \subseteq [port : Ports, dir : Directions]
  BY EmptySeq DEF Init
<1>4. /\ poll \in [Pollers -> {NewPoller(scope) : scope \in Scopes}]
      /\ wait = [w \in Waiters |-> NoWait]
  BY DEF Init
<1> QED
  BY <1>1, <1>2, <1>3, <1>4 DEF TypeOK

\* _record hands the buffer a well-formed record of its own port.
LEMMA NewRecordType ==
    ASSUME TypeOK, NEW p \in Ports, NEW dir \in Directions, NEW payload \in Payloads
    PROVE  /\ NewRecord(p, dir, payload) \in Record
           /\ NewRecord(p, dir, payload).size \in 0..MaxBytes
BY LogAssumption DEF TypeOK, NewRecord, Record

WaitType == [pc : {"idle", "checked", "blocked", "woken", "matched", "timedout"},
             scope : SUBSET Ports, dirs : SUBSET Directions, expired : BOOLEAN]

PollType == [scope : SUBSET Ports, cursor : Nat, epoch : Nat, truncated : BOOLEAN,
             since : Nat, got : SUBSET Nat, warned : SUBSET Nat]

\* The steps of a waiter keep its type.
LEMMA WaitTypeStep ==
    ASSUME TypeOK, NEW w \in Waiters,
           \/ \E scope \in Scopes, includeTx \in BOOLEAN : WaitBegin(w, scope, includeTx)
           \/ Expire(w) \/ WaitStep(w)
    PROVE  wait' \in [Waiters -> WaitType]
<1>1. wait \in [Waiters -> WaitType]
  BY DEF TypeOK, WaitType
<1>2. ASSUME NEW scope \in Scopes, NEW includeTx \in BOOLEAN, WaitBegin(w, scope, includeTx)
      PROVE  wait' \in [Waiters -> WaitType]
  <2>1. scope \in SUBSET Ports /\ Watched(includeTx) \in SUBSET Directions
    BY LogAssumption DEF Watched, Directions
  <2> QED
    BY <1>1, <1>2, <2>1 DEF WaitBegin, WaitType
<1>3. CASE Expire(w)
  BY <1>1, <1>3 DEF Expire, WaitType
<1>4. CASE WaitBlock(w)
  BY <1>1, <1>4 DEF WaitBlock, WaitType
<1>5. CASE WaitSlice(w)
  BY <1>1, <1>5 DEF WaitSlice, WaitType
<1>6. CASE WaitRecheck(w)
  BY <1>1, <1>6 DEF WaitRecheck, WaitType
<1>7. CASE WaitAnswer(w)
  BY <1>1, <1>7 DEF WaitAnswer, WaitType, NoWait
<1> QED
  BY <1>2, <1>3, <1>4, <1>5, <1>6, <1>7 DEF WaitStep

\* A notification keeps the type of the waiters.
LEMMA NotifyType ==
    ASSUME TypeOK, Notify
    PROVE  wait' \in [Waiters -> WaitType]
BY DEF TypeOK, WaitType, Notify

(* The three parts of an answer of serial_read_since, and the poller that  *)
(* has received them.                                                      *)
Numbers(c, limit) ==
    {r.sequence : r \in Newest(After(Scoped(poll[c].scope), poll[c].cursor), limit)}
Next_sequence(c) == NextSequence(Scoped(poll[c].scope))
Warns(c, limit) == Truncated(Scoped(poll[c].scope), poll[c].cursor, limit)

Received(me, answer, next, truncated) ==
    [scope |-> me.scope, cursor |-> next, epoch |-> epoch, truncated |-> truncated,
     since |-> IF me.epoch # epoch /\ me.cursor # 0 THEN next ELSE me.since,
     got |-> answer \cup (IF me.epoch # epoch THEN {} ELSE me.got),
     warned |-> (IF truncated THEN (me.cursor + 1)..next ELSE {})
                \cup (IF me.epoch # epoch THEN {} ELSE me.warned)]

\* What a poller keeps of an answer has its type.
LEMMA AnswerType ==
    ASSUME TypeOK, NEW c \in Pollers, NEW limit \in Limits
    PROVE  /\ Numbers(c, limit) \subseteq Nat
           /\ Next_sequence(c) \in Nat
           /\ Warns(c, limit) \in BOOLEAN
           /\ poll[c] \in PollType /\ poll[c].scope \in SUBSET Ports
<1>1. poll[c] \in PollType /\ poll[c].scope \in SUBSET Ports
  BY DEF TypeOK, PollType
<1>2. Numbers(c, limit) \subseteq Nat
  BY <1>1, ScopedType DEF Numbers, Newest, After, Record
<1>3. Next_sequence(c) \in Nat
  BY <1>1, NextSequenceIsGreatest DEF Next_sequence
<1> QED
  BY <1>1, <1>2, <1>3 DEF Warns, Truncated

\* What one call of serial_read_since does to its poller, and to nothing else.
LEMMA ReadSinceEffect ==
    ASSUME TypeOK, NEW c \in Pollers, NEW limit \in Limits, ReadSince(c, limit)
    PROVE  /\ UNCHANGED <<sequences, buffers, known, clock, stepped, epoch, seen, wait>>
           /\ poll' = [poll EXCEPT ![c] =
                Received(poll[c], Numbers(c, limit), Next_sequence(c), Warns(c, limit))]
<1>1. UNCHANGED <<sequences, buffers, known, clock, stepped, epoch, seen, wait>>
  BY DEF ReadSince, agentVars
<1>2. poll' = [poll EXCEPT ![c] =
                Received(poll[c], Numbers(c, limit), Next_sequence(c), Warns(c, limit))]
  BY Zenon DEF ReadSince, Received, Numbers, Next_sequence, Warns
<1> QED
  BY <1>1, <1>2

\* A read keeps the type of the pollers.
LEMMA PollTypeStep ==
    ASSUME TypeOK, NEW c \in Pollers, NEW limit \in Limits, ReadSince(c, limit)
    PROVE  poll' \in [Pollers -> PollType]
<1> DEFINE me == poll[c]
           answer == Numbers(c, limit)
           next == Next_sequence(c)
           truncated == Warns(c, limit)
<1>1. poll \in [Pollers -> PollType] /\ epoch \in Nat
  BY DEF TypeOK, PollType
<1>2. me \in PollType /\ answer \subseteq Nat /\ next \in Nat /\ truncated \in BOOLEAN
  BY AnswerType
<1>3. poll' = [poll EXCEPT ![c] = Received(me, answer, next, truncated)]
  BY ReadSinceEffect
<1> HIDE DEF me, answer, next, truncated
<1>4. Received(me, answer, next, truncated) \in PollType
  <2>1. (me.cursor + 1)..next \subseteq Nat
    BY <1>2 DEF PollType
  <2>2. (IF truncated THEN (me.cursor + 1)..next ELSE {})
        \cup (IF me.epoch # epoch THEN {} ELSE me.warned) \in SUBSET Nat
    BY <1>2, <2>1 DEF PollType
  <2>3. answer \cup (IF me.epoch # epoch THEN {} ELSE me.got) \in SUBSET Nat
    BY <1>2 DEF PollType
  <2>4. (IF me.epoch # epoch /\ me.cursor # 0 THEN next ELSE me.since) \in Nat
    BY <1>2 DEF PollType
  <2>5. me.scope \in SUBSET Ports
    BY <1>2 DEF PollType
  <2> QED
    BY <1>1, <1>2, <2>2, <2>3, <2>4, <2>5 DEF Received, PollType
<1> QED
  BY <1>1, <1>3, <1>4

\* A new record changes one buffer, to a suffix of the old records and the new one.
LEMMA AddEffect ==
    ASSUME TypeOK, NEW p \in Ports, NEW dir \in Directions, NEW payload \in Payloads,
           Add(p, dir, payload)
    PROVE  \E new \in Seq(Record) :
              /\ buffers' = [buffers EXCEPT ![p] = new]
              /\ new # <<>>
              /\ \E k \in Nat :
                    Remains(new, Append(buffers[p], NewRecord(p, dir, payload)), k)
<1> DEFINE record == NewRecord(p, dir, payload)
<1>1. record \in Record /\ record.size \in 0..MaxBytes /\ ~(record.size > MaxBytes)
  BY NewRecordType, BufferAssumption
<1>2. buffers[p] \in Seq(Record)
  BY DEF TypeOK
<1>3. PICK new \in Appended(buffers[p], record) : buffers' = [buffers EXCEPT ![p] = new]
  BY DEF Add
<1> HIDE DEF record
<1>4. new \in Seq(Record) /\ new # <<>>
  BY <1>1, <1>2, <1>3, AppendedIsSuffix, AppendedKeepsNewest
<1>5. \E k \in Nat : Remains(new, Append(buffers[p], record), k)
  BY <1>1, <1>2, <1>3, AppendedIsSuffix
<1> QED
  BY <1>3, <1>4, <1>5 DEF record

\* Every step keeps the type.
LEMMA LogTypeStep ==
    ASSUME TypeOK, [Next]_vars
    PROVE  TypeOK'
<1>1. ASSUME NEW p \in Ports, NEW dir \in Directions, NEW payload \in Payloads,
             Add(p, dir, payload)
      PROVE  TypeOK'
  <2>1. buffers' \in [Ports -> Seq(Record)]
    BY <1>1, AddEffect DEF TypeOK
  <2>2. known' \in Seq(Ports)
    BY <1>1, AppendProperties DEF Add, TypeOK
  <2>3. sequences' \in [Ports -> Nat]
    BY <1>1 DEF Add, TypeOK
  <2>4. seen' \subseteq [port : Ports, dir : Directions]
    BY <1>1 DEF Add, TypeOK
  <2>5. wait' \in [Waiters -> WaitType]
    BY <1>1, NotifyType DEF Add
  <2>6. UNCHANGED <<clock, stepped, epoch, poll>>
    BY <1>1 DEF Add
  <2> QED
    BY <2>1, <2>2, <2>3, <2>4, <2>5, <2>6 DEF TypeOK, WaitType
<1>2. CASE Tick
  BY <1>2 DEF Tick, TypeOK
<1>3. CASE SetBack
  BY <1>3 DEF SetBack, TypeOK
<1>4. CASE Restart
  <2>1. NoWait \in WaitType
    BY DEF NoWait, WaitType
  <2>2. wait' \in [Waiters -> WaitType]
    BY <1>4, <2>1 DEF Restart
  <2>3. /\ sequences' \in [Ports -> Nat] /\ buffers' \in [Ports -> Seq(Record)]
        /\ known' \in Seq(Ports) /\ epoch' \in Nat
        /\ seen' \subseteq [port : Ports, dir : Directions]
    BY <1>4, EmptySeq DEF Restart, TypeOK
  <2>4. UNCHANGED <<clock, stepped, poll>>
    BY <1>4 DEF Restart
  <2> QED
    BY <2>2, <2>3, <2>4 DEF TypeOK, WaitType
<1>5. ASSUME NEW c \in Pollers, NEW limit \in Limits, ReadSince(c, limit)
      PROVE  TypeOK'
  <2>1. poll' \in [Pollers -> PollType]
    BY <1>5, PollTypeStep
  <2>2. UNCHANGED <<sequences, buffers, known, clock, stepped, epoch, seen, wait>>
    BY <1>5, ReadSinceEffect
  <2> QED
    BY <2>1, <2>2 DEF TypeOK, PollType
<1>6. ASSUME NEW w \in Waiters,
             \/ \E scope \in Scopes, includeTx \in BOOLEAN : WaitBegin(w, scope, includeTx)
             \/ Expire(w) \/ WaitStep(w)
      PROVE  TypeOK'
  <2>1. wait' \in [Waiters -> WaitType]
    BY <1>6, WaitTypeStep
  <2>2. UNCHANGED <<sequences, buffers, known, clock, stepped, epoch, seen, poll>>
    BY <1>6 DEF WaitBegin, Expire, WaitStep, WaitBlock, WaitSlice, WaitRecheck, WaitAnswer,
                agentVars
  <2> QED
    BY <2>1, <2>2 DEF TypeOK, WaitType
<1>7. CASE UNCHANGED vars
  BY <1>7 DEF vars, TypeOK
<1> QED
  BY <1>1, <1>2, <1>3, <1>4, <1>5, <1>6, <1>7 DEF Next, ClientStep

-----------------------------------------------------------------------------
(* The buffers hold the latest records without a gap                       *)

\* A suffix of consecutively numbered records is consecutively numbered.
LEMMA ContiguousAdd ==
    ASSUME TypeOK, BufferContiguous,
           NEW p \in Ports, NEW dir \in Directions, NEW payload \in Payloads,
           Add(p, dir, payload)
    PROVE  BufferContiguous'
<1> DEFINE old == buffers[p]
           record == NewRecord(p, dir, payload)
<1>1. PICK new \in Seq(Record) :
         /\ buffers' = [buffers EXCEPT ![p] = new]
         /\ new # <<>>
         /\ \E k \in Nat : Remains(new, Append(old, record), k)
  BY AddEffect
<1>2. PICK k \in Nat : Remains(new, Append(old, record), k)
  BY <1>1
<1>3. /\ old \in Seq(Record) /\ record \in Record /\ sequences[p] \in Nat
      /\ record.port = p /\ record.sequence = sequences[p] + 1
  BY NewRecordType DEF TypeOK, NewRecord
<1>4. /\ \A i \in 1..Len(old) : /\ old[i].port = p
                                /\ old[i].sequence = sequences[p] - Len(old) + i
      /\ Len(old) <= sequences[p]
  BY <1>3 DEF BufferContiguous
<1> HIDE DEF old, record
<1>5. /\ Len(Append(old, record)) = Len(old) + 1
      /\ \A i \in 1..Len(old) : Append(old, record)[i] = old[i]
      /\ Append(old, record)[Len(old) + 1] = record
      /\ Len(old) \in Nat /\ Len(new) \in Nat
  BY <1>3, AppendProperties
<1>6. /\ Len(new) = Len(old) + 1 - k
      /\ \A i \in 1..Len(new) : new[i] = Append(old, record)[i + k]
  BY <1>2, <1>5 DEF Remains
<1>7. ASSUME NEW i \in 1..Len(new)
      PROVE  /\ new[i].port = p
             /\ new[i].sequence = (sequences[p] + 1) - Len(new) + i
  <2>1. new[i] = Append(old, record)[i + k] /\ i + k \in 1..(Len(old) + 1)
    BY <1>5, <1>6
  <2>2. CASE i + k = Len(old) + 1
    BY <1>3, <1>5, <1>6, <2>1, <2>2
  <2>3. CASE i + k \in 1..Len(old)
    BY <1>3, <1>4, <1>5, <1>6, <2>1, <2>3
  <2> QED
    BY <1>5, <2>1, <2>2, <2>3
<1>8. sequences' = [sequences EXCEPT ![p] = @ + 1]
  BY DEF Add
<1>9. /\ buffers'[p] = new /\ \A q \in Ports \ {p} : buffers'[q] = buffers[q]
      /\ sequences'[p] = sequences[p] + 1
      /\ \A q \in Ports \ {p} : sequences'[q] = sequences[q]
  BY <1>1, <1>8 DEF TypeOK
<1>10. Len(new) <= sequences[p] + 1 /\ DOMAIN new = 1..Len(new)
  BY <1>3, <1>4, <1>5, <1>6
<1>11. ASSUME NEW q \in Ports
       PROVE  /\ \A i \in DOMAIN buffers'[q] :
                    /\ buffers'[q][i].port = q
                    /\ buffers'[q][i].sequence = sequences'[q] - Len(buffers'[q]) + i
              /\ sequences'[q] > 0 => buffers'[q] # <<>>
              /\ Len(buffers'[q]) <= sequences'[q]
  <2>1. CASE q = p
    BY <1>1, <1>7, <1>9, <1>10, <2>1
  <2>2. CASE q # p
    BY <1>9, <2>2 DEF BufferContiguous
  <2> QED
    BY <2>1, <2>2
<1> QED
  BY <1>11 DEF BufferContiguous

\* Every step keeps the buffers free of gaps.
LEMMA ContiguousStep ==
    ASSUME TypeOK, BufferContiguous, [Next]_vars
    PROVE  BufferContiguous'
<1>1. ASSUME NEW p \in Ports, NEW dir \in Directions, NEW payload \in Payloads,
             Add(p, dir, payload)
      PROVE  BufferContiguous'
  BY <1>1, ContiguousAdd
<1>2. CASE Restart
  BY <1>2, EmptySeq DEF Restart, BufferContiguous
<1>3. CASE UNCHANGED <<sequences, buffers>>
  BY <1>3 DEF BufferContiguous
<1> QED
  BY <1>1, <1>2, <1>3, ReadSinceEffect
     DEF Next, ClientStep, Tick, SetBack, WaitBegin, Expire, WaitStep, WaitBlock, WaitSlice, WaitRecheck,
         WaitAnswer, ReadSince, agentVars, vars

-----------------------------------------------------------------------------
(* Polling loses nothing silently                                          *)

\* Scoped to one port, the records are those of its buffer.
LEMMA ScopedOnePort ==
    ASSUME TypeOK, BufferContiguous, NEW p \in Ports, NEW r \in Scoped({p})
    PROVE  /\ r.port = p
           /\ r.sequence \in (sequences[p] - Len(buffers[p]) + 1)..sequences[p]
<1>1. PICK i \in DOMAIN buffers[p] : r = buffers[p][i]
  BY DEF Scoped
<1>2. buffers[p] \in Seq(Record) /\ sequences[p] \in Nat
  BY DEF TypeOK
<1>3. i \in 1..Len(buffers[p]) /\ Len(buffers[p]) \in Nat
  BY <1>1, <1>2
<1> QED
  BY <1>1, <1>2, <1>3 DEF BufferContiguous

\* The sort by time leaves some record of a port first, however the clock moved.
LEMMA OldestExists ==
    ASSUME TypeOK, BufferContiguous, NEW p \in Ports, Scoped({p}) # {}
    PROVE  \E o \in Scoped({p}) : IsOldest(o, Scoped({p}))
<1> DEFINE records == Scoped({p})
           R == {ab \in records \X records : Earlier(ab[1], ab[2])}
<1>1. records \subseteq Record /\ IsFiniteSet(records)
  BY ScopedType
<1>2. \A a \in records : a.port = p /\ a.time \in Nat /\ a.sequence \in Nat
  BY <1>1, ScopedOnePort DEF Record
<1>3. \A a, b \in records : <<a, b>> \in R <=> Earlier(a, b)
  OBVIOUS
<1> HIDE DEF R, records
<1>4. \A a, b \in records :
         Earlier(a, b) <=> a.time < b.time \/ (a.time = b.time /\ a.sequence < b.sequence)
  BY <1>2 DEF Earlier
<1>5. \A a \in records : <<a, a>> \notin R
  BY <1>2, <1>3, <1>4
<1>6. \A a, b, c \in records : <<a, b>> \in R /\ <<b, c>> \in R => <<a, c>> \in R
  BY <1>2, <1>3, <1>4
<1>7. records # {}
  BY DEF records
<1>8. PICK o \in records : \A a \in records : <<a, o>> \notin R
  BY <1>1, <1>5, <1>6, <1>7, FiniteHasFirst, Zenon
<1>9. IsOldest(o, records)
  BY <1>3, <1>8 DEF IsOldest
<1> QED
  BY <1>9 DEF records

\* An answer that has room for every record after the cursor leaves none of them out.
LEMMA RoomForAll ==
    ASSUME NEW p, NEW records, IsFiniteSet(records), records \subseteq Record,
           \A r \in records : r.port = p,
           NEW limit \in Nat, Cardinality(records) <= limit
    PROVE  Newest(records, limit) = records
<1>1. ASSUME NEW r \in records
      PROVE  Cardinality({q \in records : Earlier(r, q)}) < limit
  <2> DEFINE later == {q \in records : Earlier(r, q)}
  <2>1. later \in SUBSET records
    OBVIOUS
  <2>2. r \notin later
    BY DEF Earlier, Record
  <2>3. /\ Cardinality(later) <= Cardinality(records)
        /\ Cardinality(later) = Cardinality(records) => records = later
        /\ IsFiniteSet(later)
    BY <2>1, FS_Subset
  <2>4. Cardinality(later) \in Nat /\ Cardinality(records) \in Nat
    BY <2>3, FS_CardinalityType
  <2> QED
    BY <2>2, <2>3, <2>4
<1> QED
  BY <1>1 DEF Newest

(* The heart of loss awareness: an answer that does not say `truncated'    *)
(* brings every record of the port between the cursor and next_sequence.   *)
LEMMA SilentAnswerIsComplete ==
    ASSUME TypeOK, BufferContiguous, NEW p \in Ports, NEW cursor \in Nat, NEW limit \in Limits,
           ~Truncated(Scoped({p}), cursor, limit),
           NEW n \in (cursor + 1)..NextSequence(Scoped({p}))
    PROVE  n \in {r.sequence : r \in Newest(After(Scoped({p}), cursor), limit)}
<1> DEFINE records == Scoped({p})
           size == Len(buffers[p])
<1>1. /\ records \subseteq Record /\ IsFiniteSet(records)
      /\ NextSequence(records) \in Nat
      /\ records = {} => NextSequence(records) = 0
      /\ records # {} => NextSequence(records) \in {r.sequence : r \in records}
  BY ScopedType, NextSequenceIsGreatest
<1>2. records # {}
  BY <1>1
<1>3. PICK o \in records : IsOldest(o, records)
  BY <1>2, OldestExists
<1>4. ~(cursor < o.sequence - 1)
  BY <1>3 DEF Truncated
<1>5. buffers[p] \in Seq(Record) /\ sequences[p] \in Nat /\ size \in Nat
  BY DEF TypeOK
<1>6. o.sequence \in (sequences[p] - size + 1)..sequences[p]
  BY ScopedOnePort
<1>7. NextSequence(records) <= sequences[p]
  <2>1. PICK q \in records : NextSequence(records) = q.sequence
    BY <1>1, <1>2
  <2>2. q.sequence \in (sequences[p] - size + 1)..sequences[p]
    BY ScopedOnePort
  <2> HIDE DEF records
  <2> QED
    BY <1>5, <2>1, <2>2
<1>8. n - (sequences[p] - size) \in 1..size
  <2> DEFINE next == NextSequence(records)
             last == sequences[p]
             first == o.sequence
  <2>1. n \in (cursor + 1)..next /\ next \in Nat /\ next <= last /\ last \in Nat /\ size \in Nat
    BY <1>1, <1>5, <1>7
  <2>2. first \in (last - size + 1)..last /\ ~(cursor < first - 1)
    BY <1>4, <1>6
  <2> HIDE DEF next, last, first, size
  <2>3. n - (last - size) \in 1..size
    BY <2>1, <2>2
  <2> QED
    BY <2>3 DEF last, size
<1> DEFINE i == n - (sequences[p] - size)
           r == buffers[p][i]
<1>9. i \in DOMAIN buffers[p] /\ r \in records
  BY <1>5, <1>8 DEF Scoped
<1>10. r.sequence = n
  BY <1>5, <1>8, <1>9 DEF BufferContiguous
<1>11. r \in After(records, cursor)
  BY <1>9, <1>10 DEF After
<1>12. Newest(After(records, cursor), limit) = After(records, cursor)
  <2>1. After(records, cursor) \in SUBSET records
    BY DEF After
  <2>2. IsFiniteSet(After(records, cursor)) /\ After(records, cursor) \subseteq Record
    BY <1>1, <2>1, FS_Subset
  <2>3. \A q \in After(records, cursor) : q.port = p
    BY <2>1, ScopedOnePort
  <2>4. limit \in Nat /\ Cardinality(After(records, cursor)) \in Nat
    BY <2>2, FS_CardinalityType, LogAssumption
  <2>5. Cardinality(After(records, cursor)) <= limit
    BY <2>4 DEF Truncated
  <2> QED
    BY <2>2, <2>3, <2>4, <2>5, RoomForAll
<1> QED
  BY <1>10, <1>11, <1>12

\* A poller never carries the number of a run of the agent that is yet to come.
NoFutureEpoch == \A c \in Pollers : poll[c].epoch \in Nat /\ poll[c].epoch <= epoch

LogInv == TypeOK /\ BufferContiguous /\ NoFutureEpoch /\ LossAware

\* What LossAware says of one poller.
Covered(me) == \A n \in (me.since + 1)..me.cursor : n \in me.got \cup me.warned

\* An answer extends what its poller got or was warned of up to the new cursor.
LEMMA LossAwareRead ==
    ASSUME LogInv, NEW c \in Pollers, NEW limit \in Limits, ReadSince(c, limit)
    PROVE  NoFutureEpoch' /\ LossAware'
<1> DEFINE me == poll[c]
           answer == Numbers(c, limit)
           next == Next_sequence(c)
           truncated == Warns(c, limit)
           new == Received(me, answer, next, truncated)
<1>1. TypeOK /\ BufferContiguous /\ NoFutureEpoch /\ LossAware
  BY DEF LogInv
<1>2. me \in PollType /\ answer \subseteq Nat /\ next \in Nat /\ truncated \in BOOLEAN
  BY <1>1, AnswerType
<1>3. /\ poll' = [poll EXCEPT ![c] = new]
      /\ epoch' = epoch
  BY <1>1, ReadSinceEffect
<1>4. poll \in [Pollers -> PollType] /\ epoch \in Nat
  BY <1>1 DEF TypeOK, PollType
<1>5. poll'[c] = new /\ \A d \in Pollers \ {c} : poll'[d] = poll[d]
  BY <1>3, <1>4
<1>6. new.scope = me.scope /\ new.epoch = epoch /\ new.cursor = next
  BY DEF Received
<1>7. ASSUME NEW p \in Ports, me.scope = {p}
      PROVE  Covered(new)
  <2>1. \A n \in (me.cursor + 1)..next : ~truncated => n \in answer
    BY <1>1, <1>2, <1>7, SilentAnswerIsComplete DEF Numbers, Next_sequence, Warns, PollType
  <2>2. me.epoch = epoch => Covered(me)
    BY <1>1, <1>7 DEF LossAware, OnePort, Covered
  <2> HIDE DEF me, answer, next, truncated
  <2>3. ASSUME NEW n \in (new.since + 1)..new.cursor
        PROVE  n \in new.got \cup new.warned
    <3>1. /\ new.cursor = next
          /\ new.since = IF me.epoch # epoch /\ me.cursor # 0 THEN next ELSE me.since
          /\ new.got = answer \cup (IF me.epoch # epoch THEN {} ELSE me.got)
          /\ new.warned = (IF truncated THEN (me.cursor + 1)..next ELSE {})
                          \cup (IF me.epoch # epoch THEN {} ELSE me.warned)
      BY DEF Received
    <3>2. me.cursor \in Nat /\ me.since \in Nat
      BY <1>2 DEF PollType
    <3> HIDE DEF new
    <3>3. CASE n \in (me.cursor + 1)..next
      BY <1>2, <2>1, <3>1, <3>3
    <3>4. CASE n \notin (me.cursor + 1)..next
      <4>1. me.epoch = epoch
        BY <1>2, <2>3, <3>1, <3>2, <3>4
      <4>2. n \in (me.since + 1)..me.cursor
        BY <1>2, <2>3, <3>1, <3>2, <3>4, <4>1
      <4> QED
        BY <2>2, <3>1, <4>1, <4>2 DEF Covered
    <3> QED
      BY <3>3, <3>4
  <2> QED
    BY <2>3 DEF Covered
<1> HIDE DEF new, me
<1>8. NoFutureEpoch'
  BY <1>1, <1>3, <1>4, <1>5, <1>6 DEF NoFutureEpoch
<1>9. LossAware'
  BY <1>1, <1>3, <1>5, <1>6, <1>7 DEF LossAware, OnePort, Covered, me
<1> QED
  BY <1>8, <1>9

\* The inductive invariant holds at the start.
LEMMA LogInit == Init => LogInv
<1> SUFFICES ASSUME Init PROVE LogInv
  OBVIOUS
<1>1. \A c \in Pollers : poll[c].epoch = 0 /\ poll[c].cursor = 0 /\ poll[c].since = 0
  BY DEF Init, NewPoller
<1>2. BufferContiguous
  BY DEF Init, BufferContiguous
<1>3. NoFutureEpoch /\ LossAware
  BY <1>1 DEF Init, NoFutureEpoch, LossAware
<1> QED
  BY <1>2, <1>3, LogTypeInit DEF LogInv

\* The invariant is inductive.
LEMMA LogStep == LogInv /\ [Next]_vars => LogInv'
<1> SUFFICES ASSUME LogInv, [Next]_vars
             PROVE  LogInv'
  OBVIOUS
<1>1. TypeOK' /\ BufferContiguous'
  BY LogTypeStep, ContiguousStep DEF LogInv
<1>2. CASE UNCHANGED <<poll, epoch>>
  <2>1. NoFutureEpoch'
    BY <1>2 DEF LogInv, NoFutureEpoch
  <2>2. LossAware'
    BY <1>2 DEF LogInv, LossAware, OnePort
  <2> QED
    BY <1>1, <2>1, <2>2 DEF LogInv
<1>3. CASE Restart
  <2>1. epoch \in Nat /\ \A c \in Pollers : poll[c].epoch \in Nat /\ poll[c].epoch <= epoch
    BY DEF LogInv, TypeOK, NoFutureEpoch
  <2>2. epoch' = epoch + 1 /\ poll' = poll
    BY <1>3 DEF Restart
  <2>3. \A c \in Pollers :
           poll'[c].epoch \in Nat /\ poll'[c].epoch <= epoch' /\ poll'[c].epoch # epoch'
    BY <2>1, <2>2
  <2> QED
    BY <1>1, <2>3 DEF NoFutureEpoch, LossAware, LogInv
<1>4. ASSUME NEW c \in Pollers, NEW limit \in Limits, ReadSince(c, limit)
      PROVE  NoFutureEpoch' /\ LossAware'
  BY <1>4, LossAwareRead
<1>5. \/ UNCHANGED <<poll, epoch>>
      \/ Restart
      \/ \E c \in Pollers, limit \in Limits : ReadSince(c, limit)
  BY DEF Next, ClientStep, Add, Tick, SetBack, WaitBegin, Expire, WaitStep, WaitBlock, WaitSlice,
         WaitRecheck, WaitAnswer, agentVars, vars
<1> QED
  BY <1>1, <1>2, <1>3, <1>4, <1>5 DEF LogInv

-----------------------------------------------------------------------------
(* Theorems                                                                *)

\* The inductive invariant holds in every behaviour.
THEOREM LogInvariant == Spec => []LogInv
BY LogInit, LogStep, PTL DEF Spec

\* The type invariant.
THEOREM LogTypeOK == Spec => []TypeOK
<1>1. LogInv => TypeOK
  BY DEF LogInv
<1> QED
  BY <1>1, LogInvariant, PTL

(* However records arrive and are evicted, the buffer of a port holds its  *)
(* latest records, numbered without a gap.                                 *)
THEOREM LogBufferContiguous == Spec => []BufferContiguous
<1>1. LogInv => BufferContiguous
  BY DEF LogInv
<1> QED
  BY <1>1, LogInvariant, PTL

(* No poller of one port loses a record without being told so, whatever    *)
(* limits it asks with, however the buffer evicts and the clock moves.     *)
THEOREM LogLossAware == Spec => []LossAware
<1>1. LogInv => LossAware
  BY DEF LogInv
<1> QED
  BY <1>1, LogInvariant, PTL

-----------------------------------------------------------------------------
(* A satisfied wait was satisfied by a real record                         *)

\* Every matching record a buffer holds was seen since the agent started.
MatchesWereSeen ==
    \A p \in Ports : \A i \in DOMAIN buffers[p] :
        buffers[p][i].payload \in Matching =>
            [port |-> p, dir |-> buffers[p][i].dir] \in seen

MatchInv == LogInv /\ MatchesWereSeen /\ MatchIsReal

\* What Found sees in a buffer was seen since the agent started.
LEMMA FoundWasSeen ==
    ASSUME TypeOK, MatchesWereSeen, NEW scope \in SUBSET Ports, NEW dirs, Found(scope, dirs)
    PROVE  \E r \in seen : r.port \in scope /\ r.dir \in dirs
<1>1. PICK p \in scope : \E i \in DOMAIN buffers[p] :
         buffers[p][i].dir \in dirs /\ buffers[p][i].payload \in Matching
  BY DEF Found, Scoped
<1>a. PICK i \in DOMAIN buffers[p] :
         buffers[p][i].dir \in dirs /\ buffers[p][i].payload \in Matching
  BY <1>1
<1>2. [port |-> p, dir |-> buffers[p][i].dir] \in seen
  BY <1>1, <1>a DEF MatchesWereSeen
<1> QED
  BY <1>1, <1>a, <1>2

\* Every step keeps the matches of the buffers among those seen.
LEMMA SeenStep ==
    ASSUME LogInv, MatchesWereSeen, [Next]_vars
    PROVE  MatchesWereSeen'
<1>1. ASSUME NEW p \in Ports, NEW dir \in Directions, NEW payload \in Payloads,
             Add(p, dir, payload)
      PROVE  MatchesWereSeen'
  <2> DEFINE record == NewRecord(p, dir, payload)
             old == buffers[p]
  <2>1. PICK new \in Seq(Record) :
           /\ buffers' = [buffers EXCEPT ![p] = new]
           /\ \E k \in Nat : Remains(new, Append(old, record), k)
    BY <1>1, AddEffect DEF LogInv
  <2>2. PICK k \in Nat : Remains(new, Append(old, record), k)
    BY <2>1
  <2>3. old \in Seq(Record) /\ record \in Record
    BY NewRecordType DEF LogInv, TypeOK
  <2>4. record.dir = dir /\ record.payload = payload
    BY DEF NewRecord
  <2>5. seen' = seen \cup {[port |-> p, dir |-> dir] : m \in Matching \cap {payload}}
    BY <1>1 DEF Add
  <2>6. ASSUME NEW r \in Range(old) \cup {record}, r.payload \in Matching
        PROVE  [port |-> p, dir |-> r.dir] \in seen'
    <3>1. CASE r = record
      BY <2>4, <2>5, <2>6, <3>1
    <3>2. CASE r \in Range(old)
      BY <2>5, <2>6, <3>2 DEF MatchesWereSeen, Range
    <3> QED
      BY <3>1, <3>2
  <2> HIDE DEF record, old
  <2>7. ASSUME NEW i \in 1..Len(new)
        PROVE  new[i] \in Range(old) \cup {record}
    <3>1. /\ Len(Append(old, record)) = Len(old) + 1
          /\ \A j \in 1..Len(old) : Append(old, record)[j] = old[j]
          /\ Append(old, record)[Len(old) + 1] = record
          /\ Len(old) \in Nat /\ Len(new) \in Nat /\ DOMAIN old = 1..Len(old)
      BY <2>3, AppendProperties
    <3>2. new[i] = Append(old, record)[i + k] /\ i + k \in 1..(Len(old) + 1)
      BY <2>2, <3>1 DEF Remains
    <3>3. CASE i + k = Len(old) + 1
      BY <3>1, <3>2, <3>3
    <3>4. CASE i + k \in 1..Len(old)
      BY <3>1, <3>2, <3>4 DEF Range
    <3> QED
      BY <3>1, <3>2, <3>3, <3>4
  <2>8. /\ buffers'[p] = new /\ DOMAIN new = 1..Len(new)
        /\ \A q \in Ports \ {p} : buffers'[q] = buffers[q]
    BY <2>1 DEF LogInv, TypeOK
  <2>9. seen \subseteq seen'
    BY <2>5
  <2>10. ASSUME NEW q \in Ports, NEW i \in DOMAIN buffers'[q],
                buffers'[q][i].payload \in Matching
         PROVE  [port |-> q, dir |-> buffers'[q][i].dir] \in seen'
    <3>1. CASE q = p
      BY <2>6, <2>7, <2>8, <2>10, <3>1
    <3>2. CASE q # p
      BY <2>8, <2>9, <2>10, <3>2 DEF MatchesWereSeen
    <3> QED
      BY <3>1, <3>2
  <2> QED
    BY <2>10 DEF MatchesWereSeen
<1>2. CASE Restart
  BY <1>2 DEF Restart, MatchesWereSeen
<1>3. CASE UNCHANGED <<buffers, seen>>
  BY <1>3 DEF MatchesWereSeen
<1> QED
  BY <1>1, <1>2, <1>3
     DEF Next, ClientStep, Tick, SetBack, WaitBegin, Expire, WaitStep, WaitBlock, WaitSlice, WaitRecheck,
         WaitAnswer, ReadSince, agentVars, vars

\* A waiter that stops because of a match looked at the buffers to find it.
LEMMA MatchStep ==
    ASSUME LogInv, MatchesWereSeen, MatchIsReal, [Next]_vars
    PROVE  MatchIsReal'
<1>1. wait \in [Waiters -> [pc : {"idle", "checked", "blocked", "woken", "matched", "timedout"},
                           scope : SUBSET Ports, dirs : SUBSET Directions,
                           expired : BOOLEAN]]
  BY DEF LogInv, TypeOK
<1>2. ASSUME NEW p \in Ports, NEW dir \in Directions, NEW payload \in Payloads,
             Add(p, dir, payload)
      PROVE  MatchIsReal'
  <2>1. seen \subseteq seen' /\ Notify
    BY <1>2 DEF Add
  <2>2. \A w \in Waiters : wait'[w].pc = "matched" => wait'[w] = wait[w]
    BY <1>1, <2>1 DEF Notify
  <2> QED
    BY <2>1, <2>2 DEF MatchIsReal
<1>3. ASSUME NEW w \in Waiters, NEW scope \in Scopes, NEW includeTx \in BOOLEAN,
             WaitBegin(w, scope, includeTx)
      PROVE  MatchIsReal'
  <2>1. scope \in SUBSET Ports
    BY LogAssumption
  <2>2. /\ wait'[w].scope = scope /\ wait'[w].dirs = Watched(includeTx)
        /\ wait'[w].pc = "matched" => Found(scope, Watched(includeTx))
        /\ \A v \in Waiters \ {w} : wait'[v] = wait[v]
    BY <1>1, <1>3 DEF WaitBegin
  <2>3. seen' = seen
    BY <1>3 DEF WaitBegin, agentVars
  <2>4. Found(scope, Watched(includeTx)) =>
          \E r \in seen : r.port \in scope /\ r.dir \in Watched(includeTx)
    BY <2>1, FoundWasSeen DEF LogInv
  <2> QED
    BY <2>2, <2>3, <2>4 DEF MatchIsReal
<1>4. ASSUME NEW w \in Waiters, WaitRecheck(w)
      PROVE  MatchIsReal'
  <2>1. /\ wait'[w].scope = wait[w].scope /\ wait'[w].dirs = wait[w].dirs
        /\ wait'[w].pc = "matched" => Found(wait[w].scope, wait[w].dirs)
        /\ \A v \in Waiters \ {w} : wait'[v] = wait[v]
    BY <1>1, <1>4 DEF WaitRecheck
  <2>2. seen' = seen
    BY <1>4 DEF WaitRecheck, agentVars
  <2>3. wait[w].scope \in SUBSET Ports
    BY <1>1
  <2>4. Found(wait[w].scope, wait[w].dirs) =>
          \E r \in seen : r.port \in wait[w].scope /\ r.dir \in wait[w].dirs
    BY <2>3, FoundWasSeen DEF LogInv
  <2> QED
    BY <2>1, <2>2, <2>4 DEF MatchIsReal
<1>5. ASSUME NEW w \in Waiters,
             Expire(w) \/ WaitBlock(w) \/ WaitSlice(w) \/ WaitAnswer(w)
      PROVE  MatchIsReal'
  <2>1. seen' = seen
    BY <1>5 DEF Expire, WaitBlock, WaitSlice, WaitAnswer, agentVars
  <2>2. wait'[w].pc # "matched" /\ \A v \in Waiters \ {w} : wait'[v] = wait[v]
    BY <1>1, <1>5 DEF Expire, WaitBlock, WaitSlice, WaitAnswer, NoWait
  <2> QED
    BY <2>1, <2>2 DEF MatchIsReal
<1>6. CASE Restart
  BY <1>6 DEF Restart, MatchIsReal, NoWait
<1>7. CASE UNCHANGED <<seen, wait>>
  BY <1>7 DEF MatchIsReal
<1> QED
  BY <1>2, <1>3, <1>4, <1>5, <1>6, <1>7
     DEF Next, ClientStep, WaitStep, Tick, SetBack, ReadSince, agentVars, vars

(* A wait ends as satisfied by nothing but a record of a port it looks at, *)
(* in a direction it watches, that contains the pattern and was recorded   *)
(* since the agent started.                                                *)
THEOREM LogMatchIsReal == Spec => []MatchIsReal
<1>1. Init => MatchInv
  <2>1. Init => MatchesWereSeen
    BY DEF Init, MatchesWereSeen
  <2>2. Init => MatchIsReal
    BY DEF Init, MatchIsReal, NoWait
  <2> QED
    BY <2>1, <2>2, LogInit DEF MatchInv
<1>2. MatchInv /\ [Next]_vars => MatchInv'
  BY LogStep, SeenStep, MatchStep DEF MatchInv
<1>3. MatchInv => MatchIsReal
  BY DEF MatchInv
<1> QED
  BY <1>1, <1>2, <1>3, PTL DEF Spec

-----------------------------------------------------------------------------
(* While the wall clock was not set back                                   *)

\* The times of the records of a port ascend, up to the time it is now.
TimesAscend ==
    ~stepped => \A p \in Ports : \A i \in DOMAIN buffers[p] :
        /\ buffers[p][i].time <= clock
        /\ \A j \in DOMAIN buffers[p] : i <= j => buffers[p][i].time <= buffers[p][j].time

\* A record that is added comes after those that stay.
LEMMA TimesAdd ==
    ASSUME TypeOK, TimesAscend, ~stepped,
           NEW p \in Ports, NEW dir \in Directions, NEW payload \in Payloads,
           Add(p, dir, payload)
    PROVE  TimesAscend'
<1> DEFINE old == buffers[p]
           record == NewRecord(p, dir, payload)
<1>1. PICK new \in Seq(Record) :
         /\ buffers' = [buffers EXCEPT ![p] = new]
         /\ \E k \in Nat : Remains(new, Append(old, record), k)
  BY AddEffect
<1>2. PICK k \in Nat : Remains(new, Append(old, record), k)
  BY <1>1
<1>3. /\ old \in Seq(Record) /\ record \in Record /\ record.time = clock /\ clock \in Nat
      /\ clock' = clock
  BY NewRecordType DEF TypeOK, NewRecord, Add
<1>4. \A i \in 1..Len(old) :
         /\ old[i].time <= clock
         /\ \A j \in 1..Len(old) : i <= j => old[i].time <= old[j].time
  BY <1>3 DEF TimesAscend
<1> HIDE DEF old, record
<1>5. /\ Len(Append(old, record)) = Len(old) + 1
      /\ \A i \in 1..Len(old) : Append(old, record)[i] = old[i]
      /\ Append(old, record)[Len(old) + 1] = record
      /\ Len(old) \in Nat /\ Len(new) \in Nat /\ DOMAIN new = 1..Len(new)
  BY <1>3, AppendProperties
<1>6. /\ Len(new) = Len(old) + 1 - k
      /\ \A i \in 1..Len(new) : new[i] = Append(old, record)[i + k]
  BY <1>2, <1>5 DEF Remains
<1>7. \A i \in 1..(Len(old) + 1) :
         /\ Append(old, record)[i].time <= clock
         /\ \A j \in 1..(Len(old) + 1) : i <= j =>
               Append(old, record)[i].time <= Append(old, record)[j].time
  <2> SUFFICES ASSUME NEW i \in 1..(Len(old) + 1)
               PROVE  /\ Append(old, record)[i].time <= clock
                      /\ \A j \in 1..(Len(old) + 1) : i <= j =>
                            Append(old, record)[i].time <= Append(old, record)[j].time
    OBVIOUS
  <2>1. CASE i \in 1..Len(old)
    BY <1>3, <1>4, <1>5, <2>1, SMTT(30)
  <2>2. CASE i = Len(old) + 1
    BY <1>3, <1>5, <2>2
  <2> QED
    BY <1>5, <2>1, <2>2
<1>8. \A i \in 1..Len(new) : i + k \in 1..(Len(old) + 1)
  BY <1>5, <1>6
<1>9. \A i \in DOMAIN new :
         /\ new[i].time <= clock
         /\ \A j \in DOMAIN new : i <= j => new[i].time <= new[j].time
  <2> SUFFICES ASSUME NEW i \in DOMAIN new
               PROVE  /\ new[i].time <= clock
                      /\ \A j \in DOMAIN new : i <= j => new[i].time <= new[j].time
    OBVIOUS
  <2>1. new[i] = Append(old, record)[i + k] /\ i + k \in 1..(Len(old) + 1)
    BY <1>5, <1>6, <1>8
  <2>2. ASSUME NEW j \in DOMAIN new, i <= j PROVE new[i].time <= new[j].time
    <3>1. new[j] = Append(old, record)[j + k] /\ j + k \in 1..(Len(old) + 1)
      BY <1>5, <1>6, <1>8
    <3>2. i + k <= j + k
      BY <1>5, <2>2
    <3> QED
      BY <1>7, <2>1, <3>1, <3>2
  <2> QED
    BY <1>7, <2>1, <2>2
<1>10. buffers'[p] = new /\ \A q \in Ports \ {p} : buffers'[q] = buffers[q]
  BY <1>1 DEF TypeOK
<1> QED
  BY <1>3, <1>9, <1>10 DEF TimesAscend

\* Every step keeps the times ascending.
LEMMA TimesStep ==
    ASSUME TypeOK, TimesAscend, [Next]_vars
    PROVE  TimesAscend'
<1> SUFFICES ASSUME ~stepped' PROVE TimesAscend'
  BY DEF TimesAscend
<1>1. \/ \E p \in Ports, dir \in Directions, payload \in Payloads : Add(p, dir, payload)
      \/ Restart
      \/ SetBack
      \/ UNCHANGED <<buffers, stepped>> /\ (clock' = clock \/ clock' = clock + 1)
  BY DEF Next, ClientStep, Tick, WaitBegin, Expire, WaitStep, WaitBlock, WaitSlice, WaitRecheck,
         WaitAnswer, ReadSince, agentVars, vars
<1>2. ASSUME NEW p \in Ports, NEW dir \in Directions, NEW payload \in Payloads,
             Add(p, dir, payload)
      PROVE  TimesAscend'
  BY <1>2, TimesAdd DEF Add
<1>3. CASE Restart
  BY <1>3, EmptySeq DEF Restart, TimesAscend
<1>4. CASE UNCHANGED <<buffers, stepped>> /\ (clock' = clock \/ clock' = clock + 1)
  <2>1. \A p \in Ports : \A i \in DOMAIN buffers[p] : buffers[p][i].time \in Nat
    <3>1. \A p \in Ports : \A i \in DOMAIN buffers[p] : buffers[p][i] \in Record
      BY DEF TypeOK
    <3>2. \A r \in Record : r.time \in Nat
      BY DEF Record
    <3> QED
      BY <3>1, <3>2
  <2>2. clock \in Nat /\ ~stepped
    BY <1>4 DEF TypeOK
  <2>3. \A p \in Ports : \A i \in DOMAIN buffers[p] : buffers[p][i].time <= clock'
    BY <1>4, <2>1, <2>2 DEF TimesAscend
  <2> QED
    BY <1>4, <2>2, <2>3 DEF TimesAscend
<1> QED
  BY <1>1, <1>2, <1>3, <1>4 DEF SetBack

\* The sort by time is then the order of the buffer.
LEMMA EarlierIsBefore ==
    ASSUME TypeOK, BufferContiguous, TimesAscend, ~stepped, NEW p \in Ports,
           NEW i \in DOMAIN buffers[p], NEW j \in DOMAIN buffers[p]
    PROVE  /\ Earlier(buffers[p][i], buffers[p][j]) <=> i < j
           /\ buffers[p][i] = buffers[p][j] <=> i = j
           /\ buffers[p][i].sequence < buffers[p][j].sequence <=> i < j
<1> DEFINE a == buffers[p][i]
           b == buffers[p][j]
<1>1. /\ a.time \in Nat /\ b.time \in Nat /\ i \in Nat /\ j \in Nat
      /\ sequences[p] \in Nat /\ Len(buffers[p]) \in Nat
  <2>1. buffers[p] \in Seq(Record) /\ sequences[p] \in Nat
    BY DEF TypeOK
  <2>2. a \in Record /\ b \in Record /\ i \in Nat /\ j \in Nat /\ Len(buffers[p]) \in Nat
    BY <2>1
  <2>3. \A r \in Record : r.time \in Nat
    BY DEF Record
  <2> HIDE DEF a, b
  <2> QED
    BY <2>1, <2>2, <2>3
<1>2. /\ a.port = p /\ b.port = p
      /\ a.sequence = sequences[p] - Len(buffers[p]) + i
      /\ b.sequence = sequences[p] - Len(buffers[p]) + j
  BY DEF BufferContiguous
<1>3. /\ i <= j => a.time <= b.time
      /\ j <= i => b.time <= a.time
  BY DEF TimesAscend
<1> HIDE DEF a, b
<1>4. a.sequence < b.sequence <=> i < j
  BY <1>1, <1>2
<1>5. a = b => i = j
  BY <1>1, <1>2
<1>6. Earlier(a, b) <=> i < j
  BY <1>1, <1>2, <1>3, <1>4 DEF Earlier
<1> QED
  BY <1>4, <1>5, <1>6 DEF a, b

\* The latest records of a buffer are as many as their places.
LEMMA LatestCount ==
    ASSUME TypeOK, BufferContiguous, TimesAscend, ~stepped, NEW p \in Ports,
           NEW m \in 0..Len(buffers[p])
    PROVE  Cardinality({buffers[p][j] : j \in (m + 1)..Len(buffers[p])}) = Len(buffers[p]) - m
<1> DEFINE size == Len(buffers[p])
           places == (m + 1)..size
           S == {buffers[p][j] : j \in places}
           f == [j \in places |-> buffers[p][j]]
<1>1. size \in Nat /\ DOMAIN buffers[p] = 1..size /\ m \in Nat /\ m <= size
  BY DEF TypeOK
<1>2. IsFiniteSet(places) /\ Cardinality(places) = size - m
  <2>1. m + 1 \in Int /\ size \in Int
    BY <1>1
  <2>2. IsFiniteSet(places) /\ Cardinality(places) = IF m + 1 > size THEN 0 ELSE size - (m + 1) + 1
    BY <2>1, FS_Interval
  <2> QED
    BY <1>1, <2>2
<1>3. f \in [places -> S] /\ \A s \in S : \E j \in places : f[j] = s
  OBVIOUS
<1>4. \A j, k \in places : f[j] = f[k] => j = k
  <2>1. \A j \in places : j \in DOMAIN buffers[p]
    BY <1>1
  <2> QED
    BY <2>1, EarlierIsBefore
<1> HIDE DEF f, S, places
<1>5. ExistsBijection(places, S)
  BY <1>3, <1>4 DEF ExistsBijection, Bijection, Injection, Surjection, IsInjective
<1> QED
  BY <1>2, <1>5, FS_Bijection DEF S, places

\* While the times ascend, the tail is the end of the buffer.
LEMMA TailStep ==
    ASSUME TypeOK, BufferContiguous, TimesAscend
    PROVE  TailIsRecent
<1> SUFFICES ASSUME ~stepped, NEW p \in Ports, NEW n \in Limits
             PROVE  LET tail == TailAnswer({p}, n)
                    IN  /\ Cardinality(tail) = IF Len(buffers[p]) < n THEN Len(buffers[p]) ELSE n
                        /\ \A r \in tail, q \in Scoped({p}) \ tail : q.sequence < r.sequence
  BY DEF TailIsRecent
<1> DEFINE size == Len(buffers[p])
           records == Scoped({p})
           skipped == IF size < n THEN 0 ELSE size - n
           latest == {buffers[p][j] : j \in (skipped + 1)..size}
<1>1. /\ size \in Nat /\ DOMAIN buffers[p] = 1..size /\ n \in Nat
      /\ records = {buffers[p][i] : i \in 1..size}
  <2>1. buffers[p] \in Seq(Record)
    BY DEF TypeOK
  <2>2. size \in Nat /\ DOMAIN buffers[p] = 1..size
    BY <2>1
  <2>3. n \in Nat
    BY LogAssumption
  <2>4. records = {buffers[p][i] : i \in DOMAIN buffers[p]}
    BY DEF Scoped
  <2> HIDE DEF records, size
  <2> QED
    BY <2>2, <2>3, <2>4
<1>2. ASSUME NEW i \in 1..size
      PROVE  buffers[p][i] \in TailAnswer({p}, n) <=> i > skipped
  <2>1. {q \in records : Earlier(buffers[p][i], q)} = {buffers[p][j] : j \in (i + 1)..size}
    <3>1. \A j \in 1..size : Earlier(buffers[p][i], buffers[p][j]) <=> j \in (i + 1)..size
      BY <1>1, EarlierIsBefore
    <3>2. \A j \in (i + 1)..size : j \in 1..size
      BY <1>1
    <3> HIDE DEF records, size
    <3> QED
      BY <1>1, <3>1, <3>2
  <2>2. Cardinality({q \in records : Earlier(buffers[p][i], q)}) = size - i
    <3>1. i \in 0..Len(buffers[p])
      BY <1>1
    <3>2. Cardinality({buffers[p][j] : j \in (i + 1)..size}) = size - i
      BY <3>1, LatestCount
    <3> QED
      BY ONLY <2>1, <3>2
  <2>3. buffers[p][i] \in records
    BY <1>1
  <2>4. buffers[p][i] \in TailAnswer({p}, n) <=> size - i < n
    BY <2>2, <2>3 DEF TailAnswer, Newest
  <2> HIDE DEF size, records
  <2> QED
    BY <1>1, <2>4
<1>3. TailAnswer({p}, n) = latest
  <2>1. TailAnswer({p}, n) \subseteq records
    BY DEF TailAnswer, Newest
  <2>2. \A j \in (skipped + 1)..size : j \in 1..size /\ j > skipped
    BY <1>1
  <2>3. \A i \in 1..size : i > skipped => i \in (skipped + 1)..size
    BY <1>1
  <2> HIDE DEF size, records, skipped
  <2> QED
    BY <1>1, <1>2, <2>1, <2>2, <2>3
<1>4. Cardinality(latest) = size - skipped
  <2>1. skipped \in 0..size
    BY <1>1
  <2> HIDE DEF skipped
  <2> QED
    BY <2>1, LatestCount
<1>5. size - skipped = IF size < n THEN size ELSE n
  BY <1>1
<1>6. \A r \in latest, q \in records \ latest : q.sequence < r.sequence
  <2> SUFFICES ASSUME NEW j \in (skipped + 1)..size, NEW i \in 1..size, buffers[p][i] \notin latest
               PROVE  buffers[p][i].sequence < buffers[p][j].sequence
    BY <1>1
  <2>1. j \in 1..size /\ i < j
    BY <1>1
  <2> QED
    BY <1>1, <2>1, EarlierIsBefore
<1> QED
  BY <1>3, <1>4, <1>5, <1>6

(* While the wall clock is never set back, serial_tail brings the latest   *)
(* records of a port, as many as were asked for (agent.py 374-376).        *)
THEOREM LogTailIsRecent == Spec => []TailIsRecent
<1>1. Init => TimesAscend
  BY DEF Init, TimesAscend
<1>2. TypeOK /\ TimesAscend /\ [Next]_vars => TimesAscend'
  BY TimesStep
<1>3. TypeOK /\ BufferContiguous /\ TimesAscend => TailIsRecent
  BY TailStep
<1> QED
  BY <1>1, <1>2, <1>3, LogTypeOK, LogBufferContiguous, PTL DEF Spec

-----------------------------------------------------------------------------
(* `truncated' is no false alarm                                           *)

\* A poller of one port holds no number beyond its cursor, and the cursor none beyond the port's.
GotBehind ==
    \A c \in Pollers, p \in Ports : poll[c].scope = {p} /\ poll[c].epoch = epoch =>
        /\ poll[c].cursor <= sequences[p]
        /\ \A n \in poll[c].got : n <= poll[c].cursor

\* The numbers of an answer, and the new cursor of its poller.
LEMMA AnswerBounds ==
    ASSUME TypeOK, BufferContiguous, NEW c \in Pollers, NEW limit \in Limits, NEW p \in Ports,
           poll[c].scope = {p}
    PROVE  /\ \A n \in Numbers(c, limit) : n <= Next_sequence(c)
           /\ Next_sequence(c) = sequences[p]
<1> DEFINE records == Scoped({p})
           size == Len(buffers[p])
<1>1. buffers[p] \in Seq(Record) /\ sequences[p] \in Nat /\ size \in Nat
  BY DEF TypeOK
<1>2. /\ NextSequence(records) \in Nat
      /\ records = {} => NextSequence(records) = 0
      /\ records # {} =>
            /\ NextSequence(records) \in {r.sequence : r \in records}
            /\ \A r \in records : r.sequence <= NextSequence(records)
  BY NextSequenceIsGreatest
<1>3. \A n \in Numbers(c, limit) : n <= Next_sequence(c)
  BY <1>2 DEF Numbers, Next_sequence, Newest, After
<1>4. NextSequence(records) = sequences[p]
  <2>1. CASE size = 0
    <3>1. buffers[p] = <<>> /\ sequences[p] = 0
      BY <1>1, <2>1 DEF BufferContiguous
    <3>2. records = {}
      BY <3>1 DEF Scoped
    <3> QED
      BY <1>2, <3>1, <3>2
  <2>2. CASE size # 0
    <3>1. size \in DOMAIN buffers[p] /\ buffers[p][size] \in records
      BY <1>1, <2>2 DEF Scoped
    <3>2. buffers[p][size].sequence = sequences[p] - size + size
      BY <3>1 DEF BufferContiguous
    <3>3. \A r \in records : r.sequence <= sequences[p]
      BY <1>1, ScopedOnePort
    <3> HIDE DEF records, size
    <3> QED
      BY <1>1, <1>2, <3>1, <3>2, <3>3
  <2> QED
    BY <2>1, <2>2
<1> QED
  BY <1>3, <1>4 DEF Next_sequence

\* Every step keeps the pollers behind their cursors.
LEMMA GotBehindStep ==
    ASSUME LogInv, GotBehind, [Next]_vars
    PROVE  GotBehind'
<1> SUFFICES ASSUME NEW d \in Pollers, NEW p \in Ports, poll'[d].scope = {p},
                    poll'[d].epoch = epoch'
             PROVE  /\ poll'[d].cursor <= sequences'[p]
                    /\ \A n \in poll'[d].got : n <= poll'[d].cursor
  BY DEF GotBehind
<1>0. TypeOK /\ BufferContiguous /\ NoFutureEpoch
  BY DEF LogInv
<1>1. ASSUME NEW c \in Pollers, NEW limit \in Limits, ReadSince(c, limit)
      PROVE  /\ poll'[d].cursor <= sequences'[p]
             /\ \A n \in poll'[d].got : n <= poll'[d].cursor
  <2> DEFINE me == poll[c]
             new == Received(me, Numbers(c, limit), Next_sequence(c), Warns(c, limit))
  <2>1. poll' = [poll EXCEPT ![c] = new] /\ sequences' = sequences /\ epoch' = epoch
    BY <1>0, <1>1, ReadSinceEffect
  <2>2. poll'[c] = new /\ (d # c => poll'[d] = poll[d])
    BY <1>0, <2>1 DEF TypeOK
  <2>3. /\ new.cursor = Next_sequence(c) /\ new.scope = me.scope
        /\ new.got = Numbers(c, limit) \cup (IF me.epoch # epoch THEN {} ELSE me.got)
    BY DEF Received
  <2> HIDE DEF new
  <2>4. CASE d = c
    <3>1. me.scope = {p}
      BY <2>2, <2>3, <2>4
    <3>2. /\ \A n \in Numbers(c, limit) : n <= Next_sequence(c)
          /\ Next_sequence(c) = sequences[p]
      BY <1>0, <3>1, AnswerBounds
    <3>3. me.epoch = epoch => me.cursor <= sequences[p] /\ \A n \in me.got : n <= me.cursor
      BY <3>1 DEF GotBehind
    <3>4. me.got \subseteq Nat /\ me.cursor \in Nat /\ sequences[p] \in Nat
      BY <1>0, AnswerType DEF TypeOK, PollType
    <3>5. \A n \in me.got : me.epoch = epoch => n <= sequences[p]
      BY <3>3, <3>4
    <3> HIDE DEF me
    <3> QED
      BY <2>1, <2>2, <2>3, <2>4, <3>2, <3>4, <3>5
  <2>5. CASE d # c
    BY <2>1, <2>2, <2>5 DEF GotBehind
  <2> QED
    BY <2>4, <2>5
<1>2. CASE Restart
  <2>1. poll'[d].epoch <= epoch /\ epoch' = epoch + 1 /\ epoch \in Nat /\ poll'[d].epoch \in Nat
    BY <1>0, <1>2 DEF Restart, NoFutureEpoch, TypeOK
  <2> QED
    BY <2>1
<1>3. ASSUME UNCHANGED <<poll, epoch>>, sequences'[p] >= sequences[p]
      PROVE  /\ poll'[d].cursor <= sequences'[p]
             /\ \A n \in poll'[d].got : n <= poll'[d].cursor
  <2>1. poll[d].cursor <= sequences[p] /\ \A n \in poll[d].got : n <= poll[d].cursor
    BY <1>3 DEF GotBehind
  <2>2. poll[d].cursor \in Nat /\ sequences[p] \in Nat
    BY <1>0 DEF TypeOK
  <2>3. sequences'[p] \in Nat
    BY <1>0, LogTypeStep DEF TypeOK
  <2> QED
    BY <1>3, <2>1, <2>2, <2>3
<1>4. \/ \E c \in Pollers, limit \in Limits : ReadSince(c, limit)
      \/ Restart
      \/ \E q \in Ports, dir \in Directions, payload \in Payloads : Add(q, dir, payload)
      \/ UNCHANGED <<poll, epoch, sequences>>
  BY DEF Next, ClientStep, Tick, SetBack, WaitBegin, Expire, WaitStep, WaitBlock, WaitSlice,
         WaitRecheck, WaitAnswer, agentVars, vars
<1>5. sequences[p] \in Nat
  BY <1>0 DEF TypeOK
<1>6. ASSUME NEW q \in Ports, NEW dir \in Directions, NEW payload \in Payloads,
             Add(q, dir, payload)
      PROVE  UNCHANGED <<poll, epoch>> /\ sequences'[p] >= sequences[p]
  BY <1>0, <1>5, <1>6 DEF Add, TypeOK
<1> QED
  BY <1>1, <1>2, <1>3, <1>4, <1>5, <1>6

\* Every record of a port is in its place by its number.
LEMMA RecordsByNumber ==
    ASSUME TypeOK, BufferContiguous, TimesAscend, ~stepped, NEW p \in Ports
    PROVE  /\ Len(buffers[p]) \in Nat /\ sequences[p] \in Nat
           /\ Scoped({p}) = {buffers[p][i] : i \in 1..Len(buffers[p])}
           /\ \A i \in 1..Len(buffers[p]) :
                 buffers[p][i].sequence = sequences[p] - Len(buffers[p]) + i
           /\ \A q, r \in Scoped({p}) : Earlier(q, r) <=> q.sequence < r.sequence
           /\ \A q, r \in Scoped({p}) : q.sequence = r.sequence => q = r
<1> DEFINE size == Len(buffers[p])
           base == sequences[p] - size
<1>1. buffers[p] \in Seq(Record) /\ sequences[p] \in Nat
  BY DEF TypeOK
<1>2. size \in Nat /\ DOMAIN buffers[p] = 1..size
  BY <1>1
<1>3. Scoped({p}) = {buffers[p][i] : i \in DOMAIN buffers[p]}
  BY DEF Scoped
<1>4. \A i \in DOMAIN buffers[p] : buffers[p][i].sequence = base + i
  BY DEF BufferContiguous
<1>5. \A i, j \in DOMAIN buffers[p] :
         /\ Earlier(buffers[p][i], buffers[p][j]) <=> i < j
         /\ buffers[p][i].sequence < buffers[p][j].sequence <=> i < j
  BY EarlierIsBefore
<1>6. \A i, j \in DOMAIN buffers[p] :
         buffers[p][i].sequence = buffers[p][j].sequence => i = j
  <2>1. base \in Int
    BY <1>1, <1>2
  <2> HIDE DEF size, base
  <2> QED
    BY <1>2, <1>4, <2>1
<1> QED
  <2> HIDE DEF base
  <2>1. \A q, r \in Scoped({p}) : Earlier(q, r) <=> q.sequence < r.sequence
    BY ONLY <1>3, <1>5
  <2>2. \A q, r \in Scoped({p}) : q.sequence = r.sequence => q = r
    BY ONLY <1>3, <1>6
  <2>3. Scoped({p}) = {buffers[p][i] : i \in 1..size}
    BY ONLY <1>2, <1>3
  <2>4. \A i \in 1..size : buffers[p][i].sequence = sequences[p] - size + i
    BY ONLY <1>2, <1>4 DEF base
  <2> QED
    BY <1>1, <1>2, <2>1, <2>2, <2>3, <2>4

\* When more records lie after the cursor than the answer holds, the first of them is left out.
LEMMA FirstIsLeftOut ==
    ASSUME TypeOK, BufferContiguous, TimesAscend, ~stepped, NEW p \in Ports, NEW cursor \in Nat,
           NEW limit \in Limits, Cardinality(After(Scoped({p}), cursor)) > limit
    PROVE  \E r \in After(Scoped({p}), cursor) : r \notin Newest(After(Scoped({p}), cursor), limit)
<1> DEFINE records == Scoped({p})
           later == After(records, cursor)
           size == Len(buffers[p])
           base == sequences[p] - size
           m == IF cursor <= base THEN 1 ELSE cursor - base + 1
           first == buffers[p][m]
<1>1. limit \in Nat /\ limit > 0
  BY LogAssumption
<1>2. IsFiniteSet(later)
  <2>1. {p} \in SUBSET Ports
    OBVIOUS
  <2>2. IsFiniteSet(records)
    BY <2>1, ScopedType
  <2>3. later \subseteq records
    BY DEF After
  <2> QED
    BY <2>2, <2>3, FS_Subset
<1>3. /\ size \in Nat /\ sequences[p] \in Nat /\ base \in Int
      /\ records = {buffers[p][i] : i \in 1..size}
      /\ \A i \in 1..size : buffers[p][i].sequence = base + i
      /\ \A q, r \in records : Earlier(q, r) <=> q.sequence < r.sequence
      /\ \A q, r \in records : q.sequence = r.sequence => q = r
  <2>1. size \in Nat /\ sequences[p] \in Nat
    BY RecordsByNumber
  <2>2. base \in Int
    BY <2>1
  <2>3. /\ records = {buffers[p][i] : i \in 1..size}
        /\ \A q, r \in records : Earlier(q, r) <=> q.sequence < r.sequence
        /\ \A q, r \in records : q.sequence = r.sequence => q = r
    BY RecordsByNumber
  <2>4. \A i \in 1..size : buffers[p][i].sequence = base + i
    BY RecordsByNumber
  <2> HIDE DEF records, size, base
  <2> QED
    BY <2>1, <2>2, <2>3, <2>4
<1>4. later # {}
  BY <1>1, FS_EmptySet
<1>5. later = {q \in records : q.sequence > cursor}
  BY DEF After
<1> HIDE DEF records, later, size, base
<1>6. PICK j \in 1..size : base + j > cursor
  BY <1>3, <1>4, <1>5
<1>7. m \in 1..size /\ base + m > cursor /\ \A i \in 1..size : base + i > cursor => m <= i
  BY <1>3, <1>6
<1> HIDE DEF m
<1>8. first \in later /\ first \in records /\ first.sequence = base + m
  BY <1>3, <1>5, <1>7
<1>9. \A q \in later : q \in records /\ q.sequence \in Int /\ first.sequence <= q.sequence
  BY <1>3, <1>5, <1>7, <1>8
<1>10. first.sequence \in Int
  BY <1>3, <1>7, <1>8
<1> HIDE DEF first
<1>11. {q \in later : Earlier(first, q)} = later \ {first}
  <2>1. \A q \in later : Earlier(first, q) <=> q # first
    <3> SUFFICES ASSUME NEW q \in later
                 PROVE  Earlier(first, q) <=> q # first
      OBVIOUS
    <3>1. Earlier(first, q) <=> first.sequence < q.sequence
      BY <1>3, <1>8, <1>9
    <3>2. q.sequence = first.sequence => q = first
      BY <1>3, <1>8, <1>9
    <3> QED
      BY <1>9, <1>10, <3>1, <3>2
  <2> QED
    BY <2>1
<1>12. Cardinality(later \ {first}) >= limit
  <2>1. Cardinality(later \ {first}) = Cardinality(later) - 1 /\ Cardinality(later) \in Nat
    BY <1>2, <1>8, FS_RemoveElement, FS_CardinalityType
  <2>2. Cardinality(later) > limit
    BY DEF later, records
  <2> QED
    BY <1>1, <2>1, <2>2
<1>13. first \notin Newest(later, limit)
  <2>1. Cardinality(later \ {first}) \in Nat
    BY <1>2, FS_RemoveElement, FS_CardinalityType
  <2>2. first \in Newest(later, limit) => Cardinality({q \in later : Earlier(first, q)}) < limit
    BY DEF Newest
  <2> QED
    BY <1>1, <1>11, <1>12, <2>1, <2>2
<1> QED
  BY <1>8, <1>13 DEF later, records

\* An answer that warns leaves a number out between the cursor and the last one.
LEMMA WarningLeavesOut ==
    ASSUME TypeOK, BufferContiguous, TimesAscend, ~stepped, NEW c \in Pollers, NEW limit \in Limits,
           NEW p \in Ports, poll[c].scope = {p}, Warns(c, limit)
    PROVE  \E n \in (poll[c].cursor + 1)..sequences[p] : n \notin Numbers(c, limit)
<1> DEFINE records == Scoped({p})
           cursor == poll[c].cursor
           later == After(records, cursor)
<1>1. cursor \in Nat /\ sequences[p] \in Nat
  BY DEF TypeOK
<1>2. \A q \in records : q.sequence \in Int /\ q.sequence <= sequences[p]
  <2>1. Len(buffers[p]) \in Nat
    BY RecordsByNumber
  <2> QED
    BY <1>1, <2>1, ScopedOnePort
<1>3. /\ \A q, r \in records : Earlier(q, r) <=> q.sequence < r.sequence
      /\ \A q, r \in records : q.sequence = r.sequence => q = r
  BY RecordsByNumber
<1>4. /\ Numbers(c, limit) = {r.sequence : r \in Newest(later, limit)}
      /\ Newest(later, limit) \subseteq later /\ later \subseteq records
      /\ \A q \in later : q.sequence > cursor
  BY DEF Numbers, Newest, After
<1>5. CASE Cardinality(later) > limit
  <2>1. PICK r \in later : r \notin Newest(later, limit)
    BY <1>1, <1>5, FirstIsLeftOut
  <2> HIDE DEF later, records, cursor
  <2>2. r.sequence \notin Numbers(c, limit)
    BY <1>3, <1>4, <2>1
  <2>3. r.sequence \in (cursor + 1)..sequences[p]
    BY <1>1, <1>2, <1>4, <2>1
  <2> QED
    BY <2>2, <2>3 DEF cursor
<1>6. ASSUME NEW o \in records, IsOldest(o, records), cursor < o.sequence - 1
      PROVE  \E n \in (cursor + 1)..sequences[p] : n \notin Numbers(c, limit)
  <2>1. \A q \in records : ~(q.sequence < o.sequence)
    BY <1>3, <1>6 DEF IsOldest
  <2> HIDE DEF later, records, cursor
  <2>2. \A q \in records : q.sequence # cursor + 1
    BY <1>1, <1>2, <1>6, <2>1
  <2>3. cursor + 1 \notin Numbers(c, limit)
    BY <1>4, <2>2
  <2>4. cursor + 1 \in (cursor + 1)..sequences[p]
    BY <1>1, <1>2, <1>6
  <2> QED
    BY <2>3, <2>4
<1> QED
  BY <1>5, <1>6 DEF Warns, Truncated

\* A step whose answer warns gives its poller less than there was.
LEMMA FalseAlarmStep ==
    ASSUME LogInv, GotBehind, TimesAscend, [Next]_vars, NEW c \in Pollers,
           poll'[c] # poll[c], poll'[c].truncated, OnePort(c), ~stepped
    PROVE  \E n \in (poll[c].cursor + 1)..poll'[c].cursor : n \notin poll'[c].got
<1>0. TypeOK /\ BufferContiguous
  BY DEF LogInv
<1>1. PICK limit \in Limits : ReadSince(c, limit)
  <2>1. poll' # poll
    OBVIOUS
  <2>2. \E d \in Pollers, limit \in Limits : ReadSince(d, limit)
    BY <2>1 DEF Next, ClientStep, Add, Restart, Tick, SetBack, WaitBegin, Expire, WaitStep,
                WaitBlock, WaitSlice, WaitRecheck, WaitAnswer, vars
  <2>3. PICK d \in Pollers, limit \in Limits : ReadSince(d, limit)
    BY <2>2
  <2>4. d = c
    BY <1>0, <2>3, ReadSinceEffect DEF TypeOK
  <2> QED
    BY <2>3, <2>4
<1> DEFINE me == poll[c]
           new == Received(me, Numbers(c, limit), Next_sequence(c), Warns(c, limit))
<1>2. PICK p \in Ports : me.scope = {p}
  BY DEF OnePort
<1>3. poll'[c] = new
  <2>1. poll' = [poll EXCEPT ![c] = new]
    BY <1>0, <1>1, ReadSinceEffect
  <2> QED
    BY <1>0, <2>1 DEF TypeOK
<1>4. /\ new.cursor = Next_sequence(c) /\ new.truncated = Warns(c, limit)
      /\ new.got = Numbers(c, limit) \cup (IF me.epoch # epoch THEN {} ELSE me.got)
  BY DEF Received
<1> HIDE DEF new
<1>5. PICK n \in (me.cursor + 1)..sequences[p] : n \notin Numbers(c, limit)
  BY <1>0, <1>2, <1>3, <1>4, WarningLeavesOut
<1>6. Next_sequence(c) = sequences[p]
  BY <1>0, <1>2, AnswerBounds
<1>7. me.epoch = epoch => n \notin me.got
  <2>1. me.cursor \in Nat /\ sequences[p] \in Nat /\ me.got \subseteq Nat
    BY <1>0 DEF TypeOK
  <2>2. me.epoch = epoch => \A k \in me.got : k <= me.cursor
    BY <1>2 DEF GotBehind
  <2> QED
    BY <1>5, <2>1, <2>2
<1> QED
  BY <1>3, <1>4, <1>5, <1>6, <1>7

(* While the wall clock is never set back, an answer to a poller of one    *)
(* port that says `truncated' leaves out a record after the cursor it was  *)
(* asked with (agent.py 333-335).                                          *)
THEOREM LogNoFalseAlarm == Spec => NoFalseAlarm
<1>1. Init => GotBehind /\ TimesAscend
  <2>1. Init => TimesAscend
    BY DEF Init, TimesAscend
  <2>2. Init => GotBehind
    BY DEF Init, GotBehind, NewPoller
  <2> QED
    BY <2>1, <2>2
<1>2. LogInv /\ GotBehind /\ TimesAscend /\ [Next]_vars => GotBehind' /\ TimesAscend'
  <2>1. LogInv => TypeOK
    BY DEF LogInv
  <2> QED
    BY <2>1, GotBehindStep, TimesStep
<1>3. LogInv /\ GotBehind /\ TimesAscend /\ [Next]_vars =>
        [\A c \in Pollers :
            poll'[c] # poll[c] /\ poll'[c].truncated /\ OnePort(c) /\ ~stepped =>
               \E n \in (poll[c].cursor + 1)..poll'[c].cursor : n \notin poll'[c].got]_vars
  BY FalseAlarmStep
<1> QED
  BY <1>1, <1>2, <1>3, LogInvariant, PTL DEF Spec, NoFalseAlarm
=============================================================================
