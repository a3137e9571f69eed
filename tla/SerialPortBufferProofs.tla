------------------------ MODULE SerialPortBufferProofs ------------------------
(***************************************************************************)
(* What append does to the bounded record store, for every bound and every *)
(* sequence of records.                                                    *)
(***************************************************************************)
EXTENDS SerialPortBuffer, SequenceTheorems, WellFoundedInduction, TLAPS

\* One record weighs its size (the `bytes' counter after the first append).
LEMMA BytesOfOne ==
    ASSUME NEW record, record.size \in Nat
    PROVE  Bytes(<<record>>) = record.size
<1> DEFINE upTo[i \in 0..1] == IF i = 0 THEN 0 ELSE upTo[i - 1] + <<record>>[i].size
<1>1. upTo = CHOOSE f : f = [i \in 0..1 |-> IF i = 0 THEN 0 ELSE f[i - 1] + <<record>>[i].size]
  BY DEF upTo
<1>2. Bytes(<<record>>) = upTo[1]
  BY DEF Bytes
<1> DEFINE g == [i \in 0..1 |-> IF i = 0 THEN 0 ELSE record.size]
<1>3. g = [i \in 0..1 |-> IF i = 0 THEN 0 ELSE g[i - 1] + <<record>>[i].size]
  OBVIOUS
<1>4. upTo = [i \in 0..1 |-> IF i = 0 THEN 0 ELSE upTo[i - 1] + <<record>>[i].size]
  BY <1>1, <1>3
<1> HIDE DEF upTo
<1>5. upTo[0] = 0
  BY <1>4
<1>6. upTo[1] = upTo[0] + record.size
  BY <1>4
<1> QED
  BY <1>2, <1>5, <1>6

\* `new' is what remains of `all' without its k oldest members.
Remains(new, all, k) ==
    /\ Len(new) = Len(all) - k
    /\ \A i \in 1..Len(new) : new[i] = all[i + k]

(* append leaves a suffix of the records with the new one at the end: it   *)
(* never reorders or rewrites any.                                         *)
LEMMA AppendedIsSuffix ==
    ASSUME NEW S, NEW records \in Seq(S), NEW record \in S, ~(record.size > MaxBytes),
           NEW new \in Appended(records, record)
    PROVE  /\ new \in Seq(S)
           /\ \E k \in Nat : Remains(new, Append(records, record), k)
<1> DEFINE all == Append(records, record)
<1>1. all \in Seq(S) /\ Len(all) = Len(records) + 1
  BY AppendProperties
<1>2. PICK k \in 0..Len(all) : new = WithoutOldest(all, k)
  BY DEF Appended
<1>3. \A i \in (k + 1)..Len(all) : all[i] \in S
  BY <1>1
<1> HIDE DEF all
<1>4. new \in Seq(S) /\ Remains(new, all, k)
  <2>1. k + 1 \in Int /\ Len(all) \in Int
    BY <1>1
  <2>2. /\ SubSeq(all, k + 1, Len(all)) \in Seq(S)
        /\ Len(SubSeq(all, k + 1, Len(all)))
           = IF k + 1 <= Len(all) THEN Len(all) - (k + 1) + 1 ELSE 0
        /\ \A i \in 1..(Len(all) - (k + 1) + 1) :
              SubSeq(all, k + 1, Len(all))[i] = all[k + 1 + i - 1]
    BY <1>3, <2>1, SubSeqProperties
  <2> QED
    BY <1>1, <1>2, <2>2 DEF WithoutOldest, Remains
<1>5. k \in Nat
  BY <1>1
<1> QED
  BY <1>4, <1>5 DEF all

\* A record larger than the buffer changes nothing; the type holds either way.
LEMMA AppendedType ==
    ASSUME NEW S, NEW records \in Seq(S), NEW record \in S,
           NEW new \in Appended(records, record)
    PROVE  new \in Seq(S)
<1>1. CASE record.size > MaxBytes
  BY <1>1 DEF Appended
<1>2. CASE ~(record.size > MaxBytes)
  BY <1>2, AppendedIsSuffix
<1> QED
  BY <1>1, <1>2

(* The newest record survives its own append: the loop of append stops     *)
(* before it pops a record that fits into the buffer by itself.            *)
LEMMA AppendedKeepsNewest ==
    ASSUME NEW S, NEW records \in Seq(S), NEW record \in S,
           record.size \in 0..MaxBytes,
           NEW new \in Appended(records, record)
    PROVE  new # <<>> /\ new[Len(new)] = record
<1> DEFINE all == Append(records, record)
<1>1. /\ all \in Seq(S) /\ Len(all) = Len(records) + 1
      /\ all[Len(all)] = record
  BY AppendProperties
<1>2. ~(record.size > MaxBytes)
  BY BufferAssumption
<1>3. PICK k \in 0..Len(all) : new = WithoutOldest(all, k) /\ StopsAfter(all, k)
  BY <1>2 DEF Appended
<1> HIDE DEF all
<1>4. k # Len(all)
  <2> SUFFICES ASSUME k = Len(all)
               PROVE  FALSE
    OBVIOUS
  <2>1. ~Fits(WithoutOldest(all, Len(records)))
    BY <1>1, <1>3 DEF StopsAfter
  <2>2. WithoutOldest(all, Len(records)) = <<record>>
    <3> DEFINE last == SubSeq(all, Len(all), Len(all))
    <3>1. last \in Seq(S) /\ Len(last) = 1 /\ last[1] = record
      <4>1. \A i \in Len(all)..Len(all) : all[i] \in S
        BY <1>1
      <4>2. /\ last \in Seq(S)
            /\ Len(last) = IF Len(all) <= Len(all) THEN Len(all) - Len(all) + 1 ELSE 0
            /\ \A i \in 1..(Len(all) - Len(all) + 1) : last[i] = all[Len(all) + i - 1]
        BY <1>1, <4>1, SubSeqProperties
      <4> QED
        BY <1>1, <4>2
    <3>2. WithoutOldest(all, Len(records)) = last
      BY <1>1 DEF WithoutOldest
    <3> HIDE DEF last
    <3>3. last = <<record>>
      BY <3>1
    <3> QED
      BY <3>2, <3>3
  <2>3. Fits(<<record>>)
    BY BytesOfOne, BufferAssumption DEF Fits
  <2> QED
    BY <2>1, <2>2, <2>3
<1>5. /\ Len(new) = Len(all) - k
      /\ \A i \in 1..Len(new) : new[i] = all[i + k]
  <2>1. \A i \in (k + 1)..Len(all) : all[i] \in S
    BY <1>1
  <2>2. /\ Len(SubSeq(all, k + 1, Len(all)))
           = IF k + 1 <= Len(all) THEN Len(all) - (k + 1) + 1 ELSE 0
        /\ \A i \in 1..(Len(all) - (k + 1) + 1) :
              SubSeq(all, k + 1, Len(all))[i] = all[k + 1 + i - 1]
    BY <1>1, <2>1, SubSeqProperties
  <2> QED
    BY <1>1, <1>3, <2>2 DEF WithoutOldest
<1> QED
  BY <1>1, <1>4, <1>5

-----------------------------------------------------------------------------
(* The byte counter                                                        *)

(* Every set of naturals has a least member: with it, what holds at 0 and  *)
(* is handed on to the next number holds for all, by a least counterexample. *)
LEMMA LeastNatural ==
    ASSUME NEW S \in SUBSET Nat, S # {}
    PROVE  \E m \in S : \A n \in S : m <= n
<1>1. IsWellFoundedOn(OpToRel(<, Nat), Nat)
  BY NatLessThanWellFounded
<1>2. \E m \in S : \A n \in S : ~(<<n, m>> \in OpToRel(<, Nat))
  BY <1>1, WFMin
<1>3. \E m \in S : \A n \in S : ~(n < m)
  BY <1>2 DEF OpToRel
<1> QED
  BY <1>3

\* f counts up the sizes of the records.
Counts(f, records) ==
    /\ f \in [0..Len(records) -> Nat]
    /\ f[0] = 0
    /\ \A i \in 1..Len(records) : f[i] = f[i - 1] + records[i].size

\* Such a function exists for the records before any position.
LEMMA CountExists ==
    ASSUME NEW S, NEW records \in Seq(S), \A r \in S : r.size \in Nat
    PROVE  \E f : Counts(f, records)
<1> DEFINE Good(n) == \E f : /\ f \in [0..n -> Nat] /\ f[0] = 0
                             /\ \A i \in 1..n : f[i] = f[i - 1] + records[i].size
           Bad == {n \in 0..Len(records) : ~Good(n)}
<1>1. Len(records) \in Nat /\ \A i \in 1..Len(records) : records[i].size \in Nat
  OBVIOUS
<1>2. ASSUME Bad # {}
      PROVE  FALSE
  <2>1. PICK m \in Bad : \A n \in Bad : m <= n
    <3>1. Bad \in SUBSET Nat
      BY <1>1
    <3> HIDE DEF Bad
    <3> QED
      BY <1>2, <3>1, LeastNatural
  <2>2. m # 0
    <3>1. Good(0)
      <4> DEFINE f == [i \in 0..0 |-> 0]
      <4>1. /\ f \in [0..0 -> Nat] /\ f[0] = 0
            /\ \A i \in 1..0 : f[i] = f[i - 1] + records[i].size
        OBVIOUS
      <4> QED
        BY <4>1
    <3> QED
      BY <3>1
  <2>3. m - 1 \in 0..Len(records) /\ m \in 1..Len(records)
    BY <1>1, <2>2
  <2>4. Good(m - 1)
    <3>1. m \in Nat /\ ~(m <= m - 1)
      BY <1>1, <2>3
    <3> HIDE DEF Good
    <3>2. ~Good(m - 1) => m - 1 \in Bad
      BY <2>3
    <3> HIDE DEF Bad
    <3> QED
      BY <2>1, <3>1, <3>2
  <2>5. PICK f : /\ f \in [0..(m - 1) -> Nat] /\ f[0] = 0
                 /\ \A i \in 1..(m - 1) : f[i] = f[i - 1] + records[i].size
    BY <2>4
  <2> DEFINE g == [i \in 0..m |-> IF i = m THEN f[m - 1] + records[m].size ELSE f[i]]
  <2>6. /\ g \in [0..m -> Nat] /\ g[0] = 0
        /\ \A i \in 1..m : g[i] = g[i - 1] + records[i].size
    <3> HIDE DEF Bad, Good
    <3>1. m \in Nat /\ m # 0 /\ records[m].size \in Nat
      BY <1>1, <2>2, <2>3
    <3>2. \A i \in 0..m : i # m => i \in 0..(m - 1)
      BY <3>1
    <3>3. f[m - 1] \in Nat
      BY <2>5, <3>1
    <3>4. \A i \in 0..m : g[i] \in Nat
      BY <2>5, <3>1, <3>2, <3>3
    <3>5. \A i \in 1..m : i - 1 \in 0..m /\ i - 1 # m /\ i \in 0..m
      BY <3>1
    <3>6. \A i \in 1..m : g[i] = g[i - 1] + records[i].size
      BY <2>5, <3>1, <3>2, <3>5
    <3>7. g[0] = 0
      BY <2>5, <3>1
    <3>8. g = [i \in 0..m |-> g[i]]
      OBVIOUS
    <3> HIDE DEF g
    <3>9. g \in [0..m -> Nat]
      BY <3>4, <3>8
    <3> QED
      BY <3>6, <3>7, <3>9
  <2>7. Good(m)
    BY <2>6
  <2> QED
    BY <2>7
<1>3. Good(Len(records))
  BY <1>1, <1>2
<1> QED
  BY <1>3 DEF Counts

\* Two counts agree as long as they count the same records.
LEMMA CountsAgree ==
    ASSUME NEW S, NEW s \in Seq(S), NEW t \in Seq(S), \A r \in S : r.size \in Nat,
           NEW n \in 0..Len(s), n <= Len(t), \A i \in 1..n : s[i] = t[i],
           NEW f, Counts(f, s), NEW g, Counts(g, t)
    PROVE  f[n] = g[n]
<1> DEFINE Bad == {i \in 0..n : f[i] # g[i]}
<1>1. Len(s) \in Nat /\ Len(t) \in Nat /\ n \in Nat
  OBVIOUS
<1>2. ASSUME Bad # {}
      PROVE  FALSE
  <2>1. PICK m \in Bad : \A i \in Bad : m <= i
    <3>1. Bad \in SUBSET Nat
      BY <1>1
    <3> HIDE DEF Bad
    <3> QED
      BY <1>2, <3>1, LeastNatural
  <2>2. m \in 0..n /\ m # 0
    BY DEF Counts
  <2>3. m - 1 \in 0..n /\ m \in 1..Len(s) /\ m \in 1..Len(t) /\ m \in 1..n
    BY <1>1, <2>2
  <2>4. f[m - 1] = g[m - 1]
    BY <1>1, <2>1, <2>3
  <2>5. f[m] = g[m]
    BY <2>3, <2>4 DEF Counts
  <2> QED
    BY <2>1, <2>5
<1> QED
  BY <1>1, <1>2

\* The byte counter is the last of the counts.
LEMMA BytesCounts ==
    ASSUME NEW S, NEW records \in Seq(S), \A r \in S : r.size \in Nat
    PROVE  \E f : Counts(f, records) /\ Bytes(records) = f[Len(records)]
<1> DEFINE upTo[i \in 0..Len(records)] == IF i = 0 THEN 0 ELSE upTo[i - 1] + records[i].size
<1>1. upTo = CHOOSE f : f = [i \in 0..Len(records) |-> IF i = 0 THEN 0
                                                       ELSE f[i - 1] + records[i].size]
  BY DEF upTo
<1>2. Bytes(records) = upTo[Len(records)]
  BY DEF Bytes
<1>3. PICK g : Counts(g, records)
  BY CountExists
<1>4. g = [i \in 0..Len(records) |-> IF i = 0 THEN 0 ELSE g[i - 1] + records[i].size]
  <2>1. \A i \in 0..Len(records) : g[i] = IF i = 0 THEN 0 ELSE g[i - 1] + records[i].size
    BY <1>3 DEF Counts
  <2> QED
    BY <1>3, <2>1 DEF Counts
<1>5. upTo = [i \in 0..Len(records) |-> IF i = 0 THEN 0 ELSE upTo[i - 1] + records[i].size]
  BY <1>1, <1>4
<1> HIDE DEF upTo
<1>6. \A i \in 0..Len(records) : upTo[i] = IF i = 0 THEN 0 ELSE upTo[i - 1] + records[i].size
  BY <1>5
<1>7. upTo[0] = 0 /\ \A i \in 1..Len(records) : upTo[i] = upTo[i - 1] + records[i].size
  BY <1>6
<1> DEFINE Bad == {i \in 0..Len(records) : upTo[i] # g[i]}
<1>8. ASSUME Bad # {}
      PROVE  FALSE
  <2>1. PICK m \in Bad : \A i \in Bad : m <= i
    <3>1. Bad \in SUBSET Nat
      OBVIOUS
    <3> HIDE DEF Bad
    <3> QED
      BY <1>8, <3>1, LeastNatural
  <2>2. m # 0
    BY <1>3, <1>7 DEF Counts
  <2>3. m - 1 \in 0..Len(records) /\ m \in 1..Len(records)
    BY <2>2
  <2>4. upTo[m - 1] = g[m - 1]
    BY <2>1, <2>3
  <2>5. upTo[m] = g[m]
    BY <1>3, <1>7, <2>3, <2>4 DEF Counts
  <2> QED
    BY <2>1, <2>5
<1>9. upTo[Len(records)] = g[Len(records)]
  BY <1>8
<1> QED
  BY <1>2, <1>3, <1>9

\* The counter starts at zero and grows by the size of what is appended.
LEMMA BytesOfAppend ==
    ASSUME NEW S, NEW records \in Seq(S), NEW record \in S, \A r \in S : r.size \in Nat
    PROVE  /\ Bytes(records) \in Nat
           /\ Bytes(<<>>) = 0
           /\ Bytes(Append(records, record)) = Bytes(records) + record.size
<1> DEFINE all == Append(records, record)
           n == Len(records)
<1>1. /\ all \in Seq(S) /\ Len(all) = n + 1 /\ n \in Nat
      /\ \A i \in 1..n : all[i] = records[i]
      /\ all[n + 1] = record
  BY AppendProperties, LenProperties
<1>2. PICK f : Counts(f, records) /\ Bytes(records) = f[n]
  BY BytesCounts
<1> HIDE DEF all
<1>3. PICK g : Counts(g, all) /\ Bytes(all) = g[n + 1]
  BY <1>1, BytesCounts
<1> HIDE DEF n
<1>4. f[n] = g[n]
  <2>1. n \in 0..Len(records) /\ n <= Len(all) /\ \A i \in 1..n : records[i] = all[i]
    BY <1>1 DEF n
  <2> QED
    BY <1>1, <1>2, <1>3, <2>1, CountsAgree
<1>5. g[n + 1] = g[n] + record.size
  <2>1. n + 1 \in 1..Len(all) /\ (n + 1) - 1 = n
    BY <1>1
  <2> QED
    BY <1>1, <1>3, <2>1 DEF Counts
<1>6. f[n] \in Nat
  BY <1>1, <1>2 DEF Counts, n
<1>7. Bytes(<<>>) = 0
  <2>1. PICK h : Counts(h, <<>>) /\ Bytes(<<>>) = h[Len(<<>>)]
    BY EmptySeq, BytesCounts
  <2> QED
    BY <2>1, EmptySeq DEF Counts
<1> QED
  BY <1>2, <1>3, <1>4, <1>5, <1>6, <1>7 DEF all

(* The loop of append always stops, and at one place: append has exactly   *)
(* one outcome, whatever the sizes and the bounds are.                     *)
THEOREM AppendHasOneOutcome ==
    ASSUME NEW S, NEW records \in Seq(S), NEW record \in S, \A r \in S : r.size \in Nat
    PROVE  \E new : Appended(records, record) = {new}
<1>1. CASE record.size > MaxBytes
  BY <1>1 DEF Appended
<1>2. CASE ~(record.size > MaxBytes)
  <2> DEFINE all == Append(records, record)
             Enough == {i \in 0..Len(all) : Fits(WithoutOldest(all, i))}
  <2>1. all \in Seq(S) /\ Len(all) \in Nat
    BY AppendProperties
  <2> HIDE DEF all
  <2>2. Len(all) \in Enough
    <3>1. WithoutOldest(all, Len(all)) = <<>>
      BY <2>1, SubSeqEmpty DEF WithoutOldest
    <3>2. Fits(<<>>)
      BY BytesOfAppend, BufferAssumption, EmptySeq DEF Fits
    <3> QED
      BY <2>1, <3>1, <3>2
  <2>3. PICK m \in Enough : \A i \in Enough : m <= i
    <3>1. Enough \in SUBSET Nat /\ Enough # {}
      BY <2>1, <2>2
    <3> HIDE DEF Enough
    <3> QED
      BY <3>1, LeastNatural
  <2>4. StopsAfter(all, m)
    <3>1. Fits(WithoutOldest(all, m))
      OBVIOUS
    <3>2. \A j \in 0..(m - 1) : j \in 0..Len(all) /\ ~(m <= j)
      BY <2>1
    <3>3. \A j \in 0..(m - 1) : ~Fits(WithoutOldest(all, j))
      BY <2>3, <3>2
    <3> QED
      BY <3>1, <3>3 DEF StopsAfter
  <2>5. ASSUME NEW k \in 0..Len(all), StopsAfter(all, k)
        PROVE  k = m
    <3>1. k \in Enough
      BY <2>5 DEF StopsAfter
    <3>2. m <= k /\ ~(m \in 0..(k - 1))
      BY <2>3, <2>5, <3>1 DEF StopsAfter
    <3> QED
      BY <2>1, <3>2
  <2>6. {i \in 0..Len(all) : StopsAfter(all, i)} = {m}
    BY <2>4, <2>5
  <2>7. Appended(records, record)
        = {WithoutOldest(all, k) : k \in {i \in 0..Len(all) : StopsAfter(all, i)}}
    BY <1>2 DEF Appended, all
  <2>8. Appended(records, record) = {WithoutOldest(all, m)}
    BY <2>6, <2>7
  <2> QED
    BY <2>8
<1> QED
  BY <1>1, <1>2

\* Records of one byte each: the counter is their number.
LEMMA BytesOfUnits ==
    ASSUME NEW S, NEW records \in Seq(S), \A r \in S : r.size = 1
    PROVE  Bytes(records) = Len(records)
<1>1. PICK f : Counts(f, records) /\ Bytes(records) = f[Len(records)]
  BY BytesCounts
<1> DEFINE Bad == {i \in 0..Len(records) : f[i] # i}
<1>2. Len(records) \in Nat /\ \A i \in 1..Len(records) : records[i].size = 1
  OBVIOUS
<1>3. ASSUME Bad # {}
      PROVE  FALSE
  <2>1. PICK m \in Bad : \A i \in Bad : m <= i
    <3>1. Bad \in SUBSET Nat
      OBVIOUS
    <3> HIDE DEF Bad
    <3> QED
      BY <1>3, <3>1, LeastNatural
  <2>2. m # 0
    BY <1>1 DEF Counts
  <2>3. m - 1 \in 0..Len(records) /\ m \in 1..Len(records) /\ ~(m <= m - 1)
    BY <2>2
  <2>4. f[m - 1] = m - 1
    BY <2>1, <2>3
  <2>5. f[m] = m
    BY <1>1, <1>2, <2>3, <2>4 DEF Counts
  <2> QED
    BY <2>1, <2>5
<1> QED
  BY <1>1, <1>2, <1>3

IsFull(records) == Len(records) = MaxRecords \/ Bytes(records) = MaxBytes

(* With records of one byte append pops one record if the buffer is full   *)
(* and none if it is not; after a pop it is full again.                    *)
LEMMA AppendedUnits ==
    ASSUME NEW S, NEW records \in Seq(S), NEW record \in S, \A r \in S : r.size = 1,
           Fits(records), NEW new \in Appended(records, record)
    PROVE  /\ new \in Seq(S) /\ Fits(new) /\ Len(new) > 0
           /\ new[Len(new)] = record
           /\ \A i \in 1..(Len(new) - 1) : \E j \in 1..Len(records) : new[i] = records[j]
           /\ \/ \A j \in 1..Len(records) : \E i \in 1..Len(new) : new[i] = records[j]
              \/ IsFull(new)
           /\ IsFull(records) => IsFull(new)
<1> USE DEF IsFull
<1> DEFINE all == Append(records, record)
<1>1. /\ all \in Seq(S) /\ Len(all) = Len(records) + 1 /\ Len(records) \in Nat
      /\ \A i \in 1..Len(records) : all[i] = records[i]
      /\ all[Len(records) + 1] = record
  BY AppendProperties, LenProperties
<1>2. ~(record.size > MaxBytes)
  BY BufferAssumption
<1>3. PICK k \in 0..Len(all) : new = WithoutOldest(all, k) /\ StopsAfter(all, k)
  BY <1>2 DEF Appended
<1> HIDE DEF all
<1>4. ASSUME NEW j \in 0..Len(all)
      PROVE  /\ WithoutOldest(all, j) \in Seq(S)
             /\ Len(WithoutOldest(all, j)) = Len(all) - j
             /\ Bytes(WithoutOldest(all, j)) = Len(all) - j
             /\ \A i \in 1..(Len(all) - j) : WithoutOldest(all, j)[i] = all[i + j]
  <2> DEFINE rest == SubSeq(all, j + 1, Len(all))
  <2>1. \A i \in (j + 1)..Len(all) : all[i] \in S
    BY <1>1
  <2>2. /\ rest \in Seq(S)
        /\ Len(rest) = IF j + 1 <= Len(all) THEN Len(all) - (j + 1) + 1 ELSE 0
        /\ \A i \in 1..(Len(all) - (j + 1) + 1) : rest[i] = all[j + 1 + i - 1]
    BY <1>1, <2>1, SubSeqProperties
  <2>3. Bytes(rest) = Len(rest)
    BY <2>2, BytesOfUnits
  <2> QED
    BY <1>1, <2>2, <2>3 DEF WithoutOldest
<1>5. Len(records) <= MaxRecords /\ Len(records) <= MaxBytes
  BY BytesOfUnits DEF Fits
<1>6. Len(all) - 1 = Len(records) /\ 1 \in 0..Len(all)
  BY <1>1
<1>7. Fits(WithoutOldest(all, 1))
  BY <1>4, <1>5, <1>6 DEF Fits
<1>8. k \in {0, 1}
  <2>1. ~(1 \in 0..(k - 1))
    BY <1>3, <1>7 DEF StopsAfter
  <2> QED
    BY <1>1, <2>1
<1>9. /\ new \in Seq(S) /\ Len(new) = Len(all) - k /\ Bytes(new) = Len(all) - k
      /\ \A i \in 1..(Len(all) - k) : new[i] = all[i + k]
      /\ Fits(new)
  BY <1>3, <1>4 DEF StopsAfter
<1>10. k = 0 => \A j \in 1..Len(records) : \E i \in 1..Len(new) : new[i] = records[j]
  <2> SUFFICES ASSUME k = 0, NEW j \in 1..Len(records)
               PROVE  j \in 1..Len(new) /\ new[j] = records[j]
    OBVIOUS
  <2> QED
    BY <1>1, <1>9
<1>11. k = 1 => Len(new) = MaxRecords \/ Bytes(new) = MaxBytes
  <2> SUFFICES ASSUME k = 1
               PROVE  Len(new) = MaxRecords \/ Bytes(new) = MaxBytes
    OBVIOUS
  <2>1. ~Fits(WithoutOldest(all, 0))
    BY <1>3 DEF StopsAfter
  <2>2. 0 \in 0..Len(all)
    BY <1>1
  <2>3. ~(Len(all) <= MaxRecords /\ Len(all) <= MaxBytes)
    BY <1>1, <1>4, <2>1, <2>2 DEF Fits
  <2> QED
    BY <1>1, <1>5, <1>9, <2>3, BufferAssumption
<1>12. Len(new) > 0
  BY <1>1, <1>8, <1>9, <1>11, BufferAssumption
<1>13. new[Len(new)] = record
  BY <1>1, <1>8, <1>9, <1>12
<1>14. \A i \in 1..(Len(new) - 1) : i + k \in 1..Len(records) /\ new[i] = records[i + k]
  BY <1>1, <1>8, <1>9
<1>15. IsFull(records) => IsFull(new)
  <2> SUFFICES ASSUME IsFull(records)
               PROVE  IsFull(new)
    OBVIOUS
  <2>1. Bytes(records) = Len(records)
    BY BytesOfUnits
  <2>2. Len(new) <= MaxRecords /\ Len(new) <= MaxBytes
    BY <1>9 DEF Fits
  <2>3. Len(new) = Len(records)
    BY <1>1, <1>8, <1>9, <2>1, <2>2, BufferAssumption
  <2> QED
    BY <1>9, <2>1, <2>3
<1> QED
  BY <1>8, <1>9, <1>10, <1>11, <1>12, <1>13, <1>14, <1>15
=============================================================================
