--------------------------- MODULE ProjectPushProofs ---------------------------
(* Theorems of ProjectPush: its type invariant, and what a push that       *)
(* reports success has achieved, for any number of files and callers.      *)
EXTENDS ProjectPush, TLAPS

\* The push has compared the digest of a file it will upload.
InHand(c) == push[c].pc \in {"reading", "opening", "writing"}

\* The push is in its upload loop.
Uploading(c) == push[c].pc = "comparing" \/ InHand(c)

\* The push is in its delete loop, or reports success.
Cleaning(c) == push[c].pc \in {"deleting", "ok"}

PushRecord ==
    [pc : Pcs, delete : BOOLEAN, scan : [Files -> Contents \cup {Absent}],
     listing : SUBSET Files, todo : SUBSET Files, file : Files \cup {NoFile},
     data : Contents \cup {Absent}, changed : SUBSET Files, alone : BOOLEAN,
     calm : BOOLEAN, start : [Files -> Contents \cup {Absent, Torn}]]

\* A push that is about to read or write a file has one, and one that writes has its contents.
HandIsFilled ==
    \A c \in Callers :
        /\ InHand(c) => push[c].file \in Files
        /\ Writing(c) => push[c].data \in Contents

(* Two pushes under way are both calm or neither is, and an abandoned      *)
(* write ends the calm.                                                    *)
CalmIsShared ==
    \A c \in Callers : push[c].calm =>
        /\ late = {}
        /\ \A d \in Callers : Active(d) => push[d].calm

\* In calm, what a push knows of the local files is what they are.
LocalIsKnown(c) ==
    /\ push[c].pc = "scanning" =>
          \A f \in Files : f \notin push[c].todo => push[c].scan[f] = local[f]
    /\ Uploading(c) =>
          /\ \A f \in Files : push[c].scan[f] = local[f]
          /\ \A f \in push[c].todo : local[f] # Absent
    /\ InHand(c) => local[push[c].file] # Absent
    /\ Writing(c) => push[c].data = local[push[c].file]
    /\ push[c].pc = "deleting" => \A f \in push[c].todo : local[f] = Absent
    /\ push[c].pc = "ok" => push[c].todo = {}

\* Some push has truncated the remote file and is about to fill it.
BeingWritten(f) == \E d \in Callers : push[d].pc = "writing" /\ push[d].file = f

\* In calm, the remote files are as the local ones but for what is still to be done.
RemoteFollows(c) ==
    /\ Uploading(c) \/ Cleaning(c) =>
          \A f \in Files : local[f] # Absent =>
              \/ Uploading(c) /\ f \in push[c].todo
              \/ InHand(c) /\ push[c].file = f
              \/ remote[f] = local[f]
              \/ BeingWritten(f)
    /\ Uploading(c) =>
          \A f \in Files : local[f] = Absent /\ f \notin push[c].listing => remote[f] = Absent
    /\ Cleaning(c) /\ push[c].delete =>
          \A f \in Files : local[f] = Absent /\ f \notin push[c].todo => remote[f] = Absent

\* Uploaded so far: the local files that differed, but for those still to be looked at.
ChangedSoFar(c, pending) ==
    /\ \A f \in push[c].changed : local[f] # Absent
    /\ \A f \in Files : local[f] # Absent =>
          (f \in push[c].changed <=> f \notin pending /\ push[c].start[f] # local[f])

(* A push that is alone knows the remote project it began with, and has    *)
(* changed of it what it uploaded.                                         *)
StartIsKnown(c) ==
    /\ push[c].calm
    /\ \A d \in Callers : d # c => ~Active(d)
    /\ push[c].pc = "scanning" =>
          push[c].changed = {} /\ \A f \in Files : remote[f] = push[c].start[f]
    /\ Uploading(c) =>
          /\ \A f \in Files : f \in push[c].listing <=> push[c].start[f] # Absent
          /\ \A f \in push[c].todo : remote[f] = push[c].start[f]
          /\ \A f \in Files : local[f] = Absent => remote[f] = push[c].start[f]
          /\ ChangedSoFar(c, push[c].todo \cup (IF InHand(c) THEN {push[c].file} ELSE {}))
    /\ InHand(c) =>
          /\ push[c].start[push[c].file] # local[push[c].file]
          /\ push[c].file \notin push[c].todo
    /\ Cleaning(c) =>
          /\ ChangedSoFar(c, {})
          /\ ~push[c].delete =>
                /\ push[c].pc = "ok"
                /\ \A f \in Files : local[f] = Absent => remote[f] = push[c].start[f]

PushTypeInv == TypeOK /\ HandIsFilled
PushInv ==
    /\ PushTypeInv /\ CalmIsShared
    /\ \A c \in Callers : push[c].calm => Active(c) /\ LocalIsKnown(c) /\ RemoteFollows(c)
    /\ \A c \in Callers : push[c].alone => StartIsKnown(c)

-----------------------------------------------------------------------------
\* A step that gives one push a new record of the right type keeps the types.
LEMMA OnePush ==
    ASSUME PushTypeInv, NEW c \in Callers, NEW q \in PushRecord,
           push' = [push EXCEPT ![c] = q],
           q.pc \in {"reading", "opening", "writing"} => q.file \in Files,
           q.pc \in {"opening", "writing"} => q.data \in Contents,
           remote' \in [Files -> Contents \cup {Absent, Torn}],
           UNCHANGED <<local, late, edits>>
    PROVE  PushTypeInv'
<1>1. push \in [Callers -> PushRecord]
  BY DEF PushTypeInv, TypeOK, PushRecord
<1>2. push' \in [Callers -> PushRecord] /\ push'[c] = q
      /\ \A d \in Callers : d # c => push'[d] = push[d]
  BY <1>1
<1>3. HandIsFilled'
  BY <1>2 DEF PushTypeInv, HandIsFilled, InHand, Writing
<1>4. TypeOK'
  BY <1>2 DEF PushTypeInv, TypeOK, PushRecord
<1> QED
  BY <1>3, <1>4 DEF PushTypeInv

\* The records in which a step of a push can leave it.
LEMMA PushRecords ==
    ASSUME PushTypeInv, NEW c \in Callers
    PROVE  /\ push[c] \in PushRecord /\ IdlePush \in PushRecord
           /\ \A f \in Files, files \in SUBSET Files :
                 /\ [push[c] EXCEPT !.todo = files] \in PushRecord
                 /\ [push[c] EXCEPT !.scan[f] = local[f], !.todo = files] \in PushRecord
                 /\ [push[c] EXCEPT !.todo = files, !.file = f, !.pc = "reading"] \in PushRecord
                 /\ [push[c] EXCEPT !.data = local[f], !.pc = "opening"] \in PushRecord
           /\ \A pc \in Pcs, files \in SUBSET Files :
                 /\ [push[c] EXCEPT !.pc = pc, !.todo = files] \in PushRecord
                 /\ [push[c] EXCEPT !.pc = pc, !.todo = files, !.scan = NoScan,
                                    !.listing = {}] \in PushRecord
<1>1. push[c] \in PushRecord /\ local \in [Files -> Contents \cup {Absent}]
  BY DEF PushTypeInv, TypeOK, PushRecord
<1>2. IdlePush \in PushRecord
  BY PushAssumption DEF IdlePush, PushRecord, NoScan, Pcs
<1>3. ASSUME NEW f \in Files, NEW files \in SUBSET Files
      PROVE  /\ [push[c] EXCEPT !.todo = files] \in PushRecord
             /\ [push[c] EXCEPT !.scan[f] = local[f], !.todo = files] \in PushRecord
             /\ [push[c] EXCEPT !.todo = files, !.file = f, !.pc = "reading"] \in PushRecord
             /\ [push[c] EXCEPT !.data = local[f], !.pc = "opening"] \in PushRecord
  BY <1>1 DEF PushRecord, Pcs
<1>4. ASSUME NEW pc \in Pcs, NEW files \in SUBSET Files
      PROVE  /\ [push[c] EXCEPT !.pc = pc, !.todo = files] \in PushRecord
             /\ [push[c] EXCEPT !.pc = pc, !.todo = files, !.scan = NoScan,
                                !.listing = {}] \in PushRecord
  BY <1>1 DEF PushRecord, NoScan
<1> QED
  BY <1>1, <1>2, <1>3, <1>4

(* A step of one push keeps the invariant when it keeps what the others    *)
(* rely on - what it writes is the local file, what it deletes is not      *)
(* local - and leaves its own record as the invariant says.                *)
LEMMA OwnStep ==
    ASSUME PushInv, NEW c \in Callers, Active(c), NEW q \in PushRecord,
           push' = [push EXCEPT ![c] = q],
           q.pc \in {"reading", "opening", "writing"} => q.file \in Files,
           q.pc \in {"opening", "writing"} => q.data \in Contents,
           remote' \in [Files -> Contents \cup {Absent, Torn}],
           UNCHANGED <<local, late, edits>>,
           q.pc = "idle" \/ q.calm = push[c].calm,
           q.calm => push[c].calm,
           push[c].calm => \A f \in Files :
               \/ remote'[f] = remote[f] /\ ~(push[c].pc = "writing" /\ push[c].file = f)
               \/ /\ local[f] # Absent
                  /\ remote'[f] = local[f] \/ (q.pc = "writing" /\ q.file = f)
               \/ local[f] = Absent /\ remote'[f] = Absent,
           q.calm => (Active(c) /\ LocalIsKnown(c) /\ RemoteFollows(c))',
           q.alone => StartIsKnown(c)'
    PROVE  PushInv'
<1> USE DEF PushInv
<1>1. PushTypeInv'
  BY OnePush
<1>2. push'[c] = q /\ \A d \in Callers : d # c => push'[d] = push[d]
  BY DEF PushTypeInv, TypeOK
<1>3. CalmIsShared'
  BY <1>2 DEF CalmIsShared, Active
<1>4. ASSUME NEW d \in Callers, d # c, push'[d].calm
      PROVE  (Active(d) /\ LocalIsKnown(d) /\ RemoteFollows(d))'
  <2>1. push'[d] = push[d] /\ push[d].calm /\ push[c].calm
    BY <1>2, <1>4 DEF CalmIsShared
  <2>2. (Active(d) /\ LocalIsKnown(d))'
    BY <2>1 DEF Active, LocalIsKnown, InHand, Uploading, Writing
  <2>3. \A f \in Files : local[f] # Absent =>
           (remote[f] = local[f] \/ BeingWritten(f)
               => remote'[f] = local'[f] \/ BeingWritten(f)')
    BY <1>2, <2>1 DEF BeingWritten
  <2>4. \A f \in Files : local[f] = Absent /\ remote[f] = Absent => remote'[f] = Absent
    BY <2>1
  <2> QED
    BY <2>1, <2>2, <2>3, <2>4 DEF RemoteFollows, InHand, Uploading, Cleaning
<1>5. ASSUME NEW d \in Callers, d # c
      PROVE  ~push'[d].alone
  BY <1>2, <1>5 DEF StartIsKnown
<1> QED
  BY <1>1, <1>2, <1>3, <1>4, <1>5

\* A push that gives up leaves the others as they are.
LEMMA GiveUpStep ==
    ASSUME PushInv, NEW c \in Callers, Active(c), ~Writing(c),
           push' = [push EXCEPT ![c] = IdlePush],
           UNCHANGED <<local, remote, late, edits>>
    PROVE  PushInv'
<1>1. IdlePush \in PushRecord /\ IdlePush.pc = "idle" /\ ~IdlePush.calm /\ ~IdlePush.alone
  BY PushRecords DEF PushInv, IdlePush
<1>2. remote \in [Files -> Contents \cup {Absent, Torn}]
  BY DEF PushInv, PushTypeInv, TypeOK
<1>3. push[c].pc # "writing"
  BY DEF Writing
<1> QED
  BY <1>1, <1>2, <1>3, OwnStep

\* The scan of the local directory keeps the invariant.
LEMMA ScanStep ==
    ASSUME PushInv, NEW c \in Callers, NEW f \in Files, Scan(c, f)
    PROVE  PushInv'
<1> DEFINE q == [push[c] EXCEPT !.scan[f] = local[f], !.todo = @ \ {f}]
<1> USE DEF PushInv
<1>1. push' = [push EXCEPT ![c] = q] /\ push \in [Callers -> PushRecord]
  BY DEF Scan, PushTypeInv, TypeOK, PushRecord
<1>2. push[c] \in PushRecord /\ push[c].todo \ {f} \in SUBSET Files
  BY <1>1 DEF PushRecord
<1>3. q \in PushRecord
  BY <1>2, PushRecords
<1>4. /\ q.pc = "scanning" /\ q.todo = push[c].todo \ {f} /\ q.calm = push[c].calm
      /\ q.alone = push[c].alone /\ q.start = push[c].start /\ q.changed = push[c].changed
      /\ \A g \in Files : q.scan[g] = IF g = f THEN local[f] ELSE push[c].scan[g]
  BY <1>2 DEF Scan, PushRecord
<1>5. push[c].pc = "scanning" /\ UNCHANGED <<local, remote, late, edits>> /\ Active(c)
  BY DEF Scan, Active
<1> HIDE DEF q
<1>6. push'[c] = q /\ \A d \in Callers : d # c => push'[d] = push[d]
  BY <1>1
<1>7. ASSUME q.calm PROVE (Active(c) /\ LocalIsKnown(c) /\ RemoteFollows(c))'
  <2>1. LocalIsKnown(c)
    BY <1>4, <1>7
  <2>2. push'[c].pc = "scanning" /\ local' = local
    BY <1>4, <1>5, <1>6
  <2>3. \A g \in Files : g \notin q.todo => q.scan[g] = local[g]
    BY <1>4, <1>5, <2>1 DEF LocalIsKnown
  <2> QED
    BY <1>6, <2>2, <2>3
       DEF Active, LocalIsKnown, RemoteFollows, Uploading, InHand, Writing, Cleaning
<1>8. ASSUME q.alone PROVE StartIsKnown(c)'
  <2>1. StartIsKnown(c)
    BY <1>4, <1>8
  <2>2. push'[c].calm /\ push'[c].pc = "scanning"
    BY <1>4, <1>6, <2>1 DEF StartIsKnown
  <2>3. \A d \in Callers : d # c => ~Active(d)'
    BY <1>6, <2>1 DEF Active, StartIsKnown
  <2>4. push'[c].changed = {} /\ \A g \in Files : remote'[g] = push'[c].start[g]
    BY <1>4, <1>5, <1>6, <2>1 DEF StartIsKnown
  <2> QED
    BY <2>2, <2>3, <2>4 DEF StartIsKnown, Uploading, InHand, Cleaning
<1> QED
  BY <1>1, <1>3, <1>4, <1>5, <1>7, <1>8, OwnStep DEF PushTypeInv, TypeOK

\* So does the remote's listing.
LEMMA ListStep ==
    ASSUME PushInv, NEW c \in Callers, List(c)
    PROVE  PushInv'
<1> DEFINE q == [push[c] EXCEPT !.pc = "comparing",
                                !.listing = {f \in Files : remote[f] # Absent},
                                !.todo = Scanned(c)]
<1> USE DEF PushInv
<1>1. push' = [push EXCEPT ![c] = q] /\ push \in [Callers -> PushRecord]
  BY DEF List, PushTypeInv, TypeOK, PushRecord
<1>2. push[c] \in PushRecord /\ Scanned(c) \in SUBSET Files
  BY <1>1 DEF Scanned
<1>3. q \in PushRecord
  BY <1>2 DEF PushRecord, Pcs
<1>4. /\ q.pc = "comparing" /\ q.calm = push[c].calm /\ q.scan = push[c].scan
      /\ q.alone = push[c].alone /\ q.start = push[c].start /\ q.changed = push[c].changed
      /\ \A f \in Files : f \in q.todo <=> q.scan[f] # Absent
      /\ \A f \in Files : f \in q.listing <=> remote[f] # Absent
      /\ q.todo \subseteq Files
  BY <1>2 DEF PushRecord, Scanned
<1>5. /\ push[c].pc = "scanning" /\ push[c].todo = {}
      /\ UNCHANGED <<local, remote, late, edits>> /\ Active(c)
  BY DEF List, Active
<1> HIDE DEF q
<1>6. push'[c] = q /\ \A d \in Callers : d # c => push'[d] = push[d]
  BY <1>1
<1>7. ASSUME q.calm PROVE (Active(c) /\ LocalIsKnown(c) /\ RemoteFollows(c))'
  <2>1. LocalIsKnown(c)
    BY <1>4, <1>7
  <2>2. \A f \in Files : q.scan[f] = local[f]
    BY <1>4, <1>5, <2>1 DEF LocalIsKnown
  <2>3. Active(c)' /\ LocalIsKnown(c)'
    BY <1>4, <1>5, <1>6, <2>2 DEF Active, LocalIsKnown, Uploading, InHand, Writing
  <2>4. RemoteFollows(c)'
    BY <1>4, <1>5, <1>6, <2>2 DEF RemoteFollows, Uploading, InHand, Cleaning
  <2> QED
    BY <2>3, <2>4
<1>8. ASSUME q.alone PROVE StartIsKnown(c)'
  <2>1. StartIsKnown(c) /\ LocalIsKnown(c)
    BY <1>4, <1>8 DEF StartIsKnown
  <2>2. push'[c].calm /\ push'[c].pc = "comparing"
    BY <1>4, <1>6, <2>1 DEF StartIsKnown
  <2>3. \A d \in Callers : d # c => ~Active(d)'
    BY <1>6, <2>1 DEF Active, StartIsKnown
  <2>4. q.changed = {} /\ \A f \in Files : remote'[f] = q.start[f]
    BY <1>4, <1>5, <2>1 DEF StartIsKnown
  <2>5. \A f \in Files : q.scan[f] = local[f]
    BY <1>4, <1>5, <2>1 DEF LocalIsKnown
  <2>6. \A f \in Files : local'[f] # Absent => f \in push'[c].todo
    BY <1>4, <1>5, <1>6, <2>5
  <2>7. ChangedSoFar(c, push[c].todo \cup (IF InHand(c) THEN {push[c].file} ELSE {}))'
    BY <1>6, <2>4, <2>6 DEF ChangedSoFar
  <2> QED
    BY <1>4, <1>5, <1>6, <2>2, <2>3, <2>4, <2>7 DEF StartIsKnown, Uploading, InHand, Cleaning
<1> QED
  BY <1>1, <1>3, <1>4, <1>5, <1>7, <1>8, OwnStep DEF PushTypeInv, TypeOK

\* So does reading one local file.
LEMMA ReadLocalStep ==
    ASSUME PushInv, NEW c \in Callers, ReadLocal(c)
    PROVE  PushInv'
<1> DEFINE f == push[c].file
           q == [push[c] EXCEPT !.data = local[f], !.pc = "opening"]
<1> USE DEF PushInv
<1>1. f \in Files /\ Active(c) /\ ~Writing(c) /\ push[c].pc = "reading"
  BY DEF ReadLocal, PushTypeInv, HandIsFilled, InHand, Active, Writing
<1>2. CASE local[f] = Absent
  BY <1>1, <1>2, GiveUpStep DEF ReadLocal
<1>3. CASE local[f] # Absent
  <2>1. push' = [push EXCEPT ![c] = q] /\ push \in [Callers -> PushRecord]
    BY <1>3 DEF ReadLocal, PushTypeInv, TypeOK, PushRecord
  <2>2. q \in PushRecord /\ push[c] \in PushRecord
    BY <1>1, PushRecords
  <2>3. /\ q.pc = "opening" /\ q.calm = push[c].calm /\ q.scan = push[c].scan
        /\ q.alone = push[c].alone /\ q.start = push[c].start /\ q.changed = push[c].changed
        /\ q.todo = push[c].todo /\ q.listing = push[c].listing /\ q.file = f
        /\ q.data = local[f]
    BY <2>2 DEF PushRecord
  <2>4. UNCHANGED <<local, remote, late, edits>> /\ local[f] \in Contents
    BY <1>1, <1>3 DEF ReadLocal, PushTypeInv, TypeOK
  <2> HIDE DEF q
  <2>5. push'[c] = q /\ \A d \in Callers : d # c => push'[d] = push[d]
    BY <2>1
  <2>6. ASSUME q.calm PROVE (Active(c) /\ LocalIsKnown(c) /\ RemoteFollows(c))'
    <3>1. LocalIsKnown(c) /\ RemoteFollows(c)
      BY <2>3, <2>6
    <3>2. Active(c)' /\ LocalIsKnown(c)'
      BY <1>1, <1>3, <2>3, <2>4, <2>5, <3>1
         DEF Active, LocalIsKnown, Uploading, InHand, Writing
    <3>3. \A g \in Files : BeingWritten(g) => BeingWritten(g)'
      BY <1>1, <2>5 DEF BeingWritten
    <3>4. RemoteFollows(c)'
      BY <1>1, <2>3, <2>4, <2>5, <3>1, <3>3 DEF RemoteFollows, Uploading, InHand, Cleaning
    <3> QED
      BY <3>2, <3>4
  <2>7. ASSUME q.alone PROVE StartIsKnown(c)'
    <3>1. StartIsKnown(c)
      BY <2>3, <2>7
    <3>2. \A d \in Callers : d # c => ~Active(d)'
      BY <2>5, <3>1 DEF Active, StartIsKnown
    <3>3. push'[c].calm
      BY <2>3, <2>5, <3>1 DEF StartIsKnown
    <3> QED
      BY <1>1, <2>3, <2>4, <2>5, <3>1, <3>2, <3>3
         DEF StartIsKnown, Uploading, InHand, Cleaning, ChangedSoFar
  <2> QED
    BY <1>1, <2>1, <2>2, <2>3, <2>4, <2>6, <2>7, OwnStep DEF PushTypeInv, TypeOK
<1> QED
  BY <1>2, <1>3

\* So does the comparison of the two listings.
LEMMA CompareStep ==
    ASSUME PushInv, NEW c \in Callers, NEW f \in Files, Compare(c, f)
    PROVE  PushInv'
<1> DEFINE todo == push[c].todo \ {f}
           same == [push[c] EXCEPT !.todo = todo]
           next == [push[c] EXCEPT !.todo = todo, !.file = f, !.pc = "reading"]
           q == IF Unchanged(c, f) THEN same ELSE next
<1> USE DEF PushInv
<1>1. /\ push[c].pc = "comparing" /\ f \in push[c].todo /\ Active(c) /\ ~Writing(c)
      /\ UNCHANGED <<local, remote, late, edits>>
      /\ push[c] \in PushRecord /\ todo \in SUBSET Files
  <2>1. push[c] \in PushRecord
    BY PushRecords
  <2> QED
    BY <2>1 DEF Compare, Active, Writing, PushRecord
<1>2. CASE InfoFails(c, f)
  BY <1>1, <1>2, GiveUpStep DEF Compare
<1>3. CASE ~InfoFails(c, f)
  <2>1. push' = [push EXCEPT ![c] = q] /\ push \in [Callers -> PushRecord]
    BY <1>3 DEF Compare, PushTypeInv, TypeOK, PushRecord
  <2>2. same \in PushRecord /\ next \in PushRecord
    BY <1>1, PushRecords
  <2>3. /\ q \in PushRecord /\ q.calm = push[c].calm /\ q.scan = push[c].scan
        /\ q.alone = push[c].alone /\ q.start = push[c].start /\ q.changed = push[c].changed
        /\ q.todo = todo /\ q.listing = push[c].listing
        /\ Unchanged(c, f) => q.pc = "comparing"
        /\ ~Unchanged(c, f) => q.pc = "reading" /\ q.file = f
    BY <1>1, <2>2 DEF PushRecord
  <2> HIDE DEF q, same, next
  <2>4. push'[c] = q /\ \A d \in Callers : d # c => push'[d] = push[d]
    BY <2>1
  <2>5. ASSUME q.calm PROVE (Active(c) /\ LocalIsKnown(c) /\ RemoteFollows(c))'
    <3>1. LocalIsKnown(c) /\ RemoteFollows(c)
      BY <2>3, <2>5
    <3>2. Active(c)' /\ LocalIsKnown(c)'
      BY <1>1, <2>3, <2>4, <3>1 DEF Active, LocalIsKnown, Uploading, InHand, Writing
    <3>3. \A g \in Files : BeingWritten(g) => BeingWritten(g)'
      BY <1>1, <2>4 DEF BeingWritten
    <3>4. Unchanged(c, f) => remote[f] = local[f]
      BY <1>1, <3>1 DEF Unchanged, LocalIsKnown, Uploading
    <3>5. RemoteFollows(c)'
      BY <1>1, <2>3, <2>4, <3>1, <3>3, <3>4 DEF RemoteFollows, Uploading, InHand, Cleaning
    <3> QED
      BY <3>2, <3>5
  <2>6. ASSUME q.alone PROVE StartIsKnown(c)'
    <3>1. StartIsKnown(c) /\ LocalIsKnown(c)
      BY <2>3, <2>6 DEF StartIsKnown
    <3>2. /\ \A d \in Callers : d # c => ~Active(d)'
          /\ push'[c].calm
      <4>1. \A d \in Callers : d # c => ~Active(d)'
        BY <2>4, <3>1 DEF Active, StartIsKnown
      <4>2. push'[c].calm
        BY <2>3, <2>4, <3>1 DEF StartIsKnown
      <4> QED
        BY <4>1, <4>2
    <3>3. remote[f] = push[c].start[f] /\ local[f] # Absent /\ f \notin push[c].changed
      BY <1>1, <3>1 DEF StartIsKnown, LocalIsKnown, Uploading, InHand, ChangedSoFar
    <3>4. Unchanged(c, f) <=> push[c].start[f] = local[f]
      BY <1>1, <3>1, <3>3 DEF Unchanged, StartIsKnown, LocalIsKnown, Uploading
    <3>5. ChangedSoFar(c, push[c].todo)
      BY <1>1, <3>1 DEF StartIsKnown, Uploading, InHand, ChangedSoFar
    <3>6. ChangedSoFar(c, push[c].todo \cup (IF InHand(c) THEN {push[c].file} ELSE {}))'
      BY <1>1, <2>3, <2>4, <3>3, <3>4, <3>5 DEF InHand, ChangedSoFar
    <3> QED
      BY <1>1, <2>3, <2>4, <3>1, <3>2, <3>4, <3>6
         DEF StartIsKnown, Uploading, InHand, Cleaning
  <2> QED
    BY <1>1, <2>1, <2>3, <2>5, <2>6, OwnStep DEF PushTypeInv, TypeOK
<1> QED
  BY <1>2, <1>3

\* So does opening, and so truncating, a remote file.
LEMMA WriteOpenStep ==
    ASSUME PushInv, NEW c \in Callers, WriteOpen(c)
    PROVE  PushInv'
<1> DEFINE f == push[c].file
           q == [push[c] EXCEPT !.pc = "writing"]
<1> USE DEF PushInv
<1>1. /\ f \in Files /\ Active(c) /\ push[c].pc = "opening" /\ push[c] \in PushRecord
      /\ push[c].data \in Contents /\ UNCHANGED <<local, late, edits>>
  BY PushRecords DEF WriteOpen, PushTypeInv, HandIsFilled, InHand, Active, Writing
<1>2. push' = [push EXCEPT ![c] = q] /\ push \in [Callers -> PushRecord]
  BY DEF WriteOpen, PushTypeInv, TypeOK, PushRecord
<1>3. /\ q \in PushRecord
      /\ q.pc = "writing" /\ q.calm = push[c].calm /\ q.scan = push[c].scan
      /\ q.alone = push[c].alone /\ q.start = push[c].start /\ q.changed = push[c].changed
      /\ q.todo = push[c].todo /\ q.listing = push[c].listing /\ q.file = f
      /\ q.data = push[c].data
  BY <1>1 DEF PushRecord, Pcs
<1>4. /\ remote' \in [Files -> Contents \cup {Absent, Torn}]
      /\ \A g \in Files : g # f => remote'[g] = remote[g]
  BY <1>1 DEF WriteOpen, PushTypeInv, TypeOK
<1> HIDE DEF q
<1>5. push'[c] = q /\ \A d \in Callers : d # c => push'[d] = push[d]
  BY <1>2
<1>6. push[c].calm => local[f] # Absent
  BY <1>1 DEF LocalIsKnown, InHand
<1>7. ASSUME q.calm PROVE (Active(c) /\ LocalIsKnown(c) /\ RemoteFollows(c))'
  <2>1. LocalIsKnown(c) /\ RemoteFollows(c)
    BY <1>3, <1>7
  <2>2. Active(c)' /\ LocalIsKnown(c)'
    BY <1>1, <1>3, <1>5, <2>1 DEF Active, LocalIsKnown, Uploading, InHand, Writing
  <2>3. \A g \in Files : BeingWritten(g) => BeingWritten(g)'
    BY <1>1, <1>5 DEF BeingWritten
  <2>4. RemoteFollows(c)'
    BY <1>1, <1>3, <1>4, <1>5, <1>6, <1>7, <2>1, <2>3
       DEF RemoteFollows, Uploading, InHand, Cleaning
  <2> QED
    BY <2>2, <2>4
<1>8. ASSUME q.alone PROVE StartIsKnown(c)'
  <2>1. StartIsKnown(c)
    BY <1>3, <1>8
  <2>2. \A d \in Callers : d # c => ~Active(d)'
    BY <1>5, <2>1 DEF Active, StartIsKnown
  <2>3. push'[c].calm
    BY <1>3, <1>5, <2>1 DEF StartIsKnown
  <2>4. local[f] # Absent /\ f \notin push[c].todo
    BY <1>1, <1>6, <2>1 DEF StartIsKnown, InHand
  <2>5. ChangedSoFar(c, push[c].todo \cup {f})
    BY <1>1, <2>1 DEF StartIsKnown, Uploading, InHand
  <2>6. ChangedSoFar(c, push[c].todo \cup (IF InHand(c) THEN {push[c].file} ELSE {}))'
    BY <1>1, <1>3, <1>5, <2>5 DEF InHand, ChangedSoFar
  <2>7. /\ \A g \in Files : g \in q.listing <=> q.start[g] # Absent
        /\ \A g \in q.todo : remote'[g] = q.start[g]
        /\ \A g \in Files : local[g] = Absent => remote'[g] = q.start[g]
        /\ q.start[f] # local[f]
    <3>1. push[c].todo \subseteq Files
      BY <1>1 DEF PushRecord
    <3> QED
      BY <1>1, <1>3, <1>4, <2>1, <2>4, <3>1 DEF StartIsKnown, Uploading, InHand
  <2> QED
    BY <1>1, <1>3, <1>5, <2>2, <2>3, <2>4, <2>6, <2>7
       DEF StartIsKnown, Uploading, InHand, Cleaning
<1> QED
  BY <1>1, <1>2, <1>3, <1>4, <1>6, <1>7, <1>8, OwnStep

\* So does the write of its data.
LEMMA WriteDataStep ==
    ASSUME PushInv, NEW c \in Callers, WriteData(c)
    PROVE  PushInv'
<1> DEFINE f == push[c].file
           q == [push[c] EXCEPT !.changed = @ \cup {f}, !.file = NoFile,
                                !.data = Absent, !.pc = "comparing"]
<1> USE DEF PushInv
<1>1. /\ f \in Files /\ Active(c) /\ push[c].pc = "writing" /\ push[c] \in PushRecord
      /\ push[c].data \in Contents /\ UNCHANGED <<local, late, edits>>
  BY PushRecords DEF WriteData, PushTypeInv, HandIsFilled, InHand, Active, Writing
<1>2. push' = [push EXCEPT ![c] = q] /\ push \in [Callers -> PushRecord]
  BY DEF WriteData, PushTypeInv, TypeOK, PushRecord
<1>3. /\ q \in PushRecord
      /\ q.pc = "comparing" /\ q.calm = push[c].calm /\ q.scan = push[c].scan
      /\ q.alone = push[c].alone /\ q.start = push[c].start
      /\ q.changed = push[c].changed \cup {f}
      /\ q.todo = push[c].todo /\ q.listing = push[c].listing
  BY <1>1 DEF PushRecord, Pcs
<1>4. /\ remote' \in [Files -> Contents \cup {Absent, Torn}]
      /\ remote'[f] = push[c].data
      /\ \A g \in Files : g # f => remote'[g] = remote[g]
  BY <1>1 DEF WriteData, PushTypeInv, TypeOK
<1> HIDE DEF q
<1>5. push'[c] = q /\ \A d \in Callers : d # c => push'[d] = push[d]
  BY <1>2
<1>6. push[c].calm => local[f] # Absent /\ remote'[f] = local[f]
  BY <1>1, <1>4 DEF LocalIsKnown, InHand, Writing
<1>7. ASSUME q.calm PROVE (Active(c) /\ LocalIsKnown(c) /\ RemoteFollows(c))'
  <2>1. LocalIsKnown(c) /\ RemoteFollows(c)
    BY <1>3, <1>7
  <2>2. Active(c)' /\ LocalIsKnown(c)'
    BY <1>1, <1>3, <1>5, <2>1 DEF Active, LocalIsKnown, Uploading, InHand, Writing
  <2>3. \A g \in Files : g # f /\ BeingWritten(g) => BeingWritten(g)'
    BY <1>1, <1>5 DEF BeingWritten
  <2>4. RemoteFollows(c)'
    BY <1>1, <1>3, <1>4, <1>5, <1>6, <1>7, <2>1, <2>3
       DEF RemoteFollows, Uploading, InHand, Cleaning
  <2> QED
    BY <2>2, <2>4
<1>8. ASSUME q.alone PROVE StartIsKnown(c)'
  <2>1. StartIsKnown(c)
    BY <1>3, <1>8
  <2>2. \A d \in Callers : d # c => ~Active(d)'
    BY <1>5, <2>1 DEF Active, StartIsKnown
  <2>3. push'[c].calm
    BY <1>3, <1>5, <2>1 DEF StartIsKnown
  <2>4. local[f] # Absent /\ f \notin push[c].todo
    BY <1>1, <1>6, <2>1 DEF StartIsKnown, InHand
  <2>5. ChangedSoFar(c, push[c].todo \cup {f}) /\ push[c].start[f] # local[f]
    BY <1>1, <2>1 DEF StartIsKnown, Uploading, InHand
  <2>6. ChangedSoFar(c, push[c].todo \cup (IF InHand(c) THEN {push[c].file} ELSE {}))'
    BY <1>1, <1>3, <1>5, <2>4, <2>5 DEF InHand, ChangedSoFar
  <2>7. /\ \A g \in Files : g \in q.listing <=> q.start[g] # Absent
        /\ \A g \in q.todo : remote'[g] = q.start[g]
        /\ \A g \in Files : local[g] = Absent => remote'[g] = q.start[g]
    <3>1. push[c].todo \subseteq Files
      BY <1>1 DEF PushRecord
    <3> QED
      BY <1>1, <1>3, <1>4, <2>1, <2>4, <3>1 DEF StartIsKnown, Uploading, InHand
  <2> QED
    BY <1>1, <1>3, <1>5, <2>2, <2>3, <2>6, <2>7
       DEF StartIsKnown, Uploading, InHand, Cleaning
<1> QED
  BY <1>1, <1>2, <1>3, <1>4, <1>6, <1>7, <1>8, OwnStep

\* So does the turn to deleting.
LEMMA StartDeletingStep ==
    ASSUME PushInv, NEW c \in Callers, StartDeleting(c)
    PROVE  PushInv'
<1> DEFINE pc == IF Surplus(c) = {} THEN "ok" ELSE "deleting"
           q == [push[c] EXCEPT !.pc = pc, !.todo = Surplus(c), !.scan = NoScan, !.listing = {}]
<1> USE DEF PushInv
<1>1. push \in [Callers -> PushRecord] /\ push[c] \in PushRecord
  BY DEF PushTypeInv, TypeOK, PushRecord
<1>2. /\ push[c].pc = "comparing" /\ push[c].todo = {} /\ Active(c)
      /\ UNCHANGED <<local, remote, late, edits>>
      /\ Surplus(c) \in SUBSET Files /\ pc \in Pcs
  BY <1>1 DEF StartDeleting, Active, Surplus, PushRecord, Pcs
<1>3. push' = [push EXCEPT ![c] = q]
  BY <1>1 DEF StartDeleting, DeleteNext, PushRecord
<1>4. q \in PushRecord
  BY <1>2, PushRecords
<1>5. /\ q.pc = pc /\ q.calm = push[c].calm /\ q.delete = push[c].delete
      /\ q.alone = push[c].alone /\ q.start = push[c].start /\ q.changed = push[c].changed
      /\ q.todo = Surplus(c)
  BY <1>1 DEF PushRecord
<1> HIDE DEF q
<1>6. push'[c] = q /\ \A d \in Callers : d # c => push'[d] = push[d]
  BY <1>1, <1>3
<1>7. LocalIsKnown(c) => \A f \in Files :
           f \in Surplus(c) <=> push[c].delete /\ f \in push[c].listing /\ local[f] = Absent
  BY <1>2 DEF Surplus, Scanned, LocalIsKnown, Uploading
<1>8. ASSUME q.calm PROVE (Active(c) /\ LocalIsKnown(c) /\ RemoteFollows(c))'
  <2>1. LocalIsKnown(c) /\ RemoteFollows(c)
    BY <1>5, <1>8
  <2>2. Active(c)' /\ LocalIsKnown(c)'
    BY <1>2, <1>5, <1>6, <1>7, <2>1 DEF Active, LocalIsKnown, Uploading, InHand, Writing
  <2>3. \A f \in Files : BeingWritten(f) => BeingWritten(f)'
    BY <1>2, <1>6 DEF BeingWritten
  <2>4. RemoteFollows(c)'
    BY <1>2, <1>5, <1>6, <1>7, <2>1, <2>3 DEF RemoteFollows, Uploading, InHand, Cleaning
  <2> QED
    BY <2>2, <2>4
<1>9. ASSUME q.alone PROVE StartIsKnown(c)'
  <2>1. StartIsKnown(c)
    BY <1>5, <1>9
  <2>2. \A d \in Callers : d # c => ~Active(d)'
    BY <1>6, <2>1 DEF Active, StartIsKnown
  <2>3. push'[c].calm
    BY <1>5, <1>6, <2>1 DEF StartIsKnown
  <2>4. ChangedSoFar(c, {})
    BY <1>2, <2>1 DEF StartIsKnown, Uploading, InHand, ChangedSoFar
  <2>5. ChangedSoFar(c, {})'
    BY <1>2, <1>5, <1>6, <2>4 DEF ChangedSoFar
  <2>6. ~q.delete => q.pc = "ok" /\ \A f \in Files : local[f] = Absent => remote[f] = q.start[f]
    BY <1>2, <1>5, <2>1 DEF Surplus, StartIsKnown, Uploading
  <2> QED
    BY <1>2, <1>5, <1>6, <2>2, <2>3, <2>5, <2>6 DEF StartIsKnown, Uploading, InHand, Cleaning
<1> QED
  BY <1>1, <1>2, <1>3, <1>4, <1>5, <1>8, <1>9, OwnStep DEF PushTypeInv, TypeOK

\* So does the deletion of one remote file.
LEMMA DeleteStep ==
    ASSUME PushInv, NEW c \in Callers, NEW f \in Files, Delete(c, f)
    PROVE  PushInv'
<1> DEFINE todo == push[c].todo \ {f}
           pc == IF todo = {} THEN "ok" ELSE "deleting"
           q == [push[c] EXCEPT !.pc = pc, !.todo = todo]
<1> USE DEF PushInv
<1>1. push \in [Callers -> PushRecord] /\ push[c] \in PushRecord
  BY DEF PushTypeInv, TypeOK, PushRecord
<1>2. /\ push[c].pc = "deleting" /\ f \in push[c].todo /\ Active(c)
      /\ UNCHANGED <<local, late, edits>>
      /\ todo \in SUBSET Files /\ pc \in Pcs
  BY <1>1 DEF Delete, Active, PushRecord, Pcs
<1>3. push' = [push EXCEPT ![c] = q]
  BY <1>1 DEF Delete, DeleteNext, PushRecord
<1>4. q \in PushRecord
  BY <1>2, PushRecords
<1>5. /\ q.pc = pc /\ q.calm = push[c].calm /\ q.delete = push[c].delete
      /\ q.alone = push[c].alone /\ q.start = push[c].start /\ q.changed = push[c].changed
      /\ q.todo = todo
  BY <1>1 DEF PushRecord
<1>6. /\ remote' \in [Files -> Contents \cup {Absent, Torn}]
      /\ remote'[f] = Absent
      /\ \A g \in Files : g # f => remote'[g] = remote[g]
  BY DEF Delete, PushTypeInv, TypeOK
<1> HIDE DEF q
<1>7. push'[c] = q /\ \A d \in Callers : d # c => push'[d] = push[d]
  BY <1>1, <1>3
<1>8. push[c].calm => local[f] = Absent
  BY <1>2 DEF LocalIsKnown
<1>9. ASSUME q.calm PROVE (Active(c) /\ LocalIsKnown(c) /\ RemoteFollows(c))'
  <2>1. LocalIsKnown(c) /\ RemoteFollows(c)
    BY <1>5, <1>9
  <2>2. Active(c)' /\ LocalIsKnown(c)'
    BY <1>2, <1>5, <1>7, <2>1 DEF Active, LocalIsKnown, Uploading, InHand, Writing
  <2>3. \A g \in Files : BeingWritten(g) => BeingWritten(g)'
    BY <1>2, <1>7 DEF BeingWritten
  <2>4. RemoteFollows(c)'
    BY <1>2, <1>5, <1>6, <1>7, <1>8, <1>9, <2>1, <2>3
       DEF RemoteFollows, Uploading, InHand, Cleaning
  <2> QED
    BY <2>2, <2>4
<1>10. ASSUME q.alone PROVE StartIsKnown(c)'
  <2>1. StartIsKnown(c)
    BY <1>5, <1>10
  <2>2. \A d \in Callers : d # c => ~Active(d)'
    BY <1>7, <2>1 DEF Active, StartIsKnown
  <2>3. push'[c].calm
    BY <1>5, <1>7, <2>1 DEF StartIsKnown
  <2>4. ChangedSoFar(c, {}) /\ push[c].delete
    BY <1>2, <2>1 DEF StartIsKnown, Cleaning
  <2>5. ChangedSoFar(c, {})'
    BY <1>2, <1>5, <1>7, <2>4 DEF ChangedSoFar
  <2> QED
    BY <1>2, <1>5, <1>7, <2>2, <2>3, <2>4, <2>5 DEF StartIsKnown, Uploading, InHand, Cleaning
<1> QED
  BY <1>1, <1>2, <1>3, <1>4, <1>5, <1>6, <1>8, <1>9, <1>10, OwnStep

\* So does the end of the push.
LEMMA ReturnStep ==
    ASSUME PushInv, NEW c \in Callers, Return(c)
    PROVE  PushInv'
  BY GiveUpStep DEF Return, Active, Writing

\* What Disturbed leaves of the record of a push.
LEMMA DisturbedRecords ==
    ASSUME NEW pushes \in [Callers -> PushRecord]
    PROVE  /\ Disturbed(pushes) \in [Callers -> PushRecord]
           /\ \A c \in Callers :
                 /\ ~Disturbed(pushes)[c].calm /\ ~Disturbed(pushes)[c].alone
                 /\ Disturbed(pushes)[c].pc = pushes[c].pc
                 /\ Disturbed(pushes)[c].file = pushes[c].file
                 /\ Disturbed(pushes)[c].data = pushes[c].data
<1>1. \A p \in PushRecord :
         /\ Shared(p) \in PushRecord /\ Shared(p).alone = FALSE /\ Shared(p).pc = p.pc
         /\ Shared(p).file = p.file /\ Shared(p).data = p.data
  BY DEF Shared, PushRecord, NoScan
<1>2. \A p \in PushRecord :
         LET q == [p EXCEPT !.calm = FALSE]
         IN  /\ q \in PushRecord /\ q.calm = FALSE /\ q.alone = p.alone /\ q.pc = p.pc
             /\ q.file = p.file /\ q.data = p.data
  BY DEF PushRecord
<1>3. \A c \in Callers : Disturbed(pushes)[c] = [Shared(pushes[c]) EXCEPT !.calm = FALSE]
  BY DEF Disturbed
<1>4. Disturbed(pushes) \in [Callers -> PushRecord]
  BY <1>1, <1>2 DEF Disturbed
<1>5. ASSUME NEW c \in Callers
      PROVE  /\ ~Disturbed(pushes)[c].calm /\ ~Disturbed(pushes)[c].alone
             /\ Disturbed(pushes)[c].pc = pushes[c].pc
             /\ Disturbed(pushes)[c].file = pushes[c].file
             /\ Disturbed(pushes)[c].data = pushes[c].data
  <2> DEFINE p == pushes[c]
             s == Shared(p)
  <2>1. p \in PushRecord
    OBVIOUS
  <2>2. s \in PushRecord /\ s.alone = FALSE /\ s.pc = p.pc /\ s.file = p.file /\ s.data = p.data
    BY <1>1, <2>1
  <2>3. Disturbed(pushes)[c] = [s EXCEPT !.calm = FALSE]
    BY <1>3
  <2> HIDE DEF s
  <2> QED
    BY <1>2, <2>2, <2>3
<1> QED
  BY <1>4, <1>5

\* So does an edit of a local file: it disturbs every push under way.
LEMMA EditStep ==
    ASSUME PushInv, NEW f \in Files, NEW content \in Contents \cup {Absent}, Edit(f, content)
    PROVE  PushInv'
<1> USE DEF PushInv, PushTypeInv
<1>1. push \in [Callers -> PushRecord]
  BY DEF TypeOK, PushRecord
<1>2. push' = Disturbed(push)
  BY DEF Edit
<1>3. TypeOK'
  BY <1>1, <1>2, DisturbedRecords, PushAssumption DEF Edit, TypeOK, PushRecord
<1>4. HandIsFilled'
  BY <1>1, <1>2, DisturbedRecords DEF HandIsFilled, InHand, Writing
<1>5. \A c \in Callers : ~push'[c].calm /\ ~push'[c].alone
  BY <1>1, <1>2, DisturbedRecords
<1> QED
  BY <1>3, <1>4, <1>5 DEF CalmIsShared

\* So does a call that fails on the way.
LEMMA CallFailsStep ==
    ASSUME PushInv, NEW c \in Callers, CallFails(c)
    PROVE  PushInv'
<1> DEFINE pushes == [push EXCEPT ![c] = IdlePush]
<1> USE DEF PushInv, PushTypeInv
<1>1. push \in [Callers -> PushRecord] /\ IdlePush \in PushRecord
  BY PushRecords DEF TypeOK, PushRecord
<1>2. pushes \in [Callers -> PushRecord] /\ push' = Disturbed(pushes)
  BY <1>1 DEF CallFails
<1>3. \A d \in Callers : pushes[d] = IF d = c THEN IdlePush ELSE push[d]
  BY <1>1
<1> HIDE DEF pushes
<1>4. late' \subseteq [file : Files, data : Contents, pc : {"opening", "writing"}]
  BY DEF CallFails, HandIsFilled, InHand, Writing, TypeOK
<1>5. TypeOK'
  <2>1. push' \in [Callers -> PushRecord]
    BY <1>2, DisturbedRecords
  <2>2. UNCHANGED <<local, remote, edits>>
    BY DEF CallFails
  <2> QED
    BY <1>4, <2>1, <2>2 DEF TypeOK, PushRecord
<1>6. HandIsFilled'
  BY <1>2, <1>3, DisturbedRecords DEF HandIsFilled, InHand, Writing, IdlePush
<1>7. \A d \in Callers : ~push'[d].calm /\ ~push'[d].alone
  BY <1>2, DisturbedRecords
<1> QED
  BY <1>5, <1>6, <1>7 DEF CalmIsShared

\* So does an abandoned write that goes on late, or ends.
LEMMA LateStep ==
    ASSUME PushInv, NEW w \in late, LateOpen(w) \/ LateData(w) \/ LateFails(w)
    PROVE  PushInv'
<1> USE DEF PushInv, PushTypeInv
<1>1. w \in [file : Files, data : Contents, pc : {"opening", "writing"}]
  BY DEF TypeOK
<1>2. [w EXCEPT !.pc = "writing"] \in [file : Files, data : Contents, pc : {"opening", "writing"}]
  BY <1>1
<1>3. push' = push
  BY DEF LateOpen, LateData, LateFails
<1>4. TypeOK'
  BY <1>1, <1>2 DEF LateOpen, LateData, LateFails, TypeOK
<1>5. HandIsFilled'
  BY <1>3 DEF HandIsFilled, InHand, Writing
<1>6. \A c \in Callers : ~push[c].calm /\ ~push[c].alone
  BY DEF CalmIsShared, StartIsKnown
<1> QED
  BY <1>3, <1>4, <1>5, <1>6 DEF CalmIsShared

\* So does the beginning of a push.
LEMMA BeginStep ==
    ASSUME PushInv, NEW c \in Callers, NEW delete \in BOOLEAN, Begin(c, delete)
    PROVE  PushInv'
<1> DEFINE others == {d \in Callers : Active(d)}
           calm == late = {} /\ \A d \in others : push[d].calm
           begun == [IdlePush EXCEPT !.pc = "scanning", !.delete = delete, !.todo = Files,
                                     !.calm = calm, !.alone = calm, !.start = remote]
           q == IF others = {} /\ calm THEN begun ELSE Shared(begun)
<1> USE DEF PushInv
<1>1. push \in [Callers -> PushRecord] /\ IdlePush \in PushRecord
  BY PushRecords DEF PushTypeInv, TypeOK, PushRecord
<1>2. begun \in PushRecord /\ begun.pc = "scanning" /\ begun.todo = Files
      /\ begun.calm = calm /\ begun.alone = calm /\ begun.changed = {} /\ begun.start = remote
  BY <1>1, ZenonT(30) DEF IdlePush, PushRecord, Pcs, PushTypeInv, TypeOK
<1>3. \A p \in PushRecord :
         /\ Shared(p) \in PushRecord /\ Shared(p).alone = FALSE
         /\ Shared(p).pc = p.pc /\ Shared(p).todo = p.todo /\ Shared(p).calm = p.calm
         /\ Shared(p).scan = p.scan /\ Shared(p).listing = p.listing
         /\ Shared(p).delete = p.delete /\ Shared(p).file = p.file /\ Shared(p).data = p.data
  BY DEF Shared, PushRecord, NoScan
<1>4. push' = [d \in Callers |-> IF d # c THEN Shared(push[d]) ELSE q]
      /\ ~Active(c) /\ UNCHANGED <<local, remote, late, edits>>
  BY DEF Begin
<1> HIDE DEF begun, calm
<1>5. /\ q \in PushRecord /\ q.pc = "scanning" /\ q.todo = Files /\ q.calm = calm
      /\ q.alone => others = {} /\ calm /\ q.changed = {} /\ q.start = remote
  BY <1>2, <1>3
<1> HIDE DEF q
<1>6. /\ push'[c] = q /\ push' \in [Callers -> PushRecord]
      /\ \A d \in Callers : d # c => push'[d] = Shared(push[d])
  BY <1>1, <1>3, <1>4, <1>5
<1>7. PushTypeInv'
  <2>1. TypeOK'
    BY <1>4, <1>6 DEF PushTypeInv, TypeOK, PushRecord
  <2>2. HandIsFilled'
    BY <1>1, <1>3, <1>5, <1>6 DEF PushTypeInv, HandIsFilled, InHand, Writing
  <2> QED
    BY <2>1, <2>2 DEF PushTypeInv
<1>8. CalmIsShared'
  <2>1. calm => late = {} /\ \A d \in Callers : d # c /\ Active(d) => push[d].calm
    BY DEF calm
  <2>2. \A d \in Callers : d # c /\ push[d].calm => calm
    BY DEF calm, CalmIsShared
  <2>3. \A d \in Callers : d # c => push'[d].calm = push[d].calm /\ push'[d].pc = push[d].pc
    BY <1>1, <1>3, <1>6
  <2> QED
    BY <1>4, <1>5, <1>6, <2>1, <2>2, <2>3 DEF CalmIsShared, Active
<1>9. ASSUME NEW d \in Callers, push'[d].calm
      PROVE  (Active(d) /\ LocalIsKnown(d) /\ RemoteFollows(d))'
  <2>1. CASE d = c
    BY <1>5, <1>6, <2>1
       DEF Active, LocalIsKnown, RemoteFollows, Uploading, InHand, Writing, Cleaning
  <2>2. CASE d # c
    <3>1. /\ push'[d].pc = push[d].pc /\ push'[d].todo = push[d].todo /\ push[d].calm
          /\ push'[d].scan = push[d].scan /\ push'[d].listing = push[d].listing
          /\ push'[d].delete = push[d].delete /\ push'[d].file = push[d].file
          /\ push'[d].data = push[d].data
      BY <1>1, <1>3, <1>6, <1>9, <2>2
    <3>2. (Active(d) /\ LocalIsKnown(d))'
      BY <1>4, <3>1 DEF Active, LocalIsKnown, Uploading, InHand, Writing
    <3>3. \A f \in Files : BeingWritten(f) => BeingWritten(f)'
      BY <1>1, <1>3, <1>4, <1>6 DEF BeingWritten, Active
    <3>4. RemoteFollows(d)'
      BY <1>4, <3>1, <3>3 DEF RemoteFollows, Uploading, InHand, Cleaning
    <3> QED
      BY <3>2, <3>4
  <2> QED
    BY <2>1, <2>2
<1>10. ASSUME NEW d \in Callers, push'[d].alone
       PROVE  StartIsKnown(d)'
  <2>1. d = c
    BY <1>1, <1>3, <1>6, <1>10
  <2>2. others = {} /\ calm /\ q.changed = {} /\ q.start = remote
    BY <1>5, <1>6, <1>10, <2>1
  <2>3. \A e \in Callers : e # c => ~Active(e)'
    BY <1>1, <1>3, <1>6, <2>2 DEF Active
  <2> QED
    BY <1>4, <1>5, <1>6, <2>1, <2>2, <2>3 DEF StartIsKnown, Uploading, InHand, Cleaning
<1> QED
  BY <1>7, <1>8, <1>9, <1>10

-----------------------------------------------------------------------------
\* Every step keeps the invariant.
LEMMA PushInvStep ==
    ASSUME PushInv, [Next]_vars
    PROVE  PushInv'
<1>1. CASE UNCHANGED vars
  BY <1>1
     DEF vars, PushInv, PushTypeInv, TypeOK, HandIsFilled, CalmIsShared, LocalIsKnown,
         RemoteFollows, StartIsKnown, ChangedSoFar, BeingWritten, Active, InHand, Uploading,
         Cleaning, Writing
<1> QED
  BY <1>1, EditStep, BeginStep, ScanStep, CompareStep, DeleteStep, ListStep, ReadLocalStep,
     WriteOpenStep, WriteDataStep, StartDeletingStep, ReturnStep, CallFailsStep, LateStep
     DEF Next, Step

\* The initial states satisfy it.
LEMMA PushInvInit == Init => PushInv
<1> SUFFICES ASSUME Init PROVE PushInv
  OBVIOUS
<1>1. IdlePush \in PushRecord
  BY PushAssumption DEF IdlePush, PushRecord, NoScan, Pcs
<1>2. \A c \in Callers : push[c] = IdlePush /\ push[c].pc = "idle" /\ ~push[c].calm
                          /\ ~push[c].alone
  BY DEF Init, IdlePush
<1>3. TypeOK
  BY <1>1 DEF Init, TypeOK, PushRecord
<1> QED
  BY <1>2, <1>3 DEF PushInv, PushTypeInv, HandIsFilled, CalmIsShared, InHand, Writing

\* The inductive invariant of overlapping pushes.
THEOREM PushInvariant == Spec => []PushInv
<1>1. PushInv /\ [Next]_vars => PushInv'
  BY PushInvStep
<1> QED
  BY <1>1, PushInvInit, PTL DEF Spec

\* Every variable of a push has the type its Python counterpart has.
THEOREM PushTypeOK == Spec => []TypeOK
<1>1. PushInv => TypeOK
  BY DEF PushInv, PushTypeInv
<1> QED
  BY <1>1, PushInvariant, PTL

\* What the invariant says of a push that reports success in calm.
LEMMA PushInvSyncs == PushInv => PushSyncs
<1> SUFFICES ASSUME PushInv, NEW c \in Callers, push[c].pc = "ok", push[c].calm,
                    \A d \in Callers : ~Writing(d), NEW f \in Files
             PROVE  /\ local[f] # Absent => remote[f] = local[f]
                    /\ local[f] = Absent /\ push[c].delete => remote[f] = Absent
  BY DEF PushSyncs
<1>1. RemoteFollows(c) /\ LocalIsKnown(c) /\ ~BeingWritten(f)
  BY DEF PushInv, BeingWritten, Writing
<1> QED
  BY <1>1 DEF RemoteFollows, LocalIsKnown, Uploading, InHand, Cleaning

(* A push that reports success in calm has made the remote project what    *)
(* the local one is (service.py 66-121), whatever was there before.        *)
THEOREM PushSyncsFiles == Spec => []PushSyncs
BY PushInvSyncs, PushInvariant, PTL

(* A push that is alone with the files uploads exactly what differs and    *)
(* deletes exactly the surplus it was asked to (service.py 102-121).       *)
THEOREM PushMovesTheMinimum == Spec => []PushIsMinimal
<1>1. PushInv => PushIsMinimal
  <2> SUFFICES ASSUME PushInv, NEW c \in Callers, push[c].pc = "ok", push[c].alone
               PROVE  LET start == push[c].start
                          onlyRemote == {f \in Files : local[f] = Absent /\ start[f] # Absent}
                          gone == {f \in Files : start[f] # Absent /\ remote[f] = Absent}
                      IN  /\ push[c].changed = {f \in Files : local[f] # Absent
                                                              /\ start[f] # local[f]}
                          /\ gone = IF push[c].delete THEN onlyRemote ELSE {}
                          /\ \A f \in Files : local[f] = Absent /\ remote[f] # Absent =>
                                                   remote[f] = start[f]
    BY DEF PushIsMinimal
  <2> DEFINE start == push[c].start
  <2>1. StartIsKnown(c) /\ push[c].changed \subseteq Files
    BY DEF PushInv, PushTypeInv, TypeOK
  <2>2. push[c].changed = {f \in Files : local[f] # Absent /\ start[f] # local[f]}
    BY <2>1 DEF StartIsKnown, Cleaning, ChangedSoFar
  <2>3. \A d \in Callers : ~Writing(d)
    BY <2>1 DEF StartIsKnown, Active, Writing
  <2>4. \A f \in Files :
           /\ local[f] # Absent => remote[f] # Absent
           /\ local[f] = Absent /\ push[c].delete => remote[f] = Absent
    BY <2>1, <2>3, PushInvSyncs DEF StartIsKnown, PushSyncs
  <2>5. ~push[c].delete => \A f \in Files : local[f] = Absent => remote[f] = start[f]
    BY <2>1 DEF StartIsKnown, Cleaning
  <2> HIDE DEF start
  <2>6. {f \in Files : start[f] # Absent /\ remote[f] = Absent}
        = IF push[c].delete THEN {f \in Files : local[f] = Absent /\ start[f] # Absent} ELSE {}
    BY <2>4, <2>5
  <2>7. \A f \in Files : local[f] = Absent /\ remote[f] # Absent => remote[f] = start[f]
    BY <2>4, <2>5
  <2> QED
    BY <2>2, <2>6, <2>7 DEF start
<1> QED
  BY <1>1, PushInvariant, PTL
=============================================================================
