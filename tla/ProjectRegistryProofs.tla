------------------------- MODULE ProjectRegistryProofs -------------------------
(* Theorems of ProjectRegistry.                                            *)
EXTENDS ProjectRegistry, TLAPS

(* While nothing was disturbed, at most one worker is inside project_add   *)
(* and what it holds was made from the list that is kept.                  *)
Undisturbed ==
    ~disturbed =>
        /\ \A v, w \in Workers : Adding(v) /\ Adding(w) => v = w
        /\ \A w \in Workers : Adding(w) => add[w].list = With(kept, add[w].project)
        /\ \A w \in Workers : add[w].pc = "truncated" => file = {}
        /\ (\A w \in Workers : add[w].pc # "truncated") => file = kept

RegistryInv == TypeOK /\ Undisturbed

\* Putting a project into a list of projects gives a list of projects.
LEMMA WithType ==
    ASSUME NEW list \in SUBSET Adds, NEW project \in Adds
    PROVE  With(list, project) \in SUBSET Adds
  BY DEF With

\* Every step keeps the invariant.
LEMMA RegistryStep ==
    ASSUME RegistryAssumption, RegistryInv, [Next]_vars
    PROVE  RegistryInv'
<1> USE DEF RegistryInv, Adding
<1>0. NoAdd \in [pc : {"idle", "loaded", "truncated"}, project : Adds \cup {Broken},
                 list : SUBSET Adds] /\ NoAdd.pc = "idle"
  BY DEF NoAdd
<1>1. ASSUME NEW w \in Workers, NEW project \in Adds, Load(w, project)
      PROVE  RegistryInv'
  <2>0. PICK list \in Loadable :
           /\ add' = [add EXCEPT ![w] =
                         [pc |-> "loaded", project |-> project, list |-> With(list, project)]]
           /\ disturbed' = (disturbed \/ list # file \/ \E v \in Workers : Adding(v))
    BY <1>1 DEF Load
  <2>1. list \in SUBSET Adds
    BY <2>0 DEF Loadable, TypeOK
  <2>2. With(list, project) \in SUBSET Adds
    BY <2>1, WithType
  <2>3. TypeOK'
    BY <1>1, <2>0, <2>2 DEF Load, TypeOK
  <2>4. SUFFICES ASSUME ~disturbed' PROVE Undisturbed'
    BY <2>3 DEF Undisturbed
  <2>5. ~disturbed /\ list = file /\ \A v \in Workers : add[v].pc = "idle"
    BY <2>0, <2>4 DEF TypeOK
  <2>6. list = kept /\ file = kept
    BY <2>5 DEF Undisturbed, TypeOK
  <2>7. add' = [add EXCEPT ![w] = [pc |-> "loaded", project |-> project,
                                   list |-> With(kept, project)]]
    BY <2>0, <2>6
  <2>8. kept' = kept /\ file' = file
    BY <1>1 DEF Load
  <2> QED
    BY <2>5, <2>6, <2>7, <2>8 DEF Undisturbed, TypeOK, With
<1>2. ASSUME NEW w \in Workers, Truncate(w)
      PROVE  RegistryInv'
  <2>1. TypeOK'
    BY <1>2 DEF Truncate, TypeOK
  <2> QED
    BY <1>2, <2>1 DEF Truncate, TypeOK, Undisturbed, With
<1>3. ASSUME NEW w \in Workers, Write(w)
      PROVE  RegistryInv'
  <2> DEFINE list == add[w].list
             project == add[w].project
  <2>1. list \in SUBSET Adds /\ project \in Adds
    BY <1>3 DEF TypeOK, Write
  <2>2. \A rest \in IF file = Broken THEN {} ELSE SUBSET file : list \cup rest \in SUBSET Adds
    BY <2>1 DEF TypeOK
  <2>3. file' \in (SUBSET Adds) \cup {Broken} /\ (file = {} => file' = list)
    BY <1>3, <2>1, <2>2 DEF Write, Overlaid
  <2>4. kept' = With(kept, project) /\ kept' \in SUBSET Adds
    BY <1>3, <2>1, WithType DEF Write, TypeOK
  <2>5. add' = [add EXCEPT ![w] = NoAdd] /\ disturbed' = disturbed
    BY <1>3 DEF Write
  <2>6. TypeOK'
    BY <1>0, <2>3, <2>4, <2>5 DEF TypeOK
  <2>7. add[w].pc = "truncated" /\ (~disturbed => file = {} /\ list = With(kept, project))
    BY <1>3 DEF Write, Undisturbed
  <2>8. ~disturbed => \A v \in Workers : add'[v].pc = "idle"
    BY <1>0, <2>5, <2>7 DEF Undisturbed, TypeOK
  <2> QED
    BY <2>3, <2>4, <2>5, <2>6, <2>7, <2>8 DEF Undisturbed
<1>4. ASSUME NEW w \in Workers, Fail(w)
      PROVE  RegistryInv'
  <2>1. TypeOK'
    BY <1>0, <1>4 DEF Fail, TypeOK
  <2>2. SUFFICES ASSUME ~disturbed' PROVE Undisturbed'
    BY <2>1 DEF Undisturbed
  <2>3. ~disturbed /\ add[w].pc = "loaded" /\ file' = file /\ add' = [add EXCEPT ![w] = NoAdd]
    BY <1>4, <2>2 DEF Fail, TypeOK
  <2>4. \A v \in Workers : v # w => add[v].pc = "idle"
    BY <2>3 DEF Undisturbed
  <2>5. file = kept /\ kept' = kept
    BY <1>4, <2>3, <2>4 DEF Undisturbed, Fail
  <2>6. \A v \in Workers : add'[v].pc = "idle"
    BY <1>0, <2>3, <2>4 DEF TypeOK
  <2> QED
    BY <2>3, <2>5, <2>6 DEF Undisturbed
<1>5. CASE Crash
  <2>1. TypeOK'
    BY <1>0, <1>5 DEF Crash, TypeOK
  <2> QED
    BY <1>0, <1>5, <2>1 DEF Crash, TypeOK, Undisturbed, With
<1>6. CASE UNCHANGED vars
  BY <1>6 DEF vars, TypeOK, Undisturbed, With
<1> QED
  BY <1>1, <1>2, <1>3, <1>4, <1>5, <1>6 DEF Next

\* The initial states satisfy it.
LEMMA RegistryInit == Init => RegistryInv
<1> SUFFICES ASSUME Init PROVE RegistryInv
  OBVIOUS
<1>1. \A w \in Workers : add[w] = NoAdd /\ add[w].pc = "idle"
  BY DEF Init, NoAdd
<1>2. NoAdd \in [pc : {"idle", "loaded", "truncated"}, project : Adds \cup {Broken},
                 list : SUBSET Adds]
  BY DEF NoAdd
<1>3. TypeOK
  BY <1>1, <1>2 DEF Init, TypeOK, Adding
<1> QED
  BY <1>1, <1>3 DEF Init, RegistryInv, Undisturbed, Adding

\* The inductive invariant of the registry.
THEOREM RegistryInvariant == RegistryAssumption => (Spec => []RegistryInv)
<1> SUFFICES ASSUME RegistryAssumption PROVE Spec => []RegistryInv
  OBVIOUS
<1>1. RegistryInv /\ [Next]_vars => RegistryInv'
  BY RegistryStep
<1> QED
  BY <1>1, RegistryInit, PTL DEF Spec

(* While adds do not overlap, none is cut short in its write and each      *)
(* loads what the file holds, whatever was added is in the file            *)
(* (config.py 19-35, service.py 52-61).                                    *)
THEOREM RegistryKeeps == RegistryAssumption => (Spec => []RegistryIsKept)
<1> SUFFICES ASSUME RegistryAssumption PROVE Spec => []RegistryIsKept
  OBVIOUS
<1>1. RegistryInv => RegistryIsKept
  BY DEF RegistryInv, Undisturbed, RegistryIsKept
<1> QED
  BY <1>1, RegistryInvariant, PTL
=============================================================================
