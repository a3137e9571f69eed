---------------------------- MODULE ProjectRegistry ----------------------------
(***************************************************************************)
(* The list of projects in projects.yaml: ConfigStore.load and save in     *)
(* rdklink/config.py and RdkLinkService.project_add and project_list in    *)
(* rdklink/service.py, on the worker threads of the service.               *)
(*                                                                         *)
(* Nothing locks the file.  save() is write_text: opening the file         *)
(* truncates it, and the text follows in one write.  Two writers that both *)
(* truncated before either wrote lay their texts over each other from      *)
(* offset 0, and whether the rest of the longer text is still YAML depends *)
(* on the lengths of the texts.  A list of projects is kept as a set:      *)
(* nothing depends on its order.                                           *)
(***************************************************************************)
CONSTANTS
    Workers,    \* worker threads of the service
    Adds,       \* calls of project_add; each stands for the project it adds
    NameOf,     \* the name of each of these projects
    Broken,     \* a text that is no YAML
    TooLarge    \* the lists whose text is longer than MAX_CONFIG_BYTES, 1 MiB

RegistryAssumption ==
    /\ DOMAIN NameOf = Adds
    /\ \A list \in SUBSET Adds : Broken # list

VARIABLES
    file,        \* the projects in projects.yaml; none when it is missing or empty
    add,         \* what each worker thread is doing inside project_add
    kept,        \* history: the projects, had each add been done at once when it wrote
    disturbed    \* history: two adds overlapped, one was cut short while it wrote, or one
                 \* did not load what the file holds

vars == <<file, add, kept, disturbed>>

NoAdd == [pc |-> "idle", project |-> Broken, list |-> {}]
Adding(w) == add[w].pc # "idle"

Init ==
    /\ file = {}
    /\ add = [w \in Workers |-> NoAdd]
    /\ kept = {}
    /\ disturbed = FALSE

(* load: the projects in the file, or the default, no projects: always     *)
(* when its text is no YAML or longer than MAX_CONFIG_BYTES, and at any    *)
(* time when the file cannot be opened or read.                            *)
Loadable == {{}} \cup (IF file = Broken \/ file \in TooLarge THEN {} ELSE {file})

\* The project takes the place of one of the same name.
With(list, project) == {p \in list : NameOf[p] # NameOf[project]} \cup {project}

Load(w, project) ==
    /\ ~Adding(w)
    /\ \E list \in Loadable :
          /\ add' = [add EXCEPT ![w] =
                        [pc |-> "loaded", project |-> project, list |-> With(list, project)]]
          /\ disturbed' = (disturbed \/ list # file \/ \E v \in Workers : Adding(v))
    /\ UNCHANGED <<file, kept>>

\* Mutant of Truncate: the file is opened for update, its text stays.
Reopened(w) ==
    /\ add[w].pc = "loaded"
    /\ add' = [add EXCEPT ![w].pc = "truncated"]
    /\ UNCHANGED <<file, kept, disturbed>>

Truncate(w) ==
    /\ add[w].pc = "loaded"
    /\ file' = {}
    /\ add' = [add EXCEPT ![w].pc = "truncated"]
    /\ UNCHANGED <<kept, disturbed>>

\* The file once this text was written over what others wrote since it was truncated.
Overlaid(list) ==
    IF file = {} THEN {list}
    ELSE {list, Broken} \cup {list \cup rest : rest \in IF file = Broken THEN {} ELSE SUBSET file}

Write(w) ==
    /\ add[w].pc = "truncated"
    /\ file' \in Overlaid(add[w].list)
    /\ kept' = With(kept, add[w].project)
    /\ add' = [add EXCEPT ![w] = NoAdd]
    /\ UNCHANGED disturbed

\* The file cannot be opened, or the disk is full once it was truncated.
Fail(w) ==
    /\ Adding(w)
    /\ add' = [add EXCEPT ![w] = NoAdd]
    /\ disturbed' = (disturbed \/ add[w].pc = "truncated")
    /\ UNCHANGED <<file, kept>>

\* The service's process ends.
Crash ==
    /\ add' = [w \in Workers |-> NoAdd]
    /\ disturbed' = (disturbed \/ \E w \in Workers : add[w].pc = "truncated")
    /\ UNCHANGED <<file, kept>>

Next ==
    \/ \E w \in Workers, project \in Adds : Load(w, project)
    \/ \E w \in Workers : Truncate(w) \/ Write(w) \/ Fail(w)
    \/ Crash

Spec == Init /\ [][Next]_vars

-----------------------------------------------------------------------------
(* Properties                                                              *)

\* Every variable has the type its Python or file system counterpart has.
TypeOK ==
    /\ file \in {Broken} \cup SUBSET Adds
    /\ add \in [Workers -> [pc : {"idle", "loaded", "truncated"}, project : {Broken} \cup Adds,
                            list : SUBSET Adds]]
    /\ \A w \in Workers : Adding(w) => add[w].project \in Adds
    /\ kept \in SUBSET Adds
    /\ disturbed \in BOOLEAN

(* "Adding a project is persisted by the Windows Service" (README.md:61,   *)
(* in Chinese): while no two adds overlap, none is cut short inside its    *)
(* write, and each loads what the file holds, the file is what the adds    *)
(* made of it one after the other, except between the truncation and the   *)
(* write of an add.  It says nothing from the first read error on, or once *)
(* the list is longer than 1 MiB: load then gives an empty list, and the   *)
(* add in hand writes it over the others (config.py 19-35, service.py      *)
(* 52-61).                                                                 *)
RegistryIsKept ==
    ~disturbed /\ (\A w \in Workers : add[w].pc # "truncated") => file = kept
=============================================================================
