------------------------------ MODULE ProjectPush ------------------------------
(***************************************************************************)
(* Incremental upload of a local project: RdkLinkService.project_push in   *)
(* rdklink/service.py and the list_files, file_info, write_file and        *)
(* delete_file branches of Agent.handle in rdklink/agent.py that it calls. *)
(*                                                                         *)
(* Each caller (GUI, CLI, MCP) has its own push; the service and the agent *)
(* serve them on threads, so pushes overlap with each other, with edits of *)
(* the local files, and with the agent's work on a request whose caller    *)
(* has timed out.  Digests are exact: equal digests mean equal contents.   *)
(***************************************************************************)
EXTENDS Integers, FiniteSets

CONSTANTS
    Files,       \* paths below the project, relative to it
    Contents,    \* whole contents of a file
    Absent,      \* there is no such file
    Torn,        \* a remote file that write_bytes truncated and has not filled
    NoFile,      \* the push has no file in hand
    Callers,     \* callers of project_push
    MaxEdits,    \* bound: local edits
    MaxLate      \* bound: abandoned writes the agent still works on

ASSUME PushAssumption ==
    /\ Absent \notin Contents /\ Torn \notin Contents /\ Absent # Torn
    /\ NoFile \notin Files
    /\ MaxEdits \in Nat /\ MaxLate \in Nat

VARIABLES
    local,     \* the local project
    remote,    \* the remote project directory
    push,      \* the state of each caller's project_push
    late,      \* writes on the agent that no caller waits for any more
    edits      \* number of local edits so far

vars == <<local, remote, push, late, edits>>

NoScan == [f \in Files |-> Absent]

(* scan .. changed are locals of the function.  The rest is history: alone *)
(* says that nothing but this push touched the files since it began, calm  *)
(* that at most other pushes of the same local files did, and start is the *)
(* remote project it began with, kept while it is alone.                   *)
IdlePush == [pc |-> "idle", delete |-> FALSE, scan |-> NoScan, listing |-> {},
             todo |-> {}, file |-> NoFile, data |-> Absent, changed |-> {},
             alone |-> FALSE, calm |-> FALSE, start |-> NoScan]

Active(c) == push[c].pc # "idle"

Init ==
    /\ local \in [Files -> Contents \cup {Absent}]
    /\ remote \in [Files -> Contents \cup {Absent}]
    /\ push = [c \in Callers |-> IdlePush]
    /\ late = {}
    /\ edits = 0

\* Another push is under way.
Shared(p) == [p EXCEPT !.alone = FALSE, !.start = NoScan]

\* What every push under way knows of the files is out of date, or was cut short.
Disturbed(pushes) == [c \in Callers |-> [Shared(pushes[c]) EXCEPT !.calm = FALSE]]

\* The developer saves or removes a local file.
Edit(f, content) ==
    /\ edits < MaxEdits
    /\ content # local[f]
    /\ local' = [local EXCEPT ![f] = content]
    /\ edits' = edits + 1
    /\ push' = Disturbed(push)
    /\ UNCHANGED <<remote, late>>

-----------------------------------------------------------------------------
(* project_push, the local half: rglob and one digest after the other.     *)

Begin(c, delete) ==
    /\ ~Active(c)
    /\ LET others == {d \in Callers : Active(d)}
           calm == late = {} /\ \A d \in others : push[d].calm
           begun == [IdlePush EXCEPT !.pc = "scanning", !.delete = delete, !.todo = Files,
                                     !.calm = calm, !.alone = calm, !.start = remote]
       IN  push' = [d \in Callers |->
                      IF d # c THEN Shared(push[d])
                      ELSE IF others = {} /\ calm THEN begun ELSE Shared(begun)]
    /\ UNCHANGED <<local, remote, late, edits>>

Scan(c, f) ==
    /\ push[c].pc = "scanning" /\ f \in push[c].todo
    /\ push' = [push EXCEPT ![c].scan[f] = local[f], ![c].todo = @ \ {f}]
    /\ UNCHANGED <<local, remote, late, edits>>

Scanned(c) == {f \in Files : push[c].scan[f] # Absent}

\* list_files: names only.
List(c) ==
    /\ push[c].pc = "scanning" /\ push[c].todo = {}
    /\ push' = [push EXCEPT ![c].pc = "comparing",
                            ![c].listing = {f \in Files : remote[f] # Absent},
                            ![c].todo = Scanned(c)]
    /\ UNCHANGED <<local, remote, late, edits>>

-----------------------------------------------------------------------------
(* The upload loop.                                                        *)

\* file_info of a listed file that meanwhile was deleted raises.
InfoFails(c, f) == f \in push[c].listing /\ remote[f] = Absent

\* Mutants of Unchanged: any listed file counts as unchanged; none does.
ListedIsUnchanged(c, f) == f \in push[c].listing
NothingIsUnchanged(c, f) == FALSE

Unchanged(c, f) == f \in push[c].listing /\ remote[f] = push[c].scan[f]

\* The digest of a listed file is asked for; an equal one ends the work on the file.
Compare(c, f) ==
    /\ push[c].pc = "comparing" /\ f \in push[c].todo
    /\ push' = IF InfoFails(c, f) THEN [push EXCEPT ![c] = IdlePush]
               ELSE IF Unchanged(c, f) THEN [push EXCEPT ![c].todo = @ \ {f}]
               ELSE [push EXCEPT ![c].todo = @ \ {f}, ![c].file = f, ![c].pc = "reading"]
    /\ UNCHANGED <<local, remote, late, edits>>

\* Mutant of ReadLocal: a file that is gone is taken for an empty one.
ReadLocalAnyway(c) ==
    /\ push[c].pc = "reading"
    /\ push' = [push EXCEPT ![c].data = local[push[c].file], ![c].pc = "opening"]
    /\ UNCHANGED <<local, remote, late, edits>>

\* The local file is read again, after it was compared by its digest.
ReadLocal(c) ==
    LET f == push[c].file
    IN  /\ push[c].pc = "reading"
        /\ push' = IF local[f] = Absent THEN [push EXCEPT ![c] = IdlePush]
                   ELSE [push EXCEPT ![c].data = local[f], ![c].pc = "opening"]
        /\ UNCHANGED <<local, remote, late, edits>>

(* write_file on the agent: write_bytes opens the file, which truncates    *)
(* it, then writes the contents.                                           *)
WriteOpen(c) ==
    /\ push[c].pc = "opening"
    /\ remote' = [remote EXCEPT ![push[c].file] = Torn]
    /\ push' = [push EXCEPT ![c].pc = "writing"]
    /\ UNCHANGED <<local, late, edits>>

WriteData(c) ==
    /\ push[c].pc = "writing"
    /\ remote' = [remote EXCEPT ![push[c].file] = push[c].data]
    /\ push' = [push EXCEPT ![c].changed = @ \cup {push[c].file},
                            ![c].file = NoFile, ![c].data = Absent, ![c].pc = "comparing"]
    /\ UNCHANGED <<local, late, edits>>

-----------------------------------------------------------------------------
(* The delete loop: listed names that the scan did not find.  The scan and *)
(* the listing are not looked at again and are dropped here.               *)

Surplus(c) == IF push[c].delete THEN push[c].listing \ Scanned(c) ELSE {}

\* The delete loop goes on with these files, or the push returns.
DeleteNext(p, files) ==
    [p EXCEPT !.pc = IF files = {} THEN "ok" ELSE "deleting", !.todo = files]

StartDeleting(c) ==
    /\ push[c].pc = "comparing" /\ push[c].todo = {}
    /\ push' = [push EXCEPT ![c] =
                   [DeleteNext(@, Surplus(c)) EXCEPT !.scan = NoScan, !.listing = {}]]
    /\ UNCHANGED <<local, remote, late, edits>>

\* delete_file does not mind a file that is gone.
Delete(c, f) ==
    /\ push[c].pc = "deleting" /\ f \in push[c].todo
    /\ remote' = [remote EXCEPT ![f] = Absent]
    /\ push' = [push EXCEPT ![c] = DeleteNext(@, @.todo \ {f})]
    /\ UNCHANGED <<local, late, edits>>

Return(c) ==
    /\ push[c].pc = "ok"
    /\ push' = [push EXCEPT ![c] = IdlePush]
    /\ UNCHANGED <<local, remote, late, edits>>

-----------------------------------------------------------------------------
(* Failures: a call times out or the connection breaks, the push raises    *)
(* and leaves behind what it has done so far.  A write that already        *)
(* reached the agent stops there, as in a crash of the agent, or goes on   *)
(* without its caller.                                                     *)

Writing(c) == push[c].pc \in {"opening", "writing"}

\* The push waits for the answer to list_files, file_info, delete_file or write_file.
Waits(c) ==
    \/ push[c].pc = "scanning" /\ push[c].todo = {}
    \/ push[c].pc = "comparing" /\ push[c].todo # {}
    \/ push[c].pc = "deleting"
    \/ Writing(c)

CallFails(c) ==
    /\ Waits(c)
    /\ push' = Disturbed([push EXCEPT ![c] = IdlePush])
    /\ \/ UNCHANGED late
       \/ /\ Writing(c)
          /\ Cardinality(late) < MaxLate
          /\ late' = late \cup {[file |-> push[c].file, data |-> push[c].data,
                                 pc |-> push[c].pc]}
    /\ UNCHANGED <<local, remote, edits>>

LateOpen(w) ==
    /\ w.pc = "opening"
    /\ remote' = [remote EXCEPT ![w.file] = Torn]
    /\ late' = (late \ {w}) \cup {[w EXCEPT !.pc = "writing"]}
    /\ UNCHANGED <<local, push, edits>>

LateData(w) ==
    /\ w.pc = "writing"
    /\ remote' = [remote EXCEPT ![w.file] = w.data]
    /\ late' = late \ {w}
    /\ UNCHANGED <<local, push, edits>>

\* The agent's process ends, or its disk is full.
LateFails(w) ==
    /\ late' = late \ {w}
    /\ UNCHANGED <<local, remote, push, edits>>

-----------------------------------------------------------------------------
Step(c) ==
    \/ \E f \in Files : Scan(c, f) \/ Compare(c, f) \/ Delete(c, f)
    \/ List(c) \/ ReadLocal(c) \/ WriteOpen(c) \/ WriteData(c)
    \/ StartDeleting(c) \/ Return(c)

Next ==
    \/ \E f \in Files, content \in Contents \cup {Absent} : Edit(f, content)
    \/ \E c \in Callers :
         \/ \E delete \in BOOLEAN : Begin(c, delete)
         \/ Step(c)
         \/ CallFails(c)
    \/ \E w \in late : LateOpen(w) \/ LateData(w) \/ LateFails(w)

Spec == Init /\ [][Next]_vars

-----------------------------------------------------------------------------
(* Properties                                                              *)

Pcs == {"idle", "scanning", "comparing", "reading", "opening", "writing",
        "deleting", "ok"}

\* Every variable has the type its Python counterpart has.
TypeOK ==
    /\ local \in [Files -> Contents \cup {Absent}]
    /\ remote \in [Files -> Contents \cup {Absent, Torn}]
    /\ push \in [Callers ->
         [pc : Pcs, delete : BOOLEAN, scan : [Files -> Contents \cup {Absent}],
          listing : SUBSET Files, todo : SUBSET Files, file : Files \cup {NoFile},
          data : Contents \cup {Absent}, changed : SUBSET Files, alone : BOOLEAN,
          calm : BOOLEAN, start : [Files -> Contents \cup {Absent, Torn}]]]
    /\ late \subseteq [file : Files, data : Contents, pc : {"opening", "writing"}]
    /\ edits \in Nat

(* "The local project is the source of truth" (architecture.md:16): when a *)
(* push reports success, the remote project holds every local file as it   *)
(* is, and with `delete' no other file - whatever an earlier push left     *)
(* half done, and though other callers push the same files at the same     *)
(* time, as long as none of those is writing.  It does not hold across     *)
(* local edits, failures of other pushes and abandoned writes (calm).      *)
PushSyncs ==
    \A c \in Callers :
        /\ push[c].pc = "ok" /\ push[c].calm
        /\ \A d \in Callers : ~Writing(d)
        => \A f \in Files :
              /\ local[f] # Absent => remote[f] = local[f]
              /\ local[f] = Absent /\ push[c].delete => remote[f] = Absent

(* "Only changed files are transferred" (mcp_server.py:25), and `uploaded: *)
(* 0' when nothing changed (README.md:68): a push that is alone with the   *)
(* files reports as changed exactly the local files whose remote copy was  *)
(* missing, different or torn when it began; the remote files that are     *)
(* gone are with `delete' exactly those that were only remote, without it  *)
(* none; and a file that is only remote still is what it was (service.py   *)
(* 102-121).                                                               *)
PushIsMinimal ==
    \A c \in Callers : push[c].pc = "ok" /\ push[c].alone =>
        LET start == push[c].start
            onlyRemote == {f \in Files : local[f] = Absent /\ start[f] # Absent}
            gone == {f \in Files : start[f] # Absent /\ remote[f] = Absent}
        IN  /\ push[c].changed = {f \in Files : local[f] # Absent /\ start[f] # local[f]}
            /\ gone = IF push[c].delete THEN onlyRemote ELSE {}
            /\ \A f \in Files : local[f] = Absent /\ remote[f] # Absent => remote[f] = start[f]
=============================================================================
