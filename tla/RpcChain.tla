-------------------------------- MODULE RpcChain --------------------------------
(***************************************************************************)
(* The three loops that answer lines of JSON, and the requests between     *)
(* them: main in rdklink/mcp_server.py, LocalServiceServer.client in       *)
(* rdklink/service_server.py and Agent.client in rdklink/agent.py, joined  *)
(* by protocol.request, which ServiceClient.call and RdkLinkService.call   *)
(* use alike: one connection for each request, with a timeout.             *)
(*                                                                         *)
(* A connection is a loop's input and output: standard input and output of *)
(* the MCP server, or a TCP connection to the service or the agent.  Its   *)
(* other end is a loop of the tier above or an external peer - Codex, the  *)
(* GUI, the CLI - that sends a script of lines and may leave at any time.  *)
(* An agent does a job in one step; project_add is done by the service,    *)
(* see ProjectRegistry.                                                    *)
(***************************************************************************)
EXTENDS Integers, Sequences, FiniteSets

CONSTANTS
    Scripts,         \* of each external peer: the tier it talks to and the lines it sends
    Jobs,            \* what requests ask for; no two lines of Scripts ask for the same
    Adds,            \* the jobs that are a project_add, which the MCP server does not offer
    NameOf,          \* the name of the project of each of these
    Broken, TooLarge,   \* see ProjectRegistry
    None,            \* null, or nothing
    Unbound,         \* a local variable that was not assigned yet
    DiscardLimit,    \* pieces of a too long line the MCP server discards (1 MiB / 64 KiB)
    Parties,         \* bound: the sets of external peers that connect in one behaviour
    MaxCrashes       \* bound: crashes of the service or the agent

Tiers == {"mcp", "service", "agent"}
Peers == DOMAIN Scripts

(* A connection is named by the tier that serves it and by the peer that   *)
(* made it or, between two loops, by the job it was made for.              *)
Conns == {<<Scripts[p].tier, p>> : p \in Peers} \cup {"service", "agent"} \X (Jobs \ Adds)

(* A line in its pieces: what one bounded read returns.  All but a too     *)
(* long line are one piece.  That begins with a piece of limit + 1 bytes,  *)
(* "long", and ends with one of these that has the line end, "longEnd", or *)
(* with a shorter one, "rest".  "hello" is a request the tier answers by   *)
(* itself, "note" one without an answer, "array" JSON that is no object,   *)
(* "bad" no JSON.                                                          *)
Kinds == {"call", "hello", "note", "array", "bad", "long", "longEnd", "rest"}
Piece == [kind : Kinds, id : Nat \cup {None}, job : Jobs \cup {None}]

\* Only a request asks for a job; what follows a piece "long" is more of the same line.
LinesInPieces(script) ==
    \A i \in DOMAIN script :
        /\ script[i].kind \notin {"call", "hello"} => script[i].job = None
        /\ script[i].kind = "rest" => i > 1 /\ script[i - 1].kind = "long"
        /\ i > 1 /\ script[i - 1].kind = "long" => script[i].kind \in {"long", "longEnd", "rest"}

ASSUME ChainAssumption ==
    /\ MaxCrashes \in Nat /\ DiscardLimit \in Nat \ {0, 1}
    /\ None \notin Nat \cup Jobs \cup {Unbound} /\ Unbound \notin Nat
    /\ Scripts \in [Peers -> [tier : Tiers, lines : Seq(Piece)]]
    /\ Peers \cap Jobs = {} /\ Adds \subseteq Jobs
    /\ \A p, q \in Peers : \A i \in DOMAIN Scripts[p].lines, k \in DOMAIN Scripts[q].lines :
          LET job == Scripts[p].lines[i].job
          IN  /\ job \in Jobs /\ Scripts[q].lines[k].job = job => p = q /\ i = k
              /\ job \in Adds => Scripts[p].tier = "service"
    /\ \A j \in Jobs : \E p \in Peers : \E i \in DOMAIN Scripts[p].lines :
          Scripts[p].lines[i].job = j
    /\ \A p \in Peers : LinesInPieces(Scripts[p].lines)
    /\ DOMAIN NameOf = Adds
    /\ (\A list \in SUBSET Adds : Broken # list)

VARIABLES
    conn,        \* each connection with the loop that serves it
    done,        \* history: how often each job was carried out
    crashes,     \* number of crashes so far
    file, add, kept, disturbed    \* the registry on the service

registryVars == <<file, add, kept, disturbed>>
vars == <<conn, done, crashes, file, add, kept, disturbed>>

Tier(n) == n[1]
Served(tier) == {n \in Conns : Tier(n) = tier}
Externals == {n \in Conns : n[2] \in Peers}
Script(n) == Scripts[n[2]].lines

Registry == INSTANCE ProjectRegistry WITH Workers <- Served("service")

(* in: pieces not read yet; req: the id in the local variable req of the   *)
(* loop; reply: the outcome of the line in hand; out: the answers; peer:   *)
(* the other end is there; discarded: pieces read of a too long line.      *)
NewConn(tier, pc, lines) ==
    [in |-> lines, pc |-> pc, req |-> IF tier = "agent" THEN Unbound ELSE None, job |-> None,
     reply |-> "none", out |-> <<>>, peer |-> TRUE, discarded |-> 0]

Init ==
    /\ conn = [n \in Conns |-> NewConn(Tier(n), "none", <<>>)]
    /\ done = [j \in Jobs |-> 0]
    /\ crashes = 0
    /\ Registry!Init

\* The loop of n goes on as c says and nothing else changes.
Become(n, c) ==
    /\ conn' = [conn EXCEPT ![n] = c]
    /\ UNCHANGED <<done, crashes>> /\ UNCHANGED registryVars

-----------------------------------------------------------------------------
(* External peers                                                          *)

Open(n) ==
    /\ n \in Externals /\ conn[n].pc = "none"
    /\ \E party \in Parties : \A m \in Externals :
           m = n \/ conn[m].pc # "none" => m[2] \in party
    /\ Become(n, NewConn(Tier(n), "reading", Script(n)))

HangUp(n) ==
    /\ n \in Externals /\ conn[n].pc # "none" /\ conn[n].peer
    /\ Become(n, [conn[n] EXCEPT !.peer = FALSE])

-----------------------------------------------------------------------------
(* Reading a line                                                          *)

Reads(n, kinds) == conn[n].pc = "reading" /\ conn[n].in # <<>> /\ Head(conn[n].in).kind \in kinds

ReadRequest(n) ==
    /\ Reads(n, {"call", "hello"})
    /\ LET x == Head(conn[n].in)
       IN  Become(n, [conn[n] EXCEPT !.in = Tail(@), !.pc = "working",
                                     !.req = x.id, !.job = x.job])

\* Mutant of ReqAfter: no loop resets req.
NeverReset(n, kind) == IF kind = "array" THEN None ELSE conn[n].req

(* What is in req after a line that is no request.  The service and the    *)
(* MCP server set it to {} first; the agent does not, so that req is still *)
(* the request before, if there was any.                                   *)
ReqAfter(n, kind) ==
    IF kind # "array" /\ Tier(n) = "agent" THEN conn[n].req ELSE None

(* The line is answered with an error that carries the id in req.  Where   *)
(* req is unbound, the agent's error handler raises and the loop ends.     *)
ReadMalformed(n) ==
    /\ Reads(n, {"bad", "array", "rest"})
    /\ LET req == ReqAfter(n, Head(conn[n].in).kind)
       IN  Become(n, [conn[n] EXCEPT !.in = Tail(@), !.req = req, !.job = None,
                         !.reply = "failed",
                         !.pc = IF req = Unbound THEN "closed" ELSE "answering"])

\* notifications/initialized has no answer; neither has a blank line.
ReadNote(n) ==
    /\ Reads(n, {"note"})
    /\ Become(n, [conn[n] EXCEPT !.in = Tail(@)])

Reply(n, id, kind, job) == Append(conn[n].out, [id |-> id, kind |-> kind, job |-> job])

(* asyncio's readline raises: the service and the agent close the          *)
(* connection.  The MCP server answers, then looks for the end of the line.*)
ReadTooLong(n) ==
    /\ Reads(n, {"long", "longEnd"})
    /\ IF Tier(n) # "mcp" THEN Become(n, [conn[n] EXCEPT !.pc = "closed"])
       ELSE Become(n, [conn[n] EXCEPT
              !.in = Tail(@), !.out = Reply(n, None, "failed", None),
              !.pc = IF Head(conn[n].in).kind = "longEnd" THEN "reading" ELSE "discarding",
              !.discarded = IF Head(conn[n].in).kind = "longEnd" THEN 0 ELSE 1])

\* Mutant of Discard: one piece is thrown away, the end of the line or not.
DiscardOne(n) ==
    /\ conn[n].pc = "discarding" /\ conn[n].in # <<>>
    /\ Become(n, [conn[n] EXCEPT !.in = Tail(@), !.pc = "reading"])

Discard(n) ==
    /\ conn[n].pc = "discarding" /\ conn[n].in # <<>>
    /\ Become(n, [conn[n] EXCEPT
           !.in = Tail(@),
           !.discarded = IF Head(conn[n].in).kind = "long" THEN @ + 1 ELSE 0,
           !.pc = IF Head(conn[n].in).kind # "long" THEN "reading"
                  ELSE IF conn[n].discarded + 1 >= DiscardLimit THEN "closed"
                  ELSE "discarding"])

(* The other end is gone: end of input once everything it sent was read,   *)
(* or before that when a connection is reset or an answer not delivered.   *)
EndOfInput(n) ==
    /\ conn[n].pc \in {"reading", "discarding"} /\ ~conn[n].peer
    /\ conn[n].in = <<>> \/ Tier(n) # "mcp" \/ conn[n].out # <<>>
    /\ Become(n, [NewConn(Tier(n), "closed", <<>>) EXCEPT
                     !.peer = FALSE, !.out = IF n \in Externals THEN conn[n].out ELSE <<>>])

-----------------------------------------------------------------------------
(* Handling a request                                                      *)

Finish(n, reply) == [conn[n] EXCEPT !.pc = "answering", !.reply = reply]

\* initialize, tools/list, health: nobody is asked.
AnswerHello(n) ==
    /\ conn[n].pc = "working" /\ conn[n].job = None
    /\ Become(n, Finish(n, "ok"))

\* An unknown method or tool, or a parameter that is missing.
Reject(n) ==
    /\ conn[n].pc = "working" /\ (Tier(n) = "service" => ~Registry!Adding(n))
    /\ Become(n, Finish(n, "failed"))

Passes(n) ==
    /\ conn[n].pc = "working" /\ conn[n].job # None
    /\ Tier(n) = "mcp" \/ (Tier(n) = "service" /\ conn[n].job \notin Adds)

Child(n) == <<IF Tier(n) = "mcp" THEN "service" ELSE "agent", conn[n].job>>

(* protocol.request: a new connection and one line, always with id 1.      *)
(* Escaped to ASCII, a line that was short enough for the MCP server may   *)
(* have become too long for the service.                                   *)
Ask(n, kind) ==
    /\ Passes(n)
    /\ kind = "long" => Tier(n) = "mcp"
    /\ conn' = [conn EXCEPT
           ![n].pc = "asking",
           ![Child(n)] = NewConn(Tier(Child(n)), "reading",
                                 <<[kind |-> kind, id |-> 1, job |-> conn[n].job]>>)]
    /\ UNCHANGED <<done, crashes>> /\ UNCHANGED registryVars

\* DeviceOfflineError: the connection cannot be made.
Offline(n) == Passes(n) /\ Become(n, Finish(n, "offline"))

\* Mutant of Received: an error in the answer is not looked at.
TakenForSuccess(kind) == "ok"

\* Mutant of Received: an error in the answer is swallowed and nothing returned.
NothingRaised(kind) == IF kind = "ok" THEN "ok" ELSE "none"

(* What a caller makes of an answer: of the errors, the four codes that    *)
(* request() knows keep their class, any other becomes a ProtocolError.    *)
Received(kind) == IF kind \in {"ok", "refused"} THEN kind ELSE "failed"

\* The request of n is over, and its connection is closed.
Return(n, reply) ==
    /\ conn' = [conn EXCEPT ![n] = Finish(n, reply), ![Child(n)].peer = FALSE]
    /\ UNCHANGED <<done, crashes>> /\ UNCHANGED registryVars

\* An answer that is too large, or a call that cannot be logged, fails whatever it says.
TakeAnswer(n) ==
    /\ conn[n].pc = "asking" /\ conn[Child(n)].out # <<>>
    /\ \/ Return(n, Received(Head(conn[Child(n)].out).kind))
       \/ Return(n, "failed")

\* The connection ends without an answer that can be read.
Broke(n) ==
    /\ conn[n].pc = "asking"
    /\ conn[Child(n)].pc = "closed" /\ conn[Child(n)].out = <<>>
    /\ Return(n, "failed")

NoTimeout(n) == FALSE   \* mutant of TimeOut: the socket has no timeout

\* Mutant of TimeOut: the request is sent again.
TryAgain(n) ==
    /\ conn[n].pc = "asking" /\ conn[Child(n)].out = <<>>
    /\ Become(n, [conn[n] EXCEPT !.pc = "working"])

\* No answer within the timeout of the socket.  The work below goes on.
TimeOut(n) ==
    /\ conn[n].pc = "asking" /\ conn[Child(n)].out = <<>>
    /\ Return(n, "timeout")

Carried(j) == done' = [done EXCEPT ![j] = @ + 1]

\* The agent does what it is asked for; it may raise with the work already done.
Execute(n, reply) ==
    /\ conn[n].pc = "working" /\ Tier(n) = "agent" /\ conn[n].job # None
    /\ conn' = [conn EXCEPT ![n] = Finish(n, reply)]
    /\ Carried(conn[n].job)
    /\ UNCHANGED crashes /\ UNCHANGED registryVars

(* A path or port that is not allowed, an unknown process, another serial  *)
(* configuration: refused before anything is done.                         *)
Refuse(n) ==
    /\ conn[n].pc = "working" /\ Tier(n) = "agent" /\ conn[n].job # None
    /\ Become(n, Finish(n, "refused"))

-----------------------------------------------------------------------------
(* project_add, on the worker thread of the service                        *)

AddsProject(n) == conn[n].pc = "working" /\ Tier(n) = "service" /\ conn[n].job \in Adds

AddLoad(n) ==
    /\ AddsProject(n) /\ Registry!Load(n, conn[n].job)
    /\ UNCHANGED <<conn, done, crashes>>

AddTruncate(n) ==
    /\ AddsProject(n) /\ Registry!Truncate(n)
    /\ UNCHANGED <<conn, done, crashes>>

AddWrite(n) ==
    /\ AddsProject(n) /\ Registry!Write(n)
    /\ conn' = [conn EXCEPT ![n] = Finish(n, "ok")]
    /\ Carried(conn[n].job)
    /\ UNCHANGED crashes

AddFail(n) ==
    /\ AddsProject(n) /\ Registry!Fail(n)
    /\ conn' = [conn EXCEPT ![n] = Finish(n, "failed")]
    /\ UNCHANGED <<done, crashes>>

-----------------------------------------------------------------------------
\* The answer is written, with the id in req, whether anybody is there to read it or not.
Answer(n) ==
    /\ conn[n].pc = "answering"
    /\ Become(n, [conn[n] EXCEPT !.out = Reply(n, conn[n].req, conn[n].reply, conn[n].job),
                                 !.pc = "reading", !.reply = "none", !.job = None])

(* The process of the service or the agent ends with all its connections   *)
(* and worker threads, and is started again.                               *)
Crash(tier) ==
    /\ crashes < MaxCrashes
    /\ crashes' = crashes + 1
    /\ conn' = [n \in Conns |->
          IF Tier(n) = tier /\ conn[n].pc # "none" THEN [conn[n] EXCEPT !.pc = "closed"]
          ELSE IF tier = "service" /\ Tier(n) = "agent" /\ n \notin Externals
          THEN [conn[n] EXCEPT !.peer = FALSE] ELSE conn[n]]
    /\ IF tier = "service" THEN Registry!Crash ELSE UNCHANGED registryVars
    /\ UNCHANGED done

Step(n) ==
    \/ ReadRequest(n) \/ ReadMalformed(n) \/ ReadNote(n) \/ ReadTooLong(n)
    \/ Discard(n) \/ EndOfInput(n)
    \/ AnswerHello(n) \/ Reject(n) \/ Offline(n)
    \/ \E kind \in {"call", "long"} : Ask(n, kind)
    \/ TakeAnswer(n) \/ Broke(n) \/ TimeOut(n)
    \/ \E reply \in {"ok", "failed"} : Execute(n, reply)
    \/ Refuse(n)
    \/ AddLoad(n) \/ AddTruncate(n) \/ AddWrite(n) \/ AddFail(n)
    \/ Answer(n)

Next ==
    \/ \E n \in Conns : Step(n) \/ Open(n) \/ HangUp(n)
    \/ \E tier \in {"service", "agent"} : Crash(tier)

Spec == Init /\ [][Next]_vars

(* An external peer that is there need not read: writer.drain() and the    *)
(* flushed print() then wait, and have no timeout.  The loops in between   *)
(* read what they asked for, or close the connection.                      *)
Stalled(n) ==
    /\ n \in Externals /\ conn[n].peer
    /\ conn[n].pc = "answering" \/ (Tier(n) = "mcp" /\ Reads(n, {"long", "longEnd"}))

(* The loops and threads of the MCP server and the service get on: they    *)
(* are scheduled by the operating system and wait on nothing but sockets   *)
(* that have a timeout, and on external peers to read their answers.  The  *)
(* agent may hang for ever in what it does.                                *)
FairSpec == Spec /\ \A n \in Conns \ Served("agent") : WF_vars(Step(n) /\ ~Stalled(n))

-----------------------------------------------------------------------------
(* Properties                                                              *)

Replies == {"ok", "refused", "offline", "timeout", "failed"}
Pcs == {"reading", "discarding", "working", "asking", "answering", "closed", "none"}

\* Every variable has the type its Python counterpart has.
TypeOK ==
    /\ conn \in [Conns ->
         [in : Seq(Piece), pc : Pcs, req : Nat \cup {None, Unbound}, job : Jobs \cup {None},
          reply : Replies \cup {"none"}, peer : BOOLEAN, discarded : Nat,
          out : Seq([id : Nat \cup {None, Unbound}, kind : Replies, job : Jobs \cup {None}])]]
    /\ done \in [Jobs -> Nat]
    /\ crashes \in Nat
    /\ Registry!TypeOK

\* The positions of the pieces of a script that begin a line with an answer.
Asked(script) ==
    {i \in DOMAIN script :
        \/ script[i].kind \in {"call", "hello", "array", "bad"}
        \/ script[i].kind \in {"long", "longEnd"} /\ (i > 1 => script[i - 1].kind # "long")}

(* Answers come in the order of the lines, one for each line that wants    *)
(* one, for the job it asked for and with its id, and null where the line  *)
(* has none that can be read (test_mcp_protocol.py:55-58) - across         *)
(* timeouts below, malformed lines and too long ones, after which the next *)
(* line is found again (mcp_server.py 62-88, service_server.py 43-54).     *)
(* Only the agent answers a malformed line with the id of an earlier one   *)
(* (agent.py 397).                                                         *)
AnswersMatchLines ==
    \A n \in Externals :
        \A k \in DOMAIN conn[n].out :
            \E i \in Asked(Script(n)) :
                LET line == Script(n)[i]
                    stale == {Script(n)[e].id : e \in 1..(i - 1)}
                IN  /\ k = Cardinality({a \in Asked(Script(n)) : a <= i})
                    /\ conn[n].out[k].job = line.job
                    /\ conn[n].out[k].id \in
                          IF line.kind \in {"call", "hello"} THEN {line.id}
                          ELSE {None} \cup (IF Tier(n) = "agent" THEN stale ELSE {})

(* What a caller may conclude from an answer: a job - one call to the      *)
(* agent, or a project_add - is done at most once, it was done when the    *)
(* answer is its result, and not at all, neither now nor later, when it is *)
(* a refusal or "offline" (protocol.py 15-39, service.py 29-41).  It does  *)
(* not speak of project_push, which is several calls and may end in        *)
(* "offline" with files written: see ProjectPush.                          *)
DefiniteAnswers ==
    \A j \in Jobs :
        /\ done[j] <= 1
        /\ \A n \in Externals :
              \A k \in DOMAIN conn[n].out : conn[n].out[k].job = j =>
                  /\ conn[n].out[k].kind = "ok" => done[j] = 1
                  /\ conn[n].out[k].kind \in {"refused", "offline"} => done[j] = 0

\* See ProjectRegistry: undisturbed adds that loaded the file are all in it.
RegistryIsKept == Registry!RegistryIsKept

\* The connection on which an external peer asks for each job, and on which line.
Owner == [j \in Jobs |-> CHOOSE n \in Externals :
                             \E i \in DOMAIN Script(n) : Script(n)[i].job = j]

\* What the peer that asks for a job knows of it.
Status(j) ==
    LET c == conn[Owner[j]]
        answers == {c.out[k].kind : k \in {k \in DOMAIN c.out : c.out[k].job = j}}
    IN  CASE c.pc = "none" -> "unsent"
          [] answers = {"ok"} -> "done"
          [] answers \in {{"refused"}, {"offline"}} -> "refused"
          [] answers \in {{"failed"}, {"timeout"}} \/ (answers = {} /\ c.pc = "closed") -> "unknown"
          [] OTHER -> "open"

Call(j) == INSTANCE RemoteCall WITH status <- Status(j), acted <- done[j]

(* For jobs that are one call to the agent or a project_add, the chain is  *)
(* a call that is done at most once and whose definite answers are true    *)
(* and final: nothing given up is answered later, nothing refused is done  *)
(* later (protocol.py 15-39, service.py 29-41).  project_push is not one.  *)
CallSpec ==
    /\ \A j \in Jobs : Call(j)!Init
    /\ [][\A j \in Jobs : Call(j)!Next \/ UNCHANGED Call(j)!vars]_vars

(* A request comes to an end unless its own peer stays without reading: a  *)
(* loop of the MCP server or the service reads and answers everything it   *)
(* was sent, though the agent may hang for ever, though the peer has left, *)
(* and though the peer of another connection is stalled (protocol.py:22,   *)
(* service.py 29-41, service_server.py 43-54).                             *)
RequestsEnd ==
    \A n \in Conns \ Served("agent") :
        []<>~Stalled(n) =>
            (conn[n].pc # "none"
                ~> (\/ conn[n].pc = "closed"
                    \/ conn[n].in = <<>> /\ conn[n].pc \in {"reading", "discarding"}))
=============================================================================
