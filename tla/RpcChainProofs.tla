----------------------------- MODULE RpcChainProofs -----------------------------
(* Theorems of RpcChain: its type invariant, that a job is done at most    *)
(* once and definite answers are true, that the registry is kept, that     *)
(* answers match the lines of the scripts, and that the chain implements a *)
(* remote call - for any number of peers, scripts, jobs and crashes.       *)
EXTENDS RpcChain, FiniteSetTheorems, TLAPS

RegistryProofs == INSTANCE ProjectRegistryProofs WITH Workers <- Served("service")

AnswerRecord == [id : Nat \cup {None, Unbound}, kind : Replies, job : Jobs \cup {None}]
ConnRecord ==
    [in : Seq(Piece), pc : Pcs, req : Nat \cup {None, Unbound}, job : Jobs \cup {None},
     reply : Replies \cup {"none"}, peer : BOOLEAN, discarded : Nat, out : Seq(AnswerRecord)]

(* The connection n, in the state c, still has to see to a job: its peer   *)
(* is going to ask for it, its line was not read yet, or its loop is about *)
(* to carry the job out or pass it on.                                     *)
HoldsIn(n, c, j) ==
    \/ c.pc = "none" /\ n \in Externals /\ \E i \in DOMAIN Script(n) : Script(n)[i].job = j
    \/ c.pc \notin {"none", "closed"} /\ \E i \in DOMAIN c.in : c.in[i].job = j
    \/ c.pc = "working" /\ c.job = j

Holds(n, j) == HoldsIn(n, conn[n], j)

(* A job is in one line of a connection at most, and a connection made for *)
(* a job has nothing to do with any other.                                 *)
Sound(n, c) ==
    /\ \A i, k \in DOMAIN c.in : c.in[i].job = c.in[k].job /\ c.in[i].job \in Jobs => i = k
    /\ \A i \in DOMAIN c.in : c.in[i].job \in Adds => Tier(n) = "service"
    /\ c.pc = "working" /\ c.job \in Jobs =>
          /\ \A i \in DOMAIN c.in : c.in[i].job # c.job
          /\ c.job \in Adds => Tier(n) = "service"
    /\ c.pc = "asking" => Tier(n) \in {"mcp", "service"} /\ c.job \in Jobs \ Adds
    /\ c.pc = "answering" => c.reply \in Replies
    /\ n \notin Externals =>
          /\ \A i \in DOMAIN c.in : c.in[i].job = n[2] /\ c.in[i].kind \in {"call", "long"}
          /\ c.pc \in {"working", "asking", "answering"} => c.job = n[2]
          /\ \A k \in DOMAIN c.out : c.out[k].job = n[2]

\* What an answer says of a job is so, and stays so.
TrueClaim(kind, j) ==
    /\ kind = "ok" => done[j] = 1
    /\ kind \in {"refused", "offline"} => done[j] = 0 /\ \A m \in Conns : ~Holds(m, j)

TrueClaims(c) ==
    \A j \in Jobs :
        /\ c.pc = "answering" /\ c.job = j => TrueClaim(c.reply, j)
        /\ \A k \in DOMAIN c.out : c.out[k].job = j => TrueClaim(c.out[k].kind, j)

ConnsOK == conn \in [Conns -> ConnRecord] /\ done \in [Jobs -> {0, 1}]

ChainInv ==
    /\ ConnsOK
    /\ \A n \in Conns : Sound(n, conn[n]) /\ TrueClaims(conn[n])
    /\ \A n \in Conns, j \in Jobs : Holds(n, j) =>
          done[j] = 0 /\ \A m \in Conns : Holds(m, j) => m = n

-----------------------------------------------------------------------------
\* What a step makes true of an answer.
NewClaim(kind, j) ==
    /\ kind = "ok" => done'[j] = 1
    /\ kind \in {"refused", "offline"} =>
          done'[j] = 0 /\ \A m \in Conns : ~HoldsIn(m, conn'[m], j)

(* A step that passes jobs on or carries one out, and adds no answer that  *)
(* is not so, keeps the invariant.                                         *)
LEMMA Passing ==
    ASSUME ChainInv, ConnsOK', \A n \in Conns : Sound(n, conn'[n]),
           \A m \in Conns, j \in Jobs : HoldsIn(m, conn'[m], j) =>
               /\ done'[j] = done[j]
               /\ \E n \in Conns : Holds(n, j)
               /\ \A l \in Conns : HoldsIn(l, conn'[l], j) => l = m,
           \A j \in Jobs :
               done'[j] = done[j] \/ (done'[j] = 1 /\ \E n \in Conns : Holds(n, j)),
           \A n \in Conns, j \in Jobs :
               /\ conn'[n].pc = "answering" /\ conn'[n].job = j =>
                     TrueClaim(conn'[n].reply, j) \/ NewClaim(conn'[n].reply, j)
               /\ \A k \in DOMAIN conn'[n].out : conn'[n].out[k].job = j =>
                     \/ TrueClaim(conn'[n].out[k].kind, j)
                     \/ NewClaim(conn'[n].out[k].kind, j)
    PROVE  ChainInv'
<1>1. \A j \in Jobs, kind \in Replies : TrueClaim(kind, j) => NewClaim(kind, j)
  <2> SUFFICES ASSUME NEW j \in Jobs, NEW kind \in Replies, TrueClaim(kind, j)
               PROVE  NewClaim(kind, j)
    OBVIOUS
  <2>1. done[j] = 1 => \A n \in Conns : ~Holds(n, j)
    BY DEF ChainInv
  <2> QED
    BY <2>1 DEF TrueClaim, NewClaim
<1>2. \A n \in Conns, j \in Jobs :
          /\ conn'[n].pc = "answering" /\ conn'[n].job = j => NewClaim(conn'[n].reply, j)
          /\ \A k \in DOMAIN conn'[n].out : conn'[n].out[k].job = j =>
                NewClaim(conn'[n].out[k].kind, j)
  <2> SUFFICES ASSUME NEW n \in Conns, NEW j \in Jobs
               PROVE  /\ conn'[n].pc = "answering" /\ conn'[n].job = j =>
                            NewClaim(conn'[n].reply, j)
                      /\ \A k \in DOMAIN conn'[n].out : conn'[n].out[k].job = j =>
                            NewClaim(conn'[n].out[k].kind, j)
    OBVIOUS
  <2>1. conn'[n] \in ConnRecord /\ Sound(n, conn'[n])
    BY DEF ConnsOK
  <2>2. conn'[n].pc = "answering" => conn'[n].reply \in Replies
    BY <2>1 DEF Sound
  <2>3. \A k \in DOMAIN conn'[n].out : conn'[n].out[k].kind \in Replies
    <3>1. conn'[n].out \in Seq(AnswerRecord)
      BY <2>1 DEF ConnRecord
    <3>2. \A a \in AnswerRecord : a.kind \in Replies
      BY DEF AnswerRecord
    <3> QED
      BY <3>1, <3>2
  <2> QED
    BY <1>1, <2>2, <2>3
<1>3. \A n \in Conns : TrueClaims(conn[n])'
  BY <1>2 DEF TrueClaims, TrueClaim, NewClaim, Holds
<1>4. \A n \in Conns : Sound(n, conn[n])'
  BY DEF Sound, HoldsIn
<1>5. \A n \in Conns, j \in Jobs : Holds(n, j)' =>
          done'[j] = 0 /\ \A m \in Conns : Holds(m, j)' => m = n
  BY DEF Holds, ChainInv
<1> QED
  BY <1>3, <1>4, <1>5 DEF ChainInv

(* A step that neither passes a job on nor carries one out: no connection  *)
(* gets a job it did not have.                                             *)
LEMMA Quiet ==
    ASSUME ChainInv, ConnsOK', done' = done, \A n \in Conns : Sound(n, conn'[n]),
           \A m \in Conns, j \in Jobs : HoldsIn(m, conn'[m], j) => Holds(m, j),
           \A n \in Conns, j \in Jobs :
               /\ conn'[n].pc = "answering" /\ conn'[n].job = j =>
                     TrueClaim(conn'[n].reply, j) \/ NewClaim(conn'[n].reply, j)
               /\ \A k \in DOMAIN conn'[n].out : conn'[n].out[k].job = j =>
                     \/ TrueClaim(conn'[n].out[k].kind, j)
                     \/ NewClaim(conn'[n].out[k].kind, j)
    PROVE  ChainInv'
<1>1. \A m \in Conns, j \in Jobs : HoldsIn(m, conn'[m], j) =>
          /\ done'[j] = done[j]
          /\ \E n \in Conns : Holds(n, j)
          /\ \A l \in Conns : HoldsIn(l, conn'[l], j) => l = m
  BY DEF ChainInv
<1>2. \A j \in Jobs : done'[j] = done[j] \/ (done'[j] = 1 /\ \E n \in Conns : Holds(n, j))
  OBVIOUS
<1> QED
  BY <1>1, <1>2, Passing

\* A step of one connection that gives nobody a job it did not have.
LEMMA OneConn ==
    ASSUME ChainInv, NEW n \in Conns, NEW c \in ConnRecord, Sound(n, c),
           conn' = [conn EXCEPT ![n] = c], done' = done,
           \A j \in Jobs : HoldsIn(n, c, j) => Holds(n, j),
           \A j \in Jobs : c.pc = "answering" /\ c.job = j =>
               TrueClaim(c.reply, j) \/ NewClaim(c.reply, j),
           \A j \in Jobs, k \in DOMAIN c.out : c.out[k].job = j => TrueClaim(c.out[k].kind, j)
    PROVE  ChainInv'
<1>1. ConnsOK /\ conn \in [Conns -> ConnRecord]
  BY DEF ChainInv, ConnsOK
<1>2. conn'[n] = c /\ \A m \in Conns : m # n => conn'[m] = conn[m]
  BY <1>1
<1>3. ConnsOK'
  BY <1>1 DEF ConnsOK
<1>4. \A m \in Conns : Sound(m, conn'[m])
  BY <1>2 DEF ChainInv
<1>5. \A m \in Conns, j \in Jobs : HoldsIn(m, conn'[m], j) => Holds(m, j)
  BY <1>2 DEF Holds
<1>6. \A m \in Conns, j \in Jobs :
          /\ conn'[m].pc = "answering" /\ conn'[m].job = j =>
                TrueClaim(conn'[m].reply, j) \/ NewClaim(conn'[m].reply, j)
          /\ \A k \in DOMAIN conn'[m].out : conn'[m].out[k].job = j =>
                \/ TrueClaim(conn'[m].out[k].kind, j)
                \/ NewClaim(conn'[m].out[k].kind, j)
  <2> SUFFICES ASSUME NEW m \in Conns, NEW j \in Jobs
               PROVE  /\ conn'[m].pc = "answering" /\ conn'[m].job = j =>
                            TrueClaim(conn'[m].reply, j) \/ NewClaim(conn'[m].reply, j)
                      /\ \A k \in DOMAIN conn'[m].out : conn'[m].out[k].job = j =>
                            \/ TrueClaim(conn'[m].out[k].kind, j)
                            \/ NewClaim(conn'[m].out[k].kind, j)
    OBVIOUS
  <2>1. CASE m = n
    BY <2>1, <1>2
  <2>2. CASE m # n
    <3>1. TrueClaims(conn[m]) /\ conn'[m] = conn[m]
      BY <2>2, <1>2 DEF ChainInv
    <3> QED
      BY <3>1 DEF TrueClaims
  <2> QED
    BY <2>1, <2>2
<1> QED
  BY <1>3, <1>4, <1>5, <1>6, Quiet

\* What the invariant says of one connection.
LEMMA ConnFacts ==
    ASSUME ChainInv, NEW n \in Conns
    PROVE  /\ conn[n] \in ConnRecord /\ Sound(n, conn[n])
           /\ \A j \in Jobs, k \in DOMAIN conn[n].out :
                 conn[n].out[k].job = j => TrueClaim(conn[n].out[k].kind, j)
           /\ \A j \in Jobs : conn[n].pc = "answering" /\ conn[n].job = j =>
                 TrueClaim(conn[n].reply, j)
  BY DEF ChainInv, ConnsOK, TrueClaims

\* The parts of a connection's record.
LEMMA ConnParts ==
    ASSUME NEW c \in ConnRecord
    PROVE  /\ c.in \in Seq(Piece) /\ c.pc \in Pcs /\ c.req \in Nat \cup {None, Unbound}
           /\ c.job \in Jobs \cup {None} /\ c.reply \in Replies \cup {"none"}
           /\ c.out \in Seq(AnswerRecord) /\ c.peer \in BOOLEAN /\ c.discarded \in Nat
  BY DEF ConnRecord

\* What is left to read once a piece was read.
LEMMA TailFacts ==
    ASSUME NEW in \in Seq(Piece), in # <<>>
    PROVE  /\ Tail(in) \in Seq(Piece) /\ Head(in) \in Piece /\ Head(in) = in[1] /\ 1 \in DOMAIN in
           /\ \A i \in DOMAIN Tail(in) :
                 i + 1 \in DOMAIN in /\ Tail(in)[i] = in[i + 1] /\ i \in Nat \ {0}
           /\ Head(in).id \in Nat \cup {None} /\ Head(in).job \in Jobs \cup {None}
<1>1. Tail(in) \in Seq(Piece) /\ Head(in) \in Piece /\ Head(in) = in[1] /\ 1 \in DOMAIN in
  OBVIOUS
<1>2. \A i \in DOMAIN Tail(in) : i + 1 \in DOMAIN in /\ Tail(in)[i] = in[i + 1] /\ i \in Nat \ {0}
  OBVIOUS
<1>3. \A x \in Piece : x.id \in Nat \cup {None} /\ x.job \in Jobs \cup {None}
  BY DEF Piece
<1> QED
  BY <1>1, <1>2, <1>3

\* A connection nobody outside made is one for a job.
LEMMA Internal ==
    ASSUME ChainAssumption, NEW n \in Conns, n \notin Externals
    PROVE  n[2] \in Jobs \ Adds /\ Tier(n) \in {"service", "agent"}
  BY DEF ChainAssumption, Conns, Externals, Tier

-----------------------------------------------------------------------------
(* Reading                                                                 *)

\* A connection that was just made.
LEMMA NewConnFacts ==
    ASSUME NEW tier, NEW pc \in Pcs, NEW lines \in Seq(Piece)
    PROVE  LET c == NewConn(tier, pc, lines)
           IN  /\ c \in ConnRecord /\ c.pc = pc /\ c.in = lines /\ c.out = <<>>
               /\ c.req \in {None, Unbound} /\ c.job = None /\ c.reply = "none"
               /\ c.peer = TRUE /\ c.discarded = 0
<1> DEFINE req == IF tier = "agent" THEN Unbound ELSE None
<1>1. req \in {None, Unbound} /\ <<>> \in Seq(AnswerRecord)
  OBVIOUS
<1> HIDE DEF req
<1>2. [in |-> lines, pc |-> pc, req |-> req, job |-> None, reply |-> "none", out |-> <<>>,
       peer |-> TRUE, discarded |-> 0] \in ConnRecord
  BY <1>1 DEF ConnRecord
<1>3. NewConn(tier, pc, lines) =
          [in |-> lines, pc |-> pc, req |-> req, job |-> None, reply |-> "none",
           out |-> <<>>, peer |-> TRUE, discarded |-> 0]
  BY DEF NewConn, req
<1> QED
  BY <1>1, <1>2, <1>3

\* A loop that ends: it has nothing left to do.
LEMMA EndStep ==
    ASSUME ChainAssumption, ChainInv, NEW n \in Conns, EndOfInput(n)
    PROVE  ChainInv'
<1> DEFINE new == NewConn(Tier(n), "closed", <<>>)
           out == IF n \in Externals THEN conn[n].out ELSE <<>>
           c == [new EXCEPT !.peer = FALSE, !.out = out]
<1>1. conn[n] \in ConnRecord
  BY ConnFacts
<1>2. out \in Seq(AnswerRecord)
  BY <1>1, ConnParts
<1>3. new \in ConnRecord /\ new.pc = "closed" /\ new.in = <<>> /\ new.job = None
  <2>1. "closed" \in Pcs /\ <<>> \in Seq(Piece)
    BY DEF Pcs
  <2>2. \A lines \in Seq(Piece) : NewConn(Tier(n), "closed", lines) \in ConnRecord
    BY <2>1, NewConnFacts
  <2>3. new.pc = "closed" /\ new.in = <<>> /\ new.job = None
    BY DEF NewConn
  <2> QED
    BY <2>1, <2>2, <2>3
<1>4. c.pc = "closed" /\ c.in = <<>> /\ c.out = out /\ c.job = None /\ c \in ConnRecord
  <2> HIDE DEF out, new
  <2> QED
    BY <1>2, <1>3 DEF ConnRecord
<1>6. conn' = [conn EXCEPT ![n] = c] /\ done' = done
  BY DEF EndOfInput, Become
<1>7. \A k \in DOMAIN c.out : k \in DOMAIN conn[n].out /\ c.out[k] = conn[n].out[k]
  BY <1>4
<1> HIDE DEF c, out
<1>8. Sound(n, c)
  <2>1. Sound(n, conn[n])
    BY ConnFacts
  <2> QED
    BY <1>4, <1>7, <2>1, SMTT(30) DEF Sound
<1>9. \A j \in Jobs : ~HoldsIn(n, c, j)
  BY <1>4 DEF HoldsIn
<1>10. \A j \in Jobs, k \in DOMAIN c.out : c.out[k].job = j => TrueClaim(c.out[k].kind, j)
  <2>1. \A j \in Jobs, k \in DOMAIN conn[n].out :
           conn[n].out[k].job = j => TrueClaim(conn[n].out[k].kind, j)
    BY ConnFacts
  <2> QED
    BY <1>7, <2>1
<1> QED
  BY <1>4, <1>6, <1>8, <1>9, <1>10, OneConn, ZenonT(30)

(* A loop that only reads on: it takes a line or drops a piece, and may    *)
(* then work for the line's job, answer that it failed, or read on.        *)
ReadsOn(n, c) ==
    /\ conn[n].pc \in {"reading", "discarding"} /\ conn[n].in # <<>>
    /\ c.in = Tail(conn[n].in)
    /\ \A k \in DOMAIN c.out : c.out[k].job \in Jobs =>
          k \in DOMAIN conn[n].out /\ c.out[k] = conn[n].out[k]
    /\ n \notin Externals => c.out = conn[n].out /\ c.pc \notin {"asking", "answering"}
    /\ \/ c.pc = "working" /\ c.job = Head(conn[n].in).job
       \/ c.pc = "answering" /\ c.reply = "failed"
       \/ c.pc \in {"reading", "discarding", "closed"}

\* Such a loop gets no job it did not have, and claims nothing new.
LEMMA ReadFacts ==
    ASSUME ChainAssumption, ChainInv, NEW n \in Conns, NEW c \in ConnRecord,
           conn[n].pc \in {"reading", "discarding"}, conn[n].in # <<>>,
           c.in = Tail(conn[n].in),
           \A k \in DOMAIN c.out : c.out[k].job \in Jobs =>
               k \in DOMAIN conn[n].out /\ c.out[k] = conn[n].out[k],
           n \notin Externals => c.out = conn[n].out /\ c.pc \notin {"asking", "answering"},
           \/ c.pc = "working" /\ c.job = Head(conn[n].in).job
           \/ c.pc = "answering" /\ c.reply = "failed"
           \/ c.pc \in {"reading", "discarding", "closed"}
    PROVE  /\ Sound(n, c)
           /\ \A j \in Jobs : HoldsIn(n, c, j) => Holds(n, j)
           /\ \A j \in Jobs, k \in DOMAIN c.out : c.out[k].job = j => TrueClaim(c.out[k].kind, j)
           /\ \A j \in Jobs : c.pc = "answering" /\ c.job = j => TrueClaim(c.reply, j)
<1> DEFINE b == conn[n]
<1>1. b \in ConnRecord /\ Sound(n, b) /\ b.in \in Seq(Piece)
  BY ConnFacts, ConnParts
<1>2. /\ Head(b.in) = b.in[1] /\ 1 \in DOMAIN b.in
      /\ \A i \in DOMAIN c.in : i + 1 \in DOMAIN b.in /\ c.in[i] = b.in[i + 1] /\ i \in Nat \ {0}
  BY <1>1, TailFacts
<1>3. c.pc = "working" => c.job = b.in[1].job
  BY <1>2
<1>4. Sound(n, c)
  <2>1. \A i, k \in DOMAIN c.in : c.in[i].job = c.in[k].job /\ c.in[i].job \in Jobs => i = k
    <3> SUFFICES ASSUME NEW i \in DOMAIN c.in, NEW k \in DOMAIN c.in,
                        c.in[i].job = c.in[k].job, c.in[i].job \in Jobs
                 PROVE  i = k
      OBVIOUS
    <3>1. i + 1 = k + 1
      BY <1>1, <1>2, SMTT(30) DEF Sound
    <3> QED
      BY <1>2, <3>1
  <2>2. \A i \in DOMAIN c.in : c.in[i].job \in Adds => Tier(n) = "service"
    BY <1>1, <1>2 DEF Sound
  <2>3. c.pc = "working" /\ c.job \in Jobs =>
          /\ \A i \in DOMAIN c.in : c.in[i].job # c.job
          /\ c.job \in Adds => Tier(n) = "service"
    <3> SUFFICES ASSUME c.pc = "working", c.job \in Jobs
                 PROVE  /\ \A i \in DOMAIN c.in : c.in[i].job # c.job
                        /\ c.job \in Adds => Tier(n) = "service"
      OBVIOUS
    <3>1. \A i \in DOMAIN c.in : c.in[i].job # c.job
      <4> SUFFICES ASSUME NEW i \in DOMAIN c.in, c.in[i].job = c.job PROVE FALSE
        OBVIOUS
      <4>1. i + 1 = 1
        BY <1>1, <1>2, <1>3 DEF Sound
      <4> QED
        BY <1>2, <4>1
    <3> QED
      BY <1>1, <1>2, <1>3, <3>1 DEF Sound
  <2>4. c.pc # "asking" /\ (c.pc = "answering" => c.reply \in Replies)
    BY DEF Replies
  <2>5. n \notin Externals =>
          /\ \A i \in DOMAIN c.in : c.in[i].job = n[2] /\ c.in[i].kind \in {"call", "long"}
          /\ c.pc \in {"working", "asking", "answering"} => c.job = n[2]
          /\ \A k \in DOMAIN c.out : c.out[k].job = n[2]
    BY <1>1, <1>2, <1>3 DEF Sound
  <2> QED
    BY <2>1, <2>2, <2>3, <2>4, <2>5 DEF Sound
<1>5. \A j \in Jobs : HoldsIn(n, c, j) => Holds(n, j)
  <2>1. \A j \in Jobs : (\E i \in DOMAIN b.in : b.in[i].job = j) => Holds(n, j)
    BY DEF Holds, HoldsIn
  <2> QED
    BY <1>2, <1>3, <2>1 DEF HoldsIn
<1>6. \A j \in Jobs, k \in DOMAIN c.out : c.out[k].job = j => TrueClaim(c.out[k].kind, j)
  BY ConnFacts
<1>7. \A j \in Jobs : c.pc = "answering" /\ c.job = j => TrueClaim(c.reply, j)
  BY DEF TrueClaim
<1> QED
  BY <1>4, <1>5, <1>6, <1>7

\* A step that only reads on keeps the invariant.
LEMMA ReadStep ==
    ASSUME ChainAssumption, ChainInv, NEW n \in Conns, NEW c \in ConnRecord, ReadsOn(n, c),
           conn' = [conn EXCEPT ![n] = c], done' = done
    PROVE  ChainInv'
<1>1. /\ Sound(n, c)
      /\ \A j \in Jobs : HoldsIn(n, c, j) => Holds(n, j)
      /\ \A j \in Jobs, k \in DOMAIN c.out : c.out[k].job = j => TrueClaim(c.out[k].kind, j)
      /\ \A j \in Jobs : c.pc = "answering" /\ c.job = j => TrueClaim(c.reply, j)
  BY ReadFacts DEF ReadsOn
<1> QED
  BY <1>1, OneConn

\* A new connection holds no job.
LEMMA OpenStep ==
    ASSUME ChainAssumption, ChainInv, NEW n \in Conns, Open(n)
    PROVE  ChainInv'
<1> DEFINE c == NewConn(Tier(n), "reading", Script(n))
<1>1. n \in Externals /\ conn[n].pc = "none" /\ conn' = [conn EXCEPT ![n] = c] /\ done' = done
  BY DEF Open, Become
<1>2. n[2] \in Peers /\ Script(n) \in Seq(Piece)
  BY <1>1 DEF ChainAssumption, Externals, Script
<1>3. Tier(n) = Scripts[n[2]].tier
  BY <1>2 DEF Conns, Tier, ChainAssumption
<1>4. "reading" \in Pcs
  BY DEF Pcs
<1>5. \A lines \in Seq(Piece) : NewConn(Tier(n), "reading", lines) \in ConnRecord
  BY <1>4, NewConnFacts
<1>6. /\ c \in ConnRecord /\ c.pc = "reading" /\ c.in = Script(n) /\ c.out = <<>>
  BY <1>2, <1>5 DEF NewConn
<1> HIDE DEF c
<1>7. Sound(n, c)
  <2>1. \A i, k \in DOMAIN c.in : c.in[i].job = c.in[k].job /\ c.in[i].job \in Jobs => i = k
    BY <1>2, <1>6 DEF ChainAssumption, Script
  <2>2. \A i \in DOMAIN c.in : c.in[i].job \in Adds => Tier(n) = "service"
    BY <1>2, <1>3, <1>6 DEF ChainAssumption, Script
  <2> QED
    BY <1>1, <1>6, <2>1, <2>2 DEF Sound
<1>8. \A j \in Jobs : HoldsIn(n, c, j) => Holds(n, j)
  BY <1>1, <1>6 DEF Holds, HoldsIn
<1>9. /\ \A j \in Jobs, k \in DOMAIN c.out : c.out[k].job = j => TrueClaim(c.out[k].kind, j)
      /\ c.pc # "answering"
  BY <1>6
<1> QED
  BY <1>1, <1>6, <1>7, <1>8, <1>9, OneConn, ZenonT(60)

\* Hanging up leaves every promise as it was.
LEMMA HangUpStep ==
    ASSUME ChainAssumption, ChainInv, NEW n \in Conns, HangUp(n)
    PROVE  ChainInv'
<1> DEFINE c == [conn[n] EXCEPT !.peer = FALSE]
<1>1. conn' = [conn EXCEPT ![n] = c] /\ done' = done
  BY DEF HangUp, Become
<1>2. conn[n] \in ConnRecord /\ Sound(n, conn[n])
  BY ConnFacts
<1>3. /\ c \in ConnRecord /\ c.pc = conn[n].pc /\ c.in = conn[n].in /\ c.out = conn[n].out
      /\ c.job = conn[n].job /\ c.reply = conn[n].reply
  BY <1>2 DEF ConnRecord
<1> HIDE DEF c
<1>4. Sound(n, c)
  BY <1>2, <1>3 DEF Sound
<1>5. \A j \in Jobs : HoldsIn(n, c, j) => Holds(n, j)
  BY <1>3 DEF Holds, HoldsIn
<1>6. /\ \A j \in Jobs, k \in DOMAIN c.out : c.out[k].job = j => TrueClaim(c.out[k].kind, j)
      /\ \A j \in Jobs : c.pc = "answering" /\ c.job = j => TrueClaim(c.reply, j)
  BY <1>3, ConnFacts
<1> QED
  BY <1>1, <1>3, <1>4, <1>5, <1>6, OneConn, ZenonT(30)

\* A line is read by a connection that has one.
LEMMA ReadsFacts ==
    ASSUME ChainInv, NEW n \in Conns, NEW kinds, Reads(n, kinds)
    PROVE  /\ conn[n].pc = "reading" /\ conn[n].in # <<>> /\ Head(conn[n].in).kind \in kinds
           /\ conn[n] \in ConnRecord /\ Tail(conn[n].in) \in Seq(Piece)
           /\ Head(conn[n].in).id \in Nat \cup {None}
           /\ Head(conn[n].in).job \in Jobs \cup {None}
           /\ n \notin Externals => Head(conn[n].in).kind \in {"call", "long"}
<1>1. conn[n] \in ConnRecord /\ conn[n].in \in Seq(Piece) /\ Sound(n, conn[n])
  BY ConnFacts, ConnParts
<1>2. conn[n].pc = "reading" /\ conn[n].in # <<>> /\ Head(conn[n].in).kind \in kinds
  BY DEF Reads
<1> QED
  BY <1>1, <1>2, TailFacts DEF Sound

\* Reading a request makes a job of it.
LEMMA ReadRequestStep ==
    ASSUME ChainAssumption, ChainInv, NEW n \in Conns, ReadRequest(n)
    PROVE  ChainInv'
<1> DEFINE x == Head(conn[n].in)
           c == [conn[n] EXCEPT !.in = Tail(@), !.pc = "working", !.req = x.id, !.job = x.job]
<1>1. conn' = [conn EXCEPT ![n] = c] /\ done' = done /\ Reads(n, {"call", "hello"})
  BY DEF ReadRequest, Become
<1>2. /\ conn[n].pc = "reading" /\ conn[n].in # <<>> /\ conn[n] \in ConnRecord
      /\ Tail(conn[n].in) \in Seq(Piece) /\ x.id \in Nat \cup {None} /\ x.job \in Jobs \cup {None}
  BY <1>1, ReadsFacts
<1>3. /\ c \in ConnRecord /\ c.pc = "working" /\ c.job = x.job /\ c.in = Tail(conn[n].in)
      /\ c.out = conn[n].out
  <2> HIDE DEF x
  <2> QED
    BY <1>2 DEF ConnRecord, Pcs
<1> HIDE DEF c
<1> QED
  BY <1>1, <1>2, <1>3, ReadStep DEF ReadsOn

\* A line that does not parse is answered without a job.
LEMMA ReadMalformedStep ==
    ASSUME ChainAssumption, ChainInv, NEW n \in Conns, ReadMalformed(n)
    PROVE  ChainInv'
<1> DEFINE req == ReqAfter(n, Head(conn[n].in).kind)
           pc == IF req = Unbound THEN "closed" ELSE "answering"
           c == [conn[n] EXCEPT !.in = Tail(@), !.req = req, !.job = None,
                                !.reply = "failed", !.pc = pc]
<1>1. conn' = [conn EXCEPT ![n] = c] /\ done' = done /\ Reads(n, {"bad", "array", "rest"})
  BY DEF ReadMalformed, Become
<1>2. /\ conn[n].pc = "reading" /\ conn[n].in # <<>> /\ conn[n] \in ConnRecord
      /\ Tail(conn[n].in) \in Seq(Piece) /\ n \in Externals
  <2>1. /\ Head(conn[n].in).kind \in {"bad", "array", "rest"}
        /\ n \notin Externals => Head(conn[n].in).kind \in {"call", "long"}
    BY <1>1, ReadsFacts
  <2>2. /\ conn[n].pc = "reading" /\ conn[n].in # <<>> /\ conn[n] \in ConnRecord
        /\ Tail(conn[n].in) \in Seq(Piece)
    BY <1>1, ReadsFacts
  <2> QED
    BY <2>1, <2>2
<1>3. req \in Nat \cup {None, Unbound} /\ pc \in {"closed", "answering"}
  BY <1>2, ConnParts DEF ReqAfter
<1>4. /\ c \in ConnRecord /\ c.pc = pc /\ c.reply = "failed" /\ c.in = Tail(conn[n].in)
      /\ c.out = conn[n].out
  <2> HIDE DEF req, pc
  <2> QED
    BY <1>2, <1>3 DEF ConnRecord, Pcs, Replies
<1> HIDE DEF c, pc
<1> QED
  BY <1>1, <1>2, <1>3, <1>4, ReadStep DEF ReadsOn

\* A line without an answer makes no job.
LEMMA ReadNoteStep ==
    ASSUME ChainAssumption, ChainInv, NEW n \in Conns, ReadNote(n)
    PROVE  ChainInv'
<1> DEFINE c == [conn[n] EXCEPT !.in = Tail(@)]
<1>1. conn' = [conn EXCEPT ![n] = c] /\ done' = done /\ Reads(n, {"note"})
  BY DEF ReadNote, Become
<1>2. /\ conn[n].pc = "reading" /\ conn[n].in # <<>> /\ conn[n] \in ConnRecord
      /\ Tail(conn[n].in) \in Seq(Piece)
  BY <1>1, ReadsFacts
<1>3. /\ c \in ConnRecord /\ c.pc = "reading" /\ c.in = Tail(conn[n].in) /\ c.out = conn[n].out
  BY <1>2 DEF ConnRecord
<1> HIDE DEF c
<1> QED
  BY <1>1, <1>2, <1>3, ReadStep DEF ReadsOn

\* Discarding the rest of a too long line changes no job.
LEMMA DiscardStep ==
    ASSUME ChainAssumption, ChainInv, NEW n \in Conns, Discard(n)
    PROVE  ChainInv'
<1> DEFINE discarded == IF Head(conn[n].in).kind = "long" THEN conn[n].discarded + 1 ELSE 0
           pc == IF Head(conn[n].in).kind # "long" THEN "reading"
                 ELSE IF conn[n].discarded + 1 >= DiscardLimit THEN "closed" ELSE "discarding"
           c == [conn[n] EXCEPT !.in = Tail(@), !.discarded = discarded, !.pc = pc]
<1>1. /\ conn' = [conn EXCEPT ![n] = c] /\ done' = done
      /\ conn[n].pc = "discarding" /\ conn[n].in # <<>>
  BY DEF Discard, Become
<1>2. conn[n] \in ConnRecord /\ conn[n].in \in Seq(Piece) /\ conn[n].discarded \in Nat
  BY ConnFacts, ConnParts
<1>3. Tail(conn[n].in) \in Seq(Piece)
  BY <1>1, <1>2, TailFacts
<1>4. discarded \in Nat /\ pc \in {"reading", "closed", "discarding"}
  BY <1>2
<1>5. /\ c \in ConnRecord /\ c.pc = pc /\ c.in = Tail(conn[n].in) /\ c.out = conn[n].out
  <2> HIDE DEF discarded, pc
  <2> QED
    BY <1>2, <1>3, <1>4 DEF ConnRecord, Pcs
<1> HIDE DEF c, pc
<1> QED
  BY <1>1, <1>4, <1>5, ReadStep DEF ReadsOn

\* A too long line is answered without a job.
LEMMA ReadTooLongStep ==
    ASSUME ChainAssumption, ChainInv, NEW n \in Conns, ReadTooLong(n)
    PROVE  ChainInv'
<1>1. Reads(n, {"long", "longEnd"}) /\ done' = done
  BY DEF ReadTooLong, Become
<1>2. /\ conn[n].pc = "reading" /\ conn[n].in # <<>> /\ conn[n] \in ConnRecord
      /\ Tail(conn[n].in) \in Seq(Piece)
  BY <1>1, ReadsFacts
<1>3. CASE Tier(n) # "mcp"
  <2> DEFINE c == [conn[n] EXCEPT !.pc = "closed"]
  <2>1. conn' = [conn EXCEPT ![n] = c]
    BY <1>3 DEF ReadTooLong, Become
  <2>2. /\ c \in ConnRecord /\ c.pc = "closed" /\ c.in = conn[n].in /\ c.out = conn[n].out
        /\ c.job = conn[n].job /\ c.reply = conn[n].reply
    BY <1>2 DEF ConnRecord, Pcs
  <2> HIDE DEF c
  <2>3. Sound(n, c)
    BY <2>2, ConnFacts DEF Sound
  <2>4. \A j \in Jobs : ~HoldsIn(n, c, j)
    BY <2>2 DEF HoldsIn
  <2>5. /\ \A j \in Jobs, k \in DOMAIN c.out : c.out[k].job = j => TrueClaim(c.out[k].kind, j)
        /\ c.pc # "answering"
    BY <2>2, ConnFacts
  <2> QED
    BY <1>1, <2>1, <2>2, <2>3, <2>4, <2>5, OneConn, ZenonT(30)
<1>4. CASE Tier(n) = "mcp"
  <2> DEFINE out == Reply(n, None, "failed", None)
             pc == IF Head(conn[n].in).kind = "longEnd" THEN "reading" ELSE "discarding"
             discarded == IF Head(conn[n].in).kind = "longEnd" THEN 0 ELSE 1
             c == [conn[n] EXCEPT !.in = Tail(@), !.out = out, !.pc = pc,
                                  !.discarded = discarded]
  <2>1. conn' = [conn EXCEPT ![n] = c]
    BY <1>4 DEF ReadTooLong, Become
  <2>2. n \in Externals
    BY <1>4, Internal
  <2> DEFINE a == [id |-> None, kind |-> "failed", job |-> None]
  <2>3. a \in AnswerRecord /\ a.job = None /\ conn[n].out \in Seq(AnswerRecord)
    BY <1>2, ConnParts DEF AnswerRecord, Replies
  <2>4. out = Append(conn[n].out, a)
    BY DEF Reply
  <2> HIDE DEF a, out
  <2>5. /\ out \in Seq(AnswerRecord)
        /\ \A k \in DOMAIN out : \/ out[k] = a
                                 \/ k \in DOMAIN conn[n].out /\ out[k] = conn[n].out[k]
    BY <2>3, <2>4
  <2>6. None \notin Jobs
    BY DEF ChainAssumption
  <2>7. /\ c \in ConnRecord /\ c.pc \in {"reading", "discarding"} /\ c.in = Tail(conn[n].in)
        /\ c.out = out
    <3>1. pc \in {"reading", "discarding"} /\ discarded \in Nat
      OBVIOUS
    <3> HIDE DEF pc, discarded
    <3> QED
      BY <1>2, <2>5, <3>1 DEF ConnRecord, Pcs
  <2> HIDE DEF c
  <2>8. \A k \in DOMAIN c.out : c.out[k].job \in Jobs =>
            k \in DOMAIN conn[n].out /\ c.out[k] = conn[n].out[k]
    BY <2>3, <2>5, <2>6, <2>7
  <2> QED
    BY <1>1, <1>2, <2>1, <2>2, <2>7, <2>8, ReadStep DEF ReadsOn
<1> QED
  BY <1>3, <1>4

-----------------------------------------------------------------------------
(* Handling                                                                *)

\* A loop that has its answer: what it says of the job in hand is so from now on.
LEMMA FinishFacts ==
    ASSUME ChainInv, NEW n \in Conns, NEW reply \in Replies
    PROVE  /\ Finish(n, reply) \in ConnRecord
           /\ Finish(n, reply).pc = "answering" /\ Finish(n, reply).reply = reply
           /\ Finish(n, reply).job = conn[n].job /\ Finish(n, reply).in = conn[n].in
           /\ Finish(n, reply).out = conn[n].out
           /\ conn[n].pc \in {"working", "asking"} => Sound(n, Finish(n, reply))
           /\ \A j \in Jobs : HoldsIn(n, Finish(n, reply), j) =>
                 /\ \E i \in DOMAIN conn[n].in : conn[n].in[i].job = j
                 /\ conn[n].pc \notin {"none", "closed"} => Holds(n, j)
<1>1. conn[n] \in ConnRecord /\ Sound(n, conn[n])
  BY ConnFacts
<1> DEFINE c == Finish(n, reply)
<1>2. c = [conn[n] EXCEPT !.pc = "answering", !.reply = reply]
  BY DEF Finish
<1>3. /\ c \in ConnRecord /\ c.pc = "answering" /\ c.reply = reply /\ c.job = conn[n].job
      /\ c.in = conn[n].in /\ c.out = conn[n].out
  BY <1>1, <1>2 DEF ConnRecord, Pcs
<1> HIDE DEF c
<1>4. conn[n].pc \in {"working", "asking"} => Sound(n, c)
  BY <1>1, <1>3 DEF Sound
<1>5. \A j \in Jobs : HoldsIn(n, c, j) =>
          /\ \E i \in DOMAIN conn[n].in : conn[n].in[i].job = j
          /\ conn[n].pc \notin {"none", "closed"} => Holds(n, j)
  BY <1>3 DEF HoldsIn, Holds
<1> QED
  BY <1>3, <1>4, <1>5 DEF c

\* A settled job tells the truth of its outcome.
LEMMA SettleStep ==
    ASSUME ChainAssumption, ChainInv, NEW n \in Conns, NEW reply \in Replies,
           conn[n].pc = "working",
           conn' = [conn EXCEPT ![n] = Finish(n, reply)], done' = done,
           reply = "ok" => conn[n].job = None
    PROVE  ChainInv'
<1> DEFINE c == Finish(n, reply)
<1>1. /\ c \in ConnRecord /\ c.pc = "answering" /\ c.reply = reply /\ c.job = conn[n].job
      /\ c.in = conn[n].in /\ c.out = conn[n].out /\ Sound(n, c)
  BY FinishFacts
<1>2. \A j \in Jobs : HoldsIn(n, c, j) => Holds(n, j) /\ \E i \in DOMAIN c.in : c.in[i].job = j
  BY <1>1, FinishFacts
<1>3. conn' = [conn EXCEPT ![n] = c]
  OBVIOUS
<1> HIDE DEF c
<1>4. \A j \in Jobs : c.job = j => TrueClaim(reply, j) \/ NewClaim(reply, j)
  <2> SUFFICES ASSUME NEW j \in Jobs, c.job = j PROVE NewClaim(reply, j)
    OBVIOUS
  <2>1. Holds(n, j) /\ reply # "ok"
    BY <1>1 DEF ChainAssumption, Holds, HoldsIn
  <2>2. done[j] = 0 /\ \A m \in Conns : m # n => ~Holds(m, j)
    BY <2>1 DEF ChainInv
  <2>3. ~HoldsIn(n, c, j)
    <3>1. \A i \in DOMAIN conn[n].in : conn[n].in[i].job # j
      BY <1>1, ConnFacts DEF Sound
    <3> QED
      BY <1>1, <1>2, <3>1
  <2>4. conn'[n] = c /\ \A m \in Conns : m # n => conn'[m] = conn[m]
    BY <1>3 DEF ChainInv, ConnsOK
  <2> QED
    BY <2>1, <2>2, <2>3, <2>4 DEF NewClaim, Holds
<1>5. \A j \in Jobs, k \in DOMAIN c.out : c.out[k].job = j => TrueClaim(c.out[k].kind, j)
  BY <1>1, ConnFacts
<1> QED
  BY <1>1, <1>2, <1>3, <1>4, <1>5, OneConn, ZenonT(60)

\* The answer that is sent is the settled one.
LEMMA AnswerStep ==
    ASSUME ChainAssumption, ChainInv, NEW n \in Conns, Answer(n)
    PROVE  ChainInv'
<1> DEFINE out == Reply(n, conn[n].req, conn[n].reply, conn[n].job)
           c == [conn[n] EXCEPT !.out = out, !.pc = "reading", !.reply = "none", !.job = None]
           a == [id |-> conn[n].req, kind |-> conn[n].reply, job |-> conn[n].job]
<1>1. conn' = [conn EXCEPT ![n] = c] /\ done' = done /\ conn[n].pc = "answering"
  BY DEF Answer, Become
<1>2. conn[n] \in ConnRecord /\ Sound(n, conn[n])
  BY ConnFacts
<1>3. /\ a \in AnswerRecord /\ a.job = conn[n].job /\ a.kind = conn[n].reply
      /\ conn[n].out \in Seq(AnswerRecord)
  <2>1. conn[n].reply \in Replies
    BY <1>1, <1>2 DEF Sound
  <2>2. conn[n].req \in Nat \cup {None, Unbound} /\ conn[n].job \in Jobs \cup {None}
    BY <1>2, ConnParts
  <2> QED
    BY <1>2, <2>1, <2>2, ConnParts DEF AnswerRecord
<1>4. out = Append(conn[n].out, a)
  BY DEF Reply
<1> HIDE DEF a, out
<1>5. /\ out \in Seq(AnswerRecord)
      /\ \A k \in DOMAIN out : \/ out[k] = a
                               \/ k \in DOMAIN conn[n].out /\ out[k] = conn[n].out[k]
  BY <1>3, <1>4
<1>6. /\ c \in ConnRecord /\ c.pc = "reading" /\ c.in = conn[n].in /\ c.out = out
  BY <1>2, <1>5 DEF ConnRecord, Pcs
<1> HIDE DEF c
<1>7. Sound(n, c)
  <2>1. n \notin Externals => \A k \in DOMAIN c.out : c.out[k].job = n[2]
    BY <1>1, <1>2, <1>3, <1>5, <1>6 DEF Sound
  <2> QED
    BY <1>2, <1>6, <2>1 DEF Sound
<1>8. \A j \in Jobs : HoldsIn(n, c, j) => Holds(n, j)
  BY <1>1, <1>6 DEF Holds, HoldsIn
<1>9. \A j \in Jobs, k \in DOMAIN c.out : c.out[k].job = j => TrueClaim(c.out[k].kind, j)
  BY <1>1, <1>3, <1>5, <1>6, ConnFacts
<1> QED
  BY <1>1, <1>6, <1>7, <1>8, <1>9, OneConn, ZenonT(30)

\* Who carries out the job in hand, or answers for a job done: the job was held, and is done once.
LEMMA CarryStep ==
    ASSUME ChainAssumption, ChainInv, NEW n \in Conns, NEW reply \in {"ok", "failed"},
           conn[n].pc = "working", conn[n].job \in Jobs,
           conn' = [conn EXCEPT ![n] = Finish(n, reply)], Carried(conn[n].job)
    PROVE  ChainInv'
<1> DEFINE c == Finish(n, reply)
           job == conn[n].job
<1>0. reply \in Replies
  BY DEF Replies
<1>1. /\ c \in ConnRecord /\ c.pc = "answering" /\ c.reply = reply /\ c.job = job
      /\ c.in = conn[n].in /\ c.out = conn[n].out /\ Sound(n, c)
  BY <1>0, FinishFacts
<1>2. \A j \in Jobs : HoldsIn(n, c, j) => Holds(n, j) /\ \E i \in DOMAIN c.in : c.in[i].job = j
  BY <1>0, <1>1, FinishFacts, SMTT(30)
<1>3. conn'[n] = c /\ \A m \in Conns : m # n => conn'[m] = conn[m]
  BY DEF ChainInv, ConnsOK
<1>4. Holds(n, job) /\ done[job] = 0 /\ \A m \in Conns : Holds(m, job) => m = n
  BY DEF ChainInv, Holds, HoldsIn
<1>5. done \in [Jobs -> {0, 1}] /\ done' = [done EXCEPT ![job] = 1]
  <2>1. done \in [Jobs -> {0, 1}]
    BY DEF ChainInv, ConnsOK
  <2>2. done' = [done EXCEPT ![job] = done[job] + 1]
    BY DEF Carried
  <2> QED
    BY <1>4, <2>1, <2>2
<1>6. ConnsOK'
  BY <1>1, <1>3, <1>5 DEF ConnsOK, ChainInv
<1> HIDE DEF c
<1>7. \A m \in Conns : Sound(m, conn'[m])
  BY <1>1, <1>3 DEF ChainInv
<1>8. \A m \in Conns : ~HoldsIn(m, conn'[m], job)
  <2>1. \A i \in DOMAIN conn[n].in : conn[n].in[i].job # job
    BY ConnFacts DEF Sound
  <2>2. ~HoldsIn(n, c, job)
    BY <1>1, <1>2, <2>1
  <2> QED
    BY <1>3, <1>4, <2>2 DEF Holds
<1> HIDE DEF job
<1>9. \A m \in Conns, j \in Jobs : HoldsIn(m, conn'[m], j) =>
          /\ done'[j] = done[j]
          /\ \E l \in Conns : Holds(l, j)
          /\ \A l \in Conns : HoldsIn(l, conn'[l], j) => l = m
  <2> SUFFICES ASSUME NEW m \in Conns, NEW j \in Jobs, HoldsIn(m, conn'[m], j)
               PROVE  /\ done'[j] = done[j]
                      /\ \E l \in Conns : Holds(l, j)
                      /\ \A l \in Conns : HoldsIn(l, conn'[l], j) => l = m
    OBVIOUS
  <2>1. done'[j] = done[j]
    BY <1>5, <1>8
  <2>2. \A l \in Conns : HoldsIn(l, conn'[l], j) => Holds(l, j)
    BY <1>2, <1>3 DEF Holds
  <2> QED
    BY <2>1, <2>2 DEF ChainInv
<1>10. \A j \in Jobs :
           done'[j] = done[j] \/ (done'[j] = 1 /\ \E m \in Conns : Holds(m, j))
  BY <1>4, <1>5
<1>11. \A m \in Conns, j \in Jobs :
           /\ conn'[m].pc = "answering" /\ conn'[m].job = j =>
                 TrueClaim(conn'[m].reply, j) \/ NewClaim(conn'[m].reply, j)
           /\ \A k \in DOMAIN conn'[m].out : conn'[m].out[k].job = j =>
                 \/ TrueClaim(conn'[m].out[k].kind, j)
                 \/ NewClaim(conn'[m].out[k].kind, j)
  <2> SUFFICES ASSUME NEW m \in Conns, NEW j \in Jobs
               PROVE  /\ conn'[m].pc = "answering" /\ conn'[m].job = j =>
                            TrueClaim(conn'[m].reply, j) \/ NewClaim(conn'[m].reply, j)
                      /\ \A k \in DOMAIN conn'[m].out : conn'[m].out[k].job = j =>
                            \/ TrueClaim(conn'[m].out[k].kind, j)
                            \/ NewClaim(conn'[m].out[k].kind, j)
    OBVIOUS
  <2>1. conn'[m].out = conn[m].out
    BY <1>1, <1>3
  <2>2. m # n => conn'[m] = conn[m]
    BY <1>3
  <2>3. m = n /\ conn'[m].job = j => NewClaim(conn'[m].reply, j)
    <3>1. done'[job] = 1 /\ (m = n => conn'[m].job = job /\ conn'[m].reply = reply)
      BY <1>1, <1>3, <1>5 DEF job
    <3> QED
      BY <3>1 DEF NewClaim
  <2> QED
    BY <2>1, <2>2, <2>3, ConnFacts
<1> QED
  BY <1>6, <1>7, <1>9, <1>10, <1>11, Passing

\* A request below is a connection of its own.
LEMMA ChildFacts ==
    ASSUME ChainAssumption, NEW n \in Conns, NEW job \in Jobs \ Adds, conn[n].job = job,
           Tier(n) \in {"mcp", "service"}
    PROVE  /\ Child(n) \in Conns /\ Child(n) \notin Externals /\ Child(n) # n
           /\ Child(n)[2] = job /\ Tier(Child(n)) \in {"service", "agent"}
<1> DEFINE tier == IF Tier(n) = "mcp" THEN "service" ELSE "agent"
<1>1. Child(n) = <<tier, job>> /\ tier \in {"service", "agent"} /\ tier # Tier(n)
  BY DEF Child
<1> HIDE DEF tier
<1>2. Child(n)[1] = tier /\ Child(n)[2] = job /\ Child(n) \in Conns
  BY <1>1 DEF Conns
<1>3. job \notin Peers
  BY DEF ChainAssumption
<1> QED
  BY <1>1, <1>2, <1>3 DEF Externals, Tier

\* The job goes from the connection that asks to the one made for it.
LEMMA AskStep ==
    ASSUME ChainAssumption, ChainInv, NEW n \in Conns, NEW kind \in {"call", "long"},
           Ask(n, kind)
    PROVE  ChainInv'
<1> DEFINE job == conn[n].job
           c == [conn[n] EXCEPT !.pc = "asking"]
           line == [kind |-> kind, id |-> 1, job |-> job]
           d == NewConn(Tier(Child(n)), "reading", <<line>>)
<1>1. conn[n].pc = "working" /\ job # None /\ Tier(n) \in {"mcp", "service"}
  BY DEF Ask, Passes
<1>2. conn[n] \in ConnRecord /\ Sound(n, conn[n])
  BY ConnFacts
<1>3. job \in Jobs \ Adds
  <2>1. job \in Jobs
    BY <1>1, <1>2, ConnParts
  <2>2. job \in Adds => Tier(n) = "service"
    BY <1>1, <1>2, <2>1 DEF Sound
  <2> QED
    BY <2>1, <2>2 DEF Ask, Passes
<1>4. /\ Child(n) \in Conns /\ Child(n) \notin Externals /\ Child(n) # n /\ Child(n)[2] = job
      /\ Tier(Child(n)) \in {"service", "agent"}
  BY <1>1, <1>3, ChildFacts
<1>5. done' = done /\ conn' = [conn EXCEPT ![n].pc = "asking", ![Child(n)] = d]
  BY DEF Ask
<1>6. line \in Piece /\ line.kind = kind /\ line.job = job
  BY <1>3 DEF Piece, Kinds
<1>7. "reading" \in Pcs /\ <<line>> \in Seq(Piece)
  BY <1>6 DEF Pcs
<1>8. \A lines \in Seq(Piece) : NewConn(Tier(Child(n)), "reading", lines) \in ConnRecord
  BY <1>7, NewConnFacts
<1>9. d \in ConnRecord /\ d.pc = "reading" /\ d.in = <<line>> /\ d.out = <<>>
  BY <1>7, <1>8 DEF NewConn
<1>10. /\ c \in ConnRecord /\ c.pc = "asking" /\ c.in = conn[n].in /\ c.out = conn[n].out
       /\ c.job = job
  BY <1>2 DEF ConnRecord, Pcs
<1>11. conn' = [conn EXCEPT ![n] = c, ![Child(n)] = d]
  BY <1>4, <1>5
<1> HIDE DEF c, d, line
<1>12. /\ conn'[n] = c /\ conn'[Child(n)] = d
       /\ \A m \in Conns : m # n /\ m # Child(n) => conn'[m] = conn[m]
  BY <1>4, <1>11 DEF ChainInv, ConnsOK
<1>13. ConnsOK'
  <2>1. \A m \in Conns : conn'[m] \in ConnRecord
    BY <1>9, <1>10, <1>12 DEF ChainInv, ConnsOK
  <2>2. conn \in [Conns -> ConnRecord] /\ done \in [Jobs -> {0, 1}]
    BY DEF ChainInv, ConnsOK
  <2>3. conn' = [m \in Conns |-> conn'[m]]
    BY <1>11, <2>2
  <2>4. conn' \in [Conns -> ConnRecord]
    BY <2>1, <2>3
  <2> QED
    BY <1>5, <2>2, <2>4 DEF ConnsOK
<1>14. Sound(n, c)
  BY <1>1, <1>2, <1>3, <1>10 DEF Sound
<1>15. \A i \in DOMAIN d.in : i = 1 /\ d.in[i] = line
  BY <1>9
<1>16. Sound(Child(n), d)
  BY <1>3, <1>4, <1>6, <1>9, <1>15 DEF Sound
<1>17. \A m \in Conns : Sound(m, conn'[m])
  BY <1>12, <1>14, <1>16 DEF ChainInv
<1>18. Holds(n, job) /\ \A m \in Conns : Holds(m, job) => m = n
  BY <1>1, <1>3 DEF ChainInv, Holds, HoldsIn
<1>19. \A j \in Jobs : HoldsIn(n, c, j) => Holds(n, j) /\ j # job
  <2>1. \A i \in DOMAIN conn[n].in : conn[n].in[i].job # job
    BY <1>1, <1>2, <1>3 DEF Sound
  <2> QED
    BY <1>1, <1>10, <2>1 DEF Holds, HoldsIn
<1>20. \A j \in Jobs : HoldsIn(Child(n), d, j) => j = job
  BY <1>6, <1>9, <1>15 DEF HoldsIn
<1> HIDE DEF job
<1>21. \A m \in Conns, j \in Jobs : HoldsIn(m, conn'[m], j) =>
          /\ done'[j] = done[j]
          /\ \E l \in Conns : Holds(l, j)
          /\ \A l \in Conns : HoldsIn(l, conn'[l], j) => l = m
  <2>1. \A m \in Conns, j \in Jobs : HoldsIn(m, conn'[m], j) =>
            IF m = Child(n) THEN j = job ELSE Holds(m, j) /\ j # job
    <3> SUFFICES ASSUME NEW m \in Conns, NEW j \in Jobs, HoldsIn(m, conn'[m], j)
                 PROVE  IF m = Child(n) THEN j = job ELSE Holds(m, j) /\ j # job
      OBVIOUS
    <3>1. CASE m = Child(n)
      BY <3>1, <1>12, <1>20
    <3>2. CASE m = n
      BY <3>2, <1>4, <1>12, <1>19
    <3>3. CASE m # n /\ m # Child(n)
      <4>1. Holds(m, j)
        BY <3>3, <1>12 DEF Holds
      <4> QED
        BY <3>3, <4>1, <1>18
    <3> QED
      BY <3>1, <3>2, <3>3
  <2> SUFFICES ASSUME NEW m \in Conns, NEW j \in Jobs, HoldsIn(m, conn'[m], j)
               PROVE  /\ \E l \in Conns : Holds(l, j)
                      /\ \A l \in Conns : HoldsIn(l, conn'[l], j) => l = m
    BY <1>5
  <2>2. \E l \in Conns : Holds(l, j)
    BY <2>1, <1>18
  <2>3. \A l, k \in Conns : Holds(l, j) /\ Holds(k, j) => l = k
    BY DEF ChainInv
  <2>4. ASSUME NEW l \in Conns, HoldsIn(l, conn'[l], j) PROVE l = m
    <3>1. CASE j = job
      BY <2>1, <2>4, <3>1
    <3>2. CASE j # job
      BY <2>1, <2>3, <2>4, <3>2
    <3> QED
      BY <3>1, <3>2
  <2> QED
    BY <2>2, <2>4
<1>22. \A j \in Jobs : done'[j] = done[j]
  BY <1>5
<1>23. \A m \in Conns, j \in Jobs :
           /\ conn'[m].pc = "answering" /\ conn'[m].job = j => TrueClaim(conn'[m].reply, j)
           /\ \A k \in DOMAIN conn'[m].out : conn'[m].out[k].job = j =>
                 TrueClaim(conn'[m].out[k].kind, j)
  <2> SUFFICES ASSUME NEW m \in Conns, NEW j \in Jobs
               PROVE  /\ conn'[m].pc = "answering" /\ conn'[m].job = j =>
                            TrueClaim(conn'[m].reply, j)
                      /\ \A k \in DOMAIN conn'[m].out : conn'[m].out[k].job = j =>
                            TrueClaim(conn'[m].out[k].kind, j)
    OBVIOUS
  <2>1. CASE m = Child(n)
    BY <2>1, <1>9, <1>12
  <2>2. CASE m = n
    BY <2>2, <1>10, <1>12, ConnFacts
  <2>3. CASE m # n /\ m # Child(n)
    BY <2>3, <1>12, ConnFacts
  <2> QED
    BY <2>1, <2>2, <2>3
<1> QED
  BY <1>13, <1>17, <1>21, <1>22, <1>23, Passing

\* A request that is over: what its loop makes of it is what the answer said.
LEMMA ReturnStep ==
    ASSUME ChainAssumption, ChainInv, NEW n \in Conns, NEW reply \in Replies,
           conn[n].pc = "asking", Return(n, reply), reply # "offline",
           reply \in {"ok", "refused"} =>
               conn[Child(n)].out # <<>> /\ Head(conn[Child(n)].out).kind = reply
    PROVE  ChainInv'
<1> DEFINE job == conn[n].job
           b == conn[Child(n)]
           c == Finish(n, reply)
           d == [b EXCEPT !.peer = FALSE]
<1>1. conn[n] \in ConnRecord /\ Sound(n, conn[n])
  BY ConnFacts
<1>2. Tier(n) \in {"mcp", "service"} /\ job \in Jobs \ Adds
  BY <1>1 DEF Sound
<1>3. Child(n) \in Conns /\ Child(n) \notin Externals /\ Child(n) # n /\ Child(n)[2] = job
  BY <1>2, ChildFacts
<1>4. done' = done /\ conn' = [conn EXCEPT ![n] = c, ![Child(n)] = d]
  BY <1>3 DEF Return
<1>5. b \in ConnRecord /\ Sound(Child(n), b)
  BY <1>3, ConnFacts
<1>6. /\ d \in ConnRecord /\ d.pc = b.pc /\ d.in = b.in /\ d.out = b.out /\ d.job = b.job
      /\ d.reply = b.reply
  BY <1>5 DEF ConnRecord
<1>7. /\ c \in ConnRecord /\ c.pc = "answering" /\ c.reply = reply /\ c.job = job
      /\ c.out = conn[n].out /\ Sound(n, c)
  BY FinishFacts
<1>8. \A j \in Jobs : HoldsIn(n, c, j) => Holds(n, j)
  BY FinishFacts
<1> HIDE DEF c, d
<1>9. /\ conn'[n] = c /\ conn'[Child(n)] = d
      /\ \A m \in Conns : m # n /\ m # Child(n) => conn'[m] = conn[m]
  BY <1>3, <1>4 DEF ChainInv, ConnsOK
<1>10. ConnsOK'
  <2>1. \A m \in Conns : conn'[m] \in ConnRecord
    BY <1>6, <1>7, <1>9 DEF ChainInv, ConnsOK
  <2> QED
    BY <1>4, <2>1 DEF ChainInv, ConnsOK
<1>11. Sound(Child(n), d)
  BY <1>5, <1>6 DEF Sound
<1>12. \A m \in Conns : Sound(m, conn'[m])
  BY <1>7, <1>9, <1>11 DEF ChainInv
<1>13. \A j \in Jobs : HoldsIn(Child(n), d, j) => Holds(Child(n), j)
  BY <1>6 DEF Holds, HoldsIn
<1>14. \A m \in Conns, j \in Jobs : HoldsIn(m, conn'[m], j) => Holds(m, j)
  BY <1>8, <1>9, <1>13 DEF Holds
<1>15. \A j \in Jobs : c.job = j => TrueClaim(c.reply, j)
  <2> SUFFICES TrueClaim(reply, job)
    BY <1>7
  <2>1. CASE reply \notin {"ok", "refused"}
    BY <2>1 DEF TrueClaim
  <2>2. CASE reply \in {"ok", "refused"}
    <3>1. b.out \in Seq(AnswerRecord) /\ b.out # <<>>
      BY <1>5, <2>2, ConnParts
    <3>2. 1 \in DOMAIN b.out /\ b.out[1].kind = reply
      BY <3>1, <2>2
    <3>3. b.out[1].job = job
      BY <1>3, <1>5, <3>2 DEF Sound
    <3> QED
      BY <1>2, <1>3, <3>2, <3>3, ConnFacts
  <2> QED
    BY <2>1, <2>2
<1>16. \A m \in Conns, j \in Jobs :
           /\ conn'[m].pc = "answering" /\ conn'[m].job = j => TrueClaim(conn'[m].reply, j)
           /\ \A k \in DOMAIN conn'[m].out : conn'[m].out[k].job = j =>
                 TrueClaim(conn'[m].out[k].kind, j)
  <2> SUFFICES ASSUME NEW m \in Conns, NEW j \in Jobs
               PROVE  /\ conn'[m].pc = "answering" /\ conn'[m].job = j =>
                            TrueClaim(conn'[m].reply, j)
                      /\ \A k \in DOMAIN conn'[m].out : conn'[m].out[k].job = j =>
                            TrueClaim(conn'[m].out[k].kind, j)
    OBVIOUS
  <2>1. CASE m = Child(n)
    BY <2>1, <1>3, <1>6, <1>9, ConnFacts
  <2>2. CASE m = n
    BY <2>2, <1>7, <1>9, <1>15, ConnFacts
  <2>3. CASE m # n /\ m # Child(n)
    BY <2>3, <1>9, ConnFacts
  <2> QED
    BY <2>1, <2>2, <2>3
<1> QED
  BY <1>4, <1>10, <1>12, <1>14, <1>16, Quiet

\* The end of a request keeps the invariant, whichever way it ends.
LEMMA RequestEndsStep ==
    ASSUME ChainAssumption, ChainInv, NEW n \in Conns,
           TakeAnswer(n) \/ Broke(n) \/ TimeOut(n)
    PROVE  ChainInv'
<1>1. conn[n].pc = "asking" /\ "failed" \in Replies /\ "timeout" \in Replies
  BY DEF TakeAnswer, Broke, TimeOut, Replies
<1>2. CASE Return(n, "failed")
  BY <1>1, <1>2, ReturnStep
<1>3. CASE Return(n, "timeout")
  BY <1>1, <1>3, ReturnStep
<1>4. CASE /\ conn[Child(n)].out # <<>>
           /\ Return(n, Received(Head(conn[Child(n)].out).kind))
  <2> DEFINE kind == Head(conn[Child(n)].out).kind
  <2>1. Received(kind) \in Replies /\ Received(kind) # "offline"
    BY DEF Received, Replies
  <2>2. Received(kind) \in {"ok", "refused"} => Received(kind) = kind
    BY DEF Received
  <2> QED
    BY <1>1, <1>4, <2>1, <2>2, ReturnStep
<1> QED
  BY <1>2, <1>3, <1>4 DEF TakeAnswer, Broke, TimeOut

\* A crash ends connections, or leaves them without a peer.
LEMMA CrashStep ==
    ASSUME ChainAssumption, ChainInv, NEW tier \in {"service", "agent"}, Crash(tier)
    PROVE  ChainInv'
<1>1. done' = done /\ DOMAIN conn' = Conns /\ conn' = [m \in Conns |-> conn'[m]]
  BY DEF Crash
<1>2. \A m \in Conns :
          \/ conn[m].pc # "none" /\ conn'[m] = [conn[m] EXCEPT !.pc = "closed"]
          \/ conn'[m] = [conn[m] EXCEPT !.peer = FALSE]
          \/ conn'[m] = conn[m]
  BY DEF Crash
<1>3. ASSUME NEW m \in Conns
      PROVE  /\ conn'[m] \in ConnRecord
             /\ conn'[m].pc \in {conn[m].pc, "closed"} /\ conn'[m].in = conn[m].in
             /\ conn'[m].out = conn[m].out /\ conn'[m].job = conn[m].job
             /\ conn'[m].reply = conn[m].reply
  <2>1. conn[m] \in ConnRecord
    BY ConnFacts
  <2>2. CASE conn'[m] = [conn[m] EXCEPT !.pc = "closed"]
    <3>1. "closed" \in Pcs
      BY DEF Pcs
    <3>2. [conn[m] EXCEPT !.pc = "closed"] \in ConnRecord
      BY <2>1, <3>1 DEF ConnRecord
    <3> QED
      BY <2>1, <2>2, <3>2 DEF ConnRecord
  <2>3. CASE conn'[m] = [conn[m] EXCEPT !.peer = FALSE]
    BY <2>1, <2>3 DEF ConnRecord
  <2> QED
    BY <1>2, <2>1, <2>2, <2>3
<1>4. ConnsOK'
  BY <1>1, <1>3 DEF ChainInv, ConnsOK
<1>5. \A m \in Conns : Sound(m, conn'[m])
  <2> SUFFICES ASSUME NEW m \in Conns PROVE Sound(m, conn'[m])
    OBVIOUS
  <2>1. Sound(m, conn[m])
    BY ConnFacts
  <2> QED
    BY <1>3, <2>1 DEF Sound
<1>6. \A m \in Conns, j \in Jobs : HoldsIn(m, conn'[m], j) => Holds(m, j)
  BY <1>3 DEF Holds, HoldsIn
<1>7. \A m \in Conns, j \in Jobs :
          /\ conn'[m].pc = "answering" /\ conn'[m].job = j => TrueClaim(conn'[m].reply, j)
          /\ \A k \in DOMAIN conn'[m].out : conn'[m].out[k].job = j =>
                TrueClaim(conn'[m].out[k].kind, j)
  BY <1>3, ConnFacts
<1> QED
  BY <1>1, <1>4, <1>5, <1>6, <1>7, Quiet

\* Nothing happens to the connections and the jobs.
LEMMA StillStep ==
    ASSUME ChainInv, conn' = conn, done' = done
    PROVE  ChainInv'
  BY DEF ChainInv, ConnsOK, Sound, TrueClaims, TrueClaim, Holds, HoldsIn

\* Every step keeps the invariant.
LEMMA ChainStep ==
    ASSUME ChainAssumption, ChainInv, [Next]_vars
    PROVE  ChainInv'
<1>1. ASSUME NEW n \in Conns, Step(n)
      PROVE  ChainInv'
  <2>1. CASE AnswerHello(n)
    BY <2>1, SettleStep DEF AnswerHello, Become, Replies
  <2>2. CASE Reject(n)
    BY <2>2, SettleStep DEF Reject, Become, Replies
  <2>3. CASE Offline(n)
    BY <2>3, SettleStep DEF Offline, Passes, Become, Replies
  <2>4. CASE Refuse(n)
    BY <2>4, SettleStep DEF Refuse, Become, Replies
  <2>5. CASE AddFail(n)
    BY <2>5, SettleStep DEF AddFail, AddsProject, Replies
  <2>6. ASSUME NEW reply \in {"ok", "failed"}, Execute(n, reply) PROVE ChainInv'
    <3>1. conn[n].job \in Jobs
      BY <2>6, ConnFacts, ConnParts DEF Execute
    <3> QED
      BY <2>6, <3>1, CarryStep DEF Execute
  <2>7. CASE AddWrite(n)
    <3>1. conn[n].job \in Jobs
      BY <2>7 DEF AddWrite, AddsProject, ChainAssumption
    <3>2. /\ conn[n].pc = "working" /\ "ok" \in {"ok", "failed"}
          /\ conn' = [conn EXCEPT ![n] = Finish(n, "ok")] /\ Carried(conn[n].job)
      BY <2>7 DEF AddWrite, AddsProject
    <3> QED
      BY <3>1, <3>2, CarryStep
  <2>8. CASE AddLoad(n) \/ AddTruncate(n)
    BY <2>8, StillStep DEF AddLoad, AddTruncate
  <2>9. CASE \E kind \in {"call", "long"} : Ask(n, kind)
    BY <2>9, AskStep
  <2>10. CASE TakeAnswer(n) \/ Broke(n) \/ TimeOut(n)
    BY <2>10, RequestEndsStep
  <2>11. CASE ReadRequest(n) \/ ReadMalformed(n) \/ ReadNote(n)
    BY <2>11, ReadRequestStep, ReadMalformedStep, ReadNoteStep
  <2>12. CASE ReadTooLong(n) \/ Discard(n) \/ EndOfInput(n)
    BY <2>12, ReadTooLongStep, DiscardStep, EndStep
  <2>13. CASE Answer(n)
    BY <2>13, AnswerStep
  <2> QED
    BY <1>1, <2>1, <2>2, <2>3, <2>4, <2>5, <2>6, <2>7, <2>8, <2>9, <2>10, <2>11, <2>12,
       <2>13 DEF Step
<1>2. ASSUME NEW n \in Conns, Open(n) \/ HangUp(n)
      PROVE  ChainInv'
  BY <1>2, OpenStep, HangUpStep
<1>3. ASSUME NEW tier \in {"service", "agent"}, Crash(tier)
      PROVE  ChainInv'
  BY <1>3, CrashStep
<1>4. CASE UNCHANGED vars
  BY <1>4, StillStep DEF vars
<1> QED
  BY <1>1, <1>2, <1>3, <1>4 DEF Next

\* The invariant holds when the chain starts.
LEMMA ChainInit ==
    ASSUME ChainAssumption, Init
    PROVE  ChainInv
<1>1. conn = [n \in Conns |-> NewConn(Tier(n), "none", <<>>)] /\ done = [j \in Jobs |-> 0]
  BY DEF Init
<1>2. "none" \in Pcs /\ <<>> \in Seq(Piece)
  BY DEF Pcs
<1>3. \A n \in Conns, lines \in Seq(Piece) : NewConn(Tier(n), "none", lines) \in ConnRecord
  BY <1>2, NewConnFacts
<1>4. \A n \in Conns : conn[n] \in ConnRecord
  BY <1>1, <1>2, <1>3
<1>5. \A n \in Conns : conn[n].pc = "none" /\ conn[n].in = <<>> /\ conn[n].out = <<>>
  BY <1>1 DEF NewConn
<1>6. ConnsOK
  BY <1>1, <1>4 DEF ConnsOK
<1>7. \A n \in Conns : Sound(n, conn[n]) /\ TrueClaims(conn[n])
  BY <1>5 DEF Sound, TrueClaims
<1>8. ASSUME NEW n \in Conns, NEW j \in Jobs, Holds(n, j), NEW m \in Conns, Holds(m, j)
      PROVE  m = n
  <2>1. /\ n[2] \in Peers /\ \E i \in DOMAIN Script(n) : Script(n)[i].job = j
        /\ m[2] \in Peers /\ \E i \in DOMAIN Script(m) : Script(m)[i].job = j
    BY <1>5, <1>8 DEF Holds, HoldsIn, Externals
  <2>2. m[2] = n[2]
    BY <2>1 DEF ChainAssumption, Script
  <2>3. \A l \in Conns : l[2] \in Peers => l = <<Scripts[l[2]].tier, l[2]>>
    BY DEF Conns, ChainAssumption
  <2> QED
    BY <2>1, <2>2, <2>3
<1> QED
  BY <1>1, <1>6, <1>7, <1>8 DEF ChainInv

-----------------------------------------------------------------------------
(* Theorems                                                                *)

\* In every behaviour a job is held by one connection at most, and answers are so.
THEOREM ChainInvariant == Spec => []ChainInv
<1>1. Init => ChainInv
  BY ChainAssumption, ChainInit
<1>2. ChainInv /\ [Next]_vars => ChainInv'
  BY ChainAssumption, ChainStep
<1> QED
  BY <1>1, <1>2, PTL DEF Spec

(* For any peers and scripts, timeouts, crashes and connections lost: a    *)
(* job is done at most once, and the definite answers that reach a peer    *)
(* are true (protocol.py 15-39, service.py 29-41).                         *)
THEOREM ChainAnswersAreTrue == Spec => []DefiniteAnswers
<1>1. ChainInv => DefiniteAnswers
  <2> SUFFICES ASSUME ChainInv, NEW j \in Jobs
               PROVE  /\ done[j] <= 1
                      /\ \A n \in Externals :
                            \A k \in DOMAIN conn[n].out : conn[n].out[k].job = j =>
                               /\ conn[n].out[k].kind = "ok" => done[j] = 1
                               /\ conn[n].out[k].kind \in {"refused", "offline"} => done[j] = 0
    BY DEF DefiniteAnswers
  <2>1. done[j] \in {0, 1}
    BY DEF ChainInv, ConnsOK
  <2>2. \A n \in Externals : n \in Conns
    BY DEF Externals
  <2> QED
    BY <2>1, <2>2, ConnFacts DEF TrueClaim
<1> QED
  BY <1>1, ChainInvariant, PTL

\* The registry inside the chain is the registry by itself.
LEMMA RegistryInside ==
    ASSUME ChainAssumption
    PROVE  /\ RegistryProofs!RegistryAssumption
           /\ Init => RegistryProofs!Init
           /\ [Next]_vars => [RegistryProofs!Next]_(RegistryProofs!vars)
<1>1. RegistryProofs!RegistryAssumption
  BY DEF ChainAssumption, RegistryProofs!RegistryAssumption
<1>2. Init => RegistryProofs!Init
  BY DEF Init, Registry!Init, RegistryProofs!Init, Registry!NoAdd, RegistryProofs!NoAdd
<1>3. [Next]_vars => [RegistryProofs!Next]_(RegistryProofs!vars)
  <2> SUFFICES ASSUME [Next]_vars PROVE RegistryProofs!Next \/ UNCHANGED registryVars
    BY DEF registryVars, RegistryProofs!vars
  <2>1. ASSUME NEW n \in Conns, Step(n)
        PROVE  RegistryProofs!Next \/ UNCHANGED registryVars
    <3>1. CASE AddLoad(n)
      <4>1. n \in Served("service") /\ conn[n].job \in Adds
        BY <3>1 DEF AddLoad, AddsProject, Served
      <4>2. RegistryProofs!Load(n, conn[n].job)
        BY <3>1 DEF AddLoad, Registry!Load, RegistryProofs!Load, Registry!Adding,
           RegistryProofs!Adding, Registry!Loadable, RegistryProofs!Loadable, Registry!With,
           RegistryProofs!With
      <4> QED
        BY <4>1, <4>2 DEF RegistryProofs!Next
    <3>2. CASE AddTruncate(n) \/ AddWrite(n) \/ AddFail(n)
      <4>1. n \in Served("service")
        BY <3>2 DEF AddTruncate, AddWrite, AddFail, AddsProject, Served
      <4>2. AddTruncate(n) => RegistryProofs!Truncate(n)
        BY DEF AddTruncate, Registry!Truncate, RegistryProofs!Truncate
      <4>3. AddWrite(n) => RegistryProofs!Write(n)
        BY DEF AddWrite, Registry!Write, RegistryProofs!Write, Registry!NoAdd,
           RegistryProofs!NoAdd, Registry!With, RegistryProofs!With, Registry!Overlaid,
           RegistryProofs!Overlaid
      <4>4. AddFail(n) => RegistryProofs!Fail(n)
        BY DEF AddFail, Registry!Fail, RegistryProofs!Fail, Registry!NoAdd,
           RegistryProofs!NoAdd, Registry!Adding, RegistryProofs!Adding
      <4> QED
        BY <3>2, <4>1, <4>2, <4>3, <4>4 DEF RegistryProofs!Next
    <3>3. CASE ~(AddLoad(n) \/ AddTruncate(n) \/ AddWrite(n) \/ AddFail(n))
      BY <2>1, <3>3 DEF Step, ReadRequest, ReadMalformed, ReadNote, ReadTooLong, Discard,
         EndOfInput, AnswerHello, Reject, Offline, Ask, TakeAnswer, Broke, TimeOut, Return,
         Execute, Refuse, Answer, Become
    <3> QED
      BY <3>1, <3>2, <3>3
  <2>2. ASSUME NEW n \in Conns, Open(n) \/ HangUp(n)
        PROVE  UNCHANGED registryVars
    BY <2>2 DEF Open, HangUp, Become
  <2>3. ASSUME NEW tier \in {"service", "agent"}, Crash(tier)
        PROVE  RegistryProofs!Next \/ UNCHANGED registryVars
    BY <2>3 DEF Crash, Registry!Crash, RegistryProofs!Crash, Registry!NoAdd,
       RegistryProofs!NoAdd, RegistryProofs!Next
  <2>4. CASE UNCHANGED vars
    BY <2>4 DEF vars, registryVars
  <2> QED
    BY <2>1, <2>2, <2>3, <2>4 DEF Next
<1> QED
  BY <1>1, <1>2, <1>3

(* In the chain too, undisturbed adds are all in projects.yaml, whatever   *)
(* else is asked of the service meanwhile (config.py 19-35).               *)
THEOREM ChainKeepsTheRegistry == Spec => []RegistryIsKept
<1>1. Init => RegistryProofs!Init
  BY ChainAssumption, RegistryInside
<1>2. [Next]_vars => [RegistryProofs!Next]_(RegistryProofs!vars)
  BY ChainAssumption, RegistryInside
<1>3. Spec => RegistryProofs!Spec
  BY <1>1, <1>2, PTL DEF Spec, RegistryProofs!Spec
<1>4. RegistryProofs!Spec => []RegistryProofs!RegistryIsKept
  BY ChainAssumption, RegistryInside, RegistryProofs!RegistryKeeps
<1>5. RegistryProofs!RegistryIsKept => RegistryIsKept
  BY DEF RegistryIsKept, Registry!RegistryIsKept, RegistryProofs!RegistryIsKept
<1> QED
  BY <1>3, <1>4, <1>5, PTL

\* Every variable has the type its Python counterpart has.
THEOREM ChainTypeOK == Spec => []TypeOK
<1> DEFINE Counted == crashes \in Nat
<1>1. Init => Counted
  BY DEF Init
<1>2. Counted /\ [Next]_vars => Counted'
  <2> SUFFICES ASSUME Counted, [Next]_vars PROVE crashes' = crashes \/ crashes' = crashes + 1
    OBVIOUS
  <2>1. ASSUME NEW n \in Conns, Step(n) \/ Open(n) \/ HangUp(n)
        PROVE  crashes' = crashes
    BY <2>1 DEF Step, ReadRequest, ReadMalformed, ReadNote, ReadTooLong, Discard, EndOfInput,
       AnswerHello, Reject, Offline, Ask, TakeAnswer, Broke, TimeOut, Return, Execute, Refuse,
       Answer, AddLoad, AddTruncate, AddWrite, AddFail, Open, HangUp, Become
  <2>2. ASSUME NEW tier \in {"service", "agent"}, Crash(tier)
        PROVE  crashes' = crashes + 1
    BY <2>2 DEF Crash
  <2> QED
    BY <2>1, <2>2 DEF Next, vars
<1>3. Spec => []Counted
  <2> HIDE DEF Counted
  <2> QED
    BY <1>1, <1>2, PTL DEF Spec
<1>4. Init => RegistryProofs!Init
  BY ChainAssumption, RegistryInside
<1>5. [Next]_vars => [RegistryProofs!Next]_(RegistryProofs!vars)
  BY ChainAssumption, RegistryInside
<1>6. Spec => RegistryProofs!Spec
  BY <1>4, <1>5, PTL DEF Spec, RegistryProofs!Spec
<1>7. RegistryProofs!Spec => []RegistryProofs!RegistryInv
  BY ChainAssumption, RegistryInside, RegistryProofs!RegistryInvariant
<1>8. ChainInv /\ Counted /\ RegistryProofs!RegistryInv => TypeOK
  <2> SUFFICES ASSUME ChainInv, Counted, RegistryProofs!RegistryInv PROVE TypeOK
    OBVIOUS
  <2>1. conn \in [Conns ->
          [in : Seq(Piece), pc : Pcs, req : Nat \cup {None, Unbound}, job : Jobs \cup {None},
           reply : Replies \cup {"none"}, peer : BOOLEAN, discarded : Nat,
           out : Seq([id : Nat \cup {None, Unbound}, kind : Replies,
                      job : Jobs \cup {None}])]]
    BY DEF ChainInv, ConnsOK, ConnRecord, AnswerRecord
  <2>2. done \in [Jobs -> Nat]
    BY DEF ChainInv, ConnsOK
  <2>3. Registry!TypeOK
    BY DEF RegistryProofs!RegistryInv, RegistryProofs!TypeOK, Registry!TypeOK,
       RegistryProofs!Adding, Registry!Adding
  <2> QED
    BY <2>1, <2>2, <2>3 DEF TypeOK
<1> QED
  BY <1>3, <1>6, <1>7, <1>8, ChainInvariant, PTL

-----------------------------------------------------------------------------
(* Answers match lines                                                     *)

\* An answer with this id for this job is one to the line that begins at i.
AnswersLine(n, i, id, job) ==
    /\ i \in Asked(Script(n))
    /\ job = Script(n)[i].job
    /\ id \in IF Script(n)[i].kind \in {"call", "hello"} THEN {Script(n)[i].id}
              ELSE {None} \cup (IF Tier(n) = "agent" THEN {Script(n)[e].id : e \in 1..(i - 1)}
                                ELSE {})

\* The number of answers that the first i pieces of the script want.
Due(n, i) == Cardinality({a \in Asked(Script(n)) : a <= i})

\* The number of pieces that were read.
Pos(n, c) == Len(Script(n)) - Len(c.in)

\* Each answer is to a line of the script, and the k-th to the k-th that wants one.
InOrder(n, out) ==
    \A k \in DOMAIN out :
        \E i \in DOMAIN Script(n) : k = Due(n, i) /\ AnswersLine(n, i, out[k].id, out[k].job)

(* Where the loop is in the script: what it has not read is the rest of    *)
(* the script, in the middle of a too long line exactly when it discards,  *)
(* and the id in req is one it has read.                                   *)
InPlace(n, c) ==
    /\ Pos(n, c) \in 0..Len(Script(n))
    /\ \A i \in DOMAIN c.in : c.in[i] = Script(n)[Pos(n, c) + i]
    /\ c.pc = "discarding" <=> Pos(n, c) > 0 /\ Script(n)[Pos(n, c)].kind = "long"
    /\ c.req \in {None, Unbound} \cup {Script(n)[e].id : e \in 1..Pos(n, c)}

(* Every answer due was given but the one to the line in hand, and that    *)
(* one carries that line's id and job.                                     *)
Tracks(n, c) ==
    /\ InOrder(n, c.out)
    /\ c.pc = "none" => c.out = <<>>
    /\ c.pc \notin {"none", "closed"} => InPlace(n, c)
    /\ c.pc \in {"reading", "discarding"} => Len(c.out) = Due(n, Pos(n, c))
    /\ c.pc \in {"working", "asking", "answering"} =>
          Len(c.out) + 1 = Due(n, Pos(n, c)) /\ AnswersLine(n, Pos(n, c), c.req, c.job)

AllTrack == \A n \in Externals : Tracks(n, conn[n])

\* The script of an external peer.
LEMMA ScriptFacts ==
    ASSUME ChainAssumption, NEW n \in Externals
    PROVE  /\ n \in Conns /\ Script(n) \in Seq(Piece) /\ LinesInPieces(Script(n))
           /\ Len(Script(n)) \in Nat /\ DOMAIN Script(n) = 1..Len(Script(n))
           /\ Asked(Script(n)) \subseteq 1..Len(Script(n))
<1>1. n \in Conns /\ n[2] \in Peers
  BY DEF Externals
<1>2. Script(n) \in Seq(Piece) /\ LinesInPieces(Script(n))
  BY <1>1 DEF ChainAssumption, Script
<1>3. Len(Script(n)) \in Nat /\ DOMAIN Script(n) = 1..Len(Script(n))
  BY <1>2
<1>4. Asked(Script(n)) \subseteq DOMAIN Script(n)
  BY DEF Asked
<1> QED
  BY <1>1, <1>2, <1>3, <1>4

\* One piece more makes one answer more due, if it begins a line that wants one.
LEMMA DueFacts ==
    ASSUME ChainAssumption, NEW n \in Externals
    PROVE  /\ Due(n, 0) = 0
           /\ \A i \in 0..Len(Script(n)) : Due(n, i) \in Nat
           /\ \A i \in 1..Len(Script(n)) :
                 Due(n, i) = IF i \in Asked(Script(n)) THEN Due(n, i - 1) + 1 ELSE Due(n, i - 1)
<1> DEFINE A == Asked(Script(n))
           L == Len(Script(n))
           Upto(i) == {a \in A : a <= i}
<1>1. L \in Nat /\ A \subseteq 1..L
  BY ScriptFacts
<1>2. \A i \in 0..L : Due(n, i) = Cardinality(Upto(i))
  BY DEF Due
<1> HIDE DEF A, L
<1>3. \A i \in 0..L : IsFiniteSet(Upto(i)) /\ Cardinality(Upto(i)) \in Nat
  <2> SUFFICES ASSUME NEW i \in 0..L
               PROVE  IsFiniteSet(Upto(i)) /\ Cardinality(Upto(i)) \in Nat
    OBVIOUS
  <2>1. IsFiniteSet(1..L)
    BY <1>1, FS_Interval
  <2>2. Upto(i) \subseteq 1..L
    BY <1>1
  <2>3. IsFiniteSet(Upto(i))
    BY <2>1, <2>2, FS_Subset
  <2> QED
    BY <2>3, FS_CardinalityType
<1>4. Cardinality(Upto(0)) = 0
  <2>1. \A a \in A : a \in Nat /\ a >= 1
    BY <1>1
  <2>2. \A a \in A : ~(a <= 0)
    BY <2>1
  <2>3. Upto(0) = {}
    BY <2>2
  <2> QED
    BY <2>3, FS_EmptySet
<1>5. ASSUME NEW i \in 1..L
      PROVE  Cardinality(Upto(i)) =
                 IF i \in A THEN Cardinality(Upto(i - 1)) + 1 ELSE Cardinality(Upto(i - 1))
  <2>1. i - 1 \in 0..L
    BY <1>1
  <2>2. IsFiniteSet(Upto(i - 1))
    BY <1>3, <2>1
  <2>5. \A a \in A : a <= i <=> a <= i - 1 \/ a = i
    BY <1>1
  <2>6. ~(i <= i - 1)
    BY <1>1
  <2>3. CASE i \in A
    <3>1. Upto(i) = Upto(i - 1) \cup {i} /\ i \notin Upto(i - 1)
      BY <2>3, <2>5, <2>6
    <3>2. Cardinality(Upto(i - 1) \cup {i}) = Cardinality(Upto(i - 1)) + 1
      BY <2>2, <3>1, FS_AddElement
    <3> QED
      BY <2>3, <3>1, <3>2
  <2>4. CASE i \notin A
    <3>1. Upto(i) = Upto(i - 1)
      BY <2>4, <2>5
    <3> QED
      BY <2>4, <3>1
  <2> QED
    BY <2>3, <2>4
<1>6. 0 \in 0..L /\ \A i \in 1..L : i \in 0..L /\ i - 1 \in 0..L
  BY <1>1
<1>7. Due(n, 0) = 0 /\ \A i \in 0..L : Due(n, i) \in Nat
  <2> HIDE DEF Upto
  <2>1. \A i \in 0..L : Due(n, i) \in Nat
    BY <1>2, <1>3
  <2>2. Due(n, 0) = 0
    BY <1>2, <1>4, <1>6
  <2> QED
    BY <2>1, <2>2
<1>8. ASSUME NEW i \in 1..L
      PROVE  Due(n, i) = IF i \in A THEN Due(n, i - 1) + 1 ELSE Due(n, i - 1)
  <2>1. Due(n, i) = Cardinality(Upto(i)) /\ Due(n, i - 1) = Cardinality(Upto(i - 1))
    BY <1>2, <1>6
  <2> HIDE DEF Upto
  <2> QED
    BY <1>5, <2>1
<1> QED
  BY <1>7, <1>8 DEF L, A

\* What is known of the piece that is read next, and of where the loop is then.
LEMMA Consumed ==
    ASSUME ChainAssumption, ChainInv, NEW n \in Externals, InPlace(n, conn[n]),
           conn[n].in # <<>>
    PROVE  LET p == Pos(n, conn[n]) + 1
               rest == Tail(conn[n].in)
           IN  /\ p \in 1..Len(Script(n)) /\ Len(Script(n)) - Len(rest) = p
               /\ Head(conn[n].in) = Script(n)[p]
               /\ \A i \in DOMAIN rest : rest[i] = Script(n)[p + i]
               /\ \A e \in 1..(p - 1) : e \in 1..p
<1> DEFINE in == conn[n].in
           S == Script(n)
           q == Len(S) - Len(in)
<1>1. in \in Seq(Piece) /\ S \in Seq(Piece)
  BY ScriptFacts, ConnFacts, ConnParts
<1>2. q \in 0..Len(S) /\ \A i \in DOMAIN in : in[i] = S[q + i]
  BY DEF InPlace, Pos
<1> HIDE DEF S
<1>3. in # <<>>
  OBVIOUS
<1> HIDE DEF in
<1>4. /\ Tail(in) \in Seq(Piece) /\ Head(in) = in[1] /\ 1 \in DOMAIN in
      /\ \A i \in DOMAIN Tail(in) :
            i + 1 \in DOMAIN in /\ Tail(in)[i] = in[i + 1] /\ i \in Nat \ {0}
  BY <1>1, <1>3, TailFacts
<1>5. Len(in) \in Nat /\ Len(S) \in Nat /\ Len(in) >= 1 /\ Len(Tail(in)) = Len(in) - 1
  BY <1>1, <1>3
<1>6. q + 1 \in 1..Len(S) /\ Len(S) - Len(Tail(in)) = q + 1
  <2>1. q \in 0..Len(S)
    BY <1>2
  <2> DEFINE a == Len(S)
             b == Len(in)
             d == Len(Tail(in))
  <2>2. a \in Nat /\ b \in Nat /\ b >= 1 /\ d = b - 1 /\ a - b \in 0..a
    BY <1>5, <2>1
  <2>3. (a - b) + 1 \in 1..a /\ a - d = (a - b) + 1
    <3> HIDE DEF a, b, d
    <3> QED
      BY <2>2
  <2> QED
    BY <2>3
<1>7. Head(in) = S[q + 1]
  BY <1>2, <1>4
<1>8. \A i \in DOMAIN Tail(in) : Tail(in)[i] = S[(q + 1) + i]
  <2> SUFFICES ASSUME NEW i \in DOMAIN Tail(in) PROVE Tail(in)[i] = S[(q + 1) + i]
    OBVIOUS
  <2>1. Tail(in)[i] = S[q + (i + 1)]
    BY <1>2, <1>4
  <2>2. q + (i + 1) = (q + 1) + i
    BY <1>2, <1>4, <1>5
  <2> QED
    BY <2>1, <2>2
<1>9. \A e \in 1..((q + 1) - 1) : e \in 1..(q + 1)
  <2>1. q \in Nat
    BY <1>2, <1>5
  <2> HIDE DEF q
  <2> QED
    BY <2>1
<1> QED
  BY <1>6, <1>7, <1>8, <1>9 DEF S, in, Pos

\* A loop that reads a piece is in its place after it too.
LEMMA InPlaceNext ==
    ASSUME ChainAssumption, ChainInv, NEW n \in Externals, InPlace(n, conn[n]),
           conn[n].in # <<>>, NEW c, c.in = Tail(conn[n].in),
           c.pc = "discarding" <=> Head(conn[n].in).kind = "long",
           c.req \in {None, Unbound, Head(conn[n].in).id, conn[n].req}
    PROVE  InPlace(n, c)
<1> DEFINE p == Pos(n, conn[n]) + 1
           S == Script(n)
<1>1. /\ p \in 1..Len(S) /\ Len(S) - Len(c.in) = p /\ Head(conn[n].in) = S[p]
      /\ \A i \in DOMAIN c.in : c.in[i] = S[p + i]
      /\ \A e \in 1..(p - 1) : e \in 1..p
  BY Consumed
<1>2. Pos(n, c) = p
  BY <1>1 DEF Pos
<1>3. conn[n].req \in {None, Unbound} \cup {S[e].id : e \in 1..(p - 1)}
  <2>1. conn[n].req \in {None, Unbound} \cup {S[e].id : e \in 1..Pos(n, conn[n])}
    BY DEF InPlace
  <2>2. Pos(n, conn[n]) \in 0..Len(S)
    BY DEF InPlace
  <2>3. Pos(n, conn[n]) = p - 1
    BY <2>2
  <2> QED
    BY <2>1, <2>3
<1>4. Len(S) \in Nat
  BY ScriptFacts
<1> HIDE DEF p, S
<1>5. p \in 0..Len(S) /\ p > 0 /\ p \in 1..p
  BY <1>1, <1>4
<1>6. c.req \in {None, Unbound} \cup {S[e].id : e \in 1..p}
  BY <1>1, <1>3, <1>5
<1>7. c.pc = "discarding" <=> p > 0 /\ S[p].kind = "long"
  BY <1>1, <1>5
<1> QED
  BY <1>1, <1>2, <1>5, <1>6, <1>7 DEF InPlace, S

\* One answer more, to the next line that wants one.
LEMMA InOrderNext ==
    ASSUME NEW n \in Externals, NEW out \in Seq(AnswerRecord), NEW a \in AnswerRecord,
           InOrder(n, out), NEW i \in DOMAIN Script(n), Len(out) + 1 = Due(n, i),
           AnswersLine(n, i, a.id, a.job)
    PROVE  InOrder(n, Append(out, a))
<1> DEFINE new == Append(out, a)
<1> SUFFICES ASSUME NEW k \in DOMAIN new
             PROVE  \E e \in DOMAIN Script(n) :
                        k = Due(n, e) /\ AnswersLine(n, e, new[k].id, new[k].job)
  BY DEF InOrder
<1>1. CASE k = Len(out) + 1
  <2>1. new[k] = a
    BY <1>1
  <2> QED
    BY <1>1, <2>1
<1>2. CASE k # Len(out) + 1
  <2>1. k \in DOMAIN out /\ new[k] = out[k]
    BY <1>2
  <2> QED
    BY <2>1 DEF InOrder
<1> QED
  BY <1>1, <1>2

\* A loop that reads a piece keeps track of the script.
LEMMA TracksRead ==
    ASSUME ChainAssumption, ChainInv, NEW n \in Externals, Tracks(n, conn[n]),
           conn[n].pc \in {"reading", "discarding"}, conn[n].in # <<>>,
           NEW c \in ConnRecord, c.in = Tail(conn[n].in),
           NEW p, p = Pos(n, conn[n]) + 1,
           c.pc # "closed" =>
               /\ c.pc = "discarding" <=> Head(conn[n].in).kind = "long"
               /\ c.req \in {None, Unbound, Head(conn[n].in).id, conn[n].req},
           \/ c.out = conn[n].out /\ c.pc = "closed"
           \/ /\ c.out = conn[n].out /\ c.pc \in {"working", "answering"}
              /\ AnswersLine(n, p, c.req, c.job)
           \/ /\ c.out = conn[n].out /\ c.pc \in {"reading", "discarding"}
              /\ p \notin Asked(Script(n))
           \/ /\ c.pc \in {"reading", "discarding"}
              /\ \E a \in AnswerRecord :
                    c.out = Append(conn[n].out, a) /\ AnswersLine(n, p, a.id, a.job)
    PROVE  Tracks(n, c)
<1> DEFINE S == Script(n)
           out == conn[n].out
<1>1. InPlace(n, conn[n]) /\ InOrder(n, out) /\ Len(out) = Due(n, Pos(n, conn[n]))
  BY DEF Tracks
<1>2. p \in 1..Len(S) /\ Len(S) - Len(c.in) = p
  BY <1>1, Consumed
<1>3. Pos(n, c) = p /\ Pos(n, conn[n]) = p - 1
  <2>1. Pos(n, conn[n]) \in 0..Len(S) /\ Len(S) \in Nat
    BY <1>1, ScriptFacts DEF InPlace
  <2>2. Pos(n, conn[n]) = p - 1
    BY <2>1
  <2> QED
    BY <1>2, <2>2 DEF Pos
<1>4. Due(n, p) = IF p \in Asked(S) THEN Due(n, p - 1) + 1 ELSE Due(n, p - 1)
  BY <1>2, DueFacts
<1>5. out \in Seq(AnswerRecord) /\ Len(out) \in Nat /\ p \in DOMAIN S
  <2>1. out \in Seq(AnswerRecord)
    BY ScriptFacts, ConnFacts, ConnParts
  <2> QED
    BY <1>2, <2>1, ScriptFacts
<1>6. c.pc # "closed" => InPlace(n, c)
  BY <1>1, InPlaceNext
<1> HIDE DEF S, out
<1>7. CASE c.out = out /\ c.pc = "closed"
  BY <1>1, <1>7 DEF Tracks
<1>8. CASE c.out = out /\ c.pc \in {"working", "answering"} /\ AnswersLine(n, p, c.req, c.job)
  <2>2. p \in Asked(S)
    BY <1>8 DEF AnswersLine, S
  <2>1. Len(c.out) + 1 = Due(n, Pos(n, c))
    BY <1>1, <1>3, <1>4, <1>8, <2>2
  <2> QED
    BY <1>1, <1>3, <1>6, <1>8, <2>1 DEF Tracks
<1>9. CASE c.out = out /\ c.pc \in {"reading", "discarding"} /\ p \notin Asked(S)
  <2>1. Len(c.out) = Due(n, Pos(n, c))
    BY <1>1, <1>3, <1>4, <1>9
  <2> QED
    BY <1>1, <1>6, <1>9, <2>1 DEF Tracks
<1>10. ASSUME c.pc \in {"reading", "discarding"}, NEW a \in AnswerRecord,
              c.out = Append(out, a), AnswersLine(n, p, a.id, a.job)
       PROVE  Tracks(n, c)
  <2>4. p \in Asked(S)
    BY <1>10 DEF AnswersLine, S
  <2>1. Len(out) + 1 = Due(n, p)
    BY <1>1, <1>3, <1>4, <2>4
  <2>2. InOrder(n, c.out)
    BY <1>1, <1>5, <1>10, <2>1, InOrderNext DEF S
  <2>3. Len(c.out) = Due(n, Pos(n, c))
    BY <1>3, <1>5, <1>10, <2>1
  <2> QED
    BY <1>6, <1>10, <2>2, <2>3 DEF Tracks
<1> QED
  BY <1>7, <1>8, <1>9, <1>10 DEF S, out

\* A step of one connection, which keeps track of its script if it has one.
LEMMA TrackOne ==
    ASSUME ChainInv, AllTrack, NEW n \in Conns, NEW c, conn' = [conn EXCEPT ![n] = c],
           n \in Externals => Tracks(n, c)
    PROVE  AllTrack'
<1>1. conn'[n] = c /\ \A m \in Conns : m # n => conn'[m] = conn[m]
  BY DEF ChainInv, ConnsOK
<1>2. \A m \in Externals : m \in Conns
  BY DEF Externals
<1> QED
  BY <1>1, <1>2 DEF AllTrack

\* What is asked for and what is not, of the piece that is read next.
LEMMA NextPiece ==
    ASSUME ChainAssumption, ChainInv, NEW n \in Externals, Tracks(n, conn[n]),
           conn[n].pc \in {"reading", "discarding"}, conn[n].in # <<>>,
           NEW p, p = Pos(n, conn[n]) + 1
    PROVE  LET S == Script(n)
               kind == Head(conn[n].in).kind
           IN  /\ p \in 1..Len(S) /\ Head(conn[n].in) = S[p] /\ kind \in Kinds
               /\ conn[n].req \in {None, Unbound} \cup {S[e].id : e \in 1..(p - 1)}
               /\ kind \notin {"call", "hello"} => S[p].job = None
               /\ conn[n].pc = "discarding" =>
                     kind \in {"long", "longEnd", "rest"} /\ p \notin Asked(S)
               /\ conn[n].pc = "reading" =>
                     kind # "rest" /\ (p \in Asked(S) <=> kind # "note")
<1> DEFINE S == Script(n)
           kind == Head(conn[n].in).kind
<1>1. InPlace(n, conn[n])
  BY DEF Tracks
<1>2. p \in 1..Len(S) /\ Head(conn[n].in) = S[p]
  BY <1>1, Consumed
<1>3. S \in Seq(Piece) /\ LinesInPieces(S) /\ p \in DOMAIN S /\ p \in Nat
  BY <1>2, ScriptFacts
<1>4. Pos(n, conn[n]) = p - 1
  <2>1. Pos(n, conn[n]) \in 0..Len(S) /\ Len(S) \in Nat
    BY <1>1, ScriptFacts DEF InPlace
  <2> QED
    BY <2>1
<1>5. conn[n].pc = "discarding" <=> p > 1 /\ S[p - 1].kind = "long"
  <2>1. conn[n].pc = "discarding" <=> p - 1 > 0 /\ S[p - 1].kind = "long"
    BY <1>1, <1>4 DEF InPlace
  <2> QED
    BY <1>3, <2>1
<1>6. conn[n].req \in {None, Unbound} \cup {S[e].id : e \in 1..(p - 1)}
  BY <1>1, <1>4 DEF InPlace
<1>7. kind = S[p].kind /\ S[p] \in Piece
  BY <1>2, <1>3
<1> HIDE DEF S, kind
<1>8. kind \in Kinds
  BY <1>7 DEF Piece
<1>9. /\ kind \notin {"call", "hello"} => S[p].job = None
      /\ kind = "rest" => p > 1 /\ S[p - 1].kind = "long"
      /\ p > 1 /\ S[p - 1].kind = "long" => kind \in {"long", "longEnd", "rest"}
  BY <1>3, <1>7 DEF LinesInPieces
<1>10. p \in Asked(S) <=>
          \/ kind \in {"call", "hello", "array", "bad"}
          \/ kind \in {"long", "longEnd"} /\ (p > 1 => S[p - 1].kind # "long")
  BY <1>3, <1>7 DEF Asked
<1>11. conn[n].pc = "discarding" => kind \in {"long", "longEnd", "rest"} /\ p \notin Asked(S)
  BY <1>5, <1>9, <1>10
<1>12. conn[n].pc = "reading" => kind # "rest" /\ (p \in Asked(S) <=> kind # "note")
  BY <1>5, <1>8, <1>9, <1>10 DEF Kinds
<1> QED
  BY <1>2, <1>6, <1>8, <1>9, <1>11, <1>12 DEF S, kind

\* A request is read with its id and its job.
LEMMA TrackRequest ==
    ASSUME ChainAssumption, ChainInv, AllTrack, NEW n \in Conns, ReadRequest(n)
    PROVE  AllTrack'
<1> DEFINE x == Head(conn[n].in)
           c == [conn[n] EXCEPT !.in = Tail(@), !.pc = "working", !.req = x.id, !.job = x.job]
           p == Pos(n, conn[n]) + 1
<1>1. conn' = [conn EXCEPT ![n] = c] /\ Reads(n, {"call", "hello"})
  BY DEF ReadRequest, Become
<1>2. /\ conn[n].pc = "reading" /\ conn[n].in # <<>> /\ x.kind \in {"call", "hello"}
      /\ conn[n] \in ConnRecord
      /\ Tail(conn[n].in) \in Seq(Piece) /\ x.id \in Nat \cup {None} /\ x.job \in Jobs \cup {None}
  BY <1>1, ReadsFacts
<1>3. /\ c \in ConnRecord /\ c.pc = "working" /\ c.job = x.job /\ c.req = x.id
      /\ c.in = Tail(conn[n].in) /\ c.out = conn[n].out
  <2> HIDE DEF x
  <2> QED
    BY <1>2 DEF ConnRecord, Pcs
<1> HIDE DEF c, p
<1>4. ASSUME n \in Externals PROVE Tracks(n, c)
  <2>1. Tracks(n, conn[n])
    BY <1>4 DEF AllTrack
  <2>9. p = Pos(n, conn[n]) + 1
    BY DEF p
  <2>2. x = Script(n)[p] /\ p \in Asked(Script(n))
    BY <1>2, <1>4, <2>1, <2>9, NextPiece
  <2>3. AnswersLine(n, p, c.req, c.job)
    BY <1>2, <1>3, <2>2 DEF AnswersLine
  <2>8. c.pc # "closed" =>
            /\ c.pc = "discarding" <=> Head(conn[n].in).kind = "long"
            /\ c.req \in {None, Unbound, Head(conn[n].in).id, conn[n].req}
    BY <1>2, <1>3, <1>4, <2>1, <2>3
  <2> QED
    BY <1>2, <1>3, <1>4, <2>1, <2>3, <2>8, <2>9, TracksRead
<1> QED
  BY <1>1, <1>4, TrackOne

\* An answer to a malformed line has no id, but for the agent's, which may be an earlier one.
LEMMA TrackMalformed ==
    ASSUME ChainAssumption, ChainInv, AllTrack, NEW n \in Conns, ReadMalformed(n)
    PROVE  AllTrack'
<1> DEFINE x == Head(conn[n].in)
           req == ReqAfter(n, x.kind)
           pc == IF req = Unbound THEN "closed" ELSE "answering"
           c == [conn[n] EXCEPT !.in = Tail(@), !.req = req, !.job = None,
                                !.reply = "failed", !.pc = pc]
           p == Pos(n, conn[n]) + 1
<1>1. conn' = [conn EXCEPT ![n] = c] /\ Reads(n, {"bad", "array", "rest"})
  BY DEF ReadMalformed, Become
<1>2. /\ conn[n].pc = "reading" /\ conn[n].in # <<>> /\ x.kind \in {"bad", "array", "rest"}
      /\ conn[n] \in ConnRecord /\ Tail(conn[n].in) \in Seq(Piece)
  BY <1>1, ReadsFacts
<1>3. /\ req \in Nat \cup {None, Unbound} /\ pc \in {"closed", "answering"}
      /\ req = None \/ (Tier(n) = "agent" /\ req = conn[n].req)
      /\ pc = "answering" => req # Unbound
  BY <1>2, ConnParts DEF ReqAfter
<1>4. /\ c \in ConnRecord /\ c.pc = pc /\ c.job = None /\ c.req = req
      /\ c.in = Tail(conn[n].in) /\ c.out = conn[n].out
  <2> HIDE DEF req, pc
  <2> QED
    BY <1>2, <1>3 DEF ConnRecord, Pcs, Replies
<1> HIDE DEF c, p, pc, req
<1>5. ASSUME n \in Externals PROVE Tracks(n, c)
  <2>1. Tracks(n, conn[n])
    BY <1>5 DEF AllTrack
  <2>9. p = Pos(n, conn[n]) + 1
    BY DEF p
  <2>2. /\ x = Script(n)[p] /\ p \in Asked(Script(n)) /\ Script(n)[p].job = None
        /\ conn[n].req \in {None, Unbound} \cup {Script(n)[e].id : e \in 1..(p - 1)}
    BY <1>2, <1>5, <2>1, <2>9, NextPiece
  <2>3. pc = "answering" => AnswersLine(n, p, c.req, c.job)
    BY <1>2, <1>3, <1>4, <2>2 DEF AnswersLine
  <2>8. c.pc # "closed" =>
            /\ c.pc = "discarding" <=> Head(conn[n].in).kind = "long"
            /\ c.req \in {None, Unbound, Head(conn[n].in).id, conn[n].req}
    BY <1>2, <1>3, <1>4, <1>5, <2>1, <2>3
  <2> QED
    BY <1>2, <1>3, <1>4, <1>5, <2>1, <2>3, <2>8, <2>9, TracksRead
<1> QED
  BY <1>1, <1>5, TrackOne

\* A line that wants no answer gets none.
LEMMA TrackNote ==
    ASSUME ChainAssumption, ChainInv, AllTrack, NEW n \in Conns, ReadNote(n)
    PROVE  AllTrack'
<1> DEFINE c == [conn[n] EXCEPT !.in = Tail(@)]
           p == Pos(n, conn[n]) + 1
<1>1. conn' = [conn EXCEPT ![n] = c] /\ Reads(n, {"note"})
  BY DEF ReadNote, Become
<1>2. /\ conn[n].pc = "reading" /\ conn[n].in # <<>> /\ Head(conn[n].in).kind = "note"
      /\ conn[n] \in ConnRecord /\ Tail(conn[n].in) \in Seq(Piece)
  BY <1>1, ReadsFacts
<1>3. /\ c \in ConnRecord /\ c.pc = "reading" /\ c.in = Tail(conn[n].in) /\ c.out = conn[n].out
      /\ c.req = conn[n].req
  BY <1>2 DEF ConnRecord
<1> HIDE DEF c, p
<1>4. ASSUME n \in Externals PROVE Tracks(n, c)
  <2>1. Tracks(n, conn[n])
    BY <1>4 DEF AllTrack
  <2>9. p = Pos(n, conn[n]) + 1
    BY DEF p
  <2>2. p \notin Asked(Script(n))
    BY <1>2, <1>4, <2>1, <2>9, NextPiece
  <2>8. c.pc # "closed" =>
            /\ c.pc = "discarding" <=> Head(conn[n].in).kind = "long"
            /\ c.req \in {None, Unbound, Head(conn[n].in).id, conn[n].req}
    BY <1>2, <1>3, <1>4, <2>1, <2>2
  <2> QED
    BY <1>2, <1>3, <1>4, <2>1, <2>2, <2>8, <2>9, TracksRead
<1> QED
  BY <1>1, <1>4, TrackOne

\* What is discarded is the rest of a line that was answered already.
LEMMA TrackDiscard ==
    ASSUME ChainAssumption, ChainInv, AllTrack, NEW n \in Conns, Discard(n)
    PROVE  AllTrack'
<1> DEFINE x == Head(conn[n].in)
           discarded == IF x.kind = "long" THEN conn[n].discarded + 1 ELSE 0
           pc == IF x.kind # "long" THEN "reading"
                 ELSE IF conn[n].discarded + 1 >= DiscardLimit THEN "closed" ELSE "discarding"
           c == [conn[n] EXCEPT !.in = Tail(@), !.discarded = discarded, !.pc = pc]
           p == Pos(n, conn[n]) + 1
<1>1. /\ conn' = [conn EXCEPT ![n] = c] /\ conn[n].pc = "discarding" /\ conn[n].in # <<>>
  BY DEF Discard, Become
<1>2. conn[n] \in ConnRecord /\ conn[n].in \in Seq(Piece) /\ conn[n].discarded \in Nat
  BY ConnFacts, ConnParts
<1>3. Tail(conn[n].in) \in Seq(Piece)
  BY <1>1, <1>2, TailFacts
<1>4. /\ discarded \in Nat /\ pc \in {"reading", "closed", "discarding"}
      /\ pc # "closed" => (pc = "discarding" <=> x.kind = "long")
  BY <1>2
<1>5. /\ c \in ConnRecord /\ c.pc = pc /\ c.in = Tail(conn[n].in) /\ c.out = conn[n].out
      /\ c.req = conn[n].req
  <2> HIDE DEF discarded, pc
  <2> QED
    BY <1>2, <1>3, <1>4 DEF ConnRecord, Pcs
<1> HIDE DEF c, p, pc
<1>6. ASSUME n \in Externals PROVE Tracks(n, c)
  <2>1. Tracks(n, conn[n])
    BY <1>6 DEF AllTrack
  <2>9. p = Pos(n, conn[n]) + 1
    BY DEF p
  <2>2. p \notin Asked(Script(n))
    BY <1>1, <1>6, <2>1, <2>9, NextPiece
  <2>8. c.pc # "closed" =>
            /\ c.pc = "discarding" <=> Head(conn[n].in).kind = "long"
            /\ c.req \in {None, Unbound, Head(conn[n].in).id, conn[n].req}
    BY <1>1, <1>4, <1>5, <1>6, <2>1, <2>2
  <2> QED
    BY <1>1, <1>4, <1>5, <1>6, <2>1, <2>2, <2>8, <2>9, TracksRead
<1> QED
  BY <1>1, <1>6, TrackOne

\* A too long line is answered when its first piece was read.
LEMMA TrackTooLong ==
    ASSUME ChainAssumption, ChainInv, AllTrack, NEW n \in Conns, ReadTooLong(n),
           Tier(n) = "mcp"
    PROVE  AllTrack'
<1> DEFINE x == Head(conn[n].in)
           out == Reply(n, None, "failed", None)
           pc == IF x.kind = "longEnd" THEN "reading" ELSE "discarding"
           discarded == IF x.kind = "longEnd" THEN 0 ELSE 1
           c == [conn[n] EXCEPT !.in = Tail(@), !.out = out, !.pc = pc, !.discarded = discarded]
           p == Pos(n, conn[n]) + 1
           a == [id |-> None, kind |-> "failed", job |-> None]
<1>1. conn' = [conn EXCEPT ![n] = c] /\ Reads(n, {"long", "longEnd"})
  BY DEF ReadTooLong, Become
<1>2. /\ conn[n].pc = "reading" /\ conn[n].in # <<>> /\ x.kind \in {"long", "longEnd"}
      /\ conn[n] \in ConnRecord /\ Tail(conn[n].in) \in Seq(Piece)
  BY <1>1, ReadsFacts
<1>3. /\ a \in AnswerRecord /\ a.job = None /\ a.id = None /\ out = Append(conn[n].out, a)
      /\ conn[n].out \in Seq(AnswerRecord)
  BY <1>2, ConnParts DEF AnswerRecord, Replies, Reply
<1>4. /\ discarded \in Nat /\ pc \in {"reading", "discarding"}
      /\ pc = "discarding" <=> x.kind = "long"
  BY <1>2
<1> HIDE DEF a, out
<1>5. out \in Seq(AnswerRecord)
  BY <1>3
<1>6. /\ c \in ConnRecord /\ c.pc = pc /\ c.in = Tail(conn[n].in) /\ c.out = out
      /\ c.req = conn[n].req
  <2> HIDE DEF discarded, pc
  <2> QED
    BY <1>2, <1>4, <1>5 DEF ConnRecord, Pcs
<1> HIDE DEF c, p, pc
<1>7. ASSUME n \in Externals PROVE Tracks(n, c)
  <2>1. Tracks(n, conn[n])
    BY <1>7 DEF AllTrack
  <2>9. p = Pos(n, conn[n]) + 1
    BY DEF p
  <2>2. x = Script(n)[p] /\ p \in Asked(Script(n)) /\ Script(n)[p].job = None
    BY <1>2, <1>7, <2>1, <2>9, NextPiece
  <2>3. AnswersLine(n, p, a.id, a.job)
    BY <1>2, <1>3, <2>2 DEF AnswersLine
  <2>8. c.pc # "closed" =>
            /\ c.pc = "discarding" <=> Head(conn[n].in).kind = "long"
            /\ c.req \in {None, Unbound, Head(conn[n].in).id, conn[n].req}
    BY <1>2, <1>3, <1>4, <1>6, <1>7, <2>1, <2>3
  <2>10. /\ c.pc \in {"reading", "discarding"}
         /\ \E d \in AnswerRecord :
               c.out = Append(conn[n].out, d) /\ AnswersLine(n, p, d.id, d.job)
    BY <1>3, <1>4, <1>6, <2>3
  <2>11. c \in ConnRecord /\ c.in = Tail(conn[n].in)
    BY <1>6
  <2> QED
    BY <1>2, <1>7, <2>1, <2>8, <2>9, <2>10, <2>11, TracksRead
<1> QED
  BY <1>1, <1>7, TrackOne

\* In the state c a loop is no further in its script than in the state b, or it has ended.
SameLine(b, c) ==
    /\ c.out = b.out
    /\ \/ c.pc = "closed"
       \/ /\ c.in = b.in /\ c.req = b.req /\ c.job = b.job
          /\ c.pc = b.pc \/ {b.pc, c.pc} \subseteq {"working", "asking", "answering"}

\* Such a loop keeps track of its script.
LEMMA TracksSameLine ==
    ASSUME NEW n, NEW b, NEW c, Tracks(n, b), SameLine(b, c), c.pc = "none" => b.pc = "none"
    PROVE  Tracks(n, c)
<1>1. CASE c.pc = "closed"
  BY <1>1 DEF Tracks, SameLine
<1>2. CASE /\ c.in = b.in /\ c.req = b.req /\ c.job = b.job
           /\ c.pc = b.pc \/ {b.pc, c.pc} \subseteq {"working", "asking", "answering"}
  <2>1. Pos(n, c) = Pos(n, b) /\ c.out = b.out
    BY <1>2 DEF Pos, SameLine
  <2>2. c.pc \notin {"none", "closed"} => InPlace(n, c)
    BY <1>2, <2>1 DEF Tracks, InPlace
  <2> QED
    BY <1>2, <2>1, <2>2 DEF Tracks
<1> QED
  BY <1>1, <1>2 DEF SameLine

\* So do all of them when none reads or answers.
LEMMA TrackSameLine ==
    ASSUME AllTrack, \A n \in Externals : SameLine(conn[n], conn'[n])
    PROVE  AllTrack'
<1>1. \A n \in Externals : conn'[n].pc = "none" => conn[n].pc = "none"
  BY DEF SameLine
<1> QED
  BY <1>1, TracksSameLine DEF AllTrack

\* A loop that has settled its line is still at that line.
LEMMA SettledSameLine ==
    ASSUME ChainInv, NEW n \in Conns, NEW reply \in Replies, conn[n].pc \in {"working", "asking"}
    PROVE  SameLine(conn[n], Finish(n, reply))
<1>1. conn[n] \in ConnRecord
  BY ConnFacts
<1>2. /\ Finish(n, reply).in = conn[n].in /\ Finish(n, reply).out = conn[n].out
      /\ Finish(n, reply).pc = "answering" /\ Finish(n, reply).job = conn[n].job
  BY FinishFacts
<1>3. Finish(n, reply).req = conn[n].req
  BY <1>1 DEF Finish, ConnRecord
<1> QED
  BY <1>2, <1>3 DEF SameLine

\* Only the connection n settles its line.
LEMMA TrackSettled ==
    ASSUME ChainInv, AllTrack, NEW n \in Conns, NEW reply \in Replies, conn[n].pc = "working",
           conn' = [conn EXCEPT ![n] = Finish(n, reply)]
    PROVE  AllTrack'
<1>1. SameLine(conn[n], Finish(n, reply))
  BY SettledSameLine
<1>2. Finish(n, reply).pc = "answering"
  BY FinishFacts
<1>3. n \in Externals => Tracks(n, Finish(n, reply))
  BY <1>1, <1>2, TracksSameLine DEF AllTrack
<1> QED
  BY <1>3, TrackOne

\* What is asked below changes nothing of where the loop is in its script.
LEMMA TrackAsk ==
    ASSUME ChainAssumption, ChainInv, AllTrack, NEW n \in Conns, NEW kind \in {"call", "long"},
           Ask(n, kind)
    PROVE  AllTrack'
<1>1. /\ conn[n].pc = "working" /\ conn[n].job \in Jobs \ Adds /\ Tier(n) \in {"mcp", "service"}
      /\ conn[n] \in ConnRecord
  <2>1. /\ conn[n].pc = "working" /\ conn[n].job # None
        /\ Tier(n) = "mcp" \/ (Tier(n) = "service" /\ conn[n].job \notin Adds)
    BY DEF Ask, Passes
  <2>2. conn[n].job \in Jobs /\ conn[n] \in ConnRecord
    BY <2>1, ConnFacts, ConnParts
  <2>3. conn[n].job \in Adds => Tier(n) = "service"
    BY <2>1, <2>2, ConnFacts DEF Sound
  <2> QED
    BY <2>1, <2>2, <2>3
<1>2. Child(n) \in Conns /\ Child(n) \notin Externals /\ Child(n) # n
  BY <1>1, ChildFacts
<1>3. /\ conn' = [conn EXCEPT ![n].pc = "asking", ![Child(n)] = conn'[Child(n)]]
      /\ conn \in [Conns -> ConnRecord]
  BY <1>2 DEF Ask, ChainInv, ConnsOK
<1>4. /\ conn'[n] = [conn[n] EXCEPT !.pc = "asking"]
      /\ \A m \in Conns : m # n /\ m # Child(n) => conn'[m] = conn[m]
  BY <1>2, <1>3
<1>5. SameLine(conn[n], conn'[n])
  BY <1>1, <1>4 DEF SameLine, ConnRecord
<1>6. \A m \in Externals : SameLine(conn[m], conn'[m])
  <2>1. \A m \in Externals : m \in Conns /\ m # Child(n)
    BY <1>2 DEF Externals
  <2>2. \A m \in Externals : m # n => conn'[m] = conn[m]
    BY <1>4, <2>1
  <2> QED
    BY <1>5, <2>2 DEF SameLine
<1> QED
  BY <1>6, TrackSameLine

\* Neither does the end of what was asked.
LEMMA TrackReturn ==
    ASSUME ChainAssumption, ChainInv, AllTrack, NEW n \in Conns, NEW reply \in Replies,
           conn[n].pc = "asking", Return(n, reply)
    PROVE  AllTrack'
<1>1. conn[n].job \in Jobs \ Adds /\ Tier(n) \in {"mcp", "service"}
  BY ConnFacts DEF Sound
<1>2. Child(n) \in Conns /\ Child(n) \notin Externals /\ Child(n) # n
  BY <1>1, ChildFacts
<1>3. /\ conn' = [conn EXCEPT ![n] = Finish(n, reply), ![Child(n)].peer = FALSE]
      /\ conn \in [Conns -> ConnRecord]
  BY DEF Return, ChainInv, ConnsOK
<1>4. /\ conn'[n] = Finish(n, reply)
      /\ \A m \in Conns : m # n /\ m # Child(n) => conn'[m] = conn[m]
  BY <1>2, <1>3
<1>5. SameLine(conn[n], conn'[n])
  BY <1>4, SettledSameLine
<1>6. \A m \in Externals : SameLine(conn[m], conn'[m])
  <2>1. \A m \in Externals : m \in Conns /\ m # Child(n)
    BY <1>2 DEF Externals
  <2>2. \A m \in Externals : m # n => conn'[m] = conn[m]
    BY <1>4, <2>1
  <2> QED
    BY <1>5, <2>2 DEF SameLine
<1> QED
  BY <1>6, TrackSameLine

\* An answer is given to the line in hand.
LEMMA TrackAnswer ==
    ASSUME ChainAssumption, ChainInv, AllTrack, NEW n \in Conns, Answer(n)
    PROVE  AllTrack'
<1> DEFINE a == [id |-> conn[n].req, kind |-> conn[n].reply, job |-> conn[n].job]
           out == Reply(n, conn[n].req, conn[n].reply, conn[n].job)
           c == [conn[n] EXCEPT !.out = out, !.pc = "reading", !.reply = "none", !.job = None]
           p == Pos(n, conn[n])
<1>1. conn' = [conn EXCEPT ![n] = c] /\ conn[n].pc = "answering"
  BY DEF Answer, Become
<1>2. conn[n] \in ConnRecord /\ Sound(n, conn[n])
  BY ConnFacts
<1>3. /\ a \in AnswerRecord /\ a.job = conn[n].job /\ a.id = conn[n].req
      /\ conn[n].out \in Seq(AnswerRecord)
  <2>1. conn[n].reply \in Replies
    BY <1>1, <1>2 DEF Sound
  <2>2. conn[n].req \in Nat \cup {None, Unbound} /\ conn[n].job \in Jobs \cup {None}
    BY <1>2, ConnParts
  <2> QED
    BY <1>2, <2>1, <2>2, ConnParts DEF AnswerRecord
<1>4. out = Append(conn[n].out, a) /\ Len(conn[n].out) \in Nat
  BY <1>3 DEF Reply
<1> HIDE DEF a, out
<1>5. c.pc = "reading" /\ c.in = conn[n].in /\ c.out = out /\ c.req = conn[n].req
  BY <1>2 DEF ConnRecord
<1> HIDE DEF c
<1>6. ASSUME n \in Externals PROVE Tracks(n, c)
  <2>1. /\ InOrder(n, conn[n].out) /\ InPlace(n, conn[n])
        /\ Len(conn[n].out) + 1 = Due(n, p) /\ AnswersLine(n, p, conn[n].req, conn[n].job)
    BY <1>1, <1>6 DEF Tracks, AllTrack
  <2>2. Pos(n, c) = p
    BY <1>5 DEF Pos
  <2> HIDE DEF p
  <2>3. p \in Asked(Script(n)) /\ p \in DOMAIN Script(n)
    BY <1>6, <2>1, ScriptFacts DEF AnswersLine
  <2>4. InOrder(n, out)
    BY <1>3, <1>4, <1>6, <2>1, <2>3, InOrderNext
  <2>5. Len(out) = Due(n, p)
    BY <1>3, <1>4, <2>1
  <2>6. InPlace(n, c)
    BY <1>1, <1>5, <2>1, <2>2 DEF InPlace, p
  <2> QED
    BY <1>5, <2>2, <2>4, <2>5, <2>6 DEF Tracks
<1> QED
  BY <1>1, <1>6, TrackOne

\* A connection begins at the start of its script.
LEMMA TrackOpen ==
    ASSUME ChainAssumption, ChainInv, AllTrack, NEW n \in Conns, Open(n)
    PROVE  AllTrack'
<1> DEFINE c == NewConn(Tier(n), "reading", Script(n))
<1>1. n \in Externals /\ conn' = [conn EXCEPT ![n] = c]
  BY DEF Open, Become
<1>2. Script(n) \in Seq(Piece) /\ Len(Script(n)) \in Nat
  BY <1>1, ScriptFacts
<1>3. c.pc = "reading" /\ c.in = Script(n) /\ c.out = <<>> /\ c.req \in {None, Unbound}
  BY DEF NewConn
<1> HIDE DEF c
<1>4. Pos(n, c) = 0
  BY <1>2, <1>3 DEF Pos
<1>5. InPlace(n, c)
  BY <1>2, <1>3, <1>4 DEF InPlace
<1>6. InOrder(n, c.out)
  BY <1>3 DEF InOrder
<1>7. Len(c.out) = Due(n, Pos(n, c))
  BY <1>1, <1>3, <1>4, DueFacts
<1> QED
  BY <1>1, <1>3, <1>5, <1>6, <1>7, TrackOne DEF Tracks

\* A connection that ends gives no further answer.
LEMMA TrackEnd ==
    ASSUME ChainInv, AllTrack, NEW n \in Conns, EndOfInput(n)
    PROVE  AllTrack'
<1> DEFINE out == IF n \in Externals THEN conn[n].out ELSE <<>>
           c == [NewConn(Tier(n), "closed", <<>>) EXCEPT !.peer = FALSE, !.out = out]
<1>1. conn' = [conn EXCEPT ![n] = c]
  BY DEF EndOfInput, Become
<1>2. c.pc = "closed" /\ c.out = out
  BY DEF NewConn
<1> HIDE DEF c
<1>3. ASSUME n \in Externals PROVE Tracks(n, c)
  <2>1. SameLine(conn[n], c)
    BY <1>2, <1>3 DEF SameLine
  <2> QED
    BY <1>2, <1>3, <2>1, TracksSameLine DEF AllTrack
<1> QED
  BY <1>1, <1>3, TrackOne

\* Neither does one that is hung up or hit by a crash.
LEMMA TrackLost ==
    ASSUME ChainInv, AllTrack,
           \/ \E n \in Conns : HangUp(n) \/ (ReadTooLong(n) /\ Tier(n) # "mcp")
           \/ \E tier \in {"service", "agent"} : Crash(tier)
    PROVE  AllTrack'
<1>1. \A m \in Conns : conn[m] \in ConnRecord
  BY ConnFacts
<1>2. \A m \in Conns : \/ conn'[m] = [conn[m] EXCEPT !.pc = "closed"]
                       \/ conn'[m] = [conn[m] EXCEPT !.peer = FALSE]
                       \/ conn'[m] = conn[m]
  BY ZenonT(30) DEF HangUp, ReadTooLong, Crash, Become, ChainInv, ConnsOK
<1>3. ASSUME NEW m \in Conns PROVE SameLine(conn[m], conn'[m])
  <2>1. CASE conn'[m] = [conn[m] EXCEPT !.pc = "closed"]
    BY <1>1, <2>1 DEF SameLine, ConnRecord
  <2>2. CASE conn'[m] = [conn[m] EXCEPT !.peer = FALSE]
    BY <1>1, <2>2 DEF SameLine, ConnRecord
  <2>3. CASE conn'[m] = conn[m]
    BY <2>3 DEF SameLine
  <2> QED
    BY <1>2, <2>1, <2>2, <2>3
<1>4. \A m \in Externals : m \in Conns
  BY DEF Externals
<1> QED
  BY <1>3, <1>4, TrackSameLine

\* Every step keeps track of the scripts.
LEMMA TrackStep ==
    ASSUME ChainAssumption, ChainInv, AllTrack, [Next]_vars
    PROVE  AllTrack'
<1>1. ASSUME NEW n \in Conns, Step(n)
      PROVE  AllTrack'
  <2>1. CASE AnswerHello(n) \/ Reject(n) \/ Offline(n) \/ Refuse(n) \/ AddFail(n) \/ AddWrite(n)
    <3>1. conn[n].pc = "working"
      BY <2>1 DEF AnswerHello, Reject, Offline, Refuse, AddFail, AddWrite, Passes, AddsProject
    <3>2. \E reply \in {"ok", "failed", "offline", "refused"} :
              conn' = [conn EXCEPT ![n] = Finish(n, reply)]
      BY <2>1 DEF AnswerHello, Reject, Offline, Refuse, AddFail, AddWrite, Become
    <3> QED
      BY <3>1, <3>2, TrackSettled DEF Replies
  <2>2. ASSUME NEW reply \in {"ok", "failed"}, Execute(n, reply) PROVE AllTrack'
    BY <2>2, TrackSettled DEF Execute, Replies
  <2>3. CASE AddLoad(n) \/ AddTruncate(n)
    BY <2>3 DEF AddLoad, AddTruncate, AllTrack
  <2>4. CASE \E kind \in {"call", "long"} : Ask(n, kind)
    BY <2>4, TrackAsk
  <2>5. CASE TakeAnswer(n) \/ Broke(n) \/ TimeOut(n)
    <3>1. conn[n].pc = "asking"
      BY <2>5 DEF TakeAnswer, Broke, TimeOut
    <3>2. \E reply \in Replies : Return(n, reply)
      BY <2>5 DEF TakeAnswer, Broke, TimeOut, Received, Replies
    <3> QED
      BY <3>1, <3>2, TrackReturn
  <2>6. CASE ReadRequest(n) \/ ReadMalformed(n) \/ ReadNote(n)
    BY <2>6, TrackRequest, TrackMalformed, TrackNote
  <2>7. CASE ReadTooLong(n)
    BY <2>7, TrackTooLong, TrackLost
  <2>8. CASE Discard(n) \/ EndOfInput(n)
    BY <2>8, TrackDiscard, TrackEnd
  <2>9. CASE Answer(n)
    BY <2>9, TrackAnswer
  <2> QED
    BY <1>1, <2>1, <2>2, <2>3, <2>4, <2>5, <2>6, <2>7, <2>8, <2>9 DEF Step
<1>2. ASSUME NEW n \in Conns, Open(n) \/ HangUp(n)
      PROVE  AllTrack'
  BY <1>2, TrackOpen, TrackLost
<1>3. ASSUME NEW tier \in {"service", "agent"}, Crash(tier)
      PROVE  AllTrack'
  BY <1>3, TrackLost
<1>4. CASE UNCHANGED vars
  BY <1>4 DEF vars, AllTrack
<1> QED
  BY <1>1, <1>2, <1>3, <1>4 DEF Next

\* Before anybody connects there is nothing to keep track of.
LEMMA TrackInit ==
    ASSUME ChainAssumption, Init
    PROVE  AllTrack
<1> SUFFICES ASSUME NEW n \in Externals PROVE Tracks(n, conn[n])
  BY DEF AllTrack
<1>1. conn[n].pc = "none" /\ conn[n].out = <<>>
  BY ScriptFacts DEF Init, NewConn
<1> QED
  BY <1>1 DEF Tracks, InOrder

(* For any scripts, in any interleaving with timeouts, crashes and peers   *)
(* that leave: a connection's answers are in the order of its lines, one   *)
(* for each line that wants one, with its id and for its job               *)
(* (mcp_server.py 62-88, service_server.py 43-54, agent.py 383-397).       *)
THEOREM ChainAnswersMatchLines == Spec => []AnswersMatchLines
<1>1. Init => AllTrack
  BY ChainAssumption, TrackInit
<1>2. ChainInv /\ AllTrack /\ [Next]_vars => AllTrack'
  BY ChainAssumption, TrackStep
<1>3. AllTrack => AnswersMatchLines
  <2> SUFFICES ASSUME AllTrack, NEW n \in Externals, NEW k \in DOMAIN conn[n].out
               PROVE  \E i \in Asked(Script(n)) :
                          LET line == Script(n)[i]
                              stale == {Script(n)[e].id : e \in 1..(i - 1)}
                          IN  /\ k = Cardinality({a \in Asked(Script(n)) : a <= i})
                              /\ conn[n].out[k].job = line.job
                              /\ conn[n].out[k].id \in
                                    IF line.kind \in {"call", "hello"} THEN {line.id}
                                    ELSE {None} \cup (IF Tier(n) = "agent" THEN stale ELSE {})
    BY DEF AnswersMatchLines
  <2>1. PICK i \in DOMAIN Script(n) :
            k = Due(n, i) /\ AnswersLine(n, i, conn[n].out[k].id, conn[n].out[k].job)
    BY DEF AllTrack, Tracks, InOrder
  <2> QED
    BY <2>1 DEF Due, AnswersLine
<1> QED
  BY <1>1, <1>2, <1>3, ChainInvariant, PTL DEF Spec

-----------------------------------------------------------------------------
(* The chain is a remote call                                              *)

\* What is known of the job j from its peer's connection in the state c: see Status.
Outcome(c, j) ==
    LET answers == {c.out[k].kind : k \in {k \in DOMAIN c.out : c.out[k].job = j}}
    IN  CASE c.pc = "none" -> "unsent"
          [] answers = {"ok"} -> "done"
          [] answers \in {{"refused"}, {"offline"}} -> "refused"
          [] answers \in {{"failed"}, {"timeout"}} \/ (answers = {} /\ c.pc = "closed") -> "unknown"
          [] OTHER -> "open"

\* What an answer of this kind says.
Meaning(kind) ==
    IF kind = "ok" THEN "done" ELSE IF kind \in {"refused", "offline"} THEN "refused" ELSE "unknown"

Unanswered(c, j) == \A k \in DOMAIN c.out : c.out[k].job # j

\* A job is asked for on one line of one connection.
LEMMA OwnerFacts ==
    ASSUME ChainAssumption, NEW j \in Jobs
    PROVE  /\ Owner[j] \in Externals /\ Owner[j] \in Conns
           /\ \E i \in DOMAIN Script(Owner[j]) : Script(Owner[j])[i].job = j
           /\ \A i, k \in DOMAIN Script(Owner[j]) :
                 Script(Owner[j])[i].job = j /\ Script(Owner[j])[k].job = j => i = k
<1>1. PICK p \in Peers : \E i \in DOMAIN Scripts[p].lines : Scripts[p].lines[i].job = j
  BY DEF ChainAssumption
<1> DEFINE n == <<Scripts[p].tier, p>>
           Asks(m) == \E i \in DOMAIN Script(m) : Script(m)[i].job = j
<1>2. n \in Externals /\ Asks(n)
  BY <1>1 DEF Conns, Externals, Script
<1>3. Owner[j] = CHOOSE m \in Externals : Asks(m)
  BY DEF Owner
<1>4. Owner[j] \in Externals /\ Asks(Owner[j])
  <2> HIDE DEF Asks, n
  <2> QED
    BY <1>2, <1>3
<1>5. Owner[j][2] \in Peers /\ Owner[j] \in Conns
  BY <1>4 DEF Externals
<1>6. \A i, k \in DOMAIN Script(Owner[j]) :
          Script(Owner[j])[i].job = j /\ Script(Owner[j])[k].job = j => i = k
  BY <1>5 DEF ChainAssumption, Script
<1> QED
  BY <1>4, <1>5, <1>6

\* The answers that a loop gives for a job are one at most.
LEMMA AnsweredOnce ==
    ASSUME ChainAssumption, NEW j \in Jobs, NEW c, Tracks(Owner[j], c),
           NEW k \in DOMAIN c.out, NEW l \in DOMAIN c.out,
           c.out[k].job = j, c.out[l].job = j
    PROVE  k = l
<1> DEFINE o == Owner[j]
<1>1. o \in Externals /\ \A i, e \in DOMAIN Script(o) :
          Script(o)[i].job = j /\ Script(o)[e].job = j => i = e
  BY OwnerFacts
<1>4. InOrder(o, c.out)
  BY DEF Tracks
<1> HIDE DEF o
<1>5. \A x \in DOMAIN c.out :
          \E i \in DOMAIN Script(o) : x = Due(o, i) /\ c.out[x].job = Script(o)[i].job
  <2>1. \A i, id, job : AnswersLine(o, i, id, job) => job = Script(o)[i].job
    BY DEF AnswersLine
  <2> SUFFICES ASSUME NEW x \in DOMAIN c.out
               PROVE  \E i \in DOMAIN Script(o) : x = Due(o, i) /\ c.out[x].job = Script(o)[i].job
    OBVIOUS
  <2>2. PICK i \in DOMAIN Script(o) : x = Due(o, i) /\ AnswersLine(o, i, c.out[x].id, c.out[x].job)
    BY <1>4 DEF InOrder
  <2> QED
    BY <2>1, <2>2
<1>2. PICK i \in DOMAIN Script(o) : k = Due(o, i) /\ Script(o)[i].job = j
  BY <1>5, SMTT(30)
<1>3. PICK e \in DOMAIN Script(o) : l = Due(o, e) /\ Script(o)[e].job = j
  BY <1>5, SMTT(30)
<1> QED
  BY <1>1, <1>2, <1>3

\* What is known of a job by its connection and its one answer.
LEMMA OutcomeFacts ==
    ASSUME NEW c, NEW j, \A k \in DOMAIN c.out : c.out[k].kind \in Replies,
           \A k, l \in DOMAIN c.out : c.out[k].job = j /\ c.out[l].job = j => k = l
    PROVE  /\ c.pc = "none" /\ Unanswered(c, j) => Outcome(c, j) = "unsent"
           /\ c.pc # "none" /\ Unanswered(c, j) =>
                 Outcome(c, j) = IF c.pc = "closed" THEN "unknown" ELSE "open"
           /\ \A k \in DOMAIN c.out : c.pc # "none" /\ c.out[k].job = j =>
                 Outcome(c, j) = Meaning(c.out[k].kind)
<1> DEFINE answers == {c.out[k].kind : k \in {k \in DOMAIN c.out : c.out[k].job = j}}
           outcome ==
               CASE c.pc = "none" -> "unsent"
                 [] answers = {"ok"} -> "done"
                 [] answers \in {{"refused"}, {"offline"}} -> "refused"
                 [] answers \in {{"failed"}, {"timeout"}} \/ (answers = {} /\ c.pc = "closed")
                    -> "unknown"
                 [] OTHER -> "open"
<1>1. Outcome(c, j) = outcome
  BY DEF Outcome
<1>2. Unanswered(c, j) => answers = {}
  BY DEF Unanswered
<1>3. \A k \in DOMAIN c.out : c.out[k].job = j => answers = {c.out[k].kind}
  OBVIOUS
<1> HIDE DEF answers
<1>4. ASSUME c.pc # "none", answers = {}
      PROVE  outcome = IF c.pc = "closed" THEN "unknown" ELSE "open"
  <2>1. answers # {"ok"} /\ answers \notin {{"refused"}, {"offline"}, {"failed"}, {"timeout"}}
    BY <1>4
  <2> QED
    BY <1>4, <2>1
<1>5. ASSUME c.pc # "none", NEW kind \in Replies, answers = {kind}
      PROVE  outcome = Meaning(kind)
  <2>1. \A x : answers = {x} <=> x = kind
    BY <1>5
  <2>2. answers # {}
    BY <1>5
  <2>3. /\ answers = {"ok"} <=> kind = "ok"
        /\ answers \in {{"refused"}, {"offline"}} <=> kind \in {"refused", "offline"}
        /\ answers \in {{"failed"}, {"timeout"}} <=> kind \in {"failed", "timeout"}
    BY <2>1
  <2>4. kind \in {"ok", "refused", "offline", "failed", "timeout"}
    BY DEF Replies
  <2> QED
    BY <1>5, <2>2, <2>3, <2>4 DEF Meaning
<1>6. ASSUME c.pc = "none", answers = {}
      PROVE  outcome = "unsent"
  <2>1. answers # {"ok"} /\ answers \notin {{"refused"}, {"offline"}, {"failed"}, {"timeout"}}
    BY <1>6
  <2> QED
    BY <1>6, <2>1
<1> HIDE DEF outcome
<1> QED
  BY <1>1, <1>2, <1>3, <1>4, <1>5, <1>6

\* From the state b to the state c a loop gives no answer, and has neither begun nor begun again.
Silent(b, c) ==
    /\ c.out = b.out
    /\ c.pc = "none" <=> b.pc = "none"
    /\ b.pc = "closed" => c.pc = "closed"

Opened(b, c) == b.pc = "none" /\ c.pc = "reading" /\ c.out = <<>>

\* It gives one answer more: to no job, or the settled one to the job in hand.
Answered(b, c) ==
    /\ {b.pc, c.pc} \cap {"none", "closed"} = {}
    /\ \E a \in AnswerRecord :
          /\ c.out = Append(b.out, a)
          /\ a.job = None \/ (b.pc = "answering" /\ a.kind = b.reply /\ a.job = b.job)

\* A step of another connection leaves that of an external peer alone.
LEMMA OthersStay ==
    ASSUME ChainAssumption, ChainInv, NEW m \in Conns, NEW n \in Externals, n # m,
           Step(m) \/ Open(m) \/ HangUp(m)
    PROVE  conn'[n] = conn[n]
<1>1. n \in Conns /\ conn \in [Conns -> ConnRecord]
  BY ScriptFacts DEF ChainInv, ConnsOK
<1>2. CASE \E kind \in {"call", "long"} : Ask(m, kind)
  <2>1. /\ conn[m].pc = "working" /\ conn[m].job # None /\ Tier(m) \in {"mcp", "service"}
        /\ Tier(m) = "mcp" \/ conn[m].job \notin Adds
    BY <1>2 DEF Ask, Passes
  <2>2. conn[m].job \in Jobs
    BY <2>1, ConnFacts, ConnParts
  <2>3. conn[m].job \in Jobs \ Adds
    BY <2>1, <2>2, ConnFacts DEF Sound
  <2>4. Child(m) \in Conns /\ Child(m) \notin Externals
    BY <2>1, <2>3, ChildFacts
  <2> QED
    BY <1>1, <1>2, <2>4 DEF Ask
<1>3. CASE TakeAnswer(m) \/ Broke(m) \/ TimeOut(m)
  <2>1. conn[m].pc = "asking" /\ \E reply : Return(m, reply)
    BY <1>3 DEF TakeAnswer, Broke, TimeOut
  <2>2. conn[m].job \in Jobs \ Adds /\ Tier(m) \in {"mcp", "service"}
    BY <2>1, ConnFacts DEF Sound
  <2>3. Child(m) \in Conns /\ Child(m) \notin Externals
    BY <2>2, ChildFacts
  <2> QED
    BY <1>1, <2>1, <2>3 DEF Return
<1>4. CASE AddLoad(m) \/ AddTruncate(m)
  BY <1>4 DEF AddLoad, AddTruncate
<1>5. CASE \/ ReadRequest(m) \/ ReadMalformed(m) \/ ReadNote(m) \/ ReadTooLong(m)
           \/ Discard(m) \/ EndOfInput(m) \/ AnswerHello(m) \/ Reject(m) \/ Offline(m)
           \/ \E reply \in {"ok", "failed"} : Execute(m, reply)
           \/ Refuse(m) \/ AddWrite(m) \/ AddFail(m) \/ Answer(m) \/ Open(m) \/ HangUp(m)
  <2>1. \E c : conn' = [conn EXCEPT ![m] = c]
    BY <1>5 DEF ReadRequest, ReadMalformed, ReadNote, ReadTooLong, Discard, EndOfInput,
       AnswerHello, Reject, Offline, Execute, Refuse, AddWrite, AddFail, Answer, Open, HangUp,
       Become
  <2> QED
    BY <1>1, <2>1
<1> QED
  BY <1>2, <1>3, <1>4, <1>5 DEF Step

\* How the loop of an external peer goes on when it takes a step itself.
LEMMA OwnStep ==
    ASSUME ChainAssumption, ChainInv, NEW n \in Externals, Step(n)
    PROVE  Silent(conn[n], conn'[n]) \/ Answered(conn[n], conn'[n])
<1>1. n \in Conns /\ conn[n] \in ConnRecord /\ Sound(n, conn[n]) /\ conn \in [Conns -> ConnRecord]
  BY ScriptFacts, ConnFacts DEF ChainInv, ConnsOK
<1>2. CASE \E kind \in {"call", "long"} : Ask(n, kind)
  <2>1. /\ conn[n].pc = "working" /\ conn[n].job # None /\ Tier(n) \in {"mcp", "service"}
        /\ Tier(n) = "mcp" \/ conn[n].job \notin Adds
    BY <1>2 DEF Ask, Passes
  <2>2. conn[n].job \in Jobs
    BY <1>1, <2>1, ConnParts
  <2>3. conn[n].job \in Jobs \ Adds
    BY <1>1, <2>1, <2>2 DEF Sound
  <2>4. Child(n) # n
    BY <1>1, <2>1, <2>3, ChildFacts
  <2>5. conn'[n] = [conn[n] EXCEPT !.pc = "asking"]
    BY <1>1, <1>2, <2>4 DEF Ask
  <2>6. conn'[n].out = conn[n].out /\ conn'[n].pc = "asking"
    BY <1>1, <2>5 DEF ConnRecord
  <2> QED
    BY <2>1, <2>6 DEF Silent
<1>3. CASE TakeAnswer(n) \/ Broke(n) \/ TimeOut(n)
  <2>1. conn[n].pc = "asking" /\ \E reply : Return(n, reply)
    BY <1>3 DEF TakeAnswer, Broke, TimeOut
  <2>2. conn[n].job \in Jobs \ Adds /\ Tier(n) \in {"mcp", "service"}
    BY <1>1, <2>1 DEF Sound
  <2>3. Child(n) # n
    BY <1>1, <2>2, ChildFacts
  <2>4. \E reply : conn'[n] = Finish(n, reply)
    BY <1>1, <2>1, <2>3 DEF Return
  <2>5. conn'[n].out = conn[n].out /\ conn'[n].pc = "answering"
    BY <1>1, <2>4 DEF Finish, ConnRecord
  <2> QED
    BY <2>1, <2>5 DEF Silent
<1>4. CASE AddLoad(n) \/ AddTruncate(n)
  BY <1>4 DEF AddLoad, AddTruncate, Silent
<1>5. CASE \/ AnswerHello(n) \/ Reject(n) \/ Offline(n) \/ Refuse(n) \/ AddWrite(n) \/ AddFail(n)
           \/ \E reply \in {"ok", "failed"} : Execute(n, reply)
  <2>1. conn[n].pc = "working" /\ \E reply : conn' = [conn EXCEPT ![n] = Finish(n, reply)]
    BY <1>5 DEF AnswerHello, Reject, Offline, Refuse, AddWrite, AddFail, Execute, Passes,
       AddsProject, Become
  <2>2. \E reply : conn'[n] = Finish(n, reply)
    BY <1>1, <2>1
  <2>3. conn'[n].out = conn[n].out /\ conn'[n].pc = "answering"
    BY <1>1, <2>2 DEF Finish, ConnRecord
  <2> QED
    BY <2>1, <2>3 DEF Silent
<1>6. CASE ReadRequest(n) \/ ReadMalformed(n) \/ ReadNote(n) \/ Discard(n)
  <2>1. conn[n].pc \in {"reading", "discarding"}
    BY <1>6 DEF ReadRequest, ReadMalformed, ReadNote, Discard, Reads
  <2>2. conn'[n].out = conn[n].out /\ conn'[n].pc # "none"
    <3>1. CASE ReadRequest(n)
      BY <1>1, <3>1 DEF ReadRequest, Become, ConnRecord
    <3>2. CASE ReadMalformed(n)
      BY <1>1, <3>2 DEF ReadMalformed, Become, ConnRecord
    <3>3. CASE ReadNote(n)
      BY <1>1, <2>1, <3>3 DEF ReadNote, Become, ConnRecord
    <3>4. CASE Discard(n)
      BY <1>1, <3>4 DEF Discard, Become, ConnRecord
    <3> QED
      BY <1>6, <3>1, <3>2, <3>3, <3>4
  <2> QED
    BY <2>1, <2>2 DEF Silent
<1>7. CASE EndOfInput(n)
  <2>1. conn[n].pc \in {"reading", "discarding"}
    BY <1>7 DEF EndOfInput
  <2>2. conn'[n].out = conn[n].out /\ conn'[n].pc = "closed"
    BY <1>1, <1>7 DEF EndOfInput, Become, NewConn
  <2> QED
    BY <2>1, <2>2 DEF Silent
<1>8. CASE ReadTooLong(n)
  <2>1. conn[n].pc = "reading"
    BY <1>8 DEF ReadTooLong, Reads
  <2>2. CASE Tier(n) # "mcp"
    <3>1. conn'[n] = [conn[n] EXCEPT !.pc = "closed"]
      BY <1>1, <1>8, <2>2 DEF ReadTooLong, Become
    <3> QED
      BY <1>1, <2>1, <3>1 DEF Silent, ConnRecord
  <2>3. CASE Tier(n) = "mcp"
    <3> DEFINE a == [id |-> None, kind |-> "failed", job |-> None]
    <3>1. a \in AnswerRecord /\ a.job = None
      BY DEF AnswerRecord, Replies
    <3>2. conn'[n].out = Append(conn[n].out, a) /\ conn'[n].pc \in {"reading", "discarding"}
      <4> DEFINE pc == IF Head(conn[n].in).kind = "longEnd" THEN "reading" ELSE "discarding"
                 new == [conn[n] EXCEPT
                            !.in = Tail(@), !.out = Append(conn[n].out, a), !.pc = pc,
                            !.discarded = IF Head(conn[n].in).kind = "longEnd" THEN 0 ELSE 1]
      <4>1. conn'[n] = new
        BY <1>1, <1>8, <2>3 DEF ReadTooLong, Become, Reply
      <4>2. new.out = Append(conn[n].out, a) /\ new.pc = pc
        BY <1>1 DEF ConnRecord
      <4> QED
        BY <4>1, <4>2
    <3> HIDE DEF a
    <3> QED
      BY <2>1, <3>1, <3>2 DEF Answered
  <2> QED
    BY <2>2, <2>3
<1>9. CASE Answer(n)
  <2> DEFINE a == [id |-> conn[n].req, kind |-> conn[n].reply, job |-> conn[n].job]
  <2>1. conn[n].pc = "answering"
    BY <1>9 DEF Answer
  <2>2. a \in AnswerRecord /\ a.kind = conn[n].reply /\ a.job = conn[n].job
    <3>1. conn[n].reply \in Replies
      BY <1>1, <2>1 DEF Sound
    <3>2. conn[n].req \in Nat \cup {None, Unbound} /\ conn[n].job \in Jobs \cup {None}
      BY <1>1, ConnParts
    <3> QED
      BY <3>1, <3>2 DEF AnswerRecord
  <2>3. conn'[n].out = Append(conn[n].out, a) /\ conn'[n].pc = "reading"
    BY <1>1, <1>9 DEF Answer, Become, Reply, ConnRecord
  <2> HIDE DEF a
  <2> QED
    BY <2>1, <2>2, <2>3 DEF Answered
<1> QED
  BY <1>2, <1>3, <1>4, <1>5, <1>6, <1>7, <1>8, <1>9 DEF Step

\* How the loop of an external peer may go on.
LEMMA Evolves ==
    ASSUME ChainAssumption, ChainInv, NEW n \in Externals, [Next]_vars
    PROVE  \/ Silent(conn[n], conn'[n])
           \/ Opened(conn[n], conn'[n])
           \/ Answered(conn[n], conn'[n])
<1>1. n \in Conns /\ conn[n] \in ConnRecord /\ conn \in [Conns -> ConnRecord]
  BY ScriptFacts, ConnFacts DEF ChainInv, ConnsOK
<1>2. ASSUME NEW m \in Conns, Step(m) \/ Open(m) \/ HangUp(m), m # n
      PROVE  Silent(conn[n], conn'[n])
  <2>1. conn'[n] = conn[n]
    BY <1>2, OthersStay
  <2> QED
    BY <2>1 DEF Silent
<1>3. CASE Step(n)
  BY <1>3, OwnStep
<1>4. CASE Open(n)
  <2>1. conn[n].pc = "none" /\ conn'[n] = NewConn(Tier(n), "reading", Script(n))
    BY <1>1, <1>4 DEF Open, Become
  <2>2. conn'[n].pc = "reading" /\ conn'[n].out = <<>>
    BY <2>1 DEF NewConn
  <2> QED
    BY <2>1, <2>2 DEF Opened
<1>5. CASE HangUp(n)
  <2>1. conn'[n] = [conn[n] EXCEPT !.peer = FALSE]
    BY <1>1, <1>5 DEF HangUp, Become
  <2>2. conn'[n].pc = conn[n].pc /\ conn'[n].out = conn[n].out
    BY <1>1, <2>1 DEF ConnRecord
  <2> QED
    BY <2>2 DEF Silent
<1>6. ASSUME NEW tier \in {"service", "agent"}, Crash(tier)
      PROVE  Silent(conn[n], conn'[n])
  <2>1. \/ conn[n].pc # "none" /\ conn'[n] = [conn[n] EXCEPT !.pc = "closed"]
        \/ conn'[n] = conn[n]
    BY <1>1, <1>6 DEF Crash
  <2>2. CASE conn[n].pc # "none" /\ conn'[n] = [conn[n] EXCEPT !.pc = "closed"]
    <3>1. conn'[n].pc = "closed" /\ conn'[n].out = conn[n].out
      BY <1>1, <2>2 DEF ConnRecord
    <3> QED
      BY <2>2, <3>1 DEF Silent
  <2> QED
    BY <2>1, <2>2 DEF Silent
<1>7. CASE UNCHANGED vars
  BY <1>7 DEF vars, Silent
<1> QED
  BY <1>2, <1>3, <1>4, <1>5, <1>6, <1>7 DEF Next

(* A job is carried out by the one connection that works for it, in a step *)
(* that gives no answer to any peer.                                       *)
LEMMA Acts ==
    ASSUME ChainAssumption, ChainInv, NEW j \in Jobs, [Next]_vars, done'[j] # done[j]
    PROVE  /\ done[j] = 0 /\ done'[j] = 1
           /\ \E m \in Conns : Holds(m, j) /\ conn[m].pc = "working"
           /\ \A n \in Externals :
                 /\ conn'[n].out = conn[n].out
                 /\ conn'[n].pc = conn[n].pc
                    \/ {conn[n].pc, conn'[n].pc} \cap {"none", "closed"} = {}
<1>1. PICK n \in Conns : AddWrite(n) \/ \E reply \in {"ok", "failed"} : Execute(n, reply)
  <2>1. UNCHANGED vars => done' = done
    BY DEF vars
  <2>2. \A n \in Conns : Open(n) \/ HangUp(n) => done' = done
    BY DEF Open, HangUp, Become
  <2>3. \A tier : Crash(tier) => done' = done
    BY DEF Crash
  <2>4. ASSUME NEW n \in Conns, Step(n), done' # done
        PROVE  AddWrite(n) \/ \E reply \in {"ok", "failed"} : Execute(n, reply)
    <3>1. ReadRequest(n) \/ ReadMalformed(n) \/ ReadNote(n) \/ ReadTooLong(n) => done' = done
      BY DEF ReadRequest, ReadMalformed, ReadNote, ReadTooLong, Become
    <3>2. Discard(n) \/ EndOfInput(n) \/ AnswerHello(n) \/ Reject(n) \/ Offline(n) => done' = done
      BY DEF Discard, EndOfInput, AnswerHello, Reject, Offline, Become
    <3>3. (\E kind \in {"call", "long"} : Ask(n, kind)) => done' = done
      BY DEF Ask
    <3>4. TakeAnswer(n) \/ Broke(n) \/ TimeOut(n) => done' = done
      BY DEF TakeAnswer, Broke, TimeOut, Return
    <3>5. Refuse(n) \/ AddLoad(n) \/ AddTruncate(n) \/ AddFail(n) \/ Answer(n) => done' = done
      BY DEF Refuse, AddLoad, AddTruncate, AddFail, Answer, Become
    <3> QED
      BY <2>4, <3>1, <3>2, <3>3, <3>4, <3>5 DEF Step
  <2> QED
    BY <2>1, <2>2, <2>3, <2>4 DEF Next
<1>2. PICK reply : conn[n].pc = "working" /\ conn' = [conn EXCEPT ![n] = Finish(n, reply)]
  BY <1>1 DEF AddWrite, AddsProject, Execute
<1>3. done' = [done EXCEPT ![conn[n].job] = @ + 1]
  BY <1>1 DEF AddWrite, Execute, Carried
<1>4. conn[n].job = j
  BY <1>3 DEF ChainInv, ConnsOK
<1>5. Holds(n, j)
  BY <1>2, <1>4 DEF Holds, HoldsIn
<1>6. done[j] = 0 /\ done'[j] = 1
  BY <1>3, <1>4, <1>5 DEF ChainInv, ConnsOK
<1>7. conn[n] \in ConnRecord /\ conn \in [Conns -> ConnRecord]
  BY ConnFacts DEF ChainInv, ConnsOK
<1>8. Finish(n, reply).out = conn[n].out /\ Finish(n, reply).pc = "answering"
  BY <1>7 DEF Finish, ConnRecord
<1>9. \A m \in Externals : m \in Conns
  BY DEF Externals
<1> QED
  BY <1>2, <1>5, <1>6, <1>7, <1>8, <1>9

\* A step of the chain is a step of the remote call of each job, or changes nothing of it.
LEMMA CallStep ==
    ASSUME ChainAssumption, ChainInv, ChainInv', AllTrack, AllTrack', [Next]_vars, NEW j \in Jobs
    PROVE  Call(j)!Next \/ UNCHANGED Call(j)!vars
<1> DEFINE o == Owner[j]
           b == conn[o]
           c == conn'[o]
<1>1. o \in Externals /\ o \in Conns
  BY OwnerFacts
<1>2. Status(j) = Outcome(b, j) /\ Status(j)' = Outcome(c, j)
  BY DEF Status, Outcome
<1>3. Tracks(o, b) /\ Tracks(o, c)
  BY <1>1 DEF AllTrack
<1>4. /\ b \in ConnRecord /\ c \in ConnRecord
      /\ b.out \in Seq(AnswerRecord) /\ c.out \in Seq(AnswerRecord)
      /\ done[j] \in {0, 1} /\ done'[j] \in {0, 1}
  <2>1. b \in ConnRecord /\ c \in ConnRecord /\ done[j] \in {0, 1} /\ done'[j] \in {0, 1}
    BY <1>1 DEF ChainInv, ConnsOK
  <2> QED
    BY <2>1, ConnParts
<1>5. /\ \A k \in DOMAIN b.out : b.out[k].kind \in Replies
      /\ \A k \in DOMAIN c.out : c.out[k].kind \in Replies
  <2>1. \A a \in AnswerRecord : a.kind \in Replies
    BY DEF AnswerRecord
  <2> QED
    BY <1>4, <2>1
<1>6. /\ \A k, l \in DOMAIN b.out : b.out[k].job = j /\ b.out[l].job = j => k = l
      /\ \A k, l \in DOMAIN c.out : c.out[k].job = j /\ c.out[l].job = j => k = l
  BY <1>3, AnsweredOnce
<1>7. /\ b.pc = "none" => b.out = <<>> /\ Outcome(b, j) = "unsent"
      /\ b.pc # "none" /\ Unanswered(b, j) =>
            Outcome(b, j) = IF b.pc = "closed" THEN "unknown" ELSE "open"
      /\ \A k \in DOMAIN b.out : b.pc # "none" /\ b.out[k].job = j =>
            Outcome(b, j) = Meaning(b.out[k].kind)
  <2>1. b.pc = "none" => b.out = <<>> /\ Unanswered(b, j)
    BY <1>3 DEF Tracks, Unanswered
  <2>2. /\ \A k \in DOMAIN b.out : b.out[k].kind \in Replies
        /\ \A k, l \in DOMAIN b.out : b.out[k].job = j /\ b.out[l].job = j => k = l
    BY <1>5, <1>6
  <2> HIDE DEF b
  <2>3. /\ b.pc = "none" /\ Unanswered(b, j) => Outcome(b, j) = "unsent"
        /\ b.pc # "none" /\ Unanswered(b, j) =>
              Outcome(b, j) = IF b.pc = "closed" THEN "unknown" ELSE "open"
        /\ \A k \in DOMAIN b.out : b.pc # "none" /\ b.out[k].job = j =>
              Outcome(b, j) = Meaning(b.out[k].kind)
    BY <2>2, OutcomeFacts, ZenonT(60)
  <2> QED
    BY <2>1, <2>3
<1>8. /\ c.pc = "none" => c.out = <<>> /\ Outcome(c, j) = "unsent"
      /\ c.pc # "none" /\ Unanswered(c, j) =>
            Outcome(c, j) = IF c.pc = "closed" THEN "unknown" ELSE "open"
      /\ \A k \in DOMAIN c.out : c.pc # "none" /\ c.out[k].job = j =>
            Outcome(c, j) = Meaning(c.out[k].kind)
  <2>1. c.pc = "none" => c.out = <<>> /\ Unanswered(c, j)
    BY <1>3 DEF Tracks, Unanswered
  <2>2. /\ \A k \in DOMAIN c.out : c.out[k].kind \in Replies
        /\ \A k, l \in DOMAIN c.out : c.out[k].job = j /\ c.out[l].job = j => k = l
    BY <1>5, <1>6
  <2> HIDE DEF c
  <2>3. /\ c.pc = "none" /\ Unanswered(c, j) => Outcome(c, j) = "unsent"
        /\ c.pc # "none" /\ Unanswered(c, j) =>
              Outcome(c, j) = IF c.pc = "closed" THEN "unknown" ELSE "open"
        /\ \A k \in DOMAIN c.out : c.pc # "none" /\ c.out[k].job = j =>
              Outcome(c, j) = Meaning(c.out[k].kind)
    BY <2>2, OutcomeFacts, ZenonT(60)
  <2> QED
    BY <2>1, <2>3
<1>9. /\ \A k \in DOMAIN b.out : b.out[k].job = j => TrueClaim(b.out[k].kind, j)
      /\ b.pc = "answering" /\ b.job = j => TrueClaim(b.reply, j)
  BY <1>1, ConnFacts
<1>10. Silent(b, c) \/ Opened(b, c) \/ Answered(b, c)
  BY <1>1, Evolves
<1> HIDE DEF b, c
<1>11. CASE done'[j] # done[j]
  <2>1. /\ done[j] = 0 /\ done'[j] = 1
        /\ \E m \in Conns : Holds(m, j) /\ conn[m].pc = "working"
        /\ c.out = b.out
        /\ c.pc = b.pc \/ {b.pc, c.pc} \cap {"none", "closed"} = {}
    BY <1>1, <1>11, Acts DEF b, c
  <2>2. b.pc # "none"
    <3> SUFFICES ASSUME b.pc = "none" PROVE FALSE
      OBVIOUS
    <3>1. Holds(o, j)
      BY <1>1, OwnerFacts DEF Holds, HoldsIn, b
    <3>2. \A m \in Conns : Holds(m, j) => m = o
      BY <1>1, <3>1 DEF ChainInv
    <3> QED
      BY <2>1, <3>2 DEF b
  <2>3. Status(j) \in {"open", "unknown"} /\ Status(j)' = Status(j)
    <3>1. CASE Unanswered(b, j)
      <4>1. Unanswered(c, j)
        BY <2>1, <3>1 DEF Unanswered
      <4>2. c.pc # "none" /\ (c.pc = "closed" <=> b.pc = "closed")
        BY <2>1, <2>2
      <4> QED
        BY <1>2, <1>7, <1>8, <2>2, <3>1, <4>1, <4>2
    <3>2. ASSUME NEW k \in DOMAIN b.out, b.out[k].job = j
          PROVE  Status(j) \in {"open", "unknown"} /\ Status(j)' = Status(j)
      <4>1. Meaning(b.out[k].kind) = "unknown"
        BY <1>9, <2>1, <3>2 DEF TrueClaim, Meaning
      <4> QED
        BY <1>2, <1>7, <1>8, <2>1, <2>2, <3>2, <4>1
    <3> QED
      BY <3>1, <3>2 DEF Unanswered
  <2> QED
    BY <2>1, <2>3 DEF Call!Next, Call!Act
<1>12. CASE done'[j] = done[j] /\ Silent(b, c)
  <2>1. CASE b.pc = "none"
    BY <1>2, <1>7, <1>8, <1>12, <2>1 DEF Silent, Call!vars
  <2>2. CASE b.pc # "none" /\ Unanswered(b, j)
    <3>1. Unanswered(c, j) /\ c.pc # "none" /\ (b.pc = "closed" => c.pc = "closed")
      BY <1>12, <2>2 DEF Silent, Unanswered
    <3> QED
      BY <1>2, <1>7, <1>8, <1>12, <2>2, <3>1 DEF Call!vars, Call!Next, Call!GiveUp
  <2>3. ASSUME b.pc # "none", NEW k \in DOMAIN b.out, b.out[k].job = j
        PROVE  UNCHANGED Call(j)!vars
    BY <1>2, <1>7, <1>8, <1>12, <2>3 DEF Silent, Call!vars
  <2> QED
    BY <2>1, <2>2, <2>3 DEF Unanswered
<1>13. CASE done'[j] = done[j] /\ Opened(b, c)
  <2>1. Unanswered(c, j)
    BY <1>13 DEF Opened, Unanswered
  <2> QED
    BY <1>2, <1>7, <1>8, <1>13, <2>1 DEF Opened, Call!Next, Call!Send
<1>14. CASE done'[j] = done[j] /\ Answered(b, c)
  <2>1. PICK a \in AnswerRecord :
            /\ c.out = Append(b.out, a)
            /\ a.job = None \/ (b.pc = "answering" /\ a.kind = b.reply /\ a.job = b.job)
    BY <1>14 DEF Answered
  <2>2. b.pc \notin {"none", "closed"} /\ c.pc \notin {"none", "closed"}
    BY <1>14 DEF Answered
  <2>3. /\ Len(b.out) + 1 \in DOMAIN c.out /\ c.out[Len(b.out) + 1] = a
        /\ \A k \in DOMAIN b.out : k \in DOMAIN c.out /\ c.out[k] = b.out[k] /\ k # Len(b.out) + 1
        /\ \A k \in DOMAIN c.out : k = Len(b.out) + 1 \/ k \in DOMAIN b.out
    BY <1>4, <2>1
  <2>4. CASE a.job # j /\ Unanswered(b, j)
    <3>1. Unanswered(c, j)
      BY <2>3, <2>4 DEF Unanswered
    <3> QED
      BY <1>2, <1>7, <1>8, <1>14, <2>2, <2>4, <3>1 DEF Call!vars
  <2>5. ASSUME a.job # j, NEW k \in DOMAIN b.out, b.out[k].job = j
        PROVE  UNCHANGED Call(j)!vars
    <3>1. k \in DOMAIN c.out /\ c.out[k] = b.out[k]
      BY <2>3, <2>5
    <3> QED
      BY <1>2, <1>7, <1>8, <1>14, <2>2, <2>5, <3>1 DEF Call!vars
  <2>6. CASE a.job = j
    <3>1. Unanswered(b, j)
      BY <1>6, <2>3, <2>6 DEF Unanswered
    <3>2. Status(j) = "open" /\ Status(j)' = Meaning(a.kind)
      BY <1>2, <1>7, <1>8, <2>2, <2>3, <2>6, <3>1
    <3>3. j # None
      BY DEF ChainAssumption
    <3>4. TrueClaim(a.kind, j)
      BY <1>9, <2>1, <2>6, <3>3
    <3> QED
      BY <1>4, <1>14, <3>2, <3>4 DEF TrueClaim, Meaning, Call!Next, Call!Succeed, Call!Refuse,
         Call!GiveUp
  <2> QED
    BY <2>4, <2>5, <2>6 DEF Unanswered
<1> QED
  BY <1>10, <1>11, <1>12, <1>13, <1>14

\* Nobody has asked for anything when the chain starts.
LEMMA CallInit ==
    ASSUME ChainAssumption, Init, NEW j \in Jobs
    PROVE  Call(j)!Init
<1>1. Owner[j] \in Conns
  BY OwnerFacts
<1>2. conn[Owner[j]].pc = "none" /\ conn[Owner[j]].out = <<>> /\ done[j] = 0
  BY <1>1 DEF Init, NewConn
<1>3. Outcome(conn[Owner[j]], j) = "unsent"
  BY <1>2, OutcomeFacts DEF Unanswered
<1>4. Status(j) = "unsent"
  BY <1>3 DEF Status, Outcome
<1> QED
  BY <1>2, <1>4 DEF Call!Init

(* The chain implements the remote call, job by job: it goes from unsent   *)
(* to open and from there, once and for all, to done, refused or unknown;  *)
(* it acts once at most, and never on what it refused (protocol.py 15-39,  *)
(* service.py 29-41).                                                      *)
THEOREM ChainImplementsCall == Spec => CallSpec
<1>1. Init => \A j \in Jobs : Call(j)!Init
  BY ChainAssumption, CallInit
<1>2. Init => AllTrack
  BY ChainAssumption, TrackInit
<1>3. ChainInv /\ AllTrack /\ [Next]_vars => AllTrack'
  BY ChainAssumption, TrackStep
<1>4. ChainInv /\ ChainInv' /\ AllTrack /\ AllTrack' /\ [Next]_vars =>
          [\A j \in Jobs : Call(j)!Next \/ UNCHANGED Call(j)!vars]_vars
  BY ChainAssumption, CallStep
<1> QED
  BY <1>1, <1>2, <1>3, <1>4, ChainInvariant, PTL DEF Spec, CallSpec
=============================================================================
