---------------------------- MODULE NetLoopConns -----------------------------
(***************************************************************************)
(* The invariant of one connection of NetLoop, who may touch it (OwnerInv)  *)
(* and where its commands and replies are (FlowInv), and that every step    *)
(* about a descriptor keeps it.                                             *)
(***************************************************************************)
EXTENDS NetLoop, TLAPS

\* The step queues of an iteration.
LEMMA StepNames ==
    {Steps[i] : i \in DOMAIN Steps} = {"reject", "accept", "attach", "read", "process", "write", "close"}
<1>1. DOMAIN Steps = 1..7
  BY DEF Steps
<1>2. \A i \in 1..7 : Steps[i] \in {"reject", "accept", "attach", "read", "process", "write", "close"}
  BY DEF Steps
<1>3. /\ Steps[1] = "reject" /\ Steps[2] = "accept" /\ Steps[3] = "attach"
      /\ Steps[4] = "read" /\ Steps[5] = "process" /\ Steps[6] = "write" /\ Steps[7] = "close"
  BY Zenon DEF Steps
<1> QED
  BY <1>1, <1>2, <1>3

-----------------------------------------------------------------------------
(* Who may touch a connection.  l, s, w, k and c are the link, the stage, the *)
(* filter, the worker and the connection of one descriptor.                   *)

\* A descriptor that is not open has no connection, no filter, no worker and
\* no place in an iteration; one that is open is watched for reading unless
\* its connection is in background work, and then only the worker puts it back.
Owned(l, s, w, k, c) ==
    /\ l # "open" => s = "idle" /\ ~c.open /\ w = "none" /\ ~k
    /\ l = "open" /\ ~c.open => s \in {"idle", "accept", "reject"} /\ w = "read" /\ ~k
    /\ c.open =>
          /\ s # "reject"
          /\ c.bg = 0 => w = "read" /\ ~k /\ s # "attach"
          /\ c.bg # 0 => /\ ~c.closed /\ s \in {"idle", "accept", "attach"}
                         /\ w \in {"none", "write"}
                         /\ s # "idle" => w = "write"
                         /\ k => w = "none"
          /\ c.bg = 0 /\ s \in {"idle", "accept", "read"} => c.out = <<>> /\ ~c.closed

OwnerOf(fd) == Owned(link[fd], stage[fd], watch[fd], worker[fd], conn[fd])
OwnerInv == \A fd \in Fds : OwnerOf(fd)

(* Where the commands of a client are.                                        *)

\* The half commands of s follow p half commands that were sent before them.
Halves(s, p) == \A j \in 1 .. Len(s) : 2 * s[j] \in {p + j, p + j + 1}

\* The replies of s follow the reply to command n.
InOrder(s, n) == \A i \in 1 .. Len(s) : s[i] = n + i

\* Commands that are answered, that have their reply in the output buffer or
\* that are in background work.
Done(c, gt) == Len(gt) + Len(c.out) + (IF c.bg # 0 THEN 1 ELSE 0)

\* The replies that a client has, the replies in the output buffer, the command
\* in background work, the packet and the socket hold the commands in order.
\* Only a connection that is being closed may have dropped replies.
Flowing(l, s, c, gt, buf, cm) ==
    /\ InOrder(gt, 0)
    /\ l # "free" /\ ~c.open =>
          gt = <<>> /\ Halves(buf, 0) /\ Len(buf) = 2 * Len(cm)
    /\ c.open /\ s # "close" =>
          /\ InOrder(c.out, Len(gt))
          /\ c.bg # 0 => c.bg = Done(c, gt)
          /\ Halves(c.packet, 2 * Done(c, gt))
          /\ Halves(buf, 2 * Done(c, gt) + Len(c.packet))
          /\ 2 * Done(c, gt) + Len(c.packet) + Len(buf) = 2 * Len(cm)

FlowOf(fd) == Flowing(link[fd], stage[fd], conn[fd], got[fd], inbuf[fd], cmds[fd])
FlowInv == \A fd \in Fds : FlowOf(fd)

IInv == TypeOK /\ LimitKept /\ OwnerInv /\ FlowInv

-----------------------------------------------------------------------------
(* Connections.                                                              *)

\* A slot of the table holds a connection just when it is open.
LEMMA OpenTyped ==
    ASSUME TypeOK, NEW fd \in Fds
    PROVE  /\ conn[fd].open \in BOOLEAN
           /\ conn[fd].open => conn[fd] \in ConnType
           /\ ~conn[fd].open => conn[fd] = NoConn
<1>1. conn[fd] \in ConnType \cup {NoConn}
  BY Zenon DEF TypeOK
<1>2. CASE conn[fd] \in ConnType
  BY <1>2, Zenon DEF ConnType
<1>3. CASE conn[fd] = NoConn
  BY <1>3 DEF NoConn
<1> QED
  BY <1>1, <1>2, <1>3, Zenon

\* What the types say of one open connection.
LEMMA ConnFields ==
    ASSUME NEW c \in ConnType
    PROVE  /\ c.open = TRUE /\ c.closed \in BOOLEAN /\ c.tls \in BOOLEAN
           /\ c.out \in Seq(Nat) /\ c.packet \in Seq(Nat) /\ c.bg \in Nat
           /\ c = [open |-> TRUE, closed |-> c.closed, tls |-> c.tls, out |-> c.out,
                   packet |-> c.packet, bg |-> c.bg]
  BY Zenon DEF ConnType

\* What the types say of one descriptor.
LEMMA Typed ==
    ASSUME TypeOK, NEW fd \in Fds
    PROVE  /\ link[fd] \in {"free", "backlog", "open"} /\ port[fd] \in {"plain", "tls"}
           /\ cmds[fd] \in Seq(Kinds) /\ inbuf[fd] \in Seq(Nat) /\ hup[fd] \in BOOLEAN
           /\ got[fd] \in Seq(Nat) /\ home[fd] \in Threads
           /\ watch[fd] \in {"none", "read", "write"}
           /\ stage[fd] \in {"idle", "reject", "accept", "attach", "read", "process",
                             "write", "close"}
           /\ worker[fd] \in BOOLEAN /\ tlsfds[fd] \in Nat
  BY StepNames, Zenon DEF TypeOK

\* A new connection.
LEMMA NewConnTyped ==
    ASSUME NEW istls \in BOOLEAN
    PROVE  NewConn(istls) \in ConnType
<1>1. <<>> \in Seq(Nat)
  OBVIOUS
<1> QED
  BY <1>1, Zenon DEF NewConn, ConnType

\* The connection of fd becomes c, and the others stay.
Becomes(fd, c) == conn' = [conn EXCEPT ![fd] = c]

\* Assigning a connection or an empty slot to the slot of fd.
LEMMA BecomesFacts ==
    ASSUME TypeOK, NEW fd \in Fds, NEW c \in ConnType \cup {NoConn}, Becomes(fd, c)
    PROVE  /\ conn' \in [Fds -> ConnType \cup {NoConn}]
           /\ conn'[fd] = c
           /\ \A g \in Fds \ {fd} : conn'[g] = conn[g]
  BY Zenon DEF TypeOK, Becomes

\* The open connection d has these fields.
Has(d, closed, out, packet, bg) ==
    d \in ConnType /\ d.closed = closed /\ d.out = out /\ d.packet = packet /\ d.bg = bg

\* A stage after "accept", "attach" excepted, and "attach" are for connections.
LEMMA StageOpen ==
    ASSUME TypeOK, OwnerInv, NEW fd \in Fds,
           stage[fd] \in {"attach", "read", "process", "write", "close"}
    PROVE  conn[fd].open /\ conn[fd] \in ConnType /\ link[fd] = "open"
<1>1. OwnerOf(fd)
  BY Zenon DEF OwnerInv
<1> QED
  BY <1>1, OpenTyped, Typed, Zenon DEF OwnerOf, Owned

\* The connection of fd becomes d; those of other descriptors stay.
LEMMA BecomesHas ==
    ASSUME TypeOK, NEW fd \in Fds, NEW d, NEW closed, NEW out, NEW packet, NEW bg,
           Has(d, closed, out, packet, bg), Becomes(fd, d)
    PROVE  /\ conn' \in [Fds -> ConnType \cup {NoConn}]
           /\ Has(conn'[fd], closed, out, packet, bg)
           /\ \A g \in Fds \ {fd} : conn'[g] = conn[g]
<1>1. d \in ConnType \cup {NoConn}
  BY Zenon DEF Has
<1> QED
  BY <1>1, BecomesFacts, Zenon

-----------------------------------------------------------------------------
(* Half commands and replies.                                                *)

\* What appending one sequence of numbers to another gives.
LEMMA ConcatFacts ==
    ASSUME NEW a \in Seq(Nat), NEW b \in Seq(Nat)
    PROVE  /\ a \o b \in Seq(Nat) /\ Len(a \o b) = Len(a) + Len(b)
           /\ \A j \in 1 .. Len(a) : (a \o b)[j] = a[j]
           /\ \A j \in 1 .. Len(b) : (a \o b)[Len(a) + j] = b[j]
  OBVIOUS

\* The length of a sequence.
LEMMA LenNat ==
    ASSUME NEW S, NEW s \in Seq(S)
    PROVE  Len(s) \in Nat
  OBVIOUS

\* The number of the command whose halves are the half commands 2n + 1 and 2n + 2.
LEMMA HalfOf ==
    ASSUME NEW a \in Nat, NEW n \in Nat, 2 * a \in {2 * n + 1, 2 * n + 1 + 1}
    PROVE  a = n + 1
  BY SMTT(30)

\* What cutting a piece out of a sequence of numbers gives.
LEMMA SubSeqFacts ==
    ASSUME NEW s \in Seq(Nat), NEW m \in 1 .. Len(s) + 1, NEW n \in m - 1 .. Len(s)
    PROVE  /\ SubSeq(s, m, n) \in Seq(Nat) /\ Len(SubSeq(s, m, n)) = n - m + 1
           /\ \A j \in 1 .. n - m + 1 : SubSeq(s, m, n)[j] = s[m + j - 1]
<1>1. SubSeq(s, m, n) \in Seq(Nat)
  OBVIOUS
<1>2. Len(SubSeq(s, m, n)) = n - m + 1
  OBVIOUS
<1>3. \A j \in 1 .. n - m + 1 : SubSeq(s, m, n)[j] = s[m + j - 1]
  OBVIOUS
<1> QED
  BY <1>1, <1>2, <1>3, Zenon

\* Half commands behind half commands.
LEMMA HalvesConcat ==
    ASSUME NEW a \in Seq(Nat), NEW b \in Seq(Nat), NEW p \in Nat,
           Halves(a, p), Halves(b, p + Len(a))
    PROVE  Halves(a \o b, p)
<1> SUFFICES ASSUME NEW j \in 1 .. Len(a \o b)
             PROVE  2 * (a \o b)[j] \in {p + j, p + j + 1}
  BY Zenon DEF Halves
<1>1. Len(a \o b) = Len(a) + Len(b) /\ Len(a) \in Nat /\ Len(b) \in Nat
  BY ConcatFacts
<1>2. CASE j \in 1 .. Len(a)
  BY <1>2, ConcatFacts DEF Halves
<1>3. CASE j \notin 1 .. Len(a)
  <2>1. PICK i \in 1 .. Len(b) : j = Len(a) + i
    <3>1. j - Len(a) \in 1 .. Len(b) /\ j = Len(a) + (j - Len(a))
      BY <1>1, <1>3
    <3> QED
      BY <3>1, Zenon
  <2>2. (a \o b)[j] = b[i]
    BY <2>1, ConcatFacts, Zenon
  <2>3. 2 * b[i] \in {p + Len(a) + i, p + Len(a) + i + 1}
    BY Zenon DEF Halves
  <2> QED
    BY <2>1, <2>2, <2>3, <1>1
<1> QED
  BY <1>2, <1>3, Zenon

\* A part of some half commands.
LEMMA HalvesSub ==
    ASSUME NEW s \in Seq(Nat), NEW p \in Nat, Halves(s, p),
           NEW m \in 1 .. Len(s) + 1, NEW n \in m - 1 .. Len(s)
    PROVE  Halves(SubSeq(s, m, n), p + m - 1)
<1> SUFFICES ASSUME NEW j \in 1 .. Len(SubSeq(s, m, n))
             PROVE  2 * SubSeq(s, m, n)[j] \in {p + m - 1 + j, p + m - 1 + j + 1}
  BY Zenon DEF Halves
<1>1. j \in 1 .. n - m + 1 /\ SubSeq(s, m, n)[j] = s[m + j - 1]
  BY SubSeqFacts, Zenon
<1>3. m + j - 1 \in 1 .. Len(s)
  <2>1. Len(s) \in Nat
    BY LenNat, Zenon
  <2> QED
    BY <1>1, <2>1, SMTT(30)
<1>2. 2 * s[m + j - 1] \in {p + (m + j - 1), p + (m + j - 1) + 1}
  BY <1>3, Zenon DEF Halves
<1> QED
  BY <1>1, <1>2

\* A client sends the two halves of its next command.
LEMMA SendHalves ==
    ASSUME NEW s \in Seq(Nat), NEW p \in Nat, NEW n \in Nat,
           Halves(s, p), p + Len(s) = 2 * n
    PROVE  /\ s \o <<n + 1, n + 1>> \in Seq(Nat)
           /\ Len(s \o <<n + 1, n + 1>>) = Len(s) + 2
           /\ Halves(s \o <<n + 1, n + 1>>, p)
<1>1. /\ <<n + 1, n + 1>> \in Seq(Nat) /\ Len(<<n + 1, n + 1>>) = 2
      /\ <<n + 1, n + 1>>[1] = n + 1 /\ <<n + 1, n + 1>>[2] = n + 1
  OBVIOUS
<1>2. Halves(<<n + 1, n + 1>>, p + Len(s))
  <2> SUFFICES ASSUME NEW j \in {1, 2}
               PROVE  2 * <<n + 1, n + 1>>[j] \in {p + Len(s) + j, p + Len(s) + j + 1}
    BY <1>1 DEF Halves
  <2> QED
    BY <1>1
<1> QED
  BY <1>1, <1>2, ConcatFacts, HalvesConcat, Zenon

\* A read moves the first n half commands of the socket b to the packet a.
LEMMA ReadHalves ==
    ASSUME NEW a \in Seq(Nat), NEW b \in Seq(Nat), NEW p \in Nat, NEW n \in 1 .. Len(b),
           Halves(a, p), Halves(b, p + Len(a))
    PROVE  /\ a \o SubSeq(b, 1, n) \in Seq(Nat)
           /\ Len(a \o SubSeq(b, 1, n)) = Len(a) + n
           /\ Halves(a \o SubSeq(b, 1, n), p)
           /\ SubSeq(b, n + 1, Len(b)) \in Seq(Nat)
           /\ Len(SubSeq(b, n + 1, Len(b))) = Len(b) - n
           /\ Halves(SubSeq(b, n + 1, Len(b)), p + Len(a) + n)
<1>1. /\ Len(a) \in Nat /\ Len(b) \in Nat /\ n \in Nat /\ p + Len(a) \in Nat
      /\ 1 \in 1 .. Len(b) + 1 /\ n \in 1 - 1 .. Len(b)
      /\ n + 1 \in 1 .. Len(b) + 1 /\ Len(b) \in n + 1 - 1 .. Len(b)
  OBVIOUS
<1>2. /\ SubSeq(b, 1, n) \in Seq(Nat) /\ Len(SubSeq(b, 1, n)) = n
      /\ SubSeq(b, n + 1, Len(b)) \in Seq(Nat)
      /\ Len(SubSeq(b, n + 1, Len(b))) = Len(b) - n
  <2>1. /\ SubSeq(b, 1, n) \in Seq(Nat) /\ Len(SubSeq(b, 1, n)) = n - 1 + 1
    BY <1>1, SubSeqFacts, Zenon
  <2>2. /\ SubSeq(b, n + 1, Len(b)) \in Seq(Nat)
        /\ Len(SubSeq(b, n + 1, Len(b))) = Len(b) - (n + 1) + 1
    BY <1>1, SubSeqFacts
  <2> QED
    BY <1>1, <2>1, <2>2
<1>3. Halves(SubSeq(b, 1, n), p + Len(a) + 1 - 1)
  BY <1>1, HalvesSub, Zenon
<1>4. Halves(SubSeq(b, n + 1, Len(b)), p + Len(a) + (n + 1) - 1)
  <2>1. PICK m \in 1 .. Len(b) + 1 : m = n + 1 /\ Len(b) \in m - 1 .. Len(b)
    BY <1>1
  <2>2. Halves(SubSeq(b, m, Len(b)), p + Len(a) + m - 1)
    BY <1>1, <2>1, HalvesSub, Zenon
  <2> QED
    BY <2>1, <2>2, Zenon
<1>5. p + Len(a) + 1 - 1 = p + Len(a) /\ p + Len(a) + (n + 1) - 1 = p + Len(a) + n
  BY <1>1
<1>6. a \o SubSeq(b, 1, n) \in Seq(Nat) /\ Len(a \o SubSeq(b, 1, n)) = Len(a) + n
  BY <1>2, ConcatFacts
<1>7. Halves(a \o SubSeq(b, 1, n), p)
  BY <1>2, <1>3, <1>5, HalvesConcat, Zenon
<1> QED
  BY <1>2, <1>4, <1>5, <1>6, <1>7, Zenon

\* evdata takes a whole command off the packet: it is the next one.
LEMMA TakeHalves ==
    ASSUME NEW s \in Seq(Nat), NEW n \in Nat, Halves(s, 2 * n), Len(s) >= 2
    PROVE  /\ s[1] = n + 1
           /\ SubSeq(s, 3, Len(s)) \in Seq(Nat)
           /\ Len(SubSeq(s, 3, Len(s))) = Len(s) - 2
           /\ Halves(SubSeq(s, 3, Len(s)), 2 * (n + 1))
<1>1. 3 \in 1 .. Len(s) + 1 /\ Len(s) \in 3 - 1 .. Len(s) /\ 1 \in 1 .. Len(s) /\ Len(s) \in Nat
  OBVIOUS
<1>2. s[1] \in Nat /\ 2 * s[1] \in {2 * n + 1, 2 * n + 1 + 1}
  <2>1. s[1] \in Nat
    BY <1>1, SMTT(30)
  <2>2. 2 * s[1] \in {2 * n + 1, 2 * n + 1 + 1}
    BY <1>1, Zenon DEF Halves
  <2> QED
    BY <2>1, <2>2, Zenon
<1>3. s[1] = n + 1
  BY <1>2, HalfOf, Zenon
<1>4. SubSeq(s, 3, Len(s)) \in Seq(Nat) /\ Len(SubSeq(s, 3, Len(s))) = Len(s) - 3 + 1
  BY <1>1, SubSeqFacts, Zenon
<1>5. Halves(SubSeq(s, 3, Len(s)), 2 * n + 3 - 1)
  BY <1>1, HalvesSub
<1>6. 2 * n + 3 - 1 = 2 * (n + 1) /\ Len(s) - 3 + 1 = Len(s) - 2
  BY <1>1
<1> QED
  BY <1>3, <1>4, <1>5, <1>6, Zenon

\* A command leaves the packet and is counted as done.
LEMMA TakeSum ==
    ASSUME NEW d \in Nat, NEW x \in Nat
    PROVE  2 * (d + 1) + (x - 2) = 2 * d + x
  OBVIOUS

\* A reply is written behind those of the commands before it.
LEMMA AppendReply ==
    ASSUME NEW s \in Seq(Nat), NEW n \in Nat, InOrder(s, n)
    PROVE  /\ Append(s, n + Len(s) + 1) \in Seq(Nat)
           /\ Len(Append(s, n + Len(s) + 1)) = Len(s) + 1
           /\ InOrder(Append(s, n + Len(s) + 1), n)
  BY DEF InOrder

\* flush_conn sends the output buffer b behind the replies a.
LEMMA FlushReplies ==
    ASSUME NEW a \in Seq(Nat), NEW b \in Seq(Nat), InOrder(a, 0), InOrder(b, Len(a))
    PROVE  a \o b \in Seq(Nat) /\ Len(a \o b) = Len(a) + Len(b) /\ InOrder(a \o b, 0)
<1>1. a \o b \in Seq(Nat) /\ Len(a \o b) = Len(a) + Len(b)
  BY ConcatFacts, Zenon
<1>2. ASSUME NEW i \in 1 .. Len(a \o b)
      PROVE  (a \o b)[i] = 0 + i
  <2>1. CASE i \in 1 .. Len(a)
    BY <2>1, ConcatFacts, ZenonT(60) DEF InOrder
  <2>2. CASE i \notin 1 .. Len(a)
    <3>1. PICK j \in 1 .. Len(b) : i = Len(a) + j
      <4>1. i - Len(a) \in 1 .. Len(b) /\ i = Len(a) + (i - Len(a))
        BY <1>1, <2>2
      <4> QED
        BY <4>1, Zenon
    <3>2. (a \o b)[i] = b[j]
      BY <3>1, ConcatFacts, Zenon
    <3> QED
      BY <3>1, <3>2 DEF InOrder
  <2> QED
    BY <2>1, <2>2, Zenon
<1> QED
  BY <1>1, <1>2, Zenon DEF InOrder

-----------------------------------------------------------------------------
(* What the steps do to the connection.                                      *)

\* qattach, BGWORK(3).
LEMMA AttachEffect ==
    ASSUME TypeOK, OwnerInv, NEW fd \in Fds, NEW ok \in BOOLEAN, Attach(fd, ok)
    PROVE  /\ conn' \in [Fds -> ConnType \cup {NoConn}]
           /\ Has(conn'[fd], conn[fd].closed \/ ~ok, <<>>, conn[fd].packet, 0)
           /\ \A g \in Fds \ {fd} : conn'[g] = conn[g]
<1> DEFINE z == conn[fd].closed \/ ~ok
<1>1. conn[fd] \in ConnType
  BY StageOpen, Zenon DEF Attach, At
<1>2. <<>> \in Seq(Nat) /\ 0 \in Nat /\ z \in BOOLEAN
  OBVIOUS
<1>3. Becomes(fd, [conn[fd] EXCEPT !.bg = 0, !.out = <<>>, !.closed = z])
  BY Zenon DEF Attach, Becomes
<1> HIDE DEF z
<1>4. Has([conn[fd] EXCEPT !.bg = 0, !.out = <<>>, !.closed = z], z, <<>>, conn[fd].packet, 0)
  BY <1>1, <1>2, Zenon DEF ConnType, Has
<1>5. /\ conn' \in [Fds -> ConnType \cup {NoConn}]
      /\ Has(conn'[fd], z, <<>>, conn[fd].packet, 0)
      /\ \A g \in Fds \ {fd} : conn'[g] = conn[g]
  BY <1>3, <1>4, BecomesHas, Zenon
<1> QED
  BY <1>5, Zenon DEF z

\* qread: n half commands are appended to the packet.
LEMMA ReadEffect ==
    ASSUME TypeOK, OwnerInv, NEW fd \in Fds, NEW n \in 1 .. Len(inbuf[fd]), Read(fd, n)
    PROVE  /\ conn' \in [Fds -> ConnType \cup {NoConn}]
           /\ Has(conn'[fd], conn[fd].closed, conn[fd].out,
                  conn[fd].packet \o SubSeq(inbuf[fd], 1, n), conn[fd].bg)
           /\ \A g \in Fds \ {fd} : conn'[g] = conn[g]
<1> DEFINE p == conn[fd].packet \o SubSeq(inbuf[fd], 1, n)
<1>1. conn[fd] \in ConnType
  BY StageOpen, Zenon DEF Read, At
<1>2. p \in Seq(Nat)
  <2>1. conn[fd].packet \in Seq(Nat) /\ inbuf[fd] \in Seq(Nat)
    BY <1>1, ConnFields, Typed, Zenon
  <2>2. 1 \in 1 .. Len(inbuf[fd]) + 1 /\ n \in 1 - 1 .. Len(inbuf[fd])
    BY <2>1
  <2>3. SubSeq(inbuf[fd], 1, n) \in Seq(Nat)
    BY <2>1, <2>2, SubSeqFacts, Zenon
  <2> QED
    BY <2>1, <2>3, ConcatFacts, Zenon
<1>3. Becomes(fd, [conn[fd] EXCEPT !.packet = p])
  BY Zenon DEF Read, Becomes
<1> HIDE DEF p
<1>4. Has([conn[fd] EXCEPT !.packet = p], conn[fd].closed, conn[fd].out, p, conn[fd].bg)
  BY <1>1, <1>2, Zenon DEF ConnType, Has
<1>5. /\ conn' \in [Fds -> ConnType \cup {NoConn}]
      /\ Has(conn'[fd], conn[fd].closed, conn[fd].out, p, conn[fd].bg)
      /\ \A g \in Fds \ {fd} : conn'[g] = conn[g]
  BY <1>3, <1>4, BecomesHas, Zenon
<1> QED
  BY <1>5, Zenon DEF p

\* A whole command of the packet, and what is behind it.
LEMMA ParsedTyped ==
    ASSUME NEW fd \in Fds, conn[fd] \in ConnType, Parsed(fd)
    PROVE  Command(fd) \in Nat /\ Rest(fd) \in Seq(Nat) /\ ~conn[fd].closed
<1>1. conn[fd].packet \in Seq(Nat) /\ Len(conn[fd].packet) >= 2
  BY ConnFields, Zenon DEF Parsed
<1>2. 3 \in 1 .. Len(conn[fd].packet) + 1 /\ Len(conn[fd].packet) \in 3 - 1 .. Len(conn[fd].packet)
  BY <1>1
<1>3. Rest(fd) \in Seq(Nat)
  BY <1>1, <1>2, SubSeqFacts, Zenon DEF Rest
<1>4. ASSUME NEW s \in Seq(Nat), Len(s) >= 2
      PROVE  s[1] \in Nat
  BY <1>4
<1> QED
  BY <1>1, <1>3, <1>4, Zenon DEF Command, Parsed

\* evdata with a command that answers at once.
LEMMA EvCommandEffect ==
    ASSUME TypeOK, OwnerInv, NEW fd \in Fds, EvCommand(fd)
    PROVE  /\ conn' \in [Fds -> ConnType \cup {NoConn}]
           /\ Has(conn'[fd], cmds[fd][Command(fd)] = "quit",
                  Append(conn[fd].out, Command(fd)), Rest(fd), conn[fd].bg)
           /\ \A g \in Fds \ {fd} : conn'[g] = conn[g]
<1> DEFINE q == cmds[fd][Command(fd)] = "quit"
           o == Append(conn[fd].out, Command(fd))
<1>1. conn[fd] \in ConnType
  BY StageOpen, Zenon DEF EvCommand, At
<1>2. Rest(fd) \in Seq(Nat) /\ o \in Seq(Nat) /\ q \in BOOLEAN
  <2>1. Rest(fd) \in Seq(Nat) /\ Command(fd) \in Nat /\ conn[fd].out \in Seq(Nat)
    BY <1>1, ConnFields, ParsedTyped, Zenon DEF EvCommand
  <2> QED
    BY <2>1
<1>3. Becomes(fd, [conn[fd] EXCEPT !.packet = Rest(fd), !.out = o, !.closed = q])
  BY Zenon DEF EvCommand, Becomes
<1> HIDE DEF q, o
<1>4. Has([conn[fd] EXCEPT !.packet = Rest(fd), !.out = o, !.closed = q],
          q, o, Rest(fd), conn[fd].bg)
  BY <1>1, <1>2, Zenon DEF ConnType, Has
<1>5. /\ conn' \in [Fds -> ConnType \cup {NoConn}]
      /\ Has(conn'[fd], q, o, Rest(fd), conn[fd].bg)
      /\ \A g \in Fds \ {fd} : conn'[g] = conn[g]
  BY <1>3, <1>4, BecomesHas, Zenon
<1> QED
  BY <1>5, Zenon DEF q, o

\* evdata with a command that is handed to a background thread.
LEMMA EvBgworkEffect ==
    ASSUME TypeOK, OwnerInv, NEW fd \in Fds, NEW created \in BOOLEAN, EvBgwork(fd, created)
    PROVE  /\ conn' \in [Fds -> ConnType \cup {NoConn}]
           /\ Has(conn'[fd], conn[fd].closed, conn[fd].out, Rest(fd), Command(fd))
           /\ \A g \in Fds \ {fd} : conn'[g] = conn[g]
<1>1. conn[fd] \in ConnType
  BY StageOpen, Zenon DEF EvBgwork, At
<1>2. Rest(fd) \in Seq(Nat) /\ Command(fd) \in Nat
  BY <1>1, ParsedTyped, Zenon DEF EvBgwork
<1>3. Becomes(fd, [conn[fd] EXCEPT !.packet = Rest(fd), !.bg = Command(fd)])
  BY Zenon DEF EvBgwork, Becomes
<1>4. Has([conn[fd] EXCEPT !.packet = Rest(fd), !.bg = Command(fd)],
          conn[fd].closed, conn[fd].out, Rest(fd), Command(fd))
  BY <1>1, <1>2, Zenon DEF ConnType, Has
<1> QED
  BY <1>3, <1>4, BecomesHas, Zenon

\* qwrite.
LEMMA WriteEffect ==
    ASSUME TypeOK, OwnerInv, NEW fd \in Fds, NEW ok \in BOOLEAN, Write(fd, ok)
    PROVE  /\ conn' \in [Fds -> ConnType \cup {NoConn}]
           /\ Has(conn'[fd], conn[fd].closed \/ ~ok, <<>>, conn[fd].packet, conn[fd].bg)
           /\ \A g \in Fds \ {fd} : conn'[g] = conn[g]
<1> DEFINE z == conn[fd].closed \/ ~ok
<1>1. conn[fd] \in ConnType
  BY StageOpen, Zenon DEF Write, At
<1>2. <<>> \in Seq(Nat) /\ z \in BOOLEAN
  OBVIOUS
<1>3. Becomes(fd, [conn[fd] EXCEPT !.out = <<>>, !.closed = z])
  BY Zenon DEF Write, Becomes
<1> HIDE DEF z
<1>4. Has([conn[fd] EXCEPT !.out = <<>>, !.closed = z], z, <<>>, conn[fd].packet, conn[fd].bg)
  BY <1>1, <1>2, Zenon DEF ConnType, Has
<1>5. /\ conn' \in [Fds -> ConnType \cup {NoConn}]
      /\ Has(conn'[fd], z, <<>>, conn[fd].packet, conn[fd].bg)
      /\ \A g \in Fds \ {fd} : conn'[g] = conn[g]
  BY <1>3, <1>4, BecomesHas, Zenon
<1> QED
  BY <1>5, Zenon DEF z

\* qaccept with a new connection.
LEMMA OpenEffect ==
    ASSUME TypeOK, NEW fd \in Fds, Open(fd)
    PROVE  /\ conn' \in [Fds -> ConnType \cup {NoConn}]
           /\ Has(conn'[fd], FALSE, <<>>, <<>>, 0)
           /\ \A g \in Fds \ {fd} : conn'[g] = conn[g]
<1>1. (tlsfds[fd] > 0) \in BOOLEAN
  OBVIOUS
<1>2. NewConn(tlsfds[fd] > 0) \in ConnType
  BY <1>1, NewConnTyped, Zenon
<1>3. Has(NewConn(tlsfds[fd] > 0), FALSE, <<>>, <<>>, 0)
  BY <1>2, Zenon DEF Has, NewConn
<1>4. Becomes(fd, NewConn(tlsfds[fd] > 0))
  BY Zenon DEF Open, Becomes
<1> QED
  BY <1>3, <1>4, BecomesHas, Zenon

\* qclose.
LEMMA CloseEffect ==
    ASSUME TypeOK, NEW fd \in Fds, Close(fd)
    PROVE  /\ conn' \in [Fds -> ConnType \cup {NoConn}]
           /\ conn'[fd] = NoConn
           /\ \A g \in Fds \ {fd} : conn'[g] = conn[g]
  BY BecomesFacts, Zenon DEF Close, Becomes

-----------------------------------------------------------------------------
(* An action other than GetEvents is about one descriptor.                   *)

Acts(fd) ==
    \/ Client(fd)
    \/ Accept(fd) \/ AcceptFails(fd)
    \/ Handle(fd) \/ Bgwork(fd)

\* What the descriptors other than fd keep.
Others(fd) ==
    \A g \in Fds \ {fd} :
        /\ link'[g] = link[g] /\ stage'[g] = stage[g] /\ watch'[g] = watch[g]
        /\ worker'[g] = worker[g] /\ conn'[g] = conn[g]
        /\ got'[g] = got[g] /\ inbuf'[g] = inbuf[g] /\ cmds'[g] = cmds[g]

\* A step that is about fd leaves the other descriptors alone.
LEMMA OthersKept ==
    ASSUME TypeOK, NEW fd \in Fds, Acts(fd)
    PROVE  Others(fd)
<1> SUFFICES ASSUME NEW g \in Fds, g # fd
             PROVE  /\ link'[g] = link[g] /\ stage'[g] = stage[g] /\ watch'[g] = watch[g]
                    /\ worker'[g] = worker[g] /\ conn'[g] = conn[g]
                    /\ got'[g] = got[g] /\ inbuf'[g] = inbuf[g] /\ cmds'[g] = cmds[g]
  BY Zenon DEF Others
<1>1. CASE Client(fd)
  <2>1. CASE \E p \in Ports : Connect(fd, p)
    BY <2>1, ZenonT(60) DEF Connect, TypeOK
  <2>2. CASE \E k \in Kinds : Send(fd, k)
    BY <2>2, ZenonT(60) DEF Send, TypeOK
  <2>3. CASE Hangup(fd)
    BY <2>3, Zenon DEF Hangup, TypeOK
  <2> QED
    BY <1>1, <2>1, <2>2, <2>3, Zenon DEF Client
<1>2. CASE Accept(fd) \/ AcceptFails(fd)
  <2>1. CASE Accept(fd)
    BY <2>1, Zenon DEF Accept, TypeOK, client
  <2>2. CASE AcceptFails(fd)
    BY <2>2, Zenon DEF AcceptFails, TypeOK, client
  <2> QED
    BY <1>2, <2>1, <2>2, Zenon
<1>3. CASE Reject(fd) \/ TlsFails(fd) \/ GiveUp(fd) \/ Open(fd) \/ Dispatch(fd)
  BY <1>3 DEF Reject, TlsFails, GiveUp, Open, Dispatch, TypeOK, client
<1>4. CASE \E ok \in BOOLEAN : Attach(fd, ok) \/ Write(fd, ok)
  BY <1>4 DEF Attach, Write, Flush, TypeOK
<1>5. CASE \E n \in 1 .. Len(inbuf[fd]) : Read(fd, n)
  BY <1>5 DEF Read, TypeOK
<1>6. CASE ReadAgain(fd) \/ ReadFails(fd) \/ EvCommand(fd) \/ EvDone(fd)
  <2>1. CASE ReadAgain(fd)
    BY <2>1, ZenonT(60) DEF ReadAgain, TypeOK, client
  <2>4. CASE ReadFails(fd)
    BY <2>4, ZenonT(60) DEF ReadFails, TypeOK, client
  <2>2. CASE EvCommand(fd)
    BY <2>2, Zenon DEF EvCommand, TypeOK, client
  <2>3. CASE EvDone(fd)
    BY <2>3, Zenon DEF EvDone, TypeOK, client
  <2> QED
    BY <1>6, <2>1, <2>2, <2>3, <2>4, Zenon
<1>7. CASE \E created \in BOOLEAN : EvBgwork(fd, created)
  BY <1>7 DEF EvBgwork, TypeOK, client
<1>8. CASE Close(fd) \/ Bgwork(fd)
  BY <1>8 DEF Close, Bgwork, TypeOK, client
<1> QED
  BY <1>1, <1>2, <1>3, <1>4, <1>5, <1>6, <1>7, <1>8, Zenon DEF Acts, Handle

\* An invariant of each descriptor needs a look at fd only.
LEMMA OneDescriptor ==
    ASSUME OwnerInv, FlowInv, NEW fd \in Fds, Others(fd), OwnerOf(fd)', FlowOf(fd)'
    PROVE  OwnerInv' /\ FlowInv'
<1>1. ASSUME NEW g \in Fds, g # fd
      PROVE  OwnerOf(g)' /\ FlowOf(g)'
  <2>1. OwnerOf(g) /\ FlowOf(g)
    BY Zenon DEF OwnerInv, FlowInv
  <2> QED
    BY <1>1, <2>1, Zenon DEF Others, OwnerOf, FlowOf
<1> QED
  BY <1>1, Zenon DEF OwnerInv, FlowInv

-----------------------------------------------------------------------------
(* The next command of a connection.                                          *)

\* How many commands of a connection are done: each reply counts one, and the
\* command in background work one more.
LEMMA DoneTyped ==
    ASSUME NEW c \in ConnType, NEW gt \in Seq(Nat)
    PROVE  /\ Done(c, gt) \in Nat
           /\ c.bg = 0 => Done(c, gt) = Len(gt) + Len(c.out)
           /\ c.bg # 0 => Done(c, gt) = Len(gt) + Len(c.out) + 1
<1>1. Len(gt) \in Nat /\ Len(c.out) \in Nat
  BY ConnFields
<1>2. CASE c.bg = 0
  BY <1>1, <1>2 DEF Done
<1>3. CASE c.bg # 0
  BY <1>1, <1>3 DEF Done
<1> QED
  BY <1>2, <1>3, Zenon

\* The lengths that Flowing counts.
LEMMA FlowTyped ==
    ASSUME TypeOK, NEW fd \in Fds, conn[fd] \in ConnType
    PROVE  /\ inbuf[fd] \in Seq(Nat) /\ conn[fd].packet \in Seq(Nat)
           /\ got[fd] \in Seq(Nat) /\ conn[fd].out \in Seq(Nat)
           /\ Len(inbuf[fd]) \in Nat /\ Len(conn[fd].packet) \in Nat
           /\ Len(got[fd]) \in Nat /\ Len(conn[fd].out) \in Nat
           /\ Len(cmds[fd]) \in Nat
           /\ Done(conn[fd], got[fd]) \in Nat /\ 2 * Done(conn[fd], got[fd]) \in Nat
<1>1. /\ inbuf[fd] \in Seq(Nat) /\ conn[fd].packet \in Seq(Nat)
      /\ got[fd] \in Seq(Nat) /\ conn[fd].out \in Seq(Nat) /\ cmds[fd] \in Seq(Kinds)
  BY Typed, ConnFields, Zenon
<1>2. Done(conn[fd], got[fd]) \in Nat
  BY <1>1, DoneTyped, Zenon
<1>3. \A x \in Nat : 2 * x \in Nat
  OBVIOUS
<1>4. \A S : \A s \in Seq(S) : Len(s) \in Nat
  OBVIOUS
<1> QED
  BY <1>1, <1>2, <1>3, <1>4, Zenon

\* What is known of a connection that is open and not to be closed.
LEMMA FlowOpen ==
    ASSUME TypeOK, OwnerInv, FlowInv, NEW fd \in Fds,
           stage[fd] \in {"attach", "read", "process", "write"}
    PROVE  /\ conn[fd] \in ConnType /\ link[fd] = "open" /\ Done(conn[fd], got[fd]) \in Nat
           /\ InOrder(got[fd], 0) /\ InOrder(conn[fd].out, Len(got[fd]))
           /\ conn[fd].bg # 0 => conn[fd].bg = Done(conn[fd], got[fd])
           /\ Halves(conn[fd].packet, 2 * Done(conn[fd], got[fd]))
           /\ Halves(inbuf[fd], 2 * Done(conn[fd], got[fd]) + Len(conn[fd].packet))
           /\ 2 * Done(conn[fd], got[fd]) + Len(conn[fd].packet) + Len(inbuf[fd])
                = 2 * Len(cmds[fd])
<1>1. conn[fd] \in ConnType /\ conn[fd].open /\ link[fd] = "open"
  BY StageOpen, Zenon
<1>2. FlowOf(fd) /\ got[fd] \in Seq(Nat)
  BY Typed, Zenon DEF FlowInv
<1> QED
  BY <1>1, <1>2, DoneTyped, Zenon DEF FlowOf, Flowing

\* In qprocess a whole command of the packet is the one after those that were
\* answered, or whose reply is in the output buffer.
LEMMA NextCommand ==
    ASSUME TypeOK, OwnerInv, FlowInv, NEW fd \in Fds, stage[fd] = "process", Parsed(fd)
    PROVE  /\ conn[fd].bg = 0
           /\ Command(fd) = Done(conn[fd], got[fd]) + 1
           /\ Rest(fd) \in Seq(Nat) /\ Len(Rest(fd)) = Len(conn[fd].packet) - 2
           /\ Halves(Rest(fd), 2 * (Done(conn[fd], got[fd]) + 1))
<1>1. /\ conn[fd] \in ConnType /\ conn[fd].open /\ OwnerOf(fd)
      /\ Done(conn[fd], got[fd]) \in Nat
      /\ Halves(conn[fd].packet, 2 * Done(conn[fd], got[fd]))
  BY FlowOpen, StageOpen, Zenon DEF OwnerInv
<1>2. conn[fd].bg = 0
  BY <1>1, Zenon DEF OwnerOf, Owned
<1>3. conn[fd].packet \in Seq(Nat) /\ Len(conn[fd].packet) >= 2
  BY <1>1, ConnFields, Zenon DEF Parsed
<1> QED
  BY <1>1, <1>2, <1>3, TakeHalves, Zenon DEF Command, Rest

-----------------------------------------------------------------------------
(* OwnerInv is inductive.                                                     *)

\* A step of the owner of fd, of its worker or of its client leaves fd's
\* connection with one owner.
LEMMA OwnerKept ==
    ASSUME TypeOK, OwnerInv, FlowInv, NEW fd \in Fds, Acts(fd)
    PROVE  OwnerOf(fd)'
<1>0. /\ OwnerOf(fd) /\ link[fd] \in {"free", "backlog", "open"}
      /\ stage[fd] \in {"idle", "reject", "accept", "attach", "read", "process", "write", "close"}
      /\ watch[fd] \in {"none", "read", "write"} /\ worker[fd] \in BOOLEAN
      /\ conn[fd].open \in BOOLEAN
  BY Typed, OpenTyped, Zenon DEF OwnerInv
<1>1. ASSUME NEW p \in Ports, Connect(fd, p)
      PROVE  OwnerOf(fd)'
  <2>1. /\ link[fd] = "free" /\ link'[fd] = "backlog" /\ stage'[fd] = stage[fd]
        /\ watch'[fd] = watch[fd] /\ worker'[fd] = worker[fd] /\ conn'[fd] = conn[fd]
    BY <1>1, Zenon DEF Connect, TypeOK
  <2> QED
    BY <2>1, <1>0, Zenon DEF OwnerOf, Owned
<1>2. CASE (\E k \in Kinds : Send(fd, k)) \/ Hangup(fd)
  <2>1. /\ link'[fd] = link[fd] /\ stage'[fd] = stage[fd]
        /\ watch'[fd] = watch[fd] /\ worker'[fd] = worker[fd] /\ conn'[fd] = conn[fd]
    BY <1>2, Zenon DEF Send, Hangup
  <2> QED
    BY <2>1, <1>0, Zenon DEF OwnerOf
<1>3. CASE Accept(fd)
  <2>1. /\ link[fd] = "backlog" /\ link'[fd] = "open" /\ stage'[fd] = stage[fd]
        /\ watch'[fd] = "read" /\ worker'[fd] = worker[fd] /\ conn'[fd] = conn[fd]
    BY <1>3, Zenon DEF Accept, TypeOK
  <2> QED
    BY <2>1, <1>0, Zenon DEF OwnerOf, Owned
<1>4. CASE AcceptFails(fd)
  <2>1. /\ link[fd] = "backlog" /\ link'[fd] = "free" /\ stage'[fd] = stage[fd]
        /\ watch'[fd] = watch[fd] /\ worker'[fd] = worker[fd] /\ conn'[fd] = conn[fd]
    BY <1>4, Zenon DEF AcceptFails, TypeOK
  <2> QED
    BY <2>1, <1>0, Zenon DEF OwnerOf, Owned
<1>5. CASE Reject(fd) \/ TlsFails(fd)
  <2>1. /\ link'[fd] = link[fd] /\ stage[fd] = "accept" /\ stage'[fd] = "reject"
        /\ watch'[fd] = watch[fd] /\ worker'[fd] = worker[fd] /\ conn'[fd] = conn[fd]
        /\ ~conn[fd].open
    BY <1>5 DEF Reject, TlsFails, At, TypeOK
  <2> QED
    BY <2>1, <1>0, Zenon DEF OwnerOf, Owned
<1>6. CASE GiveUp(fd)
  <2>1. /\ link'[fd] = "free" /\ stage[fd] = "reject" /\ stage'[fd] = "idle"
        /\ watch'[fd] = "none" /\ worker'[fd] = worker[fd] /\ conn'[fd] = conn[fd]
    BY <1>6 DEF GiveUp, At, TypeOK
  <2> QED
    BY <2>1, <1>0, Zenon DEF OwnerOf, Owned
<1>7. CASE Open(fd)
  <2>1. /\ link'[fd] = link[fd] /\ stage[fd] = "accept" /\ stage'[fd] = "read"
        /\ watch'[fd] = watch[fd] /\ worker'[fd] = worker[fd] /\ ~conn[fd].open
    BY <1>7 DEF Open, At, TypeOK
  <2>2. /\ conn'[fd].open = TRUE /\ conn'[fd].closed = FALSE
        /\ conn'[fd].out = <<>> /\ conn'[fd].bg = 0
    BY <1>7, OpenEffect, ConnFields, Zenon DEF Has
  <2> QED
    BY <2>1, <2>2, <1>0, Zenon DEF OwnerOf, Owned
<1>8. CASE Dispatch(fd)
  <2>1. /\ link'[fd] = link[fd] /\ stage[fd] = "accept"
        /\ watch'[fd] = watch[fd] /\ worker'[fd] = worker[fd] /\ conn'[fd] = conn[fd]
        /\ conn[fd].open
    BY <1>8, Zenon DEF Dispatch, At
  <2>2. stage'[fd] = IF conn[fd].bg # 0 THEN "attach"
                     ELSE IF conn[fd].out # <<>> THEN "write"
                     ELSE IF conn[fd].closed THEN "close" ELSE "read"
    BY <1>8 DEF Dispatch, TypeOK
  <2> QED
    BY <2>1, <2>2, <1>0, Zenon DEF OwnerOf, Owned
<1>9. ASSUME NEW ok \in BOOLEAN, Attach(fd, ok)
      PROVE  OwnerOf(fd)'
  <2>1. /\ link'[fd] = link[fd] /\ stage[fd] = "attach" /\ watch'[fd] = "read"
        /\ worker'[fd] = worker[fd]
        /\ stage'[fd] = IF conn'[fd].closed THEN "close" ELSE "read"
    BY <1>9, Zenon DEF Attach, At, TypeOK
  <2>2. conn'[fd].open = TRUE /\ conn'[fd].out = <<>> /\ conn'[fd].bg = 0
    BY <1>9, AttachEffect, ConnFields, Zenon DEF Has
  <2>3. conn[fd].open /\ link[fd] = "open"
    BY <2>1, StageOpen, Zenon
  <2> QED
    BY <2>1, <2>2, <2>3, <1>0, Zenon DEF OwnerOf, Owned
<1>10. ASSUME NEW n \in 1 .. Len(inbuf[fd]), Read(fd, n)
       PROVE  OwnerOf(fd)'
  <2>1. /\ link'[fd] = link[fd] /\ stage[fd] = "read" /\ stage'[fd] = "process"
        /\ watch'[fd] = watch[fd] /\ worker'[fd] = worker[fd]
    BY <1>10, Zenon DEF Read, At, TypeOK
  <2>2. conn'[fd].open = TRUE /\ conn'[fd].bg = conn[fd].bg
    BY <1>10, ReadEffect, ConnFields, Zenon DEF Has
  <2>3. conn[fd].open /\ link[fd] = "open"
    BY <2>1, StageOpen, Zenon
  <2> QED
    BY <2>1, <2>2, <2>3, <1>0, Zenon DEF OwnerOf, Owned
<1>11. CASE ReadAgain(fd) \/ ReadFails(fd)
  <2>1. /\ link'[fd] = link[fd] /\ stage[fd] = "read" /\ stage'[fd] \in {"process", "close"}
        /\ watch'[fd] = watch[fd] /\ worker'[fd] = worker[fd] /\ conn'[fd] = conn[fd]
    BY <1>11 DEF ReadAgain, ReadFails, At, TypeOK
  <2>2. conn[fd].open /\ link[fd] = "open"
    BY <2>1, StageOpen, Zenon
  <2> QED
    BY <2>1, <2>2, <1>0, Zenon DEF OwnerOf, Owned
<1>12. CASE EvCommand(fd)
  <2>1. /\ link'[fd] = link[fd] /\ stage[fd] = "process" /\ stage'[fd] = "process"
        /\ watch'[fd] = watch[fd] /\ worker'[fd] = worker[fd]
    BY <1>12, Zenon DEF EvCommand, At
  <2>2. conn'[fd].open = TRUE /\ conn'[fd].bg = conn[fd].bg
    BY <1>12, EvCommandEffect, ConnFields, Zenon DEF Has
  <2>3. conn[fd].open /\ link[fd] = "open"
    BY <2>1, StageOpen, Zenon
  <2> QED
    BY <2>1, <2>2, <2>3, <1>0, Zenon DEF OwnerOf, Owned
<1>13. ASSUME NEW created \in BOOLEAN, EvBgwork(fd, created)
       PROVE  OwnerOf(fd)'
  <2>1. /\ link'[fd] = link[fd] /\ stage[fd] = "process" /\ stage'[fd] = "idle"
        /\ watch'[fd] = "none"
    BY <1>13 DEF EvBgwork, At, TypeOK
  <2>2. conn[fd].open /\ link[fd] = "open" /\ conn[fd] \in ConnType
    BY <2>1, StageOpen, Zenon
  <2>3. /\ conn'[fd].open = TRUE /\ conn'[fd].closed = FALSE /\ conn'[fd].bg = Command(fd)
    BY <1>13, <2>2, EvBgworkEffect, ConnFields, ParsedTyped, Zenon DEF Has, EvBgwork
  <2>4. Command(fd) # 0
    BY <1>13, <2>1, NextCommand, FlowOpen DEF EvBgwork
  <2> QED
    BY <2>1, <2>2, <2>3, <2>4, <1>0, Zenon DEF OwnerOf, Owned
<1>14. CASE EvDone(fd)
  <2>1. /\ link'[fd] = link[fd] /\ stage[fd] = "process"
        /\ stage'[fd] = IF conn[fd].out # <<>> THEN "write"
                        ELSE IF conn[fd].closed THEN "close" ELSE "idle"
        /\ watch'[fd] = watch[fd] /\ worker'[fd] = worker[fd] /\ conn'[fd] = conn[fd]
    BY <1>14, Zenon DEF EvDone, At, TypeOK
  <2>2. conn[fd].open /\ link[fd] = "open"
    BY <2>1, StageOpen, Zenon
  <2> QED
    BY <2>1, <2>2, <1>0, Zenon DEF OwnerOf, Owned
<1>15. CASE Bgwork(fd)
  <2>1. /\ link'[fd] = link[fd] /\ stage'[fd] = stage[fd] /\ watch'[fd] = "write"
        /\ worker[fd] /\ worker'[fd] = FALSE /\ conn'[fd] = conn[fd]
    BY <1>15 DEF Bgwork, TypeOK
  <2> QED
    BY <2>1, <1>0, Zenon DEF OwnerOf, Owned
<1>16. ASSUME NEW ok \in BOOLEAN, Write(fd, ok)
       PROVE  OwnerOf(fd)'
  <2>1. /\ link'[fd] = link[fd] /\ stage[fd] = "write" /\ watch'[fd] = watch[fd]
        /\ worker'[fd] = worker[fd]
        /\ stage'[fd] = IF conn'[fd].closed THEN "close" ELSE "idle"
    BY <1>16, Zenon DEF Write, At, TypeOK
  <2>2. conn'[fd].open = TRUE /\ conn'[fd].out = <<>> /\ conn'[fd].bg = conn[fd].bg
    BY <1>16, WriteEffect, ConnFields, ZenonT(60) DEF Has
  <2>3. conn[fd].open /\ link[fd] = "open"
    BY <2>1, StageOpen, Zenon
  <2> QED
    BY <2>1, <2>2, <2>3, <1>0 DEF OwnerOf, Owned
<1>17. CASE Close(fd)
  <2>1. /\ link'[fd] = "free" /\ stage[fd] = "close" /\ stage'[fd] = "idle"
        /\ watch'[fd] = "none" /\ worker'[fd] = worker[fd] /\ conn'[fd].open = FALSE
    BY <1>17, CloseEffect DEF Close, At, TypeOK, NoConn
  <2>2. conn[fd].open
    BY <2>1, StageOpen, Zenon
  <2> QED
    BY <2>1, <2>2, <1>0, Zenon DEF OwnerOf, Owned
<1> QED
  BY <1>1, <1>2, <1>3, <1>4, <1>5, <1>6, <1>7, <1>8, <1>9, <1>10, <1>11, <1>12, <1>13,
     <1>14, <1>15, <1>16, <1>17 DEF Acts, Client, Handle

-----------------------------------------------------------------------------
(* FlowInv is inductive.                                                      *)

\* The commands of fd stay where they are.
LEMMA FlowSame ==
    ASSUME NEW fd \in Fds, FlowOf(fd),
           conn'[fd] = conn[fd], got'[fd] = got[fd], inbuf'[fd] = inbuf[fd], cmds'[fd] = cmds[fd],
           link[fd] = "free" => link'[fd] = "free",
           stage[fd] = "close" => stage'[fd] = "close"
    PROVE  FlowOf(fd)'
  BY Zenon DEF FlowOf, Flowing

\* The commands of an open connection are where clause 3 of Flowing wants them,
\* d of them done.
LEMMA FlowNow ==
    ASSUME NEW fd \in Fds, NEW d, InOrder(got'[fd], 0), conn'[fd].open,
           Done(conn'[fd], got'[fd]) = d,
           InOrder(conn'[fd].out, Len(got'[fd])),
           conn'[fd].bg # 0 => conn'[fd].bg = d,
           Halves(conn'[fd].packet, 2 * d),
           Halves(inbuf'[fd], 2 * d + Len(conn'[fd].packet)),
           2 * d + Len(conn'[fd].packet) + Len(inbuf'[fd]) = 2 * Len(cmds'[fd])
    PROVE  FlowOf(fd)'
  BY Zenon DEF FlowOf, Flowing

\* What the types and the invariants say of fd, and of an empty sequence.
LEMMA FlowBase ==
    ASSUME TypeOK, OwnerInv, FlowInv, NEW fd \in Fds
    PROVE  /\ OwnerOf(fd) /\ FlowOf(fd) /\ InOrder(got[fd], 0)
           /\ inbuf[fd] \in Seq(Nat) /\ got[fd] \in Seq(Nat) /\ cmds[fd] \in Seq(Kinds)
           /\ <<>> \in Seq(Nat) /\ InOrder(<<>>, 0) /\ Halves(<<>>, 0) /\ Len(<<>>) = 0
<1>1. InOrder(<<>>, 0) /\ Halves(<<>>, 0) /\ Len(<<>>) = 0
  BY DEF InOrder, Halves
<1>2. OwnerOf(fd) /\ FlowOf(fd)
  BY Zenon DEF OwnerInv, FlowInv
<1>3. InOrder(got[fd], 0)
  BY <1>2, Zenon DEF FlowOf, Flowing
<1>4. inbuf[fd] \in Seq(Nat) /\ got[fd] \in Seq(Nat) /\ cmds[fd] \in Seq(Kinds)
  BY Typed, Zenon
<1>5. <<>> \in Seq(Nat)
  OBVIOUS
<1> QED
  BY <1>1, <1>2, <1>3, <1>4, <1>5, Zenon

\* A client sends a command.
LEMMA FlowSend ==
    ASSUME TypeOK, OwnerInv, FlowInv, NEW fd \in Fds,
           NEW k \in Kinds, Send(fd, k)
    PROVE  FlowOf(fd)'
<1> DEFINE D == Done(conn[fd], got[fd])
<1>0. /\ OwnerOf(fd) /\ FlowOf(fd) /\ InOrder(got[fd], 0)
      /\ inbuf[fd] \in Seq(Nat) /\ got[fd] \in Seq(Nat) /\ cmds[fd] \in Seq(Kinds)
      /\ <<>> \in Seq(Nat) /\ InOrder(<<>>, 0) /\ Halves(<<>>, 0) /\ Len(<<>>) = 0
  BY FlowBase, Zenon
<1> DEFINE n == Len(cmds[fd])
           b == inbuf[fd] \o <<n + 1, n + 1>>
<1>1. /\ conn'[fd] = conn[fd] /\ got'[fd] = got[fd] /\ stage'[fd] = stage[fd]
      /\ link'[fd] = link[fd] /\ inbuf'[fd] = b /\ cmds'[fd] = Append(cmds[fd], k)
      /\ link[fd] # "free"
  BY Zenon DEF Send, TypeOK
<1>2. n \in Nat /\ Len(cmds'[fd]) = n + 1
  BY <1>1, <1>0
<1>3. ASSUME NEW p \in Nat, Halves(inbuf[fd], p), p + Len(inbuf[fd]) = 2 * n
      PROVE  Halves(b, p) /\ p + Len(b) = 2 * Len(cmds'[fd])
  <2>1. Len(inbuf[fd]) \in Nat
    BY <1>0
  <2> HIDE DEF n
  <2>2. Len(b) = Len(inbuf[fd]) + 2 /\ Halves(b, p)
    BY <1>0, <1>2, <1>3, SendHalves, Zenon
  <2> HIDE DEF b
  <2> QED
    BY <2>1, <2>2, <1>2, <1>3
<1>4. CASE ~conn[fd].open
  <2>1. got[fd] = <<>> /\ Halves(inbuf[fd], 0) /\ Len(inbuf[fd]) = 2 * n
    BY <1>1, <1>4, <1>0, Zenon DEF FlowOf, Flowing
  <2>2. 0 + Len(inbuf[fd]) = 2 * n
    BY <2>1, <1>2
  <2> HIDE DEF n
  <2>3. Len(b) \in Nat
    BY <1>2, <1>0
  <2> HIDE DEF b
  <2>4. Halves(b, 0) /\ 0 + Len(b) = 2 * Len(cmds'[fd])
    BY <2>1, <2>2, <1>3, Zenon
  <2>5. Len(b) = 2 * Len(cmds'[fd])
    BY <2>3, <2>4
  <2> QED
    BY <2>1, <2>4, <2>5, <1>1, <1>4, <1>0, Zenon DEF FlowOf, Flowing
<1>5. CASE conn[fd].open /\ stage[fd] = "close"
  BY <1>1, <1>5, <1>0, Zenon DEF FlowOf, Flowing
<1>6. CASE conn[fd].open /\ stage[fd] # "close"
  <2> DEFINE q == 2 * D + Len(conn[fd].packet)
  <2>1. conn[fd] \in ConnType /\ conn[fd].packet \in Seq(Nat) /\ D \in Nat
    BY <1>6, <1>0, OpenTyped, ConnFields, DoneTyped, Zenon
  <2>2. q \in Nat
    BY <2>1
  <2>3. /\ InOrder(conn[fd].out, Len(got[fd])) /\ (conn[fd].bg # 0 => conn[fd].bg = D)
        /\ Halves(conn[fd].packet, 2 * D)
        /\ Halves(inbuf[fd], q) /\ q + Len(inbuf[fd]) = 2 * n
    BY <1>6, <1>0, Zenon DEF FlowOf, Flowing
  <2>4. Halves(b, q) /\ q + Len(b) = 2 * Len(cmds'[fd])
    BY <2>2, <2>3, <1>3, Zenon
  <2> HIDE DEF b, n, D
  <2> QED
    BY <2>3, <2>4, <1>1, <1>6, <1>0, FlowNow, Zenon DEF D
<1> QED
  BY <1>4, <1>5, <1>6, OpenTyped, Zenon

\* qaccept makes a connection of a descriptor.
LEMMA FlowAccepted ==
    ASSUME TypeOK, OwnerInv, FlowInv, NEW fd \in Fds,
           Open(fd)
    PROVE  FlowOf(fd)'
<1> DEFINE D == Done(conn[fd], got[fd])
<1>0. /\ OwnerOf(fd) /\ FlowOf(fd) /\ InOrder(got[fd], 0)
      /\ inbuf[fd] \in Seq(Nat) /\ got[fd] \in Seq(Nat) /\ cmds[fd] \in Seq(Kinds)
      /\ <<>> \in Seq(Nat) /\ InOrder(<<>>, 0) /\ Halves(<<>>, 0) /\ Len(<<>>) = 0
  BY FlowBase, Zenon
<1>1. /\ stage[fd] = "accept" /\ ~conn[fd].open
      /\ got'[fd] = got[fd] /\ inbuf'[fd] = inbuf[fd] /\ cmds'[fd] = cmds[fd]
  BY Zenon DEF Open, At, client
<1>2. link[fd] = "open"
  BY <1>1, <1>0, Zenon DEF OwnerOf, Owned
<1>3. got[fd] = <<>> /\ Halves(inbuf[fd], 0) /\ Len(inbuf[fd]) = 2 * Len(cmds[fd])
  BY <1>1, <1>2, <1>0, Zenon DEF FlowOf, Flowing
<1>4. /\ conn'[fd].open /\ conn'[fd] \in ConnType /\ conn'[fd].out = <<>>
      /\ conn'[fd].packet = <<>> /\ conn'[fd].bg = 0
  BY OpenEffect, ConnFields, Zenon DEF Has
<1>5. Done(conn'[fd], got'[fd]) = 0
  <2>1. Done(conn'[fd], got'[fd]) = Len(got'[fd]) + Len(conn'[fd].out)
    BY <1>1, <1>4, <1>0, DoneTyped, Zenon
  <2>2. Len(got'[fd]) = 0 /\ Len(conn'[fd].out) = 0
    BY <1>1, <1>3, <1>4, <1>0, Zenon
  <2> QED
    BY <2>1, <2>2
<1>6. 2 * 0 = 0 /\ 2 * 0 + 0 = 0 /\ 2 * 0 + 0 + Len(inbuf[fd]) = 2 * Len(cmds[fd])
  BY <1>3, <1>0
<1> QED
  BY <1>1, <1>3, <1>4, <1>5, <1>6, <1>0, FlowNow, Zenon

\* qattach answers the background command and flushes.
LEMMA FlowAttach ==
    ASSUME TypeOK, OwnerInv, FlowInv, NEW fd \in Fds,
           NEW ok \in BOOLEAN, Attach(fd, ok)
    PROVE  FlowOf(fd)'
<1> DEFINE D == Done(conn[fd], got[fd])
<1>0. /\ OwnerOf(fd) /\ FlowOf(fd) /\ InOrder(got[fd], 0)
      /\ inbuf[fd] \in Seq(Nat) /\ got[fd] \in Seq(Nat) /\ cmds[fd] \in Seq(Kinds)
      /\ <<>> \in Seq(Nat) /\ InOrder(<<>>, 0) /\ Halves(<<>>, 0) /\ Len(<<>>) = 0
  BY FlowBase, Zenon
<1> DEFINE o == Append(conn[fd].out, conn[fd].bg)
<1>1. /\ stage[fd] = "attach" /\ inbuf'[fd] = inbuf[fd] /\ cmds'[fd] = cmds[fd]
      /\ stage'[fd] = IF conn'[fd].closed THEN "close" ELSE "read"
      /\ got'[fd] = IF ok THEN got[fd] \o o ELSE got[fd]
  BY DEF Attach, Flush, At, TypeOK
<1>2. /\ conn'[fd] \in ConnType /\ conn'[fd].open /\ conn'[fd].out = <<>>
      /\ conn'[fd].bg = 0 /\ conn'[fd].packet = conn[fd].packet
      /\ ~ok => conn'[fd].closed
  <2>1. Has(conn'[fd], conn[fd].closed \/ ~ok, <<>>, conn[fd].packet, 0)
    BY AttachEffect, Zenon
  <2>2. conn'[fd] \in ConnType
    BY <2>1, Zenon DEF Has
  <2>3. conn'[fd].open
    BY <2>2, ConnFields, Zenon
  <2> QED
    BY <2>1, <2>3, Zenon DEF Has
<1>3. /\ conn[fd] \in ConnType /\ conn[fd].out \in Seq(Nat) /\ D \in Nat
      /\ InOrder(conn[fd].out, Len(got[fd])) /\ (conn[fd].bg # 0 => conn[fd].bg = D)
      /\ Halves(conn[fd].packet, 2 * D)
      /\ Halves(inbuf[fd], 2 * D + Len(conn[fd].packet))
      /\ 2 * D + Len(conn[fd].packet) + Len(inbuf[fd]) = 2 * Len(cmds[fd])
  BY <1>1, FlowOpen, ConnFields, Zenon
<1>4. CASE ~ok
  BY <1>1, <1>2, <1>4, <1>0, Zenon DEF FlowOf, Flowing
<1>5. CASE ok
  <2>1. conn[fd].bg # 0
    BY <1>1, <1>3, <1>0, ConnFields, Zenon DEF OwnerOf, Owned
  <2>2. D = Len(got[fd]) + Len(conn[fd].out) + 1
    BY <2>1, <1>3, <1>0, DoneTyped, Zenon
  <2>3. o \in Seq(Nat) /\ Len(o) = Len(conn[fd].out) + 1 /\ InOrder(o, Len(got[fd]))
    <3>1. Len(got[fd]) \in Nat /\ conn[fd].bg = Len(got[fd]) + Len(conn[fd].out) + 1
      <4>1. conn[fd].bg = D
        BY <2>1, <1>3, Zenon
      <4> HIDE DEF D
      <4> QED
        BY <4>1, <2>2, <1>3, FlowTyped, Zenon
    <3> QED
      BY <3>1, <1>3, AppendReply, Zenon
  <2> HIDE DEF o
  <2>4. got'[fd] \in Seq(Nat) /\ InOrder(got'[fd], 0) /\ Len(got'[fd]) = D
    <3>1. /\ got[fd] \o o \in Seq(Nat) /\ InOrder(got[fd] \o o, 0)
          /\ Len(got[fd] \o o) = Len(got[fd]) + Len(o)
      BY <2>3, <1>0, FlushReplies, Zenon
    <3>2. got'[fd] = got[fd] \o o
      BY <1>1, <1>5, Zenon
    <3>3. Len(got[fd]) + Len(o) = D
      <4>1. \A x, y \in Nat : x + (y + 1) = x + y + 1
        OBVIOUS
      <4>2. Len(got[fd]) \in Nat /\ Len(conn[fd].out) \in Nat
        BY <1>3, FlowTyped, Zenon
      <4>3. Len(got[fd]) + Len(o) = Len(got[fd]) + (Len(conn[fd].out) + 1)
        BY <2>3, Zenon
      <4>4. Len(got[fd]) + (Len(conn[fd].out) + 1) = Len(got[fd]) + Len(conn[fd].out) + 1
        BY <4>1, <4>2, Zenon
      <4> QED
        BY <4>3, <4>4, <2>2, Zenon
    <3> HIDE DEF D
    <3> QED
      BY <3>1, <3>2, <3>3, Zenon
  <2>5. Done(conn'[fd], got'[fd]) = D
    <3>1. Done(conn'[fd], got'[fd]) = Len(got'[fd]) + Len(conn'[fd].out)
      BY <2>4, <1>2, DoneTyped, Zenon
    <3>2. Len(conn'[fd].out) = 0
      BY <1>2, <1>0, Zenon
    <3> HIDE DEF D
    <3> QED
      BY <3>1, <3>2, <2>4, <1>3
  <2>6. InOrder(conn'[fd].out, Len(got'[fd]))
    BY <1>2 DEF InOrder
  <2> HIDE DEF D
  <2> QED
    BY <2>4, <2>5, <2>6, <1>1, <1>2, <1>3, FlowNow, Zenon
<1> QED
  BY <1>4, <1>5, Zenon

\* qwrite flushes.
LEMMA FlowWrite ==
    ASSUME TypeOK, OwnerInv, FlowInv, NEW fd \in Fds,
           NEW ok \in BOOLEAN, Write(fd, ok)
    PROVE  FlowOf(fd)'
<1> DEFINE D == Done(conn[fd], got[fd])
<1>0. /\ OwnerOf(fd) /\ FlowOf(fd) /\ InOrder(got[fd], 0)
      /\ inbuf[fd] \in Seq(Nat) /\ got[fd] \in Seq(Nat) /\ cmds[fd] \in Seq(Kinds)
      /\ <<>> \in Seq(Nat) /\ InOrder(<<>>, 0) /\ Halves(<<>>, 0) /\ Len(<<>>) = 0
  BY FlowBase, Zenon
<1>1. /\ stage[fd] = "write" /\ inbuf'[fd] = inbuf[fd] /\ cmds'[fd] = cmds[fd]
      /\ stage'[fd] = IF conn'[fd].closed THEN "close" ELSE "idle"
      /\ got'[fd] = IF ok THEN got[fd] \o conn[fd].out ELSE got[fd]
  BY DEF Write, Flush, At, TypeOK
<1>2. /\ conn'[fd] \in ConnType /\ conn'[fd].open /\ conn'[fd].out = <<>>
      /\ conn'[fd].bg = conn[fd].bg /\ conn'[fd].packet = conn[fd].packet
      /\ ~ok => conn'[fd].closed
  <2>1. Has(conn'[fd], conn[fd].closed \/ ~ok, <<>>, conn[fd].packet, conn[fd].bg)
    BY WriteEffect, Zenon
  <2>2. conn'[fd] \in ConnType
    BY <2>1, Zenon DEF Has
  <2>3. conn'[fd].open
    BY <2>2, ConnFields, Zenon
  <2> QED
    BY <2>1, <2>3, Zenon DEF Has
<1>3. /\ conn[fd] \in ConnType /\ conn[fd].out \in Seq(Nat) /\ D \in Nat
      /\ InOrder(conn[fd].out, Len(got[fd]))
      /\ Halves(conn[fd].packet, 2 * D)
      /\ Halves(inbuf[fd], 2 * D + Len(conn[fd].packet))
      /\ 2 * D + Len(conn[fd].packet) + Len(inbuf[fd]) = 2 * Len(cmds[fd])
  BY <1>1, FlowOpen, ConnFields, Zenon
<1>4. CASE ~ok
  BY <1>1, <1>2, <1>4, <1>0, Zenon DEF FlowOf, Flowing
<1>5. CASE ok
  <2>1. conn[fd].bg = 0
    BY <1>1, <1>3, <1>0, ConnFields, Zenon DEF OwnerOf, Owned
  <2>2. D = Len(got[fd]) + Len(conn[fd].out)
    BY <2>1, <1>3, <1>0, DoneTyped, Zenon
  <2>3. got'[fd] \in Seq(Nat) /\ InOrder(got'[fd], 0) /\ Len(got'[fd]) = D
    BY <2>2, <1>1, <1>3, <1>5, <1>0, FlushReplies
  <2>4. Done(conn'[fd], got'[fd]) = D
    <3>1. Done(conn'[fd], got'[fd]) = Len(got'[fd]) + Len(conn'[fd].out)
      BY <2>1, <2>3, <1>2, DoneTyped, Zenon
    <3>2. Len(conn'[fd].out) = 0
      BY <1>2, <1>0, Zenon
    <3> HIDE DEF D
    <3> QED
      BY <3>1, <3>2, <2>3, <1>3
  <2>5. InOrder(conn'[fd].out, Len(got'[fd]))
    BY <1>2 DEF InOrder
  <2> HIDE DEF D
  <2> QED
    BY <2>1, <2>3, <2>4, <2>5, <1>1, <1>2, <1>3, FlowNow, Zenon
<1> QED
  BY <1>4, <1>5, Zenon

\* qread moves bytes from the socket to the packet.
LEMMA FlowRead ==
    ASSUME TypeOK, OwnerInv, FlowInv, NEW fd \in Fds,
           NEW n \in 1 .. Len(inbuf[fd]), Read(fd, n)
    PROVE  FlowOf(fd)'
<1> DEFINE D == Done(conn[fd], got[fd])
<1>0. /\ OwnerOf(fd) /\ FlowOf(fd) /\ InOrder(got[fd], 0)
      /\ inbuf[fd] \in Seq(Nat) /\ got[fd] \in Seq(Nat) /\ cmds[fd] \in Seq(Kinds)
      /\ <<>> \in Seq(Nat) /\ InOrder(<<>>, 0) /\ Halves(<<>>, 0) /\ Len(<<>>) = 0
  BY FlowBase, Zenon
<1> DEFINE p == conn[fd].packet \o SubSeq(inbuf[fd], 1, n)
           b == SubSeq(inbuf[fd], n + 1, Len(inbuf[fd]))
<1>1. stage[fd] = "read" /\ inbuf'[fd] = b /\ cmds'[fd] = cmds[fd] /\ got'[fd] = got[fd]
  BY Zenon DEF Read, At, TypeOK
<1>2. /\ conn'[fd] \in ConnType /\ conn'[fd].open /\ conn'[fd].out = conn[fd].out
      /\ conn'[fd].bg = conn[fd].bg /\ conn'[fd].packet = p
  BY ReadEffect, ConnFields, Zenon DEF Has
<1>3. /\ conn[fd] \in ConnType
      /\ InOrder(conn[fd].out, Len(got[fd])) /\ (conn[fd].bg # 0 => conn[fd].bg = D)
      /\ Halves(conn[fd].packet, 2 * D)
      /\ Halves(inbuf[fd], 2 * D + Len(conn[fd].packet))
      /\ 2 * D + Len(conn[fd].packet) + Len(inbuf[fd]) = 2 * Len(cmds[fd])
  BY <1>1, FlowOpen, Zenon
<1>9. /\ inbuf[fd] \in Seq(Nat) /\ conn[fd].packet \in Seq(Nat) /\ 2 * D \in Nat
      /\ Len(inbuf[fd]) \in Nat /\ Len(conn[fd].packet) \in Nat
  BY <1>3, FlowTyped, Zenon
<1>4. Done(conn'[fd], got'[fd]) = D
  BY <1>1, <1>2, Zenon DEF Done
<1> HIDE DEF D
<1>5. PICK q \in Nat : q = 2 * D
  BY <1>9, Zenon
<1>6. /\ Len(p) = Len(conn[fd].packet) + n /\ Halves(p, q)
      /\ Len(b) = Len(inbuf[fd]) - n /\ Halves(b, q + Len(conn[fd].packet) + n)
  <2>1. Halves(conn[fd].packet, q) /\ Halves(inbuf[fd], q + Len(conn[fd].packet))
    BY <1>3, <1>5, Zenon
  <2>2. PICK x \in Seq(Nat), y \in Seq(Nat) : x = conn[fd].packet /\ y = inbuf[fd]
    BY <1>9, Zenon
  <2>3. Halves(x, q) /\ Halves(y, q + Len(x)) /\ n \in 1 .. Len(y)
    BY <2>1, <2>2, Zenon
  <2>4. /\ Len(x \o SubSeq(y, 1, n)) = Len(x) + n
        /\ Halves(x \o SubSeq(y, 1, n), q)
        /\ Len(SubSeq(y, n + 1, Len(y))) = Len(y) - n
        /\ Halves(SubSeq(y, n + 1, Len(y)), q + Len(x) + n)
    BY <2>3, ReadHalves
  <2> QED
    BY <2>4, <2>2, Zenon
<1> HIDE DEF p, b
<1>7. /\ 2 * D + Len(p) = q + Len(conn[fd].packet) + n
      /\ 2 * D + Len(p) + Len(b) = 2 * Len(cmds[fd])
  <2>1. \A x, y \in Nat : \A m \in 1 .. y :
            q + (x + m) = q + x + m /\ q + (x + m) + (y - m) = q + x + y
    OBVIOUS
  <2>2. /\ q + Len(p) = q + (Len(conn[fd].packet) + n)
        /\ q + Len(p) + Len(b) = q + (Len(conn[fd].packet) + n) + (Len(inbuf[fd]) - n)
    BY <1>6, Zenon
  <2>3. /\ q + Len(p) = q + Len(conn[fd].packet) + n
        /\ q + Len(p) + Len(b) = q + Len(conn[fd].packet) + Len(inbuf[fd])
    BY <2>1, <2>2, <1>9, ZenonT(60)
  <2> QED
    BY <2>3, <1>3, <1>5, Zenon
<1>8. Halves(p, 2 * D) /\ Halves(b, 2 * D + Len(p))
  BY <1>5, <1>6, <1>7, Zenon
<1> QED
  BY <1>1, <1>2, <1>3, <1>4, <1>7, <1>8, <1>0, FlowNow, Zenon

\* evdata answers a command.
LEMMA FlowCommand ==
    ASSUME TypeOK, OwnerInv, FlowInv, NEW fd \in Fds,
           EvCommand(fd)
    PROVE  FlowOf(fd)'
<1> DEFINE D == Done(conn[fd], got[fd])
<1>0. /\ OwnerOf(fd) /\ FlowOf(fd) /\ InOrder(got[fd], 0)
      /\ inbuf[fd] \in Seq(Nat) /\ got[fd] \in Seq(Nat) /\ cmds[fd] \in Seq(Kinds)
      /\ <<>> \in Seq(Nat) /\ InOrder(<<>>, 0) /\ Halves(<<>>, 0) /\ Len(<<>>) = 0
  BY FlowBase, Zenon
<1>1. /\ stage[fd] = "process" /\ inbuf'[fd] = inbuf[fd] /\ cmds'[fd] = cmds[fd]
      /\ got'[fd] = got[fd] /\ Parsed(fd)
  BY Zenon DEF EvCommand, At, client
<1>2. /\ conn'[fd] \in ConnType /\ conn'[fd].open
      /\ conn'[fd].out = Append(conn[fd].out, Command(fd))
      /\ conn'[fd].bg = conn[fd].bg /\ conn'[fd].packet = Rest(fd)
  BY EvCommandEffect, ConnFields, Zenon DEF Has
<1>3. /\ conn[fd] \in ConnType /\ conn[fd].out \in Seq(Nat) /\ D \in Nat
      /\ conn[fd].packet \in Seq(Nat)
      /\ InOrder(conn[fd].out, Len(got[fd]))
      /\ Halves(inbuf[fd], 2 * D + Len(conn[fd].packet))
      /\ 2 * D + Len(conn[fd].packet) + Len(inbuf[fd]) = 2 * Len(cmds[fd])
  BY <1>1, FlowOpen, ConnFields, Zenon
<1>4. /\ conn[fd].bg = 0 /\ Command(fd) = D + 1
      /\ Len(Rest(fd)) = Len(conn[fd].packet) - 2 /\ Halves(Rest(fd), 2 * (D + 1))
  BY <1>1, NextCommand, Zenon
<1>5. D = Len(got[fd]) + Len(conn[fd].out)
  BY <1>3, <1>4, <1>0, DoneTyped, Zenon
<1>6. /\ InOrder(conn'[fd].out, Len(got'[fd]))
      /\ Len(conn'[fd].out) = Len(conn[fd].out) + 1
  <2>1. Len(got[fd]) \in Nat /\ Command(fd) = Len(got[fd]) + Len(conn[fd].out) + 1
    BY <1>4, <1>5, <1>0
  <2>2. /\ Len(Append(conn[fd].out, Command(fd))) = Len(conn[fd].out) + 1
        /\ InOrder(Append(conn[fd].out, Command(fd)), Len(got[fd]))
    BY <2>1, <1>3, AppendReply, Zenon
  <2> QED
    BY <2>2, <1>1, <1>2, Zenon
<1>7. Len(got[fd]) \in Nat /\ Len(conn[fd].out) \in Nat /\ Len(conn[fd].packet) \in Nat
      /\ Len(inbuf[fd]) \in Nat
  BY <1>3, <1>0, LenNat, Zenon
<1>8. Done(conn'[fd], got'[fd]) = D + 1
  <2>1. Done(conn'[fd], got'[fd]) = Len(got'[fd]) + Len(conn'[fd].out)
    BY <1>1, <1>2, <1>4, <1>0, DoneTyped, ZenonT(60)
  <2>2. Len(got'[fd]) = Len(got[fd]) /\ Len(conn'[fd].out) = Len(conn[fd].out) + 1
    BY <1>1, <1>6, Zenon
  <2>3. \A a, b \in Nat : a + (b + 1) = (a + b) + 1
    OBVIOUS
  <2>4. Len(got'[fd]) + Len(conn'[fd].out) = Len(got[fd]) + (Len(conn[fd].out) + 1)
    BY <2>2, Zenon
  <2>5. Len(got[fd]) + (Len(conn[fd].out) + 1) = (Len(got[fd]) + Len(conn[fd].out)) + 1
    BY <2>3, <1>7, Zenon
  <2> QED
    BY <2>1, <2>4, <2>5, <1>5, Zenon
<1> HIDE DEF D
<1>9. /\ 2 * (D + 1) + Len(Rest(fd)) = 2 * D + Len(conn[fd].packet)
      /\ 2 * (D + 1) + Len(Rest(fd)) + Len(inbuf[fd]) = 2 * Len(cmds[fd])
  <2>1. 2 * (D + 1) + (Len(conn[fd].packet) - 2) = 2 * D + Len(conn[fd].packet)
    BY <1>3, <1>7, TakeSum, Zenon
  <2>2. 2 * (D + 1) + Len(Rest(fd)) = 2 * D + Len(conn[fd].packet)
    BY <2>1, <1>4, Zenon
  <2> QED
    BY <2>2, <1>3, Zenon
<1> QED
  BY <1>1, <1>2, <1>3, <1>4, <1>6, <1>8, <1>9, <1>0, FlowNow, Zenon

\* evdata hands a command to a background thread.
LEMMA FlowBgwork ==
    ASSUME TypeOK, OwnerInv, FlowInv, NEW fd \in Fds,
           NEW created \in BOOLEAN, EvBgwork(fd, created)
    PROVE  FlowOf(fd)'
<1> DEFINE D == Done(conn[fd], got[fd])
<1>0. /\ OwnerOf(fd) /\ FlowOf(fd) /\ InOrder(got[fd], 0)
      /\ inbuf[fd] \in Seq(Nat) /\ got[fd] \in Seq(Nat) /\ cmds[fd] \in Seq(Kinds)
      /\ <<>> \in Seq(Nat) /\ InOrder(<<>>, 0) /\ Halves(<<>>, 0) /\ Len(<<>>) = 0
  BY FlowBase, Zenon
<1>1. /\ stage[fd] = "process" /\ inbuf'[fd] = inbuf[fd] /\ cmds'[fd] = cmds[fd]
      /\ got'[fd] = got[fd] /\ Parsed(fd)
  BY Zenon DEF EvBgwork, At, client
<1>2. /\ conn'[fd] \in ConnType /\ conn'[fd].open /\ conn'[fd].out = conn[fd].out
      /\ conn'[fd].bg = Command(fd) /\ conn'[fd].packet = Rest(fd)
  BY EvBgworkEffect, ConnFields, Zenon DEF Has
<1>3. /\ conn[fd] \in ConnType /\ conn[fd].packet \in Seq(Nat) /\ D \in Nat
      /\ InOrder(conn[fd].out, Len(got[fd]))
      /\ Halves(inbuf[fd], 2 * D + Len(conn[fd].packet))
      /\ 2 * D + Len(conn[fd].packet) + Len(inbuf[fd]) = 2 * Len(cmds[fd])
  BY <1>1, FlowOpen, ConnFields, Zenon
<1>4. /\ conn[fd].bg = 0 /\ Command(fd) = D + 1
      /\ Len(Rest(fd)) = Len(conn[fd].packet) - 2 /\ Halves(Rest(fd), 2 * (D + 1))
  BY <1>1, NextCommand, Zenon
<1>5. D = Len(got[fd]) + Len(conn[fd].out)
  BY <1>3, <1>4, <1>0, DoneTyped, Zenon
<1>6. Len(conn[fd].packet) \in Nat /\ Len(inbuf[fd]) \in Nat
  BY <1>3, <1>0, LenNat, Zenon
<1>7. Done(conn'[fd], got'[fd]) = D + 1
  <2>1. conn'[fd].bg # 0
    BY <1>2, <1>3, <1>4
  <2>2. Done(conn'[fd], got'[fd]) = Len(got'[fd]) + Len(conn'[fd].out) + 1
    BY <2>1, <1>1, <1>2, <1>0, DoneTyped, Zenon
  <2> QED
    BY <2>2, <1>1, <1>2, <1>5, Zenon
<1> HIDE DEF D
<1>8. /\ 2 * (D + 1) + Len(Rest(fd)) = 2 * D + Len(conn[fd].packet)
      /\ 2 * (D + 1) + Len(Rest(fd)) + Len(inbuf[fd]) = 2 * Len(cmds[fd])
  <2>1. 2 * (D + 1) + (Len(conn[fd].packet) - 2) = 2 * D + Len(conn[fd].packet)
    BY <1>3, <1>6, TakeSum, Zenon
  <2>2. 2 * (D + 1) + Len(Rest(fd)) = 2 * D + Len(conn[fd].packet)
    BY <2>1, <1>4, Zenon
  <2> QED
    BY <2>2, <1>3, Zenon
<1> QED
  BY <1>1, <1>2, <1>3, <1>4, <1>7, <1>8, <1>0, FlowNow, ZenonT(60)

\* A step about fd keeps its commands in order.
LEMMA FlowKept ==
    ASSUME TypeOK, OwnerInv, FlowInv, NEW fd \in Fds, Acts(fd)
    PROVE  FlowOf(fd)'
<1>0. /\ OwnerOf(fd) /\ FlowOf(fd) /\ InOrder(got[fd], 0)
      /\ inbuf[fd] \in Seq(Nat) /\ got[fd] \in Seq(Nat) /\ cmds[fd] \in Seq(Kinds)
      /\ <<>> \in Seq(Nat) /\ InOrder(<<>>, 0) /\ Halves(<<>>, 0) /\ Len(<<>>) = 0
  BY FlowBase, Zenon
<1>1. ASSUME NEW p \in Ports, Connect(fd, p)
      PROVE  FlowOf(fd)'
  <2>1. /\ link[fd] = "free" /\ conn'[fd] = conn[fd]
        /\ got'[fd] = <<>> /\ inbuf'[fd] = <<>> /\ cmds'[fd] = <<>>
    BY <1>1, Zenon DEF Connect, TypeOK
  <2>2. ~conn[fd].open
    BY <2>1, <1>0, Zenon DEF OwnerOf, Owned
  <2> QED
    BY <2>1, <2>2, <1>0 DEF FlowOf, Flowing
<1>2. ASSUME NEW k \in Kinds, Send(fd, k)
      PROVE  FlowOf(fd)'
  BY <1>2, FlowSend, Zenon
<1>3. CASE Hangup(fd)
  BY <1>3, <1>0, FlowSame, Zenon DEF Hangup
<1>4. CASE Accept(fd) \/ AcceptFails(fd)
  <2>1. /\ link[fd] = "backlog" /\ stage'[fd] = stage[fd] /\ conn'[fd] = conn[fd]
        /\ got'[fd] = got[fd] /\ inbuf'[fd] = inbuf[fd] /\ cmds'[fd] = cmds[fd]
    BY <1>4, Zenon DEF Accept, AcceptFails, client
  <2> QED
    BY <2>1, <1>0, FlowSame, Zenon
<1>5. CASE Reject(fd) \/ TlsFails(fd) \/ Dispatch(fd) \/ ReadAgain(fd) \/ ReadFails(fd)
           \/ EvDone(fd) \/ GiveUp(fd)
  <2>1. /\ stage[fd] # "close" /\ conn'[fd] = conn[fd]
        /\ got'[fd] = got[fd] /\ inbuf'[fd] = inbuf[fd] /\ cmds'[fd] = cmds[fd]
        /\ link'[fd] \in {link[fd], "free"}
    BY <1>5, Zenon DEF Reject, TlsFails, Dispatch, ReadAgain, ReadFails, EvDone, GiveUp, At, client, TypeOK
  <2> QED
    BY <2>1, <1>0, FlowSame, Zenon
<1>6. CASE Bgwork(fd)
  BY <1>6, <1>0, FlowSame, Zenon DEF Bgwork, client
<1>7. CASE Open(fd)
  BY <1>7, FlowAccepted, Zenon
<1>8. CASE Close(fd)
  <2>1. /\ link'[fd] = "free" /\ got'[fd] = got[fd] /\ conn'[fd].open = FALSE
    BY <1>8, CloseEffect, Zenon DEF Close, client, TypeOK, NoConn
  <2> QED
    BY <2>1, <1>0, Zenon DEF FlowOf, Flowing
<1>9. ASSUME NEW ok \in BOOLEAN, Attach(fd, ok)
      PROVE  FlowOf(fd)'
  BY <1>9, FlowAttach, Zenon
<1>10. ASSUME NEW ok \in BOOLEAN, Write(fd, ok)
       PROVE  FlowOf(fd)'
  BY <1>10, FlowWrite, Zenon
<1>11. ASSUME NEW n \in 1 .. Len(inbuf[fd]), Read(fd, n)
       PROVE  FlowOf(fd)'
  BY <1>11, FlowRead
<1>12. CASE EvCommand(fd)
  BY <1>12, FlowCommand, Zenon
<1>13. ASSUME NEW created \in BOOLEAN, EvBgwork(fd, created)
       PROVE  FlowOf(fd)'
  BY <1>13, FlowBgwork, Zenon
<1> QED
  BY <1>1, <1>2, <1>3, <1>4, <1>5, <1>6, <1>7, <1>8, <1>9, <1>10, <1>11, <1>12, <1>13, Zenon
  DEF Acts, Client, Handle

-----------------------------------------------------------------------------
(* Connections that come and go.                                            *)

\* The connections that are being turned away.
Rejecting == {fd \in Fds : stage[fd] = "reject"}

\* A step about fd can only move fd in or out.
LEMMA OneCounted ==
    ASSUME TypeOK, NEW fd \in Fds, Others(fd)
    PROVE  /\ conn'[fd].open = conn[fd].open => Opened' = Opened
           /\ conn'[fd].open /\ ~conn[fd].open => Opened' = Opened \cup {fd} /\ fd \notin Opened
           /\ ~conn'[fd].open /\ conn[fd].open => Opened' = Opened \ {fd} /\ fd \in Opened
           /\ (stage'[fd] = "reject" <=> stage[fd] = "reject") => Rejecting' = Rejecting
           /\ stage'[fd] = "reject" /\ stage[fd] # "reject" =>
                Rejecting' = Rejecting \cup {fd} /\ fd \notin Rejecting
           /\ stage'[fd] # "reject" /\ stage[fd] = "reject" =>
                Rejecting' = Rejecting \ {fd} /\ fd \in Rejecting
<1>1. \A g \in Fds : g # fd => conn'[g].open = conn[g].open /\ stage'[g] = stage[g]
  BY Zenon DEF Others
<1>2. Opened' = {g \in Fds : conn'[g].open} /\ Rejecting' = {g \in Fds : stage'[g] = "reject"}
  BY Zenon DEF Opened, Rejecting
<1>3. /\ conn'[fd].open = conn[fd].open => Opened' = Opened
      /\ (stage'[fd] = "reject" <=> stage[fd] = "reject") => Rejecting' = Rejecting
  BY <1>1, <1>2 DEF Opened, Rejecting
<1>4. /\ conn'[fd].open /\ ~conn[fd].open => Opened' = Opened \cup {fd} /\ fd \notin Opened
      /\ ~conn'[fd].open /\ conn[fd].open => Opened' = Opened \ {fd} /\ fd \in Opened
  BY <1>1, <1>2 DEF Opened
<1>5. /\ stage'[fd] = "reject" /\ stage[fd] # "reject" =>
           Rejecting' = Rejecting \cup {fd} /\ fd \notin Rejecting
      /\ stage'[fd] # "reject" /\ stage[fd] = "reject" =>
           Rejecting' = Rejecting \ {fd} /\ fd \in Rejecting
  BY <1>1, <1>2 DEF Rejecting
<1> QED
  BY <1>3, <1>4, <1>5, Zenon

\* What a step about fd does to nconns and to the connections that it counts.
Coming(fd) ==
    \/ nconns' = nconns + 1 /\ Opened' = Opened /\ Rejecting' = Rejecting \cup {fd} /\ fd \notin Rejecting
    \/ nconns' = nconns - 1 /\ Opened' = Opened /\ Rejecting' = Rejecting \ {fd} /\ fd \in Rejecting
    \/ /\ nconns < MaxConns /\ nconns' = nconns + 1
       /\ Opened' = Opened \cup {fd} /\ fd \notin Opened /\ Rejecting' = Rejecting
    \/ nconns' = nconns - 1 /\ Opened' = Opened \ {fd} /\ fd \in Opened /\ Rejecting' = Rejecting
    \/ nconns' = nconns /\ Opened' = Opened /\ Rejecting' = Rejecting

\* Every step about fd counts what it opens, closes or turns away.
LEMMA Comings ==
    ASSUME TypeOK, OwnerInv, NEW fd \in Fds, Acts(fd)
    PROVE  Coming(fd)
<1>0. Others(fd) /\ conn[fd].open \in BOOLEAN
  BY OthersKept, OpenTyped, Zenon
<1>2. CASE Reject(fd) \/ TlsFails(fd)
  <2>1. /\ nconns' = nconns + 1 /\ conn'[fd] = conn[fd]
        /\ stage[fd] = "accept" /\ stage'[fd] = "reject"
    BY <1>2 DEF Reject, TlsFails, At, TypeOK
  <2>2. Opened' = Opened /\ Rejecting' = Rejecting \cup {fd} /\ fd \notin Rejecting
    BY <1>0, <2>1, OneCounted, Zenon
  <2> QED
    BY <2>1, <2>2, Zenon DEF Coming
<1>3. CASE GiveUp(fd)
  <2>1. /\ nconns' = nconns - 1 /\ conn'[fd] = conn[fd]
        /\ stage[fd] = "reject" /\ stage'[fd] = "idle"
    BY <1>3 DEF GiveUp, At, TypeOK
  <2>2. Opened' = Opened /\ Rejecting' = Rejecting \ {fd} /\ fd \in Rejecting
    BY <1>0, <2>1, OneCounted, Zenon
  <2> QED
    BY <2>1, <2>2, Zenon DEF Coming
<1>4. CASE Open(fd)
  <2>1. /\ nconns < MaxConns /\ nconns' = nconns + 1 /\ ~conn[fd].open
        /\ stage[fd] = "accept" /\ stage'[fd] = "read"
    BY <1>4 DEF Open, At, TypeOK
  <2>2. conn'[fd].open
    BY <1>4, OpenEffect, ConnFields, Zenon DEF Has
  <2>3. Rejecting' = Rejecting /\ Opened' = Opened \cup {fd} /\ fd \notin Opened
    BY <1>0, <2>1, <2>2, OneCounted, Zenon
  <2> QED
    BY <2>1, <2>3, Zenon DEF Coming
<1>5. CASE Close(fd)
  <2>1. /\ nconns' = nconns - 1 /\ stage[fd] = "close" /\ stage'[fd] = "idle"
    BY <1>5 DEF Close, At, TypeOK
  <2>2. conn[fd].open /\ ~conn'[fd].open
    BY <1>5, <2>1, StageOpen, CloseEffect DEF NoConn
  <2>3. Rejecting' = Rejecting /\ Opened' = Opened \ {fd} /\ fd \in Opened
    BY <1>0, <2>1, <2>2, OneCounted, Zenon
  <2> QED
    BY <2>1, <2>3, Zenon DEF Coming
<1>6. ASSUME nconns' = nconns, conn'[fd].open = conn[fd].open,
             stage'[fd] = "reject" <=> stage[fd] = "reject"
      PROVE  Coming(fd)
  <2>1. Opened' = Opened /\ Rejecting' = Rejecting
    BY <1>0, <1>6, OneCounted, Zenon
  <2> QED
    BY <1>6, <2>1, Zenon DEF Coming
<1>7. CASE Client(fd) \/ Accept(fd) \/ AcceptFails(fd) \/ Bgwork(fd)
  <2>1. nconns' = nconns /\ conn' = conn /\ stage' = stage
    BY <1>7 DEF Client, Connect, Send, Hangup, Accept, AcceptFails, Bgwork
  <2> QED
    BY <1>6, <2>1, Zenon
<1>8. CASE Dispatch(fd) \/ ReadAgain(fd) \/ ReadFails(fd) \/ EvDone(fd)
  <2>1. /\ nconns' = nconns /\ conn'[fd] = conn[fd] /\ stage[fd] # "reject"
        /\ stage'[fd] # "reject"
    <3>1. CASE Dispatch(fd)
      BY <3>1 DEF Dispatch, At, TypeOK
    <3>2. CASE EvDone(fd)
      BY <3>2, Zenon DEF EvDone, At, TypeOK
    <3>3. CASE ReadAgain(fd)
      BY <3>3, Zenon DEF ReadAgain, At, TypeOK
    <3>4. CASE ReadFails(fd)
      BY <3>4, Zenon DEF ReadFails, At, TypeOK
    <3> QED
      BY <1>8, <3>1, <3>2, <3>3, <3>4, Zenon
  <2> QED
    BY <1>6, <2>1, Zenon
<1>9. ASSUME NEW ok \in BOOLEAN, Attach(fd, ok) \/ Write(fd, ok)
      PROVE  Coming(fd)
  <2>1. /\ nconns' = nconns /\ stage[fd] \in {"attach", "write"} /\ stage'[fd] # "reject"
    BY <1>9 DEF Attach, Write, At, TypeOK
  <2>2. conn[fd].open = TRUE /\ conn'[fd].open = TRUE
    <3>1. CASE Attach(fd, ok)
      BY <2>1, <3>1, StageOpen, AttachEffect, ConnFields, Zenon DEF Has
    <3>2. CASE Write(fd, ok)
      BY <2>1, <3>2, StageOpen, WriteEffect, ConnFields, Zenon DEF Has
    <3> QED
      BY <1>9, <3>1, <3>2, Zenon
  <2> QED
    BY <1>6, <2>1, <2>2, Zenon
<1>10. ASSUME NEW n \in 1 .. Len(inbuf[fd]), Read(fd, n)
       PROVE  Coming(fd)
  <2>1. /\ nconns' = nconns /\ stage[fd] = "read" /\ stage'[fd] # "reject"
    BY <1>10 DEF Read, At, TypeOK
  <2>2. conn[fd].open = TRUE /\ conn'[fd].open = TRUE
    BY <1>10, <2>1, StageOpen, ReadEffect, ConnFields, Zenon DEF Has
  <2> QED
    BY <1>6, <2>1, <2>2, Zenon
<1>11. ASSUME EvCommand(fd) \/ \E created \in BOOLEAN : EvBgwork(fd, created)
       PROVE  Coming(fd)
  <2>1. /\ nconns' = nconns /\ stage[fd] = "process" /\ stage'[fd] # "reject"
    BY <1>11 DEF EvCommand, EvBgwork, At, TypeOK
  <2>2. conn[fd].open = TRUE /\ conn'[fd].open = TRUE
    BY <1>11, <2>1, StageOpen, EvCommandEffect, EvBgworkEffect, ConnFields, Zenon DEF Has
  <2> QED
    BY <1>6, <2>1, <2>2, Zenon
<1> QED
  BY <1>2, <1>3, <1>4, <1>5, <1>7, <1>8, <1>9, <1>10, <1>11, Zenon DEF Acts, Handle

-----------------------------------------------------------------------------
(* Types.                                                                     *)

\* A step about one descriptor keeps the types, nconns aside.
LEMMA TypeStep ==
    ASSUME TypeOK, OwnerInv, NEW fd \in Fds, Acts(fd), nconns' \in Nat
    PROVE  TypeOK'
<1> DEFINE S == {Steps[i] : i \in DOMAIN Steps} \cup {"idle"}
<1>12. "reject" \in S /\ "accept" \in S /\ "attach" \in S /\ "read" \in S /\ "process" \in S
      /\ "write" \in S /\ "close" \in S /\ "idle" \in S
  BY StepNames, Zenon
<1>0. /\ NThreads \in Nat \ {0} /\ MaxOpens \in Nat /\ Ports \subseteq {"plain", "tls"}
      /\ \A n \in Nat : n % NThreads \in Threads
  BY NetAssumption DEF NetAssumption, Threads
<1>1. ASSUME NEW p \in Ports, Connect(fd, p)
      PROVE  TypeOK'
  <2>1. <<>> \in Seq(Nat) /\ <<>> \in Seq(Kinds)
    OBVIOUS
  <2>2. opens' \in 0 .. MaxOpens
    BY <1>0, <1>1 DEF Connect, TypeOK
  <2> QED
    BY <1>0, <1>1, <2>1, <2>2, Zenon DEF Connect, TypeOK
<1>2. ASSUME NEW k \in Kinds, Send(fd, k)
      PROVE  TypeOK'
  <2>1. cmds[fd] \in Seq(Kinds) /\ inbuf[fd] \in Seq(Nat) /\ Len(cmds[fd]) \in Nat
    BY Typed
  <2>2. /\ Append(cmds[fd], k) \in Seq(Kinds)
        /\ inbuf[fd] \o <<Len(cmds[fd]) + 1, Len(cmds[fd]) + 1>> \in Seq(Nat)
    BY <2>1
  <2>3. /\ cmds' = [cmds EXCEPT ![fd] = Append(cmds[fd], k)]
        /\ inbuf' = [inbuf EXCEPT ![fd] =
                        inbuf[fd] \o <<Len(cmds[fd]) + 1, Len(cmds[fd]) + 1>>]
        /\ UNCHANGED <<link, port, hup, got, home, watch, stage, conn, worker,
                       nconns, tlsfds, next, opens>>
    BY <1>2, Zenon DEF Send
  <2>4. cmds' \in [Fds -> Seq(Kinds)] /\ inbuf' \in [Fds -> Seq(Nat)]
    BY <2>2, <2>3, Zenon DEF TypeOK
  <2> QED
    BY <2>3, <2>4, Zenon DEF TypeOK
<1>3. CASE Hangup(fd) \/ Bgwork(fd)
  <2>1. CASE Hangup(fd)
    BY <2>1, Zenon DEF Hangup, TypeOK
  <2>2. CASE Bgwork(fd)
    BY <2>2, Zenon DEF Bgwork, TypeOK, client
  <2> QED
    BY <1>3, <2>1, <2>2, Zenon
<1>4. CASE Accept(fd) \/ AcceptFails(fd)
  <2>1. next \in Nat /\ next + 1 \in Nat
    BY <1>0 DEF TypeOK, Threads
  <2>2. next % NThreads \in Threads /\ (next + 1) % NThreads \in Threads
    BY <1>0, <2>1, Zenon
  <2>3. CASE Accept(fd)
    <3>1. (IF port[fd] = "tls" THEN tlsfds[fd] + 1 ELSE tlsfds[fd]) \in Nat
      BY Typed
    <3>2. /\ link' = [link EXCEPT ![fd] = "open"] /\ next' = (next + 1) % NThreads
          /\ tlsfds' = [tlsfds EXCEPT ![fd] = IF port[fd] = "tls" THEN tlsfds[fd] + 1 ELSE tlsfds[fd]]
          /\ home' = [home EXCEPT ![fd] = next % NThreads] /\ watch' = [watch EXCEPT ![fd] = "read"]
          /\ UNCHANGED <<client, stage, conn, worker, nconns, opens>>
      BY <2>3, Zenon DEF Accept
    <3> QED
      BY <2>2, <3>1, <3>2, Zenon DEF TypeOK, client
  <2>4. CASE AcceptFails(fd)
    <3>1. next' \in Threads
      BY <2>2, <2>4, Zenon DEF AcceptFails, TypeOK
    <3> QED
      BY <2>4, <3>1, Zenon DEF AcceptFails, TypeOK, client
  <2> QED
    BY <1>4, <2>3, <2>4, Zenon
<1>5. CASE Reject(fd) \/ GiveUp(fd) \/ Dispatch(fd) \/ ReadAgain(fd) \/ ReadFails(fd) \/ EvDone(fd)
  <2>1. PICK s \in S : stage' = [stage EXCEPT ![fd] = s]
    <3>1. CASE Dispatch(fd)
      BY <3>1, <1>12, Zenon DEF Dispatch
    <3>2. CASE EvDone(fd)
      BY <3>2, <1>12, Zenon DEF EvDone
    <3> QED
      BY <1>5, <3>1, <3>2, <1>12, Zenon DEF Reject, GiveUp, ReadAgain, ReadFails
  <2>2. /\ UNCHANGED <<client, home, conn, worker, tlsfds, next, opens>>
        /\ link' = link \/ link' = [link EXCEPT ![fd] = "free"]
        /\ watch' = watch \/ watch' = [watch EXCEPT ![fd] = "none"]
    BY <1>5, Zenon DEF Reject, GiveUp, Dispatch, ReadAgain, ReadFails, EvDone
  <2>3. /\ link' \in [Fds -> {"free", "backlog", "open"}]
        /\ watch' \in [Fds -> {"none", "read", "write"}]
        /\ stage' \in [Fds -> S]
    BY <2>1, <2>2, ZenonT(60) DEF TypeOK
  <2> QED
    BY <2>2, <2>3, Zenon DEF TypeOK, client
<1>6. CASE TlsFails(fd) \/ Open(fd)
  <2>1. tlsfds' \in [Fds -> Nat]
    <3>1. PICK n \in Nat : tlsfds' = [tlsfds EXCEPT ![fd] = n]
      <4>1. /\ tlsfds[fd] \in Nat /\ (tlsfds[fd] > 0 => tlsfds[fd] - 1 \in Nat)
            /\ (IF tlsfds[fd] > 0 THEN tlsfds[fd] - 1 ELSE 0) \in Nat
        BY Typed
      <4> QED
        BY <1>6, <4>1, Zenon DEF TlsFails, Open
    <3> QED
      BY <3>1, Zenon DEF TypeOK
  <2>2. conn' \in [Fds -> ConnType \cup {NoConn}]
    BY <1>6, OpenEffect, Zenon DEF TlsFails, TypeOK
  <2>3. PICK s \in S : stage' = [stage EXCEPT ![fd] = s]
    BY <1>6, <1>12, Zenon DEF TlsFails, Open
  <2>4. stage' \in [Fds -> S]
    BY <2>3, Zenon DEF TypeOK
  <2>5. UNCHANGED <<link, client, home, watch, worker, next, opens>>
    BY <1>6 DEF TlsFails, Open
  <2> QED
    BY <2>1, <2>2, <2>4, <2>5, Zenon DEF TypeOK, client
<1>7. ASSUME NEW ok \in BOOLEAN, Attach(fd, ok) \/ Write(fd, ok)
      PROVE  TypeOK'
  <2>1. conn' \in [Fds -> ConnType \cup {NoConn}]
    BY <1>7, AttachEffect, WriteEffect
  <2>2. got' \in [Fds -> Seq(Nat)]
    <3>1. stage[fd] \in {"attach", "write"}
      BY <1>7 DEF Attach, Write, At
    <3>2. conn[fd].out \in Seq(Nat) /\ conn[fd].bg \in Nat /\ got[fd] \in Seq(Nat)
      BY <3>1, StageOpen, ConnFields, Typed, Zenon
    <3>3. /\ Append(conn[fd].out, conn[fd].bg) \in Seq(Nat)
          /\ got[fd] \o conn[fd].out \in Seq(Nat)
      <4>1. \A s \in Seq(Nat), n \in Nat : Append(s, n) \in Seq(Nat)
        OBVIOUS
      <4> QED
        BY <3>2, <4>1, ConcatFacts, Zenon
    <3>4. got[fd] \o Append(conn[fd].out, conn[fd].bg) \in Seq(Nat)
      BY <3>2, <3>3, ConcatFacts
    <3>5. \/ got' = got
          \/ got' = [got EXCEPT ![fd] = got[fd] \o conn[fd].out]
          \/ got' = [got EXCEPT ![fd] = got[fd] \o Append(conn[fd].out, conn[fd].bg)]
      BY <1>7, Zenon DEF Attach, Write, Flush
    <3> QED
      BY <3>3, <3>4, <3>5, ZenonT(60) DEF TypeOK
  <2>3. PICK s \in S : stage' = [stage EXCEPT ![fd] = s]
    BY <1>7, <1>12, Zenon DEF Attach, Write
  <2>4. stage' \in [Fds -> S]
    BY <2>3, Zenon DEF TypeOK
  <2>5. /\ UNCHANGED <<link, port, cmds, inbuf, hup, home, worker, tlsfds, next, opens>>
        /\ watch' = watch \/ watch' = [watch EXCEPT ![fd] = "read"]
    BY <1>7 DEF Attach, Write
  <2>6. watch' \in [Fds -> {"none", "read", "write"}]
    BY <2>5, Zenon DEF TypeOK
  <2> QED
    BY <2>1, <2>2, <2>4, <2>5, <2>6, Zenon DEF TypeOK
<1>8. ASSUME NEW n \in 1 .. Len(inbuf[fd]), Read(fd, n)
      PROVE  TypeOK'
  <2>1. conn' \in [Fds -> ConnType \cup {NoConn}]
    BY <1>8, ReadEffect
  <2>2. inbuf' \in [Fds -> Seq(Nat)]
    <3>1. PICK b \in Seq(Nat) : b = inbuf[fd]
      BY Typed, Zenon
    <3>2. n + 1 \in 1 .. Len(b) + 1 /\ Len(b) \in n + 1 - 1 .. Len(b)
      BY <3>1
    <3>3. SubSeq(b, n + 1, Len(b)) \in Seq(Nat)
      BY <3>2, SubSeqFacts
    <3>4. inbuf' = [inbuf EXCEPT ![fd] = SubSeq(b, n + 1, Len(b))]
      BY <1>8, <3>1, Zenon DEF Read
    <3> QED
      BY <3>3, <3>4, Zenon DEF TypeOK
  <2>3. stage' \in [Fds -> S]
    BY <1>8, <1>12, Zenon DEF Read, TypeOK
  <2> QED
    BY <1>8, <2>1, <2>2, <2>3, Zenon DEF Read, TypeOK
<1>9. CASE EvCommand(fd)
  <2>1. conn' \in [Fds -> ConnType \cup {NoConn}]
    BY <1>9, EvCommandEffect, Zenon
  <2> QED
    BY <1>9, <2>1, Zenon DEF EvCommand, TypeOK, client
<1>10. ASSUME NEW created \in BOOLEAN, EvBgwork(fd, created)
       PROVE  TypeOK'
  <2>1. conn' \in [Fds -> ConnType \cup {NoConn}]
    BY <1>10, EvBgworkEffect
  <2> QED
    BY <1>10, <2>1 DEF EvBgwork, TypeOK, client
<1>11. CASE Close(fd)
  <2>1. conn' \in [Fds -> ConnType \cup {NoConn}]
    BY <1>11, CloseEffect
  <2> QED
    BY <1>11, <2>1 DEF Close, TypeOK, client
<1> QED
  BY <1>1, <1>2, <1>3, <1>4, <1>5, <1>6, <1>7, <1>8, <1>9, <1>10, <1>11, Zenon
  DEF Acts, Client, Handle

=============================================================================
