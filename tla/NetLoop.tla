------------------------------- MODULE NetLoop -------------------------------
(***************************************************************************)
(* The event loop of src/net.c with the data handler of src/conn.c: the    *)
(* queue threads, the connections they own, and the background threads     *)
(* that commands such as SAVE or FLUSHALL hand a connection to.            *)
(*                                                                         *)
(* A queue thread waits for events and then runs the steps reset, accept,  *)
(* attach, read, process, write, close over the connections that had one.  *)
(* stage[fd] names the step queue that holds fd's connection; a connection *)
(* only moves to later queues, so a thread is at the earliest step that    *)
(* still holds one of its connections, and is waiting when none does.      *)
(*                                                                         *)
(* Bytes: a command i of a connection is the two half commands i, i, so    *)
(* that a read may end inside a command.  A reply is the number of its     *)
(* command.  A client that stops reading is not modelled: flush_conn       *)
(* retries on EAGAIN until everything is written.                          *)
(***************************************************************************)
EXTENDS Naturals, Sequences, FiniteSets

CONSTANTS
    Fds,          \* file descriptors of client sockets
    NThreads,     \* number of queue threads
    MaxConns,     \* --maxconns
    QueueSize,    \* --queuesize, events fetched at once
    Ports,        \* listeners in use: subset of {"plain", "tls"}
    Kinds,        \* subset of {"quick", "bg", "quit"}
    ThreadsFail,  \* pthread_create may fail
    MaxCmds,      \* bound: fd -> number of commands a client sends
    MaxOpens      \* bound: connections clients ever make

ASSUME NetAssumption ==
    /\ IsFiniteSet(Fds) /\ NThreads \in Nat \ {0} /\ MaxConns \in Nat
    /\ QueueSize \in Nat \ {0} /\ MaxCmds \in [Fds -> Nat] /\ MaxOpens \in Nat
    /\ Ports \subseteq {"plain", "tls"} /\ Kinds \subseteq {"quick", "bg", "quit"}
    /\ ThreadsFail \in BOOLEAN

VARIABLES
    link,    \* fd -> "free", "backlog" (not accepted yet) or "open"
    port,    \* fd -> the listener the client connected to
    cmds,    \* fd -> kinds of the commands the client has sent
    inbuf,   \* fd -> half commands in the socket, not read yet
    hup,     \* fd -> the client has closed its end
    got,     \* fd -> replies the client has received
    home,    \* fd -> queue thread whose event queue fd was added to
    watch,   \* fd -> "none", "read" or "write": its filter in that queue
    stage,   \* fd -> step queue of the current iteration, "idle" if none
    conn,    \* fd -> struct net_conn (with its struct conn), or NoConn
    worker,  \* fd -> a bgwork thread of its connection is running
    nconns,  \* connections counted against MaxConns
    tlsfds,  \* fd -> how often tls_ready_fds lists it
    next,    \* next_ctx_index
    opens    \* connections made so far

client == <<port, cmds, inbuf, hup, got>>
vars == <<link, client, home, watch, stage, conn, worker, nconns, tlsfds,
          next, opens>>

Threads == 0 .. NThreads - 1
NoConn == [open |-> FALSE]
NewConn(istls) == [open |-> TRUE, closed |-> FALSE, tls |-> istls,
                   out |-> <<>>, packet |-> <<>>, bg |-> 0]

(* The order in which qthread runs its steps.  "reject" is the middle of   *)
(* qaccept, between counting a connection and giving it up.                *)
Steps == <<"reject", "accept", "attach", "read", "process", "write", "close">>

(* The thread that owns fd has reached step s, and fd is queued for it.    *)
At(fd, s) ==
    /\ stage[fd] = s
    /\ \A g \in Fds : home[g] = home[fd] /\ stage[g] # "idle"
         => \E i, j \in DOMAIN Steps : Steps[i] = s /\ Steps[j] = stage[g] /\ i <= j

Waiting(t) == \A fd \in Fds : home[fd] = t => stage[fd] = "idle"

(* What the event queue of thread t reports, level triggered.              *)
Ready(t) ==
    {fd \in Fds : /\ link[fd] = "open" /\ home[fd] = t
                  /\ \/ watch[fd] = "read" /\ (inbuf[fd] # <<>> \/ hup[fd])
                     \/ watch[fd] = "write"}

Init ==
    /\ link = [fd \in Fds |-> "free"]
    /\ port = [fd \in Fds |-> "plain"]
    /\ cmds = [fd \in Fds |-> <<>>]
    /\ inbuf = [fd \in Fds |-> <<>>]
    /\ hup = [fd \in Fds |-> FALSE]
    /\ got = [fd \in Fds |-> <<>>]
    /\ home = [fd \in Fds |-> 0]
    /\ watch = [fd \in Fds |-> "none"]
    /\ stage = [fd \in Fds |-> "idle"]
    /\ conn = [fd \in Fds |-> NoConn]
    /\ worker = [fd \in Fds |-> FALSE]
    /\ nconns = 0 /\ next = 0 /\ opens = 0
    /\ tlsfds = [fd \in Fds |-> 0]

-----------------------------------------------------------------------------
(* Clients.                                                                *)

Connect(fd, p) ==
    /\ link[fd] = "free" /\ opens < MaxOpens
    /\ link' = [link EXCEPT ![fd] = "backlog"]
    /\ port' = [port EXCEPT ![fd] = p]
    /\ cmds' = [cmds EXCEPT ![fd] = <<>>]
    /\ inbuf' = [inbuf EXCEPT ![fd] = <<>>]
    /\ hup' = [hup EXCEPT ![fd] = FALSE]
    /\ got' = [got EXCEPT ![fd] = <<>>]
    /\ opens' = opens + 1
    /\ UNCHANGED <<home, watch, stage, conn, worker, nconns, tlsfds, next>>

Send(fd, k) ==
    /\ link[fd] # "free" /\ ~hup[fd] /\ Len(cmds[fd]) < MaxCmds[fd]
    /\ cmds' = [cmds EXCEPT ![fd] = Append(@, k)]
    /\ inbuf' = [inbuf EXCEPT ![fd] = @ \o <<Len(cmds[fd]) + 1, Len(cmds[fd]) + 1>>]
    /\ UNCHANGED <<link, port, hup, got, home, watch, stage, conn, worker,
                   nconns, tlsfds, next, opens>>

Hangup(fd) ==
    /\ link[fd] # "free" /\ ~hup[fd]
    /\ hup' = [hup EXCEPT ![fd] = TRUE]
    /\ UNCHANGED <<link, port, cmds, inbuf, got, home, watch, stage, conn,
                   worker, nconns, tlsfds, next, opens>>

-----------------------------------------------------------------------------
(* qaccept.  A listener's event needs no connection and touches no step    *)
(* queue of the thread, so it is an iteration of its own.                  *)

Accept(fd) ==
    /\ link[fd] = "backlog" /\ \E t \in Threads : Waiting(t)
    /\ link' = [link EXCEPT ![fd] = "open"]
    /\ tlsfds' = [tlsfds EXCEPT ![fd] = IF port[fd] = "tls" THEN @ + 1 ELSE @]
    /\ home' = [home EXCEPT ![fd] = next % NThreads]
    /\ next' = (next + 1) % NThreads
    /\ watch' = [watch EXCEPT ![fd] = "read"]
    /\ UNCHANGED <<client, stage, conn, worker, nconns, opens>>

(* setnonblock, setkeepalive, ... or addread fails: the socket is closed.  *)
AcceptFails(fd) ==
    /\ link[fd] = "backlog" /\ \E t \in Threads : Waiting(t)
    /\ link' = [link EXCEPT ![fd] = "free"]
    /\ next' \in {next, (next + 1) % NThreads}
    /\ UNCHANGED <<client, home, watch, stage, conn, worker, nconns, tlsfds,
                   opens>>

GetEvents(t) ==
    /\ Waiting(t) /\ Ready(t) # {}
    /\ \E evs \in SUBSET Ready(t) :
         /\ Cardinality(evs) <= QueueSize
         /\ evs = Ready(t) \/ Cardinality(evs) = QueueSize
         /\ stage' = [fd \in Fds |-> IF fd \in evs THEN "accept" ELSE stage[fd]]
    /\ UNCHANGED <<link, client, home, watch, conn, worker, nconns, tlsfds,
                   next, opens>>

(* Mutant of Reject: the rejected connection is not counted first.         *)
RejectUncounted(fd) ==
    /\ At(fd, "accept") /\ ~conn[fd].open
    /\ nconns >= MaxConns
    /\ stage' = [stage EXCEPT ![fd] = "reject"]
    /\ UNCHANGED <<link, client, home, watch, conn, worker, nconns, tlsfds, next, opens>>

(* The fetch_add has counted the connection; it is over the limit.         *)
Reject(fd) ==
    /\ At(fd, "accept") /\ ~conn[fd].open
    /\ nconns >= MaxConns
    /\ nconns' = nconns + 1
    /\ stage' = [stage EXCEPT ![fd] = "reject"]
    /\ UNCHANGED <<link, client, home, watch, conn, worker, tlsfds, next, opens>>

(* The listed fd is taken off tls_ready_fds, and tls_accept fails.         *)
TlsFails(fd) ==
    /\ At(fd, "accept") /\ ~conn[fd].open
    /\ nconns < MaxConns /\ tlsfds[fd] > 0
    /\ nconns' = nconns + 1
    /\ tlsfds' = [tlsfds EXCEPT ![fd] = @ - 1]
    /\ stage' = [stage EXCEPT ![fd] = "reject"]
    /\ UNCHANGED <<link, client, home, watch, conn, worker, next, opens>>

(* fetch_sub of the connection that was counted, and close(fd).            *)
GiveUp(fd) ==
    /\ At(fd, "reject")
    /\ nconns' = nconns - 1
    /\ link' = [link EXCEPT ![fd] = "free"]
    /\ watch' = [watch EXCEPT ![fd] = "none"]
    /\ stage' = [stage EXCEPT ![fd] = "idle"]
    /\ UNCHANGED <<client, home, conn, worker, tlsfds, next, opens>>

(* Mutant of Open: the limit is off by one.                                *)
OpenOneMore(fd) ==
    /\ At(fd, "accept") /\ ~conn[fd].open
    /\ nconns <= MaxConns
    /\ nconns' = nconns + 1
    /\ tlsfds' = [tlsfds EXCEPT ![fd] = IF @ > 0 THEN @ - 1 ELSE 0]
    /\ conn' = [conn EXCEPT ![fd] = NewConn(tlsfds[fd] > 0)]
    /\ stage' = [stage EXCEPT ![fd] = "read"]
    /\ UNCHANGED <<link, client, home, watch, worker, next, opens>>

(* del_tls_fd, conn_new, tls_accept, cmap_insert, evopened; the new        *)
(* connection is then queued for reading.                                  *)
Open(fd) ==
    /\ At(fd, "accept") /\ ~conn[fd].open
    /\ nconns < MaxConns
    /\ nconns' = nconns + 1
    /\ tlsfds' = [tlsfds EXCEPT ![fd] = IF @ > 0 THEN @ - 1 ELSE 0]
    /\ conn' = [conn EXCEPT ![fd] = NewConn(tlsfds[fd] > 0)]
    /\ stage' = [stage EXCEPT ![fd] = "read"]
    /\ UNCHANGED <<link, client, home, watch, worker, next, opens>>

(* An event of a known connection; BGWORK(2) is the first case.            *)
Dispatch(fd) ==
    /\ At(fd, "accept") /\ conn[fd].open
    /\ stage' = [stage EXCEPT ![fd] =
                    IF conn[fd].bg # 0 THEN "attach"
                    ELSE IF conn[fd].out # <<>> THEN "write"
                    ELSE IF conn[fd].closed THEN "close" ELSE "read"]
    /\ UNCHANGED <<link, client, home, watch, conn, worker, nconns, tlsfds,
                   next, opens>>

-----------------------------------------------------------------------------
(* flush_conn: everything is written, or the write fails because the       *)
(* client has gone, which closes the connection.                           *)
Flush(fd, out, ok) ==
    /\ ok \/ hup[fd]
    /\ got' = IF ok THEN [got EXCEPT ![fd] = @ \o out] ELSE got

(* Mutants of Attach: without the flush; and without reading at once.      *)
AttachUnflushed(fd, ok) ==
    /\ At(fd, "attach")
    /\ ok
    /\ conn' = [conn EXCEPT ![fd].bg = 0, ![fd].out = Append(@, conn[fd].bg)]
    /\ watch' = [watch EXCEPT ![fd] = "read"]
    /\ stage' = [stage EXCEPT ![fd] = "read"]
    /\ UNCHANGED <<link, client, home, worker, nconns, tlsfds, next, opens>>
AttachIdle(fd, ok) ==
    /\ At(fd, "attach")
    /\ Flush(fd, Append(conn[fd].out, conn[fd].bg), ok)
    /\ conn' = [conn EXCEPT ![fd].bg = 0, ![fd].out = <<>>, ![fd].closed = ~ok]
    /\ watch' = [watch EXCEPT ![fd] = "read"]
    /\ stage' = [stage EXCEPT ![fd] = IF conn'[fd].closed THEN "close" ELSE "idle"]
    /\ UNCHANGED <<link, port, cmds, inbuf, hup, home, worker, nconns, tlsfds,
                   next, opens>>

(* qattach, BGWORK(3): the done callback writes the reply, the connection  *)
(* is watched for reading again, flushed, and read at once, because        *)
(* commands may be left in its packet.                                     *)
Attach(fd, ok) ==
    /\ At(fd, "attach")
    /\ Flush(fd, Append(conn[fd].out, conn[fd].bg), ok)
    /\ conn' = [conn EXCEPT ![fd] = [conn[fd] EXCEPT !.bg = 0, !.out = <<>>, !.closed = @ \/ ~ok]]
    /\ watch' = [watch EXCEPT ![fd] = "read"]
    /\ stage' = [stage EXCEPT ![fd] = IF conn'[fd].closed THEN "close" ELSE "read"]
    /\ UNCHANGED <<link, port, cmds, inbuf, hup, home, worker, nconns, tlsfds,
                   next, opens>>

(* qread with some bytes: they are appended to what is left of the packet. *)
Read(fd, n) ==
    /\ At(fd, "read")
    /\ conn[fd].tls = (port[fd] = "tls")
    /\ conn' = [conn EXCEPT ![fd] = [conn[fd] EXCEPT !.packet = @ \o SubSeq(inbuf[fd], 1, n)]]
    /\ inbuf' = [inbuf EXCEPT ![fd] = SubSeq(@, n + 1, Len(@))]
    /\ stage' = [stage EXCEPT ![fd] = "process"]
    /\ UNCHANGED <<link, port, cmds, hup, got, home, watch, worker, nconns,
                   tlsfds, next, opens>>

(* EAGAIN: the data handler is still called, with an empty packet.         *)
ReadAgain(fd) ==
    /\ At(fd, "read")
    /\ inbuf[fd] = <<>> /\ ~hup[fd]
    /\ stage' = [stage EXCEPT ![fd] = "process"]
    /\ UNCHANGED <<link, client, home, watch, conn, worker, nconns, tlsfds,
                   next, opens>>

(* End of file, a reset, or a TLS read of bytes that are no TLS records.   *)
ReadFails(fd) ==
    /\ At(fd, "read")
    /\ hup[fd] \/ (conn[fd].tls /\ port[fd] # "tls" /\ inbuf[fd] # <<>>)
    /\ stage' = [stage EXCEPT ![fd] = "close"]
    /\ UNCHANGED <<link, client, home, watch, conn, worker, nconns, tlsfds,
                   next, opens>>

-----------------------------------------------------------------------------
(* qprocess and evdata: one step for each turn of the parse loop.          *)

Parsed(fd) == Len(conn[fd].packet) >= 2 /\ ~conn[fd].closed
Command(fd) == conn[fd].packet[1]
Rest(fd) == SubSeq(conn[fd].packet, 3, Len(conn[fd].packet))

(* A command that answers at once; "quit" also stands for what else closes *)
(* the connection: a protocol error, or any HTTP request.                  *)
EvCommand(fd) ==
    /\ At(fd, "process") /\ Parsed(fd)
    /\ cmds[fd][Command(fd)] # "bg"
    /\ conn' = [conn EXCEPT ![fd] =
            [conn[fd] EXCEPT !.packet = Rest(fd), !.out = Append(@, Command(fd)),
                      !.closed = cmds[fd][Command(fd)] = "quit"]]
    /\ UNCHANGED <<link, client, home, watch, stage, worker, nconns, tlsfds,
                   next, opens>>

(* Mutants of EvBgwork: without delread; and without leaving the loop.     *)
EvBgworkWatched(fd, created) ==
    /\ At(fd, "process") /\ Parsed(fd)
    /\ cmds[fd][Command(fd)] = "bg" /\ created
    /\ conn' = [conn EXCEPT ![fd].packet = Rest(fd), ![fd].bg = Command(fd)]
    /\ worker' = [worker EXCEPT ![fd] = created]
    /\ stage' = [stage EXCEPT ![fd] = "idle"]
    /\ UNCHANGED <<link, client, home, watch, nconns, tlsfds, next, opens>>
EvBgworkContinues(fd, created) ==
    /\ At(fd, "process") /\ Parsed(fd)
    /\ cmds[fd][Command(fd)] = "bg" /\ created
    /\ conn' = [conn EXCEPT ![fd].packet = Rest(fd), ![fd].bg = Command(fd)]
    /\ watch' = [watch EXCEPT ![fd] = "none"]
    /\ worker' = [worker EXCEPT ![fd] = created]
    /\ UNCHANGED <<link, client, home, stage, nconns, tlsfds, next, opens>>

(* net_conn_bgwork and BGWORK(0), (1): the connection leaves the event     *)
(* queue and this iteration; what is left of the packet is kept.  The test *)
(* of pthread_create against -1 never holds, as the function returns a     *)
(* positive error number: a failure is taken for a success.                *)
EvBgwork(fd, created) ==
    /\ At(fd, "process") /\ Parsed(fd)
    /\ cmds[fd][Command(fd)] = "bg"
    /\ created \/ ThreadsFail
    /\ conn' = [conn EXCEPT ![fd] = [conn[fd] EXCEPT !.packet = Rest(fd), !.bg = Command(fd)]]
    /\ watch' = [watch EXCEPT ![fd] = "none"]
    /\ worker' = [worker EXCEPT ![fd] = created]
    /\ stage' = [stage EXCEPT ![fd] = "idle"]
    /\ UNCHANGED <<link, client, home, nconns, tlsfds, next, opens>>

(* No complete command is left.                                            *)
EvDone(fd) ==
    /\ At(fd, "process") /\ ~Parsed(fd)
    /\ stage' = [stage EXCEPT ![fd] = IF conn[fd].out # <<>> THEN "write"
                                      ELSE IF conn[fd].closed THEN "close"
                                      ELSE "idle"]
    /\ UNCHANGED <<link, client, home, watch, conn, worker, nconns, tlsfds,
                   next, opens>>

(* The bgwork thread: its work is done, addwrite puts the connection back. *)
Bgwork(fd) ==
    /\ worker[fd]
    /\ worker' = [worker EXCEPT ![fd] = FALSE]
    /\ watch' = [watch EXCEPT ![fd] = "write"]
    /\ UNCHANGED <<link, client, home, stage, conn, nconns, tlsfds, next, opens>>

-----------------------------------------------------------------------------
(* qwrite *)
Write(fd, ok) ==
    /\ At(fd, "write")
    /\ Flush(fd, conn[fd].out, ok)
    /\ conn' = [conn EXCEPT ![fd] = [conn[fd] EXCEPT !.out = <<>>, !.closed = @ \/ ~ok]]
    /\ stage' = [stage EXCEPT ![fd] = IF conn'[fd].closed THEN "close" ELSE "idle"]
    /\ UNCHANGED <<link, port, cmds, inbuf, hup, home, watch, worker, nconns,
                   tlsfds, next, opens>>

(* qclose: evclosed, close, cmap_delete, conn_free.                        *)
Close(fd) ==
    /\ At(fd, "close")
    /\ conn' = [conn EXCEPT ![fd] = NoConn]
    /\ link' = [link EXCEPT ![fd] = "free"]
    /\ watch' = [watch EXCEPT ![fd] = "none"]
    /\ nconns' = nconns - 1
    /\ stage' = [stage EXCEPT ![fd] = "idle"]
    /\ UNCHANGED <<client, home, worker, tlsfds, next, opens>>

-----------------------------------------------------------------------------
Client(fd) ==
    \/ \E p \in Ports : Connect(fd, p)
    \/ \E k \in Kinds : Send(fd, k)
    \/ Hangup(fd)

(* What the owner of fd does with it in one iteration.                     *)
Handle(fd) ==
    \/ Reject(fd) \/ TlsFails(fd) \/ GiveUp(fd) \/ Open(fd) \/ Dispatch(fd)
    \/ \E ok \in BOOLEAN : Attach(fd, ok) \/ Write(fd, ok)
    \/ \E n \in 1 .. Len(inbuf[fd]) : Read(fd, n)
    \/ ReadAgain(fd) \/ ReadFails(fd)
    \/ EvCommand(fd) \/ EvDone(fd)
    \/ \E created \in BOOLEAN : EvBgwork(fd, created)
    \/ Close(fd)

Next ==
    \/ \E fd \in Fds : \/ Client(fd)
                       \/ Accept(fd) \/ AcceptFails(fd)
                       \/ Handle(fd) \/ Bgwork(fd)
    \/ \E t \in Threads : GetEvents(t)

Spec == Init /\ [][Next]_vars

(* A queue thread never stops in an iteration, is woken by its events, and *)
(* background work ends.  Clients owe nothing.                             *)
Fairness ==
    /\ \A fd \in Fds : WF_vars(Accept(fd) \/ AcceptFails(fd))
                       /\ WF_vars(Handle(fd)) /\ WF_vars(Bgwork(fd))
    /\ \A t \in Threads : WF_vars(GetEvents(t))

FairSpec == Spec /\ Fairness

-----------------------------------------------------------------------------
ConnType ==
    [open: {TRUE}, closed: BOOLEAN, tls: BOOLEAN, out: Seq(Nat),
     packet: Seq(Nat), bg: Nat]

TypeOK ==
    /\ link \in [Fds -> {"free", "backlog", "open"}]
    /\ port \in [Fds -> {"plain", "tls"}]
    /\ cmds \in [Fds -> Seq(Kinds)]
    /\ inbuf \in [Fds -> Seq(Nat)]
    /\ hup \in [Fds -> BOOLEAN]
    /\ got \in [Fds -> Seq(Nat)]
    /\ home \in [Fds -> Threads]
    /\ watch \in [Fds -> {"none", "read", "write"}]
    /\ stage \in [Fds -> {Steps[i] : i \in DOMAIN Steps} \cup {"idle"}]
    /\ conn \in [Fds -> ConnType \cup {NoConn}]
    /\ worker \in [Fds -> BOOLEAN]
    /\ nconns \in Nat /\ next \in Threads /\ opens \in 0 .. MaxOpens
    /\ tlsfds \in [Fds -> Nat]

(* The assertions of handle_read, qattach and bgwork.  A connection that   *)
(* is read has no reply waiting and no background work; delread, delwrite, *)
(* addread and addwrite find the filter they expect, whichever of the      *)
(* queue thread and the bgwork thread comes first.                         *)
Assertions ==
    \A fd \in Fds :
        /\ stage[fd] = "read" => conn[fd].out = <<>> /\ conn[fd].bg = 0
        /\ stage[fd] = "attach" => conn[fd].bg # 0 /\ watch[fd] = "write"
        /\ stage[fd] = "process" => watch[fd] = "read"
        /\ worker[fd] => watch[fd] = "none"

(* A bgwork thread uses its connection after the work: until then the      *)
(* queue thread neither touches nor frees the connection, not even when    *)
(* the client hangs up, and the descriptor is not given to another client. *)
WorkerKeepsConn ==
    \A fd \in Fds : worker[fd] =>
        conn[fd].open /\ conn[fd].bg # 0 /\ ~conn[fd].closed /\ stage[fd] = "idle"

(* A client gets the replies to its commands in the order it sent them,    *)
(* each once, however commands are split over reads, pipelined behind a    *)
(* background command or cut off by one that closes the connection.        *)
RepliesInOrder ==
    \A fd \in Fds : got[fd] = [i \in 1 .. Len(got[fd]) |-> i]

(* nconns counts the connections and the ones being turned away, with      *)
(* several threads counting; there are never more than MaxConns.           *)
Opened == {fd \in Fds : conn[fd].open}
LimitKept ==
    /\ nconns = Cardinality(Opened) + Cardinality({fd \in Fds : stage[fd] = "reject"})
    /\ Cardinality(Opened) <= MaxConns

(* Every command of a client that stays is answered, unless the server     *)
(* closes the connection: none is forgotten in the socket, in the packet   *)
(* behind a background command, or in the output buffer.                   *)
Answered ==
    \A fd \in Fds : \A i \in 1 .. MaxCmds[fd] :
        Len(cmds[fd]) >= i
            ~> (Len(got[fd]) >= i \/ hup[fd] \/ link[fd] = "free")
=============================================================================
