------------------------------ MODULE LoadQueue ------------------------------
(***************************************************************************)
(* load() of save.c: one thread reads the blocks of a file and queues them,  *)
(* NProcs threads (thload) take the block queued last and store its entries. *)
(* One mutex guards the queue, one condition variable serves both sides;     *)
(* every broadcast but the reader's after a push follows an unlock and is a  *)
(* step of its own.                                                          *)
(***************************************************************************)
EXTENDS Integers, Sequences, FiniteSets
CONSTANTS N,        \* blocks in the file
          NProcs    \* threads, and places in the queue

ASSUME QueueHasRoom == NProcs \in Nat \ {0} /\ N \in Nat

VARIABLES kind,     \* block -> "good", "torn" or "bad"
          reader,   \* "read", "push", "wait", "stop", "tell", "join", "returned"
          next,     \* the block to read
          ok,       \* the reader's ok
          queue, donereading, failure,
          worker,   \* thread -> state and block
          stored, result

vars == <<kind, reader, next, ok, queue, donereading, failure, worker, stored,
          result>>
Threads == 1..NProcs
Ready == [st |-> "ready", block |-> 0]

Init ==
    /\ kind \in [1..N -> {"good", "torn", "bad"}]
    /\ reader = "read" /\ next = 1 /\ ok = TRUE
    /\ queue = <<>> /\ donereading = FALSE /\ failure = FALSE
    /\ worker = [i \in Threads |-> Ready]
    /\ stored = {} /\ result = "none"

\* pthread_cond_broadcast: whoever is in pthread_cond_wait runs again.
WokenReader == IF reader = "wait" THEN "push" ELSE reader
Woken == [i \in Threads |-> IF worker[i].st = "wait" THEN Ready ELSE worker[i]]

\* Threads w, of which thread i has come to state st.
Goto(w, i, st) == [w EXCEPT ![i].st = st]

\* The reader: a header, the data and the checksum; the end of the file; or a
\* short read, a missing tag or a bad checksum.
Read ==
    /\ reader = "read"
    /\ \/ next > N /\ reader' = "stop" /\ UNCHANGED ok
       \/ next <= N /\ kind[next] = "torn" /\ reader' = "stop" /\ ok' = FALSE
       \/ next <= N /\ kind[next] # "torn" /\ reader' = "push" /\ UNCHANGED ok
    /\ UNCHANGED <<kind, next, queue, donereading, failure, worker, stored, result>>

\* Under the lock: give up after a failure, wait while the queue is full, else
\* queue the block and wake everyone.
PushFails ==
    /\ reader = "push" /\ failure
    /\ reader' = "stop" /\ ok' = FALSE
    /\ UNCHANGED <<kind, next, queue, donereading, failure, worker, stored, result>>

PushWaits ==
    /\ reader = "push" /\ ~failure /\ Len(queue) = NProcs
    /\ reader' = "wait"
    /\ UNCHANGED <<kind, next, ok, queue, donereading, failure, worker, stored, result>>

Push ==
    /\ reader = "push" /\ ~failure /\ Len(queue) < NProcs
    /\ queue' = Append(queue, next)
    /\ next' = next + 1
    /\ reader' = "read" /\ worker' = Woken
    /\ UNCHANGED <<kind, ok, donereading, failure, stored, result>>

Stop ==
    /\ reader = "stop"
    /\ donereading' = TRUE /\ reader' = "tell"
    /\ UNCHANGED <<kind, next, ok, queue, failure, worker, stored, result>>

Tell ==
    /\ reader = "tell"
    /\ worker' = Woken /\ reader' = "join"
    /\ UNCHANGED <<kind, next, ok, queue, donereading, failure, stored, result>>

\* pthread_join of every thread, then the return value.
Return ==
    /\ reader = "join" /\ \A i \in Threads : worker[i].st = "ended"
    /\ reader' = "returned"
    /\ result' = IF ok /\ ~failure THEN "ok" ELSE "failed"
    /\ UNCHANGED <<kind, next, ok, queue, donereading, failure, worker, stored>>

\* A thread, under the lock: leave after a failure, take the block queued last,
\* leave when the reader is done, else wait.
LeaveFailed(i) ==
    /\ worker[i].st = "ready" /\ failure
    /\ worker' = Goto(worker, i, "leave")
    /\ UNCHANGED <<kind, reader, next, ok, queue, donereading, failure, stored, result>>

\* Mutant of Take: the first block is taken and the last one dropped.
TakeFirst(i) ==
    /\ worker[i].st = "ready" /\ ~failure /\ queue # <<>>
    /\ worker' = [worker EXCEPT ![i] = [st |-> "took", block |-> queue[1]]]
    /\ queue' = SubSeq(queue, 1, Len(queue) - 1)
    /\ UNCHANGED <<kind, reader, next, ok, donereading, failure, stored, result>>

Take(i) ==
    /\ worker[i].st = "ready" /\ ~failure /\ queue # <<>>
    /\ worker' = [worker EXCEPT ![i] = [st |-> "took", block |-> queue[Len(queue)]]]
    /\ queue' = SubSeq(queue, 1, Len(queue) - 1)
    /\ UNCHANGED <<kind, reader, next, ok, donereading, failure, stored, result>>

LeaveDone(i) ==
    /\ worker[i].st = "ready" /\ ~failure /\ queue = <<>> /\ donereading
    /\ worker' = Goto(worker, i, "leave")
    /\ UNCHANGED <<kind, reader, next, ok, queue, donereading, failure, stored, result>>

Wait(i) ==
    /\ worker[i].st = "ready" /\ ~failure /\ queue = <<>> /\ ~donereading
    /\ worker' = Goto(worker, i, "wait")
    /\ UNCHANGED <<kind, reader, next, ok, queue, donereading, failure, stored, result>>

\* Mutant of TellTook: no broadcast after a take.
TellTookSilent(i) ==
    /\ worker[i].st = "took"
    /\ worker' = Goto(worker, i, "load")
    /\ UNCHANGED <<kind, reader, next, ok, queue, donereading, failure, stored, result>>

\* Outside the lock: a broadcast after the take, then load_block.
TellTook(i) ==
    /\ worker[i].st = "took"
    /\ worker' = Goto(Woken, i, "load")
    /\ reader' = WokenReader
    /\ UNCHANGED <<kind, next, ok, queue, donereading, failure, stored, result>>

LoadBlock(i) ==
    /\ worker[i].st = "load"
    /\ IF kind[worker[i].block] = "good"
       THEN /\ stored' = stored \cup {worker[i].block}
            /\ worker' = [worker EXCEPT ![i] = Ready]
       ELSE /\ worker' = [worker EXCEPT ![i] = [st |-> "failed", block |-> 0]]
            /\ UNCHANGED stored
    /\ UNCHANGED <<kind, reader, next, ok, queue, donereading, failure, result>>

\* The failure is recorded under the lock, the last broadcast follows.
Fail(i) ==
    /\ worker[i].st = "failed"
    /\ failure' = TRUE
    /\ worker' = Goto(worker, i, "leave")
    /\ UNCHANGED <<kind, reader, next, ok, queue, donereading, stored, result>>

\* Mutant of Leave: no broadcast by a thread that leaves.
LeaveSilent(i) ==
    /\ worker[i].st = "leave"
    /\ worker' = Goto(worker, i, "ended")
    /\ UNCHANGED <<kind, reader, next, ok, queue, donereading, failure, stored, result>>

Leave(i) ==
    /\ worker[i].st = "leave"
    /\ worker' = Goto(Woken, i, "ended")
    /\ reader' = WokenReader
    /\ UNCHANGED <<kind, next, ok, queue, donereading, failure, stored, result>>

ReaderStep == Read \/ PushFails \/ PushWaits \/ Push \/ Stop \/ Tell \/ Return
WorkerStep(i) ==
    \/ LeaveFailed(i) \/ Take(i) \/ LeaveDone(i) \/ Wait(i) \/ TellTook(i)
    \/ LoadBlock(i) \/ Fail(i) \/ Leave(i)
Next == ReaderStep \/ \E i \in Threads : WorkerStep(i)
Spec == Init /\ [][Next]_vars

\* Every thread that can run is scheduled.
FairSpec == Spec /\ WF_vars(ReaderStep) /\ \A i \in Threads : WF_vars(WorkerStep(i))

-----------------------------------------------------------------------------
(* Properties *)

Queued == {queue[j] : j \in 1..Len(queue)}
Held == {worker[i].block : i \in {j \in Threads : worker[j].st \in {"took", "load"}}}

\* Every variable holds a value of its kind, the queue fits the array that load
\* allocates, and a thread has a block exactly between take and load_block.
TypeOK ==
    /\ kind \in [1..N -> {"good", "torn", "bad"}]
    /\ reader \in {"read", "push", "wait", "stop", "tell", "join", "returned"}
    /\ next \in 1..N + 1 /\ ok \in BOOLEAN
    /\ queue \in Seq(1..N) /\ Len(queue) <= NProcs
    /\ donereading \in BOOLEAN /\ failure \in BOOLEAN
    /\ worker \in [Threads -> [st : {"ready", "took", "load", "failed", "wait",
                                    "leave", "ended"}, block : 0..N]]
    /\ \A i \in Threads : worker[i].block # 0 <=> worker[i].st \in {"took", "load"}
    /\ stored \subseteq 1..N /\ result \in {"none", "ok", "failed"}

\* A block that was read is in one place: queued once, in the hands of one
\* thread, or stored; only a bad block is anywhere else (load, thload).
OnePlace ==
    /\ \A a, b \in 1..Len(queue) : a # b => queue[a] # queue[b]
    /\ \A i, j \in Threads : i # j /\ worker[i].block # 0 =>
           worker[i].block # worker[j].block
    /\ Queued \cap Held = {} /\ Queued \cap stored = {} /\ Held \cap stored = {}
    /\ \A n \in 1..next - 1 : kind[n] = "good" => n \in Queued \cup Held \cup stored

\* load() returns ok only after every block of the file is stored and none is
\* left in the queue or with a thread (ok && !failure after the joins).
OkMeansAll == result = "ok" => stored = 1..N

\* The reader's place, donereading, the return value and next agree.
ReaderInv ==
    /\ donereading <=> reader \in {"tell", "join", "returned"}
    /\ result # "none" <=> reader = "returned"
    /\ reader \in {"push", "wait"} => next <= N /\ kind[next] # "torn"
    /\ reader \in {"stop", "tell", "join", "returned"} /\ ok => next = N + 1
    /\ reader = "returned" => \A i \in Threads : worker[i].st = "ended"

\* Blocks come from the part of the file that was read.
BlockInv ==
    /\ \A n \in 1..N : n < next => kind[n] # "torn"
    /\ \A n \in Queued \cup Held \cup stored : n < next
    /\ \A n \in stored : kind[n] = "good"

\* A bad block that was taken is known to its thread and then to failure, and a
\* thread leaves only after a failure or when nothing is left to come.
FailInv ==
    LET failing == \E i \in Threads : worker[i].st = "failed" IN
    /\ \A n \in 1..N : n < next /\ kind[n] = "bad" =>
           n \in Queued \cup Held \/ failure \/ failing
    /\ ~ok \/ failure \/ failing => \E n \in 1..N : kind[n] # "good"
    /\ \A i \in Threads : worker[i].st \in {"leave", "ended"} =>
           failure \/ (donereading /\ queue = <<>>)

\* What makes OnePlace and OkMeansAll hold of load and its threads, an inductive
\* invariant.
LoadInv == ReaderInv /\ BlockInv /\ FailInv /\ OnePlace /\ OkMeansAll

\* A thread that sleeps in pthread_cond_wait has nothing to do, unless the
\* thread that made work for it has still to broadcast: the reader sleeps on a
\* full queue, a worker on an empty one that the reader may yet fill.
NoLostWakeup ==
    LET leaving == \E i \in Threads : worker[i].st = "leave"
        taking == \E i \in Threads : worker[i].st = "took" IN
    /\ reader = "wait" => (Len(queue) = NProcs \/ taking) /\ (~failure \/ leaving)
    /\ \A i \in Threads : worker[i].st = "wait" =>
           queue = <<>> /\ (~donereading \/ reader = "tell") /\ (~failure \/ leaving)

\* load() with its threads stores each block once, in some order, and returns
\* what LoadSpec says.
Load == INSTANCE LoadSpec
ImplementsLoad == Load!Spec

\* load() returns whatever the blocks are: the reader and the threads never wait
\* for one another for good.
LoadEnds == <>(result # "none")
=============================================================================
