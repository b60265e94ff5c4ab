-------------------------- MODULE LoadQueueProofs --------------------------
(***************************************************************************)
(* Theorems about LoadQueue, for every number of blocks and threads.       *)
(***************************************************************************)
EXTENDS LoadQueue, TLAPS

USE QueueHasRoom

States == {"ready", "took", "load", "failed", "wait", "leave", "ended"}
Workers == [Threads -> [st : States, block : 0..N]]

\* A broadcast changes no block and no state but that of the sleepers.
LEMMA WokenType ==
    ASSUME TypeOK
    PROVE  /\ Woken \in Workers
           /\ \A i \in Threads :
                 /\ worker[i].st # "wait" => Woken[i] = worker[i]
                 /\ worker[i].st = "wait" => Woken[i].st = "ready"
                 /\ Woken[i].st # "wait" /\ Woken[i].block = worker[i].block
                 /\ Woken[i].st \in {"took", "load"} <=> worker[i].st \in {"took", "load"}
BY Zenon DEF TypeOK, Woken, Ready, Workers, States

\* A thread that changes its state keeps its block, and the others keep both.
LEMMA SetState ==
    ASSUME NEW w \in Workers, NEW i \in Threads, NEW s \in States
    PROVE  /\ Goto(w, i, s) \in Workers
           /\ \A j \in Threads : /\ Goto(w, i, s)[j].block = w[j].block
                                 /\ Goto(w, i, s)[j].st = IF j = i THEN s ELSE w[j].st
<1> DEFINE r == [w[i] EXCEPT !.st = s]
<1>1. w[i] \in [st : States, block : 0..N]
  BY Zenon DEF Workers
<1>2. r \in [st : States, block : 0..N] /\ r.st = s /\ r.block = w[i].block
  BY <1>1, Zenon
<1>3. Goto(w, i, s) = [w EXCEPT ![i] = r]
  BY Zenon DEF Workers, Goto
<1> HIDE DEF r
<1> QED
  BY <1>2, <1>3 DEF Workers

\* What Append and SubSeq do to the queue of blocks.
LEMMA QueueAppend ==
    ASSUME TypeOK, NEW b \in 1..N
    PROVE  /\ Append(queue, b) \in Seq(1..N)
           /\ Len(Append(queue, b)) = Len(queue) + 1
           /\ \A a \in 1..Len(queue) : Append(queue, b)[a] = queue[a]
           /\ Append(queue, b)[Len(queue) + 1] = b
BY DEF TypeOK

\* What SubSeq keeps of the front of a queue.
LEMMA FrontFacts ==
    ASSUME NEW q \in Seq(1..N), NEW m \in 0..Len(q)
    PROVE  /\ SubSeq(q, 1, m) \in Seq(1..N) /\ Len(SubSeq(q, 1, m)) = m
           /\ \A a \in 1..m : SubSeq(q, 1, m)[a] = q[a]
<1>1. SubSeq(q, 1, m) \in Seq(1..N)
  OBVIOUS
<1>2. Len(SubSeq(q, 1, m)) = m
  OBVIOUS
<1>3. \A a \in 1..m : SubSeq(q, 1, m)[a] = q[a]
  OBVIOUS
<1> QED
  BY <1>1, <1>2, <1>3, Zenon

\* What taking the last block leaves of the queue.
LEMMA QueueTail ==
    ASSUME TypeOK, queue # <<>>
    PROVE  /\ Len(queue) \in Nat \ {0}
           /\ queue[Len(queue)] \in 1..N
           /\ SubSeq(queue, 1, Len(queue) - 1) \in Seq(1..N)
           /\ Len(SubSeq(queue, 1, Len(queue) - 1)) = Len(queue) - 1
           /\ \A a \in 1..Len(queue) - 1 :
                 SubSeq(queue, 1, Len(queue) - 1)[a] = queue[a]
<1>1. queue \in Seq(1..N) /\ Len(queue) \in Nat \ {0} /\ queue[Len(queue)] \in 1..N
  BY DEF TypeOK
<1>2. Len(queue) - 1 \in 0..Len(queue)
  BY <1>1
<1> QED
  BY <1>1, <1>2, FrontFacts, Zenon

\* Every step of load and of thload keeps the types, and the queue within the
\* array that load allocated.
LEMMA TypeStep == TypeOK /\ LoadInv /\ [Next]_vars => TypeOK'
<1> SUFFICES ASSUME TypeOK, LoadInv, [Next]_vars PROVE TypeOK'
  BY Zenon
<1>w. worker \in Workers
  BY Zenon DEF TypeOK, Workers, States
<1> DEFINE held == \A j \in Threads : worker'[j].block # 0 <=> worker'[j].st \in {"took", "load"}
<1>1. CASE Read
  BY <1>1, Zenon DEF Read, TypeOK
<1>2. CASE PushFails \/ PushWaits
  BY <1>2, Zenon DEF PushFails, PushWaits, TypeOK
<1>3. CASE Push
  <2>1. next \in 1..N /\ next + 1 \in 1..N + 1
    BY <1>3 DEF Push, LoadInv, ReaderInv, TypeOK
  <2>2. queue' \in Seq(1..N) /\ Len(queue') <= NProcs
    BY <1>3, <2>1, QueueAppend DEF Push, TypeOK
  <2>3. worker' \in Workers /\ held
    BY <1>3, WokenType DEF Push, TypeOK
  <2> QED
    BY <1>3, <2>1, <2>2, <2>3, Zenon DEF Push, TypeOK, Workers, States
<1>4. CASE Stop
  BY <1>4, Zenon DEF Stop, TypeOK
<1>5. CASE Tell
  <2>1. worker' \in Workers /\ held
    BY <1>5, WokenType DEF Tell, TypeOK
  <2> QED
    BY <1>5, <2>1, Zenon DEF Tell, TypeOK, Workers, States
<1>6. CASE Return
  BY <1>6, Zenon DEF Return, TypeOK
<1>7. ASSUME NEW i \in Threads, LeaveFailed(i) \/ LeaveDone(i) \/ Wait(i) \/ Fail(i)
      PROVE TypeOK'
  <2>1. PICK s \in {"leave", "wait"} : worker' = Goto(worker, i, s)
    BY <1>7, Zenon DEF LeaveFailed, LeaveDone, Wait, Fail
  <2>2. worker[i].st \in {"ready", "failed"}
    BY <1>7, Zenon DEF LeaveFailed, LeaveDone, Wait, Fail
  <2>3. s \in States
    BY Zenon DEF States
  <2>4. worker' \in Workers /\ held
    <3>1. /\ worker' \in Workers
          /\ \A j \in Threads : /\ worker'[j].block = worker[j].block
                                /\ worker'[j].st = IF j = i THEN s ELSE worker[j].st
      BY <1>w, <2>1, <2>3, SetState
    <3> QED
      BY <2>2, <3>1, Zenon DEF TypeOK
  <2>5. UNCHANGED <<kind, reader, next, ok, queue, donereading, stored, result>>
        /\ failure' \in BOOLEAN
    BY <1>7, Zenon DEF LeaveFailed, LeaveDone, Wait, Fail, TypeOK
  <2> QED
    BY <2>4, <2>5, Zenon DEF TypeOK, Workers, States
<1>8. ASSUME NEW i \in Threads, Take(i) PROVE TypeOK'
  <2> DEFINE b == queue[Len(queue)]
  <2>1. /\ queue # <<>> /\ queue' = SubSeq(queue, 1, Len(queue) - 1)
        /\ worker' = [worker EXCEPT ![i] = [st |-> "took", block |-> b]]
        /\ UNCHANGED <<kind, reader, next, ok, donereading, failure, stored, result>>
    BY <1>8, Zenon DEF Take
  <2>2. b \in 1..N /\ queue' \in Seq(1..N) /\ Len(queue') = Len(queue) - 1 /\ Len(queue) \in Nat
    BY <2>1, QueueTail, Zenon
  <2>3. Len(queue') <= NProcs
    <3>1. Len(queue) <= NProcs
      BY Zenon DEF TypeOK
    <3> QED
      BY <2>2, <3>1
  <2> HIDE DEF b
  <2>4. worker' \in Workers /\ held
    <3>1. [st |-> "took", block |-> b] \in [st : States, block : 0..N] /\ b # 0
      BY <2>2 DEF States
    <3>2. \A j \in Threads : worker[j].block # 0 <=> worker[j].st \in {"took", "load"}
      BY Zenon DEF TypeOK
    <3> QED
      BY <1>w, <2>1, <3>1, <3>2, Zenon DEF Workers
  <2> QED
    BY <2>1, <2>2, <2>3, <2>4, Zenon DEF TypeOK, Workers, States
<1>9. ASSUME NEW i \in Threads, TellTook(i) \/ Leave(i) PROVE TypeOK'
  <2>1. Woken[i] = worker[i] /\ worker[i].st \in {"took", "leave"}
    BY <1>9, WokenType, Zenon DEF TellTook, Leave
  <2>2. PICK s \in States :
           /\ worker' = Goto(Woken, i, s)
           /\ s \in {"took", "load"} <=> worker[i].st = "took"
    BY <1>9, Zenon DEF TellTook, Leave, States
  <2>3. worker' \in Workers /\ held
    <3>1. /\ worker' \in Workers
          /\ \A j \in Threads : /\ worker'[j].block = Woken[j].block
                                /\ worker'[j].st = IF j = i THEN s ELSE Woken[j].st
      BY <2>2, WokenType, SetState
    <3>2. \A j \in Threads : /\ worker[j].block # 0 <=> worker[j].st \in {"took", "load"}
                             /\ Woken[j].block = worker[j].block
                             /\ Woken[j].st \in {"took", "load"} <=> worker[j].st \in {"took", "load"}
      BY WokenType, Zenon DEF TypeOK
    <3> QED
      BY <2>1, <2>2, <3>1, <3>2
  <2>4. UNCHANGED <<kind, next, ok, queue, donereading, failure, stored, result>>
        /\ reader' = WokenReader
    BY <1>9, Zenon DEF TellTook, Leave
  <2> QED
    BY <2>3, <2>4, Zenon DEF WokenReader, TypeOK, Workers, States
<1>10. ASSUME NEW i \in Threads, LoadBlock(i) PROVE TypeOK'
  <2>1. worker[i].block \in 1..N
    BY <1>10 DEF LoadBlock, TypeOK
  <2>2. PICK w \in {Ready, [st |-> "failed", block |-> 0]} :
           worker' = [worker EXCEPT ![i] = w]
    BY <1>10, Zenon DEF LoadBlock
  <2>3. stored' \subseteq 1..N
    BY <1>10, <2>1, Zenon DEF LoadBlock, TypeOK
  <2>4. w \in [st : {"ready", "failed"}, block : {0}]
    BY <2>2 DEF Ready
  <2>5. UNCHANGED <<kind, reader, next, ok, queue, donereading, failure, result>>
    BY <1>10, Zenon DEF LoadBlock
  <2> QED
    BY <2>2, <2>3, <2>4, <2>5 DEF TypeOK
<1>11. CASE UNCHANGED vars
  BY <1>11, Zenon DEF vars, TypeOK
<1> QED
  BY <1>1, <1>2, <1>3, <1>4, <1>5, <1>6, <1>7, <1>8, <1>9, <1>10, <1>11, Zenon
  DEF Next, ReaderStep, WorkerStep

\* A step that moves no block leaves every block where it is.
LEMMA QuietStep ==
    ASSUME TypeOK, TypeOK', UNCHANGED <<kind, next, queue, stored>>,
           \A j \in Threads :
              /\ worker'[j].block = worker[j].block
              /\ worker'[j].st \in {"took", "load"} <=> worker[j].st \in {"took", "load"}
    PROVE  Queued' = Queued /\ Held' = Held /\ (OnePlace => OnePlace')
<1>1. Queued' = Queued
  BY Zenon DEF Queued
<1>2. Held' = Held
  BY Zenon DEF Held
<1> QED
  BY <1>1, <1>2 DEF OnePlace

\* Which threads hold a block, one by one.
LEMMA HeldBy ==
    ASSUME TypeOK, NEW n
    PROVE  n \in Held <=> \E j \in Threads : worker[j].block = n /\ n # 0
BY DEF TypeOK, Held

\* The same after a step.
LEMMA HeldByNext ==
    ASSUME TypeOK', NEW n
    PROVE  n \in Held' <=> \E j \in Threads : worker'[j].block = n /\ n # 0
BY DEF TypeOK, Held

\* A step that moves no block and keeps every failure known.
LEMMA QuietKeeps ==
    ASSUME TypeOK, TypeOK', LoadInv, UNCHANGED <<kind, next, queue, stored>>,
           \A j \in Threads :
              /\ worker'[j].block = worker[j].block
              /\ worker'[j].st \in {"took", "load"} <=> worker[j].st \in {"took", "load"}
              /\ worker[j].st = "failed" => failure' \/ worker'[j].st = "failed"
              /\ worker'[j].st = "failed" => worker[j].st = "failed"
              /\ worker'[j].st \in {"leave", "ended"} =>
                    failure' \/ (donereading' /\ queue' = <<>>),
           failure => failure',
           failure' => failure \/ \E j \in Threads : worker[j].st = "failed",
           ~ok' => ~ok \/ failure \/ \E n \in 1..N : kind[n] = "torn"
    PROVE  BlockInv' /\ FailInv' /\ OnePlace'
<1>1. Queued' = Queued /\ Held' = Held /\ OnePlace'
  BY QuietStep, Zenon DEF LoadInv
<1>2. BlockInv'
  BY <1>1, Zenon DEF LoadInv, BlockInv
<1>3. \A n \in 1..N : n < next' /\ kind'[n] = "bad" =>
         n \in Queued' \cup Held' \/ failure' \/ \E j \in Threads : worker'[j].st = "failed"
  BY <1>1, Zenon DEF LoadInv, FailInv
<1>4. ~ok' \/ failure' \/ (\E j \in Threads : worker'[j].st = "failed")
         => \E n \in 1..N : kind'[n] # "good"
  BY Zenon DEF LoadInv, FailInv
<1> QED
  BY <1>1, <1>2, <1>3, <1>4, Zenon DEF FailInv

\* A step of the reader that queues nothing.
LEMMA InvQuiet ==
    ASSUME TypeOK, TypeOK', LoadInv,
           Read \/ PushFails \/ PushWaits \/ Stop \/ Tell \/ Return
    PROVE  LoadInv'
<1>1. CASE Read
  <2>1. BlockInv' /\ FailInv' /\ OnePlace'
    <3>1. ~ok' => ~ok \/ failure \/ \E n \in 1..N : kind[n] = "torn"
      BY <1>1 DEF Read, TypeOK
    <3>2. UNCHANGED <<kind, next, queue, stored, worker, failure, donereading>>
      BY <1>1, Zenon DEF Read
    <3> QED
      BY <3>1, <3>2, QuietKeeps, Zenon DEF LoadInv, FailInv
  <2>2. ReaderInv' /\ OkMeansAll'
    BY <1>1 DEF Read, LoadInv, ReaderInv, OkMeansAll, TypeOK
  <2> QED
    BY <2>1, <2>2, Zenon DEF LoadInv
<1>2. CASE PushFails \/ PushWaits \/ Stop
  <2>1. BlockInv' /\ FailInv' /\ OnePlace'
    <3>1. /\ UNCHANGED <<kind, next, queue, stored, worker, failure>>
          /\ ~ok' => ~ok \/ failure
          /\ donereading => donereading'
      BY <1>2 DEF PushFails, PushWaits, Stop
    <3> QED
      BY <3>1, QuietKeeps, Zenon DEF LoadInv, FailInv
  <2>2. ReaderInv' /\ OkMeansAll'
    BY <1>2, Zenon DEF PushFails, PushWaits, Stop, LoadInv, ReaderInv, OkMeansAll, TypeOK
  <2> QED
    BY <2>1, <2>2, Zenon DEF LoadInv
<1>3. CASE Tell
  <2>1. \A j \in Threads :
           /\ worker'[j].block = worker[j].block
           /\ worker'[j].st # worker[j].st => worker[j].st = "wait" /\ worker'[j].st = "ready"
    BY <1>3, WokenType, Zenon DEF Tell
  <2>2. UNCHANGED <<kind, next, ok, queue, donereading, failure, stored, result>>
    BY <1>3, Zenon DEF Tell
  <2>3. BlockInv' /\ FailInv' /\ OnePlace'
    BY <2>1, <2>2, QuietKeeps, Zenon DEF LoadInv, FailInv
  <2>4. ReaderInv' /\ OkMeansAll'
    BY <1>3, <2>2 DEF Tell, LoadInv, ReaderInv, OkMeansAll, TypeOK
  <2> QED
    BY <2>3, <2>4, Zenon DEF LoadInv
<1>4. CASE Return
  <2>1. BlockInv' /\ FailInv' /\ OnePlace'
    <3>1. UNCHANGED <<kind, next, ok, queue, donereading, failure, worker, stored>>
      BY <1>4, Zenon DEF Return
    <3> QED
      BY <3>1, QuietKeeps, Zenon DEF LoadInv, FailInv
  <2>2. result' = "ok" => stored = 1..N
    <3> SUFFICES ASSUME result' = "ok" PROVE stored = 1..N
      BY Zenon
    <3>1. ok /\ ~failure /\ next = N + 1
      BY <1>4, Zenon DEF Return, LoadInv, ReaderInv
    <3>2. \A i \in Threads : worker[i].st = "ended" /\ worker[i].block = 0
      BY <1>4, Zenon DEF Return, TypeOK
    <3>3. Held = {}
      BY <3>2, HeldBy, Zenon
    <3>4. queue = <<>>
      <4>1. 1 \in Threads
        BY DEF Threads
      <4> QED
        BY <4>1, <3>1, <3>2, Zenon DEF LoadInv, FailInv
    <3>5. Queued = {}
      BY <3>4 DEF Queued
    <3>6. \A n \in 1..N : kind[n] = "good"
      BY <3>1, <3>2, <3>3, <3>5 DEF LoadInv, FailInv, BlockInv, TypeOK
    <3>7. \A n \in 1..N : n \in 1..next - 1
      BY <3>1
    <3> QED
      BY <3>3, <3>5, <3>6, <3>7, Zenon DEF LoadInv, OnePlace, TypeOK
  <2>3. ReaderInv' /\ OkMeansAll'
    BY <1>4, <2>2, Zenon DEF Return, LoadInv, ReaderInv, OkMeansAll, TypeOK
  <2> QED
    BY <2>1, <2>3, Zenon DEF LoadInv
<1> QED
  BY <1>1, <1>2, <1>3, <1>4, Zenon

\* A step of a thread that neither takes nor stores a block.
LEMMA InvMove ==
    ASSUME TypeOK, TypeOK', LoadInv, NEW i \in Threads,
           \/ LeaveFailed(i) \/ LeaveDone(i) \/ Wait(i) \/ Fail(i)
           \/ TellTook(i) \/ Leave(i)
    PROVE  LoadInv'
<1>w. worker \in Workers
  BY Zenon DEF TypeOK, Workers, States
<1>1. UNCHANGED <<kind, next, ok, queue, donereading, stored, result>>
  BY Zenon DEF LeaveFailed, LeaveDone, Wait, Fail, TellTook, Leave
<1>2. worker[i].st # "ended" /\ reader # "returned"
  BY Zenon DEF LeaveFailed, LeaveDone, Wait, Fail, TellTook, Leave, LoadInv, ReaderInv
<1>3. CASE LeaveFailed(i) \/ LeaveDone(i) \/ Wait(i) \/ Fail(i)
  <2>1. PICK s \in States :
           /\ worker' = Goto(worker, i, s) /\ s \in {"leave", "wait"}
           /\ s = "leave" => failure' \/ (donereading /\ queue = <<>>)
    BY <1>3 DEF LeaveFailed, LeaveDone, Wait, Fail, States
  <2>2. worker[i].st \in {"ready", "failed"} /\ (worker[i].st = "failed" => failure')
    BY <1>3, Zenon DEF LeaveFailed, LeaveDone, Wait, Fail
  <2>3. \A j \in Threads : /\ worker'[j].block = worker[j].block
                           /\ worker'[j].st = IF j = i THEN s ELSE worker[j].st
    BY <1>w, <2>1, SetState
  <2>4. reader' = reader /\ (failure => failure') /\ (failure' => failure \/ worker[i].st = "failed")
    <3>1. CASE Fail(i)
      BY <3>1, Zenon DEF Fail
    <3>2. CASE LeaveFailed(i) \/ LeaveDone(i) \/ Wait(i)
      BY <3>2, SMTT(30) DEF LeaveFailed, LeaveDone, Wait
    <3> QED
      BY <1>3, <3>1, <3>2, Zenon
  <2>5. BlockInv' /\ FailInv' /\ OnePlace'
    BY <1>1, <2>1, <2>2, <2>3, <2>4, QuietKeeps, Zenon DEF LoadInv, FailInv
  <2>6. ReaderInv'
    BY <1>1, <1>2, <2>4, Zenon DEF LoadInv, ReaderInv
  <2>7. OkMeansAll'
    BY <1>1, Zenon DEF LoadInv, OkMeansAll
  <2> QED
    BY <2>5, <2>6, <2>7, Zenon DEF LoadInv
<1>4. CASE TellTook(i) \/ Leave(i)
  <2>1. PICK s \in States :
           /\ worker' = Goto(Woken, i, s) /\ s \in {"load", "ended"}
           /\ s = "load" <=> worker[i].st = "took"
    BY <1>4, Zenon DEF TellTook, Leave, States
  <2>2. worker[i].st \in {"took", "leave"}
    BY <1>4, Zenon DEF TellTook, Leave
  <2>3. \A j \in Threads : /\ worker'[j].block = Woken[j].block
                           /\ worker'[j].st = IF j = i THEN s ELSE Woken[j].st
    BY <2>1, WokenType, SetState, SMTT(30)
  <2>4. \A j \in Threads : /\ worker'[j].block = worker[j].block
                           /\ j # i => \/ worker'[j].st = worker[j].st
                                       \/ worker[j].st = "wait" /\ worker'[j].st = "ready"
    BY <2>3, WokenType
  <2>5. worker'[i].st = s
    BY <2>3, Zenon
  <2>6. failure' = failure /\ reader' = WokenReader
    BY <1>4, Zenon DEF TellTook, Leave
  <2>7. BlockInv' /\ FailInv' /\ OnePlace'
    <3>1. \A j \in Threads : worker'[j].st \in {"leave", "ended"} =>
             failure' \/ (donereading' /\ queue' = <<>>)
      BY <1>1, <2>1, <2>2, <2>4, <2>5, <2>6 DEF LoadInv, FailInv
    <3>2. \A j \in Threads :
             /\ worker'[j].st \in {"took", "load"} <=> worker[j].st \in {"took", "load"}
             /\ worker'[j].st = "failed" <=> worker[j].st = "failed"
      BY <2>1, <2>2, <2>4, <2>5, Zenon
    <3> QED
      <4>1. /\ UNCHANGED <<kind, next, queue, stored>> /\ failure' = failure
            /\ \A j \in Threads : worker'[j].block = worker[j].block
        BY <1>1, <2>4, <2>6, Zenon
      <4> QED
        BY <1>1, <2>4, <2>6, <3>1, <3>2, <4>1, QuietKeeps, SMTT(30)
  <2>8. ReaderInv'
    BY <1>1, <1>2, <2>6, Zenon DEF LoadInv, ReaderInv, WokenReader
  <2>9. OkMeansAll'
    BY <1>1, Zenon DEF LoadInv, OkMeansAll
  <2> QED
    BY <2>7, <2>8, <2>9, Zenon DEF LoadInv
<1> QED
  BY <1>3, <1>4, Zenon

\* The reader queues a block: one that is nowhere yet.
LEMMA InvPush == ASSUME TypeOK, TypeOK', LoadInv, Push PROVE LoadInv'
<1>1. next \in 1..N /\ kind[next] # "torn"
  BY DEF Push, LoadInv, ReaderInv, TypeOK
<1>2. /\ Len(queue') = Len(queue) + 1 /\ queue'[Len(queue) + 1] = next
      /\ \A a \in 1..Len(queue) : queue'[a] = queue[a]
  BY <1>1, QueueAppend, Zenon DEF Push
<1>3. Len(queue) \in Nat
  BY DEF TypeOK
<1>4. Queued' = Queued \cup {next}
  BY <1>2, <1>3 DEF Queued
<1>5. \A j \in Threads :
         /\ worker'[j].block = worker[j].block
         /\ worker'[j].st # worker[j].st => worker[j].st = "wait" /\ worker'[j].st = "ready"
  BY WokenType, Zenon DEF Push
<1>6. Held' = Held
  BY <1>5 DEF Held
<1>7. next \notin Queued \cup Held \cup stored
  BY <1>1 DEF LoadInv, BlockInv, TypeOK
<1>8. UNCHANGED <<kind, ok, donereading, failure, stored, result>> /\ next' = next + 1
      /\ reader = "push" /\ reader' = "read" /\ ~failure
  BY Zenon DEF Push
<1>9. OnePlace'
  <2>1. \A a, b \in 1..Len(queue') : a # b => queue'[a] # queue'[b]
    <3>1. \A a \in 1..Len(queue) : queue[a] # next
      BY <1>7, Zenon DEF Queued
    <3>2. \A a \in 1..Len(queue') : a \in 1..Len(queue) \/ a = Len(queue) + 1
      BY <1>2, <1>3
    <3> QED
      BY <1>2, <3>1, <3>2 DEF LoadInv, OnePlace
  <2>2. \A n \in 1..next' - 1 : n = next \/ n \in 1..next - 1
    BY <1>8 DEF TypeOK
  <2>3. \A n \in 1..next' - 1 : kind'[n] = "good" => n \in Queued' \cup Held' \cup stored'
    BY <1>4, <1>6, <1>8, <2>2, Zenon DEF LoadInv, OnePlace
  <2>4. Queued' \cap Held' = {} /\ Queued' \cap stored' = {} /\ Held' \cap stored' = {}
    BY <1>4, <1>6, <1>7, <1>8, Zenon DEF LoadInv, OnePlace
  <2>5. \A j, k \in Threads : j # k /\ worker'[j].block # 0 => worker'[j].block # worker'[k].block
    BY <1>5 DEF LoadInv, OnePlace
  <2> QED
    BY <2>1, <2>3, <2>4, <2>5, Zenon DEF OnePlace
<1>10. \A n \in 1..N : n < next' => n = next \/ n < next
  BY <1>8 DEF TypeOK
<1>11. BlockInv'
  <2>1. \A n \in Queued \cup Held \cup stored : n < next /\ n \in 0..N
    <3>1. Queued \subseteq 1..N
      BY DEF Queued, TypeOK
    <3>2. Held \subseteq 0..N
      BY DEF Held, TypeOK
    <3> QED
      BY <3>1, <3>2 DEF LoadInv, BlockInv, TypeOK
  <2>2. \A n \in Queued' \cup Held' \cup stored' : n < next'
    BY <1>4, <1>6, <1>8, <2>1 DEF TypeOK
  <2> QED
    BY <1>1, <1>8, <1>10, <2>2, Zenon DEF LoadInv, BlockInv
<1>12. FailInv'
  <2>1. \A j \in Threads : /\ worker'[j].st \in {"leave", "ended"} => failure
                           /\ worker'[j].st = "failed" <=> worker[j].st = "failed"
    BY <1>5, <1>8, Zenon DEF LoadInv, FailInv, ReaderInv
  <2> QED
    BY <1>4, <1>6, <1>8, <1>10, <2>1, Zenon DEF LoadInv, FailInv
<1>13. ReaderInv' /\ OkMeansAll'
  BY <1>8, Zenon DEF LoadInv, ReaderInv, OkMeansAll
<1> QED
  BY <1>9, <1>11, <1>12, <1>13, Zenon DEF LoadInv

\* A thread takes the block queued last: it leaves the queue for the thread.
LEMMA InvTake ==
    ASSUME TypeOK, TypeOK', LoadInv, NEW i \in Threads, Take(i) PROVE LoadInv'
<1> DEFINE b == queue[Len(queue)]
<1>1. /\ Len(queue) \in Nat \ {0} /\ b \in 1..N
      /\ Len(queue') = Len(queue) - 1
      /\ \A a \in 1..Len(queue) - 1 : queue'[a] = queue[a]
  BY QueueTail, Zenon DEF Take
<1>2. \A a \in 1..Len(queue) - 1 : queue[a] # b
  BY <1>1 DEF LoadInv, OnePlace
<1>3. Queued = Queued' \cup {b} /\ b \notin Queued'
  <2>1. \A a \in 1..Len(queue) : a = Len(queue) \/ a \in 1..Len(queue) - 1
    BY <1>1
  <2> QED
    BY <1>1, <1>2, <2>1, SMTT(30) DEF Queued
<1>4. /\ worker[i].st = "ready" /\ worker[i].block = 0
      /\ worker'[i].st = "took" /\ worker'[i].block = b
      /\ \A j \in Threads : j # i => worker'[j] = worker[j]
  <2>1. /\ worker[i].st = "ready"
        /\ worker' = [worker EXCEPT ![i] = [st |-> "took", block |-> b]]
    BY Zenon DEF Take
  <2>2. /\ worker \in Workers
        /\ \A j \in Threads : worker[j].block # 0 <=> worker[j].st \in {"took", "load"}
    BY Zenon DEF TypeOK, Workers, States
  <2> HIDE DEF b
  <2> QED
    BY <2>1, <2>2, Zenon DEF Workers
<1>5. Held' = Held \cup {b}
  BY <1>1, <1>4 DEF Held
<1>6. UNCHANGED <<kind, reader, next, ok, donereading, failure, stored, result>> /\ queue # <<>>
  BY Zenon DEF Take
<1> HIDE DEF b
<1>7. OnePlace'
  <2>1. \A a, c \in 1..Len(queue') : a # c => queue'[a] # queue'[c]
    BY <1>1 DEF LoadInv, OnePlace
  <2>2. b \in Queued /\ b \notin Held /\ b \notin stored
    BY <1>3, Zenon DEF LoadInv, OnePlace
  <2>3. \A j, k \in Threads : j # k /\ worker'[j].block # 0 => worker'[j].block # worker'[k].block
    <3>1. \A j \in Threads : worker[j].block # b
      BY <1>1, <2>2, HeldBy
    <3> QED
      BY <1>4, <3>1 DEF LoadInv, OnePlace
  <2>4. Queued' \cap Held' = {} /\ Queued' \cap stored' = {} /\ Held' \cap stored' = {}
    BY <1>3, <1>5, <1>6, <2>2, Zenon DEF LoadInv, OnePlace
  <2>5. \A n \in 1..next' - 1 : kind'[n] = "good" => n \in Queued' \cup Held' \cup stored'
    BY <1>3, <1>5, <1>6, Zenon DEF LoadInv, OnePlace
  <2> QED
    BY <2>1, <2>3, <2>4, <2>5, Zenon DEF OnePlace
<1>8. BlockInv'
  BY <1>3, <1>5, <1>6, Zenon DEF LoadInv, BlockInv
<1>9. FailInv'
  BY <1>3, <1>4, <1>5, <1>6, SMTT(30) DEF LoadInv, FailInv
<1>10. ReaderInv' /\ OkMeansAll'
  BY <1>4, <1>6, Zenon DEF LoadInv, ReaderInv, OkMeansAll
<1> QED
  BY <1>7, <1>8, <1>9, <1>10, Zenon DEF LoadInv

\* A thread stores the block it holds, or finds that it is bad.
LEMMA InvLoadBlock ==
    ASSUME TypeOK, TypeOK', LoadInv, NEW i \in Threads, LoadBlock(i) PROVE LoadInv'
<1> DEFINE b == worker[i].block
<1>1. worker[i].st = "load" /\ b \in 1..N /\ b \in Held /\ b < next
  <2>1. worker[i].st = "load" /\ b \in 1..N
    BY DEF LoadBlock, TypeOK
  <2>2. b \in Held
    BY <2>1, HeldBy
  <2> QED
    BY <2>1, <2>2, Zenon DEF LoadInv, BlockInv
<1>2. /\ worker'[i].block = 0
      /\ worker'[i].st = IF kind[b] = "good" THEN "ready" ELSE "failed"
      /\ stored' = IF kind[b] = "good" THEN stored \cup {b} ELSE stored
      /\ \A j \in Threads : j # i => worker'[j] = worker[j]
  BY SMTT(30) DEF LoadBlock, Ready, TypeOK
<1>3. UNCHANGED <<kind, reader, next, ok, queue, donereading, failure, result>>
  BY Zenon DEF LoadBlock
<1>4. Queued' = Queued
  BY <1>3, Zenon DEF Queued
<1>5. \A j \in Threads : j # i => worker[j].block # b
  BY <1>1 DEF LoadInv, OnePlace
<1>6. Held' = Held \ {b}
  <2>1. \A n : n \in Held' <=> \E j \in Threads : worker'[j].block = n /\ n # 0
    BY HeldByNext, Zenon
  <2>2. \A n : n \in Held <=> \E j \in Threads : worker[j].block = n /\ n # 0
    BY HeldBy, Zenon
  <2> QED
    BY <1>1, <1>2, <1>5, <2>1, <2>2
<1>7. b \notin Queued /\ b \notin stored
  BY <1>1, Zenon DEF LoadInv, OnePlace
<1>8. kind[b] # "good" => kind[b] = "bad"
  BY <1>1, Zenon DEF LoadInv, BlockInv, TypeOK
<1> HIDE DEF b
<1>9. OnePlace'
  <2>1. \A j, k \in Threads : j # k /\ worker'[j].block # 0 => worker'[j].block # worker'[k].block
    BY <1>2, Zenon DEF LoadInv, OnePlace
  <2>2. Queued' \cap Held' = {} /\ Queued' \cap stored' = {} /\ Held' \cap stored' = {}
    BY <1>2, <1>4, <1>6, <1>7, SMTT(30) DEF LoadInv, OnePlace
  <2>3. \A n \in 1..next' - 1 : kind'[n] = "good" => n \in Queued' \cup Held' \cup stored'
    BY <1>2, <1>3, <1>4, <1>6, Zenon DEF LoadInv, OnePlace
  <2> QED
    BY <1>3, <2>1, <2>2, <2>3, SMTT(30) DEF LoadInv, OnePlace
<1>10. BlockInv'
  BY <1>1, <1>2, <1>3, <1>4, <1>6, Zenon DEF LoadInv, BlockInv
<1>11. FailInv'
  BY <1>1, <1>2, <1>3, <1>4, <1>6, <1>8, SMTT(30) DEF LoadInv, FailInv
<1>12. ReaderInv' /\ OkMeansAll'
  BY <1>1, <1>2, <1>3, Zenon DEF LoadInv, ReaderInv, OkMeansAll
<1> QED
  BY <1>9, <1>10, <1>11, <1>12, Zenon DEF LoadInv

\* Every step of load and of its threads keeps the inductive invariant.
LEMMA InvStep == TypeOK /\ LoadInv /\ [Next]_vars => LoadInv'
<1> SUFFICES ASSUME TypeOK, LoadInv, [Next]_vars PROVE LoadInv'
  BY Zenon
<1>1. TypeOK'
  BY TypeStep, Zenon
<1>2. CASE ReaderStep
  BY <1>1, <1>2, InvQuiet, InvPush, Zenon DEF ReaderStep
<1>3. ASSUME NEW i \in Threads, WorkerStep(i) PROVE LoadInv'
  <2>1. CASE Take(i)
    BY <1>1, <2>1, InvTake, Zenon
  <2>2. CASE LoadBlock(i)
    BY <1>1, <2>2, InvLoadBlock, Zenon
  <2>3. CASE LeaveFailed(i) \/ LeaveDone(i) \/ Wait(i) \/ Fail(i) \/ TellTook(i) \/ Leave(i)
    BY <1>1, <2>3, InvMove, Zenon
  <2> QED
    BY <1>3, <2>1, <2>2, <2>3, Zenon DEF WorkerStep
<1>4. CASE UNCHANGED vars
  <2>1. Queued' = Queued /\ Held' = Held
    BY <1>4, Zenon DEF vars, Queued, Held
  <2>2. ReaderInv' /\ BlockInv'
    BY <1>4, <2>1, Zenon DEF vars, LoadInv, ReaderInv, BlockInv
  <2>3. FailInv'
    BY <1>4, <2>1, Zenon DEF vars, LoadInv, FailInv
  <2>4. OnePlace' /\ OkMeansAll'
    BY <1>4, <2>1, Zenon DEF vars, LoadInv, OnePlace, OkMeansAll
  <2> QED
    BY <2>2, <2>3, <2>4, Zenon DEF LoadInv
<1> QED
  BY <1>2, <1>3, <1>4, Zenon DEF Next

\* It holds when load has opened the file and started its threads.
LEMMA InvInit == Init => TypeOK /\ LoadInv
<1> SUFFICES ASSUME Init PROVE TypeOK /\ LoadInv
  BY Zenon
<1>1. TypeOK
  <2>1. queue \in Seq(1..N) /\ Len(queue) <= NProcs
    BY DEF Init
  <2>2. /\ worker \in Workers
        /\ \A i \in Threads : worker[i].block # 0 <=> worker[i].st \in {"took", "load"}
    BY DEF Init, Ready, Workers, States
  <2>3. next \in 1..N + 1 /\ stored \subseteq 1..N
    BY DEF Init
  <2> QED
    BY <2>1, <2>2, <2>3, Zenon DEF Init, TypeOK, Workers, States
<1>2. Queued = {} /\ Held = {}
  BY DEF Init, Ready, Queued, Held
<1>3. OnePlace
  BY <1>2 DEF Init, OnePlace, Ready
<1>4. ReaderInv /\ OkMeansAll
  BY Zenon DEF Init, ReaderInv, OkMeansAll
<1>5. BlockInv
  BY <1>2 DEF Init, BlockInv
<1>6. FailInv
  BY <1>2 DEF Init, Ready, FailInv
<1> QED
  BY <1>1, <1>3, <1>4, <1>5, <1>6, Zenon DEF LoadInv

\* The types hold throughout a load; with them, the queue of load never holds
\* more blocks than the array it allocated has places.
THEOREM TypeCorrect == Spec => []TypeOK
<1>1. TypeOK /\ LoadInv /\ [Next]_vars => (TypeOK /\ LoadInv)'
  BY TypeStep, InvStep, Zenon
<1> QED
  BY <1>1, InvInit, PTL DEF Spec

\* The inductive invariant of the reader and the threads of load.
THEOREM LoadInvariant == Spec => []LoadInv
<1>1. TypeOK /\ LoadInv /\ [Next]_vars => (TypeOK /\ LoadInv)'
  BY TypeStep, InvStep, Zenon
<1> QED
  BY <1>1, InvInit, PTL DEF Spec

\* Whatever threads do, no block is stored twice or lost on its way from the
\* file through the queue of load.
THEOREM BlocksInOnePlace == Spec => []OnePlace
<1>1. LoadInv => OnePlace
  BY Zenon DEF LoadInv
<1> QED
  BY <1>1, LoadInvariant, PTL

\* A load that returns ok has stored every block of the file, for every number
\* of threads.
THEOREM OkIsComplete == Spec => []OkMeansAll
<1>1. LoadInv => OkMeansAll
  BY Zenon DEF LoadInv
<1> QED
  BY <1>1, LoadInvariant, PTL

\* A sleeper of pthread_cond_wait has nothing to do or is about to be woken.
THEOREM WakeupsSuffice == Spec => []NoLostWakeup
<1>1. Init => NoLostWakeup
  BY Zenon DEF Init, Ready, NoLostWakeup
<1>2. TypeOK /\ NoLostWakeup /\ [Next]_vars => NoLostWakeup'
  <2> SUFFICES ASSUME TypeOK, NoLostWakeup, [Next]_vars PROVE NoLostWakeup'
    BY Zenon
  <2>w. worker \in Workers
    BY Zenon DEF TypeOK, Workers, States
  <2>1. CASE Read \/ PushFails \/ PushWaits \/ Stop \/ Return
    BY <2>1, SMTT(30) DEF Read, PushFails, PushWaits, Stop, Return, NoLostWakeup
  <2>2. CASE Push \/ Tell
    <3>1. \A j \in Threads : worker'[j].st # "wait"
      BY <2>2, WokenType, Zenon DEF Push, Tell
    <3>2. reader' # "wait"
      BY <2>2, Zenon DEF Push, Tell
    <3> QED
      BY <3>1, <3>2, Zenon DEF NoLostWakeup
  <2>3. ASSUME NEW i \in Threads, LeaveFailed(i) \/ LeaveDone(i) \/ Wait(i) \/ Fail(i)
        PROVE NoLostWakeup'
    <3>1. PICK s \in States :
             /\ worker' = Goto(worker, i, s) /\ s \in {"leave", "wait"}
             /\ s = "wait" => queue = <<>> /\ ~donereading /\ ~failure /\ ~failure'
             /\ worker[i].st \in {"ready", "failed"}
      BY <2>3 DEF LeaveFailed, LeaveDone, Wait, Fail, States
    <3>2. \A j \in Threads : worker'[j].st = IF j = i THEN s ELSE worker[j].st
      BY <2>w, <3>1, SetState, SMTT(30)
    <3>3. UNCHANGED <<reader, queue, donereading>> /\ (failure' # failure => s = "leave")
      BY <2>3, <3>1, Zenon DEF LeaveFailed, LeaveDone, Wait, Fail
    <3> QED
      BY <3>1, <3>2, <3>3, SMTT(30) DEF NoLostWakeup
  <2>4. ASSUME NEW i \in Threads, Take(i) PROVE NoLostWakeup'
    <3>1. worker[i].st = "ready" /\ worker'[i].st = "took"
          /\ \A j \in Threads : j # i => worker'[j] = worker[j]
      BY <2>4, Zenon DEF Take, TypeOK
    <3>2. UNCHANGED <<reader, donereading, failure>> /\ queue # <<>>
      BY <2>4, Zenon DEF Take
    <3> QED
      BY <3>1, <3>2, Zenon DEF NoLostWakeup
  <2>5. ASSUME NEW i \in Threads, TellTook(i) \/ Leave(i) PROVE NoLostWakeup'
    <3>1. PICK s \in States : worker' = Goto(Woken, i, s) /\ s # "wait"
      BY <2>5, Zenon DEF TellTook, Leave, States
    <3>2. \A j \in Threads : worker'[j].st # "wait"
      BY <3>1, WokenType, SetState
    <3>3. reader' # "wait"
      BY <2>5, Zenon DEF TellTook, Leave, WokenReader
    <3> QED
      BY <3>2, <3>3, Zenon DEF NoLostWakeup
  <2>6. ASSUME NEW i \in Threads, LoadBlock(i) PROVE NoLostWakeup'
    <3>1. worker[i].st = "load" /\ worker'[i].st \in {"ready", "failed"}
          /\ \A j \in Threads : j # i => worker'[j] = worker[j]
      BY <2>6, SMTT(30) DEF LoadBlock, Ready, TypeOK
    <3>2. UNCHANGED <<reader, queue, donereading, failure>>
      BY <2>6, Zenon DEF LoadBlock
    <3> QED
      BY <3>1, <3>2, Zenon DEF NoLostWakeup
  <2>7. CASE UNCHANGED vars
    BY <2>7, Zenon DEF vars, NoLostWakeup
  <2> QED
    BY <2>1, <2>2, <2>3, <2>4, <2>5, <2>6, <2>7, Zenon DEF Next, ReaderStep, WorkerStep
<1> QED
  BY <1>1, <1>2, TypeCorrect, PTL DEF Spec

\* load with its threads implements the load of LoadSpec, the one Persist uses.
THEOREM Refinement == Spec => ImplementsLoad
<1>1. Init => Load!Init
  BY Zenon DEF Init, Load!Init
<1>2. TypeOK /\ LoadInv /\ OkMeansAll' /\ [Next]_vars => [Load!Next]_(Load!svars)
  <2> SUFFICES ASSUME TypeOK, LoadInv, OkMeansAll', [Next]_vars,
                      ~UNCHANGED <<kind, stored, result>>
               PROVE  Load!Next
    BY Zenon DEF Load!svars
  <2>1. Return \/ \E i \in Threads : LoadBlock(i)
    BY Zenon DEF Next, ReaderStep, WorkerStep, vars, Read, PushFails, PushWaits, Push, Stop,
           Tell, LeaveFailed, Take, LeaveDone, Wait, TellTook, Fail, Leave
  <2>2. CASE Return
    <3>1. result' = "ok" => stored = 1..N
      <4>1. result' = "ok" => stored' = 1..N
        BY Zenon DEF OkMeansAll
      <4> QED
        BY <2>2, <4>1, Zenon DEF Return
    <3>2. result' = "failed" => \E n \in 1..N : kind[n] # "good"
      BY <2>2, ZenonT(30) DEF Return, LoadInv, FailInv
    <3>3. result = "none" /\ UNCHANGED <<kind, stored>> /\ result' \in {"ok", "failed"}
      BY <2>2, Zenon DEF Return, LoadInv, ReaderInv
    <3> QED
      BY <3>1, <3>2, <3>3, Zenon DEF Load!Next, Load!Return
  <2>3. ASSUME NEW i \in Threads, LoadBlock(i) PROVE Load!Next
    <3> DEFINE b == worker[i].block
    <3>1. worker[i].st = "load" /\ b \in 1..N
      BY <2>3, SMTT(30) DEF LoadBlock, TypeOK
    <3>2. b \notin stored
      <4>1. b \in Held
        BY <3>1, HeldBy
      <4> QED
        BY <4>1, Zenon DEF LoadInv, OnePlace
    <3>3. result = "none"
      BY <3>1, Zenon DEF LoadInv, ReaderInv
    <3>4. kind[b] = "good" /\ stored' = stored \cup {b} /\ UNCHANGED <<kind, result>>
      BY <2>3, Zenon DEF LoadBlock
    <3>5. Load!StoreBlock(b)
      BY <3>2, <3>3, <3>4, Zenon DEF Load!StoreBlock
    <3> QED
      BY <3>1, <3>5, Zenon DEF Load!Next
  <2> QED
    BY <2>1, <2>2, <2>3, Zenon
<1> QED
  BY <1>1, <1>2, TypeCorrect, LoadInvariant, OkIsComplete, PTL DEF Spec, ImplementsLoad, Load!Spec
=============================================================================
