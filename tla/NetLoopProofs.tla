---------------------------- MODULE NetLoopProofs ----------------------------
(***************************************************************************)
(* Theorems about NetLoop, for every number of descriptors, threads and     *)
(* connections, every limit and every event queue size.                     *)
(***************************************************************************)
EXTENDS NetLoopConns, FiniteSetTheorems

-----------------------------------------------------------------------------
(* LimitKept is inductive.                                                    *)

\* How many connections there are, and how many are being turned away.
LEMMA Counts ==
    /\ IsFiniteSet(Opened) /\ Cardinality(Opened) \in Nat
    /\ IsFiniteSet(Rejecting) /\ Cardinality(Rejecting) \in Nat
<1>1. IsFiniteSet(Opened) /\ IsFiniteSet(Rejecting)
  BY NetAssumption, FS_Subset DEF NetAssumption, Opened, Rejecting
<1> QED
  BY <1>1, FS_CardinalityType

\* qaccept and qclose of a connection, and a rejection, count one.
LEMMA CountOne ==
    ASSUME NEW S, IsFiniteSet(S), NEW x
    PROVE  /\ x \notin S => Cardinality(S \cup {x}) = Cardinality(S) + 1
           /\ x \in S => Cardinality(S \ {x}) = Cardinality(S) - 1 /\ Cardinality(S) >= 1
<1>1. CASE x \in S
  <2>1. Cardinality(S \ {x}) = Cardinality(S) - 1 /\ IsFiniteSet(S \ {x})
    BY <1>1, FS_RemoveElement
  <2>2. Cardinality(S) \in Nat /\ Cardinality(S \ {x}) \in Nat
    BY <2>1, FS_CardinalityType
  <2> QED
    BY <1>1, <2>1, <2>2
<1>2. CASE x \notin S
  BY <1>2, FS_AddElement
<1> QED
  BY <1>1, <1>2, Zenon

\* nconns is the number of connections and of those being turned away.
LEMMA Counted ==
    LimitKept <=> /\ nconns = Cardinality(Opened) + Cardinality(Rejecting)
                  /\ Cardinality(Opened) <= MaxConns
  BY Zenon DEF LimitKept, Rejecting

\* qaccept and qclose count and uncount; nothing else does.
LEMMA LimitStep ==
    ASSUME TypeOK, LimitKept, OwnerInv, NEW fd \in Fds, Acts(fd)
    PROVE  LimitKept' /\ nconns' \in Nat
<1> DEFINE o == Cardinality(Opened)
           r == Cardinality(Rejecting)
           oo == Cardinality(Opened')
           rr == Cardinality(Rejecting')
<1>1. IsFiniteSet(Opened) /\ IsFiniteSet(Rejecting) /\ o \in Nat /\ r \in Nat
  BY Counts, Zenon
<1>2. MaxConns \in Nat /\ nconns = o + r /\ o <= MaxConns
  BY Counted, NetAssumption, Zenon DEF NetAssumption
<1>3. /\ nconns' = oo + rr /\ oo <= MaxConns => LimitKept'
  BY Zenon DEF LimitKept, Rejecting
<1>4. \/ nconns' = nconns + 1 /\ oo = o /\ rr = r + 1
      \/ nconns' = nconns - 1 /\ oo = o /\ rr = r - 1 /\ r >= 1
      \/ nconns < MaxConns /\ nconns' = nconns + 1 /\ oo = o + 1 /\ rr = r
      \/ nconns' = nconns - 1 /\ oo = o - 1 /\ rr = r /\ o >= 1
      \/ nconns' = nconns /\ oo = o /\ rr = r
  <2>1. /\ fd \notin Opened => Cardinality(Opened \cup {fd}) = o + 1
        /\ fd \in Opened => Cardinality(Opened \ {fd}) = o - 1 /\ o >= 1
        /\ fd \notin Rejecting => Cardinality(Rejecting \cup {fd}) = r + 1
        /\ fd \in Rejecting => Cardinality(Rejecting \ {fd}) = r - 1 /\ r >= 1
    BY <1>1, CountOne, Zenon
  <2>2. Coming(fd)
    BY Comings, Zenon
  <2> QED
    BY <2>1, <2>2, SMTT(30) DEF Coming
<1> HIDE DEF o, r, oo, rr
<1>5. nconns' = oo + rr /\ oo <= MaxConns /\ nconns' \in Nat
  BY <1>1, <1>2, <1>4, SMTT(30)
<1> QED
  BY <1>3, <1>5, Zenon

-----------------------------------------------------------------------------
(* The invariant.                                                             *)

\* The events of a waiting thread are about open descriptors of its own, that
\* no step queue holds and whose filter is set.
LEMMA EventsKeep ==
    ASSUME IInv, NEW t \in Threads, GetEvents(t)
    PROVE  IInv'
<1>1. PICK evs \in SUBSET Ready(t) :
          stage' = [fd \in Fds |-> IF fd \in evs THEN "accept" ELSE stage[fd]]
  BY Zenon DEF GetEvents
<1>2. ASSUME NEW fd \in Fds
      PROVE  /\ link'[fd] = link[fd] /\ watch'[fd] = watch[fd] /\ worker'[fd] = worker[fd]
             /\ conn'[fd] = conn[fd] /\ got'[fd] = got[fd] /\ inbuf'[fd] = inbuf[fd]
             /\ cmds'[fd] = cmds[fd]
             /\ stage'[fd] = stage[fd] \/
                  (/\ stage[fd] = "idle" /\ stage'[fd] = "accept"
                   /\ link[fd] = "open" /\ watch[fd] \in {"read", "write"})
  BY <1>1, Zenon DEF GetEvents, Ready, Waiting, client
<1>3. TypeOK'
  BY <1>1, StepNames, Zenon DEF IInv, TypeOK, GetEvents, client
<1>4. OwnerInv' /\ FlowInv'
  <2> SUFFICES ASSUME NEW fd \in Fds
               PROVE  OwnerOf(fd)' /\ FlowOf(fd)'
    BY Zenon DEF OwnerInv, FlowInv
  <2>1. OwnerOf(fd) /\ FlowOf(fd) /\ TypeOK
    BY Zenon DEF IInv, OwnerInv, FlowInv
  <2>2. OwnerOf(fd)'
    BY <1>2, <2>1, OpenTyped, Zenon DEF OwnerOf, Owned
  <2>3. FlowOf(fd)'
    BY <1>2, <2>1, FlowSame, Zenon
  <2> QED
    BY <2>2, <2>3, Zenon
<1>5. LimitKept'
  <2>1. Opened' = Opened /\ Rejecting' = Rejecting /\ nconns' = nconns
    BY <1>2 DEF Opened, Rejecting, GetEvents
  <2> QED
    BY <2>1, Zenon DEF IInv, LimitKept, Rejecting
<1> QED
  BY <1>3, <1>4, <1>5 DEF IInv

\* The server starts with no connection: the invariant holds.
LEMMA InvInit == Init => IInv
<1> SUFFICES ASSUME Init PROVE IInv
  BY Zenon
<1>0. /\ NThreads \in Nat \ {0} /\ MaxOpens \in Nat /\ MaxConns \in Nat
      /\ 0 \in Threads /\ <<>> \in Seq(Nat) /\ <<>> \in Seq(Kinds)
  BY NetAssumption DEF NetAssumption, Threads
<1>1. TypeOK
  BY <1>0, StepNames DEF Init, TypeOK
<1>2. LimitKept
  <2>1. Opened = {} /\ Rejecting = {}
    BY Zenon DEF Init, Opened, Rejecting, NoConn
  <2>2. Cardinality({}) = 0
    BY FS_EmptySet, Zenon
  <2> QED
    BY <1>0, <2>1, <2>2, Counted DEF Init
<1>3. OwnerInv /\ FlowInv
  <2> SUFFICES ASSUME NEW fd \in Fds
               PROVE  OwnerOf(fd) /\ FlowOf(fd)
    BY Zenon DEF OwnerInv, FlowInv
  <2>1. /\ link[fd] = "free" /\ stage[fd] = "idle" /\ watch[fd] = "none"
        /\ worker[fd] = FALSE /\ conn[fd].open = FALSE /\ got[fd] = <<>>
    BY Zenon DEF Init, NoConn
  <2>2. InOrder(<<>>, 0)
    BY DEF InOrder
  <2> QED
    BY <2>1, <2>2, Zenon DEF OwnerOf, Owned, FlowOf, Flowing
<1> QED
  BY <1>1, <1>2, <1>3, Zenon DEF IInv

\* Every step of a thread of the event loop, of a bgwork thread or of a client
\* keeps the invariant.
LEMMA InvStep == IInv /\ [Next]_vars => IInv'
<1> SUFFICES ASSUME IInv, [Next]_vars PROVE IInv'
  BY Zenon
<1>1. CASE UNCHANGED vars
  BY <1>1 DEF IInv, TypeOK, LimitKept, Opened, OwnerInv, OwnerOf, FlowInv, FlowOf, vars, client
<1>2. ASSUME NEW fd \in Fds, Acts(fd)
      PROVE  IInv'
  <2>1. LimitKept' /\ nconns' \in Nat
    BY <1>2, LimitStep, Zenon DEF IInv
  <2>2. TypeOK'
    BY <1>2, <2>1, TypeStep, Zenon DEF IInv
  <2>3. OwnerInv' /\ FlowInv'
    BY <1>2, OthersKept, OwnerKept, FlowKept, OneDescriptor DEF IInv
  <2> QED
    BY <2>1, <2>2, <2>3 DEF IInv
<1> QED
  BY <1>1, <1>2, EventsKeep DEF Next, Acts

\* The inductive invariant holds in every state of the event loop.
THEOREM Invariance == Spec => []IInv
  BY InvInit, InvStep, PTL DEF Spec

-----------------------------------------------------------------------------
\* Type correctness: in particular nconns never drops below zero, although
\* several threads count down, and every index and step queue is one there is.
THEOREM TypeCorrect == Spec => []TypeOK
<1>1. IInv => TypeOK
  BY DEF IInv
<1> QED
  BY <1>1, Invariance, PTL

\* nconns is exact and there are never more than MaxConns connections, with any
\* number of threads that accept, reject and close.
THEOREM LimitIsKept == Spec => []LimitKept
<1>1. IInv => LimitKept
  BY Zenon DEF IInv
<1> QED
  BY <1>1, Invariance, PTL

\* The assertions of handle_read, qattach and bgwork never fail.
THEOREM AssertionsHold == Spec => []Assertions
<1>1. IInv => Assertions
  <2> SUFFICES ASSUME IInv, NEW fd \in Fds
               PROVE  /\ stage[fd] = "read" => conn[fd].out = <<>> /\ conn[fd].bg = 0
                      /\ stage[fd] = "attach" => conn[fd].bg # 0 /\ watch[fd] = "write"
                      /\ stage[fd] = "process" => watch[fd] = "read"
                      /\ worker[fd] => watch[fd] = "none"
    BY Zenon DEF Assertions
  <2>1. OwnerOf(fd) /\ TypeOK /\ OwnerInv
    BY Zenon DEF IInv, OwnerInv
  <2>2. worker[fd] => conn[fd].open /\ conn[fd].bg # 0
    BY <2>1, Typed, OpenTyped, Zenon DEF OwnerOf, Owned
  <2> QED
    BY <2>1, <2>2, StageOpen, Zenon DEF OwnerOf, Owned
<1> QED
  BY <1>1, Invariance, PTL

\* Until its work is done a bgwork thread is the only one that uses the
\* connection, which stays open even when the client is gone.
THEOREM WorkerKeeps == Spec => []WorkerKeepsConn
<1>1. IInv => WorkerKeepsConn
  <2> SUFFICES ASSUME IInv, NEW fd \in Fds, worker[fd]
               PROVE  /\ conn[fd].open /\ conn[fd].bg # 0 /\ ~conn[fd].closed
                      /\ stage[fd] = "idle"
    BY Zenon DEF WorkerKeepsConn
  <2>1. OwnerOf(fd) /\ TypeOK
    BY DEF IInv, OwnerInv
  <2> QED
    BY <2>1, Typed, OpenTyped DEF OwnerOf, Owned
<1> QED
  BY <1>1, Invariance, PTL

\* A client gets the replies to its commands in the order of the commands, each
\* once, however the commands are cut by the reads and whichever of them are
\* answered by background threads.
THEOREM RepliesAreInOrder == Spec => []RepliesInOrder
<1>1. IInv => RepliesInOrder
  <2> SUFFICES ASSUME IInv, NEW fd \in Fds
               PROVE  got[fd] = [i \in 1 .. Len(got[fd]) |-> i]
    BY Zenon DEF RepliesInOrder
  <2>1. got[fd] \in Seq(Nat) /\ InOrder(got[fd], 0)
    BY Typed, Zenon DEF IInv, FlowInv, FlowOf, Flowing
  <2>2. PICK g \in Seq(Nat) : g = got[fd]
    BY <2>1, Zenon
  <2>3. \A i \in 1 .. Len(g) : g[i] = i
    BY <2>1, <2>2 DEF InOrder
  <2>4. g = [i \in 1 .. Len(g) |-> i]
    BY <2>3
  <2> QED
    BY <2>2, <2>4, Zenon
<1> QED
  BY <1>1, Invariance, PTL

=============================================================================
