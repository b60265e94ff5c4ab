----------------------------- MODULE CacheSpec -----------------------------
(***************************************************************************)
(* What a cache promises, without timestamps, CAS values or lazy removal:  *)
(* a dictionary whose operations are atomic.  An entry may vanish by       *)
(* itself only if it was given an expiration, or if it is evicted to make  *)
(* room for another key.                                                   *)
(***************************************************************************)
CONSTANTS Keys, Vals, NoVal, NoKey

VARIABLES
    dict,    \* the value of each key, or NoVal
    mortal,  \* whether the entry of a key has an expiration
    ret      \* what the last operation returned

cacheVars == <<dict, mortal, ret>>

\* mortal tells whether the operation asked for an expiration.
Wrote(op, k, status, v, b) ==
    [op |-> op, key |-> k, status |-> status, val |-> v, mortal |-> b]
Reply(op, k, status, v) == Wrote(op, k, status, v, FALSE)

Has(k) == dict[k] # NoVal

\* There is no entry, or there is one that may have expired.
MayMiss(k) == ~Has(k) \/ mortal[k]

Init ==
    /\ dict = [k \in Keys |-> NoVal]
    /\ mortal = [k \in Keys |-> FALSE]
    /\ ret = Reply("none", NoKey, "NONE", NoVal)

Lose(K) ==
    /\ dict' = [k \in Keys |-> IF k \in K THEN NoVal ELSE dict[k]]
    /\ mortal' = [k \in Keys |-> IF k \in K THEN FALSE ELSE mortal[k]]

Begin ==
    /\ ret' = Reply("none", NoKey, "NONE", NoVal)
    /\ UNCHANGED <<dict, mortal>>

Get(k) ==
    /\ Has(k)
    /\ ret' = Reply("load", k, "FOUND", dict[k])
    /\ UNCHANGED <<dict, mortal>>

Miss(k) ==
    /\ MayMiss(k)
    /\ Lose({k})
    /\ \E op \in {"load", "delete", "store"} :
          ret' = Reply(op, k, "NOTFOUND", NoVal)

\* A refused or cancelled operation leaves the entry as it was.
Keep(k) ==
    /\ Has(k)
    /\ \/ ret' = Reply("store", k, "FOUND", NoVal)
       \/ \E op \in {"store", "delete"} :
             ret' = Reply(op, k, "CANCELED", NoVal)
       \/ ret' = Reply("update", k, "NOMEM", NoVal)
    /\ UNCHANGED <<dict, mortal>>

NoMem(k) ==
    /\ ret' = Reply("store", k, "NOMEM", NoVal)
    /\ UNCHANGED <<dict, mortal>>

Remove(k) ==
    /\ Has(k)
    /\ Lose({k})
    /\ ret' = Reply("delete", k, "DELETED", NoVal)

Replace(k, v) ==
    /\ Has(k)
    /\ dict' = [dict EXCEPT ![k] = v]
    /\ \E b \in BOOLEAN :
          /\ mortal' = [mortal EXCEPT ![k] = b]
          /\ \/ ret' = Wrote("store", k, "REPLACED", v, b)
             \/ ret' = Wrote("update", k, "FOUND", v, b)

\* x is the key that is evicted; k itself when there is none.
Insert(k, v, x) ==
    /\ MayMiss(k)
    /\ x # k => ~Has(k)
    /\ dict' = [j \in Keys |-> IF j = k THEN v ELSE IF j = x THEN NoVal
                               ELSE dict[j]]
    /\ \E b \in BOOLEAN :
          /\ mortal' = [j \in Keys |-> IF j = k THEN b ELSE IF j = x THEN FALSE
                                       ELSE mortal[j]]
          /\ ret' = Wrote("store", k, "INSERTED", v, b)

\* An entry that is stored with an expiration may be gone by the end of the store.
Vanish(k, v) ==
    /\ ~Has(k)
    /\ ret' = Wrote("store", k, "INSERTED", v, TRUE)
    /\ UNCHANGED <<dict, mortal>>

Clear ==
    /\ Lose(Keys)
    /\ ret' = Reply("clear", NoKey, "FINISHED", NoVal)

Sweep ==
    /\ \E K \in SUBSET {k \in Keys : mortal[k]} : Lose(K)
    /\ ret' = Reply("sweep", NoKey, "FINISHED", NoVal)

Iter ==
    /\ \E K \in SUBSET {k \in Keys : Has(k)} : Lose(K)
    /\ \E status \in {"FINISHED", "CANCELED"} :
          ret' = Reply("iter", NoKey, status, NoVal)

Next ==
    \/ Begin
    \/ \E k \in Keys :
          \/ Get(k) \/ Miss(k) \/ Keep(k) \/ NoMem(k) \/ Remove(k)
          \/ \E v \in Vals :
                Replace(k, v) \/ Vanish(k, v) \/ \E x \in Keys : Insert(k, v, x)
    \/ Clear
    \/ Sweep
    \/ Iter

Spec == Init /\ [][Next]_cacheVars
=============================================================================
