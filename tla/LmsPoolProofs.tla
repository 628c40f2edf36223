---------------------------- MODULE LmsPoolProofs ----------------------------
(***************************************************************************)
(* Theorems about LmsPool, for any threads, any limit and any outages.     *)
(***************************************************************************)
EXTENDS LmsPool, FiniteSetTheorems, TLAPS

LockedPC == {"create", "closeAll", "closeNone"}
CloserPC == {"closeLock", "closeAll", "closeNone", "done"}
ConnPC == {"body", "closeLock", "closeAll", "closeNone", "check", "putconn"}

(* Who has the lock, and what a thread refers to where it stands.          *)
Placed ==
  \A t \in Thread :
    /\ lock = t <=> pc[t] \in LockedPC
    /\ local[t] # None => pc[t] = "getconn"
    /\ conn[t] # None => pc[t] \in ConnPC
    /\ pc[t] = "closeNone" => open = {}
    /\ t \in Closer => conn[t] = None /\ pc[t] \in CloserPC

(* Each pool hands out what it may, also one that is closed.               *)
Limited == \A p \in Pool : Cardinality(InUse(p)) <= MaxConn

IInv == TypeOK /\ Placed /\ NoForgottenPool /\ Limited

-----------------------------------------------------------------------------
(* Threads are a finite set, and so are those that use a pool.             *)
LEMMA InUseFinite ==
  ASSUME NEW S \in SUBSET Thread
  PROVE  IsFiniteSet(S) /\ Cardinality(S) \in Nat
BY PoolAssumption, FS_Subset, FS_CardinalityType

(* A thread that builds a pool refers to none, and every other thread to   *)
(* one at most: there is an object left for it.                            *)
LEMMA PoolLeft ==
  ASSUME TypeOK, Placed, pool = None
  PROVE  Unreferenced # {}
<1> DEFINE Refers(t, p) == local[t] = p \/ conn[t] = p
           user == [p \in Pool |-> CHOOSE t \in Thread : Refers(t, p)]
<1>1. SUFFICES ASSUME Unreferenced = {}
               PROVE  FALSE
  OBVIOUS
<1>2. \A p \in Pool : \E t \in Thread : Refers(t, p)
  BY <1>1, PoolAssumption DEF Unreferenced
<1>3. \A p \in Pool : user[p] \in Thread /\ Refers(user[p], p)
  BY <1>2
<1>4. user \in [Pool -> Thread]
  BY <1>3
<1>5. \A t \in Thread, p, q \in Pool : Refers(t, p) /\ Refers(t, q) => p = q
  BY PoolAssumption DEF Placed, ConnPC
<1> HIDE DEF user
<1>6. \E p, q \in Pool : p # q /\ user[p] = user[q]
  BY <1>4, FS_PigeonHole, PoolAssumption
<1>7. QED
  BY <1>3, <1>5, <1>6

LEMMA NewPoolIsNew ==
  ASSUME TypeOK, Placed, pool = None, NewPool
  PROVE  /\ pool' \in Pool
         /\ open' = open \cup {pool'}
         /\ \A t \in Thread : local[t] # pool' /\ conn[t] # pool'
<1>1. pool' \in Unreferenced
  BY PoolLeft DEF NewPool
<1>2. QED
  BY <1>1 DEF NewPool, Unreferenced

-----------------------------------------------------------------------------
(* Every variable keeps its type.                                          *)
LEMMA TypeStep == TypeOK /\ Placed /\ [Next]_vars => TypeOK'
<1> SUFFICES ASSUME TypeOK, Placed, [Next]_vars
             PROVE  TypeOK'
  OBVIOUS
<1> USE PoolAssumption DEF TypeOK, PC, Result
<1>0. faults' \in 0..MaxFaults
  <2>1. UNCHANGED faults \/ Spend
    BY DEF Next, CallStep, Enter, Reread, Lock, Create, Return, GetConn, Handed,
           Body, BodyFails, BodyRaises, ServerError, CloseLock, CloseAll,
           CloseNone, Check, PutConn, ServerDown, ServerUp, vars
  <2>2. QED
    BY <2>1 DEF Spend
<1>1. ASSUME NEW t \in Thread, Enter(t)
      PROVE  TypeOK'
  BY <1>0, <1>1 DEF Enter, Go, Ends, Server
<1>2. ASSUME NEW t \in Thread, Reread(t) \/ Return(t)
      PROVE  TypeOK'
  BY <1>0, <1>2 DEF Reread, Return, Go, Server
<1>3. ASSUME NEW t \in Thread, Lock(t) \/ CloseLock(t)
      PROVE  TypeOK'
  BY <1>0, <1>3 DEF Lock, CloseLock, Go, Server, calls
<1>4. ASSUME NEW t \in Thread, Create(t)
      PROVE  TypeOK'
  <2>1. pool' \in Pool \cup {None} /\ open' \subseteq Pool
    BY <1>4, NewPoolIsNew DEF Create
  <2>2. QED
    BY <1>0, <1>4, <2>1 DEF Create, Ends, Server
<1>5. ASSUME NEW t \in Thread, GetConn(t)
      PROVE  TypeOK'
  <2>1. stale' \subseteq Pool /\ broken' \subseteq Thread
        /\ conn' \in [Thread -> Pool \cup {None}]
    BY <1>5 DEF GetConn, Handed
  <2>2. local' \in [Thread -> Pool \cup {None}] /\ pc' \in [Thread -> PC]
        /\ result' \in [Thread -> Result]
    BY <1>5 DEF GetConn, Ends
  <2>3. QED
    BY <1>0, <1>5, <2>1, <2>2 DEF GetConn, Server
<1>6. ASSUME NEW t \in Thread, Body(t) \/ BodyFails(t) \/ BodyRaises(t)
      PROVE  TypeOK'
  BY <1>0, <1>6 DEF Body, BodyFails, BodyRaises, Go, Ends, Server
<1>7. ASSUME NEW t \in Thread, CloseAll(t)
      PROVE  TypeOK'
  BY <1>0, <1>7 DEF CloseAll, Go, calls, Server
<1>8. ASSUME NEW t \in Thread, CloseNone(t)
      PROVE  TypeOK'
  BY <1>0, <1>8 DEF CloseNone, Go, calls, Server
<1>9. ASSUME NEW t \in Thread, Check(t)
      PROVE  TypeOK'
  BY <1>0, <1>9 DEF Check, Release, Server
<1>10. ASSUME NEW t \in Thread, PutConn(t)
       PROVE  TypeOK'
  <2>1. stale' \subseteq Pool
    BY <1>10 DEF PutConn, Alive
  <2>2. QED
    BY <1>0, <1>10, <2>1 DEF PutConn, Release, Go, Ends, Server
<1>11. CASE ServerDown
  <2>1. outages' \in 0..MaxOutages
    BY <1>0, <1>11 DEF ServerDown
  <2>2. QED
    BY <1>0, <1>11, <2>1 DEF ServerDown, calls
<1>12. CASE ServerUp
  BY <1>0, <1>12 DEF ServerUp, calls
<1>13. CASE UNCHANGED vars
  BY <1>0, <1>13 DEF vars
<1>14. QED
  BY <1>1, <1>2, <1>3, <1>4, <1>5, <1>6, <1>7, <1>8, <1>9, <1>10, <1>11,
     <1>12, <1>13 DEF Next, CallStep

(* The lock keeps a pool from being built between the two halves of a      *)
(* close, so that the attribute is reset only when no pool is open.        *)
LEMMA PoolStep ==
  TypeOK /\ Placed /\ NoForgottenPool /\ [Next]_vars
    => Placed' /\ NoForgottenPool'
<1> SUFFICES ASSUME TypeOK, Placed, NoForgottenPool, [Next]_vars
             PROVE  Placed' /\ NoForgottenPool'
  OBVIOUS
<1> USE PoolAssumption DEF TypeOK, Placed, NoForgottenPool, LockedPC, ConnPC,
                           CloserPC, Alive
<1>1. ASSUME NEW t \in Thread, Enter(t)
      PROVE  Placed' /\ NoForgottenPool'
  BY <1>1 DEF Enter, Go, Server
<1>2. ASSUME NEW t \in Thread, Reread(t) \/ Return(t)
      PROVE  Placed' /\ NoForgottenPool'
  BY <1>2 DEF Reread, Return, Go, Server
<1>3. ASSUME NEW t \in Thread, Lock(t) \/ CloseLock(t)
      PROVE  Placed' /\ NoForgottenPool'
  BY <1>3 DEF Lock, CloseLock, Go, Server, calls
<1>4. ASSUME NEW t \in Thread, Create(t)
      PROVE  Placed' /\ NoForgottenPool'
  <2>1. CASE UNCHANGED <<pool, open>>
    BY <1>4, <2>1 DEF Create, Server
  <2>2. CASE pool = None /\ NewPool /\ pc' = [pc EXCEPT ![t] = "return"]
    <3>1. NewPool /\ UNCHANGED <<local, conn>> /\ lock' = None /\ lock = t
          /\ pc[t] = "create" /\ pc' = [pc EXCEPT ![t] = "return"]
      BY <1>4, <2>2 DEF Create
    <3>2. open' = {pool'} /\ \A u \in Thread : conn[u] # pool'
      BY <2>2, <3>1, NewPoolIsNew
    <3>3. \A u \in Thread : pc[u] # "closeNone"
      BY <1>4, <3>1 DEF Create
    <3>4. Placed'
      BY <3>1, <3>3
    <3>5. NoForgottenPool'
      BY <3>1, <3>2
    <3>6. QED
      BY <3>4, <3>5
  <2>3. QED
    BY <1>4, <2>1, <2>2 DEF Create
<1>5. ASSUME NEW t \in Thread, GetConn(t)
      PROVE  Placed' /\ NoForgottenPool'
  <2>1. /\ pc[t] = "getconn" /\ pc' = [pc EXCEPT ![t] = pc'[t]]
        /\ pc'[t] \in {"idle", "body", "closeLock"}
        /\ local' = [local EXCEPT ![t] = None]
        /\ UNCHANGED <<pool, lock, open>>
        /\ \/ UNCHANGED conn
           \/ /\ pc'[t] = "body" /\ local[t] \in open
              /\ conn' = [conn EXCEPT ![t] = local[t]]
    BY <1>5 DEF GetConn, Handed
  <2>2. QED
    BY <2>1
<1>6. ASSUME NEW t \in Thread, Body(t) \/ BodyFails(t) \/ BodyRaises(t)
      PROVE  Placed' /\ NoForgottenPool'
  BY <1>6 DEF Body, BodyFails, BodyRaises, Go, Server
<1>7. ASSUME NEW t \in Thread, CloseAll(t)
      PROVE  Placed' /\ NoForgottenPool'
  BY <1>7 DEF CloseAll, Go, calls, Server
<1>8. ASSUME NEW t \in Thread, CloseNone(t)
      PROVE  Placed' /\ NoForgottenPool'
  BY <1>8 DEF CloseNone, Go, calls, Server
<1>9. ASSUME NEW t \in Thread, Check(t)
      PROVE  Placed' /\ NoForgottenPool'
  BY <1>9 DEF Check, Release, Server
<1>10. ASSUME NEW t \in Thread, PutConn(t)
       PROVE  Placed' /\ NoForgottenPool'
  BY <1>10 DEF PutConn, Release, Go, Server
<1>11. CASE ServerDown \/ ServerUp \/ UNCHANGED vars
  BY <1>11 DEF ServerDown, ServerUp, vars, calls
<1>12. QED
  BY <1>1, <1>2, <1>3, <1>4, <1>5, <1>6, <1>7, <1>8, <1>9, <1>10, <1>11
     DEF Next, CallStep

(* getconn() alone makes a pool busier, and only below its limit.          *)
LEMMA LimitStep == TypeOK /\ Limited /\ [Next]_vars => Limited'
<1> SUFFICES ASSUME TypeOK, Limited, [Next]_vars, NEW p \in Pool
             PROVE  Cardinality(InUse(p)') <= MaxConn
  BY DEF Limited
<1>1. IsFiniteSet(InUse(p)) /\ Cardinality(InUse(p)) \in Nat
      /\ Cardinality(InUse(p)) <= MaxConn
  BY InUseFinite DEF InUse, Limited
<1>2. CASE InUse(p)' \subseteq InUse(p)
  BY <1>1, <1>2, FS_Subset, FS_CardinalityType, PoolAssumption
<1>3. ASSUME NEW t \in Thread, GetConn(t)
      PROVE  Cardinality(InUse(p)') <= MaxConn
  <2>1. CASE conn' = conn
    BY <1>2, <2>1 DEF InUse
  <2>2. CASE conn' = [conn EXCEPT ![t] = local[t]] /\ local[t] # p
    BY <1>2, <2>2 DEF InUse, TypeOK
  <2>3. CASE /\ conn' = [conn EXCEPT ![t] = local[t]] /\ local[t] = p
             /\ Cardinality(InUse(p)) < MaxConn
    <3>1. InUse(p)' = InUse(p) \cup {t}
      BY <2>3 DEF InUse, TypeOK
    <3>2. Cardinality(InUse(p)') <= Cardinality(InUse(p)) + 1
      BY <1>1, <3>1, FS_AddElement
    <3>3. Cardinality(InUse(p)') \in Nat
      BY <1>1, <3>1, FS_AddElement, FS_CardinalityType
    <3>4. QED
      BY <1>1, <2>3, <3>2, <3>3, PoolAssumption
  <2>4. QED
    BY <1>3, <2>1, <2>2, <2>3 DEF GetConn, Handed
<1>4. ASSUME \A t \in Thread : ~GetConn(t)
      PROVE  InUse(p)' \subseteq InUse(p)
  <2>1. \A t \in Thread : conn'[t] = conn[t] \/ conn'[t] = None
    BY <1>4 DEF Next, CallStep, Enter, Reread, Lock, Create, Return, Body,
                BodyFails, BodyRaises, CloseLock, CloseAll, CloseNone,
                Check, PutConn, Release,
                ServerDown, ServerUp, calls, vars, TypeOK
  <2>2. QED
    BY <2>1, PoolAssumption DEF InUse
<1>5. QED
  BY <1>2, <1>3, <1>4

LEMMA Initially == Init => IInv
<1> SUFFICES ASSUME Init
             PROVE  IInv
  OBVIOUS
<1>1. TypeOK /\ Placed /\ NoForgottenPool
  BY PoolAssumption DEF Init, TypeOK, PC, Result, Placed, LockedPC, ConnPC,
                        CloserPC, NoForgottenPool, Alive
<1>2. \A p \in Pool : InUse(p) = {}
  BY PoolAssumption DEF Init, InUse
<1>3. QED
  BY <1>1, <1>2, FS_EmptySet, PoolAssumption DEF IInv, Limited

LEMMA Invariant == Spec => []IInv
<1>1. IInv /\ [Next]_vars => IInv'
  BY TypeStep, PoolStep, LimitStep DEF IInv
<1>2. QED
  BY Initially, <1>1, PTL DEF Spec

-----------------------------------------------------------------------------
(* The attribute, the lock and the threads are what the code can leave     *)
(* behind (lms_db.py:48-104).                                              *)
THEOREM TypeCorrect == Spec => []TypeOK
  BY Invariant, PTL DEF IInv

(* No pool that is open is forgotten, whatever the threads read without    *)
(* the lock (lms_db.py:57-82).                                             *)
THEOREM PoolIsKept == Spec => []NoForgottenPool
  BY Invariant, PTL DEF IInv

(* The server sees no more connections than one pool may have, also while  *)
(* pools are thrown away and built anew (lms_db.py:69).                    *)
THEOREM ServerIsSpared == Spec => []ServerConnections
<1>1. IInv => ServerConnections
  <2> SUFFICES ASSUME IInv
               PROVE  ServerConnections
    OBVIOUS
  <2> DEFINE alive == {t \in Thread : Alive(t)}
  <2>1. CASE pool = None
    <3>1. alive = {}
      BY <2>1, PoolAssumption DEF IInv, TypeOK, NoForgottenPool, Alive
    <3>2. QED
      BY <3>1, FS_EmptySet, PoolAssumption DEF ServerConnections
  <2>2. CASE pool \in Pool
    <3>1. alive \subseteq InUse(pool)
      BY DEF IInv, NoForgottenPool, InUse
    <3>2. Cardinality(alive) <= Cardinality(InUse(pool))
      BY <3>1, InUseFinite, FS_Subset DEF InUse
    <3>3. Cardinality(alive) \in Nat /\ Cardinality(InUse(pool)) \in Nat
      BY InUseFinite DEF InUse
    <3>4. QED
      BY <2>2, <3>2, <3>3, PoolAssumption DEF IInv, Limited, ServerConnections
  <2>3. QED
    BY <2>1, <2>2 DEF IInv, TypeOK
<1>2. QED
  BY Invariant, <1>1, PTL

-----------------------------------------------------------------------------
(* Calls end                                                               *)

(* The steps a call has left.                                              *)
Remaining(t) ==
  CASE pc[t] = "lock"      -> 10
    [] pc[t] = "create"    -> 9
    [] pc[t] = "reread"    -> 8
    [] pc[t] = "return"    -> 8
    [] pc[t] = "getconn"   -> 7
    [] pc[t] = "body"      -> 6
    [] pc[t] = "closeLock" -> 5
    [] pc[t] = "closeAll"  -> 4
    [] pc[t] = "closeNone" -> 3
    [] pc[t] = "check"     -> 2
    [] pc[t] = "putconn"   -> 1
    [] OTHER               -> 0

(* The only thing a call ever waits for.                                   *)
WaitsForLock(t) == pc[t] \in {"lock", "closeLock"} /\ lock # None

(* Where a step of a call leads.                                           *)
LEMMA StepsLead ==
  ASSUME TypeOK, NEW t \in Thread, CallStep(t)
  PROVE  /\ \A u \in Thread \ {t} : pc'[u] = pc[u]
         /\ \/ pc[t] = "lock" /\ pc'[t] = "create"
            \/ pc[t] = "create" /\ pc'[t] \in {"return", "idle"}
            \/ pc[t] \in {"reread", "return"} /\ pc'[t] = "getconn"
            \/ pc[t] = "getconn" /\ pc'[t] \in {"idle", "body", "closeLock"}
            \/ pc[t] = "body" /\ pc'[t] \in {"check", "closeLock"}
            \/ pc[t] = "closeLock" /\ pc'[t] = "closeAll"
            \/ pc[t] = "closeAll" /\ pc'[t] = "closeNone"
            \/ pc[t] = "closeNone" /\ pc'[t] \in {"done", "idle", "check"}
            \/ pc[t] = "check" /\ pc'[t] \in {"putconn", "idle"}
            \/ pc[t] = "putconn" /\ pc'[t] = "idle"
  BY DEF CallStep, Reread, Lock, Create, Return, GetConn, Handed, Body, BodyFails,
         BodyRaises,          CloseLock, CloseAll, CloseNone, Check, PutConn, Go, TypeOK

(* What a step does to the calls.                                          *)
LEMMA CallsShrink ==
  ASSUME TypeOK, [Next]_vars, NEW t \in Thread
  PROVE  /\ CallStep(t) => Remaining(t)' < Remaining(t)
         /\ Remaining(t)' > Remaining(t) => Enter(t)
<1>1. CASE CallStep(t)
  <2>1. Remaining(t)' < Remaining(t) /\ Remaining(t) \in 0..10
        /\ Remaining(t)' \in 0..10
    BY <1>1, StepsLead DEF Remaining
  <2>2. QED
    BY <2>1
<1>2. CASE ~CallStep(t) /\ ~Enter(t)
  <2>1. pc'[t] = pc[t]
    <3>1. ASSUME NEW u \in Thread, u # t, Enter(u) \/ CallStep(u)
          PROVE  pc'[t] = pc[t]
      BY <3>1, StepsLead DEF Enter, Go, TypeOK
    <3>2. CASE ServerDown \/ ServerUp \/ UNCHANGED vars
      BY <3>2 DEF ServerDown, ServerUp, vars
    <3>3. QED
      BY <1>2, <3>1, <3>2 DEF Next
  <2>2. Remaining(t)' = Remaining(t) /\ Remaining(t) \in 0..10
    BY <2>1 DEF Remaining
  <2>3. QED
    BY <1>2, <2>2
<1>3. CASE Enter(t) /\ ~CallStep(t)
  BY <1>3
<1>4. QED
  BY <1>1, <1>2, <1>3

(* supervisor.py:80, lms_db.py:55-104, without fairness: a call of any     *)
(* thread, stop()'s close() among them, is at most ten steps of its own    *)
(* from its end and none of them leads back, whatever the server does.     *)
(* The only thread it ever waits for is the one that has the lock, and     *)
(* that one waits for no other.                                            *)
THEOREM CallsReturn ==
  Spec =>
    /\ [](\A t \in Thread :
            /\ Remaining(t) \in 0..10
            /\ Remaining(t) = 0 <=> pc[t] \in {"idle", "done"}
            /\ WaitsForLock(t) =>
                 /\ lock \in Thread \ {t} /\ pc[lock] \in LockedPC
                 /\ \A u \in Thread \ {lock} : pc[u] \notin LockedPC)
    /\ [][\A t \in Thread : /\ CallStep(t) => Remaining(t)' < Remaining(t)
                            /\ Remaining(t)' > Remaining(t) => Enter(t)]_vars
<1> DEFINE Bound == \A t \in Thread :
             /\ Remaining(t) \in 0..10
             /\ Remaining(t) = 0 <=> pc[t] \in {"idle", "done"}
             /\ WaitsForLock(t) =>
                  /\ lock \in Thread \ {t} /\ pc[lock] \in LockedPC
                  /\ \A u \in Thread \ {lock} : pc[u] \notin LockedPC
           Shrink == \A t \in Thread :
             /\ CallStep(t) => Remaining(t)' < Remaining(t)
             /\ Remaining(t)' > Remaining(t) => Enter(t)
<1>1. IInv => Bound
  <2> SUFFICES ASSUME IInv, NEW t \in Thread
               PROVE  /\ Remaining(t) \in 0..10
                      /\ Remaining(t) = 0 <=> pc[t] \in {"idle", "done"}
                      /\ WaitsForLock(t) =>
                           /\ lock \in Thread \ {t} /\ pc[lock] \in LockedPC
                           /\ \A u \in Thread \ {lock} : pc[u] \notin LockedPC
    OBVIOUS
  <2>1. Remaining(t) \in 0..10
    BY DEF Remaining
  <2>2. pc[t] \in {"idle", "done"} => Remaining(t) = 0
    BY DEF Remaining
  <2>3. pc[t] \notin {"idle", "done"} => Remaining(t) \in 1..10
    BY DEF Remaining, IInv, TypeOK, PC
  <2>4. ASSUME WaitsForLock(t)
        PROVE  /\ lock \in Thread \ {t} /\ pc[lock] \in LockedPC
               /\ \A u \in Thread \ {lock} : pc[u] \notin LockedPC
    BY <2>4 DEF WaitsForLock, IInv, TypeOK, Placed, LockedPC
  <2>5. QED
    BY <2>1, <2>2, <2>3, <2>4
<1>2. IInv /\ [Next]_vars => Shrink
  BY CallsShrink DEF IInv
<1> HIDE DEF Bound, Shrink
<1>3. Spec => []Bound
  BY <1>1, Invariant, PTL
<1>4. Spec => [][Shrink]_vars
  BY <1>2, Invariant, PTL DEF Spec
<1>5. QED
  BY <1>3, <1>4, PTL DEF Bound, Shrink

-----------------------------------------------------------------------------
(* A thread with a pool of its own                                         *)

Alone == \E c \in Caller : Thread = {c}

(* What a single thread finds where it reads the attribute again.          *)
Finds ==
  \A t \in Thread :
    /\ pc[t] \in {"reread", "return", "putconn"} => pool # None
    /\ pc[t] = "getconn" => local[t] # None
    /\ result[t] # "AttributeError"

(* No step of the only thread takes away what it is about to read.         *)
LEMMA FindsStep == TypeOK /\ Placed /\ Alone /\ Finds /\ [Next]_vars => Finds'
<1> SUFFICES ASSUME TypeOK, Placed, Alone, Finds, [Next]_vars
             PROVE  Finds'
  OBVIOUS
<1>1. PICK c \in Caller : Thread = {c}
  BY DEF Alone
<1>2. c \notin Closer /\ c \in Thread
  BY <1>1, PoolAssumption
<1> SUFFICES /\ pc'[c] \in {"reread", "return", "putconn"} => pool' # None
             /\ pc'[c] = "getconn" => local'[c] # None
             /\ result'[c] # "AttributeError"
  BY <1>1 DEF Finds
<1>3. /\ pc[c] \in {"reread", "return", "putconn"} => pool # None
      /\ pc[c] = "getconn" => local[c] # None
      /\ result[c] # "AttributeError"
  BY <1>2 DEF Finds
<1>4. CASE Enter(c) \/ Reread(c) \/ Lock(c) \/ Return(c)
  BY <1>2, <1>3, <1>4
  DEF Enter, Reread, Lock, Return, Go, Ends, calls, TypeOK
<1>5. CASE Create(c)
  <2>1. NewPool /\ pool = None => pool' \in Pool
    BY NewPoolIsNew
  <2>2. QED
    BY <1>2, <1>3, <1>5, <2>1, PoolAssumption DEF Create, Ends, TypeOK
<1>6. CASE GetConn(c) \/ Body(c) \/ BodyFails(c) \/ BodyRaises(c)
  BY <1>2, <1>3, <1>6 DEF GetConn, Handed, Body, BodyFails, BodyRaises, Go, Ends, TypeOK
<1>7. CASE CloseLock(c) \/ CloseAll(c) \/ CloseNone(c)
  BY <1>2, <1>3, <1>7
  DEF CloseLock, CloseAll, CloseNone, Go, calls, TypeOK
<1>8. CASE Check(c) \/ PutConn(c)
  BY <1>2, <1>3, <1>8 DEF Check, PutConn, Release, Go, Ends, TypeOK
<1>9. CASE ServerDown \/ ServerUp \/ UNCHANGED vars
  BY <1>3, <1>9 DEF ServerDown, ServerUp, vars, calls
<1>10. QED
  BY <1>1, <1>4, <1>5, <1>6, <1>7, <1>8, <1>9 DEF Next, CallStep

(* The callers of lms_db.py expect LmsUnavailableError (lines 33-34).  A    *)
(* thread with an LmsDatabase to itself gets nothing else from the pool    *)
(* and the server, also after an exception of its own has left the pool in *)
(* place: the AttributeError of a pool that became None between two reads  *)
(* takes another thread.                                                   *)
THEOREM AloneIsAnswered ==
  Spec => [](Alone => \A t \in Thread : result[t] # "AttributeError")
<1> DEFINE FindsAlone == Alone => Finds
           Answered == Alone => \A t \in Thread : result[t] # "AttributeError"
<1>1. Init => FindsAlone
  BY DEF Init, Finds
<1>2. IInv /\ FindsAlone /\ [Next]_vars => FindsAlone'
  BY FindsStep DEF IInv, Alone
<1>3. FindsAlone => Answered
  BY DEF Finds
<1> HIDE DEF FindsAlone, Answered
<1>4. Spec => []Answered
  BY <1>1, <1>2, <1>3, Invariant, PTL DEF Spec
<1>5. QED
  BY <1>4 DEF Answered
=============================================================================
