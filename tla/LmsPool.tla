------------------------------ MODULE LmsPool ------------------------------
(***************************************************************************)
(* sync/lms_db.py: the lazily built connection pool of one LmsDatabase,    *)
(* shared by the threads that call it.  SyncSupervisor's instance is used  *)
(* by the flush thread (save_punches), by the health check's worker        *)
(* threads (healthy) and by stop() (close).                                *)
(*                                                                         *)
(* The attribute self._pool is read without the lock in several places;    *)
(* each read is a step of its own.  The pool itself is psycopg2's and is   *)
(* modelled from how lms_db.py uses it: getconn fails on a closed or an    *)
(* exhausted pool, closeall closes the connections in use too, and the     *)
(* connections that end with the server stay in the pool, or are handed    *)
(* back to it, as they are: the next caller may get one (lms_db.py:96-98). *)
(***************************************************************************)
EXTENDS Naturals, FiniteSets

CONSTANTS
  Caller,      \* threads that run `with self._connection()`
  Closer,      \* threads that only call close()
  Pool,        \* pool objects; one is reused when nothing refers to it
  None,        \* Python's None
  MaxConn,     \* maxconn of the pool
  MaxOutages,  \* bound on the times the server goes away
  MaxFaults    \* bound on refused statements and exceptions of another kind

Thread == Caller \cup Closer

(* There is a pool object that no thread refers to when one is needed.     *)
ASSUME PoolAssumption ==
  /\ None \notin Pool \cup Thread
  /\ Caller \cap Closer = {}
  /\ MaxConn \in Nat \ {0}
  /\ MaxOutages \in Nat /\ MaxFaults \in Nat
  /\ IsFiniteSet(Thread) /\ IsFiniteSet(Pool)
  /\ Cardinality(Thread) < Cardinality(Pool)

VARIABLES
  pool,    \* self._pool
  lock,    \* the thread that holds self._lock, or None
  open,    \* pools on which closeall() has not been called
  stale,   \* open pools that keep a connection which ended with the server
  pc,      \* the step each thread takes next
  local,   \* local[t]: `pool` of _connection, or None
  conn,    \* conn[t]: the pool `conn` came from, or None
  broken,  \* threads whose `conn` ended with the server
  result,  \* how the last call of each thread ended
  up,      \* the server answers
  outages, faults

vars == <<pool, lock, open, stale, pc, local, conn, broken, result,
          up, outages, faults>>
calls == <<local, conn, broken, result>>

PC == {"idle", "reread", "lock", "create", "return", "getconn", "body",
       "closeLock", "closeAll", "closeNone", "check", "putconn", "done"}

Result == {"none", "ok", "LmsUnavailableError", "AttributeError", "other"}

TypeOK ==
  /\ pool \in Pool \cup {None}
  /\ lock \in Thread \cup {None}
  /\ open \subseteq Pool
  /\ stale \subseteq Pool
  /\ pc \in [Thread -> PC]
  /\ local \in [Thread -> Pool \cup {None}]
  /\ conn \in [Thread -> Pool \cup {None}]
  /\ broken \subseteq Thread
  /\ result \in [Thread -> Result]
  /\ up \in BOOLEAN
  /\ outages \in 0..MaxOutages
  /\ faults \in 0..MaxFaults

Init ==
  /\ pool = None
  /\ lock = None
  /\ open = {}
  /\ stale = {}
  /\ pc = [t \in Thread |-> IF t \in Caller THEN "idle" ELSE "closeLock"]
  /\ local = [t \in Thread |-> None]
  /\ conn = [t \in Thread |-> None]
  /\ broken = {}
  /\ result = [t \in Thread |-> "none"]
  /\ up = TRUE
  /\ outages = 0
  /\ faults = 0

Go(t, from, to) == pc[t] = from /\ pc' = [pc EXCEPT ![t] = to]

Ends(t, r) == result' = [result EXCEPT ![t] = r]

(* A connection is open as long as its pool has not been closed.           *)
Alive(t) == conn[t] \in open

(* The connection is of use: the server on its other end answers.          *)
Works(t) == up /\ Alive(t) /\ t \notin broken

InUse(p) == {t \in Thread : conn[t] = p}

Server == <<up, outages>>

(* One of the statements a live server refuses, or of the exceptions of    *)
(* another kind.                                                           *)
Spend == faults < MaxFaults /\ faults' = faults + 1

(* A psycopg2.Error: because nothing else can come of the call, or because *)
(* the server, which is there, will not have it.                           *)
ServerError(unable) == IF unable THEN UNCHANGED faults ELSE Spend

-----------------------------------------------------------------------------
(* _ensure_pool: the first test, and the read that follows it.             *)
Enter(t) ==
  /\ Go(t, "idle", IF pool # None THEN "reread" ELSE "lock")
  /\ Ends(t, "none")
  /\ UNCHANGED <<pool, lock, open, stale, local, conn, broken, faults, Server>>

Reread(t) ==
  /\ Go(t, "reread", "getconn")
  /\ local' = [local EXCEPT ![t] = pool]
  /\ UNCHANGED <<pool, lock, open, stale, conn, broken, result, faults, Server>>

Lock(t) ==
  /\ Go(t, "lock", "create")
  /\ lock = None
  /\ lock' = t
  /\ UNCHANGED <<pool, open, stale, calls, faults, Server>>

Unreferenced == Pool \ ({pool} \cup {local[t] : t \in Thread}
                               \cup {conn[t] : t \in Thread})

NewPool ==
  LET p == CHOOSE q \in Unreferenced : TRUE
  IN  pool' = p /\ open' = open \cup {p}

(* Bug: the second test, under the lock, is left out.                      *)
CreateAlways(t) ==
  /\ pc[t] = "create"
  /\ lock' = None
  /\ \/ /\ up /\ NewPool
        /\ pc' = [pc EXCEPT ![t] = "return"]
        /\ UNCHANGED <<result, faults>>
     \/ /\ ServerError(~up)
        /\ pc' = [pc EXCEPT ![t] = "idle"]
        /\ Ends(t, "LmsUnavailableError")
        /\ UNCHANGED <<pool, open>>
  /\ UNCHANGED <<stale, local, conn, broken, Server>>

(* Bug: no connect_timeout - connecting waits for the server.              *)
CreateWaits(t) ==
  /\ pc[t] = "create"
  /\ lock' = None
  /\ \/ /\ pool # None
        /\ UNCHANGED <<pool, open>>
     \/ /\ pool = None /\ up /\ NewPool
  /\ pc' = [pc EXCEPT ![t] = "return"]
  /\ UNCHANGED <<stale, local, conn, broken, result, faults, Server>>

(* Under the lock: build the pool if there is still none, which connects.  *)
Create(t) ==
  /\ pc[t] = "create"
  /\ lock' = None
  /\ \/ /\ pool # None
        /\ pc' = [pc EXCEPT ![t] = "return"]
        /\ UNCHANGED <<pool, open, result, faults>>
     \/ /\ pool = None /\ up /\ NewPool
        /\ pc' = [pc EXCEPT ![t] = "return"]
        /\ UNCHANGED <<result, faults>>
     \/ /\ pool = None /\ ServerError(~up)
        /\ pc' = [pc EXCEPT ![t] = "idle"]
        /\ Ends(t, "LmsUnavailableError")
        /\ UNCHANGED <<pool, open>>
  /\ UNCHANGED <<stale, local, conn, broken, Server>>

(* `return self._pool`, after the lock has been released.                  *)
Return(t) ==
  /\ Go(t, "return", "getconn")
  /\ local' = [local EXCEPT ![t] = pool]
  /\ UNCHANGED <<pool, lock, open, stale, conn, broken, result, faults, Server>>

-----------------------------------------------------------------------------
(* pool.getconn() on an open pool below its limit: a connection that works *)
(* or the one that ended with the server.                                  *)
Handed(t) ==
  /\ local[t] \in open
  /\ Cardinality(InUse(local[t])) < MaxConn
  /\ conn' = [conn EXCEPT ![t] = local[t]]
  /\ \/ /\ up
        /\ UNCHANGED <<broken, stale>>
     \/ /\ local[t] \in stale
        /\ broken' = broken \cup {t}
        /\ stale' = stale \ {local[t]}

(* pool.getconn(): None has no such method; a PoolError or a failure to    *)
(* connect is a psycopg2.Error, which closes the pool.                     *)
GetConn(t) ==
  /\ pc[t] = "getconn"
  /\ local' = [local EXCEPT ![t] = None]
  /\ \/ /\ local[t] = None
        /\ pc' = [pc EXCEPT ![t] = "idle"]
        /\ Ends(t, "AttributeError")
        /\ UNCHANGED <<stale, conn, broken, faults>>
     \/ /\ Handed(t)
        /\ pc' = [pc EXCEPT ![t] = "body"]
        /\ UNCHANGED <<result, faults>>
     \/ /\ local[t] # None
        /\ ServerError(\/ local[t] \notin open
                       \/ Cardinality(InUse(local[t])) >= MaxConn
                       \/ ~up)
        /\ pc' = [pc EXCEPT ![t] = "closeLock"]
        /\ Ends(t, "LmsUnavailableError")
        /\ UNCHANGED <<stale, conn, broken>>
  /\ UNCHANGED <<pool, lock, open, Server>>

(* The statements and conn.commit(), on a connection that works ...        *)
Body(t) ==
  /\ Works(t)
  /\ Go(t, "body", "check")
  /\ Ends(t, "ok")
  /\ UNCHANGED <<pool, lock, open, stale, local, conn, broken, faults, Server>>

(* Bug: the psycopg2.Error is let through as it is.                        *)
BodyFailsUnwrapped(t) ==
  /\ ServerError(~Works(t))
  /\ Go(t, "body", "closeLock")
  /\ Ends(t, "OperationalError")
  /\ UNCHANGED <<pool, lock, open, stale, local, conn, broken, Server>>

(* Bug: the pool is not closed.                                            *)
BodyFailsKeepsPool(t) ==
  /\ ServerError(~Works(t))
  /\ Go(t, "body", "check")
  /\ Ends(t, "LmsUnavailableError")
  /\ UNCHANGED <<pool, lock, open, stale, local, conn, broken, Server>>

(* ... or a psycopg2.Error, on a connection that is gone or because the    *)
(* server refuses a row: roll back (suppressed) and close the pool ...     *)
BodyFails(t) ==
  /\ ServerError(~Works(t))
  /\ Go(t, "body", "closeLock")
  /\ Ends(t, "LmsUnavailableError")
  /\ UNCHANGED <<pool, lock, open, stale, local, conn, broken, Server>>

(* ... or an exception of another kind, which no clause takes: the pool    *)
(* stays as it is.                                                         *)
BodyRaises(t) ==
  /\ Spend
  /\ Go(t, "body", "check")
  /\ Ends(t, "other")
  /\ UNCHANGED <<pool, lock, open, stale, local, conn, broken, Server>>

-----------------------------------------------------------------------------
(* close() closes whatever pool is current by now.                         *)
CloseLock(t) ==
  /\ Go(t, "closeLock", "closeAll")
  /\ lock = None
  /\ lock' = t
  /\ UNCHANGED <<pool, open, stale, calls, faults, Server>>

CloseAll(t) ==
  /\ Go(t, "closeAll", "closeNone")
  /\ open' = open \ {pool}
  /\ stale' = stale \ {pool}
  /\ UNCHANGED <<pool, lock, calls, faults, Server>>

CloseNone(t) ==
  /\ Go(t, "closeNone",
        IF t \in Closer THEN "done" ELSE IF conn[t] = None THEN "idle" ELSE "check")
  /\ pool' = None
  /\ lock' = None
  /\ UNCHANGED <<open, stale, calls, faults, Server>>

Release(t) ==
  /\ conn' = [conn EXCEPT ![t] = None]
  /\ broken' = broken \ {t}

(* finally: `self._pool is not None` ...                                   *)
Check(t) ==
  /\ pc[t] = "check"
  /\ IF pool # None
       THEN /\ pc' = [pc EXCEPT ![t] = "putconn"]
            /\ UNCHANGED <<conn, broken>>
       ELSE /\ pc' = [pc EXCEPT ![t] = "idle"]
            /\ Release(t)
  /\ UNCHANGED <<pool, lock, open, stale, local, result, faults, Server>>

(* ... and self._pool.putconn(conn), which reads the attribute again.  A   *)
(* connection of another pool or a closed pool is a PoolError, suppressed; *)
(* one that is broken is kept, if the pool does not notice.                *)
PutConn(t) ==
  /\ Go(t, "putconn", "idle")
  /\ Release(t)
  /\ stale' \in {stale} \cup (IF t \in broken /\ Alive(t) /\ conn[t] = pool
                                THEN {stale \cup {pool}} ELSE {})
  /\ IF pool = None THEN Ends(t, "AttributeError") ELSE UNCHANGED result
  /\ UNCHANGED <<pool, lock, open, local, faults, Server>>

-----------------------------------------------------------------------------
(* The server ends, and every connection to it.                            *)
ServerDown ==
  /\ up
  /\ outages < MaxOutages
  /\ up' = FALSE
  /\ outages' = outages + 1
  /\ stale' = open
  /\ broken' = {t \in Thread : conn[t] # None}
  /\ UNCHANGED <<pool, lock, open, pc, local, conn, result, faults>>

ServerUp ==
  /\ ~up
  /\ up' = TRUE
  /\ UNCHANGED <<pool, lock, open, stale, pc, calls, outages, faults>>

CallStep(t) ==
  \/ Reread(t) \/ Lock(t) \/ Create(t) \/ Return(t)
  \/ GetConn(t) \/ Body(t) \/ BodyFails(t) \/ BodyRaises(t)
  \/ CloseLock(t) \/ CloseAll(t) \/ CloseNone(t)
  \/ Check(t) \/ PutConn(t)

Next ==
  \/ \E t \in Thread : Enter(t) \/ CallStep(t)
  \/ ServerDown \/ ServerUp

Spec == Init /\ [][Next]_vars

(* A call that has begun goes on, and a lock that is free again and again  *)
(* is obtained; nobody has to call, and the server may stay away.          *)
FairSpec ==
  /\ Spec
  /\ \A t \in Thread :
       WF_vars(CallStep(t)) /\ SF_vars(Lock(t)) /\ SF_vars(CloseLock(t))

-----------------------------------------------------------------------------
(* At most one pool is open, and it is the one every later call will find: *)
(* no pool and no live connection is forgotten, whatever the threads read  *)
(* without the lock (lms_db.py:57-82).                                     *)
NoForgottenPool ==
  /\ open \subseteq {pool}
  /\ \A t \in Thread : Alive(t) => conn[t] = pool

(* The pool's limit holds for the server too: the live connections of all  *)
(* pools together are at most MaxConn (lms_db.py:69).                      *)
ServerConnections == Cardinality({t \in Thread : Alive(t)}) <= MaxConn

(* stop() returns: close() always gets the lock in the end, even if the    *)
(* server never answers (supervisor.py:80).                                *)
CloseReturns == \A t \in Closer : <>(pc[t] = "done")

(* The way back from a Postgres restart: a thread that goes on calling is  *)
(* not given a connection that ended with the server again and again.      *)
(* Once nobody else calls (another caller's close() could take the new     *)
(* pool away) and the server refuses no more of its rows, it gets its      *)
(* answer (lms_db.py:96-99).                                               *)
Recovers ==
  <>[]up => \A t \in Caller :
    /\ []<>(pc[t] # "idle")
    /\ <>[](\A u \in Caller \ {t} : pc[u] = "idle")
    => []<>(result[t] = "ok")
=============================================================================
