--------------------------- MODULE PunchPipeline ---------------------------
(***************************************************************************)
(* The path of a pushed punch into the LMS: push_ingest.ingest on the      *)
(* event loop ("push"), SyncSupervisor._run on its own thread ("flush"),   *)
(* the spool file between them and LmsDatabase.save_punches behind both.   *)
(*                                                                         *)
(* Both threads drain the spool and save what they drained; ingest then    *)
(* saves the request's own punches and answers the reader, which never     *)
(* sends an answered punch again.                                          *)
(***************************************************************************)
EXTENDS PunchSpool, Naturals

CONSTANTS
  Poison,     \* punches whose row Postgres refuses (a psycopg2.Error too)
  MaxFaults   \* MaxFaults[k]: how many faults of kind k a behaviour has

FaultKind == {"outage", "lostReply", "unexpected", "disk", "crash", "stop"}

ASSUME PipelineAssumption ==
  /\ Thread = {"push", "flush"}
  /\ Poison \subseteq Punch
  /\ MaxFaults \in [FaultKind -> Nat]

VARIABLES
  pc,        \* pc[t]: the step thread t takes next
  batch,     \* batch[t]: `waiting`, the punches t drained and still holds
  req,       \* the punches of the request being ingested
  err,       \* the exception the flush thread is handling
  stopping,  \* SyncSupervisor._stop
  up,        \* the LMS answers
  db,        \* rows of biometric_punch_log
  faults,    \* faults so far, by kind
  acked,     \* history: punches whose request was answered
  mishap     \* history: the ways in which a punch may have been dropped

pipeVars == <<pc, batch, req, err, stopping, up, db, faults, acked, mishap>>
vars == <<inside, exists, content, torn, fd, pipeVars>>

PC == {"idle", "wait", "drain", "read", "unlink", "saveHeld", "restore",
       "restoreWrite", "saveReq", "addReq", "addReqWrite", "dead", "ended"}

(* The ways in which an answered punch can be dropped, by their cause.     *)
Mishap == {"overlap", "killed", "unexpected", "disk"}

TypeOK ==
  /\ SpoolTypeOK
  /\ pc \in [Thread -> PC]
  /\ batch \in [Thread -> SUBSET Punch]
  /\ req \subseteq Punch
  /\ err \in {"none", "unavailable", "unexpected"}
  /\ stopping \in BOOLEAN
  /\ up \in BOOLEAN
  /\ db \subseteq Punch
  /\ faults \in [FaultKind -> Nat]
  /\ acked \subseteq Punch
  /\ mishap \subseteq Mishap

Boot == [t \in Thread |-> IF t = "push" THEN "idle" ELSE "wait"]

Init ==
  /\ SpoolInit
  /\ pc = Boot
  /\ batch = [t \in Thread |-> {}]
  /\ req = {}
  /\ err = "none"
  /\ stopping = FALSE
  /\ up = TRUE
  /\ db = {}
  /\ faults = [k \in FaultKind |-> 0]
  /\ acked = {}
  /\ mishap = {}

-----------------------------------------------------------------------------
Go(t, from, to) == pc[t] = from /\ pc' = [pc EXCEPT ![t] = to]

Spend(k) == faults[k] < MaxFaults[k] /\ faults' = [faults EXCEPT ![k] = @ + 1]

(* Where a thread goes once it holds no drained batch.                     *)
AfterHeld(t) == IF t = "push" THEN "saveReq" ELSE "wait"

(* Two threads in the spool at once, one of them draining.                 *)
NoteOverlap(collides) ==
  mishap' = IF collides THEN mishap \cup {"overlap"} ELSE mishap

(* LmsDatabase.save_punches: one transaction for all the rows, each of     *)
(* which is ignored if its key is there (db is a set of keys).             *)
Commits(rows) ==
  /\ up
  /\ rows \cap Poison = {}
  /\ db' = db \cup rows
  /\ UNCHANGED faults

(* psycopg2.Error, raised as LmsUnavailableError: the server is away, it   *)
(* refuses a row, or the connection breaks after the commit took effect.   *)
Unavailable(rows) ==
  \/ /\ ~up \/ rows \cap Poison # {}
     /\ UNCHANGED <<db, faults>>
  \/ /\ up
     /\ rows \cap Poison = {}
     /\ Spend("lostReply")
     /\ db' = db \cup rows

(* Any other exception of save_punches: out of the statements, or after    *)
(* the commit (LmsPool's PutConn has the AttributeError).                  *)
Unexpected(rows) ==
  /\ Spend("unexpected")
  /\ \/ UNCHANGED db
     \/ /\ up
        /\ rows \cap Poison = {}
        /\ db' = db \cup rows

-----------------------------------------------------------------------------
(* ingest(records) begins, on punches new to the service or offered again. *)
Receive(P) ==
  /\ ~stopping
  /\ Go("push", "idle", "drain")
  /\ P # {}
  /\ req' = P
  /\ UNCHANGED <<spoolVars, batch, err, stopping, up, db, faults, acked,
                 mishap>>

(* _run: the wait is over and pending() is not zero.                       *)
Tick ==
  /\ ~stopping
  /\ Pending
  /\ Go("flush", "wait", "drain")
  /\ UNCHANGED <<spoolVars, batch, req, err, stopping, up, db, faults, acked,
                 mishap>>

DrainNothing(t) ==
  /\ Go(t, "drain", AfterHeld(t))
  /\ FindNothing(t)
  /\ UNCHANGED <<batch, req, err, stopping, up, db, faults, acked, mishap>>

DrainMove(t) ==
  /\ Go(t, "drain", "read")
  /\ MoveAside(t)
  /\ NoteOverlap(inside # {})
  /\ UNCHANGED <<batch, req, err, stopping, up, db, faults, acked>>

(* os.replace raises OSError: drain() answers that there is nothing.  The  *)
(* next append then follows a line that may be cut.                        *)
DrainMoveFails(t) ==
  /\ Go(t, "drain", AfterHeld(t))
  /\ MoveFails(t)
  /\ Spend("disk")
  /\ mishap' = mishap \cup {"disk"}
  /\ UNCHANGED <<batch, req, err, stopping, up, db, acked>>

(* Reads the staging file; if another thread has unlinked it, the OSError  *)
(* makes the result empty.                                                 *)
DrainRead(t) ==
  /\ Go(t, "read", "unlink")
  /\ batch' = [batch EXCEPT ![t] = Parsed("draining")]
  /\ UNCHANGED <<spoolVars, req, err, stopping, up, db, faults, acked, mishap>>

(* Reading fails half-way: the OSError makes the result empty here too,    *)
(* and the finally clause still unlinks the file.                          *)
DrainReadFails(t) ==
  /\ Go(t, "read", "unlink")
  /\ Spend("disk")
  /\ mishap' = mishap \cup {"disk"}
  /\ UNCHANGED <<spoolVars, batch, req, err, stopping, up, db, acked>>

DrainUnlink(t) ==
  /\ Go(t, "unlink", IF batch[t] = {} THEN AfterHeld(t) ELSE "saveHeld")
  /\ UnlinkStaging(t)
  /\ UNCHANGED <<batch, req, err, stopping, up, db, faults, acked, mishap>>

(* The OSError of the unlink leaves drain(), and what was read is gone:    *)
(* ingest's outer handler spools the request, and the flush thread ends.   *)
DrainUnlinkFails(t) ==
  /\ Go(t, "unlink", IF t = "push" THEN "addReq" ELSE "dead")
  /\ UnlinkFails(t)
  /\ Spend("disk")
  /\ batch' = [batch EXCEPT ![t] = {}]
  /\ mishap' = mishap \cup {"disk"}
  /\ UNCHANGED <<req, err, stopping, up, db, acked>>

-----------------------------------------------------------------------------
SaveHeldOk(t) ==
  /\ Go(t, "saveHeld", AfterHeld(t))
  /\ Commits(batch[t])
  /\ batch' = [batch EXCEPT ![t] = {}]
  /\ UNCHANGED <<spoolVars, req, err, stopping, up, acked, mishap>>

(* Bug: the outage is handled without restore().                           *)
SaveHeldUnavailableForgets(t) ==
  /\ Go(t, "saveHeld", AfterHeld(t))
  /\ Unavailable(batch[t])
  /\ batch' = [batch EXCEPT ![t] = {}]
  /\ UNCHANGED <<spoolVars, req, err, stopping, up, acked, mishap>>

SaveHeldUnavailable(t) ==
  /\ Go(t, "saveHeld", "restore")
  /\ Unavailable(batch[t])
  /\ err' = IF t = "flush" THEN "unavailable" ELSE err
  /\ UNCHANGED <<spoolVars, batch, req, stopping, up, acked, mishap>>

(* Bug: _flush restores on LmsUnavailableError only.                       *)
FlushUnexpectedForgets ==
  /\ Go("flush", "saveHeld", "dead")
  /\ Unexpected(batch["flush"])
  /\ batch' = [batch EXCEPT !["flush"] = {}]
  /\ UNCHANGED <<spoolVars, req, err, stopping, up, acked, mishap>>

(* _flush restores on any exception and lets it out of the loop.           *)
FlushUnexpected ==
  /\ Go("flush", "saveHeld", "restore")
  /\ Unexpected(batch["flush"])
  /\ err' = "unexpected"
  /\ UNCHANGED <<spoolVars, batch, req, stopping, up, acked, mishap>>

(* ingest restores on LmsUnavailableError only: on anything else the outer *)
(* handler spools the request's punches and `waiting` is forgotten.        *)
IngestUnexpected ==
  /\ Go("push", "saveHeld", "addReq")
  /\ Unexpected(batch["push"])
  /\ batch' = [batch EXCEPT !["push"] = {}]
  /\ mishap' = mishap \cup {"unexpected"}
  /\ UNCHANGED <<spoolVars, req, err, stopping, up, acked>>

(* restore(waiting), which is add(waiting).                                *)
RestoreOpen(t) ==
  /\ Go(t, "restore", "restoreWrite")
  /\ OpenForAppend(t)
  /\ NoteOverlap(\E u \in inside : Draining(u))
  /\ UNCHANGED <<batch, req, err, stopping, up, db, faults, acked>>

(* Bug: the loop does not catch LmsUnavailableError.                       *)
AfterRestoreDies(t, e) == IF t = "push" THEN "addReq" ELSE "dead"

(* Bug: ingest starts over instead of spooling the request.                *)
AfterRestoreRetries(t, e) ==
  IF t = "push" THEN "drain" ELSE IF e = "unexpected" THEN "dead" ELSE "wait"

(* Then the exception goes on: ingest's outer handler catches it, and _run *)
(* catches LmsUnavailableError; any other one ends the flush thread.       *)
AfterRestore(t, e) ==
  IF t = "push" THEN "addReq" ELSE IF e = "unexpected" THEN "dead" ELSE "wait"

RestoreWrite(t) ==
  /\ Go(t, "restoreWrite", AfterRestore(t, err))
  /\ WriteAll(t, batch[t])
  /\ batch' = [batch EXCEPT ![t] = {}]
  /\ err' = IF t = "flush" THEN "none" ELSE err
  /\ UNCHANGED <<req, stopping, up, db, faults, acked, mishap>>

(* An OSError out of restore() replaces the exception being handled.       *)
RestoreFails(t) ==
  /\ Go(t, "restoreWrite", AfterRestore(t, "unexpected"))
  /\ WriteFails(t, batch[t])
  /\ Spend("disk")
  /\ batch' = [batch EXCEPT ![t] = {}]
  /\ err' = IF t = "flush" THEN "none" ELSE err
  /\ mishap' = mishap \cup {"disk"}
  /\ UNCHANGED <<req, stopping, up, db, acked>>

-----------------------------------------------------------------------------
(* cdata_handler answers OK, whichever way ingest ended.                   *)
Answer == acked' = acked \cup req /\ req' = {}

SaveReqOk ==
  /\ Go("push", "saveReq", "idle")
  /\ Commits(req)
  /\ Answer
  /\ UNCHANGED <<spoolVars, batch, err, stopping, up, mishap>>

(* Bug: the handlers log the failure and do no more.                       *)
SaveReqFailsAnswers ==
  /\ Go("push", "saveReq", "idle")
  /\ Unavailable(req) \/ Unexpected(req)
  /\ Answer
  /\ UNCHANGED <<spoolVars, batch, err, stopping, up, mishap>>

(* Either handler adds the request's punches to the spool.                 *)
SaveReqFails ==
  /\ Go("push", "saveReq", "addReq")
  /\ Unavailable(req) \/ Unexpected(req)
  /\ UNCHANGED <<spoolVars, batch, req, err, stopping, up, acked, mishap>>

AddOpen ==
  /\ Go("push", "addReq", "addReqWrite")
  /\ OpenForAppend("push")
  /\ NoteOverlap(\E u \in inside : Draining(u))
  /\ UNCHANGED <<batch, req, err, stopping, up, db, faults, acked>>

AddWrite ==
  /\ Go("push", "addReqWrite", "idle")
  /\ WriteAll("push", req)
  /\ Answer
  /\ UNCHANGED <<batch, err, stopping, up, db, faults, mishap>>

(* The OSError leaves ingest; cdata_handler catches it, notes it against   *)
(* the reader and answers OK all the same.                                 *)
AddFails ==
  /\ Go("push", "addReqWrite", "idle")
  /\ WriteFails("push", req)
  /\ Spend("disk")
  /\ Answer
  /\ mishap' = mishap \cup {"disk"}
  /\ UNCHANGED <<batch, err, stopping, up, db>>

-----------------------------------------------------------------------------
LmsDown ==
  /\ up
  /\ up' = FALSE
  /\ Spend("outage")
  /\ UNCHANGED <<spoolVars, pc, batch, req, err, stopping, db, acked, mishap>>

LmsUp ==
  /\ ~up
  /\ up' = TRUE
  /\ UNCHANGED <<spoolVars, pc, batch, req, err, stopping, db, faults, acked,
                 mishap>>

(* The process ends with its threads wherever they are and starts again.   *)
(* What was drained and not yet stored or restored is in no file, or in a  *)
(* staging file that nothing will read.  A cut line does no harm: every    *)
(* thread drains before it appends, so the line goes before one follows it.*)
Reboot ==
  /\ SpoolReboot
  /\ pc' = Boot
  /\ batch' = [t \in Thread |-> {}]
  /\ req' = {}
  /\ err' = "none"
  /\ stopping' = FALSE
  /\ mishap' = mishap
        \cup (IF "draining" \in exists \/ \E t \in Thread : batch[t] # {}
                THEN {"killed"} ELSE {})
  /\ UNCHANGED <<up, db, acked>>

(* What t is writing when the process ends.                                *)
Writing(t) == CASE pc[t] = "restoreWrite" -> batch[t]
                [] pc[t] = "addReqWrite"  -> req
                [] OTHER                  -> {}

(* A kill or a power cut; at most one of the writes under way has reached  *)
(* its file in part.                                                       *)
Crash ==
  /\ Spend("crash")
  /\ \/ UNCHANGED <<content, torn>>
     \/ \E t \in Thread : WriteInPart(t, Writing(t))
  /\ Reboot

(* SyncSupervisor.stop, reached when no request is in flight.              *)
Stop ==
  /\ ~stopping
  /\ pc["push"] = "idle"
  /\ Spend("stop")
  /\ stopping' = TRUE
  /\ UNCHANGED <<spoolVars, pc, batch, req, err, up, db, acked, mishap>>

(* _run sees the event and returns.                                        *)
FlushEnds ==
  /\ stopping
  /\ Go("flush", "wait", "ended")
  /\ UNCHANGED <<spoolVars, batch, req, err, stopping, up, db, faults, acked,
                 mishap>>

(* stop() goes on when the thread has ended or join(timeout=5) gives up,   *)
(* the daemon thread ends with the process, and the next one starts.       *)
Exit ==
  /\ stopping
  /\ UNCHANGED <<content, torn, faults>>
  /\ Reboot

-----------------------------------------------------------------------------
ThreadStep(t) ==
  \/ DrainNothing(t) \/ DrainMove(t) \/ DrainRead(t) \/ DrainUnlink(t)
  \/ DrainMoveFails(t) \/ DrainReadFails(t) \/ DrainUnlinkFails(t)
  \/ SaveHeldOk(t) \/ SaveHeldUnavailable(t)
  \/ RestoreOpen(t) \/ RestoreWrite(t) \/ RestoreFails(t)

PushStep ==
  \/ ThreadStep("push")
  \/ IngestUnexpected
  \/ SaveReqOk \/ SaveReqFails \/ AddOpen \/ AddWrite \/ AddFails

FlushStep ==
  \/ Tick
  \/ ThreadStep("flush")
  \/ FlushUnexpected
  \/ FlushEnds

Next ==
  \/ \E P \in SUBSET Punch : Receive(P)
  \/ PushStep
  \/ FlushStep
  \/ LmsDown \/ LmsUp
  \/ Crash \/ Stop \/ Exit

Spec == Init /\ [][Next]_vars

(* The operating system schedules both threads, and a process told to stop *)
(* does stop.  The LMS may stay away, and readers owe the service nothing. *)
Fairness ==
  /\ WF_vars(PushStep)
  /\ WF_vars(FlushStep)
  /\ WF_vars(Exit)

FairSpec == Spec /\ Fairness

-----------------------------------------------------------------------------
(* Everything the service can still store: rows, the spool, a file being   *)
(* drained and the batches drained and not yet dealt with.                 *)
Custody == db \cup Parsed("spool") \cup Parsed("draining")
              \cup UNION {batch[t] : t \in Thread}

NothingLost == acked \subseteq Custody

(* An answered punch is stored or still held, unless one of the mishaps    *)
(* above has happened: outages, refused rows, lost replies, plain restarts *)
(* and overlapping appends never drop one (README, "A pushed punch arrives *)
(* exactly once"; supervisor._flush restores what it cannot store).        *)
LossNeedsMishap == mishap = {} => NothingLost

OneLock == \A t, u \in Thread : LockOf[t] = LockOf[u]

(* spool.py:30-35: threads that share one PunchSpool may call it in any    *)
(* order; the lock alone keeps drains and appends from losing a punch.     *)
SharedSpoolLosesNothing ==
  OneLock /\ mishap \subseteq {"overlap"} => NothingLost

(* No thread holds the spool's lock while it waits for the LMS, so an      *)
(* outage cannot make a request wait behind the other thread's connect     *)
(* (ingest and _flush save after drain() has returned).                    *)
NoLockAcrossDatabase ==
  \A t \in Thread : pc[t] \in {"saveHeld", "saveReq"} => t \notin inside

(* An answered punch is stored in the end if the LMS comes back for good:  *)
(* the flush thread retries until then, and it does not take another punch *)
(* to get a held one moving (supervisor.py:17-23).                         *)
AckedReachesLms ==
  <>[]up => \A p \in Punch : p \in acked ~> p \in db \/ mishap # {}

(* ingest always returns to the reader, even if the LMS never comes back   *)
(* (push_ingest.py:95-98).                                                 *)
IngestReturns == pc["push"] # "idle" ~> pc["push"] = "idle"

(* The pipeline implements the promise of PunchDelivery: every step keeps, *)
(* stores or answers, or leaves a mishap behind it.                        *)
Delivery == INSTANCE PunchDelivery WITH
  held <- Custody \ db, stored <- db, answered <- acked,
  broken <- (mishap # {})

ImplementsDelivery == Delivery!DSpec

-----------------------------------------------------------------------------
(* What the documentation says of single mishaps; each is refuted by a run *)
(* in which only that mishap is possible.                                  *)

(* spool.py:74-76: the file is renamed aside before it is read, "so a      *)
(* punch arriving during the drain lands in a fresh spool rather than in   *)
(* the batch being flushed": two threads in the spool at once lose nothing.*)
NoLossByOverlap == mishap \subseteq {"overlap"} => NothingLost

(* push_ingest.py:97-98: whatever save_punches raises, "the punch is safe  *)
(* in the spool either way".                                               *)
NoLossByUnexpected == mishap \subseteq {"unexpected"} => NothingLost
=============================================================================
