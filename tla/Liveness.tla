------------------------------ MODULE Liveness ------------------------------
(***************************************************************************)
(* sync/liveness.py: contact recorded when a reader calls in, throttled to *)
(* one stamp per heartbeat_seconds and reader, and written to the LMS by a *)
(* ThreadPoolExecutor with one worker, which runs its tasks in order.      *)
(*                                                                         *)
(* Every iclock handler calls mark_seen before anything else; a POST to    *)
(* cdata then awaits its body, so calls of the same reader interleave with *)
(* it, and may end in record_traffic_error.  Only registered readers are   *)
(* modelled: an unknown serial changes no row and is logged once.          *)
(*                                                                         *)
(* Times are ages, counted up to Heartbeat: the throttle and the           *)
(* properties do not tell older ones apart.                                *)
(***************************************************************************)
EXTENDS Naturals, Sequences

CONSTANTS
  Serial,      \* readers
  Heartbeat,   \* config.heartbeat_seconds
  MaxQueue,    \* bound on the tasks queued at a time
  MaxOther     \* bound on exceptions that are not LmsUnavailableError

ASSUME LivenessAssumption ==
  /\ Heartbeat \in Nat \ {0}
  /\ MaxQueue \in Nat \ {0}
  /\ MaxOther \in Nat

Never == Heartbeat + 1

Task == {"stamp", "error"} \X Serial

VARIABLES
  lastWrite,    \* _last_write, as ages; Never if there is no entry
  queue,        \* _writer's tasks; the head is the one the worker runs
  awaiting,     \* readers with a POST that waits for its body
  stage,        \* "serving", then "draining" in shutdown(), then "closed"
  up,           \* a call to the LMS succeeds
  seenAt,       \* last_seen_at, as ages; Never if it is NULL
  lastError,    \* readers whose last_error is set
  other,        \* exceptions of the other kind so far
  contact,      \* history: the age of the reader's last call
  failed,       \* history: readers whose last call ended in an error
  unrecorded    \* history: readers with a task lost to such an exception

throttleVars == <<lastWrite, queue>>
lmsVars == <<up, seenAt, lastError>>
history == <<contact, failed, unrecorded>>
vars == <<throttleVars, awaiting, stage, lmsVars, other, history>>

TypeOK ==
  /\ lastWrite \in [Serial -> 0..Never]
  /\ queue \in Seq(Task) /\ Len(queue) <= MaxQueue
  /\ awaiting \subseteq Serial
  /\ stage \in {"serving", "draining", "closed"}
  /\ up \in BOOLEAN
  /\ seenAt \in [Serial -> 0..Never]
  /\ lastError \subseteq Serial
  /\ other \in 0..MaxOther
  /\ contact \in [Serial -> 0..Never]
  /\ failed \subseteq Serial
  /\ unrecorded \subseteq Serial

Init ==
  /\ lastWrite = [s \in Serial |-> Never]
  /\ queue = <<>>
  /\ awaiting = {}
  /\ stage = "serving"
  /\ up = TRUE
  /\ seenAt = [s \in Serial |-> Never]
  /\ lastError = {}
  /\ other = 0
  /\ contact = [s \in Serial |-> Never]
  /\ failed = {}
  /\ unrecorded = {}

-----------------------------------------------------------------------------
(* Bug: the worker takes the newest task first.                            *)
SubmitFirst(kind, s) ==
  /\ Len(queue) < MaxQueue
  /\ queue' = <<<<kind, s>>>> \o queue

(* _writer.submit                                                          *)
Submit(kind, s) ==
  /\ Len(queue) < MaxQueue
  /\ queue' = Append(queue, <<kind, s>>)

(* Bug: off by one in the throttle.                                        *)
ShouldWriteLate(s, force) == force \/ lastWrite[s] = Never

(* _should_write: forced, no entry, or an entry that is old enough.        *)
ShouldWrite(s, force) == force \/ lastWrite[s] >= Heartbeat

(* mark_seen, in the handler of a call of reader s.                        *)
MarkSeen(s, force) ==
  /\ stage = "serving"
  /\ contact' = [contact EXCEPT ![s] = 0]
  /\ failed' = failed \ {s}
  /\ IF ShouldWrite(s, force)
       THEN Submit("stamp", s) /\ lastWrite' = [lastWrite EXCEPT ![s] = 0]
       ELSE UNCHANGED throttleVars
  /\ UNCHANGED <<stage, lmsVars, other, unrecorded>>

(* GET cdata: the reader announces itself, past the throttle.              *)
Handshake(s) == MarkSeen(s, TRUE) /\ UNCHANGED awaiting

(* getrequest, devicecmd, fdata, ping.                                     *)
Poll(s) == MarkSeen(s, FALSE) /\ UNCHANGED awaiting

(* POST cdata, up to `await request.body()`.                               *)
Post(s) ==
  /\ s \notin awaiting
  /\ awaiting' = awaiting \cup {s}
  /\ MarkSeen(s, FALSE)

PostEnds(s) ==
  /\ s \in awaiting
  /\ awaiting' = awaiting \ {s}
  /\ UNCHANGED <<throttleVars, stage, lmsVars, other, history>>

(* ingest raised: record_traffic_error.                                    *)
PostFails(s) ==
  /\ s \in awaiting
  /\ awaiting' = awaiting \ {s}
  /\ Submit("error", s)
  /\ failed' = failed \cup {s}
  /\ UNCHANGED <<lastWrite, stage, lmsVars, other, contact, unrecorded>>

-----------------------------------------------------------------------------
Runs(kind) == queue # <<>> /\ Head(queue)[1] = kind /\ queue' = Tail(queue)

(* The reader whose task the worker runs.                                  *)
Reader == Head(queue)[2]

(* heartbeat(): last_seen_at = now(), last_error cleared.                  *)
Stamp ==
  /\ seenAt' = [seenAt EXCEPT ![Reader] = 0]
  /\ lastError' = lastError \ {Reader}

WriteOk ==
  /\ Runs("stamp")
  /\ up
  /\ Stamp
  /\ UNCHANGED <<lastWrite, awaiting, stage, up, other, history>>

(* Bug: the throttle is not re-armed.                                      *)
WriteUnavailableForgets ==
  /\ Runs("stamp")
  /\ ~up
  /\ UNCHANGED <<lastWrite, awaiting, stage, lmsVars, other, history>>

(* Bug: the task goes back to the head of the queue.                       *)
WriteUnavailableRetries ==
  /\ queue # <<>> /\ Head(queue)[1] = "stamp"
  /\ ~up
  /\ UNCHANGED <<throttleVars, awaiting, stage, lmsVars, other, history>>

(* Bug: the entry is moved back by a heartbeat instead of dropped.         *)
WriteUnavailableMovesBack ==
  /\ Runs("stamp")
  /\ lastWrite' = [lastWrite EXCEPT ![Reader] = @ + Heartbeat]
  /\ ~up
  /\ UNCHANGED <<awaiting, stage, lmsVars, other, history>>

(* Bug: the task goes to the end of the queue, to be tried again.          *)
WriteUnavailableSpools ==
  /\ queue # <<>> /\ Head(queue)[1] = "stamp"
  /\ queue' = Append(Tail(queue), Head(queue))
  /\ lastWrite' = [lastWrite EXCEPT ![Reader] = Never]
  /\ \/ ~up /\ UNCHANGED <<seenAt, lastError>>
     \/ up /\ Stamp
  /\ UNCHANGED <<awaiting, stage, up, other, history>>

(* _write: LmsUnavailableError, before or after the commit; the entry of   *)
(* the throttle goes, whichever contact it stands for by now.              *)
WriteUnavailable ==
  /\ Runs("stamp")
  /\ lastWrite' = [lastWrite EXCEPT ![Reader] = Never]
  /\ \/ ~up /\ UNCHANGED <<seenAt, lastError>>
     \/ up /\ Stamp
  /\ UNCHANGED <<awaiting, stage, up, other, history>>

(* _write: any other exception, before or after the commit, is printed and *)
(* the throttle left as it is.                                             *)
WriteRaises ==
  /\ Runs("stamp")
  /\ other < MaxOther
  /\ other' = other + 1
  /\ unrecorded' = unrecorded \cup {Reader}
  /\ \/ UNCHANGED <<seenAt, lastError>>
     \/ up /\ Stamp
  /\ UNCHANGED <<lastWrite, awaiting, stage, up, contact, failed>>

RecordError ==
  /\ Runs("error")
  /\ up
  /\ lastError' = lastError \cup {Reader}
  /\ UNCHANGED <<lastWrite, awaiting, stage, up, seenAt, other, history>>

(* _record_error: whatever is raised, before or after the commit, is       *)
(* suppressed, and with it the note.                                       *)
RecordErrorFails ==
  /\ Runs("error")
  /\ failed' = failed \ {Reader}
  /\ \/ UNCHANGED lastError
     \/ up /\ lastError' = lastError \cup {Reader}
  /\ UNCHANGED <<lastWrite, awaiting, stage, up, seenAt, other, contact,
                 unrecorded>>

-----------------------------------------------------------------------------
Older(a) == IF a < Heartbeat THEN a + 1 ELSE a

Tick ==
  /\ lastWrite' = [s \in Serial |-> Older(lastWrite[s])]
  /\ seenAt' = [s \in Serial |-> Older(seenAt[s])]
  /\ contact' = [s \in Serial |-> Older(contact[s])]
  /\ UNCHANGED <<queue, awaiting, stage, up, lastError, other, failed, unrecorded>>

LmsChanges ==
  /\ up' = ~up
  /\ UNCHANGED <<throttleVars, awaiting, stage, seenAt, lastError, other,
                 history>>

(* The lifespan ends when no request is running: shutdown() begins.        *)
Stop ==
  /\ stage = "serving"
  /\ awaiting = {}
  /\ stage' = "draining"
  /\ UNCHANGED <<throttleVars, awaiting, lmsVars, other, history>>

(* _writer.shutdown(wait=True) returns, then _db.close().                  *)
Close ==
  /\ stage = "draining"
  /\ queue = <<>>
  /\ stage' = "closed"
  /\ UNCHANGED <<throttleVars, awaiting, lmsVars, other, history>>

Writer ==
  \/ WriteOk \/ WriteUnavailable \/ WriteRaises
  \/ RecordError \/ RecordErrorFails

Calls(s) == Handshake(s) \/ Poll(s) \/ Post(s)

Next ==
  \/ \E s \in Serial : Calls(s) \/ PostEnds(s) \/ PostFails(s)
  \/ Writer
  \/ Tick
  \/ LmsChanges
  \/ Stop \/ Close

Spec == Init /\ [][Next]_vars

(* The worker runs, time passes, and shutdown() goes on when it can.       *)
FairSpec == Spec /\ WF_vars(Writer) /\ WF_vars(Tick) /\ WF_vars(Close)

-----------------------------------------------------------------------------
Queued(s) == \E i \in DOMAIN queue : queue[i][2] = s

(* A call the throttle keeps quiet about comes less than a heartbeat after *)
(* one that reached the LMS: once nothing of a reader is queued, either    *)
(* its next call is written or the console is less than a heartbeat behind *)
(* (liveness.py:24-30 and 79-85).                                          *)
StampIsFresh ==
  \A s \in Serial \ unrecorded :
    ~Queued(s) /\ lastWrite[s] # Never
      => seenAt[s] # Never /\ seenAt[s] < contact[s] + Heartbeat

(* The contact stamped for a request does not wipe out the error noted for *)
(* the same request: as long as a reader whose call failed has not called  *)
(* again, the console shows the error (liveness.py:122-130).               *)
ErrorShows == \A s \in failed : ~Queued(s) => s \in lastError

(* shutdown() returns, even if the LMS never answers.                      *)
ShutdownReturns == stage = "draining" ~> stage = "closed"

(* A reader that keeps calling is stamped again and again once the LMS     *)
(* stays up (liveness.py:79-82: "let the throttle re-fire").               *)
CallersAreStamped ==
  <>[]up => \A s \in Serial :
    []<>(contact[s] = 0) => []<>(seenAt[s] < Heartbeat)

(* A reader that has fallen silent does not go on looking alive: however   *)
(* long its last contact waits behind others or meets an LMS that is away, *)
(* it is stamped once or not at all, and the stamp grows old               *)
(* (liveness.py:79-82: "Not worth spooling").                              *)
QuietIsShown ==
  \A s \in Serial :
    <>[](contact[s] >= Heartbeat) => <>[](seenAt[s] >= Heartbeat)
=============================================================================
