--------------------------- MODULE DeviceMigration --------------------------
(***************************************************************************)
(* core/device_migration.py: the operations that change what the readers   *)
(* store.  Each request runs one of them in a worker thread                *)
(* (asyncio.to_thread in router/migration.py), call by call over the       *)
(* reader's TCP connection, while the readers poll for ADMS commands.      *)
(*                                                                         *)
(* Any call may fail, before or after the reader carried it out; a reader  *)
(* whose connection is taken refuses the connect.  MaxFaults bounds the    *)
(* failures and MaxJobs the requests.                                      *)
(***************************************************************************)
EXTENDS Readers

CONSTANTS
  Jobs,        \* requests that may arrive, any of them more than once
  MaxJobs,     \* bound on the requests
  MaxFaults,   \* bound on the calls that fail
  MayCrash     \* whether the process may be killed, once

Job ==
  [op: {"copy", "move"}, reader: Reader, target: Reader, pin: Pin, to: Pin]
    \cup [op: {"create"}, reader: Reader, pin: Pin, who: Person]
    \cup [op: {"delete", "batch"}, reader: Reader,
          pins: (SUBSET Pin) \ {{}}, printsOnly: BOOLEAN]
    \cup [op: {"fetch"}, reader: Reader]

ASSUME MigrationAssumption ==
  /\ Jobs \subseteq Job
  /\ \A j \in Jobs : j.op = "delete" => Cardinality(j.pins) = 1
  /\ MaxJobs \in Nat
  /\ MaxFaults \in Nat
  /\ MayCrash \in BOOLEAN

VARIABLES
  pc,          \* the call a worker makes next
  job,         \* its request
  answer,      \* its result so far
  seen,        \* migrate: the source profile, with the templates read
  dest,        \* migrate: dest_user_id
  left,        \* delete: PINs still to delete
  wiped,       \* delete: PINs deleted, to be verified
  started,     \* requests so far
  faults,      \* calls that failed so far
  crashed,     \* the process was killed once
  failed,      \* history: readers on which a call failed
  asked        \* history: <<reader, pin>> whose deletion was requested

locals == <<job, seen, dest, left, wiped>>
mishaps == <<faults, failed>>
vars == <<readerVars, readerHistory, pc, answer, locals, started, crashed,
          mishaps, asked>>

NoJob == [op |-> "none"]

TypeOK ==
  /\ ReadersTypeOK
  /\ pc \in [Worker -> {"idle", "connect", "read", "templates",
                        "connectTarget", "readTarget", "write",
                        "writePrints", "delete", "verify", "remove",
                        "release"}]
  /\ job \in [Worker -> Jobs \cup {NoJob}]
  /\ answer \in [Worker -> {"none", "ok", "queued", "failed"}]
  /\ seen \in [Worker -> Profile \cup {NoUser}]
  /\ dest \in [Worker -> Pin \cup {0}]
  /\ left \in [Worker -> SUBSET Pin]
  /\ wiped \in [Worker -> SUBSET Pin]
  /\ started \in 0..MaxJobs
  /\ faults \in 0..MaxFaults
  /\ crashed \in BOOLEAN
  /\ failed \subseteq Reader
  /\ asked \subseteq Reader \X Pin
  /\ \A w \in Worker : pc[w] = "idle" => \A r \in Reader : conn[r] # w

Init ==
  /\ ReadersInit
  /\ pc = [w \in Worker |-> "idle"]
  /\ job = [w \in Worker |-> NoJob]
  /\ answer = [w \in Worker |-> "none"]
  /\ seen = [w \in Worker |-> NoUser]
  /\ dest = [w \in Worker |-> 0]
  /\ left = [w \in Worker |-> {}]
  /\ wiped = [w \in Worker |-> {}]
  /\ started = 0
  /\ faults = 0
  /\ crashed = FALSE
  /\ failed = {}
  /\ asked = {}

-----------------------------------------------------------------------------
(* How a step of a worker ends                                             *)

\* The ADMS commands queued when the direct connection failed.
Fallback(j) ==
  IF j.op = "create" THEN <<[kind |-> "create", pin |-> j.pin, who |-> j.who]>>
  ELSE IF j.op # "delete" THEN <<>>
  ELSE LET cmd(k) == [kind |-> k, pin |-> CHOOSE p \in j.pins : TRUE]
       IN  IF j.printsOnly THEN <<cmd("unprint"), cmd("unprint")>>
           ELSE <<cmd("wipe"), cmd("wipe"), cmd("unprint"), cmd("unprint")>>

\* The except block: create and delete fall back on the queue and answer ok.
Raise(w) ==
  LET j == job[w]
  IN  /\ commands' = [commands EXCEPT ![j.reader] = @ \o Fallback(j)]
      /\ answer' = [answer EXCEPT ![w] = IF Fallback(j) = <<>> THEN "failed"
                                         ELSE "queued"]
      /\ pc' = [pc EXCEPT ![w] = "release"]

Fault(r) ==
  /\ faults < MaxFaults
  /\ faults' = faults + 1
  /\ failed' = failed \cup {r}

\* The call to reader r raises.
Breaks(w, r) == Fault(r) /\ Raise(w)

GoOn(w, next) ==
  /\ pc' = [pc EXCEPT ![w] = next]
  /\ UNCHANGED <<commands, answer, mishaps>>

Answers(w, a) ==
  /\ answer' = [answer EXCEPT ![w] = a]
  /\ pc' = [pc EXCEPT ![w] = "release"]
  /\ UNCHANGED <<commands, mishaps>>

KeepReaders == UNCHANGED <<users, conn, disabled, readerHistory>>
KeepRequests == UNCHANGED <<started, crashed, asked>>

-----------------------------------------------------------------------------
(* Steps every operation takes                                             *)

Start(w) ==
  /\ pc[w] = "idle"
  /\ started < MaxJobs
  /\ started' = started + 1
  /\ \E j \in Jobs :
       /\ job' = [job EXCEPT ![w] = j]
       /\ asked' = IF j.op \in {"delete", "batch"} /\ ~j.printsOnly
                     THEN asked \cup ({j.reader} \X j.pins)
                     ELSE asked
  /\ pc' = [pc EXCEPT ![w] = "connect"]
  /\ UNCHANGED <<readerVars, readerHistory, answer, seen, dest, left, wiped,
                 crashed, mishaps>>

\* Bug: wait for a taken reader, the connection at hand still open.
ConnectWaits(w, r, next) ==
  /\ conn[r] = Nobody
  /\ \/ /\ conn' = [conn EXCEPT ![r] = w]
        /\ disabled' = disabled \cup {r}
        /\ GoOn(w, next) \/ Breaks(w, r)
     \/ Breaks(w, r) /\ UNCHANGED <<conn, disabled>>

\* connect_zk_device() and disable_device().
Connect(w, r, next) ==
  \/ /\ conn[r] = Nobody
     /\ conn' = [conn EXCEPT ![r] = w]
     /\ disabled' = disabled \cup {r}
     /\ GoOn(w, next) \/ Breaks(w, r)
  \/ /\ conn[r] = Nobody
     /\ Breaks(w, r)
     /\ UNCHANGED <<conn, disabled>>
  \/ /\ conn[r] # Nobody
     /\ Raise(w)
     /\ UNCHANGED <<conn, disabled, mishaps>>

ConnectReader(w) ==
  /\ pc[w] = "connect"
  /\ Connect(w, job[w].reader, "read")
  /\ UNCHANGED <<users, readerHistory, locals>>
  /\ KeepRequests

\* The threads' calls end, and their variables with them.
Forget(W) ==
  LET reset(f, v) == [w \in Worker |-> IF w \in W THEN v ELSE f[w]]
  IN  /\ pc' = reset(pc, "idle")
      /\ job' = reset(job, NoJob)
      /\ answer' = reset(answer, "none")
      /\ seen' = reset(seen, NoUser)
      /\ dest' = reset(dest, 0)
      /\ left' = reset(left, {})
      /\ wiped' = reset(wiped, {})

\* Bug: the target connection is left open.
ReleaseSource(w) ==
  LET mine == {r \in Reader : conn[r] = w /\ r = job[w].reader}
  IN  /\ pc[w] = "release"
      /\ disabled' = disabled \ mine
      /\ UNCHANGED mishaps
      /\ conn' = [r \in Reader |-> IF r \in mine THEN Nobody ELSE conn[r]]
      /\ Forget({w})
      /\ UNCHANGED <<users, commands, readerHistory>>
      /\ KeepRequests

\* Bug: enable_device() on the way out of the try block only.
ReleaseEnablesOnSuccess(w) ==
  LET mine == {r \in Reader : conn[r] = w}
  IN  /\ pc[w] = "release"
      /\ disabled' = IF answer[w] = "ok" THEN disabled \ mine ELSE disabled
      /\ UNCHANGED mishaps
      /\ conn' = [r \in Reader |-> IF r \in mine THEN Nobody ELSE conn[r]]
      /\ Forget({w})
      /\ UNCHANGED <<users, commands, readerHistory>>
      /\ KeepRequests

\* The finally block: enable_device() and disconnect(), errors ignored.
\* After an error fetch_device_users disconnects without enabling.
Release(w) ==
  LET mine == {r \in Reader : conn[r] = w}
      keepsLocked == job[w].op = "fetch" /\ answer[w] = "failed"
  IN  /\ pc[w] = "release"
      /\ \/ /\ disabled' = IF keepsLocked THEN disabled ELSE disabled \ mine
            /\ UNCHANGED mishaps
         \/ \E r \in mine :
              /\ Fault(r)
              /\ disabled' = IF keepsLocked THEN disabled
                             ELSE disabled \ (mine \ {r})
      /\ conn' = [r \in Reader |-> IF r \in mine THEN Nobody ELSE conn[r]]
      /\ Forget({w})
      /\ UNCHANGED <<users, commands, readerHistory>>
      /\ KeepRequests

-----------------------------------------------------------------------------
(* fetch_device_users                                                      *)

FetchUsers(w) ==
  /\ pc[w] = "read" /\ job[w].op = "fetch"
  /\ Answers(w, "ok") \/ Breaks(w, job[w].reader)
  /\ UNCHANGED locals
  /\ KeepReaders /\ KeepRequests

-----------------------------------------------------------------------------
(* create_device_user                                                      *)

CheckFree(w) ==
  LET j == job[w]
  IN  /\ pc[w] = "read" /\ j.op = "create"
      /\ \/ j.pin \in Stored(j.reader) /\ Answers(w, "failed")
         \/ j.pin \notin Stored(j.reader) /\ GoOn(w, "write")
         \/ Breaks(w, j.reader)
      /\ UNCHANGED locals
      /\ KeepReaders /\ KeepRequests

CreateProfile(w) ==
  LET j == job[w]
  IN  /\ pc[w] = "write" /\ j.op = "create"
      /\ \/ /\ Put(j.reader, j.pin,
                   [who |-> j.who, name |-> j.who, print |-> NoPrint],
                   "session")
            /\ GoOn(w, "verify") \/ Breaks(w, j.reader)
         \/ Breaks(w, j.reader) /\ UNCHANGED <<users, held, replaced>>
      /\ UNCHANGED <<conn, disabled, pushed, locals>>
      /\ KeepRequests

VerifyCreated(w) ==
  LET j == job[w]
  IN  /\ pc[w] = "verify" /\ j.op = "create"
      /\ \/ j.pin \in Stored(j.reader) /\ Answers(w, "ok")
         \/ j.pin \notin Stored(j.reader) /\ Raise(w) /\ UNCHANGED mishaps
         \/ Breaks(w, j.reader)
      /\ UNCHANGED locals
      /\ KeepReaders /\ KeepRequests

-----------------------------------------------------------------------------
(* delete_device_user and delete_batch_device_users                        *)

\* delete_device_user answers at once when it finds no such user.
FindUsers(w) ==
  LET j == job[w]
      found == j.pins \cap Stored(j.reader)
  IN  /\ pc[w] = "read" /\ j.op \in {"delete", "batch"}
      /\ \/ found = {} /\ j.op = "delete" /\ Answers(w, "ok")
         \/ found = {} /\ j.op = "batch" /\ GoOn(w, "verify")
         \/ found # {} /\ GoOn(w, "delete")
         \/ Breaks(w, j.reader)
      /\ left' = [left EXCEPT ![w] = found]
      /\ UNCHANGED <<job, seen, dest, wiped>>
      /\ KeepReaders /\ KeepRequests

\* Bug: the batch goes on and forgets it.
ItemForgotten(w, r, next) ==
  /\ job[w].op = "batch"
  /\ Fault(r)
  /\ pc' = [pc EXCEPT ![w] = next]
  /\ UNCHANGED <<commands, answer>>

\* An item of a batch that fails is reported, and the batch goes on.
ItemFails(w, r, next) ==
  /\ job[w].op = "batch"
  /\ Fault(r)
  /\ answer' = [answer EXCEPT ![w] = "failed"]
  /\ pc' = [pc EXCEPT ![w] = next]
  /\ UNCHANGED commands

DeleteUser(w) ==
  LET j == job[w]
  IN  /\ pc[w] = "delete" /\ ~j.printsOnly
      /\ \E p \in left[w] :
           LET next == IF left[w] = {p} THEN "verify" ELSE "delete"
               breaks == IF j.op = "delete" THEN Breaks(w, j.reader)
                         ELSE ItemFails(w, j.reader, next)
           IN  /\ left' = [left EXCEPT ![w] = @ \ {p}]
               /\ \/ /\ Drop(j.reader, {p})
                     /\ GoOn(w, next)
                     /\ wiped' = [wiped EXCEPT ![w] = @ \cup {p}]
                  \/ /\ Drop(j.reader, {p}) \/ UNCHANGED users
                     /\ breaks
                     /\ UNCHANGED wiped
      /\ UNCHANGED <<conn, disabled, readerHistory, job, seen, dest>>
      /\ KeepRequests

\* Errors of delete_user_template are ignored.  With a user_id, as the batch
\* calls it, pyzk raises before anything is sent (the comment at lines
\* 758-760).
DeletePrints(w) ==
  LET j == job[w]
  IN  /\ pc[w] = "delete" /\ j.printsOnly
      /\ \E p \in left[w] :
           /\ left' = [left EXCEPT ![w] = @ \ {p}]
           /\ pc' = [pc EXCEPT ![w] = IF left[w] = {p} THEN "verify"
                                      ELSE "delete"]
           /\ \/ j.op = "delete" /\ Unprint(j.reader, p) /\ UNCHANGED mishaps
              \/ j.op = "delete" /\ Fault(j.reader) /\ UNCHANGED users
              \/ j.op = "batch" /\ UNCHANGED <<users, mishaps>>
      /\ UNCHANGED <<commands, answer, conn, disabled, readerHistory, job,
                     seen, dest, wiped>>
      /\ KeepRequests

VerifyDeleted(w) ==
  LET j == job[w]
      remaining == wiped[w] \cap Stored(j.reader)
  IN  /\ pc[w] = "verify" /\ j.op \in {"delete", "batch"}
      /\ \/ /\ remaining = {}
            /\ Answers(w, IF answer[w] = "failed" THEN "failed" ELSE "ok")
         \/ remaining # {} /\ j.op = "batch" /\ Answers(w, "failed")
         \/ /\ remaining # {} /\ j.op = "delete"
            /\ Raise(w) /\ UNCHANGED mishaps
         \/ Breaks(w, j.reader)
      /\ UNCHANGED locals
      /\ KeepReaders /\ KeepRequests

-----------------------------------------------------------------------------
(* migrate_single_user_real                                                *)

Migrates(w) == job[w].op \in {"copy", "move"}

UserName(w) == ShownName(seen[w], job[w].pin)

\* Bug: the wanted PIN, whoever has it.
TargetPinAsWanted(w) == job[w].to

\* dest_user_id.
TargetPin(w) == PinFor(job[w].target, job[w].to, UserName(w))

FindSource(w) ==
  LET j == job[w]
  IN  /\ pc[w] = "read" /\ Migrates(w)
      /\ \/ /\ j.pin \notin Stored(j.reader)
            /\ Answers(w, "failed")
            /\ UNCHANGED seen
         \/ /\ j.pin \in Stored(j.reader)
            /\ GoOn(w, "templates")
            /\ seen' = [seen EXCEPT ![w] =
                          [users[j.reader][j.pin] EXCEPT !.print = NoPrint]]
         \/ Breaks(w, j.reader) /\ UNCHANGED seen
      /\ UNCHANGED <<job, dest, left, wiped>>
      /\ KeepReaders /\ KeepRequests

\* Templates that cannot be read, in bulk or one by one, are left out.
ReadTemplates(w) ==
  LET j == job[w]
      there == users[j.reader][j.pin]
  IN  /\ pc[w] = "templates"
      /\ pc' = [pc EXCEPT ![w] = "connectTarget"]
      /\ \/ /\ seen' = [seen EXCEPT ![w].print =
                          IF there = NoUser THEN NoPrint ELSE there.print]
            /\ UNCHANGED mishaps
         \/ Fault(j.reader) /\ UNCHANGED seen
      /\ UNCHANGED <<commands, answer, job, dest, left, wiped>>
      /\ KeepReaders /\ KeepRequests

ConnectTarget(w) ==
  /\ pc[w] = "connectTarget"
  /\ Connect(w, job[w].target, "readTarget")
  /\ UNCHANGED <<users, readerHistory, locals>>
  /\ KeepRequests

\* Bug: a move deletes the source before it writes the target.
FindTargetRemovesSource(w) ==
  LET j == job[w]
  IN  /\ pc[w] = "readTarget"
      /\ GoOn(w, "write")
      /\ dest' = [dest EXCEPT ![w] = TargetPin(w)]
      /\ IF j.op = "move" THEN Drop(j.reader, {j.pin}) ELSE UNCHANGED users
      /\ UNCHANGED <<job, seen, left, wiped, conn, disabled, readerHistory>>
      /\ KeepRequests

FindTarget(w) ==
  /\ pc[w] = "readTarget"
  /\ HasRoom(job[w].target)
  /\ \/ /\ GoOn(w, "write")
        /\ dest' = [dest EXCEPT ![w] = TargetPin(w)]
     \/ Breaks(w, job[w].target) /\ UNCHANGED dest
  /\ UNCHANGED <<job, seen, left, wiped>>
  /\ KeepReaders /\ KeepRequests

WriteTarget(w, new, next) ==
  LET r == job[w].target
  IN  /\ \/ /\ Put(r, dest[w], new, "session")
            /\ GoOn(w, next) \/ Breaks(w, r)
         \/ Breaks(w, r) /\ UNCHANGED <<users, held, replaced>>
      /\ UNCHANGED <<conn, disabled, pushed, locals>>
      /\ KeepRequests

WriteProfile(w) ==
  /\ pc[w] = "write" /\ Migrates(w)
  /\ WriteTarget(w, [who |-> seen[w].who, name |-> UserName(w),
                     print |-> NoPrint],
                 IF seen[w].print = NoPrint THEN "verify" ELSE "writePrints")

\* save_user_template sends the profile again with its templates.
WriteTemplates(w) ==
  /\ pc[w] = "writePrints"
  /\ WriteTarget(w, [seen[w] EXCEPT !.name = UserName(w)], "verify")

\* "Target verification": the PIN is listed.
VerifyTarget(w) ==
  LET j == job[w]
  IN  /\ pc[w] = "verify" /\ Migrates(w)
      /\ \/ dest[w] \notin Stored(j.target) /\ Answers(w, "failed")
         \/ /\ dest[w] \in Stored(j.target)
            /\ IF j.op = "move" THEN GoOn(w, "remove") ELSE Answers(w, "ok")
         \/ Breaks(w, j.target)
      /\ UNCHANGED locals
      /\ KeepReaders /\ KeepRequests

RemoveSource(w) ==
  LET j == job[w]
  IN  /\ pc[w] = "remove"
      /\ \/ /\ Drop(j.reader, {j.pin})
            /\ Answers(w, "ok") \/ Breaks(w, j.reader)
         \/ Breaks(w, j.reader) /\ UNCHANGED users
      /\ UNCHANGED <<conn, disabled, readerHistory, locals>>
      /\ KeepRequests

-----------------------------------------------------------------------------
\* The process is killed: the connections close, the queue is gone.
Crash ==
  /\ MayCrash /\ ~crashed
  /\ crashed' = TRUE
  /\ conn' = [r \in Reader |-> Nobody]
  /\ commands' = [r \in Reader |-> <<>>]
  /\ failed' = failed \cup {r \in Reader : conn[r] # Nobody}
  /\ Forget(Worker)
  /\ UNCHANGED <<users, disabled, readerHistory, started, faults, asked>>

ReaderPolls(r) ==
  /\ Poll(r)
  /\ UNCHANGED <<pc, answer, locals, mishaps>>
  /\ KeepRequests

\* The steps of a request that is under way.
WorkerStep(w) ==
  \/ ConnectReader(w) \/ Release(w)
  \/ FetchUsers(w)
  \/ CheckFree(w) \/ CreateProfile(w) \/ VerifyCreated(w)
  \/ FindUsers(w) \/ DeleteUser(w) \/ DeletePrints(w) \/ VerifyDeleted(w)
  \/ FindSource(w) \/ ReadTemplates(w) \/ ConnectTarget(w) \/ FindTarget(w)
  \/ WriteProfile(w) \/ WriteTemplates(w) \/ VerifyTarget(w)
  \/ RemoveSource(w)

Next ==
  \/ \E w \in Worker : Start(w) \/ WorkerStep(w)
  \/ \E r \in Reader : ReaderPolls(r)
  \/ Crash

Spec == Init /\ [][Next]_vars

-----------------------------------------------------------------------------
(* Properties                                                              *)

Profiles(a) == {s \in Reader \X Pin : /\ users[s[1]][s[2]] # NoUser
                                      /\ users[s[1]][s[2]].who = a}

\* Nobody who was enrolled is left without any profile by moves, copies,
\* retries, faults or a crash: it takes a requested deletion at a place where
\* the person was stored, another person's profile written over it, or a
\* queued creation that put the person where a move deletes its source.
LossNeedsDelete ==
  \A h \in held : Profiles(h[1]) = {} =>
    \/ \E s \in asked : <<h[1], s[1], s[2]>> \in held
    \/ \E c \in replaced : c.who = h[1]
    \/ \E r \in pushed, p \in Pin : <<h[1], r, p>> \in held

\* No request writes over a profile that carries another name, unless a
\* queued creation took the PIN between the request's check and its write.
NamedReplacementNeedsPush ==
  \A c \in replaced :
    c.by = "session" /\ c.clash => c.reader \in pushed

\* Whichever way a request ends, the readers it used can be used again:
\* a reader nobody talks to is locked only if a call to it failed.
ReaderLeftUsable ==
  \A r \in disabled : conn[r] # Nobody \/ r \in failed

\* Two opposite moves each hold the reader the other one needs next: a taken
\* reader refuses the connection instead of making the caller wait, so a
\* request under way can always take its next step.
NobodyWaits == \A w \in Worker : pc[w] # "idle" => ENABLED WorkerStep(w)

\* What the module's docstring says of a move (line 10): when it is about to
\* delete the source profile, the target has the fingerprints.
MoveVerifiesPrints ==
  \A w \in Worker : pc[w] = "remove" =>
    LET j == job[w]
    IN  /\ j.pin \in Stored(j.reader)
        /\ users[j.reader][j.pin].print # NoPrint
        => /\ dest[w] \in Stored(j.target)
           /\ users[j.target][dest[w]].print = users[j.reader][j.pin].print

\* An answer "ok" to a deletion means that it was done.  The exceptions: pyzk
\* ignored what failed for a single template, every template of a batch, and a
\* queued creation that arrived before the session ended.
OkMeansDone ==
  \A w \in Worker :
    LET j == job[w]
        undone == {p \in j.pins \cap Stored(j.reader) :
                     j.printsOnly => users[j.reader][p].print # NoPrint}
    IN  pc[w] = "release" /\ answer[w] = "ok" /\ j.op \in {"delete", "batch"}
        => \/ undone = {}
           \/ IF j.printsOnly THEN j.op = "batch" \/ j.reader \in failed
                             ELSE j.reader \in pushed
=============================================================================
