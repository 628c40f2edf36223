-------------------------- MODULE EmployeeDirectory -------------------------
(***************************************************************************)
(* core/employee_service.py: who works where and under which PIN each      *)
(* reader knows them.  A request of router/employees.py runs in a worker   *)
(* thread: it loads the whole of employees.json, talks to readers, changes *)
(* one record and saves the whole list, with no lock anywhere.             *)
(*                                                                         *)
(* A migration or a deletion is a single step here; DeviceMigration has    *)
(* its calls, and what becomes of the fingerprints.  Left out of a record: *)
(* role, department, dates, the two histories, and "primary" and           *)
(* "biometricsCleared", which only the page shows.                         *)
(***************************************************************************)
EXTENDS Readers

CONSTANTS
  Id,          \* an employee's id, the PIN that is tried first
  Stock,       \* DEFAULT_EMPLOYEES
  Saved,       \* employees.json at the start, or Absent
  Requests,    \* requests that may arrive, any of them more than once
  MaxFailures, \* bound on the calls and writes that fail, and on the kills
  MaxEvents,   \* bound on the requests and the failures together
  NoRecord,    \* no such employee
  Absent,      \* no employees.json
  Truncated,   \* opened for writing, nothing written yet
  Garbled,     \* not JSON: a failed write, or two writes over each other
  Shared,      \* a list whose records are those of DEFAULT_EMPLOYEES itself
  NoList,
  Nowhere      \* a request that names no reader

\* DEFAULT_BRANCHES gives each branch one reader.
Branch == Reader

\* The PIN an employee has on each reader, 0 for no access entry.
Record == [home: Branch, access: [Reader -> 0..MaxPin], gone: BOOLEAN]
Directory == [Person -> Record \cup {NoRecord}]

\* The bodies the handlers let through.  "none" is transferBiometric false.
TransferRequest ==
  [op: {"transfer"}, who: Person, to: Branch, mode: {"move", "copy", "none"}]
GrantRequest == [op: {"grant"}, who: Person, to: Reader]
RevokeRequest ==
  [op: {"revoke"}, who: Person, at: Reader, printsOnly: BOOLEAN]
\* Any action string is let through: "fire_all" is a dismissal, "other" stands
\* for what is neither of the two the code knows.
OffboardRequest ==
  [op: {"fire"}, who: Person, at: Reader \cup {Nowhere},
   action: {"fire_all", "delete_device", "other"}, printsOnly: BOOLEAN]
DeleteRequest == [op: {"delete"}, who: Person, wipe: BOOLEAN]
ListRequest == [op: {"list"}, who: Person]
\* The end of delete_employee_permanently.
Removal == [op: {"drop"}, who: Person, wipe: BOOLEAN]

Request == TransferRequest \cup GrantRequest \cup RevokeRequest
             \cup OffboardRequest \cup DeleteRequest \cup ListRequest

\* The PINs a list gives for the readers.
Entries(dir) ==
  {t \in Person \X Reader \X Pin : /\ dir[t[1]] # NoRecord
                                   /\ dir[t[1]].access[t[2]] = t[3]}

ASSUME DirectoryAssumption ==
  /\ Id \in [Person -> Pin]
  /\ Stock \in Directory
  /\ Saved \in Directory \cup {Absent}
  /\ Requests \subseteq Request
  /\ MaxFailures \in Nat
  /\ MaxEvents \in Nat
  /\ NoRecord \notin Record
  /\ {Absent, Truncated, Garbled, Shared, NoList} \cap Directory = {}
  /\ Absent \notin {Truncated, Garbled} /\ Truncated # Garbled
  /\ Shared # NoList
  /\ Nowhere \notin Reader

\* Both lists name only places where somebody is enrolled.
ASSUME EnrolledAssumption ==
  \A dir \in {Stock, Saved} \ {Absent} : \A t \in Entries(dir) :
    Enrolled[t[2]][t[3]] # NoUser

\* The list and the readers agree at the start, each profile under the right
\* name: what "nothing went wrong" starts from.  Nothing in the code enforces
\* it.
Opening == IF Saved = Absent THEN Stock ELSE Saved
StartsInAgreement ==
  /\ \A t \in Entries(Opening) : /\ Enrolled[t[2]][t[3]] # NoUser
                                 /\ Enrolled[t[2]][t[3]].who = t[1]
  /\ \A r \in Reader, p \in Pin :
       LET there == Enrolled[r][p]
       IN  there # NoUser => /\ <<there.who, r, p>> \in Entries(Opening)
                             /\ there.name \in Person => there.name = there.who

VARIABLES
  file,        \* employees.json
  stock,       \* DEFAULT_EMPLOYEES, whose records are changed in place
  known,       \* user_names.json: one name per PIN, whatever the reader
  task,        \* what each thread is doing
  requests,    \* requests so far
  failures,    \* calls and writes that failed, and kills, so far
  excuses,     \* history: what went wrong so far, see Excuse
  harmed,      \* history: people whose profile someone else's request deleted
  orphans,     \* history: <<person, reader, pin>> dropped from the list while
               \* the profile stays
  dismissed    \* history: people whose dismissal or removal was answered

vars == <<readerVars, readerHistory, file, stock, known, task, requests,
          failures, excuses, harmed, orphans, dismissed>>
quiet == <<conn, disabled, requests, dismissed>>

NoRequest == [op |-> "none"]

Idle == [pc |-> "idle", job |-> NoRequest, list |-> NoList, outer |-> NoList,
         pin |-> 0, todo |-> {}, ok |-> FALSE]

Task ==
  [pc: {"idle", "load", "restore", "resolve", "migrate", "remove", "wipe",
        "update", "write"},
   job: Request \cup Removal \cup {NoRequest},
   list: Directory \cup {Shared, NoList},
   outer: Directory \cup {Shared, NoList},
   pin: 0..MaxPin, todo: SUBSET (Reader \X Pin), ok: BOOLEAN]

\* overlap: two requests that save were under way together; names: the names
\* known for the PINs disagree with the reader; guess: the id was used as the
\* PIN on a reader where somebody else has it; nameless: the profile copied
\* does not carry the employee's name; reset: the stock list was written over
\* a directory that could not be read; unnamed: an offboarding that is neither
\* a dismissal nor the deletion from one named reader.
Excuse == {"overlap", "names", "guess", "nameless", "reset", "unnamed",
           "failure", "killed"}

TypeOK ==
  /\ ReadersTypeOK
  /\ file \in Directory \cup {Absent, Truncated, Garbled}
  /\ stock \in Directory
  /\ known \in [Pin -> Person \cup {NoName}]
  /\ task \in [Worker -> Task]
  /\ requests \in 0..MaxEvents
  /\ failures \in 0..MaxFailures
  /\ excuses \subseteq Excuse
  /\ harmed \subseteq Person
  /\ orphans \subseteq Person \X Reader \X Pin
  /\ dismissed \subseteq Person

Init ==
  /\ ReadersInit
  /\ file = Saved
  /\ stock = Stock
  /\ known = [p \in Pin |-> NoName]
  /\ task = [w \in Worker |-> Idle]
  /\ requests = 0
  /\ failures = 0
  /\ excuses = {}
  /\ harmed = {}
  /\ orphans = {}
  /\ dismissed = {}

-----------------------------------------------------------------------------
(* What a request works on                                                 *)

Listed(list) == IF list = Shared THEN stock ELSE list

\* emp, as the thread holds it.
Employee(w) == Listed(task[w].list)[task[w].job.who]

\* Bug: no fallback for a reader without an entry.
AccessPinOfEntry(emp, e, r) == emp.access[r]

\* The PIN of the access entry, or str(emp["id"]).
AccessPin(emp, e, r) == IF emp.access[r] = 0 THEN Id[e] ELSE emp.access[r]

Excused(why, when) == excuses' = IF when THEN excuses \cup {why} ELSE excuses

\* The use of PIN p of reader r for e is a guess that hits somebody else.
WrongGuess(emp, e, r, p) ==
  emp.access[r] = 0 /\ users[r][p] # NoUser /\ users[r][p].who # e

Mishap(why) ==
  /\ failures < MaxFailures /\ requests + failures < MaxEvents
  /\ failures' = failures + 1
  /\ excuses' = excuses \cup {why}

Fail == Mishap("failure")

\* What a request on a loaded list does first.
TransferBegins(t, emp) ==
  IF emp.home = t.job.to THEN Idle
  ELSE [t EXCEPT !.pc = IF t.job.mode = "none" THEN "update" ELSE "resolve"]

GrantBegins(t) == [t EXCEPT !.pc = "resolve"]

RevokeBegins(t, emp) ==
  LET r == t.job.at
  IN  [t EXCEPT !.pc = "wipe",
                !.todo = {<<r, AccessPin(emp, t.job.who, r)>>}]

\* Bug: only the reader of the home branch.
OffboardBeginsAtHome(t, emp) ==
  [t EXCEPT !.pc = "wipe",
            !.todo = {<<emp.home, AccessPin(emp, t.job.who, emp.home)>>}]

OneReader(j) == j.action = "delete_device" /\ j.at # Nowhere

\* One reader, or all of the access list, or if that is empty all readers.
OffboardBegins(t, emp) ==
  LET e == t.job.who
      entered == {r \in Reader : emp.access[r] # 0}
      targets == IF OneReader(t.job) THEN {t.job.at}
                 ELSE IF entered # {} THEN entered ELSE Reader
  IN  [t EXCEPT !.pc = "wipe",
                !.todo = {<<r, AccessPin(emp, e, r)>> : r \in targets}]

\* delete_employee_permanently keeps the list it loaded and offboards first.
DeleteBegins(t) ==
  LET e == t.job.who
  IN  IF t.job.wipe
        THEN [t EXCEPT !.pc = "load", !.outer = t.list,
                       !.job = [op |-> "fire", who |-> e, at |-> Nowhere,
                                action |-> "fire_all", printsOnly |-> FALSE]]
        ELSE [t EXCEPT !.pc = "update",
                       !.job = [op |-> "drop", who |-> e, wipe |-> FALSE]]

\* The call returns: to its caller, or to delete_employee_permanently.
Return(t) ==
  IF t.outer = NoList THEN Idle
  ELSE [Idle EXCEPT !.pc = "update", !.list = t.outer,
                    !.job = [op |-> "drop", who |-> t.job.who, wipe |-> TRUE]]

Begin(t, list) ==
  LET emp == Listed(list)[t.job.who]
      s == [t EXCEPT !.list = list]
  IN  CASE t.job.op = "list" \/ emp = NoRecord -> Return(t)
        [] t.job.op = "transfer" /\ emp # NoRecord -> TransferBegins(s, emp)
        [] t.job.op = "grant" /\ emp # NoRecord -> GrantBegins(s)
        [] t.job.op = "revoke" /\ emp # NoRecord -> RevokeBegins(s, emp)
        [] t.job.op = "fire" /\ emp # NoRecord -> OffboardBegins(s, emp)
        [] t.job.op = "delete" /\ emp # NoRecord -> DeleteBegins(s)

-----------------------------------------------------------------------------
(* load_employees                                                          *)

Saves(t) == t.pc # "idle" /\ t.job.op # "list"

Start(w) ==
  /\ task[w].pc = "idle"
  /\ requests + failures < MaxEvents
  /\ requests' = requests + 1
  /\ \E j \in Requests :
       /\ task' = [task EXCEPT ![w] = [Idle EXCEPT !.pc = "load", !.job = j]]
       /\ excuses' = excuses
            \cup {x \in {"overlap"} : /\ j.op # "list"
                                      /\ \E v \in Worker : Saves(task[v])}
            \cup {x \in {"unnamed"} : /\ j.op = "fire"
                                      /\ j.action # "fire_all"
                                      /\ ~OneReader(j)}
  /\ UNCHANGED <<readerVars, readerHistory, file, stock, known, failures,
                 harmed, orphans, dismissed>>

\* A file that cannot be read is taken for a missing one, and opened for
\* writing.
Load(w) ==
  LET t == task[w]
  IN  /\ t.pc = "load"
      /\ \/ /\ file \in Directory
            /\ task' = [task EXCEPT ![w] = Begin(t, file)]
            /\ UNCHANGED <<file, excuses>>
         \/ /\ file \notin Directory
            /\ file' = Truncated
            /\ task' = [task EXCEPT ![w].pc = "restore"]
            /\ Excused("reset", file # Absent)
      /\ UNCHANGED <<users, commands, readerHistory, stock, known, failures,
                     harmed, orphans, quiet>>

\* json.dump() into the file the thread opened, errors logged only.  If
\* another thread has written meanwhile, the tail of a longer text stays
\* behind the new one.
Dump(dir) ==
  \/ /\ file' = dir
     /\ UNCHANGED <<failures, excuses>>
  \/ /\ file # Truncated
     /\ file' = Garbled
     /\ UNCHANGED <<failures, excuses>>
  \/ Fail /\ file' = Garbled

Restore(w) ==
  LET t == task[w]
  IN  /\ t.pc = "restore"
      /\ Dump(stock)
      /\ task' = [task EXCEPT ![w] = Begin(t, Shared)]
      /\ UNCHANGED <<users, commands, readerHistory, stock, known, harmed,
                     orphans, quiet>>

-----------------------------------------------------------------------------
(* The calls to the readers                                                *)

\* fetch_device_users: the name known for the PIN, else the one stored.
Reported(r, p) ==
  IF known[p] # NoName THEN known[p] ELSE ShownName(users[r][p], p)

\* Bug: a profile under the wanted PIN is the employee's.
ResolvedPinAsIs(r, p, e) == p

\* resolve_target_pin.
ResolvedPin(r, p, e) ==
  IF p \notin Stored(r) \/ Reported(r, p) = e THEN p
  ELSE NextFree(Stored(r), p)

\* A reader that cannot be read counts as one where every PIN is free.
Resolve(w) ==
  LET t == task[w]
      e == t.job.who
      r == t.job.to
      p == AccessPin(Employee(w), e, Employee(w).home)
      go(q) == task' = [task EXCEPT ![w].pc = "migrate", ![w].pin = q]
  IN  /\ t.pc = "resolve"
      /\ HasRoom(r)
      /\ \/ /\ go(ResolvedPin(r, p, e))
            /\ Excused("names", /\ p \in Stored(r)
                                /\ Reported(r, p) # ShownName(users[r][p], p))
            /\ UNCHANGED failures
         \/ go(p) /\ Fail
      /\ UNCHANGED <<users, commands, readerHistory, file, stock, known,
                     harmed, orphans, quiet>>

\* A transfer goes on whatever the migration answered, a grant does not.
Migrated(t, ok) ==
  IF ~ok /\ t.job.op = "grant" THEN Return(t)
  ELSE [t EXCEPT !.pc = "update", !.ok = ok]

\* migrate_single_user_real, up to the deletion of the source.
Migrate(w) ==
  LET t == task[w]
      e == t.job.who
      src == Employee(w).home
      p == AccessPin(Employee(w), e, src)
      there == users[src][p]
      name == ShownName(there, p)
      moves == t.job.op = "transfer" /\ t.job.mode = "move"
      go(s) == task' = [task EXCEPT ![w] = s]
  IN  /\ t.pc = "migrate"
      /\ HasRoom(t.job.to)
      /\ \/ \* not found, or the reader's connection is this thread's own
            /\ there = NoUser \/ src = t.job.to
            /\ go(Migrated(t, FALSE))
            /\ UNCHANGED <<users, readerHistory, failures, excuses>>
         \/ /\ there # NoUser /\ src # t.job.to
            /\ Put(t.job.to, PinFor(t.job.to, t.pin, name),
                   [there EXCEPT !.name = name], "session")
            /\ \/ /\ go(IF moves THEN [t EXCEPT !.pc = "remove"]
                        ELSE Migrated(t, TRUE))
                  /\ excuses' = excuses
                       \cup {x \in {"guess"} :
                               WrongGuess(Employee(w), e, src, p)}
                       \cup {x \in {"nameless"} : name # e}
                  /\ UNCHANGED failures
               \/ go(Migrated(t, FALSE)) /\ Fail
            /\ UNCHANGED pushed
         \/ go(Migrated(t, FALSE)) /\ Fail /\ UNCHANGED <<users, readerHistory>>
      /\ UNCHANGED <<commands, file, stock, known, harmed, orphans, quiet>>

\* The request of e deletes what reader r stores under p.
Deletes(e, r, p) ==
  /\ Drop(r, {p})
  /\ harmed' = harmed \cup (IF users[r][p] = NoUser THEN {}
                            ELSE {users[r][p].who} \ {e})

RemoveSource(w) ==
  LET t == task[w]
      src == Employee(w).home
      p == AccessPin(Employee(w), t.job.who, src)
      go(ok) == task' = [task EXCEPT ![w] = Migrated(t, ok)]
  IN  /\ t.pc = "remove"
      /\ \/ /\ Deletes(t.job.who, src, p)
            /\ \/ go(TRUE) /\ UNCHANGED <<failures, excuses>>
               \/ go(FALSE) /\ Fail
         \/ go(FALSE) /\ Fail /\ UNCHANGED <<users, harmed>>
      /\ UNCHANGED <<commands, readerHistory, file, stock, known, orphans,
                     quiet>>

\* delete_device_user: on failure it queues the deletion, twice, and answers
\* ok.  Found or not, the name is forgotten.  Deleting the templates alone
\* leaves profile and name.
Wipe(w) ==
  LET t == task[w]
      e == t.job.who
  IN  /\ t.pc = "wipe"
      /\ \E s \in t.todo :
           LET r == s[1]
               p == s[2]
               wipe == [kind |-> "wipe", pin |-> p]
           IN  /\ task' = [task EXCEPT
                             ![w].pc = IF t.todo = {s} THEN "update" ELSE @,
                             ![w].todo = @ \ {s}]
               /\ known' = IF t.job.printsOnly THEN known
                           ELSE [known EXCEPT ![p] = NoName]
               /\ \/ /\ t.job.printsOnly
                     /\ UNCHANGED <<users, commands, failures, excuses, harmed>>
                  \/ /\ ~t.job.printsOnly
                     /\ Deletes(e, r, p)
                     /\ Excused("guess", WrongGuess(Employee(w), e, r, p))
                     /\ UNCHANGED <<commands, failures>>
                  \/ /\ ~t.job.printsOnly
                     /\ Deletes(e, r, p) \/ UNCHANGED <<users, harmed>>
                     /\ commands' = [commands EXCEPT ![r] = @ \o <<wipe, wipe>>]
                     /\ Fail
      /\ UNCHANGED <<readerHistory, file, stock, orphans, quiet>>

-----------------------------------------------------------------------------
(* What a request writes                                                   *)

\* Bug: the entry of the source stays after a move.
TransferredKeepsSource(t, emp) ==
  [emp EXCEPT !.home = t.job.to,
              !.access = IF t.ok THEN [@ EXCEPT ![t.job.to] = t.pin] ELSE @]

\* Bug: the target is entered whether or not the migration worked.
TransferredAnyway(t, emp) ==
  [emp EXCEPT !.home = t.job.to, !.access[t.job.to] = t.pin]

\* The branch changes even when the migration failed.
Transferred(t, emp) ==
  [emp EXCEPT
     !.home = t.job.to,
     !.access = IF ~t.ok THEN @
                ELSE [r \in Reader |->
                        IF r = t.job.to THEN t.pin
                        ELSE IF r = emp.home /\ t.job.mode = "move" THEN 0
                        ELSE @[r]]]

Granted(t, emp) == [emp EXCEPT !.access[t.job.to] = t.pin]

Revoked(t, emp) ==
  IF t.job.printsOnly THEN emp ELSE [emp EXCEPT !.access[t.job.at] = 0]

\* Bug: the status is not touched.
OffboardedKeepsStatus(t, emp) ==
  IF t.job.action = "fire_all" THEN [emp EXCEPT !.access = [r \in Reader |-> 0]]
  ELSE IF t.job.at = Nowhere THEN emp
  ELSE [emp EXCEPT !.access[t.job.at] = 0]

\* The entries go whatever the deletions answered.
Offboarded(t, emp) ==
  IF t.job.action = "fire_all"
    THEN [emp EXCEPT !.gone = TRUE, !.access = [r \in Reader |-> 0]]
  ELSE IF t.job.at = Nowhere THEN emp
  ELSE [emp EXCEPT !.access[t.job.at] = 0]

Changed(t, emp) ==
  CASE t.job.op = "transfer" -> Transferred(t, emp)
    [] t.job.op = "grant" -> Granted(t, emp)
    [] t.job.op = "revoke" -> Revoked(t, emp)
    [] t.job.op = "fire" -> Offboarded(t, emp)
    [] t.job.op = "drop" -> NoRecord

\* The places that leave the list without a deletion: a PIN written over by
\* another, templates wiped without the profile, a removal without a wipe.
Orphaned(t, emp, new) ==
  LET e == t.job.who
      had == IF emp = NoRecord THEN {} ELSE {r \in Reader : emp.access[r] # 0}
      lost == CASE t.job.op \in {"transfer", "grant"} ->
                     {r \in had : new.access[r] \notin {0, emp.access[r]}}
                [] t.job.op = "fire" /\ t.job.printsOnly ->
                     {r \in had : new.access[r] = 0}
                [] t.job.op = "drop" -> IF t.job.wipe THEN {} ELSE had
                [] OTHER -> {}
  IN  {<<e, r, emp.access[r]>> : r \in lost}

\* The record changes in the thread's list, in place, and save_employees
\* opens the file for writing.
Update(w) ==
  LET t == task[w]
      emp == Employee(w)
      new == Changed(t, emp)
      dir == [Listed(t.list) EXCEPT ![t.job.who] = new]
      inPlace == t.list = Shared /\ t.job.op # "drop"
  IN  /\ t.pc = "update"
      /\ file' = Truncated
      /\ stock' = IF inPlace THEN dir ELSE stock
      /\ task' = [task EXCEPT ![w].pc = "write",
                              ![w].list = IF inPlace THEN Shared ELSE dir]
      /\ orphans' = orphans \cup Orphaned(t, emp, new)
      /\ UNCHANGED <<users, commands, readerHistory, known, failures, excuses,
                     harmed, quiet>>

Write(w) ==
  LET t == task[w]
  IN  /\ t.pc = "write"
      /\ Dump(Listed(t.list))
      /\ task' = [task EXCEPT ![w] = Return(t)]
      /\ dismissed' = IF \/ t.job.op = "drop"
                         \/ t.job.op = "fire" /\ t.job.action = "fire_all"
                        THEN dismissed \cup {t.job.who} ELSE dismissed
      /\ UNCHANGED <<readerVars, readerHistory, stock, known, requests,
                     harmed, orphans>>

-----------------------------------------------------------------------------
\* The dashboard reads the names off a reader into user_names.json.
LearnNames(r) ==
  /\ known' = [p \in Pin |->
                 IF p \in Stored(r) /\ users[r][p].name \in Person
                   THEN users[r][p].name ELSE known[p]]
  /\ UNCHANGED <<users, commands, readerHistory, file, stock, task, failures,
                 excuses, harmed, orphans, quiet>>

ReaderPolls(r) ==
  /\ Poll(r)
  /\ UNCHANGED <<file, stock, known, task, requests, failures, excuses,
                 harmed, orphans, dismissed>>

\* The process is killed: what was truncated stays truncated.
Kill ==
  /\ Mishap("killed")
  /\ task' = [w \in Worker |-> Idle]
  /\ stock' = Stock
  /\ commands' = [r \in Reader |-> <<>>]
  /\ UNCHANGED <<users, readerHistory, file, known, harmed, orphans, quiet>>

Next ==
  \/ \E w \in Worker :
       \/ Start(w) \/ Load(w) \/ Restore(w) \/ Resolve(w) \/ Migrate(w)
       \/ RemoveSource(w) \/ Wipe(w) \/ Update(w) \/ Write(w)
  \/ \E r \in Reader : LearnNames(r) \/ ReaderPolls(r)
  \/ Kill

Spec == Init /\ [][Next]_vars

-----------------------------------------------------------------------------
(* Properties                                                              *)

AtRest == file \in Directory /\ \A w \in Worker : task[w].pc = "idle"

\* An access entry in the file names a place where a profile was stored, in
\* every interleaving and through failures, kills and resets: the directory
\* never invents access.
EntryWasStored ==
  file \in Directory =>
    \A t \in Entries(file) : \E x \in Person : <<x, t[2], t[3]>> \in held

\* One request after the other, with nothing going wrong, the directory and
\* the readers agree: an entry is the employee's own profile ...
EntryIsOwnProfile ==
  AtRest /\ excuses = {} =>
    \A t \in Entries(file) :
      users[t[2]][t[3]] # NoUser /\ users[t[2]][t[3]].who = t[1]

\* ... and a stored profile is listed, unless the request that dropped it
\* from the list was told to keep it or wrote another PIN over it.
EveryProfileListed ==
  AtRest /\ excuses = {} =>
    \A r \in Reader, p \in Pin :
      users[r][p] # NoUser =>
        LET t == <<users[r][p].who, r, p>>
        IN  t \in Entries(file) \cup orphans

\* Nobody's profile is deleted or written over on account of somebody else
\* while requests come one by one and the names and PINs on file are right.
OthersUntouched == excuses = {} => harmed = {} /\ replaced = {}

\* The list as a request that loads it now will find it once the write under
\* way is done.
InForce ==
  IF file \in Directory THEN file
  ELSE IF \E w \in Worker : task[w].pc = "write"
    THEN Listed(task[CHOOSE w \in Worker : task[w].pc = "write"].list)
    ELSE stock

\* What the promise of EmployeeRegistry does not cover.
Calm == excuses \cap {"overlap", "reset", "killed", "failure"} = {}

\* As long as the requests that save come one by one and none of them fails or
\* is killed, each is one step of EmployeeRegistry: load, calls to the readers
\* and write add up to one change of one record, and none is lost.
Registry == INSTANCE EmployeeRegistry WITH
  AtFirst <- Opening, table <- InForce, left <- dismissed, broken <- ~Calm

ImplementsRegistry == Registry!RSpec

\* Who was dismissed or removed stays so, unless requests overlapped or the
\* file was lost.
OffboardedStays ==
  AtRest /\ Calm =>
    \A e \in dismissed : file[e] = NoRecord \/ file[e].gone

\* What fire_employee_and_wipe_biometrics says of itself (lines 468-470): it
\* deletes "an employee's biometric fingerprints (and user profile) across ALL
\* enrolled hardware readers", so nobody else's profile.
DeletesOwnProfile == harmed = {}
=============================================================================
