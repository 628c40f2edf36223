------------------------------ MODULE Dashboard ------------------------------
(***************************************************************************)
(* router/iclock.py as the dashboard sees it: the list of punches, the     *)
(* names under which it shows them, the two files both are kept in, the    *)
(* reads over TCP that run beside the event loop, and one open page.       *)
(*                                                                         *)
(* A handler of the event loop is one step up to its next await, except    *)
(* that announcing punches and handing them to ingest (which may take      *)
(* seconds) are steps of their own, during which nothing else of the loop  *)
(* runs.  Threads and kills come in between at any time.                   *)
(*                                                                         *)
(* Abstracted: NoName stands for a PIN that is missing from the cache and  *)
(* for one called "User <pin>", which the code treats alike.  Rows are     *)
(* listed in the order they were added.  Roles, cards, the registry of     *)
(* addresses and the other fields of a punch are left out.                 *)
(***************************************************************************)
EXTENDS Naturals, Sequences, FiniteSets, SequencesExt

CONSTANTS
  Reader,
  Pin,
  Person,      \* the names
  Time,        \* the times of punches
  Punch,       \* the punches the readers have in memory
  Old,         \* those before the window of HISTORY_DAYS
  Roster,      \* the names the readers store, [Reader -> [Pin -> Name]]
  Default,     \* the names in the source text, [Pin -> Name]
  LmsName,     \* the names get_user_info finds in the LMS, [Pin -> Name]
  Call,        \* reads over TCP under way at a time, at most
  MaxFailures, \* bound on the failed reads and writes, the lost replies and
               \* connections, and the kills
  MaxEvents,   \* bound on the requests and the failures together
  NoName, NoCall, NoList,
  Garbled      \* a file that is not JSON: it was opened and not written

Name == Person \cup {NoName}
Row == [punch: Punch, name: Name]

ASSUME DashboardAssumption ==
  /\ Reader # {} /\ Pin # {}
  /\ Punch \subseteq [reader: Reader, pin: Pin, time: Time]
  /\ Old \subseteq Punch
  /\ Roster \in [Reader -> [Pin -> Name]]
  /\ Default \in [Pin -> Name]
  /\ LmsName \in [Pin -> Name]
  /\ MaxEvents \in Nat /\ MaxFailures \in Nat
  /\ NoName \notin Person
  /\ NoCall \notin Call
  /\ NoList \notin [Pin -> Name]
  /\ Garbled \notin [Pin -> Name] /\ Garbled \notin Seq(Row)

VARIABLES
  listed,      \* PUNCH_LOGS
  logsFile,    \* attendance_logs.json
  cache,       \* DEVICE_USER_CACHE
  namesFile,   \* user_names.json
  queries,     \* DATA QUERY USERINFO commands queued for a reader
  asked,       \* readers that were handed one and have not answered
  stamped,     \* readers in _LAST_USER_SYNC
  tcp,         \* who holds _DEVICE_TCP_LOCK
  call,        \* the reads over TCP and the coroutines that wait for them
  turn,        \* the handler that has the event loop between two steps
  edit,        \* a worker thread that enrols or deletes a profile
  page,        \* an open dashboard, its `logs`, its queue in SSE_SUBSCRIBERS
  events, failures,
  lagging,     \* history: PINs whose rows may be behind the cache
  behind,      \* history: PINs whose rows in logsFile may be behind the list
  spoilt,      \* history: files whose last write failed or was disturbed
  offered,     \* history: punches handed to ingest, or kept from it by a kill
  owed         \* history: punches the page must show

server == <<listed, logsFile, cache, namesFile, queries, stamped, turn>>
reads == <<tcp, call>>
outside == <<asked, edit>>
names == <<lagging, behind>>
vars == <<server, reads, outside, page, events, failures, names, spoilt,
          offered, owed>>

Key(p) == <<p.pin, p.time>>
InMemory(r) == {p \in Punch : p.reader = r}
PunchesOf(rows) == {rows[i].punch : i \in DOMAIN rows}
Keys(rows) == {Key(p) : p \in PunchesOf(rows)}

Nameless == [p \in Pin |-> NoName]

\* `todo` is still to be announced, `due` is announced and not yet ingested;
\* `named` are the names a push was parsed with.
NoTurn == [via |-> "none", todo |-> {}, due |-> {}, all |-> {},
           named |-> Nameless]
Idle == [pc |-> "idle", kind |-> "none", reader |-> CHOOSE r \in Reader : TRUE,
         users |-> NoList, records |-> {}]
NoEdit == [pc |-> "idle", pin |-> CHOOSE p \in Pin : TRUE, name |-> NoName,
           clash |-> FALSE]
NoPage == [open |-> FALSE, stream |-> FALSE, queue |-> <<>>, fetch |-> "none",
           answer |-> {}, shown |-> {}]

TypeOK ==
  /\ listed \in Seq(Row)
  /\ logsFile \in Seq(Row) \cup {Garbled}
  /\ cache \in [Pin -> Name]
  /\ namesFile \in [Pin -> Name] \cup {Garbled}
  /\ queries \in [Reader -> Nat]
  /\ asked \subseteq Reader /\ stamped \subseteq Reader
  /\ tcp \in Call \cup {NoCall}
  /\ call \in [Call -> [pc: {"idle", "begin", "wait", "read", "resume"},
                        kind: {"none", "auto", "sync"}, reader: Reader,
                        users: [Pin -> Name] \cup {NoList},
                        records: SUBSET Punch]]
  /\ turn \in [via: {"none", "push", "sync"}, todo: SUBSET Punch,
               due: SUBSET Punch, all: SUBSET Punch, named: [Pin -> Name]]
  /\ edit \in [pc: {"idle", "set", "save"}, pin: Pin, name: Name,
               clash: BOOLEAN]
  /\ page \in [open: BOOLEAN, stream: BOOLEAN, queue: Seq(Punch),
               shown: SUBSET Punch, answer: SUBSET Punch,
               fetch: {"none", "sent", "answered"}]
  /\ events \in 0..MaxEvents /\ failures \in 0..MaxFailures
  /\ \A c \in Call : call[c].pc = "read" <=> tcp = c

Init ==
  /\ listed = <<>> /\ logsFile = <<>>
  /\ cache = Default /\ namesFile = Default
  /\ queries = [r \in Reader |-> 0] /\ asked = {} /\ stamped = {}
  /\ tcp = NoCall /\ call = [c \in Call |-> Idle]
  /\ turn = NoTurn /\ edit = NoEdit /\ page = NoPage
  /\ events = 0 /\ failures = 0
  /\ lagging = {} /\ behind = {} /\ spoilt = {}
  /\ offered = {} /\ owed = {}

-----------------------------------------------------------------------------
(* Names, rows and files                                                   *)

Free == turn = NoTurn

Event == Free /\ events + failures < MaxEvents /\ events' = events + 1
Failures(n) == /\ failures + n <= MaxFailures
               /\ events + failures + n <= MaxEvents
               /\ failures' = failures + n
Failure == Failures(1)

\* Every row of a PIN gets the name newly recorded for it.
Renamed(rows, new) ==
  [i \in DOMAIN rows |->
     LET n == new[rows[i].punch.pin]
     IN  IF n = NoName THEN rows[i] ELSE [rows[i] EXCEPT !.name = n]]

Recorded(new) == [p \in Pin |-> IF new[p] = NoName THEN cache[p] ELSE new[p]]
NamedIn(new) == {p \in Pin : new[p] # NoName}
ListedPins(rows) == {p.pin : p \in PunchesOf(rows)}

\* prune_punch_logs: the rows that are not old, in their order.  The code
\* sorts them by time; no property depends on the order of rows.
Pruned(rows) ==
  LET kept == {i \in DOMAIN rows : rows[i].punch \notin Old}
      nth(n) == CHOOSE i \in kept : Cardinality({j \in kept : j <= i}) = n
  IN  [n \in 1..Cardinality(kept) |-> rows[nth(n)]]

\* get_user_info asks the LMS about an unknown PIN, and may get no answer.
\* Rows listed before keep the name they have.
LmsAnswers(pins) ==
  {[p \in Pin |-> IF p \in answered THEN LmsName[p] ELSE NoName] :
     answered \in SUBSET {p \in pins : cache[p] = NoName}}
Learn(new) ==
  /\ cache' = Recorded(new)
  /\ lagging' = lagging \cup (NamedIn(new) \cap ListedPins(listed))

\* What the module reads from the files when it is imported.
LoadedNames ==
  IF namesFile = Garbled THEN Default
  ELSE [p \in Pin |-> IF namesFile[p] = NoName THEN Default[p]
                                              ELSE namesFile[p]]
LoadedLogs == IF logsFile = Garbled THEN <<>> ELSE Pruned(logsFile)

\* open(.., "w") and json.dump of the whole list or cache.  An exception is
\* caught, and leaves a file that ends too early.  A thread that adds a
\* name makes a dump of the cache fail, and two dumps mix in one file.
Write(files) ==
  \E failed \in SUBSET files :
    /\ Failures(Cardinality(failed))
    /\ logsFile' = IF "logs" \in failed THEN Garbled
                   ELSE IF "logs" \in files THEN listed' ELSE logsFile
    /\ namesFile' \in IF "names" \in failed THEN {Garbled}
                      ELSE IF "names" \notin files THEN {namesFile}
                      ELSE IF edit.pc = "idle" THEN {cache'}
                      ELSE {cache', Garbled}
    /\ spoilt' = (spoilt \ files)
                   \cup {f \in files : \/ f = "logs" /\ logsFile' # listed'
                                       \/ f = "names" /\ namesFile' # cache'}
    /\ edit' = IF "names" \in files /\ edit.pc = "save"
                 THEN [edit EXCEPT !.clash = TRUE] ELSE edit

\* PINs whose rows in the file are still behind after a step.
Behind == IF logsFile' = listed' THEN {} ELSE behind

WriteNothing == UNCHANGED <<logsFile, namesFile, spoilt, edit, failures>>

\* get_user_info for each of the PINs.
LookUp(pins) ==
  \E new \in LmsAnswers(pins) :
    /\ Learn(new)
    /\ IF NamedIn(new) = {} THEN WriteNothing ELSE Write({"names"})

Ask(r) == queries' = [queries EXCEPT ![r] = @ + 1]

\* asyncio.create_task(auto_sync_device_users_bg(...))
Begin(pc, kind, r) ==
  LET idle == {c \in Call : call[c].pc = "idle"}
      c == CHOOSE x \in idle : TRUE
  IN  /\ idle # {}
      /\ call' = [call EXCEPT ![c] = [Idle EXCEPT !.pc = pc, !.kind = kind,
                                                 !.reader = r]]
Spawn(r) == Begin("begin", "auto", r)

-----------------------------------------------------------------------------
(* Requests of a reader                                                    *)

\* GET cdata: the reader announces itself.
Handshake(r) ==
  /\ Event
  /\ Ask(r) /\ Spawn(r)
  /\ UNCHANGED <<listed, logsFile, cache, namesFile, stamped, turn, tcp,
                 outside, page, failures, names, spoilt, offered, owed>>

\* POST query-users: names are asked for by hand.
QueryUsers(r) ==
  /\ Event
  /\ Ask(r)
  /\ UNCHANGED <<listed, logsFile, cache, namesFile, stamped, turn, reads,
                 outside, page, failures, names, spoilt, offered, owed>>

\* POST cdata with operator records: the operators' names are looked up.
OperLog(r) ==
  /\ Event
  /\ Ask(r)
  /\ LookUp(Pin)
  /\ UNCHANGED <<listed, stamped, turn, reads, asked, page, behind, offered,
                 owed>>

\* GET getrequest: a query leaves the queue, and may not arrive.
Poll(r) ==
  /\ Free
  /\ queries[r] > 0
  /\ queries' = [queries EXCEPT ![r] = @ - 1]
  /\ \/ asked' = asked \cup {r} /\ UNCHANGED failures
     \/ Failure /\ UNCHANGED asked
  /\ UNCHANGED <<listed, logsFile, cache, namesFile, stamped, turn, reads,
                 edit, page, events, names, spoilt, offered, owed>>

\* POST cdata with the user table: each name replaces what was known, in the
\* cache, its file and the list, and not in the file of the list.
PostUsersUnsaved(r) ==
  /\ Free
  /\ r \in asked
  /\ asked' = asked \ {r}
  /\ cache' = Recorded(Roster[r])
  /\ listed' = Renamed(listed, Roster[r])
  /\ WriteNothing
  /\ lagging' = lagging \ NamedIn(Roster[r])
  /\ behind' = behind \cup NamedIn(Roster[r])
  /\ UNCHANGED <<queries, stamped, turn, reads, page, events, offered, owed>>
PostUsers(r) ==
  /\ Free
  /\ r \in asked
  /\ asked' = asked \ {r}
  /\ cache' = Recorded(Roster[r])
  /\ listed' = Renamed(listed, Roster[r])
  /\ IF NamedIn(Roster[r]) = {} THEN WriteNothing ELSE Write({"names"})
  /\ lagging' = lagging \ NamedIn(Roster[r])
  /\ behind' = behind \cup NamedIn(Roster[r])
  /\ UNCHANGED <<queries, stamped, turn, reads, page, events, offered,
                 owed>>

\* Whatever the format of the lines, each becomes a punch with the name that
\* is known or found at that time.
ParseAttlog(batch) ==
  /\ LookUp({p.pin : p \in batch})
  /\ turn' = [via |-> "push", todo |-> batch, due |-> {}, all |-> batch,
              named |-> cache']

\* A punch of an unknown PIN makes the server ask for names in both ways.
AskNobody(r, batch) == UNCHANGED <<queries, call>>
AskForNames(r, batch) ==
  IF \E p \in batch : cache'[p.pin] = NoName
    THEN Ask(r) /\ Spawn(r)
    ELSE UNCHANGED <<queries, call>>

\* POST cdata with punches, up to the first broadcast.  A reader may send
\* what it has sent before: the handshake tells it to begin at stamp 0.
Push(r, batch) ==
  /\ Event
  /\ ParseAttlog(batch)
  /\ AskForNames(r, batch)
  /\ UNCHANGED <<listed, stamped, tcp, asked, page, behind, offered,
                 owed>>

\* broadcast_punch: the list, its file and the subscribers, after another
\* look for the name.  A name found when the push was parsed stays.
Announce(p) ==
  /\ p \in turn.todo
  /\ turn.via = "sync" => turn.due = {}
  /\ \E new \in LmsAnswers({p.pin}) :
       LET row == [punch |-> p,
                   name |-> IF turn.named[p.pin] # NoName THEN turn.named[p.pin]
                            ELSE Recorded(new)[p.pin]]
       IN  /\ Learn(new)
           /\ listed' = Pruned(Append(listed, row))
           /\ page' = IF page.stream THEN [page EXCEPT !.queue = Append(@, p)]
                                     ELSE page
           /\ Write({"logs"} \cup IF NamedIn(new) = {} THEN {} ELSE {"names"})
  /\ owed' = IF page.stream /\ page.fetch = "none" THEN owed \cup ({p} \ Old)
                                                   ELSE owed
  /\ turn' = [turn EXCEPT !.todo = @ \ {p}, !.due = @ \cup {p}]
  /\ behind' = Behind
  /\ UNCHANGED <<queries, stamped, reads, asked, events, offered>>

\* A push hands its punches over together, after the last broadcast; a sync
\* one by one, and it writes the file once more at the end.
Ingest ==
  /\ turn.due # {}
  /\ turn.via = "push" => turn.todo = {}
  /\ offered' = offered \cup turn.due
  /\ IF turn.todo # {}
       THEN turn' = [turn EXCEPT !.due = {}]
       ELSE turn' = NoTurn
  /\ IF turn.via = "sync" /\ turn.todo = {}
       THEN listed' = Pruned(listed) /\ Write({"logs"})
       ELSE UNCHANGED listed /\ WriteNothing
  /\ behind' = Behind
  /\ UNCHANGED <<cache, queries, stamped, reads, asked, page, events,
                 lagging, owed>>

-----------------------------------------------------------------------------
(* Reads over TCP                                                          *)

\* POST sync-device
SyncDevice(r) ==
  /\ Event
  /\ Begin("wait", "sync", r)
  /\ UNCHANGED <<server, tcp, outside, page, failures, names, spoilt, offered,
                 owed>>

\* auto_sync_device_users_bg up to its await: not again within 15 seconds,
\* which may have passed or not.
BeginAuto(c) ==
  /\ Free
  /\ call[c].pc = "begin"
  /\ \/ /\ call[c].reader \in stamped
        /\ call' = [call EXCEPT ![c] = Idle]
        /\ UNCHANGED stamped
     \/ /\ call' = [call EXCEPT ![c].pc = "wait"]
        /\ stamped' = stamped \cup {call[c].reader}
  /\ UNCHANGED <<listed, logsFile, cache, namesFile, queries, turn, tcp,
                 outside, page, events, failures, names, spoilt, offered, owed>>

\* The worker thread: a busy lock is an answer.
TryLockAnyway(c) ==
  /\ call[c].pc = "wait"
  /\ tcp' = c /\ call' = [call EXCEPT ![c].pc = "read"]
  /\ UNCHANGED <<server, outside, page, events, failures, names, spoilt,
                 offered, owed>>
TryLock(c) ==
  /\ call[c].pc = "wait"
  /\ IF tcp = NoCall
       THEN tcp' = c /\ call' = [call EXCEPT ![c].pc = "read"]
       ELSE call' = [call EXCEPT ![c].pc = "resume"] /\ UNCHANGED tcp
  /\ UNCHANGED <<server, outside, page, events, failures, names, spoilt,
                 offered, owed>>

\* The users and the attendance a read has brought back.
ReadDone(c, users, ok) ==
  call' = [call EXCEPT ![c] =
    [@ EXCEPT !.pc = "resume", !.users = users,
              !.records = IF ok /\ call[c].kind = "sync"
                            THEN InMemory(call[c].reader) ELSE {}]]

\* connect, get_users, get_attendance, disconnect and release.  A sync goes
\* on when the users alone could not be read.
ReadKeepsLock(c) ==
  /\ call[c].pc = "read"
  /\ \/ /\ ReadDone(c, Roster[call[c].reader], TRUE) /\ tcp' = NoCall
        /\ UNCHANGED failures
     \/ Failure /\ ReadDone(c, NoList, FALSE) /\ UNCHANGED tcp
  /\ UNCHANGED <<server, outside, page, events, names, spoilt, offered, owed>>
Read(c) ==
  /\ call[c].pc = "read"
  /\ tcp' = NoCall
  /\ \/ ReadDone(c, Roster[call[c].reader], TRUE) /\ UNCHANGED failures
     \/ Failure /\ ReadDone(c, NoList, FALSE)
     \/ Failure /\ call[c].kind = "sync" /\ ReadDone(c, NoList, TRUE)
  /\ UNCHANGED <<server, outside, page, events, names, spoilt, offered, owed>>

\* The names read from a reader that nothing is known about.
DiscoveredAlways(c) ==
  IF call[c].users # NoList THEN call[c].users ELSE Nameless
Discovered(c) ==
  [p \in Pin |-> IF call[c].users # NoList /\ cache[p] = NoName
                   THEN call[c].users[p] ELSE NoName]

\* Both coroutines go on with the names: in the cache, the list and both
\* files.
DiscoverForLater(c) ==
  /\ cache' = Recorded(Discovered(c))
  /\ lagging' = lagging \ NamedIn(Discovered(c))
  /\ UNCHANGED listed
Discover(c) ==
  /\ cache' = Recorded(Discovered(c))
  /\ listed' = Renamed(listed, Discovered(c))
  /\ lagging' = lagging \ NamedIn(Discovered(c))

ResumeAuto(c) ==
  /\ Free
  /\ call[c].pc = "resume" /\ call[c].kind = "auto"
  /\ call' = [call EXCEPT ![c] = Idle]
  /\ Discover(c)
  /\ IF call[c].users = NoList THEN Ask(call[c].reader) ELSE UNCHANGED queries
  /\ IF NamedIn(Discovered(c)) = {} THEN WriteNothing
                                    ELSE Write({"names", "logs"})
  /\ behind' = Behind
  /\ UNCHANGED <<stamped, turn, tcp, asked, page, events, offered, owed>>

\* The keys already listed are looked up after the await, in the same step as
\* the rows are added.
FreshByFile(c) == {p \in call[c].records : Key(p) \notin Keys(LoadedLogs)}
FreshByPin(c) == {p \in call[c].records : p.pin \notin ListedPins(listed)}
Fresh(c) == {p \in call[c].records : Key(p) \notin Keys(listed)}

ResumeSync(c) ==
  /\ Free
  /\ call[c].pc = "resume" /\ call[c].kind = "sync"
  /\ call' = [call EXCEPT ![c] = Idle]
  /\ Discover(c)
  /\ IF NamedIn(Discovered(c)) = {} THEN WriteNothing
                                    ELSE Write({"names", "logs"})
  /\ turn' = IF Fresh(c) = {} THEN NoTurn
             ELSE [NoTurn EXCEPT !.via = "sync", !.todo = Fresh(c),
                                 !.all = call[c].records]
  /\ behind' = Behind
  /\ UNCHANGED <<queries, stamped, tcp, asked, page, events, offered, owed>>

-----------------------------------------------------------------------------
(* Requests of a page, and the page                                        *)

\* POST set_name
SetName(p, n) ==
  /\ Event
  /\ LET new == [Nameless EXCEPT ![p] = n]
     IN  cache' = Recorded(new) /\ listed' = Renamed(listed, new)
  /\ Write({"names", "logs"})
  /\ lagging' = lagging \ {p}
  /\ behind' = Behind
  /\ UNCHANGED <<queries, stamped, turn, reads, asked, page, offered,
                 owed>>

\* POST clear, from this page, which then shows nothing, or from another.
ClearMemory ==
  /\ Event
  /\ listed' = <<>>
  /\ WriteNothing
  /\ owed' = {} /\ lagging' = {}
  /\ UNCHANGED <<cache, queries, stamped, turn, reads, asked, page, behind,
                 offered>>
Clear ==
  /\ Event
  /\ listed' = <<>>
  /\ Write({"logs"})
  /\ \/ /\ page.open /\ page.fetch = "none"
        /\ page' = [page EXCEPT !.fetch = "answered", !.answer = {}]
     \/ UNCHANGED page
  /\ owed' = {} /\ lagging' = {} /\ behind' = Behind
  /\ UNCHANGED <<cache, queries, stamped, turn, reads, asked, offered>>

\* The page is opened, or asks for the list again, with GET punches.
LoadInitial ==
  /\ Event
  /\ page.fetch = "none"
  /\ page' = [page EXCEPT !.open = TRUE, !.fetch = "sent"]
  /\ UNCHANGED <<server, reads, outside, failures, names, spoilt, offered,
                 owed>>

GetPunches ==
  /\ Free
  /\ page.fetch = "sent"
  /\ page' = [page EXCEPT !.fetch = "answered", !.answer = PunchesOf(Pruned(listed))]
  /\ UNCHANGED <<server, reads, outside, events, failures, names, spoilt,
                 offered, owed>>

\* The page takes over the answer in place of what it showed.
Apply ==
  /\ page.fetch = "answered"
  /\ page' = [page EXCEPT !.fetch = "none", !.answer = {},
                          !.shown = page.answer]
  /\ UNCHANGED <<server, reads, outside, events, failures, names, spoilt,
                 offered, owed>>

\* GET events: a queue of its own for each connection.
Connect ==
  /\ Free
  /\ page.open /\ ~page.stream
  /\ page' = [page EXCEPT !.stream = TRUE, !.queue = <<>>]
  /\ UNCHANGED <<server, reads, outside, events, failures, names, spoilt,
                 offered, owed>>

ReceiveOrForget ==
  /\ Free
  /\ page.stream /\ page.queue # <<>>
  /\ \/ page' = [page EXCEPT !.queue = Tail(@),
                             !.shown = @ \cup {Head(page.queue)}]
     \/ page' = [page EXCEPT !.queue = <<>>]
  /\ UNCHANGED <<server, reads, outside, events, failures, names, spoilt,
                 offered, owed>>
Receive ==
  /\ Free
  /\ page.stream /\ page.queue # <<>>
  /\ page' = [page EXCEPT !.queue = Tail(@),
                          !.shown = @ \cup {Head(page.queue)}]
  /\ UNCHANGED <<server, reads, outside, events, failures, names, spoilt,
                 offered, owed>>

\* The connection is lost, and the queue with it.
Disconnect ==
  /\ Failure
  /\ page.stream
  /\ page' = [page EXCEPT !.stream = FALSE, !.queue = <<>>]
  /\ owed' = owed \cap page.shown
  /\ UNCHANGED <<server, reads, outside, events, names, spoilt, offered>>

-----------------------------------------------------------------------------
(* Worker threads and kills                                                *)

\* create_device_user records a name, _remove_user_metadata forgets one, and
\* both save the cache, in a worker thread.  A deletion is NoName here.
BeginEdit(p, n) ==
  /\ Event
  /\ edit.pc = "idle"
  /\ edit' = [pc |-> "set", pin |-> p, name |-> n, clash |-> FALSE]
  /\ UNCHANGED <<server, reads, asked, page, failures, names, spoilt,
                 offered, owed>>

\* The rows of the PIN are left as they are; the file is opened for writing.
Edit ==
  /\ edit.pc = "set"
  /\ edit' = [edit EXCEPT !.pc = "save"]
  /\ cache' = [cache EXCEPT ![edit.pin] = edit.name]
  /\ namesFile' = Garbled
  /\ lagging' = lagging \cup {edit.pin}
  /\ UNCHANGED <<listed, logsFile, queries, stamped, turn, reads, asked,
                 page, events, failures, behind, spoilt, offered, owed>>

SaveEdit ==
  /\ edit.pc = "save"
  /\ edit' = NoEdit
  /\ \/ namesFile' = cache /\ UNCHANGED failures
     \/ edit.clash /\ namesFile' = Garbled /\ UNCHANGED failures
     \/ Failure /\ namesFile' = Garbled
  /\ spoilt' = IF namesFile' = cache THEN spoilt \ {"names"}
                                     ELSE spoilt \cup {"names"}
  /\ UNCHANGED <<listed, logsFile, cache, queries, stamped, turn, reads, 
                 asked, page, events, names, offered, owed>>

\* A kill and a start.  A file that was being written is an unfinished one.
Kill ==
  /\ Failure
  /\ listed' = LoadedLogs
  /\ cache' = LoadedNames
  /\ queries' = [r \in Reader |-> 0] /\ stamped' = {}
  /\ tcp' = NoCall /\ call' = [c \in Call |-> Idle]
  /\ turn' = NoTurn /\ edit' = NoEdit
  /\ page' = [page EXCEPT !.stream = FALSE, !.queue = <<>>,
                          !.fetch = IF @ = "sent" THEN "none" ELSE @]
  /\ spoilt' = IF edit.pc = "save" THEN spoilt \cup {"names"} ELSE spoilt
  /\ lagging' = {p \in Pin : \E i \in DOMAIN listed' :
                   /\ listed'[i].punch.pin = p
                   /\ listed'[i].name # cache'[p]}
  /\ offered' = offered \cup turn.due
  /\ owed' = owed \cap page.shown \cap PunchesOf(listed')
  /\ UNCHANGED <<logsFile, namesFile, asked, events, behind>>

-----------------------------------------------------------------------------

ReaderStep(r) ==
  \/ Handshake(r) \/ QueryUsers(r) \/ OperLog(r) \/ SyncDevice(r)
  \/ \E batch \in SUBSET InMemory(r) \ {{}} : Push(r, batch)

\* What the process does by itself once it has begun.
Run(c) ==
  BeginAuto(c) \/ TryLock(c) \/ Read(c) \/ ResumeAuto(c) \/ ResumeSync(c)
GoOn == Ingest \/ \E p \in Punch : Announce(p)
PageStep == GetPunches \/ Apply \/ Connect \/ Receive

Next ==
  \/ \E r \in Reader : ReaderStep(r) \/ Poll(r) \/ PostUsers(r)
  \/ \E c \in Call : Run(c)
  \/ GoOn
  \/ \E p \in Pin : \/ \E n \in Person : SetName(p, n)
                    \/ \E n \in Name : BeginEdit(p, n)
  \/ Clear \/ LoadInitial \/ PageStep \/ Disconnect
  \/ Edit \/ SaveEdit
  \/ Kill

\* The event loop and the threads go on with what is there to do; pyzk has a
\* timeout; a reader polls every few seconds and answers what it is asked.
Fairness ==
  /\ WF_vars(GoOn) /\ WF_vars(Edit \/ SaveEdit)
  /\ \A c \in Call : WF_vars(Run(c))
  /\ \A r \in Reader : WF_vars(Poll(r)) /\ WF_vars(PostUsers(r))

Spec == Init /\ [][Next]_vars /\ Fairness

-----------------------------------------------------------------------------
(* Properties                                                              *)

\* A sync adds no second row for a PIN and time: the rows it is compared with
\* are those of the moment it adds its own, whatever was pushed or synced while
\* the reader was being read.  (A push does add one, and an old punch never
\* stays in the list.)
SyncAddsOnce ==
  [][\A p \in turn.todo \ turn'.todo :
       turn.via = "sync" /\ Len(listed') > Len(listed)
         => Key(p) \notin Keys(listed)]_vars

\* When a sync ends, every record it read has been handed to ingest, or one
\* with the same PIN and time has, from whichever reader, also when a file
\* could not be written, unless a kill came between a broadcast and its ingest.
Gone(c) == IF call[c].pc = "resume" /\ call'[c].pc = "idle" /\ turn' = NoTurn
             THEN call[c].records ELSE {}
Ended == IF turn.via = "sync" /\ turn' = NoTurn THEN turn.all
         ELSE UNION {Gone(c) : c \in Call}
SyncOffersAll ==
  [][~Kill =>
       {Key(p) : p \in Ended} \subseteq {Key(p) : p \in offered'}]_vars

\* Rows show the name the cache has for their PIN.  The exceptions: the name
\* came from the LMS or from an enrolment when the row was already there, or
\* the row was read from a file older than the names.
NamesShown ==
  \A i \in DOMAIN listed :
    LET p == listed[i].punch.pin
    IN  cache[p] # NoName /\ p \notin lagging => listed[i].name = cache[p]

\* A restart would bring back every row, with its name unless the reader sent
\* that after the last write.
LogsFollow ==
  "logs" \in spoilt \/
    /\ logsFile # Garbled
    /\ Len(LoadedLogs) = Len(listed)
    /\ \A i \in DOMAIN listed :
         /\ LoadedLogs[i].punch = listed[i].punch
         /\ LoadedLogs[i].punch.pin \notin behind =>
              LoadedLogs[i].name = listed[i].name

\* A restart would bring back every name, whichever thread or handler wrote
\* the file last, unless a write failed or two dumps met.
NamesFollow ==
  "names" \in spoilt \/ edit.pc = "save" \/
    \A p \in Pin : cache[p] # NoName => LoadedNames[p] = cache[p]

\* A page loses no row that reached it while it was connected and waited for
\* no answer: later answers contain it.
PageShowsOwed ==
  owed \subseteq page.shown \cup ToSet(page.queue)

\* Reading a reader in the background changes no name that became known in
\* the meantime, also when a file could not be written.  (A kill ends a read
\* too.)
KnownNameKept ==
  [][~Kill => \A c \in Call :
       call[c].pc = "resume" /\ call'[c].pc = "idle" =>
         \A p \in Pin : cache[p] # NoName => cache'[p] = cache[p]]_vars

\* The lock on TCP reads is given back again and again.
TcpFreed == []<>(tcp = NoCall)

\* A PIN shown without a name gets the name its reader has, if no reply is
\* lost, nobody deletes it meanwhile, and the process is not killed.
Unnamed(p) ==
  /\ cache[p] = NoName
  /\ \E i \in DOMAIN listed : /\ listed[i].punch.pin = p
                              /\ Roster[listed[i].punch.reader][p] # NoName
NameLearned ==
  \A p \in Pin :
    Unnamed(p) ~> (~Unnamed(p) \/ failures > 0 \/ p \in lagging)
=============================================================================
