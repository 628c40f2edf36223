--------------------------- MODULE DashboardProofs ---------------------------
(***************************************************************************)
(* Theorems about Dashboard, for any readers, PINs, punches, reads under   *)
(* way and failures.                                                       *)
(*                                                                         *)
(* The handlers and steps change the lists in nine ways (Kind): names      *)
(* arrive, names are looked up, a row is announced, punches are ingested,  *)
(* the list is cleared, an edit changes a name or saves it, the process is *)
(* killed, or nothing of this happens.  Inv is kept by each of the nine.   *)
(***************************************************************************)
EXTENDS Dashboard, TLAPS, SequenceTheorems, FiniteSetTheorems

-----------------------------------------------------------------------------
(* Lists of rows                                                           *)

InWindow(rows) == \A i \in DOMAIN rows : rows[i].punch \notin Old

(* A list of rows: its positions and what is there.                        *)
LEMMA RowsAre ==
  ASSUME NEW rows \in Seq(Row)
  PROVE  /\ Len(rows) \in Nat /\ DOMAIN rows = 1..Len(rows)
         /\ \A i \in DOMAIN rows : /\ rows[i] \in Row /\ rows[i].punch \in Punch
                                   /\ rows[i].name \in Name
         /\ PunchesOf(rows) \subseteq Punch
<1>1. Len(rows) \in Nat /\ DOMAIN rows = 1..Len(rows) /\ rows \in [1..Len(rows) -> Row]
  BY LenProperties
<1>2. QED
  BY <1>1 DEF Row, PunchesOf

(* A list whose positions are 1..n and whose values are rows.              *)
LEMMA RowsFrom ==
  ASSUME NEW n \in Nat, NEW rows, rows \in [1..n -> Row]
  PROVE  rows \in Seq(Row) /\ Len(rows) = n
BY SeqDef, LenProperties

(* Renaming keeps the punches, and gives a row the new name of its PIN if  *)
(* there is one.                                                           *)
LEMMA RenamedAre ==
  ASSUME NEW rows \in Seq(Row), NEW new \in [Pin -> Name]
  PROVE  /\ Renamed(rows, new) \in Seq(Row)
         /\ Len(Renamed(rows, new)) = Len(rows)
         /\ DOMAIN Renamed(rows, new) = DOMAIN rows
         /\ \A i \in DOMAIN rows :
              LET n == new[rows[i].punch.pin]
              IN  /\ Renamed(rows, new)[i].punch = rows[i].punch
                  /\ Renamed(rows, new)[i].name =
                       IF n = NoName THEN rows[i].name ELSE n
         /\ PunchesOf(Renamed(rows, new)) = PunchesOf(rows)
         /\ InWindow(rows) => InWindow(Renamed(rows, new))
<1> DEFINE all == Renamed(rows, new)
<1>1. /\ Len(rows) \in Nat /\ DOMAIN rows = 1..Len(rows)
      /\ \A i \in DOMAIN rows : rows[i] \in Row /\ rows[i].punch \in Punch
  BY RowsAre
<1>2. DOMAIN all = 1..Len(rows) /\ all = [i \in 1..Len(rows) |-> all[i]]
  BY <1>1 DEF Renamed
<1>3. ASSUME NEW i \in 1..Len(rows)
      PROVE  LET n == new[rows[i].punch.pin]
             IN  /\ all[i] \in Row
                 /\ all[i].punch = rows[i].punch
                 /\ all[i].name = IF n = NoName THEN rows[i].name ELSE n
  <2>1. rows[i] \in Row /\ new[rows[i].punch.pin] \in Name
    BY <1>1, DashboardAssumption
  <2>2. all[i] = LET n == new[rows[i].punch.pin]
                 IN  IF n = NoName THEN rows[i] ELSE [rows[i] EXCEPT !.name = n]
    BY <1>1 DEF Renamed
  <2> HIDE DEF all
  <2>3. QED
    BY <2>1, <2>2 DEF Row
<1> HIDE DEF all
<1>4. all \in [1..Len(rows) -> Row]
  BY <1>2, <1>3
<1>5. all \in Seq(Row) /\ Len(all) = Len(rows)
  BY <1>1, <1>4, RowsFrom
<1>6. PunchesOf(all) = PunchesOf(rows) /\ (InWindow(rows) => InWindow(all))
  BY <1>1, <1>2, <1>3 DEF PunchesOf, InWindow
<1>7. QED
  BY <1>1, <1>2, <1>3, <1>5, <1>6 DEF all

(* Without a new name nothing is renamed.                                  *)
LEMMA RenamedNothing ==
  ASSUME NEW rows \in Seq(Row), NEW new \in [Pin -> Name], NamedIn(new) = {}
  PROVE  Renamed(rows, new) = rows
<1>1. /\ Len(rows) \in Nat /\ DOMAIN rows = 1..Len(rows)
      /\ \A i \in DOMAIN rows : rows[i] \in Row /\ rows[i].punch \in Punch
  BY RowsAre
<1>2. \A i \in DOMAIN rows : new[rows[i].punch.pin] = NoName
  BY <1>1, DashboardAssumption DEF NamedIn
<1>3. Renamed(rows, new) = [i \in DOMAIN rows |-> rows[i]]
  BY <1>2 DEF Renamed
<1>4. rows \in [1..Len(rows) -> Row]
  BY LenProperties
<1>5. QED
  BY <1>1, <1>3, <1>4

(* The numbers 1..n count themselves.                                      *)
LEMMA CountTo ==
  ASSUME NEW n \in Nat
  PROVE  /\ Cardinality(1..n) = n
         /\ \A k \in 1..n : Cardinality({j \in 1..n : j <= k}) = k
<1>1. Cardinality(1..n) = n
  BY FS_Interval
<1>2. ASSUME NEW k \in 1..n
      PROVE  Cardinality({j \in 1..n : j <= k}) = k
  <2>1. {j \in 1..n : j <= k} = 1..k
    OBVIOUS
  <2>2. Cardinality(1..k) = k
    BY FS_Interval
  <2>3. QED
    BY <2>1, <2>2
<1>3. QED
  BY <1>1, <1>2

(* What is left when all rows up to a position stay and none beyond it.    *)
LEMMA PrunedTo ==
  ASSUME NEW rows \in Seq(Row), NEW n \in 0..Len(rows),
         \A i \in DOMAIN rows : rows[i].punch \notin Old <=> i <= n
  PROVE  Pruned(rows) = SubSeq(rows, 1, n)
<1> DEFINE kept == {i \in DOMAIN rows : rows[i].punch \notin Old}
           nth(k) == CHOOSE i \in kept : Cardinality({j \in kept : j <= i}) = k
<1>1. Len(rows) \in Nat /\ DOMAIN rows = 1..Len(rows) /\ n \in Nat
  BY RowsAre
<1>2. kept = 1..n
  BY <1>1
<1>3. Pruned(rows) = [k \in 1..Cardinality(kept) |-> rows[nth(k)]]
  BY DEF Pruned
<1> HIDE DEF kept
<1>4. ASSUME NEW k \in 1..n
      PROVE  nth(k) = k
  BY <1>1, <1>2, CountTo
<1>5. Pruned(rows) = [k \in 1..n |-> rows[k]]
  <2> HIDE DEF nth
  <2>1. QED
    BY <1>1, <1>2, <1>3, <1>4, CountTo
<1>6. SubSeq(rows, 1, n) = [k \in 1..n |-> rows[k]]
  BY <1>1
<1>7. QED
  BY <1>5, <1>6

(* Pruning leaves a list without old rows as it is.                        *)
LEMMA PrunedSame ==
  ASSUME NEW rows \in Seq(Row), InWindow(rows)
  PROVE  Pruned(rows) = rows
<1>1. Len(rows) \in Nat /\ DOMAIN rows = 1..Len(rows)
  BY RowsAre
<1>2. Pruned(rows) = SubSeq(rows, 1, Len(rows))
  BY <1>1, PrunedTo DEF InWindow
<1>3. QED
  BY <1>2, SubSeqFull

(* A row that is added to such a list stays unless it is old.              *)
LEMMA PrunedAppend ==
  ASSUME NEW rows \in Seq(Row), InWindow(rows), NEW row \in Row
  PROVE  Pruned(Append(rows, row)) =
           IF row.punch \in Old THEN rows ELSE Append(rows, row)
<1> DEFINE all == Append(rows, row)
<1>1. Len(rows) \in Nat /\ DOMAIN rows = 1..Len(rows)
  BY RowsAre
<1>2. /\ all \in Seq(Row) /\ Len(all) = Len(rows) + 1
      /\ \A i \in 1..Len(rows) : all[i] = rows[i]
      /\ all[Len(rows) + 1] = row
  BY <1>1
<1>3. DOMAIN all = 1..(Len(rows) + 1)
  BY <1>2, RowsAre
<1> HIDE DEF all
<1>4. CASE row.punch \in Old
  <2>1. Pruned(all) = SubSeq(all, 1, Len(rows))
    BY <1>1, <1>2, <1>3, <1>4, PrunedTo DEF InWindow
  <2>2. SubSeq(all, 1, Len(rows)) = [i \in 1..Len(rows) |-> rows[i]]
    BY <1>1, <1>2
  <2>3. rows \in [1..Len(rows) -> Row]
    BY LenProperties
  <2>4. QED
    BY <1>4, <2>1, <2>2, <2>3 DEF all
<1>5. CASE row.punch \notin Old
  <2>1. InWindow(all)
    BY <1>1, <1>2, <1>3, <1>5 DEF InWindow
  <2>2. QED
    BY <1>2, <1>5, <2>1, PrunedSame DEF all
<1>6. QED
  BY <1>4, <1>5

(* What a list is after a row has been added and old rows are gone.        *)
LEMMA AddedAre ==
  ASSUME NEW rows \in Seq(Row), InWindow(rows), NEW row \in Row
  PROVE  LET new == Pruned(Append(rows, row))
         IN  /\ new \in Seq(Row) /\ InWindow(new)
             /\ PunchesOf(rows) \subseteq PunchesOf(new)
             /\ PunchesOf(new) \subseteq PunchesOf(rows) \cup {row.punch}
             /\ row.punch \notin Old => row.punch \in PunchesOf(new)
             /\ row.punch \in Old => new = rows
             /\ \A i \in DOMAIN new :
                  new[i] = row \/ (i \in DOMAIN rows /\ new[i] = rows[i])
<1> DEFINE all == Append(rows, row)
<1>1. Len(rows) \in Nat /\ DOMAIN rows = 1..Len(rows)
  BY RowsAre
<1>2. /\ all \in Seq(Row) /\ Len(all) = Len(rows) + 1
      /\ \A i \in 1..Len(rows) : all[i] = rows[i]
      /\ all[Len(rows) + 1] = row
  BY <1>1
<1>3. DOMAIN all = 1..(Len(rows) + 1)
  BY <1>2, RowsAre
<1>4. Pruned(all) = IF row.punch \in Old THEN rows ELSE all
  BY PrunedAppend
<1> HIDE DEF all
<1>5. CASE row.punch \in Old
  BY <1>1, <1>4, <1>5 DEF all
<1>6. CASE row.punch \notin Old
  <2>1. \A i \in DOMAIN all : all[i] = row \/ (i \in DOMAIN rows /\ all[i] = rows[i])
    BY <1>1, <1>2, <1>3
  <2>2. InWindow(all)
    BY <1>6, <2>1 DEF InWindow
  <2>3. row.punch \in PunchesOf(all)
    <3>1. Len(rows) + 1 \in DOMAIN all
      BY <1>1, <1>3
    <3>2. QED
      BY <1>2, <3>1 DEF PunchesOf
  <2>4. PunchesOf(rows) \subseteq PunchesOf(all)
    <3>1. \A i \in DOMAIN rows : i \in DOMAIN all /\ all[i] = rows[i]
      BY <1>1, <1>2, <1>3
    <3>2. QED
      BY <3>1 DEF PunchesOf
  <2>5. PunchesOf(all) \subseteq PunchesOf(rows) \cup {row.punch}
    BY <2>1 DEF PunchesOf
  <2>6. QED
    BY <1>2, <1>4, <1>6, <2>1, <2>2, <2>3, <2>4, <2>5 DEF all
<1>7. QED
  BY <1>5, <1>6

-----------------------------------------------------------------------------
(* Names and files                                                         *)

(* The cache after new names have been recorded in it.                     *)
LEMMA RecordedIs ==
  ASSUME cache \in [Pin -> Name], NEW new \in [Pin -> Name]
  PROVE  /\ Recorded(new) \in [Pin -> Name]
         /\ \A p \in Pin :
              Recorded(new)[p] = IF new[p] = NoName THEN cache[p] ELSE new[p]
         /\ \A p \in Pin : p \in NamedIn(new) <=> new[p] # NoName
         /\ NamedIn(new) \subseteq Pin
         /\ NamedIn(new) = {} => Recorded(new) = cache
BY DEF Recorded, NamedIn

(* The LMS is asked for names that are not known.                          *)
LEMMA AnswersAre ==
  ASSUME NEW pins \in SUBSET Pin, NEW new \in LmsAnswers(pins)
  PROVE  /\ new \in [Pin -> Name]
         /\ \A p \in Pin : new[p] # NoName => cache[p] = NoName
BY DashboardAssumption DEF LmsAnswers, Name

(* The names that a start reads from the file.                             *)
LEMMA LoadedNamesAre ==
  ASSUME namesFile \in [Pin -> Name] \cup {Garbled}
  PROVE  /\ LoadedNames \in [Pin -> Name]
         /\ namesFile # Garbled =>
              \A p \in Pin : namesFile[p] # NoName => LoadedNames[p] = namesFile[p]
<1>1. CASE namesFile = Garbled
  BY <1>1, DashboardAssumption DEF LoadedNames
<1>2. CASE namesFile # Garbled
  BY <1>2, DashboardAssumption DEF LoadedNames
<1>3. QED
  BY <1>1, <1>2

(* Whether a failure is possible is counted.                               *)
LEMMA FailuresAre ==
  ASSUME failures \in 0..MaxFailures, NEW n \in Nat, Failures(n)
  PROVE  /\ failures' \in 0..MaxFailures
         /\ n # 0 => failures' # failures
<1>1. MaxFailures \in Nat /\ MaxEvents \in Nat
  BY DashboardAssumption
<1>2. QED
  BY <1>1 DEF Failures

(* How many of the two files fail.                                         *)
LEMMA FilesAreFinite ==
  ASSUME NEW files \in SUBSET {"logs", "names"}
  PROVE  Cardinality(files) \in Nat
<1>1. IsFiniteSet({"logs"} \cup {"names"})
  BY FS_Singleton, FS_Union
<1>2. IsFiniteSet(files)
  <2>1. files \in SUBSET ({"logs"} \cup {"names"})
    OBVIOUS
  <2>2. QED
    BY <1>1, <2>1, FS_Subset
<1>3. QED
  BY <1>2, FS_CardinalityType

(* What becomes of a file: the whole list or cache is in it, or it is      *)
(* noted that it is not; or the file is left alone.                        *)
SavesLogs ==
  \/ logsFile' = listed' /\ "logs" \notin spoilt'
  \/ logsFile' = Garbled /\ "logs" \in spoilt'
KeepsLogs == logsFile' = logsFile /\ ("logs" \in spoilt' <=> "logs" \in spoilt)
SavesNames ==
  \/ namesFile' = cache' /\ "names" \notin spoilt'
  \/ namesFile' = Garbled /\ "names" \in spoilt'
KeepsNames ==
  namesFile' = namesFile /\ ("names" \in spoilt' <=> "names" \in spoilt)
EditGoesOn == edit' = edit \/ edit' = [edit EXCEPT !.clash = TRUE]

(* A dump.                                                                 *)
LEMMA WriteLeaves ==
  ASSUME failures \in 0..MaxFailures, NEW files \in SUBSET {"logs", "names"},
         Write(files)
  PROVE  /\ failures' \in 0..MaxFailures /\ EditGoesOn
         /\ IF "logs" \in files THEN SavesLogs ELSE KeepsLogs
         /\ IF "names" \in files THEN SavesNames ELSE KeepsNames
<1>1. PICK failed \in SUBSET files :
        /\ Failures(Cardinality(failed))
        /\ logsFile' = IF "logs" \in failed THEN Garbled
                       ELSE IF "logs" \in files THEN listed' ELSE logsFile
        /\ namesFile' \in IF "names" \in failed THEN {Garbled}
                          ELSE IF "names" \notin files THEN {namesFile}
                          ELSE IF edit.pc = "idle" THEN {cache'}
                          ELSE {cache', Garbled}
        /\ spoilt' = (spoilt \ files)
                       \cup {f \in files : \/ f = "logs" /\ logsFile' # listed'
                                           \/ f = "names" /\ namesFile' # cache'}
        /\ edit' = IF "names" \in files /\ edit.pc = "save"
                     THEN [edit EXCEPT !.clash = TRUE] ELSE edit
  BY DEF Write
<1>2. failures' \in 0..MaxFailures
  BY <1>1, FilesAreFinite, FailuresAre
<1>3. EditGoesOn
  BY <1>1 DEF EditGoesOn
<1>4. IF "logs" \in files THEN SavesLogs ELSE KeepsLogs
  BY <1>1 DEF SavesLogs, KeepsLogs
<1>5. IF "names" \in files THEN SavesNames ELSE KeepsNames
  BY <1>1 DEF SavesNames, KeepsNames
<1>6. QED
  BY <1>2, <1>3, <1>4, <1>5

(* No dump.                                                                *)
LEMMA WriteNothingLeaves ==
  ASSUME WriteNothing
  PROVE  KeepsLogs /\ KeepsNames /\ EditGoesOn /\ UNCHANGED failures
BY DEF WriteNothing, KeepsLogs, KeepsNames, EditGoesOn

(* Names of the LMS come in for PINs that have none, and the file is saved *)
(* if there are any.                                                       *)
Learns ==
  /\ cache' \in [Pin -> Name]
  /\ \A p \in Pin : /\ cache[p] # NoName => cache'[p] = cache[p]
                    /\ cache'[p] # cache[p] /\ p \in ListedPins(listed) =>
                         p \in lagging'
  /\ lagging \subseteq lagging'
  /\ SavesNames \/ (KeepsNames /\ UNCHANGED cache)

(* Learning names saves the file, or learns nothing.                       *)
LEMMA LearnLeaves ==
  ASSUME cache \in [Pin -> Name], NEW pins \in SUBSET Pin,
         NEW new \in LmsAnswers(pins), Learn(new),
         SavesNames \/ (KeepsNames /\ NamedIn(new) = {})
  PROVE  Learns /\ cache' = Recorded(new)
<1>1. new \in [Pin -> Name] /\ \A p \in Pin : new[p] # NoName => cache[p] = NoName
  BY AnswersAre
<1>2. /\ cache' = Recorded(new)
      /\ lagging' = lagging \cup (NamedIn(new) \cap ListedPins(listed))
  BY DEF Learn
<1>3. QED
  BY <1>1, <1>2, RecordedIs DEF Learns

(* Looking names up leaves the list and its file alone.                    *)
LEMMA LookUpLeaves ==
  ASSUME cache \in [Pin -> Name], failures \in 0..MaxFailures,
         NEW pins \in SUBSET Pin, LookUp(pins)
  PROVE  Learns /\ KeepsLogs /\ EditGoesOn /\ failures' \in 0..MaxFailures
<1>1. PICK new \in LmsAnswers(pins) :
        /\ Learn(new)
        /\ IF NamedIn(new) = {} THEN WriteNothing ELSE Write({"names"})
  BY DEF LookUp
<1>2. CASE NamedIn(new) = {} /\ WriteNothing
  BY <1>1, <1>2, WriteNothingLeaves, LearnLeaves
<1>3. CASE Write({"names"})
  <2>1. /\ failures' \in 0..MaxFailures /\ EditGoesOn
        /\ KeepsLogs /\ SavesNames
    BY <1>3, WriteLeaves
  <2>2. QED
    BY <1>1, <2>1, LearnLeaves
<1>4. QED
  BY <1>1, <1>2, <1>3

-----------------------------------------------------------------------------
(* The reads over TCP                                                      *)

CallState == [pc: {"idle", "begin", "wait", "read", "resume"},
              kind: {"none", "auto", "sync"}, reader: Reader,
              users: [Pin -> Name] \cup {NoList}, records: SUBSET Punch]
TurnState == [via: {"none", "push", "sync"}, todo: SUBSET Punch,
              due: SUBSET Punch, all: SUBSET Punch, named: [Pin -> Name]]
EditState == [pc: {"idle", "set", "save"}, pin: Pin, name: Name,
              clash: BOOLEAN]
PageState == [open: BOOLEAN, stream: BOOLEAN, queue: Seq(Punch),
              shown: SUBSET Punch, answer: SUBSET Punch,
              fetch: {"none", "sent", "answered"}]

\* A sync brings back records of its own reader, and nothing else does.
Brought(s) == /\ s.records \subseteq InMemory(s.reader)
              /\ s.kind # "sync" => s.records = {}
Reads ==
  /\ tcp \in Call \cup {NoCall}
  /\ call \in [Call -> CallState]
  /\ \A c \in Call : call[c].pc = "read" <=> tcp = c
  /\ \A c \in Call : Brought(call[c])

(* What nothing is under way with.                                         *)
LEMMA NothingYet ==
  /\ Idle \in CallState /\ Idle.pc = "idle" /\ Idle.records = {}
  /\ NoTurn \in TurnState /\ NoEdit \in EditState /\ NoPage \in PageState
  /\ NoTurn.via = "none" /\ NoTurn.todo = {} /\ NoTurn.due = {} /\ NoTurn.all = {}
  /\ \A p \in Pin : NoTurn.named[p] = NoName
<1>1. (CHOOSE r \in Reader : TRUE) \in Reader /\ (CHOOSE p \in Pin : TRUE) \in Pin
  BY DashboardAssumption
<1>2. Nameless \in [Pin -> Name] /\ \A p \in Pin : Nameless[p] = NoName
  BY DEF Nameless, Name
<1>3. Idle \in CallState /\ Idle.pc = "idle" /\ Idle.records = {}
  BY <1>1 DEF Idle, CallState
<1>4. /\ NoTurn \in TurnState
      /\ NoTurn.via = "none" /\ NoTurn.todo = {} /\ NoTurn.due = {}
      /\ NoTurn.all = {} /\ NoTurn.named = Nameless
  BY <1>2 DEF NoTurn, TurnState
<1>5. NoEdit \in EditState
  BY <1>1 DEF NoEdit, EditState, Name
<1>6. NoPage \in PageState
  <2>1. <<>> \in Seq(Punch)
    OBVIOUS
  <2>2. QED
    BY <2>1 DEF NoPage, PageState
<1>7. QED
  BY <1>2, <1>3, <1>4, <1>5, <1>6

(* One read goes on.                                                       *)
LEMMA CallStep ==
  ASSUME Reads, NEW c \in Call, NEW s \in CallState, Brought(s),
         call' = [call EXCEPT ![c] = s],
         \/ tcp' = tcp /\ (s.pc = "read" <=> tcp = c)
         \/ tcp' = c /\ tcp = NoCall /\ s.pc = "read"
         \/ tcp' = NoCall /\ tcp = c /\ s.pc # "read"
  PROVE  Reads'
<1>1. NoCall \notin Call
  BY DashboardAssumption
<1>2. /\ call' \in [Call -> CallState] /\ call'[c] = s
      /\ \A x \in Call : x # c => call'[x] = call[x]
  BY DEF Reads
<1>3. tcp' \in Call \cup {NoCall}
  BY DEF Reads
<1>4. ASSUME NEW x \in Call
      PROVE  /\ call'[x].pc = "read" <=> tcp' = x
             /\ Brought(call'[x])
  <2>1. CASE x = c
    BY <1>1, <1>2, <2>1
  <2>2. CASE x # c
    <3>1. call'[x] = call[x] /\ (call[x].pc = "read" <=> tcp = x) /\ Brought(call[x])
      BY <1>2, <2>2 DEF Reads
    <3>2. QED
      BY <1>1, <2>2, <3>1
  <2>3. QED
    BY <2>1, <2>2
<1>5. QED
  BY <1>2, <1>3, <1>4 DEF Reads, Brought, InMemory

(* A read begins where none is.                                            *)
LEMMA BeginStep ==
  ASSUME Reads, NEW pc \in {"begin", "wait"}, NEW kind \in {"auto", "sync"},
         NEW r \in Reader, Begin(pc, kind, r), UNCHANGED tcp
  PROVE  Reads'
<1> DEFINE s == [Idle EXCEPT !.pc = pc, !.kind = kind, !.reader = r]
<1>1. PICK c \in Call : call[c].pc = "idle" /\ call' = [call EXCEPT ![c] = s]
  <2> DEFINE idle == {c \in Call : call[c].pc = "idle"}
  <2>1. idle # {} /\ call' = [call EXCEPT ![CHOOSE x \in idle : TRUE] = s]
    BY DEF Begin
  <2>2. (CHOOSE x \in idle : TRUE) \in idle
    BY <2>1
  <2>3. QED
    BY <2>1, <2>2
<1>2. s \in CallState /\ s.pc = pc /\ s.records = {}
  BY NothingYet DEF CallState
<1>3. Brought(s)
  BY <1>2 DEF Brought
<1>4. tcp # c /\ s.pc # "read"
  BY <1>1, <1>2 DEF Reads
<1> HIDE DEF s
<1>5. QED
  BY <1>1, <1>2, <1>3, <1>4, CallStep

(* A worker thread takes the lock or finds it taken.                       *)
LEMMA TryLockReads ==
  ASSUME Reads, NEW c \in Call, TryLock(c)
  PROVE  Reads'
<1>1. /\ call[c] \in CallState /\ call[c].pc = "wait" /\ tcp # c
      /\ Brought(call[c])
  BY DEF Reads, TryLock
<1>2. CASE tcp = NoCall
  <2> DEFINE s == [call[c] EXCEPT !.pc = "read"]
  <2>1. call' = [call EXCEPT ![c] = s] /\ tcp' = c
    BY <1>1, <1>2 DEF TryLock, Reads
  <2>2. s \in CallState /\ s.pc = "read" /\ Brought(s)
    BY <1>1 DEF CallState, Brought
  <2> HIDE DEF s
  <2>3. QED
    BY <1>2, <2>1, <2>2, CallStep
<1>3. CASE tcp # NoCall
  <2> DEFINE s == [call[c] EXCEPT !.pc = "resume"]
  <2>1. call' = [call EXCEPT ![c] = s] /\ tcp' = tcp
    BY <1>1, <1>3 DEF TryLock, Reads
  <2>2. s \in CallState /\ s.pc # "read" /\ Brought(s)
    BY <1>1 DEF CallState, Brought
  <2> HIDE DEF s
  <2>3. QED
    BY <1>1, <2>1, <2>2, CallStep
<1>4. QED
  BY <1>2, <1>3

(* A background read begins or is skipped.                                 *)
LEMMA BeginAutoReads ==
  ASSUME Reads, NEW c \in Call, BeginAuto(c)
  PROVE  Reads'
<1>1. /\ call[c] \in CallState /\ call[c].pc = "begin" /\ tcp # c
      /\ Brought(call[c]) /\ tcp' = tcp
  BY DEF Reads, BeginAuto
<1>2. CASE call' = [call EXCEPT ![c] = Idle]
  <2>1. Brought(Idle)
    BY NothingYet DEF Brought
  <2>2. QED
    BY <1>1, <1>2, <2>1, NothingYet, CallStep
<1>3. CASE call' = [call EXCEPT ![c].pc = "wait"]
  <2> DEFINE s == [call[c] EXCEPT !.pc = "wait"]
  <2>1. call' = [call EXCEPT ![c] = s]
    BY <1>1, <1>3 DEF Reads
  <2>2. s \in CallState /\ s.pc # "read" /\ Brought(s)
    BY <1>1 DEF CallState, Brought
  <2> HIDE DEF s
  <2>3. QED
    BY <1>1, <2>1, <2>2, CallStep
<1>4. QED
  BY <1>2, <1>3 DEF BeginAuto

(* A read ends, and gives the lock back.                                   *)
LEMMA ReadDoneReads ==
  ASSUME Reads, NEW c \in Call, call[c].pc = "read", tcp' = NoCall,
         NEW users \in [Pin -> Name] \cup {NoList}, NEW ok \in BOOLEAN,
         ReadDone(c, users, ok)
  PROVE  Reads'
<1> DEFINE records == IF ok /\ call[c].kind = "sync"
                        THEN InMemory(call[c].reader) ELSE {}
           s == [call[c] EXCEPT !.pc = "resume", !.users = users,
                                !.records = records]
<1>1. call[c] \in CallState /\ tcp = c
  BY DEF Reads
<1>2. call' = [call EXCEPT ![c] = s]
  BY <1>1 DEF ReadDone, Reads
<1>3. records \in SUBSET Punch
  BY DEF InMemory
<1>4. s \in CallState /\ s.pc # "read"
  BY <1>1, <1>3 DEF CallState
<1>5. Brought(s)
  BY <1>1 DEF CallState, Brought
<1> HIDE DEF s
<1>6. QED
  BY <1>1, <1>2, <1>4, <1>5, CallStep

(* A read over TCP.                                                        *)
LEMMA ReadReads ==
  ASSUME Reads, failures \in 0..MaxFailures, NEW c \in Call, Read(c)
  PROVE  Reads' /\ failures' \in 0..MaxFailures
<1>1. call[c].pc = "read" /\ tcp' = NoCall
  BY DEF Read
<1>2. call[c] \in CallState
  BY DEF Reads
<1>3. Roster[call[c].reader] \in [Pin -> Name]
  BY <1>2, DashboardAssumption DEF CallState
<1>4. \/ ReadDone(c, Roster[call[c].reader], TRUE) /\ UNCHANGED failures
      \/ Failure /\ ReadDone(c, NoList, FALSE)
      \/ Failure /\ ReadDone(c, NoList, TRUE)
  BY DEF Read
<1>5. Failure => failures' \in 0..MaxFailures
  BY FailuresAre DEF Failure
<1>6. CASE ReadDone(c, Roster[call[c].reader], TRUE) /\ UNCHANGED failures
  BY <1>1, <1>3, <1>6, ReadDoneReads
<1>7. CASE Failure /\ ReadDone(c, NoList, FALSE)
  BY <1>1, <1>5, <1>7, ReadDoneReads
<1>8. CASE Failure /\ ReadDone(c, NoList, TRUE)
  BY <1>1, <1>5, <1>8, ReadDoneReads
<1>9. QED
  BY <1>4, <1>6, <1>7, <1>8

(* The coroutine has gone on with what it read.                            *)
LEMMA ResumeReads ==
  ASSUME Reads, NEW c \in Call, call[c].pc = "resume",
         call' = [call EXCEPT ![c] = Idle], UNCHANGED tcp
  PROVE  Reads'
<1>1. tcp # c
  BY DEF Reads
<1>2. Brought(Idle)
  BY NothingYet DEF Brought
<1>3. QED
  BY <1>1, <1>2, NothingYet, CallStep

(* No read survives a kill.                                                *)
LEMMA NoReads ==
  ASSUME tcp' = NoCall, call' = [c \in Call |-> Idle]
  PROVE  Reads'
<1>1. Brought(Idle)
  BY NothingYet DEF Brought
<1>2. NoCall \notin Call
  BY DashboardAssumption
<1>3. /\ call' \in [Call -> CallState]
      /\ \A c \in Call : call'[c] = Idle
  BY NothingYet
<1>4. \A c \in Call : Brought(call'[c]) /\ (call'[c].pc = "read" <=> tcp' = c)
  BY <1>1, <1>2, <1>3, NothingYet
<1>5. QED
  BY <1>3, <1>4 DEF Reads, Brought, InMemory

(* The names a reader has answered with are names.                         *)
LEMMA DiscoveredAre ==
  ASSUME Reads, NEW c \in Call
  PROVE  /\ Discovered(c) \in [Pin -> Name]
         /\ \A p \in Pin : Discovered(c)[p] # NoName => cache[p] = NoName
<1>1. call[c] \in CallState
  BY DEF Reads
<1>2. call[c].users # NoList => call[c].users \in [Pin -> Name]
  BY <1>1 DEF CallState
<1>3. NoName \in Name
  BY DEF Name
<1>4. ASSUME NEW p \in Pin
      PROVE  /\ Discovered(c)[p] \in Name
             /\ Discovered(c)[p] # NoName => cache[p] = NoName
  BY <1>2, <1>3 DEF Discovered
<1>5. Discovered(c) = [p \in Pin |-> Discovered(c)[p]]
  BY DEF Discovered
<1>6. QED
  BY <1>4, <1>5

-----------------------------------------------------------------------------
(* What a step does                                                        *)

\* No old punch is in the list or its file.
Contents ==
  /\ listed \in Seq(Row) /\ InWindow(listed)
  /\ logsFile \in Seq(Row) \cup {Garbled}
  /\ logsFile # Garbled => InWindow(logsFile)
  /\ cache \in [Pin -> Name]
  /\ namesFile \in [Pin -> Name] \cup {Garbled}

Types ==
  /\ Contents /\ Reads
  /\ queries \in [Reader -> Nat]
  /\ asked \subseteq Reader /\ stamped \subseteq Reader
  /\ turn \in TurnState /\ edit \in EditState /\ page \in PageState
  /\ events \in 0..MaxEvents /\ failures \in 0..MaxFailures

\* New names are recorded, and given to the rows.
SyncBegins(c) ==
  /\ call[c].kind = "sync" /\ Fresh(c) # {}
  /\ turn' = [NoTurn EXCEPT !.via = "sync", !.todo = Fresh(c),
                            !.all = call[c].records]
Renames(new) ==
  /\ turn = NoTurn
  /\ turn' = NoTurn \/ \E c \in Call : SyncBegins(c)
  /\ cache' = Recorded(new) /\ listed' = Renamed(listed, new)
  /\ lagging' = lagging \ NamedIn(new)
  /\ SavesNames \/ (KeepsNames /\ NamedIn(new) = {})
  /\ \/ SavesLogs /\ behind' = Behind
     \/ KeepsLogs /\ behind' = behind \cup NamedIn(new)
     \/ KeepsLogs /\ NamedIn(new) = {} /\ behind' = Behind
  /\ EditGoesOn
  /\ UNCHANGED <<page, owed, offered>>

\* Names are looked up, and perhaps a push begins.
Looks ==
  /\ turn = NoTurn
  /\ \/ turn' = NoTurn
     \/ turn'.via = "push" /\ turn'.named = cache' /\ turn'.due = {}
  /\ Learns /\ KeepsLogs /\ EditGoesOn
  /\ UNCHANGED <<listed, behind, page, owed, offered>>

\* The list, the names and their files are left alone.
PageMoves == \/ LoadInitial \/ GetPunches \/ Apply \/ Connect \/ Receive
             \/ Disconnect \/ UNCHANGED <<page, owed>>
Quiet ==
  /\ UNCHANGED <<listed, logsFile, cache, namesFile, turn, lagging, behind,
                 spoilt, offered>>
  /\ edit' = edit \/ (edit.pc = "idle" /\ edit'.pc # "save")
  /\ PageMoves

Kind ==
  \/ \E new \in [Pin -> Name] : Renames(new)
  \/ Looks \/ Quiet
  \/ \E p \in Punch : Announce(p)
  \/ Ingest \/ Clear \/ Edit \/ SaveEdit \/ Kill

(* The counters of requests and failures stay within their bounds.         *)
LEMMA EventsAre ==
  ASSUME events \in 0..MaxEvents, failures \in 0..MaxFailures
  PROVE  /\ Event => events' \in 0..MaxEvents /\ turn = NoTurn
         /\ Failure => failures' \in 0..MaxFailures /\ failures' # failures
<1>1. Event => events' \in 0..MaxEvents /\ turn = NoTurn
  BY DashboardAssumption DEF Event, Free
<1>2. QED
  BY <1>1, FailuresAre DEF Failure

(* One reader is asked once more.                                          *)
LEMMA AskAsks ==
  ASSUME queries \in [Reader -> Nat], NEW r \in Reader, Ask(r)
  PROVE  queries' \in [Reader -> Nat]
BY DEF Ask

(* A thread that edits goes on editing.                                    *)
LEMMA EditStays ==
  ASSUME edit \in EditState, EditGoesOn
  PROVE  /\ edit' \in EditState /\ edit'.pc = edit.pc /\ edit'.pin = edit.pin
         /\ edit'.name = edit.name
BY DEF EditState, EditGoesOn

(* The files hold the list, the names, or nothing that can be read.        *)
LEMMA SavedTypes ==
  ASSUME Contents, listed' \in Seq(Row), InWindow(listed)', cache' \in [Pin -> Name],
         SavesLogs \/ KeepsLogs, SavesNames \/ KeepsNames
  PROVE  Contents'
<1>1. /\ logsFile' \in Seq(Row) \cup {Garbled}
      /\ logsFile' # Garbled => InWindow(logsFile)'
  BY DEF Contents, SavesLogs, KeepsLogs, InWindow
<1>2. namesFile' \in [Pin -> Name] \cup {Garbled}
  BY DEF Contents, SavesNames, KeepsNames
<1>3. QED
  BY <1>1, <1>2 DEF Contents

(* Renaming keeps the types.                                               *)
LEMMA RenamesTypes ==
  ASSUME Types, NEW new \in [Pin -> Name], Renames(new)
  PROVE  Contents' /\ edit' \in EditState /\ page' \in PageState
<1>1. listed' \in Seq(Row) /\ InWindow(listed)'
  <2>1. listed' = Renamed(listed, new) /\ listed \in Seq(Row) /\ InWindow(listed)
    BY DEF Renames, Types, Contents
  <2>2. QED
    BY <2>1, RenamedAre DEF InWindow
<1>2. cache' \in [Pin -> Name]
  BY RecordedIs DEF Renames, Types, Contents
<1>3. Contents'
  BY <1>1, <1>2, SavedTypes DEF Renames, Types
<1>4. QED
  BY <1>3, EditStays DEF Renames, Types

(* So does looking names up.                                               *)
LEMMA LooksTypes ==
  ASSUME Types, Looks
  PROVE  Contents' /\ edit' \in EditState /\ page' \in PageState
<1>1. listed' \in Seq(Row) /\ InWindow(listed)'
  BY DEF Looks, Types, Contents, InWindow
<1>2. cache' \in [Pin -> Name]
  BY DEF Looks, Learns
<1>3. Contents'
  BY <1>1, <1>2, SavedTypes DEF Looks, Learns, Types
<1>4. QED
  BY <1>3, EditStays DEF Looks, Types

(* And so does a step that leaves them alone.                              *)
LEMMA QuietTypes ==
  ASSUME Types, Quiet
  PROVE  Contents' /\ turn' \in TurnState
BY DEF Quiet, Types, Contents, InWindow

(* The steps that only move reads, queries or the page.                    *)
LEMMA QuietSteps ==
  ASSUME Types
  PROVE  /\ \A r \in Reader : Handshake(r) => Types' /\ Quiet
         /\ \A r \in Reader : QueryUsers(r) => Types' /\ Quiet
         /\ \A r \in Reader : SyncDevice(r) => Types' /\ Quiet
         /\ \A r \in Reader : Poll(r) => Types' /\ Quiet
         /\ \A c \in Call : BeginAuto(c) => Types' /\ Quiet
         /\ \A c \in Call : TryLock(c) => Types' /\ Quiet
         /\ \A c \in Call : Read(c) => Types' /\ Quiet
         /\ LoadInitial => Types' /\ Quiet
         /\ GetPunches => Types' /\ Quiet
         /\ Apply => Types' /\ Quiet
         /\ Connect => Types' /\ Quiet
         /\ Receive => Types' /\ Quiet
         /\ Disconnect => Types' /\ Quiet
         /\ \A p \in Pin, n \in Name : BeginEdit(p, n) => Types' /\ Quiet
<1> USE DEF server, reads, outside, names
<1>0. Reads /\ Contents
  BY DEF Types
<1>1. ASSUME NEW r \in Reader, Handshake(r)
      PROVE  Types' /\ Quiet
  <2>1. Reads'
    BY <1>0, <1>1, BeginStep DEF Handshake, Spawn
  <2>2. queries' \in [Reader -> Nat] /\ events' \in 0..MaxEvents
    BY <1>1, AskAsks, EventsAre DEF Handshake, Types
  <2>3. Quiet
    BY <1>1 DEF Handshake, Quiet, PageMoves
  <2>4. QED
    BY <1>1, <2>1, <2>2, <2>3, QuietTypes DEF Handshake, Types
<1>2. ASSUME NEW r \in Reader, QueryUsers(r)
      PROVE  Types' /\ Quiet
  <2>1. Reads'
    BY <1>0, <1>2 DEF QueryUsers, Reads, Brought, InMemory
  <2>2. queries' \in [Reader -> Nat] /\ events' \in 0..MaxEvents
    BY <1>2, AskAsks, EventsAre DEF QueryUsers, Types
  <2>3. Quiet
    BY <1>2 DEF QueryUsers, Quiet, PageMoves
  <2>4. QED
    BY <1>2, <2>1, <2>2, <2>3, QuietTypes DEF QueryUsers, Types
<1>3. ASSUME NEW r \in Reader, SyncDevice(r)
      PROVE  Types' /\ Quiet
  <2>1. Reads'
    BY <1>0, <1>3, BeginStep DEF SyncDevice
  <2>2. events' \in 0..MaxEvents
    BY <1>3, EventsAre DEF SyncDevice, Types
  <2>3. Quiet
    BY <1>3 DEF SyncDevice, Quiet, PageMoves
  <2>4. QED
    BY <1>3, <2>1, <2>2, <2>3, QuietTypes DEF SyncDevice, Types
<1>4. ASSUME NEW r \in Reader, Poll(r)
      PROVE  Types' /\ Quiet
  <2>1. Reads'
    BY <1>0, <1>4 DEF Poll, Reads, Brought, InMemory
  <2>2. queries' \in [Reader -> Nat]
    BY <1>4 DEF Poll, Types
  <2>3. asked' \subseteq Reader /\ failures' \in 0..MaxFailures
    BY <1>4, EventsAre DEF Poll, Types
  <2>4. Quiet
    BY <1>4 DEF Poll, Quiet, PageMoves
  <2>5. QED
    BY <1>4, <2>1, <2>2, <2>3, <2>4, QuietTypes DEF Poll, Types
<1>5. ASSUME NEW c \in Call, BeginAuto(c)
      PROVE  Types' /\ Quiet
  <2>1. Reads'
    BY <1>0, <1>5, BeginAutoReads
  <2>2. stamped' \subseteq Reader
    <3>1. call[c].reader \in Reader
      BY <1>0 DEF Reads, CallState
    <3>2. QED
      BY <1>5, <3>1 DEF BeginAuto, Types
  <2>3. Quiet
    BY <1>5 DEF BeginAuto, Quiet, PageMoves
  <2>4. QED
    BY <1>5, <2>1, <2>2, <2>3, QuietTypes DEF BeginAuto, Types
<1>6. ASSUME NEW c \in Call, TryLock(c)
      PROVE  Types' /\ Quiet
  <2>1. Reads'
    BY <1>0, <1>6, TryLockReads
  <2>2. Quiet
    BY <1>6 DEF TryLock, Quiet, PageMoves
  <2>3. QED
    BY <1>6, <2>1, <2>2, QuietTypes DEF TryLock, Types
<1>7. ASSUME NEW c \in Call, Read(c)
      PROVE  Types' /\ Quiet
  <2>1. Reads' /\ failures' \in 0..MaxFailures
    BY <1>0, <1>7, ReadReads DEF Types
  <2>2. Quiet
    BY <1>7 DEF Read, Quiet, PageMoves
  <2>3. QED
    BY <1>7, <2>1, <2>2, QuietTypes DEF Read, Types
<1>8. ASSUME LoadInitial
      PROVE  Types' /\ Quiet
  <2>1. Reads'
    BY <1>0, <1>8 DEF LoadInitial, Reads, Brought, InMemory
  <2>2. events' \in 0..MaxEvents
    BY <1>8, EventsAre DEF LoadInitial, Types
  <2>3. page' \in PageState
    BY <1>8 DEF LoadInitial, Types, PageState
  <2>4. Quiet
    BY <1>8 DEF LoadInitial, Quiet, PageMoves
  <2>5. QED
    BY <1>8, <2>1, <2>2, <2>3, <2>4, QuietTypes DEF LoadInitial, Types
<1>9. ASSUME GetPunches
      PROVE  Types' /\ Quiet
  <2>1. Reads'
    BY <1>0, <1>9 DEF GetPunches, Reads, Brought, InMemory
  <2>2. page' \in PageState
    <3>1. PunchesOf(Pruned(listed)) \subseteq Punch
      BY <1>0, PrunedSame, RowsAre DEF Contents
    <3>2. QED
      BY <1>9, <3>1 DEF GetPunches, Types, PageState
  <2>3. Quiet
    BY <1>9 DEF Quiet, GetPunches, PageMoves
  <2>4. QED
    BY <1>9, <2>1, <2>2, <2>3, QuietTypes DEF GetPunches, Types
<1>10. ASSUME Apply
       PROVE  Types' /\ Quiet
  <2>1. Reads'
    BY <1>0, <1>10 DEF Apply, Reads, Brought, InMemory
  <2>2. page' \in PageState
    BY <1>10 DEF Apply, Types, PageState
  <2>3. Quiet
    BY <1>10 DEF Apply, Quiet, PageMoves
  <2>4. QED
    BY <1>10, <2>1, <2>2, <2>3, QuietTypes DEF Apply, Types
<1>11. ASSUME Connect
       PROVE  Types' /\ Quiet
  <2>1. Reads'
    BY <1>0, <1>11 DEF Connect, Reads, Brought, InMemory
  <2>2. page' \in PageState
    <3>1. <<>> \in Seq(Punch)
      OBVIOUS
    <3>2. QED
      BY <1>11, <3>1 DEF Connect, Types, PageState
  <2>3. Quiet
    BY <1>11 DEF Connect, Quiet, PageMoves
  <2>4. QED
    BY <1>11, <2>1, <2>2, <2>3, QuietTypes DEF Connect, Types
<1>12. ASSUME Receive
       PROVE  Types' /\ Quiet
  <2>1. Reads'
    BY <1>0, <1>12 DEF Receive, Reads, Brought, InMemory
  <2>2. page' \in PageState
    <3>1. page.queue \in Seq(Punch) /\ page.queue # <<>>
      BY <1>12 DEF Receive, Types, PageState
    <3>2. Tail(page.queue) \in Seq(Punch) /\ Head(page.queue) \in Punch
      BY <3>1
    <3>3. QED
      BY <1>12, <3>2 DEF Receive, Types, PageState
  <2>3. Quiet
    BY <1>12 DEF Receive, Quiet, PageMoves
  <2>4. QED
    BY <1>12, <2>1, <2>2, <2>3, QuietTypes DEF Receive, Types
<1>13. ASSUME Disconnect
       PROVE  Types' /\ Quiet
  <2>1. Reads'
    BY <1>0, <1>13 DEF Disconnect, Reads, Brought, InMemory
  <2>2. page' \in PageState
    <3>1. <<>> \in Seq(Punch)
      OBVIOUS
    <3>2. QED
      BY <1>13, <3>1 DEF Disconnect, Types, PageState
  <2>3. failures' \in 0..MaxFailures
    BY <1>13, EventsAre DEF Disconnect, Types
  <2>4. Quiet
    BY <1>13 DEF Disconnect, Quiet, PageMoves
  <2>5. QED
    BY <1>13, <2>1, <2>2, <2>3, <2>4, QuietTypes DEF Disconnect, Types
<1>14. ASSUME NEW p \in Pin, NEW n \in Name, BeginEdit(p, n)
       PROVE  Types' /\ Quiet
  <2>1. Reads'
    BY <1>0, <1>14 DEF BeginEdit, Reads, Brought, InMemory
  <2>2. events' \in 0..MaxEvents
    BY <1>14, EventsAre DEF BeginEdit, Types
  <2>3. edit' \in EditState
    BY <1>14 DEF BeginEdit, EditState
  <2>4. Quiet
    BY <1>14 DEF BeginEdit, Quiet, PageMoves
  <2>5. QED
    BY <1>14, <2>1, <2>2, <2>3, <2>4, QuietTypes DEF BeginEdit, Types
<1>15. QED
  BY <1>1, <1>2, <1>3, <1>4, <1>5, <1>6, <1>7, <1>8, <1>9, <1>10, <1>11,
     <1>12, <1>13, <1>14

(* The steps that record names.                                            *)
LEMMA PostUsersRenames ==
  ASSUME Types, NEW r \in Reader, PostUsers(r)
  PROVE  Types' /\ Renames(Roster[r])
<1> DEFINE new == Roster[r]
<1> USE DEF reads
<1>0. new \in [Pin -> Name]
  BY DashboardAssumption
<1>1. Reads'
  BY DEF PostUsers, Types, Reads, Brought, InMemory
<1>2. /\ failures' \in 0..MaxFailures /\ EditGoesOn /\ KeepsLogs
      /\ SavesNames \/ (KeepsNames /\ NamedIn(new) = {})
  <2>1. CASE NamedIn(new) = {} /\ WriteNothing
    BY <2>1, WriteNothingLeaves DEF Types
  <2>2. CASE Write({"names"})
    BY <2>2, WriteLeaves DEF Types
  <2>3. QED
    BY <2>1, <2>2 DEF PostUsers
<1>3. Renames(new)
  <2>1. turn = NoTurn /\ turn' = NoTurn
    BY DEF PostUsers, Free
  <2>2. QED
    BY <1>2, <2>1 DEF PostUsers, Renames
<1> HIDE DEF new
<1>4. Contents' /\ edit' \in EditState /\ page' \in PageState
  BY <1>0, <1>3, RenamesTypes
<1>5. QED
  BY <1>1, <1>2, <1>3, <1>4 DEF PostUsers, Types, new

(* Both coroutines go on with the names.                                   *)
LEMMA DiscoverLeaves ==
  ASSUME Types, NEW c \in Call, Discover(c),
         IF NamedIn(Discovered(c)) = {} THEN WriteNothing
                                        ELSE Write({"names", "logs"}),
         Free, turn' = NoTurn \/ SyncBegins(c), behind' = Behind,
         UNCHANGED <<page, owed, offered>>
  PROVE  /\ failures' \in 0..MaxFailures
         /\ Discovered(c) \in [Pin -> Name] /\ Renames(Discovered(c))
<1> DEFINE new == Discovered(c)
<1>1. new \in [Pin -> Name]
  BY DiscoveredAre DEF Types
<1>2. /\ failures' \in 0..MaxFailures /\ EditGoesOn
      /\ SavesNames \/ (KeepsNames /\ NamedIn(new) = {})
      /\ SavesLogs \/ (KeepsLogs /\ NamedIn(new) = {})
  <2>1. CASE NamedIn(new) = {} /\ WriteNothing
    BY <2>1, WriteNothingLeaves DEF Types
  <2>2. CASE Write({"names", "logs"})
    BY <2>2, WriteLeaves DEF Types
  <2>3. QED
    BY <2>1, <2>2
<1>3. turn = NoTurn /\ (turn' = NoTurn \/ \E x \in Call : SyncBegins(x))
  BY DEF Free
<1>4. /\ cache' = Recorded(new) /\ listed' = Renamed(listed, new)
      /\ lagging' = lagging \ NamedIn(new)
  BY DEF Discover
<1>5. QED
  BY <1>1, <1>2, <1>3, <1>4 DEF Renames

(* The background read.                                                    *)
LEMMA ResumeAutoRenames ==
  ASSUME Types, NEW c \in Call, ResumeAuto(c)
  PROVE  Types' /\ Discovered(c) \in [Pin -> Name] /\ Renames(Discovered(c))
<1>1. Reads'
  BY ResumeReads DEF ResumeAuto, Types
<1>2. /\ failures' \in 0..MaxFailures
      /\ Discovered(c) \in [Pin -> Name] /\ Renames(Discovered(c))
  BY DiscoverLeaves DEF ResumeAuto, Free
<1>3. Contents' /\ edit' \in EditState /\ page' \in PageState
  <2>1. PICK new \in [Pin -> Name] : new = Discovered(c)
    BY <1>2
  <2>2. QED
    BY <1>2, <2>1, RenamesTypes
<1>4. queries' \in [Reader -> Nat]
  <2>1. call[c].reader \in Reader
    BY DEF Types, Reads, CallState
  <2>2. CASE Ask(call[c].reader)
    <3>1. PICK r \in Reader : r = call[c].reader
      BY <2>1
    <3>2. QED
      BY <2>2, <3>1, AskAsks DEF Types
  <2>3. CASE UNCHANGED queries
    BY <2>3 DEF Types
  <2>4. QED
    BY <2>2, <2>3 DEF ResumeAuto
<1>5. turn' \in TurnState
  BY DEF ResumeAuto, Types
<1>6. QED
  BY <1>1, <1>2, <1>3, <1>4, <1>5 DEF ResumeAuto, Types

(* The manual one.                                                         *)
LEMMA ResumeSyncRenames ==
  ASSUME Types, NEW c \in Call, ResumeSync(c)
  PROVE  Types' /\ Discovered(c) \in [Pin -> Name] /\ Renames(Discovered(c))
<1>1. Reads'
  BY ResumeReads DEF ResumeSync, Types
<1>0. turn' = NoTurn \/ SyncBegins(c)
  BY DEF ResumeSync, SyncBegins
<1>2. /\ failures' \in 0..MaxFailures
      /\ Discovered(c) \in [Pin -> Name] /\ Renames(Discovered(c))
  BY <1>0, DiscoverLeaves DEF ResumeSync, Free
<1>3. Contents' /\ edit' \in EditState /\ page' \in PageState
  <2>1. PICK new \in [Pin -> Name] : new = Discovered(c)
    BY <1>2
  <2>2. QED
    BY <1>2, <2>1, RenamesTypes
<1>4. turn' \in TurnState
  <2>1. call[c].records \in SUBSET Punch /\ Fresh(c) \in SUBSET Punch
    BY DEF Types, Reads, CallState, Fresh
  <2>2. QED
    BY <1>0, <2>1, NothingYet DEF SyncBegins, TurnState
<1>5. QED
  BY <1>1, <1>2, <1>3, <1>4 DEF ResumeSync, Types

(* A name that is set by hand.                                             *)
LEMMA SetNameRenames ==
  ASSUME Types, NEW p \in Pin, NEW n \in Person, SetName(p, n)
  PROVE  Types' /\ \E new \in [Pin -> Name] : Renames(new)
<1> DEFINE new == [Nameless EXCEPT ![p] = n]
<1> USE DEF reads
<1>0. new \in [Pin -> Name] /\ NamedIn(new) = {p}
  <2>1. n # NoName
    BY DashboardAssumption
  <2>2. new \in [Pin -> Name] /\ \A q \in Pin : new[q] = IF q = p THEN n ELSE NoName
    BY DEF Nameless, Name
  <2> HIDE DEF new
  <2>3. QED
    BY <2>1, <2>2 DEF NamedIn
<1>1. Reads'
  BY DEF SetName, Types, Reads, Brought, InMemory
<1>2. failures' \in 0..MaxFailures /\ EditGoesOn /\ SavesNames /\ SavesLogs
  BY WriteLeaves DEF SetName, Types
<1>3. turn = NoTurn /\ turn' = NoTurn /\ events' \in 0..MaxEvents
  BY EventsAre DEF SetName, Types
<1>4. cache' = Recorded(new) /\ listed' = Renamed(listed, new)
  BY DEF SetName
<1> HIDE DEF new
<1>5. Renames(new)
  BY <1>0, <1>2, <1>3, <1>4 DEF SetName, Renames
<1>6. Contents' /\ edit' \in EditState /\ page' \in PageState
  BY <1>0, <1>5, RenamesTypes
<1>7. QED
  BY <1>0, <1>1, <1>2, <1>3, <1>5, <1>6 DEF SetName, Types

(* The steps that look names up.                                           *)
LEMMA OperLogLooks ==
  ASSUME Types, NEW r \in Reader, OperLog(r)
  PROVE  Types' /\ Looks
<1>1. Reads'
  BY DEF OperLog, reads, Types, Reads, Brought, InMemory
<1>2. Learns /\ KeepsLogs /\ EditGoesOn /\ failures' \in 0..MaxFailures
  BY LookUpLeaves DEF OperLog, Types, Contents
<1>3. turn = NoTurn /\ turn' = NoTurn /\ events' \in 0..MaxEvents
  BY EventsAre DEF OperLog, Types
<1>4. queries' \in [Reader -> Nat]
  BY AskAsks DEF OperLog, Types
<1>5. Looks
  BY <1>2, <1>3 DEF OperLog, Looks
<1>6. QED
  BY <1>1, <1>2, <1>3, <1>4, <1>5, LooksTypes DEF OperLog, Types

(* A push, up to its first broadcast.                                      *)
LEMMA PushLooks ==
  ASSUME Types, NEW r \in Reader, NEW batch \in SUBSET InMemory(r),
         Push(r, batch)
  PROVE  Types' /\ Looks
<1>1. batch \in SUBSET Punch /\ {p.pin : p \in batch} \in SUBSET Pin
  BY DashboardAssumption DEF InMemory
<1>2. Learns /\ KeepsLogs /\ EditGoesOn /\ failures' \in 0..MaxFailures
  <2>1. PICK pins \in SUBSET Pin : pins = {p.pin : p \in batch}
    BY <1>1
  <2>2. LookUp(pins)
    BY <2>1 DEF Push, ParseAttlog
  <2>3. QED
    BY <2>2, LookUpLeaves DEF Types, Contents
<1>3. Reads' /\ queries' \in [Reader -> Nat]
  <2>1. CASE Ask(r) /\ Spawn(r)
    BY <2>1, AskAsks, BeginStep DEF Spawn, Push, Types
  <2>2. CASE UNCHANGED <<queries, call>>
    BY <2>2 DEF Push, Types, Reads, Brought, InMemory
  <2>3. QED
    BY <2>1, <2>2 DEF Push, AskForNames
<1>4. turn = NoTurn /\ events' \in 0..MaxEvents
  BY EventsAre DEF Push, Types
<1>5. turn' = [via |-> "push", todo |-> batch, due |-> {}, all |-> batch,
               named |-> cache']
  BY DEF Push, ParseAttlog
<1>6. Looks
  BY <1>2, <1>4, <1>5 DEF Push, Looks
<1>7. turn' \in TurnState
  BY <1>1, <1>2, <1>5 DEF Learns, TurnState
<1>8. QED
  BY <1>2, <1>3, <1>4, <1>6, <1>7, LooksTypes DEF Push, Types

-----------------------------------------------------------------------------
(* Announcing and handing over                                             *)

\* What a broadcast does, with the row it adds.
Broadcasts(p, row) ==
  /\ p \in turn.todo /\ row.punch = p
  /\ turn.via = "sync" => turn.due = {}
  /\ row.name = IF turn.named[p.pin] # NoName THEN turn.named[p.pin]
                                              ELSE cache'[p.pin]
  /\ listed' = Pruned(Append(listed, row))
  /\ Learns /\ SavesLogs /\ EditGoesOn
  /\ page' = IF page.stream THEN [page EXCEPT !.queue = Append(@, p)] ELSE page
  /\ owed' = IF page.stream /\ page.fetch = "none" THEN owed \cup ({p} \ Old)
                                                   ELSE owed
  /\ turn' = [turn EXCEPT !.todo = @ \ {p}, !.due = @ \cup {p}]
  /\ behind' = Behind
  /\ UNCHANGED offered

(* A broadcast adds a row and saves the list.                              *)
LEMMA AnnounceBroadcasts ==
  ASSUME Types, NEW p \in Punch, Announce(p)
  PROVE  Types' /\ \E row \in Row : Broadcasts(p, row)
<1>1. p \in Punch /\ p.pin \in Pin
  BY DashboardAssumption
<1>2. PICK new \in LmsAnswers({p.pin}) :
        LET row == [punch |-> p,
                    name |-> IF turn.named[p.pin] # NoName THEN turn.named[p.pin]
                             ELSE Recorded(new)[p.pin]]
        IN  /\ Learn(new)
            /\ listed' = Pruned(Append(listed, row))
            /\ page' = IF page.stream THEN [page EXCEPT !.queue = Append(@, p)]
                                      ELSE page
            /\ Write({"logs"} \cup IF NamedIn(new) = {} THEN {} ELSE {"names"})
  BY DEF Announce
<1> DEFINE row == [punch |-> p,
                   name |-> IF turn.named[p.pin] # NoName THEN turn.named[p.pin]
                            ELSE Recorded(new)[p.pin]]
<1>3. SavesLogs /\ EditGoesOn /\ failures' \in 0..MaxFailures
      /\ (SavesNames \/ (KeepsNames /\ NamedIn(new) = {}))
  <2>1. CASE NamedIn(new) = {}
    <3>1. Write({"logs"})
      BY <1>2, <2>1
    <3>2. QED
      BY <2>1, <3>1, WriteLeaves DEF Types
  <2>2. CASE NamedIn(new) # {}
    <3>1. Write({"logs", "names"})
      <4>1. {"logs"} \cup {"names"} = {"logs", "names"}
        OBVIOUS
      <4>2. QED
        BY <1>2, <2>2, <4>1
    <3>2. QED
      BY <3>1, WriteLeaves DEF Types
  <2>3. QED
    BY <2>1, <2>2
<1>4. Learns /\ cache' = Recorded(new)
  <2>1. Learn(new) /\ {p.pin} \in SUBSET Pin
    BY <1>1, <1>2
  <2>2. PICK pins \in SUBSET Pin : pins = {p.pin}
    BY <2>1
  <2>3. new \in LmsAnswers(pins)
    BY <2>2
  <2>4. QED
    BY <1>3, <2>1, <2>3, LearnLeaves DEF Types, Contents
<1>5. row \in Row /\ row.punch = p
      /\ row.name = IF turn.named[p.pin] # NoName THEN turn.named[p.pin]
                                                  ELSE cache'[p.pin]
  BY <1>1, <1>4 DEF Row, Learns, Types, TurnState
<1>6. listed' = Pruned(Append(listed, row))
  BY <1>2
<1>7. page' = IF page.stream THEN [page EXCEPT !.queue = Append(@, p)] ELSE page
  BY <1>2
<1> HIDE DEF row
<1>8. Broadcasts(p, row)
  BY <1>3, <1>4, <1>5, <1>6, <1>7 DEF Announce, Broadcasts
<1>9. Contents'
  <2>1. listed' \in Seq(Row) /\ InWindow(listed)'
    BY <1>5, <1>6, AddedAre DEF Types, Contents, InWindow
  <2>2. QED
    BY <1>3, <1>4, <2>1, SavedTypes DEF Types, Learns
<1>10. page' \in PageState /\ edit' \in EditState /\ turn' \in TurnState
  <2>1. page' \in PageState
    <3>1. Append(page.queue, p) \in Seq(Punch)
      BY DEF Types, PageState
    <3>2. QED
      BY <1>7, <3>1 DEF Types, PageState
  <2>2. edit' \in EditState
    BY <1>3, EditStays DEF Types
  <2>3. turn' \in TurnState
    BY <1>8 DEF Broadcasts, Types, TurnState
  <2>4. QED
    BY <2>1, <2>2, <2>3
<1>11. Reads'
  BY DEF Announce, reads, Types, Reads, Brought, InMemory
<1>12. QED
  BY <1>3, <1>5, <1>8, <1>9, <1>10, <1>11 DEF Announce, Types

\* What handing over does.
HandsOver ==
  /\ turn.due # {}
  /\ turn.via = "push" => turn.todo = {}
  /\ offered' = offered \cup turn.due
  /\ IF turn.todo # {} THEN turn' = [turn EXCEPT !.due = {}]
                       ELSE turn' = NoTurn
  /\ SavesLogs \/ KeepsLogs
  /\ KeepsNames /\ EditGoesOn
  /\ behind' = Behind
  /\ UNCHANGED <<listed, cache, page, lagging, owed>>

(* Handing over leaves the list as it is: nothing old is in it.            *)
LEMMA IngestHandsOver ==
  ASSUME Types, Ingest
  PROVE  Types' /\ HandsOver
<1>1. /\ SavesLogs \/ KeepsLogs
      /\ KeepsNames /\ EditGoesOn /\ failures' \in 0..MaxFailures
      /\ UNCHANGED listed
  <2>1. CASE listed' = Pruned(listed) /\ Write({"logs"})
    BY <2>1, WriteLeaves, PrunedSame DEF Types, Contents
  <2>2. CASE UNCHANGED listed /\ WriteNothing
    BY <2>2, WriteNothingLeaves DEF Types
  <2>3. QED
    BY <2>1, <2>2 DEF Ingest
<1>2. HandsOver
  BY <1>1 DEF Ingest, HandsOver
<1>3. Contents' /\ edit' \in EditState
  <2>1. listed' \in Seq(Row) /\ InWindow(listed)' /\ cache' \in [Pin -> Name]
    BY <1>1 DEF Types, Contents, InWindow, Ingest
  <2>2. QED
    BY <1>1, <2>1, SavedTypes, EditStays DEF Types
<1>4. turn' \in TurnState
  BY <1>2, NothingYet DEF HandsOver, Types, TurnState
<1>5. Reads'
  BY DEF Ingest, reads, Types, Reads, Brought, InMemory
<1>6. QED
  BY <1>1, <1>2, <1>3, <1>4, <1>5 DEF Ingest, Types

-----------------------------------------------------------------------------
(* Clearing, threads and kills                                             *)

\* What clearing does.
Clears ==
  /\ turn = NoTurn /\ listed' = <<>>
  /\ SavesLogs /\ KeepsNames /\ EditGoesOn
  /\ page' = page \/ page' = [page EXCEPT !.fetch = "answered", !.answer = {}]
  /\ owed' = {} /\ lagging' = {} /\ behind' = Behind
  /\ UNCHANGED <<cache, turn, offered>>

(* An empty list is saved.                                                 *)
LEMMA ClearClears ==
  ASSUME Types, Clear
  PROVE  Types' /\ Clears
<1>1. SavesLogs /\ KeepsNames /\ EditGoesOn /\ failures' \in 0..MaxFailures
  BY WriteLeaves DEF Clear, Types
<1>2. turn = NoTurn /\ events' \in 0..MaxEvents
  BY EventsAre DEF Clear, Types
<1>3. Clears
  BY <1>1, <1>2 DEF Clear, Clears
<1>4. Contents' /\ edit' \in EditState
  <2>1. listed' \in Seq(Row) /\ InWindow(listed)'
    BY DEF Clear, InWindow
  <2>2. cache' \in [Pin -> Name]
    BY DEF Clear, Types, Contents
  <2>3. QED
    BY <1>1, <2>1, <2>2, SavedTypes, EditStays DEF Types
<1>5. page' \in PageState
  BY DEF Clear, Types, PageState
<1>6. Reads'
  BY DEF Clear, reads, Types, Reads, Brought, InMemory
<1>7. QED
  BY <1>1, <1>2, <1>3, <1>4, <1>5, <1>6 DEF Clear, Types

(* A thread changes the cache and opens the file.                          *)
LEMMA EditTypes ==
  ASSUME Types, Edit
  PROVE  Types' /\ edit'.pc = "save"
<1>1. Contents'
  <2>1. edit.pin \in Pin /\ edit.name \in Name
    BY DEF Types, EditState
  <2>2. cache' \in [Pin -> Name]
    BY <2>1 DEF Edit, Types, Contents
  <2>3. QED
    BY <2>2 DEF Edit, Types, Contents, InWindow
<1>2. edit' \in EditState /\ edit'.pc = "save"
  BY DEF Edit, Types, EditState
<1>3. Reads'
  BY DEF Edit, reads, Types, Reads, Brought, InMemory
<1>4. QED
  BY <1>1, <1>2, <1>3 DEF Edit, reads, Types

(* It saves the cache, or leaves a file that cannot be read.               *)
LEMMA SaveEditTypes ==
  ASSUME Types, SaveEdit
  PROVE  Types' /\ SavesNames
<1>1. failures' \in 0..MaxFailures
  BY EventsAre DEF SaveEdit, Types
<1>2. /\ \/ namesFile' = cache \/ namesFile' = Garbled
      /\ spoilt' = IF namesFile' = cache THEN spoilt \ {"names"}
                                         ELSE spoilt \cup {"names"}
      /\ cache' = cache
  BY DEF SaveEdit
<1>3. SavesNames
  BY <1>2 DEF SavesNames
<1>4. Contents'
  BY <1>2 DEF SaveEdit, Types, Contents, InWindow
<1>5. edit' \in EditState
  BY NothingYet DEF SaveEdit
<1>6. Reads'
  BY DEF SaveEdit, reads, Types, Reads, Brought, InMemory
<1>7. QED
  BY <1>1, <1>3, <1>4, <1>5, <1>6 DEF SaveEdit, reads, Types

(* After a kill the list and the names are those of the files.             *)
LEMMA KillTypes ==
  ASSUME Types, Kill
  PROVE  /\ Types'
         /\ listed' = IF logsFile = Garbled THEN <<>> ELSE logsFile
         /\ failures' # failures
<1>1. failures' \in 0..MaxFailures /\ failures' # failures
  BY EventsAre DEF Kill, Types
<1>2. listed' = IF logsFile = Garbled THEN <<>> ELSE logsFile
  <2>1. CASE logsFile = Garbled
    BY <2>1 DEF Kill, LoadedLogs
  <2>2. CASE logsFile # Garbled
    BY <2>2, PrunedSame DEF Kill, LoadedLogs, Types, Contents
  <2>3. QED
    BY <2>1, <2>2
<1>3. Contents'
  <2>1. listed' \in Seq(Row) /\ InWindow(listed)'
    BY <1>2 DEF Types, Contents, InWindow
  <2>2. cache' \in [Pin -> Name]
    BY LoadedNamesAre DEF Kill, Types, Contents
  <2>3. QED
    BY <2>1, <2>2 DEF Kill, Types, Contents, InWindow
<1>4. Reads'
  BY NoReads DEF Kill
<1>5. turn' \in TurnState /\ edit' \in EditState
  BY NothingYet DEF Kill
<1>6. page' \in PageState
  <2>1. <<>> \in Seq(Punch)
    OBVIOUS
  <2>2. QED
    BY <2>1 DEF Kill, Types, PageState
<1>7. queries' \in [Reader -> Nat] /\ asked' \subseteq Reader
      /\ stamped' \subseteq Reader /\ events' \in 0..MaxEvents
  BY DEF Kill, Types
<1>8. QED
  BY <1>1, <1>2, <1>3, <1>4, <1>5, <1>6, <1>7 DEF Types

(* A step keeps the types and is of one of these kinds.                    *)
LEMMA Steps ==
  ASSUME Types, [Next]_vars
  PROVE  Types' /\ Kind
<1>1. CASE Next
  <2>1. CASE \E r \in Reader : ReaderStep(r) \/ Poll(r) \/ PostUsers(r)
    <3>1. PICK r \in Reader : ReaderStep(r) \/ Poll(r) \/ PostUsers(r)
      BY <2>1
    <3>2. CASE Handshake(r) \/ QueryUsers(r) \/ SyncDevice(r) \/ Poll(r)
      BY <3>2, QuietSteps DEF Kind
    <3>3. CASE OperLog(r)
      BY <3>3, OperLogLooks DEF Kind
    <3>4. CASE \E batch \in SUBSET InMemory(r) \ {{}} : Push(r, batch)
      BY <3>4, PushLooks DEF Kind
    <3>5. CASE PostUsers(r)
      BY <3>5, PostUsersRenames, DashboardAssumption DEF Kind
    <3>6. QED
      BY <3>1, <3>2, <3>3, <3>4, <3>5 DEF ReaderStep
  <2>2. CASE \E c \in Call : Run(c)
    <3>1. PICK c \in Call : Run(c)
      BY <2>2
    <3>2. CASE BeginAuto(c) \/ TryLock(c) \/ Read(c)
      BY <3>2, QuietSteps DEF Kind
    <3>3. CASE ResumeAuto(c)
      BY <3>3, ResumeAutoRenames DEF Kind
    <3>4. CASE ResumeSync(c)
      BY <3>4, ResumeSyncRenames DEF Kind
    <3>5. QED
      BY <3>1, <3>2, <3>3, <3>4 DEF Run
  <2>3. CASE GoOn
    <3>1. CASE Ingest
      BY <3>1, IngestHandsOver DEF Kind
    <3>2. CASE \E p \in Punch : Announce(p)
      BY <3>2, AnnounceBroadcasts DEF Kind
    <3>3. QED
      BY <2>3, <3>1, <3>2 DEF GoOn
  <2>4. CASE \E p \in Pin : \/ \E n \in Person : SetName(p, n)
                            \/ \E n \in Name : BeginEdit(p, n)
    <3>1. PICK p \in Pin : \/ \E n \in Person : SetName(p, n)
                           \/ \E n \in Name : BeginEdit(p, n)
      BY <2>4
    <3>2. CASE \E n \in Person : SetName(p, n)
      BY <3>2, SetNameRenames DEF Kind
    <3>3. CASE \E n \in Name : BeginEdit(p, n)
      BY <3>3, QuietSteps DEF Kind
    <3>4. QED
      BY <3>1, <3>2, <3>3
  <2>5. CASE LoadInitial \/ PageStep \/ Disconnect
    BY <2>5, QuietSteps DEF PageStep, Kind
  <2>6. CASE Clear
    BY <2>6, ClearClears DEF Kind
  <2>7. CASE Edit
    BY <2>7, EditTypes DEF Kind
  <2>8. CASE SaveEdit
    BY <2>8, SaveEditTypes DEF Kind
  <2>9. CASE Kill
    BY <2>9, KillTypes DEF Kind
  <2>10. QED
    BY <1>1, <2>1, <2>2, <2>3, <2>4, <2>5, <2>6, <2>7, <2>8, <2>9 DEF Next
<1>2. CASE UNCHANGED vars
  <2>1. Types'
    <3>1. Reads'
      BY <1>2 DEF vars, reads, Types, Reads, Brought, InMemory
    <3>2. Contents'
      BY <1>2 DEF vars, server, Types, Contents, InWindow
    <3>3. QED
      BY <1>2, <3>1, <3>2 DEF vars, server, reads, outside, Types
  <2>2. Quiet
    BY <1>2 DEF vars, server, outside, names, Quiet, PageMoves
  <2>3. QED
    BY <2>1, <2>2 DEF Kind
<1>3. QED
  BY <1>1, <1>2

-----------------------------------------------------------------------------
(* The files follow                                                        *)

\* LogsFollow, of the file itself.
SavedList ==
  "logs" \in spoilt \/
    /\ logsFile # Garbled
    /\ Len(logsFile) = Len(listed)
    /\ \A i \in DOMAIN listed :
         /\ logsFile[i].punch = listed[i].punch
         /\ logsFile[i].punch.pin \notin behind =>
              logsFile[i].name = listed[i].name

(* A start would load the file as it is.                                   *)
LEMMA SavedListLoads ==
  ASSUME Contents
  PROVE  LogsFollow <=> SavedList
<1>1. CASE logsFile = Garbled
  BY <1>1 DEF LogsFollow, SavedList
<1>2. CASE logsFile # Garbled
  <2>1. LoadedLogs = logsFile
    BY <1>2, PrunedSame DEF LoadedLogs, Contents
  <2>2. QED
    BY <2>1 DEF LogsFollow, SavedList
<1>3. QED
  BY <1>1, <1>2

(* A dump of the list follows it, or is noted as spoilt.                   *)
LEMMA DumpFollows ==
  ASSUME Types', SavesLogs
  PROVE  SavedList'
<1>1. listed' \in Seq(Row) /\ Garbled \notin Seq(Row)
  BY DashboardAssumption DEF Types, Contents
<1>2. QED
  BY <1>1 DEF SavesLogs, SavedList

(* A step that leaves the list and its file alone.                         *)
LEMMA StillFollows ==
  ASSUME SavedList, Contents, UNCHANGED listed, KeepsLogs,
         behind' = behind \/ behind' = Behind
  PROVE  SavedList'
<1>1. CASE logsFile = listed
  <2>1. logsFile' = listed' /\ listed' \in Seq(Row) /\ Garbled \notin Seq(Row)
    BY <1>1, DashboardAssumption DEF Contents, KeepsLogs
  <2>2. QED
    BY <2>1 DEF SavedList
<1>2. CASE logsFile # listed
  BY <1>2 DEF SavedList, KeepsLogs, Behind
<1>3. QED
  BY <1>1, <1>2

(* Every step keeps the file of the list true.                             *)
LEMMA SavedListStep ==
  ASSUME Types, Types', SavedList, Kind
  PROVE  SavedList'
<1>0. Contents
  BY DEF Types
<1>1. ASSUME NEW new \in [Pin -> Name], Renames(new)
      PROVE  SavedList'
  <2>1. CASE SavesLogs
    BY <2>1, DumpFollows
  <2>2. CASE KeepsLogs /\ NamedIn(new) = {} /\ behind' = Behind
    <3>1. listed' = listed
      BY <1>0, <1>1, <2>2, RenamedNothing DEF Renames, Contents
    <3>2. QED
      BY <1>0, <2>2, <3>1, StillFollows
  <2>3. CASE KeepsLogs /\ behind' = behind \cup NamedIn(new) /\ "logs" \notin spoilt
    <3>1. /\ Len(listed') = Len(listed) /\ DOMAIN listed' = DOMAIN listed
          /\ \A i \in DOMAIN listed :
               LET n == new[listed[i].punch.pin]
               IN  /\ listed'[i].punch = listed[i].punch
                   /\ listed'[i].name = IF n = NoName THEN listed[i].name ELSE n
      BY <1>0, <1>1, RenamedAre DEF Renames, Contents
    <3>2. logsFile' = logsFile /\ logsFile # Garbled /\ Len(logsFile) = Len(listed)
      BY <2>3 DEF KeepsLogs, SavedList
    <3>3. ASSUME NEW i \in DOMAIN listed
          PROVE  /\ logsFile[i].punch = listed'[i].punch
                 /\ logsFile[i].punch.pin \notin behind' =>
                      logsFile[i].name = listed'[i].name
      <4>1. /\ logsFile[i].punch = listed[i].punch
            /\ logsFile[i].punch.pin \notin behind =>
                 logsFile[i].name = listed[i].name
        BY <2>3 DEF SavedList
      <4>2. listed[i].punch.pin \in Pin
        BY <1>0, RowsAre, DashboardAssumption DEF Contents
      <4>3. QED
        BY <2>3, <3>1, <4>1, <4>2 DEF NamedIn
    <3>4. QED
      BY <3>1, <3>2, <3>3 DEF SavedList
  <2>4. CASE KeepsLogs /\ "logs" \in spoilt
    BY <2>4 DEF KeepsLogs, SavedList
  <2>5. QED
    BY <1>1, <2>1, <2>2, <2>3, <2>4 DEF Renames
<1>2. CASE Looks
  BY <1>0, <1>2, StillFollows DEF Looks
<1>3. CASE Quiet
  BY <1>3 DEF Quiet, SavedList
<1>4. ASSUME NEW p \in Punch, Announce(p)
      PROVE  SavedList'
  BY <1>4, AnnounceBroadcasts, DumpFollows DEF Broadcasts
<1>5. CASE Ingest
  BY <1>0, <1>5, IngestHandsOver, DumpFollows, StillFollows DEF HandsOver
<1>6. CASE Clear
  BY <1>6, ClearClears, DumpFollows DEF Clears
<1>7. CASE Edit
  BY <1>7 DEF Edit, SavedList
<1>8. CASE SaveEdit
  <2>1. "logs" \in spoilt' <=> "logs" \in spoilt
    BY <1>8 DEF SaveEdit
  <2>2. QED
    BY <1>8, <2>1 DEF SaveEdit, names, SavedList
<1>9. CASE Kill
  <2>1. "logs" \in spoilt => "logs" \in spoilt'
    BY <1>9 DEF Kill
  <2>2. logsFile' = logsFile /\ behind' = behind
    BY <1>9 DEF Kill
  <2>3. logsFile # Garbled => listed' = logsFile
    BY <1>9, KillTypes
  <2>4. QED
    BY <2>1, <2>2, <2>3 DEF SavedList
<1>10. QED
  BY <1>1, <1>2, <1>3, <1>4, <1>5, <1>6, <1>7, <1>8, <1>9 DEF Kind

(* A dump of the cache can be read back, or is noted as spoilt.            *)
LEMMA NamesDumpFollows ==
  ASSUME Types', SavesNames
  PROVE  NamesFollow'
<1>1. cache' \in [Pin -> Name] /\ Garbled \notin [Pin -> Name]
  BY DashboardAssumption DEF Types, Contents
<1>2. CASE namesFile' = cache'
  BY <1>1, <1>2 DEF NamesFollow, LoadedNames
<1>3. CASE "names" \in spoilt'
  BY <1>3 DEF NamesFollow
<1>4. QED
  BY <1>2, <1>3 DEF SavesNames

(* A step that leaves the cache and its file alone.                        *)
LEMMA NamesStillFollow ==
  ASSUME NamesFollow, UNCHANGED cache, KeepsNames, edit.pc = "save" => edit'.pc = "save"
  PROVE  NamesFollow'
BY DEF NamesFollow, LoadedNames, KeepsNames

(* Every step keeps the file of the names true.                            *)
LEMMA NamesFollowStep ==
  ASSUME Types, Types', NamesFollow, Kind
  PROVE  NamesFollow'
<1>0. EditGoesOn => (edit.pc = "save" => edit'.pc = "save")
  BY EditStays DEF Types
<1>1. ASSUME NEW new \in [Pin -> Name], Renames(new)
      PROVE  NamesFollow'
  <2>1. NamedIn(new) = {} => cache' = cache
    BY <1>1, RecordedIs DEF Renames, Types, Contents
  <2>2. QED
    BY <1>0, <1>1, <2>1, NamesDumpFollows, NamesStillFollow DEF Renames
<1>2. CASE Looks
  BY <1>0, <1>2, NamesDumpFollows, NamesStillFollow DEF Looks, Learns
<1>3. CASE Quiet
  <2>1. edit.pc = "save" => edit'.pc = "save"
    BY <1>3 DEF Quiet
  <2>2. QED
    BY <1>3, <2>1, NamesStillFollow DEF Quiet, KeepsNames
<1>4. ASSUME NEW p \in Punch, Announce(p)
      PROVE  NamesFollow'
  BY <1>0, <1>4, AnnounceBroadcasts, NamesDumpFollows, NamesStillFollow
     DEF Broadcasts, Learns
<1>5. CASE Ingest
  BY <1>0, <1>5, IngestHandsOver, NamesStillFollow DEF HandsOver
<1>6. CASE Clear
  BY <1>0, <1>6, ClearClears, NamesStillFollow DEF Clears
<1>7. CASE Edit
  BY <1>7, EditTypes DEF NamesFollow
<1>8. CASE SaveEdit
  BY <1>8, SaveEditTypes, NamesDumpFollows
<1>9. CASE Kill
  BY <1>9 DEF Kill, NamesFollow, LoadedNames
<1>10. QED
  BY <1>1, <1>2, <1>3, <1>4, <1>5, <1>6, <1>7, <1>8, <1>9 DEF Kind

-----------------------------------------------------------------------------
(* Rows under their names                                                  *)

\* Rows show the name the cache has, and a push knows the names it was parsed
\* with unless they have changed since.
NamesKept ==
  /\ NamesShown
  /\ \A p \in Pin : turn.named[p] # NoName /\ p \notin lagging =>
                      cache[p] = turn.named[p]

(* Names that are looked up for unknown PINs leave the rows true.          *)
LEMMA LookedUpShown ==
  ASSUME Types, NamesShown, Learns, NEW i \in DOMAIN listed
  PROVE  LET p == listed[i].punch.pin
         IN  cache'[p] # NoName /\ p \notin lagging' => listed[i].name = cache'[p]
<1>1. listed[i].punch.pin \in Pin /\ listed[i].punch.pin \in ListedPins(listed)
  <2>1. listed[i].punch \in Punch /\ listed[i].punch \in PunchesOf(listed)
    BY RowsAre DEF Types, Contents, PunchesOf
  <2>2. QED
    BY <2>1, DashboardAssumption DEF ListedPins
<1>2. QED
  BY <1>1 DEF NamesShown, Learns

(* Every step leaves the names of the rows true.                           *)
LEMMA NamesKeptStep ==
  ASSUME Types, Types', NamesKept, Kind
  PROVE  NamesKept'
<1>0. Contents /\ cache \in [Pin -> Name]
  BY DEF Types, Contents
<1>1. ASSUME NEW new \in [Pin -> Name], Renames(new)
      PROVE  NamesKept'
  <2>1. NamesShown'
    <3>1. /\ DOMAIN listed' = DOMAIN listed
          /\ \A i \in DOMAIN listed :
               LET n == new[listed[i].punch.pin]
               IN  /\ listed'[i].punch = listed[i].punch
                   /\ listed'[i].name = IF n = NoName THEN listed[i].name ELSE n
      BY <1>0, <1>1, RenamedAre DEF Renames, Contents
    <3>2. ASSUME NEW i \in DOMAIN listed
          PROVE  LET p == listed'[i].punch.pin
                 IN  cache'[p] # NoName /\ p \notin lagging' =>
                       listed'[i].name = cache'[p]
      <4>1. listed[i].punch.pin \in Pin
        BY <1>0, RowsAre, DashboardAssumption DEF Contents
      <4>2. cache' = Recorded(new) /\ lagging' = lagging \ NamedIn(new)
        BY <1>1 DEF Renames
      <4>3. cache'[listed[i].punch.pin] =
              IF new[listed[i].punch.pin] = NoName THEN cache[listed[i].punch.pin]
              ELSE new[listed[i].punch.pin]
        BY <1>0, <4>1, <4>2, RecordedIs
      <4>4. cache[listed[i].punch.pin] # NoName
              /\ listed[i].punch.pin \notin lagging =>
              listed[i].name = cache[listed[i].punch.pin]
        BY DEF NamesKept, NamesShown
      <4>5. QED
        BY <3>1, <4>1, <4>2, <4>3, <4>4 DEF NamedIn
    <3>3. QED
      BY <3>1, <3>2 DEF NamesShown
  <2>2. \A p \in Pin : turn'.named[p] = NoName
    <3>1. turn' = NoTurn \/ \E c \in Call : SyncBegins(c)
      BY <1>1 DEF Renames
    <3>2. turn'.named = NoTurn.named
      BY <3>1, NothingYet DEF SyncBegins, TurnState
    <3>3. QED
      BY <3>2, NothingYet
  <2>3. QED
    BY <2>1, <2>2 DEF NamesKept
<1>2. CASE Looks
  <2>1. NamesShown'
    BY <1>2, LookedUpShown DEF Looks, NamesKept, NamesShown
  <2>2. \A p \in Pin : turn'.named[p] = NoName \/ turn'.named = cache'
    BY <1>2, NothingYet DEF Looks
  <2>3. QED
    BY <2>1, <2>2 DEF NamesKept
<1>3. CASE Quiet
  BY <1>3 DEF Quiet, NamesKept, NamesShown
<1>4. ASSUME NEW p \in Punch, Announce(p)
      PROVE  NamesKept'
  <2>1. PICK row \in Row : Broadcasts(p, row)
    BY <1>4, AnnounceBroadcasts
  <2>2. Learns /\ turn'.named = turn.named /\ row.punch = p /\ p.pin \in Pin
        /\ row.name = IF turn.named[p.pin] # NoName THEN turn.named[p.pin]
                                                    ELSE cache'[p.pin]
    BY <2>1, DashboardAssumption DEF Broadcasts, Types, TurnState
  <2>3. ASSUME NEW q \in Pin, turn.named[q] # NoName, q \notin lagging'
        PROVE  cache'[q] = turn.named[q]
    <3>1. cache[q] = turn.named[q]
      BY <2>2, <2>3 DEF NamesKept, Learns
    <3>2. QED
      BY <2>2, <2>3, <3>1 DEF Learns
  <2>4. \A i \in DOMAIN listed' :
          listed'[i] = row \/ (i \in DOMAIN listed /\ listed'[i] = listed[i])
    BY <1>0, <2>1, AddedAre DEF Broadcasts, Contents
  <2>5. ASSUME NEW i \in DOMAIN listed'
        PROVE  LET q == listed'[i].punch.pin
               IN  cache'[q] # NoName /\ q \notin lagging' =>
                     listed'[i].name = cache'[q]
    <3>1. CASE listed'[i] = row
      BY <2>2, <2>3, <3>1
    <3>2. CASE i \in DOMAIN listed /\ listed'[i] = listed[i]
      BY <2>2, <3>2, LookedUpShown DEF NamesKept
    <3>3. QED
      BY <2>4, <3>1, <3>2
  <2>6. NamesShown'
    BY <2>5 DEF NamesShown
  <2>7. QED
    BY <2>2, <2>3, <2>6 DEF NamesKept
<1>5. CASE Ingest
  <2>1. UNCHANGED <<listed, cache, lagging>> /\ (turn'.named = turn.named \/ turn' = NoTurn)
    BY <1>5, IngestHandsOver DEF HandsOver, Types, TurnState
  <2>2. QED
    BY <2>1, NothingYet DEF NamesKept, NamesShown
<1>6. CASE Clear
  <2>1. listed' = <<>> /\ turn' = NoTurn
    BY <1>6, ClearClears DEF Clears
  <2>2. QED
    BY <2>1, NothingYet DEF NamesKept, NamesShown
<1>7. CASE Edit
  <2>1. /\ UNCHANGED <<listed, turn>> /\ lagging' = lagging \cup {edit.pin}
        /\ cache' = [cache EXCEPT ![edit.pin] = edit.name]
    BY <1>7 DEF Edit
  <2>2. \A p \in Pin : p \notin lagging' => cache'[p] = cache[p] /\ p \notin lagging
    BY <1>0, <2>1
  <2>3. \A i \in DOMAIN listed : listed[i].punch.pin \in Pin
    BY <1>0, RowsAre, DashboardAssumption DEF Contents
  <2>4. QED
    BY <2>1, <2>2, <2>3 DEF NamesKept, NamesShown
<1>8. CASE SaveEdit
  BY <1>8 DEF SaveEdit, names, NamesKept, NamesShown
<1>9. CASE Kill
  <2>1. turn' = NoTurn
        /\ lagging' = {p \in Pin : \E i \in DOMAIN listed' :
                         /\ listed'[i].punch.pin = p
                         /\ listed'[i].name # cache'[p]}
    BY <1>9 DEF Kill
  <2>2. \A i \in DOMAIN listed' : listed'[i].punch.pin \in Pin
    <3>1. listed' \in Seq(Row)
      BY DEF Types, Contents
    <3>2. QED
      BY <3>1, RowsAre, DashboardAssumption
  <2>3. QED
    BY <2>1, <2>2, NothingYet DEF NamesKept, NamesShown
<1>10. QED
  BY <1>1, <1>2, <1>3, <1>4, <1>5, <1>6, <1>7, <1>8, <1>9 DEF Kind

-----------------------------------------------------------------------------
(* What the page must show                                                 *)

\* What is owed is listed, and shown, queued or, when an answer is on its way,
\* in the answer.
PageHas ==
  /\ owed \subseteq PunchesOf(listed)
  /\ PageShowsOwed
  /\ page.fetch = "answered" => owed \subseteq page.answer
  /\ ~page.stream => page.queue = <<>>

(* What a queue holds after something has been put in or taken out.        *)
LEMMA Queued ==
  /\ \A queue \in Seq(Punch), p \in Punch :
       ToSet(Append(queue, p)) = ToSet(queue) \cup {p}
  /\ \A queue \in Seq(Punch) :
       queue # <<>> => ToSet(queue) \subseteq ToSet(Tail(queue)) \cup {Head(queue)}
<1>1. ASSUME NEW queue \in Seq(Punch), NEW p \in Punch
      PROVE  ToSet(Append(queue, p)) = ToSet(queue) \cup {p}
  <2> DEFINE all == Append(queue, p)
  <2>1. /\ Len(queue) \in Nat /\ DOMAIN queue = 1..Len(queue)
        /\ DOMAIN all = 1..(Len(queue) + 1)
        /\ \A i \in 1..Len(queue) : all[i] = queue[i]
        /\ all[Len(queue) + 1] = p
    OBVIOUS
  <2> HIDE DEF all
  <2>2. ToSet(queue) \cup {p} \subseteq ToSet(all)
    <3>1. Len(queue) + 1 \in DOMAIN all
      BY <2>1
    <3>2. \A i \in DOMAIN queue : i \in DOMAIN all /\ all[i] = queue[i]
      BY <2>1
    <3>3. QED
      BY <2>1, <3>1, <3>2 DEF ToSet
  <2>3. ToSet(all) \subseteq ToSet(queue) \cup {p}
    <3>1. \A i \in DOMAIN all : all[i] = p \/ (i \in DOMAIN queue /\ all[i] = queue[i])
      BY <2>1
    <3>2. QED
      BY <3>1 DEF ToSet
  <2>4. QED
    BY <2>2, <2>3 DEF all
<1>2. ASSUME NEW queue \in Seq(Punch), queue # <<>>
      PROVE  ToSet(queue) \subseteq ToSet(Tail(queue)) \cup {Head(queue)}
  <2> DEFINE rest == Tail(queue)
  <2>1. /\ Len(queue) \in Nat /\ DOMAIN queue = 1..Len(queue)
        /\ DOMAIN rest = 1..(Len(queue) - 1)
        /\ \A i \in 1..(Len(queue) - 1) : rest[i] = queue[i + 1]
        /\ Head(queue) = queue[1]
    BY <1>2
  <2> HIDE DEF rest
  <2>2. \A i \in DOMAIN queue :
          queue[i] = Head(queue) \/ (i - 1 \in DOMAIN rest /\ rest[i - 1] = queue[i])
    <3>1. ASSUME NEW i \in DOMAIN queue, i # 1
          PROVE  i - 1 \in DOMAIN rest /\ rest[i - 1] = queue[i]
      BY <2>1, <3>1
    <3>2. QED
      BY <2>1, <3>1
  <2>3. ToSet(queue) \subseteq ToSet(rest) \cup {Head(queue)}
    BY <2>2 DEF ToSet
  <2>4. QED
    BY <2>3 DEF rest
<1>3. QED
  BY <1>1, <1>2

(* The page's own steps keep what it must show.                            *)
LEMMA PageMovesKeep ==
  ASSUME Types, PageHas, UNCHANGED listed, PageMoves
  PROVE  PageHas'
<1>0. page \in PageState /\ Contents /\ UNCHANGED PunchesOf(listed)
  BY DEF Types, PunchesOf
<1> USE DEF server, reads, outside, names
<1>1. CASE LoadInitial
  <2>1. owed' = owed /\ page' = [page EXCEPT !.open = TRUE, !.fetch = "sent"]
    BY <1>1 DEF LoadInitial
  <2>2. page'.shown = page.shown /\ page'.queue = page.queue
        /\ page'.fetch = "sent" /\ page'.stream = page.stream
    BY <1>0, <2>1 DEF PageState
  <2>3. QED
    BY <1>0, <2>1, <2>2 DEF PageHas, PageShowsOwed, ToSet
<1>2. CASE GetPunches
  <2>1. /\ owed' = owed
        /\ page' = [page EXCEPT !.fetch = "answered",
                                !.answer = PunchesOf(Pruned(listed))]
    BY <1>2 DEF GetPunches
  <2>2. PunchesOf(Pruned(listed)) = PunchesOf(listed)
    BY <1>0, PrunedSame DEF Contents
  <2>3. page'.shown = page.shown /\ page'.queue = page.queue
        /\ page'.answer = PunchesOf(listed) /\ page'.stream = page.stream
    BY <1>0, <2>1, <2>2 DEF PageState
  <2>4. QED
    BY <1>0, <2>1, <2>3 DEF PageHas, PageShowsOwed, ToSet
<1>3. CASE Apply
  <2>1. /\ owed' = owed /\ page.fetch = "answered"
        /\ page' = [page EXCEPT !.fetch = "none", !.answer = {},
                                !.shown = page.answer]
    BY <1>3 DEF Apply
  <2>2. page'.shown = page.answer /\ page'.queue = page.queue
        /\ page'.fetch = "none" /\ page'.stream = page.stream
    BY <1>0, <2>1 DEF PageState
  <2>3. QED
    BY <1>0, <2>1, <2>2 DEF PageHas, PageShowsOwed, ToSet
<1>4. CASE Connect
  <2>1. /\ owed' = owed /\ ~page.stream
        /\ page' = [page EXCEPT !.stream = TRUE, !.queue = <<>>]
    BY <1>4 DEF Connect
  <2>2. page'.shown = page.shown /\ page'.queue = page.queue
        /\ page'.fetch = page.fetch /\ page'.answer = page.answer
        /\ page'.stream = TRUE
    BY <1>0, <2>1 DEF PageState, PageHas
  <2>3. QED
    BY <1>0, <2>1, <2>2 DEF PageHas, PageShowsOwed, ToSet
<1>5. CASE Receive
  <2>1. /\ owed' = owed /\ page.stream /\ page.queue # <<>>
        /\ page' = [page EXCEPT !.queue = Tail(page.queue),
                                !.shown = page.shown \cup {Head(page.queue)}]
    BY <1>5 DEF Receive
  <2>2. page'.shown = page.shown \cup {Head(page.queue)}
        /\ page'.queue = Tail(page.queue)
        /\ page'.fetch = page.fetch /\ page'.answer = page.answer
        /\ page'.stream = page.stream
    BY <1>0, <2>1 DEF PageState
  <2>3. ToSet(page.queue) \subseteq ToSet(page'.queue) \cup {Head(page.queue)}
    BY <1>0, <2>1, <2>2, Queued DEF PageState
  <2>4. PageShowsOwed'
    BY <2>1, <2>2, <2>3 DEF PageHas, PageShowsOwed, ToSet
  <2>5. QED
    BY <1>0, <2>1, <2>2, <2>4 DEF PageHas
<1>6. CASE Disconnect
  <2>1. /\ owed' = owed \cap page.shown
        /\ page' = [page EXCEPT !.stream = FALSE, !.queue = <<>>]
    BY <1>6 DEF Disconnect
  <2>2. page'.shown = page.shown /\ page'.queue = <<>>
        /\ page'.fetch = page.fetch /\ page'.answer = page.answer
    BY <1>0, <2>1 DEF PageState
  <2>3. QED
    BY <1>0, <2>1, <2>2 DEF PageHas, PageShowsOwed
<1>7. CASE UNCHANGED <<page, owed>>
  BY <1>0, <1>7 DEF PageHas, PageShowsOwed, ToSet
<1>8. QED
  BY <1>1, <1>2, <1>3, <1>4, <1>5, <1>6, <1>7 DEF PageMoves

(* So does every other step.                                               *)
LEMMA PageHasStep ==
  ASSUME Types, Types', PageHas, Kind
  PROVE  PageHas'
<1>0. page \in PageState /\ Contents
  BY DEF Types
<1>1. ASSUME NEW new \in [Pin -> Name], Renames(new)
      PROVE  PageHas'
  <2>1. PunchesOf(listed') = PunchesOf(listed)
    BY <1>0, <1>1, RenamedAre DEF Renames, Contents
  <2>2. UNCHANGED <<page, owed>>
    BY <1>1 DEF Renames
  <2>3. QED
    BY <2>1, <2>2 DEF PageHas, PageShowsOwed, PunchesOf, ToSet
<1>2. CASE Looks
  BY <1>2, PageMovesKeep DEF Looks, PageMoves
<1>3. CASE Quiet
  BY <1>3, PageMovesKeep DEF Quiet
<1>4. ASSUME NEW p \in Punch, Announce(p)
      PROVE  PageHas'
  <2>1. PICK row \in Row : Broadcasts(p, row)
    BY <1>4, AnnounceBroadcasts
  <2>2. /\ row.punch = p /\ listed' = Pruned(Append(listed, row))
        /\ page' = IF page.stream THEN [page EXCEPT !.queue = Append(page.queue, p)]
                                  ELSE page
        /\ owed' = IF page.stream /\ page.fetch = "none"
                     THEN owed \cup ({p} \ Old) ELSE owed
    BY <2>1 DEF Broadcasts
  <2>3. /\ PunchesOf(listed) \subseteq PunchesOf(listed')
        /\ p \notin Old => p \in PunchesOf(listed')
    BY <1>0, <2>2, AddedAre DEF Contents
  <2>4. owed' \subseteq PunchesOf(listed')
    BY <2>2, <2>3 DEF PageHas
  <2>5. /\ page'.shown = page.shown /\ page'.fetch = page.fetch
        /\ page'.answer = page.answer /\ page'.stream = page.stream
        /\ page'.queue = IF page.stream THEN Append(page.queue, p) ELSE page.queue
    BY <1>0, <2>2 DEF PageState
  <2>6. ToSet(page'.queue) = IF page.stream THEN ToSet(page.queue) \cup {p}
                                            ELSE ToSet(page.queue)
    BY <1>0, <2>5, Queued DEF PageState
  <2>7. PageShowsOwed'
    <3>1. owed \subseteq page.shown \cup ToSet(page.queue)
      BY DEF PageHas, PageShowsOwed
    <3>2. owed' \subseteq page'.shown \cup ToSet(page'.queue)
      BY <2>2, <2>5, <2>6, <3>1
    <3>3. QED
      BY <3>2 DEF PageShowsOwed, ToSet
  <2>8. PunchesOf(listed)' = PunchesOf(listed')
    BY DEF PunchesOf
  <2>9. QED
    BY <2>2, <2>4, <2>5, <2>7, <2>8 DEF PageHas
<1>5. CASE Ingest
  BY <1>5, IngestHandsOver, PageMovesKeep DEF HandsOver, PageMoves
<1>6. CASE Clear
  <2>1. owed' = {} /\ (page' = page \/ page' = [page EXCEPT !.fetch = "answered",
                                                            !.answer = {}])
    BY <1>6, ClearClears DEF Clears
  <2>2. page'.queue = page.queue /\ page'.stream = page.stream
    BY <1>0, <2>1 DEF PageState
  <2>3. QED
    BY <2>1, <2>2 DEF PageHas, PageShowsOwed
<1>7. CASE Edit
  BY <1>7, PageMovesKeep DEF Edit, PageMoves
<1>8. CASE SaveEdit
  BY <1>8, PageMovesKeep DEF SaveEdit, PageMoves
<1>9. CASE Kill
  <2>1. /\ owed' = owed \cap page.shown \cap PunchesOf(listed')
        /\ page' = [page EXCEPT !.stream = FALSE, !.queue = <<>>,
                      !.fetch = IF page.fetch = "sent" THEN "none" ELSE page.fetch]
    BY <1>9 DEF Kill
  <2>2. /\ page'.shown = page.shown /\ page'.queue = <<>>
        /\ page'.answer = page.answer
        /\ page'.fetch = "answered" => page.fetch = "answered"
    BY <1>0, <2>1 DEF PageState
  <2>3. PunchesOf(listed)' = PunchesOf(listed')
    BY DEF PunchesOf
  <2>4. QED
    BY <2>1, <2>2, <2>3 DEF PageHas, PageShowsOwed
<1>10. QED
  BY <1>1, <1>2, <1>3, <1>4, <1>5, <1>6, <1>7, <1>8, <1>9 DEF Kind

-----------------------------------------------------------------------------
(* Punches are handed over                                                 *)

KeysOf(punches) == {Key(p) : p \in punches}

\* What is listed, or would be after a start, has been announced and is handed
\* to ingest.
Accounted ==
  /\ PunchesOf(listed) \subseteq offered \cup turn.due
  /\ logsFile # Garbled => PunchesOf(logsFile) \subseteq offered \cup turn.due

\* A sync has records to add that no row has the key of, no two of one key, and
\* with them it has all it read.
Synced ==
  /\ turn.via = "sync" =>
       /\ KeysOf(turn.todo) \cap Keys(listed) = {}
       /\ \A p, q \in turn.todo : Key(p) = Key(q) => p = q
       /\ KeysOf(turn.all) \subseteq KeysOf(offered \cup turn.due \cup turn.todo)
  /\ turn.via = "none" => turn = NoTurn

(* What is in the file after a step was there before or is listed.         *)
LEMMA AccountedFrom ==
  ASSUME Types', Accounted, SavesLogs \/ logsFile' = logsFile,
         offered \cup turn.due \subseteq offered' \cup turn'.due,
         PunchesOf(listed') \subseteq offered' \cup turn'.due
  PROVE  Accounted'
<1>1. logsFile' # Garbled => PunchesOf(logsFile') \subseteq offered' \cup turn'.due
  <2>1. CASE logsFile' = Garbled
    BY <2>1
  <2>2. CASE logsFile' = listed'
    BY <2>2
  <2>3. CASE logsFile' = logsFile
    BY <2>3 DEF Accounted
  <2>4. QED
    BY <2>1, <2>2, <2>3 DEF SavesLogs
<1>2. PunchesOf(listed)' = PunchesOf(listed') /\ PunchesOf(logsFile)' = PunchesOf(logsFile')
  BY DEF PunchesOf
<1>3. QED
  BY <1>1, <1>2 DEF Accounted

(* No step loses sight of a listed punch.                                  *)
LEMMA AccountedStep ==
  ASSUME Types, Types', Accounted, Kind
  PROVE  Accounted'
<1>0. Contents /\ turn \in TurnState
  BY DEF Types
<1>1. ASSUME NEW new \in [Pin -> Name], Renames(new)
      PROVE  Accounted'
  <2>1. PunchesOf(listed') = PunchesOf(listed)
    BY <1>0, <1>1, RenamedAre DEF Renames, Contents
  <2>2. turn.due = {} /\ offered' = offered /\ (SavesLogs \/ logsFile' = logsFile)
    BY <1>1, NothingYet DEF Renames, KeepsLogs
  <2>3. QED
    BY <2>1, <2>2, AccountedFrom DEF Accounted
<1>2. CASE Looks
  <2>1. turn.due = {} /\ offered' = offered /\ logsFile' = logsFile /\ listed' = listed
    BY <1>2, NothingYet DEF Looks, KeepsLogs
  <2>2. QED
    BY <2>1, AccountedFrom DEF Accounted
<1>3. CASE Quiet
  BY <1>3, AccountedFrom DEF Quiet, Accounted
<1>4. ASSUME NEW p \in Punch, Announce(p)
      PROVE  Accounted'
  <2>1. PICK row \in Row : Broadcasts(p, row)
    BY <1>4, AnnounceBroadcasts
  <2>2. /\ row.punch = p /\ listed' = Pruned(Append(listed, row))
        /\ offered' = offered /\ turn'.due = turn.due \cup {p} /\ SavesLogs
    BY <1>0, <2>1 DEF Broadcasts, TurnState
  <2>3. PunchesOf(listed') \subseteq PunchesOf(listed) \cup {p}
    BY <1>0, <2>2, AddedAre DEF Contents
  <2>4. QED
    BY <2>2, <2>3, AccountedFrom DEF Accounted
<1>5. CASE Ingest
  <2>1. /\ offered' = offered \cup turn.due /\ listed' = listed
        /\ SavesLogs \/ logsFile' = logsFile
    BY <1>5, IngestHandsOver DEF HandsOver, KeepsLogs
  <2>2. QED
    BY <2>1, AccountedFrom DEF Accounted
<1>6. CASE Clear
  <2>1. listed' = <<>> /\ SavesLogs /\ UNCHANGED <<turn, offered>>
    BY <1>6, ClearClears DEF Clears
  <2>2. PunchesOf(listed') = {}
    BY <2>1 DEF PunchesOf
  <2>3. QED
    BY <2>1, <2>2, AccountedFrom
<1>7. CASE Edit
  BY <1>7, AccountedFrom DEF Edit, Accounted
<1>8. CASE SaveEdit
  BY <1>8, AccountedFrom DEF SaveEdit, Accounted
<1>9. CASE Kill
  <2>1. offered' = offered \cup turn.due /\ logsFile' = logsFile
    BY <1>9 DEF Kill
  <2>2. listed' = IF logsFile = Garbled THEN <<>> ELSE logsFile
    BY <1>9, KillTypes
  <2>3. PunchesOf(<<>>) = {}
    BY DEF PunchesOf
  <2>4. PunchesOf(listed') \subseteq offered \cup turn.due
    BY <2>2, <2>3 DEF Accounted
  <2>5. QED
    BY <2>1, <2>4, AccountedFrom
<1>10. QED
  BY <1>1, <1>2, <1>3, <1>4, <1>5, <1>6, <1>7, <1>8, <1>9 DEF Kind

(* What a sync begins with.                                                *)
LEMMA SyncBeginsSynced ==
  ASSUME Types, Accounted, turn = NoTurn, NEW c \in Call, SyncBegins(c),
         PunchesOf(listed') = PunchesOf(listed), UNCHANGED offered
  PROVE  Synced'
<1>1. /\ turn'.via = "sync" /\ turn'.todo = Fresh(c) /\ turn'.due = {}
      /\ turn'.all = call[c].records
  BY NothingYet DEF SyncBegins, TurnState
<1>2. /\ \A p \in call[c].records : p \in Punch /\ p.reader = call[c].reader
      /\ \A p \in call[c].records : p \in Fresh(c) \/ Key(p) \in Keys(listed)
      /\ Fresh(c) \subseteq call[c].records
      /\ \A p \in Fresh(c) : Key(p) \notin Keys(listed)
  BY DEF Types, Reads, Brought, InMemory, Fresh
<1>3. \A p, q \in Fresh(c) : Key(p) = Key(q) => p = q
  <2>1. SUFFICES ASSUME NEW p \in Fresh(c), NEW q \in Fresh(c), Key(p) = Key(q)
                 PROVE  p = q
    OBVIOUS
  <2>2. /\ p \in [reader: Reader, pin: Pin, time: Time]
        /\ q \in [reader: Reader, pin: Pin, time: Time]
        /\ p.reader = q.reader
    BY <1>2, DashboardAssumption
  <2>3. p.pin = q.pin /\ p.time = q.time
    BY <2>1 DEF Key
  <2>4. QED
    BY <2>2, <2>3
<1>4. Keys(listed) \subseteq KeysOf(offered)
  BY NothingYet DEF Accounted, Keys, KeysOf
<1>5. Keys(listed)' = Keys(listed)
  BY DEF Keys, PunchesOf
<1>6. KeysOf(call[c].records) \subseteq KeysOf(offered \cup Fresh(c))
  BY <1>2, <1>4 DEF KeysOf
<1>7. KeysOf(Fresh(c)) \cap Keys(listed) = {}
  BY <1>2 DEF KeysOf
<1>8. QED
  BY <1>1, <1>3, <1>5, <1>6, <1>7 DEF Synced, KeysOf

(* A step that leaves the list and the turn alone.                         *)
LEMMA SyncedStays ==
  ASSUME Synced, UNCHANGED <<listed, turn, offered>>
  PROVE  Synced'
BY DEF Synced, KeysOf, Keys, PunchesOf, Key

(* Every step keeps what a sync counts on.                                 *)
LEMMA SyncedStep ==
  ASSUME Types, Types', Accounted, Synced, Kind
  PROVE  Synced'
<1>0. Contents /\ turn \in TurnState
  BY DEF Types
<1>n. turn' = NoTurn => Synced'
  BY NothingYet DEF Synced
<1>1. ASSUME NEW new \in [Pin -> Name], Renames(new)
      PROVE  Synced'
  <2>1. PunchesOf(listed') = PunchesOf(listed)
    BY <1>0, <1>1, RenamedAre DEF Renames, Contents
  <2>2. ASSUME NEW c \in Call, SyncBegins(c)
        PROVE  Synced'
    BY <1>1, <2>1, <2>2, SyncBeginsSynced DEF Renames
  <2>3. QED
    BY <1>n, <1>1, <2>2 DEF Renames
<1>2. CASE Looks
  BY <1>n, <1>2 DEF Looks, Synced
<1>3. CASE Quiet
  BY <1>3, SyncedStays DEF Quiet
<1>4. ASSUME NEW p \in Punch, Announce(p)
      PROVE  Synced'
  <2>1. PICK row \in Row : Broadcasts(p, row)
    BY <1>4, AnnounceBroadcasts
  <2>2. /\ p \in turn.todo /\ row.punch = p
        /\ listed' = Pruned(Append(listed, row)) /\ offered' = offered
        /\ turn'.via = turn.via /\ turn'.todo = turn.todo \ {p}
        /\ turn'.due = turn.due \cup {p} /\ turn'.all = turn.all
    BY <1>0, <2>1 DEF Broadcasts, TurnState
  <2>3. turn.via # "none"
    BY <2>2, NothingYet DEF Synced
  <2>4. PunchesOf(listed') \subseteq PunchesOf(listed) \cup {p}
    BY <1>0, <2>2, AddedAre DEF Contents
  <2>5. CASE turn.via = "sync"
    <3>1. /\ \A q \in turn.todo : Key(q) \notin Keys(listed)
          /\ \A q, s \in turn.todo : Key(q) = Key(s) => q = s
          /\ KeysOf(turn.all) \subseteq KeysOf(offered \cup turn.due \cup turn.todo)
      BY <2>5 DEF Synced, KeysOf
    <3>2. Keys(listed') \subseteq Keys(listed) \cup {Key(p)}
      BY <2>4 DEF Keys
    <3>3. \A q \in turn'.todo : Key(q) \notin Keys(listed')
      BY <2>2, <3>1, <3>2
    <3>4. offered' \cup turn'.due \cup turn'.todo = offered \cup turn.due \cup turn.todo
      BY <2>2
    <3>5. KeysOf(turn'.all) \subseteq KeysOf(offered' \cup turn'.due \cup turn'.todo)
      BY <2>2, <3>1, <3>4
    <3>6. KeysOf(turn'.todo) \cap Keys(listed') = {}
      BY <3>3 DEF KeysOf
    <3>7. \A q, s \in turn'.todo : Key(q) = Key(s) => q = s
      BY <2>2, <3>1
    <3>8. QED
      BY <2>2, <2>3, <3>5, <3>6, <3>7 DEF Synced, KeysOf, Keys, PunchesOf, Key
  <2>6. CASE turn.via # "sync"
    BY <2>2, <2>3, <2>6 DEF Synced
  <2>7. QED
    BY <2>5, <2>6
<1>5. CASE Ingest
  <2>1. /\ offered' = offered \cup turn.due /\ listed' = listed
        /\ IF turn.todo # {} THEN turn' = [turn EXCEPT !.due = {}]
                             ELSE turn' = NoTurn
    BY <1>5, IngestHandsOver DEF HandsOver
  <2>2. CASE turn.todo # {}
    <3>1. /\ turn'.via = turn.via /\ turn'.todo = turn.todo /\ turn'.due = {}
          /\ turn'.all = turn.all
      BY <1>0, <2>1, <2>2 DEF TurnState
    <3>2. turn.via # "none"
      BY <2>2, NothingYet DEF Synced
    <3>3. offered' \cup turn'.due \cup turn'.todo = offered \cup turn.due \cup turn.todo
      BY <2>1, <3>1
    <3>4. QED
      BY <2>1, <3>1, <3>2, <3>3 DEF Synced, KeysOf, Keys, PunchesOf, Key
  <2>3. QED
    BY <1>n, <2>1, <2>2
<1>6. CASE Clear
  BY <1>n, <1>6, ClearClears DEF Clears
<1>7. CASE Edit
  BY <1>7, SyncedStays DEF Edit
<1>8. CASE SaveEdit
  BY <1>8, SyncedStays DEF SaveEdit
<1>9. CASE Kill
  BY <1>n, <1>9 DEF Kill
<1>10. QED
  BY <1>1, <1>2, <1>3, <1>4, <1>5, <1>6, <1>7, <1>8, <1>9 DEF Kind

-----------------------------------------------------------------------------
(* When a read ends                                                        *)

(* A read whose answer was waiting ends when its coroutine goes on, or with *)
(* the process.                                                            *)
LEMMA ReadEnds ==
  ASSUME Types, [Next]_vars, NEW c \in Call,
         call[c].pc = "resume", call'[c].pc = "idle"
  PROVE  ResumeAuto(c) \/ ResumeSync(c) \/ Kill
<1>0. /\ call \in [Call -> CallState] /\ call[c] \in CallState
      /\ ~ UNCHANGED call
  BY DEF Types, Reads
<1> SUFFICES ASSUME ~ Kill
             PROVE  ResumeAuto(c) \/ ResumeSync(c)
  OBVIOUS
<1>1. ASSUME NEW pc \in {"begin", "wait"}, NEW kind \in {"auto", "sync"},
             NEW r \in Reader, Begin(pc, kind, r)
      PROVE  FALSE
  <2> DEFINE idle == {x \in Call : call[x].pc = "idle"}
             s == [Idle EXCEPT !.pc = pc, !.kind = kind, !.reader = r]
  <2>1. idle # {} /\ call' = [call EXCEPT ![CHOOSE x \in idle : TRUE] = s]
    BY <1>1 DEF Begin
  <2>2. PICK x \in idle : x = CHOOSE y \in idle : TRUE
    BY <2>1
  <2>3. c # x /\ call' = [call EXCEPT ![x] = s]
    BY <2>1, <2>2
  <2>4. call'[c] = call[c]
    BY <1>0, <2>3
  <2>5. QED
    BY <2>4
<1>2. ASSUME NEW r \in Reader, ReaderStep(r) \/ Poll(r) \/ PostUsers(r)
      PROVE  FALSE
  <2>1. CASE Handshake(r)
    BY <1>1, <2>1 DEF Handshake, Spawn
  <2>2. CASE SyncDevice(r)
    BY <1>1, <2>2 DEF SyncDevice
  <2>3. CASE QueryUsers(r) \/ OperLog(r) \/ Poll(r) \/ PostUsers(r)
    BY <1>0, <2>3 DEF QueryUsers, OperLog, Poll, PostUsers, reads
  <2>4. ASSUME NEW batch \in SUBSET InMemory(r) \ {{}}, Push(r, batch)
        PROVE  FALSE
    BY <1>0, <1>1, <2>4 DEF Push, AskForNames, Spawn
  <2>5. QED
    BY <1>2, <2>1, <2>2, <2>3, <2>4 DEF ReaderStep
<1>3. ASSUME NEW x \in Call, Run(x)
      PROVE  ResumeAuto(c) \/ ResumeSync(c)
  <2>1. \A y \in Call : y # c => \A s : [call EXCEPT ![y] = s][c] = call[c]
    BY <1>0
  <2>2. CASE x = c
    <3>1. ~ BeginAuto(c) /\ ~ TryLock(c) /\ ~ Read(c)
      BY DEF BeginAuto, TryLock, Read
    <3>2. QED
      BY <1>3, <2>2, <3>1 DEF Run
  <2>3. CASE x # c
    <3>1. call'[c] = call[c]
      <4>1. CASE BeginAuto(x)
        BY <1>0, <2>3, <4>1 DEF BeginAuto
      <4>2. CASE TryLock(x)
        BY <1>0, <2>3, <4>2 DEF TryLock
      <4>3. CASE Read(x)
        <5>1. \E s : call' = [call EXCEPT ![x] = s]
          BY <4>3 DEF Read, ReadDone
        <5>2. QED
          BY <2>1, <2>3, <5>1
      <4>4. CASE ResumeAuto(x) \/ ResumeSync(x)
        BY <1>0, <2>3, <4>4 DEF ResumeAuto, ResumeSync
      <4>5. QED
        BY <1>3, <4>1, <4>2, <4>3, <4>4 DEF Run
    <3>2. QED
      BY <3>1
  <2>4. QED
    BY <2>2, <2>3
<1>4. ASSUME GoOn \/ Clear \/ LoadInitial \/ PageStep \/ Disconnect \/ Edit
             \/ SaveEdit \/ UNCHANGED vars
      PROVE  FALSE
  <2>1. CASE GoOn
    BY <1>0, <2>1 DEF GoOn, Ingest, Announce, reads
  <2>2. CASE Clear \/ LoadInitial \/ PageStep \/ Disconnect
    BY <1>0, <2>2 DEF Clear, LoadInitial, PageStep, GetPunches, Apply,
                      Connect, Receive, Disconnect, reads
  <2>3. CASE Edit \/ SaveEdit \/ UNCHANGED vars
    BY <1>0, <2>3 DEF Edit, SaveEdit, vars, reads
  <2>4. QED
    BY <1>4, <2>1, <2>2, <2>3
<1>5. ASSUME NEW p \in Pin, \/ \E n \in Person : SetName(p, n)
                            \/ \E n \in Name : BeginEdit(p, n)
      PROVE  FALSE
  BY <1>0, <1>5 DEF SetName, BeginEdit, reads
<1>6. QED
  BY <1>2, <1>3, <1>4, <1>5 DEF Next

-----------------------------------------------------------------------------
(* The theorems                                                            *)

Inv == Types /\ SavedList /\ NamesFollow /\ NamesKept /\ PageHas /\ Accounted
       /\ Synced

(* The server starts with nothing listed, the names of the source text, and *)
(* no reads.                                                               *)
LEMMA InitInv ==
  ASSUME Init
  PROVE  Inv
<1>1. Contents
  <2>1. Default \in [Pin -> Name]
    BY DashboardAssumption
  <2>2. <<>> \in Seq(Row)
    OBVIOUS
  <2>3. QED
    BY <2>1, <2>2 DEF Init, Contents, InWindow
<1>2. Reads
  <2>1. NoCall \notin Call
    BY DashboardAssumption
  <2>2. Brought(Idle)
    BY NothingYet DEF Brought
  <2>3. call \in [Call -> CallState] /\ \A c \in Call : call[c] = Idle
    BY NothingYet DEF Init
  <2>4. \A c \in Call : Brought(call[c]) /\ (call[c].pc = "read" <=> tcp = c)
    BY <2>1, <2>2, <2>3, NothingYet DEF Init
  <2>5. QED
    BY <2>3, <2>4 DEF Init, Reads
<1>3. Types
  <2>1. MaxEvents \in Nat /\ MaxFailures \in Nat
    BY DashboardAssumption
  <2>2. queries \in [Reader -> Nat] /\ asked \subseteq Reader /\ stamped \subseteq Reader
    BY DEF Init
  <2>3. turn \in TurnState /\ edit \in EditState /\ page \in PageState
    BY NothingYet DEF Init
  <2>4. events \in 0..MaxEvents /\ failures \in 0..MaxFailures
    BY <2>1 DEF Init
  <2>5. QED
    BY <1>1, <1>2, <2>2, <2>3, <2>4 DEF Types
<1>4. SavedList
  <2>1. <<>> \in Seq(Row)
    OBVIOUS
  <2>2. QED
    BY <2>1, DashboardAssumption DEF Init, SavedList
<1>5. NamesFollow
  BY DashboardAssumption DEF Init, NamesFollow, LoadedNames
<1>6. NamesKept
  BY NothingYet DEF Init, NamesKept, NamesShown
<1>7. PageHas
  BY DEF Init, PageHas, PageShowsOwed, NoPage
<1>8. Accounted
  BY DEF Init, Accounted, PunchesOf
<1>9. Synced
  BY NothingYet DEF Init, Synced
<1>10. QED
  BY <1>3, <1>4, <1>5, <1>6, <1>7, <1>8, <1>9 DEF Inv

(* Every step keeps the invariant.                                         *)
LEMMA InvStep ==
  ASSUME Inv, [Next]_vars
  PROVE  Inv'
<1>1. Types' /\ Kind
  BY Steps DEF Inv
<1>2. SavedList'
  BY <1>1, SavedListStep DEF Inv
<1>3. NamesFollow'
  BY <1>1, NamesFollowStep DEF Inv
<1>4. NamesKept'
  BY <1>1, NamesKeptStep DEF Inv
<1>5. PageHas'
  BY <1>1, PageHasStep DEF Inv
<1>6. Accounted'
  BY <1>1, AccountedStep DEF Inv
<1>7. Synced'
  BY <1>1, SyncedStep DEF Inv
<1>8. QED
  BY <1>1, <1>2, <1>3, <1>4, <1>5, <1>6, <1>7 DEF Inv

(* The invariant holds in every state the server can be in.                *)
LEMMA Invariance == Spec => []Inv
<1>1. Init => Inv
  BY InitInv
<1>2. Inv /\ [Next]_vars => Inv'
  BY InvStep
<1> HIDE DEF Init, Next, Inv, Fairness, vars
<1>3. QED
  BY <1>1, <1>2, PTL DEF Spec

(* The variables hold what the code keeps in them: TypeOK, with the lock   *)
(* held by the one read that is under way.                                 *)
THEOREM TypeCorrect == Spec => []TypeOK
<1>1. Inv => TypeOK
  BY DEF Inv, Types, Contents, Reads, CallState, TurnState, EditState, PageState,
         TypeOK
<1> HIDE DEF Inv, TypeOK, Spec
<1>2. QED
  BY <1>1, Invariance, PTL

(* Rows show the name the cache has for their PIN, but for those known to  *)
(* lag behind: what broadcast_punch, update_user_name and the reads over   *)
(* TCP leave between them.                                                 *)
THEOREM RowsShowNames == Spec => []NamesShown
<1>1. Inv => NamesShown
  BY DEF Inv, NamesKept
<1> HIDE DEF Inv, NamesShown, Spec
<1>2. QED
  BY <1>1, Invariance, PTL

(* A restart would bring back every row, unless a write of the file failed: *)
(* no handler changes the list without saving it.                          *)
THEOREM ListSurvives == Spec => []LogsFollow
<1>1. Inv => LogsFollow
  BY SavedListLoads DEF Inv, Types
<1> HIDE DEF Inv, LogsFollow, Spec
<1>2. QED
  BY <1>1, Invariance, PTL

(* A restart would bring back every name, whichever handler or thread wrote *)
(* the file last.                                                          *)
THEOREM NamesSurvive == Spec => []NamesFollow
<1>1. Inv => NamesFollow
  BY DEF Inv
<1> HIDE DEF Inv, NamesFollow, Spec
<1>2. QED
  BY <1>1, Invariance, PTL

(* A page loses no row that reached it while it was connected and waited   *)
(* for no answer, through reconnects, refreshes, clearings and kills.      *)
THEOREM PageLosesNothing == Spec => []PageShowsOwed
<1>1. Inv => PageShowsOwed
  BY DEF Inv, PageHas
<1> HIDE DEF Inv, PageShowsOwed, Spec
<1>2. QED
  BY <1>1, Invariance, PTL

(* A sync adds no second row for a PIN and time.                           *)
THEOREM SyncAddsNoSecondRow == Spec => SyncAddsOnce
<1> DEFINE Once == \A p \in turn.todo \ turn'.todo :
                     turn.via = "sync" /\ Len(listed') > Len(listed)
                       => Key(p) \notin Keys(listed)
<1>1. Inv => Once
  BY DEF Inv, Synced, KeysOf
<1>2. Inv /\ [Next]_vars => [Once]_vars
  BY <1>1
<1> HIDE DEF Once, Inv, Init, Next, vars, Fairness
<1>3. Spec => [][Once]_vars
  BY <1>2, Invariance, PTL DEF Spec
<1>4. QED
  BY <1>3 DEF Once, SyncAddsOnce

(* When a sync ends, what it read has been handed to ingest, or a punch of  *)
(* the same PIN and time has, whatever was pushed while it was reading.    *)
THEOREM SyncLeavesNothing == Spec => SyncOffersAll
<1> DEFINE Offers == ~Kill =>
                       {Key(p) : p \in Ended} \subseteq {Key(p) : p \in offered'}
<1>1. ASSUME Inv, [Next]_vars
      PROVE  Offers
  <2> SUFFICES ASSUME ~Kill
               PROVE  KeysOf(Ended) \subseteq KeysOf(offered')
    BY DEF KeysOf
  <2>1. Types' /\ Kind /\ Types /\ Synced /\ Accounted /\ ~ Kill
    BY <1>1, Steps DEF Inv
  <2>2. CASE turn.via = "sync" /\ turn' = NoTurn
    <3>1. turn # NoTurn /\ turn' # turn /\ turn'.via # turn.via
      BY <2>2, NothingYet
    <3>2. HandsOver
      <4>1. \A new \in [Pin -> Name] : ~ Renames(new)
        BY <3>1 DEF Renames
      <4>2. ~ Looks /\ ~ Quiet /\ ~ Edit /\ ~ SaveEdit
        BY <3>1 DEF Looks, Quiet, Edit, SaveEdit
      <4>3. ~ Clear
        BY <2>1, <3>1, ClearClears DEF Clears
      <4>4. \A p \in Punch : ~ Announce(p)
        <5>1. ASSUME NEW p \in Punch, Announce(p)
              PROVE  turn'.via = turn.via
          BY <2>1, <5>1 DEF Announce, Types, TurnState
        <5>2. QED
          BY <3>1, <5>1
      <4>5. QED
        BY <2>1, <4>1, <4>2, <4>3, <4>4, IngestHandsOver DEF Kind
    <3>3. turn.todo = {} /\ offered' = offered \cup turn.due
      <4>1. turn.todo # {} => turn'.via = turn.via
        BY <2>1, <3>2 DEF HandsOver, Types, TurnState
      <4>2. QED
        BY <3>1, <3>2, <4>1 DEF HandsOver
    <3>4. KeysOf(turn.all) \subseteq KeysOf(offered \cup turn.due \cup turn.todo)
      BY <2>1, <2>2 DEF Synced
    <3>5. offered \cup turn.due \cup turn.todo = offered'
      BY <3>3
    <3>6. Ended = turn.all
      BY <2>2 DEF Ended
    <3>7. QED
      BY <3>4, <3>5, <3>6
  <2>3. CASE ~ (turn.via = "sync" /\ turn' = NoTurn)
    <3>1. ASSUME NEW c \in Call, NEW p \in Gone(c)
          PROVE  Key(p) \in KeysOf(offered')
      <4>1. /\ call[c].pc = "resume" /\ call'[c].pc = "idle" /\ turn' = NoTurn
            /\ p \in call[c].records
        BY <3>1 DEF Gone
      <4>2. ResumeAuto(c) \/ ResumeSync(c)
        BY <1>1, <2>1, <4>1, ReadEnds
      <4>3. call[c].kind = "sync"
        BY <2>1, <4>1 DEF Types, Reads, Brought
      <4>4. ResumeSync(c)
        BY <4>2, <4>3 DEF ResumeAuto
      <4>5. Fresh(c) = {} /\ turn = NoTurn /\ offered' = offered
        <5>1. Fresh(c) # {} => turn'.via = "sync"
          BY <4>4, NothingYet DEF ResumeSync, TurnState
        <5>2. QED
          BY <4>1, <4>4, <5>1, NothingYet DEF ResumeSync, Free
      <4>6. Key(p) \in Keys(listed)
        BY <4>1, <4>5 DEF Fresh
      <4>7. PunchesOf(listed) \subseteq offered
        BY <2>1, <4>5, NothingYet DEF Accounted
      <4>8. QED
        BY <4>5, <4>6, <4>7 DEF Keys, KeysOf
    <3>2. Ended = UNION {Gone(c) : c \in Call}
      BY <2>3 DEF Ended
    <3>3. QED
      BY <3>1, <3>2 DEF KeysOf
  <2>4. QED
    BY <2>2, <2>3
<1>2. Inv /\ [Next]_vars => [Offers]_vars
  BY <1>1
<1> HIDE DEF Inv, Init, Next, vars, Fairness
<1>3. QED
  BY <1>2, Invariance, PTL DEF Spec, SyncOffersAll

(* A read in the background changes no name that is known when it ends.    *)
THEOREM ReadsKeepKnownNames == Spec => KnownNameKept
<1> DEFINE Kept == ~Kill => \A c \in Call :
                     call[c].pc = "resume" /\ call'[c].pc = "idle" =>
                       \A p \in Pin : cache[p] # NoName => cache'[p] = cache[p]
<1>1. ASSUME Inv, [Next]_vars
      PROVE  Kept
  <2> SUFFICES ASSUME ~Kill, NEW c \in Call,
                      call[c].pc = "resume", call'[c].pc = "idle",
                      NEW p \in Pin, cache[p] # NoName
               PROVE  cache'[p] = cache[p]
    OBVIOUS
  <2>1. Types
    BY <1>1 DEF Inv
  <2>2. ResumeAuto(c) \/ ResumeSync(c)
    BY <1>1, <2>1, ReadEnds
  <2>3. Discovered(c) \in [Pin -> Name] /\ Renames(Discovered(c))
    BY <2>1, <2>2, ResumeAutoRenames, ResumeSyncRenames
  <2>4. Discovered(c)[p] = NoName
    BY <2>1, DiscoveredAre DEF Types
  <2>5. cache' = Recorded(Discovered(c))
    BY <2>3 DEF Renames
  <2>6. QED
    BY <2>4, <2>5 DEF Recorded
<1>2. Inv /\ [Next]_vars => [Kept]_vars
  BY <1>1
<1> HIDE DEF Kept, Inv, Init, Next, vars, Fairness
<1>3. Spec => [][Kept]_vars
  BY <1>2, Invariance, PTL DEF Spec
<1>4. QED
  BY <1>3 DEF Kept, KnownNameKept

=============================================================================
