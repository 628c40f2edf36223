----------------------- MODULE EmployeeDirectoryProofs -----------------------
(***************************************************************************)
(* Theorems about EmployeeDirectory that hold whatever happens, for any    *)
(* readers, people, requests, threads and failures: overlapping requests,  *)
(* failed calls and writes, kills and resets.                              *)
(*                                                                         *)
(* Structure says where each thread is and what it may be working on.      *)
(* ListsBacked: every list there is, on disk or in a thread, names only    *)
(* places where somebody was stored.                                       *)
(***************************************************************************)
EXTENDS EmployeeDirectory, ReadersProofs

-----------------------------------------------------------------------------
(* The inductive invariant                                                 *)

Loading == {"load", "restore"}
Migrating == {"resolve", "migrate", "remove"}
Working == Migrating \cup {"wipe", "update"}

(* Where a thread is, what it works on, and what its request may be.       *)
Placed(w) ==
  LET t == task[w]
      op == t.job.op
  IN  /\ t.pc = "idle" => t = Idle
      /\ t.pc # "idle" => t.job # NoRequest
      /\ t.pc \in Loading => op # "drop"
      /\ t.pc \notin Loading \cup {"idle"} =>
           op \notin {"list", "delete"} /\ t.list # NoList
      /\ t.pc \in Migrating => op \in {"transfer", "grant"}
      /\ t.pc = "remove" => op = "transfer" /\ t.job.mode = "move"
      /\ t.pc \in {"migrate", "remove"} => t.pin \in Pin
      /\ t.pc = "wipe" => op \in {"revoke", "fire"} /\ t.todo # {}
      /\ t.pc \in Working /\ op # "drop" => Employee(w) # NoRecord
      /\ t.ok => t.pc \in {"update", "write"} /\ op \in {"transfer", "grant"}
      /\ t.ok => t.pin \in Pin
      /\ t.pc \in {"update", "write"} /\ op = "grant" => t.ok
      /\ t.outer # NoList =>
           /\ t.pc # "idle" /\ op = "fire"
           /\ t.job.action = "fire_all" /\ ~t.job.printsOnly

WasStored(h, r, p) == \E x \in Person : <<x, r, p>> \in h
Backed(h, dir) == \A t \in Entries(dir) : WasStored(h, t[2], t[3])

(* Each list there is, in the file or in memory, names places where        *)
(* somebody was stored, and so does the PIN that is about to be entered.   *)
ListBacked(w) ==
  LET t == task[w]
  IN  /\ t.list \in Directory => Backed(held, t.list)
      /\ t.outer \in Directory => Backed(held, t.outer)
      /\ t.pc = "remove" \/ (t.pc = "update" /\ t.ok) =>
           WasStored(held, t.job.to, t.pin)

ListsBacked ==
  /\ Backed(held, Stock) /\ Backed(held, stock)
  /\ file \in Directory => Backed(held, file)
  /\ \A w \in Worker : ListBacked(w)

(* The PIN under which a migration finds the employee.                     *)
Source(w) == AccessPin(Employee(w), task[w].job.who, Employee(w).home)

Structure == TypeOK /\ \A w \in Worker : Placed(w)

-----------------------------------------------------------------------------
(* Requests and tasks                                                      *)

(* The parameters of a request, by its operation.                          *)
LEMMA JobTypes ==
  ASSUME NEW j \in Request \cup Removal
  PROVE  /\ j.who \in Person
         /\ j.op \in {"transfer", "grant", "revoke", "fire", "delete", "list",
                      "drop"}
         /\ j \in Request <=> j.op # "drop"
         /\ j.op = "transfer" => j.mode \in {"move", "copy", "none"}
         /\ j.op \in {"transfer", "grant"} => j.to \in Reader
         /\ j.op = "revoke" => j.at \in Reader
         /\ j.op = "fire" => j.at \in Reader \cup {Nowhere}
         /\ j.op = "fire" => j.action \in {"fire_all", "delete_device", "other"}
         /\ j.op \in {"revoke", "fire"} => j.printsOnly \in BOOLEAN
         /\ j.op \in {"delete", "drop"} => j.wipe \in BOOLEAN
BY DEF Request, Removal, TransferRequest, GrantRequest, RevokeRequest,
       OffboardRequest, DeleteRequest, ListRequest, Branch

(* Only a thread without a request has none.                               *)
LEMMA NotNoRequest ==
  ASSUME NEW j \in Request \cup Removal
  PROVE  j # NoRequest
BY JobTypes DEF NoRequest

(* A thread at work has a request.                                         *)
LEMMA HasJob ==
  ASSUME TypeOK, NEW w \in Worker, Placed(w), task[w].pc # "idle"
  PROVE  task[w] \in Task /\ task[w].job \in Request \cup Removal
BY DEF TypeOK, Task, Placed

(* Threads rest without a list.                                            *)
LEMMA IdleIsTask ==
  Idle \in Task
BY ReadersAssumption DEF Idle, Task

(* The sentinels are no lists, and no record is none.                      *)
LEMMA Sentinels ==
  /\ Absent \notin Directory /\ Truncated \notin Directory
  /\ Garbled \notin Directory /\ Shared \notin Directory
  /\ NoList \notin Directory /\ Shared # NoList
BY DirectoryAssumption

(* What a thread works on is a list of records.                            *)
LEMMA ListedIsDirectory ==
  ASSUME TypeOK, NEW list \in Directory \cup {Shared}
  PROVE  Listed(list) \in Directory
BY DEF Listed, TypeOK

(* The PIN that is tried for an employee is a PIN.                         *)
LEMMA AccessPinIsPin ==
  ASSUME NEW emp \in Record, NEW e \in Person, NEW r \in Reader
  PROVE  AccessPin(emp, e, r) \in Pin
BY DirectoryAssumption, ReadersAssumption DEF AccessPin, Record, Pin

(* How a call ends: the thread rests, or drops the employee next.          *)
LEMMA ReturnGoes ==
  ASSUME NEW t \in Task, t.outer # NoList => t.job.who \in Person
  PROVE  /\ Return(t) \in Task
         /\ t.outer = NoList => Return(t) = Idle
         /\ t.outer # NoList =>
              /\ Return(t).pc = "update" /\ Return(t).list = t.outer
              /\ Return(t).outer = NoList /\ Return(t).ok = FALSE
              /\ Return(t).job =
                   [op |-> "drop", who |-> t.job.who, wipe |-> TRUE]
<1>1. CASE t.outer = NoList
  BY <1>1, IdleIsTask DEF Return
<1>2. CASE t.outer # NoList
  <2> DEFINE j == [op |-> "drop", who |-> t.job.who, wipe |-> TRUE]
  <2>1. j \in Removal
    BY <1>2 DEF Removal
  <2>2. t.outer \in Directory \cup {Shared, NoList}
    BY DEF Task
  <2>3. Return(t) = [pc |-> "update", job |-> j, list |-> t.outer,
                     outer |-> NoList, pin |-> 0, todo |-> {}, ok |-> FALSE]
    BY <1>2 DEF Return, Idle
  <2> HIDE DEF j
  <2>4. Return(t) \in Task
    BY <2>1, <2>2, <2>3, ReadersAssumption DEF Task
  <2>5. QED
    BY <1>2, <2>3, <2>4 DEF j
<1>3. QED
  BY <1>1, <1>2

-----------------------------------------------------------------------------
(* How a request goes on                                                   *)

(* The deletions a revocation or an offboarding has to make.               *)
Targets(emp, j, todo) ==
  /\ todo # {} /\ todo \subseteq Reader \X Pin
  /\ \A x \in todo : x[2] = AccessPin(emp, j.who, x[1])
  /\ j.op = "revoke" => <<j.at, AccessPin(emp, j.who, j.at)>> \in todo
  /\ j.op = "fire" =>
       \A r \in Reader : emp.access[r] # 0 /\ (j.action = "fire_all" \/ r = j.at) =>
         <<r, emp.access[r]>> \in todo
  /\ j.op = "revoke" => \A x \in todo : x[1] = j.at
  /\ j.op = "fire" /\ OneReader(j) =>
       \A x \in todo : x[1] = j.at

Dismissal(e) == [op |-> "fire", who |-> e, at |-> Nowhere,
                 action |-> "fire_all", printsOnly |-> FALSE]

(* What a thread does with the list it has loaded: s is its next state.    *)
Begins(w, list, s) ==
  LET t == task[w]
      op == t.job.op
      e == t.job.who
      emp == Listed(list)[e]
      goes(pc) == s.pc = pc /\ s.list = list /\ ~s.ok
      same == s.job = t.job /\ s.outer = t.outer
  IN  \/ (op = "list" \/ emp = NoRecord) /\ s = Return(t)
      \/ /\ emp # NoRecord
         /\ \/ op = "transfer" /\ s = Idle
            \/ op = "transfer" /\ goes("update") /\ same
            \/ /\ op \in {"transfer", "grant"} /\ goes("resolve") /\ same
               /\ op = "transfer" => emp.home # t.job.to
            \/ /\ op \in {"revoke", "fire"} /\ goes("wipe") /\ same
               /\ Targets(emp, t.job, s.todo)
            \/ /\ op = "delete" /\ goes("load") /\ s.outer = list
               /\ s.job = Dismissal(e)
            \/ /\ op = "delete" /\ goes("update") /\ s.outer = t.outer
               /\ s.job = [op |-> "drop", who |-> e, wipe |-> FALSE]

(* The targets of a revocation: one reader.                                *)
LEMMA RevokeGoes ==
  ASSUME NEW t \in Task, NEW emp \in Record, t.job \in Request,
         t.job.op = "revoke"
  PROVE  LET s == RevokeBegins(t, emp)
         IN  /\ s \in Task
             /\ s.pc = "wipe" /\ s.list = t.list /\ s.ok = t.ok
             /\ s.job = t.job /\ s.outer = t.outer
             /\ Targets(emp, t.job, s.todo)
<1> DEFINE r == t.job.at
           p == AccessPin(emp, t.job.who, r)
<1>1. t.job.who \in Person /\ r \in Reader
  BY JobTypes
<1>2. p \in Pin
  BY <1>1, AccessPinIsPin
<1>3. RevokeBegins(t, emp) = [t EXCEPT !.pc = "wipe", !.todo = {<<r, p>>}]
  BY DEF RevokeBegins
<1>4. {<<r, p>>} \in SUBSET (Reader \X Pin)
  BY <1>1, <1>2
<1>5. Targets(emp, t.job, {<<r, p>>})
  BY <1>4 DEF Targets
<1> HIDE DEF p
<1>6. QED
  BY <1>3, <1>4, <1>5 DEF Task

(* The targets of an offboarding: one reader, the access list, or all.     *)
LEMMA OffboardGoes ==
  ASSUME NEW t \in Task, NEW emp \in Record, t.job \in Request,
         t.job.op = "fire"
  PROVE  LET s == OffboardBegins(t, emp)
         IN  /\ s \in Task
             /\ s.pc = "wipe" /\ s.list = t.list /\ s.ok = t.ok
             /\ s.job = t.job /\ s.outer = t.outer
             /\ Targets(emp, t.job, s.todo)
<1> DEFINE e == t.job.who
           entered == {r \in Reader : emp.access[r] # 0}
           targets == IF OneReader(t.job) THEN {t.job.at}
                      ELSE IF entered # {} THEN entered ELSE Reader
           todo == {<<r, AccessPin(emp, e, r)>> : r \in targets}
<1>1. /\ e \in Person
      /\ OneReader(t.job) => t.job.action # "fire_all" /\ t.job.at \in Reader
  BY JobTypes DEF OneReader
<1>2. targets \subseteq Reader /\ targets # {}
  <2>1. CASE OneReader(t.job)
    BY <1>1, <2>1
  <2>2. CASE ~OneReader(t.job)
    BY <2>2 DEF Record, Branch
  <2>3. QED
    BY <2>1, <2>2
<1>3. \A r \in Reader : AccessPin(emp, e, r) \in Pin
  BY <1>1, AccessPinIsPin
<1>4. OffboardBegins(t, emp) = [t EXCEPT !.pc = "wipe", !.todo = todo]
  BY DEF OffboardBegins
<1>5. \A r \in Reader :
        emp.access[r] # 0 /\ (t.job.action = "fire_all" \/ r = t.job.at) =>
          r \in targets
  <2>1. CASE OneReader(t.job)
    BY <1>1, <2>1
  <2>2. CASE ~OneReader(t.job)
    BY <2>2
  <2>3. QED
    BY <2>1, <2>2
<1>6. Targets(emp, t.job, todo)
  <2>0. OneReader(t.job) => \A r \in targets : r = t.job.at
    OBVIOUS
  <2> HIDE DEF targets, entered
  <2>1. todo # {} /\ todo \subseteq Reader \X Pin
    <3>1. PICK r \in targets : TRUE
      BY <1>2
    <3>2. <<r, AccessPin(emp, e, r)>> \in todo
      BY <3>1
    <3>3. \A q \in targets : <<q, AccessPin(emp, e, q)>> \in Reader \X Pin
      BY <1>2, <1>3
    <3>4. QED
      BY <3>2, <3>3
  <2>2. \A x \in todo : x[2] = AccessPin(emp, e, x[1])
    OBVIOUS
  <2>3. \A r \in targets : emp.access[r] # 0 => <<r, emp.access[r]>> \in todo
    BY DEF AccessPin
  <2>4. OneReader(t.job) => \A x \in todo : x[1] = t.job.at
    BY <2>0
  <2> HIDE DEF todo, e
  <2>5. QED
    BY <1>2, <1>5, <2>1, <2>2, <2>3, <2>4 DEF Targets, e
<1> HIDE DEF todo
<1>7. QED
  BY <1>4, <1>6 DEF Task, Targets

(* Every request goes on in one of these ways.                             *)
LEMMA BeginGoes ==
  ASSUME TypeOK, NEW w \in Worker, Placed(w), task[w].pc \in Loading,
         NEW list \in Directory \cup {Shared}
  PROVE  /\ Begin(task[w], list) \in Task
         /\ Begins(w, list, Begin(task[w], list))
<1> DEFINE t == task[w]
           e == t.job.who
           emp == Listed(list)[e]
           s == [t EXCEPT !.list = list]
           next == Begin(t, list)
<1>1. t \in Task /\ t.job \in Request /\ e \in Person /\ t.ok = FALSE
  BY HasJob, JobTypes DEF Placed, Loading, Task
<1>2. Listed(list) \in Directory
  BY ListedIsDirectory
<1>3. emp \in Record \cup {NoRecord}
  BY <1>1, <1>2 DEF Directory
<1>4. s \in Task /\ s.pc = t.pc /\ s.job = t.job /\ s.outer = t.outer
      /\ s.list = list /\ s.ok = FALSE
  BY <1>1 DEF Task
<1> HIDE DEF s
<1>5. CASE t.job.op = "list" \/ emp = NoRecord
  <2>1. next = Return(t)
    BY <1>5 DEF Begin
  <2>2. Return(t) \in Task
    BY <1>1, ReturnGoes
  <2>3. QED
    BY <1>5, <2>1, <2>2 DEF Begins
<1>6. CASE t.job.op = "transfer" /\ emp # NoRecord
  <2>1. next = TransferBegins(s, emp)
    BY <1>6 DEF Begin, s
  <2>2. CASE emp.home = t.job.to
    BY <1>4, <1>6, <2>1, <2>2, IdleIsTask DEF TransferBegins, Begins
  <2>3. CASE emp.home # t.job.to
    BY <1>4, <1>6, <2>1, <2>3 DEF TransferBegins, Begins, Task
  <2>4. QED
    BY <2>2, <2>3
<1>7. CASE t.job.op = "grant" /\ emp # NoRecord
  <2>1. next = [s EXCEPT !.pc = "resolve"]
    BY <1>7 DEF Begin, GrantBegins, s
  <2>2. QED
    BY <1>4, <1>7, <2>1 DEF Begins, Task
<1>8. CASE t.job.op = "revoke" /\ emp # NoRecord
  <2>1. next = RevokeBegins(s, emp)
    BY <1>8 DEF Begin, s
  <2>2. QED
    BY <1>1, <1>3, <1>4, <1>8, <2>1, RevokeGoes DEF Begins
<1>9. CASE t.job.op = "fire" /\ emp # NoRecord
  <2>1. next = OffboardBegins(s, emp)
    BY <1>9 DEF Begin, s
  <2>2. QED
    BY <1>1, <1>3, <1>4, <1>9, <2>1, OffboardGoes DEF Begins
<1>10. CASE t.job.op = "delete" /\ emp # NoRecord
  <2>1. next = DeleteBegins(s)
    BY <1>10 DEF Begin, s
  <2>2. CASE t.job.wipe
    <3>1. next = [s EXCEPT !.pc = "load", !.outer = list,
                           !.job = Dismissal(e)]
      BY <1>4, <2>1, <2>2 DEF DeleteBegins, Dismissal
    <3>2. Dismissal(e) \in Request
      BY <1>1 DEF Dismissal, Request, OffboardRequest
    <3>3. QED
      BY <1>4, <1>10, <3>1, <3>2 DEF Begins, Task
  <2>3. CASE ~t.job.wipe
    <3> DEFINE j == [op |-> "drop", who |-> e, wipe |-> FALSE]
    <3>1. next = [s EXCEPT !.pc = "update", !.job = j]
      BY <1>4, <2>1, <2>3 DEF DeleteBegins
    <3>2. j \in Removal
      BY <1>1 DEF Removal
    <3>3. QED
      BY <1>4, <1>10, <3>1, <3>2 DEF Begins, Task
  <2>4. QED
    BY <2>2, <2>3
<1>11. QED
  BY <1>1, <1>5, <1>6, <1>7, <1>8, <1>9, <1>10, JobTypes

-----------------------------------------------------------------------------
(* Where the steps lead a thread                                           *)

Others(w) == \A v \in Worker \ {w} : task'[v] = task[v]
Carries(w) == LET t == task[w]
                  s == task'[w]
              IN  s.job = t.job /\ s.list = t.list /\ s.outer = t.outer

(* A step of one thread leaves the others where they are.                  *)
LEMMA TaskStep ==
  ASSUME TypeOK, NEW w \in Worker, NEW s \in Task,
         task' = [task EXCEPT ![w] = s]
  PROVE  task' \in [Worker -> Task] /\ task'[w] = s /\ Others(w)
BY DEF TypeOK, Others

(* A request arrives.                                                      *)
LEMMA StartGoes ==
  ASSUME TypeOK, NEW w \in Worker, Start(w)
  PROVE  LET s == task'[w]
         IN  /\ task[w].pc = "idle" /\ task' \in [Worker -> Task] /\ Others(w)
             /\ s.pc = "load" /\ s.job \in Requests /\ s.job \in Request
             /\ s.list = NoList /\ s.outer = NoList /\ ~s.ok
<1>1. PICK j \in Requests :
        task' = [task EXCEPT ![w] = [Idle EXCEPT !.pc = "load", !.job = j]]
  BY DEF Start
<1>2. j \in Request
  BY DirectoryAssumption
<1> DEFINE s == [Idle EXCEPT !.pc = "load", !.job = j]
<1>3. /\ s \in Task /\ s.pc = "load" /\ s.job = j
      /\ s.list = NoList /\ s.outer = NoList /\ ~s.ok
  BY <1>2, IdleIsTask DEF Task, Idle
<1>4. task' = [task EXCEPT ![w] = s]
  BY <1>1
<1> HIDE DEF s
<1>5. task' \in [Worker -> Task] /\ task'[w] = s /\ Others(w)
  BY <1>3, <1>4, TaskStep
<1>6. QED
  BY <1>2, <1>3, <1>5 DEF Start

(* A list is loaded from the file, or the stock list is taken over.        *)
LEMMA LoadGoes ==
  ASSUME TypeOK, NEW w \in Worker, Placed(w), Load(w)
  PROVE  /\ task[w].pc = "load" /\ task' \in [Worker -> Task] /\ Others(w)
         /\ \/ /\ file \in Directory /\ file' = file
               /\ Begins(w, file, task'[w])
            \/ /\ file \notin Directory /\ file' = Truncated
               /\ task'[w].pc = "restore" /\ Carries(w)
               /\ task'[w].ok = task[w].ok
<1>1. task[w].pc = "load" /\ task[w] \in Task
  BY HasJob DEF Load
<1>2. CASE /\ file \in Directory
           /\ task' = [task EXCEPT ![w] = Begin(task[w], file)]
           /\ UNCHANGED file
  <2>1. Begin(task[w], file) \in Task /\ Begins(w, file, Begin(task[w], file))
    BY <1>1, <1>2, BeginGoes DEF Loading
  <2>2. QED
    BY <1>1, <1>2, <2>1, TaskStep
<1>3. CASE /\ file \notin Directory /\ file' = Truncated
           /\ task' = [task EXCEPT ![w].pc = "restore"]
  <2> DEFINE s == [task[w] EXCEPT !.pc = "restore"]
  <2>1. task' = [task EXCEPT ![w] = s]
    BY <1>3
  <2>2. /\ s \in Task /\ s.pc = "restore" /\ s.job = task[w].job
        /\ s.list = task[w].list /\ s.outer = task[w].outer
        /\ s.ok = task[w].ok
    BY <1>1 DEF Task
  <2> HIDE DEF s
  <2>3. task' \in [Worker -> Task] /\ task'[w] = s /\ Others(w)
    BY <2>1, <2>2, TaskStep
  <2>4. QED
    BY <1>1, <1>3, <2>2, <2>3 DEF Carries
<1>4. QED
  BY <1>2, <1>3 DEF Load

(* The stock list has been written, or has not.                            *)
LEMMA RestoreGoes ==
  ASSUME TypeOK, NEW w \in Worker, Placed(w), Restore(w)
  PROVE  /\ task[w].pc = "restore" /\ task' \in [Worker -> Task] /\ Others(w)
         /\ Begins(w, Shared, task'[w])
<1>1. task[w].pc = "restore" /\ task' = [task EXCEPT ![w] = Begin(task[w], Shared)]
  BY DEF Restore
<1>2. /\ Begin(task[w], Shared) \in Task
      /\ Begins(w, Shared, Begin(task[w], Shared))
  BY <1>1, BeginGoes DEF Loading
<1>3. QED
  BY <1>1, <1>2, TaskStep

(* A request that works on an employee: the employee, and who it is.       *)
LEMMA AtWork ==
  ASSUME TypeOK, NEW w \in Worker, Placed(w),
         task[w].pc \notin Loading \cup {"idle"}
  PROVE  /\ task[w] \in Task /\ task[w].job \in Request \cup Removal
         /\ task[w].job.who \in Person
         /\ task[w].list \in Directory \cup {Shared}
         /\ Listed(task[w].list) \in Directory
         /\ Employee(w) \in Record \cup {NoRecord}
         /\ task[w].pc \in Working /\ task[w].job.op # "drop" =>
              Employee(w) \in Record
<1>1. /\ task[w] \in Task /\ task[w].job \in Request \cup Removal
      /\ task[w].job.who \in Person
  BY HasJob, JobTypes
<1>2. task[w].list \in Directory \cup {Shared}
  BY <1>1 DEF Placed, Task
<1>3. Listed(task[w].list) \in Directory
  BY <1>2, ListedIsDirectory
<1>4. Employee(w) \in Record \cup {NoRecord}
  BY <1>1, <1>3 DEF Employee, Directory
<1>5. QED
  BY <1>1, <1>2, <1>3, <1>4 DEF Placed

(* The PIN on the target is chosen.                                        *)
LEMMA ResolveGoes ==
  ASSUME TypeOK, NEW w \in Worker, Placed(w), Resolve(w)
  PROVE  /\ task[w].pc = "resolve" /\ task' \in [Worker -> Task] /\ Others(w)
         /\ task'[w].pc = "migrate" /\ Carries(w) /\ task'[w].ok = task[w].ok
         /\ task'[w].pin \in Pin
<1> DEFINE t == task[w]
           e == t.job.who
           r == t.job.to
           p == AccessPin(Employee(w), e, Employee(w).home)
<1>1. /\ t.pc = "resolve" /\ t \in Task /\ e \in Person /\ Employee(w) \in Record
      /\ t.job.op \in {"transfer", "grant"} /\ t.job \in Request \cup Removal
  BY AtWork DEF Resolve, Working, Migrating, Loading, Placed
<1>2. r \in Reader /\ p \in Pin
  BY <1>1, JobTypes, AccessPinIsPin DEF Record, Branch
<1>3. HasRoom(r)
  BY DEF Resolve
<1>4. ResolvedPin(r, p, e) \in Pin
  <2>1. Stored(r) \in SUBSET Pin /\ MaxPin \notin Stored(r)
    BY <1>3 DEF Stored, HasRoom
  <2>2. QED
    BY <1>2, <2>1, NextFreeIsFree DEF ResolvedPin
<1>5. PICK q \in Pin : task' = [task EXCEPT ![w].pc = "migrate", ![w].pin = q]
  <2> HIDE DEF p
  <2>1. \/ task' = [task EXCEPT ![w].pc = "migrate",
                                ![w].pin = ResolvedPin(r, p, e)]
        \/ task' = [task EXCEPT ![w].pc = "migrate", ![w].pin = p]
    BY DEF Resolve, p
  <2>2. QED
    BY <1>2, <1>4, <2>1
<1> DEFINE s == [t EXCEPT !.pc = "migrate", !.pin = q]
<1>6. task' = [task EXCEPT ![w] = s]
  BY <1>5 DEF TypeOK
<1>7. /\ s \in Task /\ s.pc = "migrate" /\ s.job = t.job /\ s.list = t.list
      /\ s.outer = t.outer /\ s.ok = t.ok /\ s.pin = q
  <2>1. q \in 0..MaxPin
    BY ReadersAssumption DEF Pin
  <2>2. QED
    BY <1>1, <2>1 DEF Task
<1> HIDE DEF s
<1>8. task' \in [Worker -> Task] /\ task'[w] = s /\ Others(w)
  BY <1>6, <1>7, TaskStep
<1>9. QED
  BY <1>1, <1>7, <1>8 DEF Carries

(* A migration that did not work ends a grant; a transfer goes on.         *)
FailedMigration(w) ==
  LET t == task[w]
      s == task'[w]
  IN  \/ t.job.op = "grant" /\ s = Idle
      \/ t.job.op = "transfer" /\ s.pc = "update" /\ ~s.ok /\ Carries(w)

Copies(w) ==
  LET t == task[w]
      s == task'[w]
  IN  /\ Carries(w) /\ s.pin = t.pin
      /\ IF t.job.op = "transfer" /\ t.job.mode = "move"
           THEN s.pc = "remove" /\ ~s.ok
           ELSE s.pc = "update" /\ s.ok

(* What a thread does after a migration that worked, or did not.           *)
LEMMA MigratedGoes ==
  ASSUME TypeOK, NEW w \in Worker, Placed(w), task[w].pc \in Migrating,
         NEW ok \in BOOLEAN, task' = [task EXCEPT ![w] = Migrated(task[w], ok)]
  PROVE  /\ task' \in [Worker -> Task] /\ Others(w)
         /\ ~ok => FailedMigration(w)
         /\ ok => /\ Carries(w) /\ task'[w].pin = task[w].pin
                  /\ task'[w].pc = "update" /\ task'[w].ok
<1> DEFINE t == task[w]
           s == Migrated(t, ok)
<1>1. /\ t \in Task /\ t.job.op \in {"transfer", "grant"} /\ t.outer = NoList
  BY AtWork DEF Migrating, Loading, Placed
<1>2. CASE ~ok /\ t.job.op = "grant"
  <2>1. s = Idle
    BY <1>1, <1>2 DEF Migrated, Return
  <2>2. task' \in [Worker -> Task] /\ task'[w] = s /\ Others(w)
    BY <2>1, IdleIsTask, TaskStep
  <2>3. QED
    BY <1>2, <2>1, <2>2 DEF FailedMigration
<1>3. CASE ~(~ok /\ t.job.op = "grant")
  <2>1. s = [t EXCEPT !.pc = "update", !.ok = ok]
    BY <1>3 DEF Migrated
  <2>2. /\ s \in Task /\ s.pc = "update" /\ s.ok = ok /\ s.job = t.job
        /\ s.list = t.list /\ s.outer = t.outer /\ s.pin = t.pin
    BY <1>1, <2>1 DEF Task
  <2>3. task' \in [Worker -> Task] /\ task'[w] = s /\ Others(w)
    BY <2>2, TaskStep
  <2> HIDE DEF s
  <2>4. QED
    BY <1>1, <1>3, <2>2, <2>3 DEF FailedMigration, Carries
<1>4. QED
  BY <1>2, <1>3

(* What a migration writes: the profile of the source, under the name it   *)
(* is shown with.                                                          *)
Copied(w) == users[Employee(w).home][Source(w)]
CopiedName(w) == ShownName(Copied(w), Source(w))
Copy(w) == [Copied(w) EXCEPT !.name = CopiedName(w)]
Place(w) == PinFor(task[w].job.to, task[w].pin, CopiedName(w))

(* The place and the profile of a migration.                               *)
LEMMA Migration ==
  ASSUME TypeOK, NEW w \in Worker, Placed(w), task[w].pc \in Migrating
  PROVE  /\ task[w].job.who \in Person /\ task[w].job.to \in Reader
         /\ task[w].job.op \in {"transfer", "grant"}
         /\ Employee(w) \in Record /\ Employee(w).home \in Reader
         /\ Source(w) \in Pin /\ Copied(w) \in Profile \cup {NoUser}
         /\ Copied(w) # NoUser =>
              /\ CopiedName(w) \in Name /\ Copy(w) \in Profile
              /\ Copy(w).who = Copied(w).who /\ Copy(w).name = CopiedName(w)
<1>1. /\ task[w].job.who \in Person /\ task[w].job.to \in Reader
      /\ task[w].job.op \in {"transfer", "grant"} /\ Employee(w) \in Record
  BY AtWork, JobTypes DEF Migrating, Loading, Working, Placed
<1>2. Employee(w).home \in Reader /\ Source(w) \in Pin
  BY <1>1, AccessPinIsPin DEF Record, Branch, Source
<1>3. Copied(w) \in Profile \cup {NoUser}
  BY <1>2 DEF TypeOK, ReadersTypeOK, Copied
<1>4. ASSUME Copied(w) # NoUser
      PROVE  /\ CopiedName(w) \in Name /\ Copy(w) \in Profile
             /\ Copy(w).who = Copied(w).who /\ Copy(w).name = CopiedName(w)
  <2>1. CopiedName(w) \in Name
    BY <1>2, <1>3, <1>4, ShownNameType DEF CopiedName
  <2>2. QED
    BY <1>3, <1>4, <2>1 DEF Copy, Profile
<1>5. QED
  BY <1>1, <1>2, <1>3, <1>4

(* The profile is copied, or the migration does not work.                  *)
LEMMA MigrateGoes ==
  ASSUME TypeOK, NEW w \in Worker, Placed(w), Migrate(w)
  PROVE  /\ task[w].pc = "migrate" /\ task' \in [Worker -> Task] /\ Others(w)
         /\ pushed' = pushed
         /\ \/ FailedMigration(w) /\ UNCHANGED <<users, held, replaced>>
            \/ /\ Copied(w) # NoUser /\ Employee(w).home # task[w].job.to
               /\ Place(w) \in Pin
               /\ Put(task[w].job.to, Place(w), Copy(w), "session")
               /\ \/ Copies(w) /\ excuses' =
                       excuses
                         \cup {x \in {"guess"} :
                                 WrongGuess(Employee(w), task[w].job.who,
                                            Employee(w).home, Source(w))}
                         \cup {x \in {"nameless"} :
                                 CopiedName(w) # task[w].job.who}
                  \/ FailedMigration(w) /\ "failure" \in excuses'
<1> DEFINE t == task[w]
           moves == t.job.op = "transfer" /\ t.job.mode = "move"
           remove == [t EXCEPT !.pc = "remove"]
<1>1. t.pc = "migrate" /\ t \in Task /\ t.pin \in Pin /\ ~t.ok /\ t.pc \in Migrating
  BY AtWork DEF Migrate, Migrating, Loading, Placed
<1>2. t.job.to \in Reader
  BY <1>1, Migration
<1>3. /\ remove \in Task /\ remove.pc = "remove" /\ remove.job = t.job
      /\ remove.list = t.list /\ remove.outer = t.outer /\ ~remove.ok
      /\ remove.pin = t.pin
  BY <1>1 DEF Task
<1> HIDE DEF remove
<1>4. ASSUME task' = [task EXCEPT ![w] = Migrated(t, FALSE)]
      PROVE  task' \in [Worker -> Task] /\ Others(w) /\ FailedMigration(w)
  BY <1>1, <1>4, MigratedGoes
<1>5. ASSUME task' = [task EXCEPT ![w] = IF moves THEN remove
                                         ELSE Migrated(t, TRUE)]
      PROVE  task' \in [Worker -> Task] /\ Others(w) /\ Copies(w)
  <2>1. CASE moves
    <3>1. task' = [task EXCEPT ![w] = remove]
      BY <1>5, <2>1
    <3>2. task' \in [Worker -> Task] /\ task'[w] = remove /\ Others(w)
      BY <1>3, <3>1, TaskStep
    <3>3. QED
      BY <1>3, <2>1, <3>2 DEF Copies, Carries
  <2>2. CASE ~moves
    <3>1. task' = [task EXCEPT ![w] = Migrated(t, TRUE)]
      BY <1>5, <2>2
    <3>2. QED
      BY <1>1, <2>2, <3>1, MigratedGoes DEF Copies
  <2>3. QED
    BY <2>1, <2>2
<1>6. HasRoom(t.job.to)
  BY DEF Migrate
<1>7. Place(w) \in Pin
  BY <1>1, <1>2, <1>6, PinForIsPin DEF Place, TypeOK
<1>8. CASE /\ task' = [task EXCEPT ![w] = Migrated(t, FALSE)]
           /\ UNCHANGED <<users, readerHistory>>
  BY <1>1, <1>4, <1>8 DEF readerHistory
<1>9. CASE /\ Copied(w) # NoUser /\ Employee(w).home # t.job.to
           /\ Put(t.job.to, Place(w), Copy(w), "session")
           /\ \/ /\ task' = [task EXCEPT ![w] = IF moves THEN remove
                                                ELSE Migrated(t, TRUE)]
                 /\ excuses' = excuses
                      \cup {x \in {"guess"} :
                              WrongGuess(Employee(w), t.job.who,
                                         Employee(w).home, Source(w))}
                      \cup {x \in {"nameless"} : CopiedName(w) # t.job.who}
              \/ task' = [task EXCEPT ![w] = Migrated(t, FALSE)] /\ Fail
           /\ UNCHANGED pushed
  <2>1. CASE task' = [task EXCEPT ![w] = Migrated(t, FALSE)] /\ Fail
    BY <1>1, <1>4, <1>7, <1>9, <2>1 DEF Fail, Mishap
  <2>2. CASE ~(task' = [task EXCEPT ![w] = Migrated(t, FALSE)] /\ Fail)
    BY <1>1, <1>5, <1>7, <1>9, <2>2
  <2>3. QED
    BY <2>1, <2>2
<1>10. QED
  BY <1>8, <1>9
  DEF Migrate, Copied, Copy, CopiedName, Source, Place, remove

(* The source is deleted, or the deletion fails.                           *)
LEMMA RemoveGoes ==
  ASSUME TypeOK, NEW w \in Worker, Placed(w), RemoveSource(w)
  PROVE  /\ task[w].pc = "remove" /\ task' \in [Worker -> Task] /\ Others(w)
         /\ task[w].job.op = "transfer" /\ task[w].job.mode = "move"
         /\ Carries(w) /\ task'[w].pc = "update"
         /\ task'[w].ok => task'[w].pin = task[w].pin
         /\ \/ Deletes(task[w].job.who, Employee(w).home, Source(w))
            \/ UNCHANGED <<users, harmed>> /\ ~task'[w].ok
         /\ task'[w].ok => UNCHANGED excuses
         /\ ~task'[w].ok => "failure" \in excuses'
<1> DEFINE t == task[w]
<1>1. /\ t.pc = "remove" /\ t \in Task /\ t.pc \in Migrating
      /\ t.job.op = "transfer" /\ t.job.mode = "move"
  BY AtWork DEF RemoveSource, Migrating, Loading, Placed
<1>2. PICK ok \in BOOLEAN :
        /\ task' = [task EXCEPT ![w] = Migrated(t, ok)]
        /\ \/ Deletes(t.job.who, Employee(w).home, Source(w))
           \/ UNCHANGED <<users, harmed>> /\ ~ok
        /\ ok => UNCHANGED excuses
        /\ ~ok => "failure" \in excuses'
  BY DEF RemoveSource, Source, Fail, Mishap
<1>3. QED
  BY <1>1, <1>2, MigratedGoes DEF FailedMigration

(* A deletion is made, queued, or limited to the templates.                *)
LEMMA WipeGoes ==
  ASSUME TypeOK, NEW w \in Worker, Placed(w), Wipe(w)
  PROVE  LET t == task[w]
             s == task'[w]
         IN  /\ t.pc = "wipe" /\ task' \in [Worker -> Task] /\ Others(w)
             /\ Carries(w) /\ s.ok = t.ok
             /\ \E x \in t.todo :
                  /\ x[1] \in Reader /\ x[2] \in Pin
                  /\ s.todo = t.todo \ {x}
                  /\ s.pc = IF t.todo = {x} THEN "update" ELSE "wipe"
                  /\ \/ /\ t.job.printsOnly
                        /\ UNCHANGED <<users, commands, excuses, harmed>>
                     \/ /\ ~t.job.printsOnly
                        /\ Deletes(t.job.who, x[1], x[2])
                        /\ UNCHANGED commands
                        /\ Excused("guess", WrongGuess(Employee(w), t.job.who,
                                                       x[1], x[2]))
                     \/ /\ ~t.job.printsOnly
                        /\ \/ Deletes(t.job.who, x[1], x[2])
                           \/ UNCHANGED <<users, harmed>>
                        /\ commands' \in [Reader -> Seq(Command)]
                        /\ "failure" \in excuses'
<1> DEFINE t == task[w]
<1>1. t.pc = "wipe" /\ t \in Task
  BY AtWork DEF Wipe, Loading
<1>2. t.todo \in SUBSET (Reader \X Pin)
  BY <1>1 DEF Task
<1> DEFINE queued(x) == [kind |-> "wipe", pin |-> x[2]]
           next(x) == [task EXCEPT ![w].pc = IF t.todo = {x} THEN "update" ELSE @,
                                   ![w].todo = @ \ {x}]
<1>3. PICK x \in t.todo :
        /\ task' = next(x)
        /\ known' = IF t.job.printsOnly THEN known
                    ELSE [known EXCEPT ![x[2]] = NoName]
        /\ \/ /\ t.job.printsOnly
              /\ UNCHANGED <<users, commands, failures, excuses, harmed>>
           \/ /\ ~t.job.printsOnly
              /\ Deletes(t.job.who, x[1], x[2])
              /\ Excused("guess", WrongGuess(Employee(w), t.job.who, x[1], x[2]))
              /\ UNCHANGED <<commands, failures>>
           \/ /\ ~t.job.printsOnly
              /\ \/ Deletes(t.job.who, x[1], x[2])
                 \/ UNCHANGED <<users, harmed>>
              /\ commands' = [commands EXCEPT
                                ![x[1]] = @ \o <<queued(x), queued(x)>>]
              /\ Fail
  BY DEF Wipe
<1>4. x[1] \in Reader /\ x[2] \in Pin
  BY <1>2
<1>5. ASSUME commands' = [commands EXCEPT
                            ![x[1]] = @ \o <<queued(x), queued(x)>>]
      PROVE  commands' \in [Reader -> Seq(Command)]
  <2>1. queued(x) \in Command
    BY <1>4 DEF Command
  <2>2. <<queued(x), queued(x)>> \in Seq(Command)
    BY <2>1
  <2> HIDE DEF queued
  <2>3. commands[x[1]] \o <<queued(x), queued(x)>> \in Seq(Command)
    BY <1>4, <2>2, ConcatProperties DEF TypeOK, ReadersTypeOK
  <2>4. commands' \in [Reader -> Seq(Command)]
    BY <1>4, <1>5, <2>3 DEF TypeOK, ReadersTypeOK
  <2>5. QED
    BY <2>4
<1> DEFINE pc == IF t.todo = {x} THEN "update" ELSE "wipe"
           todo == t.todo \ {x}
           s == [t EXCEPT !.pc = pc, !.todo = todo]
<1>6. task' = [task EXCEPT ![w] = s]
  BY <1>1, <1>3 DEF TypeOK
<1>7. pc \in {"update", "wipe"} /\ todo \in SUBSET (Reader \X Pin)
  BY <1>2
<1> HIDE DEF pc, todo
<1>8. /\ s \in Task /\ s.pc = pc /\ s.todo = todo /\ s.job = t.job
      /\ s.list = t.list /\ s.outer = t.outer /\ s.ok = t.ok
  BY <1>1, <1>7 DEF Task
<1> HIDE DEF s
<1>9. task' \in [Worker -> Task] /\ task'[w] = s /\ Others(w)
  BY <1>6, <1>8, TaskStep
<1>10. \/ /\ t.job.printsOnly
          /\ UNCHANGED <<users, commands, excuses, harmed>>
       \/ /\ ~t.job.printsOnly
          /\ Deletes(t.job.who, x[1], x[2])
          /\ UNCHANGED commands
          /\ Excused("guess", WrongGuess(Employee(w), t.job.who, x[1], x[2]))
       \/ /\ ~t.job.printsOnly
          /\ \/ Deletes(t.job.who, x[1], x[2])
             \/ UNCHANGED <<users, harmed>>
          /\ commands' \in [Reader -> Seq(Command)]
          /\ "failure" \in excuses'
  BY <1>3, <1>5 DEF Fail, Mishap
<1> HIDE DEF next, queued
<1>11. QED
  BY <1>1, <1>4, <1>8, <1>9, <1>10 DEF Carries, pc, todo

(* A changed record is a record, and only a removal leaves none.           *)
LEMMA ChangedIsRecord ==
  ASSUME NEW t \in Task, NEW emp \in Record, t.job \in Request,
         t.job.op \in {"transfer", "grant", "revoke", "fire"}
  PROVE  Changed(t, emp) \in Record
<1>0. 0 \in 0..MaxPin
  BY ReadersAssumption
<1>1. CASE t.job.op = "transfer"
  <2>1. t.job.to \in Reader /\ t.pin \in 0..MaxPin
    BY <1>1, JobTypes DEF Task
  <2> DEFINE access == [r \in Reader |->
                          IF r = t.job.to THEN t.pin
                          ELSE IF r = emp.home /\ t.job.mode = "move" THEN 0
                          ELSE emp.access[r]]
  <2>2. access \in [Reader -> 0..MaxPin]
    BY <1>0, <2>1 DEF Record
  <2>3. Changed(t, emp) = [emp EXCEPT !.home = t.job.to,
                                      !.access = IF ~t.ok THEN emp.access
                                                 ELSE access]
    BY <1>1 DEF Changed, Transferred
  <2> HIDE DEF access
  <2>4. QED
    BY <2>1, <2>2, <2>3 DEF Record, Branch
<1>2. CASE t.job.op = "grant"
  <2>1. t.job.to \in Reader
    BY <1>2, JobTypes
  <2>2. QED
    BY <1>2, <2>1 DEF Changed, Granted, Record, Task
<1>3. CASE t.job.op = "revoke"
  <2>1. t.job.at \in Reader
    BY <1>3, JobTypes
  <2>2. QED
    BY <1>0, <1>3, <2>1 DEF Changed, Revoked, Record
<1>4. CASE t.job.op = "fire"
  <2>1. t.job.at \in Reader \cup {Nowhere}
    BY <1>4, JobTypes
  <2>2. [r \in Reader |-> 0] \in [Reader -> 0..MaxPin]
    BY <1>0
  <2>3. CASE t.job.action = "fire_all"
    BY <1>4, <2>2, <2>3 DEF Changed, Offboarded, Record
  <2>4. CASE t.job.action # "fire_all" /\ t.job.at # Nowhere
    BY <1>0, <1>4, <2>1, <2>4 DEF Changed, Offboarded, Record
  <2>5. CASE t.job.action # "fire_all" /\ t.job.at = Nowhere
    BY <1>4, <2>5 DEF Changed, Offboarded
  <2>6. QED
    BY <2>3, <2>4, <2>5
<1>5. QED
  BY <1>1, <1>2, <1>3, <1>4

(* The list with the record of the request changed.                        *)
Rewritten(w) ==
  [Listed(task[w].list) EXCEPT
     ![task[w].job.who] = Changed(task[w], Employee(w))]

InPlace(w) == task[w].list = Shared /\ task[w].job.op # "drop"

(* The record changes, in the stock list itself if that is what the thread *)
(* has loaded, and the file is opened.                                     *)
LEMMA UpdateGoes ==
  ASSUME TypeOK, NEW w \in Worker, Placed(w), Update(w)
  PROVE  LET t == task[w]
             s == task'[w]
             new == Changed(t, Employee(w))
         IN  /\ t.pc = "update" /\ task' \in [Worker -> Task] /\ Others(w)
             /\ s.pc = "write" /\ s.job = t.job /\ s.outer = t.outer
             /\ s.ok = t.ok /\ s.pin = t.pin
             /\ file' = Truncated /\ Rewritten(w) \in Directory
             /\ t.job.op # "drop" => new \in Record
             /\ t.job.op = "drop" => new = NoRecord
             /\ stock' = IF InPlace(w) THEN Rewritten(w) ELSE stock
             /\ s.list = IF InPlace(w) THEN Shared ELSE Rewritten(w)
             /\ Listed(task[w].list)' = Rewritten(w)
<1> DEFINE t == task[w]
           new == Changed(t, Employee(w))
           list == IF InPlace(w) THEN Shared ELSE Rewritten(w)
           s == [t EXCEPT !.pc = "write", !.list = list]
<1>1. /\ t.pc = "update" /\ t \in Task /\ t.job \in Request \cup Removal
      /\ t.job.who \in Person /\ Listed(t.list) \in Directory
      /\ t.job.op # "drop" => Employee(w) \in Record
      /\ t.job.op \notin {"list", "delete"}
  BY AtWork DEF Update, Loading, Working, Placed
<1>2. ASSUME t.job.op # "drop"
      PROVE  new \in Record
  BY <1>1, <1>2, JobTypes, ChangedIsRecord
<1>3. ASSUME t.job.op = "drop"
      PROVE  new = NoRecord
  BY <1>3 DEF Changed
<1>4. Rewritten(w) \in Directory
  BY <1>1, <1>2, <1>3 DEF Rewritten, Directory
<1>5. /\ task' = [task EXCEPT ![w].pc = "write", ![w].list = list]
      /\ stock' = IF InPlace(w) THEN Rewritten(w) ELSE stock
      /\ file' = Truncated
  BY DEF Update, InPlace, Rewritten
<1>6. task' = [task EXCEPT ![w] = s]
  BY <1>1, <1>5 DEF TypeOK
<1>7. /\ s \in Task /\ s.pc = "write" /\ s.list = list /\ s.job = t.job
      /\ s.outer = t.outer /\ s.ok = t.ok /\ s.pin = t.pin
  <2>1. list \in Directory \cup {Shared}
    BY <1>4
  <2> HIDE DEF list
  <2>2. QED
    BY <1>1, <2>1 DEF Task
<1> HIDE DEF s
<1>8. task' \in [Worker -> Task] /\ task'[w] = s /\ Others(w)
  BY <1>6, <1>7, TaskStep
<1>9. Listed(task[w].list)' = Rewritten(w)
  BY <1>4, <1>5, <1>7, <1>8, Sentinels DEF Listed
<1>10. QED
  BY <1>1, <1>2, <1>3, <1>4, <1>5, <1>7, <1>8, <1>9

(* The list is written, or something else; the request has an answer.      *)
LEMMA WriteGoes ==
  ASSUME TypeOK, NEW w \in Worker, Placed(w), Write(w)
  PROVE  LET t == task[w]
         IN  /\ t.pc = "write" /\ task' \in [Worker -> Task] /\ Others(w)
             /\ task'[w] = Return(t) /\ Listed(t.list) \in Directory
             /\ t.job.who \in Person
             /\ dismissed' = IF \/ t.job.op = "drop"
                                \/ t.job.op = "fire" /\ t.job.action = "fire_all"
                               THEN dismissed \cup {t.job.who} ELSE dismissed
<1>1. /\ task[w].pc = "write" /\ task' = [task EXCEPT ![w] = Return(task[w])]
      /\ dismissed' = IF \/ task[w].job.op = "drop"
                         \/ task[w].job.op = "fire" /\ task[w].job.action = "fire_all"
                        THEN dismissed \cup {task[w].job.who} ELSE dismissed
  BY DEF Write
<1>2. /\ task[w] \in Task /\ task[w].job.who \in Person
      /\ Listed(task[w].list) \in Directory
  BY <1>1, AtWork DEF Loading
<1>3. Return(task[w]) \in Task
  BY <1>2, ReturnGoes
<1>4. QED
  BY <1>1, <1>2, <1>3, TaskStep

-----------------------------------------------------------------------------
(* Type correctness                                                        *)

(* A mishap is counted and excused.                                        *)
LEMMA MishapTypes ==
  ASSUME TypeOK, NEW why \in Excuse, Mishap(why)
  PROVE  failures' \in 0..MaxFailures /\ excuses' \subseteq Excuse
BY DirectoryAssumption DEF TypeOK, Mishap

(* What save_employees leaves in the file.                                 *)
LEMMA DumpTypes ==
  ASSUME TypeOK, NEW dir \in Directory, Dump(dir)
  PROVE  /\ file' \in Directory \cup {Absent, Truncated, Garbled}
         /\ failures' \in 0..MaxFailures /\ excuses' \subseteq Excuse
         /\ \/ file' = dir /\ UNCHANGED excuses
            \/ file # Truncated /\ file' = Garbled /\ UNCHANGED excuses
            \/ file' = Garbled /\ "failure" \in excuses'
<1>1. CASE Fail /\ file' = Garbled
  BY <1>1, MishapTypes DEF Fail, Excuse, Mishap
<1>2. CASE ~(Fail /\ file' = Garbled)
  BY <1>2 DEF Dump, TypeOK
<1>3. QED
  BY <1>1, <1>2

(* Deleting a profile keeps the types.                                     *)
LEMMA DeletesTypes ==
  ASSUME TypeOK, NEW e \in Person, NEW r \in Reader, NEW p \in Pin,
         Deletes(e, r, p)
  PROVE  /\ users' \in [Reader -> [Pin -> Profile \cup {NoUser}]]
         /\ harmed' \subseteq Person
<1>1. users' \in [Reader -> [Pin -> Profile \cup {NoUser}]]
  BY DropTypes DEF Deletes, TypeOK
<1>2. users[r][p] # NoUser => users[r][p].who \in Person
  BY DEF TypeOK, ReadersTypeOK, Profile
<1>3. QED
  BY <1>1, <1>2 DEF Deletes, TypeOK

(* The places that leave the list are places.                              *)
LEMMA OrphanedTypes ==
  ASSUME NEW t \in Task, t.job.who \in Person,
         NEW emp \in Record \cup {NoRecord}, NEW new
  PROVE  Orphaned(t, emp, new) \subseteq Person \X Reader \X Pin
<1> DEFINE had == IF emp = NoRecord THEN {}
                  ELSE {r \in Reader : emp.access[r] # 0}
<1>1. ASSUME NEW r \in had
      PROVE  r \in Reader /\ emp.access[r] \in Pin
  BY <1>1, ReadersAssumption DEF Record, Pin
<1>2. ASSUME NEW x \in Orphaned(t, emp, new)
      PROVE  \E r \in had : x = <<t.job.who, r, emp.access[r]>>
  BY <1>2 DEF Orphaned
<1> HIDE DEF had
<1>3. QED
  BY <1>1, <1>2

(* A step keeps the types.                                                 *)
LEMMA TypeStep ==
  ASSUME Structure, [Next]_vars
  PROVE  TypeOK'
<1> USE DEF Structure
<1>0. TypeOK
  OBVIOUS
<1>1. ASSUME NEW w \in Worker, Start(w)
      PROVE  TypeOK'
  <2>1. task' \in [Worker -> Task]
    BY <1>1, StartGoes
  <2>2. requests' \in 0..MaxEvents
    <3>1. /\ requests' = requests + 1 /\ requests + failures < MaxEvents
          /\ requests \in Nat /\ failures \in Nat /\ MaxEvents \in Nat
      BY <1>1, DirectoryAssumption DEF Start, TypeOK
    <3>2. QED
      BY <3>1
  <2>3. excuses' \subseteq Excuse
    BY <1>1 DEF Start, TypeOK, Excuse
  <2>4. QED
    BY <1>1, <2>1, <2>2, <2>3
    DEF Start, TypeOK, ReadersTypeOK, readerVars, readerHistory
<1>2. ASSUME NEW w \in Worker, Load(w)
      PROVE  TypeOK'
  <2>1. /\ task' \in [Worker -> Task]
        /\ file' \in Directory \cup {Absent, Truncated, Garbled}
    BY <1>2, LoadGoes
  <2>2. excuses' \subseteq Excuse
    BY <1>2 DEF Load, TypeOK, Excused, Excuse
  <2>3. QED
    BY <1>2, <2>1, <2>2 DEF Load, TypeOK, ReadersTypeOK, quiet, readerHistory
<1>3. ASSUME NEW w \in Worker, Restore(w)
      PROVE  TypeOK'
  <2>1. task' \in [Worker -> Task]
    BY <1>3, RestoreGoes
  <2>2. /\ file' \in Directory \cup {Absent, Truncated, Garbled}
        /\ failures' \in 0..MaxFailures /\ excuses' \subseteq Excuse
    BY <1>3, DumpTypes DEF Restore, TypeOK
  <2>3. QED
    BY <1>3, <2>1, <2>2 DEF Restore, TypeOK, ReadersTypeOK, quiet, readerHistory
<1>4. ASSUME NEW w \in Worker, Resolve(w)
      PROVE  TypeOK'
  <2>1. task' \in [Worker -> Task]
    BY <1>4, ResolveGoes
  <2>2. failures' \in 0..MaxFailures /\ excuses' \subseteq Excuse
    <3>1. CASE Fail
      BY <3>1, MishapTypes DEF Fail, Excuse
    <3>2. CASE ~Fail
      BY <1>4, <3>2 DEF Resolve, TypeOK, Excused, Excuse
    <3>3. QED
      BY <3>1, <3>2
  <2>3. QED
    BY <1>4, <2>1, <2>2 DEF Resolve, TypeOK, ReadersTypeOK, quiet, readerHistory
<1>5. ASSUME NEW w \in Worker, Migrate(w)
      PROVE  TypeOK'
  <2>1. /\ task' \in [Worker -> Task] /\ pushed' = pushed
        /\ \/ UNCHANGED <<users, held, replaced>>
           \/ /\ Copied(w) # NoUser /\ Place(w) \in Pin
              /\ Put(task[w].job.to, Place(w), Copy(w), "session")
    BY <1>5, MigrateGoes
  <2>2. task[w].job.to \in Reader /\ (Copied(w) # NoUser => Copy(w) \in Profile)
    BY <1>5, Migration DEF Migrate, Migrating
  <2>3. /\ users' \in [Reader -> [Pin -> Profile \cup {NoUser}]]
        /\ held' \subseteq Person \X Reader \X Pin
        /\ replaced' \subseteq Replacement
    <3>1. CASE UNCHANGED <<users, held, replaced>>
      BY <3>1 DEF TypeOK, ReadersTypeOK
    <3>2. CASE ~UNCHANGED <<users, held, replaced>>
      BY <2>1, <2>2, <3>2, PutTypes DEF TypeOK
    <3>3. QED
      BY <3>1, <3>2
  <2>4. failures' \in 0..MaxFailures /\ excuses' \subseteq Excuse
    <3>1. CASE Fail
      BY <3>1, MishapTypes DEF Fail, Excuse
    <3>2. CASE ~Fail
      BY <1>5, <3>2 DEF Migrate, TypeOK, Excuse
    <3>3. QED
      BY <3>1, <3>2
  <2>5. UNCHANGED <<commands, file, stock, known, harmed, orphans, quiet>>
    BY <1>5 DEF Migrate
  <2>6. QED
    BY <2>1, <2>3, <2>4, <2>5 DEF TypeOK, ReadersTypeOK, quiet
<1>6. ASSUME NEW w \in Worker, RemoveSource(w)
      PROVE  TypeOK'
  <2>1. /\ task' \in [Worker -> Task]
        /\ \/ Deletes(task[w].job.who, Employee(w).home, Source(w))
           \/ UNCHANGED <<users, harmed>>
    BY <1>6, RemoveGoes
  <2>2. /\ task[w].job.who \in Person /\ Employee(w).home \in Reader
        /\ Source(w) \in Pin
    BY <1>6, Migration DEF RemoveSource, Migrating
  <2>3. /\ users' \in [Reader -> [Pin -> Profile \cup {NoUser}]]
        /\ harmed' \subseteq Person
    BY <2>1, <2>2, DeletesTypes DEF TypeOK, ReadersTypeOK
  <2>4. failures' \in 0..MaxFailures /\ excuses' \subseteq Excuse
    <3>1. CASE Fail
      BY <3>1, MishapTypes DEF Fail, Excuse
    <3>2. CASE ~Fail
      BY <1>6, <3>2 DEF RemoveSource, TypeOK
    <3>3. QED
      BY <3>1, <3>2
  <2>5. QED
    BY <1>6, <2>1, <2>3, <2>4
    DEF RemoveSource, TypeOK, ReadersTypeOK, quiet, readerHistory
<1>7. ASSUME NEW w \in Worker, Wipe(w)
      PROVE  TypeOK'
  <2>1. task[w].job.who \in Person
    BY <1>7, AtWork DEF Wipe, Loading
  <2>2. /\ task' \in [Worker -> Task]
        /\ \E x \in task[w].todo :
             /\ x[1] \in Reader /\ x[2] \in Pin
             /\ \/ Deletes(task[w].job.who, x[1], x[2])
                \/ UNCHANGED <<users, harmed>>
             /\ commands' \in [Reader -> Seq(Command)]
    BY <1>7, WipeGoes DEF TypeOK, ReadersTypeOK
  <2>3. /\ users' \in [Reader -> [Pin -> Profile \cup {NoUser}]]
        /\ harmed' \subseteq Person
        /\ commands' \in [Reader -> Seq(Command)]
    BY <2>1, <2>2, DeletesTypes DEF TypeOK, ReadersTypeOK
  <2>4. failures' \in 0..MaxFailures /\ excuses' \subseteq Excuse
    <3>1. CASE Fail
      BY <3>1, MishapTypes DEF Fail, Excuse
    <3>2. CASE ~Fail
      BY <1>7, <3>2 DEF Wipe, TypeOK, Excused, Excuse
    <3>3. QED
      BY <3>1, <3>2
  <2>5. known' \in [Pin -> Person \cup {NoName}]
    BY <1>7 DEF Wipe, TypeOK
  <2>6. QED
    BY <1>7, <2>2, <2>3, <2>4, <2>5
    DEF Wipe, TypeOK, ReadersTypeOK, quiet, readerHistory
<1>8. ASSUME NEW w \in Worker, Update(w)
      PROVE  TypeOK'
  <2>1. /\ task' \in [Worker -> Task] /\ file' = Truncated /\ stock' \in Directory
    BY <1>8, UpdateGoes DEF TypeOK
  <2>2. /\ task[w] \in Task /\ task[w].job.who \in Person
        /\ Employee(w) \in Record \cup {NoRecord}
    BY <1>8, AtWork DEF Update, Loading
  <2>3. orphans' \subseteq Person \X Reader \X Pin
    BY <1>8, <2>2, OrphanedTypes DEF Update, TypeOK
  <2>4. QED
    BY <1>8, <2>1, <2>3
    DEF Update, TypeOK, ReadersTypeOK, quiet, readerHistory
<1>9. ASSUME NEW w \in Worker, Write(w)
      PROVE  TypeOK'
  <2>1. /\ task' \in [Worker -> Task] /\ Listed(task[w].list) \in Directory
        /\ dismissed' \subseteq Person
    BY <1>9, WriteGoes DEF TypeOK
  <2>2. /\ file' \in Directory \cup {Absent, Truncated, Garbled}
        /\ failures' \in 0..MaxFailures /\ excuses' \subseteq Excuse
    BY <1>9, <2>1, DumpTypes DEF Write
  <2>3. QED
    BY <1>9, <2>1, <2>2
    DEF Write, TypeOK, ReadersTypeOK, readerVars, readerHistory
<1>10. ASSUME NEW r \in Reader, LearnNames(r)
       PROVE  TypeOK'
  <2>1. known' \in [Pin -> Person \cup {NoName}]
    BY <1>10 DEF LearnNames, TypeOK
  <2>2. QED
    BY <1>10, <2>1
    DEF LearnNames, TypeOK, ReadersTypeOK, quiet, readerHistory
<1>11. ASSUME NEW r \in Reader, ReaderPolls(r)
       PROVE  TypeOK'
  <2>1. ReadersTypeOK'
    BY <1>11, PollTypes DEF ReaderPolls, TypeOK
  <2>2. QED
    BY <1>11, <2>1 DEF ReaderPolls, TypeOK
<1>12. ASSUME Kill
       PROVE  TypeOK'
  <2>1. task' \in [Worker -> Task] /\ stock' \in Directory
    BY <1>12, IdleIsTask, DirectoryAssumption DEF Kill
  <2>2. failures' \in 0..MaxFailures /\ excuses' \subseteq Excuse
    BY <1>12, MishapTypes DEF Kill, Excuse
  <2>3. commands' \in [Reader -> Seq(Command)]
    BY <1>12 DEF Kill
  <2>4. QED
    BY <1>12, <2>1, <2>2, <2>3
    DEF Kill, TypeOK, ReadersTypeOK, quiet, readerHistory
<1>13. ASSUME UNCHANGED vars
       PROVE  TypeOK'
  BY <1>13 DEF vars, TypeOK, ReadersTypeOK, readerVars, readerHistory
<1>14. QED
  BY <1>1, <1>2, <1>3, <1>4, <1>5, <1>6, <1>7, <1>8, <1>9, <1>10, <1>11,
     <1>12, <1>13 DEF Next

-----------------------------------------------------------------------------
(* Each thread is where it should be                                       *)

(* A thread that rests is placed.                                          *)
LEMMA IdlePlaced ==
  ASSUME NEW w \in Worker, task'[w] = Idle
  PROVE  Placed(w)'
BY DEF Placed, Idle, Loading, Migrating, Working, NoRequest

(* A thread whose call returns is placed.                                  *)
LEMMA ReturnPlaced ==
  ASSUME TypeOK, NEW w \in Worker, Placed(w), task[w].pc # "idle",
         task'[w] = Return(task[w])
  PROVE  Placed(w)'
<1> DEFINE t == task[w]
           s == task'[w]
<1>1. t \in Task /\ t.job.who \in Person
  BY HasJob, JobTypes
<1>2. CASE t.outer = NoList
  BY <1>1, <1>2, ReturnGoes, IdlePlaced
<1>3. CASE t.outer # NoList
  <2>1. /\ s.pc = "update" /\ s.list # NoList /\ s.outer = NoList /\ s.ok = FALSE
        /\ s.job = [op |-> "drop", who |-> t.job.who, wipe |-> TRUE]
    BY <1>1, <1>3, ReturnGoes
  <2>2. s.job.op = "drop" /\ s.job # NoRequest
    BY <2>1 DEF NoRequest
  <2>3. QED
    BY <2>1, <2>2 DEF Placed, Loading, Migrating, Working
<1>4. QED
  BY <1>2, <1>3

(* A thread that begins its request is placed.                             *)
LEMMA BeginPlaced ==
  ASSUME TypeOK, NEW w \in Worker, Placed(w), task[w].pc \in Loading,
         NEW list \in Directory \cup {Shared}, Begins(w, list, task'[w]),
         UNCHANGED stock
  PROVE  Placed(w)'
<1> DEFINE t == task[w]
           s == task'[w]
           e == t.job.who
<1>1. /\ t \in Task /\ t.job \in Request /\ t.job # NoRequest
      /\ t.job.op \in {"transfer", "grant", "revoke", "fire", "delete", "list"}
  BY HasJob, JobTypes DEF Placed, Loading
<1>2. list # NoList
  BY Sentinels
<1>3. CASE s = Return(t)
  BY <1>3, ReturnPlaced DEF Loading
<1>4. CASE s = Idle
  BY <1>4, IdlePlaced
<1>5. CASE /\ s.job = t.job /\ s.outer = t.outer /\ s.list = list /\ ~s.ok
           /\ Listed(list)[e] # NoRecord
           /\ \/ t.job.op = "transfer" /\ s.pc = "update"
              \/ t.job.op \in {"transfer", "grant"} /\ s.pc = "resolve"
              \/ t.job.op \in {"revoke", "fire"} /\ s.pc = "wipe" /\ s.todo # {}
  <2>1. Employee(w)' = Listed(list)[e]
    BY <1>5 DEF Employee, Listed
  <2>2. QED
    BY <1>1, <1>2, <1>5, <2>1 DEF Placed, Loading, Migrating, Working
<1>6. CASE /\ t.job.op = "delete" /\ s.pc = "load" /\ ~s.ok
           /\ s.job = Dismissal(e)
  <2>1. /\ s.job.op = "fire" /\ s.job # NoRequest
        /\ s.job.action = "fire_all" /\ ~s.job.printsOnly
    BY <1>6 DEF Dismissal, NoRequest
  <2>2. QED
    BY <1>6, <2>1 DEF Placed, Loading, Migrating, Working
<1>7. CASE /\ t.job.op = "delete" /\ s.pc = "update" /\ ~s.ok
           /\ s.outer = t.outer /\ s.list = list
           /\ s.job = [op |-> "drop", who |-> e, wipe |-> FALSE]
  <2>1. s.job.op = "drop" /\ s.job # NoRequest /\ s.outer = NoList
    BY <1>7 DEF NoRequest, Placed
  <2>2. QED
    BY <1>2, <1>7, <2>1 DEF Placed, Loading, Migrating, Working
<1>8. QED
  BY <1>1, <1>3, <1>4, <1>5, <1>6, <1>7 DEF Begins, Targets

(* A thread that takes no step stays placed, even if the stock list it     *)
(* works on changes.                                                       *)
LEMMA OthersPlaced ==
  ASSUME TypeOK, NEW v \in Worker, Placed(v), task'[v] = task[v],
         \A e \in Person : stock[e] # NoRecord => stock'[e] # NoRecord
  PROVE  Placed(v)'
<1>1. CASE task[v].pc \in Working /\ task[v].job.op # "drop"
  <2>1. task[v].job.who \in Person /\ Employee(v) # NoRecord
    BY <1>1, AtWork DEF Working, Migrating, Loading, Placed
  <2>2. Employee(v)' # NoRecord
    BY <2>1 DEF Employee, Listed
  <2>3. QED
    BY <2>2 DEF Placed
<1>2. CASE ~(task[v].pc \in Working /\ task[v].job.op # "drop")
  BY <1>2 DEF Placed
<1>3. QED
  BY <1>1, <1>2

(* After a migration a thread is placed.                                   *)
LEMMA MigratedPlaced ==
  ASSUME TypeOK, NEW w \in Worker, Placed(w), task[w].pc \in Migrating,
         task[w].pc \in {"migrate", "remove"}, UNCHANGED stock,
         \/ FailedMigration(w)
         \/ Copies(w)
         \/ /\ Carries(w) /\ task'[w].pc = "update"
            /\ task[w].job.op = "transfer"
            /\ task'[w].ok => task'[w].pin = task[w].pin
  PROVE  Placed(w)'
<1>1. CASE task'[w] = Idle
  BY <1>1, IdlePlaced
<1>2. CASE Carries(w)
  <2>1. Employee(w)' = Employee(w)
    BY <1>2 DEF Employee, Listed, Carries
  <2>2. QED
    BY <1>2, <2>1
    DEF Placed, Carries, Copies, FailedMigration, Loading, Migrating, Working,
        Idle
<1>3. QED
  BY <1>1, <1>2 DEF FailedMigration, Copies

(* A step leaves every thread placed.                                      *)
LEMMA PlacedStep ==
  ASSUME Structure, [Next]_vars
  PROVE  \A w \in Worker : Placed(w)'
<1> USE DEF Structure
<1>1. ASSUME NEW w \in Worker, Others(w), Placed(w)',
             \A e \in Person : stock[e] # NoRecord => stock'[e] # NoRecord
      PROVE  \A v \in Worker : Placed(v)'
  <2>1. ASSUME NEW v \in Worker, v # w
        PROVE  Placed(v)'
    BY <1>1, <2>1, OthersPlaced DEF Others
  <2>2. QED
    BY <1>1, <2>1
<1>2. ASSUME UNCHANGED <<task, stock>>
      PROVE  \A v \in Worker : Placed(v)'
  BY <1>2, OthersPlaced
<1>3. ASSUME NEW w \in Worker, Start(w)
      PROVE  Others(w) /\ Placed(w)' /\ UNCHANGED stock
  <2>1. /\ Others(w) /\ task'[w].pc = "load" /\ task'[w].outer = NoList
        /\ task'[w].job \in Request /\ ~task'[w].ok
    BY <1>3, StartGoes
  <2>2. task'[w].job # NoRequest /\ task'[w].job.op # "drop"
    BY <2>1, JobTypes, NotNoRequest
  <2>3. QED
    BY <1>3, <2>1, <2>2 DEF Start, Placed, Loading, Migrating, Working
<1>4. ASSUME NEW w \in Worker, Load(w)
      PROVE  Others(w) /\ Placed(w)' /\ UNCHANGED stock
  <2>1. UNCHANGED stock
    BY <1>4 DEF Load
  <2>2. CASE file \in Directory /\ Begins(w, file, task'[w])
    BY <1>4, <2>1, <2>2, LoadGoes, BeginPlaced DEF Loading
  <2>3. CASE task'[w].pc = "restore" /\ Carries(w) /\ task'[w].ok = task[w].ok
    BY <1>4, <2>1, <2>3, LoadGoes DEF Placed, Carries, Loading, Migrating, Working
  <2>4. QED
    BY <1>4, <2>1, <2>2, <2>3, LoadGoes
<1>5. ASSUME NEW w \in Worker, Restore(w)
      PROVE  Others(w) /\ Placed(w)' /\ UNCHANGED stock
  <2>1. UNCHANGED stock
    BY <1>5 DEF Restore
  <2>2. QED
    BY <1>5, <2>1, RestoreGoes, BeginPlaced DEF Loading
<1>6. ASSUME NEW w \in Worker, Resolve(w)
      PROVE  Others(w) /\ Placed(w)' /\ UNCHANGED stock
  <2>1. UNCHANGED stock
    BY <1>6 DEF Resolve
  <2>2. /\ task[w].pc = "resolve" /\ task'[w].pc = "migrate" /\ Carries(w)
        /\ task'[w].ok = task[w].ok /\ task'[w].pin \in Pin /\ Others(w)
    BY <1>6, ResolveGoes
  <2>3. Employee(w)' = Employee(w)
    BY <2>1, <2>2 DEF Employee, Listed, Carries
  <2>4. QED
    BY <2>1, <2>2, <2>3 DEF Placed, Carries, Loading, Migrating, Working
<1>7. ASSUME NEW w \in Worker, Migrate(w)
      PROVE  Others(w) /\ Placed(w)' /\ UNCHANGED stock
  <2>1. UNCHANGED stock
    BY <1>7 DEF Migrate
  <2>2. Others(w) /\ task[w].pc = "migrate" /\ (FailedMigration(w) \/ Copies(w))
    BY <1>7, MigrateGoes
  <2>3. QED
    BY <2>1, <2>2, MigratedPlaced DEF Migrating
<1>8. ASSUME NEW w \in Worker, RemoveSource(w)
      PROVE  Others(w) /\ Placed(w)' /\ UNCHANGED stock
  <2>1. UNCHANGED stock
    BY <1>8 DEF RemoveSource
  <2>2. /\ Others(w) /\ task[w].pc = "remove" /\ task[w].job.op = "transfer"
        /\ Carries(w) /\ task'[w].pc = "update"
        /\ task'[w].ok => task'[w].pin = task[w].pin
    BY <1>8, RemoveGoes
  <2>3. QED
    BY <2>1, <2>2, MigratedPlaced DEF Migrating
<1>9. ASSUME NEW w \in Worker, Wipe(w)
      PROVE  Others(w) /\ Placed(w)' /\ UNCHANGED stock
  <2>1. UNCHANGED stock
    BY <1>9 DEF Wipe
  <2>2. PICK x \in task[w].todo :
          /\ task'[w].todo = task[w].todo \ {x}
          /\ task'[w].pc = IF task[w].todo = {x} THEN "update" ELSE "wipe"
    BY <1>9, WipeGoes
  <2>3. /\ task[w].pc = "wipe" /\ Carries(w) /\ task'[w].ok = task[w].ok
        /\ Others(w)
    BY <1>9, WipeGoes
  <2>4. Employee(w)' = Employee(w)
    BY <2>1, <2>3 DEF Employee, Listed, Carries
  <2>5. task'[w].pc \in {"update", "wipe"}
        /\ (task'[w].pc = "wipe" => task'[w].todo # {})
    BY <2>2
  <2>6. QED
    BY <2>1, <2>3, <2>4, <2>5 DEF Placed, Carries, Loading, Migrating, Working
<1>10. ASSUME NEW w \in Worker, Update(w)
       PROVE  /\ Others(w) /\ Placed(w)'
              /\ \A e \in Person : stock[e] # NoRecord => stock'[e] # NoRecord
  <2> DEFINE t == task[w]
             s == task'[w]
  <2>1. /\ t.pc = "update" /\ Others(w) /\ s.pc = "write" /\ s.job = t.job
        /\ s.outer = t.outer /\ s.ok = t.ok /\ s.pin = t.pin
        /\ Rewritten(w) \in Directory
        /\ t.job.op # "drop" => Changed(t, Employee(w)) \in Record
        /\ stock' = IF InPlace(w) THEN Rewritten(w) ELSE stock
        /\ s.list = IF InPlace(w) THEN Shared ELSE Rewritten(w)
    BY <1>10, UpdateGoes
  <2>2. Placed(w)'
    BY <2>1, Sentinels DEF Placed, Loading, Migrating, Working
  <2>3. ASSUME InPlace(w), NEW e \in Person, stock[e] # NoRecord
        PROVE  Rewritten(w)[e] # NoRecord
    <3>1. Listed(t.list) = stock /\ Changed(t, Employee(w)) # NoRecord
      BY <2>1, <2>3, DirectoryAssumption DEF InPlace, Listed
    <3>2. QED
      BY <2>3, <3>1 DEF Rewritten, TypeOK, Directory
  <2>4. QED
    BY <2>1, <2>2, <2>3
<1>11. ASSUME NEW w \in Worker, Write(w)
       PROVE  Others(w) /\ Placed(w)' /\ UNCHANGED stock
  <2>1. Others(w) /\ task[w].pc = "write" /\ task'[w] = Return(task[w])
    BY <1>11, WriteGoes
  <2>2. QED
    BY <1>11, <2>1, ReturnPlaced DEF Write
<1>12. ASSUME Kill
       PROVE  \A v \in Worker : Placed(v)'
  BY <1>12, IdlePlaced DEF Kill
<1>13. ASSUME NEW r \in Reader, LearnNames(r) \/ ReaderPolls(r)
       PROVE  UNCHANGED <<task, stock>>
  BY <1>13 DEF LearnNames, ReaderPolls
<1>14. CASE \E w \in Worker :
              \/ Start(w) \/ Load(w) \/ Restore(w) \/ Resolve(w) \/ Migrate(w)
              \/ RemoveSource(w) \/ Wipe(w) \/ Update(w) \/ Write(w)
  BY <1>1, <1>3, <1>4, <1>5, <1>6, <1>7, <1>8, <1>9, <1>10, <1>11, <1>14
<1>15. QED
  BY <1>2, <1>12, <1>13, <1>14 DEF Next, vars

-----------------------------------------------------------------------------
(* Every list names places where somebody was stored                       *)

(* The entries of a list, record by record.                                *)
LEMMA EntriesAre ==
  ASSUME NEW dir \in Directory
  PROVE  /\ \A t \in Entries(dir) :
              /\ t[1] \in Person /\ t[2] \in Reader /\ t[3] \in Pin
              /\ t = <<t[1], t[2], t[3]>>
         /\ \A e \in Person, r \in Reader, p \in Pin :
              <<e, r, p>> \in Entries(dir) <=>
                dir[e] # NoRecord /\ dir[e].access[r] = p
         /\ \A e \in Person, r \in Reader :
              dir[e] # NoRecord /\ dir[e].access[r] # 0 =>
                dir[e].access[r] \in Pin
<1>1. ASSUME NEW e \in Person, NEW r \in Reader, dir[e] # NoRecord,
             dir[e].access[r] # 0
      PROVE  dir[e].access[r] \in Pin
  <2>1. dir[e] \in Record
    BY <1>1 DEF Directory
  <2>2. QED
    BY <1>1, <2>1, ReadersAssumption DEF Record, Pin
<1>2. ASSUME NEW e \in Person, NEW r \in Reader, NEW p \in Pin
      PROVE  <<e, r, p>> \in Entries(dir) <=>
               dir[e] # NoRecord /\ dir[e].access[r] = p
  BY DEF Entries
<1>3. QED
  BY <1>1, <1>2 DEF Entries

(* A list is backed if each of its records is.                             *)
LEMMA BackedIs ==
  ASSUME NEW dir \in Directory, NEW h
  PROVE  Backed(h, dir) <=>
           \A e \in Person, r \in Reader :
             dir[e] # NoRecord /\ dir[e].access[r] # 0 =>
               WasStored(h, r, dir[e].access[r])
<1>1. ASSUME Backed(h, dir), NEW e \in Person, NEW r \in Reader,
             dir[e] # NoRecord, dir[e].access[r] # 0
      PROVE  WasStored(h, r, dir[e].access[r])
  <2>1. <<e, r, dir[e].access[r]>> \in Entries(dir)
    BY <1>1, EntriesAre
  <2>2. QED
    BY <1>1, <2>1 DEF Backed
<1>2. ASSUME \A e \in Person, r \in Reader :
               dir[e] # NoRecord /\ dir[e].access[r] # 0 =>
                 WasStored(h, r, dir[e].access[r]),
             NEW t \in Entries(dir)
      PROVE  WasStored(h, t[2], t[3])
  <2>1. /\ t[1] \in Person /\ t[2] \in Reader /\ t[3] \in Pin
        /\ t = <<t[1], t[2], t[3]>>
    BY EntriesAre
  <2>2. dir[t[1]] # NoRecord /\ dir[t[1]].access[t[2]] = t[3]
    BY <2>1, EntriesAre
  <2>3. t[3] # 0
    BY <2>1, ReadersAssumption DEF Pin
  <2>4. QED
    BY <1>2, <2>1, <2>2, <2>3
<1>3. QED
  BY <1>1, <1>2 DEF Backed

(* What was stored stays recorded.                                         *)
LEMMA BackedGrows ==
  ASSUME NEW h, NEW k, h \subseteq k
  PROVE  /\ \A dir : Backed(h, dir) => Backed(k, dir)
         /\ \A r, p : WasStored(h, r, p) => WasStored(k, r, p)
BY DEF Backed, WasStored

(* A change enters only the PIN of a migration that worked.                *)
LEMMA ChangedEntries ==
  ASSUME NEW t \in Task, NEW emp \in Record, t.job \in Request,
         t.job.op \in {"transfer", "grant", "revoke", "fire"},
         t.job.op = "grant" => t.ok,
         NEW r \in Reader, Changed(t, emp).access[r] # 0
  PROVE  \/ Changed(t, emp).access[r] = emp.access[r]
         \/ /\ t.job.op \in {"transfer", "grant"} /\ t.ok /\ r = t.job.to
            /\ Changed(t, emp).access[r] = t.pin
<1> DEFINE new == Changed(t, emp)
<1>1. CASE t.job.op = "transfer"
  <2>1. ~t.ok => new.access = emp.access
    BY <1>1 DEF Changed, Transferred, Record
  <2>2. t.ok => new.access = [x \in Reader |->
                  IF x = t.job.to THEN t.pin
                  ELSE IF x = emp.home /\ t.job.mode = "move" THEN 0
                  ELSE emp.access[x]]
    BY <1>1 DEF Changed, Transferred, Record
  <2> HIDE DEF new
  <2>3. QED
    BY <1>1, <2>1, <2>2 DEF new
<1>2. CASE t.job.op = "grant"
  <2>1. new.access = [emp.access EXCEPT ![t.job.to] = t.pin]
    BY <1>2 DEF Changed, Granted, Record
  <2> HIDE DEF new
  <2>2. QED
    BY <1>2, <2>1 DEF new, Record
<1>3. CASE t.job.op = "revoke"
  BY <1>3, JobTypes DEF Changed, Revoked, Record
<1>4. CASE t.job.op = "fire"
  BY <1>4, JobTypes DEF Changed, Offboarded, Record
<1>5. QED
  BY <1>1, <1>2, <1>3, <1>4

(* The readers' history only grows, and what they store is in it.          *)
LEMMA HistoryStep ==
  ASSUME Structure, [Next]_vars
  PROVE  held \subseteq held' /\ (Recorded => Recorded')
<1> USE DEF Structure
<1>1. CASE UNCHANGED <<users, held>>
  BY <1>1 DEF Recorded
<1>2. ASSUME NEW w \in Worker, Migrate(w), ~UNCHANGED <<users, held>>
      PROVE  held \subseteq held' /\ (Recorded => Recorded')
  <2>1. /\ Copied(w) # NoUser /\ Place(w) \in Pin
        /\ Put(task[w].job.to, Place(w), Copy(w), "session")
    BY <1>2, MigrateGoes
  <2>2. task[w].job.to \in Reader /\ Copy(w) \in Profile
    BY <1>2, <2>1, Migration DEF Migrate, Migrating
  <2>3. QED
    BY <2>1, <2>2, PutRecords DEF TypeOK
<1>3. ASSUME NEW r, NEW pins, r \in Reader, Drop(r, pins), UNCHANGED held
      PROVE  held \subseteq held' /\ (Recorded => Recorded')
  BY <1>3, DropRecords DEF TypeOK
<1>4. ASSUME NEW w \in Worker, RemoveSource(w), ~UNCHANGED <<users, held>>
      PROVE  held \subseteq held' /\ (Recorded => Recorded')
  <2>1. UNCHANGED held /\ Drop(Employee(w).home, {Source(w)})
    BY <1>4, RemoveGoes DEF RemoveSource, readerHistory, Deletes
  <2>2. Employee(w).home \in Reader
    BY <1>4, Migration DEF RemoveSource, Migrating
  <2>3. QED
    BY <1>3, <2>1, <2>2
<1>5. ASSUME NEW w \in Worker, Wipe(w), ~UNCHANGED <<users, held>>
      PROVE  held \subseteq held' /\ (Recorded => Recorded')
  <2>1. UNCHANGED held
    BY <1>5 DEF Wipe, readerHistory
  <2>2. PICK x \in task[w].todo : x[1] \in Reader /\ Drop(x[1], {x[2]})
    BY <1>5, <2>1, WipeGoes DEF Deletes
  <2>3. QED
    BY <1>3, <2>1, <2>2
<1>6. ASSUME NEW r \in Reader, ReaderPolls(r)
      PROVE  held \subseteq held' /\ (Recorded => Recorded')
  BY <1>6, PollRecords DEF ReaderPolls, TypeOK
<1>7. ASSUME NEW w \in Worker,
             \/ Start(w) \/ Load(w) \/ Restore(w) \/ Resolve(w) \/ Update(w)
             \/ Write(w)
      PROVE  UNCHANGED <<users, held>>
  BY <1>7 DEF Start, Load, Restore, Resolve, Update, Write, readerVars,
              readerHistory
<1>8. ASSUME \/ \E r \in Reader : LearnNames(r)
             \/ Kill
             \/ UNCHANGED vars
      PROVE  UNCHANGED <<users, held>>
  BY <1>8 DEF LearnNames, Kill, vars, readerVars, readerHistory
<1>9. QED
  BY <1>1, <1>2, <1>4, <1>5, <1>6, <1>7, <1>8 DEF Next

(* The list that a thread works on is backed.                              *)
LEMMA ListedBacked ==
  ASSUME ListsBacked, NEW w \in Worker, Listed(task[w].list) \in Directory
  PROVE  Backed(held, Listed(task[w].list))
BY DEF ListsBacked, ListBacked, Listed

(* An idle thread has no list.                                             *)
LEMMA IdleBacked ==
  ASSUME NEW w \in Worker, task'[w] = Idle
  PROVE  ListBacked(w)'
BY Sentinels DEF ListBacked, Idle

(* A call that returns leaves the list it was called with.                 *)
LEMMA ReturnBacked ==
  ASSUME TypeOK, NEW w \in Worker, Placed(w), task[w].pc # "idle",
         ListBacked(w), held \subseteq held', task'[w] = Return(task[w])
  PROVE  ListBacked(w)'
<1>1. task[w] \in Task /\ task[w].job.who \in Person
  BY HasJob, JobTypes
<1>2. CASE task[w].outer = NoList
  BY <1>1, <1>2, ReturnGoes, IdleBacked
<1>3. CASE task[w].outer # NoList
  <2>1. /\ task'[w].pc = "update" /\ task'[w].list = task[w].outer
        /\ task'[w].outer = NoList /\ task'[w].ok = FALSE
    BY <1>1, <1>3, ReturnGoes
  <2>2. QED
    BY <2>1, BackedGrows, Sentinels DEF ListBacked
<1>4. QED
  BY <1>2, <1>3

(* A thread begins with the list it has loaded.                            *)
LEMMA BeginBacked ==
  ASSUME TypeOK, NEW w \in Worker, Placed(w), task[w].pc \in Loading,
         NEW list \in Directory \cup {Shared}, Begins(w, list, task'[w]),
         ListBacked(w), UNCHANGED held,
         list \in Directory => Backed(held, list)
  PROVE  ListBacked(w)'
<1>1. CASE task'[w] = Return(task[w])
  BY <1>1, ReturnBacked DEF Loading
<1>2. CASE task'[w] = Idle
  BY <1>2, IdleBacked
<1>3. CASE /\ ~task'[w].ok /\ task'[w].pc # "remove"
           /\ task'[w].outer \in {task[w].outer, list}
           /\ task'[w].list = list
  BY <1>3 DEF ListBacked
<1>4. QED
  BY <1>1, <1>2, <1>3 DEF Begins

(* Once the profile is copied, somebody is stored where the PIN says.      *)
LEMMA MigrateBacked ==
  ASSUME Structure, Recorded, NEW w \in Worker, Migrate(w), ListBacked(w),
         held \subseteq held'
  PROVE  ListBacked(w)'
<1> USE DEF Structure
<1> DEFINE t == task[w]
           to == t.job.to
<1>1. t.pc = "migrate" /\ to \in Reader /\ t.pin \in Pin /\ HasRoom(to)
  BY Migration DEF Migrate, Migrating, Placed
<1>2. CASE FailedMigration(w)
  BY <1>2, IdleBacked, BackedGrows DEF FailedMigration, Carries, ListBacked
<1>3. CASE /\ Copied(w) # NoUser /\ Place(w) \in Pin
           /\ Put(to, Place(w), Copy(w), "session") /\ Copies(w)
  <2>1. Copy(w) \in Profile /\ Copy(w).who \in Person
    BY <1>1, <1>3, Migration DEF Migrating, Profile
  <2>2. <<Copy(w).who, to, Place(w)>> \in held'
    BY <1>1, <1>3, <2>1, PutRecords DEF TypeOK
  <2>3. Place(w) = t.pin \/ users[to][t.pin] # NoUser
    BY <1>1, PinForIsPin DEF Place, TypeOK
  <2>4. WasStored(held', to, t.pin)
    <3>1. CASE Place(w) = t.pin
      BY <2>1, <2>2, <3>1 DEF WasStored
    <3>2. CASE users[to][t.pin] # NoUser
      <4>1. users[to][t.pin].who \in Person
        BY <1>1, <3>2 DEF TypeOK, ReadersTypeOK, Profile
      <4>2. <<users[to][t.pin].who, to, t.pin>> \in held
        BY <1>1, <3>2 DEF Recorded
      <4>3. QED
        BY <4>1, <4>2 DEF WasStored
    <3>3. QED
      BY <2>3, <3>1, <3>2
  <2>5. QED
    BY <1>3, <2>4, BackedGrows DEF Copies, Carries, ListBacked
<1>4. QED
  BY <1>2, <1>3, MigrateGoes

(* A change is backed if the list was and a new PIN is.                    *)
LEMMA RewrittenBacked ==
  ASSUME Structure, ListsBacked, NEW w \in Worker, Update(w)
  PROVE  Rewritten(w) \in Directory /\ Backed(held, Rewritten(w))
<1> USE DEF Structure
<1> DEFINE t == task[w]
           e == t.job.who
           old == Listed(t.list)
           emp == Employee(w)
           new == Changed(t, emp)
<1>1. /\ t.pc = "update" /\ t \in Task /\ e \in Person /\ old \in Directory
      /\ t.job \in Request \cup Removal
      /\ t.job.op # "drop" =>
           /\ emp \in Record
           /\ t.job.op \in {"transfer", "grant", "revoke", "fire"}
           /\ t.job.op = "grant" => t.ok
  BY AtWork, JobTypes DEF Update, Working, Loading, Placed
<1>2. Rewritten(w) \in Directory /\ (t.job.op = "drop" => new = NoRecord)
  BY UpdateGoes
<1>3. Rewritten(w) = [old EXCEPT ![e] = new]
  BY DEF Rewritten
<1>4. \A x \in Person, r \in Reader :
        old[x] # NoRecord /\ old[x].access[r] # 0 =>
          WasStored(held, r, old[x].access[r])
  BY <1>1, ListedBacked, BackedIs
<1>5. ASSUME NEW r \in Reader, new # NoRecord, new.access[r] # 0
      PROVE  WasStored(held, r, new.access[r])
  <2>1. t.job.op # "drop" /\ t.job \in Request
    BY <1>1, <1>2, <1>5, JobTypes
  <2>2. CASE new.access[r] = emp.access[r]
    <3>1. emp = old[e] /\ emp # NoRecord
      BY <1>1, <2>1, DirectoryAssumption DEF Employee
    <3>2. QED
      BY <1>1, <1>4, <1>5, <2>2, <3>1
  <2>3. CASE t.ok /\ r = t.job.to /\ new.access[r] = t.pin
    BY <1>1, <2>3 DEF ListsBacked, ListBacked
  <2>4. QED
    BY <1>1, <1>5, <2>1, <2>2, <2>3, ChangedEntries
<1> HIDE DEF new
<1>6. ASSUME NEW x \in Person, NEW r \in Reader,
             Rewritten(w)[x] # NoRecord, Rewritten(w)[x].access[r] # 0
      PROVE  WasStored(held, r, Rewritten(w)[x].access[r])
  <2>1. Rewritten(w)[x] = IF x = e THEN new ELSE old[x]
    BY <1>1, <1>3 DEF Directory
  <2>2. QED
    BY <1>4, <1>5, <1>6, <2>1
<1>7. QED
  BY <1>2, <1>6, BackedIs

(* A step keeps every list backed.                                         *)
LEMMA BackedStep ==
  ASSUME Structure, Recorded, ListsBacked, [Next]_vars
  PROVE  ListsBacked'
<1> USE DEF Structure
<1>0. held \subseteq held'
  BY HistoryStep
<1>1. ASSUME NEW v \in Worker, task'[v] = task[v]
      PROVE  ListBacked(v)'
  BY <1>0, <1>1, BackedGrows DEF ListsBacked, ListBacked
<1>2. ASSUME stock' = stock \/ stock' = Stock
             \/ \E w \in Worker : Update(w) /\ stock' = Rewritten(w)
      PROVE  Backed(held', Stock) /\ Backed(held', stock')
  BY <1>0, <1>2, BackedGrows, RewrittenBacked DEF ListsBacked
<1>3. ASSUME \/ file' = file
             \/ file' \in {Truncated, Garbled}
             \/ \E w \in Worker : Write(w) /\ file' = Listed(task[w].list)
             \/ file' = stock
      PROVE  file' \in Directory => Backed(held', file')
  <2>1. CASE file' = file \/ file' \in {Truncated, Garbled} \/ file' = stock
    BY <1>0, <2>1, BackedGrows, Sentinels DEF ListsBacked
  <2>2. ASSUME NEW w \in Worker, Write(w), file' = Listed(task[w].list)
        PROVE  Backed(held', file')
    <3>1. Backed(held, Listed(task[w].list))
      BY <2>2, WriteGoes, ListedBacked
    <3>2. QED
      BY <1>0, <2>2, <3>1, BackedGrows
  <2>3. QED
    BY <1>3, <2>1, <2>2
<1>4. ASSUME NEW w \in Worker, Others(w), ListBacked(w)'
      PROVE  \A v \in Worker : ListBacked(v)'
  BY <1>1, <1>4 DEF Others
<1>5. ASSUME NEW w \in Worker, Start(w)
      PROVE  ListsBacked'
  <2>1. ListBacked(w)' /\ Others(w)
    BY <1>5, StartGoes, Sentinels DEF ListBacked
  <2>2. UNCHANGED <<file, stock>>
    BY <1>5 DEF Start
  <2>3. QED
    BY <1>2, <1>3, <1>4, <2>1, <2>2 DEF ListsBacked
<1>6. ASSUME NEW w \in Worker, Load(w)
      PROVE  ListsBacked'
  <2>1. UNCHANGED <<held, stock>>
    BY <1>6 DEF Load, readerHistory
  <2>2. CASE file \in Directory /\ file' = file /\ Begins(w, file, task'[w])
    <3>1. ListBacked(w)'
      BY <1>6, <2>1, <2>2, LoadGoes, BeginBacked DEF ListsBacked, Loading
    <3>2. QED
      BY <1>2, <1>3, <1>4, <1>6, <2>1, <2>2, <3>1, LoadGoes DEF ListsBacked
  <2>3. CASE /\ file' = Truncated /\ task'[w].pc = "restore" /\ Carries(w)
    <3>1. ListBacked(w)'
      BY <2>1, <2>3 DEF ListsBacked, ListBacked, Carries
    <3>2. QED
      BY <1>2, <1>3, <1>4, <1>6, <2>1, <2>3, <3>1, LoadGoes DEF ListsBacked
  <2>4. QED
    BY <1>6, <2>2, <2>3, LoadGoes
<1>7. ASSUME NEW w \in Worker, Restore(w)
      PROVE  ListsBacked'
  <2>1. UNCHANGED <<held, stock>>
    BY <1>7 DEF Restore, readerHistory
  <2>2. ListBacked(w)' /\ Others(w)
    BY <1>7, <2>1, RestoreGoes, BeginBacked, Sentinels DEF ListsBacked, Loading
  <2>3. file' \in {stock, Garbled}
    BY <1>7 DEF Restore, Dump
  <2>4. QED
    BY <1>2, <1>3, <1>4, <2>1, <2>2, <2>3 DEF ListsBacked
<1>8. ASSUME NEW w \in Worker, Resolve(w) \/ Migrate(w) \/ RemoveSource(w) \/ Wipe(w)
      PROVE  ListsBacked'
  <2>1. UNCHANGED <<file, stock>>
    BY <1>8 DEF Resolve, Migrate, RemoveSource, Wipe
  <2>2. ListBacked(w)' /\ Others(w)
    <3>1. CASE Resolve(w)
      BY <1>0, <3>1, ResolveGoes, BackedGrows DEF ListsBacked, ListBacked, Carries
    <3>2. CASE Migrate(w)
      BY <1>0, <3>2, MigrateGoes, MigrateBacked DEF ListsBacked
    <3>3. CASE RemoveSource(w)
      BY <1>0, <3>3, RemoveGoes, BackedGrows DEF ListsBacked, ListBacked, Carries
    <3>4. CASE Wipe(w)
      <4>1. ~task[w].ok
        BY <3>4 DEF Wipe, Placed
      <4>2. QED
        BY <1>0, <3>4, <4>1, WipeGoes, BackedGrows
        DEF ListsBacked, ListBacked, Carries
    <3>5. QED
      BY <1>8, <3>1, <3>2, <3>3, <3>4
  <2>3. QED
    BY <1>2, <1>3, <1>4, <2>1, <2>2 DEF ListsBacked
<1>9. ASSUME NEW w \in Worker, Update(w)
      PROVE  ListsBacked'
  <2>1. /\ Others(w) /\ task'[w].pc = "write" /\ file' = Truncated
        /\ task'[w].outer = task[w].outer
        /\ task'[w].list \in {Shared, Rewritten(w)}
        /\ stock' \in {stock, Rewritten(w)}
    BY <1>9, UpdateGoes
  <2>2. ListBacked(w)'
    BY <1>0, <1>9, <2>1, RewrittenBacked, BackedGrows, Sentinels
    DEF ListsBacked, ListBacked
  <2>3. QED
    BY <1>2, <1>3, <1>4, <1>9, <2>1, <2>2 DEF ListsBacked
<1>10. ASSUME NEW w \in Worker, Write(w)
       PROVE  ListsBacked'
  <2>1. ListBacked(w)' /\ Others(w)
    BY <1>0, <1>10, WriteGoes, ReturnBacked DEF ListsBacked
  <2>2. UNCHANGED stock /\ file' \in {Listed(task[w].list), Garbled}
    BY <1>10 DEF Write, Dump
  <2>3. QED
    BY <1>2, <1>3, <1>4, <1>10, <2>1, <2>2 DEF ListsBacked
<1>11. ASSUME \/ \E r \in Reader : LearnNames(r) \/ ReaderPolls(r)
              \/ UNCHANGED vars
       PROVE  ListsBacked'
  <2>1. UNCHANGED <<file, stock, task>>
    BY <1>11 DEF LearnNames, ReaderPolls, vars
  <2>2. QED
    BY <1>1, <1>2, <1>3, <2>1 DEF ListsBacked
<1>12. ASSUME Kill
       PROVE  ListsBacked'
  <2>1. file' = file /\ stock' = Stock /\ \A w \in Worker : task'[w] = Idle
    BY <1>12 DEF Kill
  <2>2. QED
    BY <1>2, <1>3, <2>1, IdleBacked DEF ListsBacked
<1>13. QED
  BY <1>5, <1>6, <1>7, <1>8, <1>9, <1>10, <1>11, <1>12 DEF Next

-----------------------------------------------------------------------------
(* Theorems                                                                *)

(* At the start no request is under way.                                   *)
LEMMA InitStructure ==
  Init => Structure
<1> SUFFICES ASSUME Init PROVE Structure
  OBVIOUS
<1>1. \A w \in Worker : task[w] = Idle
  BY DEF Init
<1>2. ASSUME NEW w \in Worker
      PROVE  Placed(w)
  <2>1. task[w] = Idle
    BY <1>1
  <2>2. QED
    BY <2>1 DEF Placed, Idle, Loading, Migrating, Working, NoRequest
<1>3. 0 \in 0..MaxEvents /\ 0 \in 0..MaxFailures
  <2>1. MaxEvents \in Nat /\ MaxFailures \in Nat
    BY DirectoryAssumption
  <2>2. QED
    BY <2>1
<1>4. task \in [Worker -> Task]
  BY IdleIsTask DEF Init
<1>5. TypeOK
  BY <1>3, <1>4, InitTypes, DirectoryAssumption DEF Init, TypeOK
<1>6. QED
  BY <1>2, <1>5 DEF Structure

(* Whoever is listed at the start is enrolled.                             *)
LEMMA InitBacked ==
  Init => ListsBacked
<1> SUFFICES ASSUME Init PROVE ListsBacked
  OBVIOUS
<1>1. Recorded
  BY InitRecorded DEF Init
<1>2. ASSUME NEW dir \in Directory, dir \in {Stock, Saved} \ {Absent}
      PROVE  Backed(held, dir)
  <2>1. ASSUME NEW t \in Entries(dir)
        PROVE  WasStored(held, t[2], t[3])
    <3>1. t[2] \in Reader /\ t[3] \in Pin
      BY EntriesAre
    <3>2. Enrolled[t[2]][t[3]] # NoUser
      BY <1>2, EnrolledAssumption
    <3>3. Enrolled[t[2]][t[3]].who \in Person
      BY <3>1, <3>2, ReadersAssumption DEF Profile
    <3>4. <<Enrolled[t[2]][t[3]].who, t[2], t[3]>> \in held
      BY <1>1, <3>1, <3>2 DEF Recorded, Init, ReadersInit
    <3>5. QED
      BY <3>3, <3>4 DEF WasStored
  <2>2. QED
    BY <2>1 DEF Backed
<1>3. /\ Backed(held, Stock) /\ Backed(held, stock)
      /\ file \in Directory => Backed(held, file)
  BY <1>2, Sentinels, DirectoryAssumption DEF Init
<1>4. \A w \in Worker : ListBacked(w)
  BY Sentinels DEF Init, ListBacked, Idle
<1>5. QED
  BY <1>3, <1>4 DEF ListsBacked

(* Both parts hold in every state.                                         *)
LEMMA Inductive ==
  Spec => [](Structure /\ Recorded /\ ListsBacked)
<1> DEFINE IInv == Structure /\ Recorded /\ ListsBacked
<1>1. Init => IInv
  BY InitStructure, InitBacked, InitRecorded DEF Init
<1>2. IInv /\ [Next]_vars => IInv'
  <2> SUFFICES ASSUME IInv, [Next]_vars PROVE IInv'
    OBVIOUS
  <2>1. Structure'
    BY TypeStep, PlacedStep DEF Structure
  <2>2. QED
    BY <2>1, HistoryStep, BackedStep
<1>3. QED
  BY <1>1, <1>2, PTL DEF Spec

(* Type correctness of the directory, its list and its requests            *)
(* (employee_service.py), for every instance.                              *)
THEOREM TypeCorrect == Spec => []TypeOK
<1>1. Structure => TypeOK
  BY DEF Structure
<1>2. QED
  BY <1>1, Inductive, PTL

(* Through overlapping requests, failures, kills and resets, the list on   *)
(* disk never names a place where nobody was ever stored.                  *)
THEOREM AccessIsNeverInvented == Spec => []EntryWasStored
<1>1. ListsBacked => EntryWasStored
  BY DEF ListsBacked, Backed, WasStored, EntryWasStored
<1>2. QED
  BY <1>1, Inductive, PTL

-----------------------------------------------------------------------------
(* Every request ends                                                      *)

RequestStep(w) ==
  \/ Load(w) \/ Restore(w) \/ Resolve(w) \/ Migrate(w) \/ RemoveSource(w)
  \/ Wipe(w) \/ Update(w) \/ Write(w)

(* The steps a thread has at most ahead of it, the deletions on its list   *)
(* counted as one.  A permanent removal offboards first, which loads the   *)
(* file once more, and a call inside it returns to two more steps.         *)
Steps ==
  [load |-> 7, restore |-> 6, resolve |-> 5, migrate |-> 4, remove |-> 3,
   wipe |-> 3, update |-> 2, write |-> 1, idle |-> 0]
Ahead(t) == Steps[t.pc] + (IF t.job.op = "delete" THEN 4 ELSE 0)
                        + (IF t.outer # NoList THEN 2 ELSE 0)

(* The table, place by place.                                              *)
LEMMA StepsAre ==
  /\ Steps["load"] = 7 /\ Steps["restore"] = 6 /\ Steps["resolve"] = 5
  /\ Steps["migrate"] = 4 /\ Steps["remove"] = 3 /\ Steps["wipe"] = 3
  /\ Steps["update"] = 2 /\ Steps["write"] = 1 /\ Steps["idle"] = 0
  BY DEF Steps

(* What is ahead is a number.                                              *)
LEMMA AheadIsNat ==
  ASSUME NEW t \in Task
  PROVE  Ahead(t) \in Nat
<1>1. t.pc \in {"idle", "load", "restore", "resolve", "migrate", "remove",
                "wipe", "update", "write"}
  BY DEF Task
<1>2. Steps[t.pc] \in Nat
  BY <1>1, StepsAre
<1>3. QED
  BY <1>2 DEF Ahead

(* The bounds of what is ahead.                                            *)
LEMMA AheadIsBounded ==
  ASSUME TypeOK, NEW w \in Worker, Placed(w)
  PROVE  /\ Ahead(task[w]) \in 0..11
         /\ Ahead(task[w]) = 0 <=> task[w].pc = "idle"
<1>1. CASE task[w].pc = "idle"
  BY <1>1, StepsAre DEF Placed, Ahead, Idle, NoRequest
<1>2. CASE task[w].pc # "idle"
  <2>1. task[w].pc \in {"load", "restore", "resolve", "migrate", "remove",
                        "wipe", "update", "write"}
    BY <1>2 DEF TypeOK, Task
  <2>2. Steps[task[w].pc] \in 1..7
    BY <2>1, StepsAre
  <2>3. task[w].outer = NoList \/ task[w].job.op # "delete"
    BY DEF Placed
  <2>4. QED
    BY <1>2, <2>2, <2>3 DEF Ahead
<1>3. QED
  BY <1>1, <1>2

(* A call that returns is nearer to the end.                               *)
LEMMA ReturnShortens ==
  ASSUME TypeOK, NEW w \in Worker, Placed(w), task[w].pc # "idle"
  PROVE  Ahead(Return(task[w])) < Ahead(task[w])
<1>1. task[w] \in Task /\ task[w].job.who \in Person
  BY HasJob, JobTypes
<1>2. CASE task[w].outer = NoList
  <2>1. Return(task[w]) = Idle
    BY <1>1, <1>2, ReturnGoes
  <2>2. Ahead(Idle) = 0
    BY StepsAre DEF Ahead, Idle, NoRequest
  <2>3. Ahead(task[w]) \in 1..11
    BY AheadIsBounded
  <2>4. QED
    BY <2>1, <2>2, <2>3
<1>3. CASE task[w].outer # NoList
  <2>1. Ahead(Return(task[w])) = 2
    <3>1. /\ Return(task[w]).pc = "update" /\ Return(task[w]).outer = NoList
          /\ Return(task[w]).job.op = "drop"
      <4>1. task[w].outer # NoList => task[w].job.who \in Person
        BY <1>1
      <4>2. Return(task[w]).job =
              [op |-> "drop", who |-> task[w].job.who, wipe |-> TRUE]
        BY <1>1, <1>3, <4>1, ReturnGoes
      <4>3. Return(task[w]).pc = "update" /\ Return(task[w]).outer = NoList
        BY <1>1, <1>3, <4>1, ReturnGoes
      <4>4. QED
        BY <4>2, <4>3
    <3>2. Return(task[w]).job.op # "delete"
      BY <3>1
    <3>3. QED
      BY <3>1, <3>2, StepsAre DEF Ahead
  <2>2. task[w].pc \in {"load", "restore", "resolve", "migrate", "remove",
                        "wipe", "update", "write"}
    BY <1>1 DEF Task
  <2>3. Steps[task[w].pc] \in 1..7
    BY <2>2, StepsAre
  <2>4. Ahead(task[w]) > 2
    BY <1>3, <2>3 DEF Ahead
  <2>5. QED
    BY <2>1, <2>4
<1>4. QED
  BY <1>2, <1>3

(* So is one that begins its work on the list it has loaded.               *)
LEMMA BeginShortens ==
  ASSUME TypeOK, NEW w \in Worker, Placed(w), task[w].pc \in Loading,
         NEW list \in Directory \cup {Shared}, NEW s, Begins(w, list, s)
  PROVE  Ahead(s) < Ahead(task[w])
<1>1. Steps[task[w].pc] \in 6..7
  BY StepsAre DEF Loading
<1>2. CASE s = Return(task[w])
  BY <1>2, ReturnShortens DEF Loading
<1>3. CASE s = Idle
  <2>1. Ahead(s) = 0
    BY <1>3, StepsAre DEF Ahead, Idle, NoRequest
  <2>2. QED
    BY <1>1, <2>1 DEF Ahead
<1>4. CASE /\ s.pc \in {"update", "resolve", "wipe"}
           /\ s.job = task[w].job /\ s.outer = task[w].outer
  <2>1. Steps[s.pc] \in 2..5
    BY <1>4, StepsAre
  <2>2. QED
    BY <1>1, <1>4, <2>1 DEF Ahead
<1>5. CASE /\ task[w].job.op = "delete"
           /\ s.pc = "load" /\ s.job = Dismissal(task[w].job.who)
  <2>1. Ahead(s) \in 7..9
    BY <1>5, StepsAre DEF Ahead, Dismissal
  <2>2. QED
    BY <1>1, <1>5, <2>1 DEF Ahead
<1>6. CASE /\ task[w].job.op = "delete" /\ s.pc = "update"
           /\ s.outer = task[w].outer /\ s.job.op = "drop"
  <2>1. Ahead(s) \in 2..4
    BY <1>6, StepsAre DEF Ahead
  <2>2. QED
    BY <1>1, <1>6, <2>1 DEF Ahead
<1>7. QED
  BY <1>2, <1>3, <1>4, <1>5, <1>6 DEF Begins

(* Each step of a request brings it nearer to its end, or takes one        *)
(* deletion off its list.                                                  *)
LEMMA StepShortens ==
  ASSUME Structure, NEW w \in Worker, RequestStep(w)
  PROVE  /\ Others(w) /\ task[w].pc # "idle"
         /\ \/ Ahead(task'[w]) < Ahead(task[w])
            \/ /\ Ahead(task'[w]) = Ahead(task[w]) /\ Wipe(w)
               /\ task'[w].todo \subseteq task[w].todo
               /\ task'[w].todo # task[w].todo
<1> USE DEF Structure
<1>1. CASE Load(w)
  <2>1. CASE file \in Directory /\ Begins(w, file, task'[w])
    BY <1>1, <2>1, LoadGoes, BeginShortens DEF Loading
  <2>2. CASE task'[w].pc = "restore" /\ Carries(w)
    BY <1>1, <2>2, LoadGoes, StepsAre DEF Ahead, Carries
  <2>3. QED
    BY <1>1, <2>1, <2>2, LoadGoes
<1>2. CASE Restore(w)
  BY <1>2, RestoreGoes, BeginShortens DEF Loading
<1>3. CASE Resolve(w)
  BY <1>3, ResolveGoes, StepsAre DEF Ahead, Carries
<1>4. CASE Migrate(w)
  <2>1. /\ task[w].pc = "migrate" /\ Others(w)
        /\ \/ task'[w] = Idle
           \/ Carries(w) /\ task'[w].pc \in {"update", "remove"}
    <3>1. /\ task[w].pc = "migrate" /\ Others(w)
          /\ FailedMigration(w) \/ Copies(w)
      BY <1>4, MigrateGoes
    <3>2. CASE FailedMigration(w)
      BY <3>1, <3>2 DEF FailedMigration
    <3>3. CASE Copies(w)
      BY <3>1, <3>3 DEF Copies
    <3>4. QED
      BY <3>1, <3>2, <3>3
  <2>2. Ahead(Idle) = 0 /\ Ahead(task[w]) \in 4..10
    BY <2>1, StepsAre DEF Ahead, Idle, NoRequest
  <2>3. CASE Carries(w) /\ task'[w].pc \in {"update", "remove"}
    BY <2>1, <2>3, StepsAre DEF Ahead, Carries
  <2>4. QED
    BY <2>1, <2>2, <2>3
<1>5. CASE RemoveSource(w)
  BY <1>5, RemoveGoes, StepsAre DEF Ahead, Carries
<1>6. CASE Wipe(w)
  <2>1. PICK x \in task[w].todo :
          /\ task'[w].todo = task[w].todo \ {x}
          /\ task'[w].pc = IF task[w].todo = {x} THEN "update" ELSE "wipe"
    BY <1>6, WipeGoes
  <2>2. task[w].pc = "wipe" /\ Others(w) /\ Carries(w)
    BY <1>6, WipeGoes
  <2>3. CASE task'[w].pc = "update"
    BY <2>2, <2>3, StepsAre DEF Ahead, Carries
  <2>4. CASE task'[w].pc = "wipe"
    BY <1>6, <2>1, <2>2, <2>4 DEF Ahead, Carries
  <2>5. QED
    BY <2>1, <2>2, <2>3, <2>4
<1>7. CASE Update(w)
  BY <1>7, UpdateGoes, StepsAre DEF Ahead
<1>8. CASE Write(w)
  BY <1>8, WriteGoes, ReturnShortens
<1>9. QED
  BY <1>1, <1>2, <1>3, <1>4, <1>5, <1>6, <1>7, <1>8 DEF RequestStep

(* A request of employee_service.py has no loop but the one over the       *)
(* readers of an offboarding, takes no lock and is told to wait by nobody: *)
(* each of its steps brings it nearer to its end or takes a reader off     *)
(* that list, which is not empty while the loop runs, and no failure, kill *)
(* or other request takes it back.                                         *)
THEOREM RequestsEnd ==
  Spec =>
    /\ [](\A w \in Worker :
            /\ Ahead(task[w]) \in 0..11
            /\ Ahead(task[w]) = 0 <=> task[w].pc = "idle"
            /\ task[w].pc = "wipe" => task[w].todo # {})
    /\ [][\A w \in Worker :
            /\ RequestStep(w) =>
                 \/ Ahead(task'[w]) < Ahead(task[w])
                 \/ /\ Ahead(task'[w]) = Ahead(task[w]) /\ Wipe(w)
                    /\ task'[w].todo \subseteq task[w].todo
                    /\ task'[w].todo # task[w].todo
            /\ Ahead(task'[w]) > Ahead(task[w]) => Start(w)]_vars
<1> DEFINE Bound == \A w \in Worker :
                      /\ Ahead(task[w]) \in 0..11
                      /\ Ahead(task[w]) = 0 <=> task[w].pc = "idle"
                      /\ task[w].pc = "wipe" => task[w].todo # {}
           Shrink ==
             \A w \in Worker :
               /\ RequestStep(w) =>
                    \/ Ahead(task'[w]) < Ahead(task[w])
                    \/ /\ Ahead(task'[w]) = Ahead(task[w]) /\ Wipe(w)
                       /\ task'[w].todo \subseteq task[w].todo
                       /\ task'[w].todo # task[w].todo
               /\ Ahead(task'[w]) > Ahead(task[w]) => Start(w)
<1>1. Structure => Bound
  BY AheadIsBounded DEF Structure, Placed
<1>2. Structure /\ [Next]_vars => Shrink
  <2> SUFFICES ASSUME Structure, [Next]_vars, NEW w \in Worker
               PROVE  /\ RequestStep(w) =>
                           \/ Ahead(task'[w]) < Ahead(task[w])
                           \/ /\ Ahead(task'[w]) = Ahead(task[w]) /\ Wipe(w)
                              /\ task'[w].todo \subseteq task[w].todo
                              /\ task'[w].todo # task[w].todo
                      /\ Ahead(task'[w]) > Ahead(task[w]) => Start(w)
    OBVIOUS
  <2>1. Ahead(task[w]) \in 0..11
    BY AheadIsBounded DEF Structure
  <2>2. RequestStep(w) =>
          \/ Ahead(task'[w]) < Ahead(task[w])
          \/ /\ Ahead(task'[w]) = Ahead(task[w]) /\ Wipe(w)
             /\ task'[w].todo \subseteq task[w].todo
             /\ task'[w].todo # task[w].todo
    BY StepShortens
  <2>3. CASE \E v \in Worker : Start(v) \/ RequestStep(v)
    <3>1. PICK v \in Worker : Start(v) \/ RequestStep(v)
      BY <2>3
    <3>2. Others(v)
      BY <3>1, StartGoes, StepShortens DEF Structure
    <3>3. CASE v # w
      BY <2>1, <2>2, <3>2, <3>3 DEF Others
    <3>4. CASE v = w /\ RequestStep(w)
      <4>1. Ahead(task'[w]) \in Nat
        BY TypeStep, AheadIsNat DEF TypeOK
      <4>2. \/ Ahead(task'[w]) < Ahead(task[w])
            \/ Ahead(task'[w]) = Ahead(task[w])
        BY <2>2, <3>4
      <4>3. ~(Ahead(task'[w]) > Ahead(task[w]))
        BY <2>1, <4>1, <4>2
      <4>4. QED
        BY <2>2, <4>3
    <3>5. QED
      BY <2>2, <3>1, <3>3, <3>4
  <2>4. CASE Kill
    <3>1. Ahead(task'[w]) = 0
      BY <2>4, StepsAre DEF Kill, Ahead, Idle, NoRequest
    <3>2. QED
      BY <2>1, <2>2, <3>1
  <2>5. CASE (\E r \in Reader : LearnNames(r) \/ ReaderPolls(r)) \/ UNCHANGED vars
    <3>1. UNCHANGED task
      BY <2>5 DEF LearnNames, ReaderPolls, vars
    <3>2. QED
      BY <2>1, <2>2, <3>1
  <2>6. QED
    BY <2>3, <2>4, <2>5 DEF Next, RequestStep
<1> HIDE DEF Bound, Shrink
<1>3. Spec => []Bound
  BY <1>1, Inductive, PTL
<1>4. Spec => [][Shrink]_vars
  BY <1>2, Inductive, PTL DEF Spec
<1>5. QED
  BY <1>3, <1>4, PTL DEF Bound, Shrink
=============================================================================
