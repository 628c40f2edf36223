----------------------- MODULE EmployeeAgreementProofs -----------------------
(***************************************************************************)
(* Theorems about EmployeeDirectory as long as requests that save come one *)
(* by one.                                                                 *)
(*                                                                         *)
(* Orderly holds while none of them fails or is killed either: a thread    *)
(* then works on what the file has, and nobody else writes it.  Blameless  *)
(* holds while there is nothing at all to excuse: list and readers agree,  *)
(* except for what the request under way has done and not yet written.     *)
(***************************************************************************)
EXTENDS EmployeeDirectoryProofs

-----------------------------------------------------------------------------
(* The invariants: one request after the other                             *)

Off(a, b, e) == \A x \in Person \ {e} : a[x] = b[x]
Gone(dir, e) == dir[e] = NoRecord \/ dir[e].gone
Outside(dir, e) ==
  dir[e] # NoRecord => dir[e].gone /\ \A r \in Reader : dir[e].access[r] = 0

Writing(w) == task[w].pc \in {"restore", "write"}

(* One thread writes the file, and no other is past its load then.  Until  *)
(* then the list it has loaded is what the file has.                       *)
Alone ==
  /\ \A v, w \in Worker : Saves(task[v]) /\ Saves(task[w]) => v = w
  /\ \A v, w \in Worker : Writing(v) /\ Writing(w) => v = w
  /\ file # Garbled
  /\ file = Truncated <=> \E w \in Worker : Writing(w)
  /\ file = Absent \/ (\E w \in Worker : task[w].pc = "restore") =>
       /\ stock = Stock /\ Saved = Absent /\ dismissed = {}
       /\ \A w \in Worker : /\ task[w].pc \in {"idle", "load", "restore"}
                            /\ task[w].outer = NoList

(* What a thread has loaded is what the file has, except for an employee   *)
(* whose dismissal a removal has just written.                             *)
InStep(w) ==
  LET t == task[w]
      e == t.job.who
      nested == t.pc # "idle" /\ t.outer # NoList
  IN  /\ t.pc \in Working /\ ~(t.job.op = "drop" /\ t.job.wipe) =>
           file = Listed(t.list)
      /\ t.pc = "update" /\ t.job.op = "drop" /\ t.job.wipe =>
           /\ file \in Directory
           /\ Off(file, Listed(t.list), e) /\ Outside(file, e)
      /\ nested /\ t.pc \in Loading => file = Listed(t.outer)
      /\ nested => t.list # NoList
      /\ nested /\ t.pc \in {"wipe", "update"} =>
           file = Listed(t.outer) /\ t.list \in Directory
      /\ nested /\ t.pc = "write" =>
           /\ t.list \in Directory
           /\ Off(t.list, Listed(t.outer), e) /\ Outside(t.list, e)

(* Who was dismissed is not in service, in the file or in what is about to *)
(* be written.                                                             *)
StaysOut ==
  /\ file \in Directory => \A e \in dismissed : Gone(file, e)
  /\ \A w \in Worker : task[w].pc = "write" =>
       LET t == task[w]
           dir == Listed(t.list)
       IN  /\ \A e \in dismissed : Gone(dir, e)
           /\ (\/ t.job.op = "drop"
               \/ t.job.op = "fire" /\ t.job.action = "fire_all") =>
                Gone(dir, t.job.who)

Tidy == Alone /\ (\A w \in Worker : InStep(w)) /\ StaysOut
Orderly == Calm => Tidy

-----------------------------------------------------------------------------
(* The invariants: nothing to excuse                                       *)

Is(r, p, e) == users[r][p] # NoUser /\ users[r][p].who = e

(* The entries that the update of a thread will clear.                     *)
Clears(w, r) ==
  LET t == task[w]
  IN  \/ /\ t.pc \in {"wipe", "update"} /\ t.job.op = "revoke"
         /\ ~t.job.printsOnly /\ r = t.job.at
      \/ /\ t.pc \in {"wipe", "update"} /\ t.job.op = "fire"
         /\ t.job.action = "fire_all" \/ r = t.job.at
      \/ /\ t.pc = "update" /\ t.job.op = "transfer" /\ t.job.mode = "move"
         /\ t.ok /\ r = Employee(w).home

(* The profile that it will enter.                                         *)
Enters(w, r, p) ==
  LET t == task[w]
  IN  /\ t.pc = "remove" \/ (t.pc = "update" /\ t.ok)
      /\ r = t.job.to /\ p = t.pin

Agrees(dir) ==
  /\ \A t \in Entries(dir) :
       \/ Is(t[2], t[3], t[1])
       \/ \E w \in Worker : Clears(w, t[2]) /\ t[1] = task[w].job.who
  /\ \A r \in Reader, p \in Pin : users[r][p] # NoUser =>
       \/ <<users[r][p].who, r, p>> \in Entries(dir) \cup orphans
       \/ \E w \in Worker : /\ Enters(w, r, p)
                            /\ task[w].job.who = users[r][p].who

(* The list, in the file or about to be written, agrees with the readers.  *)
Current(dir) ==
  \/ dir = file
  \/ dir = stock /\ (file = Absent \/ \E w \in Worker : task[w].pc = "restore")
  \/ \E w \in Worker : task[w].pc = "write" /\ dir = Listed(task[w].list)

Agreement == \A dir \in Directory : Current(dir) => Agrees(dir)

(* What a request has done to the readers so far is what its update will   *)
(* say.                                                                    *)
Due(w) ==
  LET t == task[w]
      e == t.job.who
      emp == Employee(w)
      src == emp.home
  IN  /\ t.pc # "idle" /\ t.job.op = "fire" =>
           t.job.action = "fire_all" \/ OneReader(t.job)
      /\ t.pc \in Migrating /\ t.job.op = "transfer" => src # t.job.to
      /\ t.pc \in {"migrate", "remove"} =>
           \/ users[t.job.to][t.pin] = NoUser
           \/ Is(t.job.to, t.pin, e) /\ users[t.job.to][t.pin].name = e
      /\ t.pc = "remove" =>
           users[src][Source(w)] = NoUser \/ Is(src, Source(w), e)
      /\ t.pc = "remove" \/ (t.pc = "update" /\ t.ok) =>
           Is(t.job.to, t.pin, e)
      /\ t.pc = "update" /\ t.ok /\ t.job.op = "transfer" =>
           /\ src # t.job.to
           /\ t.job.mode = "move" => users[src][Source(w)] = NoUser
      /\ t.pc = "wipe" =>
           \A s \in t.todo : /\ s[2] = AccessPin(emp, e, s[1])
                             /\ ~t.job.printsOnly => Clears(w, s[1])
      /\ t.pc \in {"wipe", "update"} /\ t.job.op \in {"revoke", "fire"} =>
           \A r \in Reader : emp.access[r] # 0 =>
             LET p == emp.access[r]
             IN  /\ t.job.printsOnly => Is(r, p, e)
                 /\ ~t.job.printsOnly /\ Clears(w, r) =>
                      \/ users[r][p] = NoUser
                      \/ t.pc = "wipe" /\ <<r, p>> \in t.todo /\ Is(r, p, e)

(* A name on a reader is the name of the one whose profile it is.          *)
Truthful ==
  \A r \in Reader, p \in Pin :
    users[r][p] # NoUser /\ users[r][p].name \in Person =>
      users[r][p].name = users[r][p].who

Untouched ==
  /\ Truthful /\ Agreement /\ harmed = {} /\ replaced = {}
  /\ \A r \in Reader : commands[r] = <<>>
  /\ \A w \in Worker : Due(w)

Blameless == excuses = {} => Untouched

-----------------------------------------------------------------------------
(* One request after the other                                             *)

(* What has been excused stays excused.                                    *)
LEMMA ExcusesGrow ==
  ASSUME [Next]_vars
  PROVE  excuses \subseteq excuses'
<1>1. ASSUME NEW w \in Worker,
             \/ Start(w) \/ Load(w) \/ Restore(w) \/ Resolve(w) \/ Migrate(w)
             \/ RemoveSource(w) \/ Wipe(w) \/ Update(w) \/ Write(w)
      PROVE  excuses \subseteq excuses'
  <2>1. CASE Start(w) \/ Load(w) \/ Restore(w)
    BY <2>1 DEF Start, Load, Restore, Dump, Fail, Mishap, Excused
  <2>2. CASE Resolve(w) \/ Migrate(w)
    BY <2>2 DEF Resolve, Migrate, Fail, Mishap, Excused
  <2>3. CASE RemoveSource(w) \/ Wipe(w) \/ Update(w) \/ Write(w)
    BY <2>3 DEF RemoveSource, Wipe, Update, Write, Dump, Fail, Mishap, Excused
  <2>4. QED
    BY <1>1, <2>1, <2>2, <2>3
<1>2. ASSUME NEW r \in Reader, LearnNames(r) \/ ReaderPolls(r)
      PROVE  excuses \subseteq excuses'
  BY <1>2 DEF LearnNames, ReaderPolls
<1>3. CASE Kill
  BY <1>3 DEF Kill, Mishap
<1>4. QED
  BY <1>1, <1>2, <1>3 DEF Next, vars

(* A thread that rests, or loads a list for its first call, agrees with    *)
(* any file.                                                               *)
LEMMA AtRestInStep ==
  ASSUME NEW v \in Worker, task'[v].pc \in Loading \cup {"idle"},
         task'[v].outer = NoList
  PROVE  InStep(v)'
BY DEF InStep, Loading, Working, Migrating

(* While a thread has a request that saves, no other is past its load.     *)
LEMMA OthersAtRest ==
  ASSUME Structure, Alone, NEW w \in Worker, Saves(task[w]),
         NEW v \in Worker, v # w
  PROVE  /\ ~Saves(task[v]) /\ task[v].pc \in Loading \cup {"idle"}
         /\ task[v].outer = NoList
<1>1. ~Saves(task[v])
  BY DEF Alone
<1>2. QED
  BY <1>1 DEF Structure, Saves, Placed

(* A file that is neither missing, truncated nor garbled is a list.        *)
LEMMA FileIsList ==
  ASSUME Structure, Alone, file # Absent, \A w \in Worker : ~Writing(w)
  PROVE  file \in Directory
BY DEF Structure, TypeOK, Alone

(* What becomes of others when one thread takes a step.                    *)
LEMMA OthersInStep ==
  ASSUME Structure, Tidy, NEW w \in Worker, Others(w),
         Saves(task[w]) \/ UNCHANGED <<file, stock>>,
         NEW v \in Worker, v # w
  PROVE  InStep(v)'
<1>1. task'[v] = task[v]
  BY DEF Others
<1>2. CASE Saves(task[w])
  BY <1>1, <1>2, OthersAtRest, AtRestInStep DEF Tidy
<1>3. CASE UNCHANGED <<file, stock>>
  BY <1>1, <1>3 DEF Tidy, InStep, Listed
<1>4. QED
  BY <1>2, <1>3

(* One thread steps, and the file stays as it is.                          *)
LEMMA QuietTidy ==
  ASSUME Structure, Tidy, NEW w \in Worker, Others(w),
         UNCHANGED <<file, stock, dismissed>>,
         ~Writing(w), ~Writing(w)', InStep(w)',
         Saves(task'[w]) => Saves(task[w]) \/ \A v \in Worker : ~Saves(task[v]),
         \/ file \in Directory
         \/ task'[w].pc \in Loading \cup {"idle"} /\ task'[w].outer = NoList
  PROVE  Tidy'
<1>1. \A v \in Worker \ {w} : task'[v] = task[v]
  BY DEF Others
<1>2. \A v \in Worker : Writing(v)' <=> Writing(v)
  BY <1>1 DEF Writing
<1>3. Alone'
  <2>1. \A u, v \in Worker : Saves(task[u])' /\ Saves(task[v])' => u = v
    BY <1>1 DEF Tidy, Alone
  <2>2. ASSUME file = Absent \/ \E v \in Worker : task'[v].pc = "restore"
        PROVE  /\ stock = Stock /\ Saved = Absent /\ dismissed = {}
               /\ \A v \in Worker : /\ task'[v].pc \in {"idle", "load", "restore"}
                                    /\ task'[v].outer = NoList
    <3>1. file = Absent \/ \E v \in Worker : task[v].pc = "restore"
      BY <1>1, <2>2 DEF Writing
    <3>2. file \notin Directory
      BY <3>1, Sentinels DEF Tidy, Alone, Writing
    <3>3. QED
      BY <1>1, <3>1, <3>2 DEF Tidy, Alone, Loading
  <2>3. QED
    BY <1>2, <2>1, <2>2 DEF Tidy, Alone
<1>4. \A v \in Worker : InStep(v)'
  BY OthersInStep
<1>5. StaysOut'
  BY <1>1 DEF Tidy, StaysOut, Gone, Listed, Writing
<1>6. QED
  BY <1>3, <1>4, <1>5 DEF Tidy

(* A request arrives.                                                      *)
LEMMA StartTidy ==
  ASSUME Structure, Tidy, NEW w \in Worker, Start(w), Calm'
  PROVE  Tidy'
<1> USE DEF Structure
<1>1. /\ task[w].pc = "idle" /\ Others(w) /\ task'[w].pc = "load"
      /\ task'[w].outer = NoList
  BY StartGoes
<1>2. task'[w].job.op # "list" => \A v \in Worker : ~Saves(task[v])
  <2>1. PICK j \in Requests :
          /\ task' = [task EXCEPT ![w] = [Idle EXCEPT !.pc = "load", !.job = j]]
          /\ j.op # "list" /\ (\E v \in Worker : Saves(task[v])) =>
               "overlap" \in excuses'
    BY DEF Start
  <2>2. task'[w].job = j
    BY <2>1 DEF TypeOK, Idle
  <2>3. QED
    BY <2>1, <2>2 DEF Calm
<1>3. InStep(w)' /\ UNCHANGED <<file, stock, dismissed>>
  BY <1>1, AtRestInStep DEF Loading, Start
<1>4. QED
  BY <1>1, <1>2, <1>3, QuietTidy DEF Writing, Saves, Loading

(* A thread that begins with the list in the file is in step with it.      *)
LEMMA BeginInStep ==
  ASSUME Structure, NEW w \in Worker, task[w].pc \in Loading,
         NEW list \in Directory \cup {Shared}, Begins(w, list, task'[w]),
         file' \in Directory, UNCHANGED stock, Listed(list) = file',
         task[w].outer # NoList => file' = Listed(task[w].outer) /\ list \in Directory
  PROVE  /\ InStep(w)' /\ ~Writing(w)'
         /\ Saves(task'[w]) => Saves(task[w])
<1> USE DEF Structure
<1> DEFINE t == task[w]
           s == task'[w]
           e == t.job.who
<1>1. /\ t \in Task /\ t.job \in Request /\ e \in Person
      /\ t.job.op \in {"transfer", "grant", "revoke", "fire", "delete", "list"}
  BY HasJob, JobTypes DEF Placed, Loading
<1>2. t.outer # NoList => t.job.op = "fire" /\ t.job.action = "fire_all"
  BY DEF Placed
<1>3. list # NoList
  BY Sentinels
<1>4. CASE s = Idle
  BY <1>4, AtRestInStep DEF Idle, Writing, Saves
<1>5. CASE s = Return(t) /\ t.outer # NoList /\ Listed(list)[e] = NoRecord
  <2>1. /\ s.pc = "update" /\ s.list = t.outer /\ s.outer = NoList
        /\ s.job = [op |-> "drop", who |-> e, wipe |-> TRUE]
    BY <1>1, <1>5, ReturnGoes
  <2>2. s.job.op = "drop" /\ s.job.wipe /\ s.job.who = e
    BY <2>1
  <2>3. Off(file', Listed(task[w].list)', e) /\ Outside(file', e)
    BY <1>5, <2>1 DEF Off, Outside, Listed
  <2>4. QED
    BY <1>2, <1>5, <2>1, <2>2, <2>3
    DEF InStep, Loading, Working, Migrating, Writing, Saves, Placed
<1>6. CASE /\ s.job = t.job /\ s.outer = t.outer /\ s.list = list
           /\ s.pc \in {"update", "resolve", "wipe"}
           /\ t.job.op \in {"transfer", "grant", "revoke", "fire"}
           /\ s.pc = "update" => t.job.op = "transfer"
           /\ s.pc = "resolve" => t.job.op \in {"transfer", "grant"}
  <2>1. Listed(task[w].list)' = file' /\ Listed(task[w].outer)' = Listed(t.outer)
    BY <1>6 DEF Listed
  <2>2. QED
    BY <1>2, <1>3, <1>6, <2>1
    DEF InStep, Loading, Working, Migrating, Writing, Saves
<1>7. CASE /\ t.job.op = "delete" /\ s.pc = "load" /\ s.list = list
           /\ s.outer = list /\ s.job = Dismissal(e)
  <2>1. Listed(task[w].outer)' = file'
    BY <1>7 DEF Listed
  <2>2. QED
    BY <1>3, <1>7, <2>1
    DEF InStep, Loading, Working, Migrating, Writing, Saves
<1>8. CASE /\ t.job.op = "delete" /\ s.pc = "update" /\ s.list = list
           /\ s.outer = t.outer
           /\ s.job = [op |-> "drop", who |-> e, wipe |-> FALSE]
  <2>1. Listed(task[w].list)' = file' /\ ~s.job.wipe /\ s.outer = NoList
    BY <1>2, <1>8 DEF Listed
  <2>2. QED
    BY <1>8, <2>1
    DEF InStep, Loading, Working, Migrating, Writing, Saves
<1>9. s = Return(t) /\ t.outer = NoList => s = Idle
  BY <1>1, ReturnGoes
<1>10. QED
  BY <1>1, <1>2, <1>4, <1>5, <1>6, <1>7, <1>8, <1>9 DEF Begins

(* A list is loaded, or there is none yet.                                 *)
LEMMA LoadTidy ==
  ASSUME Structure, Tidy, NEW w \in Worker, Load(w), Calm'
  PROVE  Tidy'
<1> USE DEF Structure
<1>1. task[w].pc = "load" /\ Others(w) /\ UNCHANGED <<stock, dismissed>>
  BY LoadGoes DEF Load, quiet
<1>2. CASE file \in Directory /\ file' = file /\ Begins(w, file, task'[w])
  <2>1. Listed(file) = file
    BY <1>2, Sentinels DEF Listed
  <2>2. task[w].outer # NoList => file = Listed(task[w].outer)
    BY <1>1 DEF Tidy, InStep, Loading
  <2>3. /\ InStep(w)' /\ ~Writing(w)'
        /\ Saves(task'[w]) => Saves(task[w])
    BY <1>1, <1>2, <2>1, <2>2, BeginInStep DEF Loading
  <2>4. QED
    BY <1>1, <1>2, <2>3, QuietTidy DEF Writing
<1>3. CASE /\ file \notin Directory /\ file' = Truncated
           /\ task'[w].pc = "restore" /\ Carries(w)
  <2>1. file = Absent
    BY <1>3 DEF Load, Excused, Calm
  <2>2. /\ stock = Stock /\ Saved = Absent /\ dismissed = {}
        /\ \A v \in Worker : /\ task[v].pc \in {"idle", "load", "restore"}
                             /\ task[v].outer = NoList
        /\ \A v \in Worker : ~Writing(v)
    BY <2>1, DirectoryAssumption DEF Tidy, Alone
  <2>3. \A v \in Worker : v # w => task'[v] = task[v]
    BY <1>1 DEF Others
  <2>4. \A v \in Worker : Writing(v)' <=> v = w
    BY <1>3, <2>2, <2>3 DEF Writing
  <2>5. \A v \in Worker : /\ task'[v].pc \in {"idle", "load", "restore"}
                          /\ task'[v].outer = NoList
    BY <1>3, <2>2, <2>3 DEF Carries
  <2>6. \A v \in Worker : Saves(task'[v]) => Saves(task[v])
    BY <1>1, <1>3, <2>3 DEF Saves, Carries
  <2>7. Alone'
    BY <1>1, <1>3, <2>2, <2>4, <2>5, <2>6, DirectoryAssumption DEF Tidy, Alone
  <2>8. \A v \in Worker : InStep(v)'
    BY <2>5, AtRestInStep DEF Loading
  <2>9. StaysOut'
    BY <1>3, <2>5, Sentinels DEF StaysOut
  <2>10. QED
    BY <2>7, <2>8, <2>9 DEF Tidy
<1>4. QED
  BY <1>2, <1>3, LoadGoes

(* Only one thread writes, and the file is a list again when it has.       *)
LEMMA WrittenTidy ==
  ASSUME Structure, Tidy, NEW w \in Worker, Writing(w), Others(w),
         file' \in Directory, UNCHANGED stock,
         InStep(w)' /\ ~Writing(w)',
         Saves(task'[w]) => Saves(task[w]),
         \A e \in dismissed' : Gone(file', e),
         \A v \in Worker \ {w} : InStep(v)'
  PROVE  Tidy'
<1>1. \A v \in Worker \ {w} : task'[v] = task[v]
  BY DEF Others
<1>2. \A v \in Worker : ~Writing(v)'
  BY <1>1 DEF Tidy, Alone, Writing
<1>3. Alone'
  BY <1>1, <1>2, Sentinels DEF Tidy, Alone, Writing
<1>4. StaysOut'
  BY <1>2 DEF StaysOut, Gone, Writing
<1>5. QED
  BY <1>3, <1>4 DEF Tidy

(* The first list is written.                                              *)
LEMMA RestoreTidy ==
  ASSUME Structure, Tidy, NEW w \in Worker, Restore(w), Calm'
  PROVE  Tidy'
<1> USE DEF Structure
<1>1. /\ task[w].pc = "restore" /\ Others(w) /\ Begins(w, Shared, task'[w])
      /\ UNCHANGED <<stock, dismissed>>
  BY RestoreGoes DEF Restore, quiet
<1>2. Writing(w) /\ file = Truncated
  BY <1>1 DEF Tidy, Alone, Writing
<1>3. file' = stock /\ stock \in Directory
  BY <1>2, DumpTypes DEF Restore, Calm, TypeOK
<1>4. /\ dismissed = {}
      /\ \A v \in Worker : /\ task[v].pc \in {"idle", "load", "restore"}
                           /\ task[v].outer = NoList
  BY <1>1 DEF Tidy, Alone
<1>5. /\ InStep(w)' /\ ~Writing(w)'
      /\ Saves(task'[w]) => Saves(task[w])
  BY <1>1, <1>3, <1>4, BeginInStep DEF Loading, Listed
<1>6. ASSUME NEW v \in Worker \ {w}
      PROVE  InStep(v)'
  BY <1>1, <1>4, <1>6, AtRestInStep DEF Others, Loading
<1>7. QED
  BY <1>1, <1>2, <1>3, <1>4, <1>5, <1>6, WrittenTidy

(* A request talks to the readers.                                         *)
LEMMA InnerTidy ==
  ASSUME Structure, Tidy, NEW w \in Worker,
         Resolve(w) \/ Migrate(w) \/ RemoveSource(w) \/ Wipe(w)
  PROVE  Tidy'
<1> USE DEF Structure
<1> DEFINE t == task[w]
           s == task'[w]
<1>1. UNCHANGED <<file, stock, dismissed>>
  BY DEF Resolve, Migrate, RemoveSource, Wipe, quiet
<1>2. /\ t.pc \in Migrating \cup {"wipe"} /\ Others(w)
      /\ \/ s = Idle
         \/ Carries(w) /\ s.pc \in {"migrate", "remove", "wipe", "update"}
      /\ s.pc = "wipe" => t.pc = "wipe"
      /\ t.pc = "wipe" => s.pc \in {"wipe", "update"}
  <2>1. CASE Resolve(w)
    BY <2>1, ResolveGoes DEF Migrating
  <2>2. CASE Migrate(w)
    <3>1. t.pc = "migrate" /\ Others(w) /\ (FailedMigration(w) \/ Copies(w))
      BY <2>2, MigrateGoes
    <3>2. /\ s = Idle \/ (Carries(w) /\ s.pc \in {"remove", "update"})
          /\ s.pc # "wipe"
      BY <3>1 DEF FailedMigration, Copies, Idle
    <3>3. QED
      BY <3>1, <3>2 DEF Migrating
  <2>3. CASE RemoveSource(w)
    BY <2>3, RemoveGoes DEF Migrating
  <2>4. CASE Wipe(w)
    BY <2>4, WipeGoes
  <2>5. QED
    BY <2>1, <2>2, <2>3, <2>4
<1>3. t.job.op \in {"transfer", "grant", "revoke", "fire"} /\ Saves(t)
      /\ (t.pc \in Migrating => t.outer = NoList)
  BY <1>2 DEF Placed, Migrating, Saves
<1>4. file \in Directory
  <2>1. file # Absent /\ \A v \in Worker : task[v].pc # "restore"
    BY <1>2 DEF Tidy, Alone, Migrating
  <2>2. \A v \in Worker : ~Writing(v)
    BY <1>2, <1>3, <2>1, OthersAtRest DEF Tidy, Writing, Loading, Migrating
  <2>3. QED
    BY <2>1, <2>2, FileIsList DEF Tidy
<1>5. InStep(w)'
  <2>1. CASE s = Idle
    BY <2>1, AtRestInStep DEF Idle
  <2>2. CASE Carries(w) /\ s.pc \in {"migrate", "remove", "wipe", "update"}
    <3>1. Listed(task[w].list)' = Listed(t.list)
          /\ Listed(task[w].outer)' = Listed(t.outer)
      BY <1>1, <2>2 DEF Listed, Carries
    <3>2. file = Listed(t.list)
      BY <1>2, <1>3 DEF Tidy, InStep, Working
    <3>3. t.outer # NoList =>
            t.pc = "wipe" /\ file = Listed(t.outer) /\ t.list \in Directory
      BY <1>2, <1>3 DEF Tidy, InStep
    <3>4. QED
      BY <1>1, <1>2, <1>3, <2>2, <3>1, <3>2, <3>3, Sentinels
      DEF InStep, Carries, Loading, Working
  <2>3. QED
    BY <1>2, <2>1, <2>2
<1>6. ~Writing(w) /\ ~Writing(w)'
  BY <1>2 DEF Writing, Migrating, Idle
<1>7. QED
  BY <1>1, <1>2, <1>3, <1>4, <1>5, <1>6, QuietTidy

(* A dismissal, or a removal, leaves nobody in service, and no other       *)
(* change brings back who was dismissed.                                   *)
LEMMA ChangedGone ==
  ASSUME NEW t \in Task, NEW emp \in Record, t.job \in Request,
         t.job.op \in {"transfer", "grant", "revoke", "fire"}
  PROVE  /\ emp.gone => Changed(t, emp).gone
         /\ t.job.op = "fire" /\ t.job.action = "fire_all" =>
              /\ Changed(t, emp).gone
              /\ \A r \in Reader : Changed(t, emp).access[r] = 0
<1>1. CASE t.job.op = "transfer"
  BY <1>1 DEF Changed, Transferred, Record
<1>2. CASE t.job.op = "grant"
  BY <1>2 DEF Changed, Granted, Record
<1>3. CASE t.job.op = "revoke"
  BY <1>3 DEF Changed, Revoked, Record
<1>4. CASE t.job.op = "fire"
  BY <1>4 DEF Changed, Offboarded, Record
<1>5. QED
  BY <1>1, <1>2, <1>3, <1>4

(* The record changes and the file is opened.                              *)
LEMMA UpdateTidy ==
  ASSUME Structure, Tidy, NEW w \in Worker, Update(w)
  PROVE  Tidy'
<1> USE DEF Structure
<1> DEFINE t == task[w]
           e == t.job.who
           emp == Employee(w)
           new == Changed(t, emp)
           old == Listed(t.list)
<1>1. /\ t.pc = "update" /\ Others(w) /\ task'[w].pc = "write"
      /\ task'[w].job = t.job /\ task'[w].outer = t.outer
      /\ file' = Truncated /\ Rewritten(w) \in Directory
      /\ t.job.op = "drop" => new = NoRecord
      /\ stock' = IF InPlace(w) THEN Rewritten(w) ELSE stock
      /\ task'[w].list = IF InPlace(w) THEN Shared ELSE Rewritten(w)
      /\ Listed(task[w].list)' = Rewritten(w)
      /\ UNCHANGED dismissed
  BY UpdateGoes DEF Update, quiet
<1>2. /\ t \in Task /\ e \in Person /\ old \in Directory
      /\ t.job \in Request \cup Removal /\ Saves(t)
      /\ t.job.op # "drop" =>
           /\ emp \in Record /\ t.job \in Request
           /\ t.job.op \in {"transfer", "grant", "revoke", "fire"}
  BY <1>1, AtWork, JobTypes DEF Working, Loading, Placed, Saves
<1>3. Rewritten(w) = [old EXCEPT ![e] = new] /\ emp = old[e]
  BY DEF Rewritten, Employee
<1>4. \A v \in Worker : v # w => /\ task'[v] = task[v] /\ ~Saves(task[v])
                                 /\ task[v].pc \in Loading \cup {"idle"}
  BY <1>1, <1>2, OthersAtRest DEF Others, Tidy
<1>5. file # Absent /\ \A v \in Worker : task[v].pc # "restore"
  BY <1>1 DEF Tidy, Alone
<1>6. file \in Directory
  BY <1>1, <1>4, <1>5, FileIsList DEF Tidy, Writing, Loading
<1>7. \A v \in Worker : Writing(v)' <=> v = w
  BY <1>1, <1>4, <1>5 DEF Writing, Loading
<1>8. Alone'
  BY <1>1, <1>2, <1>4, <1>5, <1>7, DirectoryAssumption DEF Alone, Saves, Writing
<1>9. IF t.job.op = "drop" /\ t.job.wipe
        THEN Off(file, old, e) ELSE file = old
  BY <1>1 DEF Tidy, InStep, Working
<1> HIDE DEF new
<1>10. \A x \in Person : Rewritten(w)[x] = IF x = e THEN new ELSE old[x]
  BY <1>2, <1>3 DEF Directory
<1>11. InStep(w)'
  <2>1. ASSUME t.outer # NoList
        PROVE  /\ Rewritten(w) # NoList /\ ~InPlace(w) /\ UNCHANGED stock
               /\ Off(Rewritten(w), Listed(t.outer), e)
               /\ Outside(Rewritten(w), e)
    <3>1. t.job.op = "fire" /\ t.job.action = "fire_all" /\ file = Listed(t.outer)
          /\ t.list \in Directory
      BY <1>1, <2>1 DEF Placed, Tidy, InStep
    <3>2. new.gone /\ \A r \in Reader : new.access[r] = 0
      BY <1>2, <3>1, ChangedGone DEF new
    <3>3. ~InPlace(w)
      BY <3>1, Sentinels DEF InPlace
    <3>4. QED
      BY <1>1, <1>2, <1>9, <1>10, <3>1, <3>2, <3>3, Sentinels DEF Off, Outside
  <2>2. t.outer # NoList => Listed(task[w].outer)' = Listed(t.outer)
    BY <1>1, <2>1 DEF Listed
  <2>3. QED
    BY <1>1, <2>1, <2>2 DEF InStep, Loading, Working, Migrating
<1>12. \A v \in Worker : InStep(v)'
  BY <1>1, <1>2, <1>11, OthersInStep
<1>13. StaysOut'
  <2>1. \A x \in dismissed : Gone(Rewritten(w), x)
    <3>1. ASSUME NEW x \in dismissed
          PROVE  Gone(Rewritten(w), x)
      <4>1. x \in Person /\ Gone(file, x)
        BY <1>6, <3>1 DEF Tidy, StaysOut, TypeOK
      <4>2. CASE x # e
        BY <1>9, <1>10, <4>1, <4>2 DEF Off, Gone
      <4>3. CASE x = e /\ t.job.op = "drop"
        BY <1>1, <1>10, <4>1, <4>3 DEF Gone, new
      <4>4. CASE x = e /\ t.job.op # "drop"
        <5>1. emp.gone
          BY <1>2, <1>3, <1>9, <4>1, <4>4, DirectoryAssumption DEF Gone
        <5>2. new.gone
          BY <1>2, <4>4, <5>1, ChangedGone DEF new
        <5>3. QED
          BY <1>10, <4>1, <4>4, <5>2 DEF Gone
      <4>5. QED
        BY <4>2, <4>3, <4>4
    <3>2. QED
      BY <3>1
  <2>2. t.job.op = "drop" \/ (t.job.op = "fire" /\ t.job.action = "fire_all") =>
          Gone(Rewritten(w), e)
    <3>1. t.job.op = "fire" /\ t.job.action = "fire_all" => new.gone
      BY <1>2, ChangedGone DEF new
    <3>2. QED
      BY <1>1, <1>2, <1>10, <3>1 DEF Gone, new
  <2>3. \A v \in Worker : task'[v].pc = "write" => v = w
    BY <1>7 DEF Writing
  <2>4. file' \notin Directory
    BY <1>1, Sentinels
  <2> HIDE DEF t, e
  <2>5. QED
    BY <1>1, <2>1, <2>2, <2>3, <2>4 DEF StaysOut, Gone, t, e
<1>14. QED
  BY <1>8, <1>12, <1>13 DEF Tidy

(* The list is written.                                                    *)
LEMMA WriteTidy ==
  ASSUME Structure, Tidy, NEW w \in Worker, Write(w), Calm'
  PROVE  Tidy'
<1> USE DEF Structure
<1> DEFINE t == task[w]
           s == task'[w]
           e == t.job.who
           old == Listed(t.list)
<1>1. /\ t.pc = "write" /\ Others(w) /\ s = Return(t) /\ old \in Directory
      /\ e \in Person /\ UNCHANGED stock
      /\ dismissed' = IF \/ t.job.op = "drop"
                         \/ t.job.op = "fire" /\ t.job.action = "fire_all"
                        THEN dismissed \cup {e} ELSE dismissed
  BY WriteGoes DEF Write
<1>2. Writing(w) /\ file = Truncated /\ Saves(t) /\ t \in Task
  BY <1>1, AtWork DEF Tidy, Alone, Writing, Saves, Placed, Loading
<1>3. file' = old
  BY <1>1, <1>2, DumpTypes DEF Write, Calm
<1>4. \A x \in dismissed' : Gone(file', x)
  BY <1>1, <1>3 DEF Tidy, StaysOut
<1>5. InStep(w)' /\ ~Writing(w)'
  <2>1. CASE t.outer = NoList
    <3>1. s = Idle
      BY <1>1, <1>2, <2>1, ReturnGoes
    <3>2. QED
      BY <3>1, AtRestInStep DEF Idle, Writing
  <2>2. CASE t.outer # NoList
    <3>1. /\ s.pc = "update" /\ s.list = t.outer /\ s.outer = NoList
          /\ s.job = [op |-> "drop", who |-> e, wipe |-> TRUE]
      BY <1>1, <1>2, <2>2, ReturnGoes
    <3>2. s.job.op = "drop" /\ s.job.wipe /\ s.job.who = e
      BY <3>1
    <3>3. Listed(task[w].list)' = Listed(t.outer)
      BY <1>1, <3>1 DEF Listed
    <3>4. /\ t.list \in Directory /\ Off(t.list, Listed(t.outer), e)
          /\ Outside(t.list, e)
      BY <1>1, <2>2 DEF Tidy, InStep
    <3>5. file' = t.list
      BY <1>3, <3>4, Sentinels DEF Listed
    <3>6. file' \in Directory
      BY <3>4, <3>5
    <3>7. Off(file', Listed(task[w].list)', e) /\ Outside(file', e)
      BY <3>3, <3>4, <3>5
    <3> HIDE DEF e, t
    <3>8. QED
      BY <3>1, <3>2, <3>6, <3>7
      DEF InStep, Loading, Working, Migrating, Writing
  <2>3. QED
    BY <2>1, <2>2
<1>6. \A v \in Worker \ {w} : InStep(v)'
  BY <1>1, <1>2, OthersInStep
<1>7. QED
  BY <1>1, <1>2, <1>3, <1>4, <1>5, <1>6, WrittenTidy

(* As long as nothing goes wrong, a step leaves everything in order.       *)
LEMMA OrderlyStep ==
  ASSUME Structure, Orderly, [Next]_vars
  PROVE  Orderly'
<1>1. SUFFICES ASSUME Calm' PROVE Tidy'
  BY DEF Orderly
<1>2. Tidy
  BY <1>1, ExcusesGrow DEF Orderly, Calm
<1>3. CASE \E w \in Worker :
             \/ Start(w) \/ Load(w) \/ Restore(w) \/ Resolve(w) \/ Migrate(w)
             \/ RemoveSource(w) \/ Wipe(w) \/ Update(w) \/ Write(w)
  BY <1>1, <1>2, <1>3, StartTidy, LoadTidy, RestoreTidy, InnerTidy,
     UpdateTidy, WriteTidy
<1>4. ASSUME \/ \E r \in Reader : LearnNames(r) \/ ReaderPolls(r)
             \/ UNCHANGED vars
      PROVE  Tidy'
  <2>1. UNCHANGED <<file, stock, task, dismissed>>
    BY <1>4 DEF LearnNames, ReaderPolls, quiet, vars
  <2>2. Alone' /\ StaysOut' /\ \A w \in Worker : InStep(w)'
    BY <1>2, <2>1 DEF Tidy, Alone, StaysOut, InStep, Writing, Listed
  <2>3. QED
    BY <2>2 DEF Tidy
<1>5. CASE Kill
  BY <1>1, <1>5 DEF Kill, Mishap, Calm
<1>6. QED
  BY <1>3, <1>4, <1>5 DEF Next

-----------------------------------------------------------------------------
(* Nothing to excuse                                                       *)

(* A thread that rests or loads has nothing to clear or to enter.          *)
LEMMA AtEase ==
  ASSUME NEW v \in Worker, task[v].pc \notin {"remove", "wipe", "update"}
  PROVE  /\ \A r : ~Clears(v, r)
         /\ \A r, p : ~Enters(v, r, p)
BY DEF Clears, Enters

(* What agreement says while one request that saves is under way.          *)
LEMMA AgreesUse ==
  ASSUME Structure, Tidy, NEW w \in Worker, Saves(task[w]),
         NEW dir \in Directory, Agrees(dir)
  PROVE  /\ \A x \in Person, r \in Reader :
              dir[x] # NoRecord /\ dir[x].access[r] # 0 =>
                \/ Is(r, dir[x].access[r], x)
                \/ Clears(w, r) /\ x = task[w].job.who
         /\ \A r \in Reader, p \in Pin :
              users[r][p] # NoUser =>
                LET x == users[r][p].who
                IN  \/ dir[x] # NoRecord /\ dir[x].access[r] = p
                    \/ <<x, r, p>> \in orphans
                    \/ Enters(w, r, p) /\ x = task[w].job.who
<1>1. ASSUME NEW v \in Worker, v # w
      PROVE  (\A r : ~Clears(v, r)) /\ \A r, p : ~Enters(v, r, p)
  <2>1. task[v].pc \in Loading \cup {"idle"}
    BY <1>1, OthersAtRest DEF Tidy
  <2>2. QED
    BY <2>1, AtEase DEF Loading
<1>2. ASSUME NEW x \in Person, NEW r \in Reader, dir[x] # NoRecord,
             dir[x].access[r] # 0
      PROVE  \/ Is(r, dir[x].access[r], x)
             \/ Clears(w, r) /\ x = task[w].job.who
  <2> DEFINE t == <<x, r, dir[x].access[r]>>
  <2>1. t \in Entries(dir) /\ t[1] = x /\ t[2] = r /\ t[3] = dir[x].access[r]
    BY <1>2, EntriesAre
  <2> HIDE DEF t
  <2>2. \/ Is(t[2], t[3], t[1])
        \/ \E v \in Worker : Clears(v, t[2]) /\ t[1] = task[v].job.who
    BY <2>1 DEF Agrees
  <2>3. QED
    BY <1>1, <2>1, <2>2
<1>3. ASSUME NEW r \in Reader, NEW p \in Pin, users[r][p] # NoUser
      PROVE  LET x == users[r][p].who
             IN  \/ dir[x] # NoRecord /\ dir[x].access[r] = p
                 \/ <<x, r, p>> \in orphans
                 \/ Enters(w, r, p) /\ x = task[w].job.who
  <2>1. users[r][p].who \in Person
    BY <1>3 DEF Structure, TypeOK, ReadersTypeOK, Profile
  <2>2. \/ <<users[r][p].who, r, p>> \in Entries(dir) \cup orphans
        \/ \E v \in Worker : /\ Enters(v, r, p)
                             /\ task[v].job.who = users[r][p].who
    BY <1>3 DEF Agrees
  <2>3. QED
    BY <1>1, <2>1, <2>2, EntriesAre
<1>4. QED
  BY <1>2, <1>3

(* When a list agrees after a step.                                        *)
LEMMA AgreesShow ==
  ASSUME NEW w \in Worker, NEW dir \in Directory,
         users' \in [Reader -> [Pin -> Profile \cup {NoUser}]],
         \A x \in Person, r \in Reader :
           dir[x] # NoRecord /\ dir[x].access[r] # 0 =>
             \/ Is(r, dir[x].access[r], x)'
             \/ Clears(w, r)' /\ x = task'[w].job.who,
         \A r \in Reader, p \in Pin :
           users'[r][p] # NoUser =>
             LET x == users'[r][p].who
             IN  \/ dir[x] # NoRecord /\ dir[x].access[r] = p
                 \/ <<x, r, p>> \in orphans'
                 \/ Enters(w, r, p)' /\ x = task'[w].job.who
  PROVE  Agrees(dir)'
<1>1. ASSUME NEW t \in Entries(dir)
      PROVE  \/ Is(t[2], t[3], t[1])'
             \/ \E v \in Worker : Clears(v, t[2])' /\ t[1] = task'[v].job.who
  <2>1. /\ t[1] \in Person /\ t[2] \in Reader /\ t[3] \in Pin
        /\ t = <<t[1], t[2], t[3]>>
    BY EntriesAre
  <2>2. dir[t[1]] # NoRecord /\ dir[t[1]].access[t[2]] = t[3] /\ t[3] # 0
    BY <2>1, EntriesAre, ReadersAssumption DEF Pin
  <2>3. QED
    BY <2>1, <2>2
<1>2. ASSUME NEW r \in Reader, NEW p \in Pin, users'[r][p] # NoUser
      PROVE  \/ <<users'[r][p].who, r, p>> \in Entries(dir) \cup orphans'
             \/ \E v \in Worker : /\ Enters(v, r, p)'
                                  /\ task'[v].job.who = users'[r][p].who
  <2>1. users'[r][p].who \in Person
    BY <1>2 DEF Profile
  <2>2. QED
    BY <1>2, <2>1, EntriesAre
<1>3. QED
  BY <1>1, <1>2 DEF Agrees

(* While the readers stay as they are, and no change is due, so does what  *)
(* agrees with them.                                                       *)
LEMMA SteadyAgreement ==
  ASSUME NEW w \in Worker, Others(w), UNCHANGED <<users, orphans, stock>>,
         task[w].pc \notin {"remove", "wipe", "update"},
         \A dir \in Directory : Current(dir)' => Current(dir),
         Agreement
  PROVE  Agreement'
<1>1. SUFFICES ASSUME NEW dir \in Directory, Agrees(dir)
               PROVE  Agrees(dir)'
  BY DEF Agreement
<1>2. ASSUME NEW v \in Worker, v # w
      PROVE  task'[v] = task[v] /\ Employee(v)' = Employee(v)
  BY <1>2 DEF Others, Employee, Listed
<1>3. ASSUME NEW v \in Worker, NEW r
      PROVE  Clears(v, r) => Clears(v, r)' /\ task'[v] = task[v]
  BY <1>2, AtEase DEF Clears
<1>4. ASSUME NEW v \in Worker, NEW r, NEW p
      PROVE  Enters(v, r, p) => Enters(v, r, p)' /\ task'[v] = task[v]
  BY <1>2, AtEase DEF Enters
<1>5. ASSUME NEW t \in Entries(dir)
      PROVE  \/ Is(t[2], t[3], t[1])'
             \/ \E v \in Worker : Clears(v, t[2])' /\ t[1] = task'[v].job.who
  BY <1>1, <1>3 DEF Agrees, Is
<1>6. ASSUME NEW r \in Reader, NEW p \in Pin, users'[r][p] # NoUser
      PROVE  \/ <<users'[r][p].who, r, p>> \in Entries(dir) \cup orphans'
             \/ \E v \in Worker : /\ Enters(v, r, p)'
                                  /\ task'[v].job.who = users'[r][p].who
  BY <1>1, <1>4, <1>6 DEF Agrees
<1>7. QED
  BY <1>5, <1>6 DEF Agrees

(* A thread that does not write makes no list current.                     *)
LEMMA SteadyCurrent ==
  ASSUME NEW w \in Worker, Others(w), UNCHANGED <<file, stock>>,
         ~Writing(w)', NEW dir, Current(dir)'
  PROVE  Current(dir)
BY DEF Current, Others, Writing, Listed

(* What the other threads' requests have done does not change.             *)
LEMMA OthersDue ==
  ASSUME Structure, Tidy, NEW w \in Worker, Others(w),
         Saves(task[w]) \/ UNCHANGED <<users, stock>>,
         NEW v \in Worker, v # w, Due(v)
  PROVE  Due(v)'
<1>1. task'[v] = task[v]
  BY DEF Others
<1>2. CASE Saves(task[w])
  <2>1. task[v].pc \in Loading \cup {"idle"} /\ ~task[v].ok
    BY <1>2, OthersAtRest DEF Structure, Placed, Tidy, Loading
  <2>2. QED
    BY <1>1, <2>1 DEF Due, Loading, Migrating
<1>3. CASE UNCHANGED <<users, stock>>
  <2>1. /\ Employee(v)' = Employee(v) /\ Source(v)' = Source(v)
        /\ \A r : Clears(v, r)' <=> Clears(v, r)
    BY <1>1, <1>3 DEF Employee, Listed, Source, Clears, AccessPin
  <2>2. QED
    BY <1>1, <1>3, <2>1 DEF Due, Is
<1>4. QED
  BY <1>2, <1>3

(* A request that begins has done nothing yet.                             *)
LEMMA BeginDue ==
  ASSUME Structure, Tidy, NEW w \in Worker, task[w].pc \in Loading,
         NEW list \in Directory \cup {Shared}, Begins(w, list, task'[w]),
         UNCHANGED <<users, stock>>, Agrees(Listed(list)), Due(w)
  PROVE  Due(w)'
<1> USE DEF Structure
<1> DEFINE t == task[w]
           s == task'[w]
           e == t.job.who
           emp == Listed(list)[e]
<1>1. /\ t \in Task /\ t.job \in Request /\ e \in Person
      /\ t.job.op \in {"transfer", "grant", "revoke", "fire", "delete", "list"}
      /\ Listed(list) \in Directory
  BY HasJob, JobTypes, ListedIsDirectory DEF Placed, Loading
<1>2. t.job.op = "fire" => t.job.action = "fire_all" \/ OneReader(t.job)
  BY DEF Due, Loading
<1>3. CASE s = Return(t)
  <2>1. \/ s = Idle
        \/ /\ s.pc = "update" /\ s.ok = FALSE
           /\ s.job = [op |-> "drop", who |-> e, wipe |-> TRUE]
    BY <1>1, <1>3, ReturnGoes
  <2>2. CASE s = Idle
    BY <2>2 DEF Due, Idle, Migrating
  <2>3. CASE /\ s.pc = "update" /\ s.ok = FALSE
             /\ s.job = [op |-> "drop", who |-> e, wipe |-> TRUE]
    BY <2>3 DEF Due, Migrating
  <2>4. QED
    BY <2>1, <2>2, <2>3
<1>4. CASE s = Idle
  BY <1>4 DEF Due, Idle, Migrating
<1>5. CASE /\ s.job = t.job /\ s.list = list /\ ~s.ok /\ s.pc = "wipe"
           /\ t.job.op \in {"revoke", "fire"} /\ emp # NoRecord
           /\ Targets(emp, t.job, s.todo)
  <2>1. Employee(w)' = emp
    BY <1>5 DEF Employee, Listed
  <2>2. Saves(t)
    BY <1>5 DEF Saves, Loading
  <2>3. \A r \in Reader : emp.access[r] # 0 => Is(r, emp.access[r], e)
    BY <1>1, <1>5, <2>2, AgreesUse, AtEase DEF Loading
  <2>4. \A r, p, x : Is(r, p, x)' <=> Is(r, p, x)
    BY DEF Is
  <2>5. \A r : Clears(w, r)' <=>
          \/ t.job.op = "revoke" /\ ~t.job.printsOnly /\ r = t.job.at
          \/ t.job.op = "fire" /\ (t.job.action = "fire_all" \/ r = t.job.at)
    BY <1>5 DEF Clears
  <2>6. \A x \in s.todo : /\ x[2] = AccessPin(emp, e, x[1])
                          /\ ~t.job.printsOnly => Clears(w, x[1])'
    BY <1>2, <1>5, <2>5 DEF Targets
  <2>7. ASSUME NEW r \in Reader, emp.access[r] # 0, Clears(w, r)'
        PROVE  <<r, emp.access[r]>> \in s.todo
    BY <1>5, <2>5, <2>7 DEF Targets, AccessPin
  <2> HIDE DEF emp, e, t
  <2>8. QED
    BY <1>2, <1>5, <2>1, <2>3, <2>4, <2>6, <2>7
    DEF Due, Migrating, AccessPin, e, t
<1>6. CASE /\ s.job = t.job /\ s.list = list /\ ~s.ok
           /\ \/ s.pc = "update" /\ t.job.op = "transfer"
              \/ /\ s.pc = "resolve" /\ t.job.op \in {"transfer", "grant"}
                 /\ t.job.op = "transfer" => emp.home # t.job.to
  <2>1. Employee(w)' = emp
    BY <1>6 DEF Employee, Listed
  <2>2. QED
    BY <1>1, <1>6, <2>1 DEF Due, Migrating
<1>7. CASE s.pc = "load" /\ s.job = Dismissal(e) /\ ~s.ok
  BY <1>7 DEF Due, Migrating, Dismissal
<1>8. CASE /\ s.pc = "update" /\ ~s.ok
           /\ s.job = [op |-> "drop", who |-> e, wipe |-> FALSE]
  BY <1>8 DEF Due, Migrating
<1>9. QED
  BY <1>1, <1>3, <1>4, <1>5, <1>6, <1>7, <1>8 DEF Begins

(* A thread that works on an employee is the only one to save, and what it *)
(* works on is what the file has.                                          *)
LEMMA FileAtWork ==
  ASSUME Structure, Tidy, NEW w \in Worker, task[w].pc \in Working
  PROVE  /\ Saves(task[w]) /\ file \in Directory
         /\ \A v \in Worker : ~Writing(v)
         /\ \A dir : Current(dir) <=> dir = file
         /\ task[w].job.op # "drop" =>
              file = Listed(task[w].list) /\ Employee(w) = file[task[w].job.who]
<1>1. Saves(task[w])
  BY DEF Structure, Placed, Saves, Loading, Working, Migrating
<1>2. file # Absent /\ \A v \in Worker : task[v].pc # "restore"
  BY DEF Tidy, Alone, Working, Migrating
<1>3. \A v \in Worker : ~Writing(v)
  BY <1>1, <1>2, OthersAtRest DEF Tidy, Writing, Loading, Working, Migrating
<1>4. file \in Directory
  BY <1>2, <1>3, FileIsList DEF Tidy
<1>5. \A dir : Current(dir) <=> dir = file
  BY <1>2, <1>3 DEF Current, Writing
<1>6. task[w].job.op # "drop" => file = Listed(task[w].list)
  BY DEF Tidy, InStep
<1>7. QED
  BY <1>1, <1>3, <1>4, <1>5, <1>6 DEF Employee

(* A request that begins does not write.                                   *)
LEMMA BeginReads ==
  ASSUME Structure, NEW w \in Worker, task[w].pc \in Loading, NEW list,
         Begins(w, list, task'[w])
  PROVE  ~Writing(w)'
<1>1. task[w] \in Task /\ task[w].job.who \in Person
  BY HasJob, JobTypes DEF Structure, Loading
<1>2. CASE task'[w] = Return(task[w])
  <2>1. task'[w] = Idle \/ task'[w].pc = "update"
    BY <1>1, <1>2, ReturnGoes
  <2>2. QED
    BY <2>1 DEF Writing, Idle
<1>3. CASE task'[w] # Return(task[w])
  BY <1>3 DEF Begins, Writing, Idle
<1>4. QED
  BY <1>2, <1>3

(* Arriving, loading, restoring and writing leave the readers alone.       *)
LEMMA OfficeUntouched ==
  ASSUME Structure, Tidy, Untouched, NEW w \in Worker,
         Start(w) \/ Load(w) \/ Restore(w) \/ Write(w), excuses' = {}
  PROVE  Untouched'
<1> USE DEF Structure
<1>1. UNCHANGED <<users, commands, harmed, replaced, orphans, stock>>
  BY DEF Start, Load, Restore, Write, readerVars, readerHistory
<1>2. Calm' /\ task[w].pc \in Loading \cup {"idle", "write"} /\ Others(w)
  BY StartGoes, LoadGoes, RestoreGoes, WriteGoes DEF Calm, Loading
<1>3. ASSUME \A dir \in Directory : Current(dir)' => Current(dir), Due(w)'
      PROVE  Untouched'
  <2>1. Agreement'
    BY <1>1, <1>2, <1>3, SteadyAgreement DEF Untouched, Loading
  <2>2. \A v \in Worker : Due(v)'
    BY <1>1, <1>2, <1>3, OthersDue DEF Untouched
  <2>3. QED
    BY <1>1, <2>1, <2>2 DEF Untouched, Truthful
<1>4. CASE Start(w)
  <2>1. task'[w].pc = "load" /\ UNCHANGED file
    BY <1>4, StartGoes DEF Start
  <2>2. \A dir \in Directory : Current(dir)' => Current(dir)
    BY <1>1, <1>2, <2>1, SteadyCurrent DEF Writing
  <2>3. PICK j \in Requests :
          /\ task' = [task EXCEPT ![w] = [Idle EXCEPT !.pc = "load", !.job = j]]
          /\ j.op = "fire" /\ j.action # "fire_all" /\ ~OneReader(j) =>
               "unnamed" \in excuses'
    BY <1>4 DEF Start
  <2>4. task'[w].job = j /\ ~task'[w].ok
    BY <2>3 DEF TypeOK, Idle
  <2>5. Due(w)'
    BY <2>1, <2>3, <2>4 DEF Due, Migrating
  <2>6. QED
    BY <1>3, <2>2, <2>5
<1>5. CASE Load(w) /\ file \in Directory /\ Begins(w, file, task'[w])
  <2>1. UNCHANGED file /\ task[w].pc = "load"
    BY <1>5, LoadGoes, Sentinels
  <2>2. \A dir \in Directory : Current(dir)' => Current(dir)
    BY <1>1, <1>2, <1>5, <2>1, BeginReads, SteadyCurrent DEF Loading
  <2>3. Agrees(file) /\ Listed(file) = file
    BY <1>5, Sentinels DEF Untouched, Agreement, Current, Listed
  <2>4. Due(w)'
    BY <1>1, <1>5, <2>1, <2>3, BeginDue DEF Loading, Untouched
  <2>5. QED
    BY <1>3, <2>2, <2>4
<1>6. CASE Load(w) /\ file \notin Directory
  <2>1. /\ task[w].pc = "load" /\ file' = Truncated /\ task'[w].pc = "restore"
        /\ Carries(w) /\ task'[w].ok = task[w].ok
    BY <1>6, LoadGoes
  <2>2. file = Absent
    BY <1>6 DEF Load, Excused
  <2>3. \A v \in Worker : task'[v].pc # "write"
    BY <1>2, <2>1, <2>2 DEF Others, Tidy, Alone
  <2>4. \A dir \in Directory : Current(dir)' => Current(dir)
    BY <1>1, <2>1, <2>2, <2>3, Sentinels DEF Current
  <2>5. Due(w) /\ ~task[w].ok
    BY <2>1 DEF Untouched, Placed
  <2>6. Due(w)'
    BY <2>1, <2>5 DEF Due, Carries, Migrating
  <2>7. QED
    BY <1>3, <2>4, <2>6
<1>7. CASE Restore(w)
  <2>1. task[w].pc = "restore" /\ Begins(w, Shared, task'[w])
    BY <1>7, RestoreGoes
  <2>2. file = Truncated
    BY <2>1 DEF Tidy, Alone, Writing
  <2>3. file' = stock
    BY <1>2, <1>7, <2>2, DumpTypes DEF Restore, Calm, TypeOK
  <2>4. Writing(w) /\ ~Writing(w)'
    BY <2>1, BeginReads DEF Writing, Loading
  <2>5. \A v \in Worker : ~Writing(v)'
    BY <1>2, <2>4 DEF Others, Tidy, Alone, Writing
  <2>6. Current(stock) /\ Agrees(stock) /\ Listed(Shared) = stock
    BY <2>1 DEF Current, Untouched, Agreement, TypeOK, Listed
  <2>7. \A dir \in Directory : Current(dir)' => Current(dir)
    BY <1>1, <2>3, <2>5, <2>6 DEF Current, Writing
  <2>8. Due(w)'
    BY <1>1, <2>1, <2>6, BeginDue DEF Loading, Untouched
  <2>9. QED
    BY <1>3, <2>7, <2>8
<1>8. CASE Write(w)
  <2>1. /\ task[w].pc = "write" /\ task'[w] = Return(task[w])
        /\ Listed(task[w].list) \in Directory
    BY <1>8, WriteGoes
  <2>2. file = Truncated /\ Writing(w)
    BY <2>1 DEF Tidy, Alone, Writing
  <2>3. file' = Listed(task[w].list)
    BY <1>2, <1>8, <2>1, <2>2, DumpTypes DEF Write, Calm
  <2>4. \/ task'[w] = Idle
        \/ /\ task'[w].pc = "update" /\ task'[w].ok = FALSE
           /\ task'[w].job =
                [op |-> "drop", who |-> task[w].job.who, wipe |-> TRUE]
    <3>1. task[w] \in Task /\ task[w].job.who \in Person
      BY <2>1, HasJob, JobTypes
    <3>2. QED
      BY <2>1, <3>1, ReturnGoes
  <2>5. ~Writing(w)'
    BY <2>4 DEF Writing, Idle
  <2>6. \A v \in Worker : ~Writing(v)'
    BY <1>2, <2>2, <2>5 DEF Others, Tidy, Alone, Writing
  <2>7. \A dir \in Directory : Current(dir)' => Current(dir)
    BY <1>1, <2>1, <2>3, <2>6, Sentinels DEF Current, Writing
  <2>8. Due(w)'
    <3>1. CASE task'[w] = Idle
      BY <3>1 DEF Due, Idle, Migrating
    <3>2. CASE task'[w] # Idle
      BY <2>4, <3>2 DEF Due, Migrating
    <3>3. QED
      BY <3>1, <3>2
  <2>9. QED
    BY <1>3, <2>7, <2>8
<1>9. QED
  BY <1>4, <1>5, <1>6, <1>7, <1>8, LoadGoes

(* While a request talks to the readers, only the list in the file counts. *)
LEMMA ReadersUntouched ==
  ASSUME Structure, Tidy, Untouched, NEW w \in Worker,
         task[w].pc \in Working, Others(w), ~Writing(w)',
         UNCHANGED <<file, stock, commands>>,
         Truthful', harmed' = {}, replaced' = {}, Due(w)',
         \A dir \in Directory : dir = file => Agrees(dir)'
  PROVE  Untouched'
<1>1. Agreement'
  BY FileAtWork, SteadyCurrent DEF Agreement
<1>2. \A v \in Worker : Due(v)'
  BY FileAtWork, OthersDue DEF Untouched
<1>3. QED
  BY <1>1, <1>2 DEF Untouched

(* Without a mishap or a wrong name, the PIN that is chosen is free or the *)
(* employee's own.                                                         *)
LEMMA ResolveUntouched ==
  ASSUME Structure, Tidy, Untouched, NEW w \in Worker, Resolve(w),
         excuses' = {}
  PROVE  Untouched'
<1> USE DEF Structure
<1> DEFINE t == task[w]
           e == t.job.who
           r == t.job.to
           p == Source(w)
           q == ResolvedPin(r, p, e)
<1>1. /\ t.pc = "resolve" /\ Others(w) /\ task'[w].pc = "migrate" /\ Carries(w)
      /\ task'[w].ok = t.ok /\ task'[w].pin \in Pin
  BY ResolveGoes
<1>2. /\ e \in Person /\ r \in Reader /\ p \in Pin
      /\ t.job.op \in {"transfer", "grant"}
  BY <1>1, Migration DEF Migrating
<1>3. /\ task'[w].pin = q
      /\ p \in Stored(r) => Reported(r, p) = ShownName(users[r][p], p)
  <2>1. /\ task' = [task EXCEPT ![w].pc = "migrate", ![w].pin = q]
        /\ ~(p \in Stored(r) /\ Reported(r, p) # ShownName(users[r][p], p))
    BY DEF Resolve, Fail, Mishap, Excused, Source
  <2> HIDE DEF q, p, r
  <2>2. QED
    BY <1>1, <2>1 DEF TypeOK
<1>4. \/ users[r][q] = NoUser
      \/ Is(r, q, e) /\ users[r][q].name = e
  <2>1. CASE p \notin Stored(r)
    BY <1>2, <2>1 DEF ResolvedPin, Stored
  <2>2. CASE p \in Stored(r) /\ Reported(r, p) = e
    <3>1. q = p /\ users[r][p] # NoUser /\ users[r][p].name = e
      BY <1>2, <1>3, <2>2, ReadersAssumption DEF ResolvedPin, Stored, ShownName
    <3>2. users[r][p].who = e
      BY <1>2, <3>1 DEF Untouched, Truthful
    <3>3. QED
      BY <3>1, <3>2 DEF Is
  <2>3. CASE p \in Stored(r) /\ Reported(r, p) # e
    <3>1. Stored(r) \in SUBSET Pin /\ MaxPin \notin Stored(r)
      BY DEF Stored, Resolve, HasRoom
    <3>2. q \in Pin \ Stored(r)
      BY <1>2, <2>3, <3>1, NextFreeIsFree DEF ResolvedPin
    <3>3. QED
      BY <3>2 DEF Stored
  <2>4. QED
    BY <2>1, <2>2, <2>3
<1> HIDE DEF q, p
<1>5. UNCHANGED <<users, file, stock, commands, harmed, replaced, orphans>>
  BY DEF Resolve, readerHistory
<1>6. Employee(w)' = Employee(w)
  BY <1>1, <1>5 DEF Employee, Listed, Carries
<1>7. Due(w) /\ ~t.ok
  BY <1>1 DEF Untouched, Placed
<1>8. Due(w)'
  BY <1>1, <1>2, <1>3, <1>4, <1>5, <1>6, <1>7 DEF Due, Carries, Migrating, Is
<1>9. Agreement'
  BY <1>1, <1>5, SteadyAgreement, SteadyCurrent DEF Untouched, Writing
<1>10. \A dir \in Directory : dir = file => Agrees(dir)'
  BY <1>5, <1>9 DEF Agreement, Current
<1>11. Truthful'
  BY <1>5 DEF Untouched, Truthful
<1>12. ~Writing(w)' /\ t.pc \in Working
  BY <1>1 DEF Writing, Working, Migrating
<1>13. QED
  BY <1>1, <1>5, <1>8, <1>10, <1>11, <1>12, ReadersUntouched DEF Untouched

(* The copy is the employee's, and nobody else had its place.              *)
LEMMA CopyUntouched ==
  ASSUME Structure, Tidy, Untouched, NEW w \in Worker, Migrate(w),
         Copied(w) # NoUser, Employee(w).home # task[w].job.to,
         Put(task[w].job.to, Place(w), Copy(w), "session"), Copies(w),
         CopiedName(w) = task[w].job.who
  PROVE  Untouched'
<1> USE DEF Structure
<1> DEFINE t == task[w]
           e == t.job.who
           r == t.job.to
           q == t.pin
           src == Employee(w).home
<1>1. /\ t.pc = "migrate" /\ Others(w) /\ r \in Reader /\ q \in Pin /\ e \in Person
      /\ src \in Reader /\ Source(w) \in Pin /\ Employee(w) \in Record
      /\ t.job.op \in {"transfer", "grant"}
      /\ Copied(w) \in Profile /\ Copy(w) \in Profile
      /\ Copy(w).who = Copied(w).who /\ Copy(w).name = e
  BY MigrateGoes, Migration DEF Migrate, Migrating, Placed
<1>2. UNCHANGED <<file, stock, commands, harmed, orphans>> /\ Due(w)
  BY DEF Migrate, Untouched
<1>3. Copied(w).who = e
  <2>1. Copied(w).name = e
    BY <1>1, ReadersAssumption DEF CopiedName, ShownName
  <2>2. QED
    BY <1>1, <2>1 DEF Untouched, Truthful, Copied
<1>4. users[r][q] = NoUser \/ (Is(r, q, e) /\ users[r][q].name = e)
  BY <1>1, <1>2 DEF Due
<1>5. Place(w) = q
  BY <1>4 DEF Place, PinFor, Is
<1>6. /\ users'[r][q] # NoUser
      /\ users'[r][q].who = e /\ users'[r][q].name = e
      /\ \A x \in Reader, k \in Pin : <<x, k>> # <<r, q>> =>
           users'[x][k] = users[x][k]
      /\ users' \in [Reader -> [Pin -> Profile \cup {NoUser}]]
  <2>1. Put(r, q, Copy(w), "session")
    BY <1>5
  <2>2. QED
    BY <1>1, <1>3, <2>1, PutStores, PutTypes DEF TypeOK
<1>7. replaced' = {}
  BY <1>1, <1>3, <1>4, <1>5 DEF Put, Is, Untouched
<1>8. Truthful'
  <2>1. ASSUME NEW x \in Reader, NEW k \in Pin, users'[x][k] # NoUser,
               users'[x][k].name \in Person
        PROVE  users'[x][k].name = users'[x][k].who
    <3>1. CASE x = r /\ k = q
      BY <1>6, <3>1
    <3>2. CASE <<x, k>> # <<r, q>>
      <4>1. users'[x][k] = users[x][k]
        BY <1>6, <3>2
      <4>2. QED
        BY <2>1, <4>1 DEF Untouched, Truthful
    <3>3. QED
      BY <3>1, <3>2
  <2>2. QED
    BY <2>1 DEF Truthful
<1>9. /\ task'[w].job = t.job /\ task'[w].list = t.list /\ task'[w].pin = q
      /\ IF t.job.op = "transfer" /\ t.job.mode = "move"
           THEN task'[w].pc = "remove" /\ ~task'[w].ok
           ELSE task'[w].pc = "update" /\ task'[w].ok
  BY DEF Copies, Carries
<1>10. Employee(w)' = Employee(w)
  BY <1>2, <1>9 DEF Employee, Listed
<1>11. Source(w)' = Source(w)
  BY <1>9, <1>10 DEF Source, AccessPin
<1>12. Due(w)'
  <2>1. users'[src][Source(w)] = NoUser
        \/ (users'[src][Source(w)] # NoUser /\ users'[src][Source(w)].who = e)
    BY <1>1, <1>3, <1>6 DEF Copied
  <2>2. QED
    BY <1>1, <1>6, <1>9, <1>10, <1>11, <2>1 DEF Due, Is, Migrating
<1>13. ASSUME NEW dir \in Directory, dir = file
       PROVE  Agrees(dir)'
  <2>1. Agrees(dir) /\ Saves(t)
    BY <1>1, <1>13, FileAtWork DEF Untouched, Agreement, Working, Migrating
  <2>2. (\A x : ~Clears(w, x)) /\ \A x, k : ~Enters(w, x, k)
    BY <1>1, AtEase
  <2>3. ASSUME NEW x \in Person, NEW y \in Reader, dir[x] # NoRecord,
               dir[x].access[y] # 0
        PROVE  Is(y, dir[x].access[y], x)'
    <3> DEFINE k == dir[x].access[y]
    <3>1. k \in Pin /\ Is(y, k, x)
      BY <2>1, <2>2, <2>3, AgreesUse, EntriesAre
    <3> HIDE DEF k
    <3>2. CASE y = r /\ k = q
      <4>1. x = e
        BY <1>4, <3>1, <3>2 DEF Is
      <4>2. QED
        BY <1>6, <3>2, <4>1 DEF Is, k
    <3>3. CASE <<y, k>> # <<r, q>>
      <4>1. users'[y][k] = users[y][k]
        BY <1>6, <3>1, <3>3
      <4>2. QED
        BY <3>1, <4>1 DEF Is, k
    <3>4. QED
      BY <3>2, <3>3
  <2>4. ASSUME NEW y \in Reader, NEW k \in Pin, users'[y][k] # NoUser
        PROVE  LET x == users'[y][k].who
               IN  \/ dir[x] # NoRecord /\ dir[x].access[y] = k
                   \/ <<x, y, k>> \in orphans'
                   \/ Enters(w, y, k)' /\ x = task'[w].job.who
    <3>1. CASE y = r /\ k = q
      <4>1. Enters(w, y, k)'
        BY <1>9, <3>1 DEF Enters
      <4>2. QED
        BY <1>6, <1>9, <3>1, <4>1
    <3>2. CASE <<y, k>> # <<r, q>>
      <4>1. users'[y][k] = users[y][k]
        BY <1>6, <3>2
      <4>2. QED
        BY <1>2, <2>1, <2>2, <2>4, <4>1, AgreesUse
    <3>3. QED
      BY <3>1, <3>2
  <2>5. QED
    BY <1>6, <2>3, <2>4, AgreesShow
<1>14. ~Writing(w)' /\ t.pc \in Working
  BY <1>1, <1>9 DEF Writing, Working, Migrating
<1>15. harmed' = {}
  BY <1>2 DEF Untouched
<1>16. QED
  BY <1>1, <1>2, <1>7, <1>8, <1>12, <1>13, <1>14, <1>15, ReadersUntouched

(* Deleting the employee's own profile, whose entry will be cleared.       *)
LEMMA DeleteAgrees ==
  ASSUME Structure, Tidy, Untouched, NEW w \in Worker,
         task[w].pc \in {"remove", "wipe"}, NEW r \in Reader, NEW p \in Pin,
         Deletes(task[w].job.who, r, p),
         users[r][p] = NoUser \/ Is(r, p, task[w].job.who),
         UNCHANGED orphans, Carries(w),
         Employee(w).access[r] = p => Clears(w, r)',
         \A y : Clears(w, y) => Clears(w, y)',
         \A y, k : Enters(w, y, k) => Enters(w, y, k)'
  PROVE  /\ \A dir \in Directory : dir = file => Agrees(dir)'
         /\ Truthful' /\ harmed' = {}
         /\ users' \in [Reader -> [Pin -> Profile \cup {NoUser}]]
         /\ \A y \in Reader, k \in Pin :
              users'[y][k] = IF y = r /\ k = p THEN NoUser ELSE users[y][k]
<1> USE DEF Structure
<1> DEFINE e == task[w].job.who
<1>1. /\ Saves(task[w]) /\ Agrees(file) /\ file \in Directory
      /\ Employee(w) = file[e] /\ e \in Person
  <2>1. task[w].pc \in Working /\ task[w].job.op # "drop"
    BY DEF Working, Migrating, Placed
  <2>2. e \in Person
    BY <2>1, AtWork DEF Working, Migrating, Loading
  <2>3. QED
    BY <2>1, <2>2, FileAtWork DEF Untouched, Agreement
<1>2. /\ users' \in [Reader -> [Pin -> Profile \cup {NoUser}]]
      /\ \A y \in Reader, k \in Pin :
           users'[y][k] = IF y = r /\ k = p THEN NoUser ELSE users[y][k]
  BY DropTypes, DropStores DEF Deletes, TypeOK
<1>3. Truthful'
  BY <1>2 DEF Untouched, Truthful
<1>4. harmed' = {}
  BY DEF Deletes, Untouched, Is
<1>5. ASSUME NEW dir \in Directory, dir = file
      PROVE  Agrees(dir)'
  <2>1. ASSUME NEW x \in Person, NEW y \in Reader, dir[x] # NoRecord,
               dir[x].access[y] # 0
        PROVE  \/ Is(y, dir[x].access[y], x)'
               \/ Clears(w, y)' /\ x = task'[w].job.who
    <3> DEFINE k == dir[x].access[y]
    <3>1. k \in Pin /\ (Is(y, k, x) \/ (Clears(w, y) /\ x = e))
      BY <1>1, <1>5, <2>1, AgreesUse, EntriesAre
    <3>2. CASE Clears(w, y) /\ x = e
      BY <3>2 DEF Carries
    <3>3. CASE Is(y, k, x) /\ y = r /\ k = p
      <4>1. x = e
        BY <3>3 DEF Is
      <4>2. QED
        BY <1>1, <1>5, <3>3, <4>1 DEF Carries
    <3>4. CASE Is(y, k, x) /\ ~(y = r /\ k = p)
      <4>1. users'[y][k] = users[y][k]
        BY <1>2, <3>1, <3>4
      <4>2. QED
        BY <3>4, <4>1 DEF Is
    <3>5. QED
      BY <3>1, <3>2, <3>3, <3>4
  <2>2. ASSUME NEW y \in Reader, NEW k \in Pin, users'[y][k] # NoUser
        PROVE  LET x == users'[y][k].who
               IN  \/ dir[x] # NoRecord /\ dir[x].access[y] = k
                   \/ <<x, y, k>> \in orphans'
                   \/ Enters(w, y, k)' /\ x = task'[w].job.who
    <3>1. users'[y][k] = users[y][k]
      BY <1>2, <2>2
    <3>2. QED
      BY <1>1, <1>5, <2>2, <3>1, AgreesUse DEF Carries
  <2>3. QED
    BY <1>2, <2>1, <2>2, AgreesShow
<1>6. QED
  BY <1>2, <1>3, <1>4, <1>5

(* A migration without a mishap.                                           *)
LEMMA MigrateUntouched ==
  ASSUME Structure, Tidy, Untouched, NEW w \in Worker, Migrate(w),
         excuses' = {}
  PROVE  Untouched'
<1> USE DEF Structure
<1>1. task[w].pc = "migrate" /\ Others(w)
  BY MigrateGoes
<1>2. CASE FailedMigration(w) /\ UNCHANGED <<users, held, replaced>>
  <2>1. UNCHANGED <<file, stock, commands, harmed, orphans>>
    BY DEF Migrate
  <2>2. /\ task'[w] = Idle \/ (task'[w].pc = "update" /\ ~task'[w].ok /\ Carries(w)
                              /\ task[w].job.op = "transfer")
    BY <1>2 DEF FailedMigration
  <2>3. ~Writing(w)' /\ task[w].pc \in Working
    BY <1>1, <2>2 DEF Writing, Idle, Working, Migrating
  <2>4. Agreement'
    BY <1>1, <1>2, <2>1, <2>3, SteadyAgreement, SteadyCurrent DEF Untouched
  <2>5. \A dir \in Directory : dir = file => Agrees(dir)'
    BY <2>1, <2>4 DEF Agreement, Current
  <2>6. Due(w)'
    <3>1. CASE task'[w] = Idle
      BY <3>1 DEF Due, Idle, Migrating
    <3>2. CASE task'[w] # Idle
      BY <2>2, <3>2 DEF Due, Migrating, Carries
    <3>3. QED
      BY <3>1, <3>2
  <2>7. Truthful'
    BY <1>2 DEF Untouched, Truthful
  <2>8. QED
    BY <1>1, <1>2, <2>1, <2>3, <2>5, <2>6, <2>7, ReadersUntouched DEF Untouched
<1>3. CASE /\ Copied(w) # NoUser /\ Employee(w).home # task[w].job.to
           /\ Put(task[w].job.to, Place(w), Copy(w), "session")
           /\ Copies(w) /\ CopiedName(w) = task[w].job.who
  BY <1>3, CopyUntouched
<1>4. QED
  BY <1>2, <1>3, MigrateGoes

(* A move deletes the employee's own profile at the source.                *)
LEMMA RemoveUntouched ==
  ASSUME Structure, Tidy, Untouched, NEW w \in Worker, RemoveSource(w),
         excuses' = {}
  PROVE  Untouched'
<1> USE DEF Structure
<1> DEFINE t == task[w]
           e == t.job.who
           src == Employee(w).home
           p == Source(w)
<1>1. /\ t.pc = "remove" /\ Others(w) /\ Carries(w)
      /\ task'[w].pc = "update" /\ task'[w].ok /\ task'[w].pin = t.pin
      /\ t.job.op = "transfer" /\ t.job.mode = "move"
      /\ Deletes(e, src, p)
  BY RemoveGoes
<1>2. /\ e \in Person /\ t.job.to \in Reader /\ src \in Reader /\ p \in Pin
      /\ t.pin \in Pin
  BY <1>1, Migration DEF Migrating, Placed
<1>3. UNCHANGED <<file, stock, commands, replaced, orphans>>
  BY DEF RemoveSource, readerHistory
<1>4. Due(w)
  BY DEF Untouched
<1>5. /\ src # t.job.to /\ Is(t.job.to, t.pin, e)
      /\ users[src][p] = NoUser \/ Is(src, p, e)
  BY <1>1, <1>4 DEF Due, Migrating
<1>6. Employee(w)' = Employee(w) /\ Source(w)' = Source(w)
  BY <1>1, <1>3 DEF Employee, Listed, Carries, Source, AccessPin
<1>7. \A y : ~Clears(w, y)
  BY <1>1, <1>6 DEF Clears, Carries
<1>8. \A y, k : Enters(w, y, k) => Enters(w, y, k)'
  BY <1>1 DEF Enters, Carries
<1> HIDE DEF p, src, e
<1>9. /\ \A dir \in Directory : dir = file => Agrees(dir)'
      /\ Truthful' /\ harmed' = {}
      /\ \A y \in Reader, k \in Pin :
           users'[y][k] = IF y = src /\ k = p THEN NoUser ELSE users[y][k]
  <2>1. PICK r \in Reader, k \in Pin : r = src /\ k = p
    BY <1>2
  <2>2. /\ Deletes(task[w].job.who, r, k)
        /\ users[r][k] = NoUser \/ Is(r, k, task[w].job.who)
    BY <1>1, <1>5, <2>1 DEF e
  <2>3. Clears(w, r)'
    BY <1>1, <1>6, <2>1 DEF Clears, Carries, src
  <2>4. QED
    BY <1>1, <1>3, <1>7, <1>8, <2>1, <2>2, <2>3, DeleteAgrees
<1>10. Due(w)'
  <2>1. users'[src][p] = NoUser /\ users'[t.job.to][t.pin] = users[t.job.to][t.pin]
    BY <1>2, <1>5, <1>9
  <2>2. QED
    BY <1>1, <1>5, <1>6, <2>1 DEF Due, Migrating, Carries, Is, p, src, e
<1>11. ~Writing(w)' /\ t.pc \in Working
  BY <1>1 DEF Writing, Working, Migrating
<1>12. QED
  BY <1>1, <1>3, <1>9, <1>10, <1>11, ReadersUntouched DEF Untouched

(* A wipe deletes the employee's own profiles.                             *)
LEMMA WipeUntouched ==
  ASSUME Structure, Tidy, Untouched, NEW w \in Worker, Wipe(w), excuses' = {}
  PROVE  Untouched'
<1> USE DEF Structure
<1> DEFINE t == task[w]
           s == task'[w]
           e == t.job.who
           emp == Employee(w)
<1>1. /\ t.pc = "wipe" /\ Others(w) /\ Carries(w) /\ s.ok = t.ok /\ ~t.ok
      /\ t.job.op \in {"revoke", "fire"} /\ Due(w)
  BY WipeGoes DEF Wipe, Placed, Untouched
<1>2. UNCHANGED <<file, stock, replaced, orphans>>
  BY DEF Wipe, readerHistory
<1>3. PICK x \in t.todo :
        /\ x[1] \in Reader /\ x[2] \in Pin
        /\ s.todo = t.todo \ {x}
        /\ s.pc = IF t.todo = {x} THEN "update" ELSE "wipe"
        /\ UNCHANGED commands
        /\ \/ /\ t.job.printsOnly
              /\ UNCHANGED <<users, harmed>>
           \/ /\ ~t.job.printsOnly
              /\ Deletes(e, x[1], x[2])
              /\ ~WrongGuess(emp, e, x[1], x[2])
  BY WipeGoes DEF Excused
<1>4. x = <<x[1], x[2]>>
  BY AtWork DEF Wipe, Loading, Task
<1>5. emp \in Record /\ e \in Person
  BY <1>1, AtWork DEF Loading, Working
<1>6. emp' = emp
  BY <1>1, <1>2 DEF Employee, Listed, Carries
<1>7. s.pc \in {"wipe", "update"} /\ s.job = t.job
  BY <1>3, <1>1 DEF Carries
<1>8. \A y : Clears(w, y)' <=> Clears(w, y)
  BY <1>1, <1>7 DEF Clears
<1>9. \A y, k : ~Enters(w, y, k)
  BY <1>1, AtEase DEF Enters
<1>10. /\ x[2] = AccessPin(emp, e, x[1])
       /\ ~t.job.printsOnly => Clears(w, x[1])
  BY <1>1 DEF Due
<1>11. \A r \in Reader : emp.access[r] # 0 =>
         LET p == emp.access[r]
         IN  /\ t.job.printsOnly => Is(r, p, e)
             /\ ~t.job.printsOnly /\ Clears(w, r) =>
                  \/ users[r][p] = NoUser
                  \/ t.pc = "wipe" /\ <<r, p>> \in t.todo /\ Is(r, p, e)
  BY <1>1 DEF Due
<1>12. t.job.op = "fire" => t.job.action = "fire_all" \/ OneReader(t.job)
  BY <1>1 DEF Due
<1> HIDE DEF emp
<1>13. ASSUME Truthful', harmed' = {},
              \A dir \in Directory : dir = file => Agrees(dir)',
              \A r \in Reader : emp.access[r] # 0 =>
                LET p == emp.access[r]
                IN  /\ t.job.printsOnly => Is(r, p, e)'
                    /\ ~t.job.printsOnly /\ Clears(w, r)' =>
                         \/ users'[r][p] = NoUser
                         \/ s.pc = "wipe" /\ <<r, p>> \in s.todo /\ Is(r, p, e)'
       PROVE  Untouched'
  <2>1. ASSUME NEW y \in s.todo
        PROVE  /\ y[2] = AccessPin(emp, e, y[1])
               /\ ~t.job.printsOnly => Clears(w, y[1])'
    BY <1>1, <1>3, <1>8, <2>1 DEF Due, emp
  <2>2. Due(w)'
    BY <1>1, <1>6, <1>7, <1>12, <1>13, <2>1 DEF Due, Migrating, emp, AccessPin
  <2>3. ~Writing(w)' /\ t.pc \in Working
    BY <1>1, <1>7 DEF Writing, Working
  <2>4. replaced' = {}
    BY <1>2 DEF Untouched
  <2>5. QED
    BY <1>1, <1>2, <1>3, <1>13, <2>2, <2>3, <2>4, ReadersUntouched
<1>14. CASE t.job.printsOnly /\ UNCHANGED <<users, harmed>>
  <2>1. Truthful' /\ harmed' = {}
    BY <1>14 DEF Untouched, Truthful
  <2>2. ASSUME NEW dir \in Directory, dir = file
        PROVE  Agrees(dir)'
    <3>1. Agrees(dir) /\ Saves(t)
      BY <1>1, <2>2, FileAtWork DEF Untouched, Agreement, Working
    <3>2. /\ \A a \in Person, r \in Reader :
               dir[a] # NoRecord /\ dir[a].access[r] # 0 =>
                 \/ Is(r, dir[a].access[r], a)'
                 \/ Clears(w, r)' /\ a = s.job.who
          /\ \A r \in Reader, p \in Pin :
               users'[r][p] # NoUser =>
                 LET a == users'[r][p].who
                 IN  \/ dir[a] # NoRecord /\ dir[a].access[r] = p
                     \/ <<a, r, p>> \in orphans'
                     \/ Enters(w, r, p)' /\ a = s.job.who
      BY <1>2, <1>7, <1>8, <1>9, <1>14, <3>1, AgreesUse DEF Is
    <3>3. users' \in [Reader -> [Pin -> Profile \cup {NoUser}]]
      BY <1>14 DEF TypeOK, ReadersTypeOK
    <3>4. QED
      BY <3>2, <3>3, AgreesShow
  <2>3. ASSUME NEW r \in Reader, emp.access[r] # 0
        PROVE  Is(r, emp.access[r], e)'
    <3>1. Is(r, emp.access[r], e)
      BY <1>11, <1>14, <2>3
    <3>2. QED
      BY <1>6, <1>7, <1>14, <3>1 DEF Is, emp
  <2>4. QED
    BY <1>13, <1>14, <2>1, <2>2, <2>3
<1>15. CASE /\ ~t.job.printsOnly /\ Deletes(e, x[1], x[2])
            /\ ~WrongGuess(emp, e, x[1], x[2])
  <2> DEFINE r == x[1]
             p == x[2]
  <2>1. users[r][p] = NoUser \/ Is(r, p, e)
    <3>1. CASE emp.access[r] = 0
      BY <1>15, <3>1 DEF WrongGuess, Is
    <3>2. CASE emp.access[r] # 0
      <4>1. p = emp.access[r]
        BY <1>10, <3>2 DEF AccessPin
      <4>2. QED
        BY <1>3, <1>10, <1>11, <1>15, <3>2, <4>1
    <3>3. QED
      BY <3>1, <3>2
  <2>2. /\ \A dir \in Directory : dir = file => Agrees(dir)'
        /\ Truthful' /\ harmed' = {}
        /\ \A y \in Reader, k \in Pin :
             users'[y][k] = IF y = r /\ k = p THEN NoUser ELSE users[y][k]
    BY <1>1, <1>2, <1>3, <1>8, <1>9, <1>10, <1>15, <2>1, DeleteAgrees
  <2>3. ASSUME NEW y \in Reader, emp.access[y] # 0, Clears(w, y)'
        PROVE  LET k == emp.access[y]
               IN  \/ users'[y][k] = NoUser
                   \/ s.pc = "wipe" /\ <<y, k>> \in s.todo /\ Is(y, k, e)'
    <3> DEFINE k == emp.access[y]
    <3>0. k \in Pin
      BY <1>5, <2>3, ReadersAssumption DEF Record, Pin
    <3> HIDE DEF k
    <3>1. \/ users[y][k] = NoUser
          \/ <<y, k>> \in t.todo /\ Is(y, k, e)
      BY <1>8, <1>11, <1>15, <2>3 DEF k
    <3>2. CASE users[y][k] = NoUser \/ (y = r /\ k = p)
      BY <2>2, <3>0, <3>2 DEF k
    <3>3. CASE ~(y = r /\ k = p) /\ <<y, k>> \in t.todo /\ Is(y, k, e)
      <4>1. <<y, k>> # x
        BY <1>4, <3>3
      <4>2. <<y, k>> \in s.todo /\ s.pc = "wipe"
        BY <1>3, <3>3, <4>1
      <4>3. Is(y, k, e)'
        <5>1. users'[y][k] = users[y][k]
          BY <2>2, <3>0, <3>3
        <5>2. QED
          BY <1>6, <1>7, <3>3, <5>1 DEF Is, k, emp
      <4>4. QED
        BY <1>6, <4>2, <4>3 DEF k, emp
    <3>4. QED
      BY <3>1, <3>2, <3>3
  <2>4. QED
    BY <1>13, <1>15, <2>2, <2>3
<1>16. QED
  BY <1>3, <1>14, <1>15

(* What a request makes of an entry.                                       *)
LEMMA ChangedAccess ==
  ASSUME NEW t \in Task, NEW emp \in Record, t.job \in Request,
         t.job.op \in {"transfer", "grant", "revoke", "fire"},
         NEW r \in Reader
  PROVE  LET new == Changed(t, emp).access[r]
             old == emp.access[r]
         IN  /\ t.job.op = "transfer" =>
                  new = IF ~t.ok THEN old
                        ELSE IF r = t.job.to THEN t.pin
                        ELSE IF r = emp.home /\ t.job.mode = "move" THEN 0
                        ELSE old
             /\ t.job.op = "grant" =>
                  new = IF r = t.job.to THEN t.pin ELSE old
             /\ t.job.op = "revoke" =>
                  new = IF ~t.job.printsOnly /\ r = t.job.at THEN 0 ELSE old
             /\ t.job.op = "fire" =>
                  new = IF \/ t.job.action = "fire_all"
                           \/ t.job.at # Nowhere /\ r = t.job.at
                          THEN 0 ELSE old
<1> DEFINE new == Changed(t, emp)
<1>1. CASE t.job.op = "transfer"
  <2>1. ~t.ok => new.access = emp.access
    BY <1>1 DEF Changed, Transferred, Record
  <2>2. t.ok => new.access = [x \in Reader |->
                  IF x = t.job.to THEN t.pin
                  ELSE IF x = emp.home /\ t.job.mode = "move" THEN 0
                  ELSE emp.access[x]]
    BY <1>1 DEF Changed, Transferred, Record
  <2> HIDE DEF new
  <2>3. QED
    BY <1>1, <2>1, <2>2 DEF new
<1>2. CASE t.job.op = "grant"
  <2>1. new.access = [emp.access EXCEPT ![t.job.to] = t.pin]
    BY <1>2 DEF Changed, Granted, Record
  <2> HIDE DEF new
  <2>2. QED
    BY <1>2, <2>1 DEF new, Record
<1>3. CASE t.job.op = "revoke"
  <2>1. new.access = IF t.job.printsOnly THEN emp.access
                     ELSE [emp.access EXCEPT ![t.job.at] = 0]
    BY <1>3 DEF Changed, Revoked, Record
  <2> HIDE DEF new
  <2>2. QED
    BY <1>3, <2>1 DEF new, Record
<1>4. CASE t.job.op = "fire"
  <2>1. new.access = IF t.job.action = "fire_all" THEN [x \in Reader |-> 0]
                     ELSE IF t.job.at = Nowhere THEN emp.access
                     ELSE [emp.access EXCEPT ![t.job.at] = 0]
    BY <1>4 DEF Changed, Offboarded, Record
  <2> HIDE DEF new
  <2>2. QED
    BY <1>4, <2>1 DEF new, Record
<1>5. QED
  BY <1>1, <1>2, <1>3, <1>4

(* What the update of a record that stays enters and what it drops agrees  *)
(* with the readers.                                                       *)
LEMMA ChangeIsDue ==
  ASSUME Structure, NEW w \in Worker, task[w].pc = "update", Due(w),
         task[w].job.op # "drop", NEW r \in Reader
  PROVE  LET t == task[w]
             e == t.job.who
             emp == Employee(w)
             new == Changed(t, emp)
             was == emp.access[r]
         IN  /\ new.access[r] # 0 =>
                  \/ new.access[r] = was /\ ~Clears(w, r)
                  \/ Is(r, new.access[r], e)
             /\ was # 0 /\ users[r][was] # NoUser =>
                  \/ new.access[r] = was
                  \/ <<e, r, was>> \in Orphaned(t, emp, new)
             /\ \A p : Enters(w, r, p) => new.access[r] = p
<1> USE DEF Structure
<1> DEFINE t == task[w]
           e == t.job.who
           emp == Employee(w)
           new == Changed(t, emp)
           was == emp.access[r]
<1>1. /\ t \in Task /\ emp \in Record /\ t.job \in Request
      /\ t.job.op \in {"transfer", "grant", "revoke", "fire"}
      /\ t.job.op = "grant" => t.ok
      /\ t.ok => t.job.op \in {"transfer", "grant"}
  BY AtWork, JobTypes DEF Loading, Working, Placed
<1>2. /\ t.job.op = "fire" => t.job.action = "fire_all" \/ OneReader(t.job)
      /\ t.ok => Is(t.job.to, t.pin, e)
      /\ t.ok /\ t.job.op = "transfer" =>
           /\ emp.home # t.job.to
           /\ t.job.mode = "move" => users[emp.home][Source(w)] = NoUser
      /\ t.job.op \in {"revoke", "fire"} =>
           \A x \in Reader : emp.access[x] # 0 =>
             /\ t.job.printsOnly => Is(x, emp.access[x], e)
             /\ ~t.job.printsOnly /\ Clears(w, x) =>
                  users[x][emp.access[x]] = NoUser
  BY DEF Due, Migrating
<1>3. Clears(w, r) <=>
        \/ t.job.op = "revoke" /\ ~t.job.printsOnly /\ r = t.job.at
        \/ t.job.op = "fire" /\ (t.job.action = "fire_all" \/ r = t.job.at)
        \/ /\ t.job.op = "transfer" /\ t.job.mode = "move"
           /\ t.ok /\ r = emp.home
  BY DEF Clears
<1>4. \A p : Enters(w, r, p) <=> t.ok /\ r = t.job.to /\ p = t.pin
  BY DEF Enters
<1>5. emp.access[emp.home] # 0 => Source(w) = emp.access[emp.home]
  BY DEF Source, AccessPin
<1>6. /\ t.job.op \in {"transfer", "grant"} /\ was # 0
           /\ new.access[r] # 0 /\ new.access[r] # was =>
         <<e, r, was>> \in Orphaned(t, emp, new)
      /\ t.job.op = "fire" /\ t.job.printsOnly /\ was # 0 /\ new.access[r] = 0 =>
         <<e, r, was>> \in Orphaned(t, emp, new)
  <2> HIDE DEF new, emp, t, e
  <2>1. emp # NoRecord
    BY <1>1, DirectoryAssumption
  <2>2. QED
    BY <1>1, <2>1 DEF Orphaned, e, was
<1>7. /\ t.job.op = "transfer" =>
           new.access[r] = IF ~t.ok THEN was
                           ELSE IF r = t.job.to THEN t.pin
                           ELSE IF r = emp.home /\ t.job.mode = "move" THEN 0
                           ELSE was
      /\ t.job.op = "grant" => new.access[r] = IF r = t.job.to THEN t.pin ELSE was
      /\ t.job.op = "revoke" =>
           new.access[r] = IF ~t.job.printsOnly /\ r = t.job.at THEN 0 ELSE was
      /\ t.job.op = "fire" =>
           new.access[r] =
             IF \/ t.job.action = "fire_all"
                \/ t.job.at # Nowhere /\ r = t.job.at
               THEN 0 ELSE was
  BY <1>1, ChangedAccess
<1>8. t.ok => t.pin # 0
  <2>1. t.ok => t.pin \in Pin
    BY DEF Placed
  <2>2. QED
    BY <2>1, ReadersAssumption DEF Pin
<1>9. t.job.op = "fire" => Nowhere # r
  BY DirectoryAssumption
<1> HIDE DEF new, emp, e, was
<1>10. CASE t.job.op = "transfer"
  BY <1>1, <1>2, <1>3, <1>4, <1>5, <1>6, <1>7, <1>8, <1>10 DEF was, emp, new, e
<1>11. CASE t.job.op = "grant"
  BY <1>1, <1>2, <1>3, <1>4, <1>6, <1>7, <1>8, <1>11 DEF was, emp, new, e
<1>12. CASE t.job.op = "revoke"
  BY <1>1, <1>2, <1>3, <1>4, <1>7, <1>12 DEF was, emp, new, e
<1>13. CASE t.job.op = "fire"
  BY <1>1, <1>2, <1>3, <1>4, <1>6, <1>7, <1>9, <1>13 DEF was, emp, new, e
<1>14. QED
  BY <1>1, <1>10, <1>11, <1>12, <1>13 DEF was, emp, new, e

(* A removal drops what a wipe has emptied, or leaves it an orphan.        *)
LEMMA DropIsDue ==
  ASSUME Structure, Tidy, NEW w \in Worker, task[w].pc = "update",
         task[w].job.op = "drop", NEW r \in Reader, NEW p \in Pin,
         file[task[w].job.who] # NoRecord,
         file[task[w].job.who].access[r] = p
  PROVE  <<task[w].job.who, r, p>> \in
            Orphaned(task[w], Employee(w), NoRecord)
<1> USE DEF Structure
<1> DEFINE t == task[w]
           e == t.job.who
           emp == Employee(w)
<1>1. t.job \in Request \cup Removal /\ e \in Person /\ p # 0
  BY AtWork, ReadersAssumption DEF Loading, Pin
<1>2. t.job.wipe \in BOOLEAN
  BY <1>1, JobTypes
<1>3. ~t.job.wipe
  <2>1. SUFFICES ASSUME t.job.wipe PROVE FALSE
    BY <1>2
  <2>2. Outside(file, e)
    BY <2>1 DEF Tidy, InStep
  <2>3. QED
    BY <1>1, <2>2 DEF Outside
<1>4. emp = file[e]
  BY <1>3 DEF Tidy, InStep, Working, Employee
<1> HIDE DEF emp, e, t
<1>5. emp # NoRecord /\ emp.access[r] = p /\ p # 0
  BY <1>1, <1>4 DEF e, t
<1>6. t.job.op = "drop" /\ ~t.job.wipe
  BY <1>3 DEF t
<1>7. <<e, r, p>> \in Orphaned(t, emp, NoRecord)
  BY <1>5, <1>6 DEF Orphaned, e
<1>8. QED
  BY <1>7 DEF e, t, emp

(* The list that is about to be written agrees with the readers.           *)
LEMMA UpdateUntouched ==
  ASSUME Structure, Tidy, Untouched, NEW w \in Worker, Update(w),
         excuses' = {}
  PROVE  Untouched'
<1> USE DEF Structure
<1> DEFINE t == task[w]
           e == t.job.who
           emp == Employee(w)
           new == Changed(t, emp)
           old == Listed(t.list)
<1>1. /\ t.pc = "update" /\ Others(w) /\ task'[w].pc = "write"
      /\ task'[w].job = t.job
      /\ file' = Truncated /\ Rewritten(w) \in Directory
      /\ t.job.op = "drop" => new = NoRecord
      /\ Listed(task[w].list)' = Rewritten(w)
  BY UpdateGoes
<1>2. /\ UNCHANGED <<users, commands, harmed, replaced>>
      /\ orphans' = orphans \cup Orphaned(t, emp, new)
  BY DEF Update, readerHistory
<1>3. /\ e \in Person /\ old \in Directory /\ Due(w)
      /\ t.job.op # "drop" => t.job.op \notin {"list", "delete"} /\ emp \in Record
  BY <1>1, AtWork DEF Working, Loading, Placed, Untouched
<1>4. /\ Saves(t) /\ file \in Directory /\ Agrees(file)
      /\ \A v \in Worker : ~Writing(v)
      /\ t.job.op # "drop" => file = old
  BY <1>1, FileAtWork DEF Working, Untouched, Agreement
<1>5. Off(file, old, e)
  BY <1>1, <1>4 DEF Tidy, InStep, Working, Off
<1>6. PICK dir \in Directory : dir = Rewritten(w)
  BY <1>1
<1>7. /\ \A x \in Person \ {e} : dir[x] = file[x]
      /\ dir[e] = new
      /\ t.job.op # "drop" => emp = file[e]
  BY <1>3, <1>4, <1>5, <1>6 DEF Off, Rewritten, Employee, Directory
<1> HIDE DEF new
<1>8. Agrees(dir)'
  <2>1. /\ \A x \in Person, r \in Reader :
             file[x] # NoRecord /\ file[x].access[r] # 0 =>
               \/ Is(r, file[x].access[r], x)
               \/ Clears(w, r) /\ x = e
        /\ \A r \in Reader, p \in Pin :
             users[r][p] # NoUser =>
               LET x == users[r][p].who
               IN  \/ file[x] # NoRecord /\ file[x].access[r] = p
                   \/ <<x, r, p>> \in orphans
                   \/ Enters(w, r, p) /\ x = e
    <3>1. PICK f \in Directory : f = file
      BY <1>4
    <3>2. QED
      BY <1>4, <3>1, AgreesUse
  <2>2. t.job.op # "drop" =>
          \A r \in Reader :
            /\ new.access[r] # 0 =>
                 \/ new.access[r] = emp.access[r] /\ ~Clears(w, r)
                 \/ Is(r, new.access[r], e)
            /\ emp.access[r] # 0 /\ users[r][emp.access[r]] # NoUser =>
                 \/ new.access[r] = emp.access[r]
                 \/ <<e, r, emp.access[r]>> \in orphans'
            /\ \A p : Enters(w, r, p) => new.access[r] = p
    BY <1>1, <1>2, <1>3, ChangeIsDue DEF new
  <2>3. ASSUME NEW x \in Person, NEW r \in Reader, dir[x] # NoRecord,
               dir[x].access[r] # 0
        PROVE  Is(r, dir[x].access[r], x)'
    <3>1. Is(r, dir[x].access[r], x)
      <4>1. CASE x # e
        BY <1>7, <2>1, <2>3, <4>1
      <4>2. CASE x = e
        <5>1. t.job.op # "drop" /\ new.access[r] # 0 /\ emp = file[e]
          BY <1>1, <1>7, <2>3, <4>2
        <5>2. CASE new.access[r] = emp.access[r] /\ ~Clears(w, r)
          <6>1. file[e] # NoRecord
            BY <1>3, <5>1, DirectoryAssumption
          <6>2. Is(r, file[e].access[r], e)
            BY <1>3, <2>1, <5>1, <5>2, <6>1
          <6>3. QED
            BY <1>7, <4>2, <5>1, <5>2, <6>2
        <5>3. CASE Is(r, new.access[r], e)
          BY <1>7, <4>2, <5>3
        <5>4. QED
          BY <2>2, <5>1, <5>2, <5>3
      <4>3. QED
        BY <4>1, <4>2
    <3>2. QED
      BY <1>2, <3>1 DEF Is
  <2>4. ASSUME NEW r \in Reader, NEW p \in Pin, users'[r][p] # NoUser
        PROVE  LET x == users'[r][p].who
               IN  \/ dir[x] # NoRecord /\ dir[x].access[r] = p
                   \/ <<x, r, p>> \in orphans'
    <3> DEFINE x == users[r][p].who
    <3>1. users[r][p] # NoUser /\ x \in Person /\ p # 0
      BY <1>2, <2>4, ReadersAssumption DEF TypeOK, ReadersTypeOK, Profile, Pin
    <3>2. \/ file[x] # NoRecord /\ file[x].access[r] = p
          \/ <<x, r, p>> \in orphans
          \/ Enters(w, r, p) /\ x = e
      BY <2>1, <3>1
    <3> HIDE DEF x
    <3>3. \/ dir[x] # NoRecord /\ dir[x].access[r] = p
          \/ <<x, r, p>> \in orphans'
      <4>1. CASE <<x, r, p>> \in orphans
        BY <1>2, <4>1
      <4>2. CASE file[x] # NoRecord /\ file[x].access[r] = p /\ x # e
        BY <1>7, <3>1, <4>2
      <4>3. CASE /\ file[x] # NoRecord /\ file[x].access[r] = p /\ x = e
                 /\ t.job.op = "drop"
        BY <1>1, <1>2, <4>3, DropIsDue
      <4>4. CASE /\ file[x] # NoRecord /\ file[x].access[r] = p /\ x = e
                 /\ t.job.op # "drop"
        <5>1. new # NoRecord
          BY <1>1, <4>4, UpdateGoes, DirectoryAssumption DEF new
        <5>2. QED
          BY <1>7, <2>2, <3>1, <4>4, <5>1
      <4>5. CASE Enters(w, r, p) /\ x = e
        <5>1. t.job.op # "drop"
          BY <1>1, <4>5 DEF Enters, Placed
        <5>2. new # NoRecord
          BY <1>1, <5>1, UpdateGoes, DirectoryAssumption DEF new
        <5>3. QED
          BY <1>7, <2>2, <4>5, <5>1, <5>2
      <4>6. QED
        BY <3>2, <4>1, <4>2, <4>3, <4>4, <4>5
    <3>4. QED
      BY <1>2, <3>3 DEF x
  <2>5. users' \in [Reader -> [Pin -> Profile \cup {NoUser}]]
    BY <1>2 DEF TypeOK, ReadersTypeOK
  <2>6. QED
    BY <2>3, <2>4, <2>5, AgreesShow
<1>9. \A v \in Worker : v # w => task'[v] = task[v] /\ ~Writing(v)'
  BY <1>1, <1>4 DEF Others, Writing
<1>10. Agreement'
  <2>1. ASSUME NEW d \in Directory, Current(d)'
        PROVE  d = dir
    BY <1>1, <1>6, <1>9, <2>1, Sentinels, DirectoryAssumption
    DEF Current, Writing
  <2>2. QED
    BY <1>8, <2>1 DEF Agreement
<1>11. Due(w)'
  BY <1>1, <1>3 DEF Due, Migrating
<1>12. \A v \in Worker : Due(v)'
  BY <1>1, <1>4, <1>11, OthersDue DEF Untouched
<1>13. Truthful'
  BY <1>2 DEF Untouched, Truthful
<1>14. QED
  BY <1>2, <1>10, <1>12, <1>13 DEF Untouched

(* While there is nothing to excuse, a step leaves list and readers in     *)
(* agreement.                                                              *)
LEMMA BlamelessStep ==
  ASSUME Structure, Orderly, Blameless, [Next]_vars
  PROVE  Blameless'
<1>1. SUFFICES ASSUME excuses' = {} PROVE Untouched'
  BY DEF Blameless
<1>2. Untouched /\ Tidy
  BY <1>1, ExcusesGrow DEF Blameless, Orderly, Calm
<1>3. CASE \E w \in Worker :
             \/ Start(w) \/ Load(w) \/ Restore(w) \/ Resolve(w) \/ Migrate(w)
             \/ RemoveSource(w) \/ Wipe(w) \/ Update(w) \/ Write(w)
  BY <1>1, <1>2, <1>3, OfficeUntouched, ResolveUntouched, MigrateUntouched,
     RemoveUntouched, WipeUntouched, UpdateUntouched
<1>4. ASSUME (\E r \in Reader : LearnNames(r)) \/ UNCHANGED vars
      PROVE  Untouched'
  <2>1. UNCHANGED <<users, commands, replaced, file, stock, task, harmed,
                    orphans>>
    BY <1>4 DEF LearnNames, vars, readerVars, readerHistory
  <2>2. /\ \A w \in Worker : /\ Employee(w)' = Employee(w)
                             /\ Source(w)' = Source(w)
        /\ \A w, r : Clears(w, r)' <=> Clears(w, r)
        /\ \A w, r, p : Enters(w, r, p)' <=> Enters(w, r, p)
        /\ \A r, p, e : Is(r, p, e)' <=> Is(r, p, e)
        /\ \A dir : Current(dir)' <=> Current(dir)
    BY <2>1 DEF Employee, Listed, Source, AccessPin, Clears, Enters, Is, Current
  <2>3. \A dir : Agrees(dir)' <=> Agrees(dir)
    BY <2>1, <2>2 DEF Agrees
  <2>4. \A w \in Worker : Due(w)' <=> Due(w)
    BY <2>1, <2>2 DEF Due
  <2>5. QED
    BY <1>2, <2>1, <2>2, <2>3, <2>4 DEF Untouched, Truthful, Agreement
<1>5. CASE \E r \in Reader : ReaderPolls(r)
  BY <1>2, <1>5 DEF ReaderPolls, Poll, Untouched
<1>6. CASE Kill
  BY <1>1, <1>6 DEF Kill, Mishap
<1>7. QED
  BY <1>3, <1>4, <1>5, <1>6 DEF Next

-----------------------------------------------------------------------------
(* Theorems                                                                *)

(* At the start everything is in order.                                    *)
LEMMA InitOrderly ==
  Init => Orderly
<1> SUFFICES ASSUME Init PROVE Tidy
  BY DEF Orderly
<1>1. \A w \in Worker : task[w] = Idle
  BY DEF Init
<1>2. \A w \in Worker : ~Saves(task[w]) /\ ~Writing(w)
  BY <1>1 DEF Saves, Writing, Idle
<1>3. file \in Directory \cup {Absent} /\ dismissed = {} /\ stock = Stock
  BY DirectoryAssumption DEF Init
<1>4. Alone
  BY <1>1, <1>2, <1>3, Sentinels, DirectoryAssumption DEF Init, Alone, Idle
<1>5. \A w \in Worker : InStep(w)
  BY <1>1 DEF InStep, Idle, Working, Migrating, Loading
<1>6. StaysOut
  BY <1>1, <1>3 DEF StaysOut, Idle
<1>7. QED
  BY <1>4, <1>5, <1>6 DEF Tidy

(* Where list and readers agree at the start, they do so without a request *)
(* under way.                                                              *)
LEMMA InitBlameless ==
  ASSUME StartsInAgreement
  PROVE  Init => Blameless
<1> SUFFICES ASSUME Init PROVE Untouched
  BY DEF Blameless
<1>1. /\ \A w \in Worker : task[w] = Idle
      /\ users = Enrolled /\ file = Saved /\ stock = Stock
      /\ harmed = {} /\ replaced = {} /\ \A r \in Reader : commands[r] = <<>>
  BY DEF Init, ReadersInit
<1>2. \A w \in Worker : Due(w)
  BY <1>1 DEF Due, Idle, Migrating
<1>3. Truthful
  BY <1>1 DEF Truthful, StartsInAgreement
<1>4. ASSUME NEW dir \in Directory, Current(dir)
      PROVE  Agrees(dir)
  <2>1. dir = Opening
    BY <1>1, <1>4, Sentinels DEF Current, Opening, Idle
  <2>2. QED
    BY <1>1, <2>1 DEF Agrees, StartsInAgreement, Is
<1>5. QED
  BY <1>1, <1>2, <1>3, <1>4 DEF Untouched, Agreement

(* Requests that come one by one are in order in every state ...           *)
LEMMA InOrder ==
  Spec => [](Structure /\ Orderly)
<1>1. Init => Orderly
  BY InitOrderly
<1>2. Structure /\ Orderly /\ [Next]_vars => Orderly'
  BY OrderlyStep
<1>3. QED
  BY <1>1, <1>2, Inductive, PTL DEF Spec

(* ... and list and readers stay in agreement where they start in it.      *)
LEMMA InAgreement ==
  ASSUME StartsInAgreement
  PROVE  Spec => [](Structure /\ Orderly /\ Blameless)
<1>1. Init => Blameless
  BY InitBlameless
<1>2. Structure /\ Orderly /\ Blameless /\ [Next]_vars => Blameless'
  BY BlamelessStep
<1>3. QED
  BY <1>1, <1>2, InOrder, PTL DEF Spec

(* While requests that save come one by one and none fails or is killed,   *)
(* nobody whose dismissal or removal was answered is in service again: no  *)
(* request writes back a list it loaded before.                            *)
THEOREM DismissalsLast == Spec => []OffboardedStays
<1>1. Orderly => OffboardedStays
  <2> SUFFICES ASSUME Orderly, AtRest, Calm, NEW e \in dismissed
               PROVE  file[e] = NoRecord \/ file[e].gone
    BY DEF OffboardedStays, Calm
  <2>1. StaysOut /\ file \in Directory
    BY DEF Orderly, Tidy, AtRest
  <2>2. QED
    BY <2>1 DEF StaysOut, Gone
<1>2. QED
  BY <1>1, InOrder, PTL

(* A directory that agrees with its readers at the start, and whose        *)
(* requests come one by one with nothing to excuse, lists nothing but its  *)
(* employees' own profiles.                                                *)
THEOREM EntriesAreOwnProfiles ==
  ASSUME StartsInAgreement
  PROVE  Spec => []EntryIsOwnProfile
<1>1. Blameless => EntryIsOwnProfile
  <2> SUFFICES ASSUME Blameless, AtRest, excuses = {}, NEW t \in Entries(file)
               PROVE  users[t[2]][t[3]] # NoUser /\ users[t[2]][t[3]].who = t[1]
    BY DEF EntryIsOwnProfile
  <2>1. Agrees(file)
    BY DEF Blameless, Untouched, Agreement, Current, AtRest
  <2>2. \A w \in Worker : \A r : ~Clears(w, r)
    BY AtEase DEF AtRest
  <2>3. QED
    BY <2>1, <2>2 DEF Agrees, Is
<1>2. QED
  BY <1>1, InAgreement, PTL

(* ... lists every profile on a reader that no request was told to keep    *)
(* and no other PIN replaced in the list ...                               *)
THEOREM ProfilesAreListed ==
  ASSUME StartsInAgreement
  PROVE  Spec => []EveryProfileListed
<1>1. Blameless => EveryProfileListed
  <2> SUFFICES ASSUME Blameless, AtRest, excuses = {},
                      NEW r \in Reader, NEW p \in Pin, users[r][p] # NoUser
               PROVE  <<users[r][p].who, r, p>> \in Entries(file) \cup orphans
    BY DEF EveryProfileListed
  <2>1. Agrees(file)
    BY DEF Blameless, Untouched, Agreement, Current, AtRest
  <2>2. \A w \in Worker : ~Enters(w, r, p)
    BY AtEase DEF AtRest
  <2>3. QED
    BY <2>1, <2>2 DEF Agrees
<1>2. QED
  BY <1>1, InAgreement, PTL

(* ... and neither deletes nor writes over a profile of somebody else.     *)
THEOREM OthersAreUntouched ==
  ASSUME StartsInAgreement
  PROVE  Spec => []OthersUntouched
<1>1. Blameless => OthersUntouched
  BY DEF Blameless, Untouched, OthersUntouched
<1>2. QED
  BY <1>1, InAgreement, PTL
-----------------------------------------------------------------------------
(* The directory is an EmployeeRegistry                                    *)

(* What the next load will find, where only one thread writes.             *)
LEMMA InForceIs ==
  ASSUME Alone
  PROVE  /\ file \in Directory => InForce = file
         /\ \A w \in Worker : file \notin Directory /\ task[w].pc = "write" =>
              InForce = Listed(task[w].list)
         /\ file \notin Directory /\ (\A w \in Worker : task[w].pc # "write") =>
              InForce = stock
<1>1. ASSUME NEW w \in Worker, file \notin Directory, task[w].pc = "write"
      PROVE  InForce = Listed(task[w].list)
  <2>1. \A v \in Worker : task[v].pc = "write" => v = w
    BY <1>1 DEF Alone, Writing
  <2>2. (CHOOSE v \in Worker : task[v].pc = "write") = w
    BY <1>1, <2>1
  <2>3. QED
    BY <1>1, <2>2 DEF InForce
<1>2. QED
  BY <1>1 DEF InForce

(* The same of the state that a step leads to.                             *)
LEMMA InForceNext ==
  ASSUME Alone'
  PROVE  /\ file' \in Directory => InForce' = file'
         /\ \A w \in Worker : file' \notin Directory /\ task'[w].pc = "write" =>
              InForce' = Listed(task[w].list)'
         /\ file' \notin Directory /\ (\A w \in Worker : task'[w].pc # "write") =>
              InForce' = stock'
<1>1. ASSUME NEW w \in Worker, file' \notin Directory, task'[w].pc = "write"
      PROVE  InForce' = Listed(task[w].list)'
  <2>1. \A v \in Worker : task'[v].pc = "write" => v = w
    BY <1>1 DEF Alone, Writing
  <2>2. (CHOOSE v \in Worker : task'[v].pc = "write") = w
    BY <1>1, <2>1
  <2>3. QED
    BY <1>1, <2>2 DEF InForce, Listed
<1>2. QED
  BY <1>1 DEF InForce

(* Whatever has happened, there is a list in force.                        *)
LEMMA InForceTypes ==
  ASSUME Structure'
  PROVE  InForce' \in Directory
<1>1. CASE file' \in Directory \/ \A w \in Worker : task'[w].pc # "write"
  BY <1>1 DEF InForce, Structure, TypeOK
<1>2. CASE file' \notin Directory /\ \E w \in Worker : task'[w].pc = "write"
  <2> DEFINE v == CHOOSE w \in Worker : task'[w].pc = "write"
  <2>1. v \in Worker /\ task'[v].pc = "write"
    BY <1>2
  <2>2. task'[v].list \in Directory \cup {Shared}
    BY <2>1 DEF Structure, TypeOK, Task, Placed, Loading
  <2>3. stock' \in Directory
    BY DEF Structure, TypeOK
  <2>4. InForce' = IF task'[v].list = Shared THEN stock' ELSE task'[v].list
    BY <1>2 DEF InForce, Listed
  <2> HIDE DEF v
  <2>5. QED
    BY <2>2, <2>3, <2>4
<1>3. QED
  BY <1>1, <1>2

(* A step after which the file, the stock list and what is being written   *)
(* are the same leaves the list in force.                                  *)
LEMMA InForceStays ==
  ASSUME Alone, Alone', UNCHANGED <<file, stock>>,
         \A w \in Worker : task'[w].pc = "write" <=> task[w].pc = "write",
         \A w \in Worker : task[w].pc = "write" => task'[w].list = task[w].list
  PROVE  UNCHANGED InForce
<1>1. CASE file \in Directory \/ \A w \in Worker : task[w].pc # "write"
  BY <1>1, InForceIs, InForceNext
<1>2. ASSUME file \notin Directory, NEW w \in Worker, task[w].pc = "write"
      PROVE  UNCHANGED InForce
  <2>1. InForce = Listed(task[w].list)
    BY <1>2, InForceIs
  <2>2. InForce' = Listed(task[w].list)'
    BY <1>2, InForceNext
  <2>3. QED
    BY <1>2, <2>1, <2>2 DEF Listed
<1>3. QED
  BY <1>1, <1>2

(* What a request makes of a record is one of the changes of a registry.   *)
LEMMA ChangeIsAmendment ==
  ASSUME NEW t \in Task, NEW emp \in Record, t.job \in Request,
         t.job.op \in {"transfer", "grant", "revoke", "fire"},
         t.ok => t.pin \in Pin, t.job.op = "grant" => t.ok
  PROVE  LET new == Changed(t, emp)
             j == t.job
         IN  \/ new = emp
             \/ /\ j.op = "transfer" /\ j.to \in Reader
                /\ new = [emp EXCEPT !.home = j.to]
             \/ /\ j.op = "transfer" /\ j.to \in Reader /\ t.pin \in Pin
                /\ \E access \in {[emp.access EXCEPT ![j.to] = t.pin],
                                  [emp.access EXCEPT ![emp.home] = 0,
                                                     ![j.to] = t.pin]} :
                     new = [emp EXCEPT !.home = j.to, !.access = access]
             \/ /\ j.op = "grant" /\ j.to \in Reader /\ t.pin \in Pin
                /\ new = [emp EXCEPT !.access[j.to] = t.pin]
             \/ /\ j.op \in {"revoke", "fire"} /\ j.at \in Reader
                /\ new = [emp EXCEPT !.access[j.at] = 0]
             \/ new = [emp EXCEPT !.gone = TRUE,
                                  !.access = [r \in Reader |-> 0]]
<1> DEFINE new == Changed(t, emp)
           j == t.job
<1>1. CASE j.op = "transfer"
  <2>0. j.to \in Reader
    BY <1>1, JobTypes
  <2>1. CASE ~t.ok
    BY <1>1, <2>0, <2>1 DEF Changed, Transferred, Record
  <2>2. CASE t.ok
    <3> DEFINE access == [r \in Reader |->
                            IF r = j.to THEN t.pin
                            ELSE IF r = emp.home /\ j.mode = "move" THEN 0
                            ELSE emp.access[r]]
    <3>1. new = [emp EXCEPT !.home = j.to, !.access = access]
      BY <1>1, <2>2 DEF Changed, Transferred
    <3>2. access \in {[emp.access EXCEPT ![j.to] = t.pin],
                      [emp.access EXCEPT ![emp.home] = 0, ![j.to] = t.pin]}
      BY <2>0 DEF Record, Branch
    <3> HIDE DEF access, new
    <3>3. QED
      BY <1>1, <2>0, <2>2, <3>1, <3>2 DEF new
  <2>3. QED
    BY <2>1, <2>2
<1>2. CASE j.op = "grant"
  BY <1>2, JobTypes DEF Changed, Granted
<1>3. CASE j.op = "revoke"
  BY <1>3, JobTypes DEF Changed, Revoked
<1>4. CASE j.op = "fire"
  BY <1>4, JobTypes DEF Changed, Offboarded
<1>5. QED
  BY <1>1, <1>2, <1>3, <1>4

(* The file is opened for a list that differs from the one in force in one *)
(* record, as the request changes that.                                    *)
LEMMA UpdateAmends ==
  ASSUME Structure, Tidy, Tidy', NEW w \in Worker, Update(w), Calm, Calm'
  PROVE  [Registry!RNext]_(Registry!rvars)
<1> DEFINE t == task[w]
           e == t.job.who
           emp == Employee(w)
           new == Changed(t, emp)
<1>1. /\ t.pc = "update" /\ task'[w].pc = "write" /\ file' = Truncated
      /\ t.job.op = "drop" => new = NoRecord
      /\ Listed(task[w].list)' = Rewritten(w)
      /\ UNCHANGED dismissed
  BY UpdateGoes DEF Structure, Update, quiet
<1>2. /\ t \in Task /\ e \in Person /\ Listed(t.list) \in Directory
      /\ t.job \in Request \cup Removal
      /\ t.job.op # "drop" =>
           /\ emp \in Record /\ t.job \in Request
           /\ t.job.op \in {"transfer", "grant", "revoke", "fire"}
      /\ t.ok => t.pin \in Pin
      /\ t.job.op = "grant" => t.ok
  BY <1>1, AtWork, JobTypes DEF Structure, Working, Loading, Placed
<1>3. file \in Directory /\ (t.job.op # "drop" => emp = file[e])
  BY <1>1, FileAtWork DEF Working
<1>4. InForce = file
  BY <1>3, InForceIs DEF Tidy
<1>5. InForce' = Rewritten(w)
  BY <1>1, InForceNext, Sentinels DEF Tidy
<1>6. Rewritten(w) = [file EXCEPT ![e] = new]
  <2>1. CASE t.job.op = "drop" /\ t.job.wipe
    <3>1. Off(file, Listed(t.list), e)
      BY <1>1, <2>1 DEF Tidy, InStep
    <3>2. QED
      BY <1>2, <1>3, <3>1 DEF Rewritten, Off, Directory
  <2>2. CASE ~(t.job.op = "drop" /\ t.job.wipe)
    <3>1. file = Listed(t.list)
      BY <1>1, <2>2 DEF Tidy, InStep, Working
    <3>2. QED
      BY <3>1 DEF Rewritten
  <2>3. QED
    BY <2>1, <2>2
<1>7. InForce' = [InForce EXCEPT ![e] = new] /\ UNCHANGED <<dismissed, Calm>>
  BY <1>1, <1>4, <1>5, <1>6
<1>8. Registry!Amend(e, new)
  BY <1>7 DEF Registry!Amend
<1>9. t.job.op # "drop" => emp = InForce[e] /\ InForce[e] # NoRecord
  BY <1>2, <1>3, <1>4, DirectoryAssumption
<1> HIDE DEF t, e, emp, new
<1>10. CASE t.job.op = "drop"
  <2>1. CASE InForce[e] = NoRecord
    <3>1. UNCHANGED InForce
      BY <1>1, <1>2, <1>3, <1>4, <1>7, <1>10, <2>1 DEF Directory, new, t
    <3>2. QED
      BY <1>7, <3>1 DEF Registry!rvars
  <2>2. CASE InForce[e] # NoRecord
    <3>1. Registry!Remove(e)
      BY <1>1, <1>8, <1>10 DEF Registry!Remove, t, new
    <3>2. QED
      BY <1>2, <2>2, <3>1 DEF Registry!RNext
  <2>3. QED
    BY <2>1, <2>2
<1>11. CASE t.job.op # "drop"
  <2> DEFINE j == t.job
  <2>0. InForce \in Directory
    BY <1>3, <1>4
  <2>1. CASE new = emp
    <3>1. UNCHANGED InForce
      BY <1>2, <1>7, <1>9, <1>11, <2>0, <2>1 DEF Directory
    <3>2. QED
      BY <1>7, <3>1 DEF Registry!rvars
  <2>2. CASE /\ j.op = "transfer" /\ j.to \in Reader
             /\ new = [emp EXCEPT !.home = j.to]
    <3>1. 1 \in Pin
      BY ReadersAssumption DEF Pin
    <3>2. new = [emp EXCEPT !.home = j.to, !.access = emp.access]
      BY <1>2, <1>11, <2>2 DEF Record
    <3>3. Registry!Transfer(e, j.to, 1)
      BY <1>8, <1>9, <1>11, <3>2 DEF Registry!Transfer
    <3>4. QED
      BY <1>2, <1>9, <1>11, <2>2, <3>1, <3>3 DEF Registry!RNext, Pin
  <2>3. CASE /\ j.op = "transfer" /\ j.to \in Reader /\ t.pin \in Pin
             /\ \E access \in {[emp.access EXCEPT ![j.to] = t.pin],
                               [emp.access EXCEPT ![emp.home] = 0,
                                                  ![j.to] = t.pin]} :
                  new = [emp EXCEPT !.home = j.to, !.access = access]
    <3>1. Registry!Transfer(e, j.to, t.pin)
      <4>1. PICK access \in {[emp.access EXCEPT ![j.to] = t.pin],
                             [emp.access EXCEPT ![emp.home] = 0,
                                                ![j.to] = t.pin]} :
              new = [emp EXCEPT !.home = j.to, !.access = access]
        BY <2>3
      <4>2. Registry!Amend(e, [InForce[e] EXCEPT !.home = j.to,
                                                 !.access = access])
        BY <1>8, <1>9, <1>11, <4>1
      <4>3. access \in {InForce[e].access,
                 [InForce[e].access EXCEPT ![j.to] = t.pin],
                 [InForce[e].access EXCEPT ![InForce[e].home] = 0,
                                           ![j.to] = t.pin]}
        BY <1>9, <1>11, <4>1
      <4>4. QED
        BY <4>2, <4>3 DEF Registry!Transfer
    <3>2. QED
      BY <1>2, <1>9, <1>11, <2>3, <3>1 DEF Registry!RNext, Pin
  <2>4. CASE /\ j.op = "grant" /\ j.to \in Reader /\ t.pin \in Pin
             /\ new = [emp EXCEPT !.access[j.to] = t.pin]
    <3>1. Registry!Grant(e, j.to, t.pin)
      BY <1>8, <1>9, <1>11, <2>4 DEF Registry!Grant
    <3>2. QED
      BY <1>2, <1>9, <1>11, <2>4, <3>1 DEF Registry!RNext, Pin
  <2>5. CASE /\ j.op \in {"revoke", "fire"} /\ j.at \in Reader
             /\ new = [emp EXCEPT !.access[j.at] = 0]
    <3>1. Registry!Revoke(e, j.at)
      BY <1>8, <1>9, <1>11, <2>5 DEF Registry!Revoke
    <3>2. QED
      BY <1>2, <1>9, <1>11, <2>5, <3>1 DEF Registry!RNext
  <2>6. CASE new = [emp EXCEPT !.gone = TRUE, !.access = [r \in Reader |-> 0]]
    <3>1. Registry!Dismiss(e)
      BY <1>8, <1>9, <1>11, <2>6 DEF Registry!Dismiss
    <3>2. QED
      BY <1>2, <1>9, <1>11, <3>1 DEF Registry!RNext
  <2>7. QED
    BY <1>2, <1>11, <2>1, <2>2, <2>3, <2>4, <2>5, <2>6, ChangeIsAmendment
    DEF t, new, emp
<1>12. QED
  BY <1>10, <1>11

(* Writing it changes nothing more, and answers a dismissal or a removal   *)
(* that is in force.                                                       *)
LEMMA WriteAnswers ==
  ASSUME Structure, Tidy, Tidy', NEW w \in Worker, Write(w), Calm, Calm'
  PROVE  [Registry!RNext]_(Registry!rvars)
<1> DEFINE t == task[w]
           e == t.job.who
<1>1. /\ t.pc = "write" /\ Listed(t.list) \in Directory /\ e \in Person
      /\ dismissed' = IF \/ t.job.op = "drop"
                         \/ t.job.op = "fire" /\ t.job.action = "fire_all"
                        THEN dismissed \cup {e} ELSE dismissed
  BY WriteGoes DEF Structure
<1>2. file = Truncated
  BY <1>1 DEF Tidy, Alone, Writing
<1>3. file' = Listed(t.list)
  BY <1>1, <1>2, DumpTypes DEF Structure, Write, Calm
<1>4. InForce = Listed(t.list)
  BY <1>1, <1>2, InForceIs, Sentinels DEF Tidy
<1>5. InForce' = Listed(t.list)
  BY <1>1, <1>3, InForceNext DEF Tidy
<1> HIDE DEF t, e
<1>6. CASE dismissed' = dismissed
  BY <1>4, <1>5, <1>6 DEF Registry!rvars
<1>7. CASE /\ t.job.op = "drop" \/ (t.job.op = "fire" /\ t.job.action = "fire_all")
           /\ dismissed' = dismissed \cup {e}
  <2>1. Gone(Listed(t.list), e)
    BY <1>1, <1>7 DEF Tidy, StaysOut, t, e
  <2>2. Registry!Answer(e)
    BY <1>4, <1>5, <1>7, <2>1 DEF Registry!Answer, Registry!HasLeft, Gone
  <2>3. QED
    BY <1>1, <2>2 DEF Registry!RNext
<1>8. QED
  BY <1>1, <1>6, <1>7

(* No other step shows.                                                    *)
LEMMA OthersStutter ==
  ASSUME Structure, Tidy, Tidy', NEW w \in Worker, Calm, Calm',
         \/ Start(w) \/ Load(w) \/ Restore(w) \/ Resolve(w) \/ Migrate(w)
         \/ RemoveSource(w) \/ Wipe(w)
  PROVE  UNCHANGED <<InForce, dismissed>>
<1>1. Alone /\ Alone'
  BY DEF Tidy
<1>2. CASE Start(w)
  <2>1. /\ task[w].pc = "idle" /\ task'[w].pc = "load" /\ Others(w)
        /\ UNCHANGED <<file, stock, dismissed>>
    BY <1>2, StartGoes DEF Structure, Start
  <2>2. QED
    BY <1>1, <2>1, InForceStays DEF Others
<1>3. CASE Load(w)
  <2>1. /\ \/ file \in Directory /\ file' = file
           \/ file \notin Directory /\ file' = Truncated /\ task'[w].pc = "restore"
        /\ task[w].pc = "load" /\ Others(w) /\ UNCHANGED <<stock, dismissed>>
    BY <1>3, LoadGoes DEF Structure, Load, quiet
  <2>2. CASE file \in Directory /\ file' = file
    BY <1>1, <2>1, <2>2, InForceIs, InForceNext
  <2>3. CASE /\ file \notin Directory /\ file' = Truncated
             /\ task'[w].pc = "restore"
    <3>1. \A v \in Worker : task'[v].pc # "write"
      BY <1>1, <2>3 DEF Alone
    <3>2. \A v \in Worker : task[v].pc # "write"
      BY <2>1, <3>1 DEF Others
    <3>3. QED
      BY <1>1, <2>1, <2>3, <3>1, <3>2, InForceIs, InForceNext, Sentinels
  <2>4. QED
    BY <2>1, <2>2, <2>3
<1>4. CASE Restore(w)
  <2>1. task[w].pc = "restore" /\ UNCHANGED <<stock, dismissed>>
    BY <1>4 DEF Restore, quiet
  <2>2. file = Truncated /\ \A v \in Worker : task[v].pc # "write"
    BY <1>1, <2>1 DEF Alone, Writing
  <2>3. file' = stock /\ stock \in Directory
    BY <1>4, <2>2, DumpTypes DEF Structure, Restore, Calm, TypeOK
  <2>4. QED
    BY <1>1, <2>1, <2>2, <2>3, InForceIs, InForceNext, Sentinels
<1>5. CASE Resolve(w) \/ Migrate(w) \/ RemoveSource(w) \/ Wipe(w)
  <2>1. task[w].pc \in Working /\ UNCHANGED <<file, dismissed>>
    BY <1>5 DEF Resolve, Migrate, RemoveSource, Wipe, quiet, Working, Migrating
  <2>2. file \in Directory
    BY <2>1, FileAtWork
  <2>3. QED
    BY <1>1, <2>1, <2>2, InForceIs, InForceNext
<1>6. QED
  BY <1>2, <1>3, <1>4, <1>5

(* A step of the directory is a step of EmployeeRegistry, or none.         *)
LEMMA RegistryStep ==
  ASSUME Structure, Orderly, Structure', Orderly', [Next]_vars
  PROVE  [Registry!RNext]_(Registry!rvars)
<1>1. CASE ~Calm'
  <2>1. InForce' \in Directory /\ dismissed' \subseteq Person
    BY InForceTypes DEF Structure, TypeOK
  <2>2. Directory = Registry!Table
    BY DEF Directory, Record, Branch, Registry!Table, Registry!Record
  <2>3. Registry!Break
    BY <1>1, <2>1, <2>2 DEF Registry!Break
  <2>4. QED
    BY <2>3 DEF Registry!RNext
<1>2. CASE Calm'
  <2>1. Calm
    BY <1>2, ExcusesGrow DEF Calm
  <2>2. Tidy /\ Tidy'
    BY <1>2, <2>1 DEF Orderly
  <2>3. ASSUME NEW w \in Worker,
               \/ Start(w) \/ Load(w) \/ Restore(w) \/ Resolve(w) \/ Migrate(w)
               \/ RemoveSource(w) \/ Wipe(w)
        PROVE  [Registry!RNext]_(Registry!rvars)
    <3>1. UNCHANGED <<InForce, dismissed>>
      BY <1>2, <2>1, <2>2, <2>3, OthersStutter
    <3>2. QED
      BY <1>2, <2>1, <3>1 DEF Registry!rvars
  <2>4. ASSUME NEW w \in Worker, Update(w) \/ Write(w)
        PROVE  [Registry!RNext]_(Registry!rvars)
    BY <1>2, <2>1, <2>2, <2>4, UpdateAmends, WriteAnswers
  <2>5. CASE \/ \E r \in Reader : LearnNames(r) \/ ReaderPolls(r)
             \/ UNCHANGED vars
    <3>1. UNCHANGED <<file, stock, task, dismissed>>
      BY <2>5 DEF LearnNames, ReaderPolls, quiet, vars
    <3>2. UNCHANGED InForce
      BY <2>2, <3>1, InForceStays DEF Tidy
    <3>3. QED
      BY <1>2, <2>1, <3>1, <3>2 DEF Registry!rvars
  <2>6. CASE Kill
    BY <1>2, <2>6 DEF Kill, Mishap, Calm
  <2>7. QED
    BY <2>3, <2>4, <2>5, <2>6 DEF Next
<1>3. QED
  BY <1>1, <1>2

(* Every behaviour of the threads, the file and the readers is one of      *)
(* EmployeeRegistry: a request changes one record in one step, and none of *)
(* the changes of another is lost to a list that was loaded before.        *)
THEOREM DirectoryIsRegistry == Spec => ImplementsRegistry
<1>1. Init => Registry!RInit
  <2> SUFFICES ASSUME Init PROVE Registry!RInit
    OBVIOUS
  <2>1. /\ \A w \in Worker : task[w].pc # "write"
        /\ file = Saved /\ stock = Stock /\ dismissed = {} /\ Calm
    BY DEF Init, Idle, Calm
  <2>2. InForce = Opening
    BY <2>1, DirectoryAssumption DEF InForce, Opening
  <2>3. QED
    BY <2>1, <2>2 DEF Registry!RInit
<1>2. /\ Structure /\ Orderly
      /\ (Structure /\ Orderly)' /\ [Next]_vars
      => [Registry!RNext]_(Registry!rvars)
  BY RegistryStep
<1>3. QED
  BY <1>1, <1>2, InOrder, PTL DEF Spec, ImplementsRegistry, Registry!RSpec

(* A transfer leaves a record, of somebody as much in service as before.   *)
LEMMA TransferKeeps ==
  ASSUME NEW emp \in Record, NEW r \in Reader, NEW access \in [Reader -> 0..MaxPin]
  PROVE  /\ [emp EXCEPT !.home = r, !.access = access] \in Record
         /\ [emp EXCEPT !.home = r, !.access = access].gone = emp.gone
BY DEF Record, Branch

(* So does the change of one entry.                                        *)
LEMMA EntryKeeps ==
  ASSUME NEW emp \in Record, NEW r \in Reader, NEW p \in 0..MaxPin
  PROVE  /\ [emp EXCEPT !.access[r] = p] \in Record
         /\ [emp EXCEPT !.access[r] = p].gone = emp.gone
BY DEF Record

(* And a registry keeps its promise: who was told to have left is not in   *)
(* service, for as long as the promise is not void.                        *)
THEOREM RegistryKeepsItsPromise ==
  Registry!RSpec => []Registry!LeftForGood
<1> DEFINE Types == InForce \in Directory /\ dismissed \subseteq Person
           Promise == Registry!LeftForGood
<1>1. Registry!RInit => Types /\ Promise
  BY DirectoryAssumption DEF Registry!RInit, Registry!LeftForGood, Opening
<1>2. Types /\ Promise /\ [Registry!RNext]_(Registry!rvars)
        => Types' /\ Promise'
  <2> SUFFICES ASSUME Types, Promise, [Registry!RNext]_(Registry!rvars)
               PROVE  Types' /\ Promise'
    OBVIOUS
  <2>1. ASSUME NEW e \in Person, NEW new \in Record \cup {NoRecord},
               Registry!Amend(e, new), Registry!HasLeft(e) =>
                 new = NoRecord \/ new.gone
        PROVE  Types' /\ Promise'
    BY <2>1 DEF Registry!Amend, Registry!LeftForGood, Registry!HasLeft, Directory
  <2>2. ASSUME NEW e \in Person, InForce[e] # NoRecord,
               \/ \E r \in Reader : \/ Registry!Revoke(e, r)
                                    \/ \E p \in 1..MaxPin :
                                         \/ Registry!Transfer(e, r, p)
                                         \/ Registry!Grant(e, r, p)
               \/ Registry!Dismiss(e) \/ Registry!Remove(e)
        PROVE  Types' /\ Promise'
    <3>0. PICK emp \in Record : emp = InForce[e]
      BY <2>2 DEF Directory
    <3>1. ASSUME NEW r \in Reader, Registry!Revoke(e, r)
          PROVE  Types' /\ Promise'
      <4>1. 0 \in 0..MaxPin
        BY ReadersAssumption
      <4>2. /\ [emp EXCEPT !.access[r] = 0] \in Record
            /\ [emp EXCEPT !.access[r] = 0].gone = emp.gone
        BY <4>1, EntryKeeps
      <4>3. QED
        BY <2>1, <2>2, <3>0, <3>1, <4>2 DEF Registry!Revoke, Registry!HasLeft
    <3>2. ASSUME NEW r \in Reader, NEW p \in 1..MaxPin, Registry!Transfer(e, r, p)
          PROVE  Types' /\ Promise'
      <4>1. p \in 0..MaxPin
        BY ReadersAssumption
      <4>2. PICK access \in {emp.access, [emp.access EXCEPT ![r] = p],
                             [emp.access EXCEPT ![emp.home] = 0, ![r] = p]} :
              Registry!Amend(e, [emp EXCEPT !.home = r, !.access = access])
        BY <3>0, <3>2 DEF Registry!Transfer
      <4>3. access \in [Reader -> 0..MaxPin]
        BY <4>1, ReadersAssumption DEF Record, Branch
      <4>4. /\ [emp EXCEPT !.home = r, !.access = access] \in Record
            /\ [emp EXCEPT !.home = r, !.access = access].gone = emp.gone
        BY <4>3, TransferKeeps
      <4>5. QED
        BY <2>1, <2>2, <3>0, <4>2, <4>4 DEF Registry!HasLeft
    <3>3. ASSUME NEW r \in Reader, NEW p \in 1..MaxPin, Registry!Grant(e, r, p)
          PROVE  Types' /\ Promise'
      <4>1. p \in 0..MaxPin
        BY ReadersAssumption
      <4>2. /\ [emp EXCEPT !.access[r] = p] \in Record
            /\ [emp EXCEPT !.access[r] = p].gone = emp.gone
        BY <4>1, EntryKeeps
      <4>3. QED
        BY <2>1, <2>2, <3>0, <3>3, <4>2 DEF Registry!Grant, Registry!HasLeft
    <3>4. CASE Registry!Dismiss(e)
      <4> DEFINE new == [emp EXCEPT !.gone = TRUE,
                                    !.access = [x \in Reader |-> 0]]
      <4>1. [x \in Reader |-> 0] \in [Reader -> 0..MaxPin]
        BY ReadersAssumption
      <4>2. new \in Record /\ new.gone
        BY <4>1 DEF Record
      <4>3. Registry!Amend(e, new)
        BY <3>0, <3>4 DEF Registry!Dismiss
      <4>4. QED
        BY <2>1, <4>2, <4>3
    <3>5. CASE Registry!Remove(e)
      BY <2>1, <3>5 DEF Registry!Remove
    <3>6. QED
      BY <2>2, <3>1, <3>2, <3>3, <3>4, <3>5
  <2>3. ASSUME NEW e \in Person, Registry!Answer(e)
        PROVE  Types' /\ Promise'
    BY <2>3 DEF Registry!Answer, Registry!LeftForGood, Registry!HasLeft
  <2>4. CASE Registry!Break
    <3>1. Directory = Registry!Table
      BY DEF Directory, Record, Branch, Registry!Table, Registry!Record
    <3>2. QED
      BY <2>4, <3>1 DEF Registry!Break, Registry!LeftForGood
  <2>5. CASE UNCHANGED (Registry!rvars)
    BY <2>5 DEF Registry!rvars, Registry!LeftForGood, Registry!HasLeft
  <2>6. QED
    BY <2>2, <2>3, <2>4, <2>5 DEF Registry!RNext
<1>3. QED
  BY <1>1, <1>2, PTL DEF Registry!RSpec
=============================================================================
