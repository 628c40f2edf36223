------------------------ MODULE DeviceMigrationProofs ------------------------
(***************************************************************************)
(* Theorems about DeviceMigration, for any readers, any profiles, any      *)
(* requests and any number of workers and faults.                          *)
(*                                                                         *)
(* The invariants checked are not inductive alone.  IInv adds where each   *)
(* worker is and which connections it holds (Placed, Fetching), that what  *)
(* it deletes was asked for (Ordered, QueueOrdered), that the source of a  *)
(* move is still the person copied and the target has that person before   *)
(* the source goes (Source, Target), and that the PIN about to be written  *)
(* is free of other names (Clear), and that whatever a deletion has not    *)
(* done is still on its list or its answer is a failure (Deleted).  One    *)
(* connection per reader keeps other workers away; what ADMS commands do   *)
(* meanwhile is in the exceptions.                                         *)
(***************************************************************************)
EXTENDS DeviceMigration, ReadersProofs, FiniteSetTheorems

Deletion(w) == job[w].op \in {"delete", "batch"}

\* The steps at which a migration has copied the source profile, has the
\* target's connection too, and has chosen the PIN.
Copied == {"templates", "connectTarget", "readTarget", "write",
           "writePrints", "verify", "remove"}
AtTarget == {"readTarget", "write", "writePrints", "verify", "remove"}
Chosen == {"write", "writePrints", "verify", "remove"}
Unconnected == {"idle", "connect", "release"}

(* Where a worker is, which request it has, and which readers.             *)
Placed(w) ==
  /\ job[w] = NoJob <=> pc[w] = "idle"
  /\ pc[w] \in Copied \ {"write", "verify"} => Migrates(w)
  /\ pc[w] = "write" => Migrates(w) \/ job[w].op = "create"
  /\ pc[w] = "delete" => Deletion(w)
  /\ pc[w] = "connect" => \A r \in Reader : conn[r] # w
  /\ pc[w] \notin Unconnected => conn[job[w].reader] = w
  /\ Migrates(w) /\ pc[w] \in Copied => seen[w] \in Profile
  /\ Migrates(w) /\ pc[w] \in AtTarget =>
       conn[job[w].target] = w /\ job[w].target # job[w].reader
  /\ Migrates(w) /\ pc[w] \in Chosen => dest[w] \in Pin

(* A list of users is read from one reader; it ends with an error after a  *)
(* failed call, or without a connection.                                   *)
Fetching(w) ==
  job[w].op = "fetch" =>
    \A r \in Reader : conn[r] = w =>
      /\ r = job[w].reader
      /\ pc[w] = "release" /\ answer[w] = "failed" => r \in failed

(* What is deleted was asked for.                                          *)
Ordered(w) ==
  Deletion(w) =>
    /\ ~job[w].printsOnly => {job[w].reader} \X job[w].pins \subseteq asked
    /\ pc[w] = "delete" => left[w] \subseteq job[w].pins

QueueOrdered ==
  \A r \in Reader : \A i \in DOMAIN commands[r] :
    commands[r][i].kind = "wipe" => <<r, commands[r][i].pin>> \in asked

(* What may have happened to somebody who is stored nowhere.               *)
Excused(a) ==
  \/ \E s \in asked : <<a, s[1], s[2]>> \in held
  \/ \E c \in replaced : c.who = a
  \/ \E r \in pushed, p \in Pin : <<a, r, p>> \in held

Is(r, p, a) == users[r][p] # NoUser /\ users[r][p].who = a

(* The source of a migration is whose it was, and once the target has been *)
(* written the person is there, unless excused.                            *)
Source(w) ==
  LET j == job[w]
  IN  Migrates(w) /\ pc[w] \in Copied /\ users[j.reader][j.pin] # NoUser =>
        \/ Is(j.reader, j.pin, seen[w].who)
        \/ Excused(users[j.reader][j.pin].who)
Target(w) ==
  Migrates(w) /\ pc[w] \in Chosen \ {"write"} =>
    Is(job[w].target, dest[w], seen[w].who) \/ Excused(seen[w].who)

(* What is about to be written over is free or has the same name.          *)
Free(r, p, name) ==
  \/ users[r][p] = NoUser
  \/ users[r][p].name \in {NoName, name}
  \/ r \in pushed
Clear(w) ==
  /\ job[w].op = "create" /\ pc[w] = "write" =>
       Free(job[w].reader, job[w].pin, NoName)
  /\ Migrates(w) /\ pc[w] \in {"write", "writePrints"} =>
       Free(job[w].target, dest[w], UserName(w))

Kept == \A h \in held : Profiles(h[1]) # {} \/ Excused(h[1])

Working(w) == Placed(w) /\ Fetching(w)
Moving(w) == Ordered(w) /\ Source(w) /\ Target(w) /\ Clear(w)

-----------------------------------------------------------------------------
(* Requests                                                                *)

(* The parameters of a request, by its operation.                          *)
LEMMA JobTypes ==
  ASSUME TypeOK, NEW w \in Worker, job[w] # NoJob
  PROVE  /\ job[w] \in Jobs /\ job[w].reader \in Reader
         /\ Migrates(w) => /\ job[w].target \in Reader
                           /\ job[w].pin \in Pin /\ job[w].to \in Pin
         /\ job[w].op = "create" => job[w].pin \in Pin /\ job[w].who \in Person
         /\ Deletion(w) => /\ job[w].pins \in SUBSET Pin /\ job[w].pins # {}
                           /\ job[w].printsOnly \in BOOLEAN
         /\ \/ Migrates(w) \/ Deletion(w)
            \/ job[w].op \in {"create", "fetch"}
<1>1. job[w] \in Job
  BY MigrationAssumption DEF TypeOK
<1>2. CASE job[w] \in [op: {"copy", "move"}, reader: Reader, target: Reader,
                       pin: Pin, to: Pin]
  BY <1>2 DEF Migrates, Deletion, TypeOK
<1>3. CASE job[w] \in [op: {"create"}, reader: Reader, pin: Pin, who: Person]
  BY <1>3 DEF Migrates, Deletion, TypeOK
<1>4. CASE job[w] \in [op: {"delete", "batch"}, reader: Reader,
                       pins: (SUBSET Pin) \ {{}}, printsOnly: BOOLEAN]
  BY <1>4 DEF Migrates, Deletion, TypeOK
<1>5. CASE job[w] \in [op: {"fetch"}, reader: Reader]
  BY <1>5 DEF Migrates, Deletion, TypeOK
<1>6. QED
  BY <1>1, <1>2, <1>3, <1>4, <1>5 DEF Job

(* A worker without a request is in no operation.                          *)
LEMMA NoJobDoesNothing ==
  ASSUME NEW w, job[w] = NoJob
  PROVE  ~Migrates(w) /\ ~Deletion(w) /\ job[w].op \notin {"create", "fetch"}
BY DEF NoJob, Migrates, Deletion

-----------------------------------------------------------------------------
(* What a reader stores                                                    *)

(* The PIN a migration chooses is free, or what it replaces has no other   *)
(* name.                                                                   *)
LEMMA PinForIsFree ==
  ASSUME ReadersTypeOK, NEW r \in Reader, NEW p \in Pin, NEW name, HasRoom(r)
  PROVE  PinFor(r, p, name) \in Pin /\ Free(r, PinFor(r, p, name), name)
BY PinForIsPin DEF Free

-----------------------------------------------------------------------------
(* Types                                                                   *)

Phase == {"idle", "connect", "read", "templates", "connectTarget",
          "readTarget", "write", "writePrints", "delete", "verify", "remove",
          "release"}
Answer == {"none", "ok", "queued", "failed"}

(* The ways in which a step of a request ends.                             *)
Outcome(w) ==
  \/ \E next \in Phase \ {"idle"} : GoOn(w, next)
  \/ \E a \in {"ok", "failed"} : Answers(w, a)
  \/ Raise(w) /\ UNCHANGED mishaps
  \/ \E r \in Reader :
       \/ Breaks(w, r)
       \/ \E next \in Phase \ {"idle"} : ItemFails(w, r, next)

OutcomeTypeOK ==
  /\ commands \in [Reader -> Seq(Command)]
  /\ pc \in [Worker -> Phase]
  /\ answer \in [Worker -> Answer]
  /\ faults \in 0..MaxFaults
  /\ failed \subseteq Reader

(* The ADMS commands an except block queues are commands.                  *)
LEMMA FallbackType ==
  ASSUME TypeOK, NEW w \in Worker, job[w] # NoJob
  PROVE  Fallback(job[w]) \in Seq(Command)
<1> DEFINE j == job[w]
<1>1. CASE j.op = "create"
  <2>1. [kind |-> "create", pin |-> j.pin, who |-> j.who] \in Command
    BY <1>1, JobTypes DEF Command
  <2>2. QED
    BY <1>1, <2>1 DEF Fallback
<1>2. CASE j.op = "delete"
  <2> DEFINE cmd(k) == [kind |-> k, pin |-> CHOOSE p \in j.pins : TRUE]
  <2>1. (CHOOSE p \in j.pins : TRUE) \in Pin
    BY <1>2, JobTypes DEF Deletion
  <2>2. cmd("wipe") \in Command /\ cmd("unprint") \in Command
    BY <2>1 DEF Command
  <2>3. Fallback(j) = IF j.printsOnly THEN <<cmd("unprint"), cmd("unprint")>>
                      ELSE <<cmd("wipe"), cmd("wipe"), cmd("unprint"), cmd("unprint")>>
    BY <1>2 DEF Fallback
  <2> HIDE DEF cmd
  <2>4. QED
    BY <2>2, <2>3
<1>3. CASE j.op \notin {"create", "delete"}
  BY <1>3 DEF Fallback
<1>4. QED
  BY <1>1, <1>2, <1>3

(* The except block of a request keeps the types and ends the request.     *)
LEMMA RaiseTypes ==
  ASSUME TypeOK, NEW w \in Worker, job[w] # NoJob, Raise(w)
  PROVE  /\ commands' \in [Reader -> Seq(Command)]
         /\ pc' \in [Worker -> Phase] /\ pc' = [pc EXCEPT ![w] = "release"]
         /\ answer' \in [Worker -> Answer]
         /\ \A v \in Worker \ {w} : answer'[v] = answer[v]
<1>1. commands' \in [Reader -> Seq(Command)]
  <2>1. commands[job[w].reader] \o Fallback(job[w]) \in Seq(Command)
    BY FallbackType, JobTypes, ConcatProperties DEF TypeOK, ReadersTypeOK
  <2>2. QED
    BY <2>1 DEF Raise, TypeOK, ReadersTypeOK
<1>2. QED
  BY <1>1 DEF Raise, TypeOK, Phase, Answer

(* A failed call is counted within the bound, on its reader.               *)
LEMMA FaultTypes ==
  ASSUME TypeOK, NEW r \in Reader, Fault(r)
  PROVE  /\ faults' \in 0..MaxFaults
         /\ failed' = failed \cup {r} /\ failed' \subseteq Reader
<1>1. faults' \in 0..MaxFaults
  BY MigrationAssumption DEF Fault, TypeOK
<1>2. QED
  BY <1>1 DEF Fault, TypeOK

(* However a step ends, it keeps the types and moves no other worker.      *)
LEMMA OutcomeTypes ==
  ASSUME TypeOK, NEW w \in Worker, job[w] # NoJob, Outcome(w)
  PROVE  /\ OutcomeTypeOK'
         /\ pc'[w] # "idle"
         /\ \A v \in Worker \ {w} : pc'[v] = pc[v] /\ answer'[v] = answer[v]
         /\ failed \subseteq failed'
<1> USE DEF OutcomeTypeOK, TypeOK, ReadersTypeOK, Phase, Answer, mishaps
<1>1. ASSUME NEW next \in Phase \ {"idle"}, GoOn(w, next)
      PROVE  /\ OutcomeTypeOK' /\ pc'[w] # "idle" /\ failed \subseteq failed'
             /\ \A v \in Worker \ {w} : pc'[v] = pc[v] /\ answer'[v] = answer[v]
  BY <1>1 DEF GoOn
<1>2. ASSUME NEW a \in {"ok", "failed"}, Answers(w, a)
      PROVE  /\ OutcomeTypeOK' /\ pc'[w] # "idle" /\ failed \subseteq failed'
             /\ \A v \in Worker \ {w} : pc'[v] = pc[v] /\ answer'[v] = answer[v]
  BY <1>2 DEF Answers
<1>3. CASE Raise(w) /\ UNCHANGED mishaps
  BY <1>3, RaiseTypes
<1>4. ASSUME NEW r \in Reader, Breaks(w, r)
      PROVE  /\ OutcomeTypeOK' /\ pc'[w] # "idle" /\ failed \subseteq failed'
             /\ \A v \in Worker \ {w} : pc'[v] = pc[v] /\ answer'[v] = answer[v]
  BY <1>4, RaiseTypes, FaultTypes DEF Breaks
<1>5. ASSUME NEW r \in Reader, NEW next \in Phase \ {"idle"},
             ItemFails(w, r, next)
      PROVE  /\ OutcomeTypeOK' /\ pc'[w] # "idle" /\ failed \subseteq failed'
             /\ \A v \in Worker \ {w} : pc'[v] = pc[v] /\ answer'[v] = answer[v]
  BY <1>5, FaultTypes DEF ItemFails
<1>6. QED
  BY <1>1, <1>2, <1>3, <1>4, <1>5 DEF Outcome

(* What a step of a worker sets besides the outcome.                       *)
LocalTypeOK ==
  /\ job \in [Worker -> Jobs \cup {NoJob}]
  /\ seen \in [Worker -> Profile \cup {NoUser}]
  /\ dest \in [Worker -> Pin \cup {0}]
  /\ left \in [Worker -> SUBSET Pin]
  /\ wiped \in [Worker -> SUBSET Pin]
  /\ started \in 0..MaxJobs
  /\ crashed \in BOOLEAN
  /\ asked \subseteq Reader \X Pin

StoreTypeOK ==
  /\ users \in [Reader -> [Pin -> Profile \cup {NoUser}]]
  /\ held \subseteq Person \X Reader \X Pin
  /\ replaced \subseteq Replacement
  /\ pushed \subseteq Reader

LineTypeOK ==
  /\ conn \in [Reader -> Worker \cup {Nobody}]
  /\ disabled \subseteq Reader

IdleUnconnected == \A w \in Worker : pc[w] = "idle" => \A r \in Reader : conn[r] # w

(* The type invariant by what a step sets: outcome, locals, store, lines.  *)
LEMMA TypeParts ==
  TypeOK <=> OutcomeTypeOK /\ LocalTypeOK /\ StoreTypeOK /\ LineTypeOK
               /\ IdleUnconnected
BY DEF TypeOK, ReadersTypeOK, OutcomeTypeOK, LocalTypeOK, StoreTypeOK,
       LineTypeOK, IdleUnconnected, Phase, Answer

(* The same, after a step.                                                 *)
LEMMA TypePartsNext ==
  TypeOK' <=> OutcomeTypeOK' /\ LocalTypeOK' /\ StoreTypeOK' /\ LineTypeOK'
                /\ IdleUnconnected'
BY DEF TypeOK, ReadersTypeOK, OutcomeTypeOK, LocalTypeOK, StoreTypeOK,
       LineTypeOK, IdleUnconnected, Phase, Answer

(* Connecting ends as every step does, and takes the one reader at most.   *)
LEMMA ConnectEffect ==
  ASSUME TypeOK, NEW w \in Worker, NEW r \in Reader,
         NEW next \in Phase \ {"idle"}, Connect(w, r, next)
  PROVE  /\ Outcome(w) /\ LineTypeOK'
         /\ \/ UNCHANGED <<conn, disabled>>
            \/ /\ conn[r] = Nobody /\ conn' = [conn EXCEPT ![r] = w]
               /\ disabled' = disabled \cup {r}
<1>1. Outcome(w)
  BY DEF Connect, Outcome
<1>2. \/ UNCHANGED <<conn, disabled>>
      \/ /\ conn[r] = Nobody /\ conn' = [conn EXCEPT ![r] = w]
         /\ disabled' = disabled \cup {r}
  BY DEF Connect
<1>3. LineTypeOK'
  <2>1. LineTypeOK
    BY TypeParts
  <2>2. conn' = conn \/ conn' = [conn EXCEPT ![r] = w]
    BY <1>2
  <2>3. disabled' = disabled \/ disabled' = disabled \cup {r}
    BY <1>2
  <2>4. QED
    BY <2>1, <2>2, <2>3 DEF LineTypeOK
<1>4. QED
  BY <1>1, <1>2, <1>3

(* A step that ends with an outcome keeps the types if what it stores and  *)
(* connects has them.                                                      *)
LEMMA OutcomeKeepsTypes ==
  ASSUME TypeOK, NEW w \in Worker, job[w] # NoJob, Outcome(w),
         LocalTypeOK', StoreTypeOK', LineTypeOK',
         \A r \in Reader : conn'[r] \in {conn[r], w}
  PROVE  TypeOK'
<1>1. OutcomeTypeOK' /\ pc'[w] # "idle"
      /\ \A v \in Worker \ {w} : pc'[v] = pc[v]
  BY OutcomeTypes
<1>2. IdleUnconnected'
  BY <1>1 DEF IdleUnconnected, TypeOK
<1>3. QED
  BY <1>1, <1>2, TypePartsNext

(* The steps that end with an outcome: all but three.                      *)
Ended(w) ==
  \/ ConnectReader(w) \/ FetchUsers(w)
  \/ CheckFree(w) \/ CreateProfile(w) \/ VerifyCreated(w)
  \/ FindUsers(w) \/ DeleteUser(w) \/ VerifyDeleted(w)
  \/ FindSource(w) \/ ConnectTarget(w) \/ FindTarget(w)
  \/ WriteProfile(w) \/ WriteTemplates(w) \/ VerifyTarget(w)
  \/ RemoveSource(w)

(* These steps belong to a request and end with an outcome.                *)
LEMMA Ends ==
  ASSUME TypeOK, NEW w \in Worker, Placed(w), Ended(w)
  PROVE  job[w] # NoJob /\ Outcome(w)
<1>1. job[w] # NoJob /\ pc[w] # "idle"
  BY DEF Placed, Ended, ConnectReader, ConnectTarget, FetchUsers, CheckFree,
         CreateProfile, VerifyCreated, FindUsers, DeleteUser, VerifyDeleted,
         FindSource, FindTarget, WriteProfile, WriteTemplates, VerifyTarget,
         RemoveSource
<1>2. job[w].reader \in Reader
  BY <1>1, JobTypes
<1>a. Migrates(w) => job[w].target \in Reader
  BY <1>1, JobTypes
<1> SUFFICES Outcome(w)
  BY <1>1
<1>3. CASE \/ FetchUsers(w) \/ CheckFree(w) \/ CreateProfile(w)
           \/ VerifyCreated(w) \/ FindUsers(w) \/ VerifyDeleted(w)
           \/ FindSource(w) \/ VerifyTarget(w) \/ RemoveSource(w)
  BY <1>2, <1>3, <1>a DEF Migrates, Outcome, Phase, FetchUsers, CheckFree, CreateProfile,
         VerifyCreated, FindUsers, VerifyDeleted, FindSource, VerifyTarget,
         RemoveSource
<1>4. CASE DeleteUser(w)
  <2>1. PICK p \in left[w] :
          LET next == IF left[w] = {p} THEN "verify" ELSE "delete"
          IN  \/ GoOn(w, next)
              \/ Breaks(w, job[w].reader)
              \/ ItemFails(w, job[w].reader, next)
    BY <1>4 DEF DeleteUser
  <2>2. QED
    BY <1>2, <2>1 DEF Outcome, Phase
<1>5. CASE ConnectReader(w) \/ ConnectTarget(w)
  <2>1. PICK r \in Reader, next \in Phase \ {"idle"} : Connect(w, r, next)
    BY <1>1, <1>2, <1>5, <1>a DEF ConnectReader, ConnectTarget, Phase, Placed, Copied
  <2>2. QED
    BY <2>1 DEF Connect, Outcome
<1>6. CASE FindTarget(w) \/ WriteProfile(w) \/ WriteTemplates(w)
  <2>1. job[w].target \in Reader
    BY <1>6, <1>a DEF FindTarget, WriteProfile, WriteTemplates, Placed, Copied
  <2>2. QED
    BY <1>6, <2>1 DEF Outcome, Phase, FindTarget, WriteProfile, WriteTemplates,
                      WriteTarget
<1>7. QED
  BY <1>3, <1>4, <1>5, <1>6 DEF Ended

(* Every step of the readers and of the workers keeps the types.           *)
LEMMA TypeStep ==
  TypeOK /\ (\A w \in Worker : Placed(w)) /\ [Next]_vars => TypeOK'
<1> SUFFICES ASSUME TypeOK, \A w \in Worker : Placed(w), [Next]_vars
             PROVE  TypeOK'
  OBVIOUS
<1>a. OutcomeTypeOK /\ LocalTypeOK /\ StoreTypeOK /\ LineTypeOK
      /\ IdleUnconnected
  BY TypeParts
<1>b. ASSUME NEW w \in Worker, pc[w] # "idle"
      PROVE  job[w] # NoJob
  BY <1>b DEF Placed
<1>1. ASSUME NEW w \in Worker, Start(w)
      PROVE  TypeOK'
  <2>1. PICK j \in Jobs : /\ job' = [job EXCEPT ![w] = j]
                          /\ asked' = IF j.op \in {"delete", "batch"} /\ ~j.printsOnly
                                        THEN asked \cup ({j.reader} \X j.pins)
                                        ELSE asked
    BY <1>1 DEF Start
  <2>2. asked' \subseteq Reader \X Pin
    <3>1. j.op \in {"delete", "batch"} => j.reader \in Reader /\ j.pins \subseteq Pin
      BY MigrationAssumption DEF Job
    <3>2. QED
      BY <2>1, <3>1 DEF TypeOK
  <2>3. started' \in 0..MaxJobs
    BY <1>1, MigrationAssumption DEF Start, TypeOK
  <2>4. OutcomeTypeOK' /\ IdleUnconnected'
    BY <1>1, <1>a DEF Start, OutcomeTypeOK, IdleUnconnected, Phase, readerVars,
                      mishaps
  <2>5. LocalTypeOK'
    BY <1>1, <1>a, <2>1, <2>2, <2>3 DEF Start, LocalTypeOK
  <2>6. StoreTypeOK' /\ LineTypeOK'
    BY <1>1, <1>a DEF Start, StoreTypeOK, LineTypeOK, readerVars, readerHistory
  <2>7. QED
    BY <2>4, <2>5, <2>6, TypePartsNext
<1>2. ASSUME NEW w \in Worker, Release(w)
      PROVE  TypeOK'
  <2>1. conn' \in [Reader -> Worker \cup {Nobody}]
        /\ \A r \in Reader : conn'[r] # w /\ conn'[r] \in {conn[r], Nobody}
    BY <1>2, ReadersAssumption DEF Release, TypeOK, ReadersTypeOK
  <2>2. disabled' \subseteq Reader
    BY <1>2 DEF Release, TypeOK, ReadersTypeOK
  <2>3. faults' \in 0..MaxFaults /\ failed' \subseteq Reader
    <3>1. \/ UNCHANGED mishaps
          \/ \E r \in Reader : Fault(r)
      BY <1>2 DEF Release
    <3>2. QED
      BY <3>1, FaultTypes DEF TypeOK, mishaps
  <2>4. OutcomeTypeOK'
    BY <1>2, <1>a, <2>3 DEF Release, Forget, OutcomeTypeOK, Phase, Answer
  <2>5. LocalTypeOK'
    BY <1>2, <1>a DEF Release, Forget, KeepRequests, LocalTypeOK
  <2>6. StoreTypeOK'
    BY <1>2, <1>a DEF Release, StoreTypeOK, readerHistory
  <2>7. IdleUnconnected'
    BY <1>2, <1>a, <2>1, ReadersAssumption DEF Release, Forget, IdleUnconnected
  <2>8. QED
    BY <2>1, <2>2, <2>4, <2>5, <2>6, <2>7, TypePartsNext DEF LineTypeOK
<1>3. ASSUME NEW w \in Worker, ConnectReader(w) \/ ConnectTarget(w)
      PROVE  TypeOK'
  <2>1. job[w] # NoJob /\ (pc[w] = "connectTarget" => Migrates(w))
    BY <1>3, <1>b DEF ConnectReader, ConnectTarget, Placed, Copied
  <2>2. PICK r \in Reader, next \in Phase \ {"idle"} : Connect(w, r, next)
    BY <1>3, <2>1, JobTypes DEF ConnectReader, ConnectTarget, Phase
  <2>3. LocalTypeOK' /\ StoreTypeOK'
    BY <1>3, <1>a DEF ConnectReader, ConnectTarget, LocalTypeOK, StoreTypeOK,
                      locals, readerHistory, KeepRequests
  <2>4. /\ Outcome(w) /\ LineTypeOK'
        /\ \/ UNCHANGED <<conn, disabled>>
           \/ /\ conn[r] = Nobody /\ conn' = [conn EXCEPT ![r] = w]
              /\ disabled' = disabled \cup {r}
    BY <2>2, ConnectEffect
  <2>6. \A x \in Reader : conn'[x] \in {conn[x], w}
    BY <2>4 DEF TypeOK, ReadersTypeOK
  <2>5. QED
    BY <2>1, <2>3, <2>4, <2>6, OutcomeKeepsTypes
<1>4. ASSUME NEW w \in Worker,
             FetchUsers(w) \/ CheckFree(w) \/ VerifyCreated(w)
               \/ VerifyDeleted(w) \/ VerifyTarget(w)
      PROVE  TypeOK'
  <2>1. job[w] # NoJob
    BY <1>4, <1>b DEF FetchUsers, CheckFree, VerifyCreated, VerifyDeleted, VerifyTarget
  <2>2. LocalTypeOK' /\ StoreTypeOK' /\ LineTypeOK' /\ UNCHANGED conn
    BY <1>4, <1>a DEF FetchUsers, CheckFree, VerifyCreated, VerifyDeleted,
         VerifyTarget, KeepReaders, KeepRequests, LocalTypeOK, StoreTypeOK,
         LineTypeOK, locals, readerHistory
  <2>3. job[w].reader \in Reader /\ (Migrates(w) => job[w].target \in Reader)
    BY <2>1, JobTypes
  <2>4. Outcome(w)
    BY <1>4, Ends DEF Ended
  <2>5. QED
    BY <2>1, <2>2, <2>4, OutcomeKeepsTypes
<1>5. ASSUME NEW w \in Worker, FindUsers(w)
      PROVE  TypeOK'
  <2>1. job[w] # NoJob /\ Deletion(w)
    BY <1>5, <1>b DEF FindUsers, Deletion
  <2>2. job[w].reader \in Reader /\ job[w].pins \cap Stored(job[w].reader) \subseteq Pin
    BY <2>1, JobTypes
  <2>3. Outcome(w)
    BY <1>5, Ends DEF Ended
  <2>4. LocalTypeOK'
    BY <1>5, <1>a, <2>2 DEF FindUsers, KeepRequests, LocalTypeOK
  <2>5. StoreTypeOK' /\ LineTypeOK' /\ UNCHANGED conn
    BY <1>5, <1>a DEF FindUsers, KeepReaders, StoreTypeOK, LineTypeOK, readerHistory
  <2>6. QED
    BY <2>1, <2>3, <2>4, <2>5, OutcomeKeepsTypes
<1>6. ASSUME NEW w \in Worker, FindSource(w)
      PROVE  TypeOK'
  <2>1. job[w] # NoJob /\ Migrates(w)
    BY <1>6, <1>b DEF FindSource
  <2>2. job[w].reader \in Reader /\ job[w].pin \in Pin
    BY <2>1, JobTypes
  <2>3. Outcome(w)
    BY <1>6, Ends DEF Ended
  <2>4. seen' \in [Worker -> Profile \cup {NoUser}]
    <3> DEFINE u == users[job[w].reader][job[w].pin]
    <3>1. ASSUME job[w].pin \in Stored(job[w].reader)
          PROVE  [u EXCEPT !.print = NoPrint] \in Profile
      <4>1. u \in Profile
        BY <3>1, <2>2 DEF Stored, TypeOK, ReadersTypeOK
      <4>2. QED
        BY <4>1, Reprinted
    <3>2. QED
      BY <1>6, <3>1 DEF FindSource, TypeOK
  <2>5. LocalTypeOK'
    BY <1>6, <1>a, <2>4 DEF FindSource, KeepRequests, LocalTypeOK
  <2>6. StoreTypeOK' /\ LineTypeOK' /\ UNCHANGED conn
    BY <1>6, <1>a DEF FindSource, KeepReaders, StoreTypeOK, LineTypeOK, readerHistory
  <2>7. QED
    BY <2>1, <2>3, <2>5, <2>6, OutcomeKeepsTypes
<1>7. ASSUME NEW w \in Worker, ReadTemplates(w)
      PROVE  TypeOK'
  <2>1. job[w] # NoJob /\ Migrates(w) /\ seen[w] \in Profile
    BY <1>7, <1>b DEF ReadTemplates, Placed, Copied
  <2>2. job[w].reader \in Reader /\ job[w].pin \in Pin
    BY <2>1, JobTypes
  <2>3. seen' \in [Worker -> Profile \cup {NoUser}]
    <3> DEFINE u == users[job[w].reader][job[w].pin]
               q == IF u = NoUser THEN NoPrint ELSE u.print
    <3>1. q \in Person \cup {NoPrint}
      BY <2>2 DEF TypeOK, ReadersTypeOK, Profile
    <3> HIDE DEF q
    <3>2. [seen[w] EXCEPT !.print = q] \in Profile
      BY <2>1, <3>1, Reprinted
    <3>3. seen' = [seen EXCEPT ![w].print = q] \/ UNCHANGED seen
      BY <1>7 DEF ReadTemplates, q
    <3>4. QED
      BY <3>2, <3>3 DEF TypeOK
  <2>4. faults' \in 0..MaxFaults /\ failed' \subseteq Reader
    BY <1>7, <2>2, FaultTypes DEF ReadTemplates, TypeOK, mishaps
  <2>5. OutcomeTypeOK' /\ IdleUnconnected'
    BY <1>7, <1>a, <2>4 DEF ReadTemplates, OutcomeTypeOK, IdleUnconnected,
                            KeepReaders, Phase
  <2>6. LocalTypeOK'
    BY <1>7, <1>a, <2>3 DEF ReadTemplates, KeepRequests, LocalTypeOK
  <2>7. StoreTypeOK' /\ LineTypeOK'
    BY <1>7, <1>a DEF ReadTemplates, KeepReaders, StoreTypeOK, LineTypeOK, readerHistory
  <2>8. QED
    BY <2>5, <2>6, <2>7, TypePartsNext
<1>8. ASSUME NEW w \in Worker, FindTarget(w)
      PROVE  TypeOK'
  <2>1. job[w] # NoJob /\ Migrates(w)
    BY <1>8, <1>b DEF FindTarget, Placed, Copied
  <2>2. job[w].target \in Reader /\ job[w].to \in Pin
    BY <2>1, JobTypes
  <2>3. TargetPin(w) \in Pin
    BY <1>8, <2>2, PinForIsFree DEF FindTarget, TargetPin, TypeOK
  <2>4. Outcome(w)
    BY <1>8, Ends DEF Ended
  <2>5. dest' \in [Worker -> Pin \cup {0}]
    BY <1>8, <2>3 DEF FindTarget, TypeOK
  <2>6. LocalTypeOK'
    BY <1>8, <1>a, <2>5 DEF FindTarget, KeepRequests, LocalTypeOK
  <2>7. StoreTypeOK' /\ LineTypeOK' /\ UNCHANGED conn
    BY <1>8, <1>a DEF FindTarget, KeepReaders, StoreTypeOK, LineTypeOK, readerHistory
  <2>8. QED
    BY <2>1, <2>4, <2>6, <2>7, OutcomeKeepsTypes
<1>9. ASSUME NEW w \in Worker, CreateProfile(w)
      PROVE  TypeOK'
  <2>1. job[w] # NoJob /\ job[w].op = "create"
    BY <1>9, <1>b DEF CreateProfile
  <2>2. job[w].reader \in Reader /\ job[w].pin \in Pin /\ job[w].who \in Person
    BY <2>1, JobTypes
  <2> DEFINE new == [who |-> job[w].who, name |-> job[w].who, print |-> NoPrint]
  <2>3. new \in Profile
    BY <2>2 DEF Profile, Name
  <2>4. StoreTypeOK'
    <3>1. \/ Put(job[w].reader, job[w].pin, new, "session")
          \/ UNCHANGED <<users, held, replaced>>
      BY <1>9 DEF CreateProfile
    <3>2. UNCHANGED pushed
      BY <1>9 DEF CreateProfile
    <3> HIDE DEF new
    <3>3. CASE Put(job[w].reader, job[w].pin, new, "session")
      BY <1>a, <2>2, <2>3, <3>2, <3>3, PutTypes DEF TypeOK, StoreTypeOK
    <3>4. QED
      BY <1>a, <3>1, <3>2, <3>3 DEF StoreTypeOK
  <2>5. Outcome(w)
    BY <1>9, Ends DEF Ended
  <2>6. LocalTypeOK' /\ LineTypeOK' /\ UNCHANGED conn
    BY <1>9, <1>a DEF CreateProfile, KeepRequests, LocalTypeOK, LineTypeOK, locals
  <2>7. QED
    BY <2>1, <2>4, <2>5, <2>6, OutcomeKeepsTypes
<1>10. ASSUME NEW w \in Worker, DeleteUser(w)
       PROVE  TypeOK'
  <2>1. job[w] # NoJob /\ Deletion(w)
    BY <1>10, <1>b DEF DeleteUser, Placed
  <2>2. job[w].reader \in Reader
    BY <2>1, JobTypes
  <2>3. PICK p \in left[w] :
          LET next == IF left[w] = {p} THEN "verify" ELSE "delete"
              breaks == IF job[w].op = "delete" THEN Breaks(w, job[w].reader)
                        ELSE ItemFails(w, job[w].reader, next)
          IN  /\ left' = [left EXCEPT ![w] = @ \ {p}]
              /\ \/ /\ Drop(job[w].reader, {p})
                    /\ GoOn(w, next)
                    /\ wiped' = [wiped EXCEPT ![w] = @ \cup {p}]
                 \/ /\ Drop(job[w].reader, {p}) \/ UNCHANGED users
                    /\ breaks
                    /\ UNCHANGED wiped
    BY <1>10 DEF DeleteUser
  <2>4. p \in Pin
    BY DEF TypeOK
  <2>5. Outcome(w)
    BY <1>10, Ends DEF Ended
  <2>6. users' \in [Reader -> [Pin -> Profile \cup {NoUser}]]
    BY <2>2, <2>3, DropTypes DEF TypeOK, ReadersTypeOK
  <2>7. LocalTypeOK'
    BY <1>10, <1>a, <2>3, <2>4 DEF DeleteUser, KeepRequests, LocalTypeOK
  <2>8. StoreTypeOK' /\ LineTypeOK' /\ UNCHANGED conn
    BY <1>10, <1>a, <2>6 DEF DeleteUser, StoreTypeOK, LineTypeOK, readerHistory
  <2>9. QED
    BY <2>1, <2>5, <2>7, <2>8, OutcomeKeepsTypes
<1>11. ASSUME NEW w \in Worker, DeletePrints(w)
       PROVE  TypeOK'
  <2>1. job[w] # NoJob /\ Deletion(w)
    BY <1>11, <1>b DEF DeletePrints, Placed
  <2>2. job[w].reader \in Reader
    BY <2>1, JobTypes
  <2>3. PICK p \in left[w] :
          /\ left' = [left EXCEPT ![w] = @ \ {p}]
          /\ pc' = [pc EXCEPT ![w] = IF left[w] = {p} THEN "verify" ELSE "delete"]
          /\ \/ Unprint(job[w].reader, p) /\ UNCHANGED mishaps
             \/ Fault(job[w].reader) /\ UNCHANGED users
             \/ UNCHANGED <<users, mishaps>>
    BY <1>11 DEF DeletePrints
  <2>4. p \in Pin
    BY DEF TypeOK
  <2>5. users' \in [Reader -> [Pin -> Profile \cup {NoUser}]]
    BY <2>2, <2>3, <2>4, UnprintTypes DEF TypeOK, ReadersTypeOK
  <2>6. faults' \in 0..MaxFaults /\ failed' \subseteq Reader
    BY <2>2, <2>3, FaultTypes DEF TypeOK, mishaps
  <2>7. OutcomeTypeOK' /\ IdleUnconnected'
    BY <1>11, <1>a, <2>3, <2>6 DEF DeletePrints, OutcomeTypeOK, IdleUnconnected,
                                   Phase
  <2>8. LocalTypeOK'
    BY <1>11, <1>a, <2>3, <2>4 DEF DeletePrints, KeepRequests, LocalTypeOK
  <2>9. StoreTypeOK' /\ LineTypeOK'
    BY <1>11, <1>a, <2>5 DEF DeletePrints, StoreTypeOK, LineTypeOK, readerHistory
  <2>10. QED
    BY <2>7, <2>8, <2>9, TypePartsNext
<1>12. ASSUME NEW w \in Worker, NEW new \in Profile,
              NEW next \in Phase \ {"idle"}, WriteTarget(w, new, next),
              Migrates(w), job[w] # NoJob, dest[w] \in Pin
       PROVE  TypeOK'
  <2>1. job[w].target \in Reader
    BY <1>12, JobTypes
  <2>2. StoreTypeOK'
    <3>1. \/ Put(job[w].target, dest[w], new, "session")
          \/ UNCHANGED <<users, held, replaced>>
      BY <1>12 DEF WriteTarget
    <3>2. UNCHANGED pushed
      BY <1>12 DEF WriteTarget
    <3>3. CASE Put(job[w].target, dest[w], new, "session")
      BY <1>a, <1>12, <2>1, <3>2, <3>3, PutTypes DEF TypeOK, StoreTypeOK
    <3>4. QED
      BY <1>a, <3>1, <3>2, <3>3 DEF StoreTypeOK
  <2>3. Outcome(w)
    BY <1>12, <2>1 DEF WriteTarget, Outcome
  <2>4. LocalTypeOK' /\ LineTypeOK' /\ UNCHANGED conn
    BY <1>12, <1>a DEF WriteTarget, KeepRequests, LocalTypeOK, LineTypeOK, locals
  <2>5. QED
    BY <1>12, <2>2, <2>3, <2>4, OutcomeKeepsTypes
<1>13. ASSUME NEW w \in Worker, WriteProfile(w) \/ WriteTemplates(w)
       PROVE  TypeOK'
  <2>1. job[w] # NoJob /\ Migrates(w) /\ seen[w] \in Profile /\ dest[w] \in Pin
    BY <1>13, <1>b DEF WriteProfile, WriteTemplates, Placed, Copied, Chosen
  <2>2. UserName(w) \in Name
    BY <2>1, JobTypes, ShownNameType DEF UserName
  <2>3. [who |-> seen[w].who, name |-> UserName(w), print |-> NoPrint] \in Profile
    BY <2>1, <2>2 DEF Profile
  <2>4. [seen[w] EXCEPT !.name = UserName(w)] \in Profile
    BY <2>1, <2>2 DEF Profile
  <2>5. CASE WriteProfile(w)
    <3>1. (IF seen[w].print = NoPrint THEN "verify" ELSE "writePrints")
            \in Phase \ {"idle"}
      BY DEF Phase
    <3>2. QED
      BY <1>12, <2>1, <2>3, <2>5, <3>1 DEF WriteProfile
  <2>6. CASE WriteTemplates(w)
    <3>1. "verify" \in Phase \ {"idle"}
      BY DEF Phase
    <3>2. QED
      BY <1>12, <2>1, <2>4, <2>6, <3>1 DEF WriteTemplates
  <2>7. QED
    BY <1>13, <2>5, <2>6
<1>14. ASSUME NEW w \in Worker, RemoveSource(w)
       PROVE  TypeOK'
  <2>1. job[w] # NoJob
    BY <1>14, <1>b DEF RemoveSource
  <2>2. job[w].reader \in Reader
    BY <2>1, JobTypes
  <2>3. Outcome(w)
    BY <1>14, Ends DEF Ended
  <2>4. users' \in [Reader -> [Pin -> Profile \cup {NoUser}]]
    BY <1>14, <2>2, DropTypes DEF RemoveSource, TypeOK, ReadersTypeOK
  <2>5. LocalTypeOK' /\ StoreTypeOK' /\ LineTypeOK' /\ UNCHANGED conn
    BY <1>14, <1>a, <2>4 DEF RemoveSource, KeepRequests, LocalTypeOK,
         StoreTypeOK, LineTypeOK, locals, readerHistory
  <2>6. QED
    BY <2>1, <2>3, <2>5, OutcomeKeepsTypes
<1>15. ASSUME NEW r \in Reader, ReaderPolls(r)
       PROVE  TypeOK'
  <2>1. ReadersTypeOK'
    BY <1>15, PollTypes DEF ReaderPolls, TypeOK
  <2>2. StoreTypeOK' /\ commands' \in [Reader -> Seq(Command)]
    BY <2>1 DEF StoreTypeOK, ReadersTypeOK
  <2>5. OutcomeTypeOK' /\ IdleUnconnected'
    BY <1>15, <1>a, <2>2 DEF ReaderPolls, Poll, OutcomeTypeOK, IdleUnconnected,
                             mishaps
  <2>6. LocalTypeOK' /\ LineTypeOK'
    BY <1>15, <1>a DEF ReaderPolls, Poll, KeepRequests, LocalTypeOK, LineTypeOK,
                       locals
  <2>7. QED
    BY <2>2, <2>5, <2>6, TypePartsNext
<1>16. CASE Crash
  <2>1. commands' \in [Reader -> Seq(Command)]
    BY <1>16 DEF Crash
  <2>2. OutcomeTypeOK' /\ LineTypeOK'
    BY <1>16, <1>a, <2>1 DEF Crash, Forget, OutcomeTypeOK, LineTypeOK, Phase,
                             Answer
  <2>3. LocalTypeOK' /\ StoreTypeOK'
    BY <1>16, <1>a DEF Crash, Forget, LocalTypeOK, StoreTypeOK, readerHistory
  <2>4. IdleUnconnected'
    BY <1>16, ReadersAssumption DEF Crash, IdleUnconnected
  <2>5. QED
    BY <2>2, <2>3, <2>4, TypePartsNext
<1>17. CASE UNCHANGED vars
  BY <1>17, <1>a, TypePartsNext
  DEF vars, readerVars, readerHistory, locals, mishaps, OutcomeTypeOK,
      LocalTypeOK, StoreTypeOK, LineTypeOK, IdleUnconnected
<1>18. QED
  BY <1>1, <1>2, <1>3, <1>4, <1>5, <1>6, <1>7, <1>8, <1>9, <1>10, <1>11,
     <1>13, <1>14, <1>15, <1>16, <1>17 DEF Next, WorkerStep

-----------------------------------------------------------------------------
(* What the steps leave alone                                              *)

Writing(w) == CreateProfile(w) \/ WriteProfile(w) \/ WriteTemplates(w)
Erasing(w) == DeleteUser(w) \/ DeletePrints(w) \/ RemoveSource(w)
Connecting(w) == ConnectReader(w) \/ ConnectTarget(w)

(* What a step of a worker does not touch: what was asked for, what is     *)
(* stored unless it writes or erases, the connections unless it connects   *)
(* or releases.                                                            *)
LEMMA Frame ==
  ASSUME NEW w \in Worker, Start(w) \/ WorkerStep(w)
  PROVE  /\ asked \subseteq asked'
         /\ UNCHANGED pushed
         /\ ~Writing(w) => UNCHANGED <<held, replaced>>
         /\ ~Writing(w) /\ ~Erasing(w) => UNCHANGED users
         /\ ~Connecting(w) /\ ~Release(w) => UNCHANGED <<conn, disabled>>
<1>1. CASE Start(w)
  BY <1>1 DEF Start, readerVars, readerHistory
<1>2. CASE Release(w)
  BY <1>2 DEF Release, KeepRequests, readerHistory
<1>3. CASE Connecting(w)
  BY <1>3 DEF Connecting, ConnectReader, ConnectTarget, KeepRequests,
              readerHistory
<1>4. CASE FetchUsers(w) \/ CheckFree(w) \/ VerifyCreated(w)
  BY <1>4 DEF FetchUsers, CheckFree, VerifyCreated, KeepReaders, KeepRequests,
              readerHistory
<1>5. CASE FindUsers(w) \/ VerifyDeleted(w) \/ FindSource(w)
  BY <1>5 DEF FindUsers, VerifyDeleted, FindSource, KeepReaders, KeepRequests,
              readerHistory
<1>6. CASE ReadTemplates(w) \/ FindTarget(w) \/ VerifyTarget(w)
  BY <1>6 DEF ReadTemplates, FindTarget, VerifyTarget, KeepReaders,
              KeepRequests, readerHistory
<1>7. CASE Writing(w)
  BY <1>7 DEF Writing, CreateProfile, WriteProfile, WriteTemplates, WriteTarget,
              KeepRequests
<1>8. CASE Erasing(w)
  BY <1>8 DEF Erasing, DeleteUser, DeletePrints, RemoveSource, KeepRequests,
              readerHistory
<1>9. QED
  BY <1>1, <1>2, <1>3, <1>4, <1>5, <1>6, <1>7, <1>8
  DEF WorkerStep, Connecting, Writing, Erasing

(* What was requested, stored, replaced and pushed is never forgotten.     *)
LEMMA HistoriesGrow ==
  ASSUME [Next]_vars
  PROVE  /\ asked \subseteq asked' /\ held \subseteq held'
         /\ replaced \subseteq replaced' /\ pushed \subseteq pushed'
<1>1. asked \subseteq asked'
  BY Frame DEF Next, Crash, ReaderPolls, KeepRequests, vars
<1>2. pushed \subseteq pushed'
  <2>1. ASSUME NEW r \in Reader, ReaderPolls(r)
        PROVE  pushed \subseteq pushed'
    BY <2>1 DEF ReaderPolls, Poll, Execute, readerHistory
  <2>2. QED
    BY <2>1, Frame DEF Next, Crash, vars, readerHistory
<1>3. held \subseteq held' /\ replaced \subseteq replaced'
  <2>1. ASSUME NEW r, NEW p, NEW new, NEW by, Put(r, p, new, by)
        PROVE  held \subseteq held' /\ replaced \subseteq replaced'
    BY <2>1 DEF Put
  <2>2. ASSUME NEW w \in Worker, Writing(w)
        PROVE  held \subseteq held' /\ replaced \subseteq replaced'
    BY <2>1, <2>2 DEF Writing, CreateProfile, WriteProfile, WriteTemplates,
                      WriteTarget
  <2>3. ASSUME NEW r \in Reader, ReaderPolls(r)
        PROVE  held \subseteq held' /\ replaced \subseteq replaced'
    BY <2>1, <2>3 DEF ReaderPolls, Poll, Execute, readerHistory
  <2>4. CASE \/ \E w \in Worker :
                  /\ Start(w) \/ WorkerStep(w)
                  /\ ~Writing(w)
             \/ Crash \/ UNCHANGED vars
    BY <2>4, Frame DEF readerHistory, Crash, vars
  <2>5. QED
    BY <2>2, <2>3, <2>4 DEF Next
<1>4. QED
  BY <1>1, <1>2, <1>3

-----------------------------------------------------------------------------
(* Where the workers are                                                   *)

(* An outcome names the call its worker makes next.                        *)
LEMMA OutcomeGoesOn ==
  ASSUME TypeOK, NEW w \in Worker
  PROVE  /\ \A next : GoOn(w, next) => pc'[w] = next
         /\ \A a : Answers(w, a) => pc'[w] = "release"
         /\ Raise(w) => pc'[w] = "release"
         /\ \A r : Breaks(w, r) => pc'[w] = "release"
         /\ \A r, next : ItemFails(w, r, next) => pc'[w] = next
BY DEF TypeOK, GoOn, Answers, Raise, Breaks, ItemFails

(* A worker on its way out of the try block is in place.                   *)
LEMMA ReleasedIsPlaced ==
  ASSUME NEW w \in Worker, job[w] # NoJob, UNCHANGED job, pc'[w] = "release"
  PROVE  Placed(w)'
BY DEF Placed, Copied, AtTarget, Chosen, Unconnected

(* No step of one worker moves another.                                    *)
Apart(v) ==
  /\ pc'[v] = pc[v] /\ job'[v] = job[v] /\ answer'[v] = answer[v]
  /\ seen'[v] = seen[v] /\ dest'[v] = dest[v] /\ left'[v] = left[v]
  /\ \A r \in Reader : conn'[r] = v <=> conn[r] = v

(* A step of one worker leaves the variables and connections of the others *)
(* alone.                                                                  *)
LEMMA OthersApart ==
  ASSUME TypeOK, NEW w \in Worker, Placed(w), Start(w) \/ WorkerStep(w)
  PROVE  /\ \A v \in Worker \ {w} : Apart(v)
         /\ failed \subseteq failed'
<1>1. CASE Start(w)
  BY <1>1 DEF Start, Apart, TypeOK, readerVars, mishaps
<1>2. CASE Release(w)
  <2>1. failed \subseteq failed'
    BY <1>2 DEF Release, Fault, mishaps
  <2>2. ASSUME NEW v \in Worker \ {w}
        PROVE  Apart(v)
    <3>1. \A r \in Reader : conn'[r] = v <=> conn[r] = v
      BY <1>2, <2>2, ReadersAssumption DEF Release, TypeOK, ReadersTypeOK
    <3>2. QED
      BY <1>2, <2>2, <3>1 DEF Release, Forget, Apart, TypeOK
  <2>3. QED
    BY <2>1, <2>2
<1>3. CASE Ended(w)
  <2>1. /\ \A v \in Worker \ {w} : pc'[v] = pc[v] /\ answer'[v] = answer[v]
        /\ failed \subseteq failed'
    BY <1>3, Ends, OutcomeTypes
  <2>2. ASSUME NEW v \in Worker \ {w}
        PROVE  /\ job'[v] = job[v] /\ seen'[v] = seen[v]
               /\ dest'[v] = dest[v] /\ left'[v] = left[v]
    BY <1>3, <2>2 DEF Ended, TypeOK, locals, ConnectReader, ConnectTarget,
         FetchUsers, CheckFree, CreateProfile, VerifyCreated, FindUsers,
         DeleteUser, VerifyDeleted, FindSource, FindTarget, WriteProfile,
         WriteTemplates, WriteTarget, VerifyTarget, RemoveSource
  <2>3. ASSUME NEW v \in Worker \ {w}, NEW r \in Reader
        PROVE  conn'[r] = v <=> conn[r] = v
    <3>1. CASE ConnectReader(w) \/ ConnectTarget(w)
      <4>1. \E x : /\ x = job[w].reader \/ x = job[w].target
                   /\ \/ UNCHANGED conn
                      \/ conn[x] = Nobody /\ conn' = [conn EXCEPT ![x] = w]
        BY <3>1 DEF ConnectReader, ConnectTarget, Connect
      <4>2. QED
        BY <2>3, <4>1, ReadersAssumption DEF TypeOK, ReadersTypeOK
    <3>2. CASE ~ConnectReader(w) /\ ~ConnectTarget(w)
      BY <1>3, <3>2 DEF Ended, KeepReaders,
         FetchUsers, CheckFree, CreateProfile, VerifyCreated, FindUsers,
         DeleteUser, VerifyDeleted, FindSource, FindTarget, WriteProfile,
         WriteTemplates, WriteTarget, VerifyTarget, RemoveSource
    <3>3. QED
      BY <3>1, <3>2
  <2>4. QED
    BY <2>1, <2>2, <2>3 DEF Apart
<1>4. CASE ReadTemplates(w)
  BY <1>4 DEF ReadTemplates, KeepReaders, Fault, Apart, TypeOK, mishaps
<1>5. CASE DeletePrints(w)
  BY <1>5 DEF DeletePrints, Fault, Apart, TypeOK, mishaps
<1>6. QED
  BY <1>1, <1>2, <1>3, <1>4, <1>5 DEF WorkerStep, Ended

(* A worker left alone stays in place.                                     *)
LEMMA ApartIsPlaced ==
  ASSUME TypeOK, NEW v \in Worker, Apart(v), failed \subseteq failed'
  PROVE  /\ Placed(v) => Placed(v)'
         /\ Fetching(v) => Fetching(v)'
<1>1. ASSUME Placed(v)
      PROVE  Placed(v)'
  <2>1. pc[v] \notin Unconnected => job[v].reader \in Reader
    BY <1>1, JobTypes DEF Placed, Unconnected
  <2>2. Migrates(v) => job[v].target \in Reader
    BY JobTypes, NoJobDoesNothing
  <2>3. Migrates(v)' <=> Migrates(v)
    BY DEF Apart, Migrates
  <2>4. Deletion(v)' <=> Deletion(v)
    BY DEF Apart, Deletion
  <2>5. QED
    BY <1>1, <2>1, <2>2, <2>3, <2>4 DEF Apart, Placed
<1>2. Fetching(v) => Fetching(v)'
  BY DEF Apart, Fetching
<1>3. QED
  BY <1>1, <1>2

(* A new request begins without a connection.                              *)
LEMMA StartIsPlaced ==
  ASSUME TypeOK, NEW w \in Worker, Start(w)
  PROVE  Placed(w)' /\ Fetching(w)'
<1>1. job'[w] \in Jobs /\ pc'[w] = "connect" /\ UNCHANGED conn
  BY DEF Start, TypeOK, readerVars
<1>2. job'[w] # NoJob
  BY <1>1, MigrationAssumption DEF Job, NoJob
<1>3. \A r \in Reader : conn[r] # w
  BY DEF Start, TypeOK
<1>4. Placed(w)'
  BY <1>1, <1>2, <1>3 DEF Placed, Copied, AtTarget, Chosen, Unconnected
<1>5. Fetching(w)'
  BY <1>1, <1>3 DEF Fetching
<1>6. QED
  BY <1>4, <1>5

(* A finished request leaves nothing behind.                               *)
LEMMA ReleaseIsPlaced ==
  ASSUME TypeOK, NEW w \in Worker, Release(w)
  PROVE  Placed(w)' /\ Fetching(w)'
<1>1. job'[w] = NoJob /\ pc'[w] = "idle"
  BY DEF Release, Forget
<1>2. QED
  BY <1>1 DEF Placed, Fetching, NoJob, Migrates, Deletion, Copied, AtTarget,
              Chosen, Unconnected

(* A step that goes on keeps the worker's place.                           *)
LEMMA StepIsPlaced ==
  ASSUME TypeOK, NEW w \in Worker, Placed(w), WorkerStep(w), ~Release(w)
  PROVE  Placed(w)' /\ UNCHANGED job
<1>1. job[w] # NoJob
  <2>1. Ended(w) \/ ReadTemplates(w) \/ DeletePrints(w)
    BY DEF WorkerStep, Ended
  <2>2. QED
    BY <2>1, Ends DEF ReadTemplates, DeletePrints, Placed
<1>2. UNCHANGED job
  BY DEF WorkerStep, locals, ConnectReader, ConnectTarget,
     FetchUsers, CheckFree, CreateProfile, VerifyCreated, FindUsers,
     DeleteUser, DeletePrints, VerifyDeleted, FindSource, ReadTemplates,
     FindTarget, WriteProfile, WriteTemplates, WriteTarget, VerifyTarget,
     RemoveSource
<1>3. job[w].reader \in Reader
  BY <1>1, JobTypes
<1>4. SUFFICES ASSUME pc'[w] # "release"
      PROVE  Placed(w)'
  BY <1>1, <1>2, ReleasedIsPlaced
<1> USE DEF Copied, AtTarget, Chosen, Unconnected
<1>5. CASE ConnectReader(w)
  <2>1. pc'[w] = "read" /\ conn'[job[w].reader] = w
    BY <1>3, <1>4, <1>5, OutcomeGoesOn
    DEF ConnectReader, Connect, TypeOK, ReadersTypeOK
  <2>2. QED
    BY <1>1, <1>2, <2>1 DEF Placed
<1>6. CASE FetchUsers(w) \/ VerifyCreated(w) \/ VerifyDeleted(w) \/ RemoveSource(w)
  BY <1>4, <1>6, OutcomeGoesOn
  DEF FetchUsers, VerifyCreated, VerifyDeleted, RemoveSource
<1>7. CASE CheckFree(w) \/ CreateProfile(w)
  <2>1. pc'[w] \in {"write", "verify"} /\ job[w].op = "create" /\ UNCHANGED conn
    BY <1>4, <1>7, OutcomeGoesOn DEF CheckFree, CreateProfile, KeepReaders
  <2>2. QED
    BY <1>1, <1>2, <1>7, <2>1 DEF Placed, Migrates, CheckFree, CreateProfile
<1>8. CASE FindUsers(w)
  <2>1. pc'[w] \in {"verify", "delete"} /\ Deletion(w) /\ UNCHANGED conn
    BY <1>4, <1>8, OutcomeGoesOn DEF FindUsers, KeepReaders, Deletion
  <2>2. QED
    BY <1>1, <1>2, <1>8, <2>1 DEF Placed, Migrates, Deletion, FindUsers
<1>9. CASE DeleteUser(w) \/ DeletePrints(w)
  <2>1. pc'[w] \in {"verify", "delete"} /\ UNCHANGED conn /\ pc[w] = "delete"
    <3>1. CASE DeleteUser(w)
      BY <1>4, <3>1, OutcomeGoesOn DEF DeleteUser
    <3>2. CASE DeletePrints(w)
      BY <3>2 DEF DeletePrints, TypeOK
    <3>3. QED
      BY <1>9, <3>1, <3>2
  <2>2. Deletion(w)
    BY <2>1 DEF Placed
  <2>3. QED
    BY <1>1, <1>2, <2>1, <2>2 DEF Placed, Migrates, Deletion
<1>10. CASE FindSource(w)
  <2>1. pc'[w] = "templates" /\ Migrates(w) /\ UNCHANGED conn
    BY <1>4, <1>10, OutcomeGoesOn DEF FindSource, KeepReaders
  <2>2. seen'[w] \in Profile
    <3> DEFINE u == users[job[w].reader][job[w].pin]
    <3>1. /\ u # NoUser /\ seen' = [seen EXCEPT ![w] = [u EXCEPT !.print = NoPrint]]
          /\ job[w].pin \in Pin
      BY <1>4, <1>10, OutcomeGoesOn DEF FindSource, Stored
    <3>2. u \in Profile
      BY <1>3, <3>1 DEF TypeOK, ReadersTypeOK
    <3> HIDE DEF u
    <3>3. [u EXCEPT !.print = NoPrint] \in Profile
      BY <3>2, Reprinted
    <3>4. QED
      BY <3>1, <3>3 DEF TypeOK
  <2>3. QED
    BY <1>1, <1>2, <1>10, <2>1, <2>2 DEF Placed, Migrates, Deletion, FindSource
<1>11. CASE ReadTemplates(w)
  <2>1. /\ pc[w] = "templates" /\ Migrates(w) /\ seen[w] \in Profile
        /\ pc'[w] = "connectTarget" /\ UNCHANGED conn
    BY <1>11 DEF ReadTemplates, Placed, TypeOK, KeepReaders
  <2>2. seen'[w] \in Profile
    <3>1. job[w].pin \in Pin
      BY <1>1, <2>1, JobTypes
    <3> DEFINE u == users[job[w].reader][job[w].pin]
               q == IF u = NoUser THEN NoPrint ELSE u.print
    <3>2. q \in Person \cup {NoPrint}
      BY <1>3, <3>1 DEF TypeOK, ReadersTypeOK, Profile
    <3> HIDE DEF q
    <3>3. [seen[w] EXCEPT !.print = q] \in Profile
      BY <2>1, <3>2, Reprinted
    <3>4. seen' = [seen EXCEPT ![w].print = q] \/ UNCHANGED seen
      BY <1>11 DEF ReadTemplates, q
    <3>5. QED
      BY <2>1, <3>3, <3>4 DEF TypeOK
  <2>3. QED
    BY <1>1, <1>2, <2>1, <2>2 DEF Placed, Migrates, Deletion
<1>12. CASE ConnectTarget(w)
  <2>1. /\ pc[w] = "connectTarget" /\ Migrates(w) /\ seen[w] \in Profile
        /\ conn[job[w].reader] = w
    BY <1>12 DEF ConnectTarget, Placed
  <2>2. job[w].target \in Reader
    BY <1>1, <2>1, JobTypes
  <2>3. pc'[w] = "readTarget" /\ conn[job[w].target] = Nobody
        /\ conn' = [conn EXCEPT ![job[w].target] = w]
    BY <1>4, <1>12, OutcomeGoesOn DEF ConnectTarget, Connect
  <2>4. conn'[job[w].target] = w /\ job[w].target # job[w].reader
        /\ conn'[job[w].reader] = w
    BY <1>3, <2>1, <2>2, <2>3, ReadersAssumption DEF TypeOK, ReadersTypeOK
  <2>5. seen'[w] = seen[w]
    BY <1>12 DEF ConnectTarget, locals
  <2>6. QED
    BY <1>1, <1>2, <2>1, <2>3, <2>4, <2>5 DEF Placed, Migrates, Deletion
<1>13. CASE FindTarget(w)
  <2>1. pc[w] = "readTarget" /\ Migrates(w)
    BY <1>13 DEF FindTarget, Placed
  <2>2. job[w].target \in Reader /\ job[w].to \in Pin
    BY <1>1, <2>1, JobTypes
  <2>3. TargetPin(w) \in Pin
    BY <1>13, <2>2, PinForIsFree DEF FindTarget, TargetPin, TypeOK
  <2>4. /\ pc'[w] = "write" /\ UNCHANGED <<conn, seen>>
        /\ dest' = [dest EXCEPT ![w] = TargetPin(w)]
    BY <1>4, <1>13, OutcomeGoesOn DEF FindTarget, KeepReaders
  <2>5. dest'[w] \in Pin
    BY <2>3, <2>4 DEF TypeOK
  <2>6. QED
    BY <1>1, <1>2, <2>1, <2>4, <2>5 DEF Placed, Migrates, Deletion
<1>14. CASE WriteProfile(w) \/ WriteTemplates(w) \/ VerifyTarget(w)
  <2>1. /\ pc[w] \in {"write", "writePrints", "verify"} /\ Migrates(w)
        /\ UNCHANGED <<conn, seen, dest>>
    BY <1>14 DEF WriteProfile, WriteTemplates, WriteTarget, VerifyTarget, Placed,
                 locals, KeepReaders
  <2>2. pc'[w] \in {"writePrints", "verify", "remove"}
    BY <1>4, <1>14, OutcomeGoesOn
    DEF WriteProfile, WriteTemplates, WriteTarget, VerifyTarget
  <2>3. QED
    BY <1>1, <1>2, <2>1, <2>2 DEF Placed, Migrates, Deletion
<1>15. QED
  BY <1>5, <1>6, <1>7, <1>8, <1>9, <1>10, <1>11, <1>12, <1>13, <1>14
  DEF WorkerStep

(* fetch_device_users connects to one reader and remembers a failed call.  *)
LEMMA StepIsFetching ==
  ASSUME TypeOK, NEW w \in Worker, Placed(w), Fetching(w), WorkerStep(w),
         ~Release(w)
  PROVE  Fetching(w)'
<1>1. UNCHANGED job
  BY StepIsPlaced
<1>2. SUFFICES ASSUME job[w].op = "fetch"
      PROVE  Fetching(w)'
  BY <1>1 DEF Fetching
<1>3. ConnectReader(w) \/ FetchUsers(w)
  BY <1>2 DEF WorkerStep, Placed, Migrates, Deletion, Copied, CheckFree,
     CreateProfile, VerifyCreated, FindUsers, DeleteUser, DeletePrints,
     VerifyDeleted, FindSource, ReadTemplates, ConnectTarget, FindTarget,
     WriteProfile, WriteTemplates, VerifyTarget, RemoveSource
<1>4. job[w] # NoJob /\ job[w].reader \in Reader
  <2>1. job[w] # NoJob
    BY <1>2 DEF NoJob
  <2>2. QED
    BY <2>1, JobTypes
<1> DEFINE failing == pc'[w] = "release" /\ answer'[w] = "failed"
                      /\ \E r \in Reader : conn'[r] = w
<1>5. failing => job[w].reader \in failed'
  <2>1. ASSUME Breaks(w, job[w].reader)
        PROVE  job[w].reader \in failed'
    BY <2>1 DEF Breaks, Fault
  <2>2. CASE ConnectReader(w)
    <3>1. \/ Breaks(w, job[w].reader)
          \/ GoOn(w, "read")
          \/ UNCHANGED conn
      BY <2>2 DEF ConnectReader, Connect
    <3>2. \A r \in Reader : conn[r] # w
      BY <2>2 DEF ConnectReader, Placed
    <3>3. QED
      BY <2>1, <3>1, <3>2, OutcomeGoesOn
  <2>3. CASE FetchUsers(w)
    <3>1. Answers(w, "ok") => answer'[w] = "ok"
      BY DEF Answers, TypeOK
    <3>2. QED
      BY <2>1, <2>3, <3>1 DEF FetchUsers
  <2>4. QED
    BY <1>3, <2>2, <2>3
<1>6. \A r \in Reader : conn'[r] = w => r = job[w].reader
  <2>1. CASE ConnectReader(w)
    <3>1. \A r \in Reader : conn[r] # w
      BY <2>1 DEF ConnectReader, Placed
    <3>2. \/ UNCHANGED conn
          \/ conn' = [conn EXCEPT ![job[w].reader] = w]
      BY <2>1 DEF ConnectReader, Connect
    <3>3. QED
      BY <3>1, <3>2 DEF TypeOK, ReadersTypeOK
  <2>2. CASE FetchUsers(w)
    BY <1>2, <2>2 DEF FetchUsers, KeepReaders, Fetching
  <2>3. QED
    BY <1>3, <2>1, <2>2
<1>7. QED
  BY <1>1, <1>5, <1>6 DEF Fetching

(* Every worker stays where the reading of the code puts it.               *)
LEMMA WorkingStep ==
  TypeOK /\ (\A w \in Worker : Working(w)) /\ [Next]_vars
    => \A w \in Worker : Working(w)'
<1> SUFFICES ASSUME TypeOK, \A w \in Worker : Working(w), [Next]_vars
             PROVE  \A w \in Worker : Working(w)'
  OBVIOUS
<1>1. ASSUME NEW w \in Worker, Start(w) \/ WorkerStep(w)
      PROVE  \A v \in Worker : Working(v)'
  <2>1. Placed(w) /\ Fetching(w)
    BY DEF Working
  <2>2. Placed(w)' /\ Fetching(w)'
    BY <1>1, <2>1, StartIsPlaced, ReleaseIsPlaced, StepIsPlaced, StepIsFetching
  <2>3. ASSUME NEW v \in Worker \ {w}
        PROVE  Placed(v)' /\ Fetching(v)'
    <3>1. Apart(v) /\ failed \subseteq failed'
      BY <1>1, <2>1, OthersApart
    <3>2. QED
      BY <3>1, ApartIsPlaced DEF Working
  <2>4. QED
    BY <2>2, <2>3 DEF Working
<1>2. CASE (\E r \in Reader : ReaderPolls(r)) \/ UNCHANGED vars
  <2>1. (\A v \in Worker : Apart(v)) /\ UNCHANGED failed
    BY <1>2 DEF ReaderPolls, Poll, Apart, locals, mishaps, vars, readerVars
  <2>2. QED
    BY <2>1, ApartIsPlaced DEF Working
<1>3. CASE Crash
  <2>1. ASSUME NEW v \in Worker
        PROVE  job'[v] = NoJob /\ pc'[v] = "idle"
    BY <1>3 DEF Crash, Forget
  <2>2. QED
    BY <2>1 DEF Working, Placed, Fetching, NoJob, Migrates, Deletion, Copied,
                AtTarget, Chosen, Unconnected
<1>4. QED
  BY <1>1, <1>2, <1>3 DEF Next

(* A reader is let go of either enabled or after a failed call to it.      *)
LEMMA UsableStep ==
  TypeOK /\ (\A w \in Worker : Working(w)) /\ ReaderLeftUsable /\ [Next]_vars
    => ReaderLeftUsable'
<1> SUFFICES ASSUME TypeOK, \A w \in Worker : Working(w), ReaderLeftUsable,
                    [Next]_vars, NEW r \in disabled', conn'[r] = Nobody
             PROVE  r \in failed'
  BY DEF ReaderLeftUsable
<1>1. failed \subseteq failed'
  <2>1. ASSUME NEW w \in Worker, Start(w) \/ WorkerStep(w)
        PROVE  failed \subseteq failed'
    BY <2>1, OthersApart DEF Working
  <2>2. QED
    BY <2>1 DEF Next, ReaderPolls, Crash, vars, mishaps
<1>2. CASE UNCHANGED <<conn, disabled>>
  BY <1>1, <1>2 DEF ReaderLeftUsable
<1>3. ASSUME NEW w \in Worker, Release(w)
      PROVE  r \in failed'
  <2> DEFINE mine == {x \in Reader : conn[x] = w}
             keepsLocked == job[w].op = "fetch" /\ answer[w] = "failed"
  <2>1. CASE r \notin mine
    <3>1. r \in disabled
      BY <1>3 DEF Release
    <3>2. r \in Reader
      BY <3>1 DEF TypeOK, ReadersTypeOK
    <3>3. conn'[r] = conn[r]
      BY <1>3, <2>1, <3>2 DEF Release
    <3>4. QED
      BY <1>1, <3>1, <3>3 DEF ReaderLeftUsable
  <2>2. CASE r \in mine /\ keepsLocked
    BY <1>1, <1>3, <2>2 DEF Working, Fetching, Release
  <2>3. CASE r \in mine /\ ~keepsLocked
    <3>1. \E x \in mine : Fault(x) /\ disabled' = disabled \ (mine \ {x})
      BY <1>3, <2>3 DEF Release
    <3>2. QED
      BY <2>3, <3>1 DEF Fault
  <2>4. QED
    BY <2>1, <2>2, <2>3
<1>4. ASSUME NEW w \in Worker, Connecting(w)
      PROVE  r \in failed'
  <2>1. PICK x \in Reader : \/ UNCHANGED <<conn, disabled>>
                            \/ /\ conn' = [conn EXCEPT ![x] = w]
                               /\ disabled' = disabled \cup {x}
    <3>1. job[w] # NoJob /\ (pc[w] = "connectTarget" => Migrates(w))
      BY <1>4 DEF Connecting, ConnectReader, ConnectTarget, Working, Placed,
                  Copied
    <3>2. job[w].reader \in Reader
      BY <3>1, JobTypes
    <3>3. pc[w] = "connectTarget" => job[w].target \in Reader
      BY <3>1, JobTypes
    <3>4. QED
      BY <1>4, <3>2, <3>3 DEF Connecting, ConnectReader, ConnectTarget, Connect
  <2>2. CASE conn' = [conn EXCEPT ![x] = w] /\ disabled' = disabled \cup {x}
    <3>1. conn'[x] = w /\ w # Nobody
      BY <2>2, ReadersAssumption DEF TypeOK, ReadersTypeOK
    <3>2. r # x
      BY <3>1
    <3>3. r \in disabled /\ conn'[r] = conn[r]
      BY <2>2, <3>2 DEF TypeOK, ReadersTypeOK
    <3>4. QED
      BY <1>1, <3>3 DEF ReaderLeftUsable
  <2>3. QED
    BY <1>2, <2>1, <2>2
<1>5. CASE Crash
  <2>1. r \in disabled /\ r \in Reader
    BY <1>5 DEF Crash, TypeOK, ReadersTypeOK
  <2>2. QED
    BY <1>5, <2>1 DEF Crash, ReaderLeftUsable
<1>6. CASE \/ \E w \in Worker :
                /\ Start(w) \/ WorkerStep(w)
                /\ ~Release(w) /\ ~Connecting(w)
           \/ \E x \in Reader : ReaderPolls(x)
           \/ UNCHANGED vars
  <2>1. UNCHANGED <<conn, disabled>>
    BY <1>6, Frame DEF ReaderPolls, Poll, vars, readerVars
  <2>2. QED
    BY <1>2, <2>1
<1>7. QED
  BY <1>3, <1>4, <1>5, <1>6 DEF Next

(* The first state has the types, and every worker rests.                  *)
LEMMA InitWorks ==
  Init => TypeOK /\ (\A w \in Worker : Working(w)) /\ ReaderLeftUsable
<1> SUFFICES ASSUME Init
             PROVE  TypeOK /\ (\A w \in Worker : Working(w)) /\ ReaderLeftUsable
  OBVIOUS
<1>1. OutcomeTypeOK
  BY MigrationAssumption DEF Init, ReadersInit, OutcomeTypeOK, Phase, Answer
<1>2. LocalTypeOK
  <2>1. started \in 0..MaxJobs
    BY MigrationAssumption DEF Init
  <2>2. left \in [Worker -> SUBSET Pin] /\ wiped \in [Worker -> SUBSET Pin]
    BY DEF Init
  <2>3. QED
    BY <2>1, <2>2 DEF Init, LocalTypeOK
<1>8. LineTypeOK
  BY DEF Init, ReadersInit, LineTypeOK
<1>3. StoreTypeOK
  <2>1. held \subseteq Person \X Reader \X Pin
    <3>1. ASSUME NEW s \in Reader \X Pin, Enrolled[s[1]][s[2]] # NoUser
          PROVE  <<Enrolled[s[1]][s[2]].who, s[1], s[2]>> \in Person \X Reader \X Pin
      BY <3>1, ReadersAssumption DEF Profile
    <3>2. QED
      BY <3>1 DEF Init, ReadersInit
  <2>2. QED
    BY <2>1, ReadersAssumption DEF Init, ReadersInit, StoreTypeOK
<1>4. IdleUnconnected
  BY ReadersAssumption DEF Init, ReadersInit, IdleUnconnected
<1>5. \A w \in Worker : Working(w)
  BY DEF Init, Working, Placed, Fetching, NoJob, Migrates, Deletion, Copied,
         AtTarget, Chosen, Unconnected
<1>6. ReaderLeftUsable
  BY DEF Init, ReadersInit, ReaderLeftUsable
<1>7. QED
  BY <1>1, <1>2, <1>3, <1>4, <1>5, <1>6, <1>8, TypeParts

-----------------------------------------------------------------------------
(* What is written over                                                    *)

(* A worker changes what is stored on the readers it is connected to.      *)
LEMMA OwnReaders ==
  ASSUME TypeOK, NEW w \in Worker, Placed(w), Start(w) \/ WorkerStep(w)
  PROVE  /\ UNCHANGED pushed
         /\ \A r \in Reader : conn[r] # w => users'[r] = users[r]
<1>1. UNCHANGED pushed
  BY Frame
<1>2. CASE UNCHANGED users
  BY <1>1, <1>2
<1>3. CASE CreateProfile(w) \/ DeleteUser(w) \/ DeletePrints(w) \/ RemoveSource(w)
  <2>1. /\ users' = [users EXCEPT ![job[w].reader] = users'[job[w].reader]]
        /\ conn[job[w].reader] = w
    <3>1. conn[job[w].reader] = w /\ job[w] # NoJob
      BY <1>3 DEF CreateProfile, DeleteUser, DeletePrints, RemoveSource, Placed,
                  Unconnected
    <3>2. job[w].reader \in Reader
      BY <3>1, JobTypes
    <3>3. \/ UNCHANGED users
          \/ \E x : users' = [users EXCEPT ![job[w].reader] = x]
      BY <1>3 DEF CreateProfile, DeleteUser, DeletePrints, RemoveSource, Put,
                  Drop, Unprint
    <3>4. QED
      BY <3>1, <3>2, <3>3 DEF TypeOK, ReadersTypeOK
  <2>2. QED
    BY <1>1, <2>1 DEF TypeOK, ReadersTypeOK
<1>4. CASE WriteProfile(w) \/ WriteTemplates(w)
  <2>1. conn[job[w].target] = w /\ job[w] # NoJob /\ Migrates(w)
    BY <1>4 DEF WriteProfile, WriteTemplates, Placed, Copied, AtTarget
  <2>2. job[w].target \in Reader
    BY <2>1, JobTypes
  <2>3. \/ UNCHANGED users
        \/ \E x : users' = [users EXCEPT ![job[w].target] = x]
    BY <1>4 DEF WriteProfile, WriteTemplates, WriteTarget, Put
  <2>4. QED
    BY <1>1, <2>1, <2>2, <2>3 DEF TypeOK, ReadersTypeOK
<1>5. QED
  BY <1>2, <1>3, <1>4, Frame DEF Writing, Erasing

(* What a poll can do to the place under a PIN.                            *)
LEMMA PollStores ==
  ASSUME TypeOK, NEW r \in Reader, ReaderPolls(r), NEW q \in Reader, NEW p \in Pin
  PROVE  /\ \/ users'[q][p] = users[q][p]
            \/ q = r /\ users'[q][p] = NoUser
            \/ /\ q = r /\ users[q][p] # NoUser /\ users'[q][p] # NoUser
               /\ users'[q][p].who = users[q][p].who
               /\ users'[q][p].name = users[q][p].name
            \/ q \in pushed'
         /\ pushed \subseteq pushed'
<1> DEFINE c == Head(commands[r])
           old == users[q][p]
<1>1. commands[r] \in Seq(Command) /\ commands[r] # <<>>
  BY DEF ReaderPolls, Poll, TypeOK, ReadersTypeOK
<1>2. c \in Command
  BY <1>1
<1>3. Execute(r, c) \/ UNCHANGED <<users, pushed>>
  BY DEF ReaderPolls, Poll, readerHistory
<1> HIDE DEF c
<1>4. c.pin \in Pin
  BY <1>2 DEF Command
<1>5. CASE Drop(r, {c.pin}) /\ UNCHANGED pushed
  BY <1>4, <1>5 DEF Drop, TypeOK, ReadersTypeOK
<1>6. CASE Unprint(r, c.pin) /\ UNCHANGED pushed
  <2>1. CASE q = r /\ p = c.pin /\ old # NoUser
    <3>1. old \in Profile
      BY <2>1 DEF TypeOK, ReadersTypeOK
    <3>2. users'[q][p] = [old EXCEPT !.print = NoPrint]
      BY <1>6, <2>1 DEF Unprint, TypeOK, ReadersTypeOK
    <3> HIDE DEF old
    <3>3. users'[q][p] # NoUser /\ users'[q][p].who = old.who
          /\ users'[q][p].name = old.name
      BY <3>1, <3>2, Reprinted
    <3>4. QED
      BY <1>6, <2>1, <3>3 DEF old
  <2>2. CASE ~(q = r /\ p = c.pin /\ old # NoUser)
    BY <1>4, <1>6, <2>2 DEF Unprint, TypeOK, ReadersTypeOK
  <2>3. QED
    BY <2>1, <2>2
<1>7. CASE c.kind = "create" /\ Execute(r, c)
  <2>1. pushed' = pushed \cup {r}
        /\ \E x : users' = [users EXCEPT ![r] = x]
    BY <1>7 DEF Execute, Put
  <2>2. QED
    BY <2>1 DEF TypeOK, ReadersTypeOK
<1>8. QED
  BY <1>3, <1>5, <1>6, <1>7 DEF Execute, readerHistory

(* The name under which a profile is written does not change on the way.   *)
LEMMA NameKept ==
  ASSUME NEW w \in Worker, job'[w] = job[w],
         seen'[w] = seen[w]
  PROVE  UserName(w)' = UserName(w)
BY DEF UserName, ShownName

(* A write that was clear stays clear while others step: nobody else has   *)
(* the reader's connection, and what a poll changes is a deletion or a     *)
(* push.                                                                   *)
LEMMA ApartIsClear ==
  ASSUME TypeOK, NEW v \in Worker, Placed(v), Clear(v), Apart(v),
         pushed \subseteq pushed',
         \A r \in Reader, p \in Pin :
           conn[r] = v =>
             \/ users'[r][p] = users[r][p]
             \/ users'[r][p] = NoUser
             \/ users[r][p] # NoUser /\ users'[r][p].name = users[r][p].name
             \/ r \in pushed'
  PROVE  Clear(v)'
<1>1. ASSUME NEW r \in Reader, NEW p \in Pin, NEW name, conn[r] = v,
             Free(r, p, name)
      PROVE  Free(r, p, name)'
  BY <1>1 DEF Free
<1>2. CASE job[v].op = "create" /\ pc[v] = "write"
  <2>1. conn[job[v].reader] = v /\ job[v] # NoJob
    BY <1>2 DEF Placed, Unconnected
  <2>2. job[v].reader \in Reader /\ job[v].pin \in Pin
    BY <1>2, <2>1, JobTypes
  <2>3. Free(job[v].reader, job[v].pin, NoName)
    BY <1>2 DEF Clear
  <2>4. Free(job[v].reader, job[v].pin, NoName)'
    BY <1>1, <2>1, <2>2, <2>3 DEF Apart, Free
  <2>5. QED
    BY <1>2, <2>4 DEF Apart, Clear, Migrates
<1>3. CASE Migrates(v) /\ pc[v] \in {"write", "writePrints"}
  <2>1. conn[job[v].target] = v /\ job[v] # NoJob /\ dest[v] \in Pin
    BY <1>3 DEF Placed, Copied, AtTarget, Chosen
  <2>2. job[v].target \in Reader
    BY <1>3, <2>1, JobTypes
  <2>3. Free(job[v].target, dest[v], UserName(v))
    BY <1>3 DEF Clear
  <2>4. UserName(v)' = UserName(v)
    BY NameKept DEF Apart
  <2>5. Free(job[v].target, dest[v], UserName(v))'
    BY <1>1, <2>1, <2>2, <2>3, <2>4 DEF Apart, Free
  <2>6. QED
    BY <1>3, <2>5 DEF Apart, Clear, Migrates
<1>4. CASE /\ ~(job[v].op = "create" /\ pc[v] = "write")
           /\ ~(Migrates(v) /\ pc[v] \in {"write", "writePrints"})
  BY <1>4 DEF Apart, Clear, Migrates
<1>5. QED
  BY <1>2, <1>3, <1>4

(* The checks a request makes before it writes.                            *)
LEMMA OwnIsClear ==
  ASSUME TypeOK, NEW w \in Worker, Placed(w), Clear(w),
         Start(w) \/ WorkerStep(w)
  PROVE  Clear(w)'
<1>1. CASE Start(w) \/ Release(w)
  <2>1. pc'[w] \in {"connect", "idle"}
    BY <1>1 DEF Start, Release, Forget, TypeOK
  <2>2. QED
    BY <2>1 DEF Clear
<1>2. SUFFICES ASSUME WorkerStep(w), ~Release(w),
                      pc'[w] \in {"write", "writePrints"}
               PROVE  Clear(w)'
  BY <1>1 DEF Clear
<1>3. CheckFree(w) \/ FindTarget(w) \/ WriteProfile(w)
  BY <1>2, OutcomeGoesOn
  DEF WorkerStep, ConnectReader, ConnectTarget, Connect, FetchUsers,
      CreateProfile, VerifyCreated, FindUsers, DeleteUser, DeletePrints,
      VerifyDeleted, FindSource, ReadTemplates, WriteTemplates, WriteTarget,
      VerifyTarget, RemoveSource, TypeOK
<1>4. job[w] # NoJob /\ UNCHANGED job /\ pc[w] # "idle"
  BY <1>2, <1>3, StepIsPlaced DEF Placed, CheckFree, FindTarget, WriteProfile
<1>5. CASE CheckFree(w)
  <2>1. /\ job[w].op = "create" /\ pc'[w] = "write"
        /\ job[w].pin \notin Stored(job[w].reader) /\ UNCHANGED <<users, pushed>>
    BY <1>2, <1>5, OutcomeGoesOn DEF CheckFree, KeepReaders, readerHistory
  <2>2. job[w].pin \in Pin
    BY <1>4, <2>1, JobTypes
  <2>3. Free(job[w].reader, job[w].pin, NoName)'
    BY <1>4, <2>1, <2>2 DEF Free, Stored
  <2>4. QED
    BY <1>4, <2>1, <2>3 DEF Clear, Migrates
<1>6. CASE FindTarget(w)
  <2>1. Migrates(w) /\ HasRoom(job[w].target)
    BY <1>6 DEF FindTarget, Placed, Copied
  <2>2. job[w].target \in Reader /\ job[w].to \in Pin
    BY <1>4, <2>1, JobTypes
  <2>3. TargetPin(w) \in Pin /\ Free(job[w].target, TargetPin(w), UserName(w))
    BY <2>1, <2>2, PinForIsFree DEF TargetPin, TypeOK
  <2>4. /\ dest'[w] = TargetPin(w) /\ UNCHANGED <<users, pushed, seen>>
    BY <1>2, <1>6, OutcomeGoesOn DEF FindTarget, KeepReaders, readerHistory, TypeOK
  <2>5. UserName(w)' = UserName(w)
    BY <1>4, <2>4, NameKept
  <2>6. Free(job[w].target, dest[w], UserName(w))'
    BY <1>4, <2>3, <2>4, <2>5 DEF Free
  <2>7. QED
    BY <1>4, <2>1, <2>6 DEF Clear, Migrates
<1>7. CASE WriteProfile(w)
  <2>1. /\ Migrates(w) /\ seen[w] \in Profile /\ dest[w] \in Pin
        /\ UNCHANGED <<pushed, seen, dest>>
    BY <1>7 DEF WriteProfile, WriteTarget, Placed, Copied, Chosen, locals
  <2>2. job[w].target \in Reader /\ job[w].pin \in Pin
    BY <1>4, <2>1, JobTypes
  <2> DEFINE new == [who |-> seen[w].who, name |-> UserName(w), print |-> NoPrint]
  <2>3. Put(job[w].target, dest[w], new, "session")
    BY <1>2, <1>7, OutcomeGoesOn DEF WriteProfile, WriteTarget
  <2>4. new \in Profile
    <3>1. UserName(w) \in Name
      BY <2>1, <2>2, ShownNameType DEF UserName
    <3>2. QED
      BY <2>1, <3>1 DEF Profile
  <2>5. users'[job[w].target][dest[w]].name = UserName(w)
    <3>1. new.name = UserName(w)
      OBVIOUS
    <3> HIDE DEF new
    <3>2. QED
      BY <2>1, <2>2, <2>3, <2>4, <3>1, PutStores DEF TypeOK
  <2>6. UserName(w)' = UserName(w)
    BY <1>4, <2>1, NameKept
  <2>7. Free(job[w].target, dest[w], UserName(w))'
    BY <1>4, <2>1, <2>5, <2>6 DEF Free
  <2>8. QED
    BY <1>4, <2>1, <2>7 DEF Clear, Migrates
<1>8. QED
  BY <1>3, <1>5, <1>6, <1>7

(* Every step keeps the checked PINs clear.                                *)
LEMMA ClearStep ==
  TypeOK /\ (\A w \in Worker : Placed(w) /\ Clear(w)) /\ [Next]_vars
    => \A w \in Worker : Clear(w)'
<1> SUFFICES ASSUME TypeOK, \A w \in Worker : Placed(w) /\ Clear(w), [Next]_vars
             PROVE  \A w \in Worker : Clear(w)'
  OBVIOUS
<1>1. ASSUME NEW w \in Worker, Start(w) \/ WorkerStep(w),
             NEW v \in Worker
      PROVE  Clear(v)'
  <2>1. CASE v = w
    BY <1>1, <2>1, OwnIsClear
  <2>2. CASE v # w
    <3>1. Apart(v) /\ UNCHANGED pushed
      BY <1>1, <2>2, OthersApart, OwnReaders
    <3>2. \A r \in Reader : conn[r] = v => users'[r] = users[r]
      BY <1>1, <2>2, OwnReaders
    <3>3. QED
      BY <3>1, <3>2, ApartIsClear
  <2>3. QED
    BY <2>1, <2>2
<1>2. ASSUME NEW r \in Reader, ReaderPolls(r), NEW v \in Worker
      PROVE  Clear(v)'
  <2>1. Apart(v)
    BY <1>2 DEF ReaderPolls, Poll, Apart, locals
  <2>2. pushed \subseteq pushed'
    BY <1>2 DEF ReaderPolls, Poll, Execute, readerHistory
  <2>3. \A q \in Reader, p \in Pin :
          \/ users'[q][p] = users[q][p]
          \/ users'[q][p] = NoUser
          \/ users[q][p] # NoUser /\ users'[q][p].name = users[q][p].name
          \/ q \in pushed'
    BY <1>2, PollStores
  <2>4. QED
    BY <2>1, <2>2, <2>3, ApartIsClear
<1>3. CASE Crash
  BY <1>3 DEF Crash, Forget, Clear
<1>4. ASSUME UNCHANGED vars, NEW v \in Worker
      PROVE  Clear(v)'
  BY <1>4, ApartIsClear DEF vars, Apart, locals, readerVars, readerHistory
<1>5. QED
  BY <1>1, <1>2, <1>3, <1>4 DEF Next

(* What a request writes has the name of what it writes over, unless a     *)
(* queued creation came between.                                           *)
LEMMA NamedStep ==
  TypeOK /\ (\A w \in Worker : Placed(w) /\ Clear(w))
    /\ NamedReplacementNeedsPush /\ [Next]_vars
    => NamedReplacementNeedsPush'
<1> SUFFICES ASSUME TypeOK, \A w \in Worker : Placed(w) /\ Clear(w),
                    NamedReplacementNeedsPush, [Next]_vars,
                    NEW c \in replaced', c.by = "session", c.clash
             PROVE  c.reader \in pushed'
  BY DEF NamedReplacementNeedsPush
<1>1. pushed \subseteq pushed'
  BY HistoriesGrow
<1>2. CASE c \in replaced
  BY <1>1, <1>2 DEF NamedReplacementNeedsPush
<1>3. ASSUME NEW r \in Reader, NEW p \in Pin, NEW new, NEW by,
             Put(r, p, new, by), c \notin replaced
      PROVE  /\ c.reader = r /\ c.by = by
             /\ users[r][p] # NoUser /\ users[r][p].name \in Person
             /\ users[r][p].name # new.name
  <2> DEFINE old == users[r][p]
             clash == old.name \in Person /\ old.name # new.name
             d == [who |-> old.who, reader |-> r, pin |-> p, by |-> by,
                   clash |-> clash]
  <2>1. old # NoUser /\ c = d
    BY <1>3 DEF Put
  <2>2. d.reader = r /\ d.by = by
    OBVIOUS
  <2>3. d.clash = clash
    OBVIOUS
  <2>4. c.clash
    OBVIOUS
  <2>5. clash
    <3> HIDE DEF clash
    <3>1. c.clash = clash
      BY <2>1, <2>3
    <3> HIDE DEF d
    <3>2. QED
      BY <2>4, <3>1
  <2>6. QED
    BY <2>1, <2>2, <2>5
<1>4. ASSUME NEW r \in Reader, ReaderPolls(r), c \notin replaced
      PROVE  FALSE
  <2>1. PICK x : /\ Put(r, x.pin, [who |-> x.who, name |-> x.who,
                                   print |-> NoPrint], "command")
                 /\ x = Head(commands[r])
    BY <1>4 DEF ReaderPolls, Poll, Execute, readerHistory
  <2>2. x.pin \in Pin
    <3>1. x \in Command
      BY <1>4, <2>1 DEF ReaderPolls, Poll, TypeOK, ReadersTypeOK
    <3>2. QED
      BY <3>1 DEF Command
  <2>3. c.by = "command"
    BY <1>3, <1>4, <2>1, <2>2
  <2>4. QED
    BY <2>3
<1>5. ASSUME NEW w \in Worker, CreateProfile(w), c \notin replaced
      PROVE  c.reader \in pushed'
  <2> DEFINE new == [who |-> job[w].who, name |-> job[w].who, print |-> NoPrint]
  <2>1. Put(job[w].reader, job[w].pin, new, "session")
    BY <1>5 DEF CreateProfile
  <2>2. job[w].op = "create" /\ pc[w] = "write" /\ job[w] # NoJob
    BY <1>5 DEF CreateProfile, Placed
  <2>3. job[w].reader \in Reader /\ job[w].pin \in Pin
    BY <2>2, JobTypes
  <2>4. /\ c.reader = job[w].reader
        /\ users[job[w].reader][job[w].pin] # NoUser
        /\ users[job[w].reader][job[w].pin].name \in Person
    <3> HIDE DEF new
    <3>1. QED
      BY <1>3, <1>5, <2>1, <2>3
  <2>5. Free(job[w].reader, job[w].pin, NoName)
    BY <2>2 DEF Clear
  <2>6. QED
    BY <1>1, <2>4, <2>5, ReadersAssumption DEF Free
<1>6. ASSUME NEW w \in Worker, WriteProfile(w) \/ WriteTemplates(w),
             c \notin replaced
      PROVE  c.reader \in pushed'
  <2>1. /\ Migrates(w) /\ job[w] # NoJob /\ seen[w] \in Profile /\ dest[w] \in Pin
        /\ pc[w] \in {"write", "writePrints"}
    BY <1>6 DEF WriteProfile, WriteTemplates, Placed, Copied, Chosen
  <2>2. job[w].target \in Reader
    BY <2>1, JobTypes
  <2>3. PICK new : Put(job[w].target, dest[w], new, "session")
                   /\ new.name = UserName(w)
    <3>1. CASE WriteProfile(w)
      <4> DEFINE new == [who |-> seen[w].who, name |-> UserName(w),
                         print |-> NoPrint]
      <4>1. Put(job[w].target, dest[w], new, "session")
        BY <1>6, <3>1 DEF WriteProfile, WriteTarget, Put
      <4>2. new.name = UserName(w)
        OBVIOUS
      <4> HIDE DEF new
      <4>3. QED
        BY <4>1, <4>2
    <3>2. CASE WriteTemplates(w)
      <4> DEFINE new == [seen[w] EXCEPT !.name = UserName(w)]
      <4>1. Put(job[w].target, dest[w], new, "session")
        BY <1>6, <3>2 DEF WriteTemplates, WriteTarget
      <4>2. new.name = UserName(w)
        BY <2>1 DEF Profile
      <4> HIDE DEF new
      <4>3. QED
        BY <4>1, <4>2
    <3>3. QED
      BY <1>6, <3>1, <3>2
  <2>4. /\ c.reader = job[w].target
        /\ users[job[w].target][dest[w]] # NoUser
        /\ users[job[w].target][dest[w]].name \in Person
        /\ users[job[w].target][dest[w]].name # UserName(w)
    BY <1>3, <1>6, <2>1, <2>2, <2>3
  <2>5. Free(job[w].target, dest[w], UserName(w))
    BY <2>1 DEF Clear
  <2>6. QED
    BY <1>1, <2>4, <2>5, ReadersAssumption DEF Free
<1>7. CASE \/ \E w \in Worker :
                /\ Start(w) \/ WorkerStep(w)
                /\ ~Writing(w)
           \/ Crash \/ UNCHANGED vars
  <2>1. UNCHANGED replaced
    BY <1>7, Frame DEF readerHistory, Crash, vars
  <2>2. QED
    BY <1>2, <2>1
<1>8. QED
  BY <1>2, <1>4, <1>5, <1>6, <1>7 DEF Next, Writing

-----------------------------------------------------------------------------
(* What is deleted                                                         *)

(* What a step does to the profiles stored.                                *)
Puts == \E r \in Reader, p \in Pin, new \in Profile, by \in {"session", "command"} :
          Put(r, p, new, by)
Unprints == \E r \in Reader, p \in Pin : Unprint(r, p) /\ UNCHANGED <<held, replaced>>
Drops(r, p) == Drop(r, {p}) /\ UNCHANGED <<held, replaced>>
Removes(r, p) ==
  \E w \in Worker : RemoveSource(w) /\ r = job[w].reader /\ p = job[w].pin
DropsOrdered == \E r \in Reader, p \in Pin :
                  Drops(r, p) /\ (<<r, p>> \in asked \/ Removes(r, p))

(* A step writes a profile, wipes templates, deletes what was asked for or *)
(* the source of a move, or stores nothing.                                *)
LEMMA StoreSteps ==
  ASSUME TypeOK, \A w \in Worker : Placed(w) /\ Ordered(w), QueueOrdered,
         [Next]_vars
  PROVE  UNCHANGED <<users, held, replaced>> \/ Puts \/ Unprints \/ DropsOrdered
<1>1. ASSUME NEW w \in Worker, CreateProfile(w)
      PROVE  UNCHANGED <<users, held, replaced>> \/ Puts
  <2> DEFINE new == [who |-> job[w].who, name |-> job[w].who, print |-> NoPrint]
  <2>1. job[w].op = "create" /\ job[w] # NoJob
    BY <1>1 DEF CreateProfile, Placed
  <2>2. job[w].reader \in Reader /\ job[w].pin \in Pin /\ job[w].who \in Person
    BY <2>1, JobTypes
  <2>3. new \in Profile
    BY <2>2 DEF Profile, Name
  <2>4. \/ UNCHANGED <<users, held, replaced>>
        \/ Put(job[w].reader, job[w].pin, new, "session")
    BY <1>1 DEF CreateProfile
  <2> HIDE DEF new
  <2>5. QED
    BY <2>2, <2>3, <2>4 DEF Puts
<1>2. ASSUME NEW w \in Worker, WriteProfile(w) \/ WriteTemplates(w)
      PROVE  UNCHANGED <<users, held, replaced>> \/ Puts
  <2>1. /\ Migrates(w) /\ job[w] # NoJob /\ seen[w] \in Profile /\ dest[w] \in Pin
    BY <1>2 DEF WriteProfile, WriteTemplates, Placed, Copied, Chosen
  <2>2. job[w].target \in Reader /\ job[w].pin \in Pin
    BY <2>1, JobTypes
  <2>3. UserName(w) \in Name
    BY <2>1, <2>2, ShownNameType DEF UserName
  <2>4. /\ [who |-> seen[w].who, name |-> UserName(w), print |-> NoPrint] \in Profile
        /\ [seen[w] EXCEPT !.name = UserName(w)] \in Profile
    BY <2>1, <2>3 DEF Profile
  <2>5. \/ UNCHANGED <<users, held, replaced>>
        \/ Put(job[w].target, dest[w],
               [who |-> seen[w].who, name |-> UserName(w), print |-> NoPrint],
               "session")
        \/ Put(job[w].target, dest[w], [seen[w] EXCEPT !.name = UserName(w)],
               "session")
    BY <1>2 DEF WriteProfile, WriteTemplates, WriteTarget
  <2>6. QED
    BY <2>1, <2>2, <2>4, <2>5 DEF Puts
<1>3. ASSUME NEW w \in Worker, DeleteUser(w)
      PROVE  UNCHANGED <<users, held, replaced>> \/ DropsOrdered
  <2>1. Deletion(w) /\ job[w] # NoJob /\ ~job[w].printsOnly /\ pc[w] = "delete"
    BY <1>3 DEF DeleteUser, Placed
  <2>2. job[w].reader \in Reader /\ job[w].pins \subseteq Pin
    BY <2>1, JobTypes
  <2>3. \A p \in left[w] : p \in Pin /\ <<job[w].reader, p>> \in asked
    BY <2>1, <2>2 DEF Ordered
  <2>4. UNCHANGED <<held, replaced>>
    BY <1>3 DEF DeleteUser, readerHistory
  <2>5. \/ UNCHANGED users
        \/ \E p \in left[w] : Drop(job[w].reader, {p})
    BY <1>3 DEF DeleteUser
  <2>6. QED
    BY <2>2, <2>3, <2>4, <2>5 DEF DropsOrdered, Drops
<1>4. ASSUME NEW w \in Worker, DeletePrints(w)
      PROVE  UNCHANGED <<users, held, replaced>> \/ Unprints
  <2>1. Deletion(w) /\ job[w] # NoJob
    BY <1>4 DEF DeletePrints, Placed
  <2>2. job[w].reader \in Reader
    BY <2>1, JobTypes
  <2>3. /\ UNCHANGED <<held, replaced>>
        /\ UNCHANGED users \/ \E p \in left[w] : Unprint(job[w].reader, p)
    BY <1>4 DEF DeletePrints, readerHistory
  <2>4. left[w] \subseteq Pin
    BY DEF TypeOK
  <2>5. QED
    BY <2>2, <2>3, <2>4 DEF Unprints
<1>5. ASSUME NEW w \in Worker, RemoveSource(w)
      PROVE  UNCHANGED <<users, held, replaced>> \/ DropsOrdered
  <2>1. Migrates(w) /\ job[w] # NoJob
    BY <1>5 DEF RemoveSource, Placed, Copied
  <2>2. job[w].reader \in Reader /\ job[w].pin \in Pin
    BY <2>1, JobTypes
  <2>3. /\ UNCHANGED <<held, replaced>>
        /\ UNCHANGED users \/ Drop(job[w].reader, {job[w].pin})
    BY <1>5 DEF RemoveSource, readerHistory
  <2>4. QED
    BY <1>5, <2>2, <2>3 DEF DropsOrdered, Drops, Removes
<1>6. ASSUME NEW r \in Reader, ReaderPolls(r)
      PROVE  UNCHANGED <<users, held, replaced>> \/ Puts \/ Unprints \/ DropsOrdered
  <2> DEFINE c == Head(commands[r])
  <2>1. commands[r] \in Seq(Command) /\ commands[r] # <<>>
    BY <1>6 DEF ReaderPolls, Poll, TypeOK, ReadersTypeOK
  <2>2. c \in Command /\ 1 \in DOMAIN commands[r] /\ c = commands[r][1]
    BY <2>1
  <2>3. Execute(r, c) \/ UNCHANGED <<users, held, replaced>>
    BY <1>6 DEF ReaderPolls, Poll, readerHistory
  <2>4. c.kind = "wipe" => <<r, c.pin>> \in asked
    BY <2>2 DEF QueueOrdered
  <2> HIDE DEF c
  <2>5. c.pin \in Pin
    BY <2>2 DEF Command
  <2>6. CASE c.kind \in {"wipe", "unprint"} /\ Execute(r, c)
    <3>1. /\ UNCHANGED <<held, replaced>>
          /\ \/ c.kind = "wipe" /\ Drop(r, {c.pin})
             \/ Unprint(r, c.pin)
      BY <2>6 DEF Execute, readerHistory
    <3>2. QED
      BY <2>4, <2>5, <3>1 DEF Unprints, DropsOrdered, Drops
  <2>7. CASE c.kind = "create" /\ Execute(r, c)
    <3> DEFINE new == [who |-> c.who, name |-> c.who, print |-> NoPrint]
    <3>1. new \in Profile
      BY <2>2, <2>7 DEF Command, Profile, Name
    <3>2. Put(r, c.pin, new, "command")
      BY <2>7 DEF Execute
    <3> HIDE DEF new
    <3>3. QED
      BY <2>5, <3>1, <3>2 DEF Puts
  <2>8. QED
    BY <2>3, <2>6, <2>7 DEF Execute
<1>7. CASE \/ \E w \in Worker :
                /\ Start(w) \/ WorkerStep(w)
                /\ ~Writing(w) /\ ~Erasing(w)
           \/ Crash \/ UNCHANGED vars
  <2>1. UNCHANGED <<users, held, replaced>>
    BY <1>7, Frame DEF readerHistory, readerVars, Crash, vars
  <2>2. QED
    BY <2>1
<1>8. QED
  BY <1>1, <1>2, <1>3, <1>4, <1>5, <1>6, <1>7 DEF Next, Writing, Erasing

(* A request deletes what was asked for, and so does its fallback.         *)
LEMMA OrderedStep ==
  ASSUME TypeOK, \A w \in Worker : Placed(w) /\ Ordered(w), [Next]_vars
  PROVE  \A w \in Worker : Ordered(w)'
<1>1. asked \subseteq asked'
  BY HistoriesGrow
<1>2. ASSUME NEW v \in Worker, job'[v] = job[v],
             pc'[v] = "delete" => \/ pc[v] = "delete" /\ left'[v] \subseteq left[v]
                                  \/ left'[v] \subseteq job[v].pins
      PROVE  Ordered(v)'
  BY <1>1, <1>2 DEF Ordered, Deletion
<1>3. ASSUME NEW w \in Worker, Start(w)
      PROVE  Ordered(w)'
  <2>1. PICK j \in Jobs : /\ job' = [job EXCEPT ![w] = j]
                          /\ asked' = IF j.op \in {"delete", "batch"} /\ ~j.printsOnly
                                        THEN asked \cup ({j.reader} \X j.pins)
                                        ELSE asked
    BY <1>3 DEF Start
  <2>2. job'[w] = j /\ pc'[w] = "connect"
    BY <1>3, <2>1 DEF Start, TypeOK
  <2>3. QED
    BY <2>1, <2>2 DEF Ordered, Deletion
<1>4. ASSUME NEW w \in Worker, Release(w)
      PROVE  Ordered(w)'
  BY <1>4 DEF Release, Forget, Ordered, Deletion, NoJob
<1>5. ASSUME NEW w \in Worker, WorkerStep(w), ~Release(w)
      PROVE  Ordered(w)'
  <2>1. UNCHANGED job
    BY <1>5, StepIsPlaced
  <2>2. CASE FindUsers(w)
    BY <1>2, <2>1, <2>2 DEF FindUsers, TypeOK
  <2>3. CASE DeleteUser(w) \/ DeletePrints(w)
    <3>1. pc[w] = "delete" /\ \E p \in left[w] : left' = [left EXCEPT ![w] = @ \ {p}]
      BY <2>3 DEF DeleteUser, DeletePrints
    <3>2. QED
      BY <1>2, <2>1, <3>1 DEF TypeOK
  <2>4. CASE ~FindUsers(w) /\ ~DeleteUser(w) /\ ~DeletePrints(w)
    <3>1. pc'[w] # "delete"
      BY <1>5, <2>4, OutcomeGoesOn
      DEF WorkerStep, ConnectReader, ConnectTarget, Connect, FetchUsers,
          CheckFree, CreateProfile, VerifyCreated, VerifyDeleted, FindSource,
          ReadTemplates, FindTarget, WriteProfile, WriteTemplates, WriteTarget,
          VerifyTarget, RemoveSource, TypeOK
    <3>2. QED
      BY <1>2, <2>1, <3>1
  <2>5. QED
    BY <2>2, <2>3, <2>4
<1>6. ASSUME NEW w \in Worker, Start(w) \/ WorkerStep(w), NEW v \in Worker
      PROVE  Ordered(v)'
  <2>1. CASE v # w
    BY <1>2, <1>6, <2>1, OthersApart DEF Apart
  <2>2. QED
    BY <1>3, <1>4, <1>5, <1>6, <2>1
<1>7. CASE (\E r \in Reader : ReaderPolls(r)) \/ UNCHANGED vars
  BY <1>2, <1>7 DEF ReaderPolls, vars, locals
<1>8. CASE Crash
  BY <1>8 DEF Crash, Forget, Ordered, Deletion, NoJob
<1>9. QED
  BY <1>6, <1>7, <1>8 DEF Next

(* The wipes an except block queues are of the PIN whose deletion was      *)
(* requested.                                                              *)
LEMMA FallbackOrdered ==
  ASSUME TypeOK, NEW w \in Worker, job[w] # NoJob, Ordered(w),
         NEW i \in DOMAIN Fallback(job[w]), Fallback(job[w])[i].kind = "wipe"
  PROVE  <<job[w].reader, Fallback(job[w])[i].pin>> \in asked
<1> DEFINE j == job[w]
           cmd(k) == [kind |-> k, pin |-> CHOOSE p \in j.pins : TRUE]
<1>1. CASE j.op = "create"
  BY <1>1 DEF Fallback
<1>2. CASE j.op = "delete"
  <2>1. j.pins # {} /\ j.pins \subseteq Pin
    BY <1>2, JobTypes DEF Deletion
  <2>2. (CHOOSE p \in j.pins : TRUE) \in j.pins
    BY <2>1
  <2>3. cmd("wipe").pin \in j.pins /\ cmd("unprint").kind = "unprint"
    BY <2>2
  <2>4. Fallback(j) = IF j.printsOnly THEN <<cmd("unprint"), cmd("unprint")>>
                      ELSE <<cmd("wipe"), cmd("wipe"), cmd("unprint"), cmd("unprint")>>
    BY <1>2 DEF Fallback
  <2> HIDE DEF cmd
  <2>5. ~j.printsOnly /\ Fallback(j)[i] \in {cmd("wipe"), cmd("unprint")}
    BY <2>3, <2>4
  <2>6. Fallback(j)[i] = cmd("wipe")
    BY <2>3, <2>5
  <2>7. {j.reader} \X j.pins \subseteq asked
    BY <1>2, <2>5 DEF Ordered, Deletion
  <2>8. QED
    BY <2>3, <2>6, <2>7
<1>3. CASE j.op \notin {"create", "delete"}
  <2>1. Fallback(j) = <<>>
    BY <1>3 DEF Fallback
  <2>2. QED
    BY <2>1
<1>4. QED
  BY <1>1, <1>2, <1>3

(* The wipes in the queue were asked for.                                  *)
LEMMA QueueOrderedStep ==
  ASSUME TypeOK, \A w \in Worker : Placed(w) /\ Ordered(w), QueueOrdered,
         [Next]_vars
  PROVE  QueueOrdered'
<1>1. asked \subseteq asked'
  BY HistoriesGrow
<1>2. CASE UNCHANGED commands
  BY <1>1, <1>2 DEF QueueOrdered
<1>3. ASSUME NEW w \in Worker, Raise(w), job[w] # NoJob
      PROVE  QueueOrdered'
  <2>1. SUFFICES ASSUME NEW r \in Reader, NEW i \in DOMAIN commands'[r],
                        commands'[r][i].kind = "wipe"
                 PROVE  <<r, commands'[r][i].pin>> \in asked
    BY <1>1 DEF QueueOrdered
  <2>2. CASE r # job[w].reader
    <3>1. commands'[r] = commands[r]
      BY <1>3, <2>2 DEF Raise, TypeOK, ReadersTypeOK
    <3>2. QED
      BY <2>1, <3>1 DEF QueueOrdered
  <2>3. CASE r = job[w].reader
    <3> DEFINE s == commands[r]
               t == Fallback(job[w])
    <3>1. s \in Seq(Command) /\ t \in Seq(Command) /\ commands'[r] = s \o t
      BY <1>3, <2>3, FallbackType DEF Raise, TypeOK, ReadersTypeOK
    <3>2. CASE i \in 1..Len(s)
      <4>1. i \in DOMAIN commands[r] /\ commands'[r][i] = commands[r][i]
        BY <3>1, <3>2
      <4>2. QED
        BY <2>1, <4>1 DEF QueueOrdered
    <3>3. CASE i \notin 1..Len(s)
      <4>1. i - Len(s) \in DOMAIN t /\ commands'[r][i] = t[i - Len(s)]
        <5> HIDE DEF s, t
        <5>1. i \in DOMAIN (s \o t)
          BY <3>1
        <5>2. QED
          BY <3>1, <3>3, <5>1
      <4>2. QED
        BY <1>3, <2>1, <2>3, <4>1, FallbackOrdered
    <3>4. QED
      BY <3>2, <3>3
  <2>4. QED
    BY <2>2, <2>3
<1>4. ASSUME NEW w \in Worker, Ended(w)
      PROVE  UNCHANGED commands \/ (Raise(w) /\ job[w] # NoJob)
  <2>1. job[w] # NoJob /\ Outcome(w)
    BY <1>4, Ends
  <2>2. QED
    BY <2>1 DEF Outcome, GoOn, Answers, Breaks, ItemFails
<1>5. ASSUME NEW w \in Worker, Start(w) \/ WorkerStep(w), ~Ended(w)
      PROVE  UNCHANGED commands
  BY <1>5 DEF WorkerStep, Ended, Start, Release, ReadTemplates, DeletePrints,
              readerVars
<1>6. ASSUME NEW r \in Reader, ReaderPolls(r)
      PROVE  QueueOrdered'
  <2>1. commands[r] \in Seq(Command) /\ commands[r] # <<>>
        /\ commands' = [commands EXCEPT ![r] = Tail(commands[r])]
    BY <1>6 DEF ReaderPolls, Poll, TypeOK, ReadersTypeOK
  <2>2. ASSUME NEW q \in Reader, NEW i \in DOMAIN commands'[q]
        PROVE  \E k \in DOMAIN commands[q] : commands'[q][i] = commands[q][k]
    <3>1. CASE q # r
      BY <2>1, <3>1 DEF TypeOK, ReadersTypeOK
    <3>2. CASE q = r
      <4>1. commands'[q] = Tail(commands[q])
        BY <2>1, <3>2 DEF TypeOK, ReadersTypeOK
      <4> DEFINE s == commands[q]
      <4>2. s \in Seq(Command) /\ s # <<>> /\ i \in DOMAIN Tail(s)
        BY <2>1, <2>2, <3>2, <4>1
      <4>3. i + 1 \in DOMAIN s /\ Tail(s)[i] = s[i + 1]
        <5> HIDE DEF s
        <5>1. QED
          BY <4>2
      <4>4. QED
        BY <4>1, <4>3
    <3>3. QED
      BY <3>1, <3>2
  <2>3. QED
    BY <1>1, <2>2 DEF QueueOrdered
<1>7. CASE Crash
  BY <1>7 DEF Crash, QueueOrdered
<1>8. QED
  BY <1>2, <1>3, <1>4, <1>5, <1>6, <1>7
  DEF Next, vars, readerVars

-----------------------------------------------------------------------------
(* Whom a step may leave without a profile                                 *)

(* Whoever is excused stays excused.                                       *)
LEMMA ExcusedGrows ==
  ASSUME TypeOK, \A w \in Worker : Placed(w), [Next]_vars, NEW a, Excused(a)
  PROVE  Excused(a)'
<1>1. /\ asked \subseteq asked' /\ held \subseteq held'
      /\ replaced \subseteq replaced' /\ pushed \subseteq pushed'
  BY HistoriesGrow
<1>2. QED
  BY <1>1 DEF Excused

(* Wiping templates takes no profile from anybody.                         *)
LEMMA UnprintKeeps ==
  ASSUME TypeOK, NEW r \in Reader, NEW p \in Pin, Unprint(r, p),
         NEW q \in Reader, NEW k \in Pin
  PROVE  /\ users'[q][k] = NoUser <=> users[q][k] = NoUser
         /\ users[q][k] # NoUser => users'[q][k].who = users[q][k].who
<1> DEFINE old == users[q][k]
<1>1. CASE q = r /\ k = p /\ old # NoUser
  <2>1. old \in Profile
    BY <1>1 DEF TypeOK, ReadersTypeOK
  <2>2. users'[q][k] = [old EXCEPT !.print = NoPrint]
    BY <1>1 DEF Unprint, TypeOK, ReadersTypeOK
  <2> HIDE DEF old
  <2>3. users'[q][k] # NoUser /\ users'[q][k].who = old.who
    BY <2>1, <2>2, Reprinted
  <2>4. QED
    BY <1>1, <2>3 DEF old
<1>2. CASE ~(q = r /\ k = p /\ old # NoUser)
  BY <1>2 DEF Unprint, TypeOK, ReadersTypeOK
<1>3. QED
  BY <1>1, <1>2

(* A deletion empties one place.                                           *)
LEMMA DropKeeps ==
  ASSUME TypeOK, NEW r \in Reader, NEW p \in Pin, Drop(r, {p}),
         NEW q \in Reader, NEW k \in Pin
  PROVE  users'[q][k] = IF <<q, k>> = <<r, p>> THEN NoUser ELSE users[q][k]
BY DEF Drop, TypeOK, ReadersTypeOK

(* Every profile stored is recorded in the history.                        *)
LEMMA RecordedStep ==
  ASSUME TypeOK, \A w \in Worker : Placed(w) /\ Ordered(w), QueueOrdered,
         Recorded, [Next]_vars
  PROVE  Recorded'
<1>1. held \subseteq held'
  BY HistoriesGrow
<1>2. CASE Puts
  <2>1. PICK r \in Reader, p \in Pin, new \in Profile,
             by \in {"session", "command"} : Put(r, p, new, by)
    BY <1>2 DEF Puts
  <2>2. /\ users'[r][p].who = new.who
        /\ \A q \in Reader, k \in Pin : <<q, k>> # <<r, p>> =>
             users'[q][k] = users[q][k]
    BY <2>1, PutStores DEF TypeOK
  <2>3. <<new.who, r, p>> \in held'
    BY <2>1 DEF Put
  <2>4. QED
    BY <1>1, <2>2, <2>3 DEF Recorded
<1>3. CASE Unprints
  BY <1>1, <1>3, UnprintKeeps DEF Unprints, Recorded
<1>4. CASE DropsOrdered
  BY <1>1, <1>4, DropKeeps DEF DropsOrdered, Drops, Recorded
<1>5. CASE UNCHANGED <<users, held, replaced>>
  BY <1>5 DEF Recorded
<1>6. QED
  BY <1>2, <1>3, <1>4, <1>5, StoreSteps

(* Whoever is stored under a PIN stays there, or is excused, or was the    *)
(* source a move deleted.                                                  *)
LEMMA Fate ==
  ASSUME TypeOK, \A w \in Worker : Placed(w) /\ Ordered(w), QueueOrdered,
         Recorded, [Next]_vars,
         NEW q \in Reader, NEW k \in Pin, NEW a, Is(q, k, a)
  PROVE  Is(q, k, a)' \/ Excused(a)' \/ Removes(q, k)
<1>1. CASE Puts
  <2>1. PICK r \in Reader, p \in Pin, new \in Profile,
             by \in {"session", "command"} : Put(r, p, new, by)
    BY <1>1 DEF Puts
  <2>2. /\ users'[r][p] # NoUser /\ users'[r][p].who = new.who
        /\ \A x \in Reader, y \in Pin : <<x, y>> # <<r, p>> =>
             users'[x][y] = users[x][y]
    BY <2>1, PutStores DEF TypeOK
  <2>3. CASE <<q, k>> = <<r, p>> /\ new.who # a
    <3> DEFINE old == users[r][p]
               c == [who |-> old.who, reader |-> r, pin |-> p, by |-> by,
                     clash |-> old.name \in Person /\ old.name # new.name]
    <3>1. old # NoUser /\ old.who = a
      BY <2>3 DEF Is
    <3>2. c \in replaced'
      BY <2>1, <2>3, <3>1 DEF Put
    <3>3. c.who = a
      BY <3>1
    <3> HIDE DEF c
    <3>4. QED
      BY <3>2, <3>3 DEF Excused
  <2>4. CASE <<q, k>> # <<r, p>> \/ new.who = a
    BY <2>2, <2>4 DEF Is
  <2>5. QED
    BY <2>3, <2>4
<1>2. CASE Unprints
  BY <1>2, UnprintKeeps DEF Unprints, Is
<1>3. CASE DropsOrdered
  <2>1. PICK r \in Reader, p \in Pin :
               Drops(r, p) /\ (<<r, p>> \in asked \/ Removes(r, p))
    BY <1>3 DEF DropsOrdered
  <2>2. CASE <<q, k>> # <<r, p>>
    BY <2>1, <2>2, DropKeeps DEF Drops, Is
  <2>3. CASE <<q, k>> = <<r, p>> /\ <<r, p>> \in asked
    <3>1. <<a, q, k>> \in held /\ <<q, k>> \in asked
      BY <2>3 DEF Recorded, Is
    <3>2. Excused(a)
      BY <3>1 DEF Excused
    <3>3. QED
      BY <3>2, ExcusedGrows
  <2>4. QED
    BY <2>1, <2>2, <2>3
<1>4. CASE UNCHANGED <<users, held, replaced>>
  BY <1>4 DEF Is
<1>5. QED
  BY <1>1, <1>2, <1>3, <1>4, StoreSteps

(* The source profile of a migration stays whose it is while nobody but a  *)
(* poll touches it.                                                        *)
LEMMA SourceCarried ==
  ASSUME NEW v \in Worker, Source(v), Migrates(v), pc[v] \in Copied,
         job'[v] = job[v], seen'[v].who = seen[v].who,
         job[v].reader \in Reader, job[v].pin \in Pin, Recorded',
         \A a : Excused(a) => Excused(a)',
         LET old == users[job[v].reader][job[v].pin]
             new == users'[job[v].reader][job[v].pin]
         IN  \/ new = old
             \/ new = NoUser
             \/ old # NoUser /\ new.who = old.who
             \/ job[v].reader \in pushed'
  PROVE  Source(v)'
<1> DEFINE r == job[v].reader
           p == job[v].pin
<1>1. SUFFICES ASSUME users'[r][p] # NoUser
      PROVE  Is(r, p, seen[v].who)' \/ Excused(users[r][p].who)'
  BY DEF Source, Is
<1>2. CASE r \in pushed'
  <2>1. <<users'[r][p].who, r, p>> \in held'
    BY <1>1 DEF Recorded
  <2>2. QED
    BY <1>2, <2>1 DEF Excused
<1>3. CASE r \notin pushed'
  <2>1. users[r][p] # NoUser /\ users'[r][p].who = users[r][p].who
    BY <1>1, <1>3
  <2>2. Is(r, p, seen[v].who) \/ Excused(users[r][p].who)
    BY <2>1 DEF Source
  <2>3. CASE Is(r, p, seen[v].who)
    BY <1>1, <2>1, <2>3 DEF Is
  <2>4. CASE Excused(users[r][p].who)
    <3>1. Excused(users[r][p].who)'
      BY <2>1, <2>4 DEF Excused
    <3>2. QED
      BY <3>1
  <2>5. QED
    BY <2>2, <2>3, <2>4
<1>4. QED
  BY <1>2, <1>3

Deleting ==
  /\ TypeOK
  /\ \A w \in Worker : Placed(w) /\ Ordered(w)
  /\ QueueOrdered /\ Recorded

(* The source stays whose it is while it is copied.                        *)
LEMMA SourceStep ==
  ASSUME Deleting, \A w \in Worker : Source(w), [Next]_vars
  PROVE  \A w \in Worker : Source(w)'
<1> USE DEF Deleting
<1>1. Recorded'
  BY RecordedStep
<1>2. \A a : Excused(a) => Excused(a)'
  BY ExcusedGrows
<1>3. ASSUME NEW v \in Worker, Migrates(v), pc[v] \in Copied
      PROVE  /\ job[v].reader \in Reader /\ job[v].pin \in Pin
             /\ conn[job[v].reader] = v
  <2>1. job[v] # NoJob /\ conn[job[v].reader] = v
    BY <1>3 DEF Placed, Copied, Unconnected
  <2>2. QED
    BY <1>3, <2>1, JobTypes
<1>4. ASSUME NEW v \in Worker, FindSource(v)
      PROVE  Source(v)'
  <2>1. SUFFICES ASSUME pc'[v] # "release"
        PROVE  Source(v)'
    BY DEF Source, Copied
  <2>2. /\ UNCHANGED <<users, job>>
        /\ seen' = [seen EXCEPT ![v] = [users[job[v].reader][job[v].pin]
                                          EXCEPT !.print = NoPrint]]
        /\ job[v].pin \in Stored(job[v].reader) /\ Migrates(v)
    BY <1>4, <2>1, OutcomeGoesOn DEF FindSource, KeepReaders
  <2>3. job[v] # NoJob
    BY <2>2, NoJobDoesNothing
  <2>4. job[v].reader \in Reader /\ job[v].pin \in Pin
    BY <2>2, <2>3, JobTypes
  <2> DEFINE u == users[job[v].reader][job[v].pin]
  <2>5. u \in Profile
    BY <2>2, <2>4 DEF Stored, TypeOK, ReadersTypeOK
  <2>6. seen'[v] = [u EXCEPT !.print = NoPrint]
    BY <2>2 DEF TypeOK
  <2> HIDE DEF u
  <2>7. seen'[v].who = u.who
    BY <2>5, <2>6, Reprinted
  <2>8. Is(job[v].reader, job[v].pin, seen[v].who)'
    BY <2>2, <2>5, <2>7, ReadersAssumption DEF Is, u
  <2>9. QED
    BY <2>8 DEF Source
<1>5. ASSUME NEW v \in Worker, WorkerStep(v), ~FindSource(v), ~Release(v),
             Migrates(v), pc'[v] \in Copied
      PROVE  /\ pc[v] \in Copied /\ seen'[v].who = seen[v].who
             /\ users'[job[v].reader][job[v].pin] = users[job[v].reader][job[v].pin]
  <2>1. \/ ReadTemplates(v) \/ ConnectTarget(v) \/ FindTarget(v)
        \/ WriteProfile(v) \/ WriteTemplates(v) \/ VerifyTarget(v)
    BY <1>5, OutcomeGoesOn
    DEF WorkerStep, Migrates, Placed, Deletion, Copied, ConnectReader, Connect,
        FetchUsers, CheckFree, CreateProfile, VerifyCreated, FindUsers,
        DeleteUser, DeletePrints, VerifyDeleted, RemoveSource, TypeOK
  <2>2. pc[v] \in Copied
    BY <2>1 DEF ReadTemplates, ConnectTarget, FindTarget, WriteProfile,
                WriteTemplates, VerifyTarget, Copied
  <2>3. seen'[v].who = seen[v].who
    <3>1. CASE ReadTemplates(v)
      <4>1. seen[v] \in Profile
        BY <1>5, <2>2 DEF Placed
      <4>2. UNCHANGED seen \/ \E x : seen' = [seen EXCEPT ![v] = [seen[v] EXCEPT !.print = x]]
        BY <3>1 DEF ReadTemplates
      <4>3. QED
        BY <4>1, <4>2 DEF TypeOK, Profile
    <3>2. CASE ~ReadTemplates(v)
      BY <2>1, <3>2 DEF ConnectTarget, FindTarget, WriteProfile, WriteTarget,
                        WriteTemplates, VerifyTarget, locals
    <3>3. QED
      BY <3>1, <3>2
  <2>4. users'[job[v].reader][job[v].pin] = users[job[v].reader][job[v].pin]
    <3>1. CASE WriteProfile(v) \/ WriteTemplates(v)
      <4>1. job[v].target # job[v].reader
        BY <1>5, <3>1 DEF Placed, WriteProfile, WriteTemplates, Copied, AtTarget
      <4>2. UNCHANGED users \/ \E x : users' = [users EXCEPT ![job[v].target] = x]
        BY <3>1 DEF WriteProfile, WriteTemplates, WriteTarget, Put
      <4>3. job[v].reader \in Reader
        BY <1>3, <1>5, <2>2
      <4>4. QED
        BY <4>1, <4>2, <4>3 DEF TypeOK, ReadersTypeOK
    <3>2. CASE ~WriteProfile(v) /\ ~WriteTemplates(v)
      BY <2>1, <3>2 DEF ReadTemplates, ConnectTarget, FindTarget, VerifyTarget,
                        KeepReaders
    <3>3. QED
      BY <3>1, <3>2
  <2>5. QED
    BY <2>2, <2>3, <2>4
<1>6. ASSUME NEW v \in Worker, Start(v) \/ WorkerStep(v)
      PROVE  Source(v)'
  <2>1. CASE Start(v) \/ Release(v)
    <3>1. pc'[v] \notin Copied
      BY <2>1 DEF Start, Release, Forget, Copied, TypeOK
    <3>2. QED
      BY <3>1 DEF Source
  <2>2. CASE WorkerStep(v) /\ ~Release(v) /\ ~FindSource(v)
    <3>1. UNCHANGED job
      BY <2>2, StepIsPlaced
    <3>2. CASE Migrates(v) /\ pc'[v] \in Copied
      BY <1>1, <1>2, <1>3, <1>5, <2>2, <3>1, <3>2, SourceCarried
    <3>3. CASE ~(Migrates(v) /\ pc'[v] \in Copied)
      BY <3>1, <3>3 DEF Source, Migrates
    <3>4. QED
      BY <3>2, <3>3
  <2>3. QED
    BY <1>4, <1>6, <2>1, <2>2
<1>7. ASSUME NEW v \in Worker, Apart(v),
             \A r \in Reader, p \in Pin : conn[r] = v =>
               \/ users'[r][p] = users[r][p]
               \/ users'[r][p] = NoUser
               \/ users[r][p] # NoUser /\ users'[r][p].who = users[r][p].who
               \/ r \in pushed'
      PROVE  Source(v)'
  <2>1. CASE Migrates(v) /\ pc[v] \in Copied
    BY <1>1, <1>2, <1>3, <1>7, <2>1, SourceCarried DEF Apart
  <2>2. CASE ~(Migrates(v) /\ pc[v] \in Copied)
    BY <1>7, <2>2 DEF Apart, Source, Migrates
  <2>3. QED
    BY <2>1, <2>2
<1>8. ASSUME NEW w \in Worker, Start(w) \/ WorkerStep(w), NEW v \in Worker
      PROVE  Source(v)'
  <2>1. CASE v # w
    <3>1. Apart(v) /\ \A r \in Reader : conn[r] = v => users'[r] = users[r]
      BY <1>8, <2>1, OthersApart, OwnReaders
    <3>2. QED
      BY <1>7, <3>1
  <2>2. QED
    BY <1>6, <1>8, <2>1
<1>9. ASSUME NEW r \in Reader, ReaderPolls(r), NEW v \in Worker
      PROVE  Source(v)'
  <2>1. Apart(v)
    BY <1>9 DEF ReaderPolls, Poll, Apart, locals
  <2>2. QED
    BY <1>7, <1>9, <2>1, PollStores
<1>10. ASSUME Crash \/ UNCHANGED vars, NEW v \in Worker
       PROVE  Source(v)'
  <2>1. CASE Crash
    BY <2>1 DEF Crash, Forget, Source, Copied
  <2>2. CASE UNCHANGED vars
    BY <1>7, <2>2 DEF vars, Apart, locals, readerVars
  <2>3. QED
    BY <1>10, <2>1, <2>2
<1>11. QED
  BY <1>8, <1>9, <1>10 DEF Next

(* Once the target has been written, the person is there.                  *)
LEMMA TargetStep ==
  ASSUME Deleting, \A w \in Worker : Target(w), [Next]_vars
  PROVE  \A w \in Worker : Target(w)'
<1> USE DEF Deleting
<1> DEFINE written == Chosen \ {"write"}
<1>1. ASSUME NEW v \in Worker, Migrates(v), pc[v] \in Chosen
      PROVE  /\ job[v] # NoJob /\ job[v].target \in Reader /\ dest[v] \in Pin
             /\ conn[job[v].target] = v /\ seen[v] \in Profile
  <2>1. job[v] # NoJob
    BY <1>1, NoJobDoesNothing
  <2>2. QED
    BY <1>1, <2>1, JobTypes DEF Placed, Copied, AtTarget, Chosen
<1>2. ASSUME NEW v \in Worker, job'[v] = job[v], dest'[v] = dest[v],
             seen'[v] = seen[v], Migrates(v) /\ pc'[v] \in written => pc[v] \in written,
             ~Removes(job[v].target, dest[v])
      PROVE  Target(v)'
  <2>1. SUFFICES ASSUME Migrates(v), pc[v] \in written
                 PROVE  Target(v)'
    BY <1>2 DEF Target, Migrates
  <2>2. job[v].target \in Reader /\ dest[v] \in Pin
    BY <1>1, <2>1
  <2>3. Is(job[v].target, dest[v], seen[v].who) \/ Excused(seen[v].who)
    BY <2>1 DEF Target
  <2> DEFINE r == job[v].target
             p == dest[v]
             a == seen[v].who
  <2>4. Is(r, p, a)' \/ Excused(a)'
    <3> r \in Reader /\ p \in Pin
      BY <2>2
    <3>1. Excused(a) => Excused(a)'
      BY <1>2, ExcusedGrows DEF Excused
    <3>2. Is(r, p, a) => \/ users'[r][p] # NoUser /\ users'[r][p].who = a
                        \/ Excused(a)'
      BY <1>2, <2>2, Fate DEF Is, Excused
    <3>3. QED
      BY <1>2, <2>3, <3>1, <3>2 DEF Is
  <2>5. QED
    BY <1>2, <2>4 DEF Target
<1>3. ASSUME NEW w \in Worker, RemoveSource(w)
      PROVE  pc[w] = "remove" /\ pc'[w] = "release" /\ conn[job[w].reader] = w
  BY <1>3, OutcomeGoesOn DEF RemoveSource, Placed, Unconnected
<1>4. ASSUME NEW v \in Worker, WriteProfile(v) \/ WriteTemplates(v)
      PROVE  Target(v)'
  <2>1. SUFFICES ASSUME pc'[v] # "release"
        PROVE  Target(v)'
    BY DEF Target, Chosen
  <2>2. Migrates(v) /\ pc[v] \in Chosen
    BY <1>4 DEF WriteProfile, WriteTemplates, Placed, Copied, Chosen
  <2>3. UNCHANGED <<job, dest, seen>>
    BY <1>4 DEF WriteProfile, WriteTemplates, WriteTarget, locals
  <2>4. PICK new \in Profile : /\ Put(job[v].target, dest[v], new, "session")
                               /\ new.who = seen[v].who
    <3>1. job[v].pin \in Pin /\ seen[v] \in Profile
      BY <1>1, <2>2, JobTypes
    <3>2. UserName(v) \in Name
      BY <3>1, ShownNameType DEF UserName
    <3>3. CASE WriteProfile(v)
      <4> DEFINE new == [who |-> seen[v].who, name |-> UserName(v), print |-> NoPrint]
      <4>1. new \in Profile /\ new.who = seen[v].who
        BY <3>1, <3>2 DEF Profile
      <4>2. Put(job[v].target, dest[v], new, "session")
        BY <2>1, <3>3, OutcomeGoesOn DEF WriteProfile, WriteTarget
      <4> HIDE DEF new
      <4>3. QED
        BY <4>1, <4>2
    <3>4. CASE WriteTemplates(v)
      <4> DEFINE new == [seen[v] EXCEPT !.name = UserName(v)]
      <4>1. new \in Profile /\ new.who = seen[v].who
        BY <3>1, <3>2 DEF Profile
      <4>2. Put(job[v].target, dest[v], new, "session")
        BY <2>1, <3>4, OutcomeGoesOn DEF WriteTemplates, WriteTarget
      <4> HIDE DEF new
      <4>3. QED
        BY <4>1, <4>2
    <3>5. QED
      BY <1>4, <3>3, <3>4
  <2>5. /\ users'[job[v].target][dest[v]] # NoUser
        /\ users'[job[v].target][dest[v]].who = seen[v].who
    BY <1>1, <2>2, <2>4, PutStores DEF TypeOK
  <2>6. QED
    BY <2>3, <2>5 DEF Target, Is
<1>5. ASSUME NEW v \in Worker, Start(v) \/ WorkerStep(v)
      PROVE  Target(v)'
  <2>1. CASE Start(v) \/ Release(v)
    <3>1. pc'[v] \notin Chosen
      BY <2>1 DEF Start, Release, Forget, Chosen, TypeOK
    <3>2. QED
      BY <3>1 DEF Target
  <2>2. CASE VerifyTarget(v)
    <3>1. UNCHANGED <<job, dest, seen>> /\ pc[v] \in written /\ UNCHANGED users
      BY <2>2 DEF VerifyTarget, locals, KeepReaders, Chosen
    <3>2. ASSUME Migrates(v)
          PROVE  ~Removes(job[v].target, dest[v])
      <4>1. ASSUME NEW w \in Worker, RemoveSource(w), job[v].target = job[w].reader
            PROVE  FALSE
        <5>1. w = v
          BY <1>1, <1>3, <3>1, <3>2, <4>1
        <5>2. pc[v] = "remove" /\ pc[v] = "verify"
          BY <1>3, <2>2, <4>1, <5>1 DEF VerifyTarget
        <5>3. QED
          BY <5>2
      <4>2. QED
        BY <4>1 DEF Removes
    <3>3. Migrates(v)
      BY <2>2 DEF VerifyTarget
    <3>4. QED
      BY <1>2, <3>1, <3>2, <3>3
  <2>3. CASE /\ WorkerStep(v) /\ ~Release(v) /\ ~VerifyTarget(v)
             /\ ~WriteProfile(v) /\ ~WriteTemplates(v)
    <3>1. ~Migrates(v) \/ pc'[v] \notin written
      <4>1. CASE Connecting(v) \/ FindSource(v) \/ ReadTemplates(v)
        BY <4>1, OutcomeGoesOn
        DEF Connecting, ConnectReader, ConnectTarget, Connect, FindSource,
            ReadTemplates, Chosen, TypeOK
      <4>2. CASE FindTarget(v) \/ RemoveSource(v) \/ FetchUsers(v)
        BY <4>2, OutcomeGoesOn DEF FindTarget, RemoveSource, FetchUsers, Chosen
      <4>3. CASE CheckFree(v) \/ CreateProfile(v) \/ VerifyCreated(v)
        BY <4>3 DEF CheckFree, CreateProfile, VerifyCreated, Migrates
      <4>4. CASE FindUsers(v) \/ DeleteUser(v) \/ DeletePrints(v)
                 \/ VerifyDeleted(v)
        BY <4>4 DEF FindUsers, DeleteUser, DeletePrints, VerifyDeleted, Migrates,
                    Placed, Deletion
      <4>5. QED
        BY <2>3, <4>1, <4>2, <4>3, <4>4 DEF WorkerStep, Connecting
    <3>2. UNCHANGED job
      BY <2>3, StepIsPlaced
    <3>3. QED
      BY <3>1, <3>2 DEF Target, Migrates
  <2>4. QED
    BY <1>4, <1>5, <2>1, <2>2, <2>3
<1>6. ASSUME NEW w \in Worker, Start(w) \/ WorkerStep(w), NEW v \in Worker, v # w
      PROVE  Target(v)'
  <2>1. Apart(v) /\ \A r \in Reader : conn[r] = v => users'[r] = users[r]
    BY <1>6, OthersApart, OwnReaders
  <2>2. CASE Migrates(v) /\ pc[v] \in written
    <3>1. users'[job[v].target] = users[job[v].target]
      BY <1>1, <2>1, <2>2
    <3>2. Is(job[v].target, dest[v], seen[v].who) \/ Excused(seen[v].who)
      BY <2>2 DEF Target
    <3>3. Excused(seen[v].who) => Excused(seen[v].who)'
      BY <2>1, ExcusedGrows DEF Apart, Excused
    <3>4. QED
      BY <2>1, <3>1, <3>2, <3>3 DEF Target, Is, Apart
  <2>3. CASE ~(Migrates(v) /\ pc[v] \in written)
    BY <2>1, <2>3 DEF Target, Apart, Migrates
  <2>4. QED
    BY <2>2, <2>3
<1>7. ASSUME (\E r \in Reader : ReaderPolls(r)) \/ UNCHANGED vars, NEW v \in Worker
      PROVE  Target(v)'
  <2>1. UNCHANGED <<job, dest, seen, pc>>
    BY <1>7 DEF ReaderPolls, vars, locals
  <2>2. ~Removes(job[v].target, dest[v])
    BY <1>3, <2>1 DEF Removes
  <2>3. QED
    BY <1>2, <2>1, <2>2
<1>8. CASE Crash
  BY <1>8 DEF Crash, Forget, Target, Chosen
<1>9. QED
  BY <1>5, <1>6, <1>7, <1>8 DEF Next

(* A step leaves nobody without a profile who is not excused: a move       *)
(* deletes its source only while the target still has the person.          *)
LEMMA KeptStep ==
  ASSUME Deleting, \A w \in Worker : Source(w) /\ Target(w), Kept, [Next]_vars
  PROVE  Kept'
<1> USE DEF Deleting
<1>1. SUFFICES ASSUME NEW h \in held', ~Excused(h[1])'
               PROVE  Profiles(h[1])' # {}
  BY DEF Kept
<1> DEFINE a == h[1]
<1>2. ASSUME NEW q \in Reader, NEW k \in Pin,
             users'[q][k] # NoUser, users'[q][k].who = a
      PROVE  Profiles(a)' # {}
  <2>1. <<q, k>> \in Reader \X Pin /\ <<q, k>>[1] = q /\ <<q, k>>[2] = k
    OBVIOUS
  <2>2. <<q, k>> \in Profiles(a)'
    BY <1>2, <2>1 DEF Profiles
  <2>3. QED
    BY <2>2
<1>3. CASE h \notin held
  <2>1. Puts
    BY <1>3, StoreSteps DEF Unprints, DropsOrdered, Drops
  <2>2. PICK r \in Reader, p \in Pin, new \in Profile,
             by \in {"session", "command"} : Put(r, p, new, by)
    BY <2>1 DEF Puts
  <2>3. a = new.who
    BY <1>3, <2>2 DEF Put
  <2>4. QED
    BY <1>2, <2>2, <2>3, PutStores DEF TypeOK
<1>4. CASE h \in held
  <2>1. ~Excused(a)
    BY <1>1, ExcusedGrows DEF Excused
  <2>2. PICK q \in Reader, k \in Pin : Is(q, k, a)
    BY <1>4, <2>1 DEF Kept, Profiles, Is
  <2>3. CASE ~Removes(q, k)
    BY <1>1, <1>2, <2>2, <2>3, Fate DEF Is, Excused
  <2>4. ASSUME NEW w \in Worker, RemoveSource(w), q = job[w].reader, k = job[w].pin
        PROVE  Profiles(a)' # {}
    <3>1. /\ pc[w] = "remove" /\ Migrates(w) /\ job[w] # NoJob
          /\ job[w].target # job[w].reader /\ dest[w] \in Pin
          /\ conn[job[w].target] = w
      BY <2>4 DEF RemoveSource, Placed, Copied, AtTarget, Chosen
    <3>2. job[w].target \in Reader
      BY <3>1, JobTypes
    <3>3. seen[w].who = a
      BY <2>1, <2>2, <2>4, <3>1 DEF Source, Is, Copied
    <3>4. Is(job[w].target, dest[w], a)
      BY <2>1, <3>1, <3>3 DEF Target, Chosen
    <3>5. ~Removes(job[w].target, dest[w])
      <4>1. ASSUME NEW v \in Worker, RemoveSource(v), job[w].target = job[v].reader
            PROVE  FALSE
        <5>1. conn[job[v].reader] = v
          BY <4>1 DEF RemoveSource, Placed, Unconnected
        <5>2. QED
          BY <3>1, <4>1, <5>1
      <4>2. QED
        BY <4>1 DEF Removes
    <3>6. QED
      BY <1>1, <1>2, <3>1, <3>2, <3>4, <3>5, Fate DEF Is, Excused
  <2>5. QED
    BY <2>3, <2>4 DEF Removes
<1>5. QED
  BY <1>3, <1>4

-----------------------------------------------------------------------------
(* Deletions that answer ok                                                *)

\* What a deletion has not done, and when it may answer ok all the same.
Undone(w) ==
  LET j == job[w]
  IN  {p \in j.pins \cap Stored(j.reader) :
         j.printsOnly => users[j.reader][p].print # NoPrint}
Waived(w) ==
  LET j == job[w]
  IN  IF j.printsOnly THEN j.op = "batch" \/ j.reader \in failed
                      ELSE j.reader \in pushed

\* What is not done is still to be done, or the answer is a failure; the
\* connection keeps other requests away.
Deleted(w) ==
  Deletion(w) /\ ~Waived(w) =>
    /\ pc[w] = "delete" => answer[w] = "failed" \/ Undone(w) \subseteq left[w]
    /\ pc[w] = "verify" => answer[w] = "failed" \/ Undone(w) = {}
    /\ pc[w] = "release" /\ answer[w] = "ok" =>
         Undone(w) = {} /\ conn[job[w].reader] = w

(* What a deletion has not done yet, place by place.                       *)
LEMMA UndoneIs ==
  ASSUME TypeOK, NEW w \in Worker, job[w] # NoJob, Deletion(w)
  PROVE  \A p : p \in Undone(w) <=>
           /\ p \in job[w].pins /\ p \in Pin
           /\ users[job[w].reader][p] # NoUser
           /\ job[w].printsOnly => users[job[w].reader][p].print # NoPrint
BY JobTypes DEF Undone, Stored

(* Only another profile with templates adds to it, or any other profile    *)
(* if the whole profile is to go.                                          *)
Narrows(r) ==
  \A p \in Pin :
    users'[r][p] # NoUser =>
      \/ users[r][p] # NoUser /\ users'[r][p].print \in {users[r][p].print, NoPrint}
      \/ users'[r][p].print = NoPrint /\ r \in pushed'

(* A command that a reader carries out adds no templates, and a profile only   *)
(* when it is a creation.                                                  *)
LEMMA PollNarrows ==
  ASSUME TypeOK, NEW q \in Reader, ReaderPolls(q), NEW r \in Reader
  PROVE  Narrows(r)
<1>1. ReadersTypeOK /\ Poll(q)
  BY DEF TypeOK, ReaderPolls
<1>2. CASE UNCHANGED users
  BY <1>2 DEF Narrows
<1>3. ASSUME NEW k \in Pin, Drop(q, {k})
      PROVE  Narrows(r)
  BY <1>1, <1>3, DropStores DEF Narrows
<1>4. ASSUME NEW k \in Pin, Unprint(q, k)
      PROVE  Narrows(r)
  <2>1. SUFFICES ASSUME NEW p \in Pin, users'[r][p] # NoUser
                 PROVE  /\ users[r][p] # NoUser
                        /\ users'[r][p].print \in {users[r][p].print, NoPrint}
    BY DEF Narrows
  <2>2. users'[r][p] = IF r = q /\ p = k /\ users[r][p] # NoUser
                         THEN [users[r][p] EXCEPT !.print = NoPrint]
                         ELSE users[r][p]
    BY <1>1, <1>4 DEF Unprint, ReadersTypeOK
  <2>3. users[r][p] \in Profile \cup {NoUser}
    BY <1>1 DEF ReadersTypeOK
  <2>4. QED
    BY <2>1, <2>2, <2>3 DEF Profile
<1>5. ASSUME NEW k \in Pin, NEW a \in Person,
             Put(q, k, [who |-> a, name |-> a, print |-> NoPrint], "command"),
             pushed' = pushed \cup {q}
      PROVE  Narrows(r)
  <2> DEFINE new == [who |-> a, name |-> a, print |-> NoPrint]
             old == users[q][k]
  <2>1. old \in Profile \cup {NoUser} /\ new \in Profile /\ new # NoUser
    BY <1>1, ReadersAssumption DEF ReadersTypeOK, Profile, Name
  <2>2. users' = [users EXCEPT ![q][k] = IF old = NoUser \/ new.print # NoPrint
                                           THEN new
                                           ELSE [new EXCEPT !.print = old.print]]
    BY <1>5 DEF Put
  <2>3. \A p \in Pin : <<r, p>> # <<q, k>> => users'[r][p] = users[r][p]
    BY <1>1, <2>2 DEF ReadersTypeOK
  <2>4. users'[q][k] = IF old = NoUser THEN new
                       ELSE [new EXCEPT !.print = old.print]
    BY <1>1, <2>2 DEF ReadersTypeOK
  <2>5. old # NoUser => users'[q][k].print = old.print
    BY <2>1, <2>4
  <2>6. old = NoUser => users'[q][k].print = NoPrint
    BY <2>4
  <2> HIDE DEF new
  <2>7. QED
    BY <1>5, <2>3, <2>5, <2>6 DEF Narrows
<1>6. QED
  BY <1>1, <1>2, <1>3, <1>4, <1>5, PollExecutes

(* Whatever else changes on the reader, what was done stays done, or the   *)
(* exception applies.                                                      *)
LEMMA NarrowedStaysDeleted ==
  ASSUME TypeOK, TypeOK', NEW w \in Worker, job[w] # NoJob, Deletion(w),
         Deleted(w), job'[w] = job[w], pc'[w] = pc[w], answer'[w] = answer[w],
         left'[w] = left[w], conn'[job[w].reader] = conn[job[w].reader],
         failed \subseteq failed', pushed \subseteq pushed',
         Placed(w), conn[job[w].reader] = w => Narrows(job[w].reader)
  PROVE  Deleted(w)'
<1>1. SUFFICES ASSUME ~Waived(w)'
               PROVE  Deleted(w)'
  BY DEF Deleted
<1>2. ~Waived(w) /\ (~job[w].printsOnly => job[w].reader \notin pushed')
  BY <1>1 DEF Waived
<1>3. CASE pc[w] \in {"delete", "verify"} \/ conn[job[w].reader] = w
  <2>1. conn[job[w].reader] = w
    BY <1>3 DEF Placed, Unconnected
  <2>2. Undone(w)' \subseteq Undone(w)
    <3>1. ASSUME NEW p \in Undone(w)'
          PROVE  p \in Undone(w)
      <4>1. /\ p \in job[w].pins /\ p \in Pin
            /\ users'[job[w].reader][p] # NoUser
            /\ job[w].printsOnly => users'[job[w].reader][p].print # NoPrint
        <5>1. job[w].pins \subseteq Pin
          BY JobTypes
        <5>2. QED
          BY <3>1, <5>1 DEF Undone, Stored
      <4>2. job[w].reader \in Reader /\ Narrows(job[w].reader)
        BY <2>1, JobTypes
      <4>3. /\ users[job[w].reader][p] # NoUser
            /\ job[w].printsOnly => users[job[w].reader][p].print # NoPrint
        BY <1>2, <4>1, <4>2, JobTypes DEF Narrows
      <4>4. QED
        BY <4>1, <4>3, UndoneIs
    <3>2. QED
      BY <3>1
  <2>3. QED
    BY <1>2, <2>1, <2>2 DEF Deleted, Deletion
<1>4. CASE pc[w] \notin {"delete", "verify"} /\ conn[job[w].reader] # w
  BY <1>2, <1>4 DEF Deleted, Deletion
<1>5. QED
  BY <1>3, <1>4

(* The steps of a deletion itself.                                         *)
LEMMA OwnDeletion ==
  ASSUME TypeOK, TypeOK', NEW w \in Worker, Placed(w), Deleted(w),
         WorkerStep(w), ~Release(w), Deletion(w)
  PROVE  Deleted(w)'
<1> DEFINE j == job[w]
<1>1. UNCHANGED job /\ job[w] # NoJob
  BY StepIsPlaced DEF Deletion, NoJob
<1>2. /\ job[w].reader \in Reader /\ job[w].pins \subseteq Pin
      /\ job[w].printsOnly \in BOOLEAN
  BY <1>1, JobTypes
<1>3. failed \subseteq failed' /\ UNCHANGED pushed
  BY OthersApart, OwnReaders
<1>4. SUFFICES ASSUME ~Waived(w)'
               PROVE  Deleted(w)'
  BY DEF Deleted
<1>5. ~Waived(w)
  BY <1>1, <1>3, <1>4 DEF Waived
<1>6. ~Migrates(w) /\ j.op \notin {"create", "fetch"}
  BY DEF Deletion, Migrates
<1>7. \A q \in Pin : q \in Undone(w)' <=>
        /\ q \in job[w].pins /\ users'[job[w].reader][q] # NoUser
        /\ job[w].printsOnly => users'[job[w].reader][q].print # NoPrint
  BY <1>1, <1>2 DEF Undone, Stored
<1>8. Undone(w)' \subseteq Pin
  BY <1>1, <1>2 DEF Undone
<1>9. ASSUME pc'[w] = "release", answer'[w] # "ok"
      PROVE  Deleted(w)'
  BY <1>9 DEF Deleted
<1>10. /\ Raise(w) => pc'[w] = "release" /\ answer'[w] # "ok"
       /\ \A r : Breaks(w, r) => pc'[w] = "release" /\ answer'[w] # "ok"
  BY DEF Raise, Breaks, TypeOK
<1>11. CASE ConnectReader(w)
  <2>1. (GoOn(w, "read") /\ pc'[w] = "read") \/ Raise(w)
    BY <1>11, OutcomeGoesOn DEF ConnectReader, Connect, Breaks
  <2>2. pc'[w] = "read" => Deleted(w)'
    BY DEF Deleted
  <2>3. QED
    BY <1>9, <1>10, <2>1, <2>2
<1>12. CASE FindUsers(w)
  <2> DEFINE found == j.pins \cap Stored(j.reader)
  <2>1. /\ UNCHANGED <<users, conn>> /\ pc[w] = "read" /\ left'[w] = found
    BY <1>12 DEF FindUsers, KeepReaders, TypeOK
  <2>2. Undone(w)' \subseteq found
    BY <1>7, <1>8, <2>1 DEF Stored
  <2>3. conn'[job[w].reader] = w
    BY <2>1 DEF Placed, Unconnected
  <2>4. \/ found = {} /\ pc'[w] \in {"release", "verify"}
        \/ pc'[w] = "delete"
        \/ Breaks(w, j.reader)
    BY <1>12, OutcomeGoesOn DEF FindUsers
  <2>5. found = {} \/ pc'[w] = "delete" => Deleted(w)'
    BY <1>1, <2>1, <2>2, <2>3, <2>4 DEF Deleted
  <2>6. QED
    BY <1>9, <1>10, <2>4, <2>5
<1>13. CASE DeleteUser(w)
  <2>1. pc[w] = "delete" /\ ~j.printsOnly
    BY <1>13 DEF DeleteUser
  <2>2. PICK p \in left[w] :
          /\ left' = [left EXCEPT ![w] = @ \ {p}]
          /\ LET next == IF left[w] = {p} THEN "verify" ELSE "delete"
             IN  \/ Drop(j.reader, {p}) /\ GoOn(w, next)
                 \/ Breaks(w, j.reader) \/ ItemFails(w, j.reader, next)
    BY <1>13 DEF DeleteUser
  <2>3. answer[w] = "failed" \/ Undone(w) \subseteq left[w]
    BY <1>5, <2>1 DEF Deleted
  <2>4. left'[w] = left[w] \ {p} /\ p \in Pin
    BY <2>2 DEF TypeOK
  <2> DEFINE next == IF left[w] = {p} THEN "verify" ELSE "delete"
  <2>5. CASE Drop(j.reader, {p}) /\ GoOn(w, next)
    <3>1. Undone(w)' \subseteq Undone(w) \ {p}
      <4>1. \A k \in Pin : users'[j.reader][k] =
                             IF k = p THEN NoUser ELSE users[j.reader][k]
        BY <1>2, <2>5, DropStores DEF TypeOK
      <4>2. QED
        BY <1>1, <1>7, <1>8, <2>1, <4>1, UndoneIs
    <3>2. answer'[w] = answer[w] /\ pc'[w] = next
      BY <2>5, OutcomeGoesOn DEF GoOn
    <3>3. answer[w] = "failed" \/ Undone(w)' \subseteq left'[w]
      BY <2>3, <2>4, <3>1
    <3>4. pc'[w] = "verify" => left'[w] = {}
      BY <2>4, <3>2
    <3>5. QED
      BY <3>2, <3>3, <3>4 DEF Deleted
  <2>6. CASE ItemFails(w, j.reader, next)
    <3>1. answer'[w] = "failed" /\ pc'[w] \in {"verify", "delete"}
      BY <2>6 DEF ItemFails, TypeOK
    <3>2. QED
      BY <3>1 DEF Deleted
  <2>7. QED
    BY <1>9, <1>10, <2>2, <2>5, <2>6
<1>14. CASE DeletePrints(w)
  <2>1. pc[w] = "delete" /\ j.printsOnly /\ j.op # "batch" /\ UNCHANGED answer
    BY <1>5, <1>14 DEF DeletePrints, Waived
  <2>2. PICK p \in left[w] :
          /\ left' = [left EXCEPT ![w] = @ \ {p}]
          /\ pc' = [pc EXCEPT ![w] = IF left[w] = {p} THEN "verify" ELSE "delete"]
          /\ Unprint(j.reader, p) \/ Fault(j.reader)
    BY <1>14, <2>1 DEF DeletePrints
  <2>3. answer[w] = "failed" \/ Undone(w) \subseteq left[w]
    BY <1>5, <2>1 DEF Deleted
  <2>4. left'[w] = left[w] \ {p} /\ p \in Pin
        /\ pc'[w] = IF left[w] = {p} THEN "verify" ELSE "delete"
    BY <2>2 DEF TypeOK
  <2>5. CASE Unprint(j.reader, p)
    <3>1. \A k \in Pin : users'[j.reader][k] =
            IF k = p /\ users[j.reader][k] # NoUser
              THEN [users[j.reader][k] EXCEPT !.print = NoPrint]
              ELSE users[j.reader][k]
      BY <1>2, <2>5 DEF Unprint, TypeOK, ReadersTypeOK
    <3>2. users[j.reader][p] # NoUser => users'[j.reader][p].print = NoPrint
      <4>1. users[j.reader][p] \in Profile \cup {NoUser}
        BY <1>2, <2>4 DEF TypeOK, ReadersTypeOK
      <4>2. QED
        BY <2>4, <3>1, <4>1 DEF Profile
    <3>3. Undone(w)' \subseteq Undone(w) \ {p}
      <4>1. p \notin Undone(w)'
        BY <1>7, <2>1, <2>4, <3>1, <3>2
      <4>2. ASSUME NEW q \in Undone(w)', q # p
            PROVE  q \in Undone(w)
        <5>1. q \in Pin
          BY <1>8
        <5>2. /\ q \in job[w].pins /\ users'[job[w].reader][q] # NoUser
              /\ job[w].printsOnly => users'[job[w].reader][q].print # NoPrint
          BY <1>7, <5>1, <4>2
        <5>3. users'[job[w].reader][q] = users[job[w].reader][q]
          BY <3>1, <4>2, <5>1
        <5>4. QED
          BY <1>1, <5>1, <5>2, <5>3, UndoneIs
      <4>3. QED
        BY <4>1, <4>2
    <3>4. answer[w] = "failed" \/ Undone(w)' \subseteq left'[w]
      BY <2>3, <2>4, <3>3
    <3>5. pc'[w] = "verify" => left'[w] = {}
      BY <2>4
    <3>6. QED
      BY <2>1, <2>4, <3>4, <3>5 DEF Deleted
  <2>6. CASE Fault(j.reader)
    BY <1>1, <1>4, <2>1, <2>6 DEF Fault, Waived
  <2>7. QED
    BY <2>2, <2>5, <2>6
<1>15. CASE VerifyDeleted(w)
  <2>1. pc[w] = "verify" /\ UNCHANGED <<users, conn>>
    BY <1>15 DEF VerifyDeleted, KeepReaders
  <2>2. answer[w] = "failed" \/ Undone(w) = {}
    BY <1>5, <2>1 DEF Deleted
  <2>3. conn'[job[w].reader] = w /\ Undone(w)' = Undone(w)
    BY <1>1, <2>1 DEF Placed, Unconnected, Undone, Stored
  <2>4. \/ Answers(w, IF answer[w] = "failed" THEN "failed" ELSE "ok")
        \/ Answers(w, "failed")
        \/ Raise(w)
    BY <1>15 DEF VerifyDeleted, Breaks
  <2>5. \A a : Answers(w, a) => pc'[w] = "release" /\ answer'[w] = a
    BY DEF Answers, TypeOK
  <2>6. CASE Answers(w, IF answer[w] = "failed" THEN "failed" ELSE "ok")
    BY <1>1, <2>2, <2>3, <2>5, <2>6 DEF Deleted
  <2>7. QED
    BY <1>9, <1>10, <2>4, <2>5, <2>6
<1>16. QED
  BY <1>6, <1>11, <1>12, <1>13, <1>14, <1>15
  DEF WorkerStep, Placed, Copied, FetchUsers, CheckFree, CreateProfile,
      VerifyCreated, FindSource, ReadTemplates, ConnectTarget, FindTarget,
      WriteProfile, WriteTemplates, VerifyTarget, RemoveSource

(* Every step keeps what a deletion may answer.                            *)
LEMMA DeletedStep ==
  ASSUME TypeOK, TypeOK', \A w \in Worker : Placed(w) /\ Deleted(w), [Next]_vars
  PROVE  \A w \in Worker : Deleted(w)'
<1>1. SUFFICES ASSUME NEW w \in Worker
               PROVE  Deleted(w)'
  OBVIOUS
<1>2. ASSUME NEW v \in Worker, Start(v) \/ WorkerStep(v), v # w
      PROVE  Deleted(w)'
  <2>1. Apart(w) /\ failed \subseteq failed' /\ UNCHANGED pushed
    BY <1>2, OthersApart, OwnReaders
  <2>2. CASE ~Deletion(w)
    BY <2>1, <2>2 DEF Deleted, Deletion, Apart
  <2>3. CASE Deletion(w)
    <3>1. job[w] # NoJob
      BY <2>3 DEF Deletion, NoJob
    <3>2. job[w].reader \in Reader
      BY <3>1, JobTypes
    <3>3. conn[job[w].reader] = w => users'[job[w].reader] = users[job[w].reader]
      BY <1>2, <3>2, OwnReaders
    <3>4. conn[job[w].reader] = w => Narrows(job[w].reader)
      BY <3>3 DEF Narrows
    <3>5. CASE conn'[job[w].reader] = conn[job[w].reader]
      BY <2>1, <2>3, <3>1, <3>4, <3>5, NarrowedStaysDeleted DEF Apart
    <3>6. CASE conn'[job[w].reader] # conn[job[w].reader]
      <4>1. conn[job[w].reader] # w
        BY <2>1, <3>2, <3>6 DEF Apart
      <4>2. pc[w] \notin {"delete", "verify"}
        BY <4>1 DEF Placed, Unconnected
      <4>3. ~(pc[w] = "release" /\ answer[w] = "ok") \/ Waived(w)
        BY <2>3, <4>1 DEF Deleted
      <4>4. Waived(w) => Waived(w)'
        BY <2>1 DEF Waived, Apart
      <4>5. QED
        BY <2>1, <4>2, <4>3, <4>4 DEF Deleted, Apart
    <3>7. QED
      BY <3>5, <3>6
  <2>4. QED
    BY <2>2, <2>3
<1>3. CASE Start(w)
  <2>1. pc'[w] = "connect"
    BY <1>3 DEF Start, TypeOK
  <2>2. QED
    BY <2>1 DEF Deleted
<1>4. CASE Release(w) \/ Crash
  <2>1. job'[w] = NoJob
    BY <1>4 DEF Release, Crash, Forget
  <2>2. QED
    BY <2>1 DEF Deleted, Deletion, NoJob
<1>5. CASE WorkerStep(w) /\ ~Release(w)
  <2>1. CASE Deletion(w)
    BY <1>5, <2>1, OwnDeletion
  <2>2. CASE ~Deletion(w)
    <3>1. UNCHANGED job
      BY <1>5, StepIsPlaced
    <3>2. QED
      BY <2>2, <3>1 DEF Deleted, Deletion
  <2>3. QED
    BY <2>1, <2>2
<1>6. ASSUME (\E r \in Reader : ReaderPolls(r)) \/ UNCHANGED vars
      PROVE  Deleted(w)'
  <2>1. /\ UNCHANGED <<pc, answer, job, left, conn, failed>>
        /\ pushed \subseteq pushed'
    BY <1>6, HistoriesGrow DEF ReaderPolls, Poll, locals, mishaps, vars, readerVars
  <2>2. CASE ~Deletion(w)
    BY <2>1, <2>2 DEF Deleted, Deletion
  <2>3. CASE Deletion(w)
    <3>1. job[w] # NoJob
      BY <2>3 DEF Deletion, NoJob
    <3>2. job[w].reader \in Reader
      BY <3>1, JobTypes
    <3>3. UNCHANGED vars => Narrows(job[w].reader)
      BY DEF vars, readerVars, Narrows
    <3>4. Narrows(job[w].reader)
      <4>1. PICK r \in Reader : r = job[w].reader
        BY <3>2
      <4>2. QED
        BY <1>6, <3>3, <4>1, PollNarrows
    <3>5. QED
      BY <2>1, <2>3, <3>1, <3>4, NarrowedStaysDeleted
  <2>4. QED
    BY <2>2, <2>3
<1>7. QED
  BY <1>2, <1>3, <1>4, <1>5, <1>6 DEF Next

-----------------------------------------------------------------------------
(* The theorems                                                            *)

IInv ==
  /\ TypeOK
  /\ \A w \in Worker : Working(w) /\ Moving(w)
  /\ \A w \in Worker : Deleted(w)
  /\ QueueOrdered /\ Recorded /\ Kept
  /\ ReaderLeftUsable /\ NamedReplacementNeedsPush

(* The inductive invariant holds in every reachable state.                 *)
LEMMA Inductive == Spec => []IInv
<1>1. Init => IInv
  <2> SUFFICES ASSUME Init PROVE IInv
    OBVIOUS
  <2>1. TypeOK /\ (\A w \in Worker : Working(w)) /\ ReaderLeftUsable
    BY InitWorks
  <2>2. \A w \in Worker : Moving(w)
    BY DEF Init, Moving, Ordered, Source, Target, Clear, Deletion, Migrates,
           NoJob
  <2>3. QueueOrdered
    BY DEF Init, ReadersInit, QueueOrdered
  <2>4. Recorded
    <3>1. ASSUME NEW r \in Reader, NEW p \in Pin, users[r][p] # NoUser
          PROVE  <<users[r][p].who, r, p>> \in held
      <4>1. <<r, p>> \in {t \in Reader \X Pin : Enrolled[t[1]][t[2]] # NoUser}
        BY <3>1 DEF Init, ReadersInit
      <4>2. users = Enrolled
        BY DEF Init, ReadersInit
      <4>3. QED
        BY <4>1, <4>2 DEF Init, ReadersInit
    <3>2. QED
      BY <3>1 DEF Recorded
  <2>5. Kept
    <3>1. ASSUME NEW h \in held
          PROVE  Profiles(h[1]) # {}
      <4>1. PICK s \in Reader \X Pin : /\ Enrolled[s[1]][s[2]] # NoUser
                                       /\ h[1] = Enrolled[s[1]][s[2]].who
        BY DEF Init, ReadersInit
      <4>2. s \in Profiles(h[1])
        BY <4>1 DEF Init, ReadersInit, Profiles
      <4>3. QED
        BY <4>2
    <3>2. QED
      BY <3>1 DEF Kept
  <2>6. NamedReplacementNeedsPush
    BY DEF Init, ReadersInit, NamedReplacementNeedsPush
  <2>7. \A w \in Worker : Deleted(w)
    BY DEF Init, Deleted
  <2>8. QED
    BY <2>1, <2>2, <2>3, <2>4, <2>5, <2>6, <2>7 DEF IInv
<1>2. IInv /\ [Next]_vars => IInv'
  <2> SUFFICES ASSUME IInv, [Next]_vars PROVE IInv'
    OBVIOUS
  <2>1. Deleting /\ \A w \in Worker : Placed(w) /\ Clear(w) /\ Ordered(w)
                                       /\ Source(w) /\ Target(w)
    BY DEF IInv, Working, Moving, Deleting
  <2>2. TypeOK'
    BY <2>1, TypeStep DEF Deleting
  <2>3. (\A w \in Worker : Working(w)') /\ ReaderLeftUsable'
    BY WorkingStep, UsableStep DEF IInv
  <2>4. NamedReplacementNeedsPush' /\ \A w \in Worker : Clear(w)'
    BY <2>1, NamedStep, ClearStep DEF IInv
  <2>5. \A w \in Worker : Source(w)' /\ Target(w)'
    BY <2>1, SourceStep, TargetStep
  <2>6. QueueOrdered' /\ Recorded' /\ \A w \in Worker : Ordered(w)'
    BY <2>1, QueueOrderedStep, RecordedStep, OrderedStep DEF Deleting
  <2>7. Kept'
    BY <2>1, KeptStep DEF IInv
  <2>8. \A w \in Worker : Deleted(w)'
    BY <2>1, <2>2, DeletedStep DEF IInv
  <2>9. QED
    BY <2>2, <2>3, <2>4, <2>5, <2>6, <2>7, <2>8 DEF IInv, Moving
<1>3. QED
  BY <1>1, <1>2, PTL DEF Spec

(* Type correctness of the readers and of the requests under way           *)
(* (device_migration.py), for every instance.                              *)
THEOREM TypeCorrect == Spec => []TypeOK
<1>1. IInv => TypeOK
  BY DEF IInv
<1>2. QED
  BY <1>1, Inductive, PTL

(* However a request ends, a reader nobody talks to is locked only after a *)
(* failed call to it: the finally blocks enable what was disabled.         *)
THEOREM ReadersAreLeftUsable == Spec => []ReaderLeftUsable
<1>1. IInv => ReaderLeftUsable
  BY DEF IInv
<1>2. QED
  BY <1>1, Inductive, PTL

(* No request writes over a profile of another name, unless a queued       *)
(* creation took the PIN between its check and its write.                  *)
THEOREM NamesAreKept == Spec => []NamedReplacementNeedsPush
<1>1. IInv => NamedReplacementNeedsPush
  BY DEF IInv
<1>2. QED
  BY <1>1, Inductive, PTL

(* Moves, copies, creations, retries, faults and a crash leave nobody      *)
(* without a profile: it takes a requested deletion, a profile of somebody *)
(* else written over, or a creation queued for the place a move empties.   *)
THEOREM NobodyIsLost == Spec => []LossNeedsDelete
<1>1. IInv => LossNeedsDelete
  BY DEF IInv, Kept, Excused, LossNeedsDelete
<1>2. QED
  BY <1>1, Inductive, PTL

(* A deletion that answers ok has deleted: the profiles it lists, or their *)
(* templates, are gone from the reader, unless pyzk ignored the failure of *)
(* a single template, it was a batch of templates, or a queued creation    *)
(* came before the session ended.                                          *)
THEOREM OkIsDone == Spec => []OkMeansDone
<1>1. IInv => OkMeansDone
  <2>1. ASSUME IInv, NEW w \in Worker, pc[w] = "release", answer[w] = "ok",
               Deletion(w), ~Waived(w)
        PROVE  Undone(w) = {}
    BY <2>1 DEF IInv, Deleted
  <2>2. QED
    BY <2>1 DEF OkMeansDone, Undone, Waived, Deletion
<1>2. QED
  BY <1>1, Inductive, PTL

-----------------------------------------------------------------------------
(* Every request ends                                                      *)

(* The calls a request may still have ahead of it.                         *)
Ahead(w) ==
  CASE pc[w] = "idle" -> 0
    [] pc[w] = "release" -> 1
    [] pc[w] = "remove" -> 2
    [] pc[w] = "verify" -> 3
    [] pc[w] = "writePrints" -> 4
    [] pc[w] = "write" -> 5
    [] pc[w] = "readTarget" -> 6
    [] pc[w] = "connectTarget" -> 7
    [] pc[w] = "templates" -> 8
    [] pc[w] = "delete" -> 3 + Cardinality(left[w])
    [] pc[w] = "read" -> 9 + MaxPin
    [] OTHER -> 10 + MaxPin

Longest == 10 + MaxPin

(* A deletion under way has something left to delete, and a list of users  *)
(* verifies nothing.                                                       *)
Fits(w) ==
  /\ pc[w] = "delete" => left[w] # {}
  /\ pc[w] = "verify" => job[w].op # "fetch"

(* The guard of one of the steps of the request holds: at each call there  *)
(* is a step for its operation, whatever the readers and the other         *)
(* requests do.  HasRoom is the bound on the PINs.                         *)
HasNext(w) ==
  \/ pc[w] \in {"connect", "connectTarget", "release"}
  \/ pc[w] \in {"templates", "writePrints", "remove"}
  \/ /\ pc[w] = "read"
     /\ Migrates(w) \/ Deletion(w) \/ job[w].op \in {"create", "fetch"}
  \/ pc[w] = "write" /\ (Migrates(w) \/ job[w].op = "create")
  \/ pc[w] = "delete" /\ left[w] # {} /\ job[w].printsOnly \in BOOLEAN
  \/ /\ pc[w] = "verify"
     /\ Migrates(w) \/ Deletion(w) \/ job[w].op = "create"
  \/ pc[w] = "readTarget" /\ HasRoom(job[w].target)

(* The list of a deletion is never longer than the PINs there are.         *)
LEMMA ListsAreShort ==
  ASSUME NEW S, S \subseteq Pin
  PROVE  IsFiniteSet(S) /\ Cardinality(S) \in 0..MaxPin
<1>1. MaxPin \in Nat
  BY ReadersAssumption
<1>2. IsFiniteSet(Pin) /\ Cardinality(Pin) = MaxPin
  <2>1. IsFiniteSet(1..MaxPin)
        /\ Cardinality(1..MaxPin) = IF 1 > MaxPin THEN 0 ELSE MaxPin - 1 + 1
    BY <1>1, FS_Interval
  <2>2. QED
    BY <1>1, <2>1, ReadersAssumption DEF Pin
<1>3. IsFiniteSet(S) /\ Cardinality(S) <= Cardinality(Pin)
  BY <1>2, FS_Subset
<1>4. Cardinality(S) \in Nat
  BY <1>3, FS_CardinalityType
<1>5. QED
  BY <1>1, <1>2, <1>3, <1>4

(* A request has at most Longest calls ahead, and none when it is over.    *)
LEMMA AheadIsBounded ==
  ASSUME TypeOK, NEW w \in Worker
  PROVE  /\ Ahead(w) \in 0..Longest
         /\ Ahead(w) = 0 <=> pc[w] = "idle"
<1>1. MaxPin \in Nat \ {0}
  BY ReadersAssumption
<1>2. Cardinality(left[w]) \in 0..MaxPin
  BY ListsAreShort DEF TypeOK
<1>3. pc[w] \in Phase
  BY DEF TypeOK, Phase
<1>4. PICK c \in 0..MaxPin : c = Cardinality(left[w])
  BY <1>2
<1>5. CASE pc[w] = "delete"
  <2>1. Ahead(w) = 3 + c
    BY <1>4, <1>5 DEF Ahead
  <2>2. QED
    BY <1>1, <1>5, <2>1 DEF Longest
<1>6. CASE pc[w] \in {"read", "connect"}
  <2>1. Ahead(w) = 9 + MaxPin \/ Ahead(w) = 10 + MaxPin
    BY <1>6 DEF Ahead
  <2>2. QED
    BY <1>1, <1>6, <2>1 DEF Longest
<1>7. CASE pc[w] \notin {"read", "connect", "delete"}
  <2>1. Ahead(w) \in 0..8
    BY <1>3, <1>7 DEF Ahead, Phase
  <2>2. 0..8 \subseteq 0..Longest
    BY <1>1 DEF Longest
  <2>3. pc[w] = "idle" => Ahead(w) = 0
    BY DEF Ahead
  <2>4. pc[w] # "idle" => Ahead(w) \in 1..8
    BY <1>3, <1>7 DEF Ahead, Phase
  <2>5. QED
    BY <2>1, <2>2, <2>3, <2>4
<1>8. QED
  BY <1>5, <1>6, <1>7

(* The same of the next state.                                             *)
LEMMA AheadIsBoundedNext ==
  ASSUME TypeOK', NEW w \in Worker
  PROVE  /\ Ahead(w)' \in 0..Longest
         /\ left'[w] \subseteq Pin
<1>1. MaxPin \in Nat \ {0}
  BY ReadersAssumption
<1>2. left'[w] \subseteq Pin
  BY DEF TypeOK
<1>3. Cardinality(left'[w]) \in 0..MaxPin
  BY <1>2, ListsAreShort
<1>4. pc'[w] \in Phase
  BY DEF TypeOK, Phase
<1>5. PICK c \in 0..MaxPin : c = Cardinality(left'[w])
  BY <1>3
<1>6. CASE pc'[w] = "delete"
  <2>1. Ahead(w)' = 3 + c
    BY <1>5, <1>6 DEF Ahead
  <2>2. QED
    BY <1>1, <1>2, <1>6, <2>1 DEF Longest
<1>7. CASE pc'[w] \in {"read", "connect"}
  <2>1. Ahead(w)' = 9 + MaxPin \/ Ahead(w)' = 10 + MaxPin
    BY <1>7 DEF Ahead
  <2>2. QED
    BY <1>1, <1>2, <1>7, <2>1 DEF Longest
<1>8. CASE pc'[w] \notin {"read", "connect", "delete"}
  <2>1. Ahead(w)' \in 0..8
    BY <1>4, <1>8 DEF Ahead, Phase
  <2>2. QED
    BY <1>1, <1>2, <2>1 DEF Longest
<1>9. QED
  BY <1>6, <1>7, <1>8

(* Each step of a request leaves it fewer calls ahead: no branch, failed   *)
(* call or refused connection leads back.                                  *)
LEMMA StepShortens ==
  ASSUME TypeOK, TypeOK', NEW w \in Worker, Placed(w), Fits(w), WorkerStep(w)
  PROVE  Ahead(w)' < Ahead(w) /\ Fits(w)'
<1>1. MaxPin \in Nat \ {0}
  BY ReadersAssumption
<1>2. /\ Cardinality(left[w]) \in 0..MaxPin
      /\ Cardinality(left'[w]) \in 0..MaxPin
  BY ListsAreShort, AheadIsBoundedNext DEF TypeOK
<1>3. ~Release(w) => UNCHANGED job /\ job[w] # NoJob
  BY StepIsPlaced, Ends DEF WorkerStep, Placed, ReadTemplates, DeletePrints, Ended
<1>4. ASSUME pc'[w] = "release", pc[w] \notin {"idle", "release"}
      PROVE  Ahead(w)' < Ahead(w) /\ Fits(w)'
  <2>1. pc[w] = "delete" => Cardinality(left[w]) \in Nat
    BY <1>2
  <2>2. Ahead(w)' = 1
    BY <1>4 DEF Ahead
  <2>3. Ahead(w) > 1
    BY <1>1, <1>2, <1>4 DEF Ahead, TypeOK
  <2>4. QED
    BY <1>4, <2>2, <2>3 DEF Fits
<1>5. CASE Release(w)
  <2>1. pc[w] = "release" /\ pc'[w] = "idle"
    BY <1>5 DEF Release, Forget
  <2>2. QED
    BY <2>1 DEF Ahead, Fits
<1>6. CASE ConnectReader(w)
  <2>1. pc[w] = "connect" /\ pc'[w] \in {"read", "release"}
    BY <1>6, OutcomeGoesOn DEF ConnectReader, Connect
  <2>2. pc'[w] = "read" => Ahead(w)' < Ahead(w) /\ Fits(w)'
    BY <1>1, <2>1 DEF Ahead, Fits
  <2>3. QED
    BY <1>4, <2>1, <2>2
<1>7. CASE FetchUsers(w)
  <2>1. pc[w] = "read" /\ pc'[w] = "release"
    BY <1>7, OutcomeGoesOn DEF FetchUsers
  <2>2. QED
    BY <1>4, <2>1
<1>8. CASE CheckFree(w)
  <2>1. pc[w] = "read" /\ pc'[w] \in {"write", "release"}
    BY <1>8, OutcomeGoesOn DEF CheckFree
  <2>2. pc'[w] = "write" => Ahead(w)' < Ahead(w) /\ Fits(w)'
    BY <1>1, <2>1 DEF Ahead, Fits
  <2>3. QED
    BY <1>4, <2>1, <2>2
<1>9. CASE CreateProfile(w)
  <2>1. pc[w] = "write" /\ pc'[w] \in {"verify", "release"} /\ job[w].op = "create"
    BY <1>9, OutcomeGoesOn DEF CreateProfile
  <2>2. UNCHANGED job
    BY <1>9 DEF CreateProfile, locals
  <2>3. pc'[w] = "verify" => Ahead(w)' < Ahead(w) /\ Fits(w)'
    BY <2>1, <2>2 DEF Ahead, Fits
  <2>4. QED
    BY <1>4, <2>1, <2>3
<1>10. CASE VerifyCreated(w) \/ VerifyDeleted(w)
  <2>1. pc[w] = "verify" /\ pc'[w] = "release"
    BY <1>10, OutcomeGoesOn DEF VerifyCreated, VerifyDeleted
  <2>2. QED
    BY <1>4, <2>1
<1>11. CASE FindUsers(w)
  <2>1. /\ pc[w] = "read" /\ pc'[w] \in {"verify", "delete", "release"}
        /\ job[w].op \in {"delete", "batch"} /\ UNCHANGED job
        /\ pc'[w] = "delete" => left'[w] # {}
    BY <1>11, OutcomeGoesOn DEF FindUsers, TypeOK
  <2>2. pc'[w] = "verify" => Ahead(w)' < Ahead(w) /\ Fits(w)'
    BY <1>1, <2>1 DEF Ahead, Fits
  <2>3. pc'[w] = "delete" => Ahead(w)' < Ahead(w) /\ Fits(w)'
    BY <1>1, <1>2, <2>1 DEF Ahead, Fits
  <2>4. QED
    BY <1>4, <2>1, <2>2, <2>3
<1>12. CASE DeleteUser(w) \/ DeletePrints(w)
  <2>1. pc[w] = "delete" /\ Deletion(w) /\ UNCHANGED job
    BY <1>12 DEF DeleteUser, DeletePrints, Placed
  <2>2. PICK p \in left[w] :
          /\ left' = [left EXCEPT ![w] = @ \ {p}]
          /\ \/ pc'[w] = IF left[w] = {p} THEN "verify" ELSE "delete"
             \/ pc'[w] = "release"
    <3>1. CASE DeleteUser(w)
      BY <3>1, OutcomeGoesOn DEF DeleteUser
    <3>2. CASE DeletePrints(w)
      BY <3>2 DEF DeletePrints, TypeOK
    <3>3. QED
      BY <1>12, <3>1, <3>2
  <2>3. left'[w] = left[w] \ {p}
    BY <2>2 DEF TypeOK
  <2>4. Cardinality(left'[w]) = Cardinality(left[w]) - 1
    <3>1. IsFiniteSet(left[w])
      BY ListsAreShort DEF TypeOK
    <3>2. QED
      BY <2>2, <2>3, <3>1, FS_RemoveElement
  <2>5. pc'[w] = "verify" => Ahead(w)' < Ahead(w) /\ Fits(w)'
    <3>1. Cardinality(left[w]) >= 1
      BY <1>2, <2>4
    <3>2. job'[w].op # "fetch"
      BY <2>1 DEF Deletion
    <3>3. QED
      BY <1>2, <2>1, <3>1, <3>2 DEF Ahead, Fits
  <2>6. pc'[w] = "delete" => Ahead(w)' < Ahead(w) /\ Fits(w)'
    <3>1. pc'[w] = "delete" => left'[w] # {}
      BY <2>2, <2>3
    <3>2. QED
      BY <1>2, <2>1, <2>4, <3>1 DEF Ahead, Fits
  <2>7. QED
    BY <1>4, <2>1, <2>2, <2>5, <2>6
<1>13. CASE FindSource(w)
  <2>1. pc[w] = "read" /\ pc'[w] \in {"templates", "release"}
    BY <1>13, OutcomeGoesOn DEF FindSource
  <2>2. pc'[w] = "templates" => Ahead(w)' < Ahead(w) /\ Fits(w)'
    BY <1>1, <2>1 DEF Ahead, Fits
  <2>3. QED
    BY <1>4, <2>1, <2>2
<1>14. CASE ReadTemplates(w)
  <2>1. pc[w] = "templates" /\ pc'[w] = "connectTarget"
    BY <1>14 DEF ReadTemplates, TypeOK
  <2>2. QED
    BY <2>1 DEF Ahead, Fits
<1>15. CASE ConnectTarget(w)
  <2>1. pc[w] = "connectTarget" /\ pc'[w] \in {"readTarget", "release"}
    BY <1>15, OutcomeGoesOn DEF ConnectTarget, Connect
  <2>2. pc'[w] = "readTarget" => Ahead(w)' < Ahead(w) /\ Fits(w)'
    BY <2>1 DEF Ahead, Fits
  <2>3. QED
    BY <1>4, <2>1, <2>2
<1>16. CASE FindTarget(w)
  <2>1. pc[w] = "readTarget" /\ pc'[w] \in {"write", "release"}
    BY <1>16, OutcomeGoesOn DEF FindTarget
  <2>2. pc'[w] = "write" => Ahead(w)' < Ahead(w) /\ Fits(w)'
    BY <2>1 DEF Ahead, Fits
  <2>3. QED
    BY <1>4, <2>1, <2>2
<1>17. CASE WriteProfile(w) \/ WriteTemplates(w)
  <2>1. /\ Migrates(w) /\ UNCHANGED job
        /\ \/ pc[w] = "write" /\ pc'[w] \in {"verify", "writePrints", "release"}
           \/ pc[w] = "writePrints" /\ pc'[w] \in {"verify", "release"}
    BY <1>17, OutcomeGoesOn
    DEF WriteProfile, WriteTemplates, WriteTarget, Placed, Copied, locals
  <2>2. pc'[w] # "release" => Ahead(w)' < Ahead(w) /\ Fits(w)'
    BY <2>1 DEF Ahead, Fits, Migrates
  <2>3. QED
    BY <1>4, <2>1, <2>2
<1>18. CASE VerifyTarget(w)
  <2>1. pc[w] = "verify" /\ pc'[w] \in {"remove", "release"}
    BY <1>18, OutcomeGoesOn DEF VerifyTarget
  <2>2. pc'[w] = "remove" => Ahead(w)' < Ahead(w) /\ Fits(w)'
    BY <2>1 DEF Ahead, Fits
  <2>3. QED
    BY <1>4, <2>1, <2>2
<1>19. CASE RemoveSource(w)
  <2>1. pc[w] = "remove" /\ pc'[w] = "release"
    BY <1>19, OutcomeGoesOn DEF RemoveSource
  <2>2. QED
    BY <1>4, <2>1
<1>20. QED
  BY <1>5, <1>6, <1>7, <1>8, <1>9, <1>10, <1>11, <1>12, <1>13, <1>14, <1>15,
     <1>16, <1>17, <1>18, <1>19 DEF WorkerStep

(* What the rest of the system does brings a request no further from its   *)
(* end.                                                                    *)
LEMMA OthersDoNotLengthen ==
  ASSUME TypeOK, TypeOK', NEW w \in Worker, \A v \in Worker : Placed(v), Fits(w),
         [Next]_vars, ~WorkerStep(w), ~Start(w)
  PROVE  Ahead(w)' <= Ahead(w) /\ Fits(w)'
<1>1. Ahead(w) \in Nat
  BY AheadIsBounded DEF Longest
<1>2. ASSUME pc'[w] = pc[w], left'[w] = left[w], job'[w] = job[w]
      PROVE  Ahead(w)' <= Ahead(w) /\ Fits(w)'
  <2>1. Ahead(w)' = Ahead(w)
    BY <1>2 DEF Ahead
  <2>2. QED
    BY <1>1, <1>2, <2>1 DEF Fits
<1>3. ASSUME NEW v \in Worker, Start(v) \/ WorkerStep(v)
      PROVE  Ahead(w)' <= Ahead(w) /\ Fits(w)'
  <2>1. Apart(w)
    BY <1>3, OthersApart
  <2>2. QED
    BY <1>2, <2>1 DEF Apart
<1>4. CASE Crash
  <2>1. pc'[w] = "idle"
    BY <1>4 DEF Crash, Forget
  <2>2. Ahead(w)' = 0
    BY <2>1 DEF Ahead
  <2>3. QED
    BY <1>1, <2>1, <2>2 DEF Fits
<1>5. CASE (\E r \in Reader : ReaderPolls(r)) \/ UNCHANGED vars
  BY <1>2, <1>5 DEF ReaderPolls, locals, vars
<1>6. QED
  BY <1>3, <1>4, <1>5 DEF Next

(* The guards of a request under way.                                      *)
LEMMA UnderWay ==
  ASSUME TypeOK, NEW w \in Worker, Placed(w), Fits(w), pc[w] # "idle"
  PROVE  HasNext(w) \/ (pc[w] = "readTarget" /\ ~HasRoom(job[w].target))
<1>1. job[w] # NoJob
  BY DEF Placed
<1>2. pc[w] = "delete" => job[w].printsOnly \in BOOLEAN
  BY <1>1, JobTypes DEF Placed
<1>3. Migrates(w) \/ Deletion(w) \/ job[w].op \in {"create", "fetch"}
  BY <1>1, JobTypes
<1>4. QED
  BY <1>2, <1>3 DEF HasNext, Fits, Placed, TypeOK

(* NobodyWaits without ENABLED, and more: whatever call a request has come *)
(* to, the guard of one of its steps holds (unless no PIN is left, the     *)
(* bound of the model); each of its steps leaves it fewer calls ahead; and *)
(* no failure, crash, ADMS command or other request takes it back.  So a   *)
(* request that is given its steps ends after at most Longest of them.     *)
THEOREM RequestsEnd ==
  Spec =>
    /\ [](\A w \in Worker :
            /\ Ahead(w) \in 0..Longest
            /\ Ahead(w) = 0 <=> pc[w] = "idle"
            /\ pc[w] # "idle" =>
                 HasNext(w) \/ (pc[w] = "readTarget" /\ ~HasRoom(job[w].target)))
    /\ [][\A w \in Worker : /\ WorkerStep(w) => Ahead(w)' < Ahead(w)
                            /\ Ahead(w)' > Ahead(w) => Start(w)]_vars
<1> DEFINE AllFit == \A w \in Worker : Fits(w)
           Bound == \A w \in Worker :
                      /\ Ahead(w) \in 0..Longest
                      /\ Ahead(w) = 0 <=> pc[w] = "idle"
                      /\ pc[w] # "idle" =>
                           HasNext(w) \/ (pc[w] = "readTarget" /\ ~HasRoom(job[w].target))
           Shrink == \A w \in Worker : /\ WorkerStep(w) => Ahead(w)' < Ahead(w)
                                       /\ Ahead(w)' > Ahead(w) => Start(w)
<1>1. Init => AllFit
  BY DEF Init, Fits
<1>2. IInv /\ IInv' /\ AllFit /\ [Next]_vars => Shrink /\ AllFit'
  <2> SUFFICES ASSUME IInv, IInv', \A w \in Worker : Fits(w), [Next]_vars,
                      NEW w \in Worker
               PROVE  /\ WorkerStep(w) => Ahead(w)' < Ahead(w)
                      /\ Ahead(w)' > Ahead(w) => Start(w)
                      /\ Fits(w)'
    OBVIOUS
  <2>1. TypeOK /\ TypeOK' /\ \A v \in Worker : Placed(v)
    BY DEF IInv, Working
  <2>2. Ahead(w) \in Nat /\ Ahead(w)' \in Nat
    BY <2>1, AheadIsBounded, AheadIsBoundedNext
  <2>3. CASE WorkerStep(w)
    BY <2>1, <2>2, <2>3, StepShortens
  <2>4. CASE Start(w)
    <3>1. pc[w] = "idle" /\ pc'[w] = "connect"
      BY <2>1, <2>4 DEF Start, TypeOK
    <3>2. ~WorkerStep(w)
      BY <2>1, <3>1, Ends DEF WorkerStep, Ended, Placed, Release, ReadTemplates,
                              DeletePrints
    <3>3. QED
      BY <2>4, <3>1, <3>2 DEF Fits
  <2>5. CASE ~WorkerStep(w) /\ ~Start(w)
    <3>1. Ahead(w)' <= Ahead(w) /\ Fits(w)'
      BY <2>1, <2>5, OthersDoNotLengthen
    <3>2. QED
      BY <2>2, <2>5, <3>1
  <2>6. QED
    BY <2>3, <2>4, <2>5
<1>3. IInv /\ AllFit => Bound
  BY AheadIsBounded, UnderWay DEF IInv, Working
<1> HIDE DEF AllFit, Bound, Shrink
<1>4. Spec => []Bound
  BY <1>1, <1>2, <1>3, Inductive, PTL DEF Spec
<1>5. Spec => [][Shrink]_vars
  BY <1>1, <1>2, Inductive, PTL DEF Spec
<1>6. QED
  BY <1>4, <1>5, PTL DEF Bound, Shrink

-----------------------------------------------------------------------------
(* What a move has verified, and who writes                                *)

(* The half of the docstring that is true ("verifies employee +            *)
(* fingerprints on target device", line 10): when a move is about to       *)
(* delete the source profile, the person stored there is stored on the     *)
(* target, under the PIN that was verified, unless excused.  The other     *)
(* half is what MoveVerifiesPrints refutes.                                *)
THEOREM MovesVerifyTheEmployee ==
  Spec => [](\A w \in Worker : pc[w] = "remove" =>
               LET j == job[w]
                   old == users[j.reader][j.pin]
               IN  old # NoUser =>
                     \/ dest[w] \in Stored(j.target) /\ Is(j.target, dest[w], old.who)
                     \/ Excused(old.who))
<1> DEFINE Verified ==
      \A w \in Worker : pc[w] = "remove" =>
        LET j == job[w]
            old == users[j.reader][j.pin]
        IN  old # NoUser =>
              \/ dest[w] \in Stored(j.target) /\ Is(j.target, dest[w], old.who)
              \/ Excused(old.who)
<1>1. IInv => Verified
  <2> SUFFICES ASSUME IInv, NEW w \in Worker, pc[w] = "remove",
                      users[job[w].reader][job[w].pin] # NoUser,
                      ~Excused(users[job[w].reader][job[w].pin].who)
               PROVE  /\ dest[w] \in Stored(job[w].target)
                      /\ Is(job[w].target, dest[w],
                            users[job[w].reader][job[w].pin].who)
    OBVIOUS
  <2>1. Placed(w) /\ Source(w) /\ Target(w)
    BY DEF IInv, Working, Moving
  <2>2. Migrates(w) /\ dest[w] \in Pin
    BY <2>1 DEF Placed, Copied, Chosen
  <2>3. Is(job[w].reader, job[w].pin, seen[w].who)
    BY <2>1, <2>2 DEF Source, Copied
  <2>4. Is(job[w].target, dest[w], seen[w].who)
    BY <2>1, <2>2, <2>3 DEF Target, Chosen, Is
  <2>5. QED
    BY <2>2, <2>3, <2>4 DEF Is, Stored
<1> HIDE DEF Verified
<1>2. Spec => []Verified
  BY <1>1, Inductive, PTL
<1>3. QED
  BY <1>2, PTL DEF Verified

(* One connection per reader, and every write through it                   *)
(* (gunicorn_config.py:6-10): what a reader stores changes only in a step  *)
(* of the request that holds its connection, or when the reader carries    *)
(* out a command it polled; nothing is written by a request that was       *)
(* refused, that has released, or that another one overlaps there.         *)
THEOREM SessionsAreExclusive ==
  Spec => [][\A r \in Reader : users'[r] # users[r] =>
               \/ \E w \in Worker : conn[r] = w /\ WorkerStep(w)
               \/ ReaderPolls(r)]_vars
<1> DEFINE Exclusive ==
      \A r \in Reader : users'[r] # users[r] =>
        \/ \E w \in Worker : conn[r] = w /\ WorkerStep(w)
        \/ ReaderPolls(r)
<1>1. IInv /\ [Next]_vars => Exclusive
  <2> SUFFICES ASSUME IInv, [Next]_vars, NEW r \in Reader, users'[r] # users[r]
               PROVE  \/ \E w \in Worker : conn[r] = w /\ WorkerStep(w)
                      \/ ReaderPolls(r)
    OBVIOUS
  <2>1. TypeOK /\ \A w \in Worker : Placed(w)
    BY DEF IInv, Working
  <2>2. CASE \E w \in Worker : Start(w) \/ WorkerStep(w)
    <3>1. PICK w \in Worker : Start(w) \/ WorkerStep(w)
      BY <2>2
    <3>2. conn[r] = w
      BY <2>1, <3>1, OwnReaders
    <3>3. ~Start(w)
      BY DEF Start, readerVars
    <3>4. QED
      BY <3>1, <3>2, <3>3
  <2>3. ASSUME NEW q \in Reader, ReaderPolls(q)
        PROVE  ReaderPolls(r)
    <3>1. users' = [users EXCEPT ![q] = users'[q]]
      BY <2>1, <2>3 DEF ReaderPolls, Poll, Execute, Put, Drop, Unprint, TypeOK,
                        ReadersTypeOK
    <3>2. QED
      BY <2>1, <2>3, <3>1 DEF TypeOK, ReadersTypeOK
  <2>4. CASE Crash \/ UNCHANGED vars
    BY <2>4 DEF Crash, vars, readerVars
  <2>5. QED
    BY <2>2, <2>3, <2>4 DEF Next
<1> HIDE DEF Exclusive
<1>2. Spec => [][Exclusive]_vars
  BY <1>1, Inductive, PTL DEF Spec
<1>3. QED
  BY <1>2, PTL DEF Exclusive
=============================================================================
