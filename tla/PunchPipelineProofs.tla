------------------------ MODULE PunchPipelineProofs ------------------------
(***************************************************************************)
(* Theorems about PunchPipeline, for any set of punches, any assignment of *)
(* locks to threads, any refused rows and any number of faults.            *)
(***************************************************************************)
EXTENDS PunchPipeline, TLAPS

DrainPC == {"read", "unlink"}
WritePC == {"restoreWrite", "addReqWrite"}
HoldPC == {"unlink", "saveHeld", "restore", "restoreWrite"}
FreshPC == {"idle", "wait", "drain", "ended"}

(* Where the threads are and what they have open: true in every state.     *)
Placed ==
  /\ \A t \in Thread :
       /\ t \in inside <=> pc[t] \in DrainPC \cup WritePC
       /\ fd[t] = "closed" <=> pc[t] \notin WritePC
       /\ fd[t] \in Name => fd[t] \in exists
       /\ batch[t] # {} => pc[t] \in HoldPC
  /\ torn \subseteq exists
  /\ \A n \in Name : n \notin exists => content[n] = {}

(* What keeps the punches safe until a mishap: whoever drains is alone in  *)
(* the spool, has in memory what the staging file holds before unlinking   *)
(* it, appends go to the file that has the spool's name, and a cut line is *)
(* only there until the next drain.                                        *)
Orderly ==
  /\ \A t \in Thread :
       /\ pc[t] \in DrainPC => inside = {t}
       /\ pc[t] = "unlink" => Parsed("draining") \subseteq batch[t]
       /\ pc[t] \in WritePC => fd[t] = "spool"
       /\ "spool" \in torn => pc[t] \in FreshPC
  /\ "draining" \in exists => \E t \in Thread : pc[t] \in DrainPC

IInv == TypeOK /\ Placed /\ (mishap = {} => Orderly /\ NothingLost)

-----------------------------------------------------------------------------
(* Every variable keeps its type (all of the handlers in push_ingest.py,   *)
(* supervisor.py and spool.py).                                            *)
LEMMA TypeStep == TypeOK /\ [Next]_vars => TypeOK'
<1> SUFFICES ASSUME TypeOK, [Next]_vars
             PROVE  TypeOK'
  OBVIOUS
<1> USE SpoolAssumption, PipelineAssumption DEF TypeOK, SpoolTypeOK, PC, Mishap, Name
<1>1. ASSUME NEW P \in SUBSET Punch, Receive(P)
      PROVE  TypeOK'
  BY <1>1 DEF Receive, Go, spoolVars
<1>2. ASSUME NEW t \in Thread, DrainNothing(t)
      PROVE  TypeOK'
  BY <1>2 DEF DrainNothing, Go, AfterHeld, FindNothing, spoolVars
<1>3. ASSUME NEW t \in Thread, DrainMove(t)
      PROVE  TypeOK'
  BY <1>3 DEF DrainMove, Go, MoveAside, Acquire, NoteOverlap
<1>4. ASSUME NEW t \in Thread, DrainRead(t)
      PROVE  TypeOK'
  BY <1>4 DEF DrainRead, Go, Parsed, spoolVars
<1>5. ASSUME NEW t \in Thread, DrainUnlink(t)
      PROVE  TypeOK'
  BY <1>5 DEF DrainUnlink, Go, AfterHeld, UnlinkStaging, Release
<1>disk. ASSUME NEW t \in Thread,
                \/ DrainMoveFails(t)
                \/ DrainReadFails(t)
                \/ DrainUnlinkFails(t)
         PROVE  TypeOK'
  <2>1. CASE DrainMoveFails(t)
    BY <2>1 DEF DrainMoveFails, Go, AfterHeld, MoveFails, Spend, FaultKind, spoolVars
  <2>2. CASE DrainReadFails(t)
    BY <2>2 DEF DrainReadFails, Go, Spend, FaultKind, spoolVars
  <2>3. CASE DrainUnlinkFails(t)
    BY <2>3 DEF DrainUnlinkFails, Go, UnlinkFails, Release, Spend, FaultKind
  <2>4. QED
    BY <1>disk, <2>1, <2>2, <2>3
<1>6. ASSUME NEW t \in Thread, SaveHeldOk(t)
      PROVE  TypeOK'
  BY <1>6 DEF SaveHeldOk, Go, AfterHeld, Commits, spoolVars
<1>7. ASSUME NEW t \in Thread, SaveHeldUnavailable(t)
      PROVE  TypeOK'
  BY <1>7 DEF SaveHeldUnavailable, Go, Unavailable, Spend, FaultKind, spoolVars
<1>8. ASSUME NEW t \in Thread, RestoreOpen(t)
      PROVE  TypeOK'
  BY <1>8 DEF RestoreOpen, Go, OpenForAppend, Acquire, NoteOverlap
<1>9. ASSUME NEW t \in Thread, RestoreWrite(t)
      PROVE  TypeOK'
  BY <1>9 DEF RestoreWrite, Go, AfterRestore, WriteAll, AppendLines, Landed,
              CloseAndRelease, Release
<1>10. ASSUME NEW t \in Thread, RestoreFails(t)
      PROVE  TypeOK'
  BY <1>10 DEF RestoreFails, Go, AfterRestore, WriteFails, WriteInPart, AppendLines, Landed,
              CloseAndRelease, Release, Spend, FaultKind
<1>11. CASE FlushUnexpected
  BY <1>11 DEF FlushUnexpected, Go, Unexpected, Spend, FaultKind, spoolVars
<1>12. CASE IngestUnexpected
  BY <1>12 DEF IngestUnexpected, Go, Unexpected, Spend, FaultKind, spoolVars
<1>13. CASE SaveReqOk
  BY <1>13 DEF SaveReqOk, Go, Commits, Answer, spoolVars
<1>14. CASE SaveReqFails
  BY <1>14 DEF SaveReqFails, Go, Unavailable, Unexpected, Spend, FaultKind, spoolVars
<1>15. CASE AddOpen
  BY <1>15 DEF AddOpen, Go, OpenForAppend, Acquire, NoteOverlap
<1>16. CASE AddWrite
  BY <1>16 DEF AddWrite, Go, WriteAll, AppendLines, Landed, CloseAndRelease,
               Release, Answer
<1>17. CASE AddFails
  BY <1>17 DEF AddFails, Answer, Go, WriteFails, WriteInPart, AppendLines, Landed, CloseAndRelease,
               Release, Spend, FaultKind
<1>18. CASE LmsDown \/ LmsUp
  <2>1. CASE LmsDown
    <3>1. up' \in BOOLEAN
      BY <2>1, Zenon DEF LmsDown
    <3>2. QED
      BY <2>1, <3>1 DEF LmsDown, Spend, FaultKind, spoolVars
  <2>2. CASE LmsUp
    BY <2>2 DEF LmsUp, spoolVars
  <2>3. QED
    BY <1>18, <2>1, <2>2
<1>19. CASE Crash
  <2>1. content' \in [Name -> SUBSET (Punch \cup {Corrupt})] /\ torn' \subseteq Name
    <3>1. CASE UNCHANGED <<content, torn>>
      BY <3>1
    <3>2. ASSUME NEW t \in Thread, WriteInPart(t, Writing(t))
          PROVE  content' \in [Name -> SUBSET (Punch \cup {Corrupt})] /\ torn' \subseteq Name
      <4>1. Writing(t) \subseteq Punch
        BY DEF Writing
      <4>2. QED
        BY <3>2, <4>1 DEF WriteInPart, AppendLines, Landed
    <3>3. QED
      BY <1>19, <3>1, <3>2 DEF Crash
  <2>2. stopping' \in BOOLEAN
    BY <1>19, Zenon DEF Crash, Reboot
  <2>3. QED
    BY <1>19, <2>1, <2>2 DEF Crash, Reboot, SpoolReboot, Boot, Spend, FaultKind
<1>20. CASE Stop \/ FlushEnds
  <2>1. CASE Stop
    BY <2>1 DEF Stop, Spend, FaultKind, spoolVars
  <2>2. CASE FlushEnds
    BY <2>2 DEF FlushEnds, Go, spoolVars
  <2>3. QED
    BY <1>20, <2>1, <2>2
<1>21. CASE Exit
  BY <1>21 DEF Exit, Reboot, SpoolReboot, Boot
<1>22. CASE Tick
  BY <1>22 DEF Tick, Go, spoolVars
<1>23. CASE UNCHANGED vars
  BY <1>23 DEF vars, pipeVars
<1>24. QED
  BY <1>disk, <1>1, <1>2, <1>3, <1>4, <1>5, <1>6, <1>7, <1>8, <1>9, <1>10,
     <1>11, <1>12, <1>13, <1>14, <1>15, <1>16, <1>17, <1>18, <1>19, <1>20, <1>21,
     <1>22, <1>23 DEF Next, PushStep, FlushStep, ThreadStep

-----------------------------------------------------------------------------
(* The lock, the handle and the batch of a thread follow its step.         *)
LEMMA PlacedStep == TypeOK /\ Placed /\ [Next]_vars => Placed'
<1> SUFFICES ASSUME TypeOK, Placed, [Next]_vars
             PROVE  Placed'
  OBVIOUS
<1> USE PipelineAssumption
    DEF TypeOK, SpoolTypeOK, Name, Placed, DrainPC, WritePC, HoldPC
<1>1. ASSUME NEW t \in Thread, DrainNothing(t)
      PROVE  Placed'
  BY <1>1 DEF DrainNothing, Go, AfterHeld, FindNothing, spoolVars
<1>2. ASSUME NEW t \in Thread, DrainMove(t)
      PROVE  Placed'
  BY <1>2 DEF DrainMove, Go, MoveAside, Acquire, NoteOverlap
<1>3. ASSUME NEW t \in Thread, DrainRead(t)
      PROVE  Placed'
  BY <1>3 DEF DrainRead, Go, Parsed, spoolVars
<1>4. ASSUME NEW t \in Thread, DrainUnlink(t)
      PROVE  Placed'
  BY <1>4 DEF DrainUnlink, Go, AfterHeld, UnlinkStaging, Release
<1>disk. ASSUME NEW t \in Thread,
                \/ DrainMoveFails(t)
                \/ DrainReadFails(t)
                \/ DrainUnlinkFails(t)
         PROVE  Placed'
  <2>1. CASE DrainMoveFails(t)
    BY <2>1 DEF DrainMoveFails, Go, AfterHeld, MoveFails, Spend, spoolVars
  <2>2. CASE DrainReadFails(t)
    BY <2>2 DEF DrainReadFails, Go, Spend, spoolVars
  <2>3. CASE DrainUnlinkFails(t)
    BY <2>3 DEF DrainUnlinkFails, Go, UnlinkFails, Release, Spend
  <2>4. QED
    BY <1>disk, <2>1, <2>2, <2>3
<1>5. ASSUME NEW t \in Thread, SaveHeldOk(t)
      PROVE  Placed'
  BY <1>5 DEF SaveHeldOk, Go, AfterHeld, Commits, spoolVars
<1>6. ASSUME NEW t \in Thread, SaveHeldUnavailable(t)
      PROVE  Placed'
  BY <1>6 DEF SaveHeldUnavailable, Go, Unavailable, spoolVars
<1>7. ASSUME NEW t \in Thread, RestoreOpen(t)
      PROVE  Placed'
  BY <1>7 DEF RestoreOpen, Go, OpenForAppend, Acquire, NoteOverlap
<1>8. ASSUME NEW t \in Thread, RestoreWrite(t)
      PROVE  Placed'
  BY <1>8 DEF RestoreWrite, Go, AfterRestore, WriteAll, AppendLines, Landed,
              CloseAndRelease, Release
<1>9. ASSUME NEW t \in Thread, RestoreFails(t)
      PROVE  Placed'
  BY <1>9 DEF RestoreFails, Go, AfterRestore, WriteFails, WriteInPart, AppendLines,
              Landed, CloseAndRelease, Release
<1>10. CASE FlushUnexpected
  BY <1>10 DEF FlushUnexpected, Go, Unexpected, spoolVars
<1>11. CASE IngestUnexpected
  BY <1>11 DEF IngestUnexpected, Go, Unexpected, spoolVars
<1>12. CASE SaveReqOk
  BY <1>12 DEF SaveReqOk, Go, Commits, Answer, spoolVars
<1>13. CASE SaveReqFails
  BY <1>13 DEF SaveReqFails, Go, Unavailable, Unexpected, spoolVars
<1>14. CASE AddOpen
  BY <1>14 DEF AddOpen, Go, OpenForAppend, Acquire, NoteOverlap
<1>15. CASE AddWrite
  BY <1>15 DEF AddWrite, Go, WriteAll, AppendLines, Landed, CloseAndRelease,
              Release, Answer
<1>16. CASE AddFails
  BY <1>16 DEF AddFails, Go, WriteFails, WriteInPart, AppendLines, Landed,
              CloseAndRelease, Release
<1>17. CASE LmsDown
  BY <1>17 DEF LmsDown, spoolVars
<1>18. CASE LmsUp
  BY <1>18 DEF LmsUp, spoolVars
<1>19. CASE Crash
  BY <1>19 DEF Crash, Reboot, SpoolReboot, Boot, WriteInPart, AppendLines, Landed
<1>20. CASE Stop
  BY <1>20 DEF Stop, spoolVars
<1>21. CASE FlushEnds
  BY <1>21 DEF FlushEnds, Go, spoolVars
<1>22. CASE Exit
  BY <1>22 DEF Exit, Reboot, SpoolReboot, Boot
<1>23. CASE Tick
  BY <1>23 DEF Tick, Go, spoolVars
<1>24. ASSUME NEW P \in SUBSET Punch, Receive(P)
      PROVE  Placed'
  BY <1>24 DEF Receive, Go, spoolVars
<1>25. CASE UNCHANGED vars
  BY <1>25 DEF vars, pipeVars
<1>26. QED
  BY <1>disk, <1>1, <1>2, <1>3, <1>4, <1>5, <1>6, <1>7, <1>8, <1>9, <1>10,
     <1>11, <1>12, <1>13, <1>14, <1>15, <1>16, <1>17, <1>18, <1>19, <1>20, <1>21,
     <1>22, <1>23, <1>24, <1>25 DEF Next, PushStep, FlushStep, ThreadStep

(* No step breaks the order of the spool, unless it is a mishap.           *)
LEMMA OrderlyStep ==
  ASSUME TypeOK, Placed, Orderly, [Next]_vars, mishap' = {}
  PROVE  Orderly'
<1> USE PipelineAssumption
    DEF TypeOK, SpoolTypeOK, Name, Placed, Orderly, DrainPC, WritePC, HoldPC, FreshPC,
        Parsed
<1>1. ASSUME NEW t \in Thread, DrainNothing(t)
      PROVE  Orderly'
  BY <1>1 DEF DrainNothing, Go, AfterHeld, FindNothing, spoolVars
<1>2. ASSUME NEW t \in Thread, DrainMove(t)
      PROVE  Orderly'
  BY <1>2 DEF DrainMove, Go, MoveAside, Acquire, NoteOverlap
<1>3. ASSUME NEW t \in Thread, DrainRead(t)
      PROVE  Orderly'
  BY <1>3 DEF DrainRead, Go, Parsed, spoolVars
<1>4. ASSUME NEW t \in Thread, DrainUnlink(t)
      PROVE  Orderly'
  BY <1>4 DEF DrainUnlink, Go, AfterHeld, UnlinkStaging, Release
<1>disk. ASSUME NEW t \in Thread,
                \/ DrainMoveFails(t)
                \/ DrainReadFails(t)
                \/ DrainUnlinkFails(t)
         PROVE  FALSE
  BY <1>disk DEF DrainMoveFails, DrainReadFails, DrainUnlinkFails
<1>5. ASSUME NEW t \in Thread, SaveHeldOk(t)
      PROVE  Orderly'
  BY <1>5 DEF SaveHeldOk, Go, AfterHeld, Commits, spoolVars
<1>6. ASSUME NEW t \in Thread, SaveHeldUnavailable(t)
      PROVE  Orderly'
  BY <1>6 DEF SaveHeldUnavailable, Go, Unavailable, spoolVars
<1>7. ASSUME NEW t \in Thread, RestoreOpen(t)
      PROVE  Orderly'
  BY <1>7 DEF RestoreOpen, Go, OpenForAppend, Acquire, NoteOverlap, Draining
<1>8. ASSUME NEW t \in Thread, RestoreWrite(t)
      PROVE  Orderly'
  BY <1>8 DEF RestoreWrite, Go, AfterRestore, WriteAll, AppendLines, Landed,
              CloseAndRelease, Release
<1>9. ASSUME NEW t \in Thread, RestoreFails(t)
      PROVE  Orderly'
  BY <1>9 DEF RestoreFails, Go, AfterRestore, WriteFails, WriteInPart, AppendLines,
              Landed, CloseAndRelease, Release
<1>10. CASE FlushUnexpected
  BY <1>10 DEF FlushUnexpected, Go, Unexpected, spoolVars
<1>11. CASE IngestUnexpected
  BY <1>11 DEF IngestUnexpected, Go, Unexpected, spoolVars
<1>12. CASE SaveReqOk
  BY <1>12 DEF SaveReqOk, Go, Commits, Answer, spoolVars
<1>13. CASE SaveReqFails
  BY <1>13 DEF SaveReqFails, Go, Unavailable, Unexpected, spoolVars
<1>14. CASE AddOpen
  BY <1>14 DEF AddOpen, Go, OpenForAppend, Acquire, NoteOverlap, Draining
<1>15. CASE AddWrite
  BY <1>15 DEF AddWrite, Go, WriteAll, AppendLines, Landed, CloseAndRelease,
              Release, Answer
<1>16. CASE AddFails
  BY <1>16 DEF AddFails, Go, WriteFails, WriteInPart, AppendLines, Landed,
              CloseAndRelease, Release
<1>17. CASE LmsDown
  BY <1>17 DEF LmsDown, spoolVars
<1>18. CASE LmsUp
  BY <1>18 DEF LmsUp, spoolVars
<1>19. CASE Crash
  BY <1>19 DEF Crash, Reboot, SpoolReboot, Boot, WriteInPart, AppendLines, Landed
<1>20. CASE Stop
  BY <1>20 DEF Stop, spoolVars
<1>21. CASE FlushEnds
  BY <1>21 DEF FlushEnds, Go, spoolVars
<1>22. CASE Exit
  BY <1>22 DEF Exit, Reboot, SpoolReboot, Boot
<1>23. CASE Tick
  BY <1>23 DEF Tick, Go, spoolVars
<1>24. ASSUME NEW P \in SUBSET Punch, Receive(P)
      PROVE  Orderly'
  BY <1>24 DEF Receive, Go, spoolVars
<1>25. CASE UNCHANGED vars
  BY <1>25 DEF vars, pipeVars
<1>26. QED
  BY <1>disk, <1>1, <1>2, <1>3, <1>4, <1>5, <1>6, <1>7, <1>8, <1>9, <1>10,
     <1>11, <1>12, <1>13, <1>14, <1>15, <1>16, <1>17, <1>18, <1>19, <1>20, <1>21,
     <1>22, <1>23, <1>24, <1>25 DEF Next, PushStep, FlushStep, ThreadStep

(* In good order an append adds exactly its lines to the spool.            *)
LEMMA AppendToSpool ==
  ASSUME TypeOK, Orderly, NEW t \in Thread, pc[t] \in WritePC,
         NEW lines, lines \subseteq Punch,
         NEW tail, tail \subseteq {Corrupt}, AppendLines(t, lines, tail)
  PROVE  /\ Parsed("spool")' = Parsed("spool") \cup lines
         /\ Parsed("draining")' = Parsed("draining")
<1>1. fd[t] = "spool" /\ "spool" \notin torn
  BY DEF Orderly, WritePC, FreshPC
<1>2. \E w \in Landed("spool", lines) :
        content' = [content EXCEPT !["spool"] = @ \cup w \cup tail]
  BY <1>1 DEF AppendLines, Name
<1>3. Landed("spool", lines) = {lines}
  BY <1>1 DEF Landed
<1>4. QED
  BY <1>2, <1>3, SpoolAssumption DEF TypeOK, SpoolTypeOK, Name, Parsed

(* A step that is no mishap takes punches into custody, stores punches or  *)
(* answers for them, and drops none.                                       *)
KeptBy(P) ==
  /\ Custody' = Custody \cup P
  /\ db' \in {db, db \cup P}
  /\ acked' \in {acked, acked \cup P}

(* restore() puts back what was drained; add() keeps the request.          *)
LEMMA RestoreWriteKeeps ==
  ASSUME TypeOK, Placed, Orderly, NEW t \in Thread, RestoreWrite(t)
  PROVE  KeptBy({})
<1>1. /\ pc[t] \in WritePC /\ AppendLines(t, batch[t], {})
      /\ batch' = [batch EXCEPT ![t] = {}] /\ UNCHANGED <<db, acked>>
  BY DEF RestoreWrite, WriteAll, Go, WritePC
<1>2. batch[t] \subseteq Punch
  BY DEF TypeOK
<1>3. /\ Parsed("spool")' = Parsed("spool") \cup batch[t]
      /\ Parsed("draining")' = Parsed("draining")
  BY <1>1, <1>2, AppendToSpool DEF AppendLines
<1>4. QED
  BY <1>1, <1>3 DEF TypeOK, Custody, KeptBy

(* ingest answers once every line of the request is in the spool.          *)
LEMMA AddWriteKeeps ==
  ASSUME TypeOK, Placed, Orderly, AddWrite
  PROVE  KeptBy(req)
<1>1. /\ "push" \in Thread /\ pc["push"] \in WritePC /\ AppendLines("push", req, {})
      /\ acked' = acked \cup req /\ UNCHANGED <<db, batch>>
  BY PipelineAssumption DEF AddWrite, WriteAll, Go, WritePC, Answer
<1>2. /\ Parsed("spool")' = Parsed("spool") \cup req
      /\ Parsed("draining")' = Parsed("draining")
  BY <1>1, AppendToSpool DEF TypeOK
<1>3. QED
  BY <1>1, <1>2 DEF TypeOK, Custody, KeptBy

(* A write that fails or is cut keeps the lines that reached the file.     *)
LEMMA PartKeeps ==
  ASSUME TypeOK, Orderly, NEW t \in Thread, pc[t] \in WritePC,
         NEW lines, lines \subseteq Punch, WriteInPart(t, lines)
  PROVE  \E P \in SUBSET Punch :
           /\ Parsed("spool")' = Parsed("spool") \cup P
           /\ Parsed("draining")' = Parsed("draining")
<1>1. PICK sent \in SUBSET lines, tail \in {{}, {Corrupt}} : AppendLines(t, sent, tail)
  BY DEF WriteInPart
<1>2. sent \subseteq Punch /\ tail \subseteq {Corrupt}
  OBVIOUS
<1>3. QED
  BY <1>1, <1>2, AppendToSpool

(* A kill without a mishap finds nothing drained and in nobody's file.     *)
LEMMA CrashKeeps ==
  ASSUME TypeOK, Placed, Orderly, Crash, mishap' = {}
  PROVE  \E P \in SUBSET Punch : KeptBy(P)
<1>1. /\ \A t \in Thread : batch[t] = {} /\ batch'[t] = {}
      /\ UNCHANGED <<db, acked>>
  BY DEF Crash, Reboot
<1>2. \E P \in SUBSET Punch : /\ Parsed("spool")' = Parsed("spool") \cup P
                             /\ Parsed("draining")' = Parsed("draining")
  <2>1. CASE content' = content
    BY <2>1 DEF Parsed
  <2>2. ASSUME NEW t \in Thread, WriteInPart(t, Writing(t)), content' # content
        PROVE  \E P \in SUBSET Punch : /\ Parsed("spool")' = Parsed("spool") \cup P
                                       /\ Parsed("draining")' = Parsed("draining")
    <3>1. pc[t] \in WritePC
      BY <2>2 DEF WriteInPart, AppendLines, Placed, Name
    <3>2. Writing(t) \subseteq Punch
      BY DEF Writing, TypeOK
    <3>3. QED
      BY <2>2, <3>1, <3>2, PartKeeps
  <2>3. QED
    BY <2>1, <2>2 DEF Crash
<1>3. QED
  BY <1>1, <1>2 DEF Custody, KeptBy

(* No step loses an answered punch without leaving a mishap behind.        *)
LEMMA CustodyStep ==
  ASSUME TypeOK, Placed, Orderly, [Next]_vars, mishap' = {}
  PROVE  \E P \in SUBSET Punch : KeptBy(P)
<1> USE SpoolAssumption, PipelineAssumption
    DEF TypeOK, SpoolTypeOK, Name, Placed, Orderly, DrainPC, WritePC, HoldPC, FreshPC,
        Custody, Parsed, KeptBy
<1>1. ASSUME NEW t \in Thread, DrainNothing(t)
      PROVE  KeptBy({})
  BY <1>1 DEF DrainNothing, Go, AfterHeld, FindNothing, spoolVars
<1>2. ASSUME NEW t \in Thread, DrainMove(t)
      PROVE  KeptBy({})
  BY <1>2 DEF DrainMove, Go, MoveAside, Acquire, NoteOverlap
<1>3. ASSUME NEW t \in Thread, DrainRead(t)
      PROVE  KeptBy({})
  BY <1>3 DEF DrainRead, Go, Parsed, spoolVars
<1>4. ASSUME NEW t \in Thread, DrainUnlink(t)
      PROVE  KeptBy({})
  BY <1>4 DEF DrainUnlink, Go, AfterHeld, UnlinkStaging, Release
<1>disk. ASSUME NEW t \in Thread,
                \/ DrainMoveFails(t)
                \/ DrainReadFails(t)
                \/ DrainUnlinkFails(t)
         PROVE  FALSE
  BY <1>disk DEF DrainMoveFails, DrainReadFails, DrainUnlinkFails
<1>5. ASSUME NEW t \in Thread, SaveHeldOk(t)
      PROVE  KeptBy(batch[t])
  BY <1>5 DEF SaveHeldOk, Go, AfterHeld, Commits, spoolVars
<1>6. ASSUME NEW t \in Thread, SaveHeldUnavailable(t)
      PROVE  KeptBy(batch[t])
  BY <1>6 DEF SaveHeldUnavailable, Go, Unavailable, spoolVars
<1>7. ASSUME NEW t \in Thread, RestoreOpen(t)
      PROVE  KeptBy({})
  BY <1>7 DEF RestoreOpen, Go, OpenForAppend, Acquire, NoteOverlap
<1>8. ASSUME NEW t \in Thread, RestoreWrite(t)
      PROVE  KeptBy({})
  BY <1>8, RestoreWriteKeeps
<1>9. ASSUME NEW t \in Thread, RestoreFails(t)
      PROVE  FALSE
  BY <1>9 DEF RestoreFails
<1>10. ASSUME FlushUnexpected
      PROVE  \E P \in SUBSET Punch : KeptBy(P)
  <2>1. KeptBy({}) \/ KeptBy(batch["flush"])
    BY <1>10 DEF FlushUnexpected, Go, Unexpected, spoolVars
  <2>2. {} \in SUBSET Punch /\ batch["flush"] \in SUBSET Punch
    OBVIOUS
  <2>3. QED
    BY <2>1, <2>2
<1>11. ASSUME IngestUnexpected
      PROVE  FALSE
  BY <1>11 DEF IngestUnexpected
<1>12. ASSUME SaveReqOk
      PROVE  KeptBy(req)
  BY <1>12 DEF SaveReqOk, Go, Commits, Answer, spoolVars
<1>13. ASSUME SaveReqFails
      PROVE  \E P \in SUBSET Punch : KeptBy(P)
  <2>1. UNCHANGED <<content, batch, acked>> /\ (db' = db \/ db' = db \cup req)
    BY <1>13 DEF SaveReqFails, Unavailable, Unexpected, spoolVars
  <2>2. CASE db' = db
    <3>1. KeptBy({})
      BY <2>1, <2>2
    <3>2. QED
      BY <3>1
  <2>3. CASE db' = db \cup req
    <3>1. KeptBy(req)
      BY <2>1, <2>3
    <3>2. QED
      BY <3>1
  <2>4. QED
    BY <2>1, <2>2, <2>3
<1>14. ASSUME AddOpen
      PROVE  KeptBy({})
  BY <1>14 DEF AddOpen, Go, OpenForAppend, Acquire, NoteOverlap
<1>15. ASSUME AddWrite
      PROVE  KeptBy(req)
  BY <1>15, AddWriteKeeps
<1>16. ASSUME AddFails
      PROVE  FALSE
  BY <1>16 DEF AddFails
<1>17. ASSUME LmsDown
      PROVE  KeptBy({})
  BY <1>17 DEF LmsDown, spoolVars
<1>18. ASSUME LmsUp
      PROVE  KeptBy({})
  BY <1>18 DEF LmsUp, spoolVars
<1>19. ASSUME Crash
      PROVE  \E P \in SUBSET Punch : KeptBy(P)
  BY <1>19, CrashKeeps
<1>20. ASSUME Stop
      PROVE  KeptBy({})
  BY <1>20 DEF Stop, spoolVars
<1>21. ASSUME FlushEnds
      PROVE  KeptBy({})
  BY <1>21 DEF FlushEnds, Go, spoolVars
<1>22. ASSUME Exit
      PROVE  KeptBy({})
  BY <1>22 DEF Exit, Reboot, SpoolReboot, Boot
<1>23. ASSUME Tick
      PROVE  KeptBy({})
  BY <1>23 DEF Tick, Go, spoolVars
<1>24. ASSUME NEW Q \in SUBSET Punch, Receive(Q)
      PROVE  KeptBy({})
  BY <1>24 DEF Receive, Go, spoolVars
<1>25. ASSUME UNCHANGED vars
      PROVE  KeptBy({})
  BY <1>25 DEF vars, pipeVars
<1>26. QED
  BY <1>disk, <1>1, <1>2, <1>3, <1>4, <1>5, <1>6, <1>7, <1>8, <1>9, <1>10,
     <1>11, <1>12, <1>13, <1>14, <1>15, <1>16, <1>17, <1>18, <1>19, <1>20, <1>21,
     <1>22, <1>23, <1>24, <1>25 DEF Next, PushStep, FlushStep, ThreadStep

(* A process that starts on an empty spool satisfies the invariant.        *)
LEMMA InitIInv == Init => IInv
<1> SUFFICES ASSUME Init PROVE IInv
  OBVIOUS
<1> USE SpoolAssumption, PipelineAssumption DEF Init, SpoolInit, Boot, Name
<1>1. TypeOK
  BY DEF TypeOK, SpoolTypeOK, PC, Mishap, FaultKind
<1>2. Placed
  BY DEF Placed, DrainPC, WritePC, HoldPC
<1>3. Orderly
  BY DEF Orderly, DrainPC, WritePC, FreshPC, Parsed
<1>4. NothingLost
  BY DEF NothingLost
<1>5. QED
  BY <1>1, <1>2, <1>3, <1>4 DEF IInv

(* The history of mishaps only grows.                                      *)
LEMMA MishapsStay == [Next]_vars => mishap \subseteq mishap'
<1>1. ASSUME NEW t \in Thread, ThreadStep(t)
      PROVE  mishap \subseteq mishap'
  BY <1>1 DEF ThreadStep, DrainNothing, DrainMove, DrainRead,
  DrainUnlink, DrainMoveFails,
              DrainReadFails, DrainUnlinkFails, SaveHeldOk,
              SaveHeldUnavailable, RestoreOpen, RestoreWrite, RestoreFails, NoteOverlap
<1>2. CASE PushStep
  BY <1>1, <1>2, PipelineAssumption
     DEF PushStep, IngestUnexpected, SaveReqOk, SaveReqFails, AddOpen, AddWrite,
         AddFails, NoteOverlap
<1>3. CASE FlushStep
  BY <1>1, <1>3, PipelineAssumption DEF FlushStep, Tick, FlushUnexpected, FlushEnds
<1>4. CASE Crash \/ Exit
  BY <1>4 DEF Crash, Exit, Reboot
<1>5. CASE UNCHANGED vars
  BY <1>5 DEF vars, pipeVars
<1>6. QED
  BY <1>2, <1>3, <1>4, <1>5 DEF Next, Receive, LmsDown, LmsUp, Stop

(* The invariant is inductive.                                             *)
LEMMA IInvStep == IInv /\ [Next]_vars => IInv'
<1> SUFFICES ASSUME IInv, [Next]_vars PROVE IInv'
  OBVIOUS
<1>1. TypeOK' /\ Placed'
  BY TypeStep, PlacedStep DEF IInv
<1>2. ASSUME mishap' = {}
      PROVE  Orderly' /\ NothingLost'
  <2>1. Orderly /\ NothingLost
    BY <1>2, MishapsStay DEF IInv
  <2>2. Orderly'
    BY <1>2, <2>1, OrderlyStep DEF IInv
  <2>3. PICK P \in SUBSET Punch : KeptBy(P)
    BY <1>2, <2>1, CustodyStep DEF IInv
  <2>4. QED
    BY <2>1, <2>2, <2>3 DEF NothingLost, KeptBy
<1>3. QED
  BY <1>1, <1>2 DEF IInv

(* It holds in every reachable state.                                      *)
LEMMA Invariance == Spec => []IInv
BY InitIInv, IInvStep, PTL DEF Spec

(* The types of the pipeline's state, for every instance.                  *)
THEOREM TypeCorrect == Spec => []TypeOK
<1>1. IInv => TypeOK
  BY DEF IInv
<1>2. QED
  BY Invariance, <1>1, PTL

(* push_ingest.py, supervisor.py and spool.py together: an answered punch  *)
(* is stored or held as long as no mishap has happened.                    *)
THEOREM PunchesAreSafe == Spec => []LossNeedsMishap
<1>1. IInv => LossNeedsMishap
  BY DEF IInv, LossNeedsMishap
<1>2. QED
  BY Invariance, <1>1, PTL

(* ingest and _flush: no thread waits for the LMS with the spool's lock.   *)
THEOREM LockIsFreeAcrossDatabase == Spec => []NoLockAcrossDatabase
<1>1. IInv => NoLockAcrossDatabase
  BY DEF IInv, Placed, NoLockAcrossDatabase, DrainPC, WritePC
<1>2. QED
  BY Invariance, <1>1, PTL

-----------------------------------------------------------------------------
(* With one lock for all threads no two of them are ever in the spool.     *)
Unmixed == OneLock => "overlap" \notin mishap

(* With one lock no thread is in the spool while another one drains it.    *)
LEMMA UnmixedStep == TypeOK /\ Unmixed /\ [Next]_vars => Unmixed'
<1> SUFFICES ASSUME TypeOK, Unmixed, [Next]_vars, OneLock
             PROVE  "overlap" \notin mishap'
  BY DEF Unmixed, OneLock
<1>1. ASSUME NEW t \in Thread, ThreadStep(t)
      PROVE  "overlap" \notin mishap'
  BY <1>1 DEF ThreadStep, DrainNothing, DrainMove, DrainRead,
  DrainUnlink, DrainMoveFails,
              DrainReadFails, DrainUnlinkFails, SaveHeldOk,
              SaveHeldUnavailable, RestoreOpen, RestoreWrite, RestoreFails, NoteOverlap,
              MoveAside, OpenForAppend, Acquire, LockFree, TypeOK, SpoolTypeOK, Unmixed,
              OneLock
<1>2. CASE PushStep
  BY <1>1, <1>2, PipelineAssumption
     DEF PushStep, IngestUnexpected, SaveReqOk, SaveReqFails, AddOpen, AddWrite,
         AddFails, NoteOverlap, OpenForAppend, Acquire, LockFree, TypeOK, SpoolTypeOK,
         Unmixed, OneLock
<1>3. CASE FlushStep
  BY <1>1, <1>3, PipelineAssumption
     DEF FlushStep, Tick, FlushUnexpected, FlushEnds, Unmixed
<1>4. CASE Crash \/ Exit
  BY <1>4 DEF Crash, Exit, Reboot, Unmixed
<1>5. CASE UNCHANGED vars
  BY <1>5 DEF vars, pipeVars, Unmixed
<1>6. QED
  BY <1>2, <1>3, <1>4, <1>5 DEF Next, Receive, LmsDown, LmsUp, Stop, Unmixed

(* spool.py:30-35: with one PunchSpool instance behind both threads the    *)
(* lock rules the overlap out, and no other order of calls loses a punch.  *)
THEOREM SharedSpoolIsSafe == Spec => []SharedSpoolLosesNothing
<1>1. Init => Unmixed
  BY DEF Init, Unmixed
<1>2. Spec => []Unmixed
  BY <1>1, UnmixedStep, TypeCorrect, PTL DEF Spec
<1>3. IInv /\ Unmixed => SharedSpoolLosesNothing
  BY DEF IInv, Unmixed, SharedSpoolLosesNothing
<1>4. QED
  BY <1>2, <1>3, Invariance, PTL

-----------------------------------------------------------------------------
(* The pipeline keeps the promise of PunchDelivery: rows, answers and      *)
(* mishaps stay.                                                           *)
LEMMA HistoryGrows ==
  ASSUME [Next]_vars
  PROVE  db \subseteq db' /\ acked \subseteq acked'
<1>1. ASSUME NEW t \in Thread, ThreadStep(t)
      PROVE  db \subseteq db' /\ acked \subseteq acked'
  BY <1>1 DEF ThreadStep, DrainNothing, DrainMove, DrainRead,
  DrainUnlink, DrainMoveFails,
              DrainReadFails, DrainUnlinkFails, SaveHeldOk,
              SaveHeldUnavailable, RestoreOpen, RestoreWrite, RestoreFails, Commits,
              Unavailable
<1>2. CASE PushStep
  BY <1>1, <1>2, PipelineAssumption
     DEF PushStep, IngestUnexpected, SaveReqOk, SaveReqFails, AddOpen, AddWrite,
         AddFails, Commits, Unavailable, Unexpected, Answer
<1>3. CASE FlushStep
  BY <1>1, <1>3, PipelineAssumption
     DEF FlushStep, Tick, FlushUnexpected, FlushEnds, Unexpected
<1>4. CASE Crash \/ Exit
  BY <1>4 DEF Crash, Exit, Reboot
<1>5. CASE UNCHANGED vars
  BY <1>5 DEF vars, pipeVars
<1>6. QED
  BY <1>2, <1>3, <1>4, <1>5 DEF Next, Receive, LmsDown, LmsUp, Stop

(* A step of the pipeline is a step of PunchDelivery, or none.             *)
LEMMA DeliveryStep ==
  ASSUME IInv, IInv', [Next]_vars
  PROVE  [Delivery!DNext]_(Delivery!dvars)
<1>1. CASE mishap' # {}
  <2>1. db \subseteq db' /\ acked \subseteq acked'
    BY HistoryGrows
  <2>2. Delivery!Break
    BY <1>1, <2>1 DEF Delivery!Break, IInv, TypeOK, SpoolTypeOK, Custody, Parsed, Name
  <2>3. QED
    BY <2>2 DEF Delivery!DNext
<1>2. CASE mishap' = {}
  <2>1. mishap = {} /\ Orderly
    BY <1>2, MishapsStay DEF IInv
  <2>2. PICK P \in SUBSET Punch : KeptBy(P)
    BY <1>2, <2>1, CustodyStep DEF IInv
  <2>3. CASE db' = db
    <3>1. Delivery!Keep(P) /\ Delivery!Answers(P)
      BY <1>2, <2>1, <2>2, <2>3 DEF Delivery!Keep, Delivery!Answers, KeptBy
    <3>2. QED
      BY <3>1 DEF Delivery!DNext
  <2>4. CASE db' = db \cup P
    <3>1. Delivery!Store(P) /\ Delivery!Answers(P)
      BY <1>2, <2>1, <2>2, <2>4 DEF Delivery!Store, Delivery!Answers, KeptBy
    <3>2. QED
      BY <3>1 DEF Delivery!DNext
  <2>5. QED
    BY <2>2, <2>3, <2>4 DEF KeptBy
<1>3. QED
  BY <1>1, <1>2

(* Every behaviour of the two threads, the files and the faults is one of  *)
(* PunchDelivery: held punches leave only by being stored.                 *)
THEOREM PipelineDelivers == Spec => ImplementsDelivery
<1>1. Init => Delivery!DInit
  BY DEF Init, SpoolInit, Delivery!DInit, Custody, Parsed, Name
<1>2. IInv /\ IInv' /\ [Next]_vars => [Delivery!DNext]_(Delivery!dvars)
  BY DeliveryStep
<1>3. QED
  BY <1>1, <1>2, Invariance, PTL DEF Spec, ImplementsDelivery, Delivery!DSpec

(* The promise itself: until it is void, an answered punch is stored or    *)
(* held.                                                                   *)
Honoured == mishap = {} => acked \subseteq (Custody \ db) \cup db

(* Any service whose steps are those of PunchDelivery keeps the promise,   *)
(* however it holds punches: Keep and Store take nothing out of both.      *)
THEOREM DeliveryHonours == Delivery!DSpec => []Honoured
<1>1. Delivery!DInit => Honoured
  BY DEF Delivery!DInit, Honoured
<1>2. Honoured /\ [Delivery!DNext]_(Delivery!dvars) => Honoured'
  <2> SUFFICES ASSUME Honoured, [Delivery!DNext]_(Delivery!dvars), mishap' = {}
               PROVE  acked' \subseteq (Custody \ db)' \cup db'
    BY DEF Honoured
  <2>1. ASSUME NEW P \in SUBSET Punch, Delivery!Answers(P),
               Delivery!Keep(P) \/ Delivery!Store(P)
        PROVE  acked' \subseteq (Custody \ db)' \cup db'
    <3>1. mishap = {} /\ acked \subseteq (Custody \ db) \cup db
      BY <2>1 DEF Delivery!Keep, Delivery!Store, Honoured
    <3> DEFINE held == Custody \ db
    <3>2. acked \subseteq held \cup db
      BY <3>1
    <3>3. \/ held' = held \cup (P \ db) /\ db' = db
          \/ db' = db \cup P /\ held' = held \ P
      BY <2>1 DEF Delivery!Keep, Delivery!Store
    <3>4. acked' = acked \/ acked' = acked \cup P
      BY <2>1 DEF Delivery!Answers
    <3> HIDE DEF held
    <3>5. acked' \subseteq held' \cup db'
      BY <3>2, <3>3, <3>4
    <3>6. QED
      BY <3>5 DEF held
  <2>2. ~Delivery!Break
    BY DEF Delivery!Break
  <2>3. CASE UNCHANGED Delivery!dvars
    BY <2>3 DEF Delivery!dvars, Honoured
  <2>4. QED
    BY <2>1, <2>2, <2>3 DEF Delivery!DNext
<1>3. QED
  BY <1>1, <1>2, PTL DEF Delivery!DSpec

-----------------------------------------------------------------------------
(* The flush thread stays                                                  *)

(* How the flush thread comes to end: only an exception that _run does not *)
(* catch, or the request to stop.                                          *)
FlushStays ==
  /\ pc["flush"] = "dead" => faults["unexpected"] + faults["disk"] > 0
  /\ pc["flush"] = "ended" => stopping

(* An exception out of save_punches that is not LmsUnavailableError has    *)
(* been raised when the thread handles one.                                *)
Caught == err = "unexpected" => faults["unexpected"] > 0

(* Faults are counted, never forgotten.                                    *)
LEMMA FaultsCount ==
  ASSUME TypeOK, [Next]_vars, NEW k \in FaultKind
  PROVE  faults[k] \in Nat /\ faults'[k] \in Nat /\ faults[k] <= faults'[k]
<1>1. faults[k] \in Nat
  BY DEF TypeOK
<1>2. UNCHANGED faults \/ \E j \in FaultKind : Spend(j)
  <2>1. ASSUME NEW t \in Thread, ThreadStep(t)
        PROVE  UNCHANGED faults \/ \E j \in FaultKind : Spend(j)
    BY <2>1 DEF ThreadStep, DrainNothing, DrainMove, DrainRead,
    DrainUnlink, DrainMoveFails,
                DrainReadFails, DrainUnlinkFails,
                SaveHeldOk, SaveHeldUnavailable, RestoreOpen, RestoreWrite,
                RestoreFails, Commits, Unavailable, FaultKind
  <2>2. CASE PushStep
    BY <2>1, <2>2, PipelineAssumption
       DEF PushStep, IngestUnexpected, SaveReqOk, SaveReqFails, AddOpen, AddWrite,
           AddFails, Commits, Unavailable, Unexpected, FaultKind
  <2>3. CASE FlushStep
    BY <2>1, <2>3, PipelineAssumption
       DEF FlushStep, Tick, FlushUnexpected, FlushEnds, Unexpected, FaultKind
  <2>4. CASE Crash \/ Exit \/ Stop \/ LmsDown \/ LmsUp
    BY <2>4 DEF Crash, Exit, Stop, LmsDown, LmsUp, FaultKind
  <2>5. CASE UNCHANGED vars
    BY <2>5 DEF vars, pipeVars
  <2>6. QED
    BY <2>2, <2>3, <2>4, <2>5 DEF Next, Receive
<1>3. ASSUME NEW j \in FaultKind, Spend(j)
      PROVE  faults'[k] \in Nat /\ faults[k] <= faults'[k]
  <2>1. faults'[k] = IF k = j THEN faults[k] + 1 ELSE faults[k]
    BY <1>3 DEF Spend, TypeOK
  <2>2. QED
    BY <1>1, <2>1
<1>4. QED
  BY <1>1, <1>2, <1>3

(* Every step keeps both.                                                  *)
LEMMA FlushStaysStep ==
  TypeOK /\ Caught /\ FlushStays /\ [Next]_vars => Caught' /\ FlushStays'
<1> SUFFICES ASSUME TypeOK, Caught, FlushStays, [Next]_vars
             PROVE  Caught' /\ FlushStays'
  OBVIOUS
<1>1. /\ faults["unexpected"] \in Nat /\ faults'["unexpected"] \in Nat
      /\ faults["unexpected"] <= faults'["unexpected"]
      /\ faults["disk"] \in Nat /\ faults'["disk"] \in Nat
      /\ faults["disk"] <= faults'["disk"]
  BY FaultsCount DEF FaultKind
<1>2. \A k \in {"unexpected", "disk"} : Spend(k) => faults'[k] > 0
  <2>1. ASSUME NEW k \in {"unexpected", "disk"}, Spend(k)
        PROVE  faults'[k] > 0
    <3>1. k \in FaultKind
      BY DEF FaultKind
    <3>2. faults'[k] = faults[k] + 1 /\ faults[k] \in Nat
      BY <2>1, <3>1 DEF Spend, TypeOK
    <3>3. QED
      BY <3>2
  <2>2. QED
    BY <2>1
<1>3. ASSUME pc'["flush"] = pc["flush"], err' = err, stopping => stopping'
      PROVE  Caught' /\ FlushStays'
  <2>1. Caught'
    BY <1>1, <1>3 DEF Caught
  <2>2. FlushStays'
    BY <1>1, <1>3 DEF FlushStays
  <2>3. QED
    BY <2>1, <2>2
<1>4. CASE PushStep \/ \E P \in SUBSET Punch : Receive(P)
  <2>1. ASSUME ThreadStep("push")
        PROVE  pc'["flush"] = pc["flush"] /\ err' = err /\ stopping' = stopping
    BY <2>1, PipelineAssumption
       DEF ThreadStep, DrainNothing, DrainMove, DrainRead, DrainUnlink, DrainMoveFails,
           DrainReadFails, DrainUnlinkFails, SaveHeldOk,
           SaveHeldUnavailable, RestoreOpen, RestoreWrite, RestoreFails, Go, TypeOK
  <2>2. pc'["flush"] = pc["flush"] /\ err' = err /\ stopping' = stopping
    BY <1>4, <2>1, PipelineAssumption
       DEF PushStep, Receive, IngestUnexpected, SaveReqOk, SaveReqFails, AddOpen,
           AddWrite, AddFails, Go, TypeOK
  <2>3. QED
    BY <1>3, <2>2
<1>5. CASE FlushUnexpected
  <2>1. err' = "unexpected" /\ pc'["flush"] = "restore" /\ Spend("unexpected")
    BY <1>5, PipelineAssumption DEF FlushUnexpected, Go, Unexpected, TypeOK
  <2>2. QED
    BY <1>2, <2>1 DEF Caught, FlushStays
<1>6. CASE RestoreWrite("flush")
  <2>1. err' = "none" /\ pc'["flush"] = IF err = "unexpected" THEN "dead" ELSE "wait"
    BY <1>6, PipelineAssumption DEF RestoreWrite, Go, AfterRestore, TypeOK
  <2>2. FlushStays'
    BY <1>1, <2>1 DEF Caught, FlushStays
  <2>3. QED
    BY <2>1, <2>2 DEF Caught
<1>7. CASE RestoreFails("flush")
  <2>1. err' = "none" /\ pc'["flush"] = "dead" /\ Spend("disk")
    BY <1>7, PipelineAssumption DEF RestoreFails, Go, AfterRestore, TypeOK
  <2>2. faults'["disk"] > 0
    BY <1>2, <2>1
  <2>3. QED
    BY <1>1, <2>1, <2>2 DEF Caught, FlushStays
<1>disk. CASE DrainUnlinkFails("flush")
  <2>1. err' = err /\ pc'["flush"] = "dead" /\ Spend("disk")
    BY <1>disk, PipelineAssumption DEF DrainUnlinkFails, Go, TypeOK
  <2>2. faults'["disk"] > 0
    BY <1>2, <2>1
  <2>3. QED
    BY <1>1, <2>1, <2>2 DEF Caught, FlushStays
<1>8. CASE \/ Tick \/ DrainNothing("flush") \/ DrainMove("flush")
           \/ DrainRead("flush") \/ DrainUnlink("flush") \/ SaveHeldOk("flush")
           \/ DrainMoveFails("flush") \/ DrainReadFails("flush")
           \/ SaveHeldUnavailable("flush") \/ RestoreOpen("flush")
  <2>1. /\ pc'["flush"] \notin {"dead", "ended"}
        /\ err' = err \/ err' = "unavailable"
    BY <1>8, PipelineAssumption
       DEF Tick, DrainNothing, DrainMove, DrainRead, DrainUnlink, DrainMoveFails,
           DrainReadFails, DrainUnlinkFails, SaveHeldOk,
           SaveHeldUnavailable, RestoreOpen, Go, AfterHeld, TypeOK
  <2>2. Caught'
    BY <1>1, <2>1 DEF Caught
  <2>3. QED
    BY <2>1, <2>2 DEF FlushStays
<1>9. CASE FlushEnds
  <2>1. pc'["flush"] = "ended" /\ stopping' /\ err' = err
    BY <1>9, PipelineAssumption DEF FlushEnds, Go, TypeOK
  <2>2. Caught'
    BY <1>1, <2>1 DEF Caught
  <2>3. QED
    BY <2>1, <2>2 DEF FlushStays
<1>10. CASE Crash \/ Exit
  <2>1. pc' = Boot /\ err' = "none"
    BY <1>10 DEF Crash, Exit, Reboot
  <2>2. pc'["flush"] = "wait"
    BY <2>1, PipelineAssumption DEF Boot
  <2>3. QED
    BY <2>1, <2>2 DEF Caught, FlushStays
<1>11. CASE Stop \/ LmsDown \/ LmsUp
  BY <1>3, <1>11 DEF Stop, LmsDown, LmsUp
<1>12. CASE UNCHANGED vars
  BY <1>3, <1>12 DEF vars, pipeVars
<1>13. QED
  BY <1>4, <1>5, <1>6, <1>7, <1>disk, <1>8, <1>9, <1>10, <1>11, <1>12
  DEF Next, FlushStep, ThreadStep

(* supervisor.py:17-23: outages, refused rows and lost replies never end   *)
(* the thread that delivers held punches.  It is gone only if it was told  *)
(* to stop, or after an exception of another kind.                         *)
THEOREM FlushSurvivesOutages == Spec => []FlushStays
<1>1. Init => Caught /\ FlushStays
  BY PipelineAssumption DEF Init, Boot, Caught, FlushStays
<1>2. QED
  BY <1>1, FlushStaysStep, TypeCorrect, PTL DEF Spec

-----------------------------------------------------------------------------
(* The reader gets its answer                                              *)

(* The steps ingest has left to the answer.                                *)
ToAnswer ==
  CASE pc["push"] = "drain"        -> 9
    [] pc["push"] = "read"         -> 8
    [] pc["push"] = "unlink"       -> 7
    [] pc["push"] = "saveHeld"     -> 6
    [] pc["push"] = "restore"      -> 5
    [] pc["push"] = "restoreWrite" -> 4
    [] pc["push"] = "saveReq"      -> 3
    [] pc["push"] = "addReq"       -> 2
    [] pc["push"] = "addReqWrite"  -> 1
    [] OTHER                       -> 0

(* The steps the flush thread has left inside the spool.                   *)
ToUnlock ==
  CASE pc["flush"] = "read"                         -> 2
    [] pc["flush"] \in {"unlink", "restoreWrite"} -> 1
    [] OTHER                                        -> 0

(* What may keep ingest from its next step: the spool's lock, and then the *)
(* flush thread has it and is about to give it back.                       *)
HeldUp ==
  /\ pc["push"] \in {"drain", "restore", "addReq"}
  /\ ~LockFree("push")

IngestPC == {"idle", "drain", "read", "unlink", "saveHeld", "restore",
             "restoreWrite", "saveReq", "addReq", "addReqWrite"}
FlushPC == {"wait", "drain", "read", "unlink", "saveHeld", "restore",
            "restoreWrite", "dead", "ended"}

(* Each thread is in its own code.                                         *)
InOwnCode == pc["push"] \in IngestPC /\ pc["flush"] \in FlushPC

(* ingest and the flush thread, step by step.                              *)
LEMMA IngestStep ==
  ASSUME TypeOK, InOwnCode, [Next]_vars
  PROVE  /\ InOwnCode'
         /\ PushStep => ToAnswer' < ToAnswer
         /\ ToAnswer' > ToAnswer => \E P \in SUBSET Punch : Receive(P)
         /\ ToUnlock > 0 => /\ FlushStep => ToUnlock' < ToUnlock
                            /\ ToUnlock' <= ToUnlock
<1>1. CASE PushStep
  <2>1. pc'["flush"] = pc["flush"]
    BY <1>1, PipelineAssumption
       DEF PushStep, ThreadStep, DrainNothing, DrainMove, DrainRead,
           DrainUnlink, DrainMoveFails,
           DrainReadFails, DrainUnlinkFails,
           SaveHeldOk, SaveHeldUnavailable, RestoreOpen, RestoreWrite, RestoreFails,
           IngestUnexpected, SaveReqOk, SaveReqFails, AddOpen, AddWrite, AddFails,
           Go, TypeOK
  <2>2. ToUnlock' = ToUnlock /\ ToUnlock \in 0..2
    BY <2>1 DEF ToUnlock
  <2>3. ~FlushStep
    BY <2>1, PipelineAssumption
       DEF FlushStep, Tick, ThreadStep, DrainNothing, DrainMove, DrainRead,
           DrainUnlink, DrainMoveFails,
           DrainReadFails, DrainUnlinkFails, SaveHeldOk,
           SaveHeldUnavailable, RestoreOpen, RestoreWrite,
           RestoreFails, FlushUnexpected, FlushEnds, Go, AfterHeld, AfterRestore,
           TypeOK
  <2>4. \/ pc["push"] = "drain" /\ pc'["push"] \in {"saveReq", "read"}
        \/ pc["push"] = "read" /\ pc'["push"] = "unlink"
        \/ pc["push"] = "unlink" /\ pc'["push"] \in {"saveReq", "saveHeld", "addReq"}
        \/ /\ pc["push"] = "saveHeld"
           /\ pc'["push"] \in {"saveReq", "restore", "addReq"}
        \/ pc["push"] = "restore" /\ pc'["push"] = "restoreWrite"
        \/ pc["push"] = "restoreWrite" /\ pc'["push"] = "addReq"
        \/ pc["push"] = "saveReq" /\ pc'["push"] \in {"idle", "addReq"}
        \/ pc["push"] = "addReq" /\ pc'["push"] = "addReqWrite"
        \/ pc["push"] = "addReqWrite" /\ pc'["push"] = "idle"
    BY <1>1, PipelineAssumption
       DEF PushStep, ThreadStep, DrainNothing, DrainMove, DrainRead,
           DrainUnlink, DrainMoveFails,
           DrainReadFails, DrainUnlinkFails,
           SaveHeldOk, SaveHeldUnavailable, RestoreOpen, RestoreWrite, RestoreFails,
           IngestUnexpected, SaveReqOk, SaveReqFails, AddOpen, AddWrite, AddFails,
           Go, AfterHeld, AfterRestore, TypeOK
  <2>5. ToAnswer' < ToAnswer /\ ToAnswer' \in 0..9 /\ ToAnswer \in 0..9
    BY <2>4 DEF ToAnswer
  <2>6. pc'["push"] \in IngestPC
    BY <2>4 DEF IngestPC
  <2>7. InOwnCode'
    BY <2>1, <2>6 DEF InOwnCode
  <2>8. QED
    BY <2>2, <2>3, <2>5, <2>7
<1>2. CASE FlushStep
  <2>1. pc'["push"] = pc["push"]
    BY <1>2, PipelineAssumption
       DEF FlushStep, Tick, ThreadStep, DrainNothing, DrainMove, DrainRead,
           DrainUnlink, DrainMoveFails,
           DrainReadFails, DrainUnlinkFails, SaveHeldOk,
           SaveHeldUnavailable, RestoreOpen, RestoreWrite,
           RestoreFails, FlushUnexpected, FlushEnds, Go, TypeOK
  <2>2. ToAnswer' = ToAnswer /\ ToAnswer \in 0..9
    BY <2>1 DEF ToAnswer
  <2>3. ~PushStep
    BY <2>1, PipelineAssumption
       DEF PushStep, ThreadStep, DrainNothing, DrainMove, DrainRead,
           DrainUnlink, DrainMoveFails,
           DrainReadFails, DrainUnlinkFails,
           SaveHeldOk, SaveHeldUnavailable, RestoreOpen, RestoreWrite, RestoreFails,
           IngestUnexpected, SaveReqOk, SaveReqFails, AddOpen, AddWrite, AddFails,
           Go, AfterHeld, AfterRestore, TypeOK
  <2>4. /\ pc["flush"] = "read" => pc'["flush"] = "unlink"
        /\ pc["flush"] = "unlink" => pc'["flush"] \in {"wait", "saveHeld", "dead"}
        /\ pc["flush"] = "restoreWrite" => pc'["flush"] \in {"wait", "dead"}
        /\ pc'["flush"] \in FlushPC
    BY <1>2, PipelineAssumption
       DEF FlushStep, Tick, ThreadStep, DrainNothing, DrainMove, DrainRead,
           DrainUnlink, DrainMoveFails,
           DrainReadFails, DrainUnlinkFails, SaveHeldOk,
           SaveHeldUnavailable, RestoreOpen, RestoreWrite,
           RestoreFails, FlushUnexpected, FlushEnds, Go, AfterHeld, AfterRestore,
           TypeOK, FlushPC
  <2>5. ToUnlock > 0 => ToUnlock' < ToUnlock
    BY <2>4 DEF ToUnlock
  <2>6. ToUnlock \in 0..2 /\ ToUnlock' \in 0..2
    BY DEF ToUnlock
  <2>7. InOwnCode'
    BY <2>1, <2>4 DEF InOwnCode
  <2>8. QED
    BY <2>2, <2>3, <2>5, <2>6, <2>7
<1>3. CASE ~PushStep /\ ~FlushStep
  <2>1. \/ \E P \in SUBSET Punch : Receive(P)
        \/ pc' = pc
        \/ pc' = Boot
    BY <1>3 DEF Next, LmsDown, LmsUp, Crash, Exit, Reboot, Stop, vars, pipeVars
  <2>2. ToAnswer \in 0..9 /\ ToUnlock \in 0..2
    BY DEF ToAnswer, ToUnlock
  <2>3. CASE \E P \in SUBSET Punch : Receive(P)
    <3>1. pc'["push"] = "drain" /\ pc'["flush"] = pc["flush"]
      BY <2>3, PipelineAssumption DEF Receive, Go, TypeOK
    <3>2. ToUnlock' = ToUnlock
      BY <3>1 DEF ToUnlock
    <3>3. QED
      BY <1>3, <2>2, <2>3, <3>1, <3>2 DEF InOwnCode, IngestPC
  <2>4. CASE pc' = pc
    <3>1. ToUnlock' = ToUnlock /\ ToAnswer' = ToAnswer
      BY <2>4 DEF ToUnlock, ToAnswer
    <3>2. QED
      BY <1>3, <2>2, <2>4, <3>1 DEF InOwnCode
  <2>5. CASE pc' = Boot
    <3>1. pc'["push"] = "idle" /\ pc'["flush"] = "wait"
      BY <2>5, PipelineAssumption DEF Boot
    <3>2. ToUnlock' = 0 /\ ToAnswer' = 0
      BY <3>1 DEF ToUnlock, ToAnswer
    <3>3. QED
      BY <1>3, <2>2, <3>1, <3>2 DEF InOwnCode, IngestPC, FlushPC
  <2>6. QED
    BY <2>1, <2>3, <2>4, <2>5
<1>4. QED
  BY <1>1, <1>2, <1>3

(* push_ingest.py:95-98, without fairness: from its first step ingest is   *)
(* at most nine steps from the answer, whatever the LMS does, and no step  *)
(* of any thread takes it further away.  Only the spool's lock can hold it *)
(* up, and then the flush thread is at most two steps of its own, none of  *)
(* them a call to the LMS, from giving the lock back.                      *)
THEOREM IngestHeadsForAnswer ==
  Spec =>
    /\ [](/\ ToAnswer \in 0..9
          /\ ToAnswer = 0 <=> pc["push"] = "idle"
          /\ HeldUp => /\ "flush" \in inside /\ ToUnlock \in 1..2
                       /\ LockOf["flush"] = LockOf["push"])
    /\ [][/\ PushStep => ToAnswer' < ToAnswer
          /\ ToAnswer' > ToAnswer => \E P \in SUBSET Punch : Receive(P)
          /\ ToUnlock > 0 => /\ FlushStep => ToUnlock' < ToUnlock
                             /\ ToUnlock' <= ToUnlock]_vars
<1> DEFINE Ranks ==
             /\ ToAnswer \in 0..9
             /\ ToAnswer = 0 <=> pc["push"] = "idle"
             /\ HeldUp => /\ "flush" \in inside /\ ToUnlock \in 1..2
                          /\ LockOf["flush"] = LockOf["push"]
           Falls ==
             /\ PushStep => ToAnswer' < ToAnswer
             /\ ToAnswer' > ToAnswer => \E P \in SUBSET Punch : Receive(P)
             /\ ToUnlock > 0 => /\ FlushStep => ToUnlock' < ToUnlock
                                /\ ToUnlock' <= ToUnlock
<1>1. Init => InOwnCode
  BY PipelineAssumption DEF Init, Boot, InOwnCode, IngestPC, FlushPC
<1>2. IInv /\ InOwnCode /\ [Next]_vars => InOwnCode' /\ Falls
  BY IngestStep DEF IInv
<1>3. IInv /\ InOwnCode => Ranks
  <2> SUFFICES ASSUME IInv, InOwnCode PROVE Ranks
    OBVIOUS
  <2>1. ToAnswer \in 0..9
    BY DEF ToAnswer
  <2>2. pc["push"] = "idle" => ToAnswer = 0
    BY DEF ToAnswer
  <2>3. pc["push"] # "idle" => ToAnswer \in 1..9
    BY DEF ToAnswer, InOwnCode, IngestPC
  <2>4. ASSUME HeldUp
        PROVE  /\ "flush" \in inside /\ ToUnlock \in 1..2
               /\ LockOf["flush"] = LockOf["push"]
    <3>1. "push" \notin inside
      BY <2>4, PipelineAssumption DEF IInv, Placed, HeldUp, DrainPC, WritePC
    <3>2. "flush" \in inside /\ LockOf["flush"] = LockOf["push"]
      BY <2>4, <3>1, PipelineAssumption
         DEF HeldUp, LockFree, IInv, TypeOK, SpoolTypeOK
    <3>3. pc["flush"] \in {"read", "unlink", "restoreWrite", "addReqWrite"}
      BY <3>2, PipelineAssumption DEF IInv, Placed, DrainPC, WritePC
    <3>4. QED
      BY <3>2, <3>3 DEF ToUnlock, InOwnCode, FlushPC
  <2>5. QED
    BY <2>1, <2>2, <2>3, <2>4
<1> HIDE DEF Ranks, Falls
<1>4. Spec => []Ranks
  BY <1>1, <1>2, <1>3, Invariance, PTL DEF Spec
<1>5. Spec => [][Falls]_vars
  BY <1>1, <1>2, Invariance, PTL DEF Spec
<1>6. QED
  BY <1>4, <1>5, PTL DEF Ranks, Falls
=============================================================================
