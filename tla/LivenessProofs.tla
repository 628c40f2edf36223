--------------------------- MODULE LivenessProofs ---------------------------
(***************************************************************************)
(* Theorems about Liveness, for any readers, any heartbeat and any bounds. *)
(***************************************************************************)
EXTENDS Liveness, TLAPS

(* No call of s is waiting to be stamped from position i of the queue on.  *)
NoStampFrom(s, i) ==
  \A j \in DOMAIN queue : j >= i => queue[j] # <<"stamp", s>>

(* The throttle: its entry is less than a heartbeat older than the last    *)
(* call, and the stamp it stands for is queued, written or lost.           *)
Throttled(s) ==
  lastWrite[s] # Never =>
    /\ lastWrite[s] < contact[s] + Heartbeat
    /\ \/ s \in unrecorded
       \/ ~NoStampFrom(s, 1)
       \/ seenAt[s] <= lastWrite[s]

(* An error is noted, or its note is queued behind every stamp.            *)
Noted(s) ==
  s \in failed =>
    \/ s \in lastError /\ NoStampFrom(s, 1)
    \/ \E i \in DOMAIN queue : queue[i] = <<"error", s>> /\ NoStampFrom(s, i)

(* After the last request nothing is submitted.                            *)
Drained ==
  /\ stage # "serving" => awaiting = {}
  /\ stage = "closed" => queue = <<>>

IInv == TypeOK /\ Drained /\ \A s \in Serial : Throttled(s) /\ Noted(s)

(* A reader with nothing queued has no stamp queued.                       *)
LEMMA NotQueued == \A s \in Serial : ~Queued(s) => NoStampFrom(s, 1)
  BY DEF Queued, NoStampFrom

(* Taking the head of the queue moves every other task one place forward.  *)
LEMMA RunsMoves ==
  ASSUME TypeOK, NEW kind, Runs(kind)
  PROVE  /\ queue \in Seq(Task) /\ queue # <<>> /\ Head(queue) = queue[1]
         /\ queue' \in Seq(Task) /\ Len(queue') = Len(queue) - 1
         /\ DOMAIN queue' = 1..Len(queue) - 1
         /\ \A i \in DOMAIN queue' : queue'[i] = queue[i + 1]
         /\ queue[1] = <<kind, Reader>> /\ Reader \in Serial
<1>1. queue \in Seq(Task) /\ queue # <<>> /\ queue' = Tail(queue)
  BY DEF TypeOK, Runs
<1>2. Head(queue) = queue[1] /\ Head(queue) \in Task
  BY <1>1
<1>3. queue[1] = <<kind, Reader>> /\ Reader \in Serial
  BY <1>2 DEF Task, Runs, Reader
<1>4. QED
  BY <1>1, <1>2, <1>3

(* A submitted task is behind all the others.                              *)
LEMMA SubmitAppends ==
  ASSUME TypeOK, NEW kind \in {"stamp", "error"}, NEW s \in Serial,
         Submit(kind, s)
  PROVE  /\ queue' \in Seq(Task) /\ Len(queue') = Len(queue) + 1
         /\ Len(queue') <= MaxQueue
         /\ DOMAIN queue' = 1..Len(queue) + 1
         /\ \A i \in DOMAIN queue : queue'[i] = queue[i]
         /\ queue'[Len(queue) + 1] = <<kind, s>>
<1>1. queue \in Seq(Task) /\ <<kind, s>> \in Task /\ Len(queue) < MaxQueue
      /\ queue' = Append(queue, <<kind, s>>)
  BY DEF TypeOK, Submit, Task
<1>2. QED
  BY <1>1, LivenessAssumption

-----------------------------------------------------------------------------
(* A queued stamp stays queued when a task is submitted.                   *)
LEMMA StampStays ==
  ASSUME TypeOK, NEW kind \in {"stamp", "error"}, NEW r \in Serial,
         Submit(kind, r)
  PROVE  /\ \A s \in Serial : ~NoStampFrom(s, 1) => ~NoStampFrom(s, 1)'
         /\ kind = "stamp" => ~NoStampFrom(r, 1)'
<1>1. /\ Len(queue) \in Nat /\ DOMAIN queue = 1..Len(queue)
      /\ DOMAIN queue' = 1..Len(queue) + 1
      /\ \A i \in DOMAIN queue : queue'[i] = queue[i]
      /\ queue'[Len(queue) + 1] = <<kind, r>>
  BY SubmitAppends DEF TypeOK
<1>2. QED
  BY <1>1 DEF NoStampFrom

(* What a call of a reader does to the throttle and the queue.             *)
LEMMA Marks ==
  ASSUME TypeOK, NEW s \in Serial, NEW force \in BOOLEAN, MarkSeen(s, force)
  PROVE  \/ /\ Submit("stamp", s)
            /\ lastWrite' = [lastWrite EXCEPT ![s] = 0]
         \/ /\ UNCHANGED <<lastWrite, queue>>
            /\ lastWrite[s] < Heartbeat
<1>1. CASE ShouldWrite(s, force)
  BY <1>1 DEF MarkSeen
<1>2. CASE ~ShouldWrite(s, force)
  BY <1>2, LivenessAssumption
  DEF MarkSeen, ShouldWrite, throttleVars, TypeOK, Never
<1>3. QED
  BY <1>1, <1>2

(* The ages there are.                                                     *)
LEMMA Ages == Never \in 0..Never /\ 0 \in 0..Never
  BY LivenessAssumption DEF Never

(* Growing older keeps ages in range and in order.                         *)
LEMMA OlderAge ==
  /\ \A a \in 0..Never : Older(a) \in 0..Never
  /\ \A a \in 0..Never : Older(a) = Never <=> a = Never
  /\ \A a, b \in 0..Never : a <= b => Older(a) <= Older(b)
  /\ \A a, b \in 0..Never :
       a # Never /\ a < b + Heartbeat => Older(a) < Older(b) + Heartbeat
  BY LivenessAssumption DEF Never, Older

(* The actions of the event loop and of the worker, with their arguments.  *)
LEMMA Steps ==
  ASSUME [Next]_vars
  PROVE  \/ \E s \in Serial, force \in BOOLEAN :
              /\ MarkSeen(s, force)
              /\ awaiting \subseteq awaiting' /\ awaiting' \subseteq awaiting \cup {s}
         \/ \E s \in Serial : PostEnds(s) \/ PostFails(s)
         \/ WriteOk \/ WriteUnavailable \/ WriteRaises
         \/ RecordError \/ RecordErrorFails
         \/ Tick \/ LmsChanges \/ Stop \/ Close
         \/ UNCHANGED vars
  BY DEF Next, Calls, Handshake, Poll, Post, Writer

(* Every variable keeps its type (liveness.py:47-60).                      *)
LEMMA TypeStep == TypeOK /\ [Next]_vars => TypeOK'
<1> SUFFICES ASSUME TypeOK, [Next]_vars
             PROVE  TypeOK'
  OBVIOUS
<1> USE LivenessAssumption
<1>1. ASSUME NEW s \in Serial, NEW force \in BOOLEAN, MarkSeen(s, force),
             awaiting' \subseteq awaiting \cup {s}
      PROVE  TypeOK'
  <2>1. queue' \in Seq(Task) /\ Len(queue') <= MaxQueue
    BY <1>1, Marks, SubmitAppends DEF TypeOK
  <2>2. lastWrite' \in [Serial -> 0..Never]
    BY <1>1, Marks, Ages DEF TypeOK
  <2>3. QED
    BY <1>1, <2>1, <2>2, Ages DEF TypeOK, MarkSeen, lmsVars
<1>2. ASSUME NEW s \in Serial, PostEnds(s)
      PROVE  TypeOK'
  BY <1>2 DEF PostEnds, TypeOK, throttleVars, lmsVars, history
<1>3. ASSUME NEW s \in Serial, PostFails(s)
      PROVE  TypeOK'
  <2>1. queue' \in Seq(Task) /\ Len(queue') <= MaxQueue
    BY <1>3, SubmitAppends DEF PostFails
  <2>2. QED
    BY <1>3, <2>1 DEF PostFails, TypeOK, lmsVars
<1>4. ASSUME NEW kind, Runs(kind)
      PROVE  queue' \in Seq(Task) /\ Len(queue') <= MaxQueue /\ Reader \in Serial
  BY <1>4, RunsMoves DEF TypeOK
<1>5. CASE WriteOk
  BY <1>5, <1>4, Ages DEF WriteOk, Stamp, TypeOK, history
<1>6. CASE WriteUnavailable
  BY <1>6, <1>4, Ages DEF WriteUnavailable, Stamp, TypeOK, history
<1>7. CASE WriteRaises
  <2>1. Reader \in Serial /\ queue' \in Seq(Task) /\ Len(queue') <= MaxQueue
    BY <1>7, <1>4 DEF WriteRaises
  <2>2. other' \in 0..MaxOther
    BY <1>7 DEF WriteRaises, TypeOK
  <2>3. seenAt' \in [Serial -> 0..Never] /\ lastError' \subseteq Serial
    BY <1>7, <2>1, Ages DEF WriteRaises, Stamp, TypeOK
  <2>4. QED
    BY <1>7, <2>1, <2>2, <2>3 DEF WriteRaises, TypeOK
<1>8. CASE RecordError
  BY <1>8, <1>4 DEF RecordError, TypeOK, history
<1>9. CASE RecordErrorFails
  <2>1. Reader \in Serial /\ queue' \in Seq(Task) /\ Len(queue') <= MaxQueue
    BY <1>9, <1>4 DEF RecordErrorFails
  <2>2. lastError' \subseteq Serial /\ failed' \subseteq Serial
    BY <1>9, <2>1 DEF RecordErrorFails, TypeOK
  <2>3. QED
    BY <1>9, <2>1, <2>2 DEF RecordErrorFails, TypeOK
<1>10. CASE Tick
  BY <1>10, OlderAge DEF Tick, TypeOK
<1>11. CASE LmsChanges
  BY <1>11 DEF LmsChanges, TypeOK, throttleVars, history
<1>12. CASE Stop \/ Close
  BY <1>12 DEF Stop, Close, TypeOK, throttleVars, lmsVars, history
<1>13. CASE UNCHANGED vars
  BY <1>13 DEF vars, TypeOK, throttleVars, lmsVars, history
<1>14. QED
  BY <1>1, <1>2, <1>3, <1>5, <1>6, <1>7, <1>8, <1>9, <1>10, <1>11, <1>12,
     <1>13, Steps

-----------------------------------------------------------------------------
(* No step submits anything once the process is stopping.                  *)
LEMMA DrainedStep == TypeOK /\ Drained /\ [Next]_vars => Drained'
<1> SUFFICES ASSUME TypeOK, Drained, [Next]_vars
             PROVE  Drained'
  OBVIOUS
<1>1. ASSUME NEW s \in Serial, NEW force \in BOOLEAN, MarkSeen(s, force)
      PROVE  Drained'
  BY <1>1 DEF Drained, MarkSeen
<1>2. ASSUME NEW s \in Serial, PostEnds(s) \/ PostFails(s)
      PROVE  Drained'
  BY <1>2 DEF Drained, PostEnds, PostFails
<1>3. CASE WriteOk \/ WriteUnavailable \/ WriteRaises \/ RecordError
           \/ RecordErrorFails
  BY <1>3 DEF Drained, WriteOk, WriteUnavailable, WriteRaises, RecordError,
              RecordErrorFails, Runs
<1>4. CASE Tick \/ LmsChanges \/ Stop \/ Close \/ UNCHANGED vars
  BY <1>4 DEF Drained, Tick, LmsChanges, Stop, Close, vars, throttleVars
<1>5. QED
  BY <1>1, <1>2, <1>3, <1>4, Steps

(* The throttle is never ahead of what is queued, written or lost.         *)
LEMMA ThrottledStep ==
  ASSUME TypeOK, NEW s \in Serial, Throttled(s), [Next]_vars
  PROVE  Throttled(s)'
<1> USE LivenessAssumption
<1>1. ASSUME NEW r \in Serial, NEW force \in BOOLEAN, MarkSeen(r, force)
      PROVE  Throttled(s)'
  <2>1. CASE /\ Submit("stamp", r)
             /\ lastWrite' = [lastWrite EXCEPT ![r] = 0]
    <3>1. ~NoStampFrom(s, 1) => ~NoStampFrom(s, 1)'
      BY <2>1, StampStays
    <3>2. CASE r = s
      <4>1. ~NoStampFrom(s, 1)'
        BY <2>1, <3>2, StampStays
      <4>2. QED
        BY <1>1, <2>1, <3>2, <4>1 DEF Throttled, MarkSeen, TypeOK
    <3>3. CASE r # s
      BY <1>1, <2>1, <3>1, <3>3 DEF Throttled, MarkSeen, TypeOK, lmsVars
    <3>4. QED
      BY <3>2, <3>3
  <2>2. CASE UNCHANGED <<lastWrite, queue>> /\ lastWrite[r] < Heartbeat
    BY <1>1, <2>2 DEF Throttled, NoStampFrom, MarkSeen, TypeOK, lmsVars
  <2>3. QED
    BY <1>1, <2>1, <2>2, Marks
<1>2. ASSUME NEW r \in Serial, PostEnds(r)
      PROVE  Throttled(s)'
  BY <1>2 DEF PostEnds, Throttled, NoStampFrom, throttleVars, lmsVars, history
<1>3. ASSUME NEW r \in Serial, PostFails(r)
      PROVE  Throttled(s)'
  <2>1. ~NoStampFrom(s, 1) => ~NoStampFrom(s, 1)'
    BY <1>3, StampStays DEF PostFails
  <2>2. QED
    BY <1>3, <2>1 DEF PostFails, Throttled, lmsVars
<1>4. ASSUME NEW kind, Runs(kind), <<kind, Reader>> # <<"stamp", s>>,
             ~NoStampFrom(s, 1)
      PROVE  ~NoStampFrom(s, 1)'
  <2>1. PICK j \in DOMAIN queue : queue[j] = <<"stamp", s>>
    BY <1>4 DEF NoStampFrom
  <2>2. j # 1
    BY <1>4, <2>1, RunsMoves
  <2>3. j - 1 \in DOMAIN queue' /\ queue'[j - 1] = <<"stamp", s>>
    BY <1>4, <2>1, <2>2, RunsMoves
  <2>4. QED
    BY <1>4, <2>3, RunsMoves DEF NoStampFrom
<1>5. CASE WriteOk
  BY <1>4, <1>5, RunsMoves DEF WriteOk, Stamp, Throttled, TypeOK, history
<1>6. CASE WriteUnavailable
  BY <1>4, <1>6, RunsMoves
  DEF WriteUnavailable, Stamp, Throttled, TypeOK, history
<1>7. CASE WriteRaises
  BY <1>4, <1>7, RunsMoves DEF WriteRaises, Stamp, Throttled, TypeOK
<1>8. CASE RecordError \/ RecordErrorFails
  BY <1>4, <1>8, RunsMoves
  DEF RecordError, RecordErrorFails, Throttled, history
<1>9. CASE Tick
  <2>1. /\ lastWrite[s] \in 0..Never /\ contact[s] \in 0..Never
        /\ seenAt[s] \in 0..Never
        /\ lastWrite'[s] = Older(lastWrite[s]) /\ contact'[s] = Older(contact[s])
        /\ seenAt'[s] = Older(seenAt[s])
    BY <1>9 DEF Tick, TypeOK
  <2>2. UNCHANGED <<queue, unrecorded>>
    BY <1>9 DEF Tick
  <2>3. QED
    BY <2>1, <2>2, OlderAge DEF Throttled, NoStampFrom
<1>10. CASE LmsChanges \/ Stop \/ Close \/ UNCHANGED vars
  BY <1>10 DEF LmsChanges, Stop, Close, vars, throttleVars, lmsVars, history,
               Throttled, NoStampFrom
<1>11. QED
  BY <1>1, <1>2, <1>3, <1>5, <1>6, <1>7, <1>8, <1>9, <1>10, Steps

(* Taking a task that is not a stamp of s leaves the stamps of s queued,   *)
(* and taking any task leaves none of s where there was none.              *)
LEMMA RunsKeeps ==
  ASSUME TypeOK, NEW kind, Runs(kind), NEW s \in Serial
  PROVE  /\ NoStampFrom(s, 1) => NoStampFrom(s, 1)'
         /\ \A i \in DOMAIN queue :
              queue[i] = <<"error", s>> /\ NoStampFrom(s, i) =>
                IF i = 1 THEN NoStampFrom(s, 1)' /\ NoStampFrom(s, 1)
                         ELSE /\ i - 1 \in DOMAIN queue'
                              /\ queue'[i - 1] = <<"error", s>>
                              /\ NoStampFrom(s, i - 1)'
<1>1. /\ Len(queue) \in Nat /\ DOMAIN queue = 1..Len(queue)
      /\ DOMAIN queue' = 1..Len(queue) - 1
      /\ \A i \in DOMAIN queue' : queue'[i] = queue[i + 1]
  BY RunsMoves
<1>2. NoStampFrom(s, 1) => NoStampFrom(s, 1)'
  BY <1>1 DEF NoStampFrom
<1>3. ASSUME NEW i \in DOMAIN queue, queue[i] = <<"error", s>>, NoStampFrom(s, i)
      PROVE  IF i = 1 THEN NoStampFrom(s, 1)' /\ NoStampFrom(s, 1)
                      ELSE /\ i - 1 \in DOMAIN queue'
                           /\ queue'[i - 1] = <<"error", s>>
                           /\ NoStampFrom(s, i - 1)'
  BY <1>1, <1>3, <1>2 DEF NoStampFrom
<1>4. QED
  BY <1>2, <1>3

(* An error note that is last of its reader stays so when a task of        *)
(* another reader, or another note, is submitted.                          *)
LEMMA SubmitKeeps ==
  ASSUME TypeOK, NEW kind \in {"stamp", "error"}, NEW r \in Serial,
         Submit(kind, r), NEW s \in Serial, <<kind, r>> # <<"stamp", s>>
  PROVE  /\ NoStampFrom(s, 1) => NoStampFrom(s, 1)'
         /\ \A i \in DOMAIN queue :
              queue[i] = <<"error", s>> /\ NoStampFrom(s, i) =>
                /\ i \in DOMAIN queue' /\ queue'[i] = <<"error", s>>
                /\ NoStampFrom(s, i)'
<1>1. /\ Len(queue) \in Nat /\ DOMAIN queue = 1..Len(queue)
      /\ DOMAIN queue' = 1..Len(queue) + 1
      /\ \A i \in DOMAIN queue : queue'[i] = queue[i]
      /\ queue'[Len(queue) + 1] = <<kind, r>>
  BY SubmitAppends DEF TypeOK
<1>2. QED
  BY <1>1 DEF NoStampFrom

(* A reader's error outlives every stamp that was submitted before it.     *)
LEMMA NotedStep ==
  ASSUME TypeOK, NEW s \in Serial, Noted(s), [Next]_vars
  PROVE  Noted(s)'
<1>1. ASSUME NEW r \in Serial, NEW force \in BOOLEAN, MarkSeen(r, force)
      PROVE  Noted(s)'
  <2>1. CASE r = s
    BY <1>1, <2>1 DEF MarkSeen, Noted
  <2>2. CASE r # s /\ Submit("stamp", r)
    <3>1. <<"stamp", r>> # <<"stamp", s>>
      BY <2>2
    <3>2. QED
      BY <1>1, <2>2, <3>1, SubmitKeeps DEF MarkSeen, Noted, lmsVars
  <2>3. CASE r # s /\ UNCHANGED <<lastWrite, queue>>
    BY <1>1, <2>3 DEF MarkSeen, Noted, NoStampFrom, lmsVars
  <2>4. QED
    BY <1>1, <2>1, <2>2, <2>3, Marks
<1>2. ASSUME NEW r \in Serial, PostEnds(r)
      PROVE  Noted(s)'
  BY <1>2 DEF PostEnds, Noted, NoStampFrom, throttleVars, lmsVars, history
<1>3. ASSUME NEW r \in Serial, PostFails(r)
      PROVE  Noted(s)'
  <2>1. CASE r = s
    <3>1. /\ Len(queue) \in Nat
          /\ DOMAIN queue' = 1..Len(queue) + 1
          /\ queue'[Len(queue) + 1] = <<"error", s>>
      BY <1>3, <2>1, SubmitAppends DEF PostFails, TypeOK
    <3>2. NoStampFrom(s, Len(queue) + 1)'
      BY <3>1 DEF NoStampFrom
    <3>3. QED
      BY <3>1, <3>2 DEF Noted, NoStampFrom
  <2>2. CASE r # s
    BY <1>3, <2>2, SubmitKeeps DEF PostFails, Noted, lmsVars
  <2>3. QED
    BY <2>1, <2>2
<1>4. CASE WriteOk \/ WriteUnavailable \/ WriteRaises
  <2>1. /\ Runs("stamp") /\ failed' = failed
        /\ s \in lastError /\ s # Reader => s \in lastError'
    BY <1>4
    DEF WriteOk, WriteUnavailable, WriteRaises, Stamp, history
  <2>2. queue # <<>> /\ queue[1] = <<"stamp", Reader>> /\ 1 \in DOMAIN queue
    BY <2>1, RunsMoves DEF TypeOK
  <2>3. NoStampFrom(s, 1) => s # Reader
    BY <2>2 DEF NoStampFrom
  <2>4. \A i \in DOMAIN queue : queue[i] = <<"error", s>> => i # 1
    BY <2>2
  <2>5. QED
    BY <2>1, <2>3, <2>4, RunsKeeps DEF Noted
<1>5. CASE RecordError
  <2>1. /\ Runs("error") /\ failed' = failed
        /\ lastError' = lastError \cup {Reader}
    BY <1>5 DEF RecordError, history
  <2>2. queue[1] = <<"error", Reader>>
    BY <2>1, RunsMoves
  <2>3. \A i \in DOMAIN queue : queue[i] = <<"error", s>> /\ i = 1 => s = Reader
    BY <2>2
  <2>4. QED
    BY <2>1, <2>3, RunsKeeps DEF Noted
<1>6. CASE RecordErrorFails
  <2>1. /\ Runs("error") /\ failed' = failed \ {Reader}
        /\ lastError \subseteq lastError'
    BY <1>6 DEF RecordErrorFails
  <2>2. queue[1] = <<"error", Reader>>
    BY <2>1, RunsMoves
  <2>3. \A i \in DOMAIN queue : queue[i] = <<"error", s>> /\ i = 1 => s = Reader
    BY <2>2
  <2>4. QED
    BY <2>1, <2>3, RunsKeeps DEF Noted
<1>7. CASE Tick \/ LmsChanges \/ Stop \/ Close \/ UNCHANGED vars
  BY <1>7 DEF Tick, LmsChanges, Stop, Close, vars, throttleVars, lmsVars,
              history, Noted, NoStampFrom
<1>8. QED
  BY <1>1, <1>2, <1>3, <1>4, <1>5, <1>6, <1>7, Steps

-----------------------------------------------------------------------------
(* The invariant holds in every reachable state.                           *)
LEMMA Invariance == Spec => []IInv
<1>1. Init => IInv
  BY Ages, LivenessAssumption
  DEF Init, IInv, TypeOK, Drained, Throttled, Noted, NoStampFrom
<1>2. IInv /\ [Next]_vars => IInv'
  BY TypeStep, DrainedStep, ThrottledStep, NotedStep DEF IInv
<1>3. QED
  BY <1>1, <1>2, PTL DEF Spec

(* The types of the throttle, the queue and the console's columns.         *)
THEOREM TypeCorrect == Spec => []TypeOK
<1>1. IInv => TypeOK
  BY DEF IInv
<1>2. QED
  BY <1>1, Invariance, PTL

(* liveness.py:24-30, 79-85: what the throttle leaves out is never more    *)
(* than a heartbeat newer than what the console shows.                     *)
THEOREM StampsAreFresh == Spec => []StampIsFresh
<1>1. IInv => StampIsFresh
  <2> SUFFICES ASSUME IInv, NEW s \in Serial \ unrecorded, ~Queued(s),
                      lastWrite[s] # Never
               PROVE  seenAt[s] # Never /\ seenAt[s] < contact[s] + Heartbeat
    BY DEF StampIsFresh
  <2>1. lastWrite[s] < contact[s] + Heartbeat /\ seenAt[s] <= lastWrite[s]
    BY NotQueued DEF IInv, Throttled
  <2>2. /\ lastWrite[s] \in 0..Never /\ seenAt[s] \in 0..Never
        /\ contact[s] \in 0..Never
    BY DEF IInv, TypeOK
  <2>3. QED
    BY <2>1, <2>2, LivenessAssumption DEF Never
<1>2. QED
  BY <1>1, Invariance, PTL

(* liveness.py:122-130: an error note is not undone by the contact that    *)
(* was recorded for the same request.                                      *)
THEOREM ErrorsShow == Spec => []ErrorShows
<1>1. IInv => ErrorShows
  <2> SUFFICES ASSUME IInv, NEW s \in failed, ~Queued(s)
               PROVE  s \in lastError
    BY DEF ErrorShows
  <2>1. Noted(s)
    BY DEF IInv, TypeOK
  <2>2. \A i \in DOMAIN queue : queue[i] # <<"error", s>>
    BY DEF Queued
  <2>3. QED
    BY <2>1, <2>2 DEF Noted
<1>2. QED
  BY <1>1, Invariance, PTL

-----------------------------------------------------------------------------
(* The steps from a stop to its end: the tasks left, and the close.        *)
ToClose == IF stage = "draining" THEN Len(queue) + 1 ELSE 0

(* A task at the head of the queue has a step that runs it, up or down.    *)
Runnable == Head(queue)[1] = "stamp" \/ (Head(queue)[1] = "error" /\ up \in BOOLEAN)

(* Once shutdown() waits, only the worker and the close change the queue   *)
(* and the stage, and both bring the end nearer.                           *)
LEMMA DrainingStep ==
  ASSUME TypeOK, Drained, [Next]_vars, stage = "draining"
  PROVE  /\ stage' \in {"draining", "closed"}
         /\ ToClose' <= ToClose
         /\ Writer \/ Close => ToClose' < ToClose
<1>1. Len(queue) \in Nat /\ ToClose = Len(queue) + 1 /\ awaiting = {}
  BY DEF ToClose, TypeOK, Drained
<1>2. CASE Writer
  <2>1. PICK kind \in {"stamp", "error"} : Runs(kind)
    BY <1>2 DEF Writer, WriteOk, WriteUnavailable, WriteRaises, RecordError,
                RecordErrorFails
  <2>2. Len(queue') = Len(queue) - 1
    BY <2>1, RunsMoves
  <2>3. stage' = stage
    BY <1>2 DEF Writer, WriteOk, WriteUnavailable, WriteRaises, RecordError,
                RecordErrorFails
  <2>4. ToClose' = Len(queue)
    BY <1>1, <2>2, <2>3 DEF ToClose
  <2>5. QED
    BY <1>1, <2>3, <2>4
<1>3. CASE Close
  <2>1. stage' = "closed"
    BY <1>3 DEF Close
  <2>2. ToClose' = 0
    BY <2>1 DEF ToClose
  <2>3. QED
    BY <1>1, <2>1, <2>2
<1>4. CASE Tick \/ LmsChanges \/ UNCHANGED vars
  <2>1. stage' = stage /\ queue' = queue
    BY <1>4 DEF Tick, LmsChanges, vars, throttleVars
  <2>2. ToClose' = ToClose /\ ~Writer /\ ~Close
    <3>1. ~Close
      BY <2>1 DEF Close
    <3>2. \A kind : ~Runs(kind)
      <4>1. SUFFICES ASSUME NEW kind, Runs(kind) PROVE FALSE
        OBVIOUS
      <4>2. Len(queue') = Len(queue) - 1
        BY <4>1, RunsMoves
      <4>3. QED
        BY <1>1, <2>1, <4>2
    <3>3. ~Writer
      BY <3>2 DEF Writer, WriteOk, WriteUnavailable, WriteRaises, RecordError,
                  RecordErrorFails
    <3>4. QED
      BY <2>1, <3>1, <3>3 DEF ToClose
  <2>3. QED
    BY <1>1, <2>1, <2>2
<1>5. ASSUME NEW s \in Serial, NEW force \in BOOLEAN,
             MarkSeen(s, force) \/ PostEnds(s) \/ PostFails(s)
      PROVE  FALSE
  BY <1>1, <1>5 DEF MarkSeen, PostEnds, PostFails
<1>6. ~Stop
  BY DEF Stop
<1>7. QED
  BY <1>2, <1>3, <1>4, <1>5, <1>6, Steps DEF Writer

(* ShutdownReturns without fairness: from the stop on nothing is submitted *)
(* and nothing goes back to the queue, an LMS that is away included; each  *)
(* task the worker runs, and then the close, is one step fewer of at most  *)
(* MaxQueue + 1, and one of the two can always be taken.                   *)
THEOREM ShutdownHeadsForClose ==
  Spec =>
    /\ [](stage = "draining" => /\ ToClose \in 1..MaxQueue + 1
                                /\ queue = <<>> \/ Runnable)
    /\ [][stage = "draining" =>
            /\ stage' \in {"draining", "closed"}
            /\ ToClose' <= ToClose
            /\ Writer \/ Close => ToClose' < ToClose]_vars
<1> DEFINE Bound == stage = "draining" => /\ ToClose \in 1..MaxQueue + 1
                                          /\ queue = <<>> \/ Runnable
           Nears == stage = "draining" =>
                      /\ stage' \in {"draining", "closed"}
                      /\ ToClose' <= ToClose
                      /\ Writer \/ Close => ToClose' < ToClose
<1>1. IInv => Bound
  <2> SUFFICES ASSUME IInv, stage = "draining"
               PROVE  /\ ToClose \in 1..MaxQueue + 1
                      /\ queue = <<>> \/ Runnable
    OBVIOUS
  <2>1. Len(queue) \in 0..MaxQueue /\ ToClose = Len(queue) + 1
    BY LivenessAssumption DEF IInv, TypeOK, ToClose
  <2>2. queue = <<>> \/ Head(queue) \in Task
    BY DEF IInv, TypeOK
  <2>3. queue = <<>> \/ Runnable
    BY <2>2 DEF Task, Runnable, IInv, TypeOK
  <2>4. QED
    BY <2>1, <2>3, LivenessAssumption
<1>2. IInv /\ [Next]_vars => Nears
  BY DrainingStep DEF IInv
<1> HIDE DEF Bound, Nears
<1>3. Spec => []Bound
  BY <1>1, Invariance, PTL
<1>4. Spec => [][Nears]_vars
  BY <1>2, Invariance, PTL DEF Spec
<1>5. QED
  BY <1>3, <1>4, PTL DEF Bound, Nears

-----------------------------------------------------------------------------
(* The place after which no stamp of s is queued, one task later.          *)
Ahead(i) == IF Writer /\ i > 1 THEN i - 1 ELSE i

(* A reader that does not call gets no new stamp: what was queued of it    *)
(* only moves towards the worker.                                          *)
QuietStep(s) ==
  ~Calls(s) =>
    /\ \A i \in 1..MaxQueue + 1 :
         NoStampFrom(s, i) => \A j \in DOMAIN queue' :
                                j >= Ahead(i) => queue'[j] # <<"stamp", s>>
    /\ NoStampFrom(s, 1) => seenAt'[s] >= seenAt[s]

(* The worker moves the queue by one, and stamps the reader of the head.   *)
LEMMA WorkerQuiets ==
  ASSUME TypeOK, NEW s \in Serial, Writer
  PROVE  QuietStep(s)
<1>1. PICK kind \in {"stamp", "error"} :
        /\ Runs(kind)
        /\ seenAt' # seenAt =>
             kind = "stamp" /\ seenAt' = [seenAt EXCEPT ![Reader] = 0]
  BY DEF Writer, WriteOk, WriteUnavailable, WriteRaises, RecordError,
         RecordErrorFails, Stamp
<1>2. /\ Len(queue) \in Nat /\ DOMAIN queue = 1..Len(queue)
      /\ DOMAIN queue' = 1..Len(queue) - 1
      /\ \A i \in DOMAIN queue' : queue'[i] = queue[i + 1]
      /\ 1 \in DOMAIN queue /\ queue[1] = <<kind, Reader>> /\ Reader \in Serial
  BY <1>1, RunsMoves DEF TypeOK
<1>3. ASSUME NEW i \in 1..MaxQueue + 1, NoStampFrom(s, i),
             NEW j \in DOMAIN queue', j >= Ahead(i)
      PROVE  queue'[j] # <<"stamp", s>>
  <2>1. j + 1 \in DOMAIN queue /\ j + 1 >= i
    BY <1>2, <1>3, LivenessAssumption DEF Ahead
  <2>2. QED
    BY <1>2, <1>3, <2>1 DEF NoStampFrom
<1>4. ASSUME NoStampFrom(s, 1)
      PROVE  seenAt'[s] >= seenAt[s]
  <2>1. seenAt[s] \in 0..Never
    BY DEF TypeOK
  <2>2. kind = "stamp" => s # Reader
    BY <1>2, <1>4 DEF NoStampFrom
  <2>3. seenAt'[s] = seenAt[s]
    BY <1>1, <2>2 DEF TypeOK
  <2>4. QED
    BY <2>1, <2>3
<1>5. QED
  BY <1>3, <1>4 DEF QuietStep

(* A task of another kind or of another reader goes behind the others.     *)
LEMMA SubmitQuiets ==
  ASSUME TypeOK, NEW s \in Serial, NEW r \in Serial,
         NEW kind \in {"stamp", "error"}, Submit(kind, r),
         kind = "stamp" => r # s, seenAt' = seenAt
  PROVE  QuietStep(s)
<1>1. /\ Len(queue) \in Nat /\ DOMAIN queue = 1..Len(queue)
      /\ DOMAIN queue' = 1..Len(queue) + 1
      /\ \A i \in DOMAIN queue : queue'[i] = queue[i]
      /\ queue'[Len(queue) + 1] = <<kind, r>>
  BY SubmitAppends DEF TypeOK
<1>2. ~Writer
  <2>1. SUFFICES ASSUME NEW k, Runs(k) PROVE FALSE
    BY DEF Writer, WriteOk, WriteUnavailable, WriteRaises, RecordError,
           RecordErrorFails
  <2>2. Len(queue') = Len(queue) - 1
    BY <2>1, RunsMoves
  <2>3. Len(queue') = Len(queue) + 1
    BY SubmitAppends
  <2>4. QED
    BY <1>1, <2>2, <2>3
<1>3. <<kind, r>> # <<"stamp", s>>
  OBVIOUS
<1>4. ASSUME NEW i \in 1..MaxQueue + 1, NoStampFrom(s, i),
             NEW j \in DOMAIN queue', j >= Ahead(i)
      PROVE  queue'[j] # <<"stamp", s>>
  <2>1. j >= i
    BY <1>2, <1>4 DEF Ahead
  <2>2. QED
    BY <1>1, <1>3, <1>4, <2>1 DEF NoStampFrom
<1>5. seenAt'[s] >= seenAt[s]
  <2>1. seenAt[s] \in 0..Never
    BY DEF TypeOK
  <2>2. QED
    BY <2>1
<1>6. QED
  BY <1>4, <1>5 DEF QuietStep

(* Every other step leaves the queue alone, and a stamp can only age.      *)
LEMMA RestQuiets ==
  ASSUME TypeOK, NEW s \in Serial, queue' = queue,
         seenAt' \in {seenAt, [r \in Serial |-> Older(seenAt[r])]}
  PROVE  QuietStep(s)
<1>1. ~Writer
  <2>1. SUFFICES ASSUME NEW k, Runs(k) PROVE FALSE
    BY DEF Writer, WriteOk, WriteUnavailable, WriteRaises, RecordError,
           RecordErrorFails
  <2>2. Len(queue') = Len(queue) - 1 /\ Len(queue) \in Nat
    BY <2>1, RunsMoves
  <2>3. QED
    BY <2>2
<1>2. ASSUME NEW i \in 1..MaxQueue + 1, NoStampFrom(s, i),
             NEW j \in DOMAIN queue', j >= Ahead(i)
      PROVE  queue'[j] # <<"stamp", s>>
  BY <1>1, <1>2 DEF Ahead, NoStampFrom
<1>3. seenAt'[s] >= seenAt[s]
  <2>1. seenAt[s] \in 0..Never /\ seenAt'[s] \in {seenAt[s], Older(seenAt[s])}
    BY DEF TypeOK
  <2>2. QED
    BY <2>1, LivenessAssumption DEF Older, Never
<1>4. QED
  BY <1>2, <1>3 DEF QuietStep

(* Any step but a call of s.                                               *)
LEMMA QuietStepHolds ==
  ASSUME TypeOK, NEW s \in Serial, [Next]_vars
  PROVE  QuietStep(s)
<1>1. ASSUME ~Calls(s), NEW r \in Serial, Calls(r)
      PROVE  QuietStep(s)
  <2>1. r # s
    BY <1>1
  <2>2. PICK force \in BOOLEAN : MarkSeen(r, force)
    BY <1>1 DEF Calls, Handshake, Poll, Post
  <2>3. seenAt' = seenAt
    BY <2>2 DEF MarkSeen, lmsVars
  <2>4. CASE Submit("stamp", r)
    BY <2>1, <2>3, <2>4, SubmitQuiets
  <2>5. CASE UNCHANGED <<lastWrite, queue>>
    BY <2>3, <2>5, RestQuiets
  <2>6. QED
    BY <2>2, <2>4, <2>5, Marks
<1>2. ASSUME NEW r \in Serial, PostFails(r)
      PROVE  QuietStep(s)
  <2>1. Submit("error", r) /\ seenAt' = seenAt
    BY <1>2 DEF PostFails, lmsVars
  <2>2. QED
    BY <2>1, SubmitQuiets
<1>3. ASSUME NEW r \in Serial, PostEnds(r)
      PROVE  QuietStep(s)
  BY <1>3, RestQuiets DEF PostEnds, throttleVars, lmsVars
<1>4. CASE Tick
  BY <1>4, RestQuiets DEF Tick
<1>5. CASE LmsChanges \/ Stop \/ Close \/ UNCHANGED vars
  BY <1>5, RestQuiets
  DEF LmsChanges, Stop, Close, vars, throttleVars, lmsVars
<1>6. CASE Calls(s)
  BY <1>6 DEF QuietStep
<1>7. QED
  BY <1>1, <1>2, <1>3, <1>4, <1>5, <1>6, WorkerQuiets DEF Next

(* QuietIsShown without fairness (liveness.py:79-82): unless the reader    *)
(* itself calls, no step queues a stamp of it, failed ones included; every *)
(* task run brings those queued one place nearer, and once they are gone   *)
(* nothing makes its last_seen_at younger.                                 *)
THEOREM QuietHeadsForSilence ==
  Spec => [][\A s \in Serial :
               ~Calls(s) =>
                 /\ \A i \in 1..MaxQueue + 1 :
                      NoStampFrom(s, i) =>
                        \A j \in DOMAIN queue' :
                          j >= Ahead(i) => queue'[j] # <<"stamp", s>>
                 /\ NoStampFrom(s, 1) => seenAt'[s] >= seenAt[s]]_vars
<1> DEFINE Quiet == \A s \in Serial :
                      ~Calls(s) =>
                        /\ \A i \in 1..MaxQueue + 1 :
                             NoStampFrom(s, i) =>
                               \A j \in DOMAIN queue' :
                                 j >= Ahead(i) => queue'[j] # <<"stamp", s>>
                        /\ NoStampFrom(s, 1) => seenAt'[s] >= seenAt[s]
<1>1. TypeOK /\ [Next]_vars => Quiet
  BY QuietStepHolds DEF QuietStep
<1> HIDE DEF Quiet
<1>2. Spec => [][Quiet]_vars
  BY <1>1, TypeCorrect, PTL DEF Spec
<1>3. QED
  BY <1>2, PTL DEF Quiet
=============================================================================
