----------------------------- MODULE PunchSpool -----------------------------
(***************************************************************************)
(* sync/spool.py: the class PunchSpool over the file system it uses.       *)
(*                                                                         *)
(* The spool is one append-only file of lines.  add() opens it for         *)
(* appending and writes a batch; drain() renames it to a staging name,     *)
(* reads the staging file and unlinks it.  Both run under a threading.Lock *)
(* that belongs to the PunchSpool INSTANCE, so LockOf says which lock each *)
(* thread takes: the service builds two instances on the same path, one in *)
(* push_ingest.py and one in supervisor.py.                                *)
(*                                                                         *)
(* A handle follows the file it opened, not the name: a thread that opened *)
(* the spool writes to that file after a rename, and to nothing that can   *)
(* be read again after an unlink.  The operators below are the steps of    *)
(* the methods; the module that composes them says who takes which, when.  *)
(***************************************************************************)
CONSTANTS
  Thread,   \* threads that call the spool
  LockOf,   \* LockOf[t]: the lock of the PunchSpool instance t calls
  Punch,    \* punches; one line of the file each
  Corrupt   \* a line that no longer parses

ASSUME SpoolAssumption == Corrupt \notin Punch

Name == {"spool", "draining"}

VARIABLES
  inside,   \* threads between acquiring and releasing their lock
  exists,   \* the names that a file has
  content,  \* content[n]: the lines of the file named n, if there is one
  torn,     \* names of files whose last line was cut before its newline
  fd        \* fd[t]: the file t has open: its name, "gone" or "closed"

spoolVars == <<inside, exists, content, torn, fd>>

SpoolTypeOK ==
  /\ inside \subseteq Thread
  /\ exists \subseteq Name
  /\ content \in [Name -> SUBSET (Punch \cup {Corrupt})]
  /\ torn \subseteq Name
  /\ fd \in [Thread -> Name \cup {"gone", "closed"}]

SpoolInit ==
  /\ inside = {}
  /\ exists = {}
  /\ content = [n \in Name |-> {}]
  /\ torn = {}
  /\ fd = [t \in Thread |-> "closed"]

-----------------------------------------------------------------------------
(* Bug: a line that does not parse is handed on.                           *)
ParsedOrNot(n) == content[n]

(* The lines of a file that parse as punches.                              *)
Parsed(n) == content[n] \ {Corrupt}

(* pending(): counts lines, parseable or not, and takes no lock.           *)
Pending == "spool" \in exists /\ content["spool"] # {}

LockFree(t) == \A u \in inside : LockOf[u] # LockOf[t]

(* Bug: the lock is not taken, only noted.                                 *)
AcquireAnyway(t) == inside' = inside \cup {t}

Acquire(t) == LockFree(t) /\ inside' = inside \cup {t}

Release(t) == inside' = inside \ {t}

(* A thread inside drain(), which has no handle open between its steps.    *)
Draining(t) == t \in inside /\ fd[t] = "closed"

-----------------------------------------------------------------------------
(* add(), first half: take the lock and open the spool with "a", which     *)
(* creates an empty file when the name is free.                            *)
OpenForAppend(t) ==
  /\ Acquire(t)
  /\ exists' = exists \cup {"spool"}
  /\ fd' = [fd EXCEPT ![t] = "spool"]
  /\ UNCHANGED <<content, torn>>

(* What the lines of `sent` become when appended to file n.  After a torn  *)
(* line the first of them continues it, and the two together do not parse. *)
Landed(n, sent) ==
  IF n \in torn /\ sent # {} THEN {sent \ {p} : p \in sent} ELSE {sent}

(* Append `sent` to the file t has open, and then `tail`: a line begun and *)
(* not finished, or nothing.                                               *)
AppendLines(t, sent, tail) ==
  IF fd[t] \notin Name
    THEN UNCHANGED <<content, torn>>
    ELSE /\ \E lines \in Landed(fd[t], sent) :
              content' = [content EXCEPT ![fd[t]] = @ \cup lines \cup tail]
         /\ torn' = IF tail # {} THEN torn \cup {fd[t]}
                    ELSE IF sent = {} THEN torn ELSE torn \ {fd[t]}

CloseAndRelease(t) ==
  /\ fd' = [fd EXCEPT ![t] = "closed"]
  /\ Release(t)
  /\ UNCHANGED exists

(* add(), second half: write every line, flush, fsync, close, unlock.      *)
WriteAll(t, sent) == AppendLines(t, sent, {}) /\ CloseAndRelease(t)

(* A write that does not come to its end: some of the lines are in the     *)
(* file, and the next one is possibly cut.                                 *)
WriteInPart(t, batch) ==
  \E sent \in SUBSET batch, tail \in {{}, {Corrupt}} :
    /\ sent = batch => tail = {}
    /\ AppendLines(t, sent, tail)

(* add(), with write() or fsync() raising OSError part-way.                *)
WriteFails(t, batch) == WriteInPart(t, batch) /\ CloseAndRelease(t)

-----------------------------------------------------------------------------
(* drain() with nothing to take: the file does not exist, or it is gone by *)
(* the time os.replace runs (an OSError).  The lock is taken and released. *)
FindNothing(t) ==
  /\ LockFree(t)
  /\ "spool" \notin exists
  /\ UNCHANGED spoolVars

(* drain(), with os.replace raising OSError on a file that is there, and   *)
(* stays there.                                                            *)
MoveFails(t) ==
  /\ LockFree(t)
  /\ "spool" \in exists
  /\ UNCHANGED spoolVars

(* drain(): os.replace(path, staging).  A file that already has the        *)
(* staging name loses it, with its lines.                                  *)
MoveAside(t) ==
  /\ Acquire(t)
  /\ "spool" \in exists
  /\ exists' = {"draining"}
  /\ content' = [content EXCEPT !["draining"] = content["spool"],
                                !["spool"] = {}]
  /\ torn' = IF "spool" \in torn THEN {"draining"} ELSE {}
  /\ fd' = [u \in Thread |-> CASE fd[u] = "spool"    -> "draining"
                               [] fd[u] = "draining" -> "gone"
                               [] OTHER              -> fd[u]]

(* Bug: drain() returns with the lock held.                                *)
UnlinkStagingKeepsLock(t) ==
  /\ exists' = exists \ {"draining"}
  /\ content' = [content EXCEPT !["draining"] = {}]
  /\ torn' = torn \ {"draining"}
  /\ fd' = [u \in Thread |-> IF fd[u] = "draining" THEN "gone" ELSE fd[u]]
  /\ UNCHANGED inside

(* drain(): staging.unlink(missing_ok=True), then unlock.                  *)
UnlinkStaging(t) ==
  /\ exists' = exists \ {"draining"}
  /\ content' = [content EXCEPT !["draining"] = {}]
  /\ torn' = torn \ {"draining"}
  /\ fd' = [u \in Thread |-> IF fd[u] = "draining" THEN "gone" ELSE fd[u]]
  /\ Release(t)

(* drain(), with the unlink raising OSError: the staging file stays.       *)
UnlinkFails(t) == Release(t) /\ UNCHANGED <<exists, content, torn, fd>>

(* The process ends: handles and locks go, the names and the files stay.   *)
SpoolReboot ==
  /\ inside' = {}
  /\ fd' = [t \in Thread |-> "closed"]
  /\ UNCHANGED exists
=============================================================================
