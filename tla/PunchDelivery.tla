--------------------------- MODULE PunchDelivery ---------------------------
(***************************************************************************)
(* What the capture service promises the LMS about a pushed punch, with no *)
(* threads, files or transactions in sight (README, "A pushed punch        *)
(* arrives exactly once"; sync/push_ingest.py, module docstring): a punch  *)
(* whose request was answered is stored or held, and a held punch leaves   *)
(* only by being stored.  The promise is void once `broken`.               *)
(***************************************************************************)
CONSTANT Punch

VARIABLES
  held,      \* punches kept for the LMS
  stored,    \* punches in the LMS
  answered,  \* punches whose request was answered
  broken     \* something happened that the promise does not cover

dvars == <<held, stored, answered, broken>>

DInit == held = {} /\ stored = {} /\ answered = {} /\ broken = FALSE

Keep(P) ==
  /\ held' = held \cup (P \ stored)
  /\ UNCHANGED <<stored, broken>>

Store(P) ==
  /\ stored' = stored \cup P
  /\ held' = held \ P
  /\ UNCHANGED broken

(* A request is answered in the step that keeps or stores its punches.     *)
Answers(P) == answered' \in {answered, answered \cup P}

Break ==
  /\ broken' = TRUE
  /\ stored \subseteq stored' /\ stored' \subseteq Punch
  /\ answered \subseteq answered' /\ answered' \subseteq Punch
  /\ held' \subseteq Punch

DNext ==
  \/ \E P \in SUBSET Punch : (Keep(P) \/ Store(P)) /\ Answers(P)
  \/ Break

DSpec == DInit /\ [][DNext]_dvars
=============================================================================
