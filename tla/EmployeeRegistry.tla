-------------------------- MODULE EmployeeRegistry --------------------------
(***************************************************************************)
(* What core/employee_service.py amounts to for requests that come one by  *)
(* one, without threads, lists in memory or a file that is truncated       *)
(* first: a table in which a request changes one employee's record in one  *)
(* step, as that record stands then.  Nobody's change is lost, no removed  *)
(* record comes back, and what a dismissal or a removal answered is true.  *)
(* The promise is void once `broken`.                                      *)
(***************************************************************************)
EXTENDS Naturals

CONSTANTS Reader, Person, MaxPin, NoRecord,
          AtFirst  \* the table at the start

Record == [home: Reader, access: [Reader -> 0..MaxPin], gone: BOOLEAN]
Table == [Person -> Record \cup {NoRecord}]

VARIABLES
  table,   \* who works where, under which PINs, and who has left
  left,    \* people whose dismissal or removal was answered
  broken   \* something happened that the promise does not cover

rvars == <<table, left, broken>>

RInit == table = AtFirst /\ left = {} /\ broken = FALSE

HasLeft(e) == table[e] = NoRecord \/ table[e].gone

Amend(e, new) ==
  /\ table' = [table EXCEPT ![e] = new]
  /\ UNCHANGED <<left, broken>>

\* The new branch's reader is entered or not; only if it is may the entry of
\* the old one go.
Transfer(e, r, p) ==
  \E access \in {table[e].access,
                 [table[e].access EXCEPT ![r] = p],
                 [table[e].access EXCEPT ![table[e].home] = 0, ![r] = p]} :
    Amend(e, [table[e] EXCEPT !.home = r, !.access = access])

Grant(e, r, p) == Amend(e, [table[e] EXCEPT !.access[r] = p])

Revoke(e, r) == Amend(e, [table[e] EXCEPT !.access[r] = 0])

Dismiss(e) ==
  Amend(e, [table[e] EXCEPT !.gone = TRUE, !.access = [r \in Reader |-> 0]])

Remove(e) == Amend(e, NoRecord)

Answer(e) ==
  /\ HasLeft(e)
  /\ left' = left \cup {e}
  /\ UNCHANGED <<table, broken>>

Break ==
  /\ broken' = TRUE
  /\ table' \in Table
  /\ left' \subseteq Person

RNext ==
  \/ \E e \in Person :
       \/ /\ table[e] # NoRecord
          /\ \/ \E r \in Reader : \/ Revoke(e, r)
                                  \/ \E p \in 1..MaxPin :
                                       Transfer(e, r, p) \/ Grant(e, r, p)
             \/ Dismiss(e)
             \/ Remove(e)
       \/ Answer(e)
  \/ Break

RSpec == RInit /\ [][RNext]_rvars

\* Who was told to have left is not in service.
LeftForGood == ~broken => \A e \in left : HasLeft(e)
=============================================================================
