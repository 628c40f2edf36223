------------------------ MODULE MCEmployeeDirectory -------------------------
(* Instances of EmployeeDirectory for TLC.                                 *)
EXTENDS EmployeeDirectory, TLC

CONSTANTS A, B, ann, ben, cal, w1, w2

Profile1(who, name) == [who |-> who, name |-> name, print |-> who]
Works(r, p) ==
  [home |-> r, access |-> [x \in Reader |-> IF x = r THEN p ELSE 0],
   gone |-> FALSE]

\* ann and ben have PIN 1, each on a reader of their own; cal has no name on A.
TwoBranches ==
  (A :> (1 :> Profile1(ann, ann) @@ 2 :> Profile1(cal, NoName)
           @@ [p \in 3..MaxPin |-> NoUser]))
    @@ (B :> (1 :> Profile1(ben, ben) @@ [p \in 2..MaxPin |-> NoUser]))

Ids == ann :> 1 @@ ben :> 1 @@ cal :> 2

\* cal was hired after the first start.
FirstList == ann :> Works(A, 1) @@ ben :> Works(B, 1) @@ cal :> NoRecord
CurrentList == ann :> Works(A, 1) @@ ben :> Works(B, 1) @@ cal :> Works(A, 2)

Transfer(e, r, mode) == [op |-> "transfer", who |-> e, to |-> r, mode |-> mode]
Grant(e, r) == [op |-> "grant", who |-> e, to |-> r]
Revoke(e, r, prints) ==
  [op |-> "revoke", who |-> e, at |-> r, printsOnly |-> prints]
Fire(e, r, action, prints) ==
  [op |-> "fire", who |-> e, at |-> r, action |-> action,
   printsOnly |-> prints]
Delete(e, wipe) == [op |-> "delete", who |-> e, wipe |-> wipe]
List == [op |-> "list", who |-> ann]

Everything ==
  {Transfer(ann, B, "move"), Transfer(ben, A, "none"), Grant(cal, B),
   Grant(ann, B), Revoke(ann, B, FALSE), Fire(ann, Nowhere, "fire_all", FALSE),
   Fire(cal, A, "delete_device", TRUE), Fire(ben, A, "other", FALSE),
   Fire(ben, Nowhere, "delete_device", FALSE), Delete(ann, TRUE), Delete(cal, FALSE), List}

\* So the theorems about an agreeing start are about these instances too.
ASSUME AgreementAssumption == StartsInAgreement

OffboardThenDelete == {Fire(ann, Nowhere, "fire_all", FALSE), Delete(ann, TRUE)}

Threads == Permutations(Worker)
=============================================================================
