-------------------------- MODULE MCDeviceMigration -------------------------
(* Instances of DeviceMigration for TLC.                                   *)
EXTENDS DeviceMigration, TLC

CONSTANTS A, B, ann, ben, cal, dee, w1, w2

With(who, name, print) == [who |-> who, name |-> name, print |-> print]

\* PIN 1 is ann's on A and ben's on B; dee has no name on A.
TwoReaders ==
  (A :> (1 :> With(ann, ann, ann) @@ 2 :> With(dee, NoName, dee)
           @@ [p \in 3..MaxPin |-> NoUser]))
    @@ (B :> (1 :> With(ben, ben, ben) @@ [p \in 2..MaxPin |-> NoUser]))

Migrate(op, r, t, p, to) ==
  [op |-> op, reader |-> r, target |-> t, pin |-> p, to |-> to]
Delete(op, r, pins, prints) ==
  [op |-> op, reader |-> r, pins |-> pins, printsOnly |-> prints]

\* A move each way between the readers, a copy of a nameless profile, the
\* deletions and a creation that meet them at the same PINs.
Everything ==
  {Migrate("move", A, B, 1, 1), Migrate("move", B, A, 1, 2),
   Migrate("copy", A, B, 2, 2),
   [op |-> "create", reader |-> B, pin |-> 2, who |-> cal],
   [op |-> "create", reader |-> B, pin |-> 1, who |-> cal],
   Delete("delete", B, {2}, FALSE), Delete("batch", A, {1, 2}, FALSE),
   Delete("delete", A, {1}, TRUE), Delete("batch", B, {1}, TRUE),
   [op |-> "fetch", reader |-> A]}

Threads == Permutations(Worker)

OneMove == {Migrate("move", A, B, 1, 1)}
=============================================================================
