----------------------------- MODULE MCDashboard -----------------------------
(* An instance of Dashboard for TLC.                                       *)
EXTENDS Dashboard, TLC

CONSTANTS A, ann, ben

\* An old punch and a new one.
Two == {[reader |-> A, pin |-> 1, time |-> 2],
        [reader |-> A, pin |-> 1, time |-> 1]}
BeforeWindow == {p \in Two : p.time = 1}

Rosters == A :> <<ann>>
InLms == <<ann>>
NoNames == [p \in Pin |-> NoName]
=============================================================================
