------------------------------ MODULE Readers -------------------------------
(***************************************************************************)
(* The fingerprint readers as app/core/device_migration.py uses them: the  *)
(* profiles they store by PIN, the one TCP connection each accepts, the    *)
(* keypad lock disable_device() sets, and the queue of ADMS commands each  *)
(* collects one at a time when it polls (router/iclock.py).                *)
(*                                                                         *)
(* Abstracted: a profile is whose it is, the name shown and one            *)
(* fingerprint slot; privilege, card, password, group and the reader's     *)
(* internal uid are left out.  Names are compared as the code compares     *)
(* them, after strip() and lower().                                        *)
(***************************************************************************)
EXTENDS Naturals, Sequences, FiniteSets

CONSTANTS
  Reader,      \* serial numbers
  Person,      \* employees; a person's full name stands for the person
  MaxPin,      \* bound on the PINs
  Enrolled,    \* the profiles at the start, [Reader -> [Pin -> Profile]]
  Worker,      \* asyncio.to_thread workers that talk to the readers
  NoUser,      \* no profile under that PIN
  NoName,      \* a profile enrolled at the keypad, without a name
  NoPrint,     \* no fingerprint template
  Nobody       \* no connection

Pin == 1..MaxPin

\* "User <pin>", the name given to a nameless profile, is the PIN itself.
Name == Person \cup Pin \cup {NoName}

Profile == [who: Person, name: Name, print: Person \cup {NoPrint}]

\* The wipe of a profile, the wipe of its templates, and the creation of one.
Command == [kind: {"wipe", "unprint"}, pin: Pin]
             \cup [kind: {"create"}, pin: Pin, who: Person]

ASSUME ReadersAssumption ==
  /\ MaxPin \in Nat \ {0}
  /\ Enrolled \in [Reader -> [Pin -> Profile \cup {NoUser}]]
  /\ NoUser \notin Profile
  /\ NoName \notin Person \cup Pin
  /\ Person \cap Pin = {}
  /\ NoPrint \notin Person
  /\ Nobody \notin Worker

VARIABLES
  users,       \* the profiles a reader stores
  conn,        \* the worker that holds a reader's TCP connection
  disabled,    \* readers whose keypad and sensor are locked
  commands,    \* DEVICE_COMMAND_QUEUE
  held,        \* history: <<person, reader, pin>> ever stored
  replaced,    \* history: the profiles another person's replaced
  pushed       \* history: readers that executed a queued creation

readerVars == <<users, conn, disabled, commands>>
readerHistory == <<held, replaced, pushed>>

Replacement ==
  [who: Person, reader: Reader, pin: Pin, clash: BOOLEAN,
   by: {"session", "command"}]

ReadersTypeOK ==
  /\ users \in [Reader -> [Pin -> Profile \cup {NoUser}]]
  /\ conn \in [Reader -> Worker \cup {Nobody}]
  /\ disabled \subseteq Reader
  /\ commands \in [Reader -> Seq(Command)]
  /\ held \subseteq Person \X Reader \X Pin
  /\ replaced \subseteq Replacement
  /\ pushed \subseteq Reader

ReadersInit ==
  /\ users = Enrolled
  /\ conn = [r \in Reader |-> Nobody]
  /\ disabled = {}
  /\ commands = [r \in Reader |-> <<>>]
  /\ held = {<<Enrolled[s[1]][s[2]].who, s[1], s[2]>> :
               s \in {t \in Reader \X Pin : Enrolled[t[1]][t[2]] # NoUser}}
  /\ replaced = {}
  /\ pushed = {}

-----------------------------------------------------------------------------
(* What a reader stores                                                    *)

Stored(r) == {p \in Pin : users[r][p] # NoUser}

\* conn.set_user (or a queued DATA UPDATE USERINFO) writes a profile under p.
\* An older profile under p is replaced; only the templates already stored
\* stay when the new profile brings none.
Put(r, p, new, by) ==
  LET old == users[r][p]
  IN  /\ users' = [users EXCEPT ![r][p] =
                     IF old = NoUser \/ new.print # NoPrint
                       THEN new
                       ELSE [new EXCEPT !.print = old.print]]
      /\ held' = held \cup {<<new.who, r, p>>}
      /\ replaced' =
           IF old = NoUser \/ old.who = new.who
             THEN replaced
             ELSE replaced \cup
                    {[who |-> old.who, reader |-> r, pin |-> p, by |-> by,
                      clash |-> old.name \in Person /\ old.name # new.name]}

\* user_name: the stored name, or "User <pin>".
ShownName(profile, p) == IF profile.name = NoName THEN p ELSE profile.name

\* A free PIN above all others is left: the bound on the PINs.
HasRoom(r) == MaxPin \notin Stored(r)

NextFree(taken, p) ==
  CHOOSE q \in Pin : /\ q >= p /\ q \notin taken
                     /\ \A k \in p..(q - 1) : k \in taken

\* Where a migration puts a profile with this name that is wanted under p:
\* there, unless a profile with another name has the PIN.
PinFor(r, p, name) ==
  IF users[r][p] # NoUser /\ users[r][p].name \notin {NoName, name}
    THEN NextFree(Stored(r), p)
    ELSE p

Drop(r, pins) ==
  users' = [users EXCEPT ![r] =
              [p \in Pin |-> IF p \in pins THEN NoUser ELSE users[r][p]]]

Unprint(r, p) ==
  users' = [users EXCEPT ![r][p] = IF @ = NoUser THEN @
                                   ELSE [@ EXCEPT !.print = NoPrint]]

-----------------------------------------------------------------------------
(* ADMS commands                                                           *)

\* The reader carries a command out.
Execute(r, c) ==
  \/ /\ c.kind = "wipe"
     /\ Drop(r, {c.pin})
     /\ UNCHANGED readerHistory
  \/ /\ c.kind = "unprint"
     /\ Unprint(r, c.pin)
     /\ UNCHANGED readerHistory
  \/ /\ c.kind = "create"
     /\ Put(r, c.pin, [who |-> c.who, name |-> c.who, print |-> NoPrint],
            "command")
     /\ pushed' = pushed \cup {r}

\* GET getrequest: the head of the queue leaves it before the reply is sent,
\* so a command whose reply is lost is never executed.
Poll(r) ==
  /\ commands[r] # <<>>
  /\ commands' = [commands EXCEPT ![r] = Tail(@)]
  /\ \/ Execute(r, Head(commands[r]))
     \/ UNCHANGED <<users, readerHistory>>
  /\ UNCHANGED <<conn, disabled>>
=============================================================================
