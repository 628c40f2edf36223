---------------------------- MODULE ReadersProofs ----------------------------
(***************************************************************************)
(* What the operations of Readers do to the profiles, the histories and    *)
(* the command queues, for any readers and any number of PINs: the lemmas  *)
(* on which the theorems about DeviceMigration and EmployeeDirectory rest. *)
(***************************************************************************)
EXTENDS Readers, SequenceTheorems, WellFoundedInduction, TLAPS

-----------------------------------------------------------------------------
(* Profiles and PINs                                                       *)

(* A profile with other templates is the same person's, under the same     *)
(* name.                                                                   *)
LEMMA Reprinted ==
  ASSUME NEW u \in Profile, NEW q \in Person \cup {NoPrint}
  PROVE  LET v == [u EXCEPT !.print = q]
         IN  /\ v \in Profile /\ v # NoUser
             /\ v.who = u.who /\ v.name = u.name
BY ReadersAssumption DEF Profile

(* Writing a profile (set_user) keeps the types of what readers store.     *)
LEMMA PutTypes ==
  ASSUME ReadersTypeOK, NEW r \in Reader, NEW p \in Pin, NEW new \in Profile,
         NEW by \in {"session", "command"}, Put(r, p, new, by)
  PROVE  /\ users' \in [Reader -> [Pin -> Profile \cup {NoUser}]]
         /\ held' \subseteq Person \X Reader \X Pin
         /\ replaced' \subseteq Replacement
<1> DEFINE old == users[r][p]
<1>1. old \in Profile \cup {NoUser}
  BY DEF ReadersTypeOK
<1>2. users' \in [Reader -> [Pin -> Profile \cup {NoUser}]]
  <2>1. ASSUME old # NoUser
        PROVE  [new EXCEPT !.print = old.print] \in Profile
    <3>1. old.print \in Person \cup {NoPrint}
      BY <1>1, <2>1 DEF Profile
    <3>2. QED
      BY <3>1, Reprinted
  <2>2. QED
    BY <2>1 DEF Put, ReadersTypeOK
<1>3. held' \subseteq Person \X Reader \X Pin
  BY DEF Put, ReadersTypeOK, Profile
<1>4. replaced' \subseteq Replacement
  <2>1. CASE old = NoUser \/ old.who = new.who
    BY <2>1 DEF Put, ReadersTypeOK
  <2>2. CASE old # NoUser
    <3>1. old.who \in Person
      BY <1>1, <2>2 DEF Profile
    <3>2. (old.name \in Person /\ old.name # new.name) \in BOOLEAN
      OBVIOUS
    <3>3. [who |-> old.who, reader |-> r, pin |-> p, by |-> by,
           clash |-> old.name \in Person /\ old.name # new.name] \in Replacement
      BY <3>1, <3>2 DEF Replacement
    <3>4. QED
      BY <2>1, <3>3 DEF Put, ReadersTypeOK
  <2>3. QED
    BY <2>1, <2>2
<1>5. QED
  BY <1>2, <1>3, <1>4

(* Deleting profiles (delete_user) keeps the types of what readers store.  *)
LEMMA DropTypes ==
  ASSUME ReadersTypeOK, NEW r \in Reader, NEW pins, Drop(r, pins)
  PROVE  users' \in [Reader -> [Pin -> Profile \cup {NoUser}]]
BY DEF ReadersTypeOK, Drop

(* Deleting templates keeps the types of what readers store.               *)
LEMMA UnprintTypes ==
  ASSUME ReadersTypeOK, NEW r \in Reader, NEW p \in Pin, Unprint(r, p)
  PROVE  users' \in [Reader -> [Pin -> Profile \cup {NoUser}]]
<1>1. ASSUME users[r][p] # NoUser
      PROVE  [users[r][p] EXCEPT !.print = NoPrint] \in Profile
  <2>1. users[r][p] \in Profile
    BY <1>1 DEF ReadersTypeOK
  <2>2. QED
    BY <2>1, Reprinted
<1>2. QED
  BY <1>1 DEF ReadersTypeOK, Unprint

(* user_name is a name.                                                    *)
LEMMA ShownNameType ==
  ASSUME NEW profile \in Profile, NEW p \in Pin
  PROVE  ShownName(profile, p) \in Name
BY DEF ShownName, Profile, Name

(* As long as there is room, the next free PIN exists.                     *)
LEMMA NextFreeIsFree ==
  ASSUME NEW taken \in SUBSET Pin, MaxPin \notin taken, NEW p \in Pin
  PROVE  NextFree(taken, p) \in Pin \ taken
<1> DEFINE free == {q \in Pin : q >= p /\ q \notin taken}
<1>1. MaxPin \in free /\ free \subseteq Nat
  BY ReadersAssumption DEF Pin
<1>2. \E q \in free : \A k \in free : <<k, q>> \notin OpToRel(<, Nat)
  <2> HIDE DEF free
  <2>1. QED
    BY <1>1, WFMin, NatLessThanWellFounded
<1>3. PICK q \in free : \A k \in free : ~(k < q)
  BY <1>1, <1>2 DEF OpToRel
<1>4. \A k \in p..(q - 1) : k \in taken
  BY <1>3, ReadersAssumption DEF Pin
<1>5. \E x \in Pin : /\ x >= p /\ x \notin taken
                     /\ \A k \in p..(x - 1) : k \in taken
  BY <1>3, <1>4
<1>6. QED
  BY <1>5 DEF NextFree

(* What a write leaves under the PIN it writes.                            *)
LEMMA PutStores ==
  ASSUME ReadersTypeOK, NEW r \in Reader, NEW p \in Pin, NEW new \in Profile,
         NEW by, Put(r, p, new, by)
  PROVE  /\ users'[r][p] # NoUser
         /\ users'[r][p].who = new.who /\ users'[r][p].name = new.name
         /\ \A q \in Reader, k \in Pin : <<q, k>> # <<r, p>> =>
              users'[q][k] = users[q][k]
<1> DEFINE old == users[r][p]
<1>1. users'[r][p] = IF old = NoUser \/ new.print # NoPrint
                       THEN new ELSE [new EXCEPT !.print = old.print]
  BY DEF Put, ReadersTypeOK
<1>2. new # NoUser
  BY ReadersAssumption
<1>3. ASSUME old # NoUser
      PROVE  LET v == [new EXCEPT !.print = old.print]
             IN  v # NoUser /\ v.who = new.who /\ v.name = new.name
  <2>1. old.print \in Person \cup {NoPrint}
    BY <1>3 DEF ReadersTypeOK, Profile
  <2>2. QED
    BY <2>1, Reprinted
<1>4. \A q \in Reader, k \in Pin : <<q, k>> # <<r, p>> =>
        users'[q][k] = users[q][k]
  BY DEF Put, ReadersTypeOK
<1>5. QED
  BY <1>1, <1>2, <1>3, <1>4

(* What a deletion leaves on the readers.                                  *)
LEMMA DropStores ==
  ASSUME ReadersTypeOK, NEW r \in Reader, NEW pins, Drop(r, pins)
  PROVE  \A q \in Reader, k \in Pin :
           users'[q][k] = IF q = r /\ k \in pins THEN NoUser ELSE users[q][k]
BY DEF ReadersTypeOK, Drop

(* The PIN a migration chooses is wanted or free; it is wanted only if it  *)
(* is free, or what it replaces has the same name or none.                 *)
LEMMA PinForIsPin ==
  ASSUME ReadersTypeOK, NEW r \in Reader, NEW p \in Pin, NEW name, HasRoom(r)
  PROVE  LET q == PinFor(r, p, name)
         IN  /\ q \in Pin
             /\ users[r][q] = NoUser \/ users[r][q].name \in {NoName, name}
             /\ q = p \/ users[r][p] # NoUser
<1>1. Stored(r) \in SUBSET Pin /\ MaxPin \notin Stored(r)
  BY DEF Stored, HasRoom
<1>2. NextFree(Stored(r), p) \in Pin \ Stored(r)
  BY <1>1, NextFreeIsFree
<1>3. QED
  BY <1>2 DEF PinFor, Stored

-----------------------------------------------------------------------------
(* What has been stored is recorded                                        *)

Recorded ==
  \A r \in Reader, p \in Pin :
    users[r][p] # NoUser => <<users[r][p].who, r, p>> \in held

(* The record holds at the start.                                          *)
LEMMA InitRecorded ==
  ReadersInit => Recorded
<1> SUFFICES ASSUME ReadersInit, NEW r \in Reader, NEW p \in Pin,
                    users[r][p] # NoUser
             PROVE  <<users[r][p].who, r, p>> \in held
  BY DEF Recorded
<1>1. <<r, p>> \in {t \in Reader \X Pin : Enrolled[t[1]][t[2]] # NoUser}
  BY DEF ReadersInit
<1>2. QED
  BY <1>1 DEF ReadersInit

(* The types hold at the start.                                            *)
LEMMA InitTypes ==
  ReadersInit => ReadersTypeOK
<1> SUFFICES ASSUME ReadersInit
             PROVE  ReadersTypeOK
  OBVIOUS
<1>1. held \subseteq Person \X Reader \X Pin
  <2>1. ASSUME NEW s \in Reader \X Pin, Enrolled[s[1]][s[2]] # NoUser
        PROVE  <<Enrolled[s[1]][s[2]].who, s[1], s[2]>> \in Person \X Reader \X Pin
    <3>1. Enrolled[s[1]][s[2]] \in Profile
      BY <2>1, ReadersAssumption
    <3>2. QED
      BY <3>1 DEF Profile
  <2>2. QED
    BY <2>1 DEF ReadersInit
<1>2. QED
  BY <1>1, ReadersAssumption DEF ReadersInit, ReadersTypeOK

(* Writing a profile records it, and forgets nothing.                      *)
LEMMA PutRecords ==
  ASSUME ReadersTypeOK, NEW r \in Reader, NEW p \in Pin, NEW new \in Profile,
         NEW by, Put(r, p, new, by)
  PROVE  /\ held \subseteq held' /\ replaced \subseteq replaced'
         /\ <<new.who, r, p>> \in held'
         /\ Recorded => Recorded'
<1>1. held' = held \cup {<<new.who, r, p>>} /\ replaced \subseteq replaced'
  BY DEF Put
<1>2. ASSUME Recorded, NEW q \in Reader, NEW k \in Pin, users'[q][k] # NoUser
      PROVE  <<users'[q][k].who, q, k>> \in held'
  <2>1. CASE q = r /\ k = p
    BY <1>1, <2>1, PutStores
  <2>2. CASE <<q, k>> # <<r, p>>
    <3>1. users'[q][k] = users[q][k]
      BY <2>2, PutStores
    <3>2. QED
      BY <1>1, <1>2, <3>1 DEF Recorded
  <2>3. QED
    BY <2>1, <2>2
<1>3. QED
  BY <1>1, <1>2 DEF Recorded

(* A deletion stores nothing new.                                          *)
LEMMA DropRecords ==
  ASSUME ReadersTypeOK, NEW r \in Reader, NEW pins, Drop(r, pins),
         UNCHANGED held
  PROVE  Recorded => Recorded'
BY DropStores DEF Recorded

-----------------------------------------------------------------------------
(* Carrying out a command                                                  *)

(* A command that leaves the queue is carried out, or its reply is lost.   *)
LEMMA PollExecutes ==
  ASSUME ReadersTypeOK, NEW r \in Reader, Poll(r)
  PROVE  /\ commands' \in [Reader -> Seq(Command)]
         /\ UNCHANGED <<conn, disabled>>
         /\ \/ UNCHANGED <<users, readerHistory>>
            \/ /\ UNCHANGED readerHistory
               /\ \E p \in Pin : Drop(r, {p}) \/ Unprint(r, p)
            \/ \E p \in Pin, a \in Person :
                 /\ Put(r, p, [who |-> a, name |-> a, print |-> NoPrint], "command")
                 /\ pushed' = pushed \cup {r}
<1>1. commands[r] \in Seq(Command) /\ commands[r] # <<>>
  BY DEF Poll, ReadersTypeOK
<1> DEFINE c == Head(commands[r])
<1>2. c \in Command /\ Tail(commands[r]) \in Seq(Command)
  BY <1>1
<1>3. commands' \in [Reader -> Seq(Command)] /\ UNCHANGED <<conn, disabled>>
  BY <1>2 DEF Poll, ReadersTypeOK
<1>4. Execute(r, c) \/ UNCHANGED <<users, readerHistory>>
  BY DEF Poll
<1> HIDE DEF c
<1>5. c.pin \in Pin /\ (c.kind = "create" => c.who \in Person)
  BY <1>2 DEF Command
<1>6. QED
  BY <1>3, <1>4, <1>5 DEF Execute

(* Polls keep the types.                                                   *)
LEMMA PollTypes ==
  ASSUME ReadersTypeOK, NEW r \in Reader, Poll(r)
  PROVE  ReadersTypeOK'
<1>1. CASE UNCHANGED <<users, readerHistory>>
  BY <1>1, PollExecutes DEF ReadersTypeOK, readerHistory
<1>2. ASSUME UNCHANGED readerHistory, NEW p \in Pin, Drop(r, {p}) \/ Unprint(r, p)
      PROVE  ReadersTypeOK'
  <2>1. users' \in [Reader -> [Pin -> Profile \cup {NoUser}]]
    BY <1>2, DropTypes, UnprintTypes
  <2>2. QED
    BY <1>2, <2>1, PollExecutes DEF ReadersTypeOK, readerHistory
<1>3. ASSUME NEW p \in Pin, NEW a \in Person,
             Put(r, p, [who |-> a, name |-> a, print |-> NoPrint], "command"),
             pushed' = pushed \cup {r}
      PROVE  ReadersTypeOK'
  <2> DEFINE new == [who |-> a, name |-> a, print |-> NoPrint]
  <2>1. new \in Profile
    BY DEF Profile, Name
  <2>2. Put(r, p, new, "command")
    BY <1>3
  <2> HIDE DEF new
  <2>3. /\ users' \in [Reader -> [Pin -> Profile \cup {NoUser}]]
        /\ held' \subseteq Person \X Reader \X Pin
        /\ replaced' \subseteq Replacement
    BY <2>1, <2>2, PutTypes
  <2>4. QED
    BY <1>3, <2>3, PollExecutes DEF ReadersTypeOK
<1>4. QED
  BY <1>1, <1>2, <1>3, PollExecutes

(* Polls forget nothing, and what they store is recorded.                  *)
LEMMA PollRecords ==
  ASSUME ReadersTypeOK, NEW r \in Reader, Poll(r)
  PROVE  /\ held \subseteq held' /\ replaced \subseteq replaced'
         /\ Recorded => Recorded'
<1>1. CASE UNCHANGED <<users, readerHistory>>
  BY <1>1 DEF Recorded, readerHistory
<1>2. ASSUME UNCHANGED readerHistory, NEW p \in Pin, Drop(r, {p})
      PROVE  /\ held \subseteq held' /\ replaced \subseteq replaced'
             /\ Recorded => Recorded'
  BY <1>2, DropRecords DEF readerHistory
<1>3. ASSUME UNCHANGED readerHistory, NEW p \in Pin, Unprint(r, p)
      PROVE  /\ held \subseteq held' /\ replaced \subseteq replaced'
             /\ Recorded => Recorded'
  <2>1. ASSUME NEW q \in Reader, NEW k \in Pin, users'[q][k] # NoUser
        PROVE  users[q][k] # NoUser /\ users'[q][k].who = users[q][k].who
    <3>1. CASE q = r /\ k = p
      <4>1. users[r][p] # NoUser /\ users[r][p] \in Profile
            /\ users'[r][p] = [users[r][p] EXCEPT !.print = NoPrint]
        BY <1>3, <2>1, <3>1 DEF Unprint, ReadersTypeOK
      <4>2. QED
        BY <3>1, <4>1, Reprinted
    <3>2. CASE ~(q = r /\ k = p)
      BY <1>3, <2>1, <3>2 DEF Unprint, ReadersTypeOK
    <3>3. QED
      BY <3>1, <3>2
  <2>2. QED
    BY <1>3, <2>1 DEF Recorded, readerHistory
<1>4. ASSUME NEW p \in Pin, NEW a \in Person,
             Put(r, p, [who |-> a, name |-> a, print |-> NoPrint], "command")
      PROVE  /\ held \subseteq held' /\ replaced \subseteq replaced'
             /\ Recorded => Recorded'
  <2> DEFINE new == [who |-> a, name |-> a, print |-> NoPrint]
  <2>1. new \in Profile
    BY DEF Profile, Name
  <2>2. Put(r, p, new, "command")
    BY <1>4
  <2> HIDE DEF new
  <2>3. QED
    BY <2>1, <2>2, PutRecords
<1>5. QED
  BY <1>1, <1>2, <1>3, <1>4, PollExecutes
=============================================================================
