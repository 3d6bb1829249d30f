---------------------------- MODULE Sending_proofs ----------------------------
(***************************************************************************)
(* For every set of contacts, groups, messages and empty messages: what    *)
(* Sending promises of the wire, of the session table and of the table of  *)
(* empty messages in progress.                                             *)
(***************************************************************************)
EXTENDS Sending, TLAPS

(* A message keeps its receiver, is not tried more often than it may be,   *)
(* and only goes through the stages there are for its receiver.            *)
Fits(s, m) ==
    /\ m.to = To(s) /\ m.try <= Attempts(s)
    /\ m.at \in {"devices", "trust"} => ~ToGroup(s)
    /\ m.at = "participants" => ToGroup(s)

AllFit == \A s \in Sends : Fits(s, send[s])
Typed == TypeOK /\ AllFit

(* A message that may be out has no <proto> left to be built from, and is  *)
(* not about to be written.                                                *)
WrittenIsSpent ==
    \A x \in wire :
        /\ x.id \in Sends => ~send[x.id].proto /\ send[x.id].at # "write"
        /\ x.id \in Empties => Is(x.id, "done")

BuiltIsSpent == \A s \in Sends : At(s, "write") => ~send[s].proto /\ send[s].todo = {}

(* An attempt at a group, but for the last, accounts for every member:     *)
(* among the jids to look up, those done or to be done, those without a    *)
(* session, or those whose keys were refused.                              *)
Accounts(m, M) ==
    /\ m.at = "check" => UsersOf(m.jids) = M
    /\ m.at = "keys" => UsersOf(m.todo) \cup m.lacking = M
    /\ m.at \in {"encrypt", "write"} => UsersOf(m.todo \cup m.done) \cup m.refused = M
    /\ m.at \in {"new", "participants", "check", "keys"} => m.done = {} /\ m.refused = {}

MembersAccounted ==
    \A s \in Sends :
        ToGroup(s) /\ send[s].try < Attempts(s) => Accounts(send[s], Members[To(s)])

(* Who deletes a session has a copy of it; while it is missing, someone is *)
(* about to put it back, or was cancelled, or has failed to put it back.   *)
DeletesWithBackup == \A e \in Empties : Is(e, "delete") => empty[e].backup

Repairs(e) ==
    \/ empty[e].at \in {"stuck", "cancelled", "unrestored"}
    \/ empty[e].at \in {"keys", "restore"} /\ empty[e].backup

MissingIsRepaired ==
    \A c \in Known \ sessions : \E e \in Empties : For[e] = c /\ Repairs(e)
-----------------------------------------------------------------------------
(* What the operators on jids give. *)
LEMMA UsersOfBare == ASSUME NEW U PROVE UsersOf(Bare(U)) = U
<1>1. \A u \in U : <<u, Account>> \in Bare(U) /\ <<u, Account>>[1] = u
  BY DEF Bare
<1> QED BY <1>1 DEF UsersOf, Bare

LEMMA UsersOfUnion == ASSUME NEW I, NEW J PROVE UsersOf(I \cup J) = UsersOf(I) \cup UsersOf(J)
BY DEF UsersOf

LEMMA UsersOfJids == ASSUME NEW J \in SUBSET Jids PROVE UsersOf(J) \subseteq Contacts
BY DEF UsersOf, Jids

LEMMA BareIsJids == ASSUME NEW U \in SUBSET Contacts PROVE Bare(U) \in SUBSET Jids
BY SendingAssumption DEF Bare, Jids

LEMMA RaisedType ==
    ASSUME Typed, NEW s \in Sends
    PROVE  Raised(s) \in Messages /\ Fits(s, Raised(s))
<1>1. /\ send[s] \in Messages /\ send[s].try \in 1..3
      /\ send[s].try <= Attempts(s) /\ Attempts(s) \in 1..3
  BY DEF Typed, TypeOK, AllFit, Fits, Messages, Attempts
<1> DEFINE m == [send[s] EXCEPT !.jids = {}, !.todo = {}, !.done = {}, !.refused = {}]
<1>2. m \in Messages /\ m.try = send[s].try /\ m.to = To(s)
  BY <1>1 DEF Messages, To
<1>3. CASE m.try = Attempts(s)
  BY <1>1, <1>2, <1>3 DEF Raised, Fits, Messages, Ends
<1>4. CASE m.try # Attempts(s)
  <2> DEFINE next == CASE ToList(s) -> "check" [] m.try = 1 -> "participants" [] OTHER -> "encrypt"
  <2>1. next \in {"check", "participants", "encrypt"}
    OBVIOUS
  <2>2. m.try + 1 \in 1..3 /\ m.try + 1 <= Attempts(s)
    BY <1>1, <1>2, <1>4
  <2>3. ToGroup(s)
    BY <1>1, <1>2, <1>4 DEF Attempts
  <2>4. Raised(s) = [m EXCEPT !.try = m.try + 1, !.at = next]
    BY <1>4 DEF Raised
  <2> HIDE DEF next, m
  <2> QED BY <1>2, <2>1, <2>2, <2>3, <2>4 DEF Messages, Stages, Fits
<1> QED BY <1>3, <1>4

LEMMA InitType == Init => Typed
<1> SUFFICES ASSUME Init PROVE Typed
  OBVIOUS
<1>1. PICK to \in [Sends -> Contacts \cup Groups] :
        send = [s \in Sends |-> [to |-> to[s], at |-> "new", try |-> 1, proto |-> TRUE,
                                 jids |-> {}, todo |-> {}, done |-> {},
                                 lacking |-> {}, refused |-> {}]]
  BY DEF Init
<1>2. send \in [Sends -> Messages]
  BY <1>1 DEF Messages, Stages
<1>3. AllFit
  BY <1>1 DEF AllFit, Fits, Attempts, To
<1>4. DOMAIN entries = {}
  BY DEF Init
<1> QED BY <1>2, <1>3, <1>4, SendingAssumption DEF Init, Typed, TypeOK, EmptyStages

LEMMA GoType ==
    ASSUME Typed, NEW s \in Sends, NEW m \in Messages, Go(s, m), Fits(s, m),
           sessions' \subseteq Contacts, wire' \subseteq Stanzas, UNCHANGED <<empty, entries>>
    PROVE  Typed' /\ \A r \in Sends : To(r)' = To(r)
<1>1. /\ send' \in [Sends -> Messages] /\ send'[s] = m
      /\ \A r \in Sends \ {s} : send'[r] = send[r]
  BY DEF Typed, TypeOK, Go
<1>2. \A r \in Sends : To(r)' = To(r)
  BY <1>1 DEF Fits, To
<1>3. TypeOK'
  BY <1>1 DEF Typed, TypeOK
<1>4. \A r \in Sends : Fits(r, send[r])'
  BY <1>1, <1>2 DEF Typed, AllFit, Fits, Attempts, ToGroup, ToList
<1> QED BY <1>2, <1>3, <1>4 DEF Typed, AllFit

(* Every step of a message keeps the types and the receivers. *)
LEMMA StepsType ==
    ASSUME Typed, NEW s \in Sends, Steps(s)
    PROVE  Typed' /\ \A r \in Sends : To(r)' = To(r)
<1> DEFINE Goal == Typed' /\ \A r \in Sends : To(r)' = To(r)
<1>1. /\ send[s] \in Messages /\ Fits(s, send[s])
      /\ sessions \subseteq Contacts /\ wire \subseteq Stanzas
  BY DEF Typed, TypeOK, AllFit
<1>2. ASSUME Go(s, Raised(s)), sessions' \subseteq Contacts, wire' \subseteq Stanzas,
             UNCHANGED <<empty, entries>>
      PROVE  Goal
  BY <1>2, RaisedType, GoType
<1>3. ToGroup(s) => Bare(Members[To(s)]) \in SUBSET Jids
  BY SendingAssumption, BareIsJids DEF ToGroup
<1>4. ToList(s) => ToGroup(s)
  BY SendingAssumption DEF ToList, ToGroup
<1>5. ASSUME NEW J \in SUBSET Jids, Go(s, Check(s, J)),
             sessions' \subseteq Contacts, wire' \subseteq Stanzas, UNCHANGED <<empty, entries>>
      PROVE  Goal
  <2>1. Check(s, J) \in Messages /\ Fits(s, Check(s, J))
    BY <1>1 DEF Check, Messages, Stages, Fits
  <2> QED BY <1>5, <2>1, GoType
<1>6. CASE Begin(s)
  <2>1. CASE ToList(s)
    BY <1>1, <1>3, <1>4, <1>5, <1>6, <2>1 DEF Begin
  <2>2. CASE ~ToList(s)
    <3> DEFINE m == [send[s] EXCEPT !.at = IF ToGroup(s) THEN "participants" ELSE "devices"]
    <3>1. m \in Messages /\ Fits(s, m)
      BY <1>1 DEF Messages, Stages, Fits
    <3> QED BY <1>1, <1>6, <2>2, <3>1, GoType DEF Begin
  <2> QED BY <2>1, <2>2
<1>7. CASE DevicesKnown(s)
  <2>1. PICK J \in {{To(s)} \X Devices, Bare({To(s)}), {}} : Go(s, Check(s, J))
    BY <1>7 DEF DevicesKnown
  <2>2. To(s) \in Contacts
    BY <1>1, <1>7 DEF DevicesKnown, At, Fits, ToGroup, To, Messages
  <2>3. J \in SUBSET Jids
    BY <2>2, SendingAssumption DEF Jids, Bare
  <2> QED BY <1>1, <1>5, <1>7, <2>1, <2>3 DEF DevicesKnown
<1>8. CASE ParticipantsKnown(s)
  <2>1. ToGroup(s)
    BY <1>1, <1>8 DEF ParticipantsKnown, At, Fits
  <2> QED BY <1>1, <1>3, <1>5, <1>8, <2>1 DEF ParticipantsKnown
<1>9. CASE ParticipantsUnknown(s) \/ TrustFails(s) \/ WithoutProto(s)
  BY <1>1, <1>2, <1>9 DEF ParticipantsUnknown, TrustFails, WithoutProto
<1>10. CASE SessionsChecked(s)
  <2> DEFINE J == send[s].jids
             lacking == Lacking(J)
             m == [send[s] EXCEPT !.at = IF lacking # {} THEN "keys" ELSE "encrypt",
                                  !.jids = {},
                                  !.todo = IF ToGroup(s) /\ lacking = {} THEN J ELSE WithSession(J),
                                  !.lacking = lacking]
  <2>1. J \in SUBSET Jids /\ lacking \in SUBSET Contacts
    BY <1>1, UsersOfJids DEF Messages, Lacking
  <2>2. WithSession(J) \in SUBSET Jids
    BY <1>1, BareIsJids DEF WithSession
  <2>3. m \in Messages /\ Fits(s, m)
    BY <1>1, <2>1, <2>2 DEF Messages, Stages, Fits
  <2> QED BY <1>1, <1>10, <2>3, GoType DEF SessionsChecked
<1>11. CASE KeysAnswered(s)
  <2>1. PICK new \in SUBSET (send[s].lacking \ sessions) :
           sessions' = sessions \cup new /\ Go(s, WithKeys(s, sessions'))
    BY <1>11 DEF KeysAnswered
  <2>2. sessions' \subseteq Contacts
    BY <1>1, <2>1 DEF Messages
  <2>3. Bare(send[s].lacking \cap sessions') \in SUBSET Jids
    BY <1>1, BareIsJids DEF Messages
  <2>4. WithKeys(s, sessions') \in Messages /\ Fits(s, WithKeys(s, sessions'))
    BY <1>1, <2>3 DEF WithKeys, Messages, Stages, Fits
  <2> QED BY <1>1, <1>11, <2>1, <2>2, <2>4, GoType DEF KeysAnswered
<1>12. CASE Trusted(s)
  <2> DEFINE m == [send[s] EXCEPT !.at = IF send[s].todo = {} THEN "returned" ELSE "encrypt"]
  <2>1. m \in Messages /\ Fits(s, m)
    BY <1>1 DEF Messages, Stages, Ends, Fits
  <2> QED BY <1>1, <1>12, <2>1, GoType DEF Trusted
<1>13. CASE Encrypted(s)
  <2>1. PICK j \in send[s].todo :
          Go(s, IF j[1] \in sessions
                THEN [send[s] EXCEPT !.todo = @ \ {j}, !.done = @ \cup {j}]
                ELSE Raised(s))
    BY <1>13 DEF Encrypted
  <2> DEFINE m == [send[s] EXCEPT !.todo = @ \ {j}, !.done = @ \cup {j}]
  <2>2. m \in Messages /\ Fits(s, m)
    BY <1>1 DEF Messages, Stages, Fits
  <2> QED BY <1>1, <1>2, <1>13, <2>1, <2>2, GoType DEF Encrypted
<1>14. CASE Build(s)
  <2>1. Built(s) \in Messages /\ Fits(s, Built(s))
    BY <1>1 DEF Built, Messages, Stages, Fits
  <2> QED BY <1>1, <1>14, <2>1, GoType DEF Build
<1>15. Stanza(s, send[s].done, send[s].refused, send[s].try) \in Stanzas
  BY <1>1 DEF Stanza, Stanzas, Messages
<1>16. CASE Write(s)
  <2> DEFINE m == [send[s] EXCEPT !.at = "returned", !.done = {}, !.refused = {}]
  <2>1. m \in Messages /\ Fits(s, m)
    BY <1>1 DEF Messages, Ends, Fits
  <2> QED BY <1>1, <1>15, <1>16, <2>1, GoType DEF Write, Written
<1>17. CASE WriteFails(s)
  BY <1>1, <1>2, <1>15, <1>17 DEF WriteFails, Written
<1> QED
  BY <1>6, <1>7, <1>8, <1>9, <1>10, <1>11, <1>12, <1>13, <1>14, <1>16, <1>17 DEF Steps

LEMMA EmptyType ==
    ASSUME Typed, NEW e \in Empties, EmptySteps(e) \/ EmptyCancelled(e)
    PROVE  Typed' /\ send' = send /\ \A d \in Empties \ {e} : empty'[d] = empty[d]
<1> USE DEF Typed, TypeOK
<1>1. For[e] \in Contacts
  BY SendingAssumption
<1>2. ASSUME NEW stage \in EmptyStages, Move(e, stage)
      PROVE  /\ empty' \in [Empties -> [at : EmptyStages, backup : BOOLEAN]]
             /\ \A d \in Empties \ {e} : empty'[d] = empty[d]
  BY <1>2 DEF Move
<1>3. \A entry \in {Entered(e), Cleared(e)} :
         DOMAIN entry \subseteq Contacts /\ \A c \in DOMAIN entry : entry[c] \in Empties
  BY <1>1 DEF Entered, Cleared
<1>4. ASSUME wire' \subseteq Stanzas, sessions' \subseteq Contacts, UNCHANGED send,
             entries' \in {entries, Entered(e), Cleared(e)}, NEW stage \in EmptyStages, Move(e, stage)
      PROVE  Typed' /\ send' = send /\ \A d \in Empties \ {e} : empty'[d] = empty[d]
  BY <1>2, <1>3, <1>4 DEF AllFit, Fits, To, Attempts, ToGroup, ToList
<1>5. CASE EmptyBegins(e)
  BY <1>4, <1>5 DEF EmptyBegins, EmptyStages
<1>6. CASE EmptyLooks(e)
  BY <1>6 DEF EmptyLooks, EmptyStages, AllFit, Fits, To, Attempts, ToGroup, ToList
<1>7. CASE EmptyDeletes(e)
  BY <1>4, <1>7 DEF EmptyDeletes, Deletes, EmptyStages
<1>8. CASE EmptyHasKeys(e)
  BY <1>1, <1>4, <1>8 DEF EmptyHasKeys, EmptyStages
<1>9. CASE EmptyRefused(e) \/ EmptyEncrypts(e) \/ EmptyWriteFails(e)
  BY <1>4, <1>9 DEF EmptyRefused, EmptyEncrypts, EmptyWriteFails, EmptyFails, EmptyStages
<1>10. CASE EmptyWrites(e)
  <2>1. Stanza(e, Bare({For[e]}), {}, 1) \in Stanzas
    BY <1>1, BareIsJids DEF Stanza, Stanzas
  <2> QED BY <1>4, <1>10, <2>1 DEF EmptyWrites, EmptyStages
<1>11. CASE EmptyRestores(e) \/ EmptyRestoreFails(e)
  BY <1>1, <1>4, <1>11 DEF EmptyRestores, EmptyRestoreFails, HalfRestored, EmptyStages
<1>12. CASE EmptyCancelled(e)
  BY <1>1, <1>4, <1>12 DEF EmptyCancelled, Deletes, HalfRestored, EmptyStages
<1> QED
  BY <1>5, <1>6, <1>7, <1>8, <1>9, <1>10, <1>11, <1>12 DEF EmptySteps

LEMMA TypeStep == Typed /\ [Next]_vars => Typed' /\ \A s \in Sends : To(s)' = To(s)
<1> SUFFICES ASSUME Typed, [Next]_vars PROVE Typed' /\ \A s \in Sends : To(s)' = To(s)
  OBVIOUS
<1>1. ASSUME NEW e \in Empties, EmptySteps(e) \/ EmptyCancelled(e)
      PROVE  Typed' /\ \A s \in Sends : To(s)' = To(s)
  BY <1>1, EmptyType DEF To
<1>2. CASE Disconnect
  <2>1. DOMAIN entries' = {}
    BY <1>2 DEF Disconnect
  <2> QED BY <1>2, <2>1 DEF Disconnect, Typed, TypeOK, AllFit, Fits, To, Attempts, ToGroup, ToList
<1>3. CASE UNCHANGED vars
  BY <1>3 DEF vars, Typed, TypeOK, AllFit, Fits, To, Attempts, ToGroup, ToList
<1> QED BY <1>1, <1>2, <1>3, StepsType DEF Next
-----------------------------------------------------------------------------
(* What a step of a message does, as far as the wire and its <proto> go:   *)
(* it is written, at "write", and goes on without being able to be built   *)
(* again; or it is built; or none of both.                                 *)
SentInv == WrittenIsSpent /\ BuiltIsSpent /\ SentOnce

LEMMA RaisedKeepsProto ==
    ASSUME Typed, NEW s \in Sends
    PROVE  Raised(s).proto = send[s].proto /\ Raised(s).at # "write" /\ Raised(s).todo = {}
<1>1. send[s] \in Messages
  BY DEF Typed, TypeOK
<1> QED BY <1>1 DEF Raised, Messages

Plain(s) ==
    /\ wire' = wire /\ ~At(s, "write") /\ ~At(s, "write")'
    /\ send'[s].proto = send[s].proto
Builds(s) ==
    /\ wire' = wire /\ ~At(s, "write") /\ At(s, "write")'
    /\ send[s].proto /\ ~send'[s].proto /\ send'[s].todo = {}
Writes(s) ==
    /\ At(s, "write") /\ ~At(s, "write")' /\ send'[s].proto = send[s].proto
    /\ \E x : x.id = s /\ wire' \in {wire, wire \cup {x}}

LEMMA WireSteps ==
    ASSUME Typed, NEW s \in Sends, Steps(s)
    PROVE  /\ \A r \in Sends \ {s} : send'[r] = send[r]
           /\ UNCHANGED empty
           /\ Plain(s) \/ Builds(s) \/ Writes(s)
<1> DEFINE Others == \A r \in Sends \ {s} : send'[r] = send[r]
<1>1. send \in [Sends -> Messages] /\ send[s] \in Messages
  BY DEF Typed, TypeOK
<1>2. ASSUME NEW m, Go(s, m)
      PROVE  send'[s] = m /\ Others
  BY <1>1, <1>2 DEF Go
<1>3. ASSUME NEW m, Go(s, m), m.at # "write", m.proto = send[s].proto, ~At(s, "write"), wire' = wire
      PROVE  Plain(s) /\ Others
  BY <1>2, <1>3 DEF Plain, At
<1>4. CASE Begin(s)
  <2> DEFINE m == [send[s] EXCEPT !.at = IF ToGroup(s) THEN "participants" ELSE "devices"]
  <2>1. m.at # "write" /\ m.proto = send[s].proto
    BY <1>1 DEF Messages
  <2>2. \A J : Check(s, J).at # "write" /\ Check(s, J).proto = send[s].proto
    BY <1>1 DEF Messages, Check
  <2> HIDE DEF m
  <2>3. Go(s, Check(s, Bare(Members[To(s)]))) \/ Go(s, m)
    BY <1>4 DEF Begin, m
  <2> QED BY <1>3, <1>4, <2>1, <2>2, <2>3 DEF Begin, At
<1>5. CASE DevicesKnown(s) \/ ParticipantsKnown(s)
  <2>1. PICK J : Go(s, Check(s, J))
    BY <1>5 DEF DevicesKnown, ParticipantsKnown
  <2>2. Check(s, J).at # "write" /\ Check(s, J).proto = send[s].proto
    BY <1>1 DEF Messages, Check
  <2> QED BY <1>3, <1>5, <2>1, <2>2 DEF DevicesKnown, ParticipantsKnown, At
<1>6. CASE ParticipantsUnknown(s) \/ TrustFails(s) \/ WithoutProto(s)
  BY <1>3, <1>6, RaisedKeepsProto DEF ParticipantsUnknown, TrustFails, WithoutProto, At
<1>7. CASE SessionsChecked(s)
  <2> DEFINE J == send[s].jids
             lacking == Lacking(J)
             m == [send[s] EXCEPT !.at = IF lacking # {} THEN "keys" ELSE "encrypt",
                                  !.jids = {},
                                  !.todo = IF ToGroup(s) /\ lacking = {} THEN J ELSE WithSession(J),
                                  !.lacking = lacking]
  <2>1. m.at # "write" /\ m.proto = send[s].proto
    BY <1>1 DEF Messages
  <2>2. Go(s, m)
    BY <1>7 DEF SessionsChecked
  <2> HIDE DEF m
  <2> QED BY <1>3, <1>7, <2>1, <2>2 DEF SessionsChecked, At
<1>8. CASE KeysAnswered(s)
  <2>1. WithKeys(s, sessions').at # "write" /\ WithKeys(s, sessions').proto = send[s].proto
    BY <1>1 DEF Messages, WithKeys
  <2> QED BY <1>3, <1>8, <2>1 DEF KeysAnswered, At
<1>9. CASE Trusted(s)
  <2> DEFINE m == [send[s] EXCEPT !.at = IF send[s].todo = {} THEN "returned" ELSE "encrypt"]
  <2>1. m.at # "write" /\ m.proto = send[s].proto
    BY <1>1 DEF Messages
  <2>2. Go(s, m)
    BY <1>9 DEF Trusted
  <2> HIDE DEF m
  <2> QED BY <1>3, <1>9, <2>1, <2>2 DEF Trusted, At
<1>10. CASE Encrypted(s)
  <2>1. PICK j \in send[s].todo :
          Go(s, IF j[1] \in sessions
                THEN [send[s] EXCEPT !.todo = @ \ {j}, !.done = @ \cup {j}]
                ELSE Raised(s))
    BY <1>10 DEF Encrypted
  <2> DEFINE m == [send[s] EXCEPT !.todo = @ \ {j}, !.done = @ \cup {j}]
  <2>2. m.at = send[s].at /\ m.proto = send[s].proto
    BY <1>1 DEF Messages
  <2>3. Go(s, m) \/ Go(s, Raised(s))
    BY <2>1
  <2> HIDE DEF m
  <2> QED BY <1>3, <1>10, <2>2, <2>3, RaisedKeepsProto DEF Encrypted, At
<1>11. CASE Build(s)
  <2>1. Built(s).at = "write" /\ ~Built(s).proto /\ Built(s).todo = send[s].todo
    BY <1>1 DEF Messages, Built
  <2> QED BY <1>2, <1>11, <2>1 DEF Build, Builds, At
<1>12. CASE Write(s) \/ WriteFails(s)
  <2> DEFINE m == [send[s] EXCEPT !.at = "returned", !.done = {}, !.refused = {}]
             x == Stanza(s, send[s].done, send[s].refused, send[s].try)
  <2>1. m.at # "write" /\ m.proto = send[s].proto
    BY <1>1 DEF Messages
  <2>2. Go(s, m) \/ Go(s, Raised(s))
    BY <1>12 DEF Write, WriteFails
  <2>3. x.id = s /\ wire' \in {wire, wire \cup {x}}
    BY <1>12 DEF Write, WriteFails, Written, Stanza
  <2> HIDE DEF m, x
  <2>4. send'[s].at # "write" /\ send'[s].proto = send[s].proto /\ Others
    BY <1>2, <2>1, <2>2, RaisedKeepsProto
  <2> QED BY <1>12, <2>3, <2>4 DEF Write, WriteFails, Writes, At
<1> HIDE DEF Others
<1>13. UNCHANGED empty
  BY DEF Steps, Begin, DevicesKnown, ParticipantsKnown, ParticipantsUnknown, SessionsChecked,
         KeysAnswered, Trusted, TrustFails, Encrypted, WithoutProto, Build, Write, WriteFails
<1> QED
  BY <1>4, <1>5, <1>6, <1>7, <1>8, <1>9, <1>10, <1>11, <1>12, <1>13 DEF Steps, Others

(* SentOnce with what makes it inductive is kept by every step. *)
LEMMA SentStep == Typed /\ SentInv /\ [Next]_vars => SentInv'
<1> SUFFICES ASSUME Typed, SentInv, [Next]_vars PROVE SentInv'
  OBVIOUS
<1> USE DEF SentInv
<1>1. ASSUME NEW s \in Sends, Steps(s) PROVE SentInv'
  <2>1. /\ \A r \in Sends \ {s} : send'[r] = send[r]
        /\ UNCHANGED empty
        /\ Plain(s) \/ Builds(s) \/ Writes(s)
    BY <1>1, WireSteps
  <2>2. s \notin Empties
    BY SendingAssumption
  <2>3. CASE Plain(s)
    BY <2>1, <2>3 DEF Plain, WrittenIsSpent, BuiltIsSpent, SentOnce, At, Is
  <2>4. CASE Builds(s)
    <3>1. \A x \in wire : x.id # s
      BY <2>4 DEF Builds, WrittenIsSpent
    <3> QED BY <2>1, <2>4, <3>1 DEF Builds, WrittenIsSpent, BuiltIsSpent, SentOnce, At, Is
  <2>5. CASE Writes(s)
    <3>1. PICK x : x.id = s /\ wire' \in {wire, wire \cup {x}}
      BY <2>5 DEF Writes
    <3>2. \A y \in wire : y.id # s
      BY <2>5 DEF Writes, WrittenIsSpent, At
    <3>3. ~send[s].proto /\ ~send'[s].proto /\ send'[s].at # "write"
      BY <2>5 DEF Writes, BuiltIsSpent, At
    <3>4. SentOnce'
      BY <3>1, <3>2 DEF SentOnce
    <3>5. WrittenIsSpent'
      BY <2>1, <2>2, <3>1, <3>3 DEF WrittenIsSpent, Is
    <3>6. BuiltIsSpent'
      BY <2>1, <3>3 DEF BuiltIsSpent, At
    <3> QED BY <3>4, <3>5, <3>6
  <2> QED BY <2>1, <2>3, <2>4, <2>5
<1>2. ASSUME NEW e \in Empties, EmptySteps(e) \/ EmptyCancelled(e) PROVE SentInv'
  <2>1. send' = send /\ \A d \in Empties \ {e} : empty'[d] = empty[d]
    BY <1>2, EmptyType
  <2>2. ~Is(e, "done") /\ e \notin Sends
    BY <1>2, SendingAssumption
    DEF EmptySteps, EmptyBegins, EmptyLooks, EmptyDeletes, EmptyHasKeys, EmptyRefused,
        EmptyEncrypts, EmptyWrites, EmptyWriteFails, EmptyRestores, EmptyRestoreFails, EmptyCancelled, Is
  <2>3. \A x \in wire : x.id # e
    BY <2>2 DEF WrittenIsSpent
  <2>4. CASE EmptyWrites(e)
    <3>1. Is(e, "done")'
      BY <2>4 DEF EmptyWrites, Move, Is, Typed, TypeOK
    <3>2. PICK x : x.id = e /\ wire' = wire \cup {x}
      BY <2>4 DEF EmptyWrites, Stanza
    <3> QED
      BY <2>1, <2>2, <2>3, <3>1, <3>2 DEF WrittenIsSpent, BuiltIsSpent, SentOnce, At, Is
  <2>5. CASE ~EmptyWrites(e)
    <3>1. wire' = wire
      BY <1>2, <2>5
      DEF EmptySteps, EmptyBegins, EmptyLooks, EmptyDeletes, EmptyHasKeys, EmptyRefused,
          EmptyEncrypts, EmptyWriteFails, EmptyRestores, EmptyRestoreFails,
          EmptyCancelled
    <3> QED BY <2>1, <2>3, <3>1 DEF WrittenIsSpent, BuiltIsSpent, SentOnce, At, Is
  <2> QED BY <2>4, <2>5
<1>3. CASE Disconnect \/ UNCHANGED vars
  BY <1>3 DEF Disconnect, vars, WrittenIsSpent, BuiltIsSpent, SentOnce, At, Is
<1> QED BY <1>1, <1>2, <1>3 DEF Next
-----------------------------------------------------------------------------
DistInv == MembersAccounted /\ BuiltIsSpent /\ Distributed

LEMMA RaisedAccounts ==
    ASSUME Typed, NEW s \in Sends, ToGroup(s), Raised(s).try < Attempts(s), NEW M
    PROVE  Accounts(Raised(s), M)
<1>1. send[s] \in Messages /\ Fits(s, send[s]) /\ send[s].try \in 1..3
  BY DEF Typed, TypeOK, AllFit, Messages
<1> DEFINE m == [send[s] EXCEPT !.jids = {}, !.todo = {}, !.done = {}, !.refused = {}]
<1>2. m \in Messages /\ m.try = send[s].try /\ m.done = {} /\ m.refused = {}
  BY <1>1 DEF Messages
<1>3. m.try # Attempts(s)
  <2>1. m.try = Attempts(s) => Raised(s) = [m EXCEPT !.at = "failed"]
    BY DEF Raised
  <2> HIDE DEF m
  <2> QED BY <1>2, <2>1 DEF Messages
<1>4. m.try = 1 /\ ~ToList(s)
  BY <1>1, <1>2, <1>3 DEF Raised, Attempts, Messages
<1>5. Raised(s) = [m EXCEPT !.try = m.try + 1, !.at = "participants"]
  BY <1>3, <1>4 DEF Raised
<1> HIDE DEF m
<1> QED BY <1>2, <1>5 DEF Accounts, Messages

(* Whoever leads a message on accounts for the members. *)
LEMMA AccountsStep ==
    ASSUME Typed, MembersAccounted, NEW s \in Sends, Steps(s), ToGroup(s),
           send'[s].try < Attempts(s)
    PROVE  Accounts(send'[s], Members[To(s)])
<1> DEFINE M == Members[To(s)]
<1>1. send \in [Sends -> Messages] /\ send[s] \in Messages /\ Fits(s, send[s])
  BY DEF Typed, TypeOK, AllFit
<1>2. \A m : Go(s, m) => send'[s] = m
  BY <1>1 DEF Go
<1>3. UsersOf(Bare(M)) = M
  BY UsersOfBare
<1>4. CASE Begin(s)
  <2>1. send[s].try < Attempts(s) => send[s].done = {} /\ send[s].refused = {}
    BY <1>4 DEF MembersAccounted, Accounts, Begin, At
  <2>2. CASE ToList(s)
    <3>1. send'[s] = Check(s, Bare(M))
      BY <1>2, <1>4, <2>2 DEF Begin
    <3> QED BY <1>1, <1>3, <2>1, <3>1 DEF Check, Accounts, Messages
  <2>3. CASE ~ToList(s)
    <3>1. send'[s] = [send[s] EXCEPT !.at = "participants"]
      BY <1>2, <1>4, <2>3 DEF Begin
    <3> QED BY <1>1, <2>1, <3>1 DEF Accounts, Messages
  <2> QED BY <2>2, <2>3
<1>5. CASE DevicesKnown(s) \/ Trusted(s) \/ TrustFails(s)
  BY <1>1, <1>5 DEF DevicesKnown, Trusted, TrustFails, At, Fits
<1>6. CASE ParticipantsKnown(s)
  <2>1. send'[s] = Check(s, Bare(M))
    BY <1>2, <1>6 DEF ParticipantsKnown
  <2>2. send[s].try < Attempts(s) => send[s].refused = {}
    BY <1>6 DEF MembersAccounted, Accounts, ParticipantsKnown, At
  <2> QED BY <1>1, <1>3, <2>1, <2>2 DEF Check, Accounts, Messages
<1>7. CASE ParticipantsUnknown(s) \/ WithoutProto(s)
  BY <1>2, <1>7, RaisedAccounts DEF ParticipantsUnknown, WithoutProto
<1>8. CASE SessionsChecked(s)
  <2> DEFINE J == send[s].jids
             lacking == Lacking(J)
             todo == IF ToGroup(s) /\ lacking = {} THEN J ELSE WithSession(J)
             m == [send[s] EXCEPT !.at = IF lacking # {} THEN "keys" ELSE "encrypt",
                                  !.jids = {}, !.todo = todo, !.lacking = lacking]
  <2>1. send'[s] = m
    BY <1>2, <1>8 DEF SessionsChecked
  <2>2. m.try = send[s].try /\ m.todo = todo /\ m.lacking = lacking /\ m.done = send[s].done
        /\ m.refused = send[s].refused /\ m.at = IF lacking # {} THEN "keys" ELSE "encrypt"
    BY <1>1 DEF Messages
  <2>3. UsersOf(J) = M /\ send[s].done = {} /\ send[s].refused = {}
    BY <1>8, <2>1, <2>2 DEF MembersAccounted, Accounts, SessionsChecked, At
  <2>4. UsersOf(todo) \cup lacking = M
    BY <2>3, UsersOfBare DEF WithSession, Lacking
  <2> HIDE DEF m, todo, lacking
  <2> QED BY <2>1, <2>2, <2>3, <2>4 DEF Accounts
<1>9. CASE KeysAnswered(s)
  <2> DEFINE ok == send[s].lacking \cap sessions'
             m == WithKeys(s, sessions')
  <2>1. send'[s] = m
    BY <1>2, <1>9 DEF KeysAnswered
  <2>2. m.try = send[s].try /\ m.todo = send[s].todo \cup Bare(ok) /\ m.done = send[s].done
        /\ m.refused = send[s].lacking \ sessions' /\ m.at = "encrypt"
    BY <1>1 DEF Messages, WithKeys
  <2>3. UsersOf(send[s].todo) \cup send[s].lacking = M /\ send[s].done = {}
    BY <1>9, <2>1, <2>2 DEF MembersAccounted, Accounts, KeysAnswered, At
  <2>4. UsersOf(m.todo \cup m.done) = UsersOf(send[s].todo) \cup ok
    <3>1. m.todo \cup m.done = send[s].todo \cup Bare(ok)
      BY <2>2, <2>3
    <3> QED BY <3>1, UsersOfUnion, UsersOfBare
  <2> HIDE DEF m
  <2> QED BY <2>1, <2>2, <2>3, <2>4 DEF Accounts
<1>10. CASE Encrypted(s)
  <2>1. PICK j \in send[s].todo :
          Go(s, IF j[1] \in sessions
                THEN [send[s] EXCEPT !.todo = @ \ {j}, !.done = @ \cup {j}]
                ELSE Raised(s))
    BY <1>10 DEF Encrypted
  <2> DEFINE m == [send[s] EXCEPT !.todo = @ \ {j}, !.done = @ \cup {j}]
  <2>2. CASE j[1] \in sessions
    <3>1. send'[s] = m
      BY <1>2, <2>1, <2>2
    <3>2. m.at = "encrypt" /\ m.try = send[s].try /\ m.refused = send[s].refused
          /\ m.todo \cup m.done = send[s].todo \cup send[s].done
      BY <1>1, <1>10 DEF Messages, Encrypted, At
    <3>3. UsersOf(send[s].todo \cup send[s].done) \cup send[s].refused = M
      BY <1>10, <3>1, <3>2 DEF MembersAccounted, Accounts, Encrypted, At
    <3> HIDE DEF m
    <3> QED BY <3>1, <3>2, <3>3 DEF Accounts
  <2>3. CASE j[1] \notin sessions
    BY <1>2, <2>1, <2>3, RaisedAccounts
  <2> QED BY <2>2, <2>3
<1>11. CASE Build(s)
  <2>1. send'[s] = [send[s] EXCEPT !.at = "write", !.proto = FALSE]
    BY <1>2, <1>11 DEF Build, Built
  <2> QED BY <1>1, <1>11, <2>1 DEF MembersAccounted, Accounts, Messages, Build, At
<1>12. CASE Write(s)
  <2>1. send'[s] = [send[s] EXCEPT !.at = "returned", !.done = {}, !.refused = {}]
    BY <1>2, <1>12 DEF Write
  <2> QED BY <1>1, <2>1 DEF Accounts, Messages
<1>13. CASE WriteFails(s)
  BY <1>2, <1>13, RaisedAccounts DEF WriteFails
<1> QED
  BY <1>4, <1>5, <1>6, <1>7, <1>8, <1>9, <1>10, <1>11, <1>12, <1>13 DEF Steps

LEMMA DistStep == Typed /\ DistInv /\ [Next]_vars => MembersAccounted' /\ Distributed'
<1> SUFFICES ASSUME Typed, DistInv, [Next]_vars PROVE MembersAccounted' /\ Distributed'
  OBVIOUS
<1> USE DEF DistInv
<1>1. \A s \in Sends : To(s)' = To(s) /\ ToGroup(s)' = ToGroup(s) /\ Attempts(s)' = Attempts(s)
  BY TypeStep DEF ToGroup, ToList, Attempts
<1>2. ASSUME NEW s \in Sends, Steps(s) PROVE MembersAccounted' /\ Distributed'
  <2>1. \A r \in Sends \ {s} : send'[r] = send[r]
    BY <1>2, WireSteps
  <2>2. MembersAccounted'
    BY <1>1, <1>2, <2>1, AccountsStep DEF MembersAccounted
  <2>3. CASE wire' = wire
    BY <1>1, <2>2, <2>3 DEF Distributed
  <2>4. CASE wire' # wire
    <3> DEFINE x == Stanza(s, send[s].done, send[s].refused, send[s].try)
    <3>1. At(s, "write") /\ wire' = wire \cup {x}
      BY <1>2, <2>4
      DEF Steps, Begin, DevicesKnown, ParticipantsKnown, ParticipantsUnknown, SessionsChecked,
          KeysAnswered, Trusted, TrustFails, Encrypted, WithoutProto, Build, Write, WriteFails,
          Written
    <3>2. x.id = s /\ x.to = send[s].done /\ x.refused = send[s].refused /\ x.try = send[s].try
      BY DEF Stanza
    <3>3. send[s].todo \cup send[s].done = send[s].done
      BY <3>1 DEF BuiltIsSpent
    <3>4. ToGroup(s) /\ x.try < Attempts(s) => UsersOf(x.to) \cup x.refused = Members[To(s)]
      BY <3>1, <3>2, <3>3 DEF MembersAccounted, Accounts, At
    <3> HIDE DEF x
    <3> QED BY <1>1, <2>2, <3>1, <3>2, <3>4 DEF Distributed
  <2> QED BY <2>2, <2>3, <2>4
<1>3. ASSUME NEW e \in Empties, EmptySteps(e) \/ EmptyCancelled(e)
      PROVE  MembersAccounted' /\ Distributed'
  <2>1. send' = send
    BY <1>3, EmptyType
  <2>2. PICK x : x.id = e /\ wire' \in {wire, wire \cup {x}}
    <3> DEFINE y == Stanza(e, Bare({For[e]}), {}, 1)
    <3>1. y.id = e
      BY DEF Stanza
    <3>2. wire' \in {wire, wire \cup {y}}
      BY <1>3
      DEF EmptySteps, EmptyBegins, EmptyLooks, EmptyDeletes, EmptyHasKeys, EmptyRefused,
          EmptyEncrypts, EmptyWrites, EmptyWriteFails, EmptyRestores, EmptyRestoreFails,
          EmptyCancelled
    <3> HIDE DEF y
    <3> QED BY <3>1, <3>2
  <2>3. e \notin Sends
    BY SendingAssumption
  <2>4. MembersAccounted'
    BY <1>1, <2>1 DEF MembersAccounted
  <2>5. \A z \in wire' : z.id \in Sends => z \in wire
    BY <2>2, <2>3
  <2> QED BY <1>1, <2>4, <2>5 DEF Distributed
<1>4. CASE Disconnect \/ UNCHANGED vars
  BY <1>1, <1>4 DEF Disconnect, vars, MembersAccounted, Distributed
<1> QED BY <1>2, <1>3, <1>4 DEF Next
-----------------------------------------------------------------------------
SessionInv == DeletesWithBackup /\ MissingIsRepaired

(* The step of one call of send_empty_message: it may take the contact's   *)
(* session away, then it is one to put it back.                            *)
LEMMA EmptyRepairs ==
    ASSUME Typed, DeletesWithBackup, NEW e \in Empties, EmptySteps(e) \/ EmptyCancelled(e)
    PROVE  /\ sessions \ {For[e]} \subseteq sessions'
           /\ Repairs(e) \/ For[e] \in sessions => Repairs(e)' \/ For[e] \in sessions'
           /\ Is(e, "delete")' => empty'[e].backup
<1>1. /\ empty \in [Empties -> [at : EmptyStages, backup : BOOLEAN]]
      /\ empty[e] \in [at : EmptyStages, backup : BOOLEAN]
  BY DEF Typed, TypeOK
<1>2. ASSUME NEW stage, Move(e, stage)
      PROVE  empty'[e].at = stage /\ empty'[e].backup = empty[e].backup
  BY <1>1, <1>2 DEF Move
<1> USE DEF Repairs, Is
<1>3. CASE EmptyLooks(e)
  BY <1>1, <1>3 DEF EmptyLooks
<1>4. CASE EmptyDeletes(e)
  BY <1>2, <1>4 DEF EmptyDeletes, Deletes, DeletesWithBackup
<1>5. CASE EmptyCancelled(e)
  BY <1>2, <1>5 DEF EmptyCancelled, Deletes, HalfRestored
<1>6. CASE EmptyHasKeys(e) \/ EmptyRestores(e) \/ EmptyRestoreFails(e)
  BY <1>2, <1>6 DEF EmptyHasKeys, EmptyRestores, EmptyRestoreFails, HalfRestored
<1>7. CASE EmptyRefused(e) \/ EmptyEncrypts(e) \/ EmptyWriteFails(e)
  BY <1>2, <1>7 DEF EmptyRefused, EmptyEncrypts, EmptyWriteFails, EmptyFails
<1>8. CASE EmptyBegins(e) \/ EmptyWrites(e)
  BY <1>2, <1>8 DEF EmptyBegins, EmptyWrites
<1> QED BY <1>3, <1>4, <1>5, <1>6, <1>7, <1>8 DEF EmptySteps

LEMMA SessionStep == Typed /\ SessionInv /\ [Next]_vars => SessionInv'
<1> SUFFICES ASSUME Typed, SessionInv, [Next]_vars PROVE SessionInv'
  OBVIOUS
<1> USE DEF SessionInv
<1>1. ASSUME NEW s \in Sends, Steps(s) PROVE SessionInv'
  <2>1. empty' = empty
    BY <1>1, WireSteps
  <2>2. sessions \subseteq sessions'
    BY <1>1
    DEF Steps, Begin, DevicesKnown, ParticipantsKnown, ParticipantsUnknown, SessionsChecked,
        KeysAnswered, Trusted, TrustFails, Encrypted, WithoutProto, Build, Write, WriteFails
  <2> QED BY <2>1, <2>2 DEF DeletesWithBackup, MissingIsRepaired, Repairs, Is
<1>2. ASSUME NEW e \in Empties, EmptySteps(e) \/ EmptyCancelled(e) PROVE SessionInv'
  <2>1. \A d \in Empties \ {e} : empty'[d] = empty[d]
    BY <1>2, EmptyType
  <2>2. /\ sessions \ {For[e]} \subseteq sessions'
        /\ Repairs(e) \/ For[e] \in sessions => Repairs(e)' \/ For[e] \in sessions'
        /\ Is(e, "delete")' => empty'[e].backup
    BY <1>2, EmptyRepairs
  <2>3. DeletesWithBackup'
    BY <2>1, <2>2 DEF DeletesWithBackup, Is
  <2>4. ASSUME NEW c \in Known \ sessions'
        PROVE  \E d \in Empties : For[d] = c /\ Repairs(d)'
    <3>1. CASE c \in sessions
      BY <2>2, <2>4, <3>1
    <3>2. CASE c \notin sessions
      <4>1. PICK d \in Empties : For[d] = c /\ Repairs(d)
        BY <2>4, <3>2 DEF MissingIsRepaired
      <4>2. CASE d = e
        BY <2>2, <2>4, <4>1, <4>2
      <4>3. CASE d # e
        BY <2>1, <4>1, <4>3 DEF Repairs
      <4> QED BY <4>2, <4>3
    <3> QED BY <3>1, <3>2
  <2> QED BY <2>3, <2>4 DEF MissingIsRepaired
<1>3. CASE Disconnect \/ UNCHANGED vars
  BY <1>3 DEF Disconnect, vars, DeletesWithBackup, MissingIsRepaired, Repairs, Is
<1> QED BY <1>1, <1>2, <1>3 DEF Next
-----------------------------------------------------------------------------
(* Whoever is over is no longer entered: Freed is inductive by itself.     *)
LEMMA FreedStep == Typed /\ Freed /\ [Next]_vars => Freed'
<1> SUFFICES ASSUME Typed, Freed, [Next]_vars PROVE Freed'
  OBVIOUS
<1>1. ASSUME NEW s \in Sends, Steps(s) PROVE Freed'
  <2>1. empty' = empty
    BY <1>1, WireSteps
  <2>2. entries' = entries
    BY <1>1
    DEF Steps, Begin, DevicesKnown, ParticipantsKnown, ParticipantsUnknown, SessionsChecked,
        KeysAnswered, Trusted, TrustFails, Encrypted, WithoutProto, Build, Write, WriteFails
  <2> QED BY <2>1, <2>2 DEF Freed, Busy, Is
<1>2. ASSUME NEW e \in Empties, EmptySteps(e) \/ EmptyCancelled(e) PROVE Freed'
  <2>1. /\ empty \in [Empties -> [at : EmptyStages, backup : BOOLEAN]]
        /\ \A d \in Empties \ {e} : empty'[d] = empty[d]
    BY <1>2, EmptyType DEF Typed, TypeOK
  <2>2. ASSUME NEW stage, Move(e, stage) PROVE empty'[e].at = stage
    BY <2>1, <2>2 DEF Move
  <2>3. /\ \A c \in DOMAIN Entered(e) : Entered(e)[c] # e => c \in DOMAIN entries
                                        /\ Entered(e)[c] = entries[c]
        /\ \A c \in DOMAIN Cleared(e) : Cleared(e)[c] # e /\ c \in DOMAIN entries
                                        /\ Cleared(e)[c] = entries[c]
    BY DEF Entered, Cleared
  <2>4. \/ entries' = entries /\ (Busy(e)' \/ Is(e, "stuck")')
        \/ entries' = entries /\ Is(e, "new")
        \/ entries' = Entered(e) /\ Is(e, "look")'
        \/ entries' = Cleared(e)
    <3>1. CASE EmptyLooks(e)
      BY <2>1, <3>1 DEF EmptyLooks, Busy
    <3>2. CASE EmptyBegins(e)
      BY <2>2, <3>2 DEF EmptyBegins, Is
    <3>3. CASE EmptyDeletes(e) \/ EmptyHasKeys(e) \/ EmptyWrites(e) \/ EmptyRestores(e)
               \/ EmptyRestoreFails(e)
      BY <2>2, <3>3
      DEF EmptyDeletes, EmptyHasKeys, EmptyWrites, EmptyRestores, EmptyRestoreFails, Busy
    <3>4. CASE EmptyRefused(e) \/ EmptyEncrypts(e) \/ EmptyWriteFails(e)
      BY <2>2, <3>4 DEF EmptyRefused, EmptyEncrypts, EmptyWriteFails, EmptyFails, Busy
    <3>5. CASE EmptyCancelled(e)
      BY <2>2, <3>5 DEF EmptyCancelled, Is
    <3> QED BY <1>2, <3>1, <3>2, <3>3, <3>4, <3>5 DEF EmptySteps
  <2>5. Is(e, "new") => \A c \in DOMAIN entries : entries[c] # e
    BY DEF Freed, Busy, Is
  <2>6. \A c \in DOMAIN entries' :
           \/ entries'[c] = e /\ (Busy(e)' \/ Is(e, "stuck")')
           \/ entries'[c] # e /\ c \in DOMAIN entries /\ entries'[c] = entries[c]
    BY <2>3, <2>4, <2>5 DEF Busy, Is
  <2>7. \A c \in DOMAIN entries : entries[c] \in Empties
    BY DEF Typed, TypeOK
  <2> QED BY <2>1, <2>6, <2>7 DEF Freed, Busy, Is
<1>3. CASE Disconnect
  <2>1. DOMAIN entries' = {}
    BY <1>3 DEF Disconnect
  <2> QED BY <2>1 DEF Freed
<1>4. CASE UNCHANGED vars
  BY <1>4 DEF vars, Freed, Busy, Is
<1> QED BY <1>1, <1>2, <1>3, <1>4 DEF Next
-----------------------------------------------------------------------------
LEMMA InitInv == Init => SentInv /\ MembersAccounted /\ Distributed /\ SessionInv /\ Freed
<1> SUFFICES ASSUME Init
             PROVE  SentInv /\ MembersAccounted /\ Distributed /\ SessionInv /\ Freed
  OBVIOUS
<1>1. \A s \in Sends : /\ send[s].at = "new" /\ send[s].try = 1
                       /\ send[s].done = {} /\ send[s].refused = {}
  BY DEF Init
<1>2. DOMAIN entries = {}
  BY DEF Init
<1>3. BuiltIsSpent /\ MembersAccounted
  BY <1>1 DEF BuiltIsSpent, MembersAccounted, Accounts, At
<1>4. WrittenIsSpent /\ SentOnce /\ Distributed
  BY DEF Init, WrittenIsSpent, SentOnce, Distributed
<1>5. SessionInv
  BY DEF Init, SessionInv, DeletesWithBackup, MissingIsRepaired, Is
<1> QED BY <1>2, <1>3, <1>4, <1>5 DEF SentInv, Freed

IInv == Typed /\ SentInv /\ MembersAccounted /\ Distributed /\ SessionInv /\ Freed

(* The invariant behind the theorems below: no step of a message, of an    *)
(* empty message or of disconnect() breaks it.                             *)
THEOREM Invariance == Spec => []IInv
<1>1. Init => IInv
  BY InitType, InitInv DEF IInv
<1>2. IInv /\ [Next]_vars => IInv'
  BY TypeStep, SentStep, DistStep, SessionStep, FreedStep DEF IInv, SentInv, DistInv
<1> QED BY <1>1, <1>2, PTL DEF Spec

(* TypeOK: what the attempts of a message leave in its receivers' lists    *)
(* are jids of contacts, and no message is tried more than three times.    *)
THEOREM TypeCorrect == Spec => []TypeOK
<1>1. IInv => TypeOK
  BY DEF IInv, Typed
<1> QED BY Invariance, <1>1, PTL

(* SentOnce: the attempts of _send_to_group and the failures of            *)
(* write_frame never put the same message on the wire twice, because an    *)
(* attempt that built it has taken its <proto>.                            *)
THEOREM SentOnceAlways == Spec => []SentOnce
<1>1. IInv => SentOnce
  BY DEF IInv, SentInv
<1> QED BY Invariance, <1>1, PTL

(* Distributed: whatever sessions come and go while the participants'      *)
(* keys are asked for and the ciphertexts are made, a group's message      *)
(* carries its sender key to every member but those the server refused.    *)
THEOREM DistributedAlways == Spec => []Distributed
<1>1. IInv => Distributed
  BY DEF IInv
<1> QED BY Invariance, <1>1, PTL

(* SessionKept: however many calls of send_empty_message run at once and   *)
(* however they fail, a session one of them deleted is put back unless it  *)
(* was cancelled or storeSession itself failed.                            *)
THEOREM SessionKeptAlways == Spec => []SessionKept
<1>1. IInv => SessionKept
  BY DEF IInv, SessionInv, MissingIsRepaired, Repairs, SessionKept, Busy
<1> QED BY Invariance, <1>1, PTL

(* Freed: the finally clause of _send_pkmsg_for_invalid_message leaves no  *)
(* entry of a call that is over, other tasks' entries notwithstanding.     *)
THEOREM FreedAlways == Spec => []Freed
<1>1. IInv => Freed
  BY DEF IInv
<1> QED BY Invariance, <1>1, PTL
===============================================================================
