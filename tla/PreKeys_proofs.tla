--------------------------- MODULE PreKeys_proofs ---------------------------
(***************************************************************************)
(* For every number of ids, batch size, threshold, set of calls and set of *)
(* workers: the pre-key a peer was given stays in the prekeys table, under *)
(* the id the peer will name, until a session was built with it.           *)
(*                                                                         *)
(* KeyKept alone is not inductive: a flush may upload keys it loaded       *)
(* before they were consumed, and a worker removes a row it looked up some *)
(* steps earlier.  IInv adds what uploads (UploadsKnown) and workers       *)
(* (WorkersHold) may still refer to.                                       *)
(***************************************************************************)
EXTENDS PreKeys, TLAPS

(* An id names at most one row. *)
IdsUnique == \A r, s \in store : r[1] = s[1] => r = s

(* Whatever a flush has loaded or sent is still there or was consumed. *)
UploadsKnown ==
    /\ unsent \subseteq store \cup opened
    /\ \A c \in Calls : req[c] \subseteq store \cup opened

(* Keys leave the server once, and the store only when opened. *)
ServerKeys ==
    /\ offered \subseteq store /\ offered \cap handed = {}
    /\ handed \subseteq store \cup opened /\ opened \subseteq handed

(* No other key takes the id of the key a worker is busy with. *)
WorkersHold ==
    \A w \in Workers : wpc[w] # "idle" =>
        /\ link = "up" /\ wkey[w] \in handed
        /\ \A r \in store : r[1] = wkey[w][1] => r = wkey[w]
        /\ wpc[w] = "open" => wrow[w] = wkey[w]
        /\ wpc[w] = "remove" => wkey[w] \in opened

Inv == IdsUnique /\ UploadsKnown /\ ServerKeys /\ WorkersHold /\ MissOnlyAfterOpen

IInv == TypeOK /\ Inv
-----------------------------------------------------------------------------
(* generatePreKeys only yields ids of the id space. *)
LEMMA NewIdsInRange ==
    ASSUME NEW max \in 0..MaxId
    PROVE  NewIds(max) \subseteq 1..MaxId
<1>1. SUFFICES ASSUME NEW i \in 0..(CountGen - 1)
               PROVE  ((max + i) % MaxId) + 1 \in 1..MaxId
  BY DEF NewIds
<1>2. MaxId \in Nat /\ MaxId > 0 /\ max + i \in Nat
  BY PreKeysAssumption
<1>3. (max + i) % MaxId \in 0..(MaxId - 1)
  BY <1>2
<1> QED BY <1>2, <1>3

LEMMA InitIInv == Init => IInv
<1> SUFFICES ASSUME Init PROVE IInv
  OBVIOUS
<1>1. TypeOK
  BY PreKeysAssumption DEF Init, TypeOK, Key
<1>2. Inv
  BY DEF Init, Inv, IdsUnique, UploadsKnown, ServerKeys, WorkersHold, MissOnlyAfterOpen
<1> QED BY <1>1, <1>2 DEF IInv
-----------------------------------------------------------------------------
(* Every step keeps the types. *)
LEMMA TypeStep == TypeOK /\ [Next]_vars => TypeOK'
<1> SUFFICES ASSUME TypeOK, [Next]_vars PROVE TypeOK'
  OBVIOUS
<1> USE DEF TypeOK
<1>1. CASE LevelPreKeys
  <2>1. store' \subseteq Key /\ store \subseteq store' /\ batch' \in 0..MaxBatch
    <3>1. CASE UNCHANGED <<store, batch>>
      BY <3>1
    <3>2. CASE \E max \in 0..MaxId :
                 /\ batch < MaxBatch /\ batch' = batch + 1
                 /\ store' = store \cup (NewIds(max) \X {batch + 1})
      <4>1. PICK max \in 0..MaxId :
              /\ batch < MaxBatch /\ batch' = batch + 1
              /\ store' = store \cup (NewIds(max) \X {batch + 1})
        BY <3>2
      <4>2. batch + 1 \in 1..MaxBatch
        BY <4>1, PreKeysAssumption
      <4>3. NewIds(max) \X {batch + 1} \subseteq Key
        BY <4>2, NewIdsInRange DEF Key
      <4> QED BY <4>1, <4>2, <4>3
    <3> QED BY <1>1, <3>1, <3>2 DEF LevelPreKeys
  <2> QED BY <1>1, <2>1 DEF LevelPreKeys, server, work
<1>2. CASE Drop
  BY <1>2, PreKeysAssumption DEF Drop, CancelWorkers, db, server
<1>3. ASSUME NEW c \in Calls, Authenticated(c) PROVE TypeOK'
  BY <1>3 DEF Authenticated, db, server, work
<1>4. ASSUME NEW c \in Calls, KeysRequested(c) PROVE TypeOK'
  BY <1>4 DEF KeysRequested, db, server, work
<1>5. ASSUME NEW c \in Calls, LoadUnsent(c) PROVE TypeOK'
  BY <1>5 DEF LoadUnsent, db, server, work
<1>6. ASSUME NEW c \in Calls, Flush(c) PROVE TypeOK'
  BY <1>6 DEF Flush, db, server, work
<1>7. ASSUME NEW c \in Calls, OnKeysFlushed(c) PROVE TypeOK'
  BY <1>7 DEF OnKeysFlushed, Ends, server, work
<1>8. ASSUME NEW c \in Calls, CallbackExpires(c) PROVE TypeOK'
  BY <1>8 DEF CallbackExpires, db, server, work
<1>9. ASSUME NEW c \in Calls, Accept(c) PROVE TypeOK'
  BY <1>9 DEF Accept, Answered, Ends, db, work
<1>10. ASSUME NEW c \in Calls, Refuse(c) PROVE TypeOK'
  BY <1>10 DEF Refuse, Answered, Ends, db, work
<1>11. ASSUME NEW c \in Calls, UploadLost(c) PROVE TypeOK'
  BY <1>11 DEF UploadLost, Ends, db, server, work
<1>12. ASSUME NEW k \in Key, HandOut(k) PROVE TypeOK'
  BY <1>12 DEF HandOut, db, calls, work
<1>13. ASSUME NEW w \in Workers, NEW k \in Key, Receive(w, k) PROVE TypeOK'
  BY <1>13 DEF Receive, db, calls, server
<1>14. ASSUME NEW w \in Workers, LoadPreKey(w) PROVE TypeOK'
  <2>1. CASE Rows(wkey[w][1]) = {} /\ missed' = missed \cup {wkey[w]} /\ Done(w)
    BY <1>14, <2>1 DEF LoadPreKey, Done, db, calls, server
  <2> QED BY <1>14, <2>1 DEF LoadPreKey, Rows, db, calls, server
<1>15. ASSUME NEW w \in Workers, StoreSession(w) PROVE TypeOK'
  BY <1>15 DEF StoreSession, Done, db, calls, server
<1>16. ASSUME NEW w \in Workers, RemovePreKey(w) PROVE TypeOK'
  BY <1>16 DEF RemovePreKey, Remove, Done, calls, server
<1>17. CASE UNCHANGED vars
  BY <1>17 DEF vars, db, calls, server, work
<1> QED
  BY <1>1, <1>2, <1>3, <1>4, <1>5, <1>6, <1>7, <1>8, <1>9, <1>10, <1>11,
     <1>12, <1>13, <1>14, <1>15, <1>16, <1>17
     DEF Next, ClientStep, ServerStep, WorkerStep
-----------------------------------------------------------------------------
(* Generation runs while no worker does, and takes no id that is taken.    *)
LEMMA LevelStep == IInv /\ LevelPreKeys => Inv'
<1> SUFFICES ASSUME IInv, LevelPreKeys PROVE Inv'
  OBVIOUS
<1>1. UNCHANGED <<req, server, work>> /\ unsent' \subseteq store'
  BY DEF LevelPreKeys
<1>2. \A w \in Workers : wpc[w] = "idle"
  BY DEF IInv, Inv, WorkersHold, LevelPreKeys
<1>3. store \subseteq store' /\ IdsUnique'
  <2>1. CASE UNCHANGED store
    BY <2>1 DEF IInv, Inv, IdsUnique
  <2>2. CASE \E max \in 0..MaxId :
               /\ ~Taken(NewIds(max))
               /\ store' = store \cup (NewIds(max) \X {batch + 1})
    <3>1. PICK max \in 0..MaxId :
            /\ ~Taken(NewIds(max))
            /\ store' = store \cup (NewIds(max) \X {batch + 1})
      BY <2>2
    <3>2. ASSUME NEW r \in store', NEW s \in store', r[1] = s[1]
          PROVE  r = s
      <4>1. CASE r \in store /\ s \in store
        BY <3>2, <4>1 DEF IInv, Inv, IdsUnique
      <4>2. CASE r \in NewIds(max) \X {batch + 1} /\ s \in NewIds(max) \X {batch + 1}
        BY <3>2, <4>2
      <4>3. ASSUME NEW x \in store, NEW y \in NewIds(max) \X {batch + 1}
            PROVE  x[1] # y[1]
        BY <3>1 DEF Taken
      <4> QED BY <3>1, <3>2, <4>1, <4>2, <4>3
    <3> QED BY <3>1, <3>2 DEF IdsUnique
  <2> QED BY <2>1, <2>2 DEF LevelPreKeys
<1>4. UploadsKnown' /\ ServerKeys'
  BY <1>1, <1>3 DEF IInv, Inv, UploadsKnown, ServerKeys, server, work
<1>5. WorkersHold' /\ MissOnlyAfterOpen'
  BY <1>1, <1>2 DEF IInv, Inv, WorkersHold, MissOnlyAfterOpen, work
<1> QED BY <1>3, <1>4, <1>5 DEF Inv

(* An upload offers nothing a peer was given already.                      *)
LEMMA AcceptStep == ASSUME NEW c \in Calls PROVE IInv /\ Accept(c) => Inv'
<1> SUFFICES ASSUME IInv, Accept(c) PROVE Inv'
  OBVIOUS
<1>1. UNCHANGED <<store, unsent, handed, opened, missed, wpc, wkey, wrow, link>>
  BY DEF Accept, db, work
<1>2. req[c] \subseteq store \cup opened /\ opened \subseteq handed
  BY DEF IInv, Inv, UploadsKnown, ServerKeys
<1>3. \A d \in Calls : req'[d] \subseteq req[d]
  BY DEF Accept, Answered, Ends, IInv, TypeOK
<1>4. ServerKeys'
  BY <1>1, <1>2 DEF Accept, IInv, Inv, ServerKeys
<1> QED
  BY <1>1, <1>3, <1>4 DEF IInv, Inv, IdsUnique, UploadsKnown, WorkersHold, MissOnlyAfterOpen

(* The row of an opened key goes; every other row stays.                   *)
LEMMA RemoveStep == ASSUME NEW w \in Workers PROVE IInv /\ RemovePreKey(w) => Inv'
<1> SUFFICES ASSUME IInv, RemovePreKey(w) PROVE Inv'
  OBVIOUS
<1>1. /\ UNCHANGED <<unsent, req, server, opened, missed, link>>
      /\ store' \subseteq store
      /\ wpc' = [wpc EXCEPT ![w] = "idle"] /\ wkey' = [wkey EXCEPT ![w] = NoKey]
      /\ wrow' = [wrow EXCEPT ![w] = NoKey]
  BY DEF RemovePreKey, Remove, Done, calls
<1>2. wkey[w] \in opened /\ opened \subseteq handed
  BY DEF RemovePreKey, IInv, Inv, WorkersHold, ServerKeys
<1>3. \A r \in store \ store' : r = wkey[w]
  BY DEF RemovePreKey, Remove, IInv, Inv, WorkersHold
<1>4. UploadsKnown' /\ ServerKeys'
  BY <1>1, <1>2, <1>3 DEF IInv, Inv, UploadsKnown, ServerKeys, server
<1>5. WorkersHold'
  BY <1>1 DEF IInv, Inv, WorkersHold, TypeOK, server
<1>6. IdsUnique' /\ MissOnlyAfterOpen'
  BY <1>1 DEF IInv, Inv, IdsUnique, MissOnlyAfterOpen
<1> QED BY <1>4, <1>5, <1>6 DEF Inv
-----------------------------------------------------------------------------
(* Every step keeps the parts of Inv. *)
LEMMA InvStep == IInv /\ [Next]_vars => Inv'
<1> SUFFICES ASSUME IInv, [Next]_vars PROVE Inv'
  OBVIOUS
<1> USE DEF IInv, Inv, IdsUnique, UploadsKnown, ServerKeys, WorkersHold, MissOnlyAfterOpen
<1>1. CASE Drop
  BY <1>1 DEF Drop, CancelWorkers, db, server
<1>2. ASSUME NEW c \in Calls, Authenticated(c) PROVE Inv'
  BY <1>2 DEF Authenticated, db, server, work
<1>3. ASSUME NEW c \in Calls, KeysRequested(c) PROVE Inv'
  BY <1>3 DEF KeysRequested, db, server, work
<1>4. ASSUME NEW c \in Calls, LoadUnsent(c) PROVE Inv'
  BY <1>4 DEF LoadUnsent, db, server, work
<1>5. ASSUME NEW c \in Calls, Flush(c) PROVE Inv'
  <2>1. \A d \in Calls : req'[d] \subseteq req[d] \cup unsent
    BY <1>5 DEF Flush, TypeOK
  <2> QED BY <1>5, <2>1 DEF Flush, db, server, work
<1>6. ASSUME NEW c \in Calls, OnKeysFlushed(c) \/ Refuse(c) \/ UploadLost(c)
      PROVE  Inv'
  <2>1. \A d \in Calls : req'[d] \subseteq req[d]
    BY <1>6 DEF OnKeysFlushed, Refuse, Answered, UploadLost, Ends, TypeOK
  <2>2. UNCHANGED <<store, link, unsent, offered, handed, work>>
    BY <1>6 DEF OnKeysFlushed, Refuse, UploadLost, db, server
  <2> QED BY <2>1, <2>2 DEF work
<1>7. ASSUME NEW c \in Calls, CallbackExpires(c) PROVE Inv'
  BY <1>7 DEF CallbackExpires, db, server, work
<1>8. ASSUME NEW k \in Key, HandOut(k) PROVE Inv'
  BY <1>8 DEF HandOut, db, calls, work
<1>9. ASSUME NEW w \in Workers, NEW k \in Key, Receive(w, k) PROVE Inv'
  BY <1>9 DEF Receive, TypeOK, db, calls, server
<1>10. ASSUME NEW w \in Workers, LoadPreKey(w) PROVE Inv'
  <2>1. wkey[w] \in store \cup opened /\ \A r \in Rows(wkey[w][1]) : r = wkey[w]
    BY <1>10 DEF LoadPreKey, Rows
  <2>2. CASE Rows(wkey[w][1]) = {} /\ missed' = missed \cup {wkey[w]} /\ Done(w)
    <3>1. wkey[w] \in opened
      BY <2>1, <2>2 DEF Rows
    <3> QED BY <1>10, <2>2, <3>1 DEF LoadPreKey, Done, TypeOK, db, calls, server
  <2>3. CASE \E r \in Rows(wkey[w][1]) :
               /\ wrow' = [wrow EXCEPT ![w] = r]
               /\ wpc' = [wpc EXCEPT ![w] = "open"]
               /\ UNCHANGED <<wkey, missed>>
    BY <1>10, <2>1, <2>3 DEF LoadPreKey, TypeOK, db, calls, server
  <2> QED BY <1>10, <2>2, <2>3 DEF LoadPreKey
<1>11. ASSUME NEW w \in Workers, StoreSession(w) PROVE Inv'
  BY <1>11 DEF StoreSession, Done, TypeOK, db, calls, server
<1>12. CASE UNCHANGED vars
  BY <1>12 DEF vars, db, calls, server, work
<1> QED
  BY <1>1, <1>2, <1>3, <1>4, <1>5, <1>6, <1>7, <1>8, <1>9, <1>10, <1>11, <1>12,
     LevelStep, AcceptStep, RemoveStep
     DEF Next, ClientStep, ServerStep, WorkerStep

(* The inductive invariant holds in every behaviour of the component.      *)
THEOREM Invariance == Spec => []IInv
<1>1. IInv /\ [Next]_vars => IInv'
  BY TypeStep, InvStep DEF IInv
<1> QED BY InitIInv, <1>1, PTL DEF Spec
-----------------------------------------------------------------------------
(* KeyKept, what makes a pre-key handed out usable: at any moment the key  *)
(* that the server can give away, or that a peer holds without a session,  *)
(* is the one row under its id in the prekeys table.                       *)
THEOREM KeyKeptAlways == Spec => []KeyKept
<1>1. IInv => KeyKept
  <2> SUFFICES ASSUME IInv, NEW k \in offered \cup (handed \ opened)
               PROVE  Rows(k[1]) = {k}
    BY DEF KeyKept
  <2>1. k \in store
    BY DEF IInv, Inv, ServerKeys
  <2> QED BY <2>1 DEF IInv, Inv, IdsUnique, Rows
<1> QED BY Invariance, <1>1, PTL

(* ReadsSendersKey: the row loadPreKey returns for a first message is the  *)
(* key its sender used.                                                    *)
THEOREM ReadsSendersKeyAlways == Spec => []ReadsSendersKey
<1>1. IInv => ReadsSendersKey
  BY DEF IInv, Inv, WorkersHold, ReadsSendersKey
<1> QED BY Invariance, <1>1, PTL

(* MissOnlyAfterOpen: only a key that opened a session is ever missing     *)
(* when decryptPkmsg looks it up.                                          *)
THEOREM MissOnlyAfterOpenAlways == Spec => []MissOnlyAfterOpen
<1>1. IInv => MissOnlyAfterOpen
  BY DEF IInv, Inv
<1> QED BY Invariance, <1>1, PTL

(* TypeOK, with the prekeys table inside the id space for any batch size.  *)
THEOREM TypeCorrect == Spec => []TypeOK
<1>1. IInv => TypeOK
  BY DEF IInv
<1> QED BY Invariance, <1>1, PTL
=============================================================================
