------------------------------ MODULE Uploads ------------------------------
(***************************************************************************)
(* Sending a file, in core/builders/image_builder.py (and the builders of  *)
(* video, audio, documents and stickers, which do the same): the source is *)
(* fetched, encrypted, and posted to a host of the media connection, which *)
(* core/media/media_connection.py keeps for all uploads under one lock and *)
(* asks the server for with a request like any other.                      *)
(***************************************************************************)
EXTENDS Requests, Sequences

VARIABLES
    holder, queue,  \* who has the lock of the media connection, and who waits
    conn,           \* the connection kept: {}, or its host and whether it has expired
    encrypted       \* calls with a temporary file of what is encrypted

media == <<holder, queue, conn, encrypted>>
vars == <<requests, media>>

Conn(host) == [host |-> host, expired |-> FALSE]
Valid == \E k \in conn : ~k.expired

TypeOK ==
    /\ RequestsTypeOK
    /\ holder \subseteq Calls /\ Cardinality(holder) <= 1
    /\ \A c \in holder : IsMedia(c) /\ pc[c] \notin {"idle", "ready", "queued", "done"}
    /\ Cardinality(conn) <= 1
    /\ encrypted \subseteq {c \in Calls : pc[c] = "posting"}

Init ==
    /\ RequestsInit
    /\ holder = {} /\ queue = <<>> /\ conn = {} /\ encrypted = {}

Ends(c, kind) ==
    /\ pc' = [pc EXCEPT ![c] = "done"]
    /\ result' = [result EXCEPT ![c] = {Outcome(kind, None, {}, {})}]
-----------------------------------------------------------------------------
(* from_filepath: what is fetched from a url is a temporary file, removed  *)
(* again if it cannot be read.                                             *)
Fetch(c, fetched) ==
    /\ pc[c] = "idle" /\ MediaConn \in app.asks[c]
    /\ ask' = [ask EXCEPT ![c] = MediaConn]
    /\ \/ /\ pc' = [pc EXCEPT ![c] = "ready"]
          /\ temps' = IF fetched THEN temps \cup {c} ELSE temps
          /\ UNCHANGED result
       \/ Ends(c, "raised") /\ UNCHANGED temps
    /\ UNCHANGED <<app, future, registry, net, change, names, line, media>>

(* get_connection: the lock serves those who wait in their order. *)
Wait(c) ==
    /\ pc[c] = "ready"
    /\ pc' = [pc EXCEPT ![c] = "queued"]
    /\ queue' = Append(queue, c)
    /\ UNCHANGED <<app, ask, future, result, registry, net, change, names, line, temps>>
    /\ UNCHANGED <<holder, conn, encrypted>>

(* The connection kept is used until it expires. *)
Cached(c) ==
    /\ queue # <<>> /\ c = Head(queue) /\ holder = {} /\ Valid
    /\ pc' = [pc EXCEPT ![c] = "posting"]
    /\ queue' = Tail(queue)
    /\ encrypted' = encrypted \cup {c}
    /\ UNCHANGED <<app, ask, future, result, registry, net, change, names, line, temps>>
    /\ UNCHANGED <<holder, conn>>

Acquire_Unlocked(c) ==              \* variant: the lock is not kept over the request
    /\ queue # <<>> /\ c = Head(queue) /\ holder = {} /\ ~Valid
    /\ queue' = Tail(queue)
    /\ Register(c)
    /\ UNCHANGED <<app, ask, future, result, late, writing, net, change, names, line, temps>>
    /\ UNCHANGED <<holder, conn, encrypted>>
Acquire(c) ==
    /\ queue # <<>> /\ c = Head(queue) /\ holder = {} /\ ~Valid
    /\ queue' = Tail(queue) /\ holder' = {c}
    /\ Register(c)
    /\ UNCHANGED <<app, ask, future, result, late, writing, net, change, names, line, temps>>
    /\ UNCHANGED <<conn, encrypted>>

(* The answer is the new connection; without one the upload fails, and     *)
(* what was fetched is not removed.                                        *)
Connected(c) ==
    /\ pc[c] = "connected"
    /\ \E r \in result[c] :
          IF r.kind = "ok"
          THEN /\ conn' = {Conn(r.value)}
               /\ pc' = [pc EXCEPT ![c] = "posting"]
               /\ result' = [result EXCEPT ![c] = {}]
               /\ encrypted' = encrypted \cup {c}
          ELSE Ends(c, "raised") /\ UNCHANGED <<conn, encrypted>>
    /\ holder' = holder \ {c}
    /\ UNCHANGED <<app, ask, future, registry, net, change, names, line, temps, queue>>

(* One POST to the first host.  The encrypted file is removed in any case, *)
(* what was fetched only after it: for an image or a video before the      *)
(* message is built, which may fail, for the others once it is.            *)
Posted_KeepsFile(c) ==              \* variant: the encrypted file is removed when all went well
    /\ pc[c] = "posting"
    /\ \/ /\ Ends(c, "ok")
          /\ temps' = temps \ {c} /\ encrypted' = encrypted \ {c}
       \/ Ends(c, "raised") /\ UNCHANGED <<temps, encrypted>>
    /\ UNCHANGED <<app, ask, future, registry, net, change, names, line, holder, queue, conn>>
Posted(c) ==
    /\ pc[c] = "posting"
    /\ \/ Ends(c, "ok") /\ temps' = temps \ {c}
       \/ Ends(c, "raised") /\ temps' \in {temps, temps \ {c}}
    /\ encrypted' = encrypted \ {c}
    /\ UNCHANGED <<app, ask, future, registry, net, change, names, line, holder, queue, conn>>

Expires ==
    /\ Valid
    /\ conn' = {[k EXCEPT !.expired = TRUE] : k \in conn}
    /\ UNCHANGED <<requests, holder, queue, encrypted>>
-----------------------------------------------------------------------------
UploadStep(c) ==
    \/ \E f \in BOOLEAN : Fetch(c, f)
    \/ Wait(c) \/ Cached(c) \/ Acquire(c) \/ Connected(c) \/ Posted(c)

RequestStep(c) ==
    /\ \/ \E q \in app.asks[c] \ {MediaConn}, f \in BOOLEAN : Call(c, q, f)
       \/ CallStep(c) \/ AnswerStep(c) \/ Serve(c) \/ Cancel(c) \/ Clean(c)
    /\ UNCHANGED media

Next ==
    \/ \E c \in Calls : UploadStep(c) \/ RequestStep(c)
    \/ (Disconnect \/ Reconnect) /\ UNCHANGED media
    \/ Expires

(* The event loop runs what can run, the clock passes, aiohttp gives up a  *)
(* POST after 300 s; the server owes nothing.  A send ends.                *)
Fairness ==
    \A c \in Calls :
       /\ WF_vars(CallStep(c) /\ UNCHANGED media)
       /\ WF_vars(AnswerStep(c) /\ UNCHANGED media)
       /\ WF_vars(Clean(c) /\ UNCHANGED media)
       /\ WF_vars(Wait(c) \/ Cached(c) \/ Acquire(c) \/ Connected(c) \/ Posted(c))

Spec == Init /\ [][Next]_vars /\ Fairness
-----------------------------------------------------------------------------
(* What a call returns is what happened: if it says that the operation is  *)
(* done, the server did it, to those the outcome names where it names any; *)
(* if its answer made it fail, nothing was changed, unless a group is all  *)
(* the answer forgot to name.                                              *)
Did(c, r) ==
    LET q == ask[c]
    IN q.means = Nothing \/ /\ change[c].of = q.means.of
                            /\ change[c].is = q.means.is
                            /\ q.reads \in {"listed", "others"} => r.good \subseteq change[c].jids
                            /\ change[c].jids \subseteq q.means.jids
Answered == \A c \in Calls : \A r \in future[c] :
    /\ r.kind = "ok" => Did(c, r)
    /\ r.kind \in {"failed", "raised"} => change[c] = Nothing \/ ask[c].reads = "group"

(* A caller who has set the account's name and has been told so finds it   *)
(* in the profile on disk and at the server, unless another call for the   *)
(* name has begun.                                                         *)
Naming(c) == pc[c] # "idle" /\ ask[c].reads = "name"
NameSaved == \A c \in Calls : \A r \in result[c] :
    /\ pc[c] = "done" /\ Naming(c) /\ r.kind = "ok"
    /\ \A d \in Calls : Naming(d) => d = c
    => saved = server /\ server = ask[c].iq.value

(* One request for the media connection serves all uploads that wait. *)
OneMediaRequest ==
    \A c, d \in Calls :
       (IsMedia(c) /\ IsMedia(d) /\ {pc[c], pc[d]} \subseteq {"sending", "waiting"}) => c = d

(* No encrypted copy outlives its upload, and a fetched file only an       *)
(* upload that failed.                                                     *)
TempRemoved == \A c \in Calls : pc[c] = "done" =>
    /\ c \notin encrypted
    /\ c \in temps => IsMedia(c) /\ \E r \in result[c] : r.kind = "raised"

(* Every call ends, whether or not the server answers and however often    *)
(* the connection is lost, and while connected no callback stays.          *)
Settles == \A c \in Calls :
    /\ (pc[c] # "idle") ~> (pc[c] = "done")
    /\ (c \in callbacks) ~> (c \notin callbacks)
=============================================================================
