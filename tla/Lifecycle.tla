----------------------------- MODULE Lifecycle -----------------------------
(***************************************************************************)
(* connect(), disconnect() and reconnect() of WhatsAppClient               *)
(* (core/client.py) as coroutines that interleave, with the event emitter  *)
(* (core/events.py) through which a lost connection starts them.           *)
(*                                                                         *)
(* The client keeps one reference to each of connection, stream, bridge    *)
(* and message loop, and every connect() makes new ones: a generation.  A  *)
(* coroutine that resumes uses whatever the reference names by then.  An   *)
(* action is what a coroutine does up to its next suspension.              *)
(***************************************************************************)
EXTENDS Integers, FiniteSets

CONSTANTS
    MaxTasks,   \* bound: coroutines in progress at the same time
    MaxGen      \* bound: connections ever attempted

ASSUME LifecycleAssumption == {MaxTasks, MaxGen} \subseteq Nat \ {0}

Tasks == 1..MaxTasks
Gen   == 1..MaxGen

VARIABLES
    pc,         \* where each coroutine is suspended
    gen,        \* generation a connect() works on
    after,      \* what follows the disconnect() a coroutine is in
    closing,    \* generation whose wait_closed() it is in
    last,       \* generations attempted so far
    conn, brdg, strm, loop,     \* self.connection, .bridge, .stream and
                                \* ._message_loop_task: a generation or 0
    socket, bridge, stream, msgs, \* what became of each generation's
    running,    \* _running, _connected and _authenticated
    shut,       \* AsyncEventEmitter._shutdown
    announced,  \* generations whose "connected" event was delivered
    kicked,     \* the server sent its stream:error or failure
    rivals      \* history: two reconnect() have been in progress at once

tasks  == <<pc, gen, after, closing>>
refs   == <<conn, brdg, strm, loop>>
things == <<socket, bridge, stream, msgs>>
vars   == <<tasks, last, refs, things, running, shut, announced, kicked,
            rivals>>

Connecting    == {"init", "tcp", "header", "handshake", "settle"}
Disconnecting == {"start", "bridge", "stream", "close", "wait"}

TypeOK ==
    /\ pc \in [Tasks -> {"idle", "sleep"} \cup Connecting \cup Disconnecting]
    /\ gen \in [Tasks -> 0..MaxGen] /\ closing \in [Tasks -> 0..MaxGen]
    /\ after \in [Tasks -> {"idle", "sleep"}]
    /\ last \in 0..MaxGen
    /\ {conn, brdg, strm, loop} \subseteq 0..MaxGen
    /\ socket \in [Gen -> {"none", "connecting", "open", "eof", "reset",
                           "closing", "closed"}]
    /\ bridge \in [Gen -> {"none", "run", "done"}]
    /\ stream \in [Gen -> {"none", "open", "cancelled"}]
    /\ msgs \in [Gen -> {"none", "run", "done"}]
    /\ {running, shut, kicked, rivals} \subseteq BOOLEAN
    /\ announced \subseteq Gen

Init ==
    /\ pc = [t \in Tasks |-> "idle"] /\ after = [t \in Tasks |-> "idle"]
    /\ gen = [t \in Tasks |-> 0] /\ closing = gen
    /\ last = 0 /\ conn = 0 /\ brdg = 0 /\ strm = 0 /\ loop = 0
    /\ socket = [g \in Gen |-> "none"] /\ bridge = socket
    /\ stream = socket /\ msgs = socket
    /\ running = FALSE /\ shut = FALSE /\ announced = {}
    /\ kicked = FALSE /\ rivals = FALSE

Quiet == \A t \in Tasks : pc[t] = "idle"

(* A new coroutine takes the first place that is free. *)
FirstFree(t, others) ==
    pc[t] = "idle" /\ \A s \in others : pc[s] = "idle" => t <= s

Goto(t, label) == pc' = [pc EXCEPT ![t] = label]

(* The coroutine ends: what it worked on no longer matters. *)
Return(t) ==
    /\ pc' = [pc EXCEPT ![t] = "idle"] /\ gen' = [gen EXCEPT ![t] = 0]
    /\ after' = [after EXCEPT ![t] = "idle"]
    /\ closing' = [closing EXCEPT ![t] = 0]
-----------------------------------------------------------------------------
(* AsyncEventEmitter.emit makes one task per handler; connect() registers  *)
(* disconnect() for "disconnected" and reconnect() for "reconnect".  Both  *)
(* begin with disconnect().                                                *)
Spawn(next) ==
    \E t \in Tasks :
        /\ FirstFree(t, Tasks)
        /\ pc' = [pc EXCEPT ![t] = "start"]
        /\ after' = [after EXCEPT ![t] = next]
        /\ UNCHANGED <<gen, closing>>

Emit(next) == IF shut THEN UNCHANGED tasks ELSE Spawn(next)

(* The application awaits each call, and makes the next one only when the  *)
(* client is at rest.                                                      *)
UserConnect ==
    /\ Quiet /\ ~running /\ last < MaxGen
    /\ Goto(1, "init")
    /\ UNCHANGED <<gen, after, closing, last, refs, things, running, shut,
                   announced, kicked, rivals>>

UserDisconnect ==
    /\ Quiet /\ running
    /\ Spawn("idle")
    /\ UNCHANGED <<last, refs, things, running, shut, announced, kicked,
                   rivals>>

UserReconnect ==
    /\ Quiet /\ running
    /\ Spawn("sleep")
    /\ UNCHANGED <<last, refs, things, running, shut, announced, kicked,
                   rivals>>
-----------------------------------------------------------------------------
(* disconnect() *)

(* Its first lines, up to the bridge, suspend at nothing but cancelled     *)
(* futures.                                                                *)
EnterDisconnect(t, next) ==
    /\ running' = FALSE
    /\ pc' = [pc EXCEPT ![t] = "bridge"]
    /\ after' = [after EXCEPT ![t] = next]
    /\ UNCHANGED <<gen, closing>>

StartDisconnect(t) ==
    /\ pc[t] = "start"
    /\ EnterDisconnect(t, after[t])
    /\ UNCHANGED <<last, refs, things, shut, announced, kicked, rivals>>

(* A reference that is still None is passed over. *)
Set(f, g, v) == IF g = 0 THEN f ELSE [f EXCEPT ![g] = v]

StopBridge(t) ==
    /\ pc[t] = "bridge" /\ Goto(t, "stream")
    /\ bridge' = Set(bridge, brdg, "done")
    /\ UNCHANGED <<gen, after, closing, last, refs, socket, stream, msgs,
                   running, shut, announced, kicked, rivals>>

(* stream.cancel(), then the tasks the references name are cancelled *)
CancelStreamAndTasks(t) ==
    /\ pc[t] = "stream" /\ Goto(t, "close")
    /\ stream' = Set(stream, strm, "cancelled")
    /\ msgs' = Set(msgs, loop, "done")
    /\ UNCHANGED <<gen, after, closing, last, refs, socket, bridge, running,
                   shut, announced, kicked, rivals>>

(* AsyncConnection.disconnect: nothing to close while it is connecting *)
HasWriter_Unlost(g) == g # 0 /\ socket[g] = "open"  \* variant: is_connected()
HasWriter(g) == g # 0 /\ socket[g] \notin {"none", "connecting"}

Close(s) == IF s = "closed" THEN s ELSE "closing"

CloseConnection(t) ==
    /\ pc[t] = "close" /\ Goto(t, "wait")
    /\ IF HasWriter(conn)
       THEN /\ socket' = [socket EXCEPT ![conn] = Close(@)]
            /\ closing' = [closing EXCEPT ![t] = conn]
       ELSE UNCHANGED <<socket, closing>>
    /\ UNCHANGED <<gen, after, last, refs, bridge, stream, msgs, running, shut,
                   announced, kicked, rivals>>

(* The rest is one step: "disconnected" is emitted, which starts one more  *)
(* disconnect(), and the emitter is shut down for good.                    *)
ShutDown_Not == UNCHANGED shut      \* variant: the emitter stays alive
ShutDown == shut' = TRUE

FinishDisconnect(t) ==
    /\ pc[t] = "wait"
    /\ closing[t] # 0 => socket[closing[t]] = "closed"
    /\ loop' = 0 /\ ShutDown
    /\ LET next == [pc EXCEPT ![t] = after[t]]
       IN IF shut
          THEN pc' = next /\ after' = [after EXCEPT ![t] = "idle"]
          ELSE \E s \in Tasks \ {t} :
                  /\ FirstFree(s, Tasks \ {t})
                  /\ pc' = [next EXCEPT ![s] = "start"]
                  /\ after' = [after EXCEPT ![t] = "idle", ![s] = "idle"]
    /\ gen' = [gen EXCEPT ![t] = 0] /\ closing' = [closing EXCEPT ![t] = 0]
    /\ UNCHANGED <<last, conn, brdg, strm, things, running, announced, kicked,
                   rivals>>

(* reconnect(): asyncio.sleep(0.5), then connect() *)
WakeUp(t) ==
    /\ pc[t] = "sleep" /\ Goto(t, "init")
    /\ UNCHANGED <<gen, after, closing, last, refs, things, running, shut,
                   announced, kicked, rivals>>
-----------------------------------------------------------------------------
(* connect() *)

Fail_NoDisconnect(t) == Return(t) /\ UNCHANGED running      \* variant
(* except: disconnect(), then the error is raised to the caller *)
Fail(t) == EnterDisconnect(t, "idle")

(* Components and pre-keys, then AsyncConnection.connect is started. *)
StartConnect(t) ==
    /\ pc[t] = "init"
    /\ \/ /\ last < MaxGen
          /\ last' = last + 1 /\ conn' = last + 1
          /\ gen' = [gen EXCEPT ![t] = last + 1]
          /\ socket' = [socket EXCEPT ![last + 1] = "connecting"]
          /\ Goto(t, "tcp")
          /\ UNCHANGED <<after, closing, running>>
       \/ Fail(t) /\ UNCHANGED <<last, conn, socket>>
    /\ UNCHANGED <<brdg, strm, loop, bridge, stream, msgs, shut, announced,
                   kicked, rivals>>

(* The socket is up, or connecting failed or timed out. *)
TcpConnected(t) ==
    /\ pc[t] = "tcp"
    /\ \/ /\ socket' = [socket EXCEPT ![gen[t]] = "open"]
          /\ Goto(t, "header") /\ UNCHANGED <<gen, after, closing, running>>
       \/ Fail(t) /\ socket' = [socket EXCEPT ![gen[t]] = "none"]
    /\ UNCHANGED <<last, refs, bridge, stream, msgs, shut, announced, kicked,
                   rivals>>

(* send_header, then stream and bridge are made and the bridge started *)
SendHeader(t) ==
    /\ pc[t] = "header"
    /\ \/ /\ socket[conn] \in {"open", "eof", "reset"}
          /\ strm' = gen[t] /\ brdg' = gen[t]
          /\ stream' = [stream EXCEPT ![gen[t]] = "open"]
          /\ bridge' = [bridge EXCEPT ![gen[t]] = "run"]
          /\ Goto(t, "handshake") /\ UNCHANGED <<gen, after, closing, running>>
       \/ Fail(t) /\ UNCHANGED <<strm, brdg, stream, bridge>>
    /\ UNCHANGED <<last, conn, loop, socket, msgs, shut, announced, kicked,
                   rivals>>

(* _perform_handshake and _wait_for_success: they need the stream, and     *)
(* fail on <failure>, on an error or after 30 s.                           *)
Handshake(t) ==
    /\ pc[t] = "handshake"
    /\ \/ /\ stream[gen[t]] = "open"
          /\ Goto(t, "settle") /\ UNCHANGED <<gen, after, closing, running>>
       \/ Fail(t)
    /\ UNCHANGED <<last, refs, things, shut, announced, kicked, rivals>>

(* Account status, handlers and pre-key flush (which swallows its errors)  *)
(* are awaited; then the client is declared up without another look at the *)
(* connection.                                                             *)
DeclareUp(t) ==
    /\ pc[t] = "settle"
    /\ running' = TRUE
    /\ loop' = gen[t] /\ msgs' = [msgs EXCEPT ![gen[t]] = "run"]
    /\ announced' = IF shut THEN announced ELSE announced \cup {gen[t]}
    /\ Return(t)
    /\ UNCHANGED <<last, conn, brdg, strm, socket, bridge, stream, shut,
                   kicked, rivals>>

SettleFails(t) ==
    /\ pc[t] = "settle"
    /\ Fail(t)
    /\ UNCHANGED <<last, refs, things, shut, announced, kicked, rivals>>
-----------------------------------------------------------------------------
(* What happens to a connection by itself *)

PeerCloses(g) ==
    /\ socket[g] = "open"
    /\ \E s \in {"eof", "reset"} : socket' = [socket EXCEPT ![g] = s]
    /\ UNCHANGED <<tasks, last, refs, bridge, stream, msgs, running, shut,
                   announced, kicked, rivals>>

(* The bridge's read loop announces an EOF as "disconnected" and an error  *)
(* as "reconnect"; it ends without a word when the write loop found the    *)
(* reset first (see Bridge).                                               *)
EofEvent_Silent == UNCHANGED tasks                  \* variant: no event
EofEvent == Emit("idle")

BridgeSeesEof(g) ==
    /\ bridge[g] = "run" /\ socket[g] = "eof"
    /\ bridge' = [bridge EXCEPT ![g] = "done"]
    /\ stream' = [stream EXCEPT ![g] = "cancelled"]
    /\ EofEvent
    /\ UNCHANGED <<last, refs, socket, msgs, running, shut, announced, kicked,
                   rivals>>

BridgeSeesReset(g) ==
    /\ bridge[g] = "run" /\ socket[g] = "reset"
    /\ bridge' = [bridge EXCEPT ![g] = "done"]
    /\ \/ /\ stream' = [stream EXCEPT ![g] = "cancelled"] /\ Emit("sleep")
          /\ rivals' = (rivals \/ (~shut /\ \E t \in Tasks : after[t] = "sleep"))
       \/ UNCHANGED <<stream, tasks, rivals>>
    /\ UNCHANGED <<last, refs, socket, msgs, running, shut, announced, kicked>>

BridgeSeesClose(g) ==
    /\ bridge[g] = "run" /\ socket[g] \in {"closing", "closed"}
    /\ bridge' = [bridge EXCEPT ![g] = "done"]
    /\ UNCHANGED <<tasks, last, refs, socket, stream, msgs, running, shut,
                   announced, kicked, rivals>>

(* transport.close() completes: connection_lost is called *)
Closed(g) ==
    /\ socket[g] = "closing"
    /\ socket' = [socket EXCEPT ![g] = "closed"]
    /\ UNCHANGED <<tasks, last, refs, bridge, stream, msgs, running, shut,
                   announced, kicked, rivals>>

(* A message loop that nobody cancelled ends when it reads _running. *)
LoopEnds(g) ==
    /\ msgs[g] = "run" /\ ~running
    /\ msgs' = [msgs EXCEPT ![g] = "done"]
    /\ UNCHANGED <<tasks, last, refs, socket, bridge, stream, running, shut,
                   announced, kicked, rivals>>

(* stream:error with a conflict or code 503, or failure, from the server *)
Kicked(g) ==
    /\ ~kicked /\ kicked' = TRUE
    /\ running /\ msgs[g] = "run" /\ stream[g] = "open" /\ socket[g] = "open"
    /\ Emit("idle")
    /\ UNCHANGED <<last, refs, things, running, shut, announced, rivals>>
-----------------------------------------------------------------------------
User == UserConnect \/ UserDisconnect \/ UserReconnect

DisconnectStep(t) ==
    \/ StartDisconnect(t) \/ StopBridge(t) \/ CancelStreamAndTasks(t)
    \/ CloseConnection(t) \/ FinishDisconnect(t)

ConnectStep(t) ==
    \/ WakeUp(t) \/ StartConnect(t) \/ TcpConnected(t) \/ SendHeader(t)
    \/ Handshake(t) \/ DeclareUp(t) \/ SettleFails(t)

EventLoop(g) ==
    \/ BridgeSeesEof(g) \/ BridgeSeesReset(g) \/ BridgeSeesClose(g)
    \/ Closed(g) \/ LoopEnds(g)

Next ==
    \/ User
    \/ \E t \in Tasks : DisconnectStep(t) \/ ConnectStep(t)
    \/ \E g \in Gen : EventLoop(g) \/ PeerCloses(g) \/ Kicked(g)

(* Every coroutine that can go on is resumed, every callback is run. *)
Fairness ==
    /\ \A t \in Tasks : WF_vars(DisconnectStep(t)) /\ WF_vars(ConnectStep(t))
    /\ \A g \in Gen : WF_vars(EventLoop(g))

Spec == Init /\ [][Next]_vars /\ Fairness
-----------------------------------------------------------------------------
Live(g) == socket[g] \in {"open", "eof", "reset"}

(* Once every call has returned and the client is down, nothing of any     *)
(* generation is left: sockets closed, bridges stopped, streams cancelled, *)
(* however disconnect() and connect() overlapped.  Two reconnect() at once *)
(* are the exception, see CleanBeforeConnect.                              *)
Released ==
    Quiet /\ ~running /\ ~rivals =>
        \A g \in Gen : /\ socket[g] \in {"none", "closed"}
                       /\ bridge[g] # "run" /\ stream[g] # "open"

(* The account never has two sockets to the server at the same time, with  *)
(* the same exception.                                                     *)
OneSocket == ~rivals => Cardinality({g \in Gen : Live(g)}) <= 1

(* Every connect(), disconnect() and reconnect() returns, and with them    *)
(* all that their events start, also when several run at once and use each *)
(* other's references.                                                     *)
CallsReturn == ~Quiet ~> Quiet

(* While the emitter works, a server that closes the connection brings the *)
(* client down.                                                            *)
CloseBringsDown ==
    \A g \in Gen :
        (socket[g] = "eof" /\ bridge[g] = "run" /\ ~shut) ~> (shut /\ ~running)

-----------------------------------------------------------------------------
(* What comments of the code say and TLC refutes; the README tells how.    *)

(* When reconnect() has slept, "para garantir que tudo foi limpo", no      *)
(* socket is left: connect() starts from nothing.  Another reconnect() may *)
(* have connected meanwhile; connect() then replaces the references to its *)
(* socket, and nothing closes it any more.                                 *)
CleanBeforeConnect ==
    \A t \in Tasks : pc[t] = "init" => \A g \in Gen : ~Live(g)

(* A client that is up and whose connection works was announced: connect() *)
(* emits "connected" and "authenticated" for the public API.               *)
UpIsAnnounced ==
    \A g \in Gen :
        msgs[g] = "run" /\ stream[g] = "open" /\ socket[g] = "open"
            => g \in announced

(* is_connected() says "conectado e autenticado": with no call in progress *)
(* the client then holds a connection it has not itself closed.            *)
UpIsConnected == Quiet /\ running => socket[conn] \notin {"closing", "closed"}
=============================================================================
