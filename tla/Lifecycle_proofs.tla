-------------------------- MODULE Lifecycle_proofs --------------------------
(***************************************************************************)
(* Released and OneSocket of Lifecycle hold for every number of coroutines *)
(* and of connections.                                                     *)
(*                                                                         *)
(* Neither is inductive.  Both rest on who may open a connection: while no *)
(* two reconnect() have met, at most one coroutine claims the references,  *)
(* and by the time it replaces one of them, what the old one named has     *)
(* been brought down; and whatever is up while the client is down has a    *)
(* coroutine that still has to bring it down.                              *)
(***************************************************************************)
EXTENDS Lifecycle, FiniteSetTheorems, TLAPS

Labels == {"idle", "sleep"} \cup Connecting \cup Disconnecting

(* A connect() that has attempted a connection knows its generation. *)
Numbered ==
    \A t \in Tasks :
        pc[t] \in {"tcp", "header", "handshake", "settle"} => gen[t] \in Gen

(* The coroutine will, by itself, replace one of the references. *)
Claims(t) == after[t] = "sleep" \/ pc[t] \in {"sleep", "init", "tcp", "header"}

(* It claims them, and has passed the given steps of its disconnect(). *)
Passed(t, steps) ==
    \/ after[t] = "sleep" /\ pc[t] \in steps
    \/ pc[t] \in {"sleep", "init"}

Down(g) == ~Live(g) /\ socket[g] # "connecting"

AfterIsForDisconnect ==
    \A t \in Tasks : after[t] = "sleep" => pc[t] \in Disconnecting

OneClaim == \A s, t \in Tasks : Claims(s) /\ Claims(t) => s = t

(* What is up is what the references name. *)
Referenced ==
    \A g \in Gen : /\ ~Down(g) => g = conn
                   /\ bridge[g] = "run" => g = brdg
                   /\ stream[g] = "open" => g = strm

ConnectingIsWaited ==
    \A g \in Gen : socket[g] = "connecting"
                    => \E t \in Tasks : pc[t] = "tcp" /\ gen[t] = g

ConnectsTheNamed == \A t \in Tasks : pc[t] = "tcp" => gen[t] = conn

(* A coroutine that claims the references brings down what they name. *)
BroughtDown ==
    \A t \in Tasks, g \in Gen :
        /\ bridge[g] = "run" => /\ ~Passed(t, {"stream", "close", "wait"})
                                /\ pc[t] \notin {"tcp", "header"}
        /\ stream[g] = "open" => /\ ~Passed(t, {"close", "wait"})
                                 /\ pc[t] \notin {"tcp", "header"}
        /\ Passed(t, {"wait"}) => Down(g)

(* A coroutine connects the generation, or has not come to the step of its *)
(* disconnect() that brings down what the reference names.                 *)
Owes(g, connecting, disconnecting) ==
    \E t \in Tasks : \/ pc[t] \in connecting /\ gen[t] = g
                     \/ pc[t] \in disconnecting

SocketsOwed ==
    \A g \in Gen : Live(g) /\ ~running =>
        Owes(g, {"header", "handshake", "settle"},
                {"start", "bridge", "stream", "close"})

BridgesOwed ==
    \A g \in Gen : bridge[g] = "run" /\ ~running =>
        Owes(g, {"handshake", "settle"}, {"start", "bridge"})

StreamsOwed ==
    \A g \in Gen : stream[g] = "open" /\ ~running =>
        Owes(g, {"handshake", "settle"}, {"start", "bridge", "stream"})

ClosingIsWaited ==
    \A g \in Gen : socket[g] = "closing"
                    => \E t \in Tasks : pc[t] = "wait" /\ closing[t] = g

Alone ==
    /\ AfterIsForDisconnect /\ OneClaim
    /\ Referenced /\ ConnectingIsWaited /\ ConnectsTheNamed
    /\ BroughtDown
    /\ SocketsOwed /\ BridgesOwed /\ StreamsOwed /\ ClosingIsWaited

IInv == TypeOK /\ Numbered /\ (~rivals => Alone)
-----------------------------------------------------------------------------
(* Every step keeps the types. *)
LEMMA TypesKept == TypeOK /\ Numbered /\ [Next]_vars => TypeOK'
<1> SUFFICES ASSUME TypeOK, Numbered, [Next]_vars PROVE TypeOK'
  OBVIOUS
<1>1. ASSUME NEW t \in Tasks, StartDisconnect(t) PROVE TypeOK'
  BY <1>1, LifecycleAssumption DEF StartDisconnect, TypeOK, EnterDisconnect,
     Tasks, Gen, Connecting,
     Disconnecting, tasks, refs, things
<1>2. ASSUME NEW t \in Tasks, StopBridge(t) PROVE TypeOK'
  BY <1>2, LifecycleAssumption DEF StopBridge, TypeOK, Goto, Set, Tasks, Gen,
     Connecting,
     Disconnecting, tasks, refs, things
<1>3. ASSUME NEW t \in Tasks, CancelStreamAndTasks(t) PROVE TypeOK'
  BY <1>3, LifecycleAssumption DEF CancelStreamAndTasks, TypeOK, Goto, Set,
     Tasks, Gen, Connecting,
     Disconnecting, tasks, refs, things
<1>4. ASSUME NEW t \in Tasks, CloseConnection(t) PROVE TypeOK'
  <2>1. CASE HasWriter(conn)
    BY <1>4, <2>1 DEF CloseConnection, Goto, Close, TypeOK, Connecting,
       Disconnecting, tasks, refs, things, HasWriter
  <2>2. CASE ~HasWriter(conn)
    BY <1>4, <2>2 DEF CloseConnection, Goto, TypeOK, Connecting,
       Disconnecting, refs
  <2> QED
    BY <2>1, <2>2
<1>5. ASSUME NEW t \in Tasks, FinishDisconnect(t) PROVE TypeOK'
  <2>1. /\ loop' = 0 /\ shut' = TRUE
        /\ gen' = [gen EXCEPT ![t] = 0] /\ closing' = [closing EXCEPT ![t] = 0]
        /\ UNCHANGED <<last, conn, brdg, strm, things, running, announced,
                      kicked, rivals>>
    BY <1>5 DEF FinishDisconnect, ShutDown
  <2>2. pc' \in [Tasks -> Labels] /\ after' \in [Tasks -> {"idle", "sleep"}]
    <3>1. CASE shut
      BY <1>5, <3>1 DEF FinishDisconnect, TypeOK, Labels, Connecting,
         Disconnecting
    <3>2. CASE ~shut
      <4>1. PICK s \in Tasks \ {t} :
               /\ pc' = [[pc EXCEPT ![t] = after[t]] EXCEPT ![s] = "start"]
               /\ after' = [after EXCEPT ![t] = "idle", ![s] = "idle"]
        BY <1>5, <3>2 DEF FinishDisconnect
      <4> QED
        BY <4>1 DEF TypeOK, Labels, Connecting, Disconnecting
    <3> QED
      BY <3>1, <3>2
  <2>3. {loop, last, conn, brdg, strm}' \subseteq 0..MaxGen
    BY <2>1, LifecycleAssumption DEF TypeOK
  <2>4. gen' \in [Tasks -> 0..MaxGen] /\ closing' \in [Tasks -> 0..MaxGen]
    BY <2>1, LifecycleAssumption DEF TypeOK
  <2> QED
    BY <2>1, <2>2, <2>3, <2>4 DEF TypeOK, Labels, things
<1>6. ASSUME NEW t \in Tasks, WakeUp(t) PROVE TypeOK'
  BY <1>6, LifecycleAssumption DEF WakeUp, TypeOK, Goto, Tasks, Gen,
     Connecting,
     Disconnecting, tasks, refs, things
<1>7. ASSUME NEW t \in Tasks, StartConnect(t) PROVE TypeOK'
  <2>1. CASE Fail(t) /\ UNCHANGED <<last, conn, socket>>
    BY <1>7, <2>1 DEF StartConnect, Fail, EnterDisconnect, TypeOK, Connecting,
       Disconnecting
  <2>2. CASE ~(Fail(t) /\ UNCHANGED <<last, conn, socket>>)
    <3>1. last + 1 \in Gen /\ last + 1 \in 0..MaxGen
      BY <1>7, <2>2, LifecycleAssumption DEF StartConnect, TypeOK, Gen
    <3> QED
      BY <1>7, <2>2, <3>1 DEF StartConnect, Goto, TypeOK, Connecting,
         Disconnecting
  <2> QED
    BY <2>1, <2>2
<1>8. ASSUME NEW t \in Tasks, TcpConnected(t) PROVE TypeOK'
  BY <1>8, LifecycleAssumption DEF TcpConnected, TypeOK, Goto, Fail,
     EnterDisconnect, Tasks, Gen, Connecting,
     Disconnecting, tasks, refs, things
<1>9. ASSUME NEW t \in Tasks, SendHeader(t) PROVE TypeOK'
  <2>1. CASE Fail(t) /\ UNCHANGED <<strm, brdg, stream, bridge>>
    BY <1>9, <2>1 DEF SendHeader, Fail, EnterDisconnect, TypeOK, Connecting,
       Disconnecting
  <2>2. CASE ~(Fail(t) /\ UNCHANGED <<strm, brdg, stream, bridge>>)
    BY <1>9, <2>2 DEF SendHeader, Goto, TypeOK, Connecting, Disconnecting
  <2> QED
    BY <2>1, <2>2
<1>10. ASSUME NEW t \in Tasks, Handshake(t) PROVE TypeOK'
  <2>1. CASE Fail(t)
    BY <1>10, <2>1 DEF Handshake, Fail, EnterDisconnect, TypeOK, Connecting,
       Disconnecting, refs, things
  <2>2. CASE ~Fail(t)
    BY <1>10, <2>2 DEF Handshake, Goto, TypeOK, Connecting, Disconnecting,
       refs, things
  <2> QED
    BY <2>1, <2>2
<1>11. ASSUME NEW t \in Tasks, DeclareUp(t) PROVE TypeOK'
  <2>1. /\ pc' \in [Tasks -> Labels] /\ gen' \in [Tasks -> 0..MaxGen]
        /\ after' \in [Tasks -> {"idle", "sleep"}]
        /\ closing' \in [Tasks -> 0..MaxGen]
    BY <1>11, LifecycleAssumption DEF DeclareUp, Return, TypeOK, Labels,
       Connecting, Disconnecting
  <2>2. loop' \in 0..MaxGen /\ msgs' \in [Gen -> {"none", "run", "done"}]
    BY <1>11 DEF DeclareUp, TypeOK
  <2>3. announced' \subseteq Gen
    BY <1>11 DEF DeclareUp, TypeOK, Numbered
  <2> QED
    BY <1>11, <2>1, <2>2, <2>3 DEF DeclareUp, TypeOK, Labels
<1>12. ASSUME NEW t \in Tasks, SettleFails(t) PROVE TypeOK'
  BY <1>12, LifecycleAssumption DEF SettleFails, TypeOK, Fail,
     EnterDisconnect, Tasks, Gen, Connecting,
     Disconnecting, tasks, refs, things
<1>13. ASSUME NEW g \in Gen, BridgeSeesEof(g) PROVE TypeOK'
  BY <1>13, LifecycleAssumption DEF BridgeSeesEof, TypeOK, EofEvent, Emit,
     Spawn, FirstFree, Tasks, Gen, Connecting,
     Disconnecting, tasks, refs, things
<1>14. ASSUME NEW g \in Gen, BridgeSeesReset(g) PROVE TypeOK'
  <2>1. UNCHANGED <<last, refs, socket, msgs, running, shut, announced, kicked,
                 gen, closing>>
    BY <1>14 DEF BridgeSeesReset, Emit, Spawn, tasks
  <2>2. /\ bridge' \in [Gen -> {"none", "run", "done"}]
        /\ stream' \in [Gen -> {"none", "open", "cancelled"}]
    BY <1>14 DEF BridgeSeesReset, TypeOK
  <2>3. rivals' \in BOOLEAN
    BY <1>14 DEF BridgeSeesReset, TypeOK
  <2>4. pc' \in [Tasks -> Labels] /\ after' \in [Tasks -> {"idle", "sleep"}]
    BY <1>14 DEF BridgeSeesReset, Emit, Spawn, tasks, TypeOK, Labels,
       Connecting, Disconnecting
  <2> QED
    BY <2>1, <2>2, <2>3, <2>4 DEF TypeOK, Labels, refs
<1>15. ASSUME NEW g \in Gen, BridgeSeesClose(g) PROVE TypeOK'
  BY <1>15, LifecycleAssumption DEF BridgeSeesClose, TypeOK, Tasks, Tasks,
     Gen, Connecting,
     Disconnecting, tasks, refs, things
<1>16. ASSUME NEW g \in Gen, Closed(g) PROVE TypeOK'
  BY <1>16, LifecycleAssumption DEF Closed, TypeOK, Tasks, Tasks, Gen,
     Connecting,
     Disconnecting, tasks, refs, things
<1>17. ASSUME NEW g \in Gen, LoopEnds(g) PROVE TypeOK'
  BY <1>17, LifecycleAssumption DEF LoopEnds, TypeOK, Tasks, Tasks, Gen,
     Connecting,
     Disconnecting, tasks, refs, things
<1>18. ASSUME NEW g \in Gen, PeerCloses(g) PROVE TypeOK'
  BY <1>18, LifecycleAssumption DEF PeerCloses, TypeOK, Tasks, Tasks, Gen,
     Connecting,
     Disconnecting, tasks, refs, things
<1>19. ASSUME NEW g \in Gen, Kicked(g) PROVE TypeOK'
  BY <1>19, LifecycleAssumption DEF Kicked, TypeOK, Emit, Spawn, FirstFree,
     Tasks, Gen, Connecting,
     Disconnecting, tasks, refs, things
<1>20. ASSUME UserConnect PROVE TypeOK'
  BY <1>20, LifecycleAssumption DEF UserConnect, TypeOK, Goto, Quiet, Tasks,
     Gen, Connecting,
     Disconnecting, tasks, refs, things
<1>21. ASSUME UserDisconnect PROVE TypeOK'
  BY <1>21, LifecycleAssumption DEF UserDisconnect, TypeOK, Spawn, FirstFree,
     Quiet, Tasks, Gen, Connecting,
     Disconnecting, tasks, refs, things
<1>22. ASSUME UserReconnect PROVE TypeOK'
  BY <1>22, LifecycleAssumption DEF UserReconnect, TypeOK, Spawn, FirstFree,
     Quiet, Tasks, Gen, Connecting,
     Disconnecting, tasks, refs, things
<1>23. ASSUME UNCHANGED vars PROVE TypeOK'
  BY <1>23 DEF vars, tasks, refs, things, TypeOK
<1> QED
  BY <1>1, <1>2, <1>3, <1>4, <1>5, <1>6, <1>7, <1>8, <1>9, <1>10, <1>11,
     <1>12, <1>13, <1>14, <1>15, <1>16, <1>17, <1>18, <1>19, <1>20, <1>21,
     <1>22, <1>23 DEF Next, User, DisconnectStep, ConnectStep, EventLoop

(* Every step keeps the generations known. *)
LEMMA NumberedKept == TypeOK /\ Numbered /\ [Next]_vars => Numbered'
<1> SUFFICES ASSUME TypeOK, Numbered, [Next]_vars PROVE Numbered'
  OBVIOUS
<1> USE DEF TypeOK, Numbered
<1>1. ASSUME NEW t \in Tasks, StartDisconnect(t) PROVE Numbered'
  BY <1>1, LifecycleAssumption DEF StartDisconnect, EnterDisconnect, tasks, Gen
<1>2. ASSUME NEW t \in Tasks, StopBridge(t) PROVE Numbered'
  BY <1>2, LifecycleAssumption DEF StopBridge, Goto, Set, tasks, Gen
<1>3. ASSUME NEW t \in Tasks, CancelStreamAndTasks(t) PROVE Numbered'
  BY <1>3, LifecycleAssumption DEF CancelStreamAndTasks, Goto, Set, tasks, Gen
<1>4. ASSUME NEW t \in Tasks, CloseConnection(t) PROVE Numbered'
  BY <1>4, LifecycleAssumption DEF CloseConnection, Goto, HasWriter, Close,
     tasks, Gen
<1>5. ASSUME NEW t \in Tasks, FinishDisconnect(t) PROVE Numbered'
  BY <1>5, LifecycleAssumption DEF FinishDisconnect, FirstFree, ShutDown,
     tasks, Gen
<1>6. ASSUME NEW t \in Tasks, WakeUp(t) PROVE Numbered'
  BY <1>6, LifecycleAssumption DEF WakeUp, Goto, tasks, Gen
<1>7. ASSUME NEW t \in Tasks, StartConnect(t) PROVE Numbered'
  BY <1>7, LifecycleAssumption DEF StartConnect, Goto, Fail, EnterDisconnect,
     tasks, Gen
<1>8. ASSUME NEW t \in Tasks, TcpConnected(t) PROVE Numbered'
  BY <1>8, LifecycleAssumption DEF TcpConnected, Goto, Fail, EnterDisconnect,
     tasks, Gen
<1>9. ASSUME NEW t \in Tasks, SendHeader(t) PROVE Numbered'
  BY <1>9, LifecycleAssumption DEF SendHeader, Goto, Fail, EnterDisconnect,
     tasks, Gen
<1>10. ASSUME NEW t \in Tasks, Handshake(t) PROVE Numbered'
  BY <1>10, LifecycleAssumption DEF Handshake, Goto, Fail, EnterDisconnect,
     tasks, Gen
<1>11. ASSUME NEW t \in Tasks, DeclareUp(t) PROVE Numbered'
  BY <1>11, LifecycleAssumption DEF DeclareUp, Return, tasks, Gen
<1>12. ASSUME NEW t \in Tasks, SettleFails(t) PROVE Numbered'
  BY <1>12, LifecycleAssumption DEF SettleFails, Fail, EnterDisconnect, tasks,
     Gen
<1>13. ASSUME NEW g \in Gen, BridgeSeesEof(g) PROVE Numbered'
  BY <1>13, LifecycleAssumption DEF BridgeSeesEof, EofEvent, Emit, Spawn,
     FirstFree, tasks, Gen
<1>14. ASSUME NEW g \in Gen, BridgeSeesReset(g) PROVE Numbered'
  BY <1>14, LifecycleAssumption DEF BridgeSeesReset, Emit, Spawn, FirstFree,
     tasks, Gen
<1>15. ASSUME NEW g \in Gen, BridgeSeesClose(g) PROVE Numbered'
  BY <1>15, LifecycleAssumption DEF BridgeSeesClose, Tasks, tasks, Gen
<1>16. ASSUME NEW g \in Gen, Closed(g) PROVE Numbered'
  BY <1>16, LifecycleAssumption DEF Closed, Tasks, tasks, Gen
<1>17. ASSUME NEW g \in Gen, LoopEnds(g) PROVE Numbered'
  BY <1>17, LifecycleAssumption DEF LoopEnds, Tasks, tasks, Gen
<1>18. ASSUME NEW g \in Gen, PeerCloses(g) PROVE Numbered'
  BY <1>18, LifecycleAssumption DEF PeerCloses, Tasks, tasks, Gen
<1>19. ASSUME NEW g \in Gen, Kicked(g) PROVE Numbered'
  BY <1>19, LifecycleAssumption DEF Kicked, Emit, Spawn, FirstFree, tasks, Gen
<1>20. ASSUME UserConnect PROVE Numbered'
  BY <1>20, LifecycleAssumption DEF UserConnect, Goto, Quiet, tasks, Gen
<1>21. ASSUME UserDisconnect PROVE Numbered'
  BY <1>21, LifecycleAssumption DEF UserDisconnect, Spawn, FirstFree, Quiet,
     tasks, Gen
<1>22. ASSUME UserReconnect PROVE Numbered'
  BY <1>22, LifecycleAssumption DEF UserReconnect, Spawn, FirstFree, Quiet,
     tasks, Gen
<1>23. ASSUME UNCHANGED vars PROVE Numbered'
  BY <1>23 DEF vars, tasks
<1> QED
  BY <1>1, <1>2, <1>3, <1>4, <1>5, <1>6, <1>7, <1>8, <1>9, <1>10, <1>11,
     <1>12, <1>13, <1>14, <1>15, <1>16, <1>17, <1>18, <1>19, <1>20, <1>21,
     <1>22, <1>23 DEF Next, User, DisconnectStep, ConnectStep, EventLoop

(* disconnect() enters: nothing is claimed that was not. *)
LEMMA StartDisconnectKeeps ==
  ASSUME TypeOK, Alone, ~rivals', NEW t \in Tasks, StartDisconnect(t)
  PROVE  Alone'
<1> USE DEF TypeOK, tasks, refs, things, Connecting, Disconnecting, Tasks
<1>1. AfterIsForDisconnect'
  BY DEF Alone, StartDisconnect, EnterDisconnect, AfterIsForDisconnect
<1>2. OneClaim'
  BY DEF Alone, StartDisconnect, EnterDisconnect, OneClaim, Claims
<1>3. Referenced'
  BY DEF Alone, StartDisconnect, EnterDisconnect, Referenced, Down, Live
<1>4. ConnectingIsWaited'
  BY DEF Alone, StartDisconnect, EnterDisconnect, ConnectingIsWaited
<1>5. ConnectsTheNamed'
  BY DEF Alone, StartDisconnect, EnterDisconnect, ConnectsTheNamed
<1>6. BroughtDown'
  BY DEF Alone, StartDisconnect, EnterDisconnect, BroughtDown, Passed, Down,
     Live
<1>7. SocketsOwed'
  BY DEF Alone, StartDisconnect, EnterDisconnect, SocketsOwed, Owes, Live
<1>8. BridgesOwed'
  BY DEF Alone, StartDisconnect, EnterDisconnect, BridgesOwed, Owes
<1>9. StreamsOwed'
  BY DEF Alone, StartDisconnect, EnterDisconnect, StreamsOwed, Owes
<1>10. ClosingIsWaited'
  BY DEF Alone, StartDisconnect, EnterDisconnect, ClosingIsWaited
<1> QED
  BY <1>1, <1>2, <1>3, <1>4, <1>5, <1>6, <1>7, <1>8, <1>9, <1>10 DEF Alone

(* disconnect() stops the bridge that is referenced: no bridge runs. *)
LEMMA StopBridgeKeeps ==
  ASSUME TypeOK, Alone, ~rivals', NEW t \in Tasks, StopBridge(t)
  PROVE  Alone'
<1> USE DEF TypeOK, tasks, refs, things, Connecting, Disconnecting, Tasks
<1>a. \A g \in Gen : bridge'[g] # "run"
  BY DEF Alone, StopBridge, Set, Referenced, Gen
<1>1. AfterIsForDisconnect'
  BY DEF Alone, StopBridge, Goto, Set, AfterIsForDisconnect
<1>2. OneClaim'
  BY DEF Alone, StopBridge, Goto, Set, OneClaim, Claims
<1>3. Referenced'
  BY DEF Alone, StopBridge, Goto, Set, Referenced, Down, Live
<1>4. ConnectingIsWaited'
  BY DEF Alone, StopBridge, Goto, Set, ConnectingIsWaited
<1>5. ConnectsTheNamed'
  BY DEF Alone, StopBridge, Goto, Set, ConnectsTheNamed
<1>6. BroughtDown'
  BY <1>a DEF Alone, StopBridge, Goto, BroughtDown, Passed, Down, Live,
     AfterIsForDisconnect
<1>7. SocketsOwed'
  BY DEF Alone, StopBridge, Goto, Set, SocketsOwed, Owes, Live
<1>8. BridgesOwed'
  BY <1>a DEF BridgesOwed
<1>9. StreamsOwed'
  BY DEF Alone, StopBridge, Goto, Set, StreamsOwed, Owes
<1>10. ClosingIsWaited'
  BY DEF Alone, StopBridge, Goto, Set, ClosingIsWaited
<1> QED
  BY <1>1, <1>2, <1>3, <1>4, <1>5, <1>6, <1>7, <1>8, <1>9, <1>10 DEF Alone

(* disconnect() cancels the stream that is referenced: none is open. *)
LEMMA CancelStreamAndTasksKeeps ==
  ASSUME TypeOK, Alone, ~rivals', NEW t \in Tasks, CancelStreamAndTasks(t)
  PROVE  Alone'
<1> USE DEF TypeOK, tasks, refs, things, Connecting, Disconnecting, Tasks
<1>a. \A g \in Gen : stream'[g] # "open"
  BY DEF Alone, CancelStreamAndTasks, Set, Referenced, Gen
<1>1. AfterIsForDisconnect'
  BY DEF Alone, CancelStreamAndTasks, Goto, Set, AfterIsForDisconnect
<1>2. OneClaim'
  BY DEF Alone, CancelStreamAndTasks, Goto, Set, OneClaim, Claims
<1>3. Referenced'
  BY DEF Alone, CancelStreamAndTasks, Goto, Set, Referenced, Down, Live
<1>4. ConnectingIsWaited'
  BY DEF Alone, CancelStreamAndTasks, Goto, Set, ConnectingIsWaited
<1>5. ConnectsTheNamed'
  BY DEF Alone, CancelStreamAndTasks, Goto, Set, ConnectsTheNamed
<1>6. BroughtDown'
  BY <1>a DEF Alone, CancelStreamAndTasks, Goto, BroughtDown, Passed, Down,
     Live, AfterIsForDisconnect
<1>7. SocketsOwed'
  BY DEF Alone, CancelStreamAndTasks, Goto, Set, SocketsOwed, Owes, Live
<1>8. BridgesOwed'
  BY DEF Alone, CancelStreamAndTasks, Goto, Set, BridgesOwed, Owes
<1>9. StreamsOwed'
  BY <1>a DEF StreamsOwed
<1>10. ClosingIsWaited'
  BY DEF Alone, CancelStreamAndTasks, Goto, Set, ClosingIsWaited
<1> QED
  BY <1>1, <1>2, <1>3, <1>4, <1>5, <1>6, <1>7, <1>8, <1>9, <1>10 DEF Alone

(* disconnect() closes the socket that is referenced: none is up.  One     *)
(* that is still connecting has no writer to close; a coroutine that       *)
(* claims the references never meets one, since what connects claims them  *)
(* too.                                                                    *)
LEMMA CloseConnectionKeeps ==
  ASSUME TypeOK, Alone, ~rivals', NEW t \in Tasks, CloseConnection(t)
  PROVE  Alone'
<1> USE DEF TypeOK, tasks, refs, things, Connecting, Disconnecting, Tasks
<1>a. pc' = [pc EXCEPT ![t] = "wait"] /\ UNCHANGED <<gen, after, conn>>
  BY DEF CloseConnection, Goto
<1>b. \A g \in Gen :
           /\ ~Live(g)'
           /\ socket'[g] = "connecting" => socket[g] = "connecting"
           /\ socket'[g] = "closing" =>
                 socket[g] = "closing" \/ closing'[t] = g
  <2> SUFFICES ASSUME NEW g \in Gen
               PROVE  /\ ~Live(g)'
                      /\ socket'[g] = "connecting" => socket[g] = "connecting"
                      /\ socket'[g] = "closing" =>
                            socket[g] = "closing" \/ closing'[t] = g
    OBVIOUS
  <2>1. CASE HasWriter(conn) /\ g = conn
    BY <2>1 DEF CloseConnection, Close, Live
  <2>2. CASE ~HasWriter(conn) \/ g # conn
    <3>1. socket'[g] = socket[g]
      BY <2>2 DEF CloseConnection
    <3>2. Live(g) => HasWriter(g) /\ g = conn
      BY DEF Live, HasWriter, Gen, Alone, Referenced, Down
    <3> QED
      BY <2>2, <3>1, <3>2 DEF Live
  <2> QED
    BY <2>1, <2>2
<1>1. AfterIsForDisconnect'
  BY DEF Alone, CloseConnection, Goto, HasWriter, Close, AfterIsForDisconnect
<1>2. OneClaim'
  BY DEF Alone, CloseConnection, Goto, HasWriter, Close, OneClaim, Claims
<1>3. Referenced'
  BY DEF Alone, CloseConnection, Goto, HasWriter, Close, Referenced, Down, Live
<1>4. ConnectingIsWaited'
  BY DEF Alone, CloseConnection, Goto, HasWriter, Close, ConnectingIsWaited
<1>5. ConnectsTheNamed'
  BY DEF Alone, CloseConnection, Goto, HasWriter, Close, ConnectsTheNamed
<1>6. BroughtDown'
  <2>1. \A s \in Tasks, g \in Gen : Passed(s, {"wait"})' => Down(g)'
    <3> SUFFICES ASSUME NEW s \in Tasks, NEW g \in Gen, Passed(s, {"wait"})'
                 PROVE  Down(g)'
      OBVIOUS
    <3>1. CASE s # t
      <4>1. Passed(s, {"wait"})
        BY <3>1, <1>a DEF Passed
      <4> QED
        BY <4>1, <1>b DEF Alone, BroughtDown, Down
    <3>2. CASE s = t
      <4>1. Claims(t) /\ pc[t] # "tcp"
        BY <3>2, <1>a DEF Passed, Claims, CloseConnection
      <4>2. socket[g] # "connecting"
        BY <4>1 DEF Alone, ConnectingIsWaited, OneClaim, Claims
      <4> QED
        BY <4>2, <1>b DEF Down
    <3> QED
      BY <3>1, <3>2
  <2> QED
    BY <2>1, <1>a DEF Alone, BroughtDown, Passed, CloseConnection
<1>7. SocketsOwed'
  BY <1>b DEF SocketsOwed
<1>8. BridgesOwed'
  BY <1>a DEF Alone, CloseConnection, BridgesOwed, Owes
<1>9. StreamsOwed'
  BY <1>a DEF Alone, CloseConnection, StreamsOwed, Owes
<1>10. ClosingIsWaited'
  <2>1. \A s \in Tasks \ {t} : pc'[s] = pc[s] /\ closing'[s] = closing[s]
    BY <1>a DEF CloseConnection
  <2>2. pc[t] = "close" /\ pc'[t] = "wait"
    BY <1>a DEF CloseConnection
  <2> QED
    BY <2>1, <2>2, <1>b DEF Alone, ClosingIsWaited
<1> QED
  BY <1>1, <1>2, <1>3, <1>4, <1>5, <1>6, <1>7, <1>8, <1>9, <1>10 DEF Alone

(* disconnect() ends: its socket is closed, and the one more disconnect()  *)
(* it may start claims nothing.                                            *)
LEMMA FinishDisconnectKeeps ==
  ASSUME TypeOK, Alone, ~rivals', NEW t \in Tasks, FinishDisconnect(t)
  PROVE  Alone'
<1> USE DEF TypeOK, tasks, refs, things, Connecting, Disconnecting, Tasks
<1>a. /\ UNCHANGED <<socket, bridge, stream, conn, brdg, strm, running>>
      /\ pc[t] = "wait" /\ (closing[t] # 0 => socket[closing[t]] = "closed")
      /\ pc'[t] = after[t] /\ after'[t] = "idle"
      /\ \A s \in Tasks \ {t} :
            /\ gen'[s] = gen[s] /\ closing'[s] = closing[s]
            /\ \/ pc'[s] = pc[s] /\ after'[s] = after[s]
               \/ pc[s] = "idle" /\ pc'[s] = "start" /\ after'[s] = "idle"
  <2>1. CASE shut
    BY <2>1 DEF FinishDisconnect
  <2>2. CASE ~shut
    <3>1. PICK s \in Tasks \ {t} :
               /\ FirstFree(s, Tasks \ {t})
               /\ pc' = [[pc EXCEPT ![t] = after[t]] EXCEPT ![s] = "start"]
               /\ after' = [after EXCEPT ![t] = "idle", ![s] = "idle"]
      BY <2>2 DEF FinishDisconnect
    <3> QED
      BY <3>1 DEF FinishDisconnect, FirstFree
  <2> QED
    BY <2>1, <2>2
<1>1. AfterIsForDisconnect'
  BY <1>a DEF Alone, AfterIsForDisconnect
<1>2. OneClaim'
  <2>1. \A s \in Tasks : Claims(s)' => Claims(s)
    BY <1>a DEF Claims
  <2> QED
    BY <2>1 DEF Alone, OneClaim
<1>3. Referenced'
  BY <1>a DEF Alone, Referenced, Down, Live
<1>4. ConnectingIsWaited'
  <2> SUFFICES ASSUME NEW g \in Gen, socket'[g] = "connecting"
               PROVE  \E s \in Tasks : pc'[s] = "tcp" /\ gen'[s] = g
    BY DEF ConnectingIsWaited
  <2>1. PICK s \in Tasks : pc[s] = "tcp" /\ gen[s] = g
    BY <1>a DEF Alone, ConnectingIsWaited
  <2> QED
    BY <2>1, <1>a
<1>5. ConnectsTheNamed'
  BY <1>a DEF Alone, ConnectsTheNamed
<1>6. BroughtDown'
  <2>1. \A s \in Tasks : pc'[s] \in {"tcp", "header"} => pc'[s] = pc[s]
    BY <1>a
  <2>2. ASSUME NEW s \in Tasks, NEW steps, "wait" \in steps, "start" \notin steps,
             Passed(s, steps)'
        PROVE  Passed(s, steps)
    BY <2>2, <1>a DEF Passed
  <2> QED
    BY <2>1, <2>2, <1>a DEF Alone, BroughtDown, Down, Live
<1>7. SocketsOwed'
  <2>1. ASSUME NEW g \in Gen, NEW cs, NEW ds, Owes(g, cs, ds),
               "wait" \notin cs \cup ds, "idle" \notin cs \cup ds
        PROVE  Owes(g, cs, ds)'
    BY <2>1, <1>a DEF Owes
  <2> QED
    BY <2>1, <1>a DEF Alone, SocketsOwed, Live
<1>8. BridgesOwed'
  <2>1. ASSUME NEW g \in Gen, NEW cs, NEW ds, Owes(g, cs, ds),
               "wait" \notin cs \cup ds, "idle" \notin cs \cup ds
        PROVE  Owes(g, cs, ds)'
    BY <2>1, <1>a DEF Owes
  <2> QED
    BY <2>1, <1>a DEF Alone, BridgesOwed, Live
<1>9. StreamsOwed'
  <2>1. ASSUME NEW g \in Gen, NEW cs, NEW ds, Owes(g, cs, ds),
               "wait" \notin cs \cup ds, "idle" \notin cs \cup ds
        PROVE  Owes(g, cs, ds)'
    BY <2>1, <1>a DEF Owes
  <2> QED
    BY <2>1, <1>a DEF Alone, StreamsOwed, Live
<1>10. ClosingIsWaited'
  <2> SUFFICES ASSUME NEW g \in Gen, socket'[g] = "closing"
               PROVE  \E s \in Tasks : pc'[s] = "wait" /\ closing'[s] = g
    BY DEF ClosingIsWaited
  <2>1. PICK s \in Tasks : pc[s] = "wait" /\ closing[s] = g
    BY <1>a DEF Alone, ClosingIsWaited
  <2> QED
    BY <2>1, <1>a DEF Gen
<1> QED
  BY <1>1, <1>2, <1>3, <1>4, <1>5, <1>6, <1>7, <1>8, <1>9, <1>10 DEF Alone

(* reconnect() has slept. *)
LEMMA WakeUpKeeps ==
  ASSUME TypeOK, Alone, ~rivals', NEW t \in Tasks, WakeUp(t)
  PROVE  Alone'
<1> USE DEF TypeOK, tasks, refs, things, Connecting, Disconnecting, Tasks
<1>1. AfterIsForDisconnect'
  BY DEF Alone, WakeUp, Goto, AfterIsForDisconnect
<1>2. OneClaim'
  BY DEF Alone, WakeUp, Goto, OneClaim, Claims
<1>3. Referenced'
  BY DEF Alone, WakeUp, Goto, Referenced, Down, Live
<1>4. ConnectingIsWaited'
  BY DEF Alone, WakeUp, Goto, ConnectingIsWaited
<1>5. ConnectsTheNamed'
  BY DEF Alone, WakeUp, Goto, ConnectsTheNamed
<1>6. BroughtDown'
  BY DEF Alone, WakeUp, Goto, BroughtDown, Passed, Down, Live
<1>7. SocketsOwed'
  BY DEF Alone, WakeUp, Goto, SocketsOwed, Owes, Live
<1>8. BridgesOwed'
  BY DEF Alone, WakeUp, Goto, BridgesOwed, Owes
<1>9. StreamsOwed'
  BY DEF Alone, WakeUp, Goto, StreamsOwed, Owes
<1>10. ClosingIsWaited'
  BY DEF Alone, WakeUp, Goto, ClosingIsWaited
<1> QED
  BY <1>1, <1>2, <1>3, <1>4, <1>5, <1>6, <1>7, <1>8, <1>9, <1>10 DEF Alone

(* connect() attempts a new generation.  It is the only claim, and what the *)
(* reference to the connection named is down.                              *)
LEMMA StartConnectKeeps ==
  ASSUME TypeOK, Alone, ~rivals', NEW t \in Tasks, StartConnect(t)
  PROVE  Alone'
<1> USE DEF TypeOK, tasks, refs, things, Connecting, Disconnecting, Tasks
<1>a. /\ pc[t] = "init" /\ pc'[t] \in {"tcp", "bridge"}
      /\ after'[t] # "sleep"
      /\ \A s \in Tasks \ {t} : /\ pc'[s] = pc[s] /\ gen'[s] = gen[s]
                               /\ after'[s] = after[s]
      /\ UNCHANGED <<closing, bridge, stream, brdg, strm>>
      /\ \A g \in Gen \ {conn'} : socket'[g] = socket[g]
      /\ \/ /\ pc'[t] = "tcp" /\ conn' \in Gen
            /\ gen'[t] = conn' /\ socket'[conn'] = "connecting"
            /\ UNCHANGED running
         \/ UNCHANGED <<conn, socket>> /\ pc'[t] = "bridge"
  <2>1. CASE Fail(t) /\ UNCHANGED <<last, conn, socket>>
    BY <2>1 DEF StartConnect, Fail, EnterDisconnect, Alone,
       AfterIsForDisconnect
  <2>2. CASE ~(Fail(t) /\ UNCHANGED <<last, conn, socket>>)
    <3>1. /\ last < MaxGen /\ conn' = last + 1
          /\ gen' = [gen EXCEPT ![t] = last + 1]
          /\ socket' = [socket EXCEPT ![last + 1] = "connecting"]
          /\ pc' = [pc EXCEPT ![t] = "tcp"]
          /\ UNCHANGED <<after, closing, running>>
      BY <2>2 DEF StartConnect, Goto
    <3>2. last + 1 \in Gen
      BY <3>1, LifecycleAssumption DEF Gen
    <3>3. /\ UNCHANGED <<bridge, stream, brdg, strm>>
          /\ pc[t] = "init" /\ after[t] # "sleep"
      BY DEF StartConnect, Alone, AfterIsForDisconnect
    <3> QED
      BY <3>1, <3>2, <3>3
  <2> QED
    BY <2>1, <2>2
<1>1. AfterIsForDisconnect'
  BY <1>a DEF Alone, AfterIsForDisconnect
<1>2. OneClaim'
  <2>1. \A s \in Tasks : Claims(s)' => Claims(s)
    BY <1>a DEF Claims
  <2> QED
    BY <2>1 DEF Alone, OneClaim
<1>3. Referenced'
  BY <1>a DEF Alone, Referenced, Down, Live, BroughtDown, Passed, Down
<1>4. ConnectingIsWaited'
  BY <1>a DEF Alone, ConnectingIsWaited, BroughtDown, Passed, Down
<1>5. ConnectsTheNamed'
  BY <1>a DEF Alone, ConnectsTheNamed, OneClaim, Claims
<1>6. BroughtDown'
  BY <1>a DEF Alone, BroughtDown, Passed, Down, Live, OneClaim, Claims
<1>7. SocketsOwed'
  BY <1>a DEF Alone, SocketsOwed, Owes, Live
<1>8. BridgesOwed'
  BY <1>a DEF Alone, BridgesOwed, Owes
<1>9. StreamsOwed'
  BY <1>a DEF Alone, StreamsOwed, Owes
<1>10. ClosingIsWaited'
  BY <1>a DEF Alone, ClosingIsWaited
<1> QED
  BY <1>1, <1>2, <1>3, <1>4, <1>5, <1>6, <1>7, <1>8, <1>9, <1>10 DEF Alone

(* The socket is up or gone; it is the one that is referenced. *)
LEMMA TcpConnectedKeeps ==
  ASSUME TypeOK, Alone, ~rivals', NEW t \in Tasks, TcpConnected(t)
  PROVE  Alone'
<1> USE DEF TypeOK, tasks, refs, things, Connecting, Disconnecting, Tasks
<1>a. /\ pc[t] = "tcp" /\ pc'[t] \in {"header", "bridge"}
      /\ after'[t] # "sleep"
      /\ \A s \in Tasks \ {t} : /\ pc'[s] = pc[s] /\ gen'[s] = gen[s]
                               /\ after'[s] = after[s]
      /\ UNCHANGED <<closing, gen, bridge, stream, conn, brdg, strm>>
      /\ \A g \in Gen \ {gen[t]} : socket'[g] = socket[g]
      /\ gen[t] \in Gen =>
            \/ pc'[t] = "header" /\ socket'[gen[t]] = "open"
            \/ pc'[t] = "bridge" /\ socket'[gen[t]] = "none"
      /\ pc'[t] = "bridge" \/ UNCHANGED running
  <2>1. CASE Fail(t) /\ socket' = [socket EXCEPT ![gen[t]] = "none"]
    BY <2>1 DEF TcpConnected, Fail, EnterDisconnect, Alone,
       AfterIsForDisconnect
  <2>2. CASE ~(Fail(t) /\ socket' = [socket EXCEPT ![gen[t]] = "none"])
    <3>1. /\ pc[t] = "tcp" /\ Goto(t, "header") /\ UNCHANGED <<gen, after, closing, running>>
          /\ socket' = [socket EXCEPT ![gen[t]] = "open"]
          /\ UNCHANGED <<bridge, stream, conn, brdg, strm>>
      BY <2>2 DEF TcpConnected
    <3>2. after'[t] # "sleep"
      BY <3>1 DEF Alone, AfterIsForDisconnect
    <3>3. /\ pc'[t] = "header"
          /\ \A s \in Tasks \ {t} : pc'[s] = pc[s]
      BY <3>1 DEF Goto
    <3>4. /\ \A g \in Gen \ {gen[t]} : socket'[g] = socket[g]
          /\ gen[t] \in Gen => socket'[gen[t]] = "open"
      BY <3>1
    <3> QED
      BY <3>1, <3>2, <3>3, <3>4
  <2> QED
    BY <2>1, <2>2
<1>1. AfterIsForDisconnect'
  BY <1>a DEF Alone, AfterIsForDisconnect
<1>2. OneClaim'
  <2>1. \A s \in Tasks : Claims(s)' => Claims(s)
    BY <1>a DEF Claims
  <2> QED
    BY <2>1 DEF Alone, OneClaim
<1>3. Referenced'
  BY <1>a DEF Alone, Referenced, Down, Live, ConnectsTheNamed, Gen
<1>4. ConnectingIsWaited'
  BY <1>a DEF Alone, ConnectingIsWaited
<1>5. ConnectsTheNamed'
  BY <1>a DEF Alone, ConnectsTheNamed
<1>6. BroughtDown'
  BY <1>a DEF Alone, BroughtDown, Passed, Down, Live, OneClaim, Claims
<1>7. SocketsOwed'
  BY <1>a DEF Alone, SocketsOwed, Owes, Live
<1>8. BridgesOwed'
  BY <1>a DEF Alone, BridgesOwed, Owes
<1>9. StreamsOwed'
  BY <1>a DEF Alone, StreamsOwed, Owes
<1>10. ClosingIsWaited'
  BY <1>a DEF Alone, ClosingIsWaited
<1> QED
  BY <1>1, <1>2, <1>3, <1>4, <1>5, <1>6, <1>7, <1>8, <1>9, <1>10 DEF Alone

(* Stream and bridge of the new generation; the old ones are down. *)
LEMMA SendHeaderKeeps ==
  ASSUME TypeOK, Alone, ~rivals', NEW t \in Tasks, SendHeader(t)
  PROVE  Alone'
<1> USE DEF TypeOK, tasks, refs, things, Connecting, Disconnecting, Tasks
<1>a. /\ pc[t] = "header" /\ pc'[t] \in {"handshake", "bridge"}
      /\ after'[t] # "sleep"
      /\ \A s \in Tasks \ {t} : /\ pc'[s] = pc[s] /\ gen'[s] = gen[s]
                               /\ after'[s] = after[s]
      /\ UNCHANGED <<closing, gen, socket, conn>>
      /\ \A g \in Gen :
            /\ \/ bridge'[g] = "run" => bridge[g] = "run"
               \/ gen[t] = g /\ pc'[t] = "handshake"
            /\ \/ stream'[g] = "open" => stream[g] = "open"
               \/ gen[t] = g /\ pc'[t] = "handshake"
      /\ IF pc'[t] = "bridge" THEN UNCHANGED <<brdg, strm>>
         ELSE brdg' = gen[t] /\ strm' = gen[t]
      /\ pc'[t] = "bridge" \/ UNCHANGED running
  <2>1. pc[t] = "header" /\ after[t] # "sleep"
    BY DEF SendHeader, Alone, AfterIsForDisconnect
  <2>2. CASE Fail(t) /\ UNCHANGED <<strm, brdg, stream, bridge>>
    BY <2>1, <2>2 DEF SendHeader, Fail, EnterDisconnect
  <2>3. CASE ~(Fail(t) /\ UNCHANGED <<strm, brdg, stream, bridge>>)
    BY <2>1, <2>3 DEF SendHeader, Goto
  <2> QED
    BY <2>2, <2>3
<1>1. AfterIsForDisconnect'
  BY <1>a DEF Alone, AfterIsForDisconnect
<1>2. OneClaim'
  <2>1. \A s \in Tasks : Claims(s)' => Claims(s)
    BY <1>a DEF Claims
  <2> QED
    BY <2>1 DEF Alone, OneClaim
<1>3. Referenced'
  BY <1>a DEF Alone, Referenced, Down, Live, BroughtDown
<1>4. ConnectingIsWaited'
  BY <1>a DEF Alone, ConnectingIsWaited
<1>5. ConnectsTheNamed'
  BY <1>a DEF Alone, ConnectsTheNamed
<1>6. BroughtDown'
  BY <1>a DEF Alone, BroughtDown, Passed, Down, Live, OneClaim, Claims
<1>7. SocketsOwed'
  BY <1>a DEF Alone, SocketsOwed, Owes, Live
<1>8. BridgesOwed'
  BY <1>a DEF Alone, BridgesOwed, Owes
<1>9. StreamsOwed'
  BY <1>a DEF Alone, StreamsOwed, Owes
<1>10. ClosingIsWaited'
  BY <1>a DEF Alone, ClosingIsWaited
<1> QED
  BY <1>1, <1>2, <1>3, <1>4, <1>5, <1>6, <1>7, <1>8, <1>9, <1>10 DEF Alone

(* The handshake succeeds, or disconnect() follows. *)
LEMMA HandshakeKeeps ==
  ASSUME TypeOK, Alone, ~rivals', NEW t \in Tasks, Handshake(t)
  PROVE  Alone'
<1> USE DEF TypeOK, tasks, refs, things, Connecting, Disconnecting, Tasks
<1>a. /\ pc[t] = "handshake" /\ pc'[t] \in {"settle", "bridge"}
      /\ after'[t] # "sleep"
      /\ \A s \in Tasks \ {t} : /\ pc'[s] = pc[s] /\ gen'[s] = gen[s]
                               /\ after'[s] = after[s]
      /\ UNCHANGED <<closing, gen, socket, bridge, stream, conn, brdg, strm>>
      /\ pc'[t] = "bridge" \/ UNCHANGED running
  <2>1. pc[t] = "handshake" /\ after[t] # "sleep"
    BY DEF Handshake, Alone, AfterIsForDisconnect
  <2>2. CASE Fail(t)
    BY <2>1, <2>2 DEF Handshake, Fail, EnterDisconnect
  <2>3. CASE ~Fail(t)
    BY <2>1, <2>3 DEF Handshake, Goto
  <2> QED
    BY <2>2, <2>3
<1>1. AfterIsForDisconnect'
  BY <1>a DEF Alone, AfterIsForDisconnect
<1>2. OneClaim'
  <2>1. \A s \in Tasks : Claims(s)' => Claims(s)
    BY <1>a DEF Claims
  <2> QED
    BY <2>1 DEF Alone, OneClaim
<1>3. Referenced'
  BY <1>a DEF Alone, Referenced, Down, Live
<1>4. ConnectingIsWaited'
  BY <1>a DEF Alone, ConnectingIsWaited
<1>5. ConnectsTheNamed'
  BY <1>a DEF Alone, ConnectsTheNamed
<1>6. BroughtDown'
  BY <1>a DEF Alone, BroughtDown, Passed, Down, Live
<1>7. SocketsOwed'
  BY <1>a DEF Alone, SocketsOwed, Owes, Live
<1>8. BridgesOwed'
  BY <1>a DEF Alone, BridgesOwed, Owes
<1>9. StreamsOwed'
  BY <1>a DEF Alone, StreamsOwed, Owes
<1>10. ClosingIsWaited'
  BY <1>a DEF Alone, ClosingIsWaited
<1> QED
  BY <1>1, <1>2, <1>3, <1>4, <1>5, <1>6, <1>7, <1>8, <1>9, <1>10 DEF Alone

(* The client is up: what runs need not be brought down by this connect(). *)
LEMMA DeclareUpKeeps ==
  ASSUME TypeOK, Alone, ~rivals', NEW t \in Tasks, DeclareUp(t)
  PROVE  Alone'
<1> USE DEF TypeOK, tasks, refs, things, Connecting, Disconnecting, Tasks
<1>1. AfterIsForDisconnect'
  BY DEF Alone, DeclareUp, Return, AfterIsForDisconnect
<1>2. OneClaim'
  BY DEF Alone, DeclareUp, Return, OneClaim, Claims
<1>3. Referenced'
  BY DEF Alone, DeclareUp, Return, Referenced, Down, Live
<1>4. ConnectingIsWaited'
  BY DEF Alone, DeclareUp, Return, ConnectingIsWaited
<1>5. ConnectsTheNamed'
  BY DEF Alone, DeclareUp, Return, ConnectsTheNamed
<1>6. BroughtDown'
  BY DEF Alone, DeclareUp, Return, BroughtDown, Passed, Down, Live
<1>7. SocketsOwed'
  BY DEF Alone, DeclareUp, Return, SocketsOwed, Owes, Live
<1>8. BridgesOwed'
  BY DEF Alone, DeclareUp, Return, BridgesOwed, Owes
<1>9. StreamsOwed'
  BY DEF Alone, DeclareUp, Return, StreamsOwed, Owes
<1>10. ClosingIsWaited'
  BY DEF Alone, DeclareUp, Return, ClosingIsWaited
<1> QED
  BY <1>1, <1>2, <1>3, <1>4, <1>5, <1>6, <1>7, <1>8, <1>9, <1>10 DEF Alone

(* The last part of connect() fails, and disconnect() follows. *)
LEMMA SettleFailsKeeps ==
  ASSUME TypeOK, Alone, ~rivals', NEW t \in Tasks, SettleFails(t)
  PROVE  Alone'
<1> USE DEF TypeOK, tasks, refs, things, Connecting, Disconnecting, Tasks
<1>1. AfterIsForDisconnect'
  BY DEF Alone, SettleFails, Fail, EnterDisconnect, AfterIsForDisconnect
<1>2. OneClaim'
  BY DEF Alone, SettleFails, Fail, EnterDisconnect, OneClaim, Claims
<1>3. Referenced'
  BY DEF Alone, SettleFails, Fail, EnterDisconnect, Referenced, Down, Live
<1>4. ConnectingIsWaited'
  BY DEF Alone, SettleFails, Fail, EnterDisconnect, ConnectingIsWaited
<1>5. ConnectsTheNamed'
  BY DEF Alone, SettleFails, Fail, EnterDisconnect, ConnectsTheNamed
<1>6. BroughtDown'
  BY DEF Alone, SettleFails, Fail, EnterDisconnect, BroughtDown, Passed, Down,
     Live
<1>7. SocketsOwed'
  BY DEF Alone, SettleFails, Fail, EnterDisconnect, SocketsOwed, Owes, Live
<1>8. BridgesOwed'
  BY DEF Alone, SettleFails, Fail, EnterDisconnect, BridgesOwed, Owes
<1>9. StreamsOwed'
  BY DEF Alone, SettleFails, Fail, EnterDisconnect, StreamsOwed, Owes
<1>10. ClosingIsWaited'
  BY DEF Alone, SettleFails, Fail, EnterDisconnect, ClosingIsWaited
<1> QED
  BY <1>1, <1>2, <1>3, <1>4, <1>5, <1>6, <1>7, <1>8, <1>9, <1>10 DEF Alone

(* An EOF starts a disconnect() at most. *)
LEMMA BridgeSeesEofKeeps ==
  ASSUME TypeOK, Alone, ~rivals', NEW g \in Gen, BridgeSeesEof(g)
  PROVE  Alone'
<1> USE DEF TypeOK, tasks, refs, things, Connecting, Disconnecting, Tasks
<1>a. /\ \A u \in Tasks : \/ pc'[u] = pc[u] /\ after'[u] = after[u]
                         \/ /\ pc[u] = "idle" /\ pc'[u] = "start"
                            /\ after'[u] = "idle"
      /\ UNCHANGED <<gen, closing, conn, brdg, strm, socket, running>>
      /\ \A h \in Gen : /\ bridge'[h] = "run" => bridge[h] = "run"
                        /\ stream'[h] = "open" => stream[h] = "open"
  BY DEF BridgeSeesEof, EofEvent, Emit, Spawn, FirstFree
<1>1. AfterIsForDisconnect'
  BY <1>a DEF Alone, AfterIsForDisconnect
<1>2. OneClaim'
  <2>1. \A u \in Tasks : Claims(u)' => Claims(u)
    BY <1>a DEF Claims
  <2> QED
    BY <2>1 DEF Alone, OneClaim
<1>3. Referenced'
  BY <1>a DEF Alone, Referenced, Down, Live
<1>4. ConnectingIsWaited'
  BY <1>a DEF Alone, ConnectingIsWaited
<1>5. ConnectsTheNamed'
  BY <1>a DEF Alone, ConnectsTheNamed
<1>6. BroughtDown'
  BY <1>a DEF Alone, BroughtDown, Passed, Down, Live
<1>7. SocketsOwed'
  BY <1>a DEF Alone, SocketsOwed, Owes, Live
<1>8. BridgesOwed'
  BY <1>a DEF Alone, BridgesOwed, Owes
<1>9. StreamsOwed'
  BY <1>a DEF Alone, StreamsOwed, Owes
<1>10. ClosingIsWaited'
  BY <1>a DEF Alone, ClosingIsWaited
<1> QED
  BY <1>1, <1>2, <1>3, <1>4, <1>5, <1>6, <1>7, <1>8, <1>9, <1>10 DEF Alone

(* An error of the read loop starts a reconnect().  A bridge that runs shows *)
(* that nobody is past his disconnect(); who is in it would be a rival.    *)
LEMMA BridgeSeesResetKeeps ==
  ASSUME TypeOK, Alone, ~rivals', NEW g \in Gen, BridgeSeesReset(g)
  PROVE  Alone'
<1> USE DEF TypeOK, tasks, refs, things, Connecting, Disconnecting, Tasks
<1>a. /\ \A u \in Tasks : \/ pc'[u] = pc[u] /\ after'[u] = after[u]
                         \/ /\ pc[u] = "idle" /\ pc'[u] = "start"
                            /\ after'[u] = "sleep"
      /\ UNCHANGED <<gen, closing, conn, brdg, strm, socket, running>>
      /\ \A h \in Gen : /\ bridge'[h] = "run" => bridge[h] = "run"
                        /\ stream'[h] = "open" => stream[h] = "open"
  <2>1. CASE UNCHANGED tasks
    BY <2>1 DEF BridgeSeesReset
  <2>2. CASE ~shut /\ Spawn("sleep")
    <3>1. PICK s \in Tasks : /\ pc[s] = "idle" /\ UNCHANGED <<gen, closing>>
                             /\ pc' = [pc EXCEPT ![s] = "start"]
                             /\ after' = [after EXCEPT ![s] = "sleep"]
      BY <2>2 DEF Spawn, FirstFree
    <3>2. \A u \in Tasks : \/ pc'[u] = pc[u] /\ after'[u] = after[u]
                           \/ /\ pc[u] = "idle" /\ pc'[u] = "start"
                              /\ after'[u] = "sleep"
      BY <3>1
    <3> QED
      BY <3>1, <3>2 DEF BridgeSeesReset
  <2> QED
    BY <2>1, <2>2 DEF BridgeSeesReset, Emit
<1>1. AfterIsForDisconnect'
  BY <1>a DEF Alone, AfterIsForDisconnect
<1>2. OneClaim'
  <2>1. CASE UNCHANGED tasks
    BY <2>1 DEF Alone, OneClaim, Claims
  <2>2. CASE ~shut /\ Spawn("sleep")
    <3>1. PICK s \in Tasks : /\ pc[s] = "idle"
                           /\ pc' = [pc EXCEPT ![s] = "start"]
                             /\ after' = [after EXCEPT ![s] = "sleep"]
      BY <2>2 DEF Spawn, FirstFree
    <3>2. bridge[g] = "run" /\ \A u \in Tasks : after[u] # "sleep"
      BY <2>2, <3>1 DEF BridgeSeesReset
    <3>3. \A u \in Tasks : ~Claims(u)
      BY <3>2 DEF Alone, BroughtDown, Passed, Claims
    <3>4. \A u \in Tasks : Claims(u)' => u = s
      BY <3>1, <3>3 DEF Claims
    <3> QED
      BY <3>4 DEF OneClaim
  <2> QED
    BY <2>1, <2>2 DEF BridgeSeesReset, Emit
<1>3. Referenced'
  BY <1>a DEF Alone, Referenced, Down, Live
<1>4. ConnectingIsWaited'
  BY <1>a DEF Alone, ConnectingIsWaited
<1>5. ConnectsTheNamed'
  BY <1>a DEF Alone, ConnectsTheNamed
<1>6. BroughtDown'
  BY <1>a DEF Alone, BroughtDown, Passed, Down, Live
<1>7. SocketsOwed'
  BY <1>a DEF Alone, SocketsOwed, Owes, Live
<1>8. BridgesOwed'
  BY <1>a DEF Alone, BridgesOwed, Owes
<1>9. StreamsOwed'
  BY <1>a DEF Alone, StreamsOwed, Owes
<1>10. ClosingIsWaited'
  BY <1>a DEF Alone, ClosingIsWaited
<1> QED
  BY <1>1, <1>2, <1>3, <1>4, <1>5, <1>6, <1>7, <1>8, <1>9, <1>10 DEF Alone

(* A bridge ends when its socket was closed. *)
LEMMA BridgeSeesCloseKeeps ==
  ASSUME TypeOK, Alone, ~rivals', NEW g \in Gen, BridgeSeesClose(g)
  PROVE  Alone'
<1> USE DEF TypeOK, tasks, refs, things, Connecting, Disconnecting, Tasks
<1>1. AfterIsForDisconnect'
  BY DEF Alone, BridgeSeesClose, AfterIsForDisconnect
<1>2. OneClaim'
  BY DEF Alone, BridgeSeesClose, OneClaim, Claims
<1>3. Referenced'
  BY DEF Alone, BridgeSeesClose, Referenced, Down, Live
<1>4. ConnectingIsWaited'
  BY DEF Alone, BridgeSeesClose, ConnectingIsWaited
<1>5. ConnectsTheNamed'
  BY DEF Alone, BridgeSeesClose, ConnectsTheNamed
<1>6. BroughtDown'
  BY DEF Alone, BridgeSeesClose, BroughtDown, Passed, Down, Live
<1>7. SocketsOwed'
  BY DEF Alone, BridgeSeesClose, SocketsOwed, Owes, Live
<1>8. BridgesOwed'
  BY DEF Alone, BridgeSeesClose, BridgesOwed, Owes
<1>9. StreamsOwed'
  BY DEF Alone, BridgeSeesClose, StreamsOwed, Owes
<1>10. ClosingIsWaited'
  BY DEF Alone, BridgeSeesClose, ClosingIsWaited
<1> QED
  BY <1>1, <1>2, <1>3, <1>4, <1>5, <1>6, <1>7, <1>8, <1>9, <1>10 DEF Alone

(* The transport has closed the socket. *)
LEMMA ClosedKeeps ==
  ASSUME TypeOK, Alone, ~rivals', NEW g \in Gen, Closed(g)
  PROVE  Alone'
<1> USE DEF TypeOK, tasks, refs, things, Connecting, Disconnecting, Tasks
<1>1. AfterIsForDisconnect'
  BY DEF Alone, Closed, AfterIsForDisconnect
<1>2. OneClaim'
  BY DEF Alone, Closed, OneClaim, Claims
<1>3. Referenced'
  BY DEF Alone, Closed, Referenced, Down, Live
<1>4. ConnectingIsWaited'
  BY DEF Alone, Closed, ConnectingIsWaited
<1>5. ConnectsTheNamed'
  BY DEF Alone, Closed, ConnectsTheNamed
<1>6. BroughtDown'
  BY DEF Alone, Closed, BroughtDown, Passed, Down, Live
<1>7. SocketsOwed'
  BY DEF Alone, Closed, SocketsOwed, Owes, Live
<1>8. BridgesOwed'
  BY DEF Alone, Closed, BridgesOwed, Owes
<1>9. StreamsOwed'
  BY DEF Alone, Closed, StreamsOwed, Owes
<1>10. ClosingIsWaited'
  BY DEF Alone, Closed, ClosingIsWaited
<1> QED
  BY <1>1, <1>2, <1>3, <1>4, <1>5, <1>6, <1>7, <1>8, <1>9, <1>10 DEF Alone

(* A message loop ends. *)
LEMMA LoopEndsKeeps ==
  ASSUME TypeOK, Alone, ~rivals', NEW g \in Gen, LoopEnds(g)
  PROVE  Alone'
<1> USE DEF TypeOK, tasks, refs, things, Connecting, Disconnecting, Tasks
<1>1. AfterIsForDisconnect'
  BY DEF Alone, LoopEnds, AfterIsForDisconnect
<1>2. OneClaim'
  BY DEF Alone, LoopEnds, OneClaim, Claims
<1>3. Referenced'
  BY DEF Alone, LoopEnds, Referenced, Down, Live
<1>4. ConnectingIsWaited'
  BY DEF Alone, LoopEnds, ConnectingIsWaited
<1>5. ConnectsTheNamed'
  BY DEF Alone, LoopEnds, ConnectsTheNamed
<1>6. BroughtDown'
  BY DEF Alone, LoopEnds, BroughtDown, Passed, Down, Live
<1>7. SocketsOwed'
  BY DEF Alone, LoopEnds, SocketsOwed, Owes, Live
<1>8. BridgesOwed'
  BY DEF Alone, LoopEnds, BridgesOwed, Owes
<1>9. StreamsOwed'
  BY DEF Alone, LoopEnds, StreamsOwed, Owes
<1>10. ClosingIsWaited'
  BY DEF Alone, LoopEnds, ClosingIsWaited
<1> QED
  BY <1>1, <1>2, <1>3, <1>4, <1>5, <1>6, <1>7, <1>8, <1>9, <1>10 DEF Alone

(* The peer closes the connection or resets it. *)
LEMMA PeerClosesKeeps ==
  ASSUME TypeOK, Alone, ~rivals', NEW g \in Gen, PeerCloses(g)
  PROVE  Alone'
<1> USE DEF TypeOK, tasks, refs, things, Connecting, Disconnecting, Tasks
<1>1. AfterIsForDisconnect'
  BY DEF Alone, PeerCloses, AfterIsForDisconnect
<1>2. OneClaim'
  BY DEF Alone, PeerCloses, OneClaim, Claims
<1>3. Referenced'
  BY DEF Alone, PeerCloses, Referenced, Down, Live
<1>4. ConnectingIsWaited'
  BY DEF Alone, PeerCloses, ConnectingIsWaited
<1>5. ConnectsTheNamed'
  BY DEF Alone, PeerCloses, ConnectsTheNamed
<1>6. BroughtDown'
  BY DEF Alone, PeerCloses, BroughtDown, Passed, Down, Live
<1>7. SocketsOwed'
  BY DEF Alone, PeerCloses, SocketsOwed, Owes, Live
<1>8. BridgesOwed'
  BY DEF Alone, PeerCloses, BridgesOwed, Owes
<1>9. StreamsOwed'
  BY DEF Alone, PeerCloses, StreamsOwed, Owes
<1>10. ClosingIsWaited'
  BY DEF Alone, PeerCloses, ClosingIsWaited
<1> QED
  BY <1>1, <1>2, <1>3, <1>4, <1>5, <1>6, <1>7, <1>8, <1>9, <1>10 DEF Alone

(* The server's stream:error or failure starts a disconnect(). *)
LEMMA KickedKeeps ==
  ASSUME TypeOK, Alone, ~rivals', NEW g \in Gen, Kicked(g)
  PROVE  Alone'
<1> USE DEF TypeOK, tasks, refs, things, Connecting, Disconnecting, Tasks
<1>a. /\ \A u \in Tasks : \/ pc'[u] = pc[u] /\ after'[u] = after[u]
                         \/ /\ pc[u] = "idle" /\ pc'[u] = "start"
                            /\ after'[u] = "idle"
      /\ UNCHANGED <<gen, closing, conn, brdg, strm, socket, bridge,
                    stream, running>>
  BY DEF Kicked, Emit, Spawn, FirstFree
<1>1. AfterIsForDisconnect'
  BY <1>a DEF Alone, AfterIsForDisconnect
<1>2. OneClaim'
  <2>1. \A u \in Tasks : Claims(u)' => Claims(u)
    BY <1>a DEF Claims
  <2> QED
    BY <2>1 DEF Alone, OneClaim
<1>3. Referenced'
  BY <1>a DEF Alone, Referenced, Down, Live
<1>4. ConnectingIsWaited'
  BY <1>a DEF Alone, ConnectingIsWaited
<1>5. ConnectsTheNamed'
  BY <1>a DEF Alone, ConnectsTheNamed
<1>6. BroughtDown'
  BY <1>a DEF Alone, BroughtDown, Passed, Down, Live
<1>7. SocketsOwed'
  BY <1>a DEF Alone, SocketsOwed, Owes, Live
<1>8. BridgesOwed'
  BY <1>a DEF Alone, BridgesOwed, Owes
<1>9. StreamsOwed'
  BY <1>a DEF Alone, StreamsOwed, Owes
<1>10. ClosingIsWaited'
  BY <1>a DEF Alone, ClosingIsWaited
<1> QED
  BY <1>1, <1>2, <1>3, <1>4, <1>5, <1>6, <1>7, <1>8, <1>9, <1>10 DEF Alone

(* The application connects when the client is at rest and down: nobody    *)
(* claims the references and all they name is down.                        *)
LEMMA UserConnectKeeps ==
  ASSUME TypeOK, Alone, ~rivals', UserConnect
  PROVE  Alone'
<1> USE DEF TypeOK, tasks, refs, things, Connecting, Disconnecting, Tasks
<1>a. \A s \in Tasks : ~Claims(s)
  BY DEF Alone, UserConnect, Quiet, Claims, AfterIsForDisconnect
<1>b. \A g \in Gen : Down(g) /\ bridge[g] # "run" /\ stream[g] # "open"
  BY DEF Alone, UserConnect, Quiet, Down, ConnectingIsWaited,
         SocketsOwed, BridgesOwed, StreamsOwed, Owes
<1>c. /\ \A s \in Tasks \ {1} : pc'[s] = pc[s] /\ pc'[s] = "idle"
      /\ UNCHANGED <<after, socket, bridge, stream>>
  BY DEF UserConnect, Goto, Quiet
<1>1. AfterIsForDisconnect'
  BY DEF Alone, UserConnect, Goto, Quiet, AfterIsForDisconnect
<1>2. OneClaim'
  <2>1. \A s \in Tasks : Claims(s)' => s = 1
    BY <1>a, <1>c DEF Claims
  <2> QED
    BY <2>1 DEF OneClaim
<1>3. Referenced'
  BY DEF Alone, UserConnect, Goto, Quiet, Referenced, Down, Live
<1>4. ConnectingIsWaited'
  BY DEF Alone, UserConnect, Goto, Quiet, ConnectingIsWaited
<1>5. ConnectsTheNamed'
  BY DEF Alone, UserConnect, Goto, Quiet, ConnectsTheNamed
<1>6. BroughtDown'
  BY <1>b DEF UserConnect, BroughtDown, Down, Live
<1>7. SocketsOwed'
  BY DEF Alone, UserConnect, Goto, Quiet, SocketsOwed, Owes, Live
<1>8. BridgesOwed'
  BY DEF Alone, UserConnect, Goto, Quiet, BridgesOwed, Owes
<1>9. StreamsOwed'
  BY DEF Alone, UserConnect, Goto, Quiet, StreamsOwed, Owes
<1>10. ClosingIsWaited'
  BY DEF Alone, UserConnect, Goto, Quiet, ClosingIsWaited
<1> QED
  BY <1>1, <1>2, <1>3, <1>4, <1>5, <1>6, <1>7, <1>8, <1>9, <1>10 DEF Alone

(* The application disconnects when the client is at rest. *)
LEMMA UserDisconnectKeeps ==
  ASSUME TypeOK, Alone, ~rivals', UserDisconnect
  PROVE  Alone'
<1> USE DEF TypeOK, tasks, refs, things, Connecting, Disconnecting, Tasks
<1>1. AfterIsForDisconnect'
  BY DEF Alone, UserDisconnect, Spawn, FirstFree, Quiet, AfterIsForDisconnect
<1>2. OneClaim'
  BY DEF Alone, UserDisconnect, Spawn, FirstFree, Quiet, OneClaim, Claims
<1>3. Referenced'
  BY DEF Alone, UserDisconnect, Spawn, FirstFree, Quiet, Referenced, Down, Live
<1>4. ConnectingIsWaited'
  BY DEF Alone, UserDisconnect, Spawn, FirstFree, Quiet, ConnectingIsWaited
<1>5. ConnectsTheNamed'
  BY DEF Alone, UserDisconnect, Spawn, FirstFree, Quiet, ConnectsTheNamed
<1>6. BroughtDown'
  BY DEF Alone, UserDisconnect, Spawn, FirstFree, Quiet, BroughtDown, Passed,
     Down, Live
<1>7. SocketsOwed'
  BY DEF Alone, UserDisconnect, Spawn, FirstFree, Quiet, SocketsOwed, Owes,
     Live
<1>8. BridgesOwed'
  BY DEF Alone, UserDisconnect, Spawn, FirstFree, Quiet, BridgesOwed, Owes
<1>9. StreamsOwed'
  BY DEF Alone, UserDisconnect, Spawn, FirstFree, Quiet, StreamsOwed, Owes
<1>10. ClosingIsWaited'
  BY DEF Alone, UserDisconnect, Spawn, FirstFree, Quiet, ClosingIsWaited
<1> QED
  BY <1>1, <1>2, <1>3, <1>4, <1>5, <1>6, <1>7, <1>8, <1>9, <1>10 DEF Alone

(* The application reconnects when the client is at rest: it is the only   *)
(* claim.                                                                  *)
LEMMA UserReconnectKeeps ==
  ASSUME TypeOK, Alone, ~rivals', UserReconnect
  PROVE  Alone'
<1> USE DEF TypeOK, tasks, refs, things, Connecting, Disconnecting, Tasks
<1>1. AfterIsForDisconnect'
  BY DEF Alone, UserReconnect, Spawn, FirstFree, Quiet, AfterIsForDisconnect
<1>2. OneClaim'
  <2>1. \A s \in Tasks : ~Claims(s)
    BY DEF Alone, UserReconnect, Quiet, Claims, AfterIsForDisconnect
  <2>2. PICK s \in Tasks : /\ pc' = [pc EXCEPT ![s] = "start"]
                           /\ after' = [after EXCEPT ![s] = "sleep"]
    BY DEF UserReconnect, Spawn
  <2>3. \A u \in Tasks : Claims(u)' => u = s
    BY <2>1, <2>2 DEF Claims
  <2> QED
    BY <2>3 DEF OneClaim
<1>3. Referenced'
  BY DEF Alone, UserReconnect, Spawn, FirstFree, Quiet, Referenced, Down, Live
<1>4. ConnectingIsWaited'
  BY DEF Alone, UserReconnect, Spawn, FirstFree, Quiet, ConnectingIsWaited
<1>5. ConnectsTheNamed'
  BY DEF Alone, UserReconnect, Spawn, FirstFree, Quiet, ConnectsTheNamed
<1>6. BroughtDown'
  BY DEF Alone, UserReconnect, Spawn, FirstFree, Quiet, BroughtDown, Passed,
     Down, Live
<1>7. SocketsOwed'
  BY DEF Alone, UserReconnect, Spawn, FirstFree, Quiet, SocketsOwed, Owes, Live
<1>8. BridgesOwed'
  BY DEF Alone, UserReconnect, Spawn, FirstFree, Quiet, BridgesOwed, Owes
<1>9. StreamsOwed'
  BY DEF Alone, UserReconnect, Spawn, FirstFree, Quiet, StreamsOwed, Owes
<1>10. ClosingIsWaited'
  BY DEF Alone, UserReconnect, Spawn, FirstFree, Quiet, ClosingIsWaited
<1> QED
  BY <1>1, <1>2, <1>3, <1>4, <1>5, <1>6, <1>7, <1>8, <1>9, <1>10 DEF Alone
-----------------------------------------------------------------------------
(* Rivals that have met are remembered. *)
LEMMA RivalsStay == TypeOK /\ [Next]_vars /\ ~rivals' => ~rivals
<1> SUFFICES ASSUME TypeOK, [Next]_vars, ~rivals' PROVE ~rivals
  OBVIOUS
<1>1. CASE \E g \in Gen : BridgeSeesReset(g)
  BY <1>1 DEF BridgeSeesReset
<1>2. CASE UNCHANGED rivals
  BY <1>2
<1>3. \/ \E g \in Gen : BridgeSeesReset(g)
      \/ UNCHANGED rivals
  BY DEF Next, vars, User, DisconnectStep, ConnectStep, EventLoop,
         StartDisconnect, StopBridge, CancelStreamAndTasks, CloseConnection,
         FinishDisconnect, WakeUp, StartConnect, TcpConnected, SendHeader,
         Handshake, DeclareUp, SettleFails, BridgeSeesEof, BridgeSeesClose,
         Closed, LoopEnds, PeerCloses, Kicked, UserConnect, UserDisconnect,
         UserReconnect, tasks, refs, things
<1> QED
  BY <1>1, <1>2, <1>3

(* As long as no two reconnect() have met, every step keeps Alone. *)
LEMMA AloneKept == TypeOK /\ Alone /\ ~rivals' /\ [Next]_vars => Alone'
<1> SUFFICES ASSUME TypeOK, Alone, ~rivals', [Next]_vars PROVE Alone'
  OBVIOUS
<1>1. CASE Next
  BY <1>1, StartDisconnectKeeps, StopBridgeKeeps, CancelStreamAndTasksKeeps,
     CloseConnectionKeeps, FinishDisconnectKeeps, WakeUpKeeps,
     StartConnectKeeps, TcpConnectedKeeps, SendHeaderKeeps, HandshakeKeeps,
     DeclareUpKeeps, SettleFailsKeeps, BridgeSeesEofKeeps,
     BridgeSeesResetKeeps, BridgeSeesCloseKeeps, ClosedKeeps, LoopEndsKeeps,
     PeerClosesKeeps, KickedKeeps, UserConnectKeeps, UserDisconnectKeeps,
     UserReconnectKeeps
     DEF Next, User, DisconnectStep, ConnectStep, EventLoop
<1>2. CASE UNCHANGED vars
  BY <1>2 DEF vars, tasks, refs, things, Alone, AfterIsForDisconnect, OneClaim,
     Claims, Referenced, ConnectingIsWaited, ConnectsTheNamed, BroughtDown,
     Passed, Down, Live, SocketsOwed, BridgesOwed, StreamsOwed, Owes,
     ClosingIsWaited
<1> QED
  BY <1>1, <1>2

(* The inductive invariant holds in every behaviour. *)
THEOREM Invariance == Spec => []IInv
<1>1. Init => IInv
  <2> SUFFICES ASSUME Init PROVE IInv
    OBVIOUS
  <2>1. TypeOK
    <3>1. 0 \in 0..MaxGen
      BY LifecycleAssumption
    <3>2. pc = [t \in Tasks |-> "idle"] /\ after = [t \in Tasks |-> "idle"]
      BY DEF Init
    <3>3. pc \in [Tasks -> Labels] /\ after \in [Tasks -> {"idle", "sleep"}]
      BY <3>2 DEF Labels
    <3>4. gen \in [Tasks -> 0..MaxGen] /\ closing \in [Tasks -> 0..MaxGen]
      BY <3>1 DEF Init
    <3>5. {last, conn, brdg, strm, loop} \subseteq 0..MaxGen
      BY <3>1 DEF Init
    <3>6. socket \in [Gen -> {"none"}] /\ bridge = socket /\ stream = socket
          /\ msgs = socket
      BY DEF Init
    <3> QED
      BY <3>3, <3>4, <3>5, <3>6 DEF Init, TypeOK, Labels
  <2>2. Numbered
    BY DEF Init, Numbered
  <2>3. Alone
    BY DEF Init, Alone, AfterIsForDisconnect, OneClaim, Claims, Referenced,
       ConnectingIsWaited, ConnectsTheNamed, BroughtDown, Passed, Down, Live,
       SocketsOwed, BridgesOwed, StreamsOwed, ClosingIsWaited, Disconnecting
  <2> QED
    BY <2>1, <2>2, <2>3 DEF IInv
<1>2. IInv /\ [Next]_vars => IInv'
  BY TypesKept, NumberedKept, RivalsStay, AloneKept DEF IInv
<1> QED
  BY <1>1, <1>2, PTL DEF Spec

(* References name generations, labels are those of the three calls. *)
THEOREM TypeCorrect == Spec => []TypeOK
<1>1. IInv => TypeOK
  BY DEF IInv
<1> QED
  BY <1>1, Invariance, PTL

(* Once every call has returned and the client is down, no socket, bridge  *)
(* or stream of any connection is left, unless two reconnect() have met.   *)
THEOREM ReleasedAlways == Spec => []Released
<1>1. IInv => Released
  <2> SUFFICES ASSUME IInv, Quiet, ~running, ~rivals, NEW g \in Gen
               PROVE  /\ socket[g] \in {"none", "closed"}
                      /\ bridge[g] # "run" /\ stream[g] # "open"
    BY DEF Released
  <2>1. Alone /\ TypeOK /\ \A t \in Tasks : pc[t] = "idle"
    BY DEF IInv, Quiet
  <2>2. ~Live(g)
    BY <2>1 DEF Alone, SocketsOwed, Owes
  <2>3. socket[g] \notin {"connecting", "closing"}
    BY <2>1 DEF Alone, ConnectingIsWaited, ClosingIsWaited
  <2>4. bridge[g] # "run" /\ stream[g] # "open"
    BY <2>1 DEF Alone, BridgesOwed, StreamsOwed, Owes
  <2> QED
    BY <2>1, <2>2, <2>3, <2>4 DEF TypeOK, Live
<1> QED
  BY <1>1, Invariance, PTL

(* The account has one socket to the server at most, unless two            *)
(* reconnect() have met.                                                   *)
THEOREM OneSocketAlways == Spec => []OneSocket
<1>1. IInv => OneSocket
  <2> SUFFICES ASSUME IInv, ~rivals
               PROVE  Cardinality({g \in Gen : Live(g)}) <= 1
    BY DEF OneSocket
  <2>1. {g \in Gen : Live(g)} \subseteq {conn}
    BY DEF IInv, Alone, Referenced, Down
  <2>2. IsFiniteSet({conn}) /\ Cardinality({conn}) = 1
    BY FS_Singleton
  <2> QED
    BY <2>1, <2>2, FS_Subset
<1> QED
  BY <1>1, Invariance, PTL
=============================================================================
