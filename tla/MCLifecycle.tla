---------------------------- MODULE MCLifecycle ----------------------------
(***************************************************************************)
(* Instances of Lifecycle.  Four coroutines are enough for every task the  *)
(* emitter can start: a call of the application, the handler of the        *)
(* bridge's event, the handler of a stream error and the one of the        *)
(* "disconnected" that disconnect() emits, once.  Three connections are    *)
(* the fewest with which two reconnect() both get one; the liveness run    *)
(* has two, the second being the last that can be had.                     *)
(***************************************************************************)
EXTENDS Lifecycle
=============================================================================
