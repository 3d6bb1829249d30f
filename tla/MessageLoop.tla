----------------------------- MODULE MessageLoop -----------------------------
(***************************************************************************)
(* The message loop of core/client.py: a receive loop puts each decoded    *)
(* stanza on an asyncio.PriorityQueue, fifteen equal workers take stanzas  *)
(* from it and route them to the processors.                               *)
(*                                                                         *)
(* The queue is a heap of (priority, (node, data)).  Nodes have no order,  *)
(* so a comparison of two entries of one priority raises: heapq is         *)
(* therefore modelled step by step, with what it leaves behind when it     *)
(* raises half way.  A push that raises has already placed the entry; a    *)
(* pop that raises has already taken the entry it was going to return.     *)
(*                                                                         *)
(* The notification that a contact's identity changed makes its worker     *)
(* wait for the answer to a request for keys (NotificationProcessor), and  *)
(* the answer comes through the same queue.                                *)
(***************************************************************************)
EXTENDS Naturals, Sequences, FiniteSets

CONSTANTS
    Workers,        \* the tasks running process_worker
    Messages, Offline, Controls, Asks,  \* the stanzas the server sends:
                    \* messages, messages of the history, stanzas of control
                    \* that end at once, and changes of an identity
    Capacity        \* maxsize of the queue

ASSUME LoopAssumption ==
    /\ Capacity \in Nat \ {0}
    /\ IsFiniteSet(Messages \cup Offline \cup Controls \cup Asks)

VARIABLES
    coming,     \* stanzas the server may still send
    putting,    \* the entry the receive loop is putting, as a set of 0 or 1
    heap,       \* the queue, entries in the order of the list of heapq
    work,       \* the stanza each worker processes, as a set of 0 or 1
    callbacks,  \* changes of identity whose request waits for its answer
    answered,   \* those whose future has its result
    handled,    \* stanzas whose processing has ended
    dropped,    \* stanzas given up because the queue was full
    lost        \* stanzas a failed pop has thrown away

vars == <<coming, putting, heap, work, callbacks, answered, handled, dropped, lost>>

Stanza(kind, id) == [kind |-> kind, id |-> id]
Answer(s) == Stanza("answer", s.id)
Sent == {Stanza("message", i) : i \in Messages} \cup {Stanza("offline", i) : i \in Offline}
            \cup {Stanza("control", i) : i \in Controls} \cup {Stanza("ask", i) : i \in Asks}
Stanzas == Sent \cup {Stanza("answer", i) : i \in Asks}
Entries == [prio : 0..3, node : Stanzas]

Queued == {heap[i].node : i \in DOMAIN heap}

TypeOK ==
    /\ coming \subseteq Stanzas /\ putting \subseteq Entries
    /\ heap \in Seq(Entries) /\ Len(heap) <= Capacity
    /\ work \in [Workers -> SUBSET Stanzas]
    /\ Cardinality(putting) <= 1 /\ \A w \in Workers : Cardinality(work[w]) <= 1
    /\ callbacks \subseteq Asks /\ answered \subseteq Asks
    /\ handled \subseteq Stanzas /\ dropped \subseteq Stanzas /\ lost \subseteq Stanzas

Init ==
    /\ coming = Sent /\ putting = {} /\ heap = <<>>
    /\ work = [w \in Workers |-> {}]
    /\ callbacks = {} /\ answered = {}
    /\ handled = {} /\ dropped = {} /\ lost = {}
-----------------------------------------------------------------------------
(* heapq: the entry at p goes up while it is less than its parent, and     *)
(* raises when it meets one of its own priority.                           *)
Swap(h, i, j) == [h EXCEPT ![i] = h[j], ![j] = h[i]]

up[h \in Seq(Entries), p \in Nat] ==
    IF p > 1 /\ h[p].prio < h[p \div 2].prio
    THEN up[Swap(h, p, p \div 2), p \div 2]
    ELSE [heap |-> h, raised |-> p > 1 /\ h[p].prio = h[p \div 2].prio]

Push_Appends(h, e) == Append(h, e)  \* variant: the entry is not moved up
Push(h, e) == up[Append(h, e), Len(h) + 1].heap

(* The entry at p goes down along the smaller children to a leaf, and up   *)
(* again; two children of one priority raise.                              *)
Children(h, p) == {2 * p, 2 * p + 1} \cap DOMAIN h
Least(h, C) == {c \in C : \A d \in C : h[c].prio <= h[d].prio}

down[h \in Seq(Entries), p \in Nat] ==
    IF Children(h, p) = {} THEN up[h, p]
    ELSE IF Cardinality(Least(h, Children(h, p))) > 1 THEN [heap |-> h, raised |-> TRUE]
    ELSE LET c == CHOOSE c \in Least(h, Children(h, p)) : TRUE
         IN down[Swap(h, p, c), c]

(* The last entry takes the place of the first, which is returned unless   *)
(* the way down raises.                                                    *)
Pop(h) ==
    LET rest == SubSeq(h, 1, Len(h) - 1)
    IN IF rest = <<>> THEN [heap |-> rest, raised |-> FALSE]
       ELSE down[[rest EXCEPT ![1] = h[Len(h)]], 1]
-----------------------------------------------------------------------------
(* The receive loop decodes a stanza and chooses its priority.             *)
Priority(s) ==
    CASE s.kind = "answer"  -> IF s.id \in callbacks THEN 0 ELSE 1
      [] s.kind \in {"control", "ask"} -> 1
      [] s.kind = "message" -> 2
      [] s.kind = "offline" -> 3

Receive(s) ==
    /\ putting = {} /\ s \in coming
    /\ coming' = coming \ {s}
    /\ putting' = {[prio |-> Priority(s), node |-> s]}
    /\ UNCHANGED <<heap, work, callbacks, answered, handled, dropped, lost>>

Put ==
    /\ Len(heap) < Capacity
    /\ \E e \in putting : heap' = Push(heap, e)
    /\ putting' = {}
    /\ UNCHANGED <<coming, work, callbacks, answered, handled, dropped, lost>>

(* put() waits for a place at most 0.1 s *)
PutTimeout ==
    /\ Len(heap) >= Capacity
    /\ \E e \in putting : dropped' = dropped \cup {e.node}
    /\ putting' = {}
    /\ UNCHANGED <<coming, heap, work, callbacks, answered, handled, lost>>
-----------------------------------------------------------------------------
(* A worker takes the first entry; when heapq raises it has nothing, logs  *)
(* the error and starts over.                                              *)
Take(w) ==
    /\ work[w] = {} /\ heap # <<>>
    /\ heap' = Pop(heap).heap
    /\ IF Pop(heap).raised
       THEN lost' = lost \cup {Head(heap).node} /\ UNCHANGED work
       ELSE work' = [work EXCEPT ![w] = {Head(heap).node}] /\ UNCHANGED lost
    /\ UNCHANGED <<coming, putting, callbacks, answered, handled, dropped>>

Finish(w) ==
    /\ work' = [work EXCEPT ![w] = {}]
    /\ handled' = handled \cup work[w]

Process(w) ==
    /\ \E s \in work[w] : s.kind \in {"message", "offline", "control"}
    /\ Finish(w)
    /\ UNCHANGED <<coming, putting, heap, callbacks, answered, dropped, lost>>

(* An answer: the callback sets the result of the future.  Without a       *)
(* callback no processor takes it.                                         *)
ProcessAnswer_Awaited(w) ==         \* variant: an answer nobody awaits stops its worker
    /\ \E s \in work[w] :
          /\ s.kind = "answer" /\ s.id \in callbacks
          /\ answered' = answered \cup {s.id}
          /\ callbacks' = callbacks \ {s.id}
    /\ Finish(w)
    /\ UNCHANGED <<coming, putting, heap, dropped, lost>>

ProcessAnswer(w) ==
    /\ \E s \in work[w] :
          /\ s.kind = "answer"
          /\ answered' = answered \cup (callbacks \cap {s.id})
          /\ callbacks' = callbacks \ {s.id}
    /\ Finish(w)
    /\ UNCHANGED <<coming, putting, heap, dropped, lost>>

(* A change of identity: with a session nothing is asked; else the request *)
(* is registered and sent, and the worker waits for its result.            *)
Asked(s) == s.id \in callbacks \cup answered

Ask(w) ==
    /\ \E s \in work[w] :
          /\ s.kind = "ask" /\ ~Asked(s)
          /\ callbacks' = callbacks \cup {s.id}
          /\ coming' = coming \cup {Answer(s)}
    /\ UNCHANGED <<putting, heap, work, answered, handled, dropped, lost>>

AskNothing(w) ==
    /\ \E s \in work[w] : s.kind = "ask" /\ ~Asked(s)
    /\ Finish(w)
    /\ UNCHANGED <<coming, putting, heap, callbacks, answered, dropped, lost>>

Resume(w) ==
    /\ \E s \in work[w] : s.kind = "ask" /\ s.id \in answered
    /\ Finish(w)
    /\ UNCHANGED <<coming, putting, heap, callbacks, answered, dropped, lost>>

AskTimeout_Retries(w) ==            \* variant: the worker waits again
    /\ \E s \in work[w] : s.kind = "ask" /\ s.id \in callbacks
    /\ UNCHANGED vars

AskTimeout(w) ==
    /\ \E s \in work[w] :
          /\ s.kind = "ask" /\ s.id \in callbacks
          /\ callbacks' = callbacks \ {s.id}
    /\ Finish(w)
    /\ UNCHANGED <<coming, putting, heap, answered, dropped, lost>>
-----------------------------------------------------------------------------
Step(w) ==
    Take(w) \/ Process(w) \/ ProcessAnswer(w) \/ Ask(w) \/ AskNothing(w)
        \/ Resume(w) \/ AskTimeout(w)

Next ==
    \/ \E s \in coming : Receive(s)
    \/ Put \/ PutTimeout
    \/ \E w \in Workers : Step(w)

(* The event loop runs every task that is ready and fires every timeout;   *)
(* the server need not send anything.                                      *)
Fairness == WF_vars(Put \/ PutTimeout) /\ \A w \in Workers : WF_vars(Step(w))

Spec == Init /\ [][Next]_vars /\ Fairness
-----------------------------------------------------------------------------
(* Whatever pushes have raised, a worker takes a stanza of the lowest      *)
(* number that waits, as long as no pop has raised (after one the heap may *)
(* be out of order).                                                       *)
BestFirst ==
    [][\A w \in Workers : work[w] = {} /\ work'[w] # {} /\ lost = {} =>
          \A i \in DOMAIN heap : Head(heap).prio <= heap[i].prio]_vars

(* A stanza the receive loop has read is handled in the end, unless the    *)
(* queue was full or a pop raised.                                         *)
Served ==
    \A s \in Stanzas :
        (s \in {e.node : e \in putting}) ~> (s \in handled \cup dropped \cup lost)

(* Workers that all wait for answers block the answers in the queue, but   *)
(* not for good: the requests time out and the queue moves on.             *)
Waiting(w) == \E s \in work[w] : s.kind = "ask" /\ s.id \in callbacks
Stuck ==
    /\ \A w \in Workers : Waiting(w)
    /\ \E s \in Queued : s.kind = "answer" /\ s.id \in callbacks
StuckIsBrief == Stuck ~> ~Stuck

-----------------------------------------------------------------------------
(* What a comment of the code says and TLC refutes; the README tells how.  *)

(* A stanza is given up only when the queue is full (_message_loop:        *)
(* "Aumentado para 5000 para evitar descarte durante login com muitas      *)
(* mensagens offline").                                                    *)
NothingLost == lost = {}
=============================================================================
