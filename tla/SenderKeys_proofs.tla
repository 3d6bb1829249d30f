--------------------------- MODULE SenderKeys_proofs ---------------------------
(***************************************************************************)
(* For any number of sends, workers, keys, faults and repetitions: a key   *)
(* of the group is used for one message, and the member that does one      *)
(* stanza after the other reads each promised message, once.               *)
(***************************************************************************)
EXTENDS SenderKeys, FiniteSetTheorems, TLAPS

AtMostOne(S) == S = {} \/ \E x : S = {x}

States == [key : 0..MaxKeys, iteration : Nat, skipped : SUBSET Nat]

(* A record of sender keys that have been generated; the keys it keeps are *)
(* of iterations it has passed.                                            *)
Good(r) ==
    /\ r \in Seq(States)
    /\ \A i \in DOMAIN r : r[i].key \in 1..keys /\ \A n \in r[i].skipped : n < r[i].iteration

Stanza(x) == x.dist \in Chains /\ x.dist.key \in 1..keys /\ x.sk \subseteq Chains /\ AtMostOne(x.sk)

Job(j) == j \in [x : sent, loaded : BOOLEAN, new : Seq(States)] /\ Good(j.new)

SenderTyped ==
    /\ keys \in 0..MaxKeys
    /\ own \subseteq Chains /\ AtMostOne(own) /\ \A o \in own : o.key \in 1..keys
    /\ at \in [Sends -> {"idle", "generate", "renew", "encrypt", "advance"}]
    /\ dist \in [Sends -> Chains] /\ held \in [Sends -> Chains]
    /\ \A s \in Sends : /\ at[s] = "advance" => held[s].key \in 1..keys
                        /\ at[s] \in {"renew", "encrypt", "advance"} => dist[s].key \in 1..keys
    /\ \A x \in sent : Stanza(x)

MemberTyped ==
    /\ Good(record)
    /\ job = [w \in Workers |-> job[w]]
    /\ \A w \in Workers : AtMostOne(job[w]) /\ \A j \in job[w] : Job(j)
    /\ todo \subseteq sent /\ read \subseteq Chains /\ again \subseteq read

Typed == SenderTyped /\ MemberTyped

(* One send at a time: it finds the chain it has loaded in the row, and    *)
(* the row is past every key that is out.                                  *)
ChainMovesOn ==
    ~sendsMet =>
       /\ \A r, s \in Sends : at[r] # "idle" /\ at[s] # "idle" => r = s
       /\ \A s \in Sends : at[s] = "advance" => own = {held[s]}
       /\ \A o \in own : o.key = keys
       /\ \A x \in sent : \A c \in x.sk :
             c.key <= keys /\ \A o \in own : c.key = o.key => c.iteration < o.iteration

(* One worker at a time, of a member whose row can be loaded: what it is   *)
(* about to store is made of the row as it is.                             *)
JobIsCurrent ==
    /\ \A w, v \in Workers : job[w] # {} /\ job[v] # {} => w = v
    /\ \A w \in Workers : \A j \in job[w] : j.loaded =>
          IF j.x.sk = {} THEN j.new = Added(record, j.x.dist)
          ELSE \E c \in j.x.sk : CanRead(record, c) /\ j.new = After(record, c)

(* The row has a state for the keys that are known, and those only; from   *)
(* the first distribution on, it reads what has not been read or given up. *)
RecordServes ==
    /\ \A d \in known : /\ d \in Chains /\ Of(record, d) # {}
                        /\ \A c \in Chains : c.key = d.key /\ d.iteration <= c.iteration
                                               => c \in read \cup unsaved \/ CanRead(record, c)
    /\ \A i \in DOMAIN record : \E d \in known : d.key = record[i].key
    /\ \A c \in read : ~CanRead(record, c) /\ \E d \in known : d.key = c.key

ExpectedIsCared ==
    \A c \in expected :
        /\ c \in Chains /\ Promised(c)
        /\ c \in read \cup unsaved \/ \E w \in Workers : \E j \in job[w] : c \in j.x.sk

OneByOne ==
    ~workersMet /\ ~forgot => JobIsCurrent /\ RecordServes /\ ExpectedIsCared /\ again = {}
-----------------------------------------------------------------------------
LEMMA Bounds == MaxKeys \in Nat /\ NoChain \in Chains /\ \A c \in Chains : Moved(c) \in Chains
<1>1. MaxKeys \in Nat
  BY GroupAssumption
<1> QED BY <1>1 DEF NoChain, Chains, Chain, Moved

(* What to look at of a step of one send. *)
LEMMA SendTyped ==
    ASSUME SenderTyped, NEW s \in Sends,
           keys' \in 0..MaxKeys, keys' >= keys,
           own' \subseteq Chains, AtMostOne(own'), \A o \in own' : o.key \in 1..keys',
           at' \in [Sends -> {"idle", "generate", "renew", "encrypt", "advance"}],
           dist' \in [Sends -> Chains], held' \in [Sends -> Chains],
           \A r \in Sends \ {s} : at'[r] = at[r] /\ dist'[r] = dist[r] /\ held'[r] = held[r],
           at'[s] = "advance" => held'[s].key \in 1..keys',
           at'[s] \in {"renew", "encrypt", "advance"} => dist'[s].key \in 1..keys',
           \A x \in sent' : Stanza(x) \/ Stanza(x)'
    PROVE  SenderTyped'
<1>1. \A c \in Chains : c.key \in 1..keys => c.key \in 1..keys'
  BY Bounds DEF SenderTyped, Chains
<1>2. \A x \in sent' : Stanza(x)'
  BY <1>1 DEF Stanza
<1>3. \A r \in Sends : /\ at'[r] = "advance" => held'[r].key \in 1..keys'
                       /\ at'[r] \in {"renew", "encrypt", "advance"} => dist'[r].key \in 1..keys'
  BY <1>1 DEF SenderTyped
<1> QED BY <1>2, <1>3 DEF SenderTyped

LEMMA SenderStep ==
    ASSUME Typed, NEW s \in Sends, SendStep(s)
    PROVE  /\ SenderTyped' /\ keys' >= keys /\ sent \subseteq sent'
           /\ todo \subseteq todo' /\ todo' \subseteq todo \cup sent'
           /\ UNCHANGED <<record, job, known, expected, read, again, unsaved, forgot, workersMet>>
<1>0. SenderTyped /\ keys \in Nat
  BY Bounds DEF Typed, SenderTyped
<1> USE DEF SenderTyped, sender, member
<1>1. CASE Create(s)
  <2>1. ASSUME NEW c \in own, dist' = [dist EXCEPT ![s] = c], at' = [at EXCEPT ![s] = "encrypt"],
               UNCHANGED <<own, keys, held, sent>>
        PROVE  SenderTyped'
    BY <1>0, <2>1, SendTyped
  <2>2. ASSUME at' = [at EXCEPT ![s] = "generate"], UNCHANGED <<own, keys, held, sent, dist>>
        PROVE  SenderTyped'
    BY <1>0, <2>2, SendTyped
  <2> QED BY <1>0, <1>1, <2>1, <2>2 DEF Create
<1>2. CASE Generate(s)
  <2>1. /\ keys' = keys + 1 /\ keys' \in 1..MaxKeys
        /\ Chain(keys', 0) \in Chains /\ Chain(keys', 0).key = keys'
    BY <1>0, <1>2, Bounds DEF Generate, Chain, Chains
  <2>2. AtMostOne(own') /\ own' = {Chain(keys', 0)}
    BY <1>2 DEF Generate, AtMostOne
  <2>3. /\ at' = [at EXCEPT ![s] = "encrypt"] /\ UNCHANGED <<held, sent>>
        /\ dist' \in [Sends -> Chains] /\ \A r \in Sends \ {s} : dist'[r] = dist[r]
        /\ dist'[s].key \in 1..keys'
    BY <1>0, <1>2, <2>1 DEF Generate
  <2>4. SenderTyped'
    BY <1>0, <2>1, <2>2, <2>3, SendTyped
  <2> QED BY <1>0, <1>2, <2>1, <2>4 DEF Generate
<1>3. CASE SendFails(s)
  <2>1. SenderTyped'
    BY <1>0, <1>3, SendTyped, Bounds DEF SendFails
  <2> QED BY <1>0, <1>3, <2>1 DEF SendFails
<1>4. CASE Encrypt(s)
  <2>1. SenderTyped'
    BY <1>0, <1>4, SendTyped DEF Encrypt
  <2> QED BY <1>0, <1>4, <2>1 DEF Encrypt
<1>5. CASE EncryptFails(s)
  <2>1. SenderTyped'
    BY <1>0, <1>5, SendTyped DEF EncryptFails
  <2> QED BY <1>0, <1>5, <2>1 DEF EncryptFails
<1>6. ASSUME at[s] = "advance", own' = own \/ own' = {Moved(held[s])}
      PROVE  own' \subseteq Chains /\ AtMostOne(own') /\ \A o \in own' : o.key \in 1..keys
  <2>1. Moved(held[s]) \in Chains /\ Moved(held[s]).key \in 1..keys
    BY <1>0, <1>6, Bounds DEF Moved, Chain
  <2> QED BY <1>0, <1>6, <2>1 DEF AtMostOne
<1>7. ASSUME NEW sk, sk \in {{}, {held[s]}}, Send(s, sk), at[s] = "advance",
             own' = own \/ own' = {Moved(held[s])}
      PROVE  /\ SenderTyped' /\ keys' >= keys /\ sent \subseteq sent'
             /\ todo \subseteq todo' /\ todo' \subseteq todo \cup sent'
             /\ UNCHANGED <<record, job, known, expected, read, again, unsaved, forgot, workersMet>>
  <2> DEFINE x == [id |-> Cardinality(sent) + 1, dist |-> dist[s], sk |-> sk]
  <2>1. Stanza(x)
    BY <1>0, <1>7 DEF Stanza, AtMostOne
  <2>2. sent' = sent \cup {x} /\ todo' = todo \cup (sent' \ sent)
    BY <1>7 DEF Send
  <2> HIDE DEF x
  <2>3. SenderTyped'
    BY <1>0, <1>6, <1>7, <2>1, <2>2, SendTyped, Bounds DEF Send
  <2>4. keys' >= keys
        /\ UNCHANGED <<record, job, known, expected, read, again, unsaved, forgot, workersMet>>
    BY <1>0, <1>7 DEF Send
  <2> QED BY <2>2, <2>3, <2>4
<1>8. CASE Advance(s) \/ (AdvanceFails(s) /\ Send(s, {}))
  <2>1. at[s] = "advance" /\ (own' = own \/ own' = {Moved(held[s])})
    BY <1>8 DEF Advance, AdvanceFails
  <2>2. PICK sk \in {{}, {held[s]}} : Send(s, sk)
    BY <1>8 DEF Advance
  <2> QED BY <1>7, <2>1, <2>2
<1>9. CASE AdvanceFails(s) /\ ~Send(s, {})
  <2>1. /\ at[s] = "advance" /\ (own' = own \/ own' = {Moved(held[s])})
        /\ at' = [at EXCEPT ![s] = "encrypt"] /\ UNCHANGED <<keys, dist, held, sent, member>>
    BY <1>9 DEF AdvanceFails
  <2>2. own' \subseteq Chains /\ AtMostOne(own') /\ \A o \in own' : o.key \in 1..keys
    BY <1>6, <2>1
  <2>3. SenderTyped'
    BY <1>0, <2>1, <2>2, SendTyped
  <2> QED BY <1>0, <2>1, <2>3
<1> QED BY <1>1, <1>2, <1>3, <1>4, <1>5, <1>8, <1>9 DEF SendStep

LEMMA ChainStep ==
    ASSUME Typed, ChainMovesOn, KeyPerMessage, NEW s \in Sends, SendStep(s)
    PROVE  ChainMovesOn' /\ KeyPerMessage'
<1> SUFFICES ASSUME ~sendsMet' PROVE ChainMovesOn' /\ KeyPerMessage'
  BY DEF ChainMovesOn, KeyPerMessage
<1>0. ~sendsMet
  BY DEF SendStep, Create, Generate, SendFails, Encrypt, EncryptFails, Advance, AdvanceFails,
         Send
<1>1. ~sendsMet /\ SenderTyped /\ keys \in Nat
  BY <1>0, Bounds DEF Typed, SenderTyped
<1>2. \A r \in Sends : at[r] # "idle" => (at[s] # "idle" => r = s)
  BY <1>1 DEF ChainMovesOn
<1> USE DEF ChainMovesOn, KeyPerMessage, SenderTyped
<1>3. CASE Create(s)
  <2>1. \A r \in Sends : at[r] = "idle"
    BY <1>3 DEF Create
  <2>2. /\ \A r \in Sends \ {s} : at'[r] = "idle"
        /\ at'[s] \in {"generate", "encrypt"} /\ UNCHANGED <<own, keys, held, sent>>
    BY <1>1, <1>3, <2>1 DEF Create
  <2> QED BY <1>1, <2>2
<1>4. CASE Generate(s)
  <2>1. keys' = keys + 1 /\ own' = {Chain(keys', 0)} /\ Chain(keys', 0).key = keys'
        /\ UNCHANGED <<held, sent>> /\ at'[s] = "encrypt"
        /\ \A r \in Sends \ {s} : at'[r] = at[r]
    BY <1>1, <1>4 DEF Generate, Chain
  <2>2. \A x \in sent : \A c \in x.sk : c.key <= keys /\ c.key \in Nat
    BY <1>1, Bounds DEF Stanza, Chains
  <2> QED BY <1>1, <1>2, <1>4, <2>1, <2>2 DEF Generate
<1>5. CASE SendFails(s) \/ EncryptFails(s)
  <2>1. CASE SendFails(s)
    <3>1. \A r \in Sends : at'[r] = "idle"
      BY <1>1, <1>2, <2>1 DEF SendFails
    <3> QED BY <1>1, <2>1, <3>1 DEF SendFails
  <2>2. CASE EncryptFails(s)
    BY <1>1, <2>2 DEF EncryptFails
  <2> QED BY <1>5, <2>1, <2>2
<1>6. CASE Encrypt(s)
  <2>1. PICK c \in own : held' = [held EXCEPT ![s] = c]
    BY <1>6 DEF Encrypt
  <2>2. own = {c}
    BY <1>1 DEF AtMostOne
  <2> QED BY <1>1, <1>2, <1>6, <2>1, <2>2 DEF Encrypt
<1>7. CASE Advance(s)
  <2> DEFINE x == [id |-> Cardinality(sent) + 1, dist |-> dist[s], sk |-> {held[s]}]
  <2>1. own = {held[s]} /\ own' = {Moved(held[s])} /\ UNCHANGED keys
        /\ sent' = sent \cup {x} /\ x.sk = {held[s]}
    BY <1>1, <1>7 DEF Advance, Send
  <2>2. /\ Moved(held[s]).key = held[s].key /\ Moved(held[s]).iteration = held[s].iteration + 1
        /\ held[s].iteration \in Nat /\ held[s].key = keys
    BY <1>1, <2>1 DEF Moved, Chain, Chains
  <2>3. \A r \in Sends : at'[r] = "idle"
    BY <1>1, <1>2, <1>7 DEF Advance, Send
  <2>4. \A y \in sent : held[s] \notin y.sk
    BY <1>1, <2>1, <2>2
  <2>5. \A y \in sent : \A c \in y.sk : c.iteration \in Nat
    BY <1>1 DEF Stanza, Chains
  <2> HIDE DEF x
  <2> QED BY <1>1, <2>1, <2>2, <2>3, <2>4, <2>5
<1>8. CASE AdvanceFails(s)
  <2>1. own = {held[s]} /\ (own' = own \/ own' = {Moved(held[s])}) /\ UNCHANGED keys
    BY <1>1, <1>8 DEF AdvanceFails, Send
  <2>2. /\ Moved(held[s]).key = held[s].key /\ Moved(held[s]).iteration = held[s].iteration + 1
        /\ held[s].iteration \in Nat /\ held[s].key = keys
    BY <1>1, <2>1 DEF Moved, Chain, Chains
  <2>3. \A y \in sent : \A c \in y.sk : c.iteration \in Nat
    BY <1>1 DEF Stanza, Chains
  <2>4. \A o \in own' : o.key = keys
    BY <2>1, <2>2
  <2>5. ASSUME NEW y \in sent, NEW c \in y.sk, NEW o \in own'
        PROVE  c.key <= keys /\ (c.key = o.key => c.iteration < o.iteration)
    <3>1. c.key <= keys /\ (c.key = keys => c.iteration < held[s].iteration)
      BY <1>1, <2>1, <2>2
    <3> QED BY <2>1, <2>2, <2>3, <3>1
  <2>6. /\ \A r \in Sends \ {s} : at'[r] = "idle"
        /\ at'[s] # "advance"
    BY <1>1, <1>2, <1>8 DEF AdvanceFails, Send
  <2>7. \A y \in sent' : y \in sent \/ y.sk = {}
    BY <1>8 DEF AdvanceFails, Send
  <2>8. KeyPerMessage'
    <3>1. \A x, y \in sent : x.sk \cap y.sk # {} => x = y
      BY <1>1
    <3> QED BY <2>7, <3>1
  <2> QED BY <2>1, <2>4, <2>5, <2>6, <2>7, <2>8
<1> QED BY <1>3, <1>4, <1>5, <1>6, <1>7, <1>8 DEF SendStep
-----------------------------------------------------------------------------
(* The keys a state can still give, and what using one leaves. *)
Gives(q, n) == n >= q.iteration \/ n \in q.skipped

LEMMA UsedGives ==
    ASSUME NEW q \in States, \A n \in q.skipped : n < q.iteration, NEW n \in Nat, Gives(q, n)
    PROVE  /\ Used(q, n) \in States /\ Used(q, n).key = q.key
           /\ \A m \in Used(q, n).skipped : m < Used(q, n).iteration
           /\ \A m \in Nat : Gives(Used(q, n), m) <=> m # n /\ Gives(q, m)
<1>1. CASE n < q.iteration
  <2>1. Used(q, n) = [q EXCEPT !.skipped = q.skipped \ {n}]
    BY <1>1 DEF Used
  <2>2. /\ Used(q, n) \in States /\ Used(q, n).key = q.key
        /\ Used(q, n).iteration = q.iteration /\ Used(q, n).skipped = q.skipped \ {n}
    BY <2>1 DEF States
  <2> QED BY <1>1, <2>2 DEF Gives, States
<1>2. CASE ~(n < q.iteration)
  <2> DEFINE passed == q.iteration..(n - 1)
  <2>1. Used(q, n) = [q EXCEPT !.iteration = n + 1, !.skipped = q.skipped \cup passed]
    BY <1>2 DEF Used
  <2>2. q.iteration \in Nat /\ q.skipped \subseteq Nat /\ n + 1 \in Nat
    BY DEF States
  <2>3. \A m \in passed : m \in Nat /\ q.iteration <= m /\ m < n
    BY <2>2
  <2>4. \A m \in Nat : q.iteration <= m /\ m < n => m \in passed
    BY <2>2
  <2> HIDE DEF passed
  <2> DEFINE u == Used(q, n)
             kept == q.skipped \cup passed
  <2>5. \A m : m \in kept <=> m \in q.skipped \/ m \in passed
    OBVIOUS
  <2>6. u = [q EXCEPT !.iteration = n + 1, !.skipped = kept]
    BY <2>1
  <2> HIDE DEF kept, u
  <2>7. kept \in SUBSET Nat
    BY <2>2, <2>3, <2>5
  <2>8. u \in States /\ u.key = q.key /\ u.iteration = n + 1 /\ u.skipped = kept
    BY <2>2, <2>6, <2>7 DEF States
  <2>9. \A m \in kept : m < n + 1
    BY <1>2, <2>2, <2>3, <2>5
  <2>10. ASSUME NEW m \in Nat PROVE Gives(u, m) <=> m # n /\ Gives(q, m)
    <3>1. Gives(u, m) <=> m >= n + 1 \/ m \in kept
      BY <2>8 DEF Gives
    <3>2. m \in kept <=> m \in q.skipped \/ (q.iteration <= m /\ m < n)
      BY <2>3, <2>4, <2>5
    <3>3. m \in q.skipped => m # n
      BY <1>2, <2>2
    <3> QED BY <1>2, <2>2, <3>1, <3>2, <3>3 DEF Gives
  <2> QED BY <2>8, <2>9, <2>10 DEF u
<1> QED BY <1>1, <1>2

LEMMA OneState == \A r, c : \A i, j \in Of(r, c) : r \in Seq(States) => i = j
<1> SUFFICES ASSUME NEW r \in Seq(States), NEW c, NEW i \in Of(r, c), NEW j \in Of(r, c) PROVE i = j
  OBVIOUS
<1> QED BY DEF Of

(* getSenderKey takes one key out of the record, and no other. *)
LEMMA AfterReads ==
    ASSUME NEW r, Good(r), NEW c \in Chains, CanRead(r, c)
    PROVE  /\ Good(After(r, c))
           /\ \A d : Of(After(r, c), d) = Of(r, d)
           /\ \A i \in DOMAIN After(r, c) : i \in DOMAIN r /\ After(r, c)[i].key = r[i].key
           /\ \A d \in Chains : CanRead(After(r, c), d) <=> d # c /\ CanRead(r, d)
<1> DEFINE a == After(r, c)
<1>1. PICK i \in Of(r, c) : Gives(r[i], c.iteration)
  BY DEF CanRead, Gives
<1>2. r \in Seq(States) /\ i \in DOMAIN r /\ c.iteration \in Nat
      /\ r[i] \in States /\ \A n \in r[i].skipped : n < r[i].iteration
  BY DEF Good, Of, Chains
<1>3. DOMAIN a = DOMAIN r /\ a[i] = Used(r[i], c.iteration)
      /\ \A j \in DOMAIN r \ {i} : a[j] = r[j]
  BY <1>2, OneState DEF After
<1>4. /\ a[i] \in States /\ a[i].key = r[i].key /\ \A m \in a[i].skipped : m < a[i].iteration
      /\ \A m \in Nat : Gives(a[i], m) <=> m # c.iteration /\ Gives(r[i], m)
  BY <1>1, <1>2, <1>3, UsedGives
<1>5. a \in Seq(States) /\ \A j \in DOMAIN a : a[j].key = r[j].key
  BY <1>2, <1>3, <1>4 DEF After
<1> HIDE DEF a
<1>6. Good(a)
  BY <1>2, <1>3, <1>4, <1>5 DEF Good
<1>7. \A d : Of(a, d) = Of(r, d)
  BY <1>2, <1>3, <1>5 DEF Of
<1>8. ASSUME NEW d \in Chains PROVE CanRead(a, d) <=> d # c /\ CanRead(r, d)
  <2>1. CASE d.key # c.key
    <3>1. \A j \in Of(r, d) : j # i /\ j \in DOMAIN r
      BY <1>1, <2>1 DEF Of
    <3> QED BY <1>3, <1>7, <2>1, <3>1 DEF CanRead
  <2>2. CASE d.key = c.key
    <3>0. Of(r, d) = Of(r, c)
      BY <2>2 DEF Of
    <3>1. Of(r, d) = {i} /\ Of(a, d) = {i}
      BY <1>1, <1>2, <1>7, <3>0, OneState
    <3>2. CanRead(a, d) <=> Gives(a[i], d.iteration)
      BY <3>1 DEF CanRead, Gives
    <3>3. CanRead(r, d) <=> Gives(r[i], d.iteration)
      BY <3>1 DEF CanRead, Gives
    <3>4. d = c <=> d.iteration = c.iteration
      BY <2>2 DEF Chains
    <3> QED BY <1>4, <3>2, <3>3, <3>4 DEF Chains
  <2> QED BY <2>1, <2>2
<1> QED BY <1>3, <1>5, <1>6, <1>7, <1>8 DEF a

(* addSenderKeyState: the first state of each key stays the first; a key   *)
(* without one is read from the iteration of its distribution on.          *)
LEMMA AddedReads ==
    ASSUME NEW r, Good(r), NEW c \in Chains, c.key \in 1..keys
    PROVE  /\ Good(Added(r, c))
           /\ \A i \in DOMAIN Added(r, c) :
                 Added(r, c)[i].key = c.key \/ (i \in DOMAIN r /\ Added(r, c)[i] = r[i])
           /\ \A d : Of(r, d) # {} => /\ Of(Added(r, c), d) = Of(r, d)
                                      /\ CanRead(Added(r, c), d) <=> CanRead(r, d)
           /\ (\A i \in DOMAIN r : r[i].key # c.key) =>
                 \A d \in Chains : d.key = c.key =>
                     /\ Of(Added(r, c), d) # {}
                     /\ c.iteration <= d.iteration => CanRead(Added(r, c), d)
<1> DEFINE a == Added(r, c)
           n == Len(r) + 1
<1>1. r \in Seq(States) /\ State(c) \in States /\ Len(r) \in Nat /\ DOMAIN r = 1..Len(r)
  BY DEF Good, State, States, Chains
<1>2. State(c).key = c.key /\ State(c).iteration = c.iteration /\ State(c).skipped = {}
  BY DEF State
<1>3. a = Append(r, State(c))
  BY DEF Added
<1> HIDE DEF a
<1>4. a \in Seq(States) /\ DOMAIN a = 1..n /\ a[n] = State(c) /\ \A i \in DOMAIN r : a[i] = r[i]
  BY <1>1, <1>3
<1>5. \A i \in DOMAIN a : i = n \/ i \in DOMAIN r
  BY <1>1, <1>4
<1>6. n \in DOMAIN a /\ \A i \in DOMAIN r : i \in DOMAIN a /\ i < n
  BY <1>1, <1>4
<1>7. Good(a)
  BY <1>2, <1>4, <1>5 DEF Good
<1>8. ASSUME NEW d, Of(r, d) # {}
      PROVE  Of(a, d) = Of(r, d) /\ (CanRead(a, d) <=> CanRead(r, d))
  <2>1. PICK i \in DOMAIN r : r[i].key = d.key
    BY <1>8 DEF Of
  <2>2. n \notin Of(a, d)
    BY <1>1, <1>4, <2>1 DEF Of
  <2>3. ASSUME NEW j \in DOMAIN r PROVE j \in Of(a, d) <=> j \in Of(r, d)
    <3>1. \A k \in 1..(j - 1) : k \in DOMAIN r
      BY <1>1
    <3> QED BY <1>4, <1>6, <3>1 DEF Of
  <2>4. Of(a, d) = Of(r, d)
    BY <1>5, <2>2, <2>3 DEF Of
  <2>5. \A j \in Of(r, d) : a[j] = r[j]
    BY <1>4 DEF Of
  <2> QED BY <2>4, <2>5 DEF CanRead
<1>9. ASSUME \A i \in DOMAIN r : r[i].key # c.key, NEW d \in Chains, d.key = c.key
      PROVE  Of(a, d) # {} /\ (c.iteration <= d.iteration => CanRead(a, d))
  <2>1. \A j \in 1..(n - 1) : j \in DOMAIN r
    BY <1>1
  <2>2. n \in Of(a, d)
    BY <1>2, <1>4, <1>6, <1>9, <2>1 DEF Of
  <2>3. c.iteration <= d.iteration => d.iteration >= a[n].iteration
    BY <1>2, <1>4 DEF Chains
  <2> QED BY <2>2, <2>3 DEF CanRead
<1> QED BY <1>2, <1>4, <1>5, <1>7, <1>8, <1>9 DEF a
-----------------------------------------------------------------------------
LEMMA GoodKeeps == ASSUME NEW r, Good(r), keys \in Nat, keys' \in Nat, keys' >= keys PROVE Good(r)'
<1>1. \A i \in DOMAIN r : r[i].key \in 1..keys'
  BY DEF Good
<1> QED BY <1>1 DEF Good

(* The sender only adds to what the member has to do. *)
LEMMA MemberOfSender == ASSUME Typed, NEW s \in Sends, SendStep(s) PROVE MemberTyped'
<1>1. /\ keys \in Nat /\ keys' \in Nat /\ keys' >= keys /\ sent \subseteq sent'
      /\ todo' \subseteq todo \cup sent' /\ UNCHANGED <<record, job, read, again>>
  BY SenderStep, Bounds DEF Typed, SenderTyped
<1>2. Good(record)'
  BY <1>1, GoodKeeps DEF Typed, MemberTyped
<1>3. ASSUME NEW w \in Workers, NEW j \in job'[w] PROVE Job(j)'
  <2>1. Job(j) /\ job' = job
    BY <1>1, <1>3 DEF Typed, MemberTyped
  <2>2. Good(j.new)'
    BY <1>1, <2>1, GoodKeeps DEF Job
  <2> QED BY <1>1, <2>1, <2>2 DEF Job
<1> QED BY <1>1, <1>2, <1>3 DEF Typed, MemberTyped

(* A worker's job once it has made the record that it is to store. *)
Loaded(j, r) == [j EXCEPT !.loaded = TRUE, !.new = r]

(* What the worker puts in the record's place. *)
LEMMA LoadTyped ==
    ASSUME Typed, NEW w \in Workers, NEW j \in job[w], NEW r \in {record, <<>>}
    PROVE  /\ Stanza(j.x) /\ Job(j) /\ j.x.dist \in Chains /\ Good(r)
           /\ j.x.sk = {} => Good(Added(r, j.x.dist))
           /\ \A c \in j.x.sk : c \in Chains /\ (CanRead(r, c) => Good(After(r, c)))
<1>1. Stanza(j.x) /\ Job(j)
  BY DEF Typed, SenderTyped, MemberTyped, Job
<1>2. Good(<<>>)
  BY DEF Good
<1>3. Good(r)
  BY <1>2 DEF Typed, MemberTyped
<1> QED BY <1>1, <1>3, AddedReads, AfterReads DEF Stanza

LEMMA MemberStep ==
    ASSUME Typed, NEW w \in Workers, Load(w) \/ Store(w) \/ StoreFails(w) \/ \E x \in todo : Deliver(w, x)
    PROVE  SenderTyped' /\ MemberTyped'
<1>0. UNCHANGED sender /\ MemberTyped
  BY DEF Load, Store, StoreFails, Deliver, Typed
<1>1. SenderTyped'
  BY <1>0 DEF Typed, SenderTyped, sender, Stanza
<1>2. \A r : Good(r) <=> Good(r)'
  BY <1>0 DEF Good, sender
<1>3. \A j : Job(j) <=> Job(j)'
  BY <1>0, <1>2 DEF Job, sender
<1>4. sent' = sent
  BY <1>0 DEF sender
<1> USE DEF MemberTyped
<1>5. ASSUME NEW x \in todo, Deliver(w, x) PROVE MemberTyped'
  <2> DEFINE j == [x |-> x, loaded |-> FALSE, new |-> <<>>]
  <2>1. Job(j)
    <3>1. Good(<<>>) /\ <<>> \in Seq(States)
      BY DEF Good
    <3>2. j \in [x : sent, loaded : BOOLEAN, new : Seq(States)] /\ j.new = <<>>
      BY <1>0, <3>1
    <3> QED BY <3>1, <3>2 DEF Job
  <2>2. job' = [job EXCEPT ![w] = {j}]
    BY <1>5 DEF Deliver
  <2> HIDE DEF j
  <2>3. /\ job' = [v \in Workers |-> job'[v]]
        /\ \A v \in Workers : AtMostOne(job'[v]) /\ \A k \in job'[v] : Job(k)
    BY <1>0, <2>1, <2>2 DEF AtMostOne
  <2> QED BY <1>0, <1>2, <1>3, <1>4, <1>5, <2>3 DEF Deliver
<1>6. CASE Load(w)
  <2>1. PICK j \in job[w], r \in {record, <<>>} :
          \/ /\ j.x.sk = {}
             /\ job' = [job EXCEPT ![w] = {Loaded(j, Added(r, j.x.dist))}]
          \/ \E c \in j.x.sk : CanRead(r, c) /\ job' = [job EXCEPT ![w] = {Loaded(j, After(r, c))}]
          \/ job' = [job EXCEPT ![w] = {}]
    BY <1>6 DEF Load, Loaded
  <2>2. ASSUME NEW n, Good(n) PROVE Job(Loaded(j, n))
    <3>0. Job(j)
      BY <1>0
    <3>1. Loaded(j, n) \in [x : sent, loaded : BOOLEAN, new : Seq(States)] /\ Loaded(j, n).new = n
      BY <2>2, <3>0 DEF Job, Good, Loaded
    <3> QED BY <2>2, <3>1 DEF Job
  <2>3. \/ job' = [job EXCEPT ![w] = {}]
        \/ \E n : Good(n) /\ job' = [job EXCEPT ![w] = {Loaded(j, n)}]
    BY <2>1, LoadTyped
  <2>4. /\ job' = [v \in Workers |-> job'[v]]
        /\ \A v \in Workers : AtMostOne(job'[v]) /\ \A l \in job'[v] : Job(l)
    <3>1. CASE job' = [job EXCEPT ![w] = {}]
      BY <1>0, <3>1 DEF AtMostOne
    <3>2. ASSUME NEW l, Job(l), job' = [job EXCEPT ![w] = {l}]
          PROVE  /\ job' = [v \in Workers |-> job'[v]]
                 /\ \A v \in Workers : AtMostOne(job'[v]) /\ \A k \in job'[v] : Job(k)
      BY <1>0, <3>2 DEF AtMostOne
    <3> QED BY <2>2, <2>3, <3>1, <3>2
  <2> QED BY <1>0, <1>1, <1>2, <1>3, <1>4, <1>6, <2>4 DEF Load
<1>7. CASE Store(w)
  <2>1. PICK j \in job[w] : /\ j.loaded /\ record' = j.new /\ read' = read \cup j.x.sk
                            /\ again' = again \cup (read \cap j.x.sk)
    BY <1>7 DEF Store, Write
  <2>2. Good(record') /\ read' \subseteq Chains /\ again' \subseteq read'
    <3>1. Job(j) /\ Stanza(j.x)
      BY <1>0, LoadTyped
    <3>2. Good(j.new) /\ j.x.sk \subseteq Chains
      BY <2>1, <3>1 DEF Job, Stanza
    <3> QED BY <1>0, <2>1, <3>2
  <2>3. job' = [job EXCEPT ![w] = {}] /\ todo' = todo
    BY <1>7 DEF Store
  <2> QED BY <1>0, <1>1, <1>2, <1>3, <1>4, <2>2, <2>3 DEF AtMostOne
<1>8. CASE StoreFails(w)
  <2>1. PICK j \in job[w] : record' = record \/ record' = j.new
    BY <1>8 DEF StoreFails, Write
  <2>2. Good(record')
    <3>1. Job(j) /\ Good(record)
      BY <1>0
    <3> QED BY <2>1, <3>1 DEF Job
  <2>3. job' = [job EXCEPT ![w] = {}] /\ UNCHANGED <<todo, read, again>>
    BY <1>8 DEF StoreFails
  <2> QED BY <1>0, <1>1, <1>2, <1>3, <1>4, <2>2, <2>3 DEF AtMostOne
<1> QED BY <1>1, <1>5, <1>6, <1>7, <1>8
-----------------------------------------------------------------------------
LEMMA ServesAfterMessage ==
    ASSUME Good(record), RecordServes, read \subseteq Chains, NEW c \in Chains, CanRead(record, c),
           record' = After(record, c), known' = known,
           \/ read' = read \cup {c} /\ unsaved' = unsaved
           \/ read' = read /\ unsaved' = unsaved \cup {c}
    PROVE  RecordServes' /\ c \notin read
<1> USE DEF RecordServes
<1> DEFINE a == After(record, c)
<1>1. /\ \A d : Of(a, d) = Of(record, d)
      /\ \A i \in DOMAIN a : i \in DOMAIN record /\ a[i].key = record[i].key
      /\ \A d \in Chains : CanRead(a, d) <=> d # c /\ CanRead(record, d)
  BY AfterReads
<1>2. record' = a
  OBVIOUS
<1> HIDE DEF a
<1>3. c \notin read
  OBVIOUS
<1>4. ASSUME NEW d \in known
      PROVE  /\ d \in Chains /\ Of(record', d) # {}
             /\ \A e \in Chains : e.key = d.key /\ d.iteration <= e.iteration
                                    => e \in read' \cup unsaved' \/ CanRead(record', e)
  <2>1. \A e \in Chains : e \in read \cup unsaved \/ e = c => e \in read' \cup unsaved'
    OBVIOUS
  <2> QED BY <1>1, <1>2, <2>1
<1>5. \A i \in DOMAIN record' : \E d \in known : d.key = record'[i].key
  BY <1>1, <1>2
<1>6. \E d \in known : d.key = c.key
  <2>1. PICK i \in DOMAIN record : record[i].key = c.key
    BY DEF CanRead, Of
  <2> QED BY <2>1
<1>7. \A e \in read' : ~CanRead(record', e) /\ \E d \in known : d.key = e.key
  BY <1>1, <1>2, <1>6
<1> QED BY <1>3, <1>4, <1>5, <1>7

LEMMA ServesAfterDistribution ==
    ASSUME Good(record), RecordServes, NEW c \in Chains, c.key \in 1..keys,
           record' = Added(record, c), read' = read, unsaved' = unsaved,
           known' = IF \A d \in known : d.key # c.key THEN known \cup {c} ELSE known
    PROVE  RecordServes'
<1> USE DEF RecordServes
<1> DEFINE a == Added(record, c)
<1>1. /\ \A i \in DOMAIN a : a[i].key = c.key \/ (i \in DOMAIN record /\ a[i] = record[i])
      /\ \A d : Of(record, d) # {} => Of(a, d) = Of(record, d) /\ (CanRead(a, d) <=> CanRead(record, d))
      /\ (\A i \in DOMAIN record : record[i].key # c.key) =>
            \A d \in Chains : d.key = c.key =>
                Of(a, d) # {} /\ (c.iteration <= d.iteration => CanRead(a, d))
  BY AddedReads
<1>2. record' = a
  OBVIOUS
<1> HIDE DEF a
<1>3. ASSUME NEW d, NEW e, d \in known, e.key = d.key
      PROVE  Of(a, e) # {} /\ (CanRead(a, e) <=> CanRead(record, e))
  <2>1. Of(record, d) = Of(record, e)
    BY <1>3 DEF Of
  <2> QED BY <1>1, <1>3, <2>1
<1>4. \A e \in read' : ~CanRead(record', e) /\ \E d \in known' : d.key = e.key
  BY <1>2, <1>3
<1>5. \A i \in DOMAIN record' : \E d \in known' : d.key = record'[i].key
  <2>1. \E d \in known' : d.key = c.key
    OBVIOUS
  <2> QED BY <1>1, <1>2, <2>1
<1>6. ASSUME NEW d \in known
      PROVE  /\ d \in Chains /\ Of(record', d) # {}
             /\ \A e \in Chains : e.key = d.key /\ d.iteration <= e.iteration
                                    => e \in read' \cup unsaved' \/ CanRead(record', e)
  BY <1>2, <1>3
<1>7. CASE \A d \in known : d.key # c.key
  <2>1. \A i \in DOMAIN record : record[i].key # c.key
    BY <1>7
  <2> QED BY <1>1, <1>2, <1>4, <1>5, <1>6, <1>7, <2>1
<1>8. CASE ~ \A d \in known : d.key # c.key
  BY <1>4, <1>5, <1>6, <1>8
<1> QED BY <1>7, <1>8

LEMMA LoadOneByOne ==
    ASSUME Typed, NEW w \in Workers, Load(w), JobIsCurrent, RecordServes, ExpectedIsCared, ~forgot'
    PROVE  JobIsCurrent' /\ ExpectedIsCared'
<1>1. PICK j \in job[w] :
          \/ /\ j.x.sk = {}
             /\ job' = [job EXCEPT ![w] = {Loaded(j, Added(record, j.x.dist))}]
          \/ \E c \in j.x.sk : /\ CanRead(record, c)
                              /\ job' = [job EXCEPT ![w] = {Loaded(j, After(record, c))}]
          \/ \E c \in j.x.sk : ~CanRead(record, c) /\ job' = [job EXCEPT ![w] = {}]
  <2>1. PICK j \in job[w], r \in {record, <<>>} :
          /\ forgot' = (forgot \/ r # record)
          /\ \/ /\ j.x.sk = {}
                /\ job' = [job EXCEPT ![w] = {Loaded(j, Added(r, j.x.dist))}]
             \/ \E c \in j.x.sk : /\ CanRead(r, c)
                                 /\ job' = [job EXCEPT ![w] = {Loaded(j, After(r, c))}]
             \/ \E c \in j.x.sk : ~CanRead(r, c) /\ job' = [job EXCEPT ![w] = {}]
    BY DEF Load, Loaded
  <2>2. r = record
    BY <2>1
  <2> QED BY <2>1, <2>2
<1>2. UNCHANGED <<record, known, expected, read, unsaved>>
  BY DEF Load, sender
<1>3. /\ job[w] = {j} /\ \A v \in Workers \ {w} : job[v] = {}
      /\ Stanza(j.x) /\ job = [v \in Workers |-> job[v]]
  <2>1. AtMostOne(job[w]) /\ Job(j) /\ job = [v \in Workers |-> job[v]]
    BY DEF Typed, MemberTyped
  <2>2. Stanza(j.x)
    BY <2>1 DEF Job, Typed, SenderTyped
  <2> QED BY <2>1, <2>2 DEF AtMostOne, JobIsCurrent
<1>4. ASSUME NEW n PROVE Loaded(j, n).x = j.x /\ Loaded(j, n).new = n
  <2>1. Job(j)
    BY DEF Typed, MemberTyped
  <2> QED BY <2>1 DEF Job, Loaded
<1>5. ASSUME NEW n, job' = [job EXCEPT ![w] = {Loaded(j, n)}]
      PROVE  /\ job'[w] = {Loaded(j, n)} /\ \A v \in Workers \ {w} : job'[v] = {}
             /\ ExpectedIsCared'
             /\ \A v \in Workers : \A k \in job'[v] : v = w /\ k.x = j.x /\ k.new = n
  <2>1. job'[w] = {Loaded(j, n)} /\ \A v \in Workers \ {w} : job'[v] = {}
    BY <1>3, <1>5
  <2> QED BY <1>2, <1>3, <1>4, <2>1 DEF ExpectedIsCared, Promised
<1>6. CASE j.x.sk = {} /\ job' = [job EXCEPT ![w] = {Loaded(j, Added(record, j.x.dist))}]
  <2>1. \A v \in Workers : \A k \in job'[v] :
            v = w /\ k.x = j.x /\ k.new = Added(record', j.x.dist)
    BY <1>2, <1>5, <1>6
  <2>2. ExpectedIsCared'
    BY <1>5, <1>6
  <2>3. \A v \in Workers : \A k \in job'[v] : k.x.sk = {} /\ k.new = Added(record', k.x.dist)
    BY <1>6, <2>1
  <2> QED BY <2>1, <2>2, <2>3 DEF JobIsCurrent
<1>7. ASSUME NEW c \in j.x.sk, CanRead(record, c),
             job' = [job EXCEPT ![w] = {Loaded(j, After(record, c))}]
      PROVE  JobIsCurrent' /\ ExpectedIsCared'
  <2>1. \A v \in Workers : \A k \in job'[v] : v = w /\ k.x = j.x /\ k.new = After(record', c)
    BY <1>2, <1>5, <1>7
  <2>2. ExpectedIsCared'
    BY <1>5, <1>7
  <2>3. \A v \in Workers : \A k \in job'[v] :
            k.x.sk # {} /\ \E d \in k.x.sk : CanRead(record', d) /\ k.new = After(record', d)
    BY <1>2, <1>7, <2>1
  <2> QED BY <2>1, <2>2, <2>3 DEF JobIsCurrent
<1>8. ASSUME NEW c \in j.x.sk, ~CanRead(record, c), job' = [job EXCEPT ![w] = {}]
      PROVE  JobIsCurrent' /\ ExpectedIsCared'
  <2>1. \A v \in Workers : job'[v] = {}
    BY <1>3, <1>8
  <2>2. j.x.sk = {c} /\ c \in Chains
    BY <1>3, <1>8 DEF Stanza, AtMostOne
  <2>3. Promised(c) => c \in read \cup unsaved
    BY <1>8, <2>2 DEF Promised, RecordServes
  <2>4. \A e \in expected : e \in read \cup unsaved
    BY <1>3, <2>2, <2>3 DEF ExpectedIsCared
  <2> QED BY <1>2, <2>1, <2>4 DEF JobIsCurrent, ExpectedIsCared, Promised
<1> QED BY <1>1, <1>6, <1>7, <1>8

(* What the row is once the worker has written it. *)
LEMMA WriteServes ==
    ASSUME Typed, NEW w \in Workers, NEW j \in job[w], Write(j), JobIsCurrent, RecordServes,
           \/ read' = read \cup j.x.sk /\ unsaved' = unsaved
           \/ read' = read /\ unsaved' = unsaved \cup j.x.sk
    PROVE  RecordServes' /\ read \cap j.x.sk = {}
<1>1. Job(j) /\ Good(record) /\ read \subseteq Chains /\ Stanza(j.x)
  <2>1. Job(j) /\ Good(record) /\ read \subseteq Chains
    BY DEF Typed, MemberTyped
  <2> QED BY <2>1 DEF Job, Typed, SenderTyped
<1>2. /\ j.loaded /\ record' = j.new
      /\ known' = IF j.x.sk = {} /\ \A d \in known : d.key # j.x.dist.key
                  THEN known \cup {j.x.dist} ELSE known
  BY DEF Write
<1>3. CASE j.x.sk = {}
  <2>1. record' = Added(record, j.x.dist)
    BY <1>2, <1>3 DEF JobIsCurrent
  <2>2. /\ j.x.dist \in Chains /\ j.x.dist.key \in 1..keys
        /\ read' = read /\ unsaved' = unsaved
        /\ known' = IF \A d \in known : d.key # j.x.dist.key
                    THEN known \cup {j.x.dist} ELSE known
    BY <1>1, <1>2, <1>3 DEF Stanza
  <2>3. RecordServes'
    BY <1>1, <2>1, <2>2, ServesAfterDistribution
  <2> QED BY <1>3, <2>3
<1>4. CASE j.x.sk # {}
  <2>1. PICK c \in j.x.sk : CanRead(record, c) /\ record' = After(record, c)
    BY <1>2, <1>4 DEF JobIsCurrent
  <2>2. j.x.sk = {c} /\ c \in Chains
    BY <1>1, <2>1 DEF Stanza, AtMostOne
  <2>3. known' = known
    BY <1>2, <1>4
  <2>4. RecordServes' /\ c \notin read
    BY <1>1, <2>1, <2>2, <2>3, ServesAfterMessage
  <2> QED BY <2>2, <2>4
<1> QED BY <1>3, <1>4

LEMMA StoreOneByOne ==
    ASSUME Typed, NEW w \in Workers, Store(w) \/ StoreFails(w),
           JobIsCurrent, RecordServes, ExpectedIsCared, again = {}
    PROVE  JobIsCurrent' /\ RecordServes' /\ ExpectedIsCared' /\ again' = {}
<1>1. PICK j \in job[w] :
          \/ /\ Write(j) /\ read' = read \cup j.x.sk /\ unsaved' = unsaved
             /\ again' = again \cup (read \cap j.x.sk)
          \/ /\ Write(j) \/ UNCHANGED <<record, known>>
             /\ read' = read /\ unsaved' = unsaved \cup j.x.sk /\ again' = again
  BY DEF Store, StoreFails
<1>2. job' = [job EXCEPT ![w] = {}] /\ UNCHANGED <<sender, expected>>
  BY DEF Store, StoreFails
<1>3. AtMostOne(job[w]) /\ job = [v \in Workers |-> job[v]]
  BY DEF Typed, MemberTyped
<1>4. job[w] = {j} /\ \A v \in Workers \ {w} : job[v] = {}
  BY <1>3 DEF AtMostOne, JobIsCurrent
<1>5. \A v \in Workers : job'[v] = {}
  BY <1>2, <1>3, <1>4
<1>6. JobIsCurrent'
  BY <1>5 DEF JobIsCurrent
<1>7. ExpectedIsCared'
  <2>1. known \subseteq known'
    BY <1>1 DEF Write
  <2>2. \A c \in expected : c \in Chains /\ Promised(c) /\ c \in read' \cup unsaved'
    BY <1>1, <1>4 DEF ExpectedIsCared
  <2> QED BY <1>2, <2>1, <2>2 DEF ExpectedIsCared, Promised
<1>8. RecordServes' /\ again' = {}
  <2>1. CASE Write(j)
    <3>1. \/ read' = read \cup j.x.sk /\ unsaved' = unsaved
          \/ read' = read /\ unsaved' = unsaved \cup j.x.sk
      BY <1>1
    <3>2. RecordServes' /\ read \cap j.x.sk = {}
      BY <2>1, <3>1, WriteServes
    <3> QED BY <1>1, <3>2
  <2>2. CASE UNCHANGED <<record, known>> /\ read' = read /\ unsaved' = unsaved \cup j.x.sk
             /\ again' = again
    BY <2>2 DEF RecordServes
  <2> QED BY <1>1, <2>1, <2>2
<1> QED BY <1>6, <1>7, <1>8

LEMMA DeliverOneByOne ==
    ASSUME Typed, NEW w \in Workers, NEW x \in todo, Deliver(w, x), ~workersMet',
           JobIsCurrent, RecordServes, ExpectedIsCared
    PROVE  JobIsCurrent' /\ RecordServes' /\ ExpectedIsCared'
<1> DEFINE j == [x |-> x, loaded |-> FALSE, new |-> <<>>]
<1>1. /\ job' = [job EXCEPT ![w] = {j}] /\ \A v \in Workers : job[v] = {}
      /\ expected' = expected \cup {c \in x.sk : Promised(c)}
      /\ UNCHANGED <<record, known, read, unsaved>>
  BY DEF Deliver
<1>2. j.x = x /\ ~j.loaded
  OBVIOUS
<1> HIDE DEF j
<1>3. job'[w] = {j} /\ \A v \in Workers \ {w} : job'[v] = {}
  BY <1>1 DEF Typed, MemberTyped
<1>4. JobIsCurrent'
  BY <1>2, <1>3 DEF JobIsCurrent
<1>5. RecordServes'
  BY <1>1 DEF RecordServes
<1>6. \A c \in x.sk : c \in Chains
  BY DEF Typed, SenderTyped, MemberTyped, Stanza
<1>7. ExpectedIsCared'
  BY <1>1, <1>2, <1>3, <1>6 DEF ExpectedIsCared, Promised
<1> QED BY <1>4, <1>5, <1>7

LEMMA MemberOneByOne ==
    ASSUME Typed, OneByOne, NEW w \in Workers, Load(w) \/ Store(w) \/ StoreFails(w) \/ \E x \in todo : Deliver(w, x)
    PROVE  OneByOne'
<1> SUFFICES ASSUME ~workersMet', ~forgot'
             PROVE  JobIsCurrent' /\ RecordServes' /\ ExpectedIsCared' /\ again' = {}
  BY DEF OneByOne
<1>1. JobIsCurrent /\ RecordServes /\ ExpectedIsCared /\ again = {}
  BY DEF OneByOne, Load, Store, StoreFails, Deliver
<1>2. CASE Load(w)
  <2>1. RecordServes' /\ again' = {}
    BY <1>1, <1>2 DEF Load, RecordServes
  <2> QED BY <1>1, <1>2, <2>1, LoadOneByOne
<1>3. CASE Store(w) \/ StoreFails(w)
  BY <1>1, <1>3, StoreOneByOne
<1>4. CASE \E x \in todo : Deliver(w, x)
  <2>1. again' = {}
    BY <1>1, <1>4 DEF Deliver
  <2> QED BY <1>1, <1>4, <2>1, DeliverOneByOne
<1> QED BY <1>2, <1>3, <1>4
-----------------------------------------------------------------------------
IInv == Typed /\ ChainMovesOn /\ KeyPerMessage /\ OneByOne

LEMMA InitIInv == Init => IInv
<1> SUFFICES ASSUME Init PROVE IInv
  OBVIOUS
<1> USE DEF Init
<1>1. SenderTyped
  BY Bounds DEF SenderTyped, AtMostOne
<1>2. MemberTyped
  BY DEF MemberTyped, Good, AtMostOne
<1>3. ChainMovesOn /\ KeyPerMessage
  BY DEF ChainMovesOn, KeyPerMessage
<1>4. JobIsCurrent /\ ExpectedIsCared
  BY DEF JobIsCurrent, ExpectedIsCared
<1>5. RecordServes
  <2>1. DOMAIN <<>> = {}
    OBVIOUS
  <2> QED BY <2>1 DEF RecordServes
<1> QED BY <1>1, <1>2, <1>3, <1>4, <1>5 DEF IInv, Typed, OneByOne

LEMMA SendKeeps == ASSUME IInv, NEW s \in Sends, SendStep(s) PROVE IInv'
<1>1. OneByOne'
  <2>1. UNCHANGED <<record, job, known, expected, read, again, unsaved, forgot, workersMet>>
    BY SenderStep DEF IInv
  <2> QED BY <2>1
      DEF IInv, OneByOne, JobIsCurrent, RecordServes, ExpectedIsCared, Promised
<1> QED BY <1>1, SenderStep, MemberOfSender, ChainStep DEF IInv, Typed

LEMMA WorkerKeeps ==
    ASSUME IInv, NEW w \in Workers, Load(w) \/ Store(w) \/ StoreFails(w) \/ \E x \in todo : Deliver(w, x)
    PROVE  IInv'
<1>1. UNCHANGED <<sender, sendsMet>>
  BY DEF Load, Store, StoreFails, Deliver
<1>2. ChainMovesOn' /\ KeyPerMessage'
  BY <1>1 DEF IInv, ChainMovesOn, KeyPerMessage, sender
<1> QED BY <1>2, MemberStep, MemberOneByOne DEF IInv, Typed

LEMMA OthersKeep ==
    ASSUME IInv, (\E x \in sent : Redeliver(x)) \/ UNCHANGED vars
    PROVE  IInv'
<1>1. /\ UNCHANGED <<sender, sendsMet, record, job, known, expected, read, again, unsaved, forgot, workersMet>>
      /\ todo' \subseteq todo \cup sent
  BY DEF Redeliver, vars, member
<1> USE DEF IInv, sender
<1>2. SenderTyped'
  BY <1>1 DEF Typed, SenderTyped, Stanza
<1>3. MemberTyped'
  BY <1>1 DEF Typed, MemberTyped, Good, Job
<1>4. ChainMovesOn' /\ KeyPerMessage'
  BY <1>1 DEF ChainMovesOn, KeyPerMessage
<1>5. OneByOne'
  BY <1>1 DEF OneByOne, JobIsCurrent, RecordServes, ExpectedIsCared, Promised
<1> QED BY <1>2, <1>3, <1>4, <1>5 DEF Typed

(* The invariant behind the theorems below.                                *)
THEOREM Invariance == Spec => []IInv
<1>1. IInv /\ [Next]_vars => IInv'
  BY SendKeeps, WorkerKeeps, OthersKeep DEF Next
<1> QED BY InitIInv, <1>1, PTL DEF Spec

(* TypeOK: among others, the states of the member's record are of keys     *)
(* that have been generated, and keep only keys they have passed.          *)
THEOREM TypeCorrect == Spec => []TypeOK
<1>1. ASSUME IInv PROVE TypeOK
  <2>1. ASSUME NEW S, AtMostOne(S) PROVE Cardinality(S) <= 1
    <3>1. CASE S = {}
      BY <3>1, FS_EmptySet
    <3>2. ASSUME NEW x, S = {x} PROVE Cardinality(S) <= 1
      <4>1. Cardinality({x}) = 1
        BY FS_Singleton
      <4> QED BY <3>2, <4>1
    <3> QED BY <2>1, <3>1, <3>2 DEF AtMostOne
  <2> QED BY <1>1, <2>1 DEF IInv, Typed, SenderTyped, MemberTyped, Stanza, Good, TypeOK
<1> QED BY Invariance, <1>1, PTL

(* KeyPerMessage: of sends that do not overlap, each encrypts with a key   *)
(* and iteration of its own, though a load of the row may fail before the  *)
(* message or in the middle of it, and a new key replace the old.          *)
THEOREM KeyPerMessageAlways == Spec => []KeyPerMessage
<1>1. ASSUME IInv PROVE KeyPerMessage
  BY <1>1 DEF IInv
<1> QED BY Invariance, <1>1, PTL

(* PromisedIsRead: a worker at a time, the member reads every message it   *)
(* was promised, since the states that later distributions add come after  *)
(* the first one of their key, and the keys that are passed over are kept. *)
(* A store that fails, or a cancelled worker, loses its own message only:  *)
(* whether or not the row was written, it still reads all the others.      *)
THEOREM PromisedIsReadAlways == Spec => []PromisedIsRead
<1>1. ASSUME IInv PROVE PromisedIsRead
  BY <1>1 DEF IInv, OneByOne, ExpectedIsCared, PromisedIsRead
<1> QED BY Invariance, <1>1, PTL

(* ReadOnce: getSenderKey takes the key it gives out of the record.        *)
THEOREM ReadOnceAlways == Spec => []ReadOnce
<1>1. ASSUME IInv PROVE ReadOnce
  BY <1>1 DEF IInv, OneByOne, ReadOnce
<1> QED BY Invariance, <1>1, PTL
===============================================================================
