------------------------ MODULE SessionTasks_proofs ------------------------
(***************************************************************************)
(* What SessionTasks promises for every number of tasks and messages and   *)
(* every limit: records keep their shape and their limits however stores   *)
(* overlap, the row of a session is never lost, and while operations do    *)
(* not overlap each takes effect at one moment, as in Ratchet.  And what   *)
(* Ratchet promises of such operations: no message is read twice, none is  *)
(* taken for a duplicate before it was read, and each can be read within   *)
(* the limits.                                                             *)
(***************************************************************************)
EXTENDS SessionTasks, FiniteSetTheorems, WellFoundedInduction, TLAPS

KeyPair   == Parties \X Nat
Agreement == SUBSET KeyPair
Pending_  == [base : KeyPair, once : BOOLEAN]

Msg == [pre : SUBSET Pending_, eph : KeyPair, key : Seq(Agreement), n : Nat]

(* Skipped keys are those of numbers before the next one. *)
Chain ==
    {c \in [eph : KeyPair, key : Seq(Agreement), index : Nat,
            skipped : SUBSET Nat] : \A i \in c.skipped : i < c.index}

State ==
    {st \in [base : KeyPair, pending : SUBSET Pending_, root : Seq(Agreement),
             eph : KeyPair, key : Seq(Agreement), n : Nat,
             chains : Seq(Chain)] : Len(st.chains) <= MaxChains}

Record == {r \in Seq(State) : Len(r) <= MaxArchived + 1}
-----------------------------------------------------------------------------
(* What the operators of SessionState return. *)

LEMMA LeastNumber ==
  ASSUME NEW T, T \subseteq Nat, T # {}
  PROVE  \E x \in T : \A y \in T : x <= y
<1>1. PICK x \in T : \A y \in T : ~(<<y, x>> \in OpToRel(<, Nat))
  BY NatLessThanWellFounded, WFMin
<1>2. \A y \in T : ~(y < x)
  BY <1>1 DEF OpToRel
<1> QED
  BY <1>2

LEMMA AliceStateType ==
  ASSUME NEW base \in KeyPair, NEW once \in BOOLEAN,
         NEW spk \in KeyPair, NEW eph \in KeyPair
  PROVE  AliceState(base, once, spk, eph) \in State
<1> DEFINE root == <<{base}, {spk, eph}>>
<1> DEFINE c == NewChain(spk, <<{base}>>)
<1>1. root \in Seq(Agreement) /\ <<{base}>> \in Seq(Agreement)
  BY DEF Agreement
<1>2. c \in Chain
  BY <1>1 DEF NewChain, Chain
<1>3. <<c>> \in Seq(Chain) /\ Len(<<c>>) <= MaxChains
  BY <1>2, SessionAssumption
<1>4. {[base |-> base, once |-> once]} \subseteq Pending_
  BY DEF Pending_
<1> HIDE DEF root, c
<1>5. [base |-> base, pending |-> {[base |-> base, once |-> once]},
       root |-> root, eph |-> eph, key |-> root, n |-> 0, chains |-> <<c>>]
        \in State
  BY <1>1, <1>3, <1>4 DEF State
<1> QED
  BY <1>5 DEF AliceState, root, c

LEMMA BobStateType ==
  ASSUME NEW base \in KeyPair, NEW spk \in KeyPair
  PROVE  BobState(base, spk) \in State
<1>1. <<{base}>> \in Seq(Agreement)
  BY DEF Agreement
<1>2. <<>> \in Seq(Chain) /\ Len(<<>>) <= MaxChains
  BY SessionAssumption
<1> QED
  BY <1>1, <1>2 DEF BobState, State

(* The current state comes first, whatever was archived. *)
LEMMA PromoteType ==
  ASSUME NEW st \in State, NEW others \in Seq(State)
  PROVE  /\ Promote(st, others) \in Record
         /\ Promote(st, others) # <<>>
         /\ Promote(st, others)[1] = st
<1> DEFINE n == IF Len(others) > MaxArchived THEN MaxArchived ELSE Len(others)
<1>1. n \in 0..Len(others) /\ n <= MaxArchived
  BY SessionAssumption
<1> HIDE DEF n
<1>2. SubSeq(others, 1, n) \in Seq(State) /\ Len(SubSeq(others, 1, n)) = n
  BY <1>1
<1>3. /\ <<st>> \o SubSeq(others, 1, n) \in Seq(State)
      /\ Len(<<st>> \o SubSeq(others, 1, n)) = 1 + n
      /\ (<<st>> \o SubSeq(others, 1, n))[1] = st
  BY <1>2, <1>1
<1> QED
  BY <1>1, <1>3, SessionAssumption DEF Promote, n, Record

LEMMA MessageType == ASSUME NEW st \in State PROVE Message(st) \in Msg
  BY DEF Message, Msg, State

LEMMA EncryptedType ==
  ASSUME NEW r \in Record, r # <<>>
  PROVE  Encrypted(r) \in Record /\ Encrypted(r) # <<>>
<1>1. 1 \in DOMAIN r /\ r[1] \in State
  BY DEF Record
<1> DEFINE st == [r[1] EXCEPT !.n = @ + 1]
<1>2. st \in State
  BY <1>1 DEF State
<1> HIDE DEF st
<1>3. [r EXCEPT ![1] = st] \in Seq(State) /\ Len([r EXCEPT ![1] = st]) = Len(r)
  BY <1>1, <1>2 DEF Record
<1>4. Encrypted(r) = [r EXCEPT ![1] = st]
  BY DEF Encrypted, st
<1> QED
  BY <1>1, <1>3, <1>4 DEF Record

LEMMA TakeType ==
  ASSUME NEW c \in Chain, NEW n \in Nat
  PROVE  Take(c, n) \in Chain
<1>1. CASE n < c.index
  BY <1>1 DEF Take, Chain
<1>2. CASE ~(n < c.index)
  <2>1. DEFINE skipped == c.skipped \cup (c.index..(n - 1))
  <2>2. skipped \in SUBSET Nat /\ \A i \in skipped : i < n + 1
    BY <1>2 DEF Chain
  <2> HIDE DEF skipped
  <2>3. c \in [eph : KeyPair, key : Seq(Agreement), index : Nat,
               skipped : SUBSET Nat] /\ n + 1 \in Nat
    BY DEF Chain
  <2> DEFINE d == [c EXCEPT !.index = n + 1, !.skipped = skipped]
  <2>4. d \in [eph : KeyPair, key : Seq(Agreement), index : Nat,
               skipped : SUBSET Nat]
    BY <2>2, <2>3
  <2>5. d.index = n + 1
    BY <2>3
  <2>6. d.skipped = skipped
    BY <2>3
  <2>7. Take(c, n) = d
    BY <1>2 DEF Take, skipped
  <2> QED
    BY <2>2, <2>4, <2>5, <2>6, <2>7 DEF Chain
<1> QED
  BY <1>1, <1>2

(* The new chain is kept, whichever the limit drops. *)
LEMMA AddReceiverChainType ==
  ASSUME NEW chains \in Seq(Chain), Len(chains) <= MaxChains, NEW c \in Chain
  PROVE  /\ AddReceiverChain(chains, c) \in Seq(Chain)
         /\ Len(AddReceiverChain(chains, c)) <= MaxChains
         /\ \E i \in DOMAIN AddReceiverChain(chains, c) :
               AddReceiverChain(chains, c)[i] = c
<1> DEFINE all == Append(chains, c)
<1>1. all \in Seq(Chain) /\ Len(all) = Len(chains) + 1 /\ all[Len(all)] = c
  OBVIOUS
<1>2. CASE Len(all) > MaxChains
  <2>1. Len(all) = MaxChains + 1 /\ MaxChains \in Nat \ {0}
    BY <1>1, <1>2, SessionAssumption
  <2>2. /\ Tail(all) \in Seq(Chain) /\ Len(Tail(all)) = MaxChains
        /\ Tail(all)[MaxChains] = all[MaxChains + 1]
    BY <1>1, <2>1
  <2> QED
    <3>1. AddReceiverChain(chains, c) = Tail(all)
      BY <1>2 DEF AddReceiverChain
    <3>2. MaxChains \in DOMAIN Tail(all) /\ Tail(all)[MaxChains] = c
      BY <1>1, <2>1, <2>2
    <3> QED
      BY <2>1, <2>2, <3>1, <3>2
<1>3. CASE ~(Len(all) > MaxChains)
  BY <1>1, <1>3, SessionAssumption DEF AddReceiverChain
<1> QED
  BY <1>2, <1>3

LEMMA RatchetedType ==
  ASSUME NEW st \in State, NEW their \in KeyPair, NEW eph \in KeyPair
  PROVE  /\ Ratcheted(st, their, eph) \in State
         /\ ChainsOf(Ratcheted(st, their, eph), their) # {}
<1>1. CASE ChainsOf(st, their) # {}
  BY <1>1 DEF Ratcheted
<1>2. CASE ChainsOf(st, their) = {}
  <2> DEFINE in     == Append(st.root, {their, st.eph})
             out    == Append(in, {their, eph})
             c      == NewChain(their, in)
             chains == AddReceiverChain(st.chains, c)
  <2>1. in \in Seq(Agreement) /\ out \in Seq(Agreement)
    BY DEF State, Agreement
  <2>2. c \in Chain /\ c.eph = their
    BY <2>1 DEF NewChain, Chain
  <2> HIDE DEF in, out, c
  <2>3. st.chains \in Seq(Chain) /\ Len(st.chains) <= MaxChains
    BY DEF State
  <2>4. /\ chains \in Seq(Chain) /\ Len(chains) <= MaxChains
        /\ \E i \in DOMAIN chains : chains[i] = c
    BY <2>2, <2>3, AddReceiverChainType
  <2> HIDE DEF chains
  <2> DEFINE r == [st EXCEPT !.root = out, !.eph = eph, !.key = out, !.n = 0,
                             !.chains = chains]
  <2>5. r \in State /\ r.chains = chains
    BY <2>1, <2>4 DEF State
  <2>6. ChainsOf(r, their) # {}
    BY <2>2, <2>4, <2>5 DEF ChainsOf
  <2>7. Ratcheted(st, their, eph) = r
    BY <1>2 DEF Ratcheted, r, in, out, c, chains
  <2> QED
    BY <2>5, <2>6, <2>7
<1> QED
  BY <1>1, <1>2

LEMMA OpenedType ==
  ASSUME NEW st \in State, NEW m \in Msg, NEW eph \in KeyPair
  PROVE  Opened(st, m, eph).state \in State
<1> DEFINE r == Ratcheted(st, m.eph, eph)
           i == CHOOSE j \in ChainsOf(r, m.eph) : TRUE
           c == Take(r.chains[i], m.n)
<1>1. m.eph \in KeyPair /\ m.n \in Nat
  BY DEF Msg
<1>2. r \in State /\ ChainsOf(r, m.eph) # {}
  BY <1>1, RatchetedType
<1> HIDE DEF r
<1>3. i \in DOMAIN r.chains
  BY <1>2 DEF ChainsOf
<1> HIDE DEF i
<1>4. r.chains \in Seq(Chain) /\ Len(r.chains) <= MaxChains /\ r.chains[i] \in Chain
  BY <1>2, <1>3 DEF State
<1>5. c \in Chain
  BY <1>1, <1>4, TakeType
<1> HIDE DEF c
<1> DEFINE chains == [r.chains EXCEPT ![i] = c]
<1>6. chains \in Seq(Chain) /\ Len(chains) = Len(r.chains)
  BY <1>3, <1>4, <1>5
<1> HIDE DEF chains
<1>7. [r EXCEPT !.chains = chains, !.pending = {}] \in State
  BY <1>2, <1>4, <1>6 DEF State
<1> QED
  BY <1>7 DEF Opened, r, i, c, chains

LEMMA BuiltType ==
  ASSUME NEW r \in Record, NEW m \in Msg, NEW spk \in KeyPair
  PROVE  Built(r, m, spk) \in Record
<1>1. CASE Unknown(r, m) = {}
  BY <1>1 DEF Built
<1>2. CASE Unknown(r, m) # {}
  <2> DEFINE b == CHOOSE x \in Unknown(r, m) : TRUE
  <2>1. b \in Unknown(r, m)
    BY <1>2
  <2> HIDE DEF b
  <2>2. b.base \in KeyPair
    BY <2>1 DEF Unknown, Msg, Pending_
  <2>3. BobState(b.base, spk) \in State /\ r \in Seq(State)
    BY <2>2, BobStateType DEF Record
  <2>4. Promote(BobState(b.base, spk), r) \in Record
    BY <2>3, PromoteType
  <2> QED
    BY <1>2, <2>4 DEF Built, b
<1> QED
  BY <1>1, <1>2

(* What is read becomes the current state; what is not changes nothing. *)
LEMMA DecryptedType ==
  ASSUME NEW r \in Record, NEW m \in Msg, NEW eph \in KeyPair
  PROVE  /\ Decrypted(r, m, eph).record \in Record
         /\ Decrypted(r, m, eph).verdict = "read"
               => Decrypted(r, m, eph).record # <<>>
<1>1. CASE Readers(r, m, eph) = {}
  BY <1>1 DEF Decrypted
<1>2. CASE Readers(r, m, eph) # {}
  <2> DEFINE i == CHOOSE j \in Readers(r, m, eph) :
                    \A k \in Readers(r, m, eph) : j <= k
             o == Opened(r[i], m, eph)
             p == Promote(o.state, RemoveAt(r, i))
  <2>1. PICK j \in Readers(r, m, eph) : \A k \in Readers(r, m, eph) : j <= k
    <3>1. Readers(r, m, eph) \subseteq Nat
      BY DEF Readers, Record
    <3> QED
      BY <1>2, <3>1, LeastNumber
  <2>2. i \in Readers(r, m, eph)
    BY <2>1
  <2> HIDE DEF i
  <2>3. r \in Seq(State) /\ i \in 1..Len(r) /\ r[i] \in State
    BY <2>2 DEF Readers, Record
  <2>4. o.state \in State
    BY <2>3, OpenedType
  <2> HIDE DEF o
  <2>5. RemoveAt(r, i) \in Seq(State)
    BY <2>3 DEF RemoveAt
  <2>6. p \in Record /\ p # <<>>
    BY <2>4, <2>5, PromoteType
  <2> HIDE DEF p
  <2>7. Decrypted(r, m, eph) =
          IF o.verdict = "duplicate" THEN [record |-> r, verdict |-> "duplicate"]
          ELSE [record |-> p, verdict |-> "read"]
    BY <1>2 DEF Decrypted, i, o, p
  <2> QED
    BY <2>6, <2>7
<1> QED
  BY <1>1, <1>2
-----------------------------------------------------------------------------
Labels == {"idle", "load", "store", "insert", "remove"}
Kinds  == {"none", "establish", "encrypt", "decrypt"}

RecordsTyped ==
    /\ store \in [Parties -> Record] /\ fresh \in [Parties -> Nat]
    /\ old \in [Tasks -> Record] /\ new \in [Tasks -> Record]
    /\ \A m \in sent : m.to \in Parties /\ m.msg \in Msg

JobsTyped ==
    /\ pc \in [Tasks -> Labels]
    /\ job \in [Tasks -> [kind : Kinds, m : SUBSET (sent \cup Msg)]]
    /\ \A t \in Tasks :
          IF job[t].kind = "decrypt"
          THEN job[t].m \subseteq {m \in sent : m.to = Me}
          ELSE job[t].m \subseteq Msg

Typed == RecordsTyped /\ JobsTyped

(* A row that is missing is about to be inserted, by a task that has       *)
(* something to insert.                                                    *)
RowIsComing ==
    /\ fresh[Me] > 0 /\ "insert" \notin torn /\ Row = <<>>
          => \E t \in Tasks : pc[t] = "insert"
    /\ \A t \in Tasks : pc[t] = "insert" => new[t] # <<>>

IInv == Typed /\ RowIsComing

(* The limits of the code: no record has more archived states than are     *)
(* kept, no state more receiver chains.                                    *)
Limits ==
    \A p \in Parties :
        /\ Len(store[p]) <= MaxArchived + 1
        /\ \A i \in DOMAIN store[p] : Len(store[p][i].chains) <= MaxChains
-----------------------------------------------------------------------------
(* There are two parties, so each has a peer. *)
LEMMA PeerIsOther ==
  ASSUME NEW p \in Parties
  PROVE  Peer(p) \in Parties /\ Peer(p) # p
<1>1. \E q \in Parties : q # p
  <2> SUFFICES ASSUME \A q \in Parties : q = p PROVE FALSE
    OBVIOUS
  <2>1. Parties = {p}
    OBVIOUS
  <2> QED
    BY <2>1, FS_Singleton, RatchetAssumption, TasksAssumption
<1> QED
  BY <1>1 DEF Peer

LEMMA GeneratedType ==
  ASSUME RecordsTyped, NEW p \in Parties, NEW k \in Nat
  PROVE  Generated(p, k) \in KeyPair /\ SignedPreKey(p) \in KeyPair
  BY DEF RecordsTyped, Generated, SignedPreKey, KeyPair

(* What is sent is typed. *)
LEMMA SentType ==
  ASSUME NEW p \in Parties, NEW ms \in SUBSET Msg, NEW m \in Sent(p, ms)
  PROVE  m.to \in Parties /\ m.msg \in Msg
<1> DEFINE Copy(x) == Cardinality({y \in sent : y.msg = x})
<1>1. Sent(p, ms) = {[to |-> Peer(p), msg |-> x, copy |-> Copy(x)] : x \in ms}
  BY DEF Sent
<1> HIDE DEF Copy
<1>2. PICK x \in ms : m = [to |-> Peer(p), msg |-> x, copy |-> Copy(x)]
  BY <1>1
<1> QED
  BY <1>2, PeerIsOther

(* An operation of the peer keeps the records typed, and leaves the row    *)
(* alone.                                                                  *)
LEMMA EstablishType ==
  ASSUME RecordsTyped, NEW p \in Parties, Establish(p)
  PROVE  /\ store' \in [Parties -> Record] /\ fresh' \in [Parties -> Nat]
         /\ \A q \in Parties \ {p} : store'[q] = store[q] /\ fresh'[q] = fresh[q]
         /\ sent' = sent
<1>1. PICK once \in BOOLEAN :
         store' = [store EXCEPT ![p] =
                     Promote(AliceState(Generated(p, 1), once,
                                        SignedPreKey(Peer(p)),
                                        Generated(p, 2)), @)]
  BY DEF Establish
<1>2. /\ Generated(p, 1) \in KeyPair /\ Generated(p, 2) \in KeyPair
      /\ SignedPreKey(Peer(p)) \in KeyPair
  BY GeneratedType, PeerIsOther, SMT
<1> DEFINE st == AliceState(Generated(p, 1), once, SignedPreKey(Peer(p)),
                            Generated(p, 2))
<1>3. st \in State
  BY <1>2, AliceStateType
<1> HIDE DEF st
<1>4. store[p] \in Seq(State)
  BY DEF RecordsTyped, Record
<1>5. Promote(st, store[p]) \in Record
  BY <1>3, <1>4, PromoteType
<1>6. store' = [store EXCEPT ![p] = Promote(st, store[p])]
  BY <1>1 DEF st
<1>7. fresh' = [fresh EXCEPT ![p] = @ + 2] /\ sent' = sent
  BY DEF Establish
<1> QED
  BY <1>5, <1>6, <1>7 DEF RecordsTyped

LEMMA EncryptType ==
  ASSUME RecordsTyped, NEW p \in Parties, Encrypt(p)
  PROVE  /\ store' \in [Parties -> Record] /\ fresh' = fresh
         /\ \A q \in Parties \ {p} : store'[q] = store[q]
         /\ sent \subseteq sent'
         /\ \A m \in sent' : m.to \in Parties /\ m.msg \in Msg
<1>1. store[p] \in Record /\ store[p] # <<>>
  BY DEF RecordsTyped, Encrypt
<1>2. Encrypted(store[p]) \in Record
  BY <1>1, EncryptedType
<1>3. store[p][1] \in State
  BY <1>1 DEF Record
<1>4. Message(store[p][1]) \in Msg
  BY <1>3, MessageType
<1>5. sent' = sent \cup Sent(p, {Message(store[p][1])})
  BY DEF Encrypt
<1>6. \A m \in Sent(p, {Message(store[p][1])}) : m.to \in Parties /\ m.msg \in Msg
  BY <1>4, SentType
<1>7. store' = [store EXCEPT ![p] = Encrypted(store[p])] /\ fresh' = fresh
  BY DEF Encrypt
<1> QED
  BY <1>2, <1>5, <1>6, <1>7 DEF RecordsTyped

LEMMA DecryptType ==
  ASSUME RecordsTyped, NEW m \in sent, Decrypt(m)
  PROVE  /\ store' \in [Parties -> Record] /\ fresh' \in [Parties -> Nat]
         /\ \A q \in Parties \ {m.to} : store'[q] = store[q] /\ fresh'[q] = fresh[q]
         /\ sent' = sent
<1> DEFINE p == m.to
           b == Built(store[p], m.msg, SignedPreKey(p))
           d == Decrypted(b, m.msg, Generated(p, 1))
<1>1. p \in Parties /\ m.msg \in Msg /\ store[p] \in Record
  BY DEF RecordsTyped
<1>2. Generated(p, 1) \in KeyPair /\ SignedPreKey(p) \in KeyPair
  BY <1>1, GeneratedType
<1>3. b \in Record
  BY <1>1, <1>2, BuiltType
<1>4. d.record \in Record
  BY <1>1, <1>2, <1>3, DecryptedType
<1>5. Result(m).record \in Record
  BY <1>1, <1>4 DEF Result
<1>6. /\ store' = [store EXCEPT ![p] = Result(m).record]
      /\ fresh' = [fresh EXCEPT ![p] = @ + 1] \/ fresh' = fresh
      /\ sent' = sent
  BY DEF Decrypt
<1> QED
  BY <1>1, <1>5, <1>6 DEF RecordsTyped
-----------------------------------------------------------------------------
(* A task that ends leaves the others as they are, whatever it has sent. *)
LEMMA EndType ==
  ASSUME Typed, NEW t \in Tasks, End(t), sent \subseteq sent'
  PROVE  /\ JobsTyped'
         /\ old' \in [Tasks -> Record] /\ new' \in [Tasks -> Record]
         /\ pc'[t] = "idle"
         /\ \A s \in Tasks \ {t} : pc'[s] = pc[s] /\ new'[s] = new[s]
<1>1. <<>> \in Record
  BY SessionAssumption DEF Record
<1>2. /\ pc \in [Tasks -> Labels]
      /\ old \in [Tasks -> Record] /\ new \in [Tasks -> Record]
  BY DEF Typed, RecordsTyped, JobsTyped
<1>3. /\ pc' \in [Tasks -> Labels]
      /\ old' \in [Tasks -> Record] /\ new' \in [Tasks -> Record]
  BY <1>1, <1>2 DEF End, Labels
<1>4. job' \in [Tasks -> [kind : Kinds, m : SUBSET (sent' \cup Msg)]]
  <2>1. job \in [Tasks -> [kind : Kinds, m : SUBSET (sent \cup Msg)]]
    BY DEF Typed, JobsTyped
  <2>2. job \in [Tasks -> [kind : Kinds, m : SUBSET (sent' \cup Msg)]]
    BY <2>1
  <2>3. NoJob \in [kind : Kinds, m : SUBSET (sent' \cup Msg)]
    BY DEF NoJob, Job, Kinds
  <2> QED
    BY <2>2, <2>3 DEF End
<1>5. ASSUME NEW s \in Tasks
      PROVE  IF job'[s].kind = "decrypt"
             THEN job'[s].m \subseteq {m \in sent' : m.to = Me}
             ELSE job'[s].m \subseteq Msg
  <2>1. CASE s = t
    <3>1. job'[s] = NoJob
      BY <2>1 DEF End, Typed, JobsTyped
    <3> QED
      BY <3>1 DEF NoJob, Job
  <2>2. CASE s # t
    <3>1. job'[s] = job[s]
      BY <2>2 DEF End, Typed, JobsTyped
    <3> QED
      BY <3>1 DEF Typed, JobsTyped
  <2> QED
    BY <2>1, <2>2
<1> QED
  BY <1>2, <1>3, <1>4, <1>5 DEF JobsTyped, End

(* A store begins: the row is deleted, and the record to insert is known. *)
LEMMA DeleteRowKeeps ==
  ASSUME IInv, NEW t \in Tasks, NEW record \in Record, record # <<>>,
         DeleteRow(t, record), fresh' \in [Parties -> Nat],
         job' = job \/ \E x \in Msg : job' = [job EXCEPT ![t].m = {x}],
         job' # job => job[t].kind = "encrypt"
  PROVE  IInv'
<1>1. <<>> \in Record /\ Me \in Parties
  BY SessionAssumption, RatchetAssumption, TasksAssumption DEF Record
<1>2. /\ pc \in [Tasks -> Labels]
      /\ store \in [Parties -> Record]
      /\ old \in [Tasks -> Record] /\ new \in [Tasks -> Record]
  BY DEF IInv, Typed, RecordsTyped, JobsTyped
<1>3. /\ pc' = [pc EXCEPT ![t] = "insert"] /\ new' = [new EXCEPT ![t] = record]
      /\ store' = [store EXCEPT ![Me] = <<>>]
      /\ old' = old /\ sent' = sent /\ torn' = torn
  BY DEF DeleteRow, SetRow, ghosts
<1>4. RecordsTyped'
  BY <1>1, <1>2, <1>3 DEF IInv, Typed, RecordsTyped
<1>5. job' \in [Tasks -> [kind : Kinds, m : SUBSET (sent' \cup Msg)]]
  <2>1. job \in [Tasks -> [kind : Kinds, m : SUBSET (sent \cup Msg)]]
    BY DEF IInv, Typed, JobsTyped
  <2>2. CASE job' = job
    BY <2>1, <2>2, <1>3
  <2>3. CASE \E x \in Msg : job' = [job EXCEPT ![t].m = {x}]
    BY <2>1, <2>3, <1>3
  <2> QED
    BY <2>2, <2>3
<1>6. ASSUME NEW s \in Tasks
      PROVE  IF job'[s].kind = "decrypt"
             THEN job'[s].m \subseteq {m \in sent' : m.to = Me}
             ELSE job'[s].m \subseteq Msg
  <2>1. CASE job'[s] = job[s]
    BY <2>1, <1>3 DEF IInv, Typed, JobsTyped
  <2>2. CASE job'[s] # job[s]
    <3>1. job \in [Tasks -> [kind : Kinds, m : SUBSET (sent \cup Msg)]]
      BY DEF IInv, Typed, JobsTyped
    <3>2. PICK x \in Msg : job' = [job EXCEPT ![t].m = {x}]
      BY <2>2
    <3>3. s = t /\ job'[s] = [job[s] EXCEPT !.m = {x}]
      BY <2>2, <3>1, <3>2
    <3>4. job[s].kind = "encrypt" /\ job[s] \in [kind : Kinds, m : SUBSET (sent \cup Msg)]
      BY <2>2, <3>1, <3>3
    <3>5. job'[s].kind = "encrypt" /\ job'[s].m = {x}
      BY <3>3, <3>4
    <3> QED
      BY <3>5
  <2> QED
    BY <2>1, <2>2
<1>7. JobsTyped'
  BY <1>2, <1>3, <1>5, <1>6 DEF JobsTyped, Labels
<1>8. pc'[t] = "insert" /\ new'[t] = record
  BY <1>2, <1>3
<1>9. \A s \in Tasks \ {t} : pc'[s] = pc[s] /\ new'[s] = new[s]
  BY <1>2, <1>3
<1>10. RowIsComing'
  BY <1>8, <1>9 DEF IInv, RowIsComing
<1> QED
  BY <1>4, <1>7, <1>10 DEF IInv, Typed

LEMMA StoreEstablishedKeeps ==
  ASSUME IInv, NEW t \in Tasks, StoreEstablished(t)
  PROVE  IInv'
<1>1. PICK once \in BOOLEAN :
         DeleteRow(t, Promote(AliceState(Generated(Me, 1), once,
                                         SignedPreKey(Peer(Me)),
                                         Generated(Me, 2)), old[t]))
  BY DEF StoreEstablished
<1>2. /\ Me \in Parties /\ Peer(Me) \in Parties /\ RecordsTyped
      /\ old[t] \in Seq(State)
  BY RatchetAssumption, TasksAssumption, PeerIsOther DEF IInv, Typed, RecordsTyped, Record
<1>3. /\ Generated(Me, 1) \in KeyPair /\ Generated(Me, 2) \in KeyPair
      /\ SignedPreKey(Peer(Me)) \in KeyPair
  BY <1>2, GeneratedType, SMT
<1> DEFINE st == AliceState(Generated(Me, 1), once, SignedPreKey(Peer(Me)),
                            Generated(Me, 2))
<1>4. st \in State
  BY <1>3, AliceStateType
<1>5. DeleteRow(t, Promote(st, old[t]))
  BY <1>1
<1> HIDE DEF st
<1>6. Promote(st, old[t]) \in Record /\ Promote(st, old[t]) # <<>>
  BY <1>2, <1>4, PromoteType
<1>7. fresh' \in [Parties -> Nat] /\ job' = job
  BY <1>2 DEF StoreEstablished, Generate, RecordsTyped
<1> QED
  BY <1>5, <1>6, <1>7, DeleteRowKeeps

LEMMA StoreEncryptedKeeps ==
  ASSUME IInv, NEW t \in Tasks, StoreEncrypted(t)
  PROVE  IInv'
<1>1. old[t] \in Record /\ old[t] # <<>> /\ fresh \in [Parties -> Nat]
  BY DEF IInv, Typed, RecordsTyped, StoreEncrypted
<1>2. Encrypted(old[t]) \in Record /\ Encrypted(old[t]) # <<>>
  BY <1>1, EncryptedType
<1>3. old[t][1] \in State
  BY <1>1 DEF Record
<1>4. Message(old[t][1]) \in Msg
  BY <1>3, MessageType
<1>5. /\ DeleteRow(t, Encrypted(old[t])) /\ job[t].kind = "encrypt"
      /\ job' = [job EXCEPT ![t].m = {Message(old[t][1])}]
      /\ fresh' = fresh
  BY DEF StoreEncrypted
<1>6. \E x \in Msg : job' = [job EXCEPT ![t].m = {x}]
  BY <1>4, <1>5
<1>7. fresh' \in [Parties -> Nat]
  BY <1>1, <1>5
<1> QED
  BY <1>2, <1>5, <1>6, <1>7, DeleteRowKeeps

LEMMA StoreDecryptedKeeps ==
  ASSUME IInv, NEW t \in Tasks, StoreDecrypted(t)
  PROVE  IInv'
<1>1. PICK m \in job[t].m :
         /\ Outcome(t, m).verdict = "read"
         /\ DeleteRow(t, Outcome(t, m).record)
         /\ \E n \in {0, 1} : Generate(n)
  BY DEF StoreDecrypted
<1>2. Me \in Parties /\ RecordsTyped /\ old[t] \in Record
  BY RatchetAssumption, TasksAssumption DEF IInv, Typed, RecordsTyped
<1>3. m \in sent /\ m.msg \in Msg
  BY <1>1, <1>2 DEF IInv, Typed, JobsTyped, RecordsTyped, StoreDecrypted
<1>4. Generated(Me, 1) \in KeyPair /\ SignedPreKey(Me) \in KeyPair
  BY <1>2, GeneratedType
<1> DEFINE b == Built(old[t], m.msg, SignedPreKey(Me))
           d == Decrypted(b, m.msg, Generated(Me, 1))
<1>5. b \in Record
  BY <1>2, <1>3, <1>4, BuiltType
<1>6. d.record \in Record /\ (d.verdict = "read" => d.record # <<>>)
  BY <1>3, <1>4, <1>5, DecryptedType
<1>7. Outcome(t, m) = d
  BY <1>1 DEF Outcome
<1>8. fresh' \in [Parties -> Nat] /\ job' = job
  BY <1>1, <1>2 DEF Generate, RecordsTyped, StoreDecrypted
<1> HIDE DEF d
<1>9. DeleteRow(t, d.record) /\ d.record \in Record /\ d.record # <<>>
  BY <1>1, <1>6, <1>7
<1> QED
  BY <1>8, <1>9, DeleteRowKeeps
-----------------------------------------------------------------------------
(* An operation ends: the row is there, or is as it was and the operation  *)
(* had not deleted it, unless it was cut off.                              *)
LEMMA EndKeeps ==
  ASSUME IInv, NEW t \in Tasks, End(t),
         store' \in [Parties -> Record], fresh' = fresh, torn \subseteq torn',
         sent \subseteq sent',
         \A m \in sent' : m.to \in Parties /\ m.msg \in Msg,
         \/ Row' # <<>>
         \/ Row' = Row /\ (pc[t] = "insert" => "insert" \in torn')
  PROVE  IInv'
<1>1. /\ JobsTyped'
      /\ old' \in [Tasks -> Record] /\ new' \in [Tasks -> Record]
      /\ pc'[t] = "idle"
      /\ \A s \in Tasks \ {t} : pc'[s] = pc[s] /\ new'[s] = new[s]
  BY EndType DEF IInv
<1>2. RecordsTyped'
  BY <1>1 DEF IInv, Typed, RecordsTyped
<1>3. \A s \in Tasks : pc'[s] = "insert" => pc[s] = "insert" /\ new'[s] # <<>>
  BY <1>1 DEF IInv, RowIsComing
<1>4. ASSUME fresh'[Me] > 0, "insert" \notin torn', Row' = <<>>
      PROVE  \E s \in Tasks : pc'[s] = "insert"
  <2>1. pc[t] # "insert" /\ Row = <<>> /\ "insert" \notin torn
    BY <1>4
  <2>2. PICK s \in Tasks : pc[s] = "insert"
    BY <1>4, <2>1 DEF IInv, RowIsComing
  <2> QED
    BY <1>1, <2>1, <2>2
<1> QED
  BY <1>1, <1>2, <1>3, <1>4 DEF IInv, Typed, RowIsComing

LEMMA FailsKeep ==
  ASSUME IInv, NEW t \in Tasks,
         EncryptFails(t) \/ DecryptFails(t) \/ InsertFails(t) \/ Cut(t)
  PROVE  IInv'
<1>1. /\ End(t) /\ store' = store /\ fresh' = fresh /\ sent' = sent
      /\ torn \subseteq torn'
  BY DEF EncryptFails, DecryptFails, InsertFails, Cut, vars, ghosts
<1>2. \/ Row' # <<>>
      \/ Row' = Row /\ (pc[t] = "insert" => "insert" \in torn')
  BY <1>1 DEF EncryptFails, DecryptFails, InsertFails, InsertRow, Cut, Row
<1>3. /\ store' \in [Parties -> Record]
      /\ \A m \in sent' : m.to \in Parties /\ m.msg \in Msg
  BY <1>1 DEF IInv, Typed, RecordsTyped
<1> QED
  BY <1>1, <1>2, <1>3, EndKeeps

LEMMA RemovePreKeyKeeps ==
  ASSUME IInv, NEW t \in Tasks, RemovePreKey(t)
  PROVE  IInv'
<1>1. /\ End(t) /\ store' = store /\ fresh' = fresh /\ sent' = sent
      /\ torn' = torn /\ pc[t] = "remove"
  BY DEF RemovePreKey
<1>2. /\ store' \in [Parties -> Record]
      /\ \A m \in sent' : m.to \in Parties /\ m.msg \in Msg
      /\ Row' = Row
  BY <1>1 DEF IInv, Typed, RecordsTyped, Row
<1> QED
  BY <1>1, <1>2, EndKeeps

(* What was missing is there again. *)
LEMMA InsertKeeps ==
  ASSUME IInv, NEW t \in Tasks, Insert(t)
  PROVE  IInv'
<1>1. /\ store' = [store EXCEPT ![Me] = new[t]] /\ pc[t] = "insert"
      /\ fresh' = fresh /\ torn' = torn
  BY DEF Insert, SetRow, ghosts
<1>2. Me \in Parties /\ new[t] \in Record /\ new[t] # <<>>
  BY <1>1, RatchetAssumption, TasksAssumption DEF IInv, Typed, RecordsTyped, RowIsComing
<1>3. store' \in [Parties -> Record] /\ Row' # <<>>
  BY <1>1, <1>2 DEF IInv, Typed, RecordsTyped, Row
<1>4. CASE job[t].kind = "decrypt"
  <2>1. /\ pc' = [pc EXCEPT ![t] = "remove"]
        /\ sent' = sent /\ job' = job /\ old' = old /\ new' = new
    BY <1>4 DEF Insert
  <2>2. RecordsTyped'
    BY <1>1, <1>3, <2>1 DEF IInv, Typed, RecordsTyped
  <2>3. JobsTyped'
    BY <2>1 DEF IInv, Typed, JobsTyped, Labels
  <2>4. \A s \in Tasks : pc'[s] = "insert" => pc[s] = "insert"
    BY <2>1 DEF IInv, Typed, JobsTyped
  <2>5. RowIsComing'
    BY <1>3, <2>1, <2>4 DEF IInv, RowIsComing
  <2> QED
    BY <2>2, <2>3, <2>5 DEF IInv, Typed
<1>5. CASE job[t].kind # "decrypt"
  <2>1. End(t) /\ sent' = sent \cup Sent(Me, job[t].m)
    BY <1>5 DEF Insert
  <2>2. job[t].m \in SUBSET Msg
    BY <1>5 DEF IInv, Typed, JobsTyped
  <2>3. \A m \in Sent(Me, job[t].m) : m.to \in Parties /\ m.msg \in Msg
    BY <1>2, <2>2, SentType
  <2>4. \A m \in sent' : m.to \in Parties /\ m.msg \in Msg
    BY <2>1, <2>3 DEF IInv, Typed, RecordsTyped
  <2>5. sent \subseteq sent' /\ torn \subseteq torn'
    BY <1>1, <2>1
  <2> QED
    BY <1>1, <1>3, <2>1, <2>4, <2>5, EndKeeps
<1> QED
  BY <1>4, <1>5

LEMMA LoadKeeps ==
  ASSUME IInv, NEW t \in Tasks, Load(t)
  PROVE  IInv'
<1>1. /\ pc[t] = "load"
      /\ pc' = [pc EXCEPT ![t] = "store"] /\ old' = [old EXCEPT ![t] = Row]
      /\ store' = store /\ fresh' = fresh /\ sent' = sent /\ job' = job
      /\ new' = new /\ torn' = torn
  BY DEF Load, vars, ghosts
<1>2. Row \in Record
  BY RatchetAssumption, TasksAssumption DEF IInv, Typed, RecordsTyped, Row
<1>3. RecordsTyped'
  BY <1>1, <1>2 DEF IInv, Typed, RecordsTyped
<1>4. JobsTyped'
  BY <1>1 DEF IInv, Typed, JobsTyped, Labels
<1>5. \A s \in Tasks : pc'[s] = "insert" <=> pc[s] = "insert"
  BY <1>1 DEF IInv, Typed, JobsTyped
<1>6. RowIsComing'
  BY <1>1, <1>5 DEF IInv, RowIsComing, Row
<1> QED
  BY <1>3, <1>4, <1>6 DEF IInv, Typed

LEMMA BeginKeeps ==
  ASSUME IInv, NEW t \in Tasks, NEW j \in Jobs, Begin(t, j)
  PROVE  IInv'
<1>1. /\ pc[t] = "idle"
      /\ \E l \in {"load", "store"} : pc' = [pc EXCEPT ![t] = l]
      /\ old' = [old EXCEPT ![t] = Row] \/ old' = old
      /\ job' = [job EXCEPT ![t] = j]
      /\ store' = store /\ fresh' = fresh /\ sent' = sent
      /\ new' = new /\ torn' = torn
  BY DEF Begin, vars
<1>2. Row \in Record
  BY RatchetAssumption, TasksAssumption DEF IInv, Typed, RecordsTyped, Row
<1>3. RecordsTyped'
  BY <1>1, <1>2 DEF IInv, Typed, RecordsTyped
<1>4. /\ j \in [kind : Kinds, m : SUBSET (sent \cup Msg)]
      /\ IF j.kind = "decrypt" THEN j.m \subseteq {m \in sent : m.to = Me}
                               ELSE j.m \subseteq Msg
  BY DEF Jobs, Job, Kinds
<1>5. pc' \in [Tasks -> Labels] /\ \A s \in Tasks : pc'[s] = "insert" <=> pc[s] = "insert"
  BY <1>1 DEF IInv, Typed, JobsTyped, Labels
<1>6. /\ job' \in [Tasks -> [kind : Kinds, m : SUBSET (sent \cup Msg)]]
      /\ \A s \in Tasks : job'[s] = IF s = t THEN j ELSE job[s]
  BY <1>1, <1>4 DEF IInv, Typed, JobsTyped
<1>7. JobsTyped'
  BY <1>1, <1>4, <1>5, <1>6 DEF IInv, Typed, JobsTyped
<1>8. RowIsComing'
  BY <1>1, <1>5 DEF IInv, RowIsComing, Row
<1> QED
  BY <1>3, <1>7, <1>8 DEF IInv, Typed

(* The peer works on its own record, and the messages under way stay. *)
LEMMA PeerKeeps ==
  ASSUME IInv, PeerWorks(Peer(Me))
  PROVE  IInv'
<1> DEFINE q == Peer(Me)
<1>1. q \in Parties /\ Me \in Parties \ {q} /\ RecordsTyped
  BY PeerIsOther, RatchetAssumption, TasksAssumption DEF IInv, Typed
<1> HIDE DEF q
<1>2. /\ pc' = pc /\ job' = job /\ old' = old /\ new' = new /\ torn' = torn
      /\ Establish(q) \/ Encrypt(q)
            \/ \E m \in sent : m.to = q /\ Decrypt(m)
  BY DEF PeerWorks, ghosts, q
<1>3. /\ store' \in [Parties -> Record] /\ fresh' \in [Parties -> Nat]
      /\ Row' = Row /\ fresh'[Me] = fresh[Me]
      /\ sent \subseteq sent'
      /\ \A m \in sent' : m.to \in Parties /\ m.msg \in Msg
  <2>1. CASE Establish(q)
    BY <1>1, <2>1, EstablishType DEF RecordsTyped, Row
  <2>2. CASE Encrypt(q)
    BY <1>1, <2>2, EncryptType DEF RecordsTyped, Row
  <2>3. CASE \E m \in sent : m.to = q /\ Decrypt(m)
    BY <1>1, <2>3, DecryptType DEF RecordsTyped, Row
  <2> QED
    BY <1>2, <2>1, <2>2, <2>3
<1>4. RecordsTyped'
  BY <1>2, <1>3 DEF IInv, Typed, RecordsTyped
<1>5. job \in [Tasks -> [kind : Kinds, m : SUBSET (sent' \cup Msg)]]
  BY <1>3 DEF IInv, Typed, JobsTyped
<1>6. JobsTyped'
  BY <1>2, <1>3, <1>5 DEF IInv, Typed, JobsTyped
<1>7. RowIsComing'
  BY <1>2, <1>3 DEF IInv, RowIsComing
<1> QED
  BY <1>4, <1>6, <1>7 DEF IInv, Typed
-----------------------------------------------------------------------------
(* Records keep their shape, every task works on what was sent to its      *)
(* party, and a missing row is one that a task is about to insert, in      *)
(* every behaviour of SessionTasks.                                        *)
THEOREM Invariance == TasksSpec => []IInv
<1>1. TasksInit => IInv
  <2> SUFFICES ASSUME TasksInit PROVE IInv
    OBVIOUS
  <2>1. <<>> \in Record
    BY SessionAssumption DEF Record
  <2>2. /\ store = [p \in Parties |-> <<>>] /\ fresh = [p \in Parties |-> 0]
        /\ sent = {}
    BY DEF TasksInit, Init
  <2>3. RecordsTyped
    BY <2>1, <2>2 DEF RecordsTyped, TasksInit
  <2>4. NoJob \in [kind : Kinds, m : SUBSET (sent \cup Msg)]
    BY DEF NoJob, Job, Kinds
  <2>5. JobsTyped
    BY <2>4 DEF JobsTyped, TasksInit, Labels, NoJob, Job
  <2>6. RowIsComing
    BY <2>2, RatchetAssumption, TasksAssumption DEF RowIsComing, TasksInit
  <2> QED
    BY <2>3, <2>5, <2>6 DEF IInv, Typed
<1>2. IInv /\ [TasksNext]_taskVars => IInv'
  <2> SUFFICES ASSUME IInv, [TasksNext]_taskVars PROVE IInv'
    OBVIOUS
  <2>1. ASSUME NEW t \in Tasks, TaskStep(t) PROVE IInv'
    BY <2>1, LoadKeeps, StoreEstablishedKeeps, StoreEncryptedKeeps,
       StoreDecryptedKeeps, FailsKeep, InsertKeeps, RemovePreKeyKeeps
       DEF TaskStep
  <2>2. ASSUME NEW t \in Tasks, NEW j \in Jobs, Begin(t, j) PROVE IInv'
    BY <2>2, BeginKeeps
  <2>3. CASE PeerWorks(Peer(Me))
    BY <2>3, PeerKeeps
  <2>4. CASE UNCHANGED taskVars
    BY <2>4 DEF IInv, Typed, RecordsTyped, JobsTyped, RowIsComing, Row,
                taskVars, vars, ghosts
  <2> QED
    BY <2>1, <2>2, <2>3, <2>4 DEF TasksNext
<1> QED
  BY <1>1, <1>2, PTL DEF TasksSpec

(* The row of a session is never lost, although every store deletes it     *)
(* before it inserts it (store_session), any number of stores overlap, and *)
(* any of them may fail.                                                   *)
THEOREM RowKeptAlways == TasksSpec => []RowKept
<1>1. IInv => RowKept
  BY DEF IInv, RowIsComing, RowKept
<1> QED
  BY <1>1, Invariance, PTL

(* No record grows past ARCHIVED_STATES_MAX_LENGTH archived states, no     *)
(* state past MAX_RECEIVER_CHAINS chains, whatever tasks work on a record  *)
(* they loaded at different times.                                         *)
THEOREM LimitsAlways == TasksSpec => []Limits
<1>1. ASSUME IInv, NEW p \in Parties PROVE store[p] \in Record
  BY <1>1 DEF IInv, Typed, RecordsTyped
<1>2. ASSUME NEW r \in Record, NEW i \in DOMAIN r PROVE Len(r[i].chains) <= MaxChains
  <2>1. r[i] \in State
    BY DEF Record
  <2> QED
    BY <2>1 DEF State
<1>3. IInv => Limits
  BY <1>1, <1>2 DEF Limits, Record
<1> QED
  BY <1>3, Invariance, PTL
-----------------------------------------------------------------------------
(* What follows is about AloneIsAtomic.  A party only uses ratchet keys    *)
(* and base keys it made itself, so what a task has not committed yet      *)
(* never meets what its peer does meanwhile.                               *)

(* What a party made itself: the ratchet keys it sends with, and the base  *)
(* keys of the sessions it started.                                        *)
OwnState(p) ==
    {st \in State : st.eph[1] = p /\ \A b \in st.pending : b.base[1] = p}
OwnRecord(p) == {r \in Record : \A i \in DOMAIN r : r[i] \in OwnState(p)}
OwnMsg(p) == {m \in Msg : m.eph[1] = p /\ \A b \in m.pre : b.base[1] = p}

(* A party makes nothing but what is its own, whatever it receives. *)
LEMMA AliceStateOwn ==
  ASSUME NEW p \in Parties, NEW k \in Nat, NEW n \in Nat,
         NEW once \in BOOLEAN, NEW spk \in KeyPair
  PROVE  AliceState(<<p, k>>, once, spk, <<p, n>>) \in OwnState(p)
<1>1. <<p, k>> \in KeyPair /\ <<p, n>> \in KeyPair
  BY DEF KeyPair
<1>2. AliceState(<<p, k>>, once, spk, <<p, n>>) \in State
  BY <1>1, AliceStateType
<1>3. /\ AliceState(<<p, k>>, once, spk, <<p, n>>).eph = <<p, n>>
      /\ AliceState(<<p, k>>, once, spk, <<p, n>>).pending
           = {[base |-> <<p, k>>, once |-> once]}
  BY DEF AliceState
<1> HIDE DEF KeyPair
<1> QED
  BY <1>2, <1>3 DEF OwnState

LEMMA PromoteOwn ==
  ASSUME NEW p, NEW st \in OwnState(p), NEW others \in Seq(State),
         \A i \in DOMAIN others : others[i] \in OwnState(p)
  PROVE  Promote(st, others) \in OwnRecord(p)
<1> DEFINE n == IF Len(others) > MaxArchived THEN MaxArchived ELSE Len(others)
           r == SubSeq(others, 1, n)
<1>1. n \in 0..Len(others)
  BY SessionAssumption
<1> HIDE DEF n
<1>2. /\ r \in Seq(State) /\ Len(r) = n
      /\ \A i \in 1..n : r[i] = others[i] /\ i \in DOMAIN others
  BY <1>1
<1> HIDE DEF r
<1>3. \A i \in DOMAIN (<<st>> \o r) :
         (<<st>> \o r)[i] = st \/ \E j \in 1..n : (<<st>> \o r)[i] = r[j]
  <2>1. Len(<<st>> \o r) = 1 + n /\ st \in State
    BY <1>1, <1>2 DEF OwnState
  <2>2. ASSUME NEW i \in 1..(1 + n)
        PROVE  (<<st>> \o r)[i] = IF i = 1 THEN st ELSE r[i - 1]
    BY <1>1, <1>2, <2>1
  <2>3. ASSUME NEW i \in 1..(1 + n), i # 1 PROVE i - 1 \in 1..n
    BY <1>1, <2>3
  <2>4. DOMAIN (<<st>> \o r) = 1..(1 + n)
    BY <1>1, <1>2, <2>1
  <2> QED
    BY <2>2, <2>3, <2>4
<1>4. Promote(st, others) = <<st>> \o r
  BY DEF Promote, r, n
<1>5. Promote(st, others) \in Record
  BY PromoteType DEF OwnState
<1> QED
  BY <1>2, <1>3, <1>4, <1>5 DEF OwnRecord

LEMMA BuiltOwn ==
  ASSUME NEW p \in Parties, NEW r \in OwnRecord(p), NEW m \in Msg
  PROVE  Built(r, m, SignedPreKey(p)) \in OwnRecord(p)
<1>1. CASE Unknown(r, m) = {}
  BY <1>1 DEF Built
<1>2. CASE Unknown(r, m) # {}
  <2> DEFINE b == CHOOSE x \in Unknown(r, m) : TRUE
  <2>1. b \in Unknown(r, m)
    BY <1>2
  <2> HIDE DEF b
  <2>2. b.base \in KeyPair /\ SignedPreKey(p) \in KeyPair
    BY <2>1 DEF Unknown, Msg, Pending_, SignedPreKey, KeyPair
  <2>3. BobState(b.base, SignedPreKey(p)) \in State
    BY <2>2, BobStateType
  <2>4. /\ BobState(b.base, SignedPreKey(p)).eph = <<p, 0>>
        /\ BobState(b.base, SignedPreKey(p)).pending = {}
    BY DEF BobState, SignedPreKey
  <2>5. BobState(b.base, SignedPreKey(p)) \in OwnState(p)
    BY <2>3, <2>4 DEF OwnState
  <2>6. r \in Seq(State) /\ \A i \in DOMAIN r : r[i] \in OwnState(p)
    BY DEF OwnRecord, Record
  <2>7. Promote(BobState(b.base, SignedPreKey(p)), r) \in OwnRecord(p)
    BY <2>5, <2>6, PromoteOwn
  <2> QED
    BY <1>2, <2>7 DEF Built, b
<1> QED
  BY <1>1, <1>2

LEMMA OpenedOwn ==
  ASSUME NEW p \in Parties, NEW k \in Nat, NEW st \in OwnState(p), NEW m \in Msg
  PROVE  Opened(st, m, <<p, k>>).state \in OwnState(p)
<1>1. st \in State /\ st.eph[1] = p /\ <<p, k>> \in KeyPair /\ m.eph \in KeyPair
  BY DEF OwnState, KeyPair, Msg
<1>2. Opened(st, m, <<p, k>>).state \in State
  BY <1>1, OpenedType
<1> DEFINE r == Ratcheted(st, m.eph, <<p, k>>)
<1>3. r \in State
  BY <1>1, RatchetedType
<1>4. r.eph = st.eph \/ r.eph = <<p, k>>
  BY <1>1 DEF Ratcheted, State
<1> HIDE DEF r
<1>5. ASSUME NEW chains
      PROVE  /\ [r EXCEPT !.chains = chains, !.pending = {}].eph = r.eph
             /\ [r EXCEPT !.chains = chains, !.pending = {}].pending = {}
  BY <1>3 DEF State
<1>6. /\ Opened(st, m, <<p, k>>).state.eph = r.eph
      /\ Opened(st, m, <<p, k>>).state.pending = {}
  <2> DEFINE i == CHOOSE j \in ChainsOf(r, m.eph) : TRUE
             s == [r EXCEPT !.chains[i] = Take(@, m.n), !.pending = {}]
  <2>1. Opened(st, m, <<p, k>>).state = s
    BY DEF Opened, r
  <2>2. s.eph = r.eph /\ s.pending = {}
    BY <1>3, <1>5 DEF State
  <2> QED
    BY <2>1, <2>2
<1>7. Opened(st, m, <<p, k>>).state.eph[1] = p
  BY <1>1, <1>4, <1>6
<1> QED
  BY <1>2, <1>6, <1>7 DEF OwnState

LEMMA DecryptedOwn ==
  ASSUME NEW p \in Parties, NEW k \in Nat, NEW r \in OwnRecord(p), NEW m \in Msg
  PROVE  Decrypted(r, m, <<p, k>>).record \in OwnRecord(p)
<1> DEFINE eph == <<p, k>>
<1>1. CASE Readers(r, m, eph) = {}
  BY <1>1 DEF Decrypted
<1>2. CASE Readers(r, m, eph) # {}
  <2> DEFINE i == CHOOSE j \in Readers(r, m, eph) :
                    \A n \in Readers(r, m, eph) : j <= n
             o == Opened(r[i], m, eph)
             q == Promote(o.state, RemoveAt(r, i))
  <2>1. PICK j \in Readers(r, m, eph) : \A n \in Readers(r, m, eph) : j <= n
    <3>1. Readers(r, m, eph) \subseteq Nat
      BY DEF Readers, OwnRecord, Record
    <3> QED
      BY <1>2, <3>1, LeastNumber
  <2>2. i \in Readers(r, m, eph)
    BY <2>1
  <2> HIDE DEF i
  <2>3. /\ r \in Seq(State) /\ i \in 1..Len(r)
        /\ \A n \in 1..Len(r) : r[n] \in OwnState(p)
    BY <2>2 DEF Readers, OwnRecord, Record
  <2>4. o.state \in OwnState(p)
    BY <2>3, OpenedOwn
  <2> HIDE DEF o
  <2> DEFINE rest == RemoveAt(r, i)
  <2>5. /\ rest \in Seq(State)
        /\ \A n \in DOMAIN rest : \E l \in 1..Len(r) : rest[n] = r[l]
    <3>1. /\ SubSeq(r, 1, i - 1) \in Seq(State)
          /\ Len(SubSeq(r, 1, i - 1)) = i - 1
          /\ \A n \in 1..(i - 1) : SubSeq(r, 1, i - 1)[n] = r[n]
      BY <2>3
    <3>2. /\ SubSeq(r, i + 1, Len(r)) \in Seq(State)
          /\ Len(SubSeq(r, i + 1, Len(r))) = Len(r) - i
          /\ \A n \in 1..(Len(r) - i) : SubSeq(r, i + 1, Len(r))[n] = r[i + n]
      BY <2>3
    <3> DEFINE a == SubSeq(r, 1, i - 1)
               b == SubSeq(r, i + 1, Len(r))
    <3>3. /\ a \in Seq(State) /\ b \in Seq(State)
          /\ Len(a) = i - 1 /\ Len(b) = Len(r) - i
          /\ \A n \in 1..(i - 1) : a[n] = r[n]
          /\ \A n \in 1..(Len(r) - i) : b[n] = r[i + n]
      BY <3>1, <3>2
    <3>4. rest = a \o b
      BY DEF RemoveAt
    <3> HIDE DEF a, b, rest
    <3>5. a \o b \in Seq(State) /\ DOMAIN (a \o b) = 1..(Len(r) - 1)
      BY <2>3, <3>3
    <3>6. ASSUME NEW n \in 1..(Len(r) - 1)
          PROVE  (a \o b)[n] = IF n <= i - 1 THEN a[n] ELSE b[n - (i - 1)]
      BY <2>3, <3>3, <3>6
    <3>7. ASSUME NEW n \in 1..(Len(r) - 1)
          PROVE  \E l \in 1..Len(r) : (a \o b)[n] = r[l]
      <4>1. CASE n <= i - 1
        <5>1. n \in 1..(i - 1) /\ n \in 1..Len(r)
          BY <2>3, <4>1
        <5> QED
          BY <3>3, <3>6, <4>1, <5>1
      <4>2. CASE ~(n <= i - 1)
        <5>1. n - (i - 1) \in 1..(Len(r) - i) /\ i + (n - (i - 1)) \in 1..Len(r)
          BY <2>3, <4>2
        <5>2. (a \o b)[n] = b[n - (i - 1)]
          BY <3>6, <4>2
        <5>3. b[n - (i - 1)] = r[i + (n - (i - 1))]
          BY <3>3, <5>1
        <5> QED
          BY <5>1, <5>2, <5>3
      <4> QED
        BY <4>1, <4>2
    <3> QED
      BY <3>4, <3>5, <3>7
  <2>6. \A n \in DOMAIN rest : rest[n] \in OwnState(p)
    BY <2>3, <2>5
  <2> HIDE DEF rest
  <2>7. Promote(o.state, rest) \in OwnRecord(p)
    BY <2>4, <2>5, <2>6, PromoteOwn
  <2>8. Decrypted(r, m, eph).record = IF o.verdict = "duplicate" THEN r ELSE q
    BY <1>2 DEF Decrypted, i, o, q
  <2>9. q = Promote(o.state, rest)
    BY DEF q, rest
  <2> HIDE DEF q
  <2> QED
    BY <2>7, <2>8, <2>9
<1> QED
  BY <1>1, <1>2

LEMMA EncryptedOwn ==
  ASSUME NEW p, NEW r \in OwnRecord(p), r # <<>>
  PROVE  /\ Encrypted(r) \in OwnRecord(p)
         /\ Message(r[1]) \in OwnMsg(p)
         /\ Bases(Encrypted(r)) = Bases(r)
<1>1. 1 \in DOMAIN r /\ r \in Record /\ r \in Seq(State) /\ r[1] \in OwnState(p)
  BY DEF OwnRecord, Record
<1> DEFINE st == [r[1] EXCEPT !.n = @ + 1]
<1>2. /\ st.eph = r[1].eph /\ st.pending = r[1].pending /\ st.base = r[1].base
      /\ st \in State
  <2>1. r[1] \in State
    BY <1>1 DEF OwnState
  <2> QED
    BY <2>1 DEF State
<1> HIDE DEF st
<1>3. Encrypted(r) = [r EXCEPT ![1] = st]
  BY DEF Encrypted, st
<1>4. /\ DOMAIN Encrypted(r) = DOMAIN r
      /\ Encrypted(r)[1] = st
      /\ \A i \in DOMAIN r \ {1} : Encrypted(r)[i] = r[i]
  BY <1>1, <1>3
<1>5. Encrypted(r) \in Record
  BY <1>1, EncryptedType
<1>6. st \in OwnState(p)
  BY <1>1, <1>2 DEF OwnState
<1>7. Encrypted(r) \in OwnRecord(p)
  BY <1>4, <1>5, <1>6 DEF OwnRecord
<1>8. Message(r[1]) \in Msg
  BY <1>1, MessageType DEF OwnState
<1>9. Message(r[1]) \in OwnMsg(p)
  BY <1>1, <1>8 DEF OwnMsg, OwnState, Message
<1>10. ASSUME NEW x \in Record
       PROVE  Bases(x) = {x[i].base : i \in DOMAIN x}
  BY DEF Bases, ToSet
<1>11. \A i \in DOMAIN r : Encrypted(r)[i].base = r[i].base
  BY <1>2, <1>4
<1>12. {Encrypted(r)[i].base : i \in DOMAIN Encrypted(r)} = {r[i].base : i \in DOMAIN r}
  BY <1>4, <1>11
<1> QED
  BY <1>1, <1>5, <1>7, <1>9, <1>10, <1>12

(* What the instance Ratchet of a peer counts, and who is whose peer. *)
LEMMA SameCardinality == \A S : Cardinality(S) = Cardinality(S)
BY DEF Cardinality

LEMMA PeerOfPeer ==
  ASSUME NEW p \in Parties
  PROVE  Peer(Peer(p)) = p
<1> DEFINE q == Peer(p)
<1>1. q \in Parties /\ q # p /\ Peer(q) \in Parties /\ Peer(q) # q
  BY PeerIsOther
<1> HIDE DEF q
<1>2. IsFiniteSet({p}) /\ Cardinality({p}) = 1
  BY FS_Singleton
<1>3. IsFiniteSet({p} \cup {q}) /\ Cardinality({p} \cup {q}) = 2
  BY <1>1, <1>2, FS_AddElement
<1>4. {p} \cup {q} \in SUBSET Parties
  BY <1>1
<1>5. Parties = {p} \cup {q}
  BY <1>3, <1>4, FS_Subset, RatchetAssumption, TasksAssumption
<1>6. Peer(q) = p
  BY <1>1, <1>5
<1> QED
  BY <1>6 DEF q

Encrypting == {t \in Tasks : job[t].kind = "encrypt"}
Busy       == {t \in Tasks : pc[t] # "idle"}
SameMsg(m) == {y \in sent : y.msg = m}
Alone      == ~overlapped /\ torn = {}

(* Each party has the states, and has sent the messages, it made itself. *)
Owned ==
    /\ \A p \in Parties : store[p] \in OwnRecord(p)
    /\ \A t \in Tasks : old[t] \in OwnRecord(Me) /\ new[t] \in OwnRecord(Me)
    /\ \A x \in sent : x.msg \in OwnMsg(Peer(x.to))
    /\ \A t \in Encrypting : job[t].m \subseteq OwnMsg(Me)

JobsShaped ==
    \A t \in Tasks :
        /\ pc[t] = "idle" => job[t] = NoJob
        /\ job[t].kind = "decrypt" => \E x \in job[t].m : job[t].m = {x}
        /\ job[t].kind = "encrypt" =>
              job[t].m = {} \/ \E x \in job[t].m : job[t].m = {x}
        /\ job[t].kind \notin {"decrypt", "encrypt"} => job[t].m = {}
        /\ pc[t] = "remove" => job[t].kind = "decrypt"

(* Copies of a message are numbered, so each is new. *)
Numbered ==
    /\ IsFiniteSet(sent)
    /\ \A x \in sent : x.copy \in Nat /\ x.copy < Cardinality(SameMsg(x.msg))

(* While operations do not overlap, a task works on the row as it is. *)
OneAtATime ==
    Alone =>
        /\ \A s, t \in Busy : s = t
        /\ \A t \in Tasks : /\ pc[t] = "store" => old[t] = Row
                            /\ pc[t] = "insert" => Row = <<>>
        /\ InBound

(* With IInv, inductive. *)
AInv == Owned /\ JobsShaped /\ Numbered /\ OneAtATime

LEMMA SentOwn ==
  ASSUME NEW p \in Parties, NEW ms \in SUBSET OwnMsg(p), NEW x \in Sent(p, ms)
  PROVE  x.to = Peer(p) /\ x.msg \in ms /\ x.msg \in OwnMsg(Peer(x.to))
<1> DEFINE Copy(m) == Cardinality({y \in sent : y.msg = m})
<1>1. Sent(p, ms) = {[to |-> Peer(p), msg |-> m, copy |-> Copy(m)] : m \in ms}
  BY DEF Sent
<1> HIDE DEF Copy
<1>2. PICK m \in ms : x = [to |-> Peer(p), msg |-> m, copy |-> Copy(m)]
  BY <1>1
<1>3. x.to = Peer(p) /\ x.msg = m
  BY <1>2
<1> QED
  BY <1>3, PeerOfPeer

(* A message that is sent is a new one. *)
LEMMA SentOne ==
  ASSUME Numbered, NEW p, NEW m
  PROVE  \E x : /\ Sent(p, {m}) = {x} /\ x \notin sent
                /\ x.to = Peer(p) /\ x.msg = m
                /\ x.copy = Cardinality(SameMsg(m))
<1> DEFINE x == [to |-> Peer(p), msg |-> m, copy |-> Cardinality(SameMsg(m))]
<1>1. Sent(p, {m}) = {x}
  BY SameCardinality DEF Sent, SameMsg
<1>2. x.to = Peer(p) /\ x.msg = m /\ x.copy = Cardinality(SameMsg(m))
  OBVIOUS
<1> HIDE DEF x
<1>3. IsFiniteSet(SameMsg(m)) /\ Cardinality(SameMsg(m)) \in Nat
  BY FS_Subset, FS_CardinalityType DEF Numbered, SameMsg
<1>4. x \notin sent
  BY <1>2, <1>3 DEF Numbered
<1> QED
  BY <1>1, <1>2, <1>4

LEMMA NumberedKept ==
  ASSUME Numbered, NEW p, NEW m, sent' = sent \cup Sent(p, {m})
  PROVE  Numbered' /\ Cardinality(sent') = Cardinality(sent) + 1
<1>1. PICK x : /\ Sent(p, {m}) = {x} /\ x \notin sent
               /\ x.msg = m /\ x.copy = Cardinality(SameMsg(m))
  BY SentOne
<1>2. sent' = sent \cup {x} /\ IsFiniteSet(sent)
  BY <1>1 DEF Numbered
<1>3. IsFiniteSet(sent') /\ Cardinality(sent') = Cardinality(sent) + 1
  <2>1. /\ IsFiniteSet(sent \cup {x})
        /\ Cardinality(sent \cup {x}) = Cardinality(sent) + 1
    BY <1>1, <1>2, FS_AddElement
  <2> QED
    BY <1>2, <2>1
<1>4. ASSUME NEW k
      PROVE  /\ IsFiniteSet(SameMsg(k)) /\ Cardinality(SameMsg(k)) \in Nat
             /\ SameMsg(k)' = IF k = m THEN SameMsg(k) \cup {x} ELSE SameMsg(k)
  BY <1>1, <1>2, FS_Subset, FS_CardinalityType DEF SameMsg
<1>5. x \notin SameMsg(m)
  BY <1>1 DEF SameMsg
<1>6. ASSUME NEW k
      PROVE  Cardinality(SameMsg(k)') =
                IF k = m THEN Cardinality(SameMsg(k)) + 1 ELSE Cardinality(SameMsg(k))
  BY <1>4, <1>5, FS_AddElement
<1>7. ASSUME NEW y \in sent'
      PROVE  y.copy \in Nat /\ y.copy < Cardinality(SameMsg(y.msg)')
  <2>1. CASE y = x
    <3>1. Cardinality(SameMsg(m)) \in Nat
      BY <1>4
    <3>2. Cardinality(SameMsg(m)') = Cardinality(SameMsg(m)) + 1
      BY <1>6
    <3> QED
      BY <1>1, <2>1, <3>1, <3>2
  <2>2. CASE y \in sent
    <3>1. y.copy \in Nat /\ y.copy < Cardinality(SameMsg(y.msg))
      BY <2>2 DEF Numbered
    <3>2. Cardinality(SameMsg(y.msg)) \in Nat
      BY <1>4
    <3>3. \/ Cardinality(SameMsg(y.msg)') = Cardinality(SameMsg(y.msg)) + 1
          \/ Cardinality(SameMsg(y.msg)') = Cardinality(SameMsg(y.msg))
      BY <1>6
    <3> QED
      BY <3>1, <3>2, <3>3
  <2> QED
    BY <1>2, <2>1, <2>2
<1>8. \A y : SameMsg(y.msg)' = {z \in sent' : z.msg = y.msg}
  BY DEF SameMsg
<1>9. Numbered'
  BY <1>3, <1>7 DEF Numbered, SameMsg
<1> QED
  BY <1>3, <1>9

LEMMA NumberedSame ==
  ASSUME Numbered, sent' = sent PROVE Numbered'
BY DEF Numbered, SameMsg
-----------------------------------------------------------------------------
(* What an operation that ends leaves behind. *)
LEMMA EndFacts ==
  ASSUME Typed, NEW t \in Tasks, End(t)
  PROVE  /\ pc'[t] = "idle" /\ job'[t] = NoJob /\ old'[t] = <<>> /\ new'[t] = <<>>
         /\ \A s \in Tasks \ {t} : /\ pc'[s] = pc[s] /\ job'[s] = job[s]
                                   /\ old'[s] = old[s] /\ new'[s] = new[s]
BY DEF Typed, RecordsTyped, JobsTyped, End

LEMMA EndAlone ==
  ASSUME Typed, AInv, NEW t \in Tasks, End(t), pc[t] # "idle",
         \A p \in Parties : store'[p] \in OwnRecord(p),
         \A x \in sent' : x.msg \in OwnMsg(Peer(x.to)),
         Numbered',
         Alone' => Alone,
         \/ sent' = sent
         \/ job[t].kind = "encrypt" /\ Cardinality(sent') = Cardinality(sent) + 1
  PROVE  AInv'
<1>1. /\ pc'[t] = "idle" /\ job'[t] = NoJob /\ old'[t] = <<>> /\ new'[t] = <<>>
      /\ \A s \in Tasks \ {t} : /\ pc'[s] = pc[s] /\ job'[s] = job[s]
                                /\ old'[s] = old[s] /\ new'[s] = new[s]
  BY EndFacts
<1>2. <<>> \in OwnRecord(Me)
  BY SessionAssumption DEF OwnRecord, Record
<1>3. NoJob.kind = "none" /\ NoJob.m = {}
  BY DEF NoJob, Job
<1>4. \A s \in Tasks : old'[s] \in OwnRecord(Me) /\ new'[s] \in OwnRecord(Me)
  BY <1>1, <1>2 DEF AInv, Owned
<1>5. \A s \in Encrypting' : s # t /\ s \in Encrypting /\ job'[s] = job[s]
  BY <1>1, <1>3 DEF Encrypting
<1>6. Owned'
  BY <1>4, <1>5 DEF AInv, Owned
<1>7. JobsShaped'
  <2> SUFFICES ASSUME NEW s \in Tasks
               PROVE  /\ pc'[s] = "idle" => job'[s] = NoJob
                      /\ job'[s].kind = "decrypt" => \E x \in job'[s].m : job'[s].m = {x}
                      /\ job'[s].kind = "encrypt" =>
                            job'[s].m = {} \/ \E x \in job'[s].m : job'[s].m = {x}
                      /\ job'[s].kind \notin {"decrypt", "encrypt"} => job'[s].m = {}
                      /\ pc'[s] = "remove" => job'[s].kind = "decrypt"
    BY DEF JobsShaped, NoJob
  <2>1. CASE s = t
    BY <1>1, <1>3, <2>1
  <2>2. CASE s # t
    BY <1>1, <2>2 DEF AInv, JobsShaped
  <2> QED
    BY <2>1, <2>2
<1>8. ASSUME Alone'
      PROVE  /\ Busy' = {}
             /\ InBound'
  <2>1. /\ \A s \in Tasks \ {t} : pc[s] = "idle"
        /\ InBound
    BY <1>8 DEF AInv, OneAtATime, Busy
  <2>2. Busy' = {}
    BY <1>1, <2>1 DEF Busy
  <2>3. Encrypting' = {}
    BY <1>1, <1>3, <2>1 DEF Encrypting, AInv, JobsShaped
  <2>4. Encrypting = IF job[t].kind = "encrypt" THEN {t} ELSE {}
    BY <1>3, <2>1 DEF Encrypting, AInv, JobsShaped
  <2>5. /\ Cardinality({}) = 0 /\ Cardinality({t}) = 1
        /\ Cardinality(sent) \in Nat /\ MaxSent \in Nat
    BY FS_EmptySet, FS_Singleton, FS_CardinalityType, RatchetAssumption, TasksAssumption DEF AInv, Numbered
  <2>6. Cardinality(sent) + Cardinality(Encrypting) <= MaxSent
    BY <2>1 DEF InBound, Encrypting
  <2>7. Cardinality(sent') <= MaxSent /\ Cardinality(sent') \in Nat
    BY <2>4, <2>5, <2>6
  <2>8. Cardinality(sent') + Cardinality(Encrypting') <= MaxSent
    BY <2>3, <2>5, <2>7
  <2> QED
    BY <2>2, <2>8 DEF InBound, Encrypting
<1>9. OneAtATime'
  BY <1>8 DEF OneAtATime, Busy
<1> QED
  BY <1>6, <1>7, <1>9 DEF AInv

(* Every action keeps AInv. *)
LEMMA EndsKeepAlone ==
  ASSUME IInv, AInv, NEW t \in Tasks,
         EncryptFails(t) \/ DecryptFails(t) \/ InsertFails(t) \/ Cut(t) \/ RemovePreKey(t)
  PROVE  AInv'
<1>1. /\ End(t) /\ pc[t] # "idle" /\ store' = store /\ sent' = sent
      /\ overlapped' = overlapped /\ torn \subseteq torn'
  BY DEF EncryptFails, DecryptFails, InsertFails, Cut, RemovePreKey, vars, ghosts
<1>2. Alone' => Alone
  BY <1>1 DEF Alone
<1>3. Numbered'
  BY <1>1, NumberedSame DEF AInv
<1>4. /\ \A p \in Parties : store'[p] \in OwnRecord(p)
      /\ \A x \in sent' : x.msg \in OwnMsg(Peer(x.to))
  BY <1>1 DEF AInv, Owned
<1>5. Typed
  BY DEF IInv
<1> QED
  BY <1>1, <1>2, <1>3, <1>4, <1>5, EndAlone

LEMMA InsertKeepsAlone ==
  ASSUME IInv, AInv, NEW t \in Tasks, Insert(t)
  PROVE  AInv'
<1>1. /\ pc[t] = "insert" /\ store' = [store EXCEPT ![Me] = new[t]]
      /\ overlapped' = overlapped /\ torn' = torn
  BY DEF Insert, SetRow, ghosts
<1>2. Typed /\ Me \in Parties /\ store \in [Parties -> Record]
  BY RatchetAssumption, TasksAssumption DEF IInv, Typed, RecordsTyped
<1>3. \A p \in Parties : store'[p] \in OwnRecord(p)
  BY <1>1, <1>2 DEF AInv, Owned
<1>4. Alone' <=> Alone
  BY <1>1 DEF Alone
<1>5. CASE job[t].kind = "decrypt"
  <2>1. /\ pc' = [pc EXCEPT ![t] = "remove"]
        /\ sent' = sent /\ job' = job /\ old' = old /\ new' = new
    BY <1>5 DEF Insert
  <2>2. /\ pc'[t] = "remove" /\ \A s \in Tasks \ {t} : pc'[s] = pc[s]
    BY <1>2, <2>1 DEF Typed, JobsTyped
  <2>3. Numbered'
    BY <2>1, NumberedSame DEF AInv
  <2>4. Owned'
    BY <1>3, <2>1 DEF AInv, Owned, Encrypting
  <2>5. \A s \in Tasks : pc'[s] = "idle" => pc[s] = "idle"
    BY <2>2
  <2>6. JobsShaped'
    <3>1. \A s \in Tasks : pc'[s] = "remove" => job[s].kind = "decrypt"
      BY <1>5, <2>2 DEF AInv, JobsShaped
    <3> QED
      BY <2>1, <2>5, <3>1 DEF AInv, JobsShaped, NoJob
  <2>7. ASSUME Alone'
        PROVE  /\ \A s \in Tasks \ {t} : pc'[s] = "idle"
               /\ InBound'
    BY <1>1, <1>4, <2>1, <2>2, <2>7 DEF AInv, OneAtATime, Busy, InBound
  <2>8. OneAtATime'
    BY <2>2, <2>7 DEF OneAtATime, Busy
  <2> QED
    BY <2>3, <2>4, <2>6, <2>8 DEF AInv
<1>6. CASE job[t].kind # "decrypt"
  <2>1. End(t) /\ sent' = sent \cup Sent(Me, job[t].m)
    BY <1>6 DEF Insert
  <2>2. /\ Numbered'
        /\ \/ sent' = sent
           \/ job[t].kind = "encrypt" /\ Cardinality(sent') = Cardinality(sent) + 1
    <3>1. CASE job[t].m = {}
      <4>1. sent' = sent
        BY <2>1, <3>1 DEF Sent
      <4> QED
        BY <4>1, NumberedSame DEF AInv
    <3>2. CASE job[t].m # {}
      <4>1. job[t].kind = "encrypt" /\ \E x \in job[t].m : job[t].m = {x}
        BY <1>6, <3>2 DEF AInv, JobsShaped
      <4>2. PICK x : job[t].m = {x}
        BY <4>1
      <4> QED
        BY <2>1, <4>1, <4>2, NumberedKept DEF AInv
    <3> QED
      BY <3>1, <3>2
  <2>3. job[t].m \in SUBSET OwnMsg(Me)
    BY <1>6 DEF AInv, JobsShaped, Owned, Encrypting
  <2>4. \A x \in sent' : x.msg \in OwnMsg(Peer(x.to))
    BY <1>2, <2>1, <2>3, SentOwn DEF AInv, Owned
  <2> QED
    BY <1>1, <1>2, <1>3, <1>4, <2>1, <2>2, <2>4, EndAlone
<1> QED
  BY <1>5, <1>6

(* The work of a task is stored. *)
LEMMA DeleteRowKeepsAlone ==
  ASSUME IInv, AInv, NEW t \in Tasks, pc[t] = "store",
         NEW record \in OwnRecord(Me), DeleteRow(t, record),
         \/ job' = job
         \/ /\ job[t].kind = "encrypt"
            /\ \E x \in OwnMsg(Me) : job' = [job EXCEPT ![t].m = {x}]
  PROVE  AInv'
<1>1. /\ pc' = [pc EXCEPT ![t] = "insert"] /\ new' = [new EXCEPT ![t] = record]
      /\ store' = [store EXCEPT ![Me] = <<>>]
      /\ sent' = sent /\ old' = old /\ overlapped' = overlapped /\ torn' = torn
  BY DEF DeleteRow, SetRow, ghosts
<1>2. /\ Typed /\ Me \in Parties /\ store \in [Parties -> Record]
      /\ new \in [Tasks -> Record] /\ pc \in [Tasks -> Labels]
      /\ job \in [Tasks -> [kind : Kinds, m : SUBSET (sent \cup Msg)]]
  BY RatchetAssumption, TasksAssumption DEF IInv, Typed, RecordsTyped, JobsTyped
<1>3. /\ pc'[t] = "insert" /\ new'[t] = record
      /\ \A s \in Tasks \ {t} : pc'[s] = pc[s] /\ new'[s] = new[s]
      /\ store'[Me] = <<>> /\ \A p \in Parties \ {Me} : store'[p] = store[p]
  BY <1>1, <1>2
<1>4. /\ \A s \in Tasks : job'[s].kind = job[s].kind
      /\ \A s \in Tasks \ {t} : job'[s] = job[s]
      /\ job'[t] = job[t] \/ \E x \in OwnMsg(Me) : /\ job[t].kind = "encrypt"
                                                   /\ job'[t].m = {x}
  <2>1. CASE job' = job
    BY <2>1
  <2>2. CASE job' # job
    <3>1. PICK x \in OwnMsg(Me) : job' = [job EXCEPT ![t].m = {x}]
      BY <2>2
    <3>2. job[t].kind = "encrypt"
      BY <2>2
    <3>3. \A s \in Tasks \ {t} : job'[s] = job[s]
      BY <1>2, <3>1
    <3>4. job'[t] = [job[t] EXCEPT !.m = {x}] /\ job[t] \in [kind : Kinds, m : SUBSET (sent \cup Msg)]
      BY <1>2, <3>1
    <3>5. job'[t].kind = job[t].kind /\ job'[t].m = {x}
      BY <3>4
    <3> QED
      BY <3>2, <3>3, <3>5
  <2> QED
    BY <2>1, <2>2
<1>5. <<>> \in OwnRecord(Me)
  BY SessionAssumption DEF OwnRecord, Record
<1>6. Encrypting' = Encrypting
  BY <1>4 DEF Encrypting
<1>7. \A s \in Encrypting : job'[s].m \subseteq OwnMsg(Me)
  BY <1>4 DEF AInv, Owned, Encrypting
<1>8. Owned'
  BY <1>1, <1>3, <1>5, <1>6, <1>7 DEF AInv, Owned
<1>9. Numbered'
  BY <1>1, NumberedSame DEF AInv
<1>10. JobsShaped'
  <2> SUFFICES ASSUME NEW s \in Tasks
               PROVE  /\ pc'[s] = "idle" => job'[s] = NoJob
                      /\ job'[s].kind = "decrypt" => \E x \in job'[s].m : job'[s].m = {x}
                      /\ job'[s].kind = "encrypt" =>
                            job'[s].m = {} \/ \E x \in job'[s].m : job'[s].m = {x}
                      /\ job'[s].kind \notin {"decrypt", "encrypt"} => job'[s].m = {}
                      /\ pc'[s] = "remove" => job'[s].kind = "decrypt"
    BY DEF JobsShaped, NoJob
  <2>1. CASE job'[s] = job[s]
    BY <1>3, <2>1 DEF AInv, JobsShaped
  <2>2. CASE job'[s] # job[s]
    <3>1. s = t
      BY <1>4, <2>2
    <3>2. pc'[s] = "insert"
      BY <1>3, <3>1
    <3>3. PICK x \in OwnMsg(Me) : job'[s].m = {x} /\ job[s].kind = "encrypt"
      BY <1>4, <2>2, <3>1
    <3>4. job'[s].kind = "encrypt"
      BY <1>4, <3>3
    <3> QED
      BY <3>2, <3>3, <3>4
  <2> QED
    BY <2>1, <2>2
<1>11. ASSUME Alone'
       PROVE  /\ \A s \in Tasks \ {t} : pc'[s] = "idle"
              /\ InBound'
  <2>1. Alone /\ t \in Busy
    BY <1>1, <1>11 DEF Alone, Busy
  <2>2. \A s \in Tasks \ {t} : pc[s] = "idle"
    BY <2>1 DEF AInv, OneAtATime, Busy
  <2>3. InBound'
    BY <1>1, <1>6, <2>1 DEF AInv, OneAtATime, InBound, Encrypting
  <2> QED
    BY <1>3, <2>2, <2>3
<1>12. OneAtATime'
  BY <1>3, <1>11 DEF OneAtATime, Busy, Row
<1> QED
  BY <1>8, <1>9, <1>10, <1>12 DEF AInv

LEMMA LoadKeepsAlone ==
  ASSUME IInv, AInv, NEW t \in Tasks, Load(t)
  PROVE  AInv'
<1>1. /\ pc[t] = "load"
      /\ pc' = [pc EXCEPT ![t] = "store"] /\ old' = [old EXCEPT ![t] = Row]
      /\ store' = store /\ sent' = sent /\ job' = job /\ new' = new
      /\ overlapped' = overlapped /\ torn' = torn
  BY DEF Load, vars, ghosts
<1>2. pc \in [Tasks -> Labels] /\ old \in [Tasks -> Record] /\ Me \in Parties
  BY RatchetAssumption, TasksAssumption DEF IInv, Typed, RecordsTyped, JobsTyped
<1>3. /\ pc'[t] = "store" /\ old'[t] = Row
      /\ \A s \in Tasks \ {t} : pc'[s] = pc[s] /\ old'[s] = old[s]
  BY <1>1, <1>2
<1>4. Row \in OwnRecord(Me)
  BY <1>2 DEF AInv, Owned, Row
<1>5. Owned'
  BY <1>1, <1>3, <1>4 DEF AInv, Owned, Encrypting
<1>6. Numbered'
  BY <1>1, NumberedSame DEF AInv
<1>7. JobsShaped'
  BY <1>1, <1>3 DEF AInv, JobsShaped, NoJob
<1>8. ASSUME Alone'
      PROVE  /\ \A s \in Tasks \ {t} : pc'[s] = "idle"
             /\ InBound'
  BY <1>1, <1>3, <1>8 DEF AInv, OneAtATime, Busy, Alone, InBound
<1>9. Row' = Row
  BY <1>1 DEF Row
<1>10. OneAtATime'
  BY <1>3, <1>8, <1>9 DEF OneAtATime, Busy
<1> QED
  BY <1>5, <1>6, <1>7, <1>10 DEF AInv

LEMMA BeginKeepsAlone ==
  ASSUME IInv, AInv, NEW t \in Tasks, NEW j \in Jobs, Begin(t, j)
  PROVE  AInv'
<1>1. /\ pc[t] = "idle"
      /\ \/ pc' = [pc EXCEPT ![t] = "load"] /\ old' = old
         \/ pc' = [pc EXCEPT ![t] = "store"] /\ old' = [old EXCEPT ![t] = Row]
      /\ job' = [job EXCEPT ![t] = j]
      /\ store' = store /\ sent' = sent /\ new' = new /\ torn' = torn
      /\ overlapped' = (overlapped \/ \E s \in Tasks : pc[s] # "idle")
      /\ InBound'
  BY DEF Begin, vars
<1>2. /\ pc \in [Tasks -> Labels] /\ old \in [Tasks -> Record] /\ Me \in Parties
      /\ job \in [Tasks -> [kind : Kinds, m : SUBSET (sent \cup Msg)]]
  BY RatchetAssumption, TasksAssumption DEF IInv, Typed, RecordsTyped, JobsTyped
<1>3. /\ pc'[t] \in {"load", "store"} /\ job'[t] = j
      /\ old'[t] = Row \/ (old'[t] = old[t] /\ pc'[t] = "load")
      /\ \A s \in Tasks \ {t} : pc'[s] = pc[s] /\ old'[s] = old[s] /\ job'[s] = job[s]
  BY <1>1, <1>2
<1>4. /\ j.kind = "decrypt" => \E x \in j.m : j.m = {x}
      /\ j.kind # "decrypt" => j.m = {}
  BY DEF Jobs, Job
<1>5. Row \in OwnRecord(Me)
  BY <1>2 DEF AInv, Owned, Row
<1>6. Owned'
  <2>1. \A s \in Tasks : old'[s] \in OwnRecord(Me) /\ new'[s] \in OwnRecord(Me)
    BY <1>1, <1>3, <1>5 DEF AInv, Owned
  <2>2. \A s \in Encrypting' : job'[s].m \subseteq OwnMsg(Me)
    BY <1>3, <1>4 DEF AInv, Owned, Encrypting
  <2> QED
    BY <1>1, <2>1, <2>2 DEF AInv, Owned
<1>7. Numbered'
  BY <1>1, NumberedSame DEF AInv
<1>8. JobsShaped'
  <2> SUFFICES ASSUME NEW s \in Tasks
               PROVE  /\ pc'[s] = "idle" => job'[s] = NoJob
                      /\ job'[s].kind = "decrypt" => \E x \in job'[s].m : job'[s].m = {x}
                      /\ job'[s].kind = "encrypt" =>
                            job'[s].m = {} \/ \E x \in job'[s].m : job'[s].m = {x}
                      /\ job'[s].kind \notin {"decrypt", "encrypt"} => job'[s].m = {}
                      /\ pc'[s] = "remove" => job'[s].kind = "decrypt"
    BY DEF JobsShaped, NoJob
  <2>1. CASE s = t
    BY <1>3, <1>4, <2>1
  <2>2. CASE s # t
    BY <1>3, <2>2 DEF AInv, JobsShaped
  <2> QED
    BY <2>1, <2>2
<1>9. ASSUME Alone'
      PROVE  \A s \in Tasks \ {t} : pc'[s] = "idle"
  <2>1. \A s \in Tasks : pc[s] = "idle"
    BY <1>1, <1>9 DEF Alone
  <2> QED
    BY <1>3, <2>1
<1>10. Row' = Row
  BY <1>1 DEF Row
<1>11. OneAtATime'
  BY <1>1, <1>3, <1>9, <1>10 DEF OneAtATime, Busy
<1> QED
  BY <1>6, <1>7, <1>8, <1>11 DEF AInv

(* The record a party has after it started a session, or tried to read. *)
LEMMA EstablishedOwn ==
  ASSUME RecordsTyped, NEW p \in Parties, NEW once \in BOOLEAN,
         NEW r \in OwnRecord(p)
  PROVE  Promote(AliceState(Generated(p, 1), once, SignedPreKey(Peer(p)),
                            Generated(p, 2)), r) \in OwnRecord(p)
<1>1. Generated(p, 1) = <<p, fresh[p] + 1>> /\ Generated(p, 2) = <<p, fresh[p] + 2>>
  BY DEF Generated
<1>2. fresh[p] + 1 \in Nat /\ fresh[p] + 2 \in Nat /\ SignedPreKey(Peer(p)) \in KeyPair
  BY PeerIsOther DEF RecordsTyped, SignedPreKey, KeyPair
<1> DEFINE st == AliceState(Generated(p, 1), once, SignedPreKey(Peer(p)),
                            Generated(p, 2))
<1>3. st \in OwnState(p)
  BY <1>1, <1>2, AliceStateOwn
<1> HIDE DEF st
<1>4. r \in Seq(State) /\ \A i \in DOMAIN r : r[i] \in OwnState(p)
  BY DEF OwnRecord, Record
<1>5. Promote(st, r) \in OwnRecord(p)
  BY <1>3, <1>4, PromoteOwn
<1> QED
  BY <1>5 DEF st

LEMMA ReadOwn ==
  ASSUME RecordsTyped, NEW p \in Parties, NEW m \in Msg, NEW r \in OwnRecord(p)
  PROVE  Decrypted(Built(r, m, SignedPreKey(p)), m, Generated(p, 1)).record
            \in OwnRecord(p)
<1>1. Generated(p, 1) = <<p, fresh[p] + 1>> /\ fresh[p] + 1 \in Nat
  BY DEF RecordsTyped, Generated
<1>2. Built(r, m, SignedPreKey(p)) \in OwnRecord(p)
  BY BuiltOwn
<1> QED
  BY <1>1, <1>2, DecryptedOwn

LEMMA StoresKeepAlone ==
  ASSUME IInv, AInv, NEW t \in Tasks,
         StoreEstablished(t) \/ StoreEncrypted(t) \/ StoreDecrypted(t)
  PROVE  AInv'
<1>1. /\ RecordsTyped /\ Me \in Parties /\ old[t] \in OwnRecord(Me)
      /\ pc[t] = "store"
  BY RatchetAssumption, TasksAssumption DEF IInv, Typed, AInv, Owned, StoreEstablished,
                         StoreEncrypted, StoreDecrypted
<1>2. CASE StoreEstablished(t)
  <2>1. PICK once \in BOOLEAN :
           DeleteRow(t, Promote(AliceState(Generated(Me, 1), once,
                                           SignedPreKey(Peer(Me)),
                                           Generated(Me, 2)), old[t]))
    BY <1>2 DEF StoreEstablished
  <2>2. job' = job
    BY <1>2 DEF StoreEstablished
  <2> QED
    BY <1>1, <2>1, <2>2, EstablishedOwn, DeleteRowKeepsAlone
<1>3. CASE StoreEncrypted(t)
  <2>1. /\ old[t] # <<>> /\ DeleteRow(t, Encrypted(old[t])) /\ job[t].kind = "encrypt"
        /\ job' = [job EXCEPT ![t].m = {Message(old[t][1])}]
    BY <1>3 DEF StoreEncrypted
  <2>2. Encrypted(old[t]) \in OwnRecord(Me) /\ Message(old[t][1]) \in OwnMsg(Me)
    BY <1>1, <2>1, EncryptedOwn
  <2> QED
    BY <1>1, <2>1, <2>2, DeleteRowKeepsAlone
<1>4. CASE StoreDecrypted(t)
  <2>1. PICK m \in job[t].m :
           Outcome(t, m).verdict = "read" /\ DeleteRow(t, Outcome(t, m).record)
    BY <1>4 DEF StoreDecrypted
  <2>2. m.msg \in Msg /\ job' = job
    BY <1>4, <2>1 DEF IInv, Typed, RecordsTyped, JobsTyped, StoreDecrypted
  <2> DEFINE d == Decrypted(Built(old[t], m.msg, SignedPreKey(Me)), m.msg,
                            Generated(Me, 1))
  <2>3. Outcome(t, m) = d
    BY <2>1 DEF Outcome
  <2>4. d.record \in OwnRecord(Me)
    BY <1>1, <2>2, ReadOwn
  <2> HIDE DEF d
  <2> QED
    BY <1>1, <2>1, <2>2, <2>3, <2>4, DeleteRowKeepsAlone
<1> QED
  BY <1>2, <1>3, <1>4

LEMMA PeerKeepsAlone ==
  ASSUME IInv, AInv, PeerWorks(Peer(Me))
  PROVE  AInv'
<1> DEFINE q == Peer(Me)
<1>1. q \in Parties /\ Me \in Parties /\ Me # q /\ RecordsTyped
  BY PeerIsOther, RatchetAssumption, TasksAssumption DEF IInv, Typed
<1> HIDE DEF q
<1>2. /\ pc' = pc /\ job' = job /\ old' = old /\ new' = new
      /\ overlapped' = overlapped /\ torn' = torn /\ InBound'
      /\ Establish(q) \/ Encrypt(q)
            \/ \E m \in sent : m.to = q /\ Decrypt(m)
  BY DEF PeerWorks, ghosts, q
<1>3. store[q] \in OwnRecord(q)
  BY <1>1 DEF AInv, Owned
<1>4. /\ \E r \in OwnRecord(q) : store' = [store EXCEPT ![q] = r]
      /\ \/ sent' = sent
         \/ \E x \in OwnMsg(q) : sent' = sent \cup Sent(q, {x})
  <2>1. CASE Establish(q)
    <3>1. PICK once \in BOOLEAN :
             store' = [store EXCEPT ![q] =
                         Promote(AliceState(Generated(q, 1), once,
                                            SignedPreKey(Peer(q)),
                                            Generated(q, 2)), store[q])]
      BY <2>1 DEF Establish
    <3>2. sent' = sent
      BY <2>1 DEF Establish
    <3> QED
      BY <1>1, <1>3, <3>1, <3>2, EstablishedOwn
  <2>2. CASE Encrypt(q)
    <3>1. /\ store[q] # <<>>
          /\ sent' = sent \cup Sent(q, {Message(store[q][1])})
          /\ store' = [store EXCEPT ![q] = Encrypted(store[q])]
      BY <2>2 DEF Encrypt
    <3> QED
      BY <1>3, <3>1, EncryptedOwn
  <2>3. CASE \E m \in sent : m.to = q /\ Decrypt(m)
    <3>1. PICK m \in sent : m.to = q /\ Decrypt(m)
      BY <2>3
    <3> DEFINE d == Decrypted(Built(store[q], m.msg, SignedPreKey(q)), m.msg,
                              Generated(q, 1))
    <3>2. d.record \in OwnRecord(q)
      BY <1>1, <1>3, ReadOwn DEF RecordsTyped
    <3>3. Result(m) = d
      BY <3>1 DEF Result, Decrypt
    <3>4. store' = [store EXCEPT ![q] = Result(m).record] /\ sent' = sent
      BY <3>1 DEF Decrypt
    <3> HIDE DEF d
    <3> QED
      BY <3>2, <3>3, <3>4
  <2> QED
    BY <1>2, <2>1, <2>2, <2>3
<1>5. \A p \in Parties : store'[p] \in OwnRecord(p)
  BY <1>1, <1>4 DEF AInv, Owned, RecordsTyped
<1>6. Numbered' /\ \A x \in sent' : x.msg \in OwnMsg(Peer(x.to))
  <2>1. CASE sent' = sent
    BY <2>1, NumberedSame DEF AInv, Owned
  <2>2. CASE \E x \in OwnMsg(q) : sent' = sent \cup Sent(q, {x})
    <3>1. PICK x \in OwnMsg(q) : sent' = sent \cup Sent(q, {x})
      BY <2>2
    <3>2. Numbered'
      BY <3>1, NumberedKept DEF AInv
    <3>3. {x} \in SUBSET OwnMsg(q)
      OBVIOUS
    <3>4. \A y \in Sent(q, {x}) : y.msg \in OwnMsg(Peer(y.to))
      BY <1>1, <3>3, SentOwn
    <3> QED
      BY <3>1, <3>2, <3>4 DEF AInv, Owned
  <2> QED
    BY <1>4, <2>1, <2>2
<1>7. Owned'
  BY <1>2, <1>5, <1>6 DEF AInv, Owned, Encrypting
<1>8. JobsShaped'
  BY <1>2 DEF AInv, JobsShaped, NoJob
<1>9. Row' = Row
  BY <1>1, <1>4 DEF Row, RecordsTyped
<1>10. OneAtATime'
  BY <1>2, <1>9 DEF AInv, OneAtATime, Busy, Alone
<1> QED
  BY <1>6, <1>7, <1>8, <1>10 DEF AInv

(* In every behaviour each party owns what it uses, messages are numbered, *)
(* and a task that is alone works on the row as it is.                     *)
LEMMA AloneInvariance == TasksSpec => []AInv
<1>1. TasksInit => AInv
  <2> SUFFICES ASSUME TasksInit PROVE AInv
    OBVIOUS
  <2>1. /\ store = [p \in Parties |-> <<>>] /\ sent = {}
        /\ pc = [t \in Tasks |-> "idle"] /\ job = [t \in Tasks |-> NoJob]
        /\ old = [t \in Tasks |-> <<>>] /\ new = [t \in Tasks |-> <<>>]
    BY DEF TasksInit, Init
  <2>2. \A p : <<>> \in OwnRecord(p)
    BY SessionAssumption DEF OwnRecord, Record
  <2>3. NoJob.kind = "none" /\ NoJob.m = {}
    BY DEF NoJob, Job
  <2>4. Encrypting = {} /\ Busy = {}
    BY <2>1, <2>3 DEF Encrypting, Busy
  <2>5. Owned
    BY <2>1, <2>2, <2>4 DEF Owned
  <2>6. JobsShaped
    BY <2>1, <2>3 DEF JobsShaped
  <2>7. Numbered
    BY <2>1, FS_EmptySet DEF Numbered
  <2>8. Cardinality(sent) + Cardinality(Encrypting) <= MaxSent
    BY <2>1, <2>4, FS_EmptySet, RatchetAssumption, TasksAssumption
  <2>9. OneAtATime
    BY <2>1, <2>4, <2>8 DEF OneAtATime, InBound, Encrypting
  <2> QED
    BY <2>5, <2>6, <2>7, <2>9 DEF AInv
<1>2. IInv /\ AInv /\ [TasksNext]_taskVars => AInv'
  <2> SUFFICES ASSUME IInv, AInv, [TasksNext]_taskVars PROVE AInv'
    OBVIOUS
  <2>1. ASSUME NEW t \in Tasks, TaskStep(t) PROVE AInv'
    BY <2>1, LoadKeepsAlone, StoresKeepAlone, EndsKeepAlone, InsertKeepsAlone
       DEF TaskStep
  <2>2. ASSUME NEW t \in Tasks, NEW j \in Jobs, Begin(t, j) PROVE AInv'
    BY <2>2, BeginKeepsAlone
  <2>3. CASE PeerWorks(Peer(Me))
    BY <2>3, PeerKeepsAlone
  <2>4. CASE UNCHANGED taskVars
    <3>1. /\ store' = store /\ sent' = sent /\ pc' = pc /\ job' = job
          /\ old' = old /\ new' = new /\ overlapped' = overlapped /\ torn' = torn
      BY <2>4 DEF taskVars, vars, ghosts
    <3>2. Numbered'
      BY <3>1, NumberedSame DEF AInv
    <3>3. Owned' /\ JobsShaped' /\ OneAtATime'
      BY <3>1 DEF AInv, Owned, JobsShaped, OneAtATime, Encrypting, Busy, Alone,
                  Row, InBound, NoJob
    <3> QED
      BY <3>2, <3>3 DEF AInv
  <2> QED
    BY <2>1, <2>2, <2>3, <2>4 DEF TasksNext
<1> QED
  BY <1>1, <1>2, Invariance, PTL DEF TasksSpec
-----------------------------------------------------------------------------
(* The variables of the abstract specification. *)
aStore ==
    [store EXCEPT ![Me] =
        IF Storing = {} THEN @ ELSE new[CHOOSE t \in Storing : TRUE]]
aUsed == used \cup UNION {Needed(t) : t \in Pending}
aSent == sent \cup UNION {Sent(Me, job[t].m) : t \in Storing \ Pending}
aRead == read \cup UNION {job[t].m : t \in Pending}
aLost == lost \cup UNION {Gone(t) : t \in Storing}

(* The abstract specification computes with the same operators. *)
LEMMA SameAbstractly ==
  /\ \A p : A!SignedPreKey(p) = SignedPreKey(p) /\ A!Peer(p) = Peer(p)
  /\ \A b, once, spk, eph :
       A!AliceState(b, once, spk, eph) = AliceState(b, once, spk, eph)
  /\ \A st, others : A!Promote(st, others) = Promote(st, others)
  /\ \A st : A!Message(st) = Message(st)
  /\ \A r : A!Encrypted(r) = Encrypted(r) /\ A!Bases(r) = Bases(r)
  /\ \A r, m : A!NeedsPreKey(r, m) = NeedsPreKey(r, m)
  /\ \A r, m, spk : A!Built(r, m, spk) = Built(r, m, spk)
  /\ \A r, m, eph : A!Decrypted(r, m, eph) = Decrypted(r, m, eph)
  /\ \A S : A!Cardinality(S) = Cardinality(S)
<1>1. \A p : A!SignedPreKey(p) = SignedPreKey(p) /\ A!Peer(p) = Peer(p)
  BY DEF A!SignedPreKey, SignedPreKey, A!Peer, Peer
<1>2. \A b, once, spk, eph :
       A!AliceState(b, once, spk, eph) = AliceState(b, once, spk, eph)
  BY DEF A!AliceState, AliceState, A!NewChain, NewChain
<1>3. \A st, others : A!Promote(st, others) = Promote(st, others)
  BY DEF A!Promote, Promote
<1>4. \A st : A!Message(st) = Message(st)
  BY DEF A!Message, Message
<1>5. \A r : A!Encrypted(r) = Encrypted(r) /\ A!Bases(r) = Bases(r)
  BY DEF A!Encrypted, Encrypted, A!Bases, Bases, A!ToSet, ToSet
<1>6. \A r, m : A!NeedsPreKey(r, m) = NeedsPreKey(r, m)
  BY DEF A!NeedsPreKey, NeedsPreKey, A!Unknown, Unknown, A!HasSessionState, HasSessionState
<1>7. \A r, m, spk : A!Built(r, m, spk) = Built(r, m, spk)
  BY DEF A!Built, Built, A!Unknown, Unknown, A!HasSessionState, HasSessionState, A!BobState, BobState, A!Promote, Promote
<1>8. \A st, m, eph : A!Opened(st, m, eph) = Opened(st, m, eph)
  BY DEF A!Opened, Opened, A!Ratcheted, Ratcheted, A!ChainsOf, ChainsOf, A!AddReceiverChain, AddReceiverChain, A!NewChain, NewChain, A!Take, Take
<1>9. ASSUME NEW r, NEW m, NEW eph
      PROVE  A!Decrypted(r, m, eph) = Decrypted(r, m, eph)
  <2>1. A!Readers(r, m, eph) = Readers(r, m, eph)
    BY <1>8 DEF A!Readers, Readers
  <2> DEFINE S == Readers(r, m, eph)
             i == CHOOSE j \in S : \A k \in S : j <= k
             o == Opened(r[i], m, eph)
             p == Promote(o.state, RemoveAt(r, i))
  <2>2. A!Opened(r[i], m, eph) = o
    BY <1>8
  <2>3. A!RemoveAt(r, i) = RemoveAt(r, i)
    BY DEF A!RemoveAt, RemoveAt
  <2>4. A!Promote(o.state, RemoveAt(r, i)) = p
    BY <1>3
  <2> HIDE DEF S
  <2>5. A!Readers(r, m, eph) = S
    BY <2>1 DEF S
  <2>6. A!Decrypted(r, m, eph) =
          IF S = {} THEN [record |-> r, verdict |-> "invalid"]
          ELSE IF o.verdict = "duplicate"
               THEN [record |-> r, verdict |-> "duplicate"]
               ELSE [record |-> p, verdict |-> "read"]
    BY <2>2, <2>3, <2>4, <2>5 DEF A!Decrypted
  <2>7. Decrypted(r, m, eph) =
          IF S = {} THEN [record |-> r, verdict |-> "invalid"]
          ELSE IF o.verdict = "duplicate"
               THEN [record |-> r, verdict |-> "duplicate"]
               ELSE [record |-> p, verdict |-> "read"]
    BY DEF Decrypted, S
  <2> QED
    BY <2>6, <2>7
<1>10. \A S : A!Cardinality(S) = Cardinality(S)
  BY DEF A!Cardinality, Cardinality
<1> QED
  BY <1>1, <1>2, <1>3, <1>4, <1>5, <1>6, <1>7, <1>9, <1>10

(* What has to be shown of a step that takes effect. *)
LEMMA ToEstablish ==
  ASSUME NEW p, NEW once \in BOOLEAN,
         fresh[p] + 2 <= MaxKeys, fresh' = [fresh EXCEPT ![p] = @ + 2],
         aStore' = [aStore EXCEPT ![p] =
                       Promote(AliceState(Generated(p, 1), once,
                                          SignedPreKey(Peer(p)),
                                          Generated(p, 2)), @)],
         aLost' = aLost \cup ({p} \X (Bases(aStore[p]) \ Bases(aStore'[p]))),
         aUsed' = aUsed, aSent' = aSent, aRead' = aRead
  PROVE  A!Establish(p)
<1>1. \A k : A!Generated(p, k) = Generated(p, k)
  BY DEF A!Generated, Generated
<1>2. A!Archive(p)
  BY SameAbstractly DEF A!Archive, aStore, aLost
<1>3. aStore' = [aStore EXCEPT ![p] =
                   A!Promote(A!AliceState(A!Generated(p, 1), once,
                                          A!SignedPreKey(A!Peer(p)),
                                          A!Generated(p, 2)), @)]
  <2>1. A!SignedPreKey(A!Peer(p)) = SignedPreKey(Peer(p))
    BY SameAbstractly
  <2>2. A!AliceState(A!Generated(p, 1), once, A!SignedPreKey(A!Peer(p)),
                     A!Generated(p, 2))
          = AliceState(Generated(p, 1), once, SignedPreKey(Peer(p)),
                       Generated(p, 2))
    BY <1>1, <2>1, SameAbstractly
  <2>3. A!Promote(AliceState(Generated(p, 1), once, SignedPreKey(Peer(p)),
                             Generated(p, 2)), aStore[p])
          = Promote(AliceState(Generated(p, 1), once, SignedPreKey(Peer(p)),
                               Generated(p, 2)), aStore[p])
    BY SameAbstractly
  <2> QED
    BY <2>2, <2>3
<1>4. /\ \E b \in BOOLEAN :
            aStore' = [aStore EXCEPT ![p] =
                         A!Promote(A!AliceState(A!Generated(p, 1), b,
                                                A!SignedPreKey(A!Peer(p)),
                                                A!Generated(p, 2)), @)]
      /\ UNCHANGED <<aUsed, aSent, aRead>>
  BY <1>3
<1> QED
  BY <1>2, <1>4 DEF A!Establish, aStore, aUsed, aSent, aRead

LEMMA ToEncrypt ==
  ASSUME NEW p, NEW m, aStore[p] # <<>>, Cardinality(aSent) < MaxSent,
         m = Message(aStore[p][1]),
         aSent' = aSent \cup {[to |-> Peer(p), msg |-> m,
                               copy |-> Cardinality({x \in aSent : x.msg = m})]},
         aStore' = [aStore EXCEPT ![p] = Encrypted(@)],
         fresh' = fresh, aUsed' = aUsed, aRead' = aRead, aLost' = aLost
  PROVE  A!Encrypt(p)
<1>1. A!Sent(p, {m}) = {[to |-> Peer(p), msg |-> m,
                         copy |-> Cardinality({x \in aSent : x.msg = m})]}
  BY SameAbstractly DEF A!Sent, aSent
<1>2. aSent' = aSent \cup A!Sent(p, {A!Message(aStore[p][1])})
  BY <1>1, SameAbstractly
<1> QED
  BY <1>2, SameAbstractly DEF A!Encrypt, aStore, aUsed, aSent, aRead, aLost

LEMMA ToDecrypt ==
  ASSUME NEW m, NEW o,
         NeedsPreKey(aStore[m.to], m.msg) \cap aUsed = {},
         o = Decrypted(Built(aStore[m.to], m.msg, SignedPreKey(m.to)), m.msg,
                       Generated(m.to, 1)),
         o.verdict = "read",
         aStore' = [aStore EXCEPT ![m.to] = o.record],
         aUsed' = aUsed \cup NeedsPreKey(aStore[m.to], m.msg),
         fresh' = IF Head(aStore'[m.to]).eph = Generated(m.to, 1)
                  THEN [fresh EXCEPT ![m.to] = @ + 1] ELSE fresh,
         fresh'[m.to] <= MaxKeys,
         aRead' = aRead \cup {m},
         aLost' = aLost \cup ({m.to} \X (Bases(aStore[m.to]) \ Bases(aStore'[m.to]))),
         aSent' = aSent
  PROVE  A!Decrypt(m)
<1>1. \A k : A!Generated(m.to, k) = Generated(m.to, k)
  BY DEF A!Generated, Generated
<1>2. A!Archive(m.to)
  BY SameAbstractly DEF A!Archive, aStore, aLost
<1>3. A!Result(m) = o
  BY <1>1, SameAbstractly DEF A!Result, aStore, aUsed
<1> QED
  BY <1>1, <1>2, <1>3, SameAbstractly DEF A!Decrypt, aStore, aUsed, aSent, aRead

(* The abstract state while nothing is being stored, while a record is     *)
(* about to be inserted, and until a pre-key is removed.                   *)
QuietView ==
    /\ aStore = store /\ aUsed = used /\ aSent = sent
    /\ aRead = read /\ aLost = lost

StoringView(t) ==
    /\ aStore = [store EXCEPT ![Me] = new[t]] /\ aLost = lost \cup Gone(t)
    /\ IF job[t].kind = "decrypt"
       THEN /\ aUsed = used \cup Needed(t) /\ aRead = read \cup job[t].m
            /\ aSent = sent
       ELSE /\ aUsed = used /\ aRead = read
            /\ aSent = sent \cup Sent(Me, job[t].m)

RemovingView(t) ==
    /\ aStore = store /\ aLost = lost /\ aSent = sent
    /\ aUsed = used \cup Needed(t) /\ aRead = read \cup job[t].m

Viewed ==
  store \in [Parties -> Record] =>
     /\ (\A t \in Tasks : pc[t] \notin {"insert", "remove"}) => QuietView
     /\ \A t \in Tasks :
          (\A s \in Tasks \ {t} : pc[s] \notin {"insert", "remove"})
             => /\ pc[t] = "insert" => StoringView(t)
                /\ pc[t] = "remove" => RemovingView(t)

LEMMA Views == Viewed
<1> SUFFICES ASSUME store \in [Parties -> Record]
             PROVE  /\ (\A t \in Tasks : pc[t] \notin {"insert", "remove"}) => QuietView
                    /\ \A t \in Tasks :
                         (\A s \in Tasks \ {t} : pc[s] \notin {"insert", "remove"})
                            => /\ pc[t] = "insert" => StoringView(t)
                               /\ pc[t] = "remove" => RemovingView(t)
  BY DEF Viewed
<1>1. Storing = {} => aStore = store /\ aLost = lost
  BY RatchetAssumption, TasksAssumption DEF aStore, aLost
<1>2. Pending = {} => aUsed = used /\ aRead = read
  BY DEF aUsed, aRead
<1>3. Storing \ Pending = {} => aSent = sent
  BY DEF aSent
<1>4. ASSUME NEW t, Storing = {t}
      PROVE  aStore = [store EXCEPT ![Me] = new[t]] /\ aLost = lost \cup Gone(t)
  <2>1. (CHOOSE s \in Storing : TRUE) = t /\ Storing # {}
    BY <1>4
  <2>2. aStore = [store EXCEPT ![Me] = new[t]]
    BY <2>1 DEF aStore
  <2>3. aLost = lost \cup Gone(t)
    BY <1>4 DEF aLost
  <2> QED
    BY <2>2, <2>3
<1>5. ASSUME NEW t, Pending = {t}
      PROVE  aUsed = used \cup Needed(t) /\ aRead = read \cup job[t].m
  BY <1>5 DEF aUsed, aRead
<1>6. ASSUME NEW t, Storing \ Pending = {t}
      PROVE  aSent = sent \cup Sent(Me, job[t].m)
  BY <1>6 DEF aSent
<1>7. ASSUME \A t \in Tasks : pc[t] \notin {"insert", "remove"} PROVE QuietView
  <2>1. Storing = {} /\ Pending = {} /\ Storing \ Pending = {}
    BY <1>7 DEF Storing, Pending
  <2> QED
    BY <1>1, <1>2, <1>3, <2>1 DEF QuietView
<1>8. ASSUME NEW t \in Tasks,
             \A s \in Tasks \ {t} : pc[s] \notin {"insert", "remove"}
      PROVE  /\ pc[t] = "insert" => StoringView(t)
             /\ pc[t] = "remove" => RemovingView(t)
  <2>1. CASE pc[t] = "insert"
    <3>1. Storing = {t}
      BY <1>8, <2>1 DEF Storing
    <3>2. CASE job[t].kind = "decrypt"
      <4>1. Pending = {t} /\ Storing \ Pending = {}
        BY <1>8, <2>1, <3>1, <3>2 DEF Pending
      <4> QED
        BY <1>3, <1>4, <1>5, <2>1, <3>1, <3>2, <4>1 DEF StoringView
    <3>3. CASE job[t].kind # "decrypt"
      <4>1. Pending = {} /\ Storing \ Pending = {t}
        BY <1>8, <2>1, <3>1, <3>3 DEF Pending
      <4> QED
        BY <1>2, <1>4, <1>6, <2>1, <3>1, <3>3, <4>1 DEF StoringView
    <3> QED
      BY <3>2, <3>3
  <2>2. CASE pc[t] = "remove"
    <3>1. Storing = {} /\ Pending = {t} /\ Storing \ Pending = {}
      BY <1>8, <2>2 DEF Storing, Pending
    <3> QED
      BY <1>1, <1>3, <1>5, <2>2, <3>1 DEF RemovingView
  <2> QED
    BY <2>1, <2>2
<1> QED
  BY <1>7, <1>8

LEMMA ViewsNext == Viewed'
BY Views, PTL
-----------------------------------------------------------------------------
(* The variables of the abstract specification are those above. *)
LEMMA StutterAlone ==
  ASSUME aStore' = aStore, fresh' = fresh, aUsed' = aUsed, aSent' = aSent,
         aRead' = aRead, aLost' = aLost
  PROVE  UNCHANGED A!vars
BY DEF A!vars, aStore, aUsed, aSent, aRead, aLost

(* Steps before a task stores, and those that fail, change nothing. *)
LEMMA QuietStep ==
  ASSUME IInv, AInv, IInv', Alone', NEW t \in Tasks,
         \/ \E j \in Jobs : Begin(t, j)
         \/ Load(t) \/ EncryptFails(t) \/ DecryptFails(t) \/ Cut(t)
  PROVE  UNCHANGED A!vars
<1>1. /\ store' = store /\ fresh' = fresh /\ used' = used /\ sent' = sent
      /\ read' = read /\ lost' = lost
  BY DEF Begin, Load, EncryptFails, DecryptFails, Cut, vars, ghosts
<1>2. /\ pc \in [Tasks -> Labels] /\ store \in [Parties -> Record]
      /\ store' \in [Parties -> Record]
  BY DEF IInv, Typed, RecordsTyped, JobsTyped
<1>3. /\ Alone /\ pc[t] \in {"idle", "load", "store"}
      /\ pc[t] = "idle" => \A s \in Tasks : pc[s] = "idle"
  <2>1. CASE \E j \in Jobs : Begin(t, j)
    BY <2>1 DEF Begin, Alone
  <2>2. CASE Load(t) \/ EncryptFails(t) \/ DecryptFails(t)
    BY <2>2 DEF Load, EncryptFails, DecryptFails, ghosts, Alone
  <2>3. CASE Cut(t)
    BY <1>2, <2>3 DEF Cut, Alone, Labels
  <2> QED
    BY <2>1, <2>2, <2>3
<1>4. \A s \in Tasks \ {t} : pc[s] = "idle"
  BY <1>3 DEF AInv, OneAtATime, Busy
<1>5. /\ pc'[t] \in {"idle", "load", "store"}
      /\ \A s \in Tasks \ {t} : pc'[s] = pc[s]
  BY <1>2 DEF Begin, Load, EncryptFails, DecryptFails, Cut, End
<1>6. QuietView
  BY <1>2, <1>3, <1>4, Views DEF Viewed
<1>7. QuietView'
  BY <1>2, <1>4, <1>5, ViewsNext DEF Viewed
<1> QED
  BY <1>1, <1>6, <1>7, StutterAlone DEF QuietView

(* The second commit, and what follows, changes nothing any more. *)
LEMMA LateStep ==
  ASSUME IInv, AInv, IInv', Alone', NEW t \in Tasks,
         Insert(t) \/ InsertFails(t) \/ RemovePreKey(t)
  PROVE  UNCHANGED A!vars
<1>1. /\ Alone /\ pc[t] \in {"insert", "remove"} /\ fresh' = fresh
      /\ pc[t] = "insert" => Row = <<>>
  BY DEF Insert, InsertFails, RemovePreKey, vars, ghosts, Alone, AInv, OneAtATime
<1>2. \A s \in Tasks \ {t} : pc[s] = "idle"
  BY <1>1 DEF AInv, OneAtATime, Busy
<1>3. /\ pc \in [Tasks -> Labels] /\ store \in [Parties -> Record]
      /\ store' \in [Parties -> Record]
  BY DEF IInv, Typed, RecordsTyped, JobsTyped
<1>4. ~InsertFails(t)
  BY <1>1 DEF InsertFails, InsertRow
<1>5. CASE Insert(t) /\ job[t].kind = "decrypt"
  <2>1. /\ pc[t] = "insert" /\ pc' = [pc EXCEPT ![t] = "remove"]
        /\ store' = [store EXCEPT ![Me] = new[t]] /\ lost' = lost \cup Gone(t)
        /\ used' = used /\ read' = read
        /\ sent' = sent /\ job' = job /\ old' = old
    BY <1>5 DEF Insert, SetRow
  <2>2. pc'[t] = "remove" /\ \A s \in Tasks \ {t} : pc'[s] = "idle"
    BY <1>2, <1>3, <2>1
  <2>3. StoringView(t)
    BY <1>2, <1>3, <2>1, Views DEF Viewed
  <2>4. RemovingView(t)'
    BY <1>3, <2>2, ViewsNext DEF Viewed
  <2>5. Needed(t)' = Needed(t)
    BY <2>1 DEF Needed
  <2> QED
    BY <1>1, <1>5, <2>1, <2>3, <2>4, <2>5, StutterAlone DEF StoringView, RemovingView
<1>6. CASE Insert(t) /\ job[t].kind # "decrypt"
  <2>1. /\ pc[t] = "insert" /\ End(t)
        /\ store' = [store EXCEPT ![Me] = new[t]] /\ lost' = lost \cup Gone(t)
        /\ used' = used /\ read' = read
        /\ sent' = sent \cup Sent(Me, job[t].m)
    BY <1>6 DEF Insert, SetRow
  <2>2. \A s \in Tasks : pc'[s] = "idle"
    BY <1>2, <1>3, <2>1 DEF End
  <2>3. StoringView(t)
    BY <1>2, <1>3, <2>1, Views DEF Viewed
  <2>4. QuietView'
    BY <1>3, <2>2, ViewsNext DEF Viewed
  <2> QED
    BY <1>1, <1>6, <2>1, <2>3, <2>4, StutterAlone DEF StoringView, QuietView
<1>7. CASE RemovePreKey(t)
  <2>1. /\ pc[t] = "remove" /\ End(t)
        /\ used' = used \cup Needed(t) /\ read' = read \cup job[t].m
        /\ store' = store /\ sent' = sent /\ lost' = lost
    BY <1>7 DEF RemovePreKey
  <2>2. \A s \in Tasks : pc'[s] = "idle"
    BY <1>2, <1>3, <2>1 DEF End
  <2>3. RemovingView(t)
    BY <1>2, <1>3, <2>1, Views DEF Viewed
  <2>4. QuietView'
    BY <1>3, <2>2, ViewsNext DEF Viewed
  <2> QED
    BY <1>1, <2>1, <2>3, <2>4, StutterAlone DEF RemovingView, QuietView
<1> QED
  BY <1>4, <1>5, <1>6, <1>7

(* The first commit is the moment at which an operation takes effect. *)
LEMMA StoreSeen ==
  ASSUME IInv, AInv, IInv', Alone', NEW t \in Tasks, pc[t] = "store",
         NEW record, DeleteRow(t, record)
  PROVE  /\ QuietView /\ StoringView(t)' /\ old[t] = store[Me]
         /\ aStore' = [aStore EXCEPT ![Me] = record]
         /\ aLost' = aLost \cup ({Me} \X (Bases(aStore[Me]) \ Bases(aStore'[Me])))
<1>1. /\ pc' = [pc EXCEPT ![t] = "insert"] /\ new' = [new EXCEPT ![t] = record]
      /\ store' = [store EXCEPT ![Me] = <<>>] /\ lost' = lost /\ old' = old
      /\ overlapped' = overlapped /\ torn' = torn
  BY DEF DeleteRow, SetRow, ghosts
<1>2. /\ pc \in [Tasks -> Labels] /\ store \in [Parties -> Record]
      /\ store' \in [Parties -> Record] /\ new \in [Tasks -> Record]
      /\ Me \in Parties
  BY RatchetAssumption, TasksAssumption DEF IInv, Typed, RecordsTyped, JobsTyped
<1>3. Alone
  BY <1>1 DEF Alone
<1>4. (\A s \in Tasks \ {t} : pc[s] = "idle") /\ old[t] = store[Me]
  BY <1>3 DEF AInv, OneAtATime, Busy, Row
<1>5. QuietView
  BY <1>2, <1>4, Views DEF Viewed
<1>6. /\ pc'[t] = "insert" /\ new'[t] = record
      /\ \A s \in Tasks \ {t} : pc'[s] = "idle"
  BY <1>1, <1>2, <1>4
<1>7. StoringView(t)'
  BY <1>2, <1>6, ViewsNext DEF Viewed
<1>8. aStore' = [store EXCEPT ![Me] = record]
  BY <1>1, <1>2, <1>6, <1>7 DEF StoringView
<1>9. aStore'[Me] = record
  BY <1>2, <1>8
<1>10. Gone(t)' = {Me} \X (Bases(store[Me]) \ Bases(record))
  <2>1. Gone(t)' = {Me} \X (Bases(old'[t]) \ Bases(new'[t]))
    BY DEF Gone, Bases, ToSet
  <2> QED
    BY <1>1, <1>4, <1>6, <2>1
<1> QED
  BY <1>1, <1>4, <1>5, <1>7, <1>8, <1>9, <1>10 DEF QuietView, StoringView

LEMMA StoreEstablishedStep ==
  ASSUME IInv, AInv, IInv', Alone', NEW t \in Tasks, StoreEstablished(t)
  PROVE  A!Establish(Me)
<1>1. PICK once \in BOOLEAN :
         DeleteRow(t, Promote(AliceState(Generated(Me, 1), once,
                                         SignedPreKey(Peer(Me)),
                                         Generated(Me, 2)), old[t]))
  BY DEF StoreEstablished
<1> DEFINE st == AliceState(Generated(Me, 1), once, SignedPreKey(Peer(Me)),
                            Generated(Me, 2))
<1>2. /\ pc[t] = "store" /\ job[t].kind = "establish" /\ job' = job
      /\ fresh' = [fresh EXCEPT ![Me] = @ + 2] /\ fresh'[Me] <= MaxKeys
      /\ sent' = sent /\ used' = used /\ read' = read
  BY <1>1 DEF StoreEstablished, Generate, DeleteRow
<1>3. DeleteRow(t, Promote(st, old[t]))
  BY <1>1
<1> HIDE DEF st
<1>4. /\ QuietView /\ StoringView(t)' /\ old[t] = store[Me]
      /\ aStore' = [aStore EXCEPT ![Me] = Promote(st, old[t])]
      /\ aLost' = aLost \cup ({Me} \X (Bases(aStore[Me]) \ Bases(aStore'[Me])))
  BY <1>2, <1>3, StoreSeen
<1>5. fresh[Me] + 2 <= MaxKeys
  BY <1>2, RatchetAssumption, TasksAssumption DEF IInv, Typed, RecordsTyped
<1>6. job[t].m = {}
  BY <1>2 DEF AInv, JobsShaped
<1>7. aUsed' = aUsed /\ aRead' = aRead /\ aSent' = aSent
  <2>1. aUsed' = used' /\ aRead' = read' /\ aSent' = sent' \cup Sent(Me, job[t].m)'
    BY <1>2, <1>4 DEF StoringView
  <2>2. Sent(Me, job[t].m)' = {}
    BY <1>2, <1>6 DEF Sent
  <2> QED
    BY <1>2, <1>4, <2>1, <2>2 DEF QuietView
<1>8. aStore' = [aStore EXCEPT ![Me] = Promote(st, aStore[Me])]
  BY <1>4 DEF QuietView
<1> QED
  BY <1>2, <1>4, <1>5, <1>7, <1>8, ToEstablish DEF st

LEMMA StoreEncryptedStep ==
  ASSUME IInv, AInv, IInv', Alone', NEW t \in Tasks, StoreEncrypted(t)
  PROVE  A!Encrypt(Me)
<1> DEFINE m == Message(old[t][1])
<1>1. /\ pc[t] = "store" /\ job[t].kind = "encrypt" /\ old[t] # <<>>
      /\ DeleteRow(t, Encrypted(old[t])) /\ fresh' = fresh
      /\ job' = [job EXCEPT ![t].m = {m}]
      /\ sent' = sent /\ used' = used /\ read' = read
      /\ overlapped' = overlapped /\ torn' = torn
  BY DEF StoreEncrypted, DeleteRow, ghosts
<1> HIDE DEF m
<1>2. /\ QuietView /\ StoringView(t)' /\ old[t] = store[Me]
      /\ aStore' = [aStore EXCEPT ![Me] = Encrypted(old[t])]
      /\ aLost' = aLost \cup ({Me} \X (Bases(aStore[Me]) \ Bases(aStore'[Me])))
  BY <1>1, StoreSeen
<1>3. job'[t].kind = "encrypt" /\ job'[t].m = {m}
  <2>1. job \in [Tasks -> [kind : Kinds, m : SUBSET (sent \cup Msg)]]
    BY DEF IInv, Typed, JobsTyped
  <2>2. job'[t] = [job[t] EXCEPT !.m = {m}] /\ job[t] \in [kind : Kinds, m : SUBSET (sent \cup Msg)]
    BY <1>1, <2>1
  <2> QED
    BY <1>1, <2>2
<1>4. aUsed' = aUsed /\ aRead' = aRead /\ aSent' = sent \cup Sent(Me, job[t].m)'
  BY <1>1, <1>2, <1>3 DEF StoringView, QuietView
<1>5. Sent(Me, job[t].m)' = {[to |-> Peer(Me), msg |-> m,
                                copy |-> Cardinality({x \in sent : x.msg = m})]}
  BY <1>1, <1>3, SameCardinality DEF Sent
<1>6. Cardinality(sent) < MaxSent
  <2>1. Alone /\ t \in Busy
    BY <1>1 DEF Alone, Busy
  <2>2. Encrypting = {t}
    BY <1>1, <2>1 DEF AInv, OneAtATime, JobsShaped, Busy, Encrypting, NoJob, Job
  <2>3. Cardinality(sent) + Cardinality(Encrypting) <= MaxSent
    BY <2>1 DEF AInv, OneAtATime, InBound, Encrypting
  <2>4. Cardinality(Encrypting) = 1 /\ Cardinality(sent) \in Nat /\ MaxSent \in Nat
    BY <2>2, FS_Singleton, FS_CardinalityType, RatchetAssumption, TasksAssumption DEF AInv, Numbered
  <2> QED
    BY <2>3, <2>4
<1>7. old[t] \in OwnRecord(Me)
  BY DEF AInv, Owned
<1>8. Bases(Encrypted(old[t])) = Bases(old[t])
  BY <1>1, <1>7, EncryptedOwn
<1>9. /\ aStore = store /\ aSent = sent /\ aStore[Me] = old[t]
      /\ aStore'[Me] = Encrypted(old[t])
  BY <1>2, RatchetAssumption, TasksAssumption DEF QuietView, IInv, Typed, RecordsTyped
<1>10. aLost' = aLost
  BY <1>2, <1>8, <1>9
<1>11. aStore' = [aStore EXCEPT ![Me] = Encrypted(aStore[Me])]
  BY <1>2, <1>9
<1>12. m = Message(aStore[Me][1])
  BY <1>9 DEF m
<1>13. aSent' = aSent \cup {[to |-> Peer(Me), msg |-> m,
                             copy |-> Cardinality({x \in aSent : x.msg = m})]}
  BY <1>4, <1>5, <1>9
<1>14. aStore[Me] # <<>> /\ Cardinality(aSent) < MaxSent
  BY <1>1, <1>6, <1>9
<1> QED
  BY <1>1, <1>4, <1>10, <1>11, <1>12, <1>13, <1>14, ToEncrypt

LEMMA StoreDecryptedStep ==
  ASSUME IInv, AInv, IInv', Alone', NEW t \in Tasks, StoreDecrypted(t)
  PROVE  \E m \in aSent : A!Decrypt(m)
<1>1. PICK m \in job[t].m :
         /\ Outcome(t, m).verdict = "read"
         /\ DeleteRow(t, Outcome(t, m).record)
         /\ Generate(IF Head(Outcome(t, m).record).eph = Generated(Me, 1)
                     THEN 1 ELSE 0)
  BY DEF StoreDecrypted
<1> DEFINE o == Decrypted(Built(old[t], m.msg, SignedPreKey(Me)), m.msg,
                          Generated(Me, 1))
<1>2. NeedsPreKey(old[t], m.msg) \cap used = {} /\ Outcome(t, m) = o
  BY <1>1 DEF Outcome
<1> HIDE DEF o
<1>3. /\ pc[t] = "store" /\ job[t].kind = "decrypt" /\ job' = job
      /\ o.verdict = "read" /\ DeleteRow(t, o.record)
      /\ Generate(IF Head(o.record).eph = Generated(Me, 1) THEN 1 ELSE 0)
      /\ sent' = sent /\ used' = used /\ read' = read /\ old' = old
  BY <1>1, <1>2 DEF StoreDecrypted, DeleteRow
<1>4. /\ QuietView /\ StoringView(t)' /\ old[t] = store[Me]
      /\ aStore' = [aStore EXCEPT ![Me] = o.record]
      /\ aLost' = aLost \cup ({Me} \X (Bases(aStore[Me]) \ Bases(aStore'[Me])))
  BY <1>3, StoreSeen
<1>5. m \in sent /\ m.to = Me /\ job[t].m = {m}
  BY <1>1, <1>3 DEF IInv, Typed, JobsTyped, AInv, JobsShaped
<1>6. /\ aStore = store /\ aSent = sent /\ aUsed = used /\ aRead = read
      /\ aStore[Me] = old[t] /\ aStore'[Me] = o.record
  BY <1>4, RatchetAssumption, TasksAssumption DEF QuietView, IInv, Typed, RecordsTyped
<1>7. Needed(t)' = NeedsPreKey(old[t], m.msg)
  <2>1. Needed(t)' = Needed(t)
    BY <1>3 DEF Needed
  <2> QED
    BY <1>5, <2>1 DEF Needed
<1>8. /\ aUsed' = aUsed \cup NeedsPreKey(aStore[Me], m.msg)
      /\ aRead' = aRead \cup {m} /\ aSent' = aSent
  BY <1>3, <1>4, <1>5, <1>6, <1>7 DEF StoringView
<1>9. /\ fresh' = IF Head(aStore'[Me]).eph = Generated(Me, 1)
                  THEN [fresh EXCEPT ![Me] = @ + 1] ELSE fresh
      /\ fresh'[Me] <= MaxKeys
  <2>1. fresh \in [Parties -> Nat] /\ Me \in Parties
    BY RatchetAssumption, TasksAssumption DEF IInv, Typed, RecordsTyped
  <2>2. [fresh EXCEPT ![Me] = fresh[Me] + 0] = fresh
    <3>1. fresh[Me] + 0 = fresh[Me]
      <4>1. PICK n \in Nat : n = fresh[Me]
        BY <2>1
      <4>2. n + 0 = n
        OBVIOUS
      <4> QED
        BY <4>1, <4>2
    <3> QED
      BY <2>1, <3>1
  <2> QED
    BY <1>3, <1>6, <2>2 DEF Generate
<1>10. A!Decrypt(m)
  <2>1. NeedsPreKey(aStore[m.to], m.msg) \cap aUsed = {}
    BY <1>2, <1>5, <1>6
  <2>2. o = Decrypted(Built(aStore[m.to], m.msg, SignedPreKey(m.to)), m.msg,
                      Generated(m.to, 1))
    BY <1>5, <1>6 DEF o
  <2>3. /\ aStore' = [aStore EXCEPT ![m.to] = o.record]
        /\ aUsed' = aUsed \cup NeedsPreKey(aStore[m.to], m.msg)
        /\ aLost' = aLost \cup ({m.to} \X (Bases(aStore[m.to]) \ Bases(aStore'[m.to])))
    BY <1>4, <1>5, <1>8
  <2>4. /\ fresh' = IF Head(aStore'[m.to]).eph = Generated(m.to, 1)
                    THEN [fresh EXCEPT ![m.to] = @ + 1] ELSE fresh
        /\ fresh'[m.to] <= MaxKeys
    BY <1>5, <1>9
  <2> QED
    BY <1>3, <1>8, <2>1, <2>2, <2>3, <2>4, ToDecrypt
<1> QED
  BY <1>5, <1>6, <1>10
-----------------------------------------------------------------------------
(* The messages Sent makes of ms when S was sent before. *)
SentAfter(S, p, ms) ==
    {[to |-> Peer(p), msg |-> m,
      copy |-> Cardinality({x \in S : x.msg = m})] : m \in ms}

LEMMA SentIs == \A p, ms : Sent(p, ms) = SentAfter(sent, p, ms)
BY SameCardinality DEF Sent, SentAfter

LEMMA SentIsNext ==
  ASSUME NEW t \in Tasks, job' = job
  PROVE  Sent(Me, job[t].m)' = SentAfter(sent', Me, job[t].m)
BY SameCardinality DEF Sent, SentAfter

LEMMA SentAfterMsg ==
  ASSUME NEW S, NEW p, NEW ms, NEW x \in SentAfter(S, p, ms)
  PROVE  x.msg \in ms
<1> DEFINE Copy(m) == Cardinality({y \in S : y.msg = m})
<1>1. SentAfter(S, p, ms) =
        {[to |-> Peer(p), msg |-> m, copy |-> Copy(m)] : m \in ms}
  BY DEF SentAfter
<1> HIDE DEF Copy
<1> QED
  BY <1>1

LEMMA SentAfterSame ==
  ASSUME NEW S, NEW T, NEW p, NEW ms,
         \A m \in ms : {x \in T : x.msg = m} = {x \in S : x.msg = m}
  PROVE  SentAfter(T, p, ms) = SentAfter(S, p, ms)
<1> DEFINE Copy(V, m) == Cardinality({y \in V : y.msg = m})
<1>1. \A V : SentAfter(V, p, ms) =
               {[to |-> Peer(p), msg |-> m, copy |-> Copy(V, m)] : m \in ms}
  BY DEF SentAfter
<1>2. \A m \in ms : Copy(T, m) = Copy(S, m)
  OBVIOUS
<1> HIDE DEF Copy
<1>3. ASSUME NEW V, NEW W, \A m \in ms : Copy(V, m) = Copy(W, m),
             NEW x \in SentAfter(V, p, ms)
      PROVE  x \in SentAfter(W, p, ms)
  <2>1. PICK m \in ms : x = [to |-> Peer(p), msg |-> m, copy |-> Copy(V, m)]
    BY <1>1, <1>3
  <2>2. x = [to |-> Peer(p), msg |-> m, copy |-> Copy(W, m)]
    BY <1>3, <2>1
  <2> QED
    BY <1>1, <2>2
<1>4. SentAfter(T, p, ms) \subseteq SentAfter(S, p, ms)
  BY <1>2, <1>3
<1>5. SentAfter(S, p, ms) \subseteq SentAfter(T, p, ms)
  BY <1>2, <1>3
<1> QED
  BY <1>4, <1>5

LEMMA NeedsOwn ==
  ASSUME Owned, NEW m \in sent, NEW r, NEW b \in NeedsPreKey(r, m.msg)
  PROVE  b[1] = Peer(m.to)
BY DEF Owned, OwnMsg, NeedsPreKey, Unknown

(* What the tasks have done that is not committed stays as it is during a  *)
(* step of the peer: a record, pre-keys that are not the peer's to remove, *)
(* messages read, sessions lost, and at most one message sent.             *)
Uncommitted(X, U, D, L, M) ==
    /\ aStore = [store EXCEPT ![Me] = X] /\ aLost = lost \cup L
    /\ aUsed = used \cup U /\ aRead = read \cup D
    /\ aSent = sent \cup SentAfter(sent, Me, M)

LEMMA UncommittedStays ==
  ASSUME IInv, AInv, IInv', Alone, pc' = pc, job' = job, old' = old, new' = new,
         store'[Me] = store[Me]
  PROVE  \E X, U, D, L, M :
            /\ Uncommitted(X, U, D, L, M) /\ Uncommitted(X, U, D, L, M)'
            /\ \A b \in U : b[1] = Peer(Me)
            /\ \/ M = {}
               \/ \E t \in Encrypting, x \in OwnMsg(Me) : M = {x}
<1>1. /\ pc \in [Tasks -> Labels] /\ store \in [Parties -> Record]
      /\ store' \in [Parties -> Record] /\ Me \in Parties
  BY RatchetAssumption, TasksAssumption DEF IInv, Typed, RecordsTyped, JobsTyped
<1>2. CASE \A t \in Tasks : pc[t] \notin {"insert", "remove"}
  <2>1. QuietView
    BY <1>1, <1>2, Views DEF Viewed
  <2>2. QuietView'
    BY <1>1, <1>2, ViewsNext DEF Viewed
  <2>3. \A S : SentAfter(S, Me, {}) = {}
    BY DEF SentAfter
  <2>4. Uncommitted(store[Me], {}, {}, {}, {})
    BY <1>1, <2>1, <2>3 DEF Uncommitted, QuietView
  <2>5. Uncommitted(store[Me], {}, {}, {}, {})'
    BY <1>1, <2>2, <2>3 DEF Uncommitted, QuietView
  <2> QED
    BY <2>4, <2>5
<1>3. ASSUME NEW t \in Tasks, pc[t] \in {"insert", "remove"}
      PROVE  \E X, U, D, L, M :
                /\ Uncommitted(X, U, D, L, M) /\ Uncommitted(X, U, D, L, M)'
                /\ \A b \in U : b[1] = Peer(Me)
                /\ \/ M = {}
                   \/ \E s \in Encrypting, x \in OwnMsg(Me) : M = {x}
  <2>1. \A s \in Tasks \ {t} : pc[s] = "idle"
    BY <1>3 DEF AInv, OneAtATime, Busy
  <2>2. /\ pc[t] = "insert" => StoringView(t)
        /\ pc[t] = "remove" => RemovingView(t)
    BY <1>1, <2>1, Views DEF Viewed
  <2>3. /\ pc[t] = "insert" => StoringView(t)'
        /\ pc[t] = "remove" => RemovingView(t)'
    BY <1>1, <2>1, ViewsNext DEF Viewed
  <2>4. Needed(t)' = Needed(t) /\ Gone(t)' = Gone(t)
    BY DEF Needed, Gone, Bases, ToSet
  <2>5. \A S : SentAfter(S, Me, {}) = {}
    BY DEF SentAfter
  <2>6. ASSUME job[t].kind = "decrypt", NEW b \in Needed(t)
        PROVE  b[1] = Peer(Me)
    <3>1. PICK m \in job[t].m : b \in NeedsPreKey(old[t], m.msg)
      BY <2>6 DEF Needed
    <3>2. m \in sent /\ m.to = Me
      BY <2>6, <3>1 DEF IInv, Typed, JobsTyped
    <3> QED
      BY <3>1, <3>2, NeedsOwn DEF AInv
  <2>7. CASE pc[t] = "remove"
    <3>1. \A b \in Needed(t) : b[1] = Peer(Me)
      BY <2>6, <2>7 DEF AInv, JobsShaped
    <3>2. PICK X, U, D : X = store[Me] /\ U = Needed(t) /\ D = job[t].m
      OBVIOUS
    <3>3. Uncommitted(X, U, D, {}, {})
      BY <1>1, <2>2, <2>5, <2>7, <3>2 DEF Uncommitted, RemovingView
    <3>4. Uncommitted(X, U, D, {}, {})'
      BY <1>1, <2>3, <2>4, <2>5, <2>7, <3>2 DEF Uncommitted, RemovingView
    <3> QED
      BY <3>1, <3>2, <3>3, <3>4
  <2>8. CASE pc[t] = "insert" /\ job[t].kind = "decrypt"
    <3>1. PICK X, U, D, L :
             X = new[t] /\ U = Needed(t) /\ D = job[t].m /\ L = Gone(t)
      OBVIOUS
    <3>2. Uncommitted(X, U, D, L, {})
      BY <2>2, <2>5, <2>8, <3>1 DEF Uncommitted, StoringView
    <3>3. Uncommitted(X, U, D, L, {})'
      BY <2>3, <2>4, <2>5, <2>8, <3>1 DEF Uncommitted, StoringView
    <3>4. \A b \in U : b[1] = Peer(Me)
      BY <2>6, <2>8, <3>1
    <3> QED
      BY <3>2, <3>3, <3>4
  <2>9. CASE pc[t] = "insert" /\ job[t].kind # "decrypt"
    <3>1. PICK X, L, M : X = new[t] /\ L = Gone(t) /\ M = job[t].m
      OBVIOUS
    <3>2. /\ Sent(Me, job[t].m) = SentAfter(sent, Me, M)
          /\ Sent(Me, job[t].m)' = SentAfter(sent', Me, M)
      BY <3>1, SentIs, SentIsNext
    <3>3. Uncommitted(X, {}, {}, L, M)
      BY <2>2, <2>9, <3>1, <3>2 DEF Uncommitted, StoringView
    <3>4. Uncommitted(X, {}, {}, L, M)'
      BY <2>3, <2>4, <2>9, <3>1, <3>2 DEF Uncommitted, StoringView
    <3>5. \/ M = {}
          \/ \E s \in Encrypting, x \in OwnMsg(Me) : M = {x}
      BY <2>9, <3>1 DEF AInv, JobsShaped, Owned, Encrypting
    <3> QED
      BY <3>3, <3>4, <3>5
  <2> QED
    BY <1>3, <2>7, <2>8, <2>9
<1> QED
  BY <1>2, <1>3

(* A step of the peer is the same step of the abstract peer. *)
LEMMA PeerStep ==
  ASSUME IInv, AInv, IInv', Alone', PeerWorks(Peer(Me))
  PROVE  A!Next
<1> DEFINE q == Peer(Me)
<1>1. /\ q \in Parties /\ Me \in Parties /\ Me # q
      /\ Peer(q) = Me
      /\ store \in [Parties -> Record] /\ fresh \in [Parties -> Nat]
      /\ store' \in [Parties -> Record]
  BY PeerIsOther, PeerOfPeer, RatchetAssumption, TasksAssumption DEF IInv, Typed, RecordsTyped
<1>2. \A X : X = q => X = Peer(Me)
  OBVIOUS
<1> HIDE DEF q
<1>3. /\ pc' = pc /\ job' = job /\ old' = old /\ new' = new
      /\ overlapped' = overlapped /\ torn' = torn /\ InBound'
      /\ Establish(q) \/ Encrypt(q)
            \/ \E m \in sent : m.to = q /\ Decrypt(m)
  BY DEF PeerWorks, ghosts, q
<1>4. Alone
  BY <1>3 DEF Alone
<1>5. PICK r : store' = [store EXCEPT ![q] = r]
  BY <1>3 DEF Establish, Encrypt, Decrypt
<1>6. store'[Me] = store[Me] /\ store'[q] = r
  BY <1>1, <1>5
<1>7. PICK X, U, D, L, M :
         /\ Uncommitted(X, U, D, L, M) /\ Uncommitted(X, U, D, L, M)'
         /\ \A b \in U : b[1] = q
         /\ \/ M = {}
            \/ \E t \in Encrypting, x \in OwnMsg(Me) : M = {x}
  BY <1>2, <1>3, <1>4, <1>6, UncommittedStays DEF q
<1>8. /\ aStore = [store EXCEPT ![Me] = X] /\ aLost = lost \cup L
      /\ aUsed = used \cup U /\ aRead = read \cup D
      /\ aSent = sent \cup SentAfter(sent, Me, M)
  BY <1>7 DEF Uncommitted
<1>9. /\ aStore' = [store' EXCEPT ![Me] = X] /\ aLost' = lost' \cup L
      /\ aUsed' = used' \cup U /\ aRead' = read' \cup D
      /\ aSent' = sent' \cup SentAfter(sent', Me, M)
  BY <1>7 DEF Uncommitted
<1>10. /\ aStore' = [aStore EXCEPT ![q] = r]
       /\ aStore[q] = store[q] /\ aStore'[q] = store'[q]
  BY <1>1, <1>5, <1>6, <1>8, <1>9
<1>11. ASSUME Archive(q)
       PROVE  aLost' = aLost \cup ({q} \X (Bases(aStore[q]) \ Bases(aStore'[q])))
  BY <1>8, <1>9, <1>10, <1>11 DEF Archive
<1>12. CASE Establish(q)
  <2>1. PICK once \in BOOLEAN :
           store' = [store EXCEPT ![q] =
                       Promote(AliceState(Generated(q, 1), once,
                                          SignedPreKey(Peer(q)),
                                          Generated(q, 2)), @)]
    BY <1>12 DEF Establish
  <2>2. /\ fresh[q] + 2 <= MaxKeys /\ fresh' = [fresh EXCEPT ![q] = @ + 2]
        /\ used' = used /\ sent' = sent /\ read' = read
        /\ Archive(q)
    BY <1>12 DEF Establish
  <2>3. aUsed' = aUsed /\ aSent' = aSent /\ aRead' = aRead
    BY <1>8, <1>9, <2>2
  <2> DEFINE st == AliceState(Generated(q, 1), once, SignedPreKey(Peer(q)),
                              Generated(q, 2))
  <2>4. store' = [store EXCEPT ![q] = Promote(st, store[q])]
    BY <2>1
  <2> HIDE DEF st
  <2>5. r = Promote(st, store[q])
    BY <1>1, <1>6, <2>4
  <2>6. aStore' = [aStore EXCEPT ![q] = Promote(st, aStore[q])]
    BY <1>10, <2>5
  <2>7. A!Establish(q)
    BY <1>11, <2>2, <2>3, <2>6, ToEstablish DEF st
  <2> QED
    BY <1>1, <2>7 DEF A!Next
<1>13. CASE Encrypt(q)
  <2> DEFINE m == Message(store[q][1])
  <2>1. /\ store[q] # <<>> /\ Cardinality(sent) < MaxSent
        /\ sent' = sent \cup SentAfter(sent, q, {m})
        /\ store' = [store EXCEPT ![q] = Encrypted(store[q])]
        /\ fresh' = fresh /\ used' = used /\ read' = read /\ lost' = lost
    BY <1>13, SameCardinality, SentIs DEF Encrypt
  <2>2. m \in OwnMsg(q)
    BY <1>1, <2>1, EncryptedOwn DEF AInv, Owned
  <2>3. m = Message(store[q][1])
    OBVIOUS
  <2> HIDE DEF m
  <2>4. \A k \in M : k # m
    BY <1>1, <1>7, <2>2 DEF OwnMsg
  <2>5. {x \in aSent : x.msg = m} = {x \in sent : x.msg = m}
    <3>1. ASSUME NEW x \in SentAfter(sent, Me, M) PROVE x.msg # m
      BY <2>4, <3>1, SentAfterMsg
    <3> QED
      BY <1>8, <3>1
  <2>6. SentAfter(sent', Me, M) = SentAfter(sent, Me, M)
    <3>1. \A x \in SentAfter(sent, q, {m}) : x.msg = m
      BY SentAfterMsg
    <3>2. \A k \in M : {x \in sent' : x.msg = k} = {x \in sent : x.msg = k}
      BY <2>1, <2>4, <3>1
    <3> QED
      BY <3>2, SentAfterSame
  <2>7. SentAfter(sent, q, {m}) =
          {[to |-> Peer(q), msg |-> m,
            copy |-> Cardinality({x \in aSent : x.msg = m})]}
    BY <2>5 DEF SentAfter
  <2>8. aSent' = aSent \cup {[to |-> Peer(q), msg |-> m,
                              copy |-> Cardinality({x \in aSent : x.msg = m})]}
    BY <1>8, <1>9, <2>1, <2>6, <2>7
  <2>9. Cardinality(aSent) < MaxSent
    <3>1. CASE M = {}
      <4>1. aSent = sent
        BY <1>8, <3>1 DEF SentAfter
      <4> QED
        BY <2>1, <4>1
    <3>2. CASE M # {}
      <4>1. PICK t \in Encrypting, k \in OwnMsg(Me) : M = {k}
        BY <1>7, <3>2
      <4>2. Numbered
        BY DEF AInv
      <4>3. SentAfter(sent, Me, {k}) = Sent(Me, {k}) /\ SentAfter(sent, q, {m}) = Sent(q, {m})
        BY SentIs
      <4>4. Cardinality(aSent) = Cardinality(sent) + 1
        <5>1. PICK x : Sent(Me, {k}) = {x} /\ x \notin sent
          BY <4>2, SentOne
        <5>2. aSent = sent \cup {x}
          BY <1>8, <4>1, <4>3, <5>1
        <5> QED
          BY <4>2, <5>1, <5>2, FS_AddElement DEF Numbered
      <4>5. Cardinality(sent') = Cardinality(sent) + 1
        BY <2>1, <4>2, <4>3, NumberedKept
      <4>6. Encrypting = {t}
        BY <1>4, <4>1 DEF AInv, OneAtATime, JobsShaped, Busy, Encrypting, NoJob, Job
      <4>7. Cardinality(sent') + Cardinality(Encrypting) <= MaxSent
        BY <1>3 DEF InBound, Encrypting
      <4>8. Cardinality(Encrypting) = 1 /\ Cardinality(sent) \in Nat /\ MaxSent \in Nat
        BY <4>2, <4>6, FS_Singleton, FS_CardinalityType, RatchetAssumption, TasksAssumption DEF Numbered
      <4> QED
        BY <4>4, <4>5, <4>7, <4>8
    <3> QED
      BY <3>1, <3>2
  <2>10. r = Encrypted(store[q])
    BY <1>1, <1>6, <2>1
  <2>11. aStore' = [aStore EXCEPT ![q] = Encrypted(aStore[q])] /\ aStore[q] # <<>>
    BY <1>10, <2>1, <2>10
  <2>12. m = Message(aStore[q][1])
    BY <1>10, <2>3
  <2>13. aUsed' = aUsed /\ aRead' = aRead /\ aLost' = aLost
    BY <1>8, <1>9, <2>1
  <2>14. A!Encrypt(q)
    BY <2>1, <2>8, <2>9, <2>11, <2>12, <2>13, ToEncrypt
  <2> QED
    BY <1>1, <2>14 DEF A!Next
<1>14. CASE \E m \in sent : m.to = q /\ Decrypt(m)
  <2>1. PICK m \in sent : m.to = q /\ Decrypt(m)
    BY <1>14
  <2> DEFINE o == Decrypted(Built(store[q], m.msg, SignedPreKey(q)), m.msg,
                            Generated(q, 1))
  <2>2. /\ NeedsPreKey(store[q], m.msg) \cap used = {}
        /\ Result(m) = o
    BY <2>1 DEF Result, Decrypt
  <2>3. o = Decrypted(Built(store[q], m.msg, SignedPreKey(q)), m.msg,
                      Generated(q, 1))
    OBVIOUS
  <2> HIDE DEF o
  <2>4. /\ o.verdict = "read"
        /\ store' = [store EXCEPT ![q] = o.record]
        /\ used' = used \cup NeedsPreKey(store[q], m.msg)
        /\ fresh' = IF Head(store'[q]).eph = Generated(q, 1)
                    THEN [fresh EXCEPT ![q] = @ + 1] ELSE fresh
        /\ fresh'[q] <= MaxKeys
        /\ read' = read \cup {m}
        /\ Archive(q)
        /\ sent' = sent
    BY <2>1, <2>2 DEF Decrypt
  <2>5. NeedsPreKey(aStore[q], m.msg) \cap aUsed = {}
    <3>1. \A b \in NeedsPreKey(store[q], m.msg) : b[1] = Me
      BY <1>1, <2>1, NeedsOwn DEF AInv
    <3>2. NeedsPreKey(store[q], m.msg) \cap U = {}
      BY <1>1, <1>7, <3>1
    <3> QED
      BY <1>8, <1>10, <2>2, <3>2
  <2>6. r = o.record
    BY <1>1, <1>6, <2>4
  <2>7. /\ aStore' = [aStore EXCEPT ![q] = o.record]
        /\ aUsed' = aUsed \cup NeedsPreKey(aStore[q], m.msg)
        /\ aRead' = aRead \cup {m} /\ aSent' = aSent
        /\ aLost' = aLost \cup ({q} \X (Bases(aStore[q]) \ Bases(aStore'[q])))
    BY <1>8, <1>9, <1>10, <1>11, <2>4, <2>6
  <2>8. /\ fresh' = IF Head(aStore'[q]).eph = Generated(q, 1)
                    THEN [fresh EXCEPT ![q] = @ + 1] ELSE fresh
        /\ o = Decrypted(Built(aStore[q], m.msg, SignedPreKey(q)), m.msg,
                         Generated(q, 1))
    BY <1>10, <2>3, <2>4
  <2>9. m.to = q
    BY <2>1
  <2>10. A!Decrypt(m)
    BY <2>4, <2>5, <2>7, <2>8, <2>9, ToDecrypt
  <2>11. m \in aSent
    BY <1>8, <2>1
  <2> QED
    BY <2>10, <2>11 DEF A!Next, aSent
<1> QED
  BY <1>3, <1>12, <1>13, <1>14

(* While no operation of the client overlaps another and none is cut off   *)
(* after its first commit, the four awaits between load and store are not  *)
(* seen: each operation takes effect at one moment, as in Ratchet, so what *)
(* holds of whole operations holds of the client's.                        *)
THEOREM AloneIsAtomicAlways == TasksSpec => AloneIsAtomic
<1>1. TasksInit => A!Init
  <2> SUFFICES ASSUME TasksInit PROVE A!Init
    OBVIOUS
  <2>1. /\ store = [p \in Parties |-> <<>>] /\ fresh = [p \in Parties |-> 0]
        /\ used = {} /\ sent = {} /\ read = {} /\ lost = {}
        /\ pc = [t \in Tasks |-> "idle"]
    BY DEF TasksInit, Init
  <2>2. Storing = {} /\ Pending = {}
    BY <2>1 DEF Storing, Pending
  <2>3. /\ aStore = [p \in Parties |-> <<>>]
        /\ aUsed = {} /\ aSent = {} /\ aRead = {} /\ aLost = {}
    BY <2>1, <2>2, RatchetAssumption, TasksAssumption DEF aStore, aUsed, aSent, aRead, aLost
  <2> QED
    BY <2>1, <2>3 DEF A!Init, aStore, aUsed, aSent, aRead, aLost
<1>2. IInv /\ AInv /\ IInv' /\ [TasksNext]_taskVars
        => [overlapped' \/ torn' # {} \/ [A!Next]_(A!vars)]_taskVars
  <2> SUFFICES ASSUME IInv, AInv, IInv', TasksNext, Alone'
               PROVE  A!Next \/ UNCHANGED A!vars
    BY DEF Alone
  <2>1. ASSUME NEW t \in Tasks, TaskStep(t)
        PROVE  A!Next \/ UNCHANGED A!vars
    <3>1. CASE Load(t) \/ EncryptFails(t) \/ DecryptFails(t) \/ Cut(t)
      BY <3>1, QuietStep
    <3>2. CASE Insert(t) \/ InsertFails(t) \/ RemovePreKey(t)
      BY <3>2, LateStep
    <3>3. CASE StoreEstablished(t)
      BY <3>3, StoreEstablishedStep, RatchetAssumption, TasksAssumption DEF A!Next
    <3>4. CASE StoreEncrypted(t)
      BY <3>4, StoreEncryptedStep, RatchetAssumption, TasksAssumption DEF A!Next
    <3>5. CASE StoreDecrypted(t)
      BY <3>5, StoreDecryptedStep DEF A!Next, aSent
    <3> QED
      BY <2>1, <3>1, <3>2, <3>3, <3>4, <3>5 DEF TaskStep
  <2>2. ASSUME NEW t \in Tasks, NEW j \in Jobs, Begin(t, j)
        PROVE  A!Next \/ UNCHANGED A!vars
    BY <2>2, QuietStep
  <2>3. CASE PeerWorks(Peer(Me))
    BY <2>3, PeerStep
  <2> QED
    BY <2>1, <2>2, <2>3 DEF TasksNext
<1> QED
  BY <1>1, <1>2, Invariance, AloneInvariance, PTL DEF TasksSpec, AloneIsAtomic
-----------------------------------------------------------------------------
(* What vars steps add to a state, and when the key of a message is gone. *)
(* From here on: Ratchet.                                                  *)

(* f tells how many key pairs each party has generated. *)
Known(f, k)    == k[2] <= f[k[1]]
AllKnown(f, s) == \A j \in 1..Len(s) : \A k \in s[j] : Known(f, k)

(* a is where b began. *)
StartOf(a, b) == Len(a) < Len(b) /\ \A j \in 1..Len(a) : a[j] = b[j]

(* The chains of a state come from successive roots. *)
ChainsFit(st) ==
    /\ \A i \in 1..Len(st.chains) :
          Len(st.chains[i].key) >= 1 /\ StartOf(st.chains[i].key, st.root)
    /\ \A i, j \in 1..Len(st.chains) :
          st.chains[i].key = st.chains[j].key => i = j

RootFits(f, st) ==
    /\ Len(st.root) >= 1 /\ st.root[1] = {st.base} /\ st.key = st.root
    /\ AllKnown(f, st.root) /\ Known(f, st.eph) /\ ChainsFit(st)

(* A state is as its initiator made it, or has ratcheted since. *)
StateFits(f, st) ==
    /\ RootFits(f, st) /\ st.eph[2] >= 1
    /\ \/ /\ Len(st.root) = 2
          /\ \E once \in BOOLEAN : st.pending = {[base |-> st.base, once |-> once]}
          /\ \A i \in 1..Len(st.chains) : st.chains[i].eph[2] = 0
       \/ Len(st.root) >= 3 /\ st.pending = {}

MsgFits(f, m) ==
    /\ AllKnown(f, m.key) /\ Known(f, m.eph) /\ m.eph[2] >= 1
    /\ \E b \in KeyPair :
          /\ Len(m.key) >= 1 /\ m.key[1] = {b}
          /\ \/ /\ Len(m.key) = 2
                /\ \E once \in BOOLEAN : m.pre = {[base |-> b, once |-> once]}
             \/ Len(m.key) >= 3 /\ m.pre = {}

(* The key of m was taken from the chain of st it belongs to, or st has no *)
(* such chain and will have none.                                          *)
Spent(m, st) ==
    \/ /\ Len(m.key) < Len(st.root)
       /\ \A i \in 1..Len(st.chains) :
             st.chains[i].key = m.key =>
                m.n < st.chains[i].index /\ m.n \notin st.chains[i].skipped
    \/ \E j \in 1..Len(m.key) : j <= Len(st.root) /\ m.key[j] # st.root[j]

(* A chain that is added comes last; the first is dropped when there are too *)
(* many (d is how many are dropped).                                       *)
Added(chains, c, d, all) ==
    /\ d = 1 <=> Len(chains) >= MaxChains
    /\ Len(all) = Len(chains) + 1 - d
    /\ \A k \in 1..(Len(chains) + 1 - d) :
          all[k] = IF k + d = Len(chains) + 1 THEN c ELSE chains[k + d]

(* So do those of AddReceiverChain.                                        *)
LEMMA AddedChains ==
  ASSUME NEW chains \in Seq(Chain), NEW c \in Chain
  PROVE  \E d \in {0, 1} : Added(chains, c, d, AddReceiverChain(chains, c))
<1> DEFINE all == Append(chains, c)
<1>1. /\ all \in Seq(Chain) /\ Len(all) = Len(chains) + 1
      /\ \A k \in 1..(Len(chains) + 1) :
            all[k] = IF k = Len(chains) + 1 THEN c ELSE chains[k]
  OBVIOUS
<1> HIDE DEF all
<1>2. CASE Len(all) > MaxChains
  <2>1. AddReceiverChain(chains, c) = Tail(all)
    BY <1>2 DEF AddReceiverChain, all
  <2>2. /\ Len(Tail(all)) = Len(all) - 1
        /\ \A k \in 1..(Len(all) - 1) : Tail(all)[k] = all[k + 1]
    BY <1>1
  <2>3. \A k \in 1..(Len(all) - 1) : k + 1 \in 1..(Len(chains) + 1)
    BY <1>1
  <2>4. /\ Len(AddReceiverChain(chains, c)) = Len(chains) + 1 - 1
        /\ \A k \in 1..(Len(chains) + 1 - 1) :
              AddReceiverChain(chains, c)[k] =
                 IF k + 1 = Len(chains) + 1 THEN c ELSE chains[k + 1]
    BY <1>1, <2>1, <2>2, <2>3
  <2>5. Len(chains) >= MaxChains
    BY <1>1, <1>2, SessionAssumption
  <2>6. Added(chains, c, 1, AddReceiverChain(chains, c))
    BY <2>4, <2>5 DEF Added
  <2> QED
    BY <2>6
<1>3. CASE ~(Len(all) > MaxChains)
  <2>1. AddReceiverChain(chains, c) = all
    BY <1>3 DEF AddReceiverChain, all
  <2>2. /\ Len(AddReceiverChain(chains, c)) = Len(chains) + 1 - 0
        /\ \A k \in 1..(Len(chains) + 1 - 0) :
              AddReceiverChain(chains, c)[k] =
                 IF k + 0 = Len(chains) + 1 THEN c ELSE chains[k + 0]
    BY <1>1, <2>1
  <2>3. ~(Len(chains) >= MaxChains)
    BY <1>1, <1>3, SessionAssumption
  <2>4. Added(chains, c, 0, AddReceiverChain(chains, c))
    BY <2>2, <2>3 DEF Added
  <2> QED
    BY <2>4
<1> QED
  BY <1>2, <1>3

(* r is what a vars step to the chain of their makes of st. *)
Stepped(st, their, own, r) ==
    /\ r.base = st.base /\ r.eph = own /\ r.key = r.root
    /\ r.pending = st.pending /\ r.n = 0
    /\ Len(r.root) = Len(st.root) + 2
    /\ \A j \in 1..Len(st.root) : r.root[j] = st.root[j]
    /\ r.root[Len(st.root) + 1] = {their, st.eph}
    /\ r.root[Len(st.root) + 2] = {their, own}

(* So is in the key of the new chain. *)
Begun(st, their, in) ==
    /\ in \in Seq(Agreement) /\ Len(in) = Len(st.root) + 1
    /\ \A j \in 1..Len(st.root) : in[j] = st.root[j]
    /\ in[Len(st.root) + 1] = {their, st.eph}

(* What a vars step makes of a state that has no chain of their key.    *)
LEMMA RatchetedIs ==
  ASSUME NEW st \in State, NEW their \in KeyPair, NEW own \in KeyPair,
         ChainsOf(st, their) = {}
  PROVE  LET in == Append(st.root, {their, st.eph})
         IN /\ Stepped(st, their, own, Ratcheted(st, their, own))
            /\ Begun(st, their, in)
            /\ NewChain(their, in) \in Chain
            /\ Ratcheted(st, their, own).chains
                  = AddReceiverChain(st.chains, NewChain(their, in))
<1> DEFINE in  == Append(st.root, {their, st.eph})
           out == Append(in, {their, own})
           c   == NewChain(their, in)
           chains == AddReceiverChain(st.chains, c)
<1>1. st.root \in Seq(Agreement) /\ st.eph \in KeyPair
  BY DEF State
<1>2. {their, st.eph} \in Agreement /\ {their, own} \in Agreement
  BY <1>1 DEF Agreement
<1>3. /\ in \in Seq(Agreement) /\ Len(in) = Len(st.root) + 1
      /\ \A j \in 1..Len(st.root) : in[j] = st.root[j]
      /\ in[Len(st.root) + 1] = {their, st.eph}
  BY <1>1, <1>2
<1> HIDE DEF in
<1>4. /\ out \in Seq(Agreement) /\ Len(out) = Len(in) + 1
      /\ \A j \in 1..Len(in) : out[j] = in[j]
      /\ out[Len(in) + 1] = {their, own}
  BY <1>2, <1>3
<1> HIDE DEF out
<1>5. c \in Chain /\ c.key = in
  BY <1>3 DEF NewChain, Chain
<1> HIDE DEF c
<1> HIDE DEF chains
<1> DEFINE r == [st EXCEPT !.root = out, !.eph = own, !.key = out, !.n = 0,
                           !.chains = chains]
<1>6. Ratcheted(st, their, own) = r
  BY DEF Ratcheted, r, in, out, c, chains
<1>7. /\ r.base = st.base /\ r.eph = own /\ r.root = out /\ r.key = out
      /\ r.pending = st.pending /\ r.n = 0 /\ r.chains = chains
  BY DEF State
<1> HIDE DEF r
<1>8. /\ \A j \in 1..Len(st.root) : out[j] = st.root[j]
      /\ Len(out) = Len(st.root) + 2
      /\ out[Len(st.root) + 1] = {their, st.eph}
      /\ out[Len(st.root) + 2] = {their, own}
  BY <1>1, <1>3, <1>4
<1>9. Stepped(st, their, own, r)
  BY <1>7, <1>8 DEF Stepped
<1>10. Begun(st, their, in)
  BY <1>3 DEF Begun
<1> QED
  BY <1>5, <1>6, <1>7, <1>9, <1>10 DEF in, c, chains

(* A message is read from chain i of r, which st has become: one it had,   *)
(* or the one that a vars step added.                                   *)
ReadFrom(st, m, r, i) ==
    /\ r \in State /\ r.chains[i].eph = m.eph
    /\ IF ChainsOf(st, m.eph) # {} THEN r = st
       ELSE /\ r.chains[i] = NewChain(m.eph, Append(st.root, {m.eph, st.eph}))
            /\ i = Len(r.chains)
            /\ \E d \in {0, 1} :
                  /\ d = 1 <=> Len(st.chains) >= MaxChains
                  /\ Len(r.chains) = Len(st.chains) + 1 - d
                  /\ \A k \in 1..Len(r.chains) : k # i =>
                        k + d \in 1..Len(st.chains) /\ r.chains[k] = st.chains[k + d]

(* A message is read from a chain that ReadFrom describes.                 *)
LEMMA ReaderChain ==
  ASSUME NEW st \in State, NEW m \in Msg, NEW own \in KeyPair
  PROVE  LET r == Ratcheted(st, m.eph, own)
             i == CHOOSE j \in ChainsOf(r, m.eph) : TRUE
         IN i \in 1..Len(r.chains) /\ ReadFrom(st, m, r, i)
<1> DEFINE r == Ratcheted(st, m.eph, own)
           i == CHOOSE j \in ChainsOf(r, m.eph) : TRUE
           c == NewChain(m.eph, Append(st.root, {m.eph, st.eph}))
<1>1. m.eph \in KeyPair
  BY DEF Msg
<1>2. r \in State /\ ChainsOf(r, m.eph) # {}
  BY <1>1, RatchetedType
<1>3. r.chains \in Seq(Chain) /\ st.chains \in Seq(Chain)
  BY <1>2 DEF State
<1>4. i \in 1..Len(r.chains) /\ r.chains[i].eph = m.eph
  <2>1. i \in ChainsOf(r, m.eph)
    BY <1>2
  <2> HIDE DEF r, i
  <2> QED
    BY <1>3, <2>1 DEF ChainsOf
<1>5. CASE ChainsOf(st, m.eph) # {}
  <2>1. r = st
    BY <1>5 DEF Ratcheted
  <2> HIDE DEF r, i
  <2>2. ReadFrom(st, m, r, i)
    BY <1>2, <1>4, <1>5, <2>1 DEF ReadFrom
  <2> QED
    BY <1>4, <2>2 DEF r, i
<1>6. CASE ChainsOf(st, m.eph) = {}
  <2>1. r.chains = AddReceiverChain(st.chains, c) /\ c \in Chain
    BY <1>1, <1>6, RatchetedIs
  <2> HIDE DEF r, i, c
  <2>0. PICK d \in {0, 1} : Added(st.chains, c, d, r.chains)
    BY <1>3, <2>1, AddedChains
  <2>2. /\ d = 1 <=> Len(st.chains) >= MaxChains
        /\ Len(r.chains) = Len(st.chains) + 1 - d
        /\ \A k \in 1..(Len(st.chains) + 1 - d) :
              r.chains[k] = IF k + d = Len(st.chains) + 1 THEN c ELSE st.chains[k + d]
    BY <2>0 DEF Added
  <2>3. \A l \in 1..Len(st.chains) : st.chains[l].eph # m.eph
    BY <1>3, <1>6 DEF ChainsOf
  <2>4. i + d = Len(st.chains) + 1
    <3>1. i + d # Len(st.chains) + 1 => i + d \in 1..Len(st.chains)
      BY <1>3, <1>4, <2>2
    <3> QED
      BY <1>3, <1>4, <2>2, <2>3, <3>1
  <2>5. r.chains[i] = c
    BY <1>4, <2>2, <2>4
  <2>6. ASSUME NEW k \in 1..Len(r.chains), k # i
        PROVE  k + d \in 1..Len(st.chains) /\ r.chains[k] = st.chains[k + d]
    <3>1. k + d # Len(st.chains) + 1 /\ k + d \in 1..Len(st.chains)
      BY <1>3, <1>4, <2>2, <2>4, <2>6
    <3>2. r.chains[k] = st.chains[k + d]
      BY <1>3, <2>2, <2>6, <3>1
    <3> QED
      BY <3>1, <3>2
  <2>7. i = Len(r.chains)
    BY <1>3, <1>4, <2>2, <2>4
  <2>8. /\ d = 1 <=> Len(st.chains) >= MaxChains
        /\ Len(r.chains) = Len(st.chains) + 1 - d
    BY <2>2
  <2>9. ReadFrom(st, m, r, i)
    BY <1>2, <1>4, <1>6, <2>5, <2>6, <2>7, <2>8 DEF c, ReadFrom
  <2> QED
    BY <1>4, <2>9 DEF r, i
<1> QED
  BY <1>5, <1>6

(* Once the key of a message is taken it is gone, as are those gone before. *)
LEMMA TakenIs ==
  ASSUME NEW c \in Chain, NEW n \in Nat
  PROVE  /\ Take(c, n).key = c.key /\ Take(c, n).eph = c.eph
         /\ n < Take(c, n).index /\ n \notin Take(c, n).skipped
         /\ \A k \in Nat : k < c.index /\ k \notin c.skipped =>
               k < Take(c, n).index /\ k \notin Take(c, n).skipped
<1>1. /\ c \in [eph : KeyPair, key : Seq(Agreement), index : Nat, skipped : SUBSET Nat]
      /\ \A i \in c.skipped : i < c.index
  BY DEF Chain
<1>2. CASE n < c.index
  BY <1>1, <1>2 DEF Take
<1>3. CASE ~(n < c.index)
  <2> DEFINE skipped == c.skipped \cup (c.index..(n - 1))
             d == [c EXCEPT !.index = n + 1, !.skipped = skipped]
  <2>1. Take(c, n) = d
    BY <1>3 DEF Take
  <2>2. n \notin skipped /\ \A k \in Nat : k < c.index /\ k \notin c.skipped => k \notin skipped
    BY <1>1, <1>3
  <2> HIDE DEF skipped
  <2>3. d.key = c.key /\ d.eph = c.eph /\ d.index = n + 1 /\ d.skipped = skipped
    BY <1>1
  <2>4. \A k \in Nat : k < c.index => k < n + 1
    BY <1>1, <1>3
  <2> QED
    BY <2>1, <2>2, <2>3, <2>4
<1> QED
  BY <1>2, <1>3

(* o is r after the key of m was taken from its chain i. *)
Opens(m, r, i, o) ==
    /\ o \in State
    /\ o.base = r.base /\ o.root = r.root /\ o.eph = r.eph /\ o.key = r.key
    /\ o.pending = {} /\ o.n = r.n
    /\ Len(o.chains) = Len(r.chains)
    /\ o.chains[i] = Take(r.chains[i], m.n)
    /\ \A k \in 1..Len(r.chains) : k # i => o.chains[k] = r.chains[k]

CanRead(m, c) == m.key = c.key /\ ~(m.n < c.index /\ m.n \notin c.skipped)

(* What reading a message does to the chain it is read from.               *)
LEMMA Opening ==
  ASSUME NEW st \in State, NEW m \in Msg, NEW own \in KeyPair
  PROVE  LET r == Ratcheted(st, m.eph, own)
             o == Opened(st, m, own)
         IN \E i \in 1..Len(r.chains) :
               /\ ReadFrom(st, m, r, i) /\ Opens(m, r, i, o.state)
               /\ o.verdict = "read" => CanRead(m, r.chains[i])
<1> DEFINE r == Ratcheted(st, m.eph, own)
           i == CHOOSE j \in ChainsOf(r, m.eph) : TRUE
           t == Take(r.chains[i], m.n)
           chains == [r.chains EXCEPT ![i] = t]
<1>0. i \in 1..Len(r.chains) /\ ReadFrom(st, m, r, i)
  BY ReaderChain
<1>1. r \in State
  <2> HIDE DEF r, i
  <2> QED
    BY <1>0 DEF ReadFrom
<1>2. Opened(st, m, own).state \in State
  BY OpenedType
<1>3. /\ Opened(st, m, own).state = [r EXCEPT !.chains = chains, !.pending = {}]
      /\ Opened(st, m, own).verdict = "read" =>
           CanRead(m, r.chains[i])
  <2> HIDE DEF r, i
  <2>1. Opened(st, m, own).state = [r EXCEPT !.chains[i] = Take(@, m.n), !.pending = {}]
    BY DEF Opened, r, i
  <2>2. [r EXCEPT !.chains[i] = Take(@, m.n), !.pending = {}]
          = [r EXCEPT !.chains = chains, !.pending = {}]
    OBVIOUS
  <2>3. Opened(st, m, own).verdict =
           IF m.n < r.chains[i].index /\ m.n \notin r.chains[i].skipped THEN "duplicate"
           ELSE IF m.n > r.chains[i].index + MaxSkip \/ m.key # r.chains[i].key
                THEN "invalid" ELSE "read"
    BY DEF Opened, r, i
  <2> QED
    BY <2>1, <2>2, <2>3 DEF CanRead
<1> HIDE DEF r, i, t
<1>4. /\ Len(chains) = Len(r.chains) /\ chains[i] = t
      /\ \A k \in 1..Len(r.chains) : k # i => chains[k] = r.chains[k]
  <2>1. r.chains \in Seq(Chain)
    BY <1>1 DEF State
  <2>2. DOMAIN chains = DOMAIN r.chains /\ DOMAIN r.chains = 1..Len(r.chains)
    BY <2>1
  <2>3. Len(chains) = Len(r.chains)
    <3>1. r.chains[i] \in Chain /\ r.chains[i].key \in Seq(Agreement)
      BY <1>0, <1>1, <2>1 DEF Chain
    <3>2. t \in Chain
      BY <3>1, TakeType DEF t, Msg
    <3> QED
      BY <1>0, <1>1, <2>1, <3>2
  <2> QED
    BY <1>0, <1>1, <2>2, <2>3
<1> HIDE DEF chains
<1> DEFINE o == [r EXCEPT !.chains = chains, !.pending = {}]
<1>5. /\ o.chains = chains /\ o.pending = {} /\ o.base = r.base /\ o.n = r.n
      /\ o.root = r.root /\ o.eph = r.eph /\ o.key = r.key
  BY <1>1 DEF State
<1>6. o \in State
  BY <1>2, <1>3
<1> HIDE DEF o
<1>7. Opens(m, r, i, o)
  BY <1>4, <1>5, <1>6 DEF Opens, t
<1>8. Opened(st, m, own).state = o
  BY <1>3 DEF o
<1> QED
  BY <1>0, <1>3, <1>7, <1>8 DEF r

(* A key that was taken is refused. *)
LEMMA SpentNotRead ==
  ASSUME NEW st \in State, NEW m \in Msg, NEW own \in KeyPair,
         ChainsFit(st), Spent(m, st)
  PROVE  Opened(st, m, own).verdict # "read"
<1> DEFINE r  == Ratcheted(st, m.eph, own)
           in == Append(st.root, {m.eph, st.eph})
<1> SUFFICES ASSUME Opened(st, m, own).verdict = "read" PROVE FALSE
  OBVIOUS
<1>1. PICK i \in 1..Len(r.chains) : ReadFrom(st, m, r, i) /\ CanRead(m, r.chains[i])
  BY Opening
<1>3. /\ in \in Seq(Agreement) /\ Len(in) = Len(st.root) + 1
      /\ \A j \in 1..Len(st.root) : in[j] = st.root[j]
      /\ Len(st.root) \in Nat
  <2>1. st.root \in Seq(Agreement) /\ st.eph \in KeyPair /\ m.eph \in KeyPair
    BY DEF State, Msg
  <2>2. {m.eph, st.eph} \in Agreement
    BY <2>1 DEF Agreement
  <2> QED
    BY <2>1, <2>2
<1> HIDE DEF r
<1>2. /\ m.key = r.chains[i].key
      /\ ~(m.n < r.chains[i].index /\ m.n \notin r.chains[i].skipped)
      /\ IF ChainsOf(st, m.eph) # {} THEN r = st
         ELSE r.chains[i] = NewChain(m.eph, in)
  BY <1>1 DEF ReadFrom, CanRead
<1> HIDE DEF in
<1>4. CASE ChainsOf(st, m.eph) # {}
  <2>1. StartOf(m.key, st.root) /\ i \in 1..Len(st.chains) /\ st.chains[i].key = m.key
    BY <1>2, <1>4 DEF ChainsFit
  <2>2. ~(m.n < st.chains[i].index /\ m.n \notin st.chains[i].skipped)
    BY <1>2, <1>4
  <2> QED
    BY <2>1, <2>2 DEF Spent, StartOf
<1>5. CASE ChainsOf(st, m.eph) = {}
  <2>1. m.key = in
    BY <1>2, <1>5 DEF NewChain
  <2>2. ~(Len(m.key) < Len(st.root))
    BY <1>3, <2>1
  <2> QED
    BY <1>3, <2>1, <2>2 DEF Spent
<1> QED
  BY <1>4, <1>5

Counts == [Parties -> Nat]
NoLess(f, g) == \A p \in Parties : f[p] <= g[p]

(* What is known stays known.                                              *)
LEMMA KnownMore ==
  ASSUME NEW f \in Counts, NEW g \in Counts, NoLess(f, g)
  PROVE  /\ \A k \in KeyPair : Known(f, k) => Known(g, k)
         /\ \A s \in Seq(Agreement) : AllKnown(f, s) => AllKnown(g, s)
<1>1. ASSUME NEW k \in KeyPair, Known(f, k) PROVE Known(g, k)
  <2>1. k[1] \in Parties /\ k[2] \in Nat
    BY DEF KeyPair
  <2>2. f[k[1]] \in Nat /\ g[k[1]] \in Nat /\ f[k[1]] <= g[k[1]]
    BY <2>1 DEF Counts, NoLess
  <2> QED
    BY <1>1, <2>1, <2>2 DEF Known
<1>2. ASSUME NEW s \in Seq(Agreement), AllKnown(f, s) PROVE AllKnown(g, s)
  <2>1. \A j \in 1..Len(s) : \A k \in s[j] : k \in KeyPair
    BY DEF Agreement
  <2> QED
    BY <1>1, <1>2, <2>1 DEF AllKnown
<1> QED
  BY <1>1, <1>2

(* What fits goes on fitting while key pairs are generated. *)
LEMMA FitsMore ==
  ASSUME NEW f \in Counts, NEW g \in Counts, NoLess(f, g)
  PROVE  /\ \A st \in State : StateFits(f, st) => StateFits(g, st)
         /\ \A m \in Msg : MsgFits(f, m) => MsgFits(g, m)
<1>1. ASSUME NEW st \in State, StateFits(f, st) PROVE StateFits(g, st)
  <2>1. st.root \in Seq(Agreement) /\ st.eph \in KeyPair
    BY DEF State
  <2>2. AllKnown(g, st.root) /\ Known(g, st.eph)
    BY <1>1, <2>1, KnownMore DEF StateFits, RootFits
  <2> QED
    BY <1>1, <2>2 DEF StateFits, RootFits
<1>2. ASSUME NEW m \in Msg, MsgFits(f, m) PROVE MsgFits(g, m)
  <2>1. m.key \in Seq(Agreement) /\ m.eph \in KeyPair
    BY DEF Msg
  <2>2. AllKnown(g, m.key) /\ Known(g, m.eph)
    BY <1>2, <2>1, KnownMore DEF MsgFits
  <2> QED
    BY <1>2, <2>2 DEF MsgFits
<1> QED
  BY <1>1, <1>2

(* A key pair that is being generated is in nothing known so far. *)
LEMMA NewIsUnknown ==
  ASSUME NEW f \in Counts, NEW p \in Parties, NEW k \in Nat, k >= 1
  PROVE  ~Known(f, <<p, f[p] + k>>) /\ <<p, f[p] + k>> \in KeyPair
<1>1. f[p] \in Nat
  BY DEF Counts
<1> QED
  BY <1>1 DEF Known, KeyPair

(* A session that a party starts fits, and can read nothing sent before. *)
NewlyFits(f, g, base, once, st) ==
    /\ st \in State /\ StateFits(g, st) /\ st.base = base
    /\ st.pending = {[base |-> base, once |-> once]}
    /\ \A m \in Msg : MsgFits(f, m) => Spent(m, st)

(* So is the state initializeSessionAsAlice makes.                         *)
LEMMA AliceFits ==
  ASSUME NEW f \in Counts, NEW g \in Counts, NoLess(f, g),
         NEW p \in Parties, NEW q \in Parties, g[p] = f[p] + 2, NEW once \in BOOLEAN
  PROVE  NewlyFits(f, g, <<p, f[p] + 1>>, once,
                   AliceState(<<p, f[p] + 1>>, once, SignedPreKey(q), <<p, f[p] + 2>>))
<1> DEFINE base == <<p, f[p] + 1>>
           eph  == <<p, f[p] + 2>>
           spk  == <<q, 0>>
           st   == AliceState(base, once, spk, eph)
           root == <<{base}, {spk, eph}>>
<1>1. /\ f[p] \in Nat /\ g[p] \in Nat /\ g[q] \in Nat
      /\ base \in KeyPair /\ eph \in KeyPair /\ spk \in KeyPair
      /\ Known(g, base) /\ Known(g, eph) /\ Known(g, spk) /\ ~Known(f, base)
  BY DEF Counts, Known, KeyPair
<1>2. eph[2] >= 1 /\ spk[2] = 0
  BY <1>1
<1> HIDE DEF base, eph, spk
<1>3. st \in State
  BY <1>1, AliceStateType
<1>4. /\ st.base = base /\ st.pending = {[base |-> base, once |-> once]}
      /\ st.root = root /\ st.key = root /\ st.eph = eph
      /\ st.chains = <<NewChain(spk, <<{base}>>)>>
  BY DEF AliceState
<1> HIDE DEF st
<1>5. Len(root) = 2 /\ root[1] = {base} /\ root[2] = {spk, eph}
  OBVIOUS
<1> HIDE DEF root
<1>6. AllKnown(g, root)
  BY <1>1, <1>5 DEF AllKnown
<1>7. /\ Len(st.chains) = 1 /\ st.chains[1].key = <<{base}>> /\ st.chains[1].eph = spk
  BY <1>4 DEF NewChain
<1>8. ChainsFit(st) /\ \A i \in 1..Len(st.chains) : st.chains[i].eph[2] = 0
  <2>1. \A i \in 1..Len(st.chains) : i = 1
    BY <1>7
  <2>2. Len(<<{base}>>) >= 1 /\ StartOf(<<{base}>>, st.root)
    BY <1>4, <1>5 DEF StartOf
  <2> QED
    BY <1>2, <1>7, <2>1, <2>2 DEF ChainsFit
<1>9. StateFits(g, st)
  BY <1>1, <1>2, <1>4, <1>5, <1>6, <1>8 DEF StateFits, RootFits
<1>10. ASSUME NEW m \in Msg, MsgFits(f, m) PROVE Spent(m, st)
  <2>1. Len(m.key) >= 1 /\ \A k \in m.key[1] : Known(f, k)
    <3>1. Len(m.key) \in Nat /\ Len(m.key) >= 1
      BY <1>10 DEF MsgFits, Msg
    <3> QED
      BY <1>10, <3>1 DEF MsgFits, AllKnown
  <2>2. m.key[1] # st.root[1]
    BY <1>1, <1>4, <1>5, <2>1
  <2>3. 1 \in 1..Len(m.key) /\ 1 <= Len(st.root)
    BY <1>4, <1>5, <2>1 DEF Msg
  <2> QED
    BY <2>2, <2>3 DEF Spent
<1>11. NewlyFits(f, g, base, once, st)
  BY <1>3, <1>4, <1>9, <1>10 DEF NewlyFits
<1> QED
  BY <1>11 DEF st, base, eph, spk, SignedPreKey
-----------------------------------------------------------------------------
(* o is what reading m makes of st, with the key pair own for a vars    *)
(* step.                                                                   *)
Grown(st, m, own, o) ==
    /\ o \in State /\ o.base = st.base /\ o.pending = {}
    /\ Len(m.key) >= 1 /\ Len(m.key) < Len(o.root)
    /\ Len(st.root) >= 1 => m.key[1] = st.root[1]
    /\ Len(o.root) >= Len(st.root)
    /\ \A j \in 1..Len(st.root) : o.root[j] = st.root[j]
    /\ IF ChainsOf(st, m.eph) # {}
       THEN o.root = st.root /\ o.key = st.key /\ o.eph = st.eph
       ELSE /\ o.eph = own /\ o.key = o.root
            /\ Len(o.root) = Len(st.root) + 2
            /\ o.root[Len(st.root) + 1] = {m.eph, st.eph}
            /\ o.root[Len(st.root) + 2] = {m.eph, own}

(* What reading a message does to the root of a state.                     *)
LEMMA OpenedRoot ==
  ASSUME NEW st \in State, NEW m \in Msg, NEW own \in KeyPair,
         ChainsFit(st), Opened(st, m, own).verdict = "read"
  PROVE  Grown(st, m, own, Opened(st, m, own).state)
<1> DEFINE r == Ratcheted(st, m.eph, own)
           o == Opened(st, m, own).state
           in == Append(st.root, {m.eph, st.eph})
<1> SUFFICES Grown(st, m, own, o)
  OBVIOUS
<1>1. PICK i \in 1..Len(r.chains) :
         ReadFrom(st, m, r, i) /\ Opens(m, r, i, o) /\ CanRead(m, r.chains[i])
  BY Opening
<1>2. Len(st.root) \in Nat /\ m.eph \in KeyPair
  BY DEF State, Msg
<1>3. ChainsOf(st, m.eph) = {} => Stepped(st, m.eph, own, r) /\ Begun(st, m.eph, in)
  BY <1>2, RatchetedIs
<1> HIDE DEF o, r, in
<1>4. /\ IF ChainsOf(st, m.eph) # {} THEN r = st
         ELSE r.chains[i] = NewChain(m.eph, in)
      /\ o \in State /\ o.base = r.base /\ o.root = r.root
      /\ o.eph = r.eph /\ o.key = r.key /\ o.pending = {}
      /\ m.key = r.chains[i].key
  BY <1>1 DEF ReadFrom, Opens, CanRead, in
<1>5. ChainsOf(st, m.eph) = {} =>
        /\ r.base = st.base /\ r.eph = own /\ r.key = r.root
        /\ Len(in) = Len(st.root) + 1
        /\ Len(r.root) = Len(st.root) + 2
        /\ \A j \in 1..Len(st.root) : in[j] = st.root[j] /\ r.root[j] = st.root[j]
        /\ r.root[Len(st.root) + 1] = {m.eph, st.eph}
        /\ r.root[Len(st.root) + 2] = {m.eph, own}
  BY <1>3 DEF Stepped, Begun
<1>6. CASE ChainsOf(st, m.eph) # {}
  <2>1. r = st
    BY <1>4, <1>6
  <2>2. /\ i \in 1..Len(st.chains) /\ st.chains[i].key = m.key
    BY <1>4, <2>1
  <2>3. Len(m.key) >= 1 /\ StartOf(m.key, st.root)
    BY <2>2 DEF ChainsFit
  <2>4. m.key[1] = st.root[1] /\ Len(m.key) < Len(st.root)
    BY <2>3 DEF StartOf, Msg
  <2> QED
    BY <1>4, <1>2, <1>6, <2>1, <2>3, <2>4 DEF Grown
<1>7. CASE ChainsOf(st, m.eph) = {}
  <2>1. /\ r.base = st.base /\ r.eph = own /\ r.key = r.root
        /\ Len(in) = Len(st.root) + 1
        /\ Len(r.root) = Len(st.root) + 2
        /\ \A j \in 1..Len(st.root) : in[j] = st.root[j] /\ r.root[j] = st.root[j]
        /\ r.root[Len(st.root) + 1] = {m.eph, st.eph}
        /\ r.root[Len(st.root) + 2] = {m.eph, own}
    BY <1>7, <1>5
  <2>2. r.chains[i].key = in
    BY <1>4, <1>7 DEF NewChain, in
  <2>3. m.key = in
    BY <1>4, <2>2
  <2>4. Len(st.root) >= 1 => m.key[1] = st.root[1]
    BY <1>2, <2>1, <2>3
  <2>5. Len(m.key) >= 1 /\ Len(m.key) < Len(o.root)
    BY <1>4, <1>2, <2>1, <2>3
  <2> QED
    BY <1>4, <1>2, <1>7, <2>1, <2>3, <2>4, <2>5 DEF Grown
<1> QED
  BY <1>6, <1>7

(* Its chains are those it had and one that was read from. *)
LEMMA OpenedChains ==
  ASSUME NEW st \in State, NEW m \in Msg, NEW own \in KeyPair,
         ChainsFit(st), Opened(st, m, own).verdict = "read"
  PROVE  LET o == Opened(st, m, own).state
         IN /\ ChainsFit(o)
            /\ Spent(m, o)
            /\ \A k \in Msg : Spent(k, st) => Spent(k, o)
<1> DEFINE r == Ratcheted(st, m.eph, own)
           o == Opened(st, m, own).state
           in == Append(st.root, {m.eph, st.eph})
<1>1. PICK i \in 1..Len(r.chains) :
         ReadFrom(st, m, r, i) /\ Opens(m, r, i, o) /\ CanRead(m, r.chains[i])
  BY Opening
<1>2. m.eph \in KeyPair
  BY DEF Msg
<1>3. ChainsOf(st, m.eph) = {} => Stepped(st, m.eph, own, r) /\ Begun(st, m.eph, in)
  BY <1>2, RatchetedIs
<1>4. Grown(st, m, own, o)
  BY OpenedRoot
<1> HIDE DEF o, r, in
<1>5. /\ Len(m.key) >= 1 /\ Len(m.key) < Len(o.root)
      /\ Len(o.root) >= Len(st.root)
      /\ \A j \in 1..Len(st.root) : o.root[j] = st.root[j]
  BY <1>4 DEF Grown
<1>6. /\ r \in State
      /\ IF ChainsOf(st, m.eph) # {} THEN r = st
         ELSE /\ r.chains[i] = NewChain(m.eph, in)
              /\ \E d \in {0, 1} : \A k \in 1..Len(r.chains) : k # i =>
                    k + d \in 1..Len(st.chains) /\ r.chains[k] = st.chains[k + d]
      /\ o \in State /\ o.root = r.root
      /\ Len(o.chains) = Len(r.chains)
      /\ o.chains[i] = Take(r.chains[i], m.n)
      /\ \A k \in 1..Len(r.chains) : k # i => o.chains[k] = r.chains[k]
      /\ m.key = r.chains[i].key
  BY <1>1 DEF ReadFrom, Opens, CanRead, in
<1>7. /\ r.chains[i] \in Chain /\ m.n \in Nat
      /\ st.chains \in Seq(Chain)
      /\ Len(st.root) \in Nat /\ Len(o.root) \in Nat /\ Len(m.key) \in Nat
  BY <1>6 DEF State, Msg
<1> DEFINE t == Take(r.chains[i], m.n)
<1>8. /\ t.key = m.key
      /\ m.n < t.index /\ m.n \notin t.skipped
      /\ \A k \in Nat : k < r.chains[i].index /\ k \notin r.chains[i].skipped =>
            k < t.index /\ k \notin t.skipped
  BY <1>6, <1>7, TakenIs
<1>9. (ChainsOf(st, m.eph) = {} =>
        /\ Len(in) = Len(st.root) + 1 /\ Len(r.root) = Len(st.root) + 2
        /\ \A j \in 1..Len(st.root) : in[j] = st.root[j] /\ r.root[j] = st.root[j]
        /\ in[Len(st.root) + 1] = {m.eph, st.eph}
        /\ r.root[Len(st.root) + 1] = {m.eph, st.eph})
  BY <1>3 DEF Stepped, Begun
<1> HIDE DEF t
<1>10. ChainsOf(st, m.eph) = {} =>
         /\ r.chains[i].key = in /\ Len(in) = Len(st.root) + 1
         /\ Len(r.root) = Len(st.root) + 2
         /\ \A j \in 1..Len(st.root) + 1 : in[j] = r.root[j]
  <2> SUFFICES ASSUME ChainsOf(st, m.eph) = {}
               PROVE  /\ r.chains[i].key = in /\ Len(in) = Len(st.root) + 1
                      /\ Len(r.root) = Len(st.root) + 2
                      /\ \A j \in 1..Len(st.root) + 1 : in[j] = r.root[j]
    OBVIOUS
  <2>1. r.chains[i].key = in
    BY <1>6 DEF NewChain
  <2>2. /\ Len(in) = Len(st.root) + 1 /\ Len(r.root) = Len(st.root) + 2
        /\ \A j \in 1..Len(st.root) : in[j] = st.root[j] /\ r.root[j] = st.root[j]
        /\ in[Len(st.root) + 1] = {m.eph, st.eph}
        /\ r.root[Len(st.root) + 1] = {m.eph, st.eph}
    BY <1>9
  <2>3. \A j \in 1..Len(st.root) + 1 : j \in 1..Len(st.root) \/ j = Len(st.root) + 1
    BY <1>7
  <2> QED
    BY <2>1, <2>2, <2>3
(* Keys of the other chains are kept, and differ from that of the message. *)
<1>11. \E d \in {0, 1} : \A k \in 1..Len(r.chains) : k # i =>
         k + d \in 1..Len(st.chains) /\ r.chains[k] = st.chains[k + d]
  <2>1. CASE ChainsOf(st, m.eph) # {}
    <3>1. r = st
      BY <1>6, <2>1
    <3>2. \A k \in 1..Len(r.chains) : k + 0 = k
      OBVIOUS
    <3> QED
      BY <3>1, <3>2
  <2> QED
    BY <1>6, <2>1
<1>12. ASSUME NEW k \in 1..Len(r.chains)
      PROVE  Len(r.chains[k].key) >= 1 /\ StartOf(r.chains[k].key, o.root)
  <2>1. CASE k = i
    <3>1. r.chains[k].key = m.key
      BY <1>6, <2>1
    <3>2. CASE ChainsOf(st, m.eph) # {}
      <4>1. r = st
        BY <1>6, <3>2
      <4> QED
        BY <1>6, <4>1 DEF ChainsFit
    <3>3. CASE ChainsOf(st, m.eph) = {}
      <4>1. m.key = in /\ o.root = r.root
        BY <1>6, <1>10, <3>3
      <4>2. Len(in) < Len(o.root) /\ \A j \in 1..Len(in) : in[j] = o.root[j]
        BY <1>7, <1>10, <3>3, <4>1
      <4> QED
        BY <1>5, <3>1, <4>1, <4>2 DEF StartOf
    <3> QED
      BY <3>2, <3>3
  <2>2. CASE k # i
    <3>1. PICK l \in 1..Len(st.chains) : r.chains[k] = st.chains[l]
      BY <1>11, <2>2
    <3>2. st.chains[l] \in Chain
      BY <1>7
    <3>3. Len(st.chains[l].key) >= 1 /\ StartOf(st.chains[l].key, st.root)
      BY DEF ChainsFit
    <3>4. Len(st.chains[l].key) \in Nat
      BY <3>2 DEF Chain
    <3>5. /\ Len(st.chains[l].key) < Len(o.root)
          /\ \A j \in 1..Len(st.chains[l].key) : j \in 1..Len(st.root)
      BY <1>5, <1>7, <3>3, <3>4 DEF StartOf
    <3>6. StartOf(st.chains[l].key, o.root)
      BY <1>5, <3>3, <3>5 DEF StartOf
    <3> QED
      BY <3>1, <3>3, <3>6
  <2> QED
    BY <2>1, <2>2
<1>13. ASSUME NEW k \in 1..Len(r.chains), NEW l \in 1..Len(r.chains),
             r.chains[k].key = r.chains[l].key
      PROVE  k = l
  <2>1. CASE ChainsOf(st, m.eph) # {}
    BY <1>6, <1>13, <2>1 DEF ChainsFit
  <2>2. CASE ChainsOf(st, m.eph) = {}
    <3>1. ASSUME NEW n \in 1..Len(r.chains), n # i
          PROVE  Len(r.chains[n].key) < Len(st.root)
      <4>1. PICK x \in 1..Len(st.chains) : r.chains[n] = st.chains[x]
        BY <1>11, <3>1
      <4> QED
        BY <4>1 DEF ChainsFit, StartOf
    <3>2. ~(Len(r.chains[i].key) < Len(st.root))
      BY <1>7, <1>10, <2>2
    <3>3. CASE k # i /\ l # i
      <4>1. PICK d \in {0, 1} : \A x \in 1..Len(r.chains) : x # i =>
               x + d \in 1..Len(st.chains) /\ r.chains[x] = st.chains[x + d]
        BY <1>11
      <4>2. /\ k + d \in 1..Len(st.chains) /\ l + d \in 1..Len(st.chains)
            /\ r.chains[k] = st.chains[k + d] /\ r.chains[l] = st.chains[l + d]
        BY <3>3, <4>1
      <4>3. st.chains[k + d].key = st.chains[l + d].key
        BY <1>13, <4>2
      <4>4. k + d = l + d
        BY <4>2, <4>3 DEF ChainsFit
      <4> QED
        BY <4>4
    <3> QED
      BY <1>13, <3>1, <3>2, <3>3
  <2> QED
    BY <2>1, <2>2
(* Only what was taken of a chain changed. *)
<1>14. ASSUME NEW k \in 1..Len(r.chains)
       PROVE  o.chains[k].key = r.chains[k].key
  BY <1>6, <1>8 DEF t
<1>15. ChainsFit(o)
  BY <1>6, <1>12, <1>13, <1>14 DEF ChainsFit
<1>16. Spent(m, o)
  <2>1. ASSUME NEW k \in 1..Len(o.chains), o.chains[k].key = m.key
        PROVE  m.n < o.chains[k].index /\ m.n \notin o.chains[k].skipped
    <3>1. k = i
      BY <1>6, <1>13, <1>14, <2>1
    <3> QED
      BY <1>6, <1>8, <3>1 DEF t
  <2> QED
    BY <1>5, <2>1 DEF Spent
<1>17. ASSUME NEW k \in Msg, Spent(k, st) PROVE Spent(k, o)
  <2>1. CASE \E j \in 1..Len(k.key) : j <= Len(st.root) /\ k.key[j] # st.root[j]
    <3>1. PICK j \in 1..Len(k.key) : j <= Len(st.root) /\ k.key[j] # st.root[j]
      BY <2>1
    <3>2. j \in 1..Len(st.root) /\ j <= Len(o.root)
      BY <1>5, <1>7, <3>1 DEF Msg
    <3> QED
      BY <1>5, <3>1, <3>2 DEF Spent
  <2>2. CASE /\ Len(k.key) < Len(st.root)
             /\ \A x \in 1..Len(st.chains) :
                   st.chains[x].key = k.key =>
                      k.n < st.chains[x].index /\ k.n \notin st.chains[x].skipped
    <3>1. Len(k.key) \in Nat /\ k.n \in Nat
      BY DEF Msg
    <3>2. Len(k.key) < Len(o.root)
      BY <1>5, <1>7, <2>2, <3>1
    <3>3. ASSUME NEW x \in 1..Len(r.chains), r.chains[x].key = k.key
          PROVE  k.n < r.chains[x].index /\ k.n \notin r.chains[x].skipped
      <4>1. CASE \E y \in 1..Len(st.chains) : r.chains[x] = st.chains[y]
        BY <2>2, <3>3, <4>1
      <4>2. CASE ChainsOf(st, m.eph) = {} /\ x = i
        BY <1>7, <1>10, <2>2, <3>1, <3>3, <4>2
      <4>3. x # i => \E y \in 1..Len(st.chains) : r.chains[x] = st.chains[y]
        BY <1>11
      <4>4. ChainsOf(st, m.eph) # {} => r = st
        BY <1>6
      <4> QED
        BY <4>1, <4>2, <4>3, <4>4
    <3>4. ASSUME NEW x \in 1..Len(o.chains), o.chains[x].key = k.key
          PROVE  k.n < o.chains[x].index /\ k.n \notin o.chains[x].skipped
      <4>1. k.n < r.chains[x].index /\ k.n \notin r.chains[x].skipped
        BY <1>6, <1>14, <3>3, <3>4
      <4> QED
        BY <1>6, <1>8, <3>1, <4>1 DEF t
    <3> QED
      BY <3>2, <3>4 DEF Spent
  <2> QED
    BY <1>17, <2>1, <2>2 DEF Spent
<1> QED
  BY <1>15, <1>16, <1>17 DEF o

(* The state of a session that is being built from its first message. *)
Blank(st) == Len(st.root) = 1 /\ st.chains = <<>>

(* o is what became of st, which read m, while key pairs f became g. *)
Renewed(f, g, st, m, o) ==
    /\ o \in State /\ StateFits(g, o)
    /\ o.base = st.base /\ m.key[1] = {o.base}
    /\ o.pending = {} /\ Spent(m, o)
    /\ \A k \in Msg : Spent(k, st) => Spent(k, o)
    /\ \A k \in Msg : MsgFits(f, k) /\ Blank(st) /\ Len(k.key) >= 3 => Spent(k, o)

(* A state that fits, or is being built, fits once it has read a message, and *)
(* that message is spent.                                                  *)
LEMMA OpenedFits ==
  ASSUME NEW f \in Counts, NEW g \in Counts, NoLess(f, g), NEW p \in Parties,
         NEW st \in State, NEW m \in Msg, MsgFits(f, m),
         StateFits(f, st) \/ (Blank(st) /\ RootFits(f, st)),
         Opened(st, m, <<p, f[p] + 1>>).verdict = "read",
         Opened(st, m, <<p, f[p] + 1>>).state.eph = <<p, f[p] + 1>> => g[p] = f[p] + 1
  PROVE  Renewed(f, g, st, m, Opened(st, m, <<p, f[p] + 1>>).state)
<1> DEFINE own == <<p, f[p] + 1>>
           o   == Opened(st, m, own).state
<1> SUFFICES Renewed(f, g, st, m, o)
  OBVIOUS
<1>1. /\ own \in KeyPair /\ ~Known(f, own) /\ own[2] >= 1 /\ f[p] \in Nat
      /\ g[p] = f[p] + 1 => Known(g, own)
  BY NewIsUnknown DEF Counts, Known
<1>2. ChainsFit(st) /\ RootFits(f, st)
  BY DEF StateFits, RootFits
<1>3. Opened(st, m, own).verdict = "read" /\ (o.eph = own => g[p] = f[p] + 1)
  OBVIOUS
<1> HIDE DEF own
<1>4. Grown(st, m, own, o)
  BY <1>1, <1>2, <1>3, OpenedRoot
<1>5. /\ ChainsFit(o) /\ Spent(m, o)
      /\ \A k \in Msg : Spent(k, st) => Spent(k, o)
  <2>1. ChainsFit(o) /\ Spent(m, o)
    BY <1>1, <1>2, <1>3, OpenedChains
  <2>2. \A k \in Msg : Spent(k, st) => Spent(k, o)
    BY <1>1, <1>2, <1>3, OpenedChains
  <2> QED
    BY <2>1, <2>2
<1>6. ChainsOf(st, m.eph) # {} => \E l \in 1..Len(st.chains) : st.chains[l].eph = m.eph
  <2>1. st.chains \in Seq(Chain)
    BY DEF State
  <2> QED
    BY <2>1 DEF ChainsOf
<1> HIDE DEF o
<1>7. /\ o \in State /\ o.base = st.base /\ o.pending = {}
      /\ Len(m.key) >= 1 /\ Len(m.key) < Len(o.root)
      /\ Len(st.root) >= 1 => m.key[1] = st.root[1]
      /\ Len(o.root) >= Len(st.root)
      /\ \A j \in 1..Len(st.root) : o.root[j] = st.root[j]
      /\ IF ChainsOf(st, m.eph) # {}
         THEN o.root = st.root /\ o.key = st.key /\ o.eph = st.eph
         ELSE /\ o.eph = own /\ o.key = o.root
              /\ Len(o.root) = Len(st.root) + 2
              /\ o.root[Len(st.root) + 1] = {m.eph, st.eph}
              /\ o.root[Len(st.root) + 2] = {m.eph, own}
  BY <1>4 DEF Grown
<1>8. /\ st.root \in Seq(Agreement) /\ st.eph \in KeyPair /\ m.eph \in KeyPair
      /\ Len(st.root) \in Nat /\ o.root \in Seq(Agreement) /\ Len(o.root) \in Nat
      /\ Len(m.key) \in Nat
  BY <1>7 DEF State, Msg
<1>9. /\ Len(st.root) >= 1 /\ st.root[1] = {st.base} /\ st.key = st.root
      /\ AllKnown(f, st.root) /\ Known(f, st.eph)
      /\ Known(f, m.eph) /\ m.eph[2] >= 1
  BY <1>2 DEF RootFits, MsgFits
<1>10. AllKnown(g, st.root) /\ Known(g, st.eph) /\ Known(g, m.eph)
  BY <1>8, <1>9, KnownMore
<1>11. m.key[1] = {o.base} /\ o.root[1] = {o.base} /\ Len(o.root) >= 3
  <2>1. 1 \in 1..Len(st.root)
    BY <1>8, <1>9
  <2>2. CASE Blank(st)
    <3>1. ChainsOf(st, m.eph) = {}
      BY <1>6, <2>2 DEF Blank
    <3> QED
      BY <1>7, <1>9, <2>1, <2>2, <3>1 DEF Blank
  <2>3. CASE StateFits(f, st)
    <3>1. Len(st.root) = 2 => ChainsOf(st, m.eph) = {}
      BY <1>6, <1>9, <2>3 DEF StateFits
    <3>2. Len(st.root) = 2 \/ Len(st.root) >= 3
      BY <2>3 DEF StateFits
    <3>3. m.key[1] = {o.base} /\ o.root[1] = {o.base}
      BY <1>7, <1>9, <2>1
    <3>4. CASE ChainsOf(st, m.eph) = {}
      <4>1. Len(o.root) = Len(st.root) + 2
        BY <1>7, <3>4
      <4> QED
        BY <1>8, <1>9, <3>3, <4>1
    <3>5. CASE ChainsOf(st, m.eph) # {}
      <4>1. o.root = st.root
        BY <1>7, <3>5
      <4> QED
        BY <3>1, <3>2, <3>3, <3>5, <4>1
    <3> QED
      BY <3>4, <3>5
  <2> QED
    BY <2>2, <2>3
<1>12. CASE ChainsOf(st, m.eph) # {}
  <2>1. o.root = st.root /\ o.key = o.root /\ o.eph = st.eph /\ ~Blank(st)
    BY <1>7, <1>6, <1>9, <1>12 DEF Blank
  <2>2. RootFits(g, o)
    BY <1>5, <1>9, <1>10, <1>11, <2>1 DEF RootFits
  <2>3. StateFits(g, o)
    BY <1>7, <1>11, <2>1, <2>2 DEF StateFits
  <2> QED
    BY <1>7, <1>5, <1>11, <2>1, <2>3 DEF Renewed
<1>13. CASE ChainsOf(st, m.eph) = {}
  <2>1. Known(g, own) /\ o.eph = own /\ o.key = o.root
    BY <1>1, <1>3, <1>7, <1>13
  <2>2. AllKnown(g, o.root)
    <3>1. ASSUME NEW j \in 1..Len(o.root), NEW k \in o.root[j] PROVE Known(g, k)
      <4>1. CASE j \in 1..Len(st.root)
        BY <1>7, <1>10, <4>1 DEF AllKnown
      <4>2. CASE j = Len(st.root) + 1
        BY <1>7, <1>10, <1>13, <4>2
      <4>3. CASE j = Len(st.root) + 2
        BY <1>7, <1>10, <1>13, <2>1, <4>3
      <4> QED
        BY <1>7, <1>8, <1>13, <4>1, <4>2, <4>3
    <3> QED
      BY <3>1 DEF AllKnown
  <2>3. RootFits(g, o)
    BY <1>5, <1>11, <2>1, <2>2 DEF RootFits
  <2>4. StateFits(g, o)
    BY <1>1, <1>7, <1>11, <2>1, <2>3 DEF StateFits
  <2>5. ASSUME NEW k \in Msg, MsgFits(f, k), Blank(st), Len(k.key) >= 3
        PROVE  Spent(k, o)
    <3>1. o.root[3] = {m.eph, own} /\ 3 <= Len(o.root)
      BY <1>7, <1>13, <2>5 DEF Blank
    <3>2. 3 \in 1..Len(k.key)
      BY <2>5 DEF Msg
    <3>3. \A x \in k.key[3] : Known(f, x)
      BY <2>5, <3>2 DEF MsgFits, AllKnown
    <3>4. k.key[3] # o.root[3]
      BY <1>1, <3>1, <3>3
    <3> QED
      BY <3>1, <3>2, <3>4 DEF Spent
  <2> QED
    BY <1>7, <1>5, <1>11, <2>4, <2>5 DEF Renewed
<1> QED
  BY <1>12, <1>13

(* What a record becomes when a state is put before the others. *)
LEMMA PromoteIs ==
  ASSUME NEW st \in State, NEW others \in Seq(State)
  PROVE  LET r == Promote(st, others)
         IN /\ r \in Record /\ r[1] = st
            /\ Len(r) = IF Len(others) > MaxArchived THEN MaxArchived + 1
                        ELSE Len(others) + 1
            /\ \A k \in 2..Len(r) : r[k] = others[k - 1] /\ k - 1 \in 1..Len(others)
<1> DEFINE n == IF Len(others) > MaxArchived THEN MaxArchived ELSE Len(others)
           s == SubSeq(others, 1, n)
<1>1. n \in 0..Len(others)
  BY SessionAssumption
<1>2. n = IF Len(others) > MaxArchived THEN MaxArchived ELSE Len(others)
  OBVIOUS
<1> HIDE DEF n
<1>3. s \in Seq(State) /\ Len(s) = n /\ \A k \in 1..n : s[k] = others[k]
  BY <1>1
<1>4. Promote(st, others) = <<st>> \o s
  BY DEF Promote, s, n
<1> HIDE DEF s
<1>5. /\ Len(<<st>> \o s) = n + 1
      /\ \A k \in 2..(n + 1) : (<<st>> \o s)[k] = s[k - 1]
  BY <1>1, <1>3
<1>6. \A k \in 2..(n + 1) : k - 1 \in 1..n /\ k - 1 \in 1..Len(others)
  BY <1>1
<1>7. Promote(st, others) \in Record /\ Promote(st, others)[1] = st
  BY PromoteType
<1>8. n + 1 = IF Len(others) > MaxArchived THEN MaxArchived + 1 ELSE Len(others) + 1
  BY <1>2
<1> QED
  BY <1>3, <1>4, <1>5, <1>6, <1>7, <1>8

(* A message that is read moves the state that read it to the front. *)
LEMMA DecryptedIs ==
  ASSUME NEW r \in Record, NEW m \in Msg, NEW own \in KeyPair,
         Decrypted(r, m, own).verdict = "read"
  PROVE  \E i \in 1..Len(r) :
            LET d == Decrypted(r, m, own).record
            IN /\ Opened(r[i], m, own).verdict = "read"
               /\ d \in Record /\ Len(d) = Len(r)
               /\ d[1] = Opened(r[i], m, own).state
               /\ \A k \in 2..Len(r) : d[k] = r[IF k <= i THEN k - 1 ELSE k]
<1> DEFINE i == CHOOSE j \in Readers(r, m, own) :
                  \A k \in Readers(r, m, own) : j <= k
           o == Opened(r[i], m, own)
           rest == RemoveAt(r, i)
<1>1. Readers(r, m, own) # {}
  BY DEF Decrypted
<1>2. i \in Readers(r, m, own)
  <2>1. Readers(r, m, own) \subseteq Nat
    BY DEF Readers, Record
  <2>2. \E j \in Readers(r, m, own) : \A k \in Readers(r, m, own) : j <= k
    BY <1>1, <2>1, LeastNumber
  <2> QED
    BY <2>2
<1>3. /\ o.verdict # "duplicate"
      /\ Decrypted(r, m, own).record = Promote(o.state, rest)
  BY <1>1 DEF Decrypted
<1> HIDE DEF i
<1>4. /\ r \in Seq(State) /\ i \in 1..Len(r) /\ r[i] \in State
      /\ Len(r) <= MaxArchived + 1 /\ o.verdict # "invalid"
  BY <1>2 DEF Readers, Record
<1>5. o.verdict = "read"
  BY <1>3, <1>4 DEF Opened
<1>6. o.state \in State
  BY <1>4, OpenedType
<1> HIDE DEF o
<1>7. /\ rest \in Seq(State) /\ Len(rest) = Len(r) - 1
      /\ \A k \in 1..(Len(r) - 1) : rest[k] = r[IF k < i THEN k ELSE k + 1]
  <2> DEFINE a == SubSeq(r, 1, i - 1)
             b == SubSeq(r, i + 1, Len(r))
  <2>1. a \in Seq(State) /\ Len(a) = i - 1 /\ \A n \in 1..(i - 1) : a[n] = r[n]
    BY <1>4
  <2>2. /\ b \in Seq(State) /\ Len(b) = Len(r) - i
        /\ \A n \in 1..(Len(r) - i) : b[n] = r[i + n]
    BY <1>4
  <2>3. rest = a \o b
    BY DEF RemoveAt
  <2> HIDE DEF a, b, rest
  <2>4. /\ a \o b \in Seq(State) /\ Len(a \o b) = Len(r) - 1
        /\ \A n \in 1..(Len(r) - 1) :
              (a \o b)[n] = IF n <= i - 1 THEN a[n] ELSE b[n - (i - 1)]
    BY <1>4, <2>1, <2>2
  <2>5. ASSUME NEW n \in 1..(Len(r) - 1)
        PROVE  (a \o b)[n] = r[IF n < i THEN n ELSE n + 1]
    <3>1. CASE n < i
      BY <1>4, <2>1, <2>4, <3>1
    <3>2. CASE ~(n < i)
      <4>1. n - (i - 1) \in 1..(Len(r) - i) /\ i + (n - (i - 1)) = n + 1
        BY <1>4, <3>2
      <4>6. n <= i - 1 <=> n < i
        BY <1>4
      <4>2. (a \o b)[n] = b[n - (i - 1)]
        BY <2>4, <3>2, <4>6
      <4>3. b[n - (i - 1)] = r[n + 1]
        BY <2>2, <4>1
      <4>4. (IF n < i THEN n ELSE n + 1) = n + 1
        BY <3>2
      <4>5. (a \o b)[n] = r[n + 1]
        BY <4>2, <4>3
      <4> QED
        BY <4>4, <4>5
    <3> QED
      BY <3>1, <3>2
  <2> QED
    BY <2>3, <2>4, <2>5
<1> HIDE DEF rest
<1> DEFINE d == Promote(o.state, rest)
<1>8. /\ d \in Record /\ d[1] = o.state
      /\ Len(d) = IF Len(rest) > MaxArchived THEN MaxArchived + 1 ELSE Len(rest) + 1
      /\ \A k \in 2..Len(d) : d[k] = rest[k - 1] /\ k - 1 \in 1..Len(rest)
  BY <1>6, <1>7, PromoteIs
<1> HIDE DEF d
<1>9. Len(d) = Len(r)
  BY <1>4, <1>7, <1>8, SessionAssumption
<1>10. ASSUME NEW k \in 2..Len(r) PROVE d[k] = r[IF k <= i THEN k - 1 ELSE k]
  <2>1. d[k] = rest[k - 1] /\ k - 1 \in 1..(Len(r) - 1)
    BY <1>4, <1>8, <1>9
  <2>2. rest[k - 1] = r[IF k - 1 < i THEN k - 1 ELSE (k - 1) + 1]
    BY <1>7, <2>1
  <2>3. (k - 1 < i <=> k <= i) /\ (k - 1) + 1 = k
    BY <1>4
  <2> QED
    BY <2>1, <2>2, <2>3
<1>11. Decrypted(r, m, own).record = d
  BY <1>3 DEF d
<1> QED
  BY <1>4, <1>5, <1>8, <1>9, <1>10, <1>11 DEF o
-----------------------------------------------------------------------------
(* The states of a record belong to different sessions. *)
Distinct(r) == \A i, j \in 1..Len(r) : r[i].base = r[j].base => i = j

(* s is r with its first state put there anew; only a full record loses a  *)
(* session.                                                                *)
Follows(r, s) ==
    /\ s \in Record /\ Len(s) >= 1 /\ Len(s) >= Len(r) /\ Distinct(s)
    /\ \A k \in 2..Len(s) : \E j \in 1..Len(r) : s[k] = r[j]
    /\ \A j \in 1..Len(r) :
          HasSessionState(s, r[j].base) \/ Len(s) = MaxArchived + 1

(* A state of a session the record does not have is put first.             *)
LEMMA PromoteFollows ==
  ASSUME NEW st \in State, NEW r \in Record, Distinct(r),
         ~HasSessionState(r, st.base)
  PROVE  Follows(r, Promote(st, r)) /\ Promote(st, r)[1] = st
<1> DEFINE s == Promote(st, r)
<1>1. r \in Seq(State) /\ Len(r) <= MaxArchived + 1 /\ Len(r) \in Nat
  BY DEF Record
<1>2. /\ s \in Record /\ s[1] = st
      /\ Len(s) = IF Len(r) > MaxArchived THEN MaxArchived + 1 ELSE Len(r) + 1
      /\ \A k \in 2..Len(s) : s[k] = r[k - 1] /\ k - 1 \in 1..Len(r)
  BY <1>1, PromoteIs
<1> HIDE DEF s
<1>3. Len(s) >= 1 /\ Len(s) >= Len(r) /\ Len(s) \in Nat
  BY <1>1, <1>2, SessionAssumption
<1>4. \A j \in 1..Len(r) : r[j].base # st.base
  BY <1>1 DEF HasSessionState
<1>5. Distinct(s)
  <2>1. ASSUME NEW i \in 1..Len(s), NEW j \in 1..Len(s), s[i].base = s[j].base
        PROVE  i = j
    <3>1. CASE i = 1 \/ j = 1
      <4>1. \A k \in 1..Len(s) : k = 1 \/ k \in 2..Len(s)
        BY <1>3
      <4> QED
        BY <1>2, <1>4, <2>1, <3>1, <4>1
    <3>2. CASE i # 1 /\ j # 1
      <4>1. i \in 2..Len(s) /\ j \in 2..Len(s)
        BY <1>3, <3>2
      <4>2. /\ i - 1 \in 1..Len(r) /\ j - 1 \in 1..Len(r)
            /\ r[i - 1].base = r[j - 1].base
        BY <1>2, <2>1, <4>1
      <4>3. i - 1 = j - 1
        BY <4>2 DEF Distinct
      <4> QED
        BY <4>1, <4>3
    <3> QED
      BY <3>1, <3>2
  <2> QED
    BY <2>1 DEF Distinct
<1>6. ASSUME NEW j \in 1..Len(r)
      PROVE  HasSessionState(s, r[j].base) \/ Len(s) = MaxArchived + 1
  <2>1. CASE Len(s) = MaxArchived + 1
    BY <2>1
  <2>2. CASE Len(s) # MaxArchived + 1
    <3>1. j + 1 \in 2..Len(s) /\ j + 1 \in 1..Len(s) /\ (j + 1) - 1 = j
      BY <1>1, <1>2, <2>2
    <3>2. s[j + 1] = r[j]
      BY <1>2, <3>1
    <3>3. DOMAIN s = 1..Len(s)
      BY <1>2 DEF Record
    <3> QED
      BY <3>1, <3>2, <3>3 DEF HasSessionState
  <2> QED
    BY <2>1, <2>2
<1>7. Follows(r, s)
  BY <1>2, <1>3, <1>5, <1>6 DEF Follows
<1> QED
  BY <1>2, <1>7 DEF s

(* s is r after state i was opened with m and put first. *)
Moved(r, m, own, i, s) ==
    /\ Follows(r, s) /\ Len(s) = Len(r)
    /\ Opened(r[i], m, own).verdict = "read"
    /\ s[1] = Opened(r[i], m, own).state
    /\ i = 1 => \A k \in 2..Len(s) : s[k] = r[k]

(* Reading keeps the sessions of a record, the one that read it first. *)
LEMMA DecryptedFollows ==
  ASSUME NEW r \in Record, Distinct(r), NEW m \in Msg, NEW own \in KeyPair,
         \A i \in 1..Len(r) : ChainsFit(r[i]),
         Decrypted(r, m, own).verdict = "read"
  PROVE  \E i \in 1..Len(r) : Moved(r, m, own, i, Decrypted(r, m, own).record)
<1> DEFINE s == Decrypted(r, m, own).record
<1>1. PICK i \in 1..Len(r) :
         /\ Opened(r[i], m, own).verdict = "read"
         /\ s \in Record /\ Len(s) = Len(r)
         /\ s[1] = Opened(r[i], m, own).state
         /\ \A k \in 2..Len(r) : s[k] = r[IF k <= i THEN k - 1 ELSE k]
  BY DecryptedIs
<1> HIDE DEF s
<1>2. Len(r) \in Nat /\ r[i] \in State /\ DOMAIN s = 1..Len(s)
  BY <1>1 DEF Record
<1>3. s[1].base = r[i].base
  BY <1>1, <1>2, OpenedRoot DEF Grown
<1> DEFINE From(k) == IF k = 1 THEN i ELSE IF k <= i THEN k - 1 ELSE k
           At(j)   == IF j = i THEN 1 ELSE IF j < i THEN j + 1 ELSE j
<1>4. ASSUME NEW k \in 1..Len(r)
      PROVE  /\ From(k) \in 1..Len(r) /\ At(k) \in 1..Len(r)
             /\ At(From(k)) = k /\ From(At(k)) = k
  BY <1>2
<1>5. ASSUME NEW k \in 1..Len(r) PROVE s[k].base = r[From(k)].base
  <2>1. CASE k = 1
    BY <1>3, <2>1
  <2>2. CASE k # 1
    <3>1. k \in 2..Len(r)
      BY <1>2, <2>2
    <3>2. CASE k <= i
      <4>1. From(k) = k - 1
        BY <2>2, <3>2
      <4>2. s[k] = r[k - 1]
        BY <1>1, <3>1, <3>2
      <4> QED
        BY <4>1, <4>2
    <3>3. CASE ~(k <= i)
      <4>1. From(k) = k
        BY <2>2, <3>3
      <4>2. s[k] = r[k]
        BY <1>1, <3>1, <3>3
      <4> QED
        BY <4>1, <4>2
    <3> QED
      BY <3>2, <3>3
  <2> QED
    BY <2>1, <2>2
<1>6. ASSUME NEW k \in 2..Len(r) PROVE s[k] = r[From(k)] /\ From(k) \in 1..Len(r)
  BY <1>1, <1>2
<1> HIDE DEF From, At
<1>7. Distinct(s)
  <2>1. ASSUME NEW k \in 1..Len(s), NEW j \in 1..Len(s), s[k].base = s[j].base
        PROVE  k = j
    <3>1. k \in 1..Len(r) /\ j \in 1..Len(r)
      BY <1>1
    <3>2. /\ From(k) \in 1..Len(r) /\ From(j) \in 1..Len(r)
          /\ r[From(k)].base = r[From(j)].base
      BY <1>4, <1>5, <2>1, <3>1
    <3>3. From(k) = From(j)
      BY <3>2 DEF Distinct
    <3>4. At(From(k)) = k /\ At(From(j)) = j
      BY <1>4, <3>1
    <3> QED
      BY <3>3, <3>4
  <2> QED
    BY <2>1 DEF Distinct
<1>8. ASSUME NEW j \in 1..Len(r) PROVE HasSessionState(s, r[j].base)
  <2>1. s[At(j)].base = r[j].base /\ At(j) \in DOMAIN s
    BY <1>1, <1>2, <1>4, <1>5
  <2> QED
    BY <2>1 DEF HasSessionState
<1>9. Follows(r, s)
  <2>1. Len(s) >= 1 /\ Len(s) >= Len(r)
    BY <1>1, <1>2
  <2> QED
    BY <1>1, <1>6, <1>7, <1>8, <2>1 DEF Follows
<1>10. i = 1 => \A k \in 2..Len(s) : s[k] = r[k]
  BY <1>1, <1>2
<1>11. Moved(r, m, own, i, s)
  BY <1>1, <1>9, <1>10 DEF Moved
<1> QED
  BY <1>11 DEF s

(* The one-time pre-key a message that fits makes its receiver use. *)
LEMMA NeedsIs ==
  ASSUME NEW f, NEW m \in Msg, MsgFits(f, m), NEW r
  PROVE  /\ m.pre = {} => Unknown(r, m) = {} /\ NeedsPreKey(r, m) = {}
         /\ \A a \in m.pre :
               /\ m.pre = {a} /\ m.key[1] = {a.base} /\ Len(m.key) = 2
               /\ Unknown(r, m) = IF HasSessionState(r, a.base) THEN {} ELSE {a}
               /\ NeedsPreKey(r, m) =
                     IF a.once /\ ~HasSessionState(r, a.base) THEN {a.base} ELSE {}
<1>1. m.pre = {} => Unknown(r, m) = {} /\ NeedsPreKey(r, m) = {}
  BY DEF Unknown, NeedsPreKey
<1>2. ASSUME NEW a \in m.pre
      PROVE  m.pre = {a} /\ m.key[1] = {a.base} /\ Len(m.key) = 2
  BY DEF MsgFits
<1>3. ASSUME NEW a \in m.pre
      PROVE  Unknown(r, m) = IF HasSessionState(r, a.base) THEN {} ELSE {a}
  BY <1>2 DEF Unknown
<1>4. ASSUME NEW a \in m.pre
      PROVE  NeedsPreKey(r, m) =
                IF a.once /\ ~HasSessionState(r, a.base) THEN {a.base} ELSE {}
  BY <1>3 DEF NeedsPreKey
<1> QED
  BY <1>1, <1>2, <1>3, <1>4

(* st is a state of r that read m, or was built from m: then what belongs  *)
(* to another session, or to a later root of an earlier state of this one, *)
(* is nothing it can read.                                                 *)
Continued(r, m, st) ==
    \E i \in 1..Len(r) :
       /\ r[i].base = st.base /\ ~Spent(m, r[i])
       /\ \A k \in Msg : Spent(k, r[i]) => Spent(k, st)

Rebuilt(f, r, m, st) ==
    /\ ~HasSessionState(r, st.base)
    /\ \E a \in m.pre : a.base = st.base
    /\ \A k \in Msg :
          MsgFits(f, k) /\ (k.key[1] # {st.base} \/ Len(k.key) >= 3) => Spent(k, st)

(* So is it what reading m makes of such a state.                          *)
Source(r, m, p, own, st) ==
    \E b \in State :
       /\ Opened(b, m, own).verdict = "read" /\ st = Opened(b, m, own).state
       /\ \/ \E i \in 1..Len(r) : b = r[i]
          \/ \E a \in m.pre : /\ ~HasSessionState(r, a.base)
                              /\ b = BobState(a.base, SignedPreKey(p))

(* The state initializeSessionAsBob makes can only read messages of its own *)
(* session.                                                                *)
LEMMA BobFits ==
  ASSUME NEW f \in Counts, NEW p \in Parties, NEW m \in Msg, MsgFits(f, m),
         NEW a \in m.pre
  PROVE  LET st == BobState(a.base, SignedPreKey(p))
         IN /\ st \in State /\ st.base = a.base /\ Blank(st) /\ RootFits(f, st)
            /\ \A k \in Msg : MsgFits(f, k) /\ k.key[1] # {a.base} => Spent(k, st)
<1> DEFINE base == a.base
           spk  == SignedPreKey(p)
           st   == BobState(base, spk)
           root == <<{base}>>
<1>1. m.key[1] = {base} /\ Len(m.key) = 2
  BY NeedsIs
<1>2. Known(f, base)
  BY <1>1 DEF MsgFits, AllKnown
<1>3. base \in KeyPair /\ spk \in KeyPair /\ Known(f, spk)
  <2>1. a \in Pending_
    BY DEF Msg
  <2>2. f[p] \in Nat
    BY DEF Counts
  <2> QED
    BY <2>1, <2>2 DEF Pending_, SignedPreKey, KeyPair, Known
<1> HIDE DEF base, spk
<1>4. st \in State
  BY <1>3, BobStateType
<1>5. /\ st.base = base /\ st.root = root /\ st.key = root /\ st.eph = spk
      /\ st.chains = <<>> /\ Len(root) = 1 /\ root[1] = {base}
  BY DEF BobState
<1> HIDE DEF st, root
<1>6. Blank(st)
  BY <1>5 DEF Blank
<1>7. AllKnown(f, root)
  BY <1>2, <1>5 DEF AllKnown
<1>8. ChainsFit(st)
  BY <1>5 DEF ChainsFit
<1>9. RootFits(f, st)
  BY <1>3, <1>5, <1>7, <1>8 DEF RootFits
<1>10. ASSUME NEW k \in Msg, MsgFits(f, k), k.key[1] # {base} PROVE Spent(k, st)
  <2>1. Len(k.key) \in Nat
    BY DEF Msg
  <2>2. Len(k.key) >= 1
    BY <1>10 DEF MsgFits
  <2>3. 1 <= Len(st.root) /\ k.key[1] # st.root[1]
    BY <1>5, <1>10
  <2>4. 1 \in 1..Len(k.key)
    BY <2>1, <2>2
  <2> QED
    BY <2>3, <2>4 DEF Spent
<1> QED
  BY <1>4, <1>5, <1>6, <1>9, <1>10 DEF st, base, spk

(* What reading m makes of the record r of p: s.                           *)
ReadTo(f, g, p, r, m, s) ==
    /\ Follows(r, s) /\ StateFits(g, s[1])
    /\ s[1].pending = {} /\ m.key[1] = {s[1].base}
    /\ Spent(m, s[1])
    /\ Continued(r, m, s[1]) \/ Rebuilt(f, r, m, s[1])
    /\ Source(r, m, p, <<p, f[p] + 1>>, s[1])

(* d is what comes of a message that can be read.                          *)
IsRead(f, g, p, r, m, d) ==
    /\ f \in Counts /\ g \in Counts /\ NoLess(f, g) /\ p \in Parties
    /\ r \in Record /\ Distinct(r) /\ \A i \in 1..Len(r) : StateFits(f, r[i])
    /\ m \in Msg /\ MsgFits(f, m)
    /\ d = Decrypted(Built(r, m, SignedPreKey(p)), m, <<p, f[p] + 1>>)
    /\ d.verdict = "read"
    /\ d.record[1].eph = <<p, f[p] + 1>> => g[p] = f[p] + 1

(* What a record is after a message was read. *)
LEMMA ReadIs ==
  ASSUME NEW f, NEW g, NEW p, NEW r, NEW m, NEW d, IsRead(f, g, p, r, m, d)
  PROVE  ReadTo(f, g, p, r, m, d.record)
<1> SUFFICES
      ASSUME f \in Counts, g \in Counts, NoLess(f, g), p \in Parties,
             r \in Record, Distinct(r), \A i \in 1..Len(r) : StateFits(f, r[i]),
             m \in Msg, MsgFits(f, m),
             d = Decrypted(Built(r, m, SignedPreKey(p)), m, <<p, f[p] + 1>>),
             d.verdict = "read", d.record[1].eph = <<p, f[p] + 1>> => g[p] = f[p] + 1
      PROVE  ReadTo(f, g, p, r, m, d.record)
  BY DEF IsRead
<1> DEFINE own == <<p, f[p] + 1>>
           b   == Built(r, m, SignedPreKey(p))
           s   == d.record
<1>1. own \in KeyPair
  BY NewIsUnknown
<1>2. r \in Seq(State) /\ DOMAIN r = 1..Len(r) /\ Len(r) \in Nat
  BY DEF Record
<1>3. \A i \in 1..Len(r) : r[i] \in State /\ ChainsFit(r[i])
  BY <1>2 DEF StateFits, RootFits
<1>4. CASE Unknown(r, m) = {}
  <2>1. b = r
    BY <1>4 DEF Built
  <2>2. d = Decrypted(r, m, own) /\ d.verdict = "read"
    BY <2>1
  <2> HIDE DEF own
  <2>3. PICK i \in 1..Len(r) : Moved(r, m, own, i, s)
    BY <1>1, <1>3, <2>2, DecryptedFollows
  <2> HIDE DEF s
  <2>4. /\ Follows(r, s)
        /\ Opened(r[i], m, own).verdict = "read"
        /\ s[1] = Opened(r[i], m, own).state
    BY <2>3 DEF Moved
  <2>5. ~Spent(m, r[i])
    BY <1>1, <1>3, <2>4, SpentNotRead
  <2>6. /\ StateFits(f, r[i]) /\ r[i] \in State
        /\ Opened(r[i], m, own).state.eph = own => g[p] = f[p] + 1
    BY <1>3, <2>4 DEF s, own
  <2>7. /\ StateFits(g, s[1]) /\ s[1].base = r[i].base /\ m.key[1] = {s[1].base}
        /\ s[1].pending = {} /\ Spent(m, s[1])
        /\ \A k \in Msg : Spent(k, r[i]) => Spent(k, s[1])
    <3>1. Renewed(f, g, r[i], m, Opened(r[i], m, own).state)
      BY <2>4, <2>6, OpenedFits DEF own
    <3> QED
      BY <2>4, <3>1 DEF Renewed
  <2>8. Continued(r, m, s[1])
    BY <2>5, <2>7 DEF Continued
  <2>9. Source(r, m, p, own, s[1])
    BY <1>3, <2>4 DEF Source
  <2> QED
    BY <2>4, <2>7, <2>8, <2>9 DEF s, own, ReadTo
<1>5. CASE Unknown(r, m) # {}
  <2> DEFINE a  == CHOOSE x \in Unknown(r, m) : TRUE
             st == BobState(a.base, SignedPreKey(p))
  <2>1. a \in m.pre /\ ~HasSessionState(r, a.base)
    BY <1>5 DEF Unknown
  <2>2. b = Promote(st, r)
    BY <1>5 DEF Built
  <2> HIDE DEF a
  <2>3. /\ st \in State /\ st.base = a.base /\ Blank(st) /\ RootFits(f, st)
        /\ \A k \in Msg : MsgFits(f, k) /\ k.key[1] # {a.base} => Spent(k, st)
    BY <2>1, BobFits
  <2> HIDE DEF st
  <2>4. Follows(r, b) /\ b[1] = st
    BY <2>1, <2>2, <2>3, PromoteFollows
  <2>5. d = Decrypted(b, m, own) /\ d.verdict = "read"
    OBVIOUS
  <2> HIDE DEF b, own
  <2>6. /\ b \in Record /\ Distinct(b) /\ Len(b) >= 1 /\ Len(b) \in Nat
        /\ \A k \in 2..Len(b) : \E j \in 1..Len(r) : b[k] = r[j]
    BY <2>4 DEF Follows, Record
  <2>7. \A k \in 1..Len(b) : ChainsFit(b[k]) /\ b[k] \in State
    <3>1. ChainsFit(b[1]) /\ b[1] \in State
      BY <2>3, <2>4 DEF RootFits
    <3>2. \A k \in 2..Len(b) : ChainsFit(b[k]) /\ b[k] \in State
      BY <1>3, <2>6
    <3>3. \A k \in 1..Len(b) : k = 1 \/ k \in 2..Len(b)
      BY <2>6
    <3> QED
      BY <3>1, <3>2, <3>3
  <2>8. PICK i \in 1..Len(b) : Moved(b, m, own, i, s)
    BY <1>1, <2>5, <2>6, <2>7, DecryptedFollows
  <2> HIDE DEF s
  <2>9. /\ Follows(b, s) /\ Len(s) = Len(b)
        /\ Opened(b[i], m, own).verdict = "read"
        /\ s[1] = Opened(b[i], m, own).state
        /\ i = 1 => \A k \in 2..Len(s) : s[k] = b[k]
    BY <2>8 DEF Moved
  <2>10. m.key[1] = {a.base} /\ Len(m.key) = 2
    BY <2>1, NeedsIs
  <2>11. i = 1
    <3> SUFFICES ASSUME i # 1 PROVE FALSE
      OBVIOUS
    <3>1. PICK j \in 1..Len(r) : b[i] = r[j]
      BY <2>6
    <3>2. r[j].base # a.base
      BY <1>2, <2>1 DEF HasSessionState
    <3>3. r[j].root[1] = {r[j].base} /\ Len(r[j].root) >= 1
      BY DEF StateFits, RootFits
    <3>4. m.key[1] # r[j].root[1] /\ 1 \in 1..Len(m.key)
      BY <2>10, <3>2, <3>3
    <3>5. Spent(m, r[j])
      BY <3>3, <3>4 DEF Spent
    <3> QED
      BY <1>1, <1>3, <2>9, <3>1, <3>5, SpentNotRead
  <2>12. /\ Opened(st, m, own).verdict = "read" /\ s[1] = Opened(st, m, own).state
         /\ Opened(st, m, own).state.eph = own => g[p] = f[p] + 1
    BY <2>4, <2>9, <2>11 DEF s, own
  <2>13. /\ StateFits(g, s[1]) /\ s[1].base = st.base /\ m.key[1] = {s[1].base}
         /\ s[1].pending = {} /\ Spent(m, s[1])
         /\ \A k \in Msg : Spent(k, st) => Spent(k, s[1])
         /\ \A k \in Msg : MsgFits(f, k) /\ Len(k.key) >= 3 => Spent(k, s[1])
    <3>1. Renewed(f, g, st, m, Opened(st, m, own).state)
      BY <2>3, <2>12, OpenedFits DEF own
    <3> QED
      BY <2>3, <2>12, <3>1 DEF Renewed
  <2>14. Rebuilt(f, r, m, s[1])
    BY <2>1, <2>3, <2>13 DEF Rebuilt
  <2>15. Follows(r, s)
    <3>1. /\ s \in Record /\ Distinct(s) /\ DOMAIN s = 1..Len(s) /\ DOMAIN b = 1..Len(b)
      BY <2>6, <2>9 DEF Follows, Record
    <3>2. \A k \in 2..Len(s) : \E j \in 1..Len(r) : s[k] = r[j]
      BY <2>6, <2>9, <2>11
    <3>3. \A k \in 1..Len(s) : s[k].base = b[k].base
      <4>1. s[1].base = b[1].base
        BY <2>4, <2>13
      <4>2. \A k \in 1..Len(s) : k = 1 \/ k \in 2..Len(s)
        BY <2>6, <2>9
      <4> QED
        BY <2>9, <2>11, <4>1, <4>2
    <3>4. \A c : HasSessionState(b, c) => HasSessionState(s, c)
      BY <2>9, <3>1, <3>3 DEF HasSessionState
    <3>5. /\ Len(s) >= 1 /\ Len(s) >= Len(r)
          /\ \A j \in 1..Len(r) :
                HasSessionState(s, r[j].base) \/ Len(s) = MaxArchived + 1
      BY <2>4, <2>9, <3>4 DEF Follows
    <3> QED
      BY <3>1, <3>2, <3>5 DEF Follows
  <2>16. Source(r, m, p, own, s[1])
    BY <2>1, <2>3, <2>12 DEF Source, st
  <2> QED
    BY <2>13, <2>14, <2>15, <2>16 DEF s, own, ReadTo
<1> QED
  BY <1>4, <1>5
-----------------------------------------------------------------------------
(* The invariant of two ends that take turns, and the steps that change a  *)
(* record.                                                                 *)

RatchetTyped ==
    /\ store \in [Parties -> Record] /\ fresh \in Counts
    /\ \A x \in sent : x.to \in Parties /\ x.msg \in Msg

StatesFit ==
    \A p \in Parties :
        /\ store[p] \in OwnRecord(p) /\ Distinct(store[p])
        /\ \A i \in 1..Len(store[p]) : StateFits(fresh, store[p][i])

MsgsFit ==
    /\ read \subseteq sent
    /\ \A x \in sent : x.msg \in OwnMsg(Peer(x.to)) /\ MsgFits(fresh, x.msg)

(* A session is only lost from a record that is full. *)
LostFits ==
    /\ \A s \in lost :
          /\ s \in Parties \X KeyPair /\ Known(fresh, s[2])
          /\ Len(store[s[1]]) = MaxArchived + 1
    /\ \A b \in used : b \in KeyPair /\ Known(fresh, b)

(* p has, or has had, the session with this base key. *)
Met(p, b) == HasSessionState(store[p], b) \/ <<p, b>> \in lost

(* a is what a message may make its receiver start a session from. *)
Offered(a) ==
    \/ \E x \in sent : a \in x.msg.pre
    \/ \E p \in Parties : \E i \in 1..Len(store[p]) : a \in store[p][i].pending

(* Whether a session was offered with a one-time pre-key does not change,  *)
(* and the pre-key is gone once the session has been met.                  *)
OffersFit ==
    /\ \A a, c \in Pending_ : Offered(a) /\ Offered(c) /\ a.base = c.base => a = c
    /\ \A a \in Pending_ : Offered(a) =>
          /\ a.base \in used => a.once
          /\ a.once /\ Met(Peer(a.base[1]), a.base) => a.base \in used

(* A session that was lost is only built again without a one-time pre-key. *)
Anew ==
    \A s \in lost :
       s[2][1] # s[1] /\ HasSessionState(store[s[1]], s[2]) => s[2] \notin used

(* A message that was read has left its mark on each state, or on a record *)
(* that has lost its session.                                              *)
ReadMet ==
    \A x \in read : \E b \in KeyPair : x.msg.key[1] = {b} /\ Met(x.to, b)

FirstOfLost(x) ==
    /\ Len(x.msg.key) = 2
    /\ \E b \in KeyPair : x.msg.key[1] = {b} /\ <<x.to, b>> \in lost

ReadSpent ==
    \A x \in read : \A i \in 1..Len(store[x.to]) :
       Spent(x.msg, store[x.to][i]) \/ FirstOfLost(x)

RInv == RatchetTyped /\ StatesFit /\ MsgsFit /\ LostFits
           /\ OffersFit /\ Anew /\ ReadMet /\ ReadSpent

(* The base keys of a record are those of its states.                      *)
LEMMA BasesAre ==
  ASSUME NEW r \in Record
  PROVE  /\ DOMAIN r = 1..Len(r) /\ Len(r) \in Nat
         /\ \A b : b \in Bases(r) <=> HasSessionState(r, b)
<1>1. DOMAIN r = 1..Len(r) /\ Len(r) \in Nat
  BY DEF Record
<1>2. \A b : b \in Bases(r) <=> HasSessionState(r, b)
  BY DEF Bases, ToSet, HasSessionState
<1> QED
  BY <1>1, <1>2

(* What is common to the steps that change the record of p, into s. *)
RecordStep(p, s) ==
    /\ store' = [store EXCEPT ![p] = s] /\ Follows(store[p], s)
    /\ fresh' \in Counts /\ NoLess(fresh, fresh')
    /\ s \in OwnRecord(p) /\ StateFits(fresh', s[1])
    /\ lost' = lost \cup ({p} \X (Bases(store[p]) \ Bases(s)))

(* Such a step meets at most the session that was put first, and forgets none. *)
LEMMA RecordStepFacts ==
  ASSUME RatchetTyped, NEW p \in Parties, NEW s, RecordStep(p, s)
  PROVE  /\ store'[p] = s /\ \A q \in Parties \ {p} : store'[q] = store[q]
         /\ s \in Record /\ Len(s) >= 1 /\ Len(s) \in Nat /\ s[1] \in State
         /\ \A b : HasSessionState(s, b) <=>
               b = s[1].base \/ (HasSessionState(s, b) /\ HasSessionState(store[p], b))
         /\ \A q \in Parties : \A b : (HasSessionState(store[q], b) => Met(q, b)')
         /\ \A q \in Parties : \A b : Met(q, b) => Met(q, b)'
         /\ \A q \in Parties : \A b : Met(q, b)' => Met(q, b) \/ (q = p /\ b = s[1].base)
         /\ \A a : (\E q \in Parties : \E i \in 1..Len(store'[q]) : a \in store'[q][i].pending)
               => a \in s[1].pending
                  \/ \E q \in Parties : \E i \in 1..Len(store[q]) : a \in store[q][i].pending
<1>1. /\ store'[p] = s /\ \A q \in Parties \ {p} : store'[q] = store[q]
      /\ store[p] \in Record
  BY DEF RatchetTyped, RecordStep
<1>2. /\ s \in Record /\ Len(s) >= 1
      /\ \A k \in 2..Len(s) : \E j \in 1..Len(store[p]) : s[k] = store[p][j]
  BY DEF RecordStep, Follows
<1>3. /\ DOMAIN s = 1..Len(s) /\ DOMAIN store[p] = 1..Len(store[p]) /\ Len(s) \in Nat
      /\ \A b : b \in Bases(s) <=> HasSessionState(s, b)
      /\ \A b : b \in Bases(store[p]) <=> HasSessionState(store[p], b)
  BY <1>1, <1>2, BasesAre
<1>4. 1 \in DOMAIN s /\ s[1] \in State /\ \A k \in 1..Len(s) : k = 1 \/ k \in 2..Len(s)
  BY <1>2, <1>3 DEF Record
<1>5. ASSUME NEW b, HasSessionState(s, b)
      PROVE  b = s[1].base \/ HasSessionState(store[p], b)
  <2>1. PICK k \in 1..Len(s) : s[k].base = b
    BY <1>3, <1>5 DEF HasSessionState
  <2> QED
    BY <1>2, <1>3, <1>4, <2>1 DEF HasSessionState
<1>6. HasSessionState(s, s[1].base)
  BY <1>4 DEF HasSessionState
<1>7. \A q, b : <<q, b>> \in lost' <=>
         <<q, b>> \in lost
         \/ (q = p /\ HasSessionState(store[p], b) /\ ~HasSessionState(s, b))
  BY <1>3 DEF RecordStep
<1>8. \A q \in Parties : \A b : HasSessionState(store[q], b) => Met(q, b)'
  BY <1>1, <1>7 DEF Met
<1>9. \A q \in Parties : \A b : Met(q, b) => Met(q, b)'
  BY <1>7, <1>8 DEF Met
<1>10. \A q \in Parties : \A b : Met(q, b)' => Met(q, b) \/ (q = p /\ b = s[1].base)
  BY <1>1, <1>5, <1>7 DEF Met
<1>11. ASSUME NEW a, NEW q \in Parties, NEW i \in 1..Len(store'[q]),
              a \in store'[q][i].pending
       PROVE  a \in s[1].pending
              \/ \E n \in Parties : \E j \in 1..Len(store[n]) : a \in store[n][j].pending
  <2>1. CASE q = p
    BY <1>1, <1>2, <1>4, <1>11, <2>1
  <2>2. CASE q # p
    BY <1>1, <1>11, <2>2
  <2> QED
    BY <2>1, <2>2
<1> QED
  BY <1>1, <1>2, <1>3, <1>4, <1>5, <1>6, <1>8, <1>9, <1>10, <1>11

(* It keeps what fits, and loses sessions only from a full record.         *)
LEMMA RecordStepKeeps ==
  ASSUME RatchetTyped, StatesFit, LostFits, NEW p \in Parties, NEW s, RecordStep(p, s)
  PROVE  /\ store' \in [Parties -> Record] /\ StatesFit'
         /\ \A t \in lost' :
               /\ t \in Parties \X KeyPair /\ Known(fresh', t[2])
               /\ Len(store'[t[1]]) = MaxArchived + 1
<1>1. /\ store'[p] = s /\ \A q \in Parties \ {p} : store'[q] = store[q]
      /\ s \in Record /\ Len(s) \in Nat
  BY RecordStepFacts
<1>2. /\ Follows(store[p], s) /\ fresh \in Counts /\ fresh' \in Counts
      /\ NoLess(fresh, fresh')
      /\ s \in OwnRecord(p) /\ StateFits(fresh', s[1])
      /\ store' = [store EXCEPT ![p] = s] /\ store \in [Parties -> Record]
  BY DEF RecordStep, RatchetTyped
<1>3. store' \in [Parties -> Record]
  BY <1>1, <1>2
<1>4. ASSUME NEW q \in Parties, NEW i \in 1..Len(store[q])
      PROVE  StateFits(fresh', store[q][i]) /\ store[q][i] \in State
  <2>1. store[q][i] \in State
    BY <1>2, BasesAre DEF Record
  <2>2. StateFits(fresh, store[q][i])
    BY DEF StatesFit
  <2> QED
    BY <1>2, <2>1, <2>2, FitsMore
<1>5. ASSUME NEW q \in Parties
      PROVE  /\ store'[q] \in OwnRecord(q) /\ Distinct(store'[q])
             /\ \A i \in 1..Len(store'[q]) : StateFits(fresh', store'[q][i])
  <2>1. CASE q = p
    <3>1. Distinct(s) /\ \A k \in 2..Len(s) : \E j \in 1..Len(store[p]) : s[k] = store[p][j]
      BY <1>2 DEF Follows
    <3>2. \A k \in 1..Len(s) : k = 1 \/ k \in 2..Len(s)
      BY <1>1
    <3>3. \A k \in 1..Len(s) : StateFits(fresh', s[k])
      BY <1>2, <1>4, <3>1, <3>2
    <3> QED
      BY <1>1, <1>2, <2>1, <3>1, <3>3
  <2>2. CASE q # p
    BY <1>1, <1>4, <2>2 DEF StatesFit
  <2> QED
    BY <2>1, <2>2
<1>6. StatesFit'
  BY <1>5 DEF StatesFit
<1>7. ASSUME NEW t \in lost'
      PROVE  /\ t \in Parties \X KeyPair /\ Known(fresh', t[2])
             /\ Len(store'[t[1]]) = MaxArchived + 1
  <2>1. CASE t \in lost
    <3>1. /\ t \in Parties \X KeyPair /\ Known(fresh, t[2])
          /\ Len(store[t[1]]) = MaxArchived + 1
      BY <2>1 DEF LostFits
    <3>2. t[1] \in Parties /\ t[2] \in KeyPair
      BY <3>1
    <3>3. Known(fresh', t[2])
      BY <1>2, <3>1, <3>2, KnownMore
    <3>4. Len(s) >= Len(store[p]) /\ Len(s) <= MaxArchived + 1
      BY <1>1, <1>2 DEF Follows, Record
    <3>5. Len(store'[t[1]]) = MaxArchived + 1
      BY <1>1, <3>1, <3>2, <3>4, SessionAssumption
    <3> QED
      BY <3>1, <3>3, <3>5
  <2>2. CASE t \notin lost
    <3>1. PICK b \in Bases(store[p]) \ Bases(s) : t = <<p, b>>
      BY <2>2 DEF RecordStep
    <3>2. HasSessionState(store[p], b) /\ ~HasSessionState(s, b)
      BY <1>1, <1>2, <3>1, BasesAre
    <3>3. PICK j \in 1..Len(store[p]) : store[p][j].base = b
      BY <1>2, <3>2, BasesAre DEF HasSessionState
    <3>4. Len(s) = MaxArchived + 1
      BY <1>2, <3>2, <3>3 DEF Follows
    <3>5. StateFits(fresh', store[p][j]) /\ store[p][j] \in State
      BY <1>4
    <3>6. b \in KeyPair /\ Known(fresh', b)
      <4>1. b \in KeyPair /\ Len(store[p][j].root) >= 1
            /\ store[p][j].root[1] = {b} /\ Len(store[p][j].root) \in Nat
            /\ AllKnown(fresh', store[p][j].root)
        BY <3>3, <3>5 DEF StateFits, RootFits, State
      <4>2. 1 \in 1..Len(store[p][j].root)
        BY <4>1
      <4> QED
        BY <4>1, <4>2 DEF AllKnown
    <3> QED
      BY <1>1, <3>1, <3>4, <3>6
  <2> QED
    BY <2>1, <2>2
<1> QED
  BY <1>3, <1>6, <1>7

(* There are two parties.                                                  *)
LEMMA OtherIsPeer ==
  ASSUME NEW p \in Parties, NEW q \in Parties, q # p
  PROVE  q = Peer(p)
<1>1. IsFiniteSet({p}) /\ Cardinality({p}) = 1
  BY FS_Singleton
<1>2. IsFiniteSet({p} \cup {q}) /\ Cardinality({p} \cup {q}) = 2
  BY <1>1, FS_AddElement
<1>3. Parties = {p} \cup {q}
  BY <1>2, FS_Subset, RatchetAssumption, TasksAssumption
<1>4. Peer(p) \in Parties /\ Peer(p) # p
  BY PeerIsOther
<1> QED
  BY <1>3, <1>4

(* The base key of a state that fits was generated. *)
LEMMA BaseKnown ==
  ASSUME NEW f, NEW st \in State, StateFits(f, st)
  PROVE  st.base \in KeyPair /\ Known(f, st.base)
<1>1. /\ Len(st.root) \in Nat /\ Len(st.root) >= 1 /\ st.root[1] = {st.base}
      /\ AllKnown(f, st.root) /\ st.base \in KeyPair
  BY DEF StateFits, RootFits, State
<1>2. 1 \in 1..Len(st.root)
  BY <1>1
<1> QED
  BY <1>1, <1>2 DEF AllKnown

(* So it is with what is offered,                                          *)
LEMMA OfferedKnown ==
  ASSUME RatchetTyped, StatesFit, MsgsFit, NEW a, Offered(a)
  PROVE  Known(fresh, a.base)
<1>1. ASSUME NEW x \in sent, a \in x.msg.pre PROVE Known(fresh, a.base)
  <2>1. MsgFits(fresh, x.msg) /\ x.msg \in Msg
    BY DEF MsgsFit, RatchetTyped
  <2>2. x.msg.key[1] = {a.base} /\ Len(x.msg.key) = 2
    BY <1>1, <2>1, NeedsIs
  <2>3. 1 \in 1..Len(x.msg.key)
    BY <2>2
  <2> QED
    BY <2>1, <2>2, <2>3 DEF MsgFits, AllKnown
<1>2. ASSUME NEW p \in Parties, NEW i \in 1..Len(store[p]), a \in store[p][i].pending
      PROVE  Known(fresh, a.base)
  <2>1. store[p][i] \in State /\ StateFits(fresh, store[p][i])
    BY BasesAre DEF StatesFit, RatchetTyped, Record
  <2>2. Known(fresh, store[p][i].base)
    BY <2>1, BaseKnown
  <2>3. a.base = store[p][i].base
    BY <1>2, <2>1 DEF StateFits
  <2> QED
    BY <2>2, <2>3
<1> QED
  BY <1>1, <1>2 DEF Offered

(* and with what was met.                                                  *)
LEMMA MetKnown ==
  ASSUME RatchetTyped, StatesFit, LostFits, NEW p \in Parties, NEW b, Met(p, b)
  PROVE  Known(fresh, b)
<1>1. CASE <<p, b>> \in lost
  BY <1>1 DEF LostFits
<1>2. CASE HasSessionState(store[p], b)
  <2>1. store[p] \in Record
    BY DEF RatchetTyped
  <2>2. PICK i \in 1..Len(store[p]) : store[p][i].base = b
    BY <1>2, <2>1, BasesAre DEF HasSessionState
  <2>3. store[p][i] \in State /\ StateFits(fresh, store[p][i])
    BY <2>1 DEF Record, StatesFit
  <2> QED
    BY <2>2, <2>3, BaseKnown
<1> QED
  BY <1>1, <1>2 DEF Met

(* Messages and used base keys fit as well when key pairs are generated.   *)
LEMMA FitsNext ==
  ASSUME RatchetTyped, MsgsFit, LostFits, fresh' \in Counts, NoLess(fresh, fresh')
  PROVE  /\ \A x \in sent : MsgFits(fresh', x.msg)
         /\ \A b \in used : b \in KeyPair /\ Known(fresh', b)
BY FitsMore, KnownMore DEF RatchetTyped, MsgsFit, LostFits

(* A session that was lost and is back was so before, or is the one that   *)
(* was put first.                                                          *)
LEMMA AnewStep ==
  ASSUME RatchetTyped, LostFits, NEW p \in Parties, NEW s, RecordStep(p, s),
         NEW t \in lost', HasSessionState(store'[t[1]], t[2])
  PROVE  /\ t \in lost
         /\ \/ HasSessionState(store[t[1]], t[2])
            \/ t[1] = p /\ t[2] = s[1].base /\ ~HasSessionState(store[p], t[2])
<1>1. /\ store'[p] = s /\ \A q \in Parties \ {p} : store'[q] = store[q]
      /\ s \in Record
      /\ \A b : HasSessionState(s, b) <=>
            b = s[1].base \/ (HasSessionState(s, b) /\ HasSessionState(store[p], b))
  BY RecordStepFacts
<1>2. CASE t \notin lost
  <2>1. PICK b \in Bases(store[p]) \ Bases(s) : t = <<p, b>>
    BY <1>2 DEF RecordStep
  <2>2. ~HasSessionState(s, b)
    BY <1>1, <2>1, BasesAre
  <2> QED
    BY <1>1, <2>1, <2>2
<1>3. CASE t \in lost
  <2>1. t[1] \in Parties
    BY <1>3 DEF LostFits
  <2> QED
    BY <1>1, <1>3, <2>1
<1> QED
  BY <1>2, <1>3

(* Only for the state that was put first is there something to show. *)
LEMMA ReadStep ==
  ASSUME RatchetTyped, MsgsFit, ReadMet, ReadSpent,
         NEW p \in Parties, NEW s, RecordStep(p, s), NEW x \in read,
         x.to = p => Spent(x.msg, s[1]) \/ FirstOfLost(x)'
  PROVE  /\ \E b \in KeyPair : x.msg.key[1] = {b} /\ Met(x.to, b)'
         /\ \A i \in 1..Len(store'[x.to]) :
               Spent(x.msg, store'[x.to][i]) \/ FirstOfLost(x)'
<1>1. /\ store'[p] = s /\ \A q \in Parties \ {p} : store'[q] = store[q]
      /\ s \in Record /\ Len(s) \in Nat
      /\ \A q \in Parties : \A b : Met(q, b) => Met(q, b)'
  BY RecordStepFacts
<1>2. x.to \in Parties
  BY DEF MsgsFit, RatchetTyped
<1>3. \E b \in KeyPair : x.msg.key[1] = {b} /\ Met(x.to, b)'
  BY <1>1, <1>2 DEF ReadMet
<1>4. FirstOfLost(x) => FirstOfLost(x)'
  BY DEF FirstOfLost, RecordStep
<1>5. \A k \in 2..Len(s) : \E j \in 1..Len(store[p]) : s[k] = store[p][j]
  BY DEF RecordStep, Follows
<1>6. ASSUME NEW i \in 1..Len(store'[x.to])
      PROVE  Spent(x.msg, store'[x.to][i]) \/ FirstOfLost(x)'
  <2>1. CASE x.to # p
    BY <1>1, <1>2, <1>4, <2>1 DEF ReadSpent
  <2>2. CASE x.to = p /\ i = 1
    BY <1>1, <2>2
  <2>3. CASE x.to = p /\ i # 1
    <3>1. i \in 2..Len(s)
      BY <1>1, <2>3
    <3>2. PICK j \in 1..Len(store[p]) : s[i] = store[p][j]
      BY <1>5, <3>1
    <3>3. Spent(x.msg, store[p][j]) \/ FirstOfLost(x)
      BY <2>3 DEF ReadSpent
    <3> QED
      BY <1>1, <1>4, <2>3, <3>2, <3>3
  <2> QED
    BY <2>1, <2>2, <2>3
<1> QED
  BY <1>3, <1>6
-----------------------------------------------------------------------------
(* Each operation keeps it.                                                *)

(* p starts a session, and s is the record that comes of it. *)
Starting(p, s) ==
    /\ RecordStep(p, s) /\ used' = used /\ sent' = sent /\ read' = read
    /\ \E once \in BOOLEAN :
          s[1] = AliceState(<<p, fresh[p] + 1>>, once, SignedPreKey(Peer(p)),
                            <<p, fresh[p] + 2>>)

(* Starting a session keeps all of RInv: its base key is a new one.        *)
LEMMA EstablishSafe ==
  ASSUME RInv, NEW p \in Parties, Establish(p)
  PROVE  RInv' /\ \E s : Starting(p, s)
<1> DEFINE q == Peer(p)
           f == fresh
           g == fresh'
           base == <<p, fresh[p] + 1>>
<1>1. /\ RatchetTyped /\ StatesFit /\ MsgsFit /\ LostFits
      /\ OffersFit /\ Anew /\ ReadMet /\ ReadSpent
  BY DEF RInv
<1>2. /\ fresh \in Counts /\ store[p] \in Record /\ store[p] \in OwnRecord(p)
      /\ Distinct(store[p]) /\ q \in Parties /\ q # p /\ Peer(q) = p
  BY <1>1, PeerIsOther, PeerOfPeer DEF RatchetTyped, StatesFit
<1>3. /\ fresh' = [fresh EXCEPT ![p] = @ + 2]
      /\ used' = used /\ sent' = sent /\ read' = read
      /\ lost' = lost \cup ({p} \X (Bases(store[p]) \ Bases(store'[p])))
  BY DEF Establish, Archive
<1>4. /\ fresh' \in Counts /\ NoLess(fresh, fresh') /\ fresh'[p] = fresh[p] + 2
  BY <1>2, <1>3 DEF Counts, NoLess
<1>5. PICK once \in BOOLEAN :
         store' = [store EXCEPT ![p] =
                     Promote(AliceState(<<p, fresh[p] + 1>>, once, SignedPreKey(q),
                                        <<p, fresh[p] + 2>>), @)]
  BY DEF Establish, Generated
<1> HIDE DEF q
<1> DEFINE st == AliceState(<<p, fresh[p] + 1>>, once, SignedPreKey(q),
                            <<p, fresh[p] + 2>>)
           s == Promote(st, store[p])
           a == [base |-> base, once |-> once]
<1>6. /\ st \in State /\ StateFits(fresh', st) /\ st.base = base /\ st.pending = {a}
      /\ \A m \in Msg : MsgFits(fresh, m) => Spent(m, st)
  <2>1. NewlyFits(fresh, fresh', base, once, st)
    BY <1>2, <1>4, AliceFits
  <2> HIDE DEF st, base
  <2> QED
    BY <2>1 DEF NewlyFits
<1>7. st \in OwnState(p)
  <2>1. fresh[p] + 1 \in Nat /\ fresh[p] + 2 \in Nat /\ SignedPreKey(q) \in KeyPair
    BY <1>2 DEF Counts, SignedPreKey, KeyPair
  <2> QED
    BY <2>1, AliceStateOwn
<1>8. ~Known(fresh, base) /\ base \in KeyPair
  BY <1>2, NewIsUnknown
<1>9. base[1] = p /\ a \in Pending_ /\ a.base = base
  BY <1>8 DEF Pending_
<1> HIDE DEF st, base
<1>10. ~Met(p, base) /\ ~Met(q, base)
  BY <1>1, <1>2, <1>8, MetKnown
<1>11. Follows(store[p], s) /\ s[1] = st
  BY <1>2, <1>6, <1>10, PromoteFollows DEF Met
<1>12. s \in OwnRecord(p)
  <2>1. store[p] \in Seq(State) /\ \A i \in DOMAIN store[p] : store[p][i] \in OwnState(p)
    BY <1>2 DEF OwnRecord, Record
  <2> QED
    BY <1>7, <2>1, PromoteOwn
<1>13. store' = [store EXCEPT ![p] = s]
  BY <1>5 DEF st
<1> HIDE DEF s
<1>14. store'[p] = s
  BY <1>1, <1>13 DEF RatchetTyped
<1>15. RecordStep(p, s)
  BY <1>3, <1>4, <1>6, <1>11, <1>12, <1>13, <1>14 DEF RecordStep
<1>16. /\ store' \in [Parties -> Record] /\ StatesFit'
       /\ \A t \in lost' : /\ t \in Parties \X KeyPair /\ Known(fresh', t[2])
                           /\ Len(store'[t[1]]) = MaxArchived + 1
  BY <1>1, <1>15, RecordStepKeeps
<1>17. /\ \A x \in sent : MsgFits(fresh', x.msg)
       /\ \A b \in used : b \in KeyPair /\ Known(fresh', b)
  BY <1>1, <1>4, FitsNext
<1>18. RatchetTyped' /\ MsgsFit' /\ LostFits'
  BY <1>1, <1>3, <1>4, <1>16, <1>17 DEF RatchetTyped, MsgsFit, LostFits
(* The offer that is new has a base key nobody knows yet. *)
<1>19. /\ \A n \in Parties : \A b : Met(n, b)' => Met(n, b) \/ (n = p /\ b = base)
       /\ \A c : Offered(c)' => Offered(c) \/ c = a
  <2>1. /\ \A n \in Parties : \A b : Met(n, b)' => Met(n, b) \/ (n = p /\ b = s[1].base)
        /\ \A c : (\E n \in Parties : \E i \in 1..Len(store'[n]) : c \in store'[n][i].pending)
              => c \in s[1].pending
                 \/ \E n \in Parties : \E i \in 1..Len(store[n]) : c \in store[n][i].pending
    BY <1>1, <1>15, RecordStepFacts
  <2>2. s[1].base = base /\ s[1].pending = {a}
    BY <1>6, <1>11
  <2> HIDE DEF a
  <2> QED
    BY <1>3, <2>1, <2>2 DEF Offered
<1>20. ASSUME NEW c, Offered(c) PROVE c.base # base
  BY <1>1, <1>8, <1>20, OfferedKnown
<1> HIDE DEF a
<1>21. OffersFit'
  <2>1. ASSUME NEW c \in Pending_, NEW e \in Pending_, Offered(c)', Offered(e)',
               c.base = e.base
        PROVE  c = e
    BY <1>1, <1>9, <1>19, <1>20, <2>1 DEF OffersFit
  <2>2. ASSUME NEW c \in Pending_, Offered(c)'
        PROVE  /\ c.base \in used' => c.once
               /\ c.once /\ Met(Peer(c.base[1]), c.base)' => c.base \in used'
    <3>1. CASE Offered(c)
      <4>1. c.base # base
        BY <1>20, <3>1
      <4>2. c.base \in KeyPair
        BY DEF Pending_
      <4> DEFINE n == Peer(c.base[1])
      <4>3. n \in Parties
        BY <4>2, PeerIsOther DEF KeyPair
      <4> HIDE DEF n
      <4>4. Met(n, c.base)' => Met(n, c.base)
        BY <1>19, <4>1, <4>3
      <4>5. /\ c.base \in used => c.once
            /\ c.once /\ Met(n, c.base) => c.base \in used
        BY <1>1, <3>1 DEF OffersFit, n
      <4>6. c.once /\ Met(n, c.base)' => c.base \in used'
        BY <1>3, <4>4, <4>5
      <4> QED
        BY <1>3, <4>5, <4>6 DEF n
    <3>2. CASE c = a
      <4>1. base \notin used
        BY <1>1, <1>8 DEF LostFits
      <4>2. c.base = base /\ Peer(c.base[1]) = q
        BY <1>9, <3>2 DEF q
      <4>3. ~Met(q, c.base)'
        BY <1>2, <1>10, <1>19, <4>2
      <4>4. ~Met(Peer(c.base[1]), c.base)'
        BY <4>2, <4>3 DEF q
      <4> QED
        BY <1>3, <4>1, <4>2, <4>4
    <3> QED
      BY <1>19, <2>2, <3>1, <3>2
  <2> QED
    BY <2>1, <2>2 DEF OffersFit
<1>22. Anew'
  <2>1. ASSUME NEW t \in lost', t[2][1] # t[1], HasSessionState(store'[t[1]], t[2])
        PROVE  t[2] \notin used'
    <3>1. /\ t \in lost
          /\ \/ HasSessionState(store[t[1]], t[2])
             \/ t[1] = p /\ t[2] = s[1].base /\ ~HasSessionState(store[p], t[2])
      BY <1>1, <1>15, <2>1, AnewStep
    <3>2. ~(t[1] = p /\ t[2] = s[1].base)
      BY <1>6, <1>9, <1>11, <2>1
    <3> QED
      BY <1>1, <1>3, <2>1, <3>1, <3>2 DEF Anew
  <2> QED
    BY <2>1 DEF Anew
<1>23. ASSUME NEW x \in read
       PROVE  /\ \E b \in KeyPair : x.msg.key[1] = {b} /\ Met(x.to, b)'
              /\ \A i \in 1..Len(store'[x.to]) :
                    Spent(x.msg, store'[x.to][i]) \/ FirstOfLost(x)'
  <2>1. x.msg \in Msg /\ MsgFits(fresh, x.msg)
    BY <1>1 DEF MsgsFit, RatchetTyped
  <2>2. Spent(x.msg, s[1])
    BY <1>6, <1>11, <2>1
  <2> QED
    BY <1>1, <1>15, <2>2, ReadStep
<1>24. ReadMet' /\ ReadSpent'
  BY <1>3, <1>23 DEF ReadMet, ReadSpent
<1>25. Starting(p, s)
  BY <1>3, <1>11, <1>15 DEF Starting, st, q
<1> QED
  BY <1>16, <1>18, <1>21, <1>22, <1>24, <1>25 DEF RInv

(* Encrypting counts on in the current state, and gives away what it is    *)
(* the state of.                                                           *)
LEMMA EncryptedIs ==
  ASSUME NEW f, NEW r \in Record, r # <<>>, Distinct(r), StateFits(f, r[1])
  PROVE  /\ Follows(r, Encrypted(r)) /\ StateFits(f, Encrypted(r)[1])
         /\ Encrypted(r)[1].base = r[1].base
         /\ Encrypted(r)[1].pending = r[1].pending
         /\ \A m \in Msg : Spent(m, r[1]) => Spent(m, Encrypted(r)[1])
         /\ MsgFits(f, Message(r[1])) /\ Message(r[1]).pre = r[1].pending
<1> DEFINE s == Encrypted(r)
           st == [r[1] EXCEPT !.n = @ + 1]
<1>1. /\ r \in Seq(State) /\ DOMAIN r = 1..Len(r) /\ Len(r) \in Nat /\ Len(r) >= 1
      /\ 1 \in DOMAIN r /\ r[1] \in State
  BY DEF Record
<1>2. /\ st.base = r[1].base /\ st.pending = r[1].pending /\ st.root = r[1].root
      /\ st.key = r[1].key /\ st.eph = r[1].eph /\ st.chains = r[1].chains
  BY <1>1 DEF State
<1>3. s = [r EXCEPT ![1] = st]
  BY DEF Encrypted, s, st
<1> HIDE DEF st
<1>4. s \in Record /\ s # <<>>
  BY EncryptedType
<1> HIDE DEF s
<1>5. /\ s[1] = st /\ \A k \in 2..Len(r) : s[k] = r[k]
      /\ Len(s) = Len(r) /\ DOMAIN s = 1..Len(s)
  BY <1>1, <1>3
<1>6. \A k \in 1..Len(r) : s[k].base = r[k].base
  <2>1. \A k \in 1..Len(r) : k = 1 \/ k \in 2..Len(r)
    BY <1>1
  <2> QED
    BY <1>2, <1>5, <2>1
<1>7. Distinct(s)
  BY <1>5, <1>6 DEF Distinct
<1>8. \A j \in 1..Len(r) : HasSessionState(s, r[j].base)
  BY <1>5, <1>6 DEF HasSessionState
<1>9. \A k \in 2..Len(s) : \E j \in 1..Len(r) : s[k] = r[j]
  <2>1. \A k \in 2..Len(r) : k \in 1..Len(r)
    BY <1>1
  <2> QED
    BY <1>5, <2>1
<1>10. Follows(r, s)
  BY <1>1, <1>4, <1>5, <1>7, <1>8, <1>9 DEF Follows
<1>11. StateFits(f, st)
  BY <1>2 DEF StateFits, RootFits, ChainsFit
<1>12. \A m \in Msg : Spent(m, r[1]) => Spent(m, st)
  BY <1>2 DEF Spent
<1>13. /\ Message(r[1]).pre = r[1].pending /\ Message(r[1]).eph = r[1].eph
       /\ Message(r[1]).key = r[1].key
  BY DEF Message
<1> DEFINE m == Message(r[1])
<1> HIDE DEF m
<1>14. m.pre = r[1].pending /\ m.eph = r[1].eph /\ m.key = r[1].root
  BY <1>13 DEF m, StateFits, RootFits
<1>15. MsgFits(f, m)
  <2>1. /\ r[1].base \in KeyPair /\ Len(m.key) >= 1 /\ m.key[1] = {r[1].base}
        /\ \/ /\ Len(m.key) = 2
              /\ \E once \in BOOLEAN : m.pre = {[base |-> r[1].base, once |-> once]}
           \/ Len(m.key) >= 3 /\ m.pre = {}
    BY <1>1, <1>14 DEF State, StateFits, RootFits
  <2>2. AllKnown(f, m.key) /\ Known(f, m.eph) /\ m.eph[2] >= 1
    BY <1>14 DEF StateFits, RootFits
  <2> QED
    BY <2>1, <2>2 DEF MsgFits
<1> QED
  BY <1>2, <1>5, <1>10, <1>11, <1>12, <1>13, <1>15 DEF s, m

(* p sends a message, and s is the record that comes of it. *)
Writing(p, s) ==
    /\ RecordStep(p, s) /\ fresh' = fresh /\ used' = used /\ read' = read
    /\ store[p] # <<>> /\ s = Encrypted(store[p])
    /\ sent' = sent \cup Sent(p, {Message(store[p][1])})

(* Encrypting keeps RInv: what is offered was offered by the state.        *)
LEMMA EncryptSafe ==
  ASSUME RInv, NEW p \in Parties, Encrypt(p)
  PROVE  RInv' /\ \E s : Writing(p, s)
<1> DEFINE s == Encrypted(store[p])
           m == Message(store[p][1])
<1>1. /\ RatchetTyped /\ StatesFit /\ MsgsFit /\ LostFits
      /\ OffersFit /\ Anew /\ ReadMet /\ ReadSpent
  BY DEF RInv
<1>2. /\ fresh \in Counts /\ store[p] \in Record /\ store[p] \in OwnRecord(p)
      /\ Distinct(store[p]) /\ store[p] # <<>> /\ 1 \in 1..Len(store[p])
      /\ StateFits(fresh, store[p][1])
  <2>1. store[p] \in Record /\ store[p] # <<>>
    BY <1>1 DEF RatchetTyped, Encrypt
  <2>2. 1 \in 1..Len(store[p])
    BY <2>1 DEF Record
  <2> QED
    BY <1>1, <2>1, <2>2 DEF RatchetTyped, StatesFit
<1>3. /\ fresh' = fresh /\ used' = used /\ read' = read /\ lost' = lost
      /\ store' = [store EXCEPT ![p] = s] /\ sent' = sent \cup Sent(p, {m})
  BY DEF Encrypt
<1>4. NoLess(fresh, fresh')
  BY <1>2, <1>3 DEF Counts, NoLess
<1>5. s \in OwnRecord(p) /\ m \in OwnMsg(p) /\ Bases(s) = Bases(store[p])
  BY <1>2, EncryptedOwn
<1>6. /\ Follows(store[p], s) /\ StateFits(fresh, s[1])
      /\ s[1].base = store[p][1].base /\ s[1].pending = store[p][1].pending
      /\ \A k \in Msg : Spent(k, store[p][1]) => Spent(k, s[1])
      /\ MsgFits(fresh, m) /\ m.pre = store[p][1].pending
  BY <1>2, EncryptedIs
<1> HIDE DEF s, m
<1>7. RecordStep(p, s)
  BY <1>2, <1>3, <1>4, <1>5, <1>6 DEF RecordStep
<1>8. /\ store' \in [Parties -> Record] /\ StatesFit'
      /\ \A t \in lost' : /\ t \in Parties \X KeyPair /\ Known(fresh', t[2])
                          /\ Len(store'[t[1]]) = MaxArchived + 1
  BY <1>1, <1>7, RecordStepKeeps
<1>9. \A x \in sent' : x \in sent \/ (x \in Sent(p, {m}) /\ x.to = Peer(p)
                                         /\ x.msg = m /\ x.msg \in OwnMsg(Peer(x.to)))
  <2>1. {m} \in SUBSET OwnMsg(p)
    BY <1>5
  <2>2. \A x \in Sent(p, {m}) :
           x.to = Peer(p) /\ x.msg \in {m} /\ x.msg \in OwnMsg(Peer(x.to))
    BY <2>1, SentOwn
  <2> QED
    BY <1>3, <2>2
<1>10. m \in Msg /\ Peer(p) \in Parties
  BY <1>5, PeerIsOther DEF OwnMsg
<1>11. RatchetTyped' /\ MsgsFit' /\ LostFits'
  <2>1. RatchetTyped'
    BY <1>1, <1>2, <1>3, <1>8, <1>9, <1>10 DEF RatchetTyped
  <2>2. MsgsFit'
    BY <1>1, <1>3, <1>6, <1>9 DEF MsgsFit
  <2>3. LostFits'
    BY <1>1, <1>3, <1>8 DEF LostFits
  <2> QED
    BY <2>1, <2>2, <2>3
<1>12. HasSessionState(store[p], s[1].base)
  <2>1. 1 \in DOMAIN store[p]
    BY <1>2, BasesAre
  <2> QED
    BY <1>6, <2>1 DEF HasSessionState
<1>13. /\ \A n \in Parties : \A b : Met(n, b)' => Met(n, b)
       /\ \A c : Offered(c)' => Offered(c)
  <2>1. /\ \A n \in Parties : \A b : Met(n, b)' => Met(n, b) \/ (n = p /\ b = s[1].base)
        /\ \A c : (\E n \in Parties : \E i \in 1..Len(store'[n]) : c \in store'[n][i].pending)
              => c \in s[1].pending
                 \/ \E n \in Parties : \E i \in 1..Len(store[n]) : c \in store[n][i].pending
    BY <1>1, <1>7, RecordStepFacts
  <2>2. Met(p, s[1].base)
    BY <1>12 DEF Met
  <2>3. \A c : c \in store[p][1].pending => Offered(c)
    BY <1>2 DEF Offered
  <2>4. \A c : Offered(c)' => Offered(c)
    <3>1. ASSUME NEW c, Offered(c)' PROVE Offered(c)
      <4>1. CASE \E x \in sent' : c \in x.msg.pre
        BY <1>6, <1>9, <2>3, <4>1 DEF Offered
      <4>2. CASE \E n \in Parties : \E i \in 1..Len(store'[n]) : c \in store'[n][i].pending
        BY <1>6, <2>1, <2>3, <4>2 DEF Offered
      <4> QED
        BY <3>1, <4>1, <4>2 DEF Offered
    <3> QED
      BY <3>1
  <2> QED
    BY <2>1, <2>2, <2>4
<1>14. OffersFit'
  <2>1. ASSUME NEW c \in Pending_, NEW e \in Pending_, Offered(c)', Offered(e)',
               c.base = e.base
        PROVE  c = e
    BY <1>1, <1>13, <2>1 DEF OffersFit
  <2>2. ASSUME NEW c \in Pending_, Offered(c)'
        PROVE  /\ c.base \in used' => c.once
               /\ c.once /\ Met(Peer(c.base[1]), c.base)' => c.base \in used'
    <3> DEFINE n == Peer(c.base[1])
    <3>1. c.base \in KeyPair
      BY DEF Pending_
    <3>2. n \in Parties
      BY <3>1, PeerIsOther DEF KeyPair
    <3> HIDE DEF n
    <3>3. Met(n, c.base)' => Met(n, c.base)
      BY <1>13, <3>2
    <3>4. /\ c.base \in used => c.once
          /\ c.once /\ Met(n, c.base) => c.base \in used
      BY <1>1, <1>13, <2>2 DEF OffersFit, n
    <3>5. c.once /\ Met(n, c.base)' => c.base \in used'
      BY <1>3, <3>3, <3>4
    <3> QED
      BY <1>3, <3>4, <3>5 DEF n
  <2> QED
    BY <2>1, <2>2 DEF OffersFit
<1>15. Anew'
  <2>1. ASSUME NEW t \in lost', t[2][1] # t[1], HasSessionState(store'[t[1]], t[2])
        PROVE  t[2] \notin used'
    <3>1. /\ t \in lost
          /\ \/ HasSessionState(store[t[1]], t[2])
             \/ t[1] = p /\ t[2] = s[1].base /\ ~HasSessionState(store[p], t[2])
      BY <1>1, <1>7, <2>1, AnewStep
    <3> QED
      BY <1>1, <1>3, <1>12, <2>1, <3>1 DEF Anew
  <2> QED
    BY <2>1 DEF Anew
<1>16. ASSUME NEW x \in read
       PROVE  /\ \E b \in KeyPair : x.msg.key[1] = {b} /\ Met(x.to, b)'
              /\ \A i \in 1..Len(store'[x.to]) :
                    Spent(x.msg, store'[x.to][i]) \/ FirstOfLost(x)'
  <2>1. x.msg \in Msg
    BY <1>1 DEF MsgsFit, RatchetTyped
  <2>2. x.to = p => Spent(x.msg, store[p][1]) \/ FirstOfLost(x)
    BY <1>1, <1>2 DEF ReadSpent
  <2>3. FirstOfLost(x) => FirstOfLost(x)'
    BY <1>3 DEF FirstOfLost
  <2>4. x.to = p => Spent(x.msg, s[1]) \/ FirstOfLost(x)'
    BY <1>6, <2>1, <2>2, <2>3
  <2> QED
    BY <1>1, <1>7, <2>4, ReadStep
<1>17. ReadMet' /\ ReadSpent'
  BY <1>3, <1>16 DEF ReadMet, ReadSpent
<1>18. Writing(p, s)
  BY <1>2, <1>3, <1>7 DEF Writing, s, m
<1> QED
  BY <1>8, <1>11, <1>14, <1>15, <1>17, <1>18 DEF RInv

(* What it is to read m, with s the record that comes of it. *)
ReadInto(m, s) ==
    /\ m.to \in Parties /\ m.msg \in Msg /\ MsgFits(fresh, m.msg)
    /\ m.msg \in OwnMsg(Peer(m.to))
    /\ RecordStep(m.to, s)
    /\ s[1].pending = {} /\ m.msg.key[1] = {s[1].base} /\ Spent(m.msg, s[1])
    /\ \/ Continued(store[m.to], m.msg, s[1])
       \/ Rebuilt(fresh, store[m.to], m.msg, s[1])
    /\ NeedsPreKey(store[m.to], m.msg) \cap used = {}
    /\ used' = used \cup NeedsPreKey(store[m.to], m.msg)
    /\ sent' = sent /\ read' = read \cup {m}
    /\ Source(store[m.to], m.msg, m.to, <<m.to, fresh[m.to] + 1>>, s[1])

(* Decrypting is such a step.                                              *)
LEMMA DecryptReads ==
  ASSUME RInv, NEW m \in sent, Decrypt(m)
  PROVE  \E s : ReadInto(m, s)
<1> DEFINE p == m.to
           own == <<p, fresh[p] + 1>>
           d == Decrypted(Built(store[p], m.msg, SignedPreKey(p)), m.msg, own)
           s == d.record
           N == NeedsPreKey(store[p], m.msg)
<1>1. /\ RatchetTyped /\ StatesFit /\ MsgsFit /\ LostFits
  BY DEF RInv
<1>2. /\ p \in Parties /\ m.msg \in Msg /\ MsgFits(fresh, m.msg)
      /\ m.msg \in OwnMsg(Peer(p))
      /\ fresh \in Counts /\ store[p] \in Record /\ store[p] \in OwnRecord(p)
      /\ Distinct(store[p]) /\ \A i \in 1..Len(store[p]) : StateFits(fresh, store[p][i])
  BY <1>1 DEF RatchetTyped, StatesFit, MsgsFit
<1>3. Result(m).verdict = "read"
  BY DEF Decrypt
<1>4. N \cap used = {}
  BY <1>3 DEF Result
<1>5. Result(m) = d
  BY <1>4 DEF Result, Generated
<1>6. /\ store' = [store EXCEPT ![p] = s]
      /\ used' = used \cup N /\ sent' = sent /\ read' = read \cup {m}
      /\ fresh' = IF Head(store'[p]).eph = own
                  THEN [fresh EXCEPT ![p] = @ + 1] ELSE fresh
      /\ lost' = lost \cup ({p} \X (Bases(store[p]) \ Bases(store'[p])))
  BY <1>5 DEF Decrypt, Generated, Archive
<1>7. s \in OwnRecord(p)
  <2>1. Built(store[p], m.msg, SignedPreKey(p)) \in OwnRecord(p)
    BY <1>2, BuiltOwn
  <2>2. fresh[p] + 1 \in Nat
    BY <1>2 DEF Counts
  <2> QED
    BY <1>2, <2>1, <2>2, DecryptedOwn
<1>8. d.verdict = "read"
  BY <1>3, <1>5
<1>9. store'[p] = s /\ Head(s) = s[1]
  <2>1. store'[p] = s
    BY <1>1, <1>2, <1>6 DEF RatchetTyped
  <2> HIDE DEF s
  <2> QED
    BY <2>1
<1>10. /\ fresh' \in Counts /\ NoLess(fresh, fresh')
       /\ s[1].eph = own => fresh'[p] = fresh[p] + 1
  <2> HIDE DEF s, own
  <2> QED
    BY <1>2, <1>6, <1>9 DEF Counts, NoLess
<1>11. /\ Follows(store[p], s) /\ StateFits(fresh', s[1])
       /\ s[1].pending = {} /\ m.msg.key[1] = {s[1].base} /\ Spent(m.msg, s[1])
       /\ Continued(store[p], m.msg, s[1]) \/ Rebuilt(fresh, store[p], m.msg, s[1])
       /\ Source(store[p], m.msg, p, <<p, fresh[p] + 1>>, s[1])
  <2> DEFINE f == fresh
             g == fresh'
             r == store[p]
             k == m.msg
  <2>1. /\ f \in Counts /\ g \in Counts /\ NoLess(f, g) /\ r \in Record /\ Distinct(r)
        /\ \A i \in 1..Len(r) : StateFits(f, r[i])
        /\ d.record[1].eph = <<p, f[p] + 1>> => g[p] = f[p] + 1
    BY <1>2, <1>10
  <2>2. d = Decrypted(Built(r, k, SignedPreKey(p)), k, <<p, f[p] + 1>>)
    OBVIOUS
  <2>4. p \in Parties /\ k \in Msg /\ MsgFits(f, k) /\ d.verdict = "read"
    BY <1>2, <1>8
  <2> HIDE DEF d, f, g, r, p, k
  <2>3. ReadTo(f, g, p, r, k, d.record)
    <3>1. IsRead(f, g, p, r, k, d)
      BY <2>1, <2>2, <2>4 DEF IsRead
    <3> QED
      BY <3>1, ReadIs
  <2> QED
    BY <2>3 DEF f, g, r, p, k, ReadTo
<1> HIDE DEF d
<1>12. RecordStep(p, s)
  BY <1>6, <1>7, <1>9, <1>10, <1>11 DEF RecordStep
<1>13. ReadInto(m, s)
  BY <1>2, <1>4, <1>6, <1>11, <1>12 DEF ReadInto
<1> QED
  BY <1>13

(* A one-time pre-key is only asked for by the session that is then built. *)
LEMMA ReadNeeds ==
  ASSUME NEW m, NEW s, ReadInto(m, s), store[m.to] \in Record
  PROVE  /\ \A c \in NeedsPreKey(store[m.to], m.msg) :
               /\ c = s[1].base /\ ~HasSessionState(store[m.to], c)
               /\ \E a \in m.msg.pre : a.once /\ a.base = c
         /\ ~HasSessionState(store[m.to], s[1].base) =>
               \E a \in m.msg.pre :
                  /\ m.msg.pre = {a} /\ a.base = s[1].base
                  /\ a.once => NeedsPreKey(store[m.to], m.msg) = {a.base}
         /\ \A a \in m.msg.pre :
               a \in Pending_ /\ Peer(a.base[1]) = m.to
<1> DEFINE r == store[m.to]
           k == m.msg
           N == NeedsPreKey(r, k)
           p == m.to
<1>1. /\ k \in Msg /\ MsgFits(fresh, k) /\ k.key[1] = {s[1].base}
      /\ k \in OwnMsg(Peer(p)) /\ p \in Parties
      /\ Continued(r, k, s[1]) \/ Rebuilt(fresh, r, k, s[1])
  BY DEF ReadInto
<1> HIDE DEF r, k, N, p
<1>2. /\ k.pre = {} => N = {}
      /\ \A a \in k.pre :
            /\ k.pre = {a} /\ k.key[1] = {a.base}
            /\ N = IF a.once /\ ~HasSessionState(r, a.base) THEN {a.base} ELSE {}
  BY <1>1, NeedsIs DEF N
<1>3. ASSUME NEW c \in N
      PROVE  /\ c = s[1].base /\ ~HasSessionState(r, c)
             /\ \E a \in k.pre : a.once /\ a.base = c
  <2>1. PICK a \in k.pre : TRUE
    BY <1>2, <1>3
  <2>2. a.once /\ ~HasSessionState(r, a.base) /\ c = a.base
    BY <1>2, <1>3, <2>1
  <2> QED
    BY <1>1, <1>2, <2>1, <2>2
<1>4. ASSUME ~HasSessionState(r, s[1].base)
      PROVE  \E a \in k.pre : /\ k.pre = {a} /\ a.base = s[1].base
                              /\ a.once => N = {a.base}
  <2>1. r \in Record
    BY DEF r, p
  <2>2. ~Continued(r, k, s[1])
    BY <1>4, <2>1, BasesAre DEF Continued, HasSessionState
  <2>3. PICK a \in k.pre : a.base = s[1].base
    BY <1>1, <2>2 DEF Rebuilt
  <2> QED
    BY <1>2, <1>4, <2>3
<1>5. ASSUME NEW a \in k.pre PROVE a \in Pending_ /\ Peer(a.base[1]) = p
  <2>1. a \in Pending_ /\ a.base[1] = Peer(p)
    BY <1>1 DEF OwnMsg, Msg
  <2> QED
    BY <1>1, <2>1, PeerOfPeer
<1> QED
  BY <1>3, <1>4, <1>5 DEF r, k, N, p

(* Reading removes the one-time pre-key of the session it builds.          *)
LEMMA DecryptOffers ==
  ASSUME RInv, NEW m \in sent, NEW s, ReadInto(m, s)
  PROVE  OffersFit'
<1> DEFINE p == m.to
           b1 == s[1].base
           N == NeedsPreKey(store[p], m.msg)
<1>1. RatchetTyped /\ OffersFit /\ store[p] \in Record
  BY DEF RInv, RatchetTyped
<1>2. /\ RecordStep(p, s) /\ p \in Parties /\ s[1].pending = {}
      /\ used' = used \cup N /\ sent' = sent
  BY DEF ReadInto
<1>3. /\ \A c \in N : /\ c = b1 /\ ~HasSessionState(store[p], c)
                      /\ \E a \in m.msg.pre : a.once /\ a.base = c
      /\ ~HasSessionState(store[p], b1) =>
            \E a \in m.msg.pre : /\ m.msg.pre = {a} /\ a.base = b1
                                 /\ a.once => N = {a.base}
      /\ \A a \in m.msg.pre : a \in Pending_
  BY <1>1, ReadNeeds
<1> HIDE DEF N
<1>4. \A a \in m.msg.pre : Offered(a)
  BY DEF Offered
<1>5. /\ \A n \in Parties : \A b : Met(n, b)' => Met(n, b) \/ (n = p /\ b = b1)
      /\ \A c : Offered(c)' => Offered(c)
  <2> HIDE DEF p
  <2>1. /\ \A n \in Parties : \A b : Met(n, b)' => Met(n, b) \/ (n = p /\ b = b1)
        /\ \A c : (\E n \in Parties : \E i \in 1..Len(store'[n]) : c \in store'[n][i].pending)
              => c \in s[1].pending
                 \/ \E n \in Parties : \E i \in 1..Len(store[n]) : c \in store[n][i].pending
    BY <1>1, <1>2, RecordStepFacts
  <2>2. ASSUME NEW c, Offered(c)' PROVE Offered(c)
    <3>1. CASE \E x \in sent' : c \in x.msg.pre
      BY <1>2, <3>1 DEF Offered
    <3>2. CASE \E n \in Parties : \E i \in 1..Len(store'[n]) : c \in store'[n][i].pending
      <4>1. \E n \in Parties : \E i \in 1..Len(store[n]) : c \in store[n][i].pending
        BY <1>2, <2>1, <3>2
      <4> QED
        BY <4>1 DEF Offered
    <3> QED
      BY <2>2, <3>1, <3>2 DEF Offered
  <2> QED
    BY <2>1, <2>2
<1> HIDE DEF b1, p
<1>6. ASSUME NEW c \in Pending_, NEW e \in Pending_, Offered(c)', Offered(e)',
             c.base = e.base
      PROVE  c = e
  BY <1>1, <1>5, <1>6 DEF OffersFit
<1>7. ASSUME NEW c \in Pending_, Offered(c)', c.base \in used'
      PROVE  c.once
  <2>1. CASE c.base \in used
    BY <1>1, <1>5, <1>7, <2>1 DEF OffersFit
  <2>2. CASE c.base \in N
    <3>1. PICK a \in m.msg.pre : a.once /\ a.base = c.base
      BY <1>3, <2>2
    <3>2. a = c
      BY <1>1, <1>3, <1>4, <1>5, <1>7, <3>1 DEF OffersFit
    <3> QED
      BY <3>1, <3>2
  <2> QED
    BY <1>2, <1>7, <2>1, <2>2
<1>8. ASSUME NEW c \in Pending_, Offered(c)', c.once,
             Met(Peer(c.base[1]), c.base)'
      PROVE  c.base \in used'
  <2> DEFINE n == Peer(c.base[1])
  <2>1. c.base \in KeyPair
    BY DEF Pending_
  <2>2. n \in Parties
    BY <2>1, PeerIsOther DEF KeyPair
  <2>3. Offered(c) /\ Met(n, c.base) => c.base \in used
    BY <1>1, <1>8 DEF OffersFit
  <2>4. Met(n, c.base)'
    BY <1>8
  <2> HIDE DEF n
  <2>5. CASE Met(n, c.base)
    BY <1>2, <1>5, <1>8, <2>3, <2>5
  <2>6. CASE ~Met(n, c.base)
    <3>1. n = p /\ c.base = b1
      BY <1>5, <2>2, <2>4, <2>6
    <3>2. ~HasSessionState(store[p], b1)
      BY <2>6, <3>1 DEF Met
    <3>3. PICK a \in m.msg.pre : a.base = b1 /\ (a.once => N = {a.base})
      BY <1>3, <3>2
    <3>4. a = c
      BY <1>1, <1>3, <1>4, <1>5, <1>8, <3>1, <3>3 DEF OffersFit
    <3> QED
      BY <1>2, <1>8, <3>3, <3>4
  <2> QED
    BY <2>5, <2>6
<1> QED
  BY <1>6, <1>7, <1>8 DEF OffersFit

(* A lost session that had a one-time pre-key is not built again.          *)
LEMMA DecryptAnew ==
  ASSUME RInv, NEW m \in sent, NEW s, ReadInto(m, s)
  PROVE  Anew'
<1> DEFINE p == m.to
           b1 == s[1].base
           N == NeedsPreKey(store[p], m.msg)
<1>1. RatchetTyped /\ OffersFit /\ LostFits /\ Anew /\ store[p] \in Record
  BY DEF RInv, RatchetTyped
<1>2. /\ RecordStep(p, s) /\ p \in Parties
      /\ used' = used \cup N /\ N \cap used = {}
  BY DEF ReadInto
<1>3. /\ \A c \in N : /\ c = b1 /\ ~HasSessionState(store[p], c)
                      /\ \E a \in m.msg.pre : a.once /\ a.base = c
      /\ ~HasSessionState(store[p], b1) =>
            \E a \in m.msg.pre : /\ m.msg.pre = {a} /\ a.base = b1
                                 /\ a.once => N = {a.base}
      /\ \A a \in m.msg.pre : a \in Pending_ /\ Peer(a.base[1]) = p
  BY <1>1, ReadNeeds
<1> HIDE DEF N
<1>4. \A a \in m.msg.pre : Offered(a)
  BY DEF Offered
<1> HIDE DEF b1, p
<1>5. ASSUME NEW t \in lost', t[2][1] # t[1], HasSessionState(store'[t[1]], t[2])
      PROVE  t[2] \notin used'
  <2>1. /\ t \in lost
        /\ \/ HasSessionState(store[t[1]], t[2])
           \/ t[1] = p /\ t[2] = b1 /\ ~HasSessionState(store[p], t[2])
    BY <1>1, <1>2, <1>5, AnewStep DEF b1
  <2>2. t[1] \in Parties /\ t = <<t[1], t[2]>> /\ t[2] \in KeyPair
    BY <1>1, <2>1 DEF LostFits
  <2>3. CASE HasSessionState(store[t[1]], t[2])
    <3>1. t[2] \notin used
      BY <1>1, <1>5, <2>1, <2>3 DEF Anew
    <3>2. ASSUME t[2] \in N PROVE FALSE
      <4>1. t[1] # p
        BY <1>3, <2>3, <3>2
      <4>2. PICK a \in m.msg.pre : a.base = t[2]
        BY <1>3, <3>2
      <4>3. Peer(t[2][1]) = p /\ t[2][1] \in Parties
        BY <1>3, <2>2, <4>2 DEF KeyPair
      <4>4. t[2][1] # p
        BY <4>3, PeerIsOther
      <4> QED
        BY <1>2, <1>5, <2>2, <4>1, <4>3, <4>4, OtherIsPeer
    <3> QED
      BY <1>2, <3>1, <3>2
  <2>4. CASE t[1] = p /\ t[2] = b1 /\ ~HasSessionState(store[p], t[2])
    <3>1. PICK a \in m.msg.pre : a.base = b1 /\ (a.once => N = {a.base})
      BY <1>3, <2>4
    <3>2. Met(p, b1)
      BY <2>1, <2>2, <2>4 DEF Met
    <3>3. /\ a.base \in used => a.once
          /\ a.once /\ Met(p, b1) => a.base \in used
      BY <1>1, <1>3, <1>4, <3>1 DEF OffersFit
    <3>4. ~a.once
      BY <1>2, <3>1, <3>2, <3>3
    <3>5. N = {}
      <4>1. ASSUME NEW c \in N PROVE FALSE
        <5>1. PICK e \in m.msg.pre : e.once /\ e.base = c
          BY <1>3, <4>1
        <5>2. m.msg.pre = {a}
          BY <1>3, <2>4, <3>1
        <5> QED
          BY <3>4, <5>1, <5>2
      <4> QED
        BY <4>1
    <3> QED
      BY <1>2, <2>4, <3>1, <3>3, <3>4, <3>5
  <2> QED
    BY <2>1, <2>3, <2>4
<1> QED
  BY <1>5 DEF Anew

(* Reading a message spends it in every state, and undoes no such mark but *)
(* by building a lost session again.                                       *)
LEMMA DecryptMarks ==
  ASSUME RInv, NEW m \in sent, NEW s, ReadInto(m, s)
  PROVE  ReadMet' /\ ReadSpent'
<1> DEFINE p == m.to
           b1 == s[1].base
           r == store[p]
<1>1. /\ RatchetTyped /\ StatesFit /\ MsgsFit /\ LostFits /\ ReadMet /\ ReadSpent
      /\ r \in Record
  BY DEF RInv, RatchetTyped, ReadInto
<1>2. /\ RecordStep(p, s) /\ p \in Parties /\ m.msg \in Msg
      /\ m.msg.key[1] = {b1} /\ Spent(m.msg, s[1])
      /\ Continued(r, m.msg, s[1]) \/ Rebuilt(fresh, r, m.msg, s[1])
      /\ MsgFits(fresh, m.msg) /\ read' = read \cup {m}
  BY DEF ReadInto
<1>3. /\ store'[p] = s /\ s \in Record /\ Len(s) >= 1 /\ Len(s) \in Nat /\ s[1] \in State
      /\ HasSessionState(s, b1)
      /\ \A n \in Parties : \A b : Met(n, b) => Met(n, b)'
  <2> HIDE DEF p
  <2> QED
    BY <1>1, <1>2, RecordStepFacts
<1>4. /\ Follows(r, s) /\ lost \subseteq lost'
  BY <1>2 DEF RecordStep
<1> HIDE DEF p, r
<1>5. ASSUME NEW x \in read, x.to = p
      PROVE  Spent(x.msg, s[1]) \/ FirstOfLost(x)'
  <2>1. x.msg \in Msg /\ MsgFits(fresh, x.msg)
    BY <1>1 DEF MsgsFit, RatchetTyped
  <2>2. FirstOfLost(x) => FirstOfLost(x)'
    BY <1>4 DEF FirstOfLost
  <2>3. CASE Continued(r, m.msg, s[1])
    <3>1. PICK i \in 1..Len(r) : \A k \in Msg : Spent(k, r[i]) => Spent(k, s[1])
      BY <2>3 DEF Continued
    <3>2. Spent(x.msg, r[i]) \/ FirstOfLost(x)
      BY <1>1, <1>5 DEF ReadSpent, r
    <3> QED
      BY <2>1, <2>2, <3>1, <3>2
  <2>4. CASE Rebuilt(fresh, r, m.msg, s[1])
    <3>1. CASE x.msg.key[1] # {b1} \/ Len(x.msg.key) >= 3
      BY <2>1, <2>4, <3>1 DEF Rebuilt
    <3>2. CASE x.msg.key[1] = {b1} /\ ~(Len(x.msg.key) >= 3)
      <4>1. Len(x.msg.key) = 2
        BY <2>1, <3>2 DEF MsgFits
      <4>2. PICK b \in KeyPair : x.msg.key[1] = {b} /\ Met(x.to, b)
        BY <1>1 DEF ReadMet
      <4>3. b = b1
        BY <3>2, <4>2
      <4>4. ~HasSessionState(r, b1)
        BY <2>4 DEF Rebuilt
      <4>5. <<p, b1>> \in lost /\ b1 \in KeyPair
        BY <1>5, <4>2, <4>3, <4>4 DEF Met, r
      <4>6. FirstOfLost(x)
        BY <1>5, <3>2, <4>1, <4>5 DEF FirstOfLost
      <4> QED
        BY <2>2, <4>6
    <3> QED
      BY <3>1, <3>2
  <2> QED
    BY <1>2, <2>3, <2>4
<1>6. ASSUME NEW x \in read
      PROVE  /\ \E b \in KeyPair : x.msg.key[1] = {b} /\ Met(x.to, b)'
             /\ \A i \in 1..Len(store'[x.to]) :
                   Spent(x.msg, store'[x.to][i]) \/ FirstOfLost(x)'
  <2>1. x.to = p => Spent(x.msg, s[1]) \/ FirstOfLost(x)'
    BY <1>5
  <2> QED
    BY <1>1, <1>2, <2>1, ReadStep
<1>7. \E b \in KeyPair : m.msg.key[1] = {b} /\ Met(m.to, b)'
  <2>1. b1 \in KeyPair
    BY <1>3 DEF State
  <2> HIDE DEF b1
  <2>2. HasSessionState(store'[m.to], b1)
    BY <1>3 DEF p
  <2>3. \A b : HasSessionState(store'[m.to], b) => Met(m.to, b)'
    BY DEF Met
  <2> QED
    BY <1>2, <2>1, <2>2, <2>3
<1>8. ASSUME NEW i \in 1..Len(s) PROVE Spent(m.msg, s[i])
  <2>1. CASE i = 1
    BY <1>2, <2>1
  <2>2. CASE i # 1
    <3>1. i \in 2..Len(s) /\ 1 \in 1..Len(s)
      BY <1>3, <2>2
    <3>2. s[i].base # b1
      BY <1>4, <2>2, <3>1 DEF Follows, Distinct
    <3>3. PICK j \in 1..Len(r) : s[i] = r[j]
      BY <1>4, <3>1 DEF Follows
    <3>4. r[j] \in State /\ StateFits(fresh, r[j])
      <4>1. StateFits(fresh, r[j])
        BY <1>1, <1>2 DEF StatesFit, r
      <4> QED
        BY <1>1, <4>1, BasesAre DEF Record
    <3>5. /\ Len(r[j].root) \in Nat /\ Len(r[j].root) >= 1
          /\ r[j].root[1] = {r[j].base} /\ r[j].base \in KeyPair
      BY <3>4 DEF State, StateFits, RootFits
    <3>6. Len(m.msg.key) \in Nat /\ Len(m.msg.key) >= 1
      BY <1>2 DEF Msg, MsgFits
    <3>7. m.msg.key[1] # r[j].root[1]
      BY <1>2, <3>2, <3>3, <3>5
    <3>8. Spent(m.msg, r[j])
      <4>1. 1 \in 1..Len(m.msg.key) /\ 1 <= Len(r[j].root)
        BY <3>5, <3>6
      <4> QED
        BY <3>7, <4>1 DEF Spent
    <3> QED
      BY <3>3, <3>8
  <2> QED
    BY <2>1, <2>2
<1>9. ReadMet'
  BY <1>2, <1>6, <1>7 DEF ReadMet
<1>10. ReadSpent'
  <2>1. ASSUME NEW x \in read', NEW i \in 1..Len(store'[x.to])
        PROVE  Spent(x.msg, store'[x.to][i]) \/ FirstOfLost(x)'
    <3>1. CASE x \in read
      BY <1>6, <3>1
    <3>2. CASE x = m
      BY <1>3, <1>8, <3>2 DEF p
    <3> QED
      BY <1>2, <3>1, <3>2
  <2> QED
    BY <2>1 DEF ReadSpent
<1> QED
  BY <1>9, <1>10

(* Decrypting keeps RInv.                                                  *)
LEMMA DecryptSafe ==
  ASSUME RInv, NEW m \in sent, Decrypt(m)
  PROVE  RInv'
<1>1. PICK s : ReadInto(m, s)
  BY DecryptReads
<1>2. OffersFit' /\ Anew' /\ ReadMet' /\ ReadSpent'
  BY <1>1, DecryptOffers, DecryptAnew, DecryptMarks
<1> DEFINE p == m.to
           N == NeedsPreKey(store[p], m.msg)
<1>3. /\ RatchetTyped /\ StatesFit /\ MsgsFit /\ LostFits /\ store[p] \in Record
  BY <1>1 DEF RInv, RatchetTyped, ReadInto
<1>4. /\ RecordStep(p, s) /\ p \in Parties /\ MsgFits(fresh, m.msg)
      /\ used' = used \cup N /\ sent' = sent /\ read' = read \cup {m}
  BY <1>1 DEF ReadInto
<1>5. /\ store' \in [Parties -> Record] /\ StatesFit'
      /\ \A t \in lost' : /\ t \in Parties \X KeyPair /\ Known(fresh', t[2])
                          /\ Len(store'[t[1]]) = MaxArchived + 1
  <2> HIDE DEF p
  <2> QED
    BY <1>3, <1>4, RecordStepKeeps
<1>6. fresh' \in Counts /\ NoLess(fresh, fresh')
  BY <1>4 DEF RecordStep
<1>7. /\ \A x \in sent : MsgFits(fresh', x.msg)
      /\ \A b \in used : b \in KeyPair /\ Known(fresh', b)
  BY <1>3, <1>6, FitsNext
<1>8. ASSUME NEW b \in N PROVE b \in KeyPair /\ Known(fresh', b)
  <2>1. b = s[1].base
    BY <1>1, <1>3, <1>8, ReadNeeds
  <2>2. s[1] \in State /\ StateFits(fresh', s[1])
    <3> HIDE DEF p, N
    <3> QED
      BY <1>3, <1>4, RecordStepFacts DEF RecordStep
  <2> QED
    BY <2>1, <2>2, BaseKnown
<1> HIDE DEF N, p
<1>9. RatchetTyped'
  BY <1>3, <1>4, <1>5, <1>6 DEF RatchetTyped
<1>10. MsgsFit'
  BY <1>3, <1>4, <1>7 DEF MsgsFit
<1>11. LostFits'
  BY <1>4, <1>5, <1>7, <1>8 DEF LostFits
<1> QED
  BY <1>2, <1>5, <1>9, <1>10, <1>11 DEF RInv
-----------------------------------------------------------------------------
(* Two ends that have done nothing satisfy RInv.                           *)
LEMMA RatchetInitSafe ==
  ASSUME Init
  PROVE  RInv
<1>1. /\ store = [p \in Parties |-> <<>>] /\ fresh = [p \in Parties |-> 0]
      /\ used = {} /\ sent = {} /\ read = {} /\ lost = {}
  BY DEF Init
<1>2. <<>> \in Record /\ Len(<<>>) = 0
  BY SessionAssumption DEF Record
<1>3. RatchetTyped
  BY <1>1, <1>2 DEF RatchetTyped, Counts
<1>4. \A p : <<>> \in OwnRecord(p)
  BY <1>2 DEF OwnRecord
<1>5. \A p \in Parties : store[p] = <<>>
  BY <1>1
<1>6. StatesFit
  <2>1. 1..0 = {}
    OBVIOUS
  <2> QED
    BY <1>2, <1>4, <1>5, <2>1 DEF StatesFit, Distinct
<1>7. MsgsFit /\ LostFits /\ Anew /\ ReadMet /\ ReadSpent
  BY <1>1 DEF MsgsFit, LostFits, Anew, ReadMet, ReadSpent
<1>8. \A a : ~Offered(a)
  BY <1>1, <1>2, <1>5 DEF Offered
<1>9. OffersFit
  BY <1>8 DEF OffersFit
<1> QED
  BY <1>3, <1>6, <1>7, <1>9 DEF RInv

(* So does what changes nothing.                                           *)
LEMMA RatchetStutterSafe ==
  ASSUME RInv, UNCHANGED vars
  PROVE  RInv'
<1>1. /\ store' = store /\ fresh' = fresh /\ used' = used /\ sent' = sent
      /\ read' = read /\ lost' = lost
  BY DEF vars
<1>2. RatchetTyped' /\ StatesFit' /\ MsgsFit' /\ LostFits'
  BY <1>1 DEF RInv, RatchetTyped, StatesFit, MsgsFit, LostFits
<1>3. /\ \A a : Offered(a)' <=> Offered(a)
      /\ \A p, b : Met(p, b)' <=> Met(p, b)
  BY <1>1 DEF Offered, Met
<1>4. OffersFit'
  <2>1. ASSUME NEW c \in Pending_, NEW e \in Pending_, Offered(c)', Offered(e)',
               c.base = e.base
        PROVE  c = e
    BY <1>3, <2>1 DEF RInv, OffersFit
  <2>2. ASSUME NEW c \in Pending_, Offered(c)'
        PROVE  /\ c.base \in used' => c.once
               /\ c.once /\ Met(Peer(c.base[1]), c.base)' => c.base \in used'
    BY <1>1, <1>3, <2>2 DEF RInv, OffersFit
  <2> QED
    BY <2>1, <2>2 DEF OffersFit
<1>5. Anew'
  BY <1>1 DEF RInv, Anew
<1>6. ReadMet' /\ ReadSpent'
  BY <1>1 DEF RInv, ReadMet, Met, ReadSpent, FirstOfLost
<1> QED
  BY <1>2, <1>4, <1>5, <1>6 DEF RInv

(* A message that can be read again opens a session that was lost. *)
LEMMA AgainIsLost ==
  ASSUME RInv, NEW m \in read, Result(m).verdict = "read"
  PROVE  \E b \in KeyPair :
            /\ m.msg.key[1] = {b} /\ Len(m.msg.key) = 2 /\ <<m.to, b>> \in lost
            /\ NeedsPreKey(store[m.to], m.msg) \cap used = {}
<1> DEFINE p == m.to
           k == m.msg
           r == store[p]
           f == fresh
           g == [fresh EXCEPT ![p] = @ + 1]
           d == Decrypted(Built(r, k, SignedPreKey(p)), k, <<p, f[p] + 1>>)
           b1 == d.record[1].base
           N == NeedsPreKey(r, k)
<1>1. /\ RatchetTyped /\ StatesFit /\ MsgsFit /\ ReadMet /\ ReadSpent /\ m \in sent
  BY DEF RInv, MsgsFit
<1>2. /\ p \in Parties /\ k \in Msg /\ MsgFits(f, k) /\ f \in Counts
      /\ r \in Record /\ Distinct(r) /\ \A i \in 1..Len(r) : StateFits(f, r[i])
      /\ r \in OwnRecord(p)
  BY <1>1 DEF RatchetTyped, StatesFit, MsgsFit
<1>3. N \cap used = {}
  BY DEF Result
<1>4. d.verdict = "read"
  <2>1. Result(m) = d
    BY <1>3 DEF Result, Generated
  <2> QED
    BY <2>1
<1>5. g \in Counts /\ NoLess(f, g) /\ g[p] = f[p] + 1
  BY <1>2 DEF Counts, NoLess
<1>6. d.record \in Record
  <2>1. Built(r, k, SignedPreKey(p)) \in OwnRecord(p)
    BY <1>2, BuiltOwn
  <2>2. f[p] + 1 \in Nat
    BY <1>2 DEF Counts
  <2>3. d.record \in OwnRecord(p)
    BY <1>2, <2>1, <2>2, DecryptedOwn
  <2> HIDE DEF d
  <2> QED
    BY <2>3 DEF OwnRecord
<1>7. d = Decrypted(Built(r, k, SignedPreKey(p)), k, <<p, f[p] + 1>>)
  OBVIOUS
<1> HIDE DEF p, k, r, f, g, d
<1>8. /\ Follows(r, d.record) /\ k.key[1] = {b1}
      /\ Continued(r, k, d.record[1]) \/ Rebuilt(f, r, k, d.record[1])
  <2>1. ReadTo(f, g, p, r, k, d.record)
    <3>1. IsRead(f, g, p, r, k, d)
      BY <1>2, <1>4, <1>5, <1>7 DEF IsRead
    <3> QED
      BY <3>1, ReadIs
  <2> QED
    BY <2>1 DEF ReadTo
<1>9. b1 \in KeyPair
  <2>1. 1 \in DOMAIN d.record
    BY <1>6, <1>8, BasesAre DEF Follows
  <2>2. d.record[1] \in State
    BY <1>6, <2>1 DEF Record
  <2> QED
    BY <2>2 DEF State
<1>10. Len(k.key) = 2 /\ <<p, b1>> \in lost
  <2>1. CASE Continued(r, k, d.record[1])
    <3>1. PICK i \in 1..Len(r) : ~Spent(k, r[i])
      BY <2>1 DEF Continued
    <3>2. FirstOfLost(m)
      BY <1>1, <3>1 DEF ReadSpent, k, r, p
    <3> QED
      BY <1>8, <3>2 DEF FirstOfLost, k, p
  <2>2. CASE Rebuilt(f, r, k, d.record[1])
    <3>1. PICK a \in k.pre : TRUE
      BY <2>2 DEF Rebuilt
    <3>2. Len(k.key) = 2
      BY <1>2, <3>1, NeedsIs
    <3>3. Met(p, b1)
      BY <1>1, <1>8 DEF ReadMet, k, p
    <3> QED
      BY <2>2, <3>2, <3>3 DEF Rebuilt, Met, r
  <2> QED
    BY <1>8, <2>1, <2>2
<1> HIDE DEF b1
<1> QED
  BY <1>3, <1>8, <1>9, <1>10 DEF k, p, r

(* What RInv says of the messages that were read.                          *)
LEMMA NoReplayFollows ==
  ASSUME RInv
  PROVE  NoReplay
<1>1. /\ RatchetTyped /\ StatesFit /\ MsgsFit /\ LostFits /\ OffersFit /\ Anew
  BY DEF RInv
<1>2. ASSUME NEW m \in read, Result(m).verdict = "read"
      PROVE  Forgotten(m) /\ \E b \in m.msg.pre : ~b.once
  <2>1. PICK b \in KeyPair :
            /\ m.msg.key[1] = {b} /\ Len(m.msg.key) = 2 /\ <<m.to, b>> \in lost
            /\ NeedsPreKey(store[m.to], m.msg) \cap used = {}
    BY <1>2, AgainIsLost
  <2>2. /\ m \in sent /\ m.to \in Parties /\ m.msg \in OwnMsg(Peer(m.to))
        /\ MsgFits(fresh, m.msg) /\ m.msg \in Msg
    BY <1>1 DEF MsgsFit, RatchetTyped
  <2>3. Forgotten(m)
    <3>1. Len(store[m.to]) = MaxArchived + 1
      BY <1>1, <2>1 DEF LostFits
    <3> DEFINE s == <<m.to, b>>
    <3>2. s \in lost /\ s[2] = b /\ s[1] = m.to
      BY <2>1
    <3> HIDE DEF s
    <3> QED
      BY <2>1, <3>1, <3>2 DEF Forgotten
  <2>4. PICK a : m.msg.pre = {a} /\ a.base = b
    <3>1. PICK c \in KeyPair : m.msg.key[1] = {c} /\
             \E once \in BOOLEAN : m.msg.pre = {[base |-> c, once |-> once]}
      BY <2>1, <2>2 DEF MsgFits
    <3>2. PICK once \in BOOLEAN : m.msg.pre = {[base |-> c, once |-> once]}
      BY <3>1
    <3>3. c = b
      BY <2>1, <3>1
    <3> DEFINE a == [base |-> b, once |-> once]
    <3>4. m.msg.pre = {a} /\ a.base = b
      BY <3>2, <3>3
    <3> HIDE DEF a
    <3> QED
      BY <3>4
  <2>5. a \in Pending_ /\ Offered(a)
    BY <2>2, <2>4 DEF Msg, Offered
  <2>6. b[1] = Peer(m.to) /\ b[1] # m.to /\ Peer(b[1]) = m.to
    BY <2>2, <2>4, PeerIsOther, PeerOfPeer DEF OwnMsg
  <2>7. ASSUME a.once PROVE FALSE
    <3>1. b \in used
      <4>1. Met(m.to, b)
        BY <2>1 DEF Met
      <4> QED
        BY <1>1, <2>4, <2>5, <2>6, <2>7, <4>1 DEF OffersFit
    <3>2. CASE HasSessionState(store[m.to], b)
      <4>1. \A s \in lost : s[2][1] # s[1] /\ HasSessionState(store[s[1]], s[2])
                               => s[2] \notin used
        BY <1>1 DEF Anew
      <4> DEFINE s == <<m.to, b>>
      <4>2. s \in lost /\ s[2] = b /\ s[1] = m.to
        BY <2>1
      <4> HIDE DEF s
      <4> QED
        BY <2>6, <3>1, <3>2, <4>1, <4>2
    <3>3. CASE ~HasSessionState(store[m.to], b)
      <4>1. NeedsPreKey(store[m.to], m.msg) = {b}
        BY <2>2, <2>4, <2>7, <3>3, NeedsIs
      <4> QED
        BY <2>1, <3>1, <4>1
    <3> QED
      BY <3>2, <3>3
  <2> QED
    BY <2>3, <2>4, <2>7
<1> QED
  BY <1>2 DEF NoReplay

(* Two ends that take turns never read a message twice, in however many    *)
(* sessions, key pairs and messages, and in whatever order messages come   *)
(* and come again (decryptMsg, decryptPkmsg): except by building anew a    *)
(* session that was archived out of a record and had no one-time pre-key.  *)
THEOREM NoReplayAlways == Spec => []NoReplay
<1>1. Init => RInv
  BY RatchetInitSafe
<1>2. RInv /\ [Next]_vars => RInv'
  <2> SUFFICES ASSUME RInv, [Next]_vars PROVE RInv'
    OBVIOUS
  <2>1. CASE \E p \in Parties : Establish(p)
    BY <2>1, EstablishSafe
  <2>2. CASE \E p \in Parties : Encrypt(p)
    BY <2>2, EncryptSafe
  <2>3. CASE \E m \in sent : Decrypt(m)
    BY <2>3, DecryptSafe
  <2>4. CASE UNCHANGED vars
    BY <2>4, RatchetStutterSafe
  <2> QED
    BY <2>1, <2>2, <2>3, <2>4 DEF Next
<1>3. RInv => NoReplay
  BY NoReplayFollows
<1> QED
  BY <1>1, <1>2, <1>3, PTL DEF Spec
-----------------------------------------------------------------------------
(* What follows is about UnreadIsNoDuplicate and Readable. What a state is *)
(* after reading a message.                                                *)

(* o is st after the key of m was taken from its chain i. *)
TakenFrom(st, m, i, o) ==
    /\ o.root = st.root /\ o.eph = st.eph /\ o.n = st.n
    /\ st.chains[i].eph = m.eph /\ st.chains[i].key = m.key
    /\ Len(o.chains) = Len(st.chains)
    /\ o.chains[i] = Take(st.chains[i], m.n)
    /\ \A k \in 1..Len(st.chains) : k # i => o.chains[k] = st.chains[k]

(* o is st after a ratchet step to the chain of m, with d chains dropped. *)
SteppedTo(st, m, own, d, o) ==
    /\ o.eph = own /\ o.n = 0
    /\ Len(m.key) = Len(st.root) + 1 /\ Len(o.root) = Len(st.root) + 2
    /\ \A j \in 1..Len(st.root) : m.key[j] = st.root[j]
    /\ m.key[Len(st.root) + 1] = {m.eph, st.eph}
    /\ \A j \in 1..Len(m.key) : o.root[j] = m.key[j]
    /\ o.root[Len(st.root) + 2] = {m.eph, own}
    /\ d = 1 <=> Len(st.chains) >= MaxChains
    /\ Len(o.chains) = Len(st.chains) + 1 - d
    /\ o.chains[Len(o.chains)] = Take(NewChain(m.eph, m.key), m.n)
    /\ \A k \in 1..(Len(o.chains) - 1) :
          k + d \in 1..Len(st.chains) /\ o.chains[k] = st.chains[k + d]

(* What a state is after reading a message.                                *)
LEMMA OpenedIs ==
  ASSUME NEW st \in State, NEW m \in Msg, NEW own \in KeyPair,
         Opened(st, m, own).verdict = "read"
  PROVE  LET o == Opened(st, m, own).state
         IN /\ o \in State /\ o.base = st.base
            /\ \/ \E i \in 1..Len(st.chains) : TakenFrom(st, m, i, o)
               \/ \E d \in {0, 1} : SteppedTo(st, m, own, d, o)
<1> DEFINE r == Ratcheted(st, m.eph, own)
           o == Opened(st, m, own).state
           in == Append(st.root, {m.eph, st.eph})
<1>1. PICK i \in 1..Len(r.chains) :
         ReadFrom(st, m, r, i) /\ Opens(m, r, i, o) /\ CanRead(m, r.chains[i])
  BY Opening
<1>2. m.eph \in KeyPair
  BY DEF Msg
<1>3. ChainsOf(st, m.eph) = {} => Stepped(st, m.eph, own, r) /\ Begun(st, m.eph, in)
  BY <1>2, RatchetedIs
<1> HIDE DEF o, r, in
<1>4. /\ r \in State /\ r.chains[i].eph = m.eph
      /\ o \in State /\ o.base = r.base /\ o.root = r.root /\ o.eph = r.eph /\ o.n = r.n
      /\ Len(o.chains) = Len(r.chains)
      /\ o.chains[i] = Take(r.chains[i], m.n)
      /\ \A k \in 1..Len(r.chains) : k # i => o.chains[k] = r.chains[k]
      /\ m.key = r.chains[i].key
  BY <1>1 DEF ReadFrom, Opens, CanRead
<1>5. CASE ChainsOf(st, m.eph) # {}
  <2>1. r = st
    BY <1>1, <1>5 DEF ReadFrom
  <2>2. TakenFrom(st, m, i, o)
    BY <1>4, <2>1 DEF TakenFrom
  <2> QED
    BY <1>4, <2>1, <2>2 DEF o
<1>6. CASE ChainsOf(st, m.eph) = {}
  <2>1. /\ r.chains[i] = NewChain(m.eph, in) /\ i = Len(r.chains)
        /\ \E d \in {0, 1} :
              /\ d = 1 <=> Len(st.chains) >= MaxChains
              /\ Len(r.chains) = Len(st.chains) + 1 - d
              /\ \A k \in 1..Len(r.chains) : k # i =>
                    k + d \in 1..Len(st.chains) /\ r.chains[k] = st.chains[k + d]
    BY <1>1, <1>6 DEF ReadFrom, in
  <2>2. PICK d \in {0, 1} :
              /\ d = 1 <=> Len(st.chains) >= MaxChains
              /\ Len(r.chains) = Len(st.chains) + 1 - d
              /\ \A k \in 1..Len(r.chains) : k # i =>
                    k + d \in 1..Len(st.chains) /\ r.chains[k] = st.chains[k + d]
    BY <2>1
  <2>3. /\ r.base = st.base /\ r.eph = own /\ r.n = 0
        /\ Len(in) = Len(st.root) + 1
        /\ Len(r.root) = Len(st.root) + 2
        /\ \A j \in 1..Len(st.root) : in[j] = st.root[j] /\ r.root[j] = st.root[j]
        /\ in[Len(st.root) + 1] = {m.eph, st.eph}
        /\ r.root[Len(st.root) + 1] = {m.eph, st.eph}
        /\ r.root[Len(st.root) + 2] = {m.eph, own}
    BY <1>3, <1>6 DEF Stepped, Begun
  <2>4. m.key = in
    BY <1>4, <2>1 DEF NewChain
  <2>5. Len(st.root) \in Nat /\ Len(st.chains) \in Nat /\ Len(r.chains) \in Nat
    BY <1>4 DEF State
  <2>6. \A j \in 1..Len(in) : r.root[j] = in[j]
    <3>1. \A j \in 1..Len(in) : j \in 1..Len(st.root) \/ j = Len(st.root) + 1
      BY <2>3, <2>5
    <3> QED
      BY <2>3, <3>1
  <2>7. o.chains[Len(o.chains)] = Take(NewChain(m.eph, m.key), m.n)
    BY <1>4, <2>1, <2>4
  <2>8. \A k \in 1..(Len(o.chains) - 1) :
          k + d \in 1..Len(st.chains) /\ o.chains[k] = st.chains[k + d]
    <3>1. \A k \in 1..(Len(o.chains) - 1) : k \in 1..Len(r.chains) /\ k # i
      BY <1>4, <2>1, <2>5
    <3> QED
      BY <1>4, <2>2, <3>1
  <2>9. SteppedTo(st, m, own, d, o)
    BY <1>4, <2>2, <2>3, <2>4, <2>6, <2>7, <2>8 DEF SteppedTo
  <2> QED
    BY <1>4, <2>3, <2>9 DEF o
<1> QED
  BY <1>5, <1>6

(* v is the verdict when chain i of st has the ratchet key of m, and when  *)
(* none has.                                                               *)
FoundIn(st, m, i, v) ==
    /\ st.chains[i].eph = m.eph
    /\ v = IF m.n < st.chains[i].index /\ m.n \notin st.chains[i].skipped
           THEN "duplicate"
           ELSE IF m.n > st.chains[i].index + MaxSkip \/ m.key # st.chains[i].key
           THEN "invalid" ELSE "read"

(* A state without a chain for m reads it only with the root that comes    *)
(* next.                                                                   *)
NotFound(st, m, v) ==
    /\ \A i \in 1..Len(st.chains) : st.chains[i].eph # m.eph
    /\ v = IF m.n > MaxSkip \/ m.key # Append(st.root, {m.eph, st.eph})
           THEN "invalid" ELSE "read"

(* How a state finds a message.                                            *)
LEMMA VerdictIs ==
  ASSUME NEW st \in State, NEW m \in Msg, NEW own \in KeyPair
  PROVE  \/ \E i \in 1..Len(st.chains) : FoundIn(st, m, i, Opened(st, m, own).verdict)
         \/ NotFound(st, m, Opened(st, m, own).verdict)
<1> DEFINE r == Ratcheted(st, m.eph, own)
           i == CHOOSE j \in ChainsOf(r, m.eph) : TRUE
           v == Opened(st, m, own).verdict
           in == Append(st.root, {m.eph, st.eph})
<1>1. i \in 1..Len(r.chains) /\ ReadFrom(st, m, r, i)
  BY ReaderChain
<1>2. v = IF m.n < r.chains[i].index /\ m.n \notin r.chains[i].skipped THEN "duplicate"
          ELSE IF m.n > r.chains[i].index + MaxSkip \/ m.key # r.chains[i].key
               THEN "invalid" ELSE "read"
  BY DEF Opened
<1> HIDE DEF r, i, v
<1>3. st.chains \in Seq(Chain) /\ m.n \in Nat
  BY DEF State, Msg
<1>4. CASE ChainsOf(st, m.eph) # {}
  <2>1. r = st /\ r.chains[i].eph = m.eph
    BY <1>1, <1>4 DEF ReadFrom
  <2>2. FoundIn(st, m, i, v)
    BY <1>2, <2>1 DEF FoundIn
  <2> QED
    BY <1>1, <2>1, <2>2 DEF v
<1>5. CASE ChainsOf(st, m.eph) = {}
  <2>1. r.chains[i] = NewChain(m.eph, in)
    BY <1>1, <1>5 DEF ReadFrom
  <2> HIDE DEF in
  <2>2. r.chains[i].index = 0 /\ r.chains[i].key = in
    BY <2>1 DEF NewChain
  <2>3. \A k \in 1..Len(st.chains) : st.chains[k].eph # m.eph
    BY <1>3, <1>5 DEF ChainsOf
  <2>4. v = IF m.n > MaxSkip \/ m.key # in THEN "invalid" ELSE "read"
    BY <1>2, <1>3, <2>2, SessionAssumption
  <2>5. NotFound(st, m, v)
    BY <2>3, <2>4 DEF NotFound, in
  <2> QED
    BY <2>5 DEF v
<1> QED
  BY <1>4, <1>5
-----------------------------------------------------------------------------
(* The shape of states: which root belongs to which chain.                 *)

(* The last agreement of s was between own and a key of q. *)
LastWith(s, own, q) == \E t \in s[Len(s)] : t[1] = q /\ s[Len(s)] = {t, own}

(* The chains of a state are the latest: one for every second root. *)
ChainsShaped(st) ==
    /\ Len(st.chains) >= 1
    /\ \A i \in 1..Len(st.chains) :
          Len(st.chains[i].key) = Len(st.root) - 1 - 2 * (Len(st.chains) - i)
    /\ Len(st.chains) = MaxChains \/ Len(st.chains[1].key) <= 2

(* The last agreement of a root is that of the own ratchet key.            *)
RootShaped(p, st) ==
    /\ LastWith(st.root, st.eph, Peer(p))
    /\ Len(st.root) = 2 => st.root[2] = {SignedPreKey(Peer(p)), st.eph}

(* The state initializeSessionAsAlice makes has the shape.                 *)
LEMMA AliceShaped ==
  ASSUME NEW p \in Parties, NEW base \in KeyPair, NEW once, NEW eph \in KeyPair
  PROVE  LET st == AliceState(base, once, SignedPreKey(Peer(p)), eph)
         IN ChainsShaped(st) /\ RootShaped(p, st)
<1> DEFINE spk == SignedPreKey(Peer(p))
           root == <<{base}, {spk, eph}>>
           st == AliceState(base, once, spk, eph)
<1>1. spk[1] = Peer(p)
  BY DEF SignedPreKey
<1> HIDE DEF spk
<1>2. st.root = root /\ st.eph = eph /\ st.chains = <<NewChain(spk, <<{base}>>)>>
  BY DEF AliceState
<1> HIDE DEF st
<1>3. Len(root) = 2 /\ root[2] = {spk, eph}
  OBVIOUS
<1> HIDE DEF root
<1>4. Len(st.chains) = 1 /\ st.chains[1].key = <<{base}>> /\ Len(<<{base}>>) = 1
  BY <1>2 DEF NewChain
<1>5. ChainsShaped(st)
  <2>1. \A i \in 1..Len(st.chains) : i = 1
    BY <1>4
  <2>2. Len(st.chains[1].key) = 1 /\ Len(st.root) = 2
    BY <1>2, <1>3, <1>4
  <2> QED
    BY <1>4, <2>1, <2>2 DEF ChainsShaped
<1>6. spk \in root[2]
  BY <1>3
<1>7. RootShaped(p, st)
  BY <1>1, <1>2, <1>3, <1>6 DEF RootShaped, LastWith, spk
<1> QED
  BY <1>5, <1>7 DEF st, spk

(* Reading keeps the shape of a state.                                     *)
LEMMA OpenedShaped ==
  ASSUME NEW p \in Parties, NEW st \in State, NEW m \in Msg, NEW own \in KeyPair,
         m.eph[1] = Peer(p), Len(st.root) >= 1,
         Blank(st) \/ (ChainsShaped(st) /\ RootShaped(p, st)),
         Opened(st, m, own).verdict = "read"
  PROVE  /\ ChainsShaped(Opened(st, m, own).state)
         /\ RootShaped(p, Opened(st, m, own).state)
<1> DEFINE o == Opened(st, m, own).state
<1>1. /\ o \in State
      /\ \/ \E i \in 1..Len(st.chains) : TakenFrom(st, m, i, o)
         \/ \E d \in {0, 1} : SteppedTo(st, m, own, d, o)
  BY OpenedIs
<1> HIDE DEF o
<1>2. /\ st.chains \in Seq(Chain) /\ Len(st.chains) \in Nat /\ Len(st.root) \in Nat
      /\ Len(m.key) \in Nat /\ m.n \in Nat /\ m.key \in Seq(Agreement) /\ m.eph \in KeyPair
      /\ Len(st.chains) <= MaxChains
  BY DEF State, Msg
<1>3. CASE \E i \in 1..Len(st.chains) : TakenFrom(st, m, i, o)
  <2>1. PICK i \in 1..Len(st.chains) : TakenFrom(st, m, i, o)
    BY <1>3
  <2>2. /\ o.root = st.root /\ o.eph = st.eph /\ Len(o.chains) = Len(st.chains)
        /\ o.chains[i] = Take(st.chains[i], m.n)
        /\ \A k \in 1..Len(st.chains) : k # i => o.chains[k] = st.chains[k]
    BY <2>1 DEF TakenFrom
  <2>3. st.chains[i] \in Chain
    BY <1>2
  <2>4. Take(st.chains[i], m.n).key = st.chains[i].key
    BY <1>2, <2>3, TakenIs
  <2>5. \A k \in 1..Len(st.chains) : o.chains[k].key = st.chains[k].key
    BY <2>2, <2>4
  <2>6. ChainsShaped(st) /\ RootShaped(p, st)
    BY <1>2 DEF Blank
  <2>7. ChainsShaped(o)
    <3>1. ASSUME NEW k \in 1..Len(o.chains)
          PROVE  Len(o.chains[k].key) = Len(o.root) - 1 - 2 * (Len(o.chains) - k)
      BY <2>2, <2>5, <2>6 DEF ChainsShaped
    <3>2. 1 \in 1..Len(st.chains)
      BY <1>2, <2>6 DEF ChainsShaped
    <3>3. Len(o.chains) >= 1 /\ (Len(o.chains) = MaxChains \/ Len(o.chains[1].key) <= 2)
      BY <2>2, <2>5, <2>6, <3>2 DEF ChainsShaped
    <3> QED
      BY <3>1, <3>3 DEF ChainsShaped
  <2>8. RootShaped(p, o)
    BY <2>2, <2>6 DEF RootShaped
  <2> QED
    BY <2>7, <2>8 DEF o
<1>4. CASE \E d \in {0, 1} : SteppedTo(st, m, own, d, o)
  <2>1. PICK d \in {0, 1} : SteppedTo(st, m, own, d, o)
    BY <1>4
  <2>2. /\ o.eph = own
        /\ Len(m.key) = Len(st.root) + 1 /\ Len(o.root) = Len(st.root) + 2
        /\ o.root[Len(st.root) + 2] = {m.eph, own}
        /\ d = 1 <=> Len(st.chains) >= MaxChains
        /\ Len(o.chains) = Len(st.chains) + 1 - d
        /\ o.chains[Len(o.chains)] = Take(NewChain(m.eph, m.key), m.n)
        /\ \A k \in 1..(Len(o.chains) - 1) :
              k + d \in 1..Len(st.chains) /\ o.chains[k] = st.chains[k + d]
    BY <2>1 DEF SteppedTo
  <2> DEFINE c == NewChain(m.eph, m.key)
  <2>3. c \in Chain /\ c.key = m.key
    BY <1>2 DEF NewChain, Chain
  <2> HIDE DEF c
  <2>4. o.chains[Len(o.chains)].key = m.key
    <3>1. Take(c, m.n).key = m.key
      BY <1>2, <2>3, TakenIs
    <3> QED
      BY <2>2, <3>1 DEF c
  <2>5. RootShaped(p, o)
    <3>1. o.root[Len(o.root)] = {m.eph, o.eph} /\ Len(o.root) # 2
      BY <1>2, <2>2
    <3> QED
      BY <3>1 DEF RootShaped, LastWith
  <2>6. Len(o.chains) \in Nat /\ Len(o.chains) >= 1
    BY <1>2, <2>2, SessionAssumption
  <2>7. \A k \in 1..Len(o.chains) : k = Len(o.chains) \/ k \in 1..(Len(o.chains) - 1)
    BY <2>6
  <2>8. CASE Blank(st)
    <3>1. Len(st.chains) = 0 /\ Len(st.root) = 1
      BY <2>8 DEF Blank
    <3>2. Len(o.chains) = 1 /\ o.chains[1].key = m.key /\ Len(m.key) = 2 /\ Len(o.root) = 3
      BY <1>2, <2>2, <2>4, <3>1, SessionAssumption
    <3>3. ChainsShaped(o)
      BY <3>2 DEF ChainsShaped
    <3> QED
      BY <2>5, <3>3 DEF o
  <2>9. CASE ChainsShaped(st)
    <3>1. ASSUME NEW k \in 1..Len(o.chains)
          PROVE  Len(o.chains[k].key) = Len(o.root) - 1 - 2 * (Len(o.chains) - k)
      <4>1. CASE k = Len(o.chains)
        BY <1>2, <2>2, <2>4, <4>1
      <4>2. CASE k \in 1..(Len(o.chains) - 1)
        <5>1. k + d \in 1..Len(st.chains) /\ o.chains[k].key = st.chains[k + d].key
          BY <2>2, <4>2
        <5>2. Len(st.chains[k + d].key) = Len(st.root) - 1 - 2 * (Len(st.chains) - (k + d))
          BY <2>9, <5>1 DEF ChainsShaped
        <5>3. Len(o.chains[k].key) = Len(st.root) - 1 - 2 * (Len(st.chains) - (k + d))
          BY <5>1, <5>2
        <5>4. /\ Len(o.chains) = Len(st.chains) + 1 - d /\ Len(o.root) = Len(st.root) + 2
              /\ Len(st.chains) \in Nat /\ Len(st.root) \in Nat
          BY <1>2, <2>2
        <5> DEFINE a == Len(st.chains)
                   b == Len(st.root)
                   x == Len(o.chains)
                   y == Len(o.root)
                   z == Len(o.chains[k].key)
        <5>5. /\ z = b - 1 - 2 * (a - (k + d)) /\ x = a + 1 - d /\ y = b + 2
              /\ a \in Nat /\ b \in Nat /\ x \in Nat /\ k \in Nat
          BY <2>6, <5>3, <5>4
        <5> HIDE DEF a, b, x, y, z
        <5>6. z = y - 1 - 2 * (x - k)
          BY <5>5
        <5> QED
          BY <5>6 DEF x, y, z
      <4> QED
        BY <2>7, <4>1, <4>2
    <3>2. Len(o.chains) = MaxChains \/ Len(o.chains[1].key) <= 2
      <4>1. CASE Len(st.chains) >= MaxChains
        BY <1>2, <2>2, <4>1, SessionAssumption
      <4>2. CASE ~(Len(st.chains) >= MaxChains)
        <5>1. d = 0 /\ Len(st.chains) >= 1
          BY <2>2, <2>9, <4>2 DEF ChainsShaped
        <5>2. 1 \in 1..(Len(o.chains) - 1)
          BY <1>2, <2>2, <5>1
        <5>3. o.chains[1] = st.chains[1 + d] /\ 1 + d = 1
          BY <2>2, <5>1, <5>2
        <5>4. Len(st.chains[1].key) <= 2
          BY <1>2, <2>9, <4>2, SessionAssumption DEF ChainsShaped
        <5> QED
          BY <5>3, <5>4
      <4> QED
        BY <4>1, <4>2
    <3>3. ChainsShaped(o)
      BY <2>6, <3>1, <3>2 DEF ChainsShaped
    <3> QED
      BY <2>5, <3>3 DEF o
  <2> QED
    BY <2>8, <2>9
<1> QED
  BY <1>1, <1>3, <1>4

(* Every key of a chain of p that is gone is that of a message in R. *)
Marked(R, p, c) ==
    /\ \/ c.eph[2] = 0 /\ Len(c.key) = 1
       \/ \E x \in R : x.to = p /\ x.msg.eph = c.eph /\ x.msg.key = c.key
    /\ \A n \in Nat : n < c.index /\ n \notin c.skipped =>
          \E x \in R : x.to = p /\ x.msg.eph = c.eph /\ x.msg.n = n

(* Every key of a state that is gone was used for a message of R.          *)
AllMarked(R, p, st) == \A i \in 1..Len(st.chains) : Marked(R, p, st.chains[i])

(* Only the key of the message that is read is gone. *)
LEMMA TakenOnly ==
  ASSUME NEW c \in Chain, NEW n \in Nat
  PROVE  \A k \in Nat : k < Take(c, n).index /\ k \notin Take(c, n).skipped
            => k = n \/ (k < c.index /\ k \notin c.skipped)
<1>1. /\ c \in [eph : KeyPair, key : Seq(Agreement), index : Nat, skipped : SUBSET Nat]
      /\ \A i \in c.skipped : i < c.index
  BY DEF Chain
<1>2. CASE n < c.index
  <2>1. Take(c, n).index = c.index /\ Take(c, n).skipped = c.skipped \ {n}
    BY <1>1, <1>2 DEF Take
  <2> QED
    BY <2>1
<1>3. CASE ~(n < c.index)
  <2>1. Take(c, n).index = n + 1 /\ Take(c, n).skipped = c.skipped \cup (c.index..(n - 1))
    BY <1>1, <1>3 DEF Take
  <2> QED
    BY <1>1, <1>3, <2>1
<1> QED
  BY <1>2, <1>3

(* Taking the key of a message that is marked leaves a chain marked.       *)
LEMMA TakenMarked ==
  ASSUME NEW R, NEW x, NEW c \in Chain, x.msg \in Msg,
         x.msg.eph = c.eph, x.msg.key = c.key,
         \A n \in Nat : n < c.index /\ n \notin c.skipped =>
            \E y \in R : y.to = x.to /\ y.msg.eph = c.eph /\ y.msg.n = n
  PROVE  Marked(R \cup {x}, x.to, Take(c, x.msg.n))
<1> DEFINE n == x.msg.n
           t == Take(c, n)
           S == R \cup {x}
<1>1. n \in Nat
  BY DEF Msg
<1>2. t.key = c.key /\ t.eph = c.eph
  BY <1>1, TakenIs
<1>3. \A k \in Nat : k < t.index /\ k \notin t.skipped
         => k = n \/ (k < c.index /\ k \notin c.skipped)
  BY <1>1, TakenOnly
<1> HIDE DEF t
<1>4. \E y \in S : y.to = x.to /\ y.msg.eph = t.eph /\ y.msg.key = t.key
  BY <1>2
<1>5. ASSUME NEW k \in Nat, k < t.index, k \notin t.skipped
      PROVE  \E y \in S : y.to = x.to /\ y.msg.eph = t.eph /\ y.msg.n = k
  <2>1. CASE k = n
    BY <1>2, <2>1
  <2>2. CASE k < c.index /\ k \notin c.skipped
    BY <1>2, <2>2
  <2> QED
    BY <1>3, <1>5, <2>1, <2>2
<1> QED
  BY <1>4, <1>5 DEF Marked, t, n, S

(* A chain stays marked when more is read.                                 *)
LEMMA MarkedMore ==
  ASSUME NEW R, NEW S, R \subseteq S, NEW p, NEW c, Marked(R, p, c)
  PROVE  Marked(S, p, c)
BY DEF Marked

(* Reading a message marks it in the state that read it.                   *)
LEMMA OpenedMarked ==
  ASSUME NEW R, NEW x, NEW st \in State, x.msg \in Msg, NEW own \in KeyPair,
         AllMarked(R, x.to, st), Opened(st, x.msg, own).verdict = "read"
  PROVE  AllMarked(R \cup {x}, x.to, Opened(st, x.msg, own).state)
<1> DEFINE m == x.msg
           o == Opened(st, m, own).state
           S == R \cup {x}
<1>1. /\ o \in State
      /\ \/ \E i \in 1..Len(st.chains) : TakenFrom(st, m, i, o)
         \/ \E d \in {0, 1} : SteppedTo(st, m, own, d, o)
  BY OpenedIs
<1> HIDE DEF o
<1>2. /\ st.chains \in Seq(Chain) /\ Len(st.chains) \in Nat
      /\ m.eph \in KeyPair /\ m.key \in Seq(Agreement) /\ m.n \in Nat
      /\ o.chains \in Seq(Chain) /\ Len(o.chains) \in Nat
  BY <1>1 DEF State, Msg
<1>3. \A i \in 1..Len(st.chains) : Marked(S, x.to, st.chains[i])
  BY MarkedMore DEF AllMarked
<1>4. CASE \E i \in 1..Len(st.chains) : TakenFrom(st, m, i, o)
  <2>1. PICK i \in 1..Len(st.chains) : TakenFrom(st, m, i, o)
    BY <1>4
  <2>2. /\ st.chains[i].eph = m.eph /\ st.chains[i].key = m.key
        /\ Len(o.chains) = Len(st.chains)
        /\ o.chains[i] = Take(st.chains[i], m.n)
        /\ \A k \in 1..Len(st.chains) : k # i => o.chains[k] = st.chains[k]
    BY <2>1 DEF TakenFrom
  <2> DEFINE c == st.chains[i]
  <2>3. /\ c \in Chain
        /\ \A n \in Nat : n < c.index /\ n \notin c.skipped =>
              \E y \in R : y.to = x.to /\ y.msg.eph = c.eph /\ y.msg.n = n
    BY <1>2 DEF AllMarked, Marked
  <2> HIDE DEF c
  <2>4. Marked(S, x.to, Take(c, m.n))
    BY <2>2, <2>3, TakenMarked DEF c
  <2>5. \A k \in 1..Len(o.chains) : Marked(S, x.to, o.chains[k])
    BY <1>3, <2>2, <2>4 DEF c
  <2> QED
    BY <2>5 DEF AllMarked, o, m, S
<1>5. CASE \E d \in {0, 1} : SteppedTo(st, m, own, d, o)
  <2>1. PICK d \in {0, 1} : SteppedTo(st, m, own, d, o)
    BY <1>5
  <2> DEFINE c == NewChain(m.eph, m.key)
  <2>2. /\ o.chains[Len(o.chains)] = Take(c, m.n)
        /\ \A k \in 1..(Len(o.chains) - 1) :
              k + d \in 1..Len(st.chains) /\ o.chains[k] = st.chains[k + d]
    BY <2>1 DEF SteppedTo
  <2>3. c \in Chain /\ c.key = m.key /\ c.eph = m.eph /\ c.index = 0
    BY <1>2 DEF NewChain, Chain
  <2> HIDE DEF c
  <2>4. Marked(S, x.to, Take(c, m.n))
    <3>1. \A n \in Nat : ~(n < c.index)
      BY <2>3
    <3> QED
      BY <2>3, <3>1, TakenMarked
  <2>5. \A k \in 1..Len(o.chains) : Marked(S, x.to, o.chains[k])
    <3>1. \A k \in 1..Len(o.chains) : k = Len(o.chains) \/ k \in 1..(Len(o.chains) - 1)
      BY <1>2
    <3>2. \A k \in 1..(Len(o.chains) - 1) : Marked(S, x.to, o.chains[k])
      BY <1>3, <2>2
    <3> QED
      BY <2>2, <2>4, <3>1, <3>2
  <2> QED
    BY <2>5 DEF AllMarked, o, m, S
<1> QED
  BY <1>1, <1>4, <1>5
-----------------------------------------------------------------------------
(* The invariant, and what a step has to show for each part.               *)

(* The parts of the invariant. Every state has the shape,                  *)
StatesShaped ==
    \A p \in Parties : \A i \in 1..Len(store[p]) :
       ChainsShaped(store[p][i]) /\ RootShaped(p, store[p][i])

(* every message was sent with the ratchet key of its last agreement,      *)
MsgsShaped == \A x \in sent : LastWith(x.msg.key, x.msg.eph, x.to)

(* and a receiver that has no key any more for a number of a chain has     *)
(* read the message with that number.                                      *)
ReadMarked ==
    \A p \in Parties : \A i \in 1..Len(store[p]) : AllMarked(read, p, store[p][i])

(* A ratchet key is that of one state, which counts its messages. *)
EphsDiffer ==
    \A p \in Parties : \A i, j \in 1..Len(store[p]) :
       store[p][i].eph = store[p][j].eph => i = j

(* A state knows which numbers its ratchet key was used for.               *)
CountedBy(x, st) == x.msg.eph = st.eph => x.msg.n < st.n /\ x.msg.key = st.root

(* No message has the number its sender uses next,                         *)
Counted ==
    \A p \in Parties : \A i \in 1..Len(store[p]) : \A x \in sent : CountedBy(x, store[p][i])

(* no two have the same number of one chain.                               *)
Apart ==
    \A x, y \in sent : x.msg.eph = y.msg.eph =>
       x.msg.key = y.msg.key /\ (x.msg.n = y.msg.n => x = y)

(* Who sends in a session has it, and so has who started it. *)
Begins ==
    /\ \A x \in sent : \A b \in KeyPair : x.msg.key[1] = {b} =>
          Met(Peer(x.to), b) /\ Met(b[1], b)
    /\ \A p \in Parties : \A i \in 1..Len(store[p]) :
          Met(store[p][i].base[1], store[p][i].base)
    /\ \A b \in used : Met(Peer(b[1]), b)

(* Neither end has archived the session out. *)
Held(b) == \A p \in Parties : <<p, b>> \notin lost

(* Who started a session that the peer does not have yet has made no       *)
(* ratchet step in it.                                                     *)
Unanswered ==
    \A p \in Parties : \A i \in 1..Len(store[p]) :
       /\ Held(store[p][i].base)
       /\ ~HasSessionState(store[Peer(p)], store[p][i].base)
       => Len(store[p][i].root) = 2

(* The end that is ahead made one agreement more, with both ratchet keys. *)
Ahead(a, b) ==
    /\ Len(b.root) = Len(a.root) + 1 /\ StartOf(a.root, b.root)
    /\ b.root[Len(b.root)] = {a.eph, b.eph}

(* Where both ends have a session, one is exactly one ratchet step ahead.  *)
InStep ==
    \A p \in Parties : \A i \in 1..Len(store[p]) : \A j \in 1..Len(store[Peer(p)]) :
       /\ store[p][i].base = store[Peer(p)][j].base
       /\ Held(store[p][i].base)
       => Ahead(store[p][i], store[Peer(p)][j]) \/ Ahead(store[Peer(p)][j], store[p][i])

(* k was a root of the end that now has s. *)
RootOf(k, s) ==
    /\ \A j \in 1..Len(k) : k[j] = s[j]
    /\ \E h \in Nat : Len(s) = Len(k) + 2 * h

(* What was sent in a session was sent from an earlier root of its sender, *)
(* or from the present one.                                                *)
KeysFollow ==
    \A x \in sent : \A i \in 1..Len(store[Peer(x.to)]) :
       /\ x.msg.key[1] = {store[Peer(x.to)][i].base}
       /\ Held(store[Peer(x.to)][i].base)
       => RootOf(x.msg.key, store[Peer(x.to)][i].root)

(* With RInv these are kept by every step of Ratchet.                      *)
SInv == /\ StatesShaped /\ MsgsShaped /\ ReadMarked
        /\ EphsDiffer /\ Counted /\ Apart
        /\ Begins /\ Unanswered /\ InStep /\ KeysFollow

(* A state of a record after a step is the one put first, or an old one of *)
(* another session.                                                        *)
Older(p, s, q, i) ==
    \E j \in 1..Len(store[q]) :
       /\ store'[q][i] = store[q][j]
       /\ q = p => i # 1 /\ store[q][j].base # s[1].base

(* So every state of a record comes from one of these two.                 *)
LEMMA StateFrom ==
  ASSUME RatchetTyped, NEW p \in Parties, NEW s, RecordStep(p, s),
         NEW q \in Parties, NEW i \in 1..Len(store'[q])
  PROVE  (q = p /\ i = 1 /\ store'[q][i] = s[1]) \/ Older(p, s, q, i)
<1>1. /\ store'[p] = s /\ \A n \in Parties \ {p} : store'[n] = store[n]
      /\ s \in Record /\ Len(s) >= 1 /\ Len(s) \in Nat
  BY RecordStepFacts
<1>2. /\ Distinct(s) /\ \A k \in 2..Len(s) : \E j \in 1..Len(store[p]) : s[k] = store[p][j]
  BY DEF RecordStep, Follows
<1>3. CASE q # p
  <2>1. store'[q] = store[q]
    BY <1>1, <1>3
  <2> QED
    BY <1>3, <2>1 DEF Older
<1>4. CASE q = p /\ i = 1
  BY <1>1, <1>4
<1>5. CASE q = p /\ i # 1
  <2>1. i \in 2..Len(s) /\ i \in 1..Len(s) /\ 1 \in 1..Len(s)
    BY <1>1, <1>5
  <2>2. PICK j \in 1..Len(store[p]) : s[i] = store[p][j]
    BY <1>2, <2>1
  <2>3. s[i].base # s[1].base
    BY <1>2, <1>5, <2>1 DEF Distinct
  <2> QED
    BY <1>1, <1>5, <2>2, <2>3 DEF Older
<1> QED
  BY <1>3, <1>4, <1>5

(* How the state that is put first by reading m comes from b.              *)
Stays(m, b, o) == o.root = b.root /\ o.eph = b.eph /\ o.n = b.n

(* A ratchet step makes two agreements and a new ratchet key.              *)
Steps(p, m, b, o) ==
    /\ o.eph = <<p, fresh[p] + 1>> /\ o.n = 0
    /\ Len(m.key) = Len(b.root) + 1 /\ Len(o.root) = Len(m.key) + 1
    /\ \A j \in 1..Len(b.root) : m.key[j] = b.root[j]
    /\ m.key[Len(m.key)] = {m.eph, b.eph}
    /\ \A j \in 1..Len(m.key) : o.root[j] = m.key[j]
    /\ o.root[Len(o.root)] = {m.eph, o.eph}

(* A state of p.                                                           *)
OneOf(b, p) == \E i \in 1..Len(store[p]) : b = store[p][i]
(* The state initializeSessionAsBob makes for m, which is no state of p.   *)
NewOne(m, b, p) ==
    /\ b.root = <<{b.base}>> /\ b.chains = <<>> /\ b.eph = SignedPreKey(p)
    /\ ~HasSessionState(store[p], b.base)
    /\ m.msg.key[1] = {b.base} /\ Len(m.msg.key) = 2

(* b reads m, and s is the record that comes of it.                        *)
ReadBy(m, b, s) ==
    /\ b \in State /\ b.base = s[1].base /\ s[1] \in State
    /\ Opened(b, m.msg, <<m.to, fresh[m.to] + 1>>).verdict = "read"
    /\ s[1] = Opened(b, m.msg, <<m.to, fresh[m.to] + 1>>).state
    /\ OneOf(b, m.to) \/ NewOne(m, b, m.to)
    /\ \/ OneOf(b, m.to) /\ Stays(m.msg, b, s[1])
       \/ Steps(m.to, m.msg, b, s[1])

(* What DecryptSafe says of reading, with the state that reads.            *)
LEMMA ReadIsBy ==
  ASSUME RatchetTyped, NEW m \in sent, NEW s, ReadInto(m, s)
  PROVE  \E b : ReadBy(m, b, s)
<1> DEFINE p == m.to
           k == m.msg
           own == <<p, fresh[p] + 1>>
           r == store[p]
<1>1. /\ k \in Msg /\ MsgFits(fresh, k) /\ p \in Parties
      /\ Source(r, k, p, own, s[1]) /\ fresh \in Counts
  BY DEF ReadInto, RatchetTyped
<1>2. own \in KeyPair
  <2>1. p \in Parties /\ fresh \in Counts
    BY <1>1
  <2> HIDE DEF p
  <2> QED
    BY <2>1, NewIsUnknown
<1>3. PICK b \in State :
         /\ Opened(b, k, own).verdict = "read" /\ s[1] = Opened(b, k, own).state
         /\ \/ \E i \in 1..Len(r) : b = r[i]
            \/ \E a \in k.pre : /\ ~HasSessionState(r, a.base)
                                /\ b = BobState(a.base, SignedPreKey(p))
  BY <1>1 DEF Source
<1>4. OneOf(b, p) \/ (NewOne(m, b, p) /\ b.chains = <<>>)
  <2>1. CASE \E i \in 1..Len(r) : b = r[i]
    BY <2>1 DEF OneOf
  <2>2. CASE \E a \in k.pre : /\ ~HasSessionState(r, a.base)
                              /\ b = BobState(a.base, SignedPreKey(p))
    <3>1. PICK a \in k.pre : /\ ~HasSessionState(r, a.base)
                             /\ b = BobState(a.base, SignedPreKey(p))
      BY <2>2
    <3>2. k.key[1] = {a.base} /\ Len(k.key) = 2
      BY <1>1, NeedsIs
    <3>3. /\ b.base = a.base /\ b.root = <<{a.base}>> /\ b.chains = <<>>
          /\ b.eph = SignedPreKey(p)
      BY <3>1 DEF BobState
    <3> QED
      BY <3>1, <3>2, <3>3 DEF NewOne
  <2> QED
    BY <1>3, <2>1, <2>2
<1>5. /\ s[1] \in State /\ s[1].base = b.base
      /\ \/ \E i \in 1..Len(b.chains) : TakenFrom(b, k, i, s[1])
         \/ \E d \in {0, 1} : SteppedTo(b, k, own, d, s[1])
  BY <1>1, <1>2, <1>3, OpenedIs
<1>6. CASE \E i \in 1..Len(b.chains) : TakenFrom(b, k, i, s[1])
  <2>1. Stays(k, b, s[1])
    BY <1>6 DEF TakenFrom, Stays
  <2>2. OneOf(b, p)
    BY <1>4, <1>6
  <2> QED
    BY <1>3, <1>4, <1>5, <2>1, <2>2 DEF ReadBy
<1>7. CASE \E d \in {0, 1} : SteppedTo(b, k, own, d, s[1])
  <2>1. /\ s[1].eph = own /\ s[1].n = 0
        /\ Len(k.key) = Len(b.root) + 1 /\ Len(s[1].root) = Len(b.root) + 2
        /\ \A j \in 1..Len(b.root) : k.key[j] = b.root[j]
        /\ k.key[Len(b.root) + 1] = {k.eph, b.eph}
        /\ \A j \in 1..Len(k.key) : s[1].root[j] = k.key[j]
        /\ s[1].root[Len(b.root) + 2] = {k.eph, own}
    BY <1>7 DEF SteppedTo
  <2>2. Len(b.root) \in Nat
    BY DEF State
  <2>3. Len(s[1].root) = Len(k.key) + 1 /\ Len(s[1].root) = Len(b.root) + 2
    BY <2>1, <2>2
  <2>4. Steps(p, k, b, s[1])
    BY <2>1, <2>3 DEF Steps
  <2> QED
    BY <1>3, <1>4, <1>5, <2>4 DEF ReadBy
<1> QED
  BY <1>5, <1>6, <1>7

(* What is left to show of each part when p puts a state first. *)
LEMMA ShapedStep ==
  ASSUME RatchetTyped, StatesShaped, NEW p \in Parties, NEW s, RecordStep(p, s),
         ChainsShaped(s[1]), RootShaped(p, s[1])
  PROVE  StatesShaped'
<1>1. ASSUME NEW q \in Parties, NEW i \in 1..Len(store'[q])
      PROVE  ChainsShaped(store'[q][i]) /\ RootShaped(q, store'[q][i])
  <2>1. (q = p /\ store'[q][i] = s[1]) \/ \E j \in 1..Len(store[q]) : store'[q][i] = store[q][j]
    BY StateFrom DEF Older
  <2> QED
    BY <2>1 DEF StatesShaped
<1>2. \A q \in Parties : \A i \in 1..Len(store'[q]) :
         ChainsShaped(store'[q][i]) /\ RootShaped(q, store'[q][i])
  BY <1>1
<1> QED
  BY <1>2 DEF StatesShaped, RootShaped

(* so it is marked,                                                        *)
LEMMA MarkedStep ==
  ASSUME RatchetTyped, ReadMarked, NEW p \in Parties, NEW s, RecordStep(p, s),
         read \subseteq read', AllMarked(read', p, s[1])
  PROVE  ReadMarked'
<1>1. ASSUME NEW q \in Parties, NEW i \in 1..Len(store'[q])
      PROVE  AllMarked(read', q, store'[q][i])
  <2>1. (q = p /\ store'[q][i] = s[1]) \/ \E j \in 1..Len(store[q]) : store'[q][i] = store[q][j]
    BY StateFrom DEF Older
  <2>2. \A j \in 1..Len(store[q]) : AllMarked(read', q, store[q][j])
    BY MarkedMore DEF ReadMarked, AllMarked
  <2> QED
    BY <2>1, <2>2
<1> QED
  BY <1>1 DEF ReadMarked

(* its ratchet key is no other state's,                                    *)
LEMMA EphsStep ==
  ASSUME RatchetTyped, EphsDiffer, NEW p \in Parties, NEW s, RecordStep(p, s),
         \A j \in 1..Len(store[p]) :
            store[p][j].eph = s[1].eph => store[p][j].base = s[1].base
  PROVE  EphsDiffer'
<1>1. ASSUME NEW q \in Parties, NEW i \in 1..Len(store'[q]), NEW k \in 1..Len(store'[q]),
             store'[q][i].eph = store'[q][k].eph
      PROVE  i = k
  <2>1. /\ (q = p /\ i = 1 /\ store'[q][i] = s[1]) \/ Older(p, s, q, i)
        /\ (q = p /\ k = 1 /\ store'[q][k] = s[1]) \/ Older(p, s, q, k)
    BY StateFrom
  <2>2. CASE Older(p, s, q, i) /\ Older(p, s, q, k)
    <3>1. PICK j \in 1..Len(store[q]) :
             store'[q][i] = store[q][j] /\ (q = p => i # 1 /\ store[q][j].base # s[1].base)
      BY <2>2 DEF Older
    <3>2. PICK l \in 1..Len(store[q]) :
             store'[q][k] = store[q][l] /\ (q = p => k # 1 /\ store[q][l].base # s[1].base)
      BY <2>2 DEF Older
    <3>3. j = l
      BY <1>1, <3>1, <3>2 DEF EphsDiffer
    <3>4. store'[q][i].base = store'[q][k].base
      BY <3>1, <3>2, <3>3
    <3>5. CASE q = p
      <4>1. store'[q] = s
        BY <3>5, RecordStepFacts
      <4>2. Distinct(s)
        BY DEF RecordStep, Follows
      <4> QED
        BY <3>4, <4>1, <4>2 DEF Distinct
    <3>6. CASE q # p
      <4>1. store'[q] = store[q]
        BY <3>6, RecordStepFacts
      <4>2. i \in 1..Len(store[q]) /\ k \in 1..Len(store[q])
        BY <4>1
      <4>3. store[q][i].eph = store[q][k].eph
        BY <1>1, <4>1
      <4> QED
        BY <4>2, <4>3 DEF EphsDiffer
    <3> QED
      BY <3>5, <3>6
  <2>3. CASE q = p /\ i = 1 /\ store'[q][i] = s[1] /\ Older(p, s, q, k)
    BY <1>1, <2>3 DEF Older
  <2>4. CASE q = p /\ k = 1 /\ store'[q][k] = s[1] /\ Older(p, s, q, i)
    BY <1>1, <2>4 DEF Older
  <2> QED
    BY <2>1, <2>2, <2>3, <2>4
<1> QED
  BY <1>1 DEF EphsDiffer

(* its number is the next one and so are those of messages sent before,    *)
LEMMA CountedStep ==
  ASSUME RatchetTyped, Counted, NEW p \in Parties, NEW s, RecordStep(p, s),
         \A x \in sent' : CountedBy(x, s[1]),
         \A x \in sent' \ sent : \A q \in Parties : \A j \in 1..Len(store[q]) :
            store[q][j].eph = x.msg.eph => q = p /\ store[q][j].base = s[1].base
  PROVE  Counted'
<1>1. ASSUME NEW q \in Parties, NEW i \in 1..Len(store'[q]), NEW x \in sent'
      PROVE  CountedBy(x, store'[q][i])
  <2>1. (q = p /\ i = 1 /\ store'[q][i] = s[1]) \/ Older(p, s, q, i)
    BY StateFrom
  <2>2. CASE Older(p, s, q, i)
    <3>1. PICK j \in 1..Len(store[q]) :
             store'[q][i] = store[q][j] /\ (q = p => store[q][j].base # s[1].base)
      BY <2>2 DEF Older
    <3>2. CASE x \in sent
      BY <3>1, <3>2 DEF Counted
    <3>3. CASE x \notin sent
      BY <3>1, <3>3 DEF CountedBy
    <3> QED
      BY <3>2, <3>3
  <2> QED
    BY <2>1, <2>2
<1>2. \A q \in Parties : \A i \in 1..Len(store'[q]) : \A x \in sent' : CountedBy(x, store'[q][i])
  BY <1>1
<1> QED
  BY <1>2 DEF Counted, CountedBy

(* its session was met by both,                                            *)
LEMMA BeginsStep ==
  ASSUME RatchetTyped, MsgsFit, LostFits, Begins,
         NEW p \in Parties, NEW s, RecordStep(p, s), s[1].base \in KeyPair,
         NEW b0, b0 = s[1].base, Met(b0[1], b0)',
         \A x \in sent' \ sent : x.to = Peer(p) /\ x.msg.key[1] = {s[1].base},
         \A b \in used' \ used : b = s[1].base /\ p = Peer(b[1])
  PROVE  Begins'
<1>1. /\ store'[p] = s /\ s \in Record /\ Len(s) >= 1 /\ Len(s) \in Nat
      /\ \A q \in Parties : \A b : Met(q, b) => Met(q, b)'
  BY RecordStepFacts
<1>2. Met(p, b0)'
  <2>1. 1 \in DOMAIN s
    BY <1>1, BasesAre
  <2> QED
    BY <1>1, <2>1 DEF Met, HasSessionState
<1>6. \A b : b = s[1].base => Met(b[1], b)' /\ Met(p, b)'
  BY <1>2
<1>3. ASSUME NEW x \in sent', NEW b \in KeyPair, x.msg.key[1] = {b}
      PROVE  Met(Peer(x.to), b)' /\ Met(b[1], b)'
  <2>1. CASE x \in sent
    <3>1. x.to \in Parties /\ Peer(x.to) \in Parties /\ b[1] \in Parties
      BY <2>1, PeerIsOther DEF RatchetTyped, KeyPair
    <3>2. Met(Peer(x.to), b) /\ Met(b[1], b)
      BY <1>3, <2>1 DEF Begins
    <3> QED
      BY <1>1, <3>1, <3>2
  <2>2. CASE x \notin sent
    <3>1. b = s[1].base /\ x.to = Peer(p) /\ Peer(x.to) = p
      BY <1>3, <2>2, PeerOfPeer
    <3> QED
      BY <1>6, <3>1
  <2> QED
    BY <2>1, <2>2
<1>4. ASSUME NEW q \in Parties, NEW i \in 1..Len(store'[q]), NEW b, b = store'[q][i].base
      PROVE  Met(b[1], b)'
  <2>1. (q = p /\ i = 1 /\ store'[q][i] = s[1])
           \/ \E j \in 1..Len(store[q]) : store'[q][i] = store[q][j]
    BY StateFrom DEF Older
  <2>2. CASE \E j \in 1..Len(store[q]) : store'[q][i] = store[q][j]
    <3>1. PICK j \in 1..Len(store[q]) : store'[q][i] = store[q][j]
      BY <2>2
    <3>2. b = store[q][j].base
      BY <1>4, <3>1
    <3>3. store[q][j] \in State
      BY DEF RatchetTyped, Record
    <3>4. b[1] \in Parties
      BY <3>2, <3>3 DEF State, KeyPair
    <3>5. Met(b[1], b)
      BY <3>2 DEF Begins
    <3> QED
      BY <1>1, <3>4, <3>5
  <2>3. CASE q = p /\ i = 1 /\ store'[q][i] = s[1]
    <3>1. b = s[1].base
      BY <1>4, <2>3
    <3> QED
      BY <1>6, <3>1
  <2> QED
    BY <2>1, <2>2, <2>3
<1>5. ASSUME NEW b \in used' PROVE Met(Peer(b[1]), b)'
  <2>1. CASE b \in used
    <3>1. b \in KeyPair /\ Peer(b[1]) \in Parties /\ Met(Peer(b[1]), b)
      BY <2>1, PeerIsOther DEF LostFits, KeyPair, Begins
    <3> QED
      BY <1>1, <3>1
  <2>2. CASE b \notin used
    <3>1. b = s[1].base /\ p = Peer(b[1])
      BY <2>2
    <3> QED
      BY <1>6, <3>1
  <2> QED
    BY <2>1, <2>2
<1>7. \A q \in Parties : \A i \in 1..Len(store'[q]) :
         Met(store[q][i].base[1], store[q][i].base)'
  BY <1>4 DEF Met
<1>8. \A x \in sent' : \A b \in KeyPair : x.msg.key[1] = {b} =>
         Met(Peer(x.to), b)' /\ Met(b[1], b)'
  BY <1>3
<1>9. \A b \in used' : Met(Peer(b[1]), b)'
  BY <1>5
<1> QED
  BY <1>7, <1>8, <1>9 DEF Begins, Met

(* What both ends hold after a step they held before it.                   *)
LEMMA HeldBefore ==
  ASSUME RatchetTyped, NEW p \in Parties, NEW s, RecordStep(p, s), NEW b, Held(b)'
  PROVE  /\ Held(b)
         /\ \A q \in Parties : HasSessionState(store[q], b) => HasSessionState(store'[q], b)
<1>1. \A q \in Parties : <<q, b>> \notin lost'
  BY DEF Held
<1>2. lost \subseteq lost'
  BY DEF RecordStep
<1>3. Held(b)
  BY <1>1, <1>2 DEF Held
<1>4. \A q \in Parties : HasSessionState(store[q], b) => Met(q, b)'
  BY RecordStepFacts
<1>5. \A q \in Parties : Met(q, b)' => HasSessionState(store'[q], b)
  BY <1>1 DEF Met
<1> QED
  BY <1>3, <1>4, <1>5

(* it waits for an answer with its first root,                             *)
LEMMA UnansweredStep ==
  ASSUME RatchetTyped, Unanswered, NEW p \in Parties, NEW s, RecordStep(p, s),
         NEW b0, b0 = s[1].base,
         Held(b0)' /\ ~HasSessionState(store[Peer(p)], b0) => Len(s[1].root) = 2
  PROVE  Unanswered'
<1>1. /\ store'[p] = s /\ \A q \in Parties \ {p} : store'[q] = store[q]
      /\ Peer(p) \in Parties /\ Peer(p) # p
  BY RecordStepFacts, PeerIsOther
<1>2. ASSUME NEW q \in Parties, NEW i \in 1..Len(store'[q]), NEW b, b = store'[q][i].base,
             Held(b)', ~HasSessionState(store'[Peer(q)], b)
      PROVE  Len(store'[q][i].root) = 2
  <2>1. (q = p /\ i = 1 /\ store'[q][i] = s[1]) \/ Older(p, s, q, i)
    BY StateFrom
  <2>2. CASE q = p /\ i = 1 /\ store'[q][i] = s[1]
    <3>1. b = b0 /\ store'[Peer(p)] = store[Peer(p)]
      BY <1>1, <1>2, <2>2
    <3>2. Held(b0)' /\ ~HasSessionState(store[Peer(p)], b0)
      BY <1>2, <2>2, <3>1
    <3> QED
      BY <2>2, <3>2
  <2>3. CASE Older(p, s, q, i)
    <3>1. PICK j \in 1..Len(store[q]) : store'[q][i] = store[q][j]
      BY <2>3 DEF Older
    <3>2. Peer(q) \in Parties
      BY PeerIsOther
    <3>3. Held(b) /\ ~HasSessionState(store[Peer(q)], b)
      BY <1>2, <3>2, HeldBefore
    <3>4. b = store[q][j].base
      BY <1>2, <3>1
    <3> QED
      BY <3>1, <3>3, <3>4 DEF Unanswered
  <2> QED
    BY <2>1, <2>2, <2>3
<1> QED
  BY <1>2 DEF Unanswered, Held

(* it is in step with its peer,                                            *)
LEMMA InStepStep ==
  ASSUME RatchetTyped, InStep, NEW p \in Parties, NEW s, RecordStep(p, s),
         NEW b0, b0 = s[1].base,
         Held(b0)' => \A j \in 1..Len(store[Peer(p)]) : store[Peer(p)][j].base = b0 =>
            Ahead(s[1], store[Peer(p)][j]) \/ Ahead(store[Peer(p)][j], s[1])
  PROVE  InStep'
<1>1. /\ store'[p] = s /\ \A q \in Parties \ {p} : store'[q] = store[q]
      /\ Peer(p) \in Parties /\ Peer(p) # p /\ Peer(Peer(p)) = p
  BY RecordStepFacts, PeerIsOther, PeerOfPeer
<1>2. ASSUME NEW q \in Parties, NEW i \in 1..Len(store'[q]), NEW j \in 1..Len(store'[Peer(q)]),
             NEW b, b = store'[q][i].base, b = store'[Peer(q)][j].base, Held(b)'
      PROVE  \/ Ahead(store'[q][i], store'[Peer(q)][j])
             \/ Ahead(store'[Peer(q)][j], store'[q][i])
  <2>1. Peer(q) \in Parties /\ Peer(q) # q /\ Peer(Peer(q)) = q
    BY PeerIsOther, PeerOfPeer
  <2>2. (q = p /\ i = 1 /\ store'[q][i] = s[1]) \/ Older(p, s, q, i)
    BY StateFrom
  <2>3. (Peer(q) = p /\ j = 1 /\ store'[Peer(q)][j] = s[1]) \/ Older(p, s, Peer(q), j)
    BY <2>1, StateFrom
  <2>4. CASE q = p /\ i = 1 /\ store'[q][i] = s[1]
    <3>1. b = b0 /\ store'[Peer(p)] = store[Peer(p)]
      BY <1>1, <1>2, <2>4
    <3>2. j \in 1..Len(store[Peer(p)]) /\ store[Peer(p)][j].base = b0
      BY <1>2, <2>4, <3>1
    <3>3. Held(b0)'
      BY <1>2, <3>1
    <3> QED
      BY <2>4, <3>1, <3>2, <3>3
  <2>5. CASE Peer(q) = p /\ j = 1 /\ store'[Peer(q)][j] = s[1]
    <3>1. q = Peer(p) /\ b = b0 /\ store'[q] = store[q]
      BY <1>1, <1>2, <2>1, <2>5
    <3>2. i \in 1..Len(store[Peer(p)]) /\ store[Peer(p)][i].base = b0
      BY <1>2, <2>5, <3>1
    <3>3. Held(b0)'
      BY <1>2, <3>1
    <3> QED
      BY <2>5, <3>1, <3>2, <3>3
  <2>6. CASE Older(p, s, q, i) /\ Older(p, s, Peer(q), j)
    <3>1. PICK k \in 1..Len(store[q]) : store'[q][i] = store[q][k]
      BY <2>6 DEF Older
    <3>2. PICK l \in 1..Len(store[Peer(q)]) : store'[Peer(q)][j] = store[Peer(q)][l]
      BY <2>6 DEF Older
    <3>3. Held(b)
      BY <1>2, HeldBefore
    <3>4. store[q][k].base = b /\ store[Peer(q)][l].base = b
      BY <1>2, <3>1, <3>2
    <3>5. Ahead(store[q][k], store[Peer(q)][l]) \/ Ahead(store[Peer(q)][l], store[q][k])
      BY <3>3, <3>4 DEF InStep
    <3> QED
      BY <3>1, <3>2, <3>5
  <2> QED
    BY <2>2, <2>3, <2>4, <2>5, <2>6
<1>3. ASSUME NEW q \in Parties, NEW i \in 1..Len(store'[q]), NEW j \in 1..Len(store'[Peer(q)]),
             store'[q][i].base = store'[Peer(q)][j].base,
             \A n \in Parties : <<n, store'[q][i].base>> \notin lost'
      PROVE  \/ Ahead(store'[q][i], store'[Peer(q)][j])
             \/ Ahead(store'[Peer(q)][j], store'[q][i])
  BY <1>2, <1>3 DEF Held
<1> QED
  BY <1>3 DEF InStep, Held

(* and its root continues those it sent from.                              *)
LEMMA KeysStep ==
  ASSUME RatchetTyped, KeysFollow, NEW p \in Parties, NEW s, RecordStep(p, s),
         NEW b0, b0 = s[1].base,
         Held(b0)' => \A x \in sent' : Peer(x.to) = p /\ x.msg.key[1] = {b0} =>
            RootOf(x.msg.key, s[1].root),
         \A x \in sent' \ sent : x.to = Peer(p) /\ x.msg.key[1] = {b0}
  PROVE  KeysFollow'
<1>1. Peer(Peer(p)) = p
  BY PeerOfPeer
<1>2. ASSUME NEW x \in sent', NEW i \in 1..Len(store'[Peer(x.to)]), NEW b,
             b = store'[Peer(x.to)][i].base, x.msg.key[1] = {b}, Held(b)'
      PROVE  RootOf(x.msg.key, store'[Peer(x.to)][i].root)
  <2> DEFINE q == Peer(x.to)
  <2>1. q \in Parties
    <3>1. x \in sent => x.to \in Parties
      BY DEF RatchetTyped
    <3>2. x \notin sent => q = p
      BY <1>1
    <3> QED
      BY <3>1, <3>2, PeerIsOther
  <2> HIDE DEF q
  <2>2. (q = p /\ i = 1 /\ store'[q][i] = s[1]) \/ Older(p, s, q, i)
    BY <2>1, StateFrom DEF q
  <2>3. CASE q = p /\ i = 1 /\ store'[q][i] = s[1]
    <3>1. b = b0
      BY <1>2, <2>3 DEF q
    <3>2. Held(b0)'
      BY <1>2, <3>1
    <3> QED
      BY <1>2, <2>3, <3>1, <3>2 DEF q
  <2>4. CASE Older(p, s, q, i)
    <3>1. PICK j \in 1..Len(store[q]) :
             store'[q][i] = store[q][j] /\ (q = p => store[q][j].base # b0)
      BY <2>4 DEF Older
    <3>2. store[q][j].base = b
      BY <1>2, <3>1 DEF q
    <3>3. x \in sent
      BY <1>1, <1>2, <3>1, <3>2 DEF q
    <3>4. Held(b)
      BY <1>2, HeldBefore
    <3>5. RootOf(x.msg.key, store[q][j].root)
      BY <1>2, <3>2, <3>3, <3>4 DEF KeysFollow, q
    <3> QED
      BY <3>1, <3>5 DEF q
  <2> QED
    BY <2>2, <2>3, <2>4
<1>3. ASSUME NEW x \in sent', NEW i \in 1..Len(store'[Peer(x.to)]),
             x.msg.key[1] = {store'[Peer(x.to)][i].base},
             \A q \in Parties : <<q, store'[Peer(x.to)][i].base>> \notin lost'
      PROVE  RootOf(x.msg.key, store'[Peer(x.to)][i].root)
  BY <1>2, <1>3 DEF Held
<1> QED
  BY <1>3 DEF KeysFollow, Held
-----------------------------------------------------------------------------
(* Each operation keeps it.                                                *)

(* What the invariants say of one state and of one message.                *)
LEMMA OneState ==
  ASSUME RatchetTyped, StatesFit, NEW q \in Parties, NEW i \in 1..Len(store[q])
  PROVE  /\ store[q][i] \in State /\ StateFits(fresh, store[q][i])
         /\ Known(fresh, store[q][i].base) /\ store[q][i].base \in KeyPair
         /\ Known(fresh, store[q][i].eph) /\ store[q][i].eph[1] = q
         /\ Len(store[q][i].root) >= 2 /\ Len(store[q][i].root) \in Nat
         /\ store[q][i].root[1] = {store[q][i].base}
         /\ store[q][i].key = store[q][i].root /\ store[q][i].eph[2] >= 1
<1>1. i \in DOMAIN store[q] /\ store[q] \in Record
  BY BasesAre DEF RatchetTyped
<1>2. store[q][i] \in State /\ StateFits(fresh, store[q][i]) /\ store[q][i] \in OwnState(q)
  BY <1>1 DEF StatesFit, OwnRecord, Record
<1> DEFINE st == store[q][i]
<1> HIDE DEF st
<1>3. Known(fresh, st.base) /\ st.base \in KeyPair
  BY <1>2, BaseKnown DEF st
<1>4. Known(fresh, st.eph) /\ st.eph[2] >= 1 /\ st.key = st.root /\ st.root[1] = {st.base}
  BY <1>2 DEF st, StateFits, RootFits
<1>5. Len(st.root) \in Nat
  BY <1>2 DEF st, State
<1>6. Len(st.root) >= 2
  BY <1>2, <1>5 DEF st, StateFits
<1>7. st.eph[1] = q
  BY <1>2 DEF st, OwnState
<1> QED
  BY <1>2, <1>3, <1>4, <1>5, <1>6, <1>7 DEF st

(* And of one message.                                                     *)
LEMMA OneMessage ==
  ASSUME RatchetTyped, MsgsFit, NEW x \in sent
  PROVE  /\ x.to \in Parties /\ x.msg \in Msg /\ MsgFits(fresh, x.msg)
         /\ Known(fresh, x.msg.eph) /\ x.msg.eph[1] = Peer(x.to)
         /\ x.msg.eph[2] >= 1 /\ x.msg.eph \in KeyPair
         /\ x.msg.key \in Seq(Agreement) /\ Len(x.msg.key) >= 2 /\ Len(x.msg.key) \in Nat
         /\ \E b \in KeyPair : x.msg.key[1] = {b}
         /\ \A b : x.msg.key[1] = {b} => Known(fresh, b)
<1>1. /\ x.to \in Parties /\ x.msg \in Msg /\ MsgFits(fresh, x.msg)
      /\ x.msg \in OwnMsg(Peer(x.to))
  BY DEF RatchetTyped, MsgsFit
<1> DEFINE m == x.msg
<1> HIDE DEF m
<1>2. Known(fresh, m.eph) /\ m.eph[1] = Peer(x.to) /\ m.eph[2] >= 1
  BY <1>1 DEF m, MsgFits, OwnMsg
<1>3. m.eph \in KeyPair /\ m.key \in Seq(Agreement) /\ Len(m.key) \in Nat
  BY <1>1 DEF m, Msg
<1>4. Len(m.key) >= 2 /\ \E b \in KeyPair : m.key[1] = {b}
  <2>1. PICK b \in KeyPair : m.key[1] = {b} /\ (Len(m.key) = 2 \/ Len(m.key) >= 3)
    BY <1>1 DEF m, MsgFits
  <2> QED
    BY <1>3, <2>1
<1>5. 1 \in 1..Len(m.key) /\ AllKnown(fresh, m.key)
  BY <1>1, <1>3, <1>4 DEF m, MsgFits
<1>6. \A b : m.key[1] = {b} => Known(fresh, b)
  BY <1>5 DEF AllKnown
<1> QED
  BY <1>1, <1>2, <1>3, <1>4, <1>6 DEF m

(* Starting a session keeps SInv: nobody knows its keys yet.               *)
LEMMA StartingSync ==
  ASSUME RInv, SInv, NEW p \in Parties, NEW s, Starting(p, s)
  PROVE  SInv'
<1>1. PICK b0, eph : b0 = <<p, fresh[p] + 1>> /\ eph = <<p, fresh[p] + 2>>
  OBVIOUS
<1>2. /\ RatchetTyped /\ StatesFit /\ MsgsFit /\ LostFits /\ fresh \in Counts
      /\ StatesShaped /\ MsgsShaped /\ ReadMarked /\ EphsDiffer /\ Counted /\ Apart
      /\ Begins /\ Unanswered /\ InStep /\ KeysFollow
  BY DEF RInv, SInv, RatchetTyped
<1>3. /\ RecordStep(p, s) /\ used' = used /\ sent' = sent /\ read' = read
      /\ Peer(p) \in Parties
  BY PeerIsOther DEF Starting
<1>4. /\ ~Known(fresh, b0) /\ ~Known(fresh, eph) /\ b0 \in KeyPair /\ eph \in KeyPair
      /\ b0[1] = p
  BY <1>2, <1>1, NewIsUnknown
<1>5. PICK once \in BOOLEAN : s[1] = AliceState(b0, once, SignedPreKey(Peer(p)), eph)
  BY <1>1 DEF Starting
<1>6. ChainsShaped(s[1]) /\ RootShaped(p, s[1])
  BY <1>4, <1>5, AliceShaped
<1>7. /\ s[1].base = b0 /\ s[1].eph = eph /\ Len(s[1].root) = 2
      /\ s[1].chains = <<NewChain(SignedPreKey(Peer(p)), <<{b0}>>)>>
  BY <1>5 DEF AliceState
<1>8. AllMarked(read, p, s[1])
  <2> DEFINE c == NewChain(SignedPreKey(Peer(p)), <<{b0}>>)
  <2>1. c.eph[2] = 0 /\ Len(c.key) = 1 /\ c.index = 0
    BY DEF NewChain, SignedPreKey
  <2> HIDE DEF c
  <2>2. Marked(read, p, c)
    BY <2>1 DEF Marked
  <2>3. Len(s[1].chains) = 1 /\ s[1].chains[1] = c
    BY <1>7 DEF c
  <2>4. \A i \in 1..Len(s[1].chains) : i = 1
    BY <2>3
  <2> QED
    BY <2>2, <2>3, <2>4 DEF AllMarked
<1>9. StatesShaped'
  BY <1>2, <1>3, <1>6, ShapedStep
<1>10. ReadMarked'
  BY <1>2, <1>3, <1>8, MarkedStep
<1>11. EphsDiffer'
  <2>1. \A j \in 1..Len(store[p]) : store[p][j].eph # s[1].eph
    <3>1. \A j \in 1..Len(store[p]) : Known(fresh, store[p][j].eph)
      BY <1>2, OneState
    <3> QED
      BY <1>4, <1>7, <3>1
  <2> QED
    BY <1>2, <1>3, <2>1, EphsStep
<1>12. Counted'
  <2>1. \A x \in sent' : x.msg.eph # s[1].eph
    BY <1>2, <1>3, <1>4, <1>7, OneMessage
  <2>2. \A x \in sent' : CountedBy(x, s[1])
    BY <2>1 DEF CountedBy
  <2> QED
    BY <1>2, <1>3, <2>2, CountedStep
<1>13. MsgsShaped' /\ Apart'
  BY <1>2, <1>3 DEF MsgsShaped, Apart
<1>14. Begins'
  <2>1. Met(b0[1], b0)'
    <3>1. store'[p] = s /\ 1 \in DOMAIN s
      BY <1>2, <1>3, RecordStepFacts, BasesAre
    <3> QED
      BY <1>4, <1>7, <3>1 DEF Met, HasSessionState
  <2> QED
    BY <1>2, <1>3, <1>4, <1>7, <2>1, BeginsStep
<1>15. Unanswered'
  BY <1>2, <1>3, <1>7, UnansweredStep
<1>16. InStep'
  <2>1. \A j \in 1..Len(store[Peer(p)]) : store[Peer(p)][j].base # b0
    BY <1>2, <1>3, <1>4, OneState
  <2> QED
    BY <1>2, <1>3, <1>7, <2>1, InStepStep
<1>17. KeysFollow'
  <2>1. \A x \in sent : x.msg.key[1] # {b0}
    BY <1>2, <1>4, OneMessage
  <2>2. \A x \in sent' : Peer(x.to) = p /\ x.msg.key[1] = {b0} =>
           RootOf(x.msg.key, s[1].root)
    BY <1>3, <2>1
  <2>3. \A x \in sent' \ sent : x.to = Peer(p) /\ x.msg.key[1] = {b0}
    BY <1>3
  <2>4. b0 = s[1].base /\ p \in Parties /\ RecordStep(p, s) /\ RatchetTyped /\ KeysFollow
    BY <1>2, <1>3, <1>7
  <2> QED
    BY <2>2, <2>3, <2>4, KeysStep
<1> QED
  BY <1>9, <1>10, <1>11, <1>12, <1>13, <1>14, <1>15, <1>16, <1>17 DEF SInv

(* Encrypting only counts on in the first state,                           *)
Writes(a, m, o) ==
    /\ o.base = a.base /\ o.root = a.root /\ o.eph = a.eph /\ o.chains = a.chains
    /\ o.n = a.n + 1 /\ m.n = a.n /\ m.key = a.root /\ m.eph = a.eph

(* Encrypting counts in the first state of a record,                       *)
LEMMA WritesFirst ==
  ASSUME RatchetTyped, StatesFit, NEW p \in Parties, NEW s, Writing(p, s)
  PROVE  /\ 1 \in 1..Len(store[p])
         /\ Writes(store[p][1], Message(store[p][1]), s[1])
<1> DEFINE r == store[p]
           a == r[1]
<1>1. r \in Record /\ r # <<>> /\ s = [r EXCEPT ![1].n = @ + 1]
  BY DEF RatchetTyped, Writing, Encrypted
<1>2. 1 \in 1..Len(r) /\ 1 \in DOMAIN r
  BY <1>1 DEF Record
<1>3. a \in State /\ a.key = a.root
  BY <1>2, OneState
<1>4. s[1] = [a EXCEPT !.n = @ + 1]
  BY <1>1, <1>2
<1>5. /\ Message(a).n = a.n /\ Message(a).key = a.root /\ Message(a).eph = a.eph
  BY <1>3 DEF Message
<1> HIDE DEF a
<1>6. /\ s[1].base = a.base /\ s[1].root = a.root /\ s[1].eph = a.eph
      /\ s[1].chains = a.chains /\ s[1].n = a.n + 1
  BY <1>3, <1>4 DEF State
<1> QED
  BY <1>2, <1>5, <1>6 DEF Writes, a

(* and makes one message.                                                  *)
LEMMA OneSent ==
  ASSUME NEW p \in Parties, NEW m, NEW x \in Sent(p, {m}), NEW y \in Sent(p, {m})
  PROVE  x = y /\ x.to = Peer(p) /\ x.msg = m
BY DEF Sent

(* Encrypting keeps SInv: its message has the next number of its chain.    *)
LEMMA WritingSync ==
  ASSUME RInv, SInv, NEW p \in Parties, NEW s, Writing(p, s)
  PROVE  SInv'
<1>1. /\ RatchetTyped /\ StatesFit /\ MsgsFit /\ LostFits
      /\ StatesShaped /\ MsgsShaped /\ ReadMarked /\ EphsDiffer /\ Counted /\ Apart
      /\ Begins /\ Unanswered /\ InStep /\ KeysFollow
  BY DEF RInv, SInv
<1>2. PICK a, m, b0 : a = store[p][1] /\ m = Message(store[p][1]) /\ b0 = s[1].base
  OBVIOUS
<1>3. /\ RecordStep(p, s) /\ used' = used /\ sent' = sent \cup Sent(p, {m})
      /\ read' = read /\ Peer(p) \in Parties /\ Peer(Peer(p)) = p
  BY <1>2, PeerIsOther, PeerOfPeer DEF Writing
<1>4. 1 \in 1..Len(store[p]) /\ Writes(a, m, s[1])
  BY <1>1, <1>2, WritesFirst
<1>5. /\ s[1].base = b0 /\ a.base = b0 /\ s[1].root = a.root /\ s[1].eph = a.eph
      /\ s[1].chains = a.chains /\ s[1].n = a.n + 1 /\ m.n = a.n /\ m.key = a.root
      /\ m.eph = a.eph
  BY <1>2, <1>4 DEF Writes
<1>6. /\ a \in State /\ b0 \in KeyPair /\ a.eph[1] = p /\ a.root[1] = {b0} /\ a.n \in Nat
  <2>1. /\ a \in State /\ a.base \in KeyPair /\ a.eph[1] = p
        /\ a.root[1] = {a.base}
    BY <1>1, <1>2, <1>4, OneState
  <2>2. a.n \in Nat
    BY <2>1 DEF State
  <2> QED
    BY <1>5, <2>1, <2>2
<1>7. \A x \in Sent(p, {m}) : x.to = Peer(p) /\ x.msg = m /\ \A y \in Sent(p, {m}) : x = y
  BY OneSent
<1>8. StatesShaped'
  <2>1. ChainsShaped(a) /\ RootShaped(p, a)
    BY <1>1, <1>4, <1>2 DEF StatesShaped
  <2>2. ChainsShaped(s[1]) /\ RootShaped(p, s[1])
    BY <1>5, <2>1 DEF ChainsShaped, RootShaped
  <2> QED
    BY <1>1, <1>3, <2>2, ShapedStep
<1>9. MsgsShaped'
  <2>1. LastWith(m.key, m.eph, Peer(p))
    BY <1>1, <1>4, <1>5, <1>2 DEF StatesShaped, RootShaped
  <2>2. \A x \in sent' : LastWith(x.msg.key, x.msg.eph, x.to)
    BY <1>1, <1>3, <1>7, <2>1 DEF MsgsShaped
  <2> QED
    BY <2>2 DEF MsgsShaped
<1>10. ReadMarked'
  <2>1. AllMarked(read', p, s[1])
    BY <1>1, <1>3, <1>4, <1>5, <1>2 DEF ReadMarked, AllMarked
  <2> QED
    BY <1>1, <1>3, <2>1, MarkedStep
<1>11. \A j \in 1..Len(store[p]) : store[p][j].eph = a.eph => j = 1
  BY <1>1, <1>4, <1>2 DEF EphsDiffer
<1>12. EphsDiffer'
  <2>1. \A j \in 1..Len(store[p]) : store[p][j].eph = s[1].eph => store[p][j].base = s[1].base
    BY <1>5, <1>11, <1>2
  <2> QED
    BY <1>1, <1>3, <2>1, EphsStep
<1>13. \A x \in sent : x.msg.eph = a.eph => x.msg.n < a.n /\ x.msg.key = a.root /\ x.msg.n \in Nat
  <2>1. \A x \in sent : CountedBy(x, a) /\ x.msg \in Msg
    BY <1>1, <1>4, <1>2 DEF Counted, RatchetTyped
  <2> QED
    BY <2>1 DEF CountedBy, Msg
<1>14. Counted'
  <2>1. \A x \in sent' : CountedBy(x, s[1])
    <3>1. \A x \in sent : CountedBy(x, s[1])
      BY <1>5, <1>6, <1>13 DEF CountedBy
    <3>2. \A x \in Sent(p, {m}) : CountedBy(x, s[1])
      BY <1>5, <1>6, <1>7 DEF CountedBy
    <3> QED
      BY <1>3, <3>1, <3>2
  <2>2. \A x \in sent' \ sent : x.msg.eph = a.eph
    BY <1>3, <1>5, <1>7
  <2>3. ASSUME NEW q \in Parties, NEW j \in 1..Len(store[q]), store[q][j].eph = a.eph
        PROVE  q = p /\ store[q][j].base = s[1].base
    <3>1. store[q][j].eph[1] = q
      BY <1>1, OneState
    <3>2. q = p
      BY <1>6, <2>3, <3>1
    <3> QED
      BY <1>5, <1>11, <1>2, <2>3, <3>2
  <2>4. ASSUME NEW x \in sent' \ sent, NEW q \in Parties,
               NEW j \in 1..Len(store[q]), store[q][j].eph = x.msg.eph
        PROVE  q = p /\ store[q][j].base = s[1].base
    BY <2>2, <2>3, <2>4
  <2> QED
    BY <1>1, <1>3, <2>1, <2>4, CountedStep
<1>15. Apart'
  <2>1. ASSUME NEW x \in sent', NEW y \in sent', x.msg.eph = y.msg.eph
        PROVE  x.msg.key = y.msg.key /\ (x.msg.n = y.msg.n => x = y)
    <3>1. CASE x \in sent /\ y \in sent
      BY <1>1, <2>1, <3>1 DEF Apart
    <3>2. CASE x \in Sent(p, {m}) /\ y \in Sent(p, {m})
      BY <1>7, <3>2
    <3>3. CASE x \in sent /\ y \in Sent(p, {m})
      <4>1. x.msg.eph = a.eph /\ y.msg.key = a.root /\ y.msg.n = a.n
        BY <1>5, <1>7, <2>1, <3>3
      <4> QED
        BY <1>6, <1>13, <3>3, <4>1
    <3>4. CASE y \in sent /\ x \in Sent(p, {m})
      <4>1. y.msg.eph = a.eph /\ x.msg.key = a.root /\ x.msg.n = a.n
        BY <1>5, <1>7, <2>1, <3>4
      <4> QED
        BY <1>6, <1>13, <3>4, <4>1
    <3> QED
      BY <1>3, <3>1, <3>2, <3>3, <3>4
  <2> QED
    BY <2>1 DEF Apart
<1>16. \A x \in sent' \ sent : x.to = Peer(p) /\ x.msg.key[1] = {b0}
  BY <1>3, <1>5, <1>6, <1>7
<1>17. Begins'
  <2>1. Met(b0[1], b0) /\ b0[1] \in Parties
    BY <1>1, <1>4, <1>5, <1>6, <1>2 DEF Begins, KeyPair
  <2>2. Met(b0[1], b0)'
    BY <1>1, <1>3, <2>1, RecordStepFacts
  <2>3. /\ \A x \in sent' \ sent : x.to = Peer(p) /\ x.msg.key[1] = {s[1].base}
        /\ \A b \in used' \ used : b = s[1].base /\ p = Peer(b[1])
    BY <1>3, <1>5, <1>16
  <2>4. b0 = s[1].base /\ s[1].base \in KeyPair /\ RecordStep(p, s)
    BY <1>3, <1>5, <1>6
  <2> QED
    BY <1>1, <2>2, <2>3, <2>4, BeginsStep
<1>18. Held(b0)' => Held(b0)
  BY <1>1, <1>3, HeldBefore
<1>19. Unanswered'
  <2>1. Held(b0)' /\ ~HasSessionState(store[Peer(p)], b0) => Len(s[1].root) = 2
    BY <1>1, <1>4, <1>5, <1>18, <1>2 DEF Unanswered
  <2> QED
    BY <1>1, <1>3, <1>5, <2>1, UnansweredStep
<1>20. InStep'
  <2>1. ASSUME Held(b0)', NEW j \in 1..Len(store[Peer(p)]), store[Peer(p)][j].base = b0
        PROVE  Ahead(s[1], store[Peer(p)][j]) \/ Ahead(store[Peer(p)][j], s[1])
    <3>1. Ahead(a, store[Peer(p)][j]) \/ Ahead(store[Peer(p)][j], a)
      BY <1>1, <1>4, <1>5, <1>18, <1>2, <2>1 DEF InStep
    <3> QED
      BY <1>5, <3>1 DEF Ahead
  <2> QED
    BY <1>1, <1>3, <1>5, <2>1, InStepStep
<1>21. KeysFollow'
  <2>1. ASSUME Held(b0)', NEW x \in sent', Peer(x.to) = p, x.msg.key[1] = {b0}
        PROVE  RootOf(x.msg.key, s[1].root)
    <3>1. CASE x \in sent
      <4>1. RootOf(x.msg.key, a.root)
        BY <1>1, <1>4, <1>5, <1>18, <1>2, <2>1, <3>1 DEF KeysFollow
      <4> QED
        BY <1>5, <4>1
    <3>2. CASE x \in Sent(p, {m})
      <4>1. x.msg.key = s[1].root /\ Len(a.root) \in Nat
        BY <1>5, <1>6, <1>7, <3>2 DEF State
      <4>2. Len(a.root) = Len(a.root) + 2 * 0
        BY <4>1
      <4> QED
        BY <1>5, <4>1, <4>2 DEF RootOf
    <3> QED
      BY <1>3, <2>1, <3>1, <3>2
  <2>2. b0 = s[1].base /\ RecordStep(p, s) /\ RatchetTyped /\ KeysFollow
    BY <1>1, <1>3, <1>5
  <2> QED
    BY <1>16, <2>1, <2>2, KeysStep
<1> QED
  BY <1>8, <1>9, <1>10, <1>12, <1>14, <1>15, <1>17, <1>19, <1>20, <1>21 DEF SInv

(* What the state that is put first by reading was made from was in step.  *)
LEMMA SourceShaped ==
  ASSUME RatchetTyped, StatesFit, MsgsFit, StatesShaped, ReadMarked,
         NEW m \in sent, NEW s, ReadInto(m, s), NEW b, ReadBy(m, b, s)
  PROVE  /\ ChainsShaped(s[1]) /\ RootShaped(m.to, s[1])
         /\ AllMarked(read \cup {m}, m.to, s[1])
         /\ Len(b.root) \in Nat /\ Len(b.root) >= 1 /\ b \in State
<1> DEFINE p == m.to
           k == m.msg
           own == <<p, fresh[p] + 1>>
<1>1. /\ p \in Parties /\ k \in Msg /\ k.eph[1] = Peer(p) /\ fresh \in Counts
  BY OneMessage DEF RatchetTyped
<1>2. own \in KeyPair
  <2>1. p \in Parties /\ fresh \in Counts
    BY <1>1
  <2> HIDE DEF p
  <2> QED
    BY <2>1, NewIsUnknown
<1>3. /\ b \in State /\ Opened(b, k, own).verdict = "read"
      /\ s[1] = Opened(b, k, own).state
      /\ OneOf(b, p) \/ NewOne(m, b, p)
  BY DEF ReadBy
<1> HIDE DEF own, k, p
<1>4. CASE OneOf(b, p)
  <2>1. PICK i \in 1..Len(store[p]) : b = store[p][i]
    BY <1>4 DEF OneOf
  <2>2. /\ ChainsShaped(b) /\ RootShaped(p, b) /\ AllMarked(read, p, b)
        /\ Len(b.root) \in Nat /\ Len(b.root) >= 1
    BY <1>1, <2>1, OneState DEF StatesShaped, ReadMarked
  <2>3. ChainsShaped(s[1]) /\ RootShaped(p, s[1])
    BY <1>1, <1>2, <1>3, <2>2, OpenedShaped
  <2>4. AllMarked(read \cup {m}, p, s[1])
    BY <1>1, <1>2, <1>3, <2>2, OpenedMarked DEF p, k
  <2> QED
    BY <1>3, <2>2, <2>3, <2>4 DEF p
<1>5. CASE NewOne(m, b, p)
  <2>1. /\ Blank(b) /\ Len(b.root) = 1 /\ Len(b.chains) = 0
    BY <1>3, <1>5 DEF NewOne, Blank
  <2>2. AllMarked(read, p, b)
    BY <2>1 DEF AllMarked
  <2>3. ChainsShaped(s[1]) /\ RootShaped(p, s[1])
    BY <1>1, <1>2, <1>3, <2>1, OpenedShaped
  <2>4. AllMarked(read \cup {m}, p, s[1])
    BY <1>1, <1>2, <1>3, <2>2, OpenedMarked DEF p, k
  <2> QED
    BY <1>3, <2>1, <2>3, <2>4 DEF p
<1> QED
  BY <1>3, <1>4, <1>5

(* Equal roots have the same last agreement, and it says whose key it was. *)
LEMMA SameLast ==
  ASSUME NEW p \in Parties, NEW root, NEW own, NEW t, NEW u,
         own[1] = Peer(p), LastWith(root, own, p), t[1] = Peer(p), root[Len(root)] = {t, u}
  PROVE  t = own
<1>1. PICK v \in root[Len(root)] : v[1] = p /\ root[Len(root)] = {v, own}
  BY DEF LastWith
<1>2. Peer(p) # p
  BY PeerIsOther
<1>3. t \in {v, own}
  BY <1>1
<1>4. t # v
  BY <1>1, <1>2
<1> QED
  BY <1>3, <1>4

(* The message that makes p step is of the latest chain of its peer e.     *)
LEMMA StepsInStep ==
  ASSUME NEW p \in Parties, NEW m, NEW b, NEW o, NEW e, Steps(p, m, b, o),
         Len(b.root) \in Nat, Len(e.root) = Len(b.root) + 1,
         \A j \in 1..Len(m.key) : m.key[j] = e.root[j],
         e.eph[1] = Peer(p), m.eph[1] = Peer(p), LastWith(e.root, e.eph, p)
  PROVE  Ahead(e, o)
<1>1. /\ Len(m.key) = Len(e.root) /\ Len(o.root) = Len(e.root) + 1
      /\ Len(e.root) \in Nat /\ Len(e.root) >= 1
      /\ m.key[Len(m.key)] = {m.eph, b.eph}
      /\ \A j \in 1..Len(m.key) : o.root[j] = m.key[j]
      /\ o.root[Len(o.root)] = {m.eph, o.eph}
  BY DEF Steps
<1>2. e.root[Len(e.root)] = {m.eph, b.eph}
  BY <1>1
<1>3. m.eph = e.eph
  <2>1. PICK r, own, t, u : r = e.root /\ own = e.eph /\ t = m.eph /\ u = b.eph
    OBVIOUS
  <2>2. /\ own[1] = Peer(p) /\ LastWith(r, own, p) /\ t[1] = Peer(p)
        /\ r[Len(r)] = {t, u}
    BY <1>2, <2>1
  <2>3. t = own
    BY <2>2, SameLast
  <2> QED
    BY <2>1, <2>3
<1>4. StartOf(e.root, o.root)
  BY <1>1 DEF StartOf
<1> QED
  BY <1>1, <1>3, <1>4 DEF Ahead

(* Reading keeps both ends in step.                                        *)
LEMMA ReadingInStep ==
  ASSUME RInv, SInv, NEW m \in sent, NEW s, ReadInto(m, s), NEW b, ReadBy(m, b, s),
         NEW b0, b0 = s[1].base, Held(b0),
         NEW j \in 1..Len(store[Peer(m.to)]), store[Peer(m.to)][j].base = b0
  PROVE  Ahead(s[1], store[Peer(m.to)][j]) \/ Ahead(store[Peer(m.to)][j], s[1])
<1>1. /\ RatchetTyped /\ StatesFit /\ MsgsFit
      /\ StatesShaped /\ ReadMarked /\ Unanswered /\ InStep /\ KeysFollow
  BY DEF RInv, SInv
<1>2. PICK p, q, k, e : p = m.to /\ q = Peer(m.to) /\ k = m.msg /\ e = store[Peer(m.to)][j]
  OBVIOUS
<1>3. /\ p \in Parties /\ q \in Parties /\ q = Peer(p) /\ Peer(q) = p /\ q # p
      /\ k.eph[1] = q /\ k.key[1] = {b0} /\ Len(k.key) \in Nat
  BY <1>1, <1>2, OneMessage, PeerIsOther, PeerOfPeer DEF ReadInto
<1>4. /\ e.eph[1] = q /\ e.base = b0 /\ Len(e.root) \in Nat /\ LastWith(e.root, e.eph, p)
  BY <1>1, <1>3, <1>2, OneState DEF StatesShaped, RootShaped
<1>5. /\ b.base = b0 /\ Len(b.root) \in Nat
      /\ OneOf(b, p) \/ NewOne(m, b, p)
      /\ (OneOf(b, p) /\ Stays(k, b, s[1])) \/ Steps(p, k, b, s[1])
  BY <1>1, <1>2, SourceShaped DEF ReadBy
<1>6. CASE OneOf(b, p) /\ Stays(k, b, s[1])
  <2>1. PICK i \in 1..Len(store[p]) : b = store[p][i]
    BY <1>6 DEF OneOf
  <2>2. Ahead(b, e) \/ Ahead(e, b)
    BY <1>1, <1>3, <1>4, <1>5, <1>2, <2>1 DEF InStep
  <2>3. Ahead(s[1], e) \/ Ahead(e, s[1])
    BY <1>6, <2>2 DEF Ahead, Stays
  <2> QED
    BY <1>2, <2>3
<1>7. CASE Steps(p, k, b, s[1])
  <2>1. RootOf(k.key, e.root)
    BY <1>1, <1>3, <1>4, <1>2 DEF KeysFollow
  <2>2. PICK h \in Nat : Len(e.root) = Len(k.key) + 2 * h
    BY <2>1 DEF RootOf
  <2>3. Len(k.key) = Len(b.root) + 1
    BY <1>7 DEF Steps
  <2>4. PICK u \in Nat, v \in Nat, w \in Nat :
           u = Len(b.root) /\ v = Len(e.root) /\ w = Len(k.key)
    BY <1>3, <1>4, <1>5
  <2>5. v = w + 2 * h /\ w = u + 1
    BY <2>2, <2>3, <2>4
  <2>6. v = u + 1
    <3>1. CASE OneOf(b, p)
      <4>1. PICK i \in 1..Len(store[p]) : b = store[p][i]
        BY <3>1 DEF OneOf
      <4>2. Ahead(b, e) \/ Ahead(e, b)
        BY <1>1, <1>3, <1>4, <1>5, <1>2, <4>1 DEF InStep
      <4>3. v = u + 1 \/ u = v + 1
        BY <2>4, <4>2 DEF Ahead
      <4> QED
        BY <2>5, <4>3
    <3>2. CASE NewOne(m, b, p)
      <4>1. ~HasSessionState(store[p], b0) /\ w = 2
        BY <1>5, <1>2, <2>4, <3>2 DEF NewOne
      <4>2. v = 2
        BY <1>1, <1>3, <1>4, <1>2, <2>4, <4>1 DEF Unanswered
      <4> QED
        BY <2>5, <4>1, <4>2
    <3> QED
      BY <1>5, <3>1, <3>2
  <2>7. Ahead(e, s[1])
    <3>1. Len(e.root) = Len(b.root) + 1 /\ \A i \in 1..Len(k.key) : k.key[i] = e.root[i]
      BY <2>1, <2>4, <2>6 DEF RootOf
    <3> QED
      BY <1>3, <1>4, <1>5, <1>7, <3>1, StepsInStep
  <2> QED
    BY <1>2, <2>7
<1> QED
  BY <1>5, <1>6, <1>7

(* What its peer sent were earlier roots, and are so of the longer one.    *)
LEMMA ReadingKeys ==
  ASSUME RInv, SInv, NEW m \in sent, NEW s, ReadInto(m, s), NEW b, ReadBy(m, b, s),
         NEW b0, b0 = s[1].base, Held(b0),
         NEW x \in sent, Peer(x.to) = m.to, x.msg.key[1] = {b0}
  PROVE  RootOf(x.msg.key, s[1].root)
<1>1. /\ RatchetTyped /\ StatesFit /\ MsgsFit /\ StatesShaped /\ ReadMarked
      /\ Begins /\ KeysFollow
  BY DEF RInv, SInv
<1>2. PICK p, k : p = m.to /\ k = m.msg
  OBVIOUS
<1>3. /\ p \in Parties /\ Len(x.msg.key) \in Nat
  BY <1>1, <1>2, OneMessage
<1>4. /\ b.base = b0 /\ Len(b.root) \in Nat /\ b \in State
      /\ OneOf(b, p) \/ NewOne(m, b, p)
      /\ (OneOf(b, p) /\ Stays(k, b, s[1])) \/ Steps(p, k, b, s[1])
  BY <1>1, <1>2, SourceShaped DEF ReadBy
<1>5. OneOf(b, p)
  <2>1. b0 \in KeyPair
    BY <1>4 DEF State
  <2>2. Met(p, b0)
    BY <1>1, <1>2, <2>1 DEF Begins
  <2>3. HasSessionState(store[p], b0)
    BY <1>3, <2>2 DEF Met, Held
  <2> QED
    BY <1>4, <2>3 DEF NewOne
<1>6. PICK i \in 1..Len(store[p]) : b = store[p][i]
  BY <1>5 DEF OneOf
<1>7. RootOf(x.msg.key, b.root)
  BY <1>1, <1>4, <1>6, <1>2 DEF KeysFollow
<1>8. CASE Stays(k, b, s[1])
  BY <1>7, <1>8 DEF Stays
<1>9. CASE Steps(p, k, b, s[1])
  <2>1. PICK h \in Nat : Len(b.root) = Len(x.msg.key) + 2 * h
    BY <1>7 DEF RootOf
  <2>2. /\ Len(k.key) = Len(b.root) + 1 /\ Len(s[1].root) = Len(k.key) + 1
        /\ \A j \in 1..Len(b.root) : k.key[j] = b.root[j]
        /\ \A j \in 1..Len(k.key) : s[1].root[j] = k.key[j]
    BY <1>9 DEF Steps
  <2>3. PICK u \in Nat, v \in Nat : u = Len(b.root) /\ v = Len(x.msg.key)
    BY <1>3, <1>4
  <2>4. u = v + 2 * h /\ Len(k.key) = u + 1 /\ Len(s[1].root) = (u + 1) + 1
    BY <2>1, <2>2, <2>3
  <2>5. \E g \in Nat : Len(s[1].root) = Len(x.msg.key) + 2 * g
    <3>1. PICK g \in Nat : g = h + 1
      OBVIOUS
    <3>2. (u + 1) + 1 = v + 2 * g
      BY <2>4, <3>1
    <3>3. Len(s[1].root) = v + 2 * g
      BY <2>4, <3>2
    <3> QED
      BY <2>3, <3>3
  <2>6. \A j \in 1..Len(x.msg.key) : j \in 1..Len(b.root) /\ j \in 1..Len(k.key)
    <3>1. \A j \in 1..v : j \in 1..u /\ j \in 1..(u + 1)
      BY <2>4
    <3> QED
      BY <2>3, <2>4, <3>1
  <2>7. \A j \in 1..Len(x.msg.key) : x.msg.key[j] = s[1].root[j]
    <3>1. \A j \in 1..Len(x.msg.key) : x.msg.key[j] = b.root[j]
      BY <1>7 DEF RootOf
    <3> QED
      BY <2>2, <2>6, <3>1
  <2> QED
    BY <2>5, <2>7 DEF RootOf
<1> QED
  BY <1>4, <1>8, <1>9

(* Reading keeps SInv.                                                     *)
LEMMA ReadingSync ==
  ASSUME RInv, SInv, NEW m \in sent, NEW s, ReadInto(m, s)
  PROVE  SInv'
<1>1. /\ RatchetTyped /\ StatesFit /\ MsgsFit /\ LostFits /\ fresh \in Counts
      /\ StatesShaped /\ MsgsShaped /\ ReadMarked /\ EphsDiffer /\ Counted /\ Apart
      /\ Begins /\ Unanswered /\ InStep /\ KeysFollow
  BY DEF RInv, SInv, RatchetTyped
<1>2. PICK b : ReadBy(m, b, s)
  BY <1>1, ReadIsBy
<1>3. PICK p, b0 : p = m.to /\ b0 = s[1].base
  OBVIOUS
<1>4. /\ RecordStep(p, s) /\ sent' = sent /\ read' = read \cup {m}
      /\ used' = used \cup NeedsPreKey(store[p], m.msg)
      /\ m.msg.key[1] = {b0} /\ b.base = b0 /\ b \in State
      /\ OneOf(b, p) \/ NewOne(m, b, p)
      /\ (OneOf(b, p) /\ Stays(m.msg, b, s[1])) \/ Steps(p, m.msg, b, s[1])
  BY <1>2, <1>3 DEF ReadInto, ReadBy
<1>5. /\ p \in Parties /\ Peer(p) \in Parties /\ b0 \in KeyPair /\ b0[1] \in Parties
      /\ ~Known(fresh, <<p, fresh[p] + 1>>)
  BY <1>1, <1>4, <1>3, PeerIsOther, NewIsUnknown DEF RatchetTyped, State, KeyPair
<1>6. /\ ChainsShaped(s[1]) /\ RootShaped(p, s[1]) /\ AllMarked(read', p, s[1])
  BY <1>1, <1>2, <1>4, <1>3, SourceShaped
<1>7. Steps(p, m.msg, b, s[1]) => s[1].eph = <<p, fresh[p] + 1>>
  BY DEF Steps
<1>8. StatesShaped'
  BY <1>1, <1>4, <1>5, <1>6, ShapedStep
<1>9. ReadMarked'
  BY <1>1, <1>4, <1>5, <1>6, MarkedStep
<1>10. MsgsShaped' /\ Apart'
  BY <1>1, <1>4 DEF MsgsShaped, Apart
<1>11. EphsDiffer'
  <2>1. ASSUME NEW j \in 1..Len(store[p]), store[p][j].eph = s[1].eph
        PROVE  store[p][j].base = s[1].base
    <3>1. CASE OneOf(b, p) /\ Stays(m.msg, b, s[1])
      <4>1. PICK i \in 1..Len(store[p]) : b = store[p][i]
        BY <3>1 DEF OneOf
      <4>2. store[p][j].eph = store[p][i].eph
        BY <2>1, <3>1, <4>1 DEF Stays
      <4>3. i = j
        BY <1>1, <1>5, <4>2 DEF EphsDiffer
      <4> QED
        BY <1>4, <1>3, <4>1, <4>3
    <3>2. CASE Steps(p, m.msg, b, s[1])
      <4>1. Known(fresh, store[p][j].eph)
        BY <1>1, <1>5, OneState
      <4> QED
        BY <1>5, <1>7, <2>1, <3>2, <4>1
    <3> QED
      BY <1>4, <3>1, <3>2
  <2> QED
    BY <1>1, <1>4, <1>5, <2>1, EphsStep
<1>12. Counted'
  <2>1. ASSUME NEW x \in sent PROVE CountedBy(x, s[1])
    <3>1. CASE OneOf(b, p) /\ Stays(m.msg, b, s[1])
      <4>1. PICK i \in 1..Len(store[p]) : b = store[p][i]
        BY <3>1 DEF OneOf
      <4>2. CountedBy(x, b)
        BY <1>1, <1>5, <4>1 DEF Counted
      <4> QED
        BY <3>1, <4>2 DEF Stays, CountedBy
    <3>2. CASE Steps(p, m.msg, b, s[1])
      <4>1. Known(fresh, x.msg.eph)
        BY <1>1, OneMessage
      <4> QED
        BY <1>5, <1>7, <3>2, <4>1 DEF CountedBy
    <3> QED
      BY <1>4, <3>1, <3>2
  <2> QED
    BY <1>1, <1>4, <1>5, <2>1, CountedStep
<1>13. /\ Met(Peer(p), b0) /\ Met(b0[1], b0)
  BY <1>1, <1>4, <1>5, <1>3 DEF Begins
<1>14. Begins'
  <2>1. Met(b0[1], b0)'
    BY <1>1, <1>4, <1>5, <1>13, RecordStepFacts
  <2>2. store[p] \in Record
    BY <1>1, <1>5 DEF RatchetTyped
  <2>3. \A c \in used' \ used : c = s[1].base /\ p = Peer(c[1])
    BY <1>4, <1>3, <2>2, ReadNeeds
  <2>4. /\ b0 = s[1].base /\ s[1].base \in KeyPair
        /\ \A x \in sent' \ sent : x.to = Peer(p) /\ x.msg.key[1] = {s[1].base}
    BY <1>4, <1>5, <1>3
  <2> QED
    BY <1>1, <1>4, <1>5, <2>1, <2>3, <2>4, BeginsStep
<1>15. Held(b0)' => Held(b0)
  BY <1>1, <1>4, <1>5, HeldBefore
<1>16. Unanswered'
  <2>1. Held(b0) => HasSessionState(store[Peer(p)], b0)
    BY <1>5, <1>13 DEF Held, Met
  <2> QED
    BY <1>1, <1>4, <1>5, <1>3, <1>15, <2>1, UnansweredStep
<1>17. InStep'
  <2>1. ASSUME Held(b0)', NEW j \in 1..Len(store[Peer(p)]), store[Peer(p)][j].base = b0
        PROVE  Ahead(s[1], store[Peer(p)][j]) \/ Ahead(store[Peer(p)][j], s[1])
    BY <1>2, <1>3, <1>15, <2>1, ReadingInStep
  <2> QED
    BY <1>1, <1>4, <1>5, <1>3, <2>1, InStepStep
<1>18. KeysFollow'
  <2>1. ASSUME Held(b0)', NEW x \in sent', Peer(x.to) = p, x.msg.key[1] = {b0}
        PROVE  RootOf(x.msg.key, s[1].root)
    BY <1>2, <1>4, <1>3, <1>15, <2>1, ReadingKeys
  <2>2. \A x \in sent' \ sent : x.to = Peer(p) /\ x.msg.key[1] = {b0}
    BY <1>4
  <2>3. b0 = s[1].base /\ p \in Parties /\ RecordStep(p, s) /\ RatchetTyped /\ KeysFollow
    BY <1>1, <1>4, <1>5, <1>3
  <2> QED
    BY <2>1, <2>2, <2>3, KeysStep
<1> QED
  BY <1>8, <1>9, <1>10, <1>11, <1>12, <1>14, <1>16, <1>17, <1>18 DEF SInv

(* Two ends that have done nothing satisfy SInv.                           *)
LEMMA SyncInit ==
  ASSUME Init
  PROVE  SInv
<1>1. /\ sent = {} /\ used = {} /\ read = {}
      /\ \A p \in Parties : store[p] = <<>> /\ Peer(p) \in Parties
  BY PeerIsOther DEF Init
<1>2. \A p \in Parties : \A i : i \notin 1..Len(store[p])
  BY <1>1
<1>3. StatesShaped /\ ReadMarked /\ EphsDiffer /\ Counted /\ Unanswered
  BY <1>2 DEF StatesShaped, ReadMarked, EphsDiffer, Counted, Unanswered
<1>4. InStep
  BY <1>2 DEF InStep
<1>5. MsgsShaped /\ Apart /\ KeysFollow
  BY <1>1 DEF MsgsShaped, Apart, KeysFollow
<1>6. Begins
  BY <1>1, <1>2 DEF Begins
<1> QED
  BY <1>3, <1>4, <1>5, <1>6 DEF SInv

(* So does what changes nothing.                                           *)
LEMMA SyncStutter ==
  ASSUME SInv, UNCHANGED vars
  PROVE  SInv'
<1>1. /\ store' = store /\ sent' = sent /\ used' = used /\ read' = read /\ lost' = lost
  BY DEF vars
<1>2. StatesShaped' /\ MsgsShaped' /\ ReadMarked' /\ EphsDiffer'
  BY <1>1 DEF SInv, StatesShaped, MsgsShaped, ReadMarked, EphsDiffer, RootShaped
<1>3. Counted' /\ Apart'
  BY <1>1 DEF SInv, Counted, Apart, CountedBy
<1>4. Begins'
  BY <1>1 DEF SInv, Begins, Met
<1>5. Unanswered'
  BY <1>1 DEF SInv, Unanswered, Held
<1>6. InStep'
  BY <1>1 DEF SInv, InStep, Held
<1>7. KeysFollow'
  BY <1>1 DEF SInv, KeysFollow, Held
<1> QED
  BY <1>2, <1>3, <1>4, <1>5, <1>6, <1>7 DEF SInv
-----------------------------------------------------------------------------
(* What follows from it.                                                   *)

(* The verdict on a message is that of one of the states that are tried.   *)
LEMMA DecryptedVerdict ==
  ASSUME NEW r \in Record, NEW m, NEW own
  PROVE  /\ Decrypted(r, m, own).verdict = "duplicate" =>
               \E i \in 1..Len(r) : Opened(r[i], m, own).verdict = "duplicate"
         /\ Decrypted(r, m, own).verdict # "duplicate"
               /\ (\E i \in 1..Len(r) : Opened(r[i], m, own).verdict = "read")
            => Decrypted(r, m, own).verdict = "read"
<1> DEFINE R == Readers(r, m, own)
           i == CHOOSE j \in R : \A k \in R : j <= k
           o == Opened(r[i], m, own)
           d == Decrypted(r, m, own)
<1>1. DOMAIN r = 1..Len(r) /\ R \subseteq Nat
  BY DEF Record, Readers
<1>2. R = {} => d.verdict = "invalid"
  BY DEF Decrypted
<1>3. R # {} => d.verdict = IF o.verdict = "duplicate" THEN "duplicate" ELSE "read"
  BY DEF Decrypted
<1>4. R # {} => i \in R
  <2>1. R # {} => \E j \in R : \A k \in R : j <= k
    BY <1>1, LeastNumber
  <2> QED
    BY <2>1
<1>5. \A j \in 1..Len(r) : Opened(r[j], m, own).verdict = "read" => j \in R
  BY <1>1 DEF Readers
<1>6. R \subseteq 1..Len(r)
  BY <1>1 DEF Readers
<1>7. o = Opened(r[i], m, own)
  OBVIOUS
<1> HIDE DEF R, i, o, d
<1>8. d.verdict = "duplicate" => i \in 1..Len(r) /\ o.verdict = "duplicate"
  BY <1>2, <1>3, <1>4, <1>6
<1>9. d.verdict # "duplicate" /\ (\E j \in 1..Len(r) : Opened(r[j], m, own).verdict = "read")
         => d.verdict = "read"
  BY <1>3, <1>5
<1> QED
  BY <1>7, <1>8, <1>9 DEF d

(* A record after processV3: it has one state more, which has read nothing. *)
BuiltFrom(r, m, p, B) ==
    /\ B \in Record
    /\ Unknown(r, m) = {} => B = r
    /\ \A a \in m.pre : ~HasSessionState(r, a.base) =>
          1 \in 1..Len(B) /\ B[1] = BobState(a.base, SignedPreKey(p))
    /\ \A i \in 1..Len(B) :
          \/ \E j \in 1..Len(r) : B[i] = r[j]
          \/ B[i] \in State /\ Len(B[i].chains) = 0

(* What processV3 (Built) does to a record.                                *)
LEMMA BuiltIs ==
  ASSUME NEW f, NEW r \in Record, NEW m \in Msg, MsgFits(f, m), NEW p \in Parties
  PROVE  BuiltFrom(r, m, p, Built(r, m, SignedPreKey(p)))
<1> DEFINE spk == SignedPreKey(p)
           B == Built(r, m, spk)
<1>1. CASE Unknown(r, m) = {}
  <2>1. B = r
    BY <1>1 DEF Built
  <2>2. \A a \in m.pre : HasSessionState(r, a.base)
    BY <1>1 DEF Unknown
  <2> QED
    BY <2>1, <2>2 DEF BuiltFrom
<1>2. CASE Unknown(r, m) # {}
  <2> DEFINE a == CHOOSE x \in Unknown(r, m) : TRUE
             b == BobState(a.base, spk)
  <2>1. a \in Unknown(r, m)
    BY <1>2
  <2>2. B = Promote(b, r)
    BY <1>2 DEF Built
  <2> HIDE DEF a
  <2>3. a \in m.pre /\ a \in Pending_
    BY <2>1 DEF Unknown, Msg
  <2>4. b \in State
    BY <2>3, BobStateType DEF Pending_, SignedPreKey, KeyPair
  <2>5. Len(b.chains) = 0
    BY DEF BobState
  <2>6. \A c \in m.pre : c = a
    BY <2>3, NeedsIs
  <2> HIDE DEF b, B
  <2>7. r \in Seq(State)
    BY DEF Record
  <2>8. /\ B \in Record /\ B[1] = b /\ Len(B) \in Nat /\ Len(B) >= 1
        /\ \A i \in 2..Len(B) : B[i] = r[i - 1] /\ i - 1 \in 1..Len(r)
    BY <2>2, <2>4, <2>7, PromoteIs, SessionAssumption
  <2>9. 1 \in 1..Len(B) /\ \A i \in 1..Len(B) : i = 1 \/ i \in 2..Len(B)
    BY <2>8
  <2>10. \A i \in 1..Len(B) : (\E j \in 1..Len(r) : B[i] = r[j])
                              \/ (B[i] \in State /\ Len(B[i].chains) = 0)
    BY <2>4, <2>5, <2>8, <2>9
  <2>11. \A c \in m.pre : 1 \in 1..Len(B) /\ B[1] = BobState(c.base, spk)
    BY <2>6, <2>8, <2>9 DEF b
  <2> QED
    BY <1>2, <2>8, <2>10, <2>11 DEF B, BuiltFrom
<1> QED
  BY <1>1, <1>2

(* Who has the key of a chain of the receiver was read by it, so that the  *)
(* chain is that of a message with the same ratchet key,                   *)
LEMMA ChainIsTheirs ==
  ASSUME RInv, SInv, NEW m \in sent, NEW i \in 1..Len(store[m.to]),
         NEW j \in 1..Len(store[m.to][i].chains),
         store[m.to][i].chains[j].eph = m.msg.eph
  PROVE  store[m.to][i].chains[j].key = m.msg.key
<1> DEFINE c == store[m.to][i].chains[j]
<1>1. /\ m.to \in Parties /\ m.msg.eph[2] >= 1 /\ m.msg.eph \in KeyPair
      /\ ReadMarked /\ Apart /\ read \subseteq sent
  BY OneMessage DEF RInv, SInv, MsgsFit
<1>2. Marked(read, m.to, c)
  BY <1>1 DEF ReadMarked, AllMarked
<1> HIDE DEF c
<1>3. PICK x \in read : x.msg.eph = c.eph /\ x.msg.key = c.key
  BY <1>1, <1>2 DEF Marked, c
<1> QED
  BY <1>1, <1>3 DEF Apart, c

(* and a key that is gone is that of a message that was read.              *)
LEMMA NoDuplicate ==
  ASSUME RInv, SInv, NEW m \in sent \ read, NEW i \in 1..Len(store[m.to]),
         NEW own \in KeyPair
  PROVE  Opened(store[m.to][i], m.msg, own).verdict # "duplicate"
<1> DEFINE st == store[m.to][i]
           k == m.msg
           v == Opened(st, k, own).verdict
<1>1. /\ m.to \in Parties /\ k \in Msg /\ k.n \in Nat
      /\ ReadMarked /\ Apart /\ read \subseteq sent
  BY OneMessage DEF RInv, SInv, MsgsFit, Msg
<1>2. st \in State /\ AllMarked(read, m.to, st)
  BY <1>1, OneState DEF RInv, ReadMarked
<1> HIDE DEF st, k
<1>3. \/ \E j \in 1..Len(st.chains) : FoundIn(st, k, j, v)
      \/ NotFound(st, k, v)
  BY <1>1, <1>2, VerdictIs
<1> HIDE DEF v
<1>4. CASE NotFound(st, k, v)
  BY <1>4 DEF NotFound, v, st, k
<1>5. CASE \E j \in 1..Len(st.chains) : FoundIn(st, k, j, v)
  <2> SUFFICES ASSUME v = "duplicate" PROVE FALSE
    BY DEF v, st, k
  <2>1. PICK j \in 1..Len(st.chains) : FoundIn(st, k, j, v)
    BY <1>5
  <2>2. /\ st.chains[j].eph = k.eph
        /\ k.n < st.chains[j].index /\ k.n \notin st.chains[j].skipped
    BY <2>1 DEF FoundIn
  <2>3. PICK x \in read : x.to = m.to /\ x.msg.eph = k.eph /\ x.msg.n = k.n
    BY <1>1, <1>2, <2>2 DEF AllMarked, Marked
  <2>4. x = m
    BY <1>1, <2>3 DEF Apart, k
  <2> QED
    BY <2>3, <2>4
<1> QED
  BY <1>3, <1>4, <1>5

(* So no message that was not read is taken for a duplicate.               *)
LEMMA UnreadIsNoDuplicateFollows ==
  ASSUME RInv, SInv
  PROVE  UnreadIsNoDuplicate
<1>1. ASSUME NEW m \in sent \ read, Result(m).verdict = "duplicate"
      PROVE  FALSE
  <2> DEFINE p == m.to
             k == m.msg
             own == <<p, fresh[p] + 1>>
             B == Built(store[p], k, SignedPreKey(p))
  <2>1. Decrypted(B, k, own).verdict = "duplicate"
    BY <1>1 DEF Result, Generated
  <2>2. /\ p \in Parties /\ k \in Msg /\ MsgFits(fresh, k) /\ store[p] \in Record
        /\ own \in KeyPair
    <3>1. RatchetTyped /\ MsgsFit
      BY DEF RInv
    <3>2. p \in Parties /\ k \in Msg /\ MsgFits(fresh, k)
      BY <3>1, OneMessage
    <3>3. store[p] \in Record /\ fresh \in Counts
      BY <3>1, <3>2 DEF RatchetTyped
    <3> QED
      BY <3>2, <3>3, NewIsUnknown
  <2> HIDE DEF own
  <2>3. /\ B \in Record
        /\ \A i \in 1..Len(B) : \/ \E j \in 1..Len(store[p]) : B[i] = store[p][j]
                                \/ B[i] \in State /\ Len(B[i].chains) = 0
    BY <2>2, BuiltIs DEF BuiltFrom
  <2> HIDE DEF B
  <2>4. PICK i \in 1..Len(B) : Opened(B[i], k, own).verdict = "duplicate"
    BY <2>1, <2>3, DecryptedVerdict
  <2>5. CASE \E j \in 1..Len(store[p]) : B[i] = store[p][j]
    BY <2>2, <2>4, <2>5, NoDuplicate
  <2>6. CASE B[i] \in State /\ Len(B[i].chains) = 0
    <3>1. NotFound(B[i], k, Opened(B[i], k, own).verdict)
      <4>1. \A j : j \notin 1..Len(B[i].chains)
        BY <2>6
      <4> QED
        BY <2>2, <2>6, <4>1, VerdictIs
    <3> QED
      BY <2>4, <3>1 DEF NotFound
  <2> QED
    BY <2>3, <2>5, <2>6
<1> QED
  BY <1>1 DEF UnreadIsNoDuplicate

(* A sequence is known by its elements.                                    *)
LEMMA IsAppended ==
  ASSUME NEW S, NEW r \in Seq(S), NEW x \in S, NEW k \in Seq(S),
         Len(k) = Len(r) + 1, \A j \in 1..Len(r) : k[j] = r[j], k[Len(r) + 1] = x
  PROVE  k = Append(r, x)
<1> DEFINE a == Append(r, x)
<1>1. /\ a \in Seq(S) /\ Len(a) = Len(r) + 1 /\ a[Len(r) + 1] = x
      /\ \A j \in 1..Len(r) : a[j] = r[j]
  OBVIOUS
<1> HIDE DEF a
<1>2. \A j \in 1..Len(k) : j \in 1..Len(r) \/ j = Len(r) + 1
  OBVIOUS
<1>3. \A j \in 1..Len(k) : k[j] = a[j]
  BY <1>1, <1>2
<1>4. k = a
  BY <1>1, <1>3
<1> QED
  BY <1>4 DEF a

(* What the sender of m has, and what it sent m from.                      *)
LEMMA SenderHas ==
  ASSUME RInv, SInv, NEW m \in sent, NEW b \in KeyPair, m.msg.key[1] = {b}, Held(b)
  PROVE  \E j \in 1..Len(store[Peer(m.to)]) :
            LET e == store[Peer(m.to)][j]
            IN /\ e.base = b /\ e.eph[1] = Peer(m.to) /\ RootOf(m.msg.key, e.root)
               /\ RootShaped(Peer(m.to), e) /\ Len(e.root) \in Nat
               /\ e.root \in Seq(Agreement)
               /\ Len(m.msg.key) = Len(e.root) => m.msg.eph = e.eph
<1> DEFINE q == Peer(m.to)
<1>1. /\ RatchetTyped /\ StatesFit /\ MsgsFit /\ Begins /\ KeysFollow
      /\ StatesShaped /\ MsgsShaped
  BY DEF RInv, SInv
<1>2. /\ m.to \in Parties /\ q \in Parties /\ Peer(q) = m.to /\ q # m.to
      /\ m.msg.eph[1] = q /\ Len(m.msg.key) \in Nat /\ Len(m.msg.key) >= 2
  BY <1>1, OneMessage, PeerIsOther, PeerOfPeer
<1>3. Met(q, b)
  BY <1>1 DEF Begins
<1> HIDE DEF q
<1>4. HasSessionState(store[q], b) /\ store[q] \in Record
  BY <1>1, <1>2, <1>3 DEF Met, Held, RatchetTyped
<1>5. PICK j \in 1..Len(store[q]) : store[q][j].base = b
  BY <1>4, BasesAre DEF HasSessionState
<1>6. PICK e : e = store[q][j]
  OBVIOUS
<1>7. /\ e \in State /\ e.base = b /\ e.eph[1] = q /\ Len(e.root) \in Nat
      /\ e.root \in Seq(Agreement)
  BY <1>1, <1>2, <1>5, <1>6, OneState DEF State
<1>8. RootOf(m.msg.key, e.root)
  BY <1>1, <1>5, <1>6 DEF KeysFollow, q
<1>9. RootShaped(q, e)
  BY <1>1, <1>2, <1>6 DEF StatesShaped
<1>10. ASSUME Len(m.msg.key) = Len(e.root) PROVE m.msg.eph = e.eph
  <2>1. LastWith(e.root, e.eph, m.to)
    BY <1>2, <1>9 DEF RootShaped
  <2>2. m.msg.key[Len(m.msg.key)] = e.root[Len(e.root)]
    <3>1. Len(m.msg.key) \in 1..Len(m.msg.key)
      BY <1>2
    <3>2. \A i \in 1..Len(m.msg.key) : m.msg.key[i] = e.root[i]
      BY <1>8 DEF RootOf
    <3> QED
      BY <1>10, <3>1, <3>2
  <2>3. LastWith(m.msg.key, m.msg.eph, m.to)
    BY <1>1 DEF MsgsShaped
  <2>4. PICK t : e.root[Len(e.root)] = {m.msg.eph, t}
    BY <2>2, <2>3 DEF LastWith
  <2>5. PICK r, own, u : r = e.root /\ own = e.eph /\ u = m.msg.eph
    OBVIOUS
  <2>6. /\ own[1] = Peer(m.to) /\ LastWith(r, own, m.to) /\ u[1] = Peer(m.to)
        /\ r[Len(r)] = {u, t}
    BY <1>2, <1>7, <2>1, <2>4, <2>5 DEF q
  <2> QED
    BY <1>2, <2>5, <2>6, SameLast
<1> QED
  BY <1>5, <1>6, <1>7, <1>8, <1>9, <1>10 DEF q

(* The first message of a session is read by the state built from it.      *)
LEMMA FirstIsRead ==
  ASSUME RInv, SInv, NEW m \in sent, NEW b \in KeyPair, m.msg.key[1] = {b}, Held(b),
         ~HasSessionState(store[m.to], b), m.msg.n <= MaxSkip, NEW own \in KeyPair
  PROVE  /\ \E a \in m.msg.pre : a.base = b
         /\ Opened(BobState(b, SignedPreKey(m.to)), m.msg, own).verdict = "read"
<1>1. RatchetTyped /\ StatesFit /\ MsgsFit /\ Unanswered
  BY DEF RInv, SInv
<1>2. PICK p, q, k, spk : p = m.to /\ q = Peer(m.to) /\ k = m.msg /\ spk = SignedPreKey(m.to)
  OBVIOUS
<1>3. PICK j \in 1..Len(store[q]) :
         LET e == store[q][j]
         IN /\ e.base = b /\ e.eph[1] = q /\ RootOf(k.key, e.root)
            /\ RootShaped(q, e) /\ Len(e.root) \in Nat
            /\ e.root \in Seq(Agreement)
            /\ Len(k.key) = Len(e.root) => k.eph = e.eph
  BY <1>2, SenderHas
<1>4. PICK e : e = store[q][j]
  OBVIOUS
<1>5. /\ e.base = b /\ e.eph[1] = q /\ RootOf(k.key, e.root) /\ RootShaped(q, e)
      /\ Len(e.root) \in Nat /\ e.root \in Seq(Agreement)
      /\ Len(k.key) = Len(e.root) => k.eph = e.eph
  BY <1>3, <1>4
<1>6. /\ p \in Parties /\ q \in Parties /\ Peer(q) = p /\ k \in Msg /\ MsgFits(fresh, k)
      /\ k.key \in Seq(Agreement) /\ Len(k.key) \in Nat /\ Len(k.key) >= 2
      /\ k.key[1] = {b} /\ k.n <= MaxSkip
  BY <1>1, <1>2, OneMessage, PeerIsOther, PeerOfPeer
<1>7. Len(e.root) = 2
  BY <1>1, <1>3, <1>4, <1>5, <1>6, <1>2 DEF Unanswered
<1>8. Len(k.key) = 2 /\ k.eph = e.eph
  <2>1. PICK h \in Nat : Len(e.root) = Len(k.key) + 2 * h
    BY <1>5 DEF RootOf
  <2>2. PICK u \in Nat : u = Len(k.key)
    BY <1>6
  <2>3. 2 = u + 2 * h /\ u >= 2
    BY <1>6, <1>7, <2>1, <2>2
  <2>4. u = 2
    BY <2>3
  <2> QED
    BY <1>5, <1>7, <2>2, <2>4
<1>9. k.key[2] = {k.eph, spk}
  <2>1. e.root[2] = {spk, e.eph}
    BY <1>5, <1>6, <1>7, <1>2 DEF RootShaped
  <2>2. k.key[2] = e.root[2]
    BY <1>5, <1>8 DEF RootOf
  <2> QED
    BY <1>8, <2>1, <2>2
<1>10. \E a \in k.pre : a.base = b
  <2>1. PICK c \in KeyPair : k.key[1] = {c} /\
           \E once \in BOOLEAN : k.pre = {[base |-> c, once |-> once]}
    BY <1>6, <1>8 DEF MsgFits
  <2>2. c = b
    BY <1>6, <2>1
  <2> QED
    BY <2>1, <2>2
<1> DEFINE st == BobState(b, spk)
<1>11. st \in State /\ st.root = <<{b}>> /\ st.eph = spk /\ Len(st.chains) = 0
  <2>1. spk \in KeyPair
    BY <1>6, <1>2 DEF SignedPreKey, KeyPair
  <2> QED
    BY <2>1, BobStateType DEF BobState
<1> HIDE DEF st
<1>12. k.key = Append(st.root, {k.eph, st.eph})
  <2>1. /\ st.root \in Seq(Agreement) /\ Len(st.root) = 1 /\ st.root[1] = {b}
        /\ {k.eph, st.eph} \in Agreement
    BY <1>6, <1>11 DEF State, Msg, Agreement
  <2>2. /\ Len(k.key) = Len(st.root) + 1 /\ k.key[Len(st.root) + 1] = {k.eph, st.eph}
        /\ \A i \in 1..Len(st.root) : k.key[i] = st.root[i]
    <3>1. \A i \in 1..Len(st.root) : i = 1
      BY <2>1
    <3>2. Len(k.key) = 1 + 1 /\ k.key[1 + 1] = {k.eph, st.eph} /\ k.key[1] = st.root[1]
      BY <1>6, <1>8, <1>9, <1>11
    <3> QED
      BY <2>1, <3>1, <3>2
  <2> QED
    BY <1>6, <2>1, <2>2, IsAppended
<1>13. NotFound(st, k, Opened(st, k, own).verdict)
  <2>1. \A i : i \notin 1..Len(st.chains)
    BY <1>11
  <2> QED
    BY <1>6, <1>11, <2>1, VerdictIs
<1>14. k.n \in Nat /\ ~(k.n > MaxSkip)
  BY <1>6, SessionAssumption DEF Msg
<1>15. Opened(st, k, own).verdict = "read"
  BY <1>12, <1>13, <1>14 DEF NotFound
<1> QED
  BY <1>10, <1>15, <1>2 DEF st

(* The states of a session the receiver has: at most one.                  *)
LEMMA StateOfIs ==
  ASSUME RatchetTyped, StatesFit, NEW m, m.to \in Parties, NEW b, m.msg.key[1] = {b}
  PROVE  /\ ~HasSessionState(store[m.to], b) => StateOf(m) = {}
         /\ \A i \in 1..Len(store[m.to]) :
               store[m.to][i].base = b => StateOf(m) = {store[m.to][i]}
<1> DEFINE r == store[m.to]
<1>1. r \in Record /\ DOMAIN r = 1..Len(r) /\ Distinct(r)
  BY BasesAre DEF RatchetTyped, StatesFit
<1> HIDE DEF r
<1>2. \A st : st \in StateOf(m) <=> \E i \in 1..Len(r) : st = r[i] /\ {r[i].base} = {b}
  BY <1>1 DEF StateOf, ToSet, r
<1>3. \A x : {x} = {b} <=> x = b
  OBVIOUS
<1>4. \A st : st \in StateOf(m) <=> \E i \in 1..Len(r) : st = r[i] /\ r[i].base = b
  BY <1>2, <1>3
<1>5. ~HasSessionState(r, b) => StateOf(m) = {}
  BY <1>1, <1>4 DEF HasSessionState
<1>6. ASSUME NEW i \in 1..Len(r), r[i].base = b PROVE StateOf(m) = {r[i]}
  BY <1>1, <1>4, <1>6 DEF Distinct
<1> QED
  BY <1>5, <1>6 DEF r

(* How far a message may be from the chain the receiver has, or from a new *)
(* one.                                                                    *)
LEMMA TooFarIs ==
  ASSUME NEW m, m.msg.n \in Nat
  PROVE  /\ StateOf(m) = {} /\ m.msg.n > MaxSkip => TooFar(m)
         /\ \A st \in State : StateOf(m) = {st} =>
               /\ (\A i \in 1..Len(st.chains) : st.chains[i].eph # m.msg.eph)
                     /\ m.msg.n > MaxSkip
                  => TooFar(m)
               /\ (\A i \in 1..Len(st.chains) : st.chains[i].eph = m.msg.eph =>
                      m.msg.n > st.chains[i].index + MaxSkip)
                     /\ (\E i \in 1..Len(st.chains) : st.chains[i].eph = m.msg.eph)
                  => TooFar(m)
<1> DEFINE known == {c \in UNION {ToSet(st.chains) : st \in StateOf(m)} :
                        c.eph = m.msg.eph}
           all == IF known = {} THEN {0} ELSE {c.index : c \in known}
<1>1. TooFar(m) <=> \A x \in all : m.msg.n > x + MaxSkip
  BY DEF TooFar
<1>2. MaxSkip \in Nat
  BY SessionAssumption
<1>3. known = {} /\ m.msg.n > MaxSkip => TooFar(m)
  <2>1. known = {} => all = {0}
    OBVIOUS
  <2> HIDE DEF known, all
  <2>2. 0 + MaxSkip = MaxSkip
    BY <1>2
  <2> QED
    BY <1>1, <2>1, <2>2
<1>4. StateOf(m) = {} => known = {}
  OBVIOUS
<1>5. ASSUME NEW st \in State, StateOf(m) = {st}
      PROVE  \A c : c \in known <=>
                \E i \in 1..Len(st.chains) : c = st.chains[i] /\ c.eph = m.msg.eph
  <2>1. DOMAIN st.chains = 1..Len(st.chains)
    BY DEF State
  <2>2. UNION {ToSet(x.chains) : x \in StateOf(m)} = ToSet(st.chains)
    BY <1>5
  <2> QED
    BY <2>1, <2>2 DEF ToSet
<1>6. known # {} /\ (\A c \in known : m.msg.n > c.index + MaxSkip) => TooFar(m)
  <2>1. known # {} => all = {c.index : c \in known}
    OBVIOUS
  <2> HIDE DEF known, all
  <2> QED
    BY <1>1, <2>1
<1> HIDE DEF known, all
<1>7. ASSUME NEW st \in State, StateOf(m) = {st}, m.msg.n > MaxSkip,
             \A i \in 1..Len(st.chains) : st.chains[i].eph # m.msg.eph
      PROVE  TooFar(m)
  <2>1. known = {}
    BY <1>5, <1>7
  <2> QED
    BY <1>3, <1>7, <2>1
<1>8. ASSUME NEW st \in State, StateOf(m) = {st},
             \A i \in 1..Len(st.chains) : st.chains[i].eph = m.msg.eph =>
                m.msg.n > st.chains[i].index + MaxSkip,
             \E i \in 1..Len(st.chains) : st.chains[i].eph = m.msg.eph
      PROVE  TooFar(m)
  <2>1. known # {}
    BY <1>5, <1>8
  <2>2. \A c \in known : m.msg.n > c.index + MaxSkip
    BY <1>5, <1>8
  <2> QED
    BY <1>6, <2>1, <2>2
<1> QED
  BY <1>3, <1>4, <1>7, <1>8

(* A message of a chain that is no longer there is of an older one than    *)
(* all that are.                                                           *)
LEMMA OlderThanAll ==
  ASSUME RInv, SInv, NEW m \in sent, NEW i \in 1..Len(store[m.to]),
         \A c \in 1..Len(store[m.to][i].chains) : store[m.to][i].chains[c].eph # m.msg.eph,
         StateOf(m) = {store[m.to][i]},
         \A j \in 1..Len(m.msg.key) : m.msg.key[j] = store[m.to][i].root[j],
         NEW g \in Nat, Len(m.msg.key) = Len(store[m.to][i].root) - 1 - 2 * g
  PROVE  Evicted(m)
<1> DEFINE st == store[m.to][i]
           k == m.msg
<1>1. /\ RatchetTyped /\ StatesFit /\ MsgsFit /\ StatesShaped /\ MsgsShaped
      /\ ReadMarked /\ read \subseteq sent
  BY DEF RInv, SInv, MsgsFit
<1>2. /\ m.to \in Parties /\ k.key \in Seq(Agreement) /\ Len(k.key) \in Nat /\ Len(k.key) >= 2
      /\ k.eph[1] = Peer(m.to)
  BY <1>1, OneMessage
<1>3. /\ st \in State /\ StateFits(fresh, st) /\ Len(st.root) \in Nat
  BY <1>1, <1>2, OneState
<1>4. ChainsShaped(st) /\ AllMarked(read, m.to, st)
  BY <1>1, <1>2 DEF StatesShaped, ReadMarked
<1>5. st.chains \in Seq(Chain) /\ Len(st.chains) \in Nat
  BY <1>3 DEF State
<1>6. PICK L \in Nat, R \in Nat, K \in Nat : L = Len(st.chains) /\ R = Len(st.root) /\ K = Len(k.key)
  BY <1>2, <1>3, <1>5
<1>7. StateOf(m) = {st} /\ \A c \in 1..L : st.chains[c].eph # k.eph
  BY <1>6
<1>8. \A j \in 1..K : k.key[j] = st.root[j]
  BY <1>6
<1>9. K = R - 1 - 2 * g /\ K >= 2
  BY <1>2, <1>6
<1> HIDE DEF st, k
<1>10. ASSUME NEW c \in 1..L PROVE Len(st.chains[c].key) # K
  <2> DEFINE ch == st.chains[c]
  <2>1. /\ ch.key \in Seq(Agreement) /\ StartOf(ch.key, st.root) /\ Marked(read, m.to, ch)
    BY <1>3, <1>4, <1>5, <1>6 DEF StateFits, RootFits, ChainsFit, AllMarked, Chain
  <2> SUFFICES ASSUME Len(ch.key) = K PROVE FALSE
    OBVIOUS
  <2> HIDE DEF ch
  <2>2. \A j \in 1..K : ch.key[j] = k.key[j]
    BY <1>8, <2>1 DEF StartOf
  <2>3. PICK x \in read : x.to = m.to /\ x.msg.eph = ch.eph /\ x.msg.key = ch.key
    BY <1>9, <2>1 DEF Marked
  <2>4. LastWith(x.msg.key, x.msg.eph, m.to) /\ LastWith(k.key, k.eph, m.to)
    BY <1>1, <2>3 DEF MsgsShaped, k
  <2>5. x.msg.key[K] = k.key[K] /\ Len(x.msg.key) = K
    <3>1. K \in 1..K
      BY <1>9
    <3> QED
      BY <2>2, <2>3, <3>1
  <2>6. x.msg.eph[1] = Peer(m.to)
    BY <1>1, <2>3, OneMessage
  <2>7. PICK t : k.key[K] = {k.eph, t}
    <3>1. PICK t : k.key[Len(k.key)] = {t, k.eph}
      BY <2>4 DEF LastWith
    <3>2. Len(k.key) = K
      BY <1>6 DEF k
    <3>3. k.key[K] = {k.eph, t}
      BY <3>1, <3>2
    <3> QED
      BY <3>3
  <2>8. PICK r, own, u : r = x.msg.key /\ own = x.msg.eph /\ u = k.eph
    OBVIOUS
  <2>9. /\ own[1] = Peer(m.to) /\ LastWith(r, own, m.to) /\ u[1] = Peer(m.to)
        /\ r[Len(r)] = {u, t}
    <3>1. own[1] = Peer(m.to) /\ u[1] = Peer(m.to)
      BY <1>2, <2>6, <2>8
    <3>2. LastWith(r, own, m.to)
      BY <2>4, <2>8
    <3>3. r[Len(r)] = {u, t}
      BY <2>5, <2>7, <2>8
    <3> QED
      BY <3>1, <3>2, <3>3
  <2>10. u = own
    BY <1>2, <2>9, SameLast
  <2>11. ch.eph = k.eph
    BY <2>3, <2>8, <2>10
  <2> QED
    BY <1>7, <2>11 DEF ch
<1>11. \A c \in 1..L : Len(st.chains[c].key) = R - 1 - 2 * (L - c)
  BY <1>4, <1>6 DEF ChainsShaped
<1>12. g >= L
  <2> SUFFICES ASSUME g < L PROVE FALSE
    BY <1>6
  <2>1. PICK c \in 1..L : g = L - c
    <3>1. L - g \in 1..L /\ g = L - (L - g)
      OBVIOUS
    <3> QED
      BY <3>1
  <2>2. Len(st.chains[c].key) = K
    BY <1>9, <1>11, <2>1
  <2> QED
    BY <1>10, <2>2
<1>13. ASSUME NEW c \in 1..L PROVE Len(st.chains[c].key) > K
  <2>1. PICK e \in Nat : e = L - c
    OBVIOUS
  <2>2. e < g
    BY <1>12, <2>1
  <2>3. R - 1 - 2 * e > R - 1 - 2 * g
    BY <2>2
  <2>4. Len(st.chains[c].key) = R - 1 - 2 * e
    BY <1>11, <2>1
  <2> QED
    BY <1>9, <2>3, <2>4
<1>14. L = MaxChains
  <2>1. L >= 1 /\ (L = MaxChains \/ Len(st.chains[1].key) <= 2)
    BY <1>4, <1>6 DEF ChainsShaped
  <2>2. 1 \in 1..L
    BY <2>1
  <2>3. Len(st.chains[1].key) > K /\ Len(st.chains[1].key) = R - 1 - 2 * (L - 1)
    BY <1>11, <1>13, <2>2
  <2>4. PICK z : z = Len(st.chains[1].key)
    OBVIOUS
  <2>5. ~(z <= 2)
    BY <1>9, <2>3, <2>4
  <2> QED
    BY <2>1, <2>4, <2>5
<1>15. \A c \in ToSet(st.chains) : Len(c.key) > Len(k.key)
  <2>1. DOMAIN st.chains = 1..L
    BY <1>5, <1>6
  <2>2. \A c \in ToSet(st.chains) : \E j \in 1..L : c = st.chains[j]
    BY <2>1 DEF ToSet
  <2>3. K = Len(k.key)
    BY <1>6
  <2> QED
    BY <1>13, <2>2, <2>3
<1> QED
  BY <1>6, <1>7, <1>14, <1>15 DEF Evicted, k

(* What the state of a message makes of it when it has a chain for it,     *)
LEMMA FoundIsRead ==
  ASSUME RInv, SInv, NEW m \in sent \ read, NEW i \in 1..Len(store[m.to]),
         NEW own \in KeyPair, StateOf(m) = {store[m.to][i]},
         \E j \in 1..Len(store[m.to][i].chains) :
            FoundIn(store[m.to][i], m.msg, j, Opened(store[m.to][i], m.msg, own).verdict)
  PROVE  Opened(store[m.to][i], m.msg, own).verdict = "read" \/ TooFar(m)
<1> DEFINE st == store[m.to][i]
           k == m.msg
           v == Opened(st, k, own).verdict
<1>1. /\ m.to \in Parties /\ k.n \in Nat /\ k.key \in Seq(Agreement)
      /\ st \in State /\ StateFits(fresh, st)
  BY OneMessage, OneState DEF RInv, Msg
<1>2. PICK j \in 1..Len(st.chains) : FoundIn(st, k, j, v)
  OBVIOUS
<1>3. v # "duplicate"
  BY NoDuplicate
<1>4. \A c \in 1..Len(st.chains) : st.chains[c].eph = k.eph => st.chains[c].key = k.key
  BY ChainIsTheirs
<1>5. StateOf(m) = {st}
  OBVIOUS
<1> HIDE DEF st, v
<1>6. /\ st.chains[j].eph = k.eph /\ st.chains[j].key = k.key
      /\ v = "read" \/ k.n > st.chains[j].index + MaxSkip
  BY <1>2, <1>3, <1>4 DEF FoundIn
<1>7. \A c \in 1..Len(st.chains) : st.chains[c].eph = k.eph => c = j
  <2>1. \A c, d \in 1..Len(st.chains) : st.chains[c].key = st.chains[d].key => c = d
    BY <1>1 DEF StateFits, RootFits, ChainsFit
  <2> QED
    BY <1>4, <1>6, <2>1
<1>8. CASE k.n > st.chains[j].index + MaxSkip
  <2>1. \A c \in 1..Len(st.chains) : st.chains[c].eph = k.eph =>
           k.n > st.chains[c].index + MaxSkip
    BY <1>7, <1>8
  <2> QED
    BY <1>1, <1>5, <1>6, <2>1, TooFarIs
<1> QED
  BY <1>6, <1>8 DEF v, st

(* and when it has none.                                                   *)
LEMMA NotFoundIsRead ==
  ASSUME RInv, SInv, NEW m \in sent, NEW b \in KeyPair, m.msg.key[1] = {b}, Held(b),
         NEW i \in 1..Len(store[m.to]), store[m.to][i].base = b, NEW own \in KeyPair,
         NotFound(store[m.to][i], m.msg, Opened(store[m.to][i], m.msg, own).verdict)
  PROVE  \/ Opened(store[m.to][i], m.msg, own).verdict = "read"
         \/ Evicted(m) \/ TooFar(m)
<1>1. RatchetTyped /\ StatesFit /\ MsgsFit /\ InStep
  BY DEF RInv, SInv
<1>2. PICK p, q, k, st, v : /\ p = m.to /\ q = Peer(m.to) /\ k = m.msg /\ st = store[m.to][i]
                            /\ v = Opened(store[m.to][i], m.msg, own).verdict
  OBVIOUS
<1>3. PICK j \in 1..Len(store[q]) :
         LET e == store[q][j]
         IN /\ e.base = b /\ e.eph[1] = q /\ RootOf(k.key, e.root)
            /\ RootShaped(q, e) /\ Len(e.root) \in Nat
            /\ e.root \in Seq(Agreement)
            /\ Len(k.key) = Len(e.root) => k.eph = e.eph
  BY <1>2, SenderHas
<1>4. PICK e : e = store[q][j]
  OBVIOUS
<1>5. /\ e.base = b /\ RootOf(k.key, e.root) /\ Len(e.root) \in Nat
      /\ Len(k.key) = Len(e.root) => k.eph = e.eph
  BY <1>3, <1>4
<1>6. /\ p \in Parties /\ k \in Msg /\ k.n \in Nat
      /\ k.key \in Seq(Agreement) /\ Len(k.key) \in Nat /\ k.eph \in KeyPair
  BY <1>1, <1>2, OneMessage DEF Msg
<1>7. st \in State /\ st.root \in Seq(Agreement) /\ Len(st.root) \in Nat /\ st.eph \in KeyPair
  BY <1>1, <1>6, <1>2, OneState DEF State
<1>8. StateOf(m) = {st}
  BY <1>1, <1>6, <1>2, StateOfIs
<1>9. /\ \A c \in 1..Len(st.chains) : st.chains[c].eph # k.eph
      /\ v = IF k.n > MaxSkip \/ k.key # Append(st.root, {k.eph, st.eph})
             THEN "invalid" ELSE "read"
  BY <1>2 DEF NotFound
<1>10. CASE k.n > MaxSkip
  BY <1>6, <1>7, <1>8, <1>9, <1>10, <1>2, TooFarIs
<1>11. PICK K \in Nat, R \in Nat, E \in Nat, h \in Nat :
          K = Len(k.key) /\ R = Len(st.root) /\ E = Len(e.root) /\ E = K + 2 * h
  BY <1>5, <1>6, <1>7 DEF RootOf
<1>12. \A c \in 1..K : k.key[c] = e.root[c]
  BY <1>5, <1>11 DEF RootOf
<1>13. Ahead(st, e) \/ Ahead(e, st)
  BY <1>1, <1>3, <1>4, <1>6, <1>2 DEF InStep
<1>14. CASE Ahead(st, e) /\ h = 0
  <2>1. /\ E = R + 1 /\ \A c \in 1..R : st.root[c] = e.root[c]
        /\ e.root[E] = {st.eph, e.eph}
    BY <1>11, <1>14 DEF Ahead, StartOf
  <2>2. K = R + 1 /\ k.eph = e.eph
    BY <1>5, <1>11, <1>14, <2>1
  <2>3. /\ \A c \in 1..R : c \in 1..K
        /\ R + 1 \in 1..K
    BY <2>2
  <2>4. /\ \A c \in 1..R : k.key[c] = st.root[c]
        /\ k.key[R + 1] = {k.eph, st.eph}
    BY <1>12, <2>1, <2>2, <2>3
  <2>5. {k.eph, st.eph} \in Agreement
    BY <1>6, <1>7 DEF Agreement
  <2>6. PICK S, r, x, y : /\ S = Agreement /\ r = st.root /\ y = k.key
                          /\ x = {k.eph, st.eph}
    OBVIOUS
  <2>7. /\ x \in S /\ r \in Seq(S) /\ y \in Seq(S) /\ Len(r) = R
        /\ Len(y) = Len(r) + 1
    BY <1>6, <1>7, <1>11, <2>2, <2>5, <2>6
  <2>8. /\ \A c \in 1..Len(r) : y[c] = r[c]
        /\ y[Len(r) + 1] = x
    BY <2>4, <2>6, <2>7
  <2>9. y = Append(r, x)
    BY <2>7, <2>8, IsAppended
  <2>10. k.key = Append(st.root, {k.eph, st.eph})
    BY <2>6, <2>9
  <2> QED
    BY <1>9, <1>10, <1>2, <2>10
<1>15. ASSUME NEW g \in Nat, K = R - 1 - 2 * g, \A c \in 1..K : k.key[c] = st.root[c]
       PROVE  Evicted(m)
  BY <1>8, <1>9, <1>11, <1>15, <1>2, OlderThanAll
<1>16. CASE Ahead(st, e) /\ h # 0
  <2>1. E = R + 1 /\ \A c \in 1..R : st.root[c] = e.root[c]
    BY <1>11, <1>16 DEF Ahead, StartOf
  <2>2. PICK g \in Nat : h = g + 1
    <3>1. h - 1 \in Nat /\ h = (h - 1) + 1
      BY <1>16
    <3> QED
      BY <3>1
  <2>3. K = R - 1 - 2 * g
    <3>1. R + 1 = K + 2 * (g + 1)
      BY <1>11, <2>1, <2>2
    <3> QED
      BY <3>1
  <2>4. \A c \in 1..K : c \in 1..R
    BY <2>3
  <2> QED
    BY <1>12, <1>15, <2>1, <2>3, <2>4
<1>17. CASE Ahead(e, st)
  <2>1. R = E + 1 /\ \A c \in 1..E : e.root[c] = st.root[c]
    BY <1>11, <1>17 DEF Ahead, StartOf
  <2>2. K = R - 1 - 2 * h
    <3>1. R = (K + 2 * h) + 1
      BY <1>11, <2>1
    <3> QED
      BY <3>1
  <2>3. \A c \in 1..K : c \in 1..E
    <3>1. E = K + 2 * h
      BY <1>11
    <3>2. K <= E
      BY <3>1
    <3> QED
      BY <3>2
  <2> QED
    BY <1>12, <1>15, <2>1, <2>2, <2>3
<1> QED
  BY <1>13, <1>14, <1>16, <1>17

(* What is under way can be read, but for the three limits.                *)
LEMMA ReadableFollows ==
  ASSUME RInv, SInv
  PROVE  Readable
<1> SUFFICES ASSUME NEW m \in sent \ read, ~Forgotten(m), ~TooFar(m), ~Evicted(m)
             PROVE  Result(m).verdict = "read"
  BY DEF Readable
<1>1. /\ RatchetTyped /\ StatesFit /\ MsgsFit /\ LostFits /\ Begins
  BY DEF RInv, SInv
<1> DEFINE p == m.to
           k == m.msg
           own == <<p, fresh[p] + 1>>
           B == Built(store[p], k, SignedPreKey(p))
           N == NeedsPreKey(store[p], k)
<1>2. /\ p \in Parties /\ k \in Msg /\ MsgFits(fresh, k) /\ k.n \in Nat
      /\ \E b \in KeyPair : k.key[1] = {b}
  BY <1>1, OneMessage DEF Msg
<1>3. PICK b \in KeyPair : k.key[1] = {b}
  BY <1>2
<1>4. Held(b)
  <2> SUFFICES ASSUME NEW q \in Parties, <<q, b>> \in lost PROVE FALSE
    BY DEF Held
  <2>1. PICK t : t = <<q, b>>
    OBVIOUS
  <2>2. t \in lost /\ {t[2]} = k.key[1] /\ Len(store[t[1]]) = MaxArchived + 1
    BY <1>1, <1>3, <2>1 DEF LostFits
  <2> QED
    BY <2>2 DEF Forgotten
<1>5. store[p] \in Record /\ fresh \in Counts
  BY <1>1, <1>2 DEF RatchetTyped
<1>6. own \in KeyPair
  BY <1>2, <1>5, NewIsUnknown
<1>7. \A a \in k.pre : /\ a.base = b /\ b[1] = Peer(p)
                       /\ k.pre = {a} /\ Unknown(store[p], k) =
                             IF HasSessionState(store[p], a.base) THEN {} ELSE {a}
                       /\ N = IF a.once /\ ~HasSessionState(store[p], a.base)
                              THEN {a.base} ELSE {}
  <2>1. ASSUME NEW a \in k.pre
        PROVE  /\ k.pre = {a} /\ k.key[1] = {a.base}
               /\ Unknown(store[p], k) =
                             IF HasSessionState(store[p], a.base) THEN {} ELSE {a}
               /\ N = IF a.once /\ ~HasSessionState(store[p], a.base)
                              THEN {a.base} ELSE {}
    BY <1>2, NeedsIs
  <2>2. \A a \in k.pre : a.base[1] = Peer(p)
    BY <1>1 DEF MsgsFit, OwnMsg
  <2>3. \A a \in k.pre : a.base = b
    BY <1>3, <2>1
  <2> HIDE DEF p, k, N
  <2> QED
    BY <2>1, <2>2, <2>3
<1>8. k.pre = {} => Unknown(store[p], k) = {} /\ N = {}
  BY <1>2, NeedsIs
<1>9. N \cap used = {}
  <2> SUFFICES ASSUME NEW c \in N, c \in used PROVE FALSE
    OBVIOUS
  <2> HIDE DEF N, k, p
  <2>1. PICK a \in k.pre : TRUE
    BY <1>8
  <2>2. c = b /\ ~HasSessionState(store[p], b) /\ Peer(b[1]) = p
    <3>1. /\ a.base = b /\ b[1] = Peer(p)
          /\ N = IF a.once /\ ~HasSessionState(store[p], a.base)
                 THEN {a.base} ELSE {}
      BY <1>7, <2>1
    <3>2. a.once /\ ~HasSessionState(store[p], a.base) /\ c = a.base
      BY <3>1
    <3>3. Peer(Peer(p)) = p
      BY <1>2, PeerOfPeer
    <3> QED
      BY <3>1, <3>2, <3>3
  <2>3. Met(p, b)
    BY <1>1, <2>2 DEF Begins
  <2> QED
    BY <1>2, <1>4, <2>2, <2>3 DEF Met, Held
<1>10. Result(m) = Decrypted(B, k, own)
  BY <1>9 DEF Result, Generated
<1>11. Result(m).verdict # "duplicate"
  BY UnreadIsNoDuplicateFollows DEF UnreadIsNoDuplicate
<1>12. /\ B \in Record
       /\ Unknown(store[p], k) = {} => B = store[p]
       /\ \A a \in k.pre : ~HasSessionState(store[p], a.base) =>
             1 \in 1..Len(B) /\ B[1] = BobState(a.base, SignedPreKey(p))
  <2> HIDE DEF p, k, own, N
  <2>1. MsgFits(fresh, k) /\ store[p] \in Record /\ k \in Msg /\ p \in Parties
    BY <1>2, <1>5
  <2>2. BuiltFrom(store[p], k, p, B)
    BY <2>1, BuiltIs
  <2> HIDE DEF B
  <2> QED
    BY <2>2 DEF BuiltFrom
<1> HIDE DEF N, B, own
<1>13. \E i \in 1..Len(B) : Opened(B[i], k, own).verdict = "read"
  <2>1. CASE ~HasSessionState(store[p], b)
    <3>1. k.n <= MaxSkip
      <4>1. StateOf(m) = {}
        BY <1>1, <1>2, <1>3, <2>1, StateOfIs
      <4> QED
        BY <1>2, <4>1, TooFarIs, SessionAssumption
    <3>2. /\ \E a \in k.pre : a.base = b
          /\ Opened(BobState(b, SignedPreKey(p)), k, own).verdict = "read"
      BY <1>3, <1>4, <1>6, <2>1, <3>1, FirstIsRead
    <3>3. 1 \in 1..Len(B) /\ B[1] = BobState(b, SignedPreKey(p))
      BY <1>12, <2>1, <3>2
    <3> QED
      BY <3>2, <3>3
  <2>2. CASE HasSessionState(store[p], b)
    <3>1. PICK i \in 1..Len(store[p]) : store[p][i].base = b
      BY <1>5, <2>2, BasesAre DEF HasSessionState
    <3>2. B = store[p]
      BY <1>7, <1>8, <1>12, <2>2
    <3>3. StateOf(m) = {store[p][i]}
      BY <1>1, <1>2, <1>3, <3>1, StateOfIs
    <3>4. store[p][i] \in State
      BY <1>1, <1>2, OneState
    <3>5. \/ \E j \in 1..Len(store[p][i].chains) :
                FoundIn(store[p][i], k, j, Opened(store[p][i], k, own).verdict)
          \/ NotFound(store[p][i], k, Opened(store[p][i], k, own).verdict)
      BY <1>2, <1>6, <3>4, VerdictIs
    <3>6. Opened(store[p][i], k, own).verdict = "read"
      BY <1>3, <1>4, <1>6, <3>1, <3>3, <3>5, FoundIsRead, NotFoundIsRead
    <3> QED
      BY <3>2, <3>6
  <2> QED
    BY <2>1, <2>2
<1> QED
  BY <1>10, <1>11, <1>12, <1>13, DecryptedVerdict

(* Two ends of a session that neither archived out stay in step: one has   *)
(* made exactly one Diffie-Hellman step more than the other                *)
(* (RatchetingSession, calculateSenderRatchet), it has the other's ratchet *)
(* key, and each receives with the chain keys the other sent with, however *)
(* many messages are late, lost or read again.                             *)
THEOREM InStepAlways == Spec => [](RInv /\ SInv)
<1>1. Init => RInv /\ SInv
  BY RatchetInitSafe, SyncInit
<1>2. RInv /\ SInv /\ [Next]_vars => (RInv /\ SInv)'
  <2> SUFFICES ASSUME RInv, SInv, [Next]_vars PROVE RInv' /\ SInv'
    OBVIOUS
  <2>1. CASE \E p \in Parties : Establish(p)
    BY <2>1, EstablishSafe, StartingSync
  <2>2. CASE \E p \in Parties : Encrypt(p)
    BY <2>2, EncryptSafe, WritingSync
  <2>3. CASE \E m \in sent : Decrypt(m)
    BY <2>3, DecryptSafe, DecryptReads, ReadingSync
  <2>4. CASE UNCHANGED vars
    BY <2>4, RatchetStutterSafe, SyncStutter
  <2> QED
    BY <2>1, <2>2, <2>3, <2>4 DEF Next
<1> QED
  BY <1>1, <1>2, PTL DEF Spec

(* No message is refused as a duplicate (DuplicateMessageException) before *)
(* it was read, in whatever order messages come: a key that a chain no     *)
(* longer has was used for the very message that carries its number.       *)
THEOREM UnreadIsNoDuplicateAlways == Spec => []UnreadIsNoDuplicate
BY InStepAlways, UnreadIsNoDuplicateFollows, PTL

(* Every message that was sent and not read can be decrypted by its        *)
(* receiver (decryptMsg, decryptPkmsg), in every order of arrival and      *)
(* after any number of ratchet steps, unless its session was archived out  *)
(* of a record, its chain was dropped for five newer ones, or its number   *)
(* is more than 2000 ahead.                                                *)
THEOREM ReadableAlways == Spec => []Readable
BY InStepAlways, ReadableFollows, PTL
=============================================================================
