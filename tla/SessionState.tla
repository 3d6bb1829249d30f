---------------------------- MODULE SessionState ----------------------------
(***************************************************************************)
(* The state of an end-to-end session and what SessionCipher computes with *)
(* it between loading and storing (axolotl/sessioncipher, sessionbuilder,  *)
(* state/sessionstate, state/sessionrecord, ratchet/ratchetingsession).    *)
(*                                                                         *)
(* Cryptography is symbolic.  A key pair is <<party, k>>, the k-th the     *)
(* party made; k = 0 is its signed pre-key.  The keys derived from a root  *)
(* key by an agreement are named by the agreements that led to them, so    *)
(* two parties have the same chain exactly when they made the same ones,   *)
(* and the MAC of a message verifies exactly with the chain it was         *)
(* encrypted in.                                                           *)
(***************************************************************************)
EXTENDS Integers, Sequences, SequencesExt

CONSTANTS
    MaxSkip,        \* message keys kept for one gap (2000)
    MaxChains,      \* receiver chains of a session (5)
    MaxArchived     \* archived states of a record (40)

ASSUME SessionAssumption ==
    /\ MaxSkip \in Nat /\ MaxArchived \in Nat
    /\ MaxChains \in Nat \ {0}

SignedPreKey(p) == <<p, 0>>

NewChain(their, key) ==
    [eph |-> their, key |-> key, index |-> 0, skipped |-> {}]

(* initializeSessionAsAlice, for a bundle with signed pre-key spk.  Until  *)
(* an answer comes her messages carry what Bob needs to follow (pending):  *)
(* the base key, and whether the bundle had a one-time pre-key (once).     *)
AliceState(base, once, spk, eph) ==
    LET root == <<{base}, {spk, eph}>>
    IN [base |-> base, pending |-> {[base |-> base, once |-> once]},
        root |-> root, eph |-> eph, key |-> root, n |-> 0,
        chains |-> <<NewChain(spk, <<{base}>>)>>]

(* initializeSessionAsBob *)
BobState(base, spk) ==
    [base |-> base, pending |-> {}, root |-> <<{base}>>, eph |-> spk,
     key |-> <<{base}>>, n |-> 0, chains |-> <<>>]

(* A record is the current state followed by the archived ones; <<>> is a  *)
(* fresh record.                                                           *)
Promote_Forgets(st, others) == <<st>>       \* variant: others are not kept
Promote(st, others) ==
    <<st>> \o SubSeq(others, 1, IF Len(others) > MaxArchived
                                THEN MaxArchived ELSE Len(others))

HasSessionState(record, base) == \E i \in DOMAIN record : record[i].base = base
-----------------------------------------------------------------------------
(* encrypt *)
Message(st) ==
    [pre |-> st.pending, eph |-> st.eph, key |-> st.key, n |-> st.n]

Encrypted_SameKey(record) == record         \* variant: the chain stays
Encrypted(record) == [record EXCEPT ![1].n = @ + 1]
-----------------------------------------------------------------------------
(* getOrCreateChainKey *)
ChainsOf(st, their) == {i \in DOMAIN st.chains : st.chains[i].eph = their}

AddReceiverChain(chains, c) ==
    LET all == Append(chains, c)
    IN IF Len(all) > MaxChains THEN Tail(all) ELSE all

Ratcheted(st, their, new) ==
    IF ChainsOf(st, their) # {} THEN st
    ELSE LET in  == Append(st.root, {their, st.eph})
             out == Append(in, {their, new})
         IN [st EXCEPT !.root = out, !.eph = new, !.key = out, !.n = 0,
                       !.chains = AddReceiverChain(@, NewChain(their, in))]

(* getOrCreateMessageKeys: the chain after the key of message n was taken  *)
Take_Keeps(c, n) ==                 \* variant: a stored key is not removed
    IF n < c.index THEN c
    ELSE [c EXCEPT !.index = n + 1, !.skipped = @ \cup (c.index..(n - 1))]

Take_NoSkipped(c, n) ==             \* variant: keys of a gap are not stored
    IF n < c.index THEN [c EXCEPT !.skipped = @ \ {n}]
    ELSE [c EXCEPT !.index = n + 1]

Take(c, n) ==
    IF n < c.index THEN [c EXCEPT !.skipped = @ \ {n}]
    ELSE [c EXCEPT !.index = n + 1, !.skipped = @ \cup (c.index..(n - 1))]

(* decryptWithSessionState, on a copy of st *)
Opened(st, m, new) ==
    LET r == Ratcheted(st, m.eph, new)
        i == CHOOSE j \in ChainsOf(r, m.eph) : TRUE
    IN [state |-> [r EXCEPT !.chains[i] = Take(@, m.n), !.pending = {}],
        verdict |->
            LET c == r.chains[i]
            IN IF m.n < c.index /\ m.n \notin c.skipped THEN "duplicate"
               ELSE IF m.n > c.index + MaxSkip \/ m.key # c.key THEN "invalid"
               ELSE "read"]

(* decryptWithSessionRecord: the first state that does not find the        *)
(* message invalid decides, and becomes the current one when it reads it.  *)
Readers(record, m, new) ==
    {i \in DOMAIN record : Opened(record[i], m, new).verdict # "invalid"}

Decrypted(record, m, new) ==
    IF Readers(record, m, new) = {}
    THEN [record |-> record, verdict |-> "invalid"]
    ELSE LET i == CHOOSE j \in Readers(record, m, new) :
                      \A k \in Readers(record, m, new) : j <= k
             o == Opened(record[i], m, new)
         IN IF o.verdict = "duplicate"
            THEN [record |-> record, verdict |-> "duplicate"]
            ELSE [record |-> Promote(o.state, RemoveAt(record, i)),
                  verdict |-> "read"]

(* decryptPkmsg up to the store: processV3 builds a state for a base key   *)
(* the record does not know.                                               *)
Unknown(record, m) == {b \in m.pre : ~HasSessionState(record, b.base)}

Built(record, m, spk) ==
    IF Unknown(record, m) = {} THEN record
    ELSE LET b == CHOOSE x \in Unknown(record, m) : TRUE
         IN Promote(BobState(b.base, spk), record)

(* The one-time pre-keys it needs, and decryptPkmsg removes in the end.    *)
NeedsPreKey(record, m) == {b.base : b \in {x \in Unknown(record, m) : x.once}}
=============================================================================
