----------------------------- MODULE Transcript -----------------------------
(***************************************************************************)
(* One direction between two nodes: the sender's and the receiver's half of   *)
(* the signed hash chain (crypt/chain.go, the seal and the open of            *)
(* crypt/envelope.go) and the edge of the fabric in between, as far as it may *)
(* drop, rewrite, delay or relay an envelope (sim/network.go enqueue).        *)
(*                                                                           *)
(* Signatures and hashes are ideal: an envelope opens exactly if it was not   *)
(* rewritten, and the hash of an envelope names it, so a chain head is the     *)
(* sequence number of the envelope it is the hash of (0 for the genesis).     *)
(***************************************************************************)
EXTENDS Naturals, Sequences, FiniteSets

CONSTANT MaxSeq  \* bound: envelopes sealed in a run

ASSUME MaxSeqAssumption == MaxSeq \in Nat

VARIABLES
  sendSeq, sendHead,                  \* the sender's half
  recvSeq, recvHead, started, gaps,   \* the receiver's half
  wire,                               \* envelopes in flight, due in any order
  given,                              \* history: envelopes the edge was given
  accepted                            \* history: envelopes accepted, in order

sender == <<sendSeq, sendHead>>
receiver == <<recvSeq, recvHead, started, gaps>>
vars == <<sender, receiver, wire, given, accepted>>

Envelope == [seq : Nat \ {0}, prevHash : Nat, intact : BOOLEAN]

Hash(env) == env.seq

Init ==
  /\ sendSeq = 0 /\ sendHead = 0
  /\ recvSeq = 0 /\ recvHead = 0 /\ started = FALSE /\ gaps = 0
  /\ wire = {}
  /\ given = {}
  /\ accepted = <<>>

-----------------------------------------------------------------------------
\* Transcript.Next: the envelope the sender seals now, and what is left of it once
\* its payload is rewritten (Envelope.Tamper).
Sealed == [seq |-> sendSeq + 1, prevHash |-> sendHead, intact |-> TRUE]
Tampered == [seq |-> sendSeq + 1, prevHash |-> sendHead, intact |-> FALSE]

Seal ==
  /\ sendSeq < MaxSeq
  /\ sendSeq' = Sealed.seq
  /\ sendHead' = Hash(Sealed)
  /\ UNCHANGED <<receiver, accepted>>

\* The envelope is sealed and the edge carries it, rewrites it, or drops it.
\* The sender's chain advances in every case.
Send ==
  /\ Seal
  /\ \/ wire' = wire \cup {Sealed}
     \/ wire' = wire \cup {Tampered}
     \/ wire' = wire
  /\ given' = given \cup {Sealed.seq}

\* Network.Propose does not collect what Node.Propose puts in the outbox: the
\* envelope is sealed and never given to the edge.
SendUncollected ==
  /\ Seal
  /\ UNCHANGED <<wire, given>>

-----------------------------------------------------------------------------
\* Mutant of Accept: duplicates are recognised only if they are the last envelope.
AcceptAnyOrder(env) ==
  /\ env.intact
  /\ env.seq # recvSeq
  /\ gaps' = IF started /\ (env.prevHash # recvHead \/ env.seq # recvSeq + 1)
             THEN gaps + 1 ELSE gaps
  /\ recvHead' = Hash(env)
  /\ recvSeq' = env.seq
  /\ started' = TRUE
  /\ accepted' = Append(accepted, env.seq)

\* Mutant of Accept: the genesis link is checked like any other.
AcceptCountingGenesis(env) ==
  /\ env.intact
  /\ env.seq > recvSeq
  /\ gaps' = IF env.prevHash # recvHead \/ env.seq # recvSeq + 1
             THEN gaps + 1 ELSE gaps
  /\ recvHead' = Hash(env)
  /\ recvSeq' = env.seq
  /\ started' = TRUE
  /\ accepted' = Append(accepted, env.seq)

Accept(env) ==
  /\ env.intact
  /\ env.seq > recvSeq
  /\ gaps' = IF started /\ (env.prevHash # recvHead \/ env.seq # recvSeq + 1)
             THEN gaps + 1 ELSE gaps
  /\ recvHead' = Hash(env)
  /\ recvSeq' = env.seq
  /\ started' = TRUE
  /\ accepted' = Append(accepted, env.seq)

\* ErrBadSignature or ErrReplay: the node never sees the message.
Reject(env) ==
  /\ ~env.intact \/ env.seq <= recvSeq
  /\ UNCHANGED <<receiver, accepted>>

Deliver(env) ==
  /\ env \in wire
  /\ wire' = wire \ {env}
  /\ Accept(env) \/ Reject(env)
  /\ UNCHANGED <<sender, given>>

Next == Send \/ SendUncollected \/ \E env \in wire : Deliver(env)

Spec == Init /\ [][Next]_vars

-----------------------------------------------------------------------------
\* The transcript makes the edge, which may drop, rewrite and reorder, one that
\* only loses: the edge that module Raft is written over.
Edge == INSTANCE LossyFifo WITH
  sent <- sendSeq,
  pending <- {env.seq : env \in {e \in wire : e.intact /\ e.seq > recvSeq}},
  arrived <- accepted

Implements == Edge!Spec

\* Every accepted message is one that was sent, once and in order.
InOrder == Edge!InOrder

\* The receiver's gap count is the number of breaks in what it has accepted,
\* apart from what it missed before the first envelope that reached it.
GapsCountBreaks ==
  gaps = Cardinality({k \in 1..(Len(accepted) - 1) : accepted[k + 1] # accepted[k] + 1})

\* A gap means that the edge did not deliver something it was given (the comment
\* in Deliver: a gap means the path lost something).
GapMeansLoss ==
  [][gaps' > gaps => \E s \in (recvSeq + 1)..(recvSeq' - 1) : s \in given]_vars

\* The two halves of the chain fit: heads are the numbers of the envelopes sealed
\* and accepted last, the sender is never behind, and every envelope in flight is
\* linked to the one before it.
TypeOK ==
  /\ sendSeq \in Nat /\ sendHead = sendSeq
  /\ recvSeq \in 0..sendSeq /\ recvHead = recvSeq
  /\ started \in BOOLEAN /\ (started <=> recvSeq > 0)
  /\ gaps \in Nat
  /\ wire \subseteq Envelope
  /\ \A env \in wire : env.seq <= sendSeq /\ env.prevHash = env.seq - 1
  /\ given \subseteq 1..sendSeq
  /\ accepted \in Seq(Nat) /\ \A k \in DOMAIN accepted : accepted[k] \in 1..recvSeq
=============================================================================
