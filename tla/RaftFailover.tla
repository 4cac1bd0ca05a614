---------------------------- MODULE RaftFailover ----------------------------
(***************************************************************************)
(* The experiment of the scenario tests: a cluster loses every edge into one   *)
(* node, at any moment, whoever leads then, and nothing else.  Each action is   *)
(* Raft's, with every message kept that meets no cut; what is under way when    *)
(* the cut comes still arrives.  A round trip is shorter than a timeout and a    *)
(* heartbeat interval, as it is with BaseDelay 1 and CrossCloudDelay 0.          *)
(***************************************************************************)
EXTENDS Raft

CONSTANT Partitioned  \* the member whose inbound edges are cut

VARIABLE cut  \* the nodes whose inbound edges are cut: none, or one

failoverVars == <<vars, cut>>

FailoverInit == Init /\ cut = {}

Sends(i, js) == \A j \in js \ cut : Len(net'[<<i, j>>]) > Len(net[<<i, j>>])

LosesOnlyAtCuts ==
  /\ \A c \in Channel : c[2] \in cut => Len(net'[c]) <= Len(net[c])
  /\ UNCHANGED cut

\* CutLink of both edges into it.
CutInbound ==
  /\ cut = {}
  /\ cut' = {Partitioned}
  /\ UNCHANGED vars

\* What i sent and what was sent to it has arrived.
RoundTripOver(i) == \A c \in Channel : i \in {c[1], c[2]} => net[c] = <<>>

Poll(i) ==
  /\ RoundTripOver(i)
  /\ BeginPreVote(i)
  /\ Sends(i, Peers(i))
  /\ LosesOnlyAtCuts
  /\ RecordForgotten

\* A heartbeat, a CheckQuorum, or both.
Lead(i) ==
  /\ LeaderTick(i)
  /\ (RoundTripOver(i) /\ Sends(i, Peers(i))) \/ net' = net
  /\ LosesOnlyAtCuts
  /\ RecordForgotten

Check(i) == Lead(i) /\ heardFrom'[i] = {}

Receive(i, j) ==
  /\ \/ (HandleAppendReq(i, j) \/ HandleVoteReq(i, j)) /\ Sends(i, {j})
     \/ HandleAppendResp(i, j)
     \/ HandleVoteResp(i, j) /\ (role'[i] \in {role[i], "follower"} \/ Sends(i, Peers(i)))
  /\ LosesOnlyAtCuts
  /\ RecordForgotten

HearProbe(i, j) ==
  i \notin cut /\ ReceiveProbe(i, j) /\ RecordForgotten /\ UNCHANGED cut

FailoverNext ==
  \/ CutInbound
  \/ \E i \in Node : Poll(i) \/ Lead(i)
  \/ \E i \in Node : \E j \in Peers(i) : Receive(i, j) \/ HearProbe(i, j)

\* Every timer expires again and again, what is under way arrives, and so do the
\* probes.  A poll waits for the round trips of the others, hence the strong fairness.
Fairness ==
  /\ \A i \in Node : SF_failoverVars(Poll(i)) /\ WF_failoverVars(Check(i))
  /\ \A i \in Node : \A j \in Peers(i) :
       WF_failoverVars(Receive(i, j)) /\ WF_failoverVars(HearProbe(i, j))

FailoverSpec == FailoverInit /\ [][FailoverNext]_failoverVars /\ Fairness

-----------------------------------------------------------------------------
=============================================================================
