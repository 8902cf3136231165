-------------------------- MODULE ElectionProofs ---------------------------
(***************************************************************************)
(* Theorems about Election, for every set of servers, every set of log     *)
(* positions and every bound.                                              *)
(*                                                                         *)
(* The invariants are layered, each layer using those below it: types,     *)
(* how far a server has voted, what the calls in flight are about, what    *)
(* the vote count stands for, to whom a vote was given.  Two proper        *)
(* majorities of one term share a voter, who voted only once in that term  *)
(* unless it has been taken back over it.                                  *)
(***************************************************************************)
EXTENDS Election, TLAPS, FiniteSetTheorems

-----------------------------------------------------------------------------
(* Types.                                                                  *)

\* A candidate is still short of its majority: the vote that completes it
\* makes it the leader in the same step.
TypeInv ==
  /\ TypeOK
  /\ \A i \in Server : status[i] = "CANDIDATE" => num_votes[i] < Majority

\* The majority as a number, and at least two as soon as there is a peer.
LEMMA MajorityFacts ==
  /\ Cardinality(Server) \in Nat
  /\ Majority \in Nat
  /\ 1 <= Majority
  /\ \A i \in Server : Peers(i) # {} => 2 <= Majority
<1>1. Cardinality(Server) \in Nat
  BY ServerAssumption, FS_CardinalityType
<1>2. ASSUME NEW i \in Server, Peers(i) # {} PROVE 2 <= Cardinality(Server)
  <2>1. PICK j \in Server : j # i
    BY <1>2 DEF Peers
  <2>2. IsFiniteSet({i}) /\ Cardinality({i}) = 1
    BY FS_Singleton
  <2>3. /\ IsFiniteSet({i} \cup {j})
        /\ Cardinality({i} \cup {j}) =
             IF j \in {i} THEN Cardinality({i}) ELSE Cardinality({i}) + 1
    BY <2>2, FS_AddElement, Zenon
  <2>4. j \notin {i} /\ {i} \cup {j} \in SUBSET Server
    BY <2>1
  <2>5. Cardinality({i} \cup {j}) = 2
    BY <2>2, <2>3, <2>4
  <2>6. Cardinality({i} \cup {j}) <= Cardinality(Server)
    BY <2>4, ServerAssumption, FS_Subset
  <2> QED
    BY <2>5, <2>6
<1> QED
  BY <1>1, <1>2, SMT DEF Majority

LEMMA TypeInvInit == Init => TypeInv
  BY ServerAssumption, BoundAssumption, MajorityFacts
  DEF Init, TypeInv, TypeOK, Status, Position

LEMMA TypeInvStep == TypeInv /\ [Next]_vars => TypeInv'
<1> SUFFICES ASSUME TypeInv, [Next]_vars PROVE TypeInv'
  OBVIOUS
<1> USE ServerAssumption, BoundAssumption, MajorityFacts DEF TypeInv, TypeOK
<1>1. ASSUME NEW i \in Server, BeginElection(i) PROVE TypeInv'
  <2>1. 2 <= Majority /\ term[i] + 1 \in Nat
    BY <1>1 DEF BeginElection
  <2>2. /\ term' \in [Server -> Nat] /\ status' \in [Server -> Status]
        /\ voted_for' \in [Server -> [term : Nat, server_id : Server \cup {Nobody}]]
    BY <1>1, <2>1 DEF BeginElection, cast_vote, Status
  <2>3. num_votes' = [num_votes EXCEPT ![i] = 1]
    BY <1>1 DEF BeginElection, reset_num_votes
  <2>4. /\ num_votes' \in [Server -> Nat]
        /\ \A s \in Server : num_votes'[s] <= Majority
        /\ \A s \in Server : status'[s] = "CANDIDATE" => num_votes'[s] < Majority
    BY <1>1, <2>1, <2>3 DEF BeginElection
  <2>5. vote_calls' \subseteq VoteCall /\ vote_requests' \subseteq VoteCall
    BY <1>1, <2>1 DEF BeginElection, Peers, VoteCall
  <2>6. /\ [voter |-> i, term |-> term[i] + 1, round |-> elections[i] + 1] \in Vote
        /\ elections' \in [Server -> Nat]
    BY <1>1, <2>1 DEF BeginElection, Vote
  <2>7. counted' \in [Server -> SUBSET Vote]
    BY <1>1, <2>6 DEF BeginElection
  <2> QED
    BY <1>1, <2>2, <2>4, <2>5, <2>6, <2>7 DEF BeginElection, hbNet, entryNet
<1>2. ASSUME NEW i \in Server, FollowerLoopExits(i) PROVE TypeInv'
  <2>1. loop_alive' \in [Server -> BOOLEAN]
    BY <1>2 DEF FollowerLoopExits
  <2> QED
    BY <1>2, <2>1 DEF FollowerLoopExits, nodeVars, voteNet, hbNet, entryNet, history
<1>3. ASSUME NEW p \in vote_replies, CountVote(p) PROVE TypeInv'
  <2> DEFINE c == p.call.cand
  <2>1. /\ p.call \in VoteCall /\ c \in Server 
        /\ [voter |-> p.call.voter, term |-> p.call.term, round |-> p.call.round] \in Vote
    BY DEF VoteReply, VoteCall, Vote
  <2>2. /\ num_votes' = [num_votes EXCEPT ![c] = @ + 1]
        /\ counted' = [counted EXCEPT ![c] = @ \cup
              {[voter |-> p.call.voter, term |-> p.call.term,
                round |-> p.call.round]}]
        /\ status[c] = "CANDIDATE"
        /\ vote_calls' \subseteq vote_calls /\ vote_replies' \subseteq vote_replies
        /\ UNCHANGED <<term, hb_replies, voted_for, last_log, elections, loop_alive,
                       vote_requests, puts, broadcasts, failures, moved>>
    BY <1>3 DEF CountVote, VoteCallReturns, entryNet
  <2>3. num_votes'[c] = num_votes[c] + 1 /\ num_votes[c] < Majority
    BY <2>1, <2>2
  <2>4. counted' \in [Server -> SUBSET Vote] /\ num_votes' \in [Server -> Nat]
    BY <2>1, <2>2
  <2>5. \A i \in Server : num_votes'[i] <= Majority
    BY <2>1, <2>2, <2>3
  <2>6. CASE num_votes[c] + 1 >= Majority
    <3>1. BecomeLeader(c)
      BY <1>3, <2>6 DEF CountVote
    <3>2. /\ status' = [status EXCEPT ![c] = "LEADER"]
          /\ leader_id' = [leader_id EXCEPT ![c] = c]
          /\ hb_calls' \subseteq HbCall /\ hb_requests' \subseteq HbCall
      BY <2>1, <3>1 DEF BecomeLeader, Peers, HbCall
    <3>3. won' \subseteq [leader : Server, term : Nat, votes : SUBSET Vote]
      BY <2>1, <2>4, <3>1 DEF BecomeLeader
    <3> QED
      BY <2>1, <2>2, <2>4, <2>5, <3>2, <3>3 DEF Status
  <2>7. CASE ~(num_votes[c] + 1 >= Majority)
    <3>1. UNCHANGED <<status, leader_id, hb_calls, hb_requests, won>>
      BY <1>3, <2>7 DEF CountVote
    <3> QED
      BY <2>1, <2>2, <2>3, <2>4, <2>5, <2>7, <3>1
  <2> QED
    BY <2>6, <2>7
<1>4. ASSUME NEW p \in vote_replies, LearnLaterTerm(p) PROVE TypeInv'
  BY <1>4 DEF LearnLaterTerm, VoteCallReturns, revert_to_follower, Status,
              VoteReply, VoteCall, hbNet, entryNet, history
<1>5. ASSUME NEW p \in vote_replies, IgnoreVoteReply(p) PROVE TypeInv'
  BY <1>5 DEF IgnoreVoteReply, VoteCallReturns, hbNet, entryNet, history
<1>6. ASSUME NEW c \in vote_calls, VoteCallFails(c) PROVE TypeInv'
  BY <1>6 DEF VoteCallFails, nodeVars, hbNet, entryNet, history
<1>7. ASSUME NEW r \in vote_requests, VoteForNewerTerm(r) PROVE TypeInv'
  BY <1>7 DEF VoteForNewerTerm, LeaderAfterVote, revert_to_follower, cast_vote,
              AnswerVote, VoteCall, VoteReply, Status, hbNet, entryNet, history
<1>8. ASSUME NEW r \in vote_requests, RefuseNewerTerm(r) PROVE TypeInv'
  BY <1>8 DEF RefuseNewerTerm, revert_to_follower, AnswerVote, VoteCall,
              VoteReply, Status, hbNet, entryNet, history
<1>9. ASSUME NEW r \in vote_requests, VoteInSameTerm(r) PROVE TypeInv'
  BY <1>9 DEF VoteInSameTerm, LeaderAfterVote, cast_vote, AnswerVote, VoteCall,
              VoteReply, hbNet, entryNet, history
<1>10. ASSUME NEW r \in vote_requests, RepeatedRequest(r) PROVE TypeInv'
  BY <1>10 DEF RepeatedRequest, AnswerVote, VoteCall, VoteReply, nodeVars,
               hbNet, entryNet, history
<1>11. ASSUME NEW r \in vote_requests, RefuseVote(r) PROVE TypeInv'
  BY <1>11 DEF RefuseVote, AnswerVote, VoteCall, VoteReply, nodeVars, hbNet,
               entryNet, history
<1>12. ASSUME NEW h \in hb_requests, Heartbeat(h) PROVE TypeInv'
  <2>1. h.follower \in Server /\ h.leader \in Server /\ h.term \in Nat
    BY DEF HbCall
  <2>2. /\ term' \in [Server -> Nat] /\ status' \in [Server -> Status]
        /\ leader_id' \in [Server -> Server \cup {Nobody}]
        /\ \A i \in Server : status'[i] = "CANDIDATE" => status[i] = "CANDIDATE"
    <3>1. \/ revert_to_follower(h.follower, h.term, h.leader)
          \/ UNCHANGED <<status, term, leader_id>>
      BY <1>12 DEF Heartbeat
    <3> QED
      BY <2>1, <3>1 DEF revert_to_follower, Status
  <2>3. hb_requests' \subseteq HbCall
    BY <1>12 DEF Heartbeat
  <2>4. [call |-> h, ok |-> TermIsCurrent(h.follower, h),
         term |-> term'[h.follower], leaderId |-> leader_id'[h.follower]]
           \in HbReply
    BY <2>1, <2>2 DEF HbReply, TermIsCurrent
  <2>5. hb_replies' \subseteq HbReply
    BY <1>12, <2>4 DEF Heartbeat
  <2> QED
    BY <1>12, <2>2, <2>3, <2>5 DEF Heartbeat, voteNet, entryNet, history
<1>13. ASSUME NEW p \in hb_replies, HeartbeatReturns(p) PROVE TypeInv'
  <2>1. /\ p.call \in HbCall /\ p.call.leader \in Server /\ p.term \in Nat
        /\ p.leaderId \in Server \cup {Nobody}
    BY DEF HbReply, HbCall
  <2>2. /\ term' \in [Server -> Nat] /\ status' \in [Server -> Status]
        /\ leader_id' \in [Server -> Server \cup {Nobody}]
        /\ \A i \in Server : status'[i] = "CANDIDATE" => status[i] = "CANDIDATE"
    BY <1>13, <2>1 DEF HeartbeatReturns, revert_to_follower, Status
  <2>3. /\ hb_calls' \subseteq HbCall /\ hb_requests' \subseteq HbCall
        /\ hb_replies' \subseteq HbReply
    BY <1>13, <2>1 DEF HeartbeatReturns, HeartbeatAgain
  <2> QED
    BY <1>13, <2>2, <2>3 DEF HeartbeatReturns, voteNet, entryNet, history
<1>14. ASSUME NEW h \in hb_calls, HeartbeatFails(h) PROVE TypeInv'
  BY <1>14 DEF HeartbeatFails, HeartbeatAgain, nodeVars, voteNet, entryNet, history
<1>15. ASSUME NEW i \in Server, LogChanges(i) PROVE TypeInv'
  BY <1>15 DEF LogChanges, LogMoves, nodeVars, voteNet, hbNet, entryNet, history
<1>16. ASSUME NEW i \in Server, HandlePut(i) PROVE TypeInv'
  <2>1. puts' \in [Server -> Nat] /\ last_log' \in [Server -> Position]
    BY <1>16 DEF HandlePut, LogMoves
  <2>2. broadcasts' \subseteq Broadcast
    BY <1>16 DEF HandlePut, Peers, Broadcast
  <2> QED
    BY <1>16, <2>1, <2>2 DEF HandlePut, nodeVars, voteNet, hbNet, history
<1>17. ASSUME NEW b \in broadcasts, SendEntry(b) PROVE TypeInv'
  BY <1>17 DEF SendEntry, BroadcastIs, Broadcast, nodeVars, voteNet, hbNet, history
<1>18. ASSUME NEW b \in broadcasts, AppendEntries(b) PROVE TypeInv'
  <2>0. b \in Broadcast /\ b.follower \in Server /\ term[b.follower] \in Nat
    BY DEF Broadcast
  <2>1. last_log' \in [Server -> Position]
    <3>1. last_log' = last_log \/ LogMoves(b.follower)
      BY <1>18 DEF AppendEntries
    <3> QED
      BY <2>0, <3>1 DEF LogMoves
  <2>2. broadcasts' \subseteq Broadcast
    <3>1. \/ BroadcastIs(b, "redirected", term[b.follower])
          \/ BroadcastIs(b, "between", 0)
      BY <1>18 DEF AppendEntries
    <3>2. ASSUME NEW at \in {"between", "redirected"}, NEW t \in Nat
          PROVE  [b EXCEPT !.at = at, !.term = t] \in Broadcast
      BY <2>0 DEF Broadcast
    <3>3. \E at \in {"between", "redirected"} : \E t \in Nat : BroadcastIs(b, at, t)
      BY <2>0, <3>1
    <3>4. \E c \in Broadcast : broadcasts' = (broadcasts \ {b}) \cup {c}
      BY <3>2, <3>3 DEF BroadcastIs
    <3> QED
      BY <3>4
  <2> QED
    BY <1>18, <2>1, <2>2 DEF AppendEntries, nodeVars, voteNet, hbNet, history
<1>19. ASSUME NEW b \in broadcasts, UpdateTerm(b) PROVE TypeInv'
  BY <1>19 DEF UpdateTerm, Broadcast, voteNet, hbNet
<1>20. ASSUME NEW b \in broadcasts, BroadcastEnds(b) PROVE TypeInv'
  BY <1>20 DEF BroadcastEnds, nodeVars, voteNet, hbNet, history
<1>21. CASE UNCHANGED vars
  BY <1>21 DEF vars, nodeVars, voteNet, hbNet, entryNet, history
<1> QED
  BY <1>1, <1>2, <1>3, <1>4, <1>5, <1>6, <1>7, <1>8, <1>9, <1>10, <1>11,
     <1>12, <1>13, <1>14, <1>15, <1>16, <1>17, <1>18, <1>19, <1>20, <1>21
  DEF Next, ElectionStep, ConsensusStep, RequestVote

\* Type correctness of the election's state and messages.
THEOREM TypeCorrect == Spec => []TypeOK
<1>1. Spec => []TypeInv
  BY TypeInvInit, TypeInvStep, PTL DEF Spec
<1>2. TypeInv => TypeOK
  BY DEF TypeInv
<1> QED
  BY <1>1, <1>2, PTL

-----------------------------------------------------------------------------
(* How a step changes terms and votes.                                     *)

\* The term of a step goes forward, or update_term takes it back, which the
\* history records.  A vote is cast in the term that the voter then has: a
\* later one, or its own in which it has not voted.
Forward(s) ==
  /\ \/ term'[s] >= term[s]
     \/ /\ TakesRedirect(s)
        /\ [server |-> s, from |-> term[s], to |-> term'[s]] \in moved'
  /\ voted_for'[s] # voted_for[s] =>
       /\ voted_for'[s].term = term'[s]
       /\ \/ term'[s] > term[s]
          \/ term'[s] = term[s] /\ term'[s] > voted_for[s].term

LEMMA MovesForward ==
  ASSUME TypeInv, [Next]_vars
  PROVE  \A s \in Server : Forward(s)
<1> DEFINE AllForward == \A s \in Server : Forward(s)
<1> SUFFICES AllForward
  OBVIOUS
<1> USE DEF TypeInv, TypeOK, Forward
\* Nothing to show for a step that touches neither.
<1>a. ASSUME UNCHANGED <<term, voted_for>> PROVE AllForward
  BY <1>a
<1>1. ASSUME NEW i \in Server, BeginElection(i) PROVE AllForward
  BY <1>1 DEF BeginElection, cast_vote
<1>2. ASSUME NEW i \in Server, FollowerLoopExits(i) PROVE AllForward
  BY <1>2 DEF FollowerLoopExits, nodeVars
<1>3. ASSUME NEW p \in vote_replies, CountVote(p) PROVE AllForward
  BY <1>3 DEF CountVote, VoteCallReturns
<1>4. ASSUME NEW p \in vote_replies, LearnLaterTerm(p) PROVE AllForward
  BY <1>4 DEF LearnLaterTerm, VoteCallReturns, revert_to_follower,
              VoteReply, VoteCall
<1>5. ASSUME NEW p \in vote_replies, IgnoreVoteReply(p) PROVE AllForward
  BY <1>5 DEF IgnoreVoteReply, VoteCallReturns
<1>6. ASSUME NEW c \in vote_calls, VoteCallFails(c) PROVE AllForward
  BY <1>6 DEF VoteCallFails, nodeVars
<1>7. ASSUME NEW r \in vote_requests, VoteForNewerTerm(r) PROVE AllForward
  BY <1>7 DEF VoteForNewerTerm, revert_to_follower, cast_vote, VoteCall
<1>8. ASSUME NEW r \in vote_requests, RefuseNewerTerm(r) PROVE AllForward
  BY <1>8 DEF RefuseNewerTerm, revert_to_follower, VoteCall
<1>9. ASSUME NEW r \in vote_requests, VoteInSameTerm(r) PROVE AllForward
  BY <1>9 DEF VoteInSameTerm, NotYetVoted, cast_vote, VoteCall
<1>10. ASSUME NEW r \in vote_requests, RepeatedRequest(r) PROVE AllForward
  BY <1>10 DEF RepeatedRequest, nodeVars
<1>11. ASSUME NEW r \in vote_requests, RefuseVote(r) PROVE AllForward
  BY <1>11 DEF RefuseVote, nodeVars
<1>12. ASSUME NEW h \in hb_requests, Heartbeat(h) PROVE AllForward
  <2>1. h.follower \in Server /\ h.term \in Nat /\ UNCHANGED voted_for
    BY <1>12 DEF Heartbeat, HbCall
  <2>2. \/ term' = term
        \/ term[h.follower] <= h.term /\ term' = [term EXCEPT ![h.follower] = h.term]
    BY <1>12 DEF Heartbeat, TermIsCurrent, revert_to_follower
  <2> QED
    BY <2>1, <2>2
<1>13. ASSUME NEW p \in hb_replies, HeartbeatReturns(p) PROVE AllForward
  BY <1>13 DEF HeartbeatReturns, revert_to_follower, HbReply, HbCall
<1>14. ASSUME NEW h \in hb_calls, HeartbeatFails(h) PROVE AllForward
  BY <1>14 DEF HeartbeatFails, nodeVars
<1>15. ASSUME NEW i \in Server, LogChanges(i) \/ HandlePut(i) PROVE AllForward
  BY <1>15, <1>a DEF LogChanges, HandlePut, nodeVars
<1>16. ASSUME NEW b \in broadcasts,
              SendEntry(b) \/ AppendEntries(b) \/ BroadcastEnds(b)
       PROVE  AllForward
  BY <1>16, <1>a DEF SendEntry, AppendEntries, BroadcastEnds, nodeVars
<1>17. ASSUME NEW b \in broadcasts, UpdateTerm(b) PROVE AllForward
  <2>1. b.leader \in Server /\ b.term \in Nat /\ UNCHANGED voted_for
    BY <1>17 DEF UpdateTerm, Broadcast
  <2>2. /\ term' = [term EXCEPT ![b.leader] = b.term]
        /\ [server |-> b.leader, from |-> term[b.leader], to |-> b.term] \in moved'
        /\ b.at = "redirected" /\ b \notin broadcasts'
    BY <1>17 DEF UpdateTerm
  <2>3. TakesRedirect(b.leader)
    BY <2>1, <2>2 DEF TakesRedirect
  <2> QED
    BY <2>1, <2>2, <2>3
<1>18. CASE UNCHANGED vars
  BY <1>18, <1>a DEF vars, nodeVars
<1> QED
  BY <1>1, <1>2, <1>3, <1>4, <1>5, <1>6, <1>7, <1>8, <1>9, <1>10, <1>11,
     <1>12, <1>13, <1>14, <1>15, <1>16, <1>17, <1>18
  DEF Next, ElectionStep, ConsensusStep, RequestVote

\* What update_term has done is not forgotten.
LEMMA MovedGrows == [Next]_vars => moved \subseteq moved'
  BY DEF Next, ElectionStep, ConsensusStep, BeginElection, FollowerLoopExits,
     CountVote, LearnLaterTerm, IgnoreVoteReply, VoteCallFails, RequestVote,
     VoteForNewerTerm, RefuseNewerTerm, VoteInSameTerm, RepeatedRequest,
     RefuseVote, AnswerVote, Heartbeat, HeartbeatReturns, HeartbeatFails,
     LogChanges, HandlePut, SendEntry, AppendEntries, UpdateTerm,
     BroadcastEnds, history, vars

\* No step of the election takes a term back: only a broadcastEntry thread
\* does that, with a REDIRECT that came late.
THEOREM OnlyRedirectsTakeBack == Spec => TermGoesBackOnlyByRedirect
<1>1. TypeInv /\ [Next]_vars =>
        [\A i \in Server : term'[i] >= term[i] \/ TakesRedirect(i)]_vars
  BY MovesForward DEF Forward
<1>2. Spec => []TypeInv
  BY TypeInvInit, TypeInvStep, PTL DEF Spec
<1> QED
  BY <1>1, <1>2, PTL DEF Spec, TermGoesBackOnlyByRedirect

-----------------------------------------------------------------------------
(* How far a server has voted.                                             *)

\* A server has reached every term up to that of its vote, or update_term has
\* taken it back over that term.
VotedInv ==
  \A i \in Server : \A t \in Nat :
    t <= voted_for[i].term => t <= term[i] \/ TakenBack(i, t)

LEMMA VotedInvInit == Init => VotedInv
  BY DEF Init, VotedInv

LEMMA VotedInvStep == TypeInv /\ VotedInv /\ [Next]_vars => VotedInv'
<1> SUFFICES ASSUME TypeInv, VotedInv, [Next]_vars,
                    NEW i \in Server, NEW t \in Nat, t <= voted_for'[i].term
             PROVE  t <= term'[i] \/ TakenBack(i, t)'
  BY DEF VotedInv
<1>1. /\ term[i] \in Nat /\ term'[i] \in Nat
      /\ voted_for[i].term \in Nat /\ voted_for'[i].term \in Nat
  BY TypeInvStep DEF TypeInv, TypeOK
<1>2. Forward(i)
  BY MovesForward
<1>3. TakenBack(i, t) => TakenBack(i, t)'
  BY MovedGrows DEF TakenBack
<1>4. CASE voted_for'[i] # voted_for[i]
  BY <1>2, <1>4 DEF Forward
<1>5. CASE voted_for'[i] = voted_for[i]
  <2>1. t <= term[i] \/ TakenBack(i, t)
    BY <1>5 DEF VotedInv
  <2>2. CASE t <= term[i] /\ ~(t <= term'[i])
    <3> DEFINE m == [server |-> i, from |-> term[i], to |-> term'[i]]
    <3>1. m \in moved'
      BY <1>1, <1>2, <2>2 DEF Forward
    <3>2. m.server = i /\ m.to < t /\ t <= m.from
      BY <1>1, <2>2
    <3> QED
      BY <3>1, <3>2 DEF TakenBack
  <2> QED
    BY <1>3, <2>1, <2>2
<1> QED
  BY <1>4, <1>5

\* A vote that is cast in a term up to that of the last one is cast by a
\* server that was taken back over it.
LEMMA CastIsNew ==
  ASSUME TypeInv, VotedInv, [Next]_vars, NEW s \in Server,
         voted_for'[s] # voted_for[s]
  PROVE  \/ voted_for'[s].term > voted_for[s].term
         \/ TakenBack(s, voted_for'[s].term)
<1>1. /\ term[s] \in Nat /\ term'[s] \in Nat
      /\ voted_for[s].term \in Nat /\ voted_for'[s].term \in Nat
  BY TypeInvStep DEF TypeInv, TypeOK
<1>2. /\ voted_for'[s].term = term'[s]
      /\ \/ term'[s] > term[s]
         \/ term'[s] = term[s] /\ term'[s] > voted_for[s].term
  BY MovesForward DEF Forward
<1> QED
  BY <1>1, <1>2 DEF VotedInv

\* A server never changes the vote it has given in a term that it has not been
\* taken back over.
THEOREM VotesAreFinal == Spec => VoteIsFinal
<1>1. TypeInv /\ VotedInv /\ [Next]_vars =>
        [\A i \in Server : voted_for'[i] # voted_for[i] =>
           \/ voted_for'[i].term > voted_for[i].term
           \/ TakenBack(i, voted_for'[i].term)]_vars
  BY CastIsNew
<1>2. Spec => [](TypeInv /\ VotedInv)
  BY TypeInvInit, TypeInvStep, VotedInvInit, VotedInvStep, PTL DEF Spec
<1> QED
  BY <1>1, <1>2, PTL DEF Spec, VoteIsFinal

-----------------------------------------------------------------------------
(* What the vote count stands for.                                         *)

\* A thread still waits for a vote that is not counted, and no other thread
\* of the same election waits for the same voter.
CallInv ==
  /\ \A c \in vote_calls :
       /\ c.round <= elections[c.cand]
       /\ [voter |-> c.voter, term |-> c.term, round |-> c.round]
            \notin counted[c.cand]
  /\ \A c, d \in vote_calls :
       c.cand = d.cand /\ c.voter = d.voter /\ c.round = d.round => c = d
  /\ \A p \in vote_replies : p.call \in vote_calls

\* num_votes counts different votes, and every election was won by a majority.
CountInv ==
  /\ \A i \in Server : /\ IsFiniteSet(counted[i])
                       /\ num_votes[i] = Cardinality(counted[i])
  /\ \A w \in won : /\ IsFiniteSet(w.votes)
                    /\ Cardinality(w.votes) >= Majority

LEMMA CallInvInit == Init => CallInv
  BY DEF Init, CallInv

LEMMA CallInvStep == TypeInv /\ CallInv /\ [Next]_vars => CallInv'
<1> SUFFICES ASSUME TypeInv, CallInv, [Next]_vars PROVE CallInv'
  OBVIOUS
<1>0. /\ \A s \in Server : elections[s] \in Nat
      /\ \A c \in vote_calls : c.cand \in Server /\ c.round \in Nat /\ c.voter \in Server
  BY DEF TypeInv, TypeOK, VoteCall
\* Nothing to show for a step that starts no election and counts no vote.
<1>a. ASSUME UNCHANGED <<elections, counted>>, vote_calls' \subseteq vote_calls,
             \A p \in vote_replies' : p.call \in vote_calls'
      PROVE  CallInv'
  BY <1>a DEF CallInv
<1>1. ASSUME NEW i \in Server, BeginElection(i) PROVE CallInv'
  <2> DEFINE t == term[i] + 1
  <2> DEFINE n == elections[i] + 1
  <2> DEFINE calls == {[cand |-> i, voter |-> j, term |-> t, round |-> n,
                        pos |-> last_log[i]] : j \in Peers(i)}
  <2>1. /\ elections' = [elections EXCEPT ![i] = n]
        /\ counted' = [counted EXCEPT ![i] = {[voter |-> i, term |-> t, round |-> n]}]
        /\ vote_calls' = vote_calls \cup calls
        /\ vote_replies' = vote_replies
    BY <1>1 DEF BeginElection
  <2>2. \A c \in calls : /\ c.cand = i /\ c.term = t /\ c.round = n /\ c.voter # i
                         /\ c = [cand |-> i, voter |-> c.voter, term |-> t, round |-> n,
                                 pos |-> last_log[i]]
    BY DEF Peers
  <2> HIDE DEF calls
  <2>3. /\ counted'[i] = {[voter |-> i, term |-> t, round |-> n]} /\ elections'[i] = n
        /\ \A s \in Server : s # i => counted'[s] = counted[s] /\ elections'[s] = elections[s]
    BY <2>1 DEF TypeInv, TypeOK
  <2>4. ASSUME NEW c \in vote_calls
        PROVE  /\ c.round <= elections'[c.cand] /\ (c.cand = i => c.round # n)
               /\ [voter |-> c.voter, term |-> c.term, round |-> c.round]
                    \notin counted'[c.cand]
    <3>1. c.round <= elections[c.cand]
      BY DEF CallInv
    <3>2. c.cand = i => c.round # n
      BY <1>0, <3>1
    <3>3. c.round <= elections'[c.cand]
      BY <1>0, <2>3, <3>1
    <3>4. CASE c.cand = i
      BY <2>3, <3>2, <3>3, <3>4
    <3>5. CASE c.cand # i
      BY <1>0, <2>3, <3>3, <3>5 DEF CallInv
    <3> QED
      BY <3>4, <3>5
  <2>5. ASSUME NEW c \in calls
        PROVE  /\ c.round <= elections'[c.cand]
               /\ [voter |-> c.voter, term |-> c.term, round |-> c.round]
                    \notin counted'[c.cand]
    BY <1>0, <2>2, <2>3
  <2>6. ASSUME NEW c \in vote_calls', NEW d \in vote_calls',
               c.cand = d.cand, c.voter = d.voter, c.round = d.round
        PROVE  c = d
    <3>1. CASE c \in calls /\ d \in calls
      BY <2>2, <2>6, <3>1
    <3>2. CASE c \in vote_calls /\ d \in vote_calls
      BY <2>6, <3>2 DEF CallInv
    <3>3. ASSUME NEW a \in vote_calls, NEW b \in calls, a.cand = b.cand
          PROVE  a.round # b.round
      BY <2>2, <2>4, <3>3
    <3> QED
      BY <2>1, <2>6, <3>1, <3>2, <3>3
  <2>7. \A p \in vote_replies' : p.call \in vote_calls'
    BY <2>1 DEF CallInv
  <2> QED
    BY <2>1, <2>4, <2>5, <2>6, <2>7 DEF CallInv
<1>2. ASSUME NEW i \in Server, FollowerLoopExits(i) PROVE CallInv'
  BY <1>2, <1>a DEF FollowerLoopExits, voteNet, history, CallInv
<1>3. ASSUME NEW p \in vote_replies, CountVote(p) PROVE CallInv'
  <2>1. p.call \in vote_calls /\ p.call.cand \in Server
    BY <1>0 DEF CallInv
  <2>2. /\ counted' = [counted EXCEPT ![p.call.cand] = @ \cup
              {[voter |-> p.call.voter, term |-> p.call.term,
                round |-> p.call.round]}]
        /\ vote_calls' = vote_calls \ {p.call}
        /\ vote_replies' = {q \in vote_replies : q.call # p.call}
        /\ elections' = elections
    BY <1>3 DEF CountVote, VoteCallReturns
  <2>3. ASSUME NEW c \in vote_calls'
        PROVE  [voter |-> c.voter, term |-> c.term, round |-> c.round]
                 \notin counted'[c.cand]
    <3>1. c \in vote_calls /\ c # p.call /\ c.cand \in Server
      BY <1>0, <2>2
    <3>2. ~(c.cand = p.call.cand /\ c.voter = p.call.voter /\ c.round = p.call.round)
      BY <2>1, <3>1 DEF CallInv
    <3> QED
      BY <2>1, <2>2, <3>1, <3>2 DEF CallInv, TypeInv, TypeOK
  <2> QED
    BY <2>2, <2>3 DEF CallInv
<1>4. ASSUME NEW p \in vote_replies, LearnLaterTerm(p) \/ IgnoreVoteReply(p)
      PROVE  CallInv'
  BY <1>4, <1>a DEF LearnLaterTerm, IgnoreVoteReply, VoteCallReturns, history,
     CallInv
<1>5. ASSUME NEW c \in vote_calls, VoteCallFails(c) PROVE CallInv'
  BY <1>5, <1>a DEF VoteCallFails, history, CallInv
<1>6. ASSUME NEW r \in vote_requests, RequestVote(r) PROVE CallInv'
  BY <1>6, <1>a DEF RequestVote, VoteForNewerTerm, RefuseNewerTerm,
     VoteInSameTerm, RepeatedRequest, RefuseVote, AnswerVote, history, CallInv
<1>7. ASSUME NEW h \in hb_requests, Heartbeat(h) PROVE CallInv'
  BY <1>7, <1>a DEF Heartbeat, voteNet, history, CallInv
<1>8. ASSUME NEW p \in hb_replies, HeartbeatReturns(p) PROVE CallInv'
  BY <1>8, <1>a DEF HeartbeatReturns, voteNet, history, CallInv
<1>9. ASSUME NEW h \in hb_calls, HeartbeatFails(h) PROVE CallInv'
  BY <1>9, <1>a DEF HeartbeatFails, voteNet, history, CallInv
<1>10. CASE ConsensusStep
  BY <1>10, <1>a DEF ConsensusStep, LogChanges, HandlePut, SendEntry,
     AppendEntries, UpdateTerm, BroadcastEnds, voteNet, history, CallInv
<1>11. CASE UNCHANGED vars
  BY <1>11, <1>a DEF vars, voteNet, history, CallInv
<1> QED
  BY <1>1, <1>2, <1>3, <1>4, <1>5, <1>6, <1>7, <1>8, <1>9, <1>10, <1>11
  DEF Next, ElectionStep

LEMMA CountInvInit == Init => CountInv
  BY FS_EmptySet DEF Init, CountInv

LEMMA CountInvStep ==
  TypeInv /\ CallInv /\ CountInv /\ [Next]_vars => CountInv'
<1> SUFFICES ASSUME TypeInv, CallInv, CountInv, [Next]_vars PROVE CountInv'
  OBVIOUS
<1>a. ASSUME UNCHANGED <<counted, num_votes, won>> PROVE CountInv'
  BY <1>a DEF CountInv
<1>1. ASSUME NEW i \in Server, BeginElection(i) PROVE CountInv'
  <2>1. /\ num_votes' = [num_votes EXCEPT ![i] = 1]
        /\ counted' = [counted EXCEPT ![i] = {[voter |-> i, term |-> term[i] + 1,
                                       round |-> elections[i] + 1]}]
        /\ won' = won
    BY <1>1 DEF BeginElection, reset_num_votes
  <2>2. \A s \in Server : /\ IsFiniteSet(counted'[s])
                         /\ num_votes'[s] = Cardinality(counted'[s])
    BY <2>1, FS_Singleton DEF TypeInv, TypeOK, CountInv
  <2> QED
    BY <2>1, <2>2 DEF CountInv
<1>2. ASSUME NEW p \in vote_replies, CountVote(p) PROVE CountInv'
  <2> DEFINE c == p.call.cand
  <2> DEFINE v == [voter |-> p.call.voter, term |-> p.call.term,
                 round |-> p.call.round]
  <2>1. c \in Server /\ v \notin counted[c]
    BY DEF TypeInv, TypeOK, VoteReply, VoteCall, CallInv
  <2>2. /\ num_votes' = [num_votes EXCEPT ![c] = @ + 1]
        /\ counted' = [counted EXCEPT ![c] = @ \cup {v}]
    BY <1>2 DEF CountVote
  <2>3. counted'[c] = counted[c] \cup {v} /\ num_votes'[c] = num_votes[c] + 1
    BY <2>1, <2>2 DEF TypeInv, TypeOK
  <2>4. IsFiniteSet(counted[c]) /\ num_votes[c] = Cardinality(counted[c])
    BY <2>1 DEF CountInv
  <2>5. /\ IsFiniteSet(counted[c] \cup {v})
        /\ Cardinality(counted[c] \cup {v}) = Cardinality(counted[c]) + 1
    <3> HIDE DEF c, v
    <3> QED
      BY <2>1, <2>4, FS_AddElement, Zenon
  <2>6. \A s \in Server : /\ IsFiniteSet(counted'[s])
                         /\ num_votes'[s] = Cardinality(counted'[s])
    BY <2>1, <2>2, <2>3, <2>4, <2>5 DEF TypeInv, TypeOK, CountInv
  <2>7. ASSUME NEW w \in won', w \notin won
        PROVE  w.votes = counted'[c] /\ num_votes'[c] >= Majority
    <3>1. BecomeLeader(c) /\ num_votes[c] + 1 >= Majority
      BY <1>2, <2>7 DEF CountVote
    <3>2. w = [leader |-> c, term |-> term[c], votes |-> counted'[c]]
      BY <2>7, <3>1 DEF BecomeLeader
    <3> QED
      BY <2>3, <3>1, <3>2
  <2> QED
    BY <2>1, <2>6, <2>7 DEF CountInv
<1>3. ASSUME NEW i \in Server, FollowerLoopExits(i) PROVE CountInv'
  BY <1>3, <1>a DEF FollowerLoopExits, history
<1>4. ASSUME NEW p \in vote_replies, LearnLaterTerm(p) \/ IgnoreVoteReply(p)
      PROVE  CountInv'
  BY <1>4, <1>a DEF LearnLaterTerm, IgnoreVoteReply, history
<1>5. ASSUME NEW c \in vote_calls, VoteCallFails(c) PROVE CountInv'
  BY <1>5, <1>a DEF VoteCallFails, history
<1>6. ASSUME NEW r \in vote_requests, RequestVote(r) PROVE CountInv'
  BY <1>6, <1>a DEF RequestVote, VoteForNewerTerm, RefuseNewerTerm,
     VoteInSameTerm, RepeatedRequest, RefuseVote, AnswerVote, history
<1>7. ASSUME NEW h \in hb_requests, Heartbeat(h) PROVE CountInv'
  BY <1>7, <1>a DEF Heartbeat, history
<1>8. ASSUME NEW p \in hb_replies, HeartbeatReturns(p) PROVE CountInv'
  BY <1>8, <1>a DEF HeartbeatReturns, history
<1>9. ASSUME NEW h \in hb_calls, HeartbeatFails(h) PROVE CountInv'
  BY <1>9, <1>a DEF HeartbeatFails, history
<1>10. CASE ConsensusStep
  BY <1>10, <1>a DEF ConsensusStep, LogChanges, HandlePut, SendEntry,
     AppendEntries, UpdateTerm, BroadcastEnds, history
<1>11. CASE UNCHANGED vars
  BY <1>11, <1>a DEF vars, history
<1> QED
  BY <1>1, <1>2, <1>3, <1>4, <1>5, <1>6, <1>7, <1>8, <1>9, <1>10, <1>11
  DEF Next, ElectionStep

-----------------------------------------------------------------------------
(* To whom a vote was given.                                               *)

\* Voter v gave c its vote in term t, in c's n-th election: the grant is on its
\* way, is counted, or helped to win an election.
Gave(v, t, c, n) ==
  \/ \E p \in vote_replies : /\ p.outcome = "granted" /\ p.call.cand = c
                             /\ p.call.voter = v /\ p.call.term = t
                             /\ p.call.round = n
  \/ [voter |-> v, term |-> t, round |-> n] \in counted[c]
  \/ \E w \in won : /\ w.leader = c
                    /\ [voter |-> v, term |-> t, round |-> n] \in w.votes

\* This is the only vote that v gave in term t.
OnlyVote(v, t, c, n) ==
  \A d \in Server : \A m \in Nat : Gave(v, t, d, m) => c = d /\ n = m

\* voted_for remembers the latest vote, and no vote was given twice, except by
\* a voter that was taken back.
GaveInv ==
  \A v, c \in Server : \A t, n \in Nat : Gave(v, t, c, n) =>
    \/ TakenBack(v, t)
    \/ /\ t <= voted_for[v].term
       /\ t = voted_for[v].term => voted_for[v].server_id = c
       /\ OnlyVote(v, t, c, n)

\* In this step v gives c its vote in term n, in c's r-th election.
GivesVote(v, c, n, r) ==
  /\ n >= term[v]
  /\ n > voted_for[v].term \/ TakenBack(v, n)
  /\ voted_for' = [voted_for EXCEPT ![v] = [term |-> n, server_id |-> c]]
  /\ \A u, d \in Server : \A t, k \in Nat :
       Gave(u, t, d, k)' =>
         Gave(u, t, d, k) \/ (u = v /\ t = n /\ d = c /\ k = r)

LEMMA GaveInvInit == Init => GaveInv
  BY DEF Init, GaveInv, Gave

LEMMA GaveInvStep ==
  TypeInv /\ VotedInv /\ GaveInv /\ [Next]_vars => GaveInv'
<1> SUFFICES ASSUME TypeInv, VotedInv, GaveInv, [Next]_vars PROVE GaveInv'
  OBVIOUS
<1>0. \A s \in Server : /\ voted_for[s].term \in Nat /\ voted_for'[s].term \in Nat
                        /\ term[s] \in Nat
  BY TypeInvStep DEF TypeInv, TypeOK
<1>t. \A v \in Server : \A t \in Nat : TakenBack(v, t) => TakenBack(v, t)'
  BY MovedGrows DEF TakenBack
\* No vote is given.
<1>a. ASSUME UNCHANGED voted_for,
             \A v, c \in Server : \A t, n \in Nat :
               Gave(v, t, c, n)' => Gave(v, t, c, n)
      PROVE  GaveInv'
  <2>1. ASSUME NEW v \in Server, NEW c \in Server, NEW t \in Nat, NEW n \in Nat,
               Gave(v, t, c, n)'
        PROVE  \/ TakenBack(v, t)'
               \/ /\ t <= voted_for'[v].term
                  /\ t = voted_for'[v].term => voted_for'[v].server_id = c
                  /\ OnlyVote(v, t, c, n)'
    <3>1. Gave(v, t, c, n)
      BY <1>a, <2>1
    <3>2. OnlyVote(v, t, c, n) => OnlyVote(v, t, c, n)'
      BY <1>a DEF OnlyVote
    <3> QED
      BY <1>a, <1>t, <3>1, <3>2 DEF GaveInv
  <2> QED
    BY <2>1 DEF GaveInv
\* Server s gives its vote in term n to the r-th election of d.
<1>b. ASSUME NEW s \in Server, NEW d \in Server, NEW n \in Nat, NEW r \in Nat,
             GivesVote(s, d, n, r)
      PROVE  GaveInv'
  <2> USE DEF GivesVote
  <2>1. /\ voted_for'[s] = [term |-> n, server_id |-> d]
        /\ \A v \in Server : v # s => voted_for'[v] = voted_for[v]
    BY <1>b DEF TypeInv, TypeOK
  <2>2. ASSUME NEW v \in Server, NEW c \in Server, NEW t \in Nat, NEW k \in Nat,
               Gave(v, t, c, k)', ~TakenBack(v, t)'
        PROVE  /\ t <= voted_for'[v].term
               /\ t = voted_for'[v].term => voted_for'[v].server_id = c
               /\ OnlyVote(v, t, c, k)'
    <3>0. ~TakenBack(v, t)
      BY <1>t, <2>2
    <3>1. CASE v = s /\ t = n
      <4>1. \A e \in Server : \A m \in Nat : ~Gave(v, t, e, m)
        BY <1>0, <1>b, <3>0, <3>1 DEF GaveInv
      <4>2. c = d /\ k = r
        BY <1>b, <2>2, <3>1, <4>1
      <4>3. OnlyVote(v, t, c, k)'
        BY <1>b, <4>1, <4>2 DEF OnlyVote
      <4> QED
        BY <2>1, <3>1, <4>2, <4>3
    <3>2. CASE ~(v = s /\ t = n)
      <4>1. \A e \in Server : \A m \in Nat : Gave(v, t, e, m)' => Gave(v, t, e, m)
        BY <1>b, <3>2
      <4>2. /\ t <= voted_for[v].term
            /\ t = voted_for[v].term => voted_for[v].server_id = c
            /\ OnlyVote(v, t, c, k)
        BY <2>2, <3>0, <4>1 DEF GaveInv
      <4>3. OnlyVote(v, t, c, k)'
        BY <4>1, <4>2 DEF OnlyVote
      \* The voter has reached t, which is not n, so the new vote is later.
      <4>4. CASE v = s
        <5>1. t <= term[s]
          BY <3>0, <4>2, <4>4 DEF VotedInv
        <5>2. t < n
          BY <1>0, <1>b, <3>2, <4>4, <5>1
        <5> QED
          BY <2>1, <4>3, <4>4, <5>2
      <4>5. CASE v # s
        BY <2>1, <4>2, <4>3, <4>5
      <4> QED
        BY <4>4, <4>5
    <3> QED
      BY <3>1, <3>2
  <2> QED
    BY <2>2 DEF GaveInv
<1>1. ASSUME NEW i \in Server, BeginElection(i) PROVE GaveInv'
  <2> DEFINE n == term[i] + 1
  <2> DEFINE r == elections[i] + 1
  <2>1. n \in Nat /\ r \in Nat /\ n >= term[i]
    BY <1>0 DEF TypeInv, TypeOK
  <2>2. n > voted_for[i].term \/ TakenBack(i, n)
    BY <1>0, <2>1 DEF VotedInv
  <2>3. /\ voted_for' = [voted_for EXCEPT ![i] = [term |-> n, server_id |-> i]]
        /\ counted' = [counted EXCEPT ![i] = {[voter |-> i, term |-> n, round |-> r]}]
        /\ UNCHANGED <<vote_replies, won>>
    BY <1>1 DEF BeginElection, cast_vote
  <2> HIDE DEF n, r
  <2>4. ASSUME NEW v \in Server, NEW c \in Server, NEW t \in Nat, NEW k \in Nat,
               Gave(v, t, c, k)'
        PROVE  Gave(v, t, c, k) \/ (v = i /\ t = n /\ c = i /\ k = r)
    BY <2>3, <2>4 DEF Gave, TypeInv, TypeOK
  <2>5. GivesVote(i, i, n, r)
    BY <2>1, <2>2, <2>3, <2>4 DEF GivesVote
  <2> QED
    BY <1>b, <2>1, <2>5
<1>2. ASSUME NEW p \in vote_replies, CountVote(p) PROVE GaveInv'
  <2> DEFINE vote == [voter |-> p.call.voter, term |-> p.call.term,
                      round |-> p.call.round]
  <2>1. /\ p.outcome = "granted" /\ p.call.cand \in Server
        /\ counted' = [counted EXCEPT ![p.call.cand] = @ \cup {vote}]
        /\ vote_replies' \subseteq vote_replies
        /\ UNCHANGED voted_for
    BY <1>2 DEF CountVote, VoteCallReturns, TypeInv, TypeOK, VoteReply, VoteCall
  <2>2. ASSUME NEW w \in won', w \notin won
        PROVE  w.leader = p.call.cand /\ w.votes = counted'[p.call.cand]
    <3>1. BecomeLeader(p.call.cand)
      BY <1>2, <2>2 DEF CountVote
    <3> QED
      BY <2>2, <3>1 DEF BecomeLeader
  <2>3. ASSUME NEW v \in Server, NEW c \in Server, NEW t \in Nat, NEW n \in Nat,
               [voter |-> v, term |-> t, round |-> n] \in counted'[c]
        PROVE  Gave(v, t, c, n)
    <3>1. CASE [voter |-> v, term |-> t, round |-> n] \in counted[c]
      BY <3>1 DEF Gave
    <3>2. CASE [voter |-> v, term |-> t, round |-> n] \notin counted[c]
      <4>1. c = p.call.cand /\ [voter |-> v, term |-> t, round |-> n] = vote
        BY <2>1, <2>3, <3>2 DEF TypeInv, TypeOK
      <4>2. v = p.call.voter /\ t = p.call.term /\ n = p.call.round
        BY <4>1
      <4> QED
        BY <2>1, <4>1, <4>2 DEF Gave
    <3> QED
      BY <3>1, <3>2
  <2>4. ASSUME NEW v \in Server, NEW c \in Server, NEW t \in Nat, NEW n \in Nat,
               Gave(v, t, c, n)'
        PROVE  Gave(v, t, c, n)
    <3>1. CASE \E q \in vote_replies' : /\ q.outcome = "granted" /\ q.call.cand = c
                                       /\ q.call.voter = v /\ q.call.term = t
                                       /\ q.call.round = n
      BY <2>1, <3>1 DEF Gave
    <3>2. CASE [voter |-> v, term |-> t, round |-> n] \in counted'[c]
      BY <2>3, <3>2
    <3>3. CASE \E w \in won' : /\ w.leader = c
                              /\ [voter |-> v, term |-> t, round |-> n] \in w.votes
      BY <2>2, <2>3, <3>3 DEF Gave
    <3> QED
      BY <2>4, <3>1, <3>2, <3>3 DEF Gave
  <2> QED
    BY <1>a, <2>1, <2>4
<1>3. ASSUME NEW r \in vote_requests, VoteForNewerTerm(r) \/ VoteInSameTerm(r)
      PROVE  GaveInv'
  <2>1. r.voter \in Server /\ r.cand \in Server /\ r.term \in Nat /\ r.round \in Nat
    BY DEF TypeInv, TypeOK, VoteCall
  <2>2. /\ r.term >= term[r.voter]
        /\ r.term > term[r.voter] \/ r.term > voted_for[r.voter].term
    BY <1>0, <1>3, <2>1 DEF VoteForNewerTerm, VoteInSameTerm, NotYetVoted
  <2>3. r.term > voted_for[r.voter].term \/ TakenBack(r.voter, r.term)
    BY <1>0, <2>1, <2>2 DEF VotedInv
  <2>4. /\ voted_for' = [voted_for EXCEPT
              ![r.voter] = [term |-> r.term, server_id |-> r.cand]]
        /\ UNCHANGED <<counted, won>>
    BY <1>3 DEF VoteForNewerTerm, VoteInSameTerm, cast_vote, AnswerVote, history
  <2>5. \A q \in vote_replies' : q \in vote_replies \/ q.call = r
    BY <1>3 DEF VoteForNewerTerm, VoteInSameTerm, AnswerVote
  <2>6. ASSUME NEW v \in Server, NEW c \in Server, NEW t \in Nat, NEW n \in Nat,
               Gave(v, t, c, n)'
        PROVE  \/ Gave(v, t, c, n)
               \/ v = r.voter /\ t = r.term /\ c = r.cand /\ n = r.round
    BY <2>4, <2>5, <2>6 DEF Gave
  <2>7. GivesVote(r.voter, r.cand, r.term, r.round)
    BY <2>1, <2>2, <2>3, <2>4, <2>6 DEF GivesVote
  <2> QED
    BY <1>b, <2>1, <2>7
<1>4. ASSUME NEW r \in vote_requests,
             RefuseNewerTerm(r) \/ RepeatedRequest(r) \/ RefuseVote(r)
      PROVE  GaveInv'
  <2>1. UNCHANGED <<voted_for, counted, won>>
    BY <1>4 DEF RefuseNewerTerm, RepeatedRequest, RefuseVote, AnswerVote,
                nodeVars, history
  <2>2. \A q \in vote_replies' : q \in vote_replies \/ q.outcome # "granted"
    BY <1>4 DEF RefuseNewerTerm, RepeatedRequest, RefuseVote, AnswerVote
  <2>3. ASSUME NEW v \in Server, NEW c \in Server, NEW t \in Nat, NEW n \in Nat,
               Gave(v, t, c, n)'
        PROVE  Gave(v, t, c, n)
    BY <2>1, <2>2, <2>3 DEF Gave
  <2> QED
    BY <1>a, <2>1, <2>3
\* No other step touches a vote.
<1>c. ASSUME UNCHANGED <<voted_for, counted, won>>, vote_replies' \subseteq vote_replies
      PROVE  GaveInv'
  <2>1. ASSUME NEW v \in Server, NEW c \in Server, NEW t \in Nat, NEW n \in Nat,
               Gave(v, t, c, n)'
        PROVE  Gave(v, t, c, n)
    BY <1>c, <2>1 DEF Gave
  <2> QED
    BY <1>a, <1>c, <2>1
<1>5. ASSUME NEW i \in Server, FollowerLoopExits(i) PROVE GaveInv'
  BY <1>5, <1>c DEF FollowerLoopExits, nodeVars, voteNet, history
<1>6. ASSUME NEW p \in vote_replies, LearnLaterTerm(p) \/ IgnoreVoteReply(p)
      PROVE  GaveInv'
  BY <1>6, <1>c DEF LearnLaterTerm, IgnoreVoteReply, VoteCallReturns, history
<1>7. ASSUME NEW c \in vote_calls, VoteCallFails(c) PROVE GaveInv'
  BY <1>7, <1>c DEF VoteCallFails, nodeVars, history
<1>8. ASSUME NEW h \in hb_requests, Heartbeat(h) PROVE GaveInv'
  BY <1>8, <1>c DEF Heartbeat, voteNet, history
<1>9. ASSUME NEW p \in hb_replies, HeartbeatReturns(p) PROVE GaveInv'
  BY <1>9, <1>c DEF HeartbeatReturns, voteNet, history
<1>10. ASSUME NEW h \in hb_calls, HeartbeatFails(h) PROVE GaveInv'
  BY <1>10, <1>c DEF HeartbeatFails, nodeVars, voteNet, history
<1>11. CASE ConsensusStep
  BY <1>11, <1>c DEF ConsensusStep, LogChanges, HandlePut, SendEntry,
     AppendEntries, UpdateTerm, BroadcastEnds, nodeVars, voteNet, history
<1>12. CASE UNCHANGED vars
  BY <1>12, <1>c DEF vars, nodeVars, voteNet, history
<1> QED
  BY <1>1, <1>2, <1>3, <1>4, <1>5, <1>6, <1>7, <1>8, <1>9, <1>10, <1>11, <1>12
  DEF Next, ElectionStep, RequestVote

-----------------------------------------------------------------------------
(* Two majorities of one term.                                             *)

Voters(S) == {v.voter : v \in S}
OnePerVoter(S) == \A v, w \in S : v.voter = w.voter => v = w

\* There are as many voters as votes, if each has given one.
LEMMA VotersOfVotes ==
  ASSUME NEW S \in SUBSET Vote, IsFiniteSet(S), OnePerVoter(S)
  PROVE  /\ Voters(S) \in SUBSET Server
         /\ Cardinality(Voters(S)) = Cardinality(S)
<1> DEFINE f == [v \in S |-> v.voter]
<1>1. f \in Bijection(S, Voters(S))
  BY DEF Bijection, Injection, Surjection, IsInjective, Voters, OnePerVoter
<1>2. Voters(S) \in SUBSET Server
  BY DEF Voters, Vote
<1>3. ExistsBijection(S, Voters(S))
  BY <1>1 DEF ExistsBijection
<1> QED
  BY <1>2, <1>3, FS_Bijection

\* Two sets of votes of majority size, one vote per voter in each, have a
\* voter in common.
LEMMA MajoritiesShareAVoter ==
  ASSUME NEW S \in SUBSET Vote, NEW T \in SUBSET Vote,
         IsFiniteSet(S), IsFiniteSet(T), OnePerVoter(S), OnePerVoter(T),
         Cardinality(S) >= Majority, Cardinality(T) >= Majority
  PROVE  \E v \in S : \E w \in T : v.voter = w.voter
<1>1. /\ Voters(S) \in SUBSET Server /\ Cardinality(Voters(S)) >= Majority
      /\ Voters(T) \in SUBSET Server /\ Cardinality(Voters(T)) >= Majority
  BY VotersOfVotes
<1>2. /\ Cardinality(Voters(S)) \in Nat /\ Cardinality(Voters(T)) \in Nat
      /\ Cardinality(Server) \in Nat
  BY <1>1, ServerAssumption, FS_Subset, FS_CardinalityType
<1>3. Cardinality(Voters(S)) + Cardinality(Voters(T)) > Cardinality(Server)
  BY <1>1, <1>2 DEF Majority
<1>4. Voters(S) \cap Voters(T) # {}
  BY <1>1, <1>3, ServerAssumption, FS_MajoritiesIntersect
<1> QED
  BY <1>4 DEF Voters

\* With handlers that run one at a time, two servers win one term with votes
\* of that term only if a voter was taken back over it by update_term.
THEOREM ProperWinnerIsUnique == Spec => []OneProperWinnerPerTerm
<1>1. TypeInv /\ CountInv /\ GaveInv => OneProperWinnerPerTerm
  <2> SUFFICES ASSUME TypeInv, CountInv, GaveInv,
                      NEW a \in won, NEW b \in won,
                      Proper(a), Proper(b), a.term = b.term,
                      \A v \in a.votes \cup b.votes : ~TakenBack(v.voter, a.term)
               PROVE  a.leader = b.leader
    BY DEF OneProperWinnerPerTerm
  <2>1. /\ a.term \in Nat /\ a.leader \in Server /\ b.leader \in Server
        /\ a.votes \in SUBSET Vote /\ b.votes \in SUBSET Vote
    BY DEF TypeInv, TypeOK
  <2>2. /\ IsFiniteSet(a.votes) /\ Cardinality(a.votes) >= Majority
        /\ IsFiniteSet(b.votes) /\ Cardinality(b.votes) >= Majority
    BY DEF CountInv
  <2>3. ASSUME NEW w \in {a, b}, NEW v \in w.votes
        PROVE  /\ v.voter \in Server /\ v.round \in Nat
               /\ v = [voter |-> v.voter, term |-> a.term, round |-> v.round]
               /\ Gave(v.voter, a.term, w.leader, v.round)
               /\ OnlyVote(v.voter, a.term, w.leader, v.round)
    <3>1. v \in Vote /\ v.term = a.term
      BY <2>1 DEF Proper
    <3>2. /\ v.voter \in Server /\ v.round \in Nat
          /\ v = [voter |-> v.voter, term |-> a.term, round |-> v.round]
      BY <3>1 DEF Vote
    <3>3. w \in won /\ w.leader \in Server
      BY <2>1
    <3>4. Gave(v.voter, a.term, w.leader, v.round)
      BY <3>2, <3>3 DEF Gave
    <3> QED
      BY <2>1, <3>2, <3>3, <3>4 DEF GaveInv
  <2>4. ASSUME NEW w \in {a, b} PROVE OnePerVoter(w.votes)
    <3> SUFFICES ASSUME NEW u \in w.votes, NEW v \in w.votes, u.voter = v.voter
                 PROVE  u = v
      BY DEF OnePerVoter
    <3>1. u.round = v.round
      BY <2>1, <2>3 DEF OnlyVote
    <3> QED
      BY <2>3, <3>1
  <2>5. PICK v \in a.votes, w \in b.votes : v.voter = w.voter
    BY <2>1, <2>2, <2>4, MajoritiesShareAVoter
  <2> QED
    BY <2>1, <2>3, <2>5 DEF OnlyVote
<1>2. Spec => [](TypeInv /\ VotedInv)
  BY TypeInvInit, TypeInvStep, VotedInvInit, VotedInvStep, PTL DEF Spec
<1>3. Spec => [](CallInv /\ CountInv)
  BY <1>2, CallInvInit, CallInvStep, CountInvInit, CountInvStep, PTL DEF Spec
<1>4. Spec => []GaveInv
  BY <1>2, GaveInvInit, GaveInvStep, PTL DEF Spec
<1> QED
  BY <1>1, <1>2, <1>3, <1>4, PTL

-----------------------------------------------------------------------------
(* Redirects.                                                              *)

Winners == {w.leader : w \in won}

\* Every id of a leader that travels is that of a winner.
RedirectInv ==
  /\ \A i \in Server : leader_id[i] \in Winners \cup {Nobody}
  /\ \A p \in vote_replies : p.leaderId \in Winners \cup {Nobody}
  /\ \A h \in hb_calls \cup hb_requests : h.leader \in Winners
  /\ \A p \in hb_replies : /\ p.leaderId \in Winners \cup {Nobody}
                          /\ p.call.leader \in Winners

LEMMA RedirectInvInit == Init => RedirectInv
  BY DEF Init, RedirectInv

LEMMA RedirectInvStep == TypeInv /\ RedirectInv /\ [Next]_vars => RedirectInv'
<1> SUFFICES ASSUME TypeInv, RedirectInv, [Next]_vars PROVE RedirectInv'
  OBVIOUS
<1> USE DEF RedirectInv
\* Winners are never forgotten.
<1>0. Winners \subseteq Winners'
  <2>1. won \subseteq won'
    BY DEF Next, ElectionStep, BeginElection, FollowerLoopExits, CountVote,
       BecomeLeader, LearnLaterTerm, IgnoreVoteReply, VoteCallFails, RequestVote,
       VoteForNewerTerm, RefuseNewerTerm, VoteInSameTerm, RepeatedRequest,
       RefuseVote, AnswerVote, Heartbeat, HeartbeatReturns, HeartbeatFails,
       ConsensusStep, LogChanges, HandlePut, SendEntry, AppendEntries,
       UpdateTerm, BroadcastEnds, history, vars
  <2> QED
    BY <2>1 DEF Winners
<1>1. ASSUME NEW i \in Server, BeginElection(i) PROVE RedirectInv'
  BY <1>0, <1>1 DEF BeginElection, hbNet
<1>2. ASSUME NEW i \in Server, FollowerLoopExits(i) PROVE RedirectInv'
  BY <1>0, <1>2 DEF FollowerLoopExits, nodeVars, voteNet, hbNet
<1>3. ASSUME NEW p \in vote_replies, CountVote(p) PROVE RedirectInv'
  <2>1. vote_replies' \subseteq vote_replies /\ UNCHANGED hb_replies
    BY <1>3 DEF CountVote, VoteCallReturns
  <2>2. CASE UNCHANGED <<status, leader_id, hb_calls, hb_requests, won>>
    BY <1>0, <2>1, <2>2
  <2>3. CASE BecomeLeader(p.call.cand)
    <3>1. p.call.cand \in Winners'
      BY <2>3 DEF BecomeLeader, Winners
    <3>2. /\ \A h \in hb_calls' \ hb_calls : h.leader = p.call.cand
          /\ \A h \in hb_requests' \ hb_requests : h.leader = p.call.cand
      BY <2>3 DEF BecomeLeader
    <3>3. leader_id' = [leader_id EXCEPT ![p.call.cand] = p.call.cand]
      BY <2>3 DEF BecomeLeader
    <3>4. \A i \in Server : leader_id'[i] \in Winners' \cup {Nobody}
      BY <1>0, <3>1, <3>3 DEF TypeInv, TypeOK
    <3> QED
      BY <1>0, <2>1, <3>1, <3>2, <3>4
  <2> QED
    BY <1>3, <2>2, <2>3 DEF CountVote
<1>4. ASSUME NEW p \in vote_replies, LearnLaterTerm(p) PROVE RedirectInv'
  BY <1>0, <1>4 DEF LearnLaterTerm, VoteCallReturns, revert_to_follower, hbNet,
     TypeInv, TypeOK
<1>5. ASSUME NEW p \in vote_replies, IgnoreVoteReply(p) PROVE RedirectInv'
  BY <1>0, <1>5 DEF IgnoreVoteReply, VoteCallReturns, hbNet
<1>6. ASSUME NEW c \in vote_calls, VoteCallFails(c) PROVE RedirectInv'
  BY <1>0, <1>6 DEF VoteCallFails, nodeVars, hbNet
<1>7. ASSUME NEW r \in vote_requests, RequestVote(r) PROVE RedirectInv'
  <2>1. UNCHANGED <<hb_calls, hb_requests, hb_replies>>
    BY <1>7 DEF RequestVote, VoteForNewerTerm, RefuseNewerTerm, VoteInSameTerm,
       RepeatedRequest, RefuseVote, AnswerVote, hbNet
  <2>2. \A i \in Server : leader_id'[i] \in {leader_id[i], Nobody}
    BY <1>7 DEF RequestVote, VoteForNewerTerm, RefuseNewerTerm, VoteInSameTerm,
       RepeatedRequest, RefuseVote, LeaderAfterVote, revert_to_follower,
       nodeVars, TypeInv, TypeOK
  <2>3. r.voter \in Server
    BY DEF TypeInv, TypeOK, VoteCall
  <2>4. \A q \in vote_replies' :
          q \in vote_replies \/ q.leaderId \in {leader_id[r.voter], Nobody}
    BY <1>7 DEF RequestVote, VoteForNewerTerm, RefuseNewerTerm, VoteInSameTerm,
       RepeatedRequest, RefuseVote, AnswerVote, LeaderAfterVote
  <2> QED
    BY <1>0, <2>1, <2>2, <2>3, <2>4
<1>8. ASSUME NEW h \in hb_requests, Heartbeat(h) PROVE RedirectInv'
  <2>1. /\ h.follower \in Server /\ h.leader \in Winners
        /\ hb_requests' \subseteq hb_requests
        /\ UNCHANGED <<hb_calls, vote_replies>>
    BY <1>8 DEF Heartbeat, voteNet, TypeInv, TypeOK, HbCall
  <2>2. \A i \in Server : leader_id'[i] \in {leader_id[i], h.leader}
    BY <1>8 DEF Heartbeat, revert_to_follower, TypeInv, TypeOK
  <2>3. \A q \in hb_replies' : q \in hb_replies \/
          (q.leaderId = leader_id'[h.follower] /\ q.call = h)
    BY <1>8 DEF Heartbeat
  <2> QED
    BY <1>0, <2>1, <2>2, <2>3
<1>9. ASSUME NEW p \in hb_replies, HeartbeatReturns(p) PROVE RedirectInv'
  <2>1. /\ hb_calls' \subseteq hb_calls /\ hb_replies' \subseteq hb_replies
        /\ hb_requests' \subseteq hb_requests \cup {p.call}
        /\ UNCHANGED vote_replies
    BY <1>9 DEF HeartbeatReturns, HeartbeatAgain, voteNet
  <2>2. \A i \in Server : leader_id'[i] \in {leader_id[i], p.leaderId}
    BY <1>9 DEF HeartbeatReturns, revert_to_follower, TypeInv, TypeOK
  <2> QED
    BY <1>0, <2>1, <2>2
<1>10. ASSUME NEW h \in hb_calls, HeartbeatFails(h) PROVE RedirectInv'
  BY <1>0, <1>10 DEF HeartbeatFails, HeartbeatAgain, nodeVars, voteNet
<1>11. CASE ConsensusStep
  BY <1>0, <1>11 DEF ConsensusStep, LogChanges, HandlePut, SendEntry,
     AppendEntries, UpdateTerm, BroadcastEnds, nodeVars, voteNet, hbNet
<1>12. CASE UNCHANGED vars
  BY <1>0, <1>12 DEF vars, nodeVars, voteNet, hbNet
<1> QED
  BY <1>1, <1>2, <1>3, <1>4, <1>5, <1>6, <1>7, <1>8, <1>9, <1>10, <1>11, <1>12
  DEF Next, ElectionStep

\* A client is only ever sent to a server that has won an election.
THEOREM RedirectsNameWinners == Spec => []RedirectNamesAWinner
<1>1. RedirectInv => RedirectNamesAWinner
  BY DEF RedirectInv, RedirectNamesAWinner, Winners
<1>2. Spec => []RedirectInv
  BY TypeInvInit, TypeInvStep, RedirectInvInit, RedirectInvStep, PTL DEF Spec
<1> QED
  BY <1>1, <1>2, PTL
=============================================================================
