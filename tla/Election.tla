------------------------------ MODULE Election ------------------------------
(***************************************************************************)
(* Leader election: raft/election.py (class Election) together with the    *)
(* term, status, voted_for and leader_id that it keeps in logs/log.py, and *)
(* the one other writer of the term: the broadcastEntry threads of         *)
(* raft/consensus.py.                                                      *)
(*                                                                         *)
(* A handler or a thread's loop iteration is one atomic action.  The RPCs  *)
(* are asynchronous: a call is a record that the caller's thread waits on, *)
(* a request in flight is handled at any later time or never, the reply is *)
(* delivered at any later time, and a call may fail (deadline, connection, *)
(* exception in the remote handler) while its request is still in flight.  *)
(***************************************************************************)
EXTENDS Integers, FiniteSets

CONSTANTS
  Server,       \* the servers of the cluster: SERVERID and PEERS
  Nobody,       \* "no server": None, '' and 'No leader' in the code
  LogPositions, \* bound: the (last term, last index) pairs that i's log may take
  Campaigns,    \* bound: the terms in which server i begins an election
  Puts,         \* bound: how many puts server i takes
  MaxFailures   \* bound: how many calls may fail

ASSUME ServerAssumption ==
  /\ IsFiniteSet(Server)
  /\ Nobody \notin Server

\* Term of the last entry and log_idx of a log.
Position == [term : Nat, idx : Int]

ASSUME BoundAssumption ==
  /\ LogPositions \in [Server -> SUBSET Position]
  /\ Campaigns \in [Server -> SUBSET Nat]
  /\ Puts \in [Server -> Nat]
  /\ MaxFailures \in Nat

VARIABLES
  term,          \* Log.term
  status,        \* Log.status
  voted_for,     \* Log.voted_for
  leader_id,     \* Log.leader_id
  last_log,      \* term of the last entry and log_idx of Log.log
  num_votes,     \* Election.num_votes
  elections,     \* how many elections a server has begun: tells their threads apart
  loop_alive,    \* timeout_thread.is_alive(): the follower_loop thread
  vote_calls,    \* send_vote_request threads, each waiting on its call
  vote_requests, \* RequestVote requests in flight
  vote_replies,  \* RequestVote replies in flight
  hb_calls,      \* sendHeartbeat threads, each waiting on its call
  hb_requests,   \* Heartbeat requests in flight
  hb_replies,    \* Heartbeat replies in flight
  puts,          \* how many puts a server has taken: tells their threads apart
  broadcasts,    \* broadcastEntry threads, with what each is waiting for
  failures,      \* how many calls have failed, for the bound only
  counted,       \* history: which votes num_votes stands for
  won,           \* history: the elections won, with the votes counted
  moved          \* history: the changes of a term by update_term

nodeVars == <<term, status, voted_for, leader_id>>
voteNet  == <<vote_calls, vote_requests, vote_replies>>
hbNet    == <<hb_calls, hb_requests, hb_replies>>
entryNet == <<puts, broadcasts>>
history  == <<counted, won, moved>>
vars == <<nodeVars, last_log, num_votes, elections, loop_alive, voteNet, hbNet,
          entryNet, failures, history>>

Status   == {"CANDIDATE", "FOLLOWER", "LEADER"}
Peers(i) == Server \ {i}
Majority == (Cardinality(Server) \div 2) + 1

VoteCall  == [cand : Server, voter : Server, term : Nat, round : Nat,
              pos : Position]
VoteReply == [call : VoteCall, outcome : {"granted", "denied", "error"},
              term : Nat, leaderId : Server \cup {Nobody}]
Vote      == [voter : Server, term : Nat, round : Nat]
HbCall    == [leader : Server, follower : Server, term : Nat]
HbReply   == [call : HbCall, ok : BOOLEAN,
              term : Nat, leaderId : Server \cup {Nobody}]

\* A broadcastEntry thread is between two calls, waits for the answer to a
\* request that carries its server's term, or has a REDIRECT to a term.
Broadcast == [leader : Server, follower : Server, put : Nat,
              at : {"between", "calling", "redirected"}, term : Nat]

-----------------------------------------------------------------------------
Init ==
  /\ term = [i \in Server |-> 0]
  /\ status = [i \in Server |-> "FOLLOWER"]
  /\ voted_for = [i \in Server |-> [term |-> 0, server_id |-> Nobody]]
  /\ leader_id = [i \in Server |-> Nobody]
  /\ last_log = [i \in Server |-> [term |-> 0, idx |-> -1]]
  /\ num_votes = [i \in Server |-> 0]
  /\ elections = [i \in Server |-> 0]
  /\ loop_alive = [i \in Server |-> TRUE]
  /\ vote_calls = {} /\ vote_requests = {} /\ vote_replies = {}
  /\ hb_calls = {} /\ hb_requests = {} /\ hb_replies = {}
  /\ puts = [i \in Server |-> 0]
  /\ broadcasts = {}
  /\ failures = 0
  /\ counted = [i \in Server |-> {}]
  /\ won = {} /\ moved = {}

-----------------------------------------------------------------------------
(* Updates of the node state, after the methods of Log.                    *)

\* A lower term is taken over as readily as a higher one.
revert_to_follower(i, new_term, new_leader_id) ==
  /\ status' = [status EXCEPT ![i] = "FOLLOWER"]
  /\ term' = [term EXCEPT ![i] = new_term]
  /\ leader_id' = [leader_id EXCEPT ![i] = new_leader_id]

cast_vote(i, candidate_term, candidate_id) ==
  voted_for' = [voted_for EXCEPT
                  ![i] = [term |-> candidate_term, server_id |-> candidate_id]]

\* The candidate's log is at least as complete as the voter's.
LogIsComplete(voter_pos, cand_pos) ==
  \/ voter_pos.term < cand_pos.term
  \/ voter_pos.term = cand_pos.term /\ voter_pos.idx <= cand_pos.idx

-----------------------------------------------------------------------------
(* Candidate side.                                                         *)

OldCountKept(i) == num_votes[i] \* mutant

\* An election starts its count afresh.
reset_num_votes(i) == 0

\* follower_loop times out and runs begin_election: a new term, a vote for
\* oneself, and one send_vote_request thread per peer.  With a nonempty peer
\* list Majority is at least 2, so the own vote alone never elects.
BeginElection(i) ==
  /\ loop_alive[i] /\ status[i] # "LEADER"
  /\ Peers(i) # {}
  /\ term[i] + 1 \in Campaigns[i]
  /\ LET t     == term[i] + 1
         n     == elections[i] + 1
         calls == {[cand |-> i, voter |-> j, term |-> t, round |-> n,
                    pos |-> last_log[i]] : j \in Peers(i)}
     IN /\ term' = [term EXCEPT ![i] = t]
        /\ status' = [status EXCEPT ![i] = "CANDIDATE"]
        /\ cast_vote(i, t, i)
        /\ num_votes' = [num_votes EXCEPT ![i] = reset_num_votes(i) + 1]
        /\ elections' = [elections EXCEPT ![i] = n]
        /\ counted' = [counted EXCEPT
                         ![i] = {[voter |-> i, term |-> t, round |-> n]}]
        /\ vote_calls' = vote_calls \cup calls
        /\ vote_requests' = vote_requests \cup calls
  /\ UNCHANGED <<leader_id, last_log, loop_alive, vote_replies, hbNet, entryNet,
                 failures, won, moved>>

\* follower_loop finds its server leading and returns; nothing restarts it.
FollowerLoopExits(i) ==
  /\ loop_alive[i] /\ status[i] = "LEADER"
  /\ loop_alive' = [loop_alive EXCEPT ![i] = FALSE]
  /\ UNCHANGED <<nodeVars, last_log, num_votes, elections, voteNet, hbNet,
                 entryNet, failures, history>>

\* The call of thread c has returned p: the thread leaves its loop.
VoteCallReturns(p) ==
  /\ p \in vote_replies /\ p.outcome # "error"
  /\ vote_calls' = vote_calls \ {p.call}
  /\ vote_replies' = {q \in vote_replies : q.call # p.call}
  /\ UNCHANGED <<voted_for, last_log, elections, loop_alive, vote_requests,
                 entryNet, failures>>

\* set_self_leader and elected_leader: one sendHeartbeat thread per peer.
BecomeLeader(i) ==
  LET calls == {[leader |-> i, follower |-> j, term |-> term[i]] :
                  j \in Peers(i)}
  IN /\ status' = [status EXCEPT ![i] = "LEADER"]
     /\ leader_id' = [leader_id EXCEPT ![i] = i]
     /\ hb_calls' = hb_calls \cup calls
     /\ hb_requests' = hb_requests \cup calls
     /\ won' = won \cup {[leader |-> i, term |-> term[i], votes |-> counted'[i]]}

\* update_votes: any granted vote counts while the server is a candidate,
\* also one that was asked for in an earlier term.
CountVote(p) ==
  LET i == p.call.cand IN
  /\ VoteCallReturns(p)
  /\ p.outcome = "granted" /\ status[i] = "CANDIDATE"
  /\ num_votes' = [num_votes EXCEPT ![i] = @ + 1]
  /\ counted' = [counted EXCEPT
                   ![i] = @ \cup {[voter |-> p.call.voter, term |-> p.call.term,
                                   round |-> p.call.round]}]
  /\ IF num_votes[i] + 1 >= Majority
     THEN BecomeLeader(i)
     ELSE UNCHANGED <<status, leader_id, hb_calls, hb_requests, won>>
  /\ UNCHANGED <<term, hb_replies, moved>>

\* A refusal from a voter in a later term deposes the candidate.
LearnLaterTerm(p) ==
  LET i == p.call.cand IN
  /\ VoteCallReturns(p)
  /\ p.outcome = "denied" /\ p.term > term[i]
  /\ revert_to_follower(i, p.term, p.leaderId)
  /\ UNCHANGED <<num_votes, hbNet, history>>

\* A grant for a server that is no candidate any more, an outdated refusal.
IgnoreVoteReply(p) ==
  LET i == p.call.cand IN
  /\ VoteCallReturns(p)
  /\ \/ p.outcome = "granted" /\ status[i] # "CANDIDATE"
     \/ p.outcome = "denied" /\ p.term <= term[i]
  /\ UNCHANGED <<term, status, leader_id, num_votes, hbNet, history>>

\* The call raises RpcError: the loop retries while the server is still a
\* candidate of that term, else the thread ends.  Its request may linger.
VoteCallFails(c) ==
  /\ c \in vote_calls /\ failures < MaxFailures
  /\ failures' = failures + 1
  /\ vote_replies' = {p \in vote_replies : p.call # c}
  /\ IF status[c.cand] = "CANDIDATE" /\ term[c.cand] = c.term
     THEN vote_requests' = vote_requests \cup {c} /\ UNCHANGED vote_calls
     ELSE vote_calls' = vote_calls \ {c} /\ UNCHANGED vote_requests
  /\ UNCHANGED <<nodeVars, last_log, num_votes, elections, loop_alive, hbNet,
                 entryNet, history>>

-----------------------------------------------------------------------------
(* Voter side: the RequestVote handler, by its branches.                   *)

\* Request r is consumed; its caller, if it still waits, gets the reply.
AnswerVote(r, outcome, reply_term, leader) ==
  /\ r \in vote_requests
  /\ vote_requests' = vote_requests \ {r}
  /\ vote_replies' =
       IF r \in vote_calls
       THEN vote_replies \cup {[call |-> r, outcome |-> outcome,
                                term |-> reply_term, leaderId |-> leader]}
       ELSE vote_replies
  /\ UNCHANGED <<vote_calls, last_log, num_votes, elections, loop_alive, hbNet,
                 entryNet, failures, history>>

VotedAnEarlierOrThisTerm(v, r) == voted_for[v].term <= r.term \* mutant

\* The voter has given no vote in the term of request r.
NotYetVoted(v, r) == voted_for[v].term < r.term

VoteNamesTheCandidate(r) == r.cand \* mutant

\* update_leader('No leader'): a vote does not say who will win.
LeaderAfterVote(r) == Nobody

\* check_completeness_of_log grants: the voter no longer knows a leader.
VoteForNewerTerm(r) ==
  LET v == r.voter IN
  /\ r.term > term[v]
  /\ LogIsComplete(last_log[v], r.pos)
  /\ revert_to_follower(v, r.term, LeaderAfterVote(r))
  /\ cast_vote(v, r.term, r.cand)
  /\ AnswerVote(r, "granted", r.term, LeaderAfterVote(r))

\* The voter moves to the candidate's term and keeps its vote.
RefuseNewerTerm(r) ==
  LET v == r.voter IN
  /\ r.term > term[v]
  /\ ~LogIsComplete(last_log[v], r.pos)
  /\ revert_to_follower(v, r.term, Nobody)
  /\ AnswerVote(r, "denied", r.term, Nobody)
  /\ UNCHANGED voted_for

\* First vote in the voter's own term.  The status is left as it is.
VoteInSameTerm(r) ==
  LET v == r.voter IN
  /\ r.term = term[v] /\ NotYetVoted(v, r)
  /\ LogIsComplete(last_log[v], r.pos)
  /\ cast_vote(v, r.term, r.cand)
  /\ leader_id' = [leader_id EXCEPT ![v] = LeaderAfterVote(r)]
  /\ AnswerVote(r, "granted", r.term, LeaderAfterVote(r))
  /\ UNCHANGED <<term, status>>

\* The vote went to this candidate already: the handler falls off its end,
\* returns None, and the caller sees an RPC error.
RepeatedRequest(r) ==
  LET v == r.voter IN
  /\ r.term = term[v]
  /\ voted_for[v] = [term |-> r.term, server_id |-> r.cand]
  /\ AnswerVote(r, "error", 0, Nobody)
  /\ UNCHANGED nodeVars

\* An older term, a vote given to another, or a less complete log.
RefuseVote(r) ==
  LET v == r.voter IN
  /\ \/ r.term < term[v]
     \/ /\ r.term = term[v] /\ ~NotYetVoted(v, r)
        /\ voted_for[v] # [term |-> r.term, server_id |-> r.cand]
     \/ /\ r.term = term[v] /\ NotYetVoted(v, r)
        /\ ~LogIsComplete(last_log[v], r.pos)
  /\ AnswerVote(r, "denied", term[v], leader_id[v])
  /\ UNCHANGED nodeVars

RequestVote(r) ==
  \/ VoteForNewerTerm(r) \/ RefuseNewerTerm(r) \/ VoteInSameTerm(r)
  \/ RepeatedRequest(r) \/ RefuseVote(r)

-----------------------------------------------------------------------------
(* Heartbeats.                                                             *)

AnySenderIsCurrent(f, h) == TRUE \* mutant

\* The sender's term is not behind the follower's.
TermIsCurrent(f, h) == term[f] <= h.term

\* The Heartbeat handler; an older term is answered with the voter's own.
Heartbeat(h) ==
  LET f      == h.follower
      accept == TermIsCurrent(f, h)
  IN
  /\ h \in hb_requests
  /\ hb_requests' = hb_requests \ {h}
  /\ IF accept
     THEN revert_to_follower(f, h.term, h.leader)
     ELSE UNCHANGED <<status, term, leader_id>>
  /\ hb_replies' =
       IF h \in hb_calls
       THEN hb_replies \cup
              {[call |-> h, ok |-> accept, term |-> term'[f],
                leaderId |-> leader_id'[f]]}
       ELSE hb_replies
  /\ UNCHANGED <<voted_for, last_log, num_votes, elections, loop_alive, voteNet,
                 hb_calls, entryNet, failures, history>>

\* mutant: one heartbeat per election
HeartbeatOnce(h, stillLeads) == hb_calls' = hb_calls \ {h} /\ UNCHANGED hb_requests

\* The next iteration of the loop in sendHeartbeat, or its end.
HeartbeatAgain(h, stillLeads) ==
  IF stillLeads
  THEN hb_requests' = hb_requests \cup {h} /\ UNCHANGED hb_calls
  ELSE hb_calls' = hb_calls \ {h} /\ UNCHANGED hb_requests

LeadsIn(i, t) == status[i] = "LEADER" /\ term[i] = t

\* A rejection from a later term ends this leadership and the loop.
HeartbeatReturns(p) ==
  LET i     == p.call.leader
      stale == ~p.ok /\ p.term > term[i]
  IN
  /\ p \in hb_replies
  /\ hb_replies' = hb_replies \ {p}
  /\ IF stale
     THEN revert_to_follower(i, p.term, p.leaderId)
     ELSE UNCHANGED <<status, term, leader_id>>
  /\ HeartbeatAgain(p.call, ~stale /\ LeadsIn(i, p.call.term))
  /\ UNCHANGED <<voted_for, last_log, num_votes, elections, loop_alive, voteNet,
                 entryNet, failures, history>>

HeartbeatFails(h) ==
  /\ h \in hb_calls /\ failures < MaxFailures
  /\ failures' = failures + 1
  /\ hb_replies' = {p \in hb_replies : p.call # h}
  /\ HeartbeatAgain(h, LeadsIn(h.leader, h.term))
  /\ UNCHANGED <<nodeVars, last_log, num_votes, elections, loop_alive, voteNet,
                 entryNet, history>>

-----------------------------------------------------------------------------
(* The consensus layer, as far as it meets the election: it moves the end  *)
(* of the log, and update_term takes over the term of a REDIRECT.          *)

\* Entries are appended, overwritten or cleared.
LogMoves(i) == \E p \in LogPositions[i] : last_log' = [last_log EXCEPT ![i] = p]

LogChanges(i) ==
  /\ LogMoves(i)
  /\ UNCHANGED <<nodeVars, num_votes, elections, loop_alive, voteNet, hbNet,
                 entryNet, failures, history>>

\* Put looks at leader_id only.  handlePut appends the entry and starts one
\* broadcastEntry thread per peer.
HandlePut(i) ==
  /\ leader_id[i] = i
  /\ puts[i] < Puts[i]
  /\ puts' = [puts EXCEPT ![i] = @ + 1]
  /\ broadcasts' = broadcasts \cup
       {[leader |-> i, follower |-> j, put |-> puts[i], at |-> "between",
         term |-> 0] : j \in Peers(i)}
  /\ LogMoves(i)
  /\ UNCHANGED <<nodeVars, num_votes, elections, loop_alive, voteNet, hbNet,
                 failures, history>>

\* What a thread does next.
BroadcastIs(b, at, t) ==
  broadcasts' = (broadcasts \ {b}) \cup {[b EXCEPT !.at = at, !.term = t]}

\* create_log_entry_request reads the term as it is by then.
SendEntry(b) ==
  /\ b \in broadcasts /\ b.at = "between"
  /\ BroadcastIs(b, "calling", term[b.leader])
  /\ UNCHANGED <<nodeVars, last_log, num_votes, elections, loop_alive, voteNet,
                 hbNet, puts, failures, history>>

\* A follower in a later term answers REDIRECT with it.  Any other compares
\* entries, whereupon the thread goes on to another request or ends.
AppendEntries(b) ==
  LET f == b.follower IN
  /\ b \in broadcasts /\ b.at = "calling"
  /\ IF b.term < term[f]
     THEN BroadcastIs(b, "redirected", term[f]) /\ UNCHANGED last_log
     ELSE BroadcastIs(b, "between", 0) /\ LogMoves(f)
  /\ UNCHANGED <<nodeVars, num_votes, elections, loop_alive, voteNet, hbNet, puts,
                 failures, history>>

\* update_term takes over the reply's term, which was later than that of the
\* request, whatever the own term is by then.  update_status then raises, so
\* that status and leader_id stay as they are, and the thread dies.
UpdateTerm(b) ==
  LET i == b.leader IN
  /\ b \in broadcasts /\ b.at = "redirected"
  /\ term' = [term EXCEPT ![i] = b.term]
  /\ moved' = moved \cup {[server |-> i, from |-> term[i], to |-> b.term]}
  /\ broadcasts' = broadcasts \ {b}
  /\ UNCHANGED <<status, voted_for, leader_id, last_log, num_votes, elections,
                 loop_alive, voteNet, hbNet, puts, failures, counted, won>>

\* The thread ends: its entry is stored or out of reach; its last request on
\* the way forward was redirected, which nobody looks at; or its call fails.
BroadcastEnds(b) ==
  /\ b \in broadcasts
  /\ broadcasts' = broadcasts \ {b}
  /\ \/ b.at # "calling" /\ UNCHANGED failures
     \/ b.at # "between" /\ failures < MaxFailures /\ failures' = failures + 1
  /\ UNCHANGED <<nodeVars, last_log, num_votes, elections, loop_alive, voteNet,
                 hbNet, puts, history>>

ElectionStep ==
  \/ \E i \in Server : BeginElection(i) \/ FollowerLoopExits(i)
  \/ \E p \in vote_replies : CountVote(p) \/ LearnLaterTerm(p) \/ IgnoreVoteReply(p)
  \/ \E c \in vote_calls : VoteCallFails(c)
  \/ \E r \in vote_requests : RequestVote(r)
  \/ \E h \in hb_requests : Heartbeat(h)
  \/ \E p \in hb_replies : HeartbeatReturns(p)
  \/ \E h \in hb_calls : HeartbeatFails(h)

ConsensusStep ==
  \/ \E i \in Server : LogChanges(i) \/ HandlePut(i)
  \/ \E b \in broadcasts : \/ SendEntry(b) \/ AppendEntries(b)
                           \/ UpdateTerm(b) \/ BroadcastEnds(b)

Next == ElectionStep \/ ConsensusStep

Spec == Init /\ [][Next]_vars

\* Every request in flight is handled and every reply in flight arrives,
\* unless its call fails first, which happens at most MaxFailures times.
HeartbeatFairness ==
  \A i \in Server : \A j \in Peers(i) : \A t \in Campaigns[i] :
    LET h == [leader |-> i, follower |-> j, term |-> t]
    IN /\ WF_vars(Heartbeat(h))
       /\ WF_vars(\E p \in hb_replies : p.call = h /\ HeartbeatReturns(p))

FairSpec == Spec /\ HeartbeatFairness

-----------------------------------------------------------------------------
(* Properties.                                                             *)

\* Types; an election never counts more votes than it needs.
TypeOK ==
  /\ term \in [Server -> Nat]
  /\ status \in [Server -> Status]
  /\ voted_for \in [Server -> [term : Nat, server_id : Server \cup {Nobody}]]
  /\ leader_id \in [Server -> Server \cup {Nobody}]
  /\ last_log \in [Server -> Position]
  /\ num_votes \in [Server -> Nat]
  /\ \A i \in Server : num_votes[i] <= Majority
  /\ elections \in [Server -> Nat]
  /\ loop_alive \in [Server -> BOOLEAN]
  /\ vote_calls \subseteq VoteCall /\ vote_requests \subseteq VoteCall
  /\ vote_replies \subseteq VoteReply
  /\ hb_calls \subseteq HbCall /\ hb_requests \subseteq HbCall
  /\ hb_replies \subseteq HbReply
  /\ puts \in [Server -> Nat]
  /\ broadcasts \subseteq Broadcast
  /\ failures \in Nat
  /\ counted \in [Server -> SUBSET Vote]
  /\ won \subseteq [leader : Server, term : Nat, votes : SUBSET Vote]
  /\ moved \subseteq [server : Server, from : Nat, to : Nat]

\* "If we are candidate for this term or leader, we would have already voted
\* for ourself" (comment in RequestVote): what would make it right that the
\* handler grants a vote in its own term without stepping down.  update_term
\* breaks it: it puts a leader into a term in which it has not voted.
CandidateVotedForSelf ==
  \A i \in Server : status[i] # "FOLLOWER" =>
    voted_for[i] = [term |-> term[i], server_id |-> i]

\* update_term has taken server i from term t or a later one to an earlier one.
TakenBack(i, t) == \E m \in moved : m.server = i /\ m.to < t /\ t <= m.from

\* An election won with votes of its own term only.
Proper(w) == \A v \in w.votes : v.term = w.term

\* Two servers win one term with votes of that term only if update_term has
\* taken one of the voters back over it.  This is about elections in which the
\* handlers of a server run one at a time (Node shows what they do otherwise);
\* and two servers may lead one term without both having won it properly, by a
\* vote that was granted for an earlier term or by an update_term that moves a
\* leader.
OneProperWinnerPerTerm ==
  \A a, b \in won :
    Proper(a) /\ Proper(b) /\ a.term = b.term =>
      \/ a.leader = b.leader
      \/ \E v \in a.votes \cup b.votes : TakenBack(v.voter, a.term)

\* README: "testing that you don't have two leaders anytime", read as in
\* Raft: never two leaders of one term.  A late vote reply breaks it.
OneLeaderPerTerm ==
  \A i, j \in Server :
    status[i] = "LEADER" /\ status[j] = "LEADER" /\ term[i] = term[j] => i = j

\* A client is redirected only to a server that has won an election.
RedirectNamesAWinner ==
  \A i \in Server : leader_id[i] # Nobody =>
    \E w \in won : w.leader = leader_id[i]

\* A server that takes itself for the leader leads: Get and Put ask leader_id
\* only.  A rejected heartbeat may hand the deposed leader its own id back.
OwnIdMeansLeader ==
  \A i \in Server : leader_id[i] = i => status[i] = "LEADER"

\* A thread of server i takes over the term of its REDIRECT in this step.
TakesRedirect(i) ==
  \E b \in broadcasts : /\ b.leader = i /\ b.at = "redirected"
                        /\ b \notin broadcasts' /\ term'[i] = b.term

\* "If it receives an append entry response with higher term, it will revert
\* to follower" (comment in broadcastEntry): a server moves to later terms.
\* update_term compares with nothing, and may take it back; no other step does,
\* although revert_to_follower and cast_vote would: their callers compare first.
TermGoesBackOnlyByRedirect ==
  [][\A i \in Server : term'[i] >= term[i] \/ TakesRedirect(i)]_vars

\* A vote once given in a term is never given to another candidate of it,
\* unless update_term has taken the voter back over that term.
VoteIsFinal ==
  [][\A i \in Server : voted_for'[i] # voted_for[i] =>
       \/ voted_for'[i].term > voted_for[i].term
       \/ TakenBack(i, voted_for'[i].term)]_vars

\* A leader that some server has overtaken steps down: its heartbeats are
\* rejected with the later term.  This fails where update_term has taken the
\* other server back meanwhile, or has moved the leader to a term for which it
\* sends no heartbeats.
StaleLeaderStepsDown ==
  \A i \in Server : \A j \in Peers(i) : \A t \in Campaigns[i] :
    (LeadsIn(i, t) /\ term[j] > t) ~>
      \/ ~LeadsIn(i, t)
      \/ term[j] <= t
      \/ \E m \in moved : m.server = i /\ m.to = t
=============================================================================
