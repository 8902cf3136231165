---------------------------- MODULE Replication ----------------------------
(***************************************************************************)
(* Log replication: raft/consensus.py (class Consensus) over the logs of   *)
(* RaftLog, with the Put and Get handlers of server.py in front of it.     *)
(*                                                                         *)
(* handlePut appends to its own log and starts one broadcastEntry thread   *)
(* per peer; it waits until all of them are over, then for a majority of   *)
(* acknowledgements, commits, and waits until its entry is applied.  A     *)
(* thread calls AppendEntries, stepping back through the log while the     *)
(* follower rejects, then forward again to the entry it has to deliver.    *)
(* Handlers are atomic; a request in flight is handled at any later time,  *)
(* a call may fail while its request is still in flight.                   *)
(*                                                                         *)
(* Of the election, module Election has the details.  Here a vote is       *)
(* asked for, given and counted in one step, and so is a heartbeat.        *)
(***************************************************************************)
EXTENDS RaftLog, FiniteSets, Functions

CONSTANTS
  Server,      \* the servers of the cluster: SERVERID and PEERS
  Nobody,      \* "no server": None, '' and 'No leader' in the code
  Setups,      \* initial states: term and leader of an election just held,
               \* the logs that it found, the requests clients will make
  Campaigns,   \* bound: the terms in which server i begins an election
  Retried,     \* bound: the requests that are put up to twice, the others once
  MaxFailures, \* bound: how many calls may fail
  Lingering    \* bound: the indexes whose requests may outlive a failed call

ASSUME ServerAssumption ==
  /\ IsFiniteSet(Server)
  /\ Nobody \notin Server

ASSUME BoundAssumption ==
  /\ Campaigns \in [Server -> SUBSET Nat]
  /\ Retried \subseteq Command /\ MaxFailures \in Nat
  /\ Lingering \subseteq Nat

\* A client gives its requests different numbers.
ASSUME RequestAssumption ==
  \A c, d \in Command : c.client = d.client /\ c.seq = d.seq => c = d

\* An election was just held: the logs are well-formed, no two of them have different
\* commands of one term at one index, and what there is of the winner's term, the
\* winner has put.
Plausible(s) ==
  /\ s.term \in Nat /\ s.leader \in Server /\ s.todo \subseteq Command
  /\ DOMAIN s.log = Server
  /\ \A i \in Server : LogOK(s.log[i])
  /\ \A i, j \in Server : \A k \in 0..s.log[i].log_idx \cap 0..s.log[j].log_idx :
       s.log[i].entries[k].term = s.log[j].entries[k].term =>
         s.log[i].entries[k].cmd = s.log[j].entries[k].cmd
  /\ \A i \in Server : \A k \in 0..s.log[i].log_idx :
       /\ s.log[i].entries[k].term <= s.term
       /\ s.log[i].entries[k].term = s.term => k <= s.log[s.leader].log_idx

ASSUME SetupAssumption == \A s \in Setups : Plausible(s)

VARIABLES
  term,        \* Log.term
  status,      \* Log.status
  voted_for,   \* Log.voted_for
  leader_id,   \* Log.leader_id
  election,    \* the term of the last election of server i, and its voters
  log,         \* the rest of Log, and its database
  puts,        \* handlePut calls, the ended ones included
  counters,    \* Consensus.counter and majority_counter, dicts with equal keys
  ready_to_commit, \* Consensus.ready_to_commit
  threads,     \* broadcastEntry threads
  requests,    \* AppendEntries requests in flight
  todo,        \* the requests that clients have yet to make
  failures,    \* how many calls have failed, for the bound only
  won,         \* history: the terms that were won
  reign,       \* history: the term that server i was the first to win, if its
               \* log was changed by its own puts only since then, else -1
  disputed     \* history: the terms in which a server took puts without reigning

electionVars == <<voted_for, election>>
nodeVars     == <<term, status, leader_id>>
dictVars     == <<counters, ready_to_commit>>
historyVars  == <<won, reign, disputed>>
vars == <<electionVars, nodeVars, dictVars, log, puts, threads, requests, todo,
          failures, historyVars>>

Peers(s) == Server \ {s}
Majority == (Cardinality(Server) \div 2) + 1

Put == [server : Server, cmd : Command, idx : Int, acks : SUBSET Server,
        pc : {"waiting", "applying", "ok", "rejected", "error"},
        awaited : BOOLEAN]

\* A thread that serves put (server, cmd, idx): it calls, or has the reply
\* of, AppendEntries for the entry after prev.
Thread == [server : Server, cmd : Command, idx : Nat, to : Server, prev : Int,
           forward : BOOLEAN, reply_term : Nat,
           pc : {"new", "calling", "OK", "REJECT", "REDIRECT"}]

Request == [server : Server, cmd : Command, idx : Nat, to : Server,
            prev_log_index : Int, prev_term : Int,
            term : Nat, entry : Command,
            lastCommitIndex : Int, current_term : Nat]

-----------------------------------------------------------------------------
Init ==
  \E s \in Setups :
    /\ term = [i \in Server |-> s.term]
    /\ status = [i \in Server |-> IF i = s.leader THEN "LEADER" ELSE "FOLLOWER"]
    /\ voted_for = [i \in Server |-> [term |-> s.term, server_id |-> s.leader]]
    /\ leader_id = [i \in Server |-> s.leader]
    /\ election = [i \in Server |-> [term |-> s.term, votes |-> {}]]
    /\ log = s.log
    /\ todo = s.todo
    /\ counters = [i \in Server |-> [c \in {} |-> 0]]
    /\ ready_to_commit = [i \in Server |-> [c \in {} |-> FALSE]]
    /\ puts = {} /\ threads = {} /\ requests = {}
    /\ failures = 0
    /\ won = 0..s.term /\ disputed = {}
    /\ reign = [i \in Server |-> IF i = s.leader THEN s.term ELSE -1]

\* The server has won the election of its current term.
Elected(s) ==
  status[s] = "LEADER" /\ term[s] = election[s].term

-----------------------------------------------------------------------------
(* Put and Get requests of clients.                                        *)

Pending(p) == p.pc \in {"waiting", "applying"}

\* A client makes one request at a time, in the order of its numbers, and makes
\* it again (bound: if it is in Retried) when the first try has failed.
IsNext(cmd) ==
  /\ cmd \in todo
  /\ \A c \in todo : c.client = cmd.client => c.seq >= cmd.seq
  /\ Cardinality({p \in puts : p.cmd = cmd}) <= IF cmd \in Retried THEN 1 ELSE 0
  /\ \A p \in puts : Pending(p) /\ p.awaited => p.cmd.client # cmd.client

\* mutant: any request of the client counts as this one
KnownClient(s, cmd) == get_last_committed_sequence_for(log[s], cmd.client) # -1

\* The client's last applied request is this one; an older one is not known.
AlreadyExecuted(s, cmd) ==
  get_last_committed_sequence_for(log[s], cmd.client) = cmd.seq

NewPut(s, cmd, index, pc) ==
  [server |-> s, cmd |-> cmd, idx |-> index, acks |-> {}, pc |-> pc,
   awaited |-> TRUE]

NewThread(s, cmd, index, f) ==
  [server |-> s, cmd |-> cmd, idx |-> index, to |-> f, prev |-> index - 1,
   forward |-> FALSE, reply_term |-> 0, pc |-> "new"]

\* A server that names itself the leader appends the entry to its own log,
\* and starts the threads.  It does not look at its status, nor whether another
\* handler has the same request, whose counters it resets.
HandlePut(s, cmd) ==
  /\ IsNext(cmd) /\ leader_id[s] = s
  /\ ~AlreadyExecuted(s, cmd)
  /\ todo' = todo \ {cmd}
  /\ log' = [log EXCEPT ![s] = append(@, term[s], cmd)]
  /\ puts' = puts \cup {NewPut(s, cmd, log'[s].log_idx, "waiting")}
  /\ threads' = threads \cup
       {NewThread(s, cmd, log'[s].log_idx, f) : f \in Peers(s)}
  /\ counters' = [counters EXCEPT
                    ![s] = Stored(@, cmd, [reached |-> 0, majority |-> 0])]
  /\ ready_to_commit' = [ready_to_commit EXCEPT ![s] = Stored(@, cmd, FALSE)]
  /\ disputed' = IF reign[s] = term[s] THEN disputed ELSE disputed \cup {term[s]}
  /\ UNCHANGED <<electionVars, nodeVars, requests, failures, won, reign>>

\* A retry of the client's last applied request is answered at once.
RepeatPut(s, cmd) ==
  /\ IsNext(cmd) /\ leader_id[s] = s
  /\ AlreadyExecuted(s, cmd)
  /\ todo' = todo \ {cmd}
  /\ puts' = puts \cup {NewPut(s, cmd, -1, "ok")}
  /\ UNCHANGED <<electionVars, nodeVars, dictVars, log, threads, requests,
                 failures, historyVars>>

\* What a client reads: the state machine of a server that names itself.
Get(s, key) == log[s].db[key]

Without(dict, key) == Restrict(dict, DOMAIN dict \ {key})

ThreadsOf(p) ==
  {t \in threads : t.server = p.server /\ t.cmd = p.cmd /\ t.idx = p.idx}

\* A client that is turned away, and still there, will try again.
TryAgain(p) == todo' = IF p.awaited THEN todo \cup {p.cmd} ELSE todo

Becomes(p, pc) == puts' = (puts \ {p}) \cup {[p EXCEPT !.pc = pc]}

\* The executor has waited for every thread.
Broadcast(p) == p \in puts /\ p.pc = "waiting" /\ ThreadsOf(p) = {}

\* The handler has an entry in the dict: else there is a KeyError.
HasFlag(p) == p.cmd \in DOMAIN ready_to_commit[p.server]

\* A leader with a majority commits; if its log has been cut short meanwhile,
\* that is a KeyError.
Commit(p) ==
  /\ Broadcast(p) /\ HasFlag(p)
  /\ status[p.server] = "LEADER" /\ ready_to_commit[p.server][p.cmd]
  /\ ready_to_commit' = [ready_to_commit EXCEPT ![p.server] = Without(@, p.cmd)]
  /\ IF p.idx <= log[p.server].log_idx
     THEN /\ log' = [log EXCEPT ![p.server] = commit(@, p.idx)]
          /\ Becomes(p, "applying") /\ UNCHANGED todo
     ELSE /\ Becomes(p, "error") /\ TryAgain(p) /\ UNCHANGED log
  /\ UNCHANGED <<electionVars, nodeVars, counters, threads, requests, failures,
                 historyVars>>

\* Another handler of the same request has committed: its flag is gone, and
\* this handler raises a KeyError.  Its entry stays as it is.
FindNoFlag(p) ==
  /\ Broadcast(p) /\ ~HasFlag(p)
  /\ Becomes(p, "error")
  /\ TryAgain(p)
  /\ UNCHANGED <<electionVars, nodeVars, dictVars, log, threads, requests,
                 failures, historyVars>>

\* Put is answered OK when the apply thread has passed its index.
AnswerOk(p) ==
  /\ p \in puts /\ p.pc = "applying"
  /\ is_applied(log[p.server], p.idx)
  /\ Becomes(p, "ok")
  /\ UNCHANGED <<electionVars, nodeVars, dictVars, log, threads, requests, todo,
                 failures, historyVars>>

\* A server that leads no more redirects the client, which tries again.
AnswerRedirect(p) ==
  /\ Broadcast(p) /\ HasFlag(p)
  /\ status[p.server] # "LEADER"
  /\ Becomes(p, "rejected")
  /\ TryAgain(p)
  /\ UNCHANGED <<electionVars, nodeVars, dictVars, log, threads, requests,
                 failures, historyVars>>

HandlerGoesOn(p) ==
  Commit(p) \/ FindNoFlag(p) \/ AnswerOk(p) \/ AnswerRedirect(p)

\* The client's connection breaks: it turns to the next server, with the same
\* request.  The handler goes on.  (Bound: only where the request is put again.)
ConnectionBreaks(p) ==
  /\ p \in puts /\ Pending(p) /\ p.awaited /\ p.cmd \in Retried
  /\ failures < MaxFailures
  /\ failures' = failures + 1
  /\ puts' = (puts \ {p}) \cup {[p EXCEPT !.awaited = FALSE]}
  /\ todo' = todo \cup {p.cmd}
  /\ UNCHANGED <<electionVars, nodeVars, dictVars, log, threads, requests, historyVars>>

\* One round of the apply thread.
Apply(s) ==
  /\ log[s].last_applied_idx < log[s].last_commit_idx
  /\ log' = [log EXCEPT ![s] = apply(@)]
  /\ UNCHANGED <<electionVars, nodeVars, dictVars, puts, threads, requests, todo,
                 failures, historyVars>>

-----------------------------------------------------------------------------
(* The broadcastEntry thread.                                              *)

PrevTerm(l, prev) == IF prev = -1 THEN -1 ELSE l.entries[prev].term

\* create_log_entry_request: the entry after prev, as the log has it now, and
\* the term that the server is in now.
create_log_entry_request(t) ==
  LET l == log[t.server]
  IN [server |-> t.server, cmd |-> t.cmd, idx |-> t.idx, to |-> t.to,
      prev_log_index |-> t.prev, prev_term |-> PrevTerm(l, t.prev),
      term |-> l.entries[t.prev + 1].term, entry |-> l.entries[t.prev + 1].cmd,
      lastCommitIndex |-> l.last_commit_idx, current_term |-> term[t.server]]

ThreadEnds(t) == threads' = threads \ {t} /\ UNCHANGED requests

\* Thread t goes on as u with a call; a KeyError, when the server's log has
\* been cut short meanwhile, ends it.
Call(t, u) ==
  IF u.prev + 1 <= log[u.server].log_idx
  THEN /\ threads' = (threads \ {t}) \cup {[u EXCEPT !.pc = "calling"]}
       /\ requests' = requests \cup {create_log_entry_request(u)}
  ELSE ThreadEnds(t)

FirstCall(t) ==
  /\ t.pc = "new"
  /\ Call(t, t)
  /\ UNCHANGED <<nodeVars, dictVars, log, puts, failures>>

AtOwnEntry(t) == t.prev = t.idx - 1

EveryPeer(votes_for, s) == votes_for = Cardinality(Peers(s)) \* mutant

\* majority_counter[key] >= len(peers) / 2
IsMajority(votes_for, s) == 2 * votes_for >= Cardinality(Peers(s))

\* The thread is over: it counts its peer as reached, and the last one removes
\* both counters.  If they are gone, it ends with a KeyError instead.
Reached(t, gained) ==
  LET s == t.server
      c == counters[s][t.cmd]
  IN IF t.cmd \notin DOMAIN counters[s] THEN UNCHANGED counters
     ELSE counters' = [counters EXCEPT ![s] =
            IF c.reached + 1 = Cardinality(Peers(s)) THEN Without(@, t.cmd)
            ELSE [@ EXCEPT ![t.cmd] = [reached |-> c.reached + 1,
                                       majority |-> c.majority + gained]]]

\* The follower has the entry: it counts for the majority of the request,
\* whichever handler of the request the thread belongs to.
Acknowledged(t) ==
  LET s     == t.server
      known == t.cmd \in DOMAIN counters[s] \cap DOMAIN ready_to_commit[s]
  IN /\ t.pc = "OK" /\ AtOwnEntry(t)
     /\ puts' = {IF t \in ThreadsOf(p) THEN [p EXCEPT !.acks = @ \cup {t.to}] ELSE p :
                   p \in puts}
     /\ IF known /\ IsMajority(counters[s][t.cmd].majority + 1, s)
        THEN ready_to_commit' = [ready_to_commit EXCEPT ![s][t.cmd] = TRUE]
        ELSE UNCHANGED ready_to_commit
     /\ Reached(t, 1)
     /\ ThreadEnds(t)
     /\ UNCHANGED <<nodeVars, log, failures>>

StepBack(t) ==
  /\ t.pc = "REJECT" /\ ~t.forward
  /\ Call(t, [t EXCEPT !.prev = @ - 1])
  /\ UNCHANGED <<nodeVars, dictVars, log, puts, failures>>

\* A rejection on the way forward is not handled: but for the last step the
\* loop spins, and the thread never ends.
StepForward(t) ==
  /\ t.pc = "OK" /\ ~AtOwnEntry(t)
  /\ Call(t, [t EXCEPT !.prev = @ + 1, !.forward = TRUE])
  /\ UNCHANGED <<nodeVars, dictVars, log, puts, failures>>

\* A follower in a later term: update_term, and an exception in update_status
\* (a string plus an integer), so the server goes on leading, in that term.
LearnLaterTerm(t) ==
  /\ t.pc = "REDIRECT" /\ ~(t.forward /\ AtOwnEntry(t))
  /\ term' = [term EXCEPT ![t.server] = t.reply_term]
  /\ ThreadEnds(t)
  /\ UNCHANGED <<status, leader_id, dictVars, log, puts, failures>>

\* The last call on the way forward is not accepted.
NotAcknowledged(t) ==
  /\ t.pc \in {"REJECT", "REDIRECT"} /\ t.forward /\ AtOwnEntry(t)
  /\ Reached(t, 0)
  /\ ThreadEnds(t)
  /\ UNCHANGED <<nodeVars, ready_to_commit, log, puts, failures>>

\* Request r is the one that thread t waits on.
Serves(r, t) ==
  /\ t.pc = "calling" /\ t.server = r.server /\ t.cmd = r.cmd
  /\ t.idx = r.idx /\ t.to = r.to /\ t.prev = r.prev_log_index

\* The call raises RpcError (no deadline is set, so none is exceeded): the
\* thread ends.  A request in flight may still be handled.
CallFails(t) ==
  /\ t.pc \in {"calling", "OK", "REJECT", "REDIRECT"}
  /\ failures < MaxFailures
  /\ failures' = failures + 1
  /\ Reached(t, 0)
  /\ threads' = threads \ {t}
  /\ requests' = {r \in requests : Serves(r, t) => r.prev_log_index + 1 \in Lingering}
  /\ UNCHANGED <<nodeVars, ready_to_commit, log, puts>>

broadcastEntry(t) ==
  /\ \/ FirstCall(t) \/ Acknowledged(t) \/ StepBack(t) \/ StepForward(t)
     \/ LearnLaterTerm(t) \/ NotAcknowledged(t)
  /\ UNCHANGED <<electionVars, todo, historyVars>>

-----------------------------------------------------------------------------
(* The AppendEntries handler, by its branches.                             *)

\* The reply goes to the thread that waits for it, if it still does.
Reply(r, code) ==
  /\ requests' = requests \ {r}
  /\ threads' =
       {IF Serves(r, t) THEN [t EXCEPT !.pc = code, !.reply_term = term[r.to]]
        ELSE t : t \in threads}
  /\ UNCHANGED <<electionVars, nodeVars, dictVars, puts, todo, failures, won, disputed>>

\* Another server's request changes the log of server f.
LogBecomes(f, l) ==
  /\ log' = [log EXCEPT ![f] = l]
  /\ reign' = [reign EXCEPT ![f] = -1]

SenderIsOutdated(r) == r.current_term < term[r.to]

LongEnough(r) == log[r.to].log_idx >= r.prev_log_index \* mutant

\* The follower has an entry of the same term at prev_log_index.
PreviousMatches(r) ==
  /\ log[r.to].log_idx >= r.prev_log_index
  /\ log[r.to].entries[r.prev_log_index].term = r.prev_term

SendersTerm(r) == r.current_term \* mutant

\* An entry keeps the term in which a leader took it.
EntryTerm(r) == r.term

\* The sender's term is behind.
RefuseOutdated(r) ==
  /\ SenderIsOutdated(r)
  /\ Reply(r, "REDIRECT")
  /\ UNCHANGED <<log, reign>>

\* The first entry: the follower's log and database are cleared.
StartAnew(r) ==
  /\ ~SenderIsOutdated(r) /\ r.prev_log_index = -1
  /\ LogBecomes(r.to, append(clear(log[r.to]), EntryTerm(r), r.entry))
  /\ Reply(r, "OK")

CommitAll(r, inserted) == r.lastCommitIndex \* mutant

\* min(request.lastCommitIndex, index_from_insert_at)
CommitIndex(r, inserted) ==
  IF r.lastCommitIndex < inserted THEN r.lastCommitIndex ELSE inserted

\* The entry follows one that both have; later ones stay.
InsertEntry(r) ==
  LET index == r.prev_log_index + 1 IN
  /\ ~SenderIsOutdated(r) /\ r.prev_log_index # -1
  /\ PreviousMatches(r)
  /\ LogBecomes(r.to, commit_upto(insert_at(log[r.to], index, EntryTerm(r), r.entry),
                                  CommitIndex(r, InsertedAt(log[r.to], index))))
  /\ Reply(r, "OK")

\* The leader will try an earlier entry.
RejectMismatch(r) ==
  /\ ~SenderIsOutdated(r) /\ r.prev_log_index # -1
  /\ ~PreviousMatches(r)
  /\ Reply(r, "REJECT")
  /\ UNCHANGED <<log, reign>>

AppendEntries(r) ==
  /\ r \in requests
  /\ RefuseOutdated(r) \/ StartAnew(r) \/ InsertEntry(r) \/ RejectMismatch(r)

-----------------------------------------------------------------------------
(* Elections and heartbeats, in outline.                                   *)

\* begin_election
Campaign(i) ==
  /\ status[i] # "LEADER" /\ term[i] + 1 \in Campaigns[i]
  /\ term' = [term EXCEPT ![i] = @ + 1]
  /\ status' = [status EXCEPT ![i] = "CANDIDATE"]
  /\ voted_for' = [voted_for EXCEPT ![i] = [term |-> term[i] + 1, server_id |-> i]]
  /\ election' = [election EXCEPT ![i] = [term |-> term[i] + 1, votes |-> {i}]]
  /\ UNCHANGED <<leader_id, dictVars, log, puts, threads, requests, todo, failures,
                 historyVars>>

LogIsComplete(voter, cand) ==
  \/ LastTerm(voter) < LastTerm(cand)
  \/ LastTerm(voter) = LastTerm(cand) /\ voter.log_idx <= cand.log_idx

\* Server i asks for votes: while it stands, in the term of its election.
Asks(i) == status[i] = "CANDIDATE" /\ term[i] = election[i].term

\* Only in its own term does a server look at its vote.
MayVote(j, in_term) ==
  \/ term[j] < in_term
  \/ term[j] = in_term /\ voted_for[j].term < in_term

\* RequestVote at j grants, and update_votes counts; a vote in j's own term
\* leaves its status alone.
Vote(j, i) ==
  LET voters == election[i].votes \cup {j}
      wins   == Cardinality(voters) >= Majority
  IN
  /\ i # j /\ Asks(i) /\ MayVote(j, term[i])
  /\ LogIsComplete(log[j], log[i])
  /\ election' = [election EXCEPT ![i].votes = voters]
  /\ voted_for' = [voted_for EXCEPT ![j] = [term |-> term[i], server_id |-> i]]
  /\ term' = [term EXCEPT ![j] = term[i]]
  /\ status' = [status EXCEPT ![i] = IF wins THEN "LEADER" ELSE @,
                              ![j] = IF term[j] < term[i] THEN "FOLLOWER" ELSE @]
  /\ leader_id' = [leader_id EXCEPT ![i] = IF wins THEN i ELSE @, ![j] = Nobody]
  /\ IF wins
     THEN /\ won' = won \cup {term[i]}
          /\ reign' = [reign EXCEPT ![i] = IF term[i] \in won THEN -1 ELSE term[i]]
     ELSE UNCHANGED <<won, reign>>
  /\ UNCHANGED <<dictVars, log, puts, threads, requests, todo, failures, disputed>>

\* Server at takes over the term of from, as a follower of that leader.
RevertToFollower(at, from, leader) ==
  /\ term' = [term EXCEPT ![at] = term[from]]
  /\ status' = [status EXCEPT ![at] = "FOLLOWER"]
  /\ leader_id' = [leader_id EXCEPT ![at] = leader]
  /\ UNCHANGED <<electionVars, dictVars, log, puts, threads, requests, todo,
                 failures, historyVars>>

\* RequestVote at j refuses: an outdated candidate takes over j's term, or j
\* the term of a candidate whose log is less complete.
RefuseVote(j, i) ==
  /\ i # j /\ Asks(i)
  /\ \/ term[j] > term[i] /\ RevertToFollower(i, j, leader_id[j])
     \/ /\ term[j] < term[i] /\ ~LogIsComplete(log[j], log[i])
        /\ RevertToFollower(j, i, Nobody)

\* A heartbeat of i, sent while it leads in the term it has won, accepted by j
\* or answered with j's later term.
Heartbeat(i, j) ==
  /\ i # j /\ Elected(i)
  /\ IF term[j] <= term[i]
     THEN RevertToFollower(j, i, i)
     ELSE RevertToFollower(i, j, leader_id[j])

-----------------------------------------------------------------------------
Next ==
  \/ \E s \in Server, cmd \in todo : HandlePut(s, cmd) \/ RepeatPut(s, cmd)
  \/ \E p \in puts : HandlerGoesOn(p) \/ ConnectionBreaks(p)
  \/ \E s \in Server : Apply(s)
  \/ \E t \in threads : broadcastEntry(t)
  \/ \E t \in threads : CallFails(t) /\ UNCHANGED <<electionVars, todo, historyVars>>
  \/ \E r \in requests : AppendEntries(r)
  \/ \E i \in Server : Campaign(i)
  \/ \E i, j \in Server : Vote(j, i) \/ RefuseVote(j, i) \/ Heartbeat(i, j)

Spec == Init /\ [][Next]_vars

\* The servers' threads run, requests and replies arrive, unless the call fails.
Progress ==
  \A s \in Server :
    /\ WF_vars(\E t \in threads : t.server = s /\ broadcastEntry(t))
    /\ WF_vars(\E r \in requests : r.to = s /\ AppendEntries(r))
    /\ WF_vars(\E p \in puts : p.server = s /\ HandlerGoesOn(p))
    /\ WF_vars(Apply(s))

FairSpec == Spec /\ Progress

-----------------------------------------------------------------------------
(* Properties.                                                             *)

ServersOK ==
  /\ term \in [Server -> Nat]
  /\ status \in [Server -> {"CANDIDATE", "FOLLOWER", "LEADER"}]
  /\ voted_for \in [Server -> [term : Nat, server_id : Server \cup {Nobody}]]
  /\ leader_id \in [Server -> Server \cup {Nobody}]
  /\ election \in [Server -> [term : Nat, votes : SUBSET Server]]

LogsOK == DOMAIN log = Server /\ \A i \in Server : LogOK(log[i])

DictsOK ==
  /\ DOMAIN counters = Server /\ DOMAIN ready_to_commit = Server
  /\ \A i \in Server :
       /\ counters[i] \in [DOMAIN counters[i] -> [reached : Nat, majority : Nat]]
       /\ ready_to_commit[i] \in [DOMAIN ready_to_commit[i] -> BOOLEAN]
       /\ DOMAIN counters[i] \cup DOMAIN ready_to_commit[i] \subseteq Command

HandlersOK ==
  /\ puts \subseteq Put /\ threads \subseteq Thread /\ requests \subseteq Request
  /\ todo \subseteq Command
  /\ failures \in Nat

HistoryOK ==
  /\ won \subseteq Nat /\ disputed \subseteq Nat
  /\ reign \in [Server -> Nat \cup {-1}]

\* Types; the entries of a log are those from 0 to log_idx, and applied entries
\* are committed, committed ones there.
TypeOK == ServersOK /\ LogsOK /\ DictsOK /\ HandlersOK /\ HistoryOK

\* The setups of the theorems about one leader: all servers have the first entry, a
\* log that has an entry in common with the leader's has what precedes it in common,
\* the leader has what anybody has committed, as has a majority, the databases are
\* what the applied entries make of them, and the leader has applied the requests
\* that it knows the clients by.
Settled(s) ==
  LET l == s.log[s.leader]
      MajorityAgrees(k) ==
        Cardinality({i \in Server : AgreeUpTo(l, s.log[i], k)}) >= Majority
  IN
  /\ \A i \in Server :
       LET m == s.log[i]
       IN /\ AgreeUpTo(l, m, 0)
          /\ \A k \in 0..l.log_idx \cap 0..m.log_idx :
               l.entries[k].term = m.entries[k].term => AgreeUpTo(l, m, k)
          /\ AgreeUpTo(l, m, m.last_commit_idx)
          /\ MajorityAgrees(m.last_commit_idx)
  /\ \A k \in 0..l.log_idx : l.entries[k].commit_done => MajorityAgrees(k)
  /\ \A i \in Server : ShowsApplied(s.log[i])
  /\ KnowsApplied(l)

OneLeaderOnly ==
  /\ \A i \in Server : Campaigns[i] = {}
  /\ \A s \in Setups : Settled(s)

Holds(i, k, e) ==
  /\ k <= log[i].log_idx
  /\ log[i].entries[k].term = e.term /\ log[i].entries[k].cmd = e.cmd

\* README "Test durability: kill leader node (all 3 one after the other) and
\* try get": what a server has committed, a majority has in its log.
CommittedOnMajority ==
  \A i \in Server : \A k \in 0..log[i].last_commit_idx :
    Cardinality({j \in Server : Holds(j, k, log[i].entries[k])}) >= Majority

\* A follower that a pending put counts agrees with the leader in everything
\* up to the entry: what stepping back and forth through the log is for.
CountedFollowersAgree ==
  \A p \in puts : \A f \in p.acks :
    Pending(p) => AgreeUpTo(log[p.server], log[f], p.idx)

\* Two servers agree on what both have committed.
CommittedAgree ==
  \A i, j \in Server :
    AgreeUpTo(log[i], log[j],
              IF log[i].last_commit_idx < log[j].last_commit_idx
              THEN log[i].last_commit_idx ELSE log[j].last_commit_idx)

\* A put answered OK is seen by every later Get at that server: the value
\* that Get returns is from its index or a later one.
GetSeesAcknowledged ==
  \A p \in puts : p.pc = "ok" /\ p.idx # -1 =>
    \E k \in p.idx..log[p.server].last_applied_idx :
      Get(p.server, p.cmd.key) = log[p.server].entries[k].cmd

\* Two servers hold different commands of one term at one index only if a server
\* took puts in that term whose term it was not: a leader that learned the term
\* from a follower, a follower that was handed its own id, the second winner of a
\* term that went back, or a winner whose log another leader has changed.
OneEntryPerTermAndIndex ==
  \A i, j \in Server : \A k \in DOMAIN log[i].entries \cap DOMAIN log[j].entries :
    LET a == log[i].entries[k]
        b == log[j].entries[k]
    IN a.term = b.term /\ a.term \notin disputed => a.cmd = b.cmd

\* A server that has applied as much as any.
Foremost == CHOOSE s \in Server :
  \A i \in Server : log[i].last_applied_idx <= log[s].last_applied_idx

Leader == CHOOSE s \in Server : status[s] = "LEADER"

\* How often a command was put, or is in the leader's log without a put.
Tries(c) ==
  LET l == log[Leader]
  IN Cardinality({p \in puts : p.cmd = c /\ p.idx # -1})
     + Cardinality({k \in 0..l.log_idx :
                      l.entries[k].cmd = c /\ ~\E p \in puts : p.idx = k})

Applied(l) == [k \in 1..l.last_applied_idx + 1 |-> l.entries[k - 1].cmd]

Atomic == INSTANCE AtomicStore WITH
  tries    <- [c \in Command |-> Tries(c)],
  history  <- Applied(log[Foremost]),
  store    <- log[Foremost].db,
  answered <- {p.cmd : p \in {q \in puts : q.pc = "ok"}}

\* README "Replicated store": while one server leads, the servers together are
\* one store that executes a put at most once per request, and only then answers
\* it; whichever server has applied most shows the store, and the others follow.
RefinesAtomicStore == Atomic!Spec

\* An entry before p's own will not be committed: its put is over, or was
\* another server's, and nobody else marks it.
Obstructed(p) ==
  \E k \in 0..p.idx - 1 :
    /\ ~log[p.server].entries[k].commit_done
    /\ ~\E q \in puts : q.server = p.server /\ q.idx = k /\ Pending(q)

\* In the end every put is answered, but for those behind an entry that their
\* server has inherited and does not know to be committed.
UnobstructedPutsEnd == <>[](\A p \in puts : Pending(p) => Obstructed(p))

\* README, after a failover: "See PUT succeed".  In the end every put at a
\* server that leads is answered.
PutsEnd == <>[](\A p \in puts : Pending(p) => ~Elected(p.server))

=============================================================================
