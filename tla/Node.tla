-------------------------------- MODULE Node --------------------------------
(***************************************************************************)
(* The handlers of one server at the granularity of the locked methods of  *)
(* Log: RequestVote, Heartbeat, begin_election and update_votes of         *)
(* raft/election.py, AppendEntries and, as far as it changes the term,      *)
(* broadcastEntry of raft/consensus.py, over LogStore.                      *)
(* Any handlers run at the same time; between two locked calls, or two     *)
(* unlocked reads, every other thread may take steps, and the server may   *)
(* crash.  The calls of the other servers come from a given set, in any    *)
(* order, each once.                                                       *)
(***************************************************************************)
EXTENDS LogStore

CONSTANT Majority  \* ((1 + len(peers)) // 2) + 1

\* What may come: a timeout, the requests of the other servers, their replies to
\* requests for votes, and their REDIRECTs to entries that this server has sent.
CallOK(c) ==
  /\ c.kind \in {"timeout", "vote", "heartbeat", "append", "reply", "redirect"}
  /\ c.kind \in {"vote", "heartbeat", "append", "redirect"} => c.term \in Nat
  /\ c.kind = "vote" => c.last_term \in Nat /\ c.last_idx \in Int
  /\ c.kind = "append" => /\ c.prev \in Nat \cup {-1} /\ c.prev_term \in Int
                          /\ c.entry_term \in Nat /\ c.cmd \in Command /\ c.commit \in Int
  /\ c.kind = "reply" => c.success \in BOOLEAN /\ (~c.success => c.term \in Nat)

SameEntry(c, d) == c.prev = d.prev /\ c.entry_term = d.entry_term

\* The server has a well-formed log, and has voted for itself if it does not follow;
\* the others send at most one entry per term and index.
Plausible(s) ==
  /\ DOMAIN s.mem = DOMAIN EmptyLog \cup {"term", "status", "voted_for", "leader_id"}
  /\ \A i \in Indexes : s.mem[i] \in Nat \cup {-1}
  /\ WellFormed(s.mem) /\ s.mem.entries \in [0..s.mem.log_idx -> Entry]
  /\ s.mem.db \in [Key -> Command \cup {NoCommand}]
  /\ s.mem.term \in Nat /\ s.mem.status \in {"FOLLOWER", "CANDIDATE", "LEADER"}
  /\ s.mem.voted_for.term \in 0..s.mem.term
  /\ s.mem.status # "FOLLOWER" =>
       s.mem.voted_for = [term |-> s.mem.term, server_id |-> Self]
  /\ \A c \in s.calls : CallOK(c)
  /\ \A c, d \in {e \in s.calls : e.kind = "append"} : SameEntry(c, d) => c.cmd = d.cmd

ASSUME SetupAssumption == \A s \in Setups : Plausible(s)

\* What index i may come to hold: the own entry, or that of a call.  One for an empty
\* log is appended wherever the log ends by then.
Sources(s, i) ==
  {[term |-> s.mem.entries[j].term, cmd |-> s.mem.entries[j].cmd] :
     j \in {i} \cap DOMAIN s.mem.entries}
  \cup {[term |-> c.entry_term, cmd |-> c.cmd] :
          c \in {d \in s.calls : d.kind = "append" /\ d.prev \in {-1, i - 1}}}

\* The indexes up to which somebody says that the log is committed.
Commits(s) ==
  {s.mem.last_commit_idx} \cup {c.commit : c \in {d \in s.calls : d.kind = "append"}}

\* What is committed is not replaced.
Settled(s) == \A k \in Commits(s) : \A i \in 0..k : \A a, b \in Sources(s, i) : a = b

VARIABLES
  calls,     \* what is still to come: requests, timeouts, replies
  threads,   \* the handlers that run
  num_votes, \* Election.num_votes
  asked,     \* history: the terms in which this server has asked for votes
  answers,   \* history: AppendEntries answered
  granted,   \* history: the votes that this server has cast
  moved,     \* history: the changes of the term by update_term
  raced,     \* history: a thread has changed the election state while another,
             \* which had looked at it, went on
  forgot     \* history: a crash lost a change of the election state

nodeVars == <<calls, threads, num_votes, asked, answers, granted, moved, raced, forgot>>
vars     == <<storeVars, nodeVars>>

NodeInit ==
  /\ Init
  /\ calls \in {s.calls : s \in {t \in Setups : t.mem = mem}}
  /\ threads = {} /\ num_votes = 0 /\ asked = {}
  /\ answers = {} /\ granted = {mem.voted_for} /\ moved = {}
  /\ raced = FALSE /\ forgot = FALSE

-----------------------------------------------------------------------------
(* Threads.  pc names the next step; dirty holds the flags that the last    *)
(* method has yet to set outside the lock; wiped, that the log was cleared  *)
(* for another call since this one began.                                   *)

Thread(c, pc) == [call |-> c, pc |-> pc, term |-> mem.term, idx |-> -1,
                  last_term |-> 0, dirty |-> {}, wiped |-> FALSE]

At(t, pc) == t \in threads /\ t.pc = pc /\ t.dirty = {}

Begins(c, pc) ==
  /\ calls' = calls \ {c}
  /\ threads' = threads \cup {Thread(c, pc)}

GoesOn(t, u) == threads' = (threads \ {t}) \cup {u}
Goes(t, pc)  == GoesOn(t, [t EXCEPT !.pc = pc])
Ends(t)      == threads' = threads \ {t}

\* The method has set keys outside the lock, the last of them before it ends.
FlagsSet(t) ==
  /\ t \in threads /\ t.dirty # {}
  /\ SetFlags(t.dirty)
  /\ IF t.pc = "over" THEN Ends(t) ELSE GoesOn(t, [t EXCEPT !.dirty = {}])
  /\ UNCHANGED <<calls, num_votes, asked, answers, granted, moved, raced, forgot>>

Looks == UNCHANGED <<storeVars, num_votes, asked, answers, granted, moved, raced, forgot>>
Reads == Looks /\ UNCHANGED calls

\* Handlers that decide on the election state.
IsElection(t) == t.call.kind \notin {"append", "redirect"}

\* Thread t replaces the election state by m, and sets these flags in the lock.
Changes(t, m, keys) ==
  /\ Free
  /\ mem' = m
  /\ config_change' = Marked(keys)
  /\ raced' = (raced \/ \E u \in threads \ {t} : IsElection(u))
  /\ UNCHANGED <<disk, busy, flusher, shelf, restarts, torn, calls, asked, answers, forgot>>

StepsDown(t, term, leader) ==
  LET m == revert_to_follower(mem, term, leader)
  IN Changes(t, m, {k \in {"status", "term", "leader_id"} : m[k] # mem[k]})

\* A handler gets the term.
GetTerm(c) ==
  /\ c \in calls /\ c.kind \in {"vote", "heartbeat", "append"}
  /\ Free
  /\ Begins(c, c.kind) /\ Looks

-----------------------------------------------------------------------------
(* RequestVote.                                                            *)

GetLogIdx(t) ==
  /\ At(t, "vote") /\ Free
  /\ GoesOn(t, [t EXCEPT !.pc = "last term", !.idx = mem.log_idx])
  /\ Reads

\* Log.get: a KeyError, if the entry has been cleared, or was never recovered.
GetLastTerm(t) ==
  /\ At(t, "last term")
  /\ IF t.idx = -1 THEN Goes(t, "decide")
     ELSE IF t.idx \in DOMAIN mem.entries
     THEN GoesOn(t, [t EXCEPT !.pc = "decide", !.last_term = mem.entries[t.idx].term])
     ELSE Ends(t)
  /\ Reads

VotedLater(c) == mem.voted_for.term < c.term + 1 \* mutant

\* No vote was cast in the candidate's term.
NotVoted(c) == mem.voted_for.term < c.term

\* The own term as it was read, the vote as it is now.  A repeated request falls
\* off the end of the handler.
Decide(t) ==
  /\ At(t, "decide")
  /\ IF t.call.term > t.term THEN Goes(t, "step down")
     ELSE IF t.call.term = t.term /\ NotVoted(t.call) THEN Goes(t, "compare logs")
     ELSE Ends(t)
  /\ Reads

StepDown(t) ==
  /\ At(t, "step down")
  /\ StepsDown(t, t.call.term, Nobody)
  /\ Goes(t, "compare logs")
  /\ UNCHANGED <<num_votes, granted, moved>>

LogIsComplete(t) ==
  \/ t.last_term < t.call.last_term
  \/ t.last_term = t.call.last_term /\ t.idx <= t.call.last_idx

\* check_completeness_of_log
CastVote(t) ==
  /\ At(t, "compare logs") /\ LogIsComplete(t)
  /\ Changes(t, cast_vote(mem, t.call.term, t.call.from), {})
  /\ granted' = granted \cup {mem'.voted_for}
  /\ GoesOn(t, [t EXCEPT !.pc = "forget leader", !.dirty = {"term", "voted_for"}])
  /\ UNCHANGED <<num_votes, moved>>

DenyVote(t) ==
  /\ At(t, "compare logs") /\ ~LogIsComplete(t)
  /\ Ends(t) /\ Reads

ForgetLeader(t) ==
  /\ At(t, "forget leader")
  /\ Changes(t, [mem EXCEPT !.leader_id = Nobody], {})
  /\ GoesOn(t, [t EXCEPT !.pc = "over", !.dirty = {"leader_id"}])
  /\ UNCHANGED <<num_votes, granted, moved>>

RequestVote(t) ==
  GetLogIdx(t) \/ GetLastTerm(t) \/ Decide(t) \/ StepDown(t) \/ CastVote(t)
  \/ DenyVote(t) \/ ForgetLeader(t)

-----------------------------------------------------------------------------
(* Heartbeat.                                                              *)

AcceptAll(t) == TRUE \* mutant

UpToDate(t) == t.term <= t.call.term

AcceptHeartbeat(t) ==
  /\ At(t, "heartbeat") /\ UpToDate(t)
  /\ StepsDown(t, t.call.term, t.call.from)
  /\ Ends(t)
  /\ UNCHANGED <<num_votes, granted, moved>>

RejectHeartbeat(t) ==
  /\ At(t, "heartbeat") /\ ~UpToDate(t)
  /\ Ends(t) /\ Reads

Heartbeat(t) == AcceptHeartbeat(t) \/ RejectHeartbeat(t)

-----------------------------------------------------------------------------
(* begin_election, and the replies to its vote requests.                   *)

\* follower_loop, of which there is one, looks at the status, and has timed out.
TimeOut(c) ==
  /\ c \in calls /\ c.kind = "timeout"
  /\ \A t \in threads : t.call.kind # "timeout"
  /\ mem.status # "LEADER"
  /\ Begins(c, "run") /\ Looks

Run(t) ==
  /\ At(t, "run")
  /\ Changes(t, set_self_candidate(mem), {})
  /\ granted' = granted \cup {mem'.voted_for}
  /\ GoesOn(t, [t EXCEPT !.pc = "reset votes",
                         !.dirty = {"voted_for", "status", "term"}])
  /\ UNCHANGED <<num_votes, moved>>

ResetVotes(t) ==
  /\ At(t, "reset votes")
  /\ num_votes' = 0
  /\ Goes(t, "count")
  /\ UNCHANGED <<storeVars, calls, asked, answers, granted, moved, raced, forgot>>

\* request_votes: in the term that the server is in by now.
AskForVotes(t) ==
  /\ At(t, "ask for votes") /\ Free
  /\ asked' = asked \cup {mem.term}
  /\ Ends(t)
  /\ UNCHANGED <<storeVars, calls, num_votes, answers, granted, moved, raced, forgot>>

\* Replies come only to requests that were sent.
Asked(c) ==
  /\ c \in calls /\ c.kind = "reply" /\ c.for \in asked

AnyStatus == TRUE \* mutant

StillCandidate == mem.status = "CANDIDATE"

\* A refusal counts if its term is later than the own.
GetReply(c) ==
  /\ Asked(c)
  /\ IF c.success THEN StillCandidate /\ Begins(c, "count")
     ELSE Free /\ c.term > mem.term /\ Begins(c, "learn term")
  /\ Looks

LearnTerm(t) ==
  /\ At(t, "learn term")
  /\ StepsDown(t, t.call.term, t.call.from)
  /\ Ends(t)
  /\ UNCHANGED <<num_votes, granted, moved>>

\* update_votes, for a reply and for the own vote, after which the others are asked.
AfterCount(t) == IF t.call.kind = "timeout" THEN Goes(t, "ask for votes") ELSE Ends(t)

Count(t) ==
  /\ At(t, "count")
  /\ num_votes' = num_votes + 1
  /\ Goes(t, "test")
  /\ UNCHANGED <<storeVars, calls, asked, answers, granted, moved, raced, forgot>>

\* The count is read, then the status.
Test(t) ==
  /\ At(t, "test")
  /\ IF num_votes >= Majority THEN Goes(t, "test status") ELSE AfterCount(t)
  /\ Reads

TestStatus(t) ==
  /\ At(t, "test status")
  /\ IF StillCandidate THEN Goes(t, "lead") ELSE AfterCount(t)
  /\ Reads

Lead(t) ==
  /\ At(t, "lead")
  /\ Changes(t, set_self_leader(mem), {})
  /\ GoesOn(t, [t EXCEPT !.pc = "over", !.dirty = {"status", "leader_id"}])
  /\ UNCHANGED <<num_votes, granted, moved>>

begin_election(t) == Run(t) \/ ResetVotes(t) \/ AskForVotes(t)
update_votes(t)   == Count(t) \/ Test(t) \/ TestStatus(t) \/ Lead(t)

-----------------------------------------------------------------------------
(* broadcastEntry, when a follower answers REDIRECT.                       *)

\* A thread has the answer to an entry that was sent in an earlier term.
GetRedirect(c) ==
  /\ c \in calls /\ c.kind = "redirect"
  /\ Begins(c, "redirected") /\ Looks

\* update_term; update_status then raises, and the thread dies.
UpdateTerm(t) ==
  /\ At(t, "redirected")
  /\ Changes(t, update_term(mem, t.call.term), {})
  /\ moved' = moved \cup {[from |-> mem.term, to |-> t.call.term]}
  /\ GoesOn(t, [t EXCEPT !.pc = "over", !.dirty = {"term"}])
  /\ UNCHANGED <<num_votes, granted>>

-----------------------------------------------------------------------------
(* AppendEntries.                                                          *)

Quiet == UNCHANGED <<calls, num_votes, asked, granted, moved, raced, forgot>>

\* t changes the log with the lock held, as m, and sets these flags in it.
Stores(m, keys) ==
  /\ Free
  /\ mem' = m
  /\ config_change' = Marked(keys)
  /\ UNCHANGED <<disk, busy, flusher, shelf, restarts, torn>>

Answers(t, code) ==
  answers' = answers \cup {[call |-> t.call, code |-> code, wiped |-> t.wiped]}

Refuses(t, code) == Ends(t) /\ Answers(t, code) /\ UNCHANGED storeVars /\ Quiet

\* Everybody else's entries are gone.
WipeOthers(t, u) ==
  /\ threads' = {[v EXCEPT !.wiped = TRUE] : v \in threads \ {t}} \cup {u}
  /\ answers' = {[a EXCEPT !.wiped = TRUE] : a \in answers}

\* The sender's term is behind, or the first entry comes: clear, ...
CheckTerm(t) ==
  /\ At(t, "append")
  /\ IF t.call.term < t.term THEN Refuses(t, "REDIRECT")
     ELSE /\ Goes(t, IF t.call.prev = -1 THEN "clear" ELSE "compare length")
          /\ Reads

Clear(t) ==
  /\ At(t, "clear")
  /\ ClearMemory
  /\ WipeOthers(t, [t EXCEPT !.pc = "first entry",
                             !.wiped = \E u \in threads : u.pc = "first entry"])
  /\ Quiet

\* ... then append.
FirstEntry(t) ==
  /\ At(t, "first entry")
  /\ Stores(append(mem, t.call.entry_term, t.call.cmd), {"log_idx"})
  /\ Ends(t) /\ Answers(t, "OK") /\ Quiet

CompareLength(t) ==
  /\ At(t, "compare length") /\ Free
  /\ IF mem.log_idx >= t.call.prev THEN Goes(t, "compare term") /\ Reads
     ELSE Refuses(t, "REJECT")

CompareTerm(t) ==
  /\ At(t, "compare term")
  /\ IF t.call.prev \notin DOMAIN mem.entries THEN Refuses(t, "KeyError")
     ELSE IF mem.entries[t.call.prev].term = t.call.prev_term
     THEN Goes(t, "insert") /\ Reads
     ELSE Refuses(t, "REJECT")

Insert(t) ==
  LET index == t.call.prev + 1 IN
  /\ At(t, "insert")
  /\ Stores(insert_at(mem, index, t.call.entry_term, t.call.cmd),
            IF InsertedAt(mem, index) = -1 THEN {} ELSE {"log_idx"})
  /\ GoesOn(t, [t EXCEPT !.pc = "commit", !.idx = InsertedAt(mem, index)])
  /\ UNCHANGED answers /\ Quiet

\* Up to the leader's index, at most to the inserted one (where there are no gaps).
CommitUpTo(t) ==
  LET upto == IF t.call.commit < t.idx THEN t.call.commit ELSE t.idx IN
  /\ At(t, "commit")
  /\ Stores(commit_upto(mem, upto), {})
  /\ GoesOn(t, [t EXCEPT !.pc = "over", !.dirty = {"last_commit_idx"}])
  /\ Answers(t, "OK") /\ Quiet

AppendEntries(t) ==
  CheckTerm(t) \/ Clear(t) \/ FirstEntry(t) \/ CompareLength(t) \/ CompareTerm(t)
  \/ Insert(t) \/ CommitUpTo(t)

-----------------------------------------------------------------------------
Crash ==
  /\ Restart
  /\ threads' = {} /\ num_votes' = 0
  /\ answers' = {[a EXCEPT !.wiped = TRUE] : a \in answers}
  /\ calls' = {c \in calls : c.kind \notin {"reply", "redirect"}}
  /\ forgot' = (forgot \/ \E k \in {"term", "status", "voted_for"} : mem'[k] # mem[k])
  /\ UNCHANGED <<asked, granted, moved, raced>>

ThreadStep(t) ==
  FlagsSet(t) \/ RequestVote(t) \/ Heartbeat(t) \/ begin_election(t)
  \/ LearnTerm(t) \/ update_votes(t) \/ UpdateTerm(t) \/ AppendEntries(t)

LogThreads == (Apply \/ clear_log_backup \/ flush_config) /\ UNCHANGED nodeVars

Next ==
  \/ \E c \in calls : GetTerm(c) \/ TimeOut(c) \/ GetReply(c) \/ GetRedirect(c)
  \/ \E t \in threads : ThreadStep(t)
  \/ LogThreads
  \/ Crash

Spec == NodeInit /\ [][Next]_vars

\* The threads of a live server run.
Fairness ==
  /\ WF_vars(Apply /\ UNCHANGED nodeVars)
  /\ WF_vars(clear_log_backup /\ UNCHANGED nodeVars)
  /\ WF_vars(flush_config /\ UNCHANGED nodeVars)
  /\ WF_vars(\E t \in threads : ThreadStep(t))

FairSpec == Spec /\ Fairness

-----------------------------------------------------------------------------
(* Properties.                                                             *)

\* Types of the Log object, its files and threads, and of the handlers.
TypeOK ==
  /\ StoreTypeOK
  /\ mem.voted_for \in granted /\ moved \subseteq [from : Nat, to : Nat]
  /\ \A t \in threads : t.dirty \subseteq ConfigKey /\ t.term \in Nat /\ t.wiped \in BOOLEAN
  /\ num_votes \in Nat /\ asked \subseteq Nat
  /\ raced \in BOOLEAN /\ forgot \in BOOLEAN

\* No handler has decided on what another has changed meanwhile, and no crash has
\* taken the server back.
Serial == ~raced /\ ~forgot


\* update_term has taken the server from term t or a later one to an earlier one.
TakenBack(t) == \E m \in moved : m.to < t /\ t <= m.from

\* The lock does not serialize the handlers, but if they happen not to overlap, and
\* the state outlives the crashes, the server votes once in a term, unless a
\* REDIRECT has taken it back over that term, and ...
VotesOnceIfSerial ==
  Serial => \A v, w \in granted :
              v.term = w.term => v.server_id = w.server_id \/ TakenBack(v.term)

\* ... a leader has voted for itself in the term it leads, unless a REDIRECT has
\* put it there.
LeadsOwnTermIfSerial ==
  Serial /\ mem.status = "LEADER" =>
    \/ mem.voted_for = [term |-> mem.term, server_id |-> Self]
    \/ \E m \in moved : m.to = mem.term

\* A broadcastEntry thread takes over the term of its REDIRECT in this step.
TakesRedirect ==
  \E t \in threads : t.pc = "redirected" /\ t \notin threads' /\ mem'.term = t.call.term

\* The handlers of RequestVote, Heartbeat and the replies compare the terms before
\* they change the own one: it goes back only when two of them overlap, by a
\* REDIRECT, which nobody compares, or in a crash.
TermGoesBackOnlyByRaceOrRedirect ==
  [][\/ mem'.term >= mem.term
     \/ raced' \/ TakesRedirect \/ restarts' # restarts]_vars

\* Calls answered OK, but for those since which a handler of another call, or a
\* crash, has cleared the log; and the entry that is now at their index.
Acknowledged == {a.call : a \in {b \in answers : b.code = "OK" /\ ~b.wiped}}
Held(c) == mem.entries[c.prev + 1]

\* "only adding to majority if the node has correctly appended it's log": a follower
\* that has answered OK holds the entry, or the entry of another term's leader.
AcknowledgedIsStored ==
  \A c \in Acknowledged :
    /\ c.prev + 1 \in DOMAIN mem.entries
    /\ Held(c).term = c.entry_term => Held(c).cmd = c.cmd

\* "If previous term and log index for request matches the last entry in log,
\* append.  Else, return error" (AppendEntries): an entry that was acknowledged is
\* replaced by a later leader's, not by an older leader's that comes behind it.
AcknowledgedIsKept == \A c \in Acknowledged : Held(c).term >= c.entry_term
=============================================================================
