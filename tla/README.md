# Verification of RaftReplicatedStore

RaftReplicatedStore is a key-value store replicated with a variant of Raft: Python
servers that talk gRPC, one log per server, a state machine in memory or SQLite.
This directory holds TLA+ models of its election, of its log replication, and of one
server with its threads, its lock and its files, the TLC configurations that check
them, and TLAPS proofs about all three.

Every definition is translated from the source; `PROJECT.json` ("map") gives the
lines each one stands for. Where the project's documentation and its code
disagree, the model follows the code, and a run shows the disagreement.

## 1. The system

A server (`src/server.py`) owns one `Log`, one `Database`, one `Election` and one
`Consensus`. It serves clients (`Get`, `Put`) and peers (`RequestVote`,
`Heartbeat`, `AppendEntries`) from two gRPC servers with a hundred threads each,
so that any handlers may run at the same time; besides them run the
`follower_loop`, one `sendHeartbeat` thread per peer of a leader, one
`send_vote_request` thread per peer of a candidate, one `broadcastEntry` thread
per peer and put, the `apply` thread and the `flush_config` thread. All of them
share the `Log` object, whose methods take `Log.lock` one at a time.

| component | state | operations | talks to |
|---|---|---|---|
| `Election` (raft/election.py) | num_votes, the follower loop; term, status, voted_for, leader_id in `Log` | begin_election, send_vote_request, update_votes, sendHeartbeat; handlers RequestVote, Heartbeat | peers' Election by RPC, `Log` |
| `Consensus` (raft/consensus.py) | counters per request; it also writes term in `Log` | handlePut, broadcastEntry; handler AppendEntries | peers' Consensus by RPC, `Log` |
| `Log` (logs/log.py) | entries, log_idx, last_commit_idx, last_applied_idx, last command per client, and the above | append, insert_at, commit, commit_upto, apply, clear, votes and status | `Database`, the disk |
| persistence (logs/log.py) | log file, config file, set of changed keys | flush, flush_config, recover, clear_log_backup | the disk |
| stores (store/) | key-value map and its file | get, put, clear_backup, recover | the disk |
| `Server` (server.py) | none of its own | Get, Put, start-up | all of the above |
| `Client` (client.py) | sequence number, guess of the leader | requestGet, requestPut, redirects | servers by RPC |

What would make each part correct (section 4 says where the program falls short):

- Election: a server votes once in a term, terms do not go back, one server wins
  a term, a leader that is overtaken steps down, clients are sent to winners.
- Consensus: a follower counts for a put only when it agrees with the leader up
  to the entry; what is committed is on a majority and the same everywhere; a put
  that was answered is visible; puts are answered in the end.
- Log: no gaps, applied <= committed <= last index; one entry per term and index.
- Persistence: what was promised before a crash holds after it; what was applied is on
  disk; changes get there in the end.
- Client: a request takes effect once, or is reported as failed.

Where it is hard: late and lost messages (no deadline on AppendEntries, replies
that outlive their election), threads of one leader that repair one follower at
the same time, requests built from the log at the moment they are sent, a change
of leader between two steps, the clearing of a follower's log, the state that is
read in one locked call and used in the next, crashes between partial writes.
`PROJECT.json` ("hazards") lists these at their lines.

## 2. Modules

| module | models | state |
|---|---|---|
| `Election` | raft/election.py with the parts of logs/log.py it uses, and the threads of raft/consensus.py that change the term | term, status, voted_for, leader_id, num_votes, threads waiting on calls, requests and replies in flight |
| `MCElection` | instances of it | |
| `ElectionProofs` | theorems about it (section 5) | |
| `RaftLog` | the methods of `Log` on entries and indexes, apply, the database | none: operators from log to log |
| `RaftLogProofs` | lemmas about its operators | |
| `Replication` | raft/consensus.py, Put and Get of server.py, retries of client.py, over `RaftLog` | a log per server, handlePut calls and the counters they share, broadcastEntry threads, requests in flight, requests clients have yet to make |
| `MCReplication` | instances of it | |
| `ReplicationProofs` | theorems about it under any number of leaders, over `RaftLogProofs` | |
| `OneLeaderProofs` | theorems about one leader's term and its counters, over `ReplicationProofs` | |
| `RefinementProofs` | the theorem that it implements `AtomicStore`, over `OneLeaderProofs` | |
| `AtomicStore` | what clients are promised; implemented by `Replication` | the puts requested, executed and answered, the store |
| `LogStore` | logs/log.py at the granularity of its lock and files, with store/memorydatabase/mem_store.py, over `RaftLog` | the Log object, the files, config_change, the lock, the flush_config thread |
| `LogStoreProofs` | lemmas about its steps | |
| `Node` | the handlers of raft/election.py, `AppendEntries` and a redirected `broadcastEntry`, split where they take the lock, over `LogStore` | the handlers that run, the calls to come, num_votes |
| `MCNode` | instances of it | |
| `NodeProofs` | theorems about its handlers, over `LogStoreProofs` | |
| `DiskProofs` | the theorem about its files, over `NodeProofs` | |

Three views of one program: `Election` and `Replication` are whole clusters with handlers
as single steps, `Node` is one server with everything that can happen between two
steps of a handler, and the messages of the others given. What `Node` finds of a
race is not in the cluster models, and they do not claim it.

### Election

A handler, and one iteration of a thread's loop, is one atomic action:
`BeginElection` is a timeout and `begin_election`, `RequestVote` is split into the
handler's branches, `CountVote` is `update_votes` with `elected_leader` when the
count is complete, `HeartbeatReturns` is the rest of an iteration of
`sendHeartbeat`. An RPC has three parts: the caller's thread (`vote_calls`), the
request in flight (`vote_requests`), the reply in flight (`vote_replies`). A call
may fail at any time, by deadline, connection or an exception in the handler,
and its request may be handled nevertheless; so a request may be handled twice
when the loop retries. Requests are records in a set: two equal requests in
flight are one, which hides a delivery but no effect, since the second handling
of the same request can follow a retry.

A timeout may happen whenever `follower_loop` runs, whatever the clock says: the
durations are configurable and no safety property may depend on them. The entries
of the log matter to votes only by the term and index of the last one;
`LogChanges` lets the log change at any time, to any position that the instance has for it
(`LogPositions`).

The consensus layer writes one variable of the election, the term. A server that has its own id
for leader_id takes puts (`HandlePut`), each with a broadcastEntry thread per
peer. A thread builds its request with the term as it is by then (`SendEntry`); a follower
in a later term answers REDIRECT with that term, any other lets the thread go on
(`AppendEntries`); and with a REDIRECT the thread sets its server's term, whatever
that is meanwhile (`UpdateTerm`). `update_status` then raises, so that nothing else
changes and the thread is dead. What the threads carry is `Replication`'s business.

`elections` numbers the elections of a server, since after a REDIRECT it may run in a term
a second time; a vote call carries that number as its `round`. The code has no such
number: its threads are told apart by being different threads.

`counted`, `won` and `moved` are history variables: which vote replies `num_votes`
stands for, which elections were won with which votes, and which changes of a term
`update_term` has made.

### RaftLog and Replication

`RaftLog` has an operator for each method of `Log`, named as in the code. A method
holds the lock, so it is one step.

In `Replication` a put goes through `HandlePut` (look for a retry, append, start
the threads), `Commit` (all threads are over, a majority has acknowledged, the
server leads), `AnswerOk` (the apply thread has passed the index) or
`AnswerRedirect`. A thread calls `AppendEntries` (`FirstCall`), steps back on
`REJECT` (`StepBack`), steps forward on `OK` until it is at its own entry
(`StepForward`), counts the follower (`Acknowledged`), or ends for one of the
reasons in the code. The request carries the entry, the previous term, the commit
index and the current term as they are when it is made. The handler's branches
are `RefuseOutdated`, `StartAnew` (index 0: clear and append), `InsertEntry` and
`RejectMismatch`. Exceptions of the code are in the model: `update_status` fails
after `update_term` (`LearnLaterTerm`), a log that was cut short raises KeyErrors in
threads (`Call`) and in `commit` (`Commit`), `insert_at` refuses an index beyond
the end.

`counters` and `ready_to_commit` are the dicts of `Consensus`, keyed by the request and
not by the handler: `HandlePut` resets them, a thread that ends counts in them
(`Reached`) and the last one removes them, the first handler to commit removes the
flag, and the second then raises a KeyError (`FindNoFlag`). So a client that has lost
its connection and puts again, while its first put is still handled, gets two
handlers that count together.

Elections are in outline there: asking, voting and counting in one step, so no
late votes. They are enough for a change of leader during puts, and `Election` has
the details.

A command is the client, the sequence number and the key of a put; its value is the
command itself, so that two commands are never confused. A put has one key.

Three history variables say who may write in a term. `won` has the terms that were
won. `reign[i]` is the term that server i was the first to win, as long as its log
has since been changed by nothing but its own puts, else -1. `disputed` has the terms
in which a server took puts without reigning. There are two ways into it, both in
the code: a server takes over a later term while it leads (`LearnLaterTerm`) and
goes on in a term it never won; and a leader whose log a later leader's request
has rewritten takes puts at indexes that it
has already used in that term, because AppendEntries asks nothing of its receiver's
status.

`Setups` are the states that the instances start from, each the end of an election.
`SetupAssumption` asks of each only what an election leaves (`Plausible`): logs
without gaps, one command per term and index, no term after the winner's, and of the
winner's term nothing beyond its own log.

### AtomicStore, and what it maps to

`AtomicStore` is one store with a sequence of executed puts: a put is executed at most as
often as it was requested, answered only after it was executed, and a read shows
the last execution. `Replication` implements it (`RefinesAtomicStore`) under this mapping:
the executed puts are the applied prefix of a server that has applied as much as any
(`Foremost`), the store is that server's database, the requests are the puts that were
appended, with those that earlier leaders left in the leader's log (`Tries`), and the answered puts
are those answered OK. That the history never changes means that whichever server
is ahead, it continues what the others applied. The mapping is for one leader: a new
one may overwrite, and clear, what the old one applied (`replication_first_puts`).

### LogStore and Node

`mem` is the `Log` object: the record of `RaftLog` with term, status, voted_for and
leader_id. `disk` has the three files, each a map. `busy` is the lock: "free", or how far
a thread that holds it for several writes has got. The apply round is `ApplyFlush`
(entry to the log file), `ApplyPut` (database, dict and file), `ApplyAdvance`; clear
is `ClearMemory`, `ClearLogFile`, `ClearConfigFile`, `ClearDatabase`; `flush_config` takes the lock,
collects what has changed, and closes its file after the lock is free. The two
values that are dicts are written as they are at the close, because a shelf with
writeback writes the object again. Methods set their flags in `config_change` partly
outside the lock; a key that is new to the dict while `flush_config` iterates over it
kills that thread (`SetFlags`). `Restart` is a crash at any point, with any part of an
open config file written, and `recover`, which takes an index of 0 for none (`IfTrue`).

In `Node` a thread is a handler with the values it has read; `pc` names its next step.
Every access to the Log under the lock is a step, and so is every unlocked read; the flags
a method sets after it has released the lock are a step (`FlagsSet`). RequestVote reads
term, last index and last entry, decides, steps down, casts the vote, forgets the
leader. AppendEntries reads the term, compares length and term, inserts, commits; or
clears and appends. `update_votes` increments, reads the count, reads the status, becomes
leader; `begin_election` goes through it too with its own vote before it asks the
others. A broadcastEntry thread that has been redirected sets the term and ends (`UpdateTerm`). Calls of other servers come from `calls`, in any order, and replies only
to an election whose requests were sent (`asked`).

History variables: `granted` are the votes cast; `moved` the changes of the term by
`update_term`; `raced` says that a handler changed the
election state while another was running; `forgot`, that a crash took term, status
or vote back; `torn`, that a crash cut a clear short or that `flush_config` wrote indexes
from before a clear; `wiped` (per call), that the log was cleared by another
call, or by a crash.

`SetupAssumption` (Node) says that a server starts with files that agree with its
memory, with its own vote if it stands or leads, and that two calls about one entry
carry one command.

## 3. Runs

| run | instance | shows |
|---|---|---|
| election_late_votes | 3 servers; s1 runs in terms 1 and 2, s2 in 2, s3's log grows; no puts, no failures; 1,969,388 states | types; a vote is final; one proper winner per term; redirects name winners |
| election_redirects | 2 servers, fair heartbeats; s1 leads term 1 and takes a put, s2 runs in 2, both in 3; one failed call; 172,924 states | only a REDIRECT takes a term back; a vote is final but in terms over which one has; a leader that has been overtaken steps down |
| election_two_leaders | as election_late_votes, with empty logs | violation: two leaders of one term |
| election_own_id | s1 runs in term 1, s2 in 2 | violation: a follower takes itself for the leader |
| election_leader_votes | the same, and s1 takes a put | violation: a leader is in a term in which it has not voted |
| replication_one_leader | 3 servers, one leader, five initial sets of logs, one failure; 97,359 states | commitment, counting, agreement, reads, that unobstructed puts end, and that `AtomicStore` is implemented |
| replication_failover | empty logs, two clients, s2 is elected meanwhile; 1,362,935 states | well-formed logs; one entry per term and index |
| replication_first_puts | two first puts at once | violation: a committed entry is only at the leader |
| replication_new_leader_hangs | s2 leads after s1's put was answered | violation: the new leader's put never ends |
| node | one server, ten sets of calls, one crash; 211,953 states | types; what was applied is on disk; one vote per term, and leading only the own term, if handlers do not overlap, but for a REDIRECT; terms go back only by a race, REDIRECT or crash; what was acknowledged is stored; changes reach the disk |
| node_votes_twice | the same without crashes | violation: two votes in one term |
| node_old_leader | the same without crashes | violation: an acknowledged entry is overwritten by an older leader |

Every property of a passing run has a mutant in `PROJECT.json`: a plausible bug
in the code (a vote granted twice, a count not reset, entries committed without
the min, ...) with which TLC finds the property violated.

**Bounds and why they are enough.** Three servers (the compose file's cluster) are
the least where a majority can be reached without one server; two suffice for a
leader and who overtakes it. `Campaigns` gives each server the terms it runs in:
two candidates in one term, an earlier try of one of them, and a later term of
the other are all the ways two elections meet. `MaxFailures` bounds failing calls;
in the late-votes run it is 0 because a reply may arrive arbitrarily late anyway,
which is the failure that matters there. `Puts` gives each server the puts it
takes: one suffices, since each of its threads may be redirected at any later time
and no other thread matters to it. election_late_votes goes without, because three
servers, three elections and a put are out of reach of an exhaustive run;
election_redirects has them with two servers, and `ProperWinnerIsUnique` is proved for any number
of each. Only the third server's log grows there, once: it then refuses both
candidates, who may have its vote already. `Setups` starts replication from logs that
elections leave behind, built with the operations of `Log`: equal logs, an entry that reached nobody, a follower
that was never reached, a leader alone with its log, two logs that have diverged
for two entries, so that a thread steps back and forward over several entries.
`Retried` has the request that is put again: one of a client whose leader holds it at an
index above 0, where the two handlers share counters and the retry meets the first
try applied, appended or neither. A retry where both tries' threads step back to
index 0 is left out, for the reason given next. `Lingering` names the indexes whose requests may come
after their call failed. Index 0 is left out of it, as are two first puts at
once in one_leader: a late request for index 0 clears the follower whatever it
holds, and `replication_first_puts` shows what comes of that.

`MCNode` gives each set of two to four calls that can meet in one server: two candidates and the
heartbeat of the winner; an own election with a granted and a refused vote and a
rival's heartbeat; the first entries and later entries of a leader; a vote asked for
during a clear; a new leader and an old one; the first entry sent twice; a deposed
leader that runs again; a leader that is redirected while it is asked for its vote and may
run again; an old and a new leader at a follower that knows of no election. Two handlers at once suffice for each race there is, since
every one is between a read and a write of one handler and a write of another;
one crash, because what a second one would find was left by the first. A server starts
with files that agree with it. A round of `flush_config` that finds no change is left
out; so is the first start, which has no files.

**Fairness.** `HeartbeatFairness` (Election): a request and a reply in flight arrive
unless their call fails; gRPC delivers on a connection that stands, the loop in
`sendHeartbeat` repeats while the server leads, and failures are finitely many.
Nothing is assumed of timeouts or elections. `Progress` (Replication): the threads of
a live server run, its handlers handle what arrives, its apply loop goes round:
operating system and executor threads are scheduled eventually, and no lock is held
for ever. `Fairness` (Node) says the same of the handlers, of the apply thread, of a thread
that clears and of `flush_config`, whose loop never waits for anything but the lock; nothing
is assumed of calls and crashes. Clients are under no obligation, and no call is obliged to fail.

**What the properties do not claim.** `VoteIsFinal`, `OneProperWinnerPerTerm` and, in `Node`,
`VotesOnceIfSerial` excuse terms over which `update_term` has taken the voter back
(`TakenBack`), and `LeadsOwnTermIfSerial` a leader that it has put into its term: in
each case without the excuse the property is false of the code.
`OneProperWinnerPerTerm` is about handlers that run one at a time, because `Election`
has them as single steps, and it says nothing of an election that is won with votes of another term. `StaleLeaderStepsDown` gives up on a leader that `update_term` has
moved to a later term, for which no thread sends heartbeats. `UnobstructedPutsEnd` excuses puts behind an
entry that nobody will mark committed, and holds for one failed call: with two, a
majority may be out of reach, and the code does not retry on errors other than a
deadline, which it does not set. `GetSeesAcknowledged` is about the server that
acknowledged; a read elsewhere may be stale. `OneEntryPerTermAndIndex` excuses the
terms in `disputed`. `AcknowledgedIsStored` allows an entry of another term in the
place of the acknowledged one, which `node_old_leader` shows to happen.

## 4. Disagreements between code and documentation

- *Two leaders of one term* (election.py:245). A vote granted for term 1 is
  counted when the candidate stands for term 2. README.md:107 has "testing that
  you don't have two leaders anytime".
- *A follower that takes itself for the leader* (election.py:153). A rejected heartbeat
  carries the leader id that the rejecter knows, which may be the deposed leader's;
  Get and Put ask nothing but this id.
- *A leader in a term it has not voted in* (consensus.py:145). A follower's REDIRECT moves a leader
  to the follower's term; then `update_status` raises (log.py:384 joins a string and a
  number), so that it leads on, and it still has its vote of that term, which RequestVote
  gives away without stepping down. The comment at election.py:356 says that a leader has "already
  voted for ourself"; the one at consensus.py:141, that it reverts to follower.
- *A committed entry only at the leader* (consensus.py:219). The request for index 0
  clears the follower's log, after a later entry was counted there.
- *A put that never ends* (consensus.py:87). A new leader never marks the last entry of
  its predecessor, so its commit index stays below its own entries. README.md:94 has
  "See PUT succeed".
- *Two votes in one term* (election.py:312). Two RequestVote handlers both read the term
  and the vote before either casts. README.md:112 asks whether they are
  serialized; they are not.
- *An acknowledged entry overwritten* (consensus.py:212). AppendEntries never takes over
  the sender's term, so one of five servers that has not heard of an election stores the
  new leader's entry and then the old leader's at the same index. The comment at line
  206 speaks of the last entry; the code compares the previous one, wherever it is.

Modelled as well, without runs of their own: `update_term` (consensus.py:145) compares
with nothing, and a REDIRECT may be older than the heartbeat or vote request of a later term
that was handled before its thread goes on, so that the term goes back. After a crash the log has holes, because
log_idx is persisted when it changes and entries when they are applied (log.py:295; the
comment at log.py:122 says the server picks up where it left off). A leader that
`update_term` has moved goes on taking puts in a term it never won (`LearnLaterTerm` in
`Replication`; `disputed` is there for it). Two overlapping handlers of one server may take
its term back, too, which is why `TermGoesBackOnlyByRaceOrRedirect` has both excuses.

**How a term gets two leaders.** The models know of four ways to it in this code:

1. a vote granted for an earlier term is counted (`election_two_leaders`);
2. `update_term` moves a leader into a term that another server wins
   (`election_leader_votes` has the first half; both then lead the term);
3. `update_term` takes a server back over a term in which it has voted, and it votes
   there once more, for another candidate, which gives both a majority (with three
   servers: s1 wins term 3 with the vote of s3, is taken back to term 2, votes for s2 in
   term 3, and s2 wins it);
4. two overlapping handlers of one server both cast its vote (`node_votes_twice`), or
   it steps down into a later term between the test and `set_self_leader` of
   update_votes (election.py:119) and leads that term; or a crash makes it forget
   a vote that was not flushed.

What holds is what remains. With handlers that run one at a time and without crashes, two
winners of a term whose votes are all of that term are the same server, or one of
their voters was taken back over the term (`OneProperWinnerPerTerm`). Of the four ways the
first two are left out by what it speaks of (winners, and votes of the term), the
third by name, the last by what `Election` models; among winners with votes of their
own term there is no other.

## 5. Proofs

A run shows a property on a small instance, a theorem for every value of the constants:
any finite set of servers, any number of puts, of calls and of crashes, from any setup
that satisfies the named assumptions. Each theorem is `Spec => []P` or
`Spec => [][A]_vars` for a property `P` or `A` that a run checks too; one is the refinement
`Spec => Atomic!Spec`.

| theorem | states | under, besides the assumptions on constants |
|---|---|---|
| ElectionProofs!TypeCorrect | `TypeOK` | |
| ElectionProofs!OnlyRedirectsTakeBack | `TermGoesBackOnlyByRedirect` | |
| ElectionProofs!VotesAreFinal | `VoteIsFinal` | |
| ElectionProofs!ProperWinnerIsUnique | `OneProperWinnerPerTerm` | |
| ElectionProofs!RedirectsNameWinners | `RedirectNamesAWinner` | |
| ReplicationProofs!TypesAndLogs | `TypeOK`, with well-formed logs | |
| ReplicationProofs!EntriesAreUnique | `OneEntryPerTermAndIndex` | |
| OneLeaderProofs!CountedAgree | `CountedFollowersAgree` | `OneLeaderOnly` |
| OneLeaderProofs!CommittedEntriesAgree | `CommittedAgree` | `OneLeaderOnly` |
| OneLeaderProofs!GetsSeeAcknowledged | `GetSeesAcknowledged` | `OneLeaderOnly` |
| OneLeaderProofs!CommittedByMajority | `CommittedOnMajority` | `OneLeaderOnly`, `Retried = {}` |
| RefinementProofs!ServersAreOneStore | `RefinesAtomicStore` | `OneLeaderOnly` |
| NodeProofs!NodeTypes | `TypeOK` | |
| NodeProofs!OneVoteIfSerial | `VotesOnceIfSerial` | |
| NodeProofs!OwnVoteIfSerial | `LeadsOwnTermIfSerial` | |
| NodeProofs!OnlyRacesAndRedirectsTakeBack | `TermGoesBackOnlyByRaceOrRedirect` | |
| NodeProofs!AnsweredOKIsStored | `AcknowledgedIsStored` | |
| DiskProofs!AppliedEntriesAreOnDisk | `AppliedIsOnDisk` | every setup is `Settled` (Node) |

### What the conditions mean, and why they are there

`OneLeaderOnly` (Replication) says that nobody campaigns after the election that set
the system up, and that every setup is `Settled`: all servers have the leader's first
entry, a log that has an entry in common with the leader's has in common what
precedes it, the leader has what anybody has committed, a majority has what is
committed anywhere or marked at the leader, the databases are what the applied entries make of
them (`ShowsApplied`), and the sequence numbers by which the leader knows its clients are those
of entries it has applied (`KnowsApplied`).
The first entry is the one condition that a healthy
cluster may not meet, and the code forces it: a request for index 0 clears the follower
whatever it holds, and without the condition `CountedFollowersAgree` and
`CommittedOnMajority` are false (`replication_first_puts`). The others are what
Raft promises of an elected leader; this program's elections do not always
deliver it (`election_two_leaders`), and the theorems say nothing of a cluster in which
they did not. `SomeAreSettled` in `MCReplication` makes TLC evaluate the condition: several of
the instance's setups meet it, and those with a follower without a first entry, which do
not, are model-checked only.

`Retried = {}` says that no request is put a second time. Two handlers of one
request share a counter and a flag, and which of them an acknowledgement counts for
depends on which reset it; the invariant below has one handler per counter. TLC checks
the property with a retried request too.

`Settled` (Node) says that for an index that somebody says is committed, by the commit
index of the server or of a call, there is only one entry that the server has or may be
sent. This is what the rest of the cluster owes to one server: when another entry
replaces an applied one in memory, the file keeps the applied one, and the property
is about both. `AllAreSettled` (MCNode) has TLC evaluate it for all sets of calls. A first entry counts as a
possible one at any index, because its handler clears and then appends, and other
handlers may append between the two.

### The inductive invariants

None of the properties is inductive as it stands.

**Election.** Layered, each layer preserved by a step with the help of those below it:

1. `TypeInv`: types, and a candidate is short of its majority;
2. `MovesForward` (a lemma about steps): terms and votes go forward, but for
   a REDIRECT, which `moved` records, and for a vote after one;
3. `VotedInv`: a server has reached every term up to that of its vote, unless it was
   taken back over it;
4. `CallInv`: a thread waits for a vote that is not counted yet, and is the only one of
   its election (`round`) that waits for that voter;
5. `CountInv`: `num_votes` is the number of different votes in `counted`, and every
   election in `won` was won with a majority;
6. `GaveInv`: a vote that travels, is counted or helped to win was given to that
   candidate only, in one of its elections only, and is no later than `voted_for`; or the
   voter was taken back over its term;
7. `MajoritiesShareAVoter`: two majorities of one set of servers intersect, from the
   cardinality theorems for finite sets.

Two proper winners of a term then share a voter. If it was not taken back, it voted once in the
term, and the winners are the same.
`RedirectInv` is separate: every leader id in the state or in a message is that of a
winner.

**RaftLog.** `RaftLogProofs` states once for each method of `Log` what it keeps and what it
changes: a well-formed log stays so, `append` adds at the end, `insert_at` replaces one entry
and keeps the later ones, `commit` stops at the first unmarked entry, `commit_upto` never goes
beyond the end, `apply` adds one index and its value. The proofs about
`Replication` cite these lemmas where a step goes through a method.

**Replication, any number of leaders.** `TypeInv` adds to the types that a thread stays
between the first entry and its own and is never told to step back behind the first, that an
open request has a previous index, and that a put that waits has an index. `EntryInv`
looks at every entry there is, in a log or in a request (`Made`): two of one term
and index have one command, all entries of a reigning server's term end below its own
log's end, so that its next put is at a new index, nobody else reigns in that
term, and no entry is of a term that was neither won nor disputed.

**Replication, one leader.** `UnderOneLeader` is the types with, for one server L,
`Leads(L)` (all servers, handlers and requests are of L and its term),
`ReplicasMatch(L)` and `DatabaseMatches(L)`. `ReplicasMatch` is the log matching
property of this variant: `LogsMatch` (what a log shares with the leader's, it shares with all that
precedes), `RequestMatches` (an open request carries an entry that the leader has and the
term before it), `ThreadMatches` (after OK, the follower agrees up to the entry sent),
`PutMatches` (a counted follower agrees up to the put). It is inductive because a leader
only appends, so whatever agreed still does, and because a request that matches at its
previous entry makes the follower match at the next. A request that outlives its
call matches as well as when it was sent, so late and repeated requests need no case of
their own.

**Replication, counting.** `UnderCountingLeader` adds `CountersMatch(L)` (puts differ in
their commands, a thread serves a put that still waits, for a follower it has not
counted, and no two threads serve one put and follower; so a counter is the cardinality of the
put's acknowledgements) and `MarkedOnMajority(L)`: what the leader has marked, what anybody has
committed and what any open request tells to commit is agreed on by a majority.

**Replication, refinement.** `OneStoreInv` adds to `UnderOneLeader` that no two puts have one
entry. From it follows what the mapping shows (`StoreView`): the history is a prefix of the
leader's log, whichever server shows it; the store is the replay of that prefix; and how
often a command was tried is how often the leader's log holds it, so that no prefix can execute
it more often. Then `HandlePut` is a request, a step that makes more entries shown is an
execution of those, a put that becomes OK is an answer of an entry that is shown (a repeated one
because the client's last number is that of an applied entry, `KnowsApplied`), and every
other step is a stutter. The theorem also needs that a client gives its requests different
numbers (`RequestAssumption`): client.py counts them up, from a number that its user enters.

**Node.** `TypeInv` is `StoreInv` (the Log object, files, shelf, lock and flags, also in the middle
of a clear, an apply or a flush), `HandlersInv` (every thread serves a call of the setup and
has the fields its step needs) and `VotesInv` (a vote in memory or in a file was cast). `NoRaceInv`
has, per step of a handler, what its reads still say (`Knows`): the term it has read is the
term, the one it will set is later. Either that holds of all threads or `raced` is set.
`SerialInv` adds the votes: those cast are of terms up to the last one, of which each is at most the
server's term, or the server was taken back over it (`VotesKnown`); it votes again
in such a term only as a follower (`VoteIsFree`); and who stands or leads has voted for
itself or was put there (`StandsRightly`). `StoredInv` says the same of append handlers as long as nobody else
clears: the first entry finds the log empty and is alone, the previous entry is below the
end, the entry that is about to be committed is there (`Found`).

**Files.** `DiskInv` is `CoverInv` and `SourceInv`. The first: every index up to each of the three
copies of last_applied_idx (memory, config file, open shelf) is in the log file, unless
a clear is at work or was torn; the flushed entry is there before the index advances. The second:
every entry in memory or file has a source (the setup or a call), and no copy of an index
is beyond what somebody said is committed. With `Settled` the two entries of an applied
index are the same.

### What is only model-checked

- `StaleLeaderStepsDown`, `UnobstructedPutsEnd`, `PutsEnd`, `ChangesReachTheDisk`: liveness
  under fairness is out of the prover's reach.
- The one-leader properties from setups that are not `Settled`, and `CommittedOnMajority`
  with a request that is put twice.
- The violations: a counterexample is a run's business.

`RaftLog.DoneUpTo` is a CHOOSE and not a recursive operator so that proofs about `commit`
stay possible.

## 6. Not modelled, and the plan

Not modelled: what dbm leaves of a single write that is cut short; SqliteStore (it has no
dict beside the file); several keys in one put, of which half may be read or
lost; the clock; gRPC itself; start-up; membership changes (there are none in the
code); the measuring clients; logging. A crash is in `Node` only, so what the loss
of an acknowledged entry does to the cluster is not shown.

Next, in this order:

1. `CommittedOnMajority` with retried puts: what a counter stands for when two handlers
   share it.
2. Five servers: an incomplete log that looks complete because `insert_at` leaves
   stale entries behind; a follower counted twice by two handlers of one request.
3. Crashes in `Replication`, with the log that `LogStore` shows to be recovered.

Run a model with `tlc -config <name>.cfg <module>`, the proofs with `tlapm <module>.tla`
for `ElectionProofs`, `RaftLogProofs`, `ReplicationProofs`, `OneLeaderProofs`,
`RefinementProofs`, `LogStoreProofs`, `NodeProofs` and `DiskProofs`. A module's proofs
cite the lemmas of those it extends; tlapm checks each in its own file.
