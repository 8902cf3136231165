------------------------------- MODULE MCNode -------------------------------
(* Small instances of Node for TLC: a follower or leader s1 and what the      *)
(* servers s2 and s3 may send it.                                             *)
EXTENDS Node, Sequences, TLC

CONSTANTS s1, s2, s3, x, y, c1, c2

A1 == [client |-> c1, seq |-> 1, key |-> x]
A2 == [client |-> c1, seq |-> 2, key |-> x]
B1 == [client |-> c2, seq |-> 1, key |-> y]
Commands == {A1, A2, B1}

\* The Log object with these commands of term 1, of which the first n are applied.
RECURSIVE Appended(_, _)
Appended(l, s) == IF s = <<>> THEN l ELSE Appended(append(l, 1, Head(s)), Tail(s))

Follower(term, leader, cmds, n) ==
  apply(commit_upto(Appended(EmptyLog, cmds), n - 1))
    @@ [term |-> term, status |-> "FOLLOWER", leader_id |-> leader,
        voted_for |-> [term |-> term, server_id |-> leader]]

Vote(from, term, last_idx) ==
  [kind |-> "vote", from |-> from, term |-> term,
   last_term |-> IF last_idx = -1 THEN 0 ELSE 1, last_idx |-> last_idx]
Beat(from, term) == [kind |-> "heartbeat", from |-> from, term |-> term]
Deliver(prev, cmd, up_to) ==
  [kind |-> "append", from |-> s2, term |-> 1, prev |-> prev,
   prev_term |-> IF prev = -1 THEN -1 ELSE 1, entry_term |-> 1, cmd |-> cmd,
   commit |-> up_to]
Timeout == [kind |-> "timeout"]
Granted(term) == [kind |-> "reply", for |-> term, success |-> TRUE]
Denied(for, term) ==
  [kind |-> "reply", for |-> for, success |-> FALSE, term |-> term, from |-> Nobody]
Redirect(term) == [kind |-> "redirect", term |-> term]

Start(m, cs) == [mem |-> m, calls |-> cs]

\* Two candidates ask for the same vote, one of them has won meanwhile.
TwoVotes == Start(Follower(0, Nobody, <<>>, 0), {Vote(s2, 1, -1), Vote(s3, 1, -1), Beat(s3, 1)})
\* s1 runs for term 1; the others give it the vote, know a later term, or lead it.
OwnElection ==
  Start(Follower(0, Nobody, <<>>, 0), {Timeout, Granted(1), Denied(1, 2), Beat(s3, 2)})
\* The leader s2 sends the first entry, and after it the second.
FirstEntries ==
  Start(Follower(1, s2, <<A1>>, 1), {Deliver(-1, A1, -1), Deliver(0, A2, 0)})
\* It sends the second and the third, and knows the first two committed.
LaterEntries ==
  Start(Follower(1, s2, <<A1>>, 1), {Deliver(0, A2, 0), Deliver(1, B1, 1)})
\* A vote is asked for while the log is cleared.
VoteAndClear ==
  Start(Follower(1, s2, <<A1>>, 1), {Deliver(-1, A1, -1), Vote(s3, 2, 0)})

\* A new leader, of which the log is different, and the old one.
NewLeader ==
  Start(Follower(1, s2, <<A1, B1>>, 1),
        {Vote(s3, 2, -1), Deliver(0, A2, 0),
         [Deliver(1, A2, 0) EXCEPT !.from = s3, !.term = 2, !.prev_term = 2]})
\* The first entry is sent twice: by two puts, or again by a put of which the call
\* has failed.
FirstTwice ==
  Start(Follower(1, s2, <<A1, A2>>, 0), {Deliver(-1, A1, -1), Deliver(-1, A1, 0), Deliver(0, A2, 0)})
\* The leader of term 1 is asked for its vote, deposed, and runs again.
Deposed ==
  Start([Follower(1, s1, <<>>, 0) EXCEPT !.status = "LEADER"],
        {Vote(s2, 2, -1), Beat(s2, 2), Timeout})
\* It leads again in term 3, which s2 has run for, too; an entry that it sent in
\* term 1 had reached a server in term 2.
Redirected ==
  Start([Follower(3, s1, <<>>, 0) EXCEPT !.status = "LEADER"],
        {Vote(s2, 3, -1), Timeout, Redirect(2)})
\* One of five servers has not heard of the election that the others have held; the
\* request of the old leader may come behind that of the new one.
Overtaken ==
  Start(Follower(1, s2, <<A1>>, 1),
        {Deliver(0, A2, 0), Beat(s3, 2),
         [Deliver(0, B1, 0) EXCEPT !.from = s3, !.term = 2, !.entry_term = 2]})

AllCalls == {TwoVotes, OwnElection, FirstEntries, LaterEntries, VoteAndClear,
             NewLeader, FirstTwice, Deposed, Redirected, Overtaken}

\* What DiskProofs is about.
ASSUME AllAreSettled == \A s \in AllCalls : Settled(s)
=============================================================================
