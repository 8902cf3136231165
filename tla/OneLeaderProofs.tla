-------------------------- MODULE OneLeaderProofs --------------------------
(***************************************************************************)
(* Theorems about Replication while one server leads: what its followers   *)
(* have acknowledged, what is committed, and what a client reads.          *)
(***************************************************************************)
EXTENDS ReplicationProofs, FiniteSetTheorems

\* L leads, and everybody knows.
Leads(L) ==
  /\ \A i \in Server : /\ leader_id[i] = L /\ term[i] = term[L]
                       /\ status[i] = IF i = L THEN "LEADER" ELSE "FOLLOWER"
  /\ \A p \in puts : p.server = L
  /\ \A t \in threads : t.server = L /\ t.pc # "REDIRECT"
  /\ \A r \in requests : r.server = L /\ r.current_term = term[L]

\* Server i has what L has, up to index k.
Agrees(L, i, k) == AgreeUpTo(log[L], log[i], k)

\* What a log has in common with the leader's log a, while t is the leader's term:
\* the first entry, what is committed, and what precedes any common entry.
LogMatches(a, m, t) ==
  /\ AgreeUpTo(a, m, 0)
  /\ AgreeUpTo(a, m, m.last_commit_idx)
  /\ \A k \in 0..a.log_idx \cap 0..m.log_idx :
       a.entries[k].term = m.entries[k].term => AgreeUpTo(a, m, k)
  /\ \A k \in 0..m.log_idx : /\ m.entries[k].term <= t
                             /\ m.entries[k].term = t => k <= a.log_idx

LogsMatch(L) == \A i \in Server : LogMatches(log[L], log[i], term[L])

\* A request carries what L has, after the first entry.
RequestMatches(L, r) ==
  /\ r.to # L
  /\ 0 <= r.prev_log_index /\ r.prev_log_index + 1 <= log[L].log_idx
  /\ r.prev_term = log[L].entries[r.prev_log_index].term
  /\ r.term = log[L].entries[r.prev_log_index + 1].term
  /\ r.entry = log[L].entries[r.prev_log_index + 1].cmd

\* A follower that has said OK agrees up to the entry that it was sent.
ThreadMatches(L, t) ==
  /\ 0 <= t.prev /\ t.idx <= log[L].log_idx
  /\ t.pc = "REJECT" => t.prev # 0
  /\ t.pc = "OK" => Agrees(L, t.to, t.prev + 1)

PutMatches(L, p) ==
  /\ p.idx # -1 => p.idx \in 0..log[L].log_idx /\ log[L].entries[p.idx].cmd = p.cmd
  /\ \A f \in p.acks : f # L /\ Agrees(L, f, p.idx)

ReplicasMatch(L) ==
  /\ LogsMatch(L)
  /\ \A r \in requests : RequestMatches(L, r)
  /\ \A t \in threads : ThreadMatches(L, t)
  /\ \A p \in puts : PutMatches(L, p)

\* The databases are what the applied entries make of them, and that of L shows the
\* answered puts and those it knows the clients by.
DatabaseMatches(L) ==
  /\ \A i \in Server : ShowsApplied(log[i])
  /\ KnowsApplied(log[L])
  /\ \A p \in puts : p.pc = "ok" => p.idx <= log[L].last_applied_idx

-----------------------------------------------------------------------------
(* L goes on leading.                                                      *)

LEMMA LeadsType ==
  ASSUME TypeInv, NEW L \in Server, Leads(L)
  PROVE  /\ term[L] \in Nat /\ LogOK(log[L]) /\ log[L].log_idx \in Int
         /\ \A i \in Server : LogOK(log[i]) /\ log[i].log_idx \in Int
         /\ \A i, j \in Server : term[i] = term[j]
  BY DEF TypeInv, TypeOK, ServersOK, LogsOK, LogOK, Leads

\* Without candidates nobody votes, and heartbeats and requests find their own term
\* and leader everywhere.
LEMMA ElectionsAreOver ==
  ASSUME TypeInv, NEW L \in Server, Leads(L), \A i \in Server : Campaigns[i] = {},
         NEW i \in Server, NEW j \in Server,
         Campaign(i) \/ Vote(j, i) \/ RefuseVote(j, i) \/ Heartbeat(i, j)
  PROVE  /\ UNCHANGED <<dictVars, log, puts, threads, requests, todo, failures, historyVars>>
         /\ UNCHANGED nodeVars
<1>1. ~Campaign(i)
  BY DEF Campaign
<1>2. \A a \in Server : ~Asks(a)
  BY DEF Asks, Leads
<1>3. ~Vote(j, i) /\ ~RefuseVote(j, i)
  BY <1>2 DEF Vote, RefuseVote
<1>4. /\ Heartbeat(i, j) /\ i = L /\ j # L /\ RevertToFollower(j, L, L)
  <2>1. Heartbeat(i, j) /\ i = L /\ j # L
    BY <1>1, <1>3 DEF Heartbeat, Elected, Leads
  <2>2. term[j] <= term[i]
    BY LeadsType
  <2> QED
    BY <2>1, <2>2 DEF Heartbeat
<1>5. /\ term \in [Server -> Nat] /\ leader_id \in [Server -> Server \cup {Nobody}]
      /\ status \in [Server -> {"CANDIDATE", "FOLLOWER", "LEADER"}]
      /\ term[j] = term[L] /\ leader_id[j] = L /\ status[j] = "FOLLOWER"
  BY <1>4 DEF TypeInv, TypeOK, ServersOK, Leads
<1>6. term' = term /\ status' = status /\ leader_id' = leader_id
  BY <1>4, <1>5 DEF RevertToFollower
<1> QED
  BY <1>4, <1>6 DEF RevertToFollower, nodeVars

\* Under one leader a thread's call is of the leader, in its term.
LEMMA CallOfLeader ==
  ASSUME TypeInv, NEW L \in Server, Leads(L), NEW t \in threads, NEW u,
         u.server = L, u.pc # "REDIRECT", u \in Thread, Call(t, u), UNCHANGED <<nodeVars, puts>>
  PROVE  Leads(L)'
<1>1. CASE u.prev + 1 <= log[u.server].log_idx
  <2> DEFINE v == [u EXCEPT !.pc = "calling"]
             r == create_log_entry_request(u)
  <2>1. threads' = (threads \ {t}) \cup {v} /\ requests' = requests \cup {r}
    BY <1>1 DEF Call
  <2>2. v.server = L /\ v.pc = "calling"
    BY DEF Thread
  <2>3. r.server = L /\ r.current_term = term[L]
    BY DEF create_log_entry_request
  <2> HIDE DEF v, r
  <2> QED
    BY <2>1, <2>2, <2>3 DEF Leads, nodeVars
<1>2. CASE ~(u.prev + 1 <= log[u.server].log_idx)
  BY <1>2 DEF Call, ThreadEnds, Leads, nodeVars
<1> QED
  BY <1>1, <1>2

LEMMA LeaderStays ==
  ASSUME TypeInv, NEW L \in Server, Leads(L), \A i \in Server : Campaigns[i] = {}, [Next]_vars
  PROVE  Leads(L)' /\ term' = term
<1> USE DEF nodeVars
<1>1. /\ \A t \in threads : t \in Thread /\ t.server = L /\ t.pc # "REDIRECT"
      /\ \A r \in requests : r.server = L /\ r.to \in Server /\ r.current_term = term[r.to]
      /\ \A p \in puts : p \in Put /\ p.server = L
      /\ \A i \in Server : term[i] \in Nat
  BY DEF TypeInv, TypeOK, ServersOK, HandlersInv, ThreadInv, RequestInv, Request, PutInv, Leads
<1>2. CASE UNCHANGED vars
  BY <1>2 DEF vars, Leads
<1>3. ASSUME NEW s \in Server, NEW cmd \in todo, HandlePut(s, cmd) PROVE Leads(L)' /\ term' = term
  <2>1. s = L
    BY <1>3 DEF HandlePut, Leads
  <2>2. UNCHANGED <<nodeVars, requests>>
    BY <1>3 DEF HandlePut
  <2>3. \A p \in puts' : p.server = L
    BY <1>1, <1>3, <2>1 DEF HandlePut, NewPut
  <2>4. \A t \in threads' : t.server = L /\ t.pc # "REDIRECT"
    BY <1>1, <1>3, <2>1 DEF HandlePut, NewThread
  <2> QED
    BY <2>2, <2>3, <2>4 DEF Leads
<1>4. ASSUME NEW s \in Server, NEW cmd \in todo, RepeatPut(s, cmd) PROVE Leads(L)' /\ term' = term
  <2>1. s = L
    BY <1>4 DEF RepeatPut, Leads
  <2> QED
    BY <1>4, <2>1 DEF RepeatPut, NewPut, Leads
<1>5. ASSUME NEW p \in puts, HandlerGoesOn(p) \/ ConnectionBreaks(p) PROVE Leads(L)' /\ term' = term
  <2>1. UNCHANGED <<nodeVars, threads, requests>>
    BY <1>5 DEF HandlerGoesOn, Commit, FindNoFlag, AnswerOk, AnswerRedirect, ConnectionBreaks
  <2>2. \E q : puts' = (puts \ {p}) \cup {q} /\ q.server = L
    <3>1. ASSUME NEW pc, Becomes(p, pc) PROVE \E q : puts' = (puts \ {p}) \cup {q} /\ q.server = L
      <4>1. [p EXCEPT !.pc = pc].server = L
        BY <1>1 DEF Put
      <4> QED
        BY <3>1, <4>1 DEF Becomes
    <3>2. CASE ConnectionBreaks(p)
      <4>1. [p EXCEPT !.awaited = FALSE].server = L
        BY <1>1 DEF Put
      <4> QED
        BY <3>2, <4>1 DEF ConnectionBreaks
    <3> QED
      BY <1>5, <3>1, <3>2 DEF HandlerGoesOn, Commit, FindNoFlag, AnswerOk, AnswerRedirect
  <2> QED
    BY <2>1, <2>2 DEF Leads
<1>6. ASSUME NEW s \in Server, Apply(s) PROVE Leads(L)' /\ term' = term
  BY <1>6 DEF Apply, Leads
<1>7. ASSUME NEW t \in threads, FirstCall(t) \/ StepBack(t) \/ StepForward(t)
      PROVE  Leads(L)' /\ term' = term
  <2>1. UNCHANGED <<nodeVars, puts>>
    BY <1>7 DEF FirstCall, StepBack, StepForward
  <2>2. \E u \in Thread : u.server = L /\ u.pc # "REDIRECT" /\ Call(t, u)
    <3>1. CASE FirstCall(t)
      BY <1>1, <3>1 DEF FirstCall
    <3>2. CASE StepBack(t)
      <4> DEFINE u == [t EXCEPT !.prev = @ - 1]
      <4>1. u \in Thread /\ u.server = L /\ u.pc # "REDIRECT"
        BY <1>1 DEF Thread
      <4>2. Call(t, u)
        BY <3>2 DEF StepBack
      <4> HIDE DEF u
      <4> QED
        BY <4>1, <4>2
    <3>3. CASE StepForward(t)
      <4> DEFINE u == [t EXCEPT !.prev = @ + 1, !.forward = TRUE]
      <4>1. u \in Thread /\ u.server = L /\ u.pc # "REDIRECT"
        <5>1. t.prev + 1 \in Int
          BY <1>1 DEF Thread
        <5> QED
          BY <1>1, <5>1 DEF Thread
      <4>2. Call(t, u)
        BY <3>3 DEF StepForward
      <4> HIDE DEF u
      <4> QED
        BY <4>1, <4>2
    <3> QED
      BY <1>7, <3>1, <3>2, <3>3
  <2> QED
    BY <2>1, <2>2, CallOfLeader
<1>8. ASSUME NEW t \in threads, Acknowledged(t) PROVE Leads(L)' /\ term' = term
  <2>1. \A p \in puts : [p EXCEPT !.acks = @ \cup {t.to}].server = L
    BY <1>1 DEF Put
  <2>2. \A p \in puts' : p.server = L
    BY <1>1, <1>8, <2>1 DEF Acknowledged
  <2> QED
    BY <1>8, <2>2 DEF Acknowledged, ThreadEnds, Leads
<1>9. ASSUME NEW t \in threads, NotAcknowledged(t) \/ CallFails(t) PROVE Leads(L)' /\ term' = term
  BY <1>9 DEF NotAcknowledged, CallFails, ThreadEnds, Leads
<1>10. \A t \in threads : ~LearnLaterTerm(t)
  BY <1>1 DEF LearnLaterTerm
<1>11. ASSUME NEW r \in requests, AppendEntries(r) PROVE Leads(L)' /\ term' = term
  <2>1. Reply(r, "OK") \/ Reply(r, "REJECT")
    <3>1. ~SenderIsOutdated(r)
      BY <1>1 DEF SenderIsOutdated
    <3> QED
      BY <1>11, <3>1 DEF AppendEntries, RefuseOutdated, StartAnew, InsertEntry, RejectMismatch
  <2>2. ASSUME NEW code \in {"OK", "REJECT"}, Reply(r, code)
        PROVE  \A t \in threads' : t.server = L /\ t.pc # "REDIRECT"
    <3>1. \A t \in threads : LET u == [t EXCEPT !.pc = code, !.reply_term = term[r.to]]
                             IN u.server = L /\ u.pc = code
      BY <1>1 DEF Thread
    <3> QED
      BY <1>1, <2>2, <3>1 DEF Reply
  <2>3. \A t \in threads' : t.server = L /\ t.pc # "REDIRECT"
    BY <2>1, <2>2
  <2> QED
    BY <2>1, <2>3 DEF Reply, Leads
<1>12. ASSUME NEW i \in Server, NEW j \in Server,
              Campaign(i) \/ Vote(j, i) \/ RefuseVote(j, i) \/ Heartbeat(i, j)
       PROVE  Leads(L)' /\ term' = term
  BY <1>12, ElectionsAreOver DEF Leads
<1> QED
  BY <1>2, <1>3, <1>4, <1>5, <1>6, <1>7, <1>8, <1>9, <1>10, <1>11, <1>12
     DEF Next, broadcastEntry

-----------------------------------------------------------------------------
(* Steps of the logs.                                                      *)

\* What a log has up to an index is what another has.
SameUpTo(l, m, n) ==
  \A k \in 0..n : m.entries[k].term = l.entries[k].term /\ m.entries[k].cmd = l.entries[k].cmd

\* For well-formed logs: both reach up to the index, and have the same there.
LEMMA AgreeMeans ==
  ASSUME NEW l, NEW m, LogOK(l), LogOK(m), NEW n \in Int
  PROVE  AgreeUpTo(l, m, n) <=>
           n <= l.log_idx /\ n <= m.log_idx /\ SameUpTo(l, m, n)
<1>1. /\ l.log_idx \in Int /\ m.log_idx \in Int /\ -1 <= l.log_idx /\ -1 <= m.log_idx
      /\ DOMAIN l.entries = 0..l.log_idx /\ DOMAIN m.entries = 0..m.log_idx
  BY DEF LogOK, WellFormed
<1>2. ASSUME AgreeUpTo(l, m, n) PROVE n <= l.log_idx /\ n <= m.log_idx
  <2>1. CASE n < 0
    BY <1>1, <2>1
  <2>2. CASE 0 <= n
    <3>1. n \in DOMAIN l.entries /\ n \in DOMAIN m.entries
      BY <1>2, <2>2 DEF AgreeUpTo
    <3> QED
      BY <1>1, <3>1
  <2> QED
    BY <2>1, <2>2
<1>3. ASSUME n <= l.log_idx, n <= m.log_idx, NEW k \in 0..n
      PROVE  k \in DOMAIN l.entries /\ k \in DOMAIN m.entries
  BY <1>1, <1>3
<1> QED
  BY <1>2, <1>3 DEF AgreeUpTo, SameUpTo

LEMMA AgreeLess ==
  ASSUME NEW l, NEW m, NEW n \in Int, AgreeUpTo(l, m, n), NEW k \in Int, k <= n
  PROVE  AgreeUpTo(l, m, k)
<1>1. \A i \in 0..k : i \in 0..n
  OBVIOUS
<1> QED
  BY <1>1 DEF AgreeUpTo

LEMMA AgreesWithItself ==
  ASSUME NEW l, LogOK(l), NEW n \in Int, n <= l.log_idx
  PROVE  AgreeUpTo(l, l, n)
  BY AgreeMeans DEF SameUpTo

\* What every step keeps: the log of L only grows, and agreement with it stays.
Grows(L) ==
  /\ log[L].log_idx <= log'[L].log_idx
  /\ SameUpTo(log[L], log'[L], log[L].log_idx)
  /\ \A i \in Server : \A k \in Int : Agrees(L, i, k) => Agrees(L, i, k)'

\* Terms, commands and lengths stay, the commit index of followers too.
LEMMA QuietLogs ==
  ASSUME TypeInv, TypeInv', NEW L \in Server, Leads(L), LogsMatch(L), UNCHANGED term,
         \A i \in Server : /\ log'[i].log_idx = log[i].log_idx
                           /\ SameUpTo(log[i], log'[i], log[i].log_idx)
                           /\ i = L \/ log'[i].last_commit_idx = log[i].last_commit_idx
  PROVE  Grows(L) /\ LogsMatch(L)'
<1>1. /\ \A i \in Server : LogOK(log[i]) /\ LogOK(log'[i]) /\ log[i].log_idx \in Int
      /\ \A i \in Server : /\ log'[i].last_commit_idx \in Int
                           /\ log'[i].last_commit_idx <= log'[i].log_idx
      /\ term[L] \in Nat
  BY DEF TypeInv, TypeOK, ServersOK, LogsOK, LogOK, WellFormed
<1>2. ASSUME NEW i \in Server, NEW k \in Int PROVE Agrees(L, i, k)' <=> Agrees(L, i, k)
  <2>1. Agrees(L, i, k) <=>
          /\ k <= log[L].log_idx /\ k <= log[i].log_idx
          /\ SameUpTo(log[L], log[i], k)
    BY <1>1, AgreeMeans DEF Agrees
  <2>2. Agrees(L, i, k)' <=>
          /\ k <= log'[L].log_idx /\ k <= log'[i].log_idx
          /\ SameUpTo(log'[L], log'[i], k)
    BY <1>1, AgreeMeans DEF Agrees
  <2>3. CASE k <= log[L].log_idx /\ k <= log[i].log_idx
    <3>1. \A j \in 0..k : j \in 0..log[L].log_idx /\ j \in 0..log[i].log_idx
      BY <1>1, <2>3
    <3> QED
      BY <2>1, <2>2, <3>1 DEF SameUpTo
  <2>4. CASE ~(k <= log[L].log_idx /\ k <= log[i].log_idx)
    BY <2>1, <2>2, <2>4
  <2> QED
    BY <2>3, <2>4
<1>3. Grows(L)
  BY <1>1, <1>2 DEF Grows
<1>4. ASSUME NEW i \in Server
      PROVE  /\ Agrees(L, i, 0)'
             /\ Agrees(L, i, log[i].last_commit_idx)'
             /\ \A k \in 0..log'[L].log_idx \cap 0..log'[i].log_idx :
                  log'[L].entries[k].term = log'[i].entries[k].term => Agrees(L, i, k)'
             /\ \A k \in 0..log'[i].log_idx :
                  /\ log'[i].entries[k].term <= term'[L]
                  /\ log'[i].entries[k].term = term'[L] => k <= log'[L].log_idx
  <2>1. Agrees(L, i, 0)'
    BY <1>2 DEF LogsMatch, LogMatches, Agrees
  <2>2. Agrees(L, i, log[i].last_commit_idx)'
    <3>1. CASE i = L
      BY <1>1, <3>1, AgreesWithItself DEF Agrees
    <3>2. CASE i # L
      BY <1>1, <1>2, <3>2 DEF LogsMatch, LogMatches, Agrees
    <3> QED
      BY <3>1, <3>2
  <2>3. \A k \in 0..log'[L].log_idx \cap 0..log'[i].log_idx :
          log'[L].entries[k].term = log'[i].entries[k].term => Agrees(L, i, k)'
    BY <1>1, <1>2 DEF LogsMatch, LogMatches, Agrees, SameUpTo
  <2>4. \A k \in 0..log'[i].log_idx :
          /\ log'[i].entries[k].term <= term'[L]
          /\ log'[i].entries[k].term = term'[L] => k <= log'[L].log_idx
    BY <1>1 DEF LogsMatch, LogMatches, Agrees, SameUpTo
  <2> QED
    BY <2>1, <2>2, <2>3, <2>4
<1> QED
  BY <1>3, <1>4 DEF LogsMatch, LogMatches, Agrees

\* A put of L: nobody has an entry of its term at the new index.
LEMMA PutLogs ==
  ASSUME TypeInv, TypeInv', NEW L \in Server, Leads(L), LogsMatch(L), UNCHANGED term,
         NEW cmd \in Command, log' = [log EXCEPT ![L] = append(@, term[L], cmd)]
  PROVE  /\ Grows(L) /\ LogsMatch(L)'
         /\ log'[L].log_idx = log[L].log_idx + 1
         /\ log'[L].entries[log'[L].log_idx].cmd = cmd
         /\ log'[L].last_applied_idx = log[L].last_applied_idx
         /\ log'[L].db = log[L].db
         /\ log'[L].last_commit_idx = log[L].last_commit_idx
         /\ \A k \in 0..log[L].log_idx : log'[L].entries[k] = log[L].entries[k]
         /\ ~log'[L].entries[log'[L].log_idx].commit_done
         /\ \A i \in Server : i # L => log'[i] = log[i]
<1> DEFINE l == log[L]
           m == append(l, term[L], cmd)
           n == l.log_idx + 1
<1>1. /\ \A i \in Server : LogOK(log[i]) /\ LogOK(log'[i]) /\ log[i].log_idx \in Int
      /\ \A i \in Server : log'[i].last_commit_idx <= log'[i].log_idx
      /\ \A i \in Server : log'[i].last_commit_idx \in Int /\ log'[i].log_idx \in Int
      /\ -1 <= l.log_idx
      /\ term[L] \in Nat
  BY SMTT(30) DEF TypeInv, TypeOK, ServersOK, LogsOK, LogOK, WellFormed
<1>2. \A i \in Server : log'[i] = IF i = L THEN m ELSE log[i]
  BY DEF TypeInv, TypeOK, LogsOK
<1>3. /\ m.log_idx = n /\ m.entries[n] = Uncommitted(term[L], cmd)
      /\ m.last_commit_idx = l.last_commit_idx /\ m.last_applied_idx = l.last_applied_idx
      /\ m.db = l.db
      /\ \A k \in 0..l.log_idx : m.entries[k] = l.entries[k]
  <2>1. LogOK(l)
    BY <1>1
  <2> HIDE DEF l
  <2>2. /\ LogOK(m) /\ m.log_idx = n
        /\ m.last_commit_idx = l.last_commit_idx
        /\ m.last_applied_idx = l.last_applied_idx
        /\ m.db = l.db
        /\ m.last_applied_command_per_client = l.last_applied_command_per_client
        /\ m.entries[m.log_idx] = Uncommitted(term[L], cmd)
        /\ \A k \in 0..l.log_idx : m.entries[k] = l.entries[k]
    BY <1>1, <2>1, AppendOK, SMTT(60)
  <2> QED
    BY <2>2
<1> HIDE DEF m
<1>4. \A k \in 0..n : k \in 0..l.log_idx \/ k = n
  BY <1>1
<1>5. ASSUME NEW i \in Server, NEW k \in Int, Agrees(L, i, k) PROVE Agrees(L, i, k)'
  <2>1. /\ k <= l.log_idx /\ k <= log[i].log_idx
        /\ SameUpTo(l, log[i], k)
    BY <1>1, <1>5, AgreeMeans DEF Agrees
  <2>2. \A j \in 0..k : j \in 0..l.log_idx
    BY <1>1, <2>1
  <2>3. /\ k <= log'[L].log_idx /\ k <= log'[i].log_idx
        /\ SameUpTo(log'[L], log'[i], k)
    BY <1>1, <1>2, <1>3, <2>1, <2>2 DEF SameUpTo
  <2> QED
    BY <1>1, <2>3, AgreeMeans DEF Agrees
<1>6. Grows(L)
  <2>1. l.log_idx <= n
    BY <1>1
  <2> QED
    BY <1>2, <1>3, <1>5, <2>1 DEF Grows, SameUpTo
<1>7. ASSUME NEW i \in Server
      PROVE  /\ Agrees(L, i, 0)'
             /\ Agrees(L, i, log[i].last_commit_idx)'
             /\ \A k \in 0..log'[L].log_idx \cap 0..log'[i].log_idx :
                  log'[L].entries[k].term = log'[i].entries[k].term => Agrees(L, i, k)'
             /\ \A k \in 0..log'[i].log_idx :
                  /\ log'[i].entries[k].term <= term'[L]
                  /\ log'[i].entries[k].term = term'[L] => k <= log'[L].log_idx
  <2>1. Agrees(L, i, 0)'
    BY <1>5 DEF LogsMatch, LogMatches, Agrees
  <2>2. CASE i = L
    <3>1. \A k \in Int : k <= log'[L].log_idx => Agrees(L, L, k)'
      BY <1>1, AgreesWithItself DEF Agrees
    <3>2. \A k \in 0..log'[L].log_idx : /\ log'[L].entries[k].term <= term'[L]
                                        /\ k <= log'[L].log_idx
      BY <1>1, <1>2, <1>3, <1>4 DEF LogsMatch, LogMatches, Agrees, Uncommitted
    <3> QED
      BY <1>1, <2>1, <2>2, <3>1, <3>2
  <2>3. CASE i # L
    <3>1. log'[i] = log[i]
      BY <1>2, <2>3
    <3>2. Agrees(L, i, log[i].last_commit_idx)'
      BY <1>1, <1>5, <3>1 DEF LogsMatch, LogMatches, Agrees
    <3>3. \A k \in 0..log[i].log_idx :
            /\ log[i].entries[k].term <= term[L]
            /\ log[i].entries[k].term = term[L] => k <= l.log_idx
      BY DEF LogsMatch, LogMatches, Agrees
    <3>4. ASSUME NEW k \in 0..n \cap 0..log[i].log_idx, m.entries[k].term = log[i].entries[k].term
          PROVE  k \in 0..l.log_idx
      BY <1>1, <1>3, <1>4, <3>3, <3>4 DEF Uncommitted
    <3>5. \A k \in 0..log'[L].log_idx \cap 0..log'[i].log_idx :
            log'[L].entries[k].term = log'[i].entries[k].term => Agrees(L, i, k)'
      <4> SUFFICES ASSUME NEW k \in 0..n \cap 0..log[i].log_idx,
                          m.entries[k].term = log[i].entries[k].term
                   PROVE  Agrees(L, i, k)'
        BY <1>2, <1>3, <3>1
      <4>1. k \in 0..l.log_idx
        BY <3>4
      <4>2. Agrees(L, i, k)
        BY <1>3, <4>1 DEF LogsMatch, LogMatches, Agrees
      <4> QED
        BY <1>5, <4>2
    <3>6. \A k \in 0..log'[i].log_idx :
            /\ log'[i].entries[k].term <= term'[L]
            /\ log'[i].entries[k].term = term'[L] => k <= log'[L].log_idx
      BY <1>1, <1>2, <1>3, <3>1, <3>3
    <3> QED
      BY <2>1, <3>2, <3>5, <3>6
  <2> QED
    BY <2>2, <2>3
<1>8. LogsMatch(L)'
  BY <1>7 DEF LogsMatch, LogMatches, Agrees
<1> QED
  BY <1>2, <1>3, <1>6, <1>8 DEF Uncommitted

\* What a follower has after it has accepted a request: the entry of the request at
\* its index, what it had elsewhere, and the commit index no further than the
\* request says, nor than the entry.
LEMMA InsertedLog ==
  ASSUME TypeInv, NEW r \in requests, 0 <= r.prev_log_index, PreviousMatches(r), InsertEntry(r)
  PROVE  LET l == log[r.to]
             m == log'[r.to]
             index == r.prev_log_index + 1
         IN /\ m.log_idx = IF index = l.log_idx + 1 THEN index ELSE l.log_idx
            /\ index <= m.log_idx
            /\ m.entries[index].term = r.term /\ m.entries[index].cmd = r.entry
            /\ \A k \in 0..l.log_idx : k # index =>
                 m.entries[k].term = l.entries[k].term /\ m.entries[k].cmd = l.entries[k].cmd
            /\ \/ m.last_commit_idx = l.last_commit_idx
               \/ m.last_commit_idx <= index /\ m.last_commit_idx <= r.lastCommitIndex
            /\ m.last_applied_idx = l.last_applied_idx /\ m.db = l.db
            /\ \A i \in Server : i # r.to => log'[i] = log[i]
<1> DEFINE l == log[r.to]
           index == r.prev_log_index + 1
           i == insert_at(l, index, EntryTerm(r), r.entry)
           c == CommitIndex(r, InsertedAt(l, index))
           m == commit_upto(i, c)
<1>1. /\ r.to \in Server /\ LogOK(l) /\ LogsOK /\ index \in Nat /\ EntryTerm(r) \in Nat
      /\ r.entry \in Command /\ r.lastCommitIndex \in Int /\ r.prev_log_index \in Int
      /\ l.log_idx \in Int /\ l.last_commit_idx \in Int
  BY SMTT(30) DEF TypeInv, TypeOK, LogsOK, HandlersInv, RequestInv, Request, EntryTerm, LogOK
<1>2. log' = [log EXCEPT ![r.to] = m]
  BY DEF InsertEntry, LogBecomes
<1>3. log'[r.to] = m /\ \A j \in Server : j # r.to => log'[j] = log[j]
  <2> HIDE DEF m
  <2> QED
    BY <1>1, <1>2 DEF LogsOK
<1>4. index <= l.log_idx + 1
  BY <1>1 DEF PreviousMatches
<1>5. InsertedAt(l, index) = index
  BY <1>1, <1>4 DEF InsertedAt
<1> HIDE DEF l, index
<1>6. LogOK(i)
  BY <1>1, InsertAtOK
<1>7. /\ i.last_commit_idx = l.last_commit_idx
      /\ i.last_applied_idx = l.last_applied_idx /\ i.db = l.db
  BY <1>1, InsertAtOK, ZenonT(60)
<1>8. /\ i.entries[index] = Uncommitted(EntryTerm(r), r.entry)
      /\ i.log_idx = IF index = l.log_idx + 1 THEN index ELSE l.log_idx
  BY <1>1, <1>5, InsertAtOK, ZenonT(60)
<1>9. \A k \in 0..l.log_idx : k # index => i.entries[k] = l.entries[k]
  BY <1>1, InsertAtOK
<1>10. c \in Int /\ c <= index /\ c <= r.lastCommitIndex
  BY <1>1, <1>5 DEF CommitIndex
<1> HIDE DEF i, c
<1>11. /\ LogOK(m) /\ m.log_idx = i.log_idx
       /\ m.last_applied_idx = i.last_applied_idx /\ m.db = i.db
       /\ i.last_commit_idx <= m.last_commit_idx
       /\ m.last_commit_idx > i.last_commit_idx => m.last_commit_idx <= c
       /\ \A k \in 0..i.log_idx : /\ m.entries[k].term = i.entries[k].term
                                  /\ m.entries[k].cmd = i.entries[k].cmd
  BY <1>6, <1>10, CommitUptoOK
<1>12. m.last_commit_idx \in Int
  BY <1>11 DEF LogOK
<1> HIDE DEF m
<1>13. index \in 0..i.log_idx /\ \A k \in 0..l.log_idx : k \in 0..i.log_idx
  BY <1>1, <1>4, <1>8
<1>14. m.entries[index].term = r.term /\ m.entries[index].cmd = r.entry
  BY <1>8, <1>11, <1>13 DEF Uncommitted, EntryTerm
<1>15. \A k \in 0..l.log_idx : k # index =>
         m.entries[k].term = l.entries[k].term /\ m.entries[k].cmd = l.entries[k].cmd
  BY <1>9, <1>11, <1>13
<1>16. \/ m.last_commit_idx = l.last_commit_idx
       \/ m.last_commit_idx <= index /\ m.last_commit_idx <= r.lastCommitIndex
  BY <1>1, <1>7, <1>10, <1>11, <1>12
<1>17. index <= m.log_idx
  BY <1>1, <1>4, <1>8, <1>11
<1>18. m.last_applied_idx = l.last_applied_idx /\ m.db = l.db
  BY <1>7, <1>11
<1> QED
  BY <1>3, <1>8, <1>11, <1>14, <1>15, <1>16, <1>17, <1>18 DEF l, index

\* The log that has accepted an entry of the leader's log a after one that both have.
LEMMA InsertMatches ==
  ASSUME NEW a, NEW l, NEW m, LogOK(a), LogOK(l), LogOK(m), NEW t \in Nat,
         LogMatches(a, a, t), LogMatches(a, l, t),
         NEW n \in Nat, n + 1 <= a.log_idx, AgreeUpTo(a, l, n),
         m.log_idx = IF n + 1 = l.log_idx + 1 THEN n + 1 ELSE l.log_idx,
         n + 1 <= m.log_idx,
         m.entries[n + 1].term = a.entries[n + 1].term,
         m.entries[n + 1].cmd = a.entries[n + 1].cmd,
         \A k \in 0..l.log_idx : k # n + 1 =>
           m.entries[k].term = l.entries[k].term /\ m.entries[k].cmd = l.entries[k].cmd,
         m.last_commit_idx = l.last_commit_idx \/ m.last_commit_idx <= n + 1
  PROVE  /\ AgreeUpTo(a, m, n + 1)
         /\ \A k \in Int : AgreeUpTo(a, l, k) => AgreeUpTo(a, m, k)
         /\ LogMatches(a, m, t)
<1>1. /\ a.log_idx \in Int /\ l.log_idx \in Int /\ m.log_idx \in Int
      /\ m.last_commit_idx \in Int /\ n + 1 \in Int /\ n + 1 \in 0..a.log_idx
  BY DEF LogOK
<1>2. ASSUME NEW j \in 0..m.log_idx, j # n + 1
      PROVE  /\ j \in 0..l.log_idx
             /\ m.entries[j].term = l.entries[j].term /\ m.entries[j].cmd = l.entries[j].cmd
  BY <1>1, <1>2
<1>3. ASSUME NEW k \in Int, k <= a.log_idx, k <= m.log_idx,
             \A j \in 0..k : j = n + 1 \/ (a.entries[j].term = l.entries[j].term /\ a.entries[j].cmd = l.entries[j].cmd)
      PROVE  AgreeUpTo(a, m, k)
  <2>1. ASSUME NEW j \in 0..k
        PROVE  m.entries[j].term = a.entries[j].term /\ m.entries[j].cmd = a.entries[j].cmd
    <3>1. j \in 0..m.log_idx
      BY <1>1, <1>3
    <3> QED
      BY <1>2, <1>3, <3>1
  <2> QED
    BY <1>3, <2>1, AgreeMeans DEF SameUpTo
<1>4. AgreeUpTo(a, m, n + 1)
  <2>1. SameUpTo(a, l, n)
    BY AgreeMeans
  <2>2. \A j \in 0..n + 1 : j = n + 1 \/ j \in 0..n
    OBVIOUS
  <2> QED
    BY <1>1, <1>3, <2>1, <2>2 DEF SameUpTo
<1>5. ASSUME NEW k \in Int, AgreeUpTo(a, l, k) PROVE AgreeUpTo(a, m, k)
  <2>1. k <= a.log_idx /\ k <= l.log_idx /\ SameUpTo(a, l, k)
    BY <1>5, AgreeMeans
  <2>2. k <= m.log_idx
    BY <1>1, <2>1
  <2> QED
    BY <1>3, <2>1, <2>2 DEF SameUpTo
<1>6. AgreeUpTo(a, m, 0)
  BY <1>5 DEF LogMatches
<1>7. AgreeUpTo(a, m, m.last_commit_idx)
  <2>1. CASE m.last_commit_idx = l.last_commit_idx
    BY <1>1, <1>5, <2>1 DEF LogMatches
  <2>2. CASE m.last_commit_idx <= n + 1
    BY <1>1, <1>4, <2>2, AgreeLess
  <2> QED
    BY <2>1, <2>2
<1>8. ASSUME NEW k \in 0..a.log_idx \cap 0..m.log_idx, a.entries[k].term = m.entries[k].term
      PROVE  AgreeUpTo(a, m, k)
  <2>1. CASE k = n + 1
    BY <1>4, <2>1
  <2>2. CASE k # n + 1
    <3>1. k \in 0..a.log_idx \cap 0..l.log_idx /\ a.entries[k].term = l.entries[k].term
      BY <1>2, <1>8, <2>2
    <3>2. AgreeUpTo(a, l, k)
      BY <3>1 DEF LogMatches
    <3> QED
      BY <1>5, <3>2
  <2> QED
    BY <2>1, <2>2
<1>9. ASSUME NEW k \in 0..m.log_idx
      PROVE  m.entries[k].term <= t /\ (m.entries[k].term = t => k <= a.log_idx)
  <2>1. CASE k = n + 1
    BY <1>1, <2>1 DEF LogMatches
  <2>2. CASE k # n + 1
    BY <1>2, <2>2 DEF LogMatches
  <2> QED
    BY <2>1, <2>2
<1> QED
  BY <1>4, <1>5, <1>6, <1>7, <1>8, <1>9 DEF LogMatches

\* An accepted request brings the follower to agree with L up to its entry.
LEMMA InsertLogs ==
  ASSUME TypeInv, TypeInv', NEW L \in Server, Leads(L), LogsMatch(L), UNCHANGED term,
         NEW r \in requests, RequestMatches(L, r), InsertEntry(r)
  PROVE  /\ Grows(L) /\ LogsMatch(L)'
         /\ log'[L] = log[L]
         /\ \A n \in Int : n = r.prev_log_index + 1 => Agrees(L, r.to, n)'
<1> DEFINE n == r.prev_log_index
<1>1. /\ \A i \in Server : LogOK(log[i]) /\ LogOK(log'[i])
      /\ r.to \in Server /\ r.to # L /\ n \in Nat /\ term[L] \in Nat
  <2>1. /\ \A i \in Server : LogOK(log[i]) /\ LogOK(log'[i])
        /\ RequestInv(r) /\ term[L] \in Nat
    BY DEF TypeInv, TypeOK, LogsOK, ServersOK, HandlersInv
  <2> QED
    BY <2>1 DEF RequestInv, Request, RequestMatches
<1>2. PreviousMatches(r)
  BY DEF InsertEntry
<1> HIDE DEF n
<1>3. PICK l, m, a : l = log[r.to] /\ m = log'[r.to] /\ a = log[L]
  OBVIOUS
<1>4. /\ m.log_idx = IF n + 1 = l.log_idx + 1 THEN n + 1 ELSE l.log_idx
      /\ n + 1 <= m.log_idx
      /\ m.entries[n + 1].term = r.term /\ m.entries[n + 1].cmd = r.entry
      /\ \A k \in 0..l.log_idx : k # n + 1 =>
           m.entries[k].term = l.entries[k].term /\ m.entries[k].cmd = l.entries[k].cmd
      /\ m.last_commit_idx = l.last_commit_idx \/ m.last_commit_idx <= n + 1
      /\ \A i \in Server : i # r.to => log'[i] = log[i]
  <2>1. 0 <= r.prev_log_index
    BY <1>1 DEF n
  <2> QED
    BY <1>2, <1>3, <2>1, InsertedLog DEF n
<1>5. log'[L] = a
  BY <1>1, <1>3, <1>4
<1>6. /\ n + 1 <= a.log_idx
      /\ a.entries[n + 1].term = r.term /\ a.entries[n + 1].cmd = r.entry
      /\ a.entries[n].term = r.prev_term
  BY <1>3 DEF RequestMatches, n
<1>7. n <= l.log_idx /\ l.entries[n].term = r.prev_term
  BY <1>2, <1>3 DEF PreviousMatches, n
<1>8. LogOK(a) /\ LogOK(l) /\ LogOK(m) /\ LogMatches(a, a, term[L]) /\ LogMatches(a, l, term[L])
  BY <1>1, <1>3 DEF LogsMatch
<1>9. AgreeUpTo(a, l, n)
  <2>1. n \in 0..a.log_idx \cap 0..l.log_idx
    BY <1>1, <1>6, <1>7, <1>8 DEF LogOK
  <2> QED
    BY <1>6, <1>7, <1>8, <2>1 DEF LogMatches
<1>10. /\ AgreeUpTo(a, m, n + 1)
       /\ \A k \in Int : AgreeUpTo(a, l, k) => AgreeUpTo(a, m, k)
       /\ LogMatches(a, m, term[L])
  BY <1>1, <1>4, <1>6, <1>8, <1>9, InsertMatches
<1>11. ASSUME NEW i \in Server, NEW k \in Int, Agrees(L, i, k) PROVE Agrees(L, i, k)'
  <2>1. CASE i = r.to
    BY <1>3, <1>5, <1>10, <1>11, <2>1 DEF Agrees
  <2>2. CASE i # r.to
    BY <1>3, <1>4, <1>5, <1>11, <2>2 DEF Agrees
  <2> QED
    BY <2>1, <2>2
<1>12. Grows(L)
  BY <1>3, <1>5, <1>8, <1>11 DEF Grows, SameUpTo, LogOK
<1>13. LogsMatch(L)'
  <2>1. \A i \in Server : LogMatches(log'[L], log'[i], term'[L])
    <3> SUFFICES ASSUME NEW i \in Server PROVE LogMatches(a, log'[i], term[L])
      BY <1>5
    <3>1. CASE i = r.to
      BY <1>3, <1>10, <3>1
    <3>2. CASE i # r.to
      BY <1>3, <1>4, <3>2 DEF LogsMatch
    <3> QED
      BY <3>1, <3>2
  <2> QED
    BY <2>1 DEF LogsMatch
<1>14. \A k \in Int : k = r.prev_log_index + 1 => Agrees(L, r.to, k)'
  BY <1>3, <1>5, <1>10 DEF Agrees, n
<1> QED
  BY <1>3, <1>5, <1>12, <1>13, <1>14

-----------------------------------------------------------------------------
(* The replicas keep matching.                                             *)

LEMMA CommitLogs ==
  ASSUME TypeInv, TypeInv', NEW L \in Server, Leads(L), ReplicasMatch(L), UNCHANGED term,
         NEW p \in puts, Commit(p)
  PROVE  Grows(L) /\ LogsMatch(L)'
<1>1. /\ p.server = L /\ LogOK(log[L]) /\ LogsOK /\ p.idx \in Int
      /\ \A i \in Server : LogOK(log[i])
  <2>1. p \in Put /\ LogsOK /\ p.server = L
    BY DEF TypeInv, TypeOK, HandlersInv, PutInv, Leads
  <2> QED
    BY <2>1 DEF Put, LogsOK
<1>2. CASE p.idx <= log[p.server].log_idx
  <2>1. log' = [log EXCEPT ![L] = commit(@, p.idx)]
    BY <1>1, <1>2 DEF Commit
  <2>2. p.idx \in 0..log[L].log_idx
    <3>1. p.idx \in Nat
      BY DEF TypeInv, HandlersInv, PutInv, Commit, Broadcast, Pending
    <3> QED
      BY <1>1, <1>2, <3>1 DEF LogOK
  <2>3. \A i \in Server : log'[i] = IF i = L THEN commit(log[L], p.idx) ELSE log[i]
    BY <1>1, <2>1 DEF LogsOK
  <2>4. /\ commit(log[L], p.idx).log_idx = log[L].log_idx
        /\ SameUpTo(log[L], commit(log[L], p.idx), log[L].log_idx)
    BY <1>1, <2>2, CommitOK DEF SameUpTo
  <2>5. \A i \in Server : /\ log'[i].log_idx = log[i].log_idx
                          /\ SameUpTo(log[i], log'[i], log[i].log_idx)
                          /\ i = L \/ log'[i].last_commit_idx = log[i].last_commit_idx
    BY <2>3, <2>4 DEF SameUpTo
  <2> QED
    BY <2>5, QuietLogs DEF ReplicasMatch
<1>3. CASE ~(p.idx <= log[p.server].log_idx)
  <2>1. UNCHANGED log
    BY <1>3 DEF Commit
  <2> QED
    BY <2>1, QuietLogs DEF ReplicasMatch, SameUpTo
<1> QED
  BY <1>2, <1>3

LEMMA ApplyLogs ==
  ASSUME TypeInv, TypeInv', NEW L \in Server, Leads(L), ReplicasMatch(L), UNCHANGED term,
         NEW s \in Server, Apply(s)
  PROVE  Grows(L) /\ LogsMatch(L)'
<1>1. LogsOK /\ LogOK(log[s]) /\ log' = [log EXCEPT ![s] = apply(@)]
  BY DEF TypeInv, TypeOK, LogsOK, Apply
<1>2. \A i \in Server : log'[i] = IF i = s THEN apply(log[s]) ELSE log[i]
  BY <1>1 DEF LogsOK
<1>3. /\ apply(log[s]).log_idx = log[s].log_idx
      /\ apply(log[s]).entries = log[s].entries
      /\ apply(log[s]).last_commit_idx = log[s].last_commit_idx
  BY <1>1, ApplyOK
<1>4. \A i \in Server : /\ log'[i].log_idx = log[i].log_idx
                        /\ SameUpTo(log[i], log'[i], log[i].log_idx)
                        /\ i = L \/ log'[i].last_commit_idx = log[i].last_commit_idx
  BY <1>2, <1>3 DEF SameUpTo
<1> QED
  BY <1>4, QuietLogs DEF ReplicasMatch

\* Of the handler's branches only two are taken: the term is the sender's, and its
\* entry is not the first.
LEMMA LeadersRequest ==
  ASSUME TypeInv, NEW L \in Server, Leads(L), ReplicasMatch(L),
         NEW r \in requests, AppendEntries(r)
  PROVE  InsertEntry(r) \/ (RejectMismatch(r) /\ r.prev_log_index # 0)
<1>1. /\ r.to \in Server /\ r.to # L /\ term[r.to] = r.current_term /\ term[r.to] \in Nat
      /\ RequestMatches(L, r) /\ r.prev_log_index \in Int
  <2>1. r \in Request /\ r.to # r.server
    BY DEF TypeInv, HandlersInv, RequestInv
  <2>2. r.to \in Server /\ r.prev_log_index \in Int
    BY <2>1 DEF Request
  <2> QED
    BY <2>1, <2>2 DEF TypeInv, TypeOK, ServersOK, Leads, ReplicasMatch
<1>2. ~SenderIsOutdated(r)
  BY <1>1 DEF SenderIsOutdated
<1>3. r.prev_log_index # -1
  BY <1>1 DEF RequestMatches
<1>4. InsertEntry(r) \/ RejectMismatch(r)
  BY <1>2, <1>3 DEF AppendEntries, RefuseOutdated, StartAnew
<1>5. ASSUME r.prev_log_index = 0 PROVE PreviousMatches(r)
  <2>1. AgreeUpTo(log[L], log[r.to], 0)
    BY <1>1 DEF ReplicasMatch, LogsMatch, LogMatches
  <2>2. LogOK(log[L]) /\ LogOK(log[r.to])
    BY <1>1 DEF TypeInv, TypeOK, LogsOK
  <2>3. 0 <= log[r.to].log_idx /\ log[r.to].entries[0].term = log[L].entries[0].term
    BY <2>1, <2>2, AgreeMeans DEF SameUpTo
  <2> QED
    BY <1>1, <1>5, <2>2, <2>3 DEF RequestMatches, PreviousMatches, LogOK
<1> QED
  BY <1>4, <1>5 DEF RejectMismatch

LEMMA LogsStep ==
  ASSUME TypeInv, TypeInv', NEW L \in Server, Leads(L), ReplicasMatch(L),
         \A i \in Server : Campaigns[i] = {}, [Next]_vars
  PROVE  Grows(L) /\ LogsMatch(L)'
<1>1. term' = term /\ LogsMatch(L)
  BY LeaderStays DEF ReplicasMatch
<1>2. ASSUME UNCHANGED log PROVE Grows(L) /\ LogsMatch(L)'
  BY <1>1, <1>2, QuietLogs DEF SameUpTo
<1>3. CASE UNCHANGED vars
  BY <1>2, <1>3 DEF vars
<1>4. ASSUME NEW s \in Server, NEW cmd \in todo, HandlePut(s, cmd) \/ RepeatPut(s, cmd)
      PROVE  Grows(L) /\ LogsMatch(L)'
  <2>1. cmd \in Command
    BY DEF TypeInv, TypeOK, HandlersOK
  <2>2. CASE HandlePut(s, cmd)
    <3>1. s = L /\ log' = [log EXCEPT ![L] = append(@, term[L], cmd)]
      BY <2>2 DEF HandlePut, Leads
    <3> QED
      BY <1>1, <2>1, <3>1, PutLogs
  <2>3. CASE RepeatPut(s, cmd)
    BY <1>2, <2>3 DEF RepeatPut
  <2> QED
    BY <1>4, <2>2, <2>3
<1>5. ASSUME NEW p \in puts, HandlerGoesOn(p) \/ ConnectionBreaks(p)
      PROVE  Grows(L) /\ LogsMatch(L)'
  <2>1. Commit(p) \/ UNCHANGED log
    BY <1>5 DEF HandlerGoesOn, FindNoFlag, AnswerOk, AnswerRedirect, ConnectionBreaks
  <2> QED
    BY <1>1, <1>2, <2>1, CommitLogs
<1>6. ASSUME NEW s \in Server, Apply(s) PROVE Grows(L) /\ LogsMatch(L)'
  BY <1>1, <1>6, ApplyLogs
<1>7. ASSUME NEW t \in threads, broadcastEntry(t) \/ CallFails(t)
      PROVE  Grows(L) /\ LogsMatch(L)'
  <2>1. UNCHANGED log
    BY <1>7 DEF broadcastEntry, FirstCall, Acknowledged, StepBack, StepForward,
       LearnLaterTerm, NotAcknowledged, CallFails
  <2> QED
    BY <1>2, <2>1
<1>8. ASSUME NEW r \in requests, AppendEntries(r) PROVE Grows(L) /\ LogsMatch(L)'
  <2>1. CASE InsertEntry(r)
    BY <1>1, <2>1, InsertLogs DEF ReplicasMatch
  <2>2. CASE RejectMismatch(r)
    BY <1>2, <2>2 DEF RejectMismatch
  <2> QED
    BY <1>8, <2>1, <2>2, LeadersRequest
<1>9. ASSUME NEW i \in Server, NEW j \in Server,
             Campaign(i) \/ Vote(j, i) \/ RefuseVote(j, i) \/ Heartbeat(i, j)
      PROVE  Grows(L) /\ LogsMatch(L)'
  BY <1>2, <1>9, ElectionsAreOver
<1> QED
  BY <1>3, <1>4, <1>5, <1>6, <1>7, <1>8, <1>9 DEF Next

\* What matched the log of L still does when that log has grown.
LEMMA MatchesStay ==
  ASSUME TypeInv, TypeInv', NEW L \in Server, Grows(L)
  PROVE  /\ \A r \in Request : RequestMatches(L, r) => RequestMatches(L, r)'
         /\ \A t \in Thread : ThreadMatches(L, t) => ThreadMatches(L, t)'
         /\ \A p \in Put : PutMatches(L, p) => PutMatches(L, p)'
<1>1. /\ log[L].log_idx \in Int /\ log'[L].log_idx \in Int
      /\ log[L].log_idx <= log'[L].log_idx
      /\ \A k \in 0..log[L].log_idx : /\ log'[L].entries[k].term = log[L].entries[k].term
                                      /\ log'[L].entries[k].cmd = log[L].entries[k].cmd
  BY DEF TypeInv, TypeOK, LogsOK, LogOK, Grows, SameUpTo
<1>2. \A i \in Server : \A k \in Int : Agrees(L, i, k) => Agrees(L, i, k)'
  BY DEF Grows
<1>3. ASSUME NEW r \in Request, RequestMatches(L, r) PROVE RequestMatches(L, r)'
  <2> DEFINE k == r.prev_log_index
  <2>1. k \in Int /\ 0 <= k /\ k + 1 <= log[L].log_idx
    BY <1>3 DEF Request, RequestMatches
  <2>2. k \in 0..log[L].log_idx /\ k + 1 \in 0..log[L].log_idx /\ k + 1 <= log'[L].log_idx
    BY <1>1, <2>1
  <2> QED
    BY <1>1, <1>3, <2>1, <2>2 DEF RequestMatches
<1>4. ASSUME NEW t \in Thread, ThreadMatches(L, t) PROVE ThreadMatches(L, t)'
  <2>1. t.to \in Server /\ t.prev \in Int /\ t.idx \in Int /\ t.prev + 1 \in Int
    BY DEF Thread
  <2>2. t.idx <= log'[L].log_idx
    BY <1>1, <1>4, <2>1 DEF ThreadMatches
  <2>3. t.pc = "OK" => Agrees(L, t.to, t.prev + 1)'
    BY <1>2, <1>4, <2>1 DEF ThreadMatches
  <2> QED
    BY <1>4, <2>2, <2>3 DEF ThreadMatches
<1>5. ASSUME NEW p \in Put, PutMatches(L, p) PROVE PutMatches(L, p)'
  <2>1. p.idx \in Int /\ p.acks \in SUBSET Server
    BY DEF Put
  <2>2. p.idx # -1 => p.idx \in 0..log'[L].log_idx /\ log'[L].entries[p.idx].cmd = p.cmd
    BY <1>1, <1>5, <2>1 DEF PutMatches
  <2>3. \A f \in p.acks : f # L /\ Agrees(L, f, p.idx)'
    BY <1>2, <1>5, <2>1 DEF PutMatches
  <2> QED
    BY <2>2, <2>3 DEF PutMatches
<1> QED
  BY <1>3, <1>4, <1>5

\* A put keeps its index and its acknowledgements, and has its command.
LEMMA PutGoesOn ==
  ASSUME TypeInv, NEW p \in puts, HandlerGoesOn(p) \/ ConnectionBreaks(p)
  PROVE  \E q : /\ puts' = (puts \ {p}) \cup {q}
                /\ q.idx = p.idx /\ q.cmd = p.cmd /\ q.acks = p.acks
<1>1. p \in Put
  BY DEF TypeInv, HandlersInv, PutInv
<1>2. ASSUME NEW pc, Becomes(p, pc)
      PROVE  \E q : /\ puts' = (puts \ {p}) \cup {q}
                    /\ q.idx = p.idx /\ q.cmd = p.cmd /\ q.acks = p.acks
  <2> DEFINE q == [p EXCEPT !.pc = pc]
  <2>1. q.idx = p.idx /\ q.cmd = p.cmd /\ q.acks = p.acks
    BY <1>1 DEF Put
  <2>2. puts' = (puts \ {p}) \cup {q}
    BY <1>2 DEF Becomes
  <2> HIDE DEF q
  <2> QED
    BY <2>1, <2>2
<1>3. CASE ConnectionBreaks(p)
  <2> DEFINE q == [p EXCEPT !.awaited = FALSE]
  <2>1. q.idx = p.idx /\ q.cmd = p.cmd /\ q.acks = p.acks
    BY <1>1 DEF Put
  <2>2. puts' = (puts \ {p}) \cup {q}
    BY <1>3 DEF ConnectionBreaks
  <2> HIDE DEF q
  <2> QED
    BY <2>1, <2>2
<1> QED
  BY <1>2, <1>3 DEF HandlerGoesOn, Commit, FindNoFlag, AnswerOk, AnswerRedirect

\* A call is for an index that L has, and its request carries what L has there.
LEMMA CallMatches ==
  ASSUME TypeInv, NEW L \in Server, Leads(L), ReplicasMatch(L), UNCHANGED log,
         NEW t \in threads, NEW u \in Thread, Call(t, u),
         u.server = L, u.to # L, 0 <= u.prev, u.idx <= log[L].log_idx
  PROVE  /\ \A r \in requests' : RequestMatches(L, r)
         /\ \A v \in threads' : ThreadMatches(L, v)
<1>1. CASE u.prev + 1 <= log[u.server].log_idx
  <2> DEFINE v == [u EXCEPT !.pc = "calling"]
             r == create_log_entry_request(u)
  <2>1. threads' = (threads \ {t}) \cup {v} /\ requests' = requests \cup {r}
    BY <1>1 DEF Call
  <2>2. v.prev = u.prev /\ v.idx = u.idx /\ v.pc = "calling"
    BY DEF Thread
  <2>3. u.prev \in Int
    BY DEF Thread
  <2>4. RequestMatches(L, r)
    BY <1>1, <2>3 DEF create_log_entry_request, PrevTerm, RequestMatches
  <2> HIDE DEF v, r
  <2>5. ThreadMatches(L, v)
    BY <2>2 DEF ThreadMatches
  <2> QED
    BY <2>1, <2>4, <2>5 DEF ReplicasMatch
<1>2. CASE ~(u.prev + 1 <= log[u.server].log_idx)
  BY <1>2 DEF Call, ThreadEnds, ReplicasMatch
<1> QED
  BY <1>1, <1>2

LEMMA ThreadReplicas ==
  ASSUME TypeInv, NEW L \in Server, Leads(L), ReplicasMatch(L), UNCHANGED log,
         NEW t \in threads, broadcastEntry(t) \/ CallFails(t)
  PROVE  /\ \A r \in requests' : RequestMatches(L, r)
         /\ \A u \in threads' : ThreadMatches(L, u)
         /\ \A p \in puts' : PutMatches(L, p)
<1>1. /\ t \in Thread /\ t.server = L /\ t.to \in Server /\ t.to # L /\ t.prev \in Int
      /\ 0 <= t.prev /\ t.prev < t.idx /\ t.idx \in Int /\ t.idx <= log[L].log_idx
      /\ ThreadMatches(L, t)
  <2>1. ThreadInv(t) /\ t.server = L /\ ThreadMatches(L, t)
    BY DEF TypeInv, HandlersInv, Leads, ReplicasMatch
  <2> QED
    BY <2>1 DEF ThreadInv, Thread, ThreadMatches
<1>2. CASE FirstCall(t) \/ StepBack(t) \/ StepForward(t)
  <2>1. \E u \in Thread : /\ Call(t, u)
                          /\ u.server = L /\ u.to # L /\ 0 <= u.prev /\ u.idx <= log[L].log_idx
    <3>1. CASE FirstCall(t)
      BY <1>1, <3>1 DEF FirstCall
    <3>2. CASE StepBack(t)
      <4> DEFINE u == [t EXCEPT !.prev = @ - 1]
      <4>1. t.prev - 1 \in Int /\ 0 <= t.prev - 1
        BY <1>1, <3>2 DEF StepBack, ThreadMatches
      <4>2. /\ u \in Thread /\ u.server = L /\ u.to = t.to /\ u.prev = t.prev - 1
            /\ u.idx = t.idx
        BY <1>1, <4>1 DEF Thread
      <4>3. Call(t, u)
        BY <3>2 DEF StepBack
      <4> HIDE DEF u
      <4> QED
        BY <1>1, <4>1, <4>2, <4>3
    <3>3. CASE StepForward(t)
      <4> DEFINE u == [t EXCEPT !.prev = @ + 1, !.forward = TRUE]
      <4>1. t.prev + 1 \in Int /\ 0 <= t.prev + 1
        BY <1>1
      <4>2. /\ u \in Thread /\ u.server = L /\ u.to = t.to /\ u.prev = t.prev + 1
            /\ u.idx = t.idx
        BY <1>1, <4>1 DEF Thread
      <4>3. Call(t, u)
        BY <3>3 DEF StepForward
      <4> HIDE DEF u
      <4> QED
        BY <1>1, <4>1, <4>2, <4>3
    <3> QED
      BY <1>2, <3>1, <3>2, <3>3
  <2>2. UNCHANGED puts
    BY <1>2 DEF FirstCall, StepBack, StepForward
  <2> QED
    BY <2>1, <2>2, CallMatches DEF ReplicasMatch
<1>3. CASE Acknowledged(t)
  <2>1. Agrees(L, t.to, t.idx) /\ threads' = threads \ {t} /\ UNCHANGED requests
    <3>1. t.pc = "OK" /\ t.prev + 1 = t.idx
      BY <1>1, <1>3 DEF Acknowledged, AtOwnEntry
    <3> QED
      BY <1>1, <1>3, <3>1 DEF Acknowledged, ThreadEnds, ThreadMatches
  <2>2. ASSUME NEW p \in puts
        PROVE  /\ PutMatches(L, p)
               /\ t \in ThreadsOf(p) => PutMatches(L, [p EXCEPT !.acks = @ \cup {t.to}])
    <3>1. PutMatches(L, p) /\ p \in Put
      BY DEF ReplicasMatch, TypeInv, HandlersInv, PutInv
    <3>2. ASSUME t \in ThreadsOf(p) PROVE PutMatches(L, [p EXCEPT !.acks = @ \cup {t.to}])
      <4> DEFINE q == [p EXCEPT !.acks = @ \cup {t.to}]
      <4>1. q.idx = p.idx /\ q.cmd = p.cmd /\ q.acks = p.acks \cup {t.to}
        BY <3>1 DEF Put
      <4>2. t.idx = p.idx
        BY <3>2 DEF ThreadsOf
      <4> HIDE DEF q
      <4>3. PutMatches(L, q)
        BY <1>1, <2>1, <3>1, <4>1, <4>2 DEF PutMatches
      <4> QED
        BY <4>3 DEF q
    <3> QED
      BY <3>1, <3>2
  <2>3. \A p \in puts' : PutMatches(L, p)
    BY <1>3, <2>2 DEF Acknowledged
  <2> QED
    BY <2>1, <2>3 DEF ReplicasMatch
<1>4. CASE NotAcknowledged(t) \/ CallFails(t)
  BY <1>4 DEF NotAcknowledged, CallFails, ThreadEnds, ReplicasMatch
<1>5. ~LearnLaterTerm(t)
  BY DEF LearnLaterTerm, Leads
<1> QED
  BY <1>2, <1>3, <1>4, <1>5 DEF broadcastEntry

\* The reply brings the waiting thread the agreement, or the rejection of an entry
\* after the first.
LEMMA ReplyReplicas ==
  ASSUME TypeInv, TypeInv', NEW L \in Server, Leads(L), ReplicasMatch(L), UNCHANGED term,
         Grows(L), NEW r \in requests, AppendEntries(r)
  PROVE  /\ \A q \in requests' : RequestMatches(L, q)'
         /\ \A t \in threads' : ThreadMatches(L, t)'
         /\ \A p \in puts' : PutMatches(L, p)'
<1>1. /\ \A q \in requests : q \in Request /\ RequestMatches(L, q)'
      /\ \A t \in threads : t \in Thread /\ ThreadMatches(L, t)'
      /\ \A p \in puts : PutMatches(L, p)'
  <2>1. /\ \A q \in requests : q \in Request /\ RequestMatches(L, q)
        /\ \A t \in threads : t \in Thread /\ ThreadMatches(L, t)
        /\ \A p \in puts : p \in Put /\ PutMatches(L, p)
    BY DEF TypeInv, HandlersInv, RequestInv, ThreadInv, PutInv, ReplicasMatch
  <2> QED
    BY <2>1, MatchesStay
<1>2. PICK code \in {"OK", "REJECT"} :
        /\ Reply(r, code)
        /\ code = "OK" => \A k \in Int : k = r.prev_log_index + 1 => Agrees(L, r.to, k)'
        /\ code = "REJECT" => r.prev_log_index # 0
  <2>1. CASE InsertEntry(r)
    <3>1. Reply(r, "OK")
      BY <2>1 DEF InsertEntry
    <3>2. \A k \in Int : k = r.prev_log_index + 1 => Agrees(L, r.to, k)'
      BY <2>1, InsertLogs DEF ReplicasMatch
    <3> QED
      BY <3>1, <3>2
  <2>2. CASE RejectMismatch(r) /\ r.prev_log_index # 0
    BY <2>2 DEF RejectMismatch
  <2> QED
    BY <2>1, <2>2, LeadersRequest
<1>3. requests' \subseteq requests /\ UNCHANGED puts
  BY <1>2 DEF Reply
<1>4. ASSUME NEW t \in threads, Serves(r, t)
      PROVE  ThreadMatches(L, [t EXCEPT !.pc = code, !.reply_term = term[r.to]])'
  <2>1. t \in Thread /\ t.to = r.to /\ t.prev = r.prev_log_index /\ ThreadMatches(L, t)'
    BY <1>1, <1>4 DEF Serves
  <2>2. t.prev + 1 \in Int
    BY <2>1 DEF Thread
  <2>3. code = "OK" => Agrees(L, t.to, t.prev + 1)'
    BY <1>2, <2>1, <2>2
  <2>4. PICK u : u = [t EXCEPT !.pc = code, !.reply_term = term[r.to]]
    OBVIOUS
  <2>5. u.to = t.to /\ u.prev = t.prev /\ u.idx = t.idx /\ u.pc = code
    BY <2>1, <2>4 DEF Thread
  <2>6. ThreadMatches(L, u)'
    BY <1>2, <2>1, <2>3, <2>5 DEF ThreadMatches
  <2> QED
    BY <2>4, <2>6
<1>5. \A t \in threads' : ThreadMatches(L, t)'
  BY <1>1, <1>2, <1>4 DEF Reply
<1> QED
  BY <1>1, <1>3, <1>5

LEMMA PutReplicas ==
  ASSUME TypeInv, TypeInv', NEW L \in Server, Leads(L), ReplicasMatch(L), UNCHANGED term,
         NEW s \in Server, NEW cmd \in todo, HandlePut(s, cmd)
  PROVE  /\ \A t \in threads' : ThreadMatches(L, t)'
         /\ \A p \in puts' : PutMatches(L, p)'
<1>1. s = L /\ cmd \in Command /\ log' = [log EXCEPT ![L] = append(@, term[L], cmd)]
  BY DEF HandlePut, Leads, TypeInv, TypeOK, HandlersOK
<1>2. /\ Grows(L) /\ log'[L].log_idx = log[L].log_idx + 1
      /\ log'[L].entries[log'[L].log_idx].cmd = cmd
  BY <1>1, PutLogs DEF ReplicasMatch
<1>3. log[L].log_idx \in Int /\ 0 <= log[L].log_idx
  <2>1. AgreeUpTo(log[L], log[L], 0) /\ LogOK(log[L])
    BY DEF TypeInv, TypeOK, LogsOK, ReplicasMatch, LogsMatch, LogMatches
  <2>2. 0 <= log[L].log_idx
    BY <2>1, AgreeMeans
  <2> QED
    BY <2>1, <2>2 DEF LogOK
<1>4. /\ \A t \in threads : ThreadMatches(L, t)'
      /\ \A p \in puts : PutMatches(L, p)'
  <2>1. /\ \A t \in threads : t \in Thread /\ ThreadMatches(L, t)
        /\ \A p \in puts : p \in Put /\ PutMatches(L, p)
    BY DEF TypeInv, HandlersInv, ThreadInv, PutInv, ReplicasMatch
  <2> QED
    BY <1>2, <2>1, MatchesStay
<1>5. PICK n : n = log'[L].log_idx
  OBVIOUS
<1>6. PutMatches(L, NewPut(L, cmd, n, "waiting"))'
  <2>1. n \in 0..log'[L].log_idx /\ log'[L].entries[n].cmd = cmd
    BY <1>2, <1>3, <1>5
  <2> QED
    BY <2>1 DEF NewPut, PutMatches
<1>7. \A f \in Server : ThreadMatches(L, NewThread(L, cmd, n, f))'
  <2>1. 0 <= n - 1 /\ n <= log'[L].log_idx
    BY <1>2, <1>3, <1>5
  <2> QED
    BY <2>1 DEF NewThread, ThreadMatches
<1>8. puts' = puts \cup {NewPut(L, cmd, n, "waiting")}
  BY <1>1, <1>5 DEF HandlePut
<1>9. threads' = threads \cup {NewThread(L, cmd, n, f) : f \in Peers(L)}
  BY <1>1, <1>5 DEF HandlePut
<1> QED
  BY <1>4, <1>6, <1>7, <1>8, <1>9 DEF Peers

LEMMA ReplicasStep ==
  ASSUME TypeInv, TypeInv', NEW L \in Server, Leads(L), ReplicasMatch(L),
         \A i \in Server : Campaigns[i] = {}, [Next]_vars
  PROVE  ReplicasMatch(L)'
<1>1. term' = term /\ Grows(L) /\ LogsMatch(L)'
  BY LeaderStays, LogsStep
<1>2. /\ \A r \in Request : RequestMatches(L, r) => RequestMatches(L, r)'
      /\ \A t \in Thread : ThreadMatches(L, t) => ThreadMatches(L, t)'
      /\ \A p \in Put : PutMatches(L, p) => PutMatches(L, p)'
  BY <1>1, MatchesStay
<1>3. /\ \A r \in requests : r \in Request /\ RequestMatches(L, r)
      /\ \A t \in threads : t \in Thread /\ ThreadMatches(L, t)
      /\ \A p \in puts : p \in Put /\ PutMatches(L, p)
  BY DEF TypeInv, HandlersInv, RequestInv, ThreadInv, PutInv, ReplicasMatch
<1> DEFINE Rs == \A r \in requests' : RequestMatches(L, r)'
           Ts == \A t \in threads' : ThreadMatches(L, t)'
           Ps == \A p \in puts' : PutMatches(L, p)'
<1>4. /\ UNCHANGED requests => Rs
      /\ UNCHANGED threads => Ts
      /\ UNCHANGED puts => Ps
  BY <1>2, <1>3
<1>5. SUFFICES Rs /\ Ts /\ Ps
  BY <1>1 DEF ReplicasMatch
<1> HIDE DEF Rs, Ts, Ps
<1>6. CASE UNCHANGED vars
  BY <1>4, <1>6 DEF vars
<1>7. ASSUME NEW s \in Server, NEW cmd \in todo, HandlePut(s, cmd) PROVE Rs /\ Ts /\ Ps
  <2>1. Ts /\ Ps
    BY <1>1, <1>7, PutReplicas DEF Ts, Ps
  <2> QED
    BY <1>4, <1>7, <2>1 DEF HandlePut
<1>8. ASSUME NEW s \in Server, NEW cmd \in todo, RepeatPut(s, cmd) PROVE Rs /\ Ts /\ Ps
  <2>1. PutMatches(L, NewPut(s, cmd, -1, "ok"))'
    BY DEF NewPut, PutMatches
  <2>2. Ps
    BY <1>2, <1>3, <1>8, <2>1 DEF RepeatPut, Ps
  <2> QED
    BY <1>4, <1>8, <2>2 DEF RepeatPut
<1>9. ASSUME NEW p \in puts, HandlerGoesOn(p) \/ ConnectionBreaks(p) PROVE Rs /\ Ts /\ Ps
  <2>1. UNCHANGED <<threads, requests>>
    BY <1>9 DEF HandlerGoesOn, Commit, FindNoFlag, AnswerOk, AnswerRedirect, ConnectionBreaks
  <2>2. PICK q : /\ puts' = (puts \ {p}) \cup {q}
                 /\ q.idx = p.idx /\ q.cmd = p.cmd /\ q.acks = p.acks
    BY <1>9, PutGoesOn
  <2>3. PutMatches(L, q)'
    <3>1. PutMatches(L, p)'
      BY <1>2, <1>3
    <3> QED
      BY <2>2, <3>1 DEF PutMatches
  <2>4. Ps
    BY <1>2, <1>3, <2>2, <2>3 DEF Ps
  <2> QED
    BY <1>4, <2>1, <2>4
<1>10. ASSUME NEW s \in Server, Apply(s) PROVE Rs /\ Ts /\ Ps
  BY <1>4, <1>10 DEF Apply
<1>11. ASSUME NEW t \in threads, broadcastEntry(t) \/ CallFails(t) PROVE Rs /\ Ts /\ Ps
  <2>1. UNCHANGED log
    BY <1>11 DEF broadcastEntry, FirstCall, Acknowledged, StepBack, StepForward,
       LearnLaterTerm, NotAcknowledged, CallFails
  <2>2. /\ \A r \in requests' : RequestMatches(L, r)
        /\ \A u \in threads' : ThreadMatches(L, u)
        /\ \A p \in puts' : PutMatches(L, p)
    BY <1>11, <2>1, ThreadReplicas
  <2>3. /\ requests' \subseteq Request /\ threads' \subseteq Thread /\ puts' \subseteq Put
    BY DEF TypeInv, TypeOK, HandlersOK
  <2> QED
    BY <1>2, <2>2, <2>3 DEF Rs, Ts, Ps
<1>12. ASSUME NEW r \in requests, AppendEntries(r) PROVE Rs /\ Ts /\ Ps
  BY <1>1, <1>12, ReplyReplicas DEF Rs, Ts, Ps
<1>13. ASSUME NEW i \in Server, NEW j \in Server,
              Campaign(i) \/ Vote(j, i) \/ RefuseVote(j, i) \/ Heartbeat(i, j)
       PROVE  Rs /\ Ts /\ Ps
  BY <1>4, <1>13, ElectionsAreOver
<1> QED
  BY <1>6, <1>7, <1>8, <1>9, <1>10, <1>11, <1>12, <1>13 DEF Next

-----------------------------------------------------------------------------
(* What an election that was just held leaves.                             *)

LEMMA InitReplicas ==
  ASSUME TypeInv, OneLeaderOnly, Init
  PROVE  \E L \in Server : Leads(L) /\ ReplicasMatch(L)
<1>1. PICK s \in Setups :
        /\ term = [i \in Server |-> s.term]
        /\ status = [i \in Server |-> IF i = s.leader THEN "LEADER" ELSE "FOLLOWER"]
        /\ leader_id = [i \in Server |-> s.leader]
        /\ log = s.log
        /\ puts = {} /\ threads = {} /\ requests = {}
  BY DEF Init
<1>2. Plausible(s) /\ Settled(s)
  BY SetupAssumption DEF OneLeaderOnly
<1>3. s.leader \in Server
  BY <1>2 DEF Plausible
<1>4. Leads(s.leader)
  BY <1>1, <1>3 DEF Leads
<1>5. ASSUME NEW i \in Server PROVE LogMatches(log[s.leader], log[i], term[s.leader])
  <2>1. /\ AgreeUpTo(log[s.leader], log[i], 0)
        /\ \A k \in 0..log[s.leader].log_idx \cap 0..log[i].log_idx :
             log[s.leader].entries[k].term = log[i].entries[k].term =>
               AgreeUpTo(log[s.leader], log[i], k)
        /\ AgreeUpTo(log[s.leader], log[i], log[i].last_commit_idx)
    BY <1>1, <1>2 DEF Settled
  <2>2. \A k \in 0..log[i].log_idx :
          /\ log[i].entries[k].term <= s.term
          /\ log[i].entries[k].term = s.term => k <= log[s.leader].log_idx
    BY <1>1, <1>2 DEF Plausible
  <2>3. term[s.leader] = s.term
    BY <1>1, <1>3
  <2> QED
    BY <2>1, <2>2, <2>3 DEF LogMatches
<1>6. ReplicasMatch(s.leader)
  BY <1>1, <1>5 DEF ReplicasMatch, LogsMatch
<1> QED
  BY <1>3, <1>4, <1>6

-----------------------------------------------------------------------------
(* The databases, and what the leader knows of the clients.                *)

\* What the applied entries show stays while these entries stay.
LEMMA QuietDatabase ==
  ASSUME NEW l, NEW m, LogOK(l), SameUpTo(l, m, l.last_applied_idx),
         m.last_applied_idx = l.last_applied_idx
  PROVE  /\ ShowsApplied(l) /\ m.db = l.db => ShowsApplied(m)
         /\ KnowsApplied(l)
            /\ m.last_applied_command_per_client = l.last_applied_command_per_client
              => KnowsApplied(m)
<1>1. \A k \in 0..l.last_applied_idx : m.entries[k].cmd = l.entries[k].cmd
  BY DEF SameUpTo
<1>2. l.last_applied_idx \in Int
  BY DEF LogOK
<1>3. ASSUME NEW i \in 0..l.last_applied_idx, NEW j \in i + 1..l.last_applied_idx
      PROVE  j \in 0..l.last_applied_idx
  BY <1>2
<1>4. ASSUME ShowsApplied(l), m.db = l.db PROVE ShowsApplied(m)
  BY <1>1, <1>3, <1>4 DEF ShowsApplied
<1>5. ASSUME KnowsApplied(l),
             m.last_applied_command_per_client = l.last_applied_command_per_client
      PROVE  KnowsApplied(m)
  BY <1>1, <1>5 DEF KnowsApplied
<1> QED
  BY <1>4, <1>5

\* A round of apply lets a key show the last of its newly applied puts, or leaves it
\* as it was.
LEMMA ApplyDatabase ==
  ASSUME NEW l, LogOK(l)
  PROVE  /\ ShowsApplied(l) => ShowsApplied(apply(l))
         /\ KnowsApplied(l) => KnowsApplied(apply(l))
<1> DEFINE m == apply(l)
           new == l.last_applied_idx + 1..l.last_commit_idx
<1>1. /\ m.entries = l.entries /\ m.last_applied_idx = l.last_commit_idx
      /\ \A k \in Key :
           \/ \E j \in new :
                /\ l.entries[j].cmd.key = k /\ m.db[k] = l.entries[j].cmd
                /\ \A i \in new : l.entries[i].cmd.key = k => i <= j
           \/ m.db[k] = l.db[k] /\ \A i \in new : l.entries[i].cmd.key # k
      /\ \A c \in Client :
           \/ \E j \in new :
                /\ l.entries[j].cmd.client = c
                /\ m.last_applied_command_per_client[c] = l.entries[j].cmd.seq
           \/ m.last_applied_command_per_client[c] =
                l.last_applied_command_per_client[c]
  BY ApplyOK
<1>2. /\ l.last_applied_idx \in Int /\ l.last_commit_idx \in Int
      /\ -1 <= l.last_applied_idx /\ l.last_applied_idx <= l.last_commit_idx
  BY DEF LogOK, WellFormed
<1>3. \A i \in 0..l.last_commit_idx : i \in 0..l.last_applied_idx \/ i \in new
  BY <1>2
<1>4. \A j \in new : j \in 0..l.last_commit_idx /\ \A i \in j + 1..l.last_commit_idx : i \in new
  BY <1>2
<1>5. \A i \in 0..l.last_applied_idx :
        /\ i \in 0..l.last_commit_idx
        /\ \A j \in i + 1..l.last_commit_idx : j \in i + 1..l.last_applied_idx \/ j \in new
  BY <1>2
<1> HIDE DEF m
<1>6. ASSUME ShowsApplied(l), NEW k \in Key
      PROVE  \/ \E i \in 0..l.last_commit_idx :
                  /\ l.entries[i].cmd.key = k /\ m.db[k] = l.entries[i].cmd
                  /\ \A j \in i + 1..l.last_commit_idx : l.entries[j].cmd.key # k
             \/ /\ \A i \in 0..l.last_commit_idx : l.entries[i].cmd.key # k
                /\ m.db[k] = NoCommand
  <2>1. CASE \E j \in new :
               /\ l.entries[j].cmd.key = k /\ m.db[k] = l.entries[j].cmd
               /\ \A i \in new : l.entries[i].cmd.key = k => i <= j
    <3>1. PICK j \in new :
            /\ l.entries[j].cmd.key = k /\ m.db[k] = l.entries[j].cmd
            /\ \A i \in new : l.entries[i].cmd.key = k => i <= j
      BY <2>1
    <3>2. \A i \in j + 1..l.last_commit_idx : i \in new /\ ~(i <= j)
      BY <1>2
    <3> QED
      BY <1>4, <3>1, <3>2
  <2>2. CASE m.db[k] = l.db[k] /\ \A i \in new : l.entries[i].cmd.key # k
    <3>1. CASE \E i \in 0..l.last_applied_idx :
                 /\ l.entries[i].cmd.key = k /\ l.db[k] = l.entries[i].cmd
                 /\ \A j \in i + 1..l.last_applied_idx : l.entries[j].cmd.key # k
      <4> HIDE DEF new
      <4> QED
        BY <1>5, <2>2, <3>1
    <3>2. CASE /\ \A i \in 0..l.last_applied_idx : l.entries[i].cmd.key # k
               /\ l.db[k] = NoCommand
      <4> HIDE DEF new
      <4> QED
        BY <1>3, <2>2, <3>2
    <3> QED
      BY <1>6, <3>1, <3>2 DEF ShowsApplied
  <2> QED
    BY <1>1, <2>1, <2>2
<1>7. ShowsApplied(l) => ShowsApplied(m)
  BY <1>1, <1>6 DEF ShowsApplied
<1>8. ASSUME KnowsApplied(l), NEW c \in Client,
             m.last_applied_command_per_client[c] # -1
      PROVE  \E i \in 0..l.last_commit_idx :
               /\ l.entries[i].cmd.client = c
               /\ l.entries[i].cmd.seq = m.last_applied_command_per_client[c]
  <2> HIDE DEF new
  <2> QED
    BY <1>1, <1>4, <1>5, <1>8 DEF KnowsApplied
<1>9. KnowsApplied(l) => KnowsApplied(m)
  BY <1>1, <1>8 DEF KnowsApplied
<1> QED
  BY <1>7, <1>9 DEF m

\* What a step does to what a server has applied: a round of apply, or nothing; the
\* leader forgets nothing of its clients, and only a put makes its log longer.
AppliesNothing(L, i) ==
  /\ log'[i].last_applied_idx = log[i].last_applied_idx
  /\ log'[i].db = log[i].db
  /\ i = L => /\ log'[L].last_applied_command_per_client =
                     log[L].last_applied_command_per_client
              /\ \/ log'[L].log_idx = log[L].log_idx
                 \/ \E cmd \in Command : HandlePut(L, cmd)

LEMMA AppliedStep ==
  ASSUME TypeInv, TypeInv', NEW L \in Server, Leads(L), ReplicasMatch(L),
         \A j \in Server : Campaigns[j] = {}, [Next]_vars, NEW i \in Server
  PROVE  log'[i] = apply(log[i]) \/ AppliesNothing(L, i)
<1>1. LogsOK /\ LogOK(log[L]) /\ LogOK(log[i]) /\ term' = term /\ term[L] \in Nat
  BY LeaderStays DEF TypeInv, TypeOK, LogsOK, ServersOK
<1>2. log'[i] = log[i] /\ log'[L] = log[L] => AppliesNothing(L, i)
  BY DEF AppliesNothing
<1>3. CASE UNCHANGED vars
  BY <1>2, <1>3 DEF vars
<1>4. ASSUME NEW s \in Server, NEW cmd \in todo, HandlePut(s, cmd) \/ RepeatPut(s, cmd)
      PROVE  AppliesNothing(L, i)
  <2>1. cmd \in Command
    BY DEF TypeInv, TypeOK, HandlersOK
  <2>2. CASE HandlePut(s, cmd)
    <3>1. s = L /\ log' = [log EXCEPT ![L] = append(@, term[L], cmd)]
      BY <2>2 DEF HandlePut, Leads
    <3>2. log'[L] = append(log[L], term[L], cmd) /\ (i # L => log'[i] = log[i])
      BY <1>1, <3>1 DEF LogsOK
    <3> QED
      BY <1>1, <2>1, <2>2, <3>1, <3>2, AppendOK DEF AppliesNothing
  <2>3. CASE RepeatPut(s, cmd)
    BY <1>2, <2>3 DEF RepeatPut
  <2> QED
    BY <1>4, <2>2, <2>3
<1>5. ASSUME NEW p \in puts, HandlerGoesOn(p) \/ ConnectionBreaks(p)
      PROVE  AppliesNothing(L, i)
  <2>1. p \in Put /\ PutInv(p) /\ p.server = L
    BY DEF TypeInv, HandlersInv, PutInv, Leads
  <2>2. CASE Commit(p) /\ p.idx <= log[p.server].log_idx
    <3>1. log'[L] = commit(log[L], p.idx) /\ (i # L => log'[i] = log[i])
      BY <1>1, <2>1, <2>2 DEF Commit, LogsOK
    <3>2. p.idx \in 0..log[L].log_idx
      BY <1>1, <2>1, <2>2 DEF PutInv, Commit, Broadcast, Pending, LogOK
    <3> QED
      BY <1>1, <3>1, <3>2, CommitOK DEF AppliesNothing
  <2>3. UNCHANGED log \/ (Commit(p) /\ p.idx <= log[p.server].log_idx)
    BY <1>5 DEF HandlerGoesOn, Commit, FindNoFlag, AnswerOk, AnswerRedirect, ConnectionBreaks
  <2> QED
    BY <1>2, <2>2, <2>3
<1>6. ASSUME NEW s \in Server, Apply(s) PROVE log'[i] = apply(log[i]) \/ AppliesNothing(L, i)
  <2>1. \A j \in Server : log'[j] = IF s = j THEN apply(log[j]) ELSE log[j]
    BY <1>1, <1>6 DEF Apply, LogsOK
  <2>2. CASE s = i
    BY <2>1, <2>2
  <2>3. CASE s # i
    BY <2>1, <2>3 DEF AppliesNothing
  <2> QED
    BY <2>2, <2>3
<1>7. ASSUME NEW t \in threads, broadcastEntry(t) \/ CallFails(t) PROVE AppliesNothing(L, i)
  BY <1>2, <1>7 DEF broadcastEntry, FirstCall, Acknowledged, StepBack, StepForward,
     LearnLaterTerm, NotAcknowledged, CallFails
<1>8. ASSUME NEW r \in requests, AppendEntries(r) PROVE AppliesNothing(L, i)
  <2>1. CASE InsertEntry(r)
    <3>1. r \in Request /\ 0 <= r.prev_log_index /\ r.to # L
      BY DEF TypeInv, HandlersInv, RequestInv, ReplicasMatch, RequestMatches
    <3>2. PreviousMatches(r)
      BY <2>1 DEF InsertEntry
    <3>3. /\ log'[r.to].last_applied_idx = log[r.to].last_applied_idx
          /\ log'[r.to].db = log[r.to].db
          /\ \A j \in Server : j # r.to => log'[j] = log[j]
      BY <2>1, <3>1, <3>2, InsertedLog
    <3> QED
      BY <3>1, <3>3 DEF AppliesNothing
  <2>2. CASE RejectMismatch(r)
    BY <1>2, <2>2 DEF RejectMismatch
  <2> QED
    BY <1>8, <2>1, <2>2, LeadersRequest
<1>9. ASSUME NEW s \in Server, NEW j \in Server,
             Campaign(s) \/ Vote(j, s) \/ RefuseVote(j, s) \/ Heartbeat(s, j)
      PROVE  AppliesNothing(L, i)
  BY <1>2, <1>9, ElectionsAreOver
<1> QED
  BY <1>3, <1>4, <1>5, <1>6, <1>7, <1>8, <1>9 DEF Next

\* What a server has applied stays, since the leader has it too.
LEMMA AppliedStays ==
  ASSUME TypeInv, TypeInv', NEW L \in Server, Leads(L), ReplicasMatch(L),
         \A j \in Server : Campaigns[j] = {}, [Next]_vars, NEW i \in Server
  PROVE  /\ log[i].last_applied_idx <= log'[i].last_applied_idx
         /\ log[i].last_applied_idx <= log[L].log_idx
         /\ SameUpTo(log[L], log[i], log[i].last_applied_idx)
         /\ SameUpTo(log[i], log'[i], log[i].last_applied_idx)
<1> DEFINE n == log[i].last_applied_idx
<1>1. /\ LogOK(log[L]) /\ LogOK(log[i]) /\ LogOK(log'[L]) /\ LogOK(log'[i])
  BY DEF TypeInv, TypeOK, LogsOK
<1>2. Grows(L) /\ LogsMatch(L)
  BY LogsStep DEF ReplicasMatch
<1>3. /\ n \in Int /\ log[i].last_commit_idx \in Int /\ n <= log[i].last_commit_idx
      /\ log[L].log_idx \in Int /\ log'[i].last_applied_idx \in Int
  BY <1>1 DEF LogOK, WellFormed
<1>4. Agrees(L, i, n)
  BY <1>2, <1>3, AgreeLess DEF LogsMatch, LogMatches, Agrees
<1>5. n <= log[L].log_idx /\ SameUpTo(log[L], log[i], n)
  BY <1>1, <1>3, <1>4, AgreeMeans DEF Agrees
<1>6. AgreeUpTo(log'[L], log'[i], n)
  BY <1>2, <1>3, <1>4 DEF Grows, Agrees
<1>7. SameUpTo(log'[L], log'[i], n)
  BY <1>1, <1>3, <1>6, AgreeMeans
<1>8. SameUpTo(log[i], log'[i], n)
  <2>1. \A k \in 0..n : k \in 0..log[L].log_idx
    BY <1>3, <1>5
  <2> HIDE DEF n
  <2> QED
    BY <1>2, <1>5, <1>7, <2>1 DEF Grows, SameUpTo
<1>9. n <= log'[i].last_applied_idx
  <2>1. apply(log[i]).last_applied_idx = log[i].last_commit_idx
    BY <1>1, ApplyOK
  <2>2. CASE log'[i] = apply(log[i])
    BY <1>3, <2>1, <2>2
  <2>3. CASE AppliesNothing(L, i)
    BY <1>3, <2>3 DEF AppliesNothing
  <2> QED
    BY <2>2, <2>3, AppliedStep
<1> QED
  BY <1>5, <1>8, <1>9

\* A put is answered OK when its index is applied, or it has none.
LEMMA AnswerMeans ==
  ASSUME TypeInv, NEW L \in Server, Leads(L), [Next]_vars, NEW p \in puts', p.pc = "ok"
  PROVE  \/ \E q \in puts : q.pc = "ok" /\ q.idx = p.idx
         \/ p.idx <= log[L].last_applied_idx
<1>1. \A q \in puts : q \in Put /\ q.server = L
  BY DEF TypeInv, HandlersInv, PutInv, Leads
<1>2. CASE p \in puts
  BY <1>2
<1>3. ASSUME p \notin puts, NEW s \in Server, NEW cmd \in todo,
             HandlePut(s, cmd) \/ RepeatPut(s, cmd)
      PROVE  p.idx <= log[L].last_applied_idx
  <2>1. CASE HandlePut(s, cmd)
    BY <1>3, <2>1 DEF HandlePut, NewPut
  <2>2. CASE RepeatPut(s, cmd)
    <3>1. p.idx = -1
      BY <1>3, <2>2 DEF RepeatPut, NewPut
    <3> QED
      BY <3>1 DEF TypeInv, TypeOK, LogsOK, LogOK, WellFormed
  <2> QED
    BY <1>3, <2>1, <2>2
<1>4. ASSUME p \notin puts, NEW q \in puts, HandlerGoesOn(q) \/ ConnectionBreaks(q)
      PROVE  p.idx <= log[L].last_applied_idx
  <2>1. CASE AnswerOk(q)
    <3>1. p = [q EXCEPT !.pc = "ok"] /\ is_applied(log[q.server], q.idx)
      BY <1>4, <2>1 DEF AnswerOk, Becomes
    <3>2. p.idx = q.idx
      BY <1>1, <3>1 DEF Put
    <3> QED
      BY <1>1, <3>1, <3>2 DEF is_applied
  <2>2. ASSUME NEW pc, pc # "ok", Becomes(q, pc) PROVE FALSE
    <3>1. p = [q EXCEPT !.pc = pc]
      BY <1>4, <2>2 DEF Becomes
    <3> QED
      BY <1>1, <2>2, <3>1 DEF Put
  <2>3. CASE ConnectionBreaks(q)
    <3>1. p = [q EXCEPT !.awaited = FALSE] /\ Pending(q)
      BY <1>4, <2>3 DEF ConnectionBreaks
    <3> QED
      BY <1>1, <3>1 DEF Put, Pending
  <2> QED
    BY <1>4, <2>1, <2>2, <2>3 DEF HandlerGoesOn, Commit, FindNoFlag, AnswerRedirect
<1>5. ASSUME p \notin puts, NEW t \in threads, Acknowledged(t)
      PROVE  \E q \in puts : q.pc = "ok" /\ q.idx = p.idx
  <2>1. PICK q \in puts : p = [q EXCEPT !.acks = @ \cup {t.to}]
    BY <1>5 DEF Acknowledged
  <2>2. q.pc = p.pc /\ q.idx = p.idx
    BY <1>1, <2>1 DEF Put
  <2> QED
    BY <2>2
<1>6. CASE p \notin puts
  <2>1. \/ \E s \in Server, cmd \in todo : HandlePut(s, cmd) \/ RepeatPut(s, cmd)
        \/ \E q \in puts : HandlerGoesOn(q) \/ ConnectionBreaks(q)
        \/ \E t \in threads : Acknowledged(t)
    BY <1>6, ZenonT(60) DEF Next, vars, Apply, broadcastEntry, FirstCall, StepBack, StepForward,
       LearnLaterTerm, NotAcknowledged, CallFails, AppendEntries, RefuseOutdated,
       StartAnew, InsertEntry, RejectMismatch, Reply, Campaign, Vote, RefuseVote,
       Heartbeat, RevertToFollower
  <2> QED
    BY <1>3, <1>4, <1>5, <1>6, <2>1
<1> QED
  BY <1>2, <1>6

LEMMA DatabaseStep ==
  ASSUME TypeInv, TypeInv', NEW L \in Server, Leads(L), ReplicasMatch(L), DatabaseMatches(L),
         \A i \in Server : Campaigns[i] = {}, [Next]_vars
  PROVE  DatabaseMatches(L)'
<1>1. ASSUME NEW i \in Server PROVE LogOK(log[i]) /\ ShowsApplied(log[i])
  BY DEF TypeInv, TypeOK, LogsOK, DatabaseMatches
<1>2. ASSUME NEW i \in Server
      PROVE  ShowsApplied(log'[i]) /\ (i = L => KnowsApplied(log'[i]))
  <2>1. CASE log'[i] = apply(log[i])
    BY <1>1, <2>1, ApplyDatabase DEF DatabaseMatches
  <2>2. CASE AppliesNothing(L, i)
    BY <1>1, <2>2, QuietDatabase, AppliedStays DEF DatabaseMatches, AppliesNothing
  <2> QED
    BY <2>1, <2>2, AppliedStep
<1>3. /\ log[L].last_applied_idx \in Int /\ log'[L].last_applied_idx \in Int
      /\ log[L].last_applied_idx <= log'[L].last_applied_idx
  BY AppliedStays DEF TypeInv, TypeOK, LogsOK, LogOK
<1>4. ASSUME NEW p \in puts', p.pc = "ok" PROVE p.idx <= log'[L].last_applied_idx
  <2>1. p.idx \in Int
    BY DEF TypeInv, TypeOK, HandlersOK, Put
  <2>2. p.idx <= log[L].last_applied_idx
    BY <1>4, AnswerMeans DEF DatabaseMatches
  <2> QED
    BY <1>3, <2>1, <2>2
<1> QED
  BY <1>2, <1>4 DEF DatabaseMatches

-----------------------------------------------------------------------------
(* What the clients and the followers see of one leader.                   *)

UnderOneLeader ==
  \E L \in Server : Leads(L) /\ ReplicasMatch(L) /\ DatabaseMatches(L)

LEMMA InitOneLeader ==
  ASSUME TypeInv, OneLeaderOnly, Init
  PROVE  UnderOneLeader
<1>1. PICK s \in Setups :
        /\ leader_id = [i \in Server |-> s.leader]
        /\ log = s.log /\ puts = {}
  BY DEF Init
<1>2. Plausible(s) /\ Settled(s)
  BY SetupAssumption DEF OneLeaderOnly
<1>3. PICK L \in Server : Leads(L) /\ ReplicasMatch(L)
  BY InitReplicas
<1>4. L = s.leader
  BY <1>1, <1>3 DEF Leads
<1>5. (\A i \in Server : ShowsApplied(log[i])) /\ KnowsApplied(log[L])
  BY <1>1, <1>2, <1>4 DEF Settled
<1> QED
  BY <1>1, <1>3, <1>5 DEF UnderOneLeader, DatabaseMatches

LEMMA UnderOneLeaderStep ==
  ASSUME OneLeaderOnly, TypeInv, UnderOneLeader, [Next]_vars
  PROVE  UnderOneLeader'
<1>1. TypeInv'
  BY StepTypes
<1>2. PICK L \in Server : Leads(L) /\ ReplicasMatch(L) /\ DatabaseMatches(L)
  BY DEF UnderOneLeader
<1>3. Leads(L)' /\ ReplicasMatch(L)' /\ DatabaseMatches(L)'
  BY <1>1, <1>2, LeaderStays, ReplicasStep, DatabaseStep DEF OneLeaderOnly
<1> QED
  BY <1>3 DEF UnderOneLeader

LEMMA UnderOneLeaderInvariant ==
  ASSUME OneLeaderOnly
  PROVE  Spec => [](TypeInv /\ UnderOneLeader)
<1>1. Init => TypeInv /\ UnderOneLeader
  BY InitTypes, InitOneLeader
<1>2. TypeInv /\ UnderOneLeader /\ [Next]_vars => (TypeInv /\ UnderOneLeader)'
  BY StepTypes, UnderOneLeaderStep
<1> QED
  BY <1>1, <1>2, PTL DEF Spec

\* While one server leads, a follower whose acknowledgement a pending put counts
\* has the leader's log up to the put's entry, whatever its log was before: stepping
\* back finds an entry that both have, and stepping forward replaces what differs.
THEOREM CountedAgree ==
  ASSUME OneLeaderOnly
  PROVE  Spec => []CountedFollowersAgree
<1>1. TypeInv /\ UnderOneLeader => CountedFollowersAgree
  BY DEF UnderOneLeader, CountedFollowersAgree, Leads, ReplicasMatch, PutMatches, Agrees
<1> QED
  BY <1>1, UnderOneLeaderInvariant, PTL

\* While one server leads, any two servers have the same entries as far as both
\* have committed.
THEOREM CommittedEntriesAgree ==
  ASSUME OneLeaderOnly
  PROVE  Spec => []CommittedAgree
<1>1. ASSUME TypeInv, UnderOneLeader, NEW i \in Server, NEW j \in Server
      PROVE  AgreeUpTo(log[i], log[j],
               IF log[i].last_commit_idx < log[j].last_commit_idx
               THEN log[i].last_commit_idx ELSE log[j].last_commit_idx)
  <2>1. PICK L \in Server : LogsMatch(L)
    BY <1>1 DEF UnderOneLeader, ReplicasMatch
  <2>2. /\ AgreeUpTo(log[L], log[i], log[i].last_commit_idx)
        /\ AgreeUpTo(log[L], log[j], log[j].last_commit_idx)
    BY <2>1 DEF LogsMatch, LogMatches
  <2>3. log[i].last_commit_idx \in Int /\ log[j].last_commit_idx \in Int
    BY <1>1 DEF TypeInv, TypeOK, LogsOK, LogOK
  <2>4. PICK k \in Int : /\ k = IF log[i].last_commit_idx < log[j].last_commit_idx
                                THEN log[i].last_commit_idx ELSE log[j].last_commit_idx
                         /\ k <= log[i].last_commit_idx /\ k <= log[j].last_commit_idx
    BY <2>3
  <2>5. AgreeUpTo(log[L], log[i], k) /\ AgreeUpTo(log[L], log[j], k)
    BY <2>2, <2>3, <2>4, AgreeLess
  <2> QED
    BY <2>4, <2>5 DEF AgreeUpTo
<1>2. TypeInv /\ UnderOneLeader => CommittedAgree
  BY <1>1 DEF CommittedAgree
<1> QED
  BY <1>2, UnderOneLeaderInvariant, PTL

\* While one server leads, a client whose put was answered OK reads its value, or
\* that of a later put, from the server that answered.
THEOREM GetsSeeAcknowledged ==
  ASSUME OneLeaderOnly
  PROVE  Spec => []GetSeesAcknowledged
<1>1. ASSUME TypeInv, UnderOneLeader, NEW p \in puts, p.pc = "ok", p.idx # -1
      PROVE  \E k \in p.idx..log[p.server].last_applied_idx :
               Get(p.server, p.cmd.key) = log[p.server].entries[k].cmd
  <2>1. PICK L \in Server : Leads(L) /\ ReplicasMatch(L) /\ DatabaseMatches(L)
    BY <1>1 DEF UnderOneLeader
  <2>2. p.server = L /\ p.idx \in 0..log[L].log_idx /\ log[L].entries[p.idx].cmd = p.cmd
    BY <1>1, <2>1 DEF Leads, ReplicasMatch, PutMatches
  <2>3. p.idx <= log[L].last_applied_idx
    BY <1>1, <2>1 DEF DatabaseMatches
  <2>4. p.idx \in 0..log[L].last_applied_idx /\ log[L].last_applied_idx \in Int
    BY <1>1, <2>2, <2>3 DEF TypeInv, TypeOK, LogsOK, LogOK
  <2>5. p.cmd.key \in Key
    BY <1>1 DEF TypeInv, TypeOK, HandlersOK, Put, Key
  <2>6. PICK k \in 0..log[L].last_applied_idx :
          /\ log[L].db[p.cmd.key] = log[L].entries[k].cmd
          /\ \A j \in k + 1..log[L].last_applied_idx : log[L].entries[j].cmd.key # p.cmd.key
    BY <2>1, <2>2, <2>4, <2>5 DEF DatabaseMatches, ShowsApplied
  <2>7. p.idx <= k
    BY <2>2, <2>4, <2>6
  <2>8. k \in p.idx..log[L].last_applied_idx
    BY <2>4, <2>6, <2>7
  <2> QED
    BY <2>2, <2>6, <2>8 DEF Get
<1>2. TypeInv /\ UnderOneLeader => GetSeesAcknowledged
  BY <1>1 DEF GetSeesAcknowledged
<1> QED
  BY <1>2, UnderOneLeaderInvariant, PTL

-----------------------------------------------------------------------------
(* What the acknowledgements are counted for, if every request is put once. *)

\* While no request is put twice, a put is known by its command.
PutsDiffer == IsFiniteSet(puts) /\ \A p, q \in puts : p.cmd = q.cmd => p = q

\* Every thread works for a put that waits, and has not yet got its peer's
\* acknowledgement; no two work for the same put and peer.
ThreadsServePuts ==
  /\ \A t \in threads :
       \E p \in puts : p.cmd = t.cmd /\ p.idx = t.idx /\ p.pc = "waiting" /\ t.to \notin p.acks
  /\ \A t, u \in threads : t.cmd = u.cmd /\ t.to = u.to => t = u

\* The counters count the acknowledgements, and a flag that is set stands for
\* enough of them.
CountersCount(L) ==
  /\ \A c \in DOMAIN counters[L] :
       \E p \in puts : p.cmd = c /\ counters[L][c].majority = Cardinality(p.acks)
  /\ \A c \in DOMAIN ready_to_commit[L] :
       \E p \in puts : p.cmd = c /\ (ready_to_commit[L][c] => IsMajority(Cardinality(p.acks), L))

CountersMatch(L) == PutsDiffer /\ ThreadsServePuts /\ CountersCount(L)

MajorityAgrees(L, k) == Cardinality({i \in Server : Agrees(L, i, k)}) >= Majority

\* The indexes that L has marked, anybody has committed, or a request tells to commit.
Marked(L) ==
  {log[i].last_commit_idx : i \in Server}
  \cup {k \in 0..log[L].log_idx : log[L].entries[k].commit_done}
  \cup {r.lastCommitIndex : r \in requests}

MarkedOnMajority(L) == \A k \in Marked(L) : MajorityAgrees(L, k)

-----------------------------------------------------------------------------
(* Counting acknowledgements, while every request is put once.             *)

\* A command that is put has not been put before.
LEMMA PutOnce ==
  ASSUME IsFiniteSet(puts), Retried = {}, NEW cmd, IsNext(cmd)
  PROVE  \A p \in puts : p.cmd # cmd
<1> DEFINE S == {p \in puts : p.cmd = cmd}
<1>1. IsFiniteSet(S)
  BY FS_Subset
<1>2. Cardinality(S) \in Nat
  BY <1>1, FS_CardinalityType
<1>3. Cardinality(S) <= 0
  BY DEF IsNext
<1>4. S = {}
  BY <1>1, <1>2, <1>3, FS_EmptySet
<1> QED
  BY <1>4

\* One put goes on as another with its command.
LEMMA PutExchanged ==
  ASSUME PutsDiffer, NEW p \in puts, NEW q, q.cmd = p.cmd, puts' = (puts \ {p}) \cup {q}
  PROVE  PutsDiffer'
<1>1. IsFiniteSet(puts')
  BY FS_RemoveElement, FS_AddElement DEF PutsDiffer
<1> QED
  BY <1>1 DEF PutsDiffer

\* A thread that is over counts as it says, for its own command only.
LEMMA ReachedCounts ==
  ASSUME DictsOK, NEW L \in Server, NEW t \in Thread, t.server = L, NEW gained \in Nat,
         Reached(t, gained)
  PROVE  \A c \in DOMAIN counters'[L] :
           /\ c \in DOMAIN counters[L]
           /\ counters'[L][c].majority =
                IF c = t.cmd THEN counters[L][c].majority + gained ELSE counters[L][c].majority
<1> DEFINE d == counters[L]
           R == [reached : Nat, majority : Nat]
           v == [reached |-> d[t.cmd].reached + 1, majority |-> d[t.cmd].majority + gained]
<1>1. DOMAIN counters = Server /\ d \in [DOMAIN d -> R]
  BY DEF DictsOK
<1>2. CASE t.cmd \notin DOMAIN d
  <2>1. counters' = counters
    BY <1>2 DEF Reached
  <2> QED
    BY <1>2, <2>1
<1>3. CASE t.cmd \in DOMAIN d
  <2>1. counters' = [counters EXCEPT ![L] = Without(@, t.cmd)]
        \/ counters' = [counters EXCEPT ![L] = [@ EXCEPT ![t.cmd] = v]]
    BY <1>3 DEF Reached
  <2>2. CASE counters' = [counters EXCEPT ![L] = Without(@, t.cmd)]
    <3>1. counters'[L] = Without(d, t.cmd)
      BY <1>1, <2>2
    <3> QED
      BY <3>1 DEF Without, Restrict
  <2>3. CASE counters' = [counters EXCEPT ![L] = [@ EXCEPT ![t.cmd] = v]]
    <3>1. counters'[L] = [d EXCEPT ![t.cmd] = v]
      BY <1>1, <2>3
    <3>2. v.majority = d[t.cmd].majority + gained
      OBVIOUS
    <3> HIDE DEF v
    <3> QED
      BY <1>1, <1>3, <3>1, <3>2
  <2> QED
    BY <2>1, <2>2, <2>3
<1> QED
  BY <1>2, <1>3

LEMMA PutCounts ==
  ASSUME TypeInv, NEW L \in Server, Leads(L), CountersMatch(L), Retried = {},
         NEW s \in Server, NEW cmd \in todo, HandlePut(s, cmd) \/ RepeatPut(s, cmd)
  PROVE  CountersMatch(L)'
<1>1. /\ s = L /\ cmd \in Command
      /\ DOMAIN counters = Server /\ DOMAIN ready_to_commit = Server
  BY DEF HandlePut, RepeatPut, Leads, TypeInv, TypeOK, HandlersOK, DictsOK
<1>2. \A p \in puts : p.cmd # cmd
  BY PutOnce DEF HandlePut, RepeatPut, CountersMatch, PutsDiffer
<1>3. PICK n, new : /\ puts' = puts \cup {new}
                    /\ n = log'[L].log_idx
                    /\ HandlePut(s, cmd) => new = NewPut(L, cmd, n, "waiting")
                    /\ RepeatPut(s, cmd) => new = NewPut(L, cmd, -1, "ok")
  <2>1. ASSUME HandlePut(s, cmd), RepeatPut(s, cmd) PROVE FALSE
    BY <2>1 DEF HandlePut, RepeatPut
  <2>2. CASE HandlePut(s, cmd)
    BY <1>1, <2>1, <2>2 DEF HandlePut
  <2>3. CASE RepeatPut(s, cmd)
    BY <1>1, <2>1, <2>3 DEF RepeatPut
  <2> QED
    BY <2>2, <2>3
<1>4. new.cmd = cmd
  BY <1>3 DEF NewPut
<1>5. PutsDiffer'
  <2>1. IsFiniteSet(puts')
    BY <1>3, FS_AddElement DEF CountersMatch, PutsDiffer
  <2> QED
    BY <1>2, <1>3, <1>4, <2>1 DEF CountersMatch, PutsDiffer
<1>6. CASE RepeatPut(s, cmd)
  <2>1. UNCHANGED <<threads, counters, ready_to_commit>>
    BY <1>6 DEF RepeatPut, dictVars
  <2> QED
    BY <1>3, <1>5, <2>1 DEF CountersMatch, ThreadsServePuts, CountersCount, IsMajority
<1>7. CASE HandlePut(s, cmd)
  <2>1. /\ new.idx = n /\ new.pc = "waiting" /\ new.acks = {}
        /\ threads' = threads \cup {NewThread(L, cmd, n, f) : f \in Peers(L)}
        /\ counters' = [counters EXCEPT ![L] = Stored(@, cmd, [reached |-> 0, majority |-> 0])]
        /\ ready_to_commit' = [ready_to_commit EXCEPT ![L] = Stored(@, cmd, FALSE)]
    BY <1>1, <1>3, <1>7 DEF HandlePut, NewPut
  <2>2. \A t \in threads : t.cmd # cmd
    BY <1>2 DEF CountersMatch, ThreadsServePuts
  <2>3. \A f : /\ NewThread(L, cmd, n, f).cmd = cmd /\ NewThread(L, cmd, n, f).idx = n
               /\ NewThread(L, cmd, n, f).to = f
    BY DEF NewThread
  <2>4. ThreadsServePuts'
    <3>1. \A t \in threads' :
            \E p \in puts' : p.cmd = t.cmd /\ p.idx = t.idx /\ p.pc = "waiting" /\ t.to \notin p.acks
      BY <1>3, <1>4, <2>1, <2>3 DEF CountersMatch, ThreadsServePuts
    <3>2. \A t, u \in threads' : t.cmd = u.cmd /\ t.to = u.to => t = u
      BY <2>1, <2>2, <2>3 DEF CountersMatch, ThreadsServePuts
    <3> QED
      BY <3>1, <3>2 DEF ThreadsServePuts
  <2>5. CountersCount(L)'
    <3>1. /\ counters'[L] = Stored(counters[L], cmd, [reached |-> 0, majority |-> 0])
          /\ ready_to_commit'[L] = Stored(ready_to_commit[L], cmd, FALSE)
      BY <1>1, <2>1
    <3>2. Cardinality(new.acks) = 0
      BY <2>1, FS_EmptySet
    <3>3. ASSUME NEW c \in DOMAIN counters'[L]
          PROVE  \E p \in puts' : p.cmd = c /\ counters'[L][c].majority = Cardinality(p.acks)
      <4>1. CASE c = cmd
        BY <1>3, <1>4, <3>1, <3>2, <4>1 DEF Stored
      <4>2. CASE c # cmd
        BY <1>3, <3>1, <3>3, <4>2 DEF Stored, CountersMatch, CountersCount
      <4> QED
        BY <4>1, <4>2
    <3>4. ASSUME NEW c \in DOMAIN ready_to_commit'[L]
          PROVE  \E p \in puts' : /\ p.cmd = c
                                  /\ ready_to_commit'[L][c] => IsMajority(Cardinality(p.acks), L)
      <4>1. CASE c = cmd
        BY <1>3, <1>4, <3>1, <4>1 DEF Stored
      <4>2. CASE c # cmd
        BY <1>3, <3>1, <3>4, <4>2, ZenonT(60) DEF Stored, CountersMatch, CountersCount
      <4> QED
        BY <4>1, <4>2
    <3> QED
      BY <3>3, <3>4 DEF CountersCount, IsMajority
  <2> QED
    BY <1>5, <2>4, <2>5 DEF CountersMatch
<1> QED
  BY <1>6, <1>7

LEMMA HandlerCounts ==
  ASSUME TypeInv, NEW L \in Server, Leads(L), CountersMatch(L), Retried = {},
         NEW p \in puts, HandlerGoesOn(p) \/ ConnectionBreaks(p)
  PROVE  CountersMatch(L)'
<1>1. /\ p.server = L /\ \A t \in threads : t.server = L
      /\ DOMAIN ready_to_commit = Server
  BY DEF Leads, TypeInv, TypeOK, DictsOK
<1>2. HandlerGoesOn(p) /\ UNCHANGED <<threads, counters>>
  BY DEF HandlerGoesOn, Commit, FindNoFlag, AnswerOk, AnswerRedirect, ConnectionBreaks, dictVars
<1>3. PICK q : /\ puts' = (puts \ {p}) \cup {q}
               /\ q.idx = p.idx /\ q.cmd = p.cmd /\ q.acks = p.acks
  BY <1>2, PutGoesOn
<1>4. PutsDiffer'
  BY <1>3, PutExchanged DEF CountersMatch
<1>5. ThreadsServePuts'
  <2>1. ASSUME NEW t \in threads
        PROVE  \E o \in puts' : o.cmd = t.cmd /\ o.idx = t.idx /\ o.pc = "waiting" /\ t.to \notin o.acks
    <3>1. PICK o \in puts : o.cmd = t.cmd /\ o.idx = t.idx /\ o.pc = "waiting" /\ t.to \notin o.acks
      BY DEF CountersMatch, ThreadsServePuts
    <3>2. o # p
      <4>1. ASSUME o = p PROVE t \in ThreadsOf(p)
        BY <1>1, <3>1, <4>1 DEF ThreadsOf
      <4> QED
        BY <1>2, <3>1, <4>1 DEF HandlerGoesOn, Commit, FindNoFlag, AnswerOk, AnswerRedirect, Broadcast
    <3> QED
      BY <1>3, <3>1, <3>2
  <2> QED
    BY <1>2, <2>1 DEF CountersMatch, ThreadsServePuts
<1>6. CountersCount(L)'
  <2>1. \A o \in puts : \E u \in puts' : u.cmd = o.cmd /\ u.acks = o.acks
    BY <1>3
  <2>2. \A c \in DOMAIN ready_to_commit'[L] :
          c \in DOMAIN ready_to_commit[L] /\ ready_to_commit'[L][c] = ready_to_commit[L][c]
    <3>1. CASE Commit(p)
      <4>1. ready_to_commit'[L] = Without(ready_to_commit[L], p.cmd)
        BY <1>1, <3>1 DEF Commit
      <4> QED
        BY <4>1 DEF Without, Restrict
    <3>2. CASE ~Commit(p)
      BY <1>2, <3>2 DEF HandlerGoesOn, FindNoFlag, AnswerOk, AnswerRedirect, dictVars
    <3> QED
      BY <3>1, <3>2
  <2>3. ASSUME NEW c \in DOMAIN counters'[L]
        PROVE  \E o \in puts' : o.cmd = c /\ counters'[L][c].majority = Cardinality(o.acks)
    <3>1. PICK o \in puts : o.cmd = c /\ counters[L][c].majority = Cardinality(o.acks)
      BY <1>2, <2>3 DEF CountersMatch, CountersCount
    <3> QED
      BY <1>2, <2>1, <3>1
  <2>4. ASSUME NEW c \in DOMAIN ready_to_commit'[L]
        PROVE  \E o \in puts' : /\ o.cmd = c
                                /\ ready_to_commit'[L][c] => IsMajority(Cardinality(o.acks), L)
    <3>1. PICK o \in puts : /\ o.cmd = c
                            /\ ready_to_commit[L][c] => IsMajority(Cardinality(o.acks), L)
      BY <2>2, <2>4 DEF CountersMatch, CountersCount
    <3> QED
      BY <2>1, <2>2, <3>1
  <2> QED
    BY <2>3, <2>4 DEF CountersCount, IsMajority
<1> QED
  BY <1>4, <1>5, <1>6 DEF CountersMatch

\* Threads that go on, or end without an acknowledgement.
LEMMA ThreadsGoOn ==
  ASSUME NEW L, CountersMatch(L), UNCHANGED puts,
         \A u \in threads' : \E t \in threads : u.cmd = t.cmd /\ u.idx = t.idx /\ u.to = t.to,
         \A u, v \in threads' : u.cmd = v.cmd /\ u.to = v.to => u = v
  PROVE  PutsDiffer' /\ ThreadsServePuts'
  BY DEF CountersMatch, PutsDiffer, ThreadsServePuts

LEMMA CallCounts ==
  ASSUME NEW L \in Server, CountersMatch(L), NEW t \in threads, NEW u \in Thread, Call(t, u),
         u.cmd = t.cmd, u.idx = t.idx, u.to = t.to, UNCHANGED <<puts, dictVars>>
  PROVE  CountersMatch(L)'
<1>1. PICK v : /\ threads' = (threads \ {t}) \cup {v} \/ threads' = threads \ {t}
               /\ v.cmd = t.cmd /\ v.idx = t.idx /\ v.to = t.to
  <2> DEFINE v == [u EXCEPT !.pc = "calling"]
  <2>1. v.cmd = t.cmd /\ v.idx = t.idx /\ v.to = t.to
    BY DEF Thread
  <2>2. threads' = (threads \ {t}) \cup {v} \/ threads' = threads \ {t}
    BY DEF Call, ThreadEnds
  <2> HIDE DEF v
  <2> QED
    BY <2>1, <2>2
<1>2. PutsDiffer' /\ ThreadsServePuts'
  BY <1>1, ThreadsGoOn DEF CountersMatch, ThreadsServePuts
<1>3. CountersCount(L)'
  BY DEF CountersMatch, CountersCount, IsMajority, dictVars
<1> QED
  BY <1>2, <1>3 DEF CountersMatch

\* The put that an acknowledgement is for has it counted, no other put changes.
LEMMA AcknowledgedCounts ==
  ASSUME TypeInv, NEW L \in Server, Leads(L), CountersMatch(L),
         NEW t \in threads, Acknowledged(t)
  PROVE  CountersMatch(L)'
<1>1. /\ t \in Thread /\ t.server = L /\ \A p \in puts : p \in Put /\ p.server = L
      /\ DictsOK /\ DOMAIN ready_to_commit = Server /\ IsFiniteSet(Server)
      /\ ready_to_commit[L] \in [DOMAIN ready_to_commit[L] -> BOOLEAN]
  BY ServerAssumption DEF TypeInv, TypeOK, DictsOK, HandlersInv, ThreadInv, PutInv, Leads
<1>2. PICK p \in puts : p.cmd = t.cmd /\ p.idx = t.idx /\ p.pc = "waiting" /\ t.to \notin p.acks
  BY DEF CountersMatch, ThreadsServePuts
<1>3. \A o \in puts : t \in ThreadsOf(o) <=> o = p
  BY <1>1, <1>2 DEF CountersMatch, PutsDiffer, ThreadsOf
<1>4. PICK q : q = [p EXCEPT !.acks = @ \cup {t.to}]
  OBVIOUS
<1>5. q.cmd = p.cmd /\ q.idx = p.idx /\ q.pc = p.pc /\ q.acks = p.acks \cup {t.to}
  BY <1>1, <1>4 DEF Put
<1>6. puts' = (puts \ {p}) \cup {q}
  BY <1>3, <1>4 DEF Acknowledged
<1>7. PutsDiffer'
  BY <1>5, <1>6, PutExchanged DEF CountersMatch
<1>8. IsFiniteSet(p.acks) /\ Cardinality(q.acks) = Cardinality(p.acks) + 1
  <2>1. p.acks \in SUBSET Server
    BY <1>1 DEF Put
  <2>2. IsFiniteSet(p.acks)
    BY <1>1, <2>1, FS_Subset
  <2> QED
    BY <1>2, <1>5, <2>2, FS_AddElement, ZenonT(60)
<1>9. threads' = threads \ {t}
  BY DEF Acknowledged, ThreadEnds
<1>10. ThreadsServePuts'
  <2>1. ASSUME NEW u \in threads'
        PROVE  \E o \in puts' : o.cmd = u.cmd /\ o.idx = u.idx /\ o.pc = "waiting" /\ u.to \notin o.acks
    <3>1. PICK o \in puts : o.cmd = u.cmd /\ o.idx = u.idx /\ o.pc = "waiting" /\ u.to \notin o.acks
      BY <1>9 DEF CountersMatch, ThreadsServePuts
    <3>2. CASE o # p
      BY <1>6, <3>1, <3>2
    <3>3. CASE o = p
      <4>1. u.to # t.to
        BY <1>2, <1>9, <3>1, <3>3 DEF CountersMatch, ThreadsServePuts
      <4> QED
        BY <1>5, <1>6, <3>1, <3>3, <4>1
    <3> QED
      BY <3>2, <3>3
  <2>2. \A u, v \in threads' : u.cmd = v.cmd /\ u.to = v.to => u = v
    BY <1>9 DEF CountersMatch, ThreadsServePuts
  <2> QED
    BY <2>1, <2>2 DEF ThreadsServePuts
<1>11. ASSUME NEW c \in DOMAIN counters'[L]
       PROVE  \E o \in puts' : o.cmd = c /\ counters'[L][c].majority = Cardinality(o.acks)
  <2>1. Reached(t, 1)
    BY DEF Acknowledged
  <2>2. /\ c \in DOMAIN counters[L]
        /\ counters'[L][c].majority =
             IF c = t.cmd THEN counters[L][c].majority + 1 ELSE counters[L][c].majority
    BY <1>1, <1>11, <2>1, ReachedCounts
  <2>3. PICK o \in puts : o.cmd = c /\ counters[L][c].majority = Cardinality(o.acks)
    BY <2>2 DEF CountersMatch, CountersCount
  <2>4. CASE c = t.cmd
    <3>1. o = p
      BY <1>2, <2>3, <2>4 DEF CountersMatch, PutsDiffer
    <3> QED
      BY <1>5, <1>6, <1>8, <2>2, <2>3, <2>4, <3>1
  <2>5. CASE c # t.cmd
    BY <1>2, <1>6, <2>2, <2>3, <2>5
  <2> QED
    BY <2>4, <2>5
<1>12. ASSUME NEW c \in DOMAIN ready_to_commit'[L]
       PROVE  \E o \in puts' : /\ o.cmd = c
                               /\ ready_to_commit'[L][c] => IsMajority(Cardinality(o.acks), L)
  <2> DEFINE Known == t.cmd \in DOMAIN counters[L] \cap DOMAIN ready_to_commit[L]
             Wins == Known /\ IsMajority(counters[L][t.cmd].majority + 1, L)
  <2>1. /\ c \in DOMAIN ready_to_commit[L]
        /\ ready_to_commit'[L][c] = IF Wins /\ c = t.cmd THEN TRUE ELSE ready_to_commit[L][c]
    <3>1. CASE Wins
      <4>1. ready_to_commit' = [ready_to_commit EXCEPT ![L][t.cmd] = TRUE]
        BY <1>1, <3>1 DEF Acknowledged
      <4>2. ready_to_commit'[L] = [ready_to_commit[L] EXCEPT ![t.cmd] = TRUE]
        BY <1>1, <4>1
      <4> HIDE DEF Wins
      <4> QED
        BY <1>1, <1>12, <3>1, <4>2
    <3>2. CASE ~Wins
      <4>1. ready_to_commit' = ready_to_commit
        BY <1>1, <3>2 DEF Acknowledged
      <4> QED
        BY <1>12, <3>2, <4>1
    <3> QED
      BY <3>1, <3>2
  <2>2. PICK o \in puts : /\ o.cmd = c
                          /\ ready_to_commit[L][c] => IsMajority(Cardinality(o.acks), L)
    BY <2>1 DEF CountersMatch, CountersCount
  <2>3. CASE c # t.cmd
    BY <1>2, <1>6, <2>1, <2>2, <2>3
  <2>4. CASE c = t.cmd
    <3>1. o = p
      BY <1>2, <2>2, <2>4 DEF CountersMatch, PutsDiffer
    <3>2. Cardinality(p.acks) \in Nat /\ Cardinality(Peers(L)) \in Nat
      BY <1>1, <1>8, FS_CardinalityType, FS_RemoveElement DEF Peers
    <3>3. Wins => IsMajority(Cardinality(q.acks), L)
      <4>1. ASSUME Wins PROVE counters[L][t.cmd].majority = Cardinality(p.acks)
        BY <1>2, <4>1 DEF CountersMatch, CountersCount, PutsDiffer
      <4> QED
        BY <1>8, <4>1
    <3>4. IsMajority(Cardinality(p.acks), L) => IsMajority(Cardinality(q.acks), L)
      BY <1>8, <3>2 DEF IsMajority
    <3> HIDE DEF Wins
    <3> QED
      BY <1>5, <1>6, <2>1, <2>2, <2>4, <3>1, <3>3, <3>4
  <2> QED
    BY <2>3, <2>4
<1>13. CountersCount(L)'
  BY <1>11, <1>12 DEF CountersCount, IsMajority
<1> QED
  BY <1>7, <1>10, <1>13 DEF CountersMatch

LEMMA EndCounts ==
  ASSUME TypeInv, NEW L \in Server, Leads(L), CountersMatch(L),
         NEW t \in threads, NotAcknowledged(t) \/ CallFails(t)
  PROVE  CountersMatch(L)'
<1>1. t \in Thread /\ t.server = L /\ DictsOK
  BY DEF TypeInv, TypeOK, HandlersInv, ThreadInv, Leads
<1>2. /\ threads' = threads \ {t} /\ UNCHANGED <<puts, ready_to_commit>>
      /\ Reached(t, 0)
  BY DEF NotAcknowledged, CallFails, ThreadEnds
<1>3. PutsDiffer' /\ ThreadsServePuts'
  BY <1>2, ThreadsGoOn DEF CountersMatch, ThreadsServePuts
<1>4. ASSUME NEW c \in DOMAIN counters'[L]
      PROVE  \E p \in puts' : p.cmd = c /\ counters'[L][c].majority = Cardinality(p.acks)
  <2>1. /\ c \in DOMAIN counters[L]
        /\ counters'[L][c].majority =
             IF c = t.cmd THEN counters[L][c].majority + 0 ELSE counters[L][c].majority
    BY <1>1, <1>2, <1>4, ReachedCounts
  <2>2. counters[L][c].majority \in Nat
    BY <1>1, <2>1 DEF DictsOK
  <2> QED
    BY <1>2, <2>1, <2>2 DEF CountersMatch, CountersCount
<1>5. CountersCount(L)'
  BY <1>2, <1>4 DEF CountersMatch, CountersCount, IsMajority
<1> QED
  BY <1>3, <1>5 DEF CountersMatch

LEMMA ReplyCounts ==
  ASSUME TypeInv, NEW L \in Server, CountersMatch(L), NEW r \in requests, AppendEntries(r)
  PROVE  CountersMatch(L)'
<1>1. PICK code : Reply(r, code)
  BY DEF AppendEntries, RefuseOutdated, StartAnew, InsertEntry, RejectMismatch
<1>2. UNCHANGED <<puts, dictVars>>
  BY <1>1 DEF Reply
<1>3. ASSUME NEW u \in threads'
      PROVE  \E t \in threads : /\ u.cmd = t.cmd /\ u.idx = t.idx /\ u.to = t.to
                                /\ u = IF Serves(r, t)
                                       THEN [t EXCEPT !.pc = code, !.reply_term = term[r.to]]
                                       ELSE t
  <2>1. PICK t \in threads : u = IF Serves(r, t)
                                 THEN [t EXCEPT !.pc = code, !.reply_term = term[r.to]]
                                 ELSE t
    BY <1>1 DEF Reply
  <2>2. t \in Thread
    BY DEF TypeInv, HandlersInv, ThreadInv
  <2>3. u.cmd = t.cmd /\ u.idx = t.idx /\ u.to = t.to
    BY <2>1, <2>2 DEF Thread
  <2> QED
    BY <2>1, <2>3
<1>4. \A u, v \in threads' : u.cmd = v.cmd /\ u.to = v.to => u = v
  <2> SUFFICES ASSUME NEW u \in threads', NEW v \in threads', u.cmd = v.cmd, u.to = v.to
               PROVE  u = v
    OBVIOUS
  <2>1. PICK t \in threads : /\ u.cmd = t.cmd /\ u.to = t.to
                             /\ u = IF Serves(r, t)
                                    THEN [t EXCEPT !.pc = code, !.reply_term = term[r.to]]
                                    ELSE t
    BY <1>3
  <2>2. PICK w \in threads : /\ v.cmd = w.cmd /\ v.to = w.to
                             /\ v = IF Serves(r, w)
                                    THEN [w EXCEPT !.pc = code, !.reply_term = term[r.to]]
                                    ELSE w
    BY <1>3
  <2>3. t = w
    BY <2>1, <2>2, ZenonT(60) DEF CountersMatch, ThreadsServePuts
  <2> QED
    BY <2>1, <2>2, <2>3
<1>5. PutsDiffer' /\ ThreadsServePuts'
  BY <1>2, <1>3, <1>4, ThreadsGoOn
<1>6. CountersCount(L)'
  BY <1>2 DEF CountersMatch, CountersCount, IsMajority, dictVars
<1> QED
  BY <1>5, <1>6 DEF CountersMatch

LEMMA CountersStep ==
  ASSUME TypeInv, NEW L \in Server, Leads(L), CountersMatch(L), Retried = {},
         \A i \in Server : Campaigns[i] = {}, [Next]_vars
  PROVE  CountersMatch(L)'
<1>1. ASSUME UNCHANGED <<puts, threads, dictVars>> PROVE CountersMatch(L)'
  BY <1>1 DEF CountersMatch, PutsDiffer, ThreadsServePuts, CountersCount, IsMajority, dictVars
<1>2. CASE UNCHANGED vars
  BY <1>1, <1>2 DEF vars
<1>3. ASSUME NEW s \in Server, NEW cmd \in todo, HandlePut(s, cmd) \/ RepeatPut(s, cmd)
      PROVE  CountersMatch(L)'
  BY <1>3, PutCounts
<1>4. ASSUME NEW p \in puts, HandlerGoesOn(p) \/ ConnectionBreaks(p) PROVE CountersMatch(L)'
  BY <1>4, HandlerCounts
<1>5. ASSUME NEW s \in Server, Apply(s) PROVE CountersMatch(L)'
  BY <1>1, <1>5 DEF Apply
<1>6. ASSUME NEW t \in threads, FirstCall(t) \/ StepBack(t) \/ StepForward(t)
      PROVE  CountersMatch(L)'
  <2>1. t \in Thread /\ UNCHANGED <<puts, dictVars>>
    BY <1>6 DEF TypeInv, HandlersInv, ThreadInv, FirstCall, StepBack, StepForward
  <2>2. \E u \in Thread : Call(t, u) /\ u.cmd = t.cmd /\ u.idx = t.idx /\ u.to = t.to
    <3>1. CASE FirstCall(t)
      BY <2>1, <3>1 DEF FirstCall
    <3>2. CASE StepBack(t)
      <4> DEFINE u == [t EXCEPT !.prev = @ - 1]
      <4>1. u \in Thread /\ u.cmd = t.cmd /\ u.idx = t.idx /\ u.to = t.to
        BY <2>1 DEF Thread
      <4>2. Call(t, u)
        BY <3>2 DEF StepBack
      <4> HIDE DEF u
      <4> QED
        BY <4>1, <4>2
    <3>3. CASE StepForward(t)
      <4> DEFINE u == [t EXCEPT !.prev = @ + 1, !.forward = TRUE]
      <4>1. t.prev + 1 \in Int
        BY <2>1 DEF Thread
      <4>2. u \in Thread /\ u.cmd = t.cmd /\ u.idx = t.idx /\ u.to = t.to
        BY <2>1, <4>1 DEF Thread
      <4>3. Call(t, u)
        BY <3>3 DEF StepForward
      <4> HIDE DEF u
      <4> QED
        BY <4>2, <4>3
    <3> QED
      BY <1>6, <3>1, <3>2, <3>3
  <2> QED
    BY <2>1, <2>2, CallCounts
<1>7. ASSUME NEW t \in threads, Acknowledged(t) PROVE CountersMatch(L)'
  BY <1>7, AcknowledgedCounts
<1>8. ASSUME NEW t \in threads, NotAcknowledged(t) \/ CallFails(t) PROVE CountersMatch(L)'
  BY <1>8, EndCounts
<1>9. \A t \in threads : ~LearnLaterTerm(t)
  BY DEF LearnLaterTerm, Leads
<1>10. ASSUME NEW r \in requests, AppendEntries(r) PROVE CountersMatch(L)'
  BY <1>10, ReplyCounts
<1>11. ASSUME NEW i \in Server, NEW j \in Server,
              Campaign(i) \/ Vote(j, i) \/ RefuseVote(j, i) \/ Heartbeat(i, j)
       PROVE  CountersMatch(L)'
  BY <1>1, <1>11, ElectionsAreOver
<1> QED
  BY <1>2, <1>3, <1>4, <1>5, <1>6, <1>7, <1>8, <1>9, <1>10, <1>11 DEF Next, broadcastEntry

-----------------------------------------------------------------------------
(* What a majority has.                                                    *)

LEMMA FewerAgree ==
  ASSUME NEW S, NEW T \in SUBSET Server, S \subseteq T, Cardinality(S) >= Majority
  PROVE  Cardinality(T) >= Majority
<1>1. IsFiniteSet(T) /\ IsFiniteSet(S) /\ Cardinality(S) <= Cardinality(T)
  BY ServerAssumption, FS_Subset
<1>2. Cardinality(S) \in Nat /\ Cardinality(T) \in Nat /\ Cardinality(Server) \in Nat
  BY <1>1, ServerAssumption, FS_CardinalityType
<1> QED
  BY <1>1, <1>2 DEF Majority

LEMMA MajorityStays ==
  ASSUME NEW L \in Server, Grows(L), NEW k \in Int, MajorityAgrees(L, k)
  PROVE  MajorityAgrees(L, k)'
<1>1. {i \in Server : Agrees(L, i, k)} \subseteq {i \in Server : Agrees(L, i, k)'}
  BY DEF Grows
<1>2. Cardinality({i \in Server : Agrees(L, i, k)'}) >= Majority
  BY <1>1, FewerAgree DEF MajorityAgrees
<1> QED
  BY <1>2 DEF MajorityAgrees, Majority

LEMMA MajorityLess ==
  ASSUME NEW L \in Server, NEW k \in Int, MajorityAgrees(L, k), NEW j \in Int, j <= k
  PROVE  MajorityAgrees(L, j)
<1>1. {i \in Server : Agrees(L, i, k)} \subseteq {i \in Server : Agrees(L, i, j)}
  BY AgreeLess DEF Agrees
<1> QED
  BY <1>1, FewerAgree DEF MajorityAgrees

\* The acknowledgements that the code takes for a majority, len(peers) / 2 or more,
\* are one together with the leader.
LEMMA AcknowledgedByMajority ==
  ASSUME NEW L \in Server, NEW acks \in SUBSET Server, L \notin acks,
         IsMajority(Cardinality(acks), L)
  PROVE  Cardinality(acks \cup {L}) >= Majority
<1>1. IsFiniteSet(acks) /\ Cardinality(acks) \in Nat
  BY ServerAssumption, FS_Subset, FS_CardinalityType
<1>2. Cardinality(acks \cup {L}) = Cardinality(acks) + 1
  BY <1>1, FS_AddElement
<1>3. Cardinality(Peers(L)) = Cardinality(Server) - 1 /\ Cardinality(Server) \in Nat
  BY ServerAssumption, FS_RemoveElement, FS_CardinalityType DEF Peers
<1>4. 2 * Cardinality(acks) >= Cardinality(Server) - 1
  BY <1>3 DEF IsMajority
<1>5. ASSUME NEW a \in Nat, NEW n \in Nat, 2 * a >= n - 1 PROVE a + 1 >= (n \div 2) + 1
  BY <1>5
<1> QED
  BY <1>1, <1>2, <1>3, <1>4, <1>5 DEF Majority

\* The entry that a handler commits is one that a majority has.
LEMMA CommitByMajority ==
  ASSUME TypeInv, NEW L \in Server, Leads(L), ReplicasMatch(L), CountersMatch(L),
         NEW p \in puts, Commit(p), p.idx <= log[L].log_idx
  PROVE  MajorityAgrees(L, p.idx)
<1>1. /\ p \in Put /\ p.server = L /\ p.idx \in Nat /\ LogOK(log[L])
      /\ \A f \in p.acks : f # L /\ Agrees(L, f, p.idx)
  BY DEF TypeInv, TypeOK, LogsOK, HandlersInv, PutInv, Leads, ReplicasMatch, PutMatches,
     Commit, Broadcast, Pending
<1>2. p.acks \in SUBSET Server /\ L \notin p.acks
  BY <1>1 DEF Put
<1>3. IsMajority(Cardinality(p.acks), L)
  <2>1. p.cmd \in DOMAIN ready_to_commit[L] /\ ready_to_commit[L][p.cmd]
    BY <1>1 DEF Commit, HasFlag
  <2> QED
    BY <2>1 DEF CountersMatch, CountersCount, PutsDiffer
<1>4. Agrees(L, L, p.idx)
  BY <1>1, AgreesWithItself DEF Agrees
<1>5. p.acks \cup {L} \subseteq {i \in Server : Agrees(L, i, p.idx)}
  BY <1>1, <1>2, <1>4
<1>6. Cardinality(p.acks \cup {L}) >= Majority
  BY <1>2, <1>3, AcknowledgedByMajority
<1> QED
  BY <1>5, <1>6, FewerAgree DEF MajorityAgrees

LEMMA MarkedTypes ==
  ASSUME TypeInv, NEW L \in Server
  PROVE  /\ Marked(L) \subseteq Int /\ LogsOK /\ \A i \in Server : LogOK(log[i])
         /\ log[L].log_idx \in Int
         /\ \A i \in Server : log[i].last_commit_idx \in Marked(L)
         /\ \A r \in requests : r.lastCommitIndex \in Marked(L)
<1>1. /\ LogsOK /\ \A i \in Server : LogOK(log[i])
      /\ \A r \in requests : r \in Request
  BY DEF TypeInv, TypeOK, LogsOK, HandlersOK
<1>2. /\ \A i \in Server : log[i].last_commit_idx \in Int /\ log[i].log_idx \in Int
      /\ \A r \in requests : r.lastCommitIndex \in Int
  BY <1>1 DEF LogOK, Request
<1> QED
  BY <1>1, <1>2 DEF Marked

\* Nothing is newly marked when logs keep their marks and requests are old ones, or
\* repeat what L has committed.
LEMMA NothingMarked ==
  ASSUME TypeInv, NEW L \in Server,
         \A i \in Server : log'[i].last_commit_idx = log[i].last_commit_idx,
         \A k \in 0..log'[L].log_idx : log'[L].entries[k].commit_done =>
           k \in 0..log[L].log_idx /\ log[L].entries[k].commit_done,
         \A r \in requests' : r \in requests \/ r.lastCommitIndex = log[L].last_commit_idx
  PROVE  Marked(L)' \subseteq Marked(L)
  BY DEF Marked

LEMMA CommitMarks ==
  ASSUME TypeInv, NEW L \in Server, Leads(L), NEW p \in puts, Commit(p),
         p.idx <= log[L].log_idx
  PROVE  \A k \in Marked(L)' : k \in Marked(L) \/ k = p.idx
<1>1. /\ p \in Put /\ p.server = L /\ p.idx \in 0..log[L].log_idx /\ LogOK(log[L]) /\ LogsOK
      /\ UNCHANGED requests
  <2>1. /\ PutInv(p) /\ p.server = L /\ LogOK(log[L]) /\ LogsOK /\ p.pc = "waiting"
        /\ UNCHANGED requests
    BY DEF TypeInv, TypeOK, LogsOK, HandlersInv, Leads, Commit, Broadcast
  <2> QED
    BY <2>1 DEF PutInv, Pending, LogOK
<1>2. PICK m : m = commit(log[L], p.idx)
  OBVIOUS
<1>3. \A i \in Server : log'[i] = IF i = L THEN m ELSE log[i]
  BY <1>1, <1>2 DEF Commit, LogsOK
<1>4. /\ m.log_idx = log[L].log_idx
      /\ log[L].last_commit_idx <= m.last_commit_idx
      /\ m.last_commit_idx \in Int /\ m.last_commit_idx <= m.log_idx
      /\ log[L].last_commit_idx \in Int /\ -1 <= log[L].last_commit_idx /\ log[L].log_idx \in Int
      /\ \A i \in 0..log[L].log_idx :
           m.entries[i].commit_done <=> log[L].entries[i].commit_done \/ i = p.idx
      /\ \A i \in log[L].last_commit_idx + 1..m.last_commit_idx : m.entries[i].commit_done
  <2>1. /\ LogOK(m) /\ m.log_idx = log[L].log_idx
        /\ log[L].last_commit_idx <= m.last_commit_idx
        /\ \A i \in 0..log[L].log_idx :
             m.entries[i].commit_done <=> log[L].entries[i].commit_done \/ i = p.idx
        /\ \A i \in log[L].last_commit_idx + 1..m.last_commit_idx : m.entries[i].commit_done
    BY <1>1, <1>2, CommitOK
  <2>2. /\ m.last_commit_idx \in Int /\ m.last_commit_idx <= m.log_idx
        /\ log[L].last_commit_idx \in Int /\ -1 <= log[L].last_commit_idx
        /\ log[L].log_idx \in Int
    BY <1>1, <2>1 DEF LogOK, WellFormed
  <2> QED
    BY <2>1, <2>2
<1>5. \/ m.last_commit_idx = log[L].last_commit_idx
      \/ m.last_commit_idx \in 0..log[L].log_idx /\ m.entries[m.last_commit_idx].commit_done
  BY <1>4
<1>6. \A k \in 0..log[L].log_idx : m.entries[k].commit_done => k \in Marked(L) \/ k = p.idx
  BY <1>4 DEF Marked
<1>7. \A i \in Server : log'[i].last_commit_idx \in Marked(L) \/ log'[i].last_commit_idx = p.idx
  BY <1>3, <1>5, <1>6, MarkedTypes
<1>8. \A k \in 0..log'[L].log_idx : log'[L].entries[k].commit_done => k \in Marked(L) \/ k = p.idx
  BY <1>3, <1>4, <1>6
<1>9. \A r \in requests' : r.lastCommitIndex \in Marked(L)
  BY <1>1, MarkedTypes
<1> QED
  BY <1>7, <1>8, <1>9 DEF Marked

LEMMA CallMarks ==
  ASSUME TypeInv, NEW L \in Server, Leads(L), NEW t \in threads,
         FirstCall(t) \/ StepBack(t) \/ StepForward(t)
  PROVE  Marked(L)' \subseteq Marked(L)
<1>1. t \in Thread /\ t.server = L /\ UNCHANGED log
  BY DEF TypeInv, HandlersInv, ThreadInv, Leads, FirstCall, StepBack, StepForward
<1>2. \E u : Call(t, u) /\ u.server = L
  <2>1. [t EXCEPT !.prev = @ - 1].server = L /\ [t EXCEPT !.prev = @ + 1, !.forward = TRUE].server = L
    BY <1>1 DEF Thread
  <2> QED
    BY <1>1, <2>1 DEF FirstCall, StepBack, StepForward
<1>3. PICK u : Call(t, u) /\ u.server = L
  BY <1>2
<1>4. \A r \in requests' : r \in requests \/ r.lastCommitIndex = log[L].last_commit_idx
  BY <1>3 DEF Call, ThreadEnds, create_log_entry_request
<1> QED
  BY <1>1, <1>4, NothingMarked

\* A follower commits no further than the request tells it.
LEMMA InsertMarks ==
  ASSUME TypeInv, TypeInv', NEW L \in Server, Leads(L), ReplicasMatch(L), UNCHANGED term,
         NEW r \in requests, InsertEntry(r)
  PROVE  \A k \in Marked(L)' : k \in Marked(L) \/ (k \in Int /\ k <= r.lastCommitIndex)
<1>1. /\ RequestMatches(L, r) /\ log'[L] = log[L] /\ r.to \in Server
      /\ \A q \in requests' : q \in requests
  <2>1. RequestMatches(L, r) /\ LogsMatch(L) /\ r \in Request
    BY DEF ReplicasMatch, TypeInv, HandlersInv, RequestInv
  <2> QED
    BY <2>1, InsertLogs DEF InsertEntry, Reply, Request
<1>2. /\ \A i \in Server : i # r.to => log'[i] = log[i]
      /\ \/ log'[r.to].last_commit_idx = log[r.to].last_commit_idx
         \/ log'[r.to].last_commit_idx <= r.lastCommitIndex
  <2>1. 0 <= r.prev_log_index /\ PreviousMatches(r)
    BY <1>1 DEF RequestMatches, InsertEntry
  <2> QED
    BY <2>1, InsertedLog
<1>3. \A i \in Server : log'[i].last_commit_idx \in Int
  BY DEF TypeInv, TypeOK, LogsOK, LogOK
<1>4. \A i \in Server : \/ log'[i].last_commit_idx \in Marked(L)
                        \/ log'[i].last_commit_idx \in Int /\ log'[i].last_commit_idx <= r.lastCommitIndex
  BY <1>1, <1>2, <1>3, MarkedTypes
<1>5. \A k \in 0..log'[L].log_idx : log'[L].entries[k].commit_done => k \in Marked(L)
  BY <1>1 DEF Marked
<1>6. \A q \in requests' : q.lastCommitIndex \in Marked(L)
  BY <1>1, MarkedTypes
<1> QED
  BY <1>4, <1>5, <1>6 DEF Marked

LEMMA MarkedStep ==
  ASSUME TypeInv, TypeInv', NEW L \in Server, Leads(L), ReplicasMatch(L), CountersMatch(L),
         MarkedOnMajority(L), \A i \in Server : Campaigns[i] = {}, [Next]_vars
  PROVE  MarkedOnMajority(L)'
<1>1. Grows(L) /\ term' = term
  BY LogsStep, LeaderStays
<1>2. Marked(L) \subseteq Int /\ Marked(L)' \subseteq Int /\ LogsOK /\ LogOK(log[L])
  <2>1. Marked(L) \subseteq Int /\ LogsOK /\ LogOK(log[L])
    BY MarkedTypes
  <2>2. /\ \A i \in Server : log'[i].last_commit_idx \in Int /\ log'[L].log_idx \in Int
        /\ \A r \in requests' : r.lastCommitIndex \in Int
    <3>1. (\A i \in Server : LogOK(log'[i])) /\ \A r \in requests' : r \in Request
      BY DEF TypeInv, TypeOK, LogsOK, HandlersOK
    <3> QED
      BY <3>1 DEF LogOK, Request
  <2>3. Marked(L)' \subseteq Int
    BY <2>2 DEF Marked
  <2> QED
    BY <2>1, <2>3
<1>3. SUFFICES ASSUME NEW k \in Marked(L)' PROVE MajorityAgrees(L, k)
  BY <1>1, <1>2, MajorityStays DEF MarkedOnMajority
<1>4. ASSUME k \in Marked(L) PROVE MajorityAgrees(L, k)
  BY <1>4 DEF MarkedOnMajority
<1>5. ASSUME UNCHANGED log, requests' \subseteq requests PROVE MajorityAgrees(L, k)
  BY <1>4, <1>5, NothingMarked
<1>6. CASE UNCHANGED vars
  BY <1>5, <1>6 DEF vars
<1>7. ASSUME NEW s \in Server, NEW cmd \in todo, HandlePut(s, cmd) \/ RepeatPut(s, cmd)
      PROVE  MajorityAgrees(L, k)
  <2>1. CASE HandlePut(s, cmd)
    <3>1. s = L /\ cmd \in Command /\ log' = [log EXCEPT ![L] = append(@, term[L], cmd)]
      BY <2>1 DEF HandlePut, Leads, TypeInv, TypeOK, HandlersOK
    <3>2. /\ log'[L].log_idx = log[L].log_idx + 1
          /\ log'[L].last_commit_idx = log[L].last_commit_idx
          /\ \A j \in 0..log[L].log_idx : log'[L].entries[j] = log[L].entries[j]
          /\ ~log'[L].entries[log'[L].log_idx].commit_done
          /\ \A i \in Server : i # L => log'[i] = log[i]
      BY <1>1, <3>1, PutLogs DEF ReplicasMatch
    <3>3. \A j \in 0..log'[L].log_idx : log'[L].entries[j].commit_done =>
            j \in 0..log[L].log_idx /\ log[L].entries[j].commit_done
      <4>1. log[L].log_idx \in Int
        BY <1>2 DEF LogOK
      <4>2. \A j \in 0..log'[L].log_idx : j = log'[L].log_idx \/ j \in 0..log[L].log_idx
        BY <3>2, <4>1
      <4> QED
        BY <3>2, <4>2
    <3>4. UNCHANGED requests
      BY <2>1 DEF HandlePut
    <3> QED
      BY <1>4, <3>2, <3>3, <3>4, NothingMarked
  <2>2. CASE RepeatPut(s, cmd)
    BY <1>5, <2>2 DEF RepeatPut
  <2> QED
    BY <1>7, <2>1, <2>2
<1>8. ASSUME NEW p \in puts, HandlerGoesOn(p) \/ ConnectionBreaks(p) PROVE MajorityAgrees(L, k)
  <2>1. p.server = L
    BY DEF Leads
  <2>2. CASE Commit(p) /\ p.idx <= log[L].log_idx
    BY <1>4, <2>2, CommitMarks, CommitByMajority
  <2>3. UNCHANGED <<log, requests>> \/ (Commit(p) /\ p.idx <= log[L].log_idx)
    BY <1>8, <2>1 DEF HandlerGoesOn, Commit, FindNoFlag, AnswerOk, AnswerRedirect, ConnectionBreaks
  <2> QED
    BY <1>5, <2>2, <2>3
<1>9. ASSUME NEW s \in Server, Apply(s) PROVE MajorityAgrees(L, k)
  <2>1. \A i \in Server : log'[i] = IF i = s THEN apply(log[s]) ELSE log[i]
    BY <1>2, <1>9 DEF Apply, LogsOK
  <2>2. /\ apply(log[s]).last_commit_idx = log[s].last_commit_idx
        /\ apply(log[s]).log_idx = log[s].log_idx
        /\ apply(log[s]).entries = log[s].entries
    BY <1>2, ApplyOK DEF LogsOK
  <2>3. UNCHANGED requests
    BY <1>9 DEF Apply
  <2> QED
    BY <1>4, <2>1, <2>2, <2>3, NothingMarked
<1>10. ASSUME NEW t \in threads, broadcastEntry(t) \/ CallFails(t) PROVE MajorityAgrees(L, k)
  <2>1. CASE FirstCall(t) \/ StepBack(t) \/ StepForward(t)
    BY <1>4, <2>1, CallMarks
  <2>2. \/ UNCHANGED log /\ requests' \subseteq requests
        \/ FirstCall(t) \/ StepBack(t) \/ StepForward(t)
    BY <1>10 DEF broadcastEntry, Acknowledged, LearnLaterTerm, NotAcknowledged, CallFails, ThreadEnds
  <2> QED
    BY <1>5, <2>1, <2>2
<1>11. ASSUME NEW r \in requests, AppendEntries(r) PROVE MajorityAgrees(L, k)
  <2>1. CASE InsertEntry(r)
    <3>1. k \in Marked(L) \/ (k \in Int /\ k <= r.lastCommitIndex)
      BY <1>1, <2>1, InsertMarks
    <3>2. r.lastCommitIndex \in Marked(L) /\ r.lastCommitIndex \in Int
      BY MarkedTypes, <1>2
    <3> QED
      BY <1>4, <3>1, <3>2, MajorityLess DEF MarkedOnMajority
  <2>2. CASE RejectMismatch(r)
    BY <1>5, <2>2 DEF RejectMismatch, Reply
  <2> QED
    BY <1>11, <2>1, <2>2, LeadersRequest
<1>12. ASSUME NEW i \in Server, NEW j \in Server,
              Campaign(i) \/ Vote(j, i) \/ RefuseVote(j, i) \/ Heartbeat(i, j)
       PROVE  MajorityAgrees(L, k)
  BY <1>5, <1>12, ElectionsAreOver
<1> QED
  BY <1>6, <1>7, <1>8, <1>9, <1>10, <1>11, <1>12 DEF Next

-----------------------------------------------------------------------------

UnderCountingLeader ==
  \E L \in Server : /\ Leads(L) /\ ReplicasMatch(L)
                    /\ CountersMatch(L) /\ MarkedOnMajority(L)

LEMMA InitCounts ==
  ASSUME TypeInv, OneLeaderOnly, Init
  PROVE  UnderCountingLeader
<1>1. PICK s \in Setups :
        /\ leader_id = [i \in Server |-> s.leader]
        /\ log = s.log
        /\ counters = [i \in Server |-> [c \in {} |-> 0]]
        /\ ready_to_commit = [i \in Server |-> [c \in {} |-> FALSE]]
        /\ puts = {} /\ threads = {} /\ requests = {}
  BY DEF Init
<1>2. Settled(s)
  BY DEF OneLeaderOnly
<1>3. PICK L \in Server : Leads(L) /\ ReplicasMatch(L)
  BY InitReplicas
<1>4. L = s.leader
  BY <1>1, <1>3 DEF Leads
<1>5. CountersMatch(L)
  <2>1. PutsDiffer /\ ThreadsServePuts
    BY <1>1, FS_EmptySet DEF PutsDiffer, ThreadsServePuts
  <2>2. CountersCount(L)
    BY <1>1 DEF CountersCount
  <2> QED
    BY <2>1, <2>2 DEF CountersMatch
<1>6. /\ \A i \in Server : MajorityAgrees(L, log[i].last_commit_idx)
      /\ \A k \in 0..log[L].log_idx : log[L].entries[k].commit_done => MajorityAgrees(L, k)
  BY <1>1, <1>2, <1>4 DEF Settled, MajorityAgrees, Agrees
<1>7. MarkedOnMajority(L)
  BY <1>1, <1>6 DEF MarkedOnMajority, Marked
<1> QED
  BY <1>3, <1>5, <1>7 DEF UnderCountingLeader

LEMMA UnderCountingLeaderInvariant ==
  ASSUME OneLeaderOnly, Retried = {}
  PROVE  Spec => [](TypeInv /\ UnderCountingLeader)
<1>1. Init => TypeInv /\ UnderCountingLeader
  BY InitTypes, InitCounts
<1>2. TypeInv /\ UnderCountingLeader /\ [Next]_vars => (TypeInv /\ UnderCountingLeader)'
  <2> SUFFICES ASSUME TypeInv, UnderCountingLeader, [Next]_vars
               PROVE  (TypeInv /\ UnderCountingLeader)'
    OBVIOUS
  <2>1. TypeInv'
    BY StepTypes
  <2>2. PICK L \in Server : /\ Leads(L) /\ ReplicasMatch(L)
                            /\ CountersMatch(L) /\ MarkedOnMajority(L)
    BY DEF UnderCountingLeader
  <2>3. Leads(L)' /\ ReplicasMatch(L)' /\ CountersMatch(L)' /\ MarkedOnMajority(L)'
    BY <2>1, <2>2, LeaderStays, ReplicasStep, CountersStep, MarkedStep DEF OneLeaderOnly
  <2> QED
    BY <2>1, <2>3 DEF UnderCountingLeader
<1> QED
  BY <1>1, <1>2, PTL DEF Spec

\* While one server leads and every request is put once, what any server has
\* committed, a majority has in its log: the counter that the threads share, compared
\* with half the number of peers, has counted each follower once, and only followers
\* that have all that comes before the entry.
THEOREM CommittedByMajority ==
  ASSUME OneLeaderOnly, Retried = {}
  PROVE  Spec => []CommittedOnMajority
<1>1. ASSUME TypeInv, UnderCountingLeader, NEW i \in Server, NEW k \in 0..log[i].last_commit_idx
      PROVE  Cardinality({j \in Server : Holds(j, k, log[i].entries[k])}) >= Majority
  <2>1. PICK L \in Server : ReplicasMatch(L) /\ MarkedOnMajority(L)
    BY <1>1 DEF UnderCountingLeader
  <2> DEFINE n == log[i].last_commit_idx
  <2>2. AgreeUpTo(log[L], log[i], n) /\ MajorityAgrees(L, n)
    BY <1>1, <2>1, MarkedTypes DEF MarkedOnMajority, ReplicasMatch, LogsMatch, LogMatches
  <2>3. /\ log[i].entries[k].term = log[L].entries[k].term
        /\ log[i].entries[k].cmd = log[L].entries[k].cmd
    BY <2>2 DEF AgreeUpTo
  <2>4. n \in Int /\ k <= n
    BY <1>1 DEF TypeInv, TypeOK, LogsOK, LogOK
  <2> HIDE DEF n
  <2>5. ASSUME NEW j \in Server, AgreeUpTo(log[L], log[j], n)
        PROVE  Holds(j, k, log[i].entries[k])
    <3>1. /\ log[j].entries[k].term = log[L].entries[k].term
          /\ log[j].entries[k].cmd = log[L].entries[k].cmd
      BY <2>4, <2>5 DEF AgreeUpTo, n
    <3>2. n <= log[j].log_idx
      BY <1>1, <2>4, <2>5, AgreeMeans, MarkedTypes
    <3>3. log[j].log_idx \in Int
      BY <1>1, MarkedTypes DEF LogOK
    <3> QED
      BY <2>3, <2>4, <3>1, <3>2, <3>3 DEF Holds
  <2>6. {j \in Server : Agrees(L, j, n)} \subseteq {j \in Server : Holds(j, k, log[i].entries[k])}
    BY <2>5 DEF Agrees
  <2> QED
    BY <2>2, <2>6, FewerAgree DEF MajorityAgrees
<1>2. TypeInv /\ UnderCountingLeader => CommittedOnMajority
  BY <1>1 DEF CommittedOnMajority
<1> QED
  BY <1>2, UnderCountingLeaderInvariant, PTL
=============================================================================
