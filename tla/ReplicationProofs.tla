------------------------- MODULE ReplicationProofs -------------------------
(***************************************************************************)
(* Theorems about Replication: types, with the well-formedness of all      *)
(* logs, and what elections and puts leave in the logs.                    *)
(***************************************************************************)
EXTENDS Replication, RaftLogProofs

-----------------------------------------------------------------------------
(* Types.                                                                  *)

\* What a thread, a request and a put that is not over have in addition to
\* their types.  A thread stays between the first entry and its own, and is
\* never told to step back behind the first.
ThreadInv(t) ==
  /\ t \in Thread /\ t.to # t.server
  /\ -1 <= t.prev /\ t.prev < t.idx
  /\ t.pc = "REJECT" => t.prev # -1

RequestInv(r) == r \in Request /\ r.to # r.server /\ -1 <= r.prev_log_index

PutInv(p) == p \in Put /\ (Pending(p) => p.idx \in Nat)

HandlersInv ==
  /\ \A p \in puts : PutInv(p)
  /\ \A t \in threads : ThreadInv(t)
  /\ \A r \in requests : RequestInv(r)

TypeInv == TypeOK /\ HandlersInv

LEMMA InitTypes == Init => TypeInv
<1> SUFFICES ASSUME Init PROVE TypeInv
  OBVIOUS
<1>1. PICK s \in Setups :
        /\ term = [i \in Server |-> s.term]
        /\ status = [i \in Server |-> IF i = s.leader THEN "LEADER" ELSE "FOLLOWER"]
        /\ voted_for = [i \in Server |-> [term |-> s.term, server_id |-> s.leader]]
        /\ leader_id = [i \in Server |-> s.leader]
        /\ election = [i \in Server |-> [term |-> s.term, votes |-> {}]]
        /\ log = s.log
        /\ todo = s.todo
        /\ counters = [i \in Server |-> [c \in {} |-> 0]]
        /\ ready_to_commit = [i \in Server |-> [c \in {} |-> FALSE]]
        /\ puts = {} /\ threads = {} /\ requests = {}
        /\ failures = 0
        /\ won = 0..s.term /\ disputed = {}
        /\ reign = [i \in Server |-> IF i = s.leader THEN s.term ELSE -1]
  BY DEF Init
<1>2. Plausible(s)
  BY SetupAssumption
<1>3. ServersOK
  BY <1>1, <1>2 DEF ServersOK, Plausible
<1>4. LogsOK
  BY <1>1, <1>2 DEF LogsOK, Plausible
<1>5. DictsOK
  BY <1>1 DEF DictsOK
<1>6. HandlersOK /\ HandlersInv
  BY <1>1, <1>2 DEF HandlersOK, HandlersInv, Plausible
<1>7. HistoryOK
  BY <1>1, <1>2 DEF HistoryOK, Plausible
<1> QED
  BY <1>3, <1>4, <1>5, <1>6, <1>7 DEF TypeInv, TypeOK

\* What does not change keeps its types.
LEMMA SameTypes ==
  /\ ServersOK /\ UNCHANGED <<electionVars, nodeVars>> => ServersOK'
  /\ LogsOK /\ UNCHANGED log => LogsOK'
  /\ DictsOK /\ UNCHANGED dictVars => DictsOK'
  /\ HistoryOK /\ UNCHANGED historyVars => HistoryOK'
<1>1. ServersOK /\ UNCHANGED <<electionVars, nodeVars>> => ServersOK'
  BY DEF ServersOK, electionVars, nodeVars
<1>2. LogsOK /\ UNCHANGED log => LogsOK'
  BY DEF LogsOK
<1>3. DictsOK /\ UNCHANGED dictVars => DictsOK'
  BY DEF DictsOK, dictVars
<1>4. HistoryOK /\ UNCHANGED historyVars => HistoryOK'
  BY DEF HistoryOK, historyVars
<1> QED
  BY <1>1, <1>2, <1>3, <1>4

\* A dict from requests to members of R.
IsDict(d, R) == d \in [DOMAIN d -> R] /\ DOMAIN d \subseteq Command

LEMMA DictsAreDicts ==
  DictsOK <=>
    /\ DOMAIN counters = Server /\ DOMAIN ready_to_commit = Server
    /\ \A i \in Server : /\ IsDict(counters[i], [reached : Nat, majority : Nat])
                         /\ IsDict(ready_to_commit[i], BOOLEAN)
  BY DEF DictsOK, IsDict

\* Storing a value in a dict, and removing a key.
LEMMA StoredDict ==
  ASSUME NEW d, NEW R, IsDict(d, R), NEW k \in Command, NEW v \in R
  PROVE  IsDict(Stored(d, k, v), R)
  BY DEF Stored, IsDict

LEMMA WithoutDict ==
  ASSUME NEW d, NEW R, IsDict(d, R), NEW k
  PROVE  IsDict(Without(d, k), R)
  BY DEF Without, Restrict, IsDict

\* A put that changes its pc keeps its other fields.
LEMMA BecomesTypes ==
  ASSUME HandlersInv, NEW p \in puts, NEW pc \in {"applying", "ok", "rejected", "error"},
         pc = "applying" => Pending(p), Becomes(p, pc)
  PROVE  \A q \in puts' : PutInv(q)
<1>1. PutInv(p)
  BY DEF HandlersInv
<1>2. PutInv([p EXCEPT !.pc = pc])
  BY <1>1 DEF PutInv, Put, Pending
<1> QED
  BY <1>2 DEF Becomes, HandlersInv

\* A call leaves threads and requests of their types.
LEMMA CallTypes ==
  ASSUME TypeInv, NEW t \in threads,
         NEW u \in Thread, u.to # u.server, -1 <= u.prev, u.prev < u.idx, Call(t, u)
  PROVE  /\ \A v \in threads' : ThreadInv(v)
         /\ \A r \in requests' : RequestInv(r)
<1>1. CASE u.prev + 1 <= log[u.server].log_idx
  <2>1. ThreadInv([u EXCEPT !.pc = "calling"])
    <3> DEFINE v == [u EXCEPT !.pc = "calling"]
    <3>1. /\ v \in Thread /\ v.to = u.to /\ v.server = u.server
          /\ v.prev = u.prev /\ v.idx = u.idx /\ v.pc = "calling"
      BY DEF Thread
    <3> HIDE DEF v
    <3>2. ThreadInv(v)
      BY <3>1 DEF ThreadInv
    <3> QED
      BY <3>2 DEF v
  <2>2. RequestInv(create_log_entry_request(u))
    <3> DEFINE l == log[u.server]
    <3>1. u.server \in Server /\ u.to \in Server /\ u.idx \in Nat /\ u.cmd \in Command
          /\ u.prev \in Int /\ -1 <= u.prev /\ u.to # u.server
      BY DEF Thread
    <3>2. LogOK(l) /\ term[u.server] \in Nat
      BY <3>1 DEF TypeInv, TypeOK, LogsOK, ServersOK
    <3>3. /\ l.entries[u.prev + 1] \in Entry
          /\ u.prev # -1 => l.entries[u.prev] \in Entry
          /\ l.last_commit_idx \in Int
      BY <1>1, <3>1, <3>2, SMTT(60) DEF LogOK
    <3>4. PrevTerm(l, u.prev) \in Int
      BY <3>1, <3>3 DEF PrevTerm, Entry
    <3> HIDE DEF l
    <3>5. create_log_entry_request(u) \in Request
      BY <3>1, <3>2, <3>3, <3>4 DEF create_log_entry_request, Request, Entry, l
    <3> QED
      BY <3>1, <3>5 DEF RequestInv, create_log_entry_request
  <2> QED
    BY <1>1, <2>1, <2>2 DEF Call, TypeInv, HandlersInv
<1>2. CASE ~(u.prev + 1 <= log[u.server].log_idx)
  BY <1>2 DEF Call, ThreadEnds, TypeInv, HandlersInv
<1> QED
  BY <1>1, <1>2

\* Counting a peer as reached leaves the dicts of their types.
LEMMA ReachedTypes ==
  ASSUME DictsOK, NEW t \in Thread, NEW gained \in Nat, Reached(t, gained),
         \/ UNCHANGED ready_to_commit
         \/ /\ t.cmd \in DOMAIN ready_to_commit[t.server]
            /\ ready_to_commit' = [ready_to_commit EXCEPT ![t.server][t.cmd] = TRUE]
  PROVE  DictsOK'
<1> DEFINE s == t.server
           R == [reached : Nat, majority : Nat]
<1>1. s \in Server /\ t.cmd \in Command
  BY DEF Thread
<1>2. /\ DOMAIN ready_to_commit' = Server
      /\ \A i \in Server : IsDict(ready_to_commit'[i], BOOLEAN)
  <2>1. /\ DOMAIN ready_to_commit = Server
        /\ \A i \in Server : IsDict(ready_to_commit[i], BOOLEAN)
    BY DictsAreDicts
  <2>2. CASE UNCHANGED ready_to_commit
    BY <2>1, <2>2
  <2>3. CASE ready_to_commit' = [ready_to_commit EXCEPT ![s][t.cmd] = TRUE]
    <3>1. \A i \in Server :
            ready_to_commit'[i] = IF i = s THEN [ready_to_commit[s] EXCEPT ![t.cmd] = TRUE]
                                  ELSE ready_to_commit[i]
      BY <1>1, <2>1, <2>3
    <3>2. IsDict([ready_to_commit[s] EXCEPT ![t.cmd] = TRUE], BOOLEAN)
      BY <1>1, <2>1 DEF IsDict
    <3> QED
      BY <2>1, <2>3, <3>1, <3>2
  <2> QED
    BY <2>2, <2>3
<1>3. /\ DOMAIN counters' = Server
      /\ \A i \in Server : IsDict(counters'[i], R)
  <2>1. DOMAIN counters = Server /\ \A i \in Server : IsDict(counters[i], R)
    BY DictsAreDicts
  <2>2. CASE t.cmd \notin DOMAIN counters[s]
    BY <2>1, <2>2 DEF Reached
  <2>3. CASE t.cmd \in DOMAIN counters[s]
    <3> DEFINE c   == counters[s][t.cmd]
               inc == [reached |-> c.reached + 1, majority |-> c.majority + gained]
               new == IF c.reached + 1 = Cardinality(Peers(s)) THEN Without(counters[s], t.cmd)
                      ELSE [counters[s] EXCEPT ![t.cmd] = inc]
    <3>1. IsDict(new, R)
      <4>1. inc \in R
        BY <1>1, <2>1, <2>3 DEF IsDict
      <4>2. IsDict(Without(counters[s], t.cmd), R)
        BY <1>1, <2>1, WithoutDict
      <4>3. IsDict([counters[s] EXCEPT ![t.cmd] = inc], R)
        <5> HIDE DEF inc, R
        <5> QED
          BY <1>1, <2>1, <4>1 DEF IsDict
      <4> HIDE DEF R, inc
      <4> QED
        BY <4>2, <4>3
    <3>2. counters' = [counters EXCEPT ![s] = new]
      BY <2>3 DEF Reached
    <3> HIDE DEF new, R
    <3> QED
      BY <1>1, <2>1, <3>1, <3>2
  <2> QED
    BY <2>2, <2>3
<1> QED
  BY <1>2, <1>3 DEF DictsOK, IsDict

\* A reply leaves threads and requests of their types.
LEMMA ReplyTypes ==
  ASSUME TypeInv, NEW r \in requests, NEW code \in {"OK", "REJECT", "REDIRECT"},
         code = "REJECT" => r.prev_log_index # -1, Reply(r, code)
  PROVE  ServersOK' /\ DictsOK' /\ HandlersOK' /\ HandlersInv'
<1>1. RequestInv(r) /\ term[r.to] \in Nat
  BY DEF TypeInv, TypeOK, HandlersInv, RequestInv, Request, ServersOK
<1>2. ASSUME NEW t \in threads
      PROVE  /\ ThreadInv(t)
             /\ Serves(r, t) => ThreadInv([t EXCEPT !.pc = code, !.reply_term = term[r.to]])
  <2>1. ThreadInv(t)
    BY DEF TypeInv, HandlersInv
  <2> DEFINE u == [t EXCEPT !.pc = code, !.reply_term = term[r.to]]
  <2>2. ASSUME Serves(r, t) PROVE ThreadInv(u)
    <3>1. u \in Thread
      BY <1>1, <2>1 DEF ThreadInv, Thread
    <3>2. /\ u.to = t.to /\ u.server = t.server /\ u.prev = t.prev /\ u.idx = t.idx
          /\ u.pc = code /\ t.prev = r.prev_log_index
      BY <2>1, <2>2 DEF ThreadInv, Thread, Serves
    <3> HIDE DEF u
    <3> QED
      BY <2>1, <3>1, <3>2 DEF ThreadInv
  <2> QED
    BY <2>1, <2>2
<1>3. \A t \in threads' : ThreadInv(t)
  BY <1>2 DEF Reply
<1>4. ServersOK' /\ DictsOK'
  BY SameTypes DEF Reply, TypeInv, TypeOK
<1>5. HandlersInv'
  BY <1>3 DEF Reply, TypeInv, HandlersInv
<1>6. HandlersOK'
  BY <1>5 DEF Reply, TypeInv, TypeOK, HandlersInv, HandlersOK, ThreadInv
<1> QED
  BY <1>4, <1>5, <1>6

\* A log that becomes another well-formed one.
LEMMA LogChangeTypes ==
  ASSUME LogsOK, NEW s \in Server, NEW l, LogOK(l), log' = [log EXCEPT ![s] = l]
  PROVE  LogsOK'
  BY DEF LogsOK

-----------------------------------------------------------------------------

LEMMA PutTypes ==
  ASSUME TypeInv, NEW s \in Server, NEW cmd \in todo, HandlePut(s, cmd) \/ RepeatPut(s, cmd)
  PROVE  TypeInv'
<1>1. /\ ServersOK /\ LogsOK /\ DictsOK /\ HandlersOK /\ HistoryOK /\ HandlersInv
      /\ cmd \in Command /\ term[s] \in Nat /\ LogOK(log[s])
  BY DEF TypeInv, TypeOK, HandlersOK, ServersOK, LogsOK
<1>2. CASE HandlePut(s, cmd)
  <2> DEFINE l == append(log[s], term[s], cmd)
             n == log[s].log_idx + 1
  <2>1. LogOK(l) /\ l.log_idx = n /\ n \in Nat
    <3>1. LogOK(l) /\ l.log_idx = n
      BY <1>1, AppendOK
    <3>2. n \in Nat
      BY <1>1 DEF LogOK, WellFormed
    <3> QED
      BY <3>1, <3>2
  <2> HIDE DEF l
  <2>2. log' = [log EXCEPT ![s] = l] /\ log'[s].log_idx = n
    <3>1. log' = [log EXCEPT ![s] = l]
      BY <1>2 DEF HandlePut, l
    <3> QED
      BY <1>1, <2>1, <3>1 DEF LogsOK
  <2>3. LogsOK'
    BY <1>1, <2>1, <2>2, LogChangeTypes
  <2>4. PutInv(NewPut(s, cmd, n, "waiting"))
    BY <1>1, <2>1 DEF PutInv, NewPut, Put, Pending
  <2>5. \A f \in Peers(s) : ThreadInv(NewThread(s, cmd, n, f))
    BY <1>1, <2>1 DEF ThreadInv, NewThread, Thread, Peers
  <2>6. HandlersInv'
    BY <1>1, <1>2, <2>2, <2>4, <2>5 DEF HandlePut, HandlersInv
  <2>7. HandlersOK'
    BY <1>1, <1>2, <2>6 DEF HandlePut, HandlersOK, HandlersInv, PutInv, ThreadInv
  <2>8. DictsOK'
    <3> DEFINE R == [reached : Nat, majority : Nat]
               c == Stored(counters[s], cmd, [reached |-> 0, majority |-> 0])
               f == Stored(ready_to_commit[s], cmd, FALSE)
    <3>1. /\ DOMAIN counters = Server /\ DOMAIN ready_to_commit = Server
          /\ \A i \in Server : IsDict(counters[i], R) /\ IsDict(ready_to_commit[i], BOOLEAN)
      BY <1>1, DictsAreDicts
    <3>2. IsDict(c, R) /\ IsDict(f, BOOLEAN)
      <4>1. [reached |-> 0, majority |-> 0] \in R
        OBVIOUS
      <4> HIDE DEF R
      <4> QED
        BY <1>1, <3>1, <4>1, StoredDict
    <3>3. /\ counters' = [counters EXCEPT ![s] = c]
          /\ ready_to_commit' = [ready_to_commit EXCEPT ![s] = f]
      BY <1>2 DEF HandlePut
    <3>4. \A i \in Server : IsDict(counters'[i], R) /\ IsDict(ready_to_commit'[i], BOOLEAN)
      <4> HIDE DEF c, f, R
      <4> QED
        BY <3>1, <3>2, <3>3
    <3>5. DOMAIN counters' = Server /\ DOMAIN ready_to_commit' = Server
      BY <3>1, <3>3
    <3> QED
      BY <3>4, <3>5 DEF DictsOK, IsDict
  <2>9. HistoryOK'
    BY <1>1, <1>2 DEF HandlePut, HistoryOK
  <2>10. ServersOK'
    BY <1>1, <1>2, SameTypes DEF HandlePut
  <2> QED
    BY <2>3, <2>6, <2>7, <2>8, <2>9, <2>10 DEF TypeInv, TypeOK
<1>3. CASE RepeatPut(s, cmd)
  <2>1. PutInv(NewPut(s, cmd, -1, "ok"))
    BY <1>1 DEF PutInv, NewPut, Put, Pending
  <2>2. HandlersInv'
    BY <1>1, <1>3, <2>1 DEF RepeatPut, HandlersInv
  <2>3. HandlersOK'
    BY <1>1, <1>3, <2>2 DEF RepeatPut, HandlersOK, HandlersInv, PutInv
  <2>4. ServersOK' /\ LogsOK' /\ DictsOK' /\ HistoryOK'
    BY <1>1, <1>3, SameTypes DEF RepeatPut
  <2> QED
    BY <2>2, <2>3, <2>4 DEF TypeInv, TypeOK
<1> QED
  BY <1>2, <1>3

LEMMA HandlerTypes ==
  ASSUME TypeInv, NEW p \in puts, HandlerGoesOn(p) \/ ConnectionBreaks(p)
  PROVE  TypeInv'
<1>1. /\ ServersOK /\ LogsOK /\ DictsOK /\ HandlersOK /\ HistoryOK /\ HandlersInv
      /\ PutInv(p) /\ p.cmd \in Command /\ p.server \in Server /\ LogOK(log[p.server])
      /\ Pending(p) => p.idx \in Nat
  BY DEF TypeInv, TypeOK, HandlersInv, PutInv, Put, LogsOK
<1>2. ASSUME TryAgain(p) \/ UNCHANGED todo PROVE todo' \subseteq Command
  BY <1>1, <1>2 DEF TryAgain, HandlersOK
<1>3. ASSUME \A q \in puts' : PutInv(q), UNCHANGED <<threads, requests>>,
             TryAgain(p) \/ UNCHANGED todo, failures' \in Nat
      PROVE  HandlersOK' /\ HandlersInv'
  <2>1. todo' \subseteq Command
    BY <1>2, <1>3
  <2> QED
    BY <1>1, <1>3, <2>1 DEF HandlersOK, HandlersInv, PutInv
<1>4. CASE Commit(p)
  <2>1. p.pc = "waiting" /\ p.idx \in Nat
    BY <1>1, <1>4 DEF Commit, Broadcast, Pending
  <2>2. LogsOK'
    <3>1. CASE p.idx <= log[p.server].log_idx
      <4>1. LogOK(commit(log[p.server], p.idx))
        <5>1. p.idx \in 0..log[p.server].log_idx
          BY <1>1, <2>1, <3>1 DEF LogOK
        <5> QED
          BY <1>1, <5>1, CommitOK
      <4> QED
        BY <1>1, <1>4, <3>1, <4>1, LogChangeTypes DEF Commit
    <3>2. CASE ~(p.idx <= log[p.server].log_idx)
      BY <1>1, <1>4, <3>2, SameTypes DEF Commit
    <3> QED
      BY <3>1, <3>2
  <2>3. /\ Becomes(p, "applying") \/ Becomes(p, "error")
        /\ TryAgain(p) \/ UNCHANGED todo
    BY <1>4 DEF Commit
  <2>4. \A q \in puts' : PutInv(q)
    BY <1>1, <2>1, <2>3, BecomesTypes DEF Pending
  <2>5. HandlersOK' /\ HandlersInv'
    BY <1>1, <1>3, <1>4, <2>3, <2>4 DEF Commit, HandlersOK
  <2>6. DictsOK'
    <3> DEFINE s == p.server
               w == Without(ready_to_commit[s], p.cmd)
    <3>1. DOMAIN ready_to_commit = Server /\ \A i \in Server : IsDict(ready_to_commit[i], BOOLEAN)
      BY <1>1, DictsAreDicts
    <3>2. IsDict(w, BOOLEAN)
      BY <1>1, <3>1, WithoutDict
    <3>3. UNCHANGED counters /\ ready_to_commit' = [ready_to_commit EXCEPT ![s] = w]
      BY <1>4 DEF Commit
    <3> HIDE DEF w
    <3>4. /\ DOMAIN ready_to_commit' = Server
          /\ \A i \in Server : IsDict(ready_to_commit'[i], BOOLEAN)
      BY <3>1, <3>2, <3>3
    <3> QED
      BY <1>1, <3>3, <3>4 DEF DictsOK, IsDict
  <2>7. ServersOK' /\ HistoryOK'
    BY <1>1, <1>4, SameTypes DEF Commit
  <2> QED
    BY <2>2, <2>5, <2>6, <2>7 DEF TypeInv, TypeOK
<1>5. CASE FindNoFlag(p) \/ AnswerOk(p) \/ AnswerRedirect(p)
  <2>1. Becomes(p, "error") \/ Becomes(p, "ok") \/ Becomes(p, "rejected")
    BY <1>5 DEF FindNoFlag, AnswerOk, AnswerRedirect
  <2>2. \A q \in puts' : PutInv(q)
    BY <1>1, <2>1, BecomesTypes
  <2>3. HandlersOK' /\ HandlersInv'
    BY <1>1, <1>3, <1>5, <2>2 DEF FindNoFlag, AnswerOk, AnswerRedirect, HandlersOK
  <2>4. ServersOK' /\ LogsOK' /\ DictsOK' /\ HistoryOK'
    BY <1>1, <1>5, SameTypes DEF FindNoFlag, AnswerOk, AnswerRedirect
  <2> QED
    BY <2>3, <2>4 DEF TypeInv, TypeOK
<1>6. CASE ConnectionBreaks(p)
  <2>1. PutInv([p EXCEPT !.awaited = FALSE])
    BY <1>1 DEF PutInv, Put, Pending
  <2>2. HandlersInv'
    BY <1>1, <1>6, <2>1 DEF ConnectionBreaks, HandlersInv
  <2>3. HandlersOK'
    BY <1>1, <1>6, <2>2 DEF ConnectionBreaks, HandlersOK, HandlersInv, PutInv
  <2>4. ServersOK' /\ LogsOK' /\ DictsOK' /\ HistoryOK'
    BY <1>1, <1>6, SameTypes DEF ConnectionBreaks
  <2> QED
    BY <2>2, <2>3, <2>4 DEF TypeInv, TypeOK
<1> QED
  BY <1>4, <1>5, <1>6 DEF HandlerGoesOn

LEMMA ApplyTypes ==
  ASSUME TypeInv, NEW s \in Server, Apply(s)
  PROVE  TypeInv'
<1>1. /\ ServersOK /\ LogsOK /\ DictsOK /\ HandlersOK /\ HistoryOK /\ HandlersInv
      /\ LogOK(log[s])
  BY DEF TypeInv, TypeOK, LogsOK
<1>2. LogOK(apply(log[s]))
  BY <1>1, ApplyOK
<1>3. LogsOK'
  BY <1>1, <1>2, LogChangeTypes DEF Apply
<1>4. ServersOK' /\ DictsOK' /\ HistoryOK'
  BY <1>1, SameTypes DEF Apply
<1>5. HandlersOK' /\ HandlersInv'
  BY <1>1 DEF Apply, HandlersOK, HandlersInv
<1> QED
  BY <1>3, <1>4, <1>5 DEF TypeInv, TypeOK

\* A step of a thread.
LEMMA ThreadTypes ==
  ASSUME TypeInv, NEW t \in threads,
         \/ broadcastEntry(t)
         \/ CallFails(t) /\ UNCHANGED <<electionVars, todo, historyVars>>
  PROVE  TypeInv'
<1>1. /\ ServersOK /\ LogsOK /\ DictsOK /\ HandlersOK /\ HistoryOK /\ HandlersInv
      /\ ThreadInv(t) /\ t \in Thread /\ t.server \in Server /\ t.to \in Server
  BY DEF TypeInv, TypeOK, HandlersInv, ThreadInv, Thread
<1>2. LogsOK' /\ HistoryOK' /\ UNCHANGED <<log, todo, electionVars>>
  BY <1>1, SameTypes DEF broadcastEntry, FirstCall, Acknowledged, StepBack, StepForward,
     LearnLaterTerm, NotAcknowledged, CallFails
<1>3. ASSUME HandlersInv', failures' \in Nat PROVE HandlersOK'
  BY <1>1, <1>2, <1>3 DEF HandlersOK, HandlersInv, PutInv, ThreadInv, RequestInv
<1>4. CASE FirstCall(t) \/ StepBack(t) \/ StepForward(t)
  <2>1. /\ ServersOK' /\ DictsOK' /\ UNCHANGED <<puts, failures>>
    BY <1>1, <1>2, <1>4, SameTypes DEF FirstCall, StepBack, StepForward
  <2>2. /\ \A v \in threads' : ThreadInv(v)
        /\ \A r \in requests' : RequestInv(r)
    <3>1. CASE FirstCall(t)
      BY <1>1, <3>1, CallTypes DEF FirstCall, ThreadInv
    <3>2. CASE StepBack(t)
      <4> DEFINE u == [t EXCEPT !.prev = @ - 1]
      <4>1. Call(t, u) /\ t.pc = "REJECT"
        BY <3>2 DEF StepBack
      <4>2. u \in Thread /\ u.to # u.server /\ -1 <= u.prev /\ u.prev < u.idx
        BY <1>1, <4>1 DEF ThreadInv, Thread
      <4> HIDE DEF u
      <4> QED
        BY <4>1, <4>2, CallTypes
    <3>3. CASE StepForward(t)
      <4> DEFINE u == [t EXCEPT !.prev = @ + 1, !.forward = TRUE]
      <4>1. Call(t, u) /\ t.prev # t.idx - 1
        BY <3>3 DEF StepForward, AtOwnEntry
      <4>2. t.prev + 1 < t.idx /\ t.prev + 1 \in Int /\ -1 <= t.prev + 1
        BY <1>1, <4>1 DEF ThreadInv, Thread
      <4>3. /\ u \in Thread /\ u.to = t.to /\ u.server = t.server
            /\ u.prev = t.prev + 1 /\ u.idx = t.idx
        BY <1>1, <4>2 DEF Thread
      <4>4. u \in Thread /\ u.to # u.server /\ -1 <= u.prev /\ u.prev < u.idx
        BY <1>1, <4>2, <4>3 DEF ThreadInv
      <4> HIDE DEF u
      <4> QED
        BY <4>1, <4>4, CallTypes
    <3> QED
      BY <1>4, <3>1, <3>2, <3>3
  <2>3. HandlersInv'
    BY <1>1, <2>1, <2>2 DEF HandlersInv
  <2>4. failures' \in Nat
    BY <1>1, <2>1 DEF HandlersOK
  <2> QED
    BY <1>2, <1>3, <2>1, <2>3, <2>4 DEF TypeInv, TypeOK
<1>5. CASE Acknowledged(t)
  <2>1. \A p \in puts' : PutInv(p)
    <3>1. ASSUME NEW p \in puts PROVE PutInv(p) /\ PutInv([p EXCEPT !.acks = @ \cup {t.to}])
      BY <1>1 DEF HandlersInv, PutInv, Put, Pending
    <3> QED
      BY <1>5, <3>1 DEF Acknowledged
  <2>2. HandlersInv' /\ failures' \in Nat
    BY <1>1, <1>5, <2>1 DEF Acknowledged, ThreadEnds, HandlersInv, HandlersOK
  <2>3. DictsOK'
    BY <1>1, <1>5, ReachedTypes DEF Acknowledged
  <2>4. ServersOK'
    BY <1>1, <1>2, <1>5, SameTypes DEF Acknowledged
  <2> QED
    BY <1>2, <1>3, <2>2, <2>3, <2>4 DEF TypeInv, TypeOK
<1>6. CASE LearnLaterTerm(t)
  <2>1. HandlersInv' /\ failures' \in Nat
    BY <1>1, <1>6 DEF LearnLaterTerm, ThreadEnds, HandlersInv, HandlersOK
  <2>2. DictsOK'
    BY <1>1, <1>6, SameTypes DEF LearnLaterTerm
  <2>3. ServersOK'
    BY <1>1, <1>2, <1>6 DEF LearnLaterTerm, ServersOK, electionVars, Thread
  <2> QED
    BY <1>2, <1>3, <2>1, <2>2, <2>3 DEF TypeInv, TypeOK
<1>7. CASE NotAcknowledged(t) \/ CallFails(t)
  <2>1. Reached(t, 0) /\ UNCHANGED <<ready_to_commit, nodeVars>>
    BY <1>7 DEF NotAcknowledged, CallFails
  <2>2. DictsOK'
    BY <1>1, <2>1, ReachedTypes
  <2>3. ServersOK'
    BY <1>1, <1>2, <2>1, SameTypes
  <2>4. HandlersInv' /\ failures' \in Nat
    BY <1>1, <1>7 DEF NotAcknowledged, CallFails, ThreadEnds, HandlersInv, HandlersOK
  <2> QED
    BY <1>2, <1>3, <2>2, <2>3, <2>4 DEF TypeInv, TypeOK
<1> QED
  BY <1>4, <1>5, <1>6, <1>7 DEF broadcastEntry

\* The log that the follower has after each branch of AppendEntries.
LEMMA AppendEntriesLog ==
  ASSUME TypeInv, NEW r \in requests
  PROVE  /\ LogOK(append(clear(log[r.to]), EntryTerm(r), r.entry))
         /\ LogOK(commit_upto(insert_at(log[r.to], r.prev_log_index + 1, EntryTerm(r), r.entry),
                              CommitIndex(r, InsertedAt(log[r.to], r.prev_log_index + 1))))
<1> DEFINE l == log[r.to]
           index == r.prev_log_index + 1
<1>1. /\ LogOK(l) /\ index \in Nat /\ EntryTerm(r) \in Nat /\ r.entry \in Command
      /\ r.lastCommitIndex \in Int
  BY DEF TypeInv, TypeOK, LogsOK, HandlersInv, RequestInv, Request, EntryTerm
<1> HIDE DEF l, index
<1>2. LogOK(append(clear(l), EntryTerm(r), r.entry))
  BY <1>1, ClearOK, AppendOK
<1>3. /\ LogOK(insert_at(l, index, EntryTerm(r), r.entry))
      /\ InsertedAt(l, index) \in Int
  BY <1>1, InsertAtOK
<1>4. CommitIndex(r, InsertedAt(l, index)) \in Int
  BY <1>1, <1>3 DEF CommitIndex
<1>5. LogOK(commit_upto(insert_at(l, index, EntryTerm(r), r.entry),
                        CommitIndex(r, InsertedAt(l, index))))
  BY <1>3, <1>4, CommitUptoOK
<1> QED
  BY <1>2, <1>5 DEF l, index

LEMMA AppendEntriesTypes ==
  ASSUME TypeInv, NEW r \in requests, AppendEntries(r)
  PROVE  TypeInv'
<1>1. /\ LogsOK /\ HistoryOK /\ r.to \in Server
  BY DEF TypeInv, TypeOK, HandlersInv, RequestInv, Request
<1>2. /\ UNCHANGED <<won, disputed>>
      /\ ServersOK' /\ DictsOK' /\ HandlersOK' /\ HandlersInv'
  <2>1. \/ Reply(r, "OK")
        \/ Reply(r, "REDIRECT")
        \/ Reply(r, "REJECT") /\ r.prev_log_index # -1
    BY DEF AppendEntries, RefuseOutdated, StartAnew, InsertEntry, RejectMismatch
  <2> QED
    BY <2>1, ReplyTypes DEF Reply
<1>3. CASE UNCHANGED <<log, reign>>
  <2>1. LogsOK' /\ HistoryOK'
    BY <1>1, <1>2, <1>3 DEF LogsOK, HistoryOK
  <2> QED
    BY <1>2, <2>1 DEF TypeInv, TypeOK
<1>4. ASSUME NEW l, LogOK(l), LogBecomes(r.to, l) PROVE TypeInv'
  <2>1. LogsOK'
    BY <1>1, <1>4, LogChangeTypes DEF LogBecomes
  <2>2. HistoryOK'
    BY <1>1, <1>2, <1>4 DEF LogBecomes, HistoryOK
  <2> QED
    BY <1>2, <2>1, <2>2 DEF TypeInv, TypeOK
<1> QED
  BY <1>3, <1>4, AppendEntriesLog
     DEF AppendEntries, RefuseOutdated, StartAnew, InsertEntry, RejectMismatch

LEMMA ElectionTypes ==
  ASSUME TypeInv, NEW i \in Server, NEW j \in Server,
         Campaign(i) \/ Vote(j, i) \/ RefuseVote(j, i) \/ Heartbeat(i, j)
  PROVE  TypeInv'
<1>1. ServersOK /\ LogsOK /\ DictsOK /\ HandlersOK /\ HistoryOK /\ HandlersInv
  BY DEF TypeInv, TypeOK
<1>2. /\ UNCHANGED <<dictVars, log, puts, threads, requests, todo, failures, disputed>>
      /\ UNCHANGED <<won, reign>> \/ Vote(j, i)
  BY DEF Campaign, Vote, RefuseVote, Heartbeat, RevertToFollower, historyVars
<1>3. LogsOK' /\ DictsOK' /\ HandlersOK' /\ HandlersInv'
  BY <1>1, <1>2, SameTypes DEF HandlersOK, HandlersInv
<1>4. HistoryOK'
  <2>1. CASE UNCHANGED <<won, reign>>
    BY <1>1, <1>2, <2>1 DEF HistoryOK
  <2>2. CASE Vote(j, i)
    <3>1. term[i] \in Nat
      BY <1>1 DEF ServersOK
    <3> QED
      BY <1>1, <1>2, <2>2, <3>1 DEF HistoryOK, Vote
  <2> QED
    BY <1>2, <2>1, <2>2
<1>5. ServersOK'
  <2>1. ASSUME NEW a \in Server, NEW b \in Server, NEW l \in Server \cup {Nobody},
               RevertToFollower(a, b, l)
        PROVE  ServersOK'
    BY <1>1, <2>1 DEF ServersOK, RevertToFollower, electionVars
  <2>2. CASE RefuseVote(j, i) \/ Heartbeat(i, j)
    <3>1. leader_id[j] \in Server \cup {Nobody}
      BY <1>1 DEF ServersOK
    <3> QED
      BY <2>1, <2>2, <3>1 DEF RefuseVote, Heartbeat
  <2>3. CASE Campaign(i)
    <3>1. term[i] + 1 \in Nat
      BY <1>1 DEF ServersOK
    <3> QED
      BY <1>1, <2>3, <3>1 DEF ServersOK, Campaign
  <2>4. CASE Vote(j, i)
    <3>1. term[i] \in Nat /\ election[i].votes \cup {j} \in SUBSET Server
      BY <1>1 DEF ServersOK
    <3>2. term' \in [Server -> Nat]
      BY <1>1, <2>4, <3>1 DEF ServersOK, Vote
    <3>3. status' \in [Server -> {"CANDIDATE", "FOLLOWER", "LEADER"}]
      BY <1>1, <2>4 DEF ServersOK, Vote
    <3>4. voted_for' \in [Server -> [term : Nat, server_id : Server \cup {Nobody}]]
      BY <1>1, <2>4, <3>1 DEF ServersOK, Vote
    <3>5. leader_id' \in [Server -> Server \cup {Nobody}]
      BY <1>1, <2>4 DEF ServersOK, Vote
    <3>6. election' \in [Server -> [term : Nat, votes : SUBSET Server]]
      BY <1>1, <2>4, <3>1 DEF ServersOK, Vote
    <3> QED
      BY <3>2, <3>3, <3>4, <3>5, <3>6 DEF ServersOK
  <2> QED
    BY <2>2, <2>3, <2>4
<1> QED
  BY <1>3, <1>4, <1>5 DEF TypeInv, TypeOK

LEMMA StepTypes == TypeInv /\ [Next]_vars => TypeInv'
<1> SUFFICES ASSUME TypeInv, [Next]_vars PROVE TypeInv'
  OBVIOUS
<1>1. CASE UNCHANGED vars
  <2>1. ServersOK' /\ LogsOK' /\ DictsOK' /\ HistoryOK'
    BY <1>1, SameTypes DEF vars, TypeInv, TypeOK
  <2>2. HandlersOK' /\ HandlersInv'
    BY <1>1 DEF vars, TypeInv, TypeOK, HandlersOK, HandlersInv
  <2> QED
    BY <2>1, <2>2 DEF TypeInv, TypeOK
<1>2. CASE \E s \in Server, cmd \in todo : HandlePut(s, cmd) \/ RepeatPut(s, cmd)
  BY <1>2, PutTypes
<1>3. CASE \E p \in puts : HandlerGoesOn(p) \/ ConnectionBreaks(p)
  BY <1>3, HandlerTypes
<1>4. CASE \E s \in Server : Apply(s)
  BY <1>4, ApplyTypes
<1>5. CASE \E t \in threads :
             \/ broadcastEntry(t)
             \/ CallFails(t) /\ UNCHANGED <<electionVars, todo, historyVars>>
  BY <1>5, ThreadTypes
<1>6. CASE \E r \in requests : AppendEntries(r)
  BY <1>6, AppendEntriesTypes
<1>7. CASE \/ \E i \in Server : Campaign(i)
           \/ \E i, j \in Server : Vote(j, i) \/ RefuseVote(j, i) \/ Heartbeat(i, j)
  BY <1>7, ElectionTypes
<1> QED
  BY <1>1, <1>2, <1>3, <1>4, <1>5, <1>6, <1>7 DEF Next

LEMMA TypesInvariant == Spec => []TypeInv
<1>1. Init => TypeInv
  BY InitTypes
<1>2. TypeInv /\ [Next]_vars => TypeInv'
  BY StepTypes
<1> QED
  BY <1>1, <1>2, PTL DEF Spec

\* The variables have their types, in particular: no log has a gap, what is
\* applied is committed, what is committed is in the log, whatever handlers,
\* threads and late requests of several leaders do to it.
THEOREM TypesAndLogs == Spec => []TypeOK
<1>1. TypeInv => TypeOK
  BY DEF TypeInv
<1> QED
  BY <1>1, TypesInvariant, PTL

-----------------------------------------------------------------------------
(* One entry per term and index.                                           *)

EntryOf(t, k, c) == [term |-> t, index |-> k, cmd |-> c]

\* The entries that are in a log, or on their way to one.
Made ==
  (UNION {{EntryOf(log[i].entries[k].term, k, log[i].entries[k].cmd) :
             k \in 0..log[i].log_idx} : i \in Server})
  \cup {EntryOf(r.term, r.prev_log_index + 1, r.entry) : r \in requests}

\* Whoever reigns in a term has all the entries of that term below the end of
\* its own log: a put adds one that is not there yet.  Nobody else adds one, or
\* the term is disputed.
EntryInv ==
  /\ \A e, f \in Made :
       e.term = f.term /\ e.index = f.index /\ e.term \notin disputed => e.cmd = f.cmd
  /\ \A s \in Server : \A e \in Made :
       reign[s] = e.term /\ e.term \notin disputed => e.index <= log[s].log_idx
  /\ \A s, u \in Server : reign[s] = reign[u] /\ reign[s] # -1 => s = u
  /\ \A s \in Server : reign[s] \in won \cup {-1}
  /\ \A e \in Made : e.term \in won \cup disputed

InLog(i, e) ==
  \E k \in 0..log[i].log_idx : e = EntryOf(log[i].entries[k].term, k, log[i].entries[k].cmd)

InRequest(r, e) == e = EntryOf(r.term, r.prev_log_index + 1, r.entry)

LEMMA MadeWhere ==
  \A e : e \in Made <=> \/ \E i \in Server : InLog(i, e)
                        \/ \E r \in requests : InRequest(r, e)
  BY DEF Made, InLog, InRequest

LEMMA MadeTypes ==
  ASSUME TypeInv, NEW e \in Made
  PROVE  e.term \in Nat /\ e.index \in Nat
<1>1. CASE \E i \in Server : InLog(i, e)
  <2>1. PICK i \in Server : InLog(i, e)
    BY <1>1
  <2>2. LogOK(log[i])
    BY DEF TypeInv, TypeOK, LogsOK
  <2>3. PICK k \in 0..log[i].log_idx :
          e = EntryOf(log[i].entries[k].term, k, log[i].entries[k].cmd)
    BY <2>1 DEF InLog
  <2>4. log[i].entries[k] \in Entry /\ k \in Nat
    BY <2>2, <2>3 DEF LogOK
  <2> QED
    BY <2>3, <2>4 DEF EntryOf, Entry
<1>2. CASE \E r \in requests : InRequest(r, e)
  <2>1. PICK r \in requests : InRequest(r, e)
    BY <1>2
  <2>2. r.term \in Nat /\ r.prev_log_index + 1 \in Nat
    BY DEF TypeInv, HandlersInv, RequestInv, Request
  <2> QED
    BY <2>1, <2>2 DEF InRequest, EntryOf
<1> QED
  BY <1>1, <1>2, MadeWhere

\* A step that makes no entry, takes back no index, and lets nobody begin to reign.
LEMMA NothingMade ==
  ASSUME TypeInv, TypeInv', EntryInv, Made' \subseteq Made,
         won \subseteq won', disputed \subseteq disputed',
         \A s \in Server : \/ reign'[s] = -1
                         \/ /\ reign'[s] = reign[s]
                            /\ log[s].log_idx <= log'[s].log_idx
  PROVE  EntryInv'
<1>1. \A e, f \in Made' :
        e.term = f.term /\ e.index = f.index /\ e.term \notin disputed' => e.cmd = f.cmd
  BY DEF EntryInv
<1>2. ASSUME NEW s \in Server, NEW e \in Made', reign'[s] = e.term, e.term \notin disputed'
      PROVE  e.index <= log'[s].log_idx
  <2>1. e.term \in Nat /\ e.index \in Nat
    BY MadeTypes
  <2>2. reign'[s] = reign[s] /\ log[s].log_idx <= log'[s].log_idx
    BY <1>2, <2>1
  <2>3. e.index <= log[s].log_idx
    BY <1>2, <2>2 DEF EntryInv
  <2>4. log[s].log_idx \in Int /\ log'[s].log_idx \in Int
    BY DEF TypeInv, TypeOK, LogsOK, LogOK
  <2> QED
    BY <2>1, <2>2, <2>3, <2>4
<1>3. \A s, u \in Server : reign'[s] = reign'[u] /\ reign'[s] # -1 => s = u
  BY DEF EntryInv
<1>4. \A s \in Server : reign'[s] \in won' \cup {-1}
  BY DEF EntryInv
<1>5. \A e \in Made' : e.term \in won' \cup disputed'
  BY DEF EntryInv
<1> QED
  BY <1>1, <1>2, <1>3, <1>4, <1>5 DEF EntryInv

LEMMA MadeNext ==
  ASSUME \A i \in Server : \A e : InLog(i, e)' => e \in Made,
         \A r \in requests' : EntryOf(r.term, r.prev_log_index + 1, r.entry) \in Made
  PROVE  Made' \subseteq Made
<1>1. \A e \in Made' : \/ \E i \in Server : InLog(i, e)'
                       \/ \E r \in requests' : e = EntryOf(r.term, r.prev_log_index + 1, r.entry)
  BY DEF Made, InLog
<1> QED
  BY <1>1

\* A log of which only commit marks change.
LEMMA SameEntries ==
  ASSUME NEW s \in Server, LogsOK, NEW l, log' = [log EXCEPT ![s] = l],
         l.log_idx = log[s].log_idx,
         \A k \in 0..log[s].log_idx : /\ l.entries[k].term = log[s].entries[k].term
                                      /\ l.entries[k].cmd = log[s].entries[k].cmd
  PROVE  /\ \A i \in Server : \A e : InLog(i, e)' => InLog(i, e)
         /\ \A i \in Server : log'[i].log_idx = log[i].log_idx
<1>1. \A i \in Server : log'[i] = IF i = s THEN l ELSE log[i]
  BY DEF LogsOK
<1> QED
  BY <1>1 DEF InLog

\* The request of a call carries an entry of the caller's log.
LEMMA CallMakesNone ==
  ASSUME TypeInv, NEW t \in threads,
         NEW u \in Thread, -1 <= u.prev, Call(t, u), UNCHANGED log
  PROVE  Made' \subseteq Made
<1>1. \A i \in Server : \A e : InLog(i, e)' => e \in Made
  BY MadeWhere DEF InLog
<1>2. ASSUME NEW r \in requests, r \in requests'
      PROVE  EntryOf(r.term, r.prev_log_index + 1, r.entry) \in Made
  BY <1>2, MadeWhere DEF InRequest
<1>3. ASSUME NEW r \in requests', r \notin requests
      PROVE  EntryOf(r.term, r.prev_log_index + 1, r.entry) \in Made
  <2>1. r = create_log_entry_request(u) /\ u.prev + 1 <= log[u.server].log_idx
    BY <1>3 DEF Call, ThreadEnds
  <2>2. u.server \in Server /\ u.prev \in Int
    BY DEF Thread
  <2>3. LogOK(log[u.server])
    BY <2>2 DEF TypeInv, TypeOK, LogsOK
  <2>4. u.prev + 1 \in 0..log[u.server].log_idx
    BY <2>1, <2>2, <2>3 DEF LogOK
  <2>5. InLog(u.server, EntryOf(r.term, r.prev_log_index + 1, r.entry))
    BY <2>1, <2>4 DEF InLog, create_log_entry_request
  <2> QED
    BY <2>2, <2>5, MadeWhere
<1> QED
  BY <1>1, <1>2, <1>3, MadeNext

\* AppendEntries puts the entry of its request into the log, and no other.
LEMMA AppendEntriesMakesNone ==
  ASSUME TypeInv, NEW r \in requests, AppendEntries(r)
  PROVE  /\ Made' \subseteq Made
         /\ \A s \in Server : reign'[s] = -1 \/ (reign'[s] = reign[s] /\ log'[s] = log[s])
<1> DEFINE l == log[r.to]
           index == r.prev_log_index + 1
           new == EntryOf(r.term, index, r.entry)
<1>1. /\ r.to \in Server /\ LogOK(l) /\ index \in Nat /\ EntryTerm(r) \in Nat
      /\ r.entry \in Command /\ r.lastCommitIndex \in Int /\ LogsOK
      /\ reign \in [Server -> Nat \cup {-1}]
  BY DEF TypeInv, TypeOK, LogsOK, HandlersInv, RequestInv, Request, EntryTerm, HistoryOK
<1>2. new \in Made
  BY MadeWhere DEF InRequest
<1>3. requests' \subseteq requests
  BY DEF AppendEntries, RefuseOutdated, StartAnew, InsertEntry, RejectMismatch, Reply
<1>4. \A q \in requests' : EntryOf(q.term, q.prev_log_index + 1, q.entry) \in Made
  BY <1>3, MadeWhere DEF InRequest
<1>5. CASE UNCHANGED <<log, reign>>
  <2>1. \A i \in Server : \A e : InLog(i, e)' => e \in Made
    BY <1>5, MadeWhere DEF InLog
  <2> QED
    BY <1>4, <1>5, <2>1, MadeNext
<1>6. ASSUME NEW m, LogBecomes(r.to, m),
             \A k \in 0..m.log_idx :
               \/ EntryOf(m.entries[k].term, k, m.entries[k].cmd) = new
               \/ /\ k \in 0..l.log_idx
                  /\ m.entries[k].term = l.entries[k].term
                  /\ m.entries[k].cmd = l.entries[k].cmd
      PROVE  /\ Made' \subseteq Made
             /\ \A s \in Server : reign'[s] = -1 \/ (reign'[s] = reign[s] /\ log'[s] = log[s])
  <2>1. \A i \in Server : log'[i] = IF i = r.to THEN m ELSE log[i]
    BY <1>1, <1>6 DEF LogBecomes, LogsOK
  <2>2. \A i \in Server : reign'[i] = IF i = r.to THEN -1 ELSE reign[i]
    BY <1>1, <1>6 DEF LogBecomes
  <2>3. ASSUME NEW i \in Server, NEW e, InLog(i, e)' PROVE e \in Made
    <3>1. CASE i # r.to
      BY <2>1, <2>3, <3>1, MadeWhere DEF InLog
    <3>2. CASE i = r.to
      <4>1. PICK k \in 0..m.log_idx : e = EntryOf(m.entries[k].term, k, m.entries[k].cmd)
        BY <2>1, <2>3, <3>2 DEF InLog
      <4>2. e = new \/ InLog(r.to, e)
        BY <1>6, <4>1 DEF InLog
      <4> QED
        BY <1>1, <1>2, <4>2, MadeWhere
    <3> QED
      BY <3>1, <3>2
  <2> HIDE DEF new, l, index
  <2> QED
    BY <1>4, <2>1, <2>2, <2>3, MadeNext
<1>7. CASE StartAnew(r)
  <2> DEFINE m == append(clear(l), EntryTerm(r), r.entry)
  <2>1. LogOK(clear(l)) /\ clear(l).log_idx = -1
    BY <1>1, ClearOK
  <2>2. m.log_idx = 0 /\ m.entries[0] = Uncommitted(EntryTerm(r), r.entry)
    <3>1. /\ m.log_idx = clear(l).log_idx + 1
          /\ m.entries[m.log_idx] = Uncommitted(EntryTerm(r), r.entry)
      BY <1>1, <2>1, AppendOK, SMTT(60)
    <3> QED
      BY <2>1, <3>1
  <2>3. LogBecomes(r.to, m) /\ index = 0
    BY <1>7 DEF StartAnew
  <2> HIDE DEF m, index
  <2>4. \A k \in 0..m.log_idx : EntryOf(m.entries[k].term, k, m.entries[k].cmd) = new
    BY <2>2, <2>3 DEF Uncommitted, EntryTerm, EntryOf
  <2> QED
    BY <1>6, <2>3, <2>4
<1>8. CASE InsertEntry(r)
  <2> DEFINE i == insert_at(l, index, EntryTerm(r), r.entry)
             c == CommitIndex(r, InsertedAt(l, index))
             m == commit_upto(i, c)
  <2> HIDE DEF l, index
  <2>1. /\ LogOK(i) /\ InsertedAt(l, index) \in {-1, index}
        /\ InsertedAt(l, index) = -1 => i = l
        /\ InsertedAt(l, index) = index =>
             /\ i.entries[index] = Uncommitted(EntryTerm(r), r.entry)
             /\ i.log_idx = IF index = l.log_idx + 1 THEN index ELSE l.log_idx
        /\ \A k \in 0..l.log_idx : k # index => i.entries[k] = l.entries[k]
    <3>1. LogOK(i)
      BY <1>1, InsertAtOK DEF i
    <3>2. InsertedAt(l, index) \in {-1, index}
      BY <1>1, InsertAtOK
    <3>3. InsertedAt(l, index) = -1 => i = l
      BY <1>1, InsertAtOK
    <3>4. InsertedAt(l, index) = index =>
            /\ i.entries[index] = Uncommitted(EntryTerm(r), r.entry)
            /\ i.log_idx = IF index = l.log_idx + 1 THEN index ELSE l.log_idx
      BY <1>1, InsertAtOK, ZenonT(60)
    <3>5. \A k \in 0..l.log_idx : k # index => i.entries[k] = l.entries[k]
      BY <1>1, InsertAtOK, ZenonT(60)
    <3> HIDE DEF i
    <3> QED
      BY <3>1, <3>2, <3>3, <3>4, <3>5
  <2>2. c \in Int
    BY <1>1, <2>1 DEF CommitIndex
  <2> HIDE DEF i, c
  <2>3. /\ m.log_idx = i.log_idx
        /\ \A k \in 0..i.log_idx : /\ m.entries[k].term = i.entries[k].term
                                   /\ m.entries[k].cmd = i.entries[k].cmd
    BY <2>1, <2>2, CommitUptoOK
  <2>4. LogBecomes(r.to, m)
    BY <1>8 DEF InsertEntry, i, c, l, index
  <2> HIDE DEF m
  <2>5. ASSUME NEW k \in 0..m.log_idx
        PROVE  \/ EntryOf(m.entries[k].term, k, m.entries[k].cmd) = new
               \/ /\ k \in 0..l.log_idx
                  /\ m.entries[k].term = l.entries[k].term
                  /\ m.entries[k].cmd = l.entries[k].cmd
    <3>1. CASE InsertedAt(l, index) = -1
      BY <2>1, <2>3, <3>1
    <3>2. CASE InsertedAt(l, index) = index /\ k = index
      BY <2>1, <2>3, <3>2 DEF Uncommitted, EntryTerm, EntryOf, index
    <3>3. CASE InsertedAt(l, index) = index /\ k # index
      <4>1. k \in 0..l.log_idx
        <5>1. l.log_idx \in Int /\ m.log_idx = IF index = l.log_idx + 1 THEN index ELSE l.log_idx
          BY <1>1, <2>1, <2>3, <3>3 DEF LogOK
        <5> HIDE DEF l, index
        <5> QED
          BY <1>1, <3>3, <5>1
      <4> QED
        BY <2>1, <2>3, <3>3, <4>1
    <3> QED
      BY <2>1, <3>1, <3>2, <3>3
  <2> QED
    BY <1>6, <2>4, <2>5
<1> QED
  BY <1>5, <1>7, <1>8 DEF AppendEntries, RefuseOutdated, RejectMismatch

\* A put makes one entry: after all others of its term, or the term is disputed.
LEMMA PutEntries ==
  ASSUME TypeInv, TypeInv', EntryInv, NEW s \in Server, NEW cmd \in todo, HandlePut(s, cmd)
  PROVE  EntryInv'
<1> DEFINE n   == log[s].log_idx + 1
           new == EntryOf(term[s], n, cmd)
<1>1. /\ LogOK(log[s]) /\ LogsOK /\ term[s] \in Nat /\ cmd \in Command
      /\ reign \in [Server -> Nat \cup {-1}] /\ won \subseteq Nat /\ disputed \subseteq Nat
      /\ log[s].log_idx \in Int
  BY DEF TypeInv, TypeOK, LogsOK, ServersOK, HandlersOK, HistoryOK, LogOK
<1>2. /\ UNCHANGED <<requests, won, reign>>
      /\ log' = [log EXCEPT ![s] = append(@, term[s], cmd)]
      /\ disputed' = IF reign[s] = term[s] THEN disputed ELSE disputed \cup {term[s]}
  BY DEF HandlePut
<1>3. \A i \in Server : log'[i] = IF i = s THEN append(log[s], term[s], cmd) ELSE log[i]
  BY <1>1, <1>2 DEF LogsOK
<1>4. /\ log'[s].log_idx = n
      /\ log'[s].entries[n] = Uncommitted(term[s], cmd)
      /\ \A k \in 0..log[s].log_idx : log'[s].entries[k] = log[s].entries[k]
  <2> DEFINE m == append(log[s], term[s], cmd)
  <2>1. /\ m.log_idx = n
        /\ m.entries[m.log_idx] = Uncommitted(term[s], cmd)
        /\ \A k \in 0..log[s].log_idx : m.entries[k] = log[s].entries[k]
    BY <1>1, AppendOK, ZenonT(60)
  <2>2. log'[s] = m
    BY <1>3
  <2> HIDE DEF m
  <2> QED
    BY <2>1, <2>2
<1>5. \A e \in Made' : e \in Made \/ e = new
  <2>1. ASSUME NEW i \in Server, NEW e, InLog(i, e)' PROVE e \in Made \/ e = new
    <3>1. CASE i # s
      BY <1>3, <2>1, <3>1, MadeWhere DEF InLog
    <3>2. CASE i = s
      <4>1. PICK k \in 0..n : e = EntryOf(log'[s].entries[k].term, k, log'[s].entries[k].cmd)
        BY <1>4, <2>1, <3>2 DEF InLog
      <4>2. CASE k = n
        BY <1>4, <4>1, <4>2 DEF Uncommitted, EntryOf
      <4>3. CASE k # n
        <5>1. k \in 0..log[s].log_idx
          BY <1>1, <4>3
        <5>2. InLog(s, e)
          BY <1>4, <4>1, <5>1 DEF InLog
        <5> QED
          BY <5>2, MadeWhere
      <4> QED
        BY <4>2, <4>3
    <3> QED
      BY <3>1, <3>2
  <2>2. \A e \in Made' : \/ \E i \in Server : InLog(i, e)'
                         \/ \E r \in requests' : InRequest(r, e)
    BY DEF Made, InLog, InRequest
  <2> QED
    BY <1>2, <2>1, <2>2, MadeWhere
<1>6. /\ new.term = term[s] /\ new.index = n /\ new.cmd = cmd
      /\ \A e \in Made : e.term \in Nat /\ e.index \in Nat
  BY MadeTypes DEF EntryOf
<1> HIDE DEF new
<1>7. ASSUME NEW e \in Made, e.term = term[s], e.term \notin disputed'
      PROVE  e.index < n
  <2>1. reign[s] = e.term /\ e.term \notin disputed
    BY <1>2, <1>7
  <2>2. e.index <= log[s].log_idx
    BY <2>1 DEF EntryInv
  <2> QED
    BY <1>1, <1>6, <2>2
<1>8. ASSUME NEW e \in Made', NEW f \in Made', e.term = f.term, e.index = f.index,
             e.term \notin disputed'
      PROVE  e.cmd = f.cmd
  <2>1. CASE e \in Made /\ f \in Made
    BY <1>2, <1>8, <2>1 DEF EntryInv
  <2>2. CASE e \in Made /\ f = new
    BY <1>1, <1>6, <1>7, <1>8, <2>2
  <2>3. CASE e = new /\ f \in Made
    BY <1>1, <1>6, <1>7, <1>8, <2>3
  <2>4. CASE e = new /\ f = new
    BY <2>4
  <2> QED
    BY <1>5, <2>1, <2>2, <2>3, <2>4
<1>9. ASSUME NEW u \in Server, NEW e \in Made', reign'[u] = e.term, e.term \notin disputed'
      PROVE  e.index <= log'[u].log_idx
  <2>1. CASE e \in Made
    <3>1. e.index <= log[u].log_idx
      BY <1>2, <1>9, <2>1 DEF EntryInv
    <3>2. log[u].log_idx \in Int
      BY <1>1 DEF LogsOK, LogOK
    <3>3. log'[u].log_idx \in Int /\ log[u].log_idx <= log'[u].log_idx
      BY <1>1, <1>3, <1>4, <3>2
    <3> QED
      BY <1>6, <2>1, <3>1, <3>2, <3>3
  <2>2. CASE e = new
    <3>1. reign[s] = term[s] /\ reign[u] = term[s] /\ reign[s] # -1
      BY <1>1, <1>2, <1>6, <1>9, <2>2
    <3>2. u = s
      BY <3>1 DEF EntryInv
    <3> QED
      BY <1>1, <1>4, <1>6, <2>2, <3>2
  <2> QED
    BY <1>5, <2>1, <2>2
<1>10. \A e \in Made' : e.term \in won' \cup disputed'
  <2>1. \A e \in Made : e.term \in won \cup disputed
    BY DEF EntryInv
  <2>2. term[s] \in won \cup disputed'
    BY <1>1, <1>2 DEF EntryInv
  <2> QED
    BY <1>2, <1>5, <1>6, <2>1, <2>2
<1>11. /\ \A a, b \in Server : reign'[a] = reign'[b] /\ reign'[a] # -1 => a = b
       /\ \A a \in Server : reign'[a] \in won' \cup {-1}
  BY <1>2 DEF EntryInv
<1> QED
  BY <1>8, <1>9, <1>10, <1>11 DEF EntryInv

\* Whoever is the first to win a term finds no entry of that term.
LEMMA WinEntries ==
  ASSUME TypeInv, EntryInv, NEW i \in Server,
         Made' = Made, UNCHANGED disputed,
         \A s \in Server : log'[s].log_idx = log[s].log_idx,
         won' = won \cup {term[i]},
         reign' = [reign EXCEPT ![i] = IF term[i] \in won THEN -1 ELSE term[i]]
  PROVE  EntryInv'
<1>1. /\ reign \in [Server -> Nat \cup {-1}] /\ term[i] \in Nat /\ won \subseteq Nat
      /\ \A e \in Made : e.term \in Nat
  BY MadeTypes DEF TypeInv, TypeOK, HistoryOK, ServersOK
<1>2. \A s \in Server :
        reign'[s] = IF s = i THEN (IF term[i] \in won THEN -1 ELSE term[i]) ELSE reign[s]
  BY <1>1
<1>3. ASSUME NEW s \in Server, NEW e \in Made', reign'[s] = e.term, e.term \notin disputed'
      PROVE  e.index <= log'[s].log_idx
  <2>1. e.term \in won
    BY <1>3 DEF EntryInv
  <2>2. reign[s] = e.term
    BY <1>1, <1>2, <1>3, <2>1
  <2> QED
    BY <1>3, <2>2 DEF EntryInv
<1>4. \A s, u \in Server : reign'[s] = reign'[u] /\ reign'[s] # -1 => s = u
  BY <1>1, <1>2 DEF EntryInv
<1>5. \A s \in Server : reign'[s] \in won' \cup {-1}
  BY <1>1, <1>2 DEF EntryInv
<1>6. /\ \A e, f \in Made' :
           e.term = f.term /\ e.index = f.index /\ e.term \notin disputed' => e.cmd = f.cmd
      /\ \A e \in Made' : e.term \in won' \cup disputed'
  BY DEF EntryInv
<1> QED
  BY <1>3, <1>4, <1>5, <1>6 DEF EntryInv

LEMMA StepEntries == TypeInv /\ TypeInv' /\ EntryInv /\ [Next]_vars => EntryInv'
<1> SUFFICES ASSUME TypeInv, TypeInv', EntryInv, [Next]_vars PROVE EntryInv'
  OBVIOUS
<1>1. /\ \A s \in Server : log[s].log_idx \in Int /\ log[s].log_idx <= log[s].log_idx
      /\ LogsOK
  BY DEF TypeInv, TypeOK, LogsOK, LogOK
<1>2. ASSUME UNCHANGED <<log, historyVars>>, Made' \subseteq Made PROVE EntryInv'
  BY <1>1, <1>2, NothingMade DEF historyVars
<1>3. ASSUME UNCHANGED log, requests' \subseteq requests PROVE Made' \subseteq Made
  <2>1. \A i \in Server : \A e : InLog(i, e)' => e \in Made
    BY <1>3, MadeWhere DEF InLog
  <2>2. \A r \in requests' : EntryOf(r.term, r.prev_log_index + 1, r.entry) \in Made
    BY <1>3, MadeWhere DEF InRequest
  <2> QED
    BY <2>1, <2>2, MadeNext
<1>4. ASSUME NEW s \in Server, NEW l, log' = [log EXCEPT ![s] = l],
             UNCHANGED <<requests, historyVars>>,
             l.log_idx = log[s].log_idx,
             \A k \in 0..log[s].log_idx : /\ l.entries[k].term = log[s].entries[k].term
                                          /\ l.entries[k].cmd = log[s].entries[k].cmd
      PROVE  EntryInv'
  <2>1. /\ \A i \in Server : \A e : InLog(i, e)' => InLog(i, e)
        /\ \A i \in Server : log'[i].log_idx = log[i].log_idx
    BY <1>1, <1>4, SameEntries
  <2>2. Made' \subseteq Made
    <3>1. \A r \in requests' : EntryOf(r.term, r.prev_log_index + 1, r.entry) \in Made
      BY <1>4, MadeWhere DEF InRequest
    <3> QED
      BY <2>1, <3>1, MadeNext, MadeWhere
  <2> QED
    BY <1>1, <1>4, <2>1, <2>2, NothingMade DEF historyVars
<1>5. CASE UNCHANGED vars
  BY <1>2, <1>3, <1>5 DEF vars
<1>6. ASSUME NEW s \in Server, NEW cmd \in todo, HandlePut(s, cmd) PROVE EntryInv'
  BY <1>6, PutEntries
<1>7. ASSUME NEW s \in Server, NEW cmd \in todo, RepeatPut(s, cmd) PROVE EntryInv'
  BY <1>2, <1>3, <1>7 DEF RepeatPut
<1>8. ASSUME NEW p \in puts, Commit(p) PROVE EntryInv'
  <2>1. /\ UNCHANGED <<requests, historyVars>>
        /\ p.server \in Server /\ p.idx \in Nat /\ LogOK(log[p.server])
    BY <1>1, <1>8 DEF Commit, Broadcast, TypeInv, HandlersInv, PutInv, Put, Pending, LogsOK
  <2>2. CASE p.idx <= log[p.server].log_idx
    <3> DEFINE l == commit(log[p.server], p.idx)
    <3>1. p.idx \in 0..log[p.server].log_idx
      BY <1>1, <2>1, <2>2
    <3>2. /\ l.log_idx = log[p.server].log_idx
          /\ \A k \in 0..log[p.server].log_idx :
               /\ l.entries[k].term = log[p.server].entries[k].term
               /\ l.entries[k].cmd = log[p.server].entries[k].cmd
      BY <2>1, <3>1, CommitOK
    <3>3. log' = [log EXCEPT ![p.server] = l]
      BY <1>8, <2>2 DEF Commit
    <3> HIDE DEF l
    <3> QED
      BY <1>4, <2>1, <3>2, <3>3
  <2>3. CASE ~(p.idx <= log[p.server].log_idx)
    BY <1>2, <1>3, <1>8, <2>3 DEF Commit
  <2> QED
    BY <2>2, <2>3
<1>9. ASSUME NEW p \in puts,
             FindNoFlag(p) \/ AnswerOk(p) \/ AnswerRedirect(p) \/ ConnectionBreaks(p)
      PROVE  EntryInv'
  BY <1>2, <1>3, <1>9 DEF FindNoFlag, AnswerOk, AnswerRedirect, ConnectionBreaks
<1>10. ASSUME NEW s \in Server, Apply(s) PROVE EntryInv'
  <2>1. /\ apply(log[s]).log_idx = log[s].log_idx
        /\ apply(log[s]).entries = log[s].entries
    BY <1>1, ApplyOK DEF LogsOK
  <2>2. /\ log' = [log EXCEPT ![s] = apply(log[s])]
        /\ UNCHANGED <<requests, historyVars>>
    BY <1>10 DEF Apply
  <2> QED
    BY <1>4, <2>1, <2>2
<1>11. ASSUME NEW t \in threads, FirstCall(t) \/ StepBack(t) \/ StepForward(t),
              UNCHANGED historyVars
       PROVE  EntryInv'
  <2>1. UNCHANGED log
    BY <1>11 DEF FirstCall, StepBack, StepForward
  <2>2. ThreadInv(t)
    BY DEF TypeInv, HandlersInv
  <2>3. \E u \in Thread : -1 <= u.prev /\ Call(t, u)
    <3>1. CASE FirstCall(t)
      BY <2>2, <3>1 DEF FirstCall, ThreadInv
    <3>2. CASE StepBack(t)
      <4> DEFINE u == [t EXCEPT !.prev = @ - 1]
      <4>1. Call(t, u) /\ t.pc = "REJECT"
        BY <3>2 DEF StepBack
      <4>2. u \in Thread /\ -1 <= u.prev
        BY <2>2, <4>1 DEF ThreadInv, Thread
      <4> HIDE DEF u
      <4> QED
        BY <4>1, <4>2
    <3>3. CASE StepForward(t)
      <4> DEFINE u == [t EXCEPT !.prev = @ + 1, !.forward = TRUE]
      <4>1. Call(t, u)
        BY <3>3 DEF StepForward
      <4>2. t.prev + 1 \in Int /\ -1 <= t.prev + 1
        BY <2>2 DEF ThreadInv, Thread
      <4>3. u \in Thread /\ u.prev = t.prev + 1
        BY <2>2, <4>2 DEF ThreadInv, Thread
      <4> HIDE DEF u
      <4> QED
        BY <4>1, <4>2, <4>3
    <3> QED
      BY <1>11, <3>1, <3>2, <3>3
  <2>4. Made' \subseteq Made
    BY <2>1, <2>3, CallMakesNone
  <2> QED
    BY <1>2, <1>11, <2>1, <2>4
<1>12. ASSUME NEW t \in threads,
              Acknowledged(t) \/ LearnLaterTerm(t) \/ NotAcknowledged(t) \/ CallFails(t),
              UNCHANGED historyVars
       PROVE  EntryInv'
  <2>1. UNCHANGED log /\ requests' \subseteq requests
    BY <1>12 DEF Acknowledged, LearnLaterTerm, NotAcknowledged, CallFails, ThreadEnds
  <2> QED
    BY <1>2, <1>3, <1>12, <2>1
<1>13. ASSUME NEW r \in requests, AppendEntries(r) PROVE EntryInv'
  <2>1. UNCHANGED <<won, disputed>>
    BY <1>13 DEF AppendEntries, RefuseOutdated, StartAnew, InsertEntry, RejectMismatch, Reply
  <2>2. /\ Made' \subseteq Made
        /\ \A s \in Server : reign'[s] = -1 \/ (reign'[s] = reign[s] /\ log'[s] = log[s])
    BY <1>13, AppendEntriesMakesNone
  <2> QED
    BY <1>1, <2>1, <2>2, NothingMade
<1>14. ASSUME NEW i \in Server, NEW j \in Server,
              Campaign(i) \/ Vote(j, i) \/ RefuseVote(j, i) \/ Heartbeat(i, j)
       PROVE  EntryInv'
  <2>1. UNCHANGED <<log, requests>>
    BY <1>14 DEF Campaign, Vote, RefuseVote, Heartbeat, RevertToFollower
  <2>2. Made' = Made
    BY <2>1 DEF Made
  <2>3. CASE UNCHANGED historyVars
    BY <1>2, <2>1, <2>2, <2>3
  <2>4. CASE ~UNCHANGED historyVars
    <3>1. /\ won' = won \cup {term[i]}
          /\ reign' = [reign EXCEPT ![i] = IF term[i] \in won THEN -1 ELSE term[i]]
          /\ UNCHANGED disputed
      BY <1>14, <2>4 DEF Campaign, Vote, RefuseVote, Heartbeat, RevertToFollower, historyVars
    <3> QED
      BY <2>1, <2>2, <3>1, WinEntries
  <2> QED
    BY <2>3, <2>4
<1> QED
  BY <1>5, <1>6, <1>7, <1>8, <1>9, <1>10, <1>11, <1>12, <1>13, <1>14
     DEF Next, HandlerGoesOn, broadcastEntry

LEMMA InitEntries == Init => EntryInv
<1> SUFFICES ASSUME Init PROVE EntryInv
  OBVIOUS
<1>1. PICK s \in Setups :
        /\ log = s.log /\ requests = {} /\ won = 0..s.term
        /\ reign = [i \in Server |-> IF i = s.leader THEN s.term ELSE -1]
  BY DEF Init
<1>2. Plausible(s)
  BY SetupAssumption
<1>3. ASSUME NEW e \in Made
      PROVE  \E i \in Server : \E k \in 0..log[i].log_idx :
               /\ e.term = log[i].entries[k].term /\ e.index = k
               /\ e.cmd = log[i].entries[k].cmd
  BY <1>1, MadeWhere DEF InLog, EntryOf
<1>4. \A e, f \in Made : e.term = f.term /\ e.index = f.index => e.cmd = f.cmd
  BY <1>1, <1>2, <1>3, SMTT(60) DEF Plausible
<1>5. \A e \in Made : e.term \in 0..s.term /\ (e.term = s.term => e.index <= log[s.leader].log_idx)
  <2>1. ASSUME NEW i \in Server, NEW k \in 0..log[i].log_idx
        PROVE  /\ log[i].entries[k].term \in Nat
               /\ log[i].entries[k].term <= s.term
               /\ log[i].entries[k].term = s.term => k <= log[s.leader].log_idx
    <3>1. log[i].entries[k] \in Entry
      BY <1>1, <1>2 DEF Plausible, LogOK
    <3> QED
      BY <1>1, <1>2, <3>1 DEF Plausible, Entry
  <2> QED
    BY <1>2, <1>3, <2>1 DEF Plausible
<1>6. s.term \in Nat /\ s.leader \in Server
  BY <1>2 DEF Plausible
<1> QED
  BY <1>1, <1>4, <1>5, <1>6 DEF EntryInv

\* In a term in which only its first winner took puts, before another server
\* changed its log, all logs of the cluster have the same command at an index.
THEOREM EntriesAreUnique == Spec => []OneEntryPerTermAndIndex
<1>1. Init => TypeInv /\ EntryInv
  BY InitTypes, InitEntries
<1>2. TypeInv /\ EntryInv /\ [Next]_vars => (TypeInv /\ EntryInv)'
  BY StepTypes, StepEntries
<1>3. TypeInv /\ EntryInv => OneEntryPerTermAndIndex
  <2> SUFFICES ASSUME TypeInv, EntryInv, NEW i \in Server, NEW j \in Server,
                      NEW k \in DOMAIN log[i].entries \cap DOMAIN log[j].entries,
                      log[i].entries[k].term = log[j].entries[k].term,
                      log[i].entries[k].term \notin disputed
               PROVE  log[i].entries[k].cmd = log[j].entries[k].cmd
    BY DEF OneEntryPerTermAndIndex
  <2> DEFINE e == EntryOf(log[i].entries[k].term, k, log[i].entries[k].cmd)
             f == EntryOf(log[j].entries[k].term, k, log[j].entries[k].cmd)
  <2>1. k \in 0..log[i].log_idx /\ k \in 0..log[j].log_idx
    BY DEF TypeInv, TypeOK, LogsOK, LogOK, WellFormed
  <2>2. e \in Made /\ f \in Made
    BY <2>1, MadeWhere DEF InLog
  <2>3. e.term = f.term /\ e.index = f.index /\ e.term \notin disputed
    BY DEF EntryOf
  <2>4. e.cmd = f.cmd
    <3> HIDE DEF e, f
    <3> QED
      BY <2>2, <2>3 DEF EntryInv
  <2> QED
    BY <2>4 DEF EntryOf
<1> QED
  BY <1>1, <1>2, <1>3, PTL DEF Spec
=============================================================================
