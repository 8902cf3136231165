------------------------------ MODULE NodeProofs ------------------------------
(***************************************************************************)
(* Proofs about the handlers of one server.  A step of a handler is guarded *)
(* by what the thread has read before, so each invariant says of a thread   *)
(* at a given point what is still true of the Log object: of the log, if no *)
(* other handler or crash has cleared it since; of the election state, if   *)
(* no other handler has changed it since.                                   *)
(***************************************************************************)
EXTENDS Node, LogStoreProofs

-----------------------------------------------------------------------------
(* Types.                                                                  *)

\* Where the handler of a call may be.
Points == [
  vote      |-> {"vote", "last term", "decide", "step down", "compare logs",
                 "forget leader", "over"},
  heartbeat |-> {"heartbeat"},
  timeout   |-> {"run", "reset votes", "count", "test", "test status", "lead",
                 "ask for votes", "over"},
  reply     |-> {"count", "test", "test status", "lead", "learn term", "over"},
  append    |-> {"append", "clear", "first entry", "compare length", "compare term",
                 "insert", "commit", "over"},
  redirect  |-> {"redirected", "over"}]

PointOK(c, pc) ==
  /\ pc \in Points[c.kind]
  /\ pc \in {"clear", "first entry"} => c.prev = -1
  /\ pc \in {"compare length", "compare term", "insert", "commit"} => c.prev \in Nat
  /\ pc = "learn term" => c.term \in Nat

ThreadOK(t) ==
  /\ DOMAIN t = {"call", "pc", "term", "idx", "last_term", "dirty", "wiped"}
  /\ CallOK(t.call) /\ PointOK(t.call, t.pc)
  /\ t.term \in Nat /\ t.idx \in Nat \cup {-1} /\ t.last_term \in Nat
  /\ t.dirty \subseteq ConfigKey /\ t.wiped \in BOOLEAN

AnswerOK(a) ==
  DOMAIN a = {"call", "code", "wiped"} /\ a.call.kind = "append" /\ a.wiped \in BOOLEAN

\* All calls are those that the server started with.
FromSetup(s) ==
  /\ calls \subseteq s.calls
  /\ \A t \in threads : t.call \in s.calls
  /\ \A a \in answers : AnswerOK(a) /\ a.call \in s.calls

HandlersInv ==
  /\ \E s \in Setups : FromSetup(s)
  /\ \A t \in threads : ThreadOK(t)
  /\ num_votes \in Nat /\ asked \subseteq Nat /\ raced \in BOOLEAN /\ forgot \in BOOLEAN

\* Every vote that is somewhere in memory or in a file was cast once.
VotesInv ==
  /\ moved \subseteq [from : Nat, to : Nat]
  /\ \A v \in granted : v.term \in Nat
  /\ {mem.voted_for, disk.config.voted_for} \subseteq granted
  /\ "voted_for" \in DOMAIN shelf => shelf.voted_for \in granted

TypeInv == StoreInv /\ HandlersInv /\ VotesInv

-----------------------------------------------------------------------------
(* What the election threads know, as long as none has changed what another *)
(* one has read.                                                            *)

Knows(t) ==
  /\ t.pc \in {"vote", "last term", "decide", "heartbeat", "step down"} => t.term = mem.term
  /\ t.pc \in {"step down", "learn term"} => t.call.term > mem.term
  /\ t.pc = "compare logs" => t.call.term = mem.term
  /\ t.pc = "lead" => mem.status = "CANDIDATE"

NoRaceInv == raced \/ \A t \in threads : Knows(t)

\* In addition, if no crash has taken the server back.  Its last vote is its latest
\* and of no later term than its own, but for the terms over which a REDIRECT has
\* taken it back; it stands or leads in a term of its own vote, or of a REDIRECT.
VoteIsFree(c) == NotVoted(c) \/ (mem.status = "FOLLOWER" /\ TakenBack(c.term))

VotesKnown ==
  /\ \A v, w \in granted :
       v.term = w.term => v.server_id = w.server_id \/ TakenBack(v.term)
  /\ \A v \in granted : v.term <= mem.voted_for.term \/ TakenBack(v.term)
  /\ \A n \in Nat : n <= mem.voted_for.term => n <= mem.term \/ TakenBack(n)

StandsRightly ==
  mem.status # "FOLLOWER" =>
    \/ mem.voted_for = [term |-> mem.term, server_id |-> Self]
    \/ \E m \in moved : m.to = mem.term

SerialState ==
  /\ VotesKnown /\ StandsRightly
  /\ \A t \in threads : t.pc = "compare logs" => VoteIsFree(t.call)

SerialInv == Serial => SerialState

-----------------------------------------------------------------------------
(* What the append threads know, as long as nobody else has cleared the log. *)

\* The entry is in the log, or that of another term.
IsStored(c) ==
  /\ c.prev + 1 \in DOMAIN mem.entries
  /\ c.prev + 1 <= mem.log_idx
  /\ Held(c).term = c.entry_term => Held(c).cmd = c.cmd

Found(t) ==
  /\ t.pc = "first entry" =>
       mem.log_idx = -1 /\ \A u \in threads : u.pc = "first entry" => u = t
  /\ t.pc \in {"compare term", "insert"} => t.call.prev <= mem.log_idx
  /\ t.pc = "commit" => IsStored(t.call)

StoredInv ==
  /\ \A t \in threads : ~t.wiped => Found(t)
  /\ \A c \in Acknowledged : IsStored(c)

-----------------------------------------------------------------------------
(* Initial states.                                                         *)

LEMMA InitialSetup ==
  ASSUME NodeInit
  PROVE  \E s \in Setups :
           /\ Plausible(s) /\ mem = s.mem /\ calls = s.calls
           /\ disk = [entries |-> [i \in 0..s.mem.last_applied_idx |-> s.mem.entries[i]],
                      db |-> s.mem.db, config |-> [k \in ConfigKey |-> s.mem[k]]]
           /\ config_change = NoKeys /\ shelf = NoKeys
           /\ busy = "free" /\ flusher = "idle" /\ restarts = 0 /\ torn = FALSE
<1>1. PICK r \in Setups :
        /\ mem = r.mem
        /\ disk = [entries |-> [i \in 0..r.mem.last_applied_idx |-> r.mem.entries[i]],
                   db |-> r.mem.db, config |-> [k \in ConfigKey |-> r.mem[k]]]
        /\ config_change = NoKeys /\ shelf = NoKeys
        /\ busy = "free" /\ flusher = "idle" /\ restarts = 0 /\ torn = FALSE
  BY DEF NodeInit, Init
<1>2. PICK s \in Setups : s.mem = mem /\ calls = s.calls
  BY DEF NodeInit
<1> QED
  BY <1>1, <1>2, SetupAssumption

LEMMA InitTypes == NodeInit => TypeInv
<1> SUFFICES ASSUME NodeInit PROVE TypeInv
  OBVIOUS
<1>1. PICK s \in Setups :
        /\ Plausible(s) /\ mem = s.mem /\ calls = s.calls
        /\ disk = [entries |-> [i \in 0..s.mem.last_applied_idx |-> s.mem.entries[i]],
                   db |-> s.mem.db, config |-> [k \in ConfigKey |-> s.mem[k]]]
        /\ config_change = NoKeys /\ shelf = NoKeys
        /\ busy = "free" /\ flusher = "idle" /\ restarts = 0 /\ torn = FALSE
  BY InitialSetup
<1>2. /\ DOMAIN mem = MemKey /\ \A k \in Indexes : mem[k] \in Nat \cup {-1}
      /\ DOMAIN mem.entries = 0..mem.log_idx /\ mem.entries \in [0..mem.log_idx -> Entry]
      /\ mem.last_applied_idx <= mem.last_commit_idx /\ mem.last_commit_idx <= mem.log_idx
      /\ DbOK(mem.db)
      /\ mem.term \in Nat /\ mem.status \in {"CANDIDATE", "FOLLOWER", "LEADER"}
      /\ mem.voted_for.term \in 0..mem.term
  BY <1>1 DEF Plausible, MemKey, WellFormed, DbOK
<1>3. /\ mem.log_idx \in Nat \cup {-1} /\ mem.last_commit_idx \in Nat \cup {-1}
      /\ mem.last_applied_idx \in Nat \cup {-1}
  BY <1>2 DEF Indexes
<1>4. EntriesOK(mem.entries)
  BY <1>2, <1>3 DEF EntriesOK
<1>5. MemOK(mem)
  BY <1>2, <1>3, <1>4, MemTypes
<1>6. DiskOK(disk)
  <2>1. /\ DOMAIN disk = {"entries", "config", "db"}
        /\ disk.entries = [i \in 0..mem.last_applied_idx |-> mem.entries[i]]
        /\ disk.db = mem.db /\ disk.config = [k \in ConfigKey |-> mem[k]]
    BY <1>1
  <2>2. EntriesOK(disk.entries)
    BY <1>2, <1>3, <2>1 DEF EntriesOK
  <2>3. ConfigOK(disk.config)
    BY <1>5, <2>1 DEF MemOK, ConfigOK
  <2> QED
    BY <1>2, <2>1, <2>2, <2>3 DEF DiskOK
<1>7. StoreInv
  <2>1. ShelfOK(shelf) /\ LockOK /\ DOMAIN config_change \subseteq ConfigKey
    BY <1>1 DEF ShelfOK, NoKeys, LockOK
  <2>2. restarts \in 0..MaxRestarts /\ flusher \in {"idle", "closing", "dead"}
    BY <1>1, RestartAssumption
  <2>3. torn \in BOOLEAN
    BY <1>1
  <2> QED
    BY <1>5, <1>6, <2>1, <2>2, <2>3 DEF StoreInv
<1>8. HandlersInv
  <2>1. FromSetup(s)
    BY <1>1 DEF FromSetup, NodeInit
  <2> QED
    BY <2>1 DEF HandlersInv, NodeInit
<1>9. VotesInv
  <2>1. granted = {mem.voted_for} /\ mem.voted_for.term \in Nat /\ moved = {}
    BY <1>2 DEF NodeInit
  <2>2. disk.config.voted_for = mem.voted_for
    BY <1>1, Keys
  <2> QED
    BY <1>1, <2>1, <2>2 DEF VotesInv, NoKeys
<1> QED
  BY <1>7, <1>8, <1>9 DEF TypeInv

LEMMA InitKnowledge == NodeInit => NoRaceInv /\ SerialInv /\ StoredInv
<1> SUFFICES ASSUME NodeInit PROVE NoRaceInv /\ SerialInv /\ StoredInv
  OBVIOUS
<1>1. PICK s \in Setups : Plausible(s) /\ mem = s.mem
  BY InitialSetup
<1>2. /\ mem.voted_for.term \in 0..mem.term /\ mem.term \in Nat
      /\ mem.status # "FOLLOWER" =>
           mem.voted_for = [term |-> mem.term, server_id |-> Self]
  BY <1>1 DEF Plausible
<1>3. NoRaceInv /\ StoredInv
  BY DEF NodeInit, NoRaceInv, StoredInv, Acknowledged
<1>4. SerialInv
  <2>1. granted = {mem.voted_for} /\ threads = {}
    BY DEF NodeInit
  <2>2. VotesKnown /\ StandsRightly
    BY <1>2, <2>1 DEF VotesKnown, StandsRightly
  <2> QED
    BY <2>1, <2>2 DEF SerialInv, SerialState
<1> QED
  BY <1>3, <1>4

-----------------------------------------------------------------------------
(* How threads move.                                                       *)

\* t ends, or goes on with its call.
MovesOn(t) ==
  \/ Ends(t)
  \/ \E u : ThreadOK(u) /\ u.call = t.call /\ GoesOn(t, u)

LEMMA PointsOfKind ==
  ASSUME NEW c, CallOK(c), NEW pc \in Points[c.kind]
  PROVE  /\ pc = "learn term" => c.kind = "reply"
         /\ pc = "redirected" => c.kind = "redirect"
         /\ pc \in {"vote", "last term", "decide", "step down", "compare logs",
                    "forget leader"} <=> c.kind = "vote" /\ pc # "over"
         /\ pc = "heartbeat" <=> c.kind = "heartbeat"
         /\ pc \in {"append", "clear", "first entry", "compare length", "compare term",
                    "insert", "commit"} <=> c.kind = "append" /\ pc # "over"
         /\ pc \in {"run", "reset votes", "ask for votes"} => c.kind = "timeout"
         /\ pc \in {"count", "test", "test status", "lead"} =>
              c.kind \in {"timeout", "reply"}
<1>1. /\ Points["vote"] = {"vote", "last term", "decide", "step down", "compare logs",
                          "forget leader", "over"}
      /\ Points["heartbeat"] = {"heartbeat"}
      /\ Points["timeout"] = {"run", "reset votes", "count", "test", "test status",
                             "lead", "ask for votes", "over"}
      /\ Points["reply"] = {"count", "test", "test status", "lead", "learn term", "over"}
      /\ Points["append"] = {"append", "clear", "first entry", "compare length",
                            "compare term", "insert", "commit", "over"}
      /\ Points["redirect"] = {"redirected", "over"}
  BY DEF Points
<1>2. c.kind \in {"timeout", "vote", "heartbeat", "append", "reply", "redirect"}
  BY DEF CallOK
<1>3. CASE c.kind = "vote"
  BY <1>1, <1>3
<1>4. CASE c.kind = "heartbeat"
  BY <1>1, <1>4
<1>5. CASE c.kind = "timeout"
  BY <1>1, <1>5
<1>6. CASE c.kind = "reply"
  BY <1>1, <1>6
<1>7. CASE c.kind = "append"
  BY <1>1, <1>7
<1>8. CASE c.kind = "redirect"
  BY <1>1, <1>8
<1> QED
  BY <1>2, <1>3, <1>4, <1>5, <1>6, <1>7, <1>8

LEMMA PointsOfThread ==
  ASSUME NEW t, CallOK(t.call), PointOK(t.call, t.pc)
  PROVE  /\ t.pc = "learn term" => t.call.kind = "reply"
         /\ t.pc = "redirected" => t.call.kind = "redirect"
         /\ t.pc \in {"vote", "last term", "decide", "step down", "compare logs",
                      "forget leader"} <=> t.call.kind = "vote" /\ t.pc # "over"
         /\ t.pc = "heartbeat" <=> t.call.kind = "heartbeat"
         /\ t.pc \in {"append", "clear", "first entry", "compare length", "compare term",
                      "insert", "commit"} <=> t.call.kind = "append" /\ t.pc # "over"
         /\ t.pc \in {"run", "reset votes", "ask for votes"} => t.call.kind = "timeout"
         /\ t.pc \in {"count", "test", "test status", "lead"} =>
              t.call.kind \in {"timeout", "reply"}
<1> DEFINE c == t.call
           pc == t.pc
<1>1. CallOK(c) /\ pc \in Points[c.kind]
  BY DEF PointOK
<1> HIDE DEF c, pc
<1>2. /\ pc = "learn term" => c.kind = "reply"
      /\ pc = "redirected" => c.kind = "redirect"
      /\ pc \in {"vote", "last term", "decide", "step down", "compare logs",
                 "forget leader"} <=> c.kind = "vote" /\ pc # "over"
      /\ pc = "heartbeat" <=> c.kind = "heartbeat"
      /\ pc \in {"append", "clear", "first entry", "compare length", "compare term",
                 "insert", "commit"} <=> c.kind = "append" /\ pc # "over"
      /\ pc \in {"run", "reset votes", "ask for votes"} => c.kind = "timeout"
      /\ pc \in {"count", "test", "test status", "lead"} =>
           c.kind \in {"timeout", "reply"}
  BY <1>1, PointsOfKind
<1> QED
  BY <1>2 DEF c, pc

\* The call that begins.
LEMMA BeginOK ==
  ASSUME TypeInv, NEW c \in calls, NEW pc, pc \in Points[c.kind],
         pc \notin {"clear", "first entry", "compare length", "compare term", "insert",
                    "commit"},
         pc = "learn term" => ~c.success,
         Begins(c, pc), UNCHANGED <<answers, num_votes, asked, raced, forgot>>
  PROVE  HandlersInv'
<1>1. PICK s \in Setups : FromSetup(s)
  BY DEF TypeInv, HandlersInv
<1>2. c \in s.calls /\ CallOK(c)
  BY <1>1, SetupAssumption DEF FromSetup, Plausible
<1>3. mem.term \in Nat
  BY MemTypes DEF TypeInv, StoreInv, MemOK
<1> DEFINE u == Thread(c, pc)
<1>4. /\ DOMAIN u = {"call", "pc", "term", "idx", "last_term", "dirty", "wiped"}
      /\ u.call = c /\ u.pc = pc /\ u.term = mem.term /\ u.idx = -1
      /\ u.dirty = {}
  BY DEF Thread
<1>8. u.wiped \in BOOLEAN /\ u.last_term \in Nat
  BY DEF Thread
<1>5. threads' = threads \cup {u} /\ calls' = calls \ {c}
  BY DEF Begins
<1> HIDE DEF u
<1>6. ThreadOK(u)
  <2>1. pc = "learn term" => c.term \in Nat
    <3>1. pc = "learn term" => c.kind = "reply"
      BY <1>2, PointsOfKind
    <3> QED
      BY <1>2, <3>1 DEF CallOK
  <2>2. PointOK(c, pc)
    BY <2>1 DEF PointOK
  <2>3. u.term \in Nat /\ u.idx \in Nat \cup {-1}
    BY <1>3, <1>4
  <2>4. CallOK(u.call) /\ PointOK(u.call, u.pc) /\ u.dirty \subseteq ConfigKey
    BY <1>2, <1>4, <2>2
  <2>5. DOMAIN u = {"call", "pc", "term", "idx", "last_term", "dirty", "wiped"}
    BY <1>4
  <2> QED
    BY <1>8, <2>3, <2>4, <2>5 DEF ThreadOK
<1>7. FromSetup(s)'
  BY <1>1, <1>2, <1>4, <1>5 DEF FromSetup
<1> QED
  BY <1>5, <1>6, <1>7 DEF TypeInv, HandlersInv

\* What a thread step does to the threads and calls keeps their types.
LEMMA MovesOnOK ==
  ASSUME HandlersInv, NEW t \in threads, MovesOn(t), UNCHANGED calls,
         \/ UNCHANGED answers
         \/ t.call.kind = "append" /\ \E code : Answers(t, code),
         num_votes' \in Nat, asked' \subseteq Nat, raced' \in BOOLEAN, UNCHANGED forgot
  PROVE  HandlersInv'
<1>1. PICK s \in Setups : FromSetup(s)
  BY DEF HandlersInv
<1>2. \A u \in threads' : ThreadOK(u) /\ u.call \in s.calls
  BY <1>1 DEF HandlersInv, FromSetup, MovesOn, Ends, GoesOn
<1>3. \A a \in answers' : AnswerOK(a) /\ a.call \in s.calls
  <2>1. CASE UNCHANGED answers
    BY <1>1, <2>1 DEF FromSetup
  <2>2. CASE t.call.kind = "append" /\ \E code : Answers(t, code)
    <3>1. PICK code : answers' = answers \cup {[call |-> t.call, code |-> code,
                                                wiped |-> t.wiped]}
      BY <2>2 DEF Answers
    <3> DEFINE b == [call |-> t.call, code |-> code, wiped |-> t.wiped]
    <3>2. DOMAIN b = {"call", "code", "wiped"} /\ b.call = t.call
      OBVIOUS
    <3>3. b.wiped \in BOOLEAN
      BY DEF HandlersInv, ThreadOK
    <3>4. answers' = answers \cup {b}
      BY <3>1
    <3> HIDE DEF b
    <3> QED
      BY <1>1, <2>2, <3>2, <3>3, <3>4 DEF FromSetup, AnswerOK
  <2> QED
    BY <2>1, <2>2
<1>4. FromSetup(s)'
  BY <1>1, <1>2, <1>3 DEF FromSetup
<1> QED
  BY <1>2, <1>4 DEF HandlersInv

\* Where a handler goes from where it is.
LEMMA NextPoint ==
  ASSUME NEW c, CallOK(c), NEW pc, PointOK(c, pc)
  PROVE  /\ pc = "vote" => PointOK(c, "last term")
         /\ pc = "last term" => PointOK(c, "decide")
         /\ pc = "decide" => PointOK(c, "step down") /\ PointOK(c, "compare logs")
         /\ pc = "step down" => PointOK(c, "compare logs")
         /\ pc = "compare logs" => PointOK(c, "forget leader")
         /\ pc = "forget leader" => PointOK(c, "over")
         /\ pc = "run" => PointOK(c, "reset votes")
         /\ pc = "reset votes" => PointOK(c, "count")
         /\ pc = "count" => PointOK(c, "test")
         /\ pc = "test" => PointOK(c, "test status")
         /\ pc = "test status" => PointOK(c, "lead")
         /\ pc = "lead" => PointOK(c, "over")
         /\ c.kind = "timeout" => PointOK(c, "ask for votes")
         /\ pc = "append" => IF c.prev = -1 THEN PointOK(c, "clear")
                             ELSE PointOK(c, "compare length")
         /\ pc = "clear" => PointOK(c, "first entry")
         /\ pc = "compare length" => PointOK(c, "compare term")
         /\ pc = "compare term" => PointOK(c, "insert")
         /\ pc = "insert" => PointOK(c, "commit")
         /\ pc = "commit" => PointOK(c, "over")
         /\ pc = "redirected" => PointOK(c, "over")
<1>1. /\ Points["vote"] = {"vote", "last term", "decide", "step down", "compare logs",
                          "forget leader", "over"}
      /\ Points["timeout"] = {"run", "reset votes", "count", "test", "test status",
                             "lead", "ask for votes", "over"}
      /\ Points["reply"] = {"count", "test", "test status", "lead", "learn term", "over"}
      /\ Points["append"] = {"append", "clear", "first entry", "compare length",
                            "compare term", "insert", "commit", "over"}
      /\ Points["redirect"] = {"redirected", "over"}
  BY DEF Points
<1>2. pc \in Points[c.kind]
  BY DEF PointOK
<1>3. CASE c.kind = "vote"
  BY <1>1, <1>2, <1>3 DEF PointOK
<1>4. CASE c.kind = "heartbeat"
  <2>1. Points["heartbeat"] = {"heartbeat"}
    BY DEF Points
  <2> QED
    BY <1>2, <1>4, <2>1
<1>5. CASE c.kind = "timeout"
  BY <1>1, <1>2, <1>5 DEF PointOK
<1>6. CASE c.kind = "reply"
  BY <1>1, <1>2, <1>6 DEF PointOK
<1>7. CASE c.kind = "append"
  <2>1. c.prev \in Nat \cup {-1}
    BY <1>7 DEF CallOK
  <2> QED
    BY <1>1, <1>2, <1>7, <2>1 DEF PointOK
<1>8. CASE c.kind = "redirect"
  BY <1>1, <1>2, <1>8 DEF PointOK
<1> QED
  BY <1>3, <1>4, <1>5, <1>6, <1>7, <1>8 DEF CallOK

\* A thread goes on with another record of the same call.
LEMMA BecomesOK ==
  ASSUME NEW t \in threads, ThreadOK(t), NEW u, DOMAIN u = DOMAIN t,
         u.call = t.call, u.term = t.term, u.wiped = t.wiped,
         PointOK(u.call, u.pc), u.idx \in Nat \cup {-1}, u.last_term \in Nat,
         u.dirty \subseteq ConfigKey, GoesOn(t, u)
  PROVE  MovesOn(t)
  BY DEF MovesOn, ThreadOK

LEMMA GoesOK ==
  ASSUME NEW t \in threads, ThreadOK(t), NEW pc, PointOK(t.call, pc), Goes(t, pc)
  PROVE  MovesOn(t)
<1> DEFINE u == [t EXCEPT !.pc = pc]
<1>1. /\ DOMAIN u = DOMAIN t /\ u.call = t.call /\ u.term = t.term /\ u.idx = t.idx
      /\ u.last_term = t.last_term /\ u.dirty = t.dirty /\ u.pc = pc
  BY DEF ThreadOK
<1>2. u.wiped = t.wiped
  OBVIOUS
<1>3. GoesOn(t, u)
  BY DEF Goes
<1> HIDE DEF u
<1> QED
  BY <1>1, <1>2, <1>3, BecomesOK DEF ThreadOK

\* Which steps leave which part of the state alone: reads, and changes of ...
ReadSteps(t) ==
  \/ GetLogIdx(t) \/ GetLastTerm(t) \/ Decide(t) \/ DenyVote(t) \/ RejectHeartbeat(t)
  \/ Test(t) \/ TestStatus(t)

\* ... the election state, ...
ElectionSteps(t) ==
  StepDown(t) \/ CastVote(t) \/ ForgetLeader(t) \/ AcceptHeartbeat(t) \/ Run(t)
  \/ LearnTerm(t) \/ Lead(t) \/ UpdateTerm(t)

CountSteps(t) == ResetVotes(t) \/ AskForVotes(t) \/ Count(t)

\* ... and the log.
CompareSteps(t) == CheckTerm(t) \/ CompareLength(t) \/ CompareTerm(t)

LogSteps(t) == FirstEntry(t) \/ Insert(t) \/ CommitUpTo(t)

LEMMA ThreadSteps ==
  ASSUME NEW t
  PROVE  ThreadStep(t) <=> \/ FlagsSet(t) \/ ReadSteps(t) \/ ElectionSteps(t)
                           \/ CountSteps(t) \/ CompareSteps(t) \/ LogSteps(t) \/ Clear(t)
  BY DEF ThreadStep, RequestVote, Heartbeat, begin_election, update_votes, AppendEntries,
         ReadSteps, ElectionSteps, CountSteps, CompareSteps, LogSteps

-----------------------------------------------------------------------------
(* Effects of the steps.                                                   *)

SameLog == mem'.entries = mem.entries /\ mem'.log_idx = mem.log_idx

SameElection ==
  mem'.term = mem.term /\ mem'.status = mem.status /\ mem'.voted_for = mem.voted_for

LEMMA ReadStepsMove ==
  ASSUME TypeInv, NEW t \in threads, ReadSteps(t)
  PROVE  /\ MovesOn(t)
         /\ UNCHANGED <<storeVars, calls, num_votes, asked, answers, granted, moved, raced, forgot>>
<1>1. UNCHANGED <<storeVars, calls, num_votes, asked, answers, granted, moved, raced, forgot>>
  BY DEF ReadSteps, GetLogIdx, GetLastTerm, Decide, DenyVote, RejectHeartbeat, Test,
         TestStatus, Reads, Looks
<1> SUFFICES MovesOn(t)
  BY <1>1
<1>2. ThreadOK(t) /\ CallOK(t.call) /\ PointOK(t.call, t.pc)
  BY DEF TypeInv, HandlersInv, ThreadOK
<1>3. mem.log_idx \in Nat \cup {-1} /\ EntriesOK(mem.entries)
  BY MemTypes DEF TypeInv, StoreInv, MemOK
<1>4. Ends(t) => MovesOn(t)
  BY DEF MovesOn
<1>5. CASE GetLogIdx(t)
  <2> DEFINE u == [t EXCEPT !.pc = "last term", !.idx = mem.log_idx]
  <2>1. /\ DOMAIN u = DOMAIN t /\ u.call = t.call /\ u.term = t.term
        /\ u.idx = mem.log_idx /\ u.last_term = t.last_term /\ u.dirty = t.dirty
        /\ u.pc = "last term"
    BY <1>2 DEF ThreadOK
  <2>2. u.wiped = t.wiped
    OBVIOUS
  <2>3. GoesOn(t, u) /\ PointOK(t.call, "last term")
    BY <1>2, <1>5, NextPoint DEF GetLogIdx, At
  <2> HIDE DEF u
  <2> QED
    BY <1>2, <1>3, <2>1, <2>2, <2>3, BecomesOK DEF ThreadOK
<1>6. CASE GetLastTerm(t)
  <2>1. PointOK(t.call, "decide")
    BY <1>2, <1>6, NextPoint DEF GetLastTerm, At
  <2>2. CASE Goes(t, "decide")
    BY <1>2, <2>1, <2>2, GoesOK
  <2>3. CASE t.idx \in DOMAIN mem.entries /\
             GoesOn(t, [t EXCEPT !.pc = "decide", !.last_term = mem.entries[t.idx].term])
    <3> DEFINE u == [t EXCEPT !.pc = "decide", !.last_term = mem.entries[t.idx].term]
    <3>1. /\ DOMAIN u = DOMAIN t /\ u.call = t.call /\ u.term = t.term
          /\ u.idx = t.idx /\ u.last_term = mem.entries[t.idx].term /\ u.dirty = t.dirty
          /\ u.pc = "decide"
      BY <1>2 DEF ThreadOK
    <3>2. u.wiped = t.wiped
      OBVIOUS
    <3>3. mem.entries[t.idx].term \in Nat
      BY <1>3, <2>3 DEF EntriesOK, Entry
    <3> HIDE DEF u
    <3> QED
      BY <1>2, <2>1, <2>3, <3>1, <3>2, <3>3, BecomesOK DEF ThreadOK, u
  <2> QED
    BY <1>4, <1>6, <2>2, <2>3 DEF GetLastTerm
<1>7. CASE Decide(t)
  <2>1. PointOK(t.call, "step down") /\ PointOK(t.call, "compare logs")
    BY <1>2, <1>7, NextPoint DEF Decide, At
  <2>2. Goes(t, "step down") \/ Goes(t, "compare logs") \/ Ends(t)
    BY <1>7 DEF Decide
  <2> QED
    BY <1>2, <1>4, <2>1, <2>2, GoesOK
<1>8. CASE DenyVote(t) \/ RejectHeartbeat(t)
  BY <1>4, <1>8 DEF DenyVote, RejectHeartbeat
<1>9. CASE Test(t) \/ TestStatus(t)
  <2>1. \/ t.pc = "test" /\ Goes(t, "test status")
        \/ t.pc = "test status" /\ Goes(t, "lead")
        \/ AfterCount(t)
    BY <1>9 DEF Test, TestStatus, At
  <2>2. AfterCount(t) => MovesOn(t)
    BY <1>2, <1>4, NextPoint, GoesOK DEF AfterCount
  <2> QED
    BY <1>2, <2>1, <2>2, NextPoint, GoesOK
<1> QED
  BY <1>1, <1>5, <1>6, <1>7, <1>8, <1>9 DEF ReadSteps

\* The methods on the election state leave the log alone.
LEMMA ElectionMethods ==
  ASSUME NEW m, MemOK(m)
  PROVE  /\ LET n == set_self_candidate(m)
            IN /\ n.term = m.term + 1 /\ n.status = "CANDIDATE"
               /\ n.voted_for = [term |-> m.term + 1, server_id |-> Self]
               /\ n.entries = m.entries /\ n.log_idx = m.log_idx
         /\ LET n == set_self_leader(m)
            IN /\ n.term = m.term /\ n.status = "LEADER" /\ n.voted_for = m.voted_for
               /\ n.entries = m.entries /\ n.log_idx = m.log_idx
         /\ LET n == [m EXCEPT !.leader_id = Nobody]
            IN /\ n.term = m.term /\ n.status = m.status /\ n.voted_for = m.voted_for
               /\ n.entries = m.entries /\ n.log_idx = m.log_idx
<1>1. DOMAIN m = MemKey
  BY DEF MemOK
<1> QED
  BY <1>1, Keys DEF cast_vote, set_self_candidate, set_self_leader

LEMMA UpdateTermKeeps ==
  ASSUME NEW m, MemOK(m), NEW term
  PROVE  LET n == update_term(m, term)
         IN /\ n.term = term /\ n.status = m.status /\ n.voted_for = m.voted_for
            /\ n.entries = m.entries /\ n.log_idx = m.log_idx
<1>1. DOMAIN m = MemKey
  BY DEF MemOK
<1> QED
  BY <1>1, Keys DEF update_term

LEMMA ChangesOK ==
  ASSUME StoreInv, NEW t, NEW m, MemOK(m), NEW keys \in SUBSET ConfigKey,
         Changes(t, m, keys)
  PROVE  /\ StoreInv' /\ mem' = m
         /\ raced' = (raced \/ \E u \in threads \ {t} : IsElection(u))
         /\ UNCHANGED <<disk, shelf, calls, restarts, asked, answers, forgot>>
<1>1. /\ Free /\ mem' = m /\ config_change' = Marked(keys)
      /\ UNCHANGED <<disk, busy, flusher, shelf, restarts, torn>>
  BY DEF Changes
<1>2. DOMAIN config_change' \subseteq ConfigKey
  BY <1>1, MarkedOK DEF StoreInv
<1> QED
  BY <1>1, <1>2, ReplacesOK DEF Changes

\* What is said of every step of an election thread that changes the Log object.
ElectionEffect(t) ==
  /\ StoreInv' /\ SameLog /\ MovesOn(t)
  /\ raced' = (raced \/ \E u \in threads \ {t} : IsElection(u))
  /\ UNCHANGED <<disk, shelf, calls, restarts, num_votes, asked, answers, forgot>>
  /\ \/ granted' = granted /\ mem'.voted_for = mem.voted_for
     \/ granted' = granted \cup {mem'.voted_for} /\ mem'.voted_for.term = mem'.term
  /\ \/ moved' = moved
     \/ moved' = moved \cup {[from |-> mem.term, to |-> mem'.term]}

LEMMA StepsDownOK ==
  ASSUME StoreInv, NEW t, NEW term \in Nat, NEW leader, StepsDown(t, term, leader)
  PROVE  /\ StoreInv' /\ SameLog
         /\ mem'.term = term /\ mem'.status = "FOLLOWER" /\ mem'.voted_for = mem.voted_for
         /\ raced' = (raced \/ \E u \in threads \ {t} : IsElection(u))
         /\ UNCHANGED <<disk, shelf, calls, restarts, asked, answers, forgot>>
<1> DEFINE m == revert_to_follower(mem, term, leader)
           keys == {k \in {"status", "term", "leader_id"} : m[k] # mem[k]}
<1>1. MemOK(mem)
  BY DEF StoreInv
<1>2. MemOK(m)
  BY <1>1, ElectionMethodsOK
<1>3. /\ m.term = term /\ m.status = "FOLLOWER" /\ m.voted_for = mem.voted_for
      /\ m.entries = mem.entries /\ m.log_idx = mem.log_idx
  <2>1. DOMAIN mem = MemKey
    BY <1>1 DEF MemOK
  <2> QED
    BY <2>1, Keys DEF revert_to_follower
<1>4. Changes(t, m, keys)
  BY DEF StepsDown
<1>5. keys \in SUBSET ConfigKey
  BY Keys
<1> HIDE DEF m, keys
<1>6. /\ StoreInv' /\ mem' = m
      /\ raced' = (raced \/ \E u \in threads \ {t} : IsElection(u))
      /\ UNCHANGED <<disk, shelf, calls, restarts, asked, answers, forgot>>
  BY <1>2, <1>4, <1>5, ChangesOK
<1> QED
  BY <1>3, <1>6 DEF SameLog

LEMMA StepDownEffect ==
  ASSUME TypeInv, NEW t \in threads, StepDown(t)
  PROVE  /\ ElectionEffect(t) /\ t.pc = "step down" /\ t.call.kind = "vote"
         /\ mem'.term = t.call.term /\ mem'.status = "FOLLOWER"
         /\ mem'.voted_for = mem.voted_for /\ UNCHANGED <<granted, moved>>
         /\ \E u : GoesOn(t, u) /\ u.pc = "compare logs" /\ u.call = t.call
<1>1. ThreadOK(t) /\ CallOK(t.call) /\ PointOK(t.call, t.pc) /\ t.pc = "step down"
  BY DEF TypeInv, HandlersInv, ThreadOK, StepDown, At
<1>2. t.call.kind = "vote" /\ t.call.term \in Nat
  BY <1>1, PointsOfThread DEF PointOK, CallOK
<1>3. /\ StoreInv' /\ SameLog
      /\ mem'.term = t.call.term /\ mem'.status = "FOLLOWER"
      /\ mem'.voted_for = mem.voted_for
      /\ raced' = (raced \/ \E u \in threads \ {t} : IsElection(u))
      /\ UNCHANGED <<disk, shelf, calls, restarts, asked, answers, forgot>>
  BY <1>2, StepsDownOK DEF StepDown, TypeInv
<1>4. Goes(t, "compare logs") /\ UNCHANGED <<num_votes, granted, moved>>
  BY DEF StepDown
<1>5. MovesOn(t)
  BY <1>1, <1>4, NextPoint, GoesOK
<1>6. \E u : GoesOn(t, u) /\ u.pc = "compare logs" /\ u.call = t.call
  <2> DEFINE u == [t EXCEPT !.pc = "compare logs"]
  <2>1. u.pc = "compare logs" /\ u.call = t.call
    BY <1>1 DEF ThreadOK
  <2> QED
    BY <1>4, <2>1 DEF Goes
<1> QED
  BY <1>1, <1>2, <1>3, <1>4, <1>5, <1>6 DEF ElectionEffect

\* Thread t goes on at pc, with flags to be set.
LEMMA GoesWithFlags ==
  ASSUME NEW t \in threads, ThreadOK(t), NEW pc, PointOK(t.call, pc),
         NEW keys \in SUBSET ConfigKey, GoesOn(t, [t EXCEPT !.pc = pc, !.dirty = keys])
  PROVE  MovesOn(t) /\ \E u : GoesOn(t, u) /\ u.pc = pc /\ u.call = t.call
<1> DEFINE u == [t EXCEPT !.pc = pc, !.dirty = keys]
<1>1. /\ DOMAIN u = DOMAIN t /\ u.call = t.call /\ u.term = t.term /\ u.idx = t.idx
      /\ u.last_term = t.last_term /\ u.dirty = keys /\ u.pc = pc
  BY DEF ThreadOK
<1>2. u.wiped = t.wiped /\ GoesOn(t, u)
  OBVIOUS
<1> HIDE DEF u
<1>3. MovesOn(t)
  BY <1>1, <1>2, BecomesOK DEF ThreadOK
<1> QED
  BY <1>1, <1>2, <1>3

LEMMA CastVoteEffect ==
  ASSUME TypeInv, NEW t \in threads, CastVote(t)
  PROVE  /\ ElectionEffect(t) /\ t.pc = "compare logs" /\ t.call.kind = "vote"
         /\ mem'.term = t.call.term /\ mem'.status = mem.status
         /\ mem'.voted_for.term = t.call.term
         /\ granted' = granted \cup {mem'.voted_for} /\ moved' = moved
         /\ \E u : GoesOn(t, u) /\ u.pc = "forget leader" /\ u.call = t.call
<1>1. ThreadOK(t) /\ CallOK(t.call) /\ PointOK(t.call, t.pc) /\ t.pc = "compare logs"
  BY DEF TypeInv, HandlersInv, ThreadOK, CastVote, At
<1>2. t.call.kind = "vote" /\ t.call.term \in Nat
  BY <1>1, PointsOfThread DEF PointOK, CallOK
<1> DEFINE m == cast_vote(mem, t.call.term, t.call.from)
<1>3. MemOK(mem)
  BY DEF TypeInv, StoreInv
<1>4. MemOK(m)
  BY <1>2, <1>3, ElectionMethodsOK
<1>5. /\ m.term = t.call.term /\ m.status = mem.status
      /\ m.voted_for = [term |-> t.call.term, server_id |-> t.call.from]
      /\ m.entries = mem.entries /\ m.log_idx = mem.log_idx
  <2>1. DOMAIN mem = MemKey
    BY <1>3 DEF MemOK
  <2> QED
    BY <2>1, Keys DEF cast_vote
<1>6. Changes(t, m, {})
  BY DEF CastVote
<1> HIDE DEF m
<1>7. /\ StoreInv' /\ mem' = m
      /\ raced' = (raced \/ \E u \in threads \ {t} : IsElection(u))
      /\ UNCHANGED <<disk, shelf, calls, restarts, asked, answers, forgot>>
  BY <1>4, <1>6, ChangesOK DEF TypeInv
<1>8. granted' = granted \cup {mem'.voted_for} /\ UNCHANGED <<num_votes, moved>>
  BY DEF CastVote
<1>9. MovesOn(t) /\ \E u : GoesOn(t, u) /\ u.pc = "forget leader" /\ u.call = t.call
  <2>1. PointOK(t.call, "forget leader") /\ {"term", "voted_for"} \in SUBSET ConfigKey
    BY <1>1, NextPoint, Keys
  <2> QED
    BY <1>1, <2>1, GoesWithFlags DEF CastVote
<1>10. SameLog /\ mem'.voted_for.term = t.call.term
  BY <1>5, <1>7 DEF SameLog
<1>11. ElectionEffect(t)
  BY <1>5, <1>7, <1>8, <1>9, <1>10 DEF ElectionEffect
<1> QED
  BY <1>1, <1>2, <1>5, <1>7, <1>8, <1>9, <1>10, <1>11

LEMMA ForgetLeaderEffect ==
  ASSUME TypeInv, NEW t \in threads, ForgetLeader(t)
  PROVE  /\ ElectionEffect(t) /\ t.call.kind = "vote"
         /\ SameElection /\ UNCHANGED <<granted, moved>>
         /\ \E u : GoesOn(t, u) /\ u.pc = "over" /\ u.call = t.call
<1>1. ThreadOK(t) /\ CallOK(t.call) /\ PointOK(t.call, t.pc) /\ t.pc = "forget leader"
  BY DEF TypeInv, HandlersInv, ThreadOK, ForgetLeader, At
<1>2. t.call.kind = "vote"
  BY <1>1, PointsOfThread
<1> DEFINE m == [mem EXCEPT !.leader_id = Nobody]
<1>3. MemOK(mem)
  BY DEF TypeInv, StoreInv
<1>4. MemOK(m)
  BY <1>3, ElectionMethodsOK
<1>5. /\ m.term = mem.term /\ m.status = mem.status /\ m.voted_for = mem.voted_for
      /\ m.entries = mem.entries /\ m.log_idx = mem.log_idx
  BY <1>3, ElectionMethods
<1>6. Changes(t, m, {})
  BY DEF ForgetLeader
<1> HIDE DEF m
<1>7. /\ StoreInv' /\ mem' = m
      /\ raced' = (raced \/ \E u \in threads \ {t} : IsElection(u))
      /\ UNCHANGED <<disk, shelf, calls, restarts, asked, answers, forgot>>
  BY <1>4, <1>6, ChangesOK DEF TypeInv
<1>8. UNCHANGED <<num_votes, granted, moved>>
  BY DEF ForgetLeader
<1>9. MovesOn(t) /\ \E u : GoesOn(t, u) /\ u.pc = "over" /\ u.call = t.call
  <2>1. PointOK(t.call, "over") /\ {"leader_id"} \in SUBSET ConfigKey
    BY <1>1, NextPoint, Keys
  <2> QED
    BY <1>1, <2>1, GoesWithFlags DEF ForgetLeader
<1> QED
  BY <1>2, <1>5, <1>7, <1>8, <1>9 DEF ElectionEffect, SameLog, SameElection

LEMMA RunEffect ==
  ASSUME TypeInv, NEW t \in threads, Run(t)
  PROVE  /\ ElectionEffect(t) /\ t.call.kind = "timeout"
         /\ mem'.term = mem.term + 1 /\ mem'.status = "CANDIDATE"
         /\ mem'.voted_for = [term |-> mem.term + 1, server_id |-> Self]
         /\ granted' = granted \cup {mem'.voted_for} /\ moved' = moved
         /\ \E u : GoesOn(t, u) /\ u.pc = "reset votes" /\ u.call = t.call
<1>1. ThreadOK(t) /\ CallOK(t.call) /\ PointOK(t.call, t.pc) /\ t.pc = "run"
  BY DEF TypeInv, HandlersInv, ThreadOK, Run, At
<1>2. t.call.kind = "timeout"
  BY <1>1, PointsOfThread
<1> DEFINE m == set_self_candidate(mem)
<1>3. MemOK(mem)
  BY DEF TypeInv, StoreInv
<1>4. MemOK(m)
  BY <1>3, ElectionMethodsOK
<1>5. /\ m.term = mem.term + 1 /\ m.status = "CANDIDATE"
      /\ m.voted_for = [term |-> mem.term + 1, server_id |-> Self]
      /\ m.entries = mem.entries /\ m.log_idx = mem.log_idx
  BY <1>3, ElectionMethods
<1>6. Changes(t, m, {})
  BY DEF Run
<1> HIDE DEF m
<1>7. /\ StoreInv' /\ mem' = m
      /\ raced' = (raced \/ \E u \in threads \ {t} : IsElection(u))
      /\ UNCHANGED <<disk, shelf, calls, restarts, asked, answers, forgot>>
  BY <1>4, <1>6, ChangesOK DEF TypeInv
<1>8. granted' = granted \cup {mem'.voted_for} /\ UNCHANGED <<num_votes, moved>>
  BY DEF Run
<1>9. MovesOn(t) /\ \E u : GoesOn(t, u) /\ u.pc = "reset votes" /\ u.call = t.call
  <2>1. PointOK(t.call, "reset votes") /\ {"voted_for", "status", "term"} \in SUBSET ConfigKey
    BY <1>1, NextPoint, Keys
  <2> QED
    BY <1>1, <2>1, GoesWithFlags DEF Run
<1>10. SameLog /\ mem'.voted_for.term = mem'.term
  BY <1>5, <1>7 DEF SameLog
<1>11. ElectionEffect(t)
  BY <1>7, <1>8, <1>9, <1>10 DEF ElectionEffect
<1> QED
  BY <1>2, <1>5, <1>7, <1>8, <1>9, <1>11

LEMMA LeadEffect ==
  ASSUME TypeInv, NEW t \in threads, Lead(t)
  PROVE  /\ ElectionEffect(t) /\ t.pc = "lead" /\ t.call.kind \in {"timeout", "reply"}
         /\ mem'.term = mem.term /\ mem'.status = "LEADER"
         /\ mem'.voted_for = mem.voted_for /\ UNCHANGED <<granted, moved>>
         /\ \E u : GoesOn(t, u) /\ u.pc = "over" /\ u.call = t.call
<1>1. ThreadOK(t) /\ CallOK(t.call) /\ PointOK(t.call, t.pc) /\ t.pc = "lead"
  BY DEF TypeInv, HandlersInv, ThreadOK, Lead, At
<1>2. t.call.kind \in {"timeout", "reply"}
  BY <1>1, PointsOfThread
<1> DEFINE m == set_self_leader(mem)
<1>3. MemOK(mem)
  BY DEF TypeInv, StoreInv
<1>4. MemOK(m)
  BY <1>3, ElectionMethodsOK
<1>5. /\ m.term = mem.term /\ m.status = "LEADER" /\ m.voted_for = mem.voted_for
      /\ m.entries = mem.entries /\ m.log_idx = mem.log_idx
  BY <1>3, ElectionMethods
<1>6. Changes(t, m, {})
  BY DEF Lead
<1> HIDE DEF m
<1>7. /\ StoreInv' /\ mem' = m
      /\ raced' = (raced \/ \E u \in threads \ {t} : IsElection(u))
      /\ UNCHANGED <<disk, shelf, calls, restarts, asked, answers, forgot>>
  BY <1>4, <1>6, ChangesOK DEF TypeInv
<1>8. UNCHANGED <<num_votes, granted, moved>>
  BY DEF Lead
<1>9. MovesOn(t) /\ \E u : GoesOn(t, u) /\ u.pc = "over" /\ u.call = t.call
  <2>1. PointOK(t.call, "over") /\ {"status", "leader_id"} \in SUBSET ConfigKey
    BY <1>1, NextPoint, Keys
  <2> QED
    BY <1>1, <2>1, GoesWithFlags DEF Lead
<1>10. SameLog
  BY <1>5, <1>7 DEF SameLog
<1>11. ElectionEffect(t)
  BY <1>5, <1>7, <1>8, <1>9, <1>10 DEF ElectionEffect
<1> QED
  BY <1>1, <1>2, <1>5, <1>7, <1>8, <1>9, <1>11

\* A heartbeat, and the reply from which a later term is learned, end the handler.
LEMMA RevertEffect ==
  ASSUME TypeInv, NEW t \in threads, AcceptHeartbeat(t) \/ LearnTerm(t)
  PROVE  /\ ElectionEffect(t) /\ Ends(t) /\ IsElection(t)
         /\ mem'.term = t.call.term /\ mem'.status = "FOLLOWER"
         /\ mem'.voted_for = mem.voted_for /\ UNCHANGED <<granted, moved>>
         /\ t.pc = "learn term" \/ (t.pc = "heartbeat" /\ t.term <= t.call.term)
<1>1. /\ ThreadOK(t) /\ CallOK(t.call) /\ PointOK(t.call, t.pc)
      /\ t.pc = "learn term" \/ (t.pc = "heartbeat" /\ t.term <= t.call.term)
  BY DEF TypeInv, HandlersInv, ThreadOK, AcceptHeartbeat, LearnTerm, At, UpToDate
<1>2. t.call.term \in Nat /\ t.call.kind \in {"heartbeat", "reply"}
  <2>1. t.pc = "learn term" => t.call.term \in Nat /\ t.call.kind = "reply"
    BY <1>1, PointsOfThread DEF PointOK
  <2>2. t.pc = "heartbeat" => t.call.kind = "heartbeat"
    BY <1>1, PointsOfThread
  <2> QED
    BY <1>1, <2>1, <2>2 DEF CallOK
<1>3. /\ StepsDown(t, t.call.term, t.call.from) /\ Ends(t)
      /\ UNCHANGED <<num_votes, granted, moved>>
  BY DEF AcceptHeartbeat, LearnTerm
<1>4. /\ StoreInv' /\ SameLog
      /\ mem'.term = t.call.term /\ mem'.status = "FOLLOWER"
      /\ mem'.voted_for = mem.voted_for
      /\ raced' = (raced \/ \E u \in threads \ {t} : IsElection(u))
      /\ UNCHANGED <<disk, shelf, calls, restarts, asked, answers, forgot>>
  BY <1>2, <1>3, StepsDownOK DEF TypeInv
<1>5. IsElection(t)
  BY <1>2 DEF IsElection
<1> QED
  BY <1>1, <1>3, <1>4, <1>5 DEF ElectionEffect, MovesOn

\* The thread of a REDIRECT takes its term over and leaves the rest as it is.
LEMMA UpdateTermEffect ==
  ASSUME TypeInv, NEW t \in threads, UpdateTerm(t)
  PROVE  /\ ElectionEffect(t) /\ t.pc = "redirected" /\ t.call.kind = "redirect"
         /\ mem'.term = t.call.term /\ mem'.term \in Nat /\ mem'.status = mem.status
         /\ mem'.voted_for = mem.voted_for /\ granted' = granted
         /\ moved' = moved \cup {[from |-> mem.term, to |-> mem'.term]}
         /\ \E u : GoesOn(t, u) /\ u.pc = "over" /\ u.call = t.call
<1>1. ThreadOK(t) /\ CallOK(t.call) /\ PointOK(t.call, t.pc) /\ t.pc = "redirected"
  BY DEF TypeInv, HandlersInv, ThreadOK, UpdateTerm, At
<1>2. t.call.kind = "redirect" /\ t.call.term \in Nat
  BY <1>1, PointsOfThread DEF CallOK
<1> DEFINE m == update_term(mem, t.call.term)
<1>3. MemOK(mem)
  BY DEF TypeInv, StoreInv
<1>4. MemOK(m)
  BY <1>2, <1>3, ElectionMethodsOK
<1>5. /\ m.term = t.call.term /\ m.status = mem.status /\ m.voted_for = mem.voted_for
      /\ m.entries = mem.entries /\ m.log_idx = mem.log_idx
  BY <1>3, UpdateTermKeeps
<1>6. Changes(t, m, {})
  BY DEF UpdateTerm
<1> HIDE DEF m
<1>7. /\ StoreInv' /\ mem' = m
      /\ raced' = (raced \/ \E u \in threads \ {t} : IsElection(u))
      /\ UNCHANGED <<disk, shelf, calls, restarts, asked, answers, forgot>>
  BY <1>4, <1>6, ChangesOK DEF TypeInv
<1>8. /\ UNCHANGED <<num_votes, granted>>
      /\ moved' = moved \cup {[from |-> mem.term, to |-> mem'.term]}
  BY <1>5, <1>7 DEF UpdateTerm
<1>9. MovesOn(t) /\ \E u : GoesOn(t, u) /\ u.pc = "over" /\ u.call = t.call
  <2>1. PointOK(t.call, "over") /\ {"term"} \in SUBSET ConfigKey
    BY <1>1, NextPoint, Keys
  <2> QED
    BY <1>1, <2>1, GoesWithFlags DEF UpdateTerm
<1>10. SameLog
  BY <1>5, <1>7 DEF SameLog
<1>11. ElectionEffect(t)
  BY <1>5, <1>7, <1>8, <1>9, <1>10 DEF ElectionEffect
<1> QED
  BY <1>1, <1>2, <1>5, <1>7, <1>8, <1>9, <1>11

LEMMA CountStepsMove ==
  ASSUME TypeInv, NEW t \in threads, CountSteps(t)
  PROVE  /\ MovesOn(t) /\ num_votes' \in Nat /\ asked' \subseteq Nat
         /\ UNCHANGED <<storeVars, calls, answers, granted, moved, raced, forgot>>
         /\ \/ Ends(t)
            \/ \E u : GoesOn(t, u) /\ u.pc \in {"count", "test"} /\ u.call = t.call
<1>1. ThreadOK(t) /\ CallOK(t.call) /\ PointOK(t.call, t.pc)
  BY DEF TypeInv, HandlersInv, ThreadOK
<1>2. mem.term \in Nat /\ num_votes \in Nat /\ asked \subseteq Nat
  BY MemTypes DEF TypeInv, StoreInv, MemOK, HandlersInv
<1>3. CASE ResetVotes(t) \/ Count(t)
  <2>1. PICK pc \in {"count", "test"} : PointOK(t.call, pc) /\ Goes(t, pc)
    BY <1>1, <1>3, NextPoint DEF ResetVotes, Count, At
  <2>2. MovesOn(t)
    BY <1>1, <2>1, GoesOK
  <2>3. \E u : GoesOn(t, u) /\ u.pc \in {"count", "test"} /\ u.call = t.call
    <3> DEFINE u == [t EXCEPT !.pc = pc]
    <3>1. u.pc = pc /\ u.call = t.call
      BY <1>1 DEF ThreadOK
    <3> QED
      BY <2>1, <3>1 DEF Goes
  <2>4. UNCHANGED <<storeVars, calls, asked, answers, granted, moved, raced, forgot>>
    BY <1>3 DEF ResetVotes, Count
  <2>5. num_votes' \in Nat
    <3>1. num_votes' = 0 \/ num_votes' = num_votes + 1
      BY <1>3 DEF ResetVotes, Count
    <3> QED
      BY <1>2, <3>1
  <2> QED
    BY <1>2, <2>2, <2>3, <2>4, <2>5
<1>4. CASE AskForVotes(t)
  BY <1>2, <1>4 DEF AskForVotes, MovesOn
<1> QED
  BY <1>3, <1>4 DEF CountSteps

\* The steps of an append thread that only compare; a refusal is not OK.
LEMMA CompareStepsMove ==
  ASSUME TypeInv, NEW t \in threads, CompareSteps(t)
  PROVE  /\ MovesOn(t) /\ t.call.kind = "append"
         /\ UNCHANGED <<storeVars, calls, num_votes, asked, granted, moved, raced, forgot>>
         /\ \/ Goes(t, "clear") /\ t.call.prev = -1 /\ answers' = answers
            \/ Goes(t, "compare length") /\ answers' = answers
            \/ Goes(t, "compare term") /\ t.call.prev <= mem.log_idx /\ answers' = answers
            \/ Goes(t, "insert") /\ t.pc = "compare term" /\ answers' = answers
            \/ Ends(t) /\ \E code : code # "OK" /\ Answers(t, code)
<1>1. ThreadOK(t) /\ CallOK(t.call) /\ PointOK(t.call, t.pc)
  BY DEF TypeInv, HandlersInv, ThreadOK
<1>2. t.pc \in {"append", "compare length", "compare term"}
  BY DEF CompareSteps, CheckTerm, CompareLength, CompareTerm, At
<1>3. t.call.kind = "append" /\ t.call.prev \in Nat \cup {-1}
  <2>1. t.call.kind = "append"
    BY <1>1, <1>2, PointsOfThread
  <2> QED
    BY <1>1, <2>1 DEF CallOK
<1>4. mem.log_idx \in Nat \cup {-1}
  BY MemTypes DEF TypeInv, StoreInv, MemOK
<1>5. UNCHANGED <<storeVars, calls, num_votes, asked, granted, moved, raced, forgot>>
  BY DEF CompareSteps, CheckTerm, CompareLength, CompareTerm, Refuses, Quiet, Reads, Looks
<1>6. \/ Goes(t, "clear") /\ t.call.prev = -1 /\ answers' = answers
      \/ Goes(t, "compare length") /\ t.call.prev # -1 /\ t.pc = "append"
         /\ answers' = answers
      \/ Goes(t, "compare term") /\ mem.log_idx >= t.call.prev /\ t.pc = "compare length"
         /\ answers' = answers
      \/ Goes(t, "insert") /\ t.pc = "compare term" /\ answers' = answers
      \/ Ends(t) /\ \E code : code # "OK" /\ Answers(t, code)
  <2>1. CASE CheckTerm(t)
    BY <2>1 DEF CheckTerm, Refuses, Reads, Looks, At
  <2>2. CASE CompareLength(t)
    BY <2>2 DEF CompareLength, Refuses, Reads, Looks, At
  <2>3. CASE CompareTerm(t)
    BY <2>3 DEF CompareTerm, Refuses, Reads, Looks, At
  <2> QED
    BY <2>1, <2>2, <2>3 DEF CompareSteps
<1>7. MovesOn(t)
  <2>1. Goes(t, "clear") /\ t.call.prev = -1 => PointOK(t.call, "clear")
    BY <1>3 DEF PointOK, Points
  <2>2. Goes(t, "compare length") /\ t.call.prev # -1 => PointOK(t.call, "compare length")
    <3>1. t.call.prev # -1 => t.call.prev \in Nat
      BY <1>3
    <3>2. "compare length" \in Points[t.call.kind]
      BY <1>3 DEF Points
    <3> QED
      BY <3>1, <3>2 DEF PointOK
  <2>3. t.pc = "compare length" => PointOK(t.call, "compare term")
    BY <1>1, NextPoint
  <2>4. t.pc = "compare term" => PointOK(t.call, "insert")
    BY <1>1, NextPoint
  <2>5. Ends(t) => MovesOn(t)
    BY DEF MovesOn
  <2> QED
    BY <1>1, <1>6, <2>1, <2>2, <2>3, <2>4, <2>5, GoesOK
<1> QED
  BY <1>3, <1>4, <1>5, <1>6, <1>7

\* Only append and insert_at store an entry, and none of the methods shortens the log.
LogEffect(t) ==
  /\ StoreInv' /\ SameElection /\ MovesOn(t) /\ t.call.kind = "append"
  /\ UNCHANGED <<disk, shelf, calls, restarts, num_votes, asked, granted, moved, raced, forgot>>

LEMMA StoresOK ==
  ASSUME StoreInv, NEW m, MemOK(m), NEW keys \in SUBSET ConfigKey, Stores(m, keys)
  PROVE  /\ StoreInv' /\ mem' = m /\ UNCHANGED <<disk, shelf, restarts>>
<1>1. /\ Free /\ mem' = m /\ config_change' = Marked(keys)
      /\ UNCHANGED <<disk, busy, flusher, shelf, restarts, torn>>
  BY DEF Stores
<1>2. DOMAIN config_change' \subseteq ConfigKey
  BY <1>1, MarkedOK DEF StoreInv
<1> QED
  BY <1>1, <1>2, ReplacesOK

LEMMA FirstEntryEffect ==
  ASSUME TypeInv, NEW t \in threads, FirstEntry(t)
  PROVE  /\ LogEffect(t) /\ Ends(t) /\ Answers(t, "OK") /\ t.pc = "first entry"
         /\ t.call.prev = -1
         /\ mem'.log_idx = mem.log_idx + 1
         /\ mem'.entries = Stored(mem.entries, mem.log_idx + 1,
                                  Uncommitted(t.call.entry_term, t.call.cmd))
<1>1. ThreadOK(t) /\ CallOK(t.call) /\ PointOK(t.call, t.pc) /\ t.pc = "first entry"
  BY DEF TypeInv, HandlersInv, ThreadOK, FirstEntry, At
<1>2. /\ t.call.kind = "append" /\ t.call.prev = -1
      /\ t.call.entry_term \in Nat /\ t.call.cmd \in Command
  BY <1>1, PointsOfThread DEF PointOK, CallOK
<1> DEFINE m == append(mem, t.call.entry_term, t.call.cmd)
<1>3. MemOK(mem) /\ DOMAIN mem = MemKey
  BY DEF TypeInv, StoreInv, MemOK
<1>4. MemOK(m)
  BY <1>2, <1>3, LogMethodsOK
<1>5. /\ m.log_idx = mem.log_idx + 1
      /\ m.entries = Stored(mem.entries, mem.log_idx + 1,
                            Uncommitted(t.call.entry_term, t.call.cmd))
      /\ m.term = mem.term /\ m.status = mem.status /\ m.voted_for = mem.voted_for
  BY <1>3, Keys DEF append
<1>6. Stores(m, {"log_idx"}) /\ {"log_idx"} \in SUBSET ConfigKey
  BY Keys DEF FirstEntry
<1> HIDE DEF m
<1>7. StoreInv' /\ mem' = m /\ UNCHANGED <<disk, shelf, restarts>>
  BY <1>4, <1>6, StoresOK DEF TypeInv
<1> QED
  BY <1>1, <1>2, <1>5, <1>7 DEF LogEffect, SameElection, FirstEntry, MovesOn, Quiet

LEMMA InsertEffect ==
  ASSUME TypeInv, NEW t \in threads, Insert(t)
  PROVE  /\ LogEffect(t) /\ t.pc = "insert" /\ t.call.prev \in Nat /\ answers' = answers
         /\ \E u : /\ GoesOn(t, u) /\ u.pc = "commit" /\ u.call = t.call
                   /\ u.wiped = t.wiped
         /\ IF t.call.prev > mem.log_idx THEN SameLog
            ELSE /\ mem'.log_idx =
                      IF t.call.prev + 1 = mem.log_idx + 1 THEN t.call.prev + 1
                      ELSE mem.log_idx
                 /\ mem'.entries = Stored(mem.entries, t.call.prev + 1,
                                          Uncommitted(t.call.entry_term, t.call.cmd))
<1>1. ThreadOK(t) /\ CallOK(t.call) /\ PointOK(t.call, t.pc) /\ t.pc = "insert"
  BY DEF TypeInv, HandlersInv, ThreadOK, Insert, At
<1>2. /\ t.call.kind = "append" /\ t.call.prev \in Nat
      /\ t.call.entry_term \in Nat /\ t.call.cmd \in Command
  BY <1>1, PointsOfThread DEF PointOK, CallOK
<1> DEFINE index == t.call.prev + 1
           m == insert_at(mem, index, t.call.entry_term, t.call.cmd)
           keys == IF InsertedAt(mem, index) = -1 THEN {} ELSE {"log_idx"}
<1>3. MemOK(mem) /\ DOMAIN mem = MemKey /\ mem.log_idx \in Nat \cup {-1} /\ index \in Nat
  BY <1>2, MemTypes DEF TypeInv, StoreInv, MemOK
<1>4. MemOK(m)
  <2> HIDE DEF index
  <2> QED
    BY <1>2, <1>3, LogMethodsOK
<1>5. /\ m.term = mem.term /\ m.status = mem.status /\ m.voted_for = mem.voted_for
      /\ IF index > mem.log_idx + 1 THEN m.entries = mem.entries /\ m.log_idx = mem.log_idx
         ELSE /\ m.log_idx = IF index = mem.log_idx + 1 THEN index ELSE mem.log_idx
              /\ m.entries = Stored(mem.entries, index,
                                    Uncommitted(t.call.entry_term, t.call.cmd))
  <2> HIDE DEF index
  <2> QED
    BY <1>3, Keys DEF insert_at
<1>6. Stores(m, keys) /\ keys \in SUBSET ConfigKey
  BY Keys DEF Insert
<1> HIDE DEF m, keys
<1>7. StoreInv' /\ mem' = m /\ UNCHANGED <<disk, shelf, restarts>>
  BY <1>4, <1>6, StoresOK DEF TypeInv
<1>8. MovesOn(t) /\ \E u : /\ GoesOn(t, u) /\ u.pc = "commit" /\ u.call = t.call
                           /\ u.wiped = t.wiped
  <2> DEFINE u == [t EXCEPT !.pc = "commit", !.idx = InsertedAt(mem, index)]
  <2>1. InsertedAt(mem, index) \in Nat \cup {-1}
    BY <1>3 DEF InsertedAt
  <2>2. /\ DOMAIN u = DOMAIN t /\ u.call = t.call /\ u.term = t.term
        /\ u.idx = InsertedAt(mem, index)
        /\ u.last_term = t.last_term /\ u.dirty = t.dirty /\ u.pc = "commit"
    BY <1>1 DEF ThreadOK
  <2>3. u.wiped = t.wiped /\ GoesOn(t, u)
    BY DEF Insert
  <2>4. PointOK(t.call, "commit")
    BY <1>1, NextPoint
  <2> HIDE DEF u
  <2>5. MovesOn(t)
    BY <1>1, <2>1, <2>2, <2>3, <2>4, BecomesOK DEF ThreadOK
  <2> QED
    BY <2>2, <2>3, <2>5
<1>9. UNCHANGED <<calls, num_votes, asked, granted, moved, raced, forgot,
                answers>>
  BY DEF Insert, Quiet
<1>10. LogEffect(t)
  BY <1>2, <1>5, <1>7, <1>8, <1>9 DEF LogEffect, SameElection
<1>11. IF t.call.prev > mem.log_idx THEN SameLog
       ELSE /\ mem'.log_idx = IF index = mem.log_idx + 1 THEN index ELSE mem.log_idx
            /\ mem'.entries = Stored(mem.entries, index,
                                     Uncommitted(t.call.entry_term, t.call.cmd))
  <2>1. index > mem.log_idx + 1 <=> t.call.prev > mem.log_idx
    BY <1>2, <1>3
  <2> HIDE DEF index
  <2> QED
    BY <1>5, <1>7, <2>1 DEF SameLog
<1> QED
  BY <1>1, <1>2, <1>8, <1>9, <1>10, <1>11

LEMMA CommitUpToEffect ==
  ASSUME TypeInv, NEW t \in threads, CommitUpTo(t)
  PROVE  /\ LogEffect(t) /\ Answers(t, "OK") /\ t.pc = "commit"
         /\ \E u : GoesOn(t, u) /\ u.pc = "over" /\ u.call = t.call
         /\ mem'.log_idx = mem.log_idx /\ DOMAIN mem'.entries = DOMAIN mem.entries
         /\ \A i \in DOMAIN mem.entries : /\ mem'.entries[i].term = mem.entries[i].term
                                          /\ mem'.entries[i].cmd = mem.entries[i].cmd
<1>1. ThreadOK(t) /\ CallOK(t.call) /\ PointOK(t.call, t.pc) /\ t.pc = "commit"
  BY DEF TypeInv, HandlersInv, ThreadOK, CommitUpTo, At
<1>2. t.call.kind = "append" /\ t.call.commit \in Int /\ t.idx \in Int
  <2>1. t.call.kind = "append"
    BY <1>1, PointsOfThread
  <2>2. t.idx \in Int
    BY <1>1 DEF ThreadOK
  <2> QED
    BY <1>1, <2>1, <2>2 DEF CallOK
<1> DEFINE upto == IF t.call.commit < t.idx THEN t.call.commit ELSE t.idx
           m == commit_upto(mem, upto)
           to == IF upto < mem.log_idx THEN upto ELSE mem.log_idx
<1>3. /\ MemOK(mem) /\ DOMAIN mem = MemKey /\ EntriesOK(mem.entries)
      /\ mem.log_idx \in Nat \cup {-1} /\ mem.last_commit_idx \in Nat \cup {-1}
  BY MemTypes DEF TypeInv, StoreInv, MemOK
<1>4. upto \in Int
  BY <1>2
<1>5. MemOK(m)
  <2>1. 0 \in Nat /\ \E c \in Command : c = t.call.cmd
    BY <1>1, <1>2 DEF CallOK
  <2> HIDE DEF upto
  <2> QED
    BY <1>3, <1>4, <2>1, LogMethodsOK
<1>6. /\ m.term = mem.term /\ m.status = mem.status /\ m.voted_for = mem.voted_for
      /\ m.log_idx = mem.log_idx
      /\ \/ m.entries = mem.entries
         \/ m.entries = MarkDone(mem.entries, mem.last_commit_idx + 1..to)
  <2> HIDE DEF upto
  <2> QED
    BY <1>3, Keys DEF commit_upto
<1>7. /\ DOMAIN m.entries = DOMAIN mem.entries
      /\ \A i \in DOMAIN mem.entries : /\ m.entries[i].term = mem.entries[i].term
                                       /\ m.entries[i].cmd = mem.entries[i].cmd
  <2> DEFINE new == mem.last_commit_idx + 1..to
             e == MarkDone(mem.entries, new)
  <2>1. m.entries = mem.entries \/ m.entries = e
    BY <1>6
  <2> HIDE DEF new, m
  <2>2. /\ DOMAIN e = DOMAIN mem.entries
        /\ \A i \in DOMAIN mem.entries : /\ e[i].term = mem.entries[i].term
                                         /\ e[i].cmd = mem.entries[i].cmd
    BY <1>3 DEF MarkDone, EntriesOK, Entry
  <2> QED
    BY <2>1, <2>2
<1>8. Stores(m, {}) /\ UNCHANGED <<calls, num_votes, asked, granted, moved, raced, forgot>>
  BY DEF CommitUpTo, Quiet
<1> HIDE DEF m
<1>9. StoreInv' /\ mem' = m /\ UNCHANGED <<disk, shelf, restarts>>
  BY <1>5, <1>8, StoresOK DEF TypeInv
<1>10. MovesOn(t) /\ \E u : GoesOn(t, u) /\ u.pc = "over" /\ u.call = t.call
  <2>1. PointOK(t.call, "over") /\ {"last_commit_idx"} \in SUBSET ConfigKey
    BY <1>1, NextPoint, Keys
  <2> QED
    BY <1>1, <2>1, GoesWithFlags DEF CommitUpTo
<1>11. Answers(t, "OK")
  BY DEF CommitUpTo
<1>12. LogEffect(t)
  BY <1>2, <1>6, <1>8, <1>9, <1>10 DEF LogEffect, SameElection
<1> QED
  BY <1>1, <1>6, <1>7, <1>9, <1>10, <1>11, <1>12

\* clear: all entries of the others are gone with the log.
LEMMA ClearEffect ==
  ASSUME TypeInv, NEW t \in threads, Clear(t)
  PROVE  /\ StoreInv' /\ SameElection /\ t.call.kind = "append" /\ t.call.prev = -1
         /\ mem'.log_idx = -1 /\ t.pc = "clear"
         /\ UNCHANGED <<disk, shelf, calls, restarts, num_votes, asked, granted, moved, raced, forgot>>
         /\ \E u : /\ ThreadOK(u) /\ u.call = t.call /\ u.pc = "first entry"
                   /\ WipeOthers(t, u)
                   /\ u.wiped <=> \E v \in threads : v.pc = "first entry"
<1>1. ThreadOK(t) /\ CallOK(t.call) /\ PointOK(t.call, t.pc) /\ t.pc = "clear"
  BY DEF TypeInv, HandlersInv, ThreadOK, Clear, At
<1>2. t.call.kind = "append" /\ t.call.prev = -1
  BY <1>1, PointsOfThread DEF PointOK
<1>3. StoreInv'
  BY ClearTypes DEF Clear, TypeInv
<1>4. SameElection /\ mem'.log_idx = -1
  <2>1. DOMAIN mem = MemKey
    BY DEF TypeInv, StoreInv, MemOK
  <2>2. mem' = [clear(mem) EXCEPT !.db = mem.db]
    BY DEF Clear, ClearMemory
  <2> QED
    BY <2>1, <2>2, Keys DEF SameElection, clear
<1>5. UNCHANGED <<disk, shelf, calls, restarts, num_votes, asked, granted, moved, raced, forgot>>
  BY DEF Clear, ClearMemory, Quiet
<1> DEFINE other == \E v \in threads : v.pc = "first entry"
           u == [t EXCEPT !.pc = "first entry", !.wiped = other]
<1>6. /\ DOMAIN u = {"call", "pc", "term", "idx", "last_term", "dirty", "wiped"}
      /\ u.call = t.call /\ u.term = t.term /\ u.idx = t.idx
      /\ u.last_term = t.last_term /\ u.dirty = t.dirty /\ u.pc = "first entry"
  BY <1>1 DEF ThreadOK
<1>7. (u.wiped <=> other) /\ u.wiped \in BOOLEAN
  <2>1. u.wiped = other
    BY <1>1 DEF ThreadOK
  <2> QED
    BY <2>1
<1>8. WipeOthers(t, u)
  BY DEF Clear
<1>9. PointOK(t.call, "first entry")
  BY <1>1, NextPoint
<1> HIDE DEF u
<1>10. ThreadOK(u)
  BY <1>1, <1>6, <1>7, <1>9 DEF ThreadOK
<1> QED
  BY <1>1, <1>2, <1>3, <1>4, <1>5, <1>6, <1>7, <1>8, <1>10

\* Setting the flags, and what the threads of the Log object do, changes neither
\* the log nor the election state in memory.
LEMMA FlagsSetEffect ==
  ASSUME TypeInv, NEW t \in threads, FlagsSet(t)
  PROVE  /\ StoreInv' /\ mem' = mem /\ VotesInv' /\ MovesOn(t)
         /\ UNCHANGED <<restarts, calls, num_votes, asked, answers, granted, moved, raced, forgot>>
         /\ Ends(t) \/ \E u : /\ GoesOn(t, u) /\ u.call = t.call /\ u.pc = t.pc
                              /\ u.term = t.term /\ u.wiped = t.wiped
<1>1. ThreadOK(t) /\ StoreInv /\ VotesInv
  BY DEF TypeInv, HandlersInv
<1>2. SetFlags(t.dirty) /\ t.dirty \in SUBSET ConfigKey
  BY <1>1 DEF FlagsSet, ThreadOK
<1>3. StoreInv' /\ mem' = mem
  BY <1>1, <1>2, SetFlagsTypes
<1>4. UNCHANGED <<restarts, calls, num_votes, asked, answers, granted, moved, raced, forgot>>
  BY <1>2 DEF FlagsSet, SetFlags
<1>5. shelf' = shelf /\ disk'.config.voted_for \in {disk.config.voted_for, mem.voted_for}
  <2>1. CASE busy = "flushing" /\ ~(t.dirty \subseteq DOMAIN config_change)
    <3>1. PICK done :
            /\ disk' = [disk EXCEPT !.config =
                          [k \in ConfigKey |-> IF k \in done THEN mem[k] ELSE @[k]]]
            /\ shelf' = shelf
      BY <1>2, <2>1 DEF SetFlags
    <3>2. disk'.config = [k \in ConfigKey |-> IF k \in done THEN mem[k]
                                             ELSE disk.config[k]]
      BY <1>1, <3>1 DEF StoreInv, DiskOK
    <3> QED
      BY <3>1, <3>2, Keys
  <2>2. CASE ~(busy = "flushing" /\ ~(t.dirty \subseteq DOMAIN config_change))
    BY <1>2, <2>2 DEF SetFlags
  <2> QED
    BY <2>1, <2>2
<1>6. VotesInv'
  BY <1>1, <1>3, <1>4, <1>5 DEF VotesInv
<1>7. Ends(t) \/ GoesOn(t, [t EXCEPT !.dirty = {}])
  BY DEF FlagsSet
<1> DEFINE u == [t EXCEPT !.dirty = {}]
<1>8. /\ DOMAIN u = DOMAIN t /\ u.call = t.call /\ u.term = t.term /\ u.idx = t.idx
      /\ u.last_term = t.last_term /\ u.dirty = {} /\ u.pc = t.pc
  BY <1>1 DEF ThreadOK
<1>9. u.wiped = t.wiped
  OBVIOUS
<1>10. Ends(t) \/ GoesOn(t, u)
  BY <1>7
<1> HIDE DEF u
<1>11. MovesOn(t)
  <2>1. CASE Ends(t)
    BY <2>1 DEF MovesOn
  <2>2. CASE GoesOn(t, u)
    BY <1>1, <1>8, <1>9, <2>2, BecomesOK DEF ThreadOK
  <2> QED
    BY <1>10, <2>1, <2>2
<1> QED
  BY <1>3, <1>4, <1>6, <1>8, <1>9, <1>10, <1>11

LEMMA LogThreadsEffect ==
  ASSUME TypeInv, LogThreads
  PROVE  /\ StoreInv' /\ SameElection /\ SameLog /\ VotesInv'
         /\ UNCHANGED restarts /\ UNCHANGED nodeVars
<1>1. StoreInv /\ VotesInv /\ MemOK(mem) /\ DOMAIN mem = MemKey /\ UNCHANGED nodeVars
  BY DEF TypeInv, StoreInv, MemOK, LogThreads
<1>2. StoreInv'
  BY <1>1, ApplyTypes, ClearTypes, FlushTypes DEF LogThreads
<1>3. UNCHANGED restarts
  BY DEF LogThreads, Apply, ApplyFlush, ApplyPut, ApplyAdvance, clear_log_backup,
         ClearLogFile, ClearConfigFile, ClearDatabase, flush_config, FlushBegins,
         FlushCollects, FlushCloses
<1>4. CASE Apply
  <2>1. CASE ApplyFlush
    BY <1>1, <1>2, <1>3, <2>1
       DEF ApplyFlush, VotesInv, SameElection, SameLog, nodeVars, StoreInv, DiskOK
  <2>2. CASE ApplyPut
    <3> DEFINE cmd == mem.entries[ToApply].cmd
    <3>1. /\ mem' = [mem EXCEPT !.db[cmd.key] = cmd]
          /\ disk' = [disk EXCEPT !.db[cmd.key] = cmd] /\ shelf' = shelf
      BY <2>2 DEF ApplyPut
    <3> HIDE DEF cmd
    <3>2. SameElection /\ SameLog /\ disk'.config = disk.config
      BY <1>1, <3>1, Keys DEF SameElection, SameLog, StoreInv, DiskOK
    <3> QED
      BY <1>1, <1>2, <1>3, <3>1, <3>2 DEF VotesInv, SameElection, nodeVars
  <2>3. CASE ApplyAdvance
    <3>1. SameElection /\ SameLog /\ disk' = disk /\ shelf' = shelf
      BY <1>1, <2>3, Keys DEF ApplyAdvance, SameElection, SameLog
    <3> QED
      BY <1>1, <1>2, <1>3, <3>1 DEF VotesInv, SameElection, nodeVars
  <2> QED
    BY <1>4, <2>1, <2>2, <2>3 DEF Apply
<1>5. CASE clear_log_backup
  <2>1. SameElection /\ SameLog
    BY <1>1, <1>5, Keys DEF clear_log_backup, ClearLogFile, ClearConfigFile, ClearDatabase,
                            SameElection, SameLog
  <2>2. shelf' = shelf
    BY <1>5 DEF clear_log_backup, ClearLogFile, ClearConfigFile, ClearDatabase
  <2>3. disk'.config.voted_for = disk.config.voted_for
    <3>1. CASE ClearConfigFile
      <4>1. disk'.config = [k \in ConfigKey |-> IF k \in Indexes THEN mem[k]
                                               ELSE disk.config[k]]
        BY <1>1, <3>1 DEF ClearConfigFile, StoreInv, DiskOK
      <4> QED
        BY <4>1, Keys DEF Indexes
    <3>2. CASE ClearLogFile \/ ClearDatabase
      BY <1>1, <3>2 DEF ClearLogFile, ClearDatabase, StoreInv, DiskOK
    <3> QED
      BY <1>5, <3>1, <3>2 DEF clear_log_backup
  <2> QED
    BY <1>1, <1>2, <1>3, <2>1, <2>2, <2>3 DEF VotesInv, SameElection, nodeVars
<1>6. CASE flush_config
  <2>1. mem' = mem
    BY <1>6 DEF flush_config, FlushBegins, FlushCollects, FlushCloses
  <2>2. VotesInv'
    <3>1. CASE FlushBegins
      BY <1>1, <3>1 DEF FlushBegins, VotesInv, nodeVars
    <3>2. CASE FlushCollects
      <4>1. /\ "voted_for" \in DOMAIN shelf' => shelf'.voted_for = mem.voted_for
            /\ disk' = disk
        BY <3>2 DEF FlushCollects, Collected
      <4> QED
        BY <1>1, <2>1, <4>1 DEF VotesInv, nodeVars
    <3>3. CASE FlushCloses
      <4>1. disk'.config.voted_for \in {disk.config.voted_for, mem.voted_for}
        <5>1. disk'.config = [k \in ConfigKey |->
                                IF k \notin DOMAIN shelf THEN disk.config[k]
                                ELSE IF k \in Aliased THEN mem[k] ELSE shelf[k]]
          BY <1>1, <3>3 DEF FlushCloses, StoreInv, DiskOK
        <5> QED
          BY <5>1, Keys DEF Aliased
      <4>2. "voted_for" \notin DOMAIN shelf'
        BY <3>3 DEF FlushCloses, NoKeys
      <4> QED
        BY <1>1, <2>1, <4>1, <4>2 DEF VotesInv, nodeVars
    <3> QED
      BY <1>6, <3>1, <3>2, <3>3 DEF flush_config
  <2> QED
    BY <1>1, <1>2, <1>3, <2>1, <2>2 DEF SameElection, SameLog
<1> QED
  BY <1>4, <1>5, <1>6 DEF LogThreads

\* An answer that is wiped is the same answer.
LEMMA WipedOK ==
  ASSUME NEW a, AnswerOK(a)
  PROVE  /\ AnswerOK([a EXCEPT !.wiped = TRUE])
         /\ [a EXCEPT !.wiped = TRUE].call = a.call
         /\ [a EXCEPT !.wiped = TRUE].wiped
  BY DEF AnswerOK

LEMMA CrashEffect ==
  ASSUME TypeInv, Crash
  PROVE  StoreInv' /\ HandlersInv' /\ VotesInv' /\ threads' = {} /\ restarts' # restarts
<1>1. StoreInv /\ HandlersInv /\ VotesInv /\ Restart
  BY DEF TypeInv, Crash
<1>2. /\ StoreInv'
      /\ \A k \in ConfigKey \ Indexes :
           mem'[k] = disk.config[k] \/ (k \in DOMAIN shelf /\ mem'[k] = shelf[k])
  BY <1>1, RestartTypes
<1>3. PICK s \in Setups : FromSetup(s)
  BY <1>1 DEF HandlersInv
<1>4. FromSetup(s)'
  <2>1. \A a \in answers' : AnswerOK(a) /\ a.call \in s.calls
    <3>1. \A a \in answers : /\ AnswerOK([a EXCEPT !.wiped = TRUE])
                             /\ [a EXCEPT !.wiped = TRUE].call \in s.calls
      BY <1>3, WipedOK DEF FromSetup
    <3> QED
      BY <3>1 DEF Crash
  <2> QED
    BY <1>3, <2>1 DEF FromSetup, Crash
<1>5. HandlersInv'
  <2>1. num_votes' \in Nat /\ threads' = {} /\ asked' \subseteq Nat /\ raced' \in BOOLEAN
    BY <1>1 DEF Crash, HandlersInv
  <2>2. forgot' \in BOOLEAN
    <3>1. forgot' = (forgot \/ \E k \in {"term", "status", "voted_for"} : mem'[k] # mem[k])
      BY DEF Crash
    <3> QED
      BY <3>1
  <2> QED
    BY <1>4, <2>1, <2>2 DEF HandlersInv
<1>6. VotesInv'
  <2>1. mem'.voted_for \in granted
    <3>1. "voted_for" \in ConfigKey \ Indexes
      BY Keys DEF Indexes
    <3> QED
      BY <1>1, <1>2, <3>1 DEF VotesInv
  <2>2. disk'.config.voted_for \in granted
    <3>1. PICK done \in SUBSET DOMAIN shelf :
            disk' = [disk EXCEPT !.config = [k \in ConfigKey |->
                                               IF k \in done THEN shelf[k]
                                               ELSE disk.config[k]]]
      BY <1>1 DEF Restart
    <3>2. disk'.config = [k \in ConfigKey |-> IF k \in done THEN shelf[k]
                                             ELSE disk.config[k]]
      BY <1>1, <3>1 DEF StoreInv, DiskOK
    <3> QED
      BY <1>1, <3>2, Keys DEF VotesInv
  <2>3. "voted_for" \notin DOMAIN shelf'
    BY <1>1 DEF Restart, NoKeys
  <2> QED
    BY <1>1, <2>1, <2>2, <2>3 DEF VotesInv, Crash
<1>7. threads' = {} /\ restarts' # restarts
  <2>1. restarts \in 0..MaxRestarts /\ restarts' = restarts + 1
    BY <1>1 DEF Restart, StoreInv
  <2> QED
    BY <2>1 DEF Crash
<1> QED
  BY <1>2, <1>5, <1>6, <1>7

-----------------------------------------------------------------------------
(* Type correctness.                                                       *)

LEMMA ElectionStepsEffect ==
  ASSUME TypeInv, NEW t \in threads, ElectionSteps(t)
  PROVE  ElectionEffect(t)
  BY StepDownEffect, CastVoteEffect, ForgetLeaderEffect, RunEffect, LeadEffect,
     RevertEffect, UpdateTermEffect DEF ElectionSteps

LEMMA LogStepsEffect ==
  ASSUME TypeInv, NEW t \in threads, LogSteps(t)
  PROVE  LogEffect(t) /\ (answers' = answers \/ Answers(t, "OK"))
  BY FirstEntryEffect, InsertEffect, CommitUpToEffect DEF LogSteps

LEMMA BeginsEffect ==
  ASSUME TypeInv, NEW c \in calls, GetTerm(c) \/ TimeOut(c) \/ GetReply(c) \/ GetRedirect(c)
  PROVE  /\ HandlersInv' /\ Looks
         /\ \E pc : /\ Begins(c, pc)
                    /\ pc = "learn term" => c.term > mem.term
                    /\ pc \in {"vote", "heartbeat", "append", "run", "count", "learn term",
                               "redirected"}
<1>1. PICK pc :
        /\ Begins(c, pc)
        /\ pc = "learn term" => ~c.success
        /\ pc = "learn term" => c.term > mem.term
        /\ pc \in Points[c.kind]
        /\ pc \in {"vote", "heartbeat", "append", "run", "count", "learn term",
                   "redirected"}
  <2>1. /\ "vote" \in Points["vote"] /\ "heartbeat" \in Points["heartbeat"]
        /\ "append" \in Points["append"] /\ "run" \in Points["timeout"]
        /\ "count" \in Points["reply"] /\ "learn term" \in Points["reply"]
        /\ "redirected" \in Points["redirect"]
    BY DEF Points
  <2>2. CASE GetTerm(c)
    BY <2>1, <2>2 DEF GetTerm
  <2>3. CASE TimeOut(c)
    BY <2>1, <2>3 DEF TimeOut
  <2>4. CASE GetReply(c)
    BY <2>1, <2>4 DEF GetReply, Asked
  <2>5. CASE GetRedirect(c)
    BY <2>1, <2>5 DEF GetRedirect
  <2> QED
    BY <2>2, <2>3, <2>4, <2>5
<1>2. Looks
  BY DEF GetTerm, TimeOut, GetReply, GetRedirect
<1>3. HandlersInv'
  BY <1>1, <1>2, BeginOK DEF Looks
<1> QED
  BY <1>1, <1>2, <1>3

LEMMA ClearHandlers == ASSUME TypeInv, NEW t \in threads, Clear(t) PROVE HandlersInv'
<1>1. PICK u :
        /\ ThreadOK(u) /\ u.call = t.call
        /\ threads' = {[v EXCEPT !.wiped = TRUE] : v \in threads \ {t}} \cup {u}
        /\ answers' = {[a EXCEPT !.wiped = TRUE] : a \in answers}
  BY ClearEffect DEF WipeOthers
<1>2. PICK s \in Setups : FromSetup(s)
  BY DEF TypeInv, HandlersInv
<1>3. ASSUME NEW v \in threads
      PROVE  LET w == [v EXCEPT !.wiped = TRUE] IN ThreadOK(w) /\ w.call = v.call
  BY DEF TypeInv, HandlersInv, ThreadOK
<1>4. FromSetup(s)'
  <2>1. \A a \in answers' : AnswerOK(a) /\ a.call \in s.calls
    <3>1. \A a \in answers : /\ AnswerOK([a EXCEPT !.wiped = TRUE])
                             /\ [a EXCEPT !.wiped = TRUE].call \in s.calls
      BY <1>2, WipedOK DEF FromSetup
    <3> QED
      BY <1>1, <3>1
  <2>2. \A v \in threads' : v.call \in s.calls
    BY <1>1, <1>2, <1>3, ZenonT(60) DEF FromSetup
  <2>3. calls' = calls
    BY ClearEffect
  <2> QED
    BY <1>2, <2>1, <2>2, <2>3 DEF FromSetup
<1>5. \A v \in threads' : ThreadOK(v)
  BY <1>1, <1>3
<1>6. UNCHANGED <<num_votes, asked, raced, forgot>>
  BY ClearEffect
<1> QED
  BY <1>4, <1>5, <1>6 DEF TypeInv, HandlersInv

LEMMA TypesPreserved == TypeInv /\ [Next]_vars => TypeInv'
<1> SUFFICES ASSUME TypeInv, [Next]_vars PROVE TypeInv'
  OBVIOUS
<1>1. StoreInv /\ HandlersInv /\ VotesInv
  BY DEF TypeInv
<1>2. ASSUME UNCHANGED storeVars
      PROVE  StoreInv' /\ (UNCHANGED <<granted, moved>> => VotesInv')
  BY <1>1, <1>2 DEF storeVars, StoreInv, VotesInv, LockOK, CanApply, ToApply
<1>3. CASE UNCHANGED vars
  BY <1>1, <1>2, <1>3 DEF vars, nodeVars, TypeInv, HandlersInv, FromSetup
<1>4. ASSUME NEW c \in calls, GetTerm(c) \/ TimeOut(c) \/ GetReply(c) \/ GetRedirect(c) PROVE TypeInv'
  BY <1>2, <1>4, BeginsEffect DEF Looks, TypeInv
<1>5. ASSUME NEW t \in threads, FlagsSet(t) PROVE TypeInv'
  <2>1. MovesOn(t) /\ StoreInv' /\ VotesInv'
        /\ UNCHANGED <<calls, num_votes, asked, answers, raced, forgot>>
    BY <1>5, FlagsSetEffect
  <2>2. HandlersInv'
    BY <1>1, <2>1, MovesOnOK DEF HandlersInv
  <2> QED
    BY <2>1, <2>2 DEF TypeInv
<1>6. ASSUME NEW t \in threads, ReadSteps(t) \/ CountSteps(t) PROVE TypeInv'
  <2>1. /\ MovesOn(t) /\ num_votes' \in Nat /\ asked' \subseteq Nat
        /\ UNCHANGED <<storeVars, calls, answers, granted, moved, raced, forgot>>
    BY <1>1, <1>6, ReadStepsMove, CountStepsMove DEF HandlersInv
  <2>2. HandlersInv'
    BY <1>1, <2>1, MovesOnOK DEF HandlersInv
  <2> QED
    BY <1>2, <2>1, <2>2 DEF TypeInv
<1>7. ASSUME NEW t \in threads, ElectionSteps(t) PROVE TypeInv'
  <2>1. ElectionEffect(t)
    BY <1>7, ElectionStepsEffect
  <2>2. HandlersInv'
    <3>1. raced' \in BOOLEAN
      BY <2>1 DEF ElectionEffect
    <3> QED
      BY <1>1, <2>1, <3>1, MovesOnOK DEF HandlersInv, ElectionEffect
  <2>3. VotesInv'
    <3>1. mem.term \in Nat /\ mem'.term \in Nat
      BY <1>1, <2>1, MemTypes DEF ElectionEffect, StoreInv, MemOK
    <3>2. [from |-> mem.term, to |-> mem'.term] \in [from : Nat, to : Nat]
      BY <3>1
    <3> QED
      BY <1>1, <2>1, <3>2 DEF ElectionEffect, VotesInv
  <2> QED
    BY <2>1, <2>2, <2>3 DEF TypeInv, ElectionEffect
<1>8. ASSUME NEW t \in threads, CompareSteps(t) PROVE TypeInv'
  <2>1. /\ MovesOn(t) /\ t.call.kind = "append"
        /\ UNCHANGED <<storeVars, calls, num_votes, asked, granted, moved, raced, forgot>>
        /\ UNCHANGED answers \/ \E code : Answers(t, code)
    BY <1>8, CompareStepsMove
  <2>2. HandlersInv'
    BY <1>1, <2>1, MovesOnOK DEF HandlersInv
  <2> QED
    BY <1>2, <2>1, <2>2 DEF TypeInv
<1>9. ASSUME NEW t \in threads, LogSteps(t) PROVE TypeInv'
  <2>1. LogEffect(t) /\ (answers' = answers \/ Answers(t, "OK"))
    BY <1>9, LogStepsEffect
  <2>2. HandlersInv'
    BY <1>1, <2>1, MovesOnOK DEF HandlersInv, LogEffect
  <2>3. VotesInv'
    BY <1>1, <2>1 DEF VotesInv, LogEffect, SameElection
  <2> QED
    BY <2>1, <2>2, <2>3 DEF TypeInv, LogEffect
<1>10. ASSUME NEW t \in threads, Clear(t) PROVE TypeInv'
  <2>1. StoreInv' /\ SameElection /\ UNCHANGED <<disk, shelf, granted, moved>>
    BY <1>10, ClearEffect
  <2>2. VotesInv'
    BY <1>1, <2>1 DEF VotesInv, SameElection
  <2> QED
    BY <1>10, <2>1, <2>2, ClearHandlers DEF TypeInv
<1>11. CASE LogThreads
  <2>1. StoreInv' /\ VotesInv' /\ UNCHANGED nodeVars
    BY <1>11, LogThreadsEffect
  <2> QED
    BY <1>1, <2>1 DEF nodeVars, TypeInv, HandlersInv, FromSetup
<1>12. CASE Crash
  BY <1>12, CrashEffect DEF TypeInv
<1> QED
  BY <1>3, <1>4, <1>5, <1>6, <1>7, <1>8, <1>9, <1>10, <1>11, <1>12, ThreadSteps DEF Next

\* Type correctness of the Log object, its files and threads, and of the handlers.
THEOREM NodeTypes == Spec => []TypeOK
<1>1. NodeInit => TypeInv
  BY InitTypes
<1>2. TypeInv /\ [Next]_vars => TypeInv'
  BY TypesPreserved
<1>3. TypeInv => TypeOK
  BY StoreInvTypes DEF TypeInv, HandlersInv, VotesInv, TypeOK, ThreadOK
<1> QED
  BY <1>1, <1>2, <1>3, PTL DEF Spec

\* The inductive invariant of the types holds throughout.
THEOREM NodeInvariant == Spec => []TypeInv
  BY InitTypes, TypesPreserved, PTL DEF Spec

-----------------------------------------------------------------------------
(* What election threads know.                                             *)

LEMMA KnowsStays ==
  ASSUME SameElection, NEW v, Knows(v), NEW w,
         w.pc = v.pc, w.term = v.term, w.call = v.call
  PROVE  Knows(w)'
  BY DEF Knows, SameElection

\* At other points a thread knows nothing that could change.
LEMMA KnowsNothing ==
  ASSUME NEW w, w.pc \notin {"vote", "last term", "decide", "heartbeat", "step down",
                             "learn term", "compare logs", "lead"}
  PROVE  Knows(w)'
  BY DEF Knows

LEMMA AppendKnows ==
  ASSUME NEW w, ThreadOK(w), ~IsElection(w)
  PROVE  w.pc \notin {"vote", "last term", "decide", "heartbeat", "step down",
                      "learn term", "compare logs", "lead"}
<1>1. w.pc \in Points["append"] \cup Points["redirect"]
  BY DEF ThreadOK, PointOK, IsElection
<1> QED
  BY <1>1 DEF Points

\* Unless another election thread runs, what was read is still so.
LEMMA ReadStepsKnow ==
  ASSUME TypeInv, NEW t \in threads, Knows(t), ReadSteps(t)
  PROVE  \/ Ends(t)
         \/ \E u : /\ GoesOn(t, u) /\ Knows(u)' /\ u.call = t.call
                   /\ u.pc = "compare logs" => NotVoted(t.call)
<1>1. ThreadOK(t) /\ PointOK(t.call, t.pc) /\ CallOK(t.call)
  BY DEF TypeInv, HandlersInv, ThreadOK
<1>2. SameElection
  BY ReadStepsMove DEF storeVars, SameElection
<1>3. ASSUME NEW pc, Goes(t, pc),
             pc = "compare logs" => NotVoted(t.call) /\ t.call.term = mem.term,
             pc = "lead" => mem.status = "CANDIDATE",
             pc = "step down" => t.term = mem.term /\ t.call.term > mem.term,
             pc = "decide" => t.term = mem.term,
             pc \notin {"vote", "last term", "heartbeat", "learn term"}
      PROVE  \E u : /\ GoesOn(t, u) /\ Knows(u)' /\ u.call = t.call
                    /\ u.pc = "compare logs" => NotVoted(t.call)
  <2> DEFINE u == [t EXCEPT !.pc = pc]
  <2>1. u.pc = pc /\ u.call = t.call /\ u.term = t.term /\ GoesOn(t, u)
    BY <1>1, <1>3 DEF ThreadOK, Goes
  <2> HIDE DEF u
  <2>2. Knows(u)'
    BY <1>2, <1>3, <2>1 DEF Knows, SameElection
  <2> QED
    BY <1>3, <2>1, <2>2
<1>4. CASE GetLogIdx(t)
  <2>1. PICK n : n = mem.log_idx
    OBVIOUS
  <2> DEFINE u == [t EXCEPT !.pc = "last term", !.idx = n]
  <2>2. u.pc = "last term" /\ u.call = t.call /\ u.term = t.term /\ GoesOn(t, u)
    BY <1>1, <1>4, <2>1 DEF ThreadOK, GetLogIdx
  <2>3. t.term = mem.term
    BY <1>4 DEF GetLogIdx, At, Knows
  <2> HIDE DEF u
  <2>4. Knows(u)'
    BY <1>2, <2>2, <2>3 DEF Knows, SameElection
  <2> QED
    BY <2>2, <2>4
<1>5. CASE GetLastTerm(t)
  <2>1. t.term = mem.term
    BY <1>5 DEF GetLastTerm, At, Knows
  <2>2. CASE Goes(t, "decide")
    BY <1>3, <2>1, <2>2
  <2>3. CASE GoesOn(t, [t EXCEPT !.pc = "decide", !.last_term = mem.entries[t.idx].term])
    <3>1. PICK n : n = mem.entries[t.idx].term
      OBVIOUS
    <3> DEFINE u == [t EXCEPT !.pc = "decide", !.last_term = n]
    <3>2. u.pc = "decide" /\ u.call = t.call /\ u.term = t.term /\ GoesOn(t, u)
      BY <1>1, <2>3, <3>1 DEF ThreadOK
    <3> HIDE DEF u
    <3>3. Knows(u)'
      BY <1>2, <2>1, <3>2 DEF Knows, SameElection
    <3> QED
      BY <3>2, <3>3
  <2> QED
    BY <1>5, <2>2, <2>3 DEF GetLastTerm
<1>6. CASE Decide(t)
  <2>1. t.term = mem.term
    BY <1>6 DEF Decide, At, Knows
  <2>2. CASE Goes(t, "step down") /\ t.call.term > t.term
    BY <1>3, <2>1, <2>2
  <2>3. CASE Goes(t, "compare logs") /\ t.call.term = t.term /\ NotVoted(t.call)
    BY <1>3, <2>1, <2>3
  <2> QED
    BY <1>6, <2>2, <2>3 DEF Decide
<1>7. CASE DenyVote(t) \/ RejectHeartbeat(t)
  BY <1>7 DEF DenyVote, RejectHeartbeat
<1>8. CASE Test(t) \/ TestStatus(t)
  <2>1. \/ Goes(t, "test status") \/ Goes(t, "ask for votes") \/ Ends(t)
        \/ Goes(t, "lead") /\ mem.status = "CANDIDATE"
    BY <1>8 DEF Test, TestStatus, StillCandidate, AfterCount
  <2> QED
    BY <1>3, <2>1
<1> QED
  BY <1>4, <1>5, <1>6, <1>7, <1>8 DEF ReadSteps

\* A step that leaves the election state alone: a thread is where another was, or
\* what it now knows is so.
Informed(w) == Knows(w)' /\ (w.pc = "compare logs" => NotVoted(w.call))

ElectionUnmoved ==
  /\ SameElection /\ UNCHANGED <<granted, moved, raced, forgot>>
  /\ \A w \in threads' :
       \/ \E v \in threads : w.pc = v.pc /\ w.term = v.term /\ w.call = v.call
       \/ raced \/ Informed(w)

LEMMA UnmovedByReplacement ==
  ASSUME NEW t, Ends(t) \/ \E u : GoesOn(t, u) /\ (raced \/ Informed(u)),
         SameElection, UNCHANGED <<granted, moved, raced, forgot>>
  PROVE  ElectionUnmoved
  BY DEF ElectionUnmoved, Ends, GoesOn

LEMMA InformedOfNothing ==
  ASSUME NEW w, w.pc \notin {"vote", "last term", "decide", "heartbeat", "step down",
                             "learn term", "compare logs", "lead"}
  PROVE  Informed(w)
  BY KnowsNothing DEF Informed

LEMMA QuietSteps ==
  ASSUME TypeInv, NoRaceInv,
         \/ UNCHANGED vars \/ LogThreads
         \/ \E c \in calls : GetTerm(c) \/ TimeOut(c) \/ GetReply(c) \/ GetRedirect(c)
         \/ \E t \in threads : FlagsSet(t) \/ ReadSteps(t) \/ CountSteps(t)
                               \/ CompareSteps(t) \/ LogSteps(t) \/ Clear(t)
  PROVE  ElectionUnmoved
<1>1. CASE UNCHANGED vars
  BY <1>1 DEF vars, storeVars, nodeVars, ElectionUnmoved, SameElection
<1>2. CASE LogThreads
  BY <1>2, LogThreadsEffect DEF nodeVars, ElectionUnmoved
<1>3. ASSUME NEW c \in calls, GetTerm(c) \/ TimeOut(c) \/ GetReply(c) \/ GetRedirect(c)
      PROVE  ElectionUnmoved
  <2>1. PICK pc : /\ Begins(c, pc)
                  /\ pc = "learn term" => c.term > mem.term
                  /\ pc \in {"vote", "heartbeat", "append", "run", "count", "learn term",
                             "redirected"}
    BY <1>3, BeginsEffect
  <2>2. Looks
    BY <1>3, BeginsEffect
  <2>3. SameElection /\ UNCHANGED <<granted, moved, raced, forgot>>
    BY <2>2 DEF Looks, storeVars, SameElection
  <2>4. PICK n : n = mem.term
    OBVIOUS
  <2> DEFINE u == [call |-> c, pc |-> pc, term |-> n, idx |-> -1,
                   last_term |-> 0, dirty |-> {}, wiped |-> FALSE]
  <2>5. u.pc = pc /\ u.term = mem.term /\ u.call = c
    BY <2>4
  <2>6. threads' = threads \cup {u}
    BY <2>1, <2>4 DEF Begins, Thread
  <2> HIDE DEF u
  <2>7. Informed(u)
    BY <2>1, <2>3, <2>5 DEF Informed, Knows, SameElection
  <2> QED
    BY <2>3, <2>6, <2>7 DEF ElectionUnmoved
<1>4. ASSUME NEW t \in threads, FlagsSet(t) PROVE ElectionUnmoved
  <2>1. mem' = mem /\ UNCHANGED <<granted, moved, raced, forgot>>
    BY <1>4, FlagsSetEffect
  <2>2. \A w \in threads' :
          \E v \in threads : w.pc = v.pc /\ w.term = v.term /\ w.call = v.call
    <3>1. CASE Ends(t)
      BY <3>1 DEF Ends
    <3>2. ASSUME NEW u, GoesOn(t, u), u.call = t.call, u.pc = t.pc, u.term = t.term
          PROVE  \A w \in threads' :
                   \E v \in threads : w.pc = v.pc /\ w.term = v.term /\ w.call = v.call
      BY <3>2 DEF GoesOn
    <3> QED
      BY <1>4, <3>1, <3>2, FlagsSetEffect
  <2> QED
    BY <2>1, <2>2 DEF ElectionUnmoved, SameElection
<1>5. ASSUME NEW t \in threads, ReadSteps(t) PROVE ElectionUnmoved
  <2>1. SameElection /\ UNCHANGED <<granted, moved, raced, forgot>>
    BY <1>5, ReadStepsMove DEF storeVars, SameElection
  <2>2. CASE raced
    <3>1. Ends(t) \/ \E u : GoesOn(t, u)
      BY <1>5, ReadStepsMove DEF MovesOn
    <3> QED
      BY <2>1, <2>2, <3>1, UnmovedByReplacement
  <2>3. CASE ~raced
    <3>1. Knows(t)
      BY <2>3 DEF NoRaceInv
    <3>2. Ends(t) \/ \E u : GoesOn(t, u) /\ Informed(u)
      BY <1>5, <3>1, ReadStepsKnow DEF Informed
    <3> QED
      BY <2>1, <3>2, UnmovedByReplacement
  <2> QED
    BY <2>2, <2>3
<1>6. ASSUME NEW t \in threads, CountSteps(t) PROVE ElectionUnmoved
  <2>1. SameElection /\ UNCHANGED <<granted, moved, raced, forgot>>
    BY <1>6, CountStepsMove DEF storeVars, SameElection
  <2>2. Ends(t) \/ \E u : GoesOn(t, u) /\ Informed(u)
    BY <1>6, CountStepsMove, InformedOfNothing
  <2> QED
    BY <2>1, <2>2, UnmovedByReplacement
<1>7. ASSUME NEW t \in threads, CompareSteps(t) \/ LogSteps(t) PROVE ElectionUnmoved
  <2>1. /\ SameElection /\ UNCHANGED <<granted, moved, raced, forgot>>
        /\ t.call.kind = "append" /\ MovesOn(t)
    BY <1>7, CompareStepsMove, LogStepsEffect DEF storeVars, SameElection, LogEffect
  <2>2. Ends(t) \/ \E u : GoesOn(t, u) /\ Informed(u)
    <3>1. ASSUME NEW u, ThreadOK(u), u.call = t.call PROVE Informed(u)
      BY <2>1, <3>1, AppendKnows, InformedOfNothing DEF IsElection
    <3> QED
      BY <2>1, <3>1 DEF MovesOn
  <2> QED
    BY <2>1, <2>2, UnmovedByReplacement
<1>8. ASSUME NEW t \in threads, Clear(t) PROVE ElectionUnmoved
  <2>1. SameElection /\ UNCHANGED <<granted, moved, raced, forgot>>
    BY <1>8, ClearEffect
  <2>2. PICK u :
          /\ ThreadOK(u) /\ u.call = t.call /\ u.pc = "first entry"
          /\ threads' = {[v EXCEPT !.wiped = TRUE] : v \in threads \ {t}} \cup {u}
    BY <1>8, ClearEffect DEF WipeOthers
  <2>3. Informed(u)
    BY <2>2, InformedOfNothing
  <2>4. ASSUME NEW v \in threads
        PROVE  LET w == [v EXCEPT !.wiped = TRUE]
               IN w.pc = v.pc /\ w.term = v.term /\ w.call = v.call
    BY DEF TypeInv, HandlersInv, ThreadOK
  <2>5. \A w \in threads' :
          \/ \E v \in threads : w.pc = v.pc /\ w.term = v.term /\ w.call = v.call
          \/ Informed(w)
    BY <2>2, <2>3, <2>4, ZenonT(60)
  <2> QED
    BY <2>1, <2>5 DEF ElectionUnmoved
<1> QED
  BY <1>1, <1>2, <1>3, <1>4, <1>5, <1>6, <1>7, <1>8

LEMMA UnmovedKeeps ==
  ASSUME NoRaceInv, SerialInv, ElectionUnmoved
  PROVE  NoRaceInv' /\ SerialInv' /\ mem'.term = mem.term
<1>1. SameElection /\ UNCHANGED <<granted, moved, raced, forgot>>
  BY DEF ElectionUnmoved
<1>2. NoRaceInv'
  <2> SUFFICES ASSUME ~raced, NEW w \in threads' PROVE Knows(w)'
    BY <1>1 DEF NoRaceInv
  <2>1. ASSUME NEW v \in threads, w.pc = v.pc, w.term = v.term, w.call = v.call
        PROVE  Knows(w)'
    BY <1>1, <2>1, KnowsStays DEF NoRaceInv
  <2> QED
    BY <2>1 DEF ElectionUnmoved, Informed
<1>3. SerialInv'
  <2> SUFFICES ASSUME Serial, SerialState PROVE SerialState'
    BY <1>1 DEF SerialInv, Serial
  <2>1. ASSUME NEW c, VoteIsFree(c) PROVE VoteIsFree(c)'
    BY <1>1, <2>1 DEF VoteIsFree, NotVoted, TakenBack, SameElection
  <2>2. ASSUME NEW w \in threads', w.pc = "compare logs" PROVE VoteIsFree(w.call)'
    <3>1. ASSUME NEW v \in threads, w.pc = v.pc, w.call = v.call
          PROVE  VoteIsFree(w.call)
      BY <2>2, <3>1 DEF SerialState
    <3>2. Informed(w) => VoteIsFree(w.call)
      BY <2>2 DEF Informed, VoteIsFree
    <3> QED
      BY <2>1, <3>1, <3>2 DEF ElectionUnmoved, Serial
  <2>3. VotesKnown' /\ StandsRightly'
    BY <1>1 DEF SerialState, VotesKnown, StandsRightly, TakenBack, SameElection
  <2> QED
    BY <2>2, <2>3 DEF SerialState
<1> QED
  BY <1>1, <1>2, <1>3 DEF SameElection

\* Facts about terms.
LEMMA NotLess ==
  ASSUME NEW a \in Nat, NEW b \in Nat, a = b \/ a > b
  PROVE  a >= b /\ b <= a
  OBVIOUS

\* The server keeps its vote, in the same or a later term.
LEMMA VoteStays ==
  ASSUME mem.term \in Nat, mem'.term \in Nat, mem'.term >= mem.term, VotesKnown,
         mem'.voted_for = mem.voted_for, UNCHANGED <<granted, moved>>
  PROVE  VotesKnown'
  BY DEF VotesKnown, TakenBack

\* It casts a vote in a term that is not over, or over which it was taken back.
LEMMA VoteIsAdded ==
  ASSUME VotesInv, VotesKnown, mem.term \in Nat,
         NEW n, n.term \in Nat, n.term >= mem.term, mem'.term = n.term,
         mem'.voted_for = n, granted' = granted \cup {n}, moved' = moved,
         mem.voted_for.term < n.term \/ TakenBack(n.term)
  PROVE  VotesKnown'
<1>1. \A k : TakenBack(k)' <=> TakenBack(k)
  BY DEF TakenBack
<1>2. \A v \in granted : v.term \in Nat /\ mem.voted_for.term \in Nat
  BY DEF VotesInv
<1>3. ASSUME NEW v \in granted, ~TakenBack(v.term)
      PROVE  v.term <= n.term /\ v.term # n.term
  <2>1. v.term <= mem.voted_for.term /\ v.term <= mem.term
    BY <1>2, <1>3 DEF VotesKnown
  <2>2. v.term <= n.term
    BY <1>2, <2>1
  <2>3. v.term # n.term
    BY <1>2, <1>3, <2>1
  <2> QED
    BY <2>2, <2>3
<1>4. ASSUME NEW v \in granted', NEW w \in granted', v.term = w.term
      PROVE  v.server_id = w.server_id \/ TakenBack(v.term)
  <2>1. CASE v \in granted /\ w \in granted
    BY <1>4, <2>1 DEF VotesKnown
  <2>2. CASE v \in granted /\ w = n
    BY <1>3, <1>4, <2>2
  <2>3. CASE v = n /\ w \in granted
    BY <1>3, <1>4, <2>3
  <2> QED
    BY <2>1, <2>2, <2>3
<1>5. \A v \in granted' : v.term <= n.term \/ TakenBack(v.term)
  BY <1>3
<1> QED
  BY <1>1, <1>4, <1>5 DEF VotesKnown

\* A REDIRECT changes its term, possibly to an earlier one.
LEMMA TermIsMoved ==
  ASSUME VotesInv, VotesKnown, mem.term \in Nat, mem'.term \in Nat,
         mem'.voted_for = mem.voted_for, granted' = granted,
         moved' = moved \cup {[from |-> mem.term, to |-> mem'.term]}
  PROVE  VotesKnown' /\ StandsRightly'
<1> DEFINE m == [from |-> mem.term, to |-> mem'.term]
<1>1. m \in moved' /\ m.from = mem.term /\ m.to = mem'.term
  OBVIOUS
<1> HIDE DEF m
<1>2. \A k : TakenBack(k) => TakenBack(k)'
  BY DEF TakenBack
<1>3. \A k \in Nat : k <= mem.term => k <= mem'.term \/ TakenBack(k)'
  BY <1>1 DEF TakenBack
<1>4. VotesKnown'
  BY <1>2, <1>3 DEF VotesKnown
<1>5. StandsRightly'
  BY <1>1 DEF StandsRightly
<1> QED
  BY <1>4, <1>5

\* The steps that change it: all other threads know nothing, or there is a race.
LEMMA ElectionStepsKeep ==
  ASSUME TypeInv, NoRaceInv, SerialInv, NEW t \in threads, ElectionSteps(t)
  PROVE  NoRaceInv' /\ SerialInv' /\ (mem'.term >= mem.term \/ raced' \/ TakesRedirect)
<1>1. ElectionEffect(t)
  BY ElectionStepsEffect
<1> SUFFICES ASSUME ~raced'
             PROVE  NoRaceInv' /\ SerialInv' /\ (mem'.term >= mem.term \/ TakesRedirect)
  BY DEF NoRaceInv, SerialInv, Serial
<1>2. ~raced /\ \A v \in threads \ {t} : ~IsElection(v)
  BY <1>1 DEF ElectionEffect
<1>3. Knows(t) /\ ThreadOK(t) /\ CallOK(t.call)
  BY <1>2 DEF NoRaceInv, TypeInv, HandlersInv, ThreadOK
<1>4. \A v \in threads \ {t} :
        v.pc \notin {"vote", "last term", "decide", "heartbeat", "step down",
                     "learn term", "compare logs", "lead"}
  BY <1>2, AppendKnows DEF TypeInv, HandlersInv
<1>13. mem.term \in Nat /\ mem.status \in {"CANDIDATE", "FOLLOWER", "LEADER"}
  BY MemTypes DEF TypeInv, StoreInv, MemOK
<1>5. mem.voted_for.term \in Nat
  BY DEF TypeInv, VotesInv
<1>14. VotesInv
  BY DEF TypeInv
<1>6. forgot' = forgot
  BY <1>1 DEF ElectionEffect
<1>7. ASSUME NEW u, threads' \subseteq (threads \ {t}) \cup {u},
             Knows(u)', Serial /\ u.pc = "compare logs" => VoteIsFree(u.call)'
      PROVE  /\ NoRaceInv'
             /\ Serial => \A w \in threads' : w.pc = "compare logs" => VoteIsFree(w.call)'
  BY <1>4, <1>7, KnowsNothing DEF NoRaceInv
<1>16. ASSUME SerialState /\ Serial => VotesKnown' /\ StandsRightly',
              Serial => \A w \in threads' : w.pc = "compare logs" => VoteIsFree(w.call)'
       PROVE  SerialInv'
  BY <1>2, <1>6, <1>16 DEF SerialInv, Serial, SerialState
<1>8. CASE StepDown(t)
  <2>1. /\ t.pc = "step down" /\ mem'.term = t.call.term /\ mem'.status = "FOLLOWER"
        /\ mem'.voted_for = mem.voted_for /\ UNCHANGED <<granted, moved>>
    BY <1>8, StepDownEffect
  <2>2. PICK u : GoesOn(t, u) /\ u.pc = "compare logs" /\ u.call = t.call
    BY <1>8, StepDownEffect
  <2>3. t.call.term > mem.term /\ t.call.term \in Nat
    <3>1. t.call.kind = "vote"
      BY <1>8, StepDownEffect
    <3> QED
      BY <1>3, <2>1, <3>1 DEF Knows, CallOK
  <2>4. Knows(u)'
    BY <2>1, <2>2 DEF Knows
  <2>5. Serial => VoteIsFree(t.call)'
    <3> SUFFICES ASSUME VotesKnown PROVE VoteIsFree(t.call)'
      BY DEF SerialInv, SerialState
    <3>1. mem.voted_for.term < t.call.term \/ TakenBack(t.call.term)
      BY <1>5, <1>13, <2>3 DEF VotesKnown
    <3> QED
      BY <2>1, <3>1 DEF VoteIsFree, NotVoted, TakenBack
  <2>6. /\ NoRaceInv'
        /\ Serial => \A w \in threads' : w.pc = "compare logs" => VoteIsFree(w.call)'
    BY <1>7, <2>2, <2>4, <2>5 DEF GoesOn
  <2>7. mem'.term \in Nat /\ mem'.term >= mem.term
    BY <1>13, <2>1, <2>3, NotLess
  <2>8. SerialState => VotesKnown' /\ StandsRightly'
    BY <1>13, <2>1, <2>7, VoteStays DEF SerialState, StandsRightly
  <2> QED
    BY <1>16, <2>6, <2>7, <2>8
<1>9. CASE CastVote(t)
  <2>1. /\ t.pc = "compare logs" /\ t.call.kind = "vote"
        /\ mem'.term = t.call.term /\ mem'.status = mem.status
        /\ mem'.voted_for.term = t.call.term
        /\ granted' = granted \cup {mem'.voted_for} /\ moved' = moved
    BY <1>9, CastVoteEffect
  <2>2. PICK u : GoesOn(t, u) /\ u.pc = "forget leader" /\ u.call = t.call
    BY <1>9, CastVoteEffect
  <2>3. t.call.term = mem.term
    BY <1>3, <2>1 DEF Knows
  <2>4. /\ NoRaceInv'
        /\ Serial => \A w \in threads' : w.pc = "compare logs" => VoteIsFree(w.call)'
    BY <1>7, <2>2, KnowsNothing DEF GoesOn
  <2>5. mem'.term \in Nat /\ mem'.term >= mem.term
    BY <1>13, <2>1, <2>3, NotLess
  <2>6. ASSUME SerialState PROVE VotesKnown' /\ StandsRightly'
    <3>1. VoteIsFree(t.call) /\ VotesKnown /\ StandsRightly
      BY <2>1, <2>6 DEF SerialState
    <3>2. VotesKnown'
      <4>1. PICK n : n = mem'.voted_for
        OBVIOUS
      <4>2. n.term = mem.term /\ granted' = granted \cup {n} /\ mem'.term = n.term
        BY <2>1, <2>3, <4>1
      <4>3. n.term \in Nat /\ n.term >= mem.term
        BY <1>13, <4>2
      <4>4. mem.voted_for.term < n.term \/ TakenBack(n.term)
        BY <2>3, <3>1, <4>2 DEF VoteIsFree, NotVoted
      <4> QED
        BY <1>13, <1>14, <2>1, <3>1, <4>1, <4>2, <4>3, <4>4, VoteIsAdded
    \* A server that stands or leads gives this vote only in a term that it was put into.
    <3>3. StandsRightly'
      <4> SUFFICES ASSUME mem.status # "FOLLOWER" PROVE \E m \in moved : m.to = mem.term
        BY <2>1, <2>3 DEF StandsRightly
      <4>1. mem.voted_for.term # mem.term
        BY <1>5, <1>13, <2>3, <3>1 DEF VoteIsFree, NotVoted
      <4>2. mem.voted_for # [term |-> mem.term, server_id |-> Self]
        BY <4>1
      <4> QED
        BY <3>1, <4>2 DEF StandsRightly
    <3> QED
      BY <3>2, <3>3
  <2> QED
    BY <1>16, <2>4, <2>5, <2>6
<1>10. CASE ForgetLeader(t) \/ Lead(t)
  <2>1. /\ mem'.term = mem.term /\ mem'.voted_for = mem.voted_for
        /\ UNCHANGED <<granted, moved>>
        /\ mem'.status = mem.status \/ (t.pc = "lead" /\ mem'.status = "LEADER")
    BY <1>10, ForgetLeaderEffect, LeadEffect DEF SameElection
  <2>2. PICK u : GoesOn(t, u) /\ u.pc = "over"
    BY <1>10, ForgetLeaderEffect, LeadEffect
  <2>3. /\ NoRaceInv'
        /\ Serial => \A w \in threads' : w.pc = "compare logs" => VoteIsFree(w.call)'
    BY <1>7, <2>2, KnowsNothing DEF GoesOn
  <2>4. mem'.status # "FOLLOWER" => mem.status # "FOLLOWER"
    BY <1>3, <2>1 DEF Knows
  <2>5. mem'.term \in Nat /\ mem'.term >= mem.term
    BY <1>13, <2>1
  <2>6. SerialState => VotesKnown' /\ StandsRightly'
    BY <1>13, <2>1, <2>4, <2>5, VoteStays DEF SerialState, StandsRightly
  <2> QED
    BY <1>16, <2>3, <2>5, <2>6
<1>11. CASE Run(t)
  <2>1. /\ mem'.term = mem.term + 1 /\ mem'.status = "CANDIDATE"
        /\ mem'.voted_for = [term |-> mem.term + 1, server_id |-> Self]
        /\ granted' = granted \cup {mem'.voted_for} /\ moved' = moved
    BY <1>11, RunEffect
  <2>2. PICK u : GoesOn(t, u) /\ u.pc = "reset votes"
    BY <1>11, RunEffect
  <2>3. /\ NoRaceInv'
        /\ Serial => \A w \in threads' : w.pc = "compare logs" => VoteIsFree(w.call)'
    BY <1>7, <2>2, KnowsNothing DEF GoesOn
  <2>4. mem'.term \in Nat /\ mem'.term >= mem.term
    BY <1>13, <2>1
  <2>5. ASSUME SerialState PROVE VotesKnown' /\ StandsRightly'
    <3>1. PICK n : n = mem'.voted_for
      OBVIOUS
    <3>2. /\ n = [term |-> mem'.term, server_id |-> Self]
          /\ n.term = mem.term + 1 /\ granted' = granted \cup {n}
      BY <2>1, <3>1
    <3>3. n.term \in Nat /\ n.term > mem.term /\ n.term >= mem.term
          /\ mem'.term = n.term
      <4>1. n.term \in Nat /\ n.term > mem.term
        BY <1>13, <3>2
      <4> QED
        BY <1>13, <2>1, <3>2, <4>1, NotLess
    <3>4. mem.voted_for.term < n.term \/ TakenBack(n.term)
      <4>1. n.term <= mem.voted_for.term => TakenBack(n.term)
        <5>1. n.term <= mem.voted_for.term => n.term <= mem.term \/ TakenBack(n.term)
          BY <2>5, <3>3 DEF SerialState, VotesKnown
        <5>2. ~(n.term <= mem.term)
          BY <1>13, <3>3
        <5> QED
          BY <5>1, <5>2
      <4>2. n.term <= mem.voted_for.term \/ mem.voted_for.term < n.term
        BY <1>5, <3>3
      <4> QED
        BY <4>1, <4>2
    <3>5. VotesKnown'
      BY <1>13, <1>14, <2>1, <2>5, <3>1, <3>2, <3>3, <3>4, VoteIsAdded DEF SerialState
    <3> QED
      BY <3>1, <3>2, <3>5 DEF StandsRightly
  <2> QED
    BY <1>16, <2>3, <2>4, <2>5
<1>12. CASE AcceptHeartbeat(t) \/ LearnTerm(t)
  <2>1. /\ Ends(t) /\ mem'.term = t.call.term /\ mem'.status = "FOLLOWER"
        /\ mem'.voted_for = mem.voted_for /\ UNCHANGED <<granted, moved>>
        /\ t.pc = "learn term" \/ (t.pc = "heartbeat" /\ t.term <= t.call.term)
    BY <1>12, RevertEffect
  <2>2. t.call.term >= mem.term /\ t.call.term \in Nat
    <3>1. t.pc = "heartbeat" => t.call.kind = "heartbeat"
      BY <1>3, PointsOfThread DEF ThreadOK, PointOK
    <3>2. t.call.term \in Nat
      BY <1>3, <2>1, <3>1 DEF ThreadOK, PointOK, CallOK
    <3>3. CASE t.pc = "learn term"
      <4>1. t.call.term > mem.term
        BY <1>3, <3>3 DEF Knows
      <4> QED
        BY <1>13, <3>2, <4>1
    <3>4. CASE t.pc = "heartbeat" /\ t.term <= t.call.term
      <4>1. t.term = mem.term
        BY <1>3, <3>4 DEF Knows
      <4> QED
        BY <1>13, <3>2, <3>4, <4>1
    <3> QED
      BY <2>1, <3>3, <3>4
  <2>3. /\ NoRaceInv'
        /\ Serial => \A w \in threads' : w.pc = "compare logs" => VoteIsFree(w.call)'
    BY <1>4, <2>1, KnowsNothing DEF Ends, NoRaceInv
  <2>4. mem'.term \in Nat /\ mem'.term >= mem.term
    BY <2>1, <2>2
  <2>5. SerialState => VotesKnown' /\ StandsRightly'
    BY <1>13, <2>1, <2>4, VoteStays DEF SerialState, StandsRightly
  <2> QED
    BY <1>16, <2>3, <2>4, <2>5
<1>15. CASE UpdateTerm(t)
  <2>1. /\ t.pc = "redirected" /\ mem'.term = t.call.term /\ mem'.term \in Nat
        /\ mem'.voted_for = mem.voted_for /\ granted' = granted
        /\ moved' = moved \cup {[from |-> mem.term, to |-> mem'.term]}
    BY <1>15, UpdateTermEffect
  <2>2. PICK u : GoesOn(t, u) /\ u.pc = "over"
    BY <1>15, UpdateTermEffect
  <2>3. /\ NoRaceInv'
        /\ Serial => \A w \in threads' : w.pc = "compare logs" => VoteIsFree(w.call)'
    BY <1>7, <2>2, KnowsNothing DEF GoesOn
  <2>4. SerialState => VotesKnown' /\ StandsRightly'
    BY <1>13, <1>14, <2>1, TermIsMoved DEF SerialState
  <2>5. TakesRedirect
    <3>1. t # u
      BY <2>1, <2>2
    <3> QED
      BY <2>1, <2>2, <3>1 DEF TakesRedirect, GoesOn
  <2> QED
    BY <1>16, <2>3, <2>4, <2>5
<1> QED
  BY <1>8, <1>9, <1>10, <1>11, <1>12, <1>15 DEF ElectionSteps

\* What the threads know, and that the votes are in order, stays so in every step.
LEMMA KnowledgePreserved ==
  ASSUME TypeInv, NoRaceInv, SerialInv, [Next]_vars
  PROVE  /\ NoRaceInv' /\ SerialInv'
         /\ mem'.term >= mem.term \/ raced' \/ TakesRedirect \/ restarts' # restarts
<1>1. ASSUME ElectionUnmoved
      PROVE  NoRaceInv' /\ SerialInv' /\ mem'.term >= mem.term
  <2>1. NoRaceInv' /\ SerialInv' /\ mem'.term = mem.term
    BY <1>1, UnmovedKeeps
  <2>2. mem.term \in Nat
    BY MemTypes DEF TypeInv, StoreInv, MemOK
  <2>3. mem'.term >= mem.term
    BY <2>1, <2>2, NotLess
  <2> QED
    BY <2>1, <2>3
<1>2. CASE UNCHANGED vars \/ LogThreads
  BY <1>1, <1>2, QuietSteps
<1>3. CASE \E c \in calls : GetTerm(c) \/ TimeOut(c) \/ GetReply(c) \/ GetRedirect(c)
  BY <1>1, <1>3, QuietSteps
<1>4. ASSUME NEW t \in threads, ThreadStep(t)
      PROVE  NoRaceInv' /\ SerialInv' /\ (mem'.term >= mem.term \/ raced' \/ TakesRedirect)
  <2>1. CASE ElectionSteps(t)
    BY <2>1, ElectionStepsKeep
  <2>2. CASE \/ FlagsSet(t) \/ ReadSteps(t) \/ CountSteps(t)
             \/ CompareSteps(t) \/ LogSteps(t) \/ Clear(t)
    BY <1>1, <2>2, QuietSteps
  <2> QED
    BY <1>4, <2>1, <2>2, ThreadSteps
<1>5. CASE Crash
  <2>1. threads' = {} /\ restarts' # restarts
    BY <1>5, CrashEffect
  <2>2. UNCHANGED <<granted, moved, raced>>
    BY <1>5 DEF Crash
  <2>3. ~forgot' => ~forgot /\ SameElection
    BY <1>5 DEF Crash, SameElection
  <2>4. NoRaceInv'
    BY <2>1 DEF NoRaceInv
  <2>5. SerialInv'
    <3> SUFFICES ASSUME Serial' PROVE SerialState'
      BY DEF SerialInv
    <3>1. SerialState /\ SameElection
      BY <2>2, <2>3 DEF Serial, SerialInv
    <3> QED
      BY <2>1, <2>2, <3>1 DEF SerialState, SameElection, VotesKnown, StandsRightly,
                              TakenBack
  <2> QED
    BY <2>1, <2>4, <2>5
<1> QED
  BY <1>2, <1>3, <1>4, <1>5 DEF Next

LEMMA ElectionInvariant == Spec => [](TypeInv /\ NoRaceInv /\ SerialInv)
<1>1. NodeInit => TypeInv /\ NoRaceInv /\ SerialInv
  BY InitTypes, InitKnowledge
<1>2. TypeInv /\ NoRaceInv /\ SerialInv /\ [Next]_vars
        => (TypeInv /\ NoRaceInv /\ SerialInv)'
  BY TypesPreserved, KnowledgePreserved
<1> QED
  BY <1>1, <1>2, PTL DEF Spec

\* As long as no handler changes the election state while another one that has looked
\* at it is on its way, and no crash takes the state back, a server gives its vote of
\* a term to one candidate, unless a REDIRECT has taken it back over that term:
\* RequestVote, begin_election, the replies and the broadcast threads, in any order and
\* of any number, from any election state.
THEOREM OneVoteIfSerial == Spec => []VotesOnceIfSerial
<1>1. SerialInv => VotesOnceIfSerial
  BY DEF SerialInv, SerialState, VotesKnown, VotesOnceIfSerial
<1> QED
  BY <1>1, ElectionInvariant, PTL

\* ... and a server that leads has voted for itself in the term it leads, or a REDIRECT
\* has put it there, though set_self_leader looks neither at the term nor at the vote.
THEOREM OwnVoteIfSerial == Spec => []LeadsOwnTermIfSerial
<1>1. SerialInv => LeadsOwnTermIfSerial
  BY DEF SerialInv, SerialState, StandsRightly, LeadsOwnTermIfSerial
<1> QED
  BY <1>1, ElectionInvariant, PTL

\* The term of a server goes back only where two election handlers overlap, though
\* revert_to_follower and cast_vote set whatever term they are given, where update_term
\* takes over that of a REDIRECT, or in a crash.
THEOREM OnlyRacesAndRedirectsTakeBack == Spec => TermGoesBackOnlyByRaceOrRedirect
<1>1. TypeInv /\ NoRaceInv /\ SerialInv /\ [Next]_vars
        => [\/ mem'.term >= mem.term
            \/ raced' \/ TakesRedirect \/ restarts' # restarts]_vars
  BY KnowledgePreserved
<1> QED
  BY <1>1, ElectionInvariant, PTL DEF Spec, TermGoesBackOnlyByRaceOrRedirect

-----------------------------------------------------------------------------
(* What append threads have found, and what they have acknowledged.        *)

\* The log does not shrink, and the calls whose entries it holds stay stored.
LogKept(s) ==
  /\ mem.log_idx <= mem'.log_idx
  /\ \A c \in s.calls : c.kind = "append" /\ IsStored(c) => IsStored(c)'

LEMMA LogIndexes == ASSUME TypeInv PROVE mem.log_idx \in Nat \cup {-1}
  BY MemTypes DEF TypeInv, StoreInv, MemOK

LEMMA NextLogIndexes == ASSUME StoreInv' PROVE mem'.log_idx \in Nat \cup {-1}
  BY MemTypes DEF StoreInv, MemOK

LEMMA StillWithin ==
  ASSUME NEW a \in Int, NEW b \in Nat \cup {-1}, NEW c \in Nat \cup {-1},
         a <= b, b <= c
  PROVE  a <= c
  OBVIOUS

LEMMA CallsOfSetup ==
  ASSUME TypeInv
  PROVE  \E s \in Setups :
           /\ FromSetup(s)
           /\ \A c \in s.calls : CallOK(c)
           /\ \A c, d \in s.calls : c.kind = "append" /\ d.kind = "append" /\ SameEntry(c, d)
                                      => c.cmd = d.cmd
  BY SetupAssumption, ZenonT(60) DEF TypeInv, HandlersInv, Plausible

LEMMA SameLogKept ==
  ASSUME TypeInv, SameLog, NEW s
  PROVE  LogKept(s)
<1>1. mem.log_idx \in Int /\ mem'.log_idx = mem.log_idx
  BY LogIndexes DEF SameLog
<1>2. mem.log_idx <= mem'.log_idx
  BY <1>1
<1> QED
  BY <1>2 DEF LogKept, IsStored, Held, SameLog

\* Entries that are marked as committed are otherwise what they were.
LEMMA MarkedLogKept ==
  ASSUME TypeInv, NEW s,
         mem'.log_idx = mem.log_idx, DOMAIN mem'.entries = DOMAIN mem.entries,
         \A i \in DOMAIN mem.entries : /\ mem'.entries[i].term = mem.entries[i].term
                                       /\ mem'.entries[i].cmd = mem.entries[i].cmd
  PROVE  LogKept(s)
<1>1. mem.log_idx \in Int
  BY LogIndexes
<1>2. mem.log_idx <= mem'.log_idx
  BY <1>1
<1> QED
  BY <1>2 DEF LogKept, IsStored, Held

\* An entry is stored behind all others, or at the index that its call is for.
LEMMA StoredLogKept ==
  ASSUME TypeInv, StoreInv', NEW s, NEW d \in s.calls, d.kind = "append",
         \A c \in s.calls : CallOK(c),
         \A c \in s.calls : c.kind = "append" /\ SameEntry(c, d) => c.cmd = d.cmd,
         NEW j \in Int, mem.log_idx <= mem'.log_idx, j > mem.log_idx \/ j = d.prev + 1,
         mem'.entries = Stored(mem.entries, j, Uncommitted(d.entry_term, d.cmd))
  PROVE  /\ LogKept(s)
         /\ j = d.prev + 1 /\ j <= mem'.log_idx => IsStored(d)'
<1>1. mem.log_idx \in Nat \cup {-1} /\ mem'.log_idx \in Nat \cup {-1}
  BY LogIndexes, NextLogIndexes
<1>2. /\ DOMAIN mem'.entries = DOMAIN mem.entries \cup {j}
      /\ \A i \in DOMAIN mem.entries : i # j => mem'.entries[i] = mem.entries[i]
      /\ mem'.entries[j] = Uncommitted(d.entry_term, d.cmd)
  BY DEF Stored
<1>3. /\ Uncommitted(d.entry_term, d.cmd).term = d.entry_term
      /\ Uncommitted(d.entry_term, d.cmd).cmd = d.cmd
  BY DEF Uncommitted
<1>4. ASSUME NEW c \in s.calls, c.kind = "append", IsStored(c) PROVE IsStored(c)'
  <2>1. c.prev \in Int /\ d.prev \in Int
    BY <1>4 DEF CallOK
  <2>4. c.prev + 1 <= mem'.log_idx
    <3>1. c.prev + 1 <= mem.log_idx
      BY <1>4 DEF IsStored
    <3>2. c.prev + 1 \in Int
      BY <2>1
    <3> QED
      BY <1>1, <3>1, <3>2, StillWithin
  <2>2. CASE c.prev + 1 # j
    BY <1>2, <1>4, <2>2, <2>4 DEF IsStored, Held
  <2>3. CASE c.prev + 1 = j
    <3>1. c.prev = d.prev
      BY <1>1, <1>4, <2>1, <2>3 DEF IsStored
    <3>2. c.entry_term = d.entry_term => c.cmd = d.cmd
      BY <1>4, <3>1 DEF SameEntry
    <3> QED
      BY <1>2, <1>3, <2>3, <2>4, <3>2 DEF IsStored, Held
  <2> QED
    BY <2>2, <2>3
<1>5. j = d.prev + 1 /\ j <= mem'.log_idx => IsStored(d)'
  BY <1>2, <1>3 DEF IsStored, Held
<1> QED
  BY <1>4, <1>5 DEF LogKept

LEMMA StillFound ==
  ASSUME TypeInv, StoreInv', NEW s, LogKept(s), NEW p \in Nat, p <= mem.log_idx
  PROVE  p <= mem'.log_idx
<1>1. mem'.log_idx \in Nat \cup {-1}
  BY NextLogIndexes
<1>2. mem.log_idx \in Nat \cup {-1}
  BY LogIndexes
<1>3. mem.log_idx <= mem'.log_idx
  BY DEF LogKept
<1> QED
  BY <1>1, <1>2, <1>3, StillWithin

\* Some threads leave, others come; answers that come are true.
LEMMA StoredStep ==
  ASSUME TypeInv, TypeInv', StoredInv, NEW s, FromSetup(s), LogKept(s),
         NEW gone, NEW come, threads' \subseteq (threads \ gone) \cup come,
         \A u \in come : u.wiped \/ Found(u)',
         \A v \in threads \ gone : ~v.wiped /\ v.pc = "first entry" =>
           mem'.log_idx = mem.log_idx /\ \A u \in come : u.pc # "first entry",
         \A a \in answers' :
           a \in answers \/ a.code # "OK" \/ a.wiped \/ IsStored(a.call)'
  PROVE  StoredInv'
<1>1. ASSUME NEW w \in threads', ~w.wiped PROVE Found(w)'
  <2>1. CASE w \in come
    BY <1>1, <2>1
  <2>2. CASE w \in threads \ gone
    <3>1. Found(w) /\ ThreadOK(w) /\ w.call \in s.calls
      BY <1>1, <2>2 DEF StoredInv, TypeInv, HandlersInv, FromSetup
    <3>2. w.pc \in {"compare term", "insert", "commit"} =>
            w.call.kind = "append" /\ w.call.prev \in Nat
      BY <3>1, PointsOfThread DEF ThreadOK, PointOK
    <3>3. w.pc = "first entry" =>
            mem'.log_idx = -1 /\ \A u \in threads' : u.pc = "first entry" => u = w
      BY <1>1, <2>2, <3>1 DEF Found
    <3>4. w.pc \in {"compare term", "insert"} => w.call.prev <= mem'.log_idx
      BY <3>1, <3>2, StillFound DEF Found, TypeInv
    <3>5. w.pc = "commit" => IsStored(w.call)'
      <4> SUFFICES ASSUME w.pc = "commit" PROVE IsStored(w.call)'
        OBVIOUS
      <4>1. IsStored(w.call) /\ w.call.kind = "append" /\ w.call \in s.calls
        BY <3>1, <3>2 DEF Found
      <4> QED
        BY <4>1 DEF LogKept
    <3> QED
      BY <3>3, <3>4, <3>5 DEF Found
  <2> QED
    BY <1>1, <2>1, <2>2
<1>2. ASSUME NEW a \in answers', a.code = "OK", ~a.wiped PROVE IsStored(a.call)'
  <2>1. CASE a \in answers
    <3>1. a.call \in Acknowledged /\ a.call \in s.calls /\ a.call.kind = "append"
      BY <1>2, <2>1 DEF Acknowledged, FromSetup, AnswerOK
    <3>2. IsStored(a.call)
      BY <3>1 DEF StoredInv
    <3> QED
      BY <3>1, <3>2 DEF LogKept
  <2> QED
    BY <1>2, <2>1
<1> QED
  BY <1>1, <1>2 DEF StoredInv, Acknowledged

\* Handlers of other calls have found nothing in the log.
LEMMA FoundNothing ==
  ASSUME NEW u, u.pc \notin {"first entry", "compare term", "insert", "commit"}
  PROVE  Found(u)'
  BY DEF Found

LEMMA OthersFindNothing ==
  ASSUME NEW u, ThreadOK(u), u.call.kind # "append"
  PROVE  Found(u)' /\ u.pc # "first entry"
<1>1. CallOK(u.call) /\ u.pc \in Points[u.call.kind]
  BY DEF ThreadOK, PointOK
<1>2. u.pc \in {"append", "clear", "first entry", "compare length", "compare term",
                "insert", "commit"} <=> u.call.kind = "append" /\ u.pc # "over"
  BY <1>1, PointsOfKind
<1> QED
  BY <1>2, FoundNothing

LEMMA OtherThanAppend ==
  ASSUME TypeInv, NEW t \in threads, ReadSteps(t) \/ ElectionSteps(t) \/ CountSteps(t)
  PROVE  t.call.kind # "append"
<1>1. CallOK(t.call) /\ t.pc \in Points[t.call.kind]
  BY DEF TypeInv, HandlersInv, ThreadOK, PointOK
<1>2. t.pc \in {"vote", "last term", "decide", "step down", "compare logs",
                "forget leader", "heartbeat", "run", "reset votes", "ask for votes",
                "count", "test", "test status", "lead", "learn term", "redirected"}
  BY DEF ReadSteps, ElectionSteps, CountSteps, GetLogIdx, GetLastTerm, Decide, DenyVote,
         RejectHeartbeat, Test, TestStatus, StepDown, CastVote, ForgetLeader,
         AcceptHeartbeat, Run, LearnTerm, Lead, ResetVotes, AskForVotes, Count,
         UpdateTerm, At
<1>3. t.call.kind = "append" /\ t.pc # "over" <=>
        t.pc \in {"append", "clear", "first entry", "compare length", "compare term",
                  "insert", "commit"}
  BY <1>1, PointsOfKind, ZenonT(60)
<1> QED
  BY <1>2, <1>3

\* The steps that neither touch the log nor belong to AppendEntries.
LEMMA OtherStepsKeepStored ==
  ASSUME TypeInv, TypeInv', StoredInv, NEW t \in threads,
         ReadSteps(t) \/ ElectionSteps(t) \/ CountSteps(t)
  PROVE  StoredInv'
<1>1. SameLog /\ MovesOn(t) /\ answers' = answers
  <2>1. CASE ReadSteps(t)
    BY <2>1, ReadStepsMove DEF storeVars, SameLog
  <2>2. CASE ElectionSteps(t)
    BY <2>2, ElectionStepsEffect DEF ElectionEffect
  <2>3. CASE CountSteps(t)
    BY <2>3, CountStepsMove DEF storeVars, SameLog
  <2> QED
    BY <2>1, <2>2, <2>3
<1>2. PICK s \in Setups : FromSetup(s)
  BY CallsOfSetup
<1>3. LogKept(s)
  BY <1>1, SameLogKept
<1>4. t.call.kind # "append"
  BY OtherThanAppend
<1>5. PICK come : come = {u \in threads' : ThreadOK(u) /\ u.call = t.call}
  OBVIOUS
<1>8. threads' \subseteq (threads \ {t}) \cup come
  BY <1>1, <1>5 DEF MovesOn, Ends, GoesOn
<1>6. \A u \in come : Found(u)' /\ u.pc # "first entry"
  BY <1>4, <1>5, OthersFindNothing
<1>7. mem'.log_idx = mem.log_idx
  BY <1>1 DEF SameLog
<1> QED
  BY <1>1, <1>2, <1>3, <1>6, <1>7, <1>8, StoredStep

\* One thread goes on, or ends, with or without an answer.
LEMMA ThreadMoves ==
  ASSUME TypeInv, TypeInv', StoredInv, NEW s, FromSetup(s), LogKept(s),
         NEW t \in threads, NEW u, threads' \subseteq (threads \ {t}) \cup {u},
         \/ Found(u)' /\ u.pc # "first entry"
         \/ u.wiped /\ u.pc # "first entry"
         \/ u \notin threads',
         \/ mem'.log_idx = mem.log_idx
         \/ \A v \in threads \ {t} : v.pc = "first entry" => v.wiped,
         \A a \in answers' : a \in answers \/ a.code # "OK" \/ a.wiped \/ IsStored(a.call)'
  PROVE  StoredInv'
<1>1. PICK come : come = {w \in threads' : w = u}
  OBVIOUS
<1>2. threads' \subseteq (threads \ {t}) \cup come
  BY <1>1
<1>3. \A w \in come : (w.wiped \/ Found(w)') /\ w.pc # "first entry"
  BY <1>1
<1>4. \A v \in threads \ {t} : ~v.wiped /\ v.pc = "first entry" =>
        mem'.log_idx = mem.log_idx /\ \A w \in come : w.pc # "first entry"
  BY <1>3
<1> QED
  BY <1>2, <1>3, <1>4, StoredStep

\* Threads that have found something, unless their entries were cleared.
LEMMA ThreadFound ==
  ASSUME StoredInv, NEW t \in threads
  PROVE  t.wiped \/ Found(t)
  BY DEF StoredInv

\* Reading, a thread finds that the log is long enough.
LEMMA CompareStepsKeepStored ==
  ASSUME TypeInv, TypeInv', StoredInv, NEW t \in threads, CompareSteps(t)
  PROVE  StoredInv'
<1>1. SameLog
  BY CompareStepsMove DEF storeVars, SameLog
<1>2. PICK s \in Setups : FromSetup(s)
  BY CallsOfSetup
<1>3. LogKept(s) /\ mem'.log_idx = mem.log_idx
  BY <1>1, SameLogKept DEF SameLog
<1>4. ASSUME NEW pc, Goes(t, pc), answers' = answers,
             \/ pc \in {"clear", "compare length"}
             \/ pc = "compare term" /\ t.call.prev <= mem.log_idx
             \/ pc = "insert" /\ t.pc = "compare term"
      PROVE  StoredInv'
  <2>1. PICK u : u = [t EXCEPT !.pc = pc]
    OBVIOUS
  <2>2. u.pc = pc /\ u.call = t.call /\ u.wiped = t.wiped
    BY <2>1 DEF TypeInv, HandlersInv, ThreadOK
  <2>3. threads' \subseteq (threads \ {t}) \cup {u}
    BY <1>4, <2>1 DEF Goes, GoesOn
  <2>4. pc # "insert" => Found(u)'
    BY <1>3, <1>4, <2>2 DEF Found
  <2>5. pc = "insert" /\ Found(t) => Found(u)'
    BY <1>3, <1>4, <2>2 DEF Found
  <2>6. u.pc # "first entry"
    BY <1>4, <2>2
  <2>7. Found(u)' \/ u.wiped
    BY <2>2, <2>4, <2>5, ThreadFound
  <2> QED
    BY <1>2, <1>3, <1>4, <2>3, <2>6, <2>7, ThreadMoves
<1>5. ASSUME Ends(t), NEW code, code # "OK", Answers(t, code)
      PROVE  StoredInv'
  <2>1. PICK a : a = [call |-> t.call, code |-> code, wiped |-> t.wiped]
    OBVIOUS
  <2>2. a.code # "OK" /\ answers' = answers \cup {a}
    BY <1>5, <2>1 DEF Answers
  <2>3. threads' \subseteq (threads \ {t}) \cup {t} /\ t \notin threads'
    BY <1>5 DEF Ends
  <2> QED
    BY <1>2, <1>3, <2>2, <2>3, ThreadMoves
<1> QED
  BY <1>4, <1>5, CompareStepsMove

LEMMA FlagsSetKeepsStored ==
  ASSUME TypeInv, TypeInv', StoredInv, NEW t \in threads, FlagsSet(t)
  PROVE  StoredInv'
<1>1. SameLog /\ answers' = answers
  BY FlagsSetEffect DEF SameLog
<1>2. PICK s \in Setups : FromSetup(s)
  BY CallsOfSetup
<1>3. LogKept(s) /\ mem'.log_idx = mem.log_idx /\ mem'.entries = mem.entries
  BY <1>1, SameLogKept DEF SameLog
<1>4. ASSUME NEW u, GoesOn(t, u), u.call = t.call, u.pc = t.pc, u.wiped = t.wiped
      PROVE  StoredInv'
  <2>1. threads' \subseteq (threads \ {t}) \cup {u}
    BY <1>4 DEF GoesOn
  <2>2. Found(t) => Found(u)'
    BY <1>3, <1>4, <2>1 DEF Found, IsStored, Held
  <2>3. u.wiped \/ Found(u)'
    BY <1>4, <2>2, ThreadFound
  <2>4. ASSUME NEW v \in threads \ {t}, ~v.wiped, v.pc = "first entry"
        PROVE  t.pc # "first entry"
    BY <2>4, ThreadFound DEF Found
  <2>5. PICK come : come = {u}
    OBVIOUS
  <2>6. /\ \A w \in come : w.wiped \/ Found(w)'
        /\ threads' \subseteq (threads \ {t}) \cup come
    BY <2>1, <2>3, <2>5
  <2>7. \A v \in threads \ {t} : ~v.wiped /\ v.pc = "first entry" =>
          mem'.log_idx = mem.log_idx /\ \A w \in come : w.pc # "first entry"
    BY <1>3, <1>4, <2>4, <2>5
  <2> QED
    BY <1>1, <1>2, <1>3, <2>6, <2>7, StoredStep
<1>5. CASE Ends(t)
  <2>1. threads' \subseteq (threads \ {t}) \cup {t} /\ t \notin threads'
    BY <1>5 DEF Ends
  <2> QED
    BY <1>1, <1>2, <1>3, <2>1, ThreadMoves
<1> QED
  BY <1>4, <1>5, FlagsSetEffect

\* The first entry comes to an empty log, or was wiped by another one on its way.
LEMMA FirstEntryKeepsStored ==
  ASSUME TypeInv, TypeInv', StoredInv, NEW t \in threads, FirstEntry(t)
  PROVE  StoredInv'
<1>1. /\ Ends(t) /\ Answers(t, "OK") /\ t.pc = "first entry" /\ t.call.prev = -1
      /\ t.call.kind = "append"
      /\ mem'.log_idx = mem.log_idx + 1
      /\ mem'.entries = Stored(mem.entries, mem.log_idx + 1,
                               Uncommitted(t.call.entry_term, t.call.cmd))
  BY FirstEntryEffect DEF LogEffect
<1>2. PICK s \in Setups :
        /\ FromSetup(s)
        /\ \A c \in s.calls : CallOK(c)
        /\ \A c, d \in s.calls : c.kind = "append" /\ d.kind = "append" /\ SameEntry(c, d)
                                   => c.cmd = d.cmd
  BY CallsOfSetup
<1>3. t.call \in s.calls
  BY <1>2 DEF FromSetup
<1>4. /\ mem.log_idx + 1 \in Int /\ mem.log_idx <= mem'.log_idx
      /\ mem.log_idx + 1 > mem.log_idx /\ mem.log_idx + 1 <= mem'.log_idx
  <2>1. mem.log_idx \in Int
    BY LogIndexes
  <2>2. mem'.log_idx = mem.log_idx + 1
    BY <1>1
  <2> QED
    BY <2>1, <2>2
<1>5. StoreInv'
  BY DEF TypeInv
<1>6. PICK j : j = mem.log_idx + 1
  OBVIOUS
<1>7. LogKept(s) /\ (j = t.call.prev + 1 => IsStored(t.call)')
  BY <1>1, <1>2, <1>3, <1>4, <1>5, <1>6, StoredLogKept
<1>8. Found(t) => IsStored(t.call)'
  <2>1. Found(t) => mem.log_idx = -1
    BY <1>1 DEF Found
  <2> QED
    BY <1>1, <1>6, <1>7, <2>1
<1>9. PICK a : a = [call |-> t.call, code |-> "OK", wiped |-> t.wiped]
  OBVIOUS
<1>10. answers' = answers \cup {a} /\ (a.wiped \/ IsStored(a.call)')
  <2>1. answers' = answers \cup {a}
    BY <1>1, <1>9 DEF Answers
  <2>2. a.wiped \/ IsStored(a.call)'
    BY <1>8, <1>9, ThreadFound
  <2> QED
    BY <2>1, <2>2
<1>11. \A v \in threads \ {t} : v.pc = "first entry" => v.wiped
  BY <1>1, ThreadFound DEF Found
<1>12. threads' \subseteq (threads \ {t}) \cup {t} /\ t \notin threads'
  BY <1>1 DEF Ends
<1> QED
  BY <1>2, <1>7, <1>10, <1>11, <1>12, ThreadMoves

\* The entry replaces at most the one at its own index.
LEMMA InsertKeepsStored ==
  ASSUME TypeInv, TypeInv', StoredInv, NEW t \in threads, Insert(t)
  PROVE  StoredInv'
<1>1. /\ t.pc = "insert" /\ t.call.prev \in Nat /\ answers' = answers
      /\ t.call.kind = "append"
  BY InsertEffect DEF LogEffect
<1>2. PICK u : GoesOn(t, u) /\ u.pc = "commit" /\ u.call = t.call /\ u.wiped = t.wiped
  BY InsertEffect
<1>3. PICK s \in Setups :
        /\ FromSetup(s)
        /\ \A c \in s.calls : CallOK(c)
        /\ \A c, d \in s.calls : c.kind = "append" /\ d.kind = "append" /\ SameEntry(c, d)
                                   => c.cmd = d.cmd
  BY CallsOfSetup
<1>4. threads' \subseteq (threads \ {t}) \cup {u} /\ t.call \in s.calls
  BY <1>2, <1>3 DEF FromSetup, GoesOn
<1>5. CASE t.call.prev > mem.log_idx
  <2>1. SameLog
    BY <1>5, InsertEffect
  <2>2. LogKept(s) /\ mem'.log_idx = mem.log_idx
    BY <2>1, SameLogKept DEF SameLog
  <2>3. ~Found(t)
    <3>1. mem.log_idx \in Int
      BY LogIndexes
    <3>2. ~(t.call.prev <= mem.log_idx)
      BY <1>1, <1>5, <3>1
    <3> QED
      BY <1>1, <3>2 DEF Found
  <2>4. u.wiped /\ u.pc # "first entry"
    BY <1>2, <2>3, ThreadFound
  <2> QED
    BY <1>1, <1>3, <1>4, <2>2, <2>4, ThreadMoves
<1>6. CASE ~(t.call.prev > mem.log_idx)
  <2>1. PICK j : j = t.call.prev + 1
    OBVIOUS
  <2>2. /\ mem'.log_idx = IF j = mem.log_idx + 1 THEN j ELSE mem.log_idx
        /\ mem'.entries = Stored(mem.entries, j,
                                 Uncommitted(t.call.entry_term, t.call.cmd))
    BY <1>6, <2>1, InsertEffect
  <2>3. j \in Int /\ mem.log_idx <= mem'.log_idx /\ j <= mem'.log_idx
    <3>1. mem.log_idx \in Int
      BY LogIndexes
    <3> QED
      BY <1>1, <1>6, <2>1, <2>2, <3>1
  <2>4. StoreInv'
    BY DEF TypeInv
  <2>5. LogKept(s) /\ IsStored(t.call)'
    BY <1>1, <1>3, <1>4, <2>1, <2>2, <2>3, <2>4, StoredLogKept
  <2>6. Found(u)' /\ u.pc # "first entry"
    BY <1>2, <2>5 DEF Found
  <2>7. ASSUME NEW v \in threads \ {t}, v.pc = "first entry", ~v.wiped
        PROVE  mem'.log_idx = mem.log_idx
    <3>1. mem.log_idx = -1
      BY <2>7, ThreadFound DEF Found
    <3> QED
      BY <1>1, <1>6, <3>1
  <2>8. mem'.log_idx = mem.log_idx \/ \A v \in threads \ {t} : v.pc = "first entry" => v.wiped
    BY <2>7
  <2> QED
    BY <1>1, <1>3, <1>4, <2>5, <2>6, <2>8, ThreadMoves
<1> QED
  BY <1>5, <1>6

LEMMA CommitUpToKeepsStored ==
  ASSUME TypeInv, TypeInv', StoredInv, NEW t \in threads, CommitUpTo(t)
  PROVE  StoredInv'
<1>1. Answers(t, "OK") /\ t.pc = "commit" /\ mem'.log_idx = mem.log_idx
  BY CommitUpToEffect
<1>2. PICK u : GoesOn(t, u) /\ u.pc = "over"
  BY CommitUpToEffect
<1>3. PICK s \in Setups : FromSetup(s)
  BY CallsOfSetup
<1>4. LogKept(s)
  BY CommitUpToEffect, MarkedLogKept
<1>5. t.call \in s.calls /\ t.call.kind = "append"
  BY <1>3, CommitUpToEffect DEF FromSetup, LogEffect
<1>6. Found(t) => IsStored(t.call)'
  BY <1>1, <1>4, <1>5 DEF Found, LogKept
<1>7. PICK a : a = [call |-> t.call, code |-> "OK", wiped |-> t.wiped]
  OBVIOUS
<1>8. answers' = answers \cup {a}
  BY <1>1, <1>7 DEF Answers
<1>9. a.wiped \/ IsStored(a.call)'
  BY <1>6, <1>7, ThreadFound
<1>10. Found(u)' /\ u.pc # "first entry"
  BY <1>2, FoundNothing
<1>11. threads' \subseteq (threads \ {t}) \cup {u}
  BY <1>2 DEF GoesOn
<1> QED
  BY <1>1, <1>3, <1>4, <1>8, <1>9, <1>10, <1>11, ThreadMoves

\* All other threads and the answers are wiped; of those about to append the first
\* entry at most one is not.
LEMMA ClearKeepsStored ==
  ASSUME TypeInv, NEW t \in threads, Clear(t)
  PROVE  StoredInv'
<1>1. PICK u : /\ u.pc = "first entry" /\ WipeOthers(t, u)
               /\ u.wiped <=> \E v \in threads : v.pc = "first entry"
  BY ClearEffect
<1>2. mem'.log_idx = -1 /\ t.pc = "clear"
  BY ClearEffect
<1>3. ASSUME NEW w \in threads', w # u
      PROVE  w.wiped /\ \E v \in threads : w.pc = v.pc
  <2>1. PICK v \in threads : w = [v EXCEPT !.wiped = TRUE]
    BY <1>1, <1>3 DEF WipeOthers
  <2>2. ThreadOK(v)
    BY DEF TypeInv, HandlersInv
  <2>3. w.wiped
    BY <2>1, <2>2 DEF ThreadOK
  <2>4. w.pc = v.pc
    BY <2>1
  <2> QED
    BY <2>3, <2>4
<1>4. ASSUME NEW w \in threads', ~w.wiped PROVE Found(w)'
  <2>1. w = u
    BY <1>3, <1>4
  <2>2. \A v \in threads : v.pc # "first entry"
    BY <1>1, <1>4, <2>1
  <2>3. \A x \in threads' : x.pc = "first entry" => x = w
    BY <1>3, <2>1, <2>2
  <2> QED
    BY <1>1, <1>2, <2>1, <2>3 DEF Found
<1>5. \A a \in answers' : a.wiped
  <2>1. ASSUME NEW a \in answers PROVE [a EXCEPT !.wiped = TRUE].wiped
    <3>1. AnswerOK(a)
      BY DEF TypeInv, HandlersInv, FromSetup
    <3> QED
      BY <3>1, WipedOK
  <2> QED
    BY <1>1, <2>1 DEF WipeOthers
<1> QED
  BY <1>4, <1>5 DEF StoredInv, Acknowledged

LEMMA CrashKeepsStored ==
  ASSUME TypeInv, Crash
  PROVE  StoredInv'
<1>1. \A a \in answers' : a.wiped
  <2>1. ASSUME NEW a \in answers PROVE [a EXCEPT !.wiped = TRUE].wiped
    <3>1. AnswerOK(a)
      BY DEF TypeInv, HandlersInv, FromSetup
    <3> QED
      BY <3>1, WipedOK
  <2> QED
    BY <2>1 DEF Crash
<1>2. threads' = {}
  BY DEF Crash
<1> QED
  BY <1>1, <1>2 DEF StoredInv, Acknowledged

LEMMA BeginsKeepStored ==
  ASSUME TypeInv, TypeInv', StoredInv,
         NEW c \in calls, GetTerm(c) \/ TimeOut(c) \/ GetReply(c) \/ GetRedirect(c)
  PROVE  StoredInv'
<1>1. PICK pc : /\ Begins(c, pc)
                /\ pc \in {"vote", "heartbeat", "append", "run", "count", "learn term",
                           "redirected"}
  BY BeginsEffect
<1>2. Looks
  BY BeginsEffect
<1>3. SameLog /\ answers' = answers
  BY <1>2 DEF Looks, storeVars, SameLog
<1>4. PICK s \in Setups : FromSetup(s)
  BY CallsOfSetup
<1>5. LogKept(s) /\ mem'.log_idx = mem.log_idx
  BY <1>3, SameLogKept DEF SameLog
<1>6. PICK u : u = Thread(c, pc)
  OBVIOUS
<1>7. u.pc = pc
  BY <1>6 DEF Thread
<1>8. PICK come : come = {u}
  OBVIOUS
<1>9. threads' \subseteq (threads \ {}) \cup come
  BY <1>1, <1>6, <1>8 DEF Begins
<1>10. \A w \in come : Found(w)' /\ w.pc # "first entry"
  BY <1>1, <1>7, <1>8, FoundNothing
<1> QED
  BY <1>3, <1>4, <1>5, <1>9, <1>10, StoredStep

LEMMA UnmovedThreadsKeepStored ==
  ASSUME TypeInv, TypeInv', StoredInv, SameLog, UNCHANGED <<threads, answers>>
  PROVE  StoredInv'
  BY DEF StoredInv, Found, IsStored, Held, SameLog, Acknowledged

LEMMA StoredPreserved ==
  ASSUME TypeInv, TypeInv', StoredInv, [Next]_vars
  PROVE  StoredInv'
<1>1. CASE UNCHANGED vars
  BY <1>1, UnmovedThreadsKeepStored DEF vars, storeVars, nodeVars, SameLog
<1>2. CASE \E c \in calls : GetTerm(c) \/ TimeOut(c) \/ GetReply(c) \/ GetRedirect(c)
  BY <1>2, BeginsKeepStored
<1>3. ASSUME NEW t \in threads, ThreadStep(t) PROVE StoredInv'
  <2>1. CASE FlagsSet(t)
    BY <2>1, FlagsSetKeepsStored
  <2>2. CASE ReadSteps(t) \/ ElectionSteps(t) \/ CountSteps(t)
    BY <2>2, OtherStepsKeepStored
  <2>3. CASE CompareSteps(t)
    BY <2>3, CompareStepsKeepStored
  <2>4. CASE LogSteps(t)
    BY <2>4, FirstEntryKeepsStored, InsertKeepsStored, CommitUpToKeepsStored DEF LogSteps
  <2>5. CASE Clear(t)
    BY <2>5, ClearKeepsStored
  <2> QED
    BY <1>3, <2>1, <2>2, <2>3, <2>4, <2>5, ThreadSteps
<1>4. CASE LogThreads
  <2>1. SameLog /\ UNCHANGED nodeVars
    BY <1>4, LogThreadsEffect
  <2>2. UNCHANGED <<threads, answers>>
    BY <2>1 DEF nodeVars
  <2> QED
    BY <2>1, <2>2, UnmovedThreadsKeepStored
<1>5. CASE Crash
  BY <1>5, CrashKeepsStored
<1> QED
  BY <1>1, <1>2, <1>3, <1>4, <1>5 DEF Next

\* A follower that has answered an AppendEntries OK holds its entry, or one of another
\* term's leader in its place, however its handlers overlap with one another and with
\* the apply thread, until a handler of another call, or a crash, clears the log.
THEOREM AnsweredOKIsStored == Spec => []AcknowledgedIsStored
<1>1. NodeInit => TypeInv /\ StoredInv
  BY InitTypes, InitKnowledge
<1>2. TypeInv /\ StoredInv /\ [Next]_vars => (TypeInv /\ StoredInv)'
  BY TypesPreserved, StoredPreserved
<1>3. StoredInv => AcknowledgedIsStored
  BY DEF StoredInv, IsStored, AcknowledgedIsStored
<1> QED
  BY <1>1, <1>2, <1>3, PTL DEF Spec
=============================================================================
