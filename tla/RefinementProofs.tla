-------------------------- MODULE RefinementProofs --------------------------
(***************************************************************************)
(* While one server leads, the servers of Replication are the one store of *)
(* AtomicStore.  Puts are the requests of the store, what the foremost     *)
(* server has applied is its history; a round of the apply thread there    *)
(* executes what is committed, and a handler answers what is applied.      *)
(***************************************************************************)
EXTENDS OneLeaderProofs, FiniteSetTheorems, SequenceTheorems

-----------------------------------------------------------------------------
(* The puts.                                                               *)

\* No two puts have one entry.
OnePutPerEntry == \A p, q \in puts : p.idx = q.idx /\ p.idx # -1 => p = q

\* What a step does to the puts: a new one with the next entry, or a repeated one
\* that is answered; one that goes on, and may be answered; one more acknowledgement.
PutBegins(L) ==
  \E cmd \in Command :
    /\ puts' = puts \cup {NewPut(L, cmd, log'[L].log_idx, "waiting")}
    /\ HandlePut(L, cmd)

PutRepeats(L) ==
  \E cmd \in Command :
    /\ puts' = puts \cup {NewPut(L, cmd, -1, "ok")}
    /\ AlreadyExecuted(L, cmd) /\ UNCHANGED log

PutProceeds(L) ==
  \E p \in puts, q \in Put :
    /\ puts' = (puts \ {p}) \cup {q}
    /\ q.idx = p.idx /\ q.cmd = p.cmd /\ p.pc # "ok"
    /\ q.pc = "ok" => p.idx \in Nat /\ is_applied(log[L], p.idx) /\ UNCHANGED log

PutIsCounted ==
  \E t \in threads :
    puts' = {IF t \in ThreadsOf(p) THEN [p EXCEPT !.acks = @ \cup {t.to}] ELSE p : p \in puts}

LEMMA PutsStep ==
  ASSUME TypeInv, NEW L \in Server, Leads(L), [Next]_vars
  PROVE  \/ UNCHANGED puts \/ PutBegins(L) \/ PutRepeats(L)
         \/ PutProceeds(L) \/ PutIsCounted
<1>1. \A p \in puts : p \in Put /\ p.server = L /\ PutInv(p)
  BY DEF TypeInv, HandlersInv, PutInv, Leads
<1>2. todo \subseteq Command
  BY DEF TypeInv, TypeOK, HandlersOK
<1>3. ASSUME NEW s \in Server, NEW cmd \in todo, HandlePut(s, cmd)
      PROVE  PutBegins(L)
  <2>1. s = L
    BY <1>3 DEF HandlePut, Leads
  <2> QED
    BY <1>2, <1>3, <2>1 DEF HandlePut, PutBegins
<1>4. ASSUME NEW s \in Server, NEW cmd \in todo, RepeatPut(s, cmd)
      PROVE  PutRepeats(L)
  <2>1. s = L
    BY <1>4 DEF RepeatPut, Leads
  <2> QED
    BY <1>2, <1>4, <2>1 DEF RepeatPut, PutRepeats
<1>5. ASSUME NEW p \in puts, HandlerGoesOn(p) \/ ConnectionBreaks(p)
      PROVE  PutProceeds(L)
  <2>1. p \in Put /\ p.server = L /\ (Pending(p) => p.idx \in Nat)
    BY <1>1 DEF PutInv
  <2>2. ASSUME Pending(p), NEW pc \in {"applying", "rejected", "error"}, Becomes(p, pc)
        PROVE  PutProceeds(L)
    <3>1. [p EXCEPT !.pc = pc] \in Put /\ [p EXCEPT !.pc = pc].pc = pc
          /\ [p EXCEPT !.pc = pc].idx = p.idx /\ [p EXCEPT !.pc = pc].cmd = p.cmd
      BY <2>1 DEF Put
    <3>2. pc # "ok" /\ p.pc # "ok"
      BY <2>2 DEF Pending
    <3> QED
      BY <2>2, <3>1, <3>2 DEF PutProceeds, Becomes
  <2>3. CASE AnswerOk(p)
    <3>1. [p EXCEPT !.pc = "ok"] \in Put
          /\ [p EXCEPT !.pc = "ok"].idx = p.idx /\ [p EXCEPT !.pc = "ok"].cmd = p.cmd
      BY <2>1 DEF Put
    <3>2. p.pc # "ok" /\ p.idx \in Nat
      BY <2>1, <2>3 DEF AnswerOk, Pending
    <3> QED
      BY <2>1, <2>3, <3>1, <3>2 DEF PutProceeds, AnswerOk, Becomes
  <2>4. CASE ConnectionBreaks(p)
    <3>1. [p EXCEPT !.awaited = FALSE] \in Put
          /\ [p EXCEPT !.awaited = FALSE].idx = p.idx /\ [p EXCEPT !.awaited = FALSE].cmd = p.cmd
          /\ [p EXCEPT !.awaited = FALSE].pc = p.pc
      BY <2>1 DEF Put
    <3>2. p.pc # "ok"
      BY <2>4 DEF ConnectionBreaks, Pending
    <3> QED
      BY <2>4, <3>1, <3>2 DEF PutProceeds, ConnectionBreaks
  <2>5. CASE Commit(p) \/ FindNoFlag(p) \/ AnswerRedirect(p)
    <3>1. Pending(p)
      BY <2>5 DEF Commit, FindNoFlag, AnswerRedirect, Broadcast, Pending
    <3>2. \E pc \in {"applying", "rejected", "error"} : Becomes(p, pc)
      BY <2>5 DEF Commit, FindNoFlag, AnswerRedirect
    <3> QED
      BY <2>2, <3>1, <3>2
  <2> QED
    BY <1>5, <2>3, <2>4, <2>5 DEF HandlerGoesOn
<1>6. ASSUME NEW t \in threads, Acknowledged(t) PROVE PutIsCounted
  BY <1>6 DEF Acknowledged, PutIsCounted
<1>7. \/ UNCHANGED puts
      \/ \E s \in Server, cmd \in todo : HandlePut(s, cmd) \/ RepeatPut(s, cmd)
      \/ \E q \in puts : HandlerGoesOn(q) \/ ConnectionBreaks(q)
      \/ \E t \in threads : Acknowledged(t)
  BY ZenonT(60) DEF Next, vars, Apply, broadcastEntry, FirstCall, StepBack, StepForward,
     LearnLaterTerm, NotAcknowledged, CallFails, AppendEntries, RefuseOutdated,
     StartAnew, InsertEntry, RejectMismatch, Reply, Campaign, Vote, RefuseVote,
     Heartbeat, RevertToFollower
<1> QED
  BY <1>3, <1>4, <1>5, <1>6, <1>7

LEMMA PutsStayApart ==
  ASSUME TypeInv, NEW L \in Server, Leads(L), ReplicasMatch(L), OnePutPerEntry, [Next]_vars
  PROVE  OnePutPerEntry'
<1>1. \A p \in puts : p \in Put /\ (p.idx # -1 => p.idx <= log[L].log_idx)
  BY DEF TypeInv, TypeOK, HandlersOK, ReplicasMatch, PutMatches
<1>2. CASE UNCHANGED puts
  BY <1>2 DEF OnePutPerEntry
<1>3. CASE PutBegins(L)
  <2>1. PICK cmd \in Command :
          /\ puts' = puts \cup {NewPut(L, cmd, log'[L].log_idx, "waiting")}
          /\ HandlePut(L, cmd)
    BY <1>3 DEF PutBegins
  <2>2. LogOK(log[L]) /\ DOMAIN log = Server /\ term[L] \in Nat
    BY DEF TypeInv, TypeOK, LogsOK, ServersOK
  <2>3. log'[L] = append(log[L], term[L], cmd)
    BY <2>1, <2>2 DEF HandlePut
  <2>4. log'[L].log_idx = log[L].log_idx + 1 /\ log[L].log_idx \in Int
    BY <2>2, <2>3, AppendOK DEF LogOK
  <2>5. \A p \in puts : p.idx # -1 => p.idx # log'[L].log_idx
    BY <1>1, <2>4 DEF Put
  <2>6. NewPut(L, cmd, log'[L].log_idx, "waiting").idx = log'[L].log_idx
    BY DEF NewPut
  <2> QED
    BY <2>1, <2>5, <2>6 DEF OnePutPerEntry
<1>4. CASE PutRepeats(L)
  BY <1>4 DEF PutRepeats, OnePutPerEntry, NewPut
<1>5. CASE PutProceeds(L)
  <2>1. PICK p \in puts, q \in Put : puts' = (puts \ {p}) \cup {q} /\ q.idx = p.idx
    BY <1>5 DEF PutProceeds
  <2> QED
    BY <2>1 DEF OnePutPerEntry
<1>6. CASE PutIsCounted
  <2>1. PICK t \in threads :
          puts' = {IF t \in ThreadsOf(p) THEN [p EXCEPT !.acks = @ \cup {t.to}] ELSE p :
                     p \in puts}
    BY <1>6 DEF PutIsCounted
  <2>2. \A p \in puts : [p EXCEPT !.acks = @ \cup {t.to}].idx = p.idx
    BY <1>1 DEF Put
  <2>3. ASSUME NEW p \in puts', NEW q \in puts', p.idx = q.idx, p.idx # -1 PROVE p = q
    <3>1. PICK x \in puts : p = IF t \in ThreadsOf(x) THEN [x EXCEPT !.acks = @ \cup {t.to}] ELSE x
      BY <2>1
    <3>2. PICK y \in puts : q = IF t \in ThreadsOf(y) THEN [y EXCEPT !.acks = @ \cup {t.to}] ELSE y
      BY <2>1
    <3>3. x.idx = p.idx /\ y.idx = q.idx
      BY <2>2, <3>1, <3>2
    <3>4. x = y
      BY <2>3, <3>3 DEF OnePutPerEntry
    <3> QED
      BY <3>1, <3>2, <3>4
  <2> QED
    BY <2>3 DEF OnePutPerEntry
<1> QED
  BY <1>2, <1>3, <1>4, <1>5, <1>6, PutsStep

-----------------------------------------------------------------------------
(* The state of the atomic store.                                          *)

\* The first n + 1 commands of a log.
History(a, n) == [k \in 1..n + 1 |-> a.entries[k - 1].cmd]

\* The indexes at which a log holds a command.
IndexesOf(a, c) == {k \in 0..a.log_idx : a.entries[k].cmd = c}

LEMMA HistoryIsSequence ==
  ASSUME NEW a, LogOK(a), NEW n \in Int, -1 <= n, n <= a.log_idx
  PROVE  /\ History(a, n) \in Seq(Command)
         /\ Len(History(a, n)) = n + 1
         /\ DOMAIN History(a, n) = 1..n + 1
<1>1. /\ a.log_idx \in Int /\ a.entries \in [0..a.log_idx -> Entry]
  BY DEF LogOK
<1>2. \A k \in 1..n + 1 : a.entries[k - 1].cmd \in Command
  BY <1>1 DEF Entry
<1>3. n + 1 \in Nat
  OBVIOUS
<1>4. History(a, n) \in [1..n + 1 -> Command]
  BY <1>2 DEF History
<1>5. History(a, n) \in Seq(Command)
  BY <1>3, <1>4, SeqDef
<1>6. DOMAIN History(a, n) = 1..n + 1
  BY DEF History
<1>7. /\ Len(History(a, n)) \in Nat
      /\ DOMAIN History(a, n) = 1..Len(History(a, n))
  BY <1>5, LenProperties
<1>8. Len(History(a, n)) = n + 1
  BY <1>3, <1>6, <1>7
<1> QED
  BY <1>5, <1>6, <1>8

\* Two logs with the same commands have one history.
LEMMA SameHistory ==
  ASSUME NEW a, NEW b, NEW n \in Int, SameUpTo(a, b, n)
  PROVE  History(a, n) = History(b, n)
<1>1. \A k \in 1..n + 1 : k - 1 \in 0..n
  OBVIOUS
<1>2. \A k \in 1..n + 1 : a.entries[k - 1].cmd = b.entries[k - 1].cmd
  BY <1>1 DEF SameUpTo
<1> QED
  BY <1>2 DEF History

\* A history grows at its end.
LEMMA HistoryGrows ==
  ASSUME NEW a, NEW b, LogOK(a), LogOK(b), NEW n \in Int, NEW m \in Int, -1 <= n, n <= m,
         n <= a.log_idx, m <= b.log_idx, SameUpTo(a, b, n)
  PROVE  SubSeq(History(b, m), 1, Len(History(a, n))) = History(a, n)
<1> DEFINE g == History(a, n)
           h == History(b, m)
           s == SubSeq(h, 1, n + 1)
<1>1. /\ g \in Seq(Command) /\ Len(g) = n + 1
      /\ h \in Seq(Command) /\ Len(h) = m + 1
  BY HistoryIsSequence
<1>2. \A k \in 1..n + 1 : g[k] = a.entries[k - 1].cmd /\ h[k] = b.entries[k - 1].cmd
  BY DEF History
<1>3. \A k \in 1..n + 1 : k - 1 \in 0..n
  OBVIOUS
<1>4. \A k \in 1..n + 1 : g[k] = h[k]
  BY <1>2, <1>3 DEF SameUpTo
<1> HIDE DEF g, h
<1>5. 1 \in Int /\ n + 1 \in Int /\ n + 1 <= Len(h)
  BY <1>1
<1>6. /\ s \in Seq(Command)
      /\ Len(s) = n + 1
      /\ \A k \in 1..n + 1 : s[k] = h[k]
  BY <1>1, <1>5
<1> HIDE DEF s
<1>7. s = g
  BY <1>1, <1>4, <1>6, SeqEqual
<1> QED
  BY <1>1, <1>7 DEF s, g, h

\* The store is what the history makes of it.
LEMMA StoreOfHistory ==
  ASSUME NEW l, LogOK(l), ShowsApplied(l)
  PROVE  l.db = Atomic!Replay(History(l, l.last_applied_idx))
<1> DEFINE n == l.last_applied_idx
           h == History(l, n)
           OfKey(k) == {i \in DOMAIN h : h[i].key = k}
<1>1. /\ l.db \in [Key -> Command \cup {NoCommand}] /\ n \in Int
  BY DEF LogOK
<1>2. DOMAIN h = 1..n + 1 /\ \A i \in 1..n + 1 : h[i] = l.entries[i - 1].cmd
  BY DEF History
<1> HIDE DEF h, n
<1>3. ASSUME NEW k \in Key
      PROVE  l.db[k] = IF OfKey(k) = {} THEN NoCommand
                       ELSE h[CHOOSE i \in OfKey(k) : \A j \in OfKey(k) : j <= i]
  <2>1. ASSUME NEW i \in 0..n, l.entries[i].cmd.key = k, l.db[k] = l.entries[i].cmd,
               \A j \in i + 1..n : l.entries[j].cmd.key # k
        PROVE  l.db[k] = IF OfKey(k) = {} THEN NoCommand
                         ELSE h[CHOOSE x \in OfKey(k) : \A j \in OfKey(k) : j <= x]
    <3>1. i + 1 \in 1..n + 1 /\ (i + 1) - 1 = i
      BY <1>1, <2>1
    <3>2. i + 1 \in OfKey(k)
      BY <1>2, <2>1, <3>1
    <3>3. ASSUME NEW j \in OfKey(k) PROVE j <= i + 1
      <4>1. j \in 1..n + 1 /\ l.entries[j - 1].cmd.key = k
        BY <1>2
      <4>2. j - 1 \notin i + 1..n
        BY <2>1, <4>1
      <4> QED
        BY <1>1, <2>1, <4>1, <4>2
    <3>4. OfKey(k) \subseteq Int
      BY <1>1, <1>2
    <3>5. (CHOOSE x \in OfKey(k) : \A j \in OfKey(k) : j <= x) = i + 1
      <4> HIDE DEF OfKey
      <4> DEFINE x == CHOOSE x \in OfKey(k) : \A j \in OfKey(k) : j <= x
      <4>1. x \in OfKey(k) /\ \A j \in OfKey(k) : j <= x
        BY <3>2, <3>3
      <4> HIDE DEF x
      <4>2. x = i + 1
        BY <3>2, <3>3, <3>4, <4>1
      <4> QED
        BY <4>2 DEF x
    <3>6. h[i + 1] = l.db[k]
      BY <1>2, <2>1, <3>1
    <3> QED
      BY <3>2, <3>5, <3>6
  <2>2. ASSUME \A i \in 0..n : l.entries[i].cmd.key # k, l.db[k] = NoCommand
        PROVE  OfKey(k) = {}
    <3>1. \A i \in 1..n + 1 : i - 1 \in 0..n
      BY <1>1
    <3> QED
      BY <1>2, <2>2, <3>1
  <2> QED
    BY <2>1, <2>2 DEF ShowsApplied, n
<1>4. l.db = [k \in Key |-> IF OfKey(k) = {} THEN NoCommand
                       ELSE h[CHOOSE i \in OfKey(k) : \A j \in OfKey(k) : j <= i]]
  <2> HIDE DEF OfKey
  <2> QED
    BY <1>1, <1>3
<1> QED
  BY <1>4 DEF Atomic!Replay, Key, h, n

\* A put is in the history at most as often as in the log, and at least once if it is
\* applied.
LEMMA ExecutionsOfHistory ==
  ASSUME NEW a, LogOK(a), NEW n \in Int, -1 <= n, n <= a.log_idx, NEW c
  PROVE  /\ IsFiniteSet(IndexesOf(a, c)) /\ Cardinality(IndexesOf(a, c)) \in Nat
         /\ Atomic!Executions(History(a, n), c) <= Cardinality(IndexesOf(a, c))
         /\ (\E k \in 0..n : a.entries[k].cmd = c) => Atomic!Executions(History(a, n), c) > 0
<1> DEFINE h == History(a, n)
           E == {i \in DOMAIN h : h[i] = c}
           f == [i \in E |-> i - 1]
<1>1. a.log_idx \in Int
  BY DEF LogOK
<1>2. DOMAIN h = 1..n + 1 /\ \A i \in 1..n + 1 : h[i] = a.entries[i - 1].cmd
  BY DEF History
<1> HIDE DEF h
<1>3. IsFiniteSet(0..a.log_idx)
  BY <1>1, FS_Interval
<1>4. IsFiniteSet(IndexesOf(a, c)) /\ Cardinality(IndexesOf(a, c)) \in Nat
  <2>1. IndexesOf(a, c) \in SUBSET (0..a.log_idx)
    BY DEF IndexesOf
  <2> QED
    BY <1>3, <2>1, FS_Subset, FS_CardinalityType
<1>5. \A i \in E : i \in 1..n + 1 /\ i - 1 \in IndexesOf(a, c)
  BY <1>1, <1>2 DEF IndexesOf
<1>6. f \in Injection(E, IndexesOf(a, c))
  <2>1. \A i, j \in E : i - 1 = j - 1 => i = j
    BY <1>5
  <2>2. f \in [E -> IndexesOf(a, c)]
    BY <1>5
  <2>3. \A i, j \in E : f[i] = f[j] => i = j
    BY <2>1
  <2> HIDE DEF E, f
  <2> QED
    BY <2>2, <2>3 DEF Injection, IsInjective
<1>7. IsFiniteSet(E) /\ Cardinality(E) <= Cardinality(IndexesOf(a, c))
  <2> HIDE DEF E, f
  <2> QED
    BY <1>4, <1>6, FS_Injection
<1>8. ASSUME NEW k \in 0..n, a.entries[k].cmd = c PROVE Cardinality(E) > 0
  <2>1. k + 1 \in 1..n + 1 /\ (k + 1) - 1 = k
    OBVIOUS
  <2>2. k + 1 \in E
    BY <1>2, <1>8, <2>1
  <2> HIDE DEF E
  <2>3. Cardinality(E) # 0 /\ Cardinality(E) \in Nat
    BY <1>7, <2>2, FS_EmptySet, FS_CardinalityType
  <2> QED
    BY <2>3
<1>9. Atomic!Executions(h, c) = Cardinality(E)
  BY DEF Atomic!Executions, Atomic!Cardinality, Cardinality, Atomic!IsFiniteSet, IsFiniteSet
<1> QED
  BY <1>4, <1>7, <1>8, <1>9 DEF h

\* Every entry of the leader's log is that of one put or of none.
LEMMA TriesAreEntries ==
  ASSUME NEW a, LogOK(a), NEW ps, NEW c,
         \A p \in ps : p.idx # -1 => p.idx \in 0..a.log_idx /\ a.entries[p.idx].cmd = p.cmd,
         \A p, q \in ps : p.idx = q.idx /\ p.idx # -1 => p = q
  PROVE  Cardinality({p \in ps : p.cmd = c /\ p.idx # -1})
           + Cardinality({k \in 0..a.log_idx :
                            a.entries[k].cmd = c /\ ~\E p \in ps : p.idx = k})
           = Cardinality(IndexesOf(a, c))
<1> DEFINE P == {p \in ps : p.cmd = c /\ p.idx # -1}
           Q == {k \in 0..a.log_idx : a.entries[k].cmd = c /\ ~\E p \in ps : p.idx = k}
           D == {k \in 0..a.log_idx : a.entries[k].cmd = c /\ \E p \in ps : p.idx = k}
           f == [p \in P |-> p.idx]
<1>1. IsFiniteSet(D) /\ IsFiniteSet(Q)
  <2>1. IsFiniteSet(0..a.log_idx)
    <3>1. 0 \in Int /\ a.log_idx \in Int
      BY DEF LogOK
    <3> QED
      BY <3>1, FS_Interval
  <2>2. D \in SUBSET (0..a.log_idx) /\ Q \in SUBSET (0..a.log_idx)
    OBVIOUS
  <2> HIDE DEF D, Q
  <2> QED
    BY <2>1, <2>2, FS_Subset
<1>2. f \in Surjection(P, D) /\ f \in Injection(P, D)
  <2>1. f \in [P -> D]
    OBVIOUS
  <2>2. \A p, q \in P : f[p] = f[q] => p = q
    OBVIOUS
  <2>3. \A k \in D : \E p \in P : f[p] = k
    <3> SUFFICES ASSUME NEW k \in D PROVE \E p \in P : f[p] = k
      OBVIOUS
    <3>1. PICK p \in ps : p.idx = k
      OBVIOUS
    <3>2. p.idx # -1
      BY <3>1
    <3>3. p \in P
      BY <3>1, <3>2
    <3> QED
      BY <3>1, <3>3
  <2> HIDE DEF P, D, f
  <2> QED
    BY <2>1, <2>2, <2>3 DEF Injection, Surjection, IsInjective
<1>3. Cardinality(P) = Cardinality(D)
  <2> HIDE DEF P, D, f
  <2> QED
    BY <1>1, <1>2, FS_Injection
<1>4. D \cup Q = IndexesOf(a, c) /\ D \cap Q = {}
  BY DEF IndexesOf
<1>5. Cardinality(D \cup Q) = Cardinality(D) + Cardinality(Q)
  <2> HIDE DEF D, Q
  <2>1. Cardinality(D) \in Nat /\ Cardinality(Q) \in Nat /\ Cardinality({}) = 0
    BY <1>1, FS_CardinalityType, FS_EmptySet
  <2>2. Cardinality(D \cup Q) = Cardinality(D) + Cardinality(Q) - Cardinality(D \cap Q)
    BY <1>1, FS_Union
  <2>3. Cardinality(D \cap Q) = 0
    BY <1>4, <2>1
  <2> QED
    BY <2>1, <2>2, <2>3
<1> QED
  BY <1>3, <1>4, <1>5

LEMMA LeaderIs ==
  ASSUME NEW st, NEW L \in Server,
         \A i \in Server : st[i] = IF i = L THEN "LEADER" ELSE "FOLLOWER"
  PROVE  (CHOOSE s \in Server : st[s] = "LEADER") = L
<1>1. \A s \in Server : st[s] = "LEADER" <=> s = L
  OBVIOUS
<1> QED
  BY <1>1

\* Whichever server has applied most shows the leader's entries and what they make.
LEMMA ForemostShows ==
  ASSUME NEW logs, NEW L \in Server, NEW a, LogOK(a),
         \A i \in Server : /\ LogOK(logs[i]) /\ ShowsApplied(logs[i])
                           /\ logs[i].last_applied_idx <= a.log_idx
                           /\ SameUpTo(a, logs[i], logs[i].last_applied_idx),
         NEW F, F = CHOOSE s \in Server :
           \A i \in Server : logs[i].last_applied_idx <= logs[s].last_applied_idx
  PROVE  /\ F \in Server
         /\ \A i \in Server : logs[i].last_applied_idx <= logs[F].last_applied_idx
         /\ logs[F].last_applied_idx \in Int /\ -1 <= logs[F].last_applied_idx
         /\ Applied(logs[F]) = History(a, logs[F].last_applied_idx)
         /\ logs[F].db = Atomic!Replay(History(a, logs[F].last_applied_idx))
<1> DEFINE S == {logs[i].last_applied_idx : i \in Server}
<1>1. \A i \in Server : logs[i].last_applied_idx \in Int /\ -1 <= logs[i].last_applied_idx
  BY DEF LogOK, WellFormed
<1>2. PICK x \in S : \A y \in S : y <= x
  <2>1. S \in SUBSET Int /\ S # {} /\ a.log_idx \in Int /\ \A y \in S : y <= a.log_idx
    BY <1>1 DEF LogOK
  <2> HIDE DEF S
  <2> QED
    BY <2>1, GreatestInteger
<1>3. PICK s \in Server : x = logs[s].last_applied_idx
  OBVIOUS
<1>4. \A i \in Server : logs[i].last_applied_idx <= logs[s].last_applied_idx
  BY <1>2, <1>3
<1>5. /\ F \in Server
      /\ \A i \in Server : logs[i].last_applied_idx <= logs[F].last_applied_idx
  BY <1>4
<1>6. Applied(logs[F]) = History(logs[F], logs[F].last_applied_idx)
  BY DEF Applied, History
<1>7. History(a, logs[F].last_applied_idx) = History(logs[F], logs[F].last_applied_idx)
  BY <1>1, <1>5, SameHistory
<1>8. logs[F].db = Atomic!Replay(History(logs[F], logs[F].last_applied_idx))
  BY <1>5, StoreOfHistory
<1> QED
  BY <1>1, <1>5, <1>6, <1>7, <1>8

-----------------------------------------------------------------------------
(* Steps.                                                                  *)

Answered == {p.cmd : p \in {q \in puts : q.pc = "ok"}}

\* A put is answered when it is applied.
LEMMA AnsweredStep ==
  ASSUME TypeInv, NEW L \in Server, Leads(L), ReplicasMatch(L), KnowsApplied(log[L]),
         [Next]_vars
  PROVE  \/ Answered' = Answered
         \/ \E c \in Command :
              /\ Answered' = Answered \cup {c} /\ UNCHANGED log
              /\ \E k \in 0..log[L].last_applied_idx : log[L].entries[k].cmd = c
<1>1. \A p \in puts : p \in Put
  BY DEF TypeInv, TypeOK, HandlersOK
<1>2. CASE UNCHANGED puts
  BY <1>2 DEF Answered
<1>3. CASE PutBegins(L)
  <2>1. PICK cmd : puts' = puts \cup {NewPut(L, cmd, log'[L].log_idx, "waiting")}
    BY <1>3 DEF PutBegins
  <2>2. NewPut(L, cmd, log'[L].log_idx, "waiting").pc # "ok"
    BY DEF NewPut
  <2>3. {q \in puts' : q.pc = "ok"} = {q \in puts : q.pc = "ok"}
    BY <2>1, <2>2
  <2> QED
    BY <2>3 DEF Answered
<1>4. CASE PutRepeats(L)
  <2>1. PICK cmd \in Command :
          /\ puts' = puts \cup {NewPut(L, cmd, -1, "ok")}
          /\ AlreadyExecuted(L, cmd) /\ UNCHANGED log
    BY <1>4 DEF PutRepeats
  <2>2. /\ NewPut(L, cmd, -1, "ok").pc = "ok"
        /\ NewPut(L, cmd, -1, "ok").cmd = cmd
    BY DEF NewPut
  <2>3. {q \in puts' : q.pc = "ok"} =
          {q \in puts : q.pc = "ok"} \cup {NewPut(L, cmd, -1, "ok")}
    BY <2>1, <2>2
  <2>4. Answered' = Answered \cup {cmd}
    BY <2>2, <2>3 DEF Answered
  <2>5. /\ cmd.client \in Client /\ cmd.seq \in Nat
        /\ log[L].last_applied_command_per_client[cmd.client] = cmd.seq
    BY <2>1, CommandAssumption DEF AlreadyExecuted, get_last_committed_sequence_for, Client
  <2>6. PICK k \in 0..log[L].last_applied_idx :
          /\ log[L].entries[k].cmd.client = cmd.client
          /\ log[L].entries[k].cmd.seq = cmd.seq
    BY <2>5 DEF KnowsApplied
  <2>7. log[L].entries[k].cmd \in Command
    <3>1. LogOK(log[L])
      BY DEF TypeInv, TypeOK, LogsOK
    <3>2. k \in 0..log[L].log_idx /\ log[L].entries \in [0..log[L].log_idx -> Entry]
      BY <3>1 DEF LogOK, WellFormed
    <3> QED
      BY <3>2 DEF Entry
  <2>8. log[L].entries[k].cmd = cmd
    BY <2>6, <2>7, RequestAssumption
  <2> QED
    BY <2>1, <2>4, <2>6, <2>8
<1>5. CASE PutProceeds(L)
  <2>1. PICK p \in puts, q \in Put :
          /\ puts' = (puts \ {p}) \cup {q}
          /\ q.idx = p.idx /\ q.cmd = p.cmd /\ p.pc # "ok"
          /\ q.pc = "ok" => p.idx \in Nat /\ is_applied(log[L], p.idx) /\ UNCHANGED log
    BY <1>5 DEF PutProceeds
  <2>2. CASE q.pc # "ok"
    <3>1. {x \in puts' : x.pc = "ok"} = {x \in puts : x.pc = "ok"}
      BY <2>1, <2>2
    <3> QED
      BY <3>1 DEF Answered
  <2>3. CASE q.pc = "ok"
    <3>1. {x \in puts' : x.pc = "ok"} = {x \in puts : x.pc = "ok"} \cup {q}
      BY <2>1, <2>3
    <3>2. Answered' = Answered \cup {p.cmd}
      BY <2>1, <3>1 DEF Answered
    <3>3. p.cmd \in Command
      BY <1>1 DEF Put
    <3>4. p.idx \in 0..log[L].last_applied_idx /\ log[L].entries[p.idx].cmd = p.cmd
      <4>1. p.idx # -1 /\ p.idx <= log[L].last_applied_idx /\ p.idx \in Nat
        BY <2>1, <2>3 DEF is_applied
      <4>2. log[L].last_applied_idx \in Int
        BY DEF TypeInv, TypeOK, LogsOK, LogOK
      <4> QED
        BY <4>1, <4>2 DEF ReplicasMatch, PutMatches
    <3> QED
      BY <2>1, <2>3, <3>2, <3>3, <3>4
  <2> QED
    BY <2>2, <2>3
<1>6. CASE PutIsCounted
  <2>1. PICK t \in threads :
          puts' = {IF t \in ThreadsOf(p) THEN [p EXCEPT !.acks = @ \cup {t.to}] ELSE p :
                     p \in puts}
    BY <1>6 DEF PutIsCounted
  <2> DEFINE g(p) == IF t \in ThreadsOf(p) THEN [p EXCEPT !.acks = @ \cup {t.to}] ELSE p
  <2>2. \A p \in puts : g(p).cmd = p.cmd /\ g(p).pc = p.pc
    BY <1>1 DEF Put
  <2>3. puts' = {g(p) : p \in puts}
    BY <2>1
  <2> HIDE DEF g
  <2>4. Answered' = Answered
    BY <2>2, <2>3 DEF Answered
  <2> QED
    BY <2>4
<1> QED
  BY <1>2, <1>3, <1>4, <1>5, <1>6, PutsStep

\* A put makes the leader's log longer by its command, and leaves what is applied.
LEMMA PutRequests ==
  ASSUME TypeInv, NEW L \in Server, NEW cmd \in Command, HandlePut(L, cmd)
  PROVE  /\ IndexesOf(log'[L], cmd) = IndexesOf(log[L], cmd) \cup {log[L].log_idx + 1}
         /\ log[L].log_idx + 1 \notin IndexesOf(log[L], cmd)
         /\ \A c \in Command \ {cmd} : IndexesOf(log'[L], c) = IndexesOf(log[L], c)
         /\ \A i \in Server : log'[i].last_applied_idx = log[i].last_applied_idx
         /\ Answered' = Answered
<1> DEFINE l == log[L]
           m == append(l, term[L], cmd)
<1>1. LogOK(log[L]) /\ DOMAIN log = Server /\ term[L] \in Nat
  BY DEF TypeInv, TypeOK, LogsOK, ServersOK
<1>2. log' = [log EXCEPT ![L] = m]
  BY DEF HandlePut
<1>3. log'[L] = m /\ \A i \in Server : i # L => log'[i] = log[i]
  <2> HIDE DEF m
  <2> QED
    BY <1>1, <1>2
<1>4. l.log_idx \in Int /\ -1 <= l.log_idx
  BY <1>1 DEF LogOK, WellFormed
<1> HIDE DEF l
<1>5. /\ m.log_idx = l.log_idx + 1
      /\ m.last_applied_idx = l.last_applied_idx
      /\ m.entries[m.log_idx] = Uncommitted(term[L], cmd)
      /\ \A i \in 0..l.log_idx : m.entries[i] = l.entries[i]
  BY <1>1, AppendOK, SMTT(60) DEF l
<1> HIDE DEF m
<1>6. \A k \in 0..m.log_idx : k \in 0..l.log_idx \/ k = l.log_idx + 1
  BY <1>4, <1>5
<1>7. \A k \in 0..l.log_idx : k \in 0..m.log_idx /\ k # l.log_idx + 1
  BY <1>4, <1>5
<1>8. l.log_idx + 1 \in 0..m.log_idx /\ m.entries[l.log_idx + 1].cmd = cmd
  BY <1>4, <1>5 DEF Uncommitted
<1>9. \A k \in 0..l.log_idx : m.entries[k].cmd = l.entries[k].cmd
  BY <1>5
<1>10. /\ IndexesOf(m, cmd) = IndexesOf(l, cmd) \cup {l.log_idx + 1}
       /\ l.log_idx + 1 \notin IndexesOf(l, cmd)
  BY <1>6, <1>7, <1>8, <1>9 DEF IndexesOf
<1>11. ASSUME NEW c \in Command \ {cmd} PROVE IndexesOf(m, c) = IndexesOf(l, c)
  BY <1>6, <1>7, <1>8, <1>9 DEF IndexesOf
<1>12. \A i \in Server : log'[i].last_applied_idx = log[i].last_applied_idx
  BY <1>3, <1>5 DEF l
<1>13. Answered' = Answered
  <2>1. puts' = puts \cup {NewPut(L, cmd, log'[L].log_idx, "waiting")}
    BY DEF HandlePut
  <2>2. NewPut(L, cmd, log'[L].log_idx, "waiting").pc # "ok"
    BY DEF NewPut
  <2>3. {q \in puts' : q.pc = "ok"} = {q \in puts : q.pc = "ok"}
    BY <2>1, <2>2
  <2> QED
    BY <2>3 DEF Answered
<1> QED
  BY <1>3, <1>10, <1>11, <1>12, <1>13 DEF l

-----------------------------------------------------------------------------
(* The servers are one store.                                              *)

\* How much is applied anywhere.
Shown == log[Foremost].last_applied_idx

OneStoreInv == TypeInv /\ UnderOneLeader /\ OnePutPerEntry

\* The store that the servers show, from the leader's log.
StoreView ==
  /\ Leader \in Server /\ Foremost \in Server
  /\ Shown \in Int /\ -1 <= Shown /\ Shown <= log[Leader].log_idx
  /\ \A i \in Server : log[i].last_applied_idx <= Shown
  /\ \A c \in Command : Tries(c) = Cardinality(IndexesOf(log[Leader], c))
  /\ Applied(log[Foremost]) = History(log[Leader], Shown)
  /\ log[Foremost].db = Atomic!Replay(History(log[Leader], Shown))

LEMMA LeaderLeads ==
  ASSUME NEW L \in Server, Leads(L)
  PROVE  Leader = L
<1>1. \A i \in Server : status[i] = IF i = L THEN "LEADER" ELSE "FOLLOWER"
  BY DEF Leads
<1> QED
  BY <1>1, LeaderIs DEF Leader

LEMMA ViewOfStore == OneStoreInv => StoreView
<1> SUFFICES ASSUME OneStoreInv PROVE StoreView
  OBVIOUS
<1>1. PICK L \in Server : Leads(L) /\ ReplicasMatch(L) /\ DatabaseMatches(L)
  BY DEF OneStoreInv, UnderOneLeader
<1>2. Leader = L
  BY <1>1, LeaderLeads
<1>3. \A i \in Server : LogOK(log[i])
  BY DEF OneStoreInv, TypeInv, TypeOK, LogsOK
<1>4. ASSUME NEW i \in Server
      PROVE  /\ ShowsApplied(log[i])
             /\ log[i].last_applied_idx <= log[L].log_idx
             /\ SameUpTo(log[L], log[i], log[i].last_applied_idx)
  <2>1. /\ log[i].last_applied_idx \in Int /\ log[i].last_commit_idx \in Int
        /\ log[i].last_applied_idx <= log[i].last_commit_idx
    BY <1>3 DEF LogOK, WellFormed
  <2>2. AgreeUpTo(log[L], log[i], log[i].last_commit_idx)
    BY <1>1 DEF ReplicasMatch, LogsMatch, LogMatches
  <2>3. AgreeUpTo(log[L], log[i], log[i].last_applied_idx)
    BY <2>1, <2>2, AgreeLess
  <2> QED
    BY <1>1, <1>3, <2>1, <2>3, AgreeMeans DEF DatabaseMatches
<1>5. /\ Foremost \in Server
      /\ \A i \in Server : log[i].last_applied_idx <= log[Foremost].last_applied_idx
      /\ log[Foremost].last_applied_idx \in Int /\ -1 <= log[Foremost].last_applied_idx
      /\ Applied(log[Foremost]) = History(log[L], log[Foremost].last_applied_idx)
      /\ log[Foremost].db = Atomic!Replay(History(log[L], log[Foremost].last_applied_idx))
  BY <1>3, <1>4, ForemostShows DEF Foremost
<1>6. ASSUME NEW c \in Command PROVE Tries(c) = Cardinality(IndexesOf(log[L], c))
  <2>1. \A p \in puts : p.idx # -1 => p.idx \in 0..log[L].log_idx
                                      /\ log[L].entries[p.idx].cmd = p.cmd
    BY <1>1 DEF ReplicasMatch, PutMatches
  <2>2. \A p, q \in puts : p.idx = q.idx /\ p.idx # -1 => p = q
    BY DEF OneStoreInv, OnePutPerEntry
  <2> QED
    BY <1>2, <1>3, <2>1, <2>2, TriesAreEntries DEF Tries
<1> QED
  BY <1>2, <1>4, <1>5, <1>6 DEF StoreView, Shown

LEMMA InitRefines ==
  ASSUME OneStoreInv, Init
  PROVE  Atomic!Init
<1>1. StoreView
  BY ViewOfStore
<1> DEFINE a == log[Leader]
           h == History(a, Shown)
<1>2. LogOK(a)
  BY <1>1 DEF StoreView, OneStoreInv, TypeInv, TypeOK, LogsOK
<1>3. \A c : /\ Cardinality(IndexesOf(a, c)) \in Nat
             /\ Atomic!Executions(h, c) <= Cardinality(IndexesOf(a, c))
  BY <1>1, <1>2, ExecutionsOfHistory DEF StoreView
<1>4. h \in Seq(Command)
  BY <1>1, <1>2, HistoryIsSequence DEF StoreView
<1>5. \A c \in Command : Tries(c) \in Nat /\ Atomic!Executions(h, c) <= Tries(c)
  BY <1>1, <1>3 DEF StoreView
<1>6. Applied(log[Foremost]) = h /\ log[Foremost].db = Atomic!Replay(h)
  BY <1>1 DEF StoreView
<1>7. {p.cmd : p \in {q \in puts : q.pc = "ok"}} = {}
  BY DEF Init
<1> HIDE DEF h
<1> QED
  BY <1>4, <1>5, <1>6, <1>7 DEF Atomic!Init, Atomic!Justified

\* What is shown stays when nothing is applied, and otherwise grows at its end.
LEMMA ShownStep ==
  ASSUME OneStoreInv, OneStoreInv', \A i \in Server : Campaigns[i] = {}, [Next]_vars
  PROVE  /\ Leader' = Leader
         /\ Shown <= Shown'
         /\ (\A i \in Server : log'[i].last_applied_idx = log[i].last_applied_idx)
              => Shown' = Shown
         /\ log[Leader].log_idx <= log'[Leader].log_idx
         /\ SameUpTo(log[Leader], log'[Leader], log[Leader].log_idx)
<1>1. StoreView /\ StoreView'
  BY ViewOfStore, PTL
<1>2. PICK L \in Server : Leads(L) /\ ReplicasMatch(L) /\ DatabaseMatches(L)
  BY DEF OneStoreInv, UnderOneLeader
<1>3. TypeInv /\ TypeInv'
  BY DEF OneStoreInv
<1>4. Leader = L
  BY <1>2, LeaderLeads
<1>5. Leader' = L
  <2>1. Leads(L)'
    BY <1>2, <1>3, LeaderStays
  <2>2. \A i \in Server : status'[i] = IF i = L THEN "LEADER" ELSE "FOLLOWER"
    BY <2>1 DEF Leads
  <2> QED
    BY <2>2, LeaderIs DEF Leader
<1>6. Grows(L)
  BY <1>2, <1>3, LogsStep DEF ReplicasMatch
<1>7. \A i \in Server : /\ log[i].last_applied_idx \in Int
                        /\ log'[i].last_applied_idx \in Int
                        /\ log[i].last_applied_idx <= log'[i].last_applied_idx
  BY <1>2, <1>3, AppliedStays DEF TypeInv, TypeOK, LogsOK, LogOK
<1>8. /\ Foremost \in Server /\ Foremost' \in Server
      /\ Shown \in Int /\ Shown' \in Int
      /\ Shown = log[Foremost].last_applied_idx
      /\ Shown' = log'[Foremost'].last_applied_idx
      /\ \A i \in Server : log[i].last_applied_idx <= Shown
      /\ \A i \in Server : log'[i].last_applied_idx <= Shown'
  BY <1>1 DEF StoreView, Shown
<1>9. Shown <= Shown'
  BY <1>7, <1>8
<1>10. ASSUME \A i \in Server : log'[i].last_applied_idx = log[i].last_applied_idx
       PROVE  Shown' = Shown
  BY <1>7, <1>8, <1>9, <1>10
<1> QED
  BY <1>4, <1>5, <1>6, <1>9, <1>10 DEF Grows

LEMMA StepRefines ==
  ASSUME OneStoreInv, OneStoreInv', \A i \in Server : Campaigns[i] = {}, [Next]_vars
  PROVE  [Atomic!Next]_(Atomic!storeVars)
<1> DEFINE tries   == [c \in Command |-> Tries(c)]
           history == Applied(log[Foremost])
           store   == log[Foremost].db
<1>1. StoreView /\ StoreView'
  BY ViewOfStore, PTL
<1>2. PICK L \in Server : Leads(L) /\ ReplicasMatch(L) /\ DatabaseMatches(L)
  BY DEF OneStoreInv, UnderOneLeader
<1>3. TypeInv /\ TypeInv' /\ KnowsApplied(log[L])
  BY <1>2 DEF OneStoreInv, DatabaseMatches
<1>4. Leader = L /\ Leader' = L
  BY <1>2, LeaderLeads, ShownStep
<1> DEFINE n == Shown
           m == Shown'
           a == log[L]
           b == log'[L]
<1>5. LogOK(a) /\ LogOK(b) /\ a.log_idx \in Int
  BY <1>3 DEF TypeInv, TypeOK, LogsOK, LogOK
<1>6. /\ n \in Int /\ -1 <= n /\ n <= a.log_idx
      /\ m \in Int /\ -1 <= m /\ m <= b.log_idx /\ n <= m
      /\ a.log_idx <= b.log_idx
      /\ SameUpTo(a, b, a.log_idx)
      /\ (\A i \in Server : log'[i].last_applied_idx = log[i].last_applied_idx) => m = n
  BY <1>1, <1>4, ShownStep DEF StoreView
<1>7. /\ history = History(a, n) /\ history' = History(b, m)
      /\ store = Atomic!Replay(history) /\ store' = Atomic!Replay(history')
  BY <1>1, <1>4 DEF StoreView
<1>8. \A c \in Command : /\ Tries(c) = Cardinality(IndexesOf(a, c))
                         /\ Tries(c)' = Cardinality(IndexesOf(b, c))
  BY <1>1, <1>4 DEF StoreView
<1>9. SameUpTo(a, b, n)
  <2>1. \A k \in 0..n : k \in 0..a.log_idx
    BY <1>5, <1>6
  <2> HIDE DEF n, a, b
  <2> QED
    BY <1>6, <2>1 DEF SameUpTo
<1>10. m = n => history' = history /\ store' = store
  BY <1>6, <1>7, <1>9, SameHistory
<1> HIDE DEF n, m, history, store
<1>11. ASSUME NEW cmd \in Command, HandlePut(L, cmd)
       PROVE  Atomic!Request(cmd)
  <2>1. /\ IndexesOf(b, cmd) = IndexesOf(a, cmd) \cup {a.log_idx + 1}
        /\ a.log_idx + 1 \notin IndexesOf(a, cmd)
        /\ \A c \in Command \ {cmd} : IndexesOf(b, c) = IndexesOf(a, c)
        /\ \A i \in Server : log'[i].last_applied_idx = log[i].last_applied_idx
        /\ Answered' = Answered
    BY <1>3, <1>11, PutRequests
  <2>2. IsFiniteSet(IndexesOf(a, cmd))
    BY <1>5, <1>6, ExecutionsOfHistory
  <2>3. Cardinality(IndexesOf(b, cmd)) = Cardinality(IndexesOf(a, cmd)) + 1
    <3> DEFINE S == IndexesOf(a, cmd)
               k == a.log_idx + 1
    <3>1. IndexesOf(b, cmd) = S \cup {k} /\ k \notin S /\ IsFiniteSet(S)
      BY <2>1, <2>2
    <3> HIDE DEF S, k
    <3>2. Cardinality(S \cup {k}) = Cardinality(S) + 1
      BY <3>1, FS_AddElement
    <3> QED
      BY <3>1, <3>2 DEF S
  <2>4. Tries(cmd)' = Tries(cmd) + 1 /\ \A c \in Command \ {cmd} : Tries(c)' = Tries(c)
    <3>1. Tries(cmd)' = Tries(cmd) + 1
      BY <1>8, <2>3
    <3>2. \A c \in Command \ {cmd} : Tries(c)' = Tries(c)
      BY <1>8, <2>1
    <3> QED
      BY <3>1, <3>2
  <2>5. tries' = [tries EXCEPT ![cmd] = @ + 1]
    BY <2>4
  <2>6. history' = history /\ store' = store
    BY <1>6, <1>10, <2>1
  <2> QED
    BY <2>1, <2>5, <2>6 DEF Atomic!Request, Answered, history, store
<1>12. CASE b.log_idx = a.log_idx
  <2>1. \A c : IndexesOf(b, c) = IndexesOf(a, c)
    BY <1>5, <1>6, <1>12 DEF SameUpTo, IndexesOf
  <2>2. tries' = tries
    BY <1>8, <2>1
  <2>3. ASSUME UNCHANGED log, NEW c \in Command, Answered' = Answered \cup {c},
               \E k \in 0..a.last_applied_idx : a.entries[k].cmd = c
        PROVE  Atomic!Answer(c)
    <3>1. history' = history /\ store' = store
      BY <1>6, <1>10, <2>3
    <3>2. a.last_applied_idx \in Int /\ a.last_applied_idx <= n
      BY <1>1, <1>5 DEF StoreView, LogOK, n
    <3>3. \E k \in 0..n : a.entries[k].cmd = c
      BY <1>6, <2>3, <3>2
    <3>4. Atomic!Executions(history, c) > 0
      BY <1>5, <1>6, <1>7, <3>3, ExecutionsOfHistory
    <3> QED
      BY <2>2, <2>3, <3>1, <3>4 DEF Atomic!Answer, Answered, history, store
  <2>4. CASE Answered' = Answered /\ m = n
    BY <1>10, <2>2, <2>4 DEF Atomic!storeVars, Answered, history, store
  <2>5. CASE Answered' = Answered /\ n < m
    <3>1. Len(history) = n + 1 /\ Len(history') = m + 1
      BY <1>5, <1>6, <1>7, HistoryIsSequence
    <3>2. SubSeq(history', 1, Len(history)) = history
      BY <1>5, <1>6, <1>7, <1>9, HistoryGrows
    <3>3. \A c \in Command : Atomic!Executions(history', c) <= Tries(c)
      <4>1. \A c \in Command : Tries(c) = Cardinality(IndexesOf(b, c))
        BY <1>8, <2>1
      <4> QED
        BY <1>5, <1>6, <1>7, <4>1, ExecutionsOfHistory
    <3>4. Atomic!Justified(history')
      BY <3>3 DEF Atomic!Justified
    <3>5. Len(history') > Len(history)
      BY <1>6, <2>5, <3>1
    <3>6. Atomic!Execute
      BY <1>7, <2>2, <2>5, <3>2, <3>4, <3>5 DEF Atomic!Execute, Answered, history, store
    <3> QED
      BY <3>6 DEF Atomic!Next
  <2> QED
    BY <1>2, <1>3, <1>6, <2>3, <2>4, <2>5, AnsweredStep DEF Atomic!Next
<1>13. CASE log'[L] = apply(log[L])
  <2>1. b.log_idx = a.log_idx
    BY <1>5, <1>13, ApplyOK
  <2> QED
    BY <1>12, <2>1
<1>14. CASE AppliesNothing(L, L)
  BY <1>11, <1>12, <1>14 DEF AppliesNothing, Atomic!Next
<1> QED
  BY <1>2, <1>3, <1>13, <1>14, AppliedStep

\* While one server leads, the servers together are one store that executes a put at
\* most once for each time it was put, in an order that never changes, and answers
\* it only after that: whichever server has applied most shows the store.
THEOREM ServersAreOneStore ==
  ASSUME OneLeaderOnly
  PROVE  Spec => RefinesAtomicStore
<1>1. Init => OneStoreInv
  <2> SUFFICES ASSUME Init PROVE OneStoreInv
    OBVIOUS
  <2>1. TypeInv
    BY InitTypes
  <2>2. OnePutPerEntry
    BY DEF Init, OnePutPerEntry
  <2> QED
    BY <2>1, <2>2, InitOneLeader DEF OneStoreInv
<1>2. OneStoreInv /\ [Next]_vars => OneStoreInv'
  <2> SUFFICES ASSUME OneStoreInv, [Next]_vars PROVE OneStoreInv'
    OBVIOUS
  <2>1. TypeInv'
    BY StepTypes DEF OneStoreInv
  <2>2. UnderOneLeader'
    BY UnderOneLeaderStep DEF OneStoreInv
  <2>3. OnePutPerEntry'
    BY PutsStayApart DEF OneStoreInv, UnderOneLeader
  <2> QED
    BY <2>1, <2>2, <2>3 DEF OneStoreInv
<1>3. OneStoreInv /\ Init => Atomic!Init
  BY InitRefines
<1>4. OneStoreInv /\ OneStoreInv' /\ [Next]_vars => [Atomic!Next]_(Atomic!storeVars)
  BY StepRefines DEF OneLeaderOnly
<1> QED
  BY <1>1, <1>2, <1>3, <1>4, PTL DEF Spec, RefinesAtomicStore, Atomic!Spec
=============================================================================
