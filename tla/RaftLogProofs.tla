--------------------------- MODULE RaftLogProofs ---------------------------
(***************************************************************************)
(* Lemmas about the methods of a log: what each returns for a well-formed  *)
(* log, and that the result is one.  Induction is by the least or greatest *)
(* element of a set of numbers.                                            *)
(***************************************************************************)
EXTENDS RaftLog, WellFoundedInduction, TLAPS

-----------------------------------------------------------------------------
(* Least and greatest elements.                                            *)

\* A set of natural numbers that is not empty has a least element.
LEMMA LeastNatural ==
  ASSUME NEW T \in SUBSET Nat, T # {}
  PROVE  \E x \in T : \A y \in T : x <= y
<1> DEFINE R == OpToRel(<, Nat)
<1>1. IsWellFoundedOn(R, Nat)
  BY NatLessThanWellFounded
<1>2. \A x, y \in Nat : <<y, x>> \in R <=> y < x
  BY DEF OpToRel
<1> HIDE DEF R
<1>3. PICK x \in T : \A y \in T : ~ (<<y, x>> \in R)
  BY <1>1, WFMin
<1>4. ASSUME NEW y \in T PROVE x <= y
  <2>1. x \in Nat /\ y \in Nat
    OBVIOUS
  <2>2. ~(y < x)
    BY <2>1, <1>2, <1>3
  <2> QED
    BY <2>1, <2>2
<1> QED
  BY <1>4

\* A set of integers that is not empty and bounded has a greatest element.
LEMMA GreatestInteger ==
  ASSUME NEW n \in Int, NEW T \in SUBSET Int, T # {}, \A x \in T : x <= n
  PROVE  \E x \in T : \A y \in T : y <= x
<1> DEFINE D == {k \in Nat : n - k \in T}
<1>1. PICK z \in T : TRUE
  OBVIOUS
<1>2. n - z \in D
  BY <1>1
<1>3. PICK k \in D : \A m \in D : k <= m
  <2>1. D \in SUBSET Nat
    OBVIOUS
  <2> HIDE DEF D
  <2> QED
    BY <1>2, <2>1, LeastNatural
<1>4. ASSUME NEW y \in T PROVE y <= n - k
  <2>1. n - y \in Nat /\ n - (n - y) = y
    OBVIOUS
  <2>2. n - y \in D
    BY <2>1
  <2>3. k <= n - y
    BY <2>2, <1>3
  <2> QED
    BY <2>3
<1> QED
  BY <1>3, <1>4

-----------------------------------------------------------------------------
(* The log that a server starts with, and append.                          *)

LEMMA EmptyLogOK == LogOK(EmptyLog)
  BY DEF LogOK, WellFormed, EmptyLog

\* append adds an entry at the end, and changes nothing else.
LEMMA AppendOK ==
  ASSUME NEW l, LogOK(l), NEW t \in Nat, NEW c \in Command
  PROVE  LET m == append(l, t, c)
         IN /\ LogOK(m)
            /\ m.log_idx = l.log_idx + 1
            /\ m.last_commit_idx = l.last_commit_idx
            /\ m.last_applied_idx = l.last_applied_idx
            /\ m.db = l.db
            /\ m.last_applied_command_per_client = l.last_applied_command_per_client
            /\ m.entries[m.log_idx] = Uncommitted(t, c)
            /\ \A i \in 0..l.log_idx : m.entries[i] = l.entries[i]
<1> USE DEF LogOK, WellFormed, EmptyLog
<1>1. Uncommitted(t, c) \in Entry
  BY DEF Uncommitted, Entry
<1>2. /\ append(l, t, c).log_idx = l.log_idx + 1
      /\ append(l, t, c).entries = Stored(l.entries, l.log_idx + 1, Uncommitted(t, c))
      /\ append(l, t, c).last_commit_idx = l.last_commit_idx
      /\ append(l, t, c).last_applied_idx = l.last_applied_idx
      /\ append(l, t, c).db = l.db
      /\ append(l, t, c).last_applied_command_per_client = l.last_applied_command_per_client
      /\ DOMAIN append(l, t, c) = DOMAIN l
  BY DEF append
<1>3. /\ Stored(l.entries, l.log_idx + 1, Uncommitted(t, c)) \in [0..l.log_idx + 1 -> Entry]
      /\ Stored(l.entries, l.log_idx + 1, Uncommitted(t, c))[l.log_idx + 1] = Uncommitted(t, c)
      /\ \A i \in 0..l.log_idx :
           Stored(l.entries, l.log_idx + 1, Uncommitted(t, c))[i] = l.entries[i]
  BY <1>1 DEF Stored
<1> QED
  BY <1>2, <1>3

\* clear forgets the entries; what is left is an empty log.
LEMMA ClearOK ==
  ASSUME NEW l, LogOK(l)
  PROVE  LogOK(clear(l)) /\ clear(l).log_idx = -1
<1> USE DEF LogOK, WellFormed, EmptyLog
<1>1. /\ clear(l).log_idx = -1
      /\ clear(l).entries = EmptyLog.entries
      /\ clear(l).last_commit_idx = -1
      /\ clear(l).last_applied_idx = -1
      /\ clear(l).db = EmptyLog.db
      /\ clear(l).last_applied_command_per_client = l.last_applied_command_per_client
      /\ DOMAIN clear(l) = DOMAIN l
  BY DEF clear
<1> QED
  BY <1>1, EmptyLogOK

\* insert_at stores the entry, if its index is at most the next one, and keeps
\* all others.
LEMMA InsertAtOK ==
  ASSUME NEW l, LogOK(l), NEW index \in Nat, NEW t \in Nat, NEW c \in Command
  PROVE  LET m == insert_at(l, index, t, c)
         IN /\ LogOK(m)
            /\ m.log_idx >= l.log_idx
            /\ m.last_commit_idx = l.last_commit_idx
            /\ m.last_applied_idx = l.last_applied_idx
            /\ m.db = l.db
            /\ InsertedAt(l, index) \in {-1, index}
            /\ InsertedAt(l, index) = -1 => m = l
            /\ InsertedAt(l, index) = index =>
                 /\ m.entries[index] = Uncommitted(t, c)
                 /\ m.log_idx = IF index = l.log_idx + 1 THEN index ELSE l.log_idx
            /\ \A i \in 0..l.log_idx : i # index => m.entries[i] = l.entries[i]
            /\ InsertedAt(l, index) <= m.log_idx
<1> USE DEF LogOK, WellFormed, EmptyLog
<1>1. CASE index > l.log_idx + 1
  BY <1>1 DEF insert_at, InsertedAt
<1>2. CASE index <= l.log_idx + 1
  <2> DEFINE m == insert_at(l, index, t, c)
             e == Stored(l.entries, index, Uncommitted(t, c))
             n == IF index = l.log_idx + 1 THEN index ELSE l.log_idx
  <2>1. InsertedAt(l, index) = index
    BY <1>2 DEF InsertedAt
  <2>2. /\ m.log_idx = n
        /\ m.entries = e
        /\ m.last_commit_idx = l.last_commit_idx
        /\ m.last_applied_idx = l.last_applied_idx
        /\ m.db = l.db
        /\ m.last_applied_command_per_client = l.last_applied_command_per_client
        /\ DOMAIN m = DOMAIN l
    BY <1>2 DEF insert_at
  <2>3. Uncommitted(t, c) \in Entry
    BY DEF Uncommitted, Entry
  <2>4. 0..n = 0..l.log_idx \cup {index} /\ n \in Int /\ index <= n /\ l.log_idx <= n
    BY <1>2
  <2>5. /\ e \in [0..n -> Entry]
        /\ e[index] = Uncommitted(t, c)
        /\ \A i \in 0..l.log_idx : i # index => e[i] = l.entries[i]
    BY <2>3, <2>4 DEF Stored
  <2>6. LogOK(m)
    <3> HIDE DEF m, e, n
    <3> QED
      BY <2>2, <2>4, <2>5
  <2> HIDE DEF m, e
  <2>7. /\ m.entries[index] = Uncommitted(t, c)
        /\ \A i \in 0..l.log_idx : i # index => m.entries[i] = l.entries[i]
    BY <2>2, <2>5
  <2> QED
    BY <2>1, <2>2, <2>4, <2>6, <2>7 DEF m
<1> QED
  BY <1>1, <1>2

-----------------------------------------------------------------------------
(* commit and commit_upto.                                                 *)

\* MarkDone marks these entries, and leaves terms and commands alone.
LEMMA MarkDoneOK ==
  ASSUME NEW n \in Int, NEW e \in [0..n -> Entry], NEW S
  PROVE  LET m == MarkDone(e, S)
         IN /\ m \in [0..n -> Entry]
            /\ \A i \in 0..n : /\ m[i].term = e[i].term
                               /\ m[i].cmd = e[i].cmd
                               /\ m[i].commit_done <=> e[i].commit_done \/ i \in S
<1>1. ASSUME NEW i \in 0..n
      PROVE  /\ MarkDone(e, S)[i] \in Entry
             /\ MarkDone(e, S)[i].term = e[i].term
             /\ MarkDone(e, S)[i].cmd = e[i].cmd
             /\ MarkDone(e, S)[i].commit_done <=> e[i].commit_done \/ i \in S
  <2>1. e[i] \in Entry
    OBVIOUS
  <2>2. CASE i \in S
    <3>1. MarkDone(e, S)[i] = [e[i] EXCEPT !.commit_done = TRUE]
      BY <2>2 DEF MarkDone
    <3> QED
      BY <2>1, <2>2, <3>1 DEF Entry
  <2>3. CASE i \notin S
    <3>1. MarkDone(e, S)[i] = e[i]
      BY <2>3 DEF MarkDone
    <3> QED
      BY <2>1, <2>3, <3>1
  <2> QED
    BY <2>2, <2>3
<1>2. /\ DOMAIN MarkDone(e, S) = 0..n
      /\ MarkDone(e, S) = [i \in 0..n |-> MarkDone(e, S)[i]]
  BY DEF MarkDone
<1> QED
  BY <1>1, <1>2

\* The run of done entries after an index has an end, so DoneUpTo is defined.
LEMMA DoneUpToOK ==
  ASSUME NEW from \in Int, NEW to \in Int, from <= to, NEW e
  PROVE  LET k == DoneUpTo(e, from, to)
         IN /\ k \in from..to
            /\ \A i \in from + 1..k : e[i].commit_done
<1> DEFINE T == {k \in from..to : \A i \in from + 1..k : e[i].commit_done}
<1>1. T \in SUBSET Int /\ from \in T /\ \A x \in T : x <= to
  OBVIOUS
<1>2. PICK k \in T : \A y \in T : y <= k
  <2> HIDE DEF T
  <2> QED
    BY <1>1, GreatestInteger
<1>3. k = to \/ ~e[k + 1].commit_done
  <2> SUFFICES ASSUME k # to, e[k + 1].commit_done PROVE FALSE
    OBVIOUS
  <2>1. k + 1 \in from..to
    OBVIOUS
  <2>2. ASSUME NEW i \in from + 1..k + 1 PROVE e[i].commit_done
    <3>1. i \in from + 1..k \/ i = k + 1
      OBVIOUS
    <3> QED
      BY <3>1
  <2>3. k + 1 \in T
    BY <2>1, <2>2
  <2> HIDE DEF T
  <2> QED
    BY <1>1, <1>2, <2>3
<1> QED
  BY <1>3 DEF DoneUpTo

\* The leader's commit marks one entry; the commit index goes over done entries.
LEMMA CommitOK ==
  ASSUME NEW l, LogOK(l), NEW index \in 0..l.log_idx
  PROVE  LET m == commit(l, index)
         IN /\ LogOK(m)
            /\ m.log_idx = l.log_idx
            /\ m.last_applied_idx = l.last_applied_idx
            /\ m.db = l.db
            /\ m.last_applied_command_per_client = l.last_applied_command_per_client
            /\ l.last_commit_idx <= m.last_commit_idx
            /\ \A i \in 0..l.log_idx :
                 /\ m.entries[i].term = l.entries[i].term
                 /\ m.entries[i].cmd = l.entries[i].cmd
                 /\ m.entries[i].commit_done <=> l.entries[i].commit_done \/ i = index
            /\ \A i \in l.last_commit_idx + 1..m.last_commit_idx :
                 m.entries[i].commit_done
<1> USE DEF LogOK, WellFormed, EmptyLog
<1> DEFINE m == commit(l, index)
           e == MarkDone(l.entries, {index})
           c == IF l.last_commit_idx < l.log_idx
                THEN DoneUpTo(e, l.last_commit_idx, l.log_idx) ELSE l.last_commit_idx
<1>1. /\ m.log_idx = l.log_idx
      /\ m.entries = e
      /\ m.last_commit_idx = c
      /\ m.last_applied_idx = l.last_applied_idx
      /\ m.db = l.db
      /\ m.last_applied_command_per_client = l.last_applied_command_per_client
      /\ DOMAIN m = DOMAIN l
  BY DEF commit
<1>2. /\ e \in [0..l.log_idx -> Entry]
      /\ \A i \in 0..l.log_idx :
           /\ e[i].term = l.entries[i].term
           /\ e[i].cmd = l.entries[i].cmd
           /\ e[i].commit_done <=> l.entries[i].commit_done \/ i = index
  BY MarkDoneOK, SMTT(30)
<1>3. /\ c \in l.last_commit_idx..l.log_idx
      /\ \A i \in l.last_commit_idx + 1..c : e[i].commit_done
  <2> HIDE DEF e
  <2>1. CASE l.last_commit_idx < l.log_idx
    BY <2>1, DoneUpToOK
  <2>2. CASE ~(l.last_commit_idx < l.log_idx)
    BY <2>2
  <2> QED
    BY <2>1, <2>2
<1> HIDE DEF m, e, c
<1>4. LogOK(m)
  BY <1>1, <1>2, <1>3
<1> QED
  BY <1>1, <1>2, <1>3, <1>4 DEF m

\* The follower's commit goes up to index, as far as there are entries, and
\* never back.
LEMMA CommitUptoOK ==
  ASSUME NEW l, LogOK(l), NEW index \in Int
  PROVE  LET m == commit_upto(l, index)
         IN /\ LogOK(m)
            /\ m.log_idx = l.log_idx
            /\ m.last_applied_idx = l.last_applied_idx
            /\ m.db = l.db
            /\ l.last_commit_idx <= m.last_commit_idx
            /\ m.last_commit_idx > l.last_commit_idx => m.last_commit_idx <= index
            /\ \A i \in 0..l.log_idx :
                 /\ m.entries[i].term = l.entries[i].term
                 /\ m.entries[i].cmd = l.entries[i].cmd
<1> USE DEF LogOK, WellFormed, EmptyLog
<1> DEFINE m  == commit_upto(l, index)
           to == IF index < l.log_idx THEN index ELSE l.log_idx
           newly == l.last_commit_idx + 1..to
           e  == MarkDone(l.entries, newly)
<1>1. CASE to <= l.last_commit_idx
  <2>1. m = l
    BY <1>1 DEF commit_upto
  <2> HIDE DEF m
  <2> QED
    BY <2>1 DEF m
<1>2. CASE ~(to <= l.last_commit_idx)
  <2>1. /\ m.log_idx = l.log_idx
        /\ m.entries = e
        /\ m.last_commit_idx = to
        /\ m.last_applied_idx = l.last_applied_idx
        /\ m.db = l.db
        /\ m.last_applied_command_per_client = l.last_applied_command_per_client
        /\ DOMAIN m = DOMAIN l
    BY <1>2 DEF commit_upto
  <2>2. /\ e \in [0..l.log_idx -> Entry]
        /\ \A i \in 0..l.log_idx : /\ e[i].term = l.entries[i].term
                                   /\ e[i].cmd = l.entries[i].cmd
    <3>1. l.log_idx \in Int /\ l.entries \in [0..l.log_idx -> Entry]
      OBVIOUS
    <3> HIDE DEF newly, LogOK
    <3> QED
      BY <3>1, MarkDoneOK
  <2>3. to \in Int /\ to <= l.log_idx /\ to <= index
    OBVIOUS
  <2> HIDE DEF m, e, to
  <2>4. LogOK(m)
    BY <1>2, <2>1, <2>2, <2>3
  <2> QED
    BY <1>2, <2>1, <2>2, <2>3, <2>4 DEF m
<1> QED
  BY <1>1, <1>2

-----------------------------------------------------------------------------
(* apply.                                                                  *)

\* The last of some indexes of a log exists, and its command is put.
LEMMA LastCommandOK ==
  ASSUME NEW n \in Int, NEW e \in [0..n -> Entry], NEW S \in SUBSET (0..n), S # {},
         NEW otherwise
  PROVE  \E j \in S : /\ \A i \in S : i <= j
                      /\ LastCommand(e, S, otherwise) = e[j].cmd
<1> DEFINE j == CHOOSE i \in S : \A k \in S : k <= i
<1>1. \E i \in S : \A k \in S : k <= i
  <2>1. S \in SUBSET Int /\ \A x \in S : x <= n
    OBVIOUS
  <2> QED
    BY <2>1, GreatestInteger
<1>2. j \in S /\ \A i \in S : i <= j
  BY <1>1
<1>3. LastCommand(e, S, otherwise) = e[j].cmd
  BY DEF LastCommand
<1> QED
  BY <1>2, <1>3

\* apply brings the applied index to the commit index; a key that one of the
\* applied entries puts has the value of the last of them, the others stay, and
\* so do the clients' last commands.
LEMMA ApplyOK ==
  ASSUME NEW l, LogOK(l)
  PROVE  LET m   == apply(l)
             new == l.last_applied_idx + 1..l.last_commit_idx
         IN /\ LogOK(m)
            /\ m.log_idx = l.log_idx
            /\ m.entries = l.entries
            /\ m.last_commit_idx = l.last_commit_idx
            /\ m.last_applied_idx = l.last_commit_idx
            /\ \A k \in Key :
                 \/ \E j \in new :
                      /\ l.entries[j].cmd.key = k /\ m.db[k] = l.entries[j].cmd
                      /\ \A i \in new : l.entries[i].cmd.key = k => i <= j
                 \/ m.db[k] = l.db[k] /\ \A i \in new : l.entries[i].cmd.key # k
            /\ \A c \in Client :
                 \/ \E j \in new :
                      /\ l.entries[j].cmd.client = c
                      /\ m.last_applied_command_per_client[c] = l.entries[j].cmd.seq
                 \/ m.last_applied_command_per_client[c] =
                      l.last_applied_command_per_client[c]
<1> USE DEF LogOK, WellFormed, EmptyLog
<1> DEFINE m        == apply(l)
           new      == l.last_applied_idx + 1..l.last_commit_idx
           OfClient(c) == {i \in new : l.entries[i].cmd.client = c}
           OfKey(k) == {i \in new : l.entries[i].cmd.key = k}
           db       == [k \in Key |-> LastCommand(l.entries, OfKey(k), l.db[k])]
           cs       == [c \in Client |->
                          IF OfClient(c) = {} THEN l.last_applied_command_per_client[c]
                          ELSE LastCommand(l.entries, OfClient(c), NoCommand).seq]
<1>1. /\ m.log_idx = l.log_idx
      /\ m.entries = l.entries
      /\ m.last_commit_idx = l.last_commit_idx
      /\ m.last_applied_idx = l.last_commit_idx
      /\ m.db = db
      /\ m.last_applied_command_per_client = cs
      /\ DOMAIN m = DOMAIN l
  BY DEF apply
<1>2. /\ l.log_idx \in Int
      /\ l.entries \in [0..l.log_idx -> Entry]
      /\ new \subseteq 0..l.log_idx
  OBVIOUS
<1>3. \A i \in 0..l.log_idx : l.entries[i].cmd \in Command
  BY <1>2 DEF Entry
<1> HIDE DEF new, m
<1>4. ASSUME NEW k \in Key, OfKey(k) # {}
      PROVE  \E j \in OfKey(k) : /\ \A i \in OfKey(k) : i <= j
                                 /\ db[k] = l.entries[j].cmd
  <2>1. OfKey(k) \in SUBSET (0..l.log_idx)
    BY <1>2
  <2>2. db[k] = LastCommand(l.entries, OfKey(k), l.db[k])
    OBVIOUS
  <2> HIDE DEF OfKey, db
  <2> QED
    BY <1>2, <1>4, <2>1, <2>2, LastCommandOK, SMTT(30)
<1>5. ASSUME NEW k \in Key, OfKey(k) = {} PROVE db[k] = l.db[k]
  BY <1>5 DEF LastCommand
<1>6. db \in [Key -> Command \cup {NoCommand}]
  <2>1. ASSUME NEW k \in Key PROVE db[k] \in Command \cup {NoCommand}
    <3>1. CASE OfKey(k) # {}
      BY <1>2, <1>3, <1>4, <3>1
    <3>2. CASE OfKey(k) = {}
      <4> HIDE DEF OfKey, db
      <4> QED
        BY <1>5, <3>2
    <3> QED
      BY <3>1, <3>2
  <2> QED
    BY <2>1
<1>7. ASSUME NEW c \in Client, OfClient(c) # {}
      PROVE  \E j \in OfClient(c) : cs[c] = l.entries[j].cmd.seq
  <2>1. OfClient(c) \in SUBSET (0..l.log_idx)
    BY <1>2
  <2>2. cs[c] = LastCommand(l.entries, OfClient(c), NoCommand).seq
    BY <1>7
  <2> HIDE DEF OfClient, cs
  <2>3. PICK j \in OfClient(c) :
          LastCommand(l.entries, OfClient(c), NoCommand) = l.entries[j].cmd
    BY <1>2, <1>7, <2>1, LastCommandOK, SMTT(30)
  <2> QED
    BY <2>2, <2>3
<1>8. ASSUME NEW c \in Client, OfClient(c) = {}
      PROVE  cs[c] = l.last_applied_command_per_client[c]
  BY <1>8
<1>9. cs \in [Client -> Int]
  <2>1. ASSUME NEW c \in Client PROVE cs[c] \in Int
    <3>1. CASE OfClient(c) # {}
      <4>1. PICK j \in OfClient(c) : cs[c] = l.entries[j].cmd.seq
        BY <1>7, <3>1
      <4>2. j \in 0..l.log_idx
        BY <1>2, <4>1
      <4> QED
        BY <1>3, <4>1, <4>2, CommandAssumption
    <3>2. CASE OfClient(c) = {}
      BY <1>8, <3>2
    <3> QED
      BY <3>1, <3>2
  <2> QED
    BY <2>1
<1>10. LogOK(m)
  <2> HIDE DEF db, cs
  <2> QED
    BY <1>1, <1>6, <1>9
<1>11. ASSUME NEW k \in Key
       PROVE  \/ \E j \in new :
                   /\ l.entries[j].cmd.key = k /\ m.db[k] = l.entries[j].cmd
                   /\ \A i \in new : l.entries[i].cmd.key = k => i <= j
              \/ m.db[k] = l.db[k] /\ \A i \in new : l.entries[i].cmd.key # k
  <2>1. CASE OfKey(k) # {}
    <3>1. PICK j \in OfKey(k) : /\ \A i \in OfKey(k) : i <= j
                               /\ db[k] = l.entries[j].cmd
      BY <1>4, <2>1
    <3> QED
      BY <1>1, <3>1
  <2>2. CASE OfKey(k) = {}
    <3>1. db[k] = l.db[k]
      BY <1>5, <2>2
    <3>2. \A i \in new : l.entries[i].cmd.key # k
      BY <2>2
    <3> QED
      BY <1>1, <3>1, <3>2
  <2> QED
    BY <2>1, <2>2
<1>12. ASSUME NEW c \in Client
       PROVE  \/ \E j \in new :
                   /\ l.entries[j].cmd.client = c
                   /\ m.last_applied_command_per_client[c] = l.entries[j].cmd.seq
              \/ m.last_applied_command_per_client[c] =
                   l.last_applied_command_per_client[c]
  <2>1. CASE OfClient(c) # {}
    <3>1. PICK j \in OfClient(c) : cs[c] = l.entries[j].cmd.seq
      BY <1>7, <2>1
    <3> QED
      BY <1>1, <3>1
  <2>2. CASE OfClient(c) = {}
    BY <1>1, <1>8, <2>2
  <2> QED
    BY <2>1, <2>2
<1> QED
  BY <1>1, <1>10, <1>11, <1>12 DEF m, new
=============================================================================
