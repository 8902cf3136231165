------------------------------ MODULE RaftLog ------------------------------
(***************************************************************************)
(* The replicated log of one server: logs/log.py (class Log) without term, *)
(* status and votes, together with the database that it applies entries    *)
(* to.  One operator per method, from log to log; entries is the dict from *)
(* index to entry.  A method holds Log.lock, so each is one step.          *)
(*                                                                         *)
(* A command stands for what an entry carries: the client and sequence     *)
(* number of the request, its key, and (being unique) its value.           *)
(***************************************************************************)
EXTENDS Integers

CONSTANTS
  Command,   \* the put requests: records with client, seq and key
  NoCommand  \* None: a key without a value

\* A client counts its requests (client.py), and every value is one that was put.
ASSUME CommandAssumption ==
  /\ NoCommand \notin Command
  /\ \A c \in Command : c.seq \in Nat

Client == {c.client : c \in Command}
Key    == {c.key : c \in Command}

Entry == [term : Nat, cmd : Command, commit_done : BOOLEAN]

EmptyLog ==
  [entries |-> [i \in {} |-> NoCommand],
   log_idx |-> -1, last_commit_idx |-> -1, last_applied_idx |-> -1,
   db |-> [k \in Key |-> NoCommand],
   last_applied_command_per_client |-> [c \in Client |-> -1]]

\* dict[index] = entry
Stored(entries, index, entry) ==
  [i \in DOMAIN entries \cup {index} |->
     IF i = index THEN entry ELSE entries[i]]

Uncommitted(term, cmd) == [term |-> term, cmd |-> cmd, commit_done |-> FALSE]

\* Term of the last entry, 0 for an empty log.
LastTerm(l) == IF l.log_idx = -1 THEN 0 ELSE l.entries[l.log_idx].term

append(l, term, cmd) ==
  [l EXCEPT !.log_idx = @ + 1,
            !.entries = Stored(@, l.log_idx + 1, Uncommitted(term, cmd))]

\* mutant: off by one, the next index counts as beyond the end
OverwriteOnly(l, index, term, cmd) ==
  IF index >= l.log_idx + 1
  THEN l
  ELSE [l EXCEPT !.entries = Stored(@, index, Uncommitted(term, cmd))]

\* mutant: log_idx does not follow
LengthKept(l, index, term, cmd) ==
  IF index > l.log_idx + 1
  THEN l
  ELSE [l EXCEPT !.entries = Stored(@, index, Uncommitted(term, cmd))]

\* Extends the log by one entry or overwrites one; what follows it stays.
\* An index beyond the end is an error, and nothing is stored.
insert_at(l, index, term, cmd) ==
  IF index > l.log_idx + 1
  THEN l
  ELSE [l EXCEPT !.log_idx = IF index = @ + 1 THEN index ELSE @,
                 !.entries = Stored(@, index, Uncommitted(term, cmd))]

\* What insert_at returns.
InsertedAt(l, index) == IF index > l.log_idx + 1 THEN -1 ELSE index

MarkDone(entries, indexes) ==
  [i \in DOMAIN entries |->
     IF i \in indexes THEN [entries[i] EXCEPT !.commit_done = TRUE]
     ELSE entries[i]]

\* The last index of an unbroken run of done entries after index from.
DoneUpTo(entries, from, to) ==
  CHOOSE k \in from..to :
    /\ \A i \in from + 1..k : entries[i].commit_done
    /\ k = to \/ ~entries[k + 1].commit_done

\* The leader's commit: entries are marked out of order, the index follows
\* when it can.  Defined if index is in the log, else a KeyError.
commit(l, index) ==
  LET marked == MarkDone(l.entries, {index})
  IN [l EXCEPT !.entries = marked,
               !.last_commit_idx =
                  IF @ < l.log_idx THEN DoneUpTo(marked, @, l.log_idx) ELSE @]

\* The follower's commit: all entries up to index, as far as there are any.
commit_upto(l, index) ==
  LET to == IF index < l.log_idx THEN index ELSE l.log_idx
  IN IF to <= l.last_commit_idx THEN l
     ELSE [l EXCEPT !.entries = MarkDone(@, l.last_commit_idx + 1..to),
                    !.last_commit_idx = to]

\* The command of the last entry among those indexes, if there is one.
LastCommand(entries, indexes, otherwise) ==
  IF indexes = {} THEN otherwise
  ELSE entries[CHOOSE i \in indexes : \A j \in indexes : j <= i].cmd

\* One round of the apply thread: every committed entry goes to the database.
apply(l) ==
  LET new == l.last_applied_idx + 1..l.last_commit_idx
      IndexesOfClient(c) == {i \in new : l.entries[i].cmd.client = c}
      IndexesOfKey(k)    == {i \in new : l.entries[i].cmd.key = k}
  IN [l EXCEPT
        !.last_applied_idx = l.last_commit_idx,
        !.db = [k \in Key |-> LastCommand(l.entries, IndexesOfKey(k), @[k])],
        !.last_applied_command_per_client =
           [c \in Client |->
              IF IndexesOfClient(c) = {} THEN @[c]
              ELSE LastCommand(l.entries, IndexesOfClient(c), NoCommand).seq]]

IsCommitted(l, index) == index <= l.last_commit_idx \* mutant

is_applied(l, index) == index <= l.last_applied_idx

get_last_committed_sequence_for(l, client) ==
  l.last_applied_command_per_client[client]

\* Forgets the entries and empties the database; the clients' last commands
\* are remembered.
clear(l) ==
  [l EXCEPT !.entries = EmptyLog.entries, !.log_idx = -1,
            !.last_commit_idx = -1, !.last_applied_idx = -1,
            !.db = EmptyLog.db]

-----------------------------------------------------------------------------
(* Well-formed logs.                                                       *)

\* No gaps, and the three indexes in order.
WellFormed(l) ==
  /\ DOMAIN l.entries = 0..l.log_idx
  /\ -1 <= l.last_applied_idx
  /\ l.last_applied_idx <= l.last_commit_idx
  /\ l.last_commit_idx <= l.log_idx

\* Types of a log, which is well-formed.
LogOK(l) ==
  /\ DOMAIN l = DOMAIN EmptyLog
  /\ {l.log_idx, l.last_commit_idx, l.last_applied_idx} \subseteq Int
  /\ WellFormed(l)
  /\ l.entries \in [0..l.log_idx -> Entry]
  /\ l.db \in [Key -> Command \cup {NoCommand}]
  /\ l.last_applied_command_per_client \in [Client -> Int]

\* The database is what the applied entries make of it: a key has the value of the last
\* entry that puts it.
ShowsApplied(l) ==
  \A k \in Key :
    \/ \E i \in 0..l.last_applied_idx :
         /\ l.entries[i].cmd.key = k /\ l.db[k] = l.entries[i].cmd
         /\ \A j \in i + 1..l.last_applied_idx : l.entries[j].cmd.key # k
    \/ /\ \A i \in 0..l.last_applied_idx : l.entries[i].cmd.key # k
       /\ l.db[k] = NoCommand

\* The request that a client is known by has been applied.
KnowsApplied(l) ==
  \A c \in Client :
    l.last_applied_command_per_client[c] # -1 =>
      \E i \in 0..l.last_applied_idx :
        /\ l.entries[i].cmd.client = c
        /\ l.entries[i].cmd.seq = l.last_applied_command_per_client[c]

\* Two logs hold the same commands of the same terms up to index.
AgreeUpTo(l, m, index) ==
  \A i \in 0..index :
    /\ i \in DOMAIN l.entries /\ i \in DOMAIN m.entries
    /\ l.entries[i].term = m.entries[i].term
    /\ l.entries[i].cmd = m.entries[i].cmd
=============================================================================
