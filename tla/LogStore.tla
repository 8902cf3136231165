------------------------------ MODULE LogStore ------------------------------
(***************************************************************************)
(* The Log object of one server at the granularity of its lock and its     *)
(* files: logs/log.py with the MemoryStore that it applies entries to, the *)
(* apply thread, the flush_config thread, a crash and the recovery.        *)
(*                                                                         *)
(* A file is a map; what dbm makes of it on the disk is left out.  A file  *)
(* that is opened, written and closed under the lock is written in one     *)
(* step; the config file of flush_config is open longer than the lock is   *)
(* held.                                                                   *)
(***************************************************************************)
EXTENDS RaftLog, FiniteSets

CONSTANTS
  Self,        \* server_id
  Nobody,      \* "no server": None and 'No leader' in the code
  Setups,      \* initial states: [mem: the Log object, calls: see Node]
  MaxRestarts  \* bound: how often the server crashes and starts again

ASSUME RestartAssumption == MaxRestarts \in Nat

VARIABLES
  mem,           \* the Log object: a log of RaftLog, and term to leader_id
  disk,          \* the files: entries, config, and the database's
  config_change, \* Log.config_change: a dict from key to BOOLEAN
  busy,          \* who holds Log.lock, and how far it has got
  flusher,       \* the flush_config thread
  shelf,         \* the keys that it has written into its open config file
  restarts,      \* how often the server has crashed, for the bound
  torn           \* history: a clear was cut short, or overtaken by a write of
                 \* indexes from before it

storeVars == <<mem, disk, config_change, busy, flusher, shelf, restarts, torn>>

Indexes   == {"last_commit_idx", "log_idx", "last_applied_idx"}
ConfigKey == Indexes \cup {"term", "status", "voted_for", "leader_id",
                           "last_applied_command_per_client"}

\* The dicts among the values: shelve writes them once more when it closes, as
\* they are by then.
Aliased == {"voted_for", "last_applied_command_per_client"}

NoKeys == [k \in {} |-> FALSE]

\* The server has run for a while: the files have what they are meant to have.
Init ==
  \E s \in Setups :
    /\ mem = s.mem
    /\ disk = [entries |-> [i \in 0..s.mem.last_applied_idx |-> s.mem.entries[i]],
               db |-> s.mem.db, config |-> [k \in ConfigKey |-> s.mem[k]]]
    /\ config_change = NoKeys /\ shelf = NoKeys
    /\ busy = "free" /\ flusher = "idle"
    /\ restarts = 0 /\ torn = FALSE

Free == busy = "free"

\* mutant: a new dict
MarkedOnly(keys) == [k \in DOMAIN config_change \cup keys |-> k \in keys]

\* config_change[key] = True
Marked(keys) ==
  [k \in DOMAIN config_change \cup keys |-> k \in keys \/ config_change[k]]

Changed == {k \in DOMAIN config_change : config_change[k]}

-----------------------------------------------------------------------------
(* Methods on the election state, from Log to Log.                         *)

\* mutant: the vote is reset with the term
VoteReset(m, new_term, new_leader_id) ==
  [m EXCEPT !.status = "FOLLOWER", !.term = new_term, !.leader_id = new_leader_id,
            !.voted_for = [term |-> -1, server_id |-> Nobody]]

revert_to_follower(m, new_term, new_leader_id) ==
  [m EXCEPT !.status = "FOLLOWER", !.term = new_term, !.leader_id = new_leader_id]

cast_vote(m, candidate_term, candidate_id) ==
  [m EXCEPT !.term = candidate_term,
            !.voted_for = [term |-> candidate_term, server_id |-> candidate_id]]

set_self_candidate(m) ==
  [cast_vote(m, m.term + 1, Self) EXCEPT !.status = "CANDIDATE"]

\* For the broadcastEntry threads, which compare the term with nothing.
update_term(m, new_term) == [m EXCEPT !.term = new_term]

set_self_leader(m) == [m EXCEPT !.status = "LEADER", !.leader_id = Self]

-----------------------------------------------------------------------------
(* The apply thread: for each entry the log file, the database, the index. *)
(* The lock is held to the end of the round; it is "next" between entries. *)

ToApply == mem.last_applied_idx + 1

CanApply(index) == index <= mem.last_commit_idx /\ index \in DOMAIN mem.entries

\* flush: an entry that is not there ends the round, this one and the next.
ApplyFlush ==
  /\ busy \in {"free", "next"}
  /\ CanApply(ToApply)
  /\ disk' = [disk EXCEPT !.entries = Stored(@, ToApply, mem.entries[ToApply])]
  /\ busy' = "flushed"
  /\ UNCHANGED <<mem, config_change, flusher, shelf, restarts, torn>>

\* database.put: the dict and the file.
ApplyPut ==
  LET cmd == mem.entries[ToApply].cmd IN
  /\ busy = "flushed"
  /\ mem' = [mem EXCEPT !.db[cmd.key] = cmd]
  /\ disk' = [disk EXCEPT !.db[cmd.key] = cmd]
  /\ busy' = "stored"
  /\ UNCHANGED <<config_change, flusher, shelf, restarts, torn>>

ApplyAdvance ==
  LET cmd == mem.entries[ToApply].cmd IN
  /\ busy = "stored"
  /\ mem' = [mem EXCEPT !.last_applied_idx = ToApply,
                        !.last_applied_command_per_client[cmd.client] = cmd.seq]
  /\ config_change' = Marked({"last_applied_idx", "last_applied_command_per_client"})
  /\ busy' = IF CanApply(ToApply + 1) THEN "next" ELSE "free"
  /\ UNCHANGED <<disk, flusher, shelf, restarts, torn>>

Apply == ApplyFlush \/ ApplyPut \/ ApplyAdvance

-----------------------------------------------------------------------------
(* clear: memory first, then the log file, the config file, the database.  *)

ClearMemory ==
  /\ Free
  /\ mem' = [clear(mem) EXCEPT !.db = mem.db]
  /\ busy' = "cleared"
  /\ UNCHANGED <<disk, config_change, flusher, shelf, restarts, torn>>

ClearLogFile ==
  /\ busy = "cleared"
  /\ disk' = [disk EXCEPT !.entries = EmptyLog.entries]
  /\ busy' = "no log"
  /\ UNCHANGED <<mem, config_change, flusher, shelf, restarts, torn>>

\* mutant: the config file keeps its indexes
ConfigKept ==
  /\ busy = "no log"
  /\ busy' = "no index"
  /\ UNCHANGED <<mem, disk, config_change, flusher, shelf, restarts, torn>>

ClearConfigFile ==
  /\ busy = "no log"
  /\ disk' = [disk EXCEPT !.config =
                [k \in ConfigKey |-> IF k \in Indexes THEN mem[k] ELSE @[k]]]
  /\ torn' = (torn \/ DOMAIN shelf \cap Indexes # {})
  /\ busy' = "no index"
  /\ UNCHANGED <<mem, config_change, flusher, shelf, restarts>>

ClearDatabase ==
  /\ busy = "no index"
  /\ mem' = [mem EXCEPT !.db = EmptyLog.db]
  /\ disk' = [disk EXCEPT !.db = EmptyLog.db]
  /\ busy' = "free"
  /\ UNCHANGED <<config_change, flusher, shelf, restarts, torn>>

clear_log_backup == ClearLogFile \/ ClearConfigFile \/ ClearDatabase

-----------------------------------------------------------------------------
(* The flush_config thread.                                                *)

\* It takes the lock and goes through the keys.  (A round that finds no change
\* writes nothing; it is left out.)
FlushBegins ==
  /\ Free /\ flusher = "idle" /\ Changed # {}
  /\ busy' = "flushing"
  /\ UNCHANGED <<mem, disk, config_change, flusher, shelf, restarts, torn>>

Collected(keys) == [k \in keys |-> mem[k]]
Unmarked(keys)  == [k \in DOMAIN config_change |-> config_change[k] /\ k \notin keys]

FlushCollects ==
  /\ busy = "flushing"
  /\ shelf' = Collected(Changed)
  /\ config_change' = Unmarked(Changed)
  /\ busy' = "free" /\ flusher' = "closing"
  /\ UNCHANGED <<mem, disk, restarts, torn>>

\* The lock is released: what is written may be outdated by now.
FlushCloses ==
  /\ flusher = "closing"
  /\ disk' = [disk EXCEPT !.config =
                [k \in ConfigKey |-> IF k \notin DOMAIN shelf THEN @[k]
                                     ELSE IF k \in Aliased THEN mem[k] ELSE shelf[k]]]
  /\ shelf' = NoKeys
  /\ flusher' = "idle"
  /\ UNCHANGED <<mem, config_change, busy, restarts, torn>>

flush_config == FlushBegins \/ FlushCollects \/ FlushCloses

\* A method that has released the lock sets its flags.  If that adds a key to
\* the dict that flush_config is going through, that thread dies of a
\* RuntimeError; what it has put into the file by then is written.
SetFlags(keys) ==
  IF busy = "flushing" /\ ~(keys \subseteq DOMAIN config_change)
  THEN \E done \in SUBSET Changed :
         /\ config_change' = [k \in DOMAIN config_change \cup keys |->
                                k \in keys \/ Unmarked(done)[k]]
         /\ disk' = [disk EXCEPT !.config =
                       [k \in ConfigKey |-> IF k \in done THEN mem[k] ELSE @[k]]]
         /\ busy' = "free" /\ flusher' = "dead"
         /\ UNCHANGED <<mem, shelf, restarts, torn>>
  ELSE /\ config_change' = Marked(keys)
       /\ UNCHANGED <<mem, disk, busy, flusher, shelf, restarts, torn>>

-----------------------------------------------------------------------------
(* Crash and recovery.                                                     *)

\* "if config_file[key]": a zero is not taken, the initial value stays.
IfTrue(value) == IF value = 0 THEN -1 ELSE value

Recalled(config, k) == IF k \in Indexes THEN IfTrue(config[k]) ELSE config[k]

\* The Log object that recover makes of these files.
recover(d) ==
  [k \in DOMAIN mem |-> IF k \in ConfigKey THEN Recalled(d.config, k) ELSE d[k]]

\* The server crashes, with part of an open config file written, and starts
\* again.
Restart ==
  /\ restarts < MaxRestarts
  /\ restarts' = restarts + 1
  /\ \E done \in SUBSET DOMAIN shelf :
       LET config == [k \in ConfigKey |-> IF k \in done THEN shelf[k]
                                          ELSE disk.config[k]]
       IN disk' = [disk EXCEPT !.config = config]
  /\ mem' = recover(disk')
  /\ config_change' = NoKeys /\ shelf' = NoKeys
  /\ busy' = "free" /\ flusher' = "idle"
  /\ torn' = (torn \/ busy \in {"no log", "no index"})

-----------------------------------------------------------------------------
(* Properties.                                                             *)

StoreTypeOK ==
  /\ mem.entries \in [DOMAIN mem.entries -> Entry] /\ DOMAIN mem.entries \subseteq Nat
  /\ \A i \in Indexes : mem[i] \in Nat \cup {-1}
  /\ mem.term \in Nat /\ mem.status \in {"CANDIDATE", "FOLLOWER", "LEADER"}
  /\ mem.db \in [Key -> Command \cup {NoCommand}]
  /\ DOMAIN disk.config = ConfigKey
  /\ DOMAIN config_change \subseteq ConfigKey /\ DOMAIN shelf \subseteq ConfigKey
  /\ busy \in {"free", "flushed", "stored", "next", "cleared", "no log", "no index",
               "flushing"}
  /\ flusher \in {"idle", "closing", "dead"}
  /\ restarts \in 0..MaxRestarts /\ torn \in BOOLEAN

OnDisk(i) ==
  /\ i \in DOMAIN disk.entries
  /\ i \in DOMAIN mem.entries =>
       disk.entries[i].term = mem.entries[i].term /\ disk.entries[i].cmd = mem.entries[i].cmd

\* "This thread keeps applying log entries to state and persisting applied logs
\* (Write Ahead-like)": whenever the server crashes, the entries up to the applied
\* index that it will recall are in the log file, as are those it has applied,
\* unless a clear was cut short or overtaken.
AppliedIsOnDisk ==
  torn \/ busy = "no log" \/
    \A i \in 0..mem.last_applied_idx \cup 0..disk.config.last_applied_idx : OnDisk(i)

\* "If any config has changed, persist that change": in the end the config file
\* gives back what the server has, unless flush_config has died or has overtaken
\* a clear.
ChangesReachTheDisk ==
  <>[](flusher = "dead" \/ torn \/
         \A k \in ConfigKey : mem[k] \in {disk.config[k], Recalled(disk.config, k)})
=============================================================================
