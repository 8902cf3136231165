---------------------------- MODULE LogStoreProofs ----------------------------
(***************************************************************************)
(* Types of the Log object and its files.  A server that recovers may have *)
(* indexes that do not fit its entries, so the log is not well-formed; the *)
(* methods are total all the same, and the apply thread never reads an     *)
(* entry that is not there.                                                *)
(***************************************************************************)
EXTENDS LogStore, RaftLogProofs

MemKey == DOMAIN EmptyLog \cup {"term", "status", "voted_for", "leader_id"}

EntriesOK(e) == DOMAIN e \subseteq Nat /\ e \in [DOMAIN e -> Entry]

DbOK(db) == db \in [Key -> Command \cup {NoCommand}]

\* What key k of the config may be.
ValueOK(k, v) ==
  /\ k \in Indexes => v \in Nat \cup {-1}
  /\ k = "term" => v \in Nat
  /\ k = "status" => v \in {"CANDIDATE", "FOLLOWER", "LEADER"}

MemOK(m) ==
  /\ DOMAIN m = MemKey
  /\ EntriesOK(m.entries) /\ DbOK(m.db)
  /\ \A k \in ConfigKey : ValueOK(k, m[k])

ConfigOK(config) ==
  /\ DOMAIN config = ConfigKey
  /\ \A k \in ConfigKey : ValueOK(k, config[k])

DiskOK(d) ==
  /\ DOMAIN d = {"entries", "config", "db"}
  /\ EntriesOK(d.entries) /\ DbOK(d.db) /\ ConfigOK(d.config)

ShelfOK(s) == DOMAIN s \subseteq ConfigKey /\ \A k \in DOMAIN s : ValueOK(k, s[k])

\* The entry that the apply thread has begun is there until it is done.
LockOK ==
  /\ busy \in {"free", "flushed", "stored", "next", "cleared", "no log", "no index",
               "flushing"}
  /\ busy \in {"flushed", "stored"} => CanApply(ToApply)

StoreInv ==
  /\ MemOK(mem) /\ DiskOK(disk) /\ ShelfOK(shelf) /\ LockOK
  /\ DOMAIN config_change \subseteq ConfigKey
  /\ flusher \in {"idle", "closing", "dead"}
  /\ restarts \in 0..MaxRestarts /\ torn \in BOOLEAN

-----------------------------------------------------------------------------
(* Methods.                                                                *)

LEMMA Keys ==
  /\ MemKey = {"entries", "log_idx", "last_commit_idx", "last_applied_idx", "db",
               "last_applied_command_per_client", "term", "status", "voted_for",
               "leader_id"}
  /\ ConfigKey = MemKey \ {"entries", "db"}
  /\ ConfigKey = {"log_idx", "last_commit_idx", "last_applied_idx",
               "last_applied_command_per_client", "term", "status", "voted_for",
               "leader_id"}
  BY DEF MemKey, EmptyLog, ConfigKey, Indexes

\* The types of the keys, one by one.
LEMMA MemTypes ==
  ASSUME NEW m, DOMAIN m = MemKey
  PROVE  MemOK(m) <=>
           /\ EntriesOK(m.entries) /\ DbOK(m.db)
           /\ m.log_idx \in Nat \cup {-1}
           /\ m.last_commit_idx \in Nat \cup {-1}
           /\ m.last_applied_idx \in Nat \cup {-1}
           /\ m.term \in Nat
           /\ m.status \in {"CANDIDATE", "FOLLOWER", "LEADER"}
  BY Keys DEF MemOK, ValueOK, Indexes

LEMMA StoredOK ==
  ASSUME NEW e, EntriesOK(e), NEW i \in Nat, NEW entry \in Entry
  PROVE  EntriesOK(Stored(e, i, entry))
  BY DEF EntriesOK, Stored

\* The methods on the election state.
LEMMA ElectionMethodsOK ==
  ASSUME NEW m, MemOK(m)
  PROVE  /\ \A t \in Nat : \A l : MemOK(revert_to_follower(m, t, l))
         /\ \A t \in Nat : \A c : MemOK(cast_vote(m, t, c))
         /\ MemOK(set_self_candidate(m))
         /\ MemOK(set_self_leader(m))
         /\ \A l : MemOK([m EXCEPT !.leader_id = l])
         /\ \A t \in Nat : MemOK(update_term(m, t))
<1>1. DOMAIN m = MemKey
  BY DEF MemOK
<1>2. /\ EntriesOK(m.entries) /\ DbOK(m.db)
      /\ m.log_idx \in Nat \cup {-1}
      /\ m.last_commit_idx \in Nat \cup {-1}
      /\ m.last_applied_idx \in Nat \cup {-1}
      /\ m.term \in Nat
      /\ m.status \in {"CANDIDATE", "FOLLOWER", "LEADER"}
  BY <1>1, MemTypes
<1>3. ASSUME NEW t \in Nat, NEW l PROVE MemOK(revert_to_follower(m, t, l))
  <2> DEFINE n == revert_to_follower(m, t, l)
  <2>1. /\ DOMAIN n = MemKey /\ n.term = t /\ n.status = "FOLLOWER"
        /\ n.entries = m.entries /\ n.db = m.db /\ n.log_idx = m.log_idx
        /\ n.last_commit_idx = m.last_commit_idx /\ n.last_applied_idx = m.last_applied_idx
    BY <1>1, Keys DEF revert_to_follower
  <2>2. MemOK(n)
    <3> HIDE DEF n
    <3> QED
      BY <1>2, <2>1, MemTypes
  <2> QED
    BY <2>2
<1>4. ASSUME NEW t \in Nat, NEW c PROVE MemOK(cast_vote(m, t, c))
  <2> DEFINE n == cast_vote(m, t, c)
  <2>1. /\ DOMAIN n = MemKey /\ n.term = t /\ n.status = m.status
        /\ n.entries = m.entries /\ n.db = m.db /\ n.log_idx = m.log_idx
        /\ n.last_commit_idx = m.last_commit_idx /\ n.last_applied_idx = m.last_applied_idx
    BY <1>1, Keys DEF cast_vote
  <2>2. MemOK(n)
    <3> HIDE DEF n
    <3> QED
      BY <1>2, <2>1, MemTypes
  <2> QED
    BY <2>2
<1>5. MemOK(set_self_candidate(m))
  <2> DEFINE n == set_self_candidate(m)
  <2>1. /\ DOMAIN n = MemKey /\ n.term = m.term + 1 /\ n.status = "CANDIDATE"
        /\ n.entries = m.entries /\ n.db = m.db /\ n.log_idx = m.log_idx
        /\ n.last_commit_idx = m.last_commit_idx /\ n.last_applied_idx = m.last_applied_idx
    BY <1>1, Keys DEF set_self_candidate, cast_vote
  <2>2. MemOK(n)
    <3> HIDE DEF n
    <3> QED
      BY <1>2, <2>1, MemTypes
  <2> QED
    BY <2>2
<1>6. MemOK(set_self_leader(m))
  <2> DEFINE n == set_self_leader(m)
  <2>1. /\ DOMAIN n = MemKey /\ n.term = m.term /\ n.status = "LEADER"
        /\ n.entries = m.entries /\ n.db = m.db /\ n.log_idx = m.log_idx
        /\ n.last_commit_idx = m.last_commit_idx /\ n.last_applied_idx = m.last_applied_idx
    BY <1>1, Keys DEF set_self_leader
  <2>2. MemOK(n)
    <3> HIDE DEF n
    <3> QED
      BY <1>2, <2>1, MemTypes
  <2> QED
    BY <2>2
<1>7. ASSUME NEW l PROVE MemOK([m EXCEPT !.leader_id = l])
  <2> DEFINE n == [m EXCEPT !.leader_id = l]
  <2>1. /\ DOMAIN n = MemKey /\ n.term = m.term /\ n.status = m.status
        /\ n.entries = m.entries /\ n.db = m.db /\ n.log_idx = m.log_idx
        /\ n.last_commit_idx = m.last_commit_idx /\ n.last_applied_idx = m.last_applied_idx
    BY <1>1, Keys
  <2>2. MemOK(n)
    <3> HIDE DEF n
    <3> QED
      BY <1>2, <2>1, MemTypes
  <2> QED
    BY <2>2
<1>8. ASSUME NEW t \in Nat PROVE MemOK(update_term(m, t))
  <2> DEFINE n == update_term(m, t)
  <2>1. /\ DOMAIN n = MemKey /\ n.term = t /\ n.status = m.status
        /\ n.entries = m.entries /\ n.db = m.db /\ n.log_idx = m.log_idx
        /\ n.last_commit_idx = m.last_commit_idx /\ n.last_applied_idx = m.last_applied_idx
    BY <1>1, Keys DEF update_term
  <2>2. MemOK(n)
    <3> HIDE DEF n
    <3> QED
      BY <1>2, <2>1, MemTypes
  <2> QED
    BY <2>2
<1> QED
  BY <1>3, <1>4, <1>5, <1>6, <1>7, <1>8

\* append, insert_at and commit_upto, whatever the indexes are.
LEMMA LogMethodsOK ==
  ASSUME NEW m, MemOK(m), NEW t \in Nat, NEW c \in Command
  PROVE  /\ MemOK(append(m, t, c))
         /\ \A index \in Nat : MemOK(insert_at(m, index, t, c))
         /\ \A index \in Int : MemOK(commit_upto(m, index))
<1>1. DOMAIN m = MemKey
  BY DEF MemOK
<1>2. /\ EntriesOK(m.entries) /\ DbOK(m.db)
      /\ m.log_idx \in Nat \cup {-1}
      /\ m.last_commit_idx \in Nat \cup {-1}
      /\ m.last_applied_idx \in Nat \cup {-1}
      /\ m.term \in Nat
      /\ m.status \in {"CANDIDATE", "FOLLOWER", "LEADER"}
  BY <1>1, MemTypes
<1>3. Uncommitted(t, c) \in Entry
  BY DEF Uncommitted, Entry
<1>4. MemOK(append(m, t, c))
  <2> DEFINE n == append(m, t, c)
  <2>1. /\ DOMAIN n = MemKey /\ n.term = m.term /\ n.status = m.status
        /\ n.entries = Stored(m.entries, m.log_idx + 1, Uncommitted(t, c))
        /\ n.db = m.db /\ n.log_idx = m.log_idx + 1
        /\ n.last_commit_idx = m.last_commit_idx /\ n.last_applied_idx = m.last_applied_idx
    BY <1>1, Keys DEF append
  <2>2. m.log_idx + 1 \in Nat
    BY <1>2
  <2>3. EntriesOK(n.entries)
    <3> HIDE DEF n
    <3> QED
      BY <1>2, <1>3, <2>1, <2>2, StoredOK
  <2>4. MemOK(n)
    <3> HIDE DEF n
    <3> QED
      BY <1>2, <2>1, <2>2, <2>3, MemTypes
  <2> QED
    BY <2>4
<1>5. ASSUME NEW index \in Nat PROVE MemOK(insert_at(m, index, t, c))
  <2> DEFINE n == insert_at(m, index, t, c)
  <2>1. CASE index > m.log_idx + 1
    <3>1. n = m
      BY <2>1 DEF insert_at
    <3> QED
      BY <3>1
  <2>2. CASE ~(index > m.log_idx + 1)
    <3>1. /\ DOMAIN n = MemKey /\ n.term = m.term /\ n.status = m.status
          /\ n.entries = Stored(m.entries, index, Uncommitted(t, c))
          /\ n.db = m.db /\ n.log_idx \in {m.log_idx, index}
          /\ n.last_commit_idx = m.last_commit_idx
          /\ n.last_applied_idx = m.last_applied_idx
      BY <1>1, <2>2, Keys DEF insert_at
    <3>2. EntriesOK(n.entries)
      <4> HIDE DEF n
      <4> QED
        BY <1>2, <1>3, <3>1, StoredOK
    <3>3. MemOK(n)
      <4> HIDE DEF n
      <4> QED
        BY <1>2, <3>1, <3>2, MemTypes
    <3> QED
      BY <3>3
  <2> QED
    BY <2>1, <2>2
<1>6. ASSUME NEW index \in Int PROVE MemOK(commit_upto(m, index))
  <2> DEFINE n  == commit_upto(m, index)
             to == IF index < m.log_idx THEN index ELSE m.log_idx
  <2>1. CASE to <= m.last_commit_idx
    <3>1. n = m
      BY <2>1 DEF commit_upto
    <3> QED
      BY <3>1
  <2>2. CASE ~(to <= m.last_commit_idx)
    <3>1. /\ DOMAIN n = MemKey /\ n.term = m.term /\ n.status = m.status
          /\ n.entries = MarkDone(m.entries, m.last_commit_idx + 1..to)
          /\ n.db = m.db /\ n.log_idx = m.log_idx
          /\ n.last_commit_idx = to
          /\ n.last_applied_idx = m.last_applied_idx
      BY <1>1, <2>2, Keys DEF commit_upto
    <3>2. EntriesOK(MarkDone(m.entries, m.last_commit_idx + 1..to))
      <4> DEFINE new == m.last_commit_idx + 1..to
      <4> HIDE DEF new
      <4>1. EntriesOK(MarkDone(m.entries, new))
        BY <1>2 DEF EntriesOK, MarkDone, Entry
      <4> QED
        BY <4>1 DEF new
    <3>3. to \in Nat
      BY <1>2, <2>2
    <3>4. MemOK(n)
      <4> HIDE DEF n, to
      <4> QED
        BY <1>2, <3>1, <3>2, <3>3, MemTypes
    <3> QED
      BY <3>4
  <2> QED
    BY <2>1, <2>2
<1> QED
  BY <1>4, <1>5, <1>6

\* clear, before the database is emptied.
LEMMA ClearMemoryOK ==
  ASSUME NEW m, MemOK(m)
  PROVE  MemOK([clear(m) EXCEPT !.db = m.db]) /\ MemOK([m EXCEPT !.db = EmptyLog.db])
<1>1. DOMAIN m = MemKey
  BY DEF MemOK
<1>2. /\ EntriesOK(m.entries) /\ DbOK(m.db)
      /\ m.log_idx \in Nat \cup {-1}
      /\ m.last_commit_idx \in Nat \cup {-1}
      /\ m.last_applied_idx \in Nat \cup {-1}
      /\ m.term \in Nat
      /\ m.status \in {"CANDIDATE", "FOLLOWER", "LEADER"}
  BY <1>1, MemTypes
<1>3. EntriesOK(EmptyLog.entries) /\ DbOK(EmptyLog.db)
  BY DEF EmptyLog, EntriesOK, DbOK
<1> DEFINE n == [clear(m) EXCEPT !.db = m.db]
           o == [m EXCEPT !.db = EmptyLog.db]
<1>4. /\ DOMAIN n = MemKey /\ n.term = m.term /\ n.status = m.status
      /\ n.entries = EmptyLog.entries /\ n.db = m.db
      /\ n.log_idx = -1 /\ n.last_commit_idx = -1 /\ n.last_applied_idx = -1
  BY <1>1, Keys DEF clear
<1>5. /\ DOMAIN o = MemKey /\ o.term = m.term /\ o.status = m.status
      /\ o.entries = m.entries /\ o.db = EmptyLog.db
      /\ o.log_idx = m.log_idx /\ o.last_commit_idx = m.last_commit_idx
      /\ o.last_applied_idx = m.last_applied_idx
  BY <1>1, Keys
<1>6. MemOK(n) /\ MemOK(o)
  <2> HIDE DEF n, o
  <2> QED
    BY <1>2, <1>3, <1>4, <1>5, MemTypes
<1> QED
  BY <1>6

-----------------------------------------------------------------------------
(* The threads of the Log object.                                          *)

LEMMA MarkedOK ==
  ASSUME DOMAIN config_change \subseteq ConfigKey, NEW keys \in SUBSET ConfigKey
  PROVE  DOMAIN Marked(keys) \subseteq ConfigKey
  BY DEF Marked

\* A method replaces the Log object while nobody else has the lock.
LEMMA ReplacesOK ==
  ASSUME StoreInv, Free, MemOK(mem'), DOMAIN config_change' \subseteq ConfigKey,
         UNCHANGED <<disk, busy, flusher, shelf, restarts, torn>>
  PROVE  StoreInv'
  BY DEF StoreInv, Free, LockOK, DiskOK, ShelfOK

LEMMA ApplyTypes == StoreInv /\ Apply => StoreInv'
<1> SUFFICES ASSUME StoreInv, Apply PROVE StoreInv'
  OBVIOUS
<1>1. /\ DOMAIN mem = MemKey /\ EntriesOK(mem.entries) /\ DbOK(mem.db)
      /\ mem.log_idx \in Nat \cup {-1}
      /\ mem.last_commit_idx \in Nat \cup {-1}
      /\ mem.last_applied_idx \in Nat \cup {-1}
      /\ mem.term \in Nat
      /\ mem.status \in {"CANDIDATE", "FOLLOWER", "LEADER"}
  <2>1. MemOK(mem) /\ DOMAIN mem = MemKey
    BY DEF StoreInv, MemOK
  <2> QED
    BY <2>1, MemTypes
<1>2. /\ DOMAIN disk = {"entries", "config", "db"}
      /\ EntriesOK(disk.entries) /\ DbOK(disk.db) /\ ConfigOK(disk.config)
  BY DEF StoreInv, DiskOK
<1>3. ToApply \in Nat
  BY <1>1 DEF ToApply
<1>4. ASSUME CanApply(ToApply)
      PROVE  /\ mem.entries[ToApply] \in Entry
             /\ mem.entries[ToApply].cmd \in Command
             /\ mem.entries[ToApply].cmd.key \in Key
  <2>1. mem.entries[ToApply] \in Entry
    BY <1>1, <1>4 DEF CanApply, EntriesOK
  <2> QED
    BY <2>1 DEF Entry, Key
<1>5. CASE ApplyFlush
  <2>1. DiskOK(disk')
    <3>1. /\ DOMAIN disk' = {"entries", "config", "db"}
          /\ disk'.entries = Stored(disk.entries, ToApply, mem.entries[ToApply])
          /\ disk'.db = disk.db /\ disk'.config = disk.config
      BY <1>2, <1>5 DEF ApplyFlush
    <3>2. EntriesOK(disk'.entries)
      BY <1>2, <1>3, <1>4, <1>5, <3>1, StoredOK DEF ApplyFlush
    <3> QED
      BY <1>2, <3>1, <3>2 DEF DiskOK
  <2>2. LockOK'
    BY <1>5 DEF ApplyFlush, LockOK, CanApply, ToApply
  <2> QED
    BY <1>5, <2>1, <2>2 DEF StoreInv, ApplyFlush
<1>6. CASE ApplyPut
  <2> DEFINE cmd == mem.entries[ToApply].cmd
  <2>1. cmd \in Command /\ cmd.key \in Key /\ CanApply(ToApply)
    BY <1>4, <1>6 DEF ApplyPut, StoreInv, LockOK
  <2>2. /\ mem' = [mem EXCEPT !.db[cmd.key] = cmd]
        /\ disk' = [disk EXCEPT !.db[cmd.key] = cmd]
    BY <1>6 DEF ApplyPut
  <2> HIDE DEF cmd
  <2>3. MemOK(mem')
    <3>1. /\ DOMAIN mem' = MemKey /\ mem'.term = mem.term /\ mem'.status = mem.status
          /\ mem'.entries = mem.entries /\ mem'.db = [mem.db EXCEPT ![cmd.key] = cmd]
          /\ mem'.log_idx = mem.log_idx /\ mem'.last_commit_idx = mem.last_commit_idx
          /\ mem'.last_applied_idx = mem.last_applied_idx
      BY <1>1, <2>2, Keys
    <3>2. DbOK(mem'.db)
      BY <1>1, <2>1, <3>1 DEF DbOK
    <3> QED
      BY <1>1, <3>1, <3>2, MemTypes
  <2>4. DiskOK(disk')
    <3>1. /\ DOMAIN disk' = {"entries", "config", "db"}
          /\ disk'.entries = disk.entries /\ disk'.config = disk.config
          /\ disk'.db = [disk.db EXCEPT ![cmd.key] = cmd]
      BY <1>2, <2>2
    <3>2. DbOK(disk'.db)
      BY <1>2, <2>1, <3>1 DEF DbOK
    <3> QED
      BY <1>2, <3>1, <3>2 DEF DiskOK
  <2>5. LockOK'
    <3>1. mem'.entries = mem.entries /\ mem'.last_commit_idx = mem.last_commit_idx
          /\ mem'.last_applied_idx = mem.last_applied_idx
      BY <1>1, <2>2, Keys
    <3> QED
      BY <1>6, <2>1, <3>1 DEF ApplyPut, LockOK, CanApply, ToApply
  <2> QED
    BY <1>6, <2>3, <2>4, <2>5 DEF StoreInv, ApplyPut
<1>7. CASE ApplyAdvance
  <2>1. MemOK(mem')
    <3>1. /\ DOMAIN mem' = MemKey /\ mem'.term = mem.term /\ mem'.status = mem.status
          /\ mem'.entries = mem.entries /\ mem'.db = mem.db
          /\ mem'.log_idx = mem.log_idx /\ mem'.last_commit_idx = mem.last_commit_idx
          /\ mem'.last_applied_idx = ToApply
      BY <1>1, <1>7, Keys DEF ApplyAdvance
    <3> QED
      BY <1>1, <1>3, <3>1, MemTypes
  <2>2. LockOK'
    BY <1>7 DEF ApplyAdvance, LockOK
  <2>3. DOMAIN config_change' \subseteq ConfigKey
    <3>1. {"last_applied_idx", "last_applied_command_per_client"} \in SUBSET ConfigKey
      BY Keys
    <3> QED
      BY <1>7, <3>1, MarkedOK DEF ApplyAdvance, StoreInv
  <2> QED
    BY <1>7, <2>1, <2>2, <2>3 DEF StoreInv, ApplyAdvance
<1> QED
  BY <1>5, <1>6, <1>7 DEF Apply

LEMMA ClearTypes == StoreInv /\ (ClearMemory \/ clear_log_backup) => StoreInv'
<1> SUFFICES ASSUME StoreInv, ClearMemory \/ clear_log_backup PROVE StoreInv'
  OBVIOUS
<1>1. MemOK(mem) /\ DOMAIN mem = MemKey
  BY DEF StoreInv, MemOK
<1>2. /\ DOMAIN disk = {"entries", "config", "db"}
      /\ EntriesOK(disk.entries) /\ DbOK(disk.db) /\ ConfigOK(disk.config)
  BY DEF StoreInv, DiskOK
<1>3. EntriesOK(EmptyLog.entries) /\ DbOK(EmptyLog.db)
  BY DEF EmptyLog, EntriesOK, DbOK
<1>4. CASE ClearMemory
  <2>1. MemOK(mem')
    BY <1>1, <1>4, ClearMemoryOK DEF ClearMemory
  <2>2. LockOK'
    BY <1>4 DEF ClearMemory, LockOK
  <2> QED
    BY <1>4, <2>1, <2>2 DEF StoreInv, ClearMemory
<1>5. CASE ClearLogFile
  <2>1. DiskOK(disk')
    BY <1>2, <1>3, <1>5 DEF ClearLogFile, DiskOK
  <2>2. LockOK'
    BY <1>5 DEF ClearLogFile, LockOK
  <2> QED
    BY <1>5, <2>1, <2>2 DEF StoreInv, ClearLogFile
<1>6. CASE ClearConfigFile
  <2>1. DiskOK(disk')
    <3>1. \A k \in ConfigKey : ValueOK(k, mem[k]) /\ ValueOK(k, disk.config[k])
      BY <1>1, <1>2 DEF MemOK, ConfigOK
    <3>2. /\ DOMAIN disk' = {"entries", "config", "db"}
          /\ disk'.entries = disk.entries /\ disk'.db = disk.db
          /\ disk'.config = [k \in ConfigKey |-> IF k \in Indexes THEN mem[k]
                                                ELSE disk.config[k]]
      BY <1>2, <1>6 DEF ClearConfigFile
    <3>3. ConfigOK(disk'.config)
      BY <3>1, <3>2 DEF ConfigOK
    <3> QED
      BY <1>2, <3>2, <3>3 DEF DiskOK
  <2>2. LockOK' /\ torn' \in BOOLEAN
    BY <1>6 DEF ClearConfigFile, LockOK, StoreInv
  <2> QED
    BY <1>6, <2>1, <2>2 DEF StoreInv, ClearConfigFile
<1>7. CASE ClearDatabase
  <2>1. MemOK(mem')
    BY <1>1, <1>7, ClearMemoryOK DEF ClearDatabase
  <2>2. DiskOK(disk')
    BY <1>2, <1>3, <1>7 DEF ClearDatabase, DiskOK
  <2>3. LockOK'
    BY <1>7 DEF ClearDatabase, LockOK
  <2> QED
    BY <1>7, <2>1, <2>2, <2>3 DEF StoreInv, ClearDatabase
<1> QED
  BY <1>4, <1>5, <1>6, <1>7 DEF clear_log_backup

LEMMA FlushTypes == StoreInv /\ flush_config => StoreInv'
<1> SUFFICES ASSUME StoreInv, flush_config PROVE StoreInv'
  OBVIOUS
<1>1. \A k \in ConfigKey : ValueOK(k, mem[k]) /\ ValueOK(k, disk.config[k])
  BY DEF StoreInv, MemOK, DiskOK, ConfigOK
<1>2. CASE FlushBegins
  BY <1>2 DEF FlushBegins, StoreInv, LockOK
<1>3. CASE FlushCollects
  <2>1. ShelfOK(shelf')
    BY <1>1, <1>3 DEF FlushCollects, Collected, Changed, ShelfOK, StoreInv
  <2>2. DOMAIN config_change' \subseteq ConfigKey
    BY <1>3 DEF FlushCollects, Unmarked, StoreInv
  <2>3. LockOK'
    BY <1>3 DEF FlushCollects, LockOK
  <2> QED
    BY <1>3, <2>1, <2>2, <2>3 DEF FlushCollects, StoreInv
<1>4. CASE FlushCloses
  <2>1. DiskOK(disk')
    <3> DEFINE config == [k \in ConfigKey |->
                            IF k \notin DOMAIN shelf THEN disk.config[k]
                            ELSE IF k \in Aliased THEN mem[k] ELSE shelf[k]]
    <3>1. /\ DOMAIN disk' = {"entries", "config", "db"}
          /\ disk'.entries = disk.entries /\ disk'.db = disk.db
          /\ disk'.config = config
      BY <1>4 DEF FlushCloses, StoreInv, DiskOK
    <3>2. ConfigOK(config)
      BY <1>1 DEF ConfigOK, StoreInv, ShelfOK
    <3> HIDE DEF config
    <3> QED
      BY <3>1, <3>2 DEF DiskOK, StoreInv
  <2>2. ShelfOK(shelf')
    BY <1>4 DEF FlushCloses, NoKeys, ShelfOK
  <2>3. LockOK'
    BY <1>4 DEF FlushCloses, LockOK, CanApply, ToApply, StoreInv
  <2> QED
    BY <1>4, <2>1, <2>2, <2>3 DEF FlushCloses, StoreInv
<1> QED
  BY <1>2, <1>3, <1>4 DEF flush_config

LEMMA SetFlagsTypes ==
  ASSUME StoreInv, NEW keys \in SUBSET ConfigKey, SetFlags(keys)
  PROVE  StoreInv' /\ mem' = mem
<1>1. CASE busy = "flushing" /\ ~(keys \subseteq DOMAIN config_change)
  <2>1. PICK done \in SUBSET Changed :
          /\ config_change' = [k \in DOMAIN config_change \cup keys |->
                                 k \in keys \/ Unmarked(done)[k]]
          /\ disk' = [disk EXCEPT !.config =
                        [k \in ConfigKey |-> IF k \in done THEN mem[k] ELSE @[k]]]
          /\ busy' = "free" /\ flusher' = "dead"
          /\ UNCHANGED <<mem, shelf, restarts, torn>>
    BY <1>1 DEF SetFlags
  <2>2. DiskOK(disk')
    <3>1. \A k \in ConfigKey : ValueOK(k, mem[k]) /\ ValueOK(k, disk.config[k])
      BY DEF StoreInv, MemOK, DiskOK, ConfigOK
    <3>2. /\ DOMAIN disk' = {"entries", "config", "db"}
          /\ disk'.entries = disk.entries /\ disk'.db = disk.db
          /\ disk'.config = [k \in ConfigKey |-> IF k \in done THEN mem[k]
                                                ELSE disk.config[k]]
      BY <2>1 DEF StoreInv, DiskOK
    <3>3. ConfigOK(disk'.config)
      BY <3>1, <3>2 DEF ConfigOK
    <3> QED
      BY <3>2, <3>3 DEF DiskOK, StoreInv
  <2>3. LockOK'
    BY <2>1 DEF LockOK
  <2>4. DOMAIN config_change' \subseteq ConfigKey
    BY <2>1 DEF StoreInv
  <2> QED
    BY <2>1, <2>2, <2>3, <2>4 DEF StoreInv
<1>2. CASE ~(busy = "flushing" /\ ~(keys \subseteq DOMAIN config_change))
  <2>1. /\ config_change' = Marked(keys)
        /\ UNCHANGED <<mem, disk, busy, flusher, shelf, restarts, torn>>
    BY <1>2 DEF SetFlags
  <2>2. DOMAIN config_change' \subseteq ConfigKey
    BY <2>1, MarkedOK DEF StoreInv
  <2> QED
    BY <2>1, <2>2 DEF StoreInv, LockOK, CanApply, ToApply
<1> QED
  BY <1>1, <1>2

\* What recover makes of the files: for each key the value that one of the files had.
LEMMA RestartTypes ==
  ASSUME StoreInv, Restart
  PROVE  /\ StoreInv'
         /\ \A k \in ConfigKey \ Indexes :
              mem'[k] = disk.config[k] \/ (k \in DOMAIN shelf /\ mem'[k] = shelf[k])
<1>1. PICK done \in SUBSET DOMAIN shelf :
        disk' = [disk EXCEPT !.config = [k \in ConfigKey |-> IF k \in done THEN shelf[k]
                                                            ELSE disk.config[k]]]
  BY DEF Restart
<1>2. \A k \in ConfigKey : ValueOK(k, disk.config[k])
                           /\ (k \in DOMAIN shelf => ValueOK(k, shelf[k]))
  BY DEF StoreInv, DiskOK, ConfigOK, ShelfOK
<1>3. /\ DOMAIN disk' = {"entries", "config", "db"}
      /\ disk'.entries = disk.entries /\ disk'.db = disk.db
      /\ disk'.config = [k \in ConfigKey |-> IF k \in done THEN shelf[k]
                                            ELSE disk.config[k]]
  BY <1>1 DEF StoreInv, DiskOK
<1>4. ConfigOK(disk'.config)
  BY <1>2, <1>3 DEF ConfigOK
<1>5. DiskOK(disk')
  BY <1>3, <1>4 DEF DiskOK, StoreInv
<1>6. PICK c : c = disk'.config
  OBVIOUS
<1>7. /\ DOMAIN mem' = MemKey
      /\ mem'.entries = disk.entries /\ mem'.db = disk.db
      /\ \A k \in ConfigKey : mem'[k] = Recalled(c, k)
  <2>1. DOMAIN mem = MemKey
    BY DEF StoreInv, MemOK
  <2>2. mem' = [k \in MemKey |-> IF k \in ConfigKey THEN Recalled(c, k) ELSE disk'[k]]
    BY <1>6, <2>1 DEF Restart, recover
  <2> QED
    BY <1>3, <2>2, Keys
<1>8. ASSUME NEW k \in ConfigKey PROVE ValueOK(k, mem'[k])
  <2>1. ValueOK(k, c[k]) /\ mem'[k] = Recalled(c, k)
    BY <1>4, <1>6, <1>7 DEF ConfigOK
  <2> QED
    BY <2>1 DEF ValueOK, Recalled, IfTrue, Indexes
<1>9. MemOK(mem')
  BY <1>7, <1>8 DEF MemOK, StoreInv, DiskOK
<1>10. ShelfOK(shelf') /\ LockOK'
  BY DEF Restart, NoKeys, ShelfOK, LockOK
<1>11. /\ DOMAIN config_change' \subseteq ConfigKey /\ flusher' = "idle"
       /\ restarts' \in 0..MaxRestarts /\ torn' \in BOOLEAN
  <2>1. DOMAIN config_change' \subseteq ConfigKey /\ flusher' = "idle"
    BY DEF Restart, NoKeys
  <2>2. restarts' \in 0..MaxRestarts
    <3>1. restarts \in 0..MaxRestarts /\ restarts < MaxRestarts /\ restarts' = restarts + 1
      BY DEF Restart, StoreInv
    <3> QED
      BY <3>1, RestartAssumption
  <2>3. torn' \in BOOLEAN
    <3>1. torn' = (torn \/ busy \in {"no log", "no index"})
      BY DEF Restart
    <3> QED
      BY <3>1
  <2> QED
    BY <2>1, <2>2, <2>3
<1>12. ASSUME NEW k \in ConfigKey \ Indexes
       PROVE  mem'[k] = disk.config[k] \/ (k \in DOMAIN shelf /\ mem'[k] = shelf[k])
  BY <1>3, <1>6, <1>7 DEF Recalled
<1> QED
  BY <1>5, <1>9, <1>10, <1>11, <1>12 DEF StoreInv

\* The types that LogStore states.
LEMMA StoreInvTypes == StoreInv => StoreTypeOK
<1> SUFFICES ASSUME StoreInv PROVE StoreTypeOK
  OBVIOUS
<1>1. MemOK(mem) /\ DOMAIN mem = MemKey
  BY DEF StoreInv, MemOK
<1>2. \A k \in Indexes : mem[k] \in Nat \cup {-1}
  BY <1>1 DEF MemOK, ValueOK, ConfigKey
<1> QED
  BY <1>1, <1>2, MemTypes
     DEF StoreInv, StoreTypeOK, EntriesOK, DbOK, DiskOK, ConfigOK, ShelfOK, LockOK
=============================================================================
