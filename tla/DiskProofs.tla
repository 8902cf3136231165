----------------------------- MODULE DiskProofs -----------------------------
(***************************************************************************)
(* What is applied is in the log file: theorem about LogStore with the     *)
(* handlers of Node around it, for any number of crashes.                  *)
(*                                                                         *)
(* The file holds every applied index because an entry is flushed before   *)
(* the index advances, and the indexes in the config file and on the shelf *)
(* are old values of the one in memory.  A clear breaks this while it      *)
(* lasts; what a crash or an open config file makes of it is torn.  That   *)
(* the entries are the same needs what a server cannot see to: nobody      *)
(* sends another entry for an index that is committed (Settled).           *)
(***************************************************************************)
EXTENDS NodeProofs

Covers(n) == \A i \in 0..n : i \in DOMAIN disk.entries

CoverInv ==
  /\ torn \/ busy = "no log" \/
       /\ Covers(mem.last_applied_idx) /\ Covers(disk.config.last_applied_idx)
       /\ "last_applied_idx" \in DOMAIN shelf => Covers(shelf.last_applied_idx)
  /\ busy \in {"cleared", "no log", "no index"} => mem.last_applied_idx = -1
  /\ busy \in {"flushed", "stored"} => ToApply \in DOMAIN disk.entries

\* Everything that is stored comes from somewhere, and ...
FromSource(s, entries) ==
  \A i \in DOMAIN entries :
    [term |-> entries[i].term, cmd |-> entries[i].cmd] \in Sources(s, i)

\* ... what is committed, somebody has said is committed.
Within(s, n) == \E k \in Commits(s) : n <= k

SourceInv(s) ==
  /\ calls \subseteq s.calls /\ \A t \in threads : t.call \in s.calls
  /\ FromSource(s, mem.entries) /\ FromSource(s, disk.entries)
  /\ \A x \in {"last_commit_idx", "last_applied_idx"} :
       /\ Within(s, mem[x]) /\ Within(s, disk.config[x])
       /\ x \in DOMAIN shelf => Within(s, shelf[x])

DiskInv == CoverInv /\ \E s \in Setups : SourceInv(s)

LEMMA InitDisk == NodeInit => DiskInv
<1> SUFFICES ASSUME NodeInit PROVE DiskInv
  OBVIOUS
<1>1. PICK s \in Setups :
        /\ Plausible(s) /\ mem = s.mem /\ calls = s.calls
        /\ disk = [entries |-> [i \in 0..s.mem.last_applied_idx |-> s.mem.entries[i]],
                   db |-> s.mem.db, config |-> [k \in ConfigKey |-> s.mem[k]]]
        /\ config_change = NoKeys /\ shelf = NoKeys
        /\ busy = "free" /\ flusher = "idle" /\ restarts = 0 /\ torn = FALSE
  BY InitialSetup
<1>2. /\ DOMAIN mem.entries = 0..mem.log_idx /\ threads = {}
      /\ mem.last_applied_idx <= mem.last_commit_idx /\ mem.last_commit_idx <= mem.log_idx
      /\ \A k \in Indexes : mem[k] \in Nat \cup {-1}
  BY <1>1 DEF Plausible, WellFormed, NodeInit
<1>3. /\ mem.log_idx \in Nat \cup {-1} /\ mem.last_commit_idx \in Nat \cup {-1}
      /\ mem.last_applied_idx \in Nat \cup {-1}
  BY <1>2 DEF Indexes
<1>4. /\ disk.entries = [i \in 0..mem.last_applied_idx |-> mem.entries[i]]
      /\ \A k \in ConfigKey : disk.config[k] = mem[k]
      /\ DOMAIN shelf = {}
  BY <1>1 DEF NoKeys
<1>5. CoverInv
  BY <1>1, <1>4, Keys DEF CoverInv, Covers
<1>6. FromSource(s, mem.entries)
  BY <1>1 DEF FromSource, Sources
<1>7. FromSource(s, disk.entries)
  <2>1. ASSUME NEW i \in DOMAIN disk.entries
        PROVE  i \in DOMAIN mem.entries /\ disk.entries[i] = mem.entries[i]
    BY <1>2, <1>3, <1>4
  <2> QED
    BY <1>6, <2>1 DEF FromSource
<1>8. Within(s, mem.last_commit_idx) /\ Within(s, mem.last_applied_idx)
  <2>1. mem.last_commit_idx \in Commits(s)
    BY <1>1 DEF Commits
  <2>2. mem.last_commit_idx <= mem.last_commit_idx
    BY <1>3
  <2> QED
    BY <1>2, <2>1, <2>2 DEF Within
<1>9. SourceInv(s)
  BY <1>1, <1>2, <1>4, <1>6, <1>7, <1>8, Keys DEF SourceInv
<1> QED
  BY <1>5, <1>9 DEF DiskInv

LEMMA CommitsAreIndexes ==
  ASSUME NEW s \in Setups, NEW k \in Commits(s)
  PROVE  k \in Int
<1>1. Plausible(s)
  BY SetupAssumption
<1>2. s.mem.last_commit_idx \in Int
  BY <1>1 DEF Plausible, Indexes
<1>3. \A c \in s.calls : c.kind = "append" => c.commit \in Int
  BY <1>1 DEF Plausible, CallOK
<1> QED
  BY <1>2, <1>3 DEF Commits

-----------------------------------------------------------------------------
(* The invariant gives the property.                                       *)

LEMMA DiskInvGivesOnDisk ==
  ASSUME TypeInv, DiskInv, \A s \in Setups : Settled(s)
  PROVE  AppliedIsOnDisk
<1>1. PICK s \in Setups : SourceInv(s)
  BY DEF DiskInv
<1>2. /\ mem.last_applied_idx \in Int /\ disk.config.last_applied_idx \in Int
      /\ \A k \in Commits(s) : k \in Int
  <2>1. mem.last_applied_idx \in Int
    BY MemTypes DEF TypeInv, StoreInv, MemOK
  <2>2. disk.config.last_applied_idx \in Int
    <3>1. ValueOK("last_applied_idx", disk.config["last_applied_idx"])
      BY Keys DEF TypeInv, StoreInv, DiskOK, ConfigOK
    <3> QED
      BY <3>1 DEF ValueOK, Indexes
  <2> QED
    BY <2>1, <2>2, CommitsAreIndexes
<1>3. ASSUME NEW n \in {mem.last_applied_idx, disk.config.last_applied_idx},
             Covers(n), NEW i \in 0..n
      PROVE  OnDisk(i)
  <2>1. i \in DOMAIN disk.entries
    BY <1>3 DEF Covers
  <2>2. PICK k \in Commits(s) : n <= k
    BY <1>1, <1>3 DEF SourceInv, Within
  <2>3. i \in 0..k
    BY <1>2, <1>3, <2>2
  <2>4. \A a, b \in Sources(s, i) : a = b
    BY <2>2, <2>3 DEF Settled
  <2>5. ASSUME i \in DOMAIN mem.entries
        PROVE  /\ disk.entries[i].term = mem.entries[i].term
               /\ disk.entries[i].cmd = mem.entries[i].cmd
    <3> DEFINE a == [term |-> mem.entries[i].term, cmd |-> mem.entries[i].cmd]
               b == [term |-> disk.entries[i].term, cmd |-> disk.entries[i].cmd]
    <3>1. a \in Sources(s, i) /\ b \in Sources(s, i)
      BY <1>1, <2>1, <2>5 DEF SourceInv, FromSource
    <3>2. a = b
      BY <2>4, <3>1
    <3>3. a.term = b.term /\ a.cmd = b.cmd
      BY <3>2
    <3> QED
      BY <3>3
  <2> QED
    BY <2>1, <2>5 DEF OnDisk
<1> QED
  BY <1>3 DEF DiskInv, CoverInv, AppliedIsOnDisk

-----------------------------------------------------------------------------
(* The threads of the Log object.                                          *)

\* The parts of the state that the invariant is about.
Marks(m) == <<m.last_applied_idx, m.last_commit_idx>>

LEMMA CoverStays ==
  ASSUME CoverInv, mem'.last_applied_idx = mem.last_applied_idx,
         UNCHANGED <<disk, shelf, busy, torn>>
  PROVE  CoverInv'
  BY DEF CoverInv, Covers, ToApply

LEMMA SourceStays ==
  ASSUME NEW s, SourceInv(s), UNCHANGED <<calls, threads>>,
         mem'.entries = mem.entries, Marks(mem') = Marks(mem), UNCHANGED <<disk, shelf>>
  PROVE  SourceInv(s)'
  BY DEF SourceInv, FromSource, Within, Marks

\* -1 is within any bound.
LEMMA NoneWithin ==
  ASSUME NEW s \in Setups
  PROVE  Within(s, -1)
<1>1. s.mem.last_commit_idx \in Nat \cup {-1} /\ s.mem.last_commit_idx \in Commits(s)
  BY SetupAssumption DEF Plausible, Indexes, Commits
<1>2. -1 <= s.mem.last_commit_idx
  BY <1>1
<1> QED
  BY <1>1, <1>2 DEF Within

LEMMA NoneCovered == Covers(-1)
<1>1. 0..(-1) = {}
  OBVIOUS
<1> QED
  BY <1>1 DEF Covers

LEMMA ApplyKeepsDisk ==
  ASSUME TypeInv, CoverInv, NEW s \in Setups, SourceInv(s), Apply, UNCHANGED <<calls, threads>>
  PROVE  CoverInv' /\ SourceInv(s)'
<1>1. /\ DOMAIN mem = MemKey /\ DOMAIN disk = {"entries", "config", "db"}
      /\ mem.last_applied_idx \in Nat \cup {-1} /\ mem.last_commit_idx \in Nat \cup {-1}
      /\ busy \in {"flushed", "stored"} => CanApply(ToApply)
  BY MemTypes DEF TypeInv, StoreInv, MemOK, DiskOK, LockOK
<1>2. CASE ApplyFlush
  <2>1. /\ disk'.entries = Stored(disk.entries, ToApply, mem.entries[ToApply])
        /\ disk'.config = disk.config /\ mem' = mem /\ shelf' = shelf /\ torn' = torn
        /\ busy' = "flushed" /\ busy \in {"free", "next"} /\ ToApply \in DOMAIN mem.entries
    BY <1>1, <1>2 DEF ApplyFlush, CanApply
  <2>2. /\ DOMAIN disk'.entries = DOMAIN disk.entries \cup {ToApply}
        /\ disk'.entries[ToApply] = mem.entries[ToApply]
        /\ \A i \in DOMAIN disk.entries : i # ToApply => disk'.entries[i] = disk.entries[i]
    BY <2>1 DEF Stored
  <2>3. CoverInv'
    BY <2>1, <2>2 DEF CoverInv, Covers, ToApply
  <2>4. FromSource(s, disk'.entries)
    BY <2>1, <2>2 DEF SourceInv, FromSource
  <2> QED
    BY <2>1, <2>3, <2>4 DEF SourceInv, Within
<1>3. CASE ApplyPut
  <2> DEFINE cmd == mem.entries[ToApply].cmd
  <2>1. /\ mem' = [mem EXCEPT !.db[cmd.key] = cmd]
        /\ disk' = [disk EXCEPT !.db[cmd.key] = cmd]
        /\ shelf' = shelf /\ torn' = torn /\ busy = "flushed" /\ busy' = "stored"
    BY <1>3 DEF ApplyPut
  <2> HIDE DEF cmd
  <2>2. /\ mem'.entries = mem.entries /\ Marks(mem') = Marks(mem)
        /\ disk'.entries = disk.entries /\ disk'.config = disk.config
    BY <1>1, <2>1, Keys DEF Marks
  <2> QED
    BY <2>1, <2>2 DEF CoverInv, Covers, ToApply, Marks, SourceInv, FromSource, Within
<1>4. CASE ApplyAdvance
  <2>1. /\ mem'.entries = mem.entries /\ mem'.last_commit_idx = mem.last_commit_idx
        /\ mem'.last_applied_idx = ToApply /\ UNCHANGED <<disk, shelf, torn>>
        /\ busy = "stored" /\ busy' \in {"next", "free"}
    BY <1>1, <1>4, Keys DEF ApplyAdvance
  <2>2. CoverInv'
    <3>1. ~torn => Covers(ToApply)
      <4>1. ASSUME NEW i \in 0..ToApply, ~torn PROVE i \in DOMAIN disk.entries
        <5>1. i \in 0..mem.last_applied_idx \/ i = ToApply
          BY <1>1 DEF ToApply
        <5> QED
          BY <2>1, <4>1, <5>1 DEF CoverInv, Covers
      <4> QED
        BY <4>1 DEF Covers
    <3> QED
      BY <2>1, <3>1 DEF CoverInv, Covers
  <2>3. Within(s, mem'.last_applied_idx)
    <3>1. ToApply <= mem.last_commit_idx /\ ToApply \in Int
      BY <1>1, <2>1 DEF CanApply, ToApply
    <3>2. PICK k \in Commits(s) : mem.last_commit_idx <= k
      BY DEF SourceInv, Within
    <3>3. k \in Int
      BY CommitsAreIndexes
    <3>4. ToApply <= k
      BY <1>1, <3>1, <3>2, <3>3
    <3> QED
      BY <2>1, <3>4 DEF Within
  <2> QED
    BY <2>1, <2>2, <2>3 DEF SourceInv, FromSource, Within
<1> QED
  BY <1>2, <1>3, <1>4 DEF Apply

LEMMA ClearMemoryKeepsDisk ==
  ASSUME TypeInv, CoverInv, NEW s \in Setups, SourceInv(s), ClearMemory
  PROVE  /\ CoverInv' /\ FromSource(s, mem'.entries)
         /\ Within(s, mem'.last_commit_idx) /\ Within(s, mem'.last_applied_idx)
         /\ UNCHANGED <<disk, shelf>>
<1>1. DOMAIN mem = MemKey
  BY DEF TypeInv, StoreInv, MemOK
<1>2. /\ DOMAIN mem'.entries = {} /\ mem'.last_applied_idx = -1 /\ mem'.last_commit_idx = -1
      /\ busy = "free" /\ busy' = "cleared" /\ UNCHANGED <<disk, shelf, torn>>
  BY <1>1, Keys DEF ClearMemory, clear, EmptyLog, Free
<1>3. Covers(mem'.last_applied_idx)
  BY <1>2, NoneCovered
<1>4. CoverInv'
  BY <1>2, <1>3 DEF CoverInv, Covers
<1> QED
  BY <1>2, <1>4, NoneWithin DEF FromSource

LEMMA ClearBackupKeepsDisk ==
  ASSUME TypeInv, CoverInv, NEW s \in Setups, SourceInv(s), clear_log_backup,
         UNCHANGED <<calls, threads>>
  PROVE  CoverInv' /\ SourceInv(s)'
<1>1. /\ DOMAIN mem = MemKey /\ DOMAIN disk = {"entries", "config", "db"}
      /\ torn \in BOOLEAN
  BY DEF TypeInv, StoreInv, MemOK, DiskOK
<1>2. CASE ClearLogFile
  <2>1. /\ DOMAIN disk'.entries = {} /\ disk'.config = disk.config
        /\ UNCHANGED <<mem, shelf, torn>> /\ busy = "cleared" /\ busy' = "no log"
    BY <1>1, <1>2 DEF ClearLogFile, EmptyLog
  <2> QED
    BY <2>1 DEF CoverInv, Covers, SourceInv, FromSource, Within
<1>3. CASE ClearConfigFile
  <2>1. /\ disk'.entries = disk.entries
        /\ disk'.config = [k \in ConfigKey |-> IF k \in Indexes THEN mem[k]
                                              ELSE disk.config[k]]
        /\ UNCHANGED <<mem, shelf>> /\ busy = "no log" /\ busy' = "no index"
        /\ torn' = (torn \/ DOMAIN shelf \cap Indexes # {})
    BY <1>1, <1>3 DEF ClearConfigFile
  <2>2. \A k \in Indexes : disk'.config[k] = mem[k]
    BY <2>1, Keys DEF Indexes
  <2>3. mem.last_applied_idx = -1
    BY <2>1 DEF CoverInv
  <2>4. CoverInv'
    <3>1. ~torn' => "last_applied_idx" \notin DOMAIN shelf
      BY <2>1 DEF Indexes
    <3>2. Covers(-1)'
      <4>1. 0..(-1) = {}
        OBVIOUS
      <4> QED
        BY <4>1 DEF Covers
    <3>3. disk'.config.last_applied_idx = -1
      BY <2>2, <2>3 DEF Indexes
    <3> QED
      BY <2>1, <2>3, <3>1, <3>2, <3>3 DEF CoverInv
  <2> QED
    BY <2>1, <2>2, <2>4 DEF SourceInv, FromSource, Within, Indexes
<1>4. CASE ClearDatabase
  <2>1. /\ disk'.entries = disk.entries /\ disk'.config = disk.config
        /\ mem'.entries = mem.entries /\ Marks(mem') = Marks(mem)
        /\ UNCHANGED <<shelf, torn>> /\ busy = "no index" /\ busy' = "free"
    BY <1>1, <1>4, Keys DEF ClearDatabase, Marks
  <2> QED
    BY <2>1 DEF CoverInv, Covers, Marks, SourceInv, FromSource, Within
<1> QED
  BY <1>2, <1>3, <1>4 DEF clear_log_backup

LEMMA FlushKeepsDisk ==
  ASSUME TypeInv, CoverInv, NEW s \in Setups, SourceInv(s), flush_config,
         UNCHANGED <<calls, threads>>
  PROVE  CoverInv' /\ SourceInv(s)'
<1>1. CASE FlushBegins
  BY <1>1 DEF FlushBegins, Free, CoverInv, Covers, SourceInv, FromSource, Within
<1>2. CASE FlushCollects
  <2>1. /\ \A k \in DOMAIN shelf' : shelf'[k] = mem[k]
        /\ UNCHANGED <<mem, disk, torn>> /\ busy = "flushing" /\ busy' = "free"
    BY <1>2 DEF FlushCollects, Collected
  <2> QED
    BY <2>1 DEF CoverInv, Covers, SourceInv, FromSource, Within
<1>3. CASE FlushCloses
  <2>1. /\ disk'.entries = disk.entries
        /\ disk'.config = [k \in ConfigKey |-> IF k \notin DOMAIN shelf THEN disk.config[k]
                                              ELSE IF k \in Aliased THEN mem[k] ELSE shelf[k]]
        /\ DOMAIN shelf' = {} /\ UNCHANGED <<mem, torn, busy>>
    BY <1>3 DEF FlushCloses, NoKeys, TypeInv, StoreInv, DiskOK
  <2>2. \A k \in {"last_commit_idx", "last_applied_idx"} :
          \/ disk'.config[k] = disk.config[k]
          \/ k \in DOMAIN shelf /\ disk'.config[k] = shelf[k]
    BY <2>1, Keys DEF Aliased
  <2>3. CoverInv'
    BY <2>1, <2>2 DEF CoverInv, Covers, ToApply
  <2> QED
    BY <2>1, <2>2, <2>3 DEF SourceInv, FromSource, Within
<1> QED
  BY <1>1, <1>2, <1>3 DEF flush_config

LEMMA SetFlagsKeepsDisk ==
  ASSUME TypeInv, CoverInv, NEW s \in Setups, SourceInv(s), NEW keys, SetFlags(keys)
  PROVE  /\ CoverInv' /\ UNCHANGED <<mem, shelf>> /\ disk'.entries = disk.entries
         /\ \A k \in {"last_commit_idx", "last_applied_idx"} :
              disk'.config[k] \in {disk.config[k], mem[k]}
<1>1. CASE busy = "flushing" /\ ~(keys \subseteq DOMAIN config_change)
  <2>1. PICK done \in SUBSET Changed :
          /\ disk' = [disk EXCEPT !.config =
                        [k \in ConfigKey |-> IF k \in done THEN mem[k] ELSE @[k]]]
          /\ busy' = "free" /\ UNCHANGED <<mem, shelf, torn>>
    BY <1>1 DEF SetFlags
  <2>2. /\ disk'.entries = disk.entries
        /\ disk'.config = [k \in ConfigKey |-> IF k \in done THEN mem[k] ELSE disk.config[k]]
    BY <2>1 DEF TypeInv, StoreInv, DiskOK
  <2>3. \A k \in {"last_commit_idx", "last_applied_idx"} :
          disk'.config[k] \in {disk.config[k], mem[k]}
    BY <2>2, Keys
  <2>4. CoverInv'
    BY <1>1, <2>1, <2>2, <2>3 DEF CoverInv, Covers
  <2> QED
    BY <2>1, <2>2, <2>3, <2>4
<1>2. CASE ~(busy = "flushing" /\ ~(keys \subseteq DOMAIN config_change))
  <2>1. UNCHANGED <<mem, disk, busy, shelf, torn>>
    BY <1>2 DEF SetFlags
  <2> QED
    BY <2>1, CoverStays
<1> QED
  BY <1>1, <1>2

\* A crash: what recover makes of the files.
LEMMA RestartKeepsDisk ==
  ASSUME TypeInv, CoverInv, NEW s \in Setups, SourceInv(s), Restart,
         calls' \subseteq calls, threads' = {}
  PROVE  CoverInv' /\ SourceInv(s)'
<1>1. PICK done \in SUBSET DOMAIN shelf :
        disk' = [disk EXCEPT !.config = [k \in ConfigKey |-> IF k \in done THEN shelf[k]
                                                            ELSE disk.config[k]]]
  BY DEF Restart
<1>2. /\ disk'.entries = disk.entries
      /\ disk'.config = [k \in ConfigKey |-> IF k \in done THEN shelf[k] ELSE disk.config[k]]
  BY <1>1 DEF TypeInv, StoreInv, DiskOK
<1>3. /\ mem'.entries = disk.entries
      /\ \A k \in {"last_commit_idx", "last_applied_idx"} :
           mem'[k] = disk'.config[k] \/ mem'[k] = -1
  <2>1. DOMAIN mem = MemKey
    BY DEF TypeInv, StoreInv, MemOK
  <2>2. mem' = [k \in MemKey |-> IF k \in ConfigKey THEN Recalled(disk'.config, k)
                                ELSE disk'[k]]
    BY <2>1 DEF Restart, recover
  <2>3. \A k \in Indexes : mem'[k] = IfTrue(disk'.config[k])
    BY <2>2, Keys DEF Recalled, Indexes
  <2> QED
    BY <1>2, <2>2, <2>3, Keys DEF IfTrue, Indexes
<1>4. \A k \in {"last_commit_idx", "last_applied_idx"} :
        \/ disk'.config[k] = disk.config[k]
        \/ k \in DOMAIN shelf /\ disk'.config[k] = shelf[k]
  BY <1>2, Keys
<1>5. /\ DOMAIN shelf' = {} /\ busy' = "free"
      /\ torn' = (torn \/ busy \in {"no log", "no index"})
  BY DEF Restart, NoKeys
<1>6. CoverInv'
  <2>1. ~torn' => Covers(disk'.config.last_applied_idx)
    <3>1. torn \in BOOLEAN
      BY DEF TypeInv, StoreInv
    <3> QED
      BY <1>4, <1>5, <3>1 DEF CoverInv
  <2>2. ~torn' => Covers(mem'.last_applied_idx)
    BY <1>3, <2>1, NoneCovered
  <2> QED
    BY <1>2, <1>5, <2>1, <2>2 DEF CoverInv, Covers
<1>7. SourceInv(s)'
  <2>1. \A k \in {"last_commit_idx", "last_applied_idx"} :
          Within(s, disk'.config[k]) /\ Within(s, mem'[k])
    BY <1>3, <1>4, NoneWithin DEF SourceInv
  <2> QED
    BY <1>2, <1>3, <1>5, <2>1 DEF SourceInv, FromSource, Within
<1> QED
  BY <1>6, <1>7

-----------------------------------------------------------------------------
(* The handlers.                                                           *)

\* What a handler may do: move the threads, and change the entries and the indexes in
\* memory as the sources have it.
LEMMA HandlerKeepsSource ==
  ASSUME NEW s, SourceInv(s), calls' = calls,
         \A u \in threads' : \E v \in threads : u.call = v.call,
         FromSource(s, mem'.entries),
         Within(s, mem'.last_commit_idx), Within(s, mem'.last_applied_idx),
         UNCHANGED <<disk, shelf>>
  PROVE  SourceInv(s)'
  BY DEF SourceInv, FromSource, Within

LEMMA MovingKeepsCalls ==
  ASSUME NEW t \in threads, MovesOn(t)
  PROVE  \A u \in threads' : \E v \in threads : u.call = v.call
  BY DEF MovesOn, Ends, GoesOn

LEMMA LookingKeepsDisk ==
  ASSUME TypeInv, CoverInv, NEW s \in Setups, SourceInv(s), NEW t \in threads,
         ReadSteps(t) \/ CountSteps(t) \/ CompareSteps(t)
  PROVE  CoverInv' /\ SourceInv(s)'
<1>1. UNCHANGED storeVars /\ MovesOn(t) /\ calls' = calls
  BY ReadStepsMove, CountStepsMove, CompareStepsMove
<1>2. CoverInv'
  BY <1>1, CoverStays DEF storeVars
<1> QED
  BY <1>1, <1>2, HandlerKeepsSource, MovingKeepsCalls DEF storeVars, SourceInv

\* The methods on the election state leave the log alone.
LEMMA ElectionKeepsDisk ==
  ASSUME TypeInv, CoverInv, NEW s \in Setups, SourceInv(s), NEW t \in threads,
         ElectionSteps(t)
  PROVE  CoverInv' /\ SourceInv(s)'
<1>1. MovesOn(t) /\ calls' = calls
  BY ElectionStepsEffect DEF ElectionEffect
<1>2. PICK m, keys : Changes(t, m, keys) /\ m.entries = mem.entries /\ Marks(m) = Marks(mem)
  <2>1. DOMAIN mem = MemKey
    BY DEF TypeInv, StoreInv, MemOK
  <2>2. ASSUME NEW term, NEW leader
        PROVE  LET m == revert_to_follower(mem, term, leader)
               IN m.entries = mem.entries /\ Marks(m) = Marks(mem)
    BY <2>1, Keys DEF revert_to_follower, Marks
  <2>3. CASE StepDown(t) \/ AcceptHeartbeat(t) \/ LearnTerm(t)
    <3>1. PICK term, leader : StepsDown(t, term, leader)
      BY <2>3 DEF StepDown, AcceptHeartbeat, LearnTerm
    <3> DEFINE m == revert_to_follower(mem, term, leader)
               keys == {k \in {"status", "term", "leader_id"} : m[k] # mem[k]}
    <3>2. Changes(t, m, keys)
      BY <3>1 DEF StepsDown
    <3>3. m.entries = mem.entries /\ Marks(m) = Marks(mem)
      BY <2>2
    <3> HIDE DEF m, keys
    <3> QED
      BY <3>2, <3>3
  <2>4. ASSUME NEW term, NEW candidate
        PROVE  LET m == cast_vote(mem, term, candidate)
               IN m.entries = mem.entries /\ Marks(m) = Marks(mem) /\ DOMAIN m = MemKey
    BY <2>1, Keys DEF cast_vote, Marks
  <2>5. CASE CastVote(t)
    <3> DEFINE m == cast_vote(mem, t.call.term, t.call.from)
    <3>1. Changes(t, m, {})
      BY <2>5 DEF CastVote
    <3>2. m.entries = mem.entries /\ Marks(m) = Marks(mem)
      BY <2>4
    <3> HIDE DEF m
    <3> QED
      BY <3>1, <3>2
  <2>6. CASE Run(t)
    <3> DEFINE n == cast_vote(mem, mem.term + 1, Self)
               m == set_self_candidate(mem)
    <3>1. n.entries = mem.entries /\ Marks(n) = Marks(mem) /\ DOMAIN n = MemKey
      BY <2>4
    <3>2. m = [n EXCEPT !.status = "CANDIDATE"]
      BY DEF set_self_candidate
    <3>3. Changes(t, m, {})
      BY <2>6 DEF Run
    <3> HIDE DEF n, m
    <3>4. m.entries = mem.entries /\ Marks(m) = Marks(mem)
      BY <3>1, <3>2, Keys DEF Marks
    <3> QED
      BY <3>3, <3>4
  <2>7. CASE ForgetLeader(t)
    <3> DEFINE m == [mem EXCEPT !.leader_id = Nobody]
    <3>1. m.entries = mem.entries /\ Marks(m) = Marks(mem)
      BY <2>1, Keys DEF Marks
    <3>2. Changes(t, m, {})
      BY <2>7 DEF ForgetLeader
    <3> HIDE DEF m
    <3> QED
      BY <3>1, <3>2
  <2>8. CASE Lead(t)
    <3> DEFINE m == set_self_leader(mem)
    <3>1. m.entries = mem.entries /\ Marks(m) = Marks(mem)
      BY <2>1, Keys DEF Marks, set_self_leader
    <3>2. Changes(t, m, {})
      BY <2>8 DEF Lead
    <3> HIDE DEF m
    <3> QED
      BY <3>1, <3>2
  <2>9. CASE UpdateTerm(t)
    <3> DEFINE m == update_term(mem, t.call.term)
    <3>1. m.entries = mem.entries /\ Marks(m) = Marks(mem)
      BY <2>1, Keys DEF Marks, update_term
    <3>2. Changes(t, m, {})
      BY <2>9 DEF UpdateTerm
    <3> HIDE DEF m
    <3> QED
      BY <3>1, <3>2
  <2> QED
    BY <2>3, <2>5, <2>6, <2>7, <2>8, <2>9 DEF ElectionSteps
<1>3. /\ mem'.entries = mem.entries /\ Marks(mem') = Marks(mem)
      /\ UNCHANGED <<disk, shelf, busy, torn>>
  BY <1>2 DEF Changes
<1>4. CoverInv'
  BY <1>3, CoverStays DEF Marks
<1> QED
  BY <1>1, <1>3, <1>4, HandlerKeepsSource, MovingKeepsCalls DEF Marks, SourceInv

\* An entry that is stored is that of the call.
LEMMA StoringKeepsSource ==
  ASSUME NEW s, NEW c \in s.calls, c.kind = "append", NEW entries, FromSource(s, entries),
         NEW i, c.prev \in {-1, i - 1}
  PROVE  FromSource(s, Stored(entries, i, Uncommitted(c.entry_term, c.cmd)))
<1> DEFINE new == Uncommitted(c.entry_term, c.cmd)
           after == Stored(entries, i, new)
<1>1. new.term = c.entry_term /\ new.cmd = c.cmd
  BY DEF Uncommitted
<1>2. [term |-> c.entry_term, cmd |-> c.cmd] \in Sources(s, i)
  BY DEF Sources
<1>3. ASSUME NEW j \in DOMAIN after
      PROVE  IF j = i THEN after[j] = new ELSE j \in DOMAIN entries /\ after[j] = entries[j]
  BY DEF Stored
<1> HIDE DEF new, after
<1>4. FromSource(s, after)
  BY <1>1, <1>2, <1>3 DEF FromSource
<1> QED
  BY <1>4 DEF new, after

LEMMA StoringKeepsDisk ==
  ASSUME TypeInv, CoverInv, NEW s \in Setups, SourceInv(s), NEW t \in threads, LogSteps(t)
  PROVE  CoverInv' /\ SourceInv(s)'
<1>1. /\ MovesOn(t) /\ calls' = calls /\ t.call.kind = "append" /\ t.call \in s.calls
      /\ FromSource(s, mem.entries)
  BY LogStepsEffect DEF LogEffect, SourceInv
<1>2. PICK m, keys : /\ Stores(m, keys)
                     /\ \/ FirstEntry(t) /\ m = append(mem, t.call.entry_term, t.call.cmd)
                        \/ Insert(t) /\ m = insert_at(mem, t.call.prev + 1, t.call.entry_term,
                                                      t.call.cmd)
                        \/ \E upto : /\ CommitUpTo(t) /\ m = commit_upto(mem, upto)
                                     /\ upto = IF t.call.commit < t.idx THEN t.call.commit
                                               ELSE t.idx
  BY DEF LogSteps, FirstEntry, Insert, CommitUpTo
<1>3. mem' = m /\ UNCHANGED <<disk, shelf, busy, torn>>
  BY <1>2 DEF Stores
<1>4. /\ DOMAIN mem = MemKey /\ mem.last_commit_idx \in Nat \cup {-1}
      /\ mem.log_idx \in Nat \cup {-1}
  BY MemTypes DEF TypeInv, StoreInv, MemOK
<1>5. mem'.last_applied_idx = mem.last_applied_idx
  BY <1>2, <1>3, <1>4, Keys DEF append, insert_at, commit_upto
<1>6. FromSource(s, mem'.entries)
  <2>1. CASE FirstEntry(t)
    <3>1. PICK i : /\ i = mem.log_idx + 1 /\ t.call.prev = -1
                   /\ mem'.entries = Stored(mem.entries, i, Uncommitted(t.call.entry_term,
                                                                       t.call.cmd))
      BY <2>1, FirstEntryEffect
    <3>2. t.call.prev \in {-1, i - 1}
      BY <3>1
    <3>3. mem'.entries = Stored(mem.entries, i, Uncommitted(t.call.entry_term, t.call.cmd))
      BY <3>1
    <3> QED
      BY <1>1, <3>2, <3>3, StoringKeepsSource
  <2>2. CASE Insert(t)
    <3>1. t.call.prev \in Nat
      BY <2>2, InsertEffect
    <3>2. PICK i : i = t.call.prev + 1
      OBVIOUS
    <3>3. t.call.prev \in {-1, i - 1}
      BY <3>1, <3>2
    <3>4. \/ mem'.entries = mem.entries
          \/ mem'.entries = Stored(mem.entries, i, Uncommitted(t.call.entry_term, t.call.cmd))
      BY <2>2, <3>2, InsertEffect DEF SameLog
    <3> QED
      BY <1>1, <3>3, <3>4, StoringKeepsSource
  <2>3. CASE CommitUpTo(t)
    BY <1>1, <2>3, CommitUpToEffect DEF FromSource
  <2> QED
    BY <1>2, <2>1, <2>2, <2>3
<1>7. Within(s, mem'.last_commit_idx)
  <2>1. CASE FirstEntry(t) \/ Insert(t)
    <3>1. ~CommitUpTo(t)
      BY <2>1 DEF FirstEntry, Insert, CommitUpTo, At
    <3>2. mem'.last_commit_idx = mem.last_commit_idx
      BY <1>2, <1>3, <1>4, <3>1, Keys DEF append, insert_at
    <3> QED
      BY <3>2 DEF SourceInv
  <2>2. CASE CommitUpTo(t)
    <3>1. ~FirstEntry(t) /\ ~Insert(t)
      BY <2>2 DEF FirstEntry, Insert, CommitUpTo, At
    <3>2. PICK upto : /\ m = commit_upto(mem, upto)
                      /\ upto = IF t.call.commit < t.idx THEN t.call.commit ELSE t.idx
      BY <1>2, <3>1
    <3>3. t.call.commit \in Commits(s) /\ t.call.commit \in Int /\ t.idx \in Int
      <4>1. t.call.commit \in Commits(s)
        BY <1>1 DEF Commits
      <4>2. ThreadOK(t)
        BY DEF TypeInv, HandlersInv
      <4>3. t.idx \in Int
        BY <4>2 DEF ThreadOK
      <4> QED
        BY <4>1, <4>3, CommitsAreIndexes
    <3>4. upto \in Int /\ upto <= t.call.commit
      BY <3>2, <3>3
    <3>5. mem'.last_commit_idx = mem.last_commit_idx \/ mem'.last_commit_idx <= upto
      <4> DEFINE to == IF upto < mem.log_idx THEN upto ELSE mem.log_idx
      <4>1. to <= upto
        BY <1>4, <3>4
      <4>2. m.last_commit_idx \in {mem.last_commit_idx, to}
        BY <1>4, <3>2, Keys DEF commit_upto
      <4> HIDE DEF to
      <4> QED
        BY <1>3, <4>1, <4>2
    <3>6. CASE mem'.last_commit_idx = mem.last_commit_idx
      BY <3>6 DEF SourceInv
    <3>7. CASE mem'.last_commit_idx <= upto /\ mem'.last_commit_idx # mem.last_commit_idx
      <4>1. mem'.last_commit_idx \in Int
        <5>1. StoreInv'
          BY LogStepsEffect DEF LogEffect
        <5> QED
          BY <5>1, MemTypes DEF StoreInv, MemOK
      <4>2. mem'.last_commit_idx <= t.call.commit
        BY <3>3, <3>4, <3>7, <4>1
      <4> QED
        BY <3>3, <4>2 DEF Within
    <3> QED
      BY <3>5, <3>6, <3>7
  <2> QED
    BY <1>2, <2>1, <2>2
<1>8. CoverInv'
  BY <1>3, <1>5, CoverStays
<1>9. Within(s, mem'.last_applied_idx)
  BY <1>5 DEF SourceInv
<1> QED
  BY <1>1, <1>3, <1>6, <1>7, <1>8, <1>9, HandlerKeepsSource, MovingKeepsCalls

LEMMA ClearKeepsDisk ==
  ASSUME TypeInv, CoverInv, NEW s \in Setups, SourceInv(s), NEW t \in threads, Clear(t)
  PROVE  CoverInv' /\ SourceInv(s)'
<1>1. ClearMemory /\ calls' = calls
  BY DEF Clear, Quiet
<1>2. /\ CoverInv' /\ FromSource(s, mem'.entries)
      /\ Within(s, mem'.last_commit_idx) /\ Within(s, mem'.last_applied_idx)
      /\ UNCHANGED <<disk, shelf>>
  BY <1>1, ClearMemoryKeepsDisk
<1>3. \A u \in threads' : \E v \in threads : u.call = v.call
  <2>1. PICK u : u.call = t.call /\ WipeOthers(t, u)
    BY ClearEffect
  <2>2. ASSUME NEW v \in threads PROVE [v EXCEPT !.wiped = TRUE].call = v.call
    OBVIOUS
  <2> QED
    BY <2>1, <2>2 DEF WipeOthers
<1> QED
  BY <1>1, <1>2, <1>3, HandlerKeepsSource

LEMMA FlagsSetKeepsDisk ==
  ASSUME TypeInv, CoverInv, NEW s \in Setups, SourceInv(s), NEW t \in threads, FlagsSet(t)
  PROVE  CoverInv' /\ SourceInv(s)'
<1>1. SetFlags(t.dirty)
  BY DEF FlagsSet
<1>2. /\ CoverInv' /\ UNCHANGED <<mem, shelf>> /\ disk'.entries = disk.entries
      /\ \A k \in {"last_commit_idx", "last_applied_idx"} :
           disk'.config[k] \in {disk.config[k], mem[k]}
  BY <1>1, SetFlagsKeepsDisk
<1>3. calls' = calls /\ \A u \in threads' : \E v \in threads : u.call = v.call
  BY FlagsSetEffect, MovingKeepsCalls
<1> QED
  BY <1>2, <1>3 DEF SourceInv, FromSource, Within

LEMMA DiskPreserved ==
  ASSUME TypeInv, DiskInv, [Next]_vars
  PROVE  DiskInv'
<1>1. PICK s \in Setups : SourceInv(s)
  BY DEF DiskInv
<1>2. CoverInv
  BY DEF DiskInv
<1>3. CoverInv' /\ SourceInv(s)'
  <2>1. CASE UNCHANGED vars
    BY <1>1, <1>2, <2>1, CoverStays, SourceStays DEF vars, storeVars, nodeVars
  <2>2. ASSUME NEW c \in calls,
              GetTerm(c) \/ TimeOut(c) \/ GetReply(c) \/ GetRedirect(c)
        PROVE  CoverInv' /\ SourceInv(s)'
    <3>1. UNCHANGED storeVars
      BY <2>2, BeginsEffect DEF Looks
    <3>2. PICK pc : Begins(c, pc)
      BY <2>2, BeginsEffect
    <3>3. Thread(c, pc).call = c
      BY DEF Thread
    <3>4. CoverInv'
      BY <1>2, <3>1, CoverStays DEF storeVars
    <3> QED
      BY <1>1, <3>1, <3>2, <3>3, <3>4 DEF Begins, storeVars, SourceInv, FromSource, Within
  <2>3. ASSUME NEW t \in threads, ThreadStep(t) PROVE CoverInv' /\ SourceInv(s)'
    BY <1>1, <1>2, <2>3, ThreadSteps, FlagsSetKeepsDisk, LookingKeepsDisk, ElectionKeepsDisk,
       StoringKeepsDisk, ClearKeepsDisk
  <2>4. CASE LogThreads
    <3>1. UNCHANGED <<calls, threads>>
      BY <2>4 DEF LogThreads, nodeVars
    <3> QED
      BY <1>1, <1>2, <2>4, <3>1, ApplyKeepsDisk, ClearBackupKeepsDisk, FlushKeepsDisk
         DEF LogThreads
  <2>5. CASE Crash
    <3>1. Restart /\ calls' \subseteq calls /\ threads' = {}
      BY <2>5 DEF Crash
    <3> QED
      BY <1>1, <1>2, <3>1, RestartKeepsDisk
  <2> QED
    BY <2>1, <2>2, <2>3, <2>4, <2>5 DEF Next
<1> QED
  BY <1>3 DEF DiskInv

\* However the handlers, the apply thread and flush_config overlap, and whenever the server
\* crashes: the entries that it has applied, and those up to the applied index that the
\* config file gives back, are in the log file, the same as in memory, unless a clear was
\* cut short or overtaken.  No other entry comes for an index that is committed.
THEOREM AppliedEntriesAreOnDisk ==
  ASSUME \A s \in Setups : Settled(s)
  PROVE  Spec => []AppliedIsOnDisk
<1>1. NodeInit => TypeInv /\ DiskInv
  BY InitTypes, InitDisk
<1>2. TypeInv /\ DiskInv /\ [Next]_vars => (TypeInv /\ DiskInv)'
  BY TypesPreserved, DiskPreserved
<1>3. TypeInv /\ DiskInv => AppliedIsOnDisk
  BY DiskInvGivesOnDisk
<1> QED
  BY <1>1, <1>2, <1>3, PTL DEF Spec
=============================================================================
