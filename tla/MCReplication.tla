--------------------------- MODULE MCReplication ---------------------------
(* Small instances of Replication for TLC.                                 *)
EXTENDS Replication, Sequences, TLC

CONSTANTS s1, s2, s3, x, y, c1, c2

\* Requests of two clients; only A3 is for a key of its own.
A1 == [client |-> c1, seq |-> 1, key |-> x]
A2 == [client |-> c1, seq |-> 2, key |-> x]
A3 == [client |-> c1, seq |-> 3, key |-> y]
B1 == [client |-> c2, seq |-> 1, key |-> x]
B2 == [client |-> c2, seq |-> 2, key |-> x]
Commands == {A1, A2, A3, B1, B2}

\* The log with these <<term, command>> entries, of which the first n are
\* committed and applied, as the operations of Log leave it.
RECURSIVE Appended(_, _)
Appended(l, s) ==
  IF s = <<>> THEN l ELSE Appended(append(l, Head(s)[1], Head(s)[2]), Tail(s))
L(s, n) == apply(commit_upto(Appended(EmptyLog, s), n - 1))

Logs(a, b, c) == (s1 :> a) @@ (s2 :> b) @@ (s3 :> c)
Start(t, l, logs, cmds) == [term |-> t, leader |-> l, log |-> logs, todo |-> cmds]

NoCampaigns == [i \in Server |-> {}]
S2Campaigns == [i \in Server |-> IF i = s2 THEN {2} ELSE {}]

\* All logs are the same; the followers do not know the last entry committed.
SameLogs ==
  Logs(L(<<<<1, A1>>>>, 1), L(<<<<1, A1>>>>, 0), L(<<<<1, A1>>>>, 0))
\* B1 reached neither follower before the old leader s1 was replaced.
Unsent ==
  Logs(L(<<<<1, A1>>, <<1, B1>>>>, 1), L(<<<<1, A1>>>>, 0), L(<<<<1, A1>>>>, 0))
\* s3 was not reached at all.
Unreached ==
  Logs(L(<<<<1, A1>>, <<1, B1>>>>, 1), L(<<<<1, A1>>, <<1, B1>>>>, 1), EmptyLog)
\* s1 reached nobody.
Alone == Logs(L(<<<<1, A1>>, <<1, B1>>>>, 0), EmptyLog, EmptyLog)
\* s3 led term 1 and reached nobody with the second and third entry; the others
\* have gone on in term 2, with the retries of these requests.
Diverged ==
  LET new == <<<<1, A1>>, <<2, A2>>, <<2, B1>>, <<2, A3>>>>
  IN Logs(L(new, 4), L(new, 3), L(<<<<1, A1>>, <<1, B1>>, <<1, A2>>>>, 1))

\* The old leader serves two clients at once.
TwoClients == {Start(1, s1, SameLogs, {A2, B1})}
\* The new leader s2 serves one client, whatever logs it found.
Repairs == {Start(2, s2, Unsent, {A3}), Start(2, s2, Unreached, {A2}),
            Start(2, s2, Alone, {A1, A3}), Start(3, s2, Diverged, {B2})}
OneLeader == TwoClients \cup Repairs

\* Those of them that the theorems about one leader are about.
ASSUME SomeAreSettled ==
  \A s \in TwoClients \cup {Start(2, s2, Unsent, {A3}), Start(3, s2, Diverged, {B2})} :
    Settled(s)

\* Put twice only where no two threads of the leader can both come to index 0 of
\* one follower: FirstPuts shows what the second of them does.
BehindTheFirst == {A3}

\* Two clients make the first requests of all, at once.
FirstPuts == {Start(1, s1, [i \in Server |-> EmptyLog], {A1, B1})}
\* A1 was answered by s1, then s1 was killed and s2 elected.
AfterFailover == {Start(2, s2, SameLogs, {A2})}
=============================================================================
