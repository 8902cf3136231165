---------------------------- MODULE MCElection ----------------------------
(* Small instances of Election for TLC.                                    *)
EXTENDS Election, TLC

CONSTANTS s1, s2, s3

Empty == [term |-> 0, idx |-> -1]

\* Every log stays empty: elections are decided by terms and votes alone.
EmptyLogs == [i \in Server |-> {Empty}]

\* s3 comes to have an entry of term 1, whereupon it refuses its vote, for an
\* incomplete log, to those that have none.
Growing == [i \in Server |->
              IF i = s3 THEN {[term |-> 1, idx |-> 0]} ELSE {}]

\* s2 runs in a term that s1 also runs in, after an earlier try of s1.
Overtaken == (s1 :> {1, 2}) @@ (s2 :> {2}) @@ (s3 :> {})

\* One election of s1 and a later one of s2.
Two == (s1 :> {1}) @@ (s2 :> {2}) @@ (s3 :> {})

\* Two servers: s1 may lead term 1, s2 may run in term 2, and both in term 3.
PairAgain == (s1 :> {1, 3}) @@ (s2 :> {2, 3})

\* No server takes a put; s1 takes one.
NoPuts == [i \in Server |-> 0]
OnePut == [i \in Server |-> IF i = s1 THEN 1 ELSE 0]
=============================================================================
