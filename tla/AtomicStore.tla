---------------------------- MODULE AtomicStore ----------------------------
(***************************************************************************)
(* What clients are promised: one key-value store.  Puts are executed one  *)
(* after the other in an order that never changes; a put is executed at    *)
(* most once for each time it was requested (a client that has lost its    *)
(* connection requests again, and the code recognises that only when the   *)
(* put is the last one executed for the client); it is answered only after *)
(* it was executed.                                                        *)
(***************************************************************************)
EXTENDS Integers, Sequences, FiniteSets

CONSTANTS
  Command,   \* the puts: records with a key
  NoCommand  \* the value of a key that was never put

VARIABLES
  tries,    \* how often each put was requested
  history,  \* the puts executed, in order
  store,    \* what a Get returns for each key
  answered  \* the puts that were answered OK

storeVars == <<tries, history, store, answered>>

Executions(h, c) == Cardinality({i \in DOMAIN h : h[i] = c})

\* The store after the puts of h: for each key the last of them.
Replay(h) ==
  [k \in {c.key : c \in Command} |->
     LET ofKey == {i \in DOMAIN h : h[i].key = k}
     IN IF ofKey = {} THEN NoCommand
        ELSE h[CHOOSE i \in ofKey : \A j \in ofKey : j <= i]]

Justified(h) == \A c \in Command : Executions(h, c) <= tries[c]

\* A system that is already in use.
Init ==
  /\ tries \in [Command -> Nat]
  /\ history \in Seq(Command) /\ Justified(history)
  /\ store = Replay(history)
  /\ answered = {}

Request(c) ==
  /\ tries' = [tries EXCEPT ![c] = @ + 1]
  /\ UNCHANGED <<history, store, answered>>

\* One or more puts are executed at once.
Execute ==
  /\ Len(history') > Len(history)
  /\ SubSeq(history', 1, Len(history)) = history
  /\ Justified(history')
  /\ store' = Replay(history')
  /\ UNCHANGED <<tries, answered>>

Answer(c) ==
  /\ Executions(history, c) > 0
  /\ answered' = answered \cup {c}
  /\ UNCHANGED <<tries, history, store>>

Next == Execute \/ \E c \in Command : Request(c) \/ Answer(c)

Spec == Init /\ [][Next]_storeVars
=============================================================================
