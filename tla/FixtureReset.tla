---------------------------- MODULE FixtureReset ----------------------------
(***************************************************************************)
(* What a provisioning run promises, without its statements: a run picks   *)
(* the servers it migrates and resets them one at a time, in the order of  *)
(* its connections.  A server is either at the fixture or not.  While a    *)
(* server has its turn it may be in any state; its turn ends only when it  *)
(* holds the fixture again.  No other server is touched.  A run may fail   *)
(* at any point and leave the server it was working on half built.  It     *)
(* succeeds only after every server it migrates has had its turn.          *)
(***************************************************************************)
EXTENDS Integers, Sequences

CONSTANTS
    Servers,    \* the database servers
    Order       \* the order in which a run handles them

VARIABLES
    state,      \* state[d]: "fixture" or "other"
    status,     \* "idle", "running", "ok" or "failed"
    target,     \* the servers the current or last run migrates
    done        \* the servers of the running run whose turn is over

avars == <<state, status, target, done>>

\* d comes before e in Order.
Before(d, e) == \E i, j \in 1..Len(Order) : i < j /\ Order[i] = d /\ Order[j] = e

\* d has the turn: it is migrated, not yet done, and every migrated
\* server before it is done.
Turn(d) ==
    /\ status = "running"
    /\ d \in target \ done
    /\ \A e \in target : Before(e, d) => e \in done

Init ==
    /\ state \in [Servers -> {"fixture", "other"}]
    /\ status = "idle" /\ target = {} /\ done = {}

Start ==
    /\ status # "running"
    /\ status' = "running"
    /\ target' \in SUBSET Servers
    /\ done' = {}
    /\ UNCHANGED state

Work(d) ==
    /\ Turn(d)
    /\ state' = [state EXCEPT ![d] = "other"]
    /\ UNCHANGED <<status, target, done>>

Complete(d) ==
    /\ Turn(d)
    /\ state' = [state EXCEPT ![d] = "fixture"]
    /\ done' = done \cup {d}
    /\ UNCHANGED <<status, target>>

Fail ==
    /\ status = "running"
    /\ status' = "failed" /\ done' = {}
    /\ UNCHANGED <<state, target>>

Succeed ==
    /\ status = "running"
    /\ target \subseteq done
    /\ status' = "ok"
    /\ UNCHANGED <<state, target, done>>

Next == Start \/ Fail \/ Succeed \/ \E d \in Servers : Work(d) \/ Complete(d)

Spec == Init /\ [][Next]_avars
====
