----------------------------- MODULE CommandLog -----------------------------
(***************************************************************************)
(* What the journal of a durability partition promises its callers: one    *)
(* history of commands, each applied at most once, answered with retained  *)
(* receipts, and reads that return the history as it was at one moment of  *)
(* the call.  A call may fail; a command whose PUT failed may still be     *)
(* applied while the answer is awaited or after it was given up.           *)
(* Journal implements this module (Journal!Abstract).                      *)
(***************************************************************************)
EXTENDS Naturals, Sequences

CONSTANTS Fibers, Commands, ReadHead

VARIABLES
    log,        \* the applied commands with their receipts
    unresolved, \* commands in flight that may still be applied
    pending,    \* the callers that wait for an answer
    command,    \* what a caller called last
    seen,       \* the length of the history when its call looked, if it did
    result      \* the answer to its last call

calls == <<pending, command, seen, result>>
vars == <<log, unresolved, calls>>

Applied(id) == \E k \in DOMAIN log : log[k].id = id
NoResult == [outcome |-> "none", receipt |-> 0]

Init ==
    /\ log = << >>
    /\ unresolved = {}
    /\ pending = {}
    /\ command = [c \in Fibers |-> ReadHead]
    /\ seen = [c \in Fibers |-> {}]
    /\ result = [c \in Fibers |-> NoResult]

Invoke(c, d) ==
    /\ c \notin pending
    /\ pending' = pending \cup {c}
    /\ command' = [command EXCEPT ![c] = d]
    /\ result' = [result EXCEPT ![c] = NoResult]
    /\ UNCHANGED <<log, unresolved, seen>>

\* A command that is being submitted, or is unresolved, takes effect.  PUTs
\* for the same place in the history are resolved by that: they cannot apply.
Apply(d) ==
    /\ d \in unresolved \/ \E c \in pending : command[c] = d
    /\ ~Applied(d.id)
    /\ log' = Append(log, [id |-> d.id, input |-> d.input, receipt |-> Len(log) + 1])
    /\ unresolved' \in SUBSET unresolved
    /\ UNCHANGED calls

\* The PUT of a pending command fails without saying whether it will apply.
Doubt(c) ==
    /\ c \in pending
    /\ command[c] \in Commands
    /\ ~Applied(command[c].id)
    /\ unresolved' = unresolved \cup {command[c]}
    /\ UNCHANGED <<log, calls>>

\* A pending call looks at the history, or drops what it saw to look again.
Look(c, what) ==
    /\ c \in pending
    /\ seen' = [seen EXCEPT ![c] = what]
    /\ UNCHANGED <<log, unresolved, pending, command, result>>
Observe(c) == Look(c, {Len(log)})
Forget(c) == Look(c, {})

Finish(c, outcome, receipt) ==
    /\ c \in pending
    /\ pending' = pending \ {c}
    /\ seen' = [seen EXCEPT ![c] = {}]
    /\ result' = [result EXCEPT ![c] = [outcome |-> outcome, receipt |-> receipt]]
    /\ UNCHANGED <<log, unresolved, command>>

AnswerRead(c) ==
    /\ command[c] = ReadHead
    /\ \E n \in seen[c] : Finish(c, "read", n)
AnswerCommand(c) ==
    \E k \in DOMAIN log :
        /\ command[c] \in Commands
        /\ log[k].id = command[c].id
        /\ IF log[k].input = command[c].input
           THEN Finish(c, "committed", log[k].receipt)
           ELSE Finish(c, "input-conflict", 0)

\* Every other answer; "corruption" is none of them.
Fail(c) ==
    \E o \in {"limit", "transport", "indeterminate", "contention", "rejected"} :
        Finish(c, o, 0)

\* The processes of some callers die.
Crash ==
    \E S \in SUBSET pending :
        /\ pending' = pending \ S
        /\ seen' = [c \in Fibers |-> IF c \in S THEN {} ELSE seen[c]]
        /\ result' = [c \in Fibers |->
                        IF c \in S THEN [outcome |-> "crashed", receipt |-> 0]
                        ELSE result[c]]
        /\ UNCHANGED <<log, unresolved, command>>

Next ==
    \/ \E c \in Fibers :
          \/ \E d \in Commands \cup {ReadHead} : Invoke(c, d)
          \/ Doubt(c) \/ Observe(c) \/ Forget(c)
          \/ AnswerRead(c) \/ AnswerCommand(c) \/ Fail(c)
    \/ \E d \in Commands : Apply(d)
    \/ Crash

Spec == Init /\ [][Next]_vars
=============================================================================
