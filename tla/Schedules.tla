------------------------------ MODULE Schedules ------------------------------
(***************************************************************************)
(* Recurring schedules: scheduler activations claim what is due, admit the *)
(* Run of each claimed occurrence and advance the schedule.  Activations   *)
(* die and are replaced, and the lease of a claim runs out while its owner *)
(* is still admitting.  Sources: runtime/execution/trigger/scheduler.ts,   *)
(* runtime/state/store/trigger/schedule.ts and runtime/durability.         *)
(*                                                                         *)
(* Left out: the instants themselves (a schedule is due or is not), rules  *)
(* whose next instant cannot be represented, the drain's fuel, and the     *)
(* limit of 16 claims, which the schedules of this model do not reach.     *)
(***************************************************************************)
EXTENDS Naturals

CONSTANTS
    Schedule,       \* schedule ids
    Activations,    \* scheduler activations that run side by side
    Nobody, Gone,   \* no claim; the claim of an activation that has died
    MaxOccurrence,  \* bound: occurrences of a schedule
    MaxScheduleFaults \* bound: activations that die, live claims that run out

ASSUME SchedulesAssumption ==
    /\ Nobody \notin Activations /\ Gone \notin Activations /\ Nobody # Gone
    /\ MaxOccurrence \in Nat /\ MaxScheduleFaults \in Nat

VARIABLES
    schedules,  \* the stored record and claim of each schedule
    advanced,   \* receipts of advanceSchedule commands: (activation, schedule, occurrence)
    admitted,   \* the occurrences of each schedule that have a Run
    firing,     \* the claimed occurrence every activation has still to fire
    scheduleFaults

scheduleVars == <<schedules, advanced, admitted, firing, scheduleFaults>>

Occurrence == 0..MaxOccurrence
Nothing == MaxOccurrence + 1
ScheduleRecord == [occurrence : Occurrence, registered : BOOLEAN, due : BOOLEAN,
                   owner : Activations \cup {Nobody, Gone}, lapsed : BOOLEAN]

SchedulesTypeOK ==
    /\ schedules \in [Schedule -> ScheduleRecord]
    /\ advanced \subseteq Activations \X Schedule \X Occurrence
    /\ admitted \in [Schedule -> SUBSET Occurrence]
    /\ firing \in [Activations -> [Schedule -> Occurrence \cup {Nothing}]]
    /\ scheduleFaults \in 0..MaxScheduleFaults

SchedulesInit ==
    /\ schedules = [s \in Schedule |-> [occurrence |-> 0, registered |-> FALSE, due |-> FALSE,
                                        owner |-> Nobody, lapsed |-> FALSE]]
    /\ advanced = {}
    /\ admitted = [s \in Schedule |-> {}]
    /\ firing = [a \in Activations |-> [s \in Schedule |-> Nothing]]
    /\ scheduleFaults = 0

-----------------------------------------------------------------------------
\* Mutant: a claim that has run out still counts.
AvailableMutant(s) == schedules[s].due /\ schedules[s].owner = Nobody
Available(s) ==
    /\ schedules[s].due
    /\ schedules[s].owner = Nobody \/ schedules[s].lapsed
Fires(a, s) == firing[a][s] # Nothing

Register(s) ==
    /\ ~schedules[s].registered
    /\ schedules' = [schedules EXCEPT ![s].registered = TRUE]
    /\ UNCHANGED <<advanced, admitted, firing, scheduleFaults>>

\* Mutant: the schedule falls due after its last occurrence.
FallsDueMutant(s) ==
    /\ schedules[s].registered /\ ~schedules[s].due
    /\ schedules' = [schedules EXCEPT ![s].due = TRUE]
    /\ UNCHANGED <<advanced, admitted, firing, scheduleFaults>>
FallsDue(s) ==
    /\ schedules[s].registered /\ ~schedules[s].due
    /\ schedules[s].occurrence < MaxOccurrence
    /\ schedules' = [schedules EXCEPT ![s].due = TRUE]
    /\ UNCHANGED <<advanced, admitted, firing, scheduleFaults>>

\* The drains of an activation are serialized: it claims when it fires nothing.
ClaimDue(a) ==
    /\ \A s \in Schedule : ~Fires(a, s)
    /\ \E s \in Schedule : Available(s)
    /\ schedules' = [s \in Schedule |->
            IF Available(s) THEN [schedules[s] EXCEPT !.owner = a, !.lapsed = FALSE]
            ELSE schedules[s]]
    /\ firing' = [firing EXCEPT ![a] =
            [s \in Schedule |-> IF Available(s) THEN schedules[s].occurrence ELSE Nothing]]
    /\ UNCHANGED <<advanced, admitted, scheduleFaults>>

\* startExecution is idempotent by schedule and occurrence.
Admit(a, s) ==
    /\ Fires(a, s)
    /\ firing[a][s] \notin admitted[s]
    /\ admitted' = [admitted EXCEPT ![s] = @ \cup {firing[a][s]}]
    /\ UNCHANGED <<schedules, advanced, firing, scheduleFaults>>

\* Mutant: any advance changes the schedule.
ClaimedForMutant(a, s, k) == TRUE
\* An advance changes a schedule that is still claimed for the occurrence it fired.
ClaimedFor(a, s, k) == schedules[s].owner = a /\ schedules[s].occurrence = k

\* advanceSchedule.  The command is recorded under the activation and the
\* occurrence whether or not it changes anything, and is not evaluated again.
Advance(a, s) ==
    LET k == firing[a][s]
        spent == <<a, s, k>> \in advanced
    IN  /\ Fires(a, s)
        /\ k \in admitted[s]
        /\ advanced' = advanced \cup {<<a, s, k>>}
        /\ IF ~spent /\ ClaimedFor(a, s, k)
           THEN \E due \in {FALSE, k + 1 < MaxOccurrence} :
                   schedules' = [schedules EXCEPT ![s] =
                       [@ EXCEPT !.occurrence = k + 1, !.due = due,
                                 !.owner = Nobody, !.lapsed = FALSE]]
           ELSE UNCHANGED schedules
        /\ firing' = [firing EXCEPT ![a][s] = Nothing]
        /\ UNCHANGED <<admitted, scheduleFaults>>

\* The lease of a claim runs out.
ClaimLapses(s) ==
    LET o == schedules[s].owner
        live == o \in Activations /\ Fires(o, s)
    IN  /\ o # Nobody /\ ~schedules[s].lapsed
        /\ live => scheduleFaults < MaxScheduleFaults
        /\ scheduleFaults' = IF live THEN scheduleFaults + 1 ELSE scheduleFaults
        /\ schedules' = [schedules EXCEPT ![s].lapsed = TRUE]
        /\ UNCHANGED <<advanced, admitted, firing>>

\* An activation dies, or a failure ends it; its replacement has another owner
\* id, hence no receipts, and the claims of the old one only run out.
ActivationDies(a) ==
    /\ scheduleFaults < MaxScheduleFaults
    /\ \E s \in Schedule : Fires(a, s)
    /\ scheduleFaults' = scheduleFaults + 1
    /\ firing' = [firing EXCEPT ![a] = [s \in Schedule |-> Nothing]]
    /\ advanced' = {r \in advanced : r[1] # a}
    /\ schedules' = [s \in Schedule |->
            IF schedules[s].owner = a THEN [schedules[s] EXCEPT !.owner = Gone] ELSE schedules[s]]
    /\ UNCHANGED admitted

FireStep(a) == \E s \in Schedule : Admit(a, s) \/ Advance(a, s)
TimePasses(s) == FallsDue(s) \/ ClaimLapses(s)

SchedulesNext ==
    \/ \E s \in Schedule : Register(s) \/ TimePasses(s)
    \/ \E a \in Activations : ClaimDue(a) \/ FireStep(a) \/ ActivationDies(a)

SchedulesSpec == SchedulesInit /\ [][SchedulesNext]_scheduleVars

-----------------------------------------------------------------------------
(* Properties.                                                             *)

\* The Runs of a schedule are admitted occurrence by occurrence, without a gap
\* and never ahead, whichever activations fire it late or die before advancing.
AdmittedInOrder ==
    \A s \in Schedule :
        LET k == schedules[s].occurrence IN admitted[s] \in {0..(k - 1), 0..k}

\* An occurrence that is due is fired and passed; unless an activation that lost
\* its claim has spent the one advance command it has for this occurrence while
\* it did not own it.  The comment in fire (scheduler.ts) promises that no admitted Run is
\* left that can never advance.
SchedulesAdvance ==
    []<>(\A s \in Schedule :
            schedules[s].due =>
                \E a \in Activations : <<a, s, schedules[s].occurrence>> \in advanced)
=============================================================================
