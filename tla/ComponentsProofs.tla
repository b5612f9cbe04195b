-------------------------- MODULE ComponentsProofs --------------------------
(***************************************************************************)
(* Proofs about components of the Run state store that MCComponents checks *)
(* side by side: Schedules, for any number of schedules, activations,      *)
(* occurrences and faults; Awaits, for any number of Runs, waits, messages *)
(* and events; ExternalChildren, for any number of placements, reconcilers *)
(* and faults and any capacity; SessionQueue, for any number of inputs,    *)
(* Runs and stops and any limit of the queue.                              *)
(***************************************************************************)
EXTENDS Schedules, Awaits, ExternalChildren, SessionQueue, FiniteSetTheorems, TLAPS

-----------------------------------------------------------------------------
(* Schedules.                                                              *)

\* A schedule is claimed only while it is due, and is due only before its last
\* occurrence; nobody fires an occurrence the schedule has not reached.
ClaimsAreDue ==
    \A s \in Schedule :
        /\ schedules[s].owner # Nobody => schedules[s].due
        /\ schedules[s].due => schedules[s].occurrence < MaxOccurrence
FiringIsBehind ==
    \A a \in Activations, s \in Schedule :
        firing[a][s] # Nothing => firing[a][s] <= schedules[s].occurrence
SchedulesInv == SchedulesTypeOK /\ ClaimsAreDue /\ FiringIsBehind /\ AdmittedInOrder

LEMMA SchedulesInitially == SchedulesInit => SchedulesInv
<1> SUFFICES ASSUME SchedulesInit PROVE SchedulesInv
  OBVIOUS
<1> USE SchedulesAssumption DEF SchedulesInit
<1>1. SchedulesTypeOK
  BY DEF SchedulesTypeOK, ScheduleRecord, Occurrence, Nothing
<1>2. ClaimsAreDue /\ FiringIsBehind
  BY DEF ClaimsAreDue, FiringIsBehind
<1>3. AdmittedInOrder
  <2>1. 0..(0 - 1) = {}
    OBVIOUS
  <2> QED
    BY <2>1 DEF AdmittedInOrder
<1> QED
  BY <1>1, <1>2, <1>3 DEF SchedulesInv

\* An occurrence that is fired and has no Run yet is the present one, and every
\* earlier one has a Run.
LEMMA FiredIsNext ==
    ASSUME SchedulesInv, NEW a \in Activations, NEW s \in Schedule,
           Fires(a, s), firing[a][s] \notin admitted[s]
    PROVE  /\ firing[a][s] = schedules[s].occurrence
           /\ admitted[s] = 0..(schedules[s].occurrence - 1)
<1>1. firing[a][s] \in Nat /\ schedules[s].occurrence \in Nat
  BY SchedulesAssumption DEF SchedulesInv, SchedulesTypeOK, ScheduleRecord, Occurrence, Nothing, Fires
<1>2. firing[a][s] <= schedules[s].occurrence
  BY DEF SchedulesInv, FiringIsBehind, Fires
<1>3. admitted[s] \in {0..(schedules[s].occurrence - 1), 0..schedules[s].occurrence}
  BY DEF SchedulesInv, AdmittedInOrder
<1> QED
  BY <1>1, <1>2, <1>3

\* A claim is advanced only past an occurrence that has its Run.
LEMMA AdvancedIsAdmitted ==
    ASSUME SchedulesInv, NEW a \in Activations, NEW s \in Schedule,
           Fires(a, s), firing[a][s] \in admitted[s], ClaimedFor(a, s, firing[a][s])
    PROVE  /\ firing[a][s] \in 0..(MaxOccurrence - 1)
           /\ admitted[s] = 0..firing[a][s]
<1> DEFINE k == schedules[s].occurrence
<1>1. firing[a][s] = k /\ schedules[s].owner = a /\ a # Nobody
  BY SchedulesAssumption DEF ClaimedFor
<1>2. k \in Nat /\ k < MaxOccurrence
  BY <1>1 DEF SchedulesInv, SchedulesTypeOK, ScheduleRecord, Occurrence, ClaimsAreDue
<1>3. admitted[s] \in {0..(k - 1), 0..k}
  BY DEF SchedulesInv, AdmittedInOrder
<1> QED
  BY SchedulesAssumption, <1>1, <1>2, <1>3

LEMMA AdmitKeeps ==
    ASSUME SchedulesInv, NEW a \in Activations, NEW s \in Schedule, Admit(a, s)
    PROVE  SchedulesInv'
<1>1. /\ firing[a][s] = schedules[s].occurrence
      /\ admitted[s] = 0..(schedules[s].occurrence - 1)
  BY FiredIsNext DEF Admit
<1>2. schedules[s].occurrence \in Occurrence
  BY DEF SchedulesInv, SchedulesTypeOK, ScheduleRecord
<1>3. UNCHANGED <<schedules, advanced, firing, scheduleFaults>>
  BY DEF Admit
<1> DEFINE k == schedules[s].occurrence
<1>4. admitted' = [admitted EXCEPT ![s] = 0..k]
  <2>1. (0..(k - 1)) \cup {k} = 0..k
    BY <1>2, SchedulesAssumption DEF Occurrence
  <2> QED
    BY <1>1, <2>1 DEF Admit
<1>5. SchedulesTypeOK'
  BY <1>2, <1>3, <1>4, SchedulesAssumption DEF SchedulesInv, SchedulesTypeOK, Occurrence
<1>6. (ClaimsAreDue /\ FiringIsBehind)'
  BY <1>3 DEF SchedulesInv, ClaimsAreDue, FiringIsBehind
<1>7. AdmittedInOrder'
  BY <1>3, <1>4 DEF SchedulesInv, SchedulesTypeOK, AdmittedInOrder
<1> QED
  BY <1>5, <1>6, <1>7 DEF SchedulesInv

LEMMA AdvanceKeeps ==
    ASSUME SchedulesInv, NEW a \in Activations, NEW s \in Schedule, Advance(a, s)
    PROVE  SchedulesInv'
<1> DEFINE k == firing[a][s]
<1>1. /\ k \in Occurrence
      /\ advanced' = advanced \cup {<<a, s, k>>}
      /\ firing' = [firing EXCEPT ![a][s] = Nothing]
      /\ UNCHANGED <<admitted, scheduleFaults>>
  BY DEF Advance, SchedulesInv, SchedulesTypeOK, Fires
<1>2. /\ advanced' \subseteq Activations \X Schedule \X Occurrence
      /\ firing' \in [Activations -> [Schedule -> Occurrence \cup {Nothing}]]
  BY <1>1 DEF SchedulesInv, SchedulesTypeOK
<1>3. CASE UNCHANGED schedules
  <2>1. SchedulesTypeOK'
    BY <1>1, <1>2, <1>3 DEF SchedulesInv, SchedulesTypeOK
  <2>2. (ClaimsAreDue /\ AdmittedInOrder)'
    BY <1>1, <1>3 DEF SchedulesInv, ClaimsAreDue, AdmittedInOrder
  <2>3. FiringIsBehind'
    BY <1>1, <1>3 DEF SchedulesInv, SchedulesTypeOK, FiringIsBehind
  <2> QED
    BY <2>1, <2>2, <2>3 DEF SchedulesInv
<1>4. ASSUME ClaimedFor(a, s, k), NEW again \in {FALSE, k + 1 < MaxOccurrence},
             schedules' = [schedules EXCEPT ![s] =
                [@ EXCEPT !.occurrence = k + 1, !.due = again, !.owner = Nobody, !.lapsed = FALSE]]
      PROVE  SchedulesInv'
  <2>1. k \in 0..(MaxOccurrence - 1) /\ admitted[s] = 0..k
    BY <1>4, AdvancedIsAdmitted DEF Advance
  <2>2. k = schedules[s].occurrence
    BY <1>4 DEF ClaimedFor
  <2>3. /\ schedules' \in [Schedule -> ScheduleRecord]
        /\ schedules'[s].occurrence = k + 1
        /\ schedules'[s].due = again
        /\ schedules'[s].owner = Nobody
        /\ \A t \in Schedule \ {s} : schedules'[t] = schedules[t]
    <3> DEFINE new == [schedules[s] EXCEPT !.occurrence = k + 1, !.due = again,
                                           !.owner = Nobody, !.lapsed = FALSE]
    <3>1. k + 1 \in Occurrence /\ again \in BOOLEAN
      <4>1. k + 1 \in Occurrence
        BY <2>1, SchedulesAssumption DEF Occurrence
      <4>2. again = FALSE \/ again = (k + 1 < MaxOccurrence)
        BY <1>4
      <4>3. (k + 1 < MaxOccurrence) \in BOOLEAN
        OBVIOUS
      <4> HIDE DEF k
      <4> QED
        BY <4>1, <4>2, <4>3, Zenon
    <3>2. schedules \in [Schedule -> ScheduleRecord]
      BY DEF SchedulesInv, SchedulesTypeOK
    <3>3. new \in ScheduleRecord /\ new.occurrence = k + 1 /\ new.due = again /\ new.owner = Nobody
      BY <3>1, <3>2 DEF ScheduleRecord
    <3>4. schedules' = [schedules EXCEPT ![s] = new]
      BY <1>4
    <3> HIDE DEF new
    <3> QED
      BY <3>2, <3>3, <3>4
  <2>4. SchedulesTypeOK'
    BY <1>1, <1>2, <2>3 DEF SchedulesInv, SchedulesTypeOK
  <2>5. ClaimsAreDue'
    BY <2>3 DEF SchedulesInv, ClaimsAreDue
  <2>6. AdmittedInOrder'
    BY <1>1, <2>1, <2>3 DEF SchedulesInv, AdmittedInOrder
  <2>7. FiringIsBehind'
    <3> SUFFICES ASSUME NEW b \in Activations, NEW t \in Schedule, firing'[b][t] # Nothing
                 PROVE  firing'[b][t] <= schedules'[t].occurrence
      BY DEF FiringIsBehind
    <3>1. firing'[b][t] = firing[b][t] /\ firing[b][t] # Nothing
      BY <1>1 DEF SchedulesInv, SchedulesTypeOK
    <3>2. firing[b][t] \in Nat /\ firing[b][t] <= schedules[t].occurrence
      BY <3>1 DEF SchedulesInv, SchedulesTypeOK, FiringIsBehind, Occurrence
    <3> QED
      BY <2>1, <2>2, <2>3, <3>1, <3>2
  <2> QED
    BY <2>4, <2>5, <2>6, <2>7 DEF SchedulesInv
<1> QED
  BY <1>3, <1>4 DEF Advance

LEMMA ClaimDueKeeps ==
    ASSUME SchedulesInv, NEW a \in Activations, ClaimDue(a)
    PROVE  SchedulesInv'
<1> DEFINE claimed(s) == [schedules[s] EXCEPT !.owner = a, !.lapsed = FALSE]
<1>1. /\ UNCHANGED <<advanced, admitted, scheduleFaults>>
      /\ schedules' = [s \in Schedule |-> IF Available(s) THEN claimed(s) ELSE schedules[s]]
      /\ firing' = [firing EXCEPT ![a] =
            [s \in Schedule |-> IF Available(s) THEN schedules[s].occurrence ELSE Nothing]]
  BY DEF ClaimDue
<1>2. \A s \in Schedule : /\ schedules'[s] \in ScheduleRecord
                          /\ schedules'[s].occurrence = schedules[s].occurrence
                          /\ schedules'[s].due = schedules[s].due
                          /\ schedules'[s].owner # Nobody => schedules[s].due
  BY <1>1 DEF SchedulesInv, SchedulesTypeOK, ClaimsAreDue, ScheduleRecord, Available
<1>3. firing' \in [Activations -> [Schedule -> Occurrence \cup {Nothing}]]
  BY <1>1 DEF SchedulesInv, SchedulesTypeOK, ScheduleRecord
<1>4. SchedulesTypeOK'
  BY <1>1, <1>2, <1>3 DEF SchedulesInv, SchedulesTypeOK
<1>5. (ClaimsAreDue /\ AdmittedInOrder)'
  BY <1>1, <1>2 DEF SchedulesInv, ClaimsAreDue, AdmittedInOrder
<1>6. FiringIsBehind'
  <2> SUFFICES ASSUME NEW b \in Activations, NEW s \in Schedule, firing'[b][s] # Nothing
               PROVE  firing'[b][s] <= schedules'[s].occurrence
    BY DEF FiringIsBehind
  <2>1. schedules[s].occurrence \in Nat
    BY DEF SchedulesInv, SchedulesTypeOK, ScheduleRecord, Occurrence
  <2>2. CASE b = a
    <3>1. firing'[b][s] = IF Available(s) THEN schedules[s].occurrence ELSE Nothing
      BY <1>1, <2>2 DEF SchedulesInv, SchedulesTypeOK
    <3> QED
      BY <1>2, <2>1, <3>1
  <2>3. CASE b # a
    BY <1>1, <1>2, <2>3 DEF SchedulesInv, SchedulesTypeOK, FiringIsBehind
  <2> QED
    BY <2>2, <2>3
<1> QED
  BY <1>4, <1>5, <1>6 DEF SchedulesInv

\* Registration, time and lost claims change neither occurrences nor Runs.
LEMMA OthersKeep ==
    ASSUME SchedulesInv,
           \/ \E s \in Schedule : Register(s) \/ FallsDue(s) \/ ClaimLapses(s)
           \/ \E a \in Activations : ActivationDies(a)
    PROVE  SchedulesInv'
<1>1. ASSUME NEW s \in Schedule, Register(s) PROVE SchedulesInv'
  <2>1. /\ schedules' = [schedules EXCEPT ![s].registered = TRUE]
        /\ UNCHANGED <<advanced, admitted, firing, scheduleFaults>>
    BY <1>1 DEF Register
  <2>2. SchedulesTypeOK'
    BY <2>1 DEF SchedulesInv, SchedulesTypeOK, ScheduleRecord
  <2>3. \A t \in Schedule : /\ schedules'[t].occurrence = schedules[t].occurrence
                            /\ schedules'[t].due = schedules[t].due
                            /\ schedules'[t].owner = schedules[t].owner
    BY <2>1 DEF SchedulesInv, SchedulesTypeOK, ScheduleRecord
  <2> QED
    BY <2>1, <2>2, <2>3 DEF SchedulesInv, ClaimsAreDue, FiringIsBehind, AdmittedInOrder
<1>2. ASSUME NEW s \in Schedule, FallsDue(s) PROVE SchedulesInv'
  BY <1>2 DEF FallsDue, SchedulesInv, SchedulesTypeOK, ClaimsAreDue, FiringIsBehind,
              AdmittedInOrder, ScheduleRecord
<1>3. ASSUME NEW s \in Schedule, ClaimLapses(s) PROVE SchedulesInv'
  <2>1. /\ schedules' = [schedules EXCEPT ![s].lapsed = TRUE]
        /\ UNCHANGED <<advanced, admitted, firing>>
    BY <1>3 DEF ClaimLapses
  <2>2. scheduleFaults' \in 0..MaxScheduleFaults
    <3>1. CASE scheduleFaults' = scheduleFaults
      BY <3>1 DEF SchedulesInv, SchedulesTypeOK
    <3>2. CASE scheduleFaults' = scheduleFaults + 1 /\ scheduleFaults < MaxScheduleFaults
      BY <3>2, SchedulesAssumption DEF SchedulesInv, SchedulesTypeOK
    <3> QED
      BY <1>3, <3>1, <3>2 DEF ClaimLapses
  <2>3. SchedulesTypeOK'
    BY <2>1, <2>2 DEF SchedulesInv, SchedulesTypeOK, ScheduleRecord
  <2> QED
    BY <2>1, <2>3 DEF SchedulesInv, SchedulesTypeOK, ClaimsAreDue, FiringIsBehind,
                      AdmittedInOrder, ScheduleRecord
<1>4. ASSUME NEW a \in Activations, ActivationDies(a) PROVE SchedulesInv'
  <2>1. /\ firing' = [firing EXCEPT ![a] = [s \in Schedule |-> Nothing]]
        /\ advanced' \subseteq advanced
        /\ scheduleFaults' \in 0..MaxScheduleFaults
        /\ UNCHANGED admitted
    BY <1>4, SchedulesAssumption DEF ActivationDies, SchedulesInv, SchedulesTypeOK
  <2>2. \A s \in Schedule : /\ schedules'[s] \in ScheduleRecord
                            /\ schedules'[s].occurrence = schedules[s].occurrence
                            /\ schedules'[s].due = schedules[s].due
                            /\ schedules'[s].owner # Nobody => schedules[s].owner # Nobody
    <3>1. schedules \in [Schedule -> ScheduleRecord]
      BY DEF SchedulesInv, SchedulesTypeOK
    <3>2. schedules' = [s \in Schedule |-> IF schedules[s].owner = a
                                            THEN [schedules[s] EXCEPT !.owner = Gone]
                                            ELSE schedules[s]]
      BY <1>4 DEF ActivationDies
    <3> SUFFICES ASSUME NEW s \in Schedule
                 PROVE  /\ schedules'[s] \in ScheduleRecord
                        /\ schedules'[s].occurrence = schedules[s].occurrence
                        /\ schedules'[s].due = schedules[s].due
                        /\ schedules'[s].owner # Nobody => schedules[s].owner # Nobody
      OBVIOUS
    <3>3. schedules[s] \in ScheduleRecord
      BY <3>1
    <3>4. a # Nobody
      BY SchedulesAssumption
    <3>5. CASE schedules[s].owner # a
      BY <3>2, <3>3, <3>5
    <3>6. CASE schedules[s].owner = a
      <4>1. schedules'[s] = [schedules[s] EXCEPT !.owner = Gone]
        BY <3>2, <3>6
      <4> QED
        BY <3>3, <3>4, <3>6, <4>1 DEF ScheduleRecord
    <3> QED
      BY <3>5, <3>6
  <2>3. schedules' \in [Schedule -> ScheduleRecord]
    BY <1>4, <2>2 DEF ActivationDies
  <2>4. SchedulesTypeOK'
    BY <2>1, <2>3 DEF SchedulesInv, SchedulesTypeOK
  <2>5. (ClaimsAreDue /\ AdmittedInOrder)'
    BY <2>1, <2>2 DEF SchedulesInv, ClaimsAreDue, AdmittedInOrder
  <2>6. FiringIsBehind'
    BY <2>1, <2>2 DEF SchedulesInv, SchedulesTypeOK, FiringIsBehind
  <2> QED
    BY <2>4, <2>5, <2>6 DEF SchedulesInv
<1> QED
  BY <1>1, <1>2, <1>3, <1>4

LEMMA SchedulesStep == SchedulesInv /\ [SchedulesNext]_scheduleVars => SchedulesInv'
<1> SUFFICES ASSUME SchedulesInv, [SchedulesNext]_scheduleVars PROVE SchedulesInv'
  OBVIOUS
<1>1. CASE UNCHANGED scheduleVars
  BY <1>1 DEF scheduleVars, SchedulesInv, SchedulesTypeOK, ClaimsAreDue, FiringIsBehind,
              AdmittedInOrder
<1>2. ASSUME NEW s \in Schedule, Register(s) \/ TimePasses(s) PROVE SchedulesInv'
  BY <1>2, OthersKeep DEF TimePasses
<1>3. ASSUME NEW a \in Activations, ClaimDue(a) \/ FireStep(a) \/ ActivationDies(a)
      PROVE  SchedulesInv'
  BY <1>3, ClaimDueKeeps, AdmitKeeps, AdvanceKeeps, OthersKeep DEF FireStep
<1> QED
  BY <1>1, <1>2, <1>3 DEF SchedulesNext

\* claimSchedules, fire and advanceSchedule keep every record well formed, for any
\* number of schedules, activations and faults.
THEOREM SchedulesTyped == SchedulesSpec => []SchedulesTypeOK
<1>1. SchedulesInv => SchedulesTypeOK
  BY DEF SchedulesInv
<1> QED
  BY <1>1, SchedulesInitially, SchedulesStep, PTL DEF SchedulesSpec

\* Occurrences get their Runs one after the other, without a gap and never ahead,
\* whichever activations claim, fire late, lose their claims or die.
THEOREM OccurrencesInOrder == SchedulesSpec => []AdmittedInOrder
<1>1. SchedulesInv => AdmittedInOrder
  BY DEF SchedulesInv
<1> QED
  BY <1>1, SchedulesInitially, SchedulesStep, PTL DEF SchedulesSpec

-----------------------------------------------------------------------------
(* Awaits: the invariant.                                                  *)

FamilyRecord == [status : {"running", "waiting", "ended"}, owned : BOOLEAN,
                 cancelled : BOOLEAN, stage : {"batch", "turn"}]
WaitRecord == [status : {"absent", "open", "responded", "cancelled"},
               by : {"nobody", "timeout"} \cup Event \cup FamilyRun \cup Inbound]
InboxEntry == [status : {"absent", "pending", "consumed", "discarded"},
               by : SUBSET ({"turn"} \cup AwaitCall)]

\* A Run has one open wait for Runs at most, which is why a message has one taker.
OneRunWait(ws) ==
    \A v, w \in AwaitCall :
        /\ CallOf[v] = CallOf[w] /\ AwaitsRuns(v) /\ AwaitsRuns(w)
        /\ ws[v].status = "open" /\ ws[w].status = "open"
        => v = w
\* What an execution remembers as answered is.
AnsweredIsAnswered ==
    \A r \in FamilyRun : \A w \in execution[r].answered : waits[w].status = "responded"
\* A message has been consumed by one taker, or by none.
EntryInv(entry) ==
    IF entry.status = "consumed" THEN \E x : entry.by = {x} ELSE entry.by = {}
MessagesInv == \A m \in Inbound : EntryInv(inbox[m])
\* An event that answered a wait has its receipt, and answered no other wait of its Run.
EventsInv ==
    /\ \A w \in AwaitCall : waits[w].by \in Event => <<CallOf[w], waits[w].by>> \in wakes
    /\ \A v, w \in AwaitCall :
            CallOf[v] = CallOf[w] /\ waits[v].by \in Event /\ waits[v].by = waits[w].by => v = w
\* NothingMissedWhileWaiting for one Run, of a family, waits and an inbox.
Served(fam, ws, box, r) ==
    fam[r].status = "waiting" /\ ~fam[r].cancelled =>
        /\ \E w \in CallsBy(r) : ws[w].status = "open"
        /\ \A w \in CallsBy(r) : ws[w].status = "open" /\ AwaitsRuns(w) =>
            /\ \A t \in Selector[w].runs : fam[t].status # "ended"
            /\ Selector[w].messages => PendingFor(r, box) = {}
NobodyMisses == \A r \in FamilyRun : Served(family, waits, inbox, r)

AwaitsInv ==
    /\ AwaitsTypeOK /\ OneRunWait(waits) /\ AnsweredIsAnswered
    /\ MessagesInv /\ EventsInv /\ NobodyMisses

\* What AwaitsTypeOK says of the stored state, record by record.
StoreTyped ==
    /\ family \in [FamilyRun -> FamilyRecord]
    /\ waits \in [AwaitCall -> WaitRecord]
    /\ inbox \in [Inbound -> InboxEntry]
LEMMA AwaitsTyping ==
    AwaitsTypeOK <=> /\ StoreTyped
                     /\ wakes \subseteq FamilyRun \X Event
                     /\ execution \in [FamilyRun -> [answered : SUBSET AwaitCall,
                                                     read : SUBSET Inbound]]
                     /\ elapsed \in Seq(AwaitCall)
                     /\ due \in [Scheduler -> SUBSET AwaitCall]
                     /\ awaitFaults \in 0..MaxAwaitFaults
  BY DEF AwaitsTypeOK, StoreTyped, FamilyRecord, WaitRecord, InboxEntry

-----------------------------------------------------------------------------
(* Awaits: reconciliation.                                                 *)

\* What reconcileRunWaits does: which waits, Runs and messages it changes, and that a
\* Run it does not resume awaits nothing that has happened.
Reconciled(R, ws, box, fam) ==
    /\ \A w \in AwaitCall :
          \/ waits'[w] = ws[w]
          \/ /\ ws[w].status = "open" /\ CallOf[w] \in R
             /\ waits'[w].status = "responded" /\ waits'[w].by \notin Event
             /\ family'[CallOf[w]].status = "running"
    /\ \A r \in FamilyRun :
          /\ family'[r].cancelled = fam[r].cancelled
          /\ \/ family'[r] = fam[r]
             \/ r \in R /\ ~fam[r].cancelled /\ family'[r].status = "running"
    /\ \A m \in Inbound : /\ EntryInv(inbox'[m])
                          /\ inbox'[m] = box[m] \/ inbox'[m].status = "consumed"
    /\ \A w \in AwaitCall :
          /\ CallOf[w] \in R /\ AwaitsRuns(w) /\ ws[w].status = "open"
          /\ ~fam[CallOf[w]].cancelled /\ family'[CallOf[w]].status # "running"
          => /\ \A t \in Selector[w].runs : fam[t].status # "ended"
             /\ Selector[w].messages => PendingFor(CallOf[w], box) = {}
LEMMA ReconcileDoes ==
    ASSUME NEW R \in SUBSET FamilyRun,
           NEW ws \in [AwaitCall -> WaitRecord], NEW box \in [Inbound -> InboxEntry],
           NEW fam \in [FamilyRun -> FamilyRecord],
           OneRunWait(ws), \A m \in Inbound : EntryInv(box[m]),
           ReconcileWaits(R, ws, box, fam)
    PROVE  StoreTyped' /\ Reconciled(R, ws, box, fam)
<1> DEFINE open == {w \in AwaitCall : /\ CallOf[w] \in R /\ AwaitsRuns(w)
                                      /\ ws[w].status = "open" /\ ~fam[CallOf[w]].cancelled}
           messages(w) == IF Selector[w].messages THEN PendingFor(CallOf[w], box) ELSE {}
           ended(w) == {t \in Selector[w].runs : fam[t].status = "ended"}
           chosen(w) == IF messages(w) # {} THEN messages(w) ELSE ended(w)
           closing == {w \in open : chosen(w) # {}}
           by == [w \in closing |-> CHOOSE x \in chosen(w) : TRUE]
           takers(m) == {w \in closing : by[w] = m}
<1>1. /\ waits' = [w \in AwaitCall |-> IF w \in closing THEN Responded(by[w]) ELSE ws[w]]
      /\ inbox' = [m \in Inbound |-> IF \E w \in closing : by[w] = m
                                     THEN Consumed(box[m], takers(m)) ELSE box[m]]
      /\ family' = [r \in FamilyRun |->
                      IF \E w \in closing : CallOf[w] = r
                      THEN [fam[r] EXCEPT !.status = "running"] ELSE fam[r]]
  BY DEF ReconcileWaits
<1>2. ASSUME NEW w \in AwaitCall
      PROVE  /\ CallOf[w] \in FamilyRun
             /\ messages(w) \subseteq {m \in Inbound : /\ InboundTo[m] = CallOf[w]
                                                       /\ box[m].status = "pending"}
             /\ ended(w) \subseteq FamilyRun
  BY AwaitsAssumption DEF AwaitsAssumption, PendingFor
<1>3. ASSUME NEW w \in closing
      PROVE  /\ w \in AwaitCall /\ w \in open
             /\ by[w] \in chosen(w)
             /\ \/ /\ by[w] \in Inbound /\ InboundTo[by[w]] = CallOf[w]
                   /\ box[by[w]].status = "pending"
                \/ by[w] \in FamilyRun
             /\ by[w] \notin Event
  <2>1. w \in AwaitCall /\ w \in open /\ chosen(w) # {}
    OBVIOUS
  <2>2. by[w] = CHOOSE x \in chosen(w) : TRUE
    OBVIOUS
  <2> HIDE DEF by, chosen
  <2>3. by[w] \in chosen(w)
    BY <2>1, <2>2
  <2>4. by[w] \in messages(w) \/ by[w] \in ended(w)
    BY <2>3 DEF chosen
  <2> HIDE DEF messages, ended, open, closing
  <2> QED BY <1>2, <2>1, <2>3, <2>4, AwaitsAssumption DEF AwaitsAssumption
<1>7. ASSUME NEW w \in closing
      PROVE  /\ w \in AwaitCall /\ CallOf[w] \in R /\ AwaitsRuns(w)
             /\ ws[w].status = "open" /\ ~fam[CallOf[w]].cancelled
  OBVIOUS
<1>8. ASSUME NEW w \in open, w \notin closing
      PROVE  /\ \A t \in Selector[w].runs : fam[t].status # "ended"
             /\ Selector[w].messages => PendingFor(CallOf[w], box) = {}
  <2>1. messages(w) = {} /\ ended(w) = {}
    BY <1>8
  <2> HIDE DEF closing, open
  <2> QED BY <2>1
<1> HIDE DEF closing, by, messages, ended, chosen
<1>4. ASSUME NEW m \in Inbound, NEW w \in closing, by[w] = m
      PROVE  takers(m) = {w} /\ box[m].status = "pending" /\ w \in AwaitCall
  <2>1. m \notin FamilyRun
    BY AwaitsAssumption DEF AwaitsAssumption
  <2>2. \A v \in closing : by[v] = m =>
            /\ v \in AwaitCall /\ CallOf[v] = InboundTo[m] /\ AwaitsRuns(v)
            /\ ws[v].status = "open" /\ box[m].status = "pending"
    BY <1>3, <1>7, <2>1
  <2>3. \A v \in closing : by[v] = m => v = w
    BY <1>4, <2>2 DEF OneRunWait
  <2> QED BY <1>4, <2>2, <2>3 DEF takers
<1>5. ASSUME NEW w \in closing
      PROVE  Responded(by[w]) \in WaitRecord
  BY <1>3 DEF Responded, WaitRecord
<1>6. ASSUME NEW m \in Inbound, NEW w \in closing, by[w] = m
      PROVE  /\ Consumed(box[m], takers(m)) \in InboxEntry
             /\ EntryInv(Consumed(box[m], takers(m)))
             /\ Consumed(box[m], takers(m)).status = "consumed"
  <2>1. takers(m) = {w} /\ box[m].status = "pending" /\ w \in AwaitCall
    BY <1>4, <1>6
  <2>2. EntryInv(box[m])
    OBVIOUS
  <2>3. box[m].by = {}
    BY <2>1, <2>2 DEF EntryInv
  <2> HIDE DEF takers
  <2>4. Consumed(box[m], takers(m)) = [status |-> "consumed", by |-> {w}]
    BY <2>1, <2>3 DEF Consumed
  <2> DEFINE entry == [status |-> "consumed", by |-> {w}]
  <2>5. entry.status = "consumed" /\ entry.by = {w}
    OBVIOUS
  <2>6. entry \in InboxEntry
    BY <2>1 DEF InboxEntry
  <2>7. EntryInv(entry)
    BY <2>5, Zenon DEF EntryInv
  <2> QED BY <2>4, <2>5, <2>6, <2>7
<1> HIDE DEF open, takers
<1>9. ASSUME NEW r \in FamilyRun
      PROVE  /\ family'[r] \in FamilyRecord
             /\ family'[r].cancelled = fam[r].cancelled
             /\ \/ family'[r] = fam[r]
                \/ r \in R /\ ~fam[r].cancelled /\ family'[r].status = "running"
             /\ \A w \in closing : CallOf[w] = r => family'[r].status = "running"
  <2>1. fam[r] \in FamilyRecord
    OBVIOUS
  <2>2. family'[r] = IF \E w \in closing : CallOf[w] = r
                     THEN [fam[r] EXCEPT !.status = "running"] ELSE fam[r]
    BY <1>1
  <2> QED BY <1>7, <2>1, <2>2 DEF FamilyRecord
<1>10. ASSUME NEW w \in AwaitCall
       PROVE  /\ waits'[w] \in WaitRecord
              /\ \/ waits'[w] = ws[w]
                 \/ /\ ws[w].status = "open" /\ CallOf[w] \in R
                    /\ waits'[w].status = "responded" /\ waits'[w].by \notin Event
                    /\ family'[CallOf[w]].status = "running"
  <2>1. waits'[w] = IF w \in closing THEN Responded(by[w]) ELSE ws[w]
    BY <1>1
  <2>2. CASE w \in closing
    <3>1. waits'[w] = Responded(by[w]) /\ Responded(by[w]) \in WaitRecord
      BY <1>5, <2>1, <2>2
    <3>2. waits'[w].status = "responded" /\ waits'[w].by = by[w]
      BY <3>1 DEF Responded
    <3>3. by[w] \notin Event
      BY <1>3, <2>2
    <3>4. family'[CallOf[w]].status = "running"
      BY <1>2, <1>9, <2>2
    <3> QED BY <1>7, <2>2, <3>1, <3>2, <3>3, <3>4
  <2> QED BY <2>1, <2>2
<1>11. ASSUME NEW m \in Inbound
       PROVE  /\ inbox'[m] \in InboxEntry /\ EntryInv(inbox'[m])
              /\ inbox'[m] = box[m] \/ inbox'[m].status = "consumed"
  <2>1. inbox'[m] = IF \E w \in closing : by[w] = m THEN Consumed(box[m], takers(m)) ELSE box[m]
    BY <1>1
  <2> QED BY <1>6, <2>1
<1>12. StoreTyped'
  BY <1>1, <1>9, <1>10, <1>11 DEF StoreTyped
<1>13. ASSUME NEW w \in AwaitCall, CallOf[w] \in R, AwaitsRuns(w), ws[w].status = "open",
              ~fam[CallOf[w]].cancelled, family'[CallOf[w]].status # "running"
       PROVE  /\ \A t \in Selector[w].runs : fam[t].status # "ended"
              /\ Selector[w].messages => PendingFor(CallOf[w], box) = {}
  <2>1. w \in open /\ w \notin closing
    BY <1>2, <1>9, <1>13 DEF open
  <2> QED BY <1>8, <2>1
<1> QED BY <1>9, <1>10, <1>11, <1>12, <1>13 DEF Reconciled

\* Whom a reconciliation leaves waiting misses nothing.
LEMMA ReconcileServes ==
    ASSUME NEW R \in SUBSET FamilyRun,
           NEW ws \in [AwaitCall -> WaitRecord], NEW box \in [Inbound -> InboxEntry],
           NEW fam \in [FamilyRun -> FamilyRecord],
           OneRunWait(ws), \A m \in Inbound : EntryInv(box[m]),
           \A r \in FamilyRun \ R : Served(fam, ws, box, r),
           \A r \in R : fam[r].status = "waiting" /\ ~fam[r].cancelled =>
                            \E w \in CallsBy(r) : ws[w].status = "open",
           ReconcileWaits(R, ws, box, fam)
    PROVE  NobodyMisses'
<1>0. StoreTyped' /\ Reconciled(R, ws, box, fam)
  BY ReconcileDoes
<1> SUFFICES ASSUME NEW r \in FamilyRun, family'[r].status = "waiting", ~family'[r].cancelled
             PROVE  /\ \E w \in CallsBy(r) : waits'[w].status = "open"
                    /\ \A w \in CallsBy(r) : waits'[w].status = "open" /\ AwaitsRuns(w) =>
                        /\ \A t \in Selector[w].runs : family'[t].status # "ended"
                        /\ Selector[w].messages => PendingFor(r, inbox') = {}
  BY DEF NobodyMisses, Served
<1>1. family'[r] = fam[r] /\ fam[r].status = "waiting" /\ ~fam[r].cancelled
  BY <1>0 DEF Reconciled
<1>2. \A w \in CallsBy(r) : w \in AwaitCall /\ CallOf[w] = r /\ waits'[w] = ws[w]
  BY <1>0, <1>1 DEF Reconciled, CallsBy
<1>3. \E w \in CallsBy(r) : ws[w].status = "open"
  BY <1>1 DEF Served
<1>4. ASSUME NEW w \in CallsBy(r), ws[w].status = "open", AwaitsRuns(w)
      PROVE  /\ \A t \in Selector[w].runs : fam[t].status # "ended"
             /\ Selector[w].messages => PendingFor(r, box) = {}
  <2>1. CASE r \in R
    <3>1. /\ w \in AwaitCall /\ CallOf[w] = r
          /\ ~fam[CallOf[w]].cancelled /\ family'[CallOf[w]].status # "running"
      BY <1>1, <1>2, <1>4
    <3> QED BY <1>0, <1>4, <2>1, <3>1 DEF Reconciled
  <2>2. CASE r \notin R
    BY <1>1, <1>4, <2>2 DEF Served
  <2> QED BY <2>1, <2>2
<1>5. \A t \in FamilyRun : family'[t].status = "ended" => fam[t].status = "ended"
  BY <1>0 DEF Reconciled
<1>6. PendingFor(r, inbox') \subseteq PendingFor(r, box)
  BY <1>0 DEF Reconciled, PendingFor
<1>7. \A w \in AwaitCall : Selector[w].runs \subseteq FamilyRun
  BY AwaitsAssumption DEF AwaitsAssumption
<1> QED BY <1>2, <1>3, <1>4, <1>5, <1>6, <1>7

-----------------------------------------------------------------------------
(* Awaits: every step keeps the invariant.                                 *)

LEMMA AwaitsInitially == AwaitsInit => AwaitsInv
<1> SUFFICES ASSUME AwaitsInit PROVE AwaitsInv
  OBVIOUS
<1> USE DEF AwaitsInit
<1>1. AwaitsTypeOK
  BY AwaitsAssumption DEF AwaitsTypeOK, NotExecuting, AwaitsAssumption
<1>2. OneRunWait(waits) /\ AnsweredIsAnswered
  BY DEF OneRunWait, AnsweredIsAnswered, NotExecuting
<1>3. MessagesInv
  BY DEF MessagesInv, EntryInv
<1>4. EventsInv
  BY AwaitsAssumption DEF EventsInv, AwaitsAssumption
<1>5. NobodyMisses
  BY DEF NobodyMisses, Served
<1> QED BY <1>1, <1>2, <1>3, <1>4, <1>5 DEF AwaitsInv

\* What a command has made of the waits, the inbox and the family when it reconciles
\* the waits of the Runs of R: it reopened no wait that was answered, and only Runs of R
\* may miss something.
Reconcilable(R, ws, box, fam) ==
    /\ ws \in [AwaitCall -> WaitRecord] /\ box \in [Inbound -> InboxEntry]
    /\ fam \in [FamilyRun -> FamilyRecord]
    /\ OneRunWait(ws) /\ \A m \in Inbound : EntryInv(box[m])
    /\ \A w \in AwaitCall : /\ ws[w].by \in Event => ws[w].by = waits[w].by
                            /\ waits[w].status = "responded" => ws[w] = waits[w]
    /\ \A r \in FamilyRun \ R : Served(fam, ws, box, r)
    /\ \A r \in R : fam[r].status = "waiting" /\ ~fam[r].cancelled =>
                        \E w \in CallsBy(r) : ws[w].status = "open"

\* The invariant after a reconciliation.
LEMMA ReconcileKeeps ==
    ASSUME AwaitsInv, NEW R \in SUBSET FamilyRun, NEW ws, NEW box, NEW fam,
           Reconcilable(R, ws, box, fam), ReconcileWaits(R, ws, box, fam), NEW r \in FamilyRun,
           execution' = execution \/ execution' = [execution EXCEPT ![r] = NotExecuting],
           wakes' = wakes, elapsed' = elapsed, due' = due, awaitFaults' \in 0..MaxAwaitFaults
    PROVE  AwaitsInv'
<1>0. /\ ws \in [AwaitCall -> WaitRecord] /\ box \in [Inbound -> InboxEntry]
      /\ fam \in [FamilyRun -> FamilyRecord]
      /\ OneRunWait(ws) /\ \A m \in Inbound : EntryInv(box[m])
      /\ \A w \in AwaitCall : /\ ws[w].by \in Event => ws[w].by = waits[w].by
                              /\ waits[w].status = "responded" => ws[w] = waits[w]
      /\ \A q \in FamilyRun \ R : Served(fam, ws, box, q)
      /\ \A q \in R : fam[q].status = "waiting" /\ ~fam[q].cancelled =>
                          \E w \in CallsBy(q) : ws[w].status = "open"
  BY Zenon DEF Reconcilable
<1>1. StoreTyped' /\ Reconciled(R, ws, box, fam) /\ NobodyMisses'
  BY <1>0, ReconcileDoes, ReconcileServes
<1>2. /\ AwaitsTypeOK /\ AnsweredIsAnswered /\ EventsInv
      /\ execution \in [FamilyRun -> [answered : SUBSET AwaitCall, read : SUBSET Inbound]]
  BY AwaitsTyping DEF AwaitsInv
<1>3. /\ execution' \in [FamilyRun -> [answered : SUBSET AwaitCall, read : SUBSET Inbound]]
      /\ \A q \in FamilyRun : execution'[q].answered \subseteq execution[q].answered
  <2>1. CASE execution' = execution
    BY <1>2, <2>1
  <2>2. CASE execution' = [execution EXCEPT ![r] = NotExecuting]
    BY <1>2, <2>2 DEF NotExecuting
  <2> QED BY <2>1, <2>2
<1>4. AwaitsTypeOK'
  BY <1>1, <1>2, <1>3 DEF AwaitsTypeOK, StoreTyped, FamilyRecord, WaitRecord, InboxEntry
<1>5. \A w \in AwaitCall :
        /\ waits'[w] = ws[w] \/ (ws[w].status = "open" /\ waits'[w].status = "responded")
        /\ waits'[w].status = "open" => ws[w].status = "open"
        /\ waits'[w].by \in Event => waits'[w].by = waits[w].by
        /\ waits[w].status = "responded" => waits'[w].status = "responded"
  BY <1>0, <1>1 DEF Reconciled
<1>6. OneRunWait(waits)'
  BY <1>0, <1>5 DEF OneRunWait
<1>7. AnsweredIsAnswered'
  BY <1>2, <1>3, <1>5 DEF AnsweredIsAnswered
<1>8. MessagesInv'
  BY <1>1 DEF Reconciled, MessagesInv
<1>9. EventsInv'
  BY <1>2, <1>5 DEF EventsInv
<1> QED BY <1>1, <1>4, <1>6, <1>7, <1>8, <1>9 DEF AwaitsInv

\* An execution that leaves the Run as it is.
LEMMA LeavesKeeps ==
    ASSUME AwaitsInv, NEW r \in FamilyRun, Leaves(r), UNCHANGED <<waits, wakes, inbox, elapsed, due>>,
           awaitFaults' \in 0..MaxAwaitFaults
    PROVE  AwaitsInv'
<1>1. /\ AwaitsTypeOK /\ StoreTyped /\ OneRunWait(waits) /\ AnsweredIsAnswered
      /\ MessagesInv /\ EventsInv /\ NobodyMisses
      /\ execution \in [FamilyRun -> [answered : SUBSET AwaitCall, read : SUBSET Inbound]]
  BY AwaitsTyping DEF AwaitsInv
<1>2. /\ family' \in [FamilyRun -> FamilyRecord]
      /\ \A q \in FamilyRun : /\ family'[q].status = family[q].status
                              /\ family'[q].cancelled = family[q].cancelled
  <2>1. family \in [FamilyRun -> FamilyRecord] /\ family[r] \in FamilyRecord
    BY <1>1 DEF StoreTyped
  <2> DEFINE new == [family[r] EXCEPT !.owned = FALSE]
  <2>2. /\ new \in FamilyRecord
        /\ new.status = family[r].status
        /\ new.cancelled = family[r].cancelled
    BY <2>1 DEF FamilyRecord
  <2>3. family' = [family EXCEPT ![r] = new]
    BY <2>1 DEF Leaves
  <2> HIDE DEF new
  <2> QED
    BY <2>1, <2>2, <2>3
<1>3. /\ execution' \in [FamilyRun -> [answered : SUBSET AwaitCall, read : SUBSET Inbound]]
      /\ \A q \in FamilyRun : execution'[q].answered \subseteq execution[q].answered
  BY <1>1 DEF Leaves, NotExecuting
<1>4. AwaitsTypeOK'
  BY <1>1, <1>2, <1>3 DEF AwaitsTypeOK, FamilyRecord
<1>5. NobodyMisses'
  <2>1. \A w \in AwaitCall : Selector[w].runs \subseteq FamilyRun
    BY AwaitsAssumption DEF AwaitsAssumption
  <2>2. ASSUME NEW q \in FamilyRun PROVE Served(family', waits', inbox', q)
    BY <1>1, <1>2, <2>1 DEF NobodyMisses, Served, CallsBy
  <2> QED BY <2>2 DEF NobodyMisses
<1>6. OneRunWait(waits)' /\ MessagesInv' /\ EventsInv'
  BY <1>1 DEF OneRunWait, MessagesInv, EventsInv
<1>7. AnsweredIsAnswered'
  BY <1>1, <1>3 DEF AnsweredIsAnswered
<1> QED BY <1>4, <1>5, <1>6, <1>7 DEF AwaitsInv

LEMMA SuspendOnKeeps ==
    ASSUME AwaitsInv, NEW r \in FamilyRun, SuspendOn(r)
    PROVE  AwaitsInv'
<1> DEFINE asked == CallsBy(r) \ execution[r].answered
           opened == [w \in AwaitCall |->
                IF w \in asked THEN [status |-> "open", by |-> "nobody"] ELSE waits[w]]
           fam == [family EXCEPT ![r] = [@ EXCEPT !.status = "waiting", !.owned = FALSE]]
<1>1. /\ StoreTyped /\ OneRunWait(waits) /\ AnsweredIsAnswered /\ MessagesInv /\ NobodyMisses
      /\ awaitFaults \in 0..MaxAwaitFaults
      /\ execution \in [FamilyRun -> [answered : SUBSET AwaitCall, read : SUBSET Inbound]]
  BY AwaitsTyping DEF AwaitsInv
<1>2. CASE Leaves(r) /\ UNCHANGED <<waits, inbox>>
  BY <1>1, <1>2, LeavesKeeps DEF SuspendOn
<1>3. CASE /\ \A w \in asked : waits[w].status \in {"absent", "open"}
           /\ \A v, w \in asked : AwaitsRuns(v) /\ AwaitsRuns(w) => v = w
           /\ ReconcileWaits({r}, opened, inbox, fam)
           /\ execution' = [execution EXCEPT ![r] = NotExecuting]
  <2>1. /\ opened \in [AwaitCall -> WaitRecord] /\ fam \in [FamilyRun -> FamilyRecord]
        /\ \A q \in FamilyRun : q # r => fam[q] = family[q]
        /\ fam[r].status = "waiting"
    BY <1>1 DEF StoreTyped, WaitRecord, FamilyRecord
  <2>2. \A w \in AwaitCall :
          /\ w \in asked => opened[w].status = "open" /\ opened[w].by = "nobody" /\ CallOf[w] = r
          /\ w \notin asked => opened[w] = waits[w]
          /\ CallOf[w] = r /\ w \notin asked => waits[w].status = "responded"
    BY <1>1 DEF CallsBy, AnsweredIsAnswered
  <2>3. asked # {} /\ asked \subseteq CallsBy(r)
    BY DEF SuspendOn
  <2> HIDE DEF asked, opened, fam
  <2>4. OneRunWait(opened)
    BY <1>1, <1>3, <2>2 DEF OneRunWait
  <2>5. \A w \in AwaitCall : /\ opened[w].by \in Event => opened[w].by = waits[w].by
                             /\ waits[w].status = "responded" => opened[w] = waits[w]
    BY <1>3, <2>2, AwaitsAssumption DEF AwaitsAssumption
  <2>6. ASSUME NEW q \in FamilyRun \ {r} PROVE Served(fam, opened, inbox, q)
    <3>1. Served(family, waits, inbox, q)
      BY <1>1 DEF NobodyMisses
    <3>2. \A w \in CallsBy(q) : w \in AwaitCall /\ opened[w] = waits[w]
      BY <2>2, <2>3 DEF CallsBy
    <3>3. \A t \in FamilyRun : fam[t].status = "ended" => family[t].status = "ended"
      BY <2>1
    <3>4. \A w \in AwaitCall : Selector[w].runs \subseteq FamilyRun
      BY AwaitsAssumption DEF AwaitsAssumption
    <3> QED BY <2>1, <3>1, <3>2, <3>3, <3>4 DEF Served
  <2>7. \E w \in CallsBy(r) : opened[w].status = "open"
    BY <2>2, <2>3 DEF CallsBy
  <2>8. /\ inbox \in [Inbound -> InboxEntry] /\ \A m \in Inbound : EntryInv(inbox[m])
        /\ UNCHANGED <<wakes, elapsed, due, awaitFaults>> /\ {r} \in SUBSET FamilyRun
    BY <1>1 DEF StoreTyped, MessagesInv, SuspendOn
  <2>9. Reconcilable({r}, opened, inbox, fam)
    BY <2>1, <2>4, <2>5, <2>6, <2>7, <2>8 DEF Reconcilable
  <2> QED BY <1>1, <1>3, <2>8, <2>9, ReconcileKeeps
<1> QED BY <1>2, <1>3 DEF SuspendOn

\* A Run that ends, or is cancelled while nobody executes it.
LEMMA EndRunKeeps ==
    ASSUME AwaitsInv, NEW r \in FamilyRun, NEW ws \in [AwaitCall -> WaitRecord],
           \A w \in AwaitCall :
                \/ ws[w] = waits[w]
                \/ /\ CallOf[w] = r /\ waits[w].status = "open"
                   /\ ws[w].status = "cancelled" /\ ws[w].by = waits[w].by,
           EndRun(r, ws), awaitFaults' \in 0..MaxAwaitFaults, UNCHANGED <<wakes, elapsed, due>>
    PROVE  AwaitsInv'
<1> DEFINE fam == [family EXCEPT ![r] = [@ EXCEPT !.status = "ended", !.owned = FALSE]]
           box == [m \in Inbound |-> IF m \in PendingFor(r, inbox)
                                     THEN [inbox[m] EXCEPT !.status = "discarded"] ELSE inbox[m]]
<1>1. /\ StoreTyped /\ OneRunWait(waits) /\ MessagesInv /\ NobodyMisses
  BY AwaitsTyping DEF AwaitsInv
<1>2. /\ fam \in [FamilyRun -> FamilyRecord]
      /\ \A q \in FamilyRun : q # r => fam[q] = family[q]
      /\ fam[r].status = "ended"
  BY <1>1 DEF StoreTyped, FamilyRecord
<1>3. ASSUME NEW m \in Inbound PROVE box[m] \in InboxEntry /\ EntryInv(box[m])
  <2>1. inbox[m] \in InboxEntry /\ EntryInv(inbox[m])
    BY <1>1 DEF StoreTyped, MessagesInv
  <2>2. CASE m \in PendingFor(r, inbox)
    <3>1. /\ inbox[m].by = {} /\ box[m] = [inbox[m] EXCEPT !.status = "discarded"]
      BY <2>1, <2>2 DEF PendingFor, EntryInv
    <3>2. box[m] \in InboxEntry /\ box[m].status = "discarded" /\ box[m].by = {}
      BY <2>1, <3>1 DEF InboxEntry
    <3> QED BY <3>2 DEF EntryInv
  <2> QED BY <2>1, <2>2
<1>4. /\ ReconcileWaits(WaitingRuns(fam), ws, box, fam)
      /\ execution' = [execution EXCEPT ![r] = NotExecuting]
  BY DEF EndRun
<1>5. box \in [Inbound -> InboxEntry]
  BY <1>3
<1> HIDE DEF fam, box
<1>6. OneRunWait(ws)
  BY <1>1 DEF OneRunWait
<1>7. \A w \in AwaitCall : /\ ws[w].by \in Event => ws[w].by = waits[w].by
                           /\ waits[w].status = "responded" => ws[w] = waits[w]
  OBVIOUS
<1>8. \A q \in FamilyRun \ WaitingRuns(fam) : Served(fam, ws, box, q)
  BY DEF Served, WaitingRuns
<1>9. ASSUME NEW q \in WaitingRuns(fam), ~fam[q].cancelled
      PROVE  \E w \in CallsBy(q) : ws[w].status = "open"
  <2>1. q \in FamilyRun /\ q # r /\ family[q].status = "waiting" /\ ~family[q].cancelled
    BY <1>2, <1>9 DEF WaitingRuns
  <2>2. PICK w \in CallsBy(q) : waits[w].status = "open"
    BY <1>1, <2>1 DEF NobodyMisses, Served
  <2>3. ws[w] = waits[w]
    BY <2>1, <2>2 DEF CallsBy
  <2> QED BY <2>2, <2>3
<1>10. WaitingRuns(fam) \in SUBSET FamilyRun
  BY DEF WaitingRuns
<1>11. Reconcilable(WaitingRuns(fam), ws, box, fam)
  BY <1>2, <1>3, <1>5, <1>6, <1>7, <1>8, <1>9 DEF Reconcilable
<1> QED BY <1>4, <1>10, <1>11, ReconcileKeeps

LEMMA SendKeeps ==
    ASSUME AwaitsInv, NEW m \in Inbound, Send(m)
    PROVE  AwaitsInv'
<1> DEFINE r == InboundTo[m]
           box == [inbox EXCEPT ![m].status = "pending"]
<1>1. /\ StoreTyped /\ OneRunWait(waits) /\ MessagesInv /\ NobodyMisses
      /\ awaitFaults \in 0..MaxAwaitFaults
  BY AwaitsTyping DEF AwaitsInv
<1>2. r \in FamilyRun
  BY AwaitsAssumption DEF AwaitsAssumption
<1>3. /\ inbox[m].status = "absent" /\ ReconcileWaits({r}, waits, box, family)
      /\ UNCHANGED <<wakes, execution, elapsed, due, awaitFaults>>
  BY DEF Send
<1>4. /\ box \in [Inbound -> InboxEntry]
      /\ \A k \in Inbound : k # m => box[k] = inbox[k]
      /\ box[m].status = "pending" /\ box[m].by = inbox[m].by
  BY <1>1 DEF StoreTyped, InboxEntry
<1> HIDE DEF box
<1>5. \A k \in Inbound : EntryInv(box[k])
  BY <1>1, <1>3, <1>4 DEF MessagesInv, EntryInv
<1>6. ASSUME NEW q \in FamilyRun \ {r} PROVE Served(family, waits, box, q)
  <2>1. PendingFor(q, box) = PendingFor(q, inbox)
    BY <1>4 DEF PendingFor
  <2> QED BY <1>1, <2>1 DEF NobodyMisses, Served
<1>7. family[r].status = "waiting" /\ ~family[r].cancelled =>
            \E w \in CallsBy(r) : waits[w].status = "open"
  BY <1>1, <1>2 DEF NobodyMisses, Served
<1>8. waits \in [AwaitCall -> WaitRecord] /\ family \in [FamilyRun -> FamilyRecord]
  BY <1>1 DEF StoreTyped
<1> HIDE DEF r
<1>9. \A w \in AwaitCall : /\ waits[w].by \in Event => waits[w].by = waits[w].by
                          /\ waits[w].status = "responded" => waits[w] = waits[w]
  OBVIOUS
<1>10. Reconcilable({r}, waits, box, family)
  BY <1>1, <1>4, <1>5, <1>6, <1>7, <1>8, <1>9 DEF Reconcilable
<1> QED BY <1>1, <1>2, <1>3, <1>10, ReconcileKeeps

\* An event or a timeout answers an open wait.
LEMMA AnswerKeeps ==
    ASSUME AwaitsInv, NEW w \in AwaitCall, IsOpen(w), family[CallOf[w]].status # "ended",
           NEW by \in {"timeout"} \cup Event, Answer(w, by),
           by \in Event => /\ <<CallOf[w], by>> \in wakes' \ wakes
                           /\ wakes' = wakes \cup {<<CallOf[w], by>>},
           by \notin Event => wakes' = wakes,
           due' \in [Scheduler -> SUBSET AwaitCall],
           UNCHANGED <<inbox, execution, elapsed, awaitFaults>>
    PROVE  AwaitsInv'
<1> DEFINE r == CallOf[w]
<1>1. /\ AwaitsTypeOK /\ StoreTyped /\ OneRunWait(waits) /\ AnsweredIsAnswered
      /\ MessagesInv /\ EventsInv /\ NobodyMisses
  BY AwaitsTyping DEF AwaitsInv
<1>2. /\ r \in FamilyRun /\ "timeout" \notin Event
      /\ \A v \in AwaitCall : Selector[v].runs \subseteq FamilyRun
  BY AwaitsAssumption DEF AwaitsAssumption
<1>3. /\ waits' \in [AwaitCall -> WaitRecord]
      /\ \A v \in AwaitCall : v # w => waits'[v] = waits[v]
      /\ waits'[w].status = "responded" /\ waits'[w].by = by
  BY <1>1 DEF Answer, Responded, StoreTyped, WaitRecord
<1>4. /\ family' \in [FamilyRun -> FamilyRecord]
      /\ \A q \in FamilyRun : q # r => family'[q] = family[q]
      /\ family'[r].status = "running"
  BY <1>1, <1>2 DEF Answer, StoreTyped, FamilyRecord
<1>5. wakes' \subseteq FamilyRun \X Event /\ wakes \subseteq wakes'
  BY <1>1, <1>2 DEF AwaitsTypeOK
<1>6. AwaitsTypeOK'
  BY <1>1, <1>3, <1>4, <1>5 DEF AwaitsTypeOK, FamilyRecord, WaitRecord
<1>7. OneRunWait(waits)'
  BY <1>1, <1>3 DEF OneRunWait
<1>8. AnsweredIsAnswered' /\ MessagesInv'
  BY <1>1, <1>3 DEF AnsweredIsAnswered, MessagesInv, AwaitsTypeOK
<1>9. EventsInv'
  <2>1. by \in Event => \A v \in AwaitCall : CallOf[v] = CallOf[w] => waits[v].by # by
    BY <1>1 DEF EventsInv
  <2>2. ASSUME NEW v \in AwaitCall, waits'[v].by \in Event
        PROVE  <<CallOf[v], waits'[v].by>> \in wakes'
    BY <1>1, <1>3, <1>5, <2>2 DEF EventsInv
  <2>3. ASSUME NEW u \in AwaitCall, NEW v \in AwaitCall,
               CallOf[u] = CallOf[v], waits'[u].by \in Event, waits'[u].by = waits'[v].by
        PROVE  u = v
    BY <1>1, <1>3, <2>1, <2>3 DEF EventsInv
  <2> QED BY <2>2, <2>3 DEF EventsInv
<1>10. NobodyMisses'
  <2>1. ASSUME NEW q \in FamilyRun PROVE Served(family', waits', inbox', q)
    <3>1. CASE q = r
      BY <1>4, <3>1 DEF Served
    <3>2. CASE q # r
      <4>1. \A v \in CallsBy(q) : v \in AwaitCall /\ waits'[v] = waits[v]
        BY <1>3, <3>2 DEF CallsBy
      <4>2. family'[q] = family[q]
        BY <1>4, <3>2
      <4>3. \A t \in FamilyRun : family'[t].status = "ended" => family[t].status = "ended"
        BY <1>4
      <4>4. Served(family, waits, inbox, q)
        BY <1>1 DEF NobodyMisses
      <4> QED BY <1>2, <4>1, <4>2, <4>3, <4>4 DEF Served
    <3> QED BY <3>1, <3>2
  <2> QED BY <2>1 DEF NobodyMisses
<1> QED BY <1>6, <1>7, <1>8, <1>9, <1>10 DEF AwaitsInv

\* A step that changes no status, no wait and no inbox.
LEMMA QuietKeeps ==
    ASSUME AwaitsInv, AwaitsTypeOK', UNCHANGED <<waits, inbox>>, wakes \subseteq wakes',
           \A q \in FamilyRun :
                /\ family'[q].status = family[q].status
                /\ family[q].cancelled => family'[q].cancelled
                /\ \A w \in execution'[q].answered : waits[w].status = "responded"
    PROVE  AwaitsInv'
<1>1. /\ OneRunWait(waits) /\ MessagesInv /\ EventsInv /\ NobodyMisses
  BY DEF AwaitsInv
<1>2. \A v \in AwaitCall : Selector[v].runs \subseteq FamilyRun
  BY AwaitsAssumption DEF AwaitsAssumption
<1>3. OneRunWait(waits)' /\ MessagesInv' /\ EventsInv'
  BY <1>1 DEF OneRunWait, MessagesInv, EventsInv
<1>4. AnsweredIsAnswered'
  BY DEF AnsweredIsAnswered
<1>5. ASSUME NEW q \in FamilyRun PROVE Served(family', waits', inbox', q)
  BY <1>1, <1>2 DEF NobodyMisses, Served, CallsBy
<1>6. NobodyMisses'
  BY <1>5 DEF NobodyMisses
<1> QED BY <1>1, <1>3, <1>4, <1>6 DEF AwaitsInv

LEMMA ExecuteKeeps ==
    ASSUME AwaitsInv, NEW r \in FamilyRun, Execute(r) \/ BatchDone(r) \/ ReadInbox(r)
    PROVE  AwaitsInv'
<1>1. AwaitsTypeOK /\ StoreTyped /\ AnsweredIsAnswered
  BY AwaitsTyping DEF AwaitsInv
<1>2. CASE Execute(r)
  <2>1. AwaitsTypeOK'
    <3>1. family' \in [FamilyRun -> FamilyRecord]
      BY <1>1, <1>2 DEF Execute, StoreTyped, FamilyRecord
    <3>2. execution' \in [FamilyRun -> [answered : SUBSET AwaitCall, read : SUBSET Inbound]]
      BY <1>1, <1>2 DEF Execute, AwaitsTypeOK, NotExecuting, CallsBy
    <3> QED BY <1>1, <1>2, <3>1, <3>2 DEF Execute, AwaitsTypeOK, FamilyRecord
  <2>2. ASSUME NEW q \in FamilyRun
        PROVE  /\ family'[q].status = family[q].status
               /\ family[q].cancelled => family'[q].cancelled
               /\ \A w \in execution'[q].answered : waits[w].status = "responded"
    BY <1>1, <1>2 DEF Execute, AwaitsTypeOK, NotExecuting, AnsweredIsAnswered
  <2> QED BY <1>2, <2>1, <2>2, QuietKeeps DEF Execute
<1>3. CASE BatchDone(r)
  <2>1. AwaitsTypeOK'
    <3>1. family' \in [FamilyRun -> FamilyRecord]
      BY <1>1, <1>3 DEF BatchDone, StoreTyped, FamilyRecord
    <3> QED BY <1>1, <1>3, <3>1 DEF BatchDone, AwaitsTypeOK, FamilyRecord
  <2>2. ASSUME NEW q \in FamilyRun
        PROVE  /\ family'[q].status = family[q].status
               /\ family[q].cancelled => family'[q].cancelled
               /\ \A w \in execution'[q].answered : waits[w].status = "responded"
    BY <1>1, <1>3 DEF BatchDone, AwaitsTypeOK, AnsweredIsAnswered
  <2> QED BY <1>3, <2>1, <2>2, QuietKeeps DEF BatchDone
<1>4. CASE ReadInbox(r)
  <2>1. PendingFor(r, inbox) \subseteq Inbound
    BY DEF PendingFor
  <2>2. AwaitsTypeOK'
    <3> DEFINE pending == PendingFor(r, inbox)
    <3>0. /\ execution \in [FamilyRun -> [answered : SUBSET AwaitCall, read : SUBSET Inbound]]
          /\ execution' = [execution EXCEPT ![r].read = pending] /\ pending \subseteq Inbound
      BY <1>1, <1>4, <2>1 DEF ReadInbox, AwaitsTypeOK
    <3> HIDE DEF pending
    <3>1. execution' \in [FamilyRun -> [answered : SUBSET AwaitCall, read : SUBSET Inbound]]
      BY <3>0
    <3> QED BY <1>1, <1>4, <3>1 DEF ReadInbox, AwaitsTypeOK
  <2>3. ASSUME NEW q \in FamilyRun
        PROVE  /\ family'[q].status = family[q].status
               /\ family[q].cancelled => family'[q].cancelled
               /\ \A w \in execution'[q].answered : waits[w].status = "responded"
    BY <1>1, <1>4 DEF ReadInbox, AwaitsTypeOK, AnsweredIsAnswered
  <2> QED BY <1>4, <2>2, <2>3, QuietKeeps DEF ReadInbox
<1> QED BY <1>2, <1>3, <1>4

LEMMA RecordTurnKeeps ==
    ASSUME AwaitsInv, NEW r \in FamilyRun, RecordTurn(r)
    PROVE  AwaitsInv'
<1> DEFINE read == execution[r].read
<1>1. /\ AwaitsTypeOK /\ StoreTyped /\ OneRunWait(waits) /\ AnsweredIsAnswered
      /\ MessagesInv /\ EventsInv /\ NobodyMisses
  BY AwaitsTyping DEF AwaitsInv
<1>2. CASE Leaves(r) /\ UNCHANGED <<waits, inbox>>
  <2>1. UNCHANGED <<waits, wakes, inbox, elapsed, due>> /\ awaitFaults' \in 0..MaxAwaitFaults
    BY <1>1, <1>2 DEF RecordTurn, AwaitsTypeOK
  <2> QED BY <1>2, <2>1, LeavesKeeps
<1>3. CASE /\ read \subseteq PendingFor(r, inbox)
           /\ inbox' = [m \in Inbound |->
                            IF m \in read THEN Consumed(inbox[m], {"turn"}) ELSE inbox[m]]
           /\ execution' = [execution EXCEPT ![r].read = {}]
           /\ UNCHANGED <<family, waits>>
  <2>1. ASSUME NEW m \in Inbound
        PROVE  /\ inbox'[m] \in InboxEntry /\ EntryInv(inbox'[m])
               /\ inbox'[m] = inbox[m] \/ inbox'[m].status = "consumed"
    <3>1. inbox[m] \in InboxEntry /\ EntryInv(inbox[m])
      BY <1>1 DEF StoreTyped, MessagesInv
    <3>2. CASE m \in read
      <4> DEFINE entry == [status |-> "consumed", by |-> {"turn"}]
      <4>1. inbox[m].by = {}
        BY <1>3, <3>1, <3>2 DEF PendingFor, EntryInv
      <4>2. inbox'[m] = entry
        BY <1>3, <3>2, <4>1 DEF Consumed
      <4>3. entry \in InboxEntry /\ entry.status = "consumed" /\ entry.by = {"turn"}
        BY DEF InboxEntry
      <4> HIDE DEF entry
      <4>4. EntryInv(entry)
        BY <4>3, Zenon DEF EntryInv
      <4> QED BY <4>2, <4>3, <4>4
    <3>3. CASE m \notin read
      BY <1>3, <3>1, <3>3
    <3> QED BY <3>2, <3>3
  <2>2. inbox' \in [Inbound -> InboxEntry]
    BY <1>3, <2>1
  <2>3. /\ execution' \in [FamilyRun -> [answered : SUBSET AwaitCall, read : SUBSET Inbound]]
        /\ \A q \in FamilyRun : execution'[q].answered = execution[q].answered
    BY <1>1, <1>3 DEF AwaitsTypeOK
  <2>4. UNCHANGED <<wakes, elapsed, due, awaitFaults>>
    BY DEF RecordTurn
  <2>5. AwaitsTypeOK'
    BY <1>1, <1>3, <2>2, <2>3, <2>4 DEF AwaitsTypeOK, InboxEntry
  <2>6. MessagesInv'
    BY <2>1 DEF MessagesInv
  <2>7. OneRunWait(waits)' /\ AnsweredIsAnswered' /\ EventsInv'
    BY <1>1, <1>3, <2>3, <2>4 DEF OneRunWait, AnsweredIsAnswered, EventsInv
  <2>8. ASSUME NEW q \in FamilyRun PROVE Served(family', waits', inbox', q)
    <3>1. PendingFor(q, inbox') \subseteq PendingFor(q, inbox)
      BY <2>1 DEF PendingFor
    <3> QED BY <1>1, <1>3, <3>1 DEF NobodyMisses, Served
  <2> QED BY <2>5, <2>6, <2>7, <2>8 DEF AwaitsInv, NobodyMisses
<1> QED BY <1>2, <1>3 DEF RecordTurn

LEMMA EndsKeeps ==
    ASSUME AwaitsInv, NEW r \in FamilyRun, Ends(r) \/ LoseExecution(r)
    PROVE  AwaitsInv'
<1>1. AwaitsTypeOK /\ StoreTyped
  BY AwaitsTyping DEF AwaitsInv
<1>2. CASE Ends(r)
  BY <1>1, <1>2, EndRunKeeps DEF Ends, AwaitsTypeOK, StoreTyped
<1>3. CASE LoseExecution(r)
  <2>1. awaitFaults' \in 0..MaxAwaitFaults
    BY <1>1, <1>3, AwaitsAssumption DEF LoseExecution, AwaitsTypeOK, AwaitsAssumption
  <2> QED BY <1>3, <2>1, LeavesKeeps DEF LoseExecution
<1> QED BY <1>2, <1>3

LEMMA CancelKeeps ==
    ASSUME AwaitsInv, NEW r \in FamilyRun, CancelFamilyRun(r)
    PROVE  AwaitsInv'
<1> DEFINE ws == [w \in AwaitCall |-> IF CallOf[w] = r /\ IsOpen(w)
                                      THEN [waits[w] EXCEPT !.status = "cancelled"] ELSE waits[w]]
<1>1. /\ AwaitsTypeOK /\ StoreTyped /\ OneRunWait(waits) /\ AnsweredIsAnswered
      /\ MessagesInv /\ EventsInv /\ NobodyMisses
  BY AwaitsTyping DEF AwaitsInv
<1>2. awaitFaults' \in 0..MaxAwaitFaults /\ UNCHANGED <<wakes, elapsed, due>>
  BY <1>1, AwaitsAssumption DEF CancelFamilyRun, AwaitsTypeOK, AwaitsAssumption
<1>3. ASSUME NEW w \in AwaitCall
      PROVE  /\ ws[w] \in WaitRecord
             /\ \/ ws[w] = waits[w]
                \/ /\ CallOf[w] = r /\ waits[w].status = "open"
                   /\ ws[w].status = "cancelled" /\ ws[w].by = waits[w].by
  BY <1>1 DEF StoreTyped, WaitRecord, IsOpen
<1>4. ws \in [AwaitCall -> WaitRecord]
  BY <1>3
<1>5. CASE EndRun(r, ws)
  <2> HIDE DEF ws
  <2> QED BY <1>2, <1>3, <1>4, <1>5, EndRunKeeps
<1>6. CASE /\ waits' = ws
           /\ family' = [family EXCEPT ![r].cancelled = TRUE]
           /\ UNCHANGED <<inbox, execution>>
  <2> HIDE DEF ws
  <2>1. /\ family' \in [FamilyRun -> FamilyRecord]
        /\ \A q \in FamilyRun : family'[q].status = family[q].status
        /\ \A q \in FamilyRun : q # r => family'[q] = family[q]
        /\ family'[r].cancelled
    BY <1>1, <1>6 DEF StoreTyped, FamilyRecord
  <2>2. AwaitsTypeOK'
    BY <1>1, <1>2, <1>4, <1>6, <2>1 DEF AwaitsTypeOK, FamilyRecord, WaitRecord
  <2>3. OneRunWait(waits)' /\ MessagesInv'
    BY <1>1, <1>3, <1>6 DEF OneRunWait, MessagesInv
  <2>4. AnsweredIsAnswered'
    BY <1>1, <1>3, <1>6 DEF AnsweredIsAnswered, AwaitsTypeOK
  <2>5. EventsInv'
    <3>1. \A w \in AwaitCall : waits'[w].by = waits[w].by
      BY <1>3, <1>6
    <3> QED BY <1>1, <1>2, <3>1 DEF EventsInv
  <2>6. ASSUME NEW q \in FamilyRun PROVE Served(family', waits', inbox', q)
    <3>1. CASE q = r
      BY <2>1, <3>1 DEF Served
    <3>2. CASE q # r
      <4>1. \A w \in CallsBy(q) : waits'[w] = waits[w]
        BY <1>3, <1>6, <3>2 DEF CallsBy
      <4>2. \A v \in AwaitCall : Selector[v].runs \subseteq FamilyRun
        BY AwaitsAssumption DEF AwaitsAssumption
      <4> QED BY <1>1, <1>6, <2>1, <3>2, <4>1, <4>2 DEF NobodyMisses, Served, CallsBy
    <3> QED BY <3>1, <3>2
  <2> QED BY <2>2, <2>3, <2>4, <2>5, <2>6 DEF AwaitsInv, NobodyMisses
<1> QED BY <1>5, <1>6 DEF CancelFamilyRun

LEMMA WakeKeeps ==
    ASSUME AwaitsInv, NEW r \in FamilyRun, NEW e \in Event, Wake(r, e)
    PROVE  AwaitsInv'
<1> DEFINE matching == {w \in CallsBy(r) : IsOpen(w) /\ e \in Selector[w].events}
<1>1. AwaitsTypeOK /\ AnsweredIsAnswered
  BY DEF AwaitsInv
<1>2. /\ family[r].status # "ended" /\ <<r, e>> \notin wakes /\ wakes' = wakes \cup {<<r, e>>}
      /\ UNCHANGED <<inbox, execution, elapsed, due, awaitFaults>>
  BY DEF Wake
<1>3. CASE UNCHANGED <<family, waits>>
  <2>1. AwaitsTypeOK'
    BY <1>1, <1>2, <1>3 DEF AwaitsTypeOK
  <2> QED BY <1>1, <1>2, <1>3, <2>1, QuietKeeps DEF AnsweredIsAnswered
<1>4. ASSUME NEW w \in matching, Answer(w, e) PROVE AwaitsInv'
  <2>1. w \in AwaitCall /\ CallOf[w] = r /\ IsOpen(w)
    BY DEF CallsBy
  <2>2. due' \in [Scheduler -> SUBSET AwaitCall]
    BY <1>1, <1>2 DEF AwaitsTypeOK
  <2>3. e \in {"timeout"} \cup Event
    OBVIOUS
  <2> QED BY <1>2, <1>4, <2>1, <2>2, <2>3, AnswerKeeps
<1> QED BY <1>3, <1>4 DEF Wake

LEMMA ClocksKeep ==
    ASSUME AwaitsInv, \/ \E w \in AwaitCall : Elapses(w)
                      \/ \E s \in Scheduler : SchedulerStep(s)
    PROVE  AwaitsInv'
<1>1. AwaitsTypeOK /\ AnsweredIsAnswered
  BY DEF AwaitsInv
<1>2. ASSUME NEW w \in AwaitCall, Elapses(w) PROVE AwaitsInv'
  <2>1. AwaitsTypeOK'
    BY <1>1, <1>2 DEF Elapses, AwaitsTypeOK
  <2> QED BY <1>1, <1>2, <2>1, QuietKeeps DEF Elapses, AnsweredIsAnswered
<1>3. ASSUME NEW s \in Scheduler, Tick(s) PROVE AwaitsInv'
  <2>1. elapsed \in Seq(AwaitCall)
    BY <1>1 DEF AwaitsTypeOK
  <2>2. \A k \in Overdue : elapsed[k] \in AwaitCall
    BY <2>1 DEF Overdue
  <2>3. DueWaits \subseteq AwaitCall
    BY <2>2 DEF DueWaits
  <2>4. AwaitsTypeOK'
    BY <1>1, <1>3, <2>3 DEF Tick, AwaitsTypeOK
  <2> QED BY <1>1, <1>3, <2>4, QuietKeeps DEF Tick, AnsweredIsAnswered
<1>4. ASSUME NEW s \in Scheduler, NEW w \in AwaitCall, TimeOut(s, w) PROVE AwaitsInv'
  <2>1. due' \in [Scheduler -> SUBSET AwaitCall]
    BY <1>1, <1>4 DEF TimeOut, AwaitsTypeOK
  <2>2. CASE UNCHANGED <<family, waits>>
    <3>1. AwaitsTypeOK'
      BY <1>1, <1>4, <2>1, <2>2 DEF TimeOut, AwaitsTypeOK
    <3> QED BY <1>1, <1>4, <2>2, <3>1, QuietKeeps DEF TimeOut, AnsweredIsAnswered
  <2>3. CASE IsOpen(w) /\ family[CallOf[w]].status # "ended" /\ Answer(w, "timeout")
    <3>1. "timeout" \in {"timeout"} \cup Event /\ "timeout" \notin Event
      BY AwaitsAssumption DEF AwaitsAssumption
    <3>2. UNCHANGED <<wakes, inbox, execution, elapsed, awaitFaults>>
      BY <1>4 DEF TimeOut
    <3> QED BY <2>1, <2>3, <3>1, <3>2, AnswerKeeps
  <2> QED BY <1>4, <2>2, <2>3 DEF TimeOut
<1> QED BY <1>2, <1>3, <1>4 DEF SchedulerStep

LEMMA AwaitsStep == AwaitsInv /\ [AwaitsNext]_awaitVars => AwaitsInv'
<1> SUFFICES ASSUME AwaitsInv, [AwaitsNext]_awaitVars PROVE AwaitsInv'
  OBVIOUS
<1>1. ASSUME NEW r \in FamilyRun,
             \/ ExecutionStep(r) \/ LoseExecution(r) \/ CancelFamilyRun(r)
             \/ \E e \in Event : Wake(r, e)
      PROVE  AwaitsInv'
  BY <1>1, ExecuteKeeps, RecordTurnKeeps, SuspendOnKeeps, EndsKeeps, CancelKeeps, WakeKeeps
     DEF ExecutionStep
<1>2. ASSUME NEW m \in Inbound, Send(m) PROVE AwaitsInv'
  BY <1>2, SendKeeps
<1>3. CASE \/ \E w \in AwaitCall : Elapses(w)
           \/ \E s \in Scheduler : SchedulerStep(s)
  BY <1>3, ClocksKeep
<1>4. CASE UNCHANGED awaitVars
  <2>1. AwaitsTypeOK /\ AnsweredIsAnswered
    BY DEF AwaitsInv
  <2>2. AwaitsTypeOK'
    BY <1>4, <2>1 DEF awaitVars, AwaitsTypeOK
  <2> QED BY <1>4, <2>1, <2>2, QuietKeeps DEF awaitVars, AnsweredIsAnswered
<1> QED BY <1>1, <1>2, <1>3, <1>4 DEF AwaitsNext

\* Waits, receipts, inboxes and what executions know keep the form the code declares.
THEOREM AwaitsTyped == AwaitsSpec => []AwaitsTypeOK
<1>1. AwaitsInv => AwaitsTypeOK
  BY DEF AwaitsInv
<1> QED BY <1>1, AwaitsInitially, AwaitsStep, PTL DEF AwaitsSpec

\* Whatever suspends, settles, is sent, wakes, times out, is cancelled or loses its
\* execution, in any order and any number of Runs: a Run that waits misses nothing it
\* awaits, a message has one taker and an event answers one wait of a Run.
THEOREM NothingIsMissed == AwaitsSpec => []WaitsAreServed
<1>1. AwaitsInv => WaitsAreServed
  <2> SUFFICES ASSUME AwaitsInv PROVE WaitsAreServed
    OBVIOUS
  <2>1. NothingMissedWhileWaiting
    BY DEF AwaitsInv, NobodyMisses, Served, NothingMissedWhileWaiting, IsOpen
  <2>2. ASSUME NEW m \in Inbound
        PROVE  Cardinality(inbox[m].by) = IF inbox[m].status = "consumed" THEN 1 ELSE 0
    <3>1. EntryInv(inbox[m])
      BY DEF AwaitsInv, MessagesInv
    <3> QED BY <3>1, FS_EmptySet, FS_Singleton DEF EntryInv
  <2>3. ASSUME NEW r \in FamilyRun, NEW e \in Event
        PROVE  Cardinality({w \in CallsBy(r) : waits[w].by = e}) <= 1
    <3> DEFINE answered == {w \in CallsBy(r) : waits[w].by = e}
    <3>1. \A v, w \in answered : v = w
      BY DEF AwaitsInv, EventsInv, CallsBy
    <3>2. CASE answered = {}
      BY <3>2, FS_EmptySet
    <3>3. CASE answered # {}
      <4>1. PICK w \in answered : TRUE
        BY <3>3
      <4>2. answered = {w}
        BY <3>1, <4>1
      <4>3. Cardinality({w}) = 1
        BY FS_Singleton
      <4>4. Cardinality(answered) = 1
        BY <4>2, <4>3, Zenon
      <4> QED BY <4>4
    <3> QED BY <3>2, <3>3
  <2> QED BY <2>1, <2>2, <2>3 DEF WaitsAreServed, DeliveredOnce
<1> QED BY <1>1, AwaitsInitially, AwaitsStep, PTL DEF AwaitsSpec

-----------------------------------------------------------------------------
(* External children.                                                      *)

\* What the two partitions hold of one placement: an execution works for a root
\* that runs, a root runs only with a permit, a placement settles with the outcome
\* of its root, and only then is the root taken for delivered.
RootFits(placement, root) ==
    /\ root.owned => root.status \in {"running", "cancelling"}
    /\ root.status \in {"running", "cancelling"} => placement.readiness = "ready"
    /\ placement.readiness = "settled" =>
            root.status = placement.outcome /\ placement.outcome \in RootOutcomes
    /\ placement.readiness # "settled" => placement.outcome = "none"
    /\ root.acknowledged => placement.readiness = "settled"

\* What a delivery remembers of its placement is still true when it acts on it.
CourierFits(courier, placement, root) ==
    /\ courier.at = "act" => courier.wish # "none"
    /\ courier.wish = "activate" => placement.readiness \in {"ready", "settled"}
    /\ courier.at = "settle" => root.status = courier.outcome /\ courier.outcome \in RootOutcomes
    /\ courier.at = "confirm" => placement.readiness = "settled"

RootsInv == \A p \in Placement : RootFits(placements[p], roots[p])
CouriersInv ==
    \A k \in Reconciler : \A p \in First(couriers[k].page) :
        CourierFits(couriers[k], placements[p], roots[p])
PermitsInv == Cardinality(PermitHolders(placements)) <= Permits
ParentInv ==
    /\ parent.owned => ~ParentEnded
    /\ parent.status = "cancelled" => Outstanding(placements) = {}
ExternalInv == ExternalTypeOK /\ RootsInv /\ CouriersInv /\ PermitsInv /\ ParentInv

\* Deliveries that took no part in a step still fit.
DeliveriesFit ==
    \A k \in Reconciler : \A p \in First(couriers[k].page) :
        CourierFits(couriers[k], placements'[p], roots'[p])

LEMMA PlacementsAreFinite == ASSUME NEW S \in SUBSET Placement
                             PROVE  IsFiniteSet(S) /\ Cardinality(S) \in Nat
BY FS_Subset, FS_CardinalityType, ExternalAssumption

\* A page has one first placement.
LEMMA FirstIsOne ==
    ASSUME NEW page \in SUBSET Placement, NEW p \in First(page), NEW q \in First(page)
    PROVE  p = q
<1>1. p \in Placement /\ q \in Placement /\ p \in page /\ q \in page
  BY DEF First
<1>2. PlacementOrder[p] \in Nat /\ PlacementOrder[q] \in Nat
  BY <1>1, ExternalAssumption
<1>3. CASE PlacementOrder[p] <= PlacementOrder[q]
  BY <1>1, <1>3 DEF First, UpTo
<1>4. CASE PlacementOrder[q] <= PlacementOrder[p]
  BY <1>1, <1>4 DEF First, UpTo
<1> QED
  BY <1>2, <1>3, <1>4

LEMMA ExternalInitially == ExternalInit => ExternalInv
<1> SUFFICES ASSUME ExternalInit PROVE ExternalInv
  OBVIOUS
<1> USE DEF ExternalInit
<1>1. ExternalTypeOK
  BY ExternalAssumption
     DEF ExternalTypeOK, PlacementRecord, RootRecord, CourierRecord, RootOutcomes, Parked
<1>2. RootsInv
  BY DEF RootsInv, RootFits
<1>3. CouriersInv
  BY DEF CouriersInv, CourierFits, Parked
<1>4. PermitsInv
  <2>1. PermitHolders(placements) = {}
    BY DEF PermitHolders
  <2>2. Cardinality({}) = 0 /\ 0 <= Permits
    BY FS_EmptySet, ExternalAssumption
  <2> QED
    BY <2>1, <2>2 DEF PermitsInv
<1>5. ParentInv
  BY DEF ParentInv, ParentEnded, RootOutcomes
<1> QED
  BY <1>1, <1>2, <1>3, <1>4, <1>5 DEF ExternalInv

-----------------------------------------------------------------------------
(* Permits.                                                                *)

\* Placements that come later in the order have more placements up to them.
LEMMA UpToGrows ==
    ASSUME NEW S \in SUBSET Placement, NEW p \in S, NEW q \in S,
           PlacementOrder[p] < PlacementOrder[q]
    PROVE  Cardinality(UpTo(p, S)) # Cardinality(UpTo(q, S))
<1>1. PlacementOrder[p] \in Nat /\ PlacementOrder[q] \in Nat
  BY ExternalAssumption
<1>2. UpTo(p, S) \in SUBSET UpTo(q, S)
  <2> SUFFICES ASSUME NEW r \in UpTo(p, S) PROVE r \in UpTo(q, S)
    OBVIOUS
  <2>1. r \in S /\ PlacementOrder[r] \in Nat /\ PlacementOrder[r] <= PlacementOrder[p]
    BY ExternalAssumption DEF UpTo
  <2> QED
    BY <1>1, <2>1 DEF UpTo
<1>3. q \in UpTo(q, S) /\ q \notin UpTo(p, S)
  BY <1>1 DEF UpTo
<1>4. IsFiniteSet(UpTo(q, S))
  BY PlacementsAreFinite DEF UpTo
<1> QED
  BY <1>2, <1>3, <1>4, FS_Subset

\* Promotion never gives more permits than the family has.
LEMMA PromotionFits ==
    ASSUME NEW P \in [Placement -> PlacementRecord],
           Cardinality(PermitHolders(P)) <= Permits
    PROVE  Cardinality(PermitHolders(PlacementsPromoted(P))) <= Permits
<1> DEFINE active == Cardinality(PermitHolders(P))
           S == Promotable(P)
           T == {p \in S : active + Cardinality(UpTo(p, S)) <= Permits}
<1>1. CASE parent.cancelled \/ ParentEnded
  BY <1>1 DEF PlacementsPromoted
<1>2. CASE ~(parent.cancelled \/ ParentEnded)
  <2>1. /\ PermitHolders(P) \in SUBSET Placement /\ S \in SUBSET Placement
        /\ T \in SUBSET Placement /\ T \in SUBSET S
    BY DEF PermitHolders, Promotable
  <2>2. active \in Nat /\ Permits \in Nat /\ IsFiniteSet(T) /\ Cardinality(T) \in Nat
    BY <2>1, PlacementsAreFinite, ExternalAssumption
  <2>3. Cardinality(T) <= Permits - active
    <3> DEFINE n == Permits - active
               f == [p \in T |-> Cardinality(UpTo(p, S))]
    <3>1. n \in Nat
      BY <2>2
    <3>2. ASSUME NEW p \in T PROVE Cardinality(UpTo(p, S)) \in 1..n
      <4>1. p \in UpTo(p, S) /\ UpTo(p, S) \in SUBSET Placement
        <5>1. p \in S /\ PlacementOrder[p] \in Nat
          BY <2>1, ExternalAssumption
        <5> QED
          BY <2>1, <5>1 DEF UpTo
      <4>2. IsFiniteSet(UpTo(p, S)) /\ Cardinality(UpTo(p, S)) \in Nat
        BY <4>1, PlacementsAreFinite
      <4>3. Cardinality(UpTo(p, S)) # 0
        BY <4>1, <4>2, FS_EmptySet
      <4>4. active + Cardinality(UpTo(p, S)) <= Permits
        OBVIOUS
      <4> QED
        BY <2>2, <4>2, <4>3, <4>4
    <3>3. f \in [T -> 1..n]
      BY <3>2
    <3>4. IsFiniteSet(1..n) /\ Cardinality(1..n) = n
      <4>1. n \in Int /\ 1 \in Int /\ (1 > n => n = 0) /\ n - 1 + 1 = n
        BY <3>1
      <4> HIDE DEF n
      <4> QED
        BY <4>1, FS_Interval
    <3>5. ASSUME NEW p \in T, NEW q \in T, p # q PROVE f[p] # f[q]
      <4>1. p \in S /\ q \in S /\ p \in Placement /\ q \in Placement
        BY <2>1
      <4>2. PlacementOrder[p] \in Nat /\ PlacementOrder[q] \in Nat
            /\ PlacementOrder[p] # PlacementOrder[q]
        BY <3>5, <4>1, ExternalAssumption
      <4>3. PlacementOrder[p] < PlacementOrder[q] \/ PlacementOrder[q] < PlacementOrder[p]
        BY <4>2
      <4> HIDE DEF S
      <4>4. Cardinality(UpTo(p, S)) # Cardinality(UpTo(q, S))
        BY <2>1, <4>1, <4>3, UpToGrows
      <4> HIDE DEF T
      <4> QED
        BY <4>4
    <3> HIDE DEF f, T, n
    <3>6. ~(Cardinality(1..n) < Cardinality(T))
      BY <2>2, <3>3, <3>4, <3>5, FS_PigeonHole
    <3>7. ~(n < Cardinality(T))
      BY <3>4, <3>6
    <3> QED
      BY <2>2, <3>1, <3>7 DEF n
  <2>4. PermitHolders(PlacementsPromoted(P)) = PermitHolders(P) \cup T
    <3> DEFINE N == [p \in Placement |-> IF p \in T THEN [P[p] EXCEPT !.readiness = "ready"] ELSE P[p]]
    <3>1. PlacementsPromoted(P) = N
      BY <1>2 DEF PlacementsPromoted
    <3>2. ASSUME NEW p \in Placement
          PROVE  N[p].readiness = "ready" <=> P[p].readiness = "ready" \/ p \in T
      <4> P[p] \in PlacementRecord
        OBVIOUS
      <4> QED
        BY DEF PlacementRecord
    <3> HIDE DEF N, T
    <3> QED
      BY <2>1, <3>1, <3>2 DEF PermitHolders
  <2>5. PermitHolders(P) \cap T \in SUBSET Placement /\ IsFiniteSet(PermitHolders(P))
    BY <2>1, PlacementsAreFinite
  <2>6. Cardinality(PermitHolders(P) \cap T) \in Nat
    BY <2>5, PlacementsAreFinite
  <2> HIDE DEF T
  <2>7. Cardinality(PermitHolders(P) \cup T) = active + Cardinality(T) - Cardinality(PermitHolders(P) \cap T)
    BY <2>2, <2>5, FS_Union
  <2> HIDE DEF active
  <2> QED
    BY <2>2, <2>3, <2>4, <2>6, <2>7
<1> QED
  BY <1>1, <1>2

-----------------------------------------------------------------------------
(* What a step has to show: the couriers that do not move still fit        *)
(* (DeliveriesFit), and the rest of the invariant, which is about the two  *)
(* partitions.                                                             *)

LEMMA CouriersStand ==
    ASSUME ExternalInv, DeliveriesFit, UNCHANGED couriers
    PROVE  CouriersInv'
BY DEF DeliveriesFit, CouriersInv

\* A courier that moves keeps its page, or starts one, or parks.
LEMMA CourierMoves ==
    ASSUME ExternalInv, DeliveriesFit, NEW k \in Reconciler, NEW courier \in CourierRecord,
           Goes(k, courier),
           \A p \in First(courier.page) : CourierFits(courier, placements'[p], roots'[p])
    PROVE  couriers' \in [Reconciler -> CourierRecord] /\ CouriersInv'
<1>1. couriers \in [Reconciler -> CourierRecord]
  BY DEF ExternalInv, ExternalTypeOK
<1>2. couriers' \in [Reconciler -> CourierRecord]
      /\ \A j \in Reconciler : couriers'[j] = IF j = k THEN courier ELSE couriers[j]
  BY <1>1 DEF Goes
<1>3. ASSUME NEW j \in Reconciler, NEW p \in First(couriers'[j].page)
      PROVE  CourierFits(couriers'[j], placements'[p], roots'[p])
  <2>1. CASE j = k
    BY <1>2, <1>3, <2>1
  <2>2. CASE j # k
    <3>1. couriers'[j] = couriers[j]
      BY <1>2, <2>2
    <3> QED
      BY <1>3, <3>1 DEF DeliveriesFit
  <2> QED
    BY <2>1, <2>2
<1> QED
  BY <1>2, <1>3 DEF CouriersInv

LEMMA NothingMoves ==
    ASSUME ExternalInv, UNCHANGED <<placements, roots>>
    PROVE  DeliveriesFit /\ RootsInv' /\ PermitsInv'
BY DEF ExternalInv, DeliveriesFit, CouriersInv, RootsInv, PermitsInv, PermitHolders

\* One root changes: it has to fit its placement, and to keep an outcome it has.
LEMMA RootMoves ==
    ASSUME ExternalInv, NEW p \in Placement, NEW root \in RootRecord,
           roots' = [roots EXCEPT ![p] = root],
           RootFits(placements[p], root),
           roots[p].status \in RootOutcomes => root.status = roots[p].status,
           UNCHANGED <<placements, parent>>
    PROVE  /\ roots' \in [Placement -> RootRecord]
           /\ RootsInv' /\ DeliveriesFit /\ PermitsInv' /\ ParentInv'
<1>1. roots \in [Placement -> RootRecord] /\ couriers \in [Reconciler -> CourierRecord]
  BY DEF ExternalInv, ExternalTypeOK
<1>2. roots' \in [Placement -> RootRecord]
      /\ \A q \in Placement : roots'[q] = IF q = p THEN root ELSE roots[q]
  BY <1>1
<1>3. RootsInv'
  BY <1>2 DEF ExternalInv, RootsInv
<1>4. DeliveriesFit
  <2> SUFFICES ASSUME NEW k \in Reconciler, NEW q \in First(couriers[k].page)
               PROVE  CourierFits(couriers[k], placements'[q], roots'[q])
    BY DEF DeliveriesFit
  <2>1. q \in Placement
    BY <1>1 DEF First, CourierRecord
  <2>2. CourierFits(couriers[k], placements[q], roots[q])
    BY DEF ExternalInv, CouriersInv
  <2>3. roots'[q] = roots[q] \/ (q = p /\ roots'[q] = root)
    BY <1>2, <2>1
  <2> QED
    BY <2>2, <2>3 DEF CourierFits
<1>5. PermitsInv' /\ ParentInv'
  BY DEF ExternalInv, PermitsInv, PermitHolders, ParentInv, ParentEnded, Outstanding
<1> QED
  BY <1>2, <1>3, <1>4, <1>5

\* A placement may receive a permit, or be cancelled, without a word to its root.
PlacementsStand(P, Q) ==
    \A p \in Placement :
        /\ Q[p].outcome = P[p].outcome
        /\ Q[p].readiness = P[p].readiness \/ (P[p].readiness = "queued" /\ Q[p].readiness = "ready")

LEMMA RequestsStand ==
    ASSUME NEW P \in [Placement -> PlacementRecord]
    PROVE  /\ CancellationRequested(P) \in [Placement -> PlacementRecord]
           /\ \A p \in Placement : /\ CancellationRequested(P)[p].readiness = P[p].readiness
                                   /\ CancellationRequested(P)[p].outcome = P[p].outcome
           /\ PermitHolders(CancellationRequested(P)) = PermitHolders(P)
           /\ Outstanding(CancellationRequested(P)) = Outstanding(P)
<1>1. \A p \in Placement : P[p] \in PlacementRecord
  OBVIOUS
<1>2. \A p \in Placement : [P[p] EXCEPT !.cancelRequested = TRUE] \in PlacementRecord
                           /\ [P[p] EXCEPT !.cancelRequested = TRUE].readiness = P[p].readiness
                           /\ [P[p] EXCEPT !.cancelRequested = TRUE].outcome = P[p].outcome
  BY <1>1 DEF PlacementRecord
<1>3. \A p \in Placement :
        CancellationRequested(P)[p] \in {P[p], [P[p] EXCEPT !.cancelRequested = TRUE]}
  BY DEF CancellationRequested
<1>4. CancellationRequested(P) \in [Placement -> PlacementRecord]
  BY <1>1, <1>2 DEF CancellationRequested
<1>5. \A p \in Placement : /\ CancellationRequested(P)[p].readiness = P[p].readiness
                           /\ CancellationRequested(P)[p].outcome = P[p].outcome
  BY <1>2, <1>3
<1> QED
  BY <1>4, <1>5 DEF PermitHolders, Outstanding

LEMMA PromotionsStand ==
    ASSUME NEW P \in [Placement -> PlacementRecord]
    PROVE  /\ PlacementsPromoted(P) \in [Placement -> PlacementRecord]
           /\ PlacementsStand(P, PlacementsPromoted(P))
           /\ Outstanding(PlacementsPromoted(P)) = Outstanding(P)
<1>1. \A p \in Placement : P[p] \in PlacementRecord
  OBVIOUS
<1>2. \A p \in Placement : [P[p] EXCEPT !.readiness = "ready"] \in PlacementRecord
                           /\ [P[p] EXCEPT !.readiness = "ready"].readiness = "ready"
                           /\ [P[p] EXCEPT !.readiness = "ready"].outcome = P[p].outcome
  BY <1>1 DEF PlacementRecord
<1> DEFINE T == {p \in Promotable(P) : Cardinality(PermitHolders(P)) + Cardinality(UpTo(p, Promotable(P))) <= Permits}
           N == [p \in Placement |-> IF p \in T THEN [P[p] EXCEPT !.readiness = "ready"] ELSE P[p]]
<1>3. PlacementsPromoted(P) = P \/ PlacementsPromoted(P) = N
  BY DEF PlacementsPromoted
<1>4. \A p \in T : P[p].readiness = "queued"
  BY DEF Promotable
<1> HIDE DEF T
<1>5. N \in [Placement -> PlacementRecord]
      /\ \A p \in Placement : /\ N[p].outcome = P[p].outcome
                              /\ N[p].readiness = IF p \in T THEN "ready" ELSE P[p].readiness
  BY <1>1, <1>2
<1> HIDE DEF N
<1>6. PlacementsStand(P, N) /\ Outstanding(N) = Outstanding(P)
  BY <1>4, <1>5 DEF PlacementsStand, Outstanding
<1>7. PlacementsStand(P, P)
  BY DEF PlacementsStand
<1> QED
  BY <1>3, <1>5, <1>6, <1>7

\* Such changes of the placements disturb neither roots nor deliveries.
LEMMA PlacementsMove ==
    ASSUME ExternalInv, PlacementsStand(placements, placements'), UNCHANGED <<roots, couriers>>
    PROVE  RootsInv' /\ CouriersInv'
<1>1. RootsInv'
  BY DEF ExternalInv, RootsInv, RootFits, PlacementsStand
<1>2. couriers \in [Reconciler -> CourierRecord]
  BY DEF ExternalInv, ExternalTypeOK
<1>3. ASSUME NEW k \in Reconciler, NEW p \in First(couriers[k].page)
      PROVE  CourierFits(couriers[k], placements'[p], roots[p])
  <2>1. p \in Placement
    BY <1>2 DEF First, CourierRecord
  <2>2. CourierFits(couriers[k], placements[p], roots[p])
    BY DEF ExternalInv, CouriersInv
  <2> QED
    BY <2>1, <2>2 DEF CourierFits, PlacementsStand
<1> QED
  BY <1>1, <1>3 DEF CouriersInv

-----------------------------------------------------------------------------
(* The parent.                                                             *)

LEMMA ReserveKeeps ==
    ASSUME ExternalInv, NEW p \in Placement, Reserve(p)
    PROVE  ExternalInv'
<1> DEFINE new == [placements[p] EXCEPT !.readiness = IF Cardinality(PermitHolders(placements)) < Permits
                                                       THEN "ready" ELSE "queued",
                                        !.cancelRequested = parent.cancelled]
<1>1. placements \in [Placement -> PlacementRecord] /\ placements[p] \in PlacementRecord
      /\ parent.cancelled \in BOOLEAN /\ roots \in [Placement -> RootRecord]
  BY DEF ExternalInv, ExternalTypeOK
<1>2. /\ new \in PlacementRecord /\ new.readiness \in {"ready", "queued"}
      /\ new.readiness = "ready" => Cardinality(PermitHolders(placements)) < Permits
      /\ new.outcome = placements[p].outcome
  BY <1>1 DEF PlacementRecord
<1>3. placements' = [placements EXCEPT ![p] = new]
  BY <1>1 DEF Reserve
<1> HIDE DEF new
<1>4. placements' \in [Placement -> PlacementRecord]
      /\ \A q \in Placement : placements'[q] = IF q = p THEN new ELSE placements[q]
  BY <1>1, <1>2, <1>3
<1>5. placements[p].readiness = "absent" /\ parent.owned
      /\ UNCHANGED <<parent, roots, couriers, externalFaults>>
  BY DEF Reserve
<1>6. ExternalTypeOK'
  BY <1>4, <1>5 DEF ExternalInv, ExternalTypeOK
<1>7. RootsInv'
  <2>1. RootFits(placements[p], roots[p])
    BY DEF ExternalInv, RootsInv
  <2>2. RootFits(new, roots[p])
    BY <1>2, <1>5, <2>1 DEF RootFits
  <2> QED
    BY <1>4, <1>5, <2>2 DEF ExternalInv, RootsInv
<1>8. CouriersInv'
  <2>1. ASSUME NEW k \in Reconciler, NEW q \in First(couriers[k].page)
        PROVE  CourierFits(couriers[k], placements'[q], roots[q])
    <3>1. q \in Placement
      BY DEF ExternalInv, ExternalTypeOK, First, CourierRecord
    <3>2. CourierFits(couriers[k], placements[q], roots[q])
      BY DEF ExternalInv, CouriersInv
    <3>3. placements'[q] = placements[q] \/ (q = p /\ placements'[q] = new)
      BY <1>4, <3>1
    <3> QED
      BY <1>2, <1>5, <3>2, <3>3 DEF CourierFits
  <2> QED
    BY <1>5, <2>1 DEF CouriersInv
<1>9. PermitsInv'
  <2>1. CASE new.readiness = "ready"
    <3>1. PermitHolders(placements') = PermitHolders(placements) \cup {p}
      BY <1>4, <2>1 DEF PermitHolders
    <3>2. IsFiniteSet(PermitHolders(placements)) /\ Cardinality(PermitHolders(placements)) \in Nat
      BY PlacementsAreFinite DEF PermitHolders
    <3>3. p \notin PermitHolders(placements)
      BY <1>5 DEF PermitHolders
    <3>4. Cardinality(PermitHolders(placements')) = Cardinality(PermitHolders(placements)) + 1
      BY <3>1, <3>2, <3>3, FS_AddElement
    <3>5. Cardinality(PermitHolders(placements)) < Permits /\ Permits \in Nat
      BY <1>2, <2>1, ExternalAssumption
    <3> QED
      BY <3>2, <3>4, <3>5 DEF PermitsInv
  <2>2. CASE new.readiness # "ready"
    <3>1. PermitHolders(placements') = PermitHolders(placements)
      BY <1>4, <1>5, <2>2 DEF PermitHolders
    <3> QED
      BY <3>1 DEF ExternalInv, PermitsInv
  <2> QED
    BY <2>1, <2>2
<1>10. ParentInv'
  BY <1>5 DEF ExternalInv, ParentInv, ParentEnded, RootOutcomes
<1> QED
  BY <1>6, <1>7, <1>8, <1>9, <1>10 DEF ExternalInv

LEMMA CancelPlacementKeeps ==
    ASSUME ExternalInv, NEW p \in Placement, CancelPlacement(p)
    PROVE  ExternalInv'
<1> DEFINE new == [placements[p] EXCEPT !.cancelRequested = TRUE]
<1>1. placements \in [Placement -> PlacementRecord] /\ placements[p] \in PlacementRecord
  BY DEF ExternalInv, ExternalTypeOK
<1>2. /\ new \in PlacementRecord
      /\ new.readiness = placements[p].readiness /\ new.outcome = placements[p].outcome
  BY <1>1 DEF PlacementRecord
<1>3. placements' = [placements EXCEPT ![p] = new]
  BY <1>1 DEF CancelPlacement
<1> HIDE DEF new
<1>4. placements' \in [Placement -> PlacementRecord]
      /\ \A q \in Placement : /\ placements'[q].readiness = placements[q].readiness
                              /\ placements'[q].outcome = placements[q].outcome
  BY <1>1, <1>2, <1>3
<1>5. UNCHANGED <<parent, roots, couriers, externalFaults>>
  BY DEF CancelPlacement
<1>6. RootsInv' /\ CouriersInv'
  BY <1>4, <1>5, PlacementsMove DEF PlacementsStand
<1>7. PermitsInv' /\ ParentInv'
  <2>1. PermitHolders(placements') = PermitHolders(placements)
        /\ Outstanding(placements') = Outstanding(placements)
    BY <1>4 DEF PermitHolders, Outstanding
  <2> QED
    BY <1>5, <2>1 DEF ExternalInv, PermitsInv, ParentInv, ParentEnded
<1> QED
  BY <1>4, <1>5, <1>6, <1>7 DEF ExternalInv, ExternalTypeOK

ParentRecord ==
    [status : {"running", "cancelling"} \cup RootOutcomes, owned : BOOLEAN, cancelled : BOOLEAN]

\* A parent that is cancelled ends only when nothing of it is outstanding.
LEMMA ParentCancelledFits ==
    ASSUME NEW P, parent \in ParentRecord, parent.owned => ~ParentEnded,
           parent.status = "cancelled" => Outstanding(P) = {}
    PROVE  /\ ParentCancelled(P) \in ParentRecord
           /\ ParentCancelled(P).owned => ParentCancelled(P).status \notin RootOutcomes
           /\ ParentCancelled(P).status = "cancelled" => Outstanding(P) = {}
<1>1. CASE ParentEnded
  BY <1>1 DEF ParentCancelled, ParentEnded
<1>2. CASE ~ParentEnded
  BY <1>2 DEF ParentCancelled, ParentRecord, RootOutcomes
<1> QED
  BY <1>1, <1>2

LEMMA CancelParentKeeps ==
    ASSUME ExternalInv, CancelParent PROVE ExternalInv'
<1>1. /\ placements \in [Placement -> PlacementRecord] /\ parent \in ParentRecord
  BY DEF ExternalInv, ExternalTypeOK, ParentRecord
<1>2. /\ placements' = CancellationRequested(placements) /\ parent' = ParentCancelled(placements)
      /\ UNCHANGED <<roots, couriers, externalFaults>>
  BY DEF CancelParent
<1>3. /\ parent' \in ParentRecord
      /\ parent'.owned => parent'.status \notin RootOutcomes
      /\ parent'.status = "cancelled" => Outstanding(placements) = {}
  BY <1>1, <1>2, ParentCancelledFits DEF ExternalInv, ParentInv
<1>4. /\ placements' \in [Placement -> PlacementRecord]
      /\ \A p \in Placement : /\ placements'[p].readiness = placements[p].readiness
                              /\ placements'[p].outcome = placements[p].outcome
      /\ PermitHolders(placements') = PermitHolders(placements)
      /\ Outstanding(placements') = Outstanding(placements)
  BY <1>1, <1>2, RequestsStand
<1>5. RootsInv' /\ CouriersInv'
  BY <1>2, <1>4, PlacementsMove DEF PlacementsStand
<1>6. PermitsInv' /\ ParentInv'
  BY <1>3, <1>4 DEF ExternalInv, PermitsInv, ParentInv, ParentEnded
<1> QED
  BY <1>2, <1>3, <1>4, <1>5, <1>6 DEF ExternalInv, ExternalTypeOK, ParentRecord

\* The parent alone changes.
LEMMA ParentMoves ==
    ASSUME ExternalInv, UNCHANGED <<placements, roots, couriers>>,
           parent' \in ParentRecord, externalFaults' \in 0..MaxExternalFaults,
           parent'.owned => parent'.status \notin RootOutcomes,
           parent'.status = "cancelled" => Outstanding(placements) = {}
    PROVE  ExternalInv'
<1>1. RootsInv' /\ PermitsInv' /\ CouriersInv'
  BY NothingMoves, CouriersStand
<1>2. ParentInv'
  BY DEF ParentInv, ParentEnded, Outstanding
<1>3. ExternalTypeOK'
  BY DEF ExternalInv, ExternalTypeOK, ParentRecord
<1> QED
  BY <1>1, <1>2, <1>3 DEF ExternalInv

LEMMA ParentExecutes ==
    ASSUME ExternalInv, ClaimParent \/ EndParent \/ LoseParent
    PROVE  ExternalInv'
<1>1. parent \in ParentRecord /\ externalFaults \in 0..MaxExternalFaults /\ MaxExternalFaults \in Nat
  BY ExternalAssumption DEF ExternalInv, ExternalTypeOK, ParentRecord
<1>2. parent.status = "cancelled" => Outstanding(placements) = {}
  BY DEF ExternalInv, ParentInv
<1>3. CASE ClaimParent
  <2>1. parent' \in ParentRecord /\ parent'.status = parent.status /\ parent.status \notin RootOutcomes
    BY <1>1, <1>3 DEF ClaimParent, ParentRecord, ParentEnded
  <2>2. UNCHANGED <<placements, roots, couriers, externalFaults>>
    BY <1>3 DEF ClaimParent
  <2> QED
    BY <1>1, <1>2, <2>1, <2>2, ParentMoves
<1>4. CASE EndParent
  <2>1. /\ parent' \in ParentRecord /\ ~parent'.owned
        /\ parent'.status = "cancelled" => Outstanding(placements) = {}
    BY <1>1, <1>4 DEF EndParent, ParentRecord, RootOutcomes
  <2>2. UNCHANGED <<placements, roots, couriers, externalFaults>>
    BY <1>4 DEF EndParent
  <2> QED
    BY <1>1, <2>1, <2>2, ParentMoves
<1>5. CASE LoseParent
  <2>1. parent' \in ParentRecord /\ ~parent'.owned /\ parent'.status = parent.status
    BY <1>1, <1>5 DEF LoseParent, ParentRecord
  <2>2. UNCHANGED <<placements, roots, couriers>> /\ externalFaults' \in 0..MaxExternalFaults
    BY <1>1, <1>5 DEF LoseParent, Interrupted
  <2> QED
    BY <1>2, <2>1, <2>2, ParentMoves
<1> QED
  BY <1>3, <1>4, <1>5

-----------------------------------------------------------------------------
(* The receiver.                                                           *)

LEMMA RootExecutes ==
    ASSUME ExternalInv, NEW p \in Placement, ClaimRoot(p) \/ EndRoot(p) \/ LoseRoot(p)
    PROVE  ExternalInv'
<1>1. /\ roots \in [Placement -> RootRecord] /\ roots[p] \in RootRecord
      /\ externalFaults \in 0..MaxExternalFaults /\ MaxExternalFaults \in Nat
      /\ RootFits(placements[p], roots[p])
  BY ExternalAssumption DEF ExternalInv, ExternalTypeOK, RootsInv
<1>2. UNCHANGED <<parent, placements, couriers>> /\ externalFaults' \in 0..MaxExternalFaults
  BY <1>1 DEF ClaimRoot, EndRoot, LoseRoot, Interrupted
<1>3. \E root \in RootRecord :
        /\ roots' = [roots EXCEPT ![p] = root]
        /\ RootFits(placements[p], root)
        /\ roots[p].status \in RootOutcomes => root.status = roots[p].status
  <2>1. CASE ClaimRoot(p)
    <3> DEFINE root == [roots[p] EXCEPT !.owned = TRUE]
    <3>1. roots' = [roots EXCEPT ![p] = root]
      BY <1>1, <2>1 DEF ClaimRoot
    <3>2. root \in RootRecord /\ RootFits(placements[p], root) /\ root.status = roots[p].status
      BY <1>1, <2>1 DEF ClaimRoot, RootRecord, RootFits
    <3> QED
      BY <3>1, <3>2
  <2>2. CASE EndRoot(p)
    <3> DEFINE root == [roots[p] EXCEPT !.owned = FALSE,
                                        !.status = IF roots[p].cancelled THEN "cancelled" ELSE "done"]
    <3>1. roots' = [roots EXCEPT ![p] = root]
      BY <1>1, <2>2 DEF EndRoot
    <3>2. roots[p].owned /\ roots[p].status \in {"running", "cancelling"}
      BY <1>1, <2>2 DEF EndRoot, RootFits
    <3>3. root \in RootRecord /\ ~root.owned /\ root.status \in RootOutcomes
          /\ root.acknowledged = roots[p].acknowledged
      BY <1>1 DEF RootRecord, RootOutcomes
    <3>4. RootFits(placements[p], root) /\ roots[p].status \notin RootOutcomes
      BY <1>1, <3>2, <3>3 DEF RootFits, RootOutcomes
    <3> QED
      BY <3>1, <3>3, <3>4
  <2>3. CASE LoseRoot(p)
    <3> DEFINE root == [roots[p] EXCEPT !.owned = FALSE]
    <3>1. roots' = [roots EXCEPT ![p] = root]
      BY <1>1, <2>3 DEF LoseRoot
    <3>2. root \in RootRecord /\ RootFits(placements[p], root) /\ root.status = roots[p].status
      BY <1>1, <2>3 DEF RootRecord, RootFits
    <3> QED
      BY <3>1, <3>2
  <2> QED
    BY <2>1, <2>2, <2>3
<1>4. /\ roots' \in [Placement -> RootRecord]
      /\ RootsInv' /\ DeliveriesFit /\ PermitsInv' /\ ParentInv'
  BY <1>2, <1>3, RootMoves
<1> QED
  BY <1>2, <1>4, CouriersStand DEF ExternalInv, ExternalTypeOK

-----------------------------------------------------------------------------
(* Deliveries.                                                             *)

LEMMA CourierTypes ==
    ASSUME ExternalInv, NEW k \in Reconciler, NEW p \in First(couriers[k].page)
    PROVE  /\ couriers[k] \in CourierRecord /\ couriers[k].page \in SUBSET Placement
           /\ p \in Placement
           /\ placements[p] \in PlacementRecord /\ roots[p] \in RootRecord
           /\ CourierFits(couriers[k], placements[p], roots[p])
           /\ RootFits(placements[p], roots[p])
<1>1. couriers[k] \in CourierRecord
  BY DEF ExternalInv, ExternalTypeOK
<1>2. p \in Placement /\ couriers[k].page \in SUBSET Placement
  BY <1>1 DEF First, CourierRecord
<1>3. placements[p] \in PlacementRecord /\ roots[p] \in RootRecord
  BY <1>2 DEF ExternalInv, ExternalTypeOK
<1> QED
  BY <1>1, <1>2, <1>3 DEF ExternalInv, CouriersInv, RootsInv

\* A courier that starts, goes on to its next placement or stops knows nothing.
Knows(courier) == courier.wish = "activate" \/ courier.at \in {"act", "settle", "confirm"}
LEMMA OnwardsKnowsNothing ==
    /\ Parked \in CourierRecord /\ ~Knows(Parked)
    /\ \A page \in SUBSET Placement :
            /\ [Parked EXCEPT !.at = "admit", !.page = page] \in CourierRecord
            /\ ~Knows([Parked EXCEPT !.at = "admit", !.page = page])
    /\ \A courier \in CourierRecord, p \in Placement :
            Onwards(courier, p) \in CourierRecord /\ ~Knows(Onwards(courier, p))
<1>1. Parked \in CourierRecord /\ ~Knows(Parked)
  BY DEF Parked, CourierRecord, Knows
<1>2. ASSUME NEW page \in SUBSET Placement
      PROVE  /\ [Parked EXCEPT !.at = "admit", !.page = page] \in CourierRecord
             /\ ~Knows([Parked EXCEPT !.at = "admit", !.page = page])
  BY DEF Parked, CourierRecord, Knows
<1>3. ASSUME NEW courier \in CourierRecord, NEW p \in Placement
      PROVE  Onwards(courier, p) \in CourierRecord /\ ~Knows(Onwards(courier, p))
  <2>1. courier.page \ {p} \in SUBSET Placement
    BY DEF CourierRecord
  <2> QED
    BY <1>1, <1>2, <2>1 DEF Onwards
<1> QED
  BY <1>1, <1>2, <1>3

LEMMA UnknowingFits ==
    ASSUME NEW courier, ~Knows(courier), NEW placement, NEW root
    PROVE  CourierFits(courier, placement, root)
BY DEF Knows, CourierFits

\* A courier moves and nothing else.
LEMMA CourierGoes ==
    ASSUME ExternalInv, NEW k \in Reconciler, NEW courier \in CourierRecord,
           Goes(k, courier), UNCHANGED <<parent, placements, roots>>,
           externalFaults' \in 0..MaxExternalFaults,
           \A p \in First(courier.page) : CourierFits(courier, placements[p], roots[p])
    PROVE  ExternalInv'
<1>1. DeliveriesFit /\ RootsInv' /\ PermitsInv'
  BY NothingMoves
<1>2. couriers' \in [Reconciler -> CourierRecord] /\ CouriersInv'
  BY <1>1, CourierMoves
<1>3. ParentInv'
  BY DEF ExternalInv, ParentInv, ParentEnded, Outstanding
<1> QED
  BY <1>1, <1>2, <1>3 DEF ExternalInv, ExternalTypeOK

LEMMA FaultsTyped ==
    ASSUME ExternalInv
    PROVE  /\ UNCHANGED externalFaults => externalFaults' \in 0..MaxExternalFaults
           /\ Interrupted => externalFaults' \in 0..MaxExternalFaults
BY ExternalAssumption DEF ExternalInv, ExternalTypeOK, Interrupted

LEMMA CollectKeeps ==
    ASSUME ExternalInv, NEW k \in Reconciler, Collect(k) PROVE ExternalInv'
<1>1. OutstandingFor(k) \in SUBSET Placement
  BY DEF OutstandingFor, Outstanding
<1>2. /\ Goes(k, [Parked EXCEPT !.at = "admit", !.page = OutstandingFor(k)])
      /\ UNCHANGED <<parent, placements, roots>> /\ UNCHANGED externalFaults
  BY DEF Collect
<1> HIDE DEF Parked
<1> QED
  BY <1>1, <1>2, FaultsTyped, OnwardsKnowsNothing, UnknowingFits, CourierGoes

LEMMA LosePageKeeps ==
    ASSUME ExternalInv, NEW k \in Reconciler, LosePage(k) PROVE ExternalInv'
<1>1. Goes(k, Parked) /\ UNCHANGED <<parent, placements, roots>> /\ Interrupted
  BY DEF LosePage
<1> QED
  BY <1>1, FaultsTyped, OnwardsKnowsNothing, UnknowingFits, CourierGoes

LEMMA AdmitRootKeeps ==
    ASSUME ExternalInv, NEW k \in Reconciler, NEW p \in First(couriers[k].page), AdmitRoot(k, p)
    PROVE  ExternalInv'
<1> DEFINE root == [roots[p] EXCEPT !.status = IF roots[p].status = "absent" THEN "queued" ELSE roots[p].status]
           courier == [couriers[k] EXCEPT !.at = "inspect"]
<1>1. /\ couriers[k] \in CourierRecord /\ couriers[k].page \in SUBSET Placement
      /\ p \in Placement /\ roots[p] \in RootRecord
      /\ CourierFits(couriers[k], placements[p], roots[p])
      /\ RootFits(placements[p], roots[p])
  BY CourierTypes
<1>2. roots \in [Placement -> RootRecord]
  BY DEF ExternalInv, ExternalTypeOK
<1>3. roots' = [roots EXCEPT ![p] = root]
  BY <1>1, <1>2 DEF AdmitRoot
<1>4. root \in RootRecord /\ RootFits(placements[p], root)
      /\ (roots[p].status \in RootOutcomes => root.status = roots[p].status)
  BY <1>1 DEF RootRecord, RootFits, RootOutcomes
<1>5. UNCHANGED <<parent, placements>> /\ UNCHANGED externalFaults /\ Goes(k, courier)
  BY DEF AdmitRoot
<1>6. /\ courier \in CourierRecord /\ courier.page = couriers[k].page
      /\ courier.at = "inspect" /\ courier.wish = couriers[k].wish
  BY <1>1 DEF CourierRecord
<1> HIDE DEF root, courier
<1>7. /\ roots' \in [Placement -> RootRecord]
      /\ RootsInv' /\ DeliveriesFit /\ PermitsInv' /\ ParentInv'
  BY <1>1, <1>3, <1>4, <1>5, RootMoves
<1>8. ASSUME NEW q \in First(courier.page)
      PROVE  CourierFits(courier, placements'[q], roots'[q])
  <2>1. q \in First(couriers[k].page)
    BY <1>6
  <2>2. CourierFits(couriers[k], placements'[q], roots'[q])
    BY <1>7, <2>1 DEF DeliveriesFit
  <2> QED
    BY <1>6, <2>2 DEF CourierFits
<1>9. couriers' \in [Reconciler -> CourierRecord] /\ CouriersInv'
  BY <1>5, <1>6, <1>7, <1>8, CourierMoves
<1> QED
  BY <1>5, <1>7, <1>9, FaultsTyped DEF ExternalInv, ExternalTypeOK

LEMMA InspectPlacementKeeps ==
    ASSUME ExternalInv, NEW k \in Reconciler, NEW p \in First(couriers[k].page), InspectPlacement(k, p)
    PROVE  ExternalInv'
<1> DEFINE courier == [couriers[k] EXCEPT !.at = "inspectRoot", !.wish = WishFor(placements[p])]
<1>1. /\ couriers[k] \in CourierRecord /\ couriers[k].page \in SUBSET Placement
      /\ p \in Placement /\ placements[p] \in PlacementRecord
  BY CourierTypes
<1>2. UNCHANGED <<parent, placements, roots>> /\ UNCHANGED externalFaults /\ Goes(k, courier)
  BY DEF InspectPlacement
<1>3. WishFor(placements[p]) \in {"none", "cancel", "activate"}
      /\ (WishFor(placements[p]) = "activate" => placements[p].readiness = "ready")
  BY DEF WishFor
<1>4. /\ courier \in CourierRecord /\ courier.page = couriers[k].page
      /\ courier.at = "inspectRoot" /\ courier.wish = WishFor(placements[p])
  BY <1>1, <1>3 DEF CourierRecord
<1> HIDE DEF courier
<1>5. ASSUME NEW q \in First(courier.page)
      PROVE  CourierFits(courier, placements[q], roots[q])
  <2>1. q = p
    BY <1>1, <1>4, FirstIsOne
  <2> QED
    BY <1>3, <1>4, <2>1 DEF CourierFits
<1> QED
  BY <1>2, <1>4, <1>5, FaultsTyped, CourierGoes

LEMMA InspectRootKeeps ==
    ASSUME ExternalInv, NEW k \in Reconciler, NEW p \in First(couriers[k].page), InspectRoot(k, p)
    PROVE  ExternalInv'
<1> DEFINE acts == couriers[k].wish # "none" /\ ~RootEnded(p)
           courier == [couriers[k] EXCEPT !.at = IF acts THEN "act" ELSE "read",
                                          !.wish = IF acts THEN couriers[k].wish ELSE "none"]
<1>1. couriers[k] \in CourierRecord
  BY CourierTypes
<1>2. UNCHANGED <<parent, placements, roots>> /\ UNCHANGED externalFaults
  BY DEF InspectRoot
<1>3. Goes(k, courier)
  BY <1>1 DEF InspectRoot
<1>4. /\ courier \in CourierRecord /\ courier.page = couriers[k].page
      /\ courier.at \in {"act", "read"} /\ (courier.at = "act" => courier.wish # "none")
      /\ courier.wish \in {"none", couriers[k].wish}
  BY <1>1 DEF CourierRecord
<1> HIDE DEF courier
<1>5. ASSUME NEW q \in First(courier.page)
      PROVE  CourierFits(courier, placements[q], roots[q])
  <2>1. CourierFits(couriers[k], placements[q], roots[q])
    BY <1>4 DEF ExternalInv, CouriersInv
  <2> QED
    BY <1>4, <2>1 DEF CourierFits
<1> QED
  BY <1>2, <1>3, <1>4, <1>5, FaultsTyped, CourierGoes

\* A root that has ended is not cancelled, and none is left to run that has no permit.
LEMMA ActKeeps ==
    ASSUME ExternalInv, NEW k \in Reconciler, NEW p \in First(couriers[k].page), Act(k, p)
    PROVE  ExternalInv'
<1> DEFINE root == IF couriers[k].wish = "cancel" THEN RootCancelled(roots[p])
                   ELSE IF roots[p].status = "queued" /\ ~roots[p].cancelled
                        THEN [roots[p] EXCEPT !.status = "running"]
                   ELSE roots[p]
           courier == [couriers[k] EXCEPT !.at = "read", !.wish = "none"]
<1>1. /\ couriers[k] \in CourierRecord
      /\ p \in Placement /\ placements[p] \in PlacementRecord /\ roots[p] \in RootRecord
      /\ CourierFits(couriers[k], placements[p], roots[p])
      /\ RootFits(placements[p], roots[p])
  BY CourierTypes
<1>2. roots \in [Placement -> RootRecord]
  BY DEF ExternalInv, ExternalTypeOK
<1>3. roots' = [roots EXCEPT ![p] = root]
  BY DEF Act
<1>4. root \in RootRecord /\ RootFits(placements[p], root)
      /\ (roots[p].status \in RootOutcomes => root.status = roots[p].status)
  <2>1. CASE couriers[k].wish = "cancel"
    BY <1>1, <2>1 DEF RootCancelled, RootRecord, RootFits, RootOutcomes
  <2>2. CASE couriers[k].wish # "cancel" /\ ~(roots[p].status = "queued" /\ ~roots[p].cancelled)
    BY <1>1, <2>2
  <2>3. CASE couriers[k].wish # "cancel" /\ roots[p].status = "queued" /\ ~roots[p].cancelled
    <3>1. placements[p].readiness \in {"ready", "settled"}
      <4>1. couriers[k].at = "act"
        BY DEF Act
      <4> QED
        BY <1>1, <2>3, <4>1 DEF CourierFits, CourierRecord
    <3> QED
      BY <1>1, <2>3, <3>1 DEF RootRecord, RootFits, RootOutcomes
  <2> QED
    BY <2>1, <2>2, <2>3
<1>5. UNCHANGED <<parent, placements>> /\ UNCHANGED externalFaults /\ Goes(k, courier)
  BY DEF Act
<1>6. courier \in CourierRecord /\ ~Knows(courier)
  BY <1>1 DEF CourierRecord, Knows
<1> HIDE DEF root, courier
<1>7. /\ roots' \in [Placement -> RootRecord]
      /\ RootsInv' /\ DeliveriesFit /\ PermitsInv' /\ ParentInv'
  BY <1>1, <1>3, <1>4, <1>5, RootMoves
<1>8. couriers' \in [Reconciler -> CourierRecord] /\ CouriersInv'
  BY <1>5, <1>6, <1>7, UnknowingFits, CourierMoves
<1> QED
  BY <1>5, <1>7, <1>8, FaultsTyped DEF ExternalInv, ExternalTypeOK

LEMMA ReadSettlementKeeps ==
    ASSUME ExternalInv, NEW k \in Reconciler, NEW p \in First(couriers[k].page), ReadSettlement(k, p)
    PROVE  ExternalInv'
<1> DEFINE courier == [couriers[k] EXCEPT !.at = "settle", !.outcome = roots[p].status]
<1>1. /\ couriers[k] \in CourierRecord /\ couriers[k].page \in SUBSET Placement
      /\ p \in Placement
      /\ CourierFits(couriers[k], placements[p], roots[p])
  BY CourierTypes
<1>2. UNCHANGED <<parent, placements, roots>> /\ UNCHANGED externalFaults
  BY DEF ReadSettlement
<1>3. CASE RootEnded(p)
  <2>1. Goes(k, courier)
    BY <1>3 DEF ReadSettlement
  <2>2. roots[p].status \in RootOutcomes
    BY <1>3 DEF RootEnded
  <2>3. /\ courier \in CourierRecord /\ courier.page = couriers[k].page
        /\ courier.at = "settle" /\ courier.outcome = roots[p].status
        /\ courier.wish = couriers[k].wish
    BY <1>1, <2>2 DEF CourierRecord
  <2> HIDE DEF courier
  <2>4. ASSUME NEW q \in First(courier.page)
        PROVE  CourierFits(courier, placements[q], roots[q])
    <3>1. q = p
      BY <1>1, <2>3, FirstIsOne
    <3> QED
      BY <1>1, <2>2, <2>3, <3>1 DEF CourierFits
  <2> QED
    BY <1>2, <2>1, <2>3, <2>4, FaultsTyped, CourierGoes
<1>4. CASE ~RootEnded(p)
  <2>1. Goes(k, Onwards(couriers[k], p))
    BY <1>4 DEF ReadSettlement
  <2> QED
    BY <1>1, <1>2, <2>1, FaultsTyped, OnwardsKnowsNothing, UnknowingFits, CourierGoes
<1> QED
  BY <1>3, <1>4

\* The receiver takes a root for delivered when the parent has its outcome.
LEMMA ConfirmSettlementKeeps ==
    ASSUME ExternalInv, NEW k \in Reconciler, NEW p \in First(couriers[k].page), ConfirmSettlement(k, p)
    PROVE  ExternalInv'
<1> DEFINE root == [roots[p] EXCEPT !.acknowledged = TRUE]
<1>1. /\ couriers[k] \in CourierRecord
      /\ p \in Placement /\ roots[p] \in RootRecord
      /\ CourierFits(couriers[k], placements[p], roots[p])
      /\ RootFits(placements[p], roots[p])
  BY CourierTypes
<1>2. roots' = [roots EXCEPT ![p] = root]
  BY <1>1 DEF ConfirmSettlement, ExternalInv, ExternalTypeOK
<1>3. /\ UNCHANGED <<parent, placements>> /\ UNCHANGED externalFaults
      /\ Goes(k, Onwards(couriers[k], p)) /\ couriers[k].at = "confirm"
  BY DEF ConfirmSettlement
<1>4. root \in RootRecord /\ RootFits(placements[p], root) /\ root.status = roots[p].status
  BY <1>1, <1>3 DEF RootRecord, RootFits, CourierFits
<1> HIDE DEF root
<1>5. /\ roots' \in [Placement -> RootRecord]
      /\ RootsInv' /\ DeliveriesFit /\ PermitsInv' /\ ParentInv'
  BY <1>1, <1>2, <1>3, <1>4, RootMoves
<1>6. couriers' \in [Reconciler -> CourierRecord] /\ CouriersInv'
  BY <1>1, <1>3, <1>5, OnwardsKnowsNothing, UnknowingFits, CourierMoves
<1> QED
  BY <1>3, <1>5, <1>6, FaultsTyped DEF ExternalInv, ExternalTypeOK

\* A placement that settles records the outcome its root has ended with, and gives
\* its permit to those that queue, or may let its cancelled parent end.
LEMMA SettlementRecorded ==
    ASSUME ExternalInv, NEW p \in Placement, NEW outcome \in RootOutcomes,
           p \in Outstanding(placements), roots[p].status = outcome,
           UNCHANGED roots,
           NEW P, P = [placements EXCEPT ![p] = [placements[p] EXCEPT !.readiness = "settled",
                                                                     !.outcome = outcome]],
           placements' = IF parent.cancelled THEN CancellationRequested(P) ELSE PlacementsPromoted(P),
           parent' = IF parent.cancelled THEN ParentCancelled(P) ELSE parent
    PROVE  /\ placements' \in [Placement -> PlacementRecord] /\ parent' \in ParentRecord
           /\ placements'[p].readiness = "settled" /\ placements'[p].outcome = outcome
           /\ RootsInv' /\ DeliveriesFit /\ PermitsInv' /\ ParentInv'
<1>1. /\ placements \in [Placement -> PlacementRecord] /\ placements[p] \in PlacementRecord
      /\ parent \in ParentRecord /\ couriers \in [Reconciler -> CourierRecord]
  BY DEF ExternalInv, ExternalTypeOK, ParentRecord
<1> DEFINE new == [placements[p] EXCEPT !.readiness = "settled", !.outcome = outcome]
<1>2. new \in PlacementRecord /\ new.readiness = "settled" /\ new.outcome = outcome
  BY <1>1 DEF PlacementRecord
<1>3. P = [placements EXCEPT ![p] = new]
  OBVIOUS
<1> HIDE DEF new
<1>4. P \in [Placement -> PlacementRecord]
      /\ \A q \in Placement : P[q] = IF q = p THEN new ELSE placements[q]
  BY <1>1, <1>2, <1>3
<1>5. Cardinality(PermitHolders(P)) <= Permits
  <2>1. PermitHolders(P) \in SUBSET PermitHolders(placements)
    BY <1>2, <1>4 DEF PermitHolders
  <2>2. PermitHolders(placements) \in SUBSET Placement /\ PermitHolders(P) \in SUBSET Placement
    BY DEF PermitHolders
  <2>3. Cardinality(PermitHolders(P)) <= Cardinality(PermitHolders(placements))
    BY <2>1, <2>2, PlacementsAreFinite, FS_Subset
  <2>4. /\ Cardinality(PermitHolders(P)) \in Nat /\ Cardinality(PermitHolders(placements)) \in Nat
        /\ Permits \in Nat
    BY <2>2, PlacementsAreFinite, ExternalAssumption
  <2> QED
    BY <2>3, <2>4 DEF ExternalInv, PermitsInv
<1>6. Outstanding(P) \in SUBSET Outstanding(placements)
  BY <1>2, <1>4 DEF Outstanding
<1>7. parent.owned => ~ParentEnded
  BY DEF ExternalInv, ParentInv
<1>8. parent.status # "cancelled"
  BY DEF ExternalInv, ParentInv
<1>9. /\ placements' \in [Placement -> PlacementRecord]
      /\ PlacementsStand(P, placements')
      /\ Outstanding(placements') = Outstanding(P)
      /\ Cardinality(PermitHolders(placements')) <= Permits
  <2>1. CASE parent.cancelled
    <3>1. placements' = CancellationRequested(P)
      BY <2>1
    <3>2. /\ CancellationRequested(P) \in [Placement -> PlacementRecord]
          /\ \A q \in Placement : /\ CancellationRequested(P)[q].readiness = P[q].readiness
                                  /\ CancellationRequested(P)[q].outcome = P[q].outcome
          /\ PermitHolders(CancellationRequested(P)) = PermitHolders(P)
          /\ Outstanding(CancellationRequested(P)) = Outstanding(P)
      BY <1>4, RequestsStand
    <3>3. PlacementsStand(P, CancellationRequested(P))
      BY <3>2 DEF PlacementsStand
    <3> QED
      BY <1>5, <3>1, <3>2, <3>3
  <2>2. CASE ~parent.cancelled
    <3>1. placements' = PlacementsPromoted(P)
      BY <2>2
    <3> QED
      BY <1>4, <1>5, <3>1, PromotionsStand, PromotionFits
  <2> QED
    BY <2>1, <2>2
<1>10. ASSUME NEW q \in Placement, q # p
       PROVE  /\ placements'[q].outcome = placements[q].outcome
              /\ \/ placements'[q].readiness = placements[q].readiness
                 \/ placements[q].readiness = "queued" /\ placements'[q].readiness = "ready"
  <2>1. P[q] = placements[q]
    BY <1>4, <1>10
  <2>2. /\ placements'[q].outcome = P[q].outcome
        /\ \/ placements'[q].readiness = P[q].readiness
           \/ P[q].readiness = "queued" /\ placements'[q].readiness = "ready"
    BY <1>9 DEF PlacementsStand
  <2> QED
    BY <2>1, <2>2
<1>11. placements'[p].readiness = "settled" /\ placements'[p].outcome = outcome
  <2>1. P[p].readiness = "settled" /\ P[p].outcome = outcome
    BY <1>2, <1>4
  <2>2. /\ placements'[p].outcome = P[p].outcome
        /\ \/ placements'[p].readiness = P[p].readiness
           \/ P[p].readiness = "queued" /\ placements'[p].readiness = "ready"
    BY <1>9 DEF PlacementsStand
  <2> QED
    BY <2>1, <2>2
<1>12. RootsInv'
  <2> SUFFICES ASSUME NEW q \in Placement PROVE RootFits(placements'[q], roots[q])
    BY DEF RootsInv
  <2>1. RootFits(placements[q], roots[q])
    BY DEF ExternalInv, RootsInv
  <2>2. CASE q = p
    BY <1>11, <2>1, <2>2 DEF RootFits, RootOutcomes
  <2>3. CASE q # p
    BY <1>10, <2>1, <2>3 DEF RootFits
  <2> QED
    BY <2>2, <2>3
<1>13. DeliveriesFit
  <2> SUFFICES ASSUME NEW k \in Reconciler, NEW q \in First(couriers[k].page)
               PROVE  CourierFits(couriers[k], placements'[q], roots[q])
    BY DEF DeliveriesFit
  <2>1. q \in Placement
    BY <1>1 DEF First, CourierRecord
  <2>2. CourierFits(couriers[k], placements[q], roots[q])
    BY DEF ExternalInv, CouriersInv
  <2>3. CASE q = p
    BY <1>11, <2>2, <2>3 DEF CourierFits
  <2>4. CASE q # p
    BY <1>10, <2>1, <2>2, <2>4 DEF CourierFits
  <2> QED
    BY <2>3, <2>4
<1>14. /\ parent' \in ParentRecord
       /\ parent'.owned => parent'.status \notin RootOutcomes
       /\ parent'.status = "cancelled" => Outstanding(P) = {}
  <2>1. CASE parent.cancelled
    <3>1. parent' = ParentCancelled(P)
      BY <2>1
    <3> QED
      BY <1>1, <1>7, <1>8, <3>1, ParentCancelledFits
  <2>2. CASE ~parent.cancelled
    BY <1>1, <1>7, <1>8, <2>2 DEF ParentEnded
  <2> QED
    BY <2>1, <2>2
<1>15. PermitsInv' /\ ParentInv'
  BY <1>9, <1>14 DEF PermitsInv, ParentInv, ParentEnded
<1> QED
  BY <1>9, <1>11, <1>12, <1>13, <1>14, <1>15

LEMMA SettlePlacementKeeps ==
    ASSUME ExternalInv, NEW k \in Reconciler, NEW p \in First(couriers[k].page), SettlePlacement(k, p)
    PROVE  ExternalInv'
<1> DEFINE outcome == couriers[k].outcome
           recorded == [placements EXCEPT ![p] = [placements[p] EXCEPT !.readiness = "settled",
                                                                      !.outcome = outcome]]
           courier == [couriers[k] EXCEPT !.at = "confirm", !.outcome = "none"]
<1>1. /\ couriers[k] \in CourierRecord /\ couriers[k].page \in SUBSET Placement
      /\ p \in Placement
      /\ CourierFits(couriers[k], placements[p], roots[p])
  BY CourierTypes
<1>2. couriers[k].at = "settle" /\ UNCHANGED roots /\ UNCHANGED externalFaults
  BY DEF SettlePlacement
<1>3. roots[p].status = outcome /\ outcome \in RootOutcomes
  BY <1>1, <1>2 DEF CourierFits
<1>4. /\ courier \in CourierRecord /\ courier.page = couriers[k].page
      /\ courier.at = "confirm" /\ courier.wish = couriers[k].wish
  BY <1>1 DEF CourierRecord
<1>5. CASE p \in Outstanding(placements) /\ Goes(k, courier)
           /\ placements' = (IF parent.cancelled THEN CancellationRequested(recorded)
                                                 ELSE PlacementsPromoted(recorded))
           /\ parent' = (IF parent.cancelled THEN ParentCancelled(recorded) ELSE parent)
  <2> HIDE DEF courier
  <2>1. /\ placements' \in [Placement -> PlacementRecord] /\ parent' \in ParentRecord
        /\ placements'[p].readiness = "settled" /\ placements'[p].outcome = outcome
        /\ RootsInv' /\ DeliveriesFit /\ PermitsInv' /\ ParentInv'
    BY <1>1, <1>2, <1>3, <1>5, SettlementRecorded
  <2>2. ASSUME NEW q \in First(courier.page)
        PROVE  CourierFits(courier, placements'[q], roots'[q])
    <3>1. q = p
      BY <1>1, <1>4, FirstIsOne
    <3> QED
      BY <1>4, <2>1, <3>1 DEF CourierFits
  <2>3. couriers' \in [Reconciler -> CourierRecord] /\ CouriersInv'
    BY <1>4, <1>5, <2>1, <2>2, CourierMoves
  <2> QED
    BY <1>2, <2>1, <2>3, FaultsTyped DEF ExternalInv, ExternalTypeOK, ParentRecord
<1>6. CASE placements[p].readiness = "settled" /\ UNCHANGED <<parent, placements>>
           /\ (Goes(k, courier) \/ Goes(k, Parked))
  <2> HIDE DEF courier
  <2>1. ASSUME NEW q \in First(courier.page)
        PROVE  CourierFits(courier, placements[q], roots[q])
    <3>1. q = p
      BY <1>1, <1>4, FirstIsOne
    <3> QED
      BY <1>4, <1>6, <3>1 DEF CourierFits
  <2>2. CASE Goes(k, courier)
    BY <1>2, <1>4, <1>6, <2>1, <2>2, FaultsTyped, CourierGoes
  <2>3. CASE Goes(k, Parked)
    BY <1>2, <1>6, <2>3, FaultsTyped, OnwardsKnowsNothing, UnknowingFits, CourierGoes
  <2> QED
    BY <1>6, <2>2, <2>3
<1> QED
  BY <1>5, <1>6 DEF SettlePlacement

-----------------------------------------------------------------------------
(* The specification.                                                      *)

LEMMA DeliveryKeeps ==
    ASSUME ExternalInv, NEW k \in Reconciler, DeliveryStep(k)
    PROVE  ExternalInv'
<1>1. CASE Collect(k)
  BY <1>1, CollectKeeps
<1>2. ASSUME NEW p \in First(couriers[k].page),
             \/ AdmitRoot(k, p) \/ InspectPlacement(k, p) \/ InspectRoot(k, p) \/ Act(k, p)
             \/ ReadSettlement(k, p) \/ SettlePlacement(k, p) \/ ConfirmSettlement(k, p)
      PROVE  ExternalInv'
  BY <1>2, AdmitRootKeeps, InspectPlacementKeeps, InspectRootKeeps, ActKeeps,
     ReadSettlementKeeps, SettlePlacementKeeps, ConfirmSettlementKeeps
<1> QED
  BY <1>1, <1>2 DEF DeliveryStep

LEMMA ExternalKeeps == ExternalInv /\ [ExternalNext]_externalVars => ExternalInv'
<1> SUFFICES ASSUME ExternalInv, [ExternalNext]_externalVars PROVE ExternalInv'
  OBVIOUS
<1>1. ASSUME NEW p \in Placement,
             Reserve(p) \/ CancelPlacement(p) \/ ClaimRoot(p) \/ EndRoot(p) \/ LoseRoot(p)
      PROVE  ExternalInv'
  BY <1>1, ReserveKeeps, CancelPlacementKeeps, RootExecutes
<1>2. CASE CancelParent \/ ClaimParent \/ EndParent \/ LoseParent
  BY <1>2, CancelParentKeeps, ParentExecutes
<1>3. ASSUME NEW k \in Reconciler, DeliveryStep(k) \/ LosePage(k)
      PROVE  ExternalInv'
  BY <1>3, DeliveryKeeps, LosePageKeeps
<1>4. CASE UNCHANGED externalVars
  <2>1. UNCHANGED <<parent, placements, roots, couriers, externalFaults>>
    BY <1>4 DEF externalVars
  <2>2. RootsInv' /\ PermitsInv' /\ CouriersInv'
    BY <2>1, NothingMoves, CouriersStand
  <2> QED
    BY <2>1, <2>2 DEF ExternalInv, ExternalTypeOK, ParentInv, ParentEnded, Outstanding
<1> QED
  BY <1>1, <1>2, <1>3, <1>4 DEF ExternalNext

LEMMA ExternalInvHolds == ExternalSpec => []ExternalInv
<1> QED
  BY ExternalInitially, ExternalKeeps, PTL DEF ExternalSpec

\* Every reachable state of the two partitions and of the deliveries is well typed
\* (ExternalTypeOK), for any number of placements and reconcilers.
THEOREM ExternalTyped == ExternalSpec => []ExternalTypeOK
<1>1. ExternalInv => ExternalTypeOK
  BY DEF ExternalInv
<1> QED
  BY <1>1, ExternalInvHolds, PTL

\* The partition of a parent and that of its placements' receiver agree
\* (PartitionsAgree), for any number of placements and of deliveries on either side,
\* interrupted anywhere: each command reads and writes one partition, and what a
\* delivery carries from one to the other stays true while it is carried.
THEOREM PartitionsStayInAgreement == ExternalSpec => []PartitionsAgree
<1>1. ExternalInv => PartitionsAgree
  <2> SUFFICES ASSUME ExternalInv PROVE PartitionsAgree
    OBVIOUS
  <2>1. ASSUME NEW p \in Placement
        PROVE  /\ roots[p].status \in {"running", "cancelling"} => p \in PermitHolders(placements)
               /\ placements[p].outcome # "none" => roots[p].status = placements[p].outcome
               /\ roots[p].acknowledged => placements[p].readiness = "settled"
    <3>1. RootFits(placements[p], roots[p])
      BY DEF ExternalInv, RootsInv
    <3> QED
      BY <3>1 DEF RootFits, PermitHolders
  <2> QED
    BY <2>1 DEF PartitionsAgree, ExternalInv, PermitsInv, ParentInv
<1> QED
  BY <1>1, ExternalInvHolds, PTL

-----------------------------------------------------------------------------
(* The queue of a Session.                                                 *)

\* What is in a sequence, and that nothing is in it twice.
Elements(q) == {q[k] : k \in DOMAIN q}
Distinct(q) == \A j, k \in DOMAIN q : q[j] = q[k] => j = k

LEMMA AppendElements ==
    ASSUME NEW S, NEW q \in Seq(S), NEW e \in S
    PROVE  /\ Append(q, e) \in Seq(S)
           /\ Elements(Append(q, e)) = Elements(q) \cup {e}
           /\ Distinct(q) /\ e \notin Elements(q) => Distinct(Append(q, e))
<1> DEFINE r == Append(q, e)
<1>1. /\ r \in Seq(S) /\ Len(q) \in Nat
      /\ DOMAIN q = 1..Len(q) /\ DOMAIN r = 1..(Len(q) + 1)
      /\ r[Len(q) + 1] = e
  OBVIOUS
<1>2. \A k \in 1..Len(q) : r[k] = q[k]
  OBVIOUS
<1> HIDE DEF r
<1>3. \A k \in DOMAIN r : k \in DOMAIN q \/ k = Len(q) + 1
  BY <1>1
<1>4. DOMAIN q \subseteq DOMAIN r /\ Len(q) + 1 \in DOMAIN r
  BY <1>1
<1>5. Elements(r) = Elements(q) \cup {e}
  <2>1. ASSUME NEW k \in DOMAIN r PROVE r[k] \in Elements(q) \cup {e}
    BY <2>1, <1>1, <1>2, <1>3 DEF Elements
  <2>2. ASSUME NEW k \in DOMAIN q PROVE q[k] \in Elements(r)
    BY <2>2, <1>1, <1>2, <1>4 DEF Elements
  <2>3. e \in Elements(r)
    BY <1>1, <1>4 DEF Elements
  <2> QED  BY <2>1, <2>2, <2>3 DEF Elements
<1>6. ASSUME Distinct(q), e \notin Elements(q) PROVE Distinct(r)
  <2>1. \A k \in DOMAIN q : q[k] # e
    BY <1>6 DEF Elements
  <2> QED  BY <2>1, <1>1, <1>2, <1>3, <1>6 DEF Distinct
<1> QED  BY <1>1, <1>5, <1>6 DEF r

LEMMA ConcatElements ==
    ASSUME NEW S, NEW p \in Seq(S), NEW q \in Seq(S)
    PROVE  /\ p \o q \in Seq(S)
           /\ Elements(p \o q) = Elements(p) \cup Elements(q)
           /\ Distinct(p) /\ Distinct(q) /\ Elements(p) \cap Elements(q) = {}
                => Distinct(p \o q)
<1> DEFINE r == p \o q
<1>1. /\ r \in Seq(S) /\ Len(r) = Len(p) + Len(q)
      /\ DOMAIN r = 1..Len(p) + Len(q)
      /\ DOMAIN p = 1..Len(p) /\ DOMAIN q = 1..Len(q)
      /\ Len(p) \in Nat /\ Len(q) \in Nat
  OBVIOUS
<1>2. \A k \in 1..Len(p) : r[k] = p[k]
  OBVIOUS
<1>3. \A k \in 1..Len(q) : r[Len(p) + k] = q[k]
  OBVIOUS
<1>4. \A k \in DOMAIN r : k \in 1..Len(p) \/ \E j \in 1..Len(q) : k = Len(p) + j
  <2> TAKE k \in DOMAIN r
  <2> SUFFICES ASSUME k \notin 1..Len(p)
               PROVE  \E j \in 1..Len(q) : k = Len(p) + j
    OBVIOUS
  <2> WITNESS k - Len(p) \in 1..Len(q)
  <2> QED  BY <1>1
<1> HIDE DEF r
<1>5. Elements(r) = Elements(p) \cup Elements(q)
  <2>1. Elements(r) \subseteq Elements(p) \cup Elements(q)
    <3> SUFFICES ASSUME NEW k \in DOMAIN r
                 PROVE  r[k] \in Elements(p) \cup Elements(q)
      BY DEF Elements
    <3>1. CASE k \in 1..Len(p)
      BY <3>1, <1>1, <1>2 DEF Elements
    <3>2. CASE k \notin 1..Len(p)
      <4>1. PICK j \in 1..Len(q) : k = Len(p) + j
        BY <3>2, <1>4
      <4>2. r[k] = q[j]
        BY <4>1, <1>3
      <4> QED  BY <4>2, <1>1 DEF Elements
    <3> QED  BY <3>1, <3>2
  <2>2. Elements(p) \subseteq Elements(r)
    BY <1>1, <1>2 DEF Elements
  <2>3. Elements(q) \subseteq Elements(r)
    <3> SUFFICES ASSUME NEW j \in 1..Len(q) PROVE q[j] \in Elements(r)
      BY <1>1 DEF Elements
    <3>1. Len(p) + j \in DOMAIN r
      BY <1>1
    <3> QED  BY <3>1, <1>3 DEF Elements
  <2> QED  BY <2>1, <2>2, <2>3
<1>6. ASSUME Distinct(p), Distinct(q), Elements(p) \cap Elements(q) = {}
      PROVE  Distinct(r)
  <2> SUFFICES ASSUME NEW j \in DOMAIN r, NEW k \in DOMAIN r, r[j] = r[k]
               PROVE  j = k
    BY DEF Distinct
  <2>1. CASE j \in 1..Len(p) /\ k \in 1..Len(p)
    BY <2>1, <1>1, <1>2, <1>6 DEF Distinct
  <2>2. CASE j \notin 1..Len(p) /\ k \notin 1..Len(p)
    BY <2>2, <1>1, <1>3, <1>4, <1>6 DEF Distinct
  <2>3. ASSUME NEW a \in DOMAIN r, NEW b \in DOMAIN r, r[a] = r[b],
               a \in 1..Len(p), b \notin 1..Len(p)
        PROVE  FALSE
    <3>1. r[a] \in Elements(p)
      BY <2>3, <1>1, <1>2 DEF Elements
    <3>2. r[b] \in Elements(q)
      BY <2>3, <1>1, <1>3, <1>4 DEF Elements
    <3> QED  BY <2>3, <3>1, <3>2, <1>6
  <2> QED  BY <2>1, <2>2, <2>3
<1> QED  BY <1>1, <1>5, <1>6 DEF r

LEMMA TailElements ==
    ASSUME NEW S, NEW q \in Seq(S), q # <<>>
    PROVE  /\ Head(q) \in S /\ Tail(q) \in Seq(S)
           /\ Elements(q) = Elements(Tail(q)) \cup {Head(q)}
           /\ Distinct(q) => Distinct(Tail(q)) /\ Head(q) \notin Elements(Tail(q))
<1> DEFINE r == Tail(q)
<1>1. /\ r \in Seq(S) /\ Head(q) \in S /\ Head(q) = q[1]
      /\ Len(r) = Len(q) - 1 /\ Len(q) \in Nat /\ Len(q) >= 1
      /\ DOMAIN q = 1..Len(q) /\ DOMAIN r = 1..Len(r)
  OBVIOUS
<1>2. \A k \in 1..Len(r) : r[k] = q[k + 1]
  OBVIOUS
<1> HIDE DEF r
<1>3. \A k \in 1..Len(r) : k + 1 \in DOMAIN q
  BY <1>1
<1>4. \A k \in DOMAIN q : k = 1 \/ (k - 1 \in DOMAIN r /\ q[k] = r[k - 1])
  BY <1>1, <1>2
<1>5. Elements(q) \subseteq Elements(r) \cup {q[1]}
  BY <1>4 DEF Elements
<1>6. Elements(r) \subseteq Elements(q) /\ q[1] \in Elements(q)
  <2>1. ASSUME NEW k \in DOMAIN r PROVE r[k] \in Elements(q)
    BY <2>1, <1>1, <1>2, <1>3 DEF Elements
  <2>2. 1 \in DOMAIN q
    BY <1>1
  <2> QED  BY <2>1, <2>2 DEF Elements
<1>7. ASSUME Distinct(q) PROVE Distinct(r) /\ q[1] \notin Elements(r)
  <2>1. Distinct(r)
    BY <1>7, <1>1, <1>2, <1>3 DEF Distinct
  <2>2. q[1] \notin Elements(r)
    BY <1>7, <1>1, <1>2, <1>3 DEF Distinct, Elements
  <2> QED  BY <2>1, <2>2
<1> QED  BY <1>1, <1>5, <1>6, <1>7 DEF r

LEMMA RemovedElements ==
    ASSUME NEW S, NEW q \in Seq(S), NEW n \in DOMAIN q
    PROVE  LET r == SubSeq(q, 1, n - 1) \o SubSeq(q, n + 1, Len(q))
           IN  /\ r \in Seq(S)
               /\ Elements(q) = Elements(r) \cup {q[n]}
               /\ Distinct(q) => Distinct(r) /\ q[n] \notin Elements(r)
<1> DEFINE a == SubSeq(q, 1, n - 1)
           b == SubSeq(q, n + 1, Len(q))
<1>1. n \in 1..Len(q) /\ Len(q) \in Nat /\ DOMAIN q = 1..Len(q)
  OBVIOUS
<1>2. /\ a \in Seq(S) /\ Len(a) = n - 1 /\ DOMAIN a = 1..(n - 1)
      /\ \A k \in 1..(n - 1) : a[k] = q[k]
  BY <1>1
<1>3. /\ b \in Seq(S) /\ Len(b) = Len(q) - n /\ DOMAIN b = 1..(Len(q) - n)
      /\ \A k \in 1..(Len(q) - n) : b[k] = q[n + k]
  BY <1>1
<1> HIDE DEF a, b
<1>4. \A k \in DOMAIN a : k \in DOMAIN q /\ k # n
  BY <1>1, <1>2
<1>5. \A k \in DOMAIN b : n + k \in DOMAIN q /\ n + k # n
  BY <1>1, <1>3
<1>6. \A k \in DOMAIN q : \/ k = n \/ k \in DOMAIN a
                          \/ (k - n \in DOMAIN b /\ q[k] = b[k - n])
  <2> TAKE k \in DOMAIN q
  <2>1. CASE k <= n
    BY <2>1, <1>1, <1>2
  <2>2. CASE ~(k <= n)
    <3>1. k - n \in 1..(Len(q) - n) /\ n + (k - n) = k
      BY <2>2, <1>1
    <3> QED  BY <3>1, <1>3
  <2> QED  BY <2>1, <2>2
<1>7. Elements(q) = (Elements(a) \cup Elements(b)) \cup {q[n]}
  <2>1. Elements(q) \subseteq (Elements(a) \cup Elements(b)) \cup {q[n]}
    BY <1>2, <1>6 DEF Elements
  <2>2. Elements(a) \subseteq Elements(q)
    BY <1>2, <1>4 DEF Elements
  <2>3. Elements(b) \subseteq Elements(q)
    BY <1>3, <1>5 DEF Elements
  <2> QED  BY <2>1, <2>2, <2>3 DEF Elements
<1>8. ASSUME Distinct(q)
      PROVE  /\ Distinct(a) /\ Distinct(b) /\ Elements(a) \cap Elements(b) = {}
             /\ q[n] \notin Elements(a) \cup Elements(b)
  <2>1. Distinct(a)
    BY <1>8, <1>2, <1>4 DEF Distinct
  <2>2. Distinct(b)
    BY <1>8, <1>3, <1>5, <1>1 DEF Distinct
  <2>3. \A j \in DOMAIN a, k \in DOMAIN b : a[j] # b[k]
    <3> TAKE j \in DOMAIN a, k \in DOMAIN b
    <3>1. j # n + k
      BY <1>1, <1>2, <1>3
    <3> QED  BY <3>1, <1>8, <1>2, <1>3, <1>4, <1>5 DEF Distinct
  <2>4. q[n] \notin Elements(a)
    BY <1>8, <1>2, <1>4 DEF Distinct, Elements
  <2>5. q[n] \notin Elements(b)
    BY <1>8, <1>3, <1>5 DEF Distinct, Elements
  <2> QED  BY <2>1, <2>2, <2>3, <2>4, <2>5 DEF Elements
<1>9. /\ a \o b \in Seq(S)
      /\ Elements(a \o b) = Elements(a) \cup Elements(b)
      /\ Distinct(a) /\ Distinct(b) /\ Elements(a) \cap Elements(b) = {} => Distinct(a \o b)
  BY <1>2, <1>3, ConcatElements
<1>10. /\ a \o b \in Seq(S)
       /\ Elements(q) = Elements(a \o b) \cup {q[n]}
       /\ Distinct(q) => Distinct(a \o b) /\ q[n] \notin Elements(a \o b)
  BY <1>7, <1>8, <1>9
<1> QED  BY <1>10 DEF a, b

-----------------------------------------------------------------------------
\* The Session as a record; nothing is said of its lane.
SessionTyped(s) ==
    /\ s = [queue |-> s.queue, lane |-> s.lane, active |-> s.active,
            lifecycle |-> s.lifecycle, runs |-> s.runs]
    /\ s.queue \in Seq(Input) /\ s.active \in SessionRun \cup {NoRun}
    /\ s.runs \in [SessionRun -> RunRecord]

Queued(s) == Elements(s.queue)
Unread(s) == UNION {Elements(s.runs[r].steering) : r \in SessionRun}
Read(s) == UNION {s.runs[r].consumed : r \in SessionRun}
Own(s) == {i \in Input : s.runs[i].status # "none"}

\* Only the active Run, which has not settled, has messages it has not read.
UnreadOfActive(s) ==
    \A r \in SessionRun : s.runs[r].steering # <<>> =>
                              s.active = r /\ s.runs[r].status # "ended"
NoRepetition(s) ==
    /\ Distinct(s.queue)
    /\ \A r \in SessionRun : Distinct(s.runs[r].steering)
ReadOnce(s) ==
    \A q, r \in SessionRun : s.runs[q].consumed \cap s.runs[r].consumed # {} => q = r
OwnedHaveBegun(s) ==
    \A r \in SessionRun : s.runs[r].owned => s.runs[r].status # "none"

\* The accepted inputs are divided among the places where one can be.
Division(S, A, B, C, D, E) ==
    /\ S = ((A \cup B) \cup (C \cup D)) \cup E
    /\ A \cap B = {} /\ A \cap C = {} /\ A \cap D = {} /\ A \cap E = {}
    /\ B \cap C = {} /\ B \cap D = {} /\ B \cap E = {}
    /\ C \cap D = {} /\ C \cap E = {} /\ D \cap E = {}
Divided(s, S, R) == Division(S, Queued(s), Unread(s), Read(s), Own(s), R)

Kept(s, S, R) ==
    /\ SessionTyped(s)
    /\ UnreadOfActive(s)
    /\ NoRepetition(s)
    /\ ReadOnce(s)
    /\ OwnedHaveBegun(s)
    /\ Divided(s, S, R)

SessionQueueInv ==
    /\ accepted \subseteq Input
    /\ Kept(session, accepted, removed)

\* Steps that move no input.
SameInputs(s, t) ==
    /\ t.queue = s.queue
    /\ \A r \in SessionRun :
        /\ t.runs[r].steering = s.runs[r].steering
        /\ t.runs[r].consumed = s.runs[r].consumed
        /\ t.runs[r].status = "ended" => s.runs[r].status = "ended"
        /\ t.runs[r].owned => s.runs[r].owned \/ s.runs[r].status # "none"
        /\ t.runs[r].status = "none" => s.runs[r].status = "none"
    /\ \A i \in Input : t.runs[i].status = "none" <=> s.runs[i].status = "none"

LEMMA NothingMoved ==
    ASSUME NEW s, NEW t, NEW S, NEW R, Kept(s, S, R), SessionTyped(t), SameInputs(s, t),
           \A r \in SessionRun : s.runs[r].steering # <<>> => t.active = r
    PROVE  Kept(t, S, R)
<1>1. Queued(t) = Queued(s) /\ Unread(t) = Unread(s) /\ Read(t) = Read(s)
  BY DEF SameInputs, Queued, Unread, Read
<1>2. Own(t) = Own(s)
  BY DEF SameInputs, Own
<1>3. Divided(t, S, R)
  BY <1>1, <1>2 DEF Kept, Divided
<1>4. UnreadOfActive(t)
  BY DEF Kept, UnreadOfActive, SameInputs
<1>5. NoRepetition(t) /\ ReadOnce(t)
  BY DEF Kept, NoRepetition, ReadOnce, SameInputs
<1>6. OwnedHaveBegun(t)
  BY DEF Kept, OwnedHaveBegun, SameInputs
<1> QED  BY <1>3, <1>4, <1>5, <1>6 DEF Kept

LEMMA RunsOfInputs == Input \subseteq SessionRun /\ NoRun \notin SessionRun
BY SessionQueueAssumption DEF SessionRun

\* What the promotion of a head changes.
LEMMA BegunSame ==
    ASSUME NEW s, SessionTyped(s), NEW r \in SessionRun, s.runs[r].status = "queued"
    PROVE  /\ SessionTyped(Begun(s, r)) /\ SameInputs(s, Begun(s, r))
           /\ Begun(s, r).active = r
<1>1. s.runs[r] \in RunRecord
  BY DEF SessionTyped
<1> DEFINE run == [s.runs[r] EXCEPT !.status = "running"]
<1>2. /\ run \in RunRecord /\ run.status = "running"
      /\ run.steering = s.runs[r].steering /\ run.consumed = s.runs[r].consumed
  BY <1>1 DEF RunRecord
<1>3. Begun(s, r) = [s EXCEPT !.runs = [s.runs EXCEPT ![r] = run], !.active = r]
  BY DEF Begun, SessionTyped
<1> HIDE DEF run
<1>4. Begun(s, r) = [queue |-> s.queue, lane |-> s.lane, active |-> r,
                     lifecycle |-> s.lifecycle, runs |-> [s.runs EXCEPT ![r] = run]]
  BY <1>3 DEF SessionTyped
<1>5. SessionTyped(Begun(s, r))
  BY <1>2, <1>4 DEF SessionTyped
<1>6. s.runs \in [SessionRun -> RunRecord]
  BY DEF SessionTyped
<1>7. SameInputs(s, Begun(s, r))
  BY <1>2, <1>4, <1>6, RunsOfInputs DEF SameInputs
<1> QED  BY <1>4, <1>5, <1>7

\* What it does to the Runs.
LEMMA BegunDoes ==
    ASSUME NEW s, SessionTyped(s), NEW r \in SessionRun, s.runs[r].status = "queued"
    PROVE  LET t == Begun(s, r)
           IN  /\ SessionTyped(t) /\ t.active = r
               /\ t.lane = s.lane /\ t.lifecycle = s.lifecycle
               /\ t.runs[r].status = "running"
               /\ \A q \in SessionRun : /\ t.runs[q].owned = s.runs[q].owned
                                        /\ q # r => t.runs[q] = s.runs[q]
<1>1. s.runs[r] \in RunRecord /\ s.runs \in [SessionRun -> RunRecord]
  BY DEF SessionTyped
<1> DEFINE run == [s.runs[r] EXCEPT !.status = "running"]
<1>2. run \in RunRecord /\ run.status = "running" /\ run.owned = s.runs[r].owned
  BY <1>1 DEF RunRecord
<1>3. Begun(s, r) = [s EXCEPT !.runs = [s.runs EXCEPT ![r] = run], !.active = r]
  BY DEF Begun, SessionTyped
<1> HIDE DEF run
<1>4. Begun(s, r) = [queue |-> s.queue, lane |-> s.lane, active |-> r,
                     lifecycle |-> s.lifecycle, runs |-> [s.runs EXCEPT ![r] = run]]
  BY <1>3 DEF SessionTyped
<1>5. SessionTyped(Begun(s, r))
  BY <1>1, <1>2, <1>4 DEF SessionTyped
<1> QED  BY <1>1, <1>2, <1>4, <1>5

\* The active Run of s is still active in t, or has settled.
Yields(s, t) ==
    s.active \notin {NoRun, t.active} => t.runs[s.active].status = "ended"

LEMMA PromoteHeadKeeps ==
    ASSUME NEW s, NEW S, NEW R, Kept(s, S, R), Yields(s, PromoteHead(s))
    PROVE  Kept(PromoteHead(s), S, R)
<1>1. CASE ~\E r \in SessionRun : MayStart(s, r)
  BY <1>1 DEF PromoteHead
<1>2. CASE \E r \in SessionRun : MayStart(s, r)
  <2> DEFINE h == CHOOSE r \in SessionRun : MayStart(s, r)
  <2>1. h \in SessionRun /\ MayStart(s, h)
    BY <1>2
  <2>2. PromoteHead(s) = Begun(s, h)
    BY <1>2 DEF PromoteHead
  <2> HIDE DEF h
  <2>3. /\ SessionTyped(Begun(s, h)) /\ SameInputs(s, Begun(s, h))
        /\ Begun(s, h).active = h
    BY <2>1, BegunSame DEF MayStart, Kept
  <2>4. ASSUME NEW r \in SessionRun, s.runs[r].steering # <<>>
        PROVE  Begun(s, h).active = r
    <3>1. s.active = r /\ s.runs[r].status # "ended" /\ r # NoRun
      BY <2>4, RunsOfInputs DEF Kept, UnreadOfActive
    <3>2. Begun(s, h).runs[r].status # "ended"
      BY <2>3, <3>1 DEF SameInputs
    <3> QED  BY <2>2, <3>1, <3>2 DEF Yields
  <2>5. Kept(Begun(s, h), S, R)
    BY <2>3, <2>4, NothingMoved
  <2> QED  BY <2>2, <2>5
<1> QED  BY <1>1, <1>2

\* What PromoteHead leaves as it is, whoever it starts.
LEMMA PromoteHeadSame ==
    ASSUME NEW s, SessionTyped(s)
    PROVE  /\ SessionTyped(PromoteHead(s)) /\ SameInputs(s, PromoteHead(s))
           /\ PromoteHead(s).active \in {s.active} \cup SessionRun
           /\ PromoteHead(s).lane = s.lane /\ PromoteHead(s).lifecycle = s.lifecycle
<1>1. CASE ~\E r \in SessionRun : MayStart(s, r)
  <2>1. PromoteHead(s) = s
    BY <1>1 DEF PromoteHead
  <2>2. SameInputs(s, s)
    BY DEF SameInputs
  <2> QED  BY <2>1, <2>2
<1>2. CASE \E r \in SessionRun : MayStart(s, r)
  <2> DEFINE h == CHOOSE r \in SessionRun : MayStart(s, r)
  <2>1. h \in SessionRun /\ MayStart(s, h)
    BY <1>2
  <2>2. PromoteHead(s) = Begun(s, h)
    BY <1>2 DEF PromoteHead
  <2> HIDE DEF h
  <2> QED  BY <2>1, <2>2, BegunSame, BegunDoes DEF MayStart
<1> QED  BY <1>1, <1>2

\* A Run joins the lane.
InLane(s, r) == [s EXCEPT !.lane = Append(@, r), !.runs[r].status = "queued"]

LEMMA InLaneSame ==
    ASSUME NEW s, SessionTyped(s), NEW r \in SessionRun,
           s.runs[r].owned => s.runs[r].status # "none"
    PROVE  LET t == InLane(s, r)
           IN  /\ SessionTyped(t) /\ t.queue = s.queue /\ t.active = s.active
               /\ t.lane = Append(s.lane, r) /\ t.lifecycle = s.lifecycle
               /\ t.runs[r].status = "queued"
               /\ \A q \in SessionRun :
                    /\ t.runs[q].steering = s.runs[q].steering
                    /\ t.runs[q].consumed = s.runs[q].consumed
                    /\ t.runs[q].owned = s.runs[q].owned
                    /\ q # r => t.runs[q].status = s.runs[q].status
<1>1. s.runs[r] \in RunRecord /\ s.runs \in [SessionRun -> RunRecord]
  BY DEF SessionTyped
<1> DEFINE run == [s.runs[r] EXCEPT !.status = "queued"]
<1>2. /\ run \in RunRecord /\ run.status = "queued" /\ run.owned = s.runs[r].owned
      /\ run.steering = s.runs[r].steering /\ run.consumed = s.runs[r].consumed
  BY <1>1 DEF RunRecord
<1>3. InLane(s, r) = [s EXCEPT !.lane = Append(@, r), !.runs = [s.runs EXCEPT ![r] = run]]
  BY DEF InLane, SessionTyped
<1> HIDE DEF run
<1>4. InLane(s, r) = [queue |-> s.queue, lane |-> Append(s.lane, r), active |-> s.active,
                       lifecycle |-> s.lifecycle, runs |-> [s.runs EXCEPT ![r] = run]]
  BY <1>3 DEF SessionTyped
<1>5. SessionTyped(InLane(s, r))
  BY <1>1, <1>2, <1>4 DEF SessionTyped
<1> QED  BY <1>1, <1>2, <1>4, <1>5

LEMMA AdmitRunKeeps ==
    ASSUME NEW s, NEW S, NEW R, Kept(s, S, R), NEW r \in Started,
           s.runs[r].status = "none",
           NEW activate \in BOOLEAN, Yields(s, AdmitRun(s, r, activate))
    PROVE  Kept(AdmitRun(s, r, activate), S, R)
<1> DEFINE t == InLane(s, r)
<1>1. r \in SessionRun /\ r \notin Input
  BY SessionQueueAssumption DEF SessionRun
<1>2. /\ SessionTyped(t) /\ t.queue = s.queue /\ t.active = s.active
      /\ t.runs[r].status = "queued"
      /\ \A q \in SessionRun :
            /\ t.runs[q].steering = s.runs[q].steering
            /\ t.runs[q].consumed = s.runs[q].consumed
            /\ t.runs[q].owned = s.runs[q].owned
            /\ q # r => t.runs[q].status = s.runs[q].status
  BY <1>1, InLaneSame DEF Kept, OwnedHaveBegun
<1>3. AdmitRun(s, r, activate) = IF activate /\ s.lane = <<>> THEN PromoteHead(t) ELSE t
  BY DEF AdmitRun, InLane
<1> HIDE DEF t
<1>4. SameInputs(s, t)
  BY <1>1, <1>2, RunsOfInputs DEF SameInputs
<1>5. Kept(t, S, R)
  <2>1. \A q \in SessionRun : s.runs[q].steering # <<>> => t.active = q
    BY <1>2 DEF Kept, UnreadOfActive
  <2> QED  BY <1>2, <1>4, <2>1, NothingMoved
<1>6. CASE activate /\ s.lane = <<>>
  <2>1. Yields(t, PromoteHead(t))
    BY <1>2, <1>3, <1>6 DEF Yields
  <2> QED  BY <1>3, <1>5, <1>6, <2>1, PromoteHeadKeeps
<1>7. CASE ~(activate /\ s.lane = <<>>)
  BY <1>3, <1>5, <1>7
<1> QED  BY <1>6, <1>7

\* Where the unread messages are.
LEMMA UnreadIsActive ==
    ASSUME NEW s, UnreadOfActive(s)
    PROVE  /\ s.active \notin SessionRun => Unread(s) = {}
           /\ s.active \in SessionRun => Unread(s) = Elements(s.runs[s.active].steering)
<1>1. Elements(<<>>) = {}
  BY DEF Elements
<1>2. \A r \in SessionRun : r # s.active => Elements(s.runs[r].steering) = {}
  BY <1>1 DEF UnreadOfActive
<1> QED  BY <1>2 DEF Unread

LEMMA PromoteKeeps ==
    ASSUME NEW s, NEW S, NEW R, Kept(s, S, R)
    PROVE  Kept(Promote(s), S, R)
<1>1. CASE ~(s.lifecycle = "open" /\ s.queue # <<>> /\ s.active = NoRun /\ s.lane = <<>>)
  BY <1>1 DEF Promote
<1>2. CASE s.lifecycle = "open" /\ s.queue # <<>> /\ s.active = NoRun /\ s.lane = <<>>
  <2> DEFINE u == [s EXCEPT !.queue = Tail(@)]
             h == Head(s.queue)
             v == InLane(u, h)
             p == PromoteHead(v)
             t == [p EXCEPT !.active = h]
  <2>1. /\ h \in Input /\ h \in SessionRun /\ Tail(s.queue) \in Seq(Input)
        /\ Elements(s.queue) = Elements(Tail(s.queue)) \cup {h}
        /\ Distinct(Tail(s.queue)) /\ h \notin Elements(Tail(s.queue))
    <3>1. s.queue \in Seq(Input) /\ Distinct(s.queue)
      BY DEF Kept, SessionTyped, NoRepetition
    <3> QED  BY <1>2, <3>1, TailElements, RunsOfInputs
  <2>2. u = [queue |-> Tail(s.queue), lane |-> s.lane, active |-> s.active,
             lifecycle |-> s.lifecycle, runs |-> s.runs]
    <3>1. s = [queue |-> s.queue, lane |-> s.lane, active |-> s.active,
               lifecycle |-> s.lifecycle, runs |-> s.runs]
      BY DEF Kept, SessionTyped
    <3> DEFINE q == Tail(s.queue)
    <3>2. u = [s EXCEPT !.queue = q]
      OBVIOUS
    <3> HIDE DEF q, u
    <3>3. u = [queue |-> q, lane |-> s.lane, active |-> s.active,
               lifecycle |-> s.lifecycle, runs |-> s.runs]
      BY <3>1, <3>2
    <3> QED  BY <3>3 DEF q
  <2>3. /\ SessionTyped(u) /\ u.runs = s.runs /\ u.queue = Tail(s.queue)
        /\ u.active = NoRun /\ u.lane = <<>>
    <3> HIDE DEF u
    <3> QED  BY <1>2, <2>1, <2>2 DEF Kept, SessionTyped
  <2>4. Promote(s) = t
    <3>1. Promote(s) = [AdmitRun(u, h, TRUE) EXCEPT !.active = h]
      BY <1>2 DEF Promote
    <3>2. AdmitRun(u, h, TRUE) = p
      BY <2>3 DEF AdmitRun, InLane
    <3> QED  BY <3>1, <3>2
  <2> HIDE DEF u
  <2>5. /\ SessionTyped(v) /\ v.queue = Tail(s.queue) /\ v.active = NoRun
        /\ v.runs[h].status = "queued"
        /\ \A q \in SessionRun :
              /\ v.runs[q].steering = s.runs[q].steering
              /\ v.runs[q].consumed = s.runs[q].consumed
              /\ v.runs[q].owned = s.runs[q].owned
              /\ q # h => v.runs[q].status = s.runs[q].status
    <3>1. u.runs[h].owned => u.runs[h].status # "none"
      BY <2>1, <2>3 DEF Kept, OwnedHaveBegun
    <3> HIDE DEF h
    <3> QED  BY <2>1, <2>3, <3>1, InLaneSame
  <2> HIDE DEF h, v
  <2>6. /\ SessionTyped(p) /\ SameInputs(v, p)
    BY <2>5, PromoteHeadSame
  <2> HIDE DEF p
  <2>7. /\ t = [queue |-> p.queue, lane |-> p.lane, active |-> h,
                lifecycle |-> p.lifecycle, runs |-> p.runs]
    BY <2>6 DEF SessionTyped
  <2> HIDE DEF t
  <2>8. /\ SessionTyped(t) /\ t.queue = Tail(s.queue) /\ t.active = h /\ t.runs = p.runs
    BY <2>1, <2>5, <2>6, <2>7 DEF SessionTyped, SameInputs
  <2>9. \A q \in SessionRun :
          /\ t.runs[q].steering = <<>>
          /\ t.runs[q].consumed = s.runs[q].consumed
          /\ t.runs[q].owned => s.runs[q].owned \/ v.runs[q].status # "none"
          /\ t.runs[q].status = "none" => v.runs[q].status = "none"
    <3>1. \A q \in SessionRun : s.runs[q].steering = <<>>
      BY <1>2, RunsOfInputs DEF Kept, UnreadOfActive
    <3> QED  BY <2>5, <2>6, <2>8, <3>1 DEF SameInputs
  <2>10. Own(t) = Own(s) \cup {h}
    <3>1. Own(p) = Own(v)
      BY <2>6 DEF Own, SameInputs
    <3>2. Own(v) = Own(s) \cup {h}
      BY <2>1, <2>5, RunsOfInputs DEF Own
    <3>3. Own(t) = Own(p)
      BY <2>8 DEF Own
    <3> QED  BY <3>1, <3>2, <3>3
  <2>11. /\ Queued(s) = Queued(t) \cup {h} /\ h \notin Queued(t)
         /\ Read(t) = Read(s) /\ Unread(s) = {} /\ Unread(t) = {}
    <3>1. Queued(s) = Queued(t) \cup {h} /\ h \notin Queued(t)
      BY <2>1, <2>8 DEF Queued
    <3>2. Read(t) = Read(s)
      BY <2>9 DEF Read
    <3>3. Unread(s) = {}
      BY <1>2, RunsOfInputs, UnreadIsActive DEF Kept
    <3>4. Unread(t) = {}
      BY <2>9 DEF Unread, Elements
    <3> QED  BY <3>1, <3>2, <3>3, <3>4
  <2>12. Divided(t, S, R)
    <3>1. Divided(s, S, R)
      BY DEF Kept
    <3> QED  BY <2>10, <2>11, <3>1 DEF Divided, Division
  <2>13. UnreadOfActive(t)
    BY <2>9 DEF UnreadOfActive
  <2>14. NoRepetition(t)
    BY <2>1, <2>8, <2>9 DEF NoRepetition, Distinct
  <2>15. ReadOnce(t)
    BY <2>9 DEF ReadOnce, Kept
  <2>16. OwnedHaveBegun(t)
    <3> SUFFICES ASSUME NEW q \in SessionRun, t.runs[q].owned, t.runs[q].status = "none"
                 PROVE  FALSE
      BY DEF OwnedHaveBegun
    <3>1. v.runs[q].status = "none" /\ q # h
      BY <2>5, <2>9
    <3>2. s.runs[q].owned /\ s.runs[q].status = "none"
      BY <2>5, <2>9, <3>1
    <3> QED  BY <3>2 DEF Kept, OwnedHaveBegun
  <2> QED  BY <2>4, <2>8, <2>12, <2>13, <2>14, <2>15, <2>16 DEF Kept
<1> QED  BY <1>1, <1>2

LEMMA PromoteWaits ==
    ASSUME NEW s, s.active # NoRun
    PROVE  Promote(s) = s
BY DEF Promote

-----------------------------------------------------------------------------
\* A Run that settles gives back what it was sent and did not read.
Freed(s, r) ==
    LET left == [s EXCEPT !.lane = Without(@, {r}), !.runs[r] = Ended(@)]
    IN IF s.active = r
       THEN [left EXCEPT !.active = NoRun, !.queue = s.runs[r].steering \o @]
       ELSE left

LEMMA EndedTyped ==
    ASSUME NEW run \in RunRecord
    PROVE  /\ Ended(run) \in RunRecord /\ Ended(run).status = "ended"
           /\ Ended(run).steering = <<>> /\ ~Ended(run).owned
           /\ Ended(run).consumed = run.consumed
<1> DEFINE e == [run EXCEPT !.status = "ended", !.owned = FALSE, !.steering = <<>>]
<1>1. <<>> \in Seq(Input)
  OBVIOUS
<1>2. /\ e.status = "ended" /\ e.owned = FALSE /\ e.steering = <<>>
      /\ e.consumed = run.consumed
  BY DEF RunRecord
<1>3. e \in RunRecord
  BY <1>1 DEF RunRecord
<1> HIDE DEF e
<1> QED  BY <1>2, <1>3 DEF Ended, e

LEMMA FreedFields ==
    ASSUME NEW s, SessionTyped(s), NEW r \in SessionRun
    PROVE  LET t == Freed(s, r)
           IN  /\ SessionTyped(t)
               /\ t.active = IF s.active = r THEN NoRun ELSE s.active
               /\ t.queue = IF s.active = r THEN s.runs[r].steering \o s.queue ELSE s.queue
               /\ t.lane = Without(s.lane, {r}) /\ t.lifecycle = s.lifecycle
               /\ t.runs = [s.runs EXCEPT ![r] = Ended(s.runs[r])]
<1>1. s.runs \in [SessionRun -> RunRecord] /\ s.runs[r] \in RunRecord
  BY DEF SessionTyped
<1> DEFINE run == Ended(s.runs[r])
           left == [s EXCEPT !.lane = Without(@, {r}), !.runs[r] = Ended(@)]
           lane == Without(s.lane, {r})
<1>2. run \in RunRecord
  BY <1>1, EndedTyped
<1>3. left = [s EXCEPT !.lane = lane, !.runs = [s.runs EXCEPT ![r] = run]]
  BY DEF SessionTyped
<1>4. Freed(s, r) = IF s.active = r
                    THEN [left EXCEPT !.active = NoRun, !.queue = s.runs[r].steering \o @]
                    ELSE left
  BY DEF Freed
<1> HIDE DEF run, left, lane
<1>5. left = [queue |-> s.queue, lane |-> lane, active |-> s.active,
              lifecycle |-> s.lifecycle, runs |-> [s.runs EXCEPT ![r] = run]]
  BY <1>3 DEF SessionTyped
<1>6. [s.runs EXCEPT ![r] = run] \in [SessionRun -> RunRecord]
  BY <1>1, <1>2
<1>7. CASE s.active # r
  BY <1>4, <1>5, <1>6, <1>7 DEF SessionTyped, run, lane
<1>8. CASE s.active = r
  <2>1. Freed(s, r) = [queue |-> s.runs[r].steering \o s.queue, lane |-> lane,
                       active |-> NoRun, lifecycle |-> s.lifecycle,
                       runs |-> [s.runs EXCEPT ![r] = run]]
    BY <1>4, <1>5, <1>8
  <2>2. s.runs[r].steering \o s.queue \in Seq(Input)
    <3>1. s.runs[r].steering \in Seq(Input) /\ s.queue \in Seq(Input)
      BY <1>1 DEF SessionTyped, RunRecord
    <3> QED  BY <3>1
  <2> QED  BY <1>6, <1>8, <2>1, <2>2 DEF SessionTyped, run, lane
<1> QED  BY <1>7, <1>8

LEMMA FreedKeeps ==
    ASSUME NEW s, NEW S, NEW R, Kept(s, S, R), NEW r \in SessionRun,
           s.runs[r].status # "none"
    PROVE  Kept(Freed(s, r), S, R)
<1> DEFINE t == Freed(s, r)
<1>1. s.runs \in [SessionRun -> RunRecord] /\ s.runs[r] \in RunRecord
  BY DEF Kept, SessionTyped
<1>2. /\ SessionTyped(t)
      /\ t.active = IF s.active = r THEN NoRun ELSE s.active
      /\ t.queue = IF s.active = r THEN s.runs[r].steering \o s.queue ELSE s.queue
      /\ t.runs = [s.runs EXCEPT ![r] = Ended(s.runs[r])]
  BY FreedFields DEF Kept
<1> SUFFICES Kept(t, S, R)
  OBVIOUS
<1> HIDE DEF t
<1>3. /\ t.runs[r].status = "ended" /\ t.runs[r].steering = <<>> /\ ~t.runs[r].owned
      /\ t.runs[r].consumed = s.runs[r].consumed
      /\ \A q \in SessionRun : q # r => t.runs[q] = s.runs[q]
  BY <1>1, <1>2, EndedTyped
<1>4. UnreadOfActive(t)
  BY <1>2, <1>3 DEF Kept, UnreadOfActive
<1>5. ReadOnce(t) /\ Read(t) = Read(s)
  <2>1. \A q \in SessionRun : t.runs[q].consumed = s.runs[q].consumed
    BY <1>3
  <2> QED  BY <2>1 DEF Kept, ReadOnce, Read
<1>6. OwnedHaveBegun(t)
  BY <1>3 DEF Kept, OwnedHaveBegun
<1>7. Own(t) = Own(s)
  <2>1. \A i \in Input : t.runs[i].status = "none" <=> s.runs[i].status = "none"
    BY <1>3, RunsOfInputs
  <2> QED  BY <2>1 DEF Own
<1>8. Distinct(<<>>)
  BY DEF Distinct
<1>9. CASE s.active # r
  <2>1. t.queue = s.queue /\ t.active = s.active
    BY <1>2, <1>9
  <2>2. s.runs[r].steering = <<>>
    BY <1>9 DEF Kept, UnreadOfActive
  <2>3. \A q \in SessionRun : t.runs[q].steering = s.runs[q].steering
    BY <1>3, <2>2
  <2>4. Queued(t) = Queued(s) /\ Unread(t) = Unread(s)
    BY <2>1, <2>3 DEF Queued, Unread
  <2>5. NoRepetition(t)
    BY <2>1, <2>3 DEF Kept, NoRepetition
  <2>6. Divided(t, S, R)
    BY <1>5, <1>7, <2>4 DEF Kept, Divided
  <2> QED  BY <1>2, <1>4, <1>5, <1>6, <2>5, <2>6 DEF Kept
<1>10. CASE s.active = r
  <2>1. t.queue = s.runs[r].steering \o s.queue
    BY <1>2, <1>10
  <2>2. \A q \in SessionRun : t.runs[q].steering = <<>>
    BY <1>3, <1>10 DEF Kept, UnreadOfActive
  <2>3. Unread(t) = {}
    BY <2>2 DEF Unread, Elements
  <2>4. Unread(s) = Elements(s.runs[r].steering)
    BY <1>10, UnreadIsActive DEF Kept
  <2>5. Unread(s) \cap Queued(s) = {}
    BY DEF Kept, Divided, Division
  <2>6. /\ Elements(t.queue) = Unread(s) \cup Queued(s)
        /\ Distinct(t.queue)
    <3>1. s.runs[r].steering \in Seq(Input) /\ s.queue \in Seq(Input)
      BY <1>1 DEF Kept, SessionTyped, RunRecord
    <3>2. Distinct(s.runs[r].steering) /\ Distinct(s.queue)
      BY DEF Kept, NoRepetition
    <3> QED  BY <2>1, <2>4, <2>5, <3>1, <3>2, ConcatElements DEF Queued
  <2>7. Queued(t) = Unread(s) \cup Queued(s)
    BY <2>6 DEF Queued
  <2>8. NoRepetition(t)
    BY <1>8, <2>2, <2>6 DEF NoRepetition
  <2>9. Divided(t, S, R)
    <3>1. Divided(s, S, R)
      BY DEF Kept
    <3> QED  BY <1>5, <1>7, <2>3, <2>7, <3>1 DEF Divided, Division
  <2> QED  BY <1>2, <1>4, <1>5, <1>6, <2>8, <2>9 DEF Kept
<1> QED  BY <1>9, <1>10

LEMMA SettledKeeps ==
    ASSUME NEW s, NEW S, NEW R, Kept(s, S, R), NEW r \in SessionRun,
           s.runs[r].status # "none", Yields(s, Settled(s, r))
    PROVE  Kept(Settled(s, r), S, R)
<1> DEFINE f == Freed(s, r)
           p == PromoteHead(f)
<1>1. Settled(s, r) = Promote(p)
  BY DEF Settled, Freed
<1>2. Kept(f, S, R)
  BY FreedKeeps
<1>3. f.active = IF s.active = r THEN NoRun ELSE s.active
  BY FreedFields DEF Kept
<1> HIDE DEF f
<1>4. p.active \in {f.active} \cup SessionRun
  BY <1>2, PromoteHeadSame DEF Kept
<1> HIDE DEF p
<1>5. Yields(f, p)
  <2> SUFFICES ASSUME f.active # NoRun, f.active # p.active
               PROVE  p.runs[f.active].status = "ended"
    BY DEF Yields
  <2>1. f.active = s.active /\ p.active # NoRun
    BY <1>3, <1>4, RunsOfInputs
  <2>2. Settled(s, r) = p
    BY <1>1, <2>1, PromoteWaits
  <2> QED  BY <2>1, <2>2 DEF Yields
<1>6. Kept(p, S, R)
  BY <1>2, <1>5, PromoteHeadKeeps DEF p
<1> QED  BY <1>1, <1>6, PromoteKeeps

-----------------------------------------------------------------------------
\* The record of one Run changes.
LEMMA RunChanged ==
    ASSUME NEW s, SessionTyped(s), NEW r \in SessionRun, NEW run \in RunRecord
    PROVE  LET t == [s EXCEPT !.runs = [s.runs EXCEPT ![r] = run]]
           IN  /\ SessionTyped(t) /\ t.queue = s.queue /\ t.active = s.active
               /\ t.lane = s.lane /\ t.lifecycle = s.lifecycle
               /\ t.runs = [s.runs EXCEPT ![r] = run]
               /\ t.runs[r] = run
               /\ \A q \in SessionRun : q # r => t.runs[q] = s.runs[q]
<1> DEFINE runs == [s.runs EXCEPT ![r] = run]
           t == [s EXCEPT !.runs = runs]
<1>1. s.runs \in [SessionRun -> RunRecord]
  BY DEF SessionTyped
<1>2. /\ runs \in [SessionRun -> RunRecord] /\ runs[r] = run
      /\ \A q \in SessionRun : q # r => runs[q] = s.runs[q]
  BY <1>1
<1> HIDE DEF runs
<1>3. t = [queue |-> s.queue, lane |-> s.lane, active |-> s.active,
           lifecycle |-> s.lifecycle, runs |-> runs]
  BY DEF SessionTyped
<1> HIDE DEF t
<1>4. /\ SessionTyped(t) /\ t.queue = s.queue /\ t.active = s.active /\ t.runs = runs
      /\ t.lane = s.lane /\ t.lifecycle = s.lifecycle
  BY <1>2, <1>3 DEF SessionTyped
<1>5. t.runs[r] = run /\ \A q \in SessionRun : q # r => t.runs[q] = s.runs[q]
  BY <1>2, <1>4
<1> QED  BY <1>4, <1>5 DEF t, runs

\* A change of one Run that moves no input.
LEMMA RunKeeps ==
    ASSUME NEW s, NEW S, NEW R, Kept(s, S, R), NEW r \in SessionRun,
           NEW run \in RunRecord,
           run.steering = s.runs[r].steering, run.consumed = s.runs[r].consumed,
           run.status = "ended" => s.runs[r].status = "ended",
           run.owned => s.runs[r].owned \/ s.runs[r].status # "none",
           run.status = "none" <=> s.runs[r].status = "none"
    PROVE  Kept([s EXCEPT !.runs = [s.runs EXCEPT ![r] = run]], S, R)
<1> DEFINE t == [s EXCEPT !.runs = [s.runs EXCEPT ![r] = run]]
<1>1. /\ SessionTyped(t) /\ t.queue = s.queue /\ t.active = s.active
      /\ t.runs[r] = run /\ \A q \in SessionRun : q # r => t.runs[q] = s.runs[q]
  BY RunChanged DEF Kept
<1> SUFFICES Kept(t, S, R)
  OBVIOUS
<1> HIDE DEF t
<1>2. SameInputs(s, t)
  BY <1>1, RunsOfInputs DEF SameInputs
<1>3. \A q \in SessionRun : s.runs[q].steering # <<>> => t.active = q
  BY <1>1 DEF Kept, UnreadOfActive
<1> QED  BY <1>1, <1>2, <1>3, NothingMoved

LEMMA NewInput ==
    ASSUME NEW s, NEW S, NEW R, Kept(s, S, R), NEW i, i \notin S
    PROVE  i \notin Queued(s) /\ i \notin Unread(s)
BY DEF Kept, Divided, Division

LEMMA EnqueueKeeps ==
    ASSUME NEW s, NEW S, NEW R, Kept(s, S, R), NEW i \in Input, i \notin S
    PROVE  Kept([s EXCEPT !.queue = Append(@, i)], S \cup {i}, R)
<1> DEFINE q == Append(s.queue, i)
           t == [s EXCEPT !.queue = q]
<1>1. /\ q \in Seq(Input) /\ Elements(q) = Queued(s) \cup {i} /\ Distinct(q)
  <2>1. s.queue \in Seq(Input) /\ Distinct(s.queue) /\ i \notin Elements(s.queue)
    BY NewInput DEF Kept, SessionTyped, NoRepetition, Queued
  <2> QED  BY <2>1, AppendElements DEF Queued
<1> SUFFICES Kept(t, S \cup {i}, R)
  OBVIOUS
<1> HIDE DEF q
<1>2. t = [queue |-> q, lane |-> s.lane, active |-> s.active,
           lifecycle |-> s.lifecycle, runs |-> s.runs]
  BY DEF Kept, SessionTyped
<1> HIDE DEF t
<1>3. SessionTyped(t) /\ t.queue = q /\ t.active = s.active /\ t.runs = s.runs
  BY <1>1, <1>2 DEF Kept, SessionTyped
<1>4. /\ Queued(t) = Queued(s) \cup {i} /\ Unread(t) = Unread(s)
      /\ Read(t) = Read(s) /\ Own(t) = Own(s)
  BY <1>1, <1>3 DEF Queued, Unread, Read, Own
<1>5. Divided(t, S \cup {i}, R)
  <2>1. Divided(s, S, R)
    BY DEF Kept
  <2> QED  BY <1>4, <2>1 DEF Divided, Division
<1>6. /\ UnreadOfActive(t) /\ ReadOnce(t) /\ OwnedHaveBegun(t)
  BY <1>3 DEF Kept, UnreadOfActive, ReadOnce, OwnedHaveBegun
<1>7. NoRepetition(t)
  BY <1>1, <1>3 DEF Kept, NoRepetition
<1> QED  BY <1>3, <1>5, <1>6, <1>7 DEF Kept

\* A message for the active Run.
LEMMA SteerKeeps ==
    ASSUME NEW s, NEW S, NEW R, Kept(s, S, R), NEW i \in Input, i \notin S,
           s.active \in SessionRun, s.runs[s.active].status # "ended"
    PROVE  Kept([s EXCEPT !.runs[s.active].steering = Append(@, i)], S \cup {i}, R)
<1> DEFINE a == s.active
           run == [s.runs[a] EXCEPT !.steering = Append(@, i)]
           t == [s EXCEPT !.runs = [s.runs EXCEPT ![a] = run]]
<1>1. s.runs \in [SessionRun -> RunRecord] /\ s.runs[a] \in RunRecord
  BY DEF Kept, SessionTyped
<1>2. /\ s.runs[a].steering \in Seq(Input) /\ Distinct(s.runs[a].steering)
      /\ i \notin Elements(s.runs[a].steering)
  <2>1. s.runs[a].steering \in Seq(Input)
    BY <1>1 DEF RunRecord
  <2>2. Distinct(s.runs[a].steering)
    BY DEF Kept, NoRepetition
  <2>3. i \notin Unread(s)
    BY NewInput
  <2>4. Unread(s) = Elements(s.runs[a].steering)
    BY UnreadIsActive DEF Kept
  <2> QED  BY <2>1, <2>2, <2>3, <2>4
<1> DEFINE q == Append(s.runs[a].steering, i)
<1>3. q \in Seq(Input) /\ Elements(q) = Unread(s) \cup {i} /\ Distinct(q)
  <2>1. Unread(s) = Elements(s.runs[a].steering)
    BY UnreadIsActive DEF Kept
  <2> QED  BY <1>2, <2>1, AppendElements
<1>4. /\ run \in RunRecord /\ run.steering = q /\ run.status = s.runs[a].status
      /\ run.owned = s.runs[a].owned /\ run.consumed = s.runs[a].consumed
  BY <1>1, <1>3 DEF RunRecord
<1>5. [s EXCEPT !.runs[s.active].steering = Append(@, i)] = t
  BY <1>1 DEF Kept, SessionTyped
<1> SUFFICES Kept(t, S \cup {i}, R)
  BY <1>5
<1> HIDE DEF run, q
<1>6. /\ SessionTyped(t) /\ t.queue = s.queue /\ t.active = s.active
      /\ t.runs[a] = run /\ \A r \in SessionRun : r # a => t.runs[r] = s.runs[r]
  BY <1>4, RunChanged DEF Kept
<1> HIDE DEF t, a
<1>7. a = s.active /\ a \in SessionRun
  BY DEF a
<1>8. \A r \in SessionRun : r # a => s.runs[r].steering = <<>>
  BY <1>7 DEF Kept, UnreadOfActive
<1>9. UnreadOfActive(t)
  BY <1>4, <1>6, <1>7, <1>8 DEF UnreadOfActive, a
<1>10. Unread(t) = Unread(s) \cup {i}
  BY <1>3, <1>4, <1>6, <1>7, <1>9, UnreadIsActive
<1>11. /\ Queued(t) = Queued(s) /\ Read(t) = Read(s) /\ Own(t) = Own(s)
  <2>1. \A r \in SessionRun : /\ t.runs[r].consumed = s.runs[r].consumed
                              /\ t.runs[r].status = s.runs[r].status
    BY <1>4, <1>6
  <2> QED  BY <1>6, <2>1, RunsOfInputs DEF Queued, Read, Own
<1>12. Divided(t, S \cup {i}, R)
  <2>1. Divided(s, S, R) /\ i \notin S
    BY DEF Kept
  <2> QED  BY <1>10, <1>11, <2>1 DEF Divided, Division
<1>13. ReadOnce(t) /\ OwnedHaveBegun(t)
  <2>1. \A r \in SessionRun : /\ t.runs[r].consumed = s.runs[r].consumed
                              /\ t.runs[r].status = s.runs[r].status
                              /\ t.runs[r].owned = s.runs[r].owned
    BY <1>4, <1>6
  <2> QED  BY <2>1 DEF Kept, ReadOnce, OwnedHaveBegun
<1>14. NoRepetition(t)
  BY <1>3, <1>4, <1>6 DEF Kept, NoRepetition
<1> QED  BY <1>6, <1>9, <1>12, <1>13, <1>14 DEF Kept

\* The next turn takes what the active Run has not read.
LEMMA ConsumeKeeps ==
    ASSUME NEW s, NEW S, NEW R, Kept(s, S, R), NEW r \in SessionRun,
           s.runs[r].steering # <<>>,
           NEW run \in RunRecord, run.steering = <<>>,
           run.consumed = s.runs[r].consumed \cup Elements(s.runs[r].steering),
           run.status = s.runs[r].status, run.owned = s.runs[r].owned
    PROVE  Kept([s EXCEPT !.runs = [s.runs EXCEPT ![r] = run]], S, R)
<1> DEFINE t == [s EXCEPT !.runs = [s.runs EXCEPT ![r] = run]]
<1>1. /\ SessionTyped(t) /\ t.queue = s.queue /\ t.active = s.active
      /\ t.runs[r] = run /\ \A q \in SessionRun : q # r => t.runs[q] = s.runs[q]
  BY RunChanged DEF Kept
<1> SUFFICES Kept(t, S, R)
  OBVIOUS
<1> HIDE DEF t
<1>2. s.active = r /\ \A q \in SessionRun : q # r => s.runs[q].steering = <<>>
  BY DEF Kept, UnreadOfActive
<1>3. \A q \in SessionRun : t.runs[q].steering = <<>>
  BY <1>1, <1>2
<1>4. Unread(t) = {}
  BY <1>3 DEF Unread, Elements
<1>5. Unread(s) = Elements(s.runs[r].steering)
  BY <1>2, UnreadIsActive DEF Kept
<1>6. Read(t) = Read(s) \cup Unread(s)
  <2>1. Read(t) \subseteq Read(s) \cup Unread(s)
    BY <1>1, <1>5 DEF Read
  <2>2. Read(s) \subseteq Read(t)
    <3>1. \A q \in SessionRun : s.runs[q].consumed \subseteq t.runs[q].consumed
      BY <1>1
    <3> QED  BY <3>1 DEF Read
  <2>3. Unread(s) \subseteq Read(t)
    <3>1. Unread(s) \subseteq t.runs[r].consumed
      BY <1>1, <1>5
    <3> QED  BY <3>1 DEF Read
  <2> QED  BY <2>1, <2>2, <2>3
<1>7. Queued(t) = Queued(s) /\ Own(t) = Own(s)
  <2>1. \A q \in SessionRun : t.runs[q].status = s.runs[q].status
    BY <1>1
  <2> QED  BY <1>1, <2>1, RunsOfInputs DEF Queued, Own
<1>8. Divided(t, S, R)
  <2>1. Divided(s, S, R)
    BY DEF Kept
  <2> QED  BY <1>4, <1>6, <1>7, <2>1 DEF Divided, Division
<1>9. UnreadOfActive(t)
  BY <1>3 DEF UnreadOfActive
<1>10. NoRepetition(t)
  BY <1>1, <1>3 DEF Kept, NoRepetition, Distinct
<1>11. OwnedHaveBegun(t)
  <2>1. \A q \in SessionRun : /\ t.runs[q].status = s.runs[q].status
                              /\ t.runs[q].owned = s.runs[q].owned
    BY <1>1
  <2> QED  BY <2>1 DEF Kept, OwnedHaveBegun
<1>12. ReadOnce(t)
  <2>1. Unread(s) \cap Read(s) = {}
    BY DEF Kept, Divided, Division
  <2>2. \A q \in SessionRun : s.runs[q].consumed \subseteq Read(s)
    BY DEF Read
  <2>3. \A p, q \in SessionRun : s.runs[p].consumed \cap s.runs[q].consumed # {} => p = q
    BY DEF Kept, ReadOnce
  <2>4. t.runs[r].consumed = s.runs[r].consumed \cup Unread(s)
    BY <1>1, <1>5
  <2>5. \A q \in SessionRun : q # r => t.runs[q].consumed = s.runs[q].consumed
    BY <1>1
  <2>6. \A q \in SessionRun : q # r => t.runs[r].consumed \cap t.runs[q].consumed = {}
    BY <2>1, <2>2, <2>3, <2>4, <2>5
  <2> SUFFICES ASSUME NEW p \in SessionRun, NEW q \in SessionRun, p # q
               PROVE  t.runs[p].consumed \cap t.runs[q].consumed = {}
    BY DEF ReadOnce
  <2>7. CASE p = r
    BY <2>6, <2>7
  <2>8. CASE q = r
    BY <2>6, <2>8
  <2>9. CASE p # r /\ q # r
    BY <2>3, <2>5, <2>9
  <2> QED  BY <2>7, <2>8, <2>9
<1> QED  BY <1>1, <1>8, <1>9, <1>10, <1>11, <1>12 DEF Kept

LEMMA RemoveKeeps ==
    ASSUME NEW s, NEW S, NEW R, Kept(s, S, R), NEW k \in DOMAIN s.queue
    PROVE  Kept([s EXCEPT !.queue = SubSeq(@, 1, k - 1) \o SubSeq(@, k + 1, Len(@))],
                S, R \cup {s.queue[k]})
<1> DEFINE q == SubSeq(s.queue, 1, k - 1) \o SubSeq(s.queue, k + 1, Len(s.queue))
           i == s.queue[k]
           t == [s EXCEPT !.queue = q]
<1>1. /\ q \in Seq(Input) /\ Elements(s.queue) = Elements(q) \cup {i}
      /\ Distinct(q) /\ i \notin Elements(q)
  <2>1. s.queue \in Seq(Input) /\ Distinct(s.queue)
    BY DEF Kept, SessionTyped, NoRepetition
  <2> QED  BY <2>1, RemovedElements
<1> SUFFICES Kept(t, S, R \cup {i})
  OBVIOUS
<1> HIDE DEF q, i
<1>2. t = [queue |-> q, lane |-> s.lane, active |-> s.active,
           lifecycle |-> s.lifecycle, runs |-> s.runs]
  BY DEF Kept, SessionTyped
<1> HIDE DEF t
<1>3. SessionTyped(t) /\ t.queue = q /\ t.active = s.active /\ t.runs = s.runs
  BY <1>1, <1>2 DEF Kept, SessionTyped
<1>4. /\ Queued(s) = Queued(t) \cup {i} /\ i \notin Queued(t)
      /\ Unread(t) = Unread(s) /\ Read(t) = Read(s) /\ Own(t) = Own(s)
  BY <1>1, <1>3 DEF Queued, Unread, Read, Own
<1>5. Divided(t, S, R \cup {i})
  <2>1. Divided(s, S, R)
    BY DEF Kept
  <2> QED  BY <1>4, <2>1 DEF Divided, Division
<1>6. UnreadOfActive(t) /\ ReadOnce(t) /\ OwnedHaveBegun(t)
  BY <1>3 DEF Kept, UnreadOfActive, ReadOnce, OwnedHaveBegun
<1>7. NoRepetition(t)
  BY <1>1, <1>3 DEF Kept, NoRepetition
<1> QED  BY <1>3, <1>5, <1>6, <1>7 DEF Kept

\* Another lifecycle moves no input.
LEMMA LifecycleKeeps ==
    ASSUME NEW s, NEW S, NEW R, Kept(s, S, R), NEW lifecycle
    PROVE  Kept([s EXCEPT !.lifecycle = lifecycle], S, R)
<1> DEFINE t == [s EXCEPT !.lifecycle = lifecycle]
<1>1. t = [queue |-> s.queue, lane |-> s.lane, active |-> s.active,
           lifecycle |-> lifecycle, runs |-> s.runs]
  BY DEF Kept, SessionTyped
<1> SUFFICES Kept(t, S, R)
  OBVIOUS
<1> HIDE DEF t
<1>2. SessionTyped(t) /\ SameInputs(s, t) /\ t.active = s.active
  BY <1>1 DEF Kept, SessionTyped, SameInputs
<1>3. \A q \in SessionRun : s.runs[q].steering # <<>> => t.active = q
  BY <1>2 DEF Kept, UnreadOfActive
<1> QED  BY <1>2, <1>3, NothingMoved

-----------------------------------------------------------------------------
(* The commands.                                                           *)

LEMMA SubmitKeeps ==
    ASSUME SessionQueueInv, NEW i \in Input, Submit(i)
    PROVE  SessionQueueInv'
<1> DEFINE u == [session EXCEPT !.queue = Append(@, i)]
<1>1. /\ i \notin accepted /\ accepted' = accepted \cup {i} /\ session' = Promote(u)
      /\ removed' = removed
  BY DEF Submit
<1>2. Kept(u, accepted \cup {i}, removed)
  BY <1>1, EnqueueKeeps DEF SessionQueueInv
<1> HIDE DEF u
<1>3. Kept(Promote(u), accepted \cup {i}, removed)
  BY <1>2, PromoteKeeps
<1>4. Kept(session', accepted', removed')
  BY <1>1, <1>3
<1> QED  BY <1>1, <1>4 DEF SessionQueueInv

LEMMA MessageKeeps ==
    ASSUME SessionQueueInv, NEW i \in Input, Message(i)
    PROVE  SessionQueueInv'
<1> DEFINE u == [session EXCEPT !.queue = Append(@, i)]
           a == session.active
           t == [session EXCEPT !.runs[a].steering = Append(@, i)]
           steerable == /\ session.lifecycle = "open" /\ a # NoRun
                        /\ session.runs[a].status \in {"queued", "running"}
                        /\ ~session.runs[a].cancelled
<1>1. /\ i \notin accepted /\ accepted' = accepted \cup {i} /\ removed' = removed
      /\ session' = IF steerable THEN t ELSE Promote(u)
  BY DEF Message
<1>2. Kept(session, accepted, removed) /\ accepted \subseteq Input
  BY DEF SessionQueueInv
<1>3. CASE steerable
  <2>1. session.active \in SessionRun /\ session.runs[session.active].status # "ended"
    BY <1>2, <1>3 DEF Kept, SessionTyped
  <2>2. Kept(t, accepted \cup {i}, removed)
    BY <1>1, <1>2, <2>1, SteerKeeps
  <2> HIDE DEF t
  <2>3. Kept(session', accepted', removed')
    BY <1>1, <1>3, <2>2
  <2> QED  BY <1>1, <1>2, <2>3 DEF SessionQueueInv
<1>4. CASE ~steerable
  <2>1. Kept(u, accepted \cup {i}, removed)
    BY <1>1, <1>2, EnqueueKeeps
  <2> HIDE DEF u
  <2>2. Kept(Promote(u), accepted \cup {i}, removed)
    BY <2>1, PromoteKeeps
  <2> HIDE DEF t
  <2>3. Kept(session', accepted', removed')
    BY <1>1, <1>4, <2>2
  <2> QED  BY <1>1, <1>2, <2>3 DEF SessionQueueInv
<1> QED  BY <1>3, <1>4

LEMMA RemoveInputKeeps ==
    ASSUME SessionQueueInv, NEW i \in Input, Remove(i)
    PROVE  SessionQueueInv'
<1>1. PICK k \in Positions(session.queue, i) :
        session' = [session EXCEPT !.queue = SubSeq(@, 1, k - 1) \o SubSeq(@, k + 1, Len(@))]
  BY DEF Remove
<1>2. /\ k \in DOMAIN session.queue /\ session.queue[k] = i
      /\ removed' = removed \cup {i} /\ accepted' = accepted
  BY <1>1 DEF Positions, Remove
<1>3. Kept(session', accepted, removed \cup {session.queue[k]})
  BY <1>1, <1>2, RemoveKeeps DEF SessionQueueInv
<1>4. Kept(session', accepted', removed')
  BY <1>2, <1>3
<1> QED  BY <1>2, <1>4 DEF SessionQueueInv

LEMMA StartKeeps ==
    ASSUME SessionQueueInv, NEW r \in SessionRun, Start(r), ActiveRunStays
    PROVE  SessionQueueInv'
<1>1. /\ r \in Started /\ session.runs[r].status = "none"
      /\ session' = AdmitRun(session, r, r \notin Prepared)
      /\ accepted' = accepted /\ removed' = removed
  BY DEF Start
<1>2. Yields(session, AdmitRun(session, r, r \notin Prepared))
  BY <1>1 DEF ActiveRunStays, Yields
<1>3. Kept(AdmitRun(session, r, r \notin Prepared), accepted, removed)
  BY <1>1, <1>2, AdmitRunKeeps DEF SessionQueueInv
<1>4. Kept(session', accepted', removed')
  BY <1>1, <1>3
<1> QED  BY <1>1, <1>4 DEF SessionQueueInv

LEMMA ActivateKeeps ==
    ASSUME SessionQueueInv, NEW r \in SessionRun, Activate(r)
    PROVE  SessionQueueInv'
<1>1. /\ session.runs[r].status = "queued" /\ session.active \in {NoRun, r}
      /\ session' = Begun(session, r) /\ accepted' = accepted /\ removed' = removed
  BY DEF Activate, Begun
<1>2. Kept(session, accepted, removed)
  BY DEF SessionQueueInv
<1>3. /\ SessionTyped(Begun(session, r)) /\ SameInputs(session, Begun(session, r))
      /\ Begun(session, r).active = r
  BY <1>1, <1>2, BegunSame DEF Kept
<1>4. \A q \in SessionRun : session.runs[q].steering # <<>> => Begun(session, r).active = q
  BY <1>1, <1>2, <1>3, RunsOfInputs DEF Kept, UnreadOfActive
<1>5. Kept(Begun(session, r), accepted, removed)
  BY <1>2, <1>3, <1>4, NothingMoved
<1>6. Kept(session', accepted', removed')
  BY <1>1, <1>5
<1> QED  BY <1>1, <1>6 DEF SessionQueueInv

LEMMA CancelRunKeeps ==
    ASSUME SessionQueueInv, NEW r \in SessionRun, CancelRun(r), ActiveRunStays
    PROVE  SessionQueueInv'
<1> DEFINE run == [session.runs[r] EXCEPT !.cancelled = TRUE]
           t == [session EXCEPT !.runs = [session.runs EXCEPT ![r] = run]]
<1>1. /\ Live(session, r) /\ accepted' = accepted /\ removed' = removed
      /\ session' = Cancelled(session, r)
  BY DEF CancelRun
<1>2. Kept(session, accepted, removed)
  BY DEF SessionQueueInv
<1>3. session.runs \in [SessionRun -> RunRecord] /\ session.runs[r] \in RunRecord
  BY <1>2 DEF Kept, SessionTyped
<1>4. /\ run \in RunRecord /\ run.steering = session.runs[r].steering
      /\ run.consumed = session.runs[r].consumed /\ run.status = session.runs[r].status
      /\ run.owned = session.runs[r].owned
  BY <1>3 DEF RunRecord
<1>5. [session EXCEPT !.runs[r].cancelled = TRUE] = t
  BY <1>2, <1>3 DEF Kept, SessionTyped
<1>6. session' = IF Busy(session, r) THEN t ELSE Settled(t, r)
  BY <1>1, <1>5 DEF Cancelled
<1> HIDE DEF run
<1>7. Kept(t, accepted, removed)
  BY <1>2, <1>4, RunKeeps
<1>8. t.active = session.active /\ t.runs[r].status # "none"
  <2>1. t.active = session.active /\ t.runs[r] = run
    <3>1. SessionTyped(session) /\ run \in RunRecord
      BY <1>2, <1>4 DEF Kept
    <3>2. /\ SessionTyped(t) /\ t.queue = session.queue /\ t.active = session.active
          /\ t.runs = [session.runs EXCEPT ![r] = run]
          /\ t.runs[r] = run
          /\ \A q \in SessionRun : q # r => t.runs[q] = session.runs[q]
      BY <3>1, RunChanged
    <3> HIDE DEF t
    <3> QED  BY <3>2
  <2> HIDE DEF t
  <2> QED  BY <1>1, <1>4, <2>1 DEF Live
<1> HIDE DEF t
<1>9. CASE Busy(session, r)
  <2>1. Kept(session', accepted', removed')
    BY <1>1, <1>6, <1>7, <1>9
  <2> QED  BY <1>1, <2>1 DEF SessionQueueInv
<1>10. CASE ~Busy(session, r)
  <2>1. session' = Settled(t, r)
    BY <1>6, <1>10
  <2>2. Yields(t, Settled(t, r))
    BY <1>8, <2>1 DEF ActiveRunStays, Yields
  <2>3. Kept(Settled(t, r), accepted, removed)
    BY <1>7, <1>8, <2>2, SettledKeeps
  <2>4. Kept(session', accepted', removed')
    BY <1>1, <2>1, <2>3
  <2> QED  BY <1>1, <2>4 DEF SessionQueueInv
<1> QED  BY <1>9, <1>10

LEMMA ResumeKeeps ==
    ASSUME SessionQueueInv, Resume
    PROVE  SessionQueueInv'
<1> DEFINE u == [session EXCEPT !.lifecycle = "open"]
<1>1. session' = Promote(u) /\ accepted' = accepted /\ removed' = removed
  BY DEF Resume
<1>2. Kept(u, accepted, removed)
  BY LifecycleKeeps DEF SessionQueueInv
<1> HIDE DEF u
<1>3. Kept(Promote(u), accepted, removed)
  BY <1>2, PromoteKeeps
<1>4. Kept(session', accepted', removed')
  BY <1>1, <1>3
<1> QED  BY <1>1, <1>4 DEF SessionQueueInv

LEMMA HaltKeeps ==
    ASSUME SessionQueueInv, NEW lifecycle \in {"stopped", "closed"}, Halt(lifecycle)
    PROVE  SessionQueueInv'
<1> DEFINE s == session
           gone == {r \in SessionRun : Live(s, r) /\ ~Busy(s, r)}
           runs == [r \in SessionRun |->
                        IF r \in gone THEN [Ended(s.runs[r]) EXCEPT !.cancelled = TRUE]
                        ELSE [s.runs[r] EXCEPT !.cancelled = @ \/ Live(s, r)]]
           queue == IF s.active \in gone THEN s.runs[s.active].steering \o s.queue ELSE s.queue
           active == IF s.active \in gone THEN NoRun ELSE s.active
           lane == Without(s.lane, gone)
           t == session'
<1>1. Kept(s, accepted, removed) /\ accepted \subseteq Input
  BY DEF SessionQueueInv
<1>2. /\ t = [s EXCEPT !.lifecycle = lifecycle, !.lane = lane, !.queue = queue,
                       !.active = active, !.runs = runs]
      /\ accepted' = accepted /\ removed' = removed
  BY DEF Halt
<1>3. gone \subseteq SessionRun /\ \A r \in gone : s.runs[r].status # "none"
  BY DEF Live
<1>4. /\ runs \in [SessionRun -> RunRecord]
      /\ \A r \in gone : /\ runs[r].status = "ended" /\ runs[r].steering = <<>>
                         /\ runs[r].consumed = s.runs[r].consumed /\ ~runs[r].owned
      /\ \A r \in SessionRun \ gone :
            /\ runs[r].status = s.runs[r].status /\ runs[r].steering = s.runs[r].steering
            /\ runs[r].consumed = s.runs[r].consumed /\ runs[r].owned = s.runs[r].owned
  <2>1. s.runs \in [SessionRun -> RunRecord]
    BY <1>1 DEF Kept, SessionTyped
  <2>2. ASSUME NEW r \in gone
        PROVE  /\ runs[r] \in RunRecord /\ runs[r].status = "ended"
               /\ runs[r].steering = <<>> /\ ~runs[r].owned
               /\ runs[r].consumed = s.runs[r].consumed
    <3> DEFINE e == Ended(s.runs[r])
    <3>1. /\ e \in RunRecord /\ e.status = "ended" /\ e.steering = <<>> /\ ~e.owned
          /\ e.consumed = s.runs[r].consumed
      BY <1>3, <2>1, EndedTyped
    <3>2. runs[r] = [e EXCEPT !.cancelled = TRUE]
      BY <1>3
    <3> HIDE DEF e, runs
    <3> QED  BY <3>1, <3>2 DEF RunRecord
  <2>3. ASSUME NEW r \in SessionRun \ gone
        PROVE  /\ runs[r] \in RunRecord /\ runs[r].status = s.runs[r].status
               /\ runs[r].steering = s.runs[r].steering /\ runs[r].owned = s.runs[r].owned
               /\ runs[r].consumed = s.runs[r].consumed
    <3>1. s.runs[r] \in RunRecord
      BY <2>1
    <3>2. runs[r] = [s.runs[r] EXCEPT !.cancelled = @ \/ Live(s, r)]
      OBVIOUS
    <3>3. (s.runs[r].cancelled \/ Live(s, r)) \in BOOLEAN
      OBVIOUS
    <3> HIDE DEF runs
    <3> QED  BY <3>1, <3>2, <3>3 DEF RunRecord
  <2>4. runs = [r \in SessionRun |-> runs[r]]
    OBVIOUS
  <2> HIDE DEF runs, gone
  <2>5. \A r \in SessionRun : runs[r] \in RunRecord
    BY <2>2, <2>3
  <2> QED  BY <2>2, <2>3, <2>4, <2>5
<1>5. queue \in Seq(Input) /\ active \in SessionRun \cup {NoRun}
  <2>1. s.queue \in Seq(Input) /\ s.active \in SessionRun \cup {NoRun}
    BY <1>1 DEF Kept, SessionTyped
  <2>2. \A r \in SessionRun : s.runs[r].steering \in Seq(Input)
    BY <1>1 DEF Kept, SessionTyped, RunRecord
  <2> HIDE DEF s
  <2> QED  BY <1>3, <2>1, <2>2
<1>6. CASE s.active \notin gone
  <2>1. queue = s.queue /\ active = s.active
    BY <1>6
  <2> HIDE DEF runs, lane, queue, active, gone
  <2>2. t = [queue |-> s.queue, lane |-> lane, active |-> s.active,
             lifecycle |-> lifecycle, runs |-> runs]
    BY <1>1, <1>2, <2>1 DEF Kept, SessionTyped
  <2> HIDE DEF t
  <2>3. SessionTyped(t) /\ t.active = s.active /\ t.queue = s.queue /\ t.runs = runs
    BY <1>4, <1>5, <2>1, <2>2 DEF SessionTyped
  <2>4. \A r \in gone : s.runs[r].steering = <<>>
    BY <1>1, <1>3, <1>6 DEF Kept, UnreadOfActive
  <2> HIDE DEF s
  <2>5. \A r \in SessionRun :
            /\ t.runs[r].steering = s.runs[r].steering
            /\ t.runs[r].consumed = s.runs[r].consumed
            /\ t.runs[r].owned => s.runs[r].owned
            /\ t.runs[r].status = "none" <=> s.runs[r].status = "none"
    BY <1>3, <1>4, <2>3, <2>4
  <2>6. Queued(t) = Queued(s) /\ Unread(t) = Unread(s) /\ Read(t) = Read(s)
    BY <2>3, <2>5 DEF Queued, Unread, Read
  <2>7. Own(t) = Own(s)
    BY <2>5, RunsOfInputs DEF Own
  <2>8. UnreadOfActive(t)
    <3> SUFFICES ASSUME NEW r \in SessionRun, t.runs[r].steering # <<>>
                 PROVE  t.active = r /\ t.runs[r].status # "ended"
      BY DEF UnreadOfActive
    <3>1. s.active = r /\ s.runs[r].status # "ended"
      BY <1>1, <2>5 DEF Kept, UnreadOfActive
    <3> QED  BY <1>4, <1>6, <2>3, <3>1
  <2>9. NoRepetition(t) /\ ReadOnce(t) /\ OwnedHaveBegun(t)
    BY <1>1, <2>3, <2>5 DEF Kept, NoRepetition, ReadOnce, OwnedHaveBegun
  <2>10. Divided(t, accepted, removed)
    BY <1>1, <2>6, <2>7 DEF Kept, Divided
  <2>11. Kept(t, accepted, removed)
    BY <2>3, <2>8, <2>9, <2>10 DEF Kept
  <2> QED  BY <1>1, <1>2, <2>11 DEF SessionQueueInv, t
<1>7. CASE s.active \in gone
  <2>1. queue = s.runs[s.active].steering \o s.queue /\ active = NoRun
    BY <1>7
  <2> HIDE DEF runs, lane, queue, active, gone
  <2>2. t = [queue |-> queue, lane |-> lane, active |-> NoRun,
             lifecycle |-> lifecycle, runs |-> runs]
    BY <1>1, <1>2, <2>1 DEF Kept, SessionTyped
  <2> HIDE DEF t
  <2>3. SessionTyped(t) /\ t.active = NoRun /\ t.queue = queue /\ t.runs = runs
    BY <1>4, <1>5, <2>2 DEF SessionTyped
  <2> HIDE DEF s
  <2>4. \A r \in SessionRun : t.runs[r].steering = <<>>
    BY <1>1, <1>4, <1>7, <2>3 DEF Kept, UnreadOfActive
  <2>5. \A r \in SessionRun :
            /\ t.runs[r].consumed = s.runs[r].consumed
            /\ t.runs[r].owned => s.runs[r].owned
            /\ t.runs[r].status = "none" <=> s.runs[r].status = "none"
    BY <1>3, <1>4, <2>3
  <2>6. Read(t) = Read(s) /\ Unread(t) = {}
    BY <2>4, <2>5 DEF Read, Unread, Elements
  <2>7. Own(t) = Own(s)
    BY <2>5, RunsOfInputs DEF Own
  <2>8. Unread(s) = Elements(s.runs[s.active].steering)
    BY <1>1, <1>3, <1>7, UnreadIsActive DEF Kept
  <2>9. Unread(s) \cap Queued(s) = {}
    BY <1>1 DEF Kept, Divided, Division
  <2>10. Elements(queue) = Unread(s) \cup Queued(s) /\ Distinct(queue)
    <3>1. s.runs[s.active].steering \in Seq(Input) /\ s.queue \in Seq(Input)
      BY <1>1, <1>3, <1>7 DEF Kept, SessionTyped, RunRecord
    <3>2. Distinct(s.runs[s.active].steering) /\ Distinct(s.queue)
      BY <1>1, <1>3, <1>7 DEF Kept, NoRepetition
    <3> QED  BY <2>1, <2>8, <2>9, <3>1, <3>2, ConcatElements DEF Queued
  <2>11. Divided(t, accepted, removed)
    <3>1. Divided(s, accepted, removed)
      BY <1>1 DEF Kept
    <3>2. Queued(t) = Unread(s) \cup Queued(s)
      BY <2>3, <2>10 DEF Queued
    <3> QED  BY <2>6, <2>7, <3>1, <3>2 DEF Divided, Division
  <2>12. UnreadOfActive(t)
    BY <2>4 DEF UnreadOfActive
  <2>13. NoRepetition(t)
    BY <2>3, <2>4, <2>10 DEF NoRepetition, Distinct
  <2>14. ReadOnce(t) /\ OwnedHaveBegun(t)
    BY <1>1, <2>5 DEF Kept, ReadOnce, OwnedHaveBegun
  <2>15. Kept(t, accepted, removed)
    BY <2>3, <2>11, <2>12, <2>13, <2>14 DEF Kept
  <2> QED  BY <1>1, <1>2, <2>15 DEF SessionQueueInv, t
<1> QED  BY <1>6, <1>7

-----------------------------------------------------------------------------
(* The execution.                                                          *)

LEMMA ClaimRunKeeps ==
    ASSUME SessionQueueInv, NEW r \in SessionRun, ClaimRun(r)
    PROVE  SessionQueueInv'
<1> DEFINE run == [session.runs[r] EXCEPT !.owned = TRUE]
           t == [session EXCEPT !.runs = [session.runs EXCEPT ![r] = run]]
<1>1. Kept(session, accepted, removed)
  BY DEF SessionQueueInv
<1>2. session.runs \in [SessionRun -> RunRecord] /\ session.runs[r] \in RunRecord
  BY <1>1 DEF Kept, SessionTyped
<1>3. /\ run \in RunRecord /\ run.steering = session.runs[r].steering
      /\ run.consumed = session.runs[r].consumed /\ run.status = session.runs[r].status
  BY <1>2 DEF RunRecord
<1>4. /\ session.runs[r].status = "running" /\ accepted' = accepted /\ removed' = removed
      /\ session' = [session EXCEPT !.runs[r].owned = TRUE]
  BY DEF ClaimRun
<1>5. session' = t
  BY <1>1, <1>2, <1>4 DEF Kept, SessionTyped
<1> HIDE DEF run
<1>6. Kept(t, accepted, removed)
  BY <1>1, <1>3, <1>4, RunKeeps
<1> HIDE DEF t
<1>7. Kept(session', accepted', removed')
  BY <1>4, <1>5, <1>6
<1> QED  BY <1>4, <1>7 DEF SessionQueueInv

LEMMA ReleaseRunKeeps ==
    ASSUME SessionQueueInv, NEW r \in SessionRun, ReleaseRun(r)
    PROVE  SessionQueueInv'
<1> DEFINE run == [session.runs[r] EXCEPT !.owned = FALSE]
           t == [session EXCEPT !.runs = [session.runs EXCEPT ![r] = run]]
<1>1. Kept(session, accepted, removed)
  BY DEF SessionQueueInv
<1>2. session.runs \in [SessionRun -> RunRecord] /\ session.runs[r] \in RunRecord
  BY <1>1 DEF Kept, SessionTyped
<1>3. /\ run \in RunRecord /\ run.steering = session.runs[r].steering /\ run.owned = FALSE
      /\ run.consumed = session.runs[r].consumed /\ run.status = session.runs[r].status
  BY <1>2 DEF RunRecord
<1>4. /\ accepted' = accepted /\ removed' = removed
      /\ session' = [session EXCEPT !.runs[r].owned = FALSE]
  BY DEF ReleaseRun
<1>5. session' = t
  BY <1>1, <1>2, <1>4 DEF Kept, SessionTyped
<1> HIDE DEF run
<1>6. Kept(t, accepted, removed)
  BY <1>1, <1>3, RunKeeps
<1> HIDE DEF t
<1>7. Kept(session', accepted', removed')
  BY <1>4, <1>5, <1>6
<1> QED  BY <1>4, <1>7 DEF SessionQueueInv

LEMMA ConcludeKeeps ==
    ASSUME SessionQueueInv, NEW r \in SessionRun, Conclude(r)
    PROVE  SessionQueueInv'
<1> DEFINE run == [session.runs[r] EXCEPT !.status = "finishing", !.owned = FALSE]
           t == [session EXCEPT !.runs = [session.runs EXCEPT ![r] = run]]
<1>1. Kept(session, accepted, removed)
  BY DEF SessionQueueInv
<1>2. session.runs \in [SessionRun -> RunRecord] /\ session.runs[r] \in RunRecord
  BY <1>1 DEF Kept, SessionTyped
<1>3. /\ run \in RunRecord /\ run.steering = session.runs[r].steering /\ run.owned = FALSE
      /\ run.consumed = session.runs[r].consumed /\ run.status = "finishing"
  BY <1>2 DEF RunRecord
<1>4. /\ session.runs[r].owned /\ accepted' = accepted /\ removed' = removed
      /\ session' = [session EXCEPT !.runs[r].status = "finishing", !.runs[r].owned = FALSE]
  BY DEF Conclude
<1>5. session.runs[r].status # "none"
  BY <1>1, <1>4 DEF Kept, OwnedHaveBegun
<1>6. session' = t
  BY <1>1, <1>2, <1>4 DEF Kept, SessionTyped
<1> HIDE DEF run
<1>7. Kept(t, accepted, removed)
  BY <1>1, <1>3, <1>5, RunKeeps
<1> HIDE DEF t
<1>8. Kept(session', accepted', removed')
  BY <1>4, <1>6, <1>7
<1> QED  BY <1>4, <1>8 DEF SessionQueueInv

LEMMA ConsumeRunKeeps ==
    ASSUME SessionQueueInv, NEW r \in SessionRun, Consume(r)
    PROVE  SessionQueueInv'
<1> DEFINE old == session.runs[r]
           consumed == old.consumed \cup Elements(old.steering)
           run == [old EXCEPT !.steering = <<>>, !.consumed = consumed]
           t == [session EXCEPT !.runs = [session.runs EXCEPT ![r] = run]]
<1>1. Kept(session, accepted, removed)
  BY DEF SessionQueueInv
<1>2. session.runs \in [SessionRun -> RunRecord] /\ old \in RunRecord
  BY <1>1 DEF Kept, SessionTyped
<1>3. consumed \in SUBSET Input /\ <<>> \in Seq(Input)
  <2>1. old.steering \in Seq(Input) /\ old.consumed \in SUBSET Input
    BY <1>2 DEF RunRecord
  <2> HIDE DEF old
  <2>2. Elements(old.steering) \subseteq Input
    BY <2>1 DEF Elements
  <2> QED  BY <2>1, <2>2
<1>4. /\ old.steering # <<>> /\ accepted' = accepted /\ removed' = removed
      /\ session' = [session EXCEPT !.runs[r].steering = <<>>,
                                    !.runs[r].consumed = @ \cup Elements(old.steering)]
  BY DEF Consume, Elements
<1>5. session' = t
  BY <1>1, <1>2, <1>4 DEF Kept, SessionTyped
<1> HIDE DEF consumed
<1>6. /\ run \in RunRecord /\ run.steering = <<>> /\ run.consumed = consumed
      /\ run.status = old.status /\ run.owned = old.owned
  BY <1>2, <1>3 DEF RunRecord
<1> HIDE DEF run
<1>7. Kept(t, accepted, removed)
  BY <1>1, <1>4, <1>6, ConsumeKeeps DEF consumed
<1> HIDE DEF t
<1>8. Kept(session', accepted', removed')
  BY <1>4, <1>5, <1>7
<1> QED  BY <1>4, <1>8 DEF SessionQueueInv

LEMMA SettleRunKeeps ==
    ASSUME SessionQueueInv, NEW r \in SessionRun, SettleRun(r), ActiveRunStays
    PROVE  SessionQueueInv'
<1>1. Kept(session, accepted, removed)
  BY DEF SessionQueueInv
<1>2. /\ session' = Settled(session, r) /\ accepted' = accepted /\ removed' = removed
      /\ session.runs[r].status # "none"
  BY <1>1 DEF SettleRun, Kept, OwnedHaveBegun
<1>3. Yields(session, Settled(session, r))
  BY <1>2 DEF ActiveRunStays, Yields
<1>4. Kept(Settled(session, r), accepted, removed)
  BY <1>1, <1>2, <1>3, SettledKeeps
<1>5. Kept(session', accepted', removed')
  BY <1>2, <1>4
<1> QED  BY <1>2, <1>5 DEF SessionQueueInv

LEMMA SessionQueueInitially == QueueInit => SessionQueueInv
<1> SUFFICES ASSUME QueueInit PROVE SessionQueueInv
  OBVIOUS
<1> DEFINE fresh == [status |-> "none", cancelled |-> FALSE, owned |-> FALSE,
                     steering |-> <<>>, consumed |-> {}]
<1>1. /\ accepted = {} /\ removed = {}
      /\ session = [queue |-> <<>>, lane |-> <<>>, active |-> NoRun, lifecycle |-> "open",
                    runs |-> [r \in SessionRun |-> fresh]]
  BY DEF QueueInit
<1>2. <<>> \in Seq(Input) /\ Elements(<<>>) = {} /\ Distinct(<<>>)
  BY DEF Elements, Distinct
<1>3. fresh \in RunRecord
  BY <1>2 DEF RunRecord
<1>4. SessionTyped(session)
  BY <1>1, <1>2, <1>3 DEF SessionTyped
<1>5. \A r \in SessionRun : session.runs[r] = fresh
  BY <1>1
<1>6. session.queue = <<>> /\ Queued(session) = {}
  BY <1>1, <1>2 DEF Queued
<1>7. /\ UnreadOfActive(session) /\ OwnedHaveBegun(session)
      /\ ReadOnce(session) /\ NoRepetition(session)
  BY <1>2, <1>5, <1>6 DEF UnreadOfActive, OwnedHaveBegun, ReadOnce, NoRepetition
<1>8. Unread(session) = {} /\ Read(session) = {} /\ Own(session) = {}
  BY <1>2, <1>5, RunsOfInputs DEF Unread, Read, Own
<1>9. Divided(session, accepted, removed)
  BY <1>1, <1>6, <1>8 DEF Divided, Division
<1> QED  BY <1>1, <1>4, <1>7, <1>9 DEF SessionQueueInv, Kept

LEMMA SessionQueueStep ==
    SessionQueueInv /\ [QueueNext]_queueVars /\ [ActiveRunStays]_queueVars => SessionQueueInv'
<1> SUFFICES ASSUME SessionQueueInv, [QueueNext]_queueVars, [ActiveRunStays]_queueVars
             PROVE  SessionQueueInv'
  OBVIOUS
<1>1. CASE UNCHANGED queueVars
  <2>1. session' = session /\ accepted' = accepted /\ removed' = removed
    BY <1>1 DEF queueVars
  <2> QED  BY <2>1 DEF SessionQueueInv
<1>2. CASE QueueNext /\ ActiveRunStays
  <2>1. ASSUME NEW i \in Input, Submit(i) \/ Message(i) \/ Remove(i)
        PROVE  SessionQueueInv'
    BY <2>1, SubmitKeeps, MessageKeeps, RemoveInputKeeps
  <2>2. ASSUME NEW r \in SessionRun,
               Start(r) \/ Activate(r) \/ CancelRun(r) \/ ReleaseRun(r)
        PROVE  SessionQueueInv'
    BY <1>2, <2>2, StartKeeps, ActivateKeeps, CancelRunKeeps, ReleaseRunKeeps
  <2>3. ASSUME NEW r \in SessionRun, RunStep(r)
        PROVE  SessionQueueInv'
    BY <1>2, <2>3, ClaimRunKeeps, ConsumeRunKeeps, ConcludeKeeps, SettleRunKeeps DEF RunStep
  <2>4. ASSUME NEW lifecycle \in {"stopped", "closed"}, Halt(lifecycle)
        PROVE  SessionQueueInv'
    BY <2>4, HaltKeeps
  <2>5. CASE Resume
    BY <2>5, ResumeKeeps
  <2> QED  BY <1>2, <2>1, <2>2, <2>3, <2>4, <2>5 DEF QueueNext
<1> QED  BY <1>1, <1>2

\* An input of the division is in one place.
LEMMA OnePlace ==
    ASSUME SessionQueueInv, NEW i \in accepted
    PROVE  \E place : Places(i) = {place}
<1> DEFINE atQueue == {<<"queued", NoRun, k>> : k \in Positions(session.queue, i)}
           atRuns == UNION {{<<"unread", r, k>> : k \in Positions(session.runs[r].steering, i)}
                                : r \in SessionRun}
           atRead == {<<"read", r, 0>> : r \in {q \in SessionRun : i \in session.runs[q].consumed}}
           atOwn == {<<"own", r, 0>> : r \in {q \in {i} : session.runs[q].status # "none"}}
           atRemoved == {<<"removed", NoRun, 0>> : r \in {i} \cap removed}
<1>1. Places(i) = atQueue \cup atRuns \cup atRead \cup atOwn \cup atRemoved
  BY DEF Places
<1>2. /\ Division(accepted, Queued(session), Unread(session), Read(session),
                  Own(session), removed)
      /\ i \in Input
  BY DEF SessionQueueInv, Kept, Divided
<1>3. i \notin Queued(session) => atQueue = {}
  BY DEF Queued, Elements, Positions
<1>4. i \notin Unread(session) => atRuns = {}
  <2> SUFFICES ASSUME i \notin Unread(session), NEW r \in SessionRun
               PROVE  Positions(session.runs[r].steering, i) = {}
    OBVIOUS
  <2>1. i \notin Elements(session.runs[r].steering)
    BY DEF Unread
  <2> QED  BY <2>1 DEF Positions, Elements
<1>5. i \notin Read(session) => atRead = {}
  BY DEF Read
<1>6. i \notin Own(session) => atOwn = {}
  BY <1>2 DEF Own
<1>7. i \notin removed => atRemoved = {}
  OBVIOUS
<1>8. ASSUME i \in Queued(session) PROVE \E place : atQueue = {place}
  <2>1. PICK k \in DOMAIN session.queue : session.queue[k] = i
    BY <1>8 DEF Queued, Elements
  <2>2. Positions(session.queue, i) = {k}
    BY <2>1 DEF Positions, SessionQueueInv, Kept, NoRepetition, Distinct
  <2>3. atQueue = {<<"queued", NoRun, k>>}
    BY <2>2
  <2> QED  BY <2>3
<1>9. ASSUME i \in Unread(session) PROVE \E place : atRuns = {place}
  <2>1. PICK a \in SessionRun : i \in Elements(session.runs[a].steering)
    BY <1>9 DEF Unread
  <2>2. PICK k \in DOMAIN session.runs[a].steering : session.runs[a].steering[k] = i
    BY <2>1 DEF Elements
  <2>3. Positions(session.runs[a].steering, i) = {k}
    <3>1. Distinct(session.runs[a].steering)
      BY DEF SessionQueueInv, Kept, NoRepetition
    <3> QED  BY <2>2, <3>1 DEF Positions, Distinct
  <2>4. session.runs[a].steering # <<>>
    BY <2>2
  <2>5. session.active = a
    BY <2>4 DEF SessionQueueInv, Kept, UnreadOfActive
  <2>6. \A r \in SessionRun : r # a => Positions(session.runs[r].steering, i) = {}
    <3>1. \A r \in SessionRun : r # a => session.runs[r].steering = <<>>
      BY <2>5 DEF SessionQueueInv, Kept, UnreadOfActive
    <3> QED  BY <3>1 DEF Positions
  <2>7. atRuns = {<<"unread", a, k>>}
    <3>1. {<<"unread", a, j>> : j \in Positions(session.runs[a].steering, i)}
            = {<<"unread", a, k>>}
      BY <2>3
    <3>2. \A r \in SessionRun : r # a =>
            {<<"unread", r, j>> : j \in Positions(session.runs[r].steering, i)} = {}
      BY <2>6
    <3> QED  BY <3>1, <3>2
  <2> QED  BY <2>7
<1>10. ASSUME i \in Read(session) PROVE \E place : atRead = {place}
  <2>1. PICK r \in SessionRun : i \in session.runs[r].consumed
    BY <1>10 DEF Read
  <2>2. {q \in SessionRun : i \in session.runs[q].consumed} = {r}
    BY <2>1 DEF SessionQueueInv, Kept, ReadOnce
  <2>3. atRead = {<<"read", r, 0>>}
    BY <2>2
  <2> QED  BY <2>3
<1>11. ASSUME i \in Own(session) PROVE \E place : atOwn = {place}
  <2>1. {q \in {i} : session.runs[q].status # "none"} = {i}
    BY <1>11 DEF Own
  <2>2. atOwn = {<<"own", i, 0>>}
    BY <2>1
  <2> QED  BY <2>2
<1>12. ASSUME i \in removed PROVE \E place : atRemoved = {place}
  <2>1. atRemoved = {<<"removed", NoRun, 0>>}
    BY <1>12
  <2> QED  BY <2>1
<1> HIDE DEF atQueue, atRuns, atRead, atOwn, atRemoved
<1>13. CASE i \in Queued(session)
  BY <1>1, <1>2, <1>4, <1>5, <1>6, <1>7, <1>8, <1>13 DEF Division
<1>14. CASE i \in Unread(session)
  BY <1>1, <1>2, <1>3, <1>5, <1>6, <1>7, <1>9, <1>14 DEF Division
<1>15. CASE i \in Read(session)
  BY <1>1, <1>2, <1>3, <1>4, <1>6, <1>7, <1>10, <1>15 DEF Division
<1>16. CASE i \in Own(session)
  BY <1>1, <1>2, <1>3, <1>4, <1>5, <1>7, <1>11, <1>16 DEF Division
<1>17. CASE i \in removed
  BY <1>1, <1>2, <1>3, <1>4, <1>5, <1>6, <1>12, <1>17 DEF Division
<1> QED  BY <1>2, <1>13, <1>14, <1>15, <1>16, <1>17 DEF Division

LEMMA DivisionGivesOnePlace == SessionQueueInv => InputInOnePlace
<1> SUFFICES ASSUME SessionQueueInv, NEW i \in accepted
             PROVE  Cardinality(Places(i)) = 1
  BY DEF InputInOnePlace
<1>1. PICK place : Places(i) = {place}
  BY OnePlace
<1> QED  BY <1>1, FS_Singleton

\* As long as no Run takes the place of an active one that has not settled, every
\* accepted input of a Session is in one place, whatever is submitted, sent,
\* removed, started, cancelled, stopped and resumed, in any order, and whatever the
\* number of inputs, Runs and stops: host-session/queue.ts promote,
\* admission/terminal.ts afterTerminal.
THEOREM InputsAreKept ==
    QueueSpec /\ [][ActiveRunStays]_queueVars => []InputInOnePlace
<1>1. QueueInit => SessionQueueInv
  BY SessionQueueInitially
<1>2. SessionQueueInv /\ [QueueNext]_queueVars /\ [ActiveRunStays]_queueVars
        => SessionQueueInv'
  BY SessionQueueStep
<1>3. SessionQueueInv => InputInOnePlace
  BY DivisionGivesOnePlace
<1> QED  BY <1>1, <1>2, <1>3, PTL DEF QueueSpec

-----------------------------------------------------------------------------
\* A Session whose Runs all come from its queue: its lane holds the active Run and
\* nothing else, and no other Run lives.
Solo(s) ==
    /\ s.active = NoRun => s.lane = <<>>
    /\ s.active # NoRun => s.lane = <<s.active>> /\ Live(s, s.active)
    /\ \A r \in SessionRun : Live(s, r) \/ s.runs[r].owned => r = s.active
    /\ \A r \in SessionRun : s.runs[r].owned => Live(s, r)

\* What a step of such a Session shows: the Session stays one, and the active Run
\* settles before another takes its place.
SoloStep(s, t) == Solo(t) /\ Yields(s, t)

LEMMA WithoutOfNone ==
    ASSUME NEW gone PROVE Without(<<>>, gone) = <<>>
<1> DEFINE kept == {k \in DOMAIN <<>> : <<>>[k] \notin gone}
           F(n) == [i \in 1 .. n |->
                        <<>>[CHOOSE k \in kept : Cardinality({j \in kept : j <= k}) = i]]
<1>1. kept = {}
  OBVIOUS
<1>2. Without(<<>>, gone) = F(Cardinality(kept))
  BY DEF Without
<1>3. Cardinality(kept) = 0
  BY <1>1, FS_EmptySet
<1> HIDE DEF kept
<1>4. F(0) = <<>>
  <2>1. 1 .. 0 = {}
    OBVIOUS
  <2> QED  BY <2>1
<1> HIDE DEF F
<1> QED  BY <1>2, <1>3, <1>4

LEMMA WithoutOfOne ==
    ASSUME NEW r, NEW gone
    PROVE  Without(<<r>>, gone) = IF r \in gone THEN <<>> ELSE <<r>>
<1> DEFINE kept == {k \in DOMAIN <<r>> : <<r>>[k] \notin gone}
           Place(k) == Cardinality({j \in kept : j <= k})
           F(n) == [i \in 1 .. n |-> <<r>>[CHOOSE k \in kept : Place(k) = i]]
<1>1. Without(<<r>>, gone) = F(Cardinality(kept))
  BY DEF Without
<1>2. CASE r \in gone
  <2>1. kept = {}
    BY <1>2
  <2>2. Cardinality(kept) = 0
    BY <2>1, FS_EmptySet
  <2>3. F(0) = <<>>
    <3> HIDE DEF kept, Place
    <3>1. 1 .. 0 = {}
      OBVIOUS
    <3> QED  BY <3>1
  <2> HIDE DEF F, kept
  <2> QED  BY <1>1, <1>2, <2>2, <2>3
<1>3. CASE r \notin gone
  <2>1. kept = {1}
    BY <1>3
  <2>2. Cardinality(kept) = 1
    BY <2>1, FS_Singleton
  <2>3. {j \in kept : j <= 1} = {1}
    BY <2>1
  <2>4. Place(1) = 1
    BY <2>3, FS_Singleton
  <2> HIDE DEF kept, Place
  <2>5. (CHOOSE k \in kept : Place(k) = 1) = 1
    BY <2>1, <2>4
  <2>6. F(1) = <<r>>
    <3>1. 1 .. 1 = {1}
      OBVIOUS
    <3>2. \A i \in 1 .. 1 : <<r>>[CHOOSE k \in kept : Place(k) = i] = <<r>>[i]
      BY <2>5, <3>1
    <3>3. F(1) = [i \in 1 .. 1 |-> <<r>>[i]]
      BY <3>2
    <3> QED  BY <3>3
  <2> HIDE DEF F
  <2> QED  BY <1>1, <1>3, <2>2, <2>6
<1> QED  BY <1>2, <1>3

\* Nothing waits behind the active Run, so that no head is started.
LEMMA NoHeadWaits ==
    ASSUME NEW s, s.lane = <<>>
    PROVE  PromoteHead(s) = s
BY DEF PromoteHead, MayStart

\* Changes that let the same Runs live.
LEMMA SoloSame ==
    ASSUME NEW s, NEW t, Solo(s), t.lane = s.lane, t.active = s.active,
           \A r \in SessionRun : Live(t, r) <=> Live(s, r),
           \A r \in SessionRun : t.runs[r].owned => Live(s, r),
           s.active \in SessionRun \cup {NoRun}
    PROVE  SoloStep(s, t)
<1>1. Yields(s, t)
  BY DEF Yields
<1>2. s.active # NoRun => Live(t, t.active)
  BY DEF Solo
<1>3. \A r \in SessionRun : Live(t, r) \/ t.runs[r].owned => r = t.active /\ Live(t, r)
  BY DEF Solo
<1> QED  BY <1>1, <1>2, <1>3 DEF Solo, SoloStep

LEMMA SoloRunChanged ==
    ASSUME NEW s, SessionTyped(s), Solo(s), NEW r \in SessionRun, NEW run \in RunRecord,
           run.status \in {"queued", "running", "finishing"} <=> Live(s, r),
           run.owned => Live(s, r)
    PROVE  SoloStep(s, [s EXCEPT !.runs = [s.runs EXCEPT ![r] = run]])
<1> DEFINE t == [s EXCEPT !.runs = [s.runs EXCEPT ![r] = run]]
<1>1. /\ t.lane = s.lane /\ t.active = s.active
      /\ t.runs[r] = run /\ \A q \in SessionRun : q # r => t.runs[q] = s.runs[q]
  <2>1. /\ SessionTyped(t) /\ t.queue = s.queue /\ t.active = s.active
        /\ t.lane = s.lane /\ t.lifecycle = s.lifecycle
        /\ t.runs = [s.runs EXCEPT ![r] = run]
        /\ t.runs[r] = run
        /\ \A q \in SessionRun : q # r => t.runs[q] = s.runs[q]
    BY RunChanged
  <2> HIDE DEF t
  <2> QED  BY <2>1
<1> SUFFICES SoloStep(s, t)
  OBVIOUS
<1> HIDE DEF t
<1>2. \A q \in SessionRun : Live(t, q) <=> Live(s, q)
  BY <1>1 DEF Live
<1>3. \A q \in SessionRun : t.runs[q].owned => Live(s, q)
  BY <1>1 DEF Solo
<1>4. s.active \in SessionRun \cup {NoRun}
  BY DEF SessionTyped
<1> QED  BY <1>1, <1>2, <1>3, <1>4, SoloSame

\* The first input gets its Run only when no other lives.
LEMMA PromoteSolo ==
    ASSUME NEW s, SessionTyped(s), Solo(s)
    PROVE  /\ SoloStep(s, Promote(s))
           /\ \A r \in SessionRun :
                s.runs[r].status = "ended" /\ Promote(s).active # r
                    => Promote(s).runs[r].status = "ended"
<1>1. CASE ~(s.lifecycle = "open" /\ s.queue # <<>> /\ s.active = NoRun /\ s.lane = <<>>)
  BY <1>1 DEF Promote, SoloStep, Yields
<1>2. CASE s.lifecycle = "open" /\ s.queue # <<>> /\ s.active = NoRun /\ s.lane = <<>>
  <2> DEFINE q == Tail(s.queue)
             u == [s EXCEPT !.queue = q]
             h == Head(s.queue)
             v == InLane(u, h)
             p == PromoteHead(v)
             t == [p EXCEPT !.active = h]
  <2>1. Promote(s) = t
    <3>1. AdmitRun(u, h, TRUE) = IF u.lane = <<>> THEN p ELSE v
      BY DEF AdmitRun, InLane
    <3>2. u.lane = <<>>
      BY <1>2 DEF SessionTyped
    <3>3. Promote(s) = [AdmitRun(u, h, TRUE) EXCEPT !.active = h]
      BY <1>2 DEF Promote
    <3> QED  BY <3>1, <3>2, <3>3
  <2>2. h \in SessionRun /\ q \in Seq(Input)
    BY <1>2, TailElements, RunsOfInputs DEF SessionTyped
  <2> HIDE DEF q, h
  <2>3. u = [queue |-> q, lane |-> s.lane, active |-> s.active,
             lifecycle |-> s.lifecycle, runs |-> s.runs]
    BY DEF SessionTyped
  <2> HIDE DEF u
  <2>4. SessionTyped(u) /\ u.runs = s.runs /\ u.lane = <<>> /\ u.active = NoRun
    BY <1>2, <2>2, <2>3 DEF SessionTyped
  <2>5. \A r \in SessionRun : ~Live(s, r) /\ ~s.runs[r].owned
    BY <1>2, RunsOfInputs DEF Solo
  <2>6. /\ SessionTyped(v) /\ v.lane = Append(<<>>, h) /\ v.active = NoRun
        /\ v.runs[h].status = "queued" /\ ~v.runs[h].owned
        /\ \A r \in SessionRun : r # h => /\ v.runs[r].status = s.runs[r].status
                                          /\ ~v.runs[r].owned
    BY <2>2, <2>4, <2>5, InLaneSame
  <2> HIDE DEF v
  <2>7. /\ SessionTyped(p) /\ p.lane = <<h>>
        /\ Live(p, h) /\ ~p.runs[h].owned
        /\ \A r \in SessionRun : r # h => /\ p.runs[r].status = s.runs[r].status
                                          /\ ~p.runs[r].owned
    <3>1. v.lane = <<h>>
      BY <2>6
    <3>2. CASE ~\E r \in SessionRun : MayStart(v, r)
      <4>1. p = v
        BY <3>2 DEF PromoteHead
      <4> QED  BY <2>6, <3>1, <4>1 DEF Live
    <3>3. CASE \E r \in SessionRun : MayStart(v, r)
      <4> DEFINE c == CHOOSE r \in SessionRun : MayStart(v, r)
      <4>1. c \in SessionRun /\ MayStart(v, c)
        BY <3>3
      <4>2. p = Begun(v, c)
        BY <3>3 DEF PromoteHead
      <4> HIDE DEF c
      <4>3. c = h
        BY <3>1, <4>1 DEF MayStart
      <4>4. /\ SessionTyped(Begun(v, h)) /\ Begun(v, h).lane = v.lane
            /\ Begun(v, h).runs[h].status = "running"
            /\ \A r \in SessionRun : /\ Begun(v, h).runs[r].owned = v.runs[r].owned
                                     /\ r # h => Begun(v, h).runs[r] = v.runs[r]
        BY <2>2, <2>6, BegunDoes
      <4> QED  BY <2>2, <2>6, <3>1, <4>2, <4>3, <4>4 DEF Live
    <3> QED  BY <3>2, <3>3
  <2> HIDE DEF p
  <2>8. t = [queue |-> p.queue, lane |-> p.lane, active |-> h,
             lifecycle |-> p.lifecycle, runs |-> p.runs]
    BY <2>7 DEF SessionTyped
  <2> HIDE DEF t
  <2>9. t.lane = <<h>> /\ t.active = h /\ t.runs = p.runs /\ h # NoRun
    BY <2>2, <2>7, <2>8, RunsOfInputs
  <2>10. Solo(t)
    <3>1. \A r \in SessionRun : r # h => ~Live(t, r) /\ ~t.runs[r].owned
      BY <2>5, <2>7, <2>9 DEF Live
    <3>2. Live(t, h) /\ ~t.runs[h].owned
      BY <2>7, <2>9 DEF Live
    <3> QED  BY <2>2, <2>9, <3>1, <3>2 DEF Solo
  <2>11. \A r \in SessionRun : s.runs[r].status = "ended" /\ t.active # r
                                    => t.runs[r].status = "ended"
    BY <2>7, <2>9
  <2>12. Yields(s, t)
    BY <1>2 DEF Yields
  <2> QED  BY <2>1, <2>10, <2>11, <2>12 DEF SoloStep
<1> QED  BY <1>1, <1>2

\* The one Run that lives settles.
LEMMA SettledSolo ==
    ASSUME NEW s, SessionTyped(s), Solo(s), NEW r \in SessionRun, Live(s, r)
    PROVE  SoloStep(s, Settled(s, r))
<1> DEFINE f == Freed(s, r)
<1>1. s.active = r /\ s.lane = <<r>> /\ s.active # NoRun
  BY RunsOfInputs DEF Solo
<1>2. /\ SessionTyped(f) /\ f.active = NoRun /\ f.lane = Without(s.lane, {r})
      /\ f.runs = [s.runs EXCEPT ![r] = Ended(s.runs[r])]
  BY <1>1, FreedFields
<1>3. Settled(s, r) = Promote(PromoteHead(f))
  BY DEF Settled, Freed
<1> HIDE DEF f
<1>4. f.lane = <<>>
  BY <1>1, <1>2, WithoutOfOne
<1>5. Settled(s, r) = Promote(f)
  BY <1>3, <1>4, NoHeadWaits
<1>6. s.runs \in [SessionRun -> RunRecord] /\ s.runs[r] \in RunRecord
  BY DEF SessionTyped
<1>7. /\ f.runs[r].status = "ended" /\ ~f.runs[r].owned
      /\ \A q \in SessionRun : q # r => f.runs[q] = s.runs[q]
  BY <1>2, <1>6, EndedTyped
<1>8. \A q \in SessionRun : ~Live(f, q) /\ ~f.runs[q].owned
  BY <1>1, <1>7 DEF Solo, Live
<1>9. Solo(f)
  BY <1>2, <1>4, <1>8 DEF Solo
<1>10. /\ Solo(Promote(f))
       /\ Promote(f).active # r => Promote(f).runs[r].status = "ended"
  BY <1>2, <1>7, <1>9, PromoteSolo DEF SoloStep
<1> QED  BY <1>1, <1>5, <1>10 DEF SoloStep, Yields

-----------------------------------------------------------------------------
(* The actions on such a Session.                                          *)

\* Inputs that come, go or are sent change no Run but for what it has not read.
LEMMA SoloQueueChanged ==
    ASSUME NEW s, SessionTyped(s), Solo(s), NEW queue \in Seq(Input)
    PROVE  LET t == [s EXCEPT !.queue = queue]
           IN  SessionTyped(t) /\ Solo(t) /\ SoloStep(s, t) /\ t.active = s.active
<1> DEFINE t == [s EXCEPT !.queue = queue]
<1>1. t = [queue |-> queue, lane |-> s.lane, active |-> s.active,
           lifecycle |-> s.lifecycle, runs |-> s.runs]
  BY DEF SessionTyped
<1> HIDE DEF t
<1>2. /\ SessionTyped(t) /\ t.lane = s.lane /\ t.active = s.active /\ t.runs = s.runs
  BY <1>1 DEF SessionTyped
<1>3. SoloStep(s, t)
  BY <1>2, SoloSame DEF Live, Solo, SessionTyped
<1> QED  BY <1>2, <1>3 DEF SoloStep, t

LEMMA SubmitSolo ==
    ASSUME SessionQueueInv, Solo(session), NEW i \in Input,
           session' = Promote([session EXCEPT !.queue = Append(@, i)])
    PROVE  SoloStep(session, session')
<1> DEFINE q == Append(session.queue, i)
           u == [session EXCEPT !.queue = q]
<1>1. SessionTyped(session) /\ q \in Seq(Input)
  BY DEF SessionQueueInv, Kept, SessionTyped
<1>2. session' = Promote(u)
  OBVIOUS
<1> HIDE DEF q
<1>3. SessionTyped(u) /\ Solo(u) /\ u.active = session.active
  BY <1>1, SoloQueueChanged
<1> HIDE DEF u
<1>4. SoloStep(u, Promote(u))
  BY <1>3, PromoteSolo
<1> QED  BY <1>2, <1>3, <1>4 DEF SoloStep, Yields

LEMMA MessageSolo ==
    ASSUME SessionQueueInv, Solo(session), NEW i \in Input, Message(i)
    PROVE  SoloStep(session, session')
<1> DEFINE a == session.active
           steerable == /\ session.lifecycle = "open" /\ a # NoRun
                        /\ session.runs[a].status \in {"queued", "running"}
                        /\ ~session.runs[a].cancelled
<1>1. CASE ~steerable
  <2>1. session' = Promote([session EXCEPT !.queue = Append(@, i)])
    BY <1>1 DEF Message
  <2> QED  BY <2>1, SubmitSolo
<1>2. CASE steerable
  <2>1. session' = [session EXCEPT !.runs[a].steering = Append(@, i)]
    BY <1>2 DEF Message
  <2>2. SessionTyped(session)
    BY DEF SessionQueueInv, Kept
  <2>3. a \in SessionRun /\ session.runs \in [SessionRun -> RunRecord]
    BY <1>2, <2>2 DEF SessionTyped
  <2> HIDE DEF a
  <2> DEFINE q == Append(session.runs[a].steering, i)
             run == [session.runs[a] EXCEPT !.steering = q]
  <2>4. session.runs[a] \in RunRecord /\ session.runs[a].steering \in Seq(Input)
    BY <2>3 DEF RunRecord
  <2>5. q \in Seq(Input)
    BY <2>4
  <2>6. session' = [session EXCEPT !.runs = [session.runs EXCEPT ![a] = run]]
    BY <2>1, <2>2, <2>3 DEF SessionTyped
  <2> HIDE DEF q
  <2>7. /\ run \in RunRecord /\ run.status = session.runs[a].status
        /\ run.owned = session.runs[a].owned
    BY <2>4, <2>5 DEF RunRecord
  <2> HIDE DEF run
  <2>8. /\ run.status \in {"queued", "running", "finishing"} <=> Live(session, a)
        /\ run.owned => Live(session, a)
    BY <2>3, <2>7 DEF Live, Solo
  <2>9. SoloStep(session, [session EXCEPT !.runs = [session.runs EXCEPT ![a] = run]])
    BY <2>2, <2>3, <2>7, <2>8, SoloRunChanged
  <2> QED  BY <2>6, <2>9
<1> QED  BY <1>1, <1>2

LEMMA RemoveSolo ==
    ASSUME SessionQueueInv, Solo(session), NEW i \in Input, Remove(i)
    PROVE  SoloStep(session, session')
<1>1. PICK k \in Positions(session.queue, i) :
            session' = [session EXCEPT !.queue = SubSeq(@, 1, k - 1) \o SubSeq(@, k + 1, Len(@))]
  BY DEF Remove
<1> DEFINE q == SubSeq(session.queue, 1, k - 1)
                    \o SubSeq(session.queue, k + 1, Len(session.queue))
<1>2. SessionTyped(session) /\ session.queue \in Seq(Input) /\ k \in DOMAIN session.queue
  BY DEF SessionQueueInv, Kept, SessionTyped, Positions
<1>3. q \in Seq(Input)
  BY <1>2, RemovedElements
<1>4. session' = [session EXCEPT !.queue = q]
  BY <1>1
<1> HIDE DEF q
<1> QED  BY <1>2, <1>3, <1>4, SoloQueueChanged

LEMMA ActivateSolo ==
    ASSUME SessionQueueInv, Solo(session), NEW r \in SessionRun, Activate(r)
    PROVE  SoloStep(session, session')
<1>1. session.runs[r].status = "queued" /\ session' = Begun(session, r)
  BY DEF Activate, Begun
<1> DEFINE t == Begun(session, r)
<1>2. SessionTyped(session)
  BY DEF SessionQueueInv, Kept
<1>3. /\ t.lane = session.lane /\ t.active = r /\ t.runs[r].status = "running"
      /\ \A q \in SessionRun : /\ t.runs[q].owned = session.runs[q].owned
                               /\ q # r => t.runs[q] = session.runs[q]
  BY <1>1, <1>2, BegunDoes
<1> HIDE DEF t
<1>4. Live(session, r) /\ session.active = r
  BY <1>1 DEF Live, Solo
<1>5. \A q \in SessionRun : Live(t, q) <=> Live(session, q)
  BY <1>3, <1>4 DEF Live
<1>6. \A q \in SessionRun : t.runs[q].owned => Live(session, q)
  BY <1>3 DEF Solo
<1>7. SoloStep(session, t)
  BY <1>3, <1>4, <1>5, <1>6, SoloSame
<1> QED  BY <1>1, <1>7 DEF t

LEMMA CancelRunSolo ==
    ASSUME SessionQueueInv, Solo(session), NEW r \in SessionRun, CancelRun(r)
    PROVE  SoloStep(session, session')
<1> DEFINE run == [session.runs[r] EXCEPT !.cancelled = TRUE]
           t == [session EXCEPT !.runs = [session.runs EXCEPT ![r] = run]]
<1>1. Live(session, r) /\ session' = Cancelled(session, r)
  BY DEF CancelRun
<1>2. SessionTyped(session)
  BY DEF SessionQueueInv, Kept
<1>3. session.runs \in [SessionRun -> RunRecord] /\ session.runs[r] \in RunRecord
  BY <1>2 DEF SessionTyped
<1>4. /\ run \in RunRecord /\ run.status = session.runs[r].status
      /\ run.owned = session.runs[r].owned
  BY <1>3 DEF RunRecord
<1>5. [session EXCEPT !.runs[r].cancelled = TRUE] = t
  BY <1>2, <1>3 DEF SessionTyped
<1>6. session' = IF Busy(session, r) THEN t ELSE Settled(t, r)
  BY <1>1, <1>5 DEF Cancelled
<1> HIDE DEF run
<1>7. /\ run.status \in {"queued", "running", "finishing"} <=> Live(session, r)
      /\ run.owned => Live(session, r)
  BY <1>4 DEF Live, Solo
<1>8. SoloStep(session, t)
  BY <1>2, <1>4, <1>7, SoloRunChanged
<1>9. SessionTyped(t) /\ t.active = session.active /\ Live(t, r)
  <2>1. /\ SessionTyped(t) /\ t.queue = session.queue /\ t.active = session.active
        /\ t.lane = session.lane /\ t.lifecycle = session.lifecycle
        /\ t.runs = [session.runs EXCEPT ![r] = run]
        /\ t.runs[r] = run
        /\ \A q \in SessionRun : q # r => t.runs[q] = session.runs[q]
    BY <1>2, <1>4, RunChanged
  <2> HIDE DEF t
  <2> QED  BY <1>1, <1>4, <2>1 DEF Live
<1> HIDE DEF t
<1>10. SoloStep(t, Settled(t, r))
  BY <1>8, <1>9, SettledSolo DEF SoloStep
<1> QED  BY <1>6, <1>8, <1>9, <1>10 DEF SoloStep, Yields

LEMMA HaltSolo ==
    ASSUME SessionQueueInv, Solo(session), NEW lifecycle \in {"stopped", "closed"},
           Halt(lifecycle)
    PROVE  SoloStep(session, session')
<1> DEFINE s == session
           gone == {r \in SessionRun : Live(s, r) /\ ~Busy(s, r)}
           Status(r) == IF r \in gone THEN [Ended(s.runs[r]) EXCEPT !.cancelled = TRUE]
                        ELSE [s.runs[r] EXCEPT !.cancelled = @ \/ Live(s, r)]
           runs == [r \in SessionRun |-> Status(r)]
           queue == IF s.active \in gone THEN s.runs[s.active].steering \o s.queue ELSE s.queue
           active == IF s.active \in gone THEN NoRun ELSE s.active
           lane == Without(s.lane, gone)
           t == session'
<1>1. SessionTyped(s) /\ Solo(s)
  BY DEF SessionQueueInv, Kept
<1>2. t = [s EXCEPT !.lifecycle = lifecycle, !.lane = lane, !.queue = queue,
                    !.active = active, !.runs = runs]
  BY DEF Halt
<1>3. s.runs \in [SessionRun -> RunRecord]
  BY <1>1 DEF SessionTyped
<1>4. \A r \in gone : runs[r].status = "ended" /\ ~runs[r].owned
  <2> SUFFICES ASSUME NEW r \in gone PROVE runs[r].status = "ended" /\ ~runs[r].owned
    OBVIOUS
  <2> DEFINE e == Ended(s.runs[r])
  <2>1. e \in RunRecord /\ e.status = "ended" /\ ~e.owned
    BY <1>3, EndedTyped
  <2>2. runs[r] = [e EXCEPT !.cancelled = TRUE]
    OBVIOUS
  <2> HIDE DEF e, runs
  <2> QED  BY <2>1, <2>2 DEF RunRecord
<1>5. \A r \in SessionRun \ gone : /\ runs[r].status = s.runs[r].status
                                   /\ runs[r].owned = s.runs[r].owned
  <2> SUFFICES ASSUME NEW r \in SessionRun \ gone
               PROVE  /\ runs[r].status = s.runs[r].status
                      /\ runs[r].owned = s.runs[r].owned
    OBVIOUS
  <2>1. s.runs[r] \in RunRecord
    BY <1>3
  <2>2. runs[r] = [s.runs[r] EXCEPT !.cancelled = @ \/ Live(s, r)]
    OBVIOUS
  <2> HIDE DEF runs
  <2> QED  BY <2>1, <2>2 DEF RunRecord
<1>6. gone \subseteq SessionRun /\ \A r \in gone : r = s.active
  BY <1>1 DEF Solo
<1>7. s.active \in SessionRun \cup {NoRun}
  BY <1>1 DEF SessionTyped
<1> HIDE DEF runs, queue, gone
<1>8. t = [queue |-> queue, lane |-> lane, active |-> active, lifecycle |-> lifecycle,
           runs |-> runs]
  BY <1>1, <1>2 DEF SessionTyped
<1> SUFFICES SoloStep(s, t)
  OBVIOUS
<1> HIDE DEF t, s
<1>9. t.lane = lane /\ t.active = active /\ t.runs = runs
  BY <1>8
<1>10. s.lane = IF s.active = NoRun THEN <<>> ELSE <<s.active>>
  BY <1>1 DEF Solo
<1>11. lane = IF s.active = NoRun \/ s.active \in gone THEN <<>> ELSE <<s.active>>
  BY <1>10, WithoutOfNone, WithoutOfOne
<1> HIDE DEF lane
<1>12. CASE s.active \in gone
  <2>1. t.active = NoRun /\ t.lane = <<>> /\ t.runs[s.active].status = "ended"
    BY <1>4, <1>9, <1>11, <1>12
  <2>2. \A r \in SessionRun : ~Live(t, r) /\ ~t.runs[r].owned
    <3> SUFFICES ASSUME NEW r \in SessionRun PROVE ~Live(t, r) /\ ~t.runs[r].owned
      OBVIOUS
    <3>1. CASE r \in gone
      BY <1>4, <1>9, <3>1 DEF Live
    <3>2. CASE r \notin gone
      <4>1. r # s.active
        BY <1>12, <3>2
      <4>2. ~Live(s, r) /\ ~s.runs[r].owned
        BY <1>1, <4>1 DEF Solo
      <4>3. t.runs[r].status = s.runs[r].status /\ t.runs[r].owned = s.runs[r].owned
        BY <1>5, <1>9, <3>2
      <4> QED  BY <4>2, <4>3 DEF Live
    <3> QED  BY <3>1, <3>2
  <2>3. Solo(t)
    BY <2>1, <2>2 DEF Solo
  <2> QED  BY <2>1, <2>3 DEF SoloStep, Yields
<1>13. CASE s.active \notin gone
  <2>1. gone = {}
    BY <1>6, <1>13
  <2>2. t.active = s.active /\ t.lane = s.lane
    BY <1>9, <1>10, <1>11, <1>13
  <2>3. \A r \in SessionRun : /\ t.runs[r].status = s.runs[r].status
                              /\ t.runs[r].owned = s.runs[r].owned
    BY <1>5, <1>9, <2>1
  <2>4. \A r \in SessionRun : Live(t, r) <=> Live(s, r)
    BY <2>3 DEF Live
  <2>5. \A r \in SessionRun : t.runs[r].owned => Live(s, r)
    BY <1>1, <2>3 DEF Solo
  <2> QED  BY <1>1, <1>7, <2>2, <2>4, <2>5, SoloSame
<1> QED  BY <1>12, <1>13

LEMMA ResumeSolo ==
    ASSUME SessionQueueInv, Solo(session), Resume
    PROVE  SoloStep(session, session')
<1> DEFINE s == session
           u == [s EXCEPT !.lifecycle = "open"]
<1>1. SessionTyped(s) /\ Solo(s) /\ session' = Promote(u)
  BY DEF SessionQueueInv, Kept, Resume
<1>2. u = [queue |-> s.queue, lane |-> s.lane, active |-> s.active,
           lifecycle |-> "open", runs |-> s.runs]
  BY <1>1 DEF SessionTyped
<1> HIDE DEF u
<1>3. /\ SessionTyped(u) /\ u.lane = s.lane /\ u.active = s.active /\ u.runs = s.runs
  BY <1>1, <1>2 DEF SessionTyped
<1>4. Solo(u)
  BY <1>1, <1>3 DEF Solo, Live
<1>5. SoloStep(u, Promote(u))
  BY <1>3, <1>4, PromoteSolo
<1> QED  BY <1>1, <1>3, <1>5 DEF SoloStep, Yields

LEMMA SoloInitially == QueueInit => Solo(session)
<1> SUFFICES ASSUME QueueInit PROVE Solo(session)
  OBVIOUS
<1>1. session.active = NoRun /\ session.lane = <<>>
  BY DEF QueueInit
<1>2. \A r \in SessionRun : ~Live(session, r) /\ ~session.runs[r].owned
  BY DEF QueueInit, Live
<1> QED  BY <1>1, <1>2 DEF Solo

\* The execution of a Run: it stays or settles.
LEMMA ExecutionSolo ==
    ASSUME SessionQueueInv, Solo(session), NEW r \in SessionRun,
           ReleaseRun(r) \/ RunStep(r)
    PROVE  SoloStep(session, session')
<1> DEFINE old == session.runs[r]
           Changed(run) == [session EXCEPT !.runs = [session.runs EXCEPT ![r] = run]]
<1>1. SessionTyped(session)
  BY DEF SessionQueueInv, Kept
<1>2. session.runs \in [SessionRun -> RunRecord] /\ old \in RunRecord
  BY <1>1 DEF SessionTyped
<1>3. old.owned => Live(session, r)
  BY DEF Solo
<1>4. ASSUME NEW run \in RunRecord, session' = Changed(run),
             run.status \in {"queued", "running", "finishing"} <=> Live(session, r),
             run.owned => Live(session, r)
      PROVE  SoloStep(session, session')
  BY <1>1, <1>4, SoloRunChanged
<1>5. CASE ClaimRun(r)
  <2> DEFINE run == [old EXCEPT !.owned = TRUE]
  <2>1. /\ old.status = "running" /\ session' = [session EXCEPT !.runs[r].owned = TRUE]
    BY <1>5 DEF ClaimRun
  <2>2. session' = Changed(run)
    BY <1>1, <1>2, <2>1 DEF SessionTyped
  <2>3. run \in RunRecord /\ run.status = old.status
    BY <1>2 DEF RunRecord
  <2>4. Live(session, r)
    BY <2>1 DEF Live
  <2> HIDE DEF run, Changed
  <2> QED  BY <1>4, <2>1, <2>2, <2>3, <2>4 DEF Live
<1>6. CASE ReleaseRun(r)
  <2> DEFINE run == [old EXCEPT !.owned = FALSE]
  <2>1. session' = [session EXCEPT !.runs[r].owned = FALSE]
    BY <1>6 DEF ReleaseRun
  <2>2. session' = Changed(run)
    BY <1>1, <1>2, <2>1 DEF SessionTyped
  <2>3. run \in RunRecord /\ run.status = old.status /\ ~run.owned
    BY <1>2 DEF RunRecord
  <2> HIDE DEF run, Changed
  <2> QED  BY <1>4, <2>2, <2>3 DEF Live
<1>7. CASE Consume(r)
  <2> DEFINE consumed == old.consumed \cup Elements(old.steering)
             run == [old EXCEPT !.steering = <<>>, !.consumed = consumed]
  <2>1. session' = [session EXCEPT !.runs[r].steering = <<>>,
                                   !.runs[r].consumed = @ \cup Elements(old.steering)]
    BY <1>7 DEF Consume, Elements
  <2>2. session' = Changed(run)
    BY <1>1, <1>2, <2>1 DEF SessionTyped
  <2>3. consumed \in SUBSET Input /\ <<>> \in Seq(Input)
    <3>1. old.steering \in Seq(Input) /\ old.consumed \in SUBSET Input
      BY <1>2 DEF RunRecord
    <3> HIDE DEF old
    <3> QED  BY <3>1 DEF Elements
  <2> HIDE DEF consumed
  <2>4. run \in RunRecord /\ run.status = old.status /\ run.owned = old.owned
    BY <1>2, <2>3 DEF RunRecord
  <2> HIDE DEF run, Changed
  <2> QED  BY <1>3, <1>4, <2>2, <2>4 DEF Live
<1>8. CASE Conclude(r)
  <2> DEFINE run == [old EXCEPT !.status = "finishing", !.owned = FALSE]
  <2>1. /\ old.owned
        /\ session' = [session EXCEPT !.runs[r].status = "finishing", !.runs[r].owned = FALSE]
    BY <1>8 DEF Conclude
  <2>2. session' = Changed(run)
    BY <1>1, <1>2, <2>1 DEF SessionTyped
  <2>3. run \in RunRecord /\ run.status = "finishing" /\ ~run.owned
    BY <1>2 DEF RunRecord
  <2> HIDE DEF run, Changed
  <2> QED  BY <1>3, <1>4, <2>1, <2>2, <2>3
<1>9. CASE SettleRun(r)
  <2>1. Live(session, r) /\ session' = Settled(session, r)
    BY <1>3, <1>9 DEF SettleRun, Live
  <2> QED  BY <1>1, <2>1, SettledSolo
<1> QED  BY <1>5, <1>6, <1>7, <1>8, <1>9 DEF RunStep

LEMMA SoloNext ==
    ASSUME Started = {}, SessionQueueInv, Solo(session), [QueueNext]_queueVars
    PROVE  SoloStep(session, session')
<1>1. CASE UNCHANGED queueVars
  BY <1>1 DEF queueVars, SoloStep, Yields
<1>2. CASE QueueNext
  <2>1. ASSUME NEW i \in Input, Submit(i) \/ Message(i) \/ Remove(i)
        PROVE  SoloStep(session, session')
    <3>1. CASE Submit(i)
      BY <3>1, SubmitSolo DEF Submit
    <3> QED  BY <2>1, <3>1, MessageSolo, RemoveSolo
  <2>2. ASSUME NEW r \in SessionRun,
               Start(r) \/ Activate(r) \/ CancelRun(r) \/ ReleaseRun(r) \/ RunStep(r)
        PROVE  SoloStep(session, session')
    <3>1. ~Start(r)
      BY DEF Start
    <3> QED  BY <2>2, <3>1, ActivateSolo, CancelRunSolo, ExecutionSolo
  <2>3. ASSUME NEW lifecycle \in {"stopped", "closed"}, Halt(lifecycle)
        PROVE  SoloStep(session, session')
    BY <2>3, HaltSolo
  <2>4. CASE Resume
    BY <2>4, ResumeSolo
  <2> QED  BY <1>2, <2>1, <2>2, <2>3, <2>4 DEF QueueNext
<1> QED  BY <1>1, <1>2

\* While all Runs of a Session come from its queue, the active one settles before
\* another takes its place, so that every accepted input is in one place without any
\* further hypothesis: what loses an input is only that Runs are started beside the
\* queue (admission/lanes.ts promoteHead, host-session/queue.ts promote).
THEOREM QueuedInputsAreKept ==
    ASSUME Started = {}
    PROVE  QueueSpec => []InputInOnePlace /\ [][ActiveRunStays]_queueVars
<1> DEFINE I == SessionQueueInv /\ Solo(session)
<1>1. QueueInit => I
  BY SessionQueueInitially, SoloInitially
<1>2. I /\ [QueueNext]_queueVars => [ActiveRunStays]_queueVars
  <2> SUFFICES ASSUME I, [QueueNext]_queueVars PROVE ActiveRunStays
    OBVIOUS
  <2>1. SoloStep(session, session')
    BY SoloNext
  <2> QED  BY <2>1 DEF SoloStep, Yields, ActiveRunStays
<1>3. I /\ [QueueNext]_queueVars => I'
  <2> SUFFICES ASSUME I, [QueueNext]_queueVars PROVE I'
    OBVIOUS
  <2>1. SoloStep(session, session')
    BY SoloNext
  <2>2. Solo(session)'
    BY <2>1 DEF SoloStep, Solo, Live
  <2> QED  BY <1>2, <2>2, SessionQueueStep
<1>4. I => InputInOnePlace
  BY DivisionGivesOnePlace
<1> QED  BY <1>1, <1>2, <1>3, <1>4, PTL DEF QueueSpec

-----------------------------------------------------------------------------
(* What holds whoever is promoted.                                         *)

\* A message that was sent to a Run was sent to no other.
UnreadOnce(s) ==
    \A q, r \in SessionRun :
        Elements(s.runs[q].steering) \cap Elements(s.runs[r].steering) # {} => q = r
Parted(S, A, B, C, D, E) ==
    /\ ((A \cup B) \cup (C \cup D)) \cup E \subseteq S
    /\ A \cap B = {} /\ A \cap C = {} /\ A \cap D = {} /\ A \cap E = {}
    /\ B \cap C = {} /\ B \cap D = {} /\ B \cap E = {}
    /\ C \cap D = {} /\ C \cap E = {} /\ D \cap E = {}

Shaped(s) ==
    /\ SessionTyped(s)
    /\ s.lane \in Seq(SessionRun)
    /\ s.lifecycle \in {"open", "stopped", "closed"}

\* The inputs of S may be lost, but none of them is in two places.
Apart(s, S, R) ==
    /\ Shaped(s)
    /\ NoRepetition(s)
    /\ UnreadOnce(s)
    /\ ReadOnce(s)
    /\ OwnedHaveBegun(s)
    /\ Parted(S, Queued(s), Unread(s), Read(s), Own(s), R)

ApartInv ==
    /\ accepted \subseteq Input
    /\ Apart(session, accepted, removed)

LEMMA ApartSame ==
    ASSUME NEW s, NEW t, NEW S, NEW R, Apart(s, S, R), Shaped(t), SameInputs(s, t)
    PROVE  Apart(t, S, R)
<1>1. Queued(t) = Queued(s) /\ Unread(t) = Unread(s) /\ Read(t) = Read(s)
  BY DEF SameInputs, Queued, Unread, Read
<1>2. Own(t) = Own(s)
  BY DEF SameInputs, Own
<1>3. UnreadOnce(t)
  BY DEF Apart, UnreadOnce, SameInputs
<1>4. NoRepetition(t) /\ ReadOnce(t)
  BY DEF Apart, NoRepetition, ReadOnce, SameInputs
<1>5. OwnedHaveBegun(t)
  BY DEF Apart, OwnedHaveBegun, SameInputs
<1> QED  BY <1>1, <1>2, <1>3, <1>4, <1>5 DEF Apart

\* Some Runs no longer have what they were sent.
LEMMA Emptied ==
    ASSUME NEW s, NEW t, NEW G, UnreadOnce(s),
           \A r \in SessionRun :
                t.runs[r].steering = IF r \in G THEN <<>> ELSE s.runs[r].steering
    PROVE  /\ UnreadOnce(t) /\ Unread(t) \subseteq Unread(s)
           /\ \A r \in SessionRun :
                /\ Elements(s.runs[r].steering) \subseteq Unread(s)
                /\ r \in G => Unread(t) \cap Elements(s.runs[r].steering) = {}
<1>1. Elements(<<>>) = {}
  BY DEF Elements
<1>2. \A r \in SessionRun :
        Elements(t.runs[r].steering) = IF r \in G THEN {} ELSE Elements(s.runs[r].steering)
  BY <1>1
<1>3. UnreadOnce(t)
  BY <1>2 DEF UnreadOnce
<1>4. Unread(t) \subseteq Unread(s)
  BY <1>2 DEF Unread
<1>5. \A r \in SessionRun : Elements(s.runs[r].steering) \subseteq Unread(s)
  BY DEF Unread
<1>6. ASSUME NEW r \in SessionRun, r \in G
      PROVE  Unread(t) \cap Elements(s.runs[r].steering) = {}
  <2> SUFFICES ASSUME NEW q \in SessionRun
               PROVE  Elements(t.runs[q].steering) \cap Elements(s.runs[r].steering) = {}
    BY DEF Unread
  <2>1. CASE q \in G
    BY <1>2, <2>1
  <2>2. CASE q \notin G
    <3>1. q # r
      BY <1>6, <2>2
    <3> QED  BY <1>2, <2>2, <3>1 DEF UnreadOnce
  <2> QED  BY <2>1, <2>2
<1> QED  BY <1>3, <1>4, <1>5, <1>6

\* Runs that settle lose what they have not read, or one of them gives it back.
LEMMA GivenBack ==
    ASSUME NEW s, NEW t, NEW S, NEW R, NEW G, Apart(s, S, R), Shaped(t),
           \A r \in SessionRun :
                /\ t.runs[r].steering = IF r \in G THEN <<>> ELSE s.runs[r].steering
                /\ t.runs[r].consumed = s.runs[r].consumed
                /\ t.runs[r].owned => s.runs[r].owned
                /\ t.runs[r].status = "none" <=> s.runs[r].status = "none",
           \/ t.queue = s.queue
           \/ \E a \in SessionRun : a \in G /\ t.queue = s.runs[a].steering \o s.queue
    PROVE  Apart(t, S, R)
<1>1. /\ UnreadOnce(t) /\ Unread(t) \subseteq Unread(s)
      /\ \A r \in SessionRun :
            /\ Elements(s.runs[r].steering) \subseteq Unread(s)
            /\ r \in G => Unread(t) \cap Elements(s.runs[r].steering) = {}
  BY Emptied DEF Apart
<1>2. Read(t) = Read(s) /\ ReadOnce(t)
  BY DEF Apart, Read, ReadOnce
<1>3. Own(t) = Own(s)
  BY RunsOfInputs DEF Own
<1>4. OwnedHaveBegun(t)
  BY DEF Apart, OwnedHaveBegun
<1>5. Parted(S, Queued(s), Unread(s), Read(s), Own(s), R)
  BY DEF Apart
<1>6. \A r \in SessionRun : Distinct(t.runs[r].steering)
  BY DEF Apart, NoRepetition, Distinct
<1>7. CASE t.queue = s.queue
  <2>1. Queued(t) = Queued(s) /\ NoRepetition(t)
    BY <1>6, <1>7 DEF Queued, Apart, NoRepetition
  <2>2. Parted(S, Queued(t), Unread(t), Read(t), Own(t), R)
    BY <1>1, <1>2, <1>3, <1>5, <2>1 DEF Parted
  <2> QED  BY <1>1, <1>2, <1>4, <2>1, <2>2 DEF Apart
<1>8. ASSUME NEW a \in SessionRun, a \in G, t.queue = s.runs[a].steering \o s.queue
      PROVE  Apart(t, S, R)
  <2> DEFINE m == Elements(s.runs[a].steering)
  <2>1. m \subseteq Unread(s) /\ Unread(t) \cap m = {}
    BY <1>1, <1>8
  <2>2. /\ s.runs[a].steering \in Seq(Input) /\ s.queue \in Seq(Input)
        /\ Distinct(s.runs[a].steering) /\ Distinct(s.queue)
    BY DEF Apart, Shaped, SessionTyped, RunRecord, NoRepetition
  <2>3. m \cap Queued(s) = {}
    BY <1>5, <2>1 DEF Parted
  <2>4. Queued(t) = m \cup Queued(s) /\ Distinct(t.queue)
    <3> DEFINE p == s.runs[a].steering
               q == s.queue
    <3>1. /\ p \in Seq(Input) /\ q \in Seq(Input) /\ Distinct(p) /\ Distinct(q)
          /\ t.queue = p \o q /\ m = Elements(p) /\ m \cap Elements(q) = {}
      BY <1>8, <2>2, <2>3 DEF Queued
    <3>2. Queued(s) = Elements(q)
      BY DEF Queued
    <3> HIDE DEF p, q, m
    <3>3. Elements(p \o q) = m \cup Elements(q) /\ Distinct(p \o q)
      BY <3>1, ConcatElements
    <3> QED  BY <3>1, <3>2, <3>3 DEF Queued
  <2>5. NoRepetition(t)
    BY <1>6, <2>4 DEF NoRepetition
  <2> HIDE DEF m
  <2>6. Parted(S, Queued(t), Unread(t), Read(t), Own(t), R)
    BY <1>1, <1>2, <1>3, <1>5, <2>1, <2>4 DEF Parted
  <2> QED  BY <1>1, <1>2, <1>4, <2>5, <2>6 DEF Apart
<1> QED  BY <1>7, <1>8

\* The lane keeps its type: the places of those that stay are different and at most as
\* many as these, so that each of the new lane is the place of one.
LEMMA WithoutTyped ==
    ASSUME NEW S, NEW lane \in Seq(S), NEW gone
    PROVE  Without(lane, gone) \in Seq(S)
<1> DEFINE kept == {k \in DOMAIN lane : lane[k] \notin gone}
           UpToKept(k) == {j \in kept : j <= k}
           Place(k) == Cardinality(UpToKept(k))
           n == Cardinality(kept)
           f == [k \in kept |-> Place(k)]
           At(i) == lane[CHOOSE k \in kept : Place(k) = i]
<1>1. Without(lane, gone) = [i \in 1 .. n |-> At(i)]
  BY DEF Without
<1>2. kept \subseteq 1 .. Len(lane) /\ Len(lane) \in Nat /\ \A k \in kept : lane[k] \in S
  OBVIOUS
<1> HIDE DEF kept
<1>3. IsFiniteSet(kept) /\ n \in Nat
  <2>1. IsFiniteSet(1 .. Len(lane))
    BY <1>2, FS_Interval
  <2> QED  BY <1>2, <2>1, FS_Subset, FS_CardinalityType
<1>4. \A k \in kept : k \in Nat
  BY <1>2
<1>5. ASSUME NEW k \in kept PROVE Place(k) \in 1 .. n
  <2>1. UpToKept(k) \in SUBSET kept /\ k \in UpToKept(k)
    BY <1>4
  <2> HIDE DEF UpToKept
  <2>2. IsFiniteSet(UpToKept(k)) /\ Place(k) <= n
    BY <1>3, <2>1, FS_Subset
  <2>3. Place(k) \in Nat /\ Place(k) # 0
    BY <2>1, <2>2, FS_CardinalityType, FS_EmptySet
  <2> HIDE DEF Place
  <2> QED  BY <1>3, <2>2, <2>3
<1>6. ASSUME NEW k \in kept, NEW l \in kept, k < l PROVE Place(k) # Place(l)
  <2>1. UpToKept(k) \in SUBSET UpToKept(l) /\ l \in UpToKept(l) /\ l \notin UpToKept(k)
    BY <1>4, <1>6
  <2>2. UpToKept(l) \in SUBSET kept
    OBVIOUS
  <2> HIDE DEF UpToKept
  <2>3. IsFiniteSet(UpToKept(l))
    BY <1>3, <2>2, FS_Subset
  <2> QED  BY <2>1, <2>3, FS_Subset
<1> HIDE DEF Place, UpToKept
<1>7. f \in [kept -> 1 .. n] /\ \A k \in kept : f[k] = Place(k)
  BY <1>5
<1> HIDE DEF f, n
<1>8. ASSUME NEW k \in kept, NEW l \in kept, f[k] = f[l] PROVE k = l
  <2>1. k \in Nat /\ l \in Nat
    BY <1>4
  <2>2. ~(k < l) /\ ~(l < k)
    BY <1>6, <1>7, <1>8
  <2> QED  BY <2>1, <2>2
<1>9. f \in Injection(kept, 1 .. n)
  BY <1>7, <1>8 DEF Injection, IsInjective
<1>10. IsFiniteSet(1 .. n) /\ Cardinality(1 .. n) = n
  BY <1>3, FS_Interval
<1>11. f \in Surjection(kept, 1 .. n)
  BY <1>9, <1>10, FS_Injection DEF n
<1>12. ASSUME NEW i \in 1 .. n PROVE At(i) \in S
  <2>1. PICK k \in kept : f[k] = i
    BY <1>11 DEF Surjection
  <2>2. \E l \in kept : Place(l) = i
    BY <1>7, <2>1
  <2>3. (CHOOSE l \in kept : Place(l) = i) \in kept
    BY <2>2
  <2> QED  BY <1>2, <2>3
<1> HIDE DEF At
<1>13. [i \in 1 .. n |-> At(i)] \in [1 .. n -> S]
  BY <1>12
<1> QED  BY <1>1, <1>3, <1>13

-----------------------------------------------------------------------------
(* The transitions of the store move an input, or lose it.                 *)

LEMMA PromoteHeadApart ==
    ASSUME NEW s, NEW S, NEW R, Apart(s, S, R)
    PROVE  Apart(PromoteHead(s), S, R)
<1>1. /\ SessionTyped(PromoteHead(s)) /\ SameInputs(s, PromoteHead(s))
      /\ PromoteHead(s).lane = s.lane /\ PromoteHead(s).lifecycle = s.lifecycle
  BY PromoteHeadSame DEF Apart, Shaped
<1>2. Shaped(PromoteHead(s))
  BY <1>1 DEF Apart, Shaped
<1> QED  BY <1>1, <1>2, ApartSame

LEMMA AdmitRunApart ==
    ASSUME NEW s, NEW S, NEW R, Apart(s, S, R), NEW r \in Started,
           s.runs[r].status = "none", NEW activate \in BOOLEAN
    PROVE  Apart(AdmitRun(s, r, activate), S, R)
<1> DEFINE t == InLane(s, r)
<1>1. r \in SessionRun /\ r \notin Input
  BY SessionQueueAssumption DEF SessionRun
<1>2. /\ SessionTyped(t) /\ t.queue = s.queue /\ t.active = s.active
      /\ t.lane = Append(s.lane, r) /\ t.lifecycle = s.lifecycle
      /\ t.runs[r].status = "queued"
      /\ \A q \in SessionRun :
            /\ t.runs[q].steering = s.runs[q].steering
            /\ t.runs[q].consumed = s.runs[q].consumed
            /\ t.runs[q].owned = s.runs[q].owned
            /\ q # r => t.runs[q].status = s.runs[q].status
  BY <1>1, InLaneSame DEF Apart, Shaped, OwnedHaveBegun
<1>3. AdmitRun(s, r, activate) = IF activate /\ s.lane = <<>> THEN PromoteHead(t) ELSE t
  BY DEF AdmitRun, InLane
<1> HIDE DEF t
<1>4. SameInputs(s, t)
  BY <1>1, <1>2, RunsOfInputs DEF SameInputs
<1>5. Shaped(t)
  <2>1. s.lane \in Seq(SessionRun) /\ s.lifecycle \in {"open", "stopped", "closed"}
    BY DEF Apart, Shaped
  <2>2. Append(s.lane, r) \in Seq(SessionRun)
    BY <1>1, <2>1
  <2> QED  BY <1>2, <2>1, <2>2 DEF Shaped
<1>6. Apart(t, S, R)
  BY <1>4, <1>5, ApartSame
<1> QED  BY <1>3, <1>6, PromoteHeadApart

LEMMA PromoteApart ==
    ASSUME NEW s, NEW S, NEW R, Apart(s, S, R)
    PROVE  Apart(Promote(s), S, R)
<1>1. CASE ~(s.lifecycle = "open" /\ s.queue # <<>> /\ s.active = NoRun /\ s.lane = <<>>)
  BY <1>1 DEF Promote
<1>2. CASE s.lifecycle = "open" /\ s.queue # <<>> /\ s.active = NoRun /\ s.lane = <<>>
  <2> DEFINE q == Tail(s.queue)
             u == [s EXCEPT !.queue = q]
             h == Head(s.queue)
             v == InLane(u, h)
             p == PromoteHead(v)
             t == [p EXCEPT !.active = h]
  <2>1. SessionTyped(s) /\ s.queue \in Seq(Input) /\ Distinct(s.queue)
    BY DEF Apart, Shaped, SessionTyped, NoRepetition
  <2>2. /\ h \in Input /\ q \in Seq(Input) /\ Elements(s.queue) = Elements(q) \cup {h}
        /\ Distinct(q) /\ h \notin Elements(q)
    BY <1>2, <2>1, TailElements
  <2>3. Promote(s) = t
    <3>1. AdmitRun(u, h, TRUE) = IF u.lane = <<>> THEN p ELSE v
      BY DEF AdmitRun, InLane
    <3>2. u.lane = <<>>
      BY <1>2, <2>1 DEF SessionTyped
    <3>3. Promote(s) = [AdmitRun(u, h, TRUE) EXCEPT !.active = h]
      BY <1>2 DEF Promote
    <3> QED  BY <3>1, <3>2, <3>3
  <2> HIDE DEF q, h
  <2>4. h \in SessionRun
    BY <2>2, RunsOfInputs
  <2>5. u = [queue |-> q, lane |-> s.lane, active |-> s.active,
             lifecycle |-> s.lifecycle, runs |-> s.runs]
    BY <2>1 DEF SessionTyped
  <2> HIDE DEF u
  <2>6. /\ SessionTyped(u) /\ u.runs = s.runs /\ u.queue = q
        /\ u.lane = <<>> /\ u.lifecycle = "open"
    BY <1>2, <2>1, <2>2, <2>5 DEF SessionTyped
  <2>7. /\ SessionTyped(v) /\ v.queue = q /\ v.lane = Append(<<>>, h)
        /\ v.lifecycle = "open" /\ v.runs[h].status = "queued"
        /\ \A r \in SessionRun :
              /\ v.runs[r].steering = s.runs[r].steering
              /\ v.runs[r].consumed = s.runs[r].consumed
              /\ v.runs[r].owned = s.runs[r].owned
              /\ r # h => v.runs[r].status = s.runs[r].status
    <3>1. u.runs[h].owned => u.runs[h].status # "none"
      BY <2>4, <2>6 DEF Apart, OwnedHaveBegun
    <3> QED  BY <2>4, <2>6, <3>1, InLaneSame
  <2> HIDE DEF v
  <2>8. /\ SessionTyped(p) /\ SameInputs(v, p) /\ p.lane = v.lane
        /\ p.lifecycle = v.lifecycle
    BY <2>7, PromoteHeadSame
  <2> HIDE DEF p
  <2>9. t = [queue |-> p.queue, lane |-> p.lane, active |-> h,
             lifecycle |-> p.lifecycle, runs |-> p.runs]
    BY <2>8 DEF SessionTyped
  <2> HIDE DEF t
  <2>10. /\ SessionTyped(t) /\ t.queue = q /\ t.lane = Append(<<>>, h)
         /\ t.lifecycle = "open" /\ t.runs = p.runs
    BY <2>4, <2>7, <2>8, <2>9 DEF SessionTyped, SameInputs
  <2>11. Shaped(t)
    <3>1. Append(<<>>, h) \in Seq(SessionRun)
      BY <2>4
    <3> QED  BY <2>10, <3>1 DEF Shaped
  <2>12. \A r \in SessionRun :
           /\ t.runs[r].steering = s.runs[r].steering
           /\ t.runs[r].consumed = s.runs[r].consumed
           /\ t.runs[r].owned => s.runs[r].owned \/ v.runs[r].status # "none"
           /\ t.runs[r].status = "none" => v.runs[r].status = "none"
    BY <2>7, <2>8, <2>10 DEF SameInputs
  <2>13. Own(t) = Own(s) \cup {h}
    <3>1. Own(p) = Own(v)
      BY <2>8 DEF Own, SameInputs
    <3>2. Own(v) = Own(s) \cup {h}
      BY <2>2, <2>7, RunsOfInputs DEF Own
    <3>3. Own(t) = Own(p)
      BY <2>10 DEF Own
    <3> QED  BY <3>1, <3>2, <3>3
  <2>14. /\ Queued(s) = Queued(t) \cup {h} /\ h \notin Queued(t)
         /\ Read(t) = Read(s) /\ Unread(t) = Unread(s)
    BY <2>2, <2>10, <2>12 DEF Queued, Read, Unread
  <2>15. Parted(S, Queued(t), Unread(t), Read(t), Own(t), R)
    <3>1. Parted(S, Queued(s), Unread(s), Read(s), Own(s), R)
      BY DEF Apart
    <3> QED  BY <2>13, <2>14, <3>1 DEF Parted
  <2>16. NoRepetition(t) /\ UnreadOnce(t) /\ ReadOnce(t)
    BY <2>2, <2>10, <2>12 DEF Apart, NoRepetition, UnreadOnce, ReadOnce
  <2>17. OwnedHaveBegun(t)
    <3> SUFFICES ASSUME NEW r \in SessionRun, t.runs[r].owned, t.runs[r].status = "none"
                 PROVE  FALSE
      BY DEF OwnedHaveBegun
    <3>1. v.runs[r].status = "none" /\ r # h
      BY <2>7, <2>12
    <3>2. s.runs[r].owned /\ s.runs[r].status = "none"
      BY <2>7, <2>12, <3>1
    <3> QED  BY <3>2 DEF Apart, OwnedHaveBegun
  <2> QED  BY <2>3, <2>11, <2>15, <2>16, <2>17 DEF Apart
<1> QED  BY <1>1, <1>2

LEMMA FreedApart ==
    ASSUME NEW s, NEW S, NEW R, Apart(s, S, R), NEW r \in SessionRun,
           s.runs[r].status # "none"
    PROVE  Apart(Freed(s, r), S, R)
<1> DEFINE t == Freed(s, r)
           G == {r}
<1>1. /\ s.runs \in [SessionRun -> RunRecord] /\ s.runs[r] \in RunRecord
      /\ s.lane \in Seq(SessionRun) /\ s.lifecycle \in {"open", "stopped", "closed"}
  BY DEF Apart, Shaped, SessionTyped
<1>2. /\ SessionTyped(t)
      /\ t.active = IF s.active = r THEN NoRun ELSE s.active
      /\ t.queue = IF s.active = r THEN s.runs[r].steering \o s.queue ELSE s.queue
      /\ t.lane = Without(s.lane, {r}) /\ t.lifecycle = s.lifecycle
      /\ t.runs = [s.runs EXCEPT ![r] = Ended(s.runs[r])]
  BY FreedFields DEF Apart, Shaped
<1> SUFFICES Apart(t, S, R)
  OBVIOUS
<1> HIDE DEF t
<1>3. Shaped(t)
  BY <1>1, <1>2, WithoutTyped DEF Shaped
<1>4. \A q \in SessionRun :
        /\ t.runs[q].steering = IF q \in G THEN <<>> ELSE s.runs[q].steering
        /\ t.runs[q].consumed = s.runs[q].consumed
        /\ t.runs[q].owned => s.runs[q].owned
        /\ t.runs[q].status = "none" <=> s.runs[q].status = "none"
  <2>1. /\ t.runs[r].steering = <<>> /\ t.runs[r].consumed = s.runs[r].consumed
        /\ ~t.runs[r].owned /\ t.runs[r].status = "ended"
    BY <1>1, <1>2, EndedTyped
  <2>2. \A q \in SessionRun : q # r => t.runs[q] = s.runs[q]
    BY <1>1, <1>2
  <2> QED  BY <2>1, <2>2
<1>5. \/ t.queue = s.queue
      \/ \E a \in SessionRun : a \in G /\ t.queue = s.runs[a].steering \o s.queue
  BY <1>2
<1> HIDE DEF G
<1> QED  BY <1>3, <1>4, <1>5, GivenBack

LEMMA SettledApart ==
    ASSUME NEW s, NEW S, NEW R, Apart(s, S, R), NEW r \in SessionRun,
           s.runs[r].status # "none"
    PROVE  Apart(Settled(s, r), S, R)
<1>1. Settled(s, r) = Promote(PromoteHead(Freed(s, r)))
  BY DEF Settled, Freed
<1>2. Apart(Freed(s, r), S, R)
  BY FreedApart
<1>3. Apart(PromoteHead(Freed(s, r)), S, R)
  BY <1>2, PromoteHeadApart
<1> QED  BY <1>1, <1>3, PromoteApart

-----------------------------------------------------------------------------
\* A change of one Run that moves no input.
LEMMA RunApart ==
    ASSUME NEW s, NEW S, NEW R, Apart(s, S, R), NEW r \in SessionRun,
           NEW run \in RunRecord,
           run.steering = s.runs[r].steering, run.consumed = s.runs[r].consumed,
           run.status = "ended" => s.runs[r].status = "ended",
           run.owned => s.runs[r].owned \/ s.runs[r].status # "none",
           run.status = "none" <=> s.runs[r].status = "none"
    PROVE  Apart([s EXCEPT !.runs = [s.runs EXCEPT ![r] = run]], S, R)
<1> DEFINE t == [s EXCEPT !.runs = [s.runs EXCEPT ![r] = run]]
<1>1. /\ SessionTyped(t) /\ t.queue = s.queue /\ t.active = s.active
      /\ t.lane = s.lane /\ t.lifecycle = s.lifecycle
      /\ t.runs = [s.runs EXCEPT ![r] = run]
      /\ t.runs[r] = run
      /\ \A q \in SessionRun : q # r => t.runs[q] = s.runs[q]
  BY RunChanged DEF Apart, Shaped
<1> SUFFICES Apart(t, S, R)
  OBVIOUS
<1> HIDE DEF t
<1>2. SameInputs(s, t)
  BY <1>1, RunsOfInputs DEF SameInputs
<1>3. Shaped(t)
  BY <1>1 DEF Apart, Shaped
<1> QED  BY <1>2, <1>3, ApartSame

LEMMA EnqueueApart ==
    ASSUME NEW s, NEW S, NEW R, Apart(s, S, R), NEW i \in Input, i \notin S
    PROVE  Apart([s EXCEPT !.queue = Append(@, i)], S \cup {i}, R)
<1> DEFINE q == Append(s.queue, i)
           t == [s EXCEPT !.queue = q]
<1>1. Parted(S, Queued(s), Unread(s), Read(s), Own(s), R) /\ i \notin Queued(s)
  BY DEF Apart, Parted
<1>2. q \in Seq(Input) /\ Elements(q) = Queued(s) \cup {i} /\ Distinct(q)
  <2>1. s.queue \in Seq(Input) /\ Distinct(s.queue) /\ i \notin Elements(s.queue)
    BY <1>1 DEF Apart, Shaped, SessionTyped, NoRepetition, Queued
  <2> QED  BY <2>1, AppendElements DEF Queued
<1> SUFFICES Apart(t, S \cup {i}, R)
  OBVIOUS
<1> HIDE DEF q
<1>3. t = [queue |-> q, lane |-> s.lane, active |-> s.active,
           lifecycle |-> s.lifecycle, runs |-> s.runs]
  BY DEF Apart, Shaped, SessionTyped
<1> HIDE DEF t
<1>4. Shaped(t) /\ t.queue = q /\ t.runs = s.runs
  BY <1>2, <1>3 DEF Apart, Shaped, SessionTyped
<1>5. /\ Queued(t) = Queued(s) \cup {i} /\ Unread(t) = Unread(s)
      /\ Read(t) = Read(s) /\ Own(t) = Own(s)
  BY <1>2, <1>4 DEF Queued, Unread, Read, Own
<1>6. Parted(S \cup {i}, Queued(t), Unread(t), Read(t), Own(t), R)
  BY <1>1, <1>5 DEF Parted
<1>7. NoRepetition(t) /\ UnreadOnce(t) /\ ReadOnce(t) /\ OwnedHaveBegun(t)
  BY <1>2, <1>4 DEF Apart, NoRepetition, UnreadOnce, ReadOnce, OwnedHaveBegun
<1> QED  BY <1>4, <1>6, <1>7 DEF Apart

\* A message for a Run.
LEMMA SteerApart ==
    ASSUME NEW s, NEW S, NEW R, Apart(s, S, R), NEW i \in Input, i \notin S,
           NEW a \in SessionRun
    PROVE  Apart([s EXCEPT !.runs[a].steering = Append(@, i)], S \cup {i}, R)
<1> DEFINE q == Append(s.runs[a].steering, i)
           run == [s.runs[a] EXCEPT !.steering = q]
           t == [s EXCEPT !.runs = [s.runs EXCEPT ![a] = run]]
<1>1. s.runs \in [SessionRun -> RunRecord] /\ s.runs[a] \in RunRecord
  BY DEF Apart, Shaped, SessionTyped
<1>2. Parted(S, Queued(s), Unread(s), Read(s), Own(s), R) /\ i \notin Unread(s)
  BY DEF Apart, Parted
<1>3. q \in Seq(Input) /\ Elements(q) = Elements(s.runs[a].steering) \cup {i} /\ Distinct(q)
  <2>1. /\ s.runs[a].steering \in Seq(Input) /\ Distinct(s.runs[a].steering)
        /\ i \notin Elements(s.runs[a].steering)
    BY <1>1, <1>2 DEF Apart, NoRepetition, RunRecord, Unread
  <2> QED  BY <2>1, AppendElements
<1>4. [s EXCEPT !.runs[a].steering = Append(@, i)] = t
  BY <1>1 DEF Apart, Shaped, SessionTyped
<1> HIDE DEF q
<1>5. /\ run \in RunRecord /\ run.steering = q /\ run.status = s.runs[a].status
      /\ run.owned = s.runs[a].owned /\ run.consumed = s.runs[a].consumed
  BY <1>1, <1>3 DEF RunRecord
<1> SUFFICES Apart(t, S \cup {i}, R)
  BY <1>4
<1> HIDE DEF run
<1>6. /\ SessionTyped(t) /\ t.queue = s.queue /\ t.active = s.active
      /\ t.lane = s.lane /\ t.lifecycle = s.lifecycle
      /\ t.runs = [s.runs EXCEPT ![a] = run]
      /\ t.runs[a] = run
      /\ \A r \in SessionRun : r # a => t.runs[r] = s.runs[r]
  BY <1>5, RunChanged DEF Apart, Shaped
<1> HIDE DEF t
<1>7. Shaped(t)
  BY <1>6 DEF Apart, Shaped
<1>8. /\ Elements(t.runs[a].steering) = Elements(s.runs[a].steering) \cup {i}
      /\ \A r \in SessionRun : r # a =>
            Elements(t.runs[r].steering) = Elements(s.runs[r].steering)
  BY <1>3, <1>5, <1>6
<1>9. Unread(t) = Unread(s) \cup {i}
  <2>1. Unread(t) \subseteq Unread(s) \cup {i}
    BY <1>8 DEF Unread
  <2>2. Unread(s) \subseteq Unread(t)
    <3>1. \A r \in SessionRun : Elements(s.runs[r].steering) \subseteq Elements(t.runs[r].steering)
      BY <1>8
    <3> QED  BY <3>1 DEF Unread
  <2>3. i \in Unread(t)
    BY <1>8 DEF Unread
  <2> QED  BY <2>1, <2>2, <2>3
<1>10. UnreadOnce(t)
  <2>1. \A r \in SessionRun : i \notin Elements(s.runs[r].steering)
    BY <1>2 DEF Unread
  <2>2. \A p, r \in SessionRun :
            Elements(s.runs[p].steering) \cap Elements(s.runs[r].steering) # {} => p = r
    BY DEF Apart, UnreadOnce
  <2>3. \A r \in SessionRun : r # a =>
            Elements(t.runs[a].steering) \cap Elements(t.runs[r].steering) = {}
    BY <1>8, <2>1, <2>2
  <2> SUFFICES ASSUME NEW p \in SessionRun, NEW r \in SessionRun, p # r
               PROVE  Elements(t.runs[p].steering) \cap Elements(t.runs[r].steering) = {}
    BY DEF UnreadOnce
  <2>4. CASE p = a
    BY <2>3, <2>4
  <2>5. CASE r = a
    BY <2>3, <2>5
  <2>6. CASE p # a /\ r # a
    BY <1>8, <2>2, <2>6
  <2> QED  BY <2>4, <2>5, <2>6
<1>11. /\ Queued(t) = Queued(s) /\ Read(t) = Read(s) /\ Own(t) = Own(s)
       /\ ReadOnce(t) /\ OwnedHaveBegun(t)
  <2>1. \A r \in SessionRun : /\ t.runs[r].consumed = s.runs[r].consumed
                              /\ t.runs[r].status = s.runs[r].status
                              /\ t.runs[r].owned = s.runs[r].owned
    BY <1>5, <1>6
  <2>2. Queued(t) = Queued(s) /\ Read(t) = Read(s) /\ Own(t) = Own(s)
    BY <1>6, <2>1, RunsOfInputs DEF Queued, Read, Own
  <2> QED  BY <2>1, <2>2 DEF Apart, ReadOnce, OwnedHaveBegun
<1>12. Parted(S \cup {i}, Queued(t), Unread(t), Read(t), Own(t), R)
  BY <1>2, <1>9, <1>11 DEF Parted
<1>13. NoRepetition(t)
  BY <1>3, <1>5, <1>6 DEF Apart, NoRepetition
<1> QED  BY <1>7, <1>10, <1>11, <1>12, <1>13 DEF Apart

\* The next turn takes what a Run has not read.
LEMMA ConsumeApart ==
    ASSUME NEW s, NEW S, NEW R, Apart(s, S, R), NEW r \in SessionRun,
           NEW run \in RunRecord, run.steering = <<>>,
           run.consumed = s.runs[r].consumed \cup Elements(s.runs[r].steering),
           run.status = s.runs[r].status, run.owned = s.runs[r].owned
    PROVE  Apart([s EXCEPT !.runs = [s.runs EXCEPT ![r] = run]], S, R)
<1> DEFINE t == [s EXCEPT !.runs = [s.runs EXCEPT ![r] = run]]
           m == Elements(s.runs[r].steering)
<1>1. /\ SessionTyped(t) /\ t.queue = s.queue /\ t.active = s.active
      /\ t.lane = s.lane /\ t.lifecycle = s.lifecycle
      /\ t.runs = [s.runs EXCEPT ![r] = run]
      /\ t.runs[r] = run
      /\ \A q \in SessionRun : q # r => t.runs[q] = s.runs[q]
  BY RunChanged DEF Apart, Shaped
<1> SUFFICES Apart(t, S, R)
  OBVIOUS
<1> HIDE DEF t
<1>2. Shaped(t)
  BY <1>1 DEF Apart, Shaped
<1>3. /\ UnreadOnce(t) /\ Unread(t) \subseteq Unread(s)
      /\ \A q \in SessionRun :
            /\ Elements(s.runs[q].steering) \subseteq Unread(s)
            /\ q \in {r} => Unread(t) \cap Elements(s.runs[q].steering) = {}
  <2>1. \A q \in SessionRun :
            t.runs[q].steering = IF q \in {r} THEN <<>> ELSE s.runs[q].steering
    BY <1>1
  <2> QED  BY <2>1, Emptied DEF Apart
<1>4. m \subseteq Unread(s) /\ Unread(t) \cap m = {}
  BY <1>3
<1>5. Parted(S, Queued(s), Unread(s), Read(s), Own(s), R)
  BY DEF Apart
<1>6. t.runs[r].consumed = s.runs[r].consumed \cup m
  BY <1>1
<1> HIDE DEF m
<1>7. \A q \in SessionRun : q # r => t.runs[q].consumed = s.runs[q].consumed
  BY <1>1
<1>8. Read(t) = Read(s) \cup m
  <2>1. Read(t) \subseteq Read(s) \cup m
    BY <1>6, <1>7 DEF Read
  <2>2. Read(s) \subseteq Read(t)
    <3>1. \A q \in SessionRun : s.runs[q].consumed \subseteq t.runs[q].consumed
      BY <1>6, <1>7
    <3> QED  BY <3>1 DEF Read
  <2>3. m \subseteq Read(t)
    BY <1>6 DEF Read
  <2> QED  BY <2>1, <2>2, <2>3
<1>9. Queued(t) = Queued(s) /\ Own(t) = Own(s) /\ OwnedHaveBegun(t)
  <2>1. \A q \in SessionRun : /\ t.runs[q].status = s.runs[q].status
                              /\ t.runs[q].owned = s.runs[q].owned
    BY <1>1
  <2> QED  BY <1>1, <2>1, RunsOfInputs DEF Queued, Own, Apart, OwnedHaveBegun
<1>10. Parted(S, Queued(t), Unread(t), Read(t), Own(t), R)
  BY <1>3, <1>4, <1>5, <1>8, <1>9 DEF Parted
<1>11. NoRepetition(t)
  BY <1>1 DEF Apart, NoRepetition, Distinct
<1>12. ReadOnce(t)
  <2>1. m \cap Read(s) = {}
    BY <1>4, <1>5 DEF Parted
  <2>2. \A q \in SessionRun : s.runs[q].consumed \subseteq Read(s)
    BY DEF Read
  <2>3. \A p, q \in SessionRun : s.runs[p].consumed \cap s.runs[q].consumed # {} => p = q
    BY DEF Apart, ReadOnce
  <2>4. \A q \in SessionRun : q # r => t.runs[r].consumed \cap t.runs[q].consumed = {}
    BY <1>6, <1>7, <2>1, <2>2, <2>3
  <2> SUFFICES ASSUME NEW p \in SessionRun, NEW q \in SessionRun, p # q
               PROVE  t.runs[p].consumed \cap t.runs[q].consumed = {}
    BY DEF ReadOnce
  <2>5. CASE p = r
    BY <2>4, <2>5
  <2>6. CASE q = r
    BY <2>4, <2>6
  <2>7. CASE p # r /\ q # r
    BY <1>7, <2>3, <2>7
  <2> QED  BY <2>5, <2>6, <2>7
<1> QED  BY <1>2, <1>3, <1>9, <1>10, <1>11, <1>12 DEF Apart

LEMMA RemoveApart ==
    ASSUME NEW s, NEW S, NEW R, Apart(s, S, R), NEW k \in DOMAIN s.queue
    PROVE  Apart([s EXCEPT !.queue = SubSeq(@, 1, k - 1) \o SubSeq(@, k + 1, Len(@))],
                 S, R \cup {s.queue[k]})
<1> DEFINE q == SubSeq(s.queue, 1, k - 1) \o SubSeq(s.queue, k + 1, Len(s.queue))
           i == s.queue[k]
           t == [s EXCEPT !.queue = q]
<1>1. /\ q \in Seq(Input) /\ Elements(s.queue) = Elements(q) \cup {i}
      /\ Distinct(q) /\ i \notin Elements(q)
  <2>1. s.queue \in Seq(Input) /\ Distinct(s.queue)
    BY DEF Apart, Shaped, SessionTyped, NoRepetition
  <2> QED  BY <2>1, RemovedElements
<1> SUFFICES Apart(t, S, R \cup {i})
  OBVIOUS
<1> HIDE DEF q, i
<1>2. t = [queue |-> q, lane |-> s.lane, active |-> s.active,
           lifecycle |-> s.lifecycle, runs |-> s.runs]
  BY DEF Apart, Shaped, SessionTyped
<1> HIDE DEF t
<1>3. Shaped(t) /\ t.queue = q /\ t.runs = s.runs
  BY <1>1, <1>2 DEF Apart, Shaped, SessionTyped
<1>4. /\ Queued(s) = Queued(t) \cup {i} /\ i \notin Queued(t)
      /\ Unread(t) = Unread(s) /\ Read(t) = Read(s) /\ Own(t) = Own(s)
  BY <1>1, <1>3 DEF Queued, Unread, Read, Own
<1>5. Parted(S, Queued(t), Unread(t), Read(t), Own(t), R \cup {i})
  <2>1. Parted(S, Queued(s), Unread(s), Read(s), Own(s), R)
    BY DEF Apart
  <2> QED  BY <1>4, <2>1 DEF Parted
<1>6. NoRepetition(t) /\ UnreadOnce(t) /\ ReadOnce(t) /\ OwnedHaveBegun(t)
  BY <1>1, <1>3 DEF Apart, NoRepetition, UnreadOnce, ReadOnce, OwnedHaveBegun
<1> QED  BY <1>3, <1>5, <1>6 DEF Apart

LEMMA LifecycleApart ==
    ASSUME NEW s, NEW S, NEW R, Apart(s, S, R),
           NEW lifecycle \in {"open", "stopped", "closed"}
    PROVE  Apart([s EXCEPT !.lifecycle = lifecycle], S, R)
<1> DEFINE t == [s EXCEPT !.lifecycle = lifecycle]
<1>1. t = [queue |-> s.queue, lane |-> s.lane, active |-> s.active,
           lifecycle |-> lifecycle, runs |-> s.runs]
  BY DEF Apart, Shaped, SessionTyped
<1> SUFFICES Apart(t, S, R)
  OBVIOUS
<1> HIDE DEF t
<1>2. Shaped(t) /\ SameInputs(s, t)
  BY <1>1 DEF Apart, Shaped, SessionTyped, SameInputs
<1> QED  BY <1>2, ApartSame

-----------------------------------------------------------------------------
(* The actions.                                                            *)

LEMMA MessageApart ==
    ASSUME ApartInv, NEW i \in Input, Message(i)
    PROVE  ApartInv'
<1> DEFINE u == [session EXCEPT !.queue = Append(@, i)]
           a == session.active
           t == [session EXCEPT !.runs[a].steering = Append(@, i)]
           steerable == /\ session.lifecycle = "open" /\ a # NoRun
                        /\ session.runs[a].status \in {"queued", "running"}
                        /\ ~session.runs[a].cancelled
<1>1. /\ i \notin accepted /\ accepted' = accepted \cup {i} /\ removed' = removed
      /\ session' = IF steerable THEN t ELSE Promote(u)
  BY DEF Message
<1>2. Apart(session, accepted, removed) /\ accepted \subseteq Input
  BY DEF ApartInv
<1>3. CASE steerable
  <2>1. a \in SessionRun
    BY <1>2, <1>3 DEF Apart, Shaped, SessionTyped
  <2> HIDE DEF a
  <2>2. Apart(t, accepted \cup {i}, removed)
    BY <1>1, <1>2, <2>1, SteerApart
  <2>3. session' = t
    BY <1>1, <1>3
  <2> HIDE DEF t
  <2>4. Apart(session', accepted', removed')
    BY <1>1, <2>2, <2>3
  <2> QED  BY <1>1, <1>2, <2>4 DEF ApartInv
<1>4. CASE ~steerable
  <2>1. Apart(u, accepted \cup {i}, removed)
    BY <1>1, <1>2, EnqueueApart
  <2>2. session' = Promote(u)
    BY <1>1, <1>4
  <2> HIDE DEF u
  <2>3. Apart(Promote(u), accepted \cup {i}, removed)
    BY <2>1, PromoteApart
  <2> HIDE DEF t
  <2>4. Apart(session', accepted', removed')
    BY <1>1, <2>2, <2>3
  <2> QED  BY <1>1, <1>2, <2>4 DEF ApartInv
<1> QED  BY <1>3, <1>4

LEMMA SubmitApart ==
    ASSUME ApartInv, NEW i \in Input, Submit(i)
    PROVE  ApartInv'
<1> DEFINE u == [session EXCEPT !.queue = Append(@, i)]
<1>1. /\ i \notin accepted /\ accepted' = accepted \cup {i} /\ session' = Promote(u)
      /\ removed' = removed
  BY DEF Submit
<1>2. Apart(u, accepted \cup {i}, removed)
  BY <1>1, EnqueueApart DEF ApartInv
<1> HIDE DEF u
<1>3. Apart(Promote(u), accepted \cup {i}, removed)
  BY <1>2, PromoteApart
<1>4. Apart(session', accepted', removed')
  BY <1>1, <1>3
<1> QED  BY <1>1, <1>4 DEF ApartInv

LEMMA RemoveInputApart ==
    ASSUME ApartInv, NEW i \in Input, Remove(i)
    PROVE  ApartInv'
<1>1. PICK k \in Positions(session.queue, i) :
        session' = [session EXCEPT !.queue = SubSeq(@, 1, k - 1) \o SubSeq(@, k + 1, Len(@))]
  BY DEF Remove
<1>2. /\ k \in DOMAIN session.queue /\ session.queue[k] = i
      /\ removed' = removed \cup {i} /\ accepted' = accepted
  BY <1>1 DEF Positions, Remove
<1>3. Apart(session', accepted, removed \cup {session.queue[k]})
  BY <1>1, <1>2, RemoveApart DEF ApartInv
<1>4. Apart(session', accepted', removed')
  BY <1>2, <1>3
<1> QED  BY <1>2, <1>4 DEF ApartInv

LEMMA StartApart ==
    ASSUME ApartInv, NEW r \in SessionRun, Start(r)
    PROVE  ApartInv'
<1>1. /\ r \in Started /\ session.runs[r].status = "none"
      /\ session' = AdmitRun(session, r, r \notin Prepared)
      /\ accepted' = accepted /\ removed' = removed
  BY DEF Start
<1>2. Apart(AdmitRun(session, r, r \notin Prepared), accepted, removed)
  BY <1>1, AdmitRunApart DEF ApartInv
<1>3. Apart(session', accepted', removed')
  BY <1>1, <1>2
<1> QED  BY <1>1, <1>3 DEF ApartInv

LEMMA ActivateApart ==
    ASSUME ApartInv, NEW r \in SessionRun, Activate(r)
    PROVE  ApartInv'
<1> DEFINE t == Begun(session, r)
<1>1. /\ session.runs[r].status = "queued" /\ session' = t
      /\ accepted' = accepted /\ removed' = removed
  BY DEF Activate, Begun
<1>2. Apart(session, accepted, removed)
  BY DEF ApartInv
<1>3. SessionTyped(t) /\ SameInputs(session, t)
  BY <1>1, <1>2, BegunSame DEF Apart, Shaped
<1>4. t.lane = session.lane /\ t.lifecycle = session.lifecycle
  BY <1>1, <1>2, BegunDoes DEF Apart, Shaped
<1> HIDE DEF t
<1>5. Shaped(t)
  BY <1>2, <1>3, <1>4 DEF Apart, Shaped
<1>6. Apart(t, accepted, removed)
  BY <1>2, <1>3, <1>5, ApartSame
<1>7. Apart(session', accepted', removed')
  BY <1>1, <1>6
<1> QED  BY <1>1, <1>7 DEF ApartInv

LEMMA CancelRunApart ==
    ASSUME ApartInv, NEW r \in SessionRun, CancelRun(r)
    PROVE  ApartInv'
<1> DEFINE run == [session.runs[r] EXCEPT !.cancelled = TRUE]
           t == [session EXCEPT !.runs = [session.runs EXCEPT ![r] = run]]
<1>1. /\ Live(session, r) /\ accepted' = accepted /\ removed' = removed
      /\ session' = Cancelled(session, r)
  BY DEF CancelRun
<1>2. Apart(session, accepted, removed)
  BY DEF ApartInv
<1>3. session.runs \in [SessionRun -> RunRecord] /\ session.runs[r] \in RunRecord
  BY <1>2 DEF Apart, Shaped, SessionTyped
<1>4. /\ run \in RunRecord /\ run.steering = session.runs[r].steering
      /\ run.consumed = session.runs[r].consumed /\ run.status = session.runs[r].status
      /\ run.owned = session.runs[r].owned
  BY <1>3 DEF RunRecord
<1>5. [session EXCEPT !.runs[r].cancelled = TRUE] = t
  BY <1>2, <1>3 DEF Apart, Shaped, SessionTyped
<1>6. session' = IF Busy(session, r) THEN t ELSE Settled(t, r)
  BY <1>1, <1>5 DEF Cancelled
<1> HIDE DEF run
<1>7. Apart(t, accepted, removed)
  BY <1>2, <1>4, RunApart
<1>8. t.runs[r].status # "none"
  <2>1. t.runs[r] = run
    BY <1>2, <1>3 DEF Apart, Shaped, SessionTyped
  <2> HIDE DEF t
  <2> QED  BY <1>1, <1>4, <2>1 DEF Live
<1> HIDE DEF t
<1>9. Apart(Settled(t, r), accepted, removed)
  BY <1>7, <1>8, SettledApart
<1>10. Apart(session', accepted', removed')
  BY <1>1, <1>6, <1>7, <1>9
<1> QED  BY <1>1, <1>10 DEF ApartInv

LEMMA ResumeApart ==
    ASSUME ApartInv, Resume
    PROVE  ApartInv'
<1> DEFINE u == [session EXCEPT !.lifecycle = "open"]
<1>1. session' = Promote(u) /\ accepted' = accepted /\ removed' = removed
  BY DEF Resume
<1>2. Apart(u, accepted, removed)
  BY LifecycleApart DEF ApartInv
<1> HIDE DEF u
<1>3. Apart(Promote(u), accepted, removed)
  BY <1>2, PromoteApart
<1>4. Apart(session', accepted', removed')
  BY <1>1, <1>3
<1> QED  BY <1>1, <1>4 DEF ApartInv

LEMMA HaltApart ==
    ASSUME ApartInv, NEW lifecycle \in {"stopped", "closed"}, Halt(lifecycle)
    PROVE  ApartInv'
<1> DEFINE s == session
           gone == {r \in SessionRun : Live(s, r) /\ ~Busy(s, r)}
           Status(r) == IF r \in gone THEN [Ended(s.runs[r]) EXCEPT !.cancelled = TRUE]
                        ELSE [s.runs[r] EXCEPT !.cancelled = @ \/ Live(s, r)]
           runs == [r \in SessionRun |-> Status(r)]
           queue == IF s.active \in gone THEN s.runs[s.active].steering \o s.queue ELSE s.queue
           active == IF s.active \in gone THEN NoRun ELSE s.active
           lane == Without(s.lane, gone)
           t == session'
<1>1. Apart(s, accepted, removed)
  BY DEF ApartInv
<1>2. /\ t = [s EXCEPT !.lifecycle = lifecycle, !.lane = lane, !.queue = queue,
                       !.active = active, !.runs = runs]
      /\ accepted' = accepted /\ removed' = removed
  BY DEF Halt
<1>3. gone \subseteq SessionRun /\ \A r \in gone : s.runs[r].status # "none"
  BY DEF Live
<1>4. s.runs \in [SessionRun -> RunRecord] /\ s.lane \in Seq(SessionRun) /\ SessionTyped(s)
  BY <1>1 DEF Apart, Shaped, SessionTyped
<1>5. ASSUME NEW r \in gone
      PROVE  /\ runs[r] \in RunRecord /\ runs[r].status = "ended"
             /\ runs[r].steering = <<>> /\ ~runs[r].owned
             /\ runs[r].consumed = s.runs[r].consumed
  <2> DEFINE e == Ended(s.runs[r])
  <2>1. /\ e \in RunRecord /\ e.status = "ended" /\ e.steering = <<>> /\ ~e.owned
        /\ e.consumed = s.runs[r].consumed
    BY <1>3, <1>4, EndedTyped
  <2>2. runs[r] = [e EXCEPT !.cancelled = TRUE]
    BY <1>3
  <2> HIDE DEF e, runs
  <2> QED  BY <2>1, <2>2 DEF RunRecord
<1>6. ASSUME NEW r \in SessionRun \ gone
      PROVE  /\ runs[r] \in RunRecord /\ runs[r].status = s.runs[r].status
             /\ runs[r].steering = s.runs[r].steering /\ runs[r].owned = s.runs[r].owned
             /\ runs[r].consumed = s.runs[r].consumed
  <2>1. s.runs[r] \in RunRecord
    BY <1>4
  <2>2. runs[r] = [s.runs[r] EXCEPT !.cancelled = @ \/ Live(s, r)]
    OBVIOUS
  <2>3. (s.runs[r].cancelled \/ Live(s, r)) \in BOOLEAN
    OBVIOUS
  <2> HIDE DEF runs
  <2> QED  BY <2>1, <2>2, <2>3 DEF RunRecord
<1>7. runs = [r \in SessionRun |-> runs[r]]
  OBVIOUS
<1> HIDE DEF runs, gone
<1>8. runs \in [SessionRun -> RunRecord]
  <2>1. \A r \in SessionRun : runs[r] \in RunRecord
    BY <1>5, <1>6
  <2> QED  BY <1>7, <2>1
<1>9. queue \in Seq(Input) /\ active \in SessionRun \cup {NoRun}
  <2>1. s.queue \in Seq(Input) /\ s.active \in SessionRun \cup {NoRun}
    BY <1>4 DEF SessionTyped
  <2>2. \A r \in SessionRun : s.runs[r].steering \in Seq(Input)
    BY <1>4 DEF RunRecord
  <2> HIDE DEF s
  <2> QED  BY <1>3, <2>1, <2>2
<1>10. \/ queue = s.queue
       \/ \E a \in SessionRun : a \in gone /\ queue = s.runs[a].steering \o s.queue
  BY <1>3
<1>11. lane \in Seq(SessionRun)
  BY <1>4, WithoutTyped
<1> HIDE DEF queue, active, lane
<1>12. t = [queue |-> queue, lane |-> lane, active |-> active, lifecycle |-> lifecycle,
            runs |-> runs]
  BY <1>2, <1>4 DEF SessionTyped
<1> HIDE DEF t
<1>13. Shaped(t) /\ t.queue = queue /\ t.runs = runs
  BY <1>8, <1>9, <1>11, <1>12 DEF Shaped, SessionTyped
<1> HIDE DEF s
<1>14. \A r \in SessionRun :
            /\ t.runs[r].steering = IF r \in gone THEN <<>> ELSE s.runs[r].steering
            /\ t.runs[r].consumed = s.runs[r].consumed
            /\ t.runs[r].owned => s.runs[r].owned
            /\ t.runs[r].status = "none" <=> s.runs[r].status = "none"
  BY <1>3, <1>5, <1>6, <1>13
<1>15. Apart(t, accepted, removed)
  BY <1>1, <1>10, <1>13, <1>14, GivenBack
<1>16. Apart(session', accepted', removed')
  BY <1>2, <1>15 DEF t
<1> QED  BY <1>2, <1>16 DEF ApartInv

LEMMA ExecutionApart ==
    ASSUME ApartInv, NEW r \in SessionRun, ReleaseRun(r) \/ RunStep(r)
    PROVE  ApartInv'
<1> DEFINE old == session.runs[r]
           Changed(run) == [session EXCEPT !.runs = [session.runs EXCEPT ![r] = run]]
<1>1. /\ Apart(session, accepted, removed) /\ SessionTyped(session)
      /\ session.runs \in [SessionRun -> RunRecord] /\ old \in RunRecord
      /\ old.owned => old.status # "none"
  BY DEF ApartInv, Apart, Shaped, SessionTyped, OwnedHaveBegun
<1>2. accepted' = accepted /\ removed' = removed
  BY DEF ReleaseRun, RunStep, ClaimRun, Consume, Conclude, SettleRun
<1>3. SUFFICES Apart(session', accepted, removed)
  BY <1>2 DEF ApartInv
<1>4. ASSUME NEW run \in RunRecord, session' = Changed(run),
             run.steering = old.steering, run.consumed = old.consumed,
             run.status = "ended" => old.status = "ended",
             run.owned => old.owned \/ old.status # "none",
             run.status = "none" <=> old.status = "none"
      PROVE  Apart(session', accepted, removed)
  BY <1>1, <1>4, RunApart
<1>5. CASE ClaimRun(r)
  <2> DEFINE run == [old EXCEPT !.owned = TRUE]
  <2>1. /\ old.status = "running" /\ session' = [session EXCEPT !.runs[r].owned = TRUE]
    BY <1>5 DEF ClaimRun
  <2>2. session' = Changed(run)
    BY <1>1, <2>1 DEF SessionTyped
  <2>3. /\ run \in RunRecord /\ run.status = old.status
        /\ run.steering = old.steering /\ run.consumed = old.consumed
    BY <1>1 DEF RunRecord
  <2> HIDE DEF run, Changed
  <2> QED  BY <1>4, <2>1, <2>2, <2>3
<1>6. CASE ReleaseRun(r)
  <2> DEFINE run == [old EXCEPT !.owned = FALSE]
  <2>1. session' = [session EXCEPT !.runs[r].owned = FALSE]
    BY <1>6 DEF ReleaseRun
  <2>2. session' = Changed(run)
    BY <1>1, <2>1 DEF SessionTyped
  <2>3. /\ run \in RunRecord /\ run.status = old.status /\ ~run.owned
        /\ run.steering = old.steering /\ run.consumed = old.consumed
    BY <1>1 DEF RunRecord
  <2> HIDE DEF run, Changed
  <2> QED  BY <1>4, <2>2, <2>3
<1>7. CASE Consume(r)
  <2> DEFINE consumed == old.consumed \cup Elements(old.steering)
             run == [old EXCEPT !.steering = <<>>, !.consumed = consumed]
  <2>1. session' = [session EXCEPT !.runs[r].steering = <<>>,
                                   !.runs[r].consumed = @ \cup Elements(old.steering)]
    BY <1>7 DEF Consume, Elements
  <2>2. session' = Changed(run)
    BY <1>1, <2>1 DEF SessionTyped
  <2>3. consumed \in SUBSET Input /\ <<>> \in Seq(Input)
    <3>1. old.steering \in Seq(Input) /\ old.consumed \in SUBSET Input
      BY <1>1 DEF RunRecord
    <3> HIDE DEF old
    <3> QED  BY <3>1 DEF Elements
  <2> HIDE DEF consumed
  <2>4. /\ run \in RunRecord /\ run.status = old.status /\ run.owned = old.owned
        /\ run.steering = <<>> /\ run.consumed = consumed
    BY <1>1, <2>3 DEF RunRecord
  <2> HIDE DEF run
  <2> QED  BY <1>1, <2>2, <2>4, ConsumeApart DEF consumed
<1>8. CASE Conclude(r)
  <2> DEFINE run == [old EXCEPT !.status = "finishing", !.owned = FALSE]
  <2>1. /\ old.owned
        /\ session' = [session EXCEPT !.runs[r].status = "finishing", !.runs[r].owned = FALSE]
    BY <1>8 DEF Conclude
  <2>2. session' = Changed(run)
    BY <1>1, <2>1 DEF SessionTyped
  <2>3. /\ run \in RunRecord /\ run.status = "finishing" /\ ~run.owned
        /\ run.steering = old.steering /\ run.consumed = old.consumed
    BY <1>1 DEF RunRecord
  <2> HIDE DEF run, Changed
  <2> QED  BY <1>1, <1>4, <2>1, <2>2, <2>3
<1>9. CASE SettleRun(r)
  <2>1. old.status # "none" /\ session' = Settled(session, r)
    BY <1>1, <1>9 DEF SettleRun
  <2> QED  BY <1>1, <2>1, SettledApart
<1> QED  BY <1>5, <1>6, <1>7, <1>8, <1>9 DEF RunStep

LEMMA ApartInitially == QueueInit => ApartInv
<1> SUFFICES ASSUME QueueInit PROVE ApartInv
  OBVIOUS
<1> DEFINE fresh == [status |-> "none", cancelled |-> FALSE, owned |-> FALSE,
                     steering |-> <<>>, consumed |-> {}]
<1>1. /\ accepted = {} /\ removed = {}
      /\ session = [queue |-> <<>>, lane |-> <<>>, active |-> NoRun, lifecycle |-> "open",
                    runs |-> [r \in SessionRun |-> fresh]]
  BY DEF QueueInit
<1>2. /\ <<>> \in Seq(Input) /\ <<>> \in Seq(SessionRun)
      /\ Elements(<<>>) = {} /\ Distinct(<<>>)
  BY DEF Elements, Distinct
<1>3. fresh \in RunRecord
  BY <1>2 DEF RunRecord
<1>4. Shaped(session)
  BY <1>1, <1>2, <1>3 DEF Shaped, SessionTyped
<1>5. \A r \in SessionRun : session.runs[r] = fresh
  BY <1>1
<1>6. session.queue = <<>> /\ Queued(session) = {}
  BY <1>1, <1>2 DEF Queued
<1>7. /\ UnreadOnce(session) /\ OwnedHaveBegun(session)
      /\ ReadOnce(session) /\ NoRepetition(session)
  BY <1>2, <1>5, <1>6 DEF UnreadOnce, OwnedHaveBegun, ReadOnce, NoRepetition
<1>8. Unread(session) = {} /\ Read(session) = {} /\ Own(session) = {}
  BY <1>2, <1>5, RunsOfInputs DEF Unread, Read, Own
<1>9. Parted(accepted, Queued(session), Unread(session), Read(session), Own(session), removed)
  BY <1>1, <1>6, <1>8 DEF Parted
<1> QED  BY <1>1, <1>4, <1>7, <1>9 DEF ApartInv, Apart

LEMMA ApartNext == ApartInv /\ [QueueNext]_queueVars => ApartInv'
<1> SUFFICES ASSUME ApartInv, [QueueNext]_queueVars PROVE ApartInv'
  OBVIOUS
<1>1. CASE UNCHANGED queueVars
  <2>1. session' = session /\ accepted' = accepted /\ removed' = removed
    BY <1>1 DEF queueVars
  <2> QED  BY <2>1 DEF ApartInv
<1>2. CASE QueueNext
  <2>1. ASSUME NEW i \in Input, Submit(i) \/ Message(i) \/ Remove(i)
        PROVE  ApartInv'
    BY <2>1, SubmitApart, MessageApart, RemoveInputApart
  <2>2. ASSUME NEW r \in SessionRun,
               Start(r) \/ Activate(r) \/ CancelRun(r) \/ ReleaseRun(r) \/ RunStep(r)
        PROVE  ApartInv'
    BY <2>2, StartApart, ActivateApart, CancelRunApart, ExecutionApart
  <2>3. ASSUME NEW lifecycle \in {"stopped", "closed"}, Halt(lifecycle)
        PROVE  ApartInv'
    BY <2>3, HaltApart
  <2>4. CASE Resume
    BY <2>4, ResumeApart
  <2> QED  BY <1>2, <2>1, <2>2, <2>3, <2>4 DEF QueueNext
<1> QED  BY <1>1, <1>2

\* An accepted input is in one place at most, though it may have been lost.
NotInTwoPlaces == \A i \in accepted : \A p, q \in Places(i) : p = q

LEMMA ApartGivesOnePlace == ApartInv => NotInTwoPlaces
<1> SUFFICES ASSUME ApartInv, NEW i \in accepted, NEW p \in Places(i), NEW q \in Places(i)
             PROVE  p = q
  BY DEF NotInTwoPlaces
<1> DEFINE AtQueue(x) == \E k \in Positions(session.queue, i) : x = <<"queued", NoRun, k>>
           AtRuns(x) == \E r \in SessionRun : \E k \in Positions(session.runs[r].steering, i) :
                            x = <<"unread", r, k>>
           AtRead(x) == \E r \in SessionRun :
                            i \in session.runs[r].consumed /\ x = <<"read", r, 0>>
           AtOwn(x) == session.runs[i].status # "none" /\ x = <<"own", i, 0>>
           AtRemoved(x) == i \in removed /\ x = <<"removed", NoRun, 0>>
<1>1. Parted(accepted, Queued(session), Unread(session), Read(session), Own(session), removed)
  BY DEF ApartInv, Apart
<1>2. i \in Input
  BY DEF ApartInv
<1>3. \A x \in Places(i) : AtQueue(x) \/ AtRuns(x) \/ AtRead(x) \/ AtOwn(x) \/ AtRemoved(x)
  BY DEF Places
<1>4. \A x : AtQueue(x) => i \in Queued(session)
  BY DEF Queued, Elements, Positions
<1>5. \A x : AtRuns(x) => i \in Unread(session)
  BY DEF Unread, Elements, Positions
<1>6. \A x : AtRead(x) => i \in Read(session)
  BY DEF Read
<1>7. \A x : AtOwn(x) => i \in Own(session)
  BY <1>2 DEF Own
<1>8. \A x : AtRemoved(x) => i \in removed
  OBVIOUS
<1>9. AtQueue(p) /\ AtQueue(q) => p = q
  <2>1. Distinct(session.queue)
    BY DEF ApartInv, Apart, NoRepetition
  <2> QED  BY <2>1 DEF Distinct, Positions
<1>10. AtRuns(p) /\ AtRuns(q) => p = q
  <2> SUFFICES ASSUME NEW a \in SessionRun, NEW j \in Positions(session.runs[a].steering, i),
                      p = <<"unread", a, j>>,
                      NEW b \in SessionRun, NEW k \in Positions(session.runs[b].steering, i),
                      q = <<"unread", b, k>>
               PROVE  p = q
    OBVIOUS
  <2>1. i \in Elements(session.runs[a].steering) /\ i \in Elements(session.runs[b].steering)
    BY DEF Elements, Positions
  <2>2. a = b
    BY <2>1 DEF ApartInv, Apart, UnreadOnce
  <2>3. Distinct(session.runs[a].steering)
    BY DEF ApartInv, Apart, NoRepetition
  <2>4. j = k
    BY <2>2, <2>3 DEF Distinct, Positions
  <2> QED  BY <2>2, <2>4
<1>11. AtRead(p) /\ AtRead(q) => p = q
  <2> SUFFICES ASSUME NEW a \in SessionRun, i \in session.runs[a].consumed,
                      p = <<"read", a, 0>>,
                      NEW b \in SessionRun, i \in session.runs[b].consumed,
                      q = <<"read", b, 0>>
               PROVE  p = q
    OBVIOUS
  <2>1. a = b
    BY DEF ApartInv, Apart, ReadOnce
  <2> QED  BY <2>1
<1>12. (AtOwn(p) /\ AtOwn(q)) \/ (AtRemoved(p) /\ AtRemoved(q)) => p = q
  OBVIOUS
<1> HIDE DEF AtQueue, AtRuns, AtRead, AtOwn, AtRemoved
<1>13. /\ AtQueue(p) \/ AtRuns(p) \/ AtRead(p) \/ AtOwn(p) \/ AtRemoved(p)
       /\ AtQueue(q) \/ AtRuns(q) \/ AtRead(q) \/ AtOwn(q) \/ AtRemoved(q)
  BY <1>3
<1>14. /\ ~(i \in Queued(session) /\ i \in Unread(session))
       /\ ~(i \in Queued(session) /\ i \in Read(session))
       /\ ~(i \in Queued(session) /\ i \in Own(session))
       /\ ~(i \in Queued(session) /\ i \in removed)
       /\ ~(i \in Unread(session) /\ i \in Read(session))
       /\ ~(i \in Unread(session) /\ i \in Own(session))
       /\ ~(i \in Unread(session) /\ i \in removed)
       /\ ~(i \in Read(session) /\ i \in Own(session))
       /\ ~(i \in Read(session) /\ i \in removed)
       /\ ~(i \in Own(session) /\ i \in removed)
  BY <1>1 DEF Parted
<1> QED  BY <1>4, <1>5, <1>6, <1>7, <1>8, <1>9, <1>10, <1>11, <1>12, <1>13, <1>14

\* Without any hypothesis, no accepted input is ever in two places: a Run that is
\* promoted over the active one may lose a message, but none is read by two Runs, or
\* read and queued again, or removed and read (host-session/queue.ts promote,
\* admission/terminal.ts afterTerminal, lanes.ts promoteHead).
THEOREM InputsAreNotDoubled ==
    QueueSpec => []NotInTwoPlaces
<1>1. QueueInit => ApartInv
  BY ApartInitially
<1>2. ApartInv /\ [QueueNext]_queueVars => ApartInv'
  BY ApartNext
<1>3. ApartInv => NotInTwoPlaces
  BY ApartGivesOnePlace
<1> QED  BY <1>1, <1>2, <1>3, PTL DEF QueueSpec

\* The Session is typed, and only accepted inputs are removed from its queue.
THEOREM QueueTyped ==
    QueueSpec => []QueueTypeOK
<1> DEFINE I == ApartInv /\ stops \in 0..MaxStops
<1>1. QueueInit => I
  BY ApartInitially, SessionQueueAssumption DEF QueueInit
<1>2. I /\ [QueueNext]_queueVars => I'
  <2> SUFFICES ASSUME I, [QueueNext]_queueVars PROVE (stops \in 0..MaxStops)'
    BY ApartNext
  <2>1. stops' = stops \/ (stops < MaxStops /\ stops' = stops + 1)
    BY DEF QueueNext, queueVars, Submit, Message, Remove, Start, Activate, CancelRun,
           ReleaseRun, RunStep, ClaimRun, Consume, Conclude, SettleRun, Halt, Resume
  <2> QED  BY <2>1, SessionQueueAssumption
<1>3. I => QueueTypeOK
  <2> SUFFICES ASSUME I PROVE QueueTypeOK
    OBVIOUS
  <2>1. Shaped(session) /\ accepted \subseteq Input
    BY DEF ApartInv, Apart
  <2>2. removed \subseteq accepted
    BY DEF ApartInv, Apart, Parted
  <2> QED  BY <2>1, <2>2 DEF QueueTypeOK, Shaped, SessionTyped
<1> QED  BY <1>1, <1>2, <1>3, PTL DEF QueueSpec
=============================================================================
