--------------------------- MODULE OwnershipProofs ---------------------------
(***************************************************************************)
(* What the transitions of Ownership do to the canonical state, for every  *)
(* value of the constants: the type of what they return, the waits and the *)
(* families they leave (Life), who is bound to which Session (Bonds), whose*)
(* claim they may end (NoNewClaims, KeepsClaim), and the lanes (Lined).  The*)
(* transitions are nested EXCEPTs; the lemmas named ...Does unfold each of *)
(* them once.                                                              *)
(***************************************************************************)
EXTENDS Ownership, TLAPS, FiniteSetTheorems, SequenceTheorems

-----------------------------------------------------------------------------
(* The constants.                                                          *)

\* What the assumptions say of the constants, one fact at a time.
LEMMA ConstantFacts ==
    /\ None \notin Activations /\ None \notin Workers /\ None \notin Runs
    /\ None \notin Writer
    /\ \A a \in Activations : WorkerOf[a] \in Workers
    /\ \A r \in Runs : SessionOf[r] \in Sessions
    /\ \A r \in Runs : Parent[r] \in Runs \cup {None}
    /\ \A q, r \in Runs : SessionOf[q] = SessionOf[r] => Parent[q] = Parent[r]
  BY ConstantsAssumption, WriterAssumption

\* A family has two levels.
LEMMA TwoLevels ==
    ASSUME NEW r \in Runs, NEW c \in Children(r)
    PROVE  c \in Runs /\ c # r /\ Parent[c] = r /\ Parent[r] = None /\ Children(c) = {}
  <1>1. c \in Runs /\ Parent[c] = r
    BY DEF Children
  <1>2. Parent[r] = None
    BY <1>1, ConstantsAssumption
  <1>3. c # r
    BY <1>1, <1>2, ConstantFacts
  <1>4. Children(c) = {}
    <2> SUFFICES ASSUME NEW d \in Runs, Parent[d] = c PROVE FALSE
      BY DEF Children
    <2>1. Parent[c] = None
      BY ConstantsAssumption, ConstantFacts, <1>1
    <2> QED BY <1>1, <2>1, ConstantFacts
  <1> QED BY <1>1, <1>2, <1>3, <1>4

-----------------------------------------------------------------------------
(* The canonical state, as far as the arguments need its type.             *)

Fields == {"workers", "released", "runs", "sessions", "lanes"}
SessionFields == {"writer", "writerEpoch", "unansweredBy"}

SessionTyped(e) ==
    /\ e = [f \in SessionFields |-> e[f]]
    /\ e.writer \in Writer \cup {None}
    /\ e.unansweredBy \in SUBSET Runs
StateTyped(s) ==
    /\ s = [f \in Fields |-> s[f]]
    /\ s.runs \in [Runs -> StoredRun]
    /\ s.sessions = [x \in Sessions |-> s.sessions[x]]
    /\ \A x \in Sessions : SessionTyped(s.sessions[x])

\* The parts of a Run that say nothing about who executes it.
SameRun(p, q) ==
    /\ q.status = p.status /\ q.cancellationRequested = p.cancellationRequested
    /\ q.openWaits = p.openWaits /\ q.closedWaits = p.closedWaits
    /\ q.children = p.children
SameOwner(p, q) == q.ownerId = p.ownerId /\ q.attemptFence = p.attemptFence

\* A typed state has typed Runs and typed Sessions.
LEMMA TypedParts ==
    ASSUME NEW s, StateTyped(s)
    PROVE  /\ s = [f \in Fields |-> s[f]]
           /\ \A r \in Runs : s.runs[r] \in StoredRun
           /\ \A x \in Sessions : SessionTyped(s.sessions[x])
  BY DEF StateTyped

\* Runs replaced one by one keep the type of the state.
LEMMA RunsReplaced ==
    ASSUME NEW s, NEW t, StateTyped(s), t = [f \in Fields |-> t[f]],
           t.sessions = s.sessions, t.runs = [r \in Runs |-> t.runs[r]],
           \A r \in Runs : t.runs[r] \in StoredRun
    PROVE  StateTyped(t)
  BY DEF StateTyped

\* One Run is replaced.
LEMMA RunReplaced ==
    ASSUME NEW s, NEW r \in Runs, NEW R \in StoredRun, StateTyped(s)
    PROVE  LET t == [s EXCEPT !.runs[r] = R]
           IN  /\ StateTyped(t)
               /\ t.runs[r] = R
               /\ \A q \in Runs \ {r} : t.runs[q] = s.runs[q]
               /\ t.sessions = s.sessions /\ t.lanes = s.lanes
               /\ t.workers = s.workers
  <1> DEFINE t == [s EXCEPT !.runs[r] = R]
  <1>1. s = [f \in Fields |-> s[f]]
    BY DEF StateTyped
  <1>2. /\ t = [f \in Fields |-> t[f]]
        /\ t.runs = [s.runs EXCEPT ![r] = R]
        /\ t.sessions = s.sessions /\ t.lanes = s.lanes
        /\ t.workers = s.workers
    BY <1>1 DEF Fields
  <1> HIDE DEF t
  <1>3. /\ t.runs \in [Runs -> StoredRun]
        /\ t.runs[r] = R
        /\ \A q \in Runs \ {r} : t.runs[q] = s.runs[q]
    BY <1>2 DEF StateTyped
  <1>4. StateTyped(t)
    BY <1>2, <1>3 DEF StateTyped
  <1> QED BY <1>2, <1>3, <1>4 DEF t

\* One Session is replaced.
LEMMA SessionReplaced ==
    ASSUME NEW s, NEW x \in Sessions, NEW e, SessionTyped(e), StateTyped(s)
    PROVE  LET t == [s EXCEPT !.sessions[x] = e]
           IN  /\ StateTyped(t)
               /\ t.sessions[x] = e
               /\ \A y \in Sessions \ {x} : t.sessions[y] = s.sessions[y]
               /\ t.runs = s.runs /\ t.lanes = s.lanes /\ t.workers = s.workers
  <1> DEFINE t == [s EXCEPT !.sessions[x] = e]
  <1>1. s = [f \in Fields |-> s[f]]
    BY DEF StateTyped
  <1>2. /\ t = [f \in Fields |-> t[f]]
        /\ t.sessions = [s.sessions EXCEPT ![x] = e]
        /\ t.runs = s.runs /\ t.lanes = s.lanes /\ t.workers = s.workers
    BY <1>1 DEF Fields
  <1> HIDE DEF t
  <1>3. /\ t.sessions = [y \in Sessions |-> t.sessions[y]]
        /\ t.sessions[x] = e
        /\ \A y \in Sessions \ {x} : t.sessions[y] = s.sessions[y]
    BY <1>2 DEF StateTyped
  <1>4. StateTyped(t)
    BY <1>2, <1>3 DEF StateTyped
  <1> QED BY <1>2, <1>3, <1>4 DEF t

-----------------------------------------------------------------------------
(* What the transitions of the canonical state do, Run by Run and Session  *)
(* by Session.                                                             *)

\* The Runs and the Session writers of the workers E are taken from them.
TakesFrom(s, t, E) ==
    /\ t.workers = [w \in Workers |-> IF w \in E THEN None ELSE s.workers[w]]
    /\ t.lanes = s.lanes
    /\ \A r \in Runs :
         /\ SameRun(s.runs[r], t.runs[r])
         /\ s.runs[r].ownerId \in E =>
                 /\ t.runs[r].ownerId = None
                 /\ t.runs[r].attemptFence = s.runs[r].attemptFence + 1
         /\ s.runs[r].ownerId \notin E => SameOwner(s.runs[r], t.runs[r])
    /\ \A x \in Sessions :
         \/ t.sessions[x] = s.sessions[x]
         \/ /\ s.sessions[x].writer # None
            /\ s.sessions[x].writer.ownerId \in E
            /\ t.sessions[x].writer = None
            /\ t.sessions[x].unansweredBy = s.sessions[x].unansweredBy
    /\ \A x \in Sessions, r \in Runs :
         (/\ s.sessions[x].writer # None
          /\ s.sessions[x].writer.runId = r
          /\ s.sessions[x].writer.ownerId = s.runs[r].ownerId
          /\ s.runs[r].ownerId \in E
          /\ SessionOf[r] = x)
         => t.sessions[x].writer = None

\* releaseExpiredOwners: what expiry leaves of every Run and of every Session.
LEMMA ReleaseExpiredOwnersDoes ==
    ASSUME NEW s, NEW E, StateTyped(s)
    PROVE  LET t == ReleaseExpiredOwners(s, E)
           IN  StateTyped(t) /\ TakesFrom(s, t, E)
  <1> DEFINE freed == {r \in Runs : s.runs[r].ownerId \in E}
             revoked == {x \in Sessions : \E r \in freed :
                            /\ SessionOf[r] = x
                            /\ s.sessions[x].writer # None
                            /\ s.sessions[x].writer.runId = r
                            /\ s.sessions[x].writer.ownerId = s.runs[r].ownerId}
             workers == [w \in Workers |-> IF w \in E THEN None ELSE s.workers[w]]
             released == s.released \ E
             runs == [r \in Runs |->
                        IF r \in freed
                        THEN [s.runs[r] EXCEPT !.ownerId = None, !.attemptFence = @ + 1]
                        ELSE s.runs[r]]
             sessions == [x \in Sessions |->
                        IF x \in revoked
                        THEN [s.sessions[x] EXCEPT !.writer = None, !.writerEpoch = @ + 1]
                        ELSE s.sessions[x]]
             t == ReleaseExpiredOwners(s, E)
  <1>1. t = [s EXCEPT !.workers = workers, !.released = released,
                      !.runs = runs, !.sessions = sessions]
    BY DEF StateTyped, Fields, ReleaseExpiredOwners
  <1> HIDE DEF t, workers, released, runs, sessions
  <1>2. /\ t = [f \in Fields |-> t[f]]
        /\ t.workers = workers /\ t.runs = runs
        /\ t.sessions = sessions /\ t.lanes = s.lanes
    <2>1. s = [f \in Fields |-> s[f]]
      BY DEF StateTyped
    <2> QED BY <1>1, <2>1 DEF Fields
  <1>3. ASSUME NEW r \in Runs
        PROVE  /\ runs[r] \in StoredRun
               /\ SameRun(s.runs[r], runs[r])
               /\ s.runs[r].ownerId \in E =>
                        /\ runs[r].ownerId = None
                        /\ runs[r].attemptFence = s.runs[r].attemptFence + 1
               /\ s.runs[r].ownerId \notin E => SameOwner(s.runs[r], runs[r])
    <2> DEFINE old == s.runs[r]
    <2>1. old \in StoredRun
      BY DEF StateTyped
    <2>2. runs[r] = IF old.ownerId \in E
                    THEN [old EXCEPT !.ownerId = None, !.attemptFence = @ + 1] ELSE old
      BY DEF runs
    <2> HIDE DEF old
    <2>3. old.attemptFence + 1 \in Nat
      BY <2>1 DEF StoredRun
    <2>4. runs[r] \in StoredRun
      <3>1. CASE old.ownerId \in E
        BY <2>1, <2>2, <2>3, <3>1 DEF StoredRun
      <3>2. CASE old.ownerId \notin E
        BY <2>1, <2>2, <3>2
      <3> QED BY <3>1, <3>2
    <2>5. /\ SameRun(old, runs[r])
          /\ old.ownerId \in E => /\ runs[r].ownerId = None
                                  /\ runs[r].attemptFence = old.attemptFence + 1
          /\ old.ownerId \notin E => SameOwner(old, runs[r])
      BY <2>1, <2>2 DEF StoredRun, SameRun, SameOwner
    <2> QED BY <2>4, <2>5 DEF old
  <1>4. ASSUME NEW x \in Sessions
        PROVE  /\ SessionTyped(sessions[x])
               /\ \/ sessions[x] = s.sessions[x]
                  \/ /\ x \in revoked
                     /\ sessions[x].writer = None
                     /\ sessions[x].unansweredBy = s.sessions[x].unansweredBy
               /\ x \in revoked => sessions[x].writer = None
    <2>1. SessionTyped(s.sessions[x])
      BY DEF StateTyped
    <2> HIDE DEF revoked
    <2> QED BY <2>1 DEF sessions, SessionTyped, SessionFields
  <1>5. /\ sessions = [x \in Sessions |-> sessions[x]]
        /\ runs \in [Runs -> StoredRun]
    BY <1>3 DEF sessions, runs
  <1>6. StateTyped(t)
    BY <1>2, <1>4, <1>5 DEF StateTyped
  <1> QED BY <1>2, <1>3, <1>4, <1>6 DEF t, workers, TakesFrom

\* The Session of r loses the writer of this claim, and nothing else happens.
Revokes(s, t, w, r, claim) ==
    LET x == SessionOf[r]
        writer == [runId |-> r, ownerId |-> w, runAttemptFence |-> claim.attemptFence]
    IN  /\ t.runs = s.runs /\ t.lanes = s.lanes /\ t.workers = s.workers
        /\ \A y \in Sessions :
             \/ t.sessions[y] = s.sessions[y]
             \/ /\ y = x
                /\ t.sessions[y].writer = None
                /\ t.sessions[y].unansweredBy = s.sessions[y].unansweredBy
                /\ s.runs[r].ownerId = None
                /\ s.sessions[x].writer = writer
        /\ (/\ s.runs[r].ownerId = None
            /\ s.sessions[x].writerEpoch = claim.epoch
            /\ s.sessions[x].writer = writer)
           => t.sessions[x].writer = None

\* revokeSession touches one writer, and only that of the claim.
LEMMA RevokeSessionDoes ==
    ASSUME NEW s, NEW w, NEW r \in Runs, NEW claim, StateTyped(s)
    PROVE  LET t == RevokeSession(s, w, r, claim)
           IN  StateTyped(t) /\ Revokes(s, t, w, r, claim)
  <1> DEFINE x == SessionOf[r]
             writer == [runId |-> r, ownerId |-> w, runAttemptFence |-> claim.attemptFence]
             revokes == /\ s.runs[r].ownerId = None
                        /\ s.sessions[x].writerEpoch = claim.epoch
                        /\ s.sessions[x].writer = writer
             e == [s.sessions[x] EXCEPT !.writer = None]
             u == [s EXCEPT !.sessions[x] = e]
             t == RevokeSession(s, w, r, claim)
  <1>1. t = IF revokes THEN u ELSE s
    BY DEF RevokeSession, SessionIn
  <1>2. /\ SessionTyped(e) /\ e.writer = None
        /\ e.writerEpoch = s.sessions[x].writerEpoch
        /\ e.unansweredBy = s.sessions[x].unansweredBy
    <2>1. SessionTyped(s.sessions[x])
      BY ConstantFacts DEF StateTyped
    <2> QED BY <2>1 DEF SessionTyped, SessionFields
  <1> HIDE DEF e, t, x, writer
  <1>3. x \in Sessions
    BY ConstantFacts DEF x
  <1>4. /\ StateTyped(u)
        /\ u.sessions[x] = e
        /\ \A y \in Sessions \ {x} : u.sessions[y] = s.sessions[y]
        /\ u.runs = s.runs /\ u.lanes = s.lanes /\ u.workers = s.workers
    BY <1>2, <1>3, SessionReplaced
  <1> HIDE DEF u
  <1> QED BY <1>1, <1>2, <1>3, <1>4 DEF t, x, writer, Revokes

\* The terminal event: the Runs D end, and their Sessions have all calls answered.
LEMMA TerminateDoes ==
    ASSUME NEW s, NEW D, NEW status \in Statuses, StateTyped(s)
    PROVE  LET t == Terminate(s, D, status)
           IN  /\ StateTyped(t)
               /\ t.lanes = s.lanes /\ t.workers = s.workers
               /\ \A r \in Runs \ D : t.runs[r] = s.runs[r]
               /\ \A r \in D \cap Runs :
                    /\ t.runs[r].status = status
                    /\ SameOwner(s.runs[r], t.runs[r])
                    /\ t.runs[r].cancellationRequested = s.runs[r].cancellationRequested
                    /\ t.runs[r].children = s.runs[r].children
                    /\ t.runs[r].openWaits \subseteq s.runs[r].openWaits
                    /\ t.runs[r].openWaits \cap t.runs[r].closedWaits
                            \subseteq s.runs[r].openWaits \cap s.runs[r].closedWaits
                    /\ s.runs[r].closedWaits \subseteq t.runs[r].closedWaits
               /\ \A x \in Sessions :
                    /\ t.sessions[x].writer = s.sessions[x].writer
                    /\ s.sessions[x].writer # None =>
                            t.sessions[x].writerEpoch = s.sessions[x].writerEpoch
                    /\ t.sessions[x].unansweredBy =
                            IF \E r \in D : SessionOf[r] = x THEN {}
                            ELSE s.sessions[x].unansweredBy
  <1> DEFINE cancelled(r) == IF status = "cancelled" THEN s.runs[r].openWaits ELSE {}
             on(x) == {r \in D : SessionOf[r] = x}
             runs == [r \in Runs |->
                        IF r \in D
                        THEN [s.runs[r] EXCEPT !.status = status,
                                               !.openWaits = @ \ cancelled(r),
                                               !.closedWaits = @ \cup cancelled(r)]
                        ELSE s.runs[r]]
             sessions == [x \in Sessions |->
                        [s.sessions[x] EXCEPT
                            !.writerEpoch = IF s.sessions[x].writer = None
                                            THEN @ + Cardinality(on(x)) ELSE @,
                            !.unansweredBy = IF on(x) = {} THEN @ ELSE {}]]
             t == Terminate(s, D, status)
  <1>1. t = [s EXCEPT !.runs = runs, !.sessions = sessions]
    BY DEF Terminate
  <1> HIDE DEF t, runs, sessions
  <1>2. /\ t = [f \in Fields |-> t[f]]
        /\ t.runs = runs /\ t.sessions = sessions
        /\ t.lanes = s.lanes /\ t.workers = s.workers
    <2>1. s = [f \in Fields |-> s[f]]
      BY DEF StateTyped
    <2> QED BY <1>1, <2>1 DEF Fields
  <1>3. ASSUME NEW r \in Runs
        PROVE  /\ runs[r] \in StoredRun
               /\ r \notin D => runs[r] = s.runs[r]
               /\ r \in D =>
                    /\ runs[r].status = status
                    /\ SameOwner(s.runs[r], runs[r])
                    /\ runs[r].cancellationRequested = s.runs[r].cancellationRequested
                    /\ runs[r].children = s.runs[r].children
                    /\ runs[r].openWaits \subseteq s.runs[r].openWaits
                    /\ runs[r].openWaits \cap runs[r].closedWaits
                            \subseteq s.runs[r].openWaits \cap s.runs[r].closedWaits
                    /\ s.runs[r].closedWaits \subseteq runs[r].closedWaits
    <2> DEFINE old == s.runs[r]
               gone == cancelled(r)
    <2>1. old \in StoredRun
      BY DEF StateTyped
    <2>2. runs[r] = IF r \in D
                    THEN [old EXCEPT !.status = status, !.openWaits = @ \ gone,
                                     !.closedWaits = @ \cup gone]
                    ELSE old
      BY DEF runs
    <2>3. gone \in SUBSET Runs
      BY <2>1 DEF StoredRun
    <2> HIDE DEF old, gone
    <2>4. runs[r] \in StoredRun
      <3>1. CASE r \in D
        <4> DEFINE open == old.openWaits \ gone
                   closed == old.closedWaits \cup gone
        <4>1. open \in SUBSET Runs /\ closed \in SUBSET Runs
          BY <2>1, <2>3 DEF StoredRun
        <4>2. runs[r] = [old EXCEPT !.status = status, !.openWaits = open,
                                    !.closedWaits = closed]
          BY <2>2, <3>1
        <4> HIDE DEF open, closed
        <4> QED BY <2>1, <4>1, <4>2 DEF StoredRun
      <3>2. CASE r \notin D
        BY <2>1, <2>2, <3>2
      <3> QED BY <3>1, <3>2
    <2>5. /\ r \notin D => runs[r] = old
          /\ r \in D =>
                /\ runs[r].status = status
                /\ SameOwner(old, runs[r])
                /\ runs[r].cancellationRequested = old.cancellationRequested
                /\ runs[r].children = old.children
                /\ runs[r].openWaits = old.openWaits \ gone
                /\ runs[r].closedWaits = old.closedWaits \cup gone
      BY <2>1, <2>2 DEF StoredRun, SameOwner
    <2> QED BY <2>4, <2>5 DEF old
  <1>4. ASSUME NEW x \in Sessions
        PROVE  /\ SessionTyped(sessions[x])
               /\ sessions[x].writer = s.sessions[x].writer
               /\ s.sessions[x].writer # None =>
                        sessions[x].writerEpoch = s.sessions[x].writerEpoch
               /\ sessions[x].unansweredBy =
                        IF on(x) = {} THEN s.sessions[x].unansweredBy ELSE {}
    <2>1. SessionTyped(s.sessions[x])
      BY DEF StateTyped
    <2> HIDE DEF on
    <2> QED BY <2>1 DEF sessions, SessionTyped, SessionFields
  <1>5. /\ sessions = [x \in Sessions |-> sessions[x]]
        /\ runs \in [Runs -> StoredRun]
    BY <1>3 DEF sessions, runs
  <1>6. StateTyped(t)
    BY <1>2, <1>4, <1>5 DEF StateTyped
  <1> QED BY <1>2, <1>3, <1>4, <1>6 DEF t

\* All Runs are replaced.
LEMMA AllRunsReplaced ==
    ASSUME NEW s, NEW R, StateTyped(s), R = [r \in Runs |-> R[r]],
           \A r \in Runs : R[r] \in StoredRun
    PROVE  LET t == [s EXCEPT !.runs = R]
           IN  /\ StateTyped(t)
               /\ t.runs = R
               /\ t.sessions = s.sessions /\ t.lanes = s.lanes
               /\ t.workers = s.workers
  <1> DEFINE t == [s EXCEPT !.runs = R]
  <1>1. s = [f \in Fields |-> s[f]]
    BY DEF StateTyped
  <1>2. /\ t = [f \in Fields |-> t[f]]
        /\ t.runs = R
        /\ t.sessions = s.sessions /\ t.lanes = s.lanes
        /\ t.workers = s.workers
    BY <1>1 DEF Fields
  <1> HIDE DEF t
  <1>3. R \in [Runs -> StoredRun]
    OBVIOUS
  <1>4. StateTyped(t)
    BY <1>2, <1>3 DEF StateTyped
  <1> QED BY <1>2, <1>4 DEF t

\* A child's settlement resumes its parent without an owner.
ResumedBy(s, t, D, p) ==
    /\ Alive(s, p)
    /\ ~s.runs[p].cancellationRequested
    /\ \E c \in D : c # p /\ c \in s.runs[p].openWaits
    /\ t.runs[p].status = "running"
    /\ t.runs[p].ownerId = None
    /\ t.runs[p].attemptFence = s.runs[p].attemptFence
    /\ t.runs[p].cancellationRequested = s.runs[p].cancellationRequested
    /\ t.runs[p].children = s.runs[p].children
    /\ t.runs[p].openWaits = {c \in s.runs[p].openWaits : c = p \/ c \notin D}
    /\ t.runs[p].closedWaits = s.runs[p].closedWaits
            \cup {c \in s.runs[p].openWaits : c \in D /\ c # p}

\* reconcileChildWait resumes exactly the Runs that wait for one of D.
LEMMA ReconcileChildWaitDoes ==
    ASSUME NEW s, NEW D, StateTyped(s)
    PROVE  LET t == ReconcileChildWait(s, D)
           IN  /\ StateTyped(t)
               /\ t.sessions = s.sessions /\ t.lanes = s.lanes /\ t.workers = s.workers
               /\ \A p \in Runs : t.runs[p] = s.runs[p] \/ ResumedBy(s, t, D, p)
               /\ \A p \in Runs :
                    (/\ Alive(s, p)
                     /\ ~s.runs[p].cancellationRequested
                     /\ \E c \in D : c # p /\ c \in s.runs[p].openWaits)
                    => ResumedBy(s, t, D, p)
  <1> DEFINE settled(p) == {c \in s.runs[p].openWaits : c \in D /\ c # p}
             resumed == {p \in Runs : /\ Alive(s, p)
                                      /\ ~s.runs[p].cancellationRequested
                                      /\ settled(p) # {}}
             runs == [p \in Runs |->
                IF p \in resumed
                THEN [s.runs[p] EXCEPT !.status = "running", !.ownerId = None,
                                       !.openWaits = @ \ settled(p),
                                       !.closedWaits = @ \cup settled(p)]
                ELSE s.runs[p]]
             t == ReconcileChildWait(s, D)
  <1>1. t = [s EXCEPT !.runs = runs]
    BY DEF ReconcileChildWait
  <1> HIDE DEF t
  <1>2. ASSUME NEW p \in Runs
        PROVE  /\ runs[p] \in StoredRun
               /\ p \notin resumed => runs[p] = s.runs[p]
               /\ p \in resumed =>
                    /\ runs[p].status = "running"
                    /\ runs[p].ownerId = None
                    /\ runs[p].attemptFence = s.runs[p].attemptFence
                    /\ runs[p].cancellationRequested = s.runs[p].cancellationRequested
                    /\ runs[p].children = s.runs[p].children
                    /\ runs[p].openWaits = s.runs[p].openWaits \ settled(p)
                    /\ runs[p].closedWaits = s.runs[p].closedWaits \cup settled(p)
    <2> DEFINE old == s.runs[p]
               gone == settled(p)
    <2>1. old \in StoredRun
      BY DEF StateTyped
    <2>2. runs[p] = IF p \in resumed
                    THEN [old EXCEPT !.status = "running", !.ownerId = None,
                                     !.openWaits = @ \ gone, !.closedWaits = @ \cup gone]
                    ELSE old
      OBVIOUS
    <2>3. gone \in SUBSET Runs
      BY <2>1 DEF StoredRun
    <2> HIDE DEF old, gone, resumed, runs
    <2>4. "running" \in Statuses
      BY DEF Statuses
    <2>5. runs[p] \in StoredRun
      <3>1. /\ old.openWaits \ gone \in SUBSET Runs
            /\ old.closedWaits \cup gone \in SUBSET Runs
        BY <2>1, <2>3 DEF StoredRun
      <3> QED BY <2>1, <2>2, <2>4, <3>1 DEF StoredRun
    <2>6. /\ p \notin resumed => runs[p] = old
          /\ p \in resumed =>
                    /\ runs[p].status = "running"
                    /\ runs[p].ownerId = None
                    /\ runs[p].attemptFence = old.attemptFence
                    /\ runs[p].cancellationRequested = old.cancellationRequested
                    /\ runs[p].children = old.children
                    /\ runs[p].openWaits = old.openWaits \ gone
                    /\ runs[p].closedWaits = old.closedWaits \cup gone
      BY <2>1, <2>2 DEF StoredRun
    <2> QED BY <2>5, <2>6 DEF old, gone
  <1>3. runs = [r \in Runs |-> runs[r]]
    OBVIOUS
  <1> HIDE DEF runs
  <1>4. /\ StateTyped(t) /\ t.runs = runs
        /\ t.sessions = s.sessions /\ t.lanes = s.lanes /\ t.workers = s.workers
    BY <1>1, <1>2, <1>3, AllRunsReplaced
  <1>5. ASSUME NEW p \in Runs, p \in resumed
        PROVE  ResumedBy(s, t, D, p)
    BY <1>2, <1>4, <1>5 DEF ResumedBy
  <1>6. ASSUME NEW p \in Runs, p \notin resumed
        PROVE  t.runs[p] = s.runs[p]
    BY <1>2, <1>4, <1>6
  <1>7. ASSUME NEW p \in Runs, Alive(s, p), ~s.runs[p].cancellationRequested,
               \E c \in D : c # p /\ c \in s.runs[p].openWaits
        PROVE  p \in resumed
    BY <1>7
  <1> HIDE DEF resumed
  <1> QED BY <1>4, <1>5, <1>6, <1>7 DEF t

\* A queued Run starts.
StartedIn(s, t, r) ==
    /\ s.runs[r].status = "queued" /\ t.runs[r].status = "running"
    /\ SameOwner(s.runs[r], t.runs[r])
    /\ t.runs[r].cancellationRequested = s.runs[r].cancellationRequested
    /\ t.runs[r].openWaits = s.runs[r].openWaits
    /\ t.runs[r].closedWaits = s.runs[r].closedWaits
    /\ t.runs[r].children = s.runs[r].children

\* promoteHead starts queued Runs and does nothing else.
LEMMA PromoteHeadsDoes ==
    ASSUME NEW s, NEW X, StateTyped(s)
    PROVE  LET t == PromoteHeads(s, X)
           IN  /\ StateTyped(t)
               /\ t.sessions = s.sessions /\ t.lanes = s.lanes /\ t.workers = s.workers
               /\ \A r \in Runs : t.runs[r] = s.runs[r] \/ StartedIn(s, t, r)
  <1> DEFINE heads == {r \in Runs : /\ SessionOf[r] \in X
                                    /\ s.lanes[SessionOf[r]] # << >>
                                    /\ Head(s.lanes[SessionOf[r]]) = r
                                    /\ s.runs[r].status = "queued"
                                    /\ ~s.runs[r].cancellationRequested}
             runs == [r \in Runs |->
                IF r \in heads THEN [s.runs[r] EXCEPT !.status = "running"] ELSE s.runs[r]]
             t == PromoteHeads(s, X)
  <1>1. t = [s EXCEPT !.runs = runs]
    BY DEF PromoteHeads
  <1>2. \A r \in heads : s.runs[r].status = "queued"
    OBVIOUS
  <1> HIDE DEF t, heads
  <1>3. ASSUME NEW r \in Runs
        PROVE  /\ runs[r] \in StoredRun
               /\ \/ runs[r] = s.runs[r]
                  \/ /\ r \in heads
                     /\ runs[r] = [s.runs[r] EXCEPT !.status = "running"]
    <2>1. s.runs[r] \in StoredRun
      BY DEF StateTyped
    <2>2. "running" \in Statuses
      BY DEF Statuses
    <2> QED BY <2>1, <2>2 DEF StoredRun
  <1>4. runs = [r \in Runs |-> runs[r]]
    OBVIOUS
  <1> HIDE DEF runs
  <1>5. /\ StateTyped(t) /\ t.runs = runs
        /\ t.sessions = s.sessions /\ t.lanes = s.lanes /\ t.workers = s.workers
    BY <1>1, <1>3, <1>4, AllRunsReplaced
  <1>6. ASSUME NEW r \in Runs, t.runs[r] # s.runs[r]
        PROVE  StartedIn(s, t, r)
    <2>1. s.runs[r] \in StoredRun
      BY DEF StateTyped
    <2>2. /\ t.runs[r] = [s.runs[r] EXCEPT !.status = "running"]
          /\ s.runs[r].status = "queued"
      BY <1>2, <1>3, <1>5, <1>6
    <2> QED BY <2>1, <2>2 DEF StartedIn, SameOwner, StoredRun
  <1> QED BY <1>5, <1>6 DEF t

\* The queued parents that a settlement of the Runs D starts.
Startable(s, D, p) ==
    /\ p \in {Parent[c] : c \in D}
    /\ s.runs[p].status = "queued"
    /\ UnsettledChildren(s, p) = {}

\* settleParentChild starts queued Runs as well, and does nothing else.
LEMMA StartParentsDoes ==
    ASSUME NEW s, NEW D, StateTyped(s)
    PROVE  LET t == StartParents(s, D)
           IN  /\ StateTyped(t)
               /\ t.sessions = s.sessions /\ t.lanes = s.lanes /\ t.workers = s.workers
               /\ t.released = s.released
               /\ \A r \in Runs : t.runs[r] = s.runs[r] \/ StartedIn(s, t, r)
               /\ \A r \in Runs : Startable(s, D, r) => t.runs[r].status = "running"
  <1> DEFINE runs == [p \in Runs |->
                IF Startable(s, D, p) THEN [s.runs[p] EXCEPT !.status = "running"]
                ELSE s.runs[p]]
             t == StartParents(s, D)
  <1>1. t = [s EXCEPT !.runs = runs]
    BY DEF StartParents, Startable
  <1>2. \A r \in Runs : Startable(s, D, r) => s.runs[r].status = "queued"
    BY DEF Startable
  <1> HIDE DEF t
  <1>3. ASSUME NEW r \in Runs
        PROVE  /\ runs[r] \in StoredRun
               /\ runs[r] = s.runs[r] \/ Startable(s, D, r)
               /\ Startable(s, D, r) => runs[r] = [s.runs[r] EXCEPT !.status = "running"]
    <2>1. s.runs[r] \in StoredRun
      BY DEF StateTyped
    <2>2. "running" \in Statuses
      BY DEF Statuses
    <2> QED BY <2>1, <2>2 DEF StoredRun
  <1>4. runs = [r \in Runs |-> runs[r]]
    OBVIOUS
  <1> HIDE DEF runs
  <1>5. /\ StateTyped(t) /\ t.runs = runs
        /\ t.sessions = s.sessions /\ t.lanes = s.lanes /\ t.workers = s.workers
    BY <1>1, <1>3, <1>4, AllRunsReplaced
  <1>6. t.released = s.released
    <2>1. s = [f \in Fields |-> s[f]]
      BY DEF StateTyped
    <2> QED BY <1>1, <2>1 DEF Fields
  <1>7. ASSUME NEW r \in Runs, Startable(s, D, r)
        PROVE  StartedIn(s, t, r)
    <2>1. s.runs[r] \in StoredRun
      BY DEF StateTyped
    <2>2. /\ t.runs[r] = [s.runs[r] EXCEPT !.status = "running"]
          /\ s.runs[r].status = "queued"
      BY <1>2, <1>3, <1>5, <1>7
    <2> QED BY <2>1, <2>2 DEF StartedIn, SameOwner, StoredRun
  <1>8. \A r \in Runs : t.runs[r] = s.runs[r] \/ StartedIn(s, t, r)
    BY <1>3, <1>5, <1>7
  <1>9. \A r \in Runs : Startable(s, D, r) => t.runs[r].status = "running"
    BY <1>7 DEF StartedIn
  <1> QED BY <1>5, <1>6, <1>8, <1>9 DEF t

\* afterTerminal: so does the end of Runs, apart from their lanes.
LEMMA AfterTerminalDoes ==
    ASSUME NEW s, NEW D, StateTyped(s)
    PROVE  LET t == AfterTerminal(s, D)
           IN  /\ StateTyped(t)
               /\ t.sessions = s.sessions /\ t.workers = s.workers
               /\ \A r \in Runs : t.runs[r] = s.runs[r] \/ StartedIn(s, t, r)
  <1> DEFINE lanes == [x \in Sessions |-> Without(s.lanes[x], D)]
             u == [s EXCEPT !.lanes = lanes]
             X == {SessionOf[r] : r \in D}
             t == AfterTerminal(s, D)
  <1>1. t = PromoteHeads(u, X)
    BY DEF AfterTerminal
  <1> HIDE DEF t, lanes, X
  <1>2. /\ u = [f \in Fields |-> u[f]]
        /\ u.runs = s.runs /\ u.sessions = s.sessions /\ u.workers = s.workers
    <2>1. s = [f \in Fields |-> s[f]]
      BY DEF StateTyped
    <2> QED BY <2>1 DEF Fields
  <1> HIDE DEF u
  <1>3. StateTyped(u)
    BY <1>2 DEF StateTyped
  <1>4. /\ StateTyped(t)
        /\ t.sessions = u.sessions /\ t.workers = u.workers
        /\ \A r \in Runs : t.runs[r] = u.runs[r] \/ StartedIn(u, t, r)
    BY <1>1, <1>3, PromoteHeadsDoes
  <1>5. \A r \in Runs : StartedIn(u, t, r) => StartedIn(s, t, r)
    BY <1>2 DEF StartedIn
  <1> QED BY <1>2, <1>4, <1>5 DEF t

\* The request of a cancellation closes all waits of the Runs it reaches.
LEMMA RequestedDoes ==
    ASSUME NEW s, NEW r \in Runs, StateTyped(s)
    PROVE  LET t == Requested(s, r)
           IN  /\ StateTyped(t)
               /\ t.sessions = s.sessions /\ t.lanes = s.lanes /\ t.workers = s.workers
               /\ \A q \in Runs : q \notin Cancelled(s, r) => t.runs[q] = s.runs[q]
               /\ \A q \in Runs : q \in Cancelled(s, r) =>
                    /\ SameOwner(s.runs[q], t.runs[q])
                    /\ t.runs[q].status =
                          IF s.runs[q].cancellationRequested THEN s.runs[q].status
                          ELSE "cancelling"
                    /\ t.runs[q].cancellationRequested
                    /\ t.runs[q].openWaits = {}
                    /\ t.runs[q].closedWaits = s.runs[q].closedWaits \cup s.runs[q].openWaits
                    /\ t.runs[q].children = s.runs[q].children
  <1> DEFINE hit == Cancelled(s, r)
             runs == [q \in Runs |->
                IF q \in hit
                THEN [s.runs[q] EXCEPT
                        !.status = IF s.runs[q].cancellationRequested THEN @ ELSE "cancelling",
                        !.cancellationRequested = TRUE,
                        !.openWaits = {},
                        !.closedWaits = @ \cup s.runs[q].openWaits]
                ELSE s.runs[q]]
             t == Requested(s, r)
  <1>1. t = [s EXCEPT !.runs = runs]
    BY DEF Requested
  <1> HIDE DEF t, hit
  <1>2. ASSUME NEW q \in Runs
        PROVE  /\ runs[q] \in StoredRun
               /\ q \notin hit => runs[q] = s.runs[q]
               /\ q \in hit =>
                    /\ SameOwner(s.runs[q], runs[q])
                    /\ runs[q].status =
                          IF s.runs[q].cancellationRequested THEN s.runs[q].status
                          ELSE "cancelling"
                    /\ runs[q].cancellationRequested
                    /\ runs[q].openWaits = {}
                    /\ runs[q].closedWaits = s.runs[q].closedWaits \cup s.runs[q].openWaits
                    /\ runs[q].children = s.runs[q].children
    <2> DEFINE old == s.runs[q]
               status == IF old.cancellationRequested THEN old.status ELSE "cancelling"
               closed == old.closedWaits \cup old.openWaits
    <2>1. old \in StoredRun
      BY DEF StateTyped
    <2>2. runs[q] = IF q \in hit
                    THEN [old EXCEPT !.status = status, !.cancellationRequested = TRUE,
                                     !.openWaits = {}, !.closedWaits = closed]
                    ELSE old
      OBVIOUS
    <2> HIDE DEF old, runs
    <2>3. status \in Statuses /\ closed \in SUBSET Runs
      BY <2>1 DEF StoredRun, Statuses
    <2> HIDE DEF status, closed
    <2>4. runs[q] \in StoredRun
      BY <2>1, <2>2, <2>3 DEF StoredRun
    <2>5. /\ q \notin hit => runs[q] = old
          /\ q \in hit =>
                    /\ SameOwner(old, runs[q])
                    /\ runs[q].status = status
                    /\ runs[q].cancellationRequested
                    /\ runs[q].openWaits = {}
                    /\ runs[q].closedWaits = closed
                    /\ runs[q].children = old.children
      BY <2>1, <2>2 DEF StoredRun, SameOwner
    <2> QED BY <2>4, <2>5 DEF old, status, closed
  <1>3. runs = [q \in Runs |-> runs[q]]
    OBVIOUS
  <1> HIDE DEF runs
  <1>4. /\ StateTyped(t) /\ t.runs = runs
        /\ t.sessions = s.sessions /\ t.lanes = s.lanes /\ t.workers = s.workers
    BY <1>1, <1>2, <1>3, AllRunsReplaced
  <1> QED BY <1>2, <1>4 DEF t, hit

\* claimExecution: the Run and its Session after a claim.
LEMMA ClaimedByDoes ==
    ASSUME NEW s, NEW w \in Workers, NEW r \in Runs, StateTyped(s)
    PROVE  LET t == ClaimedBy(s, w, r)
               x == SessionOf[r]
           IN  /\ StateTyped(t)
               /\ t.lanes = s.lanes /\ t.workers = s.workers
               /\ \A q \in Runs \ {r} : t.runs[q] = s.runs[q]
               /\ \A y \in Sessions \ {x} : t.sessions[y] = s.sessions[y]
               /\ t.runs[r].status = IF s.runs[r].cancellationRequested
                                     THEN "cancelling" ELSE "running"
               /\ t.runs[r].ownerId = w
               /\ t.runs[r].attemptFence = s.runs[r].attemptFence + 1
               /\ t.runs[r].cancellationRequested = s.runs[r].cancellationRequested
               /\ t.runs[r].openWaits = s.runs[r].openWaits
               /\ t.runs[r].closedWaits = s.runs[r].closedWaits
               /\ t.runs[r].children = s.runs[r].children
               /\ t.sessions[x].writer = WriterOf(t, r)
               /\ t.sessions[x].writer # None
               /\ t.sessions[x].unansweredBy = s.sessions[x].unansweredBy
  <1> DEFINE x == SessionOf[r]
             old == s.runs[r]
             fence == old.attemptFence + 1
             status == IF old.cancellationRequested THEN "cancelling" ELSE "running"
             R == [old EXCEPT !.status = status, !.ownerId = w, !.attemptFence = fence]
             writer == [runId |-> r, ownerId |-> w, runAttemptFence |-> fence]
             e == [s.sessions[x] EXCEPT !.writer = writer, !.writerEpoch = @ + 1]
             u == [s EXCEPT !.runs[r] = R]
             t == ClaimedBy(s, w, r)
  <1>1. t = [u EXCEPT !.sessions[x] = e]
    <2>1. s = [f \in Fields |-> s[f]]
      BY DEF StateTyped
    <2>2. t = [s EXCEPT !.runs[r] = R, !.sessions[x] = e]
      BY DEF ClaimedBy, SessionIn
    <2> HIDE DEF R, e, t, x
    <2> QED BY <2>1, <2>2 DEF Fields
  <1>2. old \in StoredRun
    BY DEF StateTyped
  <1> HIDE DEF t, old
  <1>3. fence \in Nat /\ status \in Statuses
    BY <1>2 DEF StoredRun, Statuses
  <1> HIDE DEF fence, status
  <1>4. /\ R \in StoredRun
        /\ R.status = status /\ R.ownerId = w /\ R.attemptFence = fence
        /\ R.cancellationRequested = old.cancellationRequested
        /\ R.openWaits = old.openWaits /\ R.closedWaits = old.closedWaits
        /\ R.children = old.children
    BY <1>2, <1>3 DEF StoredRun
  <1>5. writer \in Writer /\ writer # None
    <2>1. writer \in Writer
      BY <1>3 DEF Writer
    <2> QED BY <2>1, WriterAssumption
  <1>6. /\ SessionTyped(e) /\ e.writer = writer
        /\ e.unansweredBy = s.sessions[x].unansweredBy
    <2>1. SessionTyped(s.sessions[x])
      BY ConstantFacts DEF StateTyped
    <2> HIDE DEF writer
    <2> QED BY <1>5, <2>1 DEF SessionTyped, SessionFields
  <1> HIDE DEF R, e, x
  <1>7. /\ StateTyped(u)
        /\ u.runs[r] = R
        /\ \A q \in Runs \ {r} : u.runs[q] = s.runs[q]
        /\ u.sessions = s.sessions /\ u.lanes = s.lanes
        /\ u.workers = s.workers
    BY <1>4, RunReplaced
  <1>8. x \in Sessions
    BY ConstantFacts DEF x
  <1> HIDE DEF u, writer
  <1>9. /\ StateTyped(t)
        /\ t.sessions[x] = e
        /\ \A y \in Sessions \ {x} : t.sessions[y] = u.sessions[y]
        /\ t.runs = u.runs /\ t.lanes = u.lanes /\ t.workers = u.workers
    BY <1>1, <1>6, <1>7, <1>8, SessionReplaced
  <1>10. WriterOf(t, r) = writer
    BY <1>4, <1>7, <1>9 DEF WriterOf, writer
  <1> QED BY <1>4, <1>5, <1>6, <1>7, <1>9, <1>10 DEF t, x, old, fence, status

\* A Run given up keeps everything but its owner.
LEMMA DisownedDoes ==
    ASSUME NEW s, NEW r \in Runs, StateTyped(s)
    PROVE  LET t == Disowned(s, r)
           IN  /\ StateTyped(t)
               /\ t.sessions = s.sessions /\ t.lanes = s.lanes /\ t.workers = s.workers
               /\ \A q \in Runs \ {r} : t.runs[q] = s.runs[q]
               /\ t.runs[r].ownerId = None
               /\ t.runs[r].attemptFence = s.runs[r].attemptFence
               /\ SameRun(s.runs[r], t.runs[r])
  <1> DEFINE old == s.runs[r]
             R == [old EXCEPT !.ownerId = None]
             t == Disowned(s, r)
  <1>1. old \in StoredRun
    BY DEF StateTyped
  <1>2. t = [s EXCEPT !.runs[r] = R]
    BY DEF Disowned
  <1> HIDE DEF old, t
  <1>3. /\ R \in StoredRun /\ R.ownerId = None
        /\ R.attemptFence = old.attemptFence /\ SameRun(old, R)
    BY <1>1 DEF StoredRun, SameRun
  <1> HIDE DEF R
  <1> QED BY <1>2, <1>3, RunReplaced DEF t, old

\* suspend: the Run waits for W as well, and nobody owns it.
LEMMA ParkedDoes ==
    ASSUME NEW s, NEW r \in Runs, NEW W \in SUBSET Runs, StateTyped(s)
    PROVE  LET t == Parked(s, r, W)
           IN  /\ StateTyped(t)
               /\ t.sessions = s.sessions /\ t.lanes = s.lanes /\ t.workers = s.workers
               /\ \A q \in Runs \ {r} : t.runs[q] = s.runs[q]
               /\ t.runs[r].status = "waiting"
               /\ t.runs[r].ownerId = None
               /\ t.runs[r].attemptFence = s.runs[r].attemptFence
               /\ t.runs[r].cancellationRequested = s.runs[r].cancellationRequested
               /\ t.runs[r].openWaits = s.runs[r].openWaits \cup W
               /\ t.runs[r].closedWaits = s.runs[r].closedWaits
  <1> DEFINE old == s.runs[r]
             open == old.openWaits \cup W
             R == [old EXCEPT !.status = "waiting", !.ownerId = None, !.openWaits = open]
             t == Parked(s, r, W)
  <1>1. old \in StoredRun
    BY DEF StateTyped
  <1>2. t = [s EXCEPT !.runs[r] = R]
    BY DEF Parked
  <1>3. open \in SUBSET Runs /\ "waiting" \in Statuses
    BY <1>1 DEF StoredRun, Statuses
  <1> HIDE DEF old, t, open
  <1>4. /\ R \in StoredRun /\ R.status = "waiting" /\ R.ownerId = None
        /\ R.attemptFence = old.attemptFence /\ R.openWaits = open
        /\ R.cancellationRequested = old.cancellationRequested
        /\ R.closedWaits = old.closedWaits
    BY <1>1, <1>3 DEF StoredRun
  <1> HIDE DEF R
  <1> QED BY <1>2, <1>4, RunReplaced DEF t, old, open

\* The Session path changes, and neither its writer nor its epoch.
LEMMA WithUnansweredDoes ==
    ASSUME NEW s, NEW r \in Runs, NEW U \in SUBSET Runs, StateTyped(s)
    PROVE  LET t == WithUnanswered(s, r, U)
               x == SessionOf[r]
           IN  /\ StateTyped(t)
               /\ t.runs = s.runs /\ t.lanes = s.lanes /\ t.workers = s.workers
               /\ \A y \in Sessions \ {x} : t.sessions[y] = s.sessions[y]
               /\ t.sessions[x].writer = s.sessions[x].writer
               /\ t.sessions[x].writerEpoch = s.sessions[x].writerEpoch
               /\ t.sessions[x].unansweredBy = U
  <1> DEFINE x == SessionOf[r]
             e == [s.sessions[x] EXCEPT !.unansweredBy = U]
             t == WithUnanswered(s, r, U)
  <1>1. SessionTyped(s.sessions[x])
    BY ConstantFacts DEF StateTyped
  <1>2. t = [s EXCEPT !.sessions[x] = e]
    BY DEF WithUnanswered, SessionIn
  <1>3. /\ SessionTyped(e) /\ e.writer = s.sessions[x].writer
        /\ e.writerEpoch = s.sessions[x].writerEpoch /\ e.unansweredBy = U
    BY <1>1 DEF SessionTyped, SessionFields
  <1> HIDE DEF e, t, x
  <1>4. x \in Sessions
    BY ConstantFacts DEF x
  <1> QED BY <1>2, <1>3, <1>4, SessionReplaced DEF t, x

\* r is queued at the end of its lane.
Enqueues(s, t, r) ==
    /\ t.sessions = s.sessions /\ t.workers = s.workers
    /\ \A q \in Runs \ {r} : t.runs[q] = s.runs[q]
    /\ t.lanes = [s.lanes EXCEPT ![SessionOf[r]] = Append(@, r)]
    /\ t.runs[r].status = "queued"
    /\ SameOwner(s.runs[r], t.runs[r])
    /\ t.runs[r].cancellationRequested = s.runs[r].cancellationRequested
    /\ t.runs[r].openWaits = s.runs[r].openWaits
    /\ t.runs[r].closedWaits = s.runs[r].closedWaits

\* enqueueLane: the Run is queued.
LEMMA EnqueuedDoes ==
    ASSUME NEW s, NEW r \in Runs, StateTyped(s)
    PROVE  LET t == Enqueued(s, r)
           IN  StateTyped(t) /\ Enqueues(s, t, r)
  <1> DEFINE old == s.runs[r]
             R == [old EXCEPT !.status = "queued"]
             u == [s EXCEPT !.runs[r] = R]
             lanes == [s.lanes EXCEPT ![SessionOf[r]] = Append(@, r)]
             t == Enqueued(s, r)
  <1>1. old \in StoredRun /\ "queued" \in Statuses
    BY DEF StateTyped, Statuses
  <1>2. t = [u EXCEPT !.lanes = lanes]
    <2>1. s = [f \in Fields |-> s[f]]
      BY DEF StateTyped
    <2>2. t = [s EXCEPT !.runs[r] = R, !.lanes[SessionOf[r]] = Append(@, r)]
      BY DEF Enqueued
    <2>3. t = [s EXCEPT !.runs[r] = R, !.lanes = lanes]
      BY <2>1, <2>2 DEF Fields
    <2> HIDE DEF R, lanes, t
    <2> QED BY <2>1, <2>3 DEF Fields
  <1> HIDE DEF old, t, lanes
  <1>3. /\ R \in StoredRun /\ R.status = "queued" /\ SameOwner(old, R)
        /\ R.cancellationRequested = old.cancellationRequested
        /\ R.openWaits = old.openWaits /\ R.closedWaits = old.closedWaits
    BY <1>1 DEF StoredRun, SameOwner
  <1> HIDE DEF R
  <1>4. /\ StateTyped(u)
        /\ u.runs[r] = R
        /\ \A q \in Runs \ {r} : u.runs[q] = s.runs[q]
        /\ u.sessions = s.sessions /\ u.workers = s.workers
    BY <1>3, RunReplaced
  <1> HIDE DEF u
  <1>5. /\ t = [f \in Fields |-> t[f]]
        /\ t.runs = u.runs /\ t.sessions = u.sessions /\ t.workers = u.workers
        /\ t.lanes = lanes
    <2>1. u = [f \in Fields |-> u[f]]
      BY <1>4 DEF StateTyped
    <2> QED BY <1>2, <2>1 DEF Fields
  <1>6. StateTyped(t)
    BY <1>4, <1>5 DEF StateTyped
  <1> QED BY <1>3, <1>4, <1>5, <1>6 DEF t, old, lanes, Enqueues

\* Only the Runs K are new: they are queued.
Admits(s, t, K) ==
    /\ t.sessions = s.sessions /\ t.workers = s.workers
    /\ \A q \in Runs :
         /\ SameOwner(s.runs[q], t.runs[q])
         /\ q \in K => t.runs[q].status = "queued"
         /\ q \notin K => t.runs[q].status = s.runs[q].status
         /\ t.runs[q].cancellationRequested = s.runs[q].cancellationRequested
         /\ t.runs[q].openWaits = s.runs[q].openWaits
         /\ t.runs[q].closedWaits = s.runs[q].closedWaits

\* The Runs of a sequence.
Among(kids) == {q \in Runs : \E i \in DOMAIN kids : kids[i] = q}

\* admitSpawn: the children are queued, their parent only knows them.
LEMMA WithChildrenDoes ==
    ASSUME NEW s, NEW p \in Runs, NEW kids \in Seq(Runs), StateTyped(s),
           p \notin Among(kids)
    PROVE  LET t == WithChildren(s, p, kids)
           IN  /\ StateTyped(t) /\ t.lanes = s.lanes /\ t.released = s.released
               /\ Admits(s, t, Among(kids))
  <1> DEFINE known == s.runs[p].children \o kids
             P == [s.runs[p] EXCEPT !.children = known]
             runs == [q \in Runs |->
                IF q = p THEN P
                ELSE IF q \in Among(kids)
                THEN [s.runs[q] EXCEPT !.status = "queued"]
                ELSE s.runs[q]]
             t == WithChildren(s, p, kids)
  <1>1. t = [s EXCEPT !.runs = runs]
    <2> DEFINE some(q) == \E i \in DOMAIN kids : kids[i] = q
               Q(q) == [s.runs[q] EXCEPT !.status = "queued"]
    <2>1. t = [s EXCEPT !.runs = [q \in Runs |->
                IF q = p THEN P ELSE IF some(q) THEN Q(q) ELSE s.runs[q]]]
      BY DEF WithChildren
    <2>2. \A q \in Runs : some(q) <=> q \in Among(kids)
      BY DEF Among
    <2>3. runs = [q \in Runs |->
                IF q = p THEN P ELSE IF q \in Among(kids) THEN Q(q) ELSE s.runs[q]]
      OBVIOUS
    <2> HIDE DEF P, Q, some, runs, t
    <2>4. [q \in Runs |-> IF q = p THEN P ELSE IF some(q) THEN Q(q) ELSE s.runs[q]]
            = runs
      BY <2>2, <2>3
    <2> QED BY <2>1, <2>4
  <1>2. \A q \in Runs : s.runs[q] \in StoredRun
    BY DEF StateTyped
  <1>3. known \in Seq(Runs) /\ "queued" \in Statuses
    BY <1>2 DEF StoredRun, Statuses
  <1> HIDE DEF known, t
  <1>4. /\ P \in StoredRun /\ P.status = s.runs[p].status
        /\ SameOwner(s.runs[p], P)
        /\ P.cancellationRequested = s.runs[p].cancellationRequested
        /\ P.openWaits = s.runs[p].openWaits /\ P.closedWaits = s.runs[p].closedWaits
    <2> DEFINE old == s.runs[p]
    <2>1. old \in StoredRun
      BY <1>2
    <2> HIDE DEF old
    <2>2. P = [old EXCEPT !.children = known]
      BY DEF old
    <2> HIDE DEF P
    <2>3. P \in StoredRun
      BY <1>3, <2>1, <2>2 DEF StoredRun
    <2>4. /\ P.status = old.status /\ SameOwner(old, P)
          /\ P.cancellationRequested = old.cancellationRequested
          /\ P.openWaits = old.openWaits /\ P.closedWaits = old.closedWaits
      BY <2>1, <2>2 DEF StoredRun, SameOwner
    <2> QED BY <2>3, <2>4 DEF old
  <1> HIDE DEF P
  <1>5. ASSUME NEW q \in Runs
        PROVE  /\ runs[q] \in StoredRun
               /\ SameOwner(s.runs[q], runs[q])
               /\ q \in Among(kids) => runs[q].status = "queued"
               /\ q \notin Among(kids) => runs[q].status = s.runs[q].status
               /\ runs[q].cancellationRequested = s.runs[q].cancellationRequested
               /\ runs[q].openWaits = s.runs[q].openWaits
               /\ runs[q].closedWaits = s.runs[q].closedWaits
    <2>1. CASE q = p
      BY <1>4, <2>1
    <2>2. CASE q # p /\ q \in Among(kids)
      <3>1. runs[q] = [s.runs[q] EXCEPT !.status = "queued"]
        BY <2>2
      <3> HIDE DEF runs
      <3> QED BY <1>2, <1>3, <2>2, <3>1 DEF StoredRun, SameOwner
    <2>3. CASE q # p /\ q \notin Among(kids)
      <3>1. runs[q] = s.runs[q]
        BY <2>3
      <3> HIDE DEF runs
      <3> QED BY <1>2, <2>3, <3>1 DEF SameOwner
    <2> QED BY <2>1, <2>2, <2>3
  <1>6. runs = [q \in Runs |-> runs[q]]
    OBVIOUS
  <1> HIDE DEF runs
  <1>7. /\ StateTyped(t) /\ t.runs = runs
        /\ t.sessions = s.sessions /\ t.lanes = s.lanes /\ t.workers = s.workers
    BY <1>1, <1>5, <1>6, AllRunsReplaced
  <1>8. t.released = s.released
    <2>1. s = [f \in Fields |-> s[f]]
      BY DEF StateTyped
    <2> QED BY <1>1, <2>1 DEF Fields
  <1> QED BY <1>5, <1>7, <1>8 DEF t, Admits

\* admitSpawn: one child more.
LEMMA AdmitChildDoes ==
    ASSUME NEW c \in Runs, AdmitChild(c), StateTyped(state)
    PROVE  /\ StateTyped(state') /\ state'.lanes = state.lanes
           /\ state'.released = state.released
           /\ Parent[c] \in Runs /\ Parent[c] # c
           /\ Admits(state, state', {c})
  <1> DEFINE kids == <<c>>
  <1>1. Parent[c] \in Runs /\ c \in Children(Parent[c])
    BY ConstantFacts DEF AdmitChild, Children
  <1>2. Parent[c] # c
    BY <1>1, TwoLevels
  <1>3. kids \in Seq(Runs) /\ Among(kids) = {c}
    BY DEF Among
  <1>4. state' = WithChildren(state, Parent[c], kids)
    BY DEF AdmitChild
  <1> HIDE DEF kids
  <1> QED BY <1>1, <1>2, <1>3, <1>4, WithChildrenDoes

\* The requests of a start name children of its Run, one after the other.
LEMMA RequestsName ==
    ASSUME NEW r \in Runs, NEW kids \in Requests(r)
    PROVE  /\ kids \in Seq(Runs)
           /\ Among(kids) \subseteq Children(r)
           /\ r \notin Among(kids)
           /\ IsFiniteSet(Among(kids))
           /\ kids # << >> => Among(kids) # {}
           /\ kids = << >> => Among(kids) = {}
  <1>1. PICK n \in 0 .. MaxInitialChildren : kids \in [1 .. n -> Children(r)]
    BY DEF Requests
  <1>2. n \in Nat
    BY ConstantsAssumption
  <1>3. kids \in Seq(Children(r)) /\ Len(kids) = n
    BY <1>1, <1>2
  <1>4. Children(r) \subseteq Runs /\ r \notin Children(r)
    BY TwoLevels DEF Children
  <1>5. kids \in Seq(Runs)
    BY <1>3, <1>4
  <1>6. Among(kids) \subseteq Children(r)
    BY <1>1 DEF Among
  <1>7. IsFiniteSet(Among(kids))
    <2>1. IsFiniteSet(1 .. n)
      BY <1>2, FS_Interval
    <2>2. kids \in Surjection(1 .. n, Among(kids))
      <3>1. \A i \in 1 .. n : kids[i] \in Among(kids)
        BY <1>1, <1>4 DEF Among
      <3>2. \A q \in Among(kids) : \E i \in 1 .. n : kids[i] = q
        BY <1>1 DEF Among
      <3>3. kids \in [1 .. n -> Among(kids)]
        BY <1>1, <3>1
      <3> QED BY <3>2, <3>3 DEF Surjection
    <2> QED BY <2>1, <2>2, FS_Surjection
  <1>8. ASSUME kids # << >> PROVE Among(kids) # {}
    <2>1. n # 0
      BY <1>1, <1>2, <1>3, <1>8
    <2>2. 1 \in DOMAIN kids /\ kids[1] \in Runs
      BY <1>1, <1>2, <1>4, <2>1
    <2> QED BY <2>2 DEF Among
  <1>9. kids = << >> => Among(kids) = {}
    BY DEF Among
  <1> QED BY <1>4, <1>5, <1>6, <1>7, <1>8, <1>9

\* respond: the wait that was answered is closed and the Run goes on.
LEMMA RespondDoes ==
    ASSUME NEW r \in Runs, Respond(r), StateTyped(state)
    PROVE  /\ StateTyped(state')
           /\ state'.sessions = state.sessions /\ state'.workers = state.workers
           /\ state'.lanes = state.lanes
           /\ \A q \in Runs \ {r} : state'.runs[q] = state.runs[q]
           /\ state'.runs[r].status = "running"
           /\ SameOwner(state.runs[r], state'.runs[r])
           /\ state'.runs[r].cancellationRequested = state.runs[r].cancellationRequested
           /\ state'.runs[r].openWaits = state.runs[r].openWaits \ {r}
           /\ state'.runs[r].closedWaits = state.runs[r].closedWaits \cup {r}
  <1> DEFINE old == state.runs[r]
             open == old.openWaits \ {r}
             closed == old.closedWaits \cup {r}
             R == [old EXCEPT !.status = "running", !.openWaits = open, !.closedWaits = closed]
  <1>1. old \in StoredRun /\ "running" \in Statuses
    BY DEF StateTyped, Statuses
  <1>2. state' = [state EXCEPT !.runs[r] = R]
    BY DEF Respond
  <1>3. open \in SUBSET Runs /\ closed \in SUBSET Runs
    BY <1>1 DEF StoredRun
  <1> HIDE DEF old, open, closed
  <1>4. /\ R \in StoredRun /\ R.status = "running" /\ SameOwner(old, R)
        /\ R.cancellationRequested = old.cancellationRequested
        /\ R.openWaits = open /\ R.closedWaits = closed
    BY <1>1, <1>3 DEF StoredRun, SameOwner
  <1> HIDE DEF R
  <1> QED BY <1>2, <1>4, RunReplaced DEF old, open, closed

-----------------------------------------------------------------------------
(* Waits and families.                                                     *)

\* A Run waits for tokens of its own that nobody answered yet.
WaitsAreOwn(s) ==
    \A r \in Runs : /\ s.runs[r].openWaits \subseteq Tokens(r)
                    /\ s.runs[r].openWaits \cap s.runs[r].closedWaits = {}
                    /\ s.runs[r].status = "absent" => s.runs[r].openWaits = {}

\* NoLostWakeup in a state s in the middle of a command, which has yet to tell
\* the parents of the Runs D.
Wakeable(s, D) ==
    \A r \in Runs :
        s.runs[r].status = "waiting" /\ ~s.runs[r].cancellationRequested =>
            \E t \in s.runs[r].openWaits : t = r \/ Alive(s, t) \/ t \in D

\* FamiliesSettle in a state s.
FamiliesEnd(s) ==
    \A r \in Runs : s.runs[r].status = "cancelled" => UnsettledChildren(s, r) = {}

Life(s, D) == WaitsAreOwn(s) /\ Wakeable(s, D) /\ FamiliesEnd(s)

\* A step that starts Runs or moves their ownership.
Quiet(s, t) ==
    \A r \in Runs :
        /\ Alive(t, r) = Alive(s, r)
        /\ t.runs[r].cancellationRequested = s.runs[r].cancellationRequested
        /\ t.runs[r].openWaits = s.runs[r].openWaits
        /\ t.runs[r].closedWaits = s.runs[r].closedWaits
        /\ t.runs[r].status \in {"waiting", "cancelled", "absent"} =>
                t.runs[r].status = s.runs[r].status

\* Starting Runs and moving their ownership changes no wait and ends no Run.
LEMMA QuietKeepsLife ==
    ASSUME NEW s, NEW t, NEW D, Life(s, D), Quiet(s, t), D \subseteq Runs,
           StateTyped(s)
    PROVE  Life(t, D)
  <1>1. WaitsAreOwn(t)
    BY DEF Life, Quiet, WaitsAreOwn
  <1>2. Wakeable(t, D)
    <2> SUFFICES ASSUME NEW r \in Runs, t.runs[r].status = "waiting",
                        ~t.runs[r].cancellationRequested
                 PROVE  \E k \in t.runs[r].openWaits : k = r \/ Alive(t, k) \/ k \in D
      BY DEF Wakeable
    <2>1. PICK k \in s.runs[r].openWaits : k = r \/ Alive(s, k) \/ k \in D
      BY DEF Life, Wakeable, Quiet
    <2>2. k \in Runs
      BY DEF StateTyped, StoredRun
    <2> QED BY <2>1, <2>2 DEF Quiet
  <1>3. FamiliesEnd(t)
    BY DEF Life, FamiliesEnd, Quiet, UnsettledChildren, Children
  <1> QED BY <1>1, <1>2, <1>3 DEF Life

\* promoteHead is such a step.
LEMMA StartingIsQuiet ==
    ASSUME NEW s, NEW t,
           \A r \in Runs : t.runs[r] = s.runs[r] \/ StartedIn(s, t, r)
    PROVE  Quiet(s, t)
  <1> SUFFICES ASSUME NEW r \in Runs
               PROVE  /\ Alive(t, r) = Alive(s, r)
                      /\ t.runs[r].cancellationRequested = s.runs[r].cancellationRequested
                      /\ t.runs[r].openWaits = s.runs[r].openWaits
                      /\ t.runs[r].closedWaits = s.runs[r].closedWaits
                      /\ t.runs[r].status \in {"waiting", "cancelled", "absent"} =>
                            t.runs[r].status = s.runs[r].status
    BY DEF Quiet
  <1>1. CASE t.runs[r] = s.runs[r]
    BY <1>1 DEF Alive
  <1>2. CASE StartedIn(s, t, r)
    BY <1>2 DEF Alive, StartedIn, Terminal
  <1> QED BY <1>1, <1>2

\* The Runs D may settle with this status: they live, and a cancelled one has
\* no other living child.
MayEnd(s, D, status) ==
    /\ D \subseteq Runs
    /\ \A d \in D : Alive(s, d)
    /\ status \in Terminal
    /\ status = "cancelled" => \A d \in D : UnsettledChildren(s, d) \subseteq D

\* The end of Runs may leave parents that wait for nobody but them.
LEMMA TerminateKeepsLife ==
    ASSUME NEW s, NEW D, NEW status, StateTyped(s), Life(s, {}), MayEnd(s, D, status)
    PROVE  Life(Terminate(s, D, status), D)
  <1> DEFINE t == Terminate(s, D, status)
  <1>1. status \in Statuses
    BY DEF MayEnd, Statuses
  <1>2. /\ \A r \in Runs \ D : t.runs[r] = s.runs[r]
        /\ \A r \in D \cap Runs :
             /\ t.runs[r].status = status
             /\ t.runs[r].openWaits \subseteq s.runs[r].openWaits
             /\ t.runs[r].openWaits \cap t.runs[r].closedWaits
                    \subseteq s.runs[r].openWaits \cap s.runs[r].closedWaits
    BY <1>1, TerminateDoes
  <1> HIDE DEF t
  <1>3. status \notin {"waiting", "absent"}
    BY DEF MayEnd, Terminal
  <1>4. \A r \in Runs : Alive(t, r) <=> Alive(s, r) /\ r \notin D
    BY <1>2 DEF MayEnd, Alive
  <1>5. WaitsAreOwn(t)
    <2> SUFFICES ASSUME NEW r \in Runs
                 PROVE  /\ t.runs[r].openWaits \subseteq Tokens(r)
                        /\ t.runs[r].openWaits \cap t.runs[r].closedWaits = {}
                        /\ t.runs[r].status = "absent" => t.runs[r].openWaits = {}
      BY DEF WaitsAreOwn
    <2>1. /\ s.runs[r].openWaits \subseteq Tokens(r)
          /\ s.runs[r].openWaits \cap s.runs[r].closedWaits = {}
          /\ s.runs[r].status = "absent" => s.runs[r].openWaits = {}
      BY DEF Life, WaitsAreOwn
    <2> QED BY <1>2, <1>3, <2>1
  <1>6. Wakeable(t, D)
    <2> SUFFICES ASSUME NEW r \in Runs, t.runs[r].status = "waiting",
                        ~t.runs[r].cancellationRequested
                 PROVE  \E k \in t.runs[r].openWaits : k = r \/ Alive(t, k) \/ k \in D
      BY DEF Wakeable
    <2>1. t.runs[r] = s.runs[r]
      BY <1>2, <1>3
    <2>2. PICK k \in s.runs[r].openWaits : k = r \/ Alive(s, k)
      BY <2>1 DEF Life, Wakeable
    <2>3. k \in Runs
      BY DEF StateTyped, StoredRun
    <2> QED BY <1>4, <2>1, <2>2, <2>3
  <1>7. FamiliesEnd(t)
    <2> SUFFICES ASSUME NEW r \in Runs, t.runs[r].status = "cancelled"
                 PROVE  UnsettledChildren(t, r) = {}
      BY DEF FamiliesEnd
    <2>1. CASE r \in D
      BY <1>2, <1>4, <2>1 DEF MayEnd, UnsettledChildren, Children
    <2>2. CASE r \notin D
      BY <1>2, <1>4, <2>2 DEF Life, FamiliesEnd, UnsettledChildren, Children
    <2> QED BY <2>1, <2>2
  <1> QED BY <1>5, <1>6, <1>7 DEF Life, t

\* reconcileChildWait wakes exactly those.
LEMMA ReconcileKeepsLife ==
    ASSUME NEW s, NEW D, StateTyped(s), Life(s, D), \A d \in D : ~Alive(s, d)
    PROVE  Life(ReconcileChildWait(s, D), {})
  <1> DEFINE t == ReconcileChildWait(s, D)
  <1>1. /\ \A p \in Runs : t.runs[p] = s.runs[p] \/ ResumedBy(s, t, D, p)
        /\ \A p \in Runs :
             (/\ Alive(s, p)
              /\ ~s.runs[p].cancellationRequested
              /\ \E c \in D : c # p /\ c \in s.runs[p].openWaits)
             => ResumedBy(s, t, D, p)
    BY ReconcileChildWaitDoes
  <1> HIDE DEF t
  <1>2. ASSUME NEW p \in Runs
        PROVE  /\ Alive(t, p) = Alive(s, p)
               /\ t.runs[p] = s.runs[p] \/ t.runs[p].status = "running"
    <2>1. CASE t.runs[p] = s.runs[p]
      BY <2>1 DEF Alive
    <2>2. CASE ResumedBy(s, t, D, p)
      BY <2>2 DEF ResumedBy, Alive, Terminal
    <2> QED BY <1>1, <2>1, <2>2
  <1>3. WaitsAreOwn(t)
    <2> SUFFICES ASSUME NEW r \in Runs
                 PROVE  /\ t.runs[r].openWaits \subseteq Tokens(r)
                        /\ t.runs[r].openWaits \cap t.runs[r].closedWaits = {}
                        /\ t.runs[r].status = "absent" => t.runs[r].openWaits = {}
      BY DEF WaitsAreOwn
    <2>1. /\ s.runs[r].openWaits \subseteq Tokens(r)
          /\ s.runs[r].openWaits \cap s.runs[r].closedWaits = {}
          /\ s.runs[r].status = "absent" => s.runs[r].openWaits = {}
      BY DEF Life, WaitsAreOwn
    <2> QED BY <1>1, <2>1 DEF ResumedBy
  <1>4. Wakeable(t, {})
    <2> SUFFICES ASSUME NEW r \in Runs, t.runs[r].status = "waiting",
                        ~t.runs[r].cancellationRequested
                 PROVE  \E k \in t.runs[r].openWaits : k = r \/ Alive(t, k)
      BY DEF Wakeable
    <2>1. t.runs[r] = s.runs[r]
      BY <1>2
    <2>2. PICK k \in s.runs[r].openWaits : k = r \/ Alive(s, k) \/ k \in D
      BY <2>1 DEF Life, Wakeable
    <2>3. k \in Runs
      BY DEF StateTyped, StoredRun
    <2>4. Alive(s, r)
      BY <2>1 DEF Alive, Terminal
    <2>5. ~ResumedBy(s, t, D, r)
      BY DEF ResumedBy
    <2>6. k = r \/ k \notin D
      BY <1>1, <2>1, <2>4, <2>5
    <2> QED BY <1>2, <2>1, <2>2, <2>3, <2>6
  <1>5. FamiliesEnd(t)
    BY <1>2 DEF Life, FamiliesEnd, UnsettledChildren, Children
  <1> QED BY <1>3, <1>4, <1>5 DEF Life, t

-----------------------------------------------------------------------------
(* Session writers.                                                        *)

\* The writer of a Session is the claim of the Run that owns it; a Run that
\* lost its owner keeps its Session as long as only it can write there.
WritersBelong(s) ==
    \A x \in Sessions :
        LET e == s.sessions[x]
            r == e.writer.runId
        IN e.writer # None =>
             /\ SessionOf[r] = x
             /\ s.runs[r].ownerId # None => e.writer = WriterOf(s, r)
             /\ s.runs[r].ownerId = None => Alive(s, r) /\ e.unansweredBy = {r}

Waits(s, r) ==
    Alive(s, r) /\ ~s.runs[r].cancellationRequested /\ s.runs[r].openWaits # {}
\* What a Run waits for are calls on its Session that have no answer.
WaitsAreUnanswered(s) ==
    \A r \in Runs : Waits(s, r) => s.sessions[SessionOf[r]].unansweredBy = {r}

Bonds(s) == WritersBelong(s) /\ WaitsAreUnanswered(s)

\* The writer of a Session with its Run, as the steps below need it.
LEMMA WriterTyped ==
    ASSUME NEW s, StateTyped(s), NEW x \in Sessions, s.sessions[x].writer # None
    PROVE  /\ s.sessions[x].writer \in Writer
           /\ s.sessions[x].writer.runId \in Runs
           /\ s.sessions[x].writer.ownerId \in Workers
           /\ s.sessions[x].writer.ownerId # None
  <1>1. s.sessions[x].writer \in Writer
    BY TypedParts DEF SessionTyped
  <1> QED BY <1>1, ConstantFacts DEF Writer

\* A step that takes no owner and starts no wait.
Unbinding(s, t) ==
    /\ \A r \in Runs : /\ SameOwner(s.runs[r], t.runs[r])
                       /\ Alive(s, r) => Alive(t, r)
                       /\ Waits(t, r) => Waits(s, r)
    /\ \A x \in Sessions :
         /\ t.sessions[x].writer \in {s.sessions[x].writer, None}
         /\ t.sessions[x].unansweredBy = s.sessions[x].unansweredBy

\* A step after which fewer Sessions are bound and fewer Runs wait keeps the bonds.
LEMMA UnbindingKeepsBonds ==
    ASSUME NEW s, NEW t, StateTyped(s), Bonds(s), Unbinding(s, t)
    PROVE  Bonds(t)
  <1>1. WritersBelong(t)
    <2> SUFFICES ASSUME NEW x \in Sessions, t.sessions[x].writer # None
                 PROVE  LET e == t.sessions[x]
                            r == e.writer.runId
                        IN  /\ SessionOf[r] = x
                            /\ t.runs[r].ownerId # None => e.writer = WriterOf(t, r)
                            /\ t.runs[r].ownerId = None =>
                                    Alive(t, r) /\ e.unansweredBy = {r}
      BY DEF WritersBelong
    <2> DEFINE r == s.sessions[x].writer.runId
    <2>1. /\ t.sessions[x].writer = s.sessions[x].writer
          /\ t.sessions[x].unansweredBy = s.sessions[x].unansweredBy
          /\ s.sessions[x].writer # None
      BY DEF Unbinding
    <2>2. r \in Runs
      BY <2>1, WriterTyped
    <2>3. /\ SessionOf[r] = x
          /\ s.runs[r].ownerId # None => s.sessions[x].writer = WriterOf(s, r)
          /\ s.runs[r].ownerId = None => Alive(s, r) /\ s.sessions[x].unansweredBy = {r}
      BY <2>1 DEF Bonds, WritersBelong
    <2>4. WriterOf(t, r) = WriterOf(s, r)
      BY <2>2 DEF Unbinding, WriterOf, SameOwner
    <2>5. /\ t.runs[r].ownerId = s.runs[r].ownerId
          /\ Alive(s, r) => Alive(t, r)
      BY <2>2 DEF Unbinding, SameOwner
    <2> HIDE DEF r
    <2> QED BY <2>1, <2>3, <2>4, <2>5 DEF r
  <1>2. WaitsAreUnanswered(t)
    BY ConstantFacts DEF Bonds, WaitsAreUnanswered, Unbinding
  <1> QED BY <1>1, <1>2 DEF Bonds

\* A Run that waits on a Session is not settled by the settlement of another
\* one there: the Run that settles is the only one, so that it comes first.
Alone(s, D) ==
    \A d \in D, p \in Runs \ D :
        SessionOf[d] = SessionOf[p] /\ Waits(s, p) =>
            \A q \in D : SessionOf[q] = SessionOf[d] => q = d

\* A Run that settles alone on its Session is the first to settle there.
LEMMA FirstAlone ==
    ASSUME NEW s, NEW D, NEW d \in D,
           \A q \in D : SessionOf[q] = SessionOf[d] => q = d
    PROVE  FirstOn(s, D, SessionOf[d]) = d
  <1>1. \A r \in D : (/\ SessionOf[r] = SessionOf[d]
                      /\ \A q \in D : SessionOf[q] = SessionOf[d] => PrecedesIn(s, r, q))
                     <=> r = d
    BY DEF PrecedesIn
  <1> QED BY <1>1 DEF FirstOn

\* The end of Runs keeps the bonds: it is refused when a Session is bound to
\* somebody else, and answers the calls on all others.
LEMMA TerminateKeepsBonds ==
    ASSUME NEW s, NEW D, NEW status, StateTyped(s), Bonds(s), D \subseteq Runs,
           status \in Terminal, CanTerminate(s, D, status), Alone(s, D)
    PROVE  Bonds(Terminate(s, D, status))
  <1> DEFINE t == Terminate(s, D, status)
  <1>1. status \in Statuses
    BY DEF Statuses
  <1>2. /\ \A r \in Runs \ D : t.runs[r] = s.runs[r]
        /\ \A r \in D \cap Runs : /\ t.runs[r].status = status
                                  /\ SameOwner(s.runs[r], t.runs[r])
        /\ \A x \in Sessions :
             /\ t.sessions[x].writer = s.sessions[x].writer
             /\ t.sessions[x].unansweredBy =
                    IF \E r \in D : SessionOf[r] = x THEN {}
                    ELSE s.sessions[x].unansweredBy
    BY <1>1, TerminateDoes
  <1> HIDE DEF t
  <1>3. \A r \in Runs : SameOwner(s.runs[r], t.runs[r])
    BY <1>2 DEF SameOwner
  <1>4. ASSUME NEW d \in D, s.sessions[SessionOf[d]].unansweredBy # {}
        PROVE  LET first == FirstOn(s, D, SessionOf[d])
               IN  /\ s.sessions[SessionOf[d]].unansweredBy = {first}
                   /\ s.sessions[SessionOf[d]].writer \in {None, WriterOf(s, first)}
    BY <1>4 DEF CanTerminate
  <1>5. WritersBelong(t)
    <2> SUFFICES ASSUME NEW x \in Sessions, t.sessions[x].writer # None
                 PROVE  LET e == t.sessions[x]
                            r == e.writer.runId
                        IN  /\ SessionOf[r] = x
                            /\ t.runs[r].ownerId # None => e.writer = WriterOf(t, r)
                            /\ t.runs[r].ownerId = None =>
                                    Alive(t, r) /\ e.unansweredBy = {r}
      BY DEF WritersBelong
    <2> DEFINE r == s.sessions[x].writer.runId
    <2>1. t.sessions[x].writer = s.sessions[x].writer /\ s.sessions[x].writer # None
      BY <1>2
    <2>2. r \in Runs /\ s.sessions[x].writer.ownerId # None
      BY <2>1, WriterTyped
    <2>3. /\ SessionOf[r] = x
          /\ s.runs[r].ownerId # None => s.sessions[x].writer = WriterOf(s, r)
          /\ s.runs[r].ownerId = None => Alive(s, r) /\ s.sessions[x].unansweredBy = {r}
      BY <2>1 DEF Bonds, WritersBelong
    <2>4. /\ WriterOf(t, r) = WriterOf(s, r)
          /\ t.runs[r].ownerId = s.runs[r].ownerId
      BY <1>3, <2>2 DEF WriterOf, SameOwner
    <2>5. ASSUME s.runs[r].ownerId = None, NEW d \in D, SessionOf[d] = x
          PROVE  FALSE
      <3> DEFINE first == FirstOn(s, D, x)
      <3>1. /\ s.sessions[x].unansweredBy = {first}
            /\ s.sessions[x].writer \in {None, WriterOf(s, first)}
        BY <1>4, <2>3, <2>5
      <3>2. first = r
        BY <2>3, <2>5, <3>1
      <3>3. s.sessions[x].writer.ownerId = s.runs[r].ownerId
        BY <2>1, <3>1, <3>2 DEF WriterOf
      <3> QED BY <2>2, <2>5, <3>3
    <2>6. ASSUME s.runs[r].ownerId = None
          PROVE  Alive(t, r) /\ t.sessions[x].unansweredBy = {r}
      <3>1. r \notin D
        BY <2>3, <2>5, <2>6
      <3>2. t.runs[r] = s.runs[r]
        BY <1>2, <2>2, <3>1
      <3>3. t.sessions[x].unansweredBy = s.sessions[x].unansweredBy
        BY <1>2, <2>5, <2>6
      <3> QED BY <2>3, <2>6, <3>2, <3>3 DEF Alive
    <2> HIDE DEF r
    <2> QED BY <2>1, <2>3, <2>4, <2>6 DEF r
  <1>6. WaitsAreUnanswered(t)
    <2> SUFFICES ASSUME NEW p \in Runs, Waits(t, p)
                 PROVE  t.sessions[SessionOf[p]].unansweredBy = {p}
      BY DEF WaitsAreUnanswered
    <2>1. p \notin D
      BY <1>2 DEF Waits, Alive
    <2>2. t.runs[p] = s.runs[p]
      BY <1>2, <2>1
    <2>3. Waits(s, p)
      BY <2>2 DEF Waits, Alive
    <2>4. s.sessions[SessionOf[p]].unansweredBy = {p}
      BY <2>3 DEF Bonds, WaitsAreUnanswered
    <2>5. ASSUME NEW d \in D, SessionOf[d] = SessionOf[p]
          PROVE  FALSE
      <3>1. FirstOn(s, D, SessionOf[d]) = d
        BY <2>1, <2>3, <2>5, FirstAlone DEF Alone
      <3>2. s.sessions[SessionOf[d]].unansweredBy = {d}
        BY <1>4, <2>4, <2>5, <3>1
      <3> QED BY <2>1, <2>4, <2>5, <3>2
    <2> QED BY <1>2, <2>4, <2>5, ConstantFacts
  <1> QED BY <1>5, <1>6 DEF Bonds, t

\* A parent that a child takes from its owner waited for a call on its Session: it
\* may stay bound to it.
LEMMA ReconcileKeepsBonds ==
    ASSUME NEW s, NEW D, StateTyped(s), Bonds(s)
    PROVE  Bonds(ReconcileChildWait(s, D))
  <1> DEFINE t == ReconcileChildWait(s, D)
  <1>1. /\ t.sessions = s.sessions
        /\ \A p \in Runs : t.runs[p] = s.runs[p] \/ ResumedBy(s, t, D, p)
    BY ReconcileChildWaitDoes
  <1> HIDE DEF t
  <1>2. ASSUME NEW p \in Runs, ResumedBy(s, t, D, p)
        PROVE  Waits(s, p) /\ Alive(t, p) /\ t.runs[p].ownerId = None
    BY <1>2 DEF ResumedBy, Waits, Alive, Terminal
  <1>3. WritersBelong(t)
    <2> SUFFICES ASSUME NEW x \in Sessions, s.sessions[x].writer # None
                 PROVE  LET e == s.sessions[x]
                            r == e.writer.runId
                        IN  /\ SessionOf[r] = x
                            /\ t.runs[r].ownerId # None => e.writer = WriterOf(t, r)
                            /\ t.runs[r].ownerId = None =>
                                    Alive(t, r) /\ e.unansweredBy = {r}
      BY <1>1 DEF WritersBelong
    <2> DEFINE r == s.sessions[x].writer.runId
    <2>1. r \in Runs
      BY WriterTyped
    <2>2. /\ SessionOf[r] = x
          /\ s.runs[r].ownerId # None => s.sessions[x].writer = WriterOf(s, r)
          /\ s.runs[r].ownerId = None => Alive(s, r) /\ s.sessions[x].unansweredBy = {r}
      BY DEF Bonds, WritersBelong
    <2> HIDE DEF r
    <2>3. CASE t.runs[r] = s.runs[r]
      BY <2>2, <2>3 DEF WriterOf, Alive, r
    <2>4. CASE ResumedBy(s, t, D, r)
      <3>1. s.sessions[x].unansweredBy = {r}
        BY <1>2, <2>1, <2>2, <2>4 DEF Bonds, WaitsAreUnanswered
      <3> QED BY <1>2, <2>1, <2>2, <2>4, <3>1 DEF r
    <2> QED BY <1>1, <2>1, <2>3, <2>4
  <1>4. WaitsAreUnanswered(t)
    <2> SUFFICES ASSUME NEW p \in Runs, Waits(t, p)
                 PROVE  s.sessions[SessionOf[p]].unansweredBy = {p}
      BY <1>1 DEF WaitsAreUnanswered
    <2>1. Waits(s, p)
      BY <1>1, <1>2 DEF Waits, Alive
    <2> QED BY <2>1 DEF Bonds, WaitsAreUnanswered
  <1> QED BY <1>3, <1>4 DEF Bonds, t

\* Lease expiry takes the writers together with the Runs.
LEMMA ReleaseKeepsBonds ==
    ASSUME NEW s, NEW E, StateTyped(s), Bonds(s), None \notin E
    PROVE  Bonds(ReleaseExpiredOwners(s, E))
  <1> DEFINE t == ReleaseExpiredOwners(s, E)
  <1>1. TakesFrom(s, t, E)
    BY ReleaseExpiredOwnersDoes
  <1> HIDE DEF t
  <1>2. WritersBelong(t)
    <2> SUFFICES ASSUME NEW x \in Sessions, t.sessions[x].writer # None
                 PROVE  LET e == t.sessions[x]
                            r == e.writer.runId
                        IN  /\ SessionOf[r] = x
                            /\ t.runs[r].ownerId # None => e.writer = WriterOf(t, r)
                            /\ t.runs[r].ownerId = None =>
                                    Alive(t, r) /\ e.unansweredBy = {r}
      BY DEF WritersBelong
    <2> DEFINE r == s.sessions[x].writer.runId
    <2>1. t.sessions[x] = s.sessions[x] /\ s.sessions[x].writer # None
      BY <1>1 DEF TakesFrom
    <2>2. r \in Runs
      BY <2>1, WriterTyped
    <2>3. /\ SessionOf[r] = x
          /\ s.runs[r].ownerId # None => s.sessions[x].writer = WriterOf(s, r)
          /\ s.runs[r].ownerId = None => Alive(s, r) /\ s.sessions[x].unansweredBy = {r}
      BY <2>1 DEF Bonds, WritersBelong
    <2>4. s.runs[r].ownerId \notin E
      <3>1. s.runs[r].ownerId # None => s.sessions[x].writer.ownerId = s.runs[r].ownerId
        <4>1. WriterOf(s, r).ownerId = s.runs[r].ownerId
          BY DEF WriterOf
        <4> HIDE DEF r
        <4> QED BY <2>3, <4>1
      <3> QED BY <1>1, <2>1, <2>2, <2>3, <3>1 DEF TakesFrom
    <2>5. WriterOf(t, r) = WriterOf(s, r) /\ t.runs[r].ownerId = s.runs[r].ownerId
      BY <1>1, <2>2, <2>4 DEF WriterOf, SameOwner, TakesFrom
    <2>6. Alive(t, r) = Alive(s, r)
      BY <1>1, <2>2 DEF SameRun, Alive, TakesFrom
    <2> HIDE DEF r
    <2> QED BY <2>1, <2>3, <2>5, <2>6 DEF r
  <1>3. WaitsAreUnanswered(t)
    <2> SUFFICES ASSUME NEW p \in Runs, Waits(t, p)
                 PROVE  t.sessions[SessionOf[p]].unansweredBy = {p}
      BY DEF WaitsAreUnanswered
    <2>1. Waits(s, p)
      BY <1>1 DEF Waits, Alive, SameRun, TakesFrom
    <2>2. s.sessions[SessionOf[p]].unansweredBy = {p}
      BY <2>1 DEF Bonds, WaitsAreUnanswered
    <2>3. SessionOf[p] \in Sessions
      BY ConstantFacts
    <2> QED BY <1>1, <2>2, <2>3 DEF TakesFrom
  <1> QED BY <1>2, <1>3 DEF Bonds, t

\* A claim binds the Session to its Run at the new fence.
LEMMA ClaimKeepsBonds ==
    ASSUME NEW s, NEW w \in Workers, NEW r \in Runs, StateTyped(s), Bonds(s), Alive(s, r)
    PROVE  Bonds(ClaimedBy(s, w, r))
  <1> DEFINE t == ClaimedBy(s, w, r)
             x == SessionOf[r]
  <1>0. x \in Sessions
    BY ConstantFacts
  <1>1. /\ \A q \in Runs \ {r} : t.runs[q] = s.runs[q]
        /\ \A y \in Sessions \ {x} : t.sessions[y] = s.sessions[y]
        /\ t.runs[r].ownerId = w
        /\ t.runs[r].cancellationRequested = s.runs[r].cancellationRequested
        /\ t.runs[r].openWaits = s.runs[r].openWaits
        /\ t.sessions[x].writer = WriterOf(t, r)
        /\ t.sessions[x].unansweredBy = s.sessions[x].unansweredBy
    BY <1>0, ClaimedByDoes
  <1> HIDE DEF t
  <1>2. WritersBelong(t)
    <2> SUFFICES ASSUME NEW y \in Sessions, t.sessions[y].writer # None
                 PROVE  LET e == t.sessions[y]
                            q == e.writer.runId
                        IN  /\ SessionOf[q] = y
                            /\ t.runs[q].ownerId # None => e.writer = WriterOf(t, q)
                            /\ t.runs[q].ownerId = None =>
                                    Alive(t, q) /\ e.unansweredBy = {q}
      BY DEF WritersBelong
    <2>1. CASE y = x
      <3>1. t.sessions[y].writer.runId = r
        BY <1>1, <2>1 DEF WriterOf
      <3>2. t.runs[r].ownerId # None
        BY <1>1, ConstantFacts
      <3> QED BY <1>1, <2>1, <3>1, <3>2
    <2>2. CASE y # x
      <3> DEFINE q == s.sessions[y].writer.runId
      <3>1. t.sessions[y] = s.sessions[y] /\ s.sessions[y].writer # None
        BY <1>1, <2>2
      <3>2. q \in Runs
        BY <3>1, WriterTyped
      <3>3. /\ SessionOf[q] = y
            /\ s.runs[q].ownerId # None => s.sessions[y].writer = WriterOf(s, q)
            /\ s.runs[q].ownerId = None => Alive(s, q) /\ s.sessions[y].unansweredBy = {q}
        BY <3>1 DEF Bonds, WritersBelong
      <3>4. t.runs[q] = s.runs[q]
        BY <1>1, <2>2, <3>2, <3>3
      <3> HIDE DEF q
      <3> QED BY <3>1, <3>3, <3>4 DEF WriterOf, Alive, q
    <2> QED BY <2>1, <2>2
  <1>3. WaitsAreUnanswered(t)
    <2> SUFFICES ASSUME NEW p \in Runs, Waits(t, p)
                 PROVE  t.sessions[SessionOf[p]].unansweredBy = {p}
      BY DEF WaitsAreUnanswered
    <2>1. Waits(s, p)
      BY <1>1 DEF Waits, Alive
    <2>2. s.sessions[SessionOf[p]].unansweredBy = {p} /\ SessionOf[p] \in Sessions
      BY <2>1, ConstantFacts DEF Bonds, WaitsAreUnanswered
    <2> QED BY <1>1, <2>2
  <1> QED BY <1>2, <1>3 DEF Bonds, t

\* A Run gives its ownership up together with its Session.
LEMMA DisowningKeepsBonds ==
    ASSUME NEW s, NEW w \in Workers, NEW r \in Runs, NEW claim, StateTyped(s), Bonds(s),
           HoldsRun(s, w, r, claim),
           s.sessions[SessionOf[r]].writer # None
           /\ s.sessions[SessionOf[r]].writer.runId = r
           => s.sessions[SessionOf[r]].writerEpoch = claim.epoch
    PROVE  Bonds(RevokeSession(Disowned(s, r), w, r, claim))
  <1> DEFINE u == Disowned(s, r)
             t == RevokeSession(u, w, r, claim)
             x == SessionOf[r]
             writer == [runId |-> r, ownerId |-> w, runAttemptFence |-> claim.attemptFence]
  <1>0. x \in Sessions
    BY ConstantFacts
  <1>1. /\ StateTyped(u)
        /\ u.sessions = s.sessions
        /\ \A q \in Runs \ {r} : u.runs[q] = s.runs[q]
        /\ u.runs[r].ownerId = None
        /\ SameRun(s.runs[r], u.runs[r])
    BY DisownedDoes
  <1>2. Revokes(u, t, w, r, claim)
    <2> HIDE DEF u
    <2> QED BY <1>1, RevokeSessionDoes
  <1>3. s.runs[r].ownerId = w /\ w # None /\ s.runs[r].attemptFence = claim.attemptFence
    BY ConstantFacts DEF HoldsRun
  <1>4. s.sessions[x].writer # None /\ s.sessions[x].writer.runId = r
        => s.sessions[x].writer = writer
    <2>1. WriterOf(s, r) = writer
      BY <1>3 DEF WriterOf
    <2> HIDE DEF x, writer
    <2> QED BY <1>0, <1>3, <2>1 DEF Bonds, WritersBelong
  <1> HIDE DEF u, t, writer, x
  <1>5. t.sessions[x].writer # None => s.sessions[x].writer.runId # r
    BY <1>0, <1>1, <1>2, <1>4 DEF x, writer, Revokes
  <1>6. WritersBelong(t)
    <2> SUFFICES ASSUME NEW y \in Sessions, t.sessions[y].writer # None
                 PROVE  LET e == t.sessions[y]
                            q == e.writer.runId
                        IN  /\ SessionOf[q] = y
                            /\ t.runs[q].ownerId # None => e.writer = WriterOf(t, q)
                            /\ t.runs[q].ownerId = None =>
                                    Alive(t, q) /\ e.unansweredBy = {q}
      BY DEF WritersBelong
    <2> DEFINE q == s.sessions[y].writer.runId
    <2>1. t.sessions[y] = s.sessions[y] /\ s.sessions[y].writer # None
      BY <1>1, <1>2 DEF Revokes
    <2>2. q \in Runs
      BY <2>1, WriterTyped
    <2>3. /\ SessionOf[q] = y
          /\ s.runs[q].ownerId # None => s.sessions[y].writer = WriterOf(s, q)
          /\ s.runs[q].ownerId = None => Alive(s, q) /\ s.sessions[y].unansweredBy = {q}
      BY <2>1 DEF Bonds, WritersBelong
    <2>4. q # r
      BY <1>5, <2>3 DEF x
    <2>5. t.runs[q] = s.runs[q]
      BY <1>1, <1>2, <2>2, <2>4 DEF Revokes
    <2> HIDE DEF q
    <2> QED BY <2>1, <2>3, <2>5 DEF WriterOf, Alive, q
  <1>7. WaitsAreUnanswered(t)
    <2> SUFFICES ASSUME NEW p \in Runs, Waits(t, p)
                 PROVE  t.sessions[SessionOf[p]].unansweredBy = {p}
      BY DEF WaitsAreUnanswered
    <2>1. Waits(s, p)
      BY <1>1, <1>2 DEF Waits, Alive, SameRun, Revokes
    <2>2. s.sessions[SessionOf[p]].unansweredBy = {p} /\ SessionOf[p] \in Sessions
      BY <2>1, ConstantFacts DEF Bonds, WaitsAreUnanswered
    <2> QED BY <1>1, <1>2, <2>2 DEF Revokes
  <1> QED BY <1>6, <1>7 DEF Bonds, t, u

\* revokeSession only unbinds.
LEMMA RevokingKeepsBonds ==
    ASSUME NEW s, NEW w, NEW r \in Runs, NEW claim, StateTyped(s), Bonds(s)
    PROVE  Bonds(RevokeSession(s, w, r, claim))
  <1> DEFINE t == RevokeSession(s, w, r, claim)
  <1>1. Revokes(s, t, w, r, claim)
    BY RevokeSessionDoes
  <1> HIDE DEF t
  <1>2. Unbinding(s, t)
    BY <1>1 DEF Revokes, Unbinding, SameOwner, Alive, Waits
  <1> QED BY <1>2, UnbindingKeepsBonds DEF t

\* A Run waits for calls on its Session that have no answer.
LEMMA ParkingKeepsBonds ==
    ASSUME NEW s, NEW r \in Runs, NEW W \in SUBSET Runs, StateTyped(s), Bonds(s),
           s.sessions[SessionOf[r]].unansweredBy = {r}
    PROVE  Bonds(Parked(s, r, W))
  <1> DEFINE t == Parked(s, r, W)
  <1>1. /\ t.sessions = s.sessions
        /\ \A q \in Runs \ {r} : t.runs[q] = s.runs[q]
        /\ t.runs[r].ownerId = None
        /\ t.runs[r].status = "waiting"
    BY ParkedDoes
  <1> HIDE DEF t
  <1>2. WritersBelong(t)
    <2> SUFFICES ASSUME NEW x \in Sessions, s.sessions[x].writer # None
                 PROVE  LET e == s.sessions[x]
                            q == e.writer.runId
                        IN  /\ SessionOf[q] = x
                            /\ t.runs[q].ownerId # None => e.writer = WriterOf(t, q)
                            /\ t.runs[q].ownerId = None =>
                                    Alive(t, q) /\ e.unansweredBy = {q}
      BY <1>1 DEF WritersBelong
    <2> DEFINE q == s.sessions[x].writer.runId
    <2>1. q \in Runs
      BY WriterTyped
    <2>2. /\ SessionOf[q] = x
          /\ s.runs[q].ownerId # None => s.sessions[x].writer = WriterOf(s, q)
          /\ s.runs[q].ownerId = None => Alive(s, q) /\ s.sessions[x].unansweredBy = {q}
      BY DEF Bonds, WritersBelong
    <2> HIDE DEF q
    <2>3. CASE q = r
      <3>1. Alive(t, r)
        BY <1>1 DEF Alive, Terminal
      <3> QED BY <1>1, <2>2, <2>3, <3>1 DEF q
    <2>4. CASE q # r
      BY <1>1, <2>1, <2>2, <2>4 DEF WriterOf, Alive, q
    <2> QED BY <2>3, <2>4
  <1>3. WaitsAreUnanswered(t)
    <2> SUFFICES ASSUME NEW p \in Runs, Waits(t, p), p # r
                 PROVE  s.sessions[SessionOf[p]].unansweredBy = {p}
      BY <1>1 DEF WaitsAreUnanswered
    <2>1. Waits(s, p)
      BY <1>1 DEF Waits, Alive
    <2> QED BY <2>1 DEF Bonds, WaitsAreUnanswered
  <1> QED BY <1>2, <1>3 DEF Bonds, t

\* An execution records calls on its own Session, or their results once none
\* of them waits.
LEMMA AnsweringKeepsBonds ==
    ASSUME NEW s, NEW r \in Runs, NEW U \in SUBSET Runs, StateTyped(s), Bonds(s),
           s.sessions[SessionOf[r]].writer # None => s.sessions[SessionOf[r]].writer.runId = r,
           s.runs[r].ownerId # None,
           \A p \in Runs : ~(SessionOf[p] = SessionOf[r] /\ Waits(s, p))
    PROVE  Bonds(WithUnanswered(s, r, U))
  <1> DEFINE t == WithUnanswered(s, r, U)
             x == SessionOf[r]
  <1>1. /\ t.runs = s.runs
        /\ \A y \in Sessions \ {x} : t.sessions[y] = s.sessions[y]
        /\ t.sessions[x].writer = s.sessions[x].writer
    <2>1. SessionOf[r] \in Sessions
      BY ConstantFacts
    <2> QED BY <2>1, WithUnansweredDoes
  <1> HIDE DEF t
  <1>2. WritersBelong(t)
    <2> SUFFICES ASSUME NEW y \in Sessions, t.sessions[y].writer # None
                 PROVE  LET e == t.sessions[y]
                            q == e.writer.runId
                        IN  /\ SessionOf[q] = y
                            /\ t.runs[q].ownerId # None => e.writer = WriterOf(t, q)
                            /\ t.runs[q].ownerId = None =>
                                    Alive(t, q) /\ e.unansweredBy = {q}
      BY DEF WritersBelong
    <2> DEFINE q == s.sessions[y].writer.runId
    <2>1. t.sessions[y].writer = s.sessions[y].writer
      BY <1>1
    <2>2. /\ SessionOf[q] = y
          /\ s.runs[q].ownerId # None => s.sessions[y].writer = WriterOf(s, q)
          /\ s.runs[q].ownerId = None => Alive(s, q) /\ s.sessions[y].unansweredBy = {q}
      BY <2>1 DEF Bonds, WritersBelong
    <2>3. y = x => q = r
      BY <2>1
    <2> HIDE DEF q
    <2> QED BY <1>1, <2>1, <2>2, <2>3 DEF WriterOf, Alive, q
  <1>3. WaitsAreUnanswered(t)
    <2> SUFFICES ASSUME NEW p \in Runs, Waits(t, p)
                 PROVE  t.sessions[SessionOf[p]].unansweredBy = {p}
      BY DEF WaitsAreUnanswered
    <2>1. Waits(s, p)
      BY <1>1 DEF Waits, Alive
    <2>2. s.sessions[SessionOf[p]].unansweredBy = {p} /\ SessionOf[p] \in Sessions \ {x}
      BY <2>1, ConstantFacts DEF Bonds, WaitsAreUnanswered
    <2> QED BY <1>1, <2>2
  <1> QED BY <1>2, <1>3 DEF Bonds, t

\* A settlement with what it does in between: the Runs end, the parents that
\* wait for them go on, the queued parents start.
LEMMA SettledSteps ==
    ASSUME NEW s, NEW D, NEW status
    PROVE  Settled(s, D, status)
              = StartParents(ReconcileChildWait(Terminate(s, D, status), D), D)
  BY DEF Settled

\* Runs settle, then the parents that waited for them, then the ones that were
\* only cancelled for them.
LEMMA SettleKeepsLife ==
    ASSUME NEW s, NEW D, NEW status, StateTyped(s), Life(s, {}), MayEnd(s, D, status)
    PROVE  LET u == Settled(s, D, status)
               parents == CancellingParents(u, D)
               v == Terminate(u, parents, "cancelled")
           IN  /\ StateTyped(Terminate(s, D, status))
               /\ StateTyped(ReconcileChildWait(Terminate(s, D, status), D))
               /\ StateTyped(u) /\ StateTyped(v)
               /\ MayEnd(u, parents, "cancelled")
               /\ StateTyped(Settle(s, D, status))
               /\ Life(Settle(s, D, status), {})
  <1> DEFINE d == Terminate(s, D, status)
             e == ReconcileChildWait(d, D)
             u == Settled(s, D, status)
             parents == CancellingParents(u, D)
             v == Terminate(u, parents, "cancelled")
             t == Settle(s, D, status)
  <1>1. /\ status \in Statuses /\ status \in Terminal /\ "cancelled" \in Statuses
        /\ "cancelled" \in Terminal /\ D \subseteq Runs
    BY DEF MayEnd, Statuses, Terminal
  <1>2. /\ StateTyped(d) /\ Life(d, D)
        /\ \A r \in D : ~Alive(d, r)
    <2>1. /\ StateTyped(d)
          /\ \A r \in D \cap Runs : d.runs[r].status = status
      BY <1>1, TerminateDoes
    <2>2. Life(d, D)
      BY TerminateKeepsLife
    <2> HIDE DEF d
    <2> QED BY <1>1, <2>1, <2>2 DEF Alive
  <1>3. u = StartParents(e, D)
    BY SettledSteps
  <1> HIDE DEF d, u
  <1>4. /\ StateTyped(e) /\ StateTyped(u) /\ Life(u, {})
    <2>1. StateTyped(e) /\ Life(e, {})
      BY <1>2, ReconcileChildWaitDoes, ReconcileKeepsLife
    <2> HIDE DEF e
    <2>2. StateTyped(u) /\ Quiet(e, u)
      BY <1>3, <2>1, StartParentsDoes, StartingIsQuiet
    <2> QED BY <2>1, <2>2, QuietKeepsLife
  <1>5. /\ parents \subseteq Runs
        /\ \A p \in parents : Parent[p] = None /\ Alive(u, p) /\ UnsettledChildren(u, p) = {}
    <2> SUFFICES ASSUME NEW p \in parents
                 PROVE  p \in Runs /\ Parent[p] = None /\ Alive(u, p)
                        /\ UnsettledChildren(u, p) = {}
      OBVIOUS
    <2>1. PICK c \in D : p = Parent[c]
      BY DEF CancellingParents
    <2>2. p # None /\ u.runs[p].status = "cancelling" /\ UnsettledChildren(u, p) = {}
      BY DEF CancellingParents
    <2>3. p \in Runs
      BY <1>1, <2>1, <2>2, ConstantFacts
    <2>4. c \in Children(p)
      BY <1>1, <2>1 DEF Children
    <2> QED BY <2>2, <2>3, <2>4, TwoLevels DEF Alive, Terminal
  <1> HIDE DEF parents
  <1>6. MayEnd(u, parents, "cancelled")
    BY <1>1, <1>5 DEF MayEnd
  <1>7. StateTyped(v) /\ Life(v, parents)
    BY <1>1, <1>4, <1>6, TerminateDoes, TerminateKeepsLife
  <1>8. t = AfterTerminal(v, D \cup parents)
    BY DEF Settle, u, parents
  <1> HIDE DEF v, t
  <1>9. Life(v, {})
    <2>1. ASSUME NEW r \in Runs, v.runs[r].status = "waiting",
                 ~v.runs[r].cancellationRequested
          PROVE  \E k \in v.runs[r].openWaits : k = r \/ Alive(v, k)
      <3>1. PICK k \in v.runs[r].openWaits : k = r \/ Alive(v, k) \/ k \in parents
        BY <1>7, <2>1 DEF Life, Wakeable
      <3>2. k \in Tokens(r)
        BY <1>7 DEF Life, WaitsAreOwn
      <3>3. k \in parents => k = r
        <4> SUFFICES ASSUME k \in parents, k # r PROVE FALSE
          OBVIOUS
        <4>1. Parent[k] = r
          BY <3>2 DEF Tokens, Children
        <4> QED BY <1>5, <4>1, ConstantFacts
      <3> QED BY <3>1, <3>3
    <2> QED BY <1>7, <2>1 DEF Life, Wakeable
  <1>10. StateTyped(t) /\ Quiet(v, t)
    BY <1>7, <1>8, AfterTerminalDoes, StartingIsQuiet
  <1>11. Life(t, {})
    BY <1>7, <1>9, <1>10, QuietKeepsLife
  <1> QED BY <1>2, <1>4, <1>6, <1>7, <1>10, <1>11 DEF d, e, u, parents, v, t

\* Starting Runs keeps the bonds.
LEMMA StartingKeepsBonds ==
    ASSUME NEW s, NEW t, StateTyped(s), Bonds(s), t.sessions = s.sessions,
           \A r \in Runs : t.runs[r] = s.runs[r] \/ StartedIn(s, t, r)
    PROVE  Bonds(t)
  <1>1. ASSUME NEW r \in Runs
        PROVE  /\ SameOwner(s.runs[r], t.runs[r])
               /\ Alive(s, r) => Alive(t, r)
               /\ Waits(t, r) => Waits(s, r)
    <2>1. CASE t.runs[r] = s.runs[r]
      BY <2>1 DEF SameOwner, Alive, Waits
    <2>2. CASE StartedIn(s, t, r)
      BY <2>2 DEF StartedIn, Alive, Waits, Terminal
    <2> QED BY <2>1, <2>2
  <1>2. Unbinding(s, t)
    BY <1>1 DEF Unbinding
  <1> QED BY <1>2, UnbindingKeepsBonds

\* The settlement of Runs, their waiting parents and their cancelling parents
\* keeps the bonds.
LEMMA SettleKeepsBonds ==
    ASSUME NEW s, NEW r \in Runs, NEW D, NEW status, StateTyped(s), Life(s, {}),
           MayEnd(s, D, status), Bonds(s), CanSettle(s, D, status), Alone(s, D),
           D \subseteq {r} \cup Children(r)
    PROVE  Bonds(Settle(s, D, status))
  <1> DEFINE d == Terminate(s, D, status)
             e == ReconcileChildWait(d, D)
             u == Settled(s, D, status)
             parents == CancellingParents(u, D)
             v == Terminate(u, parents, "cancelled")
             t == Settle(s, D, status)
  <1>1. /\ StateTyped(d) /\ StateTyped(e) /\ StateTyped(u) /\ StateTyped(v)
        /\ MayEnd(u, parents, "cancelled")
    BY SettleKeepsLife
  <1>2. /\ CanTerminate(s, D, status)
        /\ CanTerminate(u, parents, "cancelled")
    BY DEF CanSettle
  <1>3. u = StartParents(e, D) /\ t = AfterTerminal(v, D \cup parents)
    BY SettledSteps DEF Settle
  <1>4. /\ status \in Terminal /\ "cancelled" \in Terminal /\ D \subseteq Runs
        /\ parents \subseteq Runs
    BY <1>1 DEF MayEnd, Terminal
  <1>5. Bonds(d)
    BY <1>2, <1>4, TerminateKeepsBonds
  <1>6. \A p, q \in parents : p = q
    <2> SUFFICES ASSUME NEW p \in parents PROVE p = IF Parent[r] = None THEN r ELSE Parent[r]
      OBVIOUS
    <2>1. PICK c \in D : p = Parent[c] /\ p # None
      BY DEF CancellingParents
    <2>2. CASE c = r
      BY <2>1, <2>2
    <2>3. CASE c \in Children(r)
      BY <2>1, <2>3, TwoLevels
    <2> QED BY <2>2, <2>3
  <1> HIDE DEF d, u, parents
  <1>7. Bonds(u)
    <2>1. Bonds(e)
      BY <1>1, <1>5, ReconcileKeepsBonds
    <2> HIDE DEF e
    <2> QED BY <1>1, <1>3, <2>1, StartParentsDoes, StartingKeepsBonds
  <1>8. Alone(u, parents)
    BY <1>6 DEF Alone
  <1>9. Bonds(v)
    BY <1>1, <1>2, <1>4, <1>7, <1>8, TerminateKeepsBonds
  <1> HIDE DEF v, t
  <1>10. Bonds(t)
    BY <1>1, <1>3, <1>9, AfterTerminalDoes, StartingKeepsBonds
  <1> QED BY <1>10 DEF t

-----------------------------------------------------------------------------
(* Claims.                                                                 *)

\* A step that gives no Run and no Session to anybody.
NoNewClaims(s, t) ==
    /\ \A r \in Runs :
         /\ s.runs[r].attemptFence <= t.runs[r].attemptFence
         /\ t.runs[r].ownerId # None =>
                /\ SameOwner(s.runs[r], t.runs[r])
                /\ t.runs[r].openWaits \subseteq s.runs[r].openWaits
    /\ \A x \in Sessions : t.sessions[x].writer # None =>
         /\ t.sessions[x].writer = s.sessions[x].writer
         /\ t.sessions[x].writerEpoch = s.sessions[x].writerEpoch

\* The claim of r stays what it is.
KeepsClaim(s, t, r) ==
    /\ SameOwner(s.runs[r], t.runs[r])
    /\ t.sessions[SessionOf[r]].writer = s.sessions[SessionOf[r]].writer
    /\ t.sessions[SessionOf[r]].writerEpoch = s.sessions[SessionOf[r]].writerEpoch

\* A child of r answers a wait of r.
ClosesChild(s, t, r) ==
    \E c \in Children(r) : c \in t.runs[r].closedWaits \ s.runs[r].closedWaits

\* Attempt fences are natural numbers.
LEMMA FencesAreNumbers ==
    ASSUME NEW s, StateTyped(s), NEW r \in Runs
    PROVE  s.runs[r].attemptFence \in Nat
  BY DEF StateTyped, StoredRun

\* Steps that claim nothing compose.
LEMMA NoNewClaimsTransitive ==
    ASSUME NEW s, NEW u, NEW t, StateTyped(s), StateTyped(u), StateTyped(t),
           NoNewClaims(s, u), NoNewClaims(u, t)
    PROVE  NoNewClaims(s, t)
  <1>1. ASSUME NEW r \in Runs
        PROVE  s.runs[r].attemptFence <= t.runs[r].attemptFence
    <2>1. /\ s.runs[r].attemptFence \in Nat /\ u.runs[r].attemptFence \in Nat
          /\ t.runs[r].attemptFence \in Nat
      BY FencesAreNumbers
    <2>2. /\ s.runs[r].attemptFence <= u.runs[r].attemptFence
          /\ u.runs[r].attemptFence <= t.runs[r].attemptFence
      BY DEF NoNewClaims
    <2> QED BY <2>1, <2>2
  <1>2. ASSUME NEW r \in Runs, t.runs[r].ownerId # None
        PROVE  /\ SameOwner(s.runs[r], t.runs[r])
               /\ t.runs[r].openWaits \subseteq s.runs[r].openWaits
    BY <1>2 DEF NoNewClaims, SameOwner
  <1>3. ASSUME NEW x \in Sessions, t.sessions[x].writer # None
        PROVE  /\ t.sessions[x].writer = s.sessions[x].writer
               /\ t.sessions[x].writerEpoch = s.sessions[x].writerEpoch
    BY <1>3 DEF NoNewClaims
  <1> QED BY <1>1, <1>2, <1>3 DEF NoNewClaims

\* The owners stay, and the Sessions that have a writer.
LEMMA SameOwnersMakeNoClaims ==
    ASSUME NEW s, NEW t, StateTyped(s),
           \A r \in Runs : /\ SameOwner(s.runs[r], t.runs[r])
                           /\ t.runs[r].openWaits \subseteq s.runs[r].openWaits,
           \A x \in Sessions : t.sessions[x].writer # None =>
                /\ t.sessions[x].writer = s.sessions[x].writer
                /\ t.sessions[x].writerEpoch = s.sessions[x].writerEpoch
    PROVE  NoNewClaims(s, t)
  <1>1. \A r \in Runs : s.runs[r].attemptFence <= t.runs[r].attemptFence
    BY FencesAreNumbers DEF SameOwner
  <1> QED BY <1>1 DEF NoNewClaims

\* The end of Runs takes no claim from anybody.
LEMMA TerminateMakesNoClaims ==
    ASSUME NEW s, NEW D, NEW status \in Statuses, StateTyped(s)
    PROVE  LET t == Terminate(s, D, status)
           IN  /\ NoNewClaims(s, t)
               /\ \A r \in Runs : s.sessions[SessionOf[r]].writer # None =>
                        KeepsClaim(s, t, r)
               /\ \A r \in Runs : s.runs[r].closedWaits \subseteq t.runs[r].closedWaits
  <1> DEFINE t == Terminate(s, D, status)
  <1>1. /\ \A r \in Runs \ D : t.runs[r] = s.runs[r]
        /\ \A r \in D \cap Runs :
             /\ SameOwner(s.runs[r], t.runs[r])
             /\ t.runs[r].openWaits \subseteq s.runs[r].openWaits
             /\ s.runs[r].closedWaits \subseteq t.runs[r].closedWaits
        /\ \A x \in Sessions :
             /\ t.sessions[x].writer = s.sessions[x].writer
             /\ s.sessions[x].writer # None =>
                    t.sessions[x].writerEpoch = s.sessions[x].writerEpoch
    BY TerminateDoes
  <1> HIDE DEF t
  <1>2. \A r \in Runs : /\ SameOwner(s.runs[r], t.runs[r])
                        /\ t.runs[r].openWaits \subseteq s.runs[r].openWaits
                        /\ s.runs[r].closedWaits \subseteq t.runs[r].closedWaits
    BY <1>1 DEF SameOwner
  <1>3. NoNewClaims(s, t)
    BY <1>1, <1>2, SameOwnersMakeNoClaims
  <1>4. \A r \in Runs : s.sessions[SessionOf[r]].writer # None => KeepsClaim(s, t, r)
    BY <1>1, <1>2, ConstantFacts DEF KeepsClaim
  <1> QED BY <1>2, <1>3, <1>4 DEF t

\* reconcileChildWait takes claims from those it resumes only.
LEMMA ReconcileMakesNoClaims ==
    ASSUME NEW s, NEW D, StateTyped(s), WaitsAreOwn(s)
    PROVE  LET t == ReconcileChildWait(s, D)
           IN  /\ NoNewClaims(s, t)
               /\ \A r \in Runs : KeepsClaim(s, t, r) \/ ClosesChild(s, t, r)
               /\ \A r \in Runs : s.runs[r].closedWaits \subseteq t.runs[r].closedWaits
  <1> DEFINE t == ReconcileChildWait(s, D)
  <1>1. /\ t.sessions = s.sessions
        /\ \A p \in Runs : t.runs[p] = s.runs[p] \/ ResumedBy(s, t, D, p)
    BY ReconcileChildWaitDoes
  <1> HIDE DEF t
  <1>2. NoNewClaims(s, t)
    <2>1. ASSUME NEW r \in Runs
          PROVE  /\ s.runs[r].attemptFence <= t.runs[r].attemptFence
                 /\ t.runs[r].ownerId # None => t.runs[r] = s.runs[r]
      BY <1>1, FencesAreNumbers DEF ResumedBy
    <2> QED BY <1>1, <2>1 DEF NoNewClaims, SameOwner
  <1>3. ASSUME NEW r \in Runs
        PROVE  /\ KeepsClaim(s, t, r) \/ ClosesChild(s, t, r)
               /\ s.runs[r].closedWaits \subseteq t.runs[r].closedWaits
    <2>1. CASE t.runs[r] = s.runs[r]
      BY <1>1, <2>1 DEF KeepsClaim, SameOwner
    <2>2. CASE ResumedBy(s, t, D, r)
      <3>1. PICK c \in D : c # r /\ c \in s.runs[r].openWaits
        BY <2>2 DEF ResumedBy
      <3>2. c \in Children(r) /\ c \notin s.runs[r].closedWaits
        BY <3>1 DEF WaitsAreOwn, Tokens
      <3>3. /\ c \in t.runs[r].closedWaits
            /\ s.runs[r].closedWaits \subseteq t.runs[r].closedWaits
        BY <2>2, <3>1 DEF ResumedBy
      <3> QED BY <3>2, <3>3 DEF ClosesChild
    <2> QED BY <1>1, <2>1, <2>2
  <1> QED BY <1>2, <1>3 DEF t

\* Starting Runs takes no claim from anybody.
LEMMA StartingMakesNoClaims ==
    ASSUME NEW s, NEW t, StateTyped(s), t.sessions = s.sessions,
           \A r \in Runs : t.runs[r] = s.runs[r] \/ StartedIn(s, t, r)
    PROVE  /\ NoNewClaims(s, t)
           /\ \A r \in Runs : KeepsClaim(s, t, r)
           /\ \A r \in Runs : s.runs[r].closedWaits \subseteq t.runs[r].closedWaits
  <1>1. \A r \in Runs : /\ SameOwner(s.runs[r], t.runs[r])
                        /\ t.runs[r].openWaits = s.runs[r].openWaits
                        /\ t.runs[r].closedWaits = s.runs[r].closedWaits
    BY DEF StartedIn, SameOwner
  <1>2. NoNewClaims(s, t)
    BY <1>1, SameOwnersMakeNoClaims
  <1> QED BY <1>1, <1>2 DEF KeepsClaim

\* A settlement takes claims from parents whose wait it answers only.
LEMMA SettleMakesNoClaims ==
    ASSUME NEW s, NEW D, NEW status, StateTyped(s), Life(s, {}), MayEnd(s, D, status)
    PROVE  LET t == Settle(s, D, status)
           IN  /\ NoNewClaims(s, t)
               /\ \A r \in Runs : s.sessions[SessionOf[r]].writer # None =>
                        KeepsClaim(s, t, r) \/ ClosesChild(s, t, r)
  <1> DEFINE d == Terminate(s, D, status)
             e == ReconcileChildWait(d, D)
             u == Settled(s, D, status)
             parents == CancellingParents(u, D)
             v == Terminate(u, parents, "cancelled")
             t == Settle(s, D, status)
  <1>1. /\ StateTyped(d) /\ StateTyped(e) /\ StateTyped(u) /\ StateTyped(v) /\ StateTyped(t)
    BY SettleKeepsLife
  <1>2. u = StartParents(e, D) /\ t = AfterTerminal(v, D \cup parents)
    BY SettledSteps DEF Settle
  <1>3. status \in Statuses /\ "cancelled" \in Statuses
    BY DEF MayEnd, Statuses, Terminal
  <1>4. WaitsAreOwn(d)
    BY TerminateKeepsLife DEF Life
  <1>5. /\ NoNewClaims(s, d)
        /\ \A r \in Runs : s.sessions[SessionOf[r]].writer # None => KeepsClaim(s, d, r)
        /\ \A r \in Runs : s.runs[r].closedWaits \subseteq d.runs[r].closedWaits
    BY <1>3, TerminateMakesNoClaims
  <1>6. /\ NoNewClaims(u, v)
        /\ \A r \in Runs : u.sessions[SessionOf[r]].writer # None => KeepsClaim(u, v, r)
        /\ \A r \in Runs : u.runs[r].closedWaits \subseteq v.runs[r].closedWaits
    BY <1>1, <1>3, TerminateMakesNoClaims
  <1> HIDE DEF d, u, v, t, parents
  <1>7. /\ NoNewClaims(d, u)
        /\ \A r \in Runs : KeepsClaim(d, u, r) \/ ClosesChild(d, u, r)
    <2>1. /\ NoNewClaims(d, e)
          /\ \A r \in Runs : KeepsClaim(d, e, r) \/ ClosesChild(d, e, r)
      BY <1>1, <1>4, ReconcileMakesNoClaims
    <2> HIDE DEF e
    <2>2. /\ NoNewClaims(e, u)
          /\ \A r \in Runs : KeepsClaim(e, u, r)
          /\ \A r \in Runs : e.runs[r].closedWaits \subseteq u.runs[r].closedWaits
      BY <1>1, <1>2, StartParentsDoes, StartingMakesNoClaims
    <2>3. NoNewClaims(d, u)
      BY <1>1, <2>1, <2>2, NoNewClaimsTransitive
    <2>4. ASSUME NEW r \in Runs
          PROVE  KeepsClaim(d, u, r) \/ ClosesChild(d, u, r)
      <3>1. CASE KeepsClaim(d, e, r)
        BY <2>2, <3>1 DEF KeepsClaim, SameOwner
      <3>2. CASE ClosesChild(d, e, r)
        BY <2>2, <3>2 DEF ClosesChild
      <3> QED BY <2>1, <3>1, <3>2
    <2> QED BY <2>3, <2>4
  <1>8. /\ NoNewClaims(v, t)
        /\ \A r \in Runs : KeepsClaim(v, t, r)
        /\ \A r \in Runs : v.runs[r].closedWaits \subseteq t.runs[r].closedWaits
    <2>1. /\ StateTyped(t) /\ t.sessions = v.sessions
          /\ \A r \in Runs : t.runs[r] = v.runs[r] \/ StartedIn(v, t, r)
      BY <1>1, <1>2, AfterTerminalDoes
    <2> QED BY <1>1, <2>1, StartingMakesNoClaims
  <1>9. NoNewClaims(s, t)
    BY <1>1, <1>5, <1>6, <1>7, <1>8, NoNewClaimsTransitive
  <1>10. ASSUME NEW r \in Runs, s.sessions[SessionOf[r]].writer # None
         PROVE  KeepsClaim(s, t, r) \/ ClosesChild(s, t, r)
    <2>1. KeepsClaim(s, d, r) /\ d.sessions[SessionOf[r]].writer # None
      BY <1>5, <1>10 DEF KeepsClaim
    <2>2. CASE ClosesChild(d, u, r)
      BY <1>5, <1>6, <1>8, <2>2 DEF ClosesChild
    <2>3. CASE KeepsClaim(d, u, r)
      <3>1. KeepsClaim(u, v, r)
        BY <1>6, <2>1, <2>3 DEF KeepsClaim
      <3> QED BY <1>8, <2>1, <2>3, <3>1 DEF KeepsClaim, SameOwner
    <2> QED BY <1>7, <2>2, <2>3
  <1> QED BY <1>9, <1>10 DEF t

-----------------------------------------------------------------------------
(* Lanes.                                                                  *)

OnLane(lane, r) == \E i \in DOMAIN lane : lane[i] = r
Unique(lane) == \A i, j \in DOMAIN lane : lane[i] = lane[j] => i = j

\* LanesServed in a state s in the middle of a command, in which the Runs E have
\* yet to leave their lanes: who is on which lane, and the heads of the lanes but
\* for those of G and for the lanes X.
Queues(s, E) ==
    /\ s.lanes \in [Sessions -> Seq(Runs)]
    /\ \A x \in Sessions : Unique(s.lanes[x])
    /\ \A x \in Sessions, r \in Runs : OnLane(s.lanes[x], r) =>
            Parent[r] = None /\ SessionOf[r] = x /\ (Alive(s, r) \/ r \in E)
    /\ \A r \in Runs : /\ Parent[r] = None /\ SessionOf[r] \in Hosted
                       /\ Alive(s, r) \/ r \in E
                       => OnLane(s.lanes[SessionOf[r]], r)
HeadsStarted(s, G, X) ==
    \A x \in Sessions \ X :
        /\ s.lanes[x] # << >> /\ Head(s.lanes[x]) \notin G
        /\ s.runs[Head(s.lanes[x])].status = "queued"
        => UnsettledChildren(s, Head(s.lanes[x])) # {}

\* What the status of a Run says of it.
Marks(s) ==
    \A r \in Runs :
        /\ s.runs[r].status = "cancelling" => s.runs[r].cancellationRequested
        /\ s.runs[r].status \in {"absent", "queued"} =>
              ~s.runs[r].cancellationRequested /\ s.runs[r].openWaits = {}
        /\ s.runs[r].status = "absent" => s.runs[r].ownerId = None

\* The lanes in the middle of a settlement, after which the Runs P may start.
Lining(s, E, P) == Queues(s, E) /\ HeadsStarted(s, E \cup P, {}) /\ Marks(s)
Lined(s, E) == Lining(s, E, {})

\* The lane without a Run that leaves it.
LEMMA WithoutDoes ==
    ASSUME NEW lane \in Seq(Runs), NEW D, Unique(lane),
           \A q, r \in Runs :
                OnLane(lane, q) /\ q \in D /\ OnLane(lane, r) /\ r \in D => q = r
    PROVE  LET m == Without(lane, D)
           IN  /\ m \in Seq(Runs)
               /\ Unique(m)
               /\ \A r \in Runs : OnLane(m, r) <=> OnLane(lane, r) /\ r \notin D
               /\ m # << >> /\ Head(lane) \notin D => Head(m) = Head(lane)
  <1> DEFINE m == Without(lane, D)
  <1>1. CASE \A i \in DOMAIN lane : lane[i] \notin D
    <2>1. m = lane
      BY <1>1 DEF Without
    <2> QED BY <1>1, <2>1 DEF OnLane
  <1>2. CASE \E i \in DOMAIN lane : lane[i] \in D
    <2> DEFINE k == CHOOSE i \in DOMAIN lane : lane[i] \in D
               n == Len(lane) - 1
    <2>1. k \in DOMAIN lane /\ lane[k] \in D
      BY <1>2
    <2>2. m = [i \in 1 .. n |-> IF i < k THEN lane[i] ELSE lane[i + 1]]
      BY <1>2 DEF Without
    <2> HIDE DEF k, m
    <2>3. /\ Len(lane) \in Nat /\ DOMAIN lane = 1 .. Len(lane)
          /\ k \in 1 .. Len(lane) /\ n \in Nat
          /\ \A i \in 1 .. Len(lane) : lane[i] \in Runs
      BY <2>1
    <2>4. \A i \in 1 .. Len(lane) : lane[i] \in D => i = k
      BY <2>1, <2>3 DEF OnLane, Unique
    <2> HIDE DEF n
    <2>5. n + 1 = Len(lane)
      BY <2>3 DEF n
    <2>6. m \in Seq(Runs)
      <3>1. \A i \in 1 .. n : m[i] \in Runs
        BY <2>2, <2>3, <2>5
      <3> QED BY <2>2, <2>3, <3>1, IsASeq
    <2>7. DOMAIN m = 1 .. n
      BY <2>2
    <2>8. \A i \in 1 .. n : m[i] = IF i < k THEN lane[i] ELSE lane[i + 1]
      BY <2>2
    <2>9. Unique(m)
      <3> SUFFICES ASSUME NEW i \in 1 .. n, NEW j \in 1 .. n, m[i] = m[j]
                   PROVE  i = j
        BY <2>7 DEF Unique
      <3> DEFINE p == IF i < k THEN i ELSE i + 1
                 q == IF j < k THEN j ELSE j + 1
      <3>1. p \in 1 .. Len(lane) /\ q \in 1 .. Len(lane)
        BY <2>3, <2>5
      <3>2. lane[p] = m[i] /\ lane[q] = m[j]
        BY <2>8
      <3>3. p = q
        BY <2>3, <3>1, <3>2 DEF Unique
      <3> QED BY <2>3, <3>3
    <2>10. ASSUME NEW r \in Runs
           PROVE  OnLane(m, r) <=> OnLane(lane, r) /\ r \notin D
      <3>1. ASSUME OnLane(m, r) PROVE OnLane(lane, r) /\ r \notin D
        <4>1. PICK i \in 1 .. n : m[i] = r
          BY <2>7, <3>1 DEF OnLane
        <4> DEFINE p == IF i < k THEN i ELSE i + 1
        <4>2. p \in 1 .. Len(lane) /\ p # k
          BY <2>3, <2>5
        <4>3. lane[p] = r
          BY <2>8, <4>1
        <4> HIDE DEF p
        <4> QED BY <2>3, <2>4, <4>2, <4>3 DEF OnLane
      <3>2. ASSUME OnLane(lane, r), r \notin D PROVE OnLane(m, r)
        <4>1. PICK p \in 1 .. Len(lane) : lane[p] = r
          BY <2>3, <3>2 DEF OnLane
        <4>2. p # k
          BY <2>1, <3>2, <4>1
        <4> DEFINE i == IF p < k THEN p ELSE p - 1
        <4>3. i \in 1 .. n /\ m[i] = r
          <5>1. CASE p < k
            BY <2>3, <2>5, <2>8, <4>1, <5>1
          <5>2. CASE k < p
            <6>1. p - 1 \in 1 .. n /\ ~(p - 1 < k) /\ (p - 1) + 1 = p
              BY <2>3, <2>5, <5>2
            <6>2. i = p - 1
              BY <2>3, <5>2
            <6> HIDE DEF i
            <6> QED BY <2>8, <4>1, <6>1, <6>2
          <5> QED BY <2>3, <4>2, <5>1, <5>2
        <4> QED BY <2>7, <4>3 DEF OnLane
      <3> QED BY <3>1, <3>2
    <2>11. ASSUME m # << >>, Head(lane) \notin D
           PROVE  Head(m) = Head(lane)
      <3>1. Head(lane) = lane[1]
        BY <2>3
      <3>2. k # 1
        BY <2>1, <2>11, <3>1
      <3>3. n # 0
        BY <2>3, <2>5, <3>2
      <3>4. m[1] = lane[1] /\ Head(m) = m[1]
        BY <2>3, <2>6, <2>7, <2>8, <3>2, <3>3
      <3> QED BY <3>1, <3>4
    <2> QED BY <2>6, <2>9, <2>10, <2>11 DEF m
  <1> QED BY <1>1, <1>2

\* One lane at a time: who is where, in a state whose queues are in order.
LEMMA LaneMembers ==
    ASSUME NEW s, NEW E, Queues(s, E), NEW x \in Sessions
    PROVE  /\ s.lanes[x] \in Seq(Runs)
           /\ \A i \in DOMAIN s.lanes[x] :
                LET r == s.lanes[x][i]
                IN  r \in Runs /\ Parent[r] = None /\ SessionOf[r] = x
           /\ s.lanes[x] # << >> => /\ Head(s.lanes[x]) = s.lanes[x][1]
                                    /\ 1 \in DOMAIN s.lanes[x]
  <1>1. s.lanes[x] \in Seq(Runs)
    BY DEF Queues
  <1>2. ASSUME NEW i \in DOMAIN s.lanes[x]
        PROVE  LET r == s.lanes[x][i]
               IN  r \in Runs /\ Parent[r] = None /\ SessionOf[r] = x
    <2>1. s.lanes[x][i] \in Runs
      BY <1>1
    <2> QED BY <2>1 DEF Queues, OnLane
  <1>3. s.lanes[x] # << >> => /\ Head(s.lanes[x]) = s.lanes[x][1]
                              /\ 1 \in DOMAIN s.lanes[x]
    BY <1>1
  <1> QED BY <1>1, <1>2, <1>3

\* A step that changes no lane: the roots that are alive or have yet to leave
\* stay the same, none of them is queued anew, and the children of those that are
\* queued live on.
LEMMA LanesStay ==
    ASSUME NEW s, NEW t, NEW E, NEW F, NEW G, NEW H, NEW X,
           Queues(s, E), HeadsStarted(s, G, X), t.lanes = s.lanes,
           \A r \in Runs : Parent[r] = None =>
                /\ (Alive(t, r) \/ r \in F) <=> (Alive(s, r) \/ r \in E)
                /\ r \notin H /\ t.runs[r].status = "queued" =>
                        r \notin G /\ s.runs[r].status = "queued",
           \A c \in Runs : Alive(s, c) => Alive(t, c) \/ Parent[c] \in H
    PROVE  Queues(t, F) /\ HeadsStarted(t, H, X)
  <1>1. Queues(t, F)
    BY DEF Queues
  <1>2. ASSUME NEW x \in Sessions \ X, t.lanes[x] # << >>, Head(t.lanes[x]) \notin H,
               t.runs[Head(t.lanes[x])].status = "queued"
        PROVE  UnsettledChildren(t, Head(t.lanes[x])) # {}
    <2> DEFINE r == Head(s.lanes[x])
    <2>1. r \in Runs /\ Parent[r] = None
      BY <1>2, LaneMembers
    <2>2. r \notin G /\ s.runs[r].status = "queued"
      BY <1>2, <2>1
    <2>3. UnsettledChildren(s, r) # {}
      BY <1>2, <2>2 DEF HeadsStarted
    <2> HIDE DEF r
    <2>4. UnsettledChildren(s, r) \subseteq UnsettledChildren(t, r)
      BY <1>2 DEF UnsettledChildren, Children, r
    <2> QED BY <2>3, <2>4 DEF r
  <1> QED BY <1>1, <1>2 DEF HeadsStarted

\* The end of Runs: they have yet to leave their lanes, and their parents may
\* have to start.
LEMMA TerminateKeepsLines ==
    ASSUME NEW s, NEW D, NEW E, NEW status \in Terminal, StateTyped(s), Lined(s, E),
           D \subseteq Runs, \A d \in D : Alive(s, d)
    PROVE  Lining(Terminate(s, D, status), E \cup D, {Parent[d] : d \in D})
  <1> DEFINE t == Terminate(s, D, status)
             H == (E \cup D) \cup {Parent[d] : d \in D}
  <1>1. status \in Statuses /\ status \notin {"queued", "cancelling", "absent"}
    BY DEF Statuses, Terminal
  <1>2. /\ t.lanes = s.lanes
        /\ \A r \in Runs \ D : t.runs[r] = s.runs[r]
        /\ \A r \in D \cap Runs : t.runs[r].status = status
    BY <1>1, TerminateDoes
  <1> HIDE DEF t
  <1>3. \A r \in Runs :
            /\ (Alive(t, r) \/ r \in E \cup D) <=> (Alive(s, r) \/ r \in E)
            /\ r \notin E \cup D => t.runs[r] = s.runs[r] /\ r \notin E
    BY <1>2 DEF Alive
  <1>4. \A c \in Runs : Alive(s, c) => Alive(t, c) \/ Parent[c] \in H
    BY <1>2 DEF Alive
  <1>5. Queues(s, E) /\ HeadsStarted(s, E, {})
    <2>1. E \cup {} = E
      OBVIOUS
    <2> QED BY <2>1 DEF Lined, Lining
  <1>6. \A r \in Runs : r \notin H => r \notin E \cup D
    OBVIOUS
  <1> HIDE DEF H
  <1>7. Queues(t, E \cup D) /\ HeadsStarted(t, H, {})
    BY <1>2, <1>3, <1>4, <1>5, <1>6, LanesStay
  <1>8. Marks(t)
    BY <1>1, <1>2 DEF Lined, Lining, Marks
  <1> QED BY <1>7, <1>8 DEF Lining, t, H

\* A parent that is woken up was not queued.
LEMMA ReconcileKeepsLines ==
    ASSUME NEW s, NEW D, NEW E, NEW P, StateTyped(s), Lining(s, E, P)
    PROVE  Lining(ReconcileChildWait(s, D), E, P)
  <1> DEFINE t == ReconcileChildWait(s, D)
             G == E \cup P
  <1>1. /\ t.lanes = s.lanes
        /\ \A p \in Runs : t.runs[p] = s.runs[p] \/ ResumedBy(s, t, D, p)
    BY ReconcileChildWaitDoes
  <1> HIDE DEF t
  <1>2. \A p \in Runs : t.runs[p] = s.runs[p] \/
            /\ Alive(s, p) /\ ~s.runs[p].cancellationRequested
            /\ t.runs[p].status = "running"
    BY <1>1 DEF ResumedBy
  <1>3. ASSUME NEW r \in Runs
        PROVE  /\ Alive(t, r) <=> Alive(s, r)
               /\ t.runs[r].status = "queued" => s.runs[r].status = "queued"
    <2>1. CASE t.runs[r] = s.runs[r]
      BY <2>1 DEF Alive
    <2>2. CASE Alive(s, r) /\ t.runs[r].status = "running"
      BY <2>2 DEF Alive, Terminal
    <2> QED BY <1>2, <2>1, <2>2
  <1>4. Queues(s, E) /\ HeadsStarted(s, G, {})
    BY DEF Lining
  <1> HIDE DEF G
  <1>5. Queues(t, E) /\ HeadsStarted(t, G, {})
    <2>1. \A r \in Runs : Parent[r] = None =>
                /\ (Alive(t, r) \/ r \in E) <=> (Alive(s, r) \/ r \in E)
                /\ r \notin G /\ t.runs[r].status = "queued" =>
                        r \notin G /\ s.runs[r].status = "queued"
      BY <1>3
    <2>2. \A c \in Runs : Alive(s, c) => Alive(t, c) \/ Parent[c] \in G
      BY <1>3
    <2> QED BY <1>1, <1>4, <2>1, <2>2, LanesStay
  <1>6. Marks(t)
    <2>1. Marks(s)
      BY DEF Lining
    <2> QED BY <1>2, <2>1 DEF Marks
  <1> QED BY <1>5, <1>6 DEF Lining, t, G

\* settleParentChild starts the parents that the end of their children left
\* without any.
LEMMA StartParentsServes ==
    ASSUME NEW s, NEW D, NEW E, StateTyped(s), Lining(s, E, {Parent[d] : d \in D})
    PROVE  Lined(StartParents(s, D), E)
  <1> DEFINE t == StartParents(s, D)
             P == {Parent[d] : d \in D}
             G == E \cup P
  <1>1. /\ t.lanes = s.lanes
        /\ \A r \in Runs : t.runs[r] = s.runs[r] \/ StartedIn(s, t, r)
        /\ \A r \in Runs : Startable(s, D, r) => t.runs[r].status = "running"
    BY StartParentsDoes
  <1> HIDE DEF t
  <1>2. ASSUME NEW r \in Runs
        PROVE  /\ Alive(t, r) <=> Alive(s, r)
               /\ t.runs[r].status = "queued" => s.runs[r].status = "queued"
    BY <1>1, StartingIsQuiet DEF Quiet, StartedIn
  <1>3. Queues(s, E) /\ HeadsStarted(s, G, {}) /\ Marks(s)
    BY DEF Lining
  <1>4. \A r \in Runs : r \in P /\ s.runs[r].status = "queued"
                          /\ UnsettledChildren(s, r) = {} => Startable(s, D, r)
    BY DEF Startable
  <1>5. \A r \in Runs : r \notin E => r \notin G \/ r \in P
    OBVIOUS
  <1> HIDE DEF G, P
  <1>6. Queues(t, E) /\ HeadsStarted(t, G, {})
    BY <1>1, <1>2, <1>3, LanesStay
  <1>7. HeadsStarted(t, E, {})
    <2> SUFFICES ASSUME NEW x \in Sessions, t.lanes[x] # << >>, Head(t.lanes[x]) \notin E,
                        t.runs[Head(t.lanes[x])].status = "queued",
                        UnsettledChildren(t, Head(t.lanes[x])) = {}
                 PROVE  FALSE
      BY DEF HeadsStarted
    <2> DEFINE r == Head(t.lanes[x])
    <2>1. r \in Runs
      BY <1>6, LaneMembers
    <2>2. r \in G
      BY <1>6 DEF HeadsStarted
    <2> HIDE DEF r
    <2>3. s.runs[r].status = "queued"
      BY <1>2, <2>1 DEF r
    <2>4. UnsettledChildren(s, r) = {}
      BY <1>2 DEF UnsettledChildren, Children, r
    <2>5. Startable(s, D, r)
      BY <1>4, <1>5, <2>1, <2>2, <2>3, <2>4 DEF r
    <2> QED BY <1>1, <2>1, <2>5 DEF r
  <1>8. Marks(t)
    BY <1>1, <1>3 DEF Marks, StartedIn, SameOwner
  <1>9. E \cup {} = E
    OBVIOUS
  <1> QED BY <1>6, <1>7, <1>8, <1>9 DEF Lined, Lining, t

\* promoteHead: the heads of the lanes X, and nobody else.
LEMMA PromoteHeadsStarts ==
    ASSUME NEW s, NEW X, StateTyped(s)
    PROVE  LET t == PromoteHeads(s, X)
               head(r) == /\ SessionOf[r] \in X
                          /\ s.lanes[SessionOf[r]] # << >>
                          /\ Head(s.lanes[SessionOf[r]]) = r
                          /\ s.runs[r].status = "queued"
                          /\ ~s.runs[r].cancellationRequested
           IN  \A r \in Runs : /\ head(r) => t.runs[r].status = "running"
                               /\ ~head(r) => t.runs[r] = s.runs[r]
  <1> DEFINE head(r) == /\ SessionOf[r] \in X
                        /\ s.lanes[SessionOf[r]] # << >>
                        /\ Head(s.lanes[SessionOf[r]]) = r
                        /\ s.runs[r].status = "queued"
                        /\ ~s.runs[r].cancellationRequested
             heads == {r \in Runs : head(r)}
             runs == [r \in Runs |->
                IF r \in heads THEN [s.runs[r] EXCEPT !.status = "running"] ELSE s.runs[r]]
             t == PromoteHeads(s, X)
  <1>1. t.runs = runs
    <2>1. t = [s EXCEPT !.runs = runs]
      BY DEF PromoteHeads
    <2>2. s = [f \in Fields |-> s[f]]
      BY DEF StateTyped
    <2> HIDE DEF runs, t
    <2> QED BY <2>1, <2>2 DEF Fields
  <1> HIDE DEF t
  <1>2. \A r \in Runs : s.runs[r] \in StoredRun
    BY DEF StateTyped
  <1>3. ASSUME NEW r \in Runs, head(r)
        PROVE  t.runs[r].status = "running"
    <2>1. r \in heads
      BY <1>3
    <2> HIDE DEF head, heads
    <2>2. t.runs[r] = [s.runs[r] EXCEPT !.status = "running"]
      BY <1>1, <2>1
    <2> QED BY <1>2, <2>2 DEF StoredRun
  <1>4. ASSUME NEW r \in Runs, ~head(r)
        PROVE  t.runs[r] = s.runs[r]
    <2>1. r \notin heads
      BY <1>4
    <2> HIDE DEF head, heads
    <2> QED BY <1>1, <2>1
  <1> QED BY <1>3, <1>4 DEF t

\* promoteHead serves the lanes of X, whose heads may not have started.
LEMMA PromotingServes ==
    ASSUME NEW s, NEW X, StateTyped(s), Queues(s, {}), HeadsStarted(s, {}, X), Marks(s)
    PROVE  Lined(PromoteHeads(s, X), {})
  <1> DEFINE t == PromoteHeads(s, X)
             head(r) == /\ SessionOf[r] \in X
                        /\ s.lanes[SessionOf[r]] # << >>
                        /\ Head(s.lanes[SessionOf[r]]) = r
                        /\ s.runs[r].status = "queued"
                        /\ ~s.runs[r].cancellationRequested
  <1>1. \A r \in Runs : /\ head(r) => t.runs[r].status = "running"
                        /\ ~head(r) => t.runs[r] = s.runs[r]
    BY PromoteHeadsStarts
  <1>2. t.lanes = s.lanes
    BY PromoteHeadsDoes
  <1>3. \A r \in Runs : t.runs[r] = s.runs[r] \/ StartedIn(s, t, r)
    BY PromoteHeadsDoes
  <1> HIDE DEF t
  <1>4. ASSUME NEW r \in Runs
        PROVE  /\ Alive(t, r) <=> Alive(s, r)
               /\ t.runs[r].status = "queued" => s.runs[r].status = "queued"
    BY <1>3, StartingIsQuiet DEF Quiet, StartedIn
  <1>5. Queues(t, {}) /\ HeadsStarted(t, {}, X)
    <2> DEFINE none == {}
    <2>1. Queues(s, none) /\ HeadsStarted(s, none, X)
      OBVIOUS
    <2>2. \A r \in Runs : r \notin none
      OBVIOUS
    <2> HIDE DEF none
    <2>3. Queues(t, none) /\ HeadsStarted(t, none, X)
      BY <1>2, <1>4, <2>1, <2>2, LanesStay
    <2> QED BY <2>3 DEF none
  <1>6. ASSUME NEW x \in X \cap Sessions, t.lanes[x] # << >>
        PROVE  t.runs[Head(t.lanes[x])].status # "queued"
    <2> DEFINE r == Head(s.lanes[x])
    <2>1. r \in Runs /\ SessionOf[r] = x /\ s.lanes[x] # << >>
      BY <1>2, <1>6, LaneMembers
    <2> HIDE DEF r
    <2> SUFFICES ASSUME t.runs[r].status = "queued" PROVE FALSE
      BY <1>2 DEF r
    <2>2. ~head(r)
      BY <1>1, <2>1
    <2>3. s.runs[r].status = "queued"
      BY <1>4, <2>1
    <2>4. ~s.runs[r].cancellationRequested
      BY <2>1, <2>3 DEF Marks
    <2> QED BY <2>1, <2>2, <2>3, <2>4 DEF r
  <1>7. HeadsStarted(t, {}, {})
    BY <1>5, <1>6 DEF HeadsStarted
  <1>8. Marks(t)
    BY <1>3 DEF Marks, StartedIn, SameOwner
  <1>9. HeadsStarted(t, {} \cup {}, {})
    <2>1. {} \cup {} = {}
      OBVIOUS
    <2> QED BY <1>7, <2>1
  <1> QED BY <1>5, <1>8, <1>9 DEF Lined, Lining, t

\* A family has one Run on its lane.
OneRoot(D) == \A q, r \in D : Parent[q] = None /\ Parent[r] = None => q = r

\* afterTerminal serves the lanes of the Runs that ended.
LEMMA AfterTerminalServes ==
    ASSUME NEW s, NEW D, StateTyped(s), Queues(s, D), HeadsStarted(s, D \cup {None}, {}),
           Marks(s), D \subseteq Runs, OneRoot(D), \A d \in D : ~Alive(s, d)
    PROVE  Lined(AfterTerminal(s, D), {})
  <1> DEFINE lanes == [x \in Sessions |-> Without(s.lanes[x], D)]
             u == [s EXCEPT !.lanes = lanes]
             X == {SessionOf[r] : r \in D}
             t == AfterTerminal(s, D)
  <1>1. t = PromoteHeads(u, X)
    BY DEF AfterTerminal
  <1>2. /\ u = [f \in Fields |-> u[f]]
        /\ u.runs = s.runs /\ u.sessions = s.sessions /\ u.lanes = lanes
    <2>1. s = [f \in Fields |-> s[f]]
      BY DEF StateTyped
    <2> HIDE DEF lanes
    <2> QED BY <2>1 DEF Fields
  <1>3. \A x \in Sessions : u.lanes[x] = Without(s.lanes[x], D)
    BY <1>2
  <1>4. lanes = [x \in Sessions |-> lanes[x]]
    OBVIOUS
  <1> HIDE DEF u, t, lanes, X
  <1>5. StateTyped(u)
    BY <1>2 DEF StateTyped
  <1>6. ASSUME NEW x \in Sessions
        PROVE  LET lane == s.lanes[x]
                   m == u.lanes[x]
               IN  /\ m \in Seq(Runs)
                   /\ Unique(m)
                   /\ \A r \in Runs : OnLane(m, r) <=> OnLane(lane, r) /\ r \notin D
                   /\ m # << >> /\ Head(lane) \notin D => Head(m) = Head(lane)
    <2> DEFINE lane == s.lanes[x]
    <2>1. lane \in Seq(Runs) /\ Unique(lane)
      BY DEF Queues
    <2>2. \A q, r \in Runs :
                OnLane(lane, q) /\ q \in D /\ OnLane(lane, r) /\ r \in D => q = r
      <3>1. \A r \in Runs : OnLane(lane, r) => Parent[r] = None
        BY DEF Queues
      <3> HIDE DEF lane
      <3> QED BY <3>1 DEF OneRoot
    <2> HIDE DEF lane
    <2>3. LET m == Without(lane, D)
          IN  /\ m \in Seq(Runs)
              /\ Unique(m)
              /\ \A r \in Runs : OnLane(m, r) <=> OnLane(lane, r) /\ r \notin D
              /\ m # << >> /\ Head(lane) \notin D => Head(m) = Head(lane)
      BY <2>1, <2>2, WithoutDoes
    <2>4. u.lanes[x] = Without(lane, D)
      BY <1>3 DEF lane
    <2> QED BY <2>3, <2>4 DEF lane
  <1>7. \A r \in Runs : Alive(u, r) <=> Alive(s, r)
    BY <1>2 DEF Alive
  <1>8. Queues(u, {})
    <2>1. u.lanes \in [Sessions -> Seq(Runs)]
      BY <1>2, <1>4, <1>6
    <2>2. \A x \in Sessions, r \in Runs : OnLane(u.lanes[x], r) =>
            Parent[r] = None /\ SessionOf[r] = x /\ Alive(u, r)
      BY <1>6, <1>7 DEF Queues
    <2>3. ASSUME NEW r \in Runs, Parent[r] = None, SessionOf[r] \in Hosted, Alive(u, r)
          PROVE  OnLane(u.lanes[SessionOf[r]], r)
      <3>1. r \notin D /\ Alive(s, r) /\ SessionOf[r] \in Sessions
        BY <1>7, <2>3, ConstantFacts
      <3>2. OnLane(s.lanes[SessionOf[r]], r)
        BY <2>3, <3>1 DEF Queues
      <3> QED BY <1>6, <3>1, <3>2
    <2> QED BY <1>6, <2>1, <2>2, <2>3 DEF Queues
  <1>9. HeadsStarted(u, {}, X)
    <2> SUFFICES ASSUME NEW x \in Sessions \ X, u.lanes[x] # << >>,
                        u.runs[Head(u.lanes[x])].status = "queued"
                 PROVE  UnsettledChildren(u, Head(u.lanes[x])) # {}
      BY DEF HeadsStarted
    <2>1. /\ u.lanes[x][1] \in Runs /\ 1 \in DOMAIN u.lanes[x]
      BY <1>8, LaneMembers
    <2>2. OnLane(s.lanes[x], u.lanes[x][1])
      BY <1>6, <2>1 DEF OnLane
    <2>3. s.lanes[x] # << >>
      BY <2>2 DEF OnLane
    <2>4. LET h == Head(s.lanes[x]) IN h \in Runs /\ SessionOf[h] = x
      BY <2>3, LaneMembers
    <2>5. Head(s.lanes[x]) \notin D \cup {None}
      BY <2>4, ConstantFacts DEF X
    <2>6. Head(u.lanes[x]) = Head(s.lanes[x])
      BY <1>6, <2>5
    <2>7. UnsettledChildren(s, Head(s.lanes[x])) # {}
      BY <1>2, <2>3, <2>5, <2>6 DEF HeadsStarted
    <2> QED BY <1>2, <2>6, <2>7 DEF UnsettledChildren, Alive
  <1>10. Marks(u)
    BY <1>2 DEF Marks
  <1>11. Lined(PromoteHeads(u, X), {})
    BY <1>5, <1>8, <1>9, <1>10, PromotingServes
  <1> QED BY <1>1, <1>11 DEF t

\* A settlement serves the lanes: one root ends with it at most.
LEMMA SettleServes ==
    ASSUME NEW s, NEW r \in Runs, NEW D, NEW status, StateTyped(s), Life(s, {}),
           MayEnd(s, D, status), Lined(s, {}), D \subseteq {r} \cup Children(r)
    PROVE  Lined(Settle(s, D, status), {})
  <1> DEFINE d == Terminate(s, D, status)
             e == ReconcileChildWait(d, D)
             u == Settled(s, D, status)
             parents == CancellingParents(u, D)
             v == Terminate(u, parents, "cancelled")
             t == Settle(s, D, status)
             E == D \cup parents
             P == {Parent[q] : q \in D}
  <1>1. /\ StateTyped(d) /\ StateTyped(e) /\ StateTyped(u) /\ StateTyped(v)
        /\ MayEnd(u, parents, "cancelled")
    BY SettleKeepsLife
  <1>2. u = StartParents(e, D) /\ t = AfterTerminal(v, E)
    BY SettledSteps DEF Settle
  <1>3. /\ status \in Terminal /\ status \in Statuses
        /\ "cancelled" \in Terminal /\ "cancelled" \in Statuses
        /\ D \subseteq Runs /\ parents \subseteq Runs
        /\ \A q \in D : Alive(s, q)
        /\ \A q \in parents : Alive(u, q)
    BY <1>1 DEF MayEnd, Statuses, Terminal
  <1>4. \A q \in D : d.runs[q].status = status
    BY <1>3, TerminateDoes
  <1>5. /\ \A q \in Runs \ parents : v.runs[q] = u.runs[q]
        /\ \A q \in parents : v.runs[q].status = "cancelled"
    BY <1>1, <1>3, TerminateDoes
  <1>6. Lining(d, D, P)
    <2>1. Lining(d, {} \cup D, P)
      BY <1>3, TerminateKeepsLines
    <2>2. {} \cup D = D
      OBVIOUS
    <2> HIDE DEF d, P
    <2> QED BY <2>1, <2>2
  <1>7. ASSUME NEW p \in parents
        PROVE  p \in {r, Parent[r]} /\ Parent[p] = None
    <2>1. PICK c \in D : p = Parent[c] /\ p # None
      BY DEF CancellingParents
    <2>2. p \in Runs /\ c \in Runs
      BY <1>3, <2>1, ConstantFacts
    <2>3. c \in Children(p)
      BY <2>1, <2>2 DEF Children
    <2>4. Parent[p] = None
      BY <2>2, <2>3, TwoLevels
    <2>5. c = r \/ Parent[c] = r
      BY DEF Children
    <2> QED BY <2>1, <2>4, <2>5
  <1>8. OneRoot(E)
    <2>1. ASSUME NEW q \in E, Parent[q] = None
          PROVE  q = IF Parent[r] = None THEN r ELSE Parent[r]
      <3>1. CASE q \in D
        <4>1. q = r \/ q \in Children(r)
          BY <3>1
        <4>2. r # None
          BY ConstantFacts
        <4> QED BY <2>1, <4>1, <4>2 DEF Children
      <3>2. CASE q \in parents
        <4>1. q \in {r, Parent[r]} /\ q \in Runs
          BY <1>3, <1>7, <3>2
        <4>2. q # None
          BY <4>1, ConstantFacts
        <4> QED BY <2>1, <4>1, <4>2
      <3> QED BY <3>1, <3>2
    <2> QED BY <2>1 DEF OneRoot
  <1> HIDE DEF d, u, v, t, parents
  <1>9. \A q \in D : ~Alive(d, q)
    BY <1>3, <1>4 DEF Alive
  <1>10. /\ \A q \in Runs : e.runs[q] = d.runs[q] \/ ResumedBy(d, e, D, q)
         /\ Lining(e, D, P)
    <2> HIDE DEF P
    <2> QED BY <1>1, <1>6, ReconcileChildWaitDoes, ReconcileKeepsLines
  <1> HIDE DEF e
  <1>11. /\ Lined(u, D)
         /\ \A q \in Runs : u.runs[q] = e.runs[q] \/ StartedIn(e, u, q)
    BY <1>1, <1>2, <1>10, StartParentsServes, StartParentsDoes
  <1>12. Queues(v, E) /\ HeadsStarted(v, E \cup {None}, {}) /\ Marks(v)
    <2>1. Lining(v, E, {Parent[q] : q \in parents})
      BY <1>1, <1>3, <1>11, TerminateKeepsLines DEF v
    <2>2. E \cup {Parent[q] : q \in parents} \subseteq E \cup {None}
      BY <1>7
    <2> HIDE DEF E
    <2> QED BY <2>1, <2>2 DEF Lining, HeadsStarted
  <1>13. ASSUME NEW q \in E PROVE ~Alive(v, q)
    <2>1. CASE q \in parents
      BY <1>3, <1>5, <2>1 DEF Alive
    <2>2. CASE q \in D /\ q \notin parents
      <3>1. ~Alive(d, q) /\ q \in Runs
        BY <1>3, <1>9, <2>2
      <3>2. e.runs[q] = d.runs[q]
        BY <1>10, <3>1 DEF ResumedBy
      <3>3. ~Alive(e, q)
        BY <3>1, <3>2 DEF Alive
      <3>4. u.runs[q] = e.runs[q]
        BY <1>11, <3>1, <3>3 DEF StartedIn, Alive, Terminal
      <3>5. v.runs[q] = u.runs[q]
        BY <1>5, <2>2, <3>1
      <3> QED BY <3>3, <3>4, <3>5 DEF Alive
    <2> QED BY <2>1, <2>2
  <1>14. E \subseteq Runs
    BY <1>3
  <1> HIDE DEF E
  <1>15. Lined(t, {})
    BY <1>1, <1>2, <1>8, <1>12, <1>13, <1>14, AfterTerminalServes
  <1> QED BY <1>15 DEF t
==============================================================================
