------------------------ MODULE OwnershipSafetyProofs ------------------------
(***************************************************************************)
(* The safety of Ownership, by one inductive invariant OwnInv: a canonical *)
(* state whose waits can be answered and whose Sessions are bound to those *)
(* who own their Runs (Sound), and executions whose claims are told apart by*)
(* their fences and know what they were given (ClaimsFit).  That authority is*)
(* kept needs, in addition, that leases are (LeasesHeld); that lanes are   *)
(* served, that they are in order after every step (LaneInv), as nothing   *)
(* but the end of its children lets a Run that waits for them start; that  *)
(* all of it is typed, that finitely many Runs have been admitted (Rest).  *)
(***************************************************************************)
EXTENDS OwnershipProofs

-----------------------------------------------------------------------------
(* The commands.                                                           *)

\* The canonical state is sound: nobody waits in vain, and every Session that
\* is taken is taken by a Run that will give it back.
Sound(s) == StateTyped(s) /\ Life(s, {}) /\ Bonds(s)

\* The Session of r is written by r.
Writes(s, r) ==
    /\ s.sessions[SessionOf[r]].writer # None
    /\ s.sessions[SessionOf[r]].writer.runId = r

\* A step after which those who write a Session still do, apart from those
\* whose child settled and those of the set X.
Spares(s, t, X) ==
    \A r \in Runs \ X : Writes(s, r) => KeepsClaim(s, t, r) \/ ClosesChild(s, t, r)

\* The Runs and the Sessions stay.
LEMMA SameCore ==
    ASSUME NEW s, NEW t, Sound(s), t = [f \in Fields |-> t[f]],
           t.runs = s.runs, t.sessions = s.sessions
    PROVE  Sound(t) /\ NoNewClaims(s, t) /\ Spares(s, t, {})
  <1>1. StateTyped(t)
    BY DEF Sound, StateTyped
  <1>2. Life(t, {})
    BY DEF Sound, Life, WaitsAreOwn, Wakeable, FamiliesEnd, UnsettledChildren, Alive
  <1>3. Bonds(t)
    <2>1. WritersBelong(t)
      <3> SUFFICES ASSUME NEW x \in Sessions, t.sessions[x].writer # None
                   PROVE  LET e == t.sessions[x]
                              r == e.writer.runId
                          IN  /\ SessionOf[r] = x
                              /\ t.runs[r].ownerId # None => e.writer = WriterOf(t, r)
                              /\ t.runs[r].ownerId = None =>
                                      Alive(t, r) /\ e.unansweredBy = {r}
        BY DEF WritersBelong
      <3> DEFINE r == s.sessions[x].writer.runId
      <3>1. /\ SessionOf[r] = x
            /\ s.runs[r].ownerId # None => s.sessions[x].writer = WriterOf(s, r)
            /\ s.runs[r].ownerId = None => Alive(s, r) /\ s.sessions[x].unansweredBy = {r}
        BY DEF Sound, Bonds, WritersBelong
      <3>2. Alive(t, r) = Alive(s, r) /\ WriterOf(t, r) = WriterOf(s, r)
        BY DEF Alive, WriterOf
      <3> QED BY <3>1, <3>2
    <2>2. WaitsAreUnanswered(t)
      BY DEF Sound, Bonds, WaitsAreUnanswered, Waits, Alive
    <2> QED BY <2>1, <2>2 DEF Bonds
  <1>4. NoNewClaims(s, t)
    BY SameOwnersMakeNoClaims DEF Sound, SameOwner
  <1>5. Spares(s, t, {})
    BY DEF Spares, KeepsClaim, SameOwner
  <1> QED BY <1>1, <1>2, <1>3, <1>4, <1>5 DEF Sound

\* revokeSession takes a Session from nobody but the Run it is called for.
LEMMA RevokingMakesNoClaims ==
    ASSUME NEW s, NEW w, NEW r \in Runs, NEW claim, StateTyped(s), Life(s, {})
    PROVE  LET t == RevokeSession(s, w, r, claim)
           IN  /\ StateTyped(t) /\ Life(t, {})
               /\ NoNewClaims(s, t)
               /\ \A q \in Runs : Writes(s, q) =>
                    \/ KeepsClaim(s, t, q)
                    \/ q = r /\ s.runs[r].ownerId = None
               /\ t.runs = s.runs
  <1> DEFINE t == RevokeSession(s, w, r, claim)
  <1>1. StateTyped(t) /\ Revokes(s, t, w, r, claim)
    BY RevokeSessionDoes
  <1> HIDE DEF t
  <1>2. Life(t, {})
    <2>1. Quiet(s, t)
      BY <1>1 DEF Revokes, Quiet, Alive
    <2> QED BY <2>1, QuietKeepsLife
  <1>3. /\ t.runs = s.runs
        /\ \A y \in Sessions : t.sessions[y].writer # None => t.sessions[y] = s.sessions[y]
    BY <1>1 DEF Revokes
  <1>4. NoNewClaims(s, t)
    BY <1>3, SameOwnersMakeNoClaims DEF SameOwner
  <1>5. ASSUME NEW q \in Runs, Writes(s, q), ~(q = r /\ s.runs[r].ownerId = None)
        PROVE  KeepsClaim(s, t, q)
    <2>1. SessionOf[q] \in Sessions
      BY ConstantFacts
    <2>2. t.sessions[SessionOf[q]] = s.sessions[SessionOf[q]]
      BY <1>1, <1>5, <2>1 DEF Revokes, Writes
    <2> QED BY <1>3, <2>2 DEF KeepsClaim, SameOwner
  <1> QED BY <1>1, <1>2, <1>3, <1>4, <1>5 DEF t

\* Leases expire.
LEMMA ReleasingIsSound ==
    ASSUME NEW s, NEW E, Sound(s), None \notin E
    PROVE  LET t == ReleaseExpiredOwners(s, E)
           IN  /\ Sound(t)
               /\ NoNewClaims(s, t)
               /\ \A r \in Runs :
                    s.runs[r].ownerId \notin E /\ s.sessions[SessionOf[r]].writer.ownerId \notin E
                    => KeepsClaim(s, t, r)
  <1> DEFINE t == ReleaseExpiredOwners(s, E)
  <1>1. StateTyped(t) /\ TakesFrom(s, t, E) /\ Bonds(t)
    BY ReleaseExpiredOwnersDoes, ReleaseKeepsBonds DEF Sound
  <1> HIDE DEF t
  <1>2. Life(t, {})
    <2>1. Quiet(s, t)
      BY <1>1 DEF TakesFrom, SameRun, Quiet, Alive
    <2> QED BY <2>1, QuietKeepsLife DEF Sound
  <1>3. NoNewClaims(s, t)
    <2>1. ASSUME NEW r \in Runs
          PROVE  /\ s.runs[r].attemptFence <= t.runs[r].attemptFence
                 /\ t.runs[r].ownerId # None =>
                        /\ SameOwner(s.runs[r], t.runs[r])
                        /\ t.runs[r].openWaits \subseteq s.runs[r].openWaits
      <3>1. s.runs[r].attemptFence \in Nat
        BY FencesAreNumbers DEF Sound
      <3> QED BY <1>1, <3>1 DEF TakesFrom, SameRun, SameOwner
    <2> QED BY <1>1, <2>1 DEF TakesFrom, NoNewClaims
  <1>4. ASSUME NEW r \in Runs, s.runs[r].ownerId \notin E,
               s.sessions[SessionOf[r]].writer.ownerId \notin E
        PROVE  KeepsClaim(s, t, r)
    BY <1>1, <1>4, ConstantFacts DEF TakesFrom, KeepsClaim
  <1> QED BY <1>1, <1>2, <1>3, <1>4 DEF t, Sound

\* Runs join, children only with their parents.
LEMMA AdmissionIsSound ==
    ASSUME NEW s, NEW t, NEW K, Sound(s), StateTyped(t), Admits(s, t, K),
           \A c \in K : /\ c \in Runs
                        /\ s.runs[c].status = "absent"
                        /\ Parent[c] # None => Alive(s, Parent[c]) \/ Parent[c] \in K
    PROVE  /\ Sound(t) /\ NoNewClaims(s, t) /\ Spares(s, t, {})
           /\ \A q \in Runs : KeepsClaim(s, t, q)
  <1>0. /\ t.sessions = s.sessions
        /\ \A q \in Runs :
             /\ SameOwner(s.runs[q], t.runs[q])
             /\ q \in K => t.runs[q].status = "queued"
             /\ q \notin K => t.runs[q].status = s.runs[q].status
             /\ t.runs[q].cancellationRequested = s.runs[q].cancellationRequested
             /\ t.runs[q].openWaits = s.runs[q].openWaits
             /\ t.runs[q].closedWaits = s.runs[q].closedWaits
    BY DEF Admits
  <1>1. \A q \in Runs : Alive(t, q) <=> Alive(s, q) \/ q \in K
    BY <1>0 DEF Alive, Terminal
  <1>2. WaitsAreOwn(t)
    <2>1. WaitsAreOwn(s)
      BY DEF Sound, Life
    <2> QED BY <1>0, <2>1 DEF WaitsAreOwn
  <1>3. Wakeable(t, {})
    <2> SUFFICES ASSUME NEW r \in Runs, t.runs[r].status = "waiting",
                        ~t.runs[r].cancellationRequested
                 PROVE  \E k \in t.runs[r].openWaits : k = r \/ Alive(t, k)
      BY DEF Wakeable
    <2>1. s.runs[r].status = "waiting" /\ ~s.runs[r].cancellationRequested
      BY <1>0
    <2>2. PICK k \in s.runs[r].openWaits : k = r \/ Alive(s, k)
      BY <2>1 DEF Sound, Life, Wakeable
    <2>3. k \in Runs
      BY DEF Sound, StateTyped, StoredRun
    <2> QED BY <1>0, <1>1, <2>2, <2>3
  <1>4. FamiliesEnd(t)
    <2> SUFFICES ASSUME NEW r \in Runs, t.runs[r].status = "cancelled"
                 PROVE  UnsettledChildren(t, r) = {}
      BY DEF FamiliesEnd
    <2>1. s.runs[r].status = "cancelled" /\ r \notin K
      BY <1>0
    <2>2. UnsettledChildren(s, r) = {}
      BY <2>1 DEF Sound, Life, FamiliesEnd
    <2>3. ~Alive(s, r) /\ r # None
      BY <2>1, ConstantFacts DEF Alive, Terminal
    <2>4. \A c \in K : Parent[c] # r
      BY <2>1, <2>3
    <2> QED BY <1>1, <2>2, <2>4 DEF UnsettledChildren, Children
  <1>5. Unbinding(s, t)
    <2>1. \A c \in K : s.runs[c].openWaits = {}
      BY DEF Sound, Life, WaitsAreOwn
    <2>2. ASSUME NEW q \in Runs, Waits(t, q) PROVE Waits(s, q)
      <3>1. t.runs[q].openWaits = s.runs[q].openWaits
        BY <1>0
      <3>2. CASE q \in K
        BY <2>1, <2>2, <3>1, <3>2 DEF Waits
      <3>3. CASE q \notin K
        BY <1>0, <1>1, <2>2, <3>3 DEF Waits
      <3> QED BY <3>2, <3>3
    <2> QED BY <1>0, <1>1, <2>1, <2>2 DEF Unbinding
  <1>6. Bonds(t)
    BY <1>5, UnbindingKeepsBonds DEF Sound
  <1>7. NoNewClaims(s, t)
    BY <1>0, SameOwnersMakeNoClaims DEF Sound
  <1>8. \A q \in Runs : KeepsClaim(s, t, q)
    BY <1>0 DEF KeepsClaim
  <1> QED BY <1>2, <1>3, <1>4, <1>6, <1>7, <1>8 DEF Sound, Life, Spares

\* Starting Runs keeps the canonical state sound.
LEMMA StartingIsSound ==
    ASSUME NEW s, NEW t, Sound(s), StateTyped(t), t.sessions = s.sessions,
           \A r \in Runs : t.runs[r] = s.runs[r] \/ StartedIn(s, t, r)
    PROVE  Sound(t) /\ NoNewClaims(s, t) /\ Spares(s, t, {})
  <1>1. Life(t, {})
    BY StartingIsQuiet, QuietKeepsLife DEF Sound
  <1>2. Bonds(t)
    BY StartingKeepsBonds DEF Sound
  <1>3. NoNewClaims(s, t) /\ \A r \in Runs : KeepsClaim(s, t, r)
    BY StartingMakesNoClaims DEF Sound
  <1> QED BY <1>1, <1>2, <1>3 DEF Sound, Spares

\* A root that joins its lane keeps the canonical state sound, whether it
\* starts or not.
LEMMA JoiningIsSound ==
    ASSUME NEW r \in Runs, Sound(state), Parent[r] = None,
           state.runs[r].status = "absent", NEW promote
    PROVE  LET u == JoinsLane(state, r, promote)
           IN  /\ Sound(u) /\ NoNewClaims(state, u)
               /\ \A q \in Runs : KeepsClaim(state, u, q)
               /\ u.runs[r].status \in {"queued", "running"}
               /\ \A q \in Runs \ {r} : state.runs[q].status = "absent" =>
                                                u.runs[q].status = "absent"
  <1> DEFINE X == {SessionOf[r]}
             joined == Enqueued(state, r)
             u == JoinsLane(state, r, promote)
             K == {r}
  <1>1. u = joined \/ u = PromoteHeads(joined, X)
    BY DEF JoinsLane
  <1>2. StateTyped(joined) /\ Enqueues(state, joined, r)
    BY EnqueuedDoes DEF Sound
  <1> HIDE DEF X, joined, u
  <1>3. Admits(state, joined, K)
    BY <1>2 DEF Admits, SameOwner, Enqueues
  <1>4. \A c \in K : /\ c \in Runs
                     /\ state.runs[c].status = "absent"
                     /\ Parent[c] # None => Alive(state, Parent[c]) \/ Parent[c] \in K
    OBVIOUS
  <1>5. /\ joined.runs[r].status = "queued"
        /\ \A q \in Runs \ {r} : joined.runs[q] = state.runs[q]
    BY <1>2 DEF Enqueues
  <1> HIDE DEF K
  <1>6. /\ Sound(joined) /\ NoNewClaims(state, joined)
        /\ \A q \in Runs : KeepsClaim(state, joined, q)
    BY <1>2, <1>3, <1>4, AdmissionIsSound
  <1>7. CASE u = joined
    BY <1>5, <1>6, <1>7 DEF u
  <1>8. CASE u = PromoteHeads(joined, X)
    <2>1. /\ StateTyped(u) /\ u.sessions = joined.sessions
          /\ \A q \in Runs : u.runs[q] = joined.runs[q] \/ StartedIn(joined, u, q)
      BY <1>2, <1>8, PromoteHeadsDoes
    <2>2. Sound(u) /\ NoNewClaims(joined, u)
      BY <1>6, <2>1, StartingIsSound
    <2>3. NoNewClaims(state, u)
      BY <1>6, <2>2, NoNewClaimsTransitive DEF Sound
    <2>4. \A q \in Runs : KeepsClaim(state, u, q)
      BY <1>6, <2>1 DEF KeepsClaim, SameOwner, StartedIn
    <2>5. /\ u.runs[r].status \in {"queued", "running"}
          /\ \A q \in Runs \ {r} : state.runs[q].status = "absent" =>
                                          u.runs[q].status = "absent"
      BY <1>5, <2>1 DEF StartedIn
    <2> QED BY <2>2, <2>3, <2>4, <2>5 DEF u
  <1> QED BY <1>1, <1>7, <1>8

\* admitSend keeps the canonical state sound.
LEMMA AdmitSendIsSound ==
    ASSUME NEW r \in Runs, Sound(state), AdmitSend(r)
    PROVE  Sound(state') /\ NoNewClaims(state, state') /\ Spares(state, state', {})
  <1> DEFINE promote == TRUE
             u == JoinsLane(state, r, promote)
  <1>1. Parent[r] = None /\ state.runs[r].status = "absent" /\ state' = u
    BY DEF AdmitSend
  <1> HIDE DEF promote
  <1>2. /\ Sound(u) /\ NoNewClaims(state, u)
        /\ \A q \in Runs : KeepsClaim(state, u, q)
    BY <1>1, JoiningIsSound
  <1> HIDE DEF u
  <1> QED BY <1>1, <1>2 DEF Spares

\* retainHostedLane touches a lane only.
LEMMA RetainHostedLaneDoes ==
    ASSUME NEW s, NEW x, StateTyped(s)
    PROVE  LET t == RetainHostedLane(s, x)
           IN  /\ StateTyped(t) /\ t.runs = s.runs /\ t.sessions = s.sessions
               /\ t.workers = s.workers /\ t.released = s.released
               /\ t.lanes = IF x \in Hosted THEN s.lanes
                            ELSE [s.lanes EXCEPT ![x] = << >>]
  <1> DEFINE t == RetainHostedLane(s, x)
             lanes == [s.lanes EXCEPT ![x] = << >>]
  <1>1. s = [f \in Fields |-> s[f]]
    BY DEF StateTyped
  <1>2. CASE x \in Hosted
    BY <1>2 DEF RetainHostedLane
  <1>3. CASE x \notin Hosted
    <2>1. t = [s EXCEPT !.lanes = lanes]
      <3>1. t = [s EXCEPT !.lanes[x] = << >>]
        BY <1>3 DEF RetainHostedLane
      <3> HIDE DEF t
      <3> QED BY <1>1, <3>1 DEF Fields
    <2> HIDE DEF t, lanes
    <2>2. /\ t = [f \in Fields |-> t[f]] /\ t.lanes = lanes
          /\ t.runs = s.runs /\ t.sessions = s.sessions
          /\ t.workers = s.workers /\ t.released = s.released
      BY <1>1, <2>1 DEF Fields
    <2>3. StateTyped(t)
      BY <2>2 DEF StateTyped
    <2> QED BY <1>3, <2>2, <2>3 DEF t, lanes
  <1> QED BY <1>2, <1>3

\* admitStart in its steps: the root joins, its lane is retained or not, and the
\* children follow.
LEMMA AdmitStartSteps ==
    ASSUME NEW r \in Runs, AdmitStart(r)
    PROVE  /\ Parent[r] = None /\ state.runs[r].status = "absent"
           /\ \E kids \in Requests(r), promote \in BOOLEAN :
                /\ kids # << >> => ~promote
                /\ SessionOf[r] \in Hosted /\ kids = << >> => promote
                /\ \A q \in Among(kids) : state.runs[q].status = "absent"
                /\ state' = WithChildren(RetainHostedLane(JoinsLane(state, r, promote),
                                                          SessionOf[r]), r, kids)
  <1>1. PICK kids \in Requests(r), activate \in BOOLEAN :
            /\ Parent[r] = None /\ state.runs[r].status = "absent"
            /\ \A i \in DOMAIN kids : state.runs[kids[i]].status = "absent"
            /\ ~activate => kids = << >> /\ SessionOf[r] \notin Hosted
            /\ state' = WithChildren(
                    RetainHostedLane(JoinsLane(state, r, kids = << >> /\ activate),
                                     SessionOf[r]), r, kids)
    BY DEF AdmitStart
  <1>2. PICK promote \in BOOLEAN : promote <=> kids = << >> /\ activate
    OBVIOUS
  <1>3. JoinsLane(state, r, kids = << >> /\ activate) = JoinsLane(state, r, promote)
    BY <1>2 DEF JoinsLane
  <1>4. \A q \in Among(kids) : state.runs[q].status = "absent"
    BY <1>1 DEF Among
  <1>5. state' = WithChildren(RetainHostedLane(JoinsLane(state, r, promote),
                                              SessionOf[r]), r, kids)
    BY <1>1, <1>3
  <1> QED BY <1>1, <1>2, <1>4, <1>5

\* admitStart keeps the canonical state sound.
LEMMA AdmitStartIsSound ==
    ASSUME NEW r \in Runs, Sound(state), AdmitStart(r)
    PROVE  Sound(state') /\ NoNewClaims(state, state') /\ Spares(state, state', {})
  <1>1. Parent[r] = None /\ state.runs[r].status = "absent"
    BY AdmitStartSteps
  <1>2. PICK kids \in Requests(r), promote \in BOOLEAN :
            /\ \A q \in Among(kids) : state.runs[q].status = "absent"
            /\ state' = WithChildren(RetainHostedLane(JoinsLane(state, r, promote),
                                                      SessionOf[r]), r, kids)
    BY AdmitStartSteps
  <1> DEFINE u == JoinsLane(state, r, promote)
             v == RetainHostedLane(u, SessionOf[r])
             K == Among(kids)
             t == WithChildren(v, r, kids)
  <1>3. /\ Sound(u) /\ NoNewClaims(state, u)
        /\ \A q \in Runs : KeepsClaim(state, u, q)
        /\ u.runs[r].status \in {"queued", "running"}
        /\ \A q \in Runs \ {r} : state.runs[q].status = "absent" =>
                                        u.runs[q].status = "absent"
    BY <1>1, JoiningIsSound
  <1>4. kids \in Seq(Runs) /\ K \subseteq Children(r) /\ r \notin K
    BY RequestsName
  <1>5. state' = t
    BY <1>2
  <1> HIDE DEF u
  <1>6. /\ StateTyped(v) /\ v.runs = u.runs /\ v.sessions = u.sessions
    BY <1>3, RetainHostedLaneDoes DEF Sound
  <1> HIDE DEF v
  <1>7. StateTyped(t) /\ Admits(v, t, K)
    BY <1>4, <1>6, WithChildrenDoes
  <1>8. \A c \in K : /\ c \in Runs
                     /\ v.runs[c].status = "absent"
                     /\ Parent[c] # None => Alive(v, Parent[c]) \/ Parent[c] \in K
    <2>1. \A c \in K : c \in Runs /\ c # r /\ Parent[c] = r
      BY <1>4 DEF Children
    <2>2. Alive(v, r)
      BY <1>3, <1>6 DEF Alive, Terminal
    <2>3. \A c \in K : state.runs[c].status = "absent"
      BY <1>2
    <2> QED BY <1>3, <1>6, <2>1, <2>2, <2>3
  <1> HIDE DEF K, t
  <1>9. v = [f \in Fields |-> v[f]]
    BY <1>6 DEF StateTyped
  <1>10. Sound(v) /\ NoNewClaims(u, v)
    BY <1>3, <1>6, <1>9, SameCore
  <1>11. /\ Sound(t) /\ NoNewClaims(v, t)
         /\ \A q \in Runs : KeepsClaim(v, t, q)
    BY <1>7, <1>8, <1>10, AdmissionIsSound
  <1>12. NoNewClaims(state, v)
    BY <1>3, <1>10, NoNewClaimsTransitive DEF Sound
  <1>13. NoNewClaims(state, t)
    BY <1>10, <1>11, <1>12, NoNewClaimsTransitive DEF Sound
  <1>14. \A q \in Runs : KeepsClaim(state, t, q)
    BY <1>3, <1>6, <1>11 DEF KeepsClaim, SameOwner
  <1> QED BY <1>5, <1>11, <1>13, <1>14 DEF Spares

\* activateRoot starts one Run and does nothing else.
LEMMA ActivateDoes ==
    ASSUME NEW r \in Runs, Activate(r), StateTyped(state)
    PROVE  /\ StateTyped(state') /\ StartedIn(state, state', r)
           /\ \A q \in Runs \ {r} : state'.runs[q] = state.runs[q]
           /\ state'.sessions = state.sessions /\ state'.lanes = state.lanes
           /\ state'.workers = state.workers
  <1> DEFINE old == state.runs[r]
             R == [old EXCEPT !.status = "running"]
  <1>1. old \in StoredRun /\ "running" \in Statuses
    BY DEF StateTyped, Statuses
  <1>2. state' = [state EXCEPT !.runs[r] = R] /\ old.status = "queued"
    BY DEF Activate
  <1> HIDE DEF old
  <1>3. /\ R \in StoredRun /\ R.status = "running" /\ SameOwner(old, R)
        /\ R.cancellationRequested = old.cancellationRequested
        /\ R.openWaits = old.openWaits /\ R.closedWaits = old.closedWaits
        /\ R.children = old.children
    BY <1>1 DEF StoredRun, SameOwner
  <1> HIDE DEF R
  <1>4. /\ StateTyped(state') /\ state'.runs[r] = R
        /\ \A q \in Runs \ {r} : state'.runs[q] = state.runs[q]
        /\ state'.sessions = state.sessions /\ state'.lanes = state.lanes
        /\ state'.workers = state.workers
    <2>1. LET t == [state EXCEPT !.runs[r] = R]
          IN  /\ StateTyped(t) /\ t.runs[r] = R
              /\ \A q \in Runs \ {r} : t.runs[q] = state.runs[q]
              /\ t.sessions = state.sessions /\ t.lanes = state.lanes
              /\ t.workers = state.workers
      BY <1>3, RunReplaced
    <2> QED BY <1>2, <2>1
  <1> QED BY <1>2, <1>3, <1>4 DEF StartedIn, old

\* activateRoot keeps the canonical state sound.
LEMMA ActivateIsSound ==
    ASSUME NEW r \in Runs, Sound(state), Activate(r)
    PROVE  Sound(state') /\ NoNewClaims(state, state') /\ Spares(state, state', {})
  <1>1. /\ StateTyped(state') /\ state'.sessions = state.sessions
        /\ \A q \in Runs : state'.runs[q] = state.runs[q] \/ StartedIn(state, state', q)
    BY ActivateDoes DEF Sound
  <1> QED BY <1>1, StartingIsSound

\* admitSpawn keeps the canonical state sound.
LEMMA AdmitChildIsSound ==
    ASSUME NEW c \in Runs, Sound(state), AdmitChild(c)
    PROVE  Sound(state') /\ NoNewClaims(state, state') /\ Spares(state, state', {})
  <1> DEFINE K == {c}
  <1>1. StateTyped(state') /\ Admits(state, state', K)
    BY AdmitChildDoes DEF Sound
  <1>2. \A q \in K : /\ q \in Runs
                     /\ state.runs[q].status = "absent"
                     /\ Parent[q] # None => Alive(state, Parent[q]) \/ Parent[q] \in K
    BY DEF AdmitChild
  <1> HIDE DEF K
  <1> QED BY <1>1, <1>2, AdmissionIsSound

\* respond keeps the canonical state sound.
LEMMA RespondIsSound ==
    ASSUME NEW r \in Runs, Sound(state), Respond(r)
    PROVE  Sound(state') /\ NoNewClaims(state, state') /\ Spares(state, state', {})
  <1>1. /\ StateTyped(state') /\ state'.sessions = state.sessions
        /\ \A q \in Runs \ {r} : state'.runs[q] = state.runs[q]
        /\ state'.runs[r].status = "running"
        /\ SameOwner(state.runs[r], state'.runs[r])
        /\ state'.runs[r].cancellationRequested = state.runs[r].cancellationRequested
        /\ state'.runs[r].openWaits = state.runs[r].openWaits \ {r}
        /\ state'.runs[r].closedWaits = state.runs[r].closedWaits \cup {r}
    BY RespondDoes DEF Sound
  <1>2. Alive(state, r)
    BY DEF Respond
  <1>3. \A q \in Runs : Alive(state', q) <=> Alive(state, q)
    BY <1>1, <1>2 DEF Alive, Terminal
  <1>4. WaitsAreOwn(state')
    <2>1. WaitsAreOwn(state)
      BY DEF Sound, Life
    <2> QED BY <1>1, <2>1 DEF WaitsAreOwn
  <1>5. Wakeable(state', {})
    <2> SUFFICES ASSUME NEW q \in Runs, state'.runs[q].status = "waiting",
                        ~state'.runs[q].cancellationRequested
                 PROVE  \E k \in state'.runs[q].openWaits : k = q \/ Alive(state', k)
      BY DEF Wakeable
    <2>1. state'.runs[q] = state.runs[q]
      BY <1>1
    <2>2. PICK k \in state.runs[q].openWaits : k = q \/ Alive(state, k)
      BY <2>1 DEF Sound, Life, Wakeable
    <2>3. k \in Runs
      BY DEF Sound, StateTyped, StoredRun
    <2> QED BY <1>3, <2>1, <2>2, <2>3
  <1>6. FamiliesEnd(state')
    <2>1. FamiliesEnd(state)
      BY DEF Sound, Life
    <2>2. \A q \in Runs : state'.runs[q].status = "cancelled" =>
                            state.runs[q].status = "cancelled"
      BY <1>1
    <2> QED BY <1>3, <2>1, <2>2 DEF FamiliesEnd, UnsettledChildren, Children
  <1>7. \A q \in Runs : /\ SameOwner(state.runs[q], state'.runs[q])
                        /\ state'.runs[q].openWaits \subseteq state.runs[q].openWaits
                        /\ state'.runs[q].cancellationRequested =
                                state.runs[q].cancellationRequested
    BY <1>1 DEF SameOwner
  <1>8. Unbinding(state, state')
    BY <1>1, <1>3, <1>7 DEF Unbinding, Waits
  <1>9. Bonds(state')
    BY <1>8, UnbindingKeepsBonds DEF Sound
  <1>10. NoNewClaims(state, state')
    BY <1>1, <1>7, SameOwnersMakeNoClaims DEF Sound
  <1>11. Spares(state, state', {})
    BY <1>1, <1>7 DEF Spares, KeepsClaim
  <1> QED BY <1>1, <1>4, <1>5, <1>6, <1>9, <1>10, <1>11 DEF Sound, Life

\* The Runs that settle with a cancellation take their children along.
LEMMA FinalizedMayEnd ==
    ASSUME NEW s, NEW r \in Runs, NEW t, StateTyped(s),
           \A q \in Runs : Alive(t, q) <=> Alive(s, q)
    PROVE  MayEnd(t, Finalized(s, r), "cancelled")
  <1> DEFINE D == Finalized(s, r)
             idle == {q \in Cancelled(s, r) : ~OwnerControls(s, q)}
  <1>1. /\ D = {q \in idle : q # r \/ UnsettledChildren(s, r) \subseteq idle}
        /\ D \subseteq Cancelled(s, r)
    BY DEF Finalized
  <1>2. Cancelled(s, r) \subseteq Runs /\ \A q \in Cancelled(s, r) : Alive(s, q)
    BY DEF Cancelled, Children
  <1>3. ASSUME NEW d \in D
        PROVE  UnsettledChildren(t, d) \subseteq D
    <2>1. CASE d = r
      <3>1. UnsettledChildren(s, r) \subseteq idle
        BY <1>1, <2>1
      <3> SUFFICES ASSUME NEW c \in UnsettledChildren(t, r) PROVE c \in D
        BY <2>1
      <3>2. c \in Children(r) /\ c \in Runs /\ c # r
        BY TwoLevels DEF UnsettledChildren
      <3>3. c \in UnsettledChildren(s, r)
        BY <3>2 DEF UnsettledChildren
      <3> HIDE DEF D, idle
      <3> QED BY <1>1, <3>1, <3>2, <3>3
    <2>2. CASE d # r
      <3>1. d \in Children(r)
        BY <1>1, <2>2 DEF Cancelled
      <3>2. Children(d) = {}
        BY <3>1, TwoLevels
      <3> QED BY <3>2 DEF UnsettledChildren
    <2> QED BY <2>1, <2>2
  <1> HIDE DEF D
  <1>4. D \subseteq Runs /\ \A d \in D : Alive(t, d)
    BY <1>1, <1>2
  <1> QED BY <1>3, <1>4 DEF MayEnd, Terminal, D

\* A request leaves Runs behind that may settle with it.
LEMMA RequestMayEnd ==
    ASSUME NEW r \in Runs, Sound(state)
    PROVE  LET u == Requested(state, r)
           IN  Life(u, {}) /\ MayEnd(u, Finalized(state, r), "cancelled")
  <1> DEFINE u == Requested(state, r)
             D == Finalized(state, r)
             hit == Cancelled(state, r)
  <1>1. /\ StateTyped(u)
        /\ u.sessions = state.sessions
        /\ \A q \in Runs : q \notin hit => u.runs[q] = state.runs[q]
        /\ \A q \in Runs : q \in hit =>
             /\ SameOwner(state.runs[q], u.runs[q])
             /\ u.runs[q].status =
                   IF state.runs[q].cancellationRequested THEN state.runs[q].status
                   ELSE "cancelling"
             /\ u.runs[q].cancellationRequested
             /\ u.runs[q].openWaits = {}
             /\ u.runs[q].closedWaits =
                    state.runs[q].closedWaits \cup state.runs[q].openWaits
    BY RequestedDoes DEF Sound
  <1>3. /\ hit \subseteq Runs /\ \A q \in hit : Alive(state, q)
        /\ D \subseteq hit /\ D \subseteq {r} \cup Children(r)
        /\ \A q \in Runs : q \in {r} \cup Children(r) /\ Alive(state, q) => q \in hit
    BY DEF Cancelled, Children, Finalized
  <1> HIDE DEF u, D, hit
  <1>4. \A q \in Runs : Alive(u, q) <=> Alive(state, q)
    BY <1>1, <1>3 DEF Alive, Terminal
  <1>5. \A q \in Runs : u.runs[q].status \in {"waiting", "cancelled", "absent"}
                            => u.runs[q].status = state.runs[q].status
    BY <1>1
  <1>6. WaitsAreOwn(u)
    <2>1. WaitsAreOwn(state)
      BY DEF Sound, Life
    <2> QED BY <1>1, <2>1 DEF WaitsAreOwn
  <1>7. Wakeable(u, {})
    <2> SUFFICES ASSUME NEW q \in Runs, u.runs[q].status = "waiting",
                        ~u.runs[q].cancellationRequested
                 PROVE  \E k \in u.runs[q].openWaits : k = q \/ Alive(u, k)
      BY DEF Wakeable
    <2>1. u.runs[q] = state.runs[q]
      BY <1>1
    <2>2. PICK k \in state.runs[q].openWaits : k = q \/ Alive(state, k)
      BY <2>1 DEF Sound, Life, Wakeable
    <2>3. k \in Runs
      BY DEF Sound, StateTyped, StoredRun
    <2> QED BY <1>4, <2>1, <2>2, <2>3
  <1>8. FamiliesEnd(u)
    BY <1>4, <1>5 DEF Sound, Life, FamiliesEnd, UnsettledChildren, Children
  <1>9. Life(u, {})
    BY <1>6, <1>7, <1>8 DEF Life
  <1>10. MayEnd(u, D, "cancelled")
    BY <1>4, FinalizedMayEnd DEF Sound, D
  <1> QED BY <1>9, <1>10 DEF u, D

\* cancel keeps the canonical state sound: what it ends, it ends with its children.
LEMMA CancelIsSound ==
    ASSUME NEW r \in Runs, Sound(state), Cancel(r)
    PROVE  Sound(state') /\ NoNewClaims(state, state') /\ Spares(state, state', {})
  <1> DEFINE u == Requested(state, r)
             D == Finalized(state, r)
             hit == Cancelled(state, r)
  <1>1. /\ StateTyped(u)
        /\ u.sessions = state.sessions
        /\ \A q \in Runs : q \notin hit => u.runs[q] = state.runs[q]
        /\ \A q \in Runs : q \in hit =>
             /\ SameOwner(state.runs[q], u.runs[q])
             /\ u.runs[q].status =
                   IF state.runs[q].cancellationRequested THEN state.runs[q].status
                   ELSE "cancelling"
             /\ u.runs[q].cancellationRequested
             /\ u.runs[q].openWaits = {}
             /\ u.runs[q].closedWaits =
                    state.runs[q].closedWaits \cup state.runs[q].openWaits
    BY RequestedDoes DEF Sound
  <1>2. state' = Settle(u, D, "cancelled") /\ CanSettle(u, D, "cancelled")
    BY DEF Cancel, CanCancel
  <1>3. /\ hit \subseteq Runs /\ \A q \in hit : Alive(state, q)
        /\ D \subseteq hit /\ D \subseteq {r} \cup Children(r)
        /\ \A q \in Runs : q \in {r} \cup Children(r) /\ Alive(state, q) => q \in hit
    BY DEF Cancelled, Children, Finalized
  <1> HIDE DEF u, D, hit
  <1>4. \A q \in Runs : Alive(u, q) <=> Alive(state, q)
    BY <1>1, <1>3 DEF Alive, Terminal
  <1>9. Life(u, {}) /\ MayEnd(u, D, "cancelled")
    BY RequestMayEnd DEF u, D
  <1>10. \A q \in Runs : /\ SameOwner(state.runs[q], u.runs[q])
                         /\ Waits(u, q) => Waits(state, q)
                         /\ u.runs[q].openWaits \subseteq state.runs[q].openWaits
                         /\ state.runs[q].closedWaits \subseteq u.runs[q].closedWaits
    BY <1>1, <1>4 DEF SameOwner, Waits
  <1>11. Bonds(u)
    <2>1. Unbinding(state, u)
      BY <1>1, <1>4, <1>10 DEF Unbinding
    <2> QED BY <2>1, UnbindingKeepsBonds DEF Sound
  <1>12. NoNewClaims(state, u)
    BY <1>1, <1>10, SameOwnersMakeNoClaims DEF Sound
  <1>14. Alone(u, D)
    <2> SUFFICES ASSUME NEW d \in D, NEW p \in Runs \ D,
                        SessionOf[d] = SessionOf[p], Waits(u, p),
                        NEW q \in D, SessionOf[q] = SessionOf[d]
                 PROVE  q = d
      BY DEF Alone
    <2>1. d \in Runs /\ q \in Runs /\ Parent[d] = Parent[p] /\ Parent[q] = Parent[d]
      BY <1>3, ConstantFacts
    <2>2. CASE d \in Children(r)
      <3>1. p \in Children(r) /\ Alive(state, p)
        BY <1>4, <2>1, <2>2 DEF Children, Waits
      <3>2. p \in hit
        BY <1>3, <3>1
      <3> QED BY <1>1, <3>2 DEF Waits
    <2>3. CASE d = r
      <3>1. q \notin Children(r)
        BY <2>1, <2>3, TwoLevels, ConstantFacts
      <3> QED BY <1>3, <2>3, <3>1
    <2> QED BY <1>3, <2>2, <2>3
  <1>15. StateTyped(state') /\ Life(state', {})
    BY <1>1, <1>2, <1>9, SettleKeepsLife
  <1>16. Bonds(state')
    BY <1>1, <1>2, <1>3, <1>9, <1>11, <1>14, SettleKeepsBonds
  <1>17. /\ NoNewClaims(u, state')
         /\ \A q \in Runs : u.sessions[SessionOf[q]].writer # None =>
                KeepsClaim(u, state', q) \/ ClosesChild(u, state', q)
    BY <1>1, <1>2, <1>9, SettleMakesNoClaims
  <1>18. NoNewClaims(state, state')
    BY <1>1, <1>12, <1>15, <1>17, NoNewClaimsTransitive DEF Sound
  <1>19. Spares(state, state', {})
    <2> SUFFICES ASSUME NEW q \in Runs, Writes(state, q)
                 PROVE  KeepsClaim(state, state', q) \/ ClosesChild(state, state', q)
      BY DEF Spares
    <2>1. KeepsClaim(u, state', q) \/ ClosesChild(u, state', q)
      BY <1>1, <1>17 DEF Writes
    <2>2. CASE KeepsClaim(u, state', q)
      BY <1>1, <1>10, <2>2 DEF KeepsClaim, SameOwner
    <2>3. CASE ClosesChild(u, state', q)
      BY <1>10, <2>3 DEF ClosesChild
    <2> QED BY <2>1, <2>2, <2>3
  <1> QED BY <1>15, <1>16, <1>18, <1>19 DEF Sound

\* What the authority of an execution is.
LEMMA HoldingMeans ==
    ASSUME NEW a \in Activations, NEW r \in Runs, StateTyped(state), Holding(a, r)
    PROVE  /\ WorkerOf[a] \in Workers
           /\ SessionOf[r] \in Sessions
           /\ HoldsRun(state, WorkerOf[a], r, fiber[a][r])
           /\ state.runs[r].ownerId = WorkerOf[a] /\ state.runs[r].ownerId # None
           /\ state.sessions[SessionOf[r]].writerEpoch = fiber[a][r].epoch
           /\ state.sessions[SessionOf[r]].writer = WriterOf(state, r)
           /\ state.sessions[SessionOf[r]].writer.ownerId = WorkerOf[a]
           /\ Writes(state, r)
  <1>1. /\ WorkerOf[a] \in Workers /\ SessionOf[r] \in Sessions
        /\ WorkerOf[a] # None
    BY ConstantFacts
  <1>2. /\ state.runs[r].ownerId = WorkerOf[a]
        /\ state.runs[r].attemptFence = fiber[a][r].attemptFence
        /\ state.sessions[SessionOf[r]].writerEpoch = fiber[a][r].epoch
        /\ state.sessions[SessionOf[r]].writer = WriterOf(state, r)
    BY DEF Holding, Authorized, SessionIn
  <1>3. WriterOf(state, r) \in Writer
    BY <1>1, <1>2, FencesAreNumbers DEF WriterOf, Writer
  <1>4. Writes(state, r) /\ state.sessions[SessionOf[r]].writer.ownerId = WorkerOf[a]
    BY <1>2, <1>3, ConstantFacts DEF Writes, WriterOf
  <1> QED BY <1>1, <1>2, <1>4 DEF HoldsRun

\* Changing the unanswered calls of a Session that the Run writes, and does not
\* wait on, keeps the canonical state sound.
LEMMA AnsweringIsSound ==
    ASSUME NEW a \in Activations, NEW r \in Runs, NEW U \in SUBSET Runs, Sound(state),
           Holding(a, r), state' = WithUnanswered(state, r, U),
           \A p \in Runs : ~(SessionOf[p] = SessionOf[r] /\ Waits(state, p))
    PROVE  Sound(state') /\ NoNewClaims(state, state') /\ Spares(state, state', {})
  <1>1. StateTyped(state)
    BY DEF Sound
  <1>2. /\ SessionOf[r] \in Sessions
        /\ state.runs[r].ownerId # None /\ Writes(state, r)
    BY <1>1, HoldingMeans
  <1>3. /\ StateTyped(state') /\ state'.runs = state.runs
        /\ \A y \in Sessions \ {SessionOf[r]} : state'.sessions[y] = state.sessions[y]
        /\ state'.sessions[SessionOf[r]].writer = state.sessions[SessionOf[r]].writer
        /\ state'.sessions[SessionOf[r]].writerEpoch = state.sessions[SessionOf[r]].writerEpoch
    BY <1>1, WithUnansweredDoes
  <1>4. Life(state', {})
    <2>1. Quiet(state, state')
      BY <1>3 DEF Quiet, Alive
    <2> QED BY <1>1, <2>1, QuietKeepsLife DEF Sound
  <1>5. Bonds(state')
    BY <1>1, <1>2, AnsweringKeepsBonds DEF Sound, Writes
  <1>6. \A y \in Sessions : /\ state'.sessions[y].writer = state.sessions[y].writer
                            /\ state'.sessions[y].writerEpoch = state.sessions[y].writerEpoch
    BY <1>3
  <1>7. NoNewClaims(state, state')
    BY <1>1, <1>3, <1>6, SameOwnersMakeNoClaims DEF SameOwner
  <1>8. Spares(state, state', {})
    BY <1>3, <1>6, ConstantFacts DEF Spares, KeepsClaim, SameOwner
  <1> QED BY <1>3, <1>4, <1>5, <1>7, <1>8 DEF Sound

\* commitModelResponse keeps the canonical state sound.
LEMMA RespondWithToolCallsIsSound ==
    ASSUME NEW a \in Activations, NEW r \in Runs, Sound(state), RespondWithToolCalls(a, r)
    PROVE  Sound(state') /\ NoNewClaims(state, state') /\ Spares(state, state', {})
  <1>1. /\ Holding(a, r)
        /\ state.sessions[SessionOf[r]].unansweredBy = {}
        /\ state' = WithUnanswered(state, r, {r})
    BY DEF RespondWithToolCalls, Steps, Executes, SessionIn
  <1>2. \A p \in Runs : ~(SessionOf[p] = SessionOf[r] /\ Waits(state, p))
    <2> SUFFICES ASSUME NEW p \in Runs, SessionOf[p] = SessionOf[r], Waits(state, p)
                 PROVE  FALSE
      OBVIOUS
    <2>1. state.sessions[SessionOf[r]].unansweredBy = {p}
      BY DEF Sound, Bonds, WaitsAreUnanswered
    <2> QED BY <1>1, <2>1
  <1> QED BY <1>1, <1>2, AnsweringIsSound

\* The results of calls are appended by an execution that waits for none of them.
LEMMA AppendToolResultsIsSound ==
    ASSUME NEW a \in Activations, NEW r \in Runs, Sound(state), AppendToolResults(a, r),
           state.runs[r].openWaits \subseteq fiber[a][r].pending
    PROVE  Sound(state') /\ NoNewClaims(state, state') /\ Spares(state, state', {})
  <1>1. /\ Holding(a, r) /\ fiber[a][r].pending = {}
        /\ state.sessions[SessionOf[r]].unansweredBy = {r}
        /\ state' = WithUnanswered(state, r, {})
    BY DEF AppendToolResults, Steps, Executes, SessionIn
  <1>2. \A p \in Runs : ~(SessionOf[p] = SessionOf[r] /\ Waits(state, p))
    <2> SUFFICES ASSUME NEW p \in Runs, SessionOf[p] = SessionOf[r], Waits(state, p)
                 PROVE  FALSE
      OBVIOUS
    <2>1. state.sessions[SessionOf[r]].unansweredBy = {p}
      BY DEF Sound, Bonds, WaitsAreUnanswered
    <2>2. p = r
      BY <1>1, <2>1
    <2> QED BY <1>1, <2>2 DEF Waits
  <1> QED BY <1>1, <1>2, AnsweringIsSound

\* suspend keeps the canonical state sound: a child that settled before wakes the
\* Run at once.
LEMMA SuspendIsSound ==
    ASSUME NEW a \in Activations, NEW r \in Runs, Sound(state), Suspend(a, r)
    PROVE  /\ Sound(state') /\ NoNewClaims(state, state')
           /\ Spares(state, state', {r})
           /\ state'.runs[r].status = "waiting" \/ ClosesChild(state, state', r)
  <1>0. StateTyped(state)
    BY DEF Sound
  <1>1. PICK W \in (SUBSET Tokens(r)) \ {{}} :
            /\ Steps(a, r)
            /\ state.sessions[SessionOf[r]].unansweredBy = {r}
            /\ \A c \in W : state.runs[c].status # "absent"
            /\ W \cap state.runs[r].closedWaits = {}
            /\ Fenced(a, r, ReconcileChildWait(Parked(state, r, W), SettledBefore(state, W)))
    BY DEF Suspend, SessionIn
  <1> DEFINE u == Parked(state, r, W)
             D == SettledBefore(state, W)
             v == ReconcileChildWait(u, D)
             w == WorkerOf[a]
             claim == fiber[a][r]
  <1>2. /\ W \subseteq Runs /\ W # {} /\ W \subseteq Tokens(r)
        /\ Alive(state, r)
        /\ D = {c \in W : state.runs[c].status \in Terminal}
        /\ state' = RevokeSession(v, w, r, claim)
    <2>1. W \subseteq Runs /\ W # {} /\ W \subseteq Tokens(r)
      BY DEF Tokens, Children
    <2>2. Alive(state, r) /\ state' = RevokeSession(v, w, r, claim)
      BY <1>1 DEF Steps, Executes, Fenced
    <2> QED BY <2>1, <2>2 DEF SettledBefore
  <1>3. /\ StateTyped(u)
        /\ u.sessions = state.sessions
        /\ \A q \in Runs \ {r} : u.runs[q] = state.runs[q]
        /\ u.runs[r].status = "waiting"
        /\ u.runs[r].ownerId = None
        /\ u.runs[r].attemptFence = state.runs[r].attemptFence
        /\ u.runs[r].cancellationRequested = state.runs[r].cancellationRequested
        /\ u.runs[r].openWaits = state.runs[r].openWaits \cup W
        /\ u.runs[r].closedWaits = state.runs[r].closedWaits
    BY <1>0, <1>2, ParkedDoes
  <1>4. Bonds(u)
    BY <1>0, <1>1, <1>2, ParkingKeepsBonds DEF Sound
  <1> HIDE DEF u, D
  <1>5. \A q \in Runs : Alive(u, q) <=> Alive(state, q)
    BY <1>2, <1>3 DEF Alive, Terminal
  <1>6. \A d \in D : ~Alive(u, d)
    BY <1>2, <1>5 DEF Alive
  <1>7. Life(u, D)
    <2>1. WaitsAreOwn(u)
      <3>1. WaitsAreOwn(state)
        BY DEF Sound, Life
      <3> QED BY <1>1, <1>2, <1>3, <3>1 DEF WaitsAreOwn
    <2>2. Wakeable(u, D)
      <3> SUFFICES ASSUME NEW q \in Runs, u.runs[q].status = "waiting",
                          ~u.runs[q].cancellationRequested
                   PROVE  \E k \in u.runs[q].openWaits : k = q \/ Alive(u, k) \/ k \in D
        BY DEF Wakeable
      <3>1. CASE q = r
        <4>1. PICK k \in W : TRUE
          BY <1>2
        <4>2. k \in u.runs[q].openWaits /\ k \in Runs
          BY <1>2, <1>3, <3>1, <4>1
        <4>3. Alive(u, k) \/ k \in D
          BY <1>1, <1>2, <1>5, <4>1, <4>2 DEF Alive
        <4> QED BY <4>2, <4>3
      <3>2. CASE q # r
        <4>1. u.runs[q] = state.runs[q]
          BY <1>3, <3>2
        <4>2. PICK k \in state.runs[q].openWaits : k = q \/ Alive(state, k)
          BY <4>1 DEF Sound, Life, Wakeable
        <4>3. k \in Runs
          BY <1>0 DEF StateTyped, StoredRun
        <4> QED BY <1>5, <4>1, <4>2, <4>3
      <3> QED BY <3>1, <3>2
    <2>3. FamiliesEnd(u)
      <3>1. \A q \in Runs : u.runs[q].status = "cancelled" =>
                                state.runs[q].status = "cancelled"
        BY <1>3
      <3> QED BY <1>5, <3>1 DEF Sound, Life, FamiliesEnd, UnsettledChildren, Children
    <2> QED BY <2>1, <2>2, <2>3 DEF Life
  <1>8. /\ StateTyped(v) /\ Life(v, {}) /\ Bonds(v)
        /\ \A q \in Runs : v.runs[q] = u.runs[q] \/ ResumedBy(u, v, D, q)
        /\ v.sessions = u.sessions
    BY <1>3, <1>4, <1>6, <1>7, ReconcileChildWaitDoes, ReconcileKeepsLife, ReconcileKeepsBonds
  <1>9. /\ NoNewClaims(u, v)
        /\ \A q \in Runs : KeepsClaim(u, v, q) \/ ClosesChild(u, v, q)
    BY <1>3, <1>7, ReconcileMakesNoClaims DEF Life
  <1> HIDE DEF v
  <1>10. /\ StateTyped(state') /\ Life(state', {}) /\ Bonds(state')
         /\ NoNewClaims(v, state')
         /\ \A q \in Runs : Writes(v, q) =>
                KeepsClaim(v, state', q) \/ (q = r /\ v.runs[r].ownerId = None)
         /\ state'.runs = v.runs
    <2> DEFINE t == RevokeSession(v, w, r, claim)
    <2>1. Bonds(t)
      BY <1>8, RevokingKeepsBonds
    <2>2. /\ StateTyped(t) /\ Life(t, {})
          /\ NoNewClaims(v, t)
          /\ \A q \in Runs : Writes(v, q) =>
               \/ KeepsClaim(v, t, q)
               \/ q = r /\ v.runs[r].ownerId = None
          /\ t.runs = v.runs
      BY <1>8, RevokingMakesNoClaims
    <2>3. state' = t
      BY <1>2
    <2> HIDE DEF t
    <2> QED BY <2>1, <2>2, <2>3
  <1>11. NoNewClaims(state, u)
    <2>1. ASSUME NEW q \in Runs
          PROVE  /\ state.runs[q].attemptFence <= u.runs[q].attemptFence
                 /\ u.runs[q].ownerId # None => u.runs[q] = state.runs[q]
      BY <1>0, <1>3, FencesAreNumbers
    <2> QED BY <1>3, <2>1 DEF NoNewClaims, SameOwner
  <1>12. NoNewClaims(state, state')
    BY <1>0, <1>3, <1>8, <1>9, <1>10, <1>11, NoNewClaimsTransitive
  <1>13. Spares(state, state', {r})
    <2> SUFFICES ASSUME NEW q \in Runs \ {r}, Writes(state, q)
                 PROVE  KeepsClaim(state, state', q) \/ ClosesChild(state, state', q)
      BY DEF Spares
    <2>1. KeepsClaim(v, state', q)
      BY <1>3, <1>8, <1>10 DEF Writes
    <2>2. u.runs[q] = state.runs[q]
      BY <1>3
    <2>3. CASE KeepsClaim(u, v, q)
      BY <1>3, <2>1, <2>2, <2>3 DEF KeepsClaim, SameOwner
    <2>4. CASE ClosesChild(u, v, q)
      BY <1>10, <2>2, <2>4 DEF ClosesChild
    <2> QED BY <1>9, <2>3, <2>4
  <1>14. state'.runs[r].status = "waiting" \/ ClosesChild(state, state', r)
    <2>1. CASE v.runs[r] = u.runs[r]
      BY <1>3, <1>10, <2>1
    <2>2. CASE ResumedBy(u, v, D, r)
      <3>1. PICK c \in D : c # r /\ c \in u.runs[r].openWaits
        BY <2>2 DEF ResumedBy
      <3>2. c \in Children(r) /\ c \notin state.runs[r].closedWaits
        BY <1>1, <1>2, <3>1 DEF Tokens
      <3>3. c \in v.runs[r].closedWaits
        BY <2>2, <3>1 DEF ResumedBy
      <3> QED BY <1>10, <3>2, <3>3 DEF ClosesChild
    <2> QED BY <1>8, <2>1, <2>2
  <1> QED BY <1>10, <1>12, <1>13, <1>14 DEF Sound

\* Giving a claim up unbinds the Session with it.
LEMMA DisowningIsSound ==
    ASSUME NEW s, NEW w \in Workers, NEW r \in Runs, NEW claim, Sound(s),
           HoldsRun(s, w, r, claim),
           Writes(s, r) => s.sessions[SessionOf[r]].writerEpoch = claim.epoch
    PROVE  LET t == RevokeSession(Disowned(s, r), w, r, claim)
           IN  Sound(t) /\ NoNewClaims(s, t) /\ Spares(s, t, {r})
  <1> DEFINE u == Disowned(s, r)
             t == RevokeSession(u, w, r, claim)
  <1>1. StateTyped(s)
    BY DEF Sound
  <1>2. /\ StateTyped(u)
        /\ u.sessions = s.sessions
        /\ \A q \in Runs \ {r} : u.runs[q] = s.runs[q]
        /\ u.runs[r].ownerId = None
        /\ u.runs[r].attemptFence = s.runs[r].attemptFence
        /\ SameRun(s.runs[r], u.runs[r])
    BY <1>1, DisownedDoes
  <1>3. Bonds(t)
    BY <1>1, DisowningKeepsBonds DEF Sound, Writes
  <1> HIDE DEF u
  <1>4. Life(u, {})
    <2>1. Quiet(s, u)
      BY <1>2 DEF Quiet, Alive, SameRun
    <2> QED BY <1>1, <2>1, QuietKeepsLife DEF Sound
  <1>5. NoNewClaims(s, u)
    <2>1. ASSUME NEW q \in Runs
          PROVE  /\ s.runs[q].attemptFence <= u.runs[q].attemptFence
                 /\ u.runs[q].ownerId # None => u.runs[q] = s.runs[q]
      BY <1>1, <1>2, FencesAreNumbers
    <2> QED BY <1>2, <2>1 DEF NoNewClaims, SameOwner
  <1>6. /\ StateTyped(t) /\ Life(t, {}) /\ NoNewClaims(u, t)
        /\ \A q \in Runs : Writes(u, q) =>
              KeepsClaim(u, t, q) \/ (q = r /\ u.runs[r].ownerId = None)
    BY <1>2, <1>4, RevokingMakesNoClaims
  <1> HIDE DEF t
  <1>7. NoNewClaims(s, t)
    BY <1>1, <1>2, <1>5, <1>6, NoNewClaimsTransitive
  <1>8. Spares(s, t, {r})
    <2> SUFFICES ASSUME NEW q \in Runs \ {r}, Writes(s, q)
                 PROVE  KeepsClaim(s, t, q)
      BY DEF Spares
    <2>1. KeepsClaim(u, t, q)
      BY <1>2, <1>6 DEF Writes
    <2> QED BY <1>2, <2>1 DEF KeepsClaim, SameOwner
  <1> QED BY <1>3, <1>6, <1>7, <1>8 DEF Sound, t, u

\* complete and fail keep the canonical state sound.
LEMMA FinishIsSound ==
    ASSUME NEW a \in Activations, NEW r \in Runs, NEW status \in {"succeeded", "failed"},
           Sound(state), Finish(a, r, status)
    PROVE  /\ Sound(state') /\ NoNewClaims(state, state')
           /\ Spares(state, state', {r})
           /\ \/ KeepsClaim(state, state', r)
              \/ ClosesChild(state, state', r)
              \/ state.runs[r].cancellationRequested /\ MustWait(state, r)
  <1> DEFINE w == WorkerOf[a]
             claim == fiber[a][r]
             cancelled == state.runs[r].cancellationRequested
             outcome == IF cancelled THEN "cancelled" ELSE status
  <1>0. StateTyped(state) /\ Holding(a, r) /\ Alive(state, r)
    BY DEF Sound, Finish, Executes
  <1>1. /\ w \in Workers /\ HoldsRun(state, w, r, claim) /\ Writes(state, r)
        /\ state.sessions[SessionOf[r]].writerEpoch = claim.epoch
        /\ state.runs[r].ownerId # None
    BY <1>0, HoldingMeans
  <1>2. CASE cancelled /\ MustWait(state, r)
    <2>1. state' = RevokeSession(Disowned(state, r), w, r, claim)
      BY <1>2 DEF Finish, Fenced
    <2>2. Sound(state') /\ NoNewClaims(state, state') /\ Spares(state, state', {r})
      BY <1>1, <2>1, DisowningIsSound
    <2> QED BY <1>2, <2>2
  <1>3. CASE ~(cancelled /\ MustWait(state, r))
    <2> DEFINE u == Settle(state, {r}, outcome)
    <2>1. CanSettle(state, {r}, outcome) /\ state' = RevokeSession(u, w, r, claim)
      BY <1>3 DEF Finish, Fenced
    <2>2. MayEnd(state, {r}, outcome)
      BY <1>0, <1>3 DEF MayEnd, Terminal, MustWait
    <2>3. Alone(state, {r})
      BY DEF Alone
    <2>4. StateTyped(u) /\ Life(u, {}) /\ Bonds(u)
      BY <2>1, <2>2, <2>3, SettleKeepsLife, SettleKeepsBonds DEF Sound
    <2>5. /\ NoNewClaims(state, u)
          /\ \A q \in Runs : state.sessions[SessionOf[q]].writer # None =>
                KeepsClaim(state, u, q) \/ ClosesChild(state, u, q)
      BY <2>2, SettleMakesNoClaims DEF Sound
    <2> HIDE DEF u, outcome
    <2>6. /\ StateTyped(state') /\ Life(state', {}) /\ NoNewClaims(u, state')
          /\ \A q \in Runs : Writes(u, q) =>
                KeepsClaim(u, state', q) \/ (q = r /\ u.runs[r].ownerId = None)
          /\ state'.runs = u.runs
      <3> DEFINE t == RevokeSession(u, w, r, claim)
      <3>1. /\ StateTyped(t) /\ Life(t, {})
            /\ NoNewClaims(u, t)
            /\ \A q \in Runs : Writes(u, q) =>
                 \/ KeepsClaim(u, t, q)
                 \/ q = r /\ u.runs[r].ownerId = None
            /\ t.runs = u.runs
        BY <2>4, RevokingMakesNoClaims
      <3>2. state' = t
        BY <2>1
      <3> HIDE DEF t
      <3> QED BY <3>1, <3>2
    <2>7. Bonds(state')
      BY <2>1, <2>4, RevokingKeepsBonds
    <2>8. NoNewClaims(state, state')
      BY <1>0, <2>4, <2>5, <2>6, NoNewClaimsTransitive
    <2>9. ASSUME NEW q \in Runs, Writes(state, q)
          PROVE  KeepsClaim(state, state', q) \/ ClosesChild(state, state', q)
      <3>1. CASE ClosesChild(state, u, q)
        BY <2>6, <3>1 DEF ClosesChild
      <3>2. CASE KeepsClaim(state, u, q)
        <4>1. Writes(u, q)
          BY <2>9, <3>2 DEF Writes, KeepsClaim
        <4>2. q = r => u.runs[r].ownerId # None
          BY <1>1, <3>2 DEF KeepsClaim, SameOwner
        <4>3. KeepsClaim(u, state', q)
          BY <2>6, <4>1, <4>2
        <4> QED BY <3>2, <4>3 DEF KeepsClaim, SameOwner
      <3> QED BY <2>5, <2>9, <3>1, <3>2 DEF Writes
    <2> QED BY <1>1, <2>6, <2>7, <2>8, <2>9 DEF Sound, Spares
  <1> QED BY <1>2, <1>3

-----------------------------------------------------------------------------
(* Claims and executions.                                                  *)

\* The executions of the activations, and the fences of their claims.
FibersTyped ==
    /\ fiber = [a \in Activations |-> [r \in Runs |-> fiber[a][r]]]
    /\ \A a \in Activations, r \in Runs :
            fiber[a][r] # None => fiber[a][r].attemptFence \in Nat

\* No claim is ahead of its Run.
ClaimsAreBehind ==
    \A a \in Activations, r \in Runs :
        fiber[a][r] # None => fiber[a][r].attemptFence <= state.runs[r].attemptFence

\* No two activations were given the same fence of a Run.
ClaimsDiffer ==
    \A a, b \in Activations, r \in Runs :
        a # b /\ fiber[a][r] # None /\ fiber[b][r] # None
        => fiber[a][r].attemptFence # fiber[b][r].attemptFence

\* A claim that still holds its Run knows what the Run waits for, and the
\* epoch at which it writes the Session.
ClaimsKnow ==
    \A a \in Activations, r \in Runs :
        fiber[a][r] # None /\ HoldsRun(state, WorkerOf[a], r, fiber[a][r]) =>
            /\ state.runs[r].openWaits \subseteq fiber[a][r].pending
            /\ Writes(state, r) =>
                    state.sessions[SessionOf[r]].writerEpoch = fiber[a][r].epoch

ClaimsFit == FibersTyped /\ ClaimsAreBehind /\ ClaimsDiffer /\ ClaimsKnow

OwnInv == Sound(state) /\ ClaimsFit

\* Executions go on or end: the others keep their claims.
LEMMA EndingKeepsInv ==
    ASSUME OwnInv, Sound(state'), NoNewClaims(state, state'),
           fiber' = [a \in Activations |-> [r \in Runs |-> fiber'[a][r]]],
           \A a \in Activations, r \in Runs : fiber'[a][r] \in {fiber[a][r], None}
    PROVE  OwnInv'
  <1>1. FibersTyped'
    BY DEF OwnInv, ClaimsFit, FibersTyped
  <1>2. ClaimsAreBehind'
    <2> SUFFICES ASSUME NEW a \in Activations, NEW r \in Runs, fiber'[a][r] # None
                 PROVE  fiber'[a][r].attemptFence <= state'.runs[r].attemptFence
      BY DEF ClaimsAreBehind
    <2>1. /\ fiber'[a][r] = fiber[a][r]
          /\ fiber[a][r].attemptFence \in Nat
          /\ fiber[a][r].attemptFence <= state.runs[r].attemptFence
      BY DEF OwnInv, ClaimsFit, FibersTyped, ClaimsAreBehind
    <2>2. /\ state.runs[r].attemptFence \in Nat /\ state'.runs[r].attemptFence \in Nat
      BY FencesAreNumbers DEF OwnInv, Sound
    <2>3. state.runs[r].attemptFence <= state'.runs[r].attemptFence
      BY DEF NoNewClaims
    <2> QED BY <2>1, <2>2, <2>3
  <1>3. ClaimsDiffer'
    <2> SUFFICES ASSUME NEW a \in Activations, NEW b \in Activations, NEW r \in Runs,
                        a # b, fiber'[a][r] # None, fiber'[b][r] # None
                 PROVE  fiber'[a][r].attemptFence # fiber'[b][r].attemptFence
      BY DEF ClaimsDiffer
    <2>1. fiber'[a][r] = fiber[a][r] /\ fiber'[b][r] = fiber[b][r]
      OBVIOUS
    <2> QED BY <2>1 DEF OwnInv, ClaimsFit, ClaimsDiffer
  <1>4. ClaimsKnow'
    <2> SUFFICES ASSUME NEW a \in Activations, NEW r \in Runs, fiber'[a][r] # None,
                        HoldsRun(state', WorkerOf[a], r, fiber'[a][r])
                 PROVE  /\ state'.runs[r].openWaits \subseteq fiber'[a][r].pending
                        /\ Writes(state', r) =>
                             state'.sessions[SessionOf[r]].writerEpoch = fiber'[a][r].epoch
      BY DEF ClaimsKnow
    <2>1. fiber'[a][r] = fiber[a][r] /\ state'.runs[r].ownerId # None
      BY ConstantFacts DEF HoldsRun
    <2>2. /\ SameOwner(state.runs[r], state'.runs[r])
          /\ state'.runs[r].openWaits \subseteq state.runs[r].openWaits
      BY <2>1 DEF NoNewClaims
    <2>3. HoldsRun(state, WorkerOf[a], r, fiber[a][r])
      BY <2>1, <2>2 DEF HoldsRun, SameOwner
    <2>4. Writes(state', r) =>
            /\ Writes(state, r)
            /\ state'.sessions[SessionOf[r]].writerEpoch
                    = state.sessions[SessionOf[r]].writerEpoch
      BY ConstantFacts DEF NoNewClaims, Writes
    <2> QED BY <2>1, <2>2, <2>3, <2>4 DEF OwnInv, ClaimsFit, ClaimsKnow
  <1> QED BY <1>1, <1>2, <1>3, <1>4 DEF OwnInv, ClaimsFit

\* Who did not execute anything new keeps the invariant.
LEMMA SameFibersKeepInv ==
    ASSUME OwnInv, Sound(state'), NoNewClaims(state, state'), fiber' = fiber
    PROVE  OwnInv'
  BY EndingKeepsInv DEF OwnInv, ClaimsFit, FibersTyped

\* A claim raises the fence: it differs from every claim before it.
LEMMA ClaimKeepsInv ==
    ASSUME NEW a \in Activations, NEW r \in Runs, NEW E, OwnInv, ClaimExecution(a, r, E)
    PROVE  /\ OwnInv'
           /\ \A q \in Runs \ {r} : state'.runs[q] = state.runs[q]
           /\ \A x \in Sessions \ {SessionOf[r]} : state'.sessions[x] = state.sessions[x]
           /\ state'.workers = state.workers
  <1> DEFINE w == WorkerOf[a]
             x == SessionOf[r]
             claim == [attemptFence |-> state'.runs[r].attemptFence,
                       epoch |-> SessionIn(state', r).writerEpoch,
                       pending |-> state'.runs[r].openWaits,
                       cancelled |-> state'.runs[r].cancellationRequested]
  <1>1. /\ Alive(state, r)
        /\ state' = ClaimedBy(state, w, r)
        /\ \/ fiber' = [fiber EXCEPT ![a][r] = IF @ = None THEN claim ELSE @]
           \/ fiber' = fiber
    BY DEF ClaimExecution, Claimable
  <1>2. StateTyped(state) /\ w \in Workers /\ x \in Sessions
    BY ConstantFacts DEF OwnInv, Sound
  <1>3. /\ StateTyped(state')
        /\ state'.workers = state.workers
        /\ \A q \in Runs \ {r} : state'.runs[q] = state.runs[q]
        /\ \A y \in Sessions \ {x} : state'.sessions[y] = state.sessions[y]
        /\ state'.runs[r].status = IF state.runs[r].cancellationRequested
                                   THEN "cancelling" ELSE "running"
        /\ state'.runs[r].attemptFence = state.runs[r].attemptFence + 1
        /\ state'.runs[r].cancellationRequested = state.runs[r].cancellationRequested
        /\ state'.runs[r].openWaits = state.runs[r].openWaits
        /\ state'.runs[r].closedWaits = state.runs[r].closedWaits
        /\ state'.sessions[x].writer = WriterOf(state', r)
    BY <1>1, <1>2, ClaimedByDoes
  <1>4. Bonds(state')
    BY <1>1, <1>2, ClaimKeepsBonds DEF OwnInv, Sound
  <1>5. Life(state', {})
    <2>1. Quiet(state, state')
      <3>1. Alive(state', r) /\ state'.runs[r].status \notin {"waiting", "cancelled", "absent"}
        BY <1>3 DEF Alive, Terminal
      <3> QED BY <1>1, <1>3, <3>1 DEF Quiet, Alive
    <2> QED BY <1>2, <2>1, QuietKeepsLife DEF OwnInv, Sound
  <1>6. claim.attemptFence = state.runs[r].attemptFence + 1
    BY <1>3
  <1>7. /\ claim.pending = state'.runs[r].openWaits
        /\ claim.epoch = state'.sessions[x].writerEpoch
    BY DEF SessionIn
  <1> HIDE DEF claim
  <1>8. ASSUME NEW q \in Runs
        PROVE  /\ state.runs[q].attemptFence \in Nat
               /\ state'.runs[q].attemptFence \in Nat
               /\ state.runs[q].attemptFence <= state'.runs[q].attemptFence
    BY <1>2, <1>3, FencesAreNumbers
  <1>9. ASSUME NEW b \in Activations, NEW q \in Runs, fiber[b][q] # None
        PROVE  /\ fiber[b][q].attemptFence \in Nat
               /\ fiber[b][q].attemptFence <= state.runs[q].attemptFence
    BY <1>9 DEF OwnInv, ClaimsFit, FibersTyped, ClaimsAreBehind
  <1>10. ASSUME NEW b \in Activations, NEW q \in Runs
         PROVE  \/ fiber'[b][q] = fiber[b][q]
                \/ b = a /\ q = r /\ fiber'[b][q] = claim
    BY <1>1 DEF OwnInv, ClaimsFit, FibersTyped
  <1>11. FibersTyped'
    <2>1. fiber' = [b \in Activations |-> [q \in Runs |-> fiber'[b][q]]]
      BY <1>1 DEF OwnInv, ClaimsFit, FibersTyped
    <2>2. ASSUME NEW b \in Activations, NEW q \in Runs, fiber'[b][q] # None
          PROVE  fiber'[b][q].attemptFence \in Nat
      BY <1>6, <1>8, <1>9, <1>10, <2>2
    <2> QED BY <2>1, <2>2 DEF FibersTyped
  <1>12. ClaimsAreBehind'
    <2> SUFFICES ASSUME NEW b \in Activations, NEW q \in Runs, fiber'[b][q] # None
                 PROVE  fiber'[b][q].attemptFence <= state'.runs[q].attemptFence
      BY DEF ClaimsAreBehind
    <2>1. CASE fiber'[b][q] = fiber[b][q]
      BY <1>8, <1>9, <2>1
    <2>2. CASE b = a /\ q = r /\ fiber'[b][q] = claim
      BY <1>3, <1>6, <1>8, <2>2
    <2> QED BY <1>10, <2>1, <2>2
  <1>13. ClaimsDiffer'
    <2>1. ASSUME NEW b \in Activations, NEW q \in Runs, fiber[b][q] # None, q = r
          PROVE  fiber[b][q].attemptFence # claim.attemptFence
      BY <1>6, <1>8, <1>9, <2>1
    <2> SUFFICES ASSUME NEW b \in Activations, NEW c \in Activations, NEW q \in Runs,
                        b # c, fiber'[b][q] # None, fiber'[c][q] # None
                 PROVE  fiber'[b][q].attemptFence # fiber'[c][q].attemptFence
      BY DEF ClaimsDiffer
    <2>2. CASE fiber'[b][q] = fiber[b][q] /\ fiber'[c][q] = fiber[c][q]
      BY <2>2 DEF OwnInv, ClaimsFit, ClaimsDiffer
    <2>3. CASE q = r /\ fiber'[b][q] = claim /\ fiber'[c][q] = fiber[c][q]
      BY <2>1, <2>3
    <2>4. CASE q = r /\ fiber'[c][q] = claim /\ fiber'[b][q] = fiber[b][q]
      BY <2>1, <2>4
    <2> QED BY <1>10, <2>2, <2>3, <2>4
  <1>14. ClaimsKnow'
    <2> SUFFICES ASSUME NEW b \in Activations, NEW q \in Runs, fiber'[b][q] # None,
                        HoldsRun(state', WorkerOf[b], q, fiber'[b][q])
                 PROVE  /\ state'.runs[q].openWaits \subseteq fiber'[b][q].pending
                        /\ Writes(state', q) =>
                             state'.sessions[SessionOf[q]].writerEpoch = fiber'[b][q].epoch
      BY DEF ClaimsKnow
    <2>1. CASE b = a /\ q = r /\ fiber'[b][q] = claim
      BY <1>7, <2>1
    <2>2. CASE fiber'[b][q] = fiber[b][q]
      <3>1. q # r
        BY <1>3, <1>8, <1>9, <2>2 DEF HoldsRun
      <3>2. state'.runs[q] = state.runs[q] /\ SessionOf[q] \in Sessions
        BY <1>3, <3>1, ConstantFacts
      <3>3. HoldsRun(state, WorkerOf[b], q, fiber[b][q])
        BY <2>2, <3>2 DEF HoldsRun
      <3>4. CASE SessionOf[q] = x
        <4>1. ~Writes(state', q)
          BY <1>3, <3>1, <3>4 DEF Writes, WriterOf
        <4> QED BY <2>2, <3>2, <3>3, <4>1 DEF OwnInv, ClaimsFit, ClaimsKnow
      <3>5. CASE SessionOf[q] # x
        <4>1. state'.sessions[SessionOf[q]] = state.sessions[SessionOf[q]]
          BY <1>3, <3>2, <3>5
        <4> QED BY <2>2, <3>2, <3>3, <4>1 DEF OwnInv, ClaimsFit, ClaimsKnow, Writes
      <3> QED BY <3>4, <3>5
    <2> QED BY <1>10, <2>1, <2>2
  <1> QED BY <1>3, <1>4, <1>5, <1>11, <1>12, <1>13, <1>14 DEF OwnInv, ClaimsFit, Sound

-----------------------------------------------------------------------------
(* Every step keeps the invariant.                                         *)

\* Leases that some clock shows as expired are leases of mortal activations.
LEMMA ExpiredAreMortal ==
    ASSUME NEW s, NEW E \in ExpiredSets(s)
    PROVE  /\ None \notin E
           /\ \A w \in E : w \in Workers /\ s.workers[w] \in Mortal
  BY ConstantFacts DEF ExpiredSets

\* What activations do to the canonical state.
LEMMA LeaseIsSound ==
    ASSUME NEW a \in Activations, Sound(state), Lease(a)
    PROVE  /\ Sound(state') /\ NoNewClaims(state, state')
           /\ \A b \in Activations \ Mortal, r \in Runs :
                state.workers[WorkerOf[b]] = b /\ Holding(b, r)
                => KeepsClaim(state, state', r)
  <1> DEFINE spared == \A b \in Activations \ Mortal, r \in Runs :
                          state.workers[WorkerOf[b]] = b /\ Holding(b, r)
                          => KeepsClaim(state, state', r)
  <1>1. ASSUME NEW E \in ExpiredSets(state)
        PROVE  LET t == ReleaseExpiredOwners(state, E)
               IN  /\ Sound(t) /\ NoNewClaims(state, t)
                   /\ \A b \in Activations \ Mortal, r \in Runs :
                        state.workers[WorkerOf[b]] = b /\ Holding(b, r)
                        => KeepsClaim(state, t, r)
    <2> DEFINE t == ReleaseExpiredOwners(state, E)
    <2>1. /\ Sound(t) /\ NoNewClaims(state, t)
          /\ \A r \in Runs :
                /\ state.runs[r].ownerId \notin E
                /\ state.sessions[SessionOf[r]].writer.ownerId \notin E
                => KeepsClaim(state, t, r)
      BY ExpiredAreMortal, ReleasingIsSound
    <2> HIDE DEF t
    <2>2. ASSUME NEW b \in Activations \ Mortal, NEW r \in Runs,
                 state.workers[WorkerOf[b]] = b, Holding(b, r)
          PROVE  KeepsClaim(state, t, r)
      <3>1. WorkerOf[b] \notin E
        BY <2>2, ExpiredAreMortal
      <3>2. /\ state.runs[r].ownerId = WorkerOf[b]
            /\ state.sessions[SessionOf[r]].writer.ownerId = WorkerOf[b]
        BY <2>2, HoldingMeans DEF Sound
      <3> QED BY <2>1, <3>1, <3>2
    <2> QED BY <2>1, <2>2 DEF t
  <1>2. ASSUME NEW E \in ExpiredSets(state), Acquire(a, E)
        PROVE  Sound(state') /\ NoNewClaims(state, state') /\ spared
    <2> DEFINE t == ReleaseExpiredOwners(state, E)
               w == WorkerOf[a]
               workers == [t.workers EXCEPT ![w] = a]
    <2>1. /\ Sound(t) /\ NoNewClaims(state, t)
          /\ \A b \in Activations \ Mortal, r \in Runs :
                state.workers[WorkerOf[b]] = b /\ Holding(b, r)
                => KeepsClaim(state, t, r)
      BY <1>1
    <2>2. state' = [t EXCEPT !.workers[w] = a]
      BY <1>2 DEF Acquire
    <2> HIDE DEF t
    <2>3. t = [f \in Fields |-> t[f]]
      BY <2>1 DEF Sound, StateTyped
    <2>4. /\ state' = [f \in Fields |-> state'[f]]
          /\ state'.runs = t.runs /\ state'.sessions = t.sessions
      BY <2>2, <2>3 DEF Fields
    <2>5. Sound(state') /\ NoNewClaims(t, state')
      BY <2>1, <2>4, SameCore
    <2>6. NoNewClaims(state, state')
      BY <2>1, <2>5, NoNewClaimsTransitive DEF Sound
    <2>7. \A r \in Runs : KeepsClaim(state, t, r) => KeepsClaim(state, state', r)
      BY <2>4 DEF KeepsClaim
    <2> QED BY <2>1, <2>5, <2>6, <2>7
  <1>3. ASSUME NEW E \in ExpiredSets(state), Reconcile(a, E)
        PROVE  Sound(state') /\ NoNewClaims(state, state') /\ spared
    <2>1. state' = ReleaseExpiredOwners(state, E)
      BY <1>3 DEF Reconcile
    <2> QED BY <1>1, <2>1
  <1>4. CASE state' = state \/ state' = ExpireLease(state, WorkerOf[a])
    <2>1. state = [f \in Fields |-> state[f]]
      BY DEF Sound, StateTyped
    <2>2. /\ state' = [f \in Fields |-> state'[f]]
          /\ state'.runs = state.runs /\ state'.sessions = state.sessions
      BY <1>4, <2>1 DEF ExpireLease, Fields
    <2>3. Sound(state') /\ NoNewClaims(state, state')
      BY <2>2, SameCore
    <2>4. spared
      BY <2>2 DEF KeepsClaim, SameOwner
    <2> QED BY <2>3, <2>4
  <1>5. CASE HostFails(a) \/ ReleaseLease(a) \/ Crash(a)
    BY <1>4, <1>5 DEF HostFails, ReleaseLease, Crash
  <1> QED BY <1>2, <1>3, <1>5 DEF Lease

\* The commands of an execution under its claim.
LEMMA CommandIsSound ==
    ASSUME NEW a \in Activations, NEW r \in Runs, OwnInv,
           \/ RespondWithToolCalls(a, r) \/ AppendToolResults(a, r)
           \/ Suspend(a, r) \/ Complete(a, r) \/ Fail(a, r)
    PROVE  /\ Sound(state') /\ NoNewClaims(state, state') /\ fiber' = fiber
           /\ Spares(state, state', {r})
           /\ Holding(a, r)
           /\ \/ KeepsClaim(state, state', r)
              \/ ClosesChild(state, state', r)
              \/ state'.runs[r].status = "waiting"
              \/ state.runs[r].cancellationRequested /\ MustWait(state, r)
  <1>1. Sound(state) /\ StateTyped(state)
    BY DEF OwnInv, Sound
  <1>2. CASE RespondWithToolCalls(a, r)
    <2>1. Holding(a, r) /\ fiber' = fiber
      BY <1>2 DEF RespondWithToolCalls, Steps, Executes
    <2>2. Sound(state') /\ NoNewClaims(state, state') /\ Spares(state, state', {})
      BY <1>1, <1>2, RespondWithToolCallsIsSound
    <2> QED BY <1>1, <2>1, <2>2, HoldingMeans DEF Spares
  <1>3. CASE AppendToolResults(a, r)
    <2>1. Holding(a, r) /\ fiber' = fiber
      BY <1>3 DEF AppendToolResults, Steps, Executes
    <2>2. state.runs[r].openWaits \subseteq fiber[a][r].pending
      BY <1>1, <2>1, HoldingMeans DEF OwnInv, ClaimsFit, ClaimsKnow, Holding
    <2>3. Sound(state') /\ NoNewClaims(state, state') /\ Spares(state, state', {})
      BY <1>1, <1>3, <2>2, AppendToolResultsIsSound
    <2> QED BY <1>1, <2>1, <2>3, HoldingMeans DEF Spares
  <1>4. CASE Suspend(a, r)
    <2>1. Holding(a, r) /\ fiber' = fiber
      BY <1>4 DEF Suspend, Fenced, Steps, Executes
    <2> QED BY <1>1, <1>4, <2>1, SuspendIsSound
  <1>5. CASE Complete(a, r) \/ Fail(a, r)
    <2>1. PICK status \in {"succeeded", "failed"} : Finish(a, r, status)
      BY <1>5 DEF Complete, Fail
    <2>2. Holding(a, r) /\ fiber' = fiber
      BY <2>1 DEF Finish, Fenced, Executes
    <2> QED BY <1>1, <2>1, <2>2, FinishIsSound
  <1> QED BY <1>2, <1>3, <1>4, <1>5

\* An execution that exits takes nothing from anybody else.
LEMMA ReleaseExecutionIsSound ==
    ASSUME NEW a \in Activations, NEW r \in Runs, OwnInv, ReleaseExecution(a, r)
    PROVE  /\ Sound(state') /\ NoNewClaims(state, state')
           /\ fiber' = [fiber EXCEPT ![a][r] = None]
           /\ Spares(state, state', {r})
           /\ state' = state \/ HoldsRun(state, WorkerOf[a], r, fiber[a][r])
  <1> DEFINE claim == fiber[a][r]
             w == WorkerOf[a]
  <1>1. /\ Sound(state) /\ w \in Workers
        /\ fiber' = [fiber EXCEPT ![a][r] = None]
        /\ claim # None
    BY ConstantFacts DEF OwnInv, ReleaseExecution
  <1>2. CASE state' = state
    <2>1. state = [f \in Fields |-> state[f]]
      BY <1>1 DEF Sound, StateTyped
    <2>2. Sound(state') /\ NoNewClaims(state, state') /\ Spares(state, state', {})
      BY <1>1, <1>2, <2>1, SameCore
    <2> QED BY <1>1, <1>2, <2>2 DEF Spares
  <1>3. CASE /\ HoldsRun(state, w, r, claim)
             /\ state' = RevokeSession(Disowned(state, r), w, r, claim)
    <2>1. Writes(state, r) => state.sessions[SessionOf[r]].writerEpoch = claim.epoch
      BY <1>1, <1>3 DEF OwnInv, ClaimsFit, ClaimsKnow
    <2> HIDE DEF w, claim
    <2>2. Sound(state') /\ NoNewClaims(state, state') /\ Spares(state, state', {r})
      BY <1>1, <1>3, <2>1, DisowningIsSound
    <2> QED BY <1>1, <1>3, <2>2 DEF w, claim
  <1> QED BY <1>2, <1>3 DEF ReleaseExecution, Released

\* No client takes a Run from its execution.
LEMMA ClientIsSound ==
    ASSUME NEW r \in Runs, Sound(state), Client(r)
    PROVE  /\ Sound(state') /\ NoNewClaims(state, state') /\ Spares(state, state', {})
           /\ fiber' = fiber
  <1>1. fiber' = fiber
    BY DEF Client, AdmitSend, AdmitStart, Activate, AdmitChild, Respond, Cancel
  <1> QED BY <1>1, AdmitSendIsSound, AdmitStartIsSound, ActivateIsSound, AdmitChildIsSound,
             RespondIsSound, CancelIsSound DEF Client

\* The empty state is sound, and nobody executes anything.
LEMMA OwnInvInit ==
    Init => OwnInv
  <1> SUFFICES ASSUME Init PROVE OwnInv
    OBVIOUS
  <1> DEFINE run == [status |-> "absent", ownerId |-> None, attemptFence |-> 0,
                     cancellationRequested |-> FALSE, openWaits |-> {}, closedWaits |-> {},
                     children |-> << >>]
             session == [writer |-> None, writerEpoch |-> 0, unansweredBy |-> {}]
  <1>1. /\ state = [f \in Fields |-> state[f]]
        /\ state.runs = [r \in Runs |-> run]
        /\ state.sessions = [x \in Sessions |-> session]
    BY DEF Init, EmptyState, Fields
  <1>2. StateTyped(state)
    <2>1. << >> \in Seq(Runs)
      OBVIOUS
    <2>2. run \in StoredRun
      BY <2>1 DEF StoredRun, Statuses
    <2>3. SessionTyped(session)
      BY DEF SessionTyped, SessionFields
    <2> HIDE DEF run, session
    <2> QED BY <1>1, <2>2, <2>3 DEF StateTyped
  <1>3. Life(state, {})
    BY <1>1 DEF Life, WaitsAreOwn, Wakeable, FamiliesEnd
  <1>4. Bonds(state)
    <2>1. \A x \in Sessions : state.sessions[x].writer = None
      BY <1>1
    <2>2. \A r \in Runs : SessionOf[r] \in Sessions /\ state.runs[r].openWaits = {}
      BY <1>1, ConstantFacts
    <2>3. WritersBelong(state)
      BY <2>1 DEF WritersBelong
    <2>4. WaitsAreUnanswered(state)
      BY <2>2 DEF WaitsAreUnanswered, Waits
    <2> QED BY <2>3, <2>4 DEF Bonds
  <1>5. ClaimsFit
    <2>1. fiber = [a \in Activations |-> [r \in Runs |-> None]]
      BY DEF Init, Idle
    <2> QED BY <2>1 DEF ClaimsFit, FibersTyped, ClaimsAreBehind, ClaimsDiffer, ClaimsKnow
  <1> QED BY <1>2, <1>3, <1>4, <1>5 DEF OwnInv, Sound

\* Every step keeps the invariant.
LEMMA OwnInvNext ==
    ASSUME OwnInv, [Next]_vars
    PROVE  OwnInv'
  <1>0. /\ Sound(state) /\ FibersTyped
        /\ fiber = [a \in Activations |-> [r \in Runs |-> fiber[a][r]]]
    BY DEF OwnInv, ClaimsFit, FibersTyped
  <1>1. ASSUME NEW a \in Activations, Lease(a)
        PROVE  OwnInv'
    <2>1. Sound(state') /\ NoNewClaims(state, state')
      BY <1>0, <1>1, LeaseIsSound
    <2>2. fiber' = fiber \/ fiber' = [fiber EXCEPT ![a] = Idle]
      BY <1>1 DEF Lease, Acquire, Reconcile, HostFails, ReleaseLease, Crash
    <2>3. /\ fiber' = [b \in Activations |-> [r \in Runs |-> fiber'[b][r]]]
          /\ \A b \in Activations, r \in Runs : fiber'[b][r] \in {fiber[b][r], None}
      BY <1>0, <2>2 DEF Idle
    <2> QED BY <2>1, <2>3, EndingKeepsInv
  <1>2. ASSUME NEW a \in Activations, NEW r \in Runs, Execution(a, r)
        PROVE  OwnInv'
    <2>1. CASE \E E \in ExpiredSets(state) : ClaimExecution(a, r, E)
      BY <2>1, ClaimKeepsInv
    <2>2. CASE ReleaseExecution(a, r)
      <3>1. /\ Sound(state') /\ NoNewClaims(state, state')
            /\ fiber' = [fiber EXCEPT ![a][r] = None]
        BY <2>2, ReleaseExecutionIsSound
      <3>2. /\ fiber' = [b \in Activations |-> [q \in Runs |-> fiber'[b][q]]]
            /\ \A b \in Activations, q \in Runs : fiber'[b][q] \in {fiber[b][q], None}
        BY <1>0, <3>1
      <3> QED BY <3>1, <3>2, EndingKeepsInv
    <2>3. CASE \/ RespondWithToolCalls(a, r) \/ AppendToolResults(a, r)
               \/ Suspend(a, r) \/ Complete(a, r) \/ Fail(a, r)
      BY <2>3, CommandIsSound, SameFibersKeepInv
    <2> QED BY <1>2, <2>1, <2>2, <2>3 DEF Execution
  <1>3. ASSUME NEW r \in Runs, Client(r)
        PROVE  OwnInv'
    BY <1>0, <1>3, ClientIsSound, SameFibersKeepInv
  <1>4. CASE UNCHANGED vars
    <2>1. state' = state /\ fiber' = fiber
      BY <1>4 DEF vars
    <2>2. state = [f \in Fields |-> state[f]]
      BY <1>0 DEF Sound, StateTyped
    <2>3. Sound(state') /\ NoNewClaims(state, state')
      BY <1>0, <2>1, <2>2, SameCore
    <2> QED BY <2>1, <2>3, SameFibersKeepInv
  <1> QED BY <1>1, <1>2, <1>3, <1>4 DEF Next

\* Two authorised executions on a Session are the same one.
LEMMA HoldingIsUnique ==
    ASSUME OwnInv, NEW x \in Sessions,
           NEW d \in Activations \X Runs, NEW e \in Activations \X Runs,
           SessionOf[d[2]] = x, SessionOf[e[2]] = x,
           Holding(d[1], d[2]), Holding(e[1], e[2])
    PROVE  d = e
  <1>1. WriterOf(state, d[2]) = WriterOf(state, e[2])
    BY DEF Holding, Authorized, SessionIn
  <1>2. d[2] = e[2]
    BY <1>1 DEF WriterOf
  <1>3. /\ fiber[d[1]][d[2]] # None /\ fiber[e[1]][d[2]] # None
        /\ fiber[d[1]][d[2]].attemptFence = fiber[e[1]][d[2]].attemptFence
    BY <1>2 DEF Holding, Authorized
  <1>4. d[1] = e[1]
    BY <1>3 DEF OwnInv, ClaimsFit, ClaimsDiffer
  <1> QED BY <1>2, <1>4

\* The invariant holds in every reachable state.
LEMMA OwnInvAlways ==
    Spec => []OwnInv
  <1>1. OwnInv /\ [Next]_vars => OwnInv'
    BY OwnInvNext
  <1> QED BY <1>1, OwnInvInit, PTL DEF Spec

\* Every reachable state has at most one authorised execution of a Session, however
\* many hosts there are and whatever they believe to hold (claim.ts, execution.ts).
THEOREM ExecutionIsSingle ==
    Spec => []SingleExecution
  <1>1. OwnInv => SingleExecution
    <2> SUFFICES ASSUME OwnInv, NEW x \in Sessions
                 PROVE  Cardinality({e \in Activations \X Runs :
                            SessionOf[e[2]] = x /\ Holding(e[1], e[2])}) <= 1
      BY DEF SingleExecution
    <2> DEFINE S == {e \in Activations \X Runs :
                        SessionOf[e[2]] = x /\ Holding(e[1], e[2])}
    <2>1. \A d, e \in S : d = e
      BY HoldingIsUnique
    <2> HIDE DEF S
    <2> DEFINE n == Cardinality(S)
    <2>2. S = {} => n = 0
      BY FS_EmptySet
    <2>3. ASSUME S # {} PROVE n = 1
      <3>1. PICK e \in S : TRUE
        BY <2>3
      <3>2. S = {e}
        BY <2>1, <3>1
      <3> QED BY <3>2, FS_Singleton
    <2>4. n = 0 \/ n = 1
      BY <2>2, <2>3
    <2> HIDE DEF n
    <2>5. n <= 1
      BY <2>4
    <2> QED BY <2>5 DEF n, S
  <1> QED BY <1>1, OwnInvAlways, PTL

\* A waiting Run that was not cancelled has an open wait that somebody outside can
\* answer or a living child will: suspend and reconcileChildWait miss no settlement
\* (suspend.ts, child-settlement.ts).
THEOREM NoWakeupIsLost ==
    Spec => []NoLostWakeup
  <1>1. OwnInv => NoLostWakeup
    <2> SUFFICES ASSUME OwnInv, NEW r \in Runs,
                        state.runs[r].status = "waiting",
                        ~state.runs[r].cancellationRequested
                 PROVE  \E t \in state.runs[r].openWaits : t = r \/ Alive(state, t)
      BY DEF NoLostWakeup
    <2>1. Wakeable(state, {})
      BY DEF OwnInv, Sound, Life
    <2> QED BY <2>1 DEF Wakeable
  <1> QED BY <1>1, OwnInvAlways, PTL

\* A cancelled Run has no living child: cancel, complete and fail wait for the
\* descendants (cancellation.ts, cancellationMustWait).
THEOREM FamiliesSettleInOrder ==
    Spec => []FamiliesSettle
  <1>1. OwnInv => FamiliesSettle
    BY DEF OwnInv, Sound, Life, FamiliesEnd, FamiliesSettle
  <1> QED BY <1>1, OwnInvAlways, PTL

\* The writer of a Session is always a Run that is alive or still has an owner to be
\* released: revokeSession, settlement and expiry together leave no Session bound
\* for ever (session-writer.ts).
THEOREM SessionsAreRecovered ==
    Spec => []SessionsRecover
  <1>1. OwnInv => SessionsRecover
    BY DEF OwnInv, Sound, Bonds, WritersBelong, SessionsRecover
  <1> QED BY <1>1, OwnInvAlways, PTL

-----------------------------------------------------------------------------
(* Leases.                                                                 *)

\* No command but those of the leases touches the leases.
LEMMA SettleKeepsWorkers ==
    ASSUME NEW s, NEW D, NEW status, StateTyped(s), Life(s, {}), MayEnd(s, D, status)
    PROVE  Settle(s, D, status).workers = s.workers
  <1> DEFINE d == Terminate(s, D, status)
             e == ReconcileChildWait(d, D)
             u == Settled(s, D, status)
             parents == CancellingParents(u, D)
             v == Terminate(u, parents, "cancelled")
             t == Settle(s, D, status)
  <1>1. StateTyped(d) /\ StateTyped(e) /\ StateTyped(u) /\ StateTyped(v)
    BY SettleKeepsLife
  <1>2. status \in Statuses /\ "cancelled" \in Statuses
    BY DEF MayEnd, Statuses, Terminal
  <1>3. d.workers = s.workers
    BY <1>2, TerminateDoes
  <1>4. u.workers = d.workers
    <2>1. u = StartParents(e, D)
      BY SettledSteps
    <2>2. e.workers = d.workers
      BY <1>1, ReconcileChildWaitDoes
    <2> HIDE DEF d, e, u
    <2> QED BY <1>1, <2>1, <2>2, StartParentsDoes
  <1>5. v.workers = u.workers
    BY <1>1, <1>2, TerminateDoes
  <1>6. t.workers = v.workers
    BY <1>1, AfterTerminalDoes DEF Settle
  <1> QED BY <1>3, <1>4, <1>5, <1>6

\* Neither does a fenced command,
LEMMA FencedKeepsWorkers ==
    ASSUME NEW a \in Activations, NEW r \in Runs, NEW s, StateTyped(s), Fenced(a, r, s)
    PROVE  state'.workers = s.workers
  <1> DEFINE t == RevokeSession(s, WorkerOf[a], r, fiber[a][r])
  <1>1. Revokes(s, t, WorkerOf[a], r, fiber[a][r])
    BY RevokeSessionDoes
  <1>2. state' = t
    BY DEF Fenced
  <1> HIDE DEF t
  <1> QED BY <1>1, <1>2 DEF Revokes

\* nor complete and fail,
LEMMA FinishKeepsWorkers ==
    ASSUME NEW a \in Activations, NEW r \in Runs, NEW status \in {"succeeded", "failed"},
           Sound(state), Finish(a, r, status)
    PROVE  state'.workers = state.workers
  <1> DEFINE cancelled == state.runs[r].cancellationRequested
             outcome == IF cancelled THEN "cancelled" ELSE status
  <1>0. StateTyped(state) /\ Life(state, {}) /\ Alive(state, r)
    BY DEF Sound, Finish, Executes
  <1>1. CASE cancelled /\ MustWait(state, r)
    <2>1. Fenced(a, r, Disowned(state, r))
      BY <1>1 DEF Finish
    <2>2. StateTyped(Disowned(state, r)) /\ Disowned(state, r).workers = state.workers
      BY <1>0, DisownedDoes
    <2> QED BY <2>1, <2>2, FencedKeepsWorkers
  <1>2. CASE ~(cancelled /\ MustWait(state, r))
    <2> DEFINE u == Settle(state, {r}, outcome)
    <2>1. Fenced(a, r, u)
      BY <1>2 DEF Finish
    <2>2. MayEnd(state, {r}, outcome)
      BY <1>0, <1>2 DEF MayEnd, Terminal, MustWait
    <2>3. StateTyped(u) /\ u.workers = state.workers
      BY <1>0, <2>2, SettleKeepsLife, SettleKeepsWorkers
    <2> QED BY <2>1, <2>3, FencedKeepsWorkers
  <1> QED BY <1>1, <1>2

\* nor any other command of an execution,
LEMMA ExecutionKeepsWorkers ==
    ASSUME NEW a \in Activations, NEW r \in Runs, OwnInv, Execution(a, r)
    PROVE  state'.workers = state.workers
  <1>0. Sound(state) /\ StateTyped(state)
    BY DEF OwnInv, Sound
  <1>1. CASE \E E \in ExpiredSets(state) : ClaimExecution(a, r, E)
    BY <1>1, ClaimKeepsInv
  <1>2. CASE RespondWithToolCalls(a, r) \/ AppendToolResults(a, r)
    <2>1. PICK U \in SUBSET Runs : state' = WithUnanswered(state, r, U)
      BY <1>2 DEF RespondWithToolCalls, AppendToolResults
    <2> DEFINE t == WithUnanswered(state, r, U)
    <2>2. t.workers = state.workers
      BY <1>0, WithUnansweredDoes
    <2> QED BY <2>1, <2>2
  <1>3. CASE Suspend(a, r)
    <2>1. PICK W \in (SUBSET Tokens(r)) \ {{}} :
            Fenced(a, r, ReconcileChildWait(Parked(state, r, W), SettledBefore(state, W)))
      BY <1>3 DEF Suspend
    <2> DEFINE u == Parked(state, r, W)
               v == ReconcileChildWait(u, SettledBefore(state, W))
    <2>2. W \subseteq Runs
      BY DEF Tokens, Children
    <2>3. StateTyped(u) /\ u.workers = state.workers
      BY <1>0, <2>2, ParkedDoes
    <2>4. StateTyped(v) /\ v.workers = u.workers
      BY <2>3, ReconcileChildWaitDoes
    <2> QED BY <2>1, <2>3, <2>4, FencedKeepsWorkers
  <1>4. CASE Complete(a, r) \/ Fail(a, r)
    BY <1>0, <1>4, FinishKeepsWorkers DEF Complete, Fail
  <1>5. CASE ReleaseExecution(a, r)
    <2> DEFINE u == Disowned(state, r)
               t == RevokeSession(u, WorkerOf[a], r, fiber[a][r])
    <2>1. state' = state \/ state' = t
      BY <1>5 DEF ReleaseExecution, Released
    <2>2. StateTyped(u) /\ u.workers = state.workers
      BY <1>0, DisownedDoes
    <2>3. Revokes(u, t, WorkerOf[a], r, fiber[a][r])
      BY <2>2, RevokeSessionDoes
    <2> HIDE DEF t, u
    <2> QED BY <2>1, <2>2, <2>3 DEF Revokes
  <1> QED BY <1>1, <1>2, <1>3, <1>4, <1>5 DEF Execution

\* nor a client.
LEMMA ClientKeepsWorkers ==
    ASSUME NEW r \in Runs, Sound(state), Client(r)
    PROVE  state'.workers = state.workers
  <1>0. StateTyped(state) /\ Life(state, {})
    BY DEF Sound
  <1>1. ASSUME NEW promote PROVE JoinsLane(state, r, promote).workers = state.workers
    <2> DEFINE u == Enqueued(state, r)
               X == {SessionOf[r]}
    <2>1. StateTyped(u) /\ u.workers = state.workers
      <3>1. StateTyped(u) /\ Enqueues(state, u, r)
        BY <1>0, EnqueuedDoes
      <3> QED BY <3>1 DEF Enqueues
    <2>2. JoinsLane(state, r, promote) \in {u, PromoteHeads(u, X)}
      BY DEF JoinsLane
    <2> HIDE DEF u, X
    <2>3. PromoteHeads(u, X).workers = u.workers
      BY <2>1, PromoteHeadsDoes
    <2> QED BY <2>1, <2>2, <2>3
  <1>2. CASE AdmitSend(r) \/ Activate(r) \/ AdmitChild(r)
    <2>1. CASE AdmitSend(r)
      BY <1>1, <2>1 DEF AdmitSend
    <2>2. CASE Activate(r)
      BY <1>0, <2>2, ActivateDoes
    <2>3. CASE AdmitChild(r)
      BY <1>0, <2>3, AdmitChildDoes DEF Admits
    <2> QED BY <1>2, <2>1, <2>2, <2>3
  <1>3. CASE Respond(r)
    BY <1>0, <1>3, RespondDoes
  <1>4. CASE Cancel(r)
    <2> DEFINE u == Requested(state, r)
               D == Finalized(state, r)
    <2>1. StateTyped(u) /\ u.workers = state.workers
      BY <1>0, RequestedDoes
    <2>2. Life(u, {}) /\ MayEnd(u, D, "cancelled")
      BY RequestMayEnd
    <2>3. Settle(u, D, "cancelled").workers = u.workers
      BY <2>1, <2>2, SettleKeepsWorkers
    <2> QED BY <1>4, <2>1, <2>3 DEF Cancel
  <1>5. CASE AdmitStart(r)
    <2>1. Parent[r] = None /\ state.runs[r].status = "absent"
      BY <1>5, AdmitStartSteps
    <2>2. PICK kids \in Requests(r), promote \in BOOLEAN :
            state' = WithChildren(RetainHostedLane(JoinsLane(state, r, promote),
                                                   SessionOf[r]), r, kids)
      BY <1>5, AdmitStartSteps
    <2> DEFINE u == JoinsLane(state, r, promote)
               v == RetainHostedLane(u, SessionOf[r])
    <2>3. StateTyped(u) /\ u.workers = state.workers
      BY <1>1, <2>1, JoiningIsSound DEF Sound
    <2>4. state' = WithChildren(v, r, kids)
      BY <2>2
    <2> HIDE DEF u
    <2>5. StateTyped(v) /\ v.workers = u.workers
      BY <2>3, RetainHostedLaneDoes
    <2> HIDE DEF v
    <2>6. Admits(v, WithChildren(v, r, kids), Among(kids))
      BY <2>5, RequestsName, WithChildrenDoes
    <2> QED BY <2>3, <2>4, <2>5, <2>6 DEF Admits
  <1> QED BY <1>2, <1>3, <1>4, <1>5 DEF Client

\* An activation that does not fail keeps its lease from the moment it acquired
\* it, and executes nothing without one.
LeasesHeld ==
    /\ host = [a \in Activations |-> host[a]]
    /\ state.workers = [w \in Workers |-> state.workers[w]]
    /\ \A a \in Activations \ Mortal :
         /\ host[a] \in {"idle", "acquired", "active"}
         /\ host[a] # "idle" => state.workers[WorkerOf[a]] = a
         /\ \A r \in Runs : fiber[a][r] # None => host[a] # "idle"

\* Nobody has a lease, and nobody needs one.
LEMMA LeasesHeldInit ==
    Init => LeasesHeld
  BY DEF Init, EmptyState, Idle, LeasesHeld

\* Expired leases are none of those.
LEMMA ReleasingKeepsLeases ==
    ASSUME NEW E \in ExpiredSets(state), StateTyped(state), LeasesHeld
    PROVE  LET t == ReleaseExpiredOwners(state, E)
           IN  /\ t = [f \in Fields |-> t[f]]
               /\ t.workers = [w \in Workers |-> t.workers[w]]
               /\ \A a \in Activations \ Mortal :
                    host[a] # "idle" => t.workers[WorkerOf[a]] = a
  <1> DEFINE t == ReleaseExpiredOwners(state, E)
  <1>0. StateTyped(t) /\ TakesFrom(state, t, E)
    BY ReleaseExpiredOwnersDoes
  <1> HIDE DEF t
  <1>1. /\ t = [f \in Fields |-> t[f]]
        /\ t.workers = [w \in Workers |-> IF w \in E THEN None ELSE state.workers[w]]
    BY <1>0 DEF TakesFrom, StateTyped
  <1>2. ASSUME NEW a \in Activations \ Mortal, host[a] # "idle"
        PROVE  t.workers[WorkerOf[a]] = a
    <2>1. WorkerOf[a] \in Workers /\ state.workers[WorkerOf[a]] = a
      BY <1>2, ConstantFacts DEF LeasesHeld
    <2>2. WorkerOf[a] \notin E
      BY <2>1, ExpiredAreMortal
    <2> QED BY <1>1, <2>1, <2>2
  <1>3. t.workers = [w \in Workers |-> t.workers[w]]
    BY <1>1
  <1> QED BY <1>1, <1>2, <1>3 DEF t

\* acquire is refused while another incarnation has the lease; heartbeats and
\* failures touch no lease that is not expired.
LEMMA LeaseKeepsLeases ==
    ASSUME NEW a \in Activations, StateTyped(state), LeasesHeld, FibersTyped, Lease(a)
    PROVE  LeasesHeld'
  <1>1. ASSUME NEW E \in ExpiredSets(state), Acquire(a, E)
        PROVE  LeasesHeld'
    <2> DEFINE t == ReleaseExpiredOwners(state, E)
               w == WorkerOf[a]
    <2>1. /\ t = [f \in Fields |-> t[f]]
          /\ t.workers = [v \in Workers |-> t.workers[v]]
          /\ \A b \in Activations \ Mortal :
                host[b] # "idle" => t.workers[WorkerOf[b]] = b
      BY ReleasingKeepsLeases
    <2>2. /\ t.workers[w] = None /\ state' = [t EXCEPT !.workers[w] = a]
          /\ host' = [host EXCEPT ![a] = "acquired"] /\ fiber' = fiber
      BY <1>1 DEF Acquire
    <2>3. w \in Workers /\ \A b \in Activations : WorkerOf[b] \in Workers /\ b # None
      BY ConstantFacts
    <2> HIDE DEF t, w
    <2>4. state'.workers = [t.workers EXCEPT ![w] = a]
      BY <2>1, <2>2 DEF Fields
    <2>5. host' = [b \in Activations |-> host'[b]]
      BY <2>2 DEF LeasesHeld
    <2>6. state'.workers = [v \in Workers |-> state'.workers[v]]
      BY <2>1, <2>4
    <2>7. ASSUME NEW b \in Activations \ Mortal
          PROVE  /\ host'[b] \in {"idle", "acquired", "active"}
                 /\ host'[b] # "idle" => state'.workers[WorkerOf[b]] = b
                 /\ \A r \in Runs : fiber'[b][r] # None => host'[b] # "idle"
      <3>1. CASE b = a
        <4>1. host'[b] = "acquired"
          BY <2>2, <3>1 DEF LeasesHeld
        <4>2. state'.workers[w] = a
          BY <2>1, <2>3, <2>4
        <4> QED BY <3>1, <4>1, <4>2 DEF w
      <3>2. CASE b # a
        <4>1. host'[b] = host[b]
          BY <2>2, <3>2 DEF LeasesHeld
        <4>2. ASSUME host[b] # "idle"
              PROVE  state'.workers[WorkerOf[b]] = b
          <5>1. t.workers[WorkerOf[b]] = b /\ WorkerOf[b] # w
            BY <2>1, <2>2, <2>3, <4>2
          <5> QED BY <2>1, <2>3, <2>4, <5>1
        <4> QED BY <2>2, <4>1, <4>2 DEF LeasesHeld
      <3> QED BY <3>1, <3>2
    <2> QED BY <2>5, <2>6, <2>7 DEF LeasesHeld
  <1>2. ASSUME NEW E \in ExpiredSets(state), Reconcile(a, E)
        PROVE  LeasesHeld'
    <2> DEFINE t == ReleaseExpiredOwners(state, E)
    <2>1. /\ t.workers = [v \in Workers |-> t.workers[v]]
          /\ \A b \in Activations \ Mortal :
                host[b] # "idle" => t.workers[WorkerOf[b]] = b
      BY ReleasingKeepsLeases
    <2>2. /\ host[a] # "idle" /\ state' = t
          /\ host' = [host EXCEPT ![a] = "active"] /\ fiber' = fiber
      BY <1>2 DEF Reconcile
    <2> HIDE DEF t
    <2>3. /\ host' = [b \in Activations |-> host'[b]]
          /\ \A b \in Activations : \/ host'[b] = host[b]
                                    \/ host[b] # "idle" /\ host'[b] = "active"
      BY <2>2 DEF LeasesHeld
    <2> QED BY <2>1, <2>2, <2>3 DEF LeasesHeld
  <1>3. CASE HostFails(a) \/ ReleaseLease(a) \/ Crash(a)
    <2>1. state' = state \/ state' = ExpireLease(state, WorkerOf[a])
      BY <1>3 DEF HostFails, ReleaseLease, Crash
    <2>2. state'.workers = state.workers
      <3>1. state = [f \in Fields |-> state[f]]
        BY DEF StateTyped
      <3> QED BY <2>1, <3>1 DEF ExpireLease, Fields
    <2>3. a \in Mortal
      BY <1>3 DEF HostFails, ReleaseLease, Crash, LeasesHeld
    <2>4. /\ host' \in {[host EXCEPT ![a] = "closing"], [host EXCEPT ![a] = "dead"]}
          /\ fiber' = fiber \/ fiber' = [fiber EXCEPT ![a] = Idle]
      BY <1>3 DEF HostFails, ReleaseLease, Crash
    <2>5. \A b \in Activations \ Mortal : host'[b] = host[b] /\ fiber'[b] = fiber[b]
      BY <2>3, <2>4 DEF LeasesHeld, FibersTyped
    <2>6. host' = [b \in Activations |-> host'[b]]
      BY <2>4 DEF LeasesHeld
    <2> QED BY <2>2, <2>5, <2>6 DEF LeasesHeld
  <1> QED BY <1>1, <1>2, <1>3 DEF Lease

\* Executions start under a lease, and only hosts that may fail fail.
LEMMA ExecutionKeepsLeases ==
    ASSUME NEW a \in Activations, NEW r \in Runs, OwnInv, LeasesHeld, Execution(a, r)
    PROVE  LeasesHeld'
  <1>1. state'.workers = state.workers
    BY ExecutionKeepsWorkers
  <1>2. FibersTyped
    BY DEF OwnInv, ClaimsFit
  <1>3. ASSUME NEW E, ClaimExecution(a, r, E)
        PROVE  LeasesHeld'
    <2>1. /\ host[a] = "active"
          /\ \/ host' = host
             \/ a \in Mortal /\ host' = [host EXCEPT ![a] = "closing"]
      BY <1>3 DEF ClaimExecution
    <2>2. \A b \in Activations \ {a} : fiber'[b] = fiber[b]
      BY <1>2, <1>3 DEF ClaimExecution, FibersTyped
    <2>3. /\ host' = [b \in Activations |-> host'[b]]
          /\ \A b \in Activations \ Mortal : host'[b] = host[b]
      BY <2>1 DEF LeasesHeld
    <2> QED BY <1>1, <2>1, <2>2, <2>3 DEF LeasesHeld
  <1>4. CASE ReleaseExecution(a, r)
    <2>1. host' = host /\ fiber' = [fiber EXCEPT ![a][r] = None]
      BY <1>4 DEF ReleaseExecution
    <2>2. \A b \in Activations, q \in Runs : fiber'[b][q] \in {fiber[b][q], None}
      BY <1>2, <2>1 DEF FibersTyped
    <2> QED BY <1>1, <2>1, <2>2 DEF LeasesHeld
  <1>5. CASE \/ RespondWithToolCalls(a, r) \/ AppendToolResults(a, r)
             \/ Suspend(a, r) \/ Complete(a, r) \/ Fail(a, r)
    <2>1. host' = host /\ fiber' = fiber
      BY <1>5 DEF RespondWithToolCalls, AppendToolResults, Suspend, Complete, Fail,
                  Finish, Fenced
    <2> QED BY <1>1, <2>1 DEF LeasesHeld
  <1> QED BY <1>3, <1>4, <1>5 DEF Execution

\* Every step keeps the leases of those that do not fail.
LEMMA LeasesHeldNext ==
    ASSUME OwnInv, LeasesHeld, [Next]_vars
    PROVE  LeasesHeld'
  <1>1. Sound(state) /\ StateTyped(state) /\ FibersTyped
    BY DEF OwnInv, Sound, ClaimsFit
  <1>2. ASSUME NEW a \in Activations, Lease(a) PROVE LeasesHeld'
    BY <1>1, <1>2, LeaseKeepsLeases
  <1>3. ASSUME NEW a \in Activations, NEW r \in Runs, Execution(a, r) PROVE LeasesHeld'
    BY <1>3, ExecutionKeepsLeases
  <1>4. ASSUME NEW r \in Runs, Client(r) PROVE LeasesHeld'
    <2>1. state'.workers = state.workers
      BY <1>1, <1>4, ClientKeepsWorkers
    <2>2. host' = host /\ fiber' = fiber
      BY <1>4 DEF Client, AdmitSend, AdmitStart, Activate, AdmitChild, Respond, Cancel
    <2> QED BY <2>1, <2>2 DEF LeasesHeld
  <1>5. CASE UNCHANGED vars
    BY <1>5 DEF vars, LeasesHeld
  <1> QED BY <1>2, <1>3, <1>4, <1>5 DEF Next

\* An execution with its claim and its Session is authorised.
LEMMA KeepingHolds ==
    ASSUME NEW a \in Activations, NEW r \in Runs, Holding(a, r),
           KeepsClaim(state, state', r), fiber'[a][r] = fiber[a][r]
    PROVE  Holding(a, r)'
  BY DEF Holding, Authorized, SessionIn, WriterOf, KeepsClaim, SameOwner

\* What a step may do to an authorised execution of a host that keeps its lease.
LEMMA StepSpares ==
    ASSUME NEW a \in Activations \ Mortal, NEW r \in Runs, OwnInv, LeasesHeld,
           [Next]_vars, Holding(a, r), fiber'[a][r] = fiber[a][r]
    PROVE  \/ KeepsClaim(state, state', r)
           \/ ClosesChild(state, state', r)
           \/ state'.runs[r].status = "waiting"
           \/ state.runs[r].cancellationRequested /\ MustWait(state, r)
  <1>1. Sound(state) /\ StateTyped(state) /\ FibersTyped
    BY DEF OwnInv, Sound, ClaimsFit
  <1>2. /\ Writes(state, r)
        /\ WorkerOf[a] # None
        /\ state.runs[r].ownerId = WorkerOf[a]
        /\ state.runs[r].attemptFence = fiber[a][r].attemptFence
        /\ fiber[a][r] # None
    BY <1>1, HoldingMeans DEF HoldsRun, Holding
  <1>3. state.workers[WorkerOf[a]] = a
    BY <1>2 DEF LeasesHeld
  <1>4. ASSUME NEW b \in Activations, Lease(b)
        PROVE  KeepsClaim(state, state', r)
    BY <1>1, <1>3, <1>4, LeaseIsSound
  <1>5. ASSUME NEW q \in Runs, Client(q)
        PROVE  KeepsClaim(state, state', r) \/ ClosesChild(state, state', r)
    BY <1>1, <1>2, <1>5, ClientIsSound DEF Spares
  <1>6. ASSUME NEW b \in Activations, NEW q \in Runs, NEW E \in ExpiredSets(state),
               ClaimExecution(b, q, E)
        PROVE  KeepsClaim(state, state', r)
    <2>1. Claimable(state, q, E)
      BY <1>6 DEF ClaimExecution
    <2>2. q # r
      BY <1>2, <1>3, <2>1, ExpiredAreMortal DEF Claimable
    <2>3. SessionOf[q] # SessionOf[r]
      BY <1>2, <2>1, <2>2 DEF Claimable, SessionIn, Writes
    <2>4. SessionOf[r] \in Sessions
      BY ConstantFacts
    <2>5. /\ state'.runs[r] = state.runs[r]
          /\ state'.sessions[SessionOf[r]] = state.sessions[SessionOf[r]]
      BY <1>6, <2>2, <2>3, <2>4, ClaimKeepsInv
    <2> QED BY <2>5 DEF KeepsClaim, SameOwner
  <1>7. ASSUME NEW b \in Activations, NEW q \in Runs,
               \/ RespondWithToolCalls(b, q) \/ AppendToolResults(b, q)
               \/ Suspend(b, q) \/ Complete(b, q) \/ Fail(b, q)
        PROVE  \/ KeepsClaim(state, state', r)
               \/ ClosesChild(state, state', r)
               \/ state'.runs[r].status = "waiting"
               \/ state.runs[r].cancellationRequested /\ MustWait(state, r)
    BY <1>2, <1>7, CommandIsSound DEF Spares
  <1>8. ASSUME NEW b \in Activations, NEW q \in Runs, ReleaseExecution(b, q)
        PROVE  KeepsClaim(state, state', r) \/ ClosesChild(state, state', r)
    <2>1. /\ fiber' = [fiber EXCEPT ![b][q] = None]
          /\ Spares(state, state', {q})
          /\ state' = state \/ HoldsRun(state, WorkerOf[b], q, fiber[b][q])
          /\ fiber[b][q] # None
      BY <1>8, ReleaseExecutionIsSound DEF ReleaseExecution
    <2>2. CASE q # r
      BY <1>2, <2>1, <2>2 DEF Spares
    <2>3. CASE q = r
      <3>1. b # a
        BY <1>1, <1>2, <2>1, <2>3 DEF FibersTyped
      <3>2. ~HoldsRun(state, WorkerOf[b], q, fiber[b][q])
        BY <1>2, <2>1, <2>3, <3>1 DEF HoldsRun, OwnInv, ClaimsFit, ClaimsDiffer
      <3> QED BY <2>1, <3>2 DEF KeepsClaim, SameOwner
    <2> QED BY <2>2, <2>3
  <1>9. CASE UNCHANGED vars
    BY <1>9 DEF vars, KeepsClaim, SameOwner
  <1> QED BY <1>4, <1>5, <1>6, <1>7, <1>8, <1>9 DEF Next, Execution

\* An execution under a lease that no clock shows as expired loses its authority by
\* its own command or by the settlement of a child it waits for: a stale execution's
\* release, a second claim, a client, another host's reconcile cannot take a Run from
\* it (claim.ts, execution.ts, runtime.ts).
THEOREM AuthorityIsNotTaken ==
    Spec => AuthorityIsKept
  <1>1. ASSUME OwnInv, LeasesHeld, [Next]_vars,
               NEW a \in Activations \ Mortal, NEW r \in Runs,
               Holding(a, r), ~Holding(a, r)'
        PROVE  \/ fiber'[a][r] # fiber[a][r]
               \/ ~Alive(state', r) \/ state'.runs[r].status = "waiting"
               \/ state.runs[r].cancellationRequested /\ MustWait(state, r)
               \/ \E c \in Children(r) : c \in state'.runs[r].closedWaits
                                               \ state.runs[r].closedWaits
    <2> SUFFICES ASSUME fiber'[a][r] = fiber[a][r]
                 PROVE  \/ state'.runs[r].status = "waiting"
                        \/ state.runs[r].cancellationRequested /\ MustWait(state, r)
                        \/ ClosesChild(state, state', r)
      BY DEF ClosesChild
    <2>1. ~KeepsClaim(state, state', r)
      BY <1>1, KeepingHolds
    <2> QED BY <1>1, <2>1, StepSpares
  <1>2. OwnInv /\ LeasesHeld /\ [Next]_vars => LeasesHeld'
    BY LeasesHeldNext
  <1>3. OwnInv /\ LeasesHeld /\ [Next]_vars =>
          [\A a \in Activations \ Mortal, r \in Runs :
             (Holding(a, r) /\ ~Holding(a, r)') =>
                 \/ fiber'[a][r] # fiber[a][r]
                 \/ ~Alive(state', r) \/ state'.runs[r].status = "waiting"
                 \/ state.runs[r].cancellationRequested /\ MustWait(state, r)
                 \/ \E c \in Children(r) : c \in state'.runs[r].closedWaits
                                                 \ state.runs[r].closedWaits]_vars
    BY <1>1
  <1> QED BY <1>2, <1>3, OwnInvAlways, LeasesHeldInit, PTL DEF Spec, AuthorityIsKept

\* What may happen to a Run on its lane, or to a child of one.
Moves(s, t, r) ==
    /\ Alive(s, r) => Alive(t, r)
    /\ Parent[r] = None => /\ Alive(t, r) => Alive(s, r)
                           /\ t.runs[r].status = "queued" => s.runs[r].status = "queued"

\* What the status of r says of it, by itself.
Marked(s, r) ==
    /\ s.runs[r].status = "cancelling" => s.runs[r].cancellationRequested
    /\ s.runs[r].status \in {"absent", "queued"} =>
          ~s.runs[r].cancellationRequested /\ s.runs[r].openWaits = {}
    /\ s.runs[r].status = "absent" => s.runs[r].ownerId = None

\* The parts of Lined.
LEMMA LinedParts ==
    ASSUME NEW s
    PROVE  Lined(s, {}) <=> Queues(s, {}) /\ HeadsStarted(s, {}, {}) /\ Marks(s)
  <1>1. {} \cup {} = {}
    OBVIOUS
  <1> QED BY <1>1 DEF Lined, Lining

\* Runs that move on their lanes, which the lanes but for the heads G wait for.
LEMMA MovingKeepsLines ==
    ASSUME NEW s, NEW t, NEW G, Queues(s, {}), HeadsStarted(s, G, {}), t.lanes = s.lanes,
           \A r \in Runs : t.runs[r] = s.runs[r] \/ Moves(s, t, r)
    PROVE  Queues(t, {}) /\ HeadsStarted(t, G, {})
  <1> DEFINE none == {}
  <1>1. \A r \in Runs : Moves(s, t, r)
    BY DEF Moves, Alive
  <1>2. \A r \in Runs : Parent[r] = None =>
            /\ (Alive(t, r) \/ r \in none) <=> (Alive(s, r) \/ r \in none)
            /\ r \notin G /\ t.runs[r].status = "queued" =>
                    r \notin G /\ s.runs[r].status = "queued"
    BY <1>1 DEF Moves
  <1>3. \A c \in Runs : Alive(s, c) => Alive(t, c) \/ Parent[c] \in G
    BY <1>1 DEF Moves
  <1>4. Queues(s, none) /\ HeadsStarted(s, G, none)
    OBVIOUS
  <1> HIDE DEF none
  <1>5. Queues(t, none) /\ HeadsStarted(t, G, none)
    BY <1>2, <1>3, <1>4, LanesStay
  <1> QED BY <1>5 DEF none

LEMMA MovingServes ==
    ASSUME NEW s, NEW t, Lined(s, {}), t.lanes = s.lanes,
           \A r \in Runs : t.runs[r] = s.runs[r] \/ (Marked(t, r) /\ Moves(s, t, r))
    PROVE  Lined(t, {})
  <1> DEFINE G == {}
  <1>1. Queues(s, {}) /\ HeadsStarted(s, G, {}) /\ Marks(s)
    BY LinedParts
  <1> HIDE DEF G
  <1>2. Queues(t, {}) /\ HeadsStarted(t, G, {})
    BY <1>1, MovingKeepsLines
  <1>3. Marks(t)
    BY <1>1 DEF Marks, Marked
  <1> QED BY <1>2, <1>3, LinedParts DEF G

\* Nothing but the owners of Runs changes.
LEMMA OwnershipServes ==
    ASSUME NEW s, NEW t, Lined(s, {}), t.lanes = s.lanes,
           \A r \in Runs : /\ SameRun(s.runs[r], t.runs[r])
                           /\ t.runs[r].ownerId \in {s.runs[r].ownerId, None}
    PROVE  Lined(t, {})
  <1>0. Marks(s)
    BY LinedParts
  <1>1. ASSUME NEW r \in Runs
        PROVE  Marked(t, r) /\ Moves(s, t, r)
    <2>1. Marked(s, r)
      BY <1>0 DEF Marks, Marked
    <2> QED BY <2>1 DEF Moves, Marked, SameRun, Alive
  <1> QED BY <1>1, MovingServes

\* Neither Runs nor lanes change.
LEMMA RevokingServes ==
    ASSUME NEW t, NEW u, Lined(t, {}), u.runs = t.runs, u.lanes = t.lanes
    PROVE  Lined(u, {})
  <1>1. \A r \in Runs : /\ SameRun(t.runs[r], u.runs[r])
                        /\ u.runs[r].ownerId \in {t.runs[r].ownerId, None}
    BY DEF SameRun
  <1> QED BY <1>1, OwnershipServes

\* A fenced command that serves the lanes still does with its revokeSession.
LEMMA FencedServes ==
    ASSUME NEW a \in Activations, NEW r \in Runs, NEW s, StateTyped(s), Fenced(a, r, s),
           Lined(s, {})
    PROVE  Lined(state', {})
  <1> DEFINE t == RevokeSession(s, WorkerOf[a], r, fiber[a][r])
  <1>1. Revokes(s, t, WorkerOf[a], r, fiber[a][r])
    BY RevokeSessionDoes
  <1>2. state' = t
    BY DEF Fenced
  <1> HIDE DEF t
  <1>3. t.runs = s.runs /\ t.lanes = s.lanes
    BY <1>1 DEF Revokes
  <1>4. Lined(t, {})
    BY <1>3, RevokingServes
  <1> QED BY <1>2, <1>4

-----------------------------------------------------------------------------
(* Leases and executions.                                                  *)

\* Leases come and go: the Runs stay on their lanes.
LEMMA LeaseServes ==
    ASSUME NEW a \in Activations, StateTyped(state), Lined(state, {}), Lease(a)
    PROVE  Lined(state', {})
  <1>1. ASSUME NEW E \in ExpiredSets(state), Acquire(a, E) \/ Reconcile(a, E)
        PROVE  Lined(state', {})
    <2> DEFINE t == ReleaseExpiredOwners(state, E)
    <2>1. StateTyped(t) /\ TakesFrom(state, t, E)
      BY ReleaseExpiredOwnersDoes
    <2>2. state' = t \/ state' = [t EXCEPT !.workers[WorkerOf[a]] = a]
      BY <1>1 DEF Acquire, Reconcile
    <2> HIDE DEF t
    <2>3. t = [f \in Fields |-> t[f]]
      BY <2>1 DEF StateTyped
    <2>4. state'.runs = t.runs /\ state'.lanes = t.lanes
      BY <2>2, <2>3 DEF Fields
    <2>5. /\ t.lanes = state.lanes
          /\ \A r \in Runs : /\ SameRun(state.runs[r], t.runs[r])
                             /\ t.runs[r].ownerId \in {state.runs[r].ownerId, None}
      BY <2>1 DEF TakesFrom, SameOwner
    <2> QED BY <2>4, <2>5, OwnershipServes
  <1>2. CASE HostFails(a) \/ ReleaseLease(a) \/ Crash(a)
    <2>1. state' = state \/ state' = ExpireLease(state, WorkerOf[a])
      BY <1>2 DEF HostFails, ReleaseLease, Crash
    <2>2. state = [f \in Fields |-> state[f]]
      BY DEF StateTyped
    <2>3. state'.runs = state.runs /\ state'.lanes = state.lanes
      BY <2>1, <2>2 DEF ExpireLease, Fields
    <2>4. \A r \in Runs : /\ SameRun(state.runs[r], state'.runs[r])
                          /\ state'.runs[r].ownerId \in {state.runs[r].ownerId, None}
      BY <2>3 DEF SameRun
    <2> QED BY <2>3, <2>4, OwnershipServes
  <1> QED BY <1>1, <1>2 DEF Lease

\* A claim of a root is one of a Run that started, or that was cancelled.
LEMMA ClaimServes ==
    ASSUME NEW a \in Activations, NEW r \in Runs, NEW E, StateTyped(state),
           Lined(state, {}), ClaimExecution(a, r, E)
    PROVE  Lined(state', {})
  <1> DEFINE t == ClaimedBy(state, WorkerOf[a], r)
  <1>1. WorkerOf[a] \in Workers
    BY ConstantFacts
  <1>2. /\ t.lanes = state.lanes
        /\ \A q \in Runs \ {r} : t.runs[q] = state.runs[q]
        /\ t.runs[r].status = IF state.runs[r].cancellationRequested
                              THEN "cancelling" ELSE "running"
        /\ t.runs[r].cancellationRequested = state.runs[r].cancellationRequested
    BY <1>1, ClaimedByDoes
  <1>3. state' = t /\ Alive(state, r)
    BY DEF ClaimExecution, Claimable
  <1> HIDE DEF t
  <1>4. Marked(t, r) /\ Moves(state, t, r)
    BY <1>2, <1>3 DEF Marked, Moves, Alive, Terminal
  <1>5. Lined(t, {})
    BY <1>2, <1>4, MovingServes
  <1> QED BY <1>3, <1>5

\* A Run given up stays where it is on its lane.
LEMMA DisowningServes ==
    ASSUME NEW r \in Runs, StateTyped(state), Lined(state, {})
    PROVE  StateTyped(Disowned(state, r)) /\ Lined(Disowned(state, r), {})
  <1> DEFINE t == Disowned(state, r)
  <1>1. /\ StateTyped(t) /\ t.lanes = state.lanes
        /\ \A q \in Runs \ {r} : t.runs[q] = state.runs[q]
        /\ t.runs[r].ownerId = None
        /\ SameRun(state.runs[r], t.runs[r])
    BY DisownedDoes
  <1> HIDE DEF t
  <1>2. \A q \in Runs : /\ SameRun(state.runs[q], t.runs[q])
                        /\ t.runs[q].ownerId \in {state.runs[q].ownerId, None}
    BY <1>1 DEF SameRun
  <1> QED BY <1>1, <1>2, OwnershipServes DEF t

\* An execution that exits leaves its Run on the lane.
LEMMA ReleaseServes ==
    ASSUME NEW a \in Activations, NEW r \in Runs, StateTyped(state), Lined(state, {}),
           ReleaseExecution(a, r)
    PROVE  Lined(state', {})
  <1>1. CASE state' = state
    BY <1>1, OwnershipServes DEF SameRun
  <1>2. CASE state' = RevokeSession(Disowned(state, r), WorkerOf[a], r, fiber[a][r])
    <2> DEFINE u == Disowned(state, r)
               t == RevokeSession(u, WorkerOf[a], r, fiber[a][r])
    <2>1. StateTyped(u) /\ Lined(u, {})
      BY DisowningServes
    <2>2. Revokes(u, t, WorkerOf[a], r, fiber[a][r])
      BY <2>1, RevokeSessionDoes
    <2> HIDE DEF t, u
    <2>3. t.runs = u.runs /\ t.lanes = u.lanes
      BY <2>2 DEF Revokes
    <2> QED BY <1>2, <2>1, <2>3, RevokingServes DEF t, u
  <1> QED BY <1>1, <1>2 DEF ReleaseExecution, Released

\* The Session path is no concern of the lanes.
LEMMA AnsweringServes ==
    ASSUME NEW a \in Activations, NEW r \in Runs, StateTyped(state), Lined(state, {}),
           RespondWithToolCalls(a, r) \/ AppendToolResults(a, r)
    PROVE  Lined(state', {})
  <1>1. PICK U \in SUBSET Runs : state' = WithUnanswered(state, r, U)
    BY DEF RespondWithToolCalls, AppendToolResults
  <1> DEFINE t == WithUnanswered(state, r, U)
  <1>2. t.runs = state.runs /\ t.lanes = state.lanes
    BY WithUnansweredDoes
  <1> HIDE DEF t
  <1>3. Lined(t, {})
    BY <1>2, OwnershipServes DEF SameRun
  <1> QED BY <1>1, <1>3 DEF t

\* An execution that suspends keeps its Run on the lane, as do the parents of the
\* children that settled.
LEMMA SuspendServes ==
    ASSUME NEW a \in Activations, NEW r \in Runs, StateTyped(state), Lined(state, {}),
           Suspend(a, r)
    PROVE  Lined(state', {})
  <1>1. PICK W \in SUBSET Runs :
            /\ Alive(state, r)
            /\ Fenced(a, r, ReconcileChildWait(Parked(state, r, W), SettledBefore(state, W)))
    <2>1. Tokens(r) \subseteq Runs
      BY DEF Tokens, Children
    <2> QED BY <2>1 DEF Suspend, Steps, Executes
  <1> DEFINE u == Parked(state, r, W)
             D == SettledBefore(state, W)
             v == ReconcileChildWait(u, D)
  <1>2. /\ StateTyped(u) /\ u.lanes = state.lanes
        /\ \A q \in Runs \ {r} : u.runs[q] = state.runs[q]
        /\ u.runs[r].status = "waiting"
    <2>1. /\ StateTyped(u)
          /\ u.sessions = state.sessions /\ u.lanes = state.lanes /\ u.workers = state.workers
          /\ \A q \in Runs \ {r} : u.runs[q] = state.runs[q]
          /\ u.runs[r].status = "waiting"
          /\ u.runs[r].ownerId = None
          /\ u.runs[r].attemptFence = state.runs[r].attemptFence
          /\ u.runs[r].cancellationRequested = state.runs[r].cancellationRequested
          /\ u.runs[r].openWaits = state.runs[r].openWaits \cup W
          /\ u.runs[r].closedWaits = state.runs[r].closedWaits
      BY ParkedDoes
    <2> HIDE DEF u
    <2> QED BY <2>1
  <1> HIDE DEF u, D
  <1>3. Marked(u, r) /\ Moves(state, u, r)
    BY <1>1, <1>2 DEF Marked, Moves, Alive, Terminal
  <1>4. Lined(u, {})
    BY <1>2, <1>3, MovingServes
  <1>5. StateTyped(v) /\ Lined(v, {})
    BY <1>2, <1>4, ReconcileChildWaitDoes, ReconcileKeepsLines DEF Lined
  <1> HIDE DEF v
  <1> QED BY <1>1, <1>5, FencedServes DEF u, v, D

\* complete and fail, with the next Runs they start.
LEMMA FinishServes ==
    ASSUME NEW a \in Activations, NEW r \in Runs, NEW status \in {"succeeded", "failed"},
           Sound(state), Lined(state, {}), Finish(a, r, status)
    PROVE  Lined(state', {})
  <1> DEFINE cancelled == state.runs[r].cancellationRequested
             outcome == IF cancelled THEN "cancelled" ELSE status
  <1>0. StateTyped(state) /\ Life(state, {}) /\ Alive(state, r)
    BY DEF Sound, Finish, Executes
  <1>1. CASE cancelled /\ MustWait(state, r)
    <2>1. Fenced(a, r, Disowned(state, r))
      BY <1>1 DEF Finish
    <2> QED BY <1>0, <2>1, DisowningServes, FencedServes
  <1>2. CASE ~(cancelled /\ MustWait(state, r))
    <2> DEFINE u == Settle(state, {r}, outcome)
    <2>1. Fenced(a, r, u)
      BY <1>2 DEF Finish
    <2>2. MayEnd(state, {r}, outcome)
      BY <1>0, <1>2 DEF MayEnd, Terminal, MustWait
    <2>3. StateTyped(u)
      BY <1>0, <2>2, SettleKeepsLife
    <2>4. Lined(u, {})
      <3> DEFINE D == {r}
      <3>1. MayEnd(state, D, outcome) /\ D \subseteq {r} \cup Children(r)
        BY <2>2
      <3> HIDE DEF D, outcome
      <3>2. Lined(Settle(state, D, outcome), {})
        BY <1>0, <3>1, SettleServes
      <3> QED BY <3>2 DEF D
    <2> HIDE DEF u, outcome
    <2> QED BY <2>1, <2>3, <2>4, FencedServes
  <1> QED BY <1>1, <1>2

-----------------------------------------------------------------------------
(* Clients.                                                                *)

\* A new root joins the end of its lane.
LEMMA EnqueuedQueues ==
    ASSUME NEW r \in Runs, StateTyped(state), Lined(state, {}), Parent[r] = None,
           state.runs[r].status = "absent"
    PROVE  LET u == Enqueued(state, r)
           IN  /\ StateTyped(u) /\ Queues(u, {}) /\ Marks(u)
               /\ HeadsStarted(u, {r}, {})
               /\ IF state.lanes[SessionOf[r]] = << >>
                  THEN HeadsStarted(u, {}, {SessionOf[r]}) ELSE HeadsStarted(u, {}, {})
  <1> DEFINE u == Enqueued(state, r)
             x == SessionOf[r]
             lane == state.lanes[x]
             n == Len(lane)
  <1>0. Queues(state, {}) /\ HeadsStarted(state, {}, {}) /\ Marks(state)
    BY LinedParts
  <1>1. /\ StateTyped(u)
        /\ \A q \in Runs \ {r} : u.runs[q] = state.runs[q]
        /\ u.lanes = [state.lanes EXCEPT ![x] = Append(@, r)]
        /\ u.runs[r].status = "queued"
        /\ u.runs[r].cancellationRequested = state.runs[r].cancellationRequested
        /\ u.runs[r].openWaits = state.runs[r].openWaits
    <2>1. StateTyped(u) /\ Enqueues(state, u, r)
      BY EnqueuedDoes
    <2> HIDE DEF u
    <2> QED BY <2>1 DEF Enqueues, x
  <1> HIDE DEF u
  <1>2. /\ x \in Sessions /\ lane \in Seq(Runs) /\ Unique(lane)
        /\ state.lanes \in [Sessions -> Seq(Runs)]
    BY <1>0, ConstantFacts DEF Queues
  <1>3. /\ u.lanes[x] = Append(lane, r) /\ u.lanes \in [Sessions -> Seq(Runs)]
        /\ \A y \in Sessions \ {x} : u.lanes[y] = state.lanes[y]
    BY <1>1, <1>2
  <1>4. ~Alive(state, r) /\ \A y \in Sessions : ~OnLane(state.lanes[y], r)
    <2>1. ~Alive(state, r)
      BY DEF Alive
    <2> QED BY <1>0, <2>1 DEF Queues
  <1>5. Marks(u)
    BY <1>0, <1>1 DEF Marks
  <1> HIDE DEF lane, x
  <1>6. /\ DOMAIN Append(lane, r) = 1 .. n + 1 /\ DOMAIN lane = 1 .. n /\ n \in Nat
        /\ \A i \in 1 .. n : Append(lane, r)[i] = lane[i]
        /\ Append(lane, r)[n + 1] = r
    BY <1>2
  <1> HIDE DEF n
  <1>7. Unique(Append(lane, r))
    <2> SUFFICES ASSUME NEW i \in 1 .. n + 1, NEW j \in 1 .. n + 1,
                        Append(lane, r)[i] = Append(lane, r)[j]
                 PROVE  i = j
      BY <1>6 DEF Unique
    <2>1. \A k \in 1 .. n : lane[k] # r
      BY <1>2, <1>4, <1>6 DEF OnLane, lane
    <2>2. (i \in 1 .. n \/ i = n + 1) /\ (j \in 1 .. n \/ j = n + 1)
      BY <1>6
    <2> QED BY <1>2, <1>6, <2>1, <2>2 DEF Unique
  <1>8. \A q \in Runs : OnLane(Append(lane, r), q) <=> OnLane(lane, q) \/ q = r
    <2> SUFFICES ASSUME NEW q \in Runs
                 PROVE  OnLane(Append(lane, r), q) <=> OnLane(lane, q) \/ q = r
      OBVIOUS
    <2>1. \A i \in 1 .. n + 1 : i \in 1 .. n \/ i = n + 1
      BY <1>6
    <2>2. n + 1 \in 1 .. n + 1 /\ 1 .. n \subseteq 1 .. n + 1
      BY <1>6
    <2> QED BY <1>6, <2>1, <2>2 DEF OnLane
  <1>9. \A q \in Runs : Alive(u, q) <=> Alive(state, q) \/ q = r
    BY <1>1, <1>4 DEF Alive, Terminal
  <1>10. Queues(u, {})
    <2>1. \A y \in Sessions : Unique(u.lanes[y])
      BY <1>0, <1>3, <1>7 DEF Queues
    <2>2. ASSUME NEW y \in Sessions, NEW q \in Runs
          PROVE  OnLane(u.lanes[y], q) <=> OnLane(state.lanes[y], q) \/ (y = x /\ q = r)
      <3>1. CASE y = x
        BY <1>3, <1>8, <3>1 DEF lane, x
      <3>2. CASE y # x
        BY <1>3, <3>2 DEF x
      <3> QED BY <3>1, <3>2
    <2>3. \A y \in Sessions, q \in Runs : OnLane(u.lanes[y], q) =>
              Parent[q] = None /\ SessionOf[q] = y /\ Alive(u, q)
      BY <1>0, <1>9, <2>2 DEF Queues, x
    <2>4. \A q \in Runs : Parent[q] = None /\ SessionOf[q] \in Hosted /\ Alive(u, q)
                            => OnLane(u.lanes[SessionOf[q]], q)
      BY <1>0, <1>9, <2>2, ConstantFacts DEF Queues, x
    <2> QED BY <1>3, <2>1, <2>3, <2>4 DEF Queues
  <1>11. ASSUME NEW y \in Sessions, u.lanes[y] # << >>, u.runs[Head(u.lanes[y])].status = "queued",
                y # x \/ lane # << >>
         PROVE  UnsettledChildren(u, Head(u.lanes[y])) # {}
    <2> DEFINE h == Head(state.lanes[y])
    <2>1. Head(u.lanes[y]) = h /\ state.lanes[y] # << >>
      <3>1. CASE y = x
        <4>1. n # 0
          BY <1>2, <1>11, <3>1 DEF n
        <4>2. Head(Append(lane, r)) = Append(lane, r)[1] /\ Head(lane) = lane[1]
          BY <1>2
        <4> QED BY <1>3, <1>6, <1>11, <3>1, <4>1, <4>2 DEF lane
      <3>2. CASE y # x
        BY <1>3, <1>11, <3>2
      <3> QED BY <3>1, <3>2
    <2>2. h \in Runs /\ OnLane(state.lanes[y], h)
      BY <1>0, <2>1, LaneMembers DEF OnLane
    <2>3. h # r
      BY <1>4, <2>2
    <2> HIDE DEF h
    <2>4. state.runs[h].status = "queued"
      BY <1>1, <1>11, <2>1, <2>2, <2>3
    <2>5. UnsettledChildren(state, h) # {}
      BY <1>0, <2>1, <2>4 DEF HeadsStarted, h
    <2>6. UnsettledChildren(state, h) \subseteq UnsettledChildren(u, h)
      BY <1>9 DEF UnsettledChildren, Children
    <2> QED BY <2>1, <2>5, <2>6
  <1>12. lane = << >> => u.lanes[x] = << >> \/ Head(u.lanes[x]) = r
    BY <1>2, <1>3
  <1>13. HeadsStarted(u, {r}, {})
    BY <1>11, <1>12 DEF HeadsStarted
  <1>14. IF lane = << >> THEN HeadsStarted(u, {}, {x}) ELSE HeadsStarted(u, {}, {})
    BY <1>11 DEF HeadsStarted
  <1> QED BY <1>1, <1>5, <1>10, <1>13, <1>14 DEF u, x, lane

\* A root that joins its lane is served there, unless it is its head and has not
\* started.
LEMMA JoiningServes ==
    ASSUME NEW r \in Runs, StateTyped(state), Lined(state, {}), Parent[r] = None,
           state.runs[r].status = "absent", NEW promote \in BOOLEAN
    PROVE  LET u == JoinsLane(state, r, promote)
           IN  /\ StateTyped(u) /\ Queues(u, {}) /\ Marks(u)
               /\ HeadsStarted(u, {r}, {})
               /\ promote => HeadsStarted(u, {}, {})
  <1> DEFINE joined == Enqueued(state, r)
             X == {SessionOf[r]}
             u == JoinsLane(state, r, promote)
  <1>1. /\ StateTyped(joined) /\ Queues(joined, {}) /\ Marks(joined)
        /\ HeadsStarted(joined, {r}, {})
        /\ IF state.lanes[SessionOf[r]] = << >>
           THEN HeadsStarted(joined, {}, X) ELSE HeadsStarted(joined, {}, {})
    BY EnqueuedQueues
  <1>2. IF promote /\ state.lanes[SessionOf[r]] = << >>
        THEN u = PromoteHeads(joined, X) ELSE u = joined
    BY DEF JoinsLane
  <1> HIDE DEF joined, X, u
  <1>3. CASE promote /\ state.lanes[SessionOf[r]] = << >>
    <2>1. StateTyped(u) /\ Lined(u, {})
      BY <1>1, <1>2, <1>3, PromotingServes, PromoteHeadsDoes
    <2>2. Queues(u, {}) /\ HeadsStarted(u, {}, {}) /\ Marks(u)
      BY <2>1, LinedParts
    <2>3. HeadsStarted(u, {r}, {})
      BY <2>2 DEF HeadsStarted
    <2> QED BY <2>1, <2>2, <2>3 DEF u
  <1>4. CASE ~(promote /\ state.lanes[SessionOf[r]] = << >>)
    BY <1>1, <1>2, <1>4 DEF u
  <1> QED BY <1>3, <1>4

\* admitSend serves the lane that the root joins.
LEMMA AdmitSendServes ==
    ASSUME NEW r \in Runs, StateTyped(state), Lined(state, {}), AdmitSend(r)
    PROVE  Lined(state', {})
  <1> DEFINE promote == TRUE
             u == JoinsLane(state, r, promote)
  <1>1. /\ Parent[r] = None /\ state.runs[r].status = "absent"
        /\ state' = u /\ promote /\ promote \in BOOLEAN
    BY DEF AdmitSend
  <1> HIDE DEF promote
  <1>2. Queues(u, {}) /\ Marks(u) /\ HeadsStarted(u, {}, {})
    BY <1>1, JoiningServes
  <1> HIDE DEF u
  <1> QED BY <1>1, <1>2, LinedParts

\* A lane that is deleted leaves nobody unserved on it.
LEMMA RetainingServes ==
    ASSUME NEW s, NEW x \in Sessions, NEW G, StateTyped(s), Queues(s, {}), Marks(s),
           HeadsStarted(s, G, {})
    PROVE  LET v == RetainHostedLane(s, x)
           IN  /\ Queues(v, {}) /\ Marks(v) /\ HeadsStarted(v, G, {})
               /\ x \notin Hosted => v.lanes[x] = << >>
  <1> DEFINE v == RetainHostedLane(s, x)
  <1>1. /\ v.runs = s.runs
        /\ v.lanes = IF x \in Hosted THEN s.lanes ELSE [s.lanes EXCEPT ![x] = << >>]
    BY RetainHostedLaneDoes
  <1> HIDE DEF v
  <1>2. s.lanes \in [Sessions -> Seq(Runs)]
    BY DEF Queues
  <1>3. /\ v.lanes \in [Sessions -> Seq(Runs)]
        /\ \A y \in Sessions : v.lanes[y] = s.lanes[y] \/ v.lanes[y] = << >>
        /\ \A y \in Hosted \cap Sessions : v.lanes[y] = s.lanes[y]
        /\ x \notin Hosted => v.lanes[x] = << >>
    BY <1>1, <1>2
  <1>4. \A r \in Runs : ~OnLane(<< >>, r)
    BY DEF OnLane
  <1>5. Unique(<< >>)
    BY DEF Unique
  <1>6. Queues(v, {})
    <2>1. \A y \in Sessions : Unique(v.lanes[y])
      BY <1>3, <1>5 DEF Queues
    <2>2. \A r \in Runs : Alive(v, r) <=> Alive(s, r)
      BY <1>1 DEF Alive
    <2>3. \A y \in Sessions, r \in Runs : OnLane(v.lanes[y], r) =>
              Parent[r] = None /\ SessionOf[r] = y /\ (Alive(v, r) \/ r \in {})
      BY <1>3, <1>4, <2>2 DEF Queues
    <2>4. \A r \in Runs : /\ Parent[r] = None /\ SessionOf[r] \in Hosted
                          /\ (Alive(v, r) \/ r \in {})
                          => OnLane(v.lanes[SessionOf[r]], r)
      BY <1>3, <2>2, ConstantFacts DEF Queues
    <2> QED BY <1>3, <2>1, <2>3, <2>4 DEF Queues
  <1>7. HeadsStarted(v, G, {})
    BY <1>1, <1>3 DEF HeadsStarted, UnsettledChildren, Alive
  <1>8. Marks(v)
    BY <1>1 DEF Marks
  <1> QED BY <1>3, <1>6, <1>7, <1>8 DEF v

\* Children join no lane.
LEMMA WithChildrenServes ==
    ASSUME NEW s, NEW t, NEW K, NEW G, Queues(s, {}), HeadsStarted(s, G, {}), Marks(s),
           t.lanes = s.lanes, Admits(s, t, K),
           \A c \in K : c \in Runs /\ Parent[c] # None /\ s.runs[c].status = "absent"
    PROVE  Queues(t, {}) /\ HeadsStarted(t, G, {}) /\ Marks(t)
  <1>1. \A q \in Runs :
            /\ SameOwner(s.runs[q], t.runs[q])
            /\ q \in K => t.runs[q].status = "queued"
            /\ q \notin K => t.runs[q].status = s.runs[q].status
            /\ t.runs[q].cancellationRequested = s.runs[q].cancellationRequested
            /\ t.runs[q].openWaits = s.runs[q].openWaits
    BY DEF Admits
  <1>2. \A q \in Runs : Moves(s, t, q)
    BY <1>1 DEF Moves, Alive, Terminal
  <1>3. Queues(t, {}) /\ HeadsStarted(t, G, {})
    BY <1>2, MovingKeepsLines
  <1>4. Marks(t)
    BY <1>1 DEF Marks, SameOwner
  <1> QED BY <1>3, <1>4

\* admitStart: the children of its root stand for it, where it is the head.
LEMMA AdmitStartServes ==
    ASSUME NEW r \in Runs, StateTyped(state), Lined(state, {}), Sound(state), AdmitStart(r)
    PROVE  Lined(state', {})
  <1>1. Parent[r] = None /\ state.runs[r].status = "absent"
    BY AdmitStartSteps
  <1>2. PICK kids \in Requests(r), promote \in BOOLEAN :
            /\ kids # << >> => ~promote
            /\ SessionOf[r] \in Hosted /\ kids = << >> => promote
            /\ \A q \in Among(kids) : state.runs[q].status = "absent"
            /\ state' = WithChildren(RetainHostedLane(JoinsLane(state, r, promote),
                                                      SessionOf[r]), r, kids)
    BY AdmitStartSteps
  <1> DEFINE x == SessionOf[r]
             u == JoinsLane(state, r, promote)
             v == RetainHostedLane(u, x)
             K == Among(kids)
             t == WithChildren(v, r, kids)
             G == {r}
  <1>3. /\ StateTyped(u) /\ Queues(u, {}) /\ Marks(u) /\ HeadsStarted(u, G, {})
        /\ promote => HeadsStarted(u, {}, {})
    BY <1>1, JoiningServes
  <1>4. \A q \in Runs \ {r} : state.runs[q].status = "absent" => u.runs[q].status = "absent"
    BY <1>1, JoiningIsSound
  <1>5. /\ kids \in Seq(Runs) /\ K \subseteq Children(r) /\ r \notin K
        /\ kids # << >> => K # {}
    BY RequestsName
  <1>6. x \in Sessions /\ state' = t
    BY <1>2, ConstantFacts
  <1> HIDE DEF u, G
  <1>7. /\ StateTyped(v) /\ v.runs = u.runs
        /\ Queues(v, {}) /\ Marks(v) /\ HeadsStarted(v, G, {})
        /\ x \notin Hosted => v.lanes[x] = << >>
    BY <1>3, <1>6, RetainHostedLaneDoes, RetainingServes
  <1>8. promote => HeadsStarted(v, {}, {})
    <2> DEFINE none == {}
    <2>1. promote => HeadsStarted(u, none, {})
      BY <1>3
    <2> HIDE DEF none
    <2>2. promote => HeadsStarted(v, none, {})
      BY <1>3, <1>6, <2>1, RetainingServes
    <2> QED BY <2>2 DEF none
  <1> HIDE DEF v
  <1>9. t.lanes = v.lanes /\ Admits(v, t, K)
    BY <1>5, <1>7, WithChildrenDoes
  <1>10. \A c \in K : c \in Runs /\ Parent[c] # None /\ v.runs[c].status = "absent"
    <2>1. \A c \in K : c \in Runs /\ c # r /\ Parent[c] = r
      BY <1>5 DEF Children
    <2>2. r # None
      BY ConstantFacts
    <2>3. \A c \in K : state.runs[c].status = "absent"
      BY <1>2
    <2> QED BY <1>4, <1>7, <2>1, <2>2, <2>3
  <1> HIDE DEF t
  <1>11. Queues(t, {}) /\ HeadsStarted(t, G, {}) /\ Marks(t)
    BY <1>7, <1>9, <1>10, WithChildrenServes
  <1>12. HeadsStarted(t, {}, {})
    <2>1. CASE promote
      <3> DEFINE none == {}
      <3>1. HeadsStarted(v, none, {})
        BY <1>8, <2>1
      <3> HIDE DEF none
      <3>2. HeadsStarted(t, none, {})
        BY <1>7, <1>9, <1>10, <3>1, WithChildrenServes
      <3> QED BY <3>2 DEF none
    <2>2. CASE kids # << >>
      <3>1. PICK c \in K : TRUE
        BY <1>5, <2>2
      <3>2. c \in Children(r) /\ t.runs[c].status = "queued"
        BY <1>5, <1>9, <1>10 DEF Admits
      <3>3. UnsettledChildren(t, r) # {}
        BY <3>2 DEF UnsettledChildren, Alive, Terminal
      <3> QED BY <1>11, <3>3 DEF HeadsStarted, G
    <2>3. CASE kids = << >> /\ ~promote
      <3>1. t.lanes[x] = << >>
        BY <1>2, <1>7, <1>9, <2>3
      <3>2. ASSUME NEW y \in Sessions, t.lanes[y] # << >> PROVE Head(t.lanes[y]) \notin G
        <4>1. y # x
          BY <3>1, <3>2
        <4>2. SessionOf[Head(t.lanes[y])] = y
          BY <1>11, <3>2, LaneMembers
        <4> QED BY <4>1, <4>2 DEF G
      <3> QED BY <1>11, <3>2 DEF HeadsStarted
    <2> QED BY <2>1, <2>2, <2>3
  <1> QED BY <1>6, <1>11, <1>12, LinedParts

\* activateRoot starts a Run that is on no lane, or anywhere on one.
LEMMA ActivateServes ==
    ASSUME NEW r \in Runs, StateTyped(state), Lined(state, {}), Activate(r)
    PROVE  Lined(state', {})
  <1>1. /\ StartedIn(state, state', r) /\ state'.lanes = state.lanes
        /\ \A q \in Runs \ {r} : state'.runs[q] = state.runs[q]
    BY ActivateDoes
  <1>2. Marked(state', r) /\ Moves(state, state', r)
    BY <1>1 DEF Marked, Moves, StartedIn, Alive, Terminal
  <1> QED BY <1>1, <1>2, MovingServes

\* admitSpawn: children are on no lane.
LEMMA AdmitChildServes ==
    ASSUME NEW c \in Runs, StateTyped(state), Lined(state, {}), AdmitChild(c)
    PROVE  Lined(state', {})
  <1> DEFINE K == {c}
             G == {}
  <1>1. state'.lanes = state.lanes /\ Admits(state, state', K)
    BY AdmitChildDoes
  <1>2. \A q \in K : q \in Runs /\ Parent[q] # None /\ state.runs[q].status = "absent"
    BY DEF AdmitChild
  <1>3. Queues(state, {}) /\ HeadsStarted(state, G, {}) /\ Marks(state)
    BY LinedParts
  <1> HIDE DEF K, G
  <1>4. Queues(state', {}) /\ HeadsStarted(state', G, {}) /\ Marks(state')
    BY <1>1, <1>2, <1>3, WithChildrenServes
  <1> QED BY <1>4, LinedParts DEF G

\* A Run that is answered goes on where it is.
LEMMA RespondServes ==
    ASSUME NEW r \in Runs, StateTyped(state), Lined(state, {}), Respond(r)
    PROVE  Lined(state', {})
  <1>1. /\ state'.lanes = state.lanes
        /\ \A q \in Runs \ {r} : state'.runs[q] = state.runs[q]
        /\ state'.runs[r].status = "running"
    BY RespondDoes
  <1>2. Alive(state, r)
    BY DEF Respond
  <1>3. Marked(state', r) /\ Moves(state, state', r)
    BY <1>1, <1>2 DEF Marked, Moves, Alive, Terminal
  <1> QED BY <1>1, <1>3, MovingServes

\* cancel takes queued Runs from the middle of their lanes, or marks them.
LEMMA CancelServes ==
    ASSUME NEW r \in Runs, Sound(state), Lined(state, {}), Cancel(r)
    PROVE  Lined(state', {})
  <1> DEFINE u == Requested(state, r)
             D == Finalized(state, r)
  <1>0. StateTyped(state) /\ Marks(state)
    BY LinedParts DEF Sound
  <1>1. /\ StateTyped(u) /\ u.lanes = state.lanes
        /\ \A q \in Runs : q \notin Cancelled(state, r) => u.runs[q] = state.runs[q]
        /\ \A q \in Runs : q \in Cancelled(state, r) =>
             /\ SameOwner(state.runs[q], u.runs[q])
             /\ u.runs[q].status =
                   IF state.runs[q].cancellationRequested THEN state.runs[q].status
                   ELSE "cancelling"
             /\ u.runs[q].cancellationRequested
             /\ u.runs[q].openWaits = {}
    BY <1>0, RequestedDoes
  <1>2. Life(u, {}) /\ MayEnd(u, D, "cancelled")
    BY RequestMayEnd
  <1>3. D \subseteq {r} \cup Children(r)
    BY DEF Finalized, Cancelled
  <1> HIDE DEF u, D
  <1>4. ASSUME NEW q \in Runs
        PROVE  \/ u.runs[q] = state.runs[q]
               \/ Marked(u, q) /\ Moves(state, u, q)
    <2> SUFFICES ASSUME q \in Cancelled(state, r)
                 PROVE  Marked(u, q) /\ Moves(state, u, q)
      BY <1>1
    <2>1. Alive(state, q) /\ Marked(state, q)
      BY <1>0 DEF Cancelled, Children, Marks, Marked
    <2>2. Marked(u, q)
      BY <1>1, <2>1 DEF Marked, Alive
    <2>3. Moves(state, u, q)
      BY <1>1, <2>1 DEF Moves, Marked, Alive, Terminal
    <2> QED BY <2>2, <2>3
  <1>5. Lined(u, {})
    BY <1>1, <1>4, MovingServes
  <1>6. Lined(Settle(u, D, "cancelled"), {})
    BY <1>1, <1>2, <1>3, <1>5, SettleServes
  <1>7. state' = Settle(u, D, "cancelled")
    BY DEF Cancel, u, D
  <1> QED BY <1>6, <1>7

-----------------------------------------------------------------------------
(* The invariant of the lanes.                                             *)

\* Between commands nobody has yet to leave a lane, and no head to start.
LaneInv == Lined(state, {})

\* All lanes are empty.
LEMMA LaneInvInit ==
    Init => LaneInv
  <1> SUFFICES ASSUME Init PROVE LaneInv
    OBVIOUS
  <1>1. /\ state.lanes = [x \in Sessions |-> << >>]
        /\ \A r \in Runs : /\ state.runs[r].status = "absent"
                           /\ state.runs[r].ownerId = None
                           /\ ~state.runs[r].cancellationRequested
                           /\ state.runs[r].openWaits = {}
    BY DEF Init, EmptyState
  <1>2. \A x \in Sessions : state.lanes[x] = << >> /\ DOMAIN state.lanes[x] = {}
    BY <1>1
  <1>3. \A r \in Runs : ~Alive(state, r)
    BY <1>1 DEF Alive
  <1>4. Queues(state, {})
    <2>1. state.lanes \in [Sessions -> Seq(Runs)]
      BY <1>1
    <2> QED BY <1>2, <1>3, <2>1 DEF Queues, Unique, OnLane
  <1>5. HeadsStarted(state, {}, {})
    BY <1>2 DEF HeadsStarted
  <1>6. Marks(state)
    BY <1>1 DEF Marks
  <1> QED BY <1>4, <1>5, <1>6, LinedParts DEF LaneInv

\* Every step keeps the invariant of the lanes.
LEMMA LaneInvNext ==
    ASSUME OwnInv, LaneInv, [Next]_vars
    PROVE  LaneInv'
  <1>0. Sound(state) /\ StateTyped(state) /\ Lined(state, {})
    BY DEF OwnInv, Sound, LaneInv
  <1>1. ASSUME NEW a \in Activations, Lease(a) PROVE Lined(state', {})
    BY <1>0, <1>1, LeaseServes
  <1>2. ASSUME NEW a \in Activations, NEW r \in Runs, Execution(a, r)
        PROVE  Lined(state', {})
    <2>1. CASE \E E \in ExpiredSets(state) : ClaimExecution(a, r, E)
      BY <1>0, <2>1, ClaimServes
    <2>2. CASE ReleaseExecution(a, r)
      BY <1>0, <2>2, ReleaseServes
    <2>3. CASE RespondWithToolCalls(a, r) \/ AppendToolResults(a, r)
      BY <1>0, <2>3, AnsweringServes
    <2>4. CASE Suspend(a, r)
      BY <1>0, <2>4, SuspendServes
    <2>5. CASE Complete(a, r) \/ Fail(a, r)
      BY <1>0, <2>5, FinishServes DEF Complete, Fail
    <2> QED BY <1>2, <2>1, <2>2, <2>3, <2>4, <2>5 DEF Execution
  <1>3. ASSUME NEW r \in Runs, Client(r) PROVE Lined(state', {})
    <2>1. CASE AdmitSend(r) \/ AdmitChild(r)
      BY <1>0, <2>1, AdmitSendServes, AdmitChildServes
    <2>2. CASE AdmitStart(r)
      BY <1>0, <2>2, AdmitStartServes
    <2>3. CASE Activate(r) \/ Respond(r)
      BY <1>0, <2>3, ActivateServes, RespondServes
    <2>4. CASE Cancel(r)
      BY <1>0, <2>4, CancelServes
    <2> QED BY <1>3, <2>1, <2>2, <2>3, <2>4 DEF Client
  <1>4. CASE UNCHANGED vars
    BY <1>0, <1>4 DEF vars, LaneInv
  <1> QED BY <1>1, <1>2, <1>3, <1>4 DEF Next, LaneInv

\* Whoever is queued for a Session is served, in every order in which Runs are
\* admitted, started by their children, cancelled and settled: a lane holds living
\* roots of its Session, on a hosted Session all of them, and its head has started or
\* waits for children of its own (lanes.ts, afterTerminal, settleParentChild).
THEOREM LanesAreServed ==
    Spec => []LanesServed
  <1>1. OwnInv /\ LaneInv /\ [Next]_vars => LaneInv'
    BY LaneInvNext
  <1>2. LaneInv => LanesServed
    <2> SUFFICES ASSUME LaneInv, NEW x \in Sessions
                 PROVE  LET lane == state.lanes[x]
                            roots == {r \in Runs : /\ Parent[r] = None /\ SessionOf[r] = x
                                                   /\ Alive(state, r)}
                            served == {lane[i] : i \in DOMAIN lane}
                        IN /\ \A i, j \in DOMAIN lane : lane[i] = lane[j] => i = j
                           /\ served \subseteq roots
                           /\ x \in Hosted => served = roots
                           /\ lane # << >> /\ state.runs[Head(lane)].status = "queued"
                                => UnsettledChildren(state, Head(lane)) # {}
      BY DEF LanesServed
    <2> DEFINE lane == state.lanes[x]
               roots == {r \in Runs : Parent[r] = None /\ SessionOf[r] = x /\ Alive(state, r)}
               served == {lane[i] : i \in DOMAIN lane}
    <2>1. Queues(state, {}) /\ HeadsStarted(state, {}, {})
      BY LinedParts DEF LaneInv
    <2>2. \A i, j \in DOMAIN lane : lane[i] = lane[j] => i = j
      BY <2>1 DEF Queues, Unique
    <2>3. \A i \in DOMAIN lane : lane[i] \in Runs
      BY <2>1, LaneMembers
    <2>4. \A r \in Runs : OnLane(lane, r) => r \in roots
      BY <2>1 DEF Queues
    <2>5. x \in Hosted => \A r \in roots : OnLane(lane, r)
      BY <2>1 DEF Queues
    <2>6. lane # << >> /\ state.runs[Head(lane)].status = "queued"
            => UnsettledChildren(state, Head(lane)) # {}
      BY <2>1 DEF HeadsStarted
    <2>7. \A r \in Runs : r \in served <=> OnLane(lane, r)
      BY DEF OnLane
    <2>8. served \subseteq Runs /\ roots \subseteq Runs
      BY <2>3
    <2> HIDE DEF lane, roots, served
    <2>9. served \subseteq roots /\ (x \in Hosted => served = roots)
      BY <2>4, <2>5, <2>7, <2>8
    <2> QED BY <2>2, <2>6, <2>9 DEF lane, roots, served
  <1> QED BY <1>1, <1>2, OwnInvAlways, LaneInvInit, PTL DEF Spec

-----------------------------------------------------------------------------
(* Types.                                                                  *)

\* The Runs there are.
Admitted(s) == {r \in Runs : s.runs[r].status # "absent"}

\* What the other arguments do not need of the type: the leases are those of
\* activations, and the epochs are numbers, as a settlement, which counts the Runs it
\* settles, has finitely many.
Rest(s) ==
    /\ s.workers \in [Workers -> Activations \cup {None}]
    /\ s.released \in SUBSET Workers
    /\ \A x \in Sessions : s.sessions[x].writerEpoch \in Nat
    /\ IsFiniteSet(Admitted(s))

\* A step that leaves the leases and admits finitely many Runs,
LEMMA RestGrows ==
    ASSUME NEW s, NEW t, NEW Q, Rest(s), t.workers = s.workers, t.released = s.released,
           IsFiniteSet(Q), \A x \in Sessions : t.sessions[x].writerEpoch \in Nat,
           \A r \in Runs : t.runs[r].status # "absent" =>
                                s.runs[r].status # "absent" \/ r \in Q
    PROVE  Rest(t)
  <1>1. IsFiniteSet(Admitted(s) \cup Q)
    BY FS_Union DEF Rest
  <1>2. Admitted(t) \subseteq Admitted(s) \cup Q
    BY DEF Admitted
  <1>3. IsFiniteSet(Admitted(t))
    BY <1>1, <1>2, FS_Subset
  <1> QED BY <1>3 DEF Rest

\* or one of them at most.
LEMMA RestKept ==
    ASSUME NEW s, NEW t, NEW q, Rest(s), t.workers = s.workers, t.released = s.released,
           \A x \in Sessions : t.sessions[x].writerEpoch \in Nat,
           \A r \in Runs : t.runs[r].status # "absent" => s.runs[r].status # "absent" \/ r = q
    PROVE  Rest(t)
  <1> DEFINE Q == {q}
  <1>1. IsFiniteSet(Q)
    BY FS_Singleton
  <1>2. \A r \in Runs : t.runs[r].status # "absent" => s.runs[r].status # "absent" \/ r \in Q
    OBVIOUS
  <1> HIDE DEF Q
  <1> QED BY <1>1, <1>2, RestGrows

\* Only leases expire by a command of ownershipCommands.
LEMMA LeasesStay ==
    ASSUME NEW s, StateTyped(s), NEW r, NEW D, NEW v
    PROVE  /\ ReconcileChildWait(s, D).released = s.released
           /\ PromoteHeads(s, D).released = s.released
           /\ AfterTerminal(s, D).released = s.released
           /\ Requested(s, r).released = s.released
           /\ ClaimedBy(s, v, r).released = s.released
           /\ Disowned(s, r).released = s.released
           /\ Parked(s, r, v).released = s.released
           /\ WithUnanswered(s, r, v).released = s.released
           /\ Enqueued(s, r).released = s.released
  <1>1. s = [f \in Fields |-> s[f]] /\ "released" \in Fields
    BY DEF StateTyped, Fields
  <1>2. ReconcileChildWait(s, D).released = s.released
    BY <1>1 DEF ReconcileChildWait
  <1>3. PromoteHeads(s, D).released = s.released
    BY <1>1 DEF PromoteHeads
  <1>4. AfterTerminal(s, D).released = s.released
    <2> DEFINE u == [s EXCEPT !.lanes = [x \in Sessions |-> Without(s.lanes[x], D)]]
    <2>1. u = [f \in Fields |-> u[f]] /\ u.released = s.released
      BY <1>1 DEF Fields
    <2>2. AfterTerminal(s, D) = PromoteHeads(u, {SessionOf[q] : q \in D})
      BY DEF AfterTerminal
    <2> HIDE DEF u
    <2> QED BY <1>1, <2>1, <2>2 DEF PromoteHeads
  <1>5. Requested(s, r).released = s.released
    BY <1>1 DEF Requested
  <1>6. ClaimedBy(s, v, r).released = s.released
    BY <1>1 DEF ClaimedBy
  <1>7. Disowned(s, r).released = s.released /\ Parked(s, r, v).released = s.released
    BY <1>1 DEF Disowned, Parked
  <1>8. WithUnanswered(s, r, v).released = s.released /\ Enqueued(s, r).released = s.released
    BY <1>1 DEF WithUnanswered, Enqueued
  <1> QED BY <1>2, <1>3, <1>4, <1>5, <1>6, <1>7, <1>8

\* A settlement counts the Runs it settles on a Session without a writer.
LEMMA TerminateRest ==
    ASSUME NEW s, StateTyped(s), Rest(s), NEW D \in SUBSET Admitted(s), NEW status \in Terminal
    PROVE  Rest(Terminate(s, D, status))
  <1> DEFINE on(x) == {r \in D : SessionOf[r] = x}
             epoch(x) == IF s.sessions[x].writer = None
                         THEN s.sessions[x].writerEpoch + Cardinality(on(x))
                         ELSE s.sessions[x].writerEpoch
             t == Terminate(s, D, status)
  <1>1. status \in Statuses /\ D \subseteq Runs /\ status # "absent"
    BY DEF Statuses, Terminal, Admitted
  <1>2. /\ t.workers = s.workers
        /\ \A r \in Runs \ D : t.runs[r] = s.runs[r]
    BY <1>1, TerminateDoes
  <1>3. \A r \in Runs : t.runs[r].status # "absent" => s.runs[r].status # "absent" \/ r = None
    BY <1>2 DEF Admitted
  <1>4. ASSUME NEW x \in Sessions PROVE epoch(x) \in Nat
    <2>1. on(x) \subseteq Admitted(s)
      OBVIOUS
    <2>2. Cardinality(on(x)) \in Nat
      BY <2>1, FS_Subset, FS_CardinalityType DEF Rest
    <2> HIDE DEF on
    <2> QED BY <2>2 DEF Rest
  <1>5. s = [f \in Fields |-> s[f]] /\ \A x \in Sessions : SessionTyped(s.sessions[x])
    BY DEF StateTyped
  <1>6. t.released = s.released
    BY <1>5 DEF Terminate, Fields
  <1>7. ASSUME NEW x \in Sessions PROVE t.sessions[x].writerEpoch = epoch(x)
    <2> DEFINE unanswered == IF on(x) = {} THEN s.sessions[x].unansweredBy ELSE {}
    <2>1. t.sessions[x] = [s.sessions[x] EXCEPT !.writerEpoch = epoch(x),
                                                !.unansweredBy = unanswered]
      BY <1>5 DEF Terminate, Fields
    <2>2. SessionTyped(s.sessions[x])
      BY <1>5
    <2> HIDE DEF unanswered, epoch, t
    <2> QED BY <2>1, <2>2 DEF SessionTyped, SessionFields
  <1> HIDE DEF t, epoch
  <1>8. \A x \in Sessions : t.sessions[x].writerEpoch \in Nat
    BY <1>4, <1>7
  <1> QED BY <1>2, <1>3, <1>6, <1>8, RestKept DEF t

\* The parents that a settlement resumes have been admitted.
LEMMA ReconcileChildWaitRest ==
    ASSUME NEW s, NEW D, StateTyped(s), Rest(s)
    PROVE  Rest(ReconcileChildWait(s, D))
  <1> DEFINE t == ReconcileChildWait(s, D)
  <1>1. /\ t.sessions = s.sessions /\ t.workers = s.workers
        /\ \A p \in Runs : t.runs[p] = s.runs[p] \/ ResumedBy(s, t, D, p)
    BY ReconcileChildWaitDoes
  <1>2. t.released = s.released
    BY LeasesStay
  <1> HIDE DEF t
  <1>3. \A p \in Runs : t.runs[p].status # "absent" => s.runs[p].status # "absent" \/ p = None
    BY <1>1 DEF ResumedBy, Alive
  <1> QED BY <1>1, <1>2, <1>3, RestKept DEF t, Rest

LEMMA AfterTerminalRest ==
    ASSUME NEW s, NEW D, StateTyped(s), Rest(s)
    PROVE  Rest(AfterTerminal(s, D)) /\ Rest(PromoteHeads(s, D))
  <1>1. ASSUME NEW t, t.sessions = s.sessions, t.workers = s.workers, t.released = s.released,
               \A r \in Runs : t.runs[r] = s.runs[r] \/ StartedIn(s, t, r)
        PROVE  Rest(t)
    <2>1. \A p \in Runs : t.runs[p].status # "absent" => s.runs[p].status # "absent" \/ p = None
      BY <1>1 DEF StartedIn
    <2> QED BY <1>1, <2>1, RestKept DEF Rest
  <1>2. Rest(AfterTerminal(s, D))
    BY <1>1, AfterTerminalDoes, LeasesStay
  <1>3. Rest(PromoteHeads(s, D))
    BY <1>1, PromoteHeadsDoes, LeasesStay
  <1> QED BY <1>2, <1>3

LEMMA SettleRest ==
    ASSUME NEW s, StateTyped(s), Rest(s), NEW D \in SUBSET Admitted(s), NEW status \in Terminal
    PROVE  StateTyped(Settle(s, D, status)) /\ Rest(Settle(s, D, status))
  <1> DEFINE first == Terminate(s, D, status)
             settled == Settled(s, D, status)
             parents == CancellingParents(settled, D)
             last == Terminate(settled, parents, "cancelled")
  <1>1. StateTyped(first) /\ Rest(first)
    BY TerminateDoes, TerminateRest DEF Statuses
  <1>2. StateTyped(settled) /\ Rest(settled)
    <2> DEFINE resumed == ReconcileChildWait(first, D)
    <2>1. settled = StartParents(resumed, D)
      BY SettledSteps
    <2> HIDE DEF first, settled
    <2>2. StateTyped(resumed) /\ Rest(resumed)
      BY <1>1, ReconcileChildWaitDoes, ReconcileChildWaitRest
    <2> HIDE DEF resumed
    <2>3. /\ StateTyped(settled) /\ settled.sessions = resumed.sessions
          /\ settled.workers = resumed.workers /\ settled.released = resumed.released
          /\ \A p \in Runs : settled.runs[p] = resumed.runs[p] \/ StartedIn(resumed, settled, p)
      BY <2>1, <2>2, StartParentsDoes
    <2>4. \A p \in Runs : settled.runs[p].status # "absent" =>
                            resumed.runs[p].status # "absent" \/ p = None
      BY <2>3 DEF StartedIn
    <2> QED BY <2>2, <2>3, <2>4, RestKept DEF Rest
  <1>3. parents \in SUBSET Admitted(settled)
    <2>1. \A c \in D : Parent[c] \in Runs \cup {None}
      BY ConstantFacts DEF Admitted
    <2> HIDE DEF settled
    <2> QED BY <2>1 DEF CancellingParents, Admitted
  <1>4. Settle(s, D, status) = AfterTerminal(last, D \cup parents)
    BY DEF Settle
  <1> HIDE DEF settled, parents
  <1>5. StateTyped(last) /\ Rest(last)
    BY <1>2, <1>3, TerminateDoes, TerminateRest DEF Statuses, Terminal
  <1> HIDE DEF last
  <1> QED BY <1>4, <1>5, AfterTerminalDoes, AfterTerminalRest

LEMMA RevokeSessionRest ==
    ASSUME NEW s, NEW w, NEW r \in Runs, NEW claim, StateTyped(s), Rest(s)
    PROVE  Rest(RevokeSession(s, w, r, claim))
  <1> DEFINE x == SessionOf[r]
             e == [s.sessions[x] EXCEPT !.writer = None]
             u == [s EXCEPT !.sessions[x] = e]
             t == RevokeSession(s, w, r, claim)
  <1>1. t = u \/ t = s
    BY DEF RevokeSession, SessionIn
  <1>2. s = [f \in Fields |-> s[f]] /\ s.sessions = [y \in Sessions |-> s.sessions[y]]
    BY DEF StateTyped
  <1>3. x \in Sessions /\ SessionTyped(s.sessions[x])
    BY ConstantFacts DEF StateTyped
  <1>4. e.writerEpoch = s.sessions[x].writerEpoch
    BY <1>3 DEF SessionTyped, SessionFields
  <1> HIDE DEF e, t, x
  <1>5. /\ u.sessions = [s.sessions EXCEPT ![x] = e]
        /\ u.workers = s.workers /\ u.released = s.released /\ u.runs = s.runs
    BY <1>2 DEF Fields
  <1> HIDE DEF u
  <1>6. \A y \in Sessions : u.sessions[y].writerEpoch = s.sessions[y].writerEpoch
    BY <1>2, <1>3, <1>4, <1>5
  <1>7. Rest(u)
    BY <1>5, <1>6, RestKept DEF Rest
  <1> QED BY <1>1, <1>7 DEF t

LEMMA ReleaseExpiredOwnersRest ==
    ASSUME NEW s, NEW E, StateTyped(s), Rest(s)
    PROVE  Rest(ReleaseExpiredOwners(s, E))
  <1> DEFINE freed == {r \in Runs : s.runs[r].ownerId \in E}
             revoked == {x \in Sessions : \E r \in freed :
                            /\ SessionOf[r] = x
                            /\ s.sessions[x].writer # None
                            /\ s.sessions[x].writer.runId = r
                            /\ s.sessions[x].writer.ownerId = s.runs[r].ownerId}
             t == ReleaseExpiredOwners(s, E)
  <1>1. s = [f \in Fields |-> s[f]] /\ \A x \in Sessions : SessionTyped(s.sessions[x])
    BY DEF StateTyped
  <1>2. /\ t.workers = [w \in Workers |-> IF w \in E THEN None ELSE s.workers[w]]
        /\ \A r \in Runs : t.runs[r].status = s.runs[r].status
    BY ReleaseExpiredOwnersDoes DEF TakesFrom, SameRun
  <1>3. t.released = s.released \ E
    BY <1>1 DEF ReleaseExpiredOwners, Fields
  <1>4. ASSUME NEW x \in Sessions PROVE t.sessions[x].writerEpoch \in Nat
    <2> DEFINE e == s.sessions[x]
    <2>1. t.sessions[x] = IF x \in revoked
                          THEN [e EXCEPT !.writer = None, !.writerEpoch = @ + 1] ELSE e
      BY <1>1 DEF ReleaseExpiredOwners, Fields
    <2>2. SessionTyped(e) /\ e.writerEpoch \in Nat
      BY <1>1 DEF Rest
    <2> HIDE DEF e, t, revoked
    <2> QED BY <2>1, <2>2 DEF SessionTyped, SessionFields
  <1> HIDE DEF t
  <1>5. Admitted(t) = Admitted(s)
    BY <1>2 DEF Admitted
  <1>6. t.workers \in [Workers -> Activations \cup {None}]
    BY <1>2 DEF Rest
  <1> QED BY <1>3, <1>4, <1>5, <1>6 DEF t, Rest

\* The Session of a Run that is claimed gets a new epoch.
LEMMA ClaimedByRest ==
    ASSUME NEW s, NEW w \in Workers, NEW r \in Runs, StateTyped(s), Rest(s), Alive(s, r)
    PROVE  Rest(ClaimedBy(s, w, r))
  <1> DEFINE x == SessionOf[r]
             writer == [runId |-> r, ownerId |-> w,
                        runAttemptFence |-> s.runs[r].attemptFence + 1]
             e == s.sessions[x]
             t == ClaimedBy(s, w, r)
  <1>1. x \in Sessions /\ SessionTyped(e) /\ e.writerEpoch \in Nat
    BY ConstantFacts DEF StateTyped, Rest
  <1>2. /\ t.workers = s.workers
        /\ \A q \in Runs \ {r} : t.runs[q] = s.runs[q]
        /\ \A y \in Sessions \ {x} : t.sessions[y] = s.sessions[y]
    BY ClaimedByDoes
  <1>3. t.released = s.released
    BY LeasesStay
  <1>4. t.sessions[x] = [e EXCEPT !.writer = writer, !.writerEpoch = @ + 1]
    <2>1. s = [f \in Fields |-> s[f]] /\ s.sessions = [y \in Sessions |-> s.sessions[y]]
      BY DEF StateTyped
    <2>2. t.sessions = [s.sessions EXCEPT ![x] =
                            [e EXCEPT !.writer = writer, !.writerEpoch = @ + 1]]
      BY <2>1 DEF ClaimedBy, SessionIn, Fields
    <2> HIDE DEF t, writer
    <2> QED BY <1>1, <2>1, <2>2
  <1> HIDE DEF e, t, writer, x
  <1>5. t.sessions[x].writerEpoch \in Nat
    BY <1>1, <1>4 DEF SessionTyped, SessionFields
  <1>6. \A q \in Runs : t.runs[q].status # "absent" => s.runs[q].status # "absent" \/ q = None
    BY <1>2 DEF Alive
  <1>7. \A y \in Sessions : t.sessions[y].writerEpoch \in Nat
    BY <1>2, <1>5 DEF Rest
  <1> QED BY <1>2, <1>3, <1>6, <1>7, RestKept DEF t

LEMMA DisownedRest ==
    ASSUME NEW s, NEW r \in Runs, StateTyped(s), Rest(s)
    PROVE  Rest(Disowned(s, r))
  <1> DEFINE t == Disowned(s, r)
  <1>1. /\ t.sessions = s.sessions /\ t.workers = s.workers
        /\ \A q \in Runs \ {r} : t.runs[q] = s.runs[q]
        /\ SameRun(s.runs[r], t.runs[r])
    BY DisownedDoes
  <1>2. t.released = s.released
    BY LeasesStay
  <1> HIDE DEF t
  <1>3. \A q \in Runs : t.runs[q].status # "absent" => s.runs[q].status # "absent" \/ q = None
    BY <1>1 DEF SameRun
  <1> QED BY <1>1, <1>2, <1>3, RestKept DEF t, Rest

LEMMA ParkedRest ==
    ASSUME NEW s, NEW r \in Runs, NEW W \in SUBSET Runs, StateTyped(s), Rest(s), Alive(s, r)
    PROVE  Rest(Parked(s, r, W))
  <1> DEFINE t == Parked(s, r, W)
  <1>1. /\ t.sessions = s.sessions /\ t.workers = s.workers
        /\ \A q \in Runs \ {r} : t.runs[q] = s.runs[q]
    BY ParkedDoes
  <1>2. t.released = s.released
    BY LeasesStay
  <1> HIDE DEF t
  <1>3. \A q \in Runs : t.runs[q].status # "absent" => s.runs[q].status # "absent" \/ q = None
    BY <1>1 DEF Alive
  <1> QED BY <1>1, <1>2, <1>3, RestKept DEF t, Rest

LEMMA WithUnansweredRest ==
    ASSUME NEW s, NEW r \in Runs, NEW U \in SUBSET Runs, StateTyped(s), Rest(s)
    PROVE  Rest(WithUnanswered(s, r, U))
  <1> DEFINE t == WithUnanswered(s, r, U)
  <1>1. /\ t.runs = s.runs
        /\ \A y \in Sessions : t.sessions[y].writerEpoch = s.sessions[y].writerEpoch
    BY WithUnansweredDoes
  <1>2. t.released = s.released
    BY LeasesStay
  <1>3. t.workers = s.workers
    BY DEF WithUnanswered, StateTyped, Fields
  <1> HIDE DEF t
  <1> QED BY <1>1, <1>2, <1>3, RestKept DEF t, Rest

\* cancel: what it settles has been admitted.
LEMMA CancelRest ==
    ASSUME NEW s, NEW r \in Runs, StateTyped(s), Rest(s)
    PROVE  Rest(Settle(Requested(s, r), Finalized(s, r), "cancelled"))
  <1> DEFINE u == Requested(s, r)
             D == Finalized(s, r)
  <1>1. /\ StateTyped(u) /\ u.sessions = s.sessions /\ u.workers = s.workers
        /\ \A q \in Runs : q \notin Cancelled(s, r) => u.runs[q] = s.runs[q]
        /\ \A q \in Runs : q \in Cancelled(s, r) =>
             u.runs[q].status = IF s.runs[q].cancellationRequested THEN s.runs[q].status
                                ELSE "cancelling"
    BY RequestedDoes
  <1>2. u.released = s.released
    BY LeasesStay
  <1>3. D \subseteq Cancelled(s, r)
    BY DEF Finalized
  <1>4. \A q \in Cancelled(s, r) : q \in Runs /\ s.runs[q].status # "absent"
    BY DEF Cancelled, Children, Alive
  <1> HIDE DEF u, D
  <1>5. \A q \in Runs : u.runs[q].status # "absent" => s.runs[q].status # "absent" \/ q = None
    BY <1>1, <1>4
  <1>6. Rest(u)
    BY <1>1, <1>2, <1>5, RestKept DEF Rest
  <1>7. D \in SUBSET Admitted(u)
    BY <1>1, <1>3, <1>4 DEF Admitted
  <1> QED BY <1>1, <1>6, <1>7, SettleRest DEF u, D, Terminal

-----------------------------------------------------------------------------
(* Every command keeps the types.                                          *)

LEMMA LeaseRest ==
    ASSUME NEW a \in Activations, StateTyped(state), Rest(state), Lease(a)
    PROVE  Rest(state')
  <1>1. state = [f \in Fields |-> state[f]] /\ WorkerOf[a] \in Workers
    BY ConstantFacts DEF StateTyped
  <1>2. ASSUME NEW E \in ExpiredSets(state), Acquire(a, E) PROVE Rest(state')
    <2> DEFINE t == ReleaseExpiredOwners(state, E)
               w == WorkerOf[a]
    <2>1. StateTyped(t) /\ Rest(t)
      BY ReleaseExpiredOwnersDoes, ReleaseExpiredOwnersRest
    <2>2. state' = [t EXCEPT !.workers[w] = a]
      BY <1>2 DEF Acquire
    <2> HIDE DEF t, w
    <2>3. t = [f \in Fields |-> t[f]]
      BY <2>1 DEF StateTyped
    <2>4. /\ state'.workers = [t.workers EXCEPT ![w] = a]
          /\ state'.released = t.released
          /\ state'.runs = t.runs /\ state'.sessions = t.sessions
      BY <2>2, <2>3 DEF Fields
    <2>5. state'.workers \in [Workers -> Activations \cup {None}]
      BY <2>1, <2>4 DEF Rest
    <2> QED BY <2>1, <2>4, <2>5 DEF Rest, Admitted
  <1>3. ASSUME NEW E \in ExpiredSets(state), Reconcile(a, E) PROVE Rest(state')
    BY <1>3, ReleaseExpiredOwnersRest DEF Reconcile
  <1>4. CASE state' = ExpireLease(state, WorkerOf[a])
    <2>1. /\ state'.workers = state.workers
          /\ state'.released = state.released \cup {WorkerOf[a]}
          /\ state'.runs = state.runs /\ state'.sessions = state.sessions
      BY <1>1, <1>4 DEF ExpireLease, Fields
    <2> QED BY <1>1, <2>1 DEF Rest, Admitted
  <1>5. CASE HostFails(a) \/ ReleaseLease(a) \/ Crash(a)
    BY <1>4, <1>5 DEF HostFails, ReleaseLease, Crash
  <1> QED BY <1>2, <1>3, <1>5 DEF Lease

LEMMA ExecutionRest ==
    ASSUME NEW a \in Activations, NEW r \in Runs, StateTyped(state), Rest(state),
           Execution(a, r)
    PROVE  Rest(state')
  <1> DEFINE w == WorkerOf[a]
             claim == fiber[a][r]
  <1>1. w \in Workers
    BY ConstantFacts
  <1> HIDE DEF w, claim
  <1>2. ASSUME NEW E \in ExpiredSets(state), ClaimExecution(a, r, E) PROVE Rest(state')
    BY <1>1, <1>2, ClaimedByRest DEF ClaimExecution, Claimable, w
  <1>3. CASE RespondWithToolCalls(a, r) \/ AppendToolResults(a, r)
    BY <1>3, WithUnansweredRest DEF RespondWithToolCalls, AppendToolResults
  <1>4. ASSUME NEW next, Fenced(a, r, next), StateTyped(next), Rest(next) PROVE Rest(state')
    BY <1>4, RevokeSessionRest DEF Fenced
  <1>5. CASE Suspend(a, r)
    <2>1. PICK W \in SUBSET Tokens(r) :
            /\ Alive(state, r)
            /\ Fenced(a, r, ReconcileChildWait(Parked(state, r, W), SettledBefore(state, W)))
      BY <1>5 DEF Suspend, Steps, Executes
    <2>2. W \in SUBSET Runs
      BY DEF Tokens, Children
    <2> DEFINE parked == Parked(state, r, W)
    <2>3. StateTyped(parked) /\ Rest(parked)
      BY <2>1, <2>2, ParkedDoes, ParkedRest
    <2>4. Fenced(a, r, ReconcileChildWait(parked, SettledBefore(state, W)))
      BY <2>1
    <2> HIDE DEF parked
    <2> QED BY <1>4, <2>3, <2>4, ReconcileChildWaitDoes, ReconcileChildWaitRest
  <1>6. CASE Complete(a, r) \/ Fail(a, r)
    <2>1. PICK status \in {"succeeded", "failed"} : Finish(a, r, status)
      BY <1>6 DEF Complete, Fail
    <2>2. Alive(state, r)
      BY <2>1 DEF Finish, Executes
    <2>3. CASE Fenced(a, r, Disowned(state, r))
      BY <1>4, <2>3, DisownedDoes, DisownedRest
    <2>4. ASSUME NEW outcome \in Terminal, Fenced(a, r, Settle(state, {r}, outcome))
          PROVE  Rest(state')
      <3>1. {r} \in SUBSET Admitted(state)
        BY <2>2 DEF Admitted, Alive
      <3> QED BY <1>4, <2>4, <3>1, SettleRest
    <2> QED BY <2>1, <2>3, <2>4 DEF Finish, Terminal
  <1>7. CASE ReleaseExecution(a, r)
    <2>1. \/ state' = state
          \/ state' = RevokeSession(Disowned(state, r), w, r, claim)
      BY <1>7 DEF ReleaseExecution, Released, w, claim
    <2> QED BY <2>1, DisownedDoes, DisownedRest, RevokeSessionRest
  <1> QED BY <1>2, <1>3, <1>5, <1>6, <1>7 DEF Execution

\* A root that joins, started or not, is the only new Run.
LEMMA JoiningRest ==
    ASSUME NEW r \in Runs, StateTyped(state), Rest(state), NEW promote
    PROVE  StateTyped(JoinsLane(state, r, promote)) /\ Rest(JoinsLane(state, r, promote))
  <1> DEFINE u == Enqueued(state, r)
             X == {SessionOf[r]}
  <1>1. StateTyped(u) /\ Enqueues(state, u, r) /\ u.released = state.released
    BY EnqueuedDoes, LeasesStay
  <1>2. JoinsLane(state, r, promote) \in {u, PromoteHeads(u, X)}
    BY DEF JoinsLane
  <1> HIDE DEF u, X
  <1>3. \A q \in Runs : u.runs[q].status # "absent" => state.runs[q].status # "absent" \/ q = r
    BY <1>1 DEF Enqueues
  <1>4. /\ u.workers = state.workers /\ u.released = state.released
        /\ \A x \in Sessions : u.sessions[x].writerEpoch \in Nat
    BY <1>1 DEF Rest, Enqueues
  <1>5. Rest(u)
    BY <1>3, <1>4, RestKept
  <1> QED BY <1>1, <1>2, <1>5, AfterTerminalRest, PromoteHeadsDoes

LEMMA ClientRest ==
    ASSUME NEW r \in Runs, StateTyped(state), Rest(state), Client(r)
    PROVE  Rest(state')
  <1>1. state = [f \in Fields |-> state[f]]
    BY DEF StateTyped
  <1>2. CASE AdmitSend(r)
    BY <1>2, JoiningRest DEF AdmitSend
  <1>3. CASE AdmitChild(r)
    <2>1. /\ state'.sessions = state.sessions /\ state'.workers = state.workers
          /\ state'.released = state.released
          /\ \A q \in Runs : state'.runs[q].status # "absent" =>
                                state.runs[q].status # "absent" \/ q = r
      BY <1>3, AdmitChildDoes DEF Admits
    <2> QED BY <2>1, RestKept DEF Rest
  <1>4. CASE AdmitStart(r)
    <2>1. PICK kids \in Requests(r), promote \in BOOLEAN :
            state' = WithChildren(RetainHostedLane(JoinsLane(state, r, promote),
                                                   SessionOf[r]), r, kids)
      BY <1>4, AdmitStartSteps
    <2> DEFINE u == JoinsLane(state, r, promote)
               v == RetainHostedLane(u, SessionOf[r])
               Q == Among(kids)
               t == WithChildren(v, r, kids)
    <2>2. StateTyped(u) /\ Rest(u)
      BY JoiningRest
    <2>3. state' = t
      BY <2>1
    <2> HIDE DEF u
    <2>4. /\ StateTyped(v) /\ v.sessions = u.sessions /\ v.runs = u.runs
          /\ v.workers = u.workers /\ v.released = u.released
      BY <2>2, RetainHostedLaneDoes
    <2> HIDE DEF v
    <2>5. Rest(v)
      BY <2>2, <2>4, RestKept DEF Rest
    <2>6. /\ IsFiniteSet(Q) /\ Admits(v, t, Q) /\ t.released = v.released
      BY <2>4, RequestsName, WithChildrenDoes
    <2> HIDE DEF t, Q
    <2>7. /\ t.sessions = v.sessions /\ t.workers = v.workers
          /\ \A q \in Runs : t.runs[q].status # "absent" =>
                                v.runs[q].status # "absent" \/ q \in Q
      BY <2>6 DEF Admits
    <2>8. Rest(t)
      BY <2>5, <2>6, <2>7, RestGrows DEF Rest
    <2> QED BY <2>3, <2>8
  <1>5. CASE Activate(r)
    <2>1. /\ state'.sessions = state.sessions /\ state'.workers = state.workers
          /\ \A q \in Runs \ {r} : state'.runs[q] = state.runs[q]
      BY <1>5, ActivateDoes
    <2>2. state'.released = state.released
      BY <1>1, <1>5 DEF Activate, Fields
    <2>3. \A q \in Runs : state'.runs[q].status # "absent" =>
                            state.runs[q].status # "absent" \/ q = r
      BY <2>1
    <2> QED BY <2>1, <2>2, <2>3, RestKept DEF Rest
  <1>6. CASE Respond(r)
    <2>1. /\ state'.sessions = state.sessions /\ state'.workers = state.workers
          /\ \A q \in Runs \ {r} : state'.runs[q] = state.runs[q]
      BY <1>6, RespondDoes
    <2>2. state'.released = state.released
      BY <1>1, <1>6 DEF Respond, Fields
    <2>3. \A q \in Runs : state'.runs[q].status # "absent" =>
                            state.runs[q].status # "absent" \/ q = r
      BY <2>1
    <2> QED BY <2>1, <2>2, <2>3, RestKept DEF Rest
  <1>7. CASE Cancel(r)
    BY <1>7, CancelRest DEF Cancel
  <1> QED BY <1>2, <1>3, <1>6, <1>7, <1>4, <1>5 DEF Client

\* What the activations know is typed as well.
HostsTyped ==
    /\ host \in [Activations -> Phases]
    /\ fiber \in [Activations -> [Runs -> Claim \cup {None}]]

LEMMA ClaimTyped ==
    ASSUME NEW s, NEW r \in Runs, StateTyped(s), Rest(s)
    PROVE  [attemptFence |-> s.runs[r].attemptFence,
            epoch |-> SessionIn(s, r).writerEpoch,
            pending |-> s.runs[r].openWaits,
            cancelled |-> s.runs[r].cancellationRequested] \in Claim
  <1>1. s.runs[r] \in StoredRun
    BY DEF StateTyped
  <1>2. SessionIn(s, r).writerEpoch \in Nat
    BY ConstantFacts DEF SessionIn, Rest
  <1> QED BY <1>1, <1>2 DEF StoredRun, Claim

LEMMA HostsTypedStep ==
    ASSUME HostsTyped, StateTyped(state), StateTyped(state'), Rest(state'), Next
    PROVE  HostsTyped'
  <1>1. ASSUME NEW a \in Activations, Lease(a) PROVE HostsTyped'
    <2>1. Idle \in [Runs -> Claim \cup {None}]
      BY DEF Idle
    <2>2. /\ fiber' = fiber \/ fiber' = [fiber EXCEPT ![a] = Idle]
          /\ \E phase \in Phases : host' = [host EXCEPT ![a] = phase]
      BY <1>1 DEF Lease, Acquire, Reconcile, HostFails, ReleaseLease, Crash, Phases
    <2> QED BY <2>1, <2>2 DEF HostsTyped
  <1>2. ASSUME NEW a \in Activations, NEW r \in Runs, Execution(a, r) PROVE HostsTyped'
    <2>1. ASSUME NEW E \in ExpiredSets(state), ClaimExecution(a, r, E) PROVE HostsTyped'
      <3> DEFINE claim == [attemptFence |-> state'.runs[r].attemptFence,
                           epoch |-> SessionIn(state', r).writerEpoch,
                           pending |-> state'.runs[r].openWaits,
                           cancelled |-> state'.runs[r].cancellationRequested]
      <3>1. claim \in Claim
        BY ClaimTyped
      <3>2. /\ \/ fiber' = [fiber EXCEPT ![a][r] = IF @ = None THEN claim ELSE @]
               \/ fiber' = fiber
            /\ host' = host \/ host' = [host EXCEPT ![a] = "closing"]
        BY <2>1 DEF ClaimExecution
      <3> HIDE DEF claim
      <3>3. fiber' \in [Activations -> [Runs -> Claim \cup {None}]]
        BY <3>1, <3>2 DEF HostsTyped
      <3>4. host' \in [Activations -> Phases]
        BY <3>2 DEF HostsTyped, Phases
      <3> QED BY <3>3, <3>4 DEF HostsTyped
    <2>2. CASE ReleaseExecution(a, r)
      <3>1. fiber' = [fiber EXCEPT ![a][r] = None] /\ host' = host
        BY <2>2 DEF ReleaseExecution
      <3> QED BY <3>1 DEF HostsTyped
    <2>3. CASE UNCHANGED <<host, fiber>>
      BY <2>3 DEF HostsTyped
    <2> QED BY <1>2, <2>1, <2>2, <2>3
            DEF Execution, RespondWithToolCalls, AppendToolResults, Suspend, Complete, Fail,
                Finish, Fenced
  <1>3. ASSUME NEW r \in Runs, Client(r) PROVE HostsTyped'
    BY <1>3 DEF Client, AdmitSend, AdmitStart, Activate, AdmitChild, Respond, Cancel,
                HostsTyped
  <1> QED BY <1>1, <1>2, <1>3 DEF Next

LEMMA RestInit ==
    Init => Rest(state) /\ HostsTyped
  <1> SUFFICES ASSUME Init PROVE Rest(state) /\ HostsTyped
    OBVIOUS
  <1>1. /\ state.workers = [w \in Workers |-> None] /\ state.released = {}
        /\ \A x \in Sessions : state.sessions[x].writerEpoch = 0
        /\ \A r \in Runs : state.runs[r].status = "absent"
    BY DEF Init, EmptyState
  <1>2. IsFiniteSet(Admitted(state))
    BY <1>1, FS_EmptySet DEF Admitted
  <1>3. HostsTyped
    BY DEF Init, HostsTyped, Idle, Phases
  <1> QED BY <1>1, <1>2, <1>3 DEF Rest

\* The types, from what the arguments above know of the Runs and of the lanes.
LEMMA TypesTogether ==
    OwnInv /\ LaneInv /\ Rest(state) /\ HostsTyped => TypeOK
  <1> SUFFICES ASSUME OwnInv, LaneInv, Rest(state), HostsTyped PROVE TypeOK
    OBVIOUS
  <1>1. StateTyped(state)
    BY DEF OwnInv, Sound
  <1>2. state.lanes \in [Sessions -> Seq(Runs)]
    BY DEF LaneInv, Lined, Lining, Queues
  <1>3. state.sessions \in [Sessions -> RuntimeSession]
    <2>1. ASSUME NEW x \in Sessions PROVE state.sessions[x] \in RuntimeSession
      <3> DEFINE e == state.sessions[x]
      <3>1. SessionTyped(e) /\ e.writerEpoch \in Nat
        BY <1>1 DEF StateTyped, Rest
      <3> HIDE DEF e
      <3>2. e = [writer |-> e.writer, writerEpoch |-> e.writerEpoch,
                 unansweredBy |-> e.unansweredBy]
        BY <3>1 DEF SessionTyped, SessionFields
      <3> QED BY <3>1, <3>2 DEF SessionTyped, RuntimeSession, e
    <2> QED BY <1>1, <2>1 DEF StateTyped
  <1>4. state = [workers |-> state.workers, released |-> state.released, runs |-> state.runs,
                 sessions |-> state.sessions, lanes |-> state.lanes]
    BY <1>1 DEF StateTyped, Fields
  <1>5. state \in RuntimeState
    BY <1>1, <1>2, <1>3, <1>4 DEF RuntimeState, Rest, StateTyped
  <1> QED BY <1>5 DEF TypeOK, HostsTyped

\* The canonical state and the claims of the executions are typed: of the Runs, however
\* many there may be, finitely many have been admitted, so that the epoch of a Session,
\* which a settlement raises by the number of Runs it settles, stays a number.
THEOREM OwnershipTyped ==
    Spec => []TypeOK
  <1> DEFINE I == OwnInv /\ LaneInv /\ Rest(state) /\ HostsTyped
  <1>1. Init => I
    BY OwnInvInit, LaneInvInit, RestInit
  <1>2. I /\ [Next]_vars => I'
    <2> SUFFICES ASSUME I, [Next]_vars PROVE I'
      OBVIOUS
    <2>1. OwnInv' /\ LaneInv'
      BY OwnInvNext, LaneInvNext
    <2>2. StateTyped(state) /\ StateTyped(state')
      BY <2>1 DEF OwnInv, Sound
    <2>3. CASE Next
      <3>1. Rest(state)'
        BY <2>2, <2>3, LeaseRest, ExecutionRest, ClientRest DEF Next
      <3> QED BY <2>1, <2>2, <2>3, <3>1, HostsTypedStep
    <2>4. CASE UNCHANGED vars
      BY <2>1, <2>4 DEF vars, HostsTyped
    <2> QED BY <2>3, <2>4
  <1>3. I => TypeOK
    BY TypesTogether
  <1> QED BY <1>1, <1>2, <1>3, PTL DEF Spec
==============================================================================
