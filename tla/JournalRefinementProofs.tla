---------------------- MODULE JournalRefinementProofs ----------------------
(***************************************************************************)
(* Journal implements CommandLog, for every value of its constants under   *)
(* which a host finds the snapshot it resumes its listing after among the  *)
(* commits it listed.  It does when its host makes one call at a time.     *)
(*                                                                         *)
(* The invariant of JournalProofs says that what a frame holds is          *)
(* history; here it is used to tell which history: the whole of it where   *)
(* the next slot is free, and as much as was listed where a load ends.     *)
(***************************************************************************)
EXTENDS JournalProofs

\* A host makes one call at a time.
OneCallPerHost == \A c, d \in Fibers : HostOf[c] = HostOf[d] => c = d

\* The snapshot after which a load lists snapshots is not beyond the commits it
\* listed.
SeedsListed ==
    \A c \in Fibers : pc[c] = "listSnapshots" => Len(SnapshotSeed(c)) <= latest[c]

-----------------------------------------------------------------------------
(* The invariant.                                                          *)

\* Some record is the newest.
Newest ==
    commits # {} => \E x \in commits : \A y \in commits : Slot(y) <= Slot(x)
\* A PUT that may still arrive carries a command, and the receipt of its slot.
LatePuts ==
    \A p \in lateCommits :
        /\ p.commit.entry.receipt = Slot(p.commit)
        /\ [id |-> p.commit.entry.id, input |-> p.commit.entry.input] \in Commands
\* A load lists at least what its host had verified, starts from no less, and
\* replays no more than it listed.
Listing(c) ==
    /\ pc[c] \in {"listSnapshots", "recover", "replay"} => Len(known[c].log) <= latest[c]
    /\ pc[c] = "recover" =>
         /\ Len(snapshot[c]) <= latest[c]
         /\ snapshot[c] = NoLog => known[c].snapshotKey = NoLog
    /\ pc[c] = "replay" => /\ Len(known[c].log) <= Len(loaded[c].log)
                           /\ Len(loaded[c].log) <= latest[c]
Listings == \A c \in Fibers : Listing(c)
RefInv == TypeInv /\ Safe /\ Newest /\ LatePuts /\ Listings

-----------------------------------------------------------------------------
(* The history.                                                            *)

\* Two prefixes of the history agree as far as the shorter one goes.
LEMMA PrefixesAgree ==
    ASSUME StoreSafe, NEW l \in Log, NEW m \in Log,
           PrefixOf(commits, l), PrefixOf(commits, m), Len(l) <= Len(m)
    PROVE  /\ \A k \in DOMAIN l : k \in DOMAIN m /\ l[k] = m[k]
           /\ Len(l) = Len(m) => l = m
<1>1. ASSUME NEW k \in DOMAIN l PROVE k \in DOMAIN m /\ l[k] = m[k]
  <2>1. k \in DOMAIN m
    BY DEF Log
  <2>2. PICK x \in commits : Slot(x) = k /\ x.entry = l[k]
    BY DEF PrefixOf
  <2>3. PICK y \in commits : Slot(y) = k /\ y.entry = m[k]
    BY <2>1 DEF PrefixOf
  <2> QED
    BY <2>1, <2>2, <2>3 DEF StoreSafe
<1>2. ASSUME Len(l) = Len(m) PROVE l = m
  BY <1>1, <1>2 DEF Log
<1> QED
  BY <1>1, <1>2

\* A prefix of the history ends with the record of its last slot.
LEMMA PrefixIsDigest ==
    ASSUME StoreSafe, commits \subseteq Commit, NEW l \in Log, l # NoLog,
           PrefixOf(commits, l)
    PROVE  \E x \in commits : Slot(x) = Len(l) /\ Digest(x) = l
<1>1. Len(l) \in DOMAIN l
  BY DEF Log, NoLog
<1>2. PICK x \in commits : Slot(x) = Len(l)
  BY <1>1 DEF PrefixOf
<1>3. PrefixOf(commits, Digest(x))
  BY DigestIsPrefix DEF StoreSafe, Sound
<1>4. Digest(x) \in Log /\ Len(Digest(x)) = Len(l)
  BY <1>2, DigestIsLog
<1>5. Len(Digest(x)) <= Len(l)
  BY <1>4 DEF Log
<1>6. Digest(x) = l
  BY <1>3, <1>4, <1>5, PrefixesAgree
<1> QED
  BY <1>2, <1>6

\* Every slot up to that of a record is written.
LEMMA SlotsAreContiguous ==
    ASSUME StoreSafe, commits \subseteq Commit, NEW x \in commits,
           NEW n \in Nat \ {0}, n <= Slot(x)
    PROVE  \E y \in commits : Slot(y) = n
<1>1. x.parent \in Log /\ Slot(x) = Len(x.parent) + 1 /\ PrefixOf(commits, x.parent)
  BY DEF Commit, Slot, StoreSafe, Sound
<1>2. CASE n = Slot(x)
  BY <1>2
<1>3. CASE n # Slot(x)
  <2>1. n \in DOMAIN x.parent
    BY <1>1, <1>3 DEF Log
  <2> QED
    BY <1>1, <2>1 DEF PrefixOf
<1> QED
  BY <1>2, <1>3

\* The history is the longest log that is a prefix of it.
LEMMA HistoryIsLongest ==
    ASSUME StoreSafe, commits \subseteq Commit, Newest
    PROVE  /\ History \in Log
           /\ PrefixOf(commits, History)
           /\ \A x \in commits : Slot(x) <= Len(History)
           /\ \A l \in Log : PrefixOf(commits, l) =>
                /\ Len(l) <= Len(History)
                /\ \A k \in DOMAIN l : k \in DOMAIN History /\ History[k] = l[k]
<1>1. CASE commits = {}
  <2>1. History = NoLog /\ NoLog \in Log
    BY <1>1, EmptyIsLoaded DEF History
  <2>2. ASSUME NEW l \in Log, PrefixOf(commits, l) PROVE DOMAIN l = {} /\ Len(l) = 0
    <3>1. DOMAIN l = {}
      BY <1>1, <2>2 DEF PrefixOf
    <3> QED
      BY <3>1 DEF Log
  <2>3. Len(NoLog) = 0 /\ PrefixOf(commits, NoLog)
    BY DEF NoLog, PrefixOf
  <2>4. \A l \in Log : PrefixOf(commits, l) =>
                /\ Len(l) <= Len(History)
                /\ \A k \in DOMAIN l : k \in DOMAIN History /\ History[k] = l[k]
    BY <2>1, <2>2, <2>3
  <2> QED
    BY <1>1, <2>1, <2>3, <2>4
<1>2. CASE commits # {}
  <2> DEFINE z == CHOOSE x \in commits : \A y \in commits : Slot(y) <= Slot(x)
  <2>1. z \in commits /\ \A y \in commits : Slot(y) <= Slot(z)
    BY <1>2 DEF Newest
  <2>2. History = Digest(z)
    BY <1>2 DEF History
  <2> HIDE DEF z
  <2>3. History \in Log /\ Len(History) = Slot(z)
    BY <2>1, <2>2, DigestIsLog
  <2>4. PrefixOf(commits, History)
    BY <2>1, <2>2, DigestIsPrefix DEF StoreSafe, Sound
  <2>5. ASSUME NEW l \in Log, PrefixOf(commits, l)
        PROVE  /\ Len(l) <= Len(History)
               /\ \A k \in DOMAIN l : k \in DOMAIN History /\ History[k] = l[k]
    <3>1. Len(l) <= Len(History)
      <4>1. CASE l = NoLog
        BY <4>1, <2>3 DEF NoLog, Log
      <4>2. CASE l # NoLog
        BY <4>2, <2>1, <2>3, <2>5, PrefixIsDigest
      <4> QED
        BY <4>1, <4>2
    <3> QED
      BY <2>3, <2>4, <2>5, <3>1, PrefixesAgree
  <2> QED
    BY <2>1, <2>3, <2>4, <2>5
<1> QED
  BY <1>1, <1>2

\* Who finds the next slot free has loaded the whole history.
LEMMA FreeSlotIsNext ==
    ASSUME StoreSafe, commits \subseteq Commit, Newest, NEW x \in Commit,
           PrefixOf(commits, x.parent), SlotFree(Slot(x))
    PROVE  x.parent = History
<1>1. /\ x.parent \in Log /\ Slot(x) = Len(x.parent) + 1
      /\ History \in Log /\ PrefixOf(commits, History)
  BY HistoryIsLongest DEF Commit, Slot
<1>2. Len(History) <= Len(x.parent)
  <2> SUFFICES ASSUME ~(Len(History) <= Len(x.parent)) PROVE FALSE
    OBVIOUS
  <2>1. Slot(x) \in DOMAIN History
    BY <1>1 DEF Log
  <2> QED
    BY <1>1, <2>1 DEF PrefixOf, SlotFree
<1>3. Len(x.parent) <= Len(History)
  BY <1>1, HistoryIsLongest
<1>4. Len(x.parent) = Len(History)
  BY <1>1, <1>2, <1>3 DEF Log
<1> QED
  BY <1>1, <1>3, <1>4, PrefixesAgree

\* The history with the record that takes the next slot.
LEMMA HistoryGrows ==
    ASSUME StoreSafe, commits \subseteq Commit, Newest, NEW x \in Commit,
           PrefixOf(commits, x.parent), SlotFree(Slot(x)), commits' = commits \cup {x}
    PROVE  Newest' /\ History' = Append(History, x.entry)
<1>1. x.parent = History /\ Slot(x) = Len(History) + 1 /\ Len(History) \in Nat
  BY FreeSlotIsNext, HistoryIsLongest DEF Slot, Log
<1>2. \A y \in commits : Slot(y) \in Nat /\ Slot(y) <= Len(History)
  BY HistoryIsLongest, DigestIsLog
<1>3. \A y \in commits' : Slot(y) <= Slot(x)
  BY <1>1, <1>2
<1>4. Newest'
  BY <1>3 DEF Newest
<1> DEFINE z == CHOOSE w \in commits' : \A y \in commits' : Slot(y) <= Slot(w)
<1>5. z \in commits' /\ Slot(x) <= Slot(z)
  BY <1>3
<1>6. History' = Digest(z)
  BY <1>5 DEF History
<1> HIDE DEF z
<1>7. z = x
  BY <1>1, <1>2, <1>5
<1> QED
  BY <1>1, <1>4, <1>6, <1>7 DEF Digest

-----------------------------------------------------------------------------
(* What callers see of a step.                                             *)

\* What CommandLog calls seen.
SeenBy == [c \in Fibers |-> Seen(c)]
\* What callers see: who waits for an answer, what was called, seen and answered.
Calls == <<Calling, command, SeenBy, result>>

\* A step of c leaves the frames of the others alone.
OthersStay(c) ==
    \A i \in Fibers \ {c} :
        pc'[i] = pc[i] /\ latest'[i] = latest[i] /\ loaded'[i] = loaded[i]

LEMMA SeenMoves ==
    ASSUME NEW c \in Fibers, OthersStay(c)
    PROVE  SeenBy' = [SeenBy EXCEPT ![c] = Seen(c)']
<1>1. ASSUME NEW i \in Fibers \ {c} PROVE Seen(i)' = Seen(i)
  BY DEF OthersStay, Seen
<1> QED
  BY <1>1 DEF SeenBy

LEMMA CallsStay ==
    ASSUME UNCHANGED <<pc, command, result, latest, loaded>>
    PROVE  Calls' = Calls
BY DEF Calls, Calling, SeenBy, Seen

LEMMA HistoryStays == UNCHANGED commits => History' = History
BY DEF History
LEMMA UnresolvedStays == UNCHANGED <<commits, lateCommits>> => Unresolved' = Unresolved
BY DEF Unresolved, SlotFree

\* Nothing that callers see changes.
LEMMA Stutters ==
    ASSUME History' = History, Unresolved' = Unresolved, Calls' = Calls
    PROVE  UNCHANGED Abstract!vars
BY DEF Abstract!vars, Abstract!calls, Calls, SeenBy

\* A call goes on: it looks at the history, forgets what it saw, or neither.
LEMMA Looks ==
    ASSUME NEW c \in Fibers, OthersStay(c), pc[c] # "idle", pc'[c] # "idle",
           UNCHANGED <<commits, lateCommits, command, result>>,
           Seen(c)' \in {Seen(c), {}, {Len(History)}}
    PROVE  [Abstract!Next]_Abstract!vars
<1>1. History' = History /\ Unresolved' = Unresolved
  BY HistoryStays, UnresolvedStays
<1>2. SeenBy' = [SeenBy EXCEPT ![c] = Seen(c)']
  BY SeenMoves
<1>3. Calling' = Calling /\ c \in Calling
  BY DEF OthersStay, Calling
<1>4. CASE Seen(c)' = Seen(c)
  <2>1. Calls' = Calls
    BY <1>2, <1>3, <1>4 DEF Calls, SeenBy
  <2> QED
    BY <1>1, <2>1, Stutters
<1>5. CASE Seen(c)' = {}
  <2>1. Abstract!Forget(c)
    BY <1>1, <1>2, <1>3, <1>5 DEF Abstract!Forget, Abstract!Look, SeenBy
  <2> QED
    BY <2>1 DEF Abstract!Next
<1>6. CASE Seen(c)' = {Len(History)}
  <2>1. Abstract!Observe(c)
    BY <1>1, <1>2, <1>3, <1>6 DEF Abstract!Observe, Abstract!Look, SeenBy
  <2> QED
    BY <2>1 DEF Abstract!Next
<1> QED
  BY <1>4, <1>5, <1>6

\* A call that returns finishes.
LEMMA Finishes ==
    ASSUME FrameTypes, NEW c \in Fibers, pc[c] # "idle", NEW o, NEW r, Return(c, o, r),
           History' = History, Unresolved' = Unresolved
    PROVE  Abstract!Finish(c, o, r)
<1>1. OthersStay(c) /\ pc'[c] = "idle"
  BY DEF Return, Go, EndLoad, FrameTypes, OthersStay
<1>2. UNCHANGED command /\ result' = [result EXCEPT ![c] = [outcome |-> o, receipt |-> r]]
  BY DEF Return
<1>3. SeenBy' = [SeenBy EXCEPT ![c] = {}]
  BY <1>1, SeenMoves DEF Seen
<1>4. c \in Calling /\ Calling' = Calling \ {c}
  BY <1>1 DEF OthersStay, Calling
<1> QED
  BY <1>2, <1>3, <1>4 DEF Abstract!Finish, SeenBy

\* A call may fail in any way but by what it takes for corruption.
LEMMA FailureIsAllowed ==
    ASSUME FrameTypes, NEW c \in Fibers, pc[c] # "idle",
           NEW o \in {"limit", "transport", "indeterminate", "contention", "rejected"},
           Return(c, o, 0), History' = History, Unresolved' = Unresolved
    PROVE  [Abstract!Next]_Abstract!vars
<1>1. Abstract!Finish(c, o, 0)
  BY Finishes
<1> QED
  BY <1>1 DEF Abstract!Fail, Abstract!Next

\* A command is answered with what the history says of it.
LEMMA AnswerIsAllowed ==
    ASSUME FrameTypes, NEW c \in Fibers, pc[c] # "idle", command[c] \in Commands,
           NEW k \in DOMAIN History, History[k].id = command[c].id,
           NEW r, r = History[k].receipt,
           \/ History[k].input = command[c].input /\ Return(c, "committed", r)
           \/ History[k].input # command[c].input /\ Return(c, "input-conflict", 0),
           History' = History, Unresolved' = Unresolved
    PROVE  [Abstract!Next]_Abstract!vars
<1>1. CASE History[k].input = command[c].input
  <2>1. Return(c, "committed", r)
    BY <1>1
  <2>2. Abstract!Finish(c, "committed", r)
    BY <2>1, Finishes
  <2>3. Abstract!AnswerCommand(c)
    BY <1>1, <2>2 DEF Abstract!AnswerCommand, Abstract!Finish
  <2> QED
    BY <2>3 DEF Abstract!Next
<1>2. CASE History[k].input # command[c].input
  <2>1. Return(c, "input-conflict", 0)
    BY <1>2
  <2>2. Abstract!Finish(c, "input-conflict", 0)
    BY <2>1, Finishes
  <2>3. Abstract!AnswerCommand(c)
    BY <1>2, <2>2 DEF Abstract!AnswerCommand
  <2> QED
    BY <2>3 DEF Abstract!Next
<1> QED
  BY <1>1, <1>2

-----------------------------------------------------------------------------
(* Every step is one of CommandLog, or none.                               *)

\* The parts of the invariant that the steps use.
LEMMA Ready ==
    ASSUME RefInv
    PROVE  /\ StoreTypes /\ Frames /\ FrameTypes /\ commits \subseteq Commit
           /\ StoreSafe /\ Newest /\ LatePuts
           /\ \A c \in Fibers : FrameSafe(c) /\ Listing(c)
BY TypeParts DEF RefInv, Safe, FramesSafe, Listings, Frames, StoreTypes

\* A call that goes on with its load shows what it listed, and nothing else.
LEMMA LoadGoesOn ==
    ASSUME FrameTypes, NEW c \in Fibers,
           pc[c] \in {"listSnapshots", "recover", "replay"},
           pc'[c] \in {"listSnapshots", "recover", "replay"},
           OthersStay(c), UNCHANGED <<commits, lateCommits, command, latest, result>>
    PROVE  [Abstract!Next]_Abstract!vars
<1>1. pc[c] # "idle" /\ pc'[c] # "idle" /\ Seen(c)' = Seen(c)
  BY DEF Seen
<1> QED
  BY <1>1, Looks

LEMMA CallRefines ==
    ASSUME RefInv, NEW c \in Fibers, NEW d \in Commands \cup {ReadHead}, Call(c, d)
    PROVE  [Abstract!Next]_Abstract!vars
<1>1. FrameTypes
  BY Ready
<1>2. /\ pc[c] = "idle" /\ pc' = [pc EXCEPT ![c] = "list"]
      /\ command' = [command EXCEPT ![c] = d] /\ result' = [result EXCEPT ![c] = NoResult]
      /\ UNCHANGED <<commits, lateCommits, latest, loaded>>
  BY DEF Call, BeginLoad, Go, storeVars
<1>3. pc'[c] = "list" /\ OthersStay(c)
  BY <1>1, <1>2 DEF OthersStay, FrameTypes
<1>4. Seen(c)' = {} /\ Seen(c) = {}
  BY <1>2, <1>3 DEF Seen
<1>5. SeenBy' = SeenBy
  BY <1>3, <1>4, SeenMoves DEF SeenBy
<1>6. c \notin Calling /\ Calling' = Calling \cup {c}
  BY <1>2, <1>3 DEF OthersStay, Calling
<1>7. History' = History /\ Unresolved' = Unresolved
  BY <1>2, HistoryStays, UnresolvedStays
<1>8. Abstract!Invoke(c, d)
  BY <1>2, <1>5, <1>6, <1>7
  DEF Abstract!Invoke, Abstract!NoResult, NoResult, SeenBy
<1> QED
  BY <1>8 DEF Abstract!Next

\* A listing is contiguous, and ends where the history does.
LEMMA ListingIsWhole ==
    ASSUME RefInv, NEW c \in Fibers, NEW last,
           LET from   == Len(known[c].log)
               listed == {n \in {Slot(x) : x \in commits} : n > from}
           IN  last \in listed \cup {from} /\ \A n \in listed : n <= last
    PROVE  /\ last = Len(History)
           /\ {n \in {Slot(x) : x \in commits} : n > Len(known[c].log)}
                = Len(known[c].log) + 1 .. last
<1> DEFINE from == Len(known[c].log)
           listed == {n \in {Slot(x) : x \in commits} : n > from}
<1>1. StoreSafe /\ commits \subseteq Commit /\ Newest
  BY Ready
<1>2. /\ known[c].log \in Log /\ PrefixOf(commits, known[c].log) /\ from \in Nat
  BY Ready, FrameFacts DEF FrameSafe, Clean
<1>3. \A x \in commits : Slot(x) \in Nat \ {0} /\ Slot(x) <= Len(History)
  BY <1>1, DigestIsLog, HistoryIsLongest
<1>4. from <= Len(History) /\ Len(History) \in Nat /\ PrefixOf(commits, History)
  BY <1>1, <1>2, HistoryIsLongest DEF Log
<1>5. last \in Nat /\ from <= last /\ last <= Len(History)
  BY <1>2, <1>3, <1>4
<1>6. Len(History) <= last
  <2> SUFFICES ASSUME last < Len(History) PROVE FALSE
    BY <1>4, <1>5
  <2>1. Len(History) \in DOMAIN History
    BY <1>1, <1>4, <1>5, HistoryIsLongest DEF Log
  <2>2. PICK x \in commits : Slot(x) = Len(History)
    BY <1>4, <2>1 DEF PrefixOf
  <2>3. Slot(x) \in listed
    BY <1>2, <1>5, <2>2
  <2> QED
    BY <1>5, <2>2, <2>3
<1>7. last = Len(History)
  BY <1>4, <1>5, <1>6
<1>8. ASSUME NEW n \in from + 1 .. last PROVE n \in listed
  <2>1. n \in DOMAIN History
    BY <1>1, <1>2, <1>7, <1>8, HistoryIsLongest DEF Log
  <2>2. PICK x \in commits : Slot(x) = n
    BY <1>4, <2>1 DEF PrefixOf
  <2> QED
    BY <1>2, <1>8, <2>2
<1>9. ASSUME NEW n \in listed PROVE n \in from + 1 .. last
  BY <1>2, <1>3, <1>7, <1>9
<1> QED
  BY <1>7, <1>8, <1>9

LEMMA ListCommitsRefines ==
    ASSUME RefInv, NEW c \in Fibers, ListCommits(c)
    PROVE  /\ [Abstract!Next]_Abstract!vars
           /\ pc' = [pc EXCEPT ![c] = "listSnapshots"]
           /\ latest' = [latest EXCEPT ![c] = Len(History)]
           /\ UNCHANGED <<commits, lateCommits, snapshots, verifiedSnapshot,
                          known, snapshot, loaded>>
<1> DEFINE from == Len(known[c].log)
           listed == {n \in {Slot(x) : x \in commits} : n > from}
<1>1. FrameTypes
  BY Ready
<1>2. PICK last \in listed \cup {from} :
         /\ \A n \in listed : n <= last
         /\ IF listed = from + 1 .. last
            THEN /\ Go(c, "listSnapshots")
                 /\ latest' = [latest EXCEPT ![c] = last]
                 /\ UNCHANGED <<command, known, snapshot, loaded, conflicts, result>>
            ELSE Return(c, "corruption", 0)
  BY DEF ListCommits
<1>3. last = Len(History) /\ listed = from + 1 .. last
  BY <1>2, ListingIsWhole
<1>4. /\ Go(c, "listSnapshots") /\ latest' = [latest EXCEPT ![c] = Len(History)]
      /\ UNCHANGED <<command, known, snapshot, loaded, conflicts, result>>
  BY <1>2, <1>3
<1>5. UNCHANGED <<commits, lateCommits, snapshots, verifiedSnapshot>> /\ pc[c] = "list"
  BY DEF ListCommits, storeVars, hostVars
<1>6. OthersStay(c) /\ pc'[c] = "listSnapshots" /\ latest'[c] = Len(History)
  BY <1>1, <1>4 DEF OthersStay, Go, FrameTypes
<1>7. Seen(c)' = {Len(History)}
  BY <1>6 DEF Seen
<1>8. [Abstract!Next]_Abstract!vars
  BY <1>4, <1>5, <1>6, <1>7, Looks
<1> QED
  BY <1>4, <1>5, <1>8 DEF Go

LEMMA StoreFailsRefines ==
    ASSUME RefInv, NEW c \in Fibers, StoreFails(c)
    PROVE  [Abstract!Next]_Abstract!vars
<1>1. pc[c] # "idle" /\ Return(c, "transport", 0) /\ UNCHANGED <<commits, lateCommits>>
  BY DEF StoreFails, storeVars
<1> QED
  BY <1>1, Ready, FailureIsAllowed, HistoryStays, UnresolvedStays

\* Two snapshots of one length are the same snapshot.
LEMMA ListSnapshotsRefines ==
    ASSUME RefInv, NEW c \in Fibers, ListSnapshots(c)
    PROVE  /\ [Abstract!Next]_Abstract!vars
           /\ Go(c, "recover")
           /\ \E s \in Log : /\ snapshot' = [snapshot EXCEPT ![c] = s]
                             /\ IF SnapshotCandidates(c) = {} THEN s = NoLog
                                ELSE s \in SnapshotCandidates(c)
           /\ UNCHANGED <<known, latest, loaded>>
<1> DEFINE found == SnapshotCandidates(c)
<1>1. /\ pc[c] = "listSnapshots" /\ FrameTypes /\ StoreTypes /\ StoreSafe
      /\ TypeInv /\ Safe
      /\ UNCHANGED <<commits, lateCommits>>
  BY Ready DEF ListSnapshots, storeVars, RefInv
<1>2. found \subseteq Log /\ \A s \in found : PrefixOf(commits, s)
  BY <1>1, CandidatesPublished DEF StoreTypes, StoreSafe
<1>3. \A s, t \in found : Len(s) = Len(t) => s = t
  <2> HIDE DEF found
  <2> SUFFICES ASSUME NEW s \in found, NEW t \in found, Len(s) = Len(t) PROVE s = t
    OBVIOUS
  <2>1. Len(s) \in Nat
    BY <1>2 DEF Log
  <2> QED
    BY <1>1, <1>2, <2>1, PrefixesAgree
<1>4. PICK s \in Log :
         /\ IF found = {} THEN s = NoLog ELSE s \in found
         /\ Go(c, "recover") /\ snapshot' = [snapshot EXCEPT ![c] = s]
         /\ UNCHANGED <<command, known, latest, loaded, conflicts, result>>
  BY <1>2, <1>3, EmptyIsLoaded DEF ListSnapshots
<1> HIDE DEF found
<1>5. OthersStay(c) /\ pc'[c] = "recover"
  BY <1>1, <1>4 DEF OthersStay, Go, FrameTypes
<1>6. [Abstract!Next]_Abstract!vars
  BY <1>1, <1>4, <1>5, LoadGoesOn
<1> QED
  BY <1>4, <1>6 DEF found

\* What a load finds, and what its host had verified, is a digest of the history.
LEMMA RecoverRefines ==
    ASSUME RefInv, NEW c \in Fibers, Recover(c)
    PROVE  /\ [Abstract!Next]_Abstract!vars
           /\ Go(c, "replay")
           /\ loaded' = [loaded EXCEPT ![c] = IF ReusesVerified(c) THEN known[c]
                                              ELSE SnapshotBase(c)]
           /\ UNCHANGED <<known, latest, snapshot>>
<1>1. /\ pc[c] = "recover" /\ FrameTypes /\ StoreTypes /\ StoreSafe /\ commits \subseteq Commit
      /\ FrameSafe(c) /\ Listing(c)
      /\ UNCHANGED <<commits, lateCommits>>
  BY Ready DEF Recover, storeVars
<1>2. /\ known[c].log \in Log /\ PrefixOf(commits, known[c].log)
      /\ Len(known[c].log) \in Nat /\ latest[c] \in Nat
      /\ Len(known[c].log) <= latest[c]
  BY <1>1, Ready, FrameFacts DEF FrameSafe, Clean, Listing
<1>3. known[c].log # NoLog => IsDigest(known[c].log)
  BY <1>1, <1>2, PrefixIsDigest DEF IsDigest
<1>4. ReadsSnapshot(c) => IsDigest(snapshot[c])
  <2> SUFFICES ASSUME ReadsSnapshot(c) PROVE IsDigest(snapshot[c])
    OBVIOUS
  <2>1. snapshot[c] # NoLog
    BY DEF ReadsSnapshot
  <2>2. snapshot[c] \in Log /\ PrefixOf(commits, snapshot[c])
    BY <1>1, <2>1 DEF FrameSafe, StoreTypes, StoreSafe
  <2> QED
    BY <1>1, <2>1, <2>2, PrefixIsDigest DEF IsDigest
<1>5. /\ Go(c, "replay")
      /\ loaded' = [loaded EXCEPT ![c] = IF ReusesVerified(c) THEN known[c]
                                         ELSE SnapshotBase(c)]
      /\ UNCHANGED <<command, known, latest, snapshot, conflicts, result>>
  BY <1>2, <1>3, <1>4 DEF Recover, loadVars
<1>6. OthersStay(c) /\ pc'[c] = "replay"
  BY <1>1, <1>5 DEF OthersStay, Go, FrameTypes
<1>7. [Abstract!Next]_Abstract!vars
  BY <1>1, <1>5, <1>6, LoadGoesOn
<1> QED
  BY <1>5, <1>7

\* A record read next extends what was loaded.
LEMMA NextExtends ==
    ASSUME RefInv, NEW c \in Fibers, NEW x \in commits,
           Slot(x) = Len(loaded[c].log) + 1
    PROVE  Extends(x, loaded[c])
<1>1. /\ StoreSafe /\ commits \subseteq Commit /\ FrameSafe(c)
      /\ loaded[c].log \in Log /\ PrefixOf(commits, loaded[c].log)
  BY Ready, FrameFacts DEF FrameSafe, Clean
<1>2. x.parent \in Log /\ PrefixOf(commits, x.parent) /\ Slot(x) = Len(x.parent) + 1 /\ Fresh(x)
  BY <1>1 DEF Commit, Slot, StoreSafe, Sound
<1>3. Len(x.parent) \in Nat /\ Len(loaded[c].log) \in Nat
  BY <1>1, <1>2 DEF Log
<1>4. Len(x.parent) = Len(loaded[c].log) /\ Len(x.parent) <= Len(loaded[c].log)
  BY <1>2, <1>3
<1>5. x.parent = loaded[c].log
  BY <1>1, <1>2, <1>4, PrefixesAgree
<1> QED
  BY <1>2, <1>5 DEF Extends, Fresh

LEMMA ReplayNextRefines ==
    ASSUME RefInv, NEW c \in Fibers, ReplayNext(c)
    PROVE  /\ [Abstract!Next]_Abstract!vars
           /\ \/ Return(c, "limit", 0)
              \/ \E x \in commits :
                   /\ loaded' = [loaded EXCEPT ![c] = Advance(loaded[c], x)]
                   /\ Slot(x) = Len(loaded[c].log) + 1
                   /\ Slot(x) <= latest[c]
                   /\ UNCHANGED <<pc, known, latest, snapshot>>
<1>1. /\ pc[c] = "replay" /\ FrameTypes /\ Listing(c)
      /\ UNCHANGED <<commits, lateCommits>>
  BY Ready DEF ReplayNext, Replaying, storeVars
<1>2. NextListed(c) = Len(loaded[c].log) + 1 /\ NextListed(c) <= latest[c]
  BY <1>1 DEF Listing, NextListed, ReplayNext, Replaying
<1>3. CASE Return(c, "limit", 0)
  <2>1. [Abstract!Next]_Abstract!vars
    BY <1>1, <1>3, FailureIsAllowed, HistoryStays, UnresolvedStays
  <2> QED
    BY <1>3, <2>1
<1>4. CASE ~Return(c, "limit", 0)
  <2>1. PICK x \in commits :
           /\ Slot(x) = NextListed(c)
           /\ IF ExceedsReplayBytes(c, x) THEN Return(c, "limit", 0)
              ELSE IF ~Extends(x, loaded[c]) THEN Return(c, "corruption", 0)
              ELSE /\ loaded' = [loaded EXCEPT ![c] = Advance(loaded[c], x)]
                   /\ UNCHANGED <<pc, command, loadVars, conflicts, result>>
    BY <1>4 DEF ReplayNext
  <2>2. Extends(x, loaded[c])
    BY <1>2, <2>1, NextExtends
  <2>3. /\ loaded' = [loaded EXCEPT ![c] = Advance(loaded[c], x)]
        /\ UNCHANGED <<pc, command, known, latest, snapshot, conflicts, result>>
    BY <1>4, <2>1, <2>2 DEF loadVars
  <2>4. OthersStay(c)
    BY <1>1, <2>3 DEF OthersStay, FrameTypes
  <2>5. [Abstract!Next]_Abstract!vars
    BY <1>1, <2>3, <2>4, LoadGoesOn
  <2> QED
    BY <1>2, <2>1, <2>3, <2>5
<1> QED
  BY <1>3, <1>4

\* A load that ends has loaded what it listed.
LEMMA FinishLoadRefines ==
    ASSUME RefInv, NEW c \in Fibers, FinishLoad(c)
    PROVE  [Abstract!Next]_Abstract!vars
<1>1. /\ pc[c] = "replay" /\ ~Replaying(c) /\ FrameTypes /\ Listing(c)
      /\ Go(c, "loaded") /\ EndLoad(c)
      /\ UNCHANGED <<commits, lateCommits, command, loaded, result>>
  BY Ready DEF FinishLoad, storeVars
<1>2. Len(loaded[c].log) = latest[c]
  <2>1. /\ Len(loaded[c].log) \in Nat /\ latest[c] \in Nat /\ Len(known[c].log) \in Nat
    BY Ready, FrameFacts
  <2> QED
    BY <1>1, <2>1 DEF Listing, Replaying, NextListed
<1>3. OthersStay(c) /\ pc'[c] = "loaded"
  BY <1>1 DEF OthersStay, Go, EndLoad, FrameTypes
<1>4. Seen(c) = {latest[c]}
  BY <1>1 DEF Seen
<1>5. Seen(c)' = {Len(loaded[c].log)}
  BY <1>1, <1>3 DEF Seen
<1> QED
  BY <1>1, <1>2, <1>3, <1>4, <1>5, Looks

-----------------------------------------------------------------------------
(* Answers, and the steps of a commit.                                     *)

\* A record of the store is in the history, at its slot.
LEMMA RecordsAreHistory ==
    ASSUME RefInv, NEW x \in commits
    PROVE  Slot(x) \in DOMAIN History /\ History[Slot(x)] = x.entry
<1>1. StoreSafe /\ commits \subseteq Commit /\ Newest
  BY Ready
<1>2. Digest(x) \in Log /\ Len(Digest(x)) = Slot(x) /\ Slot(x) \in Nat \ {0}
      /\ Digest(x)[Slot(x)] = x.entry
  BY <1>1, DigestIsLog
<1>3. PrefixOf(commits, Digest(x))
  BY <1>1, DigestIsPrefix DEF StoreSafe, Sound
<1>4. Slot(x) \in DOMAIN Digest(x)
  BY <1>2 DEF Log
<1> QED
  BY <1>1, <1>2, <1>3, <1>4, HistoryIsLongest

\* So are the entries of a loaded head.
LEMMA LoadedIsHistory ==
    ASSUME RefInv, NEW c \in Fibers, NEW k \in DOMAIN loaded[c].log
    PROVE  k \in DOMAIN History /\ History[k] = loaded[c].log[k]
<1>1. /\ StoreSafe /\ commits \subseteq Commit /\ Newest
      /\ loaded[c].log \in Log /\ PrefixOf(commits, loaded[c].log)
  BY Ready, FrameFacts DEF FrameSafe, Clean
<1> QED
  BY <1>1, HistoryIsLongest

LEMMA ReturnHeadRefines ==
    ASSUME RefInv, NEW c \in Fibers, ReturnHead(c)
    PROVE  [Abstract!Next]_Abstract!vars
<1>1. FrameTypes /\ pc[c] = "loaded" /\ command[c] = ReadHead /\ UNCHANGED <<commits, lateCommits>>
  BY Ready DEF ReturnHead, storeVars
<1>2. PICK r : r = Len(loaded[c].log)
  OBVIOUS
<1>3. Return(c, "read", r)
  BY <1>2 DEF ReturnHead
<1>4. Abstract!Finish(c, "read", r)
  BY <1>1, <1>3, Finishes, HistoryStays, UnresolvedStays
<1>5. r \in SeenBy[c]
  BY <1>1, <1>2 DEF SeenBy, Seen
<1>6. Abstract!AnswerRead(c)
  BY <1>1, <1>4, <1>5 DEF Abstract!AnswerRead, SeenBy
<1> QED
  BY <1>6 DEF Abstract!Next

LEMMA ReturnReceiptRefines ==
    ASSUME RefInv, NEW c \in Fibers, ReturnReceipt(c)
    PROVE  [Abstract!Next]_Abstract!vars
<1>1. /\ FrameTypes /\ pc[c] = "loaded" /\ command[c] \in Commands
      /\ loaded[c] \in Loaded /\ HasReceipt(loaded[c], command[c].id)
      /\ UNCHANGED <<commits, lateCommits>>
  BY Ready, FrameFacts DEF ReturnReceipt, storeVars, Mine
<1>2. command[c].id \in Ids
  BY <1>1, ConstantsAssumption
<1>3. PICK k \in DOMAIN loaded[c].log :
         ReceiptOf(loaded[c], command[c].id) = loaded[c].log[k]
         /\ loaded[c].log[k].id = command[c].id
  BY <1>1, <1>2, ReceiptOfIsEntry
<1>4. k \in DOMAIN History /\ History[k] = loaded[c].log[k]
  BY LoadedIsHistory
<1>5. PICK r : r = History[k].receipt
  OBVIOUS
<1>6. \/ History[k].input = command[c].input /\ Return(c, "committed", r)
      \/ History[k].input # command[c].input /\ Return(c, "input-conflict", 0)
  BY <1>3, <1>4, <1>5 DEF ReturnReceipt, Answer, Mine
<1> QED
  BY <1>1, <1>3, <1>4, <1>5, <1>6, AnswerIsAllowed, HistoryStays, UnresolvedStays

LEMMA PrepareRefines ==
    ASSUME RefInv, NEW c \in Fibers, Prepare(c)
    PROVE  [Abstract!Next]_Abstract!vars
<1>1. FrameTypes /\ pc[c] = "loaded" /\ Go(c, "prepared")
      /\ UNCHANGED <<commits, lateCommits, command, latest, loaded, result>>
  BY Ready DEF Prepare, loadVars
<1>2. OthersStay(c) /\ pc'[c] = "prepared"
  BY <1>1 DEF OthersStay, Go, FrameTypes
<1>3. Seen(c)' = {}
  BY <1>2 DEF Seen
<1> QED
  BY <1>1, <1>2, <1>3, Looks

\* Snapshots are not seen by callers.
LEMMA PublishBoundaryRefines ==
    ASSUME RefInv, NEW c \in Fibers, PublishBoundary(c)
    PROVE  [Abstract!Next]_Abstract!vars
<1>1. FrameTypes /\ pc[c] = "prepared" /\ UNCHANGED <<commits, lateCommits>>
  BY Ready DEF PublishBoundary, BoundaryDue
<1>2. CASE Return(c, "transport", 0)
  BY <1>1, <1>2, FailureIsAllowed, HistoryStays, UnresolvedStays
<1>3. CASE /\ loaded' = [loaded EXCEPT ![c] = Published(loaded[c])]
           /\ UNCHANGED <<pc, command, loadVars, conflicts, result>>
  <2>1. OthersStay(c) /\ pc'[c] = "prepared"
    BY <1>1, <1>3 DEF OthersStay, FrameTypes, loadVars
  <2>2. Seen(c)' = {}
    BY <2>1 DEF Seen
  <2> QED
    BY <1>1, <1>3, <2>1, <2>2, Looks
<1> QED
  BY <1>2, <1>3 DEF PublishBoundary

LEMMA RefuseRefines ==
    ASSUME RefInv, NEW c \in Fibers, Refuse(c)
    PROVE  [Abstract!Next]_Abstract!vars
<1>1. pc[c] # "idle" /\ Return(c, "rejected", 0) /\ UNCHANGED <<commits, lateCommits>>
  BY DEF Refuse, storeVars
<1> QED
  BY <1>1, Ready, FailureIsAllowed, HistoryStays, UnresolvedStays

\* A record that takes the next slot is a command that takes effect.
LEMMA Applies ==
    ASSUME RefInv, NEW x \in Commit, Sound(commits, snapshots, x), SlotFree(Slot(x)),
           commits' = commits \cup {x}, lateCommits' \subseteq lateCommits, Calls' = Calls,
           NEW d \in Commands,
           x.entry = [id |-> d.id, input |-> d.input, receipt |-> Slot(x)],
           d \in Unresolved \/ \E c \in Calling : command[c] = d
    PROVE  Abstract!Next
<1>1. StoreSafe /\ commits \subseteq Commit /\ Newest
  BY Ready
<1>2. x.parent = History /\ History' = Append(History, x.entry) /\ Fresh(x)
  BY <1>1, FreeSlotIsNext, HistoryGrows DEF Sound
<1>3. ~ \E k \in DOMAIN History : History[k].id = d.id
  BY <1>2 DEF Fresh
<1>4. Slot(x) = Len(History) + 1
  BY <1>2 DEF Slot
<1>5. Unresolved' \subseteq Unresolved
  BY DEF Unresolved, SlotFree
<1>6. Abstract!Apply(d)
  BY <1>2, <1>3, <1>4, <1>5
  DEF Abstract!Apply, Abstract!Applied, Abstract!calls, Calls, SeenBy
<1> QED
  BY <1>6 DEF Abstract!Next

\* What a call about to write knows of its record.
LEMMA TransitionIsNext ==
    ASSUME RefInv, NEW c \in Fibers, NEW x, x = Transition(c), pc[c] = "prepared", ~RecordsDue(c)
    PROVE  /\ x \in Commit /\ Sound(commits, snapshots, x)
           /\ x.entry = [id |-> command[c].id, input |-> command[c].input,
                         receipt |-> Slot(x)]
           /\ command[c] \in Commands /\ c \in Calling
           /\ command[c] = [id |-> command[c].id, input |-> command[c].input]
<1>1. TypeInv /\ Safe
  BY DEF RefInv
<1>2. x \in Commit /\ Sound(commits, snapshots, x) /\ Slot(x) = Len(loaded[c].log) + 1
  BY <1>1, TransitionIsSound
<1>3. command[c] \in Commands
  BY <1>1 DEF TypeInv, Committing
<1>4. command[c] = [id |-> command[c].id, input |-> command[c].input]
  BY <1>3, ConstantsAssumption
<1> QED
  BY <1>2, <1>3, <1>4 DEF Transition, Mine, Calling

LEMMA CreateRefines ==
    ASSUME RefInv, NEW c \in Fibers, Create(c)
    PROVE  [Abstract!Next]_Abstract!vars
<1>1. PICK x : x = Transition(c)
  OBVIOUS
<1>2. /\ FrameTypes /\ pc[c] = "prepared" /\ ~RecordsDue(c)
      /\ UNCHANGED <<command, latest, result>>
  BY Ready DEF Create, BoundaryDue, loadVars
<1>3. /\ x \in Commit /\ Sound(commits, snapshots, x)
      /\ x.entry = [id |-> command[c].id, input |-> command[c].input, receipt |-> Slot(x)]
      /\ command[c] \in Commands /\ c \in Calling
      /\ command[c] = [id |-> command[c].id, input |-> command[c].input]
  BY <1>1, <1>2, TransitionIsNext
<1>4. /\ OthersStay(c) /\ pc'[c] \in {"created", "reconcile"}
      /\ \/ SlotFree(Slot(x)) /\ commits' = commits \cup {x} /\ UNCHANGED lateCommits
         \/ UNCHANGED <<commits, lateCommits>>
         \/ /\ SlotFree(Slot(x)) /\ UNCHANGED commits
            /\ lateCommits' = lateCommits \cup {[commit |-> x, by |-> c]}
  BY <1>1, <1>2 DEF Create, OthersStay, Go, FrameTypes
<1>5. Calls' = Calls
  <2>1. Seen(c)' = {} /\ Seen(c) = {}
    BY <1>2, <1>4 DEF Seen
  <2>2. SeenBy' = SeenBy
    BY <1>4, <2>1, SeenMoves DEF SeenBy
  <2>3. Calling' = Calling
    BY <1>2, <1>4 DEF OthersStay, Calling
  <2> QED
    BY <1>2, <2>2, <2>3 DEF Calls
<1>6. CASE SlotFree(Slot(x)) /\ commits' = commits \cup {x} /\ UNCHANGED lateCommits
  <2>1. PICK d \in Commands : d = command[c]
    BY <1>3
  <2> QED
    BY <1>3, <1>5, <1>6, <2>1, Applies
<1>7. CASE UNCHANGED <<commits, lateCommits>>
  BY <1>5, <1>7, HistoryStays, UnresolvedStays, Stutters
<1>8. CASE /\ SlotFree(Slot(x)) /\ UNCHANGED commits
           /\ lateCommits' = lateCommits \cup {[commit |-> x, by |-> c]}
  <2>1. Unresolved' = Unresolved \cup {command[c]}
    <3> DEFINE p == [commit |-> x, by |-> c]
    <3>1. p.commit = x
      OBVIOUS
    <3> HIDE DEF p
    <3>2. lateCommits' = lateCommits \cup {p}
      BY <1>8 DEF p
    <3>3. command[c] = [id |-> p.commit.entry.id, input |-> p.commit.entry.input]
      BY <1>3, <3>1
    <3> QED
      BY <1>8, <3>1, <3>2, <3>3 DEF Unresolved, SlotFree
  <2>2. ~ \E k \in DOMAIN History : History[k].id = command[c].id
    <3>1. x.parent = History
      BY <1>3, <1>8, Ready, FreeSlotIsNext DEF Sound
    <3> QED
      BY <1>3, <3>1 DEF Sound, Fresh
  <2>3. Abstract!Doubt(c)
    BY <1>3, <1>5, <1>8, <2>1, <2>2, HistoryStays
    DEF Abstract!Doubt, Abstract!Applied, Abstract!calls, Calls, SeenBy
  <2> QED
    BY <2>3 DEF Abstract!Next
<1> QED
  BY <1>4, <1>6, <1>7, <1>8

\* Whose PUT it is that may still arrive is not seen.
LEMMA AbandonedStay ==
    ASSUME UNCHANGED commits, NEW S, lateCommits' = {Abandon(p, S) : p \in lateCommits},
           lateCommits \subseteq LateCommit
    PROVE  Unresolved' = Unresolved
<1>1. \A p \in lateCommits : Abandon(p, S).commit = p.commit
  BY AbandonIsLate
<1> DEFINE E(p) == [id |-> p.commit.entry.id, input |-> p.commit.entry.input]
<1>2. ASSUME NEW q \in lateCommits', SlotFree(Slot(q.commit))'
      PROVE  E(q) \in Unresolved
  <2>1. PICK p \in lateCommits : q.commit = p.commit
    BY <1>1
  <2> QED
    BY <1>2, <2>1 DEF Unresolved, SlotFree
<1>3. ASSUME NEW p \in lateCommits, SlotFree(Slot(p.commit))
      PROVE  E(p) \in Unresolved'
  <2>1. PICK q \in lateCommits' : q.commit = p.commit
    BY <1>1
  <2> QED
    BY <1>3, <2>1 DEF Unresolved, SlotFree
<1>4. /\ Unresolved = {E(p) : p \in {q \in lateCommits : SlotFree(Slot(q.commit))}}
      /\ Unresolved' = {E(p) : p \in {q \in lateCommits' : SlotFree(Slot(q.commit))'}}
  BY DEF Unresolved
<1> HIDE DEF E
<1> QED
  BY <1>2, <1>3, <1>4

LEMMA IndeterminateRefines ==
    ASSUME RefInv, NEW c \in Fibers, Indeterminate(c)
    PROVE  [Abstract!Next]_Abstract!vars
<1>1. /\ FrameTypes /\ pc[c] # "idle" /\ Return(c, "indeterminate", 0) /\ UNCHANGED commits
      /\ lateCommits' = {Abandon(p, {c}) : p \in lateCommits}
  BY Ready DEF Indeterminate, Orphan
<1>2. Unresolved' = Unresolved
  BY <1>1, Ready, AbandonedStay DEF StoreTypes
<1> QED
  BY <1>1, <1>2, FailureIsAllowed, HistoryStays

LEMMA ReconcileRefines ==
    ASSUME RefInv, NEW c \in Fibers, Reconcile(c)
    PROVE  [Abstract!Next]_Abstract!vars
<1>1. PICK x \in commits :
        /\ Slot(x) = Len(loaded[c].log) + 1
        /\ Extends(x, loaded[c]) =>
             \/ /\ x.entry.id = command[c].id /\ x.entry.input # command[c].input
                /\ Return(c, "input-conflict", 0)
             \/ Return(c, "contention", 0)
             \/ \E where \in {"found", "retry"} : \E l :
                   /\ Go(c, where) /\ loaded' = [loaded EXCEPT ![c] = l]
                   /\ UNCHANGED <<command, loadVars, result>>
  BY DEF Reconcile, Mine
<1>2. Extends(x, loaded[c])
  BY <1>1, NextExtends
<1>3. /\ FrameTypes /\ pc[c] = "reconcile" /\ command[c] \in Commands
      /\ UNCHANGED <<commits, lateCommits>>
  BY Ready DEF Reconcile, storeVars, Frames, Committing
<1>4. CASE /\ x.entry.id = command[c].id /\ x.entry.input # command[c].input
           /\ Return(c, "input-conflict", 0)
  <2>1. PICK k \in DOMAIN History : History[k] = x.entry
    BY RecordsAreHistory
  <2>2. PICK r : r = History[k].receipt
    OBVIOUS
  <2> QED
    BY <1>3, <1>4, <2>1, <2>2, AnswerIsAllowed, HistoryStays, UnresolvedStays
<1>5. CASE Return(c, "contention", 0)
  BY <1>3, <1>5, FailureIsAllowed, HistoryStays, UnresolvedStays
<1>6. ASSUME NEW where \in {"found", "retry"}, NEW l, Go(c, where),
             loaded' = [loaded EXCEPT ![c] = l], UNCHANGED <<command, loadVars, result>>
      PROVE  [Abstract!Next]_Abstract!vars
  <2>1. OthersStay(c) /\ pc'[c] = where
    BY <1>3, <1>6 DEF OthersStay, Go, FrameTypes, loadVars
  <2>2. Seen(c)' = {}
    BY <2>1 DEF Seen
  <2> QED
    BY <1>3, <1>6, <2>1, <2>2, Looks
<1> QED
  BY <1>1, <1>2, <1>4, <1>5, <1>6

LEMMA RetryRefines ==
    ASSUME RefInv, NEW c \in Fibers, Retry(c)
    PROVE  [Abstract!Next]_Abstract!vars
<1>1. /\ FrameTypes /\ pc[c] = "retry" /\ Go(c, "list")
      /\ UNCHANGED <<commits, lateCommits, command, latest, loaded, result>>
  BY Ready DEF Retry, BeginLoad, storeVars
<1>2. OthersStay(c) /\ pc'[c] = "list"
  BY <1>1 DEF OthersStay, Go, FrameTypes
<1>3. Seen(c)' = {}
  BY <1>2 DEF Seen
<1> QED
  BY <1>1, <1>2, <1>3, Looks

LEMMA SettleRefines ==
    ASSUME RefInv, NEW c \in Fibers, Settle(c)
    PROVE  [Abstract!Next]_Abstract!vars
<1>1. /\ FrameTypes /\ pc[c] \in {"created", "found"} /\ command[c] \in Commands
      /\ UNCHANGED <<commits, lateCommits>>
  BY Ready DEF Settle, Frames, Committing
<1>2. /\ loaded[c].log # NoLog /\ loaded[c].log \in Log
      /\ LastEntry(loaded[c]).id = command[c].id
      /\ LastEntry(loaded[c]).input = command[c].input
  BY <1>1, Ready, FrameFacts DEF Frames, Settled
<1>3. PICK k \in DOMAIN loaded[c].log : loaded[c].log[k] = LastEntry(loaded[c])
  <2>1. Len(loaded[c].log) \in DOMAIN loaded[c].log
    BY <1>2 DEF Log, NoLog
  <2> QED
    BY <2>1 DEF LastEntry
<1>4. k \in DOMAIN History /\ History[k] = LastEntry(loaded[c])
  BY <1>3, LoadedIsHistory
<1>5. PICK r : r = History[k].receipt
  OBVIOUS
<1>6. Return(c, "committed", r)
  BY <1>4, <1>5 DEF Settle
<1> QED
  BY <1>1, <1>2, <1>4, <1>5, <1>6, AnswerIsAllowed, HistoryStays, UnresolvedStays

-----------------------------------------------------------------------------
(* The environment, and the step.                                          *)

LEMMA SnapshotsRefine ==
    ASSUME \/ \E c \in Fibers : SnapshotLands(c)
           \/ \E s \in lateSnapshots : SnapshotArrives(s)
    PROVE  UNCHANGED Abstract!vars
<1>1. UNCHANGED <<commits, lateCommits, pc, command, latest, loaded, result>>
  BY DEF SnapshotLands, SnapshotArrives, loadVars
<1> QED
  BY <1>1, HistoryStays, UnresolvedStays, CallsStay, Stutters

LEMMA CommitArrivesRefines ==
    ASSUME RefInv, NEW p \in lateCommits, CommitArrives(p)
    PROVE  [Abstract!Next]_Abstract!vars
<1>1. /\ UNCHANGED <<pc, command, latest, loaded, result>>
      /\ lateCommits' = lateCommits \ {p}
  BY DEF CommitArrives, loadVars
<1>2. Calls' = Calls
  BY <1>1, CallsStay
<1>3. CASE SlotFree(Slot(p.commit))
  <2>1. PICK x : x = p.commit
    OBVIOUS
  <2>2. x \in Commit /\ Sound(commits, snapshots, x) /\ x.entry \in Entry
    BY <2>1, Ready DEF StoreTypes, LateCommit, StoreSafe, Commit
  <2>3. PICK d \in Commands : d = [id |-> x.entry.id, input |-> x.entry.input]
    BY <2>1, Ready DEF LatePuts
  <2>4. x.entry = [id |-> d.id, input |-> d.input, receipt |-> Slot(x)]
    BY <2>1, <2>2, <2>3, Ready DEF LatePuts, Entry
  <2>5. d \in Unresolved
    BY <1>3, <2>1, <2>3 DEF Unresolved
  <2>6. commits' = commits \cup {x}
    BY <1>3, <2>1 DEF CommitArrives
  <2> QED
    BY <1>1, <1>2, <1>3, <2>1, <2>2, <2>4, <2>5, <2>6, Applies
<1>4. CASE ~SlotFree(Slot(p.commit))
  <2>1. UNCHANGED commits
    BY <1>4 DEF CommitArrives
  <2>2. Unresolved' = Unresolved
    BY <1>1, <1>4, <2>1 DEF Unresolved, SlotFree
  <2> QED
    BY <1>2, <2>1, <2>2, HistoryStays, Stutters
<1> QED
  BY <1>3, <1>4

LEMMA CrashRefines ==
    ASSUME RefInv, NEW h \in Hosts, Crash(h)
    PROVE  [Abstract!Next]_Abstract!vars
<1>1. PICK lost \in SUBSET Calling : lost = {c \in Fibers : HostOf[c] = h /\ pc[c] # "idle"}
  BY DEF Calling
<1>2. /\ UNCHANGED <<commits, command>>
      /\ lateCommits' = {Abandon(p, lost) : p \in lateCommits}
      /\ pc' = [c \in Fibers |-> IF c \in lost THEN "idle" ELSE pc[c]]
      /\ latest' = [c \in Fibers |-> IF c \in lost THEN 0 ELSE latest[c]]
      /\ loaded' = [c \in Fibers |-> IF c \in lost THEN EmptyLoaded ELSE loaded[c]]
      /\ result' = [c \in Fibers |-> IF c \in lost
                                     THEN [outcome |-> "crashed", receipt |-> 0]
                                     ELSE result[c]]
  BY <1>1 DEF Crash
<1>3. History' = History /\ Unresolved' = Unresolved
  BY <1>2, Ready, HistoryStays, AbandonedStay DEF StoreTypes
<1>4. Calling' = Calling \ lost
  BY <1>2 DEF Calling
<1>5. SeenBy' = [c \in Fibers |-> IF c \in lost THEN {} ELSE SeenBy[c]]
  <2>1. ASSUME NEW c \in lost PROVE Seen(c)' = {}
    <3>1. c \in Fibers
      BY <1>1
    <3>2. pc'[c] = "idle"
      BY <1>2, <3>1
    <3> QED
      BY <3>2 DEF Seen
  <2>2. ASSUME NEW c \in Fibers \ lost PROVE Seen(c)' = Seen(c)
    <3>1. pc'[c] = pc[c] /\ latest'[c] = latest[c] /\ loaded'[c] = loaded[c]
      BY <1>2
    <3> QED
      BY <3>1 DEF Seen
  <2>3. SeenBy' = [c \in Fibers |-> Seen(c)']
    BY DEF SeenBy
  <2>4. \A c \in Fibers : Seen(c)' = IF c \in lost THEN {} ELSE SeenBy[c]
    BY <2>1, <2>2 DEF SeenBy
  <2> QED
    BY <2>3, <2>4
<1>6. Abstract!Crash
  BY <1>2, <1>3, <1>4, <1>5 DEF Abstract!Crash, SeenBy
<1> QED
  BY <1>6 DEF Abstract!Next

\* Every step of Journal is a step of CommandLog, or none.
LEMMA StepRefines == RefInv /\ [Next]_vars => [Abstract!Next]_Abstract!vars
<1> SUFFICES ASSUME RefInv, [Next]_vars PROVE [Abstract!Next]_Abstract!vars
  OBVIOUS
<1>1. ASSUME NEW c \in Fibers, Load(c) PROVE [Abstract!Next]_Abstract!vars
  BY <1>1, ListCommitsRefines, ListSnapshotsRefines, RecoverRefines, ReplayNextRefines,
     FinishLoadRefines DEF Load
<1>2. ASSUME NEW c \in Fibers, Proceed(c) PROVE [Abstract!Next]_Abstract!vars
  BY <1>1, <1>2, ReturnHeadRefines, ReturnReceiptRefines, PrepareRefines,
     PublishBoundaryRefines, RefuseRefines, CreateRefines, IndeterminateRefines,
     ReconcileRefines, RetryRefines, SettleRefines DEF Proceed
<1>3. ASSUME NEW c \in Fibers,
             (\E d \in Commands \cup {ReadHead} : Call(c, d)) \/ StoreFails(c)
      PROVE  [Abstract!Next]_Abstract!vars
  BY <1>3, CallRefines, StoreFailsRefines
<1>4. CASE \/ \E c \in Fibers : SnapshotLands(c)
           \/ \E s \in lateSnapshots : SnapshotArrives(s)
  BY <1>4, SnapshotsRefine
<1>5. CASE \/ \E h \in Hosts : Crash(h)
           \/ \E p \in lateCommits : CommitArrives(p)
  BY <1>5, CrashRefines, CommitArrivesRefines
<1>6. CASE UNCHANGED vars
  <2>1. UNCHANGED <<commits, lateCommits, pc, command, latest, loaded, result>>
    BY <1>6 DEF vars
  <2> QED
    BY <2>1, HistoryStays, UnresolvedStays, CallsStay, Stutters
<1> QED
  BY <1>2, <1>3, <1>4, <1>5, <1>6 DEF Next

LEMMA InitRefines == Init => Abstract!Init
<1> SUFFICES ASSUME Init PROVE Abstract!Init
  OBVIOUS
<1>1. History = << >> /\ Unresolved = {} /\ Calling = {}
  BY DEF Init, History, NoLog, Unresolved, Calling
<1>2. \A c \in Fibers : Seen(c) = {}
  BY DEF Init, Seen
<1> QED
  BY <1>1, <1>2 DEF Init, Abstract!Init, Abstract!NoResult, NoResult

-----------------------------------------------------------------------------
(* The invariant is preserved.                                             *)

\* The record that a step stores takes the next slot.
LEMMA CommitsMove ==
    ASSUME RefInv, [Next]_vars
    PROVE  \/ UNCHANGED commits
           \/ \E x \in Commit : /\ PrefixOf(commits, x.parent) /\ SlotFree(Slot(x))
                                /\ commits' = commits \cup {x}
<1>1. ASSUME NEW c \in Fibers, Create(c)
      PROVE  \/ UNCHANGED commits
             \/ \E x \in Commit : /\ PrefixOf(commits, x.parent) /\ SlotFree(Slot(x))
                                  /\ commits' = commits \cup {x}
  <2>1. PICK x : x = Transition(c)
    OBVIOUS
  <2>2. x \in Commit /\ PrefixOf(commits, x.parent)
    BY <1>1, <2>1, TransitionIsNext DEF Create, BoundaryDue, Sound
  <2> QED
    BY <1>1, <2>1, <2>2 DEF Create
<1>2. ASSUME NEW p \in lateCommits, CommitArrives(p)
      PROVE  \/ UNCHANGED commits
             \/ \E x \in Commit : /\ PrefixOf(commits, x.parent) /\ SlotFree(Slot(x))
                                  /\ commits' = commits \cup {x}
  <2>1. p.commit \in Commit /\ PrefixOf(commits, p.commit.parent)
    BY Ready DEF StoreTypes, LateCommit, StoreSafe, Sound
  <2> QED
    BY <1>2, <2>1 DEF CommitArrives
<1>3. ASSUME NEW c \in Fibers, Proceed(c), ~Create(c) PROVE UNCHANGED commits
  <2>1. CASE Load(c) \/ ReturnHead(c) \/ ReturnReceipt(c) \/ Refuse(c)
    BY <2>1 DEF Load, ListCommits, ListSnapshots, Recover, ReplayNext, FinishLoad,
                ReturnHead, ReturnReceipt, Refuse, storeVars
  <2>2. CASE \/ PublishBoundary(c) \/ Settle(c) \/ Prepare(c) \/ Indeterminate(c)
             \/ Reconcile(c) \/ Retry(c)
    BY <2>2 DEF PublishBoundary, Settle, Prepare, Indeterminate, Reconcile, Retry, storeVars
  <2> QED
    BY <1>3, <2>1, <2>2 DEF Proceed
<1>4. ASSUME NEW c \in Fibers, NEW d, Call(c, d) \/ StoreFails(c) \/ SnapshotLands(c)
      PROVE  UNCHANGED commits
  BY <1>4 DEF Call, StoreFails, SnapshotLands, storeVars
<1>5. CASE \/ \E h \in Hosts : Crash(h)
           \/ \E s \in lateSnapshots : SnapshotArrives(s)
           \/ UNCHANGED vars
  BY <1>5 DEF Crash, SnapshotArrives, vars
<1> QED
  BY <1>1, <1>2, <1>3, <1>4, <1>5 DEF Next

LEMMA NewestStep == RefInv /\ [Next]_vars => Newest'
<1> SUFFICES ASSUME RefInv, [Next]_vars PROVE Newest'
  OBVIOUS
<1>1. CASE UNCHANGED commits
  BY <1>1, Ready DEF Newest
<1> QED
  BY <1>1, Ready, CommitsMove, HistoryGrows

\* A PUT in flight was there before, or is the one a call just lost.
LEMMA PutsMove ==
    ASSUME RefInv, [Next]_vars, NEW p \in lateCommits'
    PROVE  \/ \E q \in lateCommits : p.commit = q.commit
           \/ \E c \in Fibers : /\ pc[c] = "prepared" /\ ~RecordsDue(c)
                                /\ p.commit = Transition(c)
<1> DEFINE Old == \E q \in lateCommits : p.commit = q.commit
           New == \E c \in Fibers : /\ pc[c] = "prepared" /\ ~RecordsDue(c)
                                    /\ p.commit = Transition(c)
<1> SUFFICES Old \/ New
  OBVIOUS
<1>1. \A q \in lateCommits : \A S : Abandon(q, S).commit = q.commit
  BY Ready, AbandonIsLate DEF StoreTypes
<1>2. ASSUME NEW c \in Fibers, Create(c) PROVE Old \/ New
  <2>1. PICK x : x = Transition(c)
    OBVIOUS
  <2>2. \/ UNCHANGED lateCommits
        \/ lateCommits' = lateCommits \cup {[commit |-> x, by |-> c]}
    BY <1>2, <2>1 DEF Create
  <2>3. pc[c] = "prepared" /\ ~RecordsDue(c)
    BY <1>2 DEF Create, BoundaryDue
  <2> QED
    BY <2>1, <2>2, <2>3
<1>3. ASSUME NEW c \in Fibers, Indeterminate(c) PROVE Old
  BY <1>1, <1>3 DEF Indeterminate, Orphan
<1>4. ASSUME NEW h \in Hosts, Crash(h) PROVE Old
  <2>1. PICK S : lateCommits' = {Abandon(q, S) : q \in lateCommits}
    BY <1>4 DEF Crash
  <2> QED
    BY <1>1, <2>1
<1>5. ASSUME NEW c \in Fibers, Proceed(c), ~Create(c), ~Indeterminate(c) PROVE Old
  <2>1. CASE Load(c) \/ ReturnHead(c) \/ ReturnReceipt(c) \/ Refuse(c)
    BY <2>1 DEF Load, ListCommits, ListSnapshots, Recover, ReplayNext, FinishLoad,
                ReturnHead, ReturnReceipt, Refuse, storeVars
  <2>2. CASE \/ PublishBoundary(c) \/ Settle(c) \/ Prepare(c) \/ Reconcile(c) \/ Retry(c)
    BY <2>2 DEF PublishBoundary, Settle, Prepare, Reconcile, Retry, storeVars
  <2> QED
    BY <1>5, <2>1, <2>2 DEF Proceed
<1>6. ASSUME NEW c \in Fibers,
             \/ \E d \in Commands \cup {ReadHead} : Call(c, d)
             \/ StoreFails(c) \/ SnapshotLands(c)
      PROVE  Old
  BY <1>6 DEF Call, StoreFails, SnapshotLands, storeVars
<1>7. CASE \/ \E q \in lateCommits : CommitArrives(q)
           \/ \E s \in lateSnapshots : SnapshotArrives(s)
           \/ UNCHANGED vars
  BY <1>7 DEF CommitArrives, SnapshotArrives, vars
<1> HIDE DEF Old, New
<1>8. ASSUME NEW c \in Fibers, Proceed(c) PROVE Old \/ New
  BY <1>2, <1>3, <1>5, <1>8
<1> QED
  BY <1>4, <1>6, <1>7, <1>8 DEF Next

LEMMA LatePutsStep == RefInv /\ [Next]_vars => LatePuts'
<1> SUFFICES ASSUME RefInv, [Next]_vars, NEW p \in lateCommits'
             PROVE  /\ p.commit.entry.receipt = Slot(p.commit)
                    /\ [id |-> p.commit.entry.id, input |-> p.commit.entry.input] \in Commands
  BY DEF LatePuts
<1>1. CASE \E q \in lateCommits : p.commit = q.commit
  BY <1>1, Ready DEF LatePuts
<1>2. ASSUME NEW c \in Fibers, pc[c] = "prepared", ~RecordsDue(c), p.commit = Transition(c)
      PROVE  /\ p.commit.entry.receipt = Slot(p.commit)
             /\ [id |-> p.commit.entry.id, input |-> p.commit.entry.input] \in Commands
  <2>1. PICK x : x = p.commit
    OBVIOUS
  <2>2. /\ x.entry = [id |-> command[c].id, input |-> command[c].input, receipt |-> Slot(x)]
        /\ command[c] \in Commands
        /\ command[c] = [id |-> command[c].id, input |-> command[c].input]
    BY <1>2, <2>1, TransitionIsNext
  <2> QED
    BY <2>1, <2>2
<1> QED
  BY <1>1, <1>2, PutsMove

\* Where a call holds a listing.
Listed == {"listSnapshots", "recover", "replay"}
Still(c) ==
    /\ pc'[c] = pc[c] /\ known'[c] = known[c] /\ latest'[c] = latest[c]
    /\ snapshot'[c] = snapshot[c] /\ loaded'[c] = loaded[c]
OthersStill(c) == \A i \in Fibers \ {c} : Still(i)

LEMMA ReturnIsStill ==
    ASSUME FrameTypes, NEW c \in Fibers, NEW o, NEW r, Return(c, o, r)
    PROVE  OthersStill(c) /\ pc'[c] \notin Listed
BY DEF Return, Go, EndLoad, FrameTypes, OthersStill, Still, Listed

\* A call that moves to a place where it holds no listing.
LEMMA LeavesListing ==
    ASSUME FrameTypes, NEW c \in Fibers, NEW where, Go(c, where), where \notin Listed,
           \/ UNCHANGED loadVars
           \/ EndLoad(c)
           \/ \E l : known' = [known EXCEPT ![c] = l] /\ UNCHANGED <<latest, snapshot>>,
           \/ UNCHANGED loaded
           \/ \E l : loaded' = [loaded EXCEPT ![c] = l]
    PROVE  OthersStill(c) /\ pc'[c] \notin Listed
<1>1. \A i \in Fibers \ {c} : pc'[i] = pc[i] /\ loaded'[i] = loaded[i]
  BY DEF Go, FrameTypes
<1>2. \A i \in Fibers \ {c} :
         known'[i] = known[i] /\ latest'[i] = latest[i] /\ snapshot'[i] = snapshot[i]
  BY DEF loadVars, EndLoad, FrameTypes
<1>3. pc'[c] = where
  BY DEF Go, FrameTypes
<1> QED
  BY <1>1, <1>2, <1>3 DEF OthersStill, Still

\* A step of c leaves the others alone, and c holds a listing afterwards only by
\* the steps of a load.
LEMMA FrameStep ==
    ASSUME RefInv, NEW c \in Fibers,
           Proceed(c) \/ StoreFails(c) \/ SnapshotLands(c)
             \/ \E d \in Commands \cup {ReadHead} : Call(c, d)
    PROVE  /\ OthersStill(c)
           /\ \/ Still(c) \/ pc'[c] \notin Listed
              \/ ListCommits(c) \/ ListSnapshots(c) \/ Recover(c) \/ ReplayNext(c)
<1> DEFINE Moves == /\ OthersStill(c)
                    /\ \/ Still(c) \/ pc'[c] \notin Listed
                       \/ ListCommits(c) \/ ListSnapshots(c) \/ Recover(c) \/ ReplayNext(c)
<1>1. FrameTypes
  BY Ready
<1>2. ASSUME NEW o, NEW r, Return(c, o, r) PROVE Moves
  BY <1>1, <1>2, ReturnIsStill
<1>3. CASE ListCommits(c)
  BY <1>1, <1>3, ListCommitsRefines DEF OthersStill, Still, FrameTypes
<1>4. CASE ListSnapshots(c)
  BY <1>1, <1>4, ListSnapshotsRefines DEF OthersStill, Still, Go, FrameTypes
<1>5. CASE Recover(c)
  BY <1>1, <1>5, RecoverRefines DEF OthersStill, Still, Go, FrameTypes
<1>6. CASE ReplayNext(c)
  <2>1. CASE Return(c, "limit", 0)
    BY <1>2, <2>1
  <2>2. CASE \E l : loaded' = [loaded EXCEPT ![c] = l] /\ UNCHANGED <<pc, known, latest, snapshot>>
    BY <1>1, <1>6, <2>2 DEF OthersStill, Still, FrameTypes
  <2> QED
    BY <1>6, <2>1, <2>2, ReplayNextRefines
<1>7. CASE FinishLoad(c)
  BY <1>1, <1>7, LeavesListing DEF FinishLoad, Listed
<1>8. CASE \/ ReturnHead(c) \/ ReturnReceipt(c) \/ Refuse(c) \/ Indeterminate(c) \/ Settle(c)
           \/ StoreFails(c)
  BY <1>2, <1>8 DEF ReturnHead, ReturnReceipt, Answer, Refuse, Indeterminate, Settle, StoreFails
<1>9. CASE Prepare(c)
  BY <1>1, <1>9, LeavesListing DEF Prepare, Listed
<1>10. CASE PublishBoundary(c)
  <2>1. CASE /\ loaded' = [loaded EXCEPT ![c] = Published(loaded[c])]
             /\ UNCHANGED <<pc, command, loadVars, conflicts, result>>
    <3>1. pc[c] = "prepared"
      BY <1>10 DEF PublishBoundary, BoundaryDue
    <3> QED
      BY <1>1, <2>1, <3>1 DEF OthersStill, Still, FrameTypes, Listed, loadVars
  <2> QED
    BY <1>2, <1>10, <2>1 DEF PublishBoundary
<1>11. CASE Create(c)
  <2>1. /\ Go(c, "created") \/ Go(c, "reconcile")
        /\ UNCHANGED loadVars
        /\ UNCHANGED loaded \/ \E l : loaded' = [loaded EXCEPT ![c] = l]
    BY <1>11 DEF Create
  <2> QED
    BY <1>1, <2>1, LeavesListing DEF Listed
<1>12. CASE Reconcile(c)
  <2>1. \/ \E o, r : Return(c, o, r)
        \/ /\ Go(c, "found") \/ Go(c, "retry")
           /\ UNCHANGED loadVars
           /\ \E l : loaded' = [loaded EXCEPT ![c] = l]
    BY <1>12 DEF Reconcile
  <2> QED
    BY <1>1, <1>2, <2>1, LeavesListing DEF Listed
<1>13. CASE Retry(c) \/ \E d \in Commands \cup {ReadHead} : Call(c, d)
  <2>1. /\ Go(c, "list") /\ UNCHANGED <<latest, snapshot, loaded>>
        /\ \E l : known' = [known EXCEPT ![c] = l]
    BY <1>13 DEF Retry, Call, BeginLoad
  <2> QED
    BY <1>1, <2>1, LeavesListing DEF Listed
<1>14. CASE SnapshotLands(c)
  BY <1>14 DEF SnapshotLands, loadVars, OthersStill, Still
<1> HIDE DEF Moves
<1>15. Moves
  BY <1>3, <1>4, <1>5, <1>6, <1>7, <1>8, <1>9, <1>10, <1>11, <1>12, <1>13, <1>14
  DEF Proceed, Load, Moves
<1> QED
  BY <1>15 DEF Moves

\* The listing that a step leaves a call with.
LEMMA ListedIsWhole ==
    ASSUME RefInv, NEW c \in Fibers, ListCommits(c)
    PROVE  Listing(c)'
<1>1. /\ pc'[c] = "listSnapshots" /\ latest'[c] = Len(History) /\ known'[c] = known[c]
  BY Ready, ListCommitsRefines DEF FrameTypes
<1>2. Len(known[c].log) <= Len(History)
  <2>1. known[c].log \in Log /\ PrefixOf(commits, known[c].log)
    BY Ready, FrameFacts DEF FrameSafe, Clean
  <2> QED
    BY <2>1, Ready, HistoryIsLongest
<1> QED
  BY <1>1, <1>2 DEF Listing

LEMMA SnapshotIsListed ==
    ASSUME RefInv, SeedsListed, NEW c \in Fibers, ListSnapshots(c)
    PROVE  Listing(c)'
<1>1. /\ pc[c] = "listSnapshots" /\ FrameTypes /\ Listing(c)
      /\ latest[c] \in Nat /\ SnapshotSeed(c) \in Log /\ snapshots \subseteq Log
      /\ Len(SnapshotSeed(c)) <= latest[c]
  BY Ready, FrameFacts DEF ListSnapshots, SeedsListed, SnapshotSeed, StoreTypes
<1>2. PICK s \in Log : /\ snapshot'[c] = s
                       /\ IF SnapshotCandidates(c) = {} THEN s = NoLog
                          ELSE s \in SnapshotCandidates(c)
  BY <1>1, ListSnapshotsRefines DEF FrameTypes
<1>3. pc'[c] = "recover" /\ latest'[c] = latest[c] /\ known'[c] = known[c]
  BY <1>1, ListSnapshotsRefines DEF Go, FrameTypes
<1>4. Len(s) <= latest[c]
  <2>1. Len(NoLog) = 0
    BY DEF NoLog
  <2> QED
    BY <1>1, <1>2, <2>1 DEF SnapshotCandidates
<1>5. ASSUME s = NoLog PROVE known[c].snapshotKey = NoLog
  <2>1. CASE SnapshotCandidates(c) = {}
    <3>1. SnapshotSeed(c) = NoLog
      BY <1>1, <2>1 DEF SnapshotCandidates
    <3> QED
      BY <3>1 DEF SnapshotSeed
  <2>2. CASE s \in SnapshotCandidates(c)
    <3>1. Len(s) >= Len(SnapshotSeed(c)) /\ s # SnapshotSeed(c)
      BY <1>5, <2>2 DEF SnapshotCandidates
    <3>2. SnapshotSeed(c) = NoLog
      BY <1>1, <1>5, <3>1 DEF NoLog, Log
    <3> QED
      BY <1>5, <3>1, <3>2
  <2> QED
    BY <1>2, <2>1, <2>2
<1> QED
  BY <1>1, <1>2, <1>3, <1>4, <1>5 DEF Listing

LEMMA BaseIsListed ==
    ASSUME RefInv, NEW c \in Fibers, Recover(c)
    PROVE  Listing(c)'
<1>1. /\ pc[c] = "recover" /\ FrameTypes /\ Listing(c)
      /\ known[c] \in Loaded /\ Len(known[c].log) \in Nat
      /\ snapshot[c] \in Log /\ latest[c] \in Nat
  BY Ready, FrameFacts DEF Recover
<1>2. /\ pc'[c] = "replay" /\ latest'[c] = latest[c] /\ known'[c] = known[c]
      /\ loaded'[c] = IF ReusesVerified(c) THEN known[c] ELSE SnapshotBase(c)
  BY <1>1, RecoverRefines DEF Go, FrameTypes
<1>3. CASE ReusesVerified(c)
  BY <1>1, <1>2, <1>3 DEF Listing
<1>4. CASE ~ReusesVerified(c)
  <2>1. EmptyLoaded.log = NoLog /\ Len(NoLog) = 0
    BY DEF EmptyLoaded, NoLog
  <2>2. ReadsSnapshot(c)
    BY <1>1, <1>4, <2>1 DEF ReusesVerified, ReadsSnapshot, SnapshotBase, Listing
  <2>3. loaded'[c].log = snapshot[c] /\ SnapshotBase(c).log = snapshot[c]
    BY <1>1, <1>2, <1>4, <2>2, FromSnapshotIsLoaded DEF SnapshotBase
  <2>4. Len(snapshot[c]) \in Nat
    BY <1>1 DEF Log
  <2>5. Len(known[c].log) <= Len(snapshot[c])
    BY <1>1, <1>4, <2>2, <2>3, <2>4 DEF ReusesVerified, ReadsSnapshot, Dominated
  <2> QED
    BY <1>1, <1>2, <2>3, <2>5 DEF Listing
<1> QED
  BY <1>3, <1>4

LEMMA ReplayIsListed ==
    ASSUME RefInv, NEW c \in Fibers, ReplayNext(c)
    PROVE  Listing(c)'
<1>1. /\ pc[c] = "replay" /\ FrameTypes /\ Listing(c) /\ commits \subseteq Commit
      /\ loaded[c] \in Loaded /\ Len(loaded[c].log) \in Nat /\ Len(known[c].log) \in Nat
  BY Ready, FrameFacts DEF ReplayNext, Replaying
<1>2. CASE Return(c, "limit", 0)
  <2>1. pc'[c] \notin Listed
    BY <1>1, <1>2, ReturnIsStill
  <2> QED
    BY <2>1 DEF Listing, Listed
<1>3. ASSUME NEW x \in commits, loaded' = [loaded EXCEPT ![c] = Advance(loaded[c], x)],
             Slot(x) = Len(loaded[c].log) + 1, Slot(x) <= latest[c],
             UNCHANGED <<pc, known, latest, snapshot>>
      PROVE  Listing(c)'
  <2>1. loaded'[c] = Advance(loaded[c], x)
    BY <1>1, <1>3 DEF FrameTypes
  <2>2. Len(loaded'[c].log) = Slot(x)
    BY <1>1, <2>1, AdvanceIsLoaded, DigestIsLog
  <2>3. Len(known[c].log) <= Len(loaded'[c].log) /\ Len(loaded'[c].log) <= latest[c]
    BY <1>1, <1>3, <2>2 DEF Listing
  <2> QED
    BY <1>1, <1>3, <2>3 DEF Listing
<1> QED
  BY <1>2, <1>3, ReplayNextRefines

\* A call that is still holds the listing it held.
LEMMA StillListed ==
    ASSUME NEW c \in Fibers, Listing(c), Still(c) \/ pc'[c] \notin Listed
    PROVE  Listing(c)'
BY DEF Listing, Listed, Still

LEMMA CrashStill ==
    ASSUME NEW h \in Hosts, Crash(h), NEW c \in Fibers
    PROVE  (Still(c) /\ HostOf[c] # h) \/ pc'[c] = "idle"
<1>1. CASE HostOf[c] = h /\ pc[c] # "idle"
  BY <1>1 DEF Crash
<1>2. CASE ~(HostOf[c] = h /\ pc[c] # "idle")
  <2>1. Still(c)
    BY <1>2 DEF Crash, Still
  <2> QED
    BY <1>2, <2>1 DEF Still
<1> QED
  BY <1>1, <1>2

LEMMA ListingsStep == RefInv /\ SeedsListed /\ [Next]_vars => Listings'
<1> SUFFICES ASSUME RefInv, SeedsListed, [Next]_vars, NEW i \in Fibers PROVE Listing(i)'
  BY DEF Listings
<1>1. Listing(i)
  BY Ready
<1>2. ASSUME NEW c \in Fibers,
             Proceed(c) \/ StoreFails(c) \/ SnapshotLands(c)
               \/ \E d \in Commands \cup {ReadHead} : Call(c, d)
      PROVE  Listing(i)'
  <2>1. CASE i # c
    BY <1>1, <1>2, <2>1, FrameStep, StillListed DEF OthersStill
  <2>2. CASE i = c
    BY <1>1, <1>2, <2>2, FrameStep, StillListed, ListedIsWhole, SnapshotIsListed,
       BaseIsListed, ReplayIsListed
  <2> QED
    BY <2>1, <2>2
<1>3. ASSUME NEW h \in Hosts, Crash(h) PROVE Listing(i)'
  BY <1>1, <1>3, CrashStill, StillListed DEF Listed
<1>4. CASE \/ \E p \in lateCommits : CommitArrives(p)
           \/ \E s \in lateSnapshots : SnapshotArrives(s)
           \/ UNCHANGED vars
  <2>1. Still(i)
    BY <1>4 DEF CommitArrives, SnapshotArrives, vars, loadVars, Still
  <2> QED
    BY <1>1, <2>1, StillListed
<1> QED
  BY <1>2, <1>3, <1>4 DEF Next

LEMMA RefStep == RefInv /\ SeedsListed /\ [Next]_vars => RefInv'
<1> SUFFICES ASSUME RefInv, SeedsListed, [Next]_vars PROVE RefInv'
  OBVIOUS
<1>1. TypeInv' /\ Safe'
  BY TypeStep, SafeStep DEF RefInv
<1> QED
  BY <1>1, NewestStep, LatePutsStep, ListingsStep DEF RefInv

LEMMA InitRefInv == Init => RefInv
<1> SUFFICES ASSUME Init PROVE RefInv
  OBVIOUS
<1>1. Newest /\ LatePuts /\ Listings
  BY DEF Init, Newest, LatePuts, Listings, Listing
<1> QED
  BY <1>1, InitTypes, InitSafe DEF RefInv

-----------------------------------------------------------------------------
(* A host that makes one call at a time finds its own snapshot.            *)

\* The snapshot a host vouches for changes when a call of that host has read or
\* published one.
LEMMA HostSnapshotMoves ==
    ASSUME RefInv, NEW c \in Fibers, NEW h \in Hosts,
           Proceed(c) \/ StoreFails(c) \/ SnapshotLands(c)
             \/ \E d \in Commands \cup {ReadHead} : Call(c, d)
    PROVE  \/ verifiedSnapshot'[h] = verifiedSnapshot[h]
           \/ h = HostOf[c] /\ pc[c] # "listSnapshots"
<1>1. /\ verifiedSnapshot \in [Hosts -> Log] /\ HostOf[c] \in Hosts
  BY Ready, FrameFacts DEF StoreTypes
<1>2. CASE Recover(c) \/ PublishBoundary(c) \/ Settle(c)
  <2>1. /\ pc[c] # "listSnapshots"
        /\ \/ UNCHANGED verifiedSnapshot
           \/ \E s : verifiedSnapshot' = [verifiedSnapshot EXCEPT ![HostOf[c]] = s]
    BY <1>2 DEF Recover, PublishBoundary, BoundaryDue, Settle, Publish, PublishFails, hostVars
  <2> QED
    BY <1>1, <2>1
<1>3. CASE \/ ListCommits(c) \/ ListSnapshots(c) \/ ReplayNext(c) \/ FinishLoad(c)
           \/ ReturnHead(c) \/ ReturnReceipt(c) \/ Refuse(c)
  BY <1>3 DEF ListCommits, ListSnapshots, ReplayNext, FinishLoad, ReturnHead, ReturnReceipt,
              Refuse, hostVars
<1>4. CASE \/ Prepare(c) \/ Create(c) \/ Indeterminate(c) \/ Reconcile(c) \/ Retry(c)
  BY <1>4 DEF Prepare, Create, Indeterminate, Reconcile, Retry, hostVars
<1>5. CASE \/ StoreFails(c) \/ SnapshotLands(c)
           \/ \E d \in Commands \cup {ReadHead} : Call(c, d)
  BY <1>5 DEF StoreFails, SnapshotLands, Call, hostVars
<1> QED
  BY <1>2, <1>3, <1>4, <1>5 DEF Proceed, Load

\* A call that has just listed the commits listed all that its host vouches for.
LEMMA SeedIsListed ==
    ASSUME RefInv, NEW c \in Fibers, ListCommits(c)
    PROVE  (Len(SnapshotSeed(c)) <= latest[c])'
<1>1. HostOf[c] \in Hosts /\ TypeInv /\ Safe
  BY ConstantsAssumption DEF RefInv
<1>2. SnapshotSeed(c) \in snapshots \cup {NoLog}
  BY <1>1 DEF SnapshotSeed, Safe, CachesSafe, FramesSafe, FrameSafe, Clean
<1>3. SnapshotSeed(c) \in Log /\ PrefixOf(commits, SnapshotSeed(c))
  <2>1. NoLog \in Log /\ PrefixOf(commits, NoLog)
    BY EmptyIsLoaded DEF NoLog, PrefixOf
  <2> QED
    BY <1>2, <2>1, Ready DEF StoreTypes, StoreSafe
<1>4. Len(SnapshotSeed(c)) <= Len(History)
  BY <1>3, Ready, HistoryIsLongest
<1>5. latest'[c] = Len(History) /\ UNCHANGED <<verifiedSnapshot, known>>
  BY Ready, ListCommitsRefines DEF FrameTypes
<1>6. SnapshotSeed(c)' = SnapshotSeed(c)
  BY <1>5 DEF SnapshotSeed
<1> QED
  BY <1>4, <1>5, <1>6

LEMMA SeedsStep == OneCallPerHost /\ RefInv /\ SeedsListed /\ [Next]_vars => SeedsListed'
<1> SUFFICES ASSUME OneCallPerHost, RefInv, SeedsListed, [Next]_vars,
                    NEW i \in Fibers, pc'[i] = "listSnapshots"
             PROVE  (Len(SnapshotSeed(i)) <= latest[i])'
  BY DEF SeedsListed
<1>1. HostOf[i] \in Hosts /\ FrameTypes
  BY ConstantsAssumption, Ready
<1>2. ASSUME Still(i), verifiedSnapshot'[HostOf[i]] = verifiedSnapshot[HostOf[i]]
      PROVE  (Len(SnapshotSeed(i)) <= latest[i])'
  <2>1. SnapshotSeed(i)' = SnapshotSeed(i)
    BY <1>2 DEF SnapshotSeed, Still
  <2> QED
    BY <1>2, <2>1 DEF Still, SeedsListed
<1>3. ASSUME NEW c \in Fibers,
             Proceed(c) \/ StoreFails(c) \/ SnapshotLands(c)
               \/ \E d \in Commands \cup {ReadHead} : Call(c, d)
      PROVE  (Len(SnapshotSeed(i)) <= latest[i])'
  <2>1. CASE Still(i)
    <3>1. HostOf[i] # HostOf[c] \/ pc[c] = "listSnapshots"
      BY <2>1 DEF OneCallPerHost, Still
    <3>2. verifiedSnapshot'[HostOf[i]] = verifiedSnapshot[HostOf[i]]
      BY <1>1, <1>3, <3>1, HostSnapshotMoves
    <3> QED
      BY <1>2, <2>1, <3>2
  <2>2. CASE i = c /\ ListCommits(c)
    BY <2>2, SeedIsListed
  <2>3. CASE i = c /\ (ListSnapshots(c) \/ Recover(c) \/ ReplayNext(c))
    <3>1. CASE ListSnapshots(c)
      <4>1. pc'[c] = "recover"
        BY <1>1, <3>1, ListSnapshotsRefines DEF Go, FrameTypes
      <4> QED
        BY <2>3, <4>1
    <3>2. CASE Recover(c)
      <4>1. pc'[c] = "replay"
        BY <1>1, <3>2, RecoverRefines DEF Go, FrameTypes
      <4> QED
        BY <2>3, <4>1
    <3>3. CASE ReplayNext(c)
      <4>1. pc[c] = "replay"
        BY <3>3 DEF ReplayNext, Replaying
      <4>2. pc'[c] # "listSnapshots"
        BY <1>1, <3>3, <4>1, ReplayNextRefines, ReturnIsStill DEF Listed
      <4> QED
        BY <2>3, <4>2
    <3> QED
      BY <2>3, <3>1, <3>2, <3>3
  <2>4. pc'[i] \in Listed
    BY DEF Listed
  <2> QED
    BY <1>3, <2>1, <2>2, <2>3, <2>4, FrameStep DEF OthersStill
<1>4. ASSUME NEW h \in Hosts, Crash(h) PROVE (Len(SnapshotSeed(i)) <= latest[i])'
  <2>1. Still(i) /\ HostOf[i] # h
    BY <1>4, CrashStill
  <2>2. verifiedSnapshot'[HostOf[i]] = verifiedSnapshot[HostOf[i]]
    BY <1>1, <1>4, <2>1, Ready DEF Crash, StoreTypes
  <2> QED
    BY <1>2, <2>1, <2>2
<1>5. CASE \/ \E p \in lateCommits : CommitArrives(p)
           \/ \E s \in lateSnapshots : SnapshotArrives(s)
           \/ UNCHANGED vars
  <2>1. Still(i) /\ verifiedSnapshot'[HostOf[i]] = verifiedSnapshot[HostOf[i]]
    BY <1>5 DEF CommitArrives, SnapshotArrives, vars, loadVars, hostVars, Still
  <2> QED
    BY <1>2, <2>1
<1> QED
  BY <1>3, <1>4, <1>5 DEF Next

-----------------------------------------------------------------------------
(* The theorems.                                                           *)

\* However the calls of a host interleave: as long as every load finds its
\* host's snapshot among the commits it listed, the journal is one history of
\* commands, each applied once, answered with its retained receipt, and read as
\* it was at one moment of the call; and no call takes it for corrupt.
THEOREM ListedSnapshotsRefine == Spec /\ []SeedsListed => ImplementsCommandLog
<1>1. RefInv /\ [Next]_vars => [Abstract!Next]_Abstract!vars
  BY StepRefines
<1> QED
  BY <1>1, InitRefines, InitRefInv, RefStep, PTL DEF Spec, ImplementsCommandLog, Abstract!Spec

LEMMA RefinementInvariant ==
    ASSUME OneCallPerHost
    PROVE  Spec => [](RefInv /\ SeedsListed)
<1>1. Init => RefInv /\ SeedsListed
  BY InitRefInv DEF Init, SeedsListed
<1>2. RefInv /\ SeedsListed /\ [Next]_vars => (RefInv /\ SeedsListed)'
  BY RefStep, SeedsStep
<1> QED
  BY <1>1, <1>2, PTL DEF Spec

\* Hosts that make one call at a time, which is how an activation serialises its
\* commands, implement the command log together: whatever crashes, retries and
\* late PUTs do between them.
THEOREM JournalImplementsCommandLog ==
    ASSUME OneCallPerHost
    PROVE  Spec => ImplementsCommandLog
<1>1. Spec => []SeedsListed
  BY RefinementInvariant, PTL
<1> QED
  BY <1>1, ListedSnapshotsRefine, PTL

\* A load of such a host covers every commit that its listing saw, whatever its
\* caches held when it began.
THEOREM LoadsCoverListings ==
    ASSUME OneCallPerHost
    PROVE  Spec => []LoadCoversListing
<1>1. RefInv => LoadCoversListing
  <2> SUFFICES ASSUME RefInv, NEW c \in Fibers, pc[c] = "replay", ~Replaying(c)
               PROVE  Len(loaded[c].log) >= latest[c]
    BY DEF LoadCoversListing
  <2>1. Listing(c) /\ Len(loaded[c].log) \in Nat /\ latest[c] \in Nat
    BY Ready, FrameFacts
  <2> QED
    BY <2>1 DEF Listing, Replaying, NextListed
<1> QED
  BY <1>1, RefinementInvariant, PTL
=============================================================================
