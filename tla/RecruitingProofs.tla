--------------------------- MODULE RecruitingProofs ---------------------------
(***************************************************************************)
(* Proofs about the job matches, the external catalogue, the applications, *)
(* the document queue and the vacancy index, for every number of readers,  *)
(* sweeps, requests and workers: each by an invariant that says what an    *)
(* actor between two of its steps may rely on; and of the types of all of  *)
(* them.                                                                   *)
(***************************************************************************)
EXTENDS MCRecruiting, Integers, TLAPS

-----------------------------------------------------------------------------
(* The index of the vacancies.                                             *)

Syncing ==
    [at : {"read", "call"}, tries : 0 .. SyncAttempts - 1, saw : {None} \cup Nat, when : Nat]

SyncShape ==
    /\ posting \in {None} \cup Nat
    /\ edits \in Nat /\ written \in Nat /\ written <= edits
    /\ due \in [0 .. SyncAttempts - 1 -> Nat]
    /\ sync \in [Syncers -> {Resting} \cup Syncing]
    /\ \A w \in Syncers : sync[w] # Resting => sync[w].when <= edits

\* A sync that has read the last change of the vacancy has read what it says.
ReadIsCurrent ==
    \A w \in Syncers :
        sync[w] # Resting /\ sync[w].at = "call" /\ sync[w].when = edits => sync[w].saw = posting

LatestIsWritten == ~crossed /\ written = edits => indexed = posting

Coming ==
    \/ \E n \in DOMAIN due : due[n] > 0
    \/ \E v \in Syncers : sync[v] # Resting /\ (sync[v].at = "read" \/ sync[v].when = edits)

ChangeIsComing == written = edits \/ dropped \/ Coming

SyncInv == SyncShape /\ ReadIsCurrent /\ LatestIsWritten /\ ChangeIsComing

LEMMA SyncStart == SyncInit => SyncInv
BY SyncAssumption
   DEF SyncInit, SyncInv, SyncShape, ReadIsCurrent, LatestIsWritten, ChangeIsComing

LEMMA EditKeeps == SyncInv /\ EditVacancy => SyncInv'
<1> SUFFICES ASSUME SyncInv, EditVacancy PROVE SyncInv'
  OBVIOUS
<1> USE SyncAssumption DEF SyncInv
<1>1. /\ edits' = edits + 1 /\ edits \in Nat /\ written' = written /\ written <= edits
      /\ sync' = sync
  BY DEF EditVacancy, SyncShape
<1>2. due' \in [0 .. SyncAttempts - 1 -> Nat] /\ posting' \in {None} \cup Nat
  BY DEF EditVacancy, SyncShape
<1>3. SyncShape'
  BY <1>1, <1>2 DEF SyncShape, Syncing
<1>4. ReadIsCurrent' /\ LatestIsWritten'
  BY <1>1 DEF SyncShape, Syncing, ReadIsCurrent, LatestIsWritten
<1>5. ChangeIsComing'
  <2>1. CASE dropped'
    BY <2>1 DEF ChangeIsComing
  <2>2. CASE due' = [due EXCEPT ![0] = @ + 1]
    <3>1. 0 \in DOMAIN due /\ 0 \in DOMAIN due' /\ due'[0] = due[0] + 1 /\ due[0] \in Nat
      BY <2>2 DEF SyncShape
    <3>2. QED
      BY <3>1 DEF ChangeIsComing, Coming
  <2>3. QED
    BY <2>1, <2>2 DEF EditVacancy, Queues
<1>6. QED
  BY <1>3, <1>4, <1>5

LEMMA TakeKeeps == ASSUME NEW w \in Syncers PROVE SyncInv /\ TakeSync(w) => SyncInv'
<1> SUFFICES ASSUME SyncInv, TakeSync(w) PROVE SyncInv'
  OBVIOUS
<1> USE SyncAssumption DEF SyncInv
<1>1. PICK n \in 0 .. SyncAttempts - 1 :
        /\ due[n] > 0 /\ due' = [due EXCEPT ![n] = @ - 1]
        /\ sync' = [sync EXCEPT ![w] = [at |-> "read", tries |-> n, saw |-> None, when |-> 0]]
  BY DEF TakeSync, SyncShape
<1>2. UNCHANGED <<posting, edits, indexed, crossed, written, dropped>>
  BY DEF TakeSync
<1>3. due' \in [0 .. SyncAttempts - 1 -> Nat]
  BY <1>1 DEF SyncShape
<1>4. [at |-> "read", tries |-> n, saw |-> None, when |-> 0] \in Syncing
  BY DEF Syncing
<1>5. /\ sync' \in [Syncers -> {Resting} \cup Syncing]
      /\ sync'[w] = [at |-> "read", tries |-> n, saw |-> None, when |-> 0]
      /\ \A v \in Syncers \ {w} : sync'[v] = sync[v]
  BY <1>1, <1>4 DEF SyncShape
<1>a. sync'[w].when <= edits
  BY <1>5 DEF SyncShape
<1>6. SyncShape'
  BY <1>2, <1>3, <1>5, <1>a DEF SyncShape
<1>7. ReadIsCurrent' /\ LatestIsWritten'
  BY <1>2, <1>5 DEF ReadIsCurrent, LatestIsWritten
<1>8. sync'[w] # Resting /\ sync'[w].at = "read"
  BY <1>5 DEF Resting
<1>9. ChangeIsComing'
  BY <1>8 DEF ChangeIsComing, Coming
<1>10. QED
  BY <1>6, <1>7, <1>9

LEMMA SyncReadKeeps == ASSUME NEW w \in Syncers PROVE SyncInv /\ ReadVacancy(w) => SyncInv'
<1> SUFFICES ASSUME SyncInv, ReadVacancy(w) PROVE SyncInv'
  OBVIOUS
<1> USE SyncAssumption DEF SyncInv
<1>1. sync[w] \in Syncing
  BY DEF ReadVacancy, SyncShape
<1> DEFINE read == [sync[w] EXCEPT !.at = "call", !.saw = posting, !.when = edits]
<1>2. read.at = "call" /\ read.saw = posting /\ read.when = edits
  BY <1>1 DEF Syncing
<1>a. read \in Syncing
  BY <1>1 DEF Syncing, SyncShape
<1>b. read # Resting
  BY <1>2 DEF Resting
<1>3. /\ sync' = [sync EXCEPT ![w] = read]
      /\ UNCHANGED <<posting, edits, indexed, due, crossed, written, dropped>>
  BY <1>1 DEF ReadVacancy
<1> HIDE DEF read
<1>4. /\ sync'[w] = read /\ \A v \in Syncers \ {w} : sync'[v] = sync[v]
      /\ sync' \in [Syncers -> {Resting} \cup Syncing]
  BY <1>3, <1>a DEF SyncShape
<1>5. SyncShape'
  BY <1>2, <1>3, <1>4 DEF SyncShape
<1>6. ReadIsCurrent' /\ LatestIsWritten'
  BY <1>2, <1>3, <1>4 DEF ReadIsCurrent, LatestIsWritten
<1>7. ChangeIsComing'
  BY <1>2, <1>3, <1>4, <1>b DEF ChangeIsComing, Coming
<1>8. QED
  BY <1>5, <1>6, <1>7

LEMMA IndexWriteKeeps ==
    ASSUME NEW w \in Syncers, SyncInv, sync[w] # Resting, sync[w].at = "call", Write(w),
           UNCHANGED <<posting, edits>>
    PROVE  LatestIsWritten' /\ written' \in Nat /\ written' <= edits
           /\ (sync[w].when = edits \/ written = edits => written' = edits)
<1>1. /\ sync[w].when \in Nat /\ sync[w].when <= edits
      /\ edits \in Nat /\ written \in Nat /\ written <= edits
  BY DEF SyncInv, SyncShape, Syncing
<1>2. CASE sync[w].when < written
  <2>1. crossed'
    BY <1>2, Zenon DEF Write
  <2>2. written' = written
    BY <1>2 DEF Write
  <2>3. QED
    BY <1>1, <1>2, <2>1, <2>2 DEF LatestIsWritten
<1>3. CASE ~(sync[w].when < written)
  <2>1. written' = sync[w].when /\ ~crossed' /\ indexed' = sync[w].saw
    BY <1>3 DEF Write
  <2>2. QED
    BY <1>1, <1>3, <2>1 DEF LatestIsWritten, SyncInv, ReadIsCurrent
<1>4. QED
  BY <1>2, <1>3

\* A call that is over leaves the job at rest.
LEMMA CallKeeps == ASSUME NEW w \in Syncers PROVE SyncInv /\ CallIndex(w) => SyncInv'
<1> SUFFICES ASSUME SyncInv, CallIndex(w) PROVE SyncInv'
  OBVIOUS
<1> USE SyncAssumption DEF SyncInv
<1>1. /\ sync[w] # Resting /\ sync[w].at = "call" /\ Write(w)
      /\ sync' = [sync EXCEPT ![w] = Resting]
      /\ UNCHANGED <<posting, edits, due, dropped>>
  BY DEF CallIndex
<1>2. /\ LatestIsWritten' /\ written' \in Nat /\ written' <= edits
      /\ sync[w].when = edits \/ written = edits => written' = edits
  BY <1>1, IndexWriteKeeps
<1>3. /\ sync'[w] = Resting /\ \A v \in Syncers \ {w} : sync'[v] = sync[v]
      /\ sync' \in [Syncers -> {Resting} \cup Syncing]
  BY <1>1 DEF SyncShape
<1>4. SyncShape'
  BY <1>1, <1>2, <1>3 DEF SyncShape
<1>5. ReadIsCurrent'
  BY <1>1, <1>3 DEF ReadIsCurrent
<1>6. ChangeIsComing'
  <2>1. CASE written = edits \/ sync[w].when = edits
    BY <1>1, <1>2, <2>1 DEF ChangeIsComing
  <2>2. CASE dropped
    BY <1>1, <2>2, Zenon DEF ChangeIsComing
  <2>3. CASE Coming /\ sync[w].when # edits
    BY <1>1, <1>3, <2>3 DEF ChangeIsComing, Coming
  <2>4. QED
    BY <2>1, <2>2, <2>3 DEF ChangeIsComing
<1>7. QED
  BY <1>2, <1>4, <1>5, <1>6

LEMMA FailureKeeps == ASSUME NEW w \in Syncers PROVE SyncInv /\ SyncFails(w) => SyncInv'
<1> SUFFICES ASSUME SyncInv, SyncFails(w) PROVE SyncInv'
  OBVIOUS
<1> USE SyncAssumption DEF SyncInv
<1>1. /\ sync[w] # Resting
      /\ sync' = [sync EXCEPT ![w] = Resting]
      /\ UNCHANGED <<posting, edits>>
  BY DEF SyncFails
<1>2. LatestIsWritten' /\ written' \in Nat /\ written' <= edits
  <2>1. CASE sync[w].at = "call" /\ Write(w)
    BY <1>1, <2>1, IndexWriteKeeps
  <2>2. CASE UNCHANGED <<indexed, written, crossed>>
    BY <1>1, <2>2 DEF SyncShape, LatestIsWritten
  <2>3. QED
    BY <2>1, <2>2 DEF SyncFails
<1>a. written = edits => written' = edits
  <2>1. CASE sync[w].at = "call" /\ Write(w)
    BY <1>1, <2>1, IndexWriteKeeps
  <2>2. CASE UNCHANGED <<indexed, written, crossed>>
    BY <2>2
  <2>3. QED
    BY <2>1, <2>2 DEF SyncFails
<1>3. /\ sync'[w] = Resting /\ \A v \in Syncers \ {w} : sync'[v] = sync[v]
      /\ sync' \in [Syncers -> {Resting} \cup Syncing]
  BY <1>1 DEF SyncShape
<1>5. ReadIsCurrent'
  BY <1>1, <1>3 DEF ReadIsCurrent
<1>6. CASE sync[w].tries + 1 < SyncAttempts
  <2> DEFINE next == sync[w].tries + 1
  <2>1. /\ next \in 0 .. SyncAttempts - 1
    BY <1>1, <1>6 DEF SyncShape, Syncing
  <2>2. due' = [due EXCEPT ![next] = @ + 1]
    BY <1>6 DEF SyncFails
  <2> HIDE DEF next
  <2>3. due' \in [0 .. SyncAttempts - 1 -> Nat] /\ next \in DOMAIN due' /\ due'[next] > 0
    BY <2>1, <2>2 DEF SyncShape
  <2>4. SyncShape'
    BY <1>1, <1>2, <1>3, <2>3 DEF SyncShape
  <2>5. ChangeIsComing'
    BY <2>3 DEF ChangeIsComing, Coming
  <2>6. QED
    BY <1>2, <1>5, <2>4, <2>5
<1>7. CASE ~(sync[w].tries + 1 < SyncAttempts)
  <2>1. due' = due /\ dropped' = (dropped \/ ~(Covered(w) \/ written' = edits))
    BY <1>7, Zenon DEF SyncFails
  <2>2. SyncShape'
    BY <1>1, <1>2, <1>3, <2>1 DEF SyncShape
  <2>3. Covered(w) => Coming'
    BY <1>1, <1>3, <2>1 DEF Covered, Coming
  <2>4. ChangeIsComing'
    BY <1>1, <2>1, <2>3, Zenon DEF ChangeIsComing
  <2>5. QED
    BY <1>2, <1>5, <2>2, <2>4
<1>8. QED
  BY <1>6, <1>7

LEMMA SyncIsInductive == SyncInv /\ [SyncNext]_syncVars => SyncInv'
<1> SUFFICES ASSUME SyncInv, [SyncNext]_syncVars PROVE SyncInv'
  OBVIOUS
<1>1. CASE EditVacancy
  BY <1>1, EditKeeps
<1>2. ASSUME NEW w \in Syncers, TakeSync(w) \/ ReadVacancy(w) PROVE SyncInv'
  BY <1>2, TakeKeeps, SyncReadKeeps
<1>3. ASSUME NEW w \in Syncers, CallIndex(w) \/ SyncFails(w) PROVE SyncInv'
  BY <1>3, CallKeeps, FailureKeeps
<1>4. CASE UNCHANGED syncVars
  BY <1>4 DEF syncVars, SyncInv, SyncShape, Syncing, ReadIsCurrent, LatestIsWritten,
              ChangeIsComing, Coming
<1>5. QED
  BY <1>1, <1>2, <1>3, <1>4 DEF SyncNext

\* However many edits and syncs race (syncVacancyIndex), the index ends up with the
\* vacancy unless an older read was written last or the last sync was lost.
THEOREM IndexEndsRight == SyncSpec => []IndexFollows
<1>1. SyncInv => IndexFollows
  <2> SUFFICES ASSUME SyncInv, Synced PROVE indexed = posting \/ crossed \/ dropped
    BY DEF IndexFollows
  <2>1. ~Coming
    BY SyncAssumption DEF SyncInv, SyncShape, Synced, Coming
  <2>2. QED
    BY <2>1 DEF SyncInv, ChangeIsComing, LatestIsWritten
<1>2. QED
  BY <1>1, SyncStart, SyncIsInductive, PTL DEF SyncSpec

\* Types.
LEMMA SyncTypesStart == SyncInit => SyncTypeOK
<1> SUFFICES ASSUME SyncInit PROVE SyncTypeOK
  OBVIOUS
<1>1. \A T : sync \in [Syncers -> {Resting} \cup T]
  BY DEF SyncInit
<1>2. due \in [0 .. SyncAttempts - 1 -> Nat]
  BY DEF SyncInit
<1>3. /\ posting \in Postings /\ indexed \in Postings /\ {edits, written} \subseteq 0 .. MaxEdits
      /\ crossed \in BOOLEAN /\ dropped \in BOOLEAN /\ syncFaults \in 0 .. MaxSyncFaults
  <2>1. /\ posting = None /\ indexed = None /\ edits = 0 /\ written = 0
        /\ crossed = FALSE /\ dropped = FALSE /\ syncFaults = 0
    BY Zenon DEF SyncInit
  <2>2. crossed \in BOOLEAN /\ dropped \in BOOLEAN
    BY <2>1, Zenon
  <2>3. QED
    BY <2>1, <2>2, SyncAssumption DEF Postings
<1>4. QED
  BY <1>1, <1>2, <1>3, Zenon DEF SyncTypeOK

LEMMA SyncTypesStep ==
    SyncInv /\ SyncTypeOK /\ [SyncNext]_syncVars => SyncTypeOK'
<1> SUFFICES ASSUME SyncInv, SyncTypeOK, [SyncNext]_syncVars PROVE SyncTypeOK'
  OBVIOUS
<1> DEFINE Going == [at : {"read", "call"}, tries : 0 .. SyncAttempts - 1, saw : Postings,
                     when : 0 .. MaxEdits]
<1> USE SyncAssumption
<1>1. CASE UNCHANGED syncVars
  BY <1>1 DEF syncVars, SyncTypeOK
<1>2. CASE EditVacancy
  <2>1. edits' \in 0 .. MaxEdits /\ posting' \in Postings
    BY <1>2 DEF EditVacancy, SyncTypeOK, Postings
  <2>2. due' \in [0 .. SyncAttempts - 1 -> Nat]
    BY <1>2 DEF EditVacancy, SyncTypeOK
  <2>3. syncFaults' \in 0 .. MaxSyncFaults /\ dropped' \in BOOLEAN
    <3>1. syncFaults \in 0 .. MaxSyncFaults /\ dropped \in BOOLEAN
      BY DEF SyncTypeOK
    <3>2. CASE dropped' = FALSE /\ UNCHANGED syncFaults
      BY <3>1, <3>2
    <3>3. CASE SyncFault /\ dropped' = TRUE
      BY <3>1, <3>3 DEF SyncFault
    <3>4. QED
      BY <1>2, <3>2, <3>3 DEF EditVacancy
  <2>4. QED
    BY <1>2, <2>1, <2>2, <2>3 DEF EditVacancy, SyncTypeOK
<1>3. ASSUME NEW w \in Syncers, TakeSync(w) PROVE SyncTypeOK'
  <2>1. PICK n \in 0 .. SyncAttempts - 1 :
          /\ due[n] > 0 /\ due' = [due EXCEPT ![n] = @ - 1]
          /\ sync' = [sync EXCEPT ![w] = [at |-> "read", tries |-> n, saw |-> None, when |-> 0]]
    BY <1>3 DEF TakeSync, SyncTypeOK
  <2>2. [at |-> "read", tries |-> n, saw |-> None, when |-> 0] \in Going
    BY DEF Postings
  <2>3. sync' \in [Syncers -> {Resting} \cup Going]
    BY <2>1, <2>2 DEF SyncTypeOK
  <2>4. due' \in [0 .. SyncAttempts - 1 -> Nat]
    BY <2>1 DEF SyncTypeOK
  <2>5. QED
    BY <1>3, <2>3, <2>4 DEF TakeSync, SyncTypeOK
<1>4. ASSUME NEW w \in Syncers, ReadVacancy(w) PROVE SyncTypeOK'
  <2>1. sync[w] \in Going /\ posting \in Postings /\ edits \in 0 .. MaxEdits
    BY <1>4 DEF ReadVacancy, SyncTypeOK
  <2>2. [sync[w] EXCEPT !.at = "call", !.saw = posting, !.when = edits] \in Going
    BY <2>1
  <2>3. sync' \in [Syncers -> {Resting} \cup Going]
    BY <1>4, <2>2 DEF ReadVacancy, SyncTypeOK
  <2>4. QED
    BY <1>4, <2>3 DEF ReadVacancy, SyncTypeOK
<1>5. ASSUME NEW w \in Syncers, sync[w] # Resting, Write(w)
      PROVE  indexed' \in Postings /\ written' \in 0 .. MaxEdits /\ crossed' \in BOOLEAN
  <2>1. sync[w] \in Going /\ written \in 0 .. MaxEdits
    BY <1>5 DEF SyncTypeOK
  <2>2. QED
    BY <1>5, <2>1 DEF Write
<1>6. ASSUME NEW w \in Syncers, CallIndex(w) \/ SyncFails(w) PROVE SyncTypeOK'
  <2>1. sync[w] # Resting /\ sync' = [sync EXCEPT ![w] = Resting] /\ UNCHANGED <<posting, edits>>
    BY <1>6 DEF CallIndex, SyncFails
  <2>2. sync' \in [Syncers -> {Resting} \cup Going]
    BY <2>1 DEF SyncTypeOK
  <2>3. indexed' \in Postings /\ written' \in 0 .. MaxEdits /\ crossed' \in BOOLEAN
    <3>1. CASE Write(w)
      BY <1>5, <2>1, <3>1
    <3>2. CASE UNCHANGED <<indexed, written, crossed>>
      BY <3>2 DEF SyncTypeOK
    <3>3. QED
      BY <1>6, <3>1, <3>2 DEF CallIndex, SyncFails
  <2>4. syncFaults' \in 0 .. MaxSyncFaults
    BY <1>6 DEF CallIndex, SyncFails, SyncFault, SyncTypeOK
  <2>5. due' \in [0 .. SyncAttempts - 1 -> Nat]
    <3>1. CASE due' = due
      BY <3>1 DEF SyncTypeOK
    <3>2. CASE due' = [due EXCEPT ![sync[w].tries + 1] = @ + 1]
      <4>1. due \in [0 .. SyncAttempts - 1 -> Nat] /\ sync[w].tries + 1 \in Nat
        BY <2>1 DEF SyncTypeOK
      <4> DEFINE next == sync[w].tries + 1
      <4> HIDE DEF next
      <4>2. due' = [due EXCEPT ![next] = @ + 1]
        BY <3>2 DEF next
      <4>3. \A n \in 0 .. SyncAttempts - 1 : due'[n] \in Nat
        BY <4>1, <4>2
      <4>4. QED
        BY <4>1, <4>2, <4>3
    <3>3. QED
      BY <1>6, <3>1, <3>2 DEF CallIndex, SyncFails
  <2>6. dropped' \in BOOLEAN
    BY <1>6 DEF CallIndex, SyncFails, SyncTypeOK
  <2>7. QED
    BY <2>1, <2>2, <2>3, <2>4, <2>5, <2>6 DEF SyncTypeOK
<1>7. QED
  BY <1>1, <1>2, <1>3, <1>4, <1>6 DEF SyncNext

-----------------------------------------------------------------------------
(* The job matches.                                                        *)

Fields == {"at", "revision", "sources", "intent", "catalogue", "refresh", "run", "entries",
           "joined", "seen", "retried"}

\* A run, or what a reader knows: older than the account, or of no deleted source.
Fits(x) ==
    /\ x.revision \in Nat /\ x.revision <= revision
    /\ x.revision = revision => x.sources \subseteq active

Known(x) ==
    /\ DOMAIN x = Fields /\ x.at # "idle"
    /\ Fits(x)
    /\ x.run # None => Fits(x.run)
    /\ x.at \in {"page", "end"} /\ x.run # None
          => x.run.revision = x.revision /\ x.run.intent = x.intent
    /\ x.at = "recheck" => x.run.intent = x.intent

Making(s) == Reads(s, "begin") \/ Reads(s, "commit")

JoinedIsMaking ==
    \A r \in Readers : Reads(r, "wait") =>
        /\ reader[r].joined \in Readers /\ Making(reader[r].joined)
        /\ SameKey(reader[r], reader[reader[r].joined])

MatchInv ==
    /\ revision \in Nat
    /\ reader = [r \in Readers |-> reader[r]]
    /\ stored # None => Fits(stored)
    /\ \A r \in Readers : reader[r] # NoReader => Known(reader[r])
    /\ JoinedIsMaking

LEMMA MatchStart == MatchInit => MatchInv
BY DEF MatchInit, MatchInv, JoinedIsMaking, Reads

\* One reader goes on.  One that others may have joined keeps its inputs.
LEMMA Learns ==
    ASSUME MatchInv, NEW r \in Readers, NEW x, Learn(r, x),
           UNCHANGED <<revision, active, stored>>,
           x # NoReader => Known(x),
           Making(r) => x # NoReader /\ x.at \in {"begin", "commit"} /\ SameKey(x, reader[r]),
           x # NoReader /\ x.at = "wait" =>
               /\ x.joined \in Readers \ {r} /\ Making(x.joined)
               /\ SameKey(x, reader[x.joined])
    PROVE  MatchInv'
<1> USE DEF MatchInv
<1>1. reader' = [reader EXCEPT ![r] = x]
  BY DEF Learn
<1>2. reader'[r] = x /\ \A s \in Readers \ {r} : reader'[s] = reader[s]
  BY <1>1
<1>3. reader' = [s \in Readers |-> reader'[s]]
  BY <1>1
<1>4. \A s \in Readers : (reader[s] # NoReader => Known(reader[s]))'
  BY <1>2 DEF Known, Fits
<1>5. JoinedIsMaking'
  <2> SUFFICES ASSUME NEW s \in Readers, Reads(s, "wait")'
               PROVE  (/\ reader[s].joined \in Readers /\ Making(reader[s].joined)
                       /\ SameKey(reader[s], reader[reader[s].joined]))'
    BY DEF JoinedIsMaking
  <2>1. CASE s = r
    BY <1>2, <2>1 DEF Reads, Making
  <2>2. CASE s # r /\ reader[s].joined # r
    BY <1>2, <2>2 DEF Reads, Making, JoinedIsMaking
  <2>3. CASE s # r /\ reader[s].joined = r
    <3>1. Making(r) /\ SameKey(reader[s], reader[r]) /\ reader'[s] = reader[s]
      BY <1>2, <2>3 DEF Reads, JoinedIsMaking
    <3>2. SameKey(reader[s], x)
      BY <3>1 DEF SameKey
    <3>3. QED
      BY <1>2, <2>3, <3>1, <3>2 DEF Reads, Making
  <2>4. QED
    BY <2>1, <2>2, <2>3
<1>6. QED
  BY <1>3, <1>4, <1>5 DEF Fits

\* What a reader learns before it ranks.
LEMMA LooksUp ==
    ASSUME MatchInv, NEW r \in Readers, NEW x, Learn(r, x),
           UNCHANGED <<revision, active, stored>>,
           ~Making(r), x = NoReader \/ (Known(x) /\ x.at # "wait")
    PROVE  MatchInv'
BY Learns

LEMMA ReadAccountKeeps ==
    ASSUME NEW r \in Readers, NEW refresh, MatchInv, ReadAccount(r, refresh) PROVE MatchInv'
<1> DEFINE x == [at |-> "sources", revision |-> revision, sources |-> {},
                 intent |-> intent, catalogue |-> FALSE, refresh |-> refresh,
                 run |-> None, entries |-> FALSE, joined |-> None, seen |-> 0,
                 retried |-> FALSE]
<1>1. Learn(r, x) /\ UNCHANGED <<revision, active, stored>> /\ ~Making(r)
  BY DEF ReadAccount, Inputs, Making, Reads
<1>2. DOMAIN x = Fields
  BY DEF Fields
<1>3. Known(x) /\ x.at # "wait"
  BY <1>2 DEF Known, Fits, MatchInv
<1> HIDE DEF x
<1>4. QED
  BY <1>1, <1>3, LooksUp

LEMMA InputsKeep ==
    ASSUME NEW r \in Readers, MatchInv, ReadSources(r) \/ ReadIntent(r) \/ LoadUniverse(r)
    PROVE  MatchInv'
<1>1. Known(reader[r]) /\ ~Making(r) /\ UNCHANGED <<revision, active, stored>>
  BY DEF ReadSources, ReadIntent, LoadUniverse, Inputs, MatchInv, Making, Reads
<1>2. DOMAIN reader[r] = Fields
  BY <1>1 DEF Known
<1> DEFINE x == [reader[r] EXCEPT !.at = "intent", !.sources = active]
           y == [reader[r] EXCEPT !.at = "universe", !.intent = intent]
           z(step) == [reader[r] EXCEPT !.catalogue = catalogue, !.at = step]
<1>3. Known(x) /\ x.at # "wait"
  BY <1>1, <1>2 DEF Known, Fits, Fields
<1>4. ReadIntent(r) => Known(y) /\ y.at # "wait"
  BY <1>1, <1>2 DEF Known, Fits, Fields
<1>5. \A step \in {"compute", "lookup"} : Known(z(step)) /\ z(step).at # "wait"
  BY <1>1, <1>2 DEF Known, Fits, Fields
<1>6. CASE ReadSources(r)
  <2>1. Learn(r, NoReader) \/ Learn(r, x)
    BY <1>6 DEF ReadSources
  <2> HIDE DEF x
  <2>2. QED
    BY <1>1, <1>3, <2>1, LooksUp
<1>7. CASE ReadIntent(r)
  <2>1. Learn(r, y)
    BY <1>7 DEF ReadIntent
  <2> HIDE DEF y
  <2>2. QED
    BY <1>1, <1>4, <1>7, <2>1, LooksUp
<1>8. CASE LoadUniverse(r)
  <2>1. \E step \in {"compute", "lookup"} : Learn(r, z(step))
    BY <1>8 DEF LoadUniverse
  <2> HIDE DEF z
  <2>2. QED
    BY <1>1, <1>5, <2>1, LooksUp
<1>9. QED
  BY <1>6, <1>7, <1>8

LEMMA LookupKeeps == ASSUME NEW r \in Readers, MatchInv, Lookup(r) PROVE MatchInv'
<1>1. Known(reader[r]) /\ ~Making(r) /\ UNCHANGED <<revision, active, stored>>
  BY DEF Lookup, Inputs, MatchInv, Making, Reads
<1>2. DOMAIN reader[r] = Fields
  BY <1>1 DEF Known
<1> DEFINE x == [reader[r] EXCEPT !.at = "page", !.run = stored]
           y == [reader[r] EXCEPT !.at = "compute"]
<1>3. Current(stored, reader[r]) => Known(x) /\ x.at # "wait"
  BY <1>1, <1>2 DEF Known, Fits, Fields, Current, MatchInv
<1>4. Known(y) /\ y.at # "wait"
  BY <1>1, <1>2 DEF Known, Fits, Fields
<1>5. \/ Current(stored, reader[r]) /\ Learn(r, x)
      \/ Learn(r, y)
  BY DEF Lookup
<1> HIDE DEF x, y
<1>6. QED
  BY <1>1, <1>3, <1>4, <1>5, LooksUp

LEMMA JoinKeeps ==
    ASSUME NEW r \in Readers, NEW s \in Readers, MatchInv, Join(r, s) PROVE MatchInv'
<1>1. /\ Known(reader[r]) /\ ~Making(r) /\ Making(s) /\ SameKey(reader[r], reader[s])
      /\ UNCHANGED <<revision, active, stored>>
  BY DEF Join, Inputs, MatchInv, Making, Reads
<1>2. DOMAIN reader[r] = Fields
  BY <1>1 DEF Known
<1> DEFINE x == [reader[r] EXCEPT !.at = "wait", !.joined = s]
<1>3. Known(x) /\ x.joined = s /\ SameKey(x, reader[s])
  BY <1>1, <1>2 DEF Known, Fits, Fields, SameKey
<1>4. Learn(r, x)
  BY DEF Join
<1> HIDE DEF x
<1>5. QED
  BY <1>1, <1>3, <1>4, Learns

LEMMA ComputeKeeps ==
    ASSUME NEW r \in Readers, MatchInv, Compute(r) \/ BeginStore(r) PROVE MatchInv'
<1>1. Known(reader[r]) /\ UNCHANGED <<revision, active, stored>>
  BY DEF Compute, BeginStore, Inputs, MatchInv, Reads
<1>2. DOMAIN reader[r] = Fields
  BY <1>1 DEF Known
<1> DEFINE x == [reader[r] EXCEPT !.at = "begin"]
           y == [reader[r] EXCEPT !.at = "commit", !.seen = IdOf(stored)]
<1>3. Known(x) /\ x # NoReader /\ x.at = "begin" /\ SameKey(x, reader[r])
  BY <1>1, <1>2 DEF Known, Fits, Fields, SameKey, NoReader
<1>4. Known(y) /\ y # NoReader /\ y.at = "commit" /\ SameKey(y, reader[r])
  BY <1>1, <1>2 DEF Known, Fits, Fields, SameKey, NoReader
<1>5. Learn(r, x) \/ Learn(r, y)
  BY DEF Compute, BeginStore
<1> HIDE DEF x, y
<1>6. QED
  BY <1>1, <1>3, <1>4, <1>5, Learns

LEMMA RecheckKeeps ==
    ASSUME NEW r \in Readers, MatchInv, Recheck(r) \/ Page(r) \/ Finish(r) PROVE MatchInv'
<1>1. Known(reader[r]) /\ ~Making(r) /\ UNCHANGED <<revision, active, stored>>
  BY DEF Recheck, Page, Finish, Inputs, MatchInv, Making, Reads
<1>2. DOMAIN reader[r] = Fields
  BY <1>1 DEF Known
<1> DEFINE x == [reader[r] EXCEPT !.at = "page", !.run = stored]
           y == [reader[r] EXCEPT !.at = "end", !.run = None]
           z(e) == [reader[r] EXCEPT !.at = "end", !.entries = e]
<1>3. CASE Finish(r)
  BY <1>1, <1>3, LooksUp DEF Finish
<1>4. CASE Page(r)
  <2>1. \A e : Known(z(e)) /\ z(e).at # "wait"
    BY <1>1, <1>2, <1>4 DEF Known, Fits, Fields, Page, Reads
  <2>2. \E e : Learn(r, z(e))
    BY <1>4 DEF Page
  <2> HIDE DEF z
  <2>3. QED
    BY <1>1, <2>1, <2>2, LooksUp
<1>5. CASE Recheck(r)
  <2>1. StillCurrent(reader[r].run, r) => Known(x) /\ x.at # "wait"
    BY <1>1, <1>2, <1>5 DEF Known, Fits, Fields, StillCurrent, Current, MatchInv, Recheck, Reads
  <2>2. Known(y) /\ y.at # "wait"
    BY <1>1, <1>2 DEF Known, Fits, Fields
  <2>3. \/ StillCurrent(reader[r].run, r) /\ Learn(r, x)
        \/ Learn(r, y)
    BY <1>5 DEF Recheck
  <2> HIDE DEF x, y
  <2>4. QED
    BY <1>1, <2>1, <2>2, <2>3, LooksUp
<1>6. QED
  BY <1>3, <1>4, <1>5

\* Readers that share a ranking are given it together.
LEMMA CommitKeeps == ASSUME NEW r \in Readers, MatchInv, CommitStore(r) PROVE MatchInv'
<1> DEFINE made == Made(r)
           x(s) == [reader[s] EXCEPT !.at = "recheck", !.joined = None, !.run = made]
<1>1. Known(reader[r]) /\ Reads(r, "commit") /\ UNCHANGED <<revision, active>> /\ stored' = made
  BY DEF CommitStore, Inputs, MatchInv, Reads
<1>2. Fits(made) /\ made.intent = reader[r].intent
  BY <1>1 DEF Known, Fits, Made
<1>3. \A s \in Waiting(r) : s \in Readers /\ Known(reader[s]) /\ reader[s].intent = reader[r].intent
  BY DEF Waiting, MatchInv, Reads, JoinedIsMaking, SameKey
<1>4. /\ \A s \in Waiting(r) \cup {r} : reader'[s] = x(s)
      /\ \A s \in Readers \ (Waiting(r) \cup {r}) : reader'[s] = reader[s]
      /\ reader' = [s \in Readers |-> reader'[s]]
  BY <1>3 DEF CommitStore
<1> HIDE DEF made
<1>5. \A s \in Waiting(r) \cup {r} : Known(x(s)) /\ x(s).at = "recheck"
  <2> SUFFICES ASSUME NEW s \in Waiting(r) \cup {r} PROVE Known(x(s)) /\ x(s).at = "recheck"
    OBVIOUS
  <2>1. Known(reader[s]) /\ reader[s].intent = made.intent
    BY <1>1, <1>2, <1>3
  <2>2. DOMAIN reader[s] = Fields
    BY <2>1 DEF Known
  <2>3. QED
    BY <1>2, <2>1, <2>2 DEF Known, Fits, Fields
<1> HIDE DEF x
<1>6. \A s \in Readers : (reader[s] # NoReader => Known(reader[s]))'
  <2> SUFFICES ASSUME NEW s \in Readers, reader'[s] # NoReader PROVE Known(reader[s])'
    OBVIOUS
  <2>1. Known(reader'[s])
    BY <1>4, <1>5 DEF MatchInv
  <2>2. QED
    BY <1>1, <2>1 DEF Known, Fits
<1>7. JoinedIsMaking'
  <2> SUFFICES ASSUME NEW s \in Readers, Reads(s, "wait")'
               PROVE  (/\ reader[s].joined \in Readers /\ Making(reader[s].joined)
                       /\ SameKey(reader[s], reader[reader[s].joined]))'
    BY DEF JoinedIsMaking
  <2>1. s \notin Waiting(r) \cup {r} /\ reader'[s] = reader[s] /\ Reads(s, "wait")
    BY <1>4, <1>5 DEF Reads
  <2>2. /\ reader[s].joined \in Readers \ {r} /\ Making(reader[s].joined)
        /\ SameKey(reader[s], reader[reader[s].joined])
    BY <2>1 DEF MatchInv, JoinedIsMaking, Waiting
  <2>3. reader[s].joined \notin Waiting(r)
    BY <2>2 DEF Making, Reads, Waiting
  <2>4. QED
    BY <1>4, <2>1, <2>2, <2>3 DEF Making, Reads
<1>8. QED
  BY <1>1, <1>2, <1>4, <1>6, <1>7 DEF MatchInv, Fits

LEMMA ConflictKeeps == ASSUME NEW r \in Readers, MatchInv, StoreConflict(r) PROVE MatchInv'
<1>1. Known(reader[r]) /\ Reads(r, "commit") /\ UNCHANGED <<revision, active, stored>>
  BY DEF StoreConflict, Inputs, MatchInv, Reads
<1>2. CASE reader[r].retried
  <2>1. /\ \A s \in Readers : s \in Waiting(r) \cup {r} => reader'[s] = NoReader
        /\ \A s \in Readers : s \notin Waiting(r) \cup {r} => reader'[s] = reader[s]
        /\ reader' = [s \in Readers |-> reader'[s]]
    BY <1>2 DEF StoreConflict
  <2>2. \A s \in Readers : (reader[s] # NoReader => Known(reader[s]))'
    BY <1>1, <2>1 DEF MatchInv, Known, Fits
  <2>3. JoinedIsMaking'
    <3> SUFFICES ASSUME NEW s \in Readers, Reads(s, "wait")'
                 PROVE  (/\ reader[s].joined \in Readers /\ Making(reader[s].joined)
                         /\ SameKey(reader[s], reader[reader[s].joined]))'
      BY DEF JoinedIsMaking
    <3>1. s \notin Waiting(r) \cup {r} /\ reader'[s] = reader[s] /\ Reads(s, "wait")
      BY <2>1 DEF Reads
    <3>2. /\ reader[s].joined \in Readers \ {r} /\ Making(reader[s].joined)
          /\ SameKey(reader[s], reader[reader[s].joined])
      BY <3>1 DEF MatchInv, JoinedIsMaking, Waiting
    <3>3. reader[s].joined \notin Waiting(r)
      BY <3>2 DEF Making, Reads, Waiting
    <3>4. QED
      BY <2>1, <3>1, <3>2, <3>3 DEF Making, Reads
  <2>4. QED
    BY <1>1, <2>1, <2>2, <2>3 DEF MatchInv, Fits
<1>3. CASE ~reader[r].retried
  <2> DEFINE x == [reader[r] EXCEPT !.at = "begin", !.retried = TRUE]
  <2>1. DOMAIN reader[r] = Fields
    BY <1>1 DEF Known
  <2>2. Known(x) /\ x # NoReader /\ x.at = "begin" /\ SameKey(x, reader[r])
    BY <1>1, <2>1 DEF Known, Fits, Fields, SameKey, NoReader
  <2>3. Learn(r, x)
    BY <1>3 DEF StoreConflict
  <2> HIDE DEF x
  <2>4. QED
    BY <1>1, <2>2, <2>3, Learns
<1>4. QED
  BY <1>2, <1>3

\* What the account says moves on: what is older than it stays so.
LEMMA AccountKeeps ==
    ASSUME MatchInv, UNCHANGED <<stored, reader>>,
           \/ revision' = revision + 1
           \/ UNCHANGED <<revision, active>>
    PROVE  MatchInv'
BY DEF MatchInv, Known, Fits, JoinedIsMaking, Making, Reads, SameKey

LEMMA MatchStep == MatchInv /\ [MatchNext]_matchVars => MatchInv'
<1> SUFFICES ASSUME MatchInv, [MatchNext]_matchVars PROVE MatchInv'
  OBVIOUS
<1>1. ASSUME NEW r \in Readers,
             \/ \E refresh \in BOOLEAN : ReadAccount(r, refresh)
             \/ ReadSources(r) \/ ReadIntent(r) \/ LoadUniverse(r) \/ Lookup(r)
      PROVE  MatchInv'
  BY <1>1, ReadAccountKeeps, InputsKeep, LookupKeeps
<1>2. ASSUME NEW r \in Readers,
             \/ \E s \in Readers : Join(r, s)
             \/ Compute(r) \/ BeginStore(r)
      PROVE  MatchInv'
  BY <1>2, JoinKeeps, ComputeKeeps
<1>3. ASSUME NEW r \in Readers,
             CommitStore(r) \/ StoreConflict(r) \/ Recheck(r) \/ Page(r) \/ Finish(r)
      PROVE  MatchInv'
  BY <1>3, CommitKeeps, ConflictKeeps, RecheckKeeps
<1>4. ASSUME NEW s \in Sources, DeleteSource(s) PROVE MatchInv'
  BY <1>4, AccountKeeps DEF DeleteSource, AfterDeletion
<1>5. ASSUME NEW i \in Intents, ChangeIntent(i) PROVE MatchInv'
  BY <1>5, AccountKeeps DEF ChangeIntent
<1>6. CASE BumpEvidence \/ ChangeCatalogue
  BY <1>6, AccountKeeps DEF BumpEvidence, ChangeCatalogue
<1>7. CASE UNCHANGED matchVars
  BY <1>7, AccountKeeps DEF matchVars
<1>8. QED
  BY <1>1, <1>2, <1>3, <1>4, <1>5, <1>6, <1>7 DEF MatchNext

\* candidate-account.service.ts: a ranking that counts as current rests on no source
\* deleted since, whatever readers join, conflict or retry.
THEOREM CurrentRunsAreClean == MatchSpec => []CurrentRunIsClean
<1>1. MatchInv => CurrentRunIsClean
  BY DEF MatchInv, CurrentRunIsClean, Known, Fits, Reads, Stale
<1>2. QED
  BY <1>1, MatchStart, MatchStep, PTL DEF MatchSpec

\* A shared ranking under way is shared with readers of the same intent only.
THEOREM OwnIntentOnly == MatchSpec => []NeverANeighboursIntent
<1>1. MatchInv => NeverANeighboursIntent
  BY DEF MatchInv, NeverANeighboursIntent, Known, Reads
<1>2. QED
  BY <1>1, MatchStart, MatchStep, PTL DEF MatchSpec

\* Types.
LEMMA MatchTypesStart == MatchInit => MatchTypeOK
<1> SUFFICES ASSUME MatchInit PROVE MatchTypeOK
  OBVIOUS
<1>1. \A T : reader \in [Readers -> {NoReader} \cup T]
  BY DEF MatchInit
<1>2. /\ revision \in Revisions /\ active \subseteq Sources /\ intent \in Intents
      /\ catalogue \in BOOLEAN /\ stored = None /\ runs \in 0 .. MaxRuns
  <2>1. /\ revision = 0 /\ active \in SUBSET Sources /\ intent \in Intents
        /\ catalogue = FALSE /\ stored = None /\ runs = 0
    BY Zenon DEF MatchInit
  <2>2. catalogue \in BOOLEAN /\ active \subseteq Sources
    BY <2>1, Zenon
  <2>3. QED
    BY <2>1, <2>2, RunsAssumption DEF Revisions
<1>3. stored \in Run \cup {None}
  BY <1>2
<1>4. QED
  BY <1>1, <1>2, <1>3, Zenon DEF MatchTypeOK

\* One reader goes on.
LEMMA LearnTypes ==
    ASSUME MatchTypeOK, NEW r \in Readers, NEW x \in {NoReader} \cup Knowledge, Learn(r, x),
           UNCHANGED <<revision, active, intent, catalogue, stored, runs>>
    PROVE  MatchTypeOK'
BY DEF MatchTypeOK, Learn

LEMMA KnowsTypes ==
    ASSUME MatchTypeOK, NEW r \in Readers, reader[r] # NoReader PROVE reader[r] \in Knowledge
BY DEF MatchTypeOK

LEMMA InputsTypes ==
    ASSUME MatchTypeOK, NEW r \in Readers,
           \/ \E refresh \in BOOLEAN : ReadAccount(r, refresh)
           \/ ReadSources(r) \/ ReadIntent(r) \/ LoadUniverse(r)
           \/ \E s \in Readers : Join(r, s)
           \/ Compute(r)
    PROVE  MatchTypeOK'
<1>1. /\ revision \in Revisions /\ active \subseteq Sources /\ intent \in Intents
      /\ catalogue \in BOOLEAN
  BY DEF MatchTypeOK
<1>2. UNCHANGED <<revision, active, intent, catalogue, stored, runs>>
  BY DEF ReadAccount, ReadSources, ReadIntent, LoadUniverse, Join, Compute, Inputs
<1>3. SUFFICES \E x \in {NoReader} \cup Knowledge : Learn(r, x)
  BY <1>2, LearnTypes
<1>4. ASSUME NEW refresh \in BOOLEAN, ReadAccount(r, refresh)
      PROVE  \E x \in {NoReader} \cup Knowledge : Learn(r, x)
  <2> DEFINE x == [at |-> "sources", revision |-> revision, sources |-> {},
                 intent |-> intent, catalogue |-> FALSE, refresh |-> refresh,
                 run |-> None, entries |-> FALSE, joined |-> None, seen |-> 0,
                 retried |-> FALSE]
  <2>1. x \in Knowledge
    BY <1>1, RunsAssumption DEF Knowledge
  <2>2. Learn(r, x)
    BY <1>4 DEF ReadAccount
  <2> HIDE DEF x
  <2>3. QED
    BY <2>1, <2>2
<1>5. CASE reader[r] # NoReader
  <2>1. reader[r] \in Knowledge
    BY <1>5, KnowsTypes
  <2> DEFINE sources == [reader[r] EXCEPT !.at = "intent", !.sources = active]
             wanted == [reader[r] EXCEPT !.at = "universe", !.intent = intent]
             listed(step) == [reader[r] EXCEPT !.catalogue = catalogue, !.at = step]
             joined(s) == [reader[r] EXCEPT !.at = "wait", !.joined = s]
             begun == [reader[r] EXCEPT !.at = "begin"]
  <2>2. sources \in Knowledge /\ wanted \in Knowledge /\ begun \in Knowledge
    BY <1>1, <2>1 DEF Knowledge
  <2>3. \A step \in {"compute", "lookup"} : listed(step) \in Knowledge
    BY <1>1, <2>1 DEF Knowledge
  <2>4. \A s \in Readers : joined(s) \in Knowledge
    BY <2>1 DEF Knowledge
  <2>5. \/ \E refresh \in BOOLEAN : ReadAccount(r, refresh)
        \/ Learn(r, NoReader) \/ Learn(r, sources) \/ Learn(r, wanted) \/ Learn(r, begun)
        \/ \E step \in {"compute", "lookup"} : Learn(r, listed(step))
        \/ \E s \in Readers : Learn(r, joined(s))
    BY DEF ReadSources, ReadIntent, LoadUniverse, Join, Compute
  <2> HIDE DEF sources, wanted, listed, joined, begun
  <2>6. QED
    BY <1>4, <2>2, <2>3, <2>4, <2>5
<1>6. QED
  BY <1>4, <1>5 DEF ReadSources, ReadIntent, LoadUniverse, Join, Compute, Reads

LEMMA RunsTypes ==
    ASSUME MatchTypeOK, NEW r \in Readers,
           Lookup(r) \/ BeginStore(r) \/ Recheck(r) \/ Page(r) \/ Finish(r)
    PROVE  MatchTypeOK'
<1>1. stored \in Run \cup {None} /\ reader[r] \in Knowledge
  BY KnowsTypes DEF Lookup, BeginStore, Recheck, Page, Finish, Reads, MatchTypeOK
<1>2. UNCHANGED <<revision, active, intent, catalogue, stored, runs>>
  BY DEF Lookup, BeginStore, Recheck, Page, Finish, Inputs
<1>3. IdOf(stored) \in 0 .. MaxRuns
  BY <1>1, RunsAssumption DEF IdOf, Run
<1> DEFINE found == [reader[r] EXCEPT !.at = "page", !.run = stored]
           asked == [reader[r] EXCEPT !.at = "compute"]
           seen == [reader[r] EXCEPT !.at = "commit", !.seen = IdOf(stored)]
           empty == [reader[r] EXCEPT !.at = "end", !.run = None]
           shown(e) == [reader[r] EXCEPT !.at = "end", !.entries = e]
<1>4. found \in Knowledge /\ asked \in Knowledge /\ seen \in Knowledge /\ empty \in Knowledge
  BY <1>1, <1>3 DEF Knowledge
<1>5. \A e \in BOOLEAN : shown(e) \in Knowledge
  BY <1>1 DEF Knowledge
<1>6. \/ Learn(r, NoReader) \/ Learn(r, found) \/ Learn(r, asked) \/ Learn(r, seen)
      \/ Learn(r, empty) \/ \E e \in BOOLEAN : Learn(r, shown(e))
  BY DEF Lookup, BeginStore, Recheck, Page, Finish
<1> HIDE DEF found, asked, seen, empty, shown
<1>7. QED
  BY <1>2, <1>4, <1>5, <1>6, LearnTypes

LEMMA StoreTypes ==
    ASSUME MatchTypeOK, NEW r \in Readers, CommitStore(r) \/ StoreConflict(r)
    PROVE  MatchTypeOK'
<1>1. reader[r] \in Knowledge /\ UNCHANGED <<revision, active, intent, catalogue>>
  BY KnowsTypes DEF CommitStore, StoreConflict, Reads, Inputs
<1>2. CASE CommitStore(r)
  <2> DEFINE given(s) == [reader[s] EXCEPT !.at = "recheck", !.joined = None, !.run = Made(r)]
  <2>1. runs' \in 0 .. MaxRuns /\ runs + 1 \in 0 .. MaxRuns /\ stored' = Made(r)
    <3>1. runs < MaxRuns /\ runs' = runs + 1 /\ stored' = Made(r) /\ runs \in 0 .. MaxRuns
      BY <1>2, Zenon DEF CommitStore, MatchTypeOK
    <3>2. QED
      BY <3>1, RunsAssumption
  <2>a. Made(r) \in Run
    BY <1>1, <2>1 DEF Made, Run, Knowledge
  <2>2. ASSUME NEW s \in Waiting(r) \cup {r} PROVE given(s) \in Knowledge
    <3>1. reader[s] \in Knowledge
      BY <1>1, <2>2, KnowsTypes DEF Waiting, Reads
    <3>2. QED
      BY <2>a, <3>1 DEF Knowledge
  <2>3. reader' = [s \in Readers |-> IF s \in Waiting(r) \cup {r} THEN given(s) ELSE reader[s]]
    BY <1>2 DEF CommitStore
  <2> HIDE DEF given
  <2>4. reader' \in [Readers -> {NoReader} \cup Knowledge]
    <3>1. ASSUME NEW s \in Readers
          PROVE  (IF s \in Waiting(r) \cup {r} THEN given(s) ELSE reader[s])
                    \in {NoReader} \cup Knowledge
      BY <2>2 DEF MatchTypeOK
    <3>2. QED
      BY <2>3, <3>1
  <2>5. QED
    BY <1>1, <2>1, <2>a, <2>4 DEF MatchTypeOK
<1>3. CASE StoreConflict(r)
  <2> DEFINE again == [reader[r] EXCEPT !.at = "begin", !.retried = TRUE]
  <2>1. again \in Knowledge
    BY <1>1 DEF Knowledge
  <2>2. UNCHANGED <<stored, runs>>
        /\ \/ Learn(r, again)
           \/ reader' = [s \in Readers |->
                 IF s \in Waiting(r) \cup {r} THEN NoReader ELSE reader[s]]
    BY <1>3 DEF StoreConflict
  <2> HIDE DEF again
  <2>3. reader' \in [Readers -> {NoReader} \cup Knowledge]
    BY <2>1, <2>2 DEF MatchTypeOK, Learn
  <2>4. QED
    BY <1>1, <2>2, <2>3 DEF MatchTypeOK
<1>4. QED
  BY <1>2, <1>3

LEMMA MatchTypesStep == MatchTypeOK /\ [MatchNext]_matchVars => MatchTypeOK'
<1> SUFFICES ASSUME MatchTypeOK, [MatchNext]_matchVars PROVE MatchTypeOK'
  OBVIOUS
<1>1. CASE UNCHANGED matchVars
  BY <1>1 DEF matchVars, MatchTypeOK
<1>2. ASSUME NEW s \in Sources, DeleteSource(s) PROVE MatchTypeOK'
  BY <1>2, RunsAssumption DEF DeleteSource, AfterDeletion, MatchTypeOK, Revisions
<1>3. ASSUME NEW i \in Intents, ChangeIntent(i) PROVE MatchTypeOK'
  BY <1>3 DEF ChangeIntent, MatchTypeOK
<1>4. CASE BumpEvidence
  BY <1>4, RunsAssumption DEF BumpEvidence, MatchTypeOK, Revisions
<1>a. CASE ChangeCatalogue
  BY <1>a DEF ChangeCatalogue, MatchTypeOK
<1>5. QED
  BY <1>1, <1>2, <1>3, <1>4, <1>a, InputsTypes, RunsTypes, StoreTypes DEF MatchNext

-----------------------------------------------------------------------------
(* The external catalogue.                                                 *)

SweepFields == {"at", "provider", "id", "sight", "complete", "ingesting", "status"}

Running(x) ==
    /\ DOMAIN x = SweepFields /\ x.at # "idle"
    /\ x.provider \in Providers /\ x.status \in JobStatuses /\ x.sight \in Sights
    /\ x.at = "retire" => x.complete /\ x.sight \in {"absent", "rejected"}

SweepShape ==
    /\ sweep = [w \in Sweepers |-> sweep[w]]
    /\ looked = [p \in Providers |-> looked[p]]
    /\ \A w \in Sweepers : sweep[w] # Off => Running(sweep[w])

\* Unless sweeps overlapped, there is one at most, and it acts on what it saw.
Alone ==
    ~overlapped =>
        \A w \in Sweepers : sweep[w] # Off =>
            /\ looked[sweep[w].provider] = sweep[w].sight
            /\ \A v \in Sweepers : sweep[v] # Off => v = w

CatalogueShape ==
    /\ job \in {None} \cup Job
    /\ created \in 0 .. MaxJobs
    /\ source = [p \in Providers |-> source[p]]
    /\ job = None => \A p \in Providers : source[p] = None

Calm == ~overlapped /\ ~deadline
NoneActive == \A p \in Providers : source[p] # "ACTIVE"

\* A job that is not searchable has no live source, and a sweep is about to
\* delete it.
Doomed ==
    Calm /\ job # None /\ job.status \notin Searchable =>
        /\ NoneActive
        /\ \E w \in Sweepers : /\ sweep[w] # Off
                               /\ sweep[w].at \in {"read", "write", "enforce", "delete"}
                               /\ sweep[w].id = job.id

\* What a sweep derived still holds when it is written and acted upon.
DerivedHolds ==
    Calm => \A w \in Sweepers :
        /\ Doing(w, "write") => sweep[w].status = "ACTIVE" \/ NoneActive
        /\ Doing(w, "delete") /\ Exists(sweep[w].id) => job.status \notin Searchable

SweepInv == SweepShape /\ Alone
JobsInv == SweepInv /\ CatalogueShape /\ Doomed /\ DerivedHolds

LEMMA JobsStart == JobsInit => JobsInv
BY JobsAssumption DEF JobsInit, JobsInv, SweepInv, SweepShape, Alone, CatalogueShape, Doomed,
   DerivedHolds, Doing

\* A sweep that goes on keeps what it saw.
LEMMA SweepGoesOn ==
    ASSUME SweepInv, NEW w \in Sweepers, NEW x, sweep[w] # Off,
           sweep' = [sweep EXCEPT ![w] = x], UNCHANGED <<looked, overlapped>>,
           \/ x = Off
           \/ Running(x) /\ x.provider = sweep[w].provider /\ x.sight = sweep[w].sight
    PROVE  SweepInv' /\ sweep'[w] = x /\ \A v \in Sweepers \ {w} : sweep'[v] = sweep[v]
<1>1. /\ sweep'[w] = x /\ \A v \in Sweepers \ {w} : sweep'[v] = sweep[v]
      /\ sweep' = [v \in Sweepers |-> sweep'[v]]
  BY DEF SweepInv, SweepShape
<1>2. SweepShape'
  BY <1>1 DEF SweepInv, SweepShape, Running
<1>3. Alone'
  BY <1>1 DEF SweepInv, Alone
<1>4. QED
  BY <1>1, <1>2, <1>3 DEF SweepInv

OverOf(w) == IF sweep[w].ingesting
             THEN [sweep[w] EXCEPT !.at = "others", !.id = 0, !.status = "ACTIVE"] ELSE Off

LEMMA OverIsFine ==
    ASSUME NEW w \in Sweepers, SweepShape, sweep[w] # Off
    PROVE  /\ Over(w) = [sweep EXCEPT ![w] = OverOf(w)]
           /\ OverOf(w) # Off => /\ Running(OverOf(w)) /\ OverOf(w).at = "others"
                                 /\ OverOf(w).provider = sweep[w].provider
                                 /\ OverOf(w).sight = sweep[w].sight
<1>1. Running(sweep[w])
  BY DEF SweepShape
<1>2. DOMAIN sweep[w] = SweepFields
  BY <1>1 DEF Running
<1>3. Over(w) = [sweep EXCEPT ![w] = OverOf(w)]
  BY DEF SweepShape, Over, OverOf
<1>4. CASE sweep[w].ingesting
  BY <1>1, <1>2, <1>3, <1>4 DEF OverOf, Running, SweepFields, JobStatuses
<1>5. CASE ~sweep[w].ingesting
  BY <1>3, <1>5 DEF OverOf
<1>6. QED
  BY <1>4, <1>5

\* Where a sweep can go from w's step, and with what.
Moves(w, x) ==
    /\ sweep[w] # Off
    /\ sweep' = [sweep EXCEPT ![w] = x]
    /\ x = Off \/ (Running(x) /\ x.provider = sweep[w].provider /\ x.sight = sweep[w].sight)
    /\ UNCHANGED <<looked, overlapped>>

\* A step of a sweep that leaves the catalogue alone.
LEMMA QuietStep ==
    ASSUME JobsInv, NEW w \in Sweepers, NEW x, Moves(w, x),
           UNCHANGED <<job, created, source, deadline>>,
           x # Off /\ x.at = "write" /\ Calm => x.status = "ACTIVE" \/ NoneActive,
           x # Off /\ x.at = "delete" /\ Exists(x.id) => job.status \notin Searchable,
           \/ x # Off /\ x.at \in {"read", "write", "enforce", "delete"} /\ x.id = sweep[w].id
           \/ job # None => sweep[w].id # job.id \/ job.status \in Searchable
           \/ sweep[w].at \notin {"read", "write", "enforce", "delete"}
    PROVE  JobsInv'
<1> USE DEF JobsInv
<1>1. SweepInv' /\ sweep'[w] = x /\ \A v \in Sweepers \ {w} : sweep'[v] = sweep[v]
  BY SweepGoesOn DEF Moves
<1>2. CatalogueShape'
  BY DEF CatalogueShape
<1>3. DerivedHolds'
  BY <1>1 DEF DerivedHolds, Doing, Calm, NoneActive, Exists, Moves
<1>4. Doomed'
  <2> SUFFICES ASSUME Calm, job # None, job.status \notin Searchable
               PROVE  /\ NoneActive'
                      /\ (\E v \in Sweepers : /\ sweep[v] # Off
                               /\ sweep[v].at \in {"read", "write", "enforce", "delete"}
                               /\ sweep[v].id = job.id)'
    BY DEF Doomed, Calm, Moves
  <2>1. NoneActive
    BY DEF Doomed
  <2>2. PICK v \in Sweepers : /\ sweep[v] # Off
                              /\ sweep[v].at \in {"read", "write", "enforce", "delete"}
                              /\ sweep[v].id = job.id
    BY DEF Doomed
  <2>3. v = w
    BY <2>2 DEF SweepInv, Alone, Calm, Moves
  <2>4. x # Off /\ x.at \in {"read", "write", "enforce", "delete"} /\ x.id = sweep[w].id
    BY <2>2, <2>3
  <2>5. QED
    BY <1>1, <2>1, <2>2, <2>3, <2>4 DEF NoneActive
<1>5. QED
  BY <1>1, <1>2, <1>3, <1>4

LEMMA BeginKeeps ==
    ASSUME NEW w \in Sweepers, NEW p \in Providers, NEW sight \in Sights, NEW complete,
           JobsInv, Begin(w, p, sight, complete)
    PROVE  JobsInv'
<1> DEFINE x == [at |-> IF sight \in {"open", "closed"} THEN "find" ELSE "others",
                 provider |-> p, id |-> 0, sight |-> sight, complete |-> complete,
                 ingesting |-> TRUE, status |-> "ACTIVE"]
<1> USE DEF JobsInv
<1>1. /\ sweep[w] = Off /\ sweep' = [sweep EXCEPT ![w] = x]
      /\ UNCHANGED <<job, created, source, deadline>>
  BY DEF Begin
<1>2. /\ DOMAIN x = SweepFields /\ x.at \in {"find", "others"}
      /\ x.provider = p /\ x.sight = sight /\ x.status = "ACTIVE"
  BY DEF SweepFields
<1>3. Running(x)
  BY <1>2 DEF Running, JobStatuses
<1>4. x # Off
  BY <1>2 DEF Off
<1> HIDE DEF x
<1>5. /\ sweep'[w] = x /\ \A v \in Sweepers \ {w} : sweep'[v] = sweep[v]
      /\ sweep' = [v \in Sweepers |-> sweep'[v]]
  BY <1>1 DEF SweepInv, SweepShape
<1>6. SweepShape'
  BY <1>3, <1>5 DEF Begin, SweepInv, SweepShape, Running
<1>7. ~overlapped' => ~overlapped /\ \A v \in Sweepers : sweep[v] = Off
  BY Zenon DEF Begin
<1>8. Alone'
  <2>1. CASE overlapped'
    BY <2>1 DEF Alone
  <2>2. CASE ~overlapped'
    <3>1. looked' = [looked EXCEPT ![p] = sight]
      BY <2>2 DEF Begin
    <3>2. looked'[p] = sight
      BY <3>1 DEF SweepInv, SweepShape
    <3>3. QED
      BY <1>2, <1>5, <1>7, <2>2, <3>2 DEF Alone
  <2>3. QED
    BY <2>1, <2>2
<1>9. Calm' => Calm /\ \A v \in Sweepers : sweep[v] = Off
  BY <1>1, <1>7 DEF Calm
<1>10. Doomed'
  BY <1>1, <1>9 DEF Doomed
<1>11. DerivedHolds'
  BY <1>2, <1>5, <1>9 DEF DerivedHolds, Doing
<1>12. CatalogueShape'
  BY <1>1 DEF CatalogueShape
<1>13. QED
  BY <1>6, <1>8, <1>10, <1>11, <1>12 DEF SweepInv

\* The record of a sweep, one step on.
LEMMA StepOn ==
    ASSUME SweepInv, NEW w \in Sweepers, sweep[w] # Off, NEW step, step \notin {"idle", "retire"}
    PROVE  LET x == [sweep[w] EXCEPT !.at = step]
           IN  /\ Running(x) /\ x # Off /\ x.at = step /\ x.id = sweep[w].id
               /\ x.provider = sweep[w].provider /\ x.sight = sweep[w].sight
               /\ x.status = sweep[w].status
<1>1. Running(sweep[w])
  BY DEF SweepInv, SweepShape
<1>2. DOMAIN sweep[w] = SweepFields
  BY <1>1 DEF Running
<1>3. QED
  BY <1>1, <1>2 DEF Running, SweepFields, Off

\* The page or the retirement is over, without a change of the catalogue.
LEMMA OverKeeps ==
    ASSUME JobsInv, NEW w \in Sweepers, sweep[w] # Off, sweep' = Over(w),
           UNCHANGED <<job, created, source, deadline, looked, overlapped>>,
           \/ job # None => sweep[w].id # job.id \/ job.status \in Searchable
           \/ sweep[w].at \notin {"read", "write", "enforce", "delete"}
    PROVE  JobsInv'
<1>1. /\ Over(w) = [sweep EXCEPT ![w] = OverOf(w)]
      /\ OverOf(w) # Off => /\ Running(OverOf(w)) /\ OverOf(w).at = "others"
                            /\ OverOf(w).provider = sweep[w].provider
                            /\ OverOf(w).sight = sweep[w].sight
  BY OverIsFine DEF JobsInv, SweepInv
<1>2. Moves(w, OverOf(w))
  BY <1>1 DEF Moves
<1>3. QED
  BY <1>1, <1>2, QuietStep

LEMMA FindKeeps == ASSUME NEW w \in Sweepers, JobsInv, Find(w) PROVE JobsInv'
<1>1. Running(sweep[w]) /\ sweep[w] # Off /\ sweep[w].at = "find"
  BY DEF Find, Doing, JobsInv, SweepInv, SweepShape
<1>2. DOMAIN sweep[w] = SweepFields
  BY <1>1 DEF Running
<1> DEFINE x(id, step) == [sweep[w] EXCEPT !.id = id, !.at = step]
<1>3. \A id, step : step \in {"create", "touch"} =>
        /\ Running(x(id, step)) /\ x(id, step).at = step
        /\ x(id, step).provider = sweep[w].provider /\ x(id, step).sight = sweep[w].sight
  BY <1>1, <1>2 DEF Running, SweepFields
<1>4. /\ job = None => sweep' = [sweep EXCEPT ![w] = x(0, "create")]
      /\ job # None => sweep' = [sweep EXCEPT ![w] = x(job.id, "touch")]
  BY <1>2 DEF Find, JobsInv, SweepInv, SweepShape
<1> HIDE DEF x
<1>5. PICK step \in {"create", "touch"} : \E id : sweep' = [sweep EXCEPT ![w] = x(id, step)]
  BY <1>4
<1>a. PICK id : sweep' = [sweep EXCEPT ![w] = x(id, step)]
  BY <1>5
<1>6. Moves(w, x(id, step)) /\ x(id, step).at \in {"create", "touch"}
  BY <1>1, <1>3, <1>a DEF Find, Moves
<1>7. QED
  BY <1>1, <1>6, QuietStep DEF Find

\* Before its reconciliation, a sweep alone finds no job that is not searchable.
LEMMA CalmBefore ==
    ASSUME JobsInv, NEW w \in Sweepers, sweep[w] # Off, Calm,
           sweep[w].at \notin {"read", "write", "enforce", "delete"}, job # None
    PROVE  job.status \in Searchable
BY DEF JobsInv, SweepInv, Alone, Doomed, Calm

LEMMA CreateKeeps == ASSUME NEW w \in Sweepers, JobsInv, CreateJob(w) PROVE JobsInv'
<1> USE DEF JobsInv
<1>1. /\ Running(sweep[w]) /\ sweep[w] # Off /\ sweep[w].at = "create"
      /\ UNCHANGED <<deadline, looked, overlapped>>
  BY DEF CreateJob, Doing, SweepInv, SweepShape
<1>2. DOMAIN sweep[w] = SweepFields
  BY <1>1 DEF Running
<1>3. CASE job # None
  BY <1>1, <1>3, OverKeeps DEF CreateJob
<1>4. CASE job = None
  <2> DEFINE x == [sweep[w] EXCEPT !.id = created + 1, !.at = "read"]
  <2>1. /\ Running(x) /\ x # Off /\ x.at = "read" /\ x.id = created + 1
        /\ x.provider = sweep[w].provider /\ x.sight = sweep[w].sight
    BY <1>1, <1>2 DEF Running, SweepFields, Off
  <2>2. sweep' = [sweep EXCEPT ![w] = x]
    BY <1>2, <1>4 DEF CreateJob, SweepInv, SweepShape
  <2> HIDE DEF x
  <2>3. SweepInv' /\ sweep'[w] = x /\ \A v \in Sweepers \ {w} : sweep'[v] = sweep[v]
    BY <1>1, <2>1, <2>2, SweepGoesOn
  <2>4. /\ created < MaxJobs /\ created' = created + 1
        /\ job' = [id |-> created + 1, status |-> Sighted(w)]
        /\ source' = [source EXCEPT ![sweep[w].provider] = Sighted(w)]
    BY <1>4 DEF CreateJob
  <2>5. job' \in Job /\ job' # None /\ job'.id = created + 1 /\ job'.status = Sighted(w)
    BY <2>4, JobsAssumption DEF CatalogueShape, Job, JobStatuses, Sighted
  <2>6. source' = [p \in Providers |-> source'[p]]
    BY <2>4 DEF CatalogueShape
  <2>7. CatalogueShape'
    BY <2>4, <2>5, <2>6, JobsAssumption DEF CatalogueShape
  <2>8. Sighted(w) = "CLOSED" => NoneActive'
    BY <1>1, <1>4, <2>4, JobsAssumption DEF CatalogueShape, NoneActive, SourceStatuses, Running
  <2>9. Doomed'
    BY <2>1, <2>3, <2>5, <2>8 DEF Doomed, Sighted, Searchable
  <2>10. DerivedHolds'
    BY <1>1, <2>1, <2>3 DEF DerivedHolds, Doing, SweepInv, Alone, Calm
  <2>11. QED
    BY <2>3, <2>7, <2>9, <2>10
<1>5. QED
  BY <1>3, <1>4

LEMMA TouchKeeps == ASSUME NEW w \in Sweepers, JobsInv, TouchSource(w) PROVE JobsInv'
<1> USE DEF JobsInv
<1>1. /\ Running(sweep[w]) /\ sweep[w] # Off /\ sweep[w].at = "touch"
      /\ UNCHANGED <<job, created, deadline, looked, overlapped>>
  BY DEF TouchSource, Doing, SweepInv, SweepShape
<1>2. CASE ~(source[sweep[w].provider] # None \/ Exists(sweep[w].id))
  BY <1>1, <1>2, OverKeeps DEF TouchSource
<1>3. CASE source[sweep[w].provider] # None \/ Exists(sweep[w].id)
  <2> DEFINE x == [sweep[w] EXCEPT !.at = "read"]
  <2>1. /\ Running(x) /\ x # Off /\ x.at = "read"
        /\ x.provider = sweep[w].provider /\ x.sight = sweep[w].sight
    BY <1>1, StepOn
  <2>2. /\ sweep' = [sweep EXCEPT ![w] = x]
        /\ source' = [source EXCEPT ![sweep[w].provider] = Sighted(w)]
    BY <1>3 DEF TouchSource, Now, SweepInv, SweepShape
  <2> HIDE DEF x
  <2>3. SweepInv' /\ sweep'[w] = x /\ \A v \in Sweepers \ {w} : sweep'[v] = sweep[v]
    BY <1>1, <2>1, <2>2, SweepGoesOn
  <2>4. job # None
    BY <1>1, <1>3 DEF CatalogueShape, Running, Exists
  <2>5. CatalogueShape'
    BY <1>1, <2>2, <2>4 DEF CatalogueShape
  <2>6. Calm => job.status \in Searchable
    BY <1>1, <2>4, CalmBefore
  <2>7. Doomed'
    BY <1>1, <2>6 DEF Doomed, Calm
  <2>8. DerivedHolds'
    BY <1>1, <2>1, <2>3 DEF DerivedHolds, Doing, SweepInv, Alone, Calm
  <2>9. QED
    BY <2>3, <2>5, <2>7, <2>8
<1>4. QED
  BY <1>2, <1>3

LEMMA ResolveTells ==
    /\ Resolve(source) \in JobStatuses
    /\ ~deadline => Resolve(source) = "ACTIVE" \/ NoneActive
BY DEF Resolve, JobStatuses, NoneActive

LEMMA ReadKeeps == ASSUME NEW w \in Sweepers, JobsInv, ReconcileRead(w) PROVE JobsInv'
<1>1. /\ Running(sweep[w]) /\ sweep[w] # Off /\ sweep[w].at = "read"
      /\ UNCHANGED <<job, created, source, deadline, looked, overlapped>>
  BY DEF ReconcileRead, Doing, JobsInv, SweepInv, SweepShape
<1>2. DOMAIN sweep[w] = SweepFields
  BY <1>1 DEF Running
<1>3. CASE ~Exists(sweep[w].id)
  BY <1>1, <1>3, OverKeeps DEF ReconcileRead, Exists
<1>4. CASE Exists(sweep[w].id)
  <2> DEFINE x == [sweep[w] EXCEPT !.status = Resolve(source), !.at = "write"]
  <2>1. /\ Running(x) /\ x.at = "write" /\ x.status = Resolve(source) /\ x.id = sweep[w].id
        /\ x.provider = sweep[w].provider /\ x.sight = sweep[w].sight
    BY <1>1, <1>2, ResolveTells DEF Running, SweepFields
  <2>2. x # Off
    BY <1>2, <2>1 DEF Off
  <2>3. sweep' = [sweep EXCEPT ![w] = x]
    BY <1>4 DEF ReconcileRead, JobsInv, SweepInv, SweepShape
  <2> HIDE DEF x
  <2>4. Moves(w, x)
    BY <1>1, <2>1, <2>3 DEF Moves
  <2>5. QED
    BY <1>1, <2>1, <2>2, <2>4, ResolveTells, QuietStep DEF Calm
<1>5. QED
  BY <1>3, <1>4

LEMMA WriteKeeps == ASSUME NEW w \in Sweepers, JobsInv, ReconcileWrite(w) PROVE JobsInv'
<1> USE DEF JobsInv
<1>1. /\ Running(sweep[w]) /\ sweep[w] # Off /\ sweep[w].at = "write"
      /\ UNCHANGED <<created, source, deadline, looked, overlapped>>
  BY DEF ReconcileWrite, Doing, SweepInv, SweepShape
<1>2. DOMAIN sweep[w] = SweepFields
  BY <1>1 DEF Running
<1>3. CASE ~Exists(sweep[w].id)
  BY <1>1, <1>3, OverKeeps DEF ReconcileWrite, Exists
<1>4. CASE Exists(sweep[w].id)
  <2> DEFINE x == [sweep[w] EXCEPT !.at = "enforce", !.status = "ACTIVE"]
  <2>1. /\ Running(x) /\ x # Off /\ x.at = "enforce" /\ x.id = sweep[w].id
        /\ x.provider = sweep[w].provider /\ x.sight = sweep[w].sight
    BY <1>1, <1>2 DEF Running, SweepFields, JobStatuses, Off
  <2>2. sweep' = [sweep EXCEPT ![w] = x] /\ job' = [job EXCEPT !.status = sweep[w].status]
    BY <1>4 DEF ReconcileWrite, SweepInv, SweepShape
  <2> HIDE DEF x
  <2>3. SweepInv' /\ sweep'[w] = x /\ \A v \in Sweepers \ {w} : sweep'[v] = sweep[v]
    BY <1>1, <2>1, <2>2, SweepGoesOn
  <2>4. job' \in Job /\ job'.id = sweep[w].id /\ job'.status = sweep[w].status
    BY <1>1, <1>4, <2>2 DEF CatalogueShape, Job, Exists, Running
  <2>5. CatalogueShape'
    BY <1>1, <2>4, JobsAssumption DEF CatalogueShape
  <2>6. Calm => sweep[w].status = "ACTIVE" \/ NoneActive
    BY <1>1 DEF DerivedHolds, Doing
  <2>7. Doomed'
    BY <1>1, <2>1, <2>3, <2>4, <2>6 DEF Doomed, Calm, NoneActive, Searchable
  <2>8. DerivedHolds'
    BY <1>1, <2>1, <2>3 DEF DerivedHolds, Doing, SweepInv, Alone, Calm
  <2>9. QED
    BY <2>3, <2>5, <2>7, <2>8
<1>5. QED
  BY <1>3, <1>4

LEMMA EnforceKeeps == ASSUME NEW w \in Sweepers, JobsInv, EnforceRead(w) PROVE JobsInv'
<1>1. /\ sweep[w] # Off /\ sweep[w].at = "enforce"
      /\ UNCHANGED <<job, created, source, deadline, looked, overlapped>>
  BY DEF EnforceRead, Doing
<1>2. CASE ~(Exists(sweep[w].id) /\ job.status \notin Searchable)
  BY <1>1, <1>2, OverKeeps DEF EnforceRead, Exists
<1>3. CASE Exists(sweep[w].id) /\ job.status \notin Searchable
  <2> DEFINE x == [sweep[w] EXCEPT !.at = "delete"]
  <2>1. /\ Running(x) /\ x # Off /\ x.at = "delete" /\ x.id = sweep[w].id
        /\ x.provider = sweep[w].provider /\ x.sight = sweep[w].sight
    BY <1>1, StepOn DEF JobsInv
  <2>2. sweep' = [sweep EXCEPT ![w] = x]
    BY <1>3 DEF EnforceRead, Now, JobsInv, SweepInv, SweepShape
  <2> HIDE DEF x
  <2>3. Moves(w, x)
    BY <1>1, <2>1, <2>2 DEF Moves
  <2>4. QED
    BY <1>1, <1>3, <2>1, <2>3, QuietStep
<1>4. QED
  BY <1>2, <1>3

\* A job that is gone takes its sources with it.
LEMMA DeletionKeeps ==
    ASSUME JobsInv, SweepInv', DeleteJob, UNCHANGED created
    PROVE  JobsInv'
<1>1. job' = None /\ source' = [p \in Providers |-> None]
  BY DEF DeleteJob
<1>2. CatalogueShape'
  BY <1>1 DEF JobsInv, CatalogueShape
<1>3. NoneActive'
  BY <1>1, JobsAssumption DEF NoneActive, SourceStatuses
<1>4. Doomed' /\ DerivedHolds'
  BY <1>1, <1>3 DEF Doomed, DerivedHolds, Exists
<1>5. QED
  BY <1>2, <1>4 DEF JobsInv

LEMMA DeleteKeeps == ASSUME NEW w \in Sweepers, JobsInv, EnforceDelete(w) PROVE JobsInv'
<1>1. /\ sweep[w] # Off /\ sweep[w].at = "delete" /\ sweep' = Over(w)
      /\ UNCHANGED <<created, deadline, looked, overlapped>>
  BY DEF EnforceDelete, Doing
<1>2. CASE ~Exists(sweep[w].id)
  BY <1>1, <1>2, OverKeeps DEF EnforceDelete, Exists
<1>3. CASE Exists(sweep[w].id)
  <2>1. /\ Over(w) = [sweep EXCEPT ![w] = OverOf(w)]
        /\ OverOf(w) # Off => /\ Running(OverOf(w))
                              /\ OverOf(w).provider = sweep[w].provider
                              /\ OverOf(w).sight = sweep[w].sight
    BY <1>1, OverIsFine DEF JobsInv, SweepInv
  <2>2. SweepInv'
    BY <1>1, <2>1, SweepGoesOn DEF JobsInv
  <2>3. QED
    BY <1>1, <1>3, <2>2, DeletionKeeps DEF EnforceDelete
<1>4. QED
  BY <1>2, <1>3

LEMMA AbsenceKeeps ==
    ASSUME NEW w \in Sweepers, JobsInv, FetchThrows(w) \/ MarkAbsent(w) PROVE JobsInv'
<1>1. /\ Running(sweep[w]) /\ sweep[w] # Off /\ sweep[w].at = "others"
      /\ UNCHANGED <<job, created, source, deadline, looked, overlapped>>
  BY DEF FetchThrows, MarkAbsent, Doing, JobsInv, SweepInv, SweepShape
<1>2. DOMAIN sweep[w] = SweepFields
  BY <1>1 DEF Running
<1>3. CASE sweep' = [sweep EXCEPT ![w] = Off]
  <2>1. Moves(w, Off)
    BY <1>1, <1>3 DEF Moves
  <2>2. QED
    BY <1>1, <2>1, QuietStep
<1>4. CASE /\ Actionable(w) /\ sweep[w].sight \notin {"open", "closed"}
           /\ sweep' = [sweep EXCEPT ![w].at = "retire", ![w].id = job.id]
  <2> DEFINE x == [sweep[w] EXCEPT !.at = "retire", !.id = job.id]
  <2>1. /\ Running(x) /\ x.at = "retire"
        /\ x.provider = sweep[w].provider /\ x.sight = sweep[w].sight
    BY <1>1, <1>2, <1>4 DEF Running, SweepFields, Actionable, Sights
  <2>2. sweep' = [sweep EXCEPT ![w] = x]
    BY <1>4 DEF JobsInv, SweepInv, SweepShape
  <2> HIDE DEF x
  <2>3. Moves(w, x)
    BY <1>1, <2>1, <2>2 DEF Moves
  <2>4. QED
    BY <1>1, <2>1, <2>3, QuietStep
<1>5. QED
  BY <1>3, <1>4 DEF FetchThrows, MarkAbsent

LEMMA RetireKeeps == ASSUME NEW w \in Sweepers, JobsInv, Retire(w) PROVE JobsInv'
<1> USE DEF JobsInv
<1>1. /\ Running(sweep[w]) /\ sweep[w] # Off /\ sweep[w].at = "retire"
      /\ UNCHANGED <<job, created, deadline, looked, overlapped>>
  BY DEF Retire, Doing, SweepInv, SweepShape
<1>2. DOMAIN sweep[w] = SweepFields
  BY <1>1 DEF Running
<1> DEFINE x == [sweep[w] EXCEPT !.ingesting = FALSE, !.complete = FALSE, !.at = "read"]
<1>3. /\ Running(x) /\ x.at = "read"
      /\ x.provider = sweep[w].provider /\ x.sight = sweep[w].sight
  BY <1>1, <1>2 DEF Running, SweepFields
<1>4. sweep' = [sweep EXCEPT ![w] = x]
  BY DEF Retire, SweepInv, SweepShape
<1> HIDE DEF x
<1>5. SweepInv' /\ sweep'[w] = x /\ \A v \in Sweepers \ {w} : sweep'[v] = sweep[v]
  BY <1>1, <1>3, <1>4, SweepGoesOn
<1>6. CatalogueShape'
  BY <1>1 DEF Retire, CatalogueShape, Exists
<1>7. Calm /\ job # None => job.status \in Searchable
  BY <1>1, CalmBefore
<1>8. Doomed'
  BY <1>1, <1>7 DEF Doomed, Calm
<1>9. DerivedHolds'
  BY <1>1, <1>3, <1>5 DEF DerivedHolds, Doing, SweepInv, Alone, Calm
<1>10. QED
  BY <1>5, <1>6, <1>8, <1>9

LEMMA RevalidationKeeps ==
    ASSUME JobsInv, Purge \/ Age \/ DeadlinePasses \/ UNCHANGED jobsVars PROVE JobsInv'
<1> USE DEF JobsInv
<1>1. UNCHANGED <<created, sweep, looked, overlapped>>
  BY DEF Purge, Age, DeadlinePasses, jobsVars
<1>2. SweepInv'
  BY <1>1 DEF SweepInv, SweepShape, Alone, Running
<1>3. CASE Purge
  BY <1>2, <1>3, DeletionKeeps DEF Purge
<1>4. CASE Age
  <2>1. /\ job' \in Job /\ job'.id = job.id /\ job'.status = "STALE" /\ job.status = "ACTIVE"
        /\ UNCHANGED <<source, deadline>>
    BY <1>4 DEF Age, CatalogueShape, Job, JobStatuses
  <2>2. CatalogueShape'
    BY <1>1, <2>1, JobsAssumption DEF CatalogueShape
  <2>3. Doomed'
    BY <2>1 DEF Doomed, Searchable
  <2>4. DerivedHolds'
    BY <1>1, <1>4, <2>1 DEF DerivedHolds, Doing, Calm, NoneActive, Exists, Age, Searchable
  <2>5. QED
    BY <1>2, <2>2, <2>3, <2>4
<1>5. CASE DeadlinePasses
  BY <1>1, <1>2, <1>5
     DEF DeadlinePasses, CatalogueShape, Doomed, DerivedHolds, Calm
<1>6. CASE UNCHANGED jobsVars
  BY <1>1, <1>2, <1>6
     DEF jobsVars, CatalogueShape, Doomed, DerivedHolds, Calm, Doing, Exists, NoneActive
<1>7. QED
  BY <1>3, <1>4, <1>5, <1>6

LEMMA JobsStep == JobsInv /\ [JobsNext]_jobsVars => JobsInv'
<1> SUFFICES ASSUME JobsInv, [JobsNext]_jobsVars PROVE JobsInv'
  OBVIOUS
<1>1. ASSUME NEW w \in Sweepers,
             \/ \E p \in Providers, sight \in Sights, complete \in BOOLEAN :
                   Begin(w, p, sight, complete)
             \/ Find(w) \/ CreateJob(w) \/ TouchSource(w)
      PROVE  JobsInv'
  BY <1>1, BeginKeeps, FindKeeps, CreateKeeps, TouchKeeps
<1>2. ASSUME NEW w \in Sweepers,
             ReconcileRead(w) \/ ReconcileWrite(w) \/ EnforceRead(w) \/ EnforceDelete(w)
      PROVE  JobsInv'
  BY <1>2, ReadKeeps, WriteKeeps, EnforceKeeps, DeleteKeeps
<1>3. ASSUME NEW w \in Sweepers, FetchThrows(w) \/ MarkAbsent(w) \/ Retire(w) PROVE JobsInv'
  BY <1>3, AbsenceKeeps, RetireKeeps
<1>4. QED
  BY <1>1, <1>2, <1>3, RevalidationKeeps DEF JobsNext

\* external-jobs: enforceLiveOnly and the revalidation delete no job that a provider
\* still lists, before its deadline and while sweeps do not overlap.
THEOREM LiveSourcesKeepTheirJob == JobsSpec => LiveSourceKeepsItsJob
<1>1. JobsInv /\ JobsNext /\ job # None /\ job' = None => deadline \/ overlapped \/ NoneActive
  <2> SUFFICES ASSUME JobsInv, JobsNext, job # None, job' = None, Calm PROVE NoneActive
    BY DEF Calm
  <2>1. ASSUME NEW w \in Sweepers, CreateJob(w) PROVE FALSE
    BY <2>1 DEF CreateJob
  <2>2. ASSUME NEW w \in Sweepers, ReconcileWrite(w) PROVE FALSE
    <3>1. Running(sweep[w]) /\ job \in Job
      BY <2>2 DEF ReconcileWrite, Doing, JobsInv, SweepInv, SweepShape, CatalogueShape
    <3>2. job' \in Job
      BY <2>2, <3>1 DEF ReconcileWrite, Job, Running
    <3>3. QED
      BY <3>2, JobsAssumption
  <2>3. CASE Age
    <3>1. job' \in Job
      BY <2>3 DEF Age, JobsInv, CatalogueShape, Job, JobStatuses
    <3>2. QED
      BY <3>1, JobsAssumption
  <2>4. ASSUME NEW w \in Sweepers, EnforceDelete(w) PROVE NoneActive
    BY <2>4 DEF EnforceDelete, JobsInv, Doomed, DerivedHolds
  <2>5. CASE Purge
    BY <2>5 DEF Purge, JobsInv, Doomed, Calm
  <2>6. CASE UNCHANGED job
    BY <2>6
  <2>7. QED
    BY <2>1, <2>2, <2>3, <2>4, <2>5, <2>6
       DEF JobsNext, Begin, Find, TouchSource, ReconcileRead, EnforceRead, FetchThrows,
           MarkAbsent, Retire, DeadlinePasses
<1>2. JobsInv /\ [JobsNext]_jobsVars =>
          [job # None /\ job' = None =>
              deadline \/ overlapped \/ \A p \in Providers : source[p] # "ACTIVE"]_jobsVars
  BY <1>1 DEF NoneActive
<1>3. QED
  BY <1>2, JobsStart, JobsStep, PTL DEF JobsSpec, LiveSourceKeepsItsJob

\* What RetiredWasAbsent says of one step.
RetirementIsDue == \A p \in Providers : source[p] # "GONE" /\ source'[p] = "GONE" =>
    overlapped \/ \E w \in Sweepers :
        /\ sweep[w] # Off /\ sweep[w].provider = p /\ sweep[w].complete
        /\ looked[p] \in {"absent", "rejected"}

\* markAbsent retires what a complete listing did not have, and nothing else.
THEOREM RetiredSourcesWereAbsent == JobsSpec => RetiredWasAbsent
<1>1. JobsInv /\ [JobsNext]_jobsVars => [RetirementIsDue]_jobsVars
  <2> SUFFICES ASSUME JobsInv, JobsNext, NEW p \in Providers, source[p] # "GONE",
                      source'[p] = "GONE", ~overlapped
               PROVE  \E w \in Sweepers :
                         /\ sweep[w] # Off /\ sweep[w].provider = p /\ sweep[w].complete
                         /\ looked[p] \in {"absent", "rejected"}
    BY DEF RetirementIsDue
  <2>1. ASSUME DeleteJob PROVE FALSE
    BY <2>1, JobsAssumption DEF DeleteJob, SourceStatuses
  <2>2. ASSUME NEW w \in Sweepers, CreateJob(w) \/ TouchSource(w) PROVE FALSE
    <3>1. UNCHANGED source \/ source' = [source EXCEPT ![sweep[w].provider] = Sighted(w)]
      BY <2>2 DEF CreateJob, TouchSource
    <3>2. QED
      BY <3>1 DEF JobsInv, CatalogueShape, Sighted
  <2>3. PICK w \in Sweepers : Retire(w)
    BY <2>1, <2>2
       DEF JobsNext, Begin, Find, ReconcileRead, ReconcileWrite, EnforceRead, EnforceDelete,
           FetchThrows, MarkAbsent, Purge, Age, DeadlinePasses
  <2>4. Running(sweep[w]) /\ sweep[w] # Off /\ sweep[w].at = "retire" /\ sweep[w].provider = p
    BY <2>3 DEF Retire, Doing, JobsInv, SweepInv, SweepShape, CatalogueShape
  <2>5. QED
    BY <2>4 DEF Running, JobsInv, SweepInv, Alone
<1>2. QED
  BY <1>1, JobsStart, JobsStep, PTL DEF JobsSpec, RetiredWasAbsent, RetirementIsDue

\* Types.
Sweeping ==
    [at : {"find", "touch", "create", "read", "write", "enforce", "delete", "others", "retire"},
     provider : Providers, id : 0 .. MaxJobs, sight : Sights, complete : BOOLEAN,
     ingesting : BOOLEAN, status : JobStatuses]

LEMMA JobsTypesStart == JobsInit => JobsTypeOK
<1> SUFFICES ASSUME JobsInit PROVE JobsTypeOK
  OBVIOUS
<1>1. \A T : sweep \in [Sweepers -> {Off} \cup T]
  BY DEF JobsInit
<1>2. \A T : source \in [Providers -> {None} \cup T] /\ looked \in [Providers -> {None} \cup T]
  BY DEF JobsInit
<1>3. job = None /\ created = 0 /\ deadline = FALSE /\ overlapped = FALSE
  BY Zenon DEF JobsInit
<1>4. deadline \in BOOLEAN /\ overlapped \in BOOLEAN
  BY <1>3, Zenon
<1>5. job \in {None} \cup Job /\ created \in 0 .. MaxJobs
  BY <1>3, JobsAssumption
<1>6. QED
  BY <1>1, <1>2, <1>4, <1>5, Zenon DEF JobsTypeOK

\* One sweep goes on to x, and the rest of the step is well typed.
LEMMA SweepTypes ==
    ASSUME JobsTypeOK, NEW w \in Sweepers, NEW x \in {Off} \cup Sweeping,
           sweep' = [sweep EXCEPT ![w] = x],
           job' \in {None} \cup Job, created' \in 0 .. MaxJobs,
           source' \in [Providers -> {None} \cup SourceStatuses],
           UNCHANGED deadline, overlapped' \in BOOLEAN,
           looked' \in [Providers -> {None} \cup Sights]
    PROVE  JobsTypeOK'
BY DEF JobsTypeOK, Sweeping

LEMMA SweepsTypes ==
    ASSUME JobsTypeOK, NEW w \in Sweepers, sweep[w] # Off PROVE sweep[w] \in Sweeping
BY DEF JobsTypeOK, Sweeping

LEMMA OverTypes ==
    ASSUME JobsTypeOK, NEW w \in Sweepers, sweep[w] # Off
    PROVE  \E x \in {Off} \cup Sweeping : Over(w) = [sweep EXCEPT ![w] = x]
<1> DEFINE next == [sweep[w] EXCEPT !.at = "others", !.id = 0, !.status = "ACTIVE"]
<1>1. next \in Sweeping
  <2>1. sweep[w] \in Sweeping /\ 0 \in 0 .. MaxJobs /\ "ACTIVE" \in JobStatuses
    BY SweepsTypes, JobsAssumption DEF JobStatuses
  <2>2. QED
    BY <2>1 DEF Sweeping
<1>2. Over(w) = [sweep EXCEPT ![w] = IF sweep[w].ingesting THEN next ELSE Off]
  BY Zenon DEF Over
<1> HIDE DEF next
<1>3. QED
  BY <1>1, <1>2

LEMMA BeginTypes ==
    ASSUME JobsTypeOK, NEW w \in Sweepers, NEW p \in Providers, NEW sight \in Sights,
           NEW complete \in BOOLEAN, Begin(w, p, sight, complete)
    PROVE  JobsTypeOK'
<1> DEFINE x == [at |-> IF sight \in {"open", "closed"} THEN "find" ELSE "others",
                 provider |-> p, id |-> 0, sight |-> sight, complete |-> complete,
                 ingesting |-> TRUE, status |-> "ACTIVE"]
<1>1. x \in Sweeping
  BY JobsAssumption DEF Sweeping, JobStatuses
<1>2. sweep' = [sweep EXCEPT ![w] = x] /\ UNCHANGED <<job, created, source, deadline>>
  BY DEF Begin
<1>3. overlapped' \in BOOLEAN
  BY DEF Begin, JobsTypeOK
<1>4. looked' \in [Providers -> {None} \cup Sights]
  BY DEF Begin, JobsTypeOK
<1> HIDE DEF x
<1>5. QED
  BY <1>1, <1>2, <1>3, <1>4, SweepTypes DEF JobsTypeOK

\* What a step of a sweep makes of the sweep.
LEMMA SweepMoves ==
    ASSUME JobsTypeOK, CatalogueShape, NEW w \in Sweepers,
           \/ Find(w) \/ CreateJob(w) \/ TouchSource(w) \/ ReconcileRead(w) \/ ReconcileWrite(w)
           \/ EnforceRead(w) \/ EnforceDelete(w) \/ FetchThrows(w) \/ MarkAbsent(w) \/ Retire(w)
    PROVE  \E x \in {Off} \cup Sweeping : sweep' = [sweep EXCEPT ![w] = x]
<1>1. sweep[w] # Off /\ sweep[w] \in Sweeping
  BY SweepsTypes DEF Find, CreateJob, TouchSource, ReconcileRead, ReconcileWrite, EnforceRead,
         EnforceDelete, FetchThrows, MarkAbsent, Retire, Doing
<1>2. /\ job = None \/ job.id \in 0 .. MaxJobs
      /\ created < MaxJobs => created + 1 \in 0 .. MaxJobs
  BY JobsAssumption DEF JobsTypeOK, Job
<1>a. sweep' = Over(w) => \E x \in {Off} \cup Sweeping : sweep' = [sweep EXCEPT ![w] = x]
  BY <1>1, OverTypes
<1>3. CASE Find(w)
  <2> DEFINE x(id, step) == [sweep[w] EXCEPT !.id = id, !.at = step]
  <2>1. \A id \in 0 .. MaxJobs, step \in {"create", "touch"} : x(id, step) \in Sweeping
    BY <1>1 DEF Sweeping
  <2>2. \E id \in 0 .. MaxJobs, step \in {"create", "touch"} :
           sweep' = [sweep EXCEPT ![w] = x(id, step)]
    <3>1. 0 \in 0 .. MaxJobs
      BY JobsAssumption
    <3>2. CASE job = None
      BY <1>3, <3>1, <3>2 DEF Find, JobsTypeOK
    <3>3. CASE job # None
      BY <1>2, <1>3, <3>3 DEF Find, JobsTypeOK
    <3>4. QED
      BY <3>2, <3>3
  <2> HIDE DEF x
  <2>3. QED
    BY <2>1, <2>2
<1>4. CASE CreateJob(w)
  <2> DEFINE x == [sweep[w] EXCEPT !.id = created + 1, !.at = "read"]
  <2>1. created < MaxJobs => x \in Sweeping
    BY <1>1, <1>2 DEF Sweeping
  <2>2. \/ created < MaxJobs /\ sweep' = [sweep EXCEPT ![w] = x]
        \/ sweep' = Over(w)
    BY <1>4 DEF CreateJob, JobsTypeOK
  <2> HIDE DEF x
  <2>3. QED
    BY <1>a, <2>1, <2>2
<1>5. CASE TouchSource(w) \/ EnforceRead(w) \/ EnforceDelete(w)
  <2> DEFINE x(step) == [sweep[w] EXCEPT !.at = step]
  <2>1. \A step \in {"read", "delete"} : x(step) \in Sweeping
    BY <1>1 DEF Sweeping
  <2>2. \/ \E step \in {"read", "delete"} : sweep' = [sweep EXCEPT ![w] = x(step)]
        \/ sweep' = Over(w)
    BY <1>5 DEF TouchSource, EnforceRead, EnforceDelete, Now, JobsTypeOK
  <2> HIDE DEF x
  <2>3. QED
    BY <1>a, <2>1, <2>2
<1>6. CASE ReconcileRead(w) \/ ReconcileWrite(w)
  <2> DEFINE derived == [sweep[w] EXCEPT !.status = Resolve(source), !.at = "write"]
             acted == [sweep[w] EXCEPT !.at = "enforce", !.status = "ACTIVE"]
  <2>1. Resolve(source) \in JobStatuses /\ "ACTIVE" \in JobStatuses
    BY DEF Resolve, JobStatuses
  <2>2. derived \in Sweeping
    BY <1>1, <2>1 DEF Sweeping
  <2>a. acted \in Sweeping
    BY <1>1, <2>1 DEF Sweeping
  <2>3. \/ sweep' = [sweep EXCEPT ![w] = derived] \/ sweep' = [sweep EXCEPT ![w] = acted]
        \/ sweep' = Over(w)
    BY <1>6 DEF ReconcileRead, ReconcileWrite, JobsTypeOK
  <2> HIDE DEF derived, acted
  <2>4. QED
    BY <1>a, <2>2, <2>a, <2>3
<1>7. CASE FetchThrows(w)
  BY <1>7 DEF FetchThrows
<1>8. CASE MarkAbsent(w)
  <2> DEFINE x == [sweep[w] EXCEPT !.at = "retire", !.id = job.id]
  <2>1. job # None => x \in Sweeping
    BY <1>1, <1>2 DEF Sweeping
  <2>2. source[sweep[w].provider] = "ACTIVE" => job # None
    BY <1>1, JobsAssumption DEF CatalogueShape, Sweeping, SourceStatuses
  <2>3. \/ job # None /\ sweep' = [sweep EXCEPT ![w] = x]
        \/ sweep' = [sweep EXCEPT ![w] = Off]
    BY <1>8, <2>2 DEF MarkAbsent, JobsTypeOK
  <2> HIDE DEF x
  <2>4. QED
    BY <2>1, <2>3
<1>9. CASE Retire(w)
  <2> DEFINE x == [sweep[w] EXCEPT !.ingesting = FALSE, !.complete = FALSE, !.at = "read"]
  <2>1. x \in Sweeping
    BY <1>1 DEF Sweeping
  <2>2. sweep' = [sweep EXCEPT ![w] = x]
    BY <1>9 DEF Retire, JobsTypeOK
  <2> HIDE DEF x
  <2>3. QED
    BY <2>1, <2>2
<1>10. QED
  BY <1>3, <1>4, <1>5, <1>6, <1>7, <1>8, <1>9

LEMMA DeleteTypes ==
    ASSUME JobsTypeOK, DeleteJob
    PROVE  job' \in {None} \cup Job /\ source' \in [Providers -> {None} \cup SourceStatuses]
BY DEF DeleteJob

LEMMA JobsMoveTypes ==
    ASSUME JobsTypeOK, CatalogueShape, NEW w \in Sweepers,
           \/ Find(w) \/ CreateJob(w) \/ TouchSource(w) \/ ReconcileRead(w) \/ ReconcileWrite(w)
           \/ EnforceRead(w) \/ EnforceDelete(w) \/ FetchThrows(w) \/ MarkAbsent(w) \/ Retire(w)
    PROVE  JobsTypeOK'
<1>1. PICK x \in {Off} \cup Sweeping : sweep' = [sweep EXCEPT ![w] = x]
  BY SweepMoves
<1>2. UNCHANGED <<deadline, looked, overlapped>>
  BY DEF Find, CreateJob, TouchSource, ReconcileRead, ReconcileWrite, EnforceRead,
         EnforceDelete, FetchThrows, MarkAbsent, Retire
<1>3. Sighted(w) \in JobStatuses \cap SourceStatuses
  BY DEF Sighted, JobStatuses, SourceStatuses
<1>4. sweep[w] # Off => sweep[w].status \in JobStatuses
  BY SweepsTypes DEF Sweeping
<1>5. job' \in {None} \cup Job /\ created' \in 0 .. MaxJobs
  <2>1. CASE CreateJob(w)
    BY <1>3, <2>1, JobsAssumption DEF CreateJob, JobsTypeOK, Job
  <2>2. CASE ReconcileWrite(w)
    BY <1>4, <2>2 DEF ReconcileWrite, Exists, Doing, JobsTypeOK, Job
  <2>3. CASE EnforceDelete(w)
    BY <2>3, DeleteTypes DEF EnforceDelete, JobsTypeOK
  <2>4. CASE Find(w) \/ TouchSource(w) \/ ReconcileRead(w) \/ EnforceRead(w) \/ FetchThrows(w)
             \/ MarkAbsent(w) \/ Retire(w)
    BY <2>4 DEF Find, TouchSource, ReconcileRead, EnforceRead, FetchThrows, MarkAbsent, Retire,
           JobsTypeOK
  <2>5. QED
    BY <2>1, <2>2, <2>3, <2>4
<1>6. source' \in [Providers -> {None} \cup SourceStatuses]
  <2>1. CASE CreateJob(w) \/ TouchSource(w)
    BY <1>3, <2>1 DEF CreateJob, TouchSource, JobsTypeOK
  <2>2. CASE Retire(w)
    BY <2>2 DEF Retire, JobsTypeOK, SourceStatuses
  <2>3. CASE EnforceDelete(w)
    BY <2>3, DeleteTypes DEF EnforceDelete, JobsTypeOK
  <2>4. CASE Find(w) \/ ReconcileRead(w) \/ ReconcileWrite(w) \/ EnforceRead(w) \/ FetchThrows(w)
             \/ MarkAbsent(w)
    BY <2>4 DEF Find, ReconcileRead, ReconcileWrite, EnforceRead, FetchThrows, MarkAbsent,
           JobsTypeOK
  <2>5. QED
    BY <2>1, <2>2, <2>3, <2>4
<1>7. QED
  BY <1>1, <1>2, <1>5, <1>6, SweepTypes DEF JobsTypeOK

LEMMA JobsTypesStep == JobsInv /\ JobsTypeOK /\ [JobsNext]_jobsVars => JobsTypeOK'
<1> SUFFICES ASSUME JobsInv, JobsTypeOK, [JobsNext]_jobsVars PROVE JobsTypeOK'
  OBVIOUS
<1>1. CASE UNCHANGED jobsVars
  BY <1>1 DEF jobsVars, JobsTypeOK
<1>2. CASE Purge
  BY <1>2, DeleteTypes DEF Purge, JobsTypeOK
<1>3. CASE Age
  BY <1>3 DEF Age, JobsTypeOK, Job, JobStatuses
<1>4. CASE DeadlinePasses
  BY <1>4 DEF DeadlinePasses, JobsTypeOK
<1>5. CatalogueShape
  BY DEF JobsInv
<1>6. QED
  BY <1>1, <1>2, <1>3, <1>4, <1>5, BeginTypes, JobsMoveTypes DEF JobsNext

-----------------------------------------------------------------------------
(* Applications and chats.                                                 *)

RequestFields == {"at", "op", "attempt", "to", "write", "doomed"}

OfAnAttempt == {"apply", "invite", "stage", "reject", "remove"}

Proper(x) ==
    /\ DOMAIN x = RequestFields /\ x.at # "idle"
    /\ x.op \in OfAnAttempt => x.attempt \in Tries

RequestShape ==
    /\ request = [q \in Requests |-> request[q]]
    /\ \A q \in Requests : request[q] # NoRequest => Proper(request[q])

\* A rejection that has updated its attempt holds the row of it, and has found
\* the chat of the pair if the attempt was alive.
RejectionHolds ==
    /\ \A q \in Under("reject") :
          /\ InPipeline(request[q].attempt)
          /\ Alive(request[q].attempt) => chat \in {None, request[q].doomed}
    /\ \A q, p \in Under("reject") : request[q].attempt = request[p].attempt => q = p

AttemptsAreKept == application = [a \in Tries |-> application[a]]

HireInv == RequestShape /\ AttemptsAreKept /\ RejectionHolds /\ RejectedHasNoChat

LEMMA HireStart == HireInit => HireInv
BY DEF HireInit, HireInv, RequestShape, AttemptsAreKept, RejectionHolds, RejectedHasNoChat,
       Under, At

LEMMA HeldIsProper ==
    ASSUME RequestShape, NEW q \in Requests, NEW step, NEW op \in OfAnAttempt, At(q, step, op)
    PROVE  request[q].attempt \in Tries
BY DEF RequestShape, Proper, At

LEMMA Holders ==
    ASSUME HireInv
    PROVE  \A p \in Under("reject") : p \in Requests /\ request[p].attempt \in Tries
BY HeldIsProper DEF HireInv, Under, OfAnAttempt

\* A request goes on to x, and no rejection begins to hold a row.
LEMMA RequestGoesOn ==
    ASSUME HireInv, NEW q \in Requests, NEW x, request' = [request EXCEPT ![q] = x],
           x # NoRequest => Proper(x)
    PROVE  /\ RequestShape'
           /\ request'[q] = x /\ \A p \in Requests \ {q} : request'[p] = request[p]
           /\ x = NoRequest \/ x.at # "commit" \/ x.op # "reject" =>
                 Under("reject")' = Under("reject") \ {q}
<1>1. request'[q] = x /\ \A p \in Requests \ {q} : request'[p] = request[p]
  BY DEF HireInv, RequestShape
<1>2. request' = [p \in Requests |-> request'[p]]
  BY DEF HireInv, RequestShape
<1>3. RequestShape'
  BY <1>1, <1>2 DEF HireInv, RequestShape, Proper
<1>4. x = NoRequest \/ x.at # "commit" \/ x.op # "reject" =>
          Under("reject")' = Under("reject") \ {q}
  BY <1>1 DEF Under, At
<1>5. QED
  BY <1>1, <1>3, <1>4

\* A transaction that no rejection of the attempts it changes overlaps.
LEMMA Transaction ==
    ASSUME HireInv, NEW q \in Requests, NEW x, request' = [request EXCEPT ![q] = x],
           x # NoRequest => Proper(x),
           x = NoRequest \/ x.at # "commit" \/ x.op # "reject",
           AttemptsAreKept', RejectedHasNoChat',
           \A a \in Tries : application'[a] # application[a] => ~RowLocked(a) \/ ~InPipeline(a),
           \/ chat' \in {None, chat}
           \/ \A p \in Under("reject") \ {q} : ~Alive(request[p].attempt)
    PROVE  HireInv'
<1>1. /\ RequestShape'
      /\ \A p \in Requests \ {q} : request'[p] = request[p]
      /\ Under("reject")' = Under("reject") \ {q}
  BY RequestGoesOn
<1>2. \A p \in Under("reject") \ {q} :
          /\ request'[p] = request[p]
          /\ request[p].attempt \in Tries /\ InPipeline(request[p].attempt)
          /\ application'[request[p].attempt] = application[request[p].attempt]
  BY <1>1, Holders DEF HireInv, RejectionHolds, RowLocked
<1>a. Under("reject") \ {q} \subseteq Requests
  BY DEF Under
<1>3. RejectionHolds'
  BY <1>1, <1>2, <1>a DEF HireInv, RejectionHolds, InPipeline, Alive
<1>4. QED
  BY <1>1, <1>3 DEF HireInv

LEMMA AskKeeps ==
    ASSUME HireInv, NEW q \in Requests, NEW r, Ask(q, r), UNCHANGED application,
           Proper(r), r.at = "read"
    PROVE  HireInv'
<1>1. request' = [request EXCEPT ![q] = r] /\ chat' = chat
  BY DEF Ask
<1>2. AttemptsAreKept' /\ RejectedHasNoChat'
  BY <1>1 DEF HireInv, AttemptsAreKept, RejectedHasNoChat
<1>3. QED
  BY <1>1, <1>2, Transaction

LEMMA AskedIsRead ==
    \A op :
        /\ \A a \in Tries : Proper(About(op, a)) /\ About(op, a).at = "read"
        /\ op \notin OfAnAttempt =>
              /\ Proper(Asked(op)) /\ Asked(op).at = "read"
              /\ \A to : LET x == [Asked(op) EXCEPT !.to = to]
                         IN  Proper(x) /\ x.at = "read"
              /\ \A to, write : LET x == [Asked(op) EXCEPT !.to = to, !.write = write]
                                IN  Proper(x) /\ x.at = "read"
BY DEF Asked, About, RequestFields, Proper

LEMMA AsksKeep ==
    ASSUME HireInv, NEW q \in Requests,
           \/ \E a \in Tries : \/ AskApply(q, a) \/ AskInvite(q, a)
                               \/ \E op \in {"stage", "reject", "remove"} : AskStage(q, op, a)
           \/ \E to \in {"OPEN"} \cup Ended :
                 AskStatus(q, to) \/ \E write \in BOOLEAN : AskPatch(q, to, write)
           \/ AskDelete(q)
    PROVE  HireInv'
<1>1. ASSUME NEW r, Ask(q, r), Proper(r), r.at = "read" PROVE HireInv'
  BY <1>1, AskKeeps DEF Ask
<1>2. ASSUME NEW a \in Tries, NEW op, Ask(q, About(op, a)) PROVE HireInv'
  <2>1. Proper(About(op, a)) /\ About(op, a).at = "read"
    BY AskedIsRead
  <2>2. QED
    BY <1>1, <1>2, <2>1
<1>3. CASE AskDelete(q)
  <2>1. Proper(Asked("delete")) /\ Asked("delete").at = "read" /\ Ask(q, Asked("delete"))
    BY <1>3, AskedIsRead DEF AskDelete, OfAnAttempt
  <2>2. QED
    BY <1>1, <2>1
<1>4. ASSUME NEW to \in {"OPEN"} \cup Ended, AskStatus(q, to) PROVE HireInv'
  <2> DEFINE r == [Asked("status") EXCEPT !.to = to]
  <2>1. Proper(r) /\ r.at = "read" /\ Ask(q, r)
    BY <1>4, AskedIsRead DEF AskStatus, OfAnAttempt
  <2> HIDE DEF r
  <2>2. QED
    BY <1>1, <2>1
<1>5. ASSUME NEW to \in {"OPEN"} \cup Ended, NEW write \in BOOLEAN, AskPatch(q, to, write)
      PROVE  HireInv'
  <2> DEFINE r == [Asked("patch") EXCEPT !.to = to, !.write = write]
  <2>1. Proper(r) /\ r.at = "read" /\ Ask(q, r)
    BY <1>5, AskedIsRead DEF AskPatch, OfAnAttempt
  <2> HIDE DEF r
  <2>2. QED
    BY <1>1, <2>1
<1>6. QED
  BY <1>2, <1>3, <1>4, <1>5 DEF AskApply, AskInvite, AskStage

\* Someone else's attempt, once it has moved, is alive and the only one.
LEMMA MoveHolds ==
    ASSUME HireInv, NEW a, NEW status \in {"NEW", "INTERVIEW"}, Move(a, status)
    PROVE  /\ AttemptsAreKept'
           /\ a \in Tries => application'[a] = status
           /\ \A b \in Tries : application'[b] # application[b] => b = a /\ ~RowLocked(b)
           /\ \A p \in Under("reject") : ~Alive(request[p].attempt)
<1>1. /\ application' = [application EXCEPT ![a] = status]
      /\ AttemptsAreKept'
  BY DEF Move, HireInv, AttemptsAreKept
<1>2. \A p \in Under("reject") : request[p].attempt # a /\ ~Alive(request[p].attempt)
  BY Holders DEF Move, RowLocked, UniqueAttempt
<1>3. QED
  BY <1>1, <1>2 DEF Move, HireInv, AttemptsAreKept

LEMMA MovesKeep ==
    ASSUME HireInv, NEW q \in Requests, CommitInvite(q) \/ CommitStage(q) PROVE HireInv'
<1>1. request' = [request EXCEPT ![q] = NoRequest] /\ request[q].attempt \in Tries
  BY HeldIsProper DEF CommitInvite, CommitStage, Answered, HireInv, OfAnAttempt
<1>2. PICK status \in {"NEW", "INTERVIEW"} : Move(request[q].attempt, status)
  BY DEF CommitInvite, CommitStage
<1> DEFINE a == request[q].attempt
<1>3. /\ AttemptsAreKept'
      /\ application'[a] = status
      /\ \A b \in Tries : application'[b] # application[b] => b = a /\ ~RowLocked(b)
      /\ \A p \in Under("reject") : ~Alive(request[p].attempt)
  BY <1>1, <1>2, MoveHolds
<1>4. RejectedHasNoChat'
  BY <1>1, <1>3, HireAssumption DEF RejectedHasNoChat, Stages
<1>5. QED
  BY <1>1, <1>3, <1>4, Transaction

LEMMA ApplyKeeps == ASSUME HireInv, NEW q \in Requests, CommitApply(q) PROVE HireInv'
<1> DEFINE a == request[q].attempt
<1>1. /\ request' = [request EXCEPT ![q] = NoRequest] /\ a \in Tries /\ application[a] = None
      /\ application' = [application EXCEPT ![a] = "NEW"] /\ chat' = chat
  BY HeldIsProper DEF CommitApply, Answered, HireInv, OfAnAttempt
<1>2. /\ AttemptsAreKept' /\ application'[a] = "NEW"
      /\ \A b \in Tries : application'[b] # application[b] => b = a
  BY <1>1 DEF HireInv, AttemptsAreKept
<1>3. RejectedHasNoChat'
  BY <1>1, <1>2, HireAssumption DEF RejectedHasNoChat, Stages
<1>4. ~InPipeline(a)
  BY <1>1, HireAssumption DEF InPipeline
<1>5. QED
  BY <1>1, <1>2, <1>3, <1>4, Transaction

LEMMA FindsKeep ==
    ASSUME HireInv, NEW q \in Requests, FindForRemove(q) \/ FindForStatus(q) PROVE HireInv'
<1>1. PICK doomed : Found(q, doomed)
  BY DEF FindForRemove, FindForStatus
<1>2. /\ request[q] # NoRequest /\ Proper(request[q]) /\ request[q].op # "reject"
      /\ UNCHANGED <<application, chat>>
  BY DEF FindForRemove, FindForStatus, At, HireInv, RequestShape
<1>3. DOMAIN request[q] = RequestFields
  BY <1>2 DEF Proper
<1> DEFINE x == [request[q] EXCEPT !.at = "commit", !.doomed = doomed]
<1>4. Proper(x) /\ x.op # "reject"
  BY <1>2, <1>3 DEF Proper, RequestFields
<1>5. request' = [request EXCEPT ![q] = x]
  BY <1>1, <1>3 DEF Found, HireInv, RequestShape
<1> HIDE DEF x
<1>6. AttemptsAreKept' /\ RejectedHasNoChat'
  BY <1>2 DEF HireInv, AttemptsAreKept, RejectedHasNoChat
<1>7. QED
  BY <1>2, <1>4, <1>5, <1>6, Transaction

\* A rejection takes the row of its attempt and finds the chat.
LEMMA RejectFinds == ASSUME HireInv, NEW q \in Requests, FindForReject(q) PROVE HireInv'
<1>1. /\ request[q] # NoRequest /\ Proper(request[q]) /\ request[q].op = "reject"
      /\ InPipeline(request[q].attempt) /\ ~RowLocked(request[q].attempt)
      /\ UNCHANGED <<application, chat>>
  BY DEF FindForReject, At, HireInv, RequestShape
<1>2. DOMAIN request[q] = RequestFields
  BY <1>1 DEF Proper
<1> DEFINE x == [request[q] EXCEPT !.at = "commit", !.doomed = chat]
<1>3. /\ Proper(x) /\ x # NoRequest /\ x.attempt = request[q].attempt /\ x.doomed = chat
      /\ x.at = "commit" /\ x.op = "reject"
  BY <1>1, <1>2 DEF Proper, RequestFields, NoRequest
<1>4. request' = [request EXCEPT ![q] = x]
  BY <1>2 DEF FindForReject, Found, HireInv, RequestShape
<1> HIDE DEF x
<1>5. RequestShape' /\ request'[q] = x /\ \A p \in Requests \ {q} : request'[p] = request[p]
  BY <1>3, <1>4, RequestGoesOn
<1>6. Under("reject")' = Under("reject") \cup {q}
  BY <1>3, <1>5 DEF Under, At
<1>7. \A p \in Under("reject") : p \in Requests /\ request[p].attempt # request[q].attempt
  BY <1>1 DEF RowLocked, Under
<1>8. RejectionHolds'
  BY <1>1, <1>3, <1>5, <1>6, <1>7 DEF HireInv, RejectionHolds, InPipeline, Alive
<1>9. AttemptsAreKept' /\ RejectedHasNoChat'
  BY <1>1 DEF HireInv, AttemptsAreKept, RejectedHasNoChat
<1>10. QED
  BY <1>5, <1>8, <1>9 DEF HireInv

\* The chat that a rejection of a live attempt leaves is none.
LEMMA RejectKeeps == ASSUME HireInv, NEW q \in Requests, CommitReject(q) PROVE HireInv'
<1> DEFINE a == request[q].attempt
<1>1. /\ q \in Under("reject") /\ a \in Tries /\ InPipeline(a)
      /\ request' = [request EXCEPT ![q] = NoRequest]
      /\ application' = [application EXCEPT ![a] = "REJECTED"]
      /\ chat' = IF request[q].doomed = chat THEN None ELSE chat
  BY HeldIsProper
     DEF CommitReject, PurgeChat, Answered, HireInv, RejectionHolds, OfAnAttempt, Under
<1>2. /\ AttemptsAreKept' /\ application'[a] = "REJECTED"
      /\ \A b \in Tries : b # a => application'[b] = application[b]
  BY <1>1 DEF HireInv, AttemptsAreKept
<1>3. RejectedHasNoChat'
  <2>1. CASE Alive(a)
    BY <1>1, <2>1 DEF HireInv, RejectionHolds, RejectedHasNoChat
  <2>2. CASE application[a] = "REJECTED"
    BY <1>1, <1>2, <2>2 DEF HireInv, RejectedHasNoChat
  <2>3. QED
    BY <1>1, <2>1, <2>2 DEF InPipeline, Alive, Stages
<1>4. /\ RequestShape' /\ \A p \in Requests \ {q} : request'[p] = request[p]
      /\ Under("reject")' = Under("reject") \ {q}
  BY <1>1, RequestGoesOn
<1>5. \A p \in Under("reject") \ {q} : p \in Requests /\ request[p].attempt \in Tries \ {a}
  BY <1>1, HeldIsProper DEF HireInv, RejectionHolds, Under, OfAnAttempt
<1>6. RejectionHolds'
  BY <1>1, <1>2, <1>4, <1>5 DEF HireInv, RejectionHolds, InPipeline, Alive
<1>7. QED
  BY <1>2, <1>3, <1>4, <1>6 DEF HireInv

LEMMA RemoveKeeps == ASSUME HireInv, NEW q \in Requests, CommitRemove(q) PROVE HireInv'
<1> DEFINE a == request[q].attempt
<1>1. /\ a \in Tries /\ ~RowLocked(a)
      /\ request' = [request EXCEPT ![q] = NoRequest]
      /\ application' = [application EXCEPT ![a] = "DELETED"]
      /\ chat' \in {None, chat}
  BY HeldIsProper DEF CommitRemove, PurgeChat, Answered, HireInv, OfAnAttempt
<1>2. /\ AttemptsAreKept' /\ application'[a] = "DELETED"
      /\ \A b \in Tries : application'[b] # application[b] => b = a
  BY <1>1 DEF HireInv, AttemptsAreKept
<1>3. RejectedHasNoChat'
  BY <1>1, <1>2, HireAssumption DEF RejectedHasNoChat
<1>4. QED
  BY <1>1, <1>2, <1>3, Transaction

LEMMA EndsKeep ==
    ASSUME HireInv, NEW q \in Requests, CommitStatus(q) \/ RollBack(q) PROVE HireInv'
<1>1. /\ request' = [request EXCEPT ![q] = NoRequest] /\ application' = application
      /\ chat' \in {None, chat}
  BY DEF CommitStatus, RollBack, PurgeChat, Answered
<1>2. AttemptsAreKept' /\ RejectedHasNoChat'
  BY <1>1 DEF HireInv, AttemptsAreKept, RejectedHasNoChat
<1>3. QED
  BY <1>1, <1>2, Transaction

LEMMA VacancyGoes == ASSUME HireInv, NEW q \in Requests, CommitDelete(q) PROVE HireInv'
<1>1. /\ request' = [request EXCEPT ![q] = NoRequest] /\ chat' = None
      /\ \A a \in Tries : ~RowLocked(a)
  BY DEF CommitDelete, Answered
<1>2. AttemptsAreKept' /\ RejectedHasNoChat'
  BY <1>1 DEF CommitDelete, AttemptsAreKept, RejectedHasNoChat
<1>3. QED
  BY <1>1, <1>2, Transaction

LEMMA HireStep == HireInv /\ [HireNext]_hireVars => HireInv'
<1> SUFFICES ASSUME HireInv, [HireNext]_hireVars PROVE HireInv'
  OBVIOUS
<1>1. ASSUME NEW q \in Requests,
             \/ CommitApply(q) \/ CommitInvite(q) \/ CommitStage(q)
             \/ FindForReject(q) \/ FindForRemove(q) \/ FindForStatus(q)
             \/ CommitReject(q) \/ CommitRemove(q) \/ CommitStatus(q) \/ CommitDelete(q)
             \/ RollBack(q)
      PROVE  HireInv'
  BY <1>1, ApplyKeeps, MovesKeep, RejectFinds, FindsKeep, RejectKeeps, RemoveKeeps, EndsKeep,
     VacancyGoes
<1>2. CASE UNCHANGED hireVars
  BY <1>2 DEF hireVars, HireInv, RequestShape, Proper, AttemptsAreKept, RejectionHolds, Under,
              At, InPipeline, Alive, RejectedHasNoChat
<1>3. QED
  BY <1>1, <1>2, AsksKeep DEF HireNext

\* applications.service.ts: whatever invitations, rejections, removals and status
\* changes interleave, rejecting every attempt leaves no chat.
THEOREM RejectedHaveNoChat == HireSpec => []RejectedHasNoChat
BY HireStart, HireStep, PTL DEF HireSpec, HireInv

\* Types.
Asking == {"apply", "invite", "stage", "reject", "remove", "status", "patch", "delete"}

Serving ==
    [at : {"read", "commit"}, op : Asking, attempt : Tries, to : {"OPEN"} \cup Ended,
     write : BOOLEAN, doomed : Chats]

LEMMA FirstTry == 1 \in Tries
BY HireAssumption DEF Tries

LEMMA AskedIsServed ==
    ASSUME NEW op \in Asking
    PROVE  Asked(op) \in Serving /\ \A a \in Tries : About(op, a) \in Serving
<1>1. Asked(op) \in Serving
  BY FirstTry DEF Asked, Serving, Chats
<1>2. ASSUME NEW a \in Tries PROVE About(op, a) \in Serving
  <2> DEFINE r == Asked(op)
  <2>1. About(op, a) = [r EXCEPT !.attempt = a] /\ r \in Serving
    BY <1>1 DEF About
  <2> HIDE DEF r
  <2>2. [r EXCEPT !.attempt = a] \in Serving
    BY <2>1 DEF Serving
  <2>3. QED
    BY <2>1, <2>2
<1>3. QED
  BY <1>1, <1>2

LEMMA HireTypesStart == HireInit => HireTypeOK
<1> SUFFICES ASSUME HireInit PROVE HireTypeOK
  OBVIOUS
<1>1. \A T : request \in [Requests -> {NoRequest} \cup T]
  BY DEF HireInit
<1>2. /\ application \in [Tries -> Stages \cup {None, "DELETED"}]
      /\ chat \in Chats /\ chats \in 0 .. MaxChats
  BY HireAssumption DEF HireInit, Chats
<1>3. QED
  BY <1>1, <1>2, Zenon DEF HireInit, HireTypeOK

\* A request that is asked or answered, and the rest of the step well typed.
LEMMA RequestTypes ==
    ASSUME HireTypeOK, NEW q \in Requests, NEW x \in {NoRequest} \cup Serving,
           request' = [request EXCEPT ![q] = x],
           vacancy' \in {"OPEN", "DELETED"} \cup Ended,
           application' \in [Tries -> Stages \cup {None, "DELETED"}],
           chat' \in Chats, chats' \in 0 .. MaxChats, entangled' \in BOOLEAN,
           purgedBy' \subseteq {"vacancy", "attempt"}
    PROVE  HireTypeOK'
BY DEF HireTypeOK, Serving, Asking

LEMMA AskTypes ==
    ASSUME HireTypeOK, NEW q \in Requests, NEW r \in Serving, Ask(q, r)
    PROVE  HireTypeOK'
<1>1. entangled' \in BOOLEAN
  BY DEF Ask, HireTypeOK
<1>2. QED
  BY <1>1, RequestTypes DEF Ask, HireTypeOK

LEMMA AsksTypes ==
    ASSUME HireTypeOK, NEW q \in Requests,
           \/ \E a \in Tries : \/ AskApply(q, a) \/ AskInvite(q, a)
                               \/ \E op \in {"stage", "reject", "remove"} : AskStage(q, op, a)
           \/ \E to \in {"OPEN"} \cup Ended :
                 AskStatus(q, to) \/ \E write \in BOOLEAN : AskPatch(q, to, write)
           \/ AskDelete(q)
    PROVE  HireTypeOK'
<1>1. ASSUME NEW r, Ask(q, r), r \in Serving PROVE HireTypeOK'
  BY <1>1, AskTypes
<1>2. ASSUME NEW a \in Tries, NEW op, op \in Asking, Ask(q, About(op, a))
      PROVE  HireTypeOK'
  BY <1>1, <1>2, AskedIsServed
<1>3. CASE AskDelete(q)
  BY <1>1, <1>3, AskedIsServed DEF AskDelete, Asking
<1>4. ASSUME NEW to \in {"OPEN"} \cup Ended, AskStatus(q, to) PROVE HireTypeOK'
  <2> DEFINE r == [Asked("status") EXCEPT !.to = to]
  <2>1. Ask(q, r)
    BY <1>4 DEF AskStatus
  <2>2. r \in Serving
    BY FirstTry DEF Asked, Serving, Asking, Chats
  <2> HIDE DEF r
  <2>3. QED
    BY <1>1, <2>1, <2>2
<1>5. ASSUME NEW to \in {"OPEN"} \cup Ended, NEW write \in BOOLEAN, AskPatch(q, to, write)
      PROVE  HireTypeOK'
  <2> DEFINE r == [Asked("patch") EXCEPT !.to = to, !.write = write]
  <2>1. Ask(q, r)
    BY <1>5 DEF AskPatch
  <2>2. r \in Serving
    BY FirstTry DEF Asked, Serving, Asking, Chats
  <2> HIDE DEF r
  <2>3. QED
    BY <1>1, <2>1, <2>2
<1>6. QED
  <2>1. ASSUME NEW a \in Tries, AskApply(q, a) \/ AskInvite(q, a) PROVE HireTypeOK'
    BY <2>1, <1>2 DEF AskApply, AskInvite, Asking
  <2>2. ASSUME NEW a \in Tries, NEW op \in {"stage", "reject", "remove"}, AskStage(q, op, a)
        PROVE  HireTypeOK'
    BY <2>2, <1>2 DEF AskStage, Asking
  <2>3. QED
    BY <2>1, <2>2, <1>3, <1>4, <1>5

LEMMA FoundTypes ==
    ASSUME HireTypeOK, NEW q \in Requests, NEW doomed \in Chats, request[q] # NoRequest
    PROVE  /\ request[q] \in Serving
           /\ [request[q] EXCEPT !.at = "commit", !.doomed = doomed] \in Serving
BY DEF HireTypeOK, Serving, Asking

LEMMA FindsTypes ==
    ASSUME HireTypeOK, NEW q \in Requests, FindForReject(q) \/ FindForRemove(q) \/ FindForStatus(q)
    PROVE  HireTypeOK'
<1>1. PICK doomed \in Chats : Found(q, doomed)
  BY DEF FindForReject, FindForRemove, FindForStatus, HireTypeOK, Chats
<1>2. request[q] # NoRequest /\ UNCHANGED <<vacancy, application, chat, chats, entangled, purgedBy>>
  BY DEF FindForReject, FindForRemove, FindForStatus, At
<1> DEFINE x == [request[q] EXCEPT !.at = "commit", !.doomed = doomed]
<1>3. x \in Serving /\ request' = [request EXCEPT ![q] = x]
  BY <1>1, <1>2, FoundTypes DEF Found
<1> HIDE DEF x
<1>4. QED
  BY <1>2, <1>3, RequestTypes DEF HireTypeOK

LEMMA AnswersTypes ==
    ASSUME HireTypeOK, NEW q \in Requests,
           \/ CommitApply(q) \/ CommitInvite(q) \/ CommitStage(q) \/ CommitReject(q)
           \/ CommitRemove(q) \/ CommitStatus(q) \/ CommitDelete(q) \/ RollBack(q)
    PROVE  HireTypeOK'
<1> USE DEF HireTypeOK
<1>1. request[q] # NoRequest /\ request' = [request EXCEPT ![q] = NoRequest]
  BY DEF CommitApply, CommitInvite, CommitStage, CommitReject, CommitRemove, CommitStatus,
         CommitDelete, RollBack, Answered, At
<1>a. request[q] \in Serving
  BY <1>1 DEF Serving, Asking
<1>2. vacancy' \in {"OPEN", "DELETED"} \cup Ended /\ UNCHANGED entangled
  BY <1>1, <1>a DEF CommitApply, CommitInvite, CommitStage, CommitReject, CommitRemove,
         CommitStatus, CommitDelete, RollBack, Serving
<1>3. application' \in [Tries -> Stages \cup {None, "DELETED"}]
  BY <1>1, <1>a DEF CommitApply, CommitInvite, CommitStage, CommitReject, CommitRemove,
         CommitStatus, CommitDelete, RollBack, Serving, Move, Stages
<1>4. chat' \in Chats /\ chats' \in 0 .. MaxChats
  <2>1. CASE CommitInvite(q)
    BY <2>1, HireAssumption DEF CommitInvite, Chats
  <2>2. CASE chats' = chats /\ chat' \in {None, chat}
    BY <2>2 DEF Chats
  <2>3. QED
    BY <2>1, <2>2 DEF CommitApply, CommitStage, CommitReject, CommitRemove, CommitStatus,
         CommitDelete, RollBack, PurgeChat
<1>5. purgedBy' \subseteq {"vacancy", "attempt"}
  <2>1. ASSUME NEW by, by \subseteq {"vacancy", "attempt"}, PurgeChat(q, by)
        PROVE  purgedBy' \subseteq {"vacancy", "attempt"}
    BY <2>1 DEF PurgeChat
  <2>2. \A S : {"attempt" : b \in S} \subseteq {"vacancy", "attempt"}
    OBVIOUS
  <2>3. CASE CommitReject(q) \/ CommitRemove(q) \/ CommitStatus(q)
    BY <2>1, <2>2, <2>3, Zenon DEF CommitReject, CommitRemove, CommitStatus
  <2>4. QED
    BY <2>3 DEF CommitApply, CommitInvite, CommitStage, CommitDelete, RollBack
<1>6. QED
  BY <1>1, <1>2, <1>3, <1>4, <1>5, RequestTypes

LEMMA HireTypesStep == HireTypeOK /\ [HireNext]_hireVars => HireTypeOK'
<1> SUFFICES ASSUME HireTypeOK, [HireNext]_hireVars PROVE HireTypeOK'
  OBVIOUS
<1>1. CASE UNCHANGED hireVars
  BY <1>1 DEF hireVars, HireTypeOK
<1>2. CASE HireNext
  BY <1>2, AsksTypes, FindsTypes, AnswersTypes DEF HireNext
<1>3. QED
  BY <1>1, <1>2

-----------------------------------------------------------------------------
(* The chats of ended vacancies.                                           *)

Pending(op) == {q \in Requests : request[q] # NoRequest /\ request[q].op = op}
Writers == Under("status") \cup Under("patch")

\* An invitation or a removal that nothing was entangled with is alone.
DelicateIsAlone ==
    \A q \in Pending("invite") \cup Pending("remove"), p \in Requests :
        request[p] # NoRequest => p = q

NoAttemptOfADeletedVacancy == vacancy = "DELETED" => \A a \in Tries : ~InPipeline(a)

\* An invitation under way finds the vacancy still open, and an ending that has found
\* the chat found the one there is.
EndInv ==
    /\ NoAttemptOfADeletedVacancy
    /\ ~entangled =>
          /\ DelicateIsAlone
          /\ vacancy # "OPEN" => chat = None
          /\ Pending("invite") # {} => vacancy = "OPEN"
          /\ \A q \in Writers : request[q].to # "OPEN" => chat \in {None, request[q].doomed}

LEMMA EndStart == HireInit => EndInv
BY DEF HireInit, EndInv, NoAttemptOfADeletedVacancy, DelicateIsAlone, Pending, Writers, Under, At

LEMMA EndAsk ==
    ASSUME HireTypeOK, EndInv, NEW q \in Requests, NEW r, Ask(q, r), r.at = "read",
           r.op = "invite" => vacancy = "OPEN"
    PROVE  EndInv'
<1>1. /\ request[q] = NoRequest /\ request' = [request EXCEPT ![q] = r]
      /\ UNCHANGED <<vacancy, application, chat, chats, purgedBy>>
      /\ entangled' = (entangled \/ \E p \in Requests \ {q} :
                        request[p] # NoRequest /\ (Delicate(r.op) \/ Delicate(request[p].op)))
  BY DEF Ask
<1>2. request'[q] = r /\ \A p \in Requests \ {q} : request'[p] = request[p]
  BY <1>1 DEF HireTypeOK
<1>3. NoAttemptOfADeletedVacancy'
  BY <1>1 DEF EndInv, NoAttemptOfADeletedVacancy, InPipeline
<1>4. Writers' = Writers
  BY <1>1, <1>2 DEF Writers, Under, At
<1>5. \A p \in Writers : p # q /\ p \in Requests
  BY <1>1 DEF Writers, Under, At
<1>6. ASSUME ~entangled' PROVE DelicateIsAlone'
  <2>1. /\ ~entangled
        /\ \A p \in Requests \ {q} :
              request[p] # NoRequest => ~Delicate(r.op) /\ ~Delicate(request[p].op)
    BY <1>1, <1>6, Zenon
  <2>2. SUFFICES ASSUME NEW s \in Requests, request'[s] # NoRequest, Delicate(request'[s].op),
                        NEW p \in Requests, request'[p] # NoRequest, p # s
                 PROVE  FALSE
    BY DEF DelicateIsAlone, Pending, Delicate
  <2>3. CASE s = q \/ p = q
    BY <1>2, <2>1, <2>2, <2>3
  <2>4. CASE s # q /\ p # q
    BY <1>2, <2>1, <2>2, <2>4 DEF EndInv, DelicateIsAlone, Pending, Delicate
  <2>5. QED
    BY <2>3, <2>4
<1>7. ASSUME ~entangled' PROVE Pending("invite")' # {} => vacancy' = "OPEN"
  BY <1>1, <1>2, <1>7 DEF EndInv, Pending
<1>8. QED
  BY <1>1, <1>2, <1>3, <1>4, <1>5, <1>6, <1>7 DEF EndInv

\* A request goes on with its op, or is answered, and the vacancy and the chat
\* change as an end of the vacancy may change them.
LEMMA EndGoesOn ==
    ASSUME HireTypeOK, EndInv, NEW q \in Requests, NEW x,
           request[q] # NoRequest, request' = [request EXCEPT ![q] = x],
           x # NoRequest => x.op = request[q].op,
           x # NoRequest /\ x.at = "commit" /\ x.op \in {"status", "patch"} /\ x.to # "OPEN"
              => chat' \in {None, x.doomed},
           UNCHANGED entangled, NoAttemptOfADeletedVacancy',
           ~entangled /\ vacancy' # "OPEN" => chat' = None,
           vacancy' = vacancy \/ request[q].op \notin {"invite", "remove"},
           chat' \in {None, chat} \/ request[q].op = "invite"
    PROVE  EndInv'
<1>1. request'[q] = x /\ \A p \in Requests \ {q} : request'[p] = request[p]
  BY DEF HireTypeOK
<1>2. SUFFICES ASSUME ~entangled
               PROVE  /\ DelicateIsAlone' /\ (Pending("invite")' # {} => vacancy' = "OPEN")
                      /\ \A p \in Writers' :
                            request'[p].to # "OPEN" => chat' \in {None, request'[p].doomed}
  BY DEF EndInv
<1>3. DelicateIsAlone'
  BY <1>1, <1>2 DEF EndInv, DelicateIsAlone, Pending
<1>4. ASSUME NEW p \in Pending("invite")' PROVE vacancy' = "OPEN"
  <2>1. p \in Pending("invite")
    BY <1>1, <1>4 DEF Pending
  <2>2. p = q
    BY <1>2, <2>1 DEF EndInv, DelicateIsAlone
  <2>3. QED
    BY <1>2, <2>1, <2>2 DEF EndInv, Pending
<1>5. ASSUME NEW p \in Writers', request'[p].to # "OPEN" PROVE chat' \in {None, request'[p].doomed}
  <2>1. CASE p = q
    BY <1>1, <1>5, <2>1 DEF Writers, Under, At
  <2>2. CASE p # q
    <3>1. p \in Requests /\ request'[p] = request[p] /\ request[p] # NoRequest /\ p \in Writers
      BY <1>1, <1>5, <2>2 DEF Writers, Under, At
    <3>2. chat \in {None, request[p].doomed}
      BY <1>2, <1>5, <3>1 DEF EndInv
    <3>3. request[q].op # "invite"
      BY <1>2, <2>2, <3>1 DEF EndInv, DelicateIsAlone, Pending
    <3>4. QED
      BY <3>1, <3>2, <3>3
  <2>3. QED
    BY <2>1, <2>2
<1>6. QED
  BY <1>3, <1>4, <1>5

LEMMA EndStep ==
    HireTypeOK /\ HireInv /\ EndInv /\ [HireNext]_hireVars => EndInv'
<1> SUFFICES ASSUME HireTypeOK, HireInv, EndInv, [HireNext]_hireVars PROVE EndInv'
  OBVIOUS
<1>1. CASE UNCHANGED hireVars
  BY <1>1 DEF hireVars, EndInv, NoAttemptOfADeletedVacancy, InPipeline, DelicateIsAlone, Pending,
              Writers, Under, At
<1>2. ASSUME NEW q \in Requests,
           \/ \E a \in Tries : \/ AskApply(q, a) \/ AskInvite(q, a)
                               \/ \E op \in {"stage", "reject", "remove"} : AskStage(q, op, a)
           \/ \E to \in {"OPEN"} \cup Ended :
                 AskStatus(q, to) \/ \E write \in BOOLEAN : AskPatch(q, to, write)
           \/ AskDelete(q)
      PROVE  EndInv'
  <2>1. ASSUME NEW r, Ask(q, r), r.at = "read", r.op # "invite" PROVE EndInv'
    BY <2>1, EndAsk
  <2>2. ASSUME NEW a \in Tries, AskInvite(q, a) PROVE EndInv'
    <3>1. vacancy = "OPEN"
      BY <2>2 DEF AskInvite, EndInv, NoAttemptOfADeletedVacancy, HireTypeOK, Ended
    <3>2. Ask(q, About("invite", a)) /\ About("invite", a).at = "read"
      BY <2>2 DEF AskInvite, About, Asked
    <3>3. QED
      BY <3>1, <3>2, EndAsk
  <2>3. ASSUME NEW a \in Tries, NEW op, op # "invite", Ask(q, About(op, a)) PROVE EndInv'
    BY <2>1, <2>3 DEF About, Asked
  <2>4. ASSUME NEW to \in {"OPEN"} \cup Ended, AskStatus(q, to) PROVE EndInv'
    <3> DEFINE r == [Asked("status") EXCEPT !.to = to]
    <3>1. Ask(q, r)
      BY <2>4 DEF AskStatus
    <3>2. r.at = "read" /\ r.op # "invite"
      BY DEF Asked
    <3> HIDE DEF r
    <3>3. QED
      BY <2>1, <3>1, <3>2
  <2>5. ASSUME NEW to \in {"OPEN"} \cup Ended, NEW write \in BOOLEAN, AskPatch(q, to, write)
        PROVE  EndInv'
    <3> DEFINE r == [Asked("patch") EXCEPT !.to = to, !.write = write]
    <3>1. Ask(q, r)
      BY <2>5 DEF AskPatch
    <3>2. r.at = "read" /\ r.op # "invite"
      BY DEF Asked
    <3> HIDE DEF r
    <3>3. QED
      BY <2>1, <3>1, <3>2
  <2>6. CASE AskDelete(q)
    <3>1. Ask(q, Asked("delete")) /\ Asked("delete").at = "read" /\ Asked("delete").op # "invite"
      BY <2>6 DEF AskDelete, Asked
    <3>2. QED
      BY <2>1, <3>1
  <2>7. ASSUME NEW a \in Tries, AskApply(q, a) PROVE EndInv'
    BY <2>3, <2>7 DEF AskApply
  <2>8. ASSUME NEW a \in Tries, NEW op \in {"stage", "reject", "remove"}, AskStage(q, op, a)
        PROVE  EndInv'
    BY <2>3, <2>8 DEF AskStage
  <2>9. QED
    BY <1>2, <2>2, <2>4, <2>5, <2>6, <2>7, <2>8
<1>3. ASSUME NEW q \in Requests, FindForReject(q) \/ FindForRemove(q) \/ FindForStatus(q)
      PROVE  EndInv'
  <2>1. /\ request[q] # NoRequest /\ request[q].at = "read"
        /\ UNCHANGED <<vacancy, application, chat, chats, entangled, purgedBy>>
    BY <1>3 DEF FindForReject, FindForRemove, FindForStatus, At
  <2>2. PICK doomed \in Chats :
          /\ Found(q, doomed)
          /\ request[q].op \in {"status", "patch"} /\ request[q].to # "OPEN" => doomed = chat
    <3>1. CASE FindForReject(q) \/ FindForRemove(q)
      BY <3>1 DEF FindForReject, FindForRemove, At, HireTypeOK
    <3>2. CASE FindForStatus(q)
      <4>1. request[q] \in Serving
        BY <2>1 DEF HireTypeOK, Serving, Asking
      <4>2. request[q].to # "OPEN" => Ends(request[q])
        BY <4>1 DEF Ends, Serving
      <4>3. None \in Chats /\ chat \in Chats
        BY DEF Chats, HireTypeOK
      <4>4. QED
        BY <3>2, <4>2, <4>3 DEF FindForStatus
    <3>3. QED
      BY <1>3, <3>1, <3>2
  <2> DEFINE x == [request[q] EXCEPT !.at = "commit", !.doomed = doomed]
  <2>3. request[q] \in Serving
    BY <2>1 DEF HireTypeOK, Serving, Asking
  <2>4. x.op = request[q].op /\ x.to = request[q].to /\ x.doomed = doomed
    BY <2>3 DEF Serving
  <2>5. request' = [request EXCEPT ![q] = x]
    BY <2>2 DEF Found
  <2> HIDE DEF x
  <2>6. NoAttemptOfADeletedVacancy'
    BY <2>1 DEF EndInv, NoAttemptOfADeletedVacancy, InPipeline
  <2>7. QED
    BY <2>1, <2>2, <2>4, <2>5, <2>6, EndGoesOn DEF EndInv
<1>4. ASSUME NEW q \in Requests,
           \/ CommitApply(q) \/ CommitInvite(q) \/ CommitStage(q) \/ CommitReject(q)
           \/ CommitRemove(q) \/ RollBack(q)
      PROVE  EndInv'
  <2>1. /\ request[q] # NoRequest /\ request' = [request EXCEPT ![q] = NoRequest]
        /\ UNCHANGED <<vacancy, entangled>>
    BY <1>4 DEF CommitApply, CommitInvite, CommitStage, CommitReject, CommitRemove, RollBack,
         Answered, At
  <2>2. chat' \in {None, chat} \/ request[q].op = "invite"
    BY <1>4 DEF CommitApply, CommitInvite, CommitStage, CommitReject, CommitRemove, RollBack,
         PurgeChat, At
  <2>3. ~entangled /\ vacancy' # "OPEN" => chat' = None
    <3>1. CASE CommitInvite(q)
      BY <3>1, <2>1 DEF CommitInvite, At, EndInv, Pending
    <3>2. CASE chat' \in {None, chat}
      BY <3>2, <2>1 DEF EndInv
    <3>3. QED
      BY <1>4, <3>1, <3>2 DEF CommitApply, CommitStage, CommitReject, CommitRemove, RollBack,
         PurgeChat
  <2>4. NoAttemptOfADeletedVacancy'
    <3>1. CASE CommitApply(q)
      BY <2>1, <3>1 DEF CommitApply, NoAttemptOfADeletedVacancy
    <3>2. CASE CommitInvite(q) \/ CommitStage(q) \/ CommitRemove(q) \/ CommitReject(q)
      <4>1. request[q] \in Serving
        BY <2>1 DEF HireTypeOK, Serving, Asking
      <4>2. request[q].attempt \in Tries /\ InPipeline(request[q].attempt)
        <5>1. CASE CommitReject(q)
          BY <4>1, <5>1 DEF CommitReject, HireInv, RejectionHolds, Under, Serving
        <5>2. QED
          BY <3>2, <4>1, <5>1 DEF CommitInvite, CommitStage, CommitRemove, Move, Serving
      <4>3. QED
        BY <2>1, <4>2 DEF EndInv, NoAttemptOfADeletedVacancy
    <3>3. CASE RollBack(q)
      BY <2>1, <3>3 DEF RollBack, EndInv, NoAttemptOfADeletedVacancy, InPipeline
    <3>4. QED
      BY <1>4, <3>1, <3>2, <3>3
  <2>5. QED
    BY <2>1, <2>2, <2>3, <2>4, EndGoesOn
<1>5. ASSUME NEW q \in Requests, CommitStatus(q) PROVE EndInv'
  <2>1. /\ request[q] # NoRequest /\ request' = [request EXCEPT ![q] = NoRequest]
        /\ q \in Writers /\ request[q].op \in {"status", "patch"}
        /\ UNCHANGED <<application, entangled>> /\ chat' \in {None, chat}
        /\ request[q].doomed = chat => chat' = None
        /\ vacancy' = IF request[q].write THEN request[q].to ELSE vacancy
    BY <1>5 DEF CommitStatus, Answered, At, Writers, Under, PurgeChat
  <2>2. request[q].to \in {"OPEN"} \cup Ended
    BY <2>1 DEF HireTypeOK
  <2>3. NoAttemptOfADeletedVacancy'
    BY <2>1, <2>2 DEF EndInv, NoAttemptOfADeletedVacancy, InPipeline, Ended
  <2>4. ~entangled /\ vacancy' # "OPEN" => chat' = None
    BY <2>1 DEF EndInv
  <2>5. QED
    BY <2>1, <2>3, <2>4, EndGoesOn
<1>6. ASSUME NEW q \in Requests, CommitDelete(q) PROVE EndInv'
  <2>1. /\ request[q] # NoRequest /\ request' = [request EXCEPT ![q] = NoRequest]
        /\ request[q].op = "delete" /\ UNCHANGED entangled /\ chat' = None
    BY <1>6 DEF CommitDelete, Answered, At
  <2>2. NoAttemptOfADeletedVacancy'
    BY <1>6, HireAssumption DEF CommitDelete, NoAttemptOfADeletedVacancy, InPipeline, Stages
  <2>3. QED
    BY <2>1, <2>2, EndGoesOn
<1>7. QED
  BY <1>1, <1>2, <1>3, <1>4, <1>5, <1>6 DEF HireNext

\* applications.service.ts and vacancies.service.ts: whatever requests interleave, an
\* ended vacancy has no chat, unless an invitation or a removal overlapped another.
THEOREM EndedHaveNoChat == HireSpec => []EndedHasNoChat
<1>1. EndInv => EndedHasNoChat
  BY DEF EndInv, EndedHasNoChat
<1>2. QED
  BY <1>1, HireTypesStart, HireTypesStep, HireStart, HireStep, EndStart, EndStep, PTL DEF HireSpec

-----------------------------------------------------------------------------
(* The chats of candidates in the interview stage.                         *)

LEMMA InterviewStep ==
    HireTypeOK /\ InterviewKeepsChat /\ [HireNext]_hireVars => InterviewKeepsChat'
<1> SUFFICES ASSUME HireTypeOK, InterviewKeepsChat, [HireNext]_hireVars PROVE InterviewKeepsChat'
  OBVIOUS
<1>1. CASE UNCHANGED <<application, chat, purgedBy>>
  BY <1>1 DEF InterviewKeepsChat
<1>2. ASSUME NEW q \in Requests, CommitInvite(q) PROVE InterviewKeepsChat'
  BY <1>2, HireAssumption DEF CommitInvite, Opens, InterviewKeepsChat, HireTypeOK
<1>3. ASSUME NEW q \in Requests, CommitDelete(q) \/ CommitStatus(q) PROVE InterviewKeepsChat'
  BY <1>3 DEF CommitDelete, CommitStatus, PurgeChat, InterviewKeepsChat
<1>4. ASSUME NEW q \in Requests, CommitApply(q) \/ CommitStage(q) PROVE InterviewKeepsChat'
  <2>1. /\ UNCHANGED <<chat, purgedBy>>
        /\ application' = [application EXCEPT ![request[q].attempt] = "NEW"]
    BY <1>4 DEF CommitApply, CommitStage, Move
  <2>2. QED
    BY <2>1 DEF InterviewKeepsChat, HireTypeOK
<1>5. ASSUME NEW q \in Requests, CommitReject(q) \/ CommitRemove(q) PROVE InterviewKeepsChat'
  <2> DEFINE a == request[q].attempt
             rest == {"attempt" : b \in {c \in Tries \ {a} : Alive(c)}}
  <2>1. PICK status \in {"REJECTED", "DELETED"} :
            application' = [application EXCEPT ![a] = status]
    BY <1>5 DEF CommitReject, CommitRemove
  <2>2. /\ chat' = IF request[q].doomed = chat THEN None ELSE chat
        /\ purgedBy' = IF chat' # chat THEN purgedBy \cup rest ELSE purgedBy
    BY <1>5 DEF CommitReject, CommitRemove, PurgeChat
  <2>3. SUFFICES ASSUME NEW b \in Tries, application'[b] = "INTERVIEW", chat' = None
                 PROVE  purgedBy' # {}
    BY DEF InterviewKeepsChat
  <2>4. b # a /\ application[b] = "INTERVIEW"
    BY <2>1, <2>3 DEF HireTypeOK
  <2>5. "attempt" \in rest
    BY <2>4 DEF Alive
  <2>6. CASE chat' = chat
    BY <2>2, <2>3, <2>4, <2>6 DEF InterviewKeepsChat
  <2> HIDE DEF rest
  <2>7. QED
    BY <2>2, <2>5, <2>6
<1>6. CASE HireNext
  <2>1. PICK q \in Requests :
          \/ UNCHANGED <<application, chat, purgedBy>>
          \/ CommitApply(q) \/ CommitInvite(q) \/ CommitStage(q)
          \/ CommitReject(q) \/ CommitRemove(q) \/ CommitStatus(q) \/ CommitDelete(q)
    BY <1>6 DEF HireNext, AskApply, AskInvite, AskStage, AskStatus, AskPatch, AskDelete, Ask,
         FindForReject, FindForRemove, FindForStatus, RollBack
  <2>2. QED
    BY <2>1, <1>1, <1>2, <1>3, <1>4, <1>5
<1>7. QED
  BY <1>1, <1>6 DEF hireVars

\* createForInvitationTx and purgeForCandidateVacancy: a candidate in the interview stage
\* has the chat, unless the vacancy or another attempt purged it since.
THEOREM InterviewsKeepChat == HireSpec => []InterviewKeepsChat
<1>1. HireInit => InterviewKeepsChat
  BY HireAssumption DEF HireInit, InterviewKeepsChat, Stages
<1>2. QED
  BY <1>1, HireTypesStart, HireTypesStep, InterviewStep, PTL DEF HireSpec

-----------------------------------------------------------------------------
(* The document queue.                                                     *)

\* The worker has its job, and what it found gone stays gone.
WorkerInv ==
    /\ work # "idle" <=> queued.state = "active"
    /\ work \in {"evict", "missing"} => document = "GONE"

\* A request that the worker has not overtaken is yet to say that its job waits.
DemandInv ==
    \A q \in Demands :
        demand[q].at \in {"job", "document"} /\ ~demand[q].late => queued.state = "waiting"

\* A document in progress has a request or a worker that will say otherwise.
StatusIsExplained ==
    document \in InProgress =>
        blame \cap {"overtaken", "late", "request", "worker"} # {} \/ Underway

\* Chunks of a document that is gone are still to be evicted.
ChunksAreExplained ==
    document = "GONE" /\ chunks =>
        \/ "eviction" \in blame \/ \E q \in Demands : DemandAt(q, "evict")
        \/ queued.state = "waiting" \/ work \in {"check", "evict", "missing"}

DocInv == DocTypeOK /\ WorkerInv /\ DemandInv /\ StatusIsExplained /\ ChunksAreExplained

LEMMA DocStart == DocInit => DocInv
<1> SUFFICES ASSUME DocInit PROVE DocInv
  OBVIOUS
<1>1. /\ demand \in [Demands -> [at : {"idle", "create", "enqueue", "job", "document", "evict"},
                                 late : BOOLEAN, newest : BOOLEAN]]
      /\ \A q \in Demands : demand[q].at = "idle"
  BY DEF DocInit, NoDemand
<1>2. queued \in [state : {"none", "waiting", "active", "kept"}, tries : 0 .. JobAttempts - 1]
      /\ queued.state = "none"
  BY DocAssumption DEF DocInit, NotQueued
<1>3. /\ document = "UPLOADED" /\ tracking = None /\ work = "idle" /\ stray = {}
      /\ chunks = FALSE /\ blame = {} /\ docFaults \in 0 .. MaxDocFaults
  BY DocAssumption DEF DocInit
<1>a. DocTypeOK
  BY <1>1, <1>2, <1>3 DEF DocTypeOK
<1>4. QED
  BY <1>1, <1>2, <1>3, <1>a
     DEF DocInv, WorkerInv, DemandInv, StatusIsExplained, ChunksAreExplained, InProgress

Demanding ==
    [at : {"idle", "create", "enqueue", "job", "document", "evict"}, late : BOOLEAN,
     newest : BOOLEAN]

Queueing == [state : {"none", "waiting", "active", "kept"}, tries : 0 .. JobAttempts - 1]

LEMMA DemandRecords ==
    /\ NoDemand \in Demanding /\ NoDemand.at = "idle"
    /\ NotQueued \in Queueing /\ NotQueued.state = "none"
    /\ OverAndDone \in Queueing /\ OverAndDone.state = "kept"
    /\ \A n \in 0 .. JobAttempts - 1 : InLine(n) \in Queueing /\ InLine(n).state = "waiting"
BY DocAssumption DEF NotQueued, OverAndDone, InLine, NoDemand, Demanding, Queueing

\* One request goes on; what the others rely on stays.
LEMMA DemandGoesOn ==
    ASSUME DocInv, NEW q \in Demands, NEW x \in Demanding, demand' \in [Demands -> Demanding],
           demand'[q] = x,
           \A p \in Demands \ {q} :
               demand'[p].at = demand[p].at /\ demand'[p].late = demand[p].late,
           document' = document \/ demand[q].at = "document" \/ document' = "GONE",
           document' \in {"UPLOADED", "COMPLETED", "FAILED", "GONE"} \cup InProgress,
           document = "GONE" => document' = "GONE",
           document' = "GONE" /\ document # "GONE" => x.at = "evict",
           tracking' \in {None, "PENDING", "QUEUED", "RUNNING", "COMPLETED", "FAILED"},
           queued' \in Queueing, queued' = queued \/ (~Underway /\ queued'.state = "waiting"),
           UNCHANGED <<work, stray>>, docFaults' \in 0 .. MaxDocFaults,
           chunks' \in {FALSE, chunks},
           blame \subseteq blame',
           blame' \subseteq {"overtaken", "late", "request", "worker", "eviction"},
           x.at \in {"job", "document"} /\ ~x.late => queued'.state = "waiting",
           document' \in InProgress /\ document' # document =>
               "overtaken" \in blame' \/ queued'.state = "waiting",
           demand[q].at = "evict" /\ chunks' => "eviction" \in blame'
    PROVE  DocInv'
<1>2. DocTypeOK'
  BY DEF DocInv, DocTypeOK, Demanding, Queueing
<1>3. queued.state = "waiting" => queued'.state = "waiting"
  BY DEF Underway
<1>4. queued.state = "active" <=> queued'.state = "active"
  BY DEF Underway
<1>5. WorkerInv'
  BY <1>4 DEF DocInv, WorkerInv
<1>6. DemandInv'
  BY <1>3 DEF DocInv, DemandInv
<1>7. StatusIsExplained'
  BY <1>3, <1>4 DEF DocInv, StatusIsExplained, Underway
<1>8. ChunksAreExplained'
  <2>1. SUFFICES ASSUME document' = "GONE", chunks', "eviction" \notin blame',
                        ~\E p \in Demands : demand'[p].at = "evict",
                        queued'.state # "waiting", work' \notin {"check", "evict", "missing"}
                 PROVE  FALSE
    BY DEF ChunksAreExplained, DemandAt
  <2>2. document = "GONE" /\ chunks /\ "eviction" \notin blame
    BY <2>1
  <2>3. PICK p \in Demands : demand[p].at = "evict"
    BY <1>3, <2>1, <2>2 DEF DocInv, ChunksAreExplained, DemandAt
  <2>4. p # q
    BY <2>1, <2>3
  <2>5. QED
    BY <2>1, <2>3, <2>4
<1>9. QED
  BY <1>2, <1>5, <1>6, <1>7, <1>8 DEF DocInv

LEMMA RequestsKeep ==
    ASSUME DocInv, NEW q \in Demands,
           \/ AskReprocess(q) \/ CreateTracking(q) \/ EnqueueDocument(q)
           \/ MarkJobQueued(q) \/ MarkDocumentQueued(q)
           \/ DeleteDocument(q) \/ EvictChunks(q) \/ DemandFails(q)
    PROVE  DocInv'
<1> USE DocAssumption DEF DocFault, DemandAt, Present
<1>1. /\ demand \in [Demands -> Demanding] /\ queued \in Queueing
      /\ document \in {"UPLOADED", "COMPLETED", "FAILED", "GONE"} \cup InProgress
      /\ tracking \in {None, "PENDING", "QUEUED", "RUNNING", "COMPLETED", "FAILED"}
      /\ chunks \in BOOLEAN /\ docFaults \in 0 .. MaxDocFaults
      /\ blame \subseteq {"overtaken", "late", "request", "worker", "eviction"}
  BY DEF DocInv, DocTypeOK, Demanding, Queueing
<1>2. ASSUME NEW step \in {"create", "document", "evict"}, Proceed(q, step)
      PROVE  /\ demand' \in [Demands -> Demanding]
             /\ demand'[q].at = step /\ demand'[q].late = demand[q].late
             /\ \A p \in Demands \ {q} : demand'[p] = demand[p]
  BY <1>1, <1>2 DEF Proceed, Demanding
<1>3. ASSUME Served(q)
      PROVE  /\ demand' \in [Demands -> Demanding] /\ demand'[q].at = "idle"
             /\ \A p \in Demands \ {q} : demand'[p] = demand[p]
  BY <1>1, <1>3, DemandRecords DEF Served
<1>4. CASE AskReprocess(q)
  <2>1. UNCHANGED <<document, tracking, queued, work, stray, chunks, blame, docFaults>>
    BY <1>4 DEF AskReprocess
  <2>2. /\ demand' \in [Demands -> Demanding] /\ demand[q].at = "idle" /\ demand'[q].at = "create"
        /\ \A p \in Demands \ {q} : demand'[p] = demand[p]
    BY <1>2, <1>4 DEF AskReprocess
  <2>3. QED
    BY <1>1, <2>1, <2>2, DemandGoesOn
<1>5. CASE CreateTracking(q)
  <2>1. document' = document /\ UNCHANGED <<queued, work, stray, chunks, blame, docFaults>>
    BY <1>5 DEF CreateTracking
  <2>2. CASE document = "GONE"
    <3>1. Served(q) /\ tracking' = tracking /\ demand[q].at = "create"
      BY <1>5, <2>2 DEF CreateTracking
    <3>2. QED
      BY <1>1, <1>3, <2>1, <3>1, DemandGoesOn
  <2>3. CASE document # "GONE"
    <3>1. /\ tracking' = "PENDING" /\ demand[q].at = "create"
          /\ demand' = [p \in Demands |->
                  IF p = q THEN [demand[p] EXCEPT !.at = "enqueue", !.newest = TRUE]
                           ELSE [demand[p] EXCEPT !.newest = FALSE]]
      BY <1>5, <2>3 DEF CreateTracking
    <3>2. demand' \in [Demands -> Demanding] /\ demand'[q].at = "enqueue"
      BY <1>1, <3>1 DEF Demanding
    <3>3. \A p \in Demands \ {q} : demand'[p].at = demand[p].at /\ demand'[p].late = demand[p].late
      BY <1>1, <3>1 DEF Demanding
    <3>4. QED
      BY <1>1, <2>1, <3>1, <3>2, <3>3, DemandGoesOn
  <2>4. QED
    BY <2>2, <2>3
<1>6. CASE EnqueueDocument(q)
  <2>1. document' = document /\ UNCHANGED <<tracking, work, stray, chunks, blame, docFaults>>
    BY <1>6 DEF EnqueueDocument
  <2> DEFINE late == queued.state = "active"
  <2>2. /\ demand' = [demand EXCEPT ![q].at = "job", ![q].late = late]
        /\ demand[q].at = "enqueue"
        /\ queued' = IF ~Underway THEN InLine(0) ELSE queued
    BY <1>6 DEF EnqueueDocument, Replaces
  <2>a. late \in BOOLEAN /\ (~late => queued.state # "active")
    OBVIOUS
  <2> HIDE DEF late
  <2>3. /\ demand' \in [Demands -> Demanding]
        /\ demand'[q].at = "job" /\ demand'[q].late = late
        /\ \A p \in Demands \ {q} : demand'[p] = demand[p]
    BY <1>1, <2>2, <2>a DEF Demanding
  <2>4. queued' \in Queueing /\ (queued' = queued \/ (~Underway /\ queued'.state = "waiting"))
    BY <1>1, <2>2, DemandRecords
  <2>5. ~demand'[q].late => queued'.state = "waiting"
    BY <1>1, <2>2, <2>3, <2>a, DemandRecords DEF Underway, Queueing
  <2>6. QED
    BY <1>1, <2>1, <2>2, <2>3, <2>4, <2>5, DemandGoesOn
<1>7. CASE MarkJobQueued(q)
  <2>1. /\ document' = document /\ UNCHANGED <<queued, work, stray, chunks, blame, docFaults>>
        /\ demand[q].at = "job" /\ (Proceed(q, "document") \/ Served(q))
        /\ tracking' \in {tracking, "QUEUED"}
    BY <1>7 DEF MarkJobQueued
  <2>2. ~demand[q].late => queued.state = "waiting"
    BY <2>1 DEF DocInv, DemandInv
  <2>3. QED
    BY <1>1, <1>2, <1>3, <2>1, <2>2, DemandGoesOn
<1>8. CASE MarkDocumentQueued(q)
  <2>1. /\ UNCHANGED <<tracking, queued, work, stray, chunks, docFaults>>
        /\ demand[q].at = "document" /\ Served(q)
        /\ document' = IF document # "GONE" THEN "QUEUED" ELSE document
        /\ blame' = IF demand[q].late THEN blame \cup {"overtaken"} ELSE blame
    BY <1>8 DEF MarkDocumentQueued
  <2>2. "overtaken" \in blame' \/ queued'.state = "waiting"
    BY <2>1 DEF DocInv, DemandInv
  <2>3. QED
    BY <1>1, <1>3, <2>1, <2>2, DemandGoesOn DEF InProgress
<1>9. CASE DeleteDocument(q)
  <2>1. /\ UNCHANGED <<queued, work, stray, chunks, blame, docFaults>>
        /\ demand[q].at = "idle" /\ Proceed(q, "evict")
        /\ document' = "GONE" /\ tracking' = None
    BY <1>9 DEF DeleteDocument
  <2>2. QED
    BY <1>1, <1>2, <2>1, DemandGoesOn DEF InProgress
<1>10. CASE EvictChunks(q) \/ DemandFails(q)
  <2>1. /\ UNCHANGED <<document, tracking, queued, work, stray>> /\ Served(q)
        /\ chunks' \in {FALSE, chunks}
        /\ docFaults' = docFaults \/ (docFaults < MaxDocFaults /\ docFaults' = docFaults + 1)
    BY <1>10 DEF EvictChunks, DemandFails
  <2>b. docFaults' \in 0 .. MaxDocFaults
    BY <1>1, <2>1
  <2>a. /\ blame \subseteq blame'
        /\ blame' \subseteq {"overtaken", "late", "request", "worker", "eviction"}
        /\ demand[q].at = "evict" /\ chunks' => "eviction" \in blame'
    <3>1. CASE EvictChunks(q)
      BY <1>1, <3>1 DEF EvictChunks
    <3>2. CASE DemandFails(q) /\ demand[q].at = "evict"
      BY <1>1, <3>2 DEF DemandFails
    <3>3. CASE DemandFails(q) /\ demand[q].at # "evict"
      BY <1>1, <3>3 DEF DemandFails
    <3>4. QED
      BY <1>10, <3>1, <3>2, <3>3
  <2>2. QED
    BY <1>1, <1>3, <2>1, <2>a, <2>b, DemandGoesOn
<1>11. QED
  BY <1>4, <1>5, <1>6, <1>7, <1>8, <1>9, <1>10

\* A step of the worker or of the AI service.
LEMMA WorkGoesOn ==
    ASSUME DocInv, demand' \in [Demands -> Demanding],
           document' \in {"UPLOADED", "COMPLETED", "FAILED", "GONE"} \cup InProgress,
           document = "GONE" <=> document' = "GONE",
           tracking' \in {None, "PENDING", "QUEUED", "RUNNING", "COMPLETED", "FAILED"},
           queued' \in Queueing, queued.state # "none" => queued'.state # "none",
           work' \in {"idle", "ai", "check", "complete", "evict", "missing"},
           stray' \subseteq {"call", "report"}, chunks' \in BOOLEAN,
           docFaults' \in 0 .. MaxDocFaults,
           blame' \subseteq {"overtaken", "late", "request", "worker", "eviction"},
           WorkerInv', StatusIsExplained',
           \A q \in Demands :
              /\ demand'[q].at = demand[q].at
              /\ demand'[q].at \in {"job", "document"} /\ ~demand'[q].late =>
                    ~demand[q].late /\ (queued.state = "waiting" => queued'.state = "waiting"),
           "eviction" \in blame => "eviction" \in blame',
           document' = "GONE" /\ chunks' => 
              \/ chunks /\ ~(queued.state = "waiting" \/ work \in {"check", "evict", "missing"})
              \/ "eviction" \in blame' \/ queued'.state = "waiting"
              \/ work' \in {"check", "evict", "missing"}
    PROVE  DocInv'
<1>1. DocTypeOK'
  BY DEF DocTypeOK, Demanding, Queueing
<1>2. DemandInv'
  BY DEF DocInv, DemandInv
<1>3. ChunksAreExplained'
  BY DEF DocInv, ChunksAreExplained, DemandAt
<1>4. QED
  BY <1>1, <1>2, <1>3 DEF DocInv

\* What each step of the worker or of the AI service may count on.
LEMMA WorkTypes ==
    ASSUME DocInv
    PROVE  /\ demand \in [Demands -> Demanding] /\ queued \in Queueing
           /\ document \in {"UPLOADED", "COMPLETED", "FAILED", "GONE"} \cup InProgress
           /\ tracking \in {None, "PENDING", "QUEUED", "RUNNING", "COMPLETED", "FAILED"}
           /\ work \in {"idle", "ai", "check", "complete", "evict", "missing"}
           /\ stray \subseteq {"call", "report"}
           /\ chunks \in BOOLEAN /\ docFaults \in 0 .. MaxDocFaults
           /\ blame \subseteq {"overtaken", "late", "request", "worker", "eviction"}
BY DEF DocInv, DocTypeOK, Demanding, Queueing

LEMMA FaultTypes == ASSUME DocInv, DocFault PROVE docFaults' \in 0 .. MaxDocFaults
BY DocAssumption DEF DocFault, DocInv, DocTypeOK

LEMMA AgainTypes ==
    ASSUME DocInv, Again
    PROVE  work' = "idle" /\ queued' \in Queueing /\ queued'.state \in {"waiting", "kept"}
<1>1. queued.tries \in 0 .. JobAttempts - 1
  BY DEF DocInv, DocTypeOK
<1>2. CASE queued.tries + 1 < JobAttempts
  <2>1. queued.tries + 1 \in 0 .. JobAttempts - 1
    BY <1>1, <1>2, DocAssumption
  <2>2. QED
    BY <1>2, <2>1, DemandRecords DEF Again
<1>3. QED
  BY <1>2, DemandRecords DEF Again

LEMMA TakeJobKeeps == ASSUME DocInv, TakeJob PROVE DocInv'
<1>1. /\ queued.state = "waiting" /\ work = "idle"
      /\ queued' = [queued EXCEPT !.state = "active"]
      /\ work' = IF document # "GONE" THEN "ai" ELSE "missing"
      /\ demand' = [q \in Demands |->
            IF demand[q].at \in {"job", "document"} THEN [demand[q] EXCEPT !.late = TRUE]
                                                    ELSE demand[q]]
      /\ UNCHANGED <<document, tracking, stray, chunks, blame, docFaults>>
  BY DEF TakeJob, Present
<1>2. queued' \in Queueing /\ queued'.state = "active"
  BY <1>1, WorkTypes DEF Queueing
<1>3. demand' \in [Demands -> Demanding]
  BY <1>1, WorkTypes DEF Demanding
<1>4. \A q \in Demands : /\ demand'[q].at = demand[q].at
                         /\ demand'[q].at \in {"job", "document"} => demand'[q].late
  BY <1>1, WorkTypes DEF Demanding
<1>5. WorkerInv' /\ StatusIsExplained'
  BY <1>1, <1>2 DEF DocInv, WorkerInv, StatusIsExplained, Underway
<1>6. document' = "GONE" => work' = "missing"
  BY <1>1
<1>7. QED
  BY <1>1, <1>2, <1>3, <1>4, <1>5, <1>6, WorkTypes, WorkGoesOn

LEMMA AiKeeps ==
    ASSUME DocInv, \/ ReportStage \/ ReportLags \/ IndexChunks \/ StrayIndexes \/ StrayEnds
                   \/ CheckExists
    PROVE  DocInv'
<1> USE WorkTypes DEF Present
<1>1. CASE ReportStage
  <2>1. /\ work = "ai" \/ stray # {}
        /\ document # "GONE" /\ document' = "INDEXING"
        /\ tracking' = IF tracking = None THEN None ELSE "RUNNING"
        /\ blame' = IF work = "ai" THEN blame ELSE blame \cup {"late"}
        /\ UNCHANGED <<queued, work, stray, chunks, demand, docFaults>>
    BY <1>1 DEF ReportStage
  <2>2. WorkerInv' /\ StatusIsExplained'
    BY <2>1 DEF DocInv, WorkerInv, StatusIsExplained, Underway
  <2>3. blame' \subseteq {"overtaken", "late", "request", "worker", "eviction"}
    BY <2>1
  <2>4. QED
    BY <2>1, <2>2, <2>3, WorkGoesOn DEF InProgress
<1>2. CASE ReportLags
  <2>1. /\ docFaults' \in 0 .. MaxDocFaults /\ stray' = stray \cup {"report"}
        /\ UNCHANGED <<document, tracking, queued, work, chunks, demand, blame>>
    BY <1>2, FaultTypes DEF ReportLags
  <2>2. WorkerInv' /\ StatusIsExplained'
    BY <2>1 DEF DocInv, WorkerInv, StatusIsExplained, Underway
  <2>3. QED
    BY <2>1, <2>2, WorkGoesOn
<1>3. CASE IndexChunks
  <2>1. /\ work = "ai" /\ chunks' = TRUE /\ work' = "check"
        /\ UNCHANGED <<document, tracking, queued, stray, demand, blame, docFaults>>
    BY <1>3 DEF IndexChunks
  <2>2. WorkerInv' /\ StatusIsExplained'
    BY <2>1 DEF DocInv, WorkerInv, StatusIsExplained, Underway
  <2>3. QED
    BY <2>1, <2>2, WorkGoesOn
<1>4. CASE StrayIndexes
  <2>1. /\ chunks' = TRUE /\ stray' = stray \ {"call"}
        /\ blame' = IF document # "GONE" THEN blame ELSE blame \cup {"eviction"}
        /\ UNCHANGED <<document, tracking, queued, work, demand, docFaults>>
    BY <1>4 DEF StrayIndexes
  <2>2. WorkerInv' /\ StatusIsExplained'
    BY <2>1 DEF DocInv, WorkerInv, StatusIsExplained, Underway, InProgress
  <2>3. blame' \subseteq {"overtaken", "late", "request", "worker", "eviction"}
    BY <2>1
  <2>4. QED
    BY <2>1, <2>2, <2>3, WorkGoesOn
<1>5. CASE StrayEnds
  <2>1. /\ stray' \subseteq {"call", "report"}
        /\ UNCHANGED <<document, tracking, queued, work, chunks, demand, blame, docFaults>>
    BY <1>5 DEF StrayEnds
  <2>2. WorkerInv' /\ StatusIsExplained'
    BY <2>1 DEF DocInv, WorkerInv, StatusIsExplained, Underway
  <2>3. QED
    BY <2>1, <2>2, WorkGoesOn
<1>6. CASE CheckExists
  <2>1. /\ work = "check" /\ work' = IF document # "GONE" THEN "complete" ELSE "evict"
        /\ UNCHANGED <<document, tracking, queued, stray, chunks, demand, blame, docFaults>>
    BY <1>6 DEF CheckExists
  <2>2. WorkerInv' /\ StatusIsExplained'
    BY <2>1 DEF DocInv, WorkerInv, StatusIsExplained, Underway
  <2>3. QED
    BY <2>1, <2>2, WorkGoesOn
<1>7. QED
  BY <1>1, <1>2, <1>3, <1>4, <1>5, <1>6

\* An attempt that is over leaves the job to another one, or kept as it ended.
LEMMA AttemptEnds ==
    ASSUME DocInv, work # "idle", work' = "idle", UNCHANGED demand,
           document' \in {document, "COMPLETED", "FAILED"},
           document = "GONE" <=> document' = "GONE",
           tracking' \in {tracking, "COMPLETED", "FAILED"},
           queued' \in Queueing, queued'.state \in {"waiting", "kept"},
           stray' \subseteq {"call", "report"}, chunks' \in BOOLEAN,
           docFaults' \in 0 .. MaxDocFaults,
           blame' \subseteq {"overtaken", "late", "request", "worker", "eviction"},
           "eviction" \in blame => "eviction" \in blame',
           document' \in InProgress => "worker" \in blame' \/ queued'.state = "waiting",
           document' = "GONE" /\ chunks' =>
              \/ "eviction" \in blame' \/ queued'.state = "waiting"
              \/ chunks /\ work \notin {"check", "evict", "missing"}
    PROVE  DocInv'
<1>1. queued.state = "active"
  BY DEF DocInv, WorkerInv
<1>2. WorkerInv' /\ StatusIsExplained'
  BY DEF WorkerInv, StatusIsExplained, Underway
<1>3. QED
  BY <1>1, <1>2, WorkTypes, WorkGoesOn

LEMMA AttemptsEnd ==
    ASSUME DocInv, AiFails \/ CompleteDocument \/ WorkerEvicts \/ WorkerStalls
    PROVE  DocInv'
<1> USE WorkTypes DEF Present
<1>1. CASE AiFails
  <2>1. /\ work = "ai" /\ Again /\ UNCHANGED demand
        /\ document' = IF document # "GONE" THEN "FAILED" ELSE document
        /\ tracking' \in {tracking, "FAILED"}
        /\ blame' = blame \ {"overtaken", "late", "request", "worker"}
    BY <1>1 DEF AiFails, Settle, Attempt
  <2>2. /\ stray' \subseteq {"call", "report"} /\ docFaults' \in 0 .. MaxDocFaults
        /\ chunks' = chunks \/ chunks' = FALSE
    BY <1>1, FaultTypes DEF AiFails
  <2>3. document' \notin InProgress /\ document' \in {document, "FAILED"}
    BY <2>1 DEF InProgress
  <2>4. /\ blame' \subseteq {"overtaken", "late", "request", "worker", "eviction"}
        /\ "eviction" \in blame => "eviction" \in blame'
    BY <2>1
  <2>5. /\ work' = "idle" /\ queued' \in Queueing /\ queued'.state \in {"waiting", "kept"}
    BY <2>1, AgainTypes
  <2>6. document = "GONE" <=> document' = "GONE"
    BY <2>1
  <2>7. chunks' \in BOOLEAN /\ (chunks' => chunks)
    <3>1. CASE chunks' = chunks
      BY <3>1
    <3>2. CASE chunks' = FALSE
      BY <3>2
    <3>3. QED
      BY <2>2, <3>1, <3>2
  <2>8. QED
    BY <2>1, <2>2, <2>3, <2>4, <2>5, <2>6, <2>7, AttemptEnds
<1>2. CASE CompleteDocument
  <2>1. /\ work = "complete" /\ UNCHANGED <<stray, chunks, demand, docFaults>>
        /\ document' = IF document # "GONE" THEN "COMPLETED" ELSE document
        /\ tracking' \in {tracking, "COMPLETED"}
        /\ blame' \in {blame, blame \ {"overtaken", "late", "request", "worker"}}
    BY <1>2 DEF CompleteDocument, Settle, Attempt
  <2>2. work' = "idle" /\ queued' \in Queueing /\ queued'.state \in {"waiting", "kept"}
    BY <1>2, AgainTypes, DemandRecords DEF CompleteDocument
  <2>3. QED
    BY <2>1, <2>2, AttemptEnds DEF InProgress
<1>3. CASE WorkerEvicts
  <2>1. /\ work \in {"evict", "missing"} /\ UNCHANGED <<document, tracking, stray, demand>>
        /\ \/ chunks' = FALSE /\ UNCHANGED <<blame, docFaults>>
           \/ DocFault /\ UNCHANGED chunks /\ blame' = blame \cup {"eviction"}
    BY <1>3 DEF WorkerEvicts, Evicted
  <2>2. work' = "idle" /\ queued' \in Queueing /\ queued'.state \in {"waiting", "kept"}
    BY <1>3, AgainTypes, DemandRecords DEF WorkerEvicts
  <2>3. document = "GONE"
    BY <2>1 DEF DocInv, WorkerInv
  <2>4. docFaults' \in 0 .. MaxDocFaults
    BY <2>1, FaultTypes
  <2>5. QED
    BY <2>1, <2>2, <2>3, <2>4, AttemptEnds DEF InProgress
<1>4. CASE WorkerStalls
  <2>1. /\ work # "idle" /\ work' = "idle" /\ docFaults' \in 0 .. MaxDocFaults
        /\ stray' \subseteq {"call", "report"}
        /\ UNCHANGED <<document, tracking, chunks, demand>>
    BY <1>4, FaultTypes DEF WorkerStalls
  <2>2. queued.tries \in 0 .. JobAttempts - 1
    BY DEF Queueing
  <2>3. CASE queued' = InLine(queued.tries) /\ UNCHANGED blame
    BY <2>1, <2>2, <2>3, DemandRecords, AttemptEnds
  <2>4. CASE queued' = OverAndDone /\ blame' = blame \cup {"worker", "eviction"}
    BY <2>1, <2>4, DemandRecords, AttemptEnds
  <2>5. QED
    BY <1>4, <2>3, <2>4 DEF WorkerStalls
<1>5. QED
  BY <1>1, <1>2, <1>3, <1>4

LEMMA DocStep == DocInv /\ [DocNext]_docVars => DocInv'
<1> SUFFICES ASSUME DocInv, [DocNext]_docVars PROVE DocInv'
  OBVIOUS
<1>1. CASE UNCHANGED docVars
  BY <1>1 DEF docVars, DocInv, DocTypeOK, WorkerInv, DemandInv, StatusIsExplained,
              ChunksAreExplained, DemandAt, Underway
<1>2. QED
  BY <1>1, RequestsKeep, TakeJobKeeps, AiKeeps, AttemptsEnd DEF DocNext

\* documents.service.ts, processing.service.ts and document-processing.processor.ts: a
\* document left in progress, or chunks left of a deleted one, have an explanation.
THEOREM WhatIsLeftIsExplained == DocSpec => []LeftBehindExplained
<1>1. DocInv => LeftBehindExplained
  <2> SUFFICES ASSUME DocInv, AtRest PROVE
        /\ document \in InProgress => blame \cap {"overtaken", "late", "request", "worker"} # {}
        /\ document = "GONE" /\ chunks => "eviction" \in blame
    BY DEF LeftBehindExplained
  <2>1. ~Underway /\ work = "idle" /\ \A q \in Demands : ~DemandAt(q, "evict")
    BY DEF AtRest, DemandAt
  <2>2. QED
    BY <2>1 DEF DocInv, StatusIsExplained, ChunksAreExplained, Underway
<1>2. QED
  BY <1>1, DocStart, DocStep, PTL DEF DocSpec

-----------------------------------------------------------------------------
(* All of them.                                                            *)

\* Each component moves on its own, and stutters while another one moves.
LEMMA ComponentsMove ==
    [Next]_<<component, matchVars, jobsVars, hireVars, docVars, syncVars>> =>
        /\ [MatchNext]_matchVars /\ [JobsNext]_jobsVars /\ [HireNext]_hireVars
        /\ [DocNext]_docVars /\ [SyncNext]_syncVars
BY Zenon DEF Next, MatchMoves, JobsMove, HiringMoves, DocumentMoves, VacancyMoves

\* The variables of the components keep their types and the counters their bounds,
\* for every number of readers, sweeps, requests, demands and workers.
THEOREM RecruitingTypesHold == Spec => []TypesOK
<1> DEFINE Inv == /\ MatchTypeOK /\ JobsInv /\ JobsTypeOK
                  /\ HireTypeOK /\ DocInv /\ SyncInv /\ SyncTypeOK
           vars == <<component, matchVars, jobsVars, hireVars, docVars, syncVars>>
<1>1. Init => Inv
  BY MatchTypesStart, JobsStart, JobsTypesStart, HireTypesStart, DocStart, SyncStart,
     SyncTypesStart DEF Init
<1>2. Inv /\ [Next]_vars => Inv'
  BY ComponentsMove, MatchTypesStep, JobsStep, JobsTypesStep, HireTypesStep, DocStep,
     SyncIsInductive, SyncTypesStep
<1>3. Inv => TypesOK
  BY DEF TypesOK, DocInv
<1>4. QED
  BY <1>1, <1>2, <1>3, PTL DEF Spec
===============================================================================
